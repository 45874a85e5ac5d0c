---------------------------- MODULE TypedSamples ----------------------------
(* Programs over texts and terms for the dataflow engines, by name.          *)
EXTENDS ProgramComposition

\* The characters of the texts are 1 and 2; a negative cell is an atom.
A == <<1>>
B == <<2>>

-----------------------------------------------------------------------------
(* Terms.                                                                    *)

\* Every box, the boxes of the words, and how many boxes there are, with the
\* least and the greatest.  Boxes are read before they are minted.
Boxes ==
  Typed(<<A, B>>, <<Ground("box", <<Arg("text", 1)>>)>>,
        [word |-> Source(<<"text">>), box |-> Constructor(1, <<"id", "text">>),
         all |-> Derived(<<"id", "text">>), mine |-> Derived(<<"id">>), ends |-> Derived(<<"int", "id", "id">>)],
        <<Get("box"), Get("all"), Reduce(2, <<>>, <<Agg("count", 1), Agg("min", 1), Agg("max", 1)>>),
          Get("word"), Mint(4, "box", <<1>>), Mfp(5, <<>>, <<>>, <<2>>)>>,
        <<Let("all", 1), Let("mine", 6), Let("ends", 3)>>, <<"all", "mine", "ends">>)

\* What the items hold that are boxes, before any other column; the first of them
\* in the order of what they hold, and the items that are greater than box("a").
Held ==
  Typed(<<A>>, <<Ground("box", <<Arg("text", 1)>>), Ground("pair", <<Arg("term", 1), Arg("raw", 0)>>)>>,
        [item |-> Source(<<"id">>), box |-> Constructor(1, <<"id", "text">>),
         pair |-> Constructor(2, <<"id", "id", "int">>), held |-> Derived(<<"id", "text">>),
         first |-> Derived(<<"id", "text">>), greater |-> Derived(<<"id">>)],
        <<Get("item"), Get("box"), Join(2, 1, <<1>>, <<1>>, <<3, 2>>), TopK(3, <<>>, <<2>>, 1),
          Mfp(1, <<Call("term<", <<TermLit(1), Column(1)>>)>>, <<>>, <<1>>)>>,
        <<Let("held", 3), Let("first", 4), Let("greater", 5)>>, <<"held", "first", "greater">>)

\* walk(x, trail): start(x), or walk(w, t) and pair(w, x), the trail a step of t.
\* On a cycle there is no end of trails but the limit.
Trails(limit) ==
  Typed(<<>>, <<Ground("step", <<Arg("raw", 0), Arg("raw", -1)>>)>>,
        [start |-> Source(<<"int">>), pair |-> Source(<<"int", "int">>),
         step |-> Constructor(3, <<"id", "int", "id">>), walk |-> Derived(<<"int", "id">>),
         steps |-> Derived(<<"id", "int", "id">>)],
        <<Get("start"), Mfp(1, <<>>, <<TermLit(1)>>, <<>>), Get("walk"), Get("pair"),
          Join(3, 4, <<1>>, <<1>>, <<2, 4>>), Mint(5, "step", <<2, 1>>), Mfp(6, <<>>, <<>>, <<2, 3>>),
          Union(<<2, 7>>), Get("step")>>,
        <<LetRec(<<"walk">>, <<2>>, <<8>>, limit), Let("steps", 9)>>, <<"walk", "steps">>)

-----------------------------------------------------------------------------
(* Texts.                                                                    *)

\* The ends of the words, the empty one included; of each its length, what is left
\* of it without an "a" in front or behind, whether it has a "b", and a "b" with it.
Words ==
  Typed(<<A, B>>, <<>>,
        [word |-> Source(<<"text">>), end |-> Derived(<<"text">>), of |-> Derived(<<"text", "int">>),
         less |-> Derived(<<"id", "id">>), with |-> Derived(<<"text">>), longer |-> Derived(<<"id">>)],
        <<Get("word"), Get("end"), Decompose(2, 1), Mfp(3, <<>>, <<>>, <<3>>), Union(<<1, 4>>), Get("end"),
          Str(6, "len", <<1>>), Mfp(6, <<>>, <<TextLit(1), TextLit(2)>>, <<>>),
          Str(8, "strip_prefix", <<1, 2>>), Str(9, "strip_suffix", <<1, 2>>), Mfp(10, <<>>, <<>>, <<4, 5>>),
          Str(8, "contains", <<1, 3>>), Mfp(12, <<Call("not", <<Call("=", <<Column(1), Nil>>)>>)>>, <<>>, <<1>>),
          Construct(8, 3, 1), Str(14, "starts_with", <<4, 3>>), Mfp(15, <<>>, <<>>, <<4>>)>>,
        <<LetRec(<<"end">>, <<1>>, <<5>>, 0), Let("of", 7), Let("less", 11), Let("with", 13), Let("longer", 16)>>,
        <<"of", "less", "with", "longer">>)

-----------------------------------------------------------------------------
(* Signed rows and loops in loops.                                           *)

\* The rows of one table less those of the other: a group for each first cell,
\* the first row of each, all of them numbered, and the groups without any.
Less ==
  Typed(<<>>, <<>>,
        [more |-> Source(<<"int", "int">>), less |-> Source(<<"int", "int">>),
         group |-> Derived(<<"int", "int", "int", "int", "int">>), first |-> Derived(<<"int", "int">>),
         number |-> Derived(<<"int", "int", "int">>), none |-> Derived(<<"int">>)],
        <<Get("more"), Get("less"), Negate(2), Union(<<1, 3>>), Mfp(4, <<>>, <<>>, <<1, 2>>),
          Reduce(5, <<1>>, <<Agg("count", 1), Agg("sum", 2), Agg("min", 2), Agg("max", 2)>>),
          TopK(5, <<1>>, <<2>>, 1), Window(5, <<>>, <<2>>),
          Mfp(2, <<>>, <<>>, <<1>>), Threshold(9), Antijoin(10, 5, <<1>>, <<1>>)>>,
        <<Let("group", 6), Let("first", 7), Let("number", 8), LetRec(<<"none">>, <<1>>, <<11>>, 1)>>,
        <<"group", "first", "number", "none">>)

\* seen(x): start(x), or a door(x) of what is near; near(x): seen(x), or pair(w, x)
\* and near(w), from nothing in every evaluation of seen.
Doors ==
  Typed(<<>>, <<>>,
        [start |-> Source(<<"int">>), door |-> Source(<<"int", "int">>), pair |-> Source(<<"int", "int">>),
         seen |-> Derived(<<"int">>), near |-> Derived(<<"int">>)],
        <<Get("start"), Get("near"), Get("door"), Join(2, 3, <<1>>, <<1>>, <<3>>), Union(<<1, 4>>),
          Get("seen"), Get("near"), Get("pair"), Join(7, 8, <<1>>, <<1>>, <<3>>), Union(<<6, 9>>)>>,
        <<Around(LetRec(<<"seen">>, <<1>>, <<5>>, 0), <<LetRec(<<"near">>, <<1>>, <<10>>, 2)>>)>>,
        <<"seen">>)

-----------------------------------------------------------------------------

Parts ==
  [boxes |-> <<Part("", Boxes)>>, held |-> <<Part("", Held)>>, words |-> <<Part("", Words)>>,
   less |-> <<Part("", Less)>>, doors |-> <<Part("", Doors)>>,
   bounded |-> <<Part("", Trails(2))>>, trails |-> <<Part("", Trails(0))>>,
   both |-> <<Part("a.", Boxes), Part("b.", Held), Part("c.", Boxes)>>]

\* The rows of the sources.  Texts come first in a dictionary, the empty one before
\* them, then the terms.
Rows ==
  LET two == {<<1, 2>>, <<2, 1>>}
  IN [boxes |-> [word |-> {<<2>>, <<3>>, <<-1>>}],
      held |-> [item |-> {<<-1>>, <<3>>, <<4>>, <<5>>}],
      words |-> [word |-> {<<2>>, <<4>>, <<-1>>}],
      less |-> [more |-> {<<1, 1>>, <<1, 2>>, <<2, 1>>}, less |-> {<<1, 1>>, <<1, 2>>, <<2, 3>>}],
      doors |-> [start |-> {<<1>>}, door |-> two \cup {<<3, 1>>}, pair |-> {<<2, 3>>, <<1, 3>>}],
      bounded |-> [start |-> {<<1>>, <<2>>}, pair |-> two],
      trails |-> [start |-> {<<1>>}, pair |-> {<<1, 2>>, <<2, 3>>, <<1, 3>>}],
      both |-> [word |-> {<<3>>}, item |-> {<<4>>, <<5>>}]]

\* What a client interns: a box, a pair of that box, a step.
Cell(v) == [kind |-> "cell", v |-> v]
Entry(functor, args) == [functor |-> functor, args |-> args]
Interns ==
  [boxes |-> {<<Entry("box", <<Cell(3)>>)>>},
   held |-> {<<Entry("box", <<Cell(1)>>), Entry("pair", <<Arg("term", 1), Cell(2)>>), Entry("box", <<Cell(-1)>>)>>},
   trails |-> {<<Entry("step", <<Cell(2), Cell(-1)>>)>>}]

-----------------------------------------------------------------------------
(* Refused.                                                                  *)

\* A functor that is no constructor, too few arguments, a term before it is there.
Unfit ==
  {[Boxes EXCEPT !.terms = <<Ground("word", <<Arg("text", 1)>>)>>],
   [Boxes EXCEPT !.terms = <<Ground("box", <<>>)>>],
   [Held EXCEPT !.terms = <<@[2], @[1]>>]}

\* A constructor of two lists of columns, and a Let that reads itself.
Uncomposed ==
  {<<Part("a.", Boxes), Part("b.", [Held EXCEPT !.rels.box.cols = <<"id", "id">>])>>,
   <<Part("a.", [Boxes EXCEPT !.nodes[1] = Get("all")])>>}

=============================================================================
