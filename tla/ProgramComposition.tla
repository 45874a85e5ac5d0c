------------------------- MODULE ProgramComposition -------------------------
(***************************************************************************)
(* Several programs as one install (crates/ivm-ir/src/4_compose.rs).  The  *)
(* parts share the dictionary: a constructor is one relation per name, an  *)
(* equal text, term or source-free node one entry; every other relation    *)
(* belongs to one part and has its prefix.                                 *)
(***************************************************************************)
EXTENDS TypedPrograms
LOCAL INSTANCE SequencesExt
LOCAL INSTANCE TLC

Part(prefix, p) == [prefix |-> prefix, p |-> p]

\* A relation's name in the composed program.
Renamed(part, rel) == IF rel \in Constructors(part.p) THEN rel ELSE part.prefix \o rel

\* The place of a value in a sequence, at its end if it is new.
Entered(s, v) == IF v \in Range(s) THEN s ELSE Append(s, v)
PlaceOf(s, v) == CHOOSE i \in DOMAIN s : s[i] = v

\* Where the texts and the terms of a part are among the composed ones.
Texts(out, p) == Folded(Entered, out, p.texts)
TextMap(out, p) == [i \in DOMAIN p.texts |-> PlaceOf(Texts(out, p), p.texts[i])]

TermTables(out, p, texts) ==
  LET arg(a, map) == CASE a.kind = "term" -> Arg("term", map[a.v])
                       [] a.kind = "text" -> Arg("text", texts[a.v])
                       [] a.kind = "raw"  -> a
      step(t, lit) ==
        LET mapped == [lit EXCEPT !.args = [i \in DOMAIN @ |-> arg(@[i], t.map)]]
        IN [terms |-> Entered(t.terms, mapped), map |-> Append(t.map, PlaceOf(Entered(t.terms, mapped), mapped))]
  IN Folded(step, [terms |-> out, map |-> <<>>], p.terms)

\* Literals of an expression, by their composed places.
RECURSIVE Translated(_, _, _)
Translated(e, texts, terms) ==
  CASE e.op = "text" -> TextLit(texts[e.i])
    [] e.op = "term" -> TermLit(terms[e.i])
    [] OTHER -> [e EXCEPT !.args = [i \in DOMAIN @ |-> Translated(@[i], texts, terms)]]

-----------------------------------------------------------------------------
(* Nodes.                                                                  *)

Lets(p) == {s \in Range(p.strata) : ~s.recursive}
LetOf(p, rel) == {s.bodies[1] : s \in {l \in Lets(p) : l.ids[1] = rel}}

\* What is composed before a node: its inputs, and the body of a Let it gets.
Deps(p, k) ==
  LET n == p.nodes[k]
  IN n.in \o (IF n.op = "get" THEN SetToSeq(LetOf(p, n.rel)) ELSE <<>>)

\* Refused: a node that reaches itself, so that it never comes after its inputs.
Cyclic(p) ==
  LET after(done, n) == done \cup {k \in DOMAIN p.nodes : Range(Deps(p, k)) \subseteq done}
  IN Folded(after, {}, p.nodes) # DOMAIN p.nodes

RECURSIVE Visited(_, _, _)
Visited(p, order, k) ==
  IF k \in Range(order) THEN order
  ELSE Append(Folded(LAMBDA o, j : Visited(p, o, j), order, Deps(p, k)), k)

PostOrder(p) == Folded(LAMBDA o, k : Visited(p, o, k), <<>>, [k \in DOMAIN p.nodes |-> k])

\* A node that reads constructors and source-free Lets only.
SlipSourceFree(p, k, free) == \A j \in Range(p.nodes[k].in) : free[j]
SourceFree(p, k, free) ==
  IF p.nodes[k].op = "get"
  THEN p.nodes[k].rel \in Constructors(p) \/ \E body \in LetOf(p, p.nodes[k].rel) : free[body]
  ELSE \A j \in Range(p.nodes[k].in) : free[j]

\* A node's relations, literals and inputs in the composed program.  A Get of a
\* source-free Let reads the first Let over the same body.
Moved(part, k, free, map, letOfBody, texts, terms) ==
  LET n == part.p.nodes[k]
      literal(es) == [i \in DOMAIN es |-> Translated(es[i], texts, terms)]
      bodies == {map[b] : b \in LetOf(part.p, n.rel)} \cap DOMAIN letOfBody
      shared == [n EXCEPT !.in = [i \in DOMAIN @ |-> map[@[i]]]]
  IN CASE n.op = "get"  -> [shared EXCEPT !.rel = IF free /\ bodies # {} THEN letOfBody[CHOOSE b \in bodies : TRUE]
                                                  ELSE Renamed(part, n.rel)]
       [] n.op = "mint" -> [shared EXCEPT !.functor = Renamed(part, n.functor)]
       [] n.op = "mfp"  -> [shared EXCEPT !.filter = literal(@), !.map = literal(@)]
       [] OTHER -> shared

\* The part's nodes after those of earlier parts; `consed` are the source-free ones.
WithNodes(out, part, texts, terms) ==
  LET step(t, k) ==
        LET free == SourceFree(part.p, k, t.free)
            node == Moved(part, k, free, t.map, out.letOfBody, texts, terms)
            equal == {j \in t.consed : t.nodes[j] = node}
            shared == free /\ equal # {}
            at == IF shared THEN CHOOSE j \in equal : TRUE ELSE Len(t.nodes) + 1
        IN [nodes |-> IF shared THEN t.nodes ELSE Append(t.nodes, node),
            consed |-> IF free THEN t.consed \cup {at} ELSE t.consed,
            map |-> (k :> at) @@ t.map, free |-> (k :> free) @@ t.free]
  IN Folded(step, [nodes |-> out.nodes, consed |-> out.consed, map |-> <<>>, free |-> <<>>],
              PostOrder(part.p))

\* letrec_level: a stratum with its relations and bodies renumbered.
Level(part, map, s) ==
  [s EXCEPT !.ids = [i \in DOMAIN @ |-> Renamed(part, @[i])], !.bodies = [i \in DOMAIN @ |-> map[@[i]]]]
StratumOf(part, map, s) ==
  IF s.recursive
  THEN [Level(part, map, s) EXCEPT !.nested = [i \in DOMAIN @ |-> Level(part, map, @[i])]]
  ELSE Level(part, map, s)

-----------------------------------------------------------------------------
(* Parts.                                                                  *)

\* A constructor two parts declare has one list of columns.
Conflicts(out, part) ==
  \E r \in Constructors(part.p) \cap DOMAIN out.rels : out.rels[r].cols # part.p.rels[r].cols

Extended(out, part, texts, terms, nodes) ==
  LET renamed == [r \in {Renamed(part, q) : q \in DOMAIN part.p.rels} |->
                   part.p.rels[CHOOSE q \in DOMAIN part.p.rels : Renamed(part, q) = r]]
      first(t, stratum) ==
        IF stratum.recursive \/ ~nodes.free[stratum.bodies[1]] \/ nodes.map[stratum.bodies[1]] \in DOMAIN t THEN t
        ELSE (nodes.map[stratum.bodies[1]] :> Renamed(part, stratum.ids[1])) @@ t
  IN [ok |-> out.ok /\ ~Conflicts(out, part),
      texts |-> texts, terms |-> terms,
      rels |-> out.rels @@ renamed, nodes |-> nodes.nodes, consed |-> nodes.consed,
      letOfBody |-> Folded(first, out.letOfBody, part.p.strata),
      strata |-> out.strata \o [i \in DOMAIN part.p.strata |-> StratumOf(part, nodes.map, part.p.strata[i])],
      outputs |-> out.outputs \o [i \in DOMAIN part.p.outputs |-> Renamed(part, part.p.outputs[i])]]

WithPart(out, part) ==
  LET named == [part.p EXCEPT !.terms = [i \in DOMAIN @ |-> [@[i] EXCEPT !.functor = Renamed(part, @)]]]
      nodes(texts, terms) ==
        With(WithNodes(out, part, texts, terms.map),
             LAMBDA made : Extended(out, part, Texts(out.texts, part.p), terms.terms, made))
  IN With(TextMap(out.texts, part.p),
          LAMBDA texts : With(TermTables(out.terms, named, texts), LAMBDA terms : nodes(texts, terms)))

compose(parts) ==
  LET empty == [ok |-> TRUE, texts |-> <<>>, terms |-> <<>>, rels |-> <<>>, nodes |-> <<>>, consed |-> {},
                letOfBody |-> <<>>, strata |-> <<>>, outputs |-> <<>>]
      whole(out) == IF ~out.ok THEN [ok |-> FALSE]
                    ELSE [ok |-> TRUE, p |-> Typed(out.texts, out.terms, out.rels, out.nodes, out.strata, out.outputs)]
  IN IF \E part \in Range(parts) : Cyclic(part.p) THEN [ok |-> FALSE]
     ELSE With(Folded(WithPart, empty, parts), whole)

=============================================================================
