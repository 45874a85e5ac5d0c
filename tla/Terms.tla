-------------------------------- MODULE Terms --------------------------------
(***************************************************************************)
(* The dictionary of texts and terms every engine keeps, and the order of  *)
(* its entries (crates/ivm-ir/src/1_terms.rs, 2_strings.rs, 3_str_ops.rs). *)
(* A cell that is text or a term is the number of its entry; a number      *)
(* without one is an atom, a symbol of its own.                            *)
(*                                                                         *)
(* A dictionary is the sequence of its entries, so an id is a position and *)
(* the next id its length plus one.  A text is a sequence of characters, a *)
(* functor its place among the names, 0 for the empty name.  Vectors, Any  *)
(* and Real cells, and the depth at which a key stops, are left out.       *)
(***************************************************************************)
EXTENDS Integers, Sequences, FiniteSets
LOCAL INSTANCE SequencesExt

Text(s) == [text |-> TRUE, functor |-> 0, args |-> s, types |-> <<>>]
Term(functor, args, types) == [text |-> FALSE, functor |-> functor, args |-> args, types |-> types]

Known(dict, id)  == id \in DOMAIN dict
IsText(dict, id) == Known(dict, id) /\ dict[id].text

\* mint, mint_text: an entry has one id for as long as the dictionary lives.
mint(dict, entry)  == IF entry \in Range(dict) THEN dict ELSE Append(dict, entry)
IdOf(dict, entry)  == CHOOSE id \in DOMAIN dict : dict[id] = entry

\* The constructor rows (id, argument...) of the terms numbered in `ids`.
Row(dict, id) == <<id>> \o dict[id].args
snapshot(dict, functor, ids) ==
  [row \in {Row(dict, id) : id \in {i \in ids : ~dict[i].text /\ dict[i].functor = functor}} |-> 1]

-----------------------------------------------------------------------------
(* Order.                                                                  *)

Sign(n) == IF n < 0 THEN -1 ELSE IF n > 0 THEN 1 ELSE 0

\* The first of a sequence of comparisons that is not equal.
Then(signs) ==
  LET unequal == SelectSeq(signs, LAMBDA s : s # 0)
  IN IF unequal = <<>> THEN 0 ELSE Head(unequal)

\* Lexical order; a sequence precedes what it begins.
Lexical(s, t) ==
  Then([i \in 1..(IF Len(s) < Len(t) THEN Len(s) ELSE Len(t)) |-> Sign(s[i] - t[i])]
       \o <<Sign(Len(s) - Len(t))>>)

\* Atoms precede texts precede terms; terms go by arity, functor and arguments.
RECURSIVE compare(_, _, _)
compare(dict, a, b) ==
  LET x == dict[a]  y == dict[b]
      argument(i) == IF x.types[i] = "int" THEN Sign(x.args[i] - y.args[i])
                     ELSE compare(dict, x.args[i], y.args[i])
      heads == Then(<<Sign(Len(x.args) - Len(y.args)), Sign(x.functor - y.functor)>>)
  IN IF a = b THEN 0
     ELSE IF ~Known(dict, a) \/ ~Known(dict, b)
       THEN IF Known(dict, a) THEN 1 ELSE IF Known(dict, b) THEN -1 ELSE Sign(a - b)
     ELSE IF x.text \/ y.text
       THEN IF ~x.text THEN 1 ELSE IF ~y.text THEN -1 ELSE Lexical(x.args, y.args)
     ELSE IF heads # 0 THEN heads
     ELSE Then([i \in DOMAIN x.args |-> argument(i)])

\* A sort key.  Texts and names end in two zero bytes, a zero within them is
\* escaped, so that a key never begins another; a number is one digit.
Escaped(s) == FlattenSeq([i \in DOMAIN s |-> IF s[i] = 0 THEN <<0, 255>> ELSE <<s[i]>>]) \o <<0, 0>>

RECURSIVE sort_key(_, _)
sort_key(dict, id) ==
  LET entry == dict[id]
      argument(i) == CASE entry.types[i] = "int"  -> <<0, entry.args[i]>>
                       [] entry.types[i] = "id"   -> <<1>> \o sort_key(dict, entry.args[i])
                       [] entry.types[i] = "text" -> <<2>> \o sort_key(dict, entry.args[i])
  IN IF ~Known(dict, id) THEN <<0, id>>
     ELSE IF entry.text THEN <<1>> \o Escaped(entry.args)
     ELSE <<2, Len(entry.args)>> \o Escaped(<<entry.functor>>)
          \o FlattenSeq([i \in DOMAIN entry.args |-> argument(i)])

-----------------------------------------------------------------------------
(* Functions of texts.  A filter adds no column; a miss drops the row.     *)

Number(n) == [kind |-> "int", v |-> n]
Chars(s)  == [kind |-> "text", v |-> s]
Kept      == [kind |-> "holds"]
Miss      == [kind |-> "miss"]

Without(s, n) == SubSeq(s, n + 1, Len(s))

str_out(op) == CASE op = "len" -> "int"
                 [] op \in {"strip_prefix", "strip_suffix"} -> "text"
                 [] op \in {"starts_with", "contains"} -> "none"

str_apply(op, a) ==
  CASE op = "len"          -> Number(Len(a[1]))
    [] op = "strip_prefix" -> Chars(IF IsPrefix(a[2], a[1]) THEN Without(a[1], Len(a[2])) ELSE a[1])
    [] op = "strip_suffix" ->
         Chars(IF IsSuffix(a[2], a[1]) THEN SubSeq(a[1], 1, Len(a[1]) - Len(a[2])) ELSE a[1])
    [] op = "starts_with"  -> IF IsPrefix(a[2], a[1]) THEN Kept ELSE Miss
    [] op = "contains"     ->
         IF \E i \in 0..Len(a[1]) : IsPrefix(a[2], Without(a[1], i)) THEN Kept ELSE Miss

=============================================================================
