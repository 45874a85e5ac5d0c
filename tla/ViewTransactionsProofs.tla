----------------------- MODULE ViewTransactionsProofs -----------------------
(***************************************************************************)
(* Proofs about ViewTransactions: under the orderly environment of the run *)
(* view_transactions every one of its invariants holds for all names, all  *)
(* bounds and any number of writes, savepoints, reloads and DDL.           *)
(***************************************************************************)
EXTENDS ViewTransactions, SumsProofs, SequenceTheorems

-----------------------------------------------------------------------------
(* The inductive invariant.                                                *)

Counts == [Rows -> Nat]
Marks == UNION {[D -> Counts] : D \in SUBSET (0 .. MaxSavepoints)}
Collectors == [staged : Counts, marks : Marks]

Dbs ==
    [source : SourceNames, view : ViewNames \cup {None},
     query : SourceNames \cup {None}, recorded : SourceNames \cup {None},
     hooks : HooksSet \cup {None}, tables : ViewNames \cup {None},
     ledger : (HooksSet \X ViewNames) \cup {None},
     rows : SUBSET Rows, stored : Counts]

Vtabs ==
    [current : Instances \cup {None}, joined : BOOLEAN, old : Seq(Instances),
     collectors : [1 .. MaxCollectors -> Collectors],
     registry : 0 .. MaxCollectors, begun : BOOLEAN]

\* The catalog of an installed view is right, and a view that is not installed
\* has neither hooks nor rows.
Catalogued(d) ==
    d.view # None =>
        /\ d.query = d.source /\ d.recorded = d.source
        /\ d.hooks = Hooks(d.view, d.source) /\ d.tables = d.view
        /\ ManifestHolds(d)
Absent(d) == d.view = None => d.hooks = None /\ d.stored = NoRows

DbOK(d) == d \in Dbs /\ Catalogued(d) /\ Absent(d)

\* The instances SQLite calls back read the source by its present name and share
\* the collector of the registry; an instance without a plan is called by nobody
\* else and looks stale to the next refresh.
Serves(i, v, d) ==
    i.query = d.source /\ i.collector = v.registry /\ v.registry # 0
Idle(v) == v.old = <<>> /\ ~v.joined
OldOK(v, d) == \A k \in DOMAIN v.old : Serves(v.old[k], v, d)
CurrentOK(v, d) ==
    /\ v.joined => v.current # None /\ Serves(v.current, v, d)
    /\ v.current # None =>
          \/ Serves(v.current, v, d)
          \/ /\ v.current.query = None /\ v.current.collector = 0
             /\ v.current.generation = Never /\ Idle(v)
    /\ d.view = None => v.current = None /\ Idle(v)

\* A collector nobody is called back with holds nothing, and an instance SQLite
\* retained keeps the collector begun.
EmptyOK(v) ==
    \A c \in 1 .. MaxCollectors :
        c # v.registry \/ Idle(v) => v.collectors[c] = Collector
BegunOK(v) == (v.old # <<>> => v.begun) /\ (v.begun => ~Idle(v))

VtabOK(v, d) ==
    v \in Vtabs /\ OldOK(v, d) /\ CurrentOK(v, d) /\ EmptyOK(v) /\ BegunOK(v)

\* The one batch of the transaction, and what it held at a savepoint.
Batch(v) == IF v.registry = 0 THEN Collector ELSE v.collectors[v.registry]
MarkIn(b, i) == IF i \in DOMAIN b.marks THEN b.marks[i] ELSE NoRows
MarkOf(v, i) == MarkIn(Batch(v), i)

Covers(d, staged) == d.view # None => Plus(d.stored, staged) = Each(d.rows)

\* What a rollback restores is covered by what the collector goes back to, and a
\* view missing at a savepoint has not been created since.
SavesOK ==
    /\ saves \in Seq(Dbs) /\ Len(saves) <= MaxSavepoints + 1
    /\ \A j \in 1 .. Len(saves) :
          DbOK(saves[j]) /\ saves[j].rows \subseteq 1 .. nextRow - 1
    /\ saves # <<>> => Covers(saves[1], NoRows)
    /\ \A j \in 2 .. Len(saves) :
          /\ Covers(saves[j], MarkOf(vtab, j - 2))
          /\ saves[j].view = None =>
                db.view = None /\ \A l \in j .. Len(saves) : saves[l].view = None
    /\ saves = <<>> => Idle(vtab)

CountersOK ==
    /\ nextRow \in Nat \ {0} /\ ddls \in 0 .. MaxDdl
    /\ generation \in Nat /\ generation <= ddls

Inv ==
    /\ CountersOK
    /\ DbOK(db) /\ db.rows \subseteq 1 .. nextRow - 1
    /\ VtabOK(vtab, db)
    /\ Covers(db, Batch(vtab).staged)
    /\ SavesOK
    /\ outcome = "ok"
    /\ ReadsSeeWrites

-----------------------------------------------------------------------------
(* Instances, their collector and the batch.                               *)

\* What follows a sequence of instances, element by element.
LEMMA Followed ==
  ASSUME NEW S, NEW s \in Seq(S), NEW u \in Seq(S)
  PROVE  /\ s \o u \in Seq(S)
         /\ s \o u = <<>> <=> s = <<>> /\ u = <<>>
         /\ \A k \in DOMAIN (s \o u) :
               \/ k \in DOMAIN s /\ (s \o u)[k] = s[k]
               \/ k - Len(s) \in DOMAIN u /\ (s \o u)[k] = u[k - Len(s)]
<1> DEFINE t == s \o u
<1>1. t \in Seq(S) /\ Len(t) = Len(s) + Len(u) /\ Len(s) \in Nat /\ Len(u) \in Nat
      /\ \A k \in 1 .. Len(s) + Len(u) : t[k] = IF k <= Len(s) THEN s[k] ELSE u[k - Len(s)]
  BY ConcatProperties, LenProperties
<1>2. DOMAIN s = 1 .. Len(s) /\ DOMAIN u = 1 .. Len(u) /\ DOMAIN t = 1 .. Len(t)
  BY <1>1, LenProperties
<1>3. t = <<>> <=> s = <<>> /\ u = <<>>
  BY ConcatEqualIffEmpty
<1> HIDE DEF t
<1>4. ASSUME NEW k \in DOMAIN t
      PROVE  \/ k \in DOMAIN s /\ t[k] = s[k]
             \/ k - Len(s) \in DOMAIN u /\ t[k] = u[k - Len(s)]
  <2>1. k \in 1 .. Len(s) + Len(u)
    BY <1>1, <1>2
  <2>2. CASE k <= Len(s)
    BY <1>1, <1>2, <2>1, <2>2
  <2>3. CASE k > Len(s)
    BY <1>1, <1>2, <2>1, <2>3
  <2> QED BY <1>1, <2>1, <2>2, <2>3
<1> QED BY <1>1, <1>3, <1>4 DEF t

\* The instances called back share one collector, the registry's.
LEMMA Shares ==
  ASSUME NEW v, NEW d, VtabOK(v, d)
  PROVE  /\ Transaction(v) \in Seq(Instances)
         /\ Transaction(v) = <<>> <=> Idle(v)
         /\ \A k \in DOMAIN Transaction(v) : Serves(Transaction(v)[k], v, d)
         /\ Joined(v) = IF Idle(v) THEN {} ELSE {v.registry}
         /\ Held(v) \subseteq {v.registry}
         /\ ~Idle(v) => v.registry \in Held(v) /\ v.registry \in 1 .. MaxCollectors
<1> DEFINE o == v.old
           last == IF v.joined THEN <<v.current>> ELSE <<>>
           t == o \o last
<1>1. o \in Seq(Instances) /\ v.joined \in BOOLEAN /\ v.registry \in 0 .. MaxCollectors
  BY DEF VtabOK, Vtabs
<1>2. v.joined => v.current \in Instances /\ Serves(v.current, v, d)
  BY DEF VtabOK, Vtabs, CurrentOK
<1>3. /\ last \in Seq(Instances) /\ (last = <<>> <=> ~v.joined)
      /\ \A k \in DOMAIN last : v.joined /\ last[k] = v.current
  BY <1>1, <1>2
<1>4. \A k \in DOMAIN o : Serves(o[k], v, d)
  BY DEF VtabOK, OldOK
<1>5. Transaction(v) = t /\ (Idle(v) <=> o = <<>> /\ ~v.joined)
  BY DEF Transaction, Idle
<1>6. o # <<>> => \E k \in DOMAIN o : TRUE
  <2>1. ASSUME NEW q \in Seq(Instances), q # <<>>
        PROVE  \E k \in DOMAIN q : TRUE
    <3>1. Len(q) \in Nat \ {0} /\ DOMAIN q = 1 .. Len(q)
      BY <2>1, EmptySeq, LenProperties
    <3>2. 1 \in DOMAIN q
      BY <3>1
    <3> QED BY <3>2
  <2> QED BY <1>1, <2>1
<1>7. /\ t \in Seq(Instances) /\ (t = <<>> <=> o = <<>> /\ ~v.joined)
      /\ \A k \in DOMAIN t : Serves(t[k], v, d)
  <2> HIDE DEF o, last
  <2>1. /\ t \in Seq(Instances) /\ (t = <<>> <=> o = <<>> /\ last = <<>>)
        /\ \A k \in DOMAIN t :
              \/ k \in DOMAIN o /\ t[k] = o[k]
              \/ k - Len(o) \in DOMAIN last /\ t[k] = last[k - Len(o)]
    BY <1>1, <1>3, Followed
  <2> QED BY <1>2, <1>3, <1>4, <2>1
<1>8. t # <<>> => \E k \in DOMAIN t : TRUE
  <2> HIDE DEF t
  <2> QED BY <1>7, EmptySeq, LenProperties
<1> HIDE DEF t
<1>9. Joined(v) = IF Idle(v) THEN {} ELSE {v.registry}
  <2>1. Joined(v) = {t[k].collector : k \in DOMAIN t} \ {0}
    BY <1>5 DEF Joined
  <2>2. \A k \in DOMAIN t : t[k].collector = v.registry /\ v.registry # 0
    BY <1>7 DEF Serves
  <2>3. CASE t = <<>>
    BY <1>5, <1>7, <2>1, <2>3
  <2>4. CASE t # <<>>
    BY <1>5, <1>7, <1>8, <2>1, <2>2, <2>4
  <2> QED BY <2>3, <2>4
<1>10. Held(v) \subseteq {v.registry}
  BY DEF VtabOK, OldOK, CurrentOK, Held, Serves
<1>11. ~Idle(v) => v.registry \in Held(v) /\ v.registry \in 1 .. MaxCollectors
  <2> SUFFICES ASSUME ~Idle(v)
               PROVE  v.registry \in Held(v) /\ v.registry # 0
    BY <1>1
  <2>1. CASE v.joined
    <3>1. v.current # None
      BY <2>1 DEF VtabOK, CurrentOK
    <3> QED BY <1>2, <2>1, <3>1 DEF Held, Serves
  <2>2. CASE o # <<>>
    <3>1. PICK k \in DOMAIN o : TRUE
      BY <1>6, <2>2
    <3> QED BY <1>4, <3>1 DEF Held, Serves
  <2> QED BY <1>5, <2>1, <2>2
<1> QED BY <1>5, <1>7, <1>9, <1>10, <1>11

\* No rows, no marks.
LEMMA Empty ==
  /\ NoRows \in Counts /\ Collector \in Collectors
  /\ Collector.staged = NoRows /\ DOMAIN Collector.marks = {}
<1>1. NoRows \in Counts
  BY DEF NoRows, Counts
<1>2. <<>> \in [{} -> Counts]
  OBVIOUS
<1>3. {} \in SUBSET (0 .. MaxSavepoints)
  OBVIOUS
<1>4. <<>> \in Marks
  BY <1>2, <1>3 DEF Marks
<1> QED BY <1>1, <1>4 DEF Collector, Collectors

\* The joined collectors hold the one batch, and hold it once.
LEMMA StagedIsBatch ==
  ASSUME NEW v, NEW d, VtabOK(v, d)
  PROVE  /\ Staged(v) = Batch(v).staged
         /\ Batch(v) \in Collectors
         /\ Idle(v) => Batch(v) = Collector
<1>1. v.registry \in 0 .. MaxCollectors /\ v.collectors \in [1 .. MaxCollectors -> Collectors]
  BY DEF VtabOK, Vtabs
<1>2. Batch(v) \in Collectors
  <2>1. CASE v.registry = 0
    BY <2>1, Empty DEF Batch
  <2>2. CASE v.registry # 0
    <3>1. v.registry \in 1 .. MaxCollectors
      BY <1>1, <2>2, BoundsAssumption
    <3> QED BY <1>1, <2>2, <3>1 DEF Batch
  <2> QED BY <2>1, <2>2
<1>3. Idle(v) => Batch(v) = Collector
  BY <1>1 DEF VtabOK, EmptyOK, Batch
<1>4. ASSUME NEW r \in Rows
      PROVE  SumOf([c \in Joined(v) |-> v.collectors[c].staged[r]], Joined(v))
               = Batch(v).staged[r]
  <2>1. CASE Idle(v)
    <3>1. Joined(v) = {} /\ Batch(v).staged[r] = 0
      BY <1>3, <2>1, Shares DEF Collector, NoRows
    <3> QED BY <3>1, SumOfNone
  <2>2. CASE ~Idle(v)
    <3> DEFINE c == v.registry
               f == [x \in Joined(v) |-> v.collectors[x].staged[r]]
    <3>1. Joined(v) = {c} /\ c \in 1 .. MaxCollectors
      BY <2>2, Shares
    <3>2. Batch(v) = v.collectors[c]
      BY <3>1 DEF Batch
    <3>3. f[c] = Batch(v).staged[r] /\ f[c] \in Int
      BY <1>2, <3>1, <3>2 DEF Collectors, Counts
    <3> HIDE DEF f, c
    <3>4. SumOf(f, {c}) = f[c]
      BY <3>3, SumOfOne
    <3> QED BY <3>1, <3>3, <3>4 DEF f
  <2> QED BY <2>1, <2>2
<1>5. Staged(v) = [r \in Rows |-> Batch(v).staged[r]]
  BY <1>4 DEF Staged
<1>6. Batch(v).staged = [r \in Rows |-> Batch(v).staged[r]]
  BY <1>2 DEF Collectors, Counts
<1> QED BY <1>2, <1>3, <1>5, <1>6

-----------------------------------------------------------------------------
(* Callbacks on the batch.                                                 *)

Marked(v, i) == Mapped(v, LAMBDA c : Marking(c, i))
Released(v, i) == Mapped(v, LAMBDA c : Releasing(c, i))
Returned(v, i) == Mapped(v, LAMBDA c : Returning(c, i))
Emptied(v) == Mapped(v, LAMBDA c : Collector)

WithBatch(v, b) == [v EXCEPT !.collectors = [@ EXCEPT ![v.registry] = b]]

\* A callback of the joined instances is one on the batch, if any has joined.
LEMMA MappedIs ==
  ASSUME NEW v, NEW d, VtabOK(v, d), NEW i
  PROVE  /\ Marked(v, i)
              = IF Idle(v) THEN v ELSE WithBatch(v, Marking(Batch(v), i))
         /\ Released(v, i)
              = IF Idle(v) THEN v ELSE WithBatch(v, Releasing(Batch(v), i))
         /\ Returned(v, i)
              = IF Idle(v) THEN v ELSE WithBatch(v, Returning(Batch(v), i))
         /\ Emptied(v)
              = IF Idle(v) THEN v ELSE WithBatch(v, Collector)
<1>1. v \in Vtabs
  BY DEF VtabOK
<1>2. CASE Idle(v)
  <2>1. Joined(v) = {}
    BY <1>2, Shares
  <2>2. v = [v EXCEPT !.collectors = [c \in DOMAIN @ |-> @[c]]]
    BY <1>1 DEF Vtabs
  <2> QED BY <1>2, <2>1, <2>2 DEF Marked, Released, Returned, Emptied, Mapped
<1>3. CASE ~Idle(v)
  <2>1. Joined(v) = {v.registry} /\ v.registry \in 1 .. MaxCollectors
    BY <1>3, Shares
  <2>2. Batch(v) = v.collectors[v.registry]
    BY <2>1 DEF Batch
  <2>3. ASSUME NEW b
        PROVE  [v EXCEPT !.collectors =
                  [c \in DOMAIN @ |-> IF c \in {v.registry} THEN b ELSE @[c]]]
                 = WithBatch(v, b)
    BY <1>1, <2>1 DEF Vtabs, WithBatch
  <2>4. Marked(v, i) = WithBatch(v, Marking(Batch(v), i))
    <3>1. Marked(v, i) =
            [v EXCEPT !.collectors = [c \in DOMAIN @ |->
                IF c \in {v.registry} THEN Marking(Batch(v), i) ELSE @[c]]]
      BY <1>1, <2>1, <2>2 DEF Marked, Released, Returned, Emptied, Mapped, Vtabs
    <3> QED BY <2>3, <3>1
  <2>5. Released(v, i) = WithBatch(v, Releasing(Batch(v), i))
    <3>1. Released(v, i) =
            [v EXCEPT !.collectors = [c \in DOMAIN @ |->
                IF c \in {v.registry} THEN Releasing(Batch(v), i) ELSE @[c]]]
      BY <1>1, <2>1, <2>2 DEF Marked, Released, Returned, Emptied, Mapped, Vtabs
    <3> QED BY <2>3, <3>1
  <2>6. Returned(v, i) = WithBatch(v, Returning(Batch(v), i))
    <3>1. Returned(v, i) =
            [v EXCEPT !.collectors = [c \in DOMAIN @ |->
                IF c \in {v.registry} THEN Returning(Batch(v), i) ELSE @[c]]]
      BY <1>1, <2>1, <2>2 DEF Marked, Released, Returned, Emptied, Mapped, Vtabs
    <3> QED BY <2>3, <3>1
  <2>7. Emptied(v) = WithBatch(v, Collector)
    <3>1. Emptied(v) =
            [v EXCEPT !.collectors = [c \in DOMAIN @ |->
                IF c \in {v.registry} THEN Collector ELSE @[c]]]
      BY <1>1, <2>1, <2>2 DEF Marked, Released, Returned, Emptied, Mapped, Vtabs
    <3> QED BY <2>3, <3>1
  <2> QED BY <1>3, <2>4, <2>5, <2>6, <2>7
<1> QED BY <1>2, <1>3

\* Another batch in its place changes nothing else.
LEMMA WithBatchOK ==
  ASSUME NEW v, NEW d, VtabOK(v, d), NEW b, b \in Collectors,
         Idle(v) => b = Collector \/ v.registry = 0
  PROVE  LET w == WithBatch(v, b)
         IN  /\ VtabOK(w, d)
             /\ v.registry # 0 => Batch(w) = b
             /\ Idle(w) <=> Idle(v)
             /\ w.joined = v.joined /\ w.begun = v.begun /\ w.current = v.current
             /\ w.registry = v.registry /\ w.old = v.old
<1> DEFINE w == WithBatch(v, b)
<1>1. v \in Vtabs
  BY DEF VtabOK
<1>2. /\ w.joined = v.joined /\ w.begun = v.begun /\ w.current = v.current
      /\ w.registry = v.registry /\ w.old = v.old
      /\ w.collectors = [v.collectors EXCEPT ![v.registry] = b]
  BY <1>1 DEF Vtabs, WithBatch
<1>3. w \in Vtabs
  BY <1>1 DEF Vtabs, WithBatch
<1> HIDE DEF w
<1>4. Idle(w) <=> Idle(v)
  BY <1>2 DEF Idle
<1>5. v.collectors \in [1 .. MaxCollectors -> Collectors] /\ v.registry \in 0 .. MaxCollectors
  BY <1>1 DEF Vtabs
<1>6. v.registry # 0 => Batch(w) = b
  <2> SUFFICES ASSUME v.registry # 0 PROVE Batch(w) = b
    OBVIOUS
  <2>1. v.registry \in 1 .. MaxCollectors
    BY <1>5, BoundsAssumption
  <2>2. Batch(w) = w.collectors[v.registry]
    BY <1>2 DEF Batch
  <2> QED BY <1>2, <1>5, <2>1, <2>2
<1>7. OldOK(w, d) /\ CurrentOK(w, d) /\ BegunOK(w)
  BY <1>2, <1>4 DEF VtabOK, OldOK, CurrentOK, BegunOK, Serves
<1>8. EmptyOK(w)
  BY <1>2, <1>4, <1>5 DEF VtabOK, EmptyOK
<1> QED BY <1>2, <1>3, <1>4, <1>6, <1>7, <1>8 DEF VtabOK, w

\* What a mark, a release and a rollback to a mark make of a batch.
LEMMA MarksOfBatch ==
  ASSUME NEW b, b \in Collectors, NEW i, i \in 0 .. MaxSavepoints
  PROVE  /\ Marking(b, i) \in Collectors
         /\ Marking(b, i).staged = b.staged
         /\ MarkIn(Marking(b, i), i) = b.staged
         /\ \A k : k # i => MarkIn(Marking(b, i), k) = MarkIn(b, k)
         /\ Releasing(b, i) \in Collectors
         /\ Releasing(b, i).staged = b.staged
         /\ \A k \in 0 .. i - 1 : MarkIn(Releasing(b, i), k) = MarkIn(b, k)
         /\ Returning(b, i) \in Collectors
         /\ Returning(b, i).staged = MarkIn(b, i)
         /\ \A k \in 0 .. i : MarkIn(Returning(b, i), k) = MarkIn(b, k)
<1>1. PICK D \in SUBSET (0 .. MaxSavepoints) : b.marks \in [D -> Counts]
  BY DEF Collectors, Marks
<1>2. b = [staged |-> b.staged, marks |-> b.marks] /\ b.staged \in Counts
  BY DEF Collectors
<1>3. /\ D \cup {i} \in SUBSET (0 .. MaxSavepoints)
      /\ {k \in D : k < i} \in SUBSET (0 .. MaxSavepoints)
      /\ {k \in D : k <= i} \in SUBSET (0 .. MaxSavepoints)
  OBVIOUS
<1>4. ASSUME NEW E \in SUBSET (0 .. MaxSavepoints), NEW m \in [E -> Counts], NEW s \in Counts
      PROVE  [staged |-> s, marks |-> m] \in Collectors
  BY DEF Collectors, Marks
<1>5. Marking(b, i) = [staged |-> b.staged,
                       marks |-> [k \in D \cup {i} |-> IF k = i THEN b.staged ELSE b.marks[k]]]
  BY <1>1, <1>2 DEF Marking
<1>6. Releasing(b, i) = [staged |-> b.staged, marks |-> [k \in {k \in D : k < i} |-> b.marks[k]]]
  BY <1>1, <1>2 DEF Releasing
<1>7. Returning(b, i) = [staged |-> MarkIn(b, i),
                         marks |-> [k \in {k \in D : k <= i} |-> b.marks[k]]]
  BY <1>1 DEF Returning, UpTo, MarkIn
<1>8. [k \in D \cup {i} |-> IF k = i THEN b.staged ELSE b.marks[k]] \in [D \cup {i} -> Counts]
  BY <1>1, <1>2
<1>9. /\ [k \in {k \in D : k < i} |-> b.marks[k]] \in [{k \in D : k < i} -> Counts]
      /\ [k \in {k \in D : k <= i} |-> b.marks[k]] \in [{k \in D : k <= i} -> Counts]
  BY <1>1
<1>10. MarkIn(b, i) \in Counts
  BY <1>1, Empty DEF MarkIn, Collectors
<1>11. Marking(b, i) \in Collectors
  BY <1>2, <1>3, <1>4, <1>5, <1>8
<1>12. Releasing(b, i) \in Collectors
  BY <1>2, <1>3, <1>4, <1>6, <1>9
<1>13. Returning(b, i) \in Collectors
  BY <1>3, <1>4, <1>7, <1>9, <1>10
<1>14. MarkIn(Marking(b, i), i) = b.staged /\ \A k : k # i => MarkIn(Marking(b, i), k) = MarkIn(b, k)
  BY <1>1, <1>5 DEF MarkIn
<1>15. \A k \in 0 .. i - 1 : MarkIn(Releasing(b, i), k) = MarkIn(b, k)
  BY <1>1, <1>6 DEF MarkIn
<1>16. \A k \in 0 .. i : MarkIn(Returning(b, i), k) = MarkIn(b, k)
  BY <1>1, <1>7 DEF MarkIn
<1> QED BY <1>5, <1>6, <1>7, <1>11, <1>12, <1>13, <1>14, <1>15, <1>16

-----------------------------------------------------------------------------
(* Instances come and go.                                                  *)

\* VtabOK is about the names only.
LEMMA SameNames ==
  ASSUME NEW v, NEW d, NEW e, VtabOK(v, d),
         e.view = None => v.current = None /\ Idle(v),
         \/ e.source = d.source
         \/ Idle(v) /\ (v.current # None => v.current.query = None /\ v.current.collector = 0)
  PROVE  VtabOK(v, e)
<1>1. OldOK(v, e) /\ CurrentOK(v, e)
  <2>1. CASE e.source = d.source
    BY <2>1 DEF VtabOK, OldOK, CurrentOK, Serves
  <2>2. CASE Idle(v) /\ (v.current # None => v.current.query = None /\ v.current.collector = 0)
    BY <2>2 DEF VtabOK, OldOK, CurrentOK, Serves, Idle
  <2> QED BY <2>1, <2>2
<1> QED BY <1>1 DEF VtabOK

\* The registry's collector is kept while an instance holds it.
LEMMA FreedIs ==
  ASSUME NEW v, v \in Vtabs, Held(v) \subseteq {v.registry},
         \A c \in 1 .. MaxCollectors : c # v.registry => v.collectors[c] = Collector
  PROVE  /\ v.registry \in Held(v) => Freed(v) = v
         /\ v.registry \notin Held(v) =>
              Freed(v) = [v EXCEPT !.collectors = [c \in 1 .. MaxCollectors |-> Collector],
                                   !.registry = 0]
<1>1. v.collectors = [c \in 1 .. MaxCollectors |-> v.collectors[c]]
      /\ DOMAIN v.collectors = 1 .. MaxCollectors
  BY DEF Vtabs
<1>2. CASE v.registry \in Held(v)
  <2>1. [c \in DOMAIN v.collectors |->
            IF c \in Held(v) THEN v.collectors[c] ELSE Collector] = v.collectors
    BY <1>1, <1>2
  <2> DEFINE cs == [c \in DOMAIN v.collectors |->
                      IF c \in Held(v) THEN v.collectors[c] ELSE Collector]
  <2>2. Freed(v) = [v EXCEPT !.collectors = cs, !.registry = v.registry]
    BY <1>2 DEF Freed
  <2>3. cs = v.collectors
    BY <2>1
  <2> HIDE DEF cs
  <2> QED BY <1>2, <2>2, <2>3 DEF Vtabs
<1>3. CASE v.registry \notin Held(v)
  <2> DEFINE cs == [c \in DOMAIN v.collectors |->
                      IF c \in Held(v) THEN v.collectors[c] ELSE Collector]
  <2>1. Held(v) = {}
    BY <1>3
  <2>2. cs = [c \in 1 .. MaxCollectors |-> Collector]
    BY <1>1, <2>1
  <2>3. Freed(v) = [v EXCEPT !.collectors = cs, !.registry = 0]
    BY <1>3 DEF Freed
  <2> HIDE DEF cs
  <2> QED BY <1>3, <2>2, <2>3
<1> QED BY <1>2, <1>3

\* A schema reload keeps the batch, and the instances called back to drain it.
LEMMA DetachedOK ==
  ASSUME NEW v, NEW d, VtabOK(v, d), v.joined => v.begun
  PROVE  LET w == Detached(v)
         IN  /\ VtabOK(w, d) /\ w.current = None /\ Batch(w) = Batch(v)
             /\ Idle(w) <=> Idle(v)
<1> DEFINE late == [v.current EXCEPT !.generation = Never]
           old == IF v.joined THEN Append(v.old, late) ELSE v.old
           u == [v EXCEPT !.old = old, !.joined = FALSE, !.current = None]
           w == Freed(u)
<1>0. Detached(v) = w
  BY DEF Detached
<1>1. v \in Vtabs /\ v.old \in Seq(Instances) /\ v.registry \in 0 .. MaxCollectors
  BY DEF VtabOK, Vtabs
<1>2. v.joined => late \in Instances /\ Serves(late, v, d)
  <2>1. v.joined => v.current \in Instances /\ Serves(v.current, v, d)
    BY <1>1 DEF VtabOK, Vtabs, CurrentOK
  <2>2. Never \in 0 .. Never
    BY BoundsAssumption DEF Never
  <2> QED BY <2>1, <2>2 DEF Instances, Serves
<1>3. old \in Seq(Instances) /\ \A k \in DOMAIN old : Serves(old[k], v, d)
  <2> HIDE DEF late
  <2>1. \A k \in DOMAIN v.old : Serves(v.old[k], v, d)
    BY DEF VtabOK, OldOK
  <2>2. CASE v.joined
    <3> DEFINE a == Append(v.old, late)
    <3>1. /\ a \in Seq(Instances) /\ Len(a) = Len(v.old) + 1 /\ Len(v.old) \in Nat
          /\ \A i \in 1 .. Len(v.old) : a[i] = v.old[i]
          /\ a[Len(v.old) + 1] = late
      BY <1>1, <1>2, <2>2, AppendProperties, LenProperties
    <3>2. DOMAIN a = 1 .. Len(a) /\ DOMAIN v.old = 1 .. Len(v.old)
      BY <1>1, <3>1, LenProperties
    <3> HIDE DEF a
    <3>3. ASSUME NEW k \in DOMAIN a PROVE Serves(a[k], v, d)
      <4>1. k \in 1 .. Len(v.old) \/ k = Len(v.old) + 1
        BY <3>1, <3>2
      <4> QED BY <1>2, <2>1, <2>2, <3>1, <3>2, <4>1
    <3> QED BY <2>2, <3>1, <3>3 DEF a
  <2>3. CASE ~v.joined
    BY <1>1, <2>1, <2>3
  <2> QED BY <2>2, <2>3
<1>4. old = <<>> <=> Idle(v)
  <2>1. CASE v.joined
    <3> HIDE DEF late
    <3> QED BY <1>1, <1>2, <2>1, AppendProperties DEF Idle
  <2>2. CASE ~v.joined
    BY <2>2 DEF Idle
  <2> QED BY <2>1, <2>2
<1> HIDE DEF old
<1>5. /\ u \in Vtabs /\ u.old = old /\ u.joined = FALSE /\ u.current = None
      /\ u.registry = v.registry /\ u.collectors = v.collectors /\ u.begun = v.begun
  BY <1>1, <1>3 DEF Vtabs
<1> HIDE DEF u
<1>6. Held(u) = {old[k].collector : k \in DOMAIN old} \ {0}
  BY <1>5 DEF Held
<1>7. Held(u) \subseteq {u.registry}
  BY <1>3, <1>5, <1>6 DEF Serves
<1>8. \A c \in 1 .. MaxCollectors :
         c # u.registry \/ Idle(v) => u.collectors[c] = Collector
  BY <1>5 DEF VtabOK, EmptyOK
<1>9. CASE Idle(v)
  <2>1. Held(u) = {}
    BY <1>4, <1>6, <1>9
  <2>2. w = [u EXCEPT !.collectors = [c \in 1 .. MaxCollectors |-> Collector], !.registry = 0]
    BY <1>5, <1>7, <1>8, <2>1, FreedIs
  <2>3. [c \in 1 .. MaxCollectors |-> Collector] \in [1 .. MaxCollectors -> Collectors]
    BY Empty
  <2>4. /\ w \in Vtabs /\ w.old = <<>> /\ w.joined = FALSE /\ w.current = None
        /\ w.registry = 0 /\ w.collectors = [c \in 1 .. MaxCollectors |-> Collector]
        /\ w.begun = v.begun
    <3> DEFINE cs == [c \in 1 .. MaxCollectors |-> Collector]
    <3>1. cs \in [1 .. MaxCollectors -> Collectors] /\ w = [u EXCEPT !.collectors = cs, !.registry = 0]
      BY <2>2, <2>3
    <3>2. 0 \in 0 .. MaxCollectors
      BY BoundsAssumption
    <3> HIDE DEF cs, w
    <3>3. /\ w \in Vtabs /\ w.old = <<>> /\ w.joined = FALSE /\ w.current = None
          /\ w.registry = 0 /\ w.collectors = cs /\ w.begun = v.begun
      BY <1>4, <1>5, <1>9, <3>1, <3>2 DEF Vtabs
    <3> QED BY <3>3 DEF cs
  <2> HIDE DEF w
  <2>5. Idle(w) /\ Batch(w) = Collector
    BY <2>4 DEF Idle, Batch
  <2>6. VtabOK(w, d)
    BY <1>4, <1>9, <2>4, <2>5 DEF VtabOK, OldOK, CurrentOK, EmptyOK, BegunOK
  <2>7. Batch(v) = Collector
    BY <1>9, StagedIsBatch
  <2> QED BY <1>0, <1>9, <2>4, <2>5, <2>6, <2>7
<1>10. CASE ~Idle(v)
  <2>1. PICK k \in DOMAIN old : TRUE
    <3>1. Len(old) \in Nat \ {0} /\ DOMAIN old = 1 .. Len(old)
      BY <1>3, <1>4, <1>10, EmptySeq, LenProperties
    <3>2. 1 \in DOMAIN old
      BY <3>1
    <3> QED BY <3>2
  <2>2. u.registry \in Held(u)
    BY <1>3, <1>5, <1>6, <2>1 DEF Serves
  <2>3. w = u
    BY <1>5, <1>7, <1>8, <2>2, FreedIs
  <2>4. ~Idle(u) /\ Batch(u) = Batch(v)
    BY <1>4, <1>5, <1>10 DEF Idle, Batch
  <2>5. v.begun
    BY <1>10 DEF VtabOK, BegunOK, Idle
  <2>6. OldOK(u, d)
    BY <1>3, <1>5 DEF OldOK, Serves
  <2>7. CurrentOK(u, d)
    BY <1>5, <1>10 DEF VtabOK, CurrentOK
  <2>8. EmptyOK(u) /\ BegunOK(u)
    BY <1>5, <1>8, <2>4, <2>5 DEF EmptyOK, BegunOK
  <2>9. VtabOK(u, d)
    BY <1>5, <2>6, <2>7, <2>8 DEF VtabOK
  <2> HIDE DEF w
  <2> QED BY <1>0, <1>5, <1>10, <2>3, <2>4, <2>9
<1> QED BY <1>9, <1>10

\* The end of a transaction empties every collector and keeps the instance.
LEMMA EndedOK ==
  ASSUME NEW v, NEW d, VtabOK(v, d)
  PROVE  LET w == Ended(v)
         IN  VtabOK(w, d) /\ Idle(w) /\ Batch(w) = Collector /\ w.current = v.current
<1> DEFINE m == Emptied(v)
           u == [m EXCEPT !.begun = FALSE, !.old = <<>>, !.joined = FALSE]
           w == Freed(u)
           cs == [c \in 1 .. MaxCollectors |-> Collector]
<1>1. v \in Vtabs /\ v.registry \in 0 .. MaxCollectors /\ 0 \in 0 .. MaxCollectors
  BY BoundsAssumption DEF VtabOK, Vtabs
<1>2. cs \in [1 .. MaxCollectors -> Collectors]
  BY Empty
<1>3. /\ m \in Vtabs /\ m.current = v.current /\ m.registry = v.registry
      /\ m.collectors = cs /\ m.begun = v.begun
  <2>1. CASE Idle(v)
    <3>1. m = v
      BY <2>1, MappedIs
    <3>2. v.collectors = cs
      BY <1>1, <2>1 DEF VtabOK, EmptyOK, Vtabs
    <3> HIDE DEF m, cs
    <3> QED BY <1>1, <3>1, <3>2
  <2>2. CASE ~Idle(v)
    <3>1. m = WithBatch(v, Collector)
      BY <2>2, MappedIs
    <3>2. v.collectors \in [1 .. MaxCollectors -> Collectors]
      BY <1>1 DEF Vtabs
    <3>3. \A c \in 1 .. MaxCollectors : c # v.registry => v.collectors[c] = Collector
      BY DEF VtabOK, EmptyOK
    <3>4. [v.collectors EXCEPT ![v.registry] = Collector] = cs
      BY <3>2, <3>3
    <3> HIDE DEF m, cs
    <3>5. m = [v EXCEPT !.collectors = cs]
      BY <3>1, <3>4 DEF WithBatch
    <3> QED BY <1>1, <1>2, <3>5 DEF Vtabs
  <2> QED BY <2>1, <2>2
<1>4. (m.begun /\ Joined(v) = {}) = FALSE
  <2>1. v.begun => Joined(v) # {}
    BY Shares DEF VtabOK, BegunOK
  <2> HIDE DEF m
  <2> QED BY <1>3, <2>1
<1>5. Ended(v) = w
  BY <1>4 DEF Ended, Emptied
<1> HIDE DEF m
<1>6. /\ u \in Vtabs /\ u.current = v.current /\ u.registry = v.registry
      /\ u.collectors = cs /\ u.begun = FALSE /\ u.old = <<>> /\ u.joined = FALSE
  <2>1. <<>> \in Seq(Instances)
    BY EmptySeq
  <2> HIDE DEF cs
  <2> QED BY <1>3, <2>1 DEF Vtabs
<1> HIDE DEF u
<1>7. Held(u) = (IF v.current = None THEN {} ELSE {v.current.collector}) \ {0}
  BY <1>6 DEF Held
<1>8. Held(u) \subseteq {u.registry}
  BY <1>6, <1>7 DEF VtabOK, CurrentOK, Serves
<1>9. \A c \in 1 .. MaxCollectors : u.collectors[c] = Collector
  BY <1>6
<1>10. /\ w \in Vtabs /\ w.current = v.current /\ w.collectors = cs
       /\ w.begun = FALSE /\ w.old = <<>> /\ w.joined = FALSE
       /\ w.registry = IF u.registry \in Held(u) THEN v.registry ELSE 0
  <2>1. CASE u.registry \in Held(u)
    <3>1. w = u
      BY <1>6, <1>8, <1>9, <2>1, FreedIs
    <3> HIDE DEF w, cs
    <3> QED BY <1>6, <2>1, <3>1
  <2>2. CASE u.registry \notin Held(u)
    <3>1. w = [u EXCEPT !.collectors = cs, !.registry = 0]
      BY <1>6, <1>8, <1>9, <2>2, FreedIs
    <3> HIDE DEF w, cs
    <3> QED BY <1>1, <1>2, <1>6, <2>2, <3>1 DEF Vtabs
  <2> QED BY <2>1, <2>2
<1> HIDE DEF w
<1>11. Idle(w)
  BY <1>10 DEF Idle
<1>12. CurrentOK(w, d)
  <2>1. (d.view = None => v.current = None) /\ w.joined = FALSE
    BY <1>10 DEF VtabOK, CurrentOK
  <2>2. ASSUME v.current # None, Serves(v.current, v, d)
        PROVE  Serves(w.current, w, d)
    <3>1. u.registry \in Held(u)
      BY <1>6, <1>7, <2>2 DEF Serves
    <3> QED BY <1>10, <2>2, <3>1 DEF Serves
  <2> QED BY <1>10, <1>11, <2>1, <2>2 DEF VtabOK, CurrentOK
<1>13. Batch(w) = Collector
  <2>1. w.registry # 0 => w.registry \in 1 .. MaxCollectors
    BY <1>1, <1>10, BoundsAssumption
  <2> QED BY <1>10, <2>1 DEF Batch
<1>14. OldOK(w, d) /\ EmptyOK(w) /\ BegunOK(w)
  BY <1>10 DEF OldOK, EmptyOK, BegunOK
<1> QED BY <1>5, <1>10, <1>11, <1>12, <1>13, <1>14 DEF VtabOK

\* With no collector held, one is free.
LEMMA FreeIs ==
  ASSUME NEW v, Held(v) = {}
  PROVE  Free(v) \in 1 .. MaxCollectors
<1>1. 1 \in 1 .. MaxCollectors
  BY BoundsAssumption
<1>2. \E c \in 1 .. MaxCollectors : c \notin Held(v) /\ \A e \in 1 .. MaxCollectors \ Held(v) : c <= e
  BY <1>1
<1> QED BY <1>2 DEF Free

\* An instance that binds joins in the collector of the instances called back, or
\* begins an empty one.
LEMMA BoundOK ==
  ASSUME NEW v, NEW d, VtabOK(v, d), DbOK(d), d.view # None,
         NEW g, g \in 0 .. MaxDdl,
         NEW u, u \in Vtabs, u.old = v.old, u.collectors = v.collectors,
         u.registry = v.registry, u.begun = v.begun,
         u.current # None, u.current.collector = 0,
         ~v.joined, u.joined => v.old = <<>>
  PROVE  LET w == Bound(u, d, g)
         IN  /\ VtabOK(w, d) /\ Batch(w) = Batch(v)
             /\ w.joined = u.joined /\ w.begun = v.begun
             /\ w.current # None /\ Serves(w.current, w, d)
<1> DEFINE c == Shared(u)
           i == [query |-> d.query, program |-> d.view, generation |-> g, collector |-> c]
           w == [[u EXCEPT !.registry = c] EXCEPT !.current = i]
<1>1. Bound(u, d, g) = w
  BY DEF Bound, Enrolled
<1>2. /\ d.query = d.source /\ d.query \in SourceNames /\ d.view \in ViewNames
  BY DEF DbOK, Catalogued, Dbs
<1>3. Held(u) = {v.old[k].collector : k \in DOMAIN v.old} \ {0}
  BY DEF Held
<1>4. \A k \in DOMAIN v.old : v.old[k].collector = v.registry /\ v.registry # 0
  BY DEF VtabOK, OldOK, Serves
<1>5. v.old \in Seq(Instances) /\ v.registry \in 0 .. MaxCollectors
  BY DEF VtabOK, Vtabs
<1>6. CASE v.old = <<>>
  <2>1. Held(u) = {}
    BY <1>3, <1>6
  <2>2. c \in 1 .. MaxCollectors
    BY <2>1, FreeIs DEF Shared
  <2> HIDE DEF c
  <2>3. i \in Instances
    BY <1>2, <2>2, BoundsAssumption DEF Instances, Never
  <2>4. i # None
    BY <2>3, NoneAssumption
  <2>5. /\ w \in Vtabs /\ w.current = i /\ w.registry = c /\ w.old = <<>>
        /\ w.joined = u.joined /\ w.begun = v.begun /\ w.collectors = v.collectors
    <3>1. c \in 0 .. MaxCollectors
      BY <2>2
    <3> HIDE DEF i
    <3> QED BY <1>6, <2>3, <3>1 DEF Vtabs
  <2> HIDE DEF w
  <2>6. Serves(w.current, w, d)
    BY <1>2, <2>2, <2>5 DEF Serves
  <2>7. Idle(v) /\ \A e \in 1 .. MaxCollectors : v.collectors[e] = Collector
    BY <1>6 DEF VtabOK, EmptyOK, Idle
  <2>8. Batch(w) = Collector /\ Batch(v) = Collector
    <3>1. Batch(w) = Collector
      BY <2>2, <2>5, <2>7 DEF Batch
    <3> QED BY <2>7, <3>1, StagedIsBatch
  <2>9. OldOK(w, d) /\ EmptyOK(w)
    BY <2>5, <2>7 DEF OldOK, EmptyOK
  <2>10. v.begun = FALSE
    BY <2>7 DEF VtabOK, BegunOK, Vtabs
  <2>11. CurrentOK(w, d) /\ BegunOK(w)
    <3> HIDE DEF i
    <3> QED BY <2>4, <2>5, <2>6, <2>10 DEF CurrentOK, BegunOK
  <2> HIDE DEF i
  <2> QED BY <1>1, <2>4, <2>5, <2>6, <2>8, <2>9, <2>11 DEF VtabOK
<1>7. CASE v.old # <<>>
  <2>1. PICK k \in DOMAIN v.old : TRUE
    <3> DEFINE o == v.old
    <3> HIDE DEF o
    <3>1. Len(o) \in Nat \ {0} /\ DOMAIN o = 1 .. Len(o)
      BY <1>5, <1>7, EmptySeq, LenProperties DEF o
    <3>2. 1 \in DOMAIN o
      BY <3>1
    <3> QED BY <3>2 DEF o
  <2>2. v.registry \in Held(u) /\ v.registry \in 1 .. MaxCollectors
    BY <1>3, <1>4, <1>5, <2>1, BoundsAssumption
  <2>3. c = v.registry
    BY <2>2 DEF Shared
  <2> HIDE DEF c
  <2>4. i \in Instances
    BY <1>2, <2>2, <2>3, BoundsAssumption DEF Instances, Never
  <2>5. i # None
    BY <2>4, NoneAssumption
  <2>6. /\ w \in Vtabs /\ w.current = i /\ w.registry = v.registry /\ w.old = v.old
        /\ w.joined = FALSE /\ w.begun = v.begun /\ w.collectors = v.collectors
        /\ u.joined = FALSE
    <3> HIDE DEF i
    <3> QED BY <1>7, <2>2, <2>3, <2>4 DEF Vtabs
  <2> HIDE DEF w
  <2>7. Serves(w.current, w, d)
    BY <1>2, <2>2, <2>3, <2>6 DEF Serves
  <2>8. Batch(w) = Batch(v)
    BY <2>6 DEF Batch
  <2>9. OldOK(w, d)
    BY <2>6 DEF VtabOK, OldOK, Serves
  <2>10. ~Idle(w) /\ ~Idle(v) /\ v.begun
    BY <1>7, <2>6 DEF VtabOK, BegunOK, Idle
  <2>11. EmptyOK(w) /\ BegunOK(w)
    BY <2>6, <2>10 DEF VtabOK, EmptyOK, BegunOK
  <2>12. CurrentOK(w, d)
    <3> HIDE DEF i
    <3> QED BY <2>5, <2>6, <2>7 DEF CurrentOK
  <2> HIDE DEF i
  <2> QED BY <1>1, <2>5, <2>6, <2>7, <2>8, <2>9, <2>11, <2>12 DEF VtabOK
<1> QED BY <1>6, <1>7

\* xConnect gives the view an instance, and keeps the batch.
LEMMA ConnectedOK ==
  ASSUME NEW v, NEW d, VtabOK(v, d), DbOK(d), d.view # None,
         NEW g, g \in 0 .. MaxDdl
  PROVE  LET w == Connected(v, d, g)
         IN  /\ VtabOK(w, d) /\ Batch(w) = Batch(v) /\ w.current # None
             /\ w.joined = v.joined /\ w.begun = v.begun
<1>1. CASE v.current # None
  BY <1>1 DEF Connected
<1>2. CASE v.current = None
  <2> DEFINE u == [v EXCEPT !.current = Unbound]
  <2>1. v \in Vtabs /\ v.joined = FALSE
    BY <1>2 DEF VtabOK, Vtabs, CurrentOK
  <2>2. Unbound \in Instances
    BY BoundsAssumption DEF Instances, Unbound, Never
  <2>3. /\ u \in Vtabs /\ u.old = v.old /\ u.collectors = v.collectors
        /\ u.registry = v.registry /\ u.begun = v.begun /\ u.joined = FALSE
        /\ u.current = Unbound
    BY <2>1, <2>2 DEF Vtabs
  <2>4. Unbound # None /\ Unbound.collector = 0 /\ Unbound.query = None
        /\ Unbound.generation = Never
    BY <2>2, NoneAssumption DEF Unbound
  <2>5. d.query = d.source /\ d.query # None
    BY NamesAssumption DEF DbOK, Catalogued, Dbs
  <2>6. Never # g
    BY BoundsAssumption DEF Never
  <2> HIDE DEF u
  <2>7. NeedsBind(u, d, g) /\ Binds(d)
    BY <2>3, <2>4, <2>5, <2>6 DEF NeedsBind, Binds
  <2>8. Connected(v, d, g) = Bound(u, d, g)
    BY <1>2, <2>7 DEF Connected, Refreshed, u
  <2>9. LET w == Bound(u, d, g)
        IN  /\ VtabOK(w, d) /\ Batch(w) = Batch(v)
            /\ w.joined = u.joined /\ w.begun = v.begun
            /\ w.current # None /\ Serves(w.current, w, d)
    BY <2>1, <2>3, <2>4, BoundOK
  <2> QED BY <2>1, <2>3, <2>8, <2>9
<1> QED BY <1>1, <1>2

\* A new stamp changes nothing else.
LEMMA StampedOK ==
  ASSUME NEW v, NEW d, VtabOK(v, d), v.current # None, Serves(v.current, v, d),
         NEW g, g \in 0 .. MaxDdl
  PROVE  LET w == Stamped(v, g)
         IN  /\ VtabOK(w, d) /\ Batch(w) = Batch(v)
             /\ w.current # None /\ Serves(w.current, w, d)
             /\ w.joined = v.joined /\ w.begun = v.begun
<1> DEFINE i == [v.current EXCEPT !.generation = g]
           w == [v EXCEPT !.current = i]
<1>1. Stamped(v, g) = w
  BY DEF Stamped
<1>2. v \in Vtabs /\ v.current \in Instances
  BY DEF VtabOK, Vtabs
<1>3. i \in Instances /\ i.query = v.current.query /\ i.collector = v.current.collector
  <2>1. g \in 0 .. Never
    BY BoundsAssumption DEF Never
  <2> QED BY <1>2, <2>1 DEF Instances
<1>4. i # None
  BY <1>3, NoneAssumption
<1> HIDE DEF i
<1>5. /\ w \in Vtabs /\ w.current = i /\ w.old = v.old /\ w.joined = v.joined
      /\ w.begun = v.begun /\ w.collectors = v.collectors /\ w.registry = v.registry
  BY <1>2, <1>3 DEF Vtabs
<1> HIDE DEF w
<1>6. Serves(i, w, d)
  BY <1>3, <1>5 DEF Serves
<1>7. /\ OldOK(w, d) /\ EmptyOK(w) /\ BegunOK(w)
  BY <1>5 DEF VtabOK, OldOK, EmptyOK, BegunOK, Serves, Idle
<1>8. CurrentOK(w, d)
  BY <1>4, <1>5, <1>6 DEF VtabOK, CurrentOK, Idle
<1>9. Batch(w) = Batch(v)
  BY <1>5 DEF Batch
<1> QED BY <1>1, <1>4, <1>5, <1>6, <1>7, <1>8, <1>9 DEF VtabOK

\* A refresh of an installed view binds what was not bound, and never fails.
LEMMA RefreshedOK ==
  ASSUME NEW v, NEW d, VtabOK(v, d), DbOK(d), d.view # None, v.current # None,
         NEW g, g \in 0 .. MaxDdl
  PROVE  LET w == Refreshed(v, d, g)
         IN  /\ VtabOK(w, d) /\ Batch(w) = Batch(v)
             /\ w.current # None /\ Serves(w.current, w, d)
             /\ w.joined = v.joined /\ w.begun = v.begun
             /\ ~Refuses(v, d, g)
<1>1. d.query = d.source /\ d.query # None
  BY NamesAssumption DEF DbOK, Catalogued, Dbs
<1>2. Binds(d)
  BY <1>1 DEF Binds
<1>3. CASE Serves(v.current, v, d)
  <2>1. ~NeedsBind(v, d, g)
    BY <1>1, <1>3 DEF NeedsBind, Serves
  <2>2. Refreshed(v, d, g) = Stamped(v, g) /\ ~RefreshFails(v, d, g)
    BY <2>1 DEF Refreshed, RefreshFails
  <2>3. LET w == Stamped(v, g)
        IN  /\ VtabOK(w, d) /\ Batch(w) = Batch(v)
            /\ w.current # None /\ Serves(w.current, w, d)
            /\ w.joined = v.joined /\ w.begun = v.begun
    BY <1>3, StampedOK
  <2>4. Stamped(v, g).current.query # None
    BY <1>1, <2>3 DEF Serves
  <2> QED BY <2>2, <2>3, <2>4 DEF Refuses
<1>4. CASE ~Serves(v.current, v, d)
  <2>1. /\ v.current.query = None /\ v.current.collector = 0
        /\ v.current.generation = Never /\ Idle(v)
    BY <1>4 DEF VtabOK, CurrentOK
  <2>2. Never # g
    BY BoundsAssumption DEF Never
  <2>3. NeedsBind(v, d, g)
    BY <1>1, <2>1, <2>2 DEF NeedsBind
  <2>4. Refreshed(v, d, g) = Bound(v, d, g) /\ ~RefreshFails(v, d, g)
    BY <1>2, <2>3 DEF Refreshed, RefreshFails
  <2>5. v \in Vtabs /\ v.joined = FALSE
    BY <2>1 DEF VtabOK, Vtabs, Idle
  <2>6. LET w == Bound(v, d, g)
        IN  /\ VtabOK(w, d) /\ Batch(w) = Batch(v)
            /\ w.joined = v.joined /\ w.begun = v.begun
            /\ w.current # None /\ Serves(w.current, w, d)
    BY <2>1, <2>5, BoundOK
  <2>7. Bound(v, d, g).current.query # None
    BY <1>1, <2>6 DEF Serves
  <2> QED BY <2>4, <2>6, <2>7 DEF Refuses
<1> QED BY <1>3, <1>4

\* xBegin of an instance, then the refresh of its first write: it has joined, bound,
\* and the batch it shares is what it was.
LEMMA ReadyOK ==
  ASSUME NEW v, NEW d, VtabOK(v, d), DbOK(d), d.view # None, v.current # None,
         NEW g, g \in 0 .. MaxDdl
  PROVE  LET w == Refreshed(Begun(v), d, g)
         IN  /\ VtabOK(w, d) /\ Batch(w) = Batch(v)
             /\ w.joined /\ w.current # None /\ Serves(w.current, w, d)
             /\ ~Refuses(Begun(v), d, g)
<1>1. v \in Vtabs /\ v.registry \in 0 .. MaxCollectors
      /\ v.collectors \in [1 .. MaxCollectors -> Collectors]
  BY DEF VtabOK, Vtabs
<1>2. CASE v.joined
  <2>1. Begun(v) = v
    BY <1>2 DEF Begun
  <2> QED BY <1>2, <2>1, RefreshedOK
<1>3. CASE ~v.joined /\ Serves(v.current, v, d)
  <2> DEFINE u == [v EXCEPT !.joined = TRUE, !.begun = TRUE]
  <2>1. v.current.collector = v.registry /\ v.registry \in 1 .. MaxCollectors
    BY <1>1, <1>3, BoundsAssumption DEF Serves
  <2>2. Begun(v) = u
    <3>1. CASE v.begun
      BY <1>1, <1>3, <2>1, <3>1 DEF Begun, Vtabs
    <3>2. CASE ~v.begun
      <4>1. Idle(v)
        BY <1>3, <3>2 DEF VtabOK, BegunOK, Idle
      <4>2. v.collectors[v.registry] = Collector
        BY <2>1, <4>1 DEF VtabOK, EmptyOK
      <4>3. [v.collectors EXCEPT ![v.registry] = Collector] = v.collectors
        BY <1>1, <2>1, <4>2
      <4>4. Begun(v) = [v EXCEPT !.joined = TRUE, !.begun = TRUE,
                                 !.collectors = [v.collectors EXCEPT ![v.registry] = Collector]]
        BY <1>1, <1>3, <2>1, <3>2 DEF Begun, Vtabs
      <4> QED BY <1>1, <4>3, <4>4 DEF Vtabs
    <3> QED BY <3>1, <3>2
  <2>3. /\ u \in Vtabs /\ u.current = v.current /\ u.old = v.old /\ u.joined = TRUE
        /\ u.begun = TRUE /\ u.collectors = v.collectors /\ u.registry = v.registry
    BY <1>1 DEF Vtabs
  <2> HIDE DEF u
  <2>4. ~Idle(u) /\ Batch(u) = Batch(v)
    BY <2>3 DEF Idle, Batch
  <2>5. VtabOK(u, d)
    BY <1>3, <2>3, <2>4 DEF VtabOK, OldOK, CurrentOK, EmptyOK, BegunOK, Serves
  <2>6. LET w == Refreshed(u, d, g)
        IN  /\ VtabOK(w, d) /\ Batch(w) = Batch(u)
            /\ w.current # None /\ Serves(w.current, w, d)
            /\ w.joined = u.joined /\ w.begun = u.begun
            /\ ~Refuses(u, d, g)
    BY <2>3, <2>5, RefreshedOK
  <2> QED BY <2>2, <2>3, <2>4, <2>6
<1>4. CASE ~v.joined /\ ~Serves(v.current, v, d)
  <2> DEFINE u == [v EXCEPT !.joined = TRUE]
  <2>1. /\ v.current.query = None /\ v.current.collector = 0
        /\ v.current.generation = Never /\ v.old = <<>>
    BY <1>4 DEF VtabOK, CurrentOK, Idle
  <2>2. Begun(v) = u
    BY <1>4, <2>1 DEF Begun
  <2>3. /\ u \in Vtabs /\ u.current = v.current /\ u.old = v.old /\ u.joined = TRUE
        /\ u.begun = v.begun /\ u.collectors = v.collectors /\ u.registry = v.registry
    BY <1>1 DEF Vtabs
  <2> HIDE DEF u
  <2>4. LET w == Bound(u, d, g)
        IN  /\ VtabOK(w, d) /\ Batch(w) = Batch(v)
            /\ w.joined = u.joined /\ w.begun = v.begun
            /\ w.current # None /\ Serves(w.current, w, d)
    BY <1>4, <2>1, <2>3, BoundOK
  <2>5. d.query = d.source /\ d.query # None
    BY NamesAssumption DEF DbOK, Catalogued, Dbs
  <2>6. Never # g
    BY BoundsAssumption DEF Never
  <2>7. NeedsBind(u, d, g) /\ Binds(d)
    BY <2>1, <2>3, <2>5, <2>6 DEF NeedsBind, Binds
  <2>8. Refreshed(u, d, g) = Bound(u, d, g) /\ ~RefreshFails(u, d, g)
    BY <2>7 DEF Refreshed, RefreshFails
  <2>9. Bound(u, d, g).current.query # None
    BY <2>4, <2>5 DEF Serves
  <2> QED BY <2>2, <2>3, <2>4, <2>8, <2>9 DEF Refuses
<1> QED BY <1>2, <1>3, <1>4

-----------------------------------------------------------------------------
(* Rows, counted.                                                          *)

\* Sums of counts, row by row.
LEMMA Counting ==
  /\ \A f \in Counts, g \in Counts : Plus(f, g) \in Counts
  /\ \A f \in Counts : Plus(f, NoRows) = f
  /\ \A S : Each(S) \in Counts
<1>1. \A f \in Counts, g \in Counts : Plus(f, g) \in Counts
  BY DEF Counts, Plus
<1>2. \A f \in Counts : Plus(f, NoRows) = f
  BY DEF Counts, Plus, NoRows
<1>3. \A S : Each(S) \in Counts
  BY DEF Counts, Each
<1> QED BY <1>1, <1>2, <1>3

\* One more row, staged.
LEMMA OneMore ==
  ASSUME NEW f \in Counts, NEW g \in Counts, NEW S, NEW r, r \notin S, Plus(f, g) = Each(S)
  PROVE  Plus(f, Plus(g, Each({r}))) = Each(S \cup {r})
<1>1. ASSUME NEW x \in Rows
      PROVE  f[x] + (g[x] + Each({r})[x]) = Each(S \cup {r})[x]
  <2>1. f[x] \in Nat /\ g[x] \in Nat
    BY DEF Counts
  <2>2. f[x] + g[x] = IF x \in S THEN 1 ELSE 0
    <3>1. Plus(f, g)[x] = f[x] + g[x] /\ Each(S)[x] = IF x \in S THEN 1 ELSE 0
      BY DEF Plus, Each
    <3> QED BY <3>1
  <2>3. /\ Each({r})[x] = IF x = r THEN 1 ELSE 0
        /\ Each(S \cup {r})[x] = IF x \in S \/ x = r THEN 1 ELSE 0
    BY DEF Each
  <2> QED BY <2>1, <2>2, <2>3
<1>2. /\ Plus(f, Plus(g, Each({r}))) = [x \in Rows |-> f[x] + (g[x] + Each({r})[x])]
  BY DEF Plus
<1>3. Each(S \cup {r}) = [x \in Rows |-> Each(S \cup {r})[x]]
  BY DEF Each
<1> QED BY <1>1, <1>2, <1>3

-----------------------------------------------------------------------------
(* The invariant's parts that a step leaves alone.                         *)

\* What a reader may use of Inv.
LEMMA InvIs ==
  ASSUME Inv
  PROVE  /\ generation \in 0 .. MaxDdl /\ nextRow \in Nat \ {0}
         /\ VtabOK(vtab, db) /\ DbOK(db) /\ db \in Dbs
         /\ Batch(vtab) \in Collectors /\ Batch(vtab).staged \in Counts
         /\ db.stored \in Counts
         /\ saves \in Seq(Dbs) /\ Len(saves) \in Nat /\ DOMAIN saves = 1 .. Len(saves)
<1>1. /\ generation \in 0 .. MaxDdl /\ nextRow \in Nat \ {0}
  BY BoundsAssumption DEF Inv, CountersOK
<1>2. VtabOK(vtab, db) /\ DbOK(db) /\ db \in Dbs
  BY DEF Inv, DbOK
<1>3. Batch(vtab) \in Collectors
  BY <1>2, StagedIsBatch
<1>4. Batch(vtab).staged \in Counts /\ db.stored \in Counts
  BY <1>2, <1>3 DEF Collectors, Dbs
<1>5. saves \in Seq(Dbs)
  BY DEF Inv, SavesOK
<1> QED BY <1>1, <1>2, <1>3, <1>4, <1>5, LenProperties

\* More rows leave room for those there were.
LEMMA Wider ==
  ASSUME NEW a \in Nat, NEW b \in Nat, a <= b
  PROVE  1 .. a - 1 \subseteq 1 .. b - 1
OBVIOUS

\* The savepoints are as they were when the marks are.
LEMMA SavesKept ==
  ASSUME Inv, saves' = saves, nextRow' \in Nat, nextRow <= nextRow',
         \A i : MarkIn(Batch(vtab'), i) = MarkIn(Batch(vtab), i),
         db.view = None => db'.view = None \/ Len(saves) <= 1,
         saves = <<>> => Idle(vtab')
  PROVE  SavesOK'
<1>1. /\ saves \in Seq(Dbs) /\ Len(saves) \in Nat /\ nextRow \in Nat \ {0}
  BY InvIs
<1>2. ASSUME NEW j \in 1 .. Len(saves)
      PROVE  saves[j].rows \subseteq 1 .. nextRow' - 1
  <2>1. saves[j].rows \subseteq 1 .. nextRow - 1
    BY DEF Inv, SavesOK
  <2>2. 1 .. nextRow - 1 \subseteq 1 .. nextRow' - 1
    BY <1>1, Wider
  <2> QED BY <2>1, <2>2
<1>3. ASSUME NEW j \in 2 .. Len(saves)
      PROVE  /\ Covers(saves[j], MarkOf(vtab', j - 2))
             /\ saves[j].view = None => 
                  db'.view = None /\ \A l \in j .. Len(saves) : saves[l].view = None
  <2>1. /\ Covers(saves[j], MarkOf(vtab, j - 2))
        /\ saves[j].view = None => 
             db.view = None /\ \A l \in j .. Len(saves) : saves[l].view = None
    BY DEF Inv, SavesOK
  <2>2. ~(Len(saves) <= 1)
    BY <1>1
  <2> QED BY <2>1, <2>2 DEF MarkOf
<1> QED BY <1>1, <1>2, <1>3 DEF Inv, SavesOK

-----------------------------------------------------------------------------
(* Transactions and savepoints.                                            *)

\* BEGIN saves what a ROLLBACK goes back to.
LEMMA BeginKeeps == ASSUME Inv, Begin PROVE Inv'
<1> USE DEF Begin, Ends, Open
<1>1. CountersOK'
  BY DEF Inv, CountersOK
<1>2. Batch(vtab) = Collector /\ Idle(vtab)
  BY InvIs, StagedIsBatch DEF Inv, SavesOK
<1>3. DbOK(db') /\ db'.rows \subseteq 1 .. nextRow' - 1 /\ VtabOK(vtab', db')
      /\ Covers(db', Batch(vtab').staged) /\ outcome' = "ok"
  BY DEF Inv
<1>4. ReadsSeeWrites'
  BY DEF ReadsSeeWrites
<1>5. SavesOK'
  <2>1. saves' \in Seq(Dbs) /\ Len(saves') = 1 /\ saves'[1] = db /\ saves' # <<>>
    BY InvIs
  <2>2. Covers(db, NoRows)
    BY <1>2, Empty DEF Inv
  <2> QED BY <1>3, <2>1, <2>2, BoundsAssumption DEF SavesOK
<1> QED BY <1>1, <1>3, <1>4, <1>5 DEF Inv

\* The three savepoint callbacks, on the instances and on the batch.
LEMMA CallbacksOK ==
  ASSUME NEW v, NEW d, VtabOK(v, d), NEW i, i \in 0 .. MaxSavepoints
  PROVE  LET m == Marked(v, i)
             r == Released(v, i)
             t == Returned(v, i)
         IN  /\ VtabOK(m, d) /\ (Idle(m) <=> Idle(v))
             /\ Batch(m).staged = Batch(v).staged /\ MarkOf(m, i) = Batch(v).staged
             /\ \A k : k # i => MarkOf(m, k) = MarkOf(v, k)
             /\ VtabOK(r, d) /\ (Idle(r) <=> Idle(v)) /\ Batch(r).staged = Batch(v).staged
             /\ \A k \in 0 .. i - 1 : MarkOf(r, k) = MarkOf(v, k)
             /\ VtabOK(t, d) /\ (Idle(t) <=> Idle(v)) /\ Batch(t).staged = MarkOf(v, i)
             /\ \A k \in 0 .. i : MarkOf(t, k) = MarkOf(v, k)
             /\ t.joined = v.joined /\ t.begun = v.begun
<1> DEFINE m == Marked(v, i)
           r == Released(v, i)
           t == Returned(v, i)
           b == Batch(v)
<1>1. b \in Collectors
  BY StagedIsBatch
<1>2. CASE Idle(v)
  <2>1. m = v /\ r = v /\ t = v
    BY <1>2, MappedIs
  <2>2. b = Collector
    BY <1>2, StagedIsBatch
  <2>3. MarkOf(v, i) = NoRows /\ b.staged = NoRows
    BY <2>2, Empty DEF MarkOf, MarkIn
  <2> HIDE DEF m, r, t
  <2> QED BY <2>1, <2>3 DEF m, r, t
<1>3. CASE ~Idle(v)
  <2>1. /\ m = WithBatch(v, Marking(b, i))
        /\ r = WithBatch(v, Releasing(b, i))
        /\ t = WithBatch(v, Returning(b, i))
    BY <1>3, MappedIs
  <2>2. v.registry # 0
    BY <1>3, Shares
  <2>3. /\ Marking(b, i) \in Collectors
        /\ Marking(b, i).staged = b.staged
        /\ MarkIn(Marking(b, i), i) = b.staged
        /\ \A k : k # i => MarkIn(Marking(b, i), k) = MarkIn(b, k)
        /\ Releasing(b, i) \in Collectors
        /\ Releasing(b, i).staged = b.staged
        /\ \A k \in 0 .. i - 1 : MarkIn(Releasing(b, i), k) = MarkIn(b, k)
        /\ Returning(b, i) \in Collectors
        /\ Returning(b, i).staged = MarkIn(b, i)
        /\ \A k \in 0 .. i : MarkIn(Returning(b, i), k) = MarkIn(b, k)
    BY <1>1, MarksOfBatch
  <2> HIDE DEF m, r, t
  <2>4. VtabOK(m, d) /\ (Idle(m) <=> Idle(v)) /\ Batch(m) = Marking(b, i)
    BY <1>3, <2>1, <2>2, <2>3, WithBatchOK
  <2>5. VtabOK(r, d) /\ (Idle(r) <=> Idle(v)) /\ Batch(r) = Releasing(b, i)
    BY <1>3, <2>1, <2>2, <2>3, WithBatchOK
  <2>6. /\ VtabOK(t, d) /\ (Idle(t) <=> Idle(v)) /\ Batch(t) = Returning(b, i)
        /\ t.joined = v.joined /\ t.begun = v.begun
    BY <1>3, <2>1, <2>2, <2>3, WithBatchOK
  <2> HIDE DEF b
  <2> QED BY <2>3, <2>4, <2>5, <2>6 DEF MarkOf, m, r, t, b
<1> QED BY <1>2, <1>3

\* One by one.
LEMMA MarkedOK ==
  ASSUME NEW v, NEW d, VtabOK(v, d), NEW i, i \in 0 .. MaxSavepoints, NEW w, w = Marked(v, i)
  PROVE  /\ VtabOK(w, d) /\ (Idle(w) <=> Idle(v))
         /\ Batch(w).staged = Batch(v).staged /\ MarkOf(w, i) = Batch(v).staged
         /\ \A k : k # i => MarkOf(w, k) = MarkOf(v, k)
BY CallbacksOK

\* A release of savepoint i.
LEMMA ReleasedOK ==
  ASSUME NEW v, NEW d, VtabOK(v, d), NEW i, i \in 0 .. MaxSavepoints, NEW w, w = Released(v, i)
  PROVE  /\ VtabOK(w, d) /\ (Idle(w) <=> Idle(v)) /\ Batch(w).staged = Batch(v).staged
         /\ \A k \in 0 .. i - 1 : MarkOf(w, k) = MarkOf(v, k)
BY CallbacksOK

\* A rollback to savepoint i.
LEMMA ReturnedOK ==
  ASSUME NEW v, NEW d, VtabOK(v, d), NEW i, i \in 0 .. MaxSavepoints, NEW w, w = Returned(v, i)
  PROVE  /\ VtabOK(w, d) /\ (Idle(w) <=> Idle(v)) /\ Batch(w).staged = MarkOf(v, i)
         /\ \A k \in 0 .. i : MarkOf(w, k) = MarkOf(v, k)
         /\ w.joined = v.joined /\ w.begun = v.begun
BY CallbacksOK

\* SAVEPOINT marks the batch where it saves the database (2_vtab.rs: savepoint).
LEMMA SavepointKeeps == ASSUME Inv, Savepoint PROVE Inv'
<1> DEFINE n == Len(saves)
           s == Append(saves, db)
<1>1. /\ saves' = s /\ db' = db /\ nextRow' = nextRow /\ outcome' = "ok" /\ seen' = None
      /\ vtab' = Marked(vtab, n - 1)
      /\ generation' = generation /\ ddls' = ddls /\ saves # <<>> /\ n - 1 < MaxSavepoints
  BY DEF Savepoint, Ends, Depth, Open, Marked
<1>2. n \in Nat /\ n # 0 /\ saves \in Seq(Dbs) /\ db \in Dbs
  BY <1>1, InvIs, EmptySeq
<1>3. n - 1 \in 0 .. MaxSavepoints
  BY <1>1, <1>2, BoundsAssumption
<1>4. /\ VtabOK(vtab', db) /\ (Idle(vtab') <=> Idle(vtab))
      /\ Batch(vtab').staged = Batch(vtab).staged /\ MarkOf(vtab', n - 1) = Batch(vtab).staged
      /\ \A k : k # n - 1 => MarkOf(vtab', k) = MarkOf(vtab, k)
  <2>1. VtabOK(vtab, db) /\ vtab' = Marked(vtab, n - 1)
    BY <1>1, InvIs
  <2> HIDE DEF n
  <2> QED BY <1>3, <2>1, MarkedOK
<1>5. /\ s \in Seq(Dbs) /\ s # <<>> /\ Len(s) = n + 1
      /\ \A j \in 1 .. n : s[j] = saves[j]
      /\ s[n + 1] = db
  BY <1>2, AppendProperties
<1> HIDE DEF s, n
<1>6. SavesOK'
  <2>1. Len(s) <= MaxSavepoints + 1
    BY <1>1, <1>2, <1>5, BoundsAssumption
  <2>2. ASSUME NEW j \in 1 .. Len(s)
        PROVE  DbOK(s[j]) /\ s[j].rows \subseteq 1 .. nextRow - 1
    <3>1. j \in 1 .. n \/ j = n + 1
      BY <1>2, <1>5
    <3> QED BY <1>5, <3>1 DEF Inv, SavesOK, n
  <2>3. Covers(s[1], NoRows)
    BY <1>1, <1>2, <1>5 DEF Inv, SavesOK
  <2>4. ASSUME NEW j \in 2 .. Len(s)
        PROVE  /\ Covers(s[j], MarkOf(vtab', j - 2))
               /\ s[j].view = None => db.view = None /\ \A l \in j .. Len(s) : s[l].view = None
    <3>1. CASE j = n + 1
      <4>1. j - 2 = n - 1
        BY <1>2, <3>1
      <4>2. \A l \in j .. Len(s) : l = j
        BY <1>2, <1>5, <3>1
      <4> QED BY <1>4, <1>5, <3>1, <4>1, <4>2 DEF Inv
    <3>2. CASE j # n + 1
      <4>1. j \in 2 .. n /\ j \in 1 .. n /\ j - 2 # n - 1
        BY <1>2, <1>5, <3>2
      <4>2. /\ Covers(saves[j], MarkOf(vtab, j - 2))
            /\ saves[j].view = None =>
                 db.view = None /\ \A l \in j .. n : saves[l].view = None
        BY <4>1 DEF Inv, SavesOK, n
      <4>3. \A l \in j .. Len(s) : (l \in j .. n /\ l \in 1 .. n) \/ l = n + 1
        BY <1>2, <1>5
      <4> QED BY <1>4, <1>5, <4>1, <4>2, <4>3
    <3> QED BY <3>1, <3>2
  <2> QED BY <1>1, <1>5, <2>1, <2>2, <2>3, <2>4 DEF SavesOK
<1>7. CountersOK' /\ ReadsSeeWrites'
  BY <1>1 DEF Inv, CountersOK, ReadsSeeWrites
<1> QED BY <1>1, <1>4, <1>6, <1>7 DEF Inv

\* RELEASE forgets the marks and the savepoints from the released one on.
LEMMA ReleaseKeeps == ASSUME Inv, NEW i \in 0 .. MaxSavepoints - 1, Release(i) PROVE Inv'
<1> DEFINE n == Len(saves)
           s == SubSeq(saves, 1, i + 1)
<1>1. /\ saves' = s /\ db' = db /\ nextRow' = nextRow /\ outcome' = "ok" /\ seen' = None
      /\ vtab' = Released(vtab, i)
      /\ generation' = generation /\ ddls' = ddls /\ saves # <<>> /\ i < n - 1
  BY DEF Release, Ends, Depth, Open, Released
<1>2. n \in Nat /\ n <= MaxSavepoints + 1 /\ saves \in Seq(Dbs) /\ i \in Nat /\ i + 1 <= n
      /\ i \in 0 .. MaxSavepoints
  <2>1. n \in Nat /\ saves \in Seq(Dbs) /\ n <= MaxSavepoints + 1
    BY InvIs DEF Inv, SavesOK
  <2> HIDE DEF n
  <2> QED BY <1>1, <2>1, BoundsAssumption
<1>3. /\ VtabOK(vtab', db) /\ (Idle(vtab') <=> Idle(vtab))
      /\ Batch(vtab').staged = Batch(vtab).staged
      /\ \A k \in 0 .. i - 1 : MarkOf(vtab', k) = MarkOf(vtab, k)
  <2>1. VtabOK(vtab, db) /\ vtab' = Released(vtab, i)
    BY <1>1, InvIs
  <2> QED BY <1>2, <2>1, ReleasedOK
<1>4. s \in Seq(Dbs) /\ Len(s) = i + 1 /\ \A j \in 1 .. i + 1 : s[j] = saves[j]
  <2>1. \A j \in 1 .. i + 1 : saves[j] \in Dbs
    BY <1>2, ElementOfSeq
  <2> QED BY <1>2, <2>1, SubSeqProperties
<1> HIDE DEF s, n
<1>5. SavesOK'
  <2>1. Len(s) <= MaxSavepoints + 1 /\ s # <<>>
    BY <1>2, <1>4, EmptySeq, BoundsAssumption
  <2>2. ASSUME NEW j \in 1 .. Len(s)
        PROVE  DbOK(s[j]) /\ s[j].rows \subseteq 1 .. nextRow - 1
    <3>1. j \in 1 .. n /\ s[j] = saves[j]
      BY <1>2, <1>4
    <3> QED BY <3>1 DEF Inv, SavesOK, n
  <2>3. Covers(s[1], NoRows)
    BY <1>1, <1>2, <1>4 DEF Inv, SavesOK
  <2>4. ASSUME NEW j \in 2 .. Len(s)
        PROVE  /\ Covers(s[j], MarkOf(vtab', j - 2))
               /\ s[j].view = None => db.view = None /\ \A l \in j .. Len(s) : s[l].view = None
    <3>1. j \in 2 .. n /\ s[j] = saves[j] /\ j - 2 \in 0 .. i - 1
      BY <1>2, <1>4
    <3>2. /\ Covers(saves[j], MarkOf(vtab, j - 2))
          /\ saves[j].view = None =>
               db.view = None /\ \A l \in j .. n : saves[l].view = None
      BY <3>1 DEF Inv, SavesOK, n
    <3>3. \A l \in j .. Len(s) : l \in j .. n /\ s[l] = saves[l]
      BY <1>2, <1>4
    <3> QED BY <1>3, <3>1, <3>2, <3>3
  <2> QED BY <1>1, <1>4, <2>1, <2>2, <2>3, <2>4 DEF SavesOK
<1>6. CountersOK' /\ ReadsSeeWrites'
  BY <1>1 DEF Inv, CountersOK, ReadsSeeWrites
<1> QED BY <1>1, <1>3, <1>5, <1>6 DEF Inv

\* A rollback to what was stored under these names keeps the instances, or reloads
\* the schema.
LEMMA ReloadedOK ==
  ASSUME NEW v, NEW d, VtabOK(v, d), NEW e, NEW w, w \in Reloaded(v, d, e),
         v.joined => v.begun,
         e.source = d.source \/ Idle(v),
         e.view = None => v.current = None /\ Idle(v)
  PROVE  VtabOK(w, e) /\ Batch(w) = Batch(v) /\ (Idle(w) <=> Idle(v))
<1> DEFINE t == Detached(v)
<1>1. /\ VtabOK(t, d) /\ t.current = None /\ Batch(t) = Batch(v) /\ (Idle(t) <=> Idle(v))
  BY DetachedOK
<1>2. w = t \/ (w = v /\ Schema(d) = Schema(e))
  BY DEF Reloaded
<1> HIDE DEF t
<1>3. VtabOK(t, e)
  <2>1. e.view = None => t.current = None /\ Idle(t)
    BY <1>1
  <2>2. \/ e.source = d.source
        \/ Idle(t) /\ (t.current # None => t.current.query = None /\ t.current.collector = 0)
    BY <1>1
  <2> QED BY <1>1, <2>1, <2>2, SameNames
<1>4. ASSUME Schema(d) = Schema(e) PROVE VtabOK(v, e)
  <2>1. e.source = d.source
    BY <1>4 DEF Schema
  <2> QED BY <2>1, SameNames
<1> QED BY <1>1, <1>2, <1>3, <1>4

\* ROLLBACK TO restores the database and the batch to the same point (2_vtab.rs:
\* rollback_to), whether or not SQLite reloads the schema.
LEMMA RollbackToKeeps ==
  ASSUME Inv, Orderly, NEW i \in 0 .. MaxSavepoints - 1, RollbackTo(i) PROVE Inv'
<1> DEFINE n == Len(saves)
           s == SubSeq(saves, 1, i + 2)
           v == Returned(vtab, i)
<1>1. /\ saves' = s /\ db' = saves[i + 2] /\ nextRow' = nextRow /\ outcome' = "ok" /\ seen' = None
      /\ vtab' \in Reloaded(v, db, db')
      /\ generation' = generation /\ ddls' = ddls /\ saves # <<>> /\ i < n - 1
      /\ ~Unsettled /\ (db'.source = db.source \/ Quiet)
  BY DEF RollbackTo, Ends, Depth, Open, Returned
<1>2. n \in Nat /\ n <= MaxSavepoints + 1 /\ saves \in Seq(Dbs) /\ i \in Nat /\ i + 2 <= n
      /\ i \in 0 .. MaxSavepoints
  <2>1. n \in Nat /\ saves \in Seq(Dbs) /\ n <= MaxSavepoints + 1
    BY InvIs DEF Inv, SavesOK
  <2> HIDE DEF n
  <2> QED BY <1>1, <2>1, BoundsAssumption
<1>3. /\ VtabOK(v, db) /\ (Idle(v) <=> Idle(vtab)) /\ Batch(v).staged = MarkOf(vtab, i)
      /\ \A k \in 0 .. i : MarkOf(v, k) = MarkOf(vtab, k)
      /\ v.joined = vtab.joined /\ v.begun = vtab.begun
  BY <1>2, InvIs, ReturnedOK
<1>4. s \in Seq(Dbs) /\ Len(s) = i + 2 /\ \A j \in 1 .. i + 2 : s[j] = saves[j]
  <2>1. \A j \in 1 .. i + 2 : saves[j] \in Dbs
    BY <1>2, ElementOfSeq
  <2> QED BY <1>2, <2>1, SubSeqProperties
<1> HIDE DEF s, n, v
<1>5. /\ DbOK(db') /\ db'.rows \subseteq 1 .. nextRow - 1
      /\ Covers(db', MarkOf(vtab, i))
      /\ db'.view = None => db.view = None
  <2>1. i + 2 \in 1 .. n /\ i + 2 \in 2 .. n /\ i + 2 - 2 = i
    BY <1>2
  <2> QED BY <1>1, <2>1 DEF Inv, SavesOK, n
<1>6. VtabOK(vtab', db') /\ Batch(vtab') = Batch(v)
  <2>1. v.joined => v.begun
    BY <1>1, <1>3 DEF Unsettled
  <2>2. db'.source = db.source \/ Idle(v)
    BY <1>1, <1>3, InvIs, Shares DEF Quiet
  <2>3. db'.view = None => v.current = None /\ Idle(v)
    BY <1>3, <1>5 DEF VtabOK, CurrentOK
  <2> QED BY <1>1, <1>3, <2>1, <2>2, <2>3, ReloadedOK
<1>7. Covers(db', Batch(vtab').staged)
  BY <1>3, <1>5, <1>6
<1>8. SavesOK'
  <2>1. Len(s) <= MaxSavepoints + 1 /\ s # <<>>
    BY <1>2, <1>4, EmptySeq, BoundsAssumption
  <2>2. ASSUME NEW j \in 1 .. Len(s)
        PROVE  DbOK(s[j]) /\ s[j].rows \subseteq 1 .. nextRow - 1
    <3>1. j \in 1 .. n /\ s[j] = saves[j]
      BY <1>2, <1>4
    <3> QED BY <3>1 DEF Inv, SavesOK, n
  <2>3. Covers(s[1], NoRows)
    BY <1>1, <1>2, <1>4 DEF Inv, SavesOK
  <2>4. ASSUME NEW j \in 2 .. Len(s)
        PROVE  /\ Covers(s[j], MarkOf(vtab', j - 2))
               /\ s[j].view = None => db'.view = None /\ \A l \in j .. Len(s) : s[l].view = None
    <3>1. j \in 2 .. n /\ s[j] = saves[j] /\ j - 2 \in 0 .. i
      BY <1>2, <1>4
    <3>2. /\ Covers(saves[j], MarkOf(vtab, j - 2))
          /\ saves[j].view = None => \A l \in j .. n : saves[l].view = None
      BY <3>1 DEF Inv, SavesOK, n
    <3>3. (\A l \in j .. Len(s) : l \in j .. n /\ s[l] = saves[l]) /\ i + 2 \in j .. n
      BY <1>2, <1>4
    <3>4. MarkOf(vtab', j - 2) = MarkOf(vtab, j - 2)
      BY <1>3, <1>6, <3>1 DEF MarkOf
    <3> QED BY <1>1, <3>1, <3>2, <3>3, <3>4
  <2> QED BY <1>1, <1>4, <2>1, <2>2, <2>3, <2>4 DEF SavesOK
<1>9. CountersOK' /\ ReadsSeeWrites'
  BY <1>1 DEF Inv, CountersOK, ReadsSeeWrites
<1> QED BY <1>1, <1>5, <1>6, <1>7, <1>8, <1>9 DEF Inv

\* Every joined instance has its plan: no xSync fails.
LEMMA NeverRefused == ASSUME Inv PROVE ~SyncFails(vtab, db)
<1> DEFINE t == Transaction(vtab)
<1>1. /\ \A k \in DOMAIN t : Serves(t[k], vtab, db)
      /\ t = <<>> <=> Idle(vtab)
  BY InvIs, Shares
<1>2. db.view # None => db.tables = db.view
  BY DEF Inv, DbOK, Catalogued
<1>3. ASSUME NEW k \in DOMAIN t
      PROVE  db.view # None /\ CanDrain(t[k], db)
  <2>1. db.view # None
    <3>1. t # <<>>
      BY <1>3
    <3> HIDE DEF t
    <3> QED BY <1>1, <3>1 DEF Inv, VtabOK, CurrentOK
  <2> QED BY <1>1, <1>2, <2>1 DEF CanDrain, Serves, Program
<1> QED BY <1>3 DEF SyncFails

\* The end of a transaction leaves no savepoint to account for.
LEMMA OverKeeps ==
  ASSUME Inv, saves' = <<>>, VtabOK(vtab', db'), Idle(vtab'),
         DbOK(db'), db'.rows \subseteq 1 .. nextRow - 1, Covers(db', NoRows),
         nextRow' = nextRow, ddls' = ddls, generation' = generation,
         outcome' = "ok", seen' = None
  PROVE  Inv'
<1>1. Batch(vtab').staged = NoRows
  BY StagedIsBatch, Empty
<1>2. SavesOK'
  <2>1. <<>> \in Seq(Dbs) /\ Len(<<>>) = 0
    BY EmptySeq
  <2> QED BY <2>1, BoundsAssumption DEF SavesOK
<1>3. CountersOK' /\ ReadsSeeWrites'
  BY DEF Inv, CountersOK, ReadsSeeWrites
<1> QED BY <1>1, <1>2, <1>3 DEF Inv

\* ROLLBACK empties the collectors with the rows they held (2_vtab.rs: rollback).
LEMMA UndoKeeps == ASSUME Inv, Open, UndoAll("ok") PROVE Inv'
<1> DEFINE e == Ended(vtab)
<1>1. /\ db' = saves[1] /\ saves' = <<>> /\ vtab' \in Reloaded(e, db, db')
      /\ nextRow' = nextRow /\ outcome' = "ok" /\ seen' = None
      /\ generation' = generation /\ ddls' = ddls /\ saves # <<>>
  BY DEF UndoAll, Ends, Open
<1>2. VtabOK(e, db) /\ Idle(e) /\ Batch(e) = Collector /\ e.current = vtab.current
  BY InvIs, EndedOK
<1>3. DbOK(db') /\ db'.rows \subseteq 1 .. nextRow - 1 /\ Covers(db', NoRows)
  <2>1. 1 \in 1 .. Len(saves)
    BY <1>1, InvIs, EmptySeq
  <2> QED BY <1>1, <2>1 DEF Inv, SavesOK
<1> HIDE DEF e
<1>4. VtabOK(vtab', db') /\ Idle(vtab')
  <2>1. CASE Schema(db) = Schema(db')
    <3>1. db'.source = db.source /\ db'.view = db.view
      BY <2>1 DEF Schema
    <3>2. db'.view = None => e.current = None /\ Idle(e)
      BY <1>2, <3>1 DEF VtabOK, CurrentOK
    <3>3. ~e.joined
      BY <1>2 DEF Idle
    <3> QED BY <1>1, <1>2, <3>1, <3>2, <3>3, ReloadedOK
  <2>2. CASE Schema(db) # Schema(db')
    <3> DEFINE t == Detached(e)
    <3>1. vtab' = t
      BY <1>1, <2>2 DEF Reloaded
    <3>2. ~e.joined
      BY <1>2 DEF Idle
    <3>3. VtabOK(t, db) /\ t.current = None /\ Idle(t)
      BY <1>2, <3>2, DetachedOK
    <3> HIDE DEF t
    <3>4. VtabOK(t, db')
      BY <3>3, SameNames
    <3> QED BY <3>1, <3>3, <3>4
  <2> QED BY <2>1, <2>2
<1> QED BY <1>1, <1>3, <1>4, OverKeeps

\* COMMIT stores the batch and empties the collectors (2_vtab.rs: sync, commit).
LEMMA CommitKeeps == ASSUME Inv, Commit PROVE Inv'
<1>1. /\ db' = [db EXCEPT !.stored = Plus(@, Staged(vtab))]
      /\ saves' = <<>> /\ vtab' = Ended(vtab)
      /\ nextRow' = nextRow /\ outcome' = "ok" /\ seen' = None
      /\ generation' = generation /\ ddls' = ddls
  BY NeverRefused DEF Commit, Ends
<1>2. VtabOK(vtab', db) /\ Idle(vtab') /\ vtab'.current = vtab.current
  BY <1>1, InvIs, EndedOK
<1>3. Staged(vtab) = Batch(vtab).staged
  BY InvIs, StagedIsBatch
<1> DEFINE stored == Plus(db.stored, Batch(vtab).staged)
<1>4. stored \in Counts
  BY InvIs, Counting
<1>5. db' = [db EXCEPT !.stored = stored]
  BY <1>1, <1>3
<1>6. db.view # None => stored = Each(db.rows)
  BY DEF Inv, Covers
<1>7. db.view = None => stored = NoRows
  <2> SUFFICES ASSUME db.view = None PROVE stored = NoRows
    OBVIOUS
  <2>1. Idle(vtab) /\ db.stored = NoRows
    BY InvIs DEF VtabOK, CurrentOK, DbOK, Absent
  <2>2. Batch(vtab).staged = NoRows
    BY <2>1, InvIs, StagedIsBatch, Empty
  <2> QED BY <2>1, <2>2, Counting, Empty
<1> HIDE DEF stored
<1>8. db' \in Dbs /\ db'.view = db.view /\ db'.source = db.source /\ db'.rows = db.rows
      /\ db'.stored = stored /\ db'.query = db.query /\ db'.recorded = db.recorded
      /\ db'.hooks = db.hooks /\ db'.tables = db.tables /\ db'.ledger = db.ledger
  BY <1>4, <1>5, InvIs DEF Dbs
<1>9. DbOK(db')
  BY <1>7, <1>8, InvIs DEF DbOK, Catalogued, Absent, ManifestHolds
<1>10. Covers(db', NoRows)
  BY <1>4, <1>6, <1>8, Counting DEF Covers
<1>11. VtabOK(vtab', db')
  BY <1>2, <1>8, SameNames DEF VtabOK, CurrentOK
<1> QED BY <1>1, <1>2, <1>8, <1>9, <1>10, <1>11, OverKeeps DEF Inv

-----------------------------------------------------------------------------
(* Writes and reads.                                                       *)

\* Which instances are called back shows in what has begun and joined.
LEMMA SameIdle ==
  ASSUME NEW v, NEW d, VtabOK(v, d), NEW w, NEW e, VtabOK(w, e),
         w.joined = v.joined, w.begun = v.begun
  PROVE  Idle(w) <=> Idle(v)
BY DEF VtabOK, BegunOK, Idle

\* A row enters the batch.
LEMMA StagingOK ==
  ASSUME NEW v, NEW d, VtabOK(v, d), v.joined, Serves(v.current, v, d), NEW r
  PROVE  LET w == Staging(v, r)
         IN  /\ VtabOK(w, d) /\ ~Idle(w)
             /\ Batch(w).staged = Plus(Batch(v).staged, Each({r}))
             /\ Batch(w).marks = Batch(v).marks
<1> DEFINE s == Plus(Batch(v).staged, Each({r}))
           b == [staged |-> s, marks |-> Batch(v).marks]
<1>1. ~Idle(v) /\ v.registry \in 1 .. MaxCollectors /\ v.registry # 0
  BY Shares DEF Idle, Serves
<1>2. Batch(v) \in Collectors /\ Batch(v) = v.collectors[v.registry]
  BY <1>1, StagedIsBatch DEF Batch
<1>3. b \in Collectors
  <2>1. s \in Counts
    BY <1>2, Counting DEF Collectors
  <2> HIDE DEF s
  <2> QED BY <1>2, <2>1 DEF Collectors
<1>4. Staging(v, r) = WithBatch(v, b)
  <2>1. v.current.collector = v.registry
    BY DEF Serves
  <2>2. v.collectors \in [1 .. MaxCollectors -> Collectors]
    BY DEF VtabOK, Vtabs
  <2>3. Staging(v, r) =
          [v EXCEPT !.collectors = [v.collectors EXCEPT ![v.registry] =
             [v.collectors[v.registry] EXCEPT
                !.staged = Plus(v.collectors[v.registry].staged, Each({r}))]]]
    BY <2>1 DEF Staging
  <2>4. Staging(v, r) = [v EXCEPT !.collectors = [v.collectors EXCEPT ![v.registry] =
                           [Batch(v) EXCEPT !.staged = s]]]
    BY <1>2, <2>3
  <2>5. [Batch(v) EXCEPT !.staged = s] = b
    <3> HIDE DEF s
    <3> QED BY <1>2 DEF Collectors
  <2> HIDE DEF b, s
  <2> QED BY <2>4, <2>5 DEF WithBatch
<1> HIDE DEF b
<1>5. LET w == WithBatch(v, b)
      IN  VtabOK(w, d) /\ Batch(w) = b /\ (Idle(w) <=> Idle(v))
  BY <1>1, <1>3, WithBatchOK
<1> QED BY <1>1, <1>4, <1>5 DEF b

\* Only an installed view has hooks, and they fire.
LEMMA FiresWhenInstalled == ASSUME Inv PROVE Fires <=> db.view # None
<1>1. db.view # None => db.hooks = Hooks(db.view, db.source) /\ db.hooks # None
  <2> SUFFICES ASSUME db.view # None
               PROVE  db.hooks = Hooks(db.view, db.source) /\ db.hooks # None
    OBVIOUS
  <2>1. db.hooks = Hooks(db.view, db.source)
    BY InvIs DEF DbOK, Catalogued
  <2>2. db.view \in ViewNames /\ db.source \in SourceNames
    BY InvIs DEF Dbs
  <2>3. Hooks(db.view, db.source) \in HooksSet
    BY <2>2 DEF HooksSet
  <2> QED BY <2>1, <2>3, NoneAssumption
<1>2. db.view = None => db.hooks = None
  BY InvIs DEF DbOK, Absent
<1> QED BY <1>1, <1>2 DEF Fires, Hooks

\* A row written is a row staged, in the batch all instances share (2_vtab.rs: update).
LEMMA WriteKeeps == ASSUME Inv, Write PROVE Inv'
<1> DEFINE written == [db EXCEPT !.rows = @ \cup {nextRow}]
           c == Connected(vtab, db, generation)
           w == Refreshed(Begun(c), db, generation)
<1>1. /\ nextRow' = nextRow + 1 /\ saves' = saves /\ generation' = generation /\ ddls' = ddls
      /\ seen' = None /\ saves # <<>> /\ nextRow <= MaxWrites
  BY DEF Write, Ends, Open
<1>2. nextRow \in Rows /\ nextRow \in Nat \ {0}
  BY <1>1, InvIs DEF Rows
<1>3. /\ written \in Dbs /\ written.source = db.source /\ written.view = db.view
      /\ written.rows = db.rows \cup {nextRow} /\ written.stored = db.stored
      /\ written.query = db.query /\ written.recorded = db.recorded
      /\ written.hooks = db.hooks /\ written.tables = db.tables /\ written.ledger = db.ledger
  BY <1>2, InvIs DEF Dbs
<1>4. written.rows \subseteq 1 .. nextRow' - 1 /\ nextRow \notin db.rows
  BY <1>1, <1>2, <1>3 DEF Inv
<1> HIDE DEF written
<1>5. DbOK(written)
  BY <1>3, InvIs DEF DbOK, Catalogued, Absent, ManifestHolds
<1>6. CountersOK' /\ ReadsSeeWrites'
  BY <1>1, <1>2 DEF Inv, CountersOK, ReadsSeeWrites
<1>7. CASE Fires
  <2>1. db.view # None
    BY <1>7, FiresWhenInstalled
  <2>2. /\ VtabOK(c, db) /\ Batch(c) = Batch(vtab) /\ c.current # None
    BY <2>1, InvIs, ConnectedOK
  <2>3. /\ VtabOK(w, db) /\ Batch(w) = Batch(vtab)
        /\ w.joined /\ w.current # None /\ Serves(w.current, w, db)
        /\ ~Refuses(Begun(c), db, generation)
    <3> HIDE DEF c
    <3> QED BY <2>1, <2>2, InvIs, ReadyOK
  <2>4. db' = written /\ vtab' = Staging(w, nextRow) /\ outcome' = "ok"
    BY <1>7, <2>3 DEF Write, Ends, written
  <2> HIDE DEF w
  <2>5. /\ VtabOK(vtab', db) /\ ~Idle(vtab')
        /\ Batch(vtab').staged = Plus(Batch(vtab).staged, Each({nextRow}))
        /\ Batch(vtab').marks = Batch(vtab).marks
    BY <2>3, <2>4, StagingOK
  <2>6. VtabOK(vtab', db')
    BY <1>3, <2>1, <2>4, <2>5, SameNames
  <2>7. Covers(db', Batch(vtab').staged)
    <3>1. Plus(db.stored, Batch(vtab).staged) = Each(db.rows)
      BY <2>1 DEF Inv, Covers
    <3>2. Plus(db.stored, Plus(Batch(vtab).staged, Each({nextRow}))) = Each(db.rows \cup {nextRow})
      <4>1. db.stored \in Counts /\ Batch(vtab).staged \in Counts
        BY InvIs
      <4>2. nextRow \notin db.rows
        BY <1>4
      <4> QED BY <3>1, <4>1, <4>2, OneMore
    <3> QED BY <1>3, <2>4, <2>5, <3>2 DEF Covers
  <2>8. \A i : MarkIn(Batch(vtab'), i) = MarkIn(Batch(vtab), i)
    BY <2>5 DEF MarkIn
  <2>9. SavesOK'
    BY <1>1, <1>2, <2>1, <2>8, SavesKept
  <2> QED BY <1>4, <1>5, <1>6, <2>4, <2>6, <2>7, <2>9 DEF Inv
<1>8. CASE ~Fires
  <2>1. db.view = None
    BY <1>8, FiresWhenInstalled
  <2>2. db' = written /\ vtab' = vtab /\ outcome' = "ok"
    BY <1>8 DEF Write, Ends, written
  <2>3. VtabOK(vtab', db')
    BY <1>3, <2>2, InvIs, SameNames DEF VtabOK, CurrentOK
  <2>4. Covers(db', Batch(vtab').staged)
    BY <1>3, <2>1, <2>2 DEF Covers
  <2>5. SavesOK'
    BY <1>1, <1>2, <1>3, <2>1, <2>2, SavesKept
  <2> QED BY <1>4, <1>5, <1>6, <2>2, <2>3, <2>4, <2>5 DEF Inv
<1> QED BY <1>7, <1>8

\* A step that leaves what is stored and the batch alone.
LEMMA QuietKeeps ==
  ASSUME Inv, db' = db, saves' = saves, nextRow' = nextRow,
         VtabOK(vtab', db), Batch(vtab') = Batch(vtab), saves = <<>> => Idle(vtab'),
         CountersOK', outcome' = "ok", ReadsSeeWrites'
  PROVE  Inv'
<1>1. SavesOK'
  BY InvIs, SavesKept
<1>2. VtabOK(vtab', db') /\ Covers(db', Batch(vtab').staged) /\ DbOK(db')
      /\ db'.rows \subseteq 1 .. nextRow' - 1
  BY DEF Inv
<1> QED BY <1>1, <1>2 DEF Inv

\* A statement that aborts has joined and bound an instance, and staged nothing.
LEMMA AbortedWriteKeeps == ASSUME Inv, AbortedWrite PROVE Inv'
<1> DEFINE c == Connected(vtab, db, generation)
           w == Refreshed(Begun(c), db, generation)
<1>1. /\ db' = db /\ saves' = saves /\ nextRow' = nextRow /\ generation' = generation
      /\ ddls' = ddls /\ seen' = None /\ outcome' = "ok" /\ saves # <<>> /\ Fires
      /\ vtab' = w
  BY DEF AbortedWrite, Ends, Open
<1>2. db.view # None
  BY <1>1, FiresWhenInstalled
<1>3. VtabOK(c, db) /\ Batch(c) = Batch(vtab) /\ c.current # None
  BY <1>2, InvIs, ConnectedOK
<1>4. VtabOK(w, db) /\ Batch(w) = Batch(vtab)
  <2> HIDE DEF c
  <2> QED BY <1>2, <1>3, InvIs, ReadyOK
<1> HIDE DEF w
<1>5. CountersOK' /\ ReadsSeeWrites'
  BY <1>1 DEF Inv, CountersOK, ReadsSeeWrites
<1> QED BY <1>1, <1>4, <1>5, QuietKeeps

\* A read stores the batch and empties it (2_vtab.rs: open, drain).
LEMMA ReadKeeps == ASSUME Inv, Read PROVE Inv'
<1> DEFINE v == Connected(vtab, db, generation)
           c == v.current.collector
<1>1. /\ saves' = saves /\ generation' = generation /\ nextRow' = nextRow /\ ddls' = ddls
      /\ db.view # None /\ outcome' = "ok"
      /\ seen' = [rows |-> db.rows, stored |-> db'.stored]
      /\ db' = IF c = 0 THEN db
               ELSE [db EXCEPT !.stored = Plus(@, v.collectors[c].staged)]
      /\ vtab' = IF c = 0 THEN v ELSE [v EXCEPT !.collectors[c].staged = NoRows]
  BY DEF Read
<1>2. /\ VtabOK(v, db) /\ Batch(v) = Batch(vtab) /\ v.current # None
      /\ v.joined = vtab.joined /\ v.begun = vtab.begun
  BY <1>1, InvIs, ConnectedOK
<1> HIDE DEF v
<1>3. Idle(v) <=> Idle(vtab)
  BY <1>2, InvIs, SameIdle
<1>4. CountersOK'
  BY <1>1 DEF Inv, CountersOK
<1>5. Plus(db.stored, Batch(v).staged) = Each(db.rows)
  BY <1>1, <1>2 DEF Inv, Covers
<1>6. saves = <<>> => Idle(v)
  BY <1>3 DEF Inv, SavesOK
<1>7. CASE c = 0
  <2>1. Idle(v)
    BY <1>2, <1>7 DEF VtabOK, CurrentOK, Serves
  <2>2. Batch(v).staged = NoRows
    BY <1>2, <2>1, StagedIsBatch, Empty
  <2>3. db' = db /\ vtab' = v /\ db.stored = Each(db.rows)
    BY <1>1, <1>5, <1>7, <2>2, InvIs, Counting
  <2>4. ReadsSeeWrites'
    BY <1>1, <2>3 DEF ReadsSeeWrites
  <2> QED BY <1>1, <1>2, <1>4, <1>6, <2>3, <2>4, QuietKeeps
<1>8. CASE c # 0
  <2> DEFINE b == [staged |-> NoRows, marks |-> Batch(v).marks]
             stored == Plus(db.stored, Batch(v).staged)
  <2>1. c = v.registry /\ v.registry \in 1 .. MaxCollectors
    <3>1. Serves(v.current, v, db)
      BY <1>2, <1>8 DEF VtabOK, CurrentOK
    <3>2. v.registry \in 0 .. MaxCollectors
      BY <1>2 DEF VtabOK, Vtabs
    <3> QED BY <3>1, <3>2, BoundsAssumption DEF Serves
  <2>2. Batch(v) = v.collectors[c] /\ Batch(v) \in Collectors
    BY <1>2, <1>8, <2>1, StagedIsBatch DEF Batch
  <2>3. b \in Collectors
    BY <2>2, Empty DEF Collectors
  <2>4. vtab' = WithBatch(v, b)
    <3>1. v.collectors \in [1 .. MaxCollectors -> Collectors]
      BY <1>2 DEF VtabOK, Vtabs
    <3>2. vtab' = [v EXCEPT !.collectors = [v.collectors EXCEPT ![v.registry] =
                     [v.collectors[v.registry] EXCEPT !.staged = NoRows]]]
      BY <1>1, <1>8, <2>1
    <3>3. vtab' = [v EXCEPT !.collectors = [v.collectors EXCEPT ![v.registry] =
                     [Batch(v) EXCEPT !.staged = NoRows]]]
      BY <2>1, <2>2, <3>2
    <3>4. [Batch(v) EXCEPT !.staged = NoRows] = b
      BY <2>2 DEF Collectors
    <3> HIDE DEF b
    <3> QED BY <3>3, <3>4 DEF WithBatch
  <2>5. Idle(v) => b = Collector
    BY <1>2, StagedIsBatch DEF Collector
  <2>6. /\ VtabOK(vtab', db) /\ Batch(vtab') = b /\ (Idle(vtab') <=> Idle(v))
    <3> HIDE DEF b
    <3> QED BY <1>2, <1>8, <2>1, <2>3, <2>4, <2>5, WithBatchOK
  <2>7. stored \in Counts /\ stored = Each(db.rows)
    BY <1>2, <1>5, InvIs, Counting
  <2>8. db' = [db EXCEPT !.stored = stored]
    BY <1>1, <1>8, <2>2
  <2> HIDE DEF stored
  <2>9. db' \in Dbs /\ db'.view = db.view /\ db'.source = db.source /\ db'.rows = db.rows
        /\ db'.stored = stored /\ db'.query = db.query /\ db'.recorded = db.recorded
        /\ db'.hooks = db.hooks /\ db'.tables = db.tables /\ db'.ledger = db.ledger
    BY <2>7, <2>8, InvIs DEF Dbs
  <2>10. DbOK(db') /\ db'.rows \subseteq 1 .. nextRow' - 1
    BY <1>1, <2>9 DEF Inv, DbOK, Catalogued, Absent, ManifestHolds
  <2>11. VtabOK(vtab', db')
    BY <1>1, <2>6, <2>9, SameNames
  <2>12. Covers(db', Batch(vtab').staged)
    BY <2>6, <2>7, <2>9, Counting DEF Covers
  <2>13. SavesOK'
    <3>1. \A i : MarkIn(Batch(vtab'), i) = MarkIn(Batch(vtab), i)
      BY <1>2, <2>6 DEF MarkIn
    <3> QED BY <1>1, <1>6, <2>6, <3>1, InvIs, SavesKept
  <2>14. ReadsSeeWrites'
    BY <1>1, <2>7, <2>9 DEF ReadsSeeWrites
  <2> QED BY <1>1, <1>4, <2>10, <2>11, <2>12, <2>13, <2>14 DEF Inv
<1> QED BY <1>7, <1>8

-----------------------------------------------------------------------------
(* What the catalog stores.                                                *)

\* An installation is catalogued, and its result is there.
LEMMA InstalledOK ==
  ASSUME NEW source \in SourceNames, NEW view \in ViewNames, NEW rows \in SUBSET Rows
  PROVE  LET e == Installed(view, source, rows)
         IN  /\ DbOK(e) /\ Covers(e, NoRows)
             /\ e.source = source /\ e.view = view /\ e.view # None /\ e.rows = rows
<1> DEFINE e == Installed(view, source, rows)
<1>1. view # None
  BY NamesAssumption
<1>2. Hooks(view, source) \in HooksSet
  BY DEF HooksSet
<1>3. Each(rows) \in Counts
  BY Counting
<1>4. /\ e.source = source /\ e.view = view /\ e.rows = rows /\ e.stored = Each(rows)
      /\ e.query = source /\ e.recorded = source /\ e.hooks = Hooks(view, source)
      /\ e.tables = view /\ e.ledger = <<Hooks(view, source), view>>
  BY DEF Installed
<1>5. e \in Dbs
  BY <1>2, <1>3 DEF Installed, Dbs
<1> HIDE DEF e
<1>6. DbOK(e)
  BY <1>1, <1>4, <1>5 DEF DbOK, Catalogued, Absent, ManifestHolds
<1>7. Covers(e, NoRows)
  BY <1>3, <1>4, Counting DEF Covers
<1> QED BY <1>1, <1>4, <1>6, <1>7 DEF e

\* So is a view that is not there.
LEMMA UninstalledOK ==
  ASSUME NEW d, NEW D, d.source \in SourceNames, d.rows \in SUBSET Rows, D = Uninstalled(d)
  PROVE  /\ DbOK(D) /\ D.source = d.source /\ D.view = None /\ D.rows = d.rows
<1>1. /\ D.source = d.source /\ D.view = None /\ D.rows = d.rows /\ D.hooks = None
      /\ D.stored = NoRows
  BY DEF Uninstalled
<1>2. D \in Dbs
  BY Empty DEF Uninstalled, Dbs
<1> QED BY <1>1, <1>2 DEF DbOK, Catalogued, Absent

\* A renamed source is read by its new name.
LEMMA RewrittenOK ==
  ASSUME NEW d, DbOK(d), NEW new \in SourceNames
  PROVE  LET a == Altered(d, new)
             e == Rewritten(a, new)
         IN  /\ a.source = new /\ a.query = d.query /\ a.view = d.view
             /\ d.view = None => DbOK(a) /\ a.rows = d.rows
             /\ d.view # None => /\ DbOK(e) /\ e.source = new /\ e.view = d.view
                                 /\ e.rows = d.rows /\ e.stored = d.stored
<1> DEFINE a == Altered(d, new)
           hooks == IF d.hooks = None THEN None ELSE Hooks(d.hooks.view, new)
           e == Rewritten(a, new)
<1>1. d \in Dbs
  BY DEF DbOK
<1>2. hooks \in HooksSet \cup {None}
  BY <1>1 DEF Dbs, HooksSet, Hooks
<1>3. a = [d EXCEPT !.source = new, !.hooks = hooks]
  BY DEF Altered
<1> HIDE DEF a, hooks
<1>4. /\ a \in Dbs /\ a.source = new /\ a.query = d.query /\ a.view = d.view
      /\ a.rows = d.rows /\ a.stored = d.stored /\ a.hooks = hooks
      /\ a.tables = d.tables
  BY <1>1, <1>2, <1>3 DEF Dbs
<1>5. d.view = None => DbOK(a)
  BY <1>4 DEF DbOK, Catalogued, Absent, hooks
<1>6. ASSUME d.view # None
      PROVE  /\ DbOK(e) /\ e.source = new /\ e.view = d.view
             /\ e.rows = d.rows /\ e.stored = d.stored
  <2> DEFINE h == Hooks(d.view, new)
  <2>1. d.view \in ViewNames /\ d.tables = d.view
    BY <1>1, <1>6 DEF DbOK, Catalogued, Dbs
  <2>2. h \in HooksSet
    BY <2>1 DEF HooksSet
  <2>3. e = [a EXCEPT !.query = new, !.recorded = new, !.hooks = h, !.ledger = <<h, d.view>>]
    BY <1>4, <2>1 DEF Rewritten
  <2> HIDE DEF h, e
  <2>4. /\ e \in Dbs /\ e.source = new /\ e.view = d.view /\ e.rows = d.rows
        /\ e.stored = d.stored /\ e.query = new /\ e.recorded = new /\ e.hooks = h
        /\ e.tables = d.view /\ e.ledger = <<h, d.view>>
    BY <1>4, <2>1, <2>2, <2>3 DEF Dbs
  <2> QED BY <1>6, <2>4 DEF DbOK, Catalogued, Absent, ManifestHolds, h
<1> QED BY <1>4, <1>5, <1>6 DEF a, e

\* A renamed view is catalogued under its new name.
LEMMA RetitledOK ==
  ASSUME NEW d, DbOK(d), d.view # None, NEW new \in ViewNames
  PROVE  LET e == Retitled(d, new, d.source)
         IN  /\ DbOK(e) /\ e.source = d.source /\ e.view = new /\ e.view # None
             /\ e.rows = d.rows /\ e.stored = d.stored
<1> DEFINE h == Hooks(new, d.source)
           e == Retitled(d, new, d.source)
<1>1. d \in Dbs /\ d.query = d.source /\ d.recorded = d.source /\ new # None
  BY NamesAssumption DEF DbOK, Catalogued
<1>2. h \in HooksSet
  BY <1>1 DEF HooksSet, Dbs
<1>3. e = [d EXCEPT !.view = new, !.hooks = h, !.tables = new, !.ledger = <<h, new>>]
  BY DEF Retitled
<1> HIDE DEF h, e
<1>4. /\ e \in Dbs /\ e.source = d.source /\ e.view = new /\ e.rows = d.rows
      /\ e.stored = d.stored /\ e.query = d.source /\ e.recorded = d.source /\ e.hooks = h
      /\ e.tables = new /\ e.ledger = <<h, new>>
  BY <1>1, <1>2, <1>3 DEF Dbs
<1> QED BY <1>1, <1>4 DEF DbOK, Catalogued, Absent, ManifestHolds, h, e

-----------------------------------------------------------------------------
(* DDL.                                                                    *)

\* DDL steps stay within their bounds.
LEMMA DdlCounts ==
  ASSUME Inv, DdlStep, generation' = generation \/ generation' = generation + 1, seen' = None
  PROVE  /\ CountersOK' /\ ReadsSeeWrites' /\ generation' \in 0 .. MaxDdl
         /\ saves' = saves /\ nextRow' = nextRow /\ saves # <<>>
<1>1. ddls < MaxDdl /\ ddls' = ddls + 1 /\ saves' = saves /\ nextRow' = nextRow /\ saves # <<>>
  BY DEF DdlStep, Open
<1>2. CountersOK'
  BY <1>1, BoundsAssumption DEF Inv, CountersOK
<1>3. generation' \in 0 .. MaxDdl
  BY <1>2, BoundsAssumption DEF CountersOK
<1> QED BY <1>1, <1>2, <1>3 DEF ReadsSeeWrites

\* Nobody joined, nothing staged.
LEMMA QuietIs ==
  ASSUME Inv, Quiet
  PROVE  Idle(vtab) /\ Batch(vtab) = Collector /\ ~vtab.joined
         /\ VtabOK(Detached(vtab), db) /\ Detached(vtab).current = None
         /\ Batch(Detached(vtab)) = Collector /\ Idle(Detached(vtab))
<1>1. Idle(vtab) /\ ~vtab.joined
  BY InvIs, Shares DEF Quiet, Idle
<1>2. Batch(vtab) = Collector
  BY <1>1, InvIs, StagedIsBatch
<1>3. VtabOK(vtab, db)
  BY InvIs
<1> QED BY <1>1, <1>2, <1>3, DetachedOK

\* The rename of a source leaves an instance that has yet to bind (2a_source_ddl.rs).
LEMMA RenameSourceKeeps ==
  ASSUME Inv, Orderly, NEW new \in SourceNames, RenameSource(new) PROVE Inv'
<1> DEFINE altered == Altered(db, new)
           rewritten == Rewritten(altered, new)
<1>1. Quiet /\ DdlStep /\ new # db.source /\ generation' = generation + 1
  BY DEF RenameSource
<1>2. ManifestHolds(db) \/ ~Dependent(db)
  BY InvIs DEF Dependent, DbOK, Catalogued
<1>3. /\ db' = IF Dependent(db) THEN rewritten ELSE altered
      /\ vtab' = IF db.view = None THEN vtab
                 ELSE Connected(Detached(vtab), altered, generation')
      /\ outcome' = "ok" /\ seen' = None
  BY <1>2 DEF RenameSource, Ends
<1>4. /\ CountersOK' /\ ReadsSeeWrites' /\ generation' \in 0 .. MaxDdl
      /\ saves' = saves /\ nextRow' = nextRow /\ saves # <<>>
  BY <1>1, <1>3, DdlCounts
<1>5. /\ altered.source = new /\ altered.query = db.query /\ altered.view = db.view
      /\ db.view = None => DbOK(altered) /\ altered.rows = db.rows
      /\ db.view # None => /\ DbOK(rewritten) /\ rewritten.source = new
                           /\ rewritten.view = db.view
                           /\ rewritten.rows = db.rows /\ rewritten.stored = db.stored
  BY InvIs, RewrittenOK
<1> HIDE DEF altered, rewritten
<1>6. Idle(vtab) /\ Batch(vtab) = Collector
  BY <1>1, QuietIs
<1>7. CASE db.view = None
  <2>1. db' = altered /\ vtab' = vtab
    BY <1>3, <1>7 DEF Dependent
  <2>2. VtabOK(vtab', db')
    <3>1. vtab.current = None
      BY <1>7, InvIs DEF VtabOK, CurrentOK
    <3> QED BY <1>6, <2>1, <3>1, InvIs, SameNames
  <2>3. Covers(db', Batch(vtab').staged)
    BY <1>5, <1>7, <2>1 DEF Covers
  <2>4. SavesOK'
    BY <1>4, <1>5, <1>6, <2>1, InvIs, SavesKept
  <2> QED BY <1>3, <1>4, <1>5, <1>7, <2>1, <2>2, <2>3, <2>4 DEF Inv
<1>8. CASE db.view # None
  <2> DEFINE t == Detached(vtab)
             u == [t EXCEPT !.current = Unbound]
  <2>1. VtabOK(t, db) /\ t.current = None /\ Batch(t) = Collector /\ Idle(t)
    BY <1>1, QuietIs
  <2> HIDE DEF t
  <2>2. db.query = db.source /\ db.recorded = db.source /\ db.query # None
    BY <1>8, InvIs, NamesAssumption DEF DbOK, Catalogued, Dbs
  <2>3. Unbound \in Instances /\ Unbound # None /\ Unbound.query = None
        /\ Unbound.collector = 0 /\ Unbound.generation = Never
    <3>1. Unbound \in Instances
      BY BoundsAssumption DEF Instances, Unbound, Never
    <3> QED BY <3>1, NoneAssumption DEF Unbound
  <2>4. /\ u \in Vtabs /\ u.current = Unbound /\ u.old = t.old /\ u.joined = t.joined
        /\ u.begun = t.begun /\ u.collectors = t.collectors /\ u.registry = t.registry
    BY <2>1, <2>3 DEF VtabOK, Vtabs
  <2>5. vtab' = u
    <3>1. Never # generation'
      BY <1>4, BoundsAssumption DEF Never
    <3>2. ~Binds(altered)
      BY <1>1, <1>5, <2>2 DEF Binds
    <3> HIDE DEF u
    <3>3. NeedsBind(u, altered, generation')
      BY <1>5, <2>2, <2>3, <2>4, <3>1 DEF NeedsBind
    <3>4. Refreshed(u, altered, generation') = u
      BY <3>2, <3>3 DEF Refreshed
    <3> QED BY <1>3, <1>8, <2>1, <3>4 DEF Connected, t, u
  <2>6. db' = rewritten
    BY <1>3, <1>8, <2>2 DEF Dependent
  <2> HIDE DEF u
  <2>7. Idle(u) /\ Batch(u) = Collector
    BY <2>1, <2>4 DEF Idle, Batch
  <2>8. VtabOK(u, db')
    <3>1. OldOK(u, db') /\ EmptyOK(u) /\ BegunOK(u)
      BY <2>1, <2>4, <2>7 DEF VtabOK, OldOK, EmptyOK, BegunOK, Idle
    <3>2. CurrentOK(u, db')
      BY <1>5, <1>8, <2>3, <2>4, <2>6, <2>7 DEF CurrentOK, Idle
    <3> QED BY <2>4, <3>1, <3>2 DEF VtabOK
  <2>9. Covers(db', Batch(vtab').staged)
    BY <1>5, <1>6, <1>8, <2>5, <2>6, <2>7 DEF Inv, Covers
  <2>10. SavesOK'
    BY <1>4, <1>6, <1>8, <2>5, <2>7, InvIs, SavesKept
  <2>11. db'.rows \subseteq 1 .. nextRow' - 1
    BY <1>4, <1>5, <1>8, <2>6 DEF Inv
  <2> QED BY <1>3, <1>4, <1>5, <1>8, <2>5, <2>6, <2>8, <2>9, <2>10, <2>11 DEF Inv
<1> QED BY <1>7, <1>8

\* A rename that fails moves the generation, and may reload the schema.
LEMMA RenameSourceFailsKeeps == ASSUME Inv, Orderly, RenameSourceFails PROVE Inv'
<1>1. /\ DdlStep /\ ~Unsettled /\ generation' = generation + 1 /\ db' = db
      /\ vtab' \in {vtab, Detached(vtab)} /\ outcome' = "ok" /\ seen' = None
  BY DEF RenameSourceFails, Ends
<1>2. /\ CountersOK' /\ ReadsSeeWrites' /\ saves' = saves /\ nextRow' = nextRow /\ saves # <<>>
  BY <1>1, DdlCounts
<1>3. VtabOK(Detached(vtab), db) /\ Batch(Detached(vtab)) = Batch(vtab)
  <2>1. VtabOK(vtab, db) /\ (vtab.joined => vtab.begun)
    BY <1>1, InvIs DEF Unsettled
  <2> QED BY <2>1, DetachedOK
<1>4. VtabOK(vtab', db) /\ Batch(vtab') = Batch(vtab)
  BY <1>1, <1>3, InvIs
<1> QED BY <1>1, <1>2, <1>4, QuietKeeps

\* The instance a rename of the view meets: connected, refreshed and reloaded.
LEMMA ReloadAfterRefresh ==
  ASSUME Inv, ~Unsettled, db.view # None
  PROVE  LET v == Connected(vtab, db, generation)
             w == Refreshed(v, db, generation)
         IN  /\ VtabOK(Detached(w), db) /\ Batch(Detached(w)) = Batch(vtab)
             /\ Detached(w).current = None
             /\ ~Refuses(v, db, generation) /\ w.current.query = db.source
<1> DEFINE v == Connected(vtab, db, generation)
           w == Refreshed(v, db, generation)
<1>1. /\ VtabOK(v, db) /\ Batch(v) = Batch(vtab) /\ v.current # None
      /\ v.joined = vtab.joined /\ v.begun = vtab.begun
  BY InvIs, ConnectedOK
<1> HIDE DEF v
<1>2. /\ VtabOK(w, db) /\ Batch(w) = Batch(v) /\ Serves(w.current, w, db)
      /\ w.joined = v.joined /\ w.begun = v.begun /\ ~Refuses(v, db, generation)
  BY <1>1, InvIs, RefreshedOK
<1> HIDE DEF w
<1>3. VtabOK(Detached(w), db) /\ Batch(Detached(w)) = Batch(w) /\ Detached(w).current = None
  <2>1. w.joined => w.begun
    BY <1>1, <1>2 DEF Unsettled
  <2> QED BY <1>2, <2>1, DetachedOK
<1>4. w.current.query = db.source
  BY <1>2 DEF Serves
<1> QED BY <1>1, <1>2, <1>3, <1>4 DEF v, w

\* The rename of the view keeps its batch across the reload (2_vtab.rs: rename).
LEMMA RenameViewKeeps ==
  ASSUME Inv, Orderly, NEW new \in ViewNames, RenameView(new) PROVE Inv'
<1> DEFINE v == Connected(vtab, db, generation)
           w == Refreshed(v, db, generation)
           t == Detached(w)
           e == Retitled(db, new, db.source)
<1>1. DdlStep /\ db.view # None /\ ~Unsettled /\ generation' = generation
  BY DEF RenameView
<1>2. /\ VtabOK(t, db) /\ Batch(t) = Batch(vtab) /\ t.current = None
      /\ ~Refuses(v, db, generation) /\ w.current.query = db.source
  BY <1>1, ReloadAfterRefresh
<1>3. ManifestHolds(db)
  BY <1>1, InvIs DEF DbOK, Catalogued
<1>4. db' = e /\ vtab' = t /\ outcome' = "ok" /\ seen' = None
  BY <1>2, <1>3 DEF RenameView, Ends
<1>5. /\ CountersOK' /\ ReadsSeeWrites' /\ saves' = saves /\ nextRow' = nextRow /\ saves # <<>>
  BY <1>1, <1>4, DdlCounts
<1>6. /\ DbOK(e) /\ e.source = db.source /\ e.view = new /\ e.view # None
      /\ e.rows = db.rows /\ e.stored = db.stored
  BY <1>1, InvIs, RetitledOK
<1> HIDE DEF t, e, v, w
<1>7. VtabOK(t, e)
  BY <1>2, <1>6, SameNames
<1>8. Covers(db', Batch(vtab').staged)
  BY <1>1, <1>2, <1>4, <1>6 DEF Inv, Covers
<1>9. SavesOK'
  BY <1>1, <1>2, <1>4, <1>5, InvIs, SavesKept
<1>10. db'.rows \subseteq 1 .. nextRow' - 1
  BY <1>4, <1>5, <1>6 DEF Inv
<1> QED BY <1>4, <1>5, <1>6, <1>7, <1>8, <1>9, <1>10 DEF Inv

\* So does one that fails after its refresh.
LEMMA RenameViewFailsKeeps == ASSUME Inv, Orderly, RenameViewFails PROVE Inv'
<1> DEFINE v == Connected(vtab, db, generation)
           t == Detached(Refreshed(v, db, generation))
<1>1. /\ DdlStep /\ db.view # None /\ ~Unsettled /\ generation' = generation
      /\ db' = db /\ vtab' = t /\ outcome' = "ok" /\ seen' = None
  BY DEF RenameViewFails, Ends
<1>2. VtabOK(t, db) /\ Batch(t) = Batch(vtab)
  BY <1>1, ReloadAfterRefresh
<1>3. /\ CountersOK' /\ ReadsSeeWrites' /\ saves' = saves /\ nextRow' = nextRow /\ saves # <<>>
  BY <1>1, DdlCounts
<1> HIDE DEF t
<1> QED BY <1>1, <1>2, <1>3, QuietKeeps

\* A created view begins with an empty collector (2_vtab.rs: create).
LEMMA CreateViewKeeps ==
  ASSUME Inv, Orderly, NEW view \in ViewNames, CreateView(view) PROVE Inv'
<1> DEFINE c == Free(vtab)
           e == Installed(view, db.source, db.rows)
           i == [query |-> db.source, program |-> view, generation |-> generation,
                 collector |-> c]
           w == [[vtab EXCEPT !.registry = c] EXCEPT !.joined = TRUE, !.current = i]
<1>1. /\ DdlStep /\ db.view = None /\ Len(saves) - 1 = 0 /\ generation' = generation
      /\ db' = e /\ vtab' = w /\ outcome' = "ok" /\ seen' = None
  BY DEF CreateView, Ends, Depth, Enrolled
<1>2. /\ CountersOK' /\ ReadsSeeWrites' /\ saves' = saves /\ nextRow' = nextRow /\ saves # <<>>
  BY <1>1, DdlCounts
<1>3. db.source \in SourceNames /\ db.rows \in SUBSET Rows
  BY InvIs DEF Dbs
<1>4. /\ DbOK(e) /\ Covers(e, NoRows) /\ e.source = db.source /\ e.view = view
      /\ e.view # None /\ e.rows = db.rows
  BY <1>3, InstalledOK
<1>5. vtab.current = None /\ Idle(vtab) /\ vtab \in Vtabs
  BY <1>1, InvIs DEF VtabOK, CurrentOK
<1>6. c \in 1 .. MaxCollectors
  <2>1. Held(vtab) = {}
    BY <1>5 DEF Held, Idle
  <2> QED BY <2>1, FreeIs
<1> HIDE DEF c, e
<1>7. i \in Instances /\ i # None
  <2>1. i \in Instances
    BY <1>3, <1>6, InvIs, BoundsAssumption DEF Instances, Never
  <2> QED BY <2>1, NoneAssumption
<1>8. /\ w \in Vtabs /\ w.current = i /\ w.registry = c /\ w.joined = TRUE /\ w.old = <<>>
      /\ w.collectors = vtab.collectors /\ w.begun = vtab.begun
  <2>1. c \in 0 .. MaxCollectors
    BY <1>6
  <2> HIDE DEF i
  <2> QED BY <1>5, <1>7, <2>1 DEF Vtabs, Idle
<1> HIDE DEF w
<1>9. Serves(w.current, w, e)
  BY <1>4, <1>6, <1>8 DEF Serves
<1> HIDE DEF i
<1>10. \A x \in 1 .. MaxCollectors : w.collectors[x] = Collector
  BY <1>5, <1>8, InvIs DEF VtabOK, EmptyOK
<1>11. ~Idle(w) /\ Batch(w) = Collector /\ Batch(vtab) = Collector
  <2>1. ~Idle(w) /\ Batch(w) = Collector
    BY <1>6, <1>8, <1>10 DEF Idle, Batch
  <2> QED BY <1>5, <2>1, InvIs, StagedIsBatch
<1>12. vtab.begun = FALSE
  BY <1>5, InvIs DEF VtabOK, BegunOK, Vtabs
<1>13. VtabOK(w, e)
  BY <1>4, <1>7, <1>8, <1>9, <1>10, <1>11, <1>12
     DEF VtabOK, OldOK, CurrentOK, EmptyOK, BegunOK
<1>14. Covers(db', Batch(vtab').staged)
  BY <1>1, <1>4, <1>11, Empty
<1>15. SavesOK'
  BY <1>1, <1>2, <1>11, InvIs, SavesKept
<1>16. db'.rows \subseteq 1 .. nextRow' - 1
  BY <1>1, <1>2, <1>4 DEF Inv
<1> QED BY <1>1, <1>2, <1>4, <1>13, <1>14, <1>15, <1>16 DEF Inv

\* A dropped view leaves with its collector (2_vtab.rs: destroy).
LEMMA DropViewKeeps == ASSUME Inv, Orderly, DropView PROVE Inv'
<1> DEFINE e == Uninstalled(db)
           t == Detached(vtab)
<1>1. DdlStep /\ db.view # None /\ Quiet /\ generation' = generation
  BY DEF DropView
<1>2. ManifestHolds(db)
  BY <1>1, InvIs DEF DbOK, Catalogued
<1>3. /\ db' = e /\ vtab' = Freed([vtab EXCEPT !.current = None, !.joined = FALSE])
      /\ outcome' = "ok" /\ seen' = None
  BY <1>2 DEF DropView, Ends
<1>4. /\ CountersOK' /\ ReadsSeeWrites' /\ saves' = saves /\ nextRow' = nextRow /\ saves # <<>>
  BY <1>1, <1>3, DdlCounts
<1>5. /\ VtabOK(t, db) /\ t.current = None /\ Batch(t) = Collector /\ Idle(t)
      /\ Batch(vtab) = Collector /\ ~vtab.joined
  BY <1>1, QuietIs
<1>6. vtab' = t
  <2> DEFINE u == [vtab EXCEPT !.old = vtab.old, !.joined = FALSE, !.current = None]
  <2>1. t = Freed(u)
    BY <1>5 DEF Detached
  <2>2. [vtab EXCEPT !.current = None, !.joined = FALSE] = u
    BY InvIs DEF VtabOK, Vtabs
  <2> HIDE DEF u, t
  <2> QED BY <1>3, <2>1, <2>2
<1>7. DbOK(e) /\ e.source = db.source /\ e.view = None /\ e.rows = db.rows
  <2>1. db.source \in SourceNames /\ db.rows \in SUBSET Rows
    BY InvIs DEF Dbs
  <2> QED BY <2>1, UninstalledOK
<1> HIDE DEF e, t
<1>8. VtabOK(t, e)
  BY <1>5, <1>7, SameNames
<1>9. Covers(db', Batch(vtab').staged)
  BY <1>3, <1>7 DEF Covers
<1>10. SavesOK'
  BY <1>1, <1>4, <1>5, <1>6, InvIs, SavesKept
<1>11. db'.rows \subseteq 1 .. nextRow' - 1
  BY <1>3, <1>4, <1>7 DEF Inv
<1> QED BY <1>3, <1>4, <1>6, <1>7, <1>8, <1>9, <1>10, <1>11 DEF Inv

-----------------------------------------------------------------------------
(* The theorems.                                                           *)

\* A closed database, with or without the view.
LEMMA InitInv == ASSUME Init PROVE Inv
<1>1. /\ saves = <<>> /\ generation = 0 /\ nextRow = 1 /\ ddls = 0 /\ outcome = "ok" /\ seen = None
      /\ vtab = [current |-> None, joined |-> FALSE, old |-> <<>>,
                 collectors |-> [c \in 1 .. MaxCollectors |-> Collector],
                 registry |-> 0, begun |-> FALSE]
  BY DEF Init
<1>2. CountersOK /\ ReadsSeeWrites
  BY <1>1, BoundsAssumption DEF CountersOK, ReadsSeeWrites
<1>3. vtab \in Vtabs
  <2> DEFINE cs == [c \in 1 .. MaxCollectors |-> Collector]
  <2>1. cs \in [1 .. MaxCollectors -> Collectors]
    BY Empty
  <2>2. <<>> \in Seq(Instances) /\ 0 \in 0 .. MaxCollectors
    BY EmptySeq, BoundsAssumption
  <2> HIDE DEF cs
  <2> QED BY <1>1, <2>1, <2>2 DEF Vtabs, cs
<1>4. Idle(vtab) /\ Batch(vtab) = Collector
  BY <1>1 DEF Idle, Batch
<1>5. \A d : VtabOK(vtab, d)
  BY <1>1, <1>3, <1>4 DEF VtabOK, OldOK, CurrentOK, EmptyOK, BegunOK
<1>6. SavesOK
  <2>1. <<>> \in Seq(Dbs) /\ Len(<<>>) = 0
    BY EmptySeq
  <2> QED BY <1>1, <1>4, <2>1, BoundsAssumption DEF SavesOK
<1>7. DbOK(db) /\ db.rows \subseteq 1 .. nextRow - 1 /\ Covers(db, Batch(vtab).staged)
  <2>1. PICK source \in SourceNames, view \in ViewNames \cup {None} :
           db = IF view = None THEN Uninstalled([source |-> source, rows |-> {}])
                ELSE Installed(view, source, {})
    BY DEF Init
  <2>2. CASE view = None
    <3> DEFINE d == [source |-> source, rows |-> {}]
    <3>1. d.source \in SourceNames /\ d.rows \in SUBSET Rows /\ d.rows = {}
      OBVIOUS
    <3> HIDE DEF d
    <3>2. DbOK(db) /\ db.view = None /\ db.rows = {}
      BY <2>1, <2>2, <3>1, UninstalledOK DEF d
    <3> QED BY <3>2 DEF Covers
  <2>3. CASE view # None
    <3>1. DbOK(db) /\ Covers(db, NoRows) /\ db.rows = {}
      BY <2>1, <2>3, InstalledOK
    <3> QED BY <1>4, <3>1, Empty
  <2> QED BY <2>2, <2>3
<1> QED BY <1>1, <1>2, <1>5, <1>6, <1>7 DEF Inv

\* Every statement of an orderly application keeps Inv.
LEMMA StepKeepsInv == ASSUME Inv, Orderly, [Next]_vars PROVE Inv'
<1>1. CASE Begin
  BY <1>1, BeginKeeps
<1>2. CASE Savepoint
  BY <1>2, SavepointKeeps
<1>3. CASE Commit
  BY <1>3, CommitKeeps
<1>4. CASE Rollback
  BY <1>4, UndoKeeps DEF Rollback
<1>5. ASSUME NEW i \in 0 .. MaxSavepoints - 1, Release(i) PROVE Inv'
  BY <1>5, ReleaseKeeps
<1>6. ASSUME NEW i \in 0 .. MaxSavepoints - 1, RollbackTo(i) PROVE Inv'
  BY <1>6, RollbackToKeeps
<1>7. CASE Write
  BY <1>7, WriteKeeps
<1>8. CASE AbortedWrite
  BY <1>8, AbortedWriteKeeps
<1>9. CASE Read
  BY <1>9, ReadKeeps
<1>10. ASSUME NEW new \in SourceNames, RenameSource(new) PROVE Inv'
  BY <1>10, RenameSourceKeeps
<1>11. ASSUME NEW new \in ViewNames, RenameView(new) PROVE Inv'
  BY <1>11, RenameViewKeeps
<1>12. ASSUME NEW new \in ViewNames, CreateView(new) PROVE Inv'
  BY <1>12, CreateViewKeeps
<1>13. CASE RenameSourceFails
  BY <1>13, RenameSourceFailsKeeps
<1>14. CASE RenameViewFails
  BY <1>14, RenameViewFailsKeeps
<1>15. CASE DropView
  BY <1>15, DropViewKeeps
<1>16. CASE UNCHANGED vars
  <2>1. /\ db' = db /\ saves' = saves /\ vtab' = vtab /\ generation' = generation
        /\ nextRow' = nextRow /\ ddls' = ddls /\ outcome' = outcome /\ seen' = seen
    BY <1>16 DEF vars
  <2>2. CountersOK' /\ ReadsSeeWrites' /\ outcome' = "ok"
    BY <2>1 DEF Inv, CountersOK, ReadsSeeWrites
  <2>3. saves = <<>> => Idle(vtab')
    BY <2>1 DEF Inv, SavesOK
  <2> QED BY <2>1, <2>2, <2>3, InvIs, QuietKeeps
<1> QED BY <1>1, <1>2, <1>3, <1>4, <1>5, <1>6, <1>7, <1>8, <1>9, <1>10, <1>11, <1>12,
           <1>13, <1>14, <1>15, <1>16 DEF Next

\* Whatever the names and the bounds, Inv holds of an orderly application.
THEOREM Invariance == ASSUME Orderly PROVE Spec => []Inv
<1>1. Inv /\ [Next]_vars => Inv'
  BY StepKeepsInv
<1> QED BY <1>1, InitInv, PTL DEF Spec

\* Rows of the source are stored or staged, exactly once, across savepoints, partial
\* rollbacks, drains and reloads (2_vtab.rs: savepoint, rollback_to, drain, commit).
THEOREM Covered == ASSUME Orderly PROVE Spec => []PendingDeltasAreCovered
<1>1. Inv => PendingDeltasAreCovered
  <2> SUFFICES ASSUME Inv PROVE PendingDeltasAreCovered
    OBVIOUS
  <2>1. Staged(vtab) = Batch(vtab).staged
    BY InvIs, StagedIsBatch
  <2> QED BY <2>1 DEF Inv, Covers, PendingDeltasAreCovered
<1> QED BY <1>1, Invariance, PTL

\* A read inside the transaction drains first and sees every write (2_vtab.rs: open).
THEOREM ReadYourWrites == ASSUME Orderly PROVE Spec => []ReadsSeeWrites
<1>1. Inv => ReadsSeeWrites
  BY DEF Inv
<1> QED BY <1>1, Invariance, PTL

\* The view refuses no legal statement and no COMMIT (2_vtab.rs: refresh, sync).
THEOREM NeverRefuses == ASSUME Orderly PROVE Spec => []NothingIsRefused
<1>1. Inv => NothingIsRefused
  BY DEF Inv, NothingIsRefused
<1> QED BY <1>1, Invariance, PTL

\* The instances of a transaction drain one batch (2_vtab.rs: Shared, attach).
THEOREM OneCollector == ASSUME Orderly PROVE Spec => []OneBatch
<1>1. Inv => OneBatch
  <2> SUFFICES ASSUME Inv PROVE OneBatch
    OBVIOUS
  <2>1. \A k \in DOMAIN Transaction(vtab) : Serves(Transaction(vtab)[k], vtab, db)
    BY InvIs, Shares
  <2> QED BY <2>1 DEF OneBatch, Serves
<1> QED BY <1>1, Invariance, PTL

\* Renames, creations, drops and rollbacks leave the catalog describing the objects
\* that exist (0a_catalog.rs: rename, manifest; 2a_source_ddl.rs).
THEOREM CatalogHolds == ASSUME Orderly PROVE Spec => []CatalogMatchesSchema
<1>1. Inv => CatalogMatchesSchema
  BY DEF Inv, DbOK, Catalogued, CatalogMatchesSchema
<1> QED BY <1>1, Invariance, PTL

\* No row is counted more than once, wherever it is counted, and an instance holds a
\* collector exactly when its plan is bound (2_vtab.rs: bind, attach).
THEOREM Typed == ASSUME Orderly PROVE Spec => []TypeOK
<1>1. Inv => TypeOK
  <2> SUFFICES ASSUME Inv PROVE TypeOK
    OBVIOUS
  <2>1. VtabOK(vtab, db) /\ vtab \in Vtabs /\ db \in Dbs /\ vtab.old \in Seq(Instances)
    BY InvIs DEF VtabOK, Vtabs
  <2>2. db.rows \subseteq Rows /\ Len(saves) <= MaxSavepoints + 1 /\ generation \in 0 .. MaxDdl
    BY <2>1, InvIs DEF Dbs, Inv, SavesOK
  <2>3. vtab.joined => vtab.current # None
    BY <2>1 DEF VtabOK, CurrentOK
  <2>4. ASSUME NEW i \in Instances,
               \/ Serves(i, vtab, db)
               \/ i.query = None /\ i.collector = 0
        PROVE  InstanceOK(i)
    <3>1. /\ i.query \in SourceNames \cup {None} /\ i.program \in ViewNames \cup {None}
          /\ i.generation \in 0 .. Never /\ i.collector \in 0 .. MaxCollectors
      BY DEF Instances
    <3>2. db.source # None
      BY <2>1, NamesAssumption DEF Dbs
    <3> QED BY <2>4, <3>1, <3>2 DEF InstanceOK, Serves
  <2>5. vtab.current # None => InstanceOK(vtab.current)
    BY <2>1, <2>4 DEF Vtabs, VtabOK, CurrentOK
  <2>6. \A k \in DOMAIN vtab.old : InstanceOK(vtab.old[k])
    <3> DEFINE o == vtab.old
    <3>1. \A k \in DOMAIN o : Serves(o[k], vtab, db)
      BY <2>1 DEF VtabOK, OldOK
    <3> HIDE DEF o
    <3>2. \A k \in DOMAIN o : o[k] \in Instances
      BY <2>1, ElementOfSeq, LenProperties DEF o
    <3> QED BY <2>4, <3>1, <3>2 DEF o
  <2>7. db.stored \in Bags /\ Batch(vtab).staged \in Bags
    <3> DEFINE f == db.stored
               g == Batch(vtab).staged
    <3>1. f \in Counts /\ g \in Counts
      BY InvIs
    <3>2. CASE db.view = None
      <4>1. Idle(vtab) /\ f = NoRows
        BY <2>1, <3>2, InvIs DEF VtabOK, CurrentOK, DbOK, Absent
      <4>2. g = NoRows
        BY <4>1, InvIs, StagedIsBatch, Empty
      <4>3. NoRows \in Bags
        BY DEF NoRows, Bags
      <4> QED BY <4>1, <4>2, <4>3
    <3>3. CASE db.view # None
      <4>1. Plus(f, g) = Each(db.rows)
        BY <3>3 DEF Inv, Covers
      <4> HIDE DEF f, g
      <4>2. ASSUME NEW r \in Rows PROVE f[r] \in 0 .. 3 /\ g[r] \in 0 .. 3
        <5>1. f[r] \in Nat /\ g[r] \in Nat
          BY <3>1 DEF Counts
        <5>2. f[r] + g[r] = IF r \in db.rows THEN 1 ELSE 0
          <6>1. Plus(f, g)[r] = f[r] + g[r]
            BY DEF Plus
          <6>2. Each(db.rows)[r] = IF r \in db.rows THEN 1 ELSE 0
            BY DEF Each
          <6> QED BY <4>1, <6>1, <6>2
        <5> QED BY <5>1, <5>2
      <4> QED BY <3>1, <4>2 DEF Counts, Bags, f, g
    <3> QED BY <3>2, <3>3
  <2>8. \A c \in 1 .. MaxCollectors : vtab.collectors[c].staged \in Bags
    <3>1. NoRows \in Bags
      BY DEF NoRows, Bags
    <3>2. ASSUME NEW c \in 1 .. MaxCollectors PROVE vtab.collectors[c].staged \in Bags
      <4>1. CASE c = vtab.registry
        BY <2>7, <4>1 DEF Batch
      <4>2. CASE c # vtab.registry
        <5>1. vtab.collectors[c] = Collector
          BY <2>1, <4>2 DEF VtabOK, EmptyOK
        <5> QED BY <3>1, <5>1, Empty
      <4> QED BY <4>1, <4>2
    <3> QED BY <3>2
  <2> QED BY <2>2, <2>3, <2>5, <2>6, <2>7, <2>8 DEF TypeOK
<1> QED BY <1>1, Invariance, PTL
=============================================================================
