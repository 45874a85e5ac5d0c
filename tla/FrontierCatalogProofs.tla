----------------------- MODULE FrontierCatalogProofs -----------------------
(***************************************************************************)
(* The programs of one database and their collectors, for every set of     *)
(* names, tables, rows and queries and every bound, as long as nobody      *)
(* drops half of a pair.                                                   *)
(***************************************************************************)
EXTENDS FrontierCatalog, TLAPS, WellFoundedInduction

-----------------------------------------------------------------------------
(* The invariant.                                                          *)

Weights == [Vals -> Int]
Copies == [Sources -> Weights]

\* A catalog row.
EntryOK(x) ==
  /\ DOMAIN x = {"install", "frontier", "query", "held"}
  /\ x.frontier \in Int /\ x.query \in Queries /\ x.held \in Copies

CatalogShape ==
  /\ catalog = [n \in DOMAIN catalog |-> catalog[n]] /\ Installed \subseteq Names
  /\ \A n \in Installed : EntryOK(catalog[n])

\* A call and the schema it began with.
CallShape ==
  \/ call = NoCall
  \/ /\ DOMAIN call = {"op", "at", "p", "c", "pq", "cq", "before"} /\ call.op = "compose"
     /\ call.p \in Names /\ call.c \in Names /\ call.pq \in Queries /\ call.cq \in Queries
  \/ /\ DOMAIN call = {"op", "at", "p", "c", "before"} /\ call.op = "drop"
     /\ call.p \in Names /\ call.c \in Names

ShapeOK ==
  /\ base \in [Tables -> SUBSET Vals] /\ committed \in [Tables -> SUBSET Vals]
  /\ staged \in Copies /\ touched \subseteq Tables
  /\ CatalogShape
  /\ slots = [k \in DOMAIN slots |-> slots[k]]
  /\ CallShape /\ (mode # "open" => call = NoCall)
\* Of the recorded pairs no two share a half.
DepsOK ==
  /\ deps \subseteq [consumer : Names, producer : Names]
  /\ \A e, f \in deps : e.consumer = f.consumer \/ e.producer = f.producer => e = f

\* p's collector serves c as well: recorded, or about to be.
Partner(p, c) ==
  \/ Edge(p, c) \in deps
  \/ At("compose", "record") /\ call.p = p /\ call.c = c

\* A collector belongs to an installed program over base tables and watches what it
\* and its consumer read.
SlotsOK ==
  \A k \in DOMAIN slots :
    /\ k[1] \in Installed /\ k = CollectorOf(k[1]) /\ ~Derived(k[1])
    /\ catalog[k[1]].query.tables \subseteq slots[k]
    /\ \A c \in Installed : Partner(k[1], c) => catalog[c].query.tables \subseteq slots[k]

\* Its callback settles the two.
BoundOK ==
  /\ DOMAIN bound = DOMAIN slots
  /\ \A k \in DOMAIN slots :
       \/ \E c \in Names : Partner(k[1], c) /\ bound[k] = <<k[1], c>>
       \/ (\A c \in Names : ~Partner(k[1], c)) /\ bound[k] = <<k[1]>>

\* A transaction has staged what it changed in the tables some collector watches.
Watching(t) == \E k \in DOMAIN slots : t \in slots[k]
StagedOK ==
  /\ \A n \in Names : staged[n] = Zero[n]
  /\ \A t \in Tables :
       staged[t] = IF Watching(t) THEN Change(committed[t], base[t]) ELSE Zero[t]
  /\ \A t \in Tables : t \notin touched => staged[t] = Zero[t]
QuietOK ==
  /\ writes \in Nat
  /\ mode # "open" \/ call # NoCall \/ writes = 0 => base = committed /\ touched = {}

\* Programs but X, and pairs but those of a producer in X, can be reattached.
Rest(X) ==
  /\ \A e \in deps : e.producer \notin X => PairReattaches(e.producer, e.consumer)
  /\ \A n \in Installed \ Paired : n \notin X => Reattaches(n)

\* Half-done pairs: what is there between the transactions of a call.
ComposeOK ==
  /\ call.at = "producer" => /\ Rest({}) /\ catalog = call.before[1]
                             /\ deps = call.before[2] /\ slots = call.before[3]
  /\ call.at \in {"consumer", "undo_producer"} =>
       /\ call.p \in Installed \ Paired /\ ~HasCollector(call.p) /\ Rest({call.p})
       /\ Without(catalog, call.p) = call.before[1] /\ deps = call.before[2]
       /\ slots = call.before[3]
  /\ call.at \in {"register", "undo_consumer", "record"} =>
       /\ call.p # call.c /\ {call.p, call.c} \subseteq Installed \ Paired
       /\ ~Derived(call.p) /\ ~HasCollector(call.c) /\ Rest({call.p, call.c})
       /\ Without(Without(catalog, call.c), call.p) = call.before[1] /\ deps = call.before[2]
  /\ call.at \in {"register", "undo_consumer"} =>
       ~HasCollector(call.p) /\ slots = call.before[3]
  /\ call.at = "record" => ValidPair(call.p, call.c) /\ HasCollector(call.p)
  /\ call.at \in {"producer", "consumer", "undo_producer", "register", "undo_consumer", "record"}
  /\ call.before = <<call.before[1], call.before[2], call.before[3]>>

DropOK ==
  /\ Edge(call.p, call.c) \in deps /\ Rest({call.p})
  /\ call.at \in {"close", "register", "unwatch", "consumer", "producer", "edge"}
  /\ call.at \in {"close", "register", "unwatch", "consumer"} =>
       {call.p, call.c} \subseteq Installed /\ ~Derived(call.p) /\ ValidPair(call.p, call.c)
  /\ call.at \in {"close", "unwatch"} <=> call.p \in Installed /\ HasCollector(call.p)
  /\ call.at = "producer" => call.p \in Installed /\ call.c \notin Installed /\ ~Derived(call.p)
  /\ call.at = "edge" => {call.p, call.c} \cap Installed = {}

CallOK ==
  /\ call = NoCall => Rest({})
  /\ call.op = "compose" => ComposeOK
  /\ call.op = "drop" => DropOK

\* A view reads views that are there, and not itself.
ViewsOK == \A n \in Installed : catalog[n].query.views \subseteq Installed \ {n}

OpenOK == mode = "open" => BoundOK /\ CallOK /\ ViewsOK

\* The views of a database that is loaded, or would load, are current.
ExactOK == mode = "open" \/ Loads => \A n \in Installed : Exact(n)

Inv == ShapeOK /\ DepsOK /\ SlotsOK /\ StagedOK /\ QuietOK /\ OpenOK /\ ExactOK
-----------------------------------------------------------------------------
(* Tables, rows and weights.                                               *)

\* Nothing weighs nothing.
LEMMA ZeroIsCopies ==
  /\ Zero \in Copies
  /\ \A s \in Sources : Zero[s] = [v \in Vals |-> 0]
  /\ \A S : Once(S) \in Weights /\ Change(S, S) = [v \in Vals |-> 0]
  /\ \A S, T : Change(S, T) \in Weights
BY DEF Zero, Copies, Weights, Once, Change

LEMMA SourceShape ==
  /\ Sources = Tables \cup Names /\ Tables \cap Names = {}
  /\ \A q \in Queries : q.views \subseteq Names /\ q.tables \subseteq Tables
BY SourcesAssumption, QueriesAssumption DEF Sources

\* Back-fill and settling keep a catalog row a catalog row.
LEMMA BootstrapShape == \A q : Bootstrap(q) \in Copies
BY ZeroIsCopies DEF Bootstrap, Copies

LEMMA SettledShape ==
  ASSUME NEW x, EntryOK(x), NEW d \in Copies
  PROVE  /\ EntryOK(Settled(x, d)) /\ Settled(x, d).query = x.query
         /\ Settled(x, d).install = x.install /\ Settled(x, d).frontier = x.frontier + 1
         /\ Settled(x, d).held = [s \in Sources |-> Plus(x.held[s], d[s])]
<1>1. [s \in Sources |-> Plus(x.held[s], d[s])] \in Copies
  BY DEF Copies, Weights, Plus, EntryOK
<1>2. DOMAIN x = {"install", "frontier", "query", "held"}
  BY DEF EntryOK
<1>3. /\ DOMAIN Settled(x, d) = DOMAIN x /\ Settled(x, d).query = x.query
      /\ Settled(x, d).install = x.install /\ Settled(x, d).frontier = x.frontier + 1
      /\ Settled(x, d).held = [s \in Sources |-> Plus(x.held[s], d[s])]
  BY <1>2 DEF Settled
<1> QED BY <1>1, <1>3 DEF EntryOK

\* A map with one entry less.
LEMMA WithoutIs ==
  ASSUME NEW f, NEW x
  PROVE  /\ DOMAIN Without(f, x) = DOMAIN f \ {x}
         /\ \A y \in DOMAIN f : y # x => Without(f, x)[y] = f[y]
         /\ Without(f, x) = [y \in DOMAIN Without(f, x) |-> Without(f, x)[y]]
         /\ f = [y \in DOMAIN f |-> f[y]] /\ x \notin DOMAIN f => Without(f, x) = f
BY DEF Without

\* Taking out what was put in.
LEMMA WithoutExtended ==
  ASSUME NEW f, f = [y \in DOMAIN f |-> f[y]], NEW x, x \notin DOMAIN f, NEW v
  PROVE  Without(Extended(f, x, v), x) = f
<1>1. DOMAIN Extended(f, x, v) \ {x} = DOMAIN f
  BY DEF Extended
<1>2. \A y \in DOMAIN f : Extended(f, x, v)[y] = f[y]
  BY DEF Extended
<1> QED BY <1>1, <1>2 DEF Without

LEMMA NoCallIs == NoCall.op = "none"
BY DEF NoCall

\* The program of a catalog row after a commit.
LEMMA FirstShape ==
  ASSUME ShapeOK, NEW n \in Installed
  PROVE  /\ EntryOK(First(n)) /\ First(n).query = catalog[n].query
         /\ First(n).install = catalog[n].install
         /\ SettlesFirst(n) => First(n).frontier = catalog[n].frontier + 1
         /\ ~SettlesFirst(n) => First(n) = catalog[n]
<1>1. EntryOK(catalog[n]) /\ Batch(catalog[n].query) \in Copies
  BY ZeroIsCopies DEF ShapeOK, CatalogShape, Batch, Copies
<1> QED BY <1>1, SettledShape DEF First

LEMMA AfterShape ==
  ASSUME ShapeOK, NEW n \in Installed, NEW p
  PROVE  /\ EntryOK(After(p, n)) /\ After(p, n).query = catalog[n].query
         /\ After(p, n).install = catalog[n].install
         /\ After(p, n).frontier = catalog[n].frontier + 1
<1>1. EntryOK(catalog[n]) /\ Batch(catalog[n].query) \in Copies
  BY ZeroIsCopies DEF ShapeOK, CatalogShape, Batch, Copies
<1>2. ViewDelta(p) \in Weights
  BY ZeroIsCopies DEF ViewDelta
<1>3. [Batch(catalog[n].query) EXCEPT ![p] = ViewDelta(p)] \in Copies
  BY <1>1, <1>2 DEF Copies
<1> QED BY <1>1, <1>3, SettledShape DEF After

\* A commit changes what programs hold and their frontiers.
LEMMA CommitKeeps ==
  ASSUME ShapeOK, catalog' = AfterCommit
  PROVE  /\ Installed' = Installed /\ catalog' = [n \in DOMAIN catalog' |-> catalog'[n]]
         /\ \A n \in Installed : /\ EntryOK(catalog'[n])
                                 /\ catalog'[n].query = catalog[n].query
                                 /\ catalog'[n].install = catalog[n].install
<1>1. Installed' = Installed /\ catalog' = [n \in DOMAIN catalog' |-> catalog'[n]]
  BY DEF AfterCommit, Installed
<1>2. ASSUME NEW n \in Installed
      PROVE  catalog'[n] = First(n) \/ \E p : catalog'[n] = After(p, n)
  BY DEF AfterCommit
<1> QED BY <1>1, <1>2, FirstShape, AfterShape
-----------------------------------------------------------------------------
(* The shape of the state.                                                 *)

\* A program is added under a name that is free.
LEMMA AddIs ==
  ASSUME ShapeOK, NEW n \in Names, NEW q \in Queries, AddProgram(n, q), Installable(n, q)
  PROVE  /\ n \notin Installed /\ q.views \subseteq Installed /\ Installed' = Installed \cup {n}
         /\ EntryOK(catalog'[n]) /\ catalog'[n].query = q
         /\ catalog'[n].held = Bootstrap(q)
         /\ \A m \in Installed : catalog'[m] = catalog[m]
         /\ catalog' = [m \in DOMAIN catalog' |-> catalog'[m]]
         /\ Without(catalog', n) = catalog
<1>1. /\ n \notin Installed /\ q.views \subseteq Installed
      /\ catalog' = Extended(catalog, n, NewEntry(q))
  BY DEF AddProgram, Installable
<1>2. /\ EntryOK(NewEntry(q)) /\ NewEntry(q).query = q /\ NewEntry(q).held = Bootstrap(q)
  BY BootstrapShape DEF NewEntry, EntryOK
<1>3. /\ DOMAIN catalog' = DOMAIN catalog \cup {n} /\ catalog'[n] = NewEntry(q)
      /\ \A y \in DOMAIN catalog : y # n => catalog'[y] = catalog[y]
      /\ catalog' = [y \in DOMAIN catalog' |-> catalog'[y]]
  BY <1>1 DEF Extended
<1>4. Without(catalog', n) = catalog
  BY <1>1, WithoutExtended DEF ShapeOK, CatalogShape, Installed
<1> QED BY <1>1, <1>2, <1>3, <1>4 DEF Installed

\* Torn down, it leaves the others as they are.
LEMMA TearDownIs ==
  ASSUME NEW n, TearDown(n)
  PROVE  /\ catalog' = Without(catalog, n) /\ Installed' = Installed \ {n}
         /\ \A m \in Installed : m # n => catalog'[m] = catalog[m]
         /\ catalog' = [m \in DOMAIN catalog' |-> catalog'[m]]
         /\ DOMAIN slots' = DOMAIN slots \ {CollectorOf(n)}
         /\ DOMAIN bound' = DOMAIN bound \ {CollectorOf(n)}
         /\ \A k \in DOMAIN slots' : slots'[k] = slots[k]
         /\ \A k \in DOMAIN bound' : bound'[k] = bound[k]
         /\ slots' = Without(slots, CollectorOf(n))
         /\ slots' = [k \in DOMAIN slots' |-> slots'[k]]
BY WithoutIs DEF TearDown, Unwatch, Installed, Without

LEMMA UnwatchIs ==
  ASSUME NEW k, Unwatch(k)
  PROVE  /\ DOMAIN slots' = DOMAIN slots \ {k} /\ DOMAIN bound' = DOMAIN bound \ {k}
         /\ \A l \in DOMAIN slots' : slots'[l] = slots[l]
         /\ \A l \in DOMAIN bound' : bound'[l] = bound[l]
         /\ slots' = [l \in DOMAIN slots' |-> slots'[l]]
BY DEF Unwatch, Without

LEMMA WatchIs ==
  ASSUME NEW k, NEW tables, NEW programs, Watch(k, tables, programs)
  PROVE  /\ DOMAIN slots' = DOMAIN slots \cup {k} /\ DOMAIN bound' = DOMAIN bound \cup {k}
         /\ slots'[k] = tables /\ bound'[k] = programs
         /\ \A l \in DOMAIN slots : l # k => slots'[l] = slots[l]
         /\ \A l \in DOMAIN bound : l # k => bound'[l] = bound[l]
         /\ slots' = [l \in DOMAIN slots' |-> slots'[l]]
BY DEF Watch, Extended

\* What a step of a call is about.
LEMMA AtCall ==
  ASSUME ShapeOK, NEW op, NEW at, At(op, at), op # "none"
  PROVE  /\ call # NoCall /\ call.op = op /\ call.at = at /\ mode = "open"
         /\ op \in {"compose", "drop"} /\ call.p \in Names /\ call.c \in Names
         /\ op = "compose" => call.pq \in Queries /\ call.cq \in Queries
BY NoCallIs DEF ShapeOK, CallShape, At

LEMMA GotoShape ==
  ASSUME CallShape, call # NoCall, NEW at, Goto(at)
  PROVE  /\ CallShape' /\ call' # NoCall /\ call'.at = at /\ call'.op = call.op
         /\ call'.p = call.p /\ call'.c = call.c /\ call'.before = call.before
         /\ call.op = "compose" => call'.pq = call.pq /\ call'.cq = call.cq
<1>1. CASE call.op = "compose"
  <2>1. DOMAIN call = {"op", "at", "p", "c", "pq", "cq", "before"}
    BY <1>1 DEF CallShape
  <2>2. /\ DOMAIN call' = DOMAIN call /\ call'.at = at /\ call'.op = call.op
        /\ call'.p = call.p /\ call'.c = call.c /\ call'.before = call.before
        /\ call'.pq = call.pq /\ call'.cq = call.cq
    BY <2>1 DEF Goto
  <2> QED BY <1>1, <2>1, <2>2, NoCallIs DEF CallShape
<1>2. CASE call.op = "drop"
  <2>1. DOMAIN call = {"op", "at", "p", "c", "before"}
    BY <1>2 DEF CallShape
  <2>2. /\ DOMAIN call' = DOMAIN call /\ call'.at = at /\ call'.op = call.op
        /\ call'.p = call.p /\ call'.c = call.c /\ call'.before = call.before
    BY <2>1 DEF Goto
  <2> QED BY <1>2, <2>1, <2>2, NoCallIs DEF CallShape
<1> QED BY <1>1, <1>2 DEF CallShape
LEMMA CatalogMoves ==
  ASSUME ShapeOK
  PROVE  /\ UNCHANGED catalog => CatalogShape'
         /\ catalog' = AfterCommit => CatalogShape'
         /\ \A n : TearDown(n) => CatalogShape' /\ slots' = [k \in DOMAIN slots' |-> slots'[k]]
         /\ \A n \in Names : \A q \in Queries :
              AddProgram(n, q) /\ Installable(n, q) => CatalogShape'
<1>1. CatalogShape
  BY DEF ShapeOK
<1>2. UNCHANGED catalog => CatalogShape'
  BY <1>1 DEF CatalogShape, Installed
<1>3. catalog' = AfterCommit => CatalogShape'
  BY <1>1, CommitKeeps DEF CatalogShape
<1>4. ASSUME NEW n, TearDown(n)
      PROVE  CatalogShape' /\ slots' = [k \in DOMAIN slots' |-> slots'[k]]
  <2>1. \A m \in Installed' : m \in Installed /\ catalog'[m] = catalog[m]
    BY <1>4, TearDownIs
  <2> QED BY <1>1, <1>4, <2>1, TearDownIs DEF CatalogShape
<1>5. ASSUME NEW n \in Names, NEW q \in Queries, AddProgram(n, q), Installable(n, q)
      PROVE  CatalogShape'
  BY <1>1, <1>5, AddIs DEF CatalogShape
<1> QED BY <1>2, <1>3, <1>4, <1>5

\* No other step of the catalog's than adding, tearing down and settling programs.
LEMMA ShapeStep ==
  ASSUME ShapeOK, [Next]_vars
  PROVE  ShapeOK'
<1> USE DEF ShapeOK
<1>a. ASSUME UNCHANGED <<base, committed, staged, touched, schema>>, CallShape',
             mode' # "open" => call' = NoCall
      PROVE  ShapeOK'
  BY <1>a DEF schema, CatalogShape, Installed
<1>b. CallShape /\ UNCHANGED call => CallShape'
  BY DEF CallShape
<1>c. call' = NoCall => CallShape'
  BY DEF CallShape
<1>d. Clean => staged' \in Copies /\ touched' \subseteq Tables
  BY ZeroIsCopies DEF Clean
<1>e. mode' # "open" => call' = NoCall
  BY DEF Next, UserStep, CallStep, Write, WriteWithout, Commit, Rollback, Drop, Install, DropPair,
         Compose, InstallProducer, InstallConsumer, Register, Record, UndoConsumer, UndoProducer,
         DropCollector, RegisterAgain, DropHalf, DropEdge, Crash, Load, Outside, At, Ready, Idle,
         vars
<1>1. CASE \E t \in Tables, v \in Vals : Write(t, v)
  <2>1. PICK t \in Tables : \E v \in Vals : Write(t, v)
    BY <1>1
  <2>2. PICK v \in Vals : Write(t, v)
    BY <2>1
  <2>3. ASSUME NEW sign \in {-1, 1}, Collect(t, v, sign)
        PROVE  staged' \in Copies /\ touched' \subseteq Tables
    <3>1. staged \in Copies /\ t \in Sources /\ staged[t] \in Weights /\ touched \subseteq Tables
      BY SourceShape DEF Copies
    <3>2. [staged[t] EXCEPT ![v] = @ + sign] \in Weights
      BY <3>1 DEF Weights
    <3>3. [staged EXCEPT ![t] = [staged[t] EXCEPT ![v] = @ + sign]] \in Copies
      BY <3>1, <3>2 DEF Copies
    <3>4. \/ staged' = [staged EXCEPT ![t] = [staged[t] EXCEPT ![v] = @ + sign]]
             /\ touched' = touched \cup {t}
          \/ UNCHANGED <<staged, touched>>
      BY <2>3 DEF Collect
    <3> QED BY <3>1, <3>3, <3>4
  <2>4. base' \in [Tables -> SUBSET Vals] /\ staged' \in Copies /\ touched' \subseteq Tables
    BY <2>2, <2>3 DEF Write
  <2>5. UNCHANGED <<committed, schema, call>>
    BY <2>2 DEF Write
  <2> QED BY <1>b, <1>e, <2>4, <2>5 DEF schema, CatalogShape, Installed
<1>2. CASE \E refused \in BOOLEAN : Commit(refused)
  <2>1. Clean /\ UNCHANGED <<deps, slots, call>>
    BY <1>2 DEF Commit
  <2>2. (base' = committed /\ UNCHANGED <<committed, catalog>>)
        \/ (committed' = base /\ catalog' = AfterCommit /\ UNCHANGED base)
    BY <1>2 DEF Commit
  <2>3. CASE base' = committed /\ UNCHANGED <<committed, catalog>>
    BY <1>b, <1>d, <1>e, <2>1, <2>3 DEF CatalogShape, Installed
  <2>4. CASE committed' = base /\ catalog' = AfterCommit /\ UNCHANGED base
    BY <1>b, <1>d, <1>e, <2>1, <2>4, CatalogMoves
  <2> QED BY <1>e, <2>2, <2>3, <2>4
<1>3. CASE Rollback \/ Crash
  <2>1. base' = committed /\ Clean /\ UNCHANGED <<committed, schema>> /\ CallShape'
    BY <1>b, <1>c, <1>3 DEF Rollback, Crash
  <2> QED BY <1>d, <1>e, <2>1 DEF schema, CatalogShape, Installed
<1>4. CASE \E t \in Tables, v \in Vals : WriteWithout(t, v)
  <2>1. UNCHANGED <<schema, call, txn>> /\ base' \in [Tables -> SUBSET Vals] /\ committed' = base'
    BY <1>4 DEF WriteWithout
  <2> QED BY <1>b, <1>e, <2>1 DEF schema, txn, CatalogShape, Installed
<1>5. CASE \E n \in Names : Drop(n) \/ \E q \in Queries : Install(n, q)
  <2>1. PICK n \in Names : Drop(n) \/ \E q \in Queries : Install(n, q)
    BY <1>5
  <2>2. UNCHANGED <<base, committed, staged, touched, call>>
    BY <2>1 DEF Drop, Install, Outside, txn
  <2>3. CASE Drop(n)
    BY <1>b, <1>e, <2>2, <2>3, CatalogMoves DEF Drop
  <2>4. CASE \E q \in Queries : Install(n, q)
    <3>1. PICK q \in Queries : Install(n, q)
      BY <2>4
    <3>2. AddProgram(n, q) /\ Installable(n, q) /\ Watch(<<n, NextInstall>>, q.tables, <<n>>)
      BY <3>1 DEF Install
    <3> QED BY <1>b, <1>e, <2>2, <3>2, CatalogMoves, WatchIs
  <2> QED BY <1>e, <2>1, <2>3, <2>4
<1>6. CASE \E p, c \in Names : DropPair(p, c) \/ \E pq, cq \in Queries : Compose(p, pq, c, cq)
  <2>1. UNCHANGED <<base, committed, staged, touched, schema>>
    BY <1>6 DEF DropPair, Compose, Outside, txn
  <2>2. CallShape'
    <3>1. PICK p \in Names : \E c \in Names : \/ DropPair(p, c)
                                              \/ \E pq, cq \in Queries : Compose(p, pq, c, cq)
      BY <1>6
    <3>2. PICK c \in Names : DropPair(p, c) \/ \E pq, cq \in Queries : Compose(p, pq, c, cq)
      BY <3>1
    <3>3. CASE DropPair(p, c)
      BY <3>3 DEF DropPair, CallShape
    <3>4. CASE \E pq, cq \in Queries : Compose(p, pq, c, cq)
      BY <3>4 DEF Compose, CallShape
    <3> QED BY <3>2, <3>3, <3>4
  <2> QED BY <1>a, <1>e, <2>1, <2>2
<1>7. CASE \E refused \in BOOLEAN : InstallProducer(refused) \/ InstallConsumer(refused)
  <2>1. UNCHANGED <<base, committed, staged, touched, deps, slots>>
    BY <1>7 DEF InstallProducer, InstallConsumer, Outside, txn
  <2>2. call # NoCall /\ call.p \in Names /\ call.c \in Names
        /\ call.pq \in Queries /\ call.cq \in Queries
    BY <1>7, AtCall DEF InstallProducer, InstallConsumer
  <2>3. CallShape'
    BY <1>c, <1>7, <2>2, GotoShape DEF InstallProducer, InstallConsumer, Return
  <2>4. \/ UNCHANGED catalog
        \/ AddProgram(call.p, call.pq) /\ Installable(call.p, call.pq)
        \/ AddProgram(call.c, call.cq) /\ Installable(call.c, call.cq)
    BY <1>7 DEF InstallProducer, InstallConsumer
  <2> QED BY <1>e, <2>1, <2>2, <2>3, <2>4, CatalogMoves
<1>8. CASE Register \/ RegisterAgain
  <2>1. UNCHANGED <<base, committed, staged, touched, catalog, deps>> /\ call # NoCall
    BY <1>8, AtCall DEF Register, RegisterAgain, Outside, txn
  <2>2. CallShape'
    BY <1>8, <2>1, GotoShape DEF Register, RegisterAgain
  <2>3. slots' = [k \in DOMAIN slots' |-> slots'[k]]
    BY <1>8, WatchIs DEF Register, RegisterAgain
  <2> QED BY <1>e, <2>1, <2>2, <2>3 DEF CatalogShape, Installed
<1>9. CASE Record \/ DropEdge
  <2>1. UNCHANGED <<base, committed, staged, touched, catalog, slots>> /\ call # NoCall
    BY <1>9, AtCall DEF Record, DropEdge, Outside, txn
  <2>2. CallShape'
    BY <1>c, <1>9, <2>1, GotoShape DEF Record, DropEdge, Return
  <2> QED BY <1>e, <2>1, <2>2 DEF CatalogShape, Installed
<1>10. CASE UndoConsumer \/ UndoProducer \/ DropHalf("consumer", call.c, "producer")
            \/ DropHalf("producer", call.p, "edge")
  <2>1. UNCHANGED <<base, committed, staged, touched, deps>> /\ call # NoCall
    BY <1>10, AtCall DEF UndoConsumer, UndoProducer, DropHalf, Outside, txn
  <2>2. CallShape'
    BY <1>c, <1>10, <2>1, GotoShape DEF UndoConsumer, UndoProducer, DropHalf, Return
  <2>3. TearDown(call.p) \/ TearDown(call.c)
    BY <1>10 DEF UndoConsumer, UndoProducer, DropHalf
  <2> QED BY <1>e, <2>1, <2>2, <2>3, CatalogMoves
<1>11. CASE DropCollector("close", "register") \/ DropCollector("unwatch", "consumer")
  <2>1. UNCHANGED <<base, committed, staged, touched, catalog, deps>> /\ call # NoCall
    BY <1>11, AtCall DEF DropCollector, Outside, txn
  <2>2. CallShape' /\ Unwatch(CollectorOf(call.p))
    BY <1>11, <2>1, GotoShape DEF DropCollector
  <2> QED BY <1>e, <2>1, <2>2, UnwatchIs DEF CatalogShape, Installed
<1>12. CASE Load
  BY <1>a, <1>b, <1>e, <1>12 DEF Load, txn
<1>13. CASE UNCHANGED vars
  BY <1>a, <1>b, <1>e, <1>13 DEF vars, txn
<1> QED BY <1>1, <1>2, <1>3, <1>4, <1>5, <1>6, <1>7, <1>8, <1>9, <1>10, <1>11, <1>12, <1>13
        DEF Next, UserStep, CallStep
-----------------------------------------------------------------------------
(* Pairs.                                                                  *)

LEMMA EdgeIs ==
  /\ \A p, c : Edge(p, c).producer = p /\ Edge(p, c).consumer = c
  /\ DepsOK => \A e \in deps : /\ e = Edge(e.producer, e.consumer)
                               /\ e.producer \in Names /\ e.consumer \in Names
                               /\ e.producer \in Paired /\ e.consumer \in Paired
BY DEF Edge, DepsOK, Paired

\* A program over views is the consumer of a recorded pair.
LEMMA Readers ==
  ASSUME NEW X, Rest(X), NEW m \in Installed \ X, Derived(m),
         \A e \in deps : e.producer \in X => e.consumer # m
  PROVE  \E e \in deps : e.consumer = m /\ e.producer \notin X /\ PairReattaches(e.producer, m)
<1>1. m \in Paired
  BY DEF Rest, Reattaches
<1>2. PICK e \in deps : e.consumer = m \/ e.producer = m
  BY <1>1 DEF Paired
<1>3. e.producer # m
  <2> SUFFICES ASSUME e.producer = m PROVE FALSE
    OBVIOUS
  <2>1. PairReattaches(m, e.consumer)
    BY DEF Rest
  <2> QED BY <2>1 DEF PairReattaches
<1>4. e.consumer = m /\ e.producer \notin X
  BY <1>2, <1>3
<1> QED BY <1>4 DEF Rest

\* What stays reattachable when a step leaves the others alone.
LEMMA RestFrame ==
  ASSUME NEW X, Rest(X), deps' = deps, NEW Y,
         \A n \in Installed' \ Y : /\ n \in Installed \ X
                                   /\ catalog'[n].query = catalog[n].query
                                   /\ HasCollector(n) => HasCollector(n)',
         \A e \in deps : e.producer \notin Y =>
           /\ e.producer \in Installed' /\ e.consumer \in Installed'
           /\ catalog'[e.consumer].query = catalog[e.consumer].query
  PROVE  Rest(Y)'
<1>1. ASSUME NEW e \in deps, e.producer \notin Y
      PROVE  PairReattaches(e.producer, e.consumer)'
  <2> DEFINE p == e.producer
             c == e.consumer
  <2>1. PairReattaches(p, c) /\ catalog'[p].query = catalog[p].query
        /\ catalog'[c].query = catalog[c].query
        /\ p \in Installed' /\ c \in Installed' /\ (HasCollector(p) => HasCollector(p)')
    BY <1>1 DEF Rest
  <2> HIDE DEF p, c
  <2>2. PairReattaches(p, c)'
    BY <2>1 DEF PairReattaches, Derived, ValidPair
  <2> QED BY <2>2 DEF p, c
<1>2. ASSUME NEW n \in Installed' \ Paired, n \notin Y
      PROVE  Reattaches(n)'
  BY <1>2 DEF Rest, Reattaches, Derived
<1>3. Paired' = Paired
  BY DEF Paired
<1> QED BY <1>1, <1>2, <1>3 DEF Rest

\* Loading checks all of it.
LEMMA LoadsIsRest == Loads <=> Rest({})
BY DEF Loads, Rest

\* Every half of a pair that can be reattached is installed.
LEMMA HalvesInstalled ==
  ASSUME NEW X, Rest(X), NEW e \in deps, e.producer \notin X
  PROVE  e.producer \in Installed /\ e.consumer \in Installed
BY DEF Rest, PairReattaches

\* Nothing recorded names a program that is not there, while none is half torn down.
LEMMA NoEdgeYet ==
  ASSUME DepsOK, NEW X, Rest(X), X \cap Paired = {}, NEW n \in Names, n \notin Installed
  PROVE  \A e \in deps : e.producer # n /\ e.consumer # n
BY EdgeIs, HalvesInstalled

\* The record of a compose meets no other pair.
LEMMA RecordIsNew ==
  ASSUME ShapeOK, OpenOK, At("compose", "record")
  PROVE  /\ Recordable(call.p, call.c) /\ call.p \notin Paired /\ call.c \notin Paired
         /\ Edge(call.p, call.c) \notin deps
<1>1. call.p \notin Paired /\ call.c \notin Paired
  BY AtCall DEF OpenOK, CallOK, ComposeOK
<1> QED BY <1>1, EdgeIs DEF Recordable, Paired

LEMMA DepsStep ==
  ASSUME ShapeOK, DepsOK, [Next]_vars
  PROVE  DepsOK'
<1>1. CASE Record /\ Recordable(call.p, call.c)
  <2>1. deps' = deps \cup {Edge(call.p, call.c)} /\ call.p \in Names /\ call.c \in Names
    BY <1>1, AtCall DEF Record
  <2> QED BY <1>1, <2>1, EdgeIs DEF DepsOK, Recordable, Edge
<1>2. CASE DropEdge
  BY <1>2 DEF DropEdge, DepsOK
<1>3. CASE UNCHANGED deps
  BY <1>3 DEF DepsOK
<1>4. UNCHANGED deps \/ DropEdge \/ (Record /\ Recordable(call.p, call.c))
  BY DEF Next, UserStep, CallStep, Write, WriteWithout, Commit, Rollback, Drop, Install, DropPair,
         Compose, InstallProducer, InstallConsumer, Register, Record, UndoConsumer, UndoProducer,
         DropCollector, RegisterAgain, DropHalf, DropEdge, Crash, Load, Outside, vars, schema
<1> QED BY <1>1, <1>2, <1>3, <1>4

\* Who is served with whom changes at the second step of registering, when a pair is
\* dropped and when the process ends.
LEMMA PartnerMoves ==
  ASSUME ShapeOK, DepsOK, OpenOK, [Next]_vars, NEW p \in Names, NEW c \in Names
  PROVE  /\ Partner(p, c)' => Partner(p, c) \/ (Register /\ p = call.p /\ c = call.c)
         /\ Partner(p, c) /\ mode' = "open" /\ ~(DropEdge /\ p = call.p) => Partner(p, c)'
<1>1. CASE Record
  <2>1. deps' = deps \cup {Edge(call.p, call.c)} /\ call' = NoCall /\ At("compose", "record")
    BY <1>1, RecordIsNew DEF Record, Return
  <2>2. ~At("compose", "record")'
    BY <2>1, NoCallIs DEF At
  <2>3. Edge(p, c) = Edge(call.p, call.c) <=> p = call.p /\ c = call.c
    BY EdgeIs
  <2> QED BY <2>1, <2>2, <2>3 DEF Partner
<1>2. CASE Register
  <2>1. deps' = deps /\ ~At("compose", "record") /\ call'.p = call.p /\ call'.c = call.c
    BY <1>2, AtCall, GotoShape DEF Register, ShapeOK, At
  <2> QED BY <1>2, <2>1 DEF Partner
<1>3. CASE DropEdge
  <2>1. /\ deps' = deps \ {Edge(call.p, call.c)} /\ ~At("compose", "record")'
        /\ ~At("compose", "record")
        /\ p # call.p => Edge(p, c) # Edge(call.p, call.c)
    BY <1>3, NoCallIs, EdgeIs DEF DropEdge, Return, At
  <2> QED BY <1>3, <2>1 DEF Partner
<1>4. CASE Crash
  <2>1. deps' = deps /\ mode' # "open"
    BY <1>4 DEF Crash, schema
  <2> QED BY <2>1 DEF Partner, At
<1>5. CASE UNCHANGED <<deps, call, mode>>
  BY <1>5 DEF Partner, At
<1>6. CASE UNCHANGED deps /\ ~At("compose", "record") /\ ~At("compose", "record")'
  BY <1>6 DEF Partner
<1>7. \/ Record \/ Register \/ DropEdge \/ Crash \/ UNCHANGED <<deps, call, mode>>
      \/ UNCHANGED deps /\ ~At("compose", "record") /\ ~At("compose", "record")'
  <2>1. CASE UserStep \/ \E n \in Names : Drop(n) \/ \E q \in Queries : Install(n, q)
    BY <2>1 DEF UserStep, Write, WriteWithout, Commit, Rollback, Drop, Install, Outside, schema
  <2>2. CASE \E pp, cc \in Names : DropPair(pp, cc) \/ \E pq, cq \in Queries : Compose(pp, pq, cc, cq)
    BY <2>2, NoCallIs DEF DropPair, Compose, Outside, schema, At, Idle, Ready
  <2>3. CASE \E refused \in BOOLEAN : InstallProducer(refused) \/ InstallConsumer(refused)
    <3>1. call # NoCall /\ CallShape /\ call.op = "compose" /\ call.at # "record" /\ UNCHANGED deps
      BY <2>3, AtCall DEF InstallProducer, InstallConsumer, ShapeOK, At
    <3>2. call'.at # "record" \/ call'.op # "compose"
      BY <2>3, <3>1, GotoShape, NoCallIs DEF InstallProducer, InstallConsumer, Return
    <3> QED BY <3>1, <3>2 DEF At
  <2>4. CASE \/ UndoConsumer \/ UndoProducer \/ RegisterAgain
             \/ DropCollector("close", "register") \/ DropCollector("unwatch", "consumer")
             \/ DropHalf("consumer", call.c, "producer") \/ DropHalf("producer", call.p, "edge")
    <3>1. /\ call # NoCall /\ CallShape /\ UNCHANGED deps
          /\ call.op = "drop" \/ call.at \in {"undo_consumer", "undo_producer"}
      BY <2>4, AtCall DEF UndoConsumer, UndoProducer, RegisterAgain, DropCollector, DropHalf,
                          ShapeOK, At
    <3>2. call'.at # "record"  \/ call'.op # "compose"
      BY <2>4, <3>1, GotoShape, NoCallIs DEF UndoConsumer, UndoProducer, RegisterAgain,
         DropCollector, DropHalf, Return
    <3> QED BY <3>1, <3>2 DEF At
  <2>5. CASE Load
    BY <2>5, NoCallIs DEF Load, ShapeOK, At, schema
  <2>6. CASE UNCHANGED vars
    BY <2>6 DEF vars, schema
  <2> QED BY <2>1, <2>2, <2>3, <2>4, <2>5, <2>6 DEF Next, CallStep
<1> QED BY <1>1, <1>2, <1>3, <1>4, <1>5, <1>6, <1>7
-----------------------------------------------------------------------------
(* Collectors.                                                             *)

SlotOK(k) ==
  /\ k[1] \in Installed /\ k = CollectorOf(k[1]) /\ ~Derived(k[1])
  /\ catalog[k[1]].query.tables \subseteq slots[k]
  /\ \A c \in Installed : Partner(k[1], c) => catalog[c].query.tables \subseteq slots[k]

LEMMA SlotsAre == SlotsOK <=> \A k \in DOMAIN slots : SlotOK(k)
BY DEF SlotsOK, SlotOK

\* A program without collector has none under any number.
LEMMA NoSlot ==
  ASSUME SlotsOK, NEW n, n \in Installed => ~HasCollector(n), NEW k \in DOMAIN slots
  PROVE  k[1] # n
BY DEF SlotsOK, HasCollector

\* A collector stays in order while its program, its partners and itself do.
LEMMA SlotFrame ==
  ASSUME ShapeOK, DepsOK, OpenOK, [Next]_vars, NEW k \in DOMAIN slots, SlotOK(k),
         k[1] \in Installed', catalog'[k[1]].query = catalog[k[1]].query,
         catalog'[k[1]].install = catalog[k[1]].install, slots'[k] = slots[k],
         \A c \in Installed' : Partner(k[1], c) =>
           c \in Installed /\ catalog'[c].query = catalog[c].query,
         ~Register \/ k[1] # call.p
  PROVE  SlotOK(k)'
<1> DEFINE n == k[1]
<1>1. n \in Names /\ Installed' \subseteq Names
  BY ShapeStep DEF SlotOK, ShapeOK, CatalogShape
<1>2. n \in Installed' /\ k = CollectorOf(n)' /\ ~Derived(n)'
  BY DEF SlotOK, CollectorOf, Derived
<1>3. catalog'[n].query.tables \subseteq slots'[k]
  BY DEF SlotOK
<1>4. ASSUME NEW c \in Installed', Partner(n, c)'
      PROVE  catalog'[c].query.tables \subseteq slots'[k]
  <2>1. Partner(n, c)
    BY <1>1, <1>4, PartnerMoves
  <2> QED BY <2>1 DEF SlotOK
<1> HIDE DEF n
<1>5. n = k[1]
  BY DEF n
<1> QED BY <1>2, <1>3, <1>4, <1>5 DEF SlotOK

\* Adding a program changes no collector.
LEMMA AddKeepsSlots ==
  ASSUME ShapeOK, DepsOK, OpenOK, SlotsOK, [Next]_vars, ~Register,
         NEW n \in Names, NEW q \in Queries, AddProgram(n, q), Installable(n, q),
         ~At("compose", "record"), NEW X, Rest(X), X \cap Paired = {},
         NEW k \in DOMAIN slots, slots'[k] = slots[k]
  PROVE  SlotOK(k)'
<1>1. /\ n \notin Installed /\ Installed' = Installed \cup {n}
      /\ \A m \in Installed : catalog'[m] = catalog[m]
  BY AddIs
<1>2. SlotOK(k)
  BY SlotsAre
<1>3. k[1] \in Installed
  BY <1>2 DEF SlotOK
<1>4. ~Partner(k[1], n)
  BY <1>1, NoEdgeYet, EdgeIs DEF Partner
<1> QED BY <1>1, <1>2, <1>3, <1>4, SlotFrame

\* Tearing a program down takes its collector and changes no other.
LEMMA TearDownSlots ==
  ASSUME ShapeOK, DepsOK, OpenOK, SlotsOK, [Next]_vars, ~Register, NEW n, TearDown(n)
  PROVE  SlotsOK'
<1> SUFFICES ASSUME NEW k \in DOMAIN slots' PROVE SlotOK(k)'
  BY DEF SlotsOK, SlotOK
<1>1. /\ k \in DOMAIN slots /\ k # CollectorOf(n) /\ slots'[k] = slots[k] /\ SlotOK(k)
      /\ Installed' = Installed \ {n} /\ \A m \in Installed : m # n => catalog'[m] = catalog[m]
  <2>1. /\ DOMAIN slots' = DOMAIN slots \ {CollectorOf(n)}
        /\ \A l \in DOMAIN slots' : slots'[l] = slots[l]
    BY TearDownIs
  <2>2. SlotOK(k)
    BY <2>1, SlotsAre
  <2> QED BY <2>1, <2>2, TearDownIs
<1>2. k[1] \in Installed /\ k[1] # n
  BY <1>1 DEF SlotOK
<1> QED BY <1>1, <1>2, SlotFrame

LEMMA SlotsStep ==
  ASSUME ShapeOK, DepsOK, SlotsOK, OpenOK, [Next]_vars
  PROVE  SlotsOK'
<1>a. ASSUME UNCHANGED <<catalog, slots>>, ~Register PROVE SlotsOK'
  <2> SUFFICES ASSUME NEW k \in DOMAIN slots' PROVE SlotOK(k)'
    BY DEF SlotsOK, SlotOK
  <2>1. SlotOK(k) /\ Installed' = Installed
    BY <1>a, SlotsAre DEF Installed
  <2>2. k[1] \in Installed
    BY <2>1 DEF SlotOK
  <2> QED BY <1>a, <2>1, <2>2, SlotFrame
<1>1. CASE \E refused \in BOOLEAN : Commit(refused)
  <2>1. UNCHANGED slots /\ (UNCHANGED catalog \/ catalog' = AfterCommit) /\ ~Register
    BY <1>1 DEF Commit, Ready, Register, At, NoCall
  <2>2. CASE catalog' = AfterCommit
    <3> SUFFICES ASSUME NEW k \in DOMAIN slots' PROVE SlotOK(k)'
      BY DEF SlotsOK, SlotOK
    <3>1. SlotOK(k) /\ Installed' = Installed
      BY <2>1, <2>2, SlotsAre, CommitKeeps
    <3>2. k[1] \in Installed
      BY <3>1 DEF SlotOK
    <3> QED BY <2>1, <2>2, <3>1, <3>2, SlotFrame, CommitKeeps
  <2> QED BY <1>a, <2>1, <2>2
<1>2. CASE \E n \in Names : Drop(n)
  BY <1>2, TearDownSlots DEF Drop, Idle, Ready, Register, At, NoCall
<1>3. CASE \E n \in Names : \E q \in Queries : Install(n, q)
  <2>1. PICK n \in Names : \E q \in Queries : Install(n, q)
    BY <1>3
  <2>2. PICK q \in Queries : Install(n, q)
    BY <2>1
  <2>3. /\ AddProgram(n, q) /\ Installable(n, q) /\ Watch(<<n, NextInstall>>, q.tables, <<n>>)
        /\ q.views = {} /\ UNCHANGED <<deps, call>> /\ mode = "open" /\ mode' = "open"
        /\ call = NoCall
    BY <2>2 DEF Install, Idle, Ready, Outside
  <2>4. ~Register /\ ~At("compose", "record") /\ Rest({})
    BY <2>3, NoCallIs DEF Register, At, OpenOK, CallOK
  <2>k. PICK key : key = <<n, NextInstall>>
    OBVIOUS
  <2>5. key[1] = n /\ catalog'[n].install = NextInstall
    BY <2>3, <2>k DEF AddProgram, Extended, NewEntry
  <2>6. /\ DOMAIN slots' = DOMAIN slots \cup {key} /\ slots'[key] = q.tables
        /\ \A l \in DOMAIN slots : l # key => slots'[l] = slots[l]
    <3>1. Watch(key, q.tables, <<n>>)
      BY <2>3, <2>k
    <3> QED BY <3>1, WatchIs
  <2>7. /\ n \notin Installed /\ Installed' = Installed \cup {n}
        /\ catalog'[n].query = q /\ key = CollectorOf(n)'
    BY <2>3, <2>5, <2>k, AddIs DEF CollectorOf
  <2>8. ASSUME NEW k \in DOMAIN slots PROVE SlotOK(k)'
    <3>1. k # key
      BY <2>5, <2>7 DEF SlotsOK
    <3>2. slots'[k] = slots[k]
      BY <2>6, <3>1
    <3> QED BY <2>3, <2>4, <3>2, AddKeepsSlots
  <2>9. SlotOK(key)'
    <3>2. \A c \in Names : ~Partner(n, c)'
      <4>1. \A c \in Names : ~Partner(n, c)
        BY <2>4, <2>7, NoEdgeYet, EdgeIs DEF Partner
      <4> QED BY <2>4, <4>1, PartnerMoves
    <3>3. Installed' \subseteq Names
      BY ShapeStep DEF ShapeOK, CatalogShape
    <3> QED BY <2>3, <2>5, <2>6, <2>7, <3>2, <3>3 DEF SlotOK, Derived
  <2> QED BY <2>6, <2>8, <2>9 DEF SlotsOK, SlotOK
<1>4. CASE \E refused \in BOOLEAN : InstallProducer(refused) \/ InstallConsumer(refused)
  <2>1. UNCHANGED <<deps, slots, bound>> /\ ~Register /\ call.p \in Names /\ call.c \in Names
        /\ call.pq \in Queries /\ call.cq \in Queries /\ ~At("compose", "record")
    BY <1>4, AtCall DEF InstallProducer, InstallConsumer, Register, At
  <2>2. \E X : Rest(X) /\ X \cap Paired = {}
    <3>1. (call.at = "producer" => Rest({}))
          /\ (call.at = "consumer" => Rest({call.p}) /\ call.p \notin Paired)
      BY <1>4, AtCall DEF InstallProducer, InstallConsumer, OpenOK, CallOK, ComposeOK
    <3> QED BY <1>4, <3>1 DEF InstallProducer, InstallConsumer, At
  <2>3. PICK X : Rest(X) /\ X \cap Paired = {}
    BY <2>2
  <2>4. \/ UNCHANGED catalog
        \/ AddProgram(call.p, call.pq) /\ Installable(call.p, call.pq)
        \/ AddProgram(call.c, call.cq) /\ Installable(call.c, call.cq)
    BY <1>4 DEF InstallProducer, InstallConsumer
  <2>5. CASE ~UNCHANGED catalog
    <3>1. ASSUME NEW k \in DOMAIN slots PROVE SlotOK(k)'
      BY <2>1, <2>3, <2>4, <2>5, AddKeepsSlots
    <3> QED BY <2>1, <3>1 DEF SlotsOK, SlotOK
  <2> QED BY <1>a, <2>1, <2>5
<1>5. CASE Register \/ RegisterAgain
  <2>k. PICK p, c, key : p = call.p /\ c = call.c /\ key = CollectorOf(call.p)
    OBVIOUS
  <2>1. /\ UNCHANGED <<catalog, deps>> /\ call # NoCall /\ p \in Names /\ c \in Names
        /\ mode = "open" /\ mode' = "open" /\ key[1] = p /\ key = CollectorOf(p)
    BY <1>5, <2>k, AtCall DEF Register, RegisterAgain, Outside, CollectorOf
  <2>2. Register => ~Derived(p) /\ p \in Installed /\ ~HasCollector(p) /\ p \notin Paired
    BY <2>k, AtCall DEF Register, OpenOK, CallOK, ComposeOK
  <2>3. RegisterAgain => ~Derived(p) /\ p \in Installed /\ Edge(p, c) \in deps
    BY <2>k, AtCall DEF RegisterAgain, OpenOK, CallOK, DropOK
  <2>4. Register => ~At("compose", "record") /\ ~RegisterAgain
    BY DEF Register, RegisterAgain, At
  <2>5. ASSUME NEW k \in DOMAIN slots, slots'[k] = slots[k] PROVE SlotOK(k)'
    <3>1. SlotOK(k) /\ Installed' = Installed /\ catalog' = catalog
      BY <2>1, SlotsAre DEF Installed
    <3>2. k[1] \in Installed /\ (Register => k[1] # call.p)
      BY <2>2, <2>k, <3>1, NoSlot DEF SlotOK
    <3> QED BY <2>5, <3>1, <3>2, SlotFrame
  <2>6. CASE UNCHANGED slots
    BY <2>5, <2>6 DEF SlotsOK, SlotOK
  <2>7. CASE Watch(key, Watched(p, c), <<p, c>>)
    <3>1. /\ DOMAIN slots' = DOMAIN slots \cup {key} /\ slots'[key] = Watched(p, c)
          /\ \A l \in DOMAIN slots : l # key => slots'[l] = slots[l]
      BY <2>7, WatchIs
    <3>2. p \in Installed' /\ key = CollectorOf(p)' /\ ~Derived(p)' /\ Installed' \subseteq Names
      BY <1>5, <2>1, <2>2, <2>3
      DEF CollectorOf, Derived, Installed, ShapeOK, CatalogShape
    <3>3. \A d \in Names : Partner(p, d)' => d = c
      <4>1. CASE Register
        <5>1. \A d \in Names : ~Partner(p, d)
          BY <2>2, <2>4, <4>1, EdgeIs DEF Partner, Paired
        <5> QED BY <2>1, <2>k, <5>1, PartnerMoves
      <4>2. CASE RegisterAgain
        <5>1. \A d \in Names : Partner(p, d) => d = c
          BY <2>3, <4>2, EdgeIs DEF Partner, DepsOK, RegisterAgain, At
        <5> QED BY <2>1, <2>4, <4>2, <5>1, PartnerMoves
      <4> QED BY <1>5, <4>1, <4>2
    <3>4. SlotOK(key)'
      <4>1. /\ catalog'[p].query.tables \subseteq slots'[key]
            /\ catalog'[c].query.tables \subseteq slots'[key]
        BY <2>1, <3>1 DEF Watched
      <4> QED BY <2>1, <3>2, <3>3, <4>1 DEF SlotOK
    <3>5. \A k \in DOMAIN slots' : SlotOK(k)'
      BY <2>5, <3>1, <3>4
    <3> QED BY <3>5 DEF SlotsOK, SlotOK
  <2> QED BY <1>5, <2>6, <2>7, <2>k DEF Register, RegisterAgain
<1>6. CASE UndoConsumer \/ UndoProducer \/ DropHalf("consumer", call.c, "producer")
           \/ DropHalf("producer", call.p, "edge")
  <2>1. TearDown(call.p) \/ TearDown(call.c)
    BY <1>6 DEF UndoConsumer, UndoProducer, DropHalf
  <2>2. ~Register
    BY <1>6 DEF UndoConsumer, UndoProducer, DropHalf, Register, At
  <2> QED BY <2>1, <2>2, TearDownSlots
<1>7. CASE DropCollector("close", "register") \/ DropCollector("unwatch", "consumer")
  <2>1. Unwatch(CollectorOf(call.p)) /\ UNCHANGED catalog /\ ~Register
    BY <1>7 DEF DropCollector, Register, At
  <2> SUFFICES ASSUME NEW k \in DOMAIN slots' PROVE SlotOK(k)'
    BY DEF SlotsOK, SlotOK
  <2>2. SlotOK(k) /\ Installed' = Installed /\ k \in DOMAIN slots /\ slots'[k] = slots[k]
    BY <2>1, UnwatchIs, SlotsAre DEF Installed
  <2>3. k[1] \in Installed
    BY <2>2 DEF SlotOK
  <2> QED BY <2>1, <2>2, <2>3, SlotFrame
<1>8. (\E t \in Tables, v \in Vals : Write(t, v) \/ WriteWithout(t, v)) \/ Rollback
        \/ (\E p, c \in Names : DropPair(p, c) \/ \E pq, cq \in Queries : Compose(p, pq, c, cq))
        \/ Record \/ DropEdge \/ Crash \/ Load \/ UNCHANGED vars
      => UNCHANGED <<catalog, slots>>
  BY DEF Write, WriteWithout, Rollback, DropPair, Compose, Record, DropEdge, Crash, Load, vars,
         schema
<1>9. CASE ~Register
  BY <1>a, <1>1, <1>2, <1>3, <1>4, <1>5, <1>6, <1>7, <1>8, <1>9 DEF Next, UserStep, CallStep
<1> QED BY <1>5, <1>9
-----------------------------------------------------------------------------
(* Callbacks.                                                              *)

BoundAt(k) ==
  \/ \E c \in Names : Partner(k[1], c) /\ bound[k] = <<k[1], c>>
  \/ (\A c \in Names : ~Partner(k[1], c)) /\ bound[k] = <<k[1]>>

LEMMA BoundsAre == BoundOK <=> DOMAIN bound = DOMAIN slots /\ \A k \in DOMAIN slots : BoundAt(k)
BY DEF BoundOK, BoundAt

LEMMA BoundFrame ==
  ASSUME ShapeOK, DepsOK, OpenOK, SlotsOK, [Next]_vars, NEW k \in DOMAIN slots, BoundAt(k),
         mode' = "open", bound'[k] = bound[k],
         k[1] = call.p => ~Register /\ ~DropEdge
  PROVE  BoundAt(k)'
<1>1. k[1] \in Names
  BY DEF SlotsOK, ShapeOK, CatalogShape
<1>2. \A c \in Names : Partner(k[1], c)' <=> Partner(k[1], c)
  BY <1>1, PartnerMoves
<1> QED BY <1>2 DEF BoundAt

\* A collector is called back as soon and as long as it is there.
LEMMA BoundStep ==
  ASSUME ShapeOK, DepsOK, SlotsOK, OpenOK, [Next]_vars, mode' = "open"
  PROVE  BoundOK'
<1>a. ASSUME UNCHANGED <<slots, bound>>, mode = "open",
             Register \/ DropEdge => \A k \in DOMAIN slots : k[1] # call.p
      PROVE  BoundOK'
  <2>1. BoundOK
    BY <1>a DEF OpenOK
  <2> QED BY <1>a, <2>1, BoundFrame DEF BoundOK, BoundAt
<1>b. ASSUME NEW key, mode = "open", DOMAIN slots' = DOMAIN slots \ {key},
             DOMAIN bound' = DOMAIN bound \ {key}, \A l \in DOMAIN bound' : bound'[l] = bound[l],
             ~Register, ~DropEdge
      PROVE  BoundOK'
  <2>1. BoundOK
    BY <1>b DEF OpenOK
  <2> QED BY <1>b, <2>1, BoundFrame DEF BoundOK, BoundAt
<1>c. ASSUME NEW key, NEW tables, NEW programs, mode = "open", Watch(key, tables, programs),
             BoundAt(key)', Register \/ DropEdge => \A k \in DOMAIN slots : k[1] # call.p
      PROVE  BoundOK'
  <2>1. BoundOK
    BY <1>c DEF OpenOK
  <2>2. /\ DOMAIN slots' = DOMAIN slots \cup {key} /\ DOMAIN bound' = DOMAIN bound \cup {key}
        /\ \A l \in DOMAIN bound : l # key => bound'[l] = bound[l]
    BY <1>c, WatchIs
  <2>3. \A k \in DOMAIN slots : k # key => BoundAt(k)'
    BY <1>c, <2>1, <2>2, BoundFrame, BoundsAre DEF BoundOK
  <2>4. \A k \in DOMAIN slots' : BoundAt(k)'
    BY <1>c, <2>2, <2>3
  <2> QED BY <2>1, <2>2, <2>4 DEF BoundOK, BoundAt
<1>1. CASE \E n \in Names : Drop(n)
  <2>1. PICK n \in Names : TearDown(n) /\ mode = "open" /\ call = NoCall
    BY <1>1 DEF Drop, Idle, Ready
  <2>2. ~Register /\ ~DropEdge
    BY <2>1, NoCallIs DEF Register, DropEdge, At
  <2> QED BY <1>b, <2>1, <2>2, TearDownIs
<1>2. CASE \E n \in Names : \E q \in Queries : Install(n, q)
  <2>1. PICK n \in Names : \E q \in Queries : Install(n, q)
    BY <1>2
  <2>2. PICK q \in Queries : Install(n, q)
    BY <2>1
  <2>k. PICK key : key = <<n, NextInstall>>
    OBVIOUS
  <2>3. /\ n \notin Installed /\ UNCHANGED <<deps, call>> /\ mode = "open" /\ call = NoCall
        /\ Watch(key, q.tables, <<n>>)
    BY <2>2, <2>k DEF Install, Idle, Ready, Outside, Installable
  <2>4. ~Register /\ ~DropEdge /\ ~At("compose", "record") /\ Rest({})
    BY <2>3, NoCallIs DEF Register, DropEdge, At, OpenOK, CallOK
  <2>5. \A c \in Names : ~Partner(n, c)'
    <3>1. \A c \in Names : ~Partner(n, c)
      BY <2>3, <2>4, NoEdgeYet, EdgeIs DEF Partner
    <3> QED BY <2>4, <3>1, PartnerMoves
  <2>6. BoundAt(key)'
    <3>1. bound'[key] = <<n>> /\ key[1] = n
      BY <2>3, <2>k, WatchIs
    <3> QED BY <2>5, <3>1 DEF BoundAt
  <2> QED BY <1>c, <2>3, <2>4, <2>6
<1>3. CASE Register \/ RegisterAgain
  <2>k. PICK p, c, key : p = call.p /\ c = call.c /\ key = CollectorOf(call.p)
    OBVIOUS
  <2>1. /\ UNCHANGED <<catalog, deps>> /\ p \in Names /\ c \in Names
        /\ mode = "open" /\ key[1] = p /\ ~DropEdge
    BY <1>3, <2>k, AtCall DEF Register, RegisterAgain, Outside, CollectorOf, DropEdge, At
  <2>2. Register => \A k \in DOMAIN slots : k[1] # call.p
    <3>1. Register => ~HasCollector(call.p)
      BY AtCall DEF Register, OpenOK, CallOK, ComposeOK
    <3> QED BY <3>1, NoSlot
  <2>3. CASE UNCHANGED <<slots, bound>>
    BY <1>a, <2>1, <2>2, <2>3
  <2>4. CASE Watch(key, Watched(p, c), <<p, c>>) /\ (Register => Goto("record"))
    <3>1. Partner(p, c)'
      <4>1. CASE Register
        BY <2>k, <2>4, <4>1, AtCall, GotoShape DEF Register, Partner, At, ShapeOK, Outside
      <4>2. CASE RegisterAgain
        BY <2>k, <2>1, <4>2, AtCall, EdgeIs DEF RegisterAgain, OpenOK, CallOK, DropOK, Partner,
                                                Edge
      <4> QED BY <1>3, <4>1, <4>2
    <3>2. bound'[key] = <<p, c>>
      BY <2>4, WatchIs
    <3>3. BoundAt(key)'
      BY <2>1, <3>1, <3>2 DEF BoundAt
    <3> QED BY <1>c, <2>1, <2>2, <2>4, <3>3
  <2> QED BY <1>3, <2>3, <2>4, <2>k DEF Register, RegisterAgain
<1>4. CASE UndoConsumer \/ UndoProducer \/ DropHalf("consumer", call.c, "producer")
           \/ DropHalf("producer", call.p, "edge")
  <2>1. (TearDown(call.p) \/ TearDown(call.c)) /\ mode = "open"
    BY <1>4, AtCall DEF UndoConsumer, UndoProducer, DropHalf
  <2>2. ~Register /\ ~DropEdge
    BY <1>4 DEF UndoConsumer, UndoProducer, DropHalf, Register, DropEdge, At
  <2> QED BY <1>b, <2>1, <2>2, TearDownIs
<1>5. CASE DropCollector("close", "register") \/ DropCollector("unwatch", "consumer")
  <2>1. Unwatch(CollectorOf(call.p)) /\ mode = "open" /\ ~Register /\ ~DropEdge
    BY <1>5, AtCall DEF DropCollector, Register, DropEdge, At
  <2> QED BY <1>b, <2>1, UnwatchIs
<1>6. CASE DropEdge
  <2>1. UNCHANGED <<slots, bound>> /\ mode = "open" /\ call.p \notin Installed
    BY <1>6, AtCall DEF DropEdge, OpenOK, CallOK, DropOK
  <2>2. \A k \in DOMAIN slots : k[1] # call.p
    BY <2>1 DEF SlotsOK
  <2> QED BY <1>a, <2>1, <2>2
<1>7. CASE Load
  <2>1. bound' = Callbacks /\ UNCHANGED <<deps, slots, catalog>> /\ call' = NoCall
    BY <1>7, NoCallIs DEF Load, schema, ShapeOK
  <2>2. ~At("compose", "record")'
    BY <2>1, NoCallIs DEF At
  <2>3. DOMAIN bound' = DOMAIN slots'
    BY <2>1 DEF Callbacks
  <2>4. ASSUME NEW k \in DOMAIN slots' PROVE BoundAt(k)'
    <3>1. bound'[k] = Callback(k[1])
      BY <2>1, <2>4 DEF Callbacks
    <3>2. \A c \in Names : Partner(k[1], c)' <=> Edge(k[1], c) \in deps
      BY <2>1, <2>2 DEF Partner
    <3>3. CASE \E e \in deps : e.producer = k[1]
      <4> DEFINE e == CHOOSE e \in deps : e.producer = k[1]
      <4>1. e \in deps /\ e.producer = k[1] /\ bound'[k] = <<k[1], e.consumer>>
        BY <3>1, <3>3 DEF Callback
      <4> HIDE DEF e
      <4>2. Edge(k[1], e.consumer) \in deps /\ e.consumer \in Names
        BY <4>1, EdgeIs
      <4>3. \E c \in Names : Partner(k[1], c)' /\ bound'[k] = <<k[1], c>>
        BY <3>2, <4>1, <4>2
      <4> QED BY <4>3 DEF BoundAt
    <3>4. CASE ~\E e \in deps : e.producer = k[1]
      <4>1. bound'[k] = <<k[1]>> /\ \A c \in Names : ~Partner(k[1], c)'
        BY <3>1, <3>2, <3>4, EdgeIs DEF Callback
      <4> QED BY <4>1 DEF BoundAt
    <3> QED BY <3>3, <3>4
  <2> QED BY <2>3, <2>4 DEF BoundOK, BoundAt
<1>8. CASE \/ \E t \in Tables, v \in Vals : Write(t, v)
           \/ \E refused \in BOOLEAN : Commit(refused)
           \/ Rollback \/ Record \/ UNCHANGED vars
           \/ \E p, c \in Names : DropPair(p, c) \/ \E pq, cq \in Queries : Compose(p, pq, c, cq)
           \/ \E refused \in BOOLEAN : InstallProducer(refused) \/ InstallConsumer(refused)
  <2>1. UNCHANGED <<slots, bound>> /\ mode = "open"
    BY <1>8 DEF Write, Commit, Rollback, Record, DropPair, Compose, InstallProducer,
                InstallConsumer, Ready, Idle, At, vars, schema
  <2>2. (~Register /\ ~DropEdge) \/ UNCHANGED vars
    BY <1>8, NoCallIs DEF Write, Commit, Rollback, Record, DropPair, Compose, InstallProducer,
                          InstallConsumer, Ready, Idle, At, Register, DropEdge
  <2>3. UNCHANGED vars => BoundOK'
    <3> SUFFICES ASSUME UNCHANGED vars PROVE BoundOK'
      OBVIOUS
    <3>1. BoundOK
      BY <2>1 DEF OpenOK
    <3> QED BY <3>1 DEF BoundOK, Partner, vars, schema, At
  <2> QED BY <1>a, <2>1, <2>2, <2>3
<1>9. mode' = "open" => ~Crash /\ \A t \in Tables, v \in Vals : ~WriteWithout(t, v)
  BY DEF Crash, WriteWithout
<1> QED BY <1>1, <1>2, <1>3, <1>4, <1>5, <1>6, <1>7, <1>8, <1>9 DEF Next, UserStep, CallStep
-----------------------------------------------------------------------------
(* Calls.                                                                  *)

\* Which collectors there are decides who has one.
LEMMA CollectorStays ==
  ASSUME NEW n, catalog'[n].install = catalog[n].install
  PROVE  /\ DOMAIN slots' = DOMAIN slots => (HasCollector(n)' <=> HasCollector(n))
         /\ \A m : m # n /\ DOMAIN slots' = DOMAIN slots \ {CollectorOf(m)} =>
              (HasCollector(n)' <=> HasCollector(n))
         /\ DOMAIN slots' = DOMAIN slots \ {CollectorOf(n)} => ~HasCollector(n)'
         /\ \A m : m # n /\ DOMAIN slots' = DOMAIN slots \cup {CollectorOf(m)} =>
              (HasCollector(n)' <=> HasCollector(n))
         /\ DOMAIN slots' = DOMAIN slots \cup {CollectorOf(n)} => HasCollector(n)'
BY DEF HasCollector, CollectorOf

\* Nobody's collector is an unused name's.
LEMMA NoCollectorYet ==
  ASSUME SlotsOK, NEW n, n \notin Installed, DOMAIN slots' = DOMAIN slots
  PROVE  ~HasCollector(n)'
BY DEF SlotsOK, HasCollector, CollectorOf

\* Between calls everything can be reattached, whatever the user writes.
LEMMA CallStepReady ==
  ASSUME ShapeOK, SlotsOK, DepsOK, OpenOK, ~DropsHalves, mode = "open", [Next]_vars
  PROVE  /\ \A t \in Tables, v \in Vals : Write(t, v) => CallOK'
         /\ \A refused \in BOOLEAN : Commit(refused) => CallOK'
         /\ Rollback => CallOK'
         /\ \A n \in Names : Drop(n) => CallOK'
         /\ \A n \in Names : \A q \in Queries : Install(n, q) => CallOK'
<1>1. ASSUME call = NoCall, UNCHANGED call, Rest({})' PROVE CallOK'
  BY <1>1, NoCallIs DEF CallOK
<1>2. ASSUME call = NoCall, UNCHANGED <<call, deps, slots>>,
             UNCHANGED catalog \/ catalog' = AfterCommit
      PROVE  CallOK'
  <2>1. Rest({})
    BY <1>2 DEF OpenOK, CallOK
  <2>2. /\ Installed' = Installed
        /\ \A n \in Installed : /\ catalog'[n].query = catalog[n].query
                                /\ catalog'[n].install = catalog[n].install
    BY <1>2, CommitKeeps DEF Installed
  <2>3. \A n \in Installed : HasCollector(n) => HasCollector(n)'
    BY <1>2, <2>2, CollectorStays
  <2>4. \A e \in deps : e.producer \in Installed /\ e.consumer \in Installed
    BY <2>1, HalvesInstalled
  <2>5. Rest({})'
    BY <1>2, <2>1, <2>2, <2>3, <2>4, RestFrame
  <2> QED BY <1>1, <1>2, <2>5
<1>3. \A t \in Tables, v \in Vals : Write(t, v) => CallOK'
  BY <1>2 DEF Write, Ready, schema
<1>4. \A refused \in BOOLEAN : Commit(refused) => CallOK'
  BY <1>2 DEF Commit, Ready
<1>5. Rollback => CallOK'
  BY <1>2 DEF Rollback, Ready, schema
<1>6. ASSUME NEW n \in Names, Drop(n) PROVE CallOK'
  <2>1. TearDown(n) /\ UNCHANGED <<deps, call>> /\ call = NoCall /\ n \notin Paired
    BY <1>6 DEF Drop, Idle, Ready
  <2>2. Rest({})
    BY <2>1 DEF OpenOK, CallOK
  <2>3. /\ Installed' = Installed \ {n} /\ \A m \in Installed : m # n => catalog'[m] = catalog[m]
        /\ DOMAIN slots' = DOMAIN slots \ {CollectorOf(n)}
    BY <2>1, TearDownIs
  <2>4. \A m \in Installed' : HasCollector(m) => HasCollector(m)'
    BY <2>3, CollectorStays
  <2>5. \A e \in deps : e.producer \in Installed' /\ e.consumer \in Installed'
    BY <2>1, <2>2, <2>3, HalvesInstalled, EdgeIs
  <2>6. \A e \in deps : catalog'[e.consumer].query = catalog[e.consumer].query
    BY <2>3, <2>5
  <2>7. Rest({})'
    BY <2>1, <2>2, <2>3, <2>4, <2>5, <2>6, RestFrame
  <2> QED BY <1>1, <2>1, <2>7
<1>7. ASSUME NEW n \in Names, NEW q \in Queries, Install(n, q) PROVE CallOK'
  <2>k. PICK key : key = <<n, NextInstall>>
    OBVIOUS
  <2>1. /\ AddProgram(n, q) /\ Installable(n, q) /\ UNCHANGED <<deps, call>> /\ call = NoCall
        /\ q.views = {} /\ Watch(key, q.tables, <<n>>)
    BY <1>7, <2>k DEF Install, Idle, Ready
  <2>2. Rest({})
    BY <2>1 DEF OpenOK, CallOK
  <2>3. /\ Installed' = Installed \cup {n} /\ n \notin Installed /\ catalog'[n].query = q
        /\ \A m \in Installed : catalog'[m] = catalog[m]
    BY <2>1, AddIs
  <2>4. DOMAIN slots' = DOMAIN slots \cup {key} /\ catalog'[n].install = NextInstall
    BY <2>1, WatchIs DEF AddProgram, Extended, NewEntry
  <2>5. \A m \in Installed : HasCollector(m) => HasCollector(m)'
    BY <2>3, <2>4 DEF HasCollector, CollectorOf
  <2>6. HasCollector(n)'
    BY <2>k, <2>4 DEF HasCollector, CollectorOf
  <2>7. \A e \in deps : e.producer \in Installed /\ e.consumer \in Installed
    BY <2>2, HalvesInstalled
  <2>8. Rest({n})'
    BY <2>1, <2>2, <2>3, <2>5, <2>7, RestFrame
  <2>9. Reattaches(n)'
    BY <2>1, <2>3, <2>6 DEF Reattaches, Derived
  <2>10. Rest({})'
    BY <2>1, <2>3, <2>7, <2>8, <2>9 DEF Rest
  <2> QED BY <1>1, <2>1, <2>10
<1> QED BY <1>3, <1>4, <1>5, <1>6, <1>7

\* A compose begins with everything in order and leaves it so: each step knows what
\* the earlier ones did.
LEMMA CallStepCompose ==
  ASSUME ShapeOK, SlotsOK, DepsOK, OpenOK, mode = "open", [Next]_vars
  PROVE  /\ \A p, c \in Names : \A pq, cq \in Queries : Compose(p, pq, c, cq) => CallOK'
         /\ \A refused \in BOOLEAN : InstallProducer(refused) => CallOK'
         /\ \A refused \in BOOLEAN : InstallConsumer(refused) => CallOK'
         /\ Register => CallOK'
         /\ Record => CallOK'
         /\ UndoConsumer => CallOK'
         /\ UndoProducer => CallOK'
<1>r. ASSUME Return, Rest({})' PROVE CallOK'
  BY <1>r, NoCallIs DEF CallOK, Return
<1>k. PICK p, c : p = call.p /\ c = call.c
  OBVIOUS
<1>a. ASSUME NEW at, At("compose", at)
      PROVE  /\ ComposeOK /\ call # NoCall /\ call.op = "compose" /\ call.at = at
             /\ p \in Names /\ c \in Names /\ call.pq \in Queries /\ call.cq \in Queries
  BY <1>a, <1>k, AtCall DEF OpenOK, CallOK
<1>g. ASSUME NEW at, At("compose", at), NEW next, Goto(next)
      PROVE  /\ call' # NoCall /\ call'.op = "compose" /\ call'.at = next
             /\ call'.p = p /\ call'.c = c /\ call'.before = call.before
             /\ ComposeOK' => CallOK'
  <2>1. /\ call' # NoCall /\ call'.op = "compose" /\ call'.at = next
        /\ call'.p = p /\ call'.c = c /\ call'.before = call.before
    BY <1>a, <1>g, <1>k, GotoShape DEF ShapeOK
  <2> QED BY <2>1 DEF CallOK
<1>f. ASSUME UNCHANGED <<catalog, deps, slots>>, NEW X, Rest(X) PROVE Rest(X)'
  BY <1>f DEF Rest, Paired, PairReattaches, Reattaches, Installed, Derived, ValidPair,
              HasCollector, CollectorOf
<1>1. ASSUME NEW P \in Names, NEW C \in Names, NEW pq \in Queries, NEW cq \in Queries,
             Compose(P, pq, C, cq)
      PROVE  CallOK'
  <2>1. /\ call = NoCall /\ UNCHANGED <<catalog, deps, slots>>
        /\ call' = [op |-> "compose", at |-> "producer", p |-> P, c |-> C,
                    pq |-> pq, cq |-> cq, before |-> <<catalog, deps, slots>>]
    BY <1>1 DEF Compose, Idle, Ready, schema
  <2>2. Rest({})'
    BY <1>f, <2>1 DEF OpenOK, CallOK
  <2>3. /\ call' # NoCall /\ call'.op = "compose" /\ call'.at = "producer"
        /\ call'.before = <<catalog, deps, slots>>
    BY <2>1, NoCallIs
  <2>4. ComposeOK'
    BY <2>1, <2>2, <2>3 DEF ComposeOK
  <2> QED BY <2>3, <2>4 DEF CallOK
<1>2. ASSUME NEW refused \in BOOLEAN, InstallProducer(refused) PROVE CallOK'
  <2>1. /\ At("compose", "producer") /\ UNCHANGED <<deps, slots>>
        /\ \/ Return /\ UNCHANGED catalog
           \/ Goto("consumer") /\ AddProgram(p, call.pq) /\ Installable(p, call.pq)
    BY <1>2, <1>k DEF InstallProducer
  <2>2. /\ Rest({}) /\ catalog = call.before[1] /\ deps = call.before[2] /\ slots = call.before[3]
        /\ call.before = <<call.before[1], call.before[2], call.before[3]>>
    BY <1>a, <2>1 DEF ComposeOK
  <2>3. CASE Return /\ UNCHANGED catalog
    BY <1>r, <1>f, <2>1, <2>2, <2>3
  <2>4. CASE Goto("consumer") /\ AddProgram(p, call.pq) /\ Installable(p, call.pq)
    <3>1. p \in Names /\ call.pq \in Queries
      BY <1>a, <2>1
    <3>2. /\ Installed' = Installed \cup {p} /\ p \notin Installed /\ Without(catalog', p) = catalog
          /\ \A m \in Installed : catalog'[m] = catalog[m]
      BY <2>4, <3>1, AddIs
    <3>3. ~HasCollector(p)' /\ \A n \in Installed : HasCollector(n) => HasCollector(n)'
      BY <2>1, <3>2, NoCollectorYet, CollectorStays
    <3>4. \A e \in deps : e.producer \in Installed /\ e.consumer \in Installed
      BY <2>2, HalvesInstalled
    <3>5. Rest({p})'
      BY <2>1, <2>2, <3>2, <3>3, <3>4, RestFrame
    <3>6. p \notin Paired'
      BY <2>1, <3>2, <3>4 DEF Paired
    <3>7. /\ (ComposeOK' => CallOK') /\ call'.at = "consumer" /\ call'.p = p
          /\ call'.before = call.before
      BY <1>g, <2>1, <2>4
    <3>8. ComposeOK'
      BY <2>1, <2>2, <3>2, <3>3, <3>5, <3>6, <3>7
      DEF ComposeOK, HasCollector, CollectorOf, Rest
    <3> QED BY <3>7, <3>8
  <2> QED BY <2>1, <2>3, <2>4
<1>3. ASSUME NEW refused \in BOOLEAN, InstallConsumer(refused) PROVE CallOK'
  <2>1. /\ At("compose", "consumer") /\ UNCHANGED <<deps, slots>>
        /\ \/ Goto("undo_producer") /\ UNCHANGED catalog
           \/ /\ Goto("register") /\ AddProgram(c, call.cq) /\ Installable(c, call.cq)
              /\ ~Derived(p)
    BY <1>3, <1>k DEF InstallConsumer
  <2>2. /\ p \in Installed /\ p \notin Paired /\ ~HasCollector(p) /\ Rest({p})
        /\ Without(catalog, p) = call.before[1] /\ deps = call.before[2]
        /\ slots = call.before[3]
        /\ call.before = <<call.before[1], call.before[2], call.before[3]>>
    BY <1>a, <1>k, <2>1 DEF ComposeOK
  <2>3. CASE Goto("undo_producer") /\ UNCHANGED catalog
    <3>1. Rest({p})' /\ (HasCollector(p)' <=> HasCollector(p)) /\ Installed' = Installed
          /\ Paired' = Paired
      BY <1>f, <2>1, <2>2, <2>3 DEF HasCollector, CollectorOf, Installed, Paired
    <3>2. /\ (ComposeOK' => CallOK') /\ call'.at = "undo_producer" /\ call'.p = p
          /\ call'.before = call.before
      BY <1>g, <2>1, <2>3
    <3>3. ComposeOK'
      BY <2>1, <2>2, <2>3, <3>1, <3>2 DEF ComposeOK, HasCollector, CollectorOf, Rest
    <3> QED BY <3>2, <3>3
  <2>4. CASE /\ Goto("register") /\ AddProgram(c, call.cq) /\ Installable(c, call.cq)
             /\ ~Derived(p)
    <3>1. c \in Names /\ call.cq \in Queries
      BY <1>a, <2>1
    <3>2. /\ Installed' = Installed \cup {c} /\ c \notin Installed /\ Without(catalog', c) = catalog
          /\ \A m \in Installed : catalog'[m] = catalog[m]
      BY <2>4, <3>1, AddIs
    <3>3. /\ ~HasCollector(c)' /\ ~HasCollector(p)'
          /\ \A n \in Installed : HasCollector(n) => HasCollector(n)'
      BY <2>1, <2>2, <3>2, NoCollectorYet, CollectorStays
    <3>4. \A e \in deps : e.producer # p /\ e.producer \in Installed /\ e.consumer \in Installed
      BY <2>2, HalvesInstalled, EdgeIs DEF Paired
    <3>5. Rest({p, c})'
      BY <2>1, <2>2, <3>2, <3>3, <3>4, RestFrame
    <3>6. p \notin Paired' /\ c \notin Paired' /\ p # c /\ ~Derived(p)'
      BY <2>1, <2>2, <2>4, <3>2, <3>4 DEF Paired, Derived
    <3>7. /\ (ComposeOK' => CallOK') /\ call'.at = "register" /\ call'.p = p
          /\ call'.c = c /\ call'.before = call.before
      BY <1>g, <2>1, <2>4
    <3>8. ComposeOK'
      BY <2>1, <2>2, <3>2, <3>3, <3>5, <3>6, <3>7
      DEF ComposeOK, HasCollector, CollectorOf, Rest, Derived
    <3> QED BY <3>7, <3>8
  <2> QED BY <2>1, <2>3, <2>4
\* What the steps after InstallConsumer begin with.
<1>b. ASSUME NEW at \in {"register", "undo_consumer", "record"}, At("compose", at)
      PROVE  /\ p # c /\ {p, c} \subseteq Installed \ Paired
             /\ ~Derived(p) /\ ~HasCollector(c) /\ Rest({p, c})
             /\ Without(Without(catalog, c), p) = call.before[1] /\ deps = call.before[2]
             /\ call.before = <<call.before[1], call.before[2], call.before[3]>>
             /\ at # "record" => ~HasCollector(p) /\ slots = call.before[3]
             /\ \A e \in deps : /\ e.producer \in Installed \ {p, c}
                                /\ e.consumer \in Installed \ {p, c}
  <2>1. /\ p # c /\ {p, c} \subseteq Installed \ Paired
        /\ ~Derived(p) /\ ~HasCollector(c) /\ Rest({p, c})
        /\ Without(Without(catalog, c), p) = call.before[1] /\ deps = call.before[2]
        /\ call.before = <<call.before[1], call.before[2], call.before[3]>>
        /\ at # "record" => ~HasCollector(p) /\ slots = call.before[3]
    BY <1>a, <1>b, <1>k DEF ComposeOK
  <2>2. \A e \in deps : e.producer \notin {p, c} /\ e.consumer \notin {p, c}
    BY <2>1, EdgeIs DEF Paired
  <2> QED BY <2>1, <2>2, HalvesInstalled
<1>4. ASSUME Register PROVE CallOK'
  <2>k. PICK key : key = CollectorOf(p)
    OBVIOUS
  <2>1. /\ At("compose", "register") /\ UNCHANGED <<catalog, deps>>
        /\ \/ Goto("undo_consumer") /\ UNCHANGED slots
           \/ /\ Goto("record") /\ Watch(key, Watched(p, c), <<p, c>>)
              /\ ValidPair(p, c)
    BY <1>4, <1>k, <2>k DEF Register
  <2>2. /\ p # c /\ {p, c} \subseteq Installed \ Paired
        /\ ~Derived(p) /\ ~HasCollector(c) /\ Rest({p, c}) /\ ~HasCollector(p)
        /\ Without(Without(catalog, c), p) = call.before[1] /\ deps = call.before[2]
        /\ call.before = <<call.before[1], call.before[2], call.before[3]>>
        /\ slots = call.before[3]
    BY <1>b, <2>1
  <2>3. \A e \in deps : e.producer \in Installed \ {p, c} /\ e.consumer \in Installed \ {p, c}
    BY <1>b, <2>1
  <2>4. /\ Installed' = Installed /\ Paired' = Paired /\ ~Derived(p)'
        /\ (ValidPair(p, c)' <=> ValidPair(p, c))
    BY <2>1, <2>2 DEF Installed, Paired, Derived, ValidPair
  <2>5. CASE Goto("undo_consumer") /\ UNCHANGED slots
    <3>1. Rest({p, c})' /\ ~HasCollector(p)' /\ ~HasCollector(c)'
      BY <1>f, <2>1, <2>2, <2>5 DEF HasCollector, CollectorOf
    <3>2. /\ (ComposeOK' => CallOK') /\ call'.at = "undo_consumer" /\ call'.p = p
          /\ call'.c = c /\ call'.before = call.before
      BY <1>g, <2>1, <2>5
    <3>3. ComposeOK'
      BY <2>1, <2>2, <2>4, <2>5, <3>1, <3>2
      DEF ComposeOK, HasCollector, CollectorOf, Rest, Derived
    <3> QED BY <3>2, <3>3
  <2>6. CASE /\ Goto("record") /\ Watch(key, Watched(p, c), <<p, c>>)
             /\ ValidPair(p, c)
    <3>1. DOMAIN slots' = DOMAIN slots \cup {CollectorOf(p)}
      BY <2>6, <2>k, WatchIs
    <3>2. HasCollector(p)' /\ ~HasCollector(c)'
          /\ \A n \in Installed : HasCollector(n) => HasCollector(n)'
      BY <2>1, <2>2, <3>1, CollectorStays
    <3>3. Rest({p, c})'
      BY <2>1, <2>2, <2>3, <2>4, <3>2, RestFrame
    <3>4. /\ (ComposeOK' => CallOK') /\ call'.at = "record" /\ call'.p = p
          /\ call'.c = c /\ call'.before = call.before
      BY <1>g, <2>1, <2>6
    <3>5. ComposeOK'
      BY <2>1, <2>2, <2>4, <2>6, <3>2, <3>3, <3>4
      DEF ComposeOK, HasCollector, CollectorOf, Rest, Derived, ValidPair
    <3> QED BY <3>4, <3>5
  <2> QED BY <2>1, <2>5, <2>6
<1>5. ASSUME Record PROVE CallOK'
  <2>1. /\ At("compose", "record") /\ UNCHANGED <<catalog, slots>> /\ Return
        /\ deps' = deps \cup {Edge(p, c)}
    BY <1>5, <1>k, RecordIsNew DEF Record
  <2>2. /\ p # c /\ {p, c} \subseteq Installed \ Paired /\ ~Derived(p) /\ Rest({p, c})
    BY <1>b, <2>1
  <2>3. \A e \in deps : e.producer \in Installed \ {p, c} /\ e.consumer \in Installed \ {p, c}
    BY <1>b, <2>1
  <2>4. ValidPair(p, c) /\ HasCollector(p)
    BY <1>a, <1>k, <2>1 DEF ComposeOK
  <2>5. PairReattaches(p, c)'
    BY <2>1, <2>2, <2>4 DEF PairReattaches, Derived, ValidPair, HasCollector, CollectorOf, Installed
  <2>6. \A e \in deps : PairReattaches(e.producer, e.consumer)'
    BY <2>1, <2>2, <2>3
    DEF Rest, PairReattaches, Derived, ValidPair, HasCollector, CollectorOf, Installed
  <2>7. Paired' = Paired \cup {p, c}
    BY <2>1, EdgeIs DEF Paired
  <2>8. \A n \in Installed' \ Paired' : Reattaches(n)'
    BY <2>1, <2>2, <2>7 DEF Rest, Reattaches, Derived, HasCollector, CollectorOf, Installed
  <2>9. Rest({})'
    BY <2>1, <2>5, <2>6, <2>8, EdgeIs DEF Rest
  <2> QED BY <1>r, <2>1, <2>9
<1>6. ASSUME UndoConsumer PROVE CallOK'
  <2>1. /\ At("compose", "undo_consumer") /\ UNCHANGED deps /\ Goto("undo_producer") /\ TearDown(c)
    BY <1>6, <1>k DEF UndoConsumer
  <2>2. /\ p # c /\ {p, c} \subseteq Installed \ Paired /\ Rest({p, c})
        /\ ~HasCollector(p) /\ ~HasCollector(c)
        /\ Without(Without(catalog, c), p) = call.before[1] /\ deps = call.before[2]
        /\ call.before = <<call.before[1], call.before[2], call.before[3]>>
        /\ slots = call.before[3]
    BY <1>b, <2>1
  <2>3. \A e \in deps : e.producer \in Installed \ {p, c} /\ e.consumer \in Installed \ {p, c}
    BY <1>b, <2>1
  <2>4. /\ catalog' = Without(catalog, c) /\ Installed' = Installed \ {c}
        /\ \A m \in Installed : m # c => catalog'[m] = catalog[m]
        /\ slots' = Without(slots, CollectorOf(c))
    BY <2>1, TearDownIs
  <2>5. slots' = slots
    <3>1. CollectorOf(c) \notin DOMAIN slots
      BY <2>2 DEF HasCollector
    <3>2. slots = [k \in DOMAIN slots |-> slots[k]]
      BY DEF ShapeOK
    <3> QED BY <2>4, <3>1, <3>2 DEF Without
  <2>6. /\ ~HasCollector(p)' /\ \A n \in Installed' : HasCollector(n) => HasCollector(n)'
    BY <2>2, <2>4, <2>5, CollectorStays
  <2>7. Rest({p})'
    BY <2>1, <2>2, <2>3, <2>4, <2>6, RestFrame
  <2>8. /\ (ComposeOK' => CallOK') /\ call'.at = "undo_producer" /\ call'.p = p
        /\ call'.before = call.before
    BY <1>g, <2>1
  <2>9. p \in Installed' \ Paired'
    BY <2>1, <2>2, <2>4 DEF Paired
  <2>10. ComposeOK'
    BY <2>1, <2>2, <2>4, <2>5, <2>6, <2>7, <2>8, <2>9
    DEF ComposeOK, HasCollector, CollectorOf, Rest
  <2> QED BY <2>8, <2>10
<1>7. ASSUME UndoProducer PROVE CallOK'
  <2>1. At("compose", "undo_producer") /\ UNCHANGED deps /\ Return /\ TearDown(p)
    BY <1>7, <1>k DEF UndoProducer
  <2>2. p \in Installed \ Paired /\ Rest({p})
    BY <1>a, <1>k, <2>1 DEF ComposeOK
  <2>3. \A e \in deps : e.producer \in Installed \ {p} /\ e.consumer \in Installed \ {p}
    BY <2>2, HalvesInstalled, EdgeIs DEF Paired
  <2>4. /\ Installed' = Installed \ {p} /\ \A m \in Installed : m # p => catalog'[m] = catalog[m]
        /\ DOMAIN slots' = DOMAIN slots \ {CollectorOf(p)}
    BY <2>1, TearDownIs
  <2>5. \A n \in Installed' : HasCollector(n) => HasCollector(n)'
    BY <2>4, CollectorStays
  <2>6. Rest({})'
    BY <2>1, <2>2, <2>3, <2>4, <2>5, RestFrame
  <2> QED BY <1>r, <2>1, <2>6
<1> QED BY <1>1, <1>2, <1>3, <1>4, <1>5, <1>6, <1>7

\* Dropping a pair: its producer is the one program that cannot be reattached.
LEMMA CallStepDrop ==
  ASSUME ShapeOK, SlotsOK, DepsOK, OpenOK, mode = "open", [Next]_vars
  PROVE  /\ \A p, c \in Names : DropPair(p, c) => CallOK'
         /\ DropCollector("close", "register") => CallOK'
         /\ RegisterAgain => CallOK'
         /\ DropCollector("unwatch", "consumer") => CallOK'
         /\ DropHalf("consumer", call.c, "producer") => CallOK'
         /\ DropHalf("producer", call.p, "edge") => CallOK'
         /\ DropEdge => CallOK'
<1>k. PICK p, c : p = call.p /\ c = call.c
  OBVIOUS
<1>a. ASSUME NEW at, At("drop", at)
      PROVE  /\ DropOK /\ call # NoCall /\ call.op = "drop" /\ call.at = at
             /\ p \in Names /\ c \in Names /\ Edge(p, c) \in deps /\ Rest({p})
             /\ \A e \in deps : e.producer = p \/ e.consumer = c => e = Edge(p, c)
             /\ \A e \in deps : e.producer # p =>
                  /\ PairReattaches(e.producer, e.consumer)
                  /\ e.producer \in Installed /\ e.consumer \in Installed /\ e.consumer # c
                  /\ ~Derived(e.producer) /\ Derived(e.consumer)
  <2>1. /\ DropOK /\ call # NoCall /\ call.op = "drop" /\ call.at = at
        /\ p \in Names /\ c \in Names /\ Edge(p, c) \in deps /\ Rest({p})
    BY <1>a, <1>k, AtCall DEF OpenOK, CallOK, DropOK, Rest
  <2>2. \A e \in deps : e.producer = p \/ e.consumer = c => e = Edge(p, c)
    BY <2>1, EdgeIs DEF DepsOK
  <2>3. ASSUME NEW e \in deps, e.producer # p
        PROVE  /\ PairReattaches(e.producer, e.consumer)
               /\ e.producer \in Installed /\ e.consumer \in Installed /\ e.consumer # c
               /\ ~Derived(e.producer) /\ Derived(e.consumer)
    <3>1. PairReattaches(e.producer, e.consumer)
      BY <2>1, <2>3 DEF Rest
    <3>2. e.consumer # c
      BY <2>2, <2>3, EdgeIs
    <3> QED BY <3>1, <3>2 DEF PairReattaches, ValidPair, Derived
  <2> QED BY <2>1, <2>2, <2>3
<1>g. ASSUME NEW at, At("drop", at), NEW next, Goto(next)
      PROVE  /\ call' # NoCall /\ call'.op = "drop" /\ call'.at = next
             /\ call'.p = p /\ call'.c = c /\ (DropOK' => CallOK')
  <2>1. /\ call' # NoCall /\ call'.op = "drop" /\ call'.at = next
        /\ call'.p = p /\ call'.c = c
    BY <1>a, <1>g, <1>k, GotoShape DEF ShapeOK
  <2> QED BY <2>1 DEF CallOK
\* Both there, the producer with a collector or without.
<1>b. ASSUME NEW at \in {"close", "register", "unwatch", "consumer"}, At("drop", at)
      PROVE  /\ p \in Installed /\ c \in Installed /\ ~Derived(p) /\ ValidPair(p, c) /\ p # c
             /\ HasCollector(p) <=> at \in {"close", "unwatch"}
  <2>1. /\ p \in Installed /\ c \in Installed /\ ~Derived(p) /\ ValidPair(p, c)
        /\ HasCollector(p) <=> at \in {"close", "unwatch"}
    BY <1>a, <1>b, <1>k DEF DropOK, HasCollector, CollectorOf, Derived, ValidPair
  <2> QED BY <2>1 DEF Derived, ValidPair
<1>c. ASSUME NEW at \in {"close", "register", "unwatch", "consumer"}, At("drop", at),
             NEW next \in {"register", "unwatch", "consumer"}, Goto(next),
             UNCHANGED <<catalog, deps>>, HasCollector(p)' <=> next = "unwatch",
             \A n \in Installed : n # p /\ HasCollector(n) => HasCollector(n)'
      PROVE  CallOK'
  <2>1. /\ p \in Installed /\ c \in Installed /\ ~Derived(p) /\ ValidPair(p, c) /\ Rest({p})
        /\ \A e \in deps : e.producer # p =>
             e.producer \in Installed /\ e.consumer \in Installed
        /\ Edge(p, c) \in deps
    BY <1>a, <1>b, <1>c
  <2>2. Installed' = Installed /\ ~Derived(p)' /\ ValidPair(p, c)'
    BY <1>c, <2>1 DEF Installed, Derived, ValidPair
  <2>3. Rest({p})'
    BY <1>c, <2>1, <2>2, RestFrame
  <2>4. call'.at = next /\ call'.p = p /\ call'.c = c /\ (DropOK' => CallOK')
    BY <1>g, <1>c
  <2>5. DropOK'
    BY <1>c, <2>1, <2>2, <2>3, <2>4
    DEF DropOK, Rest, HasCollector, CollectorOf, Derived, ValidPair, Edge
  <2> QED BY <2>4, <2>5
<1>1. ASSUME NEW P \in Names, NEW C \in Names, DropPair(P, C) PROVE CallOK'
  <2>1. /\ call = NoCall /\ UNCHANGED <<catalog, deps, slots>> /\ {P, C} \subseteq Installed
        /\ ~Derived(P) /\ ValidPair(P, C)
        /\ call' = [op |-> "drop", at |-> "close", p |-> P, c |-> C, before |-> schema]
    BY <1>1 DEF DropPair, Idle, Ready, schema
  <2>2. Rest({})
    BY <2>1 DEF OpenOK, CallOK
  <2>3. Edge(P, C) \in deps /\ HasCollector(P)
    <3>1. PICK e \in deps : e.consumer = C /\ PairReattaches(e.producer, C)
      BY <2>1, <2>2, Readers DEF Derived, ValidPair
    <3>2. e.producer = P
      BY <2>1, <3>1 DEF PairReattaches, ValidPair
    <3> QED BY <3>1, <3>2, EdgeIs DEF PairReattaches
  <2>4. Installed' = Installed /\ ~Derived(P)' /\ ValidPair(P, C)' /\ HasCollector(P)'
    BY <2>1, <2>3 DEF Installed, Derived, ValidPair, HasCollector, CollectorOf
  <2>5. Rest({P})'
    BY <2>1, <2>2
    DEF Rest, Paired, PairReattaches, Reattaches, Installed, Derived, ValidPair, HasCollector,
        CollectorOf
  <2>6. /\ call' # NoCall /\ call'.op = "drop" /\ call'.at = "close"
        /\ call'.p = P /\ call'.c = C
    BY <2>1, NoCallIs
  <2>7. DropOK'
    BY <2>1, <2>3, <2>4, <2>5, <2>6
    DEF DropOK, Rest, HasCollector, CollectorOf, Derived, ValidPair, Edge
  <2> QED BY <2>6, <2>7 DEF CallOK
<1>2. ASSUME NEW at \in {"close", "unwatch"}, NEW next \in {"register", "consumer"},
             DropCollector(at, next)
      PROVE  CallOK'
  <2>1. /\ At("drop", at) /\ Unwatch(CollectorOf(p)) /\ Goto(next) /\ UNCHANGED <<catalog, deps>>
    BY <1>2, <1>k DEF DropCollector
  <2>2. DOMAIN slots' = DOMAIN slots \ {CollectorOf(p)}
    BY <2>1, UnwatchIs
  <2>3. ~HasCollector(p)' /\ \A n : n # p /\ HasCollector(n) => HasCollector(n)'
    BY <2>1, <2>2, CollectorStays
  <2> QED BY <1>c, <2>1, <2>3
<1>3. ASSUME RegisterAgain PROVE CallOK'
  <2>k. PICK key : key = CollectorOf(p)
    OBVIOUS
  <2>1. /\ At("drop", "register") /\ Watch(key, Watched(p, c), <<p, c>>) /\ Goto("unwatch")
        /\ UNCHANGED <<catalog, deps>>
    BY <1>3, <1>k, <2>k DEF RegisterAgain
  <2>2. DOMAIN slots' = DOMAIN slots \cup {CollectorOf(p)}
    BY <2>1, <2>k, WatchIs
  <2>3. HasCollector(p)' /\ \A n : n # p /\ HasCollector(n) => HasCollector(n)'
    BY <2>1, <2>2, CollectorStays
  <2> QED BY <1>c, <2>1, <2>3
<1>4. ASSUME DropHalf("consumer", c, "producer") PROVE CallOK'
  <2>1. /\ At("drop", "consumer") /\ TearDown(c) /\ Goto("producer") /\ UNCHANGED deps
    BY <1>4 DEF DropHalf
  <2>2. /\ p \in Installed /\ ~Derived(p) /\ p # c /\ ~HasCollector(p) /\ Edge(p, c) \in deps
        /\ Rest({p}) /\ Derived(c)
    BY <1>a, <1>b, <2>1 DEF Derived, ValidPair
  <2>3. \A e \in deps : e.producer # p =>
          /\ e.producer \in Installed \ {c} /\ e.consumer \in Installed \ {c}
    BY <1>a, <2>1, <2>2
  <2>4. /\ Installed' = Installed \ {c} /\ \A m \in Installed : m # c => catalog'[m] = catalog[m]
        /\ DOMAIN slots' = DOMAIN slots \ {CollectorOf(c)}
    BY <2>1, TearDownIs
  <2>5. ~HasCollector(p)' /\ \A n \in Installed' : HasCollector(n) => HasCollector(n)'
    BY <2>2, <2>4, CollectorStays
  <2>6. Rest({p})'
    BY <2>1, <2>2, <2>3, <2>4, <2>5, RestFrame
  <2>7. call'.at = "producer" /\ call'.p = p /\ call'.c = c /\ (DropOK' => CallOK')
    BY <1>g, <2>1
  <2>8. p \in Installed' /\ c \notin Installed' /\ ~Derived(p)'
    BY <2>2, <2>4 DEF Derived
  <2>9. DropOK'
    BY <2>1, <2>2, <2>5, <2>6, <2>7, <2>8 DEF DropOK, Rest, HasCollector, CollectorOf, Derived, Edge
  <2> QED BY <2>7, <2>9
<1>5. ASSUME DropHalf("producer", p, "edge") PROVE CallOK'
  <2>1. /\ At("drop", "producer") /\ TearDown(p) /\ Goto("edge") /\ UNCHANGED deps
    BY <1>5 DEF DropHalf
  <2>2. /\ p \in Installed /\ c \notin Installed /\ ~Derived(p) /\ Edge(p, c) \in deps /\ Rest({p})
    BY <1>a, <1>k, <2>1 DEF DropOK, Derived
  <2>3. \A e \in deps : e.producer # p =>
          /\ e.producer \in Installed \ {p} /\ e.consumer \in Installed \ {p}
    BY <1>a, <2>1, <2>2
  <2>4. /\ Installed' = Installed \ {p} /\ \A m \in Installed : m # p => catalog'[m] = catalog[m]
        /\ DOMAIN slots' = DOMAIN slots \ {CollectorOf(p)}
    BY <2>1, TearDownIs
  <2>5. \A n \in Installed' : HasCollector(n) => HasCollector(n)'
    BY <2>4, CollectorStays
  <2>6. Rest({p})'
    BY <2>1, <2>2, <2>3, <2>4, <2>5, RestFrame
  <2>7. call'.at = "edge" /\ call'.p = p /\ call'.c = c /\ (DropOK' => CallOK')
    BY <1>g, <2>1
  <2>8. DropOK'
    BY <2>1, <2>2, <2>4, <2>6, <2>7 DEF DropOK, Rest, HasCollector, CollectorOf, Derived, Edge
  <2> QED BY <2>7, <2>8
<1>6. ASSUME DropEdge PROVE CallOK'
  <2>1. /\ At("drop", "edge") /\ deps' = deps \ {Edge(p, c)} /\ Return
        /\ UNCHANGED <<catalog, slots>>
    BY <1>6, <1>k DEF DropEdge
  <2>2. p \notin Installed /\ c \notin Installed /\ Rest({p})
    BY <1>a, <1>k, <2>1 DEF DropOK
  <2>3. \A e \in deps' : e \in deps /\ e.producer # p
    BY <1>a, <2>1
  <2>4. \A n \in Installed' \ Paired' : n \in Installed \ Paired
    <3>1. \A e \in deps : e \notin deps' => e.producer = p /\ e.consumer = c
      BY <2>1, EdgeIs
    <3> QED BY <2>1, <2>2, <3>1 DEF Paired, Installed
  <2>5. Rest({})'
    BY <2>1, <2>2, <2>3, <2>4
    DEF Rest, PairReattaches, Reattaches, Installed, Derived, ValidPair, HasCollector, CollectorOf
  <2> QED BY <2>1, <2>5, NoCallIs DEF CallOK, Return
<1>7. DropCollector("close", "register") \/ DropCollector("unwatch", "consumer") => CallOK'
  BY <1>2
<1>8. DropHalf("consumer", call.c, "producer") \/ DropHalf("producer", call.p, "edge") => CallOK'
  BY <1>k, <1>4, <1>5
<1> QED BY <1>1, <1>3, <1>6, <1>7, <1>8

LEMMA CallsInOrder ==
  ASSUME ShapeOK, SlotsOK, DepsOK, OpenOK, ~DropsHalves, [Next]_vars, mode' = "open"
  PROVE  CallOK'
<1>1. CASE Load
  <2>1. Loads /\ UNCHANGED schema /\ call' = NoCall
    BY <1>1 DEF Load, ShapeOK
  <2>2. Rest({})'
    BY <2>1, LoadsIsRest
    DEF Rest, Paired, PairReattaches, Reattaches, Installed, Derived, ValidPair, HasCollector,
        CollectorOf, schema
  <2> QED BY <2>1, <2>2, NoCallIs DEF CallOK
<1>2. CASE ~Load
  <2>1. mode = "open"
    BY <1>2
    DEF Next, UserStep, CallStep, Write, WriteWithout, Commit, Rollback, Drop, Install, DropPair,
        Compose, InstallProducer, InstallConsumer, Register, Record, UndoConsumer, UndoProducer,
        DropCollector, RegisterAgain, DropHalf, DropEdge, Crash, At, Ready, Idle, vars
  <2>2. CASE UNCHANGED vars
    BY <2>1, <2>2
    DEF OpenOK, CallOK, ComposeOK, DropOK, Rest, Paired, PairReattaches, Reattaches, Installed,
        Derived, ValidPair, HasCollector, CollectorOf, vars, schema
  <2>3. ~Crash /\ \A t \in Tables, v \in Vals : ~WriteWithout(t, v)
    BY <2>1 DEF Crash, WriteWithout
  <2> QED BY <1>2, <2>1, <2>2, <2>3, CallStepReady, CallStepCompose, CallStepDrop
          DEF Next, UserStep, CallStep
<1> QED BY <1>1, <1>2
-----------------------------------------------------------------------------
(* Programs that are read.                                                 *)

\* A program that the pairs of a call leave nobody to read.
LEMMA Unread ==
  ASSUME NEW X, Rest(X), NEW n,
         \A m \in Installed \cap X : m # n => ~Derived(m),
         \A e \in deps : e.producer \notin X => e.producer # n,
         \A e \in deps : e.producer \in X => e.consumer = n \/ e.consumer \notin Installed
  PROVE  \A m \in Installed : m # n => n \notin catalog[m].query.views
<1> SUFFICES ASSUME NEW m \in Installed, m # n, Derived(m)
             PROVE  n \notin catalog[m].query.views
  BY DEF Derived
<1>1. m \in Installed \ X /\ \A e \in deps : e.producer \in X => e.consumer # m
  OBVIOUS
<1>2. PICK e \in deps : e.producer \notin X /\ PairReattaches(e.producer, m)
  BY <1>1, Readers
<1> QED BY <1>2 DEF PairReattaches, ValidPair

Removes(n) ==
  \/ Drop(n)
  \/ n = call.c /\ (UndoConsumer \/ DropHalf("consumer", call.c, "producer"))
  \/ n = call.p /\ (UndoProducer \/ DropHalf("producer", call.p, "edge"))

\* A program is torn down when no other reads it.
LEMMA RemovesUnread ==
  ASSUME ShapeOK, DepsOK, OpenOK, ~DropsHalves, NEW n \in Names, Removes(n)
  PROVE  /\ TearDown(n) /\ mode = "open" /\ UNCHANGED committed
         /\ \A m \in Installed : m # n => n \notin catalog[m].query.views
<1>k. PICK p, c : p = call.p /\ c = call.c
  OBVIOUS
<1>1. CASE Drop(n)
  <2>1. /\ TearDown(n) /\ mode = "open" /\ UNCHANGED committed /\ n \notin Paired
        /\ call = NoCall
    BY <1>1 DEF Drop, Idle, Ready, Outside
  <2>2. Rest({})
    BY <2>1 DEF OpenOK, CallOK
  <2> QED BY <2>1, <2>2, EdgeIs, Unread
<1>2. CASE n = call.c /\ UndoConsumer
  <2>1. /\ TearDown(n) /\ mode = "open" /\ UNCHANGED committed /\ At("compose", "undo_consumer")
    BY <1>2, AtCall DEF UndoConsumer, Outside
  <2>2. Rest({p, n}) /\ p \notin Paired /\ n \notin Paired /\ ~Derived(p)
    BY <1>2, <1>k, <2>1, AtCall DEF OpenOK, CallOK, ComposeOK, Derived, Rest
  <2> QED BY <2>1, <2>2, EdgeIs, Unread
<1>3. CASE n = call.p /\ UndoProducer
  <2>1. /\ TearDown(n) /\ mode = "open" /\ UNCHANGED committed /\ At("compose", "undo_producer")
    BY <1>3, AtCall DEF UndoProducer, Outside
  <2>2. Rest({n}) /\ n \notin Paired
    BY <1>3, <2>1, AtCall DEF OpenOK, CallOK, ComposeOK, Rest
  <2> QED BY <2>1, <2>2, EdgeIs, Unread
<1>4. CASE n = call.c /\ DropHalf("consumer", call.c, "producer")
  <2>1. /\ TearDown(n) /\ mode = "open" /\ UNCHANGED committed /\ At("drop", "consumer")
    BY <1>4, AtCall DEF DropHalf, Outside
  <2>2. Rest({p}) /\ ~Derived(p) /\ ValidPair(p, n) /\ Edge(p, n) \in deps
    BY <1>4, <1>k, <2>1, AtCall DEF OpenOK, CallOK, DropOK, Derived, ValidPair, Rest
  <2>3. \A e \in deps : e.producer \notin {p} => ~Derived(e.producer)
    BY <2>2 DEF Rest, PairReattaches
  <2>4. Derived(n) /\ \A e \in deps : e.producer \in {p} => e.consumer = n
    BY <2>2, EdgeIs DEF DepsOK, Derived, ValidPair
  <2> QED BY <2>1, <2>2, <2>3, <2>4, Unread
<1>5. CASE n = call.p /\ DropHalf("producer", call.p, "edge")
  <2>1. /\ TearDown(n) /\ mode = "open" /\ UNCHANGED committed /\ At("drop", "producer")
    BY <1>5, AtCall DEF DropHalf, Outside
  <2>2. Rest({n}) /\ Edge(n, c) \in deps /\ c \notin Installed
    BY <1>5, <1>k, <2>1, AtCall DEF OpenOK, CallOK, DropOK, Rest
  <2>3. \A e \in deps : e.producer \in {n} => e.consumer \notin Installed
    BY <2>2, EdgeIs DEF DepsOK
  <2> QED BY <2>1, <2>2, <2>3, Unread
<1> QED BY <1>1, <1>2, <1>3, <1>4, <1>5 DEF Removes

\* What a step may do to the catalog.
LEMMA CatalogSteps ==
  ASSUME ShapeOK, [Next]_vars
  PROVE  \/ UNCHANGED catalog
         \/ /\ catalog' = AfterCommit /\ committed' = base /\ mode = "open" /\ mode' = "open"
            /\ call = NoCall /\ UNCHANGED <<deps, slots>>
            /\ \A n \in Settling : catalog[n].frontier < MaxFrontier
         \/ /\ mode = "open" /\ mode' = "open" /\ UNCHANGED committed
            /\ \E n \in Names : \E q \in Queries : AddProgram(n, q) /\ Installable(n, q)
         \/ /\ mode' = "open" /\ \E n \in Names : Removes(n)
<1>1. CASE UserStep \/ Crash \/ Load \/ UNCHANGED vars
  BY <1>1 DEF UserStep, Write, WriteWithout, Commit, Ready, Rollback, Crash, Load, vars, schema
<1>2. CASE \E n \in Names : \E q \in Queries : Install(n, q)
  BY <1>2 DEF Install, Outside, Idle, Ready
<1>3. CASE \E refused \in BOOLEAN : InstallProducer(refused) \/ InstallConsumer(refused)
  BY <1>3, AtCall DEF InstallProducer, InstallConsumer, Outside
<1>4. CASE \/ Register \/ Record \/ RegisterAgain \/ DropEdge
           \/ DropCollector("close", "register") \/ DropCollector("unwatch", "consumer")
           \/ \E p, c \in Names : DropPair(p, c) \/ \E pq, cq \in Queries : Compose(p, pq, c, cq)
  BY <1>4 DEF Register, Record, RegisterAgain, DropEdge, DropCollector, DropPair, Compose, schema
<1>5. CASE \E n \in Names : Drop(n)
  BY <1>5 DEF Removes, Drop, Outside, Idle, Ready
<1>6. CASE UndoConsumer \/ DropHalf("consumer", call.c, "producer")
  <2>1. call.c \in Names /\ mode' = "open" /\ Removes(call.c)
    BY <1>6, AtCall DEF UndoConsumer, DropHalf, Outside, Removes
  <2> QED BY <2>1
<1>7. CASE UndoProducer \/ DropHalf("producer", call.p, "edge")
  <2>1. call.p \in Names /\ mode' = "open" /\ Removes(call.p)
    BY <1>7, AtCall DEF UndoProducer, DropHalf, Outside, Removes
  <2> QED BY <2>1
<1> QED BY <1>1, <1>2, <1>3, <1>4, <1>5, <1>6, <1>7 DEF Next, CallStep

\* A database that loads has views over base tables and over those.
LEMMA LoadedViews ==
  ASSUME DepsOK, Rest({})
  PROVE  ViewsOK
<1> SUFFICES ASSUME NEW n \in Installed, Derived(n)
             PROVE  catalog[n].query.views \subseteq Installed \ {n}
  BY DEF ViewsOK, Derived
<1>1. PICK e \in deps : PairReattaches(e.producer, n)
  BY Readers
<1> QED BY <1>1 DEF PairReattaches, ValidPair, Derived

LEMMA ViewsStep ==
  ASSUME ShapeOK, DepsOK, OpenOK, ~DropsHalves, [Next]_vars, mode' = "open"
  PROVE  ViewsOK'
<1>1. CASE mode # "open"
  <2>1. Load
    BY <1>1 DEF Next, UserStep, CallStep, Write, WriteWithout, Commit, Rollback, Drop, Install,
                DropPair, Compose, InstallProducer, InstallConsumer, Register, Record,
                UndoConsumer, UndoProducer, DropCollector, RegisterAgain, DropHalf, DropEdge,
                Crash, At, Ready, Idle, vars
  <2>2. ViewsOK /\ UNCHANGED catalog
    BY <2>1, LoadsIsRest, LoadedViews DEF Load, schema
  <2> QED BY <2>2 DEF ViewsOK, Installed
<1>2. CASE mode = "open"
  <2>1. ViewsOK
    BY <1>2 DEF OpenOK
  <2>2. CASE UNCHANGED catalog
    BY <2>1, <2>2 DEF ViewsOK, Installed
  <2>3. CASE catalog' = AfterCommit
    BY <2>1, <2>3, CommitKeeps DEF ViewsOK
  <2>4. ASSUME NEW n \in Names, NEW q \in Queries, AddProgram(n, q), Installable(n, q)
        PROVE  ViewsOK'
    BY <2>1, <2>4, AddIs DEF ViewsOK
  <2>5. ASSUME NEW n \in Names, Removes(n) PROVE ViewsOK'
    <3>1. /\ Installed' = Installed \ {n} /\ \A m \in Installed : m # n => catalog'[m] = catalog[m]
          /\ \A m \in Installed : m # n => n \notin catalog[m].query.views
      BY <2>5, RemovesUnread, TearDownIs
    <3> QED BY <2>1, <3>1 DEF ViewsOK
  <2> QED BY <2>2, <2>3, <2>4, <2>5, CatalogSteps
<1> QED BY <1>1, <1>2
-----------------------------------------------------------------------------
(* Staged rows.                                                            *)

\* A trigger stages what the write changes.
LEMMA WriteStages ==
  ASSUME ShapeOK, StagedOK, NEW t \in Tables, NEW v \in Vals, Write(t, v)
  PROVE  StagedOK'
<1>1. PICK sign \in {-1, 1} :
        /\ Collect(t, v, sign)
        /\ \/ sign = -1 /\ v \in base[t] /\ base' = [base EXCEPT ![t] = @ \ {v}]
           \/ sign = 1 /\ v \notin base[t] /\ base' = [base EXCEPT ![t] = @ \cup {v}]
  BY DEF Write
<1>2. /\ base \in [Tables -> SUBSET Vals] /\ staged \in Copies /\ t \in Sources
      /\ UNCHANGED <<committed, slots>>
  BY SourceShape DEF ShapeOK, Write, schema
<1>3. \A x : x # t /\ x \in Tables => base'[x] = base[x]
  BY <1>1, <1>2
<1>4. \A x \in Tables : Watching(x)' <=> Watching(x)
  BY <1>2 DEF Watching
<1>5. CASE Watching(t)
  <2>1. staged' = [staged EXCEPT ![t][v] = @ + sign] /\ touched' = touched \cup {t}
    BY <1>1, <1>5 DEF Collect, Watching
  <2>2. \A x \in Sources : x # t => staged'[x] = staged[x]
    BY <1>2, <2>1 DEF Copies
  <2>3. staged'[t] = Change(committed[t], base'[t])
    <3>1. staged[t] = Change(committed[t], base[t])
      BY <1>5 DEF StagedOK
    <3>2. staged'[t] = [staged[t] EXCEPT ![v] = @ + sign]
      BY <1>2, <2>1 DEF Copies
    <3>3. \A w \in Vals : w # v => (w \in base'[t] <=> w \in base[t])
      BY <1>1, <1>2
    <3>4. /\ sign = -1 => v \in base[t] /\ v \notin base'[t]
          /\ sign = 1 => v \notin base[t] /\ v \in base'[t]
      BY <1>1, <1>2
    <3> QED BY <3>1, <3>2, <3>3, <3>4 DEF Change
  <2>4. \A n \in Names : n \in Sources /\ n # t
    BY SourceShape
  <2>5. \A x \in Tables : x \in Sources
    BY SourceShape
  <2> QED BY <1>2, <1>3, <1>4, <1>5, <2>1, <2>2, <2>3, <2>4, <2>5 DEF StagedOK
<1>6. CASE ~Watching(t)
  <2>1. UNCHANGED <<staged, touched>>
    BY <1>1, <1>6 DEF Collect, Watching
  <2> QED BY <1>2, <1>3, <1>4, <1>6, <2>1 DEF StagedOK
<1> QED BY <1>5, <1>6

\* A transaction is written to, ends, or nothing happens to it; all else happens
\* while none is open.
LEMMA TransactionSteps ==
  ASSUME ShapeOK, QuietOK, [Next]_vars
  PROVE  \/ \E t \in Tables, v \in Vals : Write(t, v)
         \/ Clean /\ base' = committed'
         \/ /\ \E t \in Tables, v \in Vals : WriteWithout(t, v)
            /\ mode # "open" /\ base' = committed' /\ UNCHANGED <<staged, touched, writes>>
         \/ /\ UNCHANGED <<base, committed, staged, touched, writes>>
            /\ mode # "open" \/ call # NoCall \/ writes = 0
         \/ UNCHANGED vars
<1>1. CASE UserStep \/ Crash
  BY <1>1 DEF UserStep, Write, WriteWithout, Commit, Rollback, Crash, txn
<1>2. CASE Load
  BY <1>2 DEF Load, txn
<1>3. CASE CallStep
  <2>1. CASE \/ \E n \in Names : Drop(n) \/ \E q \in Queries : Install(n, q)
             \/ \E p, c \in Names : DropPair(p, c) \/ \E pq, cq \in Queries : Compose(p, pq, c, cq)
    BY <2>1 DEF Drop, Install, DropPair, Compose, Idle, Outside, txn
  <2>2. CASE \/ \E refused \in BOOLEAN : InstallProducer(refused) \/ InstallConsumer(refused)
             \/ Register \/ Record \/ UndoConsumer \/ UndoProducer
             \/ DropCollector("close", "register") \/ RegisterAgain
             \/ DropCollector("unwatch", "consumer")
             \/ DropHalf("consumer", call.c, "producer") \/ DropHalf("producer", call.p, "edge")
             \/ DropEdge
    BY <2>2, AtCall DEF InstallProducer, InstallConsumer, Register, Record, UndoConsumer,
       UndoProducer, DropCollector, RegisterAgain, DropHalf, DropEdge, Outside, txn
  <2> QED BY <1>3, <2>1, <2>2 DEF CallStep
<1> QED BY <1>1, <1>2, <1>3 DEF Next

LEMMA StagedStep ==
  ASSUME ShapeOK, StagedOK, QuietOK, [Next]_vars
  PROVE  StagedOK' /\ QuietOK'
<1>a. ASSUME base' = committed', staged' = Zero \/ UNCHANGED staged, touched' = {},
             touched = {} \/ staged' = Zero
      PROVE  StagedOK'
  <2>1. \A s \in Sources : touched = {} => staged[s] = Zero[s]
    BY SourceShape DEF StagedOK
  <2>2. \A s \in Sources : staged'[s] = Zero[s]
    BY <1>a, <2>1
  <2>3. committed' \in [Tables -> SUBSET Vals]
    BY ShapeStep DEF ShapeOK
  <2>4. \A t \in Tables : Change(committed'[t], base'[t]) = Zero[t]
    BY <1>a, ZeroIsCopies, SourceShape
  <2> QED BY <1>a, <2>2, <2>4, SourceShape DEF StagedOK
<1>1. CASE \E t \in Tables, v \in Vals : Write(t, v)
  <2>1. StagedOK'
    BY <1>1, WriteStages
  <2>2. writes' \in Nat /\ writes' # 0 /\ mode' = "open" /\ call' = NoCall
    BY <1>1 DEF Write, Ready, QuietOK
  <2> QED BY <2>1, <2>2 DEF QuietOK
<1>2. CASE Clean /\ base' = committed'
  BY <1>a, <1>2 DEF Clean, QuietOK
<1>3. CASE mode # "open" /\ base' = committed' /\ UNCHANGED <<staged, touched, writes>>
  BY <1>a, <1>3 DEF QuietOK
<1>4. CASE /\ UNCHANGED <<base, committed, staged, touched, writes>>
           /\ mode # "open" \/ call # NoCall \/ writes = 0
  <2>1. base = committed /\ touched = {} /\ writes \in Nat
    BY <1>4 DEF QuietOK
  <2> QED BY <1>a, <1>4, <2>1 DEF QuietOK
<1>5. CASE UNCHANGED vars
  BY <1>5 DEF vars, schema, txn, StagedOK, QuietOK, Watching
<1> QED BY <1>1, <1>2, <1>3, <1>4, <1>5, TransactionSteps
-----------------------------------------------------------------------------
(* Views that are exact.                                                   *)

\* A view is exact when it holds each source's rows.
LEMMA ExactIs ==
  ASSUME ShapeOK, NEW n \in Installed
  PROVE  Exact(n) <=> \A s \in Sources :
           catalog[n].held[s] = IF s \in From(catalog[n].query) THEN Once(Rows(s)) ELSE Zero[s]
<1>1. catalog[n].held \in Copies
  BY DEF ShapeOK, CatalogShape, EntryOK
<1>2. catalog[n].held = [s \in Sources |-> catalog[n].held[s]]
  BY <1>1 DEF Copies
<1> QED BY <1>2 DEF Exact, Bootstrap

LEMMA ExactNext ==
  ASSUME ShapeOK, [Next]_vars, NEW n \in Installed',
         \A s \in Sources : catalog'[n].held[s] = IF s \in From(catalog'[n].query)
                                                  THEN Once(Rows(s)') ELSE Zero[s]
  PROVE  Exact(n)'
<1>1. catalog'[n].held \in Copies
  BY ShapeStep DEF ShapeOK, CatalogShape, EntryOK
<1>2. catalog'[n].held = [s \in Sources |-> catalog'[n].held[s]]
  BY <1>1 DEF Copies
<1> QED BY <1>2 DEF Exact, Bootstrap, Zero, Once, From

\* A row that is unchanged leaves its program exact while its sources are unchanged.
LEMMA ExactStays ==
  ASSUME ShapeOK, NEW n \in Installed, Exact(n), catalog'[n] = catalog[n],
         \A t \in catalog[n].query.tables : committed'[t] = committed[t],
         \A p \in catalog[n].query.views : catalog'[p] = catalog[p]
  PROVE  Exact(n)'
<1>1. /\ catalog[n].query.tables \subseteq Tables /\ catalog[n].query.views \subseteq Names
      /\ Tables \cap Names = {}
  BY SourceShape DEF ShapeOK, CatalogShape, EntryOK
<1>2. \A s \in From(catalog[n].query) : Rows(s)' = Rows(s)
  BY <1>1 DEF From, Rows, View
<1>3. Bootstrap(catalog[n].query)' = Bootstrap(catalog[n].query)
  BY <1>2 DEF Bootstrap
<1> QED BY <1>3 DEF Exact

\* Adding what changed to what was there.
LEMMA Adds ==
  /\ \A S, T : Plus(Once(S), Change(S, T)) = Once(T)
  /\ \A w \in Weights : Plus(w, [v \in Vals |-> 0]) = w
BY DEF Plus, Once, Change, Weights

\* A table a collector watches: its rows and the staged ones are its rows afterwards.
LEMMA WatchedAdds ==
  ASSUME ShapeOK, StagedOK, committed' = base, NEW t \in Tables, Watching(t)
  PROVE  Plus(Once(committed[t]), staged[t]) = Once(committed'[t])
BY Adds DEF StagedOK

\* What a program whose tables are watched holds of its sources but X after a commit.
LEMMA BatchAdds ==
  ASSUME ShapeOK, StagedOK, committed' = base, NEW n \in Installed, Exact(n),
         \A t \in catalog[n].query.tables : Watching(t),
         NEW s \in Sources, s \notin catalog[n].query.views
  PROVE  Plus(catalog[n].held[s], Batch(catalog[n].query)[s]) =
           IF s \in catalog[n].query.tables THEN Once(committed'[s]) ELSE Zero[s]
<1>1. /\ catalog[n].query.tables \subseteq Tables /\ Tables \cap Names = {}
  BY SourceShape DEF ShapeOK, CatalogShape, EntryOK
<1>2. CASE s \in catalog[n].query.tables
  <2>1. catalog[n].held[s] = Once(committed[s]) /\ Batch(catalog[n].query)[s] = staged[s]
    BY <1>1, <1>2, ExactIs DEF From, Rows, Batch
  <2> QED BY <1>1, <1>2, <2>1, WatchedAdds
<1>3. CASE s \notin catalog[n].query.tables
  <2>1. catalog[n].held[s] = Zero[s] /\ Batch(catalog[n].query)[s] = Zero[s]
    BY <1>3, ExactIs DEF From, Batch
  <2>2. Zero[s] = [v \in Vals |-> 0] /\ Zero[s] \in Weights
    BY ZeroIsCopies DEF Copies
  <2> QED BY <1>3, <2>1, <2>2, Adds
<1> QED BY <1>2, <1>3

\* Without rows of its own a program has nothing to add.
LEMMA UntouchedBatch ==
  ASSUME ShapeOK, StagedOK, NEW n \in Installed, ~Touched(n), NEW s \in Sources
  PROVE  Batch(catalog[n].query)[s] = Zero[s] /\ Plus(catalog[n].held[s], Zero[s]) = catalog[n].held[s]
<1>1. catalog[n].query.tables \subseteq Tables /\ catalog[n].held[s] \in Weights
  BY SourceShape DEF ShapeOK, CatalogShape, EntryOK, Copies
<1>2. Batch(catalog[n].query)[s] = Zero[s]
  BY <1>1 DEF Batch, StagedOK, Touched
<1>3. Zero[s] = [v \in Vals |-> 0]
  BY ZeroIsCopies
<1> QED BY <1>1, <1>2, <1>3, Adds

\* The collector that serves a program, and how its commit finds it.
LEMMA ServedBase ==
  ASSUME ShapeOK, DepsOK, SlotsOK, OpenOK, Ready, NEW n \in Installed, ~Derived(n)
  PROVE  /\ \A t \in catalog[n].query.tables : Watching(t)
         /\ SettlesFirst(n) <=> Touched(n)
         /\ \A p : ~SettlesAfter(p, n)
<1>1. Rest({}) /\ BoundOK /\ mode = "open" /\ ~At("compose", "record") /\ n \in Names
  BY NoCallIs DEF OpenOK, CallOK, Ready, At, ShapeOK, CatalogShape
<1>2. HasCollector(n)
  <2>1. CASE n \in Paired
    <3>1. PICK e \in deps : e.producer = n \/ e.consumer = n
      BY <2>1 DEF Paired
    <3>2. PairReattaches(e.producer, e.consumer)
      BY <1>1 DEF Rest
    <3>3. e.consumer # n
      BY <3>2 DEF PairReattaches, ValidPair, Derived
    <3> QED BY <3>1, <3>2, <3>3 DEF PairReattaches
  <2>2. CASE n \notin Paired
    BY <1>1, <2>2 DEF Rest, Reattaches
  <2> QED BY <2>1, <2>2
<1>3. PICK k \in DOMAIN slots : k = CollectorOf(n)
  BY <1>2 DEF HasCollector
<1>4. k[1] = n /\ catalog[n].query.tables \subseteq slots[k] /\ k \in DOMAIN bound
  BY <1>1, <1>3 DEF SlotsOK, CollectorOf, BoundOK
<1>5. bound[k][1] = n
  BY <1>1, <1>4 DEF BoundOK
<1>6. SettlesFirst(n) <=> Touched(n)
  BY <1>4, <1>5 DEF SettlesFirst, Touched, Calling
<1>7. ASSUME NEW p, SettlesAfter(p, n) PROVE FALSE
  <2>1. PICK l \in Calling : bound[l] = <<p, n>>
    BY <1>7 DEF SettlesAfter
  <2>2. l \in DOMAIN slots /\ BoundAt(l)
    BY <1>1, <2>1, BoundsAre DEF Calling
  <2>3. PICK c \in Names : Partner(l[1], c) /\ <<p, n>> = <<l[1], c>>
    BY <2>1, <2>2 DEF BoundAt
  <2>4. Edge(p, n) \in deps
    BY <1>1, <2>3 DEF Partner
  <2>5. PairReattaches(p, n)
    BY <1>1, <2>4, EdgeIs DEF Rest
  <2> QED BY <2>5 DEF PairReattaches, ValidPair, Derived
<1> QED BY <1>4, <1>6, <1>7 DEF Watching

LEMMA ServedPair ==
  ASSUME ShapeOK, DepsOK, SlotsOK, OpenOK, Ready, NEW n \in Installed, Derived(n)
  PROVE  \E p \in Installed :
           /\ catalog[n].query.views = {p} /\ ~Derived(p) /\ Edge(p, n) \in deps
           /\ \A t \in catalog[n].query.tables : Watching(t)
           /\ SettlesAfter(p, n) <=> Touched(p) \/ Touched(n)
           /\ \A q : SettlesAfter(q, n) => q = p
<1>1. Rest({}) /\ BoundOK /\ mode = "open" /\ ~At("compose", "record") /\ n \in Names
  BY NoCallIs DEF OpenOK, CallOK, Ready, At, ShapeOK, CatalogShape
<1>2. PICK e \in deps : e.consumer = n /\ PairReattaches(e.producer, n)
  BY <1>1, Readers
<1>3. PICK p : p = e.producer
  OBVIOUS
<1>4. /\ p \in Installed /\ catalog[n].query.views = {p} /\ ~Derived(p) /\ Edge(p, n) \in deps
      /\ HasCollector(p)
  BY <1>2, <1>3, EdgeIs DEF PairReattaches, ValidPair
<1>5. PICK k \in DOMAIN slots : k = CollectorOf(p)
  BY <1>4 DEF HasCollector
<1>6. k[1] = p /\ Partner(p, n)
  BY <1>4, <1>5 DEF CollectorOf, Partner
<1>7. /\ catalog[p].query.tables \subseteq slots[k] /\ catalog[n].query.tables \subseteq slots[k]
      /\ k \in DOMAIN bound /\ BoundAt(k)
  BY <1>1, <1>6, BoundsAre DEF SlotsOK, BoundOK
<1>8. bound[k] = <<p, n>>
  <2>1. PICK c \in Names : Partner(p, c) /\ bound[k] = <<p, c>>
    BY <1>1, <1>6, <1>7 DEF BoundAt
  <2>2. Edge(p, c) \in deps
    BY <1>1, <2>1 DEF Partner
  <2>3. Edge(p, c) = Edge(p, n)
    BY <1>4, <2>2, EdgeIs DEF DepsOK
  <2> QED BY <2>1, <2>3, EdgeIs
<1>9. SettlesFirst(p) <=> Touched(p)
  BY <1>4, ServedBase
<1>10. SettlesAfter(p, n) <=> Touched(p) \/ Touched(n)
  <2>1. Touched(p) \/ Touched(n) => k \in Calling
    BY <1>7 DEF Touched, Calling
  <2> QED BY <1>8, <1>9, <2>1 DEF SettlesAfter
<1>11. ASSUME NEW q, SettlesAfter(q, n) PROVE q = p
  <2>1. PICK l \in Calling : bound[l] = <<q, n>>
    BY <1>11 DEF SettlesAfter
  <2>2. l \in DOMAIN slots /\ BoundAt(l)
    BY <1>1, <2>1, BoundsAre DEF Calling
  <2>3. PICK c \in Names : Partner(l[1], c) /\ <<q, n>> = <<l[1], c>>
    BY <2>1, <2>2 DEF BoundAt
  <2>4. Edge(q, n) \in deps
    BY <1>1, <2>3 DEF Partner
  <2>5. Edge(q, n) = Edge(p, n)
    BY <1>4, <2>4, EdgeIs DEF DepsOK
  <2> QED BY <2>5, EdgeIs
<1> QED BY <1>4, <1>7, <1>10, <1>11 DEF Watching

\* COMMIT brings every program over base tables to its rows.
LEMMA CommitBase ==
  ASSUME ShapeOK, DepsOK, SlotsOK, OpenOK, StagedOK, Ready, [Next]_vars,
         committed' = base, catalog' = AfterCommit, NEW n \in Installed, Exact(n), ~Derived(n)
  PROVE  Exact(n)' /\ catalog'[n] = First(n)
<1>1. /\ \A t \in catalog[n].query.tables : Watching(t)
      /\ SettlesFirst(n) <=> Touched(n)
      /\ \A p : ~SettlesAfter(p, n)
  BY ServedBase
<1>2. catalog'[n] = First(n) /\ n \in Installed' /\ catalog'[n].query = catalog[n].query
  BY <1>1, CommitKeeps DEF AfterCommit
<1>3. Batch(catalog[n].query) \in Copies /\ EntryOK(catalog[n])
  BY ZeroIsCopies DEF ShapeOK, CatalogShape, Batch, Copies
<1>4. ASSUME NEW s \in Sources
      PROVE  First(n).held[s] = Plus(catalog[n].held[s], Batch(catalog[n].query)[s])
  <2>1. CASE Touched(n)
    <3>1. PICK x, d : x = catalog[n] /\ d = Batch(catalog[n].query)
      OBVIOUS
    <3>2. First(n) = Settled(x, d)
      BY <1>1, <2>1, <3>1 DEF First
    <3>3. Settled(x, d).held = [r \in Sources |-> Plus(x.held[r], d[r])]
      BY <1>3, <3>1, SettledShape
    <3> QED BY <3>1, <3>2, <3>3
  <2>2. CASE ~Touched(n)
    BY <1>1, <2>2, UntouchedBatch DEF First
  <2> QED BY <2>1, <2>2
<1>5. catalog[n].query.views = {} /\ catalog[n].query.tables \subseteq Tables
  BY SourceShape DEF Derived, ShapeOK, CatalogShape, EntryOK
<1>6. ASSUME NEW s \in Sources
      PROVE  catalog'[n].held[s] = IF s \in From(catalog'[n].query) THEN Once(Rows(s)') ELSE Zero[s]
  <2>1. catalog'[n].held[s] = IF s \in catalog[n].query.tables THEN Once(committed'[s]) ELSE Zero[s]
    BY <1>1, <1>2, <1>4, <1>5, BatchAdds
  <2> QED BY <1>2, <1>5, <2>1 DEF From, Rows
<1> QED BY <1>2, <1>6, ExactNext

\* And the consumer of a pair to its rows and its producer's view.
LEMMA CommitPair ==
  ASSUME ShapeOK, DepsOK, SlotsOK, OpenOK, StagedOK, Ready, [Next]_vars,
         committed' = base, catalog' = AfterCommit, \A n \in Installed : Exact(n),
         NEW n \in Installed, Derived(n)
  PROVE  Exact(n)'
<1>1. PICK p \in Installed :
        /\ catalog[n].query.views = {p} /\ ~Derived(p) /\ Edge(p, n) \in deps
        /\ \A t \in catalog[n].query.tables : Watching(t)
        /\ SettlesAfter(p, n) <=> Touched(p) \/ Touched(n)
        /\ \A q : SettlesAfter(q, n) => q = p
  BY ServedPair
<1>2. catalog'[p] = First(p) /\ (SettlesFirst(p) <=> Touched(p)) /\ p \in Names /\ p \in Sources
  BY <1>1, CommitBase, ServedBase, SourceShape DEF ShapeOK, CatalogShape
<1>3. /\ catalog[n].query.tables \subseteq Tables /\ p \notin Tables
      /\ Batch(catalog[n].query) \in Copies /\ EntryOK(catalog[n])
  BY <1>2, ZeroIsCopies, SourceShape DEF ShapeOK, CatalogShape, EntryOK, Batch, Copies
<1>4. n \in Installed' /\ catalog'[n].query = catalog[n].query
  BY CommitKeeps
<1>5. ASSUME NEW s \in Sources, s # p,
             catalog'[n].held[s] = Plus(catalog[n].held[s], Batch(catalog[n].query)[s])
      PROVE  catalog'[n].held[s] = IF s \in From(catalog'[n].query) THEN Once(Rows(s)') ELSE Zero[s]
  <2>1. catalog'[n].held[s] = IF s \in catalog[n].query.tables THEN Once(committed'[s]) ELSE Zero[s]
    BY <1>1, <1>5, BatchAdds
  <2> QED BY <1>1, <1>3, <1>4, <1>5, <2>1 DEF From, Rows
<1>6. catalog[n].held[p] = Once(View(p))
  BY <1>1, <1>2, <1>3, ExactIs DEF From, Rows
<1>7. Rows(p)' = Output(First(p).query, First(p).held)
  BY <1>2, <1>3 DEF Rows, View
<1>8. p \in From(catalog'[n].query)
  BY <1>1, <1>4 DEF From
<1>9. CASE Touched(p) \/ Touched(n)
  <2>1. catalog'[n] = After(p, n)
    <3>1. SettlesAfter(p, n) /\ p \in Names
      BY <1>1, <1>2, <1>9
    <3>2. (CHOOSE q \in Names : SettlesAfter(q, n)) = p
      BY <1>1, <3>1
    <3> QED BY <3>1, <3>2 DEF AfterCommit
  <2>2. PICK d : d = [Batch(catalog[n].query) EXCEPT ![p] = ViewDelta(p)]
    OBVIOUS
  <2>3. d \in Copies /\ d[p] = ViewDelta(p)
        /\ \A s \in Sources : s # p => d[s] = Batch(catalog[n].query)[s]
    <3>1. ViewDelta(p) \in Weights
      BY ZeroIsCopies DEF ViewDelta
    <3> QED BY <1>2, <1>3, <2>2, <3>1 DEF Copies
  <2>4. \A s \in Sources : catalog'[n].held[s] = Plus(catalog[n].held[s], d[s])
    <3>1. PICK x : x = catalog[n]
      OBVIOUS
    <3>2. catalog'[n] = Settled(x, d)
      BY <2>1, <2>2, <3>1 DEF After
    <3>3. Settled(x, d).held = [s \in Sources |-> Plus(x.held[s], d[s])]
      BY <1>3, <2>3, <3>1, SettledShape
    <3> QED BY <3>1, <3>2, <3>3
  <2>5. catalog'[n].held[p] = Once(Output(First(p).query, First(p).held))
    BY <1>2, <1>6, <2>3, <2>4, Adds DEF ViewDelta
  <2>6. ASSUME NEW s \in Sources
        PROVE  catalog'[n].held[s] = IF s \in From(catalog'[n].query) THEN Once(Rows(s)') ELSE Zero[s]
    <3>1. CASE s = p
      BY <1>7, <1>8, <2>5, <3>1
    <3>2. CASE s # p
      BY <1>5, <2>3, <2>4, <3>2
    <3> QED BY <3>1, <3>2
  <2> QED BY <1>4, <2>6, ExactNext
<1>10. CASE ~Touched(p) /\ ~Touched(n)
  <2>1. \A q : ~SettlesAfter(q, n)
    BY <1>1, <1>10
  <2>2. catalog'[n] = catalog[n] /\ First(p) = catalog[p]
    BY <1>2, <1>10, <2>1 DEF AfterCommit, First, SettlesFirst
  <2>3. ASSUME NEW s \in Sources
        PROVE  catalog'[n].held[s] = IF s \in From(catalog'[n].query) THEN Once(Rows(s)') ELSE Zero[s]
    <3>1. CASE s = p
      BY <1>6, <1>7, <1>8, <2>2, <3>1 DEF View
    <3>2. CASE s # p
      <4>1. catalog'[n].held[s] = Plus(catalog[n].held[s], Batch(catalog[n].query)[s])
        BY <1>10, <2>2, UntouchedBatch
      <4> QED BY <1>5, <3>2, <4>1
    <3> QED BY <3>1, <3>2
  <2> QED BY <1>4, <2>3, ExactNext
<1> QED BY <1>9, <1>10

\* A database that loads has a collector on every table its programs read.
LEMMA LoadedTablesAreWatched ==
  ASSUME DepsOK, SlotsOK, Rest({}), NEW n \in Installed, NEW t \in catalog[n].query.tables
  PROVE  Watching(t)
<1>1. CASE n \notin Paired
  <2>1. CollectorOf(n) \in DOMAIN slots
    BY <1>1 DEF Rest, Reattaches, HasCollector
  <2>2. PICK k \in DOMAIN slots : k = CollectorOf(n)
    BY <2>1
  <2>3. k[1] = n
    BY <2>2 DEF CollectorOf
  <2> QED BY <2>2, <2>3 DEF SlotsOK, Watching
<1>2. ASSUME NEW e \in deps, n = e.producer \/ n = e.consumer PROVE Watching(t)
  <2>1. HasCollector(e.producer) /\ Edge(e.producer, e.consumer) \in deps
    BY EdgeIs DEF Rest, PairReattaches
  <2>2. PICK k \in DOMAIN slots : k = CollectorOf(e.producer)
    BY <2>1 DEF HasCollector
  <2>3. k[1] = e.producer
    BY <2>2 DEF CollectorOf
  <2>4. Partner(k[1], e.consumer)
    BY <2>1, <2>3 DEF Partner
  <2>5. catalog[n].query.tables \subseteq slots[k]
    BY <1>2, <2>2, <2>3, <2>4 DEF SlotsOK
  <2> QED BY <2>2, <2>5 DEF Watching
<1> QED BY <1>1, <1>2 DEF Paired

\* Views stay current: a commit settles them, nothing else touches what they hold or
\* read, and a table they read cannot be written without the extension.
LEMMA ExactStep ==
  ASSUME ShapeOK, DepsOK, SlotsOK, StagedOK, QuietOK, OpenOK, ExactOK, ~DropsHalves, [Next]_vars
  PROVE  ExactOK'
<1>a. ASSUME UNCHANGED <<catalog, committed>>, \A n \in Installed : Exact(n)
      PROVE  \A n \in Installed' : Exact(n)'
  BY <1>a, ExactStays DEF Installed
<1>b. UNCHANGED schema => (Loads' <=> Loads)
  BY DEF Loads, PairReattaches, Reattaches, Paired, Installed, Derived, ValidPair, HasCollector,
         CollectorOf, schema
<1>1. CASE mode # "open"
  <2>1. \/ Load \/ UNCHANGED vars
        \/ \E t \in Tables, v \in Vals : WriteWithout(t, v)
    BY <1>1 DEF Next, UserStep, CallStep, Write, WriteWithout, Commit, Rollback, Drop, Install,
                DropPair, Compose, InstallProducer, InstallConsumer, Register, Record,
                UndoConsumer, UndoProducer, DropCollector, RegisterAgain, DropHalf, DropEdge,
                Crash, At, Ready, Idle
  <2>2. CASE Load \/ UNCHANGED vars
    <3>1. UNCHANGED <<catalog, committed, schema>> /\ (mode' = "open" => Loads)
      BY <1>1, <2>2 DEF Load, vars, schema
    <3> QED BY <1>a, <1>b, <3>1 DEF ExactOK
  <2>3. ASSUME NEW t \in Tables, NEW v \in Vals, WriteWithout(t, v)
        PROVE  ExactOK'
    <3>1. /\ UNCHANGED <<catalog, deps, slots, mode>> /\ UNCHANGED schema /\ ~Watching(t)
          /\ base' = [base EXCEPT ![t] = IF v \in @ THEN @ \ {v} ELSE @ \cup {v}]
          /\ committed' = base'
      BY <2>3 DEF WriteWithout, schema, Watching
    <3> SUFFICES ASSUME Loads, NEW n \in Installed PROVE Exact(n)'
      BY <1>1, <1>b, <3>1 DEF ExactOK, Installed
    <3>2. Rest({}) /\ Exact(n)
      BY <1>1, LoadsIsRest DEF ExactOK
    <3>3. t \notin catalog[n].query.tables
      BY <3>1, <3>2, LoadedTablesAreWatched
    <3>4. catalog[n].query.tables \subseteq Tables /\ base = committed
      BY <1>1, SourceShape DEF ShapeOK, CatalogShape, EntryOK, QuietOK
    <3>5. \A s \in catalog[n].query.tables : committed'[s] = committed[s]
      BY <3>1, <3>3, <3>4 DEF ShapeOK
    <3> QED BY <3>1, <3>2, <3>5, ExactStays
  <2> QED BY <2>1, <2>2, <2>3
<1>2. CASE mode = "open"
  <2>1. \A n \in Installed : Exact(n)
    BY <1>2 DEF ExactOK
  <2> SUFFICES \A n \in Installed' : Exact(n)'
    BY DEF ExactOK
  <2>2. CASE UNCHANGED <<catalog, committed>>
    BY <1>a, <2>1, <2>2
  <2>3. CASE catalog' = AfterCommit /\ committed' = base /\ call = NoCall
    BY <1>2, <2>1, <2>3, CommitBase, CommitPair, CommitKeeps DEF Ready
  <2>4. ASSUME NEW n \in Names, NEW q \in Queries, AddProgram(n, q), Installable(n, q),
               UNCHANGED committed
        PROVE  \A m \in Installed' : Exact(m)'
    <3>1. /\ n \notin Installed /\ q.views \subseteq Installed /\ Installed' = Installed \cup {n}
          /\ catalog'[n].query = q /\ catalog'[n].held = Bootstrap(q)
          /\ \A m \in Installed : catalog'[m] = catalog[m]
      BY <2>4, AddIs
    <3>2. \A m \in Installed : catalog[m].query.views \subseteq Installed
      BY <1>2 DEF OpenOK, ViewsOK
    <3>3. \A m \in Installed : Exact(m)'
      BY <2>1, <2>4, <3>1, <3>2, ExactStays
    <3>4. \A s \in From(q) : Rows(s)' = Rows(s)
      BY <2>4, <3>1, SourceShape DEF From, Rows, View
    <3>5. Bootstrap(q)' = Bootstrap(q)
      BY <3>4 DEF Bootstrap
    <3>6. Exact(n)'
      BY <3>1, <3>5 DEF Exact
    <3> QED BY <3>1, <3>3, <3>6
  <2>5. ASSUME NEW n \in Names, Removes(n) PROVE \A m \in Installed' : Exact(m)'
    <3>1. /\ Installed' = Installed \ {n} /\ UNCHANGED committed
          /\ \A m \in Installed : m # n => catalog'[m] = catalog[m]
          /\ \A m \in Installed : m # n => n \notin catalog[m].query.views
      BY <2>5, RemovesUnread, TearDownIs
    <3>2. \A m \in Installed : catalog[m].query.views \subseteq Installed
      BY <1>2 DEF OpenOK, ViewsOK
    <3> SUFFICES ASSUME NEW m \in Installed' PROVE Exact(m)'
      OBVIOUS
    <3>3. m \in Installed /\ m # n /\ catalog'[m] = catalog[m]
      BY <3>1
    <3>4. \A p \in catalog[m].query.views : catalog'[p] = catalog[p]
      BY <3>1, <3>2, <3>3
    <3> QED BY <2>1, <3>1, <3>3, <3>4, ExactStays
  <2>6. UNCHANGED catalog => UNCHANGED committed \/ (catalog' = AfterCommit /\ committed' = base
                                                     /\ call = NoCall)
    BY <1>2
    DEF Next, UserStep, CallStep, Write, WriteWithout, Commit, Rollback, Drop, Install, DropPair,
        Compose, InstallProducer, InstallConsumer, Register, Record, UndoConsumer, UndoProducer,
        DropCollector, RegisterAgain, DropHalf, DropEdge, Crash, Load, Outside, Ready, vars
  <2> QED BY <2>2, <2>3, <2>4, <2>5, <2>6, CatalogSteps
<1> QED BY <1>1, <1>2
-----------------------------------------------------------------------------
(* The invariant holds.                                                    *)

LEMMA InvInit == Init => Inv
<1> SUFFICES ASSUME Init PROVE Inv
  OBVIOUS
<1>1. Installed = {} /\ DOMAIN slots = {} /\ DOMAIN bound = {}
  BY DEF Init, Installed
<1>2. ShapeOK
  BY <1>1, ZeroIsCopies DEF Init, ShapeOK, CatalogShape, CallShape
<1>3. DepsOK /\ SlotsOK /\ QuietOK
  BY <1>1 DEF Init, DepsOK, SlotsOK, QuietOK
<1>4. StagedOK
  BY <1>1, ZeroIsCopies, SourceShape DEF Init, StagedOK, Watching
<1>5. OpenOK
  BY <1>1, NoCallIs DEF Init, OpenOK, BoundOK, CallOK, ViewsOK, Rest
<1>6. ExactOK
  BY <1>1 DEF ExactOK
<1> QED BY <1>2, <1>3, <1>4, <1>5, <1>6 DEF Inv

LEMMA InvStep == ~DropsHalves /\ Inv /\ [Next]_vars => Inv'
<1> SUFFICES ASSUME ~DropsHalves, Inv, [Next]_vars PROVE Inv'
  OBVIOUS
<1> USE DEF Inv
<1>1. ShapeOK' /\ DepsOK' /\ SlotsOK'
  BY ShapeStep, DepsStep, SlotsStep
<1>2. StagedOK' /\ QuietOK'
  BY StagedStep
<1>3. OpenOK'
  <2> SUFFICES ASSUME mode' = "open" PROVE BoundOK' /\ CallOK' /\ ViewsOK'
    BY DEF OpenOK
  <2> QED BY BoundStep, CallsInOrder, ViewsStep
<1>4. ExactOK'
  BY ExactStep
<1> QED BY <1>1, <1>2, <1>3, <1>4

LEMMA InvHolds == ASSUME ~DropsHalves PROVE Spec => []Inv
<1> QED BY InvInit, InvStep, PTL DEF Spec
-----------------------------------------------------------------------------
(* Types.                                                                  *)

\* The types of what the invariant leaves open.
TypedOK ==
  /\ \A n \in Installed : catalog[n] \in Entries
  /\ \E b \in Nat : \A n \in Installed : catalog[n].install <= b
  /\ \A k \in DOMAIN slots : slots[k] \subseteq Tables
  /\ mode \in {"open", "down", "refused"} /\ (mode # "open" => bound = <<>>)
  /\ writes \in 0 .. MaxWrites

\* Of bounded numbers there is a largest.
LEMMA LargestInstall ==
  ASSUME NEW S \in SUBSET Nat, S # {}, NEW b \in Nat, \A i \in S : i <= b
  PROVE  \E i \in S : \A j \in S : j <= i
<1> DEFINE T == {b - i : i \in S}
<1>1. T \subseteq Nat /\ T # {}
  <2>1. \A i \in S : i \in Nat /\ i <= b
    OBVIOUS
  <2>2. \A i \in S : b - i \in Nat
    BY <2>1
  <2>3. \A x \in T : \E i \in S : x = b - i
    OBVIOUS
  <2>4. PICK i \in S : TRUE
    OBVIOUS
  <2>5. b - i \in T
    OBVIOUS
  <2> QED BY <2>2, <2>3, <2>5
<1>2. PICK x \in T : \A y \in T : ~(<<y, x>> \in OpToRel(<, Nat))
  <2> HIDE DEF T
  <2> QED BY <1>1, NatLessThanWellFounded, WFMin
<1>3. \A y \in T : ~(y < x)
  BY <1>1, <1>2 DEF OpToRel
<1>4. PICK i \in S : x = b - i
  BY <1>2
<1>5. ASSUME NEW j \in S PROVE j <= i
  <2>1. ~(b - j < b - i)
    BY <1>3, <1>4
  <2> QED BY <2>1
<1> QED BY <1>5

\* Install numbers grow.
LEMMA NextInstallIs ==
  ASSUME TypedOK
  PROVE  /\ NextInstall \in Nat
         /\ \E b \in Nat : NextInstall <= b /\ \A n \in Installed : catalog[n].install <= b
<1>1. PICK b \in Nat : \A n \in Installed : catalog[n].install <= b
  BY DEF TypedOK
<1>2. CASE Installed = {}
  BY <1>2 DEF NextInstall
<1>3. CASE Installed # {}
  <2>1. InstallNumbers \in SUBSET Nat /\ InstallNumbers # {} /\ \A i \in InstallNumbers : i <= b
    BY <1>1, <1>3 DEF InstallNumbers, TypedOK, Entries
  <2> DEFINE i == CHOOSE i \in InstallNumbers : \A j \in InstallNumbers : j <= i
  <2>2. i \in InstallNumbers
    BY <2>1, LargestInstall
  <2>3. NextInstall = 1 + i
    BY <1>3 DEF NextInstall
  <2> HIDE DEF i
  <2>4. i \in Nat /\ i <= b
    BY <2>1, <2>2
  <2>5. NextInstall \in Nat /\ NextInstall <= b + 1 /\ b + 1 \in Nat
    BY <2>3, <2>4
  <2>6. \A n \in Installed : catalog[n].install <= b + 1
    BY <1>1 DEF TypedOK, Entries
  <2> QED BY <2>5, <2>6
<1> QED BY <1>2, <1>3

\* What is held by an exact view.
LEMMA BootstrapHolds == \A q : Bootstrap(q) \in [Sources -> [Vals -> {0, 1}]]
BY DEF Bootstrap, Once, Zero

\* A program that is settled is a catalog row when what it then holds is.
LEMMA SettledEntry ==
  ASSUME NEW x \in Entries, NEW d, Settled(x, d).held \in [Sources -> [Vals -> {0, 1}]],
         x.frontier < MaxFrontier
  PROVE  Settled(x, d) \in Entries
<1>1. PICK h, f : h = [s \in Sources |-> Plus(x.held[s], d[s])] /\ f = x.frontier + 1
  OBVIOUS
<1>2. Settled(x, d) = [x EXCEPT !.held = h, !.frontier = f]
  BY <1>1 DEF Settled
<1>3. f \in 0 .. MaxFrontier /\ DOMAIN x = {"install", "frontier", "query", "held"}
  BY <1>1, BoundsAssumption DEF Entries
<1>4. h = Settled(x, d).held
  BY <1>2, <1>3
<1> QED BY <1>2, <1>3, <1>4 DEF Entries

LEMMA TypedStep ==
  ASSUME Inv, Inv', TypedOK, ~DropsHalves, [Next]_vars
  PROVE  TypedOK'
<1> USE DEF Inv
<1>1. (\A n \in Installed' : catalog'[n] \in Entries)
      /\ (\E b \in Nat : \A n \in Installed' : catalog'[n].install <= b)
  <2>b. PICK b \in Nat : \A n \in Installed : catalog[n].install <= b
    BY DEF TypedOK
  <2>1. CASE UNCHANGED catalog
    BY <2>b, <2>1 DEF TypedOK, Installed
  <2>2. CASE /\ catalog' = AfterCommit /\ mode' = "open"
             /\ \A n \in Settling : catalog[n].frontier < MaxFrontier
    <3>1. ASSUME NEW n \in Installed'
          PROVE  catalog'[n].held \in [Sources -> [Vals -> {0, 1}]]
      <4>1. Exact(n)'
        BY <2>2 DEF ExactOK
      <4>2. PICK q : q = catalog'[n].query
        OBVIOUS
      <4>3. catalog'[n].held = [s \in Sources |-> IF s \in From(q) THEN Once(Rows(s)') ELSE Zero[s]]
        BY <4>1, <4>2 DEF Exact, Bootstrap, From, Once, Zero
      <4>4. /\ \A S : Once(S) \in [Vals -> {0, 1}]
            /\ \A s \in Sources : Zero[s] \in [Vals -> {0, 1}]
        BY DEF Once, Zero
      <4> QED BY <4>3, <4>4
    <3>2. \A n \in Settling : catalog[n].frontier < MaxFrontier
      BY <2>2
    <3>3. ASSUME NEW n \in Installed PROVE catalog'[n] \in Entries
      <4>x. PICK x : x = catalog[n]
        OBVIOUS
      <4>1. x \in Entries
        BY <4>x DEF TypedOK
      <4>2. catalog'[n] = x \/ \E d : catalog'[n] = Settled(x, d) /\ n \in Settling
        BY <2>2, <4>x DEF AfterCommit, After, First, Settling
      <4>3. n \in Installed'
        BY <2>2, CommitKeeps
      <4> QED BY <3>1, <3>2, <4>x, <4>1, <4>2, <4>3, SettledEntry
    <3> QED BY <2>b, <2>2, <3>3, CommitKeeps
  <2>3. ASSUME NEW n \in Names, NEW q \in Queries, AddProgram(n, q), Installable(n, q)
        PROVE  /\ \A m \in Installed' : catalog'[m] \in Entries
               /\ \E c \in Nat : \A m \in Installed' : catalog'[m].install <= c
    <3>1. /\ Installed' = Installed \cup {n} /\ \A m \in Installed : catalog'[m] = catalog[m]
      BY <2>3, AddIs
    <3>2. catalog'[n] = [install |-> NextInstall, frontier |-> 0, query |-> q,
                         held |-> Bootstrap(q)]
      BY <2>3 DEF AddProgram, Extended, NewEntry
    <3>3. NextInstall \in Nat
      BY NextInstallIs
    <3>4. catalog'[n] \in Entries
      BY <3>2, <3>3, BootstrapHolds, BoundsAssumption DEF Entries
    <3>5. PICK c \in Nat : NextInstall <= c /\ \A m \in Installed : catalog[m].install <= c
      BY NextInstallIs
    <3>6. \A m \in Installed' : catalog'[m].install <= c
      BY <3>1, <3>2, <3>5
    <3> QED BY <3>1, <3>4, <3>6 DEF TypedOK
  <2>4. ASSUME NEW n \in Names, Removes(n)
        PROVE  /\ \A m \in Installed' : catalog'[m] \in Entries
               /\ \E c \in Nat : \A m \in Installed' : catalog'[m].install <= c
    <3>1. Installed' = Installed \ {n} /\ \A m \in Installed : m # n => catalog'[m] = catalog[m]
      BY <2>4, RemovesUnread, TearDownIs
    <3> QED BY <2>b, <3>1 DEF TypedOK
  <2> QED BY <2>1, <2>2, <2>3, <2>4, CatalogSteps
<1>2. \A k \in DOMAIN slots' : slots'[k] \subseteq Tables
  <2>a. ASSUME NEW key, NEW tables, NEW programs, Watch(key, tables, programs), tables \subseteq Tables
        PROVE  \A k \in DOMAIN slots' : slots'[k] \subseteq Tables
    <3>1. /\ DOMAIN slots' = DOMAIN slots \cup {key} /\ slots'[key] = tables
          /\ \A k \in DOMAIN slots : k # key => slots'[k] = slots[k]
      BY <2>a, WatchIs
    <3>2. \A k \in DOMAIN slots : slots[k] \subseteq Tables
      BY DEF TypedOK
    <3> QED BY <2>a, <3>1, <3>2
  <2>1. CASE \E n \in Names : \E q \in Queries : Install(n, q)
    BY <2>a, <2>1, SourceShape DEF Install
  <2>2. CASE Register \/ RegisterAgain
    <3>1. UNCHANGED slots \/ (/\ Watch(CollectorOf(call.p), Watched(call.p, call.c), <<call.p, call.c>>)
                              /\ call.p \in Installed /\ call.c \in Installed)
      <4>1. call.p \in Installed /\ call.c \in Installed
        BY <2>2, AtCall DEF Register, RegisterAgain, OpenOK, CallOK, ComposeOK, DropOK
      <4> QED BY <2>2, <4>1 DEF Register, RegisterAgain
    <3>2. \A m \in Installed : catalog[m].query.tables \subseteq Tables
      BY SourceShape DEF ShapeOK, CatalogShape, EntryOK
    <3> QED BY <2>a, <3>1, <3>2 DEF Watched, TypedOK
  <2>3. CASE \E n : TearDown(n) \/ Unwatch(n)
    BY <2>3, TearDownIs, UnwatchIs DEF TypedOK
  <2>4. CASE UNCHANGED slots
    BY <2>4 DEF TypedOK
  <2>5. \/ \E n \in Names : \E q \in Queries : Install(n, q)
        \/ Register \/ RegisterAgain \/ UNCHANGED slots \/ \E n : TearDown(n) \/ Unwatch(n)
    BY DEF Next, UserStep, CallStep, Write, WriteWithout, Commit, Rollback, Drop, DropPair,
           Compose, InstallProducer, InstallConsumer, Record, UndoConsumer, UndoProducer,
           DropCollector, DropHalf, DropEdge, Crash, Load, vars, schema
  <2> QED BY <2>1, <2>2, <2>3, <2>4, <2>5
<1>3. mode' \in {"open", "down", "refused"} /\ (mode' # "open" => bound' = <<>>)
  BY DEF TypedOK, Next, UserStep, CallStep, Write, WriteWithout, Commit, Rollback, Drop, Install,
         DropPair, Compose, InstallProducer, InstallConsumer, Register, Record, UndoConsumer,
         UndoProducer, DropCollector, RegisterAgain, DropHalf, DropEdge, Crash, Load, Outside,
         Ready, Idle, At, vars
<1>4. writes' \in 0 .. MaxWrites
  <2>1. CASE \E t \in Tables, v \in Vals : Write(t, v)
    BY <2>1, BoundsAssumption DEF Write, TypedOK
  <2>2. ~(\E t \in Tables, v \in Vals : Write(t, v)) => writes' = 0 \/ UNCHANGED writes
    BY TransactionSteps DEF Clean, vars, txn
  <2> QED BY <2>1, <2>2, BoundsAssumption DEF TypedOK
<1> QED BY <1>1, <1>2, <1>3, <1>4 DEF TypedOK

\* The shape of the state, whatever is installed, written and cut short.
THEOREM TypeInvariant == ASSUME ~DropsHalves PROVE Spec => []TypeOK
<1>1. Init => TypedOK
  <2>1. Init => Installed = {} /\ DOMAIN slots = {}
    BY DEF Init, Installed
  <2> QED BY <2>1, BoundsAssumption DEF Init, TypedOK
<1>2. Inv /\ Inv' /\ TypedOK /\ [Next]_vars => TypedOK'
  BY TypedStep
<1>3. Inv /\ TypedOK => TypeOK
  <2> SUFFICES ASSUME Inv, TypedOK PROVE TypeOK
    OBVIOUS
  <2> USE DEF Inv
  <2>1. /\ base \in [Tables -> SUBSET Vals] /\ committed \in [Tables -> SUBSET Vals]
        /\ Partial(catalog, Names, Entries) /\ deps \subseteq [consumer : Names, producer : Names]
        /\ mode \in {"open", "down", "refused"} /\ touched \subseteq Tables
        /\ writes \in 0 .. MaxWrites
    BY DEF ShapeOK, CatalogShape, DepsOK, TypedOK, Partial, Installed
  <2>2. ASSUME NEW k \in DOMAIN slots PROVE k \in Names \X Nat /\ slots[k] \in SUBSET Tables
    <3>1. k[1] \in Installed /\ k = CollectorOf(k[1])
      BY DEF SlotsOK
    <3>2. k[1] \in Names /\ catalog[k[1]].install \in Nat
      BY <3>1 DEF ShapeOK, CatalogShape, TypedOK, Entries
    <3>3. CollectorOf(k[1]) \in Names \X Nat
      BY <3>2 DEF CollectorOf
    <3> QED BY <3>1, <3>3 DEF TypedOK
  <2>3. Partial(bound, Names \X Nat, Seq(Names))
    <3>1. CASE mode # "open"
      BY <3>1 DEF TypedOK, Partial
    <3>2. CASE mode = "open"
      <4>1. DOMAIN bound = DOMAIN slots
        BY <3>2 DEF OpenOK, BoundOK
      <4>2. ASSUME NEW k \in DOMAIN slots PROVE bound[k] \in Seq(Names)
        <5>1. k[1] \in Names
          BY <2>2
        <5>2. (\E c \in Names : bound[k] = <<k[1], c>>) \/ bound[k] = <<k[1]>>
          BY <3>2 DEF OpenOK, BoundOK
        <5>3. \A n, c \in Names : <<n, c>> \in Seq(Names) /\ <<n>> \in Seq(Names)
          OBVIOUS
        <5> QED BY <5>1, <5>2, <5>3
      <4> QED BY <2>2, <4>1, <4>2 DEF Partial
    <3> QED BY <3>1, <3>2
  <2>4. call # NoCall => call.op \in {"compose", "drop"} /\ {call.p, call.c} \subseteq Names
    BY DEF ShapeOK, CallShape
  <2>5. staged \in [Sources -> [Vals -> -1 .. 1]]
    <3>1. staged = [s \in Sources |-> staged[s]]
      BY DEF ShapeOK, Copies
    <3>2. ASSUME NEW s \in Sources PROVE staged[s] \in [Vals -> -1 .. 1]
      <4>1. \/ staged[s] = Zero[s] \/ \E S, T : staged[s] = Change(S, T)
        BY SourceShape DEF StagedOK
      <4>2. Zero[s] \in [Vals -> -1 .. 1] /\ \A S, T : Change(S, T) \in [Vals -> -1 .. 1]
        BY DEF Zero, Change
      <4> QED BY <4>1, <4>2
    <3> QED BY <3>1, <3>2
  <2> QED BY <2>1, <2>2, <2>3, <2>4, <2>5 DEF TypeOK, Partial
<1> QED BY <1>1, <1>2, <1>3, InvHolds, PTL DEF Spec
-----------------------------------------------------------------------------
(* What follows.                                                           *)

\* No commit, refused commit, half-done pair, crash or reload leaves a view of a
\* database that is open behind its sources.
THEOREM ViewsAreExact == ASSUME ~DropsHalves PROVE Spec => []LoadedViewsAreExact
<1>1. Inv => LoadedViewsAreExact
  BY DEF Inv, ExactOK, LoadedViewsAreExact
<1> QED BY <1>1, InvHolds, PTL

\* A collector is that of an installed program, watches what its programs read, and is
\* called back while the database is open.
THEOREM Collectors == ASSUME ~DropsHalves PROVE Spec => []CollectorsBelong
<1>1. Inv => CollectorsBelong
  <2> SUFFICES ASSUME Inv, NEW k \in DOMAIN slots
               PROVE  /\ k[1] \in Installed /\ k = CollectorOf(k[1])
                      /\ mode = "open" =>
                           /\ k \in DOMAIN bound
                           /\ bound[k][1] = k[1]
                           /\ \A i \in DOMAIN bound[k] : bound[k][i] \in Installed =>
                                catalog[bound[k][i]].query.tables \subseteq slots[k]
    BY DEF CollectorsBelong
  <2>1. /\ k[1] \in Installed /\ k = CollectorOf(k[1])
        /\ catalog[k[1]].query.tables \subseteq slots[k]
        /\ \A c \in Installed : Partner(k[1], c) => catalog[c].query.tables \subseteq slots[k]
    BY DEF Inv, SlotsOK
  <2>2. ASSUME mode = "open"
        PROVE  /\ k \in DOMAIN bound
               /\ \/ \E c \in Names : Partner(k[1], c) /\ bound[k] = <<k[1], c>>
                  \/ bound[k] = <<k[1]>>
    BY <2>2 DEF Inv, OpenOK, BoundOK
  <2>3. CASE \E c \in Names : Partner(k[1], c) /\ bound[k] = <<k[1], c>>
    BY <2>1, <2>2, <2>3
  <2>4. CASE bound[k] = <<k[1]>>
    BY <2>1, <2>2, <2>4
  <2> QED BY <2>1, <2>2, <2>3, <2>4
<1> QED BY <1>1, InvHolds, PTL

\* What calls that returned leave behind can be loaded again.
THEOREM Reopens == ASSUME ~DropsHalves PROVE Spec => []ReopensUnlessCutShort
<1>1. Inv => ReopensUnlessCutShort
  BY LoadsIsRest DEF Inv, OpenOK, CallOK, Ready, ReopensUnlessCutShort
<1> QED BY <1>1, InvHolds, PTL

\* A compose that returns has recorded its pair or left the schema as it was.
THEOREM Composes == ASSUME ~DropsHalves PROVE Spec => ComposeIsAllOrNothing
<1> DEFINE Holds == (Ready' /\ call.op = "compose") =>
                      \/ schema' = call.before
                      \/ Edge(call.p, call.c) \in deps' \ call.before[2]
<1>1. Inv /\ Next => Holds
  <2> SUFFICES ASSUME Inv, Next, Ready', call.op = "compose"
               PROVE  \/ schema' = call.before
                      \/ Edge(call.p, call.c) \in deps' \ call.before[2]
    OBVIOUS
  <2>1. /\ ShapeOK /\ OpenOK /\ call # NoCall /\ call' = NoCall /\ mode' = "open" /\ mode = "open"
    BY NoCallIs DEF Inv, Ready, ShapeOK
  <2>2. ComposeOK
    BY <2>1 DEF OpenOK, CallOK
  <2>3. ASSUME NEW next PROVE ~Goto(next)
    BY <2>1, GotoShape DEF ShapeOK
  <2>4. CASE \E refused \in BOOLEAN : InstallProducer(refused)
    <3>1. At("compose", "producer") /\ UNCHANGED <<catalog, deps, slots>>
      BY <2>3, <2>4 DEF InstallProducer
    <3>2. /\ catalog = call.before[1] /\ deps = call.before[2] /\ slots = call.before[3]
          /\ call.before = <<call.before[1], call.before[2], call.before[3]>>
      BY <2>2, <3>1 DEF ComposeOK, At
    <3> QED BY <3>1, <3>2 DEF schema
  <2>5. CASE UndoProducer
    <3>k. PICK p : p = call.p
      OBVIOUS
    <3>1. At("compose", "undo_producer") /\ TearDown(p) /\ UNCHANGED deps
      BY <2>5, <3>k DEF UndoProducer
    <3>2. /\ Without(catalog, p) = call.before[1] /\ deps = call.before[2]
          /\ slots = call.before[3] /\ ~HasCollector(p)
          /\ call.before = <<call.before[1], call.before[2], call.before[3]>>
      BY <2>2, <3>k, <3>1 DEF ComposeOK, At, HasCollector, CollectorOf
    <3>3. catalog' = Without(catalog, p) /\ slots' = Without(slots, CollectorOf(p))
      BY <3>1, TearDownIs
    <3>4. slots' = slots
      <4>1. CollectorOf(p) \notin DOMAIN slots
        BY <3>2 DEF HasCollector
      <4>2. slots = [k \in DOMAIN slots |-> slots[k]]
        BY <2>1 DEF ShapeOK
      <4> QED BY <3>3, <4>1, <4>2 DEF Without
    <3> QED BY <3>1, <3>2, <3>3, <3>4 DEF schema
  <2>6. CASE Record
    <3>1. At("compose", "record") /\ deps' = deps \cup {Edge(call.p, call.c)}
          /\ Edge(call.p, call.c) \notin deps
      BY <2>1, <2>6, RecordIsNew DEF Record
    <3>2. deps = call.before[2]
      BY <2>2, <3>1 DEF ComposeOK, At
    <3> QED BY <3>1, <3>2
  <2>7. \/ \E refused \in BOOLEAN : InstallProducer(refused)
        \/ UndoProducer \/ Record
    BY <2>1, <2>3
    DEF Next, UserStep, CallStep, Write, WriteWithout, Commit, Rollback, Drop, Install, DropPair,
        Compose, InstallConsumer, Register, UndoConsumer, DropCollector, RegisterAgain, DropHalf,
        DropEdge, Crash, Load, At, Ready, Idle
  <2> QED BY <2>4, <2>5, <2>6, <2>7
<1>2. Inv /\ [Next]_vars => [Holds]_vars
  BY <1>1
<1> QED BY <1>2, InvHolds, PTL DEF Spec, ComposeIsAllOrNothing

\* A commit settles a program at most once, and a consumer with its producer.
THEOREM Frontiers == ASSUME ~DropsHalves PROVE Spec => OneFrontierPerCommit
<1> DEFINE moved(m) == catalog'[m].frontier - catalog[m].frontier
           Holds == \A n \in Installed \cap DOMAIN catalog' :
                      catalog'[n].install = catalog[n].install =>
                        /\ moved(n) \in {0, 1}
                        /\ \A e \in deps : e.producer = n /\ moved(n) = 1 => moved(e.consumer) = 1
<1>1. Inv /\ Next => Holds
  <2> SUFFICES ASSUME Inv, Next, NEW n \in Installed \cap DOMAIN catalog'
               PROVE  /\ moved(n) \in {0, 1}
                      /\ \A e \in deps : e.producer = n /\ moved(n) = 1 => moved(e.consumer) = 1
    OBVIOUS
  <2>1. /\ ShapeOK /\ DepsOK /\ SlotsOK /\ OpenOK /\ ~DropsHalves
        /\ \A m \in Installed : catalog[m].frontier \in Int
    BY DEF Inv, ShapeOK, CatalogShape, EntryOK
  <2>2. CASE catalog'[n] = catalog[n]
    BY <2>1, <2>2
  <2>3. CASE catalog' = AfterCommit /\ mode = "open" /\ call = NoCall
    <3>1. Ready
      BY <2>3 DEF Ready
    <3>2. \A m \in Installed : moved(m) \in {0, 1}
      BY <2>1, <2>3, FirstShape, AfterShape DEF AfterCommit
    <3>3. ASSUME NEW e \in deps, e.producer = n, moved(n) = 1
          PROVE  moved(e.consumer) = 1
      <4>1. PICK c : c = e.consumer
        OBVIOUS
      <4>2. Rest({}) /\ PairReattaches(n, c)
        BY <2>3, <3>3, <4>1 DEF Inv, OpenOK, CallOK, Rest
      <4>3. c \in Installed /\ Derived(c) /\ ~Derived(n) /\ catalog[c].query.views = {n}
        BY <4>2 DEF PairReattaches, ValidPair, Derived
      <4>4. (SettlesFirst(n) <=> Touched(n)) /\ \A p : ~SettlesAfter(p, n)
        BY <2>1, <3>1, <4>3, ServedBase
      <4>5. catalog'[n] = First(n)
        BY <2>3, <4>4 DEF AfterCommit
      <4>6. Touched(n)
        BY <2>1, <3>3, <4>4, <4>5, FirstShape
      <4>7. PICK p \in Installed : /\ catalog[c].query.views = {p}
                                   /\ SettlesAfter(p, c) <=> Touched(p) \/ Touched(c)
        BY <2>1, <3>1, <4>3, ServedPair
      <4>8. SettlesAfter(n, c) /\ n \in Names
        BY <2>1, <4>3, <4>6, <4>7 DEF ShapeOK, CatalogShape
      <4>9. \E d : catalog'[c] = After(d, c)
        BY <2>3, <4>3, <4>8 DEF AfterCommit
      <4> QED BY <2>1, <4>1, <4>3, <4>9, AfterShape
    <3> QED BY <3>2, <3>3
  <2>4. ASSUME NEW m \in Names, NEW q \in Queries, AddProgram(m, q), Installable(m, q)
        PROVE  catalog'[n] = catalog[n]
    BY <2>1, <2>4, AddIs
  <2>5. ASSUME NEW m \in Names, Removes(m) PROVE catalog'[n] = catalog[n]
    <3>1. Installed' = Installed \ {m} /\ \A l \in Installed : l # m => catalog'[l] = catalog[l]
      BY <2>1, <2>5, RemovesUnread, TearDownIs
    <3> QED BY <3>1 DEF Installed
  <2> QED BY <2>1, <2>2, <2>3, <2>4, <2>5, CatalogSteps
<1>2. Inv /\ [Next]_vars => [Holds]_vars
  BY <1>1
<1> QED BY <1>2, InvHolds, PTL DEF Spec, OneFrontierPerCommit
=============================================================================
