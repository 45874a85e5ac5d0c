-------------------------- MODULE FrontierCatalog --------------------------
(***************************************************************************)
(* The programs installed in one database: catalog.rs, composition.rs,     *)
(* lib.rs and the commit callback of engine.rs.                            *)
(*                                                                         *)
(* A program stands alone (one collector on its source tables) or is half  *)
(* of a pair: a producer over base tables and a consumer that reads the    *)
(* producer's view, both settled by the producer's collector. Installing   *)
(* and dropping a pair are several transactions; between two of them the   *)
(* process may die, and the next load of the extension must then make      *)
(* sense of what the database holds.                                       *)
(*                                                                         *)
(* How a plan turns deltas into output rows is FrontierEngine's matter.    *)
(* Here a program keeps the weights its sources' deltas add up to, and its *)
(* output is a function of them. A collector, its triggers and its         *)
(* callback belong to the sqlite_ext crate and are modelled from the calls *)
(* made to it: watch creates a table that must not exist yet, reattach     *)
(* needs one that does, dropping the table drops its triggers.             *)
(***************************************************************************)
EXTENDS Integers, Sequences, FiniteSets

CONSTANTS
    Names,       \* program names
    Tables,      \* base tables
    Vals,        \* the rows a table may hold
    Queries,     \* the SELECTs a program may be installed with
    DropsHalves, \* TRUE: sqlite_ivm_frontier_drop is called on half of a pair
    MaxWrites,   \* bound: rows written in one transaction
    MaxFrontier, \* bound: frontiers settled by one program
    MaxInstall   \* bound: install numbers given out

Sources == Tables \cup Names    \* a name stands for the program's output view

ASSUME SourcesAssumption == Tables \cap Names = {}
ASSUME QueriesAssumption ==
    Queries \subseteq [op : {"union", "join"}, views : SUBSET Names, tables : SUBSET Tables]
ASSUME BoundsAssumption ==
    /\ DropsHalves \in BOOLEAN
    /\ MaxWrites \in Nat /\ MaxFrontier \in Nat /\ MaxInstall \in Nat

VARIABLES
    base,      \* the base tables, as the connection sees them
    committed, \* the base tables as last committed
    catalog,   \* frontier_catalog: what is installed, and what it keeps
    deps,      \* frontier_dependency: the recorded pairs
    slots,     \* the collector tables of the schema and what each one watches
    mode,      \* "open", "down", or "refused": the extension failed to load
    bound,     \* the callback of each collector: the programs it settles, in order
    call,      \* the pair call in progress, between its transactions
    staged,    \* signed rows collected in the open transaction
    touched,   \* the tables they are of
    writes     \* rows written in the open transaction (bounded)

\* Calls are made outside the user's transactions and a commit that fails leaves
\* nothing, so of the database only the base tables are ever ahead of the disk.
schema == <<catalog, deps, slots>>
txn == <<staged, touched, writes>>
vars == <<base, committed, schema, mode, bound, call, txn>>

-----------------------------------------------------------------------------
(* What a program computes.                                                *)

Zero == [s \in Sources |-> [v \in Vals |-> 0]]
From(q) == q.tables \cup q.views
Once(rows) == [v \in Vals |-> IF v \in rows THEN 1 ELSE 0]

\* The rows of an output view: those of positive weight.
Output(q, held) ==
    {v \in Vals : IF q.op = "union" THEN \E s \in From(q) : held[s][v] > 0
                                    ELSE \A s \in From(q) : held[s][v] > 0}

View(n) == Output(catalog[n].query, catalog[n].held)
Rows(s) == IF s \in Tables THEN committed[s] ELSE View(s)

\* Back-fill: every row the sources hold, once.
Bootstrap(q) ==
    [s \in Sources |-> IF s \in From(q) THEN Once(Rows(s)) ELSE Zero[s]]

Plus(a, b) == [v \in Vals |-> a[v] + b[v]]

Settled(entry, delta) ==
    [entry EXCEPT !.held = [s \in Sources |-> Plus(@[s], delta[s])],
                  !.frontier = @ + 1]

\* The collected rows of a program's own tables.
Batch(q) == [s \in Sources |-> IF s \in q.tables THEN staged[s] ELSE Zero[s]]

\* A net output change, one signed row for each row that came or went.
Change(old, new) ==
    [v \in Vals |-> (IF v \in new THEN 1 ELSE 0) - (IF v \in old THEN 1 ELSE 0)]

-----------------------------------------------------------------------------
(* The catalog.                                                            *)

Installed == DOMAIN catalog
InstallNumbers == {catalog[n].install : n \in Installed}
NextInstall ==
    IF Installed = {} THEN 1
    ELSE 1 + CHOOSE i \in InstallNumbers : \A j \in InstallNumbers : j <= i

CollectorOf(n) == <<n, catalog[n].install>>
HasCollector(n) == CollectorOf(n) \in DOMAIN slots

Extended(f, x, value) == [y \in DOMAIN f \cup {x} |-> IF y = x THEN value ELSE f[y]]
Without(f, x) == [y \in DOMAIN f \ {x} |-> f[y]]

\* A view names a source only while its program is installed.
Installable(n, q) == n \notin Installed /\ q.views \subseteq Installed

NewEntry(q) ==
    [install |-> NextInstall, frontier |-> 0, query |-> q, held |-> Bootstrap(q)]

\* A producer reads base tables only.
Derived(n) == catalog[n].query.views # {}

\* The consumer reads this producer's view and no other.
ValidPair(p, c) == catalog[c].query.views = {p}

Watched(p, c) == catalog[p].query.tables \cup catalog[c].query.tables

Edge(p, c) == [consumer |-> c, producer |-> p]
Recordable(p, c) == \A e \in deps : e.consumer # c /\ e.producer # p
Paired == {e.consumer : e \in deps} \cup {e.producer : e \in deps}

-----------------------------------------------------------------------------
(* Loading the extension on a fresh connection.                            *)

\* Every recorded pair is reattached, then every other program on its own; the
\* first that cannot be fails the load.
PairReattaches(p, c) ==
    /\ {p, c} \subseteq Installed
    /\ ~Derived(p)
    /\ ValidPair(p, c)
    /\ HasCollector(p)

Reattaches(n) == ~Derived(n) /\ HasCollector(n)

Loads ==
    /\ \A e \in deps : PairReattaches(e.producer, e.consumer)
    /\ \A n \in Installed \ Paired : Reattaches(n)

\* The callbacks of a database that loads.
Callback(p) ==
    IF \E e \in deps : e.producer = p
    THEN <<p, (CHOOSE e \in deps : e.producer = p).consumer>>
    ELSE <<p>>

Callbacks == [k \in DOMAIN slots |-> Callback(k[1])]

-----------------------------------------------------------------------------
(* COMMIT: each collector that holds rows settles its programs.            *)

Calling == {k \in DOMAIN bound \cap DOMAIN slots : slots[k] \cap touched # {}}
Touched(n) == catalog[n].query.tables \cap touched # {}

\* A program settles when rows of its own tables were collected.
SettlesFirst(n) == Touched(n) /\ \E k \in Calling : bound[k][1] = n
First(n) ==
    IF SettlesFirst(n)
    THEN Settled(catalog[n], Batch(catalog[n].query))
    ELSE catalog[n]

\* The net output change of the producer's settle.
ViewDelta(p) == Change(View(p), Output(First(p).query, First(p).held))

\* The consumer of a pair settles also whenever its producer did, with the
\* producer's output change beside the rows collected for itself.
SlipSettlesAfter(p, c) ==
    /\ \E k \in Calling : bound[k] = <<p, c>>
    /\ Touched(c)
SlipSettlesOnChange(p, c) ==
    /\ \E k \in Calling : bound[k] = <<p, c>>
    /\ ViewDelta(p) # Zero[p] \/ Touched(c)
SettlesAfter(p, c) ==
    /\ \E k \in Calling : bound[k] = <<p, c>>
    /\ SettlesFirst(p) \/ Touched(c)
After(p, c) == Settled(catalog[c], [Batch(catalog[c].query) EXCEPT ![p] = ViewDelta(p)])

Settling == {n \in Installed : SettlesFirst(n) \/ \E p \in Names : SettlesAfter(p, n)}

AfterCommit ==
    [n \in Installed |->
        IF \E p \in Names : SettlesAfter(p, n)
        THEN After(CHOOSE p \in Names : SettlesAfter(p, n), n)
        ELSE First(n)]

\* A collector one of whose programs is gone fails every commit it has rows for.
Settleable == \A k \in Calling : \A i \in DOMAIN bound[k] : bound[k][i] \in Installed

-----------------------------------------------------------------------------
(* Source writes.                                                          *)

NoCall == [op |-> "none"]
Ready == mode = "open" /\ call = NoCall
Idle == Ready /\ writes = 0
Clean == staged' = Zero /\ touched' = {} /\ writes' = 0

\* An AFTER trigger stages the row when a collector watches the table.
SlipCollect(t, v, sign) ==
    IF \E k \in DOMAIN slots : t \in slots[k]
    THEN /\ staged' = [staged EXCEPT ![t][v] = @ + 1]
         /\ touched' = touched \cup {t}
    ELSE UNCHANGED <<staged, touched>>
Collect(t, v, sign) ==
    IF \E k \in DOMAIN slots : t \in slots[k]
    THEN /\ staged' = [staged EXCEPT ![t][v] = @ + sign]
         /\ touched' = touched \cup {t}
    ELSE UNCHANGED <<staged, touched>>

Write(t, v) ==
    /\ Ready
    /\ writes < MaxWrites
    /\ writes' = writes + 1
    /\ IF v \in base[t]
       THEN Collect(t, v, -1) /\ base' = [base EXCEPT ![t] = @ \ {v}]
       ELSE Collect(t, v, 1) /\ base' = [base EXCEPT ![t] = @ \cup {v}]
    /\ UNCHANGED <<committed, schema, mode, bound, call>>

\* A settle that fails fails the COMMIT, which undoes the transaction.
Commit(refused) ==
    /\ Ready
    /\ writes > 0
    /\ Settleable => \A n \in Settling : catalog[n].frontier < MaxFrontier
    /\ refused => Settling # {}
    /\ IF refused \/ ~Settleable
       THEN base' = committed /\ UNCHANGED <<committed, catalog>>
       ELSE committed' = base /\ catalog' = AfterCommit /\ UNCHANGED base
    /\ Clean
    /\ UNCHANGED <<deps, slots, mode, bound, call>>

Rollback ==
    /\ Ready
    /\ writes > 0
    /\ base' = committed
    /\ Clean
    /\ UNCHANGED <<committed, schema, mode, bound, call>>

\* A connection without the extension writes a table no collector watches; the
\* triggers of a watched one name a module it does not have.
WriteWithout(t, v) ==
    /\ mode # "open"
    /\ \A k \in DOMAIN slots : t \notin slots[k]
    /\ base' = [base EXCEPT ![t] = IF v \in @ THEN @ \ {v} ELSE @ \cup {v}]
    /\ committed' = base'
    /\ UNCHANGED <<schema, mode, bound, call, txn>>

-----------------------------------------------------------------------------
(* The transactions calls are made of.                                     *)

Outside == UNCHANGED <<base, committed, mode, txn>>

\* One savepoint: objects, catalog row and back-fill.
AddProgram(n, q) == catalog' = Extended(catalog, n, NewEntry(q))

Watch(key, tables, programs) ==
    /\ slots' = Extended(slots, key, tables)
    /\ bound' = Extended(bound, key, programs)

Unwatch(key) == slots' = Without(slots, key) /\ bound' = Without(bound, key)

\* One savepoint: the collector of this install, the objects, the row.
SlipTearDown(n) == catalog' = Without(catalog, n) /\ UNCHANGED <<slots, bound>>
TearDown(n) == Unwatch(CollectorOf(n)) /\ catalog' = Without(catalog, n)

\* sqlite_ivm_frontier_install: program and collector in one savepoint.
Install(n, q) ==
    /\ Idle
    /\ Installable(n, q)
    /\ q.views = {}
    /\ NextInstall <= MaxInstall
    /\ AddProgram(n, q)
    /\ Watch(<<n, NextInstall>>, q.tables, <<n>>)
    /\ Outside
    /\ UNCHANGED <<deps, call>>

\* sqlite_ivm_frontier_drop: nothing in the code asks whether the program is
\* half of a pair.
Drop(n) ==
    /\ Idle
    /\ n \in Installed
    /\ ~DropsHalves => n \notin Paired
    /\ TearDown(n)
    /\ Outside
    /\ UNCHANGED <<deps, call>>

-----------------------------------------------------------------------------
(* sqlite_ivm_frontier_compose: Composition::install, a transaction a step.*)

At(op, at) == mode = "open" /\ call.op = op /\ call.at = at
Goto(at) == call' = [call EXCEPT !.at = at]
Return == call' = NoCall

Compose(p, pq, c, cq) ==
    /\ Idle
    /\ NextInstall < MaxInstall
    /\ call' = [op |-> "compose", at |-> "producer", p |-> p, c |-> c,
                pq |-> pq, cq |-> cq, before |-> schema]
    /\ Outside
    /\ UNCHANGED <<schema, bound>>

\* What the sources hold may make the bootstrap refuse them.
InstallProducer(refused) ==
    /\ At("compose", "producer")
    /\ IF refused \/ ~Installable(call.p, call.pq)
       THEN Return /\ UNCHANGED catalog
       ELSE Goto("consumer") /\ AddProgram(call.p, call.pq)
    /\ Outside
    /\ UNCHANGED <<deps, slots, bound>>

SlipInstallConsumer(refused) ==
    /\ At("compose", "consumer")
    /\ IF refused \/ Derived(call.p) \/ ~Installable(call.c, call.cq)
       THEN Return /\ UNCHANGED catalog
       ELSE Goto("register") /\ AddProgram(call.c, call.cq)
    /\ Outside
    /\ UNCHANGED <<deps, slots, bound>>
InstallConsumer(refused) ==
    /\ At("compose", "consumer")
    /\ IF refused \/ Derived(call.p) \/ ~Installable(call.c, call.cq)
       THEN Goto("undo_producer") /\ UNCHANGED catalog
       ELSE Goto("register") /\ AddProgram(call.c, call.cq)
    /\ Outside
    /\ UNCHANGED <<deps, slots, bound>>

Register ==
    /\ At("compose", "register")
    /\ IF ~ValidPair(call.p, call.c) \/ HasCollector(call.p)
       THEN Goto("undo_consumer") /\ UNCHANGED <<slots, bound>>
       ELSE /\ Goto("record")
            /\ Watch(CollectorOf(call.p), Watched(call.p, call.c), <<call.p, call.c>>)
    /\ Outside
    /\ UNCHANGED <<catalog, deps>>

Record ==
    /\ At("compose", "record")
    /\ IF Recordable(call.p, call.c)
       THEN Return /\ deps' = deps \cup {Edge(call.p, call.c)}
       ELSE Goto("undo_consumer") /\ UNCHANGED deps
    /\ Outside
    /\ UNCHANGED <<catalog, slots, bound>>

UndoConsumer ==
    /\ At("compose", "undo_consumer")
    /\ TearDown(call.c)
    /\ Goto("undo_producer")
    /\ Outside
    /\ UNCHANGED deps

UndoProducer ==
    /\ At("compose", "undo_producer")
    /\ TearDown(call.p)
    /\ Return
    /\ Outside
    /\ UNCHANGED deps

-----------------------------------------------------------------------------
(* sqlite_ivm_frontier_drop_composition: Composition::open, then teardown. *)

DropPair(p, c) ==
    /\ Idle
    /\ {p, c} \subseteq Installed
    /\ ~Derived(p)
    /\ ValidPair(p, c)
    /\ call' = [op |-> "drop", at |-> "close", p |-> p, c |-> c,
                before |-> schema]
    /\ Outside
    /\ UNCHANGED <<schema, bound>>

\* open drops the collector an earlier handle left and registers it again;
\* teardown drops it once more.
DropCollector(at, next) ==
    /\ At("drop", at)
    /\ Unwatch(CollectorOf(call.p))
    /\ Goto(next)
    /\ Outside
    /\ UNCHANGED <<catalog, deps>>

RegisterAgain ==
    /\ At("drop", "register")
    /\ Watch(CollectorOf(call.p), Watched(call.p, call.c), <<call.p, call.c>>)
    /\ Goto("unwatch")
    /\ Outside
    /\ UNCHANGED <<catalog, deps>>

DropHalf(at, n, next) ==
    /\ At("drop", at)
    /\ TearDown(n)
    /\ Goto(next)
    /\ Outside
    /\ UNCHANGED deps

SlipDropEdge ==
    /\ At("drop", "edge")
    /\ Return
    /\ Outside
    /\ UNCHANGED <<schema, bound>>
DropEdge ==
    /\ At("drop", "edge")
    /\ deps' = deps \ {Edge(call.p, call.c)}
    /\ Return
    /\ Outside
    /\ UNCHANGED <<catalog, slots, bound>>

-----------------------------------------------------------------------------
(* The process ends, in a call or a transaction or between two, and the    *)
(* extension is loaded again.                                              *)

Crash ==
    /\ mode = "open"
    /\ mode' = "down"
    /\ base' = committed
    /\ bound' = <<>>
    /\ call' = NoCall
    /\ Clean
    /\ UNCHANGED <<committed, schema>>

Load ==
    /\ mode # "open"
    /\ IF Loads THEN mode' = "open" /\ bound' = Callbacks
                ELSE mode' = "refused" /\ bound' = <<>>
    /\ UNCHANGED <<base, committed, schema, call, txn>>

-----------------------------------------------------------------------------
Init ==
    /\ base = [t \in Tables |-> {}]
    /\ committed = base
    /\ catalog = <<>> /\ deps = {} /\ slots = <<>>
    /\ mode = "open" /\ bound = <<>> /\ call = NoCall
    /\ staged = Zero /\ touched = {} /\ writes = 0

UserStep ==
    \/ \E t \in Tables, v \in Vals : Write(t, v) \/ WriteWithout(t, v)
    \/ \E refused \in BOOLEAN : Commit(refused)
    \/ Rollback

CallStep ==
    \/ \E n \in Names : Drop(n) \/ \E q \in Queries : Install(n, q)
    \/ \E p, c \in Names : DropPair(p, c) \/ \E pq, cq \in Queries : Compose(p, pq, c, cq)
    \/ \E refused \in BOOLEAN : InstallProducer(refused) \/ InstallConsumer(refused)
    \/ Register \/ Record \/ UndoConsumer \/ UndoProducer
    \/ DropCollector("close", "register") \/ RegisterAgain
    \/ DropCollector("unwatch", "consumer")
    \/ DropHalf("consumer", call.c, "producer") \/ DropHalf("producer", call.p, "edge")
    \/ DropEdge

Next == UserStep \/ CallStep \/ Crash \/ Load

Spec == Init /\ [][Next]_vars

-----------------------------------------------------------------------------
(* Properties.                                                             *)

Partial(f, S, T) == DOMAIN f \subseteq S /\ \A x \in DOMAIN f : f[x] \in T
Entries == [install : Nat, frontier : 0 .. MaxFrontier, query : Queries,
            held : [Sources -> [Vals -> {0, 1}]]]

\* The shape of the state. A program keeps each row of a source at most once.
TypeOK ==
    /\ base \in [Tables -> SUBSET Vals] /\ committed \in [Tables -> SUBSET Vals]
    /\ Partial(catalog, Names, Entries)
    /\ deps \subseteq [consumer : Names, producer : Names]
    /\ Partial(slots, Names \X Nat, SUBSET Tables)
    /\ mode \in {"open", "down", "refused"}
    /\ Partial(bound, Names \X Nat, Seq(Names))
    /\ call # NoCall => call.op \in {"compose", "drop"} /\ {call.p, call.c} \subseteq Names
    /\ staged \in [Sources -> [Vals -> -1 .. 1]]
    /\ touched \subseteq Tables
    /\ writes \in 0 .. MaxWrites

\* What a program keeps of each source is that source's committed rows, once
\* each: its view equals its SELECT evaluated afresh (catalog.rs:399).
Exact(n) == catalog[n].held = Bootstrap(catalog[n].query)

\* While the extension is loaded every view of the database is current: no
\* commit, refused commit, half-done pair, crash or reload leaves one behind
\* its sources (CHANGELOG.md:6).
LoadedViewsAreExact == mode = "open" => \A n \in Installed : Exact(n)

\* A collector is the one of an installed program and of its present install,
\* watches exactly what its programs read, and in a loaded connection has a
\* callback; otherwise a reused install number meets a leftover collector, or a
\* write stages rows nobody settles.
CollectorsBelong ==
    \A k \in DOMAIN slots :
        /\ k[1] \in Installed /\ k = CollectorOf(k[1])
        /\ mode = "open" =>
               /\ k \in DOMAIN bound
               /\ bound[k][1] = k[1]
               /\ \A i \in DOMAIN bound[k] :
                      bound[k][i] \in Installed => catalog[bound[k][i]].query.tables \subseteq slots[k]

\* A database left by calls that returned can be loaded again: only a pair call
\* cut short leaves one that cannot.
ReopensUnlessCutShort == Ready => Loads

\* A compose that returns either recorded its pair or left the schema as it
\* found it (composition.rs:60).
ComposeIsAllOrNothing ==
    [][(Ready' /\ call.op = "compose") =>
           \/ schema' = call.before
           \/ Edge(call.p, call.c) \in deps' \ call.before[2]]_vars

\* A commit settles each program at most once, and a consumer with its
\* producer (composition.rs:7, tests/composition.rs:211); a settle that fails moves neither.
OneFrontierPerCommit ==
    [][\A n \in Installed \cap DOMAIN catalog' :
           LET moved(m) == catalog'[m].frontier - catalog[m].frontier IN
           catalog'[n].install = catalog[n].install =>
               /\ moved(n) \in {0, 1}
               /\ \A e \in deps : e.producer = n /\ moved(n) = 1 => moved(e.consumer) = 1]_vars
=============================================================================
