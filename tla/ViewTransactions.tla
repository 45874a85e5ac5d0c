-------------------------- MODULE ViewTransactions --------------------------
(***************************************************************************)
(* One managed view inside SQLite's transactions: the virtual-table        *)
(* callbacks of 2_vtab.rs, the catalog of 0a_catalog.rs and the source DDL *)
(* of 2a_source_ddl.rs.                                                    *)
(*                                                                         *)
(* SQLite owns the order of the callbacks and keeps an instance of the     *)
(* view in its transaction list after a schema change has replaced it, so  *)
(* one transaction may drain the same view through several instances.      *)
(* What is stored in the database rolls back with it (db); what lives in   *)
(* memory does not (vtab, generation), and the two must agree again after  *)
(* every rollback.                                                         *)
(*                                                                         *)
(* The collector of staged rows is another crate: it is modelled from the  *)
(* calls made to it and from README.md:194 ("collects source row changes   *)
(* with savepoint marks").                                                 *)
(***************************************************************************)
EXTENDS Sums, Sequences

CONSTANTS
    SourceNames,     \* names a source table may take
    ViewNames,       \* names the view may take
    None,            \* no view, no instance, no query
    ReadsSource,     \* TRUE: the plan's statements name the source table
    Orderly,         \* TRUE: see the guards of the DDL actions
    MaxWrites,       \* bound: rows ever written to the source
    MaxDdl,          \* bound: DDL statements
    MaxSavepoints,   \* bound: savepoints open at once
    MaxTransactions, \* bound: transactions begun
    MaxRetained,     \* bound: instances retained by reloads that undo nothing
    MaxCollectors    \* bound: collectors alive at once

ASSUME NamesAssumption == None \notin SourceNames \cup ViewNames
ASSUME BoundsAssumption ==
    /\ ReadsSource \in BOOLEAN /\ Orderly \in BOOLEAN
    /\ MaxWrites \in Nat /\ MaxDdl \in Nat /\ MaxSavepoints \in Nat
    /\ MaxTransactions \in Nat /\ MaxRetained \in Nat /\ MaxCollectors \in Nat \ {0}

VARIABLES
    db,           \* what SQLite stores and rolls back
    saves,        \* db at BEGIN, then at each open SAVEPOINT
    vtab,         \* the view's instances and their collectors, in memory
    generation,   \* GENERATION, one for the process
    nextRow, ddls, begins,   \* bounded counters
    outcome,      \* how the last statement ended
    seen          \* what the last read returned

vars == <<db, saves, vtab, generation, nextRow, ddls, begins, outcome, seen>>

Rows == 1 .. MaxWrites
Bags == [Rows -> 0 .. 3]
NoRows == [r \in Rows |-> 0]
Plus(a, b) == [r \in Rows |-> a[r] + b[r]]
Each(set) == [r \in Rows |-> IF r \in set THEN 1 ELSE 0]

-----------------------------------------------------------------------------
(* Instances, collectors and the registry that shares them.                *)

\* u64::MAX: never the live generation, so the first refresh reads.
Never == MaxDdl + 1
Instances ==
    [query : SourceNames \cup {None}, program : ViewNames \cup {None},
     generation : 0 .. Never, collector : 0 .. MaxCollectors]
Unbound == [query |-> None, program |-> None, generation |-> Never,
            collector |-> 0]

Collector == [staged |-> NoRows, marks |-> <<>>]

\* Instances SQLite calls back for this transaction, in the order they joined.
Transaction(v) == v.old \o (IF v.joined THEN <<v.current>> ELSE <<>>)

\* Collectors some instance still holds; the registry's references are weak.
Held(v) ==
    ({v.old[k].collector : k \in DOMAIN v.old}
     \cup IF v.current = None THEN {} ELSE {v.current.collector}) \ {0}

Joined(v) == {Transaction(v)[k].collector : k \in DOMAIN Transaction(v)} \ {0}

Free(v) == CHOOSE c \in 1 .. MaxCollectors :
               /\ c \notin Held(v)
               /\ \A e \in 1 .. MaxCollectors \ Held(v) : c <= e

SlipShared(v) == Free(v)
Shared(v) == IF v.registry \in Held(v) THEN v.registry ELSE Free(v)

\* plan.collector(name), entered in the registry; an upgraded one is kept.
SlipEnrolled(v, c) == v
Enrolled(v, c) == [v EXCEPT !.registry = c]

\* The last instance that held a collector frees it.
Freed(v) ==
    [v EXCEPT !.collectors = [c \in DOMAIN @ |-> IF c \in Held(v) THEN @[c]
                                                 ELSE Collector],
              !.registry = IF @ \in Held(v) THEN @ ELSE 0]

\* Binding resolves the query's source by name (0c_compile_from.rs:42).
Binds(d) == d.query = d.source

NeedsBind(v, d, g) == v.current.generation # g /\ v.current.query # d.query
RefreshFails(v, d, g) == NeedsBind(v, d, g) /\ ~Binds(d)

Stamped(v, g) == [v EXCEPT !.current.generation = g]

Bound(v, d, g) ==
    LET c == Shared(v)
    IN  [Enrolled(v, c) EXCEPT !.current =
            [query |-> d.query, program |-> d.view, generation |-> g,
             collector |-> c]]

\* A refresh whose bind fails leaves the stamp, so the next one binds again.
SlipRefreshed(v, d, g) ==
    IF NeedsBind(v, d, g) /\ Binds(d) THEN Bound(v, d, g) ELSE Stamped(v, g)
Refreshed(v, d, g) ==
    IF ~NeedsBind(v, d, g) THEN Stamped(v, g)
    ELSE IF Binds(d) THEN Bound(v, d, g) ELSE v

\* A write or rename stops at a failed bind, and without a plan.
Refuses(v, d, g) ==
    RefreshFails(v, d, g) \/ Refreshed(v, d, g).current.query = None

\* xConnect: attach ignores a bind that fails, the first write tries again.
Connected(v, d, g) ==
    IF v.current # None THEN v
    ELSE Refreshed([v EXCEPT !.current = Unbound], d, g)

\* A schema reload: the instance stays only in the transaction list, and is
\* not refreshed again.
SlipDetached(v) == [v EXCEPT !.current = None]
Detached(v) ==
    Freed([v EXCEPT
        !.old = IF v.joined THEN Append(@, [v.current EXCEPT !.generation = Never])
                ELSE @,
        !.joined = FALSE,
        !.current = None])

\* xBegin, once for the view however many of its instances join: a collector
\* begins empty.
Begun(v) ==
    LET c == v.current.collector
    IN  IF v.joined THEN v
        ELSE IF c = 0 \/ v.begun THEN [v EXCEPT !.joined = TRUE]
        ELSE [v EXCEPT !.joined = TRUE, !.begun = TRUE,
                       !.collectors[c] = Collector]

Staging(v, r) ==
    [v EXCEPT !.collectors[v.current.collector].staged = Plus(@, Each({r}))]

\* What the joined collectors hold, and each of them after a callback F.
Staged(v) ==
    [r \in Rows |-> SumOf([c \in Joined(v) |-> v.collectors[c].staged[r]], Joined(v))]

Mapped(v, F(_)) ==
    [v EXCEPT !.collectors =
        [c \in DOMAIN @ |-> IF c \in Joined(v) THEN F(@[c]) ELSE @[c]]]

UpTo(marks, i) == [k \in {k \in DOMAIN marks : k <= i} |-> marks[k]]

\* xSavepoint, xRelease and xRollbackTo of savepoint i. A collector without
\* mark i began after the savepoint, with nothing staged.
Marking(c, i) ==
    [c EXCEPT !.marks = [k \in DOMAIN @ \cup {i} |->
                            IF k = i THEN c.staged ELSE @[k]]]
Releasing(c, i) == [c EXCEPT !.marks = [k \in {k \in DOMAIN @ : k < i} |-> @[k]]]
SlipReturning(c, i) == [c EXCEPT !.marks = UpTo(@, i)]
Returning(c, i) ==
    [staged |-> IF i \in DOMAIN c.marks THEN c.marks[i] ELSE NoRows,
     marks |-> UpTo(c.marks, i)]

\* xCommit or xRollback of every joined instance.
Ended(v) ==
    Freed([Mapped(v, LAMBDA c : Collector) EXCEPT
        !.begun = @ /\ Joined(v) = {}, !.old = <<>>, !.joined = FALSE])

-----------------------------------------------------------------------------
(* The drain of one instance.                                              *)

\* The program is rebuilt when the view's name has changed (2_vtab.rs:582).
Program(i, d) == d.view

CanDrain(i, d) ==
    /\ ReadsSource => i.query = d.source
    /\ Program(i, d) = d.tables

HasStaged(v, i) == i.collector # 0 /\ v.collectors[i.collector].staged # NoRows

DrainFails(v, d, i) == d.view = None \/ (HasStaged(v, i) /\ ~CanDrain(i, d))

\* At COMMIT each instance drains in turn: the first that holds a collector
\* empties it. An instance whose view is gone cannot read its own name.
SyncFails(v, d) ==
    LET t == Transaction(v)
    IN  \E k \in DOMAIN t :
            \/ d.view = None
            \/ /\ HasStaged(v, t[k]) /\ ~CanDrain(t[k], d)
               /\ \A j \in 1 .. k - 1 : t[j].collector # t[k].collector

\* What a schema change replaces; rows and results are not part of it.
Schema(d) == <<d.source, d.view, d.query, d.recorded, d.hooks, d.tables, d.ledger>>

\* A rollback reloads the schema when it undoes a change of it, and may
\* reload it anyway.
Reloaded(v, from, to) ==
    IF Schema(from) # Schema(to) THEN {Detached(v)}
    ELSE {v} \cup {w \in {Detached(v)} : Len(w.old) <= MaxRetained}

-----------------------------------------------------------------------------
(* The catalog: a managed view, its hooks on the source and its manifest.  *)

Hooks(view, source) == [view |-> view, source |-> source]
HooksSet == {Hooks(view, source) : view \in ViewNames, source \in SourceNames}

\* The absent instance and the absent hooks are none of them.
ASSUME NoneAssumption == None \notin Instances \cup HooksSet

\* The objects as installed, and as __ivm_objects records them.
Installed(view, source, rows) ==
    [source |-> source, view |-> view, query |-> source, recorded |-> source,
     hooks |-> Hooks(view, source), tables |-> view,
     ledger |-> <<Hooks(view, source), view>>,
     rows |-> rows, stored |-> Each(rows)]

Uninstalled(d) ==
    [source |-> d.source, view |-> None, query |-> None, recorded |-> None,
     hooks |-> None, tables |-> None, ledger |-> None,
     rows |-> d.rows, stored |-> NoRows]

\* manifest: every owned object still has its recorded definition.
ManifestHolds(d) == d.ledger = <<d.hooks, d.tables>>

\* SQLite's own ALTER TABLE: the name, and the hooks written on it.
Altered(d, new) ==
    [d EXCEPT !.source = new,
              !.hooks = IF @ = None THEN None ELSE Hooks(@.view, new)]

\* rename: query, hooks, sources and manifest of each dependent view.
SlipRewritten(d, new) ==
    [d EXCEPT !.query = new, !.hooks = Hooks(d.view, new),
              !.ledger = <<Hooks(d.view, new), d.tables>>]
Rewritten(d, new) ==
    [d EXCEPT !.query = new, !.recorded = new, !.hooks = Hooks(d.view, new),
              !.ledger = <<Hooks(d.view, new), d.tables>>]

\* rename_to: hooks are regenerated from the plan's own source name.
Retitled(d, new, source) ==
    [d EXCEPT !.view = new, !.hooks = Hooks(new, source), !.tables = new,
              !.ledger = <<Hooks(new, source), new>>]

Dependent(d) == d.view # None /\ d.recorded = d.source

-----------------------------------------------------------------------------
Init ==
    /\ \E source \in SourceNames, view \in ViewNames \cup {None} :
          db = IF view = None
               THEN Uninstalled([source |-> source, rows |-> {}])
               ELSE Installed(view, source, {})
    /\ saves = <<>>
    /\ vtab = [current |-> None, joined |-> FALSE, old |-> <<>>,
               collectors |-> [c \in 1 .. MaxCollectors |-> Collector],
               registry |-> 0, begun |-> FALSE]
    /\ generation = 0 /\ nextRow = 1 /\ ddls = 0 /\ begins = 0
    /\ outcome = "ok"
    /\ seen = None

\* No instance of the view has joined the transaction.
Quiet == Transaction(vtab) = <<>>

\* The instance joined without an xBegin of its collector, because it was
\* created in this transaction or bound only at its first write: the next
\* instance to join begins the collector they share again.
Unsettled == vtab.joined /\ ~vtab.begun

Open == saves # <<>>
Depth == Len(saves) - 1

Ends(result) == outcome' = result /\ seen' = None

Begin ==
    /\ ~Open /\ begins < MaxTransactions
    /\ saves' = <<db>> /\ begins' = begins + 1
    /\ Ends("ok")
    /\ UNCHANGED <<db, vtab, generation, nextRow, ddls>>

Savepoint ==
    /\ Open /\ Depth < MaxSavepoints
    /\ saves' = Append(saves, db)
    /\ vtab' = Mapped(vtab, LAMBDA c : Marking(c, Depth))
    /\ Ends("ok")
    /\ UNCHANGED <<db, generation, nextRow, ddls, begins>>

Release(i) ==
    /\ Open /\ i < Depth
    /\ saves' = SubSeq(saves, 1, i + 1)
    /\ vtab' = Mapped(vtab, LAMBDA c : Releasing(c, i))
    /\ Ends("ok")
    /\ UNCHANGED <<db, generation, nextRow, ddls, begins>>

RollbackTo(i) ==
    /\ Open /\ i < Depth
    /\ Orderly => ~Unsettled /\ (saves[i + 2].source = db.source \/ Quiet)
    /\ db' = saves[i + 2]
    /\ saves' = SubSeq(saves, 1, i + 2)
    /\ vtab' \in Reloaded(Mapped(vtab, LAMBDA c : Returning(c, i)), db, db')
    /\ Ends("ok")
    /\ UNCHANGED <<generation, nextRow, ddls, begins>>

UndoAll(result) ==
    /\ db' = saves[1]
    /\ saves' = <<>>
    /\ vtab' \in Reloaded(Ended(vtab), db, db')
    /\ Ends(result)
    /\ UNCHANGED <<generation, nextRow, ddls, begins>>

\* Every instance syncs, then every instance commits; an xSync that fails
\* makes SQLite roll the whole transaction back.
Commit ==
    /\ Open
    /\ IF SyncFails(vtab, db) THEN UndoAll("commit refused")
       ELSE /\ db' = [db EXCEPT !.stored = Plus(@, Staged(vtab))]
            /\ saves' = <<>>
            /\ vtab' = Ended(vtab)
            /\ Ends("ok")
            /\ UNCHANGED <<generation, nextRow, ddls, begins>>

\* ROLLBACK, or a COMMIT something else refuses.
Rollback == Open /\ UndoAll("ok")

-----------------------------------------------------------------------------
Fires == db.hooks # None /\ db.hooks.source = db.source

\* A row enters the source; the hook hands it to the view's instance.
Write ==
    /\ Open /\ nextRow <= MaxWrites
    /\ nextRow' = nextRow + 1
    /\ LET v == Begun(Connected(vtab, db, generation))
           written == [db EXCEPT !.rows = @ \cup {nextRow}]
       IN  \/ /\ ~Fires
              /\ db' = written /\ Ends("ok")
              /\ UNCHANGED vtab
           \/ /\ Fires /\ ~Refuses(v, db, generation)
              /\ db' = written /\ Ends("ok")
              /\ vtab' = Staging(Refreshed(v, db, generation), nextRow)
           \/ /\ Fires /\ Refuses(v, db, generation)
              /\ vtab' = v /\ Ends("write refused")
              /\ UNCHANGED db
    /\ UNCHANGED <<saves, generation, ddls, begins>>

\* A statement of the user's own that stages a row and then aborts: its
\* savepoint takes the row back, the instance has joined and bound.
AbortedWrite ==
    /\ Open /\ Fires /\ nextRow <= MaxWrites
    /\ LET v == Begun(Connected(vtab, db, generation))
       IN  /\ ~Refuses(v, db, generation)
           /\ vtab' = Refreshed(v, db, generation)
    /\ Ends("ok")
    /\ UNCHANGED <<db, saves, generation, nextRow, ddls, begins>>

\* xOpen drains first; an instance that never bound has nothing to drain.
Read ==
    /\ db.view # None
    /\ LET v == Connected(vtab, db, generation)
           c == v.current.collector
       IN  /\ ~DrainFails(v, db, v.current)
           /\ db' = IF c = 0 THEN db
                    ELSE [db EXCEPT !.stored = Plus(@, v.collectors[c].staged)]
           /\ vtab' = IF c = 0 THEN v
                      ELSE [v EXCEPT !.collectors[c].staged = NoRows]
           /\ outcome' = "ok"
           /\ seen' = [rows |-> db.rows, stored |-> db'.stored]
    /\ UNCHANGED <<saves, generation, nextRow, ddls, begins>>

-----------------------------------------------------------------------------
(* DDL. Under Orderly an application renames a source (or rolls a rename   *)
(* back to a savepoint) and drops the view only while Quiet, creates views *)
(* outside savepoints, and reloads no schema while Unsettled.              *)

DdlStep ==
    /\ Open /\ ddls < MaxDdl /\ ddls' = ddls + 1
    /\ UNCHANGED <<saves, nextRow, begins>>

\* sqlite_ivm_rename_source: the generation moves first; the ALTER reloads
\* the schema and reconnects the view before its query is rewritten.
RenameSource(new) ==
    /\ DdlStep /\ new # db.source /\ (Orderly => Quiet)
    /\ generation' = generation + 1
    /\ LET altered == Altered(db, new)
       IN  IF Dependent(db) /\ ~ManifestHolds(db)
           THEN Ends("ddl refused") /\ UNCHANGED <<db, vtab>>
           ELSE /\ db' = IF Dependent(db) THEN Rewritten(altered, new) ELSE altered
                /\ vtab' = IF db.view = None THEN vtab
                           ELSE Connected(Detached(vtab), altered, generation')
                /\ Ends("ok")

\* A rename that fails is rolled back; the generation it bumped is not.
RenameSourceFails ==
    /\ DdlStep /\ (Orderly => ~Unsettled)
    /\ generation' = generation + 1
    /\ vtab' \in {vtab, Detached(vtab)}
    /\ Ends("ok")
    /\ UNCHANGED db

\* ALTER TABLE RENAME of the view: xRename refreshes, checks the manifest
\* and rewrites the catalog; then the schema is reloaded.
RenameView(new) ==
    /\ DdlStep /\ db.view # None /\ new # db.view
    /\ Orderly => ~Unsettled
    /\ LET v == Connected(vtab, db, generation)
           refreshed == Refreshed(v, db, generation)
       IN  IF Refuses(v, db, generation) \/ ~ManifestHolds(db)
           THEN Ends("ddl refused") /\ vtab' = Detached(v) /\ UNCHANGED db
           ELSE /\ db' = Retitled(db, new, refreshed.current.query)
                /\ vtab' = Detached(refreshed)
                /\ Ends("ok")
    /\ UNCHANGED generation

\* The rename fails half-way: its savepoint restores db, the view reconnects.
RenameViewFails ==
    /\ DdlStep /\ db.view # None
    /\ Orderly => ~Unsettled
    /\ LET v == Connected(vtab, db, generation)
       IN  vtab' = Detached(Refreshed(v, db, generation))
    /\ Ends("ok")
    /\ UNCHANGED <<db, generation>>

\* xCreate puts the instance in the transaction without an xBegin.
CreateView(view) ==
    /\ DdlStep /\ db.view = None /\ (Orderly => Depth = 0)
    /\ LET c == Free(vtab)
       IN  /\ db' = Installed(view, db.source, db.rows)
           /\ vtab' = [Enrolled(vtab, c) EXCEPT
                         !.joined = TRUE,
                         !.current = [query |-> db.source, program |-> view,
                                      generation |-> generation,
                                      collector |-> c]]
    /\ Ends("ok")
    /\ UNCHANGED generation

\* xDestroy: the instance leaves with its collector and is called no more.
DropView ==
    /\ DdlStep /\ db.view # None /\ (Orderly => Quiet)
    /\ IF ManifestHolds(db)
       THEN /\ db' = Uninstalled(db)
            /\ vtab' = Freed([vtab EXCEPT !.current = None, !.joined = FALSE])
            /\ Ends("ok")
       ELSE Ends("ddl refused") /\ UNCHANGED <<db, vtab>>
    /\ UNCHANGED generation

Next ==
    \/ Begin \/ Savepoint \/ Commit \/ Rollback
    \/ \E i \in 0 .. MaxSavepoints - 1 : Release(i) \/ RollbackTo(i)
    \/ Write \/ AbortedWrite \/ Read
    \/ \E new \in SourceNames : RenameSource(new)
    \/ \E new \in ViewNames : RenameView(new) \/ CreateView(new)
    \/ RenameSourceFails \/ RenameViewFails \/ DropView

Spec == Init /\ [][Next]_vars

-----------------------------------------------------------------------------
(* Properties.                                                             *)

\* The variables have their types, and every instance holds a collector
\* exactly when a plan is bound.
InstanceOK(i) ==
    /\ i.query \in SourceNames \cup {None} /\ i.program \in ViewNames \cup {None}
    /\ i.generation \in 0 .. Never /\ i.collector \in 0 .. MaxCollectors
    /\ i.query = None <=> i.collector = 0

TypeOK ==
    /\ db.rows \subseteq Rows /\ db.stored \in Bags
    /\ Len(saves) <= MaxSavepoints + 1
    /\ vtab.current # None => InstanceOK(vtab.current)
    /\ \A k \in DOMAIN vtab.old : InstanceOK(vtab.old[k])
    /\ vtab.joined => vtab.current # None
    /\ \A c \in 1 .. MaxCollectors : vtab.collectors[c].staged \in Bags
    /\ generation \in 0 .. MaxDdl

\* While a view is installed every row of its source is either in the stored
\* results or staged for them, exactly once: across savepoints, partial
\* rollbacks, mid-transaction drains, reconnections and renames. README.md:5:
\* "Rollback and savepoints cover source rows, pending deltas, and results
\* together."
PendingDeltasAreCovered ==
    db.view # None => Plus(db.stored, Staged(vtab)) = Each(db.rows)

\* A read inside a transaction returns the view of every row written so far,
\* whichever instance the read opened. 2_vtab.rs:692: "Read-your-writes: a
\* read inside the transaction drains first."
ReadsSeeWrites == seen # None => seen.stored = Each(seen.rows)

\* No legal statement or COMMIT is refused by the maintenance of the view.
NothingIsRefused == outcome = "ok"

\* Instances that drain in one transaction drain one batch, so a read
\* through any of them empties what all of them staged (2_vtab.rs:27).
OneBatch ==
    \A j, k \in DOMAIN Transaction(vtab) :
        LET a == Transaction(vtab)[j].collector
            b == Transaction(vtab)[k].collector
        IN  a # 0 /\ b # 0 => a = b

\* The catalog describes the objects that exist: the query reads the source
\* by its present name, the hooks carry the present names of both, and the
\* manifest a later rename or drop checks is met.
CatalogMatchesSchema ==
    db.view # None =>
        /\ db.query = db.source /\ db.recorded = db.source
        /\ db.hooks = Hooks(db.view, db.source) /\ db.tables = db.view
        /\ ManifestHolds(db)
=============================================================================
