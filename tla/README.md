# Verification of sqlite_ivm's maintenance engine

sqlite_ivm is a SQLite extension. `CREATE VIRTUAL TABLE v USING sqlite_ivm('SELECT ...')`
stores the rows of a query and keeps them right while its source tables change.
Triggers on the sources stage row changes; a read of the view inside the
transaction, or its commit, drains the staged batch through the view's plan and
applies the resulting delta to the stored rows. This directory models that
machinery in TLA+, model-checks it with TLC and proves facts about it with TLAPS.

## The system

### Components

| component | code (`src/`) | state it keeps | operations |
|---|---|---|---|
| virtual table, transactions | `2_vtab.rs` | one `Table` per connection of a view, `ViewChanges` shared by its instances, staged rows in the collector, the DDL `generation` it last saw | create/connect, insert (staging), open (read: drains), sync (commit: drains), commit, rollback, savepoint/release/rollback to, refresh, rename, destroy |
| plan compiler | `0b`..`0f`, recursive part `0e` | none | query text to a plan: nodes in topological order, one output; a recursive CTE becomes one node with rules |
| scratch out tables | `1a_relational.rs` `assign_out_slots`, `1b_state.rs`, `1d_drain.rs` | temp tables holding the nodes' deltas of the running population or drain, shared by nodes of one width | assign, clear, fill, sweep |
| population | `1b_state.rs`, `1c_materialize.rs` | arrangements, member tables, support counts, the stored rows | every node once, bottom up, from the sources |
| drain | `1d_drain.rs`, statements from `1e_program.rs` | the same tables | seed inputs, each touched node, apply_state, sweeps |
| recursive node | `1d_drain.rs` `fixpoint`, `1e_program.rs` | member table, work table (both AUTOINCREMENT), deleted table | population rounds; per touched side: delete rounds, restore, derive rounds, arrivals, derive rounds, delta |
| joins | `1e_program.rs` `join_delta_statements` | none (reads sources, subtracting the pending delta for the state before the batch) | dL\*R + L\*dR - dL\*dR |
| set membership | `1cb_set_membership.rs` | support count and one representative per key of UNION and DISTINCT | count update, representative replacement, diff |
| aggregates | `1e_program.rs` `aggregate_delta_statements` | non-null counts per group, a `safe` flag | incremental sums within bounds, else recompute |
| other arrangements | `1d_drain.rs` `drain_arrangement` | none or a key arrangement | park the old output of touched keys, recompute, diff |
| catalog | `0a_catalog.rs`, `2_vtab.rs` | `__ivm_views`, `__ivm_schema`, `__ivm_objects`, `__ivm_sources`, `__ivm_columns` | install, manifest check, rename, migrate, uninstall |
| source DDL | `2a_source_ddl.rs` | a process-wide generation counter | rename source, rename column, drop source, each in a savepoint |
| staged-row collector | `sqlite_ext` (another repository) | net staged rows, savepoint marks | update, drain, savepoint, release, rollback to |
| frontier engine | `crates/ivm-sqlite` `4_engine.rs`, `engine.rs`, `3_nodes.rs` | a delta table, an image or neither per node, accumulators, the loop's scratch tables | settle, mark, rewind |
| frontier catalog and composition | `crates/ivm-sqlite` `catalog.rs`, `composition.rs`, `lib.rs`, `engine.rs` | `frontier_catalog`, `frontier_dependency`, one collector per program or pair, the callbacks of a connection | install, drop, compose, drop a composition, reattach on load, settle at COMMIT |
| typed programs and lowering | `crates/ivm-ir` `0_ir.rs`, `crates/ivm-engine` `1_rel.rs`, `crates/ivm-sqlite` `3_nodes.rs` | none | a program's nodes and strata to the tables, views, statements and gates of a settle |
| frontier planner | `crates/ivm-sqlite` `plan.rs` | none | SQL to a typed program |
| terms and composition | `crates/ivm-ir` `1_terms.rs`, `3_str_ops.rs`, `4_compose.rs` | the dictionary of texts and terms | intern, compare, string operators; several programs made one |
| dataflow engines and host | `crates/ivm-dd`, `crates/ivm-dbsp`, `crates/ivm-engine` `2_host.rs` | the guard's copy of the sources, a circuit of the library, the dictionary; the host's sums | install, settle, intern |
| DuckDB and RxJS engines | `crates/ivm-duckdb`, `crates/ivm-rxjs` | - | run the same programs elsewhere |

### Interaction

Everything runs on the connection's own thread, inside the host's statement:
there are no threads to interleave. What makes it hard is order and failure:

- A transaction is any sequence of writes, reads (each drains what is staged),
  commit or rollback. A drain consumes the staged rows before it works.
- A batch touches several inputs of one node at once. The sources are already in
  their final state; the state before the batch is recomputed by subtracting the
  delta. A recursive node handles its touched inputs one after another.
- "New since" is a rowid comparison in tables that are deleted from and
  inserted into by the same pass.
- Nodes share temp tables by lifetime; an empty table at the right time is what
  keeps one node's rows out of another's.
- Loops are cut off by budgets, counts by integer bounds. A failing commit rolls
  back; a failing read does not.
- SQLite owns the order of the virtual-table callbacks. After a schema change it
  keeps the old instance of a view in the open transaction beside the new one,
  and what instances hold in memory does not roll back with the database.
- The frontier engine shares no code with the views: it is handed a batch of
  changes, settles it in one savepoint and returns the output's delta. Its programs
  have a catalog and collectors of their own; a producer's output change is
  handed to its consumer within the same commit.
- A pair of programs is installed and dropped in several transactions, and the
  extension reads what they left when it is loaded again.

### What makes each component correct

- Recursive node: between drains its members are the least fixpoint of the rules
  over the sources, up to key equality; the emitted delta is the difference of
  the members; scratch is empty; a rollback restores everything.
- Out tables: a node reads exactly the deltas its inputs wrote in this drain, and
  every table is empty between drains.
- Set membership: counts equal the support, one representative per key, always one
  of the rows that support it; the deltas add up to one row per key.
- View transactions: every row of the sources is stored or staged exactly once,
  whatever savepoints, reads, refreshes and instances intervene.
- Relational nodes: each delta is the difference of what the node shows before and
  after the batch, although nothing of the state before it is kept.
- Aggregates: the incremental value equals the recomputed one whenever the
  eligibility check passes, and a group that once leaves the bounds is never
  added to again.
- Catalog and source DDL: the manifest matches the schema after every
  operation, failed ones included.
- Frontier engine: after every settle, failure and rewind each stored image is a
  fresh evaluation of the program, and nothing is left in the working tables.
- Dataflow engines: the circuit is given every accepted row and every new term once,
  although terms are minted while it runs; the deltas add up to what the program
  means over the texts and terms there are.
- Frontier catalog: after every commit each installed view is current; every
  collector is the present one of an installed program; a database whose calls all
  returned loads again.

## Modules

| module | models |
|---|---|
| `Fixpoint` | one recursive node and the drain around it |
| `MCFixpoint` | reachability, reachability with two spellings, a transitive closure for TLC |
| `IncrementalView` | the abstract view: query over the sources at each read and commit |
| `FixpointProofs` | theorems about `Fixpoint`: types, scratch, stored and emitted rows, rounds; the members are the least fixpoint, no refusal, the refinement |
| `OutTables` | slot assignment and the life of the out tables |
| `MCOutTables` | every plan of a given size |
| `OutTablesProofs` | theorems about `OutTables` |
| `SetMembership` | one UNION or DISTINCT node: counts, representatives, deltas |
| `MCSetMembership` | two inputs and two spellings of a key for TLC |
| `SetMembershipProofs` | theorems about `SetMembership` |
| `AggregateDelta` | the output node of a grouped count and sum: both maintenance paths |
| `MCAggregateDelta` | two groups with every kind of value for TLC |
| `AggregateProofs` | theorems about `AggregateDelta` |
| `Sums` | the sum of a function over a finite set |
| `SumsProofs` | what taking out an element, agreeing functions and unions do to a sum |
| `ZSets` | weighted rows and what SQL computes from them, used by both engines |
| `SqlQueries` | SELECT statements and what SQLite answers to them: the reference |
| `SqlCompiler` | `bind`: a SELECT becomes a plan |
| `RelationalDrain` | a view from its SELECT on: plan, population, drains |
| `MCRelationalDrain` | eighteen SELECTs over two tables; plugs the compiler and SQLite in |
| `RelationalDrainProofs` | theorems about `RelationalDrain`: every delta is its change, drains come to a population |
| `ViewTransactions` | one view in SQLite's transactions: callbacks, savepoints, collectors, DDL |
| `MCViewTransactions` | two names for the source and the view |
| `ViewTransactionsProofs` | theorems about `ViewTransactions` |
| `IrPrograms` | typed programs and what they mean: the reference of the second engine |
| `FrontierPlanner` | a SELECT becomes a program |
| `FrontierLowering` | a program becomes the nodes, tables, views and gates of a settle |
| `FrontierEngine` | the settle of the frontier engine, its loop, mark and rewind |
| `Terms` | the dictionary, the order of cells, string operators |
| `TypedPrograms` | programs over texts and terms: types, what they mean, and what the dataflow engines' operators make of them |
| `ProgramComposition` | several programs made one |
| `DataflowEngines` | install, settle and interning of the engines on differential dataflow and DBSP |
| `EngineHost` | a host over whichever engine it was given |
| `TypedSamples` | eight programs over texts and terms |
| `MCFrontierEngine` | three SELECTs and nine programs for the second engine, the samples for the others |
| `FrontierCatalog` | programs and pairs in one database: install, compose, drop, commit, crash, load |
| `MCFrontierCatalog` | three names, two tables, five queries |
| `FrontierCatalogProofs` | theorems about `FrontierCatalog` |

The modules meet where the code does. `RelationalDrain` runs what `SqlCompiler` made
and takes the turn of a set node and of a grouped output at the level their own
modules refine; `OutTables` shows that the out tables it reads hold what it
assumes; `Fixpoint` is the turn of the one node it leaves out. `FrontierEngine` settles what
`FrontierLowering` made of a program that `FrontierPlanner` may have made of a SELECT, `DataflowEngines`
what `ProgramComposition` made of several; `EngineHost` is the host of either. `ViewTransactions`
takes the drain as one step and models everything around it. `FrontierCatalog` does
the same for the frontier engine: a settle, `FrontierEngine`'s whole subject, is one
step of a COMMIT there.

### Fixpoint

A rule joins input rows with at most one member. `Clause` is the set of ground
rule instances: head, member or none, and the input rows read, each at its side.
Every statement of the engine is a set of clauses that fire over chosen versions
of the inputs and of the member table, so SQL is abstracted to sets, and the
control that decides which statements run over which versions is kept.

| state | code |
|---|---|
| `support`, `pending` | copies of each source row; net staged rows |
| `allId`, `allSeq`, `workId`, `workSeq` | member and work table: rowid of each stored row and the AUTOINCREMENT mark. Rows one statement stores share a rowid; the code compares rowids only with maxima taken between statements |
| `deleted` | members the delete pass dropped, exact rows |
| `gone`, `come` | the out table, its -1 and +1 rows |
| `result` | the view's state table |
| `phase`, `at`, `start`, `from`, `rounds`, `departed` | the locals of `fixpoint`, `rounds` and the side loop |
| `written`, `reading`, `partial` | the drain wrote; it serves a read; a failed read left its writes |
| `saved` | what ROLLBACK restores |

Actions follow the code in order: `Create`, `Anchor` (one rule each),
`PopulateRound`, `Populated`, `PopulateFails`; `Write`, `StartDrain`, `Commit`,
`Rollback`; per side `SkipSide`, `StartArrivals` or `StartDepartures`,
`DeleteRound`, `Restore`, `DeriveRound`, `RestoreDone`, `Arrive`, `DeriveRound`,
`Emit`; then `Apply`, or `CommitFails` / `ReadFails`. `INSERT OR IGNORE` stores
one row per missing key, whichever the scan meets first (`Stores` is a set of
possible outcomes). The statements of one loop iteration are one action: a later
one may in the code already read members an earlier one stored, which the model
finds in the next round.

`IncrementalView` knows only the sources, what was committed and what a reader
sees. `Fixpoint` implements it (`ImplementsView`): a drain is invisible until
`Apply`, which is a refresh or a commit; `CommitFails` is a rollback.

### OutTables

A row of a delta is the node that wrote it, so a table is a set of nodes. The
module runs `assign_out_slots` over an arbitrary plan, then population with its
reader counts, then any number of drains with commits, rollbacks and failures.
What a drain does with rows that a failed read left in the tables is not
followed (`StartDrain` requires `~dirty`).

### SetMembership

A copy is one occurrence of a row in one of the two inputs, so an input is a set
of copies and a stored count is a cardinality. `Row` gives a copy its row and `Key`
a row its key; two rows of a key are spellings equal under the collations, which
is where a representative matters. `state` is the table `<view>_op<id>x0`, `result`
what the emitted deltas add up to. `Drain` is the whole turn of the node: the
update, the support check, the choice of new representatives for every touched
key once one representative was removed, the removal of empty entries, and the
delta consolidated from the touched keys' rows before and after. A batch may add
and remove a copy of one row at once (both signs in the inputs' out tables).
Where the code orders spellings by their exact bytes or by rowid, the model may
take any of them.

### AggregateDelta

A copy is one occurrence of an input row; `Value` gives what it adds to the sum: NULL,
an integer or a REAL. A sum carries whether it is REAL, since `1` and `1.0` are
different results and a REAL contribution added to a stored integer would leave
its type behind after the row is gone; that is why the code tests `typeof`. `meta` is
the table `<view>_op<id>x1`, `result` the stored row of each group. `AddDelta` and `Recompute`
are the two branches of `drain_arrangement` with everything they call; a group
recomputed once stays so, because its flag is never set again, but its siblings
are still added to. Eligibility is one test for the whole batch. A query without
a key has one group whose row is shown even when empty; `keyed` is chosen at
creation. Several sums share the flag and differ in their non-null counts only, so
one is modelled. Left out: a stored row found corrupt, which sends the reading of
the old row to the sources, and integer sums that leave 64 bits.

### ZSets, SqlQueries, SqlCompiler and RelationalDrain

A row is a sequence of integer cells, a table a function from its rows to
nonzero weights. `ZSets` says what the SQL of an operator computes from such
tables; `Null` is a cell that equals nothing in a join.

`SqlQueries` has the syntax of a SELECT as records and `Answer`, what SQLite
answers to it. Its rows are functions from names to cells, so USING, NATURAL,
stars, aliases, correlated EXISTS and WITH follow the language and know of no
position. It is external, as SQLite is; the compiler shares its syntax and nothing else.

`SqlCompiler!bind` is the whole compiler: `table`, `from`, `FromStep`
(`where_keys_for_step`, `index_pairs`, the merged columns of USING), `predicate` (EXISTS as
semi and anti joins), `StarItem` and `ExprItem`, `GroupTerm`, `OrderTerm`,
`project_group_input`, compounds, common tables and their scope, and `recursive` with
its rules. A refused SELECT is `ok` FALSE.

| state of `RelationalDrain` | code |
|---|---|
| `view`, `plan` | the view's SELECT; what `bind` made of it |
| `source`, `staged` | the source tables, already written; the collector's net rows |
| `out[k]` | the out table of node `k` |
| `member[k]` | the counts of a UNION or DISTINCT node |
| `state`, `refused` | the view's rows; `apply_state` failed |
| `at` | the node whose turn it is |

`Init` is CREATE over whatever the tables hold: `bind`, then population. A drain is
`StartDrain` (seed the inputs), then for each touched node in order its turn
(`RunLinear`, `RunInnerJoin`, `RunSet`, `RunArrangement`, each with `apply_state` when the node
is the output), then `EndDrain`. What a node reads is the point: `Live` is its input
recomputed from sources that are past the batch, down to a stored set table that
this drain has already updated; `Former` takes the delta away again; `StoredRows` is the
shortcut of an output grouped by columns it shows. `ResultIsQuery` compares the
stored rows with `Answer`, so it spans the compiler, population and every drain.

Left out: the text of expressions, affinity and collation beyond one tag a column, catalog
probes, IN subqueries, FILTER, named windows and windows other than `row_number`,
products that leave 64 bits, the spelling of rows. A view with a recursive node is compiled and
populated here and drained in `Fixpoint`.

### ViewTransactions

`db` is what SQLite stores and rolls back: the source's rows and name, the view's name, query,
recorded source, hooks, tables, manifest and stored rows. `saves` is `db` at BEGIN and at each
savepoint. `vtab` is what lives in memory: the current instance, whether it has
joined the transaction, the old instances a reload left in it, the collectors and
the registry that lets instances share one. A row is the number of the insert
that made it, so a lost row and a doubled one both show.

| action | code |
|---|---|
| `Begin`, `Savepoint`, `Release`, `RollbackTo`, `Commit`, `Rollback` | the callbacks on every joined instance, xSync before xCommit, a failing xSync undoing the transaction, a rollback of a schema change reloading the schema |
| `Write`, `AbortedWrite` | the hook's insert into the view: connect, begin, refresh, stage; the same under a statement that aborts |
| `Read` | xOpen: drain, then rows |
| `RenameSource`, `RenameSourceFails` | `sqlite_ivm_rename_source`: generation, ALTER (which reconnects the view), the rewrite of query, hooks and manifest |
| `RenameView`, `RenameViewFails`, `CreateView`, `DropView` | xRename, xCreate, xDestroy with their catalog writes |

`Orderly` restricts the environment, not the engine: sources are renamed, renames rolled back to a savepoint, and views dropped only while no instance of the
view is in the transaction (`Quiet`); views are created outside savepoints; the
schema is not reloaded while an instance is joined without xBegin (`Unsettled`).
Each restriction excludes one of the behaviours under Findings and Known
behaviours; `dropped_deltas` runs without it.

Left out: the spill table of an interrupted process, catalog migration, statements
outside BEGIN (each is a transaction of its own), two views, and a drain that
fails half-way (`Fixpoint`).

### IrPrograms, FrontierPlanner, FrontierLowering and FrontierEngine

`IrPrograms` has the operators of a typed program, its strata (`Let`, `LetRec`) and
`Meaning`, its output over whole tables: nothing incremental, a LetRec is the iteration
of its bodies from nothing. Integers are words of `MinInt..MaxInt` and wrap around.

`FrontierPlanner!Planned` is `plan.rs` from the SELECT on: scans, joins keyed on one equality,
the columns pushed into them, UNION, GROUP BY with counts and sums, and what it refuses.

`FrontierLowering!compile` is `SqlRel` and `NodesPlan::compile`. Per IR node it makes nodes whose
delta is a table or a common table expression of its readers (`inline`), whose
image is a table (`stored`), a view (`viewed`, while it reads at most `ViewTables`
tables and every probed column passes through) or neither, and whose owner is the settle, the loop, or
the copies by which a loop reads what is outside it. `inline_joins` counts the statements that
read a delta to decide which joins and unions are worth a table; `gates` finds the tests on a
key that let a fill be skipped. These choices decide in which order statements take effect.

`db` of `FrontierEngine` holds everything a savepoint covers: sources, `image`,
`delta`, the accumulators (`groups`), the arrangements of MIN and MAX (`arr`) and the loop's `acc`, `del` and `hold`. `active` is the
engine's own idea of which deltas are nonempty: a statement none of whose deltas are
active is skipped, and so is a clear. `nx` never outlives a round and is
a local value. Views are evaluated where they are read (`Images`), which is how a
reader sees the image of before or after an integration.

| action | code |
|---|---|
| `Submit` | the host's changes, checked and staged; SAVEPOINT |
| `FillNode`, `SkipLoop` | one step of `run` |
| `EnterFixpoint`, `DeleteRound`, `InsertRound` | `fixpoint`: delete seeds, stash, over-deletion; rederive, restore; insert seeds, rounds; finish |
| `EnterRecompute`, `RecomputeRound` | `recompute`: capture and reset, rounds, limit, finish |
| `ReadOutput`, `Return` | output delta; images, clears, RELEASE |
| `Fail` | any statement fails, or the limit is reached: ROLLBACK TO, RELEASE |
| `Mark`, `Rewind` | `mark`, `rewind` |

`Values` and `Fixed` evaluate the plan afresh: every node from the sources, the variables
iterated from nothing (`ImagesAreEvaluation`). `TableAnswer` does not know of the plan: what the host
added up is SQLite's answer to the SELECT, or the program's `Meaning`, so it spans planner, lowering
and every settle.

Left out of this engine: constructors, texts and the repeated passes that follow them, a
LetRec nested in another, several outputs, windows other than `row_number`, descending orders, columns
of other types than integer, flat vectors, counters. The staged changes are
cleared when the next settle begins; the model clears them at the end. A
recomputation without a limit need not end, in the code as in the model, so a program
that may not converge has one.

### Terms, TypedPrograms, ProgramComposition, DataflowEngines and EngineHost

The engines on differential dataflow and on DBSP build a circuit from a program and leave
its upkeep to their library, which is trusted: a step of the circuit makes its
collections what the program's operators make of its inputs. What the engines do
themselves is modelled. `Terms` has the dictionary, a sequence of texts and terms whose index is
the cell, the order the engines compare cells by, the sort keys, and the string operators.
`TypedPrograms!Evaluation` evaluates a node twice over: with `engine` "none" it is the reference, which says
what a node means once every term it names is there; with "dd" or "dbsp" it is the operator the engine
builds, which mints as it runs, orders and groups as that engine does, and reads the constructors fed to it.
A text is a sequence of characters 1 and 2, since prefixes, order and concatenation are what operators see;
a negative cell is an atom no text or term stands for. Join, antijoin, top-k, window and filter of either engine
have definitions of their own, which the runs compare with the reference.

| action of `DataflowEngines` | code |
|---|---|
| `Installed` | `Dd::start` and the worker's install, `Dbsp::install`: literals interned, types, which constructors are read, refusals |
| `Settle` | `guard` accepts changes one by one (`WeightAt`), folds them into its sets (`Sourced`) and has each pushed with its own weight (`Pushed`); `feed_pending` |
| `Step` | one transaction of the circuit; what it interned drives another |
| `Answered`, `LimitHit` | the delta or the LetRec limit's error, after which the differential worker is gone |
| `Intern` | `intern_terms`, and `intern_term_batch` with terms that name earlier ones of the batch |

`compose` is the whole of `4_compose.rs`. `EngineHost` is `Runtime` over any `Engine`: its behaviours are
those of `FrontierEngine` and of `DataflowEngines`, its `HostHasTheAnswer` compares what the host added up with
what each part of a composed program means by itself. The client of an instance gives cells that exist (`Told`), which
is the host's contract.

`InputsAreWhole` compares the two things `Settle` makes of the accepted changes: the guard's sets, where a change is
a row that comes or goes, and the circuit's input, where it is a weight; and the constructor rows fed in several steps with
the terms there are. Frontiers name one row more than once (deleted twice, deleted and inserted), which is
where only the changes accepted before tell what is to be accepted.

Left out: changes of an unknown relation, width or weight, which `guard` refuses with their frontier,
`Any` and real cells, flat vectors, taps, counters, declared constructors, the
channels to the worker thread, which answer one call at a time, and hoisting, by which they move a part of
a loop's body out of its child circuit.

### FrontierCatalog

What a program keeps of a source is the sum of the deltas it was handed (`held`), and
its output is a function of that, a union or a join of its sources; so a delta
missed, doubled or handed to the wrong program shows in the view.

| state | code |
|---|---|
| `base`, `committed` | the base tables as the connection sees them and as last committed |
| `catalog`, `deps` | the rows of `frontier_catalog` (install number, frontier, program) and of `frontier_dependency` |
| `slots`, `bound` | collector tables in the schema with the tables each watches; the callback of each in this connection |
| `mode` | the extension is loaded, the process is down, or the load was refused |
| `call` | the pair call in progress and the transaction it is at |
| `staged`, `touched`, `writes` | the rows collected in the open transaction |

| action | code |
|---|---|
| `Install`, `Drop` | `sqlite_ivm_frontier_install`, `sqlite_ivm_frontier_drop`: one savepoint each |
| `Compose`, `InstallProducer`, `InstallConsumer`, `Register`, `Record`, `UndoConsumer`, `UndoProducer` | `Composition::install`, a transaction a step, with every way it turns back |
| `DropPair`, `DropCollector`, `RegisterAgain`, `DropHalf`, `DropEdge` | `Composition::open`, then `teardown` |
| `Write`, `Commit`, `Rollback` | a row through the collector's triggers; xSync of each collector that holds rows, one program or producer then consumer, failing or not |
| `Crash`, `Load`, `WriteWithout` | the process ends anywhere; `reattach_database`; a connection without the extension, which can write only tables no collector watches |

The collector, its triggers and its callback belong to `sqlite_ext`, and are external:
`watch` needs a name no table has, `reattach` needs one that a table has, dropping the table
drops the triggers. Calls are made outside a caller's transaction, from one connection. A load
that is refused stays refused until the database changes. `DropsHalves` FALSE keeps
`sqlite_ivm_frontier_drop` away from half of a pair (Known behaviours).

Left out: typed programs with created sources and shards, migration of a catalog of an older
file, the column catalog, errors of the undo steps, which the code ignores.

### Slip operators

An operator named `Slip...` is its neighbour with a plausible mistake: rowids
reused, a pass that does not clear its scratch, a reader counted once, an
interval test off by one. Nothing refers to them. Each run was repeated with a
Slip in place of the original to see that its properties can fail.

## Runs

| run | instance and bounds | question |
|---|---|---|
| `reach_orderly` | reachability over NOCASE text: 4 members, two of them spellings of one key, a cycle; 2 drains; orderly batches | types, least fixpoint, deltas, scratch, rounds, apply_state, refinement |
| `closure_any` | transitive closure over a ring of 4 and a chord, both sides read one table, a budget of 2 rounds, 1 drain, every batch, under fairness | nothing derivable is lost, every statement returns |
| `out_tables` | every plan of 4 nodes of one width | no mixing, no leftovers |
| `set_membership` | UNION, 7 copies of 3 rows under 2 keys over both inputs, every batch at every state | counts, representatives, deltas, no refusal |
| `aggregate` | 6 copies in 2 groups, `MaxRows` 3 and `MaxAbs` 2: small integers, one too large, a NULL, a REAL; keyed and not; every batch at every state | flag, counts, both paths store what the query computes |
| `relational` | 18 SELECTs, one refused, over 2 tables of 3 and 2 possible rows with NULL keys; empty, half full or full at CREATE, up to 4 rows; 2 rows in a batch | the stored rows are SQLite's answer, every node's delta, no refusal |
| `view_transactions` | 2 names for source and view, 3 writes, 2 DDL statements, 2 savepoints, 2 transactions, 1 reload that undoes nothing, 2 collectors; orderly DDL; names symmetric | stored plus staged is the source, reads, no refusal, one batch, catalog |
| `frontier` | 3 SELECTs and 9 programs over tables of 3, 1 and 1 rows, words of 3 bits, 2 changes in a settle (1 after a mark), views of 6 tables; 8 programs over texts and terms on two dataflow engines, 3 or 4 rows, frontiers of 2 changes, dictionaries that grow to 8 entries before a client stops interning; under fairness | images, the host's copy is the answer, leftovers, the circuit's inputs, every settle returns |
| `frontier_catalog` | 3 program names, 5 queries over 2 tables of 1 row, 2 rows in a transaction, 2 frontiers of a program, install numbers to 4; any number of crashes and loads | views are current, collectors belong, compose is all or nothing, one frontier per commit, loads again |
| `stale_members` | reachability, every batch | finding 1 |
| `union_all` | every plan of 3 nodes | finding 2 |
| `dropped_deltas` | 1 write, 1 DDL statement, 1 savepoint, DDL at any time | finding 3 |

Bounds. `MaxCopies` is 1 where only zero crossings matter and 2 where a row must
survive the loss of one copy. `MaxDrains` 2 lets one drain's leftovers reach the
next. Two members and an anchor are enough for a cycle that can support itself; the
closure over a ring has paths of every length. `RoundBudget` is 100 where it must
not interfere, 2 where it must: a whole ring then exceeds it and its parts do
not. `MaxRounds` 4 is more than the rounds any recursive
table of the run takes. `MaxRows` and `MaxAbs` stand for the code's 1000000: small enough that one batch
can cross either. Four nodes allow a producer, a reader, a node that reuses the
producer's table and a late reader; one width is the worst case, since only nodes
of one width share a table.

A batch of two rows (`MaxBatch`) is the least that touches both inputs of a node, which
is where the cross term, the padded rows of an outer join and the order of the
passes matter; the SELECTs put every operator both above and below another, and each name rule of the compiler (a merged column, a shadowed common table, an alias that is also a column, a hidden order column) where a wrong column changes the rows. Two
savepoints are needed for a rollback to the outer one past a mark of the inner,
three writes for one before, between and after them, two DDL statements for a
reload followed by another, one transaction more to meet what the first left. Two changes make a
frontier that inserts and deletes, on one table or on two, or makes one change twice; after a mark one
suffices to leave the marked state. Three names make a pair and a third program whose view a
consumer may name beside its producer's; one row per table suffices since rows are settled
independently; two frontiers show a settle on top of a settle, four install numbers a number reused after
a drop. `MaxEvaluations` bounds the reference only: no program of the
instance needs more evaluations to repeat itself. The code's `VIEW_TABLES`, `SOURCE_READS` and `KEY_READERS` are
kept as they are: with them the programs have deltas of both kinds, images of all three, an inlined join, and key tests
read by enough statements to become gates. Words of 3 bits are the
least in which the sums of `moves` wrap around at both ends.

Orderly batches. Finding 1 shows that a batch whose departures reach a later
side than other changes can leave a stale member. `Orderly` names the batches
for which exactness does hold: nothing arrives, or no side before a departure is
touched; where `AnyBatch` is FALSE drains begin with these only. `NoMemberLost` holds for
every batch and is checked and proved for every batch.

Fairness. `FairSpec` of `Fixpoint` adds weak fairness on the steps of a statement that
has begun, and on nothing else: a population or a drain is a synchronous call
that waits for no other actor. The host is free never to write, read or commit.
`HostSpec` of `EngineHost` does the same for a settle that has begun in any engine, and counts on
the failure at the LetRec limit, which the code raises by itself, but not on other
failures. Its weak fairness is written out: the steps of a settle are enabled whenever
the engine is not idle.

Deadlock is checked except in `view_transactions` and `dropped_deltas`, where the bound on transactions ends
the behaviour.

Symmetry is used for the names of `view_transactions` only; no property there is
a temporal one.

## Findings

1. `stale_members`: one batch can leave a member nothing derives.
2. `union_all`: a UNION ALL view created over a nonempty second branch starts
   without its rows.
3. `dropped_deltas`: a view dropped and brought back by ROLLBACK TO misses the rows
   staged before the savepoint.

Each is quoted against the code and the documentation in `PROJECT.json`.

### Known behaviours

Met while modelling, kept out of the passing runs by their instances or by the orderly
environment, without a run of their own:

- Under a NOCASE key, two sides of one batch that each replace a member's stored
  spelling make `apply_state` retract a row the state table never held (`1d_drain.rs:286`);
  the passes' deltas are not consolidated. So do three sides and an orderly batch that only
  deletes: `n` is stored, one row deriving `N` leaves the second side and one deriving `n` the
  third; the second pass respells `n` as `N`, the third `N` as `n`, and `-N` finds no row
  (`1d_drain.rs:275`). The proof of `Accepted` met this one, and asks for keys that tell rows apart.
- A drain that fails while serving a read (`2_vtab.rs:693`) keeps what it wrote, although
  `1d_drain.rs:157` says a failed drain aborts the enclosing statement: a
  SELECT has no statement journal. `Fixpoint!ReadFails` is that step, its properties
  exempt what follows it.
- Rows staged, then the source or a column renamed, then COMMIT: the drain does not
  refresh (`2_vtab.rs:564`) and the commit is refused. A SELECT in between finds an unbound or
  new instance and misses the staged rows, against the comment at `2_vtab.rs:692`.
- SAVEPOINT, rename of a source, INSERT, ROLLBACK TO, INSERT, COMMIT is refused for the
  same reason.
- SAVEPOINT, CREATE VIRTUAL TABLE, ROLLBACK TO, COMMIT is refused: the instance is still
  called and its view is gone. So is INSERT, ALTER TABLE view RENAME, DROP, COMMIT.
- An instance that joined without xBegin lets the next one begin their collector again
  (`2_vtab.rs:619`), which loses staged rows.
- A window function, or a LIMIT that is not the output, recomputes its former rows over a
  read grouped by the exact row (`1ca_source_reads.rs:250`), so rows tied under its ORDER BY may be met
  in another order than the table's scan: `row_number()` is then retracted from rows that never
  held it and the write is refused. The SELECTs of the instance leave no ties.
- `FROM a, b RIGHT JOIN c ON ... WHERE a.k = b.k` (or FULL): the equality becomes the key of the comma join
  below the outer join (`0c_compile_from.rs:214`, no test for what follows) and is dropped from WHERE, so
  null-extended rows that SQLite filters out stay in the view.
- `SELECT *, e ... ORDER BY e LIMIT n`: the term is looked up among the SELECT items (`0d_compile_select.rs:412`)
  and used as the number of a result column, which is another one after a star.
- `(a JOIN b USING (k)) RIGHT JOIN c USING (k)`: `b.*` keeps `b.k` where SQLite shows the merged value.
- A process that ends inside `sqlite_ivm_frontier_compose` or `_drop_composition` can leave a consumer
  without its pair or a dependency row without its programs, and the extension then refuses to load
  (`lib.rs:305`); `ReopensUnlessCutShort` says that nothing else leads there.
- `sqlite_ivm_frontier_drop` of half of a pair (`3_extension.rs:118`) is not refused. Dropping the producer
  takes the collector along and leaves the consumer unwatched; dropping the consumer makes every commit of
  the shared collector fail; either leaves the dependency row, so the next load is refused and the pair
  cannot be composed again. With `DropsHalves` TRUE, `LoadedViewsAreExact`, `CollectorsBelong` and
  `ReopensUnlessCutShort` fail within seven steps.
- `SELECT b.y, a.x FROM a JOIN b ON ...` through `plan.rs` (and GROUP BY with a sum before the count): the names of the
  output are those of the written order (`plan.rs:837`), its columns stay left before right, keys before count before sums.
- `declare_constructors` keeps its relations in memory (`4_engine.rs:663`): after a mark, a declaration and a rewind, a second
  declaration returns the known id although its tables are gone, against `1_rel.rs:174`, and `intern_terms` fails.
- The comment at `2a_source_ddl.rs:64` says the generation is bumped after every
  query rewrite; it is bumped before (line 75). `view_transactions` shows that this is harmless.

## Proofs

`FixpointProofs!TypeInvariant` is `Spec => []TypeOK` for every set of rules, keys,
inputs and bounds satisfying `ShapeAssumption`. `TypeOK` is inductive as it stands,
because it includes the two facts the operators need: staged copies never
exceed present ones (`SourcesOK`), and no rowid is above its mark (`MembersOK`,
`WorkOK`, and the same in `saved`). One lemma per part of the state, one step per
action that changes it, lemmas on `Insert`, `Drop` and `CountIn` below.

For every batch, orderly or not, and no matter how keys collide, `FixpointProofs` goes on with
`Scratch`, `Results` and `Rounds`, from `IInv`:

- `ScratchOK` says which of the work, deleted and out tables may hold rows in which phase, also in what
  a rollback restores;
- `ResultOK`: no key is stored twice; the rows the running pass found are those below its `start`
  and the deleted ones (`Was`), exact spellings; and the state table plus the out table
  are those rows, once each. `EmitOwes` is one side's delta, `ApplyPays` the drain's;
- `RoundsOK`: the rounds of a loop so far are at most the stored rows its bound has
  passed, and one (`Counts`). `RoundsAreBounded` follows because rows are finitely many, which
  `ShapeAssumption` says: the node's rows are those its rules can derive, and where they are
  infinitely many (a counter in a recursive query) nothing but the budget ends the loop.

### The members of a recursive node

The rest of `FixpointProofs` is the correctness argument of `1d_drain.rs` `fixpoint`. The hypotheses of these
theorems beyond `ShapeAssumption` are named:

- `Congruent`: a rule derives, by key, the same from every row of a member's key. SQL under one
  collation does; the rows of `reach_orderly` satisfy it, and an expression like `hex(name)` over a
  NOCASE key would not. No two rows with one key (`Injective`) implies it.
- `~AnyBatch`: drains begin with orderly batches. Finding 1 is the counterexample without.
- `Injective`, for the theorems on the delta. The respelling under Known behaviours is the
  counterexample without.
- `Ample`, for the refinement: the round budget is above what `Rounds` proves any loop
  can need. Otherwise a failed statement under a read leaves its writes (`ReadFails`).

The recursive query. `Lfp` iterates the rules as often as there are rows. `LfpClosed` (the
result is closed: as long as a round derives something there is one more row) and `LfpLeast`
(every closed set holds it) are inductions on the number of rounds. `Upward` makes them
available: a set of naturals with 0 and with each number the next holds them all, because `<` is
well founded and its complement would have a least element; the property is a set and
not an operator.

No member is missing (`NoneLost`, any batch). `Closed(I, M, H)`: whatever a clause derives from inputs I and a
member of M is, by key, in H. `Mixed(s)` are the inputs as side s finds them: the new
rows of the sides before, at the others only rows there before and after.
`HeldClosed` has one line per phase: between sides the members are closed under
`Mixed(at)`; while a loop runs, what lies below its bound is closed into the table
(`RoundCloses`, `EndCloses`); during deletion the members found (`Was`) are closed, and every deleted
one is in the work table, from which `RestoreCloses` brings back what keeps a
derivation; `ArriveCloses` adds the rows that arrive. Reading all sides' new rows at once only
derives more.

No member is stale (`MembersExact`). A set closed under derivation can still hold a cycle that supports itself.
`Supported(I, M)` rules this out without counting derivations: a set of keys that
no derivation of a member leaves, once in it, holds all of M. `Feed(s)` are the inputs the
members at side s rest on, all of them old while rows are still to leave (`OrderlyTurn`).
`DeleteSound` is the invariant of the delete rounds: no member left is like one a finished round reached
(`Done`), and the head of whatever reads one of those, or a row that left, waits in the work table.
When the rounds end (`SurvivorsStand`) no derivation of a survivor reads a dropped member or a row that left, so the
survivors are supported by what remains; restore, rounds and arrivals add only heads of clauses that
read members (`SupportGrows`). Closed and supported together are the query, by key
(`ExactMembers`).

No drain is refused (`Accepted`). A drain without arrivals derives nothing its pass did not find
(`DeletesOnly`, from `WasClosed`), so each pass retracts members of its own and the out table
holds no +1; one with arrivals has an empty out table for as long as rows may still leave
(`RefusalOK`), and one pass's retractions are of rows in the state table.

The view (`Implements`). `Spec => ImplementsView`: with `SteadyOK` (no statement fails: the budget suffices
and nothing is refused) each step maps to `Install`, `Change`, `Refresh`, `CommitView`, `RollbackView` or
a stutter, one case per action.

`OutTablesProofs` proves the four invariants of the `out_tables` run for every plan, from
`PlanAssumption` alone. They are not inductive: a table is right
only because of how slots were assigned earlier. `Inv` adds to `TypeOK`

- `LayoutOK`: every consumer counted so far is within the last read of its input
  (`LastReadsOK`), final outputs, kept inputs and unread inputs live to the end
  (`Extended`), a slot's `end` covers its nodes (`SlotsOK`), and of two nodes that
  share a slot one starts after the last read of the other (`Apart`);
- `PopulationOK`, `DrainOK`, `RestOK`: the tables hold exactly the rows of the nodes still
  to be read, of the running population or drain, and nothing at rest.

Nodes alive at one point never share a slot (`Alone`), so clearing one
table removes one node's rows (`ClearRemoves`) and filling one adds to an empty table
(`FillAdds`). The reader counts of population are cardinalities of `UsesIn`; that
each run of a node uses up exactly its share of them (`UsesSplit`, `ReadNow`) keeps
them natural and makes a count of zero mean that nobody reads later (`ReadLater`).

`SetMembershipProofs` proves the five invariants of the `set_membership` run for every
finite set of copies, every assignment of rows and keys and every batch, from
`CopiesAssumption` (copies are finite, on side 0 or 1, and `NoRow` is not a row). Their
conjunction is inductive. `BatchCount` turns the deltas added to a count into the
cardinality of the changed input; `UpdatedRowIsLive` is the case analysis on the row
that stands for a key: taken over from the batch, or kept and not removed, and
then still from the left input if that has any row; `StoredEntries` adds the fallback
and the removal of empty entries; `DeltasAddUp` uses that rows of different keys differ.

`AggregateProofs` proves, from `AggregateAssumption`, that the flag means what the addition
needs (`SafeGroups`), that the non-null counts are right (`Counts`), and that rows are
counted and shown as in the query on either path (`Rows`). They need one another:
eligibility tests the stored count, so the row bound of a safe group rests on `RowCounts`.
`Aggregates` is the result itself: `ResultIsAggregate`, the count, the sum and its type of
every group, whichever path each drain took. On the addition path `TotalAfterBatch` splits
the rows before and after into what stayed, left and arrived (`SumOfUnion`); a sum is
NULL exactly when the non-null count is 0, which is where `NonNullCounts` comes in, and
REAL exactly when a value is, which is where `SafeGroupsAreSmall` does: an unsafe
group is recomputed, a safe one holds no REAL.

`SumsProofs` is what these proofs and those of `ViewTransactions` know about sums: a sum is an
integer, of nothing 0, any element can be taken out of it, functions that agree have
one sum, disjoint sets add. `SumOf` is a recursive function on the subsets of its set.
The library's induction theorems take the property as an operator, which the provers
cannot instantiate; here the property is the set of the subsets that have it, and
`AllParts` shows that this set is everything: the subsets left out would have a
smallest one (cardinalities are natural), and all its parts have the property.
That is induction over finite sets; `Upward` below `Fixpoint` is induction over naturals done the same
way. Both need a property that can be written as a set.

`ViewTransactionsProofs` proves the six invariants of the `view_transactions` run for every set of
names and every bound, assuming `Orderly`, from `NamesAssumption`, `BoundsAssumption` and
`NoneAssumption` (an absent name, instance or hook is no name, instance or hook). None
of them is inductive. `Inv` has, beside the counters,

- `DbOK`: a view that exists is described by the catalog (`Catalogued`), one that does not
  has left neither hooks nor rows;
- `VtabOK`: every instance SQLite still calls back, current or retained, reads the source
  by its present name and has the collector of the registry (`Serves`), except an idle
  one without a plan, which the next refresh binds; collectors nobody is called back
  with are empty (`EmptyOK`); a retained instance keeps the collector begun (`BegunOK`);
- `Covers`: stored rows plus the staged batch are the rows of the source, once each;
- `SavesOK`: the same of every saved state with what the collector's mark for that
  savepoint holds, of the state at BEGIN with nothing, and a view missing at a
  savepoint is missing since. This is what `RollbackTo` needs: the database goes
  back to a savepoint, the collector to its mark, and the two agree.

The actions fall into three groups. Statements that write stage the same row into
the one batch (`Write`); a drain moves the batch into the stored rows and leaves the marks
alone, so what a savepoint needs is still in them (`Read`, `Commit`); a reload replaces
the current instance, and both the old and the new find one collector in the registry
(`Reloaded`, the renames). An xBegin that resets the collector finds it empty, since it
begins only when no instance had. `Orderly` is a restriction of the application and not
a state: without it `dropped_deltas` and the known behaviours below break `Covers` and
`Serves`. `NothingIsRefused` follows because a bound instance reads the source by its name.

`FrontierCatalogProofs` proves the five properties of the `frontier_catalog` run and `TypeOK` for every
set of names, tables, rows and queries and every bound, from `SourcesAssumption`, `QueriesAssumption`
and `BoundsAssumption`, assuming `~DropsHalves`: nobody drops half of a pair. The properties need
one another: a view is exact because its collector watched what it reads, which is so
because collectors go and come with their programs, which rests on what each transaction
of a pair call left behind. `Inv` has

- `ShapeOK`, `DepsOK`: the shape of rows and calls; no two pairs share a half;
- `SlotsOK`: a collector belongs to an installed program over base tables and watches what it and its
  consumer read, the consumer of a pair still to be recorded (`Partner`) included; a consumer has none;
- `StagedOK`, `QuietOK`: of each watched table exactly the transaction's change is staged, of others
  nothing; between transactions nothing is;
- `BoundOK`: in a loaded connection each collector has a callback, for its program or its pair;
- `CallOK`: `Rest(X)`, all programs and pairs but those of X can be reattached. It holds of
  nothing left out when no call runs; `ComposeOK` and `DropOK` say, for each transaction of a call, which
  half-done pair is left out and what is there of it;
- `ViewsOK`: a view reads views that are there, and not itself;
- `ExactOK`: views are current while loaded, and also while closed if the database would load.

The last is what a crash needs: `Load` finds the views as they were committed, and `WriteWithout`
can only have changed tables no collector watches, which no program of a database that loads
reads (`LoadedTablesAreWatched`). At a COMMIT, `Bootstrap` of the new rows is that of the old
ones and the change (`Adds`), and the change is what was staged (`WatchedAdds`); so a settled
program is exact (`ServedBase`), and a consumer after its producer (`ServedPair`), whose delta is the
change of the view it reads; a program whose collector holds no rows reads nothing that changed (`UntouchedBatch`). A program
is removed only when no view reads it (`RemovesUnread`): a consumer before its producer. `Composes` follows
from `ComposeOK`, which keeps the schema the call began with, `Reopens` from
`Rest({})`. That install numbers stay natural needs the largest one in the catalog
(`LargestInstall`): the one nearest to an upper bound, by well-foundedness of the naturals.

### The drains of a view

`RelationalDrainProofs` proves that batches and drains, in any number and order, come to the same as a
population from the tables. Its assumptions are `PlanAssumption` (what `bind` returns for the queries is a plan:
a node after its inputs, as many of them as its kind reads, LIMIT without a partition) and
`ContentsAssumption` (tables hold finitely many rows, each a positive number of times); TLC evaluates both
for the run's SELECTs. Nothing is assumed of the expressions, keys and predicates in a plan, nor of the sizes of tables
and batches.

- *Operators.* `Adds(c, a, b)`: a table is the sum of two others. What a node makes of a sum of two parts without a
  common key is the sum of what it makes of each: `JoinedSplits`, `GroupSplits`, `WindowSplits`, `SetChange`; a map is
  additive without that condition (`MapAdds`). So the change of a node's rows is
  the change of what it makes of the rows of the touched keys (`ArrangementChange`),
  which is what `drain_arrangement` computes. `StoredGroups` is its shortcut, for a group whose
  output shows its keys. A LIMIT has one key, so everything is touched.
- *A node's turn.* If the inputs' out tables hold the change of their rows, the node writes the change of its
  own: `LinearTurn`, `JoinTurn` (`dL * R + L * dR - dL * dR` with both inputs past the batch), `SetTurn` (the counts become those of
  the present rows, the delta their zero crossings), `ArrangementTurn`, `StoredTurn`. A
  node that is skipped has rows that did not change (`Skipped`), so the order `FirstDue` picks loses nothing.
- *What a statement reads.* `StoredAgrees`, `LiveIs`: with the set tables before the node updated and the
  later ones not, a recomputed input has its present rows, and with its delta taken away its former ones. The rows of all
  nodes are a recursive function on the plan; `NodeByNode` is the induction.

`DeltaIsChange` is not inductive: it says nothing of the state, the counts and the batch a turn rests on. The
inductive invariant `DrainInv` is

- `Prepared`: the plan is the compiled one, tables are bags, a staged table has an input node;
- `Between`: at rest out tables are empty, and state and counts are those of the drained tables, the sources
  without the staged rows;
- `During`: in a drain, `InTurn`: nodes before `at` hold their change and later ones nothing, set tables before `at`
  count the present rows and the others the former ones, and so for the state.

TLC finds it true of every state of `relational`. From it follow `EveryDeltaIsItsChange`, `ApplyIsNeverRefused` (the
state holds the former rows, which with the delta make a bag), and
`DrainsAreAPopulation`. `ViewsAnswerTheirSelect` is `ResultIsQuery` for a correct compiler: its hypothesis is that the plan of each
accepted SELECT computes, over all tables, what SQLite answers. That the modelled compiler
is correct is an induction over the syntax of SELECT and stays with TLC: in `relational`, `ResultIsQuery`
checks compiler and drains together. Drains of views with a recursive node do not begin here
(`StartDrain`); they are `Fixpoint`'s.

Only model-checked: `StatementReturns`, which is liveness under fairness and out of TLAPS's reach
here, as is `SettleReturns` of `EngineHost`. Everything in `FrontierEngine`, `DataflowEngines` and
`EngineHost` is model-checked only (`ImagesAreEvaluation`, `NothingIsLeftOver`, `HostHasTheAnswer`, `InputsAreWhole`), and that
a compiler's plan means its SELECT: what they make of every query or program is an induction over its data. So are `ViewTransactions` where the application is not orderly, `FrontierCatalog` where halves are dropped,
and `Fixpoint`'s `ApplyNeverRefused` and refinement where two rows share a key; in these cases
the properties fail (Findings, Known behaviours).

## Not modelled

SQL text generation and parsing, type affinity and validation of rows, tracing,
costs, the extension entry point, the DuckDB and RxJS engines, benchmarks. Integers
of rowids and counters are unbounded in the models; SQLite's 64 bits are
not reached before the seed and multiplicity budgets stop a drain, and those
budgets are outside the models except `BULK_ROUND_BUDGET`.

Most of the repository's lines are of these kinds. Both compilers are modelled from the parsed
SELECT on; lexing, the catalog probes and the text they emit are not. The dataflow engines leave maintenance to
differential dataflow and DBSP, which are trusted; DuckDB's engine is generated statements and RxJS's generated
JavaScript; the benchmarks, the generators of their inputs and the catalogs' own migrations have no property of their own to state.

## Plan

Done: `Fixpoint`, `IncrementalView`, `OutTables`, `SetMembership`, `AggregateDelta`,
`ZSets`, `SqlQueries`, `SqlCompiler`, `RelationalDrain`, `ViewTransactions`, `IrPrograms`, `FrontierPlanner`,
`FrontierLowering`, `FrontierEngine`, `Terms`, `TypedPrograms`, `ProgramComposition`, `DataflowEngines`,
`EngineHost`, `FrontierCatalog`. What is left, in this order:

1. Proofs about `FrontierEngine`: that a settle leaves each image the evaluation of its program, by the lemmas on
   weighted rows of `RelationalDrainProofs`; about `DataflowEngines`: `InputsAreWhole`.
2. `FrontierEngine`: a LetRec nested in another, constructors and texts; DuckDB's engine.
3. Two views over one source in `ViewTransactions`, catalog migration.
