------------------------------ MODULE EngineHost ------------------------------
(***************************************************************************)
(* A host and the engine it was given (crates/ivm-engine/src/2_host.rs),   *)
(* which is FrontierEngine or one of DataflowEngines: `Runtime` hands a    *)
(* frontier to whatever implements `Engine` and the delta that comes back  *)
(* to the host.  Program, plan, db, phase, emitted and seen are those of   *)
(* the engine it is; the other variables are FrontierEngine's own.         *)
(***************************************************************************)
EXTENDS FrontierEngine

CONSTANTS Installs, PartsOf(_), Client(_), MaxFrontier, Batches(_), MaxDictionary

Flow == INSTANCE DataflowEngines

own == <<stage, active, outer, evaluation, at, saved, mark>>

HostInit ==
  \/ Init
  \/ /\ Flow!Init
     /\ stage = NoRows /\ active = {} /\ outer = {} /\ evaluation = 0 /\ at = 0
     /\ saved = db /\ mark = NoMark

\* One engine is idle between settles, the others are waiting.
Idle == phase \in {"idle", "waiting"}

Running == Flow!Running /\ UNCHANGED own

HostNext ==
  \/ Next
  \/ phase = "waiting" /\ (\E changes \in Flow!Frontiers : Flow!Settle(changes)) /\ UNCHANGED own
  \/ phase = "waiting" /\ (\E batch \in Batches(program.name) : Flow!Intern(batch)) /\ UNCHANGED own
  \/ Flow!Step /\ UNCHANGED own
  \/ Flow!Answered /\ UNCHANGED own
  \/ Flow!LimitHit /\ UNCHANGED own

\* A settle runs to its end on its own connection or its own worker, nothing waits
\* on another actor: weak fairness of Settling, LimitFails and Running, one of
\* which is enabled unless the engine is idle.
HostSpec ==
  /\ HostInit /\ [][HostNext]_vars
  /\ []<>Idle \/ []<><<Settling \/ LimitFails \/ Running>>_vars

-----------------------------------------------------------------------------

\* A host that adds up the deltas it is handed has what the program means, whichever
\* engine it was given: the SELECT it was planned from, the IR program itself, or
\* each part of a composed one, over the source tables and the terms interned.
HostHasTheAnswer == TableAnswer /\ Flow!HostHasTheAnswer

\* What a dataflow engine pushed into its circuit, change by change and term by term,
\* is every row of the guard's sets and every drained term once, although a frontier
\* may change a row twice and terms are minted while the circuit runs.
InputsAreWhole == Flow!InputsAreWhole

\* Rounds and steps end: every frontier settles, is undone, or ends the worker.
SettleReturns == ~Idle ~> Idle
=============================================================================
