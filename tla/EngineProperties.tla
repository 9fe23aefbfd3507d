-------------------------- MODULE EngineProperties --------------------------
(***************************************************************************)
(* What runs of the engine guarantee, and what its documentation says of   *)
(* them.  See Engine for the model.                                        *)
(***************************************************************************)
EXTENDS Engine

Outcomes == {"none", "ok", "killed"} \cup EngineErrors \cup RawErrors

\* The variables keep their types, the cursor stays within the plan, and a
\* run has at most one connection, which only its open one has a transaction.
TypeOK ==
  /\ pc \in {"down", "load", "step", "connect", "execute", "commit", "rollback",
             "read_log", "open_log", "write_log", "close", "returned"}
  /\ run \in 0..MaxRuns
  /\ plan \in Seq(Step(StepId))
  /\ i \in 1..(Len(plan) + 1)
  /\ status \in {"none", "success", "failure"}
  /\ data \in Seq(Record)
  /\ outcome \in Outcomes
  /\ session \in {"none", "open", "lost"}
  /\ tx \in {"none", "open"}
  /\ tx = "open" => session = "open"
  /\ committed \subseteq Nat \X StepId
  /\ log \in LogFiles(Record)
  /\ accepted \in Seq(Record)
  /\ disturbed \in BOOLEAN

-----------------------------------------------------------------------------
Committed(r, id) == <<r, id>> \in committed

Reported(r, id, st) ==
  \E n \in DOMAIN accepted :
    accepted[n] = [run |-> r, step_id |-> id, status |-> st]

\* A step's SQL runs only after every step it depends on has been committed by
\* this very run: the plan order the planner validated is the order in which
\* Engine.run commits, whatever earlier runs left in the database.
DependenciesCommitted ==
  pc \in {"execute", "commit"} => \A d \in DepsOf(plan[i]) : Committed(run, d)

\* At any moment, in or after a run, what it has committed is exactly the
\* first n steps of its plan: no hole, no step after the one that failed.
CommittedPrefix ==
  \E n \in 1..(Len(plan) + 1) :
    \A id \in StepId : Committed(run, id) <=> id \in SeenBefore(plan, n)

\* The log does not lie: a success record is of a committed step, a failure
\* record of one whose transaction left nothing behind in that run.
LogIsTrue ==
  \A n \in DOMAIN accepted :
    LET r == accepted[n] IN (r.status = "success") <=> Committed(r.run, r.step_id)

\* A failure record is the last one of its run.
FailureEndsRun ==
  \A n, m \in DOMAIN accepted :
    n < m /\ accepted[n].run = accepted[m].run => accepted[n].status = "success"

\* A step can be committed without a record of it (the process dies or the log
\* cannot be written in between), but never more than one step per run.
AtMostOneUnreported ==
  \A r \in 1..run : \A x, y \in StepId :
    /\ Committed(r, x) /\ ~Reported(r, x, "success")
    /\ Committed(r, y) /\ ~Reported(r, y, "success")
    => x = y

\* A complete log file holds the most recent records, unaltered and in order:
\* a crash while it is rewritten can lose the history before some point, but
\* never a record out of the middle.
LogHoldsRecentHistory ==
  log.kind = "json" =>
    \E n \in 0..Len(accepted) : log.entries = SubSeq(accepted, n + 1, Len(accepted))

\* Between steps nothing is left for the next one to inherit, and a record is
\* only written when the step's transaction is over.
NothingInherited ==
  /\ pc \in {"load", "step", "connect"} => session = "none"
  /\ pc \in {"read_log", "open_log", "write_log", "close"} => tx = "none"

\* "N step(s) completed successfully": every step of the plan is committed by
\* this run, and the log file ends with their success records in plan order.
SuccessIsComplete ==
  outcome = "ok" =>
    /\ \A id \in IdsOf(plan) : Committed(run, id)
    /\ log.kind = "json"
    /\ Len(log.entries) >= Len(plan)
    /\ \A j \in DOMAIN plan :
         log.entries[Len(log.entries) - Len(plan) + j]
           = [run |-> run, step_id |-> plan[j].step_id, status |-> "success"]

\* A run in which nothing fails and nobody interferes succeeds, unless an
\* earlier run was killed while it rewrote the log and left it torn.
OnlyDisturbedRunsFail ==
  outcome \notin {"none", "ok"} /\ ~disturbed =>
    outcome = "JSONDecodeError" /\ log = Torn

\* Every run ends: no failure leaves Engine.run waiting or looping.
RunEnds == pc = "load" ~> pc = "down"

-----------------------------------------------------------------------------
\* The engine implements PipelineRun.  A run is "planning" until its plan is
\* accepted, and over as soon as it has an outcome.
RunStatus ==
  CASE outcome = "ok" -> "succeeded"
    [] outcome \notin {"none", "ok"} -> "stopped"
    [] outcome = "none" /\ run = 0 -> "ready"
    [] outcome = "none" /\ run > 0 /\ pc = "load" -> "planning"
    [] OTHER -> "running"

Pipeline == INSTANCE PipelineRun WITH Plans <- PlanFiles, status <- RunStatus

\* Every step of the engine is a step of PipelineRun or changes nothing it
\* shows: commits follow the plan, one at a time, and stop with the run.
ImplementsPipeline == Pipeline!Spec

-----------------------------------------------------------------------------

\* ONBOARDING.md:180-185: after a failed run, fix the root cause and run again,
\* "re-running is safe".  So a run in which nothing fails should succeed,
\* however the runs before it ended.
UndisturbedRunSucceeds == outcome \notin {"none", "ok"} => disturbed
=============================================================================
