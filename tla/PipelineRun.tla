----------------------------- MODULE PipelineRun -----------------------------
(***************************************************************************)
(* What the engine promises, with no connection, transaction, log or       *)
(* process in sight.  A run takes an executable plan and commits its steps *)
(* one at a time, in plan order, each at most once.  It succeeds only when *)
(* every step is committed, and may stop anywhere before that; a run that  *)
(* stops while committing a step may leave that step committed or not.     *)
(***************************************************************************)
EXTENDS Plan

CONSTANT Plans   \* the plans a run may be given

VARIABLES run,        \* number of runs started
          status,     \* of the latest run
          plan,       \* the steps the latest run executes
          committed   \* the pairs <<run, step_id>> whose changes are durable

vars == <<run, status, plan, committed>>

Init ==
  /\ run = 0
  /\ status = "ready"
  /\ plan = <<>>
  /\ committed = {}

\* What the latest run has committed.
Applied == {c[2] : c \in {d \in committed : d[1] = run}}

CommitNext ==
  \E j \in DOMAIN plan :
    /\ Applied = SeenBefore(plan, j)
    /\ committed' = committed \cup {<<run, plan[j].step_id>>}

Start ==
  /\ status \in {"ready", "succeeded", "stopped"}
  /\ run' = run + 1
  /\ status' = "planning"
  /\ plan' = <<>>
  /\ UNCHANGED committed

Load ==
  /\ status = "planning"
  /\ plan' \in {p \in Plans : Executable(p)}
  /\ status' = "running"
  /\ UNCHANGED <<run, committed>>

Apply ==
  /\ status = "running"
  /\ CommitNext
  /\ UNCHANGED <<run, status, plan>>

Succeed ==
  /\ status = "running"
  /\ Applied = IdsOf(plan)
  /\ status' = "succeeded"
  /\ UNCHANGED <<run, plan, committed>>

Stop ==
  /\ status \in {"planning", "running"}
  /\ status' = "stopped"
  /\ UNCHANGED committed \/ CommitNext
  /\ UNCHANGED <<run, plan>>

Next == Start \/ Load \/ Apply \/ Succeed \/ Stop

Spec == Init /\ [][Next]_vars
=============================================================================
