-------------------------------- MODULE Plan --------------------------------
(***************************************************************************)
(* The data of an execution plan (engine/models.py, ExecutionStep) and     *)
(* what engine/planner.py demands of it.  A step is                        *)
(*      [step_id |-> an id, depends_on |-> a sequence of ids]              *)
(* table, stage, database and file only label a step: no property here     *)
(* depends on them.  Every definition is a plain quantification, so the    *)
(* modules that use it can be proved about.                                *)
(***************************************************************************)
EXTENDS Naturals, Sequences

Step(Ids) == [step_id : Ids, depends_on : Seq(Ids)]

IdsOf(steps) == {steps[j].step_id : j \in DOMAIN steps}

DepsOf(step) == {step.depends_on[k] : k \in DOMAIN step.depends_on}

\* The ids of the steps listed before position i: `seen` in planner.py.
SeenBefore(steps, i) == {steps[j].step_id : j \in 1..(i - 1)}

UniqueIds(steps) ==
  \A j, k \in DOMAIN steps : steps[j].step_id = steps[k].step_id => j = k

DependencyOrdered(steps) ==
  \A j \in DOMAIN steps : DepsOf(steps[j]) \subseteq SeenBefore(steps, j)

\* A plan the planner hands to the engine: the step order given is already a
\* topological order of the dependencies.
Executable(steps) ==
  /\ steps # <<>>
  /\ UniqueIds(steps)
  /\ DependencyOrdered(steps)
=============================================================================
