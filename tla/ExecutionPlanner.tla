-------------------------- MODULE ExecutionPlanner --------------------------
(***************************************************************************)
(* engine/planner.py: ExecutionPlanner.load_plan, one iteration of one of  *)
(* its loops per action.  The planner reads execution_plan.json, parses    *)
(* every step, then validates the order in two passes (duplicates first,   *)
(* dependencies second).  It raises at the first defect and otherwise      *)
(* returns the steps unchanged.                                            *)
(*                                                                         *)
(* A plan file is [kind, steps].  kind says how far json.loads and the     *)
(* top-level checks get; a raw step carries `shape`:                       *)
(*   "ok"          an object that passes every check of _parse_step        *)
(*   "malformed"   fails one of them                                       *)
(*   "unhashable"  its stage is a JSON array or object, so that            *)
(*                 `raw["stage"] not in _VALID_STAGES` raises TypeError    *)
(* Ids are hashable values, as the generator writes them.                  *)
(***************************************************************************)
EXTENDS Plan

CONSTANTS StepId,      \* ids a plan may use
          PlanFiles    \* the files load_plan may be given

FileKind == {"missing", "not_json", "scalar", "missing_keys", "not_list", "steps"}

RawStep == [shape      : {"ok", "malformed", "unhashable"},
            step_id    : StepId,
            depends_on : Seq(StepId)]

ASSUME PlanFilesAssumption == PlanFiles \subseteq [kind : FileKind, steps : Seq(RawStep)]

VARIABLES file,     \* what plan_path holds
          pc,       \* the loop load_plan is in, or "done"
          steps,    \* the ExecutionSteps parsed so far
          i,        \* the step in hand (for enumerate / for step)
          k,        \* the dependency in hand (for dep)
          seen,     \* ids already met by the loop in hand (seen_ids, then seen)
          verdict   \* "ok", or the error raised

vars == <<file, pc, steps, i, k, seen, verdict>>

PlanErrors == {"unreadable", "bad_step", "duplicate", "unknown", "later"}
Verdict    == {"none", "ok", "TypeError"} \cup PlanErrors

Init ==
  /\ file \in PlanFiles
  /\ pc = "load"
  /\ steps = <<>>
  /\ i = 1
  /\ k = 1
  /\ seen = {}
  /\ verdict = "none"

Raise(error) ==
  /\ pc' = "done"
  /\ verdict' = error
  /\ UNCHANGED <<file, steps, i, k, seen>>

\* Mutants of Enter: `seen` is shared by the two loops; the loop starts at 0.
EnterKeepingSeen(loop) ==
  /\ pc' = loop
  /\ i' = 1
  /\ UNCHANGED seen

EnterAtZero(loop) ==
  /\ pc' = loop
  /\ i' = 0
  /\ seen' = {}

\* Leave a loop for the next one with its cursor and its set reset.
Enter(loop) ==
  /\ pc' = loop
  /\ i' = 1
  /\ seen' = {}

-----------------------------------------------------------------------------
\* The file exists, is JSON, has both keys and a non-empty array of steps.
\* `"generated_at" not in data` raises TypeError when data is a number or null.
ReadFile ==
  /\ pc = "load"
  /\ \/ file.kind = "scalar" /\ Raise("TypeError")
     \/ file.kind \notin {"scalar", "steps"} /\ Raise("unreadable")
     \/ file.kind = "steps" /\ file.steps = <<>> /\ Raise("unreadable")
     \/ /\ file.kind = "steps" /\ file.steps # <<>>
        /\ pc' = "parse"
        /\ UNCHANGED <<file, steps, i, k, seen, verdict>>

ParseStep ==
  /\ pc = "parse"
  /\ LET raw == file.steps[i] IN
       \/ i > Len(file.steps)
          /\ Enter("unique") /\ UNCHANGED <<file, steps, k, verdict>>
       \/ i <= Len(file.steps) /\ raw.shape = "malformed" /\ Raise("bad_step")
       \/ i <= Len(file.steps) /\ raw.shape = "unhashable" /\ Raise("TypeError")
       \/ /\ i <= Len(file.steps)
          /\ raw.shape = "ok"
          /\ steps' = Append(steps, [step_id    |-> raw.step_id,
                                     depends_on |-> raw.depends_on])
          /\ i' = i + 1
          /\ UNCHANGED <<file, pc, k, seen, verdict>>

CheckUnique ==
  /\ pc = "unique"
  /\ \/ i > Len(steps) /\ Enter("order") /\ UNCHANGED <<file, steps, k, verdict>>
     \/ i <= Len(steps) /\ steps[i].step_id \in seen /\ Raise("duplicate")
     \/ /\ i <= Len(steps)
        /\ steps[i].step_id \notin seen
        /\ seen' = seen \cup {steps[i].step_id}
        /\ i' = i + 1
        /\ UNCHANGED <<file, pc, steps, k, verdict>>

\* Mutant of CheckDependency: the order is checked before the existence.
CheckOrderFirst ==
  /\ pc = "order"
  /\ i <= Len(steps)
  /\ k <= Len(steps[i].depends_on)
  /\ LET dep == steps[i].depends_on[k] IN
       \/ dep \notin seen /\ Raise("later")
       \/ dep \in seen /\ k' = k + 1 /\ UNCHANGED <<file, pc, steps, i, seen, verdict>>

CheckDependency ==
  /\ pc = "order"
  /\ i <= Len(steps)
  /\ k <= Len(steps[i].depends_on)
  /\ LET dep == steps[i].depends_on[k] IN
       \/ dep \notin IdsOf(steps) /\ Raise("unknown")
       \/ dep \in IdsOf(steps) /\ dep \notin seen /\ Raise("later")
       \/ /\ dep \in IdsOf(steps) /\ dep \in seen
          /\ k' = k + 1
          /\ UNCHANGED <<file, pc, steps, i, seen, verdict>>

\* seen.add(step.step_id): the step's dependencies were all found earlier.
MarkSeen ==
  /\ pc = "order"
  /\ i <= Len(steps)
  /\ k > Len(steps[i].depends_on)
  /\ seen' = seen \cup {steps[i].step_id}
  /\ i' = i + 1
  /\ k' = 1
  /\ UNCHANGED <<file, pc, steps, verdict>>

ReturnPlan ==
  /\ pc = "order"
  /\ i > Len(steps)
  /\ Raise("ok")

Next == ReadFile \/ ParseStep \/ CheckUnique \/ CheckDependency \/ MarkSeen \/ ReturnPlan

\* load_plan is one call on one thread: it keeps running until it returns.
Spec == Init /\ [][Next]_vars /\ WF_vars(Next)

-----------------------------------------------------------------------------
\* The variables keep their types.
TypeOK ==
  /\ file \in PlanFiles
  /\ pc \in {"load", "parse", "unique", "order", "done"}
  /\ steps \in Seq(Step(StepId))
  /\ i \in Nat \ {0}
  /\ k \in Nat \ {0}
  /\ seen \subseteq StepId
  /\ verdict \in Verdict

\* What the file declares, read without the planner.
Declared == [j \in DOMAIN file.steps |->
               [step_id    |-> file.steps[j].step_id,
                depends_on |-> file.steps[j].depends_on]]

WellFormed ==
  /\ file.kind = "steps"
  /\ \A j \in DOMAIN file.steps : file.steps[j].shape = "ok"

\* load_plan returns exactly when the file is well formed and its own order is
\* a topological order of its dependencies over unique ids; what it returns is
\* the file's steps, none dropped, none moved.
AcceptsExactly ==
  pc = "done" =>
    /\ verdict = "ok" <=> WellFormed /\ Executable(Declared)
    /\ verdict = "ok" => steps = Declared

\* The error names a defect the plan really has, and each pass runs only when
\* the pass before it found nothing: "later" is never said of a dependency
\* that does not exist, nor "unknown" of a plan with a duplicate id.
VerdictIsTrue ==
  /\ verdict = "duplicate" => WellFormed /\ ~UniqueIds(Declared)
  /\ verdict = "unknown" =>
       /\ WellFormed /\ UniqueIds(Declared)
       /\ \E j \in DOMAIN Declared : ~(DepsOf(Declared[j]) \subseteq IdsOf(Declared))
  /\ verdict = "later" =>
       /\ WellFormed /\ UniqueIds(Declared)
       /\ \E a, b \in DOMAIN Declared :
            a <= b /\ Declared[b].step_id \in DepsOf(Declared[a])

=============================================================================
