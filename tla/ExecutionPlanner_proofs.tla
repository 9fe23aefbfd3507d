----------------------- MODULE ExecutionPlanner_proofs -----------------------
(***************************************************************************)
(* The planner's verdict is right for every plan file over every set of    *)
(* ids: load_plan returns exactly the executable plans, unchanged, and     *)
(* otherwise names a defect the plan has.                                  *)
(*                                                                         *)
(* The invariant says what each loop knows when it is at step i: the parse *)
(* loop has copied the first i - 1 steps, the uniqueness loop has found    *)
(* those distinct, the order loop has found their dependencies earlier.    *)
(***************************************************************************)
EXTENDS ExecutionPlanner, Common_proofs

Parsing ==
  pc = "parse" =>
    /\ file.kind = "steps" /\ file.steps # <<>>
    /\ i <= Len(file.steps) + 1
    /\ Len(steps) = i - 1
    /\ \A j \in 1..(i - 1) :
         /\ file.steps[j].shape = "ok"
         /\ steps[j] = Declared[j]

\* From the second loop on, `steps` is what the file declares.
Parsed ==
  pc \in {"unique", "order"} =>
    /\ WellFormed
    /\ steps = Declared
    /\ steps # <<>>
    /\ i <= Len(steps) + 1
    /\ seen = SeenBefore(steps, i)

UniqueSoFar ==
  pc = "unique" =>
    \A j, l \in 1..(i - 1) : steps[j].step_id = steps[l].step_id => j = l

OrderedSoFar ==
  pc = "order" =>
    /\ UniqueIds(steps)
    /\ \A j \in 1..(i - 1) : DepsOf(steps[j]) \subseteq SeenBefore(steps, j)
    /\ i <= Len(steps) =>
         \A l \in 1..(k - 1) : l \in DOMAIN steps[i].depends_on
                               => steps[i].depends_on[l] \in SeenBefore(steps, i)

Starting ==
  /\ pc = "load" => steps = <<>> /\ i = 1 /\ k = 1
  /\ pc \in {"load", "parse", "unique"} => k = 1
  /\ verdict = "none" <=> pc # "done"

IInv ==
  /\ TypeOK
  /\ Starting
  /\ Parsing
  /\ Parsed
  /\ UniqueSoFar
  /\ OrderedSoFar
  /\ AcceptsExactly
  /\ VerdictIsTrue

-----------------------------------------------------------------------------
\* The variables keep their types, for every set of ids and of plan files.
THEOREM TypeCorrect == Spec => []TypeOK
<1>1. Init => TypeOK
  BY DEF Init, TypeOK, Verdict
<1>2. TypeOK /\ [Next]_vars => TypeOK'
  <2> SUFFICES ASSUME TypeOK, [Next]_vars PROVE TypeOK'
    OBVIOUS
  <2> USE PlanFilesAssumption DEF TypeOK, Raise, Enter, Verdict, PlanErrors
  <2>1. CASE ReadFile
    BY <2>1 DEF ReadFile
  <2>2. CASE ParseStep
    <3>1. file.steps \in Seq(RawStep)
      OBVIOUS
    <3>2. CASE i > Len(file.steps) \/ file.steps[i].shape # "ok"
      BY <2>2, <3>1, <3>2 DEF ParseStep
    <3>3. CASE i <= Len(file.steps) /\ file.steps[i].shape = "ok"
      <4> DEFINE new == [step_id    |-> file.steps[i].step_id,
                         depends_on |-> file.steps[i].depends_on]
      <4>1. file.steps[i] \in RawStep
        BY <3>1, <3>3
      <4>2. new \in Step(StepId)
        BY <4>1 DEF RawStep, Step
      <4>3. /\ steps' = Append(steps, new)
            /\ i' = i + 1
            /\ UNCHANGED <<file, pc, k, seen, verdict>>
        BY <2>2, <3>3 DEF ParseStep
      <4> HIDE DEF new
      <4> QED
        BY <4>2, <4>3
    <3> QED
      BY <3>1, <3>2, <3>3
  <2>3. CASE CheckUnique
    <3>1. i <= Len(steps) => steps[i].step_id \in StepId
      BY StepFields
    <3> QED
      BY <2>3, <3>1 DEF CheckUnique
  <2>4. CASE CheckDependency
    BY <2>4 DEF CheckDependency
  <2>5. CASE MarkSeen
    <3>1. i <= Len(steps) => steps[i].step_id \in StepId
      BY StepFields
    <3> QED
      BY <2>5, <3>1 DEF MarkSeen
  <2>6. CASE ReturnPlan
    BY <2>6 DEF ReturnPlan
  <2>7. CASE UNCHANGED vars
    BY <2>7 DEF vars
  <2> QED
    BY <2>1, <2>2, <2>3, <2>4, <2>5, <2>6, <2>7 DEF Next
<1> QED
  BY <1>1, <1>2, PTL DEF Spec
-----------------------------------------------------------------------------
\* What each loop has established carries over to its next iteration and to
\* the loop that follows it.
THEOREM Inductive == IInv /\ [Next]_vars /\ TypeOK' => IInv'
<1> SUFFICES ASSUME IInv, [Next]_vars, TypeOK' PROVE IInv'
  OBVIOUS
<1> USE DEF IInv
<1>0. /\ TypeOK
      /\ file \in [kind : FileKind, steps : Seq(RawStep)]
      /\ steps \in Seq(Step(StepId))
      /\ i \in Nat \ {0} /\ k \in Nat \ {0}
  BY PlanFilesAssumption DEF TypeOK
<1>f. file.steps \in Seq(RawStep)
  BY <1>0
<1>u. file' = file /\ Declared' = Declared /\ (WellFormed' <=> WellFormed)
  <2>1. file' = file
    BY DEF Next, ReadFile, ParseStep, CheckUnique, CheckDependency, MarkSeen, ReturnPlan,
       Raise, vars
  <2> QED
    BY <2>1 DEF Declared, WellFormed
<1>1. CASE ReadFile
  <2>1. CASE pc' = "done"
    BY <1>1, <2>1 DEF ReadFile, Raise, Starting, Parsing, Parsed, UniqueSoFar, OrderedSoFar,
       AcceptsExactly, VerdictIsTrue, WellFormed, Executable, Declared
  <2>2. CASE pc' # "done"
    BY <1>0, <1>f, <1>1, <2>2 DEF ReadFile, Raise, Starting, Parsing, Parsed, UniqueSoFar,
       OrderedSoFar, AcceptsExactly, VerdictIsTrue
  <2> QED
    BY <2>1, <2>2
<1>2. CASE ParseStep
  <2>1. /\ pc = "parse" /\ verdict = "none" /\ k = 1
        /\ file.kind = "steps" /\ file.steps # <<>>
        /\ i <= Len(file.steps) + 1 /\ Len(steps) = i - 1
        /\ \A j \in 1..(i - 1) : file.steps[j].shape = "ok" /\ steps[j] = Declared[j]
    BY <1>2 DEF ParseStep, Starting, Parsing
  <2>2. CASE i > Len(file.steps)
    <3>1. /\ pc' = "unique" /\ i' = 1 /\ seen' = {}
          /\ UNCHANGED <<file, steps, k, verdict>>
      BY <1>0, <1>f, <1>2, <2>2 DEF ParseStep, Enter
    <3>2. i - 1 = Len(file.steps)
      BY <1>0, <1>f, <2>1, <2>2
    <3>3. steps = Declared
      <4>1. steps = [j \in 1..Len(file.steps) |-> steps[j]]
        BY <1>0, <2>1, <3>2
      <4>2. DOMAIN file.steps = 1..Len(file.steps)
        BY <1>f
      <4>3. Declared = [j \in 1..Len(file.steps) |-> Declared[j]]
        BY <4>2 DEF Declared
      <4> QED
        BY <2>1, <3>2, <4>1, <4>3
    <3>4. WellFormed
      BY <1>f, <2>1, <3>2 DEF WellFormed
    <3>5. steps # <<>>
      BY <1>0, <1>f, <2>1, <3>2
    <3>6. SeenBefore(steps, 1) = {}
      BY DEF SeenBefore
    <3> QED
      BY <1>u, <1>0, <2>1, <3>1, <3>3, <3>4, <3>5, <3>6 DEF Starting, Parsing, Parsed, UniqueSoFar,
         OrderedSoFar, AcceptsExactly, VerdictIsTrue
  <2>3. CASE i <= Len(file.steps) /\ file.steps[i].shape # "ok"
    <3>1. /\ pc' = "done" /\ verdict' \in {"bad_step", "TypeError"}
          /\ UNCHANGED <<file, steps, i, k, seen>>
      BY <1>0, <1>f, <1>2, <2>3 DEF ParseStep, Raise
    <3>2. ~WellFormed
      BY <1>0, <1>f, <2>3 DEF WellFormed
    <3> QED
      BY <1>u, <3>1, <3>2 DEF Starting, Parsing, Parsed, UniqueSoFar, OrderedSoFar, AcceptsExactly,
         VerdictIsTrue
  <2>4. CASE i <= Len(file.steps) /\ file.steps[i].shape = "ok"
    <3> DEFINE new == [step_id    |-> file.steps[i].step_id,
                       depends_on |-> file.steps[i].depends_on]
    <3>1. /\ steps' = Append(steps, new)
          /\ i' = i + 1
          /\ UNCHANGED <<file, pc, k, seen, verdict>>
      BY <1>0, <1>f, <1>2, <2>4 DEF ParseStep
    <3>2. new = Declared[i]
      BY <1>0, <1>f, <2>4 DEF Declared
    <3> HIDE DEF new
    <3>3. \A j \in 1..i : file.steps[j].shape = "ok" /\ steps'[j] = Declared[j]
      BY <1>0, <2>1, <2>4, <3>1, <3>2
    <3>4. Len(steps') = i
      BY <1>0, <2>1, <3>1
    <3> QED
      BY <1>u, <1>0, <1>f, <2>1, <2>4, <3>1, <3>3, <3>4 DEF Starting, Parsing, Parsed, UniqueSoFar,
         OrderedSoFar, AcceptsExactly, VerdictIsTrue
  <2> QED
    BY <1>0, <1>f, <2>2, <2>3, <2>4
<1>3. CASE CheckUnique
  <2>1. /\ pc = "unique" /\ verdict = "none" /\ k = 1
        /\ WellFormed /\ steps = Declared /\ steps # <<>>
        /\ i <= Len(steps) + 1
        /\ seen = SeenBefore(steps, i)
        /\ \A j, l \in 1..(i - 1) : steps[j].step_id = steps[l].step_id => j = l
    BY <1>3 DEF CheckUnique, Starting, Parsed, UniqueSoFar
  <2>2. CASE i > Len(steps)
    <3>1. /\ pc' = "order" /\ i' = 1 /\ seen' = {}
          /\ UNCHANGED <<file, steps, k, verdict>>
      BY <1>0, <1>3, <2>2 DEF CheckUnique, Enter
    <3>2. UniqueIds(steps)
      BY <1>0, <2>1, <2>2 DEF UniqueIds
    <3>3. SeenBefore(steps, 1) = {}
      BY DEF SeenBefore
    <3> QED
      BY <1>u, <1>0, <2>1, <3>1, <3>2, <3>3 DEF Starting, Parsing, Parsed, UniqueSoFar, OrderedSoFar,
         AcceptsExactly, VerdictIsTrue
  <2>3. CASE i <= Len(steps) /\ steps[i].step_id \in seen
    <3>1. /\ pc' = "done" /\ verdict' = "duplicate"
          /\ UNCHANGED <<file, steps, i, k, seen>>
      BY <1>0, <1>3, <2>3 DEF CheckUnique, Raise
    <3>2. ~UniqueIds(steps)
      BY <1>0, <2>1, <2>3 DEF UniqueIds, SeenBefore
    <3> QED
      BY <1>u, <2>1, <3>1, <3>2 DEF Starting, Parsing, Parsed, UniqueSoFar, OrderedSoFar,
         AcceptsExactly, VerdictIsTrue, Executable
  <2>4. CASE i <= Len(steps) /\ steps[i].step_id \notin seen
    <3>1. /\ seen' = seen \cup {steps[i].step_id} /\ i' = i + 1
          /\ UNCHANGED <<file, pc, steps, k, verdict>>
      BY <1>0, <1>3, <2>4 DEF CheckUnique
    <3>2. \A j \in 1..(i - 1) : steps[j].step_id # steps[i].step_id
      BY <2>1, <2>4 DEF SeenBefore
    <3>3. \A j, l \in 1..i : steps[j].step_id = steps[l].step_id => j = l
      BY <1>0, <2>1, <3>2
    <3>4. seen' = SeenBefore(steps, i + 1)
      BY <1>0, <2>1, <3>1, SeenNext
    <3> QED
      BY <1>u, <1>0, <2>1, <2>4, <3>1, <3>3, <3>4 DEF Starting, Parsing, Parsed, UniqueSoFar,
         OrderedSoFar, AcceptsExactly, VerdictIsTrue
  <2> QED
    BY <1>0, <2>2, <2>3, <2>4
<1>o. ASSUME pc = "order"
      PROVE  /\ verdict = "none"
             /\ WellFormed /\ steps = Declared /\ steps # <<>>
             /\ i <= Len(steps) + 1
             /\ seen = SeenBefore(steps, i)
             /\ UniqueIds(steps)
             /\ \A j \in 1..(i - 1) : DepsOf(steps[j]) \subseteq SeenBefore(steps, j)
             /\ i <= Len(steps) =>
                  \A l \in 1..(k - 1) : l \in DOMAIN steps[i].depends_on
                                        => steps[i].depends_on[l] \in SeenBefore(steps, i)
  BY <1>o DEF Starting, Parsed, OrderedSoFar
<1>4. CASE CheckDependency
  <2> DEFINE dep == steps[i].depends_on[k]
  <2>1. /\ pc = "order" /\ i <= Len(steps) /\ k <= Len(steps[i].depends_on)
    BY <1>4 DEF CheckDependency
  <2>2. i \in 1..Len(steps) /\ i \in DOMAIN steps
    BY <1>0, <2>1
  <2>3. steps[i].depends_on \in Seq(StepId)
    BY <1>0, <2>2, StepFields
  <2>4. dep \in DepsOf(steps[i])
    BY <1>0, <2>1, <2>3 DEF DepsOf
  <2> HIDE DEF dep
  <2>5. CASE dep \notin IdsOf(steps)
    <3>1. /\ pc' = "done" /\ verdict' = "unknown"
          /\ UNCHANGED <<file, steps, i, k, seen>>
      BY <1>4, <2>5 DEF CheckDependency, Raise, dep
    <3>2. ~DependencyOrdered(steps)
      <4>1. dep \notin SeenBefore(steps, i)
        BY <1>0, <2>2, <2>5, SeenAll
      <4> QED
        BY <2>2, <2>4, <4>1 DEF DependencyOrdered
    <3> QED
      BY <1>u, <1>o, <2>1, <2>2, <2>4, <2>5, <3>1, <3>2 DEF Starting, Parsing, Parsed, UniqueSoFar,
         OrderedSoFar, AcceptsExactly, VerdictIsTrue, Executable
  <2>6. CASE dep \in IdsOf(steps) /\ dep \notin seen
    <3>1. /\ pc' = "done" /\ verdict' = "later"
          /\ UNCHANGED <<file, steps, i, k, seen>>
      BY <1>4, <2>6 DEF CheckDependency, Raise, dep
    <3>2. dep \notin SeenBefore(steps, i)
      BY <1>o, <2>1, <2>6
    <3>3. ~DependencyOrdered(steps)
      BY <2>2, <2>4, <3>2 DEF DependencyOrdered
    <3>4. PICK b \in 1..Len(steps) : i <= b /\ steps[b].step_id = dep
      BY <1>0, <2>2, <2>6, <3>2, SeenLater
    <3>5. \E x, y \in DOMAIN steps : x <= y /\ steps[y].step_id \in DepsOf(steps[x])
      BY <1>0, <2>2, <2>4, <3>4
    <3> QED
      BY <1>u, <1>o, <2>1, <3>1, <3>3, <3>5 DEF Starting, Parsing, Parsed, UniqueSoFar,
         OrderedSoFar, AcceptsExactly, VerdictIsTrue, Executable
  <2>7. CASE dep \in IdsOf(steps) /\ dep \in seen
    <3>1. k' = k + 1 /\ UNCHANGED <<file, pc, steps, i, seen, verdict>>
      BY <1>4, <2>7 DEF CheckDependency, dep
    <3>2. \A l \in 1..k : l \in DOMAIN steps[i].depends_on
                           => steps[i].depends_on[l] \in SeenBefore(steps, i)
      BY <1>0, <1>o, <2>1, <2>7 DEF dep
    <3> QED
      BY <1>u, <1>0, <1>o, <2>1, <3>1, <3>2 DEF Starting, Parsing, Parsed, UniqueSoFar,
         OrderedSoFar, AcceptsExactly, VerdictIsTrue
  <2> QED
    BY <2>5, <2>6, <2>7
<1>5. CASE MarkSeen
  <2>1. /\ pc = "order" /\ i <= Len(steps) /\ k > Len(steps[i].depends_on)
        /\ seen' = seen \cup {steps[i].step_id} /\ i' = i + 1 /\ k' = 1
        /\ UNCHANGED <<file, pc, steps, verdict>>
    BY <1>5 DEF MarkSeen
  <2>2. steps[i].depends_on \in Seq(StepId)
    BY <1>0, <2>1, StepFields
  <2>3. DepsOf(steps[i]) \subseteq SeenBefore(steps, i)
    <3>1. i <= Len(steps) /\ \A l \in DOMAIN steps[i].depends_on : l \in 1..(k - 1)
      BY <1>0, <2>1, <2>2
    <3> QED
      BY <1>o, <2>1, <3>1 DEF DepsOf
  <2>4. \A j \in 1..i : DepsOf(steps[j]) \subseteq SeenBefore(steps, j)
    BY <1>0, <1>o, <2>1, <2>3
  <2>5. seen' = SeenBefore(steps, i + 1)
    BY <1>0, <1>o, <2>1, SeenNext
  <2> QED
    BY <1>u, <1>0, <1>o, <2>1, <2>4, <2>5 DEF Starting, Parsing, Parsed, UniqueSoFar, OrderedSoFar,
       AcceptsExactly, VerdictIsTrue
<1>6. CASE ReturnPlan
  <2>1. /\ pc = "order" /\ i > Len(steps) /\ pc' = "done" /\ verdict' = "ok"
        /\ UNCHANGED <<file, steps, i, k, seen>>
    BY <1>6 DEF ReturnPlan, Raise
  <2>2. Executable(steps)
    BY <1>0, <1>o, <2>1 DEF Executable, DependencyOrdered
  <2> QED
    BY <1>u, <1>o, <2>1, <2>2 DEF Starting, Parsing, Parsed, UniqueSoFar, OrderedSoFar,
       AcceptsExactly, VerdictIsTrue
<1>7. CASE UNCHANGED vars
  BY <1>7 DEF vars, Starting, Parsing, Parsed, UniqueSoFar, OrderedSoFar, AcceptsExactly,
     VerdictIsTrue, WellFormed, Declared
<1> QED
  BY <1>1, <1>2, <1>3, <1>4, <1>5, <1>6, <1>7 DEF Next

THEOREM Invariant == Spec => []IInv
<1>1. Init => Starting /\ Parsing /\ Parsed /\ UniqueSoFar /\ OrderedSoFar
              /\ AcceptsExactly /\ VerdictIsTrue
  BY DEF Init, Starting, Parsing, Parsed, UniqueSoFar, OrderedSoFar, AcceptsExactly,
     VerdictIsTrue
<1>2. Init /\ TypeOK => IInv
  BY <1>1 DEF IInv
<1> QED
  BY <1>2, TypeCorrect, Inductive, PTL DEF Spec

\* load_plan returns a plan exactly when the file is well formed and lists
\* unique ids in a topological order, and returns it unchanged.
THEOREM PlannerAcceptsExactly == Spec => []AcceptsExactly
<1>1. IInv => AcceptsExactly
  BY DEF IInv
<1> QED
  BY <1>1, Invariant, PTL

\* Every error names a defect the plan has.
THEOREM PlannerVerdictIsTrue == Spec => []VerdictIsTrue
<1>1. IInv => VerdictIsTrue
  BY DEF IInv
<1> QED
  BY <1>1, Invariant, PTL
=============================================================================
