---------------------------- MODULE Engine_proofs ----------------------------
(***************************************************************************)
(* Safety of the engine for every set of plan files and every number of    *)
(* runs.  The inductive invariant has three layers, each proved with the   *)
(* ones before it:                                                         *)
(*   Control   what the position in _run_step says of the other variables  *)
(*   Commits   the current run has committed exactly the steps before the  *)
(*             one in hand (and that one too once commit() has returned)   *)
(*   Reports   every step before the one in hand is in the log as a        *)
(*             success, and no record of this run is a failure until the   *)
(*             run is about to end                                         *)
(***************************************************************************)
EXTENDS EngineProperties, Common_proofs

InTransaction == {"execute", "commit", "rollback"}
Reporting     == {"read_log", "open_log", "write_log", "close"}
InStep        == {"connect"} \cup InTransaction \cup Reporting

Control ==
  /\ outcome = "none" <=> pc \notin {"returned", "down"} \/ run = 0
  /\ run = 0 => pc = "down" /\ plan = <<>> /\ i = 1 /\ status = "none"
  /\ pc = "load" => plan = <<>> /\ i = 1
  /\ pc \in {"step"} \cup InStep => Executable(plan)
  /\ pc \in InStep => i <= Len(plan)
  /\ pc \in {"load", "step", "connect"} \cup InTransaction => status = "none"
  /\ pc \in Reporting => status # "none"
  /\ pc \in {"down", "load", "step", "connect"} => session = "none"
  /\ pc \notin InTransaction => tx = "none"

\* What the current run has committed, when it has committed the steps listed
\* before position n.
CommittedUpTo(n) ==
  \A id \in StepId : Committed(run, id) <=> id \in SeenBefore(plan, n)

Commits ==
  /\ \A c \in committed : c[1] \in 1..run
  /\ outcome = "none" => CommittedUpTo(IF status = "success" THEN i + 1 ELSE i)
  /\ outcome # "none" => \/ CommittedUpTo(i)
                         \/ i <= Len(plan) /\ CommittedUpTo(i + 1)

Unreported(r, id) == Committed(r, id) /\ ~Reported(r, id, "success")

Reports ==
  /\ \A n \in DOMAIN accepted : accepted[n].run \in 1..run
  /\ LogIsTrue
  /\ FailureEndsRun
  /\ outcome = "none" /\ ~(pc = "close" /\ status = "failure") =>
       \A n \in DOMAIN accepted :
         accepted[n].run = run => accepted[n].status = "success"
  /\ \A j \in 1..(i - 1) : Reported(run, plan[j].step_id, "success")
  /\ pc = "close" /\ status = "success" => Reported(run, plan[i].step_id, "success")
  /\ \A r \in 1..(run - 1) : \A x, y \in StepId :
       Unreported(r, x) /\ Unreported(r, y) => x = y

IInv == TypeOK /\ Control /\ Commits /\ Reports

\* A second invariant, proved with the first: what the log file holds while
\* the run goes through record(), and who is to blame when a run fails.
LastStretch(s) ==
  \E a \in 0..Len(accepted) : s = SubSeq(accepted, a + 1, Len(accepted))

EndsWith(s, n) ==
  /\ Len(s) >= n
  /\ \A j \in 1..n : s[Len(s) - n + j]
                       = [run |-> run, step_id |-> plan[j].step_id, status |-> "success"]

BeforeWrite == {"step", "connect", "read_log", "open_log"} \cup InTransaction

LogContents ==
  /\ LastStretch(Entries(log))
  /\ pc \in BeforeWrite => EndsWith(Entries(log), i - 1) /\ (i > 1 => log.kind = "json")
  /\ pc = "open_log" => data = Append(Entries(log), ThisRecord)
  /\ pc = "write_log" =>
       /\ log.kind \in {"empty", "torn"}
       /\ \E s \in Seq(Record) :
            LastStretch(s) /\ EndsWith(s, i - 1) /\ data = Append(s, ThisRecord)
  /\ pc = "close" /\ status = "success" => log.kind = "json" /\ EndsWith(Entries(log), i)
  /\ outcome = "ok" =>
       log.kind = "json" /\ EndsWith(Entries(log), Len(plan)) /\ CommittedUpTo(Len(plan) + 1)

Blame ==
  /\ pc = "rollback" \/ status = "failure" => disturbed
  /\ OnlyDisturbedRunsFail
-----------------------------------------------------------------------------
\* A record of the step in hand has the type of a record.
LEMMA ThisRecordType ==
  ASSUME TypeOK, i <= Len(plan), status # "none"
  PROVE  ThisRecord \in Record
<1>1. plan[i].step_id \in StepId
  BY StepFields DEF TypeOK
<1> QED
  BY <1>1, MaxRunsAssumption DEF TypeOK, ThisRecord, Record

LEMMA ThisCommitType ==
  ASSUME TypeOK, i <= Len(plan)
  PROVE  ThisCommit \in Nat \X StepId
<1>1. plan[i].step_id \in StepId
  BY StepFields DEF TypeOK
<1> QED
  BY <1>1, MaxRunsAssumption DEF TypeOK, ThisCommit

LEMMA LogFileTypes ==
  /\ Absent \in LogFiles(Record) /\ Empty \in LogFiles(Record) /\ Torn \in LogFiles(Record)
  /\ \A s \in Seq(Record) : Json(s) \in LogFiles(Record)
  /\ \A f \in LogFiles(Record) : Entries(f) \in Seq(Record)
<1>1. <<>> \in Seq(Record)
  OBVIOUS
<1> QED
  BY <1>1, LogFileStates, LogFileFields

\* Types and control together: the cursor stays in the plan because Close is
\* only reached with a step in hand.
LEMMA ControlStep ==
  ASSUME TypeOK, Control, [Next]_vars
  PROVE  TypeOK' /\ Control'
<1> USE MaxRunsAssumption
<1> USE DEF Control, InTransaction, Reporting, InStep, TypeOK, Outcomes, EngineErrors, RawErrors,
        Fail, Return, GoTo, process, database, logging
<1>1. CASE StartRun
  <2>1. <<>> \in Seq(Step(StepId)) /\ <<>> \in Seq(Record) /\ Len(<<>>) = 0
    OBVIOUS
  <2>2. TypeOK'
    <3>1. plan' \in Seq(Step(StepId)) /\ data' \in Seq(Record) /\ i' \in 1..(Len(plan') + 1)
      BY <1>1, <2>1 DEF StartRun
    <3>2. run' \in 0..MaxRuns
      BY <1>1 DEF StartRun
    <3> QED
      BY <1>1, <3>1, <3>2 DEF StartRun
  <2>3. Control'
    BY <1>1 DEF StartRun
  <2> QED
    BY <2>2, <2>3
<1>2. CASE LoadPlan
  <2>1. PICK file \in PlanFiles :
          \/ /\ Executable(file) /\ plan' = file /\ pc' = "step"
             /\ UNCHANGED <<run, i, status, data, outcome, disturbed>>
          \/ ~Executable(file) /\ Fail("ExecutionPlanError")
          \/ file = <<>> /\ Fail("TypeError")
    BY <1>2 DEF LoadPlan
  <2>2. /\ pc = "load" /\ file \in Seq(Step(StepId)) /\ Len(file) \in Nat
        /\ UNCHANGED <<database, logging>>
    BY <1>2, PlanFilesAssumption DEF LoadPlan
  <2>3. CASE Executable(file) /\ plan' = file /\ pc' = "step"
             /\ UNCHANGED <<run, i, status, data, outcome, disturbed>>
    <3>1. TypeOK'
      BY <2>2, <2>3
    <3>2. Control'
      BY <2>2, <2>3
    <3> QED
      BY <3>1, <3>2
  <2>4. CASE ~Executable(file) /\ Fail("ExecutionPlanError")
    BY <2>2, <2>4
  <2>5. CASE Fail("TypeError")
    BY <2>2, <2>5
  <2> QED
    BY <2>1, <2>3, <2>4, <2>5
<1>3. CASE ParseFile
  BY <1>3 DEF ParseFile
<1>4. CASE FinishRun
  BY <1>4 DEF FinishRun
<1>5. CASE Connect
  BY <1>5 DEF Connect
<1>6. CASE ExecuteOk
  BY <1>6 DEF ExecuteOk
<1>7. CASE ExecuteRaises
  BY <1>7 DEF ExecuteRaises
<1>8. CASE Commit
  BY <1>8, ThisCommitType DEF Commit
<1>9. CASE CommitRaises
  BY <1>9, ThisCommitType DEF CommitRaises
<1>10. CASE Rollback
  BY <1>10 DEF Rollback
<1>11. CASE RollbackRaises
  BY <1>11 DEF RollbackRaises
<1>12. CASE ReadLog
  <2>1. ThisRecord \in Record /\ Entries(log) \in Seq(Record)
    BY <1>12, ThisRecordType, LogFileTypes DEF ReadLog
  <2>2. data' \in Seq(Record)
    <3>1. \A s \in Seq(Record), r \in Record : Append(s, r) \in Seq(Record)
      OBVIOUS
    <3>2. data' = Append(Entries(log), ThisRecord) \/ data' = data
      BY <1>12 DEF ReadLog, NewEntries
    <3>3. data \in Seq(Record)
      OBVIOUS
    <3> QED
      BY ONLY <2>1, <3>1, <3>2, <3>3
  <2>4. TypeOK'
    BY <1>12, <2>2 DEF ReadLog
  <2>3. Control'
    BY <1>12 DEF ReadLog
  <2> QED
    BY <2>3, <2>4
<1>13. CASE OpenLog
  BY <1>13, LogFileTypes DEF OpenLog
<1>14. CASE FlushPart
  BY <1>14, LogFileTypes DEF FlushPart
<1>15. CASE WriteLog
  <2>1. ThisRecord \in Record /\ Json(data) \in LogFiles(Record)
    BY <1>15, ThisRecordType, LogFileTypes DEF WriteLog
  <2>2. /\ accepted' \in Seq(Record) /\ log' \in LogFiles(Record)
        /\ UNCHANGED <<run, plan, i, status, data, database>>
    <3>1. accepted \in Seq(Record) /\ log \in LogFiles(Record)
      OBVIOUS
    <3>2. \/ accepted' = Append(accepted, ThisRecord) /\ log' = Json(data)
          \/ accepted' = accepted /\ log' = log
      BY <1>15 DEF WriteLog
    <3>3. UNCHANGED <<run, plan, i, status, data, database>>
      BY <1>15 DEF WriteLog
    <3> QED
      BY ONLY <2>1, <3>1, <3>2, <3>3
  <2>4. TypeOK'
    BY <1>15, <2>2 DEF WriteLog
  <2>3. Control'
    BY <1>15 DEF WriteLog
  <2> QED
    BY <2>3, <2>4
<1>16. CASE Close
  BY <1>16 DEF Close, EndStep
<1>17. CASE Main
  BY <1>17 DEF Main
<1>18. CASE Kill
  BY <1>18, ThisCommitType DEF Kill
<1>19. CASE SessionLost
  BY <1>19 DEF SessionLost
<1>20. CASE UNCHANGED vars
  BY <1>20 DEF vars
<1> QED
  BY <1>1, <1>2, <1>3, <1>4, <1>5, <1>6, <1>7, <1>8, <1>9, <1>10, <1>11, <1>12, <1>13,
     <1>14, <1>15, <1>16, <1>17, <1>18, <1>19, <1>20 DEF Next, EngineStep
-----------------------------------------------------------------------------
\* Committing the step in hand takes the run from "the steps before i" to
\* "the steps before i + 1".
LEMMA CommitExtends ==
  ASSUME TypeOK, i <= Len(plan), CommittedUpTo(i), run' = run, plan' = plan,
         committed' = committed \cup {ThisCommit}
  PROVE  \A id \in StepId : Committed(run, id)' <=> id \in SeenBefore(plan, i + 1)
<1>1. SeenBefore(plan, i + 1) = SeenBefore(plan, i) \cup {plan[i].step_id}
  BY SeenNext DEF TypeOK
<1> QED
  BY <1>1 DEF CommittedUpTo, Committed, ThisCommit

LEMMA CommitsStep ==
  ASSUME TypeOK, Control, Commits, [Next]_vars, TypeOK', Control'
  PROVE  Commits'
<1> USE MaxRunsAssumption DEF Commits, CommittedUpTo, Committed
<1>t. run \in Nat /\ i \in Nat \ {0} /\ plan \in Seq(Step(StepId))
  BY DEF TypeOK
<1>1. CASE StartRun
  <2>1. /\ run' = run + 1 /\ plan' = <<>> /\ i' = 1 /\ status' = "none" /\ outcome' = "none"
        /\ committed' = committed
    BY <1>1 DEF StartRun, database
  <2>2. \A id \in StepId : <<run + 1, id>> \notin committed
    BY <1>t
  <2> QED
    BY <1>t, <2>1, <2>2, SeenFirst
<1>2. CASE LoadPlan
  <2>1. /\ pc = "load" /\ i = 1 /\ outcome = "none" /\ status = "none"
        /\ UNCHANGED <<run, i, status, committed>>
    BY <1>2 DEF LoadPlan, Control, InTransaction, Fail, Return, database
  <2>2. SeenBefore(plan', 1) = SeenBefore(plan, 1)
    BY SeenFirst
  <2> QED
    BY <1>t, <2>1, <2>2
<1>3. CASE Commit
  <2>1. /\ status = "none" /\ outcome = "none" /\ i <= Len(plan)
        /\ status' = "success" /\ outcome' = "none" /\ UNCHANGED <<run, plan, i>>
        /\ committed' = committed \cup {ThisCommit}
    BY <1>3 DEF Commit, Control, InStep, InTransaction
  <2>2. ThisCommit[1] = run /\ run # 0
    BY <1>3 DEF ThisCommit, Commit, Control
  <2>3. CommittedUpTo(i)
    BY <2>1
  <2> QED
    BY <1>t, <2>1, <2>2, <2>3, CommitExtends
<1>4. CASE CommitRaises \/ Kill
  <2>1. /\ outcome = "none" /\ outcome' # "none" /\ UNCHANGED <<run, plan, i>>
        /\ \/ committed' = committed
           \/ pc = "commit" /\ committed' = committed \cup {ThisCommit}
        /\ run # 0
    BY <1>4 DEF CommitRaises, Kill, Control, Fail, Return
  <2>2. CASE committed' = committed
    <3>1. status = "success" => i <= Len(plan)
      BY <1>4, <2>1 DEF TypeOK, Control, InStep, InTransaction, Reporting
    <3> QED
      BY <2>1, <2>2, <3>1
  <2>3. CASE pc = "commit" /\ committed' = committed \cup {ThisCommit}
    <3>1. status = "none" /\ i <= Len(plan)
      BY <2>3 DEF Control, InStep, InTransaction
    <3>2. ThisCommit[1] = run
      BY DEF ThisCommit
    <3>3. CommittedUpTo(i)
      BY <2>1, <3>1
    <3> QED
      BY <1>t, <2>1, <2>3, <3>1, <3>2, <3>3, CommitExtends
  <2> QED
    BY <2>1, <2>2, <2>3
<1>5. CASE Close
  BY <1>5, <1>t DEF Close, EndStep, Control, InStep, Reporting, Return
<1>6. CASE Rollback
  BY <1>6 DEF Rollback, Control, InTransaction
<1>7. ASSUME \/ ParseFile \/ FinishRun \/ Connect \/ ExecuteOk \/ ExecuteRaises \/ RollbackRaises
             \/ ReadLog \/ OpenLog \/ FlushPart \/ WriteLog \/ Main \/ SessionLost
             \/ UNCHANGED vars
      PROVE  Commits'
  <2>1. UNCHANGED <<run, plan, i, status, committed>>
    BY <1>7 DEF ParseFile, FinishRun, Connect, ExecuteOk, ExecuteRaises, RollbackRaises, ReadLog,
       OpenLog, FlushPart, WriteLog, Main, SessionLost, GoTo, Fail, Return, vars, process, database
  <2>2. outcome' = outcome \/ outcome = "none"
    BY <1>7 DEF ParseFile, FinishRun, Connect, ExecuteOk, ExecuteRaises, RollbackRaises, ReadLog,
       OpenLog, FlushPart, WriteLog, Main, SessionLost, GoTo, Fail, Return, vars, process, Control
  <2>3. outcome = "none" /\ status = "success" => i <= Len(plan)
    BY DEF TypeOK, Control, InStep, InTransaction, Reporting
  <2> QED
    BY <2>1, <2>2, <2>3
<1> QED
  BY <1>1, <1>2, <1>3, <1>4, <1>5, <1>6, <1>7 DEF Next, EngineStep
-----------------------------------------------------------------------------
\* In the current run only the step in hand can be committed and unreported.
LEMMA UnreportedIsInHand ==
  ASSUME TypeOK, Control, Commits, Reports, NEW x \in StepId, Unreported(run, x)
  PROVE  i <= Len(plan) /\ x = plan[i].step_id
<1>1. \/ x \in SeenBefore(plan, i)
      \/ i <= Len(plan) /\ x \in SeenBefore(plan, i + 1)
  <2>1. <<run, x>> \in committed
    BY DEF Unreported, Committed
  <2>2. outcome = "none" /\ status = "success" => i <= Len(plan)
    BY DEF TypeOK, Control, InStep, InTransaction, Reporting
  <2>3. \/ CommittedUpTo(i)
        \/ i <= Len(plan) /\ CommittedUpTo(i + 1)
    BY <2>2 DEF Commits
  <2>4. CASE CommittedUpTo(i)
    BY <2>1, <2>4 DEF CommittedUpTo, Committed
  <2>5. CASE i <= Len(plan) /\ CommittedUpTo(i + 1)
    BY <2>1, <2>5 DEF CommittedUpTo, Committed
  <2> QED
    BY ONLY <2>3, <2>4, <2>5
<1>2. x \notin SeenBefore(plan, i)
  BY DEF Reports, SeenBefore, Unreported
<1>3. SeenBefore(plan, i + 1) = SeenBefore(plan, i) \cup {plan[i].step_id}
  BY SeenNext DEF TypeOK
<1> QED
  BY <1>1, <1>2, <1>3

\* Records are only ever added.
LEMMA ReportedStays ==
  ASSUME NEW rec, TypeOK, accepted' = Append(accepted, rec)
  PROVE  /\ \A r, id, st : Reported(r, id, st) => Reported(r, id, st)'
         /\ DOMAIN accepted' = DOMAIN accepted \cup {Len(accepted) + 1}
         /\ \A n \in DOMAIN accepted : accepted'[n] = accepted[n]
         /\ accepted'[Len(accepted) + 1] = rec
         /\ \A n \in DOMAIN accepted : n < Len(accepted) + 1
<1>1. accepted \in Seq(Record)
  BY DEF TypeOK
<1>2. /\ DOMAIN accepted' = DOMAIN accepted \cup {Len(accepted) + 1}
      /\ \A n \in DOMAIN accepted : accepted'[n] = accepted[n] /\ n < Len(accepted) + 1
      /\ accepted'[Len(accepted) + 1] = rec
  BY <1>1
<1> QED
  BY <1>2 DEF Reported

\* Recording the outcome of the step in hand keeps the log true.
LEMMA WriteLogKeepsReports ==
  ASSUME TypeOK, Control, Commits, Reports, WriteLog, accepted' = Append(accepted, ThisRecord)
  PROVE  Reports'
<1>0. /\ pc = "write_log" /\ outcome = "none" /\ i \in 1..Len(plan) /\ run # 0
      /\ status \in {"success", "failure"} /\ Executable(plan)
      /\ plan \in Seq(Step(StepId)) /\ plan[i].step_id \in StepId
  <2>1. pc = "write_log"
    BY DEF WriteLog
  <2>2. i \in 1..Len(plan) /\ plan \in Seq(Step(StepId))
    BY <2>1 DEF TypeOK, Control, InStep, Reporting
  <2>3. plan[i].step_id \in StepId
    BY <2>2, StepFields
  <2> QED
    BY <2>1, <2>2, <2>3 DEF TypeOK, Control, InStep, Reporting
<1>1. /\ pc' = "close" \/ outcome' # "none"
      /\ UNCHANGED <<run, plan, i, status, committed>>
  BY DEF WriteLog, GoTo, Fail, Return, database
<1>2. ThisRecord.run = run /\ ThisRecord.step_id = plan[i].step_id /\ ThisRecord.status = status
  BY DEF ThisRecord
<1>3. (status = "success") <=> Committed(run, plan[i].step_id)
  <2>1. CASE status = "success"
    <3>1. CommittedUpTo(i + 1)
      BY <1>0, <2>1 DEF Commits
    <3>2. plan[i].step_id \in SeenBefore(plan, i + 1)
      <4>1. i \in Nat \ {0}
        BY DEF TypeOK
      <4> QED
        BY <4>1, SeenNext
    <3> QED
      BY <1>0, <2>1, <3>1, <3>2 DEF CommittedUpTo
  <2>2. CASE status = "failure"
    <3>1. plan[i].step_id \notin SeenBefore(plan, i)
      BY <1>0, NotSeenBefore DEF Executable
    <3>2. CommittedUpTo(i)
      BY <1>0, <2>2 DEF Commits
    <3> QED
      BY <1>0, <2>2, <3>1, <3>2 DEF CommittedUpTo
  <2> QED
    BY <1>0, <2>1, <2>2
<1>4. \A n \in DOMAIN accepted : accepted[n].run = run => accepted[n].status = "success"
  BY <1>0 DEF Reports
<1>5. (\A n \in DOMAIN accepted : accepted[n].run \in 1..run)'
  BY <1>0, <1>1, <1>2, ReportedStays DEF Reports, TypeOK
<1>6. LogIsTrue'
  BY <1>1, <1>2, <1>3, ReportedStays DEF Reports, LogIsTrue, Committed
<1>7. FailureEndsRun'
  <2> SUFFICES ASSUME NEW n \in DOMAIN accepted', NEW m \in DOMAIN accepted',
                      n < m, accepted'[n].run = accepted'[m].run
               PROVE  accepted'[n].status = "success"
    BY DEF FailureEndsRun
  <2>1. accepted \in Seq(Record) /\ Len(accepted) \in Nat
    BY DEF TypeOK
  <2>2. n \in DOMAIN accepted
    BY <2>1, ReportedStays
  <2>3. CASE m \in DOMAIN accepted
    BY <2>2, <2>3, ReportedStays DEF Reports, FailureEndsRun
  <2>4. CASE m = Len(accepted) + 1
    BY <1>2, <1>4, <2>2, <2>4, ReportedStays
  <2> QED
    BY <2>3, <2>4, ReportedStays
<1>8. (outcome = "none" /\ ~(pc = "close" /\ status = "failure") =>
         \A n \in DOMAIN accepted :
           accepted[n].run = run => accepted[n].status = "success")'
  BY <1>0, <1>1, <1>2, <1>4, ReportedStays
<1>9. Reported(run, plan[i].step_id, status)'
  <2>1. accepted'[Len(accepted) + 1]
          = [run |-> run, step_id |-> plan[i].step_id, status |-> status]
    BY ReportedStays DEF ThisRecord
  <2> QED
    BY <1>1, <2>1, ReportedStays DEF Reported
<1>10. (\A j \in 1..(i - 1) : Reported(run, plan[j].step_id, "success"))'
  <2>1. \A j \in 1..(i - 1) : Reported(run, plan[j].step_id, "success")'
    BY <1>1, ReportedStays DEF Reports
  <2> QED
    BY <1>1, <2>1
<1>11. (\A r \in 1..(run - 1) : \A x, y \in StepId :
          Unreported(r, x) /\ Unreported(r, y) => x = y)'
  <2>1. \A r, x : Unreported(r, x)' => Unreported(r, x)
    BY <1>1, ReportedStays DEF Unreported, Committed
  <2> QED
    BY <1>1, <2>1 DEF Reports
<1> QED
  BY <1>1, <1>5, <1>6, <1>7, <1>8, <1>9, <1>10, <1>11 DEF Reports

\* Committing the step in hand, too: no record of it exists yet.
LEMMA CommitKeepsReports ==
  ASSUME TypeOK, Control, Reports, pc = "commit", run' = run, plan' = plan, i' = i,
         accepted' = accepted, pc' # "close", committed' = committed \cup {ThisCommit}
  PROVE  Reports'
<1>1. outcome = "none" /\ run # 0
  BY DEF Control
<1>2. \A n \in DOMAIN accepted : accepted[n].run = run => accepted[n].status = "success"
  BY <1>1 DEF Reports
<1>3. \A r, id : r # run => (Committed(r, id)' <=> Committed(r, id))
  BY DEF Committed, ThisCommit
<1>4. LogIsTrue'
  <2> SUFFICES ASSUME NEW n \in DOMAIN accepted
               PROVE  (accepted[n].status = "success")
                        <=> Committed(accepted[n].run, accepted[n].step_id)'
    BY DEF LogIsTrue, Committed
  <2>1. (accepted[n].status = "success") <=> Committed(accepted[n].run, accepted[n].step_id)
    BY DEF Reports, LogIsTrue
  <2>2. CASE accepted[n].run = run
    BY <1>2, <2>1, <2>2 DEF Committed
  <2>3. CASE accepted[n].run # run
    BY <1>3, <2>1, <2>3
  <2> QED
    BY <2>2, <2>3
<1>5. (\A r \in 1..(run - 1) : \A x, y \in StepId :
         Unreported(r, x) /\ Unreported(r, y) => x = y)'
  <2>1. \A r \in 1..(run - 1) : \A x : Unreported(r, x)' <=> Unreported(r, x)
    BY <1>3, MaxRunsAssumption DEF Unreported, Reported, TypeOK
  <2> QED
    BY <2>1 DEF Reports
<1> QED
  BY <1>2, <1>4, <1>5 DEF Reports, FailureEndsRun, Reported

LEMMA ReportsStep ==
  ASSUME TypeOK, Control, Commits, Reports, [Next]_vars, TypeOK', Control'
  PROVE  Reports'
<1> USE MaxRunsAssumption
<1>t. run \in Nat /\ i \in Nat \ {0}
  BY DEF TypeOK
<1>1. CASE StartRun
  <2>1. /\ run' = run + 1 /\ i' = 1 /\ pc' = "load"
        /\ UNCHANGED <<committed, accepted>>
    BY <1>1 DEF StartRun, database, logging
  <2>2. \A r, id : Unreported(r, id)' <=> Unreported(r, id)
    BY <2>1 DEF Unreported, Committed, Reported
  <2>3. \A x, y \in StepId : Unreported(run, x) /\ Unreported(run, y) => x = y
    BY UnreportedIsInHand
  <2>4. (\A r \in 1..(run - 1) : \A x, y \in StepId :
           Unreported(r, x) /\ Unreported(r, y) => x = y)'
    <3>1. (run - 1)' = run
      BY <1>t, <2>1
    <3>2. \A r \in 1..run : r \in 1..(run - 1) \/ r = run
      BY <1>t
    <3> QED
      BY <2>2, <2>3, <3>1, <3>2 DEF Reports
  <2>5. \A n \in DOMAIN accepted : accepted[n].run # run + 1
    BY <1>t DEF Reports
  <2> QED
    BY <1>t, <2>1, <2>4, <2>5 DEF Reports, LogIsTrue, FailureEndsRun, Committed
<1>2. CASE Commit
  BY <1>2, CommitKeepsReports DEF Commit, logging
<1>3. CASE WriteLog
  <2>1. CASE accepted' = Append(accepted, ThisRecord)
    BY <1>3, <2>1, WriteLogKeepsReports
  <2>2. CASE accepted' # Append(accepted, ThisRecord)
    <3>1. /\ UNCHANGED <<run, plan, i, status, committed, accepted>>
          /\ outcome' # "none" /\ pc' = "returned"
      BY <1>3, <2>2 DEF WriteLog, Fail, Return, logging, database
    <3> QED
      BY <3>1 DEF Reports, LogIsTrue, FailureEndsRun, Committed, Unreported, Reported
  <2> QED
    BY <2>1, <2>2
<1>4. CASE Close
  <2>1. /\ pc = "close" /\ UNCHANGED <<run, plan, committed, accepted>>
        /\ \/ pc' = "step" /\ i' = i + 1 /\ status = "success"
           \/ pc' = "returned" /\ i' = i /\ outcome' # "none"
    BY <1>4 DEF Close, EndStep, Return, logging
  <2>2. outcome = "none"
    BY <2>1 DEF Control, TypeOK
  <2>3. (\A j \in 1..(i - 1) : Reported(run, plan[j].step_id, "success"))'
    <3>1. CASE i' = i
      BY <2>1, <3>1 DEF Reports, Reported
    <3>2. CASE i' = i + 1 /\ status = "success"
      <4>1. \A j \in 1..i : j \in 1..(i - 1) \/ j = i
        BY <1>t
      <4>2. \A j \in 1..i : Reported(run, plan[j].step_id, "success")
        BY <2>1, <3>2, <4>1 DEF Reports
      <4>3. i' - 1 = i
        BY <1>t, <3>2
      <4> QED
        BY <2>1, <4>2, <4>3 DEF Reported
    <3> QED
      BY <2>1, <3>1, <3>2
  <2> QED
    BY <2>1, <2>2, <2>3 DEF Reports, LogIsTrue, FailureEndsRun, Committed, Unreported, Reported
<1>5. CASE CommitRaises \/ Kill
  <2>1. /\ UNCHANGED <<run, plan, i, accepted>> /\ outcome' # "none" /\ pc' # "close"
        /\ \/ committed' = committed
           \/ pc = "commit" /\ committed' = committed \cup {ThisCommit}
    BY <1>5 DEF CommitRaises, Kill, Fail, Return, logging
  <2>2. CASE committed' = committed
    BY <2>1, <2>2 DEF Reports, LogIsTrue, FailureEndsRun, Committed, Unreported, Reported
  <2>3. CASE pc = "commit" /\ committed' = committed \cup {ThisCommit}
    BY <2>1, <2>3, CommitKeepsReports
  <2> QED
    BY <2>1, <2>2, <2>3
<1>6. ASSUME \/ LoadPlan \/ ParseFile \/ FinishRun \/ Connect \/ ExecuteOk \/ ExecuteRaises
             \/ Rollback \/ RollbackRaises \/ ReadLog \/ OpenLog \/ FlushPart \/ Main
             \/ SessionLost \/ UNCHANGED vars
      PROVE  Reports'
  <2>1. /\ UNCHANGED <<run, i, committed, accepted>>
        /\ \/ plan' = plan
           \/ i = 1 /\ pc' # "close"
    <3>1. CASE LoadPlan
      BY <3>1 DEF LoadPlan, Fail, Return, database, logging, Control
    <3>2. CASE ParseFile \/ FinishRun \/ Connect \/ ExecuteOk \/ ExecuteRaises \/ Rollback
      BY <3>2 DEF ParseFile, FinishRun, Connect, ExecuteOk, ExecuteRaises, Rollback, GoTo, Fail,
         Return, database, logging
    <3>3. CASE RollbackRaises \/ ReadLog \/ OpenLog \/ FlushPart \/ Main \/ SessionLost
      BY <3>3 DEF RollbackRaises, ReadLog, OpenLog, FlushPart, Main, SessionLost, GoTo, Fail,
         Return, process, database, logging
    <3>4. CASE UNCHANGED vars
      BY <3>4 DEF vars, process, database, logging
    <3> QED
      BY <1>6, <3>1, <3>2, <3>3, <3>4
  <2>2. \/ pc' = pc /\ status' = status /\ outcome' = outcome
        \/ pc # "close" /\ pc' # "close" /\ (outcome' = outcome \/ outcome' # "none")
    BY <1>6 DEF LoadPlan, ParseFile, FinishRun, Connect, ExecuteOk, ExecuteRaises, Rollback,
       RollbackRaises, ReadLog, OpenLog, FlushPart, Main, SessionLost, GoTo, Fail, Return, vars,
       process
  <2>3. (\A j \in 1..(i - 1) : Reported(run, plan[j].step_id, "success"))'
    BY <2>1 DEF Reports, Reported
  <2> QED
    BY <2>1, <2>2, <2>3 DEF Reports, LogIsTrue, FailureEndsRun, Committed, Unreported, Reported
<1> QED
  BY <1>1, <1>2, <1>3, <1>4, <1>5, <1>6 DEF Next, EngineStep
-----------------------------------------------------------------------------
\* The inductive invariant: it holds initially and every step keeps it.
THEOREM Invariant == Spec => []IInv
<1>1. Init => IInv
  <2> SUFFICES ASSUME Init PROVE IInv
    OBVIOUS
  <2>1. TypeOK
    <3>1. <<>> \in Seq(Step(StepId)) /\ <<>> \in Seq(Record) /\ Len(<<>>) = 0
      OBVIOUS
    <3>2. log \in LogFiles(Record)
      BY LogFileTypes DEF Init
    <3>3. run \in 0..MaxRuns /\ i \in 1..(Len(plan) + 1)
      BY <3>1, MaxRunsAssumption DEF Init
    <3> QED
      BY <3>1, <3>2, <3>3 DEF Init, TypeOK, Outcomes
  <2>2. Control
    BY DEF Init, Control, InStep, InTransaction, Reporting
  <2>3. Commits
    BY SeenFirst DEF Init, Commits, CommittedUpTo, Committed
  <2>4. Reports
    BY DEF Init, Reports, LogIsTrue, FailureEndsRun, Unreported, Committed
  <2> QED
    BY <2>1, <2>2, <2>3, <2>4 DEF IInv
<1>2. IInv /\ [Next]_vars => IInv'
  BY ControlStep, CommitsStep, ReportsStep DEF IInv
<1> QED
  BY <1>1, <1>2, PTL DEF Spec

\* The variables keep their types; in particular the cursor never leaves the
\* plan and no transaction outlives its session.
THEOREM TypeCorrect == Spec => []TypeOK
<1>1. IInv => TypeOK
  BY DEF IInv
<1> QED
  BY <1>1, Invariant, PTL

\* A step's SQL runs only when this run has committed all it depends on.
THEOREM DependenciesFirst == Spec => []DependenciesCommitted
<1>1. IInv => DependenciesCommitted
  <2> SUFFICES ASSUME IInv, pc \in {"execute", "commit"}, NEW d \in DepsOf(plan[i])
               PROVE  Committed(run, d)
    BY DEF DependenciesCommitted
  <2>1. /\ Executable(plan) /\ i \in DOMAIN plan /\ status = "none" /\ outcome = "none"
        /\ plan \in Seq(Step(StepId))
    BY DEF IInv, TypeOK, Control, InStep, InTransaction
  <2>2. d \in SeenBefore(plan, i)
    BY <2>1 DEF Executable, DependencyOrdered
  <2>3. d \in StepId
    BY <2>1, <2>2, StepFields DEF SeenBefore
  <2>4. CommittedUpTo(i)
    BY <2>1 DEF IInv, Commits
  <2> QED
    BY <2>2, <2>3, <2>4 DEF CommittedUpTo
<1> QED
  BY <1>1, Invariant, PTL

\* A run has always committed a prefix of its plan, whatever failed or died.
THEOREM RunsCommitAPrefix == Spec => []CommittedPrefix
<1>1. IInv => CommittedPrefix
  <2> SUFFICES ASSUME IInv PROVE CommittedPrefix
    OBVIOUS
  <2>1. i \in 1..(Len(plan) + 1) /\ (i <= Len(plan) => i + 1 \in 1..(Len(plan) + 1))
    BY DEF IInv, TypeOK
  <2>2. outcome = "none" /\ status = "success" => i <= Len(plan)
    BY DEF IInv, TypeOK, Control, InStep, InTransaction, Reporting
  <2>3. \/ CommittedUpTo(i)
        \/ i <= Len(plan) /\ CommittedUpTo(i + 1)
    BY <2>2 DEF IInv, Commits
  <2> QED
    BY <2>1, <2>3 DEF CommittedPrefix, CommittedUpTo
<1> QED
  BY <1>1, Invariant, PTL

\* A success record is of a committed step, a failure record of a step that
\* left nothing behind, for every interleaving of crashes and lost sessions.
THEOREM LogNeverLies == Spec => []LogIsTrue
<1>1. IInv => LogIsTrue
  BY DEF IInv, Reports
<1> QED
  BY <1>1, Invariant, PTL

\* No record follows a failure record of the same run.
THEOREM FailureIsLast == Spec => []FailureEndsRun
<1>1. IInv => FailureEndsRun
  BY DEF IInv, Reports
<1> QED
  BY <1>1, Invariant, PTL

\* Each run leaves at most one committed step out of the log.
THEOREM UnreportedBound == Spec => []AtMostOneUnreported
<1>1. IInv => AtMostOneUnreported
  <2> SUFFICES ASSUME IInv, NEW r \in 1..run, NEW x \in StepId, NEW y \in StepId,
                      Unreported(r, x), Unreported(r, y)
               PROVE  x = y
    BY DEF AtMostOneUnreported, Unreported
  <2>1. CASE r = run
    BY <2>1, UnreportedIsInHand DEF IInv
  <2>2. CASE r # run
    <3>1. r \in 1..(run - 1)
      BY <2>2, MaxRunsAssumption DEF IInv, TypeOK
    <3> QED
      BY <3>1 DEF IInv, Reports
  <2> QED
    BY <2>1, <2>2
<1> QED
  BY <1>1, Invariant, PTL

\* No step inherits a session or a transaction from the one before it.
THEOREM CleanBoundaries == Spec => []NothingInherited
<1>1. IInv => NothingInherited
  BY DEF IInv, Control, NothingInherited, InTransaction
<1> QED
  BY <1>1, Invariant, PTL
-----------------------------------------------------------------------------
\* A run fails by a fault of its own, or because the log was torn before.
LEMMA BlameStep ==
  ASSUME TypeOK, Control, Blame, [Next]_vars
  PROVE  Blame'
<1> USE DEF Blame, OnlyDisturbedRunsFail
<1>1. CASE StartRun \/ LoadPlan \/ ParseFile \/ Connect
  BY <1>1 DEF StartRun, LoadPlan, ParseFile, Connect, Fail, Return, GoTo, logging, Control,
              InTransaction
<1>2. CASE ReadLog
  <2>1. log.kind = "torn" => log = Torn
    <3>1. log \in [kind : {"absent", "empty", "torn"}, entries : {<<>>}]
            \/ log \in [kind : {"json"}, entries : Seq(Record)]
      BY DEF TypeOK, LogFiles
    <3> QED
      BY <3>1 DEF Torn
  <2>2. outcome = "none" /\ pc = "read_log"
    BY <1>2 DEF ReadLog, Control
  <2> QED
    BY <1>2, <2>1, <2>2 DEF ReadLog, Readable, Return, logging
<1>3. CASE Close
  BY <1>3 DEF Close, EndStep, Return, Control
<1>4. CASE FinishRun \/ ExecuteOk \/ ExecuteRaises \/ Rollback \/ RollbackRaises \/ Commit
            \/ CommitRaises
  BY <1>4 DEF FinishRun, ExecuteOk, ExecuteRaises, Rollback, RollbackRaises, Commit, CommitRaises,
              Fail, Return, GoTo, logging, database, Control, InTransaction
<1>5. CASE OpenLog \/ FlushPart \/ WriteLog
  BY <1>5 DEF OpenLog, FlushPart, WriteLog, Fail, Return, GoTo, process, Control
<1>6. CASE Main \/ Kill \/ SessionLost \/ UNCHANGED vars
  BY <1>6 DEF Main, Kill, SessionLost, process, logging, vars
<1> QED
  BY <1>1, <1>2, <1>3, <1>4, <1>5, <1>6 DEF Next, EngineStep

\* The actions that leave the log, the plan and the cursor alone.
LEMMA LogUntouched ==
  ASSUME LogContents, UNCHANGED <<run, plan, i, log, accepted>>,
         pc' \in BeforeWrite => pc \in BeforeWrite,
         pc' \in {"open_log", "write_log", "close"} => pc' = pc /\ UNCHANGED <<status, data>>,
         outcome' = "ok" => outcome = "ok" /\ committed' = committed
  PROVE  LogContents'
<1>1. LastStretch(Entries(log))'
  BY DEF LogContents, LastStretch
<1>2. \A n : EndsWith(Entries(log), n) => EndsWith(Entries(log), n)'
  BY DEF EndsWith
<1>3. pc' \in BeforeWrite =>
        EndsWith(Entries(log), i - 1)' /\ (i' > 1 => log'.kind = "json")
  BY <1>2 DEF LogContents
<1>4. pc' \in {"open_log", "write_log"} => ThisRecord' = ThisRecord
  BY DEF ThisRecord
<1>5. ASSUME pc' = "write_log"
      PROVE  \E s \in Seq(Record) :
               LastStretch(s)' /\ EndsWith(s, i - 1)' /\ data' = Append(s, ThisRecord')
  <2>1. PICK s \in Seq(Record) :
          LastStretch(s) /\ EndsWith(s, i - 1) /\ data = Append(s, ThisRecord)
    BY <1>5 DEF LogContents
  <2>2. LastStretch(s)' /\ EndsWith(s, i - 1)'
    BY <2>1 DEF LastStretch, EndsWith
  <2>3. data' = Append(s, ThisRecord')
    BY <1>4, <1>5, <2>1
  <2> QED
    BY <2>2, <2>3
<1>6. outcome' = "ok" =>
        /\ log'.kind = "json" /\ EndsWith(Entries(log), Len(plan))'
        /\ CommittedUpTo(Len(plan) + 1)'
  BY <1>2 DEF LogContents, CommittedUpTo, Committed
<1>7. pc' = "close" /\ status' = "success" =>
        log'.kind = "json" /\ EndsWith(Entries(log), i)'
  BY <1>2 DEF LogContents
<1>8. pc' = "open_log" => data' = Append(Entries(log)', ThisRecord')
  BY <1>4 DEF LogContents
<1>9. pc' = "write_log" => log'.kind \in {"empty", "torn"}
  BY DEF LogContents
<1> QED
  BY <1>1, <1>3, <1>5, <1>6, <1>7, <1>8, <1>9 DEF LogContents

\* record() keeps the file a last stretch of the history and puts the step in
\* hand behind the steps before it.
LEMMA LogContentsStep ==
  ASSUME IInv, LogContents, [Next]_vars, TypeOK'
  PROVE  LogContents'
<1>t. /\ Entries(log) \in Seq(Record) /\ accepted \in Seq(Record) /\ plan \in Seq(Step(StepId))
      /\ Len(accepted) \in Nat /\ Len(Entries(log)) \in Nat /\ Len(plan) \in Nat
      /\ i \in Nat \ {0} /\ i <= Len(plan) + 1
  <2>1. /\ Entries(log) \in Seq(Record) /\ accepted \in Seq(Record)
        /\ plan \in Seq(Step(StepId)) /\ i \in 1..(Len(plan) + 1)
    BY LogFileTypes DEF IInv, TypeOK
  <2> QED
    BY <2>1
<1>1. CASE StartRun
  BY <1>1 DEF StartRun, logging, LogContents, LastStretch, BeforeWrite, InTransaction
<1>2. CASE LoadPlan
  <2>1. CASE pc' = "step" /\ i' = 1 /\ outcome' = outcome /\ outcome = "none"
    <3>1. UNCHANGED <<log, accepted>>
      BY <1>2 DEF LoadPlan, logging
    <3>2. EndsWith(Entries(log), i - 1)'
      BY <1>t, <2>1, <3>1 DEF EndsWith, Entries
    <3> QED
      BY <2>1, <3>1, <3>2 DEF LogContents, LastStretch
  <2>2. CASE Fail("ExecutionPlanError") \/ Fail("TypeError")
    BY <1>2, <2>2, LogUntouched
    DEF LoadPlan, logging, Fail, Return, BeforeWrite, InTransaction
  <2>3. pc = "load" /\ outcome = "none" /\ i = 1
    BY <1>2 DEF LoadPlan, IInv, Control
  <2> QED
    BY <1>2, <2>1, <2>2, <2>3 DEF LoadPlan
<1>3. CASE FinishRun
  <2>1. /\ pc = "step" /\ i = Len(plan) + 1 /\ pc' = "returned" /\ outcome' = "ok"
        /\ UNCHANGED <<run, plan, i, committed, log, accepted>>
    BY <1>3, <1>t DEF FinishRun, Return, database, logging
  <2>2. Len(plan) # 0
    BY <1>t, <2>1 DEF IInv, Control, Executable
  <2>3. log.kind = "json" /\ EndsWith(Entries(log), Len(plan))
    BY <1>t, <2>1, <2>2 DEF LogContents, BeforeWrite
  <2>4. CommittedUpTo(Len(plan) + 1)
    BY <2>1 DEF IInv, Control, Commits
  <2> QED
    BY <2>1, <2>3, <2>4
    DEF LogContents, LastStretch, EndsWith, CommittedUpTo, Committed, BeforeWrite, InTransaction
<1>4. CASE ReadLog
  <2>1. CASE Return("JSONDecodeError")
    BY <1>4, <2>1, LogUntouched DEF ReadLog, Return, database, logging, BeforeWrite, InTransaction
  <2>2. CASE data' = NewEntries /\ pc' = "open_log" /\ UNCHANGED <<run, plan, i, status, outcome>>
    <3>1. UNCHANGED <<log, accepted, committed>> /\ pc = "read_log" /\ outcome # "ok"
      BY <1>4 DEF ReadLog, database, logging, IInv, Control
    <3>2. data' = Append(Entries(log)', ThisRecord')
      BY <2>2, <3>1 DEF NewEntries, ThisRecord
    <3>3. /\ EndsWith(Entries(log), i - 1)' /\ LastStretch(Entries(log))'
          /\ i' > 1 => log'.kind = "json"
      BY <2>2, <3>1 DEF LogContents, EndsWith, LastStretch, BeforeWrite
    <3> QED
      BY <2>2, <3>1, <3>2, <3>3 DEF LogContents
  <2> QED
    BY <1>4, <2>1, <2>2 DEF ReadLog
<1>e. LastStretch(<<>>)
  <2>1. SubSeq(accepted, Len(accepted) + 1, Len(accepted)) = <<>>
    BY <1>t
  <2> QED
    BY <1>t, <2>1 DEF LastStretch
<1>5. CASE OpenLog
  <2>1. CASE Fail("OSError") /\ log' = log
    BY <1>5, <2>1, LogUntouched
    DEF OpenLog, Fail, Return, database, BeforeWrite, InTransaction
  <2>2. CASE GoTo("write_log") /\ log' = Empty
    <3>1. /\ pc = "open_log" /\ pc' = "write_log" /\ outcome # "ok" /\ Entries(log)' = <<>>
          /\ log'.kind = "empty"
          /\ UNCHANGED <<run, plan, i, status, data, outcome, accepted>>
      BY <1>5, <2>2 DEF OpenLog, GoTo, Empty, Entries, IInv, Control
    <3>2. PICK s \in Seq(Record) :
            LastStretch(s) /\ EndsWith(s, i - 1) /\ data = Append(s, ThisRecord)
      BY <1>t, <3>1 DEF LogContents, BeforeWrite
    <3>3. LastStretch(s)' /\ EndsWith(s, i - 1)' /\ data' = Append(s, ThisRecord')
      BY <3>1, <3>2 DEF LastStretch, EndsWith, ThisRecord
    <3>4. LastStretch(Entries(log))'
      BY <1>e, <3>1 DEF LastStretch
    <3> QED
      BY <3>1, <3>3, <3>4 DEF LogContents, BeforeWrite, InTransaction
  <2> QED
    BY <1>5, <2>1, <2>2 DEF OpenLog
<1>6. CASE FlushPart
  <2>1. /\ pc = "write_log" /\ pc' = "write_log" /\ outcome # "ok" /\ Entries(log)' = <<>>
        /\ log'.kind = "torn"
        /\ UNCHANGED <<run, plan, i, status, data, outcome, accepted>>
    BY <1>6 DEF FlushPart, process, Torn, Entries, IInv, Control
  <2>2. PICK s \in Seq(Record) :
          LastStretch(s) /\ EndsWith(s, i - 1) /\ data = Append(s, ThisRecord)
    BY <2>1 DEF LogContents
  <2>3. LastStretch(s)' /\ EndsWith(s, i - 1)' /\ data' = Append(s, ThisRecord')
    BY <2>1, <2>2 DEF LastStretch, EndsWith, ThisRecord
  <2>4. LastStretch(Entries(log))'
    BY <1>e, <2>1 DEF LastStretch
  <2> QED
    BY <2>1, <2>3, <2>4 DEF LogContents, BeforeWrite, InTransaction
<1>7. CASE WriteLog
  <2>1. CASE Fail("OSError") /\ UNCHANGED logging
    BY <1>7, <2>1, LogUntouched
    DEF WriteLog, Fail, Return, database, logging, BeforeWrite, InTransaction
  <2>2. CASE GoTo("close") /\ log' = Json(data) /\ accepted' = Append(accepted, ThisRecord)
    <3>1. /\ pc = "write_log" /\ pc' = "close" /\ outcome # "ok" /\ i <= Len(plan)
          /\ Entries(log)' = data /\ log'.kind = "json" /\ status # "none"
          /\ UNCHANGED <<run, plan, i, status, outcome>>
      BY <1>7, <2>2 DEF WriteLog, GoTo, Json, Entries, IInv, Control, InStep, Reporting
    <3>2. ThisRecord \in Record
      BY <3>1, ThisRecordType DEF IInv
    <3>3. PICK s \in Seq(Record) :
            LastStretch(s) /\ EndsWith(s, i - 1) /\ data = Append(s, ThisRecord)
      BY <3>1 DEF LogContents
    <3>4. LastStretch(Entries(log))'
      <4>1. PICK a \in 0..Len(accepted) : s = SubSeq(accepted, a + 1, Len(accepted))
        BY <3>3 DEF LastStretch
      <4>2. data = SubSeq(accepted', a + 1, Len(accepted'))
        BY <1>t, <2>2, <3>2, <3>3, <4>1, LastStretchGrows
      <4>3. Len(accepted') = Len(accepted) + 1
        BY <1>t, <2>2, <3>2
      <4> QED
        <5>1. a \in 0..Len(accepted')
          BY <1>t, <4>1, <4>3
        <5> QED
          BY <3>1, <4>2, <5>1 DEF LastStretch
    <3>5. status = "success" => EndsWith(Entries(log), i)'
      <4> SUFFICES ASSUME status = "success"
                   PROVE  EndsWith(data, i)
        BY <3>1 DEF EndsWith
      <4>1. /\ Len(data) = Len(s) + 1 /\ Len(s) \in Nat /\ data[Len(s) + 1] = ThisRecord
            /\ \A p \in 1..Len(s) : data[p] = s[p]
        BY <3>2, <3>3
      <4>2. /\ Len(s) >= i - 1
            /\ \A j \in 1..(i - 1) : s[Len(s) - (i - 1) + j]
                  = [run |-> run, step_id |-> plan[j].step_id, status |-> "success"]
        BY <3>3 DEF EndsWith
      <4>3. ASSUME NEW j \in 1..i
            PROVE  data[Len(data) - i + j]
                     = [run |-> run, step_id |-> plan[j].step_id, status |-> "success"]
        <5>1. CASE j = i
          BY <1>t, <4>1, <5>1 DEF ThisRecord
        <5>2. CASE j # i
          <6>1. j \in 1..(i - 1) /\ Len(s) - (i - 1) + j \in 1..Len(s)
            BY <1>t, <4>1, <4>2, <5>2
          <6>2. Len(data) - i + j = Len(s) - (i - 1) + j
            BY <1>t, <4>1
          <6> QED
            BY <4>1, <4>2, <6>1, <6>2
        <5> QED
          BY <5>1, <5>2
      <4> QED
        BY <1>t, <4>1, <4>2, <4>3 DEF EndsWith
    <3> QED
      BY <3>1, <3>4, <3>5 DEF LogContents, BeforeWrite, InTransaction
  <2> QED
    BY <1>7, <2>1, <2>2 DEF WriteLog
<1>8. CASE Close
  <2>1. /\ pc = "close" /\ outcome # "ok" /\ UNCHANGED <<run, plan, log, accepted, committed>>
    BY <1>8 DEF Close, EndStep, Return, logging, IInv, Control
  <2>2. CASE status = "success" /\ pc' = "step" /\ i' = i + 1 /\ outcome' = outcome
    <3>1. EndsWith(Entries(log), i - 1)' /\ log'.kind = "json"
      <4>1. EndsWith(Entries(log), i) /\ log.kind = "json" /\ i' - 1 = i
        BY <1>t, <2>1, <2>2 DEF LogContents
      <4> QED
        BY <2>1, <4>1 DEF EndsWith
    <3> QED
      BY <2>1, <2>2, <3>1 DEF LogContents, LastStretch
  <2>3. CASE Return("ExecutionFailure")
    BY <2>1, <2>3, LogUntouched DEF Return, BeforeWrite, InTransaction
  <2> QED
    BY <1>8, <2>2, <2>3 DEF Close, EndStep
<1>9. CASE ParseFile \/ Connect \/ ExecuteOk \/ ExecuteRaises \/ Rollback \/ RollbackRaises
            \/ Commit \/ CommitRaises
  <2>1. /\ pc \in BeforeWrite /\ outcome = "none" /\ outcome' # "ok"
        /\ pc' \notin {"open_log", "write_log", "close"}
        /\ UNCHANGED <<run, plan, i, log, accepted>>
    BY <1>9 DEF ParseFile, Connect, ExecuteOk, ExecuteRaises, Rollback, RollbackRaises, Commit,
                CommitRaises, Fail, Return, GoTo, database, logging, BeforeWrite, InTransaction,
                IInv, Control
  <2> QED
    BY <2>1, LogUntouched
<1>10. CASE Main \/ Kill \/ SessionLost \/ UNCHANGED vars
  <2>1. /\ pc' = "down" \/ (pc' = pc /\ UNCHANGED <<status, data>>)
        /\ outcome' = "ok" => outcome = "ok" /\ committed' = committed
        /\ UNCHANGED <<run, plan, i, log, accepted>>
    BY <1>10 DEF Main, Kill, SessionLost, vars, process, database, logging
  <2> QED
    BY <2>1, LogUntouched DEF BeforeWrite, InTransaction
<1> QED
  BY <1>1, <1>2, <1>3, <1>4, <1>5, <1>6, <1>7, <1>8, <1>9, <1>10 DEF Next, EngineStep

\* The second invariant holds too.
THEOREM LogInvariant == Spec => [](LogContents /\ Blame)
<1>1. Init => LogContents /\ Blame
  <2> SUFFICES ASSUME Init
               PROVE  LogContents /\ Blame
    OBVIOUS
  <2>1. <<>> = SubSeq(<<>>, 1, 0) /\ Len(<<>>) = 0
    OBVIOUS
  <2> QED
    BY <2>1 DEF Init, LogContents, LastStretch, BeforeWrite, InTransaction, Blame,
                OnlyDisturbedRunsFail, Absent, Entries
<1>2. LogContents /\ Blame /\ IInv /\ IInv' /\ [Next]_vars => (LogContents /\ Blame)'
  BY LogContentsStep, BlameStep DEF IInv
<1> QED
  BY <1>1, <1>2, Invariant, PTL DEF Spec

\* Crashes while the log is rewritten cost history from the front only.
THEOREM LogLosesOnlyThePast == Spec => []LogHoldsRecentHistory
<1>1. IInv /\ LogContents => LogHoldsRecentHistory
  BY DEF LogContents, LastStretch, LogHoldsRecentHistory, Entries
<1> QED
  BY <1>1, Invariant, LogInvariant, PTL

\* A run that succeeds has committed its whole plan and the log ends with it.
THEOREM SuccessMeansAll == Spec => []SuccessIsComplete
<1>1. IInv /\ LogContents => SuccessIsComplete
  <2> SUFFICES ASSUME IInv, LogContents, outcome = "ok"
               PROVE  /\ \A id \in IdsOf(plan) : Committed(run, id)
                      /\ log.kind = "json" /\ EndsWith(log.entries, Len(plan))
    BY DEF SuccessIsComplete, EndsWith, IInv, TypeOK
  <2>1. /\ log.kind = "json" /\ EndsWith(Entries(log), Len(plan))
        /\ CommittedUpTo(Len(plan) + 1)
    BY DEF LogContents
  <2>2. SeenBefore(plan, Len(plan) + 1) = IdsOf(plan) /\ IdsOf(plan) \subseteq StepId
    <3>1. plan \in Seq(Step(StepId))
      BY DEF IInv, TypeOK
    <3> QED
      BY <3>1, SeenLast, StepFields DEF IdsOf
  <2> QED
    BY <2>1, <2>2 DEF CommittedUpTo, Entries
<1> QED
  BY <1>1, Invariant, LogInvariant, PTL

\* An undisturbed run fails only on a log that an earlier crash left torn.
THEOREM FailuresHaveACause == Spec => []OnlyDisturbedRunsFail
<1>1. Blame => OnlyDisturbedRunsFail
  BY DEF Blame
<1> QED
  BY <1>1, LogInvariant, PTL

-----------------------------------------------------------------------------
(* The engine implements PipelineRun: initial states map to initial states,  *)
(* and under the invariant every step maps to a step of PipelineRun or       *)
(* leaves its variables alone.                                               *)

\* PipelineRun reads plans as the engine does.
LEMMA SamePlanOperators ==
  /\ \A s : Pipeline!IdsOf(s) = IdsOf(s)
  /\ \A s, n : Pipeline!SeenBefore(s, n) = SeenBefore(s, n)
  /\ \A s : Pipeline!Executable(s) <=> Executable(s)
BY DEF IdsOf, SeenBefore, Executable, UniqueIds, DependencyOrdered, DepsOf, Pipeline!IdsOf,
   Pipeline!SeenBefore, Pipeline!Executable, Pipeline!UniqueIds, Pipeline!DependencyOrdered,
   Pipeline!DepsOf

\* The ids PipelineRun reads off `committed` are the steps listed before the
\* position the invariant talks about.
LEMMA AppliedIsPrefix ==
  ASSUME TypeOK, NEW n \in 1..(Len(plan) + 1), CommittedUpTo(n)
  PROVE  Pipeline!Applied = SeenBefore(plan, n)
<1>1. SeenBefore(plan, n) \subseteq StepId
  <2> SUFFICES ASSUME NEW j \in 1..(n - 1) PROVE plan[j].step_id \in StepId
    BY DEF SeenBefore
  <2>1. plan \in Seq(Step(StepId)) /\ j \in 1..Len(plan)
    BY DEF TypeOK
  <2> QED
    BY <2>1, StepFields
<1>2. \A id : id \in Pipeline!Applied <=> <<run, id>> \in committed
  <2> DEFINE current == {d \in committed : d[1] = run}
  <2>1. \A c \in current : c = <<run, c[2]>>
    BY DEF TypeOK
  <2>2. \A id : <<run, id>> \in committed <=> \E c \in current : id = c[2]
    BY <2>1
  <2> QED
    BY <2>2 DEF Pipeline!Applied
<1>3. \A id : <<run, id>> \in committed => id \in StepId
  BY DEF TypeOK
<1> QED
  BY <1>1, <1>2, <1>3 DEF CommittedUpTo, Committed

\* Committing the step in hand commits the next step of the plan.
LEMMA CommitsNext ==
  ASSUME IInv, pc = "commit", run' = run, plan' = plan,
         committed' = committed \cup {ThisCommit}
  PROVE  Pipeline!CommitNext
<1>1. i \in DOMAIN plan /\ i \in 1..(Len(plan) + 1) /\ CommittedUpTo(i)
  BY DEF IInv, TypeOK, Control, Commits, InStep, InTransaction
<1>2. Pipeline!Applied = SeenBefore(plan, i)
  BY <1>1, AppliedIsPrefix DEF IInv
<1> QED
  BY <1>1, <1>2, SamePlanOperators DEF Pipeline!CommitNext, ThisCommit

\* A run that raises or is killed stops.
LEMMA Stops ==
  ASSUME IInv, pc \notin {"down", "returned"}, outcome' \notin {"none", "ok"},
         run' = run, plan' = plan,
         \/ committed' = committed
         \/ pc = "commit" /\ committed' = committed \cup {ThisCommit}
  PROVE  Pipeline!Stop
<1>1. outcome = "none" /\ run \in Nat /\ run # 0
  BY MaxRunsAssumption DEF IInv, TypeOK, Control
<1>2. RunStatus \in {"planning", "running"} /\ RunStatus' = "stopped"
  BY <1>1 DEF RunStatus
<1>3. committed' = committed \/ Pipeline!CommitNext
  BY CommitsNext
<1> QED
  BY <1>2, <1>3 DEF Pipeline!Stop

\* A call that returns normally, other than commit(), shows nothing.
LEMMA Stutters ==
  ASSUME UNCHANGED <<run, plan, outcome, committed>>,
         outcome # "none" \/ (pc' = "load" <=> pc = "load")
  PROVE  UNCHANGED Pipeline!vars
<1>1. RunStatus' = RunStatus
  BY DEF RunStatus
<1> QED
  BY <1>1 DEF Pipeline!vars

LEMMA StepRefines ==
  ASSUME IInv, [Next]_vars
  PROVE  [Pipeline!Next]_(Pipeline!vars)
<1> USE DEF Fail, Return, GoTo, process, database, logging
<1>t. /\ run \in Nat
      /\ (pc \notin {"down", "returned"} => outcome = "none" /\ run # 0)
  BY MaxRunsAssumption DEF IInv, TypeOK, Control
<1>1. CASE StartRun
  <2>1. RunStatus \in {"ready", "succeeded", "stopped"}
    BY <1>1, <1>t DEF StartRun, IInv, Control, RunStatus
  <2>2. RunStatus' = "planning" /\ run' = run + 1 /\ plan' = <<>> /\ committed' = committed
    BY <1>1, <1>t DEF StartRun, RunStatus
  <2> QED
    BY <2>1, <2>2 DEF Pipeline!Next, Pipeline!Start
<1>2. CASE LoadPlan
  <2>1. PICK file \in PlanFiles :
          \/ /\ Executable(file) /\ plan' = file /\ pc' = "step"
             /\ UNCHANGED <<run, i, status, data, outcome, disturbed>>
          \/ ~Executable(file) /\ Fail("ExecutionPlanError")
          \/ file = <<>> /\ Fail("TypeError")
    BY <1>2 DEF LoadPlan
  <2>2. pc = "load" /\ committed' = committed
    BY <1>2 DEF LoadPlan
  <2>3. CASE Executable(file) /\ plan' = file /\ pc' = "step"
             /\ UNCHANGED <<run, i, status, data, outcome, disturbed>>
    <3>1. RunStatus = "planning" /\ RunStatus' = "running"
      BY <1>t, <2>2, <2>3 DEF RunStatus
    <3> QED
      BY <2>2, <2>3, <3>1, SamePlanOperators DEF Pipeline!Next, Pipeline!Load
  <2>4. CASE Fail("ExecutionPlanError")
    BY <2>2, <2>4, Stops DEF Pipeline!Next
  <2>5. CASE Fail("TypeError")
    BY <2>2, <2>5, Stops DEF Pipeline!Next
  <2> QED
    BY <2>1, <2>3, <2>4, <2>5
<1>3. CASE FinishRun
  <2>1. /\ pc = "step" /\ i > Len(plan) /\ outcome' = "ok"
        /\ UNCHANGED <<run, plan, committed>>
    BY <1>3 DEF FinishRun
  <2>2. RunStatus = "running" /\ RunStatus' = "succeeded"
    BY <1>t, <2>1 DEF RunStatus
  <2>3. i = Len(plan) + 1 /\ plan \in Seq(Step(StepId)) /\ i \in 1..(Len(plan) + 1)
    BY <2>1 DEF IInv, TypeOK
  <2>4. CommittedUpTo(i)
    BY <2>1, <1>t DEF IInv, Control, Commits
  <2>5. Pipeline!Applied = IdsOf(plan)
    BY <2>3, <2>4, AppliedIsPrefix, SeenLast DEF IInv
  <2> QED
    BY <2>1, <2>2, <2>5, SamePlanOperators DEF Pipeline!Next, Pipeline!Succeed
<1>4. CASE Commit
  <2>1. /\ pc = "commit" /\ pc' = "read_log"
        /\ UNCHANGED <<run, plan, outcome>> /\ committed' = committed \cup {ThisCommit}
    BY <1>4 DEF Commit
  <2>2. RunStatus = "running" /\ RunStatus' = "running"
    BY <1>t, <2>1 DEF RunStatus
  <2> QED
    BY <2>1, <2>2, CommitsNext DEF Pipeline!Next, Pipeline!Apply
<1>5. CASE CommitRaises \/ Kill
  <2>1. /\ pc \notin {"down", "returned"} /\ outcome' \notin {"none", "ok"}
        /\ UNCHANGED <<run, plan>>
        /\ \/ committed' = committed
           \/ pc = "commit" /\ committed' = committed \cup {ThisCommit}
    BY <1>5 DEF CommitRaises, Kill
  <2> QED
    BY <2>1, Stops DEF Pipeline!Next
<1>6. CASE RollbackRaises
  BY <1>6, Stops DEF RollbackRaises, Pipeline!Next
<1>7. CASE ParseFile \/ Connect \/ ReadLog \/ OpenLog \/ WriteLog \/ Close
  <2>1. /\ pc \notin {"down", "returned", "load"} /\ pc' # "load"
        /\ outcome' = outcome \/ outcome' \notin {"none", "ok"}
        /\ UNCHANGED <<run, plan, committed>>
    BY <1>7 DEF ParseFile, Connect, ReadLog, OpenLog, WriteLog, Close, EndStep
  <2> QED
    BY <2>1, Stops, Stutters DEF Pipeline!Next
<1>8. CASE \/ ExecuteOk \/ ExecuteRaises \/ Rollback \/ FlushPart \/ Main \/ SessionLost
           \/ UNCHANGED vars
  <2>1. UNCHANGED <<run, plan, outcome, committed>>
    BY <1>8 DEF ExecuteOk, ExecuteRaises, Rollback, FlushPart, Main, SessionLost, vars
  <2>2. outcome # "none" \/ (pc' = "load" <=> pc = "load")
    BY <1>8 DEF ExecuteOk, ExecuteRaises, Rollback, FlushPart, Main, SessionLost, vars, IInv,
       Control, TypeOK
  <2> QED
    BY <2>1, <2>2, Stutters
<1> QED
  BY <1>1, <1>2, <1>3, <1>4, <1>5, <1>6, <1>7, <1>8 DEF Next, EngineStep

\* Engine.run refines the abstract pipeline run: durable effects appear step by
\* step in plan order, and success is only claimed for the whole plan.
THEOREM EngineRefinesPipeline == Spec => ImplementsPipeline
<1>1. Init => Pipeline!Init
  BY DEF Init, Pipeline!Init, RunStatus
<1>2. IInv /\ [Next]_vars => [Pipeline!Next]_(Pipeline!vars)
  BY StepRefines
<1> QED
  BY <1>1, <1>2, Invariant, PTL DEF Spec, ImplementsPipeline, Pipeline!Spec
-----------------------------------------------------------------------------
(* What a run may still do *)

\* The calls that have been made for the step in hand.
CallsMade(call) ==
  CASE call = "step"                   -> 0
    [] call = "connect"                -> 1
    [] call = "execute"                -> 2
    [] call \in {"commit", "rollback"} -> 3
    [] call = "read_log"               -> 4
    [] call = "open_log"               -> 5
    [] call = "write_log"              -> 6
    [] call = "close"                  -> 7

\* The calls that a run can still make at most, from the step in hand on: eight
\* for each step, then one to see that there is no other, and main's.
CallsFromHere == 8 * (Len(plan) + 1 - i) + 2

\* The same, now.
CallsLeft ==
  IF pc = "down" THEN 0
  ELSE IF pc = "returned" THEN 1
  ELSE CallsFromHere - CallsMade(pc)

RunAdvances ==
  pc # "load" =>
    /\ EngineStep => CallsLeft' < CallsLeft
    /\ StartRun \/ CallsLeft' <= CallsLeft

LEMMA CallsMadeOf ==
  /\ CallsMade("step") = 0 /\ CallsMade("connect") = 1 /\ CallsMade("execute") = 2
  /\ CallsMade("commit") = 3 /\ CallsMade("rollback") = 3
  /\ CallsMade("read_log") = 4 /\ CallsMade("open_log") = 5 /\ CallsMade("write_log") = 6
  /\ CallsMade("close") = 7
BY DEF CallsMade

\* Only at the start of a step may there be no step in hand.
LEMMA CallsLeftOf ==
  ASSUME IInv
  PROVE  /\ pc \in InStep => /\ Len(plan) + 1 - i \in Nat \ {0}
                             /\ CallsMade(pc) \in 1..7
                             /\ CallsLeft = 8 * (Len(plan) + 1 - i) + 2 - CallsMade(pc)
         /\ pc = "step" => /\ Len(plan) + 1 - i \in Nat
                           /\ CallsLeft = 8 * (Len(plan) + 1 - i) + 2
         /\ pc = "returned" => CallsLeft = 1
         /\ pc = "down" => CallsLeft = 0
<1>1. i \in 1..(Len(plan) + 1) /\ Len(plan) \in Nat
  BY DEF IInv, TypeOK
<1>2. ASSUME pc \in InStep
      PROVE  /\ Len(plan) + 1 - i \in Nat \ {0}
             /\ CallsMade(pc) \in 1..7
             /\ CallsLeft = 8 * (Len(plan) + 1 - i) + 2 - CallsMade(pc)
  <2>1. i <= Len(plan)
    BY <1>2 DEF IInv, Control
  <2>2. CallsMade(pc) \in 1..7
    BY <1>2, CallsMadeOf DEF InStep, InTransaction, Reporting
  <2>3. pc # "down" /\ pc # "returned"
    BY <1>2 DEF InStep, InTransaction, Reporting
  <2> QED
    BY <1>1, <2>1, <2>2, <2>3 DEF CallsLeft, CallsFromHere
<1>3. pc = "step" => CallsLeft = CallsFromHere - 0
  BY CallsMadeOf DEF CallsLeft
<1>4. pc = "step" => /\ Len(plan) + 1 - i \in Nat
                     /\ CallsLeft = 8 * (Len(plan) + 1 - i) + 2
  BY <1>1, <1>3 DEF CallsFromHere
<1> QED
  BY <1>2, <1>4 DEF CallsLeft

LEMMA CallsLeftBound ==
  ASSUME IInv
  PROVE  pc # "load" => CallsLeft \in 0..(8 * Len(plan) + 2)
<1>1. i \in 1..(Len(plan) + 1) /\ Len(plan) \in Nat
  BY DEF IInv, TypeOK
<1>2. CASE pc \in InStep
  BY <1>1, <1>2, CallsLeftOf
<1>3. CASE pc \in {"step", "returned", "down"}
  BY <1>1, <1>3, CallsLeftOf
<1> QED
  BY <1>2, <1>3 DEF IInv, TypeOK, InStep, InTransaction, Reporting

LEMMA CallsDecrease ==
  ASSUME IInv, IInv', [Next]_vars
  PROVE  RunAdvances
<1> SUFFICES ASSUME pc # "load"
             PROVE  /\ EngineStep => CallsLeft' < CallsLeft
                    /\ StartRun \/ CallsLeft' <= CallsLeft
  BY DEF RunAdvances
<1>n. CallsLeft \in Int
  BY CallsLeftBound
<1>1. CASE UNCHANGED <<pc, plan, i>>
  <2>1. CallsLeft' = CallsLeft
    BY <1>1 DEF CallsLeft, CallsFromHere
  <2>2. ~EngineStep
    BY <1>1 DEF EngineStep, LoadPlan, ParseFile, FinishRun, Connect, ExecuteOk, ExecuteRaises,
       Commit, CommitRaises, Rollback, RollbackRaises, ReadLog, OpenLog, WriteLog, Close, EndStep,
       Main, GoTo, Fail, Return
  <2> QED
    BY <1>n, <2>1, <2>2
<1>2. CASE pc \in InStep \cup {"step"} /\ pc' = "returned"
  <2>1. CallsLeft' = 1
    BY <1>2 DEF CallsLeft
  <2>2. CallsLeft > 1
    BY <1>2, CallsLeftOf
  <2> QED
    BY <1>n, <2>1, <2>2
<1>3. CASE pc \in InStep \cup {"step", "returned"} /\ pc' = "down"
  <2>1. CallsLeft' = 0
    BY <1>3 DEF CallsLeft
  <2>2. CallsLeft > 0
    BY <1>3, CallsLeftOf
  <2> QED
    BY <1>n, <2>1, <2>2
<1>4. CASE /\ pc \in InStep \cup {"step"} /\ pc' \in InStep /\ UNCHANGED <<plan, i>>
           /\ CallsMade(pc) < CallsMade(pc')
  <2>1. CallsFromHere' = CallsFromHere /\ CallsFromHere \in Int
    BY <1>4 DEF CallsFromHere, IInv, TypeOK
  <2>2. CallsLeft = CallsFromHere - CallsMade(pc)
    BY <1>4 DEF CallsLeft, InStep, InTransaction, Reporting
  <2>3. CallsLeft' = CallsFromHere - CallsMade(pc')
    BY <1>4, <2>1 DEF CallsLeft, InStep, InTransaction, Reporting
  <2>4. CallsMade(pc) \in Nat /\ CallsMade(pc') \in Nat /\ CallsMade(pc) < CallsMade(pc')
    BY <1>4, CallsMadeOf DEF InStep, InTransaction, Reporting
  <2> QED
    BY <2>1, <2>2, <2>3, <2>4
<1>5. CASE pc = "close" /\ pc' = "step" /\ i' = i + 1 /\ UNCHANGED plan
  <2>1. CallsLeft = CallsFromHere - 7 /\ CallsLeft' = CallsFromHere' - 0
    BY <1>5, CallsMadeOf DEF CallsLeft
  <2>2. CallsFromHere' = CallsFromHere - 8 /\ CallsFromHere \in Int
    BY <1>5 DEF CallsFromHere, IInv, TypeOK
  <2> QED
    BY <2>1, <2>2
<1>6. CASE StartRun
  BY <1>6 DEF StartRun, EngineStep, LoadPlan, ParseFile, FinishRun, Connect, ExecuteOk,
     ExecuteRaises, Commit, CommitRaises, Rollback, RollbackRaises, ReadLog, OpenLog, WriteLog,
     Close, Main
<1>7. ASSUME Next, ~StartRun
      PROVE  \/ UNCHANGED <<pc, plan, i>>
             \/ pc \in InStep \cup {"step"} /\ pc' = "returned"
             \/ pc \in InStep \cup {"step", "returned"} /\ pc' = "down"
             \/ /\ pc \in InStep \cup {"step"} /\ pc' \in InStep /\ UNCHANGED <<plan, i>>
                /\ CallsMade(pc) < CallsMade(pc')
             \/ pc = "close" /\ pc' = "step" /\ i' = i + 1 /\ UNCHANGED plan
  <2> USE DEF InStep, InTransaction, Reporting, GoTo, Fail, Return
  <2>1. CASE ParseFile \/ FinishRun \/ Connect \/ ExecuteOk \/ ExecuteRaises
    BY <2>1, CallsMadeOf DEF ParseFile, FinishRun, Connect, ExecuteOk, ExecuteRaises
  <2>2. CASE Commit \/ CommitRaises \/ Rollback \/ RollbackRaises
    BY <2>2, CallsMadeOf DEF Commit, CommitRaises, Rollback, RollbackRaises
  <2>3. CASE ReadLog \/ OpenLog \/ WriteLog \/ Close
    BY <2>3, CallsMadeOf DEF ReadLog, OpenLog, WriteLog, Close, EndStep
  <2>4. CASE Main \/ Kill
    BY <2>4 DEF Main, Kill, IInv, TypeOK
  <2>5. CASE FlushPart \/ SessionLost
    BY <2>5 DEF FlushPart, SessionLost, process
  <2> QED
    BY <1>7, <2>1, <2>2, <2>3, <2>4, <2>5 DEF Next, EngineStep, LoadPlan
<1>8. CASE UNCHANGED vars
  BY <1>1, <1>8 DEF vars, process
<1> QED
  BY <1>1, <1>2, <1>3, <1>4, <1>5, <1>6, <1>7, <1>8

\* A run over a plan of n steps makes 8 n + 2 calls at most: each brings its end
\* nearer, and nothing that happens to the engine meanwhile, a lost session or
\* a refused commit, sends it back to a call it has made.
THEOREM RunsAreBounded ==
  Spec => [](pc # "load" => CallsLeft \in 0..(8 * Len(plan) + 2)) /\ [][RunAdvances]_vars
<1>1. IInv => (pc # "load" => CallsLeft \in 0..(8 * Len(plan) + 2))
  BY CallsLeftBound
<1>2. IInv /\ IInv' /\ [Next]_vars => [RunAdvances]_vars
  BY CallsDecrease
<1> QED
  BY <1>1, <1>2, Invariant, PTL DEF Spec
=============================================================================
