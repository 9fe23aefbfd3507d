------------------------- MODULE HealthCheck_proofs -------------------------
(***************************************************************************)
(* What readers of the log are told, for every set of plans, any number of *)
(* runs and any contents of .mcp.json.  A reader changes nothing of the    *)
(* engine's, so the invariants of Engine_proofs hold while it reads.       *)
(* Records adds what a reader relies on and the engine itself does not.    *)
(***************************************************************************)
EXTENDS HealthCheckProperties, Engine_proofs, FiniteSetTheorems

SameStep(j, k) ==
  accepted[j].run = accepted[k].run /\ accepted[j].step_id = accepted[k].step_id

ShowsFailure(file) ==
  file.kind = "json" /\ \E n \in DOMAIN file.entries : file.entries[n].status = "failure"

Records ==
  /\ log.kind = "absent" => accepted = <<>>
  /\ log.kind = "json" => log.entries # <<>>
  /\ pc = "close" /\ status = "failure" => ShowsFailure(log)
  /\ outcome = "ExecutionFailure" => ShowsFailure(log)
  /\ outcome = "none" => \A n \in DOMAIN accepted :
       accepted[n].run = run =>
         accepted[n].step_id \in SeenBefore(plan, IF pc = "close" THEN i + 1 ELSE i)
  /\ \A j, k \in DOMAIN accepted : SameStep(j, k) => j = k
-----------------------------------------------------------------------------
\* The history of records only grows.
LEMMA AcceptedGrows ==
  ASSUME IInv, [Next]_vars
  PROVE  \/ accepted' = accepted
         \/ WriteLog /\ accepted' = Append(accepted, ThisRecord) /\ ThisRecord \in Record
<1>1. CASE WriteLog /\ accepted' # accepted
  <2>1. i <= Len(plan) /\ status # "none"
    BY <1>1 DEF WriteLog, IInv, Control, InStep, Reporting
  <2>2. TypeOK
    BY DEF IInv
  <2>3. accepted' = Append(accepted, ThisRecord)
    BY <1>1 DEF WriteLog, logging
  <2> QED
    BY <1>1, <2>1, <2>2, <2>3, ThisRecordType
<1>2. CASE ~WriteLog
  BY <1>2 DEF Next, EngineStep, vars, logging, StartRun, LoadPlan, ParseFile, FinishRun, Connect,
     ExecuteOk, ExecuteRaises, Commit, CommitRaises, Rollback, RollbackRaises, ReadLog, OpenLog,
     Close, Main, FlushPart, Kill, SessionLost
<1> QED
  BY <1>1, <1>2

\* Steps that leave the log alone and neither enter nor leave the end of a step.
LEMMA RecordsUntouched ==
  ASSUME Records, UNCHANGED <<run, plan, i, log, accepted>>,
         pc' = "close" => pc = "close" /\ status' = status,
         outcome' = "none" => outcome = "none" /\ (pc = "close" => pc' = "close"),
         outcome' = "ExecutionFailure" => outcome = "ExecutionFailure"
  PROVE  Records'
BY DEF Records, SameStep, ShowsFailure

\* A record that is written is of a step that has none in this run yet.
LEMMA RecordsGrow ==
  ASSUME IInv, LogContents, Records, WriteLog, accepted' = Append(accepted, ThisRecord),
         ThisRecord \in Record
  PROVE  Records'
<1>1. /\ pc = "write_log" /\ outcome = "none" /\ i \in 1..Len(plan) /\ UniqueIds(plan)
      /\ plan \in Seq(Step(StepId)) /\ accepted \in Seq(Record)
  BY DEF WriteLog, IInv, TypeOK, Control, InStep, Reporting, Executable
<1>2. /\ pc' = "close" /\ log' = Json(data) /\ UNCHANGED <<run, plan, i, status, outcome>>
  <2>1. accepted' # accepted
    BY <1>1
  <2> QED
    BY <2>1 DEF WriteLog, GoTo, logging
<1>3. SeenBefore(plan, i + 1) = SeenBefore(plan, i) \cup {ThisRecord.step_id}
  BY <1>1, SeenNext DEF ThisRecord
<1>4. ThisRecord.step_id \notin SeenBefore(plan, i)
  BY <1>1, NotSeenBefore DEF ThisRecord
<1>5. \A n \in DOMAIN accepted :
        accepted[n].run = run => accepted[n].step_id \in SeenBefore(plan, i)
  BY <1>1 DEF Records
<1>6. PICK s \in Seq(Record) : data = Append(s, ThisRecord)
  BY <1>1 DEF LogContents
<1>7. /\ Len(s) + 1 \in DOMAIN data /\ data[Len(s) + 1] = ThisRecord /\ data # <<>>
  BY <1>6
<1>8. log'.kind = "json" /\ log'.entries = data
  BY <1>2 DEF Json
<1>9. status = "failure" => ShowsFailure(log')
  BY <1>7, <1>8 DEF ShowsFailure, ThisRecord
<1>10. /\ DOMAIN accepted' = DOMAIN accepted \cup {Len(accepted) + 1}
       /\ \A n \in DOMAIN accepted : accepted'[n] = accepted[n] /\ n # Len(accepted) + 1
       /\ accepted'[Len(accepted) + 1] = ThisRecord
  BY <1>1
<1>11. ThisRecord.run = run
  BY DEF ThisRecord
<1>12. \A n \in DOMAIN accepted' :
         accepted'[n].run = run => accepted'[n].step_id \in SeenBefore(plan, i + 1)
  BY <1>3, <1>5, <1>10
<1>13. \A n \in DOMAIN accepted :
         ~(accepted[n].run = run /\ accepted[n].step_id = ThisRecord.step_id)
  BY <1>4, <1>5
<1>14. \A j, k \in DOMAIN accepted' : SameStep(j, k)' => j = k
  BY <1>10, <1>11, <1>13 DEF Records, SameStep
<1> QED
  BY <1>1, <1>2, <1>7, <1>8, <1>9, <1>12, <1>14 DEF Records

LEMMA RecordsStep ==
  ASSUME IInv, LogContents, Records, [Next]_vars
  PROVE  Records'
<1> USE DEF logging, process
<1>1. CASE StartRun
  <2>1. /\ run' = run + 1 /\ outcome' = "none" /\ pc' = "load" /\ pc = "down"
        /\ UNCHANGED <<log, accepted>>
    BY <1>1 DEF StartRun
  <2>2. \A n \in DOMAIN accepted : accepted[n].run # run'
    BY <2>1, MaxRunsAssumption DEF IInv, TypeOK, Reports
  <2> QED
    BY <2>1, <2>2 DEF Records, SameStep, ShowsFailure
<1>2. CASE LoadPlan
  <2>1. pc = "load" /\ outcome = "none" /\ i = 1 /\ UNCHANGED <<run, log, accepted>>
    BY <1>2 DEF LoadPlan, IInv, Control, Fail, Return
  <2>2. \A n \in DOMAIN accepted : accepted[n].run # run
    BY <2>1, SeenFirst DEF Records
  <2>3. pc' # "close" /\ outcome' # "ExecutionFailure"
    BY <1>2, <2>1 DEF LoadPlan, Fail, Return
  <2> QED
    BY <2>1, <2>2, <2>3 DEF Records, SameStep
<1>3. CASE OpenLog
  <2>1. CASE log' = Empty
    <3>1. /\ pc = "open_log" /\ outcome = "none" /\ UNCHANGED <<run, plan, i, accepted>>
          /\ pc' # "close" /\ outcome' # "ExecutionFailure"
      BY <1>3 DEF OpenLog, GoTo, Fail, Return, IInv, Control
    <3> QED
      BY <2>1, <3>1 DEF Records, SameStep, Empty
  <2>2. CASE Fail("OSError") /\ UNCHANGED log
    BY <1>3, <2>2, RecordsUntouched DEF OpenLog, Fail, Return
  <2> QED
    BY <1>3, <2>1, <2>2 DEF OpenLog
<1>4. CASE FlushPart
  <2>1. log' = Torn /\ pc = "write_log" /\ UNCHANGED <<pc, run, plan, i, outcome, accepted>>
    BY <1>4 DEF FlushPart
  <2>2. outcome = "none"
    BY <2>1 DEF IInv, Control
  <2> QED
    BY <2>1, <2>2 DEF Records, SameStep, Torn
<1>5. CASE WriteLog
  <2>1. CASE accepted' = accepted
    <3>1. Fail("OSError") /\ UNCHANGED log
      <4>1. accepted' # Append(accepted, ThisRecord)
        BY <2>1 DEF IInv, TypeOK
      <4> QED
        BY <1>5, <4>1 DEF WriteLog
    <3> QED
      BY <2>1, <3>1, RecordsUntouched DEF Fail, Return
  <2> QED
    BY <1>5, <2>1, AcceptedGrows, RecordsGrow
<1>6. CASE Close
  <2>1. pc = "close" /\ outcome = "none" /\ i \in Nat \ {0} /\ UNCHANGED <<run, plan, log, accepted>>
    BY <1>6 DEF Close, EndStep, Return, IInv, TypeOK, Control
  <2>2. CASE status = "success" /\ pc' = "step" /\ i' = i + 1 /\ outcome' = outcome
    BY <2>1, <2>2 DEF Records, SameStep
  <2>3. CASE status = "failure" /\ Return("ExecutionFailure")
    BY <2>1, <2>3 DEF Records, SameStep, Return
  <2> QED
    BY <1>6, <2>2, <2>3 DEF Close, EndStep
<1>7. CASE ParseFile \/ FinishRun \/ Connect \/ ExecuteOk
  BY <1>7, RecordsUntouched DEF ParseFile, FinishRun, Connect, ExecuteOk, GoTo, Fail, Return
<1>8. CASE ExecuteRaises \/ Commit \/ CommitRaises
  BY <1>8, RecordsUntouched DEF ExecuteRaises, Commit, CommitRaises, Fail, Return
<1>9. CASE Rollback \/ RollbackRaises \/ ReadLog
  BY <1>9, RecordsUntouched DEF Rollback, RollbackRaises, ReadLog, Fail, Return
<1>10. CASE Main
  BY <1>10, RecordsUntouched DEF Main, IInv, Control
<1>11. CASE Kill
  BY <1>11, RecordsUntouched DEF Kill
<1>12. CASE SessionLost \/ UNCHANGED vars
  BY <1>12, RecordsUntouched DEF SessionLost, vars
<1> QED
  BY <1>1, <1>2, <1>3, <1>4, <1>5, <1>6, <1>7, <1>8, <1>9, <1>10, <1>11, <1>12 DEF Next, EngineStep

\* What a reader relies on holds in every run, read or not.
THEOREM RecordsInvariant == Spec => []Records
<1>1. Init => Records
  BY DEF Init, Records, Absent
<1>2. IInv /\ LogContents /\ Records /\ [Next]_vars => Records'
  BY RecordsStep
<1> QED
  BY <1>1, <1>2, Invariant, LogInvariant, PTL DEF Spec

\* A reader's steps stutter for the engine, and the engine's are its own.
LEMMA ReadersOnlyRead == HealthSpec => Spec
<1>1. [ReaderNext \/ EngineNext]_everything => [Next]_vars
  BY DEF ReaderNext, EngineNext, everything
<1> QED
  BY <1>1, PTL DEF HealthSpec, Spec
-----------------------------------------------------------------------------
\* What each verdict of the execution check says of the file it has read.
LEMMA Verdicts ==
  ASSUME NEW file
  PROVE  LET verdict == ExecutionStatus(file) IN
         /\ verdict = "PASS" => file.kind = "json" /\ ~ShowsFailure(file)
         /\ verdict = "FAIL" => ShowsFailure(file)
         /\ verdict = "WARN" => file.kind # "json" \/ file.entries = <<>>
BY DEF ExecutionStatus, ShowsFailure

\* What the log holds was written by the engine.
LEMMA LogIsOfRecords ==
  ASSUME IInv, LogContents, NEW n \in DOMAIN log.entries
  PROVE  \E j \in DOMAIN accepted : log.entries[n] = accepted[j] /\ accepted[j] \in Record
<1>1. accepted \in Seq(Record)
  BY DEF IInv, TypeOK
<1>2. PICK a \in 0..Len(accepted) : log.entries = SubSeq(accepted, a + 1, Len(accepted))
  BY DEF LogContents, LastStretch, Entries
<1>3. n \in 1..(Len(accepted) - a) /\ log.entries[n] = accepted[a + n]
  BY <1>1, <1>2
<1>4. a + n \in DOMAIN accepted
  BY <1>1, <1>3
<1> QED
  BY <1>1, <1>3, <1>4

\* Every reader meets the engine's invariants.
LEMMA ReadersMeet == HealthSpec => [](IInv /\ LogContents /\ Blame /\ Records)
BY ReadersOnlyRead, Invariant, LogInvariant, RecordsInvariant, PTL

\* Only the check itself leaves the place of the execution check, unless the
\* reader is killed there, and it then has no status.
LEMMA ReadAtOnce ==
  ASSUME ReaderNext \/ EngineNext, at = "execution", at' # at, execution' # "none"
  PROVE  execution' = ExecutionStatus(log)
BY DEF ReaderNext, EngineNext, ReaderStep, reader, StartHealthCheck, StartEventLog, Resolve,
   CheckConnectivity, CheckManagedDatabases, CheckGeneration, CheckReview, CheckExecution,
   CheckValidation, LoadLog, LoadReport, OpenRecord, FlushRecord, WriteRecord, Exit, KillReader,
   Leave

\* Whenever the log is read, the verdict is true of the database.
THEOREM VerdictsAreTrue == HealthSpec => ExecutionIsTrue
<1> DEFINE Verdict ==
      /\ Says("PASS") => /\ log.kind = "json"
                         /\ \A n \in DOMAIN log.entries :
                              Committed(log.entries[n].run, log.entries[n].step_id)
      /\ Says("FAIL") => \E n \in DOMAIN accepted :
                           /\ accepted[n].status = "failure"
                           /\ ~Committed(accepted[n].run, accepted[n].step_id)
      /\ Says("WARN") => accepted = <<>> \/ log.kind \in {"empty", "torn"}
<1>1. ASSUME IInv, LogContents, Records, ReaderNext \/ EngineNext
      PROVE  Verdict \/ UNCHANGED everything
  <2>1. CASE at = "execution" /\ at' # at /\ execution' # "none"
    <3>1. execution' = ExecutionStatus(log)
      BY <1>1, <2>1, ReadAtOnce
    <3>2. LogIsTrue
      BY <1>1 DEF IInv, Reports
    <3>3. ASSUME execution' = "PASS", NEW n \in DOMAIN log.entries
          PROVE  Committed(log.entries[n].run, log.entries[n].step_id)
      <4>1. PICK j \in DOMAIN accepted : log.entries[n] = accepted[j] /\ accepted[j] \in Record
        BY <1>1, LogIsOfRecords
      <4>2. accepted[j].status = "success"
        BY <3>1, <3>3, <4>1, Verdicts DEF ShowsFailure, Record
      <4> QED
        BY <3>2, <4>1, <4>2 DEF LogIsTrue
    <3>4. ASSUME execution' = "FAIL"
          PROVE  \E n \in DOMAIN accepted :
                   /\ accepted[n].status = "failure"
                   /\ ~Committed(accepted[n].run, accepted[n].step_id)
      <4>1. PICK n \in DOMAIN log.entries : log.entries[n].status = "failure"
        BY <3>1, <3>4, Verdicts DEF ShowsFailure
      <4>2. PICK j \in DOMAIN accepted : log.entries[n] = accepted[j]
        BY <1>1, LogIsOfRecords
      <4> QED
        BY <3>2, <4>1, <4>2 DEF LogIsTrue
    <3>5. ASSUME execution' = "WARN"
          PROVE  accepted = <<>> \/ log.kind \in {"empty", "torn"}
      <4>1. log.kind \in {"absent", "empty", "torn", "json"}
        BY <1>1, LogFileFields DEF IInv, TypeOK
      <4> QED
        BY <1>1, <3>1, <3>5, <4>1, Verdicts DEF Records
    <3> QED
      BY <3>1, <3>3, <3>4, <3>5, Verdicts DEF Says
  <2>2. CASE ~(at = "execution" /\ at' # at /\ execution' # "none")
    BY <2>2 DEF Says
  <2> QED
    BY <2>1, <2>2
<1> QED
  BY <1>1, ReadersMeet, PTL DEF HealthSpec, ExecutionIsTrue
\* At rest, PASS and FAIL tell how the last run ended.
THEOREM VerdictsAtRest == HealthSpec => VerdictAtRest
<1> DEFINE Verdict ==
      pc = "down" =>
        /\ outcome = "ExecutionFailure" => ~Says("PASS") /\ ~Says("WARN")
        /\ Says("PASS") /\ ~disturbed => \A id \in IdsOf(plan) : Committed(run, id)
<1>1. ASSUME IInv, LogContents, Blame, Records, ReaderNext \/ EngineNext
      PROVE  Verdict \/ UNCHANGED everything
  <2>1. CASE at = "execution" /\ at' # at /\ execution' # "none"
    <3>1. execution' = ExecutionStatus(log)
      BY <1>1, <2>1, ReadAtOnce
    <3>2. ASSUME outcome = "ExecutionFailure"
          PROVE  execution' # "PASS" /\ execution' # "WARN"
      <4>1. ShowsFailure(log)
        BY <1>1, <3>2 DEF Records
      <4>2. log.kind = "json" /\ log.entries # <<>>
        BY <4>1 DEF ShowsFailure
      <4> QED
        BY <3>1, <4>1, <4>2, Verdicts
    <3>3. ASSUME pc = "down", execution' = "PASS", ~disturbed, NEW id \in IdsOf(plan)
          PROVE  Committed(run, id)
      <4>1. log.kind = "json"
        BY <3>1, <3>3, Verdicts
      <4>2. log # Torn
        BY <4>1 DEF Torn
      <4>3. CASE run = 0
        <5>1. plan = <<>>
          BY <1>1, <4>3 DEF IInv, Control
        <5> QED
          BY <3>3, <5>1 DEF IdsOf
      <4>4. CASE run # 0
        <5>1. outcome # "none"
          BY <1>1, <3>3, <4>4 DEF IInv, Control
        <5>2. outcome = "ok"
          BY <1>1, <3>3, <4>2, <5>1 DEF Blame, OnlyDisturbedRunsFail
        <5>3. plan \in Seq(Step(StepId))
          BY <1>1 DEF IInv, TypeOK
        <5>4. id \in StepId /\ id \in SeenBefore(plan, Len(plan) + 1)
          BY <3>3, <5>3, SeenLast, StepFields DEF IdsOf
        <5> QED
          BY <1>1, <5>2, <5>4 DEF LogContents, CommittedUpTo
      <4> QED
        BY <4>3, <4>4
    <3> QED
      BY <3>2, <3>3 DEF Says
  <2>2. CASE ~(at = "execution" /\ at' # at /\ execution' # "none")
    BY <2>2 DEF Says
  <2> QED
    BY <2>1, <2>2
<1> QED
  BY <1>1, ReadersMeet, PTL DEF HealthSpec, VerdictAtRest
-----------------------------------------------------------------------------
\* A stretch of the history, as load_json of the log gives it.
Stretch(s) == \E m \in 0..Len(accepted) : \E n \in 0..m : s = SubSeq(accepted, n + 1, m)

\* What an event log counts is, by Records, one step for each entry.
LEMMA CountIsOfSteps ==
  ASSUME IInv, Records, NEW m \in 0..Len(accepted), NEW n \in 0..m, NEW s,
         s = SubSeq(accepted, n + 1, m), NEW st \in {"success", "failure"}
  PROVE  LET told == {<<accepted[j].run, accepted[j].step_id>> : j \in (n + 1)..m} IN
         Count(st, s) = Cardinality(IF st = "success" THEN told \cap committed
                                                      ELSE told \ committed)
<1> DEFINE told  == {<<accepted[j].run, accepted[j].step_id>> : j \in (n + 1)..m}
           K     == {k \in DOMAIN s : s[k].status = st}
           J     == {j \in (n + 1)..m : accepted[j].status = st}
           Pairs == {<<accepted[j].run, accepted[j].step_id>> : j \in J}
           F     == [k \in K |-> <<s[k].run, s[k].step_id>>]
<1>1. accepted \in Seq(Record) /\ m \in Nat /\ n \in Nat /\ n <= m /\ m <= Len(accepted)
  BY DEF IInv, TypeOK
<1>2. DOMAIN s = 1..(m - n) /\ \A k \in 1..(m - n) : s[k] = accepted[n + k] /\ n + k \in (n + 1)..m
  BY <1>1
<1>3. \A j \in (n + 1)..m : j \in DOMAIN accepted /\ accepted[j] \in Record
  BY <1>1
<1>4. IsFiniteSet(K)
  <2>1. m - n \in Int /\ 1 \in Int /\ K \in SUBSET (1..(m - n))
    BY <1>1, <1>2
  <2> QED
    BY <2>1, FS_Interval, FS_Subset
<1>5. \A k \in K : n + k \in J /\ s[k] = accepted[n + k]
  BY <1>1, <1>2
<1>6. \A j \in J : j - n \in K /\ n + (j - n) = j
  <2> SUFFICES ASSUME NEW j \in (n + 1)..m, accepted[j].status = st
               PROVE  j - n \in K /\ n + (j - n) = j
    OBVIOUS
  <2> DEFINE k == j - n
  <2>1. k \in 1..(m - n) /\ n + k = j
    BY <1>1
  <2> HIDE DEF k
  <2>2. k \in DOMAIN s /\ s[k] = accepted[j]
    BY <1>2, <2>1
  <2>3. k \in K
    BY <2>2
  <2> QED
    BY <2>1, <2>3 DEF k
<1>7. F \in [K -> Pairs]
  <2>1. \A k \in K : <<s[k].run, s[k].step_id>> \in Pairs
    <3> TAKE k \in K
    <3>1. n + k \in J /\ s[k] = accepted[n + k]
      BY <1>5
    <3> HIDE DEF told, K, J
    <3> QED
      BY <3>1, Zenon
  <2> HIDE DEF told, K, J, Pairs
  <2> QED
    BY <2>1, Zenon
<1>8. \A j, k \in K : F[j] = F[k] => j = k
  <2> SUFFICES ASSUME NEW j \in K, NEW k \in K, F[j] = F[k] PROVE j = k
    OBVIOUS
  <2>1. s[j].run = s[k].run /\ s[j].step_id = s[k].step_id
    OBVIOUS
  <2>2. SameStep(n + j, n + k)
    BY <1>5, <2>1 DEF SameStep
  <2> HIDE DEF told, J, Pairs, F
  <2>3. j \in 1..(m - n) /\ k \in 1..(m - n)
    <3>1. j \in DOMAIN s /\ k \in DOMAIN s
      BY Zenon
    <3> QED
      BY <1>2, <3>1, Zenon
  <2>4. n + j \in (n + 1)..m /\ n + k \in (n + 1)..m
    BY <1>2, <2>3, Zenon
  <2>5. n + j \in DOMAIN accepted /\ n + k \in DOMAIN accepted
    BY <1>3, <2>4, Zenon
  <2>6. n + j = n + k
    BY <2>2, <2>5 DEF Records
  <2>7. \A x, y \in 1..(m - n) : n + x = n + y => x = y
    BY <1>1
  <2> QED
    BY <2>3, <2>6, <2>7, Zenon
<1>9. \A p \in Pairs : \E k \in K : F[k] = p
  <2> TAKE p \in Pairs
  <2>1. PICK j \in J : p = <<accepted[j].run, accepted[j].step_id>>
    BY Zenon
  <2>2. j - n \in K /\ s[j - n] = accepted[j]
    BY <1>5, <1>6
  <2>3. F[j - n] = p
    BY <2>1, <2>2, Zenon
  <2> QED
    BY <2>2, <2>3, Zenon
<1>10. F \in Bijection(K, Pairs)
  BY <1>7, <1>8, <1>9 DEF Bijection, Injection, Surjection, IsInjective
<1>11. Cardinality(K) = Cardinality(Pairs)
  BY <1>4, <1>10, FS_Bijection DEF ExistsBijection
<1>12. \A j \in (n + 1)..m :
         /\ accepted[j].status = "success" <=> <<accepted[j].run, accepted[j].step_id>> \in committed
         /\ accepted[j].status \in {"success", "failure"}
  BY <1>3 DEF IInv, Reports, LogIsTrue, Committed, Record
<1>13. Pairs = IF st = "success" THEN told \cap committed ELSE told \ committed
  BY <1>12
<1> QED
  BY <1>11, <1>13 DEF Count

\* A stretch of the history stays one, and so does what an event log counted
\* in it: no step is committed after its record is written.
LEMMA HistoryStays ==
  ASSUME IInv, IInv', [Next]_vars
  PROVE  /\ \A s : Stretch(s) => Stretch(s)'
         /\ EventLogIsHistory /\ UNCHANGED eventLog => EventLogIsHistory'
<1>1. accepted \in Seq(Record)
  BY DEF IInv, TypeOK
<1>2. /\ Len(accepted') \in Nat /\ Len(accepted') >= Len(accepted)
      /\ \A j \in 1..Len(accepted) : accepted'[j] = accepted[j]
  BY <1>1, AcceptedGrows
<1>3. ASSUME NEW m \in 0..Len(accepted), NEW n \in 0..m
      PROVE  /\ m \in 0..Len(accepted')
             /\ SubSeq(accepted', n + 1, m) = SubSeq(accepted, n + 1, m)
  <2>1. accepted' \in Seq(Record) /\ m \in Nat /\ n \in Nat /\ m <= Len(accepted)
    BY <1>1 DEF IInv, TypeOK
  <2>2. \A j \in (n + 1)..m : accepted'[j] = accepted[j]
    BY <1>2, <2>1
  <2> QED
    BY <1>1, <1>2, <2>1, <2>2
<1>4. ASSUME NEW m \in 0..Len(accepted), NEW n \in 0..m
      PROVE  LET told == {<<accepted[j].run, accepted[j].step_id>> : j \in (n + 1)..m} IN
             /\ told = {<<accepted'[j].run, accepted'[j].step_id>> : j \in (n + 1)..m}
             /\ told \cap committed' = told \cap committed
             /\ told \ committed' = told \ committed
  <2>1. \A j \in (n + 1)..m : accepted'[j] = accepted[j] /\ j \in DOMAIN accepted /\ j \in DOMAIN accepted'
    BY <1>1, <1>2
  <2>2. LogIsTrue /\ LogIsTrue'
    BY DEF IInv, Reports
  <2>3. \A j \in (n + 1)..m : <<accepted[j].run, accepted[j].step_id>> \in committed
                                <=> <<accepted[j].run, accepted[j].step_id>> \in committed'
    BY <2>1, <2>2 DEF LogIsTrue, Committed
  <2> QED
    BY <2>1, <2>3
<1>5. \A s : Stretch(s) => Stretch(s)'
  BY <1>3 DEF Stretch
<1>6. EventLogIsHistory /\ UNCHANGED eventLog => EventLogIsHistory'
  <2> SUFFICES ASSUME EventLogIsHistory, UNCHANGED eventLog, eventLog.kind = "json"
               PROVE  EventLogIsHistory'
    BY DEF EventLogIsHistory
  <2>1. PICK m \in 0..Len(accepted) : \E n \in 0..m :
          LET told == {<<accepted[j].run, accepted[j].step_id>> : j \in (n + 1)..m} IN
          /\ eventLog.entries = SubSeq(accepted, n + 1, m)
          /\ eventLog.success = Cardinality(told \cap committed)
          /\ eventLog.failure = Cardinality(told \ committed)
    BY DEF EventLogIsHistory
  <2>2. PICK n \in 0..m :
          LET told == {<<accepted[j].run, accepted[j].step_id>> : j \in (n + 1)..m} IN
          /\ eventLog.entries = SubSeq(accepted, n + 1, m)
          /\ eventLog.success = Cardinality(told \cap committed)
          /\ eventLog.failure = Cardinality(told \ committed)
    BY <2>1
  <2>3. LET told == {<<accepted'[j].run, accepted'[j].step_id>> : j \in (n + 1)..m} IN
          /\ eventLog'.entries = SubSeq(accepted', n + 1, m)
          /\ eventLog'.success = Cardinality(told \cap committed')
          /\ eventLog'.failure = Cardinality(told \ committed')
    BY <1>3, <1>4, <2>2
  <2> QED
    BY <1>3, <2>3 DEF EventLogIsHistory
<1> QED
  BY <1>5, <1>6

\* What an event log relays and counts is what the engine did.
THEOREM EventLogRelays == HealthSpec => []EventLogIsHistory
<1> DEFINE Relays == Stretch(entries) /\ EventLogIsHistory
<1>1. Init /\ ReaderInit => Relays
  <2> SUFFICES ASSUME Init, ReaderInit PROVE Relays
    OBVIOUS
  <2>1. accepted = <<>> /\ entries = <<>> /\ eventLog.kind = "absent"
    BY DEF Init, ReaderInit, Without
  <2>2. Len(accepted) = 0 /\ 0 \in 0..Len(accepted) /\ 0 \in 0..0 /\ SubSeq(accepted, 0 + 1, 0) = <<>>
    BY <2>1
  <2> QED
    BY <2>1, <2>2 DEF Stretch, EventLogIsHistory
<1>2. ASSUME IInv, IInv', LogContents, Records, Relays, [ReaderNext \/ EngineNext]_everything
      PROVE  Relays'
  <2>1. CASE ReaderNext /\ WriteRecord /\ at' = "returned"
    <3>1. UNCHANGED vars /\ entries' = entries
      BY <2>1 DEF ReaderNext, WriteRecord
    <3>2. PICK m \in 0..Len(accepted) : \E n \in 0..m : entries = SubSeq(accepted, n + 1, m)
      BY <1>2 DEF Stretch
    <3>3. PICK n \in 0..m : entries = SubSeq(accepted, n + 1, m)
      BY <3>2
    <3>4. LET told == {<<accepted[j].run, accepted[j].step_id>> : j \in (n + 1)..m} IN
            /\ Count("success", entries) = Cardinality(told \cap committed)
            /\ Count("failure", entries) = Cardinality(told \ committed)
      BY <1>2, <3>3, CountIsOfSteps
    <3>5. /\ eventLog'.entries = entries
          /\ eventLog'.success = Count("success", entries)
          /\ eventLog'.failure = Count("failure", entries)
      BY <2>1 DEF WriteRecord
    <3>6. accepted' = accepted /\ committed' = committed
      BY <3>1 DEF vars, logging, database
    <3>7. EventLogIsHistory'
      <4>1. LET told == {<<accepted'[j].run, accepted'[j].step_id>> : j \in (n + 1)..m} IN
              /\ eventLog'.entries = SubSeq(accepted', n + 1, m)
              /\ eventLog'.success = Cardinality(told \cap committed')
              /\ eventLog'.failure = Cardinality(told \ committed')
        BY <3>3, <3>4, <3>5, <3>6, Zenon
      <4>2. m \in 0..Len(accepted')
        BY <3>6
      <4> QED
        BY <4>1, <4>2 DEF EventLogIsHistory
    <3>8. Stretch(entries)'
      BY <3>1, <3>2, <3>6 DEF Stretch
    <3> QED
      BY <3>7, <3>8
  <2>2. CASE ReaderNext /\ ~(WriteRecord /\ at' = "returned")
    <3>1. UNCHANGED vars /\ (eventLog' = eventLog \/ eventLog'.kind \in {"empty", "torn"})
      BY <2>2 DEF ReaderNext, ReaderStep, Resolve, CheckConnectivity, CheckManagedDatabases,
         CheckGeneration, CheckReview, CheckExecution, CheckValidation, LoadLog, LoadReport,
         OpenRecord, FlushRecord, WriteRecord, Exit, KillReader, Leave, Without,
         StartHealthCheck, StartEventLog
    <3>2. entries' = entries \/ entries' = <<>> \/ (log.kind = "json" /\ entries' = log.entries)
      BY <2>2 DEF ReaderNext, ReaderStep, Resolve, CheckConnectivity, CheckManagedDatabases,
         CheckGeneration, CheckReview, CheckExecution, CheckValidation, LoadLog, LoadReport,
         OpenRecord, FlushRecord, WriteRecord, Exit, KillReader, Leave, reader,
         StartHealthCheck, StartEventLog
    <3>3. accepted \in Seq(Record)
      BY <1>2 DEF IInv, TypeOK
    <3>4. Stretch(<<>>)
      <4>1. 0 \in 0..Len(accepted) /\ 0 \in 0..0 /\ SubSeq(accepted, 0 + 1, 0) = <<>>
        BY <3>3
      <4> QED
        BY <4>1 DEF Stretch
    <3>5. log.kind = "json" => Stretch(log.entries)
      <4>1. LastStretch(Entries(log))
        BY <1>2 DEF LogContents
      <4>2. \A a \in 0..Len(accepted) : Len(accepted) \in 0..Len(accepted) /\ a \in 0..Len(accepted)
        BY <3>3
      <4> QED
        BY <4>1, <4>2 DEF LastStretch, Stretch, Entries
    <3>6. Stretch(entries')
      BY <1>2, <3>2, <3>4, <3>5
    <3>7. accepted' = accepted /\ [Next]_vars
      BY <3>1 DEF vars, logging
    <3>8. Stretch(entries)'
      BY <3>6, <3>7 DEF Stretch
    <3>9. EventLogIsHistory'
      <4>1. CASE eventLog' = eventLog
        BY <1>2, <3>7, <4>1, HistoryStays
      <4>2. CASE eventLog'.kind \in {"empty", "torn"}
        BY <4>2 DEF EventLogIsHistory
      <4> QED
        BY <3>1, <4>1, <4>2
    <3> QED
      BY <3>8, <3>9
  <2>3. CASE EngineNext \/ UNCHANGED everything
    <3>1. [Next]_vars /\ UNCHANGED <<entries, eventLog>>
      BY <2>3 DEF EngineNext, everything, reader
    <3> QED
      BY <1>2, <3>1, HistoryStays DEF Stretch
  <2> QED
    BY <1>2, <2>1, <2>2, <2>3
<1> QED
  BY <1>1, <1>2, ReadersMeet, PTL DEF HealthSpec
-----------------------------------------------------------------------------
(* The configuration of the connection *)

\* A server of .mcp.json that ends the search.
EndsSearch(s) == s.postgres /\ (s.object => s.given = Parts)

LEMMA TryServerOf ==
  ASSUME NEW s \in Server, NEW k
  PROVE  /\ ~EndsSearch(s) => TryServer(s, k) = Nothing
         /\ EndsSearch(s) /\ ~s.object => TryServer(s, k) = Raises("AttributeError")
         /\ EndsSearch(s) /\ s.object =>
              TryServer(s, k) = IF Converts(s.port) THEN Config(k) ELSE Raises(IntRaises(s.port))
         /\ EndsSearch(s) => TryServer(s, k) # Nothing
<1>1. s.port \in {"default", "number", "text", "infinite", "list"}
  BY DEF Server
<1>2. ~Converts(s.port) => IntRaises(s.port) \in {"ValueError", "OverflowError", "TypeError"}
  BY <1>1 DEF Converts, IntRaises
<1> QED
  BY <1>2 DEF Server, EndsSearch, TryServer, Nothing, Raises, Config

\* The recursive function of TryServers satisfies its definition.
LEMMA TryServersEquation ==
  ASSUME NEW servers \in Seq(Server)
  PROVE  \E try : /\ try = [k \in 1..(Len(servers) + 1) |->
                       IF k > Len(servers) THEN Nothing
                       ELSE IF TryServer(servers[k], k) # Nothing THEN TryServer(servers[k], k)
                       ELSE try[k + 1]]
                  /\ TryServers(servers) = try[1]
<1> DEFINE D == 1..(Len(servers) + 1)
           V == {Nothing} \cup {TryServer(servers[k], k) : k \in 1..Len(servers)}
           G == [f \in [D -> V] |-> [k \in D |->
                  IF k > Len(servers) THEN Nothing
                  ELSE IF TryServer(servers[k], k) # Nothing THEN TryServer(servers[k], k)
                  ELSE f[k + 1]]]
           rank == [k \in D |-> (Len(servers) + 1) - k]
<1>1. Len(servers) \in Nat
  OBVIOUS
<1>2. rank \in [D -> Nat]
  BY <1>1
<1>3. G \in [[D -> V] -> [D -> V]]
  <2> SUFFICES ASSUME NEW f \in [D -> V], NEW k \in D
               PROVE  (IF k > Len(servers) THEN Nothing
                       ELSE IF TryServer(servers[k], k) # Nothing THEN TryServer(servers[k], k)
                       ELSE f[k + 1]) \in V
    OBVIOUS
  <2>1. CASE k > Len(servers)
    BY <2>1
  <2>2. CASE k <= Len(servers)
    <3>1. k \in 1..Len(servers) /\ k + 1 \in D
      BY <1>1, <2>2
    <3>2. TryServer(servers[k], k) \in V /\ f[k + 1] \in V
      BY <3>1
    <3> QED
      BY <2>2, <3>2
  <2> QED
    BY <1>1, <2>1, <2>2
<1>4. ASSUME NEW f \in [D -> V], NEW g \in [D -> V], NEW k \in D,
             \A n \in D : rank[n] < rank[k] => f[n] = g[n]
      PROVE  G[f][k] = G[g][k]
  <2>1. CASE k > Len(servers)
    BY <2>1
  <2>2. CASE k <= Len(servers)
    <3>1. k + 1 \in D /\ rank[k + 1] < rank[k]
      BY <1>1, <2>2
    <3>2. f[k + 1] = g[k + 1]
      BY <1>4, <3>1
    <3> QED
      BY <3>2
  <2> QED
    BY <1>1, <2>1, <2>2
<1>5. \E f \in [D -> V] : f = G[f]
  <2>1. LooksDown(D, V, rank, G)
    BY <1>2, <1>3, <1>4 DEF LooksDown
  <2> HIDE DEF D, V, G, rank
  <2> QED
    BY <2>1, RecursiveFunction
<1>6. \E try : try = [k \in 1..(Len(servers) + 1) |->
                       IF k > Len(servers) THEN Nothing
                       ELSE IF TryServer(servers[k], k) # Nothing THEN TryServer(servers[k], k)
                       ELSE try[k + 1]]
  BY <1>5
<1> QED
  BY <1>6 DEF TryServers

\* The search returns what the first server says that ends it.
LEMMA TryServersOf ==
  ASSUME NEW servers \in Seq(Server)
  PROVE  /\ \A k \in DOMAIN servers :
              EndsSearch(servers[k]) /\ (\A j \in 1..(k - 1) : ~EndsSearch(servers[j])) =>
                TryServers(servers) = TryServer(servers[k], k)
         /\ (\A k \in DOMAIN servers : ~EndsSearch(servers[k])) => TryServers(servers) = Nothing
<1>1. PICK try : /\ try = [k \in 1..(Len(servers) + 1) |->
                       IF k > Len(servers) THEN Nothing
                       ELSE IF TryServer(servers[k], k) # Nothing THEN TryServer(servers[k], k)
                       ELSE try[k + 1]]
                 /\ TryServers(servers) = try[1]
  BY TryServersEquation
<1>2. Len(servers) \in Nat /\ DOMAIN servers = 1..Len(servers)
      /\ \A k \in 1..Len(servers) : servers[k] \in Server
  OBVIOUS
<1>3. /\ try[Len(servers) + 1] = Nothing
      /\ \A k \in 1..Len(servers) :
           /\ ~EndsSearch(servers[k]) => try[k] = try[k + 1]
           /\ EndsSearch(servers[k]) => try[k] = TryServer(servers[k], k)
  <2>1. try[Len(servers) + 1] = Nothing
    <3>1. Len(servers) + 1 \in 1..(Len(servers) + 1) /\ Len(servers) + 1 > Len(servers)
      BY <1>2
    <3> QED
      BY <1>1, <3>1
  <2>2. ASSUME NEW k \in 1..Len(servers)
        PROVE  try[k] = IF TryServer(servers[k], k) # Nothing THEN TryServer(servers[k], k)
                        ELSE try[k + 1]
    <3>1. k \in 1..(Len(servers) + 1) /\ ~(k > Len(servers))
      BY <1>2
    <3> QED
      BY <1>1, <3>1
  <2> QED
    BY <1>2, <2>1, <2>2, TryServerOf
<1>4. ASSUME NEW m \in 1..(Len(servers) + 1), \A j \in 1..(m - 1) : ~EndsSearch(servers[j])
      PROVE  try[1] = try[m]
  <2> DEFINE M == {k \in 1..m : try[k] = try[m]}
  <2>1. M \in SUBSET Nat /\ M # {}
    <3>1. m \in M
      BY <1>2
    <3> QED
      BY <3>1
  <2>2. PICK least \in M : \A k \in M : least <= k
    <3> HIDE DEF M
    <3> QED
      BY <2>1, LeastNumber
  <2>3. CASE least = 1
    BY <2>3
  <2>4. CASE least # 1
    <3>1. /\ least - 1 \in 1..(m - 1) /\ least - 1 \in 1..Len(servers) /\ (least - 1) + 1 = least
          /\ least - 1 \in 1..m
      BY <1>2, <2>4
    <3>2. try[least - 1] = try[least]
      BY <1>3, <1>4, <3>1
    <3>3. least - 1 \in M
      BY <3>1, <3>2
    <3>4. least \in Nat /\ ~(least <= least - 1)
      OBVIOUS
    <3> QED
      BY <2>2, <3>3, <3>4
  <2> QED
    BY <2>3, <2>4
<1>5. ASSUME NEW k \in DOMAIN servers, EndsSearch(servers[k]),
             \A j \in 1..(k - 1) : ~EndsSearch(servers[j])
      PROVE  TryServers(servers) = TryServer(servers[k], k)
  <2>1. k \in 1..Len(servers) /\ k \in 1..(Len(servers) + 1)
    BY <1>2
  <2> QED
    BY <1>1, <1>3, <1>4, <1>5, <2>1
<1>6. ASSUME \A k \in DOMAIN servers : ~EndsSearch(servers[k])
      PROVE  TryServers(servers) = Nothing
  <2>1. Len(servers) + 1 \in 1..(Len(servers) + 1) /\ (Len(servers) + 1) - 1 = Len(servers)
    BY <1>2
  <2>2. \A j \in 1..((Len(servers) + 1) - 1) : ~EndsSearch(servers[j])
    BY <1>2, <1>6, <2>1
  <2> QED
    BY <1>1, <1>3, <1>4, <2>1, <2>2
<1> QED
  BY <1>5, <1>6

\* At most one server decides, and it is the one the search returns.
LEMMA DecidingServer ==
  ASSUME NEW servers \in Seq(Server)
  PROVE  /\ \A k \in DOMAIN servers :
              Decides(servers, k) =>
                EndsSearch(servers[k]) /\ TryServers(servers) = TryServer(servers[k], k)
         /\ (\A k \in DOMAIN servers : ~Decides(servers, k)) => TryServers(servers) = Nothing
<1>1. DOMAIN servers = 1..Len(servers) /\ Len(servers) \in Nat
  OBVIOUS
<1>2. ASSUME NEW k \in DOMAIN servers
      PROVE  Decides(servers, k) <=>
               EndsSearch(servers[k]) /\ \A j \in 1..(k - 1) : ~EndsSearch(servers[j])
  BY DEF Decides, EndsSearch
<1>3. ASSUME \A k \in DOMAIN servers : ~Decides(servers, k), NEW e \in DOMAIN servers,
             EndsSearch(servers[e])
      PROVE  FALSE
  <2> DEFINE M == {k \in DOMAIN servers : EndsSearch(servers[k])}
  <2>1. M \in SUBSET Nat /\ M # {}
    BY <1>1, <1>3
  <2>2. PICK k \in M : \A n \in M : k <= n
    <3> HIDE DEF M
    <3> QED
      BY <2>1, LeastNumber
  <2>3. \A j \in 1..(k - 1) : j \in DOMAIN servers /\ ~(k <= j)
    BY <1>1
  <2>4. \A j \in 1..(k - 1) : ~EndsSearch(servers[j])
    BY <2>2, <2>3
  <2> QED
    BY <1>2, <1>3, <2>4
<1> QED
  BY <1>2, <1>3, TryServersOf

\* What the resolution returns or raises, for any .mcp.json and environment.
LEMMA ResolutionOf ==
  ASSUME NEW file \in McpFile, NEW env \in Environment
  PROVE  LET result   == ResolveConnectionConfig(file, env)
             deciding == {k \in DOMAIN file.servers : Decides(file.servers, k)}
         IN  /\ result.how = "config" =>
                  IF result.server = 0 THEN deciding = {} /\ env.given = Parts
                  ELSE result.server \in deciding /\ file.servers[result.server].object
             /\ result.how = "DatabaseConnectionError" => deciding = {} /\ env.given # Parts
             /\ /\ file.kind \in {"nothing", "servers"}
                /\ \A k \in deciding : file.servers[k].object /\ Converts(file.servers[k].port)
                /\ Converts(env.port)
                => result.how \in {"config", "DatabaseConnectionError"}
<1> DEFINE result   == ResolveConnectionConfig(file, env)
           mcp      == TryMcpConfig(file)
           deciding == {k \in DOMAIN file.servers : Decides(file.servers, k)}
<1>1. /\ file.kind \in {"servers", "nothing", "undecodable", "other"}
      /\ file.kind # "servers" => file.servers = <<>>
      /\ file.servers \in Seq(Server)
  <2>1. <<>> \in Seq(Server)
    BY EmptySeq
  <2> QED
    BY <2>1 DEF McpFile
<1>2. ASSUME NEW port \in {"default", "number", "text", "infinite", "list"}, ~Converts(port)
      PROVE  IntRaises(port) \in {"ValueError", "OverflowError", "TypeError"}
  BY <1>2 DEF Converts, IntRaises
<1>3. CASE file.kind \in {"undecodable", "other"}
  <2>1. mcp \in {Raises("ValueError"), Raises("AttributeError")} /\ mcp # Nothing
    BY <1>3 DEF TryMcpConfig, Raises, Nothing
  <2>2. result.how \in {"ValueError", "AttributeError"}
    BY <2>1 DEF ResolveConnectionConfig, Raises
  <2> QED
    BY <1>3, <2>2
<1>4. CASE file.kind \in {"nothing", "servers"} /\ deciding = {}
  <2>1. mcp = Nothing
    BY <1>1, <1>4, DecidingServer DEF TryMcpConfig
  <2>2. result = IF ~Converts(env.port) THEN Raises(IntRaises(env.port))
                 ELSE IF env.given = Parts THEN Config(0)
                 ELSE Raises("DatabaseConnectionError")
    BY <2>1 DEF ResolveConnectionConfig
  <2>3. ~Converts(env.port) => IntRaises(env.port) \in {"ValueError", "OverflowError", "TypeError"}
    BY <1>2 DEF Environment
  <2> HIDE DEF deciding, result
  <2>4. /\ result.how = "config" => result.server = 0 /\ env.given = Parts
        /\ result.how = "DatabaseConnectionError" => env.given # Parts
        /\ Converts(env.port) => result.how \in {"config", "DatabaseConnectionError"}
    BY <2>2, <2>3 DEF Config, Raises
  <2> QED
    BY <1>4, <2>4 DEF deciding, result
<1>5. ASSUME file.kind \in {"nothing", "servers"}, NEW k \in deciding
      PROVE  /\ result.how = "config" => result.server = k /\ k # 0 /\ file.servers[k].object
             /\ result.how # "DatabaseConnectionError"
             /\ file.servers[k].object /\ Converts(file.servers[k].port) => result.how = "config"
  <2>1. k \in DOMAIN file.servers /\ k # 0 /\ file.servers[k] \in Server
    BY <1>1
  <2>2. file.kind = "servers"
    BY <1>1, <1>5, <2>1
  <2>3. EndsSearch(file.servers[k]) /\ mcp = TryServer(file.servers[k], k)
    BY <1>1, <2>1, <2>2, DecidingServer DEF TryMcpConfig
  <2>4. mcp # Nothing
    BY <2>1, <2>3, TryServerOf
  <2>5. result = TryServer(file.servers[k], k)
    BY <2>3, <2>4 DEF ResolveConnectionConfig
  <2>6. result = IF ~file.servers[k].object THEN Raises("AttributeError")
                 ELSE IF Converts(file.servers[k].port) THEN Config(k)
                 ELSE Raises(IntRaises(file.servers[k].port))
    BY <2>1, <2>3, <2>5, TryServerOf
  <2>7. ~Converts(file.servers[k].port) =>
          IntRaises(file.servers[k].port) \in {"ValueError", "OverflowError", "TypeError"}
    BY <1>2, <2>1 DEF Server
  <2> HIDE DEF result
  <2> QED
    BY <2>1, <2>6, <2>7 DEF Config, Raises
<1> QED
  BY <1>1, <1>3, <1>4, <1>5

\* Resolved: what a reader has found and what became of it belong together.
Resolved ==
  at = "resolved" => /\ source.file \in McpFile /\ source.env \in Environment
                     /\ config = ResolveConnectionConfig(source.file, source.env)

\* The configuration comes from the first server of .mcp.json that is complete,
\* or else from the environment, whatever either holds: nothing is mixed,
\* DatabaseConnectionError is raised only if neither has one, and nothing else
\* is raised unless one of them is malformed.
THEOREM ResolutionInOrder == HealthSpec => []ResolvesInOrder
<1>1. Init /\ ReaderInit => Resolved
  BY DEF ReaderInit, Resolved
<1>2. Resolved /\ [ReaderNext \/ EngineNext]_everything => Resolved'
  <2> SUFFICES ASSUME Resolved, [ReaderNext \/ EngineNext]_everything PROVE Resolved'
    OBVIOUS
  <2>1. CASE Resolve
    <3>1. PICK file \in McpFiles, env \in Environments :
            /\ source' = [file |-> file, env |-> env]
            /\ config' = ResolveConnectionConfig(file, env)
      BY <2>1 DEF Resolve
    <3>2. source'.file = file /\ source'.env = env /\ file \in McpFile /\ env \in Environment
      BY <3>1, McpFilesAssumption, EnvironmentsAssumption
    <3> QED
      BY <3>1, <3>2 DEF Resolved
  <2>2. CASE FlushRecord \/ EngineNext \/ UNCHANGED everything
    BY <2>2 DEF Resolved, FlushRecord, EngineNext, everything, reader
  <2>3. CASE ReaderNext /\ ~Resolve /\ ~FlushRecord
    <3>1. at' # "resolved"
      BY <2>3 DEF ReaderNext, ReaderStep, StartHealthCheck, StartEventLog, CheckConnectivity,
         CheckManagedDatabases, CheckGeneration, CheckReview, CheckExecution, CheckValidation,
         LoadLog, LoadReport, OpenRecord, WriteRecord, Exit, KillReader, Leave, Done
    <3> QED
      BY <3>1 DEF Resolved
  <2> QED
    BY <2>1, <2>2, <2>3
<1>3. Resolved => ResolvesInOrder
  <2> SUFFICES ASSUME Resolved, at = "resolved" PROVE ResolvesInOrder
    BY DEF ResolvesInOrder
  <2> QED
    BY ResolutionOf DEF Resolved, ResolvesInOrder
<1> QED
  BY <1>1, <1>2, <1>3, PTL DEF HealthSpec
=============================================================================
