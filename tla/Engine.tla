------------------------------- MODULE Engine -------------------------------
(***************************************************************************)
(* engine/executor.py: runs of `python -m engine` over one generated       *)
(* project.  A run is one process: Engine.run loads the plan and executes  *)
(* its steps in order through _run_step, each over its own connection      *)
(* (engine/postgres.py, PostgresExecutor) in one transaction, and reports  *)
(* each to the log file (engine/logger.py).  Every call that can fail, or  *)
(* before which the process can die, is an action of its own.              *)
(*                                                                         *)
(* pc names the call the process is about to make:                         *)
(*   load                        planner.sequence()                        *)
(*   step                        the for loop of run, then parse_sqlx      *)
(*   connect execute             the DatabaseExecutor's calls              *)
(*   commit rollback             how the step's transaction ends           *)
(*   read_log open_log write_log logger.record()                           *)
(*   close                       db.close(), then return or raise          *)
(*   returned                    run() has returned or raised to main()    *)
(*   down                        no engine process                         *)
(***************************************************************************)
EXTENDS Plan, LogFile

CONSTANTS StepId,      \* step ids
          PlanFiles,   \* step lists execution_plan.json may hold (<<>>: unreadable)
          MaxRuns      \* bound on the number of runs

ASSUME PlanFilesAssumption == PlanFiles \subseteq Seq(Step(StepId))
ASSUME MaxRunsAssumption   == MaxRuns \in Nat

VARIABLES pc, run, plan, i, status, data, outcome,  \* the engine process
          session,    \* its connection: "none", "open", or "lost" (killed by the server)
          tx,         \* the server's transaction for it: "none" or "open"
          committed,  \* the pairs <<run, step_id>> whose changes are durable
          log,        \* the log file
          accepted,   \* history: every record whose write completed
          disturbed   \* history: something failed in this run, or someone interfered

process  == <<pc, run, plan, i, status, data, outcome>>
database == <<session, tx, committed>>
logging  == <<log, accepted>>
vars     == <<process, database, logging, disturbed>>

EngineErrors == {"ExecutionPlanError", "SQLXParseError", "ValidationError",
                 "DatabaseConnectionError", "ExecutionFailure"}
RawErrors    == {"TypeError", "ValueError", "AttributeError", "OverflowError",
                 "psycopg2.Error", "JSONDecodeError", "OSError"}

Record == [run : Nat, step_id : StepId, status : {"success", "failure"}]

Init ==
  /\ pc = "down" /\ run = 0 /\ plan = <<>> /\ i = 1
  /\ status = "none" /\ data = <<>> /\ outcome = "none"
  /\ session = "none" /\ tx = "none" /\ committed = {}
  /\ log = Absent /\ accepted = <<>>
  /\ disturbed = FALSE

\* Engine.run ends here, with this result or exception.
Return(result) ==
  /\ pc' = "returned"
  /\ outcome' = result
  /\ UNCHANGED <<run, plan, i, status, data>>

\* The same, because of a fault in this run.
Fail(error) ==
  /\ Return(error)
  /\ disturbed' = TRUE

GoTo(call) ==
  /\ pc' = call
  /\ UNCHANGED <<run, plan, i, status, data, outcome, disturbed>>

ThisCommit == <<run, plan[i].step_id>>
ThisRecord == [run |-> run, step_id |-> plan[i].step_id, status |-> status]

-----------------------------------------------------------------------------
\* Mutant of StartRun: the cursor of the previous run is kept.
StartRunKeepsCursor ==
  /\ pc = "down"
  /\ run < MaxRuns
  /\ pc' = "load"
  /\ run' = run + 1
  /\ plan' = <<>>
  /\ status' = "none" /\ data' = <<>> /\ outcome' = "none"
  /\ disturbed' = FALSE
  /\ UNCHANGED <<i, database, logging>>

StartRun ==
  /\ pc = "down"
  /\ run < MaxRuns
  /\ pc' = "load"
  /\ run' = run + 1
  /\ plan' = <<>> /\ i' = 1
  /\ status' = "none" /\ data' = <<>> /\ outcome' = "none"
  /\ disturbed' = FALSE
  /\ UNCHANGED <<database, logging>>

\* Mutant of LoadPlan: _validate_dependency_order is not called.
LoadAnyPlan ==
  /\ pc = "load"
  /\ plan' \in PlanFiles \ {<<>>}
  /\ pc' = "step"
  /\ UNCHANGED <<run, i, status, data, outcome, disturbed, database, logging>>

\* What load_plan does, step by step, is module ExecutionPlanner; some files it
\* cannot read make it raise TypeError.
LoadPlan ==
  /\ pc = "load"
  /\ \E file \in PlanFiles :
       \/ /\ Executable(file)
          /\ plan' = file
          /\ pc' = "step"
          /\ UNCHANGED <<run, i, status, data, outcome, disturbed>>
       \/ ~Executable(file) /\ Fail("ExecutionPlanError")
       \/ file = <<>> /\ Fail("TypeError")
  /\ UNCHANGED <<database, logging>>

\* parse_sqlx and the comparison of the declared databases.  The .sqlx file is
\* read only now, so any step can meet a bad one after others have committed.
ParseFile ==
  /\ pc = "step"
  /\ i <= Len(plan)
  /\ \/ GoTo("connect")
     \/ \E error \in {"SQLXParseError", "ValidationError", "ValueError", "TypeError", "OSError"} :
          Fail(error)
  /\ UNCHANGED <<database, logging>>

\* Mutant of FinishRun: the loop ends one step early.
FinishRunEarly ==
  /\ pc = "step"
  /\ i >= Len(plan)
  /\ Return("ok")
  /\ UNCHANGED <<database, logging, disturbed>>

FinishRun ==
  /\ pc = "step"
  /\ i > Len(plan)
  /\ Return("ok")
  /\ UNCHANGED <<database, logging, disturbed>>

\* The factory resolves the configuration anew, and a malformed .mcp.json or
\* port makes it raise what module ConnectionConfig says; connect() opens a
\* session, and turns only an OperationalError into DatabaseConnectionError;
\* begin_transaction() does nothing by itself.
Connect ==
  /\ pc = "connect"
  /\ \/ GoTo("execute") /\ session' = "open"
     \/ /\ \E error \in {"DatabaseConnectionError", "ValueError", "AttributeError", "TypeError",
                       "OverflowError", "psycopg2.Error"} : Fail(error)
        /\ UNCHANGED session
  /\ UNCHANGED <<tx, committed, logging>>

\* Mutant of ExecuteOk: the success is recorded without a commit.
ExecuteWithoutCommit ==
  /\ pc = "execute"
  /\ session = "open"
  /\ tx' = "open"
  /\ status' = "success"
  /\ pc' = "read_log"
  /\ UNCHANGED <<run, plan, i, data, outcome, disturbed, session, committed, logging>>

ExecuteOk ==
  /\ pc = "execute"
  /\ session = "open"
  /\ tx' = "open"
  /\ GoTo("commit")
  /\ UNCHANGED <<session, committed, logging>>

\* The statement fails, or the session is already gone: except Exception.
ExecuteRaises ==
  /\ pc = "execute"
  /\ tx' = IF session = "open" THEN "open" ELSE "none"
  /\ pc' = "rollback"
  /\ disturbed' = TRUE
  /\ UNCHANGED <<run, plan, i, status, data, outcome, session, committed, logging>>

Rollback ==
  /\ pc = "rollback"
  /\ session = "open"
  /\ tx' = "none"
  /\ status' = "failure"
  /\ pc' = "read_log"
  /\ UNCHANGED <<run, plan, i, data, outcome, session, committed, logging, disturbed>>

\* Mutant of RollbackRaises: connect and try the step again, without a limit.
RollbackOrReconnect ==
  /\ pc = "rollback"
  /\ session = "lost"
  /\ GoTo("connect")
  /\ UNCHANGED <<database, logging>>

\* rollback() on a lost session raises out of the except block.
RollbackRaises ==
  /\ pc = "rollback"
  /\ session = "lost"
  /\ Fail("psycopg2.Error")
  /\ UNCHANGED <<database, logging>>

Commit ==
  /\ pc = "commit"
  /\ session = "open"
  /\ committed' = committed \cup {ThisCommit}
  /\ tx' = "none"
  /\ status' = "success"
  /\ pc' = "read_log"
  /\ UNCHANGED <<run, plan, i, data, outcome, session, logging, disturbed>>

\* Mutant of CommitRaises: a failed commit is taken for a success.
CommitErrorSwallowed ==
  /\ pc = "commit"
  /\ tx' = "none"
  /\ status' = "success"
  /\ pc' = "read_log"
  /\ disturbed' = TRUE
  /\ UNCHANGED <<run, plan, i, data, outcome, session, committed, logging>>

\* commit() raises out of the else block: the session was lost before, or the
\* server refuses (a deferred constraint), or the session is lost while the
\* server commits, and then the changes may be durable all the same.
CommitRaises ==
  /\ pc = "commit"
  /\ Fail("psycopg2.Error")
  /\ tx' = "none"
  /\ \/ UNCHANGED <<session, committed>>
     \/ /\ session = "open" /\ session' = "lost"
        /\ committed' \in {committed, committed \cup {ThisCommit}}
  /\ UNCHANGED logging

-----------------------------------------------------------------------------
\* Mutant of NewEntries: the entry is put in front of the others.
EntriesInReverse == <<ThisRecord>> \o Entries(log)

\* data["entries"].append(...)
NewEntries == Append(Entries(log), ThisRecord)

\* Mutant of ReadLog: an unreadable log is skipped without an error.
ReadLogOrSkip ==
  /\ pc = "read_log"
  /\ \/ Readable(log) /\ data' = NewEntries /\ pc' = "open_log"
     \/ ~Readable(log) /\ UNCHANGED data /\ pc' = "close"
  /\ UNCHANGED <<run, plan, i, status, outcome, database, logging, disturbed>>

\* record(): read the whole file, append the entry ...
ReadLog ==
  /\ pc = "read_log"
  /\ \/ /\ Readable(log)
        /\ data' = NewEntries
        /\ pc' = "open_log"
        /\ UNCHANGED <<run, plan, i, status, outcome>>
     \/ ~Readable(log) /\ Return("JSONDecodeError")
  /\ UNCHANGED <<database, logging, disturbed>>

\* ... open it for writing, which truncates it ...
OpenLog ==
  /\ pc = "open_log"
  /\ \/ GoTo("write_log") /\ log' = Empty
     \/ Fail("OSError") /\ UNCHANGED log
  /\ UNCHANGED <<database, accepted>>

\* ... a part of a long document may reach the disk before the rest ...
FlushPart ==
  /\ pc = "write_log"
  /\ log = Empty
  /\ log' = Torn
  /\ UNCHANGED <<process, database, accepted, disturbed>>

\* ... and the write completes, or fails (disk full) leaving the file as it is.
WriteLog ==
  /\ pc = "write_log"
  /\ \/ /\ GoTo("close")
        /\ log' = Json(data)
        /\ accepted' = Append(accepted, ThisRecord)
     \/ Fail("OSError") /\ UNCHANGED logging
  /\ UNCHANGED database

\* Mutant of EndStep: go on after a failure.
EndStepAndGoOn ==
  /\ pc' = "step" /\ i' = i + 1 /\ status' = "none"
  /\ UNCHANGED <<run, plan, data, outcome>>

\* The next step after a success, ExecutionFailure after a failure.
EndStep ==
  \/ /\ status = "success"
     /\ pc' = "step" /\ i' = i + 1 /\ status' = "none"
     /\ UNCHANGED <<run, plan, data, outcome>>
  \/ status = "failure" /\ Return("ExecutionFailure")

\* Mutant of Close: the session is left open.
CloseNothing == pc = "close" /\ EndStep /\ UNCHANGED <<database, logging, disturbed>>

Close ==
  /\ pc = "close"
  /\ session' = "none"
  /\ EndStep
  /\ UNCHANGED <<tx, committed, logging, disturbed>>

\* main() prints the outcomes and returns 0, prints an EngineError and returns
\* 1, and dies with a traceback of any other exception; the operating system
\* then closes whatever connection run() left behind.
Main ==
  /\ pc = "returned"
  /\ pc' = "down"
  /\ session' = "none"
  /\ tx' = "none"
  /\ UNCHANGED <<run, plan, i, status, data, outcome, committed, logging, disturbed>>

-----------------------------------------------------------------------------
\* The process dies (SIGKILL, KeyboardInterrupt, power).  A commit in flight
\* may or may not have reached the server.
Kill ==
  /\ pc \notin {"down", "returned"}
  /\ pc' = "down"
  /\ outcome' = "killed"
  /\ disturbed' = TRUE
  /\ session' = "none"
  /\ tx' = "none"
  /\ \/ UNCHANGED committed
     \/ pc = "commit" /\ session = "open" /\ committed' = committed \cup {ThisCommit}
  /\ UNCHANGED <<run, plan, i, status, data, logging>>

\* The server ends the session: pg_terminate_backend of reset_databases, a
\* restart, a network failure.  It rolls back an open transaction.
SessionLost ==
  /\ session = "open"
  /\ session' = "lost"
  /\ tx' = "none"
  /\ disturbed' = TRUE
  /\ UNCHANGED <<process, committed, logging>>

EngineStep ==
  \/ LoadPlan \/ ParseFile \/ FinishRun
  \/ Connect \/ ExecuteOk \/ ExecuteRaises
  \/ Commit \/ CommitRaises \/ Rollback \/ RollbackRaises
  \/ ReadLog \/ OpenLog \/ WriteLog
  \/ Close \/ Main

Next == EngineStep \/ StartRun \/ FlushPart \/ Kill \/ SessionLost

\* The engine is one thread that never waits for another of its own: while the
\* process lives, the call it makes returns or raises.
Spec == Init /\ [][Next]_vars /\ WF_vars(EngineStep)
=============================================================================
