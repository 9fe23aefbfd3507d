----------------------------- MODULE HealthCheck -----------------------------
(***************************************************************************)
(* engine/healthcheck.py and tool/generate_event_log.py, which read what   *)
(* runs of the engine leave behind, at any moment and without a lock.  One *)
(* reader at a time makes a health check or writes an event log, while the *)
(* engine of module Engine goes on.                                        *)
(*                                                                         *)
(* at names what the reader does next:                                     *)
(*   connectivity resolved databases generation review execution           *)
(*   validation                 the checks, in the order of run()          *)
(*   load_log load_report open_record write_record                         *)
(*                              main() of generate_event_log.py            *)
(*   returned raised            how the call ended                         *)
(*   idle                       no reader                                  *)
(***************************************************************************)
EXTENDS Engine, ConnectionConfig, FiniteSets

CONSTANTS DatabaseOf,     \* the database of each step
          McpFiles,       \* what .mcp.json may hold
          Environments    \* what the environment may hold

ASSUME McpFilesAssumption     == McpFiles \subseteq McpFile
ASSUME EnvironmentsAssumption == Environments \subseteq Environment

VARIABLES at,         \* the reader
          source,     \* what the resolution of the configuration has found
          config,     \* how it ended, and then the config the checks go on with
          checks,     \* the ids of the checks made so far
          execution,  \* the status of the execution check
          entries,    \* the entries of the log it has loaded
          eventLog    \* the event log on disk: the entries it relays, the counts

reader     == <<at, source, config, checks, execution, entries>>
everything == <<vars, reader, eventLog>>

NoSource == [file |-> [kind |-> "nothing", servers |-> <<>>],
             env  |-> [given |-> {}, port |-> "default"]]

\* An event log that is absent, emptied to be written, or torn.
Without(kind) == [kind |-> kind, entries |-> <<>>, success |-> 0, failure |-> 0]

ReaderInit ==
  /\ at = "idle" /\ source = NoSource /\ config = Nothing
  /\ checks = {} /\ execution = "none" /\ entries = <<>>
  /\ eventLog = Without("absent")

-----------------------------------------------------------------------------
(* healthcheck.run *)

StartHealthCheck ==
  /\ at = "idle"
  /\ at' = "connectivity"
  /\ UNCHANGED <<source, config, checks, execution, entries, eventLog>>

Done(next, ids) ==
  /\ at' = next
  /\ checks' = checks \cup ids

\* resolve_connection_config("postgres") returns or raises ...
Resolve ==
  /\ at = "connectivity"
  /\ \E file \in McpFiles, env \in Environments :
       /\ source' = [file |-> file, env |-> env]
       /\ config' = ResolveConnectionConfig(file, env)
  /\ at' = "resolved"
  /\ UNCHANGED <<checks, execution, entries, eventLog>>

\* ... and the connection is tried.  Without one the check is a FAIL and the
\* others are given None; only an EngineError of the resolution is a FAIL, and
\* psycopg2 may refuse the configuration with another error than its own.
CheckConnectivity ==
  /\ at = "resolved"
  /\ source' = NoSource
  /\ \/ /\ config.how = "config"
        /\ Done("databases", {<<"connectivity">>})
        /\ UNCHANGED config
     \/ /\ config.how \in {"config", "DatabaseConnectionError"}
        /\ Done("databases", {<<"connectivity">>})
        /\ config' = Nothing
     \/ /\ config.how # "DatabaseConnectionError"
        /\ at' = "raised"
        /\ UNCHANGED <<config, checks>>
  /\ UNCHANGED <<execution, entries, eventLog>>

DatabaseChecks(steps) == {<<"database", DatabaseOf[id]>> : id \in IdsOf(steps)}

\* One check for each database of the plan, by name; if the connection breaks
\* after some of them (names have no order here), a FAIL for the rest.
CheckManagedDatabases ==
  /\ at = "databases"
  /\ \/ Done("generation", {})                       \* no plan yet
     \/ \E file \in PlanFiles :
          \/ Executable(file) /\ Done("generation", DatabaseChecks(file))
          \/ /\ Executable(file) /\ config # Nothing
             /\ \E made \in SUBSET DatabaseChecks(file) :
                  Done("generation", made \cup {<<"database-list">>})
          \/ ~Executable(file) /\ Done("generation", {<<"execution-plan">>})
          \/ file = <<>> /\ at' = "raised" /\ UNCHANGED checks      \* TypeError
  /\ UNCHANGED <<source, config, execution, entries, eventLog>>

CheckGeneration ==
  /\ at = "generation"
  /\ Done("review", {<<"generation">>})
  /\ UNCHANGED <<source, config, execution, entries, eventLog>>

\* Absent or unreadable is a WARN; JSON that is not an object has no get().
CheckReview ==
  /\ at = "review"
  /\ \/ Done("execution", {<<"review">>})
     \/ at' = "raised" /\ UNCHANGED checks
  /\ UNCHANGED <<source, config, execution, entries, eventLog>>

\* Mutant of ExecutionStatus: the last entry decides.
StatusOfLastEntry(file) ==
  IF file.kind # "json" \/ file.entries = <<>> THEN "WARN"
  ELSE IF file.entries[Len(file.entries)].status = "failure" THEN "FAIL" ELSE "PASS"

\* Mutant of ExecutionStatus: what cannot be read has no failure in it.
StatusOfAnyFile(file) ==
  IF \E n \in DOMAIN file.entries : file.entries[n].status = "failure" THEN "FAIL" ELSE "PASS"

\* _read_json gives None for an absent, an empty and a torn file alike.
ExecutionStatus(file) ==
  IF file.kind # "json" \/ file.entries = <<>> THEN "WARN"
  ELSE IF \E n \in DOMAIN file.entries : file.entries[n].status = "failure" THEN "FAIL"
  ELSE "PASS"

CheckExecution ==
  /\ at = "execution"
  /\ execution' = ExecutionStatus(log)
  /\ Done("validation", {<<"execution">>})
  /\ UNCHANGED <<source, config, entries, eventLog>>

CheckValidation ==
  /\ at = "validation"
  /\ Done("returned", {<<"validation">>})
  /\ UNCHANGED <<source, config, execution, entries, eventLog>>

-----------------------------------------------------------------------------
(* generate_event_log.main *)

StartEventLog ==
  /\ at = "idle"
  /\ at' = "load_log"
  /\ UNCHANGED <<source, config, checks, execution, entries, eventLog>>

\* load_json exits if there is no file and raises if it does not parse.
LoadLog ==
  /\ at = "load_log"
  /\ \/ log.kind = "json" /\ entries' = log.entries /\ at' = "load_report"
     \/ log.kind = "absent" /\ at' = "returned" /\ UNCHANGED entries
     \/ log.kind \in {"empty", "torn"} /\ at' = "raised" /\ UNCHANGED entries
  /\ UNCHANGED <<source, config, checks, execution, eventLog>>

LoadReport ==
  /\ at = "load_report"
  /\ at' \in {"open_record", "returned", "raised"}
  /\ UNCHANGED <<source, config, checks, execution, entries, eventLog>>

\* Mutant of Count: the first entry of a status is not counted.
CountFromZero(status_, of) == Cardinality({n \in DOMAIN of : n > 1 /\ of[n].status = status_})

\* summarize_execution: how many entries have this status.
Count(status_, of) == Cardinality({n \in DOMAIN of : of[n].status = status_})

\* write_text truncates the event log of the same ticket, day and slug ...
OpenRecord ==
  /\ at = "open_record"
  /\ \/ at' = "write_record" /\ eventLog' = Without("empty")
     \/ at' = "raised" /\ UNCHANGED eventLog
  /\ UNCHANGED <<source, config, checks, execution, entries>>

\* ... a part of the text may reach the disk before the rest ...
FlushRecord ==
  /\ at = "write_record"
  /\ eventLog' = Without("torn")
  /\ UNCHANGED reader

\* ... and the write completes, or fails leaving the file as it is.
WriteRecord ==
  /\ at = "write_record"
  /\ \/ /\ at' = "returned"
        /\ eventLog' = [kind |-> "json", entries |-> entries,
                        success |-> Count("success", entries),
                        failure |-> Count("failure", entries)]
     \/ at' = "raised" /\ UNCHANGED eventLog
  /\ UNCHANGED <<source, config, checks, execution, entries>>

\* The process ends, and with it all that it has read.
Leave ==
  /\ at' = "idle"
  /\ source' = NoSource /\ config' = Nothing
  /\ checks' = {} /\ execution' = "none" /\ entries' = <<>>
  /\ UNCHANGED eventLog

\* main() prints what it has, or Python prints the traceback.
Exit ==
  /\ at \in {"returned", "raised"}
  /\ Leave

KillReader ==
  /\ at \notin {"idle", "returned", "raised"}
  /\ Leave

ReaderStep ==
  \/ Resolve \/ CheckConnectivity \/ CheckManagedDatabases \/ CheckGeneration
  \/ CheckReview \/ CheckExecution \/ CheckValidation
  \/ LoadLog \/ LoadReport \/ OpenRecord \/ FlushRecord \/ WriteRecord
  \/ Exit \/ KillReader

\* A reader changes nothing that the engine uses.
ReaderNext == (ReaderStep \/ StartHealthCheck \/ StartEventLog) /\ UNCHANGED vars
EngineNext == Next /\ UNCHANGED <<reader, eventLog>>

\* Neither waits for the other.  A reader may also stand still for good.
HealthSpec ==
  /\ Init /\ ReaderInit
  /\ [][ReaderNext \/ EngineNext]_everything
  /\ WF_vars(EngineStep)
=============================================================================
