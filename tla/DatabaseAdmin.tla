---------------------------- MODULE DatabaseAdmin ----------------------------
(***************************************************************************)
(* engine/dbadmin.py: processes that reset the databases of a project or   *)
(* run its bootstrap scripts, on a PostgreSQL server that other clients    *)
(* use at the same time (the engine, validation, a user's psql).  Nothing  *)
(* keeps two of these processes apart.                                     *)
(*                                                                         *)
(* The server is what the statements say of it: a database exists or not,  *)
(* DROP DATABASE fails while a session is open on it, CREATE DATABASE fails *)
(* if it is there, each statement commits by itself, and any statement may *)
(* fail for a reason of the server's own.  A script is done once psql has  *)
(* run it to the end; it can do so only if what it needs is in place.      *)
(***************************************************************************)
EXTENDS Naturals, Sequences

CONSTANTS Admins,     \* processes that call reset_databases or run_bootstrap
          Clients,    \* other sessions, each on one database at a time
          Unmanaged,  \* databases of the server that are not the project's
          Requests,   \* what reset_databases is called with
          MaxCalls    \* bound on the calls of all processes together

MANAGED_DATABASES == <<"source_db", "intermediate_db", "target_db">>

Managed  == {MANAGED_DATABASES[j] : j \in DOMAIN MANAGED_DATABASES}
Database == Managed \cup Unmanaged

ASSUME RequestsAssumption  == Requests \subseteq Seq(Database)
ASSUME UnmanagedAssumption == Unmanaged \cap Managed = {}
ASSUME ClientsAssumption   == Clients \cap Admins = {}
ASSUME MaxCallsAssumption  == MaxCalls \in Nat

-----------------------------------------------------------------------------
On(script, database) == [script |-> script, targets |-> <<database>>]

\* The order of _BOOTSTRAP_STEPS if it followed the numbers of the files.
StepsByNumber ==
  << [script |-> "create_schemas", targets |-> MANAGED_DATABASES],
     On("create_fdw_intermediate_to_source", "intermediate_db"),
     On("create_fdw_target_to_intermediate", "target_db"),
     On("create_fdw_intermediate_to_target", "intermediate_db"),
     On("ddl_source_tables", "source_db"),
     On("init_staging_schema", "intermediate_db"),
     On("create_udfs", "intermediate_db"),
     On("ddl_target_tables", "target_db") >>

BootstrapSteps ==
  << [script |-> "create_schemas", targets |-> MANAGED_DATABASES],
     On("ddl_source_tables", "source_db"),
     On("ddl_target_tables", "target_db"),
     On("create_fdw_intermediate_to_source", "intermediate_db"),
     On("create_fdw_intermediate_to_target", "intermediate_db"),
     On("init_staging_schema", "intermediate_db"),
     On("create_udfs", "intermediate_db"),
     On("create_fdw_target_to_intermediate", "target_db") >>

Script == {BootstrapSteps[j].script : j \in DOMAIN BootstrapSteps}

\* External: what the generated scripts use.  All but the first create things
\* in the schemas of their database; the bridges import from the database at
\* their other end what its own scripts have created there.
Needs(script, database) ==
  (IF script = "create_schemas" THEN {} ELSE {<<database, "create_schemas">>})
  \cup
  CASE script = "create_fdw_intermediate_to_source" -> {<<"source_db", "ddl_source_tables">>}
    [] script = "create_fdw_intermediate_to_target" -> {<<"target_db", "ddl_target_tables">>}
    [] script = "create_udfs" -> {<<"intermediate_db", "init_staging_schema">>}
    [] script = "create_fdw_target_to_intermediate" -> {<<"intermediate_db", "init_staging_schema">>}
    [] OTHER -> {}

-----------------------------------------------------------------------------
VARIABLES exists,     \* the databases of the server
          born,       \* the number of calls begun when each was created
          done,       \* the scripts done in each since it was created
          sessions,   \* pairs of who and the database the session is on
          call,       \* the call each process is in
          calls       \* number of calls begun

server == <<exists, born, done, sessions>>
vars   == <<server, call, calls>>

NoCall == [kind |-> "none", pc |-> "idle", databases |-> <<>>, k |-> 1, t |-> 1,
           since |-> 0, alone |-> TRUE, outcome |-> "none"]

Init ==
  /\ exists \in {Unmanaged, Database}
  /\ born = [db \in Database |-> 0]
  /\ done = [db \in Database |-> {}]
  /\ sessions = {}
  /\ call = [p \in Admins |-> NoCall]
  /\ calls = 0

At(p, here) == call[p].pc = here

GoTo(p, here) == call' = [call EXCEPT ![p].pc = here]

Return(p, how) == call' = [call EXCEPT ![p].pc = "returned", ![p].outcome = how]

\* A call is alone as long as no other process is in one.
Begin(p, kind, here, databases) ==
  /\ At(p, "idle")
  /\ calls < MaxCalls
  /\ calls' = calls + 1
  /\ call' = [q \in Admins |->
                IF q = p
                THEN [NoCall EXCEPT !.kind = kind, !.pc = here, !.databases = databases,
                                    !.since = calls',
                                    !.alone = \A o \in Admins : At(o, "idle")]
                ELSE [call[q] EXCEPT !.alone = At(q, "idle")]]
  /\ UNCHANGED server

-----------------------------------------------------------------------------
(* reset_databases *)

Target(p) == call[p].databases[call[p].k]     \* the database in hand

BeginReset(p) == \E databases \in Requests : Begin(p, "reset", "check", databases)

IsManaged(p) == \A j \in DOMAIN call[p].databases : call[p].databases[j] \in Managed

\* Mutant of CheckRequest: the names are not checked.
CheckNothing(p) == At(p, "check") /\ GoTo(p, "connect") /\ UNCHANGED <<server, calls>>

CheckRequest(p) ==
  /\ At(p, "check")
  /\ \/ IsManaged(p) /\ GoTo(p, "connect")
     \/ ~IsManaged(p) /\ Return(p, "ValueError")
  /\ UNCHANGED <<server, calls>>

AdminConnection(p) ==
  /\ At(p, "connect")
  /\ \/ GoTo(p, "terminate")
     \/ \E error \in {"DatabaseConnectionError", "psycopg2.Error"} : Return(p, error)
  /\ UNCHANGED <<server, calls>>

\* Mutant of StatementFails: an error ends the work on one database only.
StatementFailsAndGoesOn(p) ==
  /\ call[p].pc \in {"terminate", "drop", "create"}
  /\ call[p].k <= Len(call[p].databases)
  /\ \/ Return(p, "psycopg2.Error")
     \/ call' = [call EXCEPT ![p].pc = "terminate", ![p].k = @ + 1]
  /\ UNCHANGED <<server, calls>>

\* Any statement of the loop may fail; the exception leaves the function.
StatementFails(p) ==
  /\ call[p].pc \in {"terminate", "drop", "create"}
  /\ call[p].k <= Len(call[p].databases)
  /\ Return(p, "psycopg2.Error")
  /\ UNCHANGED <<server, calls>>

Terminate(p) ==
  /\ At(p, "terminate")
  /\ call[p].k <= Len(call[p].databases)
  /\ sessions' = {s \in sessions : s[2] # Target(p)}
  /\ GoTo(p, "drop")
  /\ UNCHANGED <<exists, born, done, calls>>

NextDatabase(p) == call' = [call EXCEPT ![p].pc = "terminate", ![p].k = @ + 1]

\* Mutant of Drop: a database in use is left as it is, and the loop goes on.
DropOrSkip(p) ==
  /\ At(p, "drop")
  /\ IF \E s \in sessions : s[2] = Target(p)
     THEN NextDatabase(p) /\ UNCHANGED <<exists, done>>
     ELSE /\ exists' = exists \ {Target(p)}
          /\ done' = [done EXCEPT ![Target(p)] = {}]
          /\ GoTo(p, "create")
  /\ UNCHANGED <<born, sessions, calls>>

\* IF EXISTS: dropping what is not there succeeds.
Drop(p) ==
  /\ At(p, "drop")
  /\ ~ \E s \in sessions : s[2] = Target(p)
  /\ exists' = exists \ {Target(p)}
  /\ done' = [done EXCEPT ![Target(p)] = {}]
  /\ GoTo(p, "create")
  /\ UNCHANGED <<born, sessions, calls>>

Create(p) ==
  /\ At(p, "create")
  /\ Target(p) \notin exists
  /\ exists' = exists \cup {Target(p)}
  /\ born' = [born EXCEPT ![Target(p)] = calls]
  /\ NextDatabase(p)
  /\ UNCHANGED <<done, sessions, calls>>

\* Mutant of ResetDone: the last database is left out.
ResetDoneEarly(p) ==
  /\ At(p, "terminate")
  /\ call[p].k >= Len(call[p].databases)
  /\ Return(p, "ok")
  /\ UNCHANGED <<server, calls>>

ResetDone(p) ==
  /\ At(p, "terminate")
  /\ call[p].k > Len(call[p].databases)
  /\ Return(p, "ok")
  /\ UNCHANGED <<server, calls>>

-----------------------------------------------------------------------------
(* run_bootstrap *)

ThisStep(p) == BootstrapSteps[call[p].k]
Against(p)  == ThisStep(p).targets[call[p].t]     \* the database psql connects to

BeginBootstrap(p) == Begin(p, "bootstrap", "file", <<>>)

\* The directory and the file of the step are looked for when their turn comes.
FindFile(p) ==
  /\ At(p, "file")
  /\ call[p].k <= Len(BootstrapSteps)
  /\ GoTo(p, "psql") \/ Return(p, "BootstrapError")
  /\ UNCHANGED <<server, calls>>

\* psql connects, or cannot, or is not installed.
StartPsql(p) ==
  /\ At(p, "psql")
  /\ \/ /\ Against(p) \in exists
        /\ sessions' = sessions \cup {<<p, Against(p)>>}
        /\ GoTo(p, "wait")
     \/ /\ \E error \in {"BootstrapError", "FileNotFoundError"} : Return(p, error)
        /\ UNCHANGED sessions
  /\ UNCHANGED <<exists, born, done, calls>>

\* Mutant of NextTarget: the position among the targets is not reset.
NextTargetKeepsPosition(p) ==
  IF call[p].t < Len(ThisStep(p).targets)
  THEN call' = [call EXCEPT ![p].pc = "psql", ![p].t = @ + 1]
  ELSE call' = [call EXCEPT ![p].pc = "file", ![p].k = @ + 1]

NextTarget(p) ==
  IF call[p].t < Len(ThisStep(p).targets)
  THEN call' = [call EXCEPT ![p].pc = "psql", ![p].t = @ + 1]
  ELSE call' = [call EXCEPT ![p].pc = "file", ![p].t = 1, ![p].k = @ + 1]

NeedsMet(p) ==
  \A need \in Needs(ThisStep(p).script, Against(p)) : need[2] \in done[need[1]]

\* psql exits with 0: its session held and the script found what it needs.
PsqlSucceeds(p) ==
  /\ At(p, "wait")
  /\ <<p, Against(p)>> \in sessions
  /\ NeedsMet(p)
  /\ done' = [done EXCEPT ![Against(p)] = @ \cup {ThisStep(p).script}]
  /\ sessions' = sessions \ {<<p, Against(p)>>}
  /\ NextTarget(p)
  /\ UNCHANGED <<exists, born, calls>>

\* Mutant of PsqlFails: the exit code is not looked at.
PsqlFailsUnnoticed(p) ==
  /\ At(p, "wait")
  /\ sessions' = sessions \ {<<p, Against(p)>>}
  /\ NextTarget(p)
  /\ UNCHANGED <<exists, born, done, calls>>

\* Mutant of PsqlFails: a script that fails is run again, without a limit.
PsqlFailsAndRetries(p) ==
  /\ At(p, "wait")
  /\ sessions' = sessions \ {<<p, Against(p)>>}
  /\ GoTo(p, "psql")
  /\ UNCHANGED <<exists, born, done, calls>>

PsqlFails(p) ==
  /\ At(p, "wait")
  /\ sessions' = sessions \ {<<p, Against(p)>>}
  /\ Return(p, "BootstrapError")
  /\ UNCHANGED <<exists, born, done, calls>>

BootstrapDone(p) ==
  /\ At(p, "file")
  /\ call[p].k > Len(BootstrapSteps)
  /\ Return(p, "ok")
  /\ UNCHANGED <<server, calls>>

-----------------------------------------------------------------------------
\* main() prints what happened, or the traceback of an exception that is not an
\* EngineError, and the process ends.
Main(p) ==
  /\ At(p, "returned")
  /\ call' = [call EXCEPT ![p] = NoCall]
  /\ UNCHANGED <<server, calls>>

\* The process is interrupted, and psql with it.
Kill(p) ==
  /\ ~At(p, "idle")
  /\ call' = [call EXCEPT ![p] = NoCall]
  /\ sessions' = {s \in sessions : s[1] # p}
  /\ UNCHANGED <<exists, born, done, calls>>

ClientConnects(c) ==
  /\ \A s \in sessions : s[1] # c
  /\ \E db \in exists : sessions' = sessions \cup {<<c, db>>}
  /\ UNCHANGED <<exists, born, done, call, calls>>

ClientLeaves(c) ==
  /\ \E s \in sessions : s[1] = c
  /\ sessions' = {s \in sessions : s[1] # c}
  /\ UNCHANGED <<exists, born, done, call, calls>>

AdminStep(p) ==
  \/ CheckRequest(p) \/ AdminConnection(p) \/ StatementFails(p)
  \/ Terminate(p) \/ Drop(p) \/ Create(p) \/ ResetDone(p)
  \/ FindFile(p) \/ StartPsql(p) \/ PsqlSucceeds(p) \/ PsqlFails(p) \/ BootstrapDone(p)
  \/ Main(p)

Next ==
  \/ \E p \in Admins : AdminStep(p) \/ BeginReset(p) \/ BeginBootstrap(p) \/ Kill(p)
  \/ \E c \in Clients : ClientConnects(c) \/ ClientLeaves(c)

\* A call waits for nothing but the server, which answers or fails.
Spec == Init /\ [][Next]_vars /\ \A p \in Admins : WF_vars(AdminStep(p))
=============================================================================
