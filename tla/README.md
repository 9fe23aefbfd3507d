# TLA+ models of the STTM-Auto execution engine

STTM-Auto turns a source-to-target mapping into a project of `.sqlx` files and
runs it against PostgreSQL. The generator is a skill outside the repository;
what the repository holds is the Python package `engine/`, which runs, checks
and administers a generated project, and a few tools around it. This directory
models the engine in TLA+, checks the models with TLC and proves their safety
properties with TLAPS.

## 1. The system

| Component | Source | State it keeps | Operations | What makes it correct |
|---|---|---|---|---|
| Plan and planner | `engine/planner.py`, `engine/models.py` | none between calls; reads `metadata/execution/execution_plan.json` | `load_plan`, `sequence`, `_parse_step`, `_validate_dependency_order` | accepts exactly the plans whose listed order is a topological order; names a defect that is there; never reorders |
| Engine | `engine/executor.py`, `engine/exceptions.py` | the position in the plan | `Engine.run`, `_run_step`, `main` | commits a prefix of the plan, in order; stops at the first failure; the log tells the truth; always ends |
| PostgreSQL executor | `engine/postgres.py`, `engine/database.py` | one connection, one transaction | `connect`, `begin_transaction`, `execute`, `commit`, `rollback`, `close`; `resolve_connection_config` | one transaction per step, nothing left open for the next |
| Execution logger | `engine/logger.py` | `engine_execution_log.json`, a lock | `record`, `read_all` | appends, loses nothing of what it was given |
| SQLX parser | `engine/parser.py`, `engine/utils.py` | none | `parse_sqlx`, `find_matching_brace` | the config block and the SQL after it, or an error |
| Database administration | `engine/dbadmin.py` | the three databases | `reset_databases`, `run_bootstrap` | all databases fresh; scripts in order, stop at the first failure |
| Validation | `engine/validate.py` | `validation_report.json` | `validate_generation`, `validate_schema`, `validate_data`, `run` | a PASS means the checks were made and held |
| Health check | `engine/healthcheck.py` | none; reads everyone's artefacts | `check_*`, `run` | what it says of the executions is true of the database, whenever it looks |
| Event log | `tool/generate_event_log.py` | one event log per ticket and day | `load_json`, `summarize_execution`, `main` | relays records of the engine, and its counts are what was committed and what was not |
| Other tools | `tool/` | files under `docs/` | feedback, setup, ticket attachments | — |
| Generator skill | not in the repository | the project under `output/` | `/generate`, `/review`, ... | external |

How they interact. `main` builds one `Engine` per process. `Engine.run` asks the
planner for the steps once, then for each step parses the step's `.sqlx` file,
builds a new executor through a factory, connects, executes, commits or rolls
back, hands a record to the logger, and closes. The database and the log file
outlive the process: they are what one run leaves to the next, and what the
health check, validation and the event log read. `reset_databases` ends other
sessions on the databases, those of a running engine included. Nothing
coordinates these processes. Validation reads the databases and the generated
files and writes a report; the health check and the event log read the log and
that report, at any moment and without a lock. The engine, validation and the
health check find the server by `resolve_connection_config`, which searches
`.mcp.json` and then the environment.

What is hard. There is no concurrency inside a run, so the difficulty is not
races between threads. It is that every call in `_run_step` can fail or be the
last one before the process dies, that two durable stores (database and log) are
updated one after the other, that the log is rewritten in place, and that only
some of the calls are inside an exception handler. Between processes it is that
resets, bootstraps, runs and validations work on the same databases statement by
statement, each seeing what the others have committed so far. In the parser it
is that a scan of characters and JSON must agree on where a block ends. The full list, with lines, is
`hazards` in `PROJECT.json`.

## 2. The modules

```
Plan ── ExecutionPlanner ── MCPlanner               Common_proofs ─┬─ ExecutionPlanner_proofs
  │                                                                ├─ ExecutionLogger_proofs
  ├── PipelineRun  (abstract)                                      ├─ SqlxParser_proofs
  │       ▲ refined by                                             └─ Engine_proofs
  └── Engine ── EngineProperties ── MCEngine                              │
        │
LogFile ┴── ExecutionLogger ── MCLogger
                  │ refines
                  ▼
               LogBook  (abstract)

ConnectionConfig ─┐
Engine ───────────┴ HealthCheck ─┐
EngineProperties ────────────────┴ HealthCheckProperties ── MCHealthCheck
                                   HealthCheck_proofs  (over Engine_proofs)

DatabaseAdmin ── DatabaseAdminProperties ── MCDatabaseAdmin      DatabaseAdmin_proofs
SqlxParser ───── SqlxParserProperties ───── MCSqlxParser         SqlxParser_proofs
Validation ───── ValidationProperties ───── MCValidation         Validation_proofs
```

**Plan.** A step is an id and a sequence of ids it depends on; `table`, `stage`,
`database`, `file` only label it, and no property depends on them. `Executable`
is what the planner must establish: a non-empty list, unique ids, every
dependency listed earlier.

**ExecutionPlanner** is `load_plan` with one loop iteration per action: read the
file and its top level, parse each step, look for duplicate ids, then for each
dependency of each step check that it exists and was seen. `pc` is the loop, `i`
the step, `k` the dependency, `seen` the set of the loop in hand. The inputs are
raw files: each raw step has a shape that says whether `_parse_step` accepts it,
raises `ExecutionPlanError`, or raises `TypeError` (an array or object as
`stage` is not hashable). Ids are taken to be hashable, as the generator writes
them.

**Engine** is `Engine.run` and `_run_step` over the connection of
`PostgresExecutor`, the log file of `ExecutionLogger` and the exception handling
of `main`. `pc` names the call about to be made. Each call is an action, and
where it can fail another disjunct or action; the code between two calls belongs
to the action before it. `session` and `tx` are the server's view of the
connection; `committed` holds pairs of a run and a step, so that what this run
committed is told apart from what earlier runs did. `accepted` is a history
variable, the records whose write completed, and `disturbed` another one, true
once something has failed in the run or someone has interfered with it.
`LoadPlan` replaces the planner by what the first module shows of it. `Kill` may
strike anywhere, and during `commit` it may strike after the server has
committed. `SessionLost` is a session ended by the server: `reset_databases`, a
restart, a network failure. `CommitRaises` covers a session already lost, a
refusal by the server (deferred constraint), and a connection lost while the
server commits, when the outcome is unknown. The log goes through read, open
(which truncates), an optional partial flush, and the complete write.

**PipelineRun** is what the engine promises with none of this visible: a run
takes an executable plan, commits its steps one at a time in plan order, each
once, succeeds only when all are committed, and may stop anywhere, perhaps while
committing one more step. `EngineProperties` gives the mapping (`RunStatus`).

**LogFile** is the file as `_read` and `_write` see it: absent, empty, torn, or a
complete document.

**ExecutionLogger** is the class by itself, used by several threads of one
process under its lock, with readers that take no lock, a process that may die
and writes that may fail. The engine uses it from one thread, and the class
comment says that concurrent writers are not expected; the model says what the
lock is good for. Two *processes* that write one log are outside what the code
supports, and are not modelled.

**LogBook** is the abstract log: entries are appended atomically, and a fault may
lose the whole book.

**ConnectionConfig** is `resolve_connection_config`: which entry of `.mcp.json`
or else the environment gives host, user, password and port, or which exception
the search ends with. The two spellings of a name (`PG*`, `POSTGRES_*`) are one,
and a value is given or not; what it is makes no difference, except for a port,
which `int()` may refuse in three ways. A file that cannot be decoded, JSON of
another shape, and a server that is no object are kinds of their own, each with
the exception it raises.

**HealthCheck** puts a reader beside the engine: one process at a time that makes
a health check, one check per action, or writes an event log, while the engine
of module `Engine` takes any of its steps in between. `at` is the check or the
file that is next. What the reader shares with the engine is `log`, which it
reads in whatever state a write has left it; the checks of generation, review
and validation read artefacts of other programs, and only that they are made, or
raise, is modelled. The configuration and the plan are read anew in each call, and may
be any of the files there are. `source` is the `.mcp.json` and the environment
that `Resolve` has met, `config` what it made of them; when the connection cannot
be opened, `config` is nothing and the check of the databases knows it. The event
log is written as `write_text` does it, truncated, then perhaps in parts, and a
reader may be killed at any place (`KillReader`), so that an event log can be
empty or torn like the log itself. `Says` is the step in which the execution check
gives its verdict.

**DatabaseAdmin** is `reset_databases` and `run_bootstrap` in any number of
processes, with clients that connect and leave. `call[p]` is where process `p`
is: `pc` the statement or `psql` about to run, `k` the database of the list or
the step of `_BOOTSTRAP_STEPS`, `t` the target of a step. The server is what the
statements say of it: `exists`, `sessions`, the scripts `done` in each database
since it was created, and `born`, the number of calls begun when that was, which
tells an old database from a new one of the same name. DROP waits for no open
session and CREATE for no namesake, so another client between two statements
makes the next one fail (`StatementFails`). What a generated script needs of
others (`Needs`) is external, taken from what the bridges import; a script that
fails may leave parts of itself behind, which is not modelled beyond not being
`done`. `alone` is a history variable of a call: no other call has overlapped it.

**SqlxParser** is `parse_sqlx` on a sequence of tokens, with
`find_matching_brace` one token per action. Keyword, braces, quote, backslash
and blank are tokens of their own; everything else is one token that leaves the
scan as it was. `json.loads` may accept or refuse any block it is given.
`SqlxParserProperties` defines string literals (an ending quote is one with an
even run of backslashes before it) and blocks by a grammar, with no reference
to the scan.

**Validation** is `run()` of `validate.py`: the checks of the files, of the two
live schemas, and the data checks, one SQL statement per action, on databases
that may change between any two. A table is its presence, its agreement with
the declared columns, its source rows, the number of staged rows and its target
rows, with a key, a column that a UDF computes and a reference. The dictionary
of source rows is any of those the rows can make, since they come in no
particular order. `Lacking` is when a statement or a file read must fail;
`Fault` is when it fails by accident; `undisturbed` tells the two apart. `empty`
is a history variable, the tables whose target had no row when it was counted,
for which `validate_data` makes no check of duplicates.

## 3. What the runs check

Each property is stated, with a comment, in the module that the run's MC module
extends. Each has a mutant in `PROJECT.json`: a plausible bug in the code that
makes TLC report the property violated.

| Run | Instance | What it shows |
|---|---|---|
| `planner` | plans of up to three steps over three ids, defective files | `AcceptsExactly`, `VerdictIsTrue` |
| `engine` | three runs; plan file among a chain of three, two independent steps, a plan out of order, an unreadable file; chosen anew for each run | the safety properties of section 5, `RunEnds`, `ImplementsPipeline` |
| `logger` | two writers with two calls each, one reader, two faults | `NoRecordLost`, `ReadIsGenuine`, `AppendsAtomically`, `RecordReturns` |
| `engine_commit_error` | as `engine` | a step that fails in `commit()` or `rollback()` is neither logged nor reported as `ExecutionFailure`, against what `Engine.run` and `ExecutionFailure` document |
| `engine_torn_log` | as `engine` | after a run was killed while rewriting the log, an undisturbed run fails, after committing a step, with `JSONDecodeError`, against the onboarding guide's "re-running is safe" |
| `database_admin` | two processes, one client, three databases of the project and one other; the full list, a list out of order that names a database twice, and a list to be refused; two calls | `ResetIsFresh`, `ResetIsComplete`, `PartialReset`, `UnmanagedKept`, `BootstrapIsComplete`, `OrderSatisfiesNeeds`, `CallEnds` |
| `sqlx_parser` | every text of up to five tokens; every block of up to five tokens with SQL after it, with and without something before | `MatchesBlock`, `KeepsTheRest` |
| `sqlx_parser_opens` | as `sqlx_parser` | text in front of the config block is dropped without an error, against "must open with one" |
| `validation` | a dimension with any target of up to two rows, a fact that refers to it; eleven ways for the files to be wrong or doubtful, eight ways for a table to be; two calls, one change | `PassIsTrue`, `FailIsTrue`, `StatusCoversAll`, `CallEnds` |
| `health_check` | the engine with two runs, of a plan of two steps or a file that cannot be read; one reader at a time, any number of times; up to two servers in `.mcp.json` | `ExecutionIsTrue`, `VerdictAtRest`, `EventLogIsHistory`, `ResolvesInOrder` |
| `health_check_resolution` | as `health_check` | a malformed `.mcp.json` makes the resolution raise another error than its own, so that the environment is not asked and the check ends without a status, against "never raises" and "falls through silently" |
| `validation_finding` | as `validation` | a missing table is found and then makes the call raise, so that no report is written |

Bounds. `MaxRuns = 3`: two runs are enough for one to inherit the database and
the log of another, and the third shows that a torn log persists and that history
is lost from the front only. Three steps, the last of which depends on both
others, give a first, a middle and a last step, and a dependency that is not
the immediate predecessor; the second plan lists shared ids in another order, so
that what an earlier run committed cannot be mistaken for what this one did.
Three ids and three steps contain every pairwise relation the planner tests (to
itself, to an earlier, a later, a missing, a duplicate step). Two writers with
two calls give a stale copy that is overwritten twice; two faults give a loss
after a loss. Two calls of `dbadmin.py` are enough for one to undo what the other does, and for
a second attempt on what a failed one left; more of them add more of the same,
since nothing passes from call to call but the databases. Five tokens after the
opening brace hold a literal with an escaped quote or an escaped backslash and
the closing brace, and two levels of nesting. Two rows are what duplicates, lost
rows and collisions of keys take, and the second call of `validation` finds the
report of the first. For the readers, two runs make a log that holds the records
of an earlier run, whole or lost, and those of the run in hand; two servers in
`.mcp.json` are one that is passed over and one that decides, and there is a
server for each way in which one can spoil the search. The proofs of section 5 hold without these bounds.
`MaxRuns`, `MaxCalls`, `MaxFaults` and `MaxChanges` are guards in the actions they
bound.

Deadlock checking is off in all runs: a `load_plan` or `parse_sqlx` call ends,
the bound on runs or calls is reached, and the system then rightly has nothing
to do.

Fairness. `Engine!Spec` has weak fairness on the engine's own steps: one
thread that waits for no other of its own, whose calls return or raise. It
assumes that PostgreSQL answers or that the connection breaks; psycopg2 sets no
timeout here, so a server that never answers would hold a run for ever, and that
is not modelled. `StartRun`, `Kill`, `SessionLost` and `FlushPart` have no
fairness. `ExecutionPlanner!Spec` has weak fairness on the whole call, and
`ExecutionLogger!Spec` on each thread's steps inside `record()`;
`threading.Lock` is not fair, but no thread calls `record()` for ever, so a
waiting thread is the only contender in the end. `DatabaseAdmin!Spec` has weak
fairness on each process's steps: a statement that another session blocks does
not wait but fails, and `psql` ends. `SqlxParser!Spec` and `Validation!Spec` have
weak fairness on their one thread. Clients, changes, faults and interruptions
have none. `HealthCheck!HealthSpec` has the engine's fairness and none for the
reader, which may be stopped anywhere for good; its properties are safety.

## 4. What the code does differently from its documentation

*A failure at the end of a transaction is not reported.* `executor.py:122-123`
calls `commit()` in the `else` block and `executor.py:102` calls `rollback()` in
the `except` block; neither call is covered by a handler. If they raise, the run
ends with a raw `psycopg2` error, no failure record, no `ExecutionFailure`, and
the connection is left to process exit. The proofs show what still holds: the run
has committed a prefix of its plan, and the log holds nothing false.

*A crash in the middle of a log write poisons later runs.* `_write` rewrites the
file in place. If the process dies in between, the file is empty (the history is
gone, later runs work) or torn (every later run commits its first step, then
fails in `record()`). `OnlyDisturbedRunsFail` shows that this is the only way a
run can fail without a fault of its own.

*What stands before a config block is dropped.* `parser.py:38` searches for the
block anywhere in the file, while the error message says that a file must open
with one. `KeepsTheRest` shows that nothing after the keyword is lost.

*An invalid stage is not always a `SQLXParseError`.* A list or an object as
`stage` cannot be looked up in a set, and the `TypeError` ends the run, where
`parser.py:30` promises `SQLXParseError` "for every failure mode". This is a
single call on a single value, and not a run of its own: `CheckConfig` of
`SqlxParser` has the exit.

*Validation cannot report what it finds missing.* A table or a schema file that is
not there is a FAIL in `validate_schema`; `validate_data` then needs the same
table or file and raises. Nothing is printed or written, and the report of an
earlier validation stays for the health check to show. `StatusCoversAll`,
`PassIsTrue` and `FailIsTrue` show what a status is worth when there is one.

*A malformed `.mcp.json` does not fall through.* `postgres.py:82` says that
`_try_mcp_config` never raises and that a malformed file falls through to the
environment; `engine/README.md:188` says so too. The code does that for a file
that is absent, empty or no JSON. JSON of another shape, and a server that is no
object, is an `AttributeError`; bytes that are not UTF-8 are a `ValueError`; a port
that `int()` refuses is a `ValueError`, `TypeError` or `OverflowError`, and `PGPORT`
may be a `ValueError` likewise. In a run of the engine, this ends the step in
hand before its SQL, and nothing is logged. The run `health_check_resolution` shows it
for a health check; `ResolvesInOrder` is what holds whenever the inputs are well
formed.

*A health check can raise.* `healthcheck.py:29` says that every check resolves to
a status and none raises. `check_connectivity` catches `EngineError` alone, so each
of the errors above ends the report; a plan whose stage is unhashable is a
`TypeError`, and a review report that is a list has no `get`. In each case no
report of the other checks is made. The actions of `HealthCheck` have these exits.

*An event log tells of all runs at once.* `generate_event_log.py:4` speaks of one
pipeline execution, but the log it counts holds every run since the file was last
lost, so a repaired failure stays in every later event log.
`EventLogIsHistory` is what can be relied on: the entries are genuine, without a
gap, and each is counted for what it left in the database.

## 5. What is proved

TLAPS proves the following for every value of the constants: any set of plans of
any length, any number of runs, writers, readers, calls and faults; any contents
of `.mcp.json` and of the environment; any text of a `.sqlx` file; any number of
admin processes and clients, and any lists of databases; any tables, files,
contents and changes of the databases. The assumptions are the
named `ASSUME`s: plan files are sequences of steps or raw files of the declared
shape, texts are sequences of tokens, `.mcp.json` and the environment are of the
shapes `ConnectionConfig` declares, the bounds are natural numbers, `NoWriter` is not a writer, lists of
databases hold databases of the server, the unmanaged ones are not the project's,
clients are not admin processes, there is a table to validate and none is listed
twice, a primary key may be a key of the source, NULL is none, and a UDF gives a
value for every argument.

| Module | Theorems |
|---|---|
| `ExecutionPlanner_proofs` | `TypeCorrect`, `PlannerAcceptsExactly`, `PlannerVerdictIsTrue` |
| `Engine_proofs` | `TypeCorrect`, `DependenciesFirst`, `RunsCommitAPrefix`, `LogNeverLies`, `FailureIsLast`, `UnreportedBound`, `CleanBoundaries`, `LogLosesOnlyThePast`, `SuccessMeansAll`, `FailuresHaveACause`, `EngineRefinesPipeline`, `RunsAreBounded` |
| `HealthCheck_proofs` | `RecordsInvariant`, `VerdictsAreTrue`, `VerdictsAtRest`, `EventLogRelays`, `ResolutionInOrder` |
| `ExecutionLogger_proofs` | `TypeCorrect`, `NothingIsLost`, `ReadersSeeHistory`, `LoggerRefinesLogBook` |
| `SqlxParser_proofs` | `TypeCorrect`, `FindsTheBlock`, `LosesNothing`, `ParsingEnds` |
| `DatabaseAdmin_proofs` | `TypeCorrect`, `ResetReplaces`, `OthersKept`, `ResetLeavesAllEmpty`, `PartsOfAReset`, `BootstrapDoesAll`, `OrderIsRight`, `CallsAreBounded` |
| `Validation_proofs` | `TypeCorrect`, `StatusOverAllChecks`, `PassHolds`, `FailHolds`, `CallsAreBounded` |

*Planner.* `AcceptsExactly` speaks of the verdict only, so the inductive
invariant adds what each loop has established so far: the steps parsed are a
prefix of those declared, the ids before `i` are distinct and are `seen`, the
dependencies before `(i, k)` are earlier steps.

*Engine.* No property is inductive by itself. `IInv` has four parts, each proved
with those before it: `TypeOK`; `Control`, what `pc` says of `status`, `outcome`,
`session` and `tx`; `Commits`, that the run has committed exactly the steps
before the one in hand, and that one too from the return of `commit()` on;
`Reports`, that every step before the one in hand has its success record and that
nothing false was logged. `AtMostOneUnreported` follows since only the step in
hand can be committed and not yet reported. A second invariant
(`LogContents`, `Blame`), proved from the first, says what the file and the
process's copy hold in each stage of `record()`, and who is to blame when a run
fails.

*Refinement.* Every step of the engine is mapped to one of `PipelineRun` or to a
stutter: `Commit` to `Apply`; every exit that raises, and `Kill`, to `Stop`,
with a commit in it when the outcome of `commit()` was unknown; everything else
changes nothing that `PipelineRun` shows. `AppliedIsPrefix` turns the invariant
into the guard of the abstract commit.

*Readers.* A reader's step is a stutter of the engine by the way `HealthSpec` is
built (the lemma `ReadersOnlyRead`), so the engine's invariants can be used in every
state a reader can meet. To them `Records`
adds what the log is worth to somebody who does not know how the runs went: no
step of a run has two records, and this run has none of a step it has not come
to; an absent log means that nothing was ever recorded, and a complete one is not
empty; once a run has raised `ExecutionFailure`, or is closing after a failure,
the log shows a failure.
The verdicts follow in the step that gives them. The counts of an event log are
cardinalities of sets of positions in the log, those of the property
cardinalities of sets of steps; since no step of a run is recorded twice, the
positions and the steps correspond one to one.

*Logger.* The invariant says what the local copy of the one thread inside the
lock holds, that the file always is a last stretch of the history, and, while
nothing has failed, that the stretch is the whole history.

*Database administration.* Over `TypeOK` and `Control` (what `pc` says of the
call, and that a call that is alone finds the others idle) there is one
invariant for each thing that a call builds up along its list: no database that a
reset has gone past is older than the call (`Renewed`); those younger than a
reset that is alone are the ones it has gone past, and only the one in hand can
be missing of these (`MadeSoFar`, with `BornInPast`: no database is younger than
the last call); those a reset that is
alone has gone past are there and empty (`EmptySoFar`); a bootstrap that is alone
has done every script before its place (`DoneSoFar`). The first survives every
interleaving, since a database is only ever replaced by a younger one. With
`DoneSoFar`, that the order of the steps is right is a fact about the constant
`BootstrapSteps` (`NeedsComeFirst`): what a step needs is an earlier step.

*Validation.* `Control` says where the call can be when a schema file is missing.
`Cover` counts the checks: those made are the ones the place in the code has
passed, each once, and the status, the report and the outcome agree; `Sought` adds
that the checks which not every table has were left out only of tables that
declare no reference, or that were counted empty. Both hold whatever changes
meanwhile. `Truth` holds while nothing has: each PASS and each
FAIL is true of the databases, what was read of the table in hand (staged and
counted rows, source and target rows) is what is there, and a check that was left
out had nothing to find. The status is the worst of the checks, so `PassIsTrue`
needs `Cover` for the checks that there are and `Truth` for what each is worth.

*Parser.* The grammar is a recursive function of a text, so the first thing to
prove is that there is such a function: `ContentEquation` says that `Content`
satisfies its definition, since what may stand in a stretch depends on shorter
stretches only. From there on the proof reads the text from the left.
`Rest(t, d, i, b)` says that the text from `i` on, with `d` braces open, can be
completed to a block that ends at `b`: there are places of the `d` closing
braces, with what the grammar allows between them. One lemma for each kind of
token says how `Rest` changes when the token is read (`RestPlain`,
`RestOpening`, `RestClosing`, `RestQuote`), that the closing brace of the last one open
ends the block (`RestLast`), and that nothing is left at the end of the text
(`RestEnd`). The changes are those that `find_matching_brace` makes of `depth`
and `i`, so the inductive invariant of the scan (`Scanning`) is that the block
that begins at `open` ends at `b` exactly if `Rest` does. In a literal it says
the same of what follows the literal, and that `escape` is the parity of the
backslashes read last (`EscapedNext`). `Matched` keeps the result: one `b` and
no other. `LosesNothing` adds what `strip()` leaves of the text after it
(`SqlAfter`), and that the keyword found is the first (`Found`) and has one
brace (`OneBrace`).

*Configuration.* `Resolved` says that while a reader is between the resolution and
the attempt to connect, `config` is what the search makes of `source`. The search of
`TryServers` is a recursive function of the position in `.mcp.json`; it has its
equation (`TryServersEquation`), so it returns what the first server says that
ends the search (`TryServersOf`): a server that is complete, or one the code
cannot get past. That server is the one that `Decides` (`ResolutionOf`).

`Common_proofs` holds what these proofs share: lemmas on plans and on stretches
of a growing sequence, the least and the greatest number of a set, induction as a
fact about a set of numbers, and `RecursiveFunction`, that a definition which
looks down a rank has a function that satisfies it. The library states the last
two with an operator as a parameter, which the provers cannot instantiate; here
they are proved from the well-ordering of the natural numbers, with sets and
functions as parameters.

*Bounds.* `RunEnds` and `CallEnds` say that a run and a call end, which
takes fairness. What the code itself contributes to that is proved: a number,
bounded by the length of the input, that every step of the call lowers and that
nothing else raises until the next call begins. So a run, a reset or a
validation that is scheduled and whose servers answer has to end, and nothing
that others do meanwhile sends it back.

| Call | Steps at most | Theorem |
|---|---|---|
| a run over a plan of n steps, once the plan is loaded | 8n + 2 | `RunsAreBounded` |
| `parse_sqlx` of a text of n tokens | n + 4 | `ParsingEnds` |
| `reset_databases` of n databases | 3n + 4 | `CallsAreBounded` of `DatabaseAdmin_proofs` |
| `run_bootstrap` (eight steps, three targets at most) | 58 | the same |
| a validation of n tables | 10n + 5 | `CallsAreBounded` of `Validation_proofs` |

There is no such number for `record()`: a thread waits for the lock as long as
others take it before.

Only model-checked: the liveness properties themselves (`RunEnds`,
`RecordReturns`, `CallEnds`), which need fairness and are out of the prover's
reach.

## 6. Not modelled

Timestamps, durations, row counts, SQL hashes, printed text and JSON layout; SQL
and what it does; the effect of `.env` loading. Components that are not
modelled, with the reason for each, are listed in `PROJECT.json`.

The contents of what the health check reads of the generator, the reviewer and
validation: these checks copy a status from a file, and a copy has no property of
its own. `collate_feedback.py` and `check_ticket_attachments.py` turn text into
text with regular expressions, once, and keep nothing. `check_setup.py` and
`setup_env.py` probe or prepare a machine. `MockDatabaseExecutor` is a test
double.

`Engine` and `DatabaseAdmin` are not composed over one server. All that a reset
does to a run is to end its session (`SessionLost` of `Engine`, at any moment), and
all that a run does to a reset is to hold or open one (`Clients` of
`DatabaseAdmin`, at any moment); each module has the other in its most general
form.

Of validation: what a type is. A column `differs` when `_pg_type_matches` returns
false; the code lets every type pass that it does not know by name, compares no
precision of a NUMERIC and no nullability, so a PASS says nothing of these. Also
not modelled: tables of one name in two schemas, several
computed columns and several foreign keys of one table, and tables without a
buildspec or a place in the schema. Of bootstrap: what a script that fails leaves
behind.

## 7. Plan

Done: plan and planner, engine with its refinement, logger, database
administration, parser, validation, connection configuration, health check and
event log, each with its runs; the proofs of all the safety properties that the
runs check and of the bounds on a run and on each kind of call.

Left, in this order:

1. Two schemas in one database with a table of one name (`validate.py:212`), whose
   columns the code merges.
2. The report of `Validation` beside `HealthCheck`, once a document says how old a
   report may be that a health check or an event log shows.
