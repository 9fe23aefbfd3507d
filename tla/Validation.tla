----------------------------- MODULE Validation -----------------------------
(***************************************************************************)
(* engine/validate.py: calls of run() on a generated project and the three *)
(* databases it was loaded into, while others may change these.  Each SQL  *)
(* statement reads what is committed when it runs, so one call may see     *)
(* several states of the databases.                                        *)
(*                                                                         *)
(* A target table has a key (its primary key, NOT NULL), one column that a *)
(* UDF computes, and perhaps a reference to the key of another table.  It  *)
(* has a buildspec and a place in the target schema, and one table as its  *)
(* source.  (Where a UDF makes the key as well, its check cannot fail for  *)
(* a row that was found by that key, and is left out.)                     *)
(***************************************************************************)
EXTENDS Naturals, Sequences, FiniteSets

CONSTANTS Tables,     \* the tables, in the order of their buildspec files
          References, \* pairs of tables: the first declares a foreign key to the second
          Pk, Arg, Key, Value,  \* values of columns
          Null,
          KeyUdf,     \* the UDF that makes a key of a primary key of the source
          Udf,        \* the UDF of the computed column
          Worlds,     \* what the files and databases may be at the beginning
          Loads,      \* what the databases may become
          MaxCalls, MaxChanges

Table == {Tables[j] : j \in DOMAIN Tables}
Side  == {"source", "target"}

SourceRow == [pk : Pk, arg : Arg]
TargetRow == [key : Key \cup {Null}, value : Value, ref : Key \cup {Null}]

\* One table, from its source table over its staging table to the target.
Content == [missing : SUBSET {"source", "staging", "target"},  \* tables not there
            differs : SUBSET Side,  \* columns not there, or that _pg_type_matches refuses
            source  : SUBSET SourceRow,
            staged  : Nat,
            target  : Seq(TargetRow)]

Databases == [Table -> Content]

Part == {"artifacts", "buildspec schema", "order", "needs review", "drift"}

Files == [manifest : BOOLEAN,
          bad      : SUBSET (Part \ {"drift"}),  \* parts of the metadata that are wrong
          doubtful : SUBSET {"drift", "buildspec schema"},  \* changed since, not checkable
          broken   : BOOLEAN,            \* one of them is not JSON, or lacks a property
          schemas  : SUBSET Side,        \* the schema files that are there
          filters  : SUBSET Table,
          join     : [Table -> {"direct", "udf", "none"}]]

ASSUME TablesAssumption  ==
  /\ Tables \in Seq(STRING) /\ Tables # <<>>
  /\ \A i, j \in DOMAIN Tables : Tables[i] = Tables[j] => i = j
ASSUME UdfAssumption     == KeyUdf \in [Pk -> Key] /\ Udf \in [Arg -> Value]
ASSUME NullAssumption    == Null \notin Key
ASSUME PkAssumption      == Pk \subseteq Key   \* a key may be the source's own
ASSUME ReferencesAssumption == References \subseteq Table \X Table
ASSUME WorldsAssumption ==
  \A w \in Worlds : DOMAIN w = {"files", "db"} /\ w.files \in Files /\ w.db \in Databases
ASSUME LoadsAssumption   == Loads \subseteq Databases
ASSUME BoundsAssumption  == MaxCalls \in Nat /\ MaxChanges \in Nat

VARIABLES files, db, changes,
          pc,       \* what the call does next
          k,        \* the table in hand
          checks,   \* the checks so far: pairs of what was checked and the status
          staged, counted, src_rows, tgt_rows,  \* what was read of the table in hand
          outcome,  \* the status run() returned, or "exception"
          report,   \* the report file: its status, "none" or "torn"
          calls,
          empty,        \* history: the tables that this call has counted no row of
          undisturbed   \* history: since the call began nothing has changed or failed

world   == <<files, db, changes>>
results == <<staged, counted, src_rows, tgt_rows, empty>>
vars    == <<world, pc, k, checks, results, outcome, report, calls, undisturbed>>

Init ==
  /\ \E w \in Worlds : files = w.files /\ db = w.db
  /\ changes = 0
  /\ pc = "idle" /\ k = 1 /\ checks = {} /\ outcome = "none"
  /\ staged = 0 /\ counted = 0 /\ src_rows = {} /\ tgt_rows = <<>> /\ empty = {}
  /\ report = "none"
  /\ calls = 0
  /\ undisturbed = TRUE

T == Tables[k]     \* the table in hand

Working == pc \notin {"idle", "returned"}

Note(what, about, status) == checks' = checks \cup {<<<<what, about>>, status>>}

Judge(what, about, good) == Note(what, about, IF good THEN "PASS" ELSE "FAIL")

Begin ==
  /\ pc = "idle"
  /\ calls < MaxCalls
  /\ calls' = calls + 1
  /\ pc' = "generation" /\ k' = 1 /\ checks' = {} /\ outcome' = "none"
  /\ staged' = 0 /\ counted' = 0 /\ src_rows' = {} /\ tgt_rows' = <<>> /\ empty' = {}
  /\ undisturbed' = TRUE
  /\ UNCHANGED <<world, report>>

-----------------------------------------------------------------------------
(* validate_generation: files only.  A part that is checked in several       *)
(* places is bad if one of them is.                                          *)

PartStatus(part) ==
  IF part \in files.doubtful THEN "WARN" ELSE IF part \in files.bad THEN "FAIL" ELSE "PASS"

ValidateGeneration ==
  /\ pc = "generation"
  /\ \/ ~files.manifest /\ Note("manifest", "project", "FAIL")
     \/ /\ files.manifest /\ ~files.broken
        /\ checks' = {<<<<part, "project">>, PartStatus(part)>> : part \in Part}
  /\ pc' = "source"
  /\ UNCHANGED <<world, k, results, outcome, report, calls, undisturbed>>

-----------------------------------------------------------------------------
(* validate_schema, for the source and then for the target *)

After(side) == IF side = "source" THEN "target" ELSE "data"

NoSchemaFile(side) ==
  /\ pc = side
  /\ side \notin files.schemas
  /\ Note("schema", side, "FAIL")
  /\ pc' = After(side)
  /\ UNCHANGED <<world, k, results, outcome, report, calls, undisturbed>>

\* A table that is not there fails its check, and the loop goes on.
ValidateSchema(side) ==
  /\ pc = side
  /\ side \in files.schemas
  /\ Judge(side, T, side \notin db[T].missing \cup db[T].differs)
  /\ IF k < Len(Tables) THEN k' = k + 1 /\ UNCHANGED pc
                        ELSE k' = 1 /\ pc' = After(side)
  /\ UNCHANGED <<world, results, outcome, report, calls, undisturbed>>

-----------------------------------------------------------------------------
(* validate_data *)

OpenData ==
  /\ pc = "data"
  /\ files.schemas = Side
  /\ pc' = "staging"
  /\ UNCHANGED <<world, k, checks, results, outcome, report, calls, undisturbed>>

CountStaging ==
  /\ pc = "staging"
  /\ "staging" \notin db[T].missing
  /\ staged' = db[T].staged
  /\ pc' = "rowcount"
  /\ UNCHANGED <<world, k, checks, counted, src_rows, tgt_rows, empty, outcome, report, calls,
                 undisturbed>>

HasTarget == "target" \notin db[T].missing

CountTarget ==
  /\ pc = "rowcount" /\ HasTarget
  /\ counted' = Len(db[T].target)
  /\ empty' = IF counted' = 0 THEN empty \cup {T} ELSE empty
  /\ IF T \in files.filters THEN Note("rowcount", T, "WARN")
                            ELSE Judge("rowcount", T, staged = counted')
  /\ pc' = "duplicates"
  /\ UNCHANGED <<world, k, staged, src_rows, tgt_rows, outcome, report, calls, undisturbed>>

UniqueKeys(t) ==
  \A m, n \in DOMAIN db[t].target : db[t].target[m].key = db[t].target[n].key => m = n

\* Not asked of a table that was empty when it was counted.
Duplicates ==
  /\ pc = "duplicates" /\ HasTarget
  /\ IF counted > 0 THEN Judge("duplicates", T, UniqueKeys(T)) ELSE UNCHANGED checks
  /\ pc' = "notnull"
  /\ UNCHANGED <<world, k, results, outcome, report, calls, undisturbed>>

NoNulls(t) == \A n \in DOMAIN db[t].target : db[t].target[n].key # Null

NotNull ==
  /\ pc = "notnull" /\ HasTarget
  /\ Judge("notnull", T, NoNulls(T))
  /\ pc' = "foreign key"
  /\ UNCHANGED <<world, k, results, outcome, report, calls, undisturbed>>

Referred(t) == {u \in Table : <<t, u>> \in References}

Resolves(t, u) ==
  \A n \in DOMAIN db[t].target :
    db[t].target[n].ref # Null =>
      \E m \in DOMAIN db[u].target : db[u].target[m].key = db[t].target[n].ref

\* Mutant of ForeignKey: rows whose reference is NULL are counted as orphans.
ForeignKeyNullIsOrphan ==
  /\ pc = "foreign key" /\ HasTarget
  /\ \A u \in Referred(T) : "target" \notin db[u].missing
  /\ IF Referred(T) = {} THEN UNCHANGED checks
     ELSE Judge("foreign key", T,
                \A u \in Referred(T) : \A n \in DOMAIN db[T].target :
                  \E m \in DOMAIN db[u].target : db[u].target[m].key = db[T].target[n].ref)
  /\ pc' = "udf"
  /\ UNCHANGED <<world, k, results, outcome, report, calls, undisturbed>>

ForeignKey ==
  /\ pc = "foreign key" /\ HasTarget
  /\ \A u \in Referred(T) : "target" \notin db[u].missing
  /\ IF Referred(T) = {} THEN UNCHANGED checks
     ELSE Judge("foreign key", T, \A u \in Referred(T) : Resolves(T, u))
  /\ pc' = "udf"
  /\ UNCHANGED <<world, k, results, outcome, report, calls, undisturbed>>

\* Mutant of NextTable: the loop goes on after the last table.
NextTableRunsOver ==
  IF k <= Len(Tables) THEN k' = k + 1 /\ pc' = "staging"
                      ELSE UNCHANGED k /\ pc' = "aggregate"

NextTable ==
  IF k < Len(Tables) THEN k' = k + 1 /\ pc' = "staging"
                     ELSE UNCHANGED k /\ pc' = "aggregate"

\* Mutant of NoJoinKey: the loop over the tables ends.
NoJoinKeyEndsLoop ==
  /\ pc = "udf"
  /\ files.join[T] = "none"
  /\ Note("udf", T, "WARN")
  /\ pc' = "aggregate"
  /\ UNCHANGED <<world, k, results, outcome, report, calls, undisturbed>>

NoJoinKey ==
  /\ pc = "udf"
  /\ files.join[T] = "none"
  /\ Note("udf", T, "WARN")
  /\ NextTable
  /\ UNCHANGED <<world, results, outcome, report, calls, undisturbed>>

FetchSource ==
  /\ pc = "udf"
  /\ files.join[T] # "none"
  /\ "source" \notin db[T].missing
  /\ src_rows' = db[T].source
  /\ pc' = "fetch"
  /\ UNCHANGED <<world, k, checks, staged, counted, tgt_rows, empty, outcome, report, calls,
                 undisturbed>>

FetchTarget ==
  /\ pc = "fetch" /\ HasTarget
  /\ tgt_rows' = db[T].target
  /\ pc' = "compare"
  /\ UNCHANGED <<world, k, checks, staged, counted, src_rows, empty, outcome, report, calls,
                 undisturbed>>

\* The key a source row should have in the target.
KeyOf(t, row) == IF files.join[t] = "direct" THEN row.pk ELSE KeyUdf[row.pk]

\* The dictionaries that the rows may make, which come in any order: of rows
\* with the same key the last one stays.
SourceByKey(t, rows) ==
  {f \in [{KeyOf(t, row) : row \in rows} -> rows] : \A key \in DOMAIN f : KeyOf(t, f[key]) = key}

\* Mutant of Compare: a column of which no row could be compared passes.
CompareNothingPasses ==
  /\ pc = "compare"
  /\ \E by_key \in SourceByKey(T, src_rows) :
       LET checked    == {n \in DOMAIN tgt_rows : tgt_rows[n].key \in DOMAIN by_key}
           mismatches == {n \in checked : tgt_rows[n].value # Udf[by_key[tgt_rows[n].key].arg]}
       IN  Judge("udf", T, mismatches = {})
  /\ NextTable
  /\ UNCHANGED <<world, results, outcome, report, calls, undisturbed>>

\* A target row whose source row is not found is passed over.
Compare ==
  /\ pc = "compare"
  /\ \E by_key \in SourceByKey(T, src_rows) :
       LET checked    == {n \in DOMAIN tgt_rows : tgt_rows[n].key \in DOMAIN by_key}
           mismatches == {n \in checked : tgt_rows[n].value # Udf[by_key[tgt_rows[n].key].arg]}
       IN  Note("udf", T, IF mismatches # {} THEN "FAIL"
                          ELSE IF checked = {} THEN "WARN" ELSE "PASS")
  /\ NextTable
  /\ UNCHANGED <<world, results, outcome, report, calls, undisturbed>>

-----------------------------------------------------------------------------
Has(status) == \E c \in checks : c[2] = status

Status == IF Has("FAIL") THEN "FAIL" ELSE IF Has("WARN") THEN "WARN" ELSE "PASS"

\* write_text empties the file first.
OpenReport ==
  /\ pc = "aggregate"
  /\ report' = "torn"
  /\ pc' = "write"
  /\ UNCHANGED <<world, k, checks, results, outcome, calls, undisturbed>>

WriteReport ==
  /\ pc = "write"
  /\ report' = Status
  /\ outcome' = Status
  /\ pc' = "returned"
  /\ UNCHANGED <<world, k, checks, results, calls, undisturbed>>

\* What the call needs next is not there.
Lacking ==
  \/ pc = "generation" /\ files.manifest /\ files.broken
  \/ pc = "data" /\ files.schemas # Side
  \/ pc = "staging" /\ "staging" \in db[T].missing
  \/ pc \in {"rowcount", "duplicates", "notnull", "foreign key", "fetch"} /\ ~HasTarget
  \/ pc = "foreign key" /\ \E u \in Referred(T) : "target" \in db[u].missing
  \/ pc = "udf" /\ files.join[T] # "none" /\ "source" \in db[T].missing

\* Mutant of Raise: the data checks are begun again.
RaiseAndBeginAgain ==
  /\ Lacking
  /\ pc' = "data"
  /\ UNCHANGED <<world, k, checks, results, outcome, report, calls, undisturbed>>

\* No handler in run() or in main() for what is not an EngineError.
Raise ==
  /\ Lacking
  /\ pc' = "returned"
  /\ outcome' = "exception"
  /\ UNCHANGED <<world, k, checks, results, report, calls, undisturbed>>

\* The configuration, a connection, a statement or a file operation fails.
Fault ==
  /\ Working
  /\ pc' = "returned"
  /\ outcome' = "exception"
  /\ undisturbed' = FALSE
  /\ UNCHANGED <<world, k, checks, results, report, calls>>

Main ==
  /\ pc = "returned"
  /\ pc' = "idle"
  /\ UNCHANGED <<world, k, checks, results, outcome, report, calls, undisturbed>>

\* The process dies.
Kill ==
  /\ Working
  /\ pc' = "idle"
  /\ undisturbed' = FALSE
  /\ UNCHANGED <<world, k, checks, results, outcome, report, calls>>

\* Someone commits a load, resets the databases or drops a table.
Change ==
  /\ changes < MaxChanges
  /\ changes' = changes + 1
  /\ db' \in Loads /\ db' # db
  /\ undisturbed' = FALSE
  /\ UNCHANGED <<files, pc, k, checks, results, outcome, report, calls>>

Validate ==
  \/ ValidateGeneration
  \/ \E side \in Side : NoSchemaFile(side) \/ ValidateSchema(side)
  \/ OpenData \/ CountStaging \/ CountTarget \/ Duplicates \/ NotNull \/ ForeignKey
  \/ NoJoinKey \/ FetchSource \/ FetchTarget \/ Compare
  \/ OpenReport \/ WriteReport \/ Raise \/ Main

Next == Validate \/ Begin \/ Fault \/ Kill \/ Change

\* One thread; PostgreSQL answers, or the connection breaks.
Spec == Init /\ [][Next]_vars /\ WF_vars(Validate)
=============================================================================
