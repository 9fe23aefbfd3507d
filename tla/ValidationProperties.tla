------------------------ MODULE ValidationProperties ------------------------
(***************************************************************************)
(* What a status of validate.py is worth.                                  *)
(***************************************************************************)
EXTENDS Validation

Statuses == {"PASS", "WARN", "FAIL"}
Places   == {"idle", "generation", "source", "target", "data", "staging", "rowcount",
             "duplicates", "notnull", "foreign key", "udf", "fetch", "compare",
             "aggregate", "write", "returned"}

\* The values the variables take; a call always has a table in hand.
TypeOK ==
  /\ files \in Files /\ db \in Databases
  /\ changes \in 0..MaxChanges /\ calls \in 0..MaxCalls
  /\ pc \in Places
  /\ k \in DOMAIN Tables
  /\ \A c \in checks : c[2] \in Statuses
  /\ staged \in Nat /\ counted \in Nat
  /\ src_rows \subseteq SourceRow
  /\ tgt_rows \in Seq(TargetRow)
  /\ empty \subseteq Table
  /\ outcome \in Statuses \cup {"none", "exception"}
  /\ report \in Statuses \cup {"none", "torn"}
  /\ undisturbed \in BOOLEAN
  /\ pc = "generation" => k = 1 /\ checks = {}

\* run() has come to an end with this status while nothing changed.
Says(status) == pc = "returned" /\ outcome = status /\ undisturbed

\* The source rows of t that a row of the target may come from.
Origins(t, row) == {s \in db[t].source : KeyOf(t, s) = row.key}

ValueIsRight(t, row) == \A s \in Origins(t, row) : row.value = Udf[s.arg]

\* No two source rows of t have the same key.
KeysDiffer(t) == \A r, s \in db[t].source : KeyOf(t, r) = KeyOf(t, s) => r = s

FilesAreGood == files.manifest /\ files.bad = {} /\ files.schemas = Side

Sound(t) ==
  /\ db[t].missing = {} /\ db[t].differs = {}
  /\ db[t].staged = Len(db[t].target)
  /\ UniqueKeys(t) /\ NoNulls(t)
  /\ \A u \in Referred(t) : Resolves(t, u)

\* PASS means that the project's files are good and each table is sound: it is
\* there with the declared columns, of types that _pg_type_matches has nothing
\* against (it knows some spellings, and asks neither for a precision nor for
\* NULL being allowed), and holds as many rows as were staged, with keys that
\* are unique and not NULL and with references that resolve.  And the UDF has
\* been tried on one row of it at least, with no row found wrong.
PassIsTrue ==
  Says("PASS") =>
    /\ FilesAreGood /\ files.doubtful = {}
    /\ \A t \in Table :
         /\ Sound(t)
         /\ \E n \in DOMAIN db[t].target : Origins(t, db[t].target[n]) # {}
         /\ KeysDiffer(t) =>
              \A n \in DOMAIN db[t].target : ValueIsRight(t, db[t].target[n])

\* FAIL is no false alarm: a file is bad, or some table is not sound or holds a
\* value that the UDF does not make of some source row with that key.
FailIsTrue ==
  Says("FAIL") =>
    \/ ~FilesAreGood
    \/ \E t \in Table :
         ~Sound(t) \/ \E n \in DOMAIN db[t].target : ~ValueIsRight(t, db[t].target[n])

Always == ({"source", "target", "rowcount", "notnull", "udf"} \X Table)
          \cup (Part \X {"project"})

\* A status is never given over checks that were not made: when run() returns,
\* whatever changed meanwhile, every part of the project and every table has
\* been judged once in each respect, references where it declares any and
\* duplicates unless it was empty when its rows were counted, and the report
\* says what run() returned.
StatusCoversAll ==
  pc = "returned" /\ outcome \in Statuses =>
    LET judged == {c[1] : c \in checks} IN
    /\ report = outcome
    /\ files.manifest => Always \subseteq judged
    /\ \A t \in Table : /\ t \notin empty => <<"duplicates", t>> \in judged
                        /\ Referred(t) # {} => <<"foreign key", t>> \in judged
    /\ \A c, d \in checks : c[1] = d[1] => c = d

\* Every call ends.
CallEnds == pc # "idle" ~> pc = "idle"

\* README.md says of /validate that it produces a PASS/WARN/FAIL report.  (A
\* missing table, manifest or schema file is found, as a FAIL, but the data
\* checks that follow raise because of the same thing, and the report on disk
\* stays what it was.)
FindingIsReported ==
  pc = "returned" /\ undisturbed /\ Has("FAIL") => report = "FAIL"
=============================================================================
