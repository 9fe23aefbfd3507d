-------------------------- MODULE Validation_proofs --------------------------
(***************************************************************************)
(* What a status of validate.py is worth, for any tables, files, contents  *)
(* and changes of the databases, and any number of calls.                  *)
(*                                                                         *)
(* Cover says which checks have been made when the call is at pc with      *)
(* table k in hand, and that none is made twice.  Truth ties each check to *)
(* the databases as long as nothing has changed.                           *)
(***************************************************************************)
EXTENDS ValidationProperties, TLAPS

Loop == {"staging", "rowcount", "duplicates", "notnull", "foreign key", "udf", "fetch", "compare"}

\* The call has made all its checks.
Over == pc \in {"aggregate", "write"} \/ (pc = "returned" /\ outcome \in Statuses)
Live == Working \/ Over

Control ==
  /\ pc = "data" => k = 1
  /\ \A sd \in Side : pc = sd /\ sd \notin files.schemas => k = 1
  /\ pc \in Loop \/ Over => files.schemas = Side
-----------------------------------------------------------------------------
LEMMA HandedTable ==
  ASSUME TypeOK
  PROVE  /\ T \in Table /\ 1 \in DOMAIN Tables
         /\ db[T].source \subseteq SourceRow /\ db[T].staged \in Nat
         /\ db[T].target \in Seq(TargetRow)
<1>1. 1 \in DOMAIN Tables
  BY TablesAssumption
<1>2. T \in Table
  BY DEF TypeOK, T, Table
<1>3. db[T] \in Content
  BY <1>2 DEF TypeOK, Databases
<1> QED
  BY <1>1, <1>2, <1>3 DEF Content

LEMMA TableNumbers ==
  /\ Len(Tables) \in Nat \ {0} /\ DOMAIN Tables = 1..Len(Tables) /\ 1 \in DOMAIN Tables
  /\ \A i, j \in DOMAIN Tables : Tables[i] = Tables[j] => i = j
BY TablesAssumption

LEMMA TableInHand ==
  ASSUME TypeOK
  PROVE  k \in 1..Len(Tables) /\ (k < Len(Tables) => k + 1 \in DOMAIN Tables)
<1>1. k \in DOMAIN Tables
  BY DEF TypeOK
<1> QED
  BY <1>1, TableNumbers

LEMMA ChangesBounded ==
  ASSUME TypeOK, Change
  PROVE  changes' \in 0..MaxChanges
<1>1. changes \in 0..MaxChanges /\ changes < MaxChanges /\ changes' = changes + 1
  BY DEF TypeOK, Change
<1> QED
  BY <1>1, BoundsAssumption

LEMMA FirstState == Init => TypeOK /\ Control
<1> SUFFICES ASSUME Init PROVE TypeOK /\ Control
  OBVIOUS
<1>1. 1 \in DOMAIN Tables
  BY TablesAssumption
<1>2. files \in Files /\ db \in Databases
  BY WorldsAssumption DEF Init
<1>3. <<>> \in Seq(TargetRow)
  OBVIOUS
<1> QED
  BY <1>1, <1>2, <1>3, BoundsAssumption DEF Init, TypeOK, Control, Places, Statuses, Loop, Over

LEMMA NoteStatus ==
  ASSUME \A c \in checks : c[2] \in Statuses, NEW what, NEW about
  PROVE  /\ \A status \in Statuses : Note(what, about, status) => \A c \in checks' : c[2] \in Statuses
         /\ \A good : Judge(what, about, good) => \A c \in checks' : c[2] \in Statuses
<1>1. ASSUME NEW status \in Statuses, Note(what, about, status)
      PROVE  \A c \in checks' : c[2] \in Statuses
  BY <1>1 DEF Note
<1> QED
  BY <1>1 DEF Judge, Statuses

\* Types and control go together.
LEMMA TypeStep ==
  ASSUME TypeOK, Control, [Next]_vars
  PROVE  TypeOK' /\ Control'
<1> USE BoundsAssumption DEF Control, Loop, Over, Places, Side, world, results
<1>k. 1 \in DOMAIN Tables /\ Len(Tables) \in Nat /\ DOMAIN Tables = 1..Len(Tables)
  BY TableNumbers
<1>c. k \in DOMAIN Tables /\ changes \in 0..MaxChanges /\ \A c \in checks : c[2] \in Statuses
  BY DEF TypeOK
<1>n. k \in 1..Len(Tables) /\ (k < Len(Tables) => k + 1 \in DOMAIN Tables)
  BY TableInHand
<1>1. CASE Begin
  BY <1>1, <1>k DEF Begin, TypeOK, Statuses
<1>2. CASE ValidateGeneration
  <2>1. \A c \in checks' : c[2] \in Statuses
    <3>1. CASE Note("manifest", "project", "FAIL")
      BY <3>1, <1>c, NoteStatus DEF Statuses
    <3>2. CASE ~Note("manifest", "project", "FAIL")
      BY <1>2, <3>2 DEF ValidateGeneration, PartStatus, Statuses
    <3> QED
      BY <3>1, <3>2
  <2> QED
    BY <1>2, <2>1 DEF ValidateGeneration, TypeOK
<1>3. ASSUME NEW side \in Side, NoSchemaFile(side)
      PROVE  TypeOK' /\ Control'
  <2>1. \A c \in checks' : c[2] \in Statuses
    BY <1>c, <1>3, NoteStatus DEF NoSchemaFile, Statuses
  <2>2. k' = k /\ pc' \in {"target", "data"} /\ UNCHANGED <<world, results, outcome, report, calls, undisturbed>>
    BY <1>3 DEF NoSchemaFile, After
  <2>3. TypeOK'
    BY <2>1, <2>2 DEF TypeOK
  <2>4. k = 1
    BY <1>3 DEF NoSchemaFile
  <2>5. Control'
    BY <2>2, <2>4
  <2> QED
    BY <2>3, <2>5
<1>4. ASSUME NEW side \in Side, ValidateSchema(side)
      PROVE  TypeOK' /\ Control'
  <2>1. \A c \in checks' : c[2] \in Statuses
    BY <1>c, <1>4, NoteStatus DEF ValidateSchema
  <2>2. k' \in DOMAIN Tables /\ pc' \in {side, "target", "data"} /\ (pc' # side => k' = 1)
    BY <1>k, <1>n, <1>4 DEF ValidateSchema, After
  <2>3. UNCHANGED <<world, results, outcome, report, calls, undisturbed>> /\ side \in files.schemas
    BY <1>4 DEF ValidateSchema
  <2>4. TypeOK'
    BY <2>1, <2>2, <2>3 DEF TypeOK
  <2> QED
    BY <2>2, <2>3, <2>4
<1>5. CASE OpenData
  BY <1>5 DEF OpenData, TypeOK
<1>6. CASE CountStaging
  <2>1. staged' \in Nat
    BY <1>6, HandedTable DEF CountStaging
  <2> QED
    BY <1>6, <2>1 DEF CountStaging, TypeOK
<1>7. CASE CountTarget
  <2>1. counted' \in Nat /\ empty' \subseteq Table
    BY <1>7, HandedTable DEF CountTarget, TypeOK
  <2>2. \A c \in checks' : c[2] \in Statuses
    BY <1>c, <1>7, NoteStatus DEF CountTarget, Statuses
  <2> QED
    BY <1>7, <2>1, <2>2 DEF CountTarget, TypeOK
<1>8. CASE Duplicates \/ NotNull \/ ForeignKey
  <2>1. \A c \in checks' : c[2] \in Statuses
    BY <1>c, <1>8, NoteStatus DEF Duplicates, NotNull, ForeignKey
  <2>2. /\ pc \in Loop /\ pc' \in {"notnull", "foreign key", "udf"}
        /\ UNCHANGED <<world, k, results, outcome, report, calls, undisturbed>>
    BY <1>8 DEF Duplicates, NotNull, ForeignKey
  <2> QED
    BY <2>1, <2>2 DEF TypeOK
<1>9. CASE NoJoinKey \/ Compare
  <2>1. \A c \in checks' : c[2] \in Statuses
    <3>1. CASE NoJoinKey
      BY <1>c, <3>1, NoteStatus DEF NoJoinKey, Statuses
    <3>2. CASE Compare
      <4>1. \E status \in Statuses : Note("udf", T, status)
        BY <3>2 DEF Compare, Statuses
      <4> QED
        BY <1>c, <4>1, NoteStatus
    <3> QED
      BY <1>9, <3>1, <3>2
  <2>2. k' \in DOMAIN Tables /\ pc' \in {"staging", "aggregate"}
    BY <1>k, <1>n, <1>9 DEF NoJoinKey, Compare, NextTable
  <2>3. /\ pc \in Loop
        /\ UNCHANGED <<world, results, outcome, report, calls, undisturbed>>
    BY <1>9 DEF NoJoinKey, Compare
  <2> QED
    BY <2>1, <2>2, <2>3 DEF TypeOK
<1>10. CASE FetchSource \/ FetchTarget
  <2>1. src_rows' \subseteq SourceRow /\ tgt_rows' \in Seq(TargetRow)
    BY <1>10, HandedTable DEF FetchSource, FetchTarget, TypeOK
  <2> QED
    BY <1>10, <2>1 DEF FetchSource, FetchTarget, TypeOK
<1>11. CASE OpenReport \/ WriteReport
  BY <1>11 DEF OpenReport, WriteReport, TypeOK, Status, Statuses
<1>12. CASE Raise \/ Fault
  BY <1>12 DEF Raise, Fault, TypeOK, Statuses
<1>13. CASE Main \/ Kill
  BY <1>13 DEF Main, Kill, TypeOK
<1>14. CASE Change
  <2>1. db' \in Databases
    BY <1>14, LoadsAssumption DEF Change
  <2>2. changes' \in 0..MaxChanges
    BY <1>14, ChangesBounded
  <2>3. undisturbed' = FALSE /\ UNCHANGED <<files, pc, k, checks, results, outcome, report, calls>>
    BY <1>14 DEF Change
  <2> QED
    BY <2>1, <2>2, <2>3 DEF TypeOK
<1>15. CASE UNCHANGED vars
  BY <1>15 DEF vars, TypeOK
<1>16. CASE Validate
  BY <1>2, <1>3, <1>4, <1>5, <1>6, <1>7, <1>8, <1>9, <1>10, <1>11, <1>12, <1>13, <1>16 DEF Validate
<1> QED
  BY <1>1, <1>12, <1>13, <1>14, <1>15, <1>16 DEF Next
-----------------------------------------------------------------------------
(* The checks made so far *)

Data     == {"rowcount", "duplicates", "notnull", "foreign key", "udf"}
What     == Side \cup Data
Optional == {"duplicates", "foreign key"}     \* not of every table

\* The places of the loop at which this check of the table in hand is behind.
Beyond(what) ==
  CASE what = "rowcount"    -> {"duplicates", "notnull", "foreign key", "udf", "fetch", "compare"}
    [] what = "duplicates"  -> {"notnull", "foreign key", "udf", "fetch", "compare"}
    [] what = "notnull"     -> {"foreign key", "udf", "fetch", "compare"}
    [] what = "foreign key" -> {"udf", "fetch", "compare"}
    [] what = "udf"         -> {}

\* The call is past this check of table j.
Reached(what, j) ==
  \/ Over
  \/ what = "source" /\ ((pc = "source" /\ j < k) \/ pc \in {"target", "data"} \cup Loop)
  \/ what = "target" /\ ((pc = "target" /\ j < k) \/ pc \in {"data"} \cup Loop)
  \/ what \in Data /\ pc \in Loop /\ (j < k \/ (j = k /\ pc \in Beyond(what)))

\* The call is past this side's schema.
Gone(side) == pc \notin {"generation", "source"} /\ (pc = "target" => side = "source")

Judged(what, about) == \E c \in checks : c[1] = <<what, about>>

Once == \A c, d \in checks : c[1] = d[1] => c = d

OfProject(c) ==
  \/ c[1] = <<"manifest", "project">> /\ ~files.manifest
  \/ \E part \in Part : c[1] = <<part, "project">>
OfSchema(c)  == \E side \in Side : c[1] = <<"schema", side>> /\ Gone(side) /\ side \notin files.schemas
OfTable(c)   == \E what \in What, j \in DOMAIN Tables : c[1] = <<what, Tables[j]>> /\ Reached(what, j)

Made == \A c \in checks : OfProject(c) \/ OfSchema(c) \/ OfTable(c)

Complete ==
  /\ \A what \in What \ Optional, j \in DOMAIN Tables :
       Reached(what, j) /\ (what \in Side => what \in files.schemas) => Judged(what, Tables[j])
  /\ pc # "generation" /\ files.manifest => \A part \in Part : Judged(part, "project")
  /\ pc # "generation" /\ ~files.manifest => Judged("manifest", "project")

Reported == pc = "returned" => outcome = Status /\ report = Status

Cover == Live => Once /\ Made /\ Complete /\ Reported

\* A check of the table in hand is made, or left out as it may be.
LEMMA CheckOfTable ==
  ASSUME TypeOK, Cover, Live, files' = files,
         NEW what \in What, NEW status \in Statuses,
         checks' = checks \cup {<<<<what, T>>, status>>} \/ (what \in Optional /\ checks' = checks),
         ~Reached(what, k),
         \A w \in What, j \in DOMAIN Tables : Reached(w, j)' <=> Reached(w, j) \/ (w = what /\ j = k),
         \A side \in Side : Gone(side) => Gone(side)',
         pc # "generation", pc' \notin {"generation", "returned"}
  PROVE  Cover'
<1> DEFINE new == <<<<what, T>>, status>>
<1>k. k \in DOMAIN Tables /\ T = Tables[k]
  BY DEF TypeOK, T
<1>u. Once /\ Made /\ Complete
  BY DEF Cover
<1>a. \A c \in checks' : c \in checks \/ c = new
  OBVIOUS
<1>b. \A c \in checks : c \in checks'
  OBVIOUS
<1>c. what \notin Optional => new \in checks'
  OBVIOUS
<1>n. new[1] = <<what, T>>
  OBVIOUS
<1>f. \A c \in checks : c[1] # <<what, T>>
  <2> SUFFICES ASSUME NEW c \in checks, c[1] = <<what, T>> PROVE FALSE
    OBVIOUS
  <2>1. ~OfProject(c)
    <3>1. ASSUME NEW part \in Part \cup {"manifest"}, c[1] = <<part, "project">>
          PROVE  FALSE
      <4>1. part = what
        BY <3>1
      <4> QED
        BY <4>1 DEF Part, What, Side, Data
    <3> QED
      BY <3>1 DEF OfProject
  <2>2. ~OfSchema(c)
    <3>1. ASSUME NEW side \in Side, c[1] = <<"schema", side>>
          PROVE  FALSE
      <4>1. what = "schema"
        BY <3>1
      <4> QED
        BY <4>1 DEF What, Side, Data
    <3> QED
      BY <3>1 DEF OfSchema
  <2>3. PICK w \in What, j \in DOMAIN Tables : c[1] = <<w, Tables[j]>> /\ Reached(w, j)
    BY <1>u, <2>1, <2>2 DEF Made, OfTable
  <2>4. w = what /\ Tables[j] = Tables[k]
    BY <1>k, <2>3
  <2> QED
    BY <1>k, <2>3, <2>4, TableNumbers
<1> HIDE DEF new
<1>1. Once'
  BY <1>a, <1>f, <1>n, <1>u DEF Once
<1>2. Made'
  <2> SUFFICES ASSUME NEW c \in checks' PROVE OfProject(c)' \/ OfSchema(c)' \/ OfTable(c)'
    BY DEF Made
  <2>1. CASE c \in checks
    <3>1. OfProject(c) => OfProject(c)'
      BY DEF OfProject
    <3>2. OfSchema(c) => OfSchema(c)'
      BY DEF OfSchema
    <3>3. OfTable(c) => OfTable(c)'
      BY DEF OfTable
    <3> QED
      BY <1>u, <2>1, <3>1, <3>2, <3>3 DEF Made
  <2>2. CASE c = new
    BY <1>k, <1>n, <2>2 DEF OfTable
  <2> QED
    BY <1>a, <2>1, <2>2
<1>j. \A w, about : Judged(w, about) => Judged(w, about)'
  BY <1>b DEF Judged
<1>3. Complete'
  <2>1. what \notin Optional => \E c \in checks' : c[1] = <<what, T>>
    BY <1>c, <1>n
  <2>2. ASSUME NEW w \in What \ Optional, NEW j \in DOMAIN Tables, Reached(w, j)',
               w \in Side => w \in files'.schemas
        PROVE  Judged(w, Tables[j])'
    <3>1. CASE Reached(w, j)
      BY <1>j, <1>u, <2>2, <3>1 DEF Complete
    <3>2. CASE w = what /\ j = k
      BY <1>k, <2>1, <2>2, <3>2 DEF Judged
    <3> QED
      BY <2>2, <3>1, <3>2
  <2> QED
    BY <1>j, <1>u, <2>2 DEF Complete
<1> QED
  BY <1>1, <1>2, <1>3 DEF Cover, Reported

\* The call goes on without a check.
LEMMA NoCheck ==
  ASSUME Cover, Live, files' = files, checks' = checks,
         \A w \in What, j \in DOMAIN Tables : Reached(w, j)' <=> Reached(w, j),
         \A side \in Side : Gone(side) => Gone(side)',
         pc # "generation", pc' # "generation", Reported'
  PROVE  Cover'
<1>u. Once /\ Made /\ Complete
  BY DEF Cover
<1>1. Once'
  BY <1>u DEF Once
<1>2. \A c : /\ OfProject(c) => OfProject(c)'
             /\ OfSchema(c) => OfSchema(c)'
             /\ OfTable(c) => OfTable(c)'
  BY DEF OfProject, OfSchema, OfTable
<1>3. Made'
  BY <1>u, <1>2 DEF Made
<1>4. \A w, about : Judged(w, about)' <=> Judged(w, about)
  BY DEF Judged
<1>5. Complete'
  BY <1>u, <1>4 DEF Complete
<1> QED
  BY <1>1, <1>3, <1>5 DEF Cover

\* Where the places of the loop lead.
LEMMA LoopOrder ==
  ASSUME TypeOK, k' = k, pc \in Loop, pc' \in Loop
  PROVE  /\ \A side \in Side : Gone(side) => Gone(side)'
         /\ \A w \in Side, j \in DOMAIN Tables : Reached(w, j) /\ Reached(w, j)'
         /\ \A w \in Data, j \in DOMAIN Tables :
              /\ Reached(w, j)  <=> j < k \/ (j = k /\ pc \in Beyond(w))
              /\ Reached(w, j)' <=> j < k \/ (j = k /\ pc' \in Beyond(w))
<1>1. ~Over /\ ~Over'
  BY DEF Over, Loop
<1>2. \A side \in Side : Gone(side) => Gone(side)'
  BY DEF Gone, Loop
<1>3. \A w \in Side, j \in DOMAIN Tables : Reached(w, j) /\ Reached(w, j)'
  BY DEF Reached, Side
<1>4. \A w \in Data : w # "source" /\ w # "target"
  BY DEF Data
<1>5. \A w \in Data, j \in DOMAIN Tables :
        /\ Reached(w, j)  <=> j < k \/ (j = k /\ pc \in Beyond(w))
        /\ Reached(w, j)' <=> j < k' \/ (j = k' /\ pc' \in Beyond(w))
  BY <1>1, <1>4 DEF Reached
<1> QED
  BY <1>2, <1>3, <1>5

LEMMA NextTableReached ==
  ASSUME TypeOK, NextTable, pc \in {"udf", "compare"}
  PROVE  /\ \A side \in Side : Gone(side) => Gone(side)'
         /\ \A w \in What, j \in DOMAIN Tables :
              Reached(w, j)' <=> Reached(w, j) \/ (w = "udf" /\ j = k)
         /\ ~Reached("udf", k)
         /\ pc' \in {"staging", "aggregate"}
<1>1. ~Over /\ pc \in Loop
  BY DEF Over, Loop
<1>2. pc' \in {"staging", "aggregate"}
  BY DEF NextTable
<1>3. \A side \in Side : Gone(side) => Gone(side)'
  BY <1>2 DEF Gone
<1>4. k \in 1..Len(Tables) /\ DOMAIN Tables = 1..Len(Tables) /\ Len(Tables) \in Nat
  BY TableInHand, TableNumbers
<1>5. ~Reached("udf", k)
  BY <1>1, <1>4 DEF Reached, Beyond, Data
<1>6. ASSUME NEW w \in Side, NEW j \in DOMAIN Tables
      PROVE  Reached(w, j) /\ Reached(w, j)'
  BY <1>1, <1>2 DEF Reached, Side, Loop, Over
<1>7. ASSUME NEW w \in Data, NEW j \in DOMAIN Tables
      PROVE  Reached(w, j)' <=> Reached(w, j) \/ (w = "udf" /\ j = k)
  <2>1. Reached(w, j) <=> j < k \/ (j = k /\ w # "udf")
    <3>1. w # "udf" <=> pc \in Beyond(w)
      BY DEF Data, Beyond
    <3> QED
      BY <1>1, <3>1 DEF Reached, Data
  <2>2. CASE k < Len(Tables)
    <3>1. k' = k + 1 /\ pc' = "staging"
      BY <2>2 DEF NextTable
    <3>2. pc' \notin Beyond(w)
      BY <3>1 DEF Data, Beyond
    <3>3. ~Over' /\ pc' \in Loop
      BY <3>1 DEF Over, Loop
    <3>4. Reached(w, j)' <=> j < k'
      BY <3>2, <3>3 DEF Reached, Data
    <3>5. j < k + 1 <=> j < k \/ j = k
      BY <1>4
    <3>6. j = k /\ w = "udf" => ~(j < k)
      BY <1>4
    <3> QED
      BY <2>1, <3>1, <3>4, <3>5, <3>6
  <2>3. CASE ~(k < Len(Tables))
    <3>1. Reached(w, j)'
      BY <2>3 DEF NextTable, Reached, Over
    <3>2. j < k \/ j = k
      BY <1>4, <2>3
    <3> QED
      BY <2>1, <3>1, <3>2
  <2> QED
    BY <2>2, <2>3
<1> QED
  BY <1>2, <1>3, <1>5, <1>6, <1>7 DEF What

\* A check inside the loop, and a step of the loop without one.
LEMMA CheckInLoop ==
  ASSUME TypeOK, Cover, files' = files, k' = k, pc \in Loop, pc' \in Loop,
         NEW what \in Data, NEW status \in Statuses,
         checks' = checks \cup {<<<<what, T>>, status>>} \/ (what \in Optional /\ checks' = checks),
         pc \notin Beyond(what), pc' \in Beyond(what),
         \A w \in Data : pc' \in Beyond(w) <=> pc \in Beyond(w) \/ w = what
  PROVE  Cover'
<1>1. Live /\ pc # "generation" /\ pc' \notin {"generation", "returned"}
  BY DEF Live, Working, Loop
<1>2. k \in DOMAIN Tables /\ ~(k < k)
  BY TableInHand, TableNumbers
<1>3. ~Reached(what, k)
  BY <1>2, LoopOrder
<1>4. \A w \in What, j \in DOMAIN Tables : Reached(w, j)' <=> Reached(w, j) \/ (w = what /\ j = k)
  <2>1. \A w \in Side : w # what
    BY DEF Side, Data
  <2>2. \A w \in Data, j \in DOMAIN Tables : Reached(w, j)' <=> Reached(w, j) \/ (w = what /\ j = k)
    BY LoopOrder
  <2> QED
    BY <2>1, <2>2, LoopOrder DEF What
<1> QED
  BY <1>1, <1>3, <1>4, CheckOfTable, LoopOrder DEF What

LEMMA ReadInLoop ==
  ASSUME TypeOK, Cover, files' = files, checks' = checks, k' = k, pc \in Loop, pc' \in Loop,
         \A w \in Data : pc' \in Beyond(w) <=> pc \in Beyond(w)
  PROVE  Cover'
<1>1. Live /\ pc # "generation" /\ pc' \notin {"generation", "returned"}
  BY DEF Live, Working, Loop
<1>2. \A w \in What, j \in DOMAIN Tables : Reached(w, j)' <=> Reached(w, j)
  BY LoopOrder DEF What
<1> QED
  BY <1>1, <1>2, NoCheck, LoopOrder DEF Reported

LEMMA CoverGeneration ==
  ASSUME TypeOK, Cover, ValidateGeneration
  PROVE  Cover'
<1>1. /\ pc' = "source" /\ k' = 1 /\ files' = files
      /\ checks = {}
  BY DEF ValidateGeneration, TypeOK, world
<1>2. ASSUME NEW w \in What, NEW j \in DOMAIN Tables PROVE ~Reached(w, j)'
  <2>1. ~(j < 1)
    BY TableNumbers
  <2> QED
    BY <1>1, <2>1 DEF Reached, Over, Loop
<1>3. Reported'
  BY <1>1 DEF Reported
<1>4. CASE ~files.manifest /\ Note("manifest", "project", "FAIL")
  <2>1. checks' = {<<<<"manifest", "project">>, "FAIL">>}
    BY <1>1, <1>4 DEF Note
  <2>2. Once' /\ Made'
    BY <1>1, <1>4, <2>1 DEF Once, Made, OfProject
  <2>3. Judged("manifest", "project")'
    BY <2>1 DEF Judged
  <2>4. Complete'
    BY <1>1, <1>2, <1>4, <2>3 DEF Complete
  <2> QED
    BY <1>3, <2>2, <2>4 DEF Cover
<1>5. CASE files.manifest
  <2>1. checks' = {<<<<part, "project">>, PartStatus(part)>> : part \in Part}
    <3>1. \/ ~files.manifest /\ Note("manifest", "project", "FAIL")
          \/ checks' = {<<<<part, "project">>, PartStatus(part)>> : part \in Part}
      BY Zenon DEF ValidateGeneration
    <3> QED
      BY <1>5, <3>1, Zenon
  <2>2. Once'
    BY <2>1 DEF Once
  <2>3. Made'
    BY <2>1 DEF Made, OfProject
  <2>4. ASSUME NEW part \in Part PROVE Judged(part, "project")'
    <3>1. <<<<part, "project">>, PartStatus(part)>> \in checks'
      BY <2>1
    <3>2. <<<<part, "project">>, PartStatus(part)>>[1] = <<part, "project">>
      OBVIOUS
    <3> QED
      BY <3>1, <3>2, Zenon DEF Judged
  <2>5. Complete'
    BY <1>1, <1>2, <1>5, <2>4 DEF Complete
  <2> QED
    BY <1>3, <2>2, <2>3, <2>5 DEF Cover
<1> QED
  BY <1>4, <1>5 DEF ValidateGeneration

LEMMA CoverSchemas ==
  ASSUME TypeOK, Control, Cover, NEW side \in Side, NoSchemaFile(side) \/ ValidateSchema(side)
  PROVE  Cover'
<1>k. k \in 1..Len(Tables) /\ DOMAIN Tables = 1..Len(Tables) /\ Len(Tables) \in Nat
  BY TableInHand, TableNumbers
<1>1. /\ pc = side /\ pc' \in {side, After(side)} /\ files' = files
  BY DEF NoSchemaFile, ValidateSchema, world
<1>2. /\ pc \in Side /\ After(side) \in {"target", "data"}
      /\ Live /\ pc # "generation" /\ pc' \notin {"generation", "returned"}
      /\ ~Over /\ ~Over' /\ pc \notin Loop /\ pc' \notin Loop
      /\ \A sd \in Side : Gone(sd) => Gone(sd)'
  BY <1>1 DEF Side, After, Live, Working, Over, Loop, Gone
<1>d. \A w \in Data : w # "source" /\ w # "target"
  BY DEF Data
<1>3. CASE ValidateSchema(side)
  <2>1. side \in What /\ \E status \in Statuses : checks' = checks \cup {<<<<side, T>>, status>>}
    BY <1>3 DEF ValidateSchema, Judge, Note, What, Statuses
  <2>2. ~Reached(side, k)
    BY <1>1, <1>2, <1>k, <1>d DEF Reached, Side
  <2>3. ASSUME NEW w \in What, NEW j \in DOMAIN Tables
        PROVE  Reached(w, j)' <=> Reached(w, j) \/ (w = side /\ j = k)
    <3>1. CASE k < Len(Tables)
      <4>1. k' = k + 1 /\ pc' = pc
        BY <1>3, <3>1 DEF ValidateSchema
      <4>2. j < k + 1 <=> j < k \/ j = k
        BY <1>k
      <4> QED
        BY <1>1, <1>2, <1>d, <4>1, <4>2 DEF Reached, What, Side
    <3>2. CASE ~(k < Len(Tables))
      <4>1. k' = 1 /\ pc' = After(side)
        BY <1>3, <3>2 DEF ValidateSchema
      <4>2. (j < k \/ j = k) /\ ~(j < 1)
        BY <1>k, <3>2
      <4> QED
        BY <1>1, <1>2, <1>d, <4>1, <4>2 DEF Reached, What, Side, After
    <3> QED
      BY <3>1, <3>2
  <2> QED
    BY <1>1, <1>2, <2>1, <2>2, <2>3, CheckOfTable
<1>4. CASE NoSchemaFile(side)
  <2> DEFINE new == <<<<"schema", side>>, "FAIL">>
  <2>1. /\ side \notin files.schemas /\ k' = k /\ pc' = After(side)
        /\ checks' = checks \cup {new}
    BY <1>4 DEF NoSchemaFile, Note
  <2>k. k = 1 /\ \A j \in DOMAIN Tables : ~(j < 1)
    BY <1>1, <1>k, <2>1 DEF Control
  <2>2. \A c \in checks : c \in checks'
    BY <2>1
  <2>3. \A c \in checks' : c \in checks \/ c = new
    BY <2>1
  <2>4. new[1] = <<"schema", side>>
    OBVIOUS
  <2> HIDE DEF new
  <2>u. Once /\ Made /\ Complete
    BY <1>2 DEF Cover
  <2>5. ASSUME NEW w \in What, NEW j \in DOMAIN Tables
        PROVE  Reached(w, j)' <=> Reached(w, j) \/ w = side
    BY <1>1, <1>2, <1>d, <2>1, <2>k DEF Reached, What, Side, After
  <2>6. ~Gone(side) /\ Gone(side)'
    BY <1>1, <2>1 DEF Gone, Side, After
  <2>7. \A c \in checks : c[1] # <<"schema", side>>
    <3> SUFFICES ASSUME NEW c \in checks, c[1] = <<"schema", side>> PROVE FALSE
      OBVIOUS
    <3>1. ~OfSchema(c)
      BY <2>6 DEF OfSchema
    <3>2. ~OfProject(c)
      BY DEF OfProject, Part
    <3>3. ~OfTable(c)
      <4>1. ASSUME NEW w \in What, NEW t, c[1] = <<w, t>> PROVE FALSE
        <5>1. w = "schema"
          BY <4>1
        <5> QED
          BY <5>1 DEF What, Side, Data
      <4> QED
        BY <4>1 DEF OfTable
    <3> QED
      BY <2>u, <3>1, <3>2, <3>3 DEF Made
  <2>8. Once'
    BY <2>3, <2>4, <2>7, <2>u DEF Once
  <2>9. Made'
    <3> SUFFICES ASSUME NEW c \in checks' PROVE OfProject(c)' \/ OfSchema(c)' \/ OfTable(c)'
      BY DEF Made
    <3>1. (OfProject(c) => OfProject(c)') /\ (OfSchema(c) => OfSchema(c)') /\ (OfTable(c) => OfTable(c)')
      BY <1>1, <1>2, <2>5 DEF OfProject, OfSchema, OfTable
    <3>2. c = new => OfSchema(c)'
      BY <1>1, <2>1, <2>4, <2>6 DEF OfSchema
    <3> QED
      BY <2>3, <2>u, <3>1, <3>2 DEF Made
  <2>10. Complete'
    <3>1. \A w, about : Judged(w, about) => Judged(w, about)'
      BY <2>2 DEF Judged
    <3>2. \A w \in What \ Optional, j \in DOMAIN Tables :
            Reached(w, j)' /\ (w \in Side => w \in files.schemas) => Reached(w, j)
      BY <2>1, <2>5
    <3> QED
      BY <1>1, <1>2, <2>u, <3>1, <3>2 DEF Complete
  <2> QED
    BY <1>2, <2>8, <2>9, <2>10 DEF Cover, Reported
<1> QED
  BY <1>3, <1>4

\* After the first and last checks, and from table to table.
LEMMA CoverData ==
  ASSUME TypeOK, Control, Cover,
         OpenData \/ CountStaging \/ CountTarget \/ Duplicates \/ NotNull \/ ForeignKey
           \/ NoJoinKey \/ FetchSource \/ FetchTarget \/ Compare
  PROVE  Cover'
<1>1. CASE OpenData
  <2>1. /\ pc = "data" /\ pc' = "staging" /\ k' = k /\ k = 1
        /\ checks' = checks /\ files' = files
    BY <1>1 DEF OpenData, Control, world
  <2>2. \A j \in DOMAIN Tables : ~(j < 1)
    BY TableNumbers
  <2>3. \A w \in Data : w # "source" /\ w # "target" /\ "staging" \notin Beyond(w)
    BY DEF Data, Beyond
  <2>4. Live /\ pc # "generation" /\ pc' # "generation" /\ Reported'
    BY <2>1 DEF Live, Working, Reported
  <2>5. \A side \in Side : Gone(side) => Gone(side)'
    BY <2>1 DEF Gone
  <2>6. ~Over /\ ~Over' /\ pc \notin Loop /\ pc' \in Loop
    BY <2>1 DEF Over, Loop
  <2>7. \A w \in What, j \in DOMAIN Tables : Reached(w, j)' <=> Reached(w, j)
    BY <2>1, <2>2, <2>3, <2>6 DEF Reached, What, Side
  <2> QED
    BY <2>1, <2>4, <2>5, <2>7, NoCheck
<1>2. CASE CountStaging
  BY <1>2, ReadInLoop DEF CountStaging, Loop, Data, Beyond, world
<1>3. CASE CountTarget
  <2>1. \E status \in Statuses : checks' = checks \cup {<<<<"rowcount", T>>, status>>}
    BY <1>3 DEF CountTarget, Judge, Note, Statuses
  <2>2. pc = "rowcount" /\ pc' = "duplicates" /\ k' = k /\ files' = files
    BY <1>3 DEF CountTarget, world
  <2> QED
    BY <2>1, <2>2, CheckInLoop DEF Loop, Data, Beyond
<1>4. CASE Duplicates
  <2>1. \E status \in Statuses :
          checks' = checks \cup {<<<<"duplicates", T>>, status>>} \/ checks' = checks
    BY <1>4 DEF Duplicates, Judge, Note, Statuses
  <2>2. pc = "duplicates" /\ pc' = "notnull" /\ k' = k /\ files' = files
    BY <1>4 DEF Duplicates, world
  <2> QED
    BY <2>1, <2>2, CheckInLoop DEF Loop, Data, Beyond, Optional
<1>5. CASE NotNull
  <2>1. \E status \in Statuses : checks' = checks \cup {<<<<"notnull", T>>, status>>}
    BY <1>5 DEF NotNull, Judge, Note, Statuses
  <2>2. pc = "notnull" /\ pc' = "foreign key" /\ k' = k /\ files' = files
    BY <1>5 DEF NotNull, world
  <2> QED
    BY <2>1, <2>2, CheckInLoop DEF Loop, Data, Beyond
<1>6. CASE ForeignKey
  <2>1. \E status \in Statuses :
          checks' = checks \cup {<<<<"foreign key", T>>, status>>} \/ checks' = checks
    BY <1>6 DEF ForeignKey, Judge, Note, Statuses
  <2>2. pc = "foreign key" /\ pc' = "udf" /\ k' = k /\ files' = files
    BY <1>6 DEF ForeignKey, world
  <2> QED
    BY <2>1, <2>2, CheckInLoop DEF Loop, Data, Beyond, Optional
<1>7. CASE NoJoinKey \/ Compare
  <2>1. \E status \in Statuses : checks' = checks \cup {<<<<"udf", T>>, status>>}
    BY <1>7 DEF NoJoinKey, Compare, Note, Statuses
  <2>2. pc \in {"udf", "compare"} /\ NextTable /\ files' = files
    BY <1>7 DEF NoJoinKey, Compare, world
  <2>3. Live /\ pc # "generation"
    BY <2>2 DEF Live, Working
  <2>4. pc' \notin {"generation", "returned"} /\ ~Reached("udf", k)
    BY <2>2, NextTableReached
  <2> QED
    BY <2>1, <2>2, <2>3, <2>4, CheckOfTable, NextTableReached DEF What, Data
<1>8. CASE FetchSource \/ FetchTarget
  BY <1>8, ReadInLoop DEF FetchSource, FetchTarget, Loop, Data, Beyond, world
<1> QED
  BY <1>1, <1>2, <1>3, <1>4, <1>5, <1>6, <1>7, <1>8

\* No check is left out and none is made twice.
LEMMA CoverStep ==
  ASSUME TypeOK, Control, Cover, [Next]_vars
  PROVE  Cover'
<1>1. CASE Begin
  <2>1. pc' = "generation" /\ checks' = {}
    BY <1>1 DEF Begin
  <2>2. \A w, j : ~Reached(w, j)'
    BY <2>1 DEF Reached, Over, Loop
  <2> QED
    BY <2>1, <2>2 DEF Cover, Once, Made, Complete, Reported
<1>2. CASE OpenReport \/ WriteReport
  <2>1. pc \in {"aggregate", "write"} /\ checks' = checks /\ files' = files /\ Over /\ Over'
    BY <1>2 DEF OpenReport, WriteReport, Over, world, Status, Statuses
  <2>2. \A w, j : Reached(w, j) /\ Reached(w, j)'
    BY <2>1 DEF Reached
  <2>3. Live /\ pc # "generation" /\ pc' \in {"write", "returned"}
    BY <1>2, <2>1 DEF OpenReport, WriteReport, Live
  <2>4. Reported'
    <3>1. Status' = Status
      BY <2>1 DEF Status, Has
    <3>2. CASE OpenReport
      BY <3>2 DEF OpenReport, Reported
    <3>3. CASE WriteReport
      BY <3>1, <3>3 DEF WriteReport, Reported
    <3> QED
      BY <1>2, <3>2, <3>3
  <2>5. \A side \in Side : Gone(side) => Gone(side)'
    BY <2>3 DEF Gone
  <2> QED
    BY <2>1, <2>2, <2>3, <2>4, <2>5, NoCheck
<1>3. CASE Raise \/ Fault \/ Main \/ Kill
  BY <1>3 DEF Raise, Fault, Main, Kill, Cover, Live, Working, Over, Statuses
<1>4. CASE Change \/ UNCHANGED vars
  <2>1. UNCHANGED <<files, pc, k, checks, outcome, report>>
    BY <1>4 DEF Change, vars, world
  <2>2. (Live' <=> Live) /\ (Once' <=> Once)
    BY <2>1 DEF Live, Working, Over, Once
  <2>3. \A w, j : Reached(w, j)' <=> Reached(w, j)
    BY <2>1 DEF Reached, Over
  <2>4. Made' <=> Made
    BY <2>1, <2>3 DEF Made, OfProject, OfSchema, OfTable, Gone
  <2>5. Complete' <=> Complete
    BY <2>1, <2>3 DEF Complete, Judged
  <2>6. Reported' <=> Reported
    BY <2>1 DEF Reported, Status, Has
  <2> QED
    BY <2>2, <2>3, <2>4, <2>5, <2>6 DEF Cover
<1> QED
  BY <1>1, <1>2, <1>3, <1>4, CoverGeneration, CoverSchemas, CoverData DEF Next, Validate

IInv == TypeOK /\ Control /\ Cover

LEMMA Invariant == Spec => []IInv
<1>1. Init => IInv
  <2>1. Init => Cover
    BY DEF Init, Cover, Live, Working, Over
  <2> QED
    BY <2>1, FirstState DEF IInv
<1>2. IInv /\ [Next]_vars => IInv'
  BY TypeStep, CoverStep DEF IInv
<1> QED
  BY <1>1, <1>2, PTL DEF Spec

\* The values of the variables are of their types in every behaviour.
THEOREM TypeCorrect == Spec => []TypeOK
<1>1. IInv => TypeOK
  BY DEF IInv
<1> QED
  BY <1>1, Invariant, PTL

\* The checks that not every table has: references are checked of each table
\* that declares some, duplicates of each in which rows were counted.
Sought ==
  Live => \A j \in DOMAIN Tables :
    /\ Reached("duplicates", j) => Judged("duplicates", Tables[j]) \/ Tables[j] \in empty
    /\ Reached("foreign key", j) /\ Referred(Tables[j]) # {} => Judged("foreign key", Tables[j])

Counting == pc = "duplicates" => counted > 0 \/ T \in empty

LEMMA SoughtStays ==
  ASSUME Sought, Live, checks \subseteq checks', empty \subseteq empty',
         \A what \in Optional, j \in DOMAIN Tables : Reached(what, j)' => Reached(what, j)
  PROVE  Sought'
<1>1. \A what, about : Judged(what, about) => Judged(what, about)'
  BY DEF Judged
<1> QED
  BY <1>1 DEF Sought, Optional

\* The same where it is a check of the table in hand that is made or left out.
LEMMA SoughtInLoop ==
  ASSUME TypeOK, Sought, checks \subseteq checks', UNCHANGED <<k, empty>>, pc \in Loop, pc' \in Loop,
         NEW what \in Optional, \A w \in Optional \ {what} : pc' \in Beyond(w) => pc \in Beyond(w),
         what = "duplicates"  => Judged(what, T)' \/ T \in empty,
         what = "foreign key" => Judged(what, T)' \/ Referred(T) = {}
  PROVE  Sought'
<1>1. \A w, about : Judged(w, about) => Judged(w, about)'
  BY DEF Judged
<1>2. Live /\ Optional \subseteq Data
  BY DEF Live, Working, Loop, Optional, Data
<1>3. \A w \in Optional, j \in DOMAIN Tables : Reached(w, j)' => Reached(w, j) \/ (w = what /\ j = k)
  <2>1. \A w \in Optional, j \in DOMAIN Tables :
          /\ Reached(w, j)  <=> j < k \/ (j = k /\ pc \in Beyond(w))
          /\ Reached(w, j)' <=> j < k \/ (j = k /\ pc' \in Beyond(w))
    BY <1>2, LoopOrder
  <2> QED
    BY <2>1
<1> QED
  BY <1>1, <1>2, <1>3 DEF Sought, Optional, T

LEMMA SoughtStep ==
  ASSUME IInv, Sought, Counting, [Next]_vars
  PROVE  Sought' /\ Counting'
<1> USE DEF IInv
<1>1. CASE Begin
  <2>1. pc' = "generation"
    BY <1>1 DEF Begin
  <2>2. \A what, j : ~Reached(what, j)'
    BY <2>1 DEF Reached, Over, Loop
  <2> QED
    BY <2>1, <2>2 DEF Sought, Counting
<1>2. CASE \/ ValidateGeneration \/ OpenData
           \/ \E side \in Side : NoSchemaFile(side) \/ ValidateSchema(side)
  <2>1. pc' \in {"source", "target", "data"} \/ (pc' = "staging" /\ k' = 1)
    BY <1>2 DEF ValidateGeneration, OpenData, NoSchemaFile, ValidateSchema, After, Side, Control
  <2>2. \A j \in DOMAIN Tables : ~(j < 1)
    BY TableNumbers
  <2>3. \A what \in Optional, j \in DOMAIN Tables : ~Reached(what, j)'
    <3>1. \A what \in Optional : what \notin Side /\ "staging" \notin Beyond(what)
      BY DEF Optional, Side, Beyond
    <3> QED
      BY <2>1, <2>2, <3>1 DEF Reached, Over, Loop, Side
  <2> QED
    BY <2>1, <2>3 DEF Sought, Counting, Optional
<1>3. CASE CountStaging \/ CountTarget \/ NotNull \/ FetchSource \/ FetchTarget
  <2>1. /\ pc \in Loop /\ pc' \in Loop /\ k' = k
        /\ pc' = "duplicates" => CountTarget
        /\ \A what \in Optional : pc' \in Beyond(what) => pc \in Beyond(what)
    BY <1>3 DEF CountStaging, CountTarget, NotNull, FetchSource, FetchTarget, Loop, Optional, Beyond
  <2>2. checks \subseteq checks' /\ empty \subseteq empty'
    BY <1>3 DEF CountStaging, CountTarget, NotNull, FetchSource, FetchTarget, Judge, Note, results
  <2>3. \A what \in Optional, j \in DOMAIN Tables : Reached(what, j)' => Reached(what, j)
    BY <2>1, LoopOrder DEF Optional, Data
  <2>4. Live
    BY <2>1 DEF Live, Working, Loop
  <2>5. CountTarget => counted' > 0 \/ T \in empty'
    <3>1. CountTarget => counted' \in Nat
      BY HandedTable DEF CountTarget
    <3> QED
      BY <3>1 DEF CountTarget
  <2>6. Counting'
    BY <2>1, <2>5 DEF Counting, T
  <2> QED
    BY <2>2, <2>3, <2>4, <2>6, SoughtStays
<1>4. CASE Duplicates
  <2>1. pc = "duplicates" /\ pc' = "notnull" /\ UNCHANGED <<k, empty>>
    BY <1>4 DEF Duplicates, results
  <2>2. CASE counted > 0
    <3>1. PICK status : checks' = checks \cup {<<<<"duplicates", T>>, status>>}
      BY <1>4, <2>2 DEF Duplicates, Judge, Note
    <3>2. Judged("duplicates", T)' /\ checks \subseteq checks'
      <4>1. T' = T
        BY <2>1 DEF T
      <4>2. <<<<"duplicates", T>>, status>> \in checks'
        BY <3>1
      <4> QED
        BY <3>1, <4>1, <4>2 DEF Judged
    <3> QED
      BY <2>1, <3>2, SoughtInLoop DEF Loop, Optional, Beyond, Counting
  <2>3. CASE ~(counted > 0)
    <3>1. checks' = checks /\ T \in empty
      BY <1>4, <2>1, <2>3 DEF Duplicates, Counting
    <3> QED
      BY <2>1, <3>1, SoughtInLoop DEF Loop, Optional, Beyond, Counting
  <2> QED
    BY <2>2, <2>3
<1>5. CASE ForeignKey
  <2>1. pc = "foreign key" /\ pc' = "udf" /\ UNCHANGED <<k, empty>>
    BY <1>5 DEF ForeignKey, results
  <2>2. CASE Referred(T) # {}
    <3>1. PICK status : checks' = checks \cup {<<<<"foreign key", T>>, status>>}
      BY <1>5, <2>2 DEF ForeignKey, Judge, Note
    <3>2. Judged("foreign key", T)' /\ checks \subseteq checks'
      <4>1. T' = T
        BY <2>1 DEF T
      <4>2. <<<<"foreign key", T>>, status>> \in checks'
        BY <3>1
      <4> QED
        BY <3>1, <4>1, <4>2 DEF Judged
    <3> QED
      BY <2>1, <3>2, SoughtInLoop DEF Loop, Optional, Beyond, Counting
  <2>3. CASE Referred(T) = {}
    <3>1. checks' = checks
      BY <1>5, <2>3 DEF ForeignKey
    <3> QED
      BY <2>1, <2>3, <3>1, SoughtInLoop DEF Loop, Optional, Beyond, Counting
  <2> QED
    BY <2>2, <2>3
<1>6. CASE NoJoinKey \/ Compare
  <2>1. pc \in {"udf", "compare"} /\ NextTable /\ empty' = empty /\ checks \subseteq checks'
    BY <1>6 DEF NoJoinKey, Compare, Note, results
  <2>2. /\ \A what \in Optional, j \in DOMAIN Tables : Reached(what, j)' => Reached(what, j)
        /\ pc' # "duplicates"
    BY <2>1, NextTableReached DEF Optional, What, Data
  <2>3. Live
    BY <2>1 DEF Live, Working
  <2> QED
    BY <2>1, <2>2, <2>3, SoughtStays DEF Counting
<1>7. CASE OpenReport \/ WriteReport
  <2>1. Over /\ checks' = checks /\ empty' = empty /\ pc' # "duplicates"
    BY <1>7 DEF OpenReport, WriteReport, Over, results
  <2>2. \A what, j : Reached(what, j)
    BY <2>1 DEF Reached
  <2> QED
    BY <2>1, <2>2, SoughtStays DEF Live, Counting
<1>8. CASE Raise \/ Fault \/ Main \/ Kill
  BY <1>8 DEF Raise, Fault, Main, Kill, Sought, Counting, Live, Working, Over, Statuses
<1>9. CASE Change \/ UNCHANGED vars
  <2>1. UNCHANGED <<pc, k, checks, outcome, empty, counted>>
    BY <1>9 DEF Change, vars, results
  <2>2. Live' => Live
    BY <2>1 DEF Live, Working, Over
  <2>3. \A what, j : Reached(what, j)' => Reached(what, j)
    BY <2>1 DEF Reached, Over
  <2>4. Sought'
    BY <2>1, <2>2, <2>3, SoughtStays DEF Sought
  <2> QED
    BY <2>1, <2>4 DEF Counting, T
<1> QED
  BY <1>1, <1>2, <1>3, <1>4, <1>5, <1>6, <1>7, <1>8, <1>9 DEF Next, Validate

LEMMA SoughtInvariant == Spec => []Sought
<1>1. Init => Sought /\ Counting
  BY DEF Init, Sought, Counting, Live, Working, Over
<1>2. IInv /\ Sought /\ Counting /\ [Next]_vars => Sought' /\ Counting'
  BY SoughtStep
<1> QED
  BY <1>1, <1>2, Invariant, PTL DEF Spec

\* However the databases change, whatever fails and however often it is called,
\* a status is given over all checks.
THEOREM StatusOverAllChecks == Spec => []StatusCoversAll
<1>1. IInv /\ Sought => StatusCoversAll
  <2> SUFFICES ASSUME IInv, Sought, pc = "returned", outcome \in Statuses
               PROVE  LET judged == {c[1] : c \in checks} IN
                      /\ report = outcome
                      /\ files.manifest => Always \subseteq judged
                      /\ \A t \in Table : /\ t \notin empty => <<"duplicates", t>> \in judged
                                          /\ Referred(t) # {} => <<"foreign key", t>> \in judged
                      /\ \A c, d \in checks : c[1] = d[1] => c = d
    BY DEF StatusCoversAll
  <2>1. Over /\ files.schemas = Side
    BY DEF Over, IInv, Control
  <2>2. Once /\ Complete /\ Reported
    BY <2>1 DEF IInv, Cover, Live
  <2>3. ASSUME files.manifest, NEW id \in Always PROVE \E c \in checks : c[1] = id
    <3>1. CASE id \in Part \X {"project"}
      BY <2>2, <2>3, <3>1 DEF Complete, Judged
    <3>2. CASE id \in {"source", "target", "rowcount", "notnull", "udf"} \X Table
      <4>w. PICK what \in {"source", "target", "rowcount", "notnull", "udf"}, t \in Table : id = <<what, t>>
        BY <3>2
      <4>j. PICK j \in DOMAIN Tables : t = Tables[j]
        BY DEF Table
      <4>1. what \in What \ Optional /\ id = <<what, Tables[j]>>
        BY <4>w, <4>j DEF What, Optional, Side, Data
      <4>2. Reached(what, j)
        BY <2>1 DEF Reached
      <4> QED
        BY <2>1, <2>2, <4>1, <4>2 DEF Complete, Judged
    <3> QED
      BY <3>1, <3>2 DEF Always
  <2>4. ASSUME NEW t \in Table
        PROVE  /\ t \notin empty => \E c \in checks : c[1] = <<"duplicates", t>>
               /\ Referred(t) # {} => \E c \in checks : c[1] = <<"foreign key", t>>
    <3>1. PICK j \in DOMAIN Tables : t = Tables[j]
      BY DEF Table
    <3>2. Reached("duplicates", j) /\ Reached("foreign key", j) /\ Live
      BY <2>1 DEF Reached, Live
    <3> QED
      BY <3>1, <3>2 DEF Sought, Judged
  <2> QED
    BY <2>2, <2>3, <2>4 DEF Once, Reported
<1> QED
  BY <1>1, Invariant, SoughtInvariant, PTL

-----------------------------------------------------------------------------
(* What the checks say, while nothing changes *)

ValuesRight(t) == \A n \in DOMAIN db[t].target : ValueIsRight(t, db[t].target[n])

Tried(t) == \E n \in DOMAIN db[t].target : Origins(t, db[t].target[n]) # {}

\* What a PASS says, and what a FAIL says.
Right(what, t) ==
  /\ what \in Side         => what \notin db[t].missing \cup db[t].differs
  /\ what = "rowcount"     => "staging" \notin db[t].missing /\ db[t].staged = Len(db[t].target)
  /\ what = "duplicates"   => UniqueKeys(t)
  /\ what = "notnull"      => NoNulls(t)
  /\ what = "foreign key"  => \A u \in Referred(t) : Resolves(t, u)
  /\ what = "udf"          => Tried(t) /\ (KeysDiffer(t) => ValuesRight(t))

Wrong(what, t) ==
  /\ what \in Side         => what \in db[t].missing \cup db[t].differs
  /\ what = "rowcount"     => db[t].staged # Len(db[t].target)
  /\ what = "duplicates"   => ~UniqueKeys(t)
  /\ what = "notnull"      => ~NoNulls(t)
  /\ what = "foreign key"  => \E u \in Referred(t) : ~Resolves(t, u)
  /\ what = "udf"          => ~ValuesRight(t)

True(c) ==
  /\ \A what \in What, t \in Table : c[1] = <<what, t>> =>
       (c[2] = "PASS" => Right(what, t)) /\ (c[2] = "FAIL" => Wrong(what, t))
  /\ \A part \in Part : c[1] = <<part, "project">> =>
       (c[2] = "PASS" => part \notin files.bad \cup files.doubtful) /\ (c[2] = "FAIL" => part \in files.bad)
  /\ c[1] = <<"manifest", "project">> => c[2] = "FAIL"

\* What was read of the table in hand is what is there.
InHand ==
  /\ pc = "rowcount"   => "staging" \notin db[T].missing /\ staged = db[T].staged
  /\ pc = "duplicates" => counted = Len(db[T].target)
  /\ pc \in {"fetch", "compare"} => src_rows = db[T].source
  /\ pc = "compare"    => tgt_rows = db[T].target

\* Checks that are left out have nothing to find.
LeftOut ==
  \A j \in DOMAIN Tables :
    /\ Reached("duplicates", j) => Judged("duplicates", Tables[j]) \/ db[Tables[j]].target = <<>>
    /\ Reached("foreign key", j) => Judged("foreign key", Tables[j]) \/ Referred(Tables[j]) = {}

Truth == undisturbed /\ Live => (\A c \in checks : True(c)) /\ InHand /\ LeftOut

LEMMA TrueOfTable ==
  ASSUME NEW what \in What, NEW t \in Table, NEW status,
         status = "PASS" => Right(what, t), status = "FAIL" => Wrong(what, t)
  PROVE  True(<<<<what, t>>, status>>)
<1> DEFINE c == <<<<what, t>>, status>>
<1>1. c[1] = <<what, t>> /\ c[2] = status
  OBVIOUS
<1> HIDE DEF c
<1>2. ASSUME NEW w \in What, NEW u \in Table, c[1] = <<w, u>>
      PROVE  w = what /\ u = t
  BY <1>1, <1>2
<1>3. ASSUME NEW part \in Part \cup {"manifest"}, c[1] = <<part, "project">>
      PROVE  FALSE
  <2>1. part = what
    BY <1>1, <1>3
  <2> QED
    BY <2>1 DEF Part, What, Side, Data
<1> QED
  BY <1>1, <1>2, <1>3 DEF True, c

LEMMA TrueOfProject ==
  ASSUME NEW part \in Part \cup {"manifest", "schema"}, NEW about, NEW status,
         part \in Part => /\ status = "PASS" => part \notin files.bad \cup files.doubtful
                          /\ status = "FAIL" => part \in files.bad,
         part = "manifest" => status = "FAIL"
  PROVE  True(<<<<part, about>>, status>>)
<1> DEFINE c == <<<<part, about>>, status>>
<1>1. c[1] = <<part, about>> /\ c[2] = status
  OBVIOUS
<1> HIDE DEF c
<1>2. ASSUME NEW w \in What, NEW u, c[1] = <<w, u>>
      PROVE  FALSE
  <2>1. part = w
    BY <1>1, <1>2
  <2> QED
    BY <2>1 DEF Part, What, Side, Data
<1>3. ASSUME NEW q, c[1] = <<q, "project">>
      PROVE  q = part
  BY <1>1, <1>3
<1>4. "manifest" \notin Part
  BY DEF Part
<1> QED
  BY <1>1, <1>2, <1>3, <1>4 DEF True, c

\* The values compared are those of the table.
LEMMA CompareIsTrue ==
  ASSUME TypeOK, NEW t \in Table, NEW by_key \in SourceByKey(t, db[t].source),
         NEW checked, checked = {n \in DOMAIN db[t].target : db[t].target[n].key \in DOMAIN by_key},
         NEW mismatches,
         mismatches = {n \in checked : db[t].target[n].value # Udf[by_key[db[t].target[n].key].arg]}
  PROVE  /\ mismatches # {} => Wrong("udf", t)
         /\ mismatches = {} /\ checked # {} => Right("udf", t)
<1>1. /\ DOMAIN by_key = {KeyOf(t, row) : row \in db[t].source}
      /\ \A key \in DOMAIN by_key : by_key[key] \in db[t].source /\ KeyOf(t, by_key[key]) = key
  BY DEF SourceByKey
<1>2. ASSUME NEW n \in checked
      PROVE  by_key[db[t].target[n].key] \in Origins(t, db[t].target[n])
  BY <1>1, <1>2 DEF Origins
<1>3. mismatches # {} => ~ValuesRight(t)
  BY <1>2 DEF ValuesRight, ValueIsRight
<1>4. checked # {} => Tried(t)
  BY <1>2 DEF Tried
<1>5. ASSUME mismatches = {}, KeysDiffer(t), NEW n \in DOMAIN db[t].target,
             NEW s \in Origins(t, db[t].target[n])
      PROVE  db[t].target[n].value = Udf[s.arg]
  <2>1. s \in db[t].source /\ KeyOf(t, s) = db[t].target[n].key
    BY DEF Origins
  <2>2. n \in checked
    BY <1>1, <2>1
  <2>3. by_key[db[t].target[n].key] = s
    BY <1>1, <1>2, <1>5, <2>1, <2>2 DEF KeysDiffer, Origins
  <2> QED
    BY <1>5, <2>2, <2>3
<1>6. mismatches = {} /\ KeysDiffer(t) => ValuesRight(t)
  BY <1>5 DEF ValuesRight, ValueIsRight
<1> QED
  BY <1>3, <1>4, <1>6 DEF Right, Wrong, Side

\* A check of the table in hand that was judged by a fact is true of it.
LEMMA JudgedByFact ==
  ASSUME TypeOK, NEW what \in What, NEW good \in BOOLEAN, Judge(what, T, good),
         good => Right(what, T), ~good => Wrong(what, T)
  PROVE  \A c \in checks' : c \in checks \/ True(c)
<1>1. T \in Table
  BY HandedTable
<1>2. PICK status : /\ checks' = checks \cup {<<<<what, T>>, status>>}
                    /\ status = IF good THEN "PASS" ELSE "FAIL"
  BY DEF Judge, Note
<1>3. True(<<<<what, T>>, status>>)
  BY <1>1, <1>2, TrueOfTable
<1> QED
  BY <1>2, <1>3

\* Every new check is true.
LEMMA NewIsTrue ==
  ASSUME TypeOK, InHand, Validate
  PROVE  \A c \in checks' : c \in checks \/ True(c)
<1>t. T \in Table
  BY HandedTable
<1>1. CASE ValidateGeneration
  <2>1. CASE Note("manifest", "project", "FAIL")
    <3>1. checks' = checks \cup {<<<<"manifest", "project">>, "FAIL">>}
      BY <2>1 DEF Note
    <3>2. "manifest" \notin Part
      BY DEF Part
    <3>3. True(<<<<"manifest", "project">>, "FAIL">>)
      BY <3>2, TrueOfProject
    <3> QED
      BY <3>1, <3>3
  <2>2. CASE ~Note("manifest", "project", "FAIL")
    <3>1. checks' = {<<<<part, "project">>, PartStatus(part)>> : part \in Part}
      BY <1>1, <2>2, Zenon DEF ValidateGeneration
    <3>2. ASSUME NEW part \in Part PROVE True(<<<<part, "project">>, PartStatus(part)>>)
      <4>1. part # "manifest"
        BY DEF Part
      <4>2. /\ PartStatus(part) = "PASS" => part \notin files.bad \cup files.doubtful
            /\ PartStatus(part) = "FAIL" => part \in files.bad
        BY DEF PartStatus
      <4> QED
        BY <4>1, <4>2, TrueOfProject
    <3> QED
      BY <3>1, <3>2
  <2> QED
    BY <2>1, <2>2
<1>2. ASSUME NEW side \in Side, NoSchemaFile(side)
      PROVE  \A c \in checks' : c \in checks \/ True(c)
  <2>1. checks' = checks \cup {<<<<"schema", side>>, "FAIL">>}
    BY <1>2 DEF NoSchemaFile, Note
  <2>2. "schema" \notin Part
    BY DEF Part
  <2>3. True(<<<<"schema", side>>, "FAIL">>)
    BY <2>2, TrueOfProject
  <2> QED
    BY <2>1, <2>3
<1>3. ASSUME NEW side \in Side, ValidateSchema(side)
      PROVE  \A c \in checks' : c \in checks \/ True(c)
  <2>1. Judge(side, T, side \notin db[T].missing \cup db[T].differs)
    BY <1>3 DEF ValidateSchema
  <2>2. /\ side \notin db[T].missing \cup db[T].differs => Right(side, T)
        /\ ~(side \notin db[T].missing \cup db[T].differs) => Wrong(side, T)
    BY DEF Right, Wrong, Side
  <2> QED
    BY <2>1, <2>2, JudgedByFact DEF What
<1>4. CASE CountTarget
  <2>1. "staging" \notin db[T].missing /\ staged = db[T].staged /\ counted' = Len(db[T].target)
    BY <1>4 DEF CountTarget, InHand
  <2>2. CASE T \in files.filters
    <3>1. checks' = checks \cup {<<<<"rowcount", T>>, "WARN">>}
      BY <1>4, <2>2 DEF CountTarget, Note
    <3>2. True(<<<<"rowcount", T>>, "WARN">>)
      BY <1>t, TrueOfTable DEF What, Data
    <3> QED
      BY <3>1, <3>2
  <2>3. CASE T \notin files.filters
    <3>1. Judge("rowcount", T, staged = Len(db[T].target))
      BY <1>4, <2>1, <2>3 DEF CountTarget
    <3>2. /\ staged = Len(db[T].target) => Right("rowcount", T)
          /\ ~(staged = Len(db[T].target)) => Wrong("rowcount", T)
      BY <2>1 DEF Right, Wrong, Side
    <3> QED
      BY <3>1, <3>2, JudgedByFact DEF What, Data
  <2> QED
    BY <2>2, <2>3
<1>5. CASE Duplicates
  <2>1. (UniqueKeys(T) => Right("duplicates", T)) /\ (~UniqueKeys(T) => Wrong("duplicates", T))
    BY DEF Right, Wrong, Side
  <2>2. checks' = checks \/ Judge("duplicates", T, UniqueKeys(T))
    BY <1>5 DEF Duplicates
  <2>3. UniqueKeys(T) \in BOOLEAN
    BY DEF UniqueKeys
  <2> QED
    BY <2>1, <2>2, <2>3, JudgedByFact DEF What, Data
<1>6. CASE NotNull
  <2>1. (NoNulls(T) => Right("notnull", T)) /\ (~NoNulls(T) => Wrong("notnull", T))
    BY DEF Right, Wrong, Side
  <2>2. Judge("notnull", T, NoNulls(T)) /\ NoNulls(T) \in BOOLEAN
    BY <1>6 DEF NotNull, NoNulls
  <2> QED
    BY <2>1, <2>2, JudgedByFact DEF What, Data
<1>7. CASE ForeignKey
  <2> DEFINE all == \A u \in Referred(T) : Resolves(T, u)
  <2>1. (all => Right("foreign key", T)) /\ (~all => Wrong("foreign key", T))
    BY DEF Right, Wrong, Side
  <2>2. checks' = checks \/ Judge("foreign key", T, all)
    BY <1>7 DEF ForeignKey
  <2>3. all \in BOOLEAN
    OBVIOUS
  <2> HIDE DEF all
  <2> QED
    BY <2>1, <2>2, <2>3, JudgedByFact DEF What, Data
<1>8. CASE NoJoinKey
  <2>1. checks' = checks \cup {<<<<"udf", T>>, "WARN">>}
    BY <1>8 DEF NoJoinKey, Note
  <2>2. True(<<<<"udf", T>>, "WARN">>)
    BY <1>t, TrueOfTable DEF What, Data
  <2> QED
    BY <2>1, <2>2
<1>9. CASE Compare
  <2>1. src_rows = db[T].source /\ tgt_rows = db[T].target
    BY <1>9 DEF Compare, InHand
  <2>2. PICK by_key \in SourceByKey(T, db[T].source) :
          LET checked    == {n \in DOMAIN db[T].target : db[T].target[n].key \in DOMAIN by_key}
              mismatches == {n \in checked : db[T].target[n].value # Udf[by_key[db[T].target[n].key].arg]}
          IN  Note("udf", T, IF mismatches # {} THEN "FAIL"
                             ELSE IF checked = {} THEN "WARN" ELSE "PASS")
    BY <1>9, <2>1 DEF Compare
  <2> DEFINE checked    == {n \in DOMAIN db[T].target : db[T].target[n].key \in DOMAIN by_key}
             mismatches == {n \in checked : db[T].target[n].value # Udf[by_key[db[T].target[n].key].arg]}
             status     == IF mismatches # {} THEN "FAIL" ELSE IF checked = {} THEN "WARN" ELSE "PASS"
  <2>3. checks' = checks \cup {<<<<"udf", T>>, status>>}
    BY <2>2 DEF Note
  <2>4. /\ mismatches # {} => Wrong("udf", T)
        /\ mismatches = {} /\ checked # {} => Right("udf", T)
    BY <1>t, CompareIsTrue
  <2>5. (status = "PASS" => mismatches = {} /\ checked # {}) /\ (status = "FAIL" => mismatches # {})
    OBVIOUS
  <2> HIDE DEF checked, mismatches, status
  <2>6. True(<<<<"udf", T>>, status>>)
    BY <1>t, <2>4, <2>5, TrueOfTable DEF What, Data
  <2> QED
    BY <2>3, <2>6
<1>10. CASE OpenData \/ CountStaging \/ FetchSource \/ FetchTarget \/ OpenReport \/ WriteReport \/ Raise \/ Main
  BY <1>10 DEF OpenData, CountStaging, FetchSource, FetchTarget, OpenReport, WriteReport, Raise, Main
<1> QED
  BY <1>1, <1>2, <1>3, <1>4, <1>5, <1>6, <1>7, <1>8, <1>9, <1>10 DEF Validate

\* The checks that may be left out are passed in their own action only.
LEMMA PassedBy ==
  ASSUME TypeOK, Control, Validate, NEW what \in Optional, NEW j \in DOMAIN Tables,
         Reached(what, j)', ~Reached(what, j)
  PROVE  j = k /\ ((what = "duplicates" /\ Duplicates) \/ (what = "foreign key" /\ ForeignKey))
<1>w. what \in Data /\ what \in What /\ what # "udf" /\ what # "source" /\ what # "target"
  BY DEF Optional, Data, What
<1>o. ~Over
  BY DEF Reached
<1>l. Over' \/ pc' \in Loop
  BY <1>w DEF Reached
<1>1. CASE Duplicates \/ ForeignKey
  <2>1. pc \in Loop /\ pc' \in Loop /\ k' = k
    BY <1>1 DEF Duplicates, ForeignKey, Loop
  <2>2. j = k /\ pc \notin Beyond(what) /\ pc' \in Beyond(what)
    BY <1>w, <2>1, LoopOrder
  <2> QED
    BY <1>1, <2>2 DEF Optional, Beyond, Duplicates, ForeignKey
<1>2. CASE CountStaging \/ CountTarget \/ NotNull \/ FetchSource \/ FetchTarget
  <2>1. pc \in Loop /\ pc' \in Loop /\ k' = k
    BY <1>2 DEF CountStaging, CountTarget, NotNull, FetchSource, FetchTarget, Loop
  <2>2. pc \notin Beyond(what) /\ pc' \in Beyond(what)
    BY <1>w, <2>1, LoopOrder
  <2> QED
    BY <1>2, <2>2 DEF Optional, Beyond, CountStaging, CountTarget, NotNull, FetchSource, FetchTarget
<1>3. CASE NoJoinKey \/ Compare
  BY <1>3, <1>w, NextTableReached DEF NoJoinKey, Compare
<1>4. CASE OpenData
  <2>1. pc' = "staging" /\ k' = 1 /\ ~(j < 1)
    BY <1>4, TableNumbers DEF OpenData, Control
  <2>2. ~Over' /\ pc' \notin Beyond(what)
    BY <2>1 DEF Over, Optional, Beyond
  <2> QED
    BY <1>w, <2>1, <2>2 DEF Reached
<1>5. CASE OpenReport \/ WriteReport
  BY <1>5, <1>o DEF OpenReport, WriteReport, Over
<1>6. CASE ValidateGeneration \/ Raise \/ Main
  BY <1>6, <1>l DEF ValidateGeneration, Raise, Main, Over, Loop, Statuses
<1>7. ASSUME NEW side \in Side, NoSchemaFile(side) \/ ValidateSchema(side)
      PROVE  FALSE
  BY <1>7, <1>l DEF NoSchemaFile, ValidateSchema, After, Side, Over, Loop
<1> QED
  BY <1>1, <1>2, <1>3, <1>4, <1>5, <1>6, <1>7 DEF Validate

LEMMA Unchanged ==
  ASSUME db' = db, files' = files
  PROVE  \A c : True(c)' <=> True(c)
<1>1. \A t : /\ UniqueKeys(t)' <=> UniqueKeys(t)
             /\ NoNulls(t)' <=> NoNulls(t)
             /\ \A u : Resolves(t, u)' <=> Resolves(t, u)
  BY DEF UniqueKeys, NoNulls, Resolves
<1>2. \A t, row : KeyOf(t, row)' = KeyOf(t, row)
  BY DEF KeyOf
<1>3. \A t, row : Origins(t, row)' = Origins(t, row)
  BY <1>2 DEF Origins
<1>4. \A t : /\ KeysDiffer(t)' <=> KeysDiffer(t)
             /\ ValuesRight(t)' <=> ValuesRight(t)
             /\ Tried(t)' <=> Tried(t)
  BY <1>2, <1>3 DEF KeysDiffer, ValuesRight, ValueIsRight, Tried
<1>5. ASSUME NEW w, NEW t
      PROVE  (Right(w, t)' <=> Right(w, t)) /\ (Wrong(w, t)' <=> Wrong(w, t))
  <2>1. Right(w, t)' <=> Right(w, t)
    BY <1>1, <1>4 DEF Right
  <2>2. Wrong(w, t)' <=> Wrong(w, t)
    BY <1>1, <1>4 DEF Wrong
  <2> QED
    BY <2>1, <2>2
<1> QED
  BY <1>5 DEF True

\* The reads of the table in hand stay true of it until the next table.
LEMMA ReadsAreTrue ==
  ASSUME TypeOK, Control, InHand, Validate, db' = db
  PROVE  InHand'
<1>1. CASE CountStaging
  BY <1>1 DEF CountStaging, InHand, T
<1>2. CASE CountTarget
  BY <1>2 DEF CountTarget, InHand, T
<1>3. CASE FetchSource \/ FetchTarget
  <2>1. k' = k /\ pc' \in {"fetch", "compare"} /\ T' = T
    BY <1>3 DEF FetchSource, FetchTarget, T
  <2>2. src_rows' = db[T].source /\ (pc' = "compare" => tgt_rows' = db[T].target)
    BY <1>3 DEF FetchSource, FetchTarget, InHand, results
  <2> QED
    BY <2>1, <2>2 DEF InHand
<1>4. CASE NoJoinKey \/ Compare
  BY <1>4, NextTableReached DEF NoJoinKey, Compare, InHand
<1>5. ASSUME NEW side \in Side, NoSchemaFile(side) \/ ValidateSchema(side)
      PROVE  InHand'
  BY <1>5 DEF NoSchemaFile, ValidateSchema, After, Side, InHand
<1>6. CASE ValidateGeneration \/ OpenData \/ Duplicates \/ NotNull \/ ForeignKey
             \/ OpenReport \/ WriteReport \/ Raise \/ Main
  BY <1>6 DEF ValidateGeneration, OpenData, Duplicates, NotNull, ForeignKey, OpenReport, WriteReport,
              Raise, Main, InHand
<1> QED
  BY <1>1, <1>2, <1>3, <1>4, <1>5, <1>6 DEF Validate

LEMMA NoteIsMade ==
  ASSUME NEW what, NEW about, NEW good, Judge(what, about, good)
  PROVE  \E c \in checks' : c[1] = <<what, about>>
<1>1. PICK status : checks' = checks \cup {<<<<what, about>>, status>>}
  BY Zenon DEF Judge, Note
<1>2. <<<<what, about>>, status>>[1] = <<what, about>>
  OBVIOUS
<1> QED
  BY <1>1, <1>2, Zenon

LEMMA LeftOutStep ==
  ASSUME TypeOK, Control, InHand, LeftOut, Validate, db' = db, checks \subseteq checks'
  PROVE  LeftOut'
<1>k. T = Tables[k] /\ k \in DOMAIN Tables
  BY DEF T, TypeOK
<1>j. \A w, about : Judged(w, about) => Judged(w, about)'
  BY DEF Judged
<1>1. ASSUME NEW j \in DOMAIN Tables, Reached("duplicates", j)'
      PROVE  Judged("duplicates", Tables[j])' \/ db'[Tables[j]].target = <<>>
  <2>1. CASE Reached("duplicates", j)
    BY <1>j, <2>1 DEF LeftOut
  <2>2. CASE ~Reached("duplicates", j)
    <3>1. j = k /\ Duplicates
      BY <1>1, <2>2, PassedBy DEF Optional
    <3>2. CASE counted > 0
      <4>j. Judge("duplicates", T, UniqueKeys(T))
        BY <3>1, <3>2 DEF Duplicates
      <4>1. \E c \in checks' : c[1] = <<"duplicates", T>>
        BY <4>j, NoteIsMade
      <4> QED
        BY <1>k, <3>1, <4>1 DEF Judged
    <3>3. CASE ~(counted > 0)
      <4>1. counted = Len(db[T].target) /\ db[T].target \in Seq(TargetRow)
        BY <3>1, HandedTable DEF Duplicates, InHand
      <4>2. Len(db[T].target) \in Nat
        BY <4>1
      <4>3. Len(db[T].target) = 0
        BY <3>3, <4>1, <4>2
      <4>4. db[T].target = <<>>
        BY <4>1, <4>3
      <4> QED
        BY <1>k, <3>1, <4>4
    <3> QED
      BY <3>2, <3>3
  <2> QED
    BY <2>1, <2>2
<1>2. ASSUME NEW j \in DOMAIN Tables, Reached("foreign key", j)'
      PROVE  Judged("foreign key", Tables[j])' \/ Referred(Tables[j]) = {}
  <2>1. CASE Reached("foreign key", j)
    BY <1>j, <2>1 DEF LeftOut
  <2>2. CASE ~Reached("foreign key", j)
    <3>1. j = k /\ ForeignKey
      BY <1>2, <2>2, PassedBy DEF Optional
    <3>2. CASE Referred(T) # {}
      <4>j. Judge("foreign key", T, \A u \in Referred(T) : Resolves(T, u))
        BY <3>1, <3>2 DEF ForeignKey
      <4>1. \E c \in checks' : c[1] = <<"foreign key", T>>
        BY <4>j, NoteIsMade
      <4> QED
        BY <1>k, <3>1, <4>1 DEF Judged
    <3> QED
      BY <1>k, <3>1, <3>2
  <2> QED
    BY <2>1, <2>2
<1> QED
  BY <1>1, <1>2 DEF LeftOut

LEMMA ChecksGrow ==
  ASSUME TypeOK, Validate
  PROVE  checks \subseteq checks'
<1>1. CASE ValidateGeneration
  BY <1>1 DEF ValidateGeneration, TypeOK
<1>2. \A side \in Side : NoSchemaFile(side) \/ ValidateSchema(side) => checks \subseteq checks'
  BY DEF NoSchemaFile, ValidateSchema, Judge, Note
<1>3. CASE CountTarget \/ Duplicates \/ NotNull
  BY <1>3 DEF CountTarget, Duplicates, NotNull, Judge, Note
<1>4. CASE ForeignKey \/ NoJoinKey \/ Compare
  BY <1>4 DEF ForeignKey, NoJoinKey, Compare, Judge, Note
<1>5. CASE OpenData \/ CountStaging \/ FetchSource \/ FetchTarget \/ OpenReport \/ WriteReport \/ Raise \/ Main
  BY <1>5 DEF OpenData, CountStaging, FetchSource, FetchTarget, OpenReport, WriteReport, Raise, Main
<1> QED
  BY <1>1, <1>2, <1>3, <1>4, <1>5 DEF Validate

LEMMA TruthStep ==
  ASSUME IInv, Truth, [Next]_vars
  PROVE  Truth'
<1>i. TypeOK /\ Control
  BY DEF IInv
<1>1. CASE Begin
  <2>1. pc' = "generation" /\ checks' = {}
    BY <1>1 DEF Begin
  <2>2. \A w, j : ~Reached(w, j)'
    BY <2>1 DEF Reached, Over, Loop
  <2> QED
    BY <2>1, <2>2 DEF Truth, InHand, LeftOut
<1>2. CASE Fault \/ Kill \/ Change
  BY <1>2 DEF Fault, Kill, Change, Truth
<1>3. CASE UNCHANGED vars
  <2>1. /\ UNCHANGED <<files, db, pc, k, checks, outcome, undisturbed>>
        /\ UNCHANGED <<staged, counted, src_rows, tgt_rows>>
    BY <1>3 DEF vars, world, results
  <2>2. Live' <=> Live
    BY <2>1 DEF Live, Working, Over
  <2>3. \A w, j : Reached(w, j)' <=> Reached(w, j)
    BY <2>1 DEF Reached, Over
  <2>4. LeftOut' <=> LeftOut
    BY <2>1, <2>3 DEF LeftOut, Judged
  <2>5. InHand' <=> InHand
    BY <2>1 DEF InHand, T
  <2> QED
    BY <2>1, <2>2, <2>4, <2>5, Unchanged DEF Truth
<1>4. CASE Validate
  <2> SUFFICES ASSUME undisturbed', Live' PROVE (\A c \in checks' : True(c)') /\ InHand' /\ LeftOut'
    BY DEF Truth
  <2>1. UNCHANGED <<files, db, undisturbed>> /\ Live
    BY <1>4 DEF Validate, Live, Working, Over, ValidateGeneration, NoSchemaFile, ValidateSchema, Side,
                OpenData, CountStaging, CountTarget, Duplicates, NotNull, ForeignKey, NoJoinKey,
                FetchSource, FetchTarget, Compare, OpenReport, WriteReport, Raise, Lacking, Main, world
  <2>2. (\A c \in checks : True(c)) /\ InHand /\ LeftOut
    BY <2>1 DEF Truth
  <2>3. \A c \in checks' : True(c)
    BY <1>i, <1>4, <2>2, NewIsTrue
  <2>4. \A c \in checks' : True(c)'
    BY <2>1, <2>3, Unchanged
  <2>5. checks \subseteq checks'
    BY <1>i, <1>4, ChecksGrow
  <2> QED
    BY <1>i, <1>4, <2>1, <2>2, <2>4, <2>5, ReadsAreTrue, LeftOutStep
<1> QED
  BY <1>1, <1>2, <1>3, <1>4 DEF Next

LEMMA TruthInvariant == Spec => [](IInv /\ Truth)
<1>1. Init => Truth
  BY DEF Init, Truth, Live, Working, Over
<1>2. IInv /\ Truth /\ [Next]_vars => Truth'
  BY TruthStep
<1> QED
  BY <1>1, <1>2, Invariant, PTL DEF Spec

\* What holds when run() returns a status and nothing has changed.
LEMMA WhenReturned ==
  ASSUME IInv, Truth, NEW status \in Statuses, Says(status)
  PROVE  /\ Over /\ files.schemas = Side /\ status = Status
         /\ Complete /\ Made /\ LeftOut
         /\ \A c \in checks : True(c) /\ c[2] \in Statuses
<1>1. Over /\ pc = "returned" /\ outcome = status /\ undisturbed
  BY DEF Says, Over
<1>2. files.schemas = Side /\ \A c \in checks : c[2] \in Statuses
  BY <1>1 DEF IInv, Control, TypeOK
<1> QED
  BY <1>1, <1>2 DEF IInv, Cover, Reported, Truth, Live

\* PASS is never a false assurance.
THEOREM PassHolds == Spec => []PassIsTrue
<1>1. IInv /\ Truth => PassIsTrue
  <2> SUFFICES ASSUME IInv, Truth, Says("PASS")
               PROVE  /\ FilesAreGood /\ files.doubtful = {}
                      /\ \A t \in Table :
                           /\ Sound(t)
                           /\ Tried(t)
                           /\ KeysDiffer(t) => ValuesRight(t)
    BY DEF PassIsTrue, Tried, ValuesRight
  <2>1. /\ Over /\ files.schemas = Side /\ "PASS" = Status
        /\ Complete /\ Made /\ LeftOut
        /\ \A c \in checks : True(c) /\ c[2] \in Statuses
    BY WhenReturned DEF Statuses
  <2>2. \A c \in checks : c[2] = "PASS"
    BY <2>1 DEF Status, Has, Statuses
  <2>3. \A what, j : Reached(what, j)
    BY <2>1 DEF Reached
  <2>4. files \in Files /\ db \in Databases /\ pc # "generation"
    BY <2>1 DEF IInv, TypeOK, Over
  <2>5. files.manifest
    <3> SUFFICES ASSUME ~files.manifest PROVE FALSE
      OBVIOUS
    <3>1. PICK c \in checks : c[1] = <<"manifest", "project">>
      BY <2>1, <2>4 DEF Complete, Judged
    <3> QED
      BY <2>1, <2>2, <3>1 DEF True
  <2>6. files.bad = {} /\ files.doubtful = {}
    <3>1. ASSUME NEW part \in Part PROVE part \notin files.bad \cup files.doubtful
      <4>1. PICK c \in checks : c[1] = <<part, "project">>
        BY <2>1, <2>4, <2>5 DEF Complete, Judged
      <4> QED
        BY <2>1, <2>2, <4>1 DEF True
    <3>2. files.bad \subseteq Part /\ files.doubtful \subseteq Part
      BY <2>4 DEF Files, Part
    <3> QED
      BY <3>1, <3>2
  <2>7. ASSUME NEW t \in Table
        PROVE  Sound(t) /\ Tried(t) /\ (KeysDiffer(t) => ValuesRight(t))
    <3>1. PICK j \in DOMAIN Tables : t = Tables[j]
      BY DEF Table
    <3>2. ASSUME NEW what \in What, Judged(what, t) PROVE Right(what, t)
      BY <2>1, <2>2, <3>2 DEF Judged, True
    <3>3. ASSUME NEW what \in What \ Optional PROVE Right(what, t)
      <4>1. Judged(what, t)
        BY <2>1, <2>3, <3>1 DEF Complete
      <4> QED
        BY <3>2, <4>1
    <3>4. Right("source", t) /\ Right("target", t) /\ Right("rowcount", t) /\ Right("notnull", t) /\ Right("udf", t)
      BY <3>3 DEF What, Optional, Side, Data
    <3>5. /\ "source" \notin db[t].missing \cup db[t].differs
          /\ "target" \notin db[t].missing \cup db[t].differs
          /\ "staging" \notin db[t].missing /\ db[t].staged = Len(db[t].target)
          /\ NoNulls(t) /\ Tried(t) /\ (KeysDiffer(t) => ValuesRight(t))
      BY <3>4 DEF Right, Side
    <3>6. db[t].missing \subseteq {"source", "staging", "target"} /\ db[t].differs \subseteq Side
      BY <2>4 DEF Databases, Content
    <3>7. db[t].missing = {} /\ db[t].differs = {}
      BY <3>5, <3>6 DEF Side
    <3>8. UniqueKeys(t)
      <4>1. Right("duplicates", t) => UniqueKeys(t)
        BY DEF Right
      <4>2. db[t].target = <<>> => UniqueKeys(t)
        BY DEF UniqueKeys
      <4>3. Judged("duplicates", t) \/ db[t].target = <<>>
        BY <2>1, <2>3, <3>1 DEF LeftOut
      <4> QED
        BY <3>2, <4>1, <4>2, <4>3 DEF What, Data
    <3>9. \A u \in Referred(t) : Resolves(t, u)
      <4>1. Right("foreign key", t) => \A u \in Referred(t) : Resolves(t, u)
        BY DEF Right
      <4>2. Judged("foreign key", t) \/ Referred(t) = {}
        BY <2>1, <2>3, <3>1 DEF LeftOut
      <4> QED
        BY <3>2, <4>1, <4>2 DEF What, Data
    <3> QED
      BY <3>5, <3>7, <3>8, <3>9 DEF Sound
  <2> QED
    BY <2>1, <2>5, <2>6, <2>7 DEF FilesAreGood
<1> QED
  BY <1>1, TruthInvariant, PTL

\* FAIL is never a false alarm.
THEOREM FailHolds == Spec => []FailIsTrue
<1>1. IInv /\ Truth => FailIsTrue
  <2> SUFFICES ASSUME IInv, Truth, Says("FAIL")
               PROVE  ~FilesAreGood \/ \E t \in Table : ~Sound(t) \/ ~ValuesRight(t)
    BY DEF FailIsTrue, ValuesRight
  <2>1. /\ "FAIL" = Status /\ Made /\ \A c \in checks : True(c)
    BY WhenReturned DEF Statuses
  <2>2. PICK c \in checks : c[2] = "FAIL"
    BY <2>1 DEF Status, Has
  <2>3. CASE OfProject(c)
    <3>1. CASE ~files.manifest
      BY <3>1 DEF FilesAreGood
    <3>2. CASE files.manifest
      <4>1. PICK part \in Part : c[1] = <<part, "project">>
        BY <2>3, <3>2 DEF OfProject
      <4>2. part \in files.bad
        BY <2>1, <2>2, <4>1 DEF True
      <4> QED
        BY <4>2 DEF FilesAreGood
    <3> QED
      BY <3>1, <3>2
  <2>4. CASE OfSchema(c)
    BY <2>4 DEF OfSchema, FilesAreGood
  <2>5. CASE OfTable(c)
    <3>1. PICK what \in What, j \in DOMAIN Tables : c[1] = <<what, Tables[j]>>
      BY <2>5 DEF OfTable
    <3>2. Tables[j] \in Table /\ Wrong(what, Tables[j])
      BY <2>1, <2>2, <3>1 DEF True, Table
    <3>3. ~Sound(Tables[j]) \/ ~ValuesRight(Tables[j])
      BY <3>2 DEF Wrong, Sound, What, Data, Side
    <3> QED
      BY <3>2, <3>3
  <2> QED
    BY <2>1, <2>3, <2>4, <2>5 DEF Made
<1> QED
  BY <1>1, TruthInvariant, PTL

-----------------------------------------------------------------------------
(* What a call may still do *)

\* The steps to the end of the call at most, from a place in the loop over the
\* tables if there is no other table, or from a place after it.
ToTheEnd(here) ==
  CASE here = "staging"     -> 11
    [] here = "rowcount"    -> 10
    [] here = "duplicates"  -> 9
    [] here = "notnull"     -> 8
    [] here = "foreign key" -> 7
    [] here = "udf"         -> 6
    [] here = "fetch"       -> 5
    [] here = "compare"     -> 4
    [] here = "aggregate"   -> 3
    [] here = "write"       -> 2
    [] here = "returned"    -> 1
    [] here = "idle"        -> 0

End == {"aggregate", "write", "returned", "idle"}

\* The steps that a call can still make at most, with the j-th of n tables in
\* hand: eight for each table in the loop, one in each of the two schemas.
StepsFrom(here, j, n) ==
  CASE here = "generation" -> 10 * n + 5
    [] here = "source"     -> 9 * n + 4 + (n + 1 - j)
    [] here = "target"     -> 8 * n + 4 + (n + 1 - j)
    [] here = "data"       -> 8 * n + 4
    [] here \in Loop       -> 8 * (n - j) + ToTheEnd(here)
    [] here \in End        -> ToTheEnd(here)

StepsLeft == StepsFrom(pc, k, Len(Tables))

\* How a call gets from one place to the next.
Move(here, there, j, m, n) ==
  \/ here \notin {"idle", "returned"} /\ there = "returned"
  \/ here # "idle" /\ there = "idle"
  \/ /\ m = 1 /\ j = 1
     /\ \/ here = "generation" /\ there = "source"
        \/ here = "data" /\ there = "staging"
  \/ here \in Side /\ there = After(here) /\ m = 1
  \/ here \in Side /\ there = here /\ m = j + 1
  \/ /\ m = j
     /\ \/ here = "staging"     /\ there = "rowcount"
        \/ here = "rowcount"    /\ there = "duplicates"
        \/ here = "duplicates"  /\ there = "notnull"
        \/ here = "notnull"     /\ there = "foreign key"
        \/ here = "foreign key" /\ there = "udf"
        \/ here = "udf"         /\ there = "fetch"
        \/ here = "fetch"       /\ there = "compare"
        \/ here = "aggregate"   /\ there = "write"
  \/ here \in {"udf", "compare"} /\ there = "staging" /\ m = j + 1
  \/ here \in {"udf", "compare"} /\ there = "aggregate"

CallAdvances ==
  /\ Validate => StepsLeft' < StepsLeft
  /\ pc = "idle" \/ StepsLeft' <= StepsLeft

LEMMA ToTheEndOf ==
  /\ ToTheEnd("staging") = 11 /\ ToTheEnd("rowcount") = 10 /\ ToTheEnd("duplicates") = 9
  /\ ToTheEnd("notnull") = 8 /\ ToTheEnd("foreign key") = 7 /\ ToTheEnd("udf") = 6
  /\ ToTheEnd("fetch") = 5 /\ ToTheEnd("compare") = 4
  /\ ToTheEnd("aggregate") = 3 /\ ToTheEnd("write") = 2
  /\ ToTheEnd("returned") = 1 /\ ToTheEnd("idle") = 0
BY Zenon DEF ToTheEnd

LEMMA ToTheEndBound ==
  /\ \A here \in Loop : ToTheEnd(here) \in 4..11
  /\ \A here \in End : ToTheEnd(here) \in 0..3
  /\ \A here \in End \ {"idle"} : ToTheEnd(here) > 0
  /\ \A here \in End \ {"idle", "returned"} : ToTheEnd(here) > 1
<1>1. \A x \in {4, 5, 6, 7, 8, 9, 10, 11} : x \in 4..11
  OBVIOUS
<1>2. /\ 3 \in 0..3 /\ 2 \in 0..3 /\ 1 \in 0..3 /\ 0 \in 0..3
      /\ 3 > 0 /\ 2 > 0 /\ 1 > 0 /\ 3 > 1 /\ 2 > 1
  OBVIOUS
<1>3. \A here \in Loop : ToTheEnd(here) \in 4..11
  BY <1>1, ToTheEndOf, Zenon DEF Loop
<1>4. /\ \A here \in End : ToTheEnd(here) \in 0..3
      /\ \A here \in End \ {"idle"} : ToTheEnd(here) > 0
      /\ \A here \in End \ {"idle", "returned"} : ToTheEnd(here) > 1
  BY <1>2, ToTheEndOf, Zenon DEF End
<1> QED
  BY <1>3, <1>4

LEMMA StepsFromOf ==
  ASSUME NEW j, NEW n
  PROVE  /\ StepsFrom("generation", j, n) = 10 * n + 5
         /\ StepsFrom("source", j, n) = 9 * n + 4 + (n + 1 - j)
         /\ StepsFrom("target", j, n) = 8 * n + 4 + (n + 1 - j)
         /\ StepsFrom("data", j, n) = 8 * n + 4
         /\ \A here \in Loop : StepsFrom(here, j, n) = 8 * (n - j) + ToTheEnd(here)
         /\ \A here \in End : StepsFrom(here, j, n) = ToTheEnd(here)
BY DEF StepsFrom, Loop, End

LEMMA StepsFromEnd ==
  ASSUME NEW j, NEW n
  PROVE  /\ StepsFrom("aggregate", j, n) = 3 /\ StepsFrom("write", j, n) = 2
         /\ StepsFrom("returned", j, n) = 1 /\ StepsFrom("idle", j, n) = 0
<1>1. \A here \in {"aggregate", "write", "returned", "idle"} : here \in End
  BY DEF End
<1>2. \A here \in End : StepsFrom(here, j, n) = ToTheEnd(here)
  BY StepsFromOf
<1>3. /\ ToTheEnd("aggregate") = 3 /\ ToTheEnd("write") = 2
      /\ ToTheEnd("returned") = 1 /\ ToTheEnd("idle") = 0
  BY ToTheEndOf, Zenon
<1> QED
  BY <1>1, <1>2, <1>3, Zenon

LEMMA StepsFromBound ==
  ASSUME NEW here \in Places, NEW n \in Nat \ {0}, NEW j \in 1..n
  PROVE  /\ StepsFrom(here, j, n) \in 0..(10 * n + 5)
         /\ here # "idle" => StepsFrom(here, j, n) > 0
         /\ here \notin {"idle", "returned"} => StepsFrom(here, j, n) > 1
<1>1. CASE here \in {"generation", "source", "target", "data"}
  BY <1>1, StepsFromOf
<1>2. CASE here \in Loop
  <2>1. StepsFrom(here, j, n) = 8 * (n - j) + ToTheEnd(here) /\ ToTheEnd(here) \in 4..11
    BY <1>2, StepsFromOf, ToTheEndBound
  <2> QED
    BY <2>1
<1>3. CASE here \in End
  <2>1. StepsFrom(here, j, n) = ToTheEnd(here)
    BY <1>3, StepsFromOf
  <2>2. /\ ToTheEnd(here) \in 0..3
        /\ here # "idle" => ToTheEnd(here) > 0
        /\ here \notin {"idle", "returned"} => ToTheEnd(here) > 1
    BY <1>3, ToTheEndBound
  <2> QED
    BY <2>1, <2>2
<1> QED
  BY <1>1, <1>2, <1>3 DEF Places, Loop, End

LEMMA MoveIsForward ==
  ASSUME NEW here \in Places, NEW there \in Places, NEW n \in Nat \ {0},
         NEW j \in 1..n, NEW m \in 1..n, Move(here, there, j, m, n)
  PROVE  StepsFrom(there, m, n) < StepsFrom(here, j, n)
<1>1. CASE here \notin {"idle", "returned"} /\ there = "returned"
  <2>1. StepsFrom(there, m, n) = 1
    BY <1>1, StepsFromEnd, Zenon
  <2>2. StepsFrom(here, j, n) \in Nat /\ StepsFrom(here, j, n) > 1
    BY <1>1, StepsFromBound
  <2> QED
    BY <2>1, <2>2
<1>2. CASE here # "idle" /\ there = "idle"
  <2>1. StepsFrom(there, m, n) = 0
    BY <1>2, StepsFromEnd, Zenon
  <2>2. StepsFrom(here, j, n) \in Nat /\ StepsFrom(here, j, n) > 0
    BY <1>2, StepsFromBound
  <2> QED
    BY <2>1, <2>2
<1>3. CASE here = "generation" /\ there = "source" /\ m = 1
  BY <1>3, StepsFromOf
<1>4. CASE here = "data" /\ there = "staging" /\ m = 1
  <2>1. StepsFrom(here, j, n) = 8 * n + 4
    BY <1>4, StepsFromOf
  <2>2. there \in Loop
    BY <1>4 DEF Loop
  <2>3. StepsFrom(there, m, n) = 8 * (n - m) + ToTheEnd(there)
    BY <2>2, StepsFromOf
  <2>4. ToTheEnd(there) = 11
    BY <1>4, ToTheEndOf, Zenon
  <2> QED
    BY <1>4, <2>1, <2>3, <2>4
<1>5. CASE here \in Side /\ there = After(here) /\ m = 1
  BY <1>5, StepsFromOf DEF Side, After
<1>6. CASE here \in Side /\ there = here /\ m = j + 1
  BY <1>6, StepsFromOf DEF Side
<1>7. CASE here \in Loop /\ there \in Loop /\ m = j /\ ToTheEnd(there) < ToTheEnd(here)
  <2>1. /\ StepsFrom(here, j, n) = 8 * (n - j) + ToTheEnd(here)
        /\ StepsFrom(there, m, n) = 8 * (n - j) + ToTheEnd(there)
    BY <1>7, StepsFromOf
  <2>2. ToTheEnd(here) \in Nat /\ ToTheEnd(there) \in Nat /\ ToTheEnd(there) < ToTheEnd(here)
    BY <1>7, ToTheEndBound
  <2> QED
    BY <2>1, <2>2
<1>8. CASE here \in Loop /\ there = "staging" /\ m = j + 1
  <2>1. StepsFrom(here, j, n) = 8 * (n - j) + ToTheEnd(here) /\ ToTheEnd(here) \in 4..11
    BY <1>8, StepsFromOf, ToTheEndBound
  <2>2. there \in Loop
    BY <1>8 DEF Loop
  <2>3. StepsFrom(there, m, n) = 8 * (n - m) + ToTheEnd(there)
    BY <2>2, StepsFromOf
  <2>4. ToTheEnd(there) = 11
    BY <1>8, ToTheEndOf, Zenon
  <2> QED
    BY <1>8, <2>1, <2>3, <2>4
<1>9. CASE here \in Loop /\ there = "aggregate"
  <2>1. StepsFrom(here, j, n) = 8 * (n - j) + ToTheEnd(here) /\ ToTheEnd(here) \in 4..11
    BY <1>9, StepsFromOf, ToTheEndBound
  <2>2. StepsFrom(there, m, n) = 3
    BY <1>9, StepsFromEnd, Zenon
  <2> QED
    BY <2>1, <2>2
<1>10. CASE here = "aggregate" /\ there = "write"
  <2>1. StepsFrom(here, j, n) = 3 /\ StepsFrom(there, m, n) = 2
    BY <1>10, StepsFromEnd, Zenon
  <2> QED
    BY <2>1
<1>0. 10 < 11 /\ 9 < 10 /\ 8 < 9 /\ 7 < 8 /\ 6 < 7 /\ 5 < 6 /\ 4 < 5
  OBVIOUS
<1>11. /\ ToTheEnd("rowcount") < ToTheEnd("staging")
       /\ ToTheEnd("duplicates") < ToTheEnd("rowcount")
       /\ ToTheEnd("notnull") < ToTheEnd("duplicates")
       /\ ToTheEnd("foreign key") < ToTheEnd("notnull")
       /\ ToTheEnd("udf") < ToTheEnd("foreign key")
       /\ ToTheEnd("fetch") < ToTheEnd("udf")
       /\ ToTheEnd("compare") < ToTheEnd("fetch")
  BY <1>0, ToTheEndOf, Zenon
<1>12. \/ here \notin {"idle", "returned"} /\ there = "returned"
       \/ here # "idle" /\ there = "idle"
       \/ here = "generation" /\ there = "source" /\ m = 1
       \/ here = "data" /\ there = "staging" /\ m = 1
       \/ here \in Side /\ there = After(here) /\ m = 1
       \/ here \in Side /\ there = here /\ m = j + 1
       \/ here \in Loop /\ there \in Loop /\ m = j /\ ToTheEnd(there) < ToTheEnd(here)
       \/ here \in Loop /\ there = "staging" /\ m = j + 1
       \/ here \in Loop /\ there = "aggregate"
       \/ here = "aggregate" /\ there = "write"
  BY <1>11 DEF Move, Loop
<1> QED
  BY <1>1, <1>2, <1>3, <1>4, <1>5, <1>6, <1>7, <1>8, <1>9, <1>10, <1>12, Zenon

\* Every step of a call, and its end, is a move.
LEMMA StepIsMove ==
  ASSUME TypeOK, Control, Validate \/ Fault \/ Kill
  PROVE  Move(pc, pc', k, k', Len(Tables))
<1> USE DEF Move
<1>1. CASE ValidateGeneration
  BY <1>1 DEF ValidateGeneration, TypeOK
<1>2. ASSUME NEW side \in Side, NoSchemaFile(side)
      PROVE  Move(pc, pc', k, k', Len(Tables))
  <2>1. pc \in Side /\ pc' = After(pc) /\ k' = 1
    BY <1>2 DEF NoSchemaFile, Control
  <2> QED
    BY <2>1
<1>3. ASSUME NEW side \in Side, ValidateSchema(side)
      PROVE  Move(pc, pc', k, k', Len(Tables))
  <2>1. /\ pc \in Side
        /\ \/ pc' = pc /\ k' = k + 1
           \/ pc' = After(pc) /\ k' = 1
    BY <1>3 DEF ValidateSchema
  <2> QED
    BY <2>1
<1>4. CASE OpenData
  BY <1>4 DEF OpenData, Control
<1>5. CASE CountStaging \/ CountTarget \/ Duplicates \/ NotNull \/ ForeignKey
  BY <1>5 DEF CountStaging, CountTarget, Duplicates, NotNull, ForeignKey
<1>6. CASE FetchSource \/ FetchTarget \/ OpenReport
  BY <1>6 DEF FetchSource, FetchTarget, OpenReport
<1>7. CASE NoJoinKey \/ Compare
  <2>1. pc \in {"udf", "compare"} /\ NextTable
    BY <1>7 DEF NoJoinKey, Compare
  <2>2. \/ pc' = "staging" /\ k' = k + 1
        \/ pc' = "aggregate"
    BY <2>1 DEF NextTable
  <2> QED
    BY <2>1, <2>2
<1>8. CASE WriteReport \/ Raise \/ Fault \/ Main \/ Kill
  BY <1>8 DEF WriteReport, Raise, Lacking, Fault, Main, Kill, Working
<1> QED
  BY <1>1, <1>2, <1>3, <1>4, <1>5, <1>6, <1>7, <1>8 DEF Validate

LEMMA StepsDecrease ==
  ASSUME IInv, IInv', [Next]_vars
  PROVE  CallAdvances
<1> DEFINE n     == Len(Tables)
           there == pc'
           m     == k'
<1>1. /\ pc \in Places /\ k \in 1..n /\ n \in Nat \ {0}
      /\ there \in Places /\ m \in 1..n
  BY TableNumbers DEF IInv, TypeOK
<1>2. StepsLeft = StepsFrom(pc, k, n) /\ StepsLeft' = StepsFrom(there, m, n)
  BY DEF StepsLeft
<1>3. CASE Validate \/ Fault \/ Kill
  <2>1. Move(pc, there, k, m, n)
    BY <1>3, StepIsMove DEF IInv
  <2> HIDE DEF n, there, m
  <2>2. StepsFrom(there, m, n) < StepsFrom(pc, k, n)
    BY <1>1, <2>1, MoveIsForward
  <2>3. StepsFrom(there, m, n) \in Nat /\ StepsFrom(pc, k, n) \in Nat
    BY <1>1, StepsFromBound
  <2> QED
    BY <1>2, <2>2, <2>3 DEF CallAdvances
<1>4. CASE Begin /\ ~Validate
  BY <1>4 DEF Begin, CallAdvances
<1>5. CASE (Change \/ UNCHANGED vars) /\ ~Validate
  <2>1. StepsLeft' = StepsLeft
    BY <1>5 DEF StepsLeft, Change, vars
  <2>2. StepsLeft \in Nat
    BY <1>1, <1>2, StepsFromBound
  <2> QED
    BY <1>5, <2>1, <2>2 DEF CallAdvances
<1> QED
  BY <1>3, <1>4, <1>5 DEF Next

\* A call over n tables makes 10 n + 5 steps at most: each brings its end
\* nearer, whatever is changed in the databases or missing from them.
THEOREM CallsAreBounded ==
  Spec => [](StepsLeft \in 0..(10 * Len(Tables) + 5)) /\ [][CallAdvances]_vars
<1>1. IInv => StepsLeft \in 0..(10 * Len(Tables) + 5)
  <2> SUFFICES ASSUME IInv PROVE StepsLeft \in 0..(10 * Len(Tables) + 5)
    OBVIOUS
  <2>1. pc \in Places /\ k \in 1..Len(Tables) /\ Len(Tables) \in Nat \ {0}
    BY TableNumbers DEF IInv, TypeOK
  <2> QED
    BY <2>1, StepsFromBound DEF StepsLeft
<1>2. IInv /\ IInv' /\ [Next]_vars => [CallAdvances]_vars
  BY StepsDecrease
<1> QED
  BY <1>1, <1>2, Invariant, PTL DEF Spec
=============================================================================
