------------------------ MODULE DatabaseAdmin_proofs ------------------------
(***************************************************************************)
(* Safety of dbadmin.py for every number of processes, clients and calls   *)
(* and every list of databases.  Over TypeOK and Control, which says what  *)
(* a place in the code means for the call that is there and that a call    *)
(* that is alone finds the others idle, there are three invariants, one    *)
(* for each thing a call builds up as it goes through its list:            *)
(*   Renewed      a reset has left behind no database older than itself    *)
(*   EmptySoFar   a reset that is alone has left each of them empty        *)
(*   DoneSoFar    a bootstrap that is alone has done every script before   *)
(* Renewed survives any interleaving, since a database is only ever        *)
(* replaced by a younger one; the other two do not, and need "alone".      *)
(***************************************************************************)
EXTENDS DatabaseAdminProperties, TLAPS

Fields(c) ==
  /\ c.kind \in Kinds /\ c.pc \in Places /\ c.databases \in {<<>>} \cup Requests
  /\ c.k \in Nat \ {0} /\ c.t \in Nat \ {0} /\ c.since \in 0..MaxCalls
  /\ c.alone \in BOOLEAN /\ c.outcome \in Outcomes

LEMMA CallFields == \A c \in Call : Fields(c)
BY DEF Call, Fields

\* What GoTo leaves of the call it changes.
SameBut(c, d, here) ==
  /\ d.pc = here /\ d.kind = c.kind /\ d.databases = c.databases
  /\ d.k = c.k /\ d.t = c.t /\ d.since = c.since /\ d.alone = c.alone

\* What Begin leaves of the calls of the others.
SameButAlone(c, d) ==
  /\ d.pc = c.pc /\ d.kind = c.kind /\ d.databases = c.databases
  /\ d.k = c.k /\ d.t = c.t /\ d.since = c.since /\ d.outcome = c.outcome
  /\ d.alone => c.pc = "idle"

LEMMA GoToCall ==
  ASSUME NEW p \in Admins, call \in [Admins -> Call], NEW here \in Places, GoTo(p, here)
  PROVE  /\ call' \in [Admins -> Call]
         /\ SameBut(call[p], call'[p], here) /\ call'[p].outcome = call[p].outcome
         /\ \A q \in Admins : q # p => call'[q] = call[q]
<1> DEFINE d == [call[p] EXCEPT !.pc = here]
<1>1. call' = [call EXCEPT ![p] = d]
  BY DEF GoTo
<1>2. d \in Call /\ SameBut(call[p], d, here) /\ d.outcome = call[p].outcome
  BY DEF Call, SameBut
<1> HIDE DEF d
<1>3. QED
  BY <1>1, <1>2

LEMMA ReturnCall ==
  ASSUME NEW p \in Admins, call \in [Admins -> Call], NEW how \in Outcomes, Return(p, how)
  PROVE  /\ call' \in [Admins -> Call]
         /\ SameBut(call[p], call'[p], "returned") /\ call'[p].outcome = how
         /\ \A q \in Admins : q # p => call'[q] = call[q]
<1> DEFINE d == [call[p] EXCEPT !.pc = "returned", !.outcome = how]
<1>1. call' = [call EXCEPT ![p] = d]
  BY DEF Return
<1>2. d \in Call /\ SameBut(call[p], d, "returned") /\ d.outcome = how
  BY DEF Call, SameBut, Places, Resting
<1> HIDE DEF d
<1>3. QED
  BY <1>1, <1>2

LEMMA NextDatabaseCall ==
  ASSUME NEW p \in Admins, call \in [Admins -> Call], NextDatabase(p)
  PROVE  /\ call' \in [Admins -> Call]
         /\ call'[p].pc = "terminate" /\ call'[p].k = call[p].k + 1
         /\ call'[p].kind = call[p].kind /\ call'[p].databases = call[p].databases
         /\ call'[p].since = call[p].since /\ call'[p].alone = call[p].alone
         /\ \A q \in Admins : q # p => call'[q] = call[q]
<1> DEFINE d == [call[p] EXCEPT !.pc = "terminate", !.k = call[p].k + 1]
<1>1. call' = [call EXCEPT ![p] = d]
  BY DEF NextDatabase
<1>2. call[p].k + 1 \in Nat \ {0} /\ "terminate" \in Places
  BY CallFields DEF Fields, Places, Changing
<1>3. d \in Call
  BY <1>2 DEF Call
<1>4. /\ d.pc = "terminate" /\ d.k = call[p].k + 1
      /\ d.kind = call[p].kind /\ d.databases = call[p].databases
      /\ d.since = call[p].since /\ d.alone = call[p].alone
  BY DEF Call
<1> HIDE DEF d
<1>5. QED
  BY <1>1, <1>3, <1>4

LEMMA NextTargetCall ==
  ASSUME NEW p \in Admins, call \in [Admins -> Call], NextTarget(p)
  PROVE  /\ call' \in [Admins -> Call]
         /\ call'[p].kind = call[p].kind /\ call'[p].databases = call[p].databases
         /\ call'[p].since = call[p].since /\ call'[p].alone = call[p].alone
         /\ \/ /\ call[p].t < Len(ThisStep(p).targets)
               /\ call'[p].pc = "psql" /\ call'[p].t = call[p].t + 1 /\ call'[p].k = call[p].k
            \/ /\ ~(call[p].t < Len(ThisStep(p).targets))
               /\ call'[p].pc = "file" /\ call'[p].t = 1 /\ call'[p].k = call[p].k + 1
         /\ \A q \in Admins : q # p => call'[q] = call[q]
<1>1. CASE call[p].t < Len(ThisStep(p).targets)
  <2> DEFINE d == [call[p] EXCEPT !.pc = "psql", !.t = call[p].t + 1]
  <2>1. call' = [call EXCEPT ![p] = d]
    BY <1>1 DEF NextTarget
  <2>2. call[p].t + 1 \in Nat \ {0} /\ "psql" \in Places
    BY CallFields DEF Fields, Places
  <2>3. d \in Call
    BY <2>2 DEF Call
  <2>4. /\ d.pc = "psql" /\ d.t = call[p].t + 1 /\ d.k = call[p].k
        /\ d.kind = call[p].kind /\ d.databases = call[p].databases
        /\ d.since = call[p].since /\ d.alone = call[p].alone
    BY DEF Call
  <2> HIDE DEF d
  <2>5. QED
    BY <1>1, <2>1, <2>3, <2>4
<1>2. CASE ~(call[p].t < Len(ThisStep(p).targets))
  <2> DEFINE d == [call[p] EXCEPT !.pc = "file", !.t = 1, !.k = call[p].k + 1]
  <2>1. call' = [call EXCEPT ![p] = d]
    BY <1>2 DEF NextTarget
  <2>2. call[p].k + 1 \in Nat \ {0} /\ 1 \in Nat \ {0} /\ "file" \in Places
    BY CallFields DEF Fields, Places
  <2>3. d \in Call
    <3> DEFINE n == call[p].k + 1
    <3> HIDE DEF n
    <3>1. [call[p] EXCEPT !.pc = "file", !.t = 1, !.k = n] \in Call
      BY <2>2 DEF Call, n
    <3>2. QED
      BY <3>1 DEF n
  <2>4. /\ d.pc = "file" /\ d.t = 1 /\ d.k = call[p].k + 1
        /\ d.kind = call[p].kind /\ d.databases = call[p].databases
        /\ d.since = call[p].since /\ d.alone = call[p].alone
    BY DEF Call
  <2> HIDE DEF d
  <2>5. QED
    BY <1>2, <2>1, <2>3, <2>4
<1>3. QED
  BY <1>1, <1>2

LEMMA NoCallType == NoCall \in Call
BY MaxCallsAssumption DEF NoCall, Call, Kinds, Places, Resting, Outcomes

LEMMA EndCall ==
  ASSUME NEW p \in Admins, call \in [Admins -> Call], call' = [call EXCEPT ![p] = NoCall]
  PROVE  /\ call' \in [Admins -> Call]
         /\ call'[p].pc = "idle"
         /\ \A q \in Admins : q # p => call'[q] = call[q]
BY NoCallType DEF NoCall

LEMMA BeginCall ==
  ASSUME NEW p \in Admins, call \in [Admins -> Call], calls \in 0..MaxCalls,
         NEW kind \in Kinds, NEW here \in Places, NEW databases \in {<<>>} \cup Requests,
         Begin(p, kind, here, databases)
  PROVE  /\ call' \in [Admins -> Call]
         /\ calls' = calls + 1 /\ calls' \in 0..MaxCalls
         /\ call[p].pc = "idle"
         /\ call'[p].kind = kind /\ call'[p].pc = here /\ call'[p].databases = databases
         /\ call'[p].k = 1 /\ call'[p].t = 1 /\ call'[p].since = calls'
         /\ call'[p].alone => \A q \in Admins : call[q].pc = "idle"
         /\ \A q \in Admins : q # p => SameButAlone(call[q], call'[q])
<1> DEFINE d == [NoCall EXCEPT !.kind = kind, !.pc = here, !.databases = databases,
                               !.since = calls', !.alone = \A o \in Admins : At(o, "idle")]
           e(q) == [call[q] EXCEPT !.alone = At(q, "idle")]
<1>1. calls' = calls + 1 /\ calls < MaxCalls /\ call[p].pc = "idle"
  BY Zenon DEF Begin, At
<1>2. calls' = calls + 1 /\ calls' \in 0..MaxCalls /\ call[p].pc = "idle"
  BY <1>1, MaxCallsAssumption
<1>3. call' = [q \in Admins |-> IF q = p THEN d ELSE e(q)]
  BY DEF Begin
<1>4. d \in Call
  BY <1>2, NoCallType DEF Call
<1>5. /\ d.kind = kind /\ d.pc = here /\ d.databases = databases
      /\ d.k = 1 /\ d.t = 1 /\ d.since = calls'
      /\ d.alone => \A q \in Admins : call[q].pc = "idle"
  BY DEF NoCall, At
<1>6. ASSUME NEW q \in Admins
      PROVE  e(q) \in Call /\ SameButAlone(call[q], e(q))
  BY DEF Call, SameButAlone, At
<1> HIDE DEF d, e
<1>7. QED
  BY <1>2, <1>3, <1>4, <1>5, <1>6

-----------------------------------------------------------------------------
LEMMA StepsShape ==
  /\ Len(BootstrapSteps) \in Nat /\ DOMAIN BootstrapSteps = 1..Len(BootstrapSteps)
  /\ \A k \in DOMAIN BootstrapSteps :
       /\ BootstrapSteps[k].script \in Script
       /\ BootstrapSteps[k].targets \in Seq(Managed)
       /\ BootstrapSteps[k].targets # <<>>
<1>1. Len(BootstrapSteps) = 8 /\ DOMAIN BootstrapSteps = 1..8
  BY DEF BootstrapSteps
<1>2. \A k \in DOMAIN BootstrapSteps : BootstrapSteps[k].script \in Script
  BY DEF Script
<1>3. Managed = {"source_db", "intermediate_db", "target_db"}
  BY DEF Managed, MANAGED_DATABASES
<1>4. MANAGED_DATABASES \in Seq(Managed) /\ MANAGED_DATABASES # <<>>
  BY <1>3 DEF MANAGED_DATABASES
<1>5. \A k \in 1..8 :
        \/ BootstrapSteps[k].targets = MANAGED_DATABASES
        \/ \E db \in {"source_db", "intermediate_db", "target_db"} :
             BootstrapSteps[k].targets = <<db>>
  BY DEF BootstrapSteps, On
<1>6. ASSUME NEW db \in Managed
      PROVE  <<db>> \in Seq(Managed) /\ <<db>> # <<>>
  OBVIOUS
<1>7. ASSUME NEW k \in 1..8
      PROVE  BootstrapSteps[k].targets \in Seq(Managed) /\ BootstrapSteps[k].targets # <<>>
  <2>1. CASE BootstrapSteps[k].targets = MANAGED_DATABASES
    BY <1>4, <2>1
  <2>2. CASE \E db \in Managed : BootstrapSteps[k].targets = <<db>>
    BY <1>6, <2>2
  <2>3. QED
    BY <1>3, <1>5, <2>1, <2>2
<1>8. QED
  BY <1>1, <1>2, <1>7

LEMMA DatabasesType ==
  ASSUME TypeOK, NEW p \in Admins
  PROVE  /\ call[p].databases \in Seq(Database)
         /\ Len(call[p].databases) \in Nat
         /\ DOMAIN call[p].databases = 1..Len(call[p].databases)
         /\ call[p].k \in Nat \ {0}
<1>1. call[p].databases \in {<<>>} \cup Requests /\ call[p].k \in Nat \ {0}
  BY CallFields DEF TypeOK, Fields
<1>2. <<>> \in Seq(Database)
  OBVIOUS
<1>3. call[p].databases \in Seq(Database)
  BY <1>1, <1>2, RequestsAssumption
<1>4. QED
  BY <1>1, <1>3

LEMMA DatabasesTypeNext ==
  ASSUME TypeOK', NEW p \in Admins
  PROVE  /\ Len(call'[p].databases) \in Nat
         /\ DOMAIN call'[p].databases = 1..Len(call'[p].databases)
<1>1. call'[p].databases \in {<<>>} \cup Requests
  BY CallFields DEF TypeOK, Fields
<1>2. QED
  BY <1>1, RequestsAssumption

LEMMA TargetType ==
  ASSUME TypeOK, NEW p \in Admins, call[p].pc \in {"drop", "create"}
  PROVE  Target(p) \in Database
BY CallFields, RequestsAssumption DEF TypeOK, PositionOK, Target, Fields

LEMMA AgainstType ==
  ASSUME TypeOK, NEW p \in Admins, call[p].pc \in {"psql", "wait"}
  PROVE  Against(p) \in Database /\ ThisStep(p).script \in Script
BY StepsShape DEF TypeOK, PositionOK, Against, ThisStep, Database

\* A step of one process keeps the types, if it keeps those of the server and
\* leaves its own call well placed.
LEMMA TypeFromParts ==
  ASSUME TypeOK, NEW p \in Admins, call' \in [Admins -> Call], calls' = calls,
         \A q \in Admins : q # p => call'[q] = call[q],
         PositionOK(p)', exists' \subseteq Database, born' \in [Database -> 0..MaxCalls],
         done' \in [Database -> SUBSET Script],
         sessions' \subseteq (Admins \cup Clients) \X Database
  PROVE  TypeOK'
<1>1. ASSUME NEW q \in Admins
      PROVE  PositionOK(q)'
  BY <1>1 DEF TypeOK, PositionOK, ThisStep
<1>2. QED
  BY <1>1 DEF TypeOK

LEMMA TypeStep ==
  ASSUME TypeOK, [Next]_vars
  PROVE  TypeOK'
<1> USE DEF Places, Resting, Changing
<1>1. ASSUME NEW p \in Admins, CheckRequest(p)
      PROVE  TypeOK'
  <2>1. \/ GoTo(p, "connect")
        \/ Return(p, "ValueError")
    BY <1>1 DEF CheckRequest
  <2>2. calls' = calls /\ UNCHANGED <<exists, born, done, sessions>>
    BY <1>1 DEF CheckRequest, server
  <2>3. CASE GoTo(p, "connect")
    BY <2>2, <2>3, GoToCall, TypeFromParts DEF TypeOK, PositionOK, SameBut
  <2>4. CASE Return(p, "ValueError")
    BY <2>2, <2>4, ReturnCall, TypeFromParts DEF TypeOK, PositionOK, SameBut, Outcomes
  <2>5. QED
    BY <2>1, <2>3, <2>4
<1>2. ASSUME NEW p \in Admins, AdminConnection(p)
      PROVE  TypeOK'
  <2>1. calls' = calls /\ UNCHANGED <<exists, born, done, sessions>>
    BY <1>2 DEF AdminConnection, server
  <2>2. CASE GoTo(p, "terminate")
    BY <2>1, <2>2, GoToCall, TypeFromParts DEF TypeOK, PositionOK, SameBut
  <2>3. CASE \E error \in {"DatabaseConnectionError", "psycopg2.Error"} : Return(p, error)
    BY <2>1, <2>3, ReturnCall, TypeFromParts DEF TypeOK, PositionOK, SameBut, Outcomes
  <2>4. QED
    BY <1>2, <2>2, <2>3 DEF AdminConnection
<1>3. ASSUME NEW p \in Admins, StatementFails(p)
      PROVE  TypeOK'
  <2>1. calls' = calls /\ UNCHANGED <<exists, born, done, sessions>> /\ Return(p, "psycopg2.Error")
    BY <1>3 DEF StatementFails, server
  <2>2. QED
    BY <2>1, ReturnCall, TypeFromParts DEF TypeOK, PositionOK, SameBut, Outcomes
<1>4. ASSUME NEW p \in Admins, Terminate(p)
      PROVE  TypeOK'
  <2>1. GoTo(p, "drop") /\ UNCHANGED <<exists, born, done, calls>> /\ sessions' \subseteq sessions
    BY <1>4 DEF Terminate
  <2>2. call[p].k \in DOMAIN call[p].databases
    BY <1>4, DatabasesType DEF Terminate
  <2>3. QED
    BY <2>1, <2>2, GoToCall, TypeFromParts DEF TypeOK, PositionOK, SameBut
<1>5. ASSUME NEW p \in Admins, Drop(p)
      PROVE  TypeOK'
  <2>1. /\ call[p].pc = "drop" /\ GoTo(p, "create") /\ UNCHANGED <<born, sessions, calls>>
        /\ exists' \subseteq exists /\ done' = [done EXCEPT ![Target(p)] = {}]
    BY <1>5 DEF Drop, At
  <2>2. done' \in [Database -> SUBSET Script]
    BY <2>1 DEF TypeOK
  <2>3. QED
    BY <2>1, <2>2, GoToCall, TypeFromParts DEF TypeOK, PositionOK, SameBut
<1>6. ASSUME NEW p \in Admins, Create(p)
      PROVE  TypeOK'
  <2>1. /\ call[p].pc = "create" /\ NextDatabase(p) /\ UNCHANGED <<done, sessions, calls>>
        /\ exists' = exists \cup {Target(p)} /\ born' = [born EXCEPT ![Target(p)] = calls]
    BY <1>6 DEF Create, At
  <2>2. exists' \subseteq Database /\ born' \in [Database -> 0..MaxCalls]
    BY <2>1, TargetType DEF TypeOK
  <2>3. QED
    BY <2>1, <2>2, NextDatabaseCall, TypeFromParts DEF TypeOK, PositionOK
<1>7. ASSUME NEW p \in Admins, ResetDone(p) \/ BootstrapDone(p)
      PROVE  TypeOK'
  <2>1. calls' = calls /\ UNCHANGED <<exists, born, done, sessions>> /\ Return(p, "ok")
    BY <1>7 DEF ResetDone, BootstrapDone, server
  <2>2. QED
    BY <2>1, ReturnCall, TypeFromParts DEF TypeOK, PositionOK, SameBut, Outcomes
<1>8. ASSUME NEW p \in Admins, FindFile(p)
      PROVE  TypeOK'
  <2>1. calls' = calls /\ UNCHANGED <<exists, born, done, sessions>>
    BY <1>8 DEF FindFile, server
  <2>2. call[p].k \in DOMAIN BootstrapSteps
    BY <1>8, CallFields, StepsShape DEF FindFile, TypeOK, Fields
  <2>3. CASE GoTo(p, "psql")
    <3>1. /\ call'[p].k = call[p].k /\ call'[p].t = 1 /\ call'[p].pc = "psql"
          /\ call' \in [Admins -> Call] /\ \A q \in Admins : q # p => call'[q] = call[q]
      BY <1>8, <2>3, GoToCall DEF FindFile, At, TypeOK, PositionOK, SameBut
    <3>2. 1 \in DOMAIN BootstrapSteps[call[p].k].targets
      BY <2>2, StepsShape
    <3>3. QED
      BY <2>1, <2>2, <3>1, <3>2, TypeFromParts DEF TypeOK, PositionOK, ThisStep
  <2>4. CASE Return(p, "BootstrapError")
    BY <2>1, <2>4, ReturnCall, TypeFromParts DEF TypeOK, PositionOK, SameBut, Outcomes
  <2>5. QED
    BY <1>8, <2>3, <2>4 DEF FindFile
<1>9. ASSUME NEW p \in Admins, StartPsql(p)
      PROVE  TypeOK'
  <2>1. UNCHANGED <<exists, born, done, calls>>
    BY <1>9 DEF StartPsql
  <2>2. CASE Against(p) \in exists /\ sessions' = sessions \cup {<<p, Against(p)>>} /\ GoTo(p, "wait")
    <3>1. sessions' \subseteq (Admins \cup Clients) \X Database
      BY <2>2 DEF TypeOK
    <3>2. QED
      BY <1>9, <2>1, <2>2, <3>1, GoToCall, TypeFromParts
      DEF StartPsql, At, TypeOK, PositionOK, SameBut, ThisStep
  <2>3. CASE (\E error \in {"BootstrapError", "FileNotFoundError"} : Return(p, error)) /\ UNCHANGED sessions
    BY <2>1, <2>3, ReturnCall, TypeFromParts DEF TypeOK, PositionOK, SameBut, Outcomes
  <2>4. QED
    BY <1>9, <2>2, <2>3 DEF StartPsql
<1>10. ASSUME NEW p \in Admins, PsqlSucceeds(p)
       PROVE  TypeOK'
  <2>1. /\ call[p].pc = "wait" /\ NextTarget(p) /\ UNCHANGED <<exists, born, calls>>
        /\ done' = [done EXCEPT ![Against(p)] = @ \cup {ThisStep(p).script}]
        /\ sessions' \subseteq sessions
    BY <1>10 DEF PsqlSucceeds, At
  <2>2. done' \in [Database -> SUBSET Script] /\ sessions' \subseteq (Admins \cup Clients) \X Database
    BY <2>1, AgainstType DEF TypeOK
  <2>3. /\ call[p].k \in DOMAIN BootstrapSteps /\ call[p].t \in DOMAIN BootstrapSteps[call[p].k].targets
    BY <2>1 DEF TypeOK, PositionOK, ThisStep
  <2>4. call[p].t < Len(BootstrapSteps[call[p].k].targets) =>
          call[p].t + 1 \in DOMAIN BootstrapSteps[call[p].k].targets
    BY <2>3, StepsShape
  <2>5. PositionOK(p)'
    BY <2>1, <2>3, <2>4, NextTargetCall DEF TypeOK, PositionOK, ThisStep
  <2>6. QED
    BY <2>1, <2>2, <2>5, NextTargetCall, TypeFromParts DEF TypeOK
<1>11. ASSUME NEW p \in Admins, PsqlFails(p)
       PROVE  TypeOK'
  <2>1. /\ UNCHANGED <<exists, born, done, calls>> /\ Return(p, "BootstrapError")
        /\ sessions' \subseteq sessions
    BY <1>11 DEF PsqlFails
  <2>2. QED
    BY <2>1, ReturnCall, TypeFromParts DEF TypeOK, PositionOK, SameBut, Outcomes
<1>12. ASSUME NEW p \in Admins, Main(p) \/ Kill(p)
       PROVE  TypeOK'
  <2>1. /\ call' = [call EXCEPT ![p] = NoCall] /\ calls' = calls
        /\ UNCHANGED <<exists, born, done>> /\ sessions' \subseteq sessions
    BY <1>12 DEF Main, Kill, server
  <2>2. QED
    BY <2>1, EndCall, TypeFromParts DEF TypeOK, PositionOK
<1>13. ASSUME NEW p \in Admins, BeginReset(p) \/ BeginBootstrap(p)
       PROVE  TypeOK'
  <2>1. PICK kind \in Kinds, here \in {"check", "file"}, databases \in {<<>>} \cup Requests :
          Begin(p, kind, here, databases)
    BY <1>13 DEF BeginReset, BeginBootstrap, Kinds
  <2>2. UNCHANGED <<exists, born, done, sessions>>
    BY <2>1 DEF Begin, server
  <2>3. /\ call' \in [Admins -> Call] /\ calls' \in 0..MaxCalls
        /\ call'[p].pc = here /\ call'[p].t = 1
        /\ \A q \in Admins : q # p => SameButAlone(call[q], call'[q])
    BY <2>1, BeginCall DEF TypeOK
  <2>4. ASSUME NEW q \in Admins
        PROVE  PositionOK(q)'
    <3>1. CASE q = p
      BY <2>3, <3>1 DEF PositionOK
    <3>2. CASE q # p
      BY <2>3, <3>2 DEF SameButAlone, TypeOK, PositionOK, ThisStep
    <3>3. QED
      BY <3>1, <3>2
  <2>5. QED
    BY <2>2, <2>3, <2>4 DEF TypeOK
<1>14. ASSUME NEW c \in Clients, ClientConnects(c) \/ ClientLeaves(c)
       PROVE  TypeOK'
  <2>1. UNCHANGED <<exists, born, done, call, calls>>
    BY <1>14 DEF ClientConnects, ClientLeaves
  <2>2. sessions' \subseteq (Admins \cup Clients) \X Database
    BY <1>14 DEF ClientConnects, ClientLeaves, TypeOK
  <2>3. QED
    BY <2>1, <2>2 DEF TypeOK, PositionOK, ThisStep
<1>15. CASE UNCHANGED vars
  BY <1>15 DEF vars, server, TypeOK, PositionOK, ThisStep
<1>16. QED
  BY <1>1, <1>2, <1>3, <1>4, <1>5, <1>6, <1>7, <1>8, <1>9, <1>10, <1>11, <1>12, <1>13, <1>14,
     <1>15 DEF Next, AdminStep

LEMMA TypeInit ==
  ASSUME Init
  PROVE  TypeOK
BY NoCallType, MaxCallsAssumption DEF Init, TypeOK, PositionOK, NoCall, Database

\* TypeOK is an invariant, for any databases, processes and requests.
THEOREM TypeCorrect == Spec => []TypeOK
<1>1. Spec => Init /\ [][Next]_vars
  BY PTL DEF Spec
<1>2. QED
  BY <1>1, TypeInit, TypeStep, PTL

-----------------------------------------------------------------------------
\* What a place in the code says of the call that is there, and what a call
\* that is alone knows of the others.
ControlOK(p) ==
  /\ call[p].pc \in {"check", "connect"} => call[p].k = 1
  /\ call[p].pc \in {"check", "connect"} \cup Changing => call[p].kind = "reset"
  /\ call[p].pc \in {"file", "psql", "wait"} => call[p].kind = "bootstrap" /\ call[p].databases = <<>>
  /\ call[p].pc \in {"connect"} \cup Changing => IsManaged(p)
  /\ Returned(p, "reset", "ok") => call[p].k > Len(call[p].databases)
  /\ Returned(p, "bootstrap", "ok") => call[p].k > Len(BootstrapSteps)
  /\ call[p].since <= calls

AloneOK(p) ==
  call[p].alone /\ call[p].pc # "idle" =>
    \A q \in Admins : q # p => call[q].pc = "idle"

Control == \A p \in Admins : ControlOK(p) /\ AloneOK(p)

LEMMA ControlFromParts ==
  ASSUME TypeOK, Control, NEW p \in Admins, call' \in [Admins -> Call], calls' = calls,
         \A q \in Admins : q # p => call'[q] = call[q],
         call[p].pc # "idle", call'[p].alone = call[p].alone \/ call'[p].pc = "idle",
         ControlOK(p)'
  PROVE  Control'
<1>1. ASSUME NEW q \in Admins
      PROVE  ControlOK(q)'
  BY <1>1 DEF Control, ControlOK, IsManaged, Returned, At
<1>2. ASSUME NEW q \in Admins
      PROVE  AloneOK(q)'
  BY <1>2 DEF Control, AloneOK
<1>3. QED
  BY <1>1, <1>2 DEF Control

LEMMA ControlStep ==
  ASSUME TypeOK, Control, [Next]_vars
  PROVE  Control'
<1> USE DEF Places, Resting, Changing
<1>1. ASSUME NEW p \in Admins, CheckRequest(p)
      PROVE  Control'
  <2>1. call[p].pc = "check" /\ calls' = calls
    BY <1>1 DEF CheckRequest, At
  <2>2. CASE IsManaged(p) /\ GoTo(p, "connect")
    <3>1. /\ call' \in [Admins -> Call] /\ SameBut(call[p], call'[p], "connect")
          /\ \A q \in Admins : q # p => call'[q] = call[q]
      BY <2>2, GoToCall DEF TypeOK
    <3>2. IsManaged(p)'
      BY <2>2, <3>1 DEF SameBut, IsManaged
    <3>3. ControlOK(p)'
      BY <2>1, <3>1, <3>2 DEF Control, ControlOK, SameBut, Returned, At
    <3>4. QED
      BY <2>1, <3>1, <3>3, ControlFromParts DEF SameBut
  <2>3. CASE Return(p, "ValueError")
    BY <2>1, <2>3, ReturnCall, ControlFromParts
    DEF TypeOK, Control, ControlOK, SameBut, Returned, At, Outcomes
  <2>4. QED
    BY <1>1, <2>2, <2>3 DEF CheckRequest
<1>2. ASSUME NEW p \in Admins, AdminConnection(p)
      PROVE  Control'
  <2>1. call[p].pc = "connect" /\ calls' = calls
    BY <1>2 DEF AdminConnection, At
  <2>2. CASE GoTo(p, "terminate")
    BY <2>1, <2>2, GoToCall, ControlFromParts
    DEF TypeOK, Control, ControlOK, SameBut, IsManaged, Returned, At
  <2>3. CASE \E error \in {"DatabaseConnectionError", "psycopg2.Error"} : Return(p, error)
    BY <2>1, <2>3, ReturnCall, ControlFromParts
    DEF TypeOK, Control, ControlOK, SameBut, Returned, At, Outcomes
  <2>4. QED
    BY <1>2, <2>2, <2>3 DEF AdminConnection
<1>3. ASSUME NEW p \in Admins, StatementFails(p)
      PROVE  Control'
  <2>1. call[p].pc \in Changing /\ calls' = calls /\ Return(p, "psycopg2.Error")
    BY <1>3 DEF StatementFails
  <2>2. QED
    BY <2>1, ReturnCall, ControlFromParts
    DEF TypeOK, Control, ControlOK, SameBut, Returned, At, Outcomes
<1>4. ASSUME NEW p \in Admins, Terminate(p) \/ Drop(p)
      PROVE  Control'
  <2>1. PICK here \in {"drop", "create"} :
          call[p].pc \in Changing /\ calls' = calls /\ GoTo(p, here)
    BY <1>4 DEF Terminate, Drop, At
  <2>2. QED
    BY <2>1, GoToCall, ControlFromParts
    DEF TypeOK, Control, ControlOK, SameBut, IsManaged, Returned, At
<1>5. ASSUME NEW p \in Admins, Create(p)
      PROVE  Control'
  <2>1. call[p].pc = "create" /\ calls' = calls /\ NextDatabase(p)
    BY <1>5 DEF Create, At
  <2>2. QED
    BY <2>1, NextDatabaseCall, ControlFromParts
    DEF TypeOK, Control, ControlOK, IsManaged, Returned, At
<1>6. ASSUME NEW p \in Admins, ResetDone(p)
      PROVE  Control'
  <2>1. /\ call[p].pc = "terminate" /\ calls' = calls /\ Return(p, "ok")
        /\ call[p].k > Len(call[p].databases)
    BY <1>6 DEF ResetDone, At
  <2>2. QED
    BY <2>1, ReturnCall, ControlFromParts
    DEF TypeOK, Control, ControlOK, SameBut, Returned, At, Outcomes
<1>7. ASSUME NEW p \in Admins, BootstrapDone(p)
      PROVE  Control'
  <2>1. /\ call[p].pc = "file" /\ calls' = calls /\ Return(p, "ok")
        /\ call[p].k > Len(BootstrapSteps)
    BY <1>7 DEF BootstrapDone, At
  <2>2. QED
    BY <2>1, ReturnCall, ControlFromParts
    DEF TypeOK, Control, ControlOK, SameBut, Returned, At, Outcomes
<1>8. ASSUME NEW p \in Admins, FindFile(p) \/ StartPsql(p)
      PROVE  Control'
  <2>1. call[p].pc \in {"file", "psql"} /\ calls' = calls
    BY <1>8 DEF FindFile, StartPsql, At
  <2>2. CASE \E here \in {"psql", "wait"} : GoTo(p, here)
    BY <2>1, <2>2, GoToCall, ControlFromParts
    DEF TypeOK, Control, ControlOK, SameBut, IsManaged, Returned, At
  <2>3. CASE \E error \in {"BootstrapError", "FileNotFoundError"} : Return(p, error)
    BY <2>1, <2>3, ReturnCall, ControlFromParts
    DEF TypeOK, Control, ControlOK, SameBut, Returned, At, Outcomes
  <2>4. QED
    BY <1>8, <2>2, <2>3 DEF FindFile, StartPsql
<1>9. ASSUME NEW p \in Admins, PsqlSucceeds(p)
      PROVE  Control'
  <2>1. call[p].pc = "wait" /\ calls' = calls /\ NextTarget(p)
    BY <1>9 DEF PsqlSucceeds, At
  <2>2. QED
    BY <2>1, NextTargetCall, ControlFromParts
    DEF TypeOK, Control, ControlOK, Returned, At
<1>10. ASSUME NEW p \in Admins, PsqlFails(p)
       PROVE  Control'
  <2>1. call[p].pc = "wait" /\ calls' = calls /\ Return(p, "BootstrapError")
    BY <1>10 DEF PsqlFails, At
  <2>2. QED
    BY <2>1, ReturnCall, ControlFromParts
    DEF TypeOK, Control, ControlOK, SameBut, Returned, At, Outcomes
<1>11. ASSUME NEW p \in Admins, Main(p) \/ Kill(p)
       PROVE  Control'
  <2>1. call[p].pc # "idle" /\ calls' = calls /\ call' = [call EXCEPT ![p] = NoCall]
    BY <1>11 DEF Main, Kill, At
  <2>2. call'[p].since = 0 /\ call'[p].pc = "idle"
    BY <2>1 DEF NoCall, TypeOK
  <2>3. ControlOK(p)'
    BY <2>1, <2>2 DEF ControlOK, Returned, At, TypeOK
  <2>4. QED
    BY <2>1, <2>2, <2>3, EndCall, ControlFromParts DEF TypeOK
<1>12. ASSUME NEW p \in Admins, BeginReset(p) \/ BeginBootstrap(p)
       PROVE  Control'
  <2>1. PICK kind \in Kinds, here \in {"check", "file"}, databases \in {<<>>} \cup Requests :
          /\ Begin(p, kind, here, databases)
          /\ here = "check" => kind = "reset"
          /\ here = "file" => kind = "bootstrap" /\ databases = <<>>
    BY <1>12 DEF BeginReset, BeginBootstrap, Kinds
  <2>2. /\ call' \in [Admins -> Call] /\ calls' = calls + 1 /\ call[p].pc = "idle"
        /\ call'[p].pc = here /\ call'[p].kind = kind /\ call'[p].databases = databases
        /\ call'[p].since = calls' /\ call'[p].k = 1
        /\ call'[p].alone => \A q \in Admins : call[q].pc = "idle"
    BY <2>1, BeginCall DEF TypeOK
  <2>3. \A q \in Admins : q # p => SameButAlone(call[q], call'[q])
    BY <2>1, BeginCall DEF TypeOK
  <2>4. ASSUME NEW q \in Admins
        PROVE  ControlOK(q)'
    <3>1. CASE q = p
      BY <2>1, <2>2, <3>1 DEF ControlOK, Returned, At, TypeOK
    <3>2. CASE q # p
      <4>1. call[q].since \in Nat /\ calls \in Nat
        BY CallFields, MaxCallsAssumption DEF TypeOK, Fields
      <4>2. QED
        BY <2>2, <2>3, <3>2, <4>1 DEF SameButAlone, Control, ControlOK, IsManaged, Returned, At
    <3>3. QED
      BY <3>1, <3>2
  <2>5. ASSUME NEW q \in Admins
        PROVE  AloneOK(q)'
    BY <2>2, <2>3 DEF SameButAlone, AloneOK
  <2>6. QED
    BY <2>4, <2>5 DEF Control
<1>13. CASE UNCHANGED <<call, calls>>
  BY <1>13 DEF Control, ControlOK, AloneOK, IsManaged, Returned, At
<1>14. QED
  BY <1>1, <1>2, <1>3, <1>4, <1>5, <1>6, <1>7, <1>8, <1>9, <1>10, <1>11, <1>12, <1>13
  DEF Next, AdminStep, ClientConnects, ClientLeaves, vars

-----------------------------------------------------------------------------
\* The databases a reset has gone past are not those it was called with.
Renewed(p) ==
  \A j \in DOMAIN call[p].databases :
    j < call[p].k /\ call[p].databases[j] \in exists => IsFresh(p, call[p].databases[j])

RInv == Control /\ \A p \in Admins : Renewed(p)

LEMMA RenewedStep ==
  ASSUME TypeOK, RInv, [Next]_vars
  PROVE  \A p \in Admins : Renewed(p)'
<1> USE DEF Places, Resting, Changing
<1>1. ASSUME NEW p \in Admins, Create(p)
      PROVE  \A q \in Admins : Renewed(q)'
  <2>1. /\ call[p].pc = "create" /\ NextDatabase(p) /\ calls' = calls
        /\ exists' = exists \cup {Target(p)} /\ born' = [born EXCEPT ![Target(p)] = calls]
    BY <1>1 DEF Create, At
  <2>2. /\ call'[p].k = call[p].k + 1 /\ call'[p].databases = call[p].databases
        /\ call'[p].since = call[p].since
        /\ \A q \in Admins : q # p => call'[q] = call[q]
    BY <2>1, NextDatabaseCall DEF TypeOK
  <2>3. call[p].k \in Nat /\ calls \in Nat /\ born \in [Database -> 0..MaxCalls]
    BY CallFields, MaxCallsAssumption DEF Fields, TypeOK
  <2>4. born'[Target(p)] = calls
    BY <2>1, <2>3, TargetType
  <2>5. ASSUME NEW q \in Admins, NEW j \in DOMAIN call[q].databases,
               j < call[q].k \/ (q = p /\ j = call[q].k),
               call[q].databases[j] \in exists'
        PROVE  born'[call[q].databases[j]] >= call[q].since
    <3> DEFINE db == call[q].databases[j]
    <3>1. call[q].since <= calls
      BY DEF RInv, Control, ControlOK
    <3>2. CASE db = Target(p)
      <4>1. call[q].since \in Nat
        BY CallFields, MaxCallsAssumption DEF Fields, TypeOK
      <4>2. QED
        BY <2>3, <2>4, <3>1, <3>2, <4>1
    <3>3. CASE db # Target(p)
      <4>1. db \in exists /\ j < call[q].k
        BY <2>1, <2>5, <3>3 DEF Target
      <4>2. born[db] >= call[q].since
        BY <4>1 DEF RInv, Renewed, IsFresh
      <4>3. born'[db] = born[db]
        BY <2>1, <2>3, <3>3, <4>1 DEF TypeOK
      <4>4. QED
        BY <4>2, <4>3
    <3>4. QED
      BY <3>2, <3>3
  <2>6. ASSUME NEW q \in Admins
        PROVE  Renewed(q)'
    <3>1. /\ call'[q].databases = call[q].databases /\ call'[q].since = call[q].since
          /\ IF q = p THEN call'[q].k = call[q].k + 1 ELSE call'[q].k = call[q].k
      BY <2>2
    <3>2. \A j \in DOMAIN call[q].databases :
            j < call'[q].k => j < call[q].k \/ (q = p /\ j = call[q].k)
      <4>1. DOMAIN call[q].databases \subseteq Nat /\ call[q].k \in Nat
        BY DatabasesType
      <4>2. QED
        BY <3>1, <4>1
    <3>3. QED
      BY <2>5, <3>1, <3>2 DEF Renewed, IsFresh
  <2>7. QED
    BY <2>6
<1>2. ASSUME exists' \subseteq exists, born' = born,
             \A q \in Admins : \/ /\ call'[q].databases = call[q].databases
                                  /\ call'[q].k = call[q].k /\ call'[q].since = call[q].since
                               \/ call'[q].databases = <<>>
                               \/ call'[q].k = 1 /\ call'[q].databases \in Seq(Database)
      PROVE  \A q \in Admins : Renewed(q)'
  <2>1. ASSUME NEW q \in Admins
        PROVE  Renewed(q)'
    <3>1. CASE /\ call'[q].databases = call[q].databases
               /\ call'[q].k = call[q].k /\ call'[q].since = call[q].since
      BY <1>2, <3>1 DEF RInv, Renewed, IsFresh
    <3>2. CASE call'[q].databases = <<>>
      BY <3>2 DEF Renewed
    <3>3. CASE call'[q].k = 1 /\ call'[q].databases \in Seq(Database)
      BY <3>3 DEF Renewed
    <3>4. QED
      BY <1>2, <3>1, <3>2, <3>3
  <2>2. QED
    BY <2>1
\* Every other step moves a call or ends it, and may end databases.
<1>3. ASSUME NEW p \in Admins,
             \/ \E here \in Places : GoTo(p, here)
             \/ \E how \in Outcomes : Return(p, how),
             exists' \subseteq exists, born' = born
      PROVE  \A q \in Admins : Renewed(q)'
  BY <1>3, <1>2, GoToCall, ReturnCall DEF TypeOK, SameBut
<1>4. ASSUME NEW p \in Admins, CheckRequest(p) \/ AdminConnection(p) \/ StatementFails(p)
      PROVE  \A q \in Admins : Renewed(q)'
  <2>1. /\ \/ \E here \in Places : GoTo(p, here)
           \/ \E how \in Outcomes : Return(p, how)
        /\ exists' = exists /\ born' = born
    BY <1>4 DEF CheckRequest, AdminConnection, StatementFails, server, Outcomes
  <2>2. QED
    BY <2>1, <1>3
<1>5. ASSUME NEW p \in Admins, Terminate(p) \/ Drop(p) \/ ResetDone(p) \/ BootstrapDone(p)
      PROVE  \A q \in Admins : Renewed(q)'
  <2>1. /\ \/ \E here \in Places : GoTo(p, here)
           \/ \E how \in Outcomes : Return(p, how)
        /\ exists' \subseteq exists /\ born' = born
    BY <1>5 DEF Terminate, Drop, ResetDone, BootstrapDone, server, Outcomes
  <2>2. QED
    BY <2>1, <1>3
<1>6. ASSUME NEW p \in Admins, FindFile(p) \/ StartPsql(p) \/ PsqlFails(p)
      PROVE  \A q \in Admins : Renewed(q)'
  <2>1. /\ \/ \E here \in Places : GoTo(p, here)
           \/ \E how \in Outcomes : Return(p, how)
        /\ exists' = exists /\ born' = born
    BY <1>6 DEF FindFile, StartPsql, PsqlFails, server, Outcomes
  <2>2. QED
    BY <2>1, <1>3
<1>7. ASSUME NEW p \in Admins, PsqlSucceeds(p)
      PROVE  \A q \in Admins : Renewed(q)'
  <2>1. NextTarget(p) /\ exists' = exists /\ born' = born /\ call[p].databases = <<>>
    BY <1>7 DEF PsqlSucceeds, RInv, Control, ControlOK, At
  <2>2. QED
    BY <2>1, <1>2, NextTargetCall DEF TypeOK
<1>8. ASSUME NEW p \in Admins, Main(p) \/ Kill(p)
      PROVE  \A q \in Admins : Renewed(q)'
  <2>1. call' = [call EXCEPT ![p] = NoCall] /\ exists' = exists /\ born' = born
    BY <1>8 DEF Main, Kill, server
  <2>2. call'[p].databases = <<>>
    BY <2>1 DEF NoCall, TypeOK
  <2>3. QED
    BY <2>1, <2>2, <1>2, EndCall DEF TypeOK
<1>9. ASSUME NEW p \in Admins, BeginReset(p) \/ BeginBootstrap(p)
      PROVE  \A q \in Admins : Renewed(q)'
  <2>1. PICK kind \in Kinds, here \in Places, databases \in {<<>>} \cup Requests :
          Begin(p, kind, here, databases)
    BY <1>9 DEF BeginReset, BeginBootstrap, Kinds
  <2>2. exists' = exists /\ born' = born
    BY <2>1 DEF Begin, server
  <2>3. databases \in Seq(Database)
    <3>1. <<>> \in Seq(Database)
      OBVIOUS
    <3>2. QED
      BY <3>1, RequestsAssumption
  <2>4. QED
    BY <2>1, <2>2, <2>3, <1>2, BeginCall DEF TypeOK, SameButAlone
<1>10. CASE UNCHANGED <<call, exists, born>>
  BY <1>10, <1>2
<1>11. QED
  BY <1>1, <1>4, <1>5, <1>6, <1>7, <1>8, <1>9, <1>10
  DEF Next, AdminStep, ClientConnects, ClientLeaves, vars, server

LEMMA RInvInit ==
  ASSUME Init
  PROVE  RInv
BY DEF Init, RInv, Control, ControlOK, AloneOK, Renewed, Returned, At, NoCall, Changing

LEMMA RInvCorrect == Spec => [](TypeOK /\ RInv)
<1>1. Spec => Init /\ [][Next]_vars
  BY PTL DEF Spec
<1>2. TypeOK /\ RInv /\ [Next]_vars => (TypeOK /\ RInv)'
  BY TypeStep, ControlStep, RenewedStep DEF RInv
<1>3. QED
  BY <1>1, <1>2, TypeInit, RInvInit, PTL

\* A reset that returns has replaced every database it was asked for, whatever
\* other processes and clients did meanwhile.
THEOREM ResetReplaces == Spec => []ResetIsFresh
<1>1. TypeOK /\ RInv => ResetIsFresh
  <2> SUFFICES ASSUME TypeOK, RInv, NEW p \in Admins, Returned(p, "reset", "ok"),
                      NEW j \in DOMAIN call[p].databases, call[p].databases[j] \in exists
               PROVE  IsFresh(p, call[p].databases[j])
    BY DEF ResetIsFresh
  <2>1. j <= Len(call[p].databases) /\ j \in Nat /\ call[p].k \in Nat
    BY DatabasesType
  <2>2. call[p].k > Len(call[p].databases) /\ Len(call[p].databases) \in Nat
    BY DatabasesType DEF RInv, Control, ControlOK
  <2>3. QED
    BY <2>1, <2>2 DEF RInv, Renewed
<1>2. QED
  BY <1>1, RInvCorrect, PTL

\* No process ever drops, creates or empties of sessions a database that is not
\* one of the project's.
THEOREM OthersKept == Spec => UnmanagedKept
<1> DEFINE Kept == /\ exists \cap Unmanaged = exists' \cap Unmanaged
                   /\ \A db \in Unmanaged : born'[db] = born[db]
                   /\ call' # call =>
                        \A s \in sessions :
                          s[1] \in Clients /\ s[2] \in Unmanaged => s \in sessions'
<1>1. TypeOK /\ Control /\ [Next]_vars => [Kept]_vars
  <2> SUFFICES ASSUME TypeOK, Control, Next
               PROVE  Kept
    OBVIOUS
  <2>1. ASSUME NEW p \in Admins, call[p].pc \in Changing, call[p].k \in DOMAIN call[p].databases
        PROVE  Target(p) \notin Unmanaged
    BY <2>1, UnmanagedAssumption DEF Control, ControlOK, IsManaged, Target, Changing
  <2>2. ASSUME NEW p \in Admins, Terminate(p)
        PROVE  Kept
    <3>1. call[p].pc = "terminate" /\ call[p].k <= Len(call[p].databases)
      BY <2>2 DEF Terminate, At
    <3>2. call[p].k \in DOMAIN call[p].databases
      BY <3>1, DatabasesType
    <3>3. Target(p) \notin Unmanaged
      BY <2>1, <3>1, <3>2 DEF Changing
    <3>4. QED
      BY <2>2, <3>3 DEF Terminate
  <2>3. ASSUME NEW p \in Admins, Drop(p) \/ Create(p)
        PROVE  Kept
    <3>1. call[p].pc \in {"drop", "create"} /\ call[p].k \in DOMAIN call[p].databases
      BY <2>3 DEF Drop, Create, At, TypeOK, PositionOK
    <3>2. Target(p) \notin Unmanaged
      BY <2>1, <3>1 DEF Changing
    <3>3. born \in [Database -> 0..MaxCalls] /\ Unmanaged \subseteq Database
      BY DEF TypeOK, Database
    <3>4. QED
      BY <2>3, <3>2, <3>3 DEF Drop, Create
  <2>4. ASSUME NEW p \in Admins,
               \/ CheckRequest(p) \/ AdminConnection(p) \/ StatementFails(p) \/ ResetDone(p)
               \/ FindFile(p) \/ BootstrapDone(p) \/ Main(p) \/ BeginReset(p) \/ BeginBootstrap(p)
        PROVE  Kept
    <3>1. exists' = exists /\ born' = born /\ sessions' = sessions
      BY <2>4 DEF CheckRequest, AdminConnection, StatementFails, ResetDone, FindFile,
                  BootstrapDone, Main, BeginReset, BeginBootstrap, Begin, server
    <3>2. QED
      BY <3>1
  <2>5. ASSUME NEW p \in Admins, p \notin Clients,
               StartPsql(p) \/ PsqlSucceeds(p) \/ PsqlFails(p) \/ Kill(p)
        PROVE  Kept
    BY <2>5 DEF StartPsql, PsqlSucceeds, PsqlFails, Kill
  <2>6. ASSUME NEW c \in Clients, ClientConnects(c) \/ ClientLeaves(c)
        PROVE  Kept
    BY <2>6 DEF ClientConnects, ClientLeaves
  <2>7. QED
    BY <2>2, <2>3, <2>4, <2>5, <2>6, ClientsAssumption DEF Next, AdminStep
<1>2. QED
  BY <1>1, RInvCorrect, PTL DEF RInv, Spec, UnmanagedKept

-----------------------------------------------------------------------------
LEMMA StepFrame ==
  ASSUME TypeOK, NEW q \in Admins, AdminStep(q) \/ Kill(q)
  PROVE  call[q].pc # "idle" /\ \A p \in Admins : p # q => call'[p] = call[p]
<1> USE DEF Places, Resting, Changing, Outcomes
<1>1. CASE \/ CheckRequest(q) \/ AdminConnection(q) \/ StatementFails(q) \/ Terminate(q)
           \/ Drop(q) \/ ResetDone(q) \/ FindFile(q) \/ BootstrapDone(q)
           \/ StartPsql(q) \/ PsqlFails(q)
  <2>1. /\ call[q].pc # "idle"
        /\ \/ \E here \in Places : GoTo(q, here)
           \/ \E how \in Outcomes : Return(q, how)
    BY <1>1 DEF CheckRequest, AdminConnection, StatementFails, Terminate, Drop, ResetDone,
                FindFile, BootstrapDone, StartPsql, PsqlFails, At
  <2>2. QED
    BY <2>1, GoToCall, ReturnCall DEF TypeOK
<1>2. CASE Create(q)
  BY <1>2, NextDatabaseCall DEF Create, At, TypeOK
<1>3. CASE PsqlSucceeds(q)
  BY <1>3, NextTargetCall DEF PsqlSucceeds, At, TypeOK
<1>4. CASE Main(q) \/ Kill(q)
  BY <1>4, EndCall DEF Main, Kill, At, TypeOK
<1>5. QED
  BY <1>1, <1>2, <1>3, <1>4 DEF AdminStep

\* While a call is alone, the steps of the system are its own and those of
\* clients.
LEMMA AloneStep ==
  ASSUME TypeOK, Control, [Next]_vars, NEW p \in Admins,
         call'[p].alone, call'[p].pc # "idle"
  PROVE  \/ UNCHANGED <<exists, born, done>> /\ call'[p] = call[p]
         \/ AdminStep(p)
         \/ call'[p].pc = "check" /\ call'[p].k = 1 /\ call'[p].since = calls + 1 /\ born' = born
         \/ call'[p].pc = "file" /\ call'[p].k = 1 /\ call'[p].t = 1
<1>1. ASSUME NEW q \in Admins, q # p, AdminStep(q) \/ Kill(q)
      PROVE  FALSE
  BY <1>1, StepFrame DEF Control, AloneOK
<1>2. ASSUME Kill(p)
      PROVE  FALSE
  BY <1>2, EndCall DEF Kill, TypeOK
<1>3. ASSUME NEW q \in Admins, BeginReset(q) \/ BeginBootstrap(q)
      PROVE  \/ call'[p].pc = "check" /\ call'[p].k = 1 /\ call'[p].since = calls + 1 /\ born' = born
             \/ call'[p].pc = "file" /\ call'[p].k = 1 /\ call'[p].t = 1
  <2>1. PICK kind \in Kinds, here \in {"check", "file"}, databases \in {<<>>} \cup Requests :
          Begin(q, kind, here, databases)
    BY <1>3 DEF BeginReset, BeginBootstrap, Kinds
  <2>2. here \in Places /\ born' = born
    BY <2>1 DEF Places, Begin, server
  <2>3. CASE q = p
    BY <2>1, <2>2, <2>3, BeginCall DEF TypeOK
  <2>4. CASE q # p
    BY <2>1, <2>2, <2>4, BeginCall DEF TypeOK, SameButAlone
  <2>5. QED
    BY <2>3, <2>4
<1>4. QED
  BY <1>1, <1>2, <1>3 DEF Next, ClientConnects, ClientLeaves, vars, server

\* A reset that is alone has left behind it databases that exist and are empty.
EmptySoFar(p) ==
  call[p].alone /\ (call[p].pc \in Changing \/ Returned(p, "reset", "ok")) =>
    /\ call[p].pc = "create" => done[Target(p)] = {}
    /\ \A j \in DOMAIN call[p].databases :
         j < call[p].k =>
           /\ done[call[p].databases[j]] = {}
           /\ \/ call[p].databases[j] \in exists
              \/ call[p].pc = "create" /\ call[p].databases[j] = Target(p)

LEMMA EmptyStep ==
  ASSUME TypeOK, Control, [Next]_vars, NEW p \in Admins, EmptySoFar(p)
  PROVE  EmptySoFar(p)'
<1> USE DEF Places, Resting, Changing
<1> SUFFICES ASSUME call'[p].alone, call'[p].pc \in Changing \/ Returned(p, "reset", "ok")'
             PROVE  EmptySoFar(p)'
  BY DEF EmptySoFar
<1> DEFINE dbs == call[p].databases
<1>1. CASE UNCHANGED <<exists, done>> /\ call'[p] = call[p]
  BY <1>1 DEF EmptySoFar, Returned, At, Target
<1>2. CASE AdminConnection(p)
  <2>1. ~ \E error \in {"DatabaseConnectionError", "psycopg2.Error"} : Return(p, error)
    BY ReturnCall DEF TypeOK, SameBut, Returned, At, Outcomes
  <2>2. GoTo(p, "terminate") /\ call[p].pc = "connect"
    BY <1>2, <2>1 DEF AdminConnection, At
  <2>3. call'[p].k = 1 /\ call'[p].pc = "terminate" /\ call'[p].databases = dbs
    BY <2>2, GoToCall DEF TypeOK, Control, ControlOK, SameBut
  <2>4. DOMAIN dbs \subseteq Nat \ {0}
    BY DatabasesType
  <2>5. QED
    BY <2>3, <2>4 DEF EmptySoFar
<1>3. CASE Terminate(p)
  <2>1. GoTo(p, "drop") /\ call[p].pc = "terminate" /\ UNCHANGED <<exists, done>>
    BY <1>3 DEF Terminate, At
  <2>2. QED
    BY <2>1, GoToCall DEF TypeOK, SameBut, EmptySoFar, Target
<1>4. CASE Drop(p)
  <2>1. /\ GoTo(p, "create") /\ call[p].pc = "drop"
        /\ exists' = exists \ {Target(p)} /\ done' = [done EXCEPT ![Target(p)] = {}]
    BY <1>4 DEF Drop, At
  <2>2. Target(p) \in Database /\ done \in [Database -> SUBSET Script]
    BY <2>1, TargetType DEF TypeOK
  <2>3. /\ call'[p].pc = "create" /\ call'[p].databases = dbs /\ call'[p].k = call[p].k
        /\ call'[p].alone = call[p].alone /\ Target(p)' = Target(p)
    BY <2>1, GoToCall DEF TypeOK, SameBut, Target
  <2>4. ASSUME NEW j \in DOMAIN dbs, j < call[p].k
        PROVE  done'[dbs[j]] = {} /\ (dbs[j] \in exists' \/ dbs[j] = Target(p))
    <3>1. done[dbs[j]] = {} /\ dbs[j] \in exists
      BY <2>1, <2>3, <2>4 DEF EmptySoFar
    <3>2. QED
      BY <2>1, <2>2, <3>1 DEF TypeOK
  <2>5. QED
    BY <2>1, <2>2, <2>3, <2>4 DEF EmptySoFar
<1>5. CASE Create(p)
  <2>1. /\ NextDatabase(p) /\ call[p].pc = "create"
        /\ exists' = exists \cup {Target(p)} /\ done' = done
    BY <1>5 DEF Create, At
  <2>2. /\ call'[p].pc = "terminate" /\ call'[p].databases = dbs /\ call'[p].k = call[p].k + 1
        /\ call'[p].alone = call[p].alone
    BY <2>1, NextDatabaseCall DEF TypeOK
  <2>3. DOMAIN dbs \subseteq Nat /\ call[p].k \in Nat
    BY DatabasesType
  <2>4. ASSUME NEW j \in DOMAIN dbs, j < call[p].k + 1
        PROVE  done[dbs[j]] = {} /\ dbs[j] \in exists'
    <3>1. CASE j < call[p].k
      BY <2>1, <2>2, <3>1 DEF EmptySoFar
    <3>2. CASE j = call[p].k
      BY <2>1, <2>2, <3>2 DEF EmptySoFar, Target
    <3>3. QED
      BY <2>3, <2>4, <3>1, <3>2
  <2>5. QED
    BY <2>1, <2>2, <2>4 DEF EmptySoFar
<1>6. CASE ResetDone(p)
  <2>1. Return(p, "ok") /\ call[p].pc = "terminate" /\ UNCHANGED <<exists, done>>
    BY <1>6 DEF ResetDone, At, server
  <2>2. QED
    BY <2>1, ReturnCall DEF TypeOK, SameBut, EmptySoFar, Outcomes
<1>7. CASE CheckRequest(p) \/ StatementFails(p) \/ Main(p)
  <2>1. \/ GoTo(p, "connect")
        \/ \E error \in Outcomes \ {"ok"} : Return(p, error)
        \/ call' = [call EXCEPT ![p] = NoCall]
    BY <1>7 DEF CheckRequest, StatementFails, Main, Outcomes
  <2>2. QED
    BY <2>1, GoToCall, ReturnCall, EndCall DEF TypeOK, SameBut, Returned, At
<1>8. CASE FindFile(p) \/ StartPsql(p) \/ PsqlFails(p) \/ BootstrapDone(p)
  <2>1. /\ call[p].pc \in {"file", "psql", "wait"}
        /\ \/ \E here \in {"psql", "wait"} : GoTo(p, here)
           \/ \E how \in Outcomes : Return(p, how)
    BY <1>8 DEF FindFile, StartPsql, PsqlFails, BootstrapDone, At, Outcomes
  <2>2. QED
    BY <2>1, GoToCall, ReturnCall DEF TypeOK, Control, ControlOK, SameBut, Returned, At
<1>9. CASE PsqlSucceeds(p)
  BY <1>9, NextTargetCall DEF PsqlSucceeds, TypeOK, Returned, At
<1>10. QED
  BY <1>1, <1>2, <1>3, <1>4, <1>5, <1>6, <1>7, <1>8, <1>9, AloneStep DEF AdminStep, Returned, At

\* A reset that returns without another process at work leaves every database
\* it was asked for there, and empty.
THEOREM ResetLeavesAllEmpty == Spec => []ResetIsComplete
<1> DEFINE Empty == \A p \in Admins : EmptySoFar(p)
<1>1. Init => Empty
  BY DEF Init, EmptySoFar, NoCall, Returned, At, Changing
<1>2. TypeOK /\ Control /\ Empty /\ [Next]_vars => Empty'
  BY EmptyStep
<1>3. TypeOK /\ Control /\ Empty => ResetIsComplete
  <2> SUFFICES ASSUME TypeOK, Control, Empty, NEW p \in Admins,
                      Returned(p, "reset", "ok"), call[p].alone,
                      NEW j \in DOMAIN call[p].databases
               PROVE  call[p].databases[j] \in exists /\ done[call[p].databases[j]] = {}
    BY DEF ResetIsComplete
  <2>1. j <= Len(call[p].databases) /\ j \in Nat /\ call[p].k \in Nat
    BY DatabasesType
  <2>2. call[p].k > Len(call[p].databases) /\ Len(call[p].databases) \in Nat
    BY DatabasesType DEF Control, ControlOK
  <2>3. QED
    BY <2>1, <2>2 DEF EmptySoFar, Returned, At
<1> HIDE DEF Empty
<1>4. QED
  BY <1>1, <1>2, <1>3, RInvCorrect, PTL DEF RInv, Spec

-----------------------------------------------------------------------------
\* Databases are born in calls that have begun.
BornInPast == \A db \in Database : born[db] <= calls

LEMMA BornStep ==
  ASSUME TypeOK, Control, BornInPast, [Next]_vars
  PROVE  BornInPast'
<1>t. born \in [Database -> 0..MaxCalls] /\ calls \in Nat /\ MaxCalls \in Nat
  BY MaxCallsAssumption DEF TypeOK
<1>1. ASSUME NEW p \in Admins, Create(p)
      PROVE  BornInPast'
  <2>1. born' = [born EXCEPT ![Target(p)] = calls] /\ calls' = calls
    BY <1>1 DEF Create
  <2> QED
    BY <1>t, <2>1 DEF BornInPast
<1>2. ASSUME NEW p \in Admins, BeginReset(p) \/ BeginBootstrap(p)
      PROVE  BornInPast'
  <2>1. born' = born /\ calls' = calls + 1
    BY <1>2 DEF BeginReset, BeginBootstrap, Begin, server
  <2> QED
    BY <1>t, <2>1 DEF BornInPast
<1>3. CASE UNCHANGED <<born, calls>>
  BY <1>3 DEF BornInPast
<1> QED
  BY <1>1, <1>2, <1>3 DEF Next, AdminStep, CheckRequest, AdminConnection, StatementFails, Terminate, Drop,
     ResetDone, FindFile, StartPsql, PsqlSucceeds, PsqlFails, BootstrapDone, Main, Kill,
     ClientConnects, ClientLeaves, vars, server

\* A reset that is alone has made exactly the databases before its place; only
\* the one in hand may be missing.
MadeSoFar(p) ==
  call[p].alone /\ (call[p].pc \in {"check", "connect"} \cup Changing \/ Returned(p, "reset", "psycopg2.Error")) =>
    /\ call[p].k <= Len(call[p].databases) + 1
    /\ \A j \in DOMAIN call[p].databases :
         j < call[p].k =>
           /\ IsFresh(p, call[p].databases[j])
           /\ \/ call[p].databases[j] \in exists
              \/ /\ call[p].k \in DOMAIN call[p].databases
                 /\ call[p].databases[j] = call[p].databases[call[p].k]
    /\ \A db \in Database :
         IsFresh(p, db) =>
           \E j \in DOMAIN call[p].databases : j < call[p].k /\ call[p].databases[j] = db

LEMMA MadeStep ==
  ASSUME TypeOK, Control, BornInPast, [Next]_vars, NEW p \in Admins, MadeSoFar(p)
  PROVE  MadeSoFar(p)'
<1> USE DEF Places, Resting, Changing
<1> SUFFICES ASSUME call'[p].alone,
                    call'[p].pc \in {"check", "connect"} \cup Changing \/ Returned(p, "reset", "psycopg2.Error")'
             PROVE  MadeSoFar(p)'
  BY DEF MadeSoFar
<1> DEFINE dbs == call[p].databases
<1>1. CASE UNCHANGED <<exists, born, done>> /\ call'[p] = call[p]
  BY <1>1 DEF MadeSoFar, Returned, At, IsFresh
<1>2. CASE call'[p].pc = "check" /\ call'[p].k = 1 /\ call'[p].since = calls + 1 /\ born' = born
  <2>1. TypeOK'
    BY TypeStep
  <2>2. ASSUME NEW db \in Database PROVE ~IsFresh(p, db)'
    <3>1. born[db] \in Nat /\ calls \in Nat /\ born[db] <= calls
      BY MaxCallsAssumption DEF TypeOK, BornInPast
    <3> QED
      BY <1>2, <3>1 DEF IsFresh
  <2>3. /\ Len(call'[p].databases) \in Nat
        /\ \A j \in DOMAIN call'[p].databases : ~(j < 1)
    <3>1. /\ Len(call'[p].databases) \in Nat
          /\ DOMAIN call'[p].databases = 1..Len(call'[p].databases)
      BY <2>1, DatabasesTypeNext
    <3> QED
      BY <3>1
  <2> QED
    BY <1>2, <2>2, <2>3 DEF MadeSoFar
\* A step that leaves the place in the list, and drops no database but the one
\* in hand.
<1>3. ASSUME \/ \E here \in Places : GoTo(p, here)
             \/ \E how \in Outcomes : Return(p, how),
             call[p].pc \in {"check", "connect"} \cup Changing,
             born' = born,
             \/ exists' = exists
             \/ /\ call[p].k \in DOMAIN dbs /\ Target(p) \in Database
                /\ exists' = exists \ {Target(p)}
      PROVE  MadeSoFar(p)'
  <2>1. /\ call'[p].databases = dbs /\ call'[p].k = call[p].k
        /\ call'[p].since = call[p].since /\ call'[p].alone = call[p].alone
    BY <1>3, GoToCall, ReturnCall DEF TypeOK, SameBut
  <2>2. /\ call[p].k <= Len(dbs) + 1
        /\ \A j \in DOMAIN dbs : j < call[p].k =>
             /\ IsFresh(p, dbs[j])
             /\ dbs[j] \in exists \/ (call[p].k \in DOMAIN dbs /\ dbs[j] = dbs[call[p].k])
        /\ \A db \in Database : IsFresh(p, db) => \E j \in DOMAIN dbs : j < call[p].k /\ dbs[j] = db
    BY <1>3, <2>1 DEF MadeSoFar
  <2>3. \A db : IsFresh(p, db)' <=> IsFresh(p, db)
    BY <1>3, <2>1 DEF IsFresh
  <2>4. ASSUME NEW j \in DOMAIN dbs, j < call[p].k
        PROVE  dbs[j] \in exists' \/ (call[p].k \in DOMAIN dbs /\ dbs[j] = dbs[call[p].k])
    BY <1>3, <2>2, <2>4 DEF Target
  <2> QED
    BY <2>1, <2>2, <2>3, <2>4 DEF MadeSoFar
<1>4. CASE CheckRequest(p) \/ AdminConnection(p) \/ StatementFails(p) \/ Terminate(p) \/ ResetDone(p)
  <2>1. /\ call[p].pc \in {"check", "connect"} \cup Changing
        /\ \/ \E here \in Places : GoTo(p, here)
           \/ \E how \in Outcomes : Return(p, how)
        /\ born' = born /\ exists' = exists
    BY <1>4 DEF CheckRequest, AdminConnection, StatementFails, Terminate, ResetDone, At, server, Outcomes
  <2> QED
    BY <1>3, <2>1
<1>5. CASE Drop(p)
  <2>1. /\ call[p].pc = "drop" /\ GoTo(p, "create")
        /\ born' = born /\ exists' = exists \ {Target(p)}
    BY <1>5 DEF Drop, At
  <2>2. call[p].k \in DOMAIN dbs
    BY <2>1 DEF TypeOK, PositionOK
  <2> QED
    BY <1>3, <2>1, <2>2, TargetType
<1>6. CASE Create(p)
  <2>1. /\ NextDatabase(p) /\ call[p].pc = "create" /\ exists' = exists \cup {Target(p)}
        /\ born' = [born EXCEPT ![Target(p)] = calls]
    BY <1>6 DEF Create, At
  <2>2. /\ call'[p].databases = dbs /\ call'[p].k = call[p].k + 1
        /\ call'[p].since = call[p].since /\ call'[p].alone = call[p].alone
    BY <2>1, NextDatabaseCall DEF TypeOK
  <2>3. /\ call[p].k \in DOMAIN dbs /\ Target(p) = dbs[call[p].k]
        /\ Target(p) \in Database /\ born \in [Database -> 0..MaxCalls]
    BY <2>1, TargetType DEF TypeOK, PositionOK, Target
  <2>4. call[p].k \in Nat /\ Len(dbs) \in Nat /\ DOMAIN dbs = 1..Len(dbs) /\ dbs \in Seq(Database)
    BY DatabasesType
  <2>5. /\ \A j \in DOMAIN dbs : j < call[p].k =>
             /\ IsFresh(p, dbs[j])
             /\ dbs[j] \in exists \/ dbs[j] = Target(p)
        /\ \A db \in Database : IsFresh(p, db) => \E j \in DOMAIN dbs : j < call[p].k /\ dbs[j] = db
    BY <2>1, <2>2, <2>3 DEF MadeSoFar
  <2>6. \A db \in Database : IsFresh(p, db)' <=> IsFresh(p, db) \/ db = Target(p)
    <3>1. call[p].since <= calls
      BY DEF Control, ControlOK
    <3>2. born'[Target(p)] = calls /\ \A db \in Database : db # Target(p) => born'[db] = born[db]
      BY <2>1, <2>3
    <3>3. call[p].since \in Nat /\ calls \in Nat
      BY CallFields, MaxCallsAssumption DEF TypeOK, Fields
    <3>4. born'[Target(p)] >= call'[p].since
      BY <2>2, <3>1, <3>2, <3>3
    <3>5. \A db \in Database : db # Target(p) => (IsFresh(p, db)' <=> IsFresh(p, db))
      BY <2>2, <3>2 DEF IsFresh
    <3> QED
      BY <3>4, <3>5 DEF IsFresh
  <2>7. \A j \in DOMAIN dbs : j < call[p].k + 1 <=> j < call[p].k \/ j = call[p].k
    BY <2>4
  <2>8. ASSUME NEW j \in DOMAIN dbs, j < call[p].k + 1
        PROVE  born'[dbs[j]] >= call'[p].since /\ dbs[j] \in exists'
    <3>1. dbs[j] \in Database
      BY <2>4
    <3>2. \/ IsFresh(p, dbs[j]) /\ dbs[j] \in exists \cup {Target(p)}
          \/ dbs[j] = Target(p)
      BY <2>3, <2>5, <2>7, <2>8
    <3>3. dbs[j] \in exists'
      BY <2>1, <3>2
    <3>4. \A db \in Database : IsFresh(p, db) \/ db = Target(p) => born'[db] >= call'[p].since
      BY <2>6 DEF IsFresh
    <3> QED
      BY <3>1, <3>2, <3>3, <3>4
  <2>9. ASSUME NEW db \in Database, IsFresh(p, db)'
        PROVE  \E j \in DOMAIN dbs : j < call[p].k + 1 /\ dbs[j] = db
    BY <2>3, <2>5, <2>6, <2>7, <2>9
  <2>10. call[p].k + 1 <= Len(dbs) + 1
    BY <2>3, <2>4
  <2> QED
    BY <2>2, <2>8, <2>9, <2>10 DEF MadeSoFar, IsFresh
<1>7. CASE Main(p)
  BY <1>7, EndCall DEF Main, TypeOK, Returned, At
<1>8. CASE FindFile(p) \/ StartPsql(p) \/ PsqlFails(p) \/ BootstrapDone(p)
  <2>1. /\ call[p].pc \in {"file", "psql", "wait"}
        /\ \/ \E here \in {"psql", "wait"} : GoTo(p, here)
           \/ \E how \in Outcomes : Return(p, how)
    BY <1>8 DEF FindFile, StartPsql, PsqlFails, BootstrapDone, At, Outcomes
  <2>2. QED
    BY <2>1, GoToCall, ReturnCall DEF TypeOK, Control, ControlOK, SameBut, Returned, At
<1>9. CASE PsqlSucceeds(p)
  BY <1>9, NextTargetCall DEF PsqlSucceeds, TypeOK, Returned, At
<1>10. QED
  BY <1>1, <1>2, <1>4, <1>5, <1>6, <1>7, <1>8, <1>9, AloneStep DEF AdminStep, Returned, At

\* A reset that fails half way leaves a renewed part, an old part, and at most
\* one database that may be missing.
THEOREM PartsOfAReset == Spec => []PartialReset
<1> DEFINE Parts == BornInPast /\ \A p \in Admins : MadeSoFar(p)
<1>1. Init => Parts
  BY DEF Init, BornInPast, MadeSoFar, NoCall, Returned, At, Changing
<1>2. TypeOK /\ Control /\ Parts /\ [Next]_vars => Parts'
  BY BornStep, MadeStep
<1>3. TypeOK /\ Parts => PartialReset
  <2> SUFFICES ASSUME TypeOK, Parts, NEW p \in Admins,
                      Returned(p, "reset", "psycopg2.Error"), call[p].alone
               PROVE  LET list  == call[p].databases
                          Fresh == {db \in Database : IsFresh(p, db)}
                      IN  \E n \in 0..Len(list) :
                            LET Past == {list[j] : j \in 1..n}
                                Hand == {list[j] : j \in {n + 1} \cap DOMAIN list}
                            IN  Past \ Hand \subseteq exists /\ Past \subseteq Fresh /\ Fresh \subseteq Past \cup Hand
    BY DEF PartialReset
  <2> DEFINE list  == call[p].databases
             Fresh == {db \in Database : IsFresh(p, db)}
             n     == call[p].k - 1
             Past  == {list[j] : j \in 1..n}
             Hand  == {list[j] : j \in {n + 1} \cap DOMAIN list}
  <2>1. call[p].k \in Nat \ {0} /\ Len(list) \in Nat /\ DOMAIN list = 1..Len(list) /\ list \in Seq(Database)
    BY DatabasesType
  <2>2. /\ call[p].k <= Len(list) + 1
        /\ \A j \in DOMAIN list : j < call[p].k =>
             /\ IsFresh(p, list[j])
             /\ list[j] \in exists \/ (call[p].k \in DOMAIN list /\ list[j] = list[call[p].k])
        /\ \A db \in Database : IsFresh(p, db) => \E j \in DOMAIN list : j < call[p].k /\ list[j] = db
    BY DEF MadeSoFar
  <2>3. n \in 0..Len(list) /\ n + 1 = call[p].k /\ \A j : j \in 1..n <=> j \in DOMAIN list /\ j < call[p].k
    BY <2>1, <2>2
  <2> HIDE DEF n
  <2>4. Past \ Hand \subseteq exists
    BY <2>2, <2>3
  <2>5. Past \subseteq Fresh
    <3>1. \A j \in DOMAIN list : list[j] \in Database
      BY <2>1
    <3> QED
      BY <2>2, <2>3, <3>1
  <2>6. Fresh \subseteq Past \cup Hand
    BY <2>2, <2>3
  <2> QED
    BY <2>3, <2>4, <2>5, <2>6
<1> HIDE DEF Parts
<1>4. QED
  BY <1>1, <1>2, <1>3, RInvCorrect, PTL DEF RInv, Spec

-----------------------------------------------------------------------------
\* A bootstrap that is alone has done every script that comes before.
DoneSoFar(p) ==
  call[p].alone /\ (call[p].pc \in {"file", "psql", "wait"} \/ Returned(p, "bootstrap", "ok")) =>
    \A j \in DOMAIN BootstrapSteps : \A n \in DOMAIN BootstrapSteps[j].targets :
      j < call[p].k \/ (j = call[p].k /\ n < call[p].t) =>
        BootstrapSteps[j].script \in done[BootstrapSteps[j].targets[n]]

LEMMA DoneStep ==
  ASSUME TypeOK, Control, [Next]_vars, NEW p \in Admins, DoneSoFar(p)
  PROVE  DoneSoFar(p)'
<1> USE DEF Places, Resting, Changing
<1> SUFFICES ASSUME call'[p].alone,
                    call'[p].pc \in {"file", "psql", "wait"} \/ Returned(p, "bootstrap", "ok")'
             PROVE  DoneSoFar(p)'
  BY DEF DoneSoFar
<1>1. CASE UNCHANGED <<exists, done>> /\ call'[p] = call[p]
  BY <1>1 DEF DoneSoFar, Returned, At
<1>2. CASE FindFile(p) \/ StartPsql(p) \/ PsqlFails(p) \/ BootstrapDone(p)
  <2>1. /\ call[p].pc \in {"file", "psql", "wait"} /\ done' = done
        /\ \/ \E here \in {"psql", "wait"} : GoTo(p, here)
           \/ \E how \in Outcomes : Return(p, how)
    BY <1>2 DEF FindFile, StartPsql, PsqlFails, BootstrapDone, At, server, Outcomes
  <2>2. call'[p].k = call[p].k /\ call'[p].t = call[p].t /\ call'[p].alone = call[p].alone
    BY <2>1, GoToCall, ReturnCall DEF TypeOK, SameBut
  <2>3. QED
    BY <2>1, <2>2 DEF DoneSoFar
<1>3. CASE PsqlSucceeds(p)
  <2> DEFINE k == call[p].k
             t == call[p].t
  <2>1. /\ call[p].pc = "wait" /\ NextTarget(p)
        /\ done' = [done EXCEPT ![Against(p)] = @ \cup {ThisStep(p).script}]
    BY <1>3 DEF PsqlSucceeds, At
  <2>2. /\ call'[p].alone = call[p].alone
        /\ \/ call'[p].t = t + 1 /\ call'[p].k = k
           \/ /\ ~(t < Len(BootstrapSteps[k].targets))
              /\ call'[p].t = 1 /\ call'[p].k = k + 1
    BY <2>1, NextTargetCall DEF TypeOK, ThisStep
  <2>3. k \in Nat /\ t \in Nat /\ DOMAIN BootstrapSteps \subseteq Nat
    BY CallFields, StepsShape DEF TypeOK, Fields
  <2>4. ASSUME NEW j \in DOMAIN BootstrapSteps
        PROVE  /\ DOMAIN BootstrapSteps[j].targets = 1..Len(BootstrapSteps[j].targets)
               /\ Len(BootstrapSteps[j].targets) \in Nat
               /\ \A n \in DOMAIN BootstrapSteps[j].targets : BootstrapSteps[j].targets[n] \in Database
    BY StepsShape DEF Database
  <2>5. /\ Against(p) = BootstrapSteps[k].targets[t] /\ ThisStep(p) = BootstrapSteps[k]
        /\ Against(p) \in Database /\ done \in [Database -> SUBSET Script]
    BY <2>1, AgainstType DEF Against, ThisStep, TypeOK
  <2>6. ASSUME NEW j \in DOMAIN BootstrapSteps, NEW n \in DOMAIN BootstrapSteps[j].targets,
               j < call'[p].k \/ (j = call'[p].k /\ n < call'[p].t)
        PROVE  BootstrapSteps[j].script \in done'[BootstrapSteps[j].targets[n]]
    <3>1. j < k \/ (j = k /\ n < t) \/ (j = k /\ n = t)
      <4>1. /\ j \in Nat /\ n \in 1..Len(BootstrapSteps[j].targets)
            /\ Len(BootstrapSteps[j].targets) \in Nat
        BY <2>3, <2>4
      <4> HIDE DEF k, t
      <4>2. CASE call'[p].t = t + 1 /\ call'[p].k = k
        BY <2>3, <2>6, <4>1, <4>2
      <4>3. CASE ~(t < Len(BootstrapSteps[k].targets)) /\ call'[p].t = 1 /\ call'[p].k = k + 1
        <5>1. j < k \/ j = k
          BY <2>3, <2>6, <4>1, <4>3
        <5>2. j = k => n <= t
          BY <2>3, <4>1, <4>3
        <5>3. QED
          BY <2>3, <4>1, <5>1, <5>2
      <4>4. QED
        BY <2>2, <4>2, <4>3
    <3>2. CASE j < k \/ (j = k /\ n < t)
      <4>1. BootstrapSteps[j].script \in done[BootstrapSteps[j].targets[n]]
        BY <2>1, <2>2, <3>2 DEF DoneSoFar
      <4>2. BootstrapSteps[j].targets[n] \in Database
        BY <2>4
      <4>3. QED
        BY <2>1, <2>5, <4>1, <4>2
    <3>3. CASE j = k /\ n = t
      BY <2>1, <2>5, <3>3
    <3>4. QED
      BY <3>1, <3>2, <3>3
  <2>7. QED
    BY <2>6 DEF DoneSoFar
<1>4. CASE CheckRequest(p) \/ AdminConnection(p) \/ StatementFails(p) \/ ResetDone(p)
  <2>1. /\ call[p].pc \in {"check", "connect"} \cup Changing
        /\ \/ \E here \in {"connect", "terminate"} : GoTo(p, here)
           \/ \E how \in Outcomes : Return(p, how)
    BY <1>4 DEF CheckRequest, AdminConnection, StatementFails, ResetDone, At, Outcomes
  <2>2. QED
    BY <2>1, GoToCall, ReturnCall DEF TypeOK, Control, ControlOK, SameBut, Returned, At
<1>5. CASE Terminate(p) \/ Drop(p) \/ Create(p)
  <2>1. NextDatabase(p) \/ \E here \in {"drop", "create"} : GoTo(p, here)
    BY <1>5 DEF Terminate, Drop, Create
  <2>2. QED
    BY <2>1, GoToCall, NextDatabaseCall DEF TypeOK, SameBut, Returned, At
<1>6. CASE Main(p)
  BY <1>6, EndCall DEF Main, TypeOK, Returned, At
<1>7. CASE call'[p].pc = "file" /\ call'[p].k = 1 /\ call'[p].t = 1
  <2>1. \A j \in DOMAIN BootstrapSteps :
          j \in Nat \ {0} /\ DOMAIN BootstrapSteps[j].targets \subseteq Nat \ {0}
    BY StepsShape
  <2>2. QED
    BY <1>7, <2>1 DEF DoneSoFar
<1>8. QED
  BY <1>1, <1>2, <1>3, <1>4, <1>5, <1>6, <1>7, AloneStep DEF AdminStep, Returned, At

\* What a script needs, an earlier step has done.
LEMMA NeedsComeFirst ==
  ASSUME NEW k \in DOMAIN BootstrapSteps, NEW t \in DOMAIN BootstrapSteps[k].targets,
         NEW need \in Needs(BootstrapSteps[k].script, BootstrapSteps[k].targets[t])
  PROVE  \E j \in DOMAIN BootstrapSteps : \E n \in DOMAIN BootstrapSteps[j].targets :
           /\ j < k
           /\ need[1] = BootstrapSteps[j].targets[n] /\ need[2] = BootstrapSteps[j].script
<1>1. k \in 1..8 /\ DOMAIN BootstrapSteps = 1..8
  BY DEF BootstrapSteps
<1>2. /\ BootstrapSteps[1].script = "create_schemas"
      /\ BootstrapSteps[1].targets = <<"source_db", "intermediate_db", "target_db">>
      /\ BootstrapSteps[2] = On("ddl_source_tables", "source_db")
      /\ BootstrapSteps[3] = On("ddl_target_tables", "target_db")
      /\ BootstrapSteps[4] = On("create_fdw_intermediate_to_source", "intermediate_db")
      /\ BootstrapSteps[5] = On("create_fdw_intermediate_to_target", "intermediate_db")
      /\ BootstrapSteps[6] = On("init_staging_schema", "intermediate_db")
      /\ BootstrapSteps[7] = On("create_udfs", "intermediate_db")
      /\ BootstrapSteps[8] = On("create_fdw_target_to_intermediate", "target_db")
  BY DEF BootstrapSteps, MANAGED_DATABASES
<1>3. \A script, db : /\ On(script, db).script = script
                      /\ On(script, db).targets = <<db>>
  BY DEF On
<1>4. ASSUME NEW db \in {"source_db", "intermediate_db", "target_db"}
      PROVE  \E n \in DOMAIN BootstrapSteps[1].targets : db = BootstrapSteps[1].targets[n]
  BY <1>2
<1>5. CASE k = 1
  BY <1>2, <1>5 DEF Needs
<1>6. CASE need[2] = "create_schemas" /\ need[1] \in {"source_db", "intermediate_db", "target_db"} /\ k # 1
  BY <1>1, <1>2, <1>4, <1>6
<1>7. CASE need = <<"source_db", "ddl_source_tables">> /\ k = 4
  BY <1>1, <1>2, <1>3, <1>7
<1>8. CASE need = <<"target_db", "ddl_target_tables">> /\ k = 5
  BY <1>1, <1>2, <1>3, <1>8
<1>9. CASE need = <<"intermediate_db", "init_staging_schema">> /\ k \in {7, 8}
  BY <1>1, <1>2, <1>3, <1>9
<1>10. CASE k \in {2, 3, 6}
  BY <1>2, <1>3, <1>6, <1>10 DEF Needs
<1>11. CASE k = 4
  <2>1. need \in {<<"intermediate_db", "create_schemas">>, <<"source_db", "ddl_source_tables">>}
    BY <1>2, <1>3, <1>11 DEF Needs
  <2>2. QED
    BY <1>6, <1>7, <1>11, <2>1
<1>12. CASE k = 5
  <2>1. need \in {<<"intermediate_db", "create_schemas">>, <<"target_db", "ddl_target_tables">>}
    BY <1>2, <1>3, <1>12 DEF Needs
  <2>2. QED
    BY <1>6, <1>8, <1>12, <2>1
<1>13. CASE k = 7
  <2>1. need \in {<<"intermediate_db", "create_schemas">>,
                  <<"intermediate_db", "init_staging_schema">>}
    BY <1>2, <1>3, <1>13 DEF Needs
  <2>2. QED
    BY <1>6, <1>9, <1>13, <2>1
<1>14. CASE k = 8
  <2>1. need \in {<<"target_db", "create_schemas">>,
                  <<"intermediate_db", "init_staging_schema">>}
    BY <1>2, <1>3, <1>14 DEF Needs
  <2>2. QED
    BY <1>6, <1>9, <1>14, <2>1
<1>15. QED
  BY <1>1, <1>5, <1>10, <1>11, <1>12, <1>13, <1>14

Scripts == \A p \in Admins : DoneSoFar(p)

LEMMA ScriptsCorrect == Spec => [](TypeOK /\ Control /\ Scripts)
<1>1. Init => Scripts
  BY DEF Init, Scripts, DoneSoFar, NoCall, Returned, At
<1>2. TypeOK /\ Control /\ Scripts /\ [Next]_vars => Scripts'
  BY DoneStep DEF Scripts
<1>3. QED
  BY <1>1, <1>2, RInvCorrect, PTL DEF RInv, Spec

\* A bootstrap that returns without another process at work has done every
\* script in each of its databases.
THEOREM BootstrapDoesAll == Spec => []BootstrapIsComplete
<1>1. TypeOK /\ Control /\ Scripts => BootstrapIsComplete
  <2> SUFFICES ASSUME TypeOK, Control, Scripts, NEW p \in Admins,
                      Returned(p, "bootstrap", "ok"), call[p].alone,
                      NEW j \in DOMAIN BootstrapSteps, NEW n \in DOMAIN BootstrapSteps[j].targets
               PROVE  BootstrapSteps[j].script \in done[BootstrapSteps[j].targets[n]]
    BY DEF BootstrapIsComplete
  <2>1. j <= Len(BootstrapSteps) /\ j \in Nat /\ Len(BootstrapSteps) \in Nat /\ call[p].k \in Nat
    BY StepsShape, DatabasesType
  <2>2. call[p].k > Len(BootstrapSteps)
    BY DEF Control, ControlOK
  <2>3. QED
    BY <2>1, <2>2 DEF Scripts, DoneSoFar
<1>2. QED
  BY <1>1, ScriptsCorrect, PTL

\* The order of the bootstrap steps gives each script what it needs.
THEOREM OrderIsRight == Spec => []OrderSatisfiesNeeds
<1>1. TypeOK /\ Scripts => OrderSatisfiesNeeds
  <2> SUFFICES ASSUME TypeOK, Scripts, NEW p \in Admins, call[p].pc = "wait", call[p].alone,
                      NEW need \in Needs(ThisStep(p).script, Against(p))
               PROVE  need[2] \in done[need[1]]
    BY DEF OrderSatisfiesNeeds, NeedsMet, At
  <2>1. /\ call[p].k \in DOMAIN BootstrapSteps
        /\ call[p].t \in DOMAIN BootstrapSteps[call[p].k].targets
    BY DEF TypeOK, PositionOK, ThisStep
  <2>2. need \in Needs(BootstrapSteps[call[p].k].script, BootstrapSteps[call[p].k].targets[call[p].t])
    BY DEF ThisStep, Against
  <2>3. PICK j \in DOMAIN BootstrapSteps : \E n \in DOMAIN BootstrapSteps[j].targets :
          /\ j < call[p].k
          /\ need[1] = BootstrapSteps[j].targets[n] /\ need[2] = BootstrapSteps[j].script
    BY <2>1, <2>2, NeedsComeFirst
  <2>4. PICK n \in DOMAIN BootstrapSteps[j].targets :
          /\ j < call[p].k
          /\ need[1] = BootstrapSteps[j].targets[n] /\ need[2] = BootstrapSteps[j].script
    BY <2>3
  <2>5. QED
    BY <2>4 DEF Scripts, DoneSoFar
<1>2. QED
  BY <1>1, ScriptsCorrect, PTL


-----------------------------------------------------------------------------
(* What a call may still do *)

\* The steps that a process at this place can still make at most, with the k-th
\* of n databases in hand, or the t-th target of the k-th script: three for each
\* database, seven for each script, and main's.
StepsFrom(here, n, k, t) ==
  CASE here = "check"     -> 3 * n + 4
    [] here = "connect"   -> 3 * n + 3
    [] here = "terminate" -> 3 * (n + 1 - k) + 2
    [] here = "drop"      -> 3 * (n + 1 - k) + 1
    [] here = "create"    -> 3 * (n + 1 - k)
    [] here = "file"      -> 7 * (9 - k) + 2
    [] here = "psql"      -> 7 * (9 - k) + 3 - 2 * t
    [] here = "wait"      -> 7 * (9 - k) + 2 - 2 * t
    [] here = "returned"  -> 1
    [] here = "idle"      -> 0

StepsLeft(p) == StepsFrom(call[p].pc, Len(call[p].databases), call[p].k, call[p].t)

\* Where a process can be.
Fits(here, n, k, t) ==
  /\ here \in {"check", "connect"} => k = 1
  /\ here = "terminate" => k <= n + 1
  /\ here \in {"drop", "create"} => k <= n
  /\ here = "file" => k <= 9 /\ t = 1
  /\ here \in {"psql", "wait"} => k <= 8 /\ t <= 3

Placed == \A p \in Admins : Fits(call[p].pc, Len(call[p].databases), call[p].k, call[p].t)

\* How it gets from one place to the next.
Move(here, there, n, k, t, j, u) ==
  \/ here \notin Resting /\ there = "returned"
  \/ here # "idle" /\ there = "idle"
  \/ /\ j = k /\ u = t
     /\ \/ here = "check" /\ there = "connect"
        \/ here = "connect" /\ there = "terminate"
        \/ here = "terminate" /\ there = "drop" /\ k <= n
        \/ here = "drop" /\ there = "create"
        \/ here = "file" /\ there = "psql" /\ k <= 8
        \/ here = "psql" /\ there = "wait"
  \/ here = "create" /\ there = "terminate" /\ j = k + 1
  \/ here = "wait" /\ there = "psql" /\ j = k /\ u = t + 1 /\ u <= 3
  \/ here = "wait" /\ there = "file" /\ j = k + 1 /\ u = 1

CallAdvances ==
  \A p \in Admins :
    /\ AdminStep(p) => StepsLeft(p)' < StepsLeft(p)
    /\ At(p, "idle") \/ StepsLeft(p)' <= StepsLeft(p)

StepsBounded ==
  \A p \in Admins :
    StepsLeft(p) \in Nat /\ (StepsLeft(p) <= 58 \/ StepsLeft(p) <= 3 * Len(call[p].databases) + 4)

LEMMA StepsFromOf ==
  \A n, k, t :
    /\ StepsFrom("check", n, k, t)     = 3 * n + 4
    /\ StepsFrom("connect", n, k, t)   = 3 * n + 3
    /\ StepsFrom("terminate", n, k, t) = 3 * (n + 1 - k) + 2
    /\ StepsFrom("drop", n, k, t)      = 3 * (n + 1 - k) + 1
    /\ StepsFrom("create", n, k, t)    = 3 * (n + 1 - k)
    /\ StepsFrom("file", n, k, t)      = 7 * (9 - k) + 2
    /\ StepsFrom("psql", n, k, t)      = 7 * (9 - k) + 3 - 2 * t
    /\ StepsFrom("wait", n, k, t)      = 7 * (9 - k) + 2 - 2 * t
    /\ StepsFrom("returned", n, k, t)  = 1
    /\ StepsFrom("idle", n, k, t)      = 0
BY DEF StepsFrom

LEMMA StepsFromBound ==
  ASSUME NEW here \in Places, NEW n \in Nat, NEW k \in Nat \ {0}, NEW t \in Nat \ {0},
         Fits(here, n, k, t)
  PROVE  /\ StepsFrom(here, n, k, t) \in Nat
         /\ here # "idle" => StepsFrom(here, n, k, t) > 0
         /\ here \notin Resting => StepsFrom(here, n, k, t) > 1
         /\ StepsFrom(here, n, k, t) <= 58 \/ StepsFrom(here, n, k, t) <= 3 * n + 4
<1>1. CASE here \in {"check", "connect"}
  BY <1>1, StepsFromOf DEF Fits, Resting
<1>2. CASE here \in Changing
  BY <1>2, StepsFromOf DEF Fits, Resting, Changing
<1>3. CASE here \in {"file", "psql", "wait"}
  BY <1>3, StepsFromOf DEF Fits, Resting
<1>4. CASE here \in Resting
  BY <1>4, StepsFromOf DEF Resting
<1>5. QED
  BY <1>1, <1>2, <1>3, <1>4 DEF Places

LEMMA MoveIsForward ==
  ASSUME NEW here \in Places, NEW there \in Places, NEW n \in Nat, NEW m \in Nat,
         NEW k \in Nat \ {0}, NEW t \in Nat \ {0}, NEW j \in Nat \ {0}, NEW u \in Nat \ {0},
         Fits(here, n, k, t), Move(here, there, n, k, t, j, u),
         there \in Resting \/ m = n
  PROVE  Fits(there, m, j, u) /\ StepsFrom(there, m, j, u) < StepsFrom(here, n, k, t)
<1>1. CASE here \notin Resting /\ there = "returned"
  <2>1. StepsFrom(there, m, j, u) = 1
    BY <1>1 DEF StepsFrom
  <2>2. StepsFrom(here, n, k, t) \in Nat /\ StepsFrom(here, n, k, t) > 1
    BY <1>1, StepsFromBound
  <2>3. Fits(there, m, j, u)
    BY <1>1 DEF Fits
  <2>4. QED
    BY <2>1, <2>2, <2>3
<1>2. CASE here # "idle" /\ there = "idle"
  <2>1. StepsFrom(there, m, j, u) = 0
    BY <1>2 DEF StepsFrom
  <2>2. StepsFrom(here, n, k, t) \in Nat /\ StepsFrom(here, n, k, t) > 0
    BY <1>2, StepsFromBound
  <2>3. Fits(there, m, j, u)
    BY <1>2 DEF Fits
  <2>4. QED
    BY <2>1, <2>2, <2>3
<1>3. CASE here = "check" /\ there = "connect" /\ j = k
  BY <1>3, StepsFromOf DEF Fits, Resting
<1>4. CASE here = "connect" /\ there = "terminate" /\ j = k
  BY <1>4, StepsFromOf DEF Fits, Resting
<1>5. CASE here = "terminate" /\ there = "drop" /\ j = k /\ k <= n
  BY <1>5, StepsFromOf DEF Fits, Resting
<1>6. CASE here = "drop" /\ there = "create" /\ j = k
  BY <1>6, StepsFromOf DEF Fits, Resting
<1>7. CASE here = "file" /\ there = "psql" /\ j = k /\ u = t /\ k <= 8
  BY <1>7, StepsFromOf DEF Fits, Resting
<1>8. CASE here = "psql" /\ there = "wait" /\ j = k /\ u = t
  BY <1>8, StepsFromOf DEF Fits, Resting
<1>9. CASE here = "create" /\ there = "terminate" /\ j = k + 1
  BY <1>9, StepsFromOf DEF Fits, Resting
<1>10. CASE here = "wait" /\ there = "psql" /\ j = k /\ u = t + 1 /\ u <= 3
  BY <1>10, StepsFromOf DEF Fits, Resting
<1>11. CASE here = "wait" /\ there = "file" /\ j = k + 1 /\ u = 1
  BY <1>11, StepsFromOf DEF Fits, Resting
<1>12. QED
  BY <1>1, <1>2, <1>3, <1>4, <1>5, <1>6, <1>7, <1>8, <1>9, <1>10, <1>11 DEF Move

LEMMA FewTargets ==
  /\ Len(BootstrapSteps) = 8
  /\ \A k \in DOMAIN BootstrapSteps : Len(BootstrapSteps[k].targets) \in 1..3
<1>1. Len(BootstrapSteps) = 8 /\ DOMAIN BootstrapSteps = 1..8
  BY DEF BootstrapSteps
<1>2. Len(MANAGED_DATABASES) = 3
  BY DEF MANAGED_DATABASES
<1>3. \A k \in 1..8 : \/ BootstrapSteps[k].targets = MANAGED_DATABASES
                      \/ \E db : BootstrapSteps[k].targets = <<db>>
  BY DEF BootstrapSteps, On
<1>4. ASSUME NEW k \in 1..8
      PROVE  Len(BootstrapSteps[k].targets) \in 1..3
  <2>1. CASE BootstrapSteps[k].targets = MANAGED_DATABASES
    BY <1>2, <2>1
  <2>2. ASSUME NEW db, BootstrapSteps[k].targets = <<db>>
        PROVE  Len(BootstrapSteps[k].targets) = 1
    BY <2>2
  <2>3. QED
    BY <1>3, <2>1, <2>2
<1>5. QED
  BY <1>1, <1>4

\* Every step of a process, and its end, is a move.
LEMMA StepIsMove ==
  ASSUME TypeOK, NEW p \in Admins, AdminStep(p) \/ Kill(p)
  PROVE  /\ Move(call[p].pc, call'[p].pc, Len(call[p].databases), call[p].k, call[p].t,
                 call'[p].k, call'[p].t)
         /\ call'[p].pc \in Resting \/ call'[p].databases = call[p].databases
<1> USE DEF Places, Resting, Changing, Outcomes, Move
<1>1. CASE \/ StatementFails(p) \/ ResetDone(p) \/ PsqlFails(p) \/ BootstrapDone(p)
           \/ CheckRequest(p) /\ ~GoTo(p, "connect")
           \/ AdminConnection(p) /\ ~GoTo(p, "terminate")
           \/ FindFile(p) /\ ~GoTo(p, "psql")
           \/ StartPsql(p) /\ ~GoTo(p, "wait")
  <2>1. call[p].pc \notin Resting /\ \E how \in Outcomes : Return(p, how)
    BY <1>1 DEF StatementFails, ResetDone, PsqlFails, BootstrapDone, CheckRequest,
                AdminConnection, FindFile, StartPsql, At
  <2>2. call'[p].pc = "returned"
    BY <2>1, ReturnCall DEF TypeOK, SameBut
  <2>3. QED
    BY <2>1, <2>2
<1>2. CASE Main(p) \/ Kill(p)
  BY <1>2, EndCall DEF Main, Kill, At, TypeOK
<1>3. ASSUME NEW here \in Places, GoTo(p, here)
      PROVE  /\ call'[p].pc = here /\ call'[p].databases = call[p].databases
             /\ call'[p].k = call[p].k /\ call'[p].t = call[p].t
  BY <1>3, GoToCall DEF TypeOK, SameBut
<1>4. CASE CheckRequest(p) /\ GoTo(p, "connect")
  BY <1>3, <1>4 DEF CheckRequest, At
<1>5. CASE AdminConnection(p) /\ GoTo(p, "terminate")
  BY <1>3, <1>5 DEF AdminConnection, At
<1>6. CASE Terminate(p)
  BY <1>3, <1>6 DEF Terminate, At
<1>7. CASE Drop(p)
  BY <1>3, <1>7 DEF Drop, At
<1>8. CASE Create(p)
  BY <1>8, NextDatabaseCall DEF Create, At, TypeOK
<1>9. CASE FindFile(p) /\ GoTo(p, "psql")
  BY <1>3, <1>9, FewTargets DEF FindFile, At
<1>10. CASE StartPsql(p) /\ GoTo(p, "wait")
  BY <1>3, <1>10 DEF StartPsql, At
<1>11. CASE PsqlSucceeds(p)
  <2>1. call[p].pc = "wait" /\ NextTarget(p)
    BY <1>11 DEF PsqlSucceeds, At
  <2>2. /\ Len(ThisStep(p).targets) \in 1..3 /\ call[p].t \in Nat
    BY <2>1, FewTargets, CallFields DEF TypeOK, PositionOK, ThisStep, Fields
  <2>3. /\ call'[p].databases = call[p].databases
        /\ \/ /\ call[p].t < Len(ThisStep(p).targets)
              /\ call'[p].pc = "psql" /\ call'[p].t = call[p].t + 1 /\ call'[p].k = call[p].k
           \/ call'[p].pc = "file" /\ call'[p].t = 1 /\ call'[p].k = call[p].k + 1
    BY <2>1, NextTargetCall, Zenon DEF TypeOK
  <2>4. CASE call[p].t < Len(ThisStep(p).targets)
    <3>1. \A x \in Nat, y \in 1..3 : x < y => x + 1 <= 3
      OBVIOUS
    <3>2. call[p].t + 1 <= 3
      BY <2>2, <2>4, <3>1, Zenon
    <3>3. QED
      BY <2>1, <2>3, <3>2
  <2>5. QED
    BY <2>1, <2>3, <2>4
<1>12. QED
  BY <1>1, <1>2, <1>4, <1>5, <1>6, <1>7, <1>8, <1>9, <1>10, <1>11 DEF AdminStep

LEMMA PlaceTypes ==
  ASSUME TypeOK, NEW p \in Admins
  PROVE  /\ call[p].pc \in Places /\ Len(call[p].databases) \in Nat
         /\ call[p].k \in Nat \ {0} /\ call[p].t \in Nat \ {0}
BY CallFields, DatabasesType DEF TypeOK, Fields

LEMMA PlaceTypesNext ==
  ASSUME TypeOK', NEW p \in Admins
  PROVE  /\ call'[p].pc \in Places /\ Len(call'[p].databases) \in Nat
         /\ call'[p].k \in Nat \ {0} /\ call'[p].t \in Nat \ {0}
BY CallFields, DatabasesTypeNext DEF TypeOK, Fields

\* What the process does itself.
LEMMA OwnStep ==
  ASSUME TypeOK, TypeOK', NEW p \in Admins, AdminStep(p) \/ Kill(p),
         Fits(call[p].pc, Len(call[p].databases), call[p].k, call[p].t)
  PROVE  /\ Fits(call'[p].pc, Len(call'[p].databases), call'[p].k, call'[p].t)
         /\ StepsLeft(p)' < StepsLeft(p)
<1>1. call'[p].pc \in Resting \/ Len(call'[p].databases) = Len(call[p].databases)
  BY StepIsMove
<1> DEFINE there == call'[p].pc
           m     == Len(call'[p].databases)
           j     == call'[p].k
           u     == call'[p].t
<1>2. Move(call[p].pc, there, Len(call[p].databases), call[p].k, call[p].t, j, u)
  BY StepIsMove
<1>3. /\ there \in Places /\ m \in Nat /\ j \in Nat \ {0} /\ u \in Nat \ {0}
      /\ there \in Resting \/ m = Len(call[p].databases)
  BY <1>1, PlaceTypesNext
<1>4. StepsLeft(p)' = StepsFrom(there, m, j, u)
  BY DEF StepsLeft
<1> HIDE DEF there, m, j, u
<1>5. Fits(there, m, j, u) /\ StepsFrom(there, m, j, u) < StepsLeft(p)
  BY <1>2, <1>3, MoveIsForward, PlaceTypes, Zenon DEF StepsLeft
<1>6. QED
  BY <1>4, <1>5, Zenon DEF there, m, j, u

\* A step of the system is one's own, or a new call, or does not concern one.
LEMMA WhoseStep ==
  ASSUME TypeOK, [Next]_vars, NEW p \in Admins
  PROVE  \/ AdminStep(p) \/ Kill(p)
         \/ /\ call[p].pc = "idle" /\ call'[p].pc \in {"check", "file"}
            /\ call'[p].k = 1 /\ call'[p].t = 1
         \/ /\ call'[p].pc = call[p].pc /\ call'[p].databases = call[p].databases
            /\ call'[p].k = call[p].k /\ call'[p].t = call[p].t
<1>1. ASSUME NEW q \in Admins, q # p, AdminStep(q) \/ Kill(q)
      PROVE  call'[p] = call[p]
  BY <1>1, StepFrame
<1>2. ASSUME NEW q \in Admins, BeginReset(q) \/ BeginBootstrap(q)
      PROVE  \/ /\ call[p].pc = "idle" /\ call'[p].pc \in {"check", "file"}
                /\ call'[p].k = 1 /\ call'[p].t = 1
             \/ /\ call'[p].pc = call[p].pc /\ call'[p].databases = call[p].databases
                /\ call'[p].k = call[p].k /\ call'[p].t = call[p].t
  <2>1. PICK kind \in Kinds, here \in {"check", "file"}, databases \in {<<>>} \cup Requests :
          Begin(q, kind, here, databases)
    BY <1>2 DEF BeginReset, BeginBootstrap, Kinds
  <2>2. here \in Places
    BY DEF Places
  <2>3. CASE q = p
    BY <2>1, <2>2, <2>3, BeginCall DEF TypeOK
  <2>4. CASE q # p
    BY <2>1, <2>2, <2>4, BeginCall DEF TypeOK, SameButAlone
  <2>5. QED
    BY <2>3, <2>4
<1>3. CASE call' = call
  BY <1>3
<1>4. QED
  BY <1>1, <1>2, <1>3 DEF Next, ClientConnects, ClientLeaves, vars, server

LEMMA PlacedStep ==
  ASSUME TypeOK, TypeOK', Placed, [Next]_vars
  PROVE  Placed' /\ CallAdvances
<1>1. ASSUME NEW p \in Admins
      PROVE  /\ Fits(call'[p].pc, Len(call'[p].databases), call'[p].k, call'[p].t)
             /\ AdminStep(p) => StepsLeft(p)' < StepsLeft(p)
             /\ At(p, "idle") \/ StepsLeft(p)' <= StepsLeft(p)
  <2>1. Fits(call[p].pc, Len(call[p].databases), call[p].k, call[p].t)
    BY DEF Placed
  <2>2. StepsLeft(p) \in Nat
    BY <2>1, PlaceTypes, StepsFromBound DEF StepsLeft
  <2>3. CASE AdminStep(p) \/ Kill(p)
    <3>1. /\ Fits(call'[p].pc, Len(call'[p].databases), call'[p].k, call'[p].t)
          /\ StepsLeft(p)' < StepsLeft(p)
      BY <2>1, <2>3, OwnStep
    <3>2. StepsLeft(p)' \in Nat
      BY <3>1, PlaceTypesNext, StepsFromBound DEF StepsLeft
    <3>3. QED
      BY <2>2, <3>1, <3>2
  <2>4. CASE /\ call[p].pc = "idle" /\ call'[p].pc \in {"check", "file"}
             /\ call'[p].k = 1 /\ call'[p].t = 1 /\ ~AdminStep(p)
    BY <2>4 DEF Fits, At
  <2>5. CASE /\ call'[p].pc = call[p].pc /\ call'[p].databases = call[p].databases
             /\ call'[p].k = call[p].k /\ call'[p].t = call[p].t /\ ~AdminStep(p)
    <3>1. StepsLeft(p)' = StepsLeft(p)
      BY <2>5 DEF StepsLeft
    <3>2. QED
      BY <2>1, <2>2, <2>5, <3>1
  <2>6. QED
    BY <2>3, <2>4, <2>5, WhoseStep
<1>2. QED
  BY <1>1 DEF Placed, CallAdvances

\* A reset of n databases makes 3 n + 4 steps at most and a bootstrap 58: each
\* step of a process brings the end of its call nearer, and nothing that others
\* do to the databases meanwhile makes it do a step again.
THEOREM CallsAreBounded == Spec => []StepsBounded /\ [][CallAdvances]_vars
<1>1. Init => Placed
  <2> SUFFICES ASSUME Init, NEW p \in Admins
               PROVE  Fits(call[p].pc, Len(call[p].databases), call[p].k, call[p].t)
    BY DEF Placed
  <2>1. call[p].pc = "idle"
    BY DEF Init, NoCall
  <2>2. QED
    BY <2>1 DEF Fits
<1>2. TypeOK /\ TypeOK' /\ Placed /\ [Next]_vars => Placed' /\ [CallAdvances]_vars
  BY PlacedStep
<1>3. TypeOK /\ Placed => StepsBounded
  <2> SUFFICES ASSUME TypeOK, Placed, NEW p \in Admins
               PROVE  /\ StepsLeft(p) \in Nat
                      /\ StepsLeft(p) <= 58 \/ StepsLeft(p) <= 3 * Len(call[p].databases) + 4
    BY DEF StepsBounded
  <2>1. Fits(call[p].pc, Len(call[p].databases), call[p].k, call[p].t)
    BY DEF Placed
  <2>2. QED
    BY <2>1, PlaceTypes, StepsFromBound DEF StepsLeft
<1>4. QED
  BY <1>1, <1>2, <1>3, TypeCorrect, PTL DEF Spec
=============================================================================
