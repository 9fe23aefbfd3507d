----------------------- MODULE ExecutionLogger_proofs -----------------------
(***************************************************************************)
(* Safety of the logger for every number of writers, readers, calls and    *)
(* faults.  The inductive invariant says what a writer's local copy holds  *)
(* while it is inside the lock, that the file always holds the last        *)
(* stretch of the history, and, while nothing has failed, that the stretch *)
(* is all of it.                                                           *)
(***************************************************************************)
EXTENDS ExecutionLogger, Common_proofs

LastStretch(s) ==
  \E a \in 0..Len(accepted) : s = SubSeq(accepted, a + 1, Len(accepted))

Logged(w, n) == \E p \in DOMAIN accepted : accepted[p] = <<w, n>>

InCall ==
  /\ \A w \in Writers : pc[w] # "idle" => calls[w] \in 1..MaxCalls
  /\ \A w \in Writers : pc[w] = "open" => data[w] = Append(Entries(file), ThisEntry(w))
  /\ \A w \in Writers : pc[w] = "write" =>
       /\ file.kind \in {"empty", "torn"}
       /\ \E s \in Seq(Entry) : LastStretch(s) /\ data[w] = Append(s, ThisEntry(w))

Genuine == LastStretch(Entries(file)) /\ ReadIsGenuine

Complete ==
  faults = 0 =>
    /\ (\A w \in Writers : pc[w] # "write") => file.kind # "torn" /\ Entries(file) = accepted
    /\ \A w \in Writers : pc[w] = "write" => data[w] = Append(accepted, ThisEntry(w))
    /\ \A w \in Writers : \A n \in 1..calls[w] :
         n < calls[w] \/ pc[w] \in {"idle", "release"} => Logged(w, n)

IInv == TypeOK /\ InCall /\ Genuine /\ Complete
-----------------------------------------------------------------------------
LEMMA ThisEntryType ==
  ASSUME TypeOK, InCall, NEW w \in Writers, pc[w] # "idle"
  PROVE  ThisEntry(w) \in Entry
BY DEF InCall, ThisEntry, Entry

\* The entries of a log file are a sequence of entries.
LEMMA EntriesType ==
  ASSUME TypeOK
  PROVE  Entries(file) \in Seq(Entry)
BY LogFileFields DEF TypeOK

LEMMA LastStretchType ==
  ASSUME TypeOK, NEW s, LastStretch(s)
  PROVE  s \in Seq(Entry)
BY DEF TypeOK, LastStretch

\* The variables keep their types, and the lock is exclusive.
LEMMA TypeStep ==
  ASSUME TypeOK, InCall, [Next]_vars
  PROVE  TypeOK'
<1> USE NoWriterAssumption, BoundsAssumption DEF At, GoTo, InLock
<1>1. ASSUME NEW w \in Writers, Call(w)
      PROVE  TypeOK'
  BY <1>1 DEF Call, TypeOK
<1>2. ASSUME NEW w \in Writers, Acquire(w)
      PROVE  TypeOK'
  BY <1>2 DEF Acquire, TypeOK
<1>3. ASSUME NEW w \in Writers, Read(w)
      PROVE  TypeOK'
  <2>1. Append(Entries(file), ThisEntry(w)) \in Seq(Entry)
    BY <1>3, EntriesType, ThisEntryType DEF Read
  <2> QED
    BY <1>3, <2>1 DEF Read, TypeOK
<1>4. ASSUME NEW w \in Writers, Open(w)
      PROVE  TypeOK'
  <2>1. Empty \in LogFiles(Entry)
    BY EmptySeq, LogFileStates
  <2>2. /\ pc[w] = "open" /\ \E here \in {"write", "release"} : pc' = [pc EXCEPT ![w] = here]
        /\ faults' \in 0..MaxFaults /\ file' \in LogFiles(Entry)
        /\ UNCHANGED <<lock, calls, data, accepted, view>>
    BY <1>4, <2>1 DEF Open, WriteFails, TypeOK
  <2> QED
    BY <2>2 DEF TypeOK
<1>5. ASSUME NEW w \in Writers, FlushPart(w)
      PROVE  TypeOK'
  BY <1>5, EmptySeq, LogFileStates DEF FlushPart, TypeOK
<1>6. ASSUME NEW w \in Writers, Write(w)
      PROVE  TypeOK'
  <2>1. ThisEntry(w) \in Entry /\ data[w] \in Seq(Entry)
    BY <1>6, ThisEntryType DEF Write, TypeOK
  <2>2. file' \in LogFiles(Entry)
    BY <1>6, <2>1, LogFileStates DEF Write, WriteFails, TypeOK
  <2>3. accepted' \in Seq(Entry)
    <3>1. accepted' = accepted \/ accepted' = Append(accepted, ThisEntry(w))
      BY <1>6 DEF Write, WriteFails
    <3>2. accepted \in Seq(Entry)
      BY DEF TypeOK
    <3> QED
      BY <2>1, <3>1, <3>2
  <2>4. /\ pc[w] = "write" /\ pc' = [pc EXCEPT ![w] = "release"]
        /\ faults' \in 0..MaxFaults
        /\ UNCHANGED <<lock, calls, data, view>>
    BY <1>6 DEF Write, WriteFails, TypeOK
  <2> QED
    BY <2>2, <2>3, <2>4 DEF TypeOK
<1>7. ASSUME NEW w \in Writers, Release(w)
      PROVE  TypeOK'
  BY <1>7 DEF Release, TypeOK
<1>8. ASSUME NEW r \in Readers, ReadAll(r)
      PROVE  TypeOK'
  BY <1>8, EntriesType DEF ReadAll, TypeOK
<1>9. CASE Crash
  BY <1>9 DEF Crash, TypeOK
<1>10. CASE UNCHANGED vars
  BY <1>10 DEF vars, TypeOK
<1> QED
  BY <1>1, <1>2, <1>3, <1>4, <1>5, <1>6, <1>7, <1>8, <1>9, <1>10 DEF Next, InRecord

\* Writers inside the lock keep their copies, because nobody else is inside.
LEMMA InCallStep ==
  ASSUME TypeOK, InCall, Genuine, [Next]_vars
  PROVE  InCall'
<1> USE NoWriterAssumption, BoundsAssumption DEF At, GoTo, InLock
<1>1. ASSUME NEW w \in Writers, Call(w)
      PROVE  InCall'
  <2>1. /\ pc' = [pc EXCEPT ![w] = "acquire"] /\ calls' = [calls EXCEPT ![w] = @ + 1]
        /\ calls[w] < MaxCalls /\ UNCHANGED <<data, file, accepted>>
    BY <1>1 DEF Call
  <2>2. pc'[w] = "acquire" /\ calls'[w] \in 1..MaxCalls
    BY <2>1 DEF TypeOK
  <2>3. \A v \in Writers \ {w} : pc'[v] = pc[v] /\ calls'[v] = calls[v]
    BY <2>1 DEF TypeOK
  <2> QED
    BY <2>1, <2>2, <2>3 DEF InCall, ThisEntry, LastStretch
<1>2. ASSUME NEW w \in Writers, Acquire(w)
      PROVE  InCall'
  BY <1>2 DEF Acquire, TypeOK, InCall, ThisEntry, LastStretch
<1>3. ASSUME NEW w \in Writers, Read(w)
      PROVE  InCall'
  BY <1>3 DEF Read, TypeOK, InCall, ThisEntry, LastStretch
<1>4. ASSUME NEW w \in Writers, Open(w)
      PROVE  InCall'
  <2>1. /\ pc[w] = "open" /\ lock = w /\ \A v \in Writers \ {w} : pc[v] \notin InLock
        /\ UNCHANGED <<lock, calls, data, accepted>>
    BY <1>4 DEF Open, WriteFails, TypeOK
  <2>2. CASE file' = Empty /\ pc' = [pc EXCEPT ![w] = "write"]
    <3>1. PICK s \in Seq(Entry) : LastStretch(s) /\ data[w] = Append(s, ThisEntry(w))
      BY <2>1, EntriesType DEF Genuine, InCall
    <3>2. LastStretch(s)' /\ data'[w] = Append(s, ThisEntry(w)')
      BY <2>1, <3>1 DEF ThisEntry, LastStretch
    <3>3. file'.kind = "empty"
      BY <2>2 DEF Empty
    <3>4. \A v \in Writers \ {w} : pc'[v] \notin {"open", "write"}
      BY <2>1, <2>2 DEF TypeOK
    <3>5. pc'[w] = "write" /\ \A v \in Writers : pc'[v] # "idle" => calls'[v] \in 1..MaxCalls
      BY <2>1, <2>2 DEF TypeOK, InCall
    <3> QED
      BY <3>1, <3>2, <3>3, <3>4, <3>5 DEF InCall
  <2>3. CASE file' = file /\ pc' = [pc EXCEPT ![w] = "release"]
    BY <2>1, <2>3 DEF TypeOK, InCall, ThisEntry, LastStretch
  <2> QED
    BY <1>4, <2>2, <2>3 DEF Open, WriteFails
<1>5. ASSUME NEW w \in Writers, FlushPart(w)
      PROVE  InCall'
  BY <1>5 DEF FlushPart, TypeOK, InCall, ThisEntry, LastStretch, Torn
<1>6. ASSUME NEW w \in Writers, Write(w)
      PROVE  InCall'
  <2>1. /\ pc[w] = "write" /\ lock = w /\ \A v \in Writers \ {w} : pc[v] \notin InLock
        /\ pc' = [pc EXCEPT ![w] = "release"] /\ UNCHANGED <<lock, calls, data>>
    BY <1>6 DEF Write, WriteFails, TypeOK
  <2> QED
    BY <2>1 DEF TypeOK, InCall
<1>7. ASSUME NEW w \in Writers, Release(w)
      PROVE  InCall'
  BY <1>7 DEF Release, TypeOK, InCall, ThisEntry, LastStretch
<1>8. ASSUME NEW r \in Readers, ReadAll(r)
      PROVE  InCall'
  BY <1>8 DEF ReadAll, TypeOK, InCall, ThisEntry, LastStretch
<1>9. CASE Crash
  BY <1>9 DEF Crash, TypeOK, InCall
<1>10. CASE UNCHANGED vars
  BY <1>10 DEF vars, InCall, ThisEntry, LastStretch
<1> QED
  BY <1>1, <1>2, <1>3, <1>4, <1>5, <1>6, <1>7, <1>8, <1>9, <1>10 DEF Next, InRecord

\* The file and every view stay stretches of the history.
LEMMA GenuineStep ==
  ASSUME TypeOK, InCall, Genuine, [Next]_vars
  PROVE  Genuine'
<1> USE DEF At, GoTo
<1>1. accepted \in Seq(Entry) /\ Len(accepted) \in Nat /\ file \in LogFiles(Entry)
  BY DEF TypeOK
<1>2. ASSUME UNCHANGED <<accepted, view>>, file' = file \/ Entries(file)' = <<>>
      PROVE  Genuine'
  <2>1. SubSeq(accepted, Len(accepted) + 1, Len(accepted)) = <<>>
    BY <1>1
  <2>2. LastStretch(<<>>)
    BY <1>1, <2>1 DEF LastStretch
  <2> QED
    BY <1>2, <2>2 DEF Genuine, LastStretch, ReadIsGenuine
<1>3. ASSUME NEW w \in Writers, Open(w)
      PROVE  Genuine'
  BY <1>2, <1>3 DEF Open, WriteFails, Empty, Entries
<1>4. ASSUME NEW w \in Writers, FlushPart(w)
      PROVE  Genuine'
  BY <1>2, <1>4 DEF FlushPart, Torn, Entries
<1>5. ASSUME NEW w \in Writers, Write(w)
      PROVE  Genuine'
  <2>1. CASE WriteFails(w) /\ view' = view
    BY <1>2, <2>1 DEF WriteFails
  <2>2. CASE file' = Json(data[w]) /\ accepted' = Append(accepted, ThisEntry(w)) /\ view' = view
    <3>1. ThisEntry(w) \in Entry
      BY <1>5, ThisEntryType DEF Write
    <3>2. PICK s \in Seq(Entry) : LastStretch(s) /\ data[w] = Append(s, ThisEntry(w))
      BY <1>5 DEF Write, InCall
    <3>3. PICK a \in 0..Len(accepted) : s = SubSeq(accepted, a + 1, Len(accepted))
      BY <3>2 DEF LastStretch
    <3>4. Entries(file)' = SubSeq(accepted', a + 1, Len(accepted'))
      BY <1>1, <2>2, <3>1, <3>2, <3>3, LastStretchGrows DEF Entries, Json
    <3>5. Len(accepted') = Len(accepted) + 1
      BY <1>1, <2>2, <3>1
    <3>6. LastStretch(Entries(file))'
      BY <1>1, <3>4, <3>5 DEF LastStretch
    <3>7. ASSUME NEW r \in Readers
          PROVE  \E b, c \in 0..Len(accepted') : view'[r] = SubSeq(accepted', b + 1, c)
      <4>1. PICK b \in 0..Len(accepted), c \in 0..Len(accepted) :
              view[r] = SubSeq(accepted, b + 1, c)
        BY DEF Genuine, ReadIsGenuine
      <4>2. SubSeq(accepted', b + 1, c) = SubSeq(accepted, b + 1, c)
        BY <1>1, <2>2, <3>1, StretchKept
      <4> QED
        BY <1>1, <2>2, <3>5, <4>1, <4>2
    <3> QED
      BY <3>6, <3>7 DEF Genuine, ReadIsGenuine
  <2> QED
    BY <1>5, <2>1, <2>2 DEF Write
<1>6. ASSUME NEW r \in Readers, ReadAll(r)
      PROVE  Genuine'
  <2>1. PICK a \in 0..Len(accepted) : Entries(file) = SubSeq(accepted, a + 1, Len(accepted))
    BY DEF Genuine, LastStretch
  <2>2. Len(accepted) \in 0..Len(accepted)
    BY <1>1
  <2>3. UNCHANGED <<file, accepted>> /\ view' = [view EXCEPT ![r] = Entries(file)]
    BY <1>6 DEF ReadAll
  <2>4. ReadIsGenuine'
    BY <2>1, <2>2, <2>3 DEF TypeOK, Genuine, ReadIsGenuine
  <2> QED
    BY <2>3, <2>4 DEF Genuine, LastStretch
<1>7. CASE \/ \E w \in Writers : Call(w) \/ Acquire(w) \/ Read(w) \/ Release(w)
           \/ Crash \/ UNCHANGED vars
  BY <1>2, <1>7 DEF Call, Acquire, Read, Release, Crash, vars
<1> QED
  BY <1>3, <1>4, <1>5, <1>6, <1>7 DEF Next, InRecord

\* While nothing fails the history is in the file or in the hands of the
\* writer that has just emptied it.
LEMMA CompleteStep ==
  ASSUME TypeOK, InCall, Genuine, Complete, [Next]_vars
  PROVE  Complete'
<1> USE NoWriterAssumption, BoundsAssumption DEF At, GoTo, InLock
<1> SUFFICES ASSUME faults' = 0
             PROVE  Complete'
  BY DEF Complete
<1>1. faults = 0
  BY DEF Next, InRecord, Call, Acquire, Read, Open, Write, Release, FlushPart, ReadAll, Crash,
         WriteFails, vars, TypeOK
<1>2. accepted \in Seq(Entry) /\ Len(accepted) \in Nat
  BY DEF TypeOK
<1>3. ASSUME NEW w \in Writers, Call(w)
      PROVE  Complete'
  <2>1. /\ pc[w] = "idle" /\ pc' = [pc EXCEPT ![w] = "acquire"]
        /\ calls' = [calls EXCEPT ![w] = @ + 1] /\ UNCHANGED <<data, file, accepted, faults>>
    BY <1>3 DEF Call
  <2>2. pc'[w] = "acquire" /\ calls[w] \in Nat /\ calls'[w] = calls[w] + 1
    BY <2>1 DEF TypeOK
  <2>3. \A v \in Writers \ {w} : pc'[v] = pc[v] /\ calls'[v] = calls[v]
    BY <2>1 DEF TypeOK
  <2>4. \A n \in 1..calls'[w] : n < calls'[w] => Logged(w, n)
    BY <1>1, <2>1, <2>2 DEF Complete
  <2> QED
    BY <1>1, <2>1, <2>2, <2>3, <2>4 DEF Complete, Logged, ThisEntry
<1>4. ASSUME NEW w \in Writers, Acquire(w)
      PROVE  Complete'
  BY <1>1, <1>4 DEF Acquire, TypeOK, Complete, Logged, ThisEntry
<1>5. ASSUME NEW w \in Writers, Read(w)
      PROVE  Complete'
  <2>1. Readable(file)
    BY <1>1, <1>5 DEF Read, TypeOK, Complete, Readable
  <2>2. /\ pc[w] = "read" /\ pc' = [pc EXCEPT ![w] = "open"]
        /\ \A v \in Writers \ {w} : data'[v] = data[v]
        /\ UNCHANGED <<calls, file, accepted, faults>>
    BY <1>5, <2>1 DEF Read, TypeOK
  <2> QED
    BY <1>1, <2>2 DEF TypeOK, Complete, Logged, ThisEntry
<1>6. ASSUME NEW w \in Writers, Open(w)
      PROVE  Complete'
  <2>1. /\ pc[w] = "open" /\ pc' = [pc EXCEPT ![w] = "write"]
        /\ \A v \in Writers : pc[v] # "write"
        /\ UNCHANGED <<calls, data, accepted, faults>>
    BY <1>1, <1>6 DEF Open, WriteFails, TypeOK
  <2>2. data[w] = Append(accepted, ThisEntry(w))
    BY <1>1, <2>1 DEF Complete, InCall
  <2> QED
    BY <1>1, <2>1, <2>2 DEF TypeOK, Complete, Logged, ThisEntry
<1>7. ASSUME NEW w \in Writers, FlushPart(w)
      PROVE  Complete'
  BY <1>1, <1>7 DEF FlushPart, Complete, Logged, ThisEntry
<1>8. ASSUME NEW w \in Writers, Write(w)
      PROVE  Complete'
  <2>1. /\ pc[w] = "write" /\ pc' = [pc EXCEPT ![w] = "release"] /\ file' = Json(data[w])
        /\ accepted' = Append(accepted, ThisEntry(w)) /\ UNCHANGED <<calls, data, faults>>
    <3>1. ~WriteFails(w)
      BY <1>1 DEF WriteFails
    <3> QED
      BY <1>8, <3>1 DEF Write
  <2>2. file'.kind # "torn" /\ Entries(file)' = accepted'
    BY <1>1, <2>1 DEF Complete, Json, Entries
  <2>3. /\ Len(accepted') = Len(accepted) + 1 /\ accepted'[Len(accepted')] = <<w, calls[w]>>
        /\ \A p \in 1..Len(accepted) : accepted'[p] = accepted[p]
        /\ DOMAIN accepted = 1..Len(accepted) /\ DOMAIN accepted' = 1..(Len(accepted) + 1)
    BY <1>2, <1>8, <2>1, ThisEntryType DEF ThisEntry, Write
  <2>4. \A v \in Writers : \A n \in Nat : Logged(v, n) => Logged(v, n)'
    BY <1>2, <2>3 DEF Logged
  <2>5. \E p \in DOMAIN accepted' : accepted'[p] = <<w, calls[w]>>
    BY <1>2, <2>3
  <2>6. \A v \in Writers : \A n \in 1..calls[v] :
          n < calls[v] \/ pc'[v] \in {"idle", "release"} => Logged(v, n)'
    <3> TAKE v \in Writers
    <3> TAKE n \in 1..calls[v]
    <3>1. calls[v] \in Nat /\ n \in Nat /\ n <= calls[v]
      BY DEF TypeOK
    <3>2. CASE n < calls[v]
      BY <1>1, <2>4, <3>1, <3>2 DEF Complete
    <3>3. CASE v = w /\ n = calls[v]
      BY <2>5, <3>3 DEF Logged
    <3>4. CASE v # w /\ pc'[v] \in {"idle", "release"}
      <4>1. pc'[v] = pc[v]
        BY <2>1, <3>4 DEF TypeOK
      <4> QED
        BY <1>1, <2>4, <3>1, <3>4, <4>1 DEF Complete
    <3>5. n < calls[v] \/ n = calls[v]
      BY <3>1
    <3> QED
      BY <3>2, <3>3, <3>4, <3>5
  <2>7. \A v \in Writers : pc'[v] # "write"
    BY <2>1 DEF TypeOK
  <2> QED
    BY <2>1, <2>2, <2>6, <2>7 DEF Complete
<1>9. ASSUME NEW w \in Writers, Release(w)
      PROVE  Complete'
  BY <1>1, <1>9 DEF Release, TypeOK, Complete, Logged, ThisEntry
<1>10. ASSUME NEW r \in Readers, ReadAll(r)
       PROVE  Complete'
  BY <1>1, <1>10 DEF ReadAll, Complete, Logged, ThisEntry
<1>11. CASE Crash
  BY <1>1, <1>11 DEF Crash, TypeOK
<1>12. CASE UNCHANGED vars
  BY <1>1, <1>12 DEF vars, Complete, Logged, ThisEntry
<1> QED
  BY <1>3, <1>4, <1>5, <1>6, <1>7, <1>8, <1>9, <1>10, <1>11, <1>12 DEF Next, InRecord
-----------------------------------------------------------------------------
\* The inductive invariant holds in every state of every behaviour.
THEOREM Invariant == Spec => []IInv
<1>1. Init => IInv
  <2> SUFFICES ASSUME Init
               PROVE  IInv
    OBVIOUS
  <2>1. <<>> \in Seq(Entry) /\ Len(<<>>) = 0 /\ SubSeq(<<>>, 1, 0) = <<>>
    OBVIOUS
  <2>2. Absent \in LogFiles(Entry)
    BY <2>1, LogFileStates
  <2>3. TypeOK
    BY <2>1, <2>2, NoWriterAssumption, BoundsAssumption DEF Init, TypeOK, InLock
  <2>4. InCall
    BY DEF Init, InCall
  <2>5. Genuine
    BY <2>1 DEF Init, Genuine, LastStretch, ReadIsGenuine, Absent, Entries
  <2>6. Complete
    BY DEF Init, Complete, Absent, Entries
  <2> QED
    BY <2>3, <2>4, <2>5, <2>6 DEF IInv
<1>2. IInv /\ [Next]_vars => IInv'
  BY TypeStep, InCallStep, GenuineStep, CompleteStep DEF IInv
<1> QED
  BY <1>1, <1>2, PTL DEF Spec

\* The variables keep their types and the lock is exclusive, for any number of
\* threads in record().
THEOREM TypeCorrect == Spec => []TypeOK
<1>1. IInv => TypeOK
  BY DEF IInv
<1> QED
  BY <1>1, Invariant, PTL

\* While no write fails and the process lives, no interleaving of record()
\* calls loses an entry.
THEOREM NothingIsLost == Spec => []NoRecordLost
<1>1. IInv => NoRecordLost
  <2> SUFFICES ASSUME IInv, faults = 0
               PROVE  /\ (\A w \in Writers : pc[w] # "write") => Entries(file) = accepted
                      /\ \A w \in Writers : At(w, "idle") =>
                           \A n \in 1..calls[w] : Logged(w, n)
    BY DEF NoRecordLost, Logged
  <2> QED
    BY DEF IInv, Complete, At
<1> QED
  BY <1>1, Invariant, PTL

\* Whatever fails, a reader sees a contiguous part of what was written.
THEOREM ReadersSeeHistory == Spec => []ReadIsGenuine
<1>1. IInv => ReadIsGenuine
  BY DEF IInv, Genuine
<1> QED
  BY <1>1, Invariant, PTL

\* One step of the logger appends an entry to the visible log, loses all of
\* it, or leaves it alone.
LEMMA StepRefines ==
  ASSUME IInv, [Next]_vars
  PROVE  [Book!Next]_Visible
<1> USE NoWriterAssumption DEF At, GoTo, InLock
<1>1. TypeOK /\ InCall
  BY DEF IInv
<1>2. lock # NoWriter => lock \in Writers
  BY <1>1 DEF TypeOK
<1>3. ASSUME NEW w \in Writers, Call(w) \/ Acquire(w)
      PROVE  UNCHANGED Visible
  BY <1>1, <1>3 DEF Call, Acquire, TypeOK, Visible
<1>4. ASSUME NEW w \in Writers, Read(w) \/ Release(w)
      PROVE  UNCHANGED Visible
  BY <1>1, <1>4 DEF Read, Release, TypeOK, Visible
<1>5. ASSUME NEW w \in Writers, Open(w)
      PROVE  UNCHANGED Visible
  <2>1. lock = w /\ lock' = w /\ w # NoWriter /\ pc[w] = "open" /\ data' = data
    BY <1>1, <1>5 DEF Open, WriteFails, TypeOK
  <2>2. Visible = Entries(file)
    BY <2>1 DEF Visible
  <2>3. CASE file' = Empty /\ pc' = [pc EXCEPT ![w] = "write"]
    <3>1. Visible' = SubSeq(data[w], 1, Len(data[w]) - 1)
      BY <1>1, <2>1, <2>3 DEF TypeOK, Visible
    <3>2. /\ data[w] = Append(Entries(file), ThisEntry(w))
          /\ Entries(file) \in Seq(Entry) /\ ThisEntry(w) \in Entry
      BY <1>1, <2>1, EntriesType, ThisEntryType DEF InCall
    <3> QED
      BY <2>2, <3>1, <3>2, ButLast
  <2>4. CASE file' = file /\ pc' = [pc EXCEPT ![w] = "release"]
    BY <1>1, <2>1, <2>2, <2>4 DEF TypeOK, Visible
  <2> QED
    BY <1>5, <2>3, <2>4 DEF Open, WriteFails
<1>6. ASSUME NEW w \in Writers, FlushPart(w)
      PROVE  UNCHANGED Visible
  <2>1. lock = w /\ w # NoWriter /\ pc[w] = "write" /\ UNCHANGED <<lock, pc, data>>
    BY <1>1, <1>6 DEF FlushPart, TypeOK
  <2> QED
    BY <2>1 DEF Visible
<1>7. ASSUME NEW w \in Writers, Write(w)
      PROVE  [Book!Next]_Visible
  <2>1. /\ pc[w] = "write" /\ lock = w /\ lock' = w /\ w # NoWriter
        /\ pc' = [pc EXCEPT ![w] = "release"] /\ data' = data
    BY <1>1, <1>7 DEF Write, WriteFails, TypeOK
  <2>2. Visible' = Entries(file)'
    BY <1>1, <2>1 DEF TypeOK, Visible
  <2>3. PICK s \in Seq(Entry) : data[w] = Append(s, ThisEntry(w))
    BY <1>1, <2>1 DEF InCall
  <2>4. ThisEntry(w) \in Entry
    BY <1>1, <2>1, ThisEntryType
  <2>5. Visible = s
    BY <2>1, <2>3, <2>4, ButLast DEF Visible
  <2>6. CASE file' = Json(data[w])
    <3>1. Visible' = Append(Visible, ThisEntry(w))
      BY <2>2, <2>3, <2>5, <2>6 DEF Json, Entries
    <3> QED
      BY <2>4, <3>1 DEF Book!Next, Book!AppendEntry
  <2>7. CASE file' = file
    <3>1. Entries(file)' = <<>>
      BY <1>1, <2>1, <2>7, LogFileFields DEF InCall, TypeOK
    <3> QED
      BY <2>2, <3>1 DEF Book!Next, Book!LoseAll
  <2> QED
    BY <1>7, <2>6, <2>7 DEF Write, WriteFails
<1>8. ASSUME NEW r \in Readers, ReadAll(r)
      PROVE  UNCHANGED Visible
  BY <1>8 DEF ReadAll, Visible
<1>9. CASE Crash
  <2>1. Visible' = Entries(file) /\ file' = file
    BY <1>9 DEF Crash, Visible
  <2>2. CASE lock # NoWriter /\ pc[lock] = "write"
    <3>1. Entries(file) = <<>>
      BY <1>1, <1>2, <2>2, LogFileFields DEF InCall, TypeOK
    <3> QED
      BY <2>1, <3>1 DEF Book!Next, Book!LoseAll
  <2>3. CASE ~(lock # NoWriter /\ pc[lock] = "write")
    BY <2>1, <2>3 DEF Visible
  <2> QED
    BY <2>2, <2>3
<1>10. CASE UNCHANGED vars
  BY <1>10 DEF vars, Visible
<1> QED
  BY <1>3, <1>4, <1>5, <1>6, <1>7, <1>8, <1>9, <1>10 DEF Next, InRecord

\* record() is an atomic append to the log as far as faults allow: a fault
\* costs the whole log or nothing, never an entry out of the middle.
THEOREM LoggerRefinesLogBook == Spec => AppendsAtomically
<1>1. Init => Book!Init
  BY DEF Init, Book!Init, Visible, Absent, Entries
<1>2. IInv /\ [Next]_vars => [Book!Next]_Visible
  BY StepRefines
<1> QED
  BY <1>1, <1>2, Invariant, PTL DEF Spec, AppendsAtomically, Book!Spec
=============================================================================
