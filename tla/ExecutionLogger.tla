--------------------------- MODULE ExecutionLogger ---------------------------
(***************************************************************************)
(* engine/logger.py: one ExecutionLogger, used by the threads of a process *)
(* that call record(), while others (a thread that calls read_all(), or    *)
(* another process) read the file.  record() reads the file, appends its   *)
(* entry and rewrites the file, all under the lock of the logger;          *)
(* read_all() takes no lock.  The process may die at any point, and a      *)
(* write may fail.                                                         *)
(***************************************************************************)
EXTENDS LogFile, Naturals

CONSTANTS Writers,     \* threads that call record()
          Readers,     \* callers of read_all()
          NoWriter,    \* the lock is free
          MaxCalls,    \* bound on the record() calls of a writer
          MaxFaults    \* bound on crashes and failed writes

ASSUME NoWriterAssumption == NoWriter \notin Writers
ASSUME BoundsAssumption   == MaxCalls \in Nat /\ MaxFaults \in Nat

VARIABLES lock,       \* the writer that holds _lock, or NoWriter
          pc,         \* the call each writer is about to make in record()
          calls,      \* number of record() calls of each writer so far
          data,       \* each writer's local copy of the entries
          file,       \* the log file
          accepted,   \* history: the entries whose write completed
          view,       \* what each reader read last
          faults      \* number of crashes and failed writes so far

vars == <<lock, pc, calls, data, file, accepted, view, faults>>

Entry == Writers \X (1..MaxCalls)

ThisEntry(w) == <<w, calls[w]>>     \* the entry of the call w is in

Init ==
  /\ lock = NoWriter
  /\ pc = [w \in Writers |-> "idle"]
  /\ calls = [w \in Writers |-> 0]
  /\ data = [w \in Writers |-> <<>>]
  /\ file = Absent
  /\ accepted = <<>>
  /\ view = [r \in Readers |-> <<>>]
  /\ faults = 0

At(w, here) == pc[w] = here

GoTo(w, call) == pc' = [pc EXCEPT ![w] = call]

\* An OSError leaves the file as it is and propagates through the with block.
WriteFails(w) ==
  /\ faults < MaxFaults
  /\ faults' = faults + 1
  /\ GoTo(w, "release")
  /\ UNCHANGED <<file, accepted>>

-----------------------------------------------------------------------------
Call(w) ==
  /\ At(w, "idle")
  /\ calls[w] < MaxCalls
  /\ calls' = [calls EXCEPT ![w] = @ + 1]
  /\ GoTo(w, "acquire")
  /\ UNCHANGED <<lock, data, file, accepted, view, faults>>

\* Mutant of Acquire: record() does not take the lock.
AcquireNothing(w) ==
  /\ At(w, "acquire")
  /\ GoTo(w, "read")
  /\ UNCHANGED <<lock, calls, data, file, accepted, view, faults>>

Acquire(w) ==
  /\ At(w, "acquire")
  /\ lock = NoWriter
  /\ lock' = w
  /\ GoTo(w, "read")
  /\ UNCHANGED <<calls, data, file, accepted, view, faults>>

\* Mutant of Read: the entries are read once and kept between calls.
ReadOnce(w) ==
  /\ At(w, "read")
  /\ \/ /\ Readable(file)
        /\ data' = [data EXCEPT ![w] =
                      Append(IF @ = <<>> THEN Entries(file) ELSE @, ThisEntry(w))]
        /\ GoTo(w, "open")
     \/ ~Readable(file) /\ GoTo(w, "release") /\ UNCHANGED data
  /\ UNCHANGED <<lock, calls, file, accepted, view, faults>>

\* data = self._read(); data["entries"].append(...)
Read(w) ==
  /\ At(w, "read")
  /\ \/ /\ Readable(file)
        /\ data' = [data EXCEPT ![w] = Append(Entries(file), ThisEntry(w))]
        /\ GoTo(w, "open")
     \/ ~Readable(file) /\ GoTo(w, "release") /\ UNCHANGED data
  /\ UNCHANGED <<lock, calls, file, accepted, view, faults>>

\* write_text opens the file, which truncates it ...
Open(w) ==
  /\ At(w, "open")
  /\ \/ GoTo(w, "write") /\ file' = Empty /\ UNCHANGED <<accepted, faults>>
     \/ WriteFails(w)
  /\ UNCHANGED <<lock, calls, data, view>>

\* ... and a prefix of the document may be in the file before the whole is.
FlushPart(w) ==
  /\ At(w, "write")
  /\ file = Empty
  /\ file' = Torn
  /\ UNCHANGED <<lock, pc, calls, data, accepted, view, faults>>

Write(w) ==
  /\ At(w, "write")
  /\ \/ /\ GoTo(w, "release")
        /\ file' = Json(data[w])
        /\ accepted' = Append(accepted, ThisEntry(w))
        /\ UNCHANGED faults
     \/ WriteFails(w)
  /\ UNCHANGED <<lock, calls, data, view>>

\* Mutant of Release: an exception leaves the lock taken.
ReleaseOnSuccess(w) ==
  /\ At(w, "release")
  /\ lock' = IF file.kind = "json" THEN NoWriter ELSE lock
  /\ GoTo(w, "idle")
  /\ UNCHANGED <<calls, data, file, accepted, view, faults>>

\* The with block releases the lock on return and on every exception.
Release(w) ==
  /\ At(w, "release")
  /\ lock' = NoWriter
  /\ GoTo(w, "idle")
  /\ UNCHANGED <<calls, data, file, accepted, view, faults>>

\* read_all() takes no lock, and raises on a torn file.
ReadAll(r) ==
  /\ Readable(file)
  /\ view' = [view EXCEPT ![r] = Entries(file)]
  /\ UNCHANGED <<lock, pc, calls, data, file, accepted, faults>>

\* The writers' process dies and is started again.
Crash ==
  /\ faults < MaxFaults
  /\ faults' = faults + 1
  /\ lock' = NoWriter
  /\ pc' = [w \in Writers |-> "idle"]
  /\ UNCHANGED <<calls, data, file, accepted, view>>

InRecord(w) == Acquire(w) \/ Read(w) \/ Open(w) \/ Write(w) \/ Release(w)

Next ==
  \/ \E w \in Writers : Call(w) \/ InRecord(w) \/ FlushPart(w)
  \/ \E r \in Readers : ReadAll(r)
  \/ Crash

\* A thread inside record() keeps running.  threading.Lock is not fair, but no
\* thread calls record() for ever, so weak fairness is enough.
Spec == Init /\ [][Next]_vars /\ \A w \in Writers : WF_vars(InRecord(w))

-----------------------------------------------------------------------------
\* The calls a writer makes while it holds the lock.
InLock == {"read", "open", "write", "release"}

\* The variables keep their types, and the lock is held by the one writer that
\* is between taking and releasing it (the with block of record()).
TypeOK ==
  /\ lock \in Writers \cup {NoWriter}
  /\ pc \in [Writers -> {"idle", "acquire"} \cup InLock]
  /\ \A w \in Writers : pc[w] \in InLock <=> lock = w
  /\ calls \in [Writers -> 0..MaxCalls]
  /\ data \in [Writers -> Seq(Entry)]
  /\ file \in LogFiles(Entry)
  /\ accepted \in Seq(Entry)
  /\ view \in [Readers -> Seq(Entry)]
  /\ faults \in 0..MaxFaults

\* Without faults no entry is lost, however record() calls interleave: unless
\* the file is just being rewritten it holds every accepted entry, and the
\* entry of every call that has returned is among them.
NoRecordLost ==
  faults = 0 =>
    /\ (\A w \in Writers : pc[w] # "write") => Entries(file) = accepted
    /\ \A w \in Writers : At(w, "idle") =>
         \A n \in 1..calls[w] : \E p \in DOMAIN accepted : accepted[p] = <<w, n>>

\* What a reader gets is a stretch of the real history: a reader can see less
\* than there is, never an entry that was not written or one out of order.
ReadIsGenuine ==
  \A r \in Readers :
    \E a, b \in 0..Len(accepted) : view[r] = SubSeq(accepted, a + 1, b)

\* The visible log: while it is rewritten, what it held before.
Visible ==
  IF lock # NoWriter /\ pc[lock] = "write"
  THEN SubSeq(data[lock], 1, Len(data[lock]) - 1)
  ELSE Entries(file)

Book == INSTANCE LogBook WITH book <- Visible

\* The read-modify-write under the lock is an atomic append; a fault loses the
\* whole log or nothing.
AppendsAtomically == Book!Spec

\* Every record() call returns or raises: the lock is never left taken.
RecordReturns == \A w \in Writers : At(w, "acquire") ~> At(w, "idle")
=============================================================================
