----------------------- MODULE DatabaseAdminProperties -----------------------
(***************************************************************************)
(* What module DatabaseAdmin promises.  A call that overlaps with no other *)
(* one is "alone"; clients may connect and leave all the same.             *)
(***************************************************************************)
EXTENDS DatabaseAdmin

Kinds    == {"none", "reset", "bootstrap"}
Resting  == {"idle", "returned"}
Changing == {"terminate", "drop", "create"}
Places   == Resting \cup {"check", "connect"} \cup Changing \cup {"file", "psql", "wait"}
Outcomes == {"none", "ok", "ValueError", "DatabaseConnectionError", "psycopg2.Error",
             "BootstrapError", "FileNotFoundError"}

Call == [kind      : Kinds,
         pc        : Places,
         databases : {<<>>} \cup Requests,
         k         : Nat \ {0},
         t         : Nat \ {0},
         since     : 0..MaxCalls,
         alone     : BOOLEAN,
         outcome   : Outcomes]

\* Where a call is in the list it works through.
PositionOK(p) ==
  /\ call[p].pc \in {"drop", "create"} => call[p].k \in DOMAIN call[p].databases
  /\ call[p].pc = "file" => call[p].t = 1
  /\ call[p].pc \in {"psql", "wait"} => /\ call[p].k \in DOMAIN BootstrapSteps
                                       /\ call[p].t \in DOMAIN ThisStep(p).targets

\* The values the variables take.
TypeOK ==
  /\ exists \subseteq Database
  /\ born \in [Database -> 0..MaxCalls]
  /\ done \in [Database -> SUBSET Script]
  /\ sessions \subseteq (Admins \cup Clients) \X Database
  /\ call \in [Admins -> Call]
  /\ calls \in 0..MaxCalls
  /\ \A p \in Admins : PositionOK(p)

Returned(p, kind, how) ==
  At(p, "returned") /\ call[p].kind = kind /\ call[p].outcome = how

IsFresh(p, db) == born[db] >= call[p].since

\* Whatever other resets, scripts and clients do meanwhile: when
\* reset_databases returns, none of the databases it was asked for is the one
\* that was there when it was called.
ResetIsFresh ==
  \A p \in Admins :
    Returned(p, "reset", "ok") =>
      \A j \in DOMAIN call[p].databases :
        call[p].databases[j] \in exists => IsFresh(p, call[p].databases[j])

\* A reset that returns, and was alone, leaves each database there and empty.
ResetIsComplete ==
  \A p \in Admins :
    Returned(p, "reset", "ok") /\ call[p].alone =>
      \A j \in DOMAIN call[p].databases :
        call[p].databases[j] \in exists /\ done[call[p].databases[j]] = {}

\* A reset that a statement ends, and was alone, has renewed the databases
\* before some place in its list and no others: the one in that place alone may
\* be old, new or missing.
PartialReset ==
  \A p \in Admins :
    Returned(p, "reset", "psycopg2.Error") /\ call[p].alone =>
      LET list  == call[p].databases
          Fresh == {db \in Database : IsFresh(p, db)}
      IN  \E n \in 0..Len(list) :
            LET Past == {list[j] : j \in 1..n}
                Hand == {list[j] : j \in {n + 1} \cap DOMAIN list}
            IN  Past \ Hand \subseteq exists /\ Past \subseteq Fresh /\ Fresh \subseteq Past \cup Hand

\* reset_databases touches the databases it was written for and no other one:
\* no statement of a process ends a session on another database, drops it or
\* creates it anew.
UnmanagedKept ==
  [][ /\ exists \cap Unmanaged = exists' \cap Unmanaged
      /\ \A db \in Unmanaged : born'[db] = born[db]
      /\ call' # call =>
           \A s \in sessions : s[1] \in Clients /\ s[2] \in Unmanaged => s \in sessions' ]_vars

\* run_bootstrap returns only when every script is done in each of its
\* databases, if no reset could undo one meanwhile.
BootstrapIsComplete ==
  \A p \in Admins :
    Returned(p, "bootstrap", "ok") /\ call[p].alone =>
      \A j \in DOMAIN BootstrapSteps :
        \A n \in DOMAIN BootstrapSteps[j].targets :
          BootstrapSteps[j].script \in done[BootstrapSteps[j].targets[n]]

\* The order of _BOOTSTRAP_STEPS gives each script what it needs, whatever the
\* state of the databases at the beginning of the call.
OrderSatisfiesNeeds ==
  \A p \in Admins :
    At(p, "wait") /\ call[p].alone => NeedsMet(p)

\* Every call ends.
CallEnds == \A p \in Admins : ~At(p, "idle") ~> At(p, "idle")
=============================================================================
