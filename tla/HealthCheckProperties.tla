------------------------ MODULE HealthCheckProperties ------------------------
(***************************************************************************)
(* What a health check and an event log are worth while, and after, runs   *)
(* of the engine write the log they read.                                  *)
(***************************************************************************)
EXTENDS HealthCheck, EngineProperties

\* What the execution check says in this step.
Says(verdict) == at = "execution" /\ at' # at /\ execution' = verdict

\* Whenever the log is read, in the middle of a run or of a write: "completed
\* successfully" is said of committed steps only, a failure is one that left
\* nothing in the database, and "not yet run" means that nothing was recorded
\* or that somebody has opened the log and not finished writing it.
ExecutionIsTrue ==
  [][ /\ Says("PASS") => /\ log.kind = "json"
                         /\ \A n \in DOMAIN log.entries :
                              Committed(log.entries[n].run, log.entries[n].step_id)
      /\ Says("FAIL") => \E n \in DOMAIN accepted :
                           /\ accepted[n].status = "failure"
                           /\ ~Committed(accepted[n].run, accepted[n].step_id)
      /\ Says("WARN") => accepted = <<>> \/ log.kind \in {"empty", "torn"} ]_everything

\* A check made while no engine process is there tells how the last run ended:
\* FAIL if that run raised ExecutionFailure; and PASS only if it committed its
\* whole plan, or something went wrong in it that the log cannot show.
VerdictAtRest ==
  [][ pc = "down" =>
        /\ outcome = "ExecutionFailure" => ~Says("PASS") /\ ~Says("WARN")
        /\ Says("PASS") /\ ~disturbed => \A id \in IdsOf(plan) : Committed(run, id) ]_everything

\* The servers of .mcp.json that decide: the first one that is usable, or that
\* the search cannot get past.
Decides(servers, k) ==
  /\ servers[k].postgres /\ (servers[k].object => servers[k].given = Parts)
  /\ \A j \in 1..(k - 1) :
       servers[j].postgres => servers[j].object /\ servers[j].given # Parts

\* resolve_connection_config takes all four values from one place, the first
\* usable server or else the environment, never from one that lacks a part;
\* DatabaseConnectionError means that there is no such place; and it ends in
\* one of these two ways whenever what it has to go through is well formed.
\* (What it does with the rest is the question of ResolutionIsReported.)
ResolvesInOrder ==
  at = "resolved" =>
    LET servers  == source.file.servers
        deciding == {k \in DOMAIN servers : Decides(servers, k)}
    IN  /\ config.how = "config" =>
             IF config.server = 0 THEN deciding = {} /\ source.env.given = Parts
             ELSE config.server \in deciding /\ servers[config.server].object
        /\ config.how = "DatabaseConnectionError" =>
             deciding = {} /\ source.env.given # Parts
        /\ /\ source.file.kind \in {"nothing", "servers"}
           /\ \A k \in deciding : servers[k].object /\ Converts(servers[k].port)
           /\ Converts(source.env.port)
           => config.how \in {"config", "DatabaseConnectionError"}

\* Whatever .mcp.json and the environment hold, the resolution returns a
\* configuration or raises the DatabaseConnectionError that its callers turn
\* into a status or a message: nothing in .mcp.json can make it hard-fail.
ResolutionIsReported ==
  at = "resolved" => config.how \in {"config", "DatabaseConnectionError"}

\* An event log that is complete holds records of the engine, unaltered and
\* without a gap, and it counts as successes the steps that are committed, as
\* failures those that are not: whatever the runs do while it is made and
\* after, and whatever became of an event log before it.
EventLogIsHistory ==
  eventLog.kind = "json" =>
    \E m \in 0..Len(accepted) : \E n \in 0..m :
      LET told == {<<accepted[j].run, accepted[j].step_id>> : j \in (n + 1)..m} IN
      /\ eventLog.entries = SubSeq(accepted, n + 1, m)
      /\ eventLog.success = Cardinality(told \cap committed)
      /\ eventLog.failure = Cardinality(told \ committed)

=============================================================================
