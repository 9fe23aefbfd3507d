---------------------------- MODULE MCHealthCheck ----------------------------
(***************************************************************************)
(* Two runs of a plan of two steps, or of a file that cannot be read, and  *)
(* readers at any moment.  .mcp.json has up to two servers.                *)
(***************************************************************************)
EXTENDS HealthCheckProperties, TLC

CONSTANTS a, b

MCPlanFiles ==
  { <<[step_id |-> a, depends_on |-> <<>>], [step_id |-> b, depends_on |-> <<a>>]>>,
    <<>> }

MCDatabaseOf == a :> "intermediate_db" @@ b :> "target_db"

\* A usable server, one for each way in which a server can spoil the search,
\* one that lacks the password and one that is not PostgreSQL's.
MCUsable  == [postgres |-> TRUE, object |-> TRUE, given |-> Parts, port |-> "default"]
MCLacking == [MCUsable EXCEPT !.given = {"host", "user"}]
MCForeign == [MCUsable EXCEPT !.postgres = FALSE]
MCSpoiled == {[MCLacking EXCEPT !.object = FALSE]}
             \cup {[MCUsable EXCEPT !.port = port] : port \in {"text", "infinite", "list"}}
MCServers == {MCUsable, MCLacking, MCForeign} \cup MCSpoiled

MCMcpFiles ==
  {[kind |-> kind, servers |-> <<>>] : kind \in {"nothing", "undecodable", "other", "servers"}}
    \cup {[kind |-> "servers", servers |-> <<s>>] : s \in MCServers}
    \cup {[kind |-> "servers", servers |-> <<s, t>>] :
             s \in {MCUsable, MCLacking}, t \in MCServers}
    \cup {[kind |-> "servers", servers |-> <<MCForeign, MCUsable>>]}

MCEnvironments ==
  {e \in [given : {Parts, {"user"}}, port : {"default", "text"}] :
     e.given # Parts => e.port = "default"}
=============================================================================
