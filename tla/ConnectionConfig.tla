-------------------------- MODULE ConnectionConfig --------------------------
(***************************************************************************)
(* engine/postgres.py, resolve_connection_config: the search for the host, *)
(* user, password and port of the server, first in .mcp.json and then in   *)
(* the environment.  The result is [how, server]: a configuration taken    *)
(* from the server-th entry of .mcp.json or, as server 0, from the         *)
(* environment; nothing; or an exception.                                  *)
(***************************************************************************)
EXTENDS Naturals, Sequences

Parts == {"host", "user", "password"}

\* An entry of mcpServers: whether its name contains "postgres", whether it
\* and its "env" are objects, the parts its two spellings (PG*, POSTGRES_*)
\* give between them, and its port, which may be any JSON value.
Server == [postgres : BOOLEAN,
           object   : BOOLEAN,
           given    : SUBSET Parts,
           port     : {"default", "number", "text", "infinite", "list"}]

\* "nothing": absent, empty, not readable, or not JSON.  "undecodable": bytes
\* that are not UTF-8.  "other": JSON of another shape than an object whose
\* mcpServers are an object.
McpFile == [kind : {"servers"}, servers : Seq(Server)]
           \cup [kind : {"nothing", "undecodable", "other"}, servers : {<<>>}]

Environment == [given : SUBSET Parts, port : {"default", "number", "text"}]

Config(k)     == [how |-> "config", server |-> k]
Raises(error) == [how |-> error, server |-> 0]
Nothing       == [how |-> "nothing", server |-> 0]

\* A port that int() makes a number of, and what it raises for the others.
Converts(port)  == port \in {"default", "number"}
IntRaises(port) == CASE port = "text"     -> "ValueError"
                     [] port = "infinite" -> "OverflowError"
                     [] port = "list"     -> "TypeError"

\* int(port) comes last, when everything else is there.
TryServer(s, k) ==
  CASE ~s.postgres -> Nothing
    [] s.postgres /\ ~s.object -> Raises("AttributeError")
    [] s.postgres /\ s.object /\ s.given # Parts -> Nothing
    [] s.postgres /\ s.object /\ s.given = Parts ->
         IF Converts(s.port) THEN Config(k) ELSE Raises(IntRaises(s.port))

\* Mutant of TryServers: the last usable server wins.
TryServersFromTheEnd(servers) ==
  LET try[k \in 0..Len(servers)] ==
        IF k = 0 THEN Nothing
        ELSE IF TryServer(servers[k], k) # Nothing THEN TryServer(servers[k], k)
        ELSE try[k - 1]
  IN  try[Len(servers)]

TryServers(servers) ==
  LET try[k \in 1..(Len(servers) + 1)] ==
        IF k > Len(servers) THEN Nothing
        ELSE IF TryServer(servers[k], k) # Nothing THEN TryServer(servers[k], k)
        ELSE try[k + 1]
  IN  try[1]

\* UnicodeDecodeError is a ValueError; a list or a string has no get().
TryMcpConfig(file) ==
  CASE file.kind = "nothing"     -> Nothing
    [] file.kind = "undecodable" -> Raises("ValueError")
    [] file.kind = "other"       -> Raises("AttributeError")
    [] file.kind = "servers"     -> TryServers(file.servers)

\* The port of the environment is converted before the rest is looked at.
ResolveConnectionConfig(file, env) ==
  LET mcp == TryMcpConfig(file) IN
  CASE mcp # Nothing -> mcp
    [] mcp = Nothing /\ ~Converts(env.port) -> Raises(IntRaises(env.port))
    [] mcp = Nothing /\ Converts(env.port) ->
         IF env.given = Parts THEN Config(0) ELSE Raises("DatabaseConnectionError")
=============================================================================
