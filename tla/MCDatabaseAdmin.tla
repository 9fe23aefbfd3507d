--------------------------- MODULE MCDatabaseAdmin ---------------------------
(***************************************************************************)
(* Two processes, one client, three databases of the project and one that  *)
(* is not.  reset_databases is called as main() does, with a list in       *)
(* another order that names a database twice, and with a list it must      *)
(* refuse.                                                                 *)
(***************************************************************************)
EXTENDS DatabaseAdminProperties

MCRequests == {MANAGED_DATABASES,
               <<"target_db", "source_db", "target_db">>,
               <<"intermediate_db", "other_db">>}
=============================================================================
