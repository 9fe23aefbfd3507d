------------------------------ MODULE MCLogger ------------------------------
(***************************************************************************)
(* Two writers that make two calls each, one reader, and up to two faults. *)
(* Writers are interchangeable, but the liveness property rules symmetry   *)
(* out.                                                                    *)
(***************************************************************************)
EXTENDS ExecutionLogger
=============================================================================
