------------------------------ MODULE MCEngine ------------------------------
(***************************************************************************)
(* Runs over an execution_plan.json that may be regenerated between        *)
(* them: a chain of three steps whose last one depends on both others, a   *)
(* plan of two independent steps in another order, a plan listed out of    *)
(* order, and a file that cannot be read.                                  *)
(***************************************************************************)
EXTENDS EngineProperties

CONSTANTS a, b, c

MCStep(id, deps) == [step_id |-> id, depends_on |-> deps]

MCPlanFiles ==
  { <<MCStep(a, <<>>), MCStep(b, <<a>>), MCStep(c, <<a, b>>)>>,
    <<MCStep(b, <<>>), MCStep(a, <<>>)>>,
    <<MCStep(b, <<a>>), MCStep(a, <<>>)>>,
    <<>> }
=============================================================================
