------------------------------ MODULE MCPlanner ------------------------------
(***************************************************************************)
(* All plans of up to three well-formed steps over three ids: a step has   *)
(* at most one dependency, the last one at most two (so that a diamond and *)
(* a repeated dependency occur), the plans of two steps whose second is    *)
(* defective, and the files that never reach the step loop.                *)
(***************************************************************************)
EXTENDS ExecutionPlanner, SequencesExt

MCGood(deps) == [shape : {"ok"}, step_id : StepId, depends_on : SeqOf(StepId, deps)]
MCFaulty     == [shape : {"malformed", "unhashable"}, step_id : StepId, depends_on : {<<>>}]

MCSteps ==
  SeqOf(MCGood(1), 2)
    \cup {Append(front, last) : front \in TupleOf(MCGood(1), 2), last \in MCGood(2)}
    \cup {<<good, bad>> : good \in MCGood(1), bad \in MCFaulty}

MCPlanFiles == [kind : {"steps"}, steps : MCSteps]
                 \cup [kind : FileKind \ {"steps"}, steps : {<<>>}]
=============================================================================
