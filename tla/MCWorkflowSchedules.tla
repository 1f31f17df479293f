------------------------ MODULE MCWorkflowSchedules ------------------------
(* Small instances of WorkflowSchedules.                                   *)
EXTENDS WorkflowSchedules, TLC

RequestSymmetry == Permutations(Request)
=============================================================================
