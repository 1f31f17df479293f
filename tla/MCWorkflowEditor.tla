-------------------------- MODULE MCWorkflowEditor --------------------------
(* Small instances of WorkflowEditor: a draft of two nodes, a retired version *)
(* whose contents a load and a save convert, and a draft of three nodes, so   *)
(* that a connection can be moved off one that is deleted, without events.    *)
EXTENDS WorkflowEditor, TLC

SmallStarts ==
  {[says |-> <<0, 1>>, status |-> "draft", spent |-> 0],
   [says |-> <<Example, Raw>>, status |-> "retired", spent |-> 0],
   [says |-> <<Example, 1, Raw>>, status |-> "draft", spent |-> MaxEvents]}
=============================================================================
