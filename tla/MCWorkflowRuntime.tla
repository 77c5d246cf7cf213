------------------------- MODULE MCWorkflowRuntime -------------------------
(* The instance of WorkflowRuntime for TLC: every graph on three steps, with *)
(* dependencies on themselves, each other and an unknown step, and every     *)
(* graph on four steps that do not depend on themselves directly.            *)
EXTENDS WorkflowRuntime

MCGraphs ==
  {g \in [Steps -> SUBSET (1..3 \union {Unknown})] : g[4] = {}}
    \union {g \in [Steps -> SUBSET Steps] : \A s \in Steps : s \notin g[s]}
=============================================================================
