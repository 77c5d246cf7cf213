-------------------------- MODULE MCPersistentAgent --------------------------
(* Instances of PersistentAgent for TLC: two ordinary requests and an      *)
(* urgent one (priorities 10 and 0, here 1 and 0).                         *)
EXTENDS PersistentAgent

CONSTANTS normal1, normal2, urgent

MCRequests == {normal1, normal2, urgent}
MCPriority == [r \in MCRequests |-> IF r = urgent THEN 0 ELSE 1]
=============================================================================
