---------------------------- MODULE MCSubAgents ----------------------------
EXTENDS SubAgents

CONSTANTS first, second, nested, coder, tester

(* Two delegations of the root to one specialist, and one of the first. *)
MCSpawns == {first, second, nested}
MCParent == [s \in MCSpawns |-> IF s = nested THEN first ELSE Root]
MCSpecialist == [s \in MCSpawns |-> IF s = nested THEN tester ELSE coder]
=============================================================================
