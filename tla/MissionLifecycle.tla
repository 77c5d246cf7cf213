-------------------------- MODULE MissionLifecycle --------------------------
(***************************************************************************)
(* What the persistent agent promises about a mission, whatever queues and *)
(* tasks implement it: missions run one at a time and at most once, a      *)
(* dropped one never runs, and the answer its caller gets tells what       *)
(* became of it and is given once.                                         *)
(***************************************************************************)
CONSTANT Missions

VARIABLES
  phase,   \* phase[m]: what has become of the mission
  answer   \* answer[m]: what its caller was told

Phases == {"new", "waiting", "running", "finished", "dropped", "aborted"}
Answers == {"pending", "completed", "failed", "cancelled", "abandoned"}

Init ==
  /\ phase = [m \in Missions |-> "new"]
  /\ answer = [m \in Missions |-> "pending"]

Becomes(m, from, to) == phase[m] = from /\ phase' = [phase EXCEPT ![m] = to]

(* An answer is given to a caller that still waits. *)
Tell(m, a) ==
  answer' = IF answer[m] = "pending" THEN [answer EXCEPT ![m] = a] ELSE answer

Submit(m) == Becomes(m, "new", "waiting") /\ UNCHANGED answer

Run(m) ==
  /\ \A n \in Missions : phase[n] # "running"
  /\ Becomes(m, "waiting", "running")
  /\ UNCHANGED answer

Finish(m) ==
  /\ Becomes(m, "running", "finished")
  /\ Tell(m, "completed") \/ Tell(m, "failed")

Abort(m) == Becomes(m, "running", "aborted") /\ UNCHANGED answer

(* A mission that waits, or that a shutdown aborted, can be cancelled. *)
Cancel(m) ==
  /\ \/ Becomes(m, "waiting", "dropped")
     \/ phase[m] = "aborted" /\ UNCHANGED phase
  /\ Tell(m, "cancelled")

(* The caller leaves; a mission that has not reached the queue yet goes    *)
(* with it.                                                                *)
Leave(m) ==
  /\ phase[m] \in {"waiting", "running", "aborted"}
  /\ Becomes(m, "waiting", "dropped") \/ UNCHANGED phase
  /\ Tell(m, "abandoned")

Next == \E m \in Missions :
  Submit(m) \/ Run(m) \/ Finish(m) \/ Abort(m) \/ Cancel(m) \/ Leave(m)

Spec == Init /\ [][Next]_<<phase, answer>>
=============================================================================
