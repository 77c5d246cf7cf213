-------------------------- MODULE WorkflowRuntime --------------------------
(***************************************************************************)
(* A workflow's steps: the depth-first ordering that validates the graph   *)
(* (_order_steps), its split into levels (_dependency_levels) and the run  *)
(* of one level after another, the steps of a level as tasks of one        *)
(* asyncio.gather (run_steps, _run_step in                                 *)
(* application/workflow_runtime_service.py).                               *)
(***************************************************************************)
EXTENDS Integers, Sequences, FiniteSets

CONSTANTS
  N,        \* number of steps; a step is its place in the definition
  Unknown,  \* a step id that no step has
  Graphs    \* the definitions' graphs: depends_on of each step

Steps == 1..N

ASSUME WorkflowConstants ==
  /\ N \in Nat \ {0} /\ Unknown \notin Steps
  /\ Graphs \subseteq [Steps -> SUBSET (Steps \union {Unknown})]

VARIABLES
  dependsOn,  \* step.depends_on
  stage,      \* "order", "level", "run", or how it ended
  path,       \* the nested calls of visit(): the set temporary, in order
  permanent,  \* the set of that name
  levels,     \* the levels found so far
  level,      \* the level that runs
  step        \* step[s]: "no", "runs", "result", "raised" or "cancelled"

vars == <<dependsOn, stage, path, permanent, levels, level, step>>

Ends == {"rejected", "stuck", "done", "raised", "cancelled"}

TypeOK ==
  /\ dependsOn \in Graphs
  /\ stage \in {"order", "level", "run"} \union Ends
  /\ path \in Seq(Steps) /\ Len(path) <= N
  /\ permanent \subseteq Steps
  /\ levels \in Seq(SUBSET Steps) /\ Len(levels) <= N
  /\ level \in 0..N
  /\ step \in [Steps -> {"no", "runs", "result", "raised", "cancelled"}]

(* Any definition: save_definition checks it with the same _order_steps. *)
Init ==
  /\ dependsOn \in Graphs
  /\ stage = "order"
  /\ path = <<>> /\ permanent = {}
  /\ levels = <<>> /\ level = 0
  /\ step = [s \in Steps |-> "no"]

-----------------------------------------------------------------------------
OnPath == {path[i] : i \in 1..Len(path)}
Top == path[Len(path)]
Missing == \E s \in Steps : Unknown \in dependsOn[s]
running == <<level, step>>

(* A dependency on a step that does not exist. *)
RejectMissing ==
  /\ stage = "order" /\ Missing
  /\ stage' = "rejected"
  /\ UNCHANGED <<dependsOn, path, permanent, levels, running>>

(* The loop over the steps visits the next one that is not permanent. *)
VisitRoot ==
  /\ stage = "order" /\ ~Missing /\ path = <<>>
  /\ \E s \in Steps \ permanent :
       /\ 1..(s - 1) \subseteq permanent
       /\ path' = <<s>>
  /\ UNCHANGED <<dependsOn, stage, permanent, levels, running>>

(* visit() calls itself for a dependency, in the order they are listed in. *)
Descend ==
  /\ stage = "order" /\ path # <<>>
  /\ \E d \in dependsOn[Top] \ (permanent \union OnPath) : path' = Append(path, d)
  /\ UNCHANGED <<dependsOn, stage, permanent, levels, running>>

FindCycle ==
  /\ stage = "order" /\ path # <<>>
  /\ dependsOn[Top] \intersect OnPath # {}
  /\ stage' = "rejected"
  /\ UNCHANGED <<dependsOn, path, permanent, levels, running>>

(* Mutant of Finish: a step under visit counts as visited. *)
FinishUnderVisit ==
  /\ stage = "order" /\ path # <<>>
  /\ dependsOn[Top] \subseteq permanent \union OnPath
  /\ permanent' = permanent \union {Top}
  /\ path' = SubSeq(path, 1, Len(path) - 1)
  /\ UNCHANGED <<dependsOn, stage, levels, running>>

Finish ==
  /\ stage = "order" /\ path # <<>>
  /\ dependsOn[Top] \subseteq permanent
  /\ permanent' = permanent \union {Top}
  /\ path' = SubSeq(path, 1, Len(path) - 1)
  /\ UNCHANGED <<dependsOn, stage, levels, running>>

Ordered ==
  /\ stage = "order" /\ path = <<>> /\ permanent = Steps
  /\ stage' = "level"
  /\ UNCHANGED <<dependsOn, path, permanent, levels, running>>

-----------------------------------------------------------------------------
Placed == UNION {levels[i] : i \in 1..Len(levels)}

(* Mutant of Ready: a step is ready with its first dependency. *)
ReadyEarly ==
  {s \in Steps \ Placed : dependsOn[s] = {} \/ dependsOn[s] \intersect Placed # {}}

Ready == {s \in Steps \ Placed : dependsOn[s] \subseteq Placed}

(* Or the defensive error: no step is ready. *)
NextLevel ==
  /\ stage = "level" /\ Placed # Steps
  /\ IF Ready = {}
       THEN stage' = "stuck" /\ UNCHANGED levels
       ELSE levels' = Append(levels, Ready) /\ UNCHANGED stage
  /\ UNCHANGED <<dependsOn, path, permanent, running>>

-----------------------------------------------------------------------------
Here == IF level = 0 THEN {} ELSE levels[level]
graph == <<dependsOn, path, permanent, levels>>

(* gather starts a task for every step of a level; each composes its       *)
(* mission from the results of its dependencies at once.                   *)
StartLevel ==
  /\ \/ stage = "level" /\ Placed = Steps
     \/ stage = "run" /\ \A s \in Here : step[s] = "result"
  /\ level < Len(levels)
  /\ stage' = "run" /\ level' = level + 1
  /\ step' = [s \in Steps |-> IF s \in levels[level + 1] THEN "runs" ELSE step[s]]
  /\ UNCHANGED graph

(* A step returns a result, be its status completed or failed. *)
StepReturns(s) ==
  /\ step[s] = "runs"
  /\ step' = [step EXCEPT ![s] = "result"]
  /\ UNCHANGED <<graph, stage, level>>

(* A step raises: gather passes the exception on, the run ends with it, *)
(* and the other tasks of the level go on.                              *)
StepRaises(s) ==
  /\ step[s] = "runs"
  /\ step' = [step EXCEPT ![s] = "raised"]
  /\ stage' = IF stage = "run" THEN "raised" ELSE stage
  /\ UNCHANGED <<graph, level>>

(* Mutant of AllReturned: the last level is not waited for. *)
LastLevelStarted ==
  /\ stage = "run" /\ level = Len(levels)
  /\ stage' = "done"
  /\ UNCHANGED <<graph, level, step>>

AllReturned ==
  /\ stage = "run" /\ level = Len(levels)
  /\ \A s \in Here : step[s] = "result"
  /\ stage' = "done"
  /\ UNCHANGED <<graph, level, step>>

(* The run is cancelled while gather waits, and its tasks with it. *)
Cancel ==
  /\ stage = "run" /\ \E s \in Here : step[s] = "runs"
  /\ stage' = "cancelled"
  /\ step' = [s \in Steps |-> IF step[s] = "runs" THEN "cancelled" ELSE step[s]]
  /\ UNCHANGED <<graph, level>>

Next ==
  \/ RejectMissing \/ VisitRoot \/ Descend \/ FindCycle \/ Finish \/ Ordered
  \/ NextLevel
  \/ StartLevel \/ AllReturned \/ Cancel
  \/ \E s \in Steps : StepReturns(s) \/ StepRaises(s)

Spec == Init /\ [][Next]_vars

(* The service computes on, and a mission comes to an end. *)
Computes ==
  \/ RejectMissing \/ VisitRoot \/ Descend \/ FindCycle \/ Finish \/ Ordered
  \/ NextLevel \/ StartLevel \/ AllReturned
Fairness ==
  /\ WF_vars(Computes)
  /\ \A s \in Steps : WF_vars(StepReturns(s) \/ StepRaises(s))
FairSpec == Spec /\ Fairness

-----------------------------------------------------------------------------
(* The steps that s waits for, through any number of dependencies. *)
Behind[n \in 0..N] ==
  IF n = 0 THEN [s \in Steps |-> dependsOn[s]]
  ELSE [s \in Steps |-> Behind[n - 1][s] \union
          UNION {dependsOn[d] : d \in Behind[n - 1][s] \intersect Steps}]
WellFormed == \A s \in Steps : Behind[N][s] \subseteq Steps \ {s}

(* A definition is rejected exactly if a step depends on an unknown one or, *)
(* through others, on itself; the split into levels never gets stuck on a   *)
(* graph that passed (workflow_runtime_service.py:464, 502).                *)
VerdictIsRight ==
  /\ stage = "rejected" => ~WellFormed
  /\ stage \in {"level", "run", "done", "raised", "cancelled"} => WellFormed
  /\ stage # "stuck"

(* A step starts only when all it depends on has left a result for its      *)
(* mission, and so, one dependency after the other, with nothing still      *)
(* running before it: what runs at a time is independent                    *)
(* (workflow_runtime_service.py:191).                                       *)
DependenciesFirst ==
  \A s \in Steps : step[s] # "no" =>
    \A d \in dependsOn[s] : d \in Steps /\ step[d] = "result"

(* Every run ends, a step still running when another raised with it, and a  *)
(* run that is done has a result of every step.                             *)
RunsEnd ==
  <>[](/\ stage \in Ends
       /\ \A s \in Steps : step[s] # "runs" /\ (stage = "done" => step[s] = "result"))
=============================================================================
