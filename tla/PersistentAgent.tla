--------------------------- MODULE PersistentAgent ---------------------------
(***************************************************************************)
(* The persistent agent: RequestProcessor (request_queue.py), the          *)
(* lifecycle of PersistentAgentService (persistent_agent_service.py) and   *)
(* the part of AgentExecutor (executor.py) its cancellation depends on,    *)
(* over the queue of module RequestQueue.                                  *)
(*                                                                         *)
(* Concurrent activities: one submitter per request (an HTTP handler, the  *)
(* gateway or the daemon), the processor task, callers of cancel_request,  *)
(* and the embedder that calls start() and stop() one after the other.     *)
(***************************************************************************)
EXTENDS RequestQueue

CONSTANT None   \* no request is in flight

ASSUME NoneIsNoRequest == None \notin Requests

VARIABLES
  proc,         \* where the processor task awaits
  current,      \* the key of _in_flight
  interrupted,  \* the running agent was asked to pause
  cancelSent,   \* processor_task.cancel() was called and not yet delivered
  svc,          \* where the embedder's start() or stop() stands
  runs,         \* runs[r]: how often the processor began to execute r
  aborted       \* requests whose execution a cancelled processor dropped

agentVars == <<proc, current, interrupted, cancelSent, svc, runs, aborted>>
vars == <<queueVars, agentVars>>

(* none     no processor task                                              *)
(* idle     in queue.dequeue()                                             *)
(* prepare  in _execute before the agent runs: storing the user's message, *)
(*          creating the agent                                             *)
(* agent    in the try block of execute_mission_streaming; the agent is    *)
(*          registered in _active_agents                                   *)
(* store    storing the assistant's reply                                  *)
(* done     the task has ended                                             *)
ProcStates == {"none", "idle", "prepare", "agent", "store", "done"}

(* down, loading (start awaits load), up, draining and drained (stop       *)
(* before cancel()), joining (stop awaits the task), saving (_save_state)  *)
SvcStates == {"down", "loading", "up", "draining", "drained", "joining", "saving"}

Init ==
  /\ QueueInit
  /\ proc = "none" /\ current = None
  /\ interrupted = FALSE /\ cancelSent = FALSE
  /\ svc = "down"
  /\ runs = [r \in Requests |-> 0]
  /\ aborted = {}

Alive == proc \notin {"none", "done"}

-----------------------------------------------------------------------------
(* submit and the three ways its task can continue.  Submission needs a    *)
(* live processor task; otherwise submit raises RuntimeError.              *)
Submit(r) ==
  /\ Alive
  /\ Enqueue(r)
  /\ UNCHANGED agentVars

SubmitterResumes(r) ==
  /\ ResumePut(r)
  /\ UNCHANGED agentVars

SubmitterLeaves(r) ==
  /\ Abandon(r)
  /\ UNCHANGED agentVars

(* Mutant of CancelRequest: no look at _in_flight first. *)
CancelRequestBlindly(r) ==
  /\ Cancel(r)
  /\ UNCHANGED agentVars

(* cancel_request: an in-flight request is only interrupted, and only when *)
(* its agent is registered; any other known request is cancelled in the    *)
(* queue.                                                                  *)
CancelRequest(r) ==
  \/ /\ r = current
     /\ proc = "agent"
     /\ interrupted' = TRUE
     /\ UNCHANGED <<queueVars, proc, current, cancelSent, svc, runs, aborted>>
  \/ /\ r # current
     /\ Cancel(r)
     /\ UNCHANGED agentVars

-----------------------------------------------------------------------------
(* The processor.  A pending cancel() reaches it before anything else at   *)
(* its next resumption.                                                    *)
Runs(state) == proc = state /\ ~cancelSent

(* run: a dequeued request goes in flight without an await in between. *)
Dispatch(r) ==
  /\ Runs("idle")
  /\ Dequeue(r)
  /\ r \notin cancelled
  /\ proc' = "prepare" /\ current' = r
  /\ runs' = [runs EXCEPT ![r] = @ + 1]
  /\ UNCHANGED <<futures, known, cancelled, reply, counter, seq, unfinished,
                 interrupted, cancelSent, svc, aborted>>

(* Mutant of SkipCancelled: task_done is forgotten. *)
SkipWithoutTaskDone(r) ==
  /\ Runs("idle")
  /\ Dequeue(r)
  /\ r \in cancelled
  /\ Purge(r)
  /\ UNCHANGED <<futures, reply, counter, seq, unfinished, agentVars>>

SkipCancelled(r) ==
  /\ Runs("idle")
  /\ Dequeue(r)
  /\ r \in cancelled
  /\ Purge(r)
  /\ TaskDone
  /\ UNCHANGED <<futures, reply, counter, seq, agentVars>>

(* The agent is registered with its interrupt flag cleared. *)
BeginAgent ==
  /\ Runs("prepare")
  /\ proc' = "agent" /\ interrupted' = FALSE
  /\ UNCHANGED <<queueVars, current, cancelSent, svc, runs, aborted>>

EndAgent ==
  /\ Runs("agent")
  /\ proc' = "store"
  /\ UNCHANGED <<queueVars, current, interrupted, cancelSent, svc, runs, aborted>>

(* complete or fail, then the finally block of _process_request. *)
Finish(result) ==
  /\ Settle(current, result)
  /\ proc' = "idle" /\ current' = None
  /\ UNCHANGED <<interrupted, svc, runs, aborted>>

Deliver ==
  /\ Runs("store")
  /\ Finish("completed")
  /\ UNCHANGED cancelSent

(* An Exception anywhere in _execute. *)
ExecutionFails ==
  /\ \E state \in {"prepare", "agent", "store"} : Runs(state)
  /\ Finish("failed")
  /\ UNCHANGED cancelSent

(* The CancelledError of stop() outside the executor's try block ends the  *)
(* task; what is in flight is neither completed nor failed.                *)
CancelEndsProcessor ==
  /\ cancelSent
  /\ proc \in {"idle", "prepare", "store"}
  /\ proc' = "done" /\ current' = None /\ cancelSent' = FALSE
  /\ aborted' = aborted \union ({current} \ {None})
  /\ UNCHANGED <<queueVars, interrupted, svc, runs>>

(* Inside it, execute_mission_streaming turns the CancelledError into a    *)
(* TaskforceError, which _process_request reports as a failed request: the *)
(* processor loop goes on.                                                 *)
CancelBecomesFailure ==
  /\ cancelSent
  /\ proc = "agent"
  /\ Finish("failed")
  /\ cancelSent' = FALSE

-----------------------------------------------------------------------------
(* start: the load of the agent state, then the processor task. *)
Start ==
  /\ svc = "down"
  /\ svc' = "loading"
  /\ UNCHANGED <<queueVars, proc, current, interrupted, cancelSent, runs, aborted>>

StartLoaded ==
  /\ svc = "loading"
  /\ svc' = "up" /\ proc' = "idle"
  /\ UNCHANGED <<queueVars, current, interrupted, cancelSent, runs, aborted>>

(* stop: drain, whose join() returns when nothing is unfinished and which  *)
(* may time out instead; cancel() of the task; wait for it; save.          *)
Stop ==
  /\ svc = "up"
  /\ svc' = "draining"
  /\ UNCHANGED <<queueVars, proc, current, interrupted, cancelSent, runs, aborted>>

Drained ==
  /\ svc = "draining"
  /\ unfinished = 0
  /\ svc' = "drained"
  /\ UNCHANGED <<queueVars, proc, current, interrupted, cancelSent, runs, aborted>>

(* Mutant of CancelProcessor: the drain has no timeout. *)
CancelOnceDrained ==
  /\ svc = "drained"
  /\ svc' = "joining" /\ cancelSent' = TRUE
  /\ UNCHANGED <<queueVars, proc, current, interrupted, runs, aborted>>

CancelProcessor ==
  /\ \/ svc = "drained"
     \/ svc = "draining" /\ unfinished > 0
  /\ svc' = "joining" /\ cancelSent' = TRUE
  /\ UNCHANGED <<queueVars, proc, current, interrupted, runs, aborted>>

(* Mutant of Joined: stop() does not await the cancelled task. *)
JoinedAtOnce ==
  /\ svc = "joining"
  /\ svc' = "saving"
  /\ UNCHANGED <<queueVars, proc, current, interrupted, cancelSent, runs, aborted>>

Joined ==
  /\ svc = "joining"
  /\ proc = "done"
  /\ svc' = "saving" /\ proc' = "none"
  /\ UNCHANGED <<queueVars, current, interrupted, cancelSent, runs, aborted>>

StateSaved ==
  /\ svc = "saving"
  /\ svc' = "down"
  /\ UNCHANGED <<queueVars, proc, current, interrupted, cancelSent, runs, aborted>>

-----------------------------------------------------------------------------
Processor ==
  \/ \E r \in Requests : Dispatch(r) \/ SkipCancelled(r)
  \/ BeginAgent \/ EndAgent \/ Deliver
  \/ CancelEndsProcessor \/ CancelBecomesFailure

Stopping == Drained \/ CancelProcessor \/ Joined \/ StateSaved

Next ==
  \/ \E r \in Requests :
       Submit(r) \/ SubmitterResumes(r) \/ SubmitterLeaves(r) \/ CancelRequest(r)
  \/ Processor \/ ExecutionFails
  \/ Start \/ StartLoaded \/ Stop \/ Stopping

(* The event loop runs every ready coroutine, an execution ends (the loop  *)
(* and its LLM calls are bounded), and the drain times out.  Nothing makes *)
(* anyone submit, cancel, leave, start or stop.                            *)
Fairness ==
  /\ WF_vars(Processor)
  /\ WF_vars(StartLoaded)
  /\ WF_vars(Stopping)
  /\ \A r \in Requests : WF_vars(SubmitterResumes(r))

Spec == Init /\ [][Next]_vars
FairSpec == Spec /\ Fairness

-----------------------------------------------------------------------------
(* The state of the persistent agent is well formed: every request is in   *)
(* at most one place, and asyncio's counter is never negative (task_done   *)
(* would raise ValueError).                                                *)
TypeOK ==
  /\ futures \subseteq Requests /\ known \subseteq Requests
  /\ cancelled \subseteq Requests /\ heap \subseteq Requests
  /\ woken \subseteq Requests /\ aborted \subseteq Requests
  /\ putters \in Seq(Requests)
  /\ reply \in [Requests -> Replies]
  /\ counter \in Nat /\ unfinished \in Nat
  /\ seq \in [Requests -> Nat]
  /\ runs \in [Requests -> Nat]
  /\ proc \in ProcStates /\ svc \in SvcStates
  /\ current \in Requests \union {None}
  /\ interrupted \in BOOLEAN /\ cancelSent \in BOOLEAN

(* unfinished counts the queued items, the one in flight and every item    *)
(* whose execution was dropped without task_done.                          *)
Accounting ==
  unfinished = Cardinality(heap) + (IF current = None THEN 0 ELSE 1) + Cardinality(aborted)

(* join() never returns early: when the counter that drain waits for is    *)
(* zero, nothing is queued and nothing is in flight.                       *)
JoinIsSound == unfinished = 0 => heap = {} /\ current = None

(* A submitter sleeps in put() only while every free slot of the queue is  *)
(* already promised to a woken one: no wake-up is lost, whatever mix of    *)
(* barging, resuming and disconnecting callers there is.                   *)
NoLostWakeup ==
  putters # <<>> => Cardinality(heap) + Cardinality(woken) >= MaxSize

(* No request is executed twice, although it moves between _putters, the   *)
(* heap and _in_flight while others cancel, leave and stop the service.    *)
AtMostOnce == \A r \in Requests : runs[r] <= 1

(* A caller told "cancelled" never had its request executed, except one    *)
(* whose execution stop() had already dropped.                             *)
CancelledNeverRan ==
  \A r \in Requests : reply[r] = "cancelled" => runs[r] = 0 \/ r \in aborted

(* A submitter still awaiting its Future can be answered: the Future is    *)
(* registered, and the request is blocked, queued, in flight, or one that  *)
(* a cancelled processor dropped.                                          *)
NoLimbo ==
  \A r \in Requests : reply[r] = "pending" =>
    /\ r \in futures
    /\ r \in Blocked \union woken \union heap \union {current} \union aborted

(* The agent state is saved, and a new start() accepted, only when no      *)
(* processor is left that could still touch it.                            *)
SavedAtRest == svc \in {"saving", "down", "loading"} =>
  proc = "none" /\ current = None /\ ~cancelSent

(* While the service stays up, every submitter that waits gets an answer:  *)
(* higher priorities, full queues, cancellations of others and failing     *)
(* executions may delay it but never strand it.                            *)
EverySubmitterAnswered ==
  \A r \in Requests :
    (svc = "up" /\ reply[r] = "pending")
      ~> (reply[r] # "pending" \/ svc # "up" \/ r \in aborted)

(* stop() finishes, state saved, unless the processor survived its cancel. *)
StopEndsOrCancelLost ==
  svc = "draining" ~> (svc = "down" \/ (svc = "joining" /\ Alive /\ ~cancelSent))

(* What each submitted mission goes through is the life cycle of module    *)
(* MissionLifecycle.                                                       *)
Phase(r) ==
  IF reply[r] = "none" THEN "new"
  ELSE IF r = current THEN "running"
  ELSE IF r \in aborted THEN "aborted"
  ELSE IF runs[r] > 0 THEN "finished"
  ELSE IF r \in (Blocked \union woken \union heap) \ cancelled THEN "waiting"
  ELSE "dropped"

Lifecycle == INSTANCE MissionLifecycle WITH
  Missions <- Requests,
  phase <- [r \in Requests |-> Phase(r)],
  answer <- [r \in Requests |-> IF reply[r] = "none" THEN "pending" ELSE reply[r]]

ImplementsLifecycle == Lifecycle!Spec

=============================================================================
