-------------------------- MODULE DaemonSupervisor --------------------------
(***************************************************************************)
(* AgentDaemonSupervisor (application/daemon_supervisor.py) around the     *)
(* start() and stop() of AgentDaemon (agent_daemon.py), AgentService       *)
(* (agent_service.py) and what these run: the scheduler, the event         *)
(* sources, the persistent agent, the proactive and the status task.       *)
(*                                                                         *)
(* Every iteration of run() builds a daemon of its own, numbered here, and *)
(* forgets the one before, whether or not that one really stopped.         *)
(* Everything runs on one event loop; a step is what runs between awaits.  *)
(***************************************************************************)
EXTENDS Integers, Sequences, FiniteSets

CONSTANTS
  Sources,      \* the event sources of the profile, in order: a sequence
  MaxDaemons,   \* daemons built (bound): the last one meets no new crash
  MaxBackoff,   \* max_backoff_seconds, in units of initial_backoff_seconds
  Factor,       \* backoff_factor
  Cancellable   \* the task of run() may be cancelled

SourceSet == {Sources[i] : i \in DOMAIN Sources}
Daemons == 1..MaxDaemons

ASSUME SupervisorConstants ==
  /\ MaxDaemons \in Nat \ {0} /\ MaxBackoff \in Nat \ {0}
  /\ Factor \in Nat \ {0} /\ Cancellable \in BOOLEAN
  /\ Sources \in Seq(SourceSet)
  /\ SourceSet \intersect {"scheduler", "agent", "proactive", "status"} = {}
  /\ \A i, j \in DOMAIN Sources : Sources[i] = Sources[j] => i = j

VARIABLES
  sup,        \* where run() is
  at,         \* where start() or stop() of the current daemon is
  next,       \* the event source that is started or stopped next
  why,        \* why the current daemon is stopped
  shutdown,   \* _shutdown is set
  restart,    \* _restart_event is set
  cur,        \* _daemon: the number of the current daemon, 0 for None
  built,      \* _iteration_count
  backoff,    \* the delay after the next crash
  running,    \* running[d]: the parts of daemon d that have a task running
  service,    \* service[d]: AgentService._running
  fresh,      \* last_heartbeat of the current daemon is recent
  mishap,     \* mishap[d]: what went wrong in starting or stopping d
  lost        \* situations in which an event found no agent to queue it

vars == <<sup, at, next, why, shutdown, restart, cur, built, backoff, running,
          service, fresh, mishap, lost>>

Producers == {"scheduler"} \union SourceSet
Parts == Producers \union {"agent", "proactive", "status"}
Mishaps == {"half_started", "stop_raised", "cancelled", "agent_died"}
Situations == {"starting", "stopping", "settled", "left", "agent_died"}

TypeOK ==
  /\ sup \in {"top", "start", "wait", "stop", "backoff", "done"}
  /\ at \in {"setup", "scheduler", "sources", "agent", "proactive", "up", "tasks"}
  /\ next \in 1..(Len(Sources) + 1)
  /\ why \in {"crash", "restart", "shutdown"}
  /\ shutdown \in BOOLEAN /\ restart \in BOOLEAN
  /\ cur \in 0..MaxDaemons /\ built \in 0..MaxDaemons
  /\ backoff \in 1..MaxBackoff
  /\ running \in [Daemons -> SUBSET Parts]
  /\ service \in [Daemons -> BOOLEAN]
  /\ fresh \in BOOLEAN
  /\ mishap \in [Daemons -> SUBSET Mishaps]
  /\ lost \subseteq Situations

Init ==
  /\ sup = "top" /\ at = "setup" /\ next = 1 /\ why = "crash"
  /\ shutdown = FALSE /\ restart = FALSE
  /\ cur = 0 /\ built = 0 /\ backoff = 1
  /\ running = [d \in Daemons |-> {}]
  /\ service = [d \in Daemons |-> FALSE]
  /\ fresh = FALSE
  /\ mishap = [d \in Daemons |-> {}]
  /\ lost = {}

Starts(part) == running' = [running EXCEPT ![cur] = @ \union {part}]
Ends(parts) == running' = [running EXCEPT ![cur] = @ \ parts]
GoesWrong(what) == mishap' = [mishap EXCEPT ![cur] = @ \union {what}]

-----------------------------------------------------------------------------
(* request_shutdown and the signal handlers; request_restart *)
RequestShutdown ==
  /\ ~shutdown /\ sup # "done"
  /\ shutdown' = TRUE
  /\ UNCHANGED <<sup, at, next, why, restart, cur, built, backoff, running,
                 service, fresh, mishap, lost>>

RequestRestart ==
  /\ ~restart /\ sup # "done" /\ built < MaxDaemons
  /\ restart' = TRUE
  /\ UNCHANGED <<sup, at, next, why, shutdown, cur, built, backoff, running,
                 service, fresh, mishap, lost>>

(* The head of the loop: a fresh daemon. *)
Iterate ==
  /\ sup = "top" /\ ~shutdown /\ built < MaxDaemons
  /\ built' = built + 1 /\ cur' = built + 1
  /\ restart' = FALSE /\ fresh' = FALSE
  /\ sup' = "start" /\ at' = "setup"
  /\ UNCHANGED <<next, why, shutdown, backoff, running, service, mishap, lost>>

Exit ==
  /\ sup = "top" /\ shutdown
  /\ sup' = "done"
  /\ UNCHANGED <<at, next, why, shutdown, restart, cur, built, backoff,
                 running, service, fresh, mishap, lost>>

-----------------------------------------------------------------------------
(* AgentDaemon.start, one action per part it starts. *)
StartAt(place) == sup = "start" /\ at = place

(* Configuration, gateway, executor, event sources, rules: only built. *)
Setup ==
  /\ StartAt("setup")
  /\ at' = "scheduler"
  /\ UNCHANGED <<sup, next, why, shutdown, restart, cur, built, backoff,
                 running, service, fresh, mishap, lost>>

StartScheduler ==
  /\ StartAt("scheduler")
  /\ Starts("scheduler")
  /\ at' = "sources" /\ next' = 1
  /\ UNCHANGED <<sup, why, shutdown, restart, cur, built, backoff, service,
                 fresh, mishap, lost>>

StartSource ==
  /\ StartAt("sources") /\ next <= Len(Sources)
  /\ Starts(Sources[next])
  /\ next' = next + 1
  /\ UNCHANGED <<sup, at, why, shutdown, restart, cur, built, backoff, service,
                 fresh, mishap, lost>>

(* Mutant of ServiceRuns: the persistent agent is not started. *)
ServiceRunsAlone ==
  /\ StartAt("sources") /\ next > Len(Sources)
  /\ service' = [service EXCEPT ![cur] = TRUE]
  /\ at' = "proactive"
  /\ UNCHANGED <<sup, next, why, shutdown, restart, cur, built, backoff,
                 running, fresh, mishap, lost>>

ServiceRuns ==
  /\ StartAt("sources") /\ next > Len(Sources)
  /\ service' = [service EXCEPT ![cur] = TRUE]
  /\ at' = "agent"
  /\ UNCHANGED <<sup, next, why, shutdown, restart, cur, built, backoff,
                 running, fresh, mishap, lost>>

StartAgent ==
  /\ StartAt("agent")
  /\ Starts("agent")
  /\ at' = "proactive"
  /\ UNCHANGED <<sup, next, why, shutdown, restart, cur, built, backoff,
                 service, fresh, mishap, lost>>

(* _setup_proactive_layer: with the heartbeat task when configured *)
StartProactive ==
  /\ StartAt("proactive")
  /\ \/ Starts("proactive")
     \/ UNCHANGED running
  /\ at' = "up"
  /\ UNCHANGED <<sup, next, why, shutdown, restart, cur, built, backoff,
                 service, fresh, mishap, lost>>

(* _running and the status task; start() returns and the watchdog begins.  *)
DaemonUp ==
  /\ StartAt("up")
  /\ Starts("status")
  /\ fresh' = TRUE /\ sup' = "wait"
  /\ UNCHANGED <<at, next, why, shutdown, restart, cur, built, backoff,
                 service, mishap, lost>>

-----------------------------------------------------------------------------
(* The supervisor waits for the watchdog, a shutdown or a restart. *)
StopsFor(reason) == sup' = "stop" /\ at' = "tasks" /\ why' = reason

(* start() raises: the crash path of run() stops the half-started daemon.  *)
StartRaises ==
  /\ sup = "start" /\ at # "up" /\ built < MaxDaemons
  /\ StopsFor("crash")
  /\ \/ at = "sources" /\ next <= Len(Sources) /\ GoesWrong("half_started")
     \/ at # "sources" /\ UNCHANGED mishap
  /\ UNCHANGED <<next, shutdown, restart, cur, built, backoff, running,
                 service, fresh, lost>>

(* The status loop hangs, or goes on again. *)
HeartbeatStalls ==
  /\ sup = "wait" /\ fresh /\ built < MaxDaemons
  /\ fresh' = FALSE
  /\ UNCHANGED <<sup, at, next, why, shutdown, restart, cur, built, backoff,
                 running, service, mishap, lost>>

HeartbeatResumes ==
  /\ sup = "wait" /\ ~fresh
  /\ fresh' = TRUE
  /\ UNCHANGED <<sup, at, next, why, shutdown, restart, cur, built, backoff,
                 running, service, mishap, lost>>

(* _watchdog_loop raises DaemonStalled. *)
WatchdogFires ==
  /\ sup = "wait" /\ ~fresh
  /\ StopsFor("crash")
  /\ UNCHANGED <<next, shutdown, restart, cur, built, backoff, running,
                 service, fresh, mishap, lost>>

(* Mutant of Woken: only a restart ends the wait. *)
WokenByRestart ==
  /\ sup = "wait" /\ restart
  /\ StopsFor(IF shutdown THEN "shutdown" ELSE "restart")
  /\ backoff' = 1
  /\ UNCHANGED <<next, shutdown, restart, cur, built, running, service, fresh,
                 mishap, lost>>

(* The clean end of _start_and_wait; a shutdown beats a restart. *)
Woken ==
  /\ sup = "wait" /\ (shutdown \/ restart)
  /\ StopsFor(IF shutdown THEN "shutdown" ELSE "restart")
  /\ backoff' = 1
  /\ UNCHANGED <<next, shutdown, restart, cur, built, running, service, fresh,
                 mishap, lost>>

-----------------------------------------------------------------------------
(* _safe_stop_daemon: AgentDaemon.stop, one action per part it stops.  What *)
(* raises in it leaves the rest running, and the daemon is forgotten.       *)
StopAt(place) == sup = "stop" /\ at = place

(* What run() does once the daemon is stopped. *)
AfterStop ==
  /\ cur' = 0
  /\ sup' = CASE why = "crash"    -> IF shutdown THEN "done" ELSE "backoff"
              [] why = "restart"  -> "top"
              [] why = "shutdown" -> "done"

StopTasks ==
  /\ StopAt("tasks")
  /\ Ends({"status", "proactive"})
  /\ at' = "agent"
  /\ UNCHANGED <<sup, next, why, shutdown, restart, cur, built, backoff,
                 service, fresh, mishap, lost>>

(* PersistentAgentService.stop: it awaits the processor task, and so raises *)
(* what that task died of.                                                  *)
StopAgent ==
  /\ StopAt("agent") /\ "agent_died" \notin mishap[cur]
  /\ Ends({"agent"})
  /\ at' = "sources" /\ next' = 1
  /\ UNCHANGED <<sup, why, shutdown, restart, cur, built, backoff, service,
                 fresh, mishap, lost>>

StopSource ==
  /\ StopAt("sources") /\ service[cur] /\ next <= Len(Sources)
  /\ Ends({Sources[next]})
  /\ next' = next + 1
  /\ UNCHANGED <<sup, at, why, shutdown, restart, cur, built, backoff, service,
                 fresh, mishap, lost>>

(* Mutant of StopScheduler: the service is marked stopped, no more. *)
StopForgetsScheduler ==
  /\ StopAt("sources") /\ service[cur] /\ next > Len(Sources)
  /\ service' = [service EXCEPT ![cur] = FALSE]
  /\ AfterStop
  /\ UNCHANGED <<at, next, why, shutdown, restart, built, backoff, running,
                 fresh, mishap, lost>>

(* The end of AgentService.stop and of AgentDaemon.stop *)
StopScheduler ==
  /\ StopAt("sources") /\ service[cur] /\ next > Len(Sources)
  /\ Ends({"scheduler"})
  /\ service' = [service EXCEPT ![cur] = FALSE]
  /\ AfterStop
  /\ UNCHANGED <<at, next, why, shutdown, restart, built, backoff, fresh,
                 mishap, lost>>

(* AgentService.stop returns at once unless the service ran, also when its *)
(* start() got as far as the scheduler and some of the sources.            *)
StopFindsNoService ==
  /\ StopAt("sources") /\ ~service[cur]
  /\ AfterStop
  /\ UNCHANGED <<at, next, why, shutdown, restart, built, backoff, running,
                 service, fresh, mishap, lost>>

(* The stop of the persistent agent raises, after its processor ended. *)
StopAgentRaises ==
  /\ StopAt("agent")
  /\ "agent" \in running[cur] \/ "agent_died" \in mishap[cur]
  /\ Ends({"agent"})
  /\ GoesWrong("stop_raised")
  /\ AfterStop
  /\ UNCHANGED <<at, next, why, shutdown, restart, built, backoff, service,
                 fresh, lost>>

(* The stop of an event source raises. *)
StopSourceRaises ==
  /\ StopAt("sources") /\ service[cur] /\ next <= Len(Sources)
  /\ GoesWrong("stop_raised")
  /\ AfterStop
  /\ UNCHANGED <<at, next, why, shutdown, restart, built, backoff, running,
                 service, fresh, lost>>

-----------------------------------------------------------------------------
(* Mutant of Backoff: the delay is over, the crash path goes straight on   *)
(* to a new daemon.                                                        *)
BackoffBuilds ==
  /\ sup = "backoff" /\ built < MaxDaemons
  /\ backoff' = IF backoff * Factor < MaxBackoff THEN backoff * Factor ELSE MaxBackoff
  /\ sup' = "start" /\ at' = "setup"
  /\ built' = built + 1 /\ cur' = built + 1
  /\ restart' = FALSE /\ fresh' = FALSE
  /\ UNCHANGED <<next, why, shutdown, running, service, mishap, lost>>

(* _sleep_with_shutdown ends, by its timeout or by a shutdown. *)
Backoff ==
  /\ sup = "backoff"
  /\ backoff' = IF backoff * Factor < MaxBackoff THEN backoff * Factor ELSE MaxBackoff
  /\ sup' = "top"
  /\ UNCHANGED <<at, next, why, shutdown, restart, cur, built, running, service,
                 fresh, mishap, lost>>

(* CancelledError (KeyboardInterrupt, SystemExit) ends run() where it is:  *)
(* caught around start() and the wait, propagated from elsewhere.  Either  *)
(* way nothing stops the daemon.                                           *)
Cancelled ==
  /\ Cancellable /\ sup \in {"start", "wait", "stop", "backoff"}
  /\ sup' = "done"
  /\ shutdown' = (shutdown \/ sup \in {"start", "wait"})
  /\ IF cur = 0 THEN UNCHANGED mishap ELSE GoesWrong("cancelled")
  /\ cur' = IF sup = "stop" THEN 0 ELSE cur
  /\ UNCHANGED <<at, next, why, restart, built, backoff, running, service,
                 fresh, lost>>

-----------------------------------------------------------------------------
(* The processor task of the persistent agent ends with an exception.      *)
AgentDies ==
  /\ sup = "wait" /\ "agent" \in running[cur]
  /\ Ends({"agent"})
  /\ GoesWrong("agent_died")
  /\ UNCHANGED <<sup, at, next, why, shutdown, restart, cur, built, backoff,
                 service, fresh, lost>>

Situation(d) ==
  CASE "agent_died" \in mishap[d]    -> "agent_died"
    [] d # cur \/ sup = "done"       -> "left"
    [] sup = "start"                 -> "starting"
    [] sup = "stop"                  -> "stopping"
    [] OTHER                         -> "settled"

(* A job or an event source of d has an event that wants a mission: with   *)
(* no processor task submit() raises, and _execute_mission only logs it.   *)
EventLost(d) ==
  /\ running[d] \intersect Producers # {} /\ "agent" \notin running[d]
  /\ lost' = lost \union {Situation(d)}
  /\ UNCHANGED <<sup, at, next, why, shutdown, restart, cur, built, backoff,
                 running, service, fresh, mishap>>

Next ==
  \/ RequestShutdown \/ RequestRestart \/ Iterate \/ Exit
  \/ Setup \/ StartScheduler \/ StartSource \/ ServiceRuns \/ StartAgent
  \/ StartProactive \/ DaemonUp \/ StartRaises
  \/ HeartbeatStalls \/ HeartbeatResumes \/ WatchdogFires \/ Woken
  \/ StopTasks \/ StopAgent \/ StopSource \/ StopScheduler
  \/ StopFindsNoService \/ StopAgentRaises \/ StopSourceRaises
  \/ Backoff \/ Cancelled
  \/ AgentDies \/ \E d \in Daemons : EventLost(d)

Spec == Init /\ [][Next]_vars

(* start() and stop() come to their end, one way or the other; the event   *)
(* loop wakes whoever is due.  Whether something crashes is left open.     *)
Progress ==
  \/ Iterate \/ Exit \/ Setup \/ StartScheduler \/ StartSource \/ ServiceRuns
  \/ StartAgent \/ StartProactive \/ DaemonUp \/ Woken \/ WatchdogFires
  \/ StopTasks \/ StopAgent \/ StopSource \/ StopScheduler
  \/ StopFindsNoService \/ StopAgentRaises \/ Backoff

FairSpec == Spec /\ WF_vars(Progress)

-----------------------------------------------------------------------------
(* What a daemon leaves behind when the supervisor has turned away from it  *)
(* (daemon_supervisor.py:367): nothing; or, if an event source failed to    *)
(* start or a stop raised, scheduler and sources, which go on beside those  *)
(* of the next daemon, but never an agent.  Only a cancellation of run()    *)
(* leaves more.                                                             *)
LeftoversExplained ==
  \A d \in Daemons : running[d] # {} /\ (d # cur \/ sup = "done") =>
    \/ "cancelled" \in mishap[d]
    \/ /\ mishap[d] \intersect {"half_started", "stop_raised"} # {}
       /\ running[d] \subseteq Producers

(* While a daemon is up, no event of its scheduler or of its sources misses *)
(* the agent's queue (agent_service.py:441), unless the processor died.     *)
LostOnlyAtTheEdges == "settled" \notin lost

(* Once a shutdown is requested no daemon is built any more, whichever      *)
(* await of run() it arrives in, a pending restart or crash included.       *)
ShutdownWins == [][shutdown => built' = built]_vars

(* A requested shutdown ends run(), also during a start, a stop or a delay. *)
ShutdownEnds == shutdown ~> sup = "done"
=============================================================================
