---------------------- MODULE DaemonSupervisor_proofs ----------------------
(***************************************************************************)
(* What the supervisor promises of its daemons, for any event sources, any *)
(* number of daemons and any backoff: the inductive invariant IInv behind  *)
(* LeftoversExplained and LostOnlyAtTheEdges, and ShutdownWins.            *)
(***************************************************************************)
EXTENDS DaemonSupervisor, TLAPS

Types ==
  /\ running \in [Daemons -> SUBSET Parts]
  /\ service \in [Daemons -> BOOLEAN]
  /\ mishap \in [Daemons -> SUBSET Mishaps]
  /\ built \in 0..MaxDaemons /\ next \in Nat \ {0}
  /\ why \in {"crash", "restart", "shutdown"}

(* The supervisor has a daemon in hand, the latest, from start to stop. *)
InHand ==
  /\ sup \in {"top", "start", "wait", "stop", "backoff", "done"}
  /\ sup \in {"top", "backoff"} => cur = 0
  /\ sup \in {"start", "wait", "stop"} => cur = built /\ cur \in Daemons
  /\ cur \in Daemons \union {0} /\ cur <= built

(* What is not built has no parts. *)
Unbuilt == \A d \in Daemons : d > built => running[d] = {} /\ ~service[d]

(* What runs of a daemon as far as its start has come. *)
StartedSoFar ==
  sup = "start" =>
    /\ at \in {"setup", "scheduler", "sources", "agent", "proactive", "up"}
    /\ at \in {"setup", "scheduler"} => running[cur] = {} /\ ~service[cur]
    /\ at = "sources" => running[cur] \subseteq Producers /\ ~service[cur]
    /\ at = "agent" => running[cur] \subseteq Producers /\ service[cur]
    /\ at \in {"proactive", "up"} => "agent" \in running[cur] /\ service[cur]

(* A daemon that is up has an agent, or had one. *)
UpSoFar ==
  sup = "wait" =>
    service[cur] /\ ("agent" \in running[cur] \/ "agent_died" \in mishap[cur])

(* What still runs of a daemon as far as its stop has come. *)
StoppedSoFar ==
  sup = "stop" =>
    /\ at \in {"tasks", "agent", "sources"}
    /\ ~service[cur] =>
         /\ running[cur] \subseteq Producers
         /\ running[cur] # {} => "half_started" \in mishap[cur]
    /\ at = "agent" => running[cur] \subseteq Producers \union {"agent"}
    /\ at = "sources" => running[cur] \subseteq Producers
    /\ at = "sources" /\ service[cur] =>
         \A i \in DOMAIN Sources : i < next => Sources[i] \notin running[cur]

IInv ==
  /\ Types /\ InHand /\ Unbuilt /\ StartedSoFar /\ UpSoFar /\ StoppedSoFar
  /\ LeftoversExplained /\ LostOnlyAtTheEdges

(* The parts of a daemon are what they seem. *)
LEMMA PartsAre ==
  /\ Producers \subseteq Parts /\ {"agent", "proactive", "status"} \subseteq Parts
  /\ {"agent", "proactive", "status"} \intersect Producers = {}
  /\ Parts \ {"proactive", "status"} = Producers \union {"agent"}
  /\ "scheduler" \in Producers /\ SourceSet \subseteq Producers
  BY SupervisorConstants DEF Parts, Producers

(* The sources are numbered from one. *)
LEMMA SourcesAre ==
  /\ Len(Sources) \in Nat /\ DOMAIN Sources = 1..Len(Sources)
  /\ \A i \in 1..Len(Sources) : Sources[i] \in SourceSet
  BY SupervisorConstants DEF SourceSet

(* The initial state has the invariant. *)
LEMMA InitInvariant == Init => IInv
<1> SUFFICES ASSUME Init PROVE IInv
  OBVIOUS
<1>1. Types
  BY SupervisorConstants DEF Init, Types
<1>2. InHand /\ Unbuilt /\ StartedSoFar /\ UpSoFar /\ StoppedSoFar
  BY DEF Init, InHand, Unbuilt, StartedSoFar, UpSoFar, StoppedSoFar
<1>3. LeftoversExplained /\ LostOnlyAtTheEdges
  BY DEF Init, LeftoversExplained, LostOnlyAtTheEdges
<1> QED
  BY <1>1, <1>2, <1>3 DEF IInv

-----------------------------------------------------------------------------
(* A step that leaves the supervisor where it is, and its daemon. *)
LEMMA Requests ==
  ASSUME IInv, RequestShutdown \/ RequestRestart
  PROVE  IInv'
<1>1. UNCHANGED <<sup, at, next, why, cur, built, running, service, mishap, lost>>
  BY DEF RequestShutdown, RequestRestart
<1> QED
  BY <1>1 DEF IInv, Types, InHand, Unbuilt, StartedSoFar, UpSoFar, StoppedSoFar,
              LeftoversExplained, LostOnlyAtTheEdges

(* The head of the loop and the delay have no daemon in hand. *)
LEMMA Between ==
  ASSUME IInv, Iterate \/ Exit \/ Backoff
  PROVE  IInv'
<1> USE DEF IInv, Iterate, Exit, Backoff
<1>1. cur = 0 /\ sup \in {"top", "backoff"} /\ UNCHANGED <<running, service, mishap, lost, next, why>>
  BY DEF InHand
<1>2. Types'
  BY <1>1, SupervisorConstants DEF Types
<1>3. InHand'
  BY <1>1, SupervisorConstants DEF Types, InHand, Daemons
<1>4. Unbuilt'
  BY <1>1 DEF Unbuilt, Types, Daemons
<1>5. StartedSoFar'
  BY <1>1, SupervisorConstants DEF StartedSoFar, Unbuilt, Types, Daemons
<1>6. UpSoFar' /\ StoppedSoFar'
  BY <1>1 DEF UpSoFar, StoppedSoFar
<1>7. LeftoversExplained'
  <2>1. \A d \in Daemons : d # cur
    BY <1>1, SupervisorConstants DEF Daemons
  <2> QED
    BY <1>1, <2>1 DEF LeftoversExplained
<1>8. LostOnlyAtTheEdges'
  BY <1>1 DEF LostOnlyAtTheEdges
<1> QED
  BY <1>2, <1>3, <1>4, <1>5, <1>6, <1>7, <1>8

(* The start adds one part after the other. *)
LEMMA StartStep ==
  ASSUME IInv,
         \/ Setup \/ StartScheduler \/ StartSource \/ ServiceRuns \/ StartAgent
         \/ StartProactive \/ DaemonUp
  PROVE  IInv'
<1> USE DEF StartAt
<1>1. /\ sup = "start" /\ cur = built /\ cur \in Daemons /\ sup' \in {"start", "wait"}
      /\ UNCHANGED <<why, cur, built, mishap, lost>>
  BY DEF Setup, StartScheduler, StartSource, ServiceRuns, StartAgent,
         StartProactive, DaemonUp, IInv, InHand
<1>2. /\ running' \in [Daemons -> SUBSET Parts]
      /\ running[cur] \subseteq running'[cur]
      /\ \A d \in Daemons : d # cur => running'[d] = running[d]
  <2>1. \A p \in Parts : Starts(p) =>
          /\ running' \in [Daemons -> SUBSET Parts]
          /\ running'[cur] = running[cur] \union {p}
          /\ \A d \in Daemons : d # cur => running'[d] = running[d]
    BY <1>1 DEF Starts, IInv, Types
  <2>2. CASE UNCHANGED running
    BY <2>2 DEF IInv, Types
  <2>3. CASE Starts("scheduler") \/ Starts("agent") \/ Starts("proactive") \/ Starts("status")
    BY <2>1, <2>3, PartsAre
  <2>4. CASE StartSource
    <3>1. next \in 1..Len(Sources)
      BY <2>4, SourcesAre DEF StartSource, IInv, Types
    <3>2. Sources[next] \in Parts
      BY <3>1, SourcesAre, PartsAre
    <3> QED
      BY <2>1, <2>4, <3>2 DEF StartSource
  <2> QED
    BY <2>2, <2>3, <2>4
       DEF Setup, StartScheduler, ServiceRuns, StartAgent, StartProactive, DaemonUp
<1>3. /\ service' \in [Daemons -> BOOLEAN]
      /\ \A d \in Daemons : d # cur => service'[d] = service[d]
      /\ UNCHANGED service \/ (ServiceRuns /\ service'[cur] = TRUE)
  BY <1>1 DEF Setup, StartScheduler, StartSource, ServiceRuns, StartAgent,
         StartProactive, DaemonUp, IInv, Types
<1>4. next' \in Nat \ {0}
  BY DEF Setup, StartScheduler, StartSource, ServiceRuns, StartAgent,
         StartProactive, DaemonUp, IInv, Types
<1>5. Types' /\ InHand' /\ StoppedSoFar' /\ LostOnlyAtTheEdges'
  BY <1>1, <1>2, <1>3, <1>4 DEF IInv, Types, InHand, StoppedSoFar, LostOnlyAtTheEdges
<1>6. Unbuilt'
  BY <1>1, <1>2, <1>3 DEF IInv, Unbuilt, Daemons
<1>7. LeftoversExplained'
  BY <1>1, <1>2 DEF IInv, LeftoversExplained
<1>8. StartedSoFar' /\ UpSoFar'
  <2> USE DEF IInv, StartedSoFar, UpSoFar
  <2>1. CASE Setup
    BY <2>1, <1>1 DEF Setup
  <2>2. CASE StartScheduler
    <3>1. running'[cur] = {"scheduler"} /\ service'[cur] = FALSE
      BY <2>2, <1>1 DEF StartScheduler, Starts, Types
    <3> QED
      BY <2>2, <3>1, <1>1, PartsAre DEF StartScheduler
  <2>3. CASE StartSource
    <3>1. next \in 1..Len(Sources)
      BY <2>3, SourcesAre DEF StartSource, Types
    <3>2. Sources[next] \in Producers
      BY <3>1, SourcesAre, PartsAre
    <3>3. running'[cur] = running[cur] \union {Sources[next]} /\ service' = service
      BY <2>3, <1>1 DEF StartSource, Starts, Types
    <3> QED
      BY <2>3, <3>2, <3>3, <1>1 DEF StartSource
  <2>4. CASE ServiceRuns
    BY <2>4, <1>1, <1>3 DEF ServiceRuns, Types
  <2>5. CASE StartAgent
    <3>1. "agent" \in running'[cur] /\ service'[cur]
      BY <2>5, <1>1 DEF StartAgent, Starts, Types
    <3> QED
      BY <2>5, <3>1, <1>1 DEF StartAgent
  <2>6. CASE StartProactive \/ DaemonUp
    <3>1. "agent" \in running'[cur] /\ service'[cur]
      BY <2>6, <1>1, <1>2 DEF StartProactive, DaemonUp
    <3> QED
      BY <2>6, <3>1, <1>1 DEF StartProactive, DaemonUp
  <2> QED
    BY <2>1, <2>2, <2>3, <2>4, <2>5, <2>6
<1> QED
  BY <1>5, <1>6, <1>7, <1>8 DEF IInv

(* The wait, or a start that raises, ends in a stop. *)
LEMMA StopBegins ==
  ASSUME IInv, StartRaises \/ WatchdogFires \/ Woken
  PROVE  IInv'
<1>1. /\ sup \in {"start", "wait"} /\ sup' = "stop" /\ at' = "tasks"
      /\ cur = built /\ cur \in Daemons
      /\ why' \in {"crash", "restart", "shutdown"}
      /\ UNCHANGED <<next, cur, built, running, service, lost>>
  BY DEF StartRaises, WatchdogFires, Woken, StopsFor, IInv, InHand
<1>2. /\ mishap' \in [Daemons -> SUBSET Mishaps]
      /\ \A d \in Daemons : d # cur => mishap'[d] = mishap[d]
  BY <1>1 DEF StartRaises, WatchdogFires, Woken, GoesWrong, IInv, Types, Mishaps
<1>3. ~service[cur] => /\ running[cur] \subseteq Producers
                       /\ running[cur] # {} => "half_started" \in mishap'[cur]
  <2>1. CASE StartRaises
    <3>1. at = "sources" => "half_started" \in mishap'[cur]
      BY <2>1, <1>1 DEF StartRaises, GoesWrong, IInv, Types
    <3> QED
      BY <2>1, <3>1 DEF StartRaises, IInv, StartedSoFar
  <2>2. CASE WatchdogFires \/ Woken
    BY <2>2 DEF WatchdogFires, Woken, IInv, UpSoFar
  <2> QED
    BY <2>1, <2>2
<1>4. Types' /\ InHand' /\ Unbuilt' /\ StartedSoFar' /\ UpSoFar' /\ LostOnlyAtTheEdges'
  BY <1>1, <1>2 DEF IInv, Types, InHand, Unbuilt, StartedSoFar, UpSoFar, LostOnlyAtTheEdges
<1>5. StoppedSoFar'
  BY <1>1, <1>3 DEF StoppedSoFar
<1>6. LeftoversExplained'
  BY <1>1, <1>2 DEF IInv, LeftoversExplained
<1> QED
  BY <1>4, <1>5, <1>6 DEF IInv

(* A step of the stop that goes on takes parts away. *)
LEMMA StopStep ==
  ASSUME IInv, StopTasks \/ StopAgent \/ StopSource
  PROVE  IInv'
<1> USE DEF StopAt
<1>1. /\ sup = "stop" /\ sup' = "stop" /\ cur = built /\ cur \in Daemons
      /\ UNCHANGED <<why, cur, built, service, mishap, lost>>
  BY DEF StopTasks, StopAgent, StopSource, IInv, InHand
<1>2. \A parts : Ends(parts) =>
        /\ running' \in [Daemons -> SUBSET Parts]
        /\ running'[cur] = running[cur] \ parts
        /\ \A d \in Daemons : d # cur => running'[d] = running[d]
  BY <1>1 DEF Ends, IInv, Types
<1>3. /\ running' \in [Daemons -> SUBSET Parts] /\ running'[cur] \subseteq running[cur]
      /\ \A d \in Daemons : d # cur => running'[d] = running[d]
  <2>1. PICK parts : Ends(parts)
    BY DEF StopTasks, StopAgent, StopSource
  <2> QED
    BY <1>2, <2>1
<1>4. next' \in Nat \ {0}
  BY DEF StopTasks, StopAgent, StopSource, IInv, Types
<1>5. Types' /\ InHand' /\ StartedSoFar' /\ UpSoFar' /\ LostOnlyAtTheEdges'
  BY <1>1, <1>3, <1>4
     DEF IInv, Types, InHand, StartedSoFar, UpSoFar, LostOnlyAtTheEdges
<1>6. Unbuilt'
  BY <1>1, <1>3 DEF IInv, Unbuilt, Daemons
<1>7. LeftoversExplained'
  BY <1>1, <1>3 DEF IInv, LeftoversExplained
<1>8. StoppedSoFar'
  <2>1. ~service'[cur'] => /\ running'[cur'] \subseteq Producers
                           /\ running'[cur'] # {} => "half_started" \in mishap'[cur']
    BY <1>1, <1>3 DEF IInv, StoppedSoFar
  <2>2. CASE StopTasks
    <3>1. running'[cur] = running[cur] \ {"status", "proactive"} /\ at' = "agent"
      BY <2>2, <1>2 DEF StopTasks
    <3>2. running'[cur] \subseteq Producers \union {"agent"}
      BY <3>1, <1>1, PartsAre DEF IInv, Types
    <3> QED
      BY <1>1, <2>1, <3>1, <3>2 DEF StoppedSoFar
  <2>3. CASE StopAgent
    <3>1. running'[cur] = running[cur] \ {"agent"} /\ at' = "sources" /\ next' = 1
      BY <2>3, <1>2 DEF StopAgent
    <3>2. running'[cur] \subseteq Producers
      BY <2>3, <3>1, <1>1 DEF StopAgent, IInv, StoppedSoFar
    <3>3. \A i \in DOMAIN Sources : ~(i < next')
      BY <3>1, SourcesAre
    <3> QED
      BY <1>1, <2>1, <3>1, <3>2, <3>3 DEF StoppedSoFar
  <2>4. CASE StopSource
    <3>1. /\ running'[cur] = running[cur] \ {Sources[next]} /\ at = "sources"
          /\ at' = "sources" /\ next' = next + 1 /\ service[cur]
      BY <2>4, <1>2 DEF StopSource
    <3>2. \A i \in DOMAIN Sources : i < next => Sources[i] \notin running[cur]
      BY <3>1, <1>1 DEF IInv, StoppedSoFar
    <3>3. ASSUME NEW i \in DOMAIN Sources, i < next + 1
          PROVE  Sources[i] \notin running'[cur]
      BY <3>1, <3>2, <3>3, SourcesAre DEF IInv, Types
    <3>4. running'[cur] \subseteq Producers
      BY <3>1, <1>1 DEF IInv, StoppedSoFar
    <3> QED
      BY <1>1, <2>1, <3>1, <3>3, <3>4 DEF StoppedSoFar
  <2> QED
    BY <2>2, <2>3, <2>4
<1> QED
  BY <1>5, <1>6, <1>7, <1>8 DEF IInv

(* The stop returns or raises, and the daemon is forgotten with what is     *)
(* explained of it.                                                         *)
LEMMA StopEnds ==
  ASSUME IInv,
         StopScheduler \/ StopFindsNoService \/ StopAgentRaises \/ StopSourceRaises
  PROVE  IInv'
<1> USE DEF StopAt
<1>1. /\ sup = "stop" /\ cur = built /\ cur \in Daemons
      /\ cur' = 0 /\ sup' \in {"done", "backoff", "top"}
      /\ UNCHANGED <<next, why, built, lost>>
  <2>1. sup = "stop" /\ AfterStop /\ UNCHANGED <<next, why, built, lost>>
    BY DEF StopScheduler, StopFindsNoService, StopAgentRaises, StopSourceRaises
  <2>2. cur' = 0 /\ sup' \in {"done", "backoff", "top"}
    BY <2>1 DEF AfterStop, IInv, Types
  <2> QED
    BY <2>1, <2>2 DEF IInv, InHand
<1>2. /\ running' \in [Daemons -> SUBSET Parts]
      /\ \A d \in Daemons : d # cur => running'[d] = running[d]
  BY <1>1 DEF StopScheduler, StopFindsNoService, StopAgentRaises, StopSourceRaises,
              Ends, IInv, Types
<1>3. /\ service' \in [Daemons -> BOOLEAN]
      /\ \A d \in Daemons : d # cur => service'[d] = service[d]
  BY <1>1 DEF StopScheduler, StopFindsNoService, StopAgentRaises, StopSourceRaises,
              IInv, Types
<1>4. /\ mishap' \in [Daemons -> SUBSET Mishaps]
      /\ \A d \in Daemons : d # cur => mishap'[d] = mishap[d]
  BY <1>1 DEF StopScheduler, StopFindsNoService, StopAgentRaises, StopSourceRaises,
              GoesWrong, IInv, Types, Mishaps
<1>5. running'[cur] # {} =>
        /\ mishap'[cur] \intersect {"half_started", "stop_raised"} # {}
        /\ running'[cur] \subseteq Producers
  <2>1. CASE StopScheduler
    <3>1. running'[cur] = running[cur] \ {"scheduler"} /\ next > Len(Sources)
          /\ service[cur] /\ at = "sources"
      BY <2>1, <1>1 DEF StopScheduler, Ends, IInv, Types
    <3>2. running[cur] \subseteq Producers
      BY <1>1, <3>1 DEF IInv, StoppedSoFar
    <3>3. \A i \in DOMAIN Sources : Sources[i] \notin running[cur]
      BY <1>1, <3>1, SourcesAre DEF IInv, StoppedSoFar, Types
    <3>4. running'[cur] = {}
      BY <3>1, <3>2, <3>3 DEF Producers, SourceSet
    <3> QED
      BY <3>4
  <2>2. CASE StopFindsNoService
    BY <2>2, <1>1 DEF StopFindsNoService, IInv, StoppedSoFar
  <2>3. CASE StopAgentRaises
    <3>1. running'[cur] = running[cur] \ {"agent"} /\ "stop_raised" \in mishap'[cur]
      BY <2>3, <1>1 DEF StopAgentRaises, Ends, GoesWrong, IInv, Types
    <3>2. running[cur] \subseteq Producers \union {"agent"}
      BY <2>3, <1>1 DEF StopAgentRaises, IInv, StoppedSoFar
    <3> QED
      BY <3>1, <3>2
  <2>4. CASE StopSourceRaises
    <3>1. running'[cur] = running[cur] /\ "stop_raised" \in mishap'[cur]
      BY <2>4, <1>1 DEF StopSourceRaises, GoesWrong, IInv, Types
    <3>2. running[cur] \subseteq Producers
      BY <2>4, <1>1 DEF StopSourceRaises, IInv, StoppedSoFar
    <3> QED
      BY <3>1, <3>2
  <2> QED
    BY <2>1, <2>2, <2>3, <2>4
<1>6. Types' /\ StartedSoFar' /\ UpSoFar' /\ StoppedSoFar' /\ LostOnlyAtTheEdges'
  BY <1>1, <1>2, <1>3, <1>4
     DEF IInv, Types, StartedSoFar, UpSoFar, StoppedSoFar, LostOnlyAtTheEdges
<1>7. InHand'
  BY <1>1 DEF IInv, Types, InHand
<1>8. Unbuilt'
  BY <1>1, <1>2, <1>3 DEF IInv, Unbuilt, Daemons
<1>9. LeftoversExplained'
  BY <1>1, <1>2, <1>4, <1>5 DEF IInv, LeftoversExplained
<1> QED
  BY <1>6, <1>7, <1>8, <1>9 DEF IInv

(* Whatever a cancellation leaves is put down to it. *)
LEMMA CancelledStep ==
  ASSUME IInv, Cancelled
  PROVE  IInv'
<1>1. /\ sup \in {"start", "wait", "stop", "backoff"} /\ sup' = "done"
      /\ cur' \in {0, cur} /\ UNCHANGED <<next, why, built, running, service, lost>>
  BY DEF Cancelled
<1>2. cur \in Daemons \union {0} /\ (cur = 0 <=> sup = "backoff")
  BY <1>1, SupervisorConstants DEF IInv, InHand, Daemons
<1>3. /\ mishap' \in [Daemons -> SUBSET Mishaps]
      /\ \A d \in Daemons : d # cur => mishap'[d] = mishap[d]
      /\ cur # 0 => "cancelled" \in mishap'[cur]
  BY <1>2 DEF Cancelled, GoesWrong, IInv, Types, Mishaps
<1>4. Types' /\ Unbuilt' /\ StartedSoFar' /\ UpSoFar' /\ StoppedSoFar' /\ LostOnlyAtTheEdges'
  BY <1>1, <1>3
     DEF IInv, Types, Unbuilt, StartedSoFar, UpSoFar, StoppedSoFar, LostOnlyAtTheEdges
<1>5. InHand'
  BY <1>1, <1>2 DEF IInv, InHand, Types
<1>6. LeftoversExplained'
  <2> SUFFICES ASSUME NEW d \in Daemons, running[d] # {}, "cancelled" \notin mishap'[d]
               PROVE  /\ mishap'[d] \intersect {"half_started", "stop_raised"} # {}
                      /\ running[d] \subseteq Producers
    BY <1>1 DEF LeftoversExplained
  <2>1. d # 0
    BY SupervisorConstants DEF Daemons
  <2>2. d # cur /\ mishap'[d] = mishap[d]
    BY <1>3, <2>1
  <2> QED
    BY <2>2 DEF IInv, LeftoversExplained
<1> QED
  BY <1>4, <1>5, <1>6 DEF IInv

(* What happens to a daemon that is up, and to events. *)
LEMMA UpStep ==
  ASSUME IInv,
         HeartbeatStalls \/ HeartbeatResumes \/ AgentDies \/ \E d \in Daemons : EventLost(d)
  PROVE  IInv'
<1>1. CASE HeartbeatStalls \/ HeartbeatResumes
  <2>1. UNCHANGED <<sup, at, next, why, cur, built, running, service, mishap, lost>>
    BY <1>1 DEF HeartbeatStalls, HeartbeatResumes
  <2> QED
    BY <2>1 DEF IInv, Types, InHand, Unbuilt, StartedSoFar, UpSoFar, StoppedSoFar,
                LeftoversExplained, LostOnlyAtTheEdges
<1>2. CASE AgentDies
  <2>1. /\ sup = "wait" /\ cur = built /\ cur \in Daemons
        /\ UNCHANGED <<sup, at, next, why, cur, built, service, lost>>
        /\ running' = [running EXCEPT ![cur] = @ \ {"agent"}]
        /\ mishap' = [mishap EXCEPT ![cur] = @ \union {"agent_died"}]
    BY <1>2 DEF AgentDies, Ends, GoesWrong, IInv, InHand
  <2>2. Types'
    BY <2>1 DEF IInv, Types, Mishaps
  <2>3. InHand' /\ StartedSoFar' /\ StoppedSoFar' /\ LostOnlyAtTheEdges'
    BY <2>1 DEF IInv, InHand, StartedSoFar, StoppedSoFar, LostOnlyAtTheEdges
  <2>4. Unbuilt' /\ UpSoFar' /\ LeftoversExplained'
    BY <2>1 DEF IInv, Types, Unbuilt, UpSoFar, LeftoversExplained, Daemons
  <2> QED
    BY <2>2, <2>3, <2>4 DEF IInv
<1>3. ASSUME NEW d \in Daemons, EventLost(d) PROVE IInv'
  <2>1. /\ UNCHANGED <<sup, at, next, why, cur, built, running, service, mishap>>
        /\ "agent" \notin running[d] /\ lost' = lost \union {Situation(d)}
    BY <1>3 DEF EventLost
  <2>2. Situation(d) # "settled"
    <3>1. CASE "agent_died" \in mishap[d]
      BY <3>1 DEF Situation
    <3>2. CASE "agent_died" \notin mishap[d] /\ (d # cur \/ sup = "done")
      BY <3>2 DEF Situation
    <3>3. CASE "agent_died" \notin mishap[d] /\ d = cur /\ sup # "done"
      <4>1. sup \in {"start", "stop"}
        BY <3>3, <2>1, SupervisorConstants DEF IInv, InHand, UpSoFar, Daemons
      <4> QED
        BY <3>3, <4>1 DEF Situation
    <3> QED
      BY <3>1, <3>2, <3>3
  <2>3. LostOnlyAtTheEdges'
    BY <2>1, <2>2 DEF IInv, LostOnlyAtTheEdges
  <2> QED
    BY <2>1, <2>3 DEF IInv, Types, InHand, Unbuilt, StartedSoFar, UpSoFar,
                      StoppedSoFar, LeftoversExplained
<1> QED
  BY <1>1, <1>2, <1>3

(* Every step keeps the invariant. *)
LEMMA NextInvariant == IInv /\ [Next]_vars => IInv'
<1> SUFFICES ASSUME IInv, [Next]_vars PROVE IInv'
  OBVIOUS
<1>1. CASE UNCHANGED vars
  BY <1>1 DEF vars, IInv, Types, InHand, Unbuilt, StartedSoFar, UpSoFar, StoppedSoFar,
              LeftoversExplained, LostOnlyAtTheEdges
<1>2. CASE Next
  BY <1>2, Requests, Between, StartStep, StopBegins, StopStep, StopEnds,
     CancelledStep, UpStep DEF Next
<1> QED
  BY <1>1, <1>2

-----------------------------------------------------------------------------
(* The invariant holds in every reachable state. *)
THEOREM Invariance == Spec => []IInv
  BY InitInvariant, NextInvariant, PTL DEF Spec

(* The small variables, of which IInv says little. *)
Ranges ==
  /\ at \in {"setup", "scheduler", "sources", "agent", "proactive", "up", "tasks"}
  /\ next \in 1..(Len(Sources) + 1)
  /\ shutdown \in BOOLEAN /\ restart \in BOOLEAN /\ fresh \in BOOLEAN
  /\ backoff \in 1..MaxBackoff
  /\ lost \subseteq Situations

(* The delay grows up to its limit. *)
LEMMA BackoffRange ==
  ASSUME NEW b \in 1..MaxBackoff
  PROVE  (IF b * Factor < MaxBackoff THEN b * Factor ELSE MaxBackoff) \in 1..MaxBackoff
<1>1. b * Factor \in Nat /\ b * Factor >= 1
  <2>1. \A m, n \in Nat \ {0} : m * n \in Nat /\ m * n >= 1
    OBVIOUS
  <2> QED
    BY <2>1, SupervisorConstants
<1> QED
  BY <1>1, SupervisorConstants

LEMMA RangesStep ==
  ASSUME Ranges, [Next]_vars
  PROVE  Ranges'
<1> USE SourcesAre DEF Ranges, StartAt, StopAt
<1>1. CASE \/ RequestShutdown \/ RequestRestart \/ Iterate \/ Exit \/ Setup
           \/ HeartbeatStalls \/ HeartbeatResumes
  BY <1>1 DEF RequestShutdown, RequestRestart, Iterate, Exit, Setup, HeartbeatStalls,
              HeartbeatResumes
<1>2. CASE \/ StartScheduler \/ StartSource \/ ServiceRuns \/ StartAgent
           \/ StartProactive \/ DaemonUp
  <2>1. /\ at' \in {"sources", "agent", "proactive", "up"}
        /\ next' \in {1, next} \/ (next' = next + 1 /\ next <= Len(Sources))
        /\ fresh' \in BOOLEAN /\ UNCHANGED <<shutdown, restart, backoff, lost>>
    BY <1>2 DEF StartScheduler, StartSource, ServiceRuns, StartAgent, StartProactive,
                DaemonUp
  <2> QED
    BY <2>1
<1>3. CASE StartRaises \/ WatchdogFires \/ Woken
  BY <1>3, SupervisorConstants DEF StartRaises, WatchdogFires, Woken, StopsFor
<1>4. CASE \/ StopTasks \/ StopAgent \/ StopSource \/ StopScheduler
           \/ StopFindsNoService \/ StopAgentRaises \/ StopSourceRaises
  BY <1>4 DEF StopTasks, StopAgent, StopSource, StopScheduler, StopFindsNoService,
              StopAgentRaises, StopSourceRaises
<1>5. CASE Backoff
  BY <1>5, BackoffRange DEF Backoff
<1>6. CASE Cancelled
  BY <1>6 DEF Cancelled
<1>7. CASE AgentDies
  BY <1>7 DEF AgentDies
<1>8. ASSUME NEW d \in Daemons, EventLost(d) PROVE Ranges'
  <2>1. Situation(d) \in Situations
    BY DEF Situation, Situations
  <2> QED
    BY <1>8, <2>1 DEF EventLost
<1>9. CASE UNCHANGED vars
  BY <1>9 DEF vars
<1> QED
  BY <1>1, <1>2, <1>3, <1>4, <1>5, <1>6, <1>7, <1>8, <1>9 DEF Next

(* Every variable keeps its type; the backoff never exceeds its limit, and  *)
(* the sources are gone through once.                                       *)
THEOREM TypeCorrect == Spec => []TypeOK
<1>1. Init => Ranges
  <2>1. 1 \in 1..MaxBackoff /\ 1 \in 1..(Len(Sources) + 1)
    BY SupervisorConstants, SourcesAre
  <2> QED
    BY <2>1 DEF Init, Ranges
<1>2. IInv /\ Ranges => TypeOK
  <2>1. cur \in Daemons \union {0} => cur \in 0..MaxDaemons
    BY SupervisorConstants DEF Daemons
  <2> QED
    BY <2>1 DEF IInv, Types, InHand, Ranges, TypeOK
<1> QED
  BY <1>1, <1>2, RangesStep, Invariance, PTL DEF Spec

(* Whatever the supervisor leaves behind of a daemon has one of the known   *)
(* causes, and is never an agent unless run() itself was cancelled.         *)
THEOREM Leftovers == Spec => []LeftoversExplained
<1>1. IInv => LeftoversExplained
  BY DEF IInv
<1> QED
  BY <1>1, Invariance, PTL

(* No event of a daemon that is up misses its agent. *)
THEOREM EventsReachTheAgent == Spec => []LostOnlyAtTheEdges
<1>1. IInv => LostOnlyAtTheEdges
  BY DEF IInv
<1> QED
  BY <1>1, Invariance, PTL

(* No daemon is built once a shutdown was requested. *)
THEOREM NoDaemonAfterShutdown == Spec => ShutdownWins
<1>1. [Next]_vars => [shutdown => built' = built]_vars
  <2> SUFFICES ASSUME Next, shutdown PROVE built' = built
    BY DEF vars
  <2>1. CASE RequestShutdown \/ RequestRestart \/ Iterate \/ Exit \/ Backoff
    BY <2>1 DEF RequestShutdown, RequestRestart, Iterate, Exit, Backoff
  <2>2. CASE \/ Setup \/ StartScheduler \/ StartSource \/ ServiceRuns \/ StartAgent
             \/ StartProactive \/ DaemonUp \/ StartRaises
    BY <2>2 DEF Setup, StartScheduler, StartSource, ServiceRuns, StartAgent,
                StartProactive, DaemonUp, StartRaises
  <2>3. CASE HeartbeatStalls \/ HeartbeatResumes \/ WatchdogFires \/ Woken \/ AgentDies
             \/ Cancelled
    BY <2>3 DEF HeartbeatStalls, HeartbeatResumes, WatchdogFires, Woken, AgentDies,
                Cancelled
  <2>4. CASE \/ StopTasks \/ StopAgent \/ StopSource \/ StopScheduler
             \/ StopFindsNoService \/ StopAgentRaises \/ StopSourceRaises
    BY <2>4 DEF StopTasks, StopAgent, StopSource, StopScheduler,
                StopFindsNoService, StopAgentRaises, StopSourceRaises
  <2>5. CASE \E d \in Daemons : EventLost(d)
    BY <2>5 DEF EventLost
  <2> QED
    BY <2>1, <2>2, <2>3, <2>4, <2>5 DEF Next
<1> QED
  BY <1>1, PTL DEF Spec, ShutdownWins
=============================================================================
