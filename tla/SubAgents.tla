----------------------------- MODULE SubAgents -----------------------------
(***************************************************************************)
(* Delegation to sub-agents: the spawner with its process-wide registry of *)
(* running children (sub_agent_spawner.py), the batch that runs them       *)
(* (tool_execution.py, parallel_agent_tool.py), the session each of them   *)
(* saves its pauses in, and the cooperative interrupt of the root agent    *)
(* (AgentExecutor.interrupt).                                              *)
(*                                                                         *)
(* Every sub-agent is a task of its own; a step below is what one of them  *)
(* does between two awaits.  What an agent thinks and which tools it calls *)
(* besides delegating is left open.                                        *)
(***************************************************************************)
EXTENDS Integers, Sequences, FiniteSets

CONSTANTS
  Root,           \* the agent the executor runs
  Spawns,         \* the delegations that may be made, again and again
  Parent,         \* Parent[s]: the agent that delegates s
  Specialist,     \* Specialist[s]: the label of s
  MaxSteps,       \* agent.max_steps
  MaxTurns,       \* bound: executions of the root's session
  MaxInterrupts   \* bound: calls of AgentExecutor.interrupt

Agents == Spawns \union {Root}

ASSUME SubAgentConstants ==
  /\ IsFiniteSet(Spawns) /\ Root \notin Spawns
  /\ Parent \in [Spawns -> Agents]
  /\ MaxSteps \in Nat \ {0}
  /\ MaxTurns \in Nat /\ MaxInterrupts \in Nat

(* The delegations form a tree below the root. *)
ASSUME DelegationsDescend ==
  \E depth \in [Agents -> 0 .. Cardinality(Spawns)] :
    \A s \in Spawns : depth[Parent[s]] < depth[s]

(* build_sub_agent_session_id: siblings of one label share their session. *)
Session[a \in Agents] ==
  IF a = Root THEN <<>> ELSE Append(Session[Parent[a]], Specialist[a])

Sessions == {Session[a] : a \in Agents}

VARIABLES
  phase,        \* phase[a]: where the run of agent a awaits
  steps,        \* steps[a]: the iterations of its ReAct loop
  flag,         \* flag[a]: _interrupt_event of the running agent object
  registry,     \* _ACTIVE_CHILDREN
  interrupted,  \* _INTERRUPTED_PARENTS
  stored,       \* stored[sid]: the pause that the session's file holds, and its step
  batch,        \* batch[s]: the turn whose batch of the root s was last part of
  turn,         \* the turns of the root's session so far
  deserted,     \* the turns whose caller left during a batch of tools
  permits,      \* permits[s]: those of the semaphore that s waits for or holds
  unheeded,     \* registered, though looking for an old question or clearing it failed
  interrupts    \* calls of interrupt() so far

runVars == <<phase, steps, flag>>
turnVars == <<batch, turn, deserted>>
spawnVars == <<permits, unheeded>>
vars == <<runVars, registry, interrupted, stored, turnVars, spawnVars, interrupts>>

(* off       not running                                                   *)
(* queued    waiting for a permit of the batch                             *)
(* creating  the factory creates the agent                                 *)
(* checking  _clear_stale_pause loads the session's state                  *)
(* clearing  and saves it without the question of an earlier run           *)
(* starting  registered; before the loop loads the state                   *)
(* loop, llm, tools   the top of the ReAct loop, its LLM call, its tools   *)
(* ended     the loop is over, mark_finished runs                          *)
(* closing   deregistered; agent.close() runs                              *)
Phases == {"off", "queued", "creating", "checking", "clearing", "starting", "loop", "llm",
           "tools", "ended", "closing"}
Pauses == [why : {"none", "question", "interrupt"}, step : 0 .. MaxSteps]
NotPaused == [why |-> "none", step |-> 0]

Active(s) == phase[s] \notin {"off", "queued"}
Registered(s) == phase[s] \in {"starting", "loop", "llm", "tools", "ended"}
Children(a) == {s \in Spawns : Parent[s] = a}

Init ==
  /\ phase = [a \in Agents |-> "off"]
  /\ steps = [a \in Agents |-> 0]
  /\ flag = [a \in Agents |-> FALSE]
  /\ registry = [sid \in Sessions |-> {}] /\ interrupted = {}
  /\ stored = [sid \in Sessions |-> NotPaused]
  /\ batch = [s \in Spawns |-> 0] /\ turn = 0 /\ deserted = {}
  /\ permits = [s \in Spawns |-> 0] /\ unheeded = {}
  /\ interrupts = 0

Goes(a, from, to) == phase[a] = from /\ phase' = [phase EXCEPT ![a] = to]

-----------------------------------------------------------------------------
(* save_state returns FALSE when it could not write, and nobody looks.     *)
Save(a, p) == stored' \in {stored, [stored EXCEPT ![Session[a]] = p]}

(* _load_and_resume_state: a paused run goes on where it was; a file that  *)
(* could not be read is taken for an empty one.                            *)
Load(a) == \E step \in {0, stored[Session[a]].step} : steps' = [steps EXCEPT ![a] = step]

(* execute_mission_streaming registers the root agent, its flag cleared.   *)
StartTurn ==
  /\ turn < MaxTurns
  /\ Goes(Root, "off", "loop")
  /\ turn' = turn + 1
  /\ Load(Root)
  /\ flag' = [flag EXCEPT ![Root] = FALSE]
  /\ UNCHANGED <<registry, interrupted, stored, batch, deserted, spawnVars, interrupts>>

(* The caller of the root's stream leaves.  The event pump awaits its      *)
(* batch with asyncio.wait, which does not cancel it: the sub-agents go on *)
(* without a parent.                                                       *)
Desert ==
  /\ phase[Root] \in {"loop", "llm", "tools"}
  /\ phase' = [phase EXCEPT ![Root] = "off"]
  /\ deserted' = IF phase[Root] = "tools" THEN deserted \union {turn} ELSE deserted
  /\ UNCHANGED <<steps, flag, registry, interrupted, stored, batch, turn, spawnVars, interrupts>>

(* AgentExecutor.interrupt for the root's session, at any time: the flag   *)
(* of the session, every registered child, the running agent.              *)
Interrupt ==
  /\ interrupts < MaxInterrupts
  /\ interrupts' = interrupts + 1
  /\ interrupted' = interrupted \union {Session[Root]}
  /\ flag' = [a \in Agents |-> \/ flag[a]
                               \/ a = Root /\ phase[Root] # "off"
                               \/ a \in registry[Session[Root]]]
  /\ UNCHANGED <<phase, steps, registry, stored, turnVars, spawnVars>>

-----------------------------------------------------------------------------
(* The ReAct loop, as far as delegation goes.  Where a sub-agent's run     *)
(* ends, it is still registered; the root's is gone from _active_agents.   *)
AfterRun(a) == IF a = Root THEN "off" ELSE "ended"

Think(a) ==
  /\ steps[a] < MaxSteps /\ ~flag[a]
  /\ Goes(a, "loop", "llm")
  /\ steps' = [steps EXCEPT ![a] = @ + 1]
  /\ UNCHANGED <<flag, registry, interrupted, stored, turnVars, spawnVars, interrupts>>

(* _handle_interrupt saves the pause and clears the flag. *)
Pause(a) ==
  /\ steps[a] < MaxSteps /\ flag[a]
  /\ Goes(a, "loop", AfterRun(a))
  /\ Save(a, [why |-> "interrupt", step |-> steps[a]])
  /\ flag' = [flag EXCEPT ![a] = FALSE]
  /\ UNCHANGED <<steps, registry, interrupted, turnVars, spawnVars, interrupts>>

(* ask_user ends the run too. *)
AskUser(a) ==
  /\ Goes(a, "llm", AfterRun(a))
  /\ Save(a, [why |-> "question", step |-> steps[a]])
  /\ UNCHANGED <<steps, flag, registry, interrupted, turnVars, spawnVars, interrupts>>

(* An answer, an error event or the step limit; the state is saved without *)
(* the pause the run may have come from.                                   *)
Finish(a) ==
  /\ \/ Goes(a, "llm", AfterRun(a))
     \/ steps[a] = MaxSteps /\ Goes(a, "loop", AfterRun(a))
  /\ Save(a, NotPaused)
  /\ UNCHANGED <<steps, flag, registry, interrupted, turnVars, spawnVars, interrupts>>

(* The load, a save or the loop itself raises: what was saved stays. *)
Raises(a) ==
  /\ phase[a] \in {"starting", "loop", "llm"}
  /\ phase' = [phase EXCEPT ![a] = AfterRun(a)]
  /\ unheeded' = unheeded \ {a}
  /\ UNCHANGED <<steps, flag, registry, interrupted, stored, turnVars, permits, interrupts>>

(* The LLM's answer calls for delegations; the tools of the batch start,   *)
(* below that of the root that a itself is part of.  How many permits the  *)
(* semaphore has is up to the LLM (max_concurrency), 0 included; more than *)
(* there are delegations make no difference.                               *)
Delegate(a, chosen, limit) ==
  /\ phase[a] = "llm"
  /\ chosen # {} /\ \A s \in chosen : phase[s] = "off"
  /\ phase' = [x \in Agents |-> IF x = a THEN "tools"
                                ELSE IF x \in chosen THEN "queued" ELSE phase[x]]
  /\ batch' = [s \in Spawns |-> IF s \notin chosen THEN batch[s]
                              ELSE IF a = Root THEN turn ELSE batch[a]]
  /\ permits' = [s \in Spawns |-> IF s \in chosen THEN limit ELSE permits[s]]
  /\ UNCHANGED <<steps, flag, registry, interrupted, stored, turn, deserted, unheeded, interrupts>>

(* The delegations of a's open batch. *)
Batch(a) == {s \in Children(a) : a = Root => batch[s] = turn}

BatchDone(a) ==
  /\ \A s \in Batch(a) : phase[s] = "off"
  /\ Goes(a, "tools", "loop")
  /\ UNCHANGED <<steps, flag, registry, interrupted, stored, turnVars, spawnVars, interrupts>>

-----------------------------------------------------------------------------
(* Mutant of Holders: whoever waits for a permit counts too. *)
HoldersAndWaiters(s) == {q \in Children(Parent[s]) : batch[q] = batch[s] /\ phase[q] # "off"}

(* Who holds a permit of the batch's semaphore. *)
Holders(s) == {q \in Children(Parent[s]) : batch[q] = batch[s] /\ Active(q)}

(* spawn, once there is a permit. *)
Acquire(s) ==
  /\ Cardinality(Holders(s)) < permits[s]
  /\ Goes(s, "queued", "creating")
  /\ UNCHANGED <<steps, flag, registry, interrupted, stored, turnVars, spawnVars, interrupts>>

(* The agent object is gone, its permit given back. *)
Leaves(s, from) ==
  /\ Goes(s, from, "off")
  /\ steps' = [steps EXCEPT ![s] = 0] /\ flag' = [flag EXCEPT ![s] = FALSE]
  /\ permits' = [permits EXCEPT ![s] = 0]
  /\ UNCHANGED <<registry, interrupted, stored, turnVars, unheeded, interrupts>>

(* An unknown specialist, an MCP server that does not start, a save that   *)
(* raises: the failure is a result like any other.                         *)
SpawnFails(s) == Leaves(s, "creating") \/ Leaves(s, "clearing")

Created(s) ==
  /\ Goes(s, "creating", "checking")
  /\ UNCHANGED <<steps, flag, registry, interrupted, stored, turnVars, spawnVars, interrupts>>

(* _clear_stale_pause finds a question. *)
FindStale(s) ==
  /\ stored[Session[s]].why = "question"
  /\ Goes(s, "checking", "clearing")
  /\ UNCHANGED <<steps, flag, registry, interrupted, stored, turnVars, spawnVars, interrupts>>

(* Mutant of RegisterChild: the flag of the parent's session is not read. *)
RegisterUntold(s) ==
  /\ phase' = [phase EXCEPT ![s] = "starting"]
  /\ registry' = [registry EXCEPT ![Session[Parent[s]]] = @ \union {s}]
  /\ UNCHANGED <<steps, flag, interrupted, turnVars, permits, interrupts>>

(* _register_child, and the interrupt of a child of a flagged session. *)
RegisterChild(s) ==
  /\ phase' = [phase EXCEPT ![s] = "starting"]
  /\ registry' = [registry EXCEPT ![Session[Parent[s]]] = @ \union {s}]
  /\ flag' = [flag EXCEPT ![s] = @ \/ Session[Parent[s]] \in interrupted]
  /\ UNCHANGED <<steps, interrupted, turnVars, permits, interrupts>>

(* Mutant of RegisterClean: the question of an earlier run is left. *)
RegisterStale(s) ==
  /\ phase[s] \in {"checking", "clearing"}
  /\ UNCHANGED <<stored, unheeded>>

(* _clear_stale_pause found no question, or saved the state without it.    *)
RegisterClean(s) ==
  /\ \/ phase[s] = "checking" /\ stored[Session[s]].why # "question" /\ UNCHANGED stored
     \/ phase[s] = "clearing" /\ stored' = [stored EXCEPT ![Session[s]] = NotPaused]
  /\ UNCHANGED unheeded

(* It could not read the file and returned, or save_state returned FALSE.  *)
RegisterUnheeding(s) ==
  /\ \/ phase[s] = "checking" /\ stored[Session[s]].why = "question"
     \/ phase[s] = "clearing"
  /\ unheeded' = unheeded \union {s}
  /\ UNCHANGED stored

(* Nothing is awaited between the end of _clear_stale_pause and the        *)
(* registration.                                                           *)
Register(s) == RegisterChild(s) /\ (RegisterClean(s) \/ RegisterUnheeding(s))

(* execute_stream loads the state and goes on where its pause was; if that *)
(* was a question, the mission is taken for its answer.                    *)
Begin(s) ==
  /\ Goes(s, "starting", "loop")
  /\ Load(s)
  /\ unheeded' = unheeded \ {s}
  /\ UNCHANGED <<flag, registry, interrupted, stored, turnVars, permits, interrupts>>

(* _deregister_child: the last one takes the session's flag along. *)
Deregister(s) ==
  LET sid == Session[Parent[s]] IN
  /\ Goes(s, "ended", "closing")
  /\ registry' = [registry EXCEPT ![sid] = @ \ {s}]
  /\ interrupted' = IF registry[sid] \subseteq {s} THEN interrupted \ {sid} ELSE interrupted
  /\ UNCHANGED <<steps, flag, stored, turnVars, spawnVars, interrupts>>

Closed(s) == Leaves(s, "closing")

-----------------------------------------------------------------------------
Loop(a) ==
  \/ Think(a) \/ Pause(a) \/ AskUser(a) \/ Finish(a) \/ Raises(a) \/ BatchDone(a)
  \/ \E chosen \in SUBSET Children(a) :
       \E limit \in 0 .. Cardinality(chosen) : Delegate(a, chosen, limit)

Spawn(s) ==
  \/ Acquire(s) \/ SpawnFails(s) \/ Created(s) \/ FindStale(s) \/ Register(s)
  \/ Begin(s) \/ Deregister(s) \/ Closed(s)

Next ==
  \/ StartTurn \/ Desert \/ Interrupt
  \/ \E a \in Agents : Loop(a)
  \/ \E s \in Spawns : Spawn(s)

(* Every task is scheduled, and LLM calls and tools return.  Nothing makes *)
(* anyone start a turn, leave or interrupt.                                *)
Fairness ==
  /\ WF_vars(Loop(Root))
  /\ \A s \in Spawns : WF_vars(Loop(s) \/ Spawn(s))

Spec == Init /\ [][Next]_vars
FairSpec == Spec /\ Fairness

-----------------------------------------------------------------------------
(* The state of the delegations is well formed. *)
TypeOK ==
  /\ phase \in [Agents -> Phases] /\ steps \in [Agents -> 0 .. MaxSteps]
  /\ flag \in [Agents -> BOOLEAN]
  /\ registry \in [Sessions -> SUBSET Spawns] /\ interrupted \subseteq Sessions
  /\ stored \in [Sessions -> Pauses]
  /\ batch \in [Spawns -> 0 .. MaxTurns] /\ turn \in 0 .. MaxTurns
  /\ deserted \subseteq 1 .. MaxTurns
  /\ permits \in [Spawns -> Nat] /\ unheeded \subseteq Spawns
  /\ interrupts \in 0 .. MaxInterrupts

(* The agent of s was told to pause, or has ended its run. *)
Told(s) == flag[s] \/ phase[s] = "ended"

(* While a session's flag stands, each of its registered children has been *)
(* told, those that registered after the interrupt included.               *)
FlagReachesChildren ==
  \A s \in Spawns :
    Registered(s) /\ Session[Parent[s]] \in interrupted => Told(s)

(* A reused session is safe while its delegations come one after another:  *)
(* a mission is taken for the answer to an old question only where a       *)
(* sibling of the same specialist was delegated with it, or one of the two *)
(* belongs to a batch whose caller left, or the look at the session's file *)
(* or the save that removes the question failed.                           *)
ReplayNeedsSibling ==
  [][ \A s \in Spawns :
        /\ phase[s] = "starting" /\ phase'[s] = "loop"
        /\ stored[Session[s]].why = "question" /\ s \notin unheeded
        => \E q \in Spawns \ {s} :
             /\ Session[q] = Session[s]
             /\ (batch[q] = batch[s] \/ batch[q] \in deserted \/ batch[s] \in deserted) ]_vars

(* The delegations that s runs for, itself included. *)
Line[a \in Agents] == IF a = Root THEN {} ELSE {a} \union Line[Parent[a]]

(* Something that s, or whoever holds a permit s waits for, waits for was  *)
(* given a semaphore without permits.                                      *)
Starved(s) ==
  \E q \in Spawns :
    /\ phase[q] = "queued" /\ permits[q] = 0
    /\ \E r \in Line[q] : Parent[r] = Parent[s] /\ batch[r] = batch[s]

(* Every delegation returns: no permit, registration or batch is left      *)
(* behind by failures, pauses and callers that leave.  Only under a batch  *)
(* that was given no permits does it wait for ever.                        *)
EveryDelegationReturns ==
  \A s \in Spawns : phase[s] # "off" ~> phase[s] = "off" \/ Starved(s)

=============================================================================
