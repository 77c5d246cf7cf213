-------------------------- MODULE SubAgents_proofs --------------------------
(***************************************************************************)
(* What delegation to sub-agents promises, for any tree of delegations, any *)
(* numbers of steps, turns and interrupts: FlagReachesChildren, from the  *)
(* invariant IInv, and ReplayNeedsSibling, from the invariant TInv, which  *)
(* says where in the tree a delegation may still be under way.             *)
(***************************************************************************)
EXTENDS SubAgents, FiniteSetTheorems, SequenceTheorems, NaturalsInduction,
        WellFoundedInduction, TLAPS

(* Nothing is under way before the first turn. *)
Started == turn = 0 => phase[Root] = "off"

(* Whoever is registered is found under its parent's session. *)
Entered == \A s \in Spawns : Registered(s) => s \in registry[Session[Parent[s]]]

IInv == TypeOK /\ Started /\ Entered /\ FlagReachesChildren

-----------------------------------------------------------------------------
(* Agents, parents and sessions go together. *)
LEMMA Family ==
  /\ Root \in Agents /\ \A s \in Spawns : s \in Agents /\ s # Root /\ Parent[s] \in Agents
  /\ \A a \in Agents : Session[a] \in Sessions
  /\ \A a \in Agents : a # Root => a \in Spawns
  BY SubAgentConstants DEF Agents, Sessions

LEMMA NotPausedType == NotPaused \in Pauses
  BY SubAgentConstants DEF NotPaused, Pauses

LEMMA InitInvariant == Init => IInv
<1> SUFFICES ASSUME Init PROVE IInv
  OBVIOUS
<1> USE SubAgentConstants
<1>1. TypeOK
  <2>1. /\ phase \in [Agents -> Phases] /\ steps \in [Agents -> 0 .. MaxSteps]
        /\ batch \in [Spawns -> 0 .. MaxTurns] /\ turn \in 0 .. MaxTurns
        /\ interrupts \in 0 .. MaxInterrupts
        /\ permits \in [Spawns -> Nat] /\ unheeded \subseteq Spawns
    BY DEF Init, Phases
  <2>2. stored \in [Sessions -> Pauses]
    BY NotPausedType DEF Init
  <2>3. flag \in [Agents -> BOOLEAN] /\ registry \in [Sessions -> SUBSET Spawns]
        /\ interrupted \subseteq Sessions /\ deserted \subseteq 1 .. MaxTurns
    BY DEF Init
  <2> QED
    BY <2>1, <2>2, <2>3 DEF TypeOK
<1>2. Started /\ \A s \in Spawns : ~Registered(s)
  BY Family DEF Started, Init, Registered
<1> QED
  BY <1>1, <1>2 DEF IInv, Entered, FlagReachesChildren

(* A step that changes neither the registry nor the flags of sessions keeps *)
(* children told, if it registers nobody and takes no flag from one who is  *)
(* registered and goes on.                                                  *)
LEMMA Unregistered ==
  ASSUME Entered, FlagReachesChildren, UNCHANGED <<registry, interrupted>>,
         \A s \in Spawns : Registered(s)' => Registered(s) /\ (Told(s) => Told(s)')
  PROVE  Entered' /\ FlagReachesChildren'
  BY DEF Entered, FlagReachesChildren

(* A run that goes from one await to the next. *)
LEMMA Going ==
  ASSUME TypeOK, NEW a \in Agents, NEW from \in Phases, NEW to \in Phases, Goes(a, from, to)
  PROVE  /\ phase' \in [Agents -> Phases]
         /\ phase[a] = from /\ phase'[a] = to
         /\ \A x \in Agents : x # a => phase'[x] = phase[x]
  BY DEF Goes, TypeOK

LEMMA AfterRunPhase ==
  \A a \in Agents : AfterRun(a) \in Phases /\ (a # Root => AfterRun(a) = "ended")
  BY DEF AfterRun, Phases

(* A run that is under way shows that a turn has begun, if it is the root's. *)
LEMMA StaysStarted ==
  ASSUME Started, turn' = turn, NEW a \in Agents, phase[a] # "off",
         \A x \in Agents : x # a => (phase'[x] = "off" <=> phase[x] = "off")
  PROVE  Started'
  BY Family DEF Started

(* A step of the loop, or of a spawn, from one await to the next.          *)
LEMMA AwaitStep ==
  ASSUME IInv, NEW a \in Agents, NEW from \in Phases \ {"off"}, NEW to \in Phases,
         Goes(a, from, to),
         UNCHANGED <<registry, interrupted, turnVars, interrupts>>,
         permits' \in [Spawns -> Nat], unheeded' \subseteq Spawns,
         steps' \in [Agents -> 0 .. MaxSteps], flag' \in [Agents -> BOOLEAN],
         stored' \in [Sessions -> Pauses],
         \A x \in Agents : x # a => flag'[x] = flag[x],
         to \in {"starting", "loop", "llm", "tools", "ended"} =>
           /\ from \in {"starting", "loop", "llm", "tools"}
           /\ to = "ended" \/ flag'[a] = flag[a]
  PROVE  IInv'
<1> USE DEF IInv
<1>1. /\ phase' \in [Agents -> Phases] /\ phase[a] = from /\ phase'[a] = to
      /\ \A x \in Agents : x # a => phase'[x] = phase[x]
  BY Going
<1>2. TypeOK'
  BY <1>1 DEF TypeOK, turnVars
<1>3. Started'
  BY <1>1, StaysStarted DEF turnVars
<1>4. ASSUME NEW s \in Spawns, Registered(s)'
      PROVE  Registered(s) /\ (Told(s) => Told(s)')
  <2>1. CASE s = a
    BY <1>1, <1>4, <2>1, Family DEF Registered, Told
  <2>2. CASE s # a
    BY <1>1, <1>4, <2>2, Family DEF Registered, Told
  <2> QED
    BY <2>1, <2>2
<1> QED
  BY <1>2, <1>3, <1>4, Unregistered

LEMMA LoadType ==
  ASSUME TypeOK, NEW a \in Agents, Load(a)
  PROVE  steps' \in [Agents -> 0 .. MaxSteps]
<1>1. stored[Session[a]].step \in 0 .. MaxSteps /\ 0 \in 0 .. MaxSteps
  BY Family, SubAgentConstants DEF TypeOK, Pauses
<1>2. PICK step \in 0 .. MaxSteps : steps' = [steps EXCEPT ![a] = step]
  BY <1>1 DEF Load
<1> QED
  BY <1>2 DEF TypeOK

LEMMA SaveType ==
  ASSUME TypeOK, NEW a \in Agents, NEW p \in Pauses, Save(a, p)
  PROVE  stored' \in [Sessions -> Pauses]
  BY Family DEF Save, TypeOK

LEMMA StartTurnStep ==
  ASSUME IInv, StartTurn
  PROVE  IInv'
<1> USE DEF IInv, StartTurn
<1>1. Root \in Agents /\ "off" \in Phases /\ "loop" \in Phases
  BY Family DEF Phases
<1>2. /\ phase' \in [Agents -> Phases]
      /\ \A x \in Agents : x # Root => phase'[x] = phase[x]
  BY <1>1, Going
<1>3. steps' \in [Agents -> 0 .. MaxSteps]
  BY <1>1, LoadType
<1>4. flag' \in [Agents -> BOOLEAN]
  BY <1>1 DEF TypeOK
<1>5. turn' \in 0 .. MaxTurns /\ turn' # 0
  BY SubAgentConstants DEF TypeOK
<1>6. TypeOK'
  BY <1>2, <1>3, <1>4, <1>5 DEF TypeOK, spawnVars
<1>7. \A s \in Spawns : phase'[s] = phase[s] /\ flag'[s] = flag[s]
  BY <1>1, <1>2, Family DEF TypeOK
<1>8. Entered' /\ FlagReachesChildren'
  BY <1>7, Unregistered DEF Registered, Told
<1> QED
  BY <1>5, <1>6, <1>8 DEF Started

LEMMA DesertStep ==
  ASSUME IInv, Desert
  PROVE  IInv'
<1> USE DEF IInv, Desert
<1>1. Root \in Agents /\ "off" \in Phases /\ turn # 0
  BY Family DEF Phases, Started
<1>2. /\ phase' \in [Agents -> Phases]
      /\ \A s \in Spawns : phase'[s] = phase[s]
  BY <1>1, Family DEF TypeOK
<1>3. deserted' \subseteq 1 .. MaxTurns
  BY <1>1, SubAgentConstants DEF TypeOK
<1>4. TypeOK'
  BY <1>2, <1>3 DEF TypeOK, spawnVars
<1>5. Entered' /\ FlagReachesChildren'
  BY <1>2, Unregistered DEF Registered, Told
<1> QED
  BY <1>1, <1>4, <1>5 DEF Started

(* Whoever is registered under the root's session is told; whoever is      *)
(* under another flagged session has been told before.                     *)
LEMMA InterruptStep ==
  ASSUME IInv, Interrupt
  PROVE  IInv'
<1> USE DEF IInv, Interrupt
<1>1. flag' \in [Agents -> BOOLEAN] /\ interrupts' \in 0 .. MaxInterrupts
  BY SubAgentConstants DEF TypeOK
<1>2. interrupted' \subseteq Sessions
  BY Family DEF TypeOK
<1>3. TypeOK'
  BY <1>1, <1>2 DEF TypeOK, turnVars, spawnVars
<1>4. Started' /\ Entered'
  BY DEF Started, Entered, Registered, turnVars
<1>5. ASSUME NEW s \in Spawns, Registered(s)', (Session[Parent[s]] \in interrupted)'
      PROVE  Told(s)'
  <2>1. Registered(s) /\ s \in registry[Session[Parent[s]]]
    BY <1>5 DEF Registered, Entered
  <2>2. CASE Session[Parent[s]] \in interrupted
    BY <2>1, <2>2, Family DEF FlagReachesChildren, Told
  <2>3. CASE Session[Parent[s]] = Session[Root]
    BY <2>1, <2>3, Family DEF Told
  <2> QED
    BY <1>5, <2>2, <2>3
<1> QED
  BY <1>3, <1>4, <1>5 DEF FlagReachesChildren

LEMMA PermitsAreNatural ==
  ASSUME NEW a \in Agents, NEW chosen \in SUBSET Children(a)
  PROVE  0 .. Cardinality(chosen) \subseteq Nat
<1>1. IsFiniteSet(chosen)
  BY SubAgentConstants, FS_Subset DEF Children
<1>2. Cardinality(chosen) \in Nat
  BY <1>1, FS_CardinalityType
<1> QED
  BY <1>2

LEMMA DelegateStep ==
  ASSUME IInv, NEW a \in Agents, NEW chosen \in SUBSET Children(a), NEW limit \in Nat,
         Delegate(a, chosen, limit)
  PROVE  IInv'
<1> USE DEF IInv, Delegate
<1>1. chosen \subseteq Spawns /\ \A s \in chosen : phase[s] = "off"
  BY DEF Children
<1>2. phase' \in [Agents -> Phases]
  BY DEF TypeOK, Phases
<1>3. batch' \in [Spawns -> 0 .. MaxTurns] /\ permits' \in [Spawns -> Nat]
  BY Family DEF TypeOK
<1>4. TypeOK'
  BY <1>2, <1>3 DEF TypeOK
<1>5. Started'
  BY <1>1, Family DEF Started
<1>6. ASSUME NEW s \in Spawns, Registered(s)'
      PROVE  Registered(s) /\ (Told(s) => Told(s)')
  BY <1>1, <1>6, Family DEF Registered, Told
<1> QED
  BY <1>4, <1>5, <1>6, Unregistered

(* The registry and the flag are read and written in one step.             *)
LEMMA RegisterStep ==
  ASSUME IInv, NEW s \in Spawns, Register(s)
  PROVE  IInv'
<1> USE DEF IInv
<1>1. phase[s] \in {"checking", "clearing"} /\ RegisterChild(s)
  BY DEF Register, RegisterClean, RegisterUnheeding
<1>2. stored' \in [Sessions -> Pauses] /\ unheeded' \subseteq Spawns
  BY Family, NotPausedType DEF Register, RegisterClean, RegisterUnheeding, TypeOK
<1> DEFINE sid == Session[Parent[s]]
<1>3. s \in Agents /\ s # Root /\ sid \in Sessions /\ Root \in Agents
  BY Family
<1>4. /\ phase' \in [Agents -> Phases] /\ phase'[s] = "starting"
      /\ \A x \in Agents : x # s => phase'[x] = phase[x]
  BY <1>1, <1>3 DEF RegisterChild, TypeOK, Phases
<1>5. /\ registry' \in [Sessions -> SUBSET Spawns] /\ s \in registry'[sid]
      /\ \A x \in Sessions : registry[x] \subseteq registry'[x]
  BY <1>1, <1>3 DEF RegisterChild, TypeOK
<1>6. /\ flag' \in [Agents -> BOOLEAN]
      /\ sid \in interrupted => flag'[s]
      /\ \A x \in Agents : x # s => flag'[x] = flag[x]
  BY <1>1, <1>3 DEF RegisterChild, TypeOK
<1>7. TypeOK'
  BY <1>1, <1>2, <1>4, <1>5, <1>6 DEF TypeOK, RegisterChild, turnVars
<1>8. Started'
  BY <1>1, <1>3, <1>4 DEF Started, RegisterChild, turnVars
<1>9. ASSUME NEW q \in Spawns, Registered(q)'
      PROVE  /\ (q \in registry[Session[Parent[q]]])'
             /\ (Session[Parent[q]] \in interrupted)' => Told(q)'
  <2>1. CASE q = s
    BY <1>1, <1>5, <1>6, <2>1 DEF RegisterChild, Told
  <2>2. CASE q # s
    <3>1. Registered(q) /\ (Told(q) => Told(q)')
      BY <1>4, <1>6, <1>9, <2>2, Family DEF Registered, Told
    <3> QED
      BY <1>1, <1>5, <3>1, Family DEF Entered, FlagReachesChildren, RegisterChild
  <2> QED
    BY <2>1, <2>2
<1> QED
  BY <1>7, <1>8, <1>9 DEF Entered, FlagReachesChildren

(* Only s leaves the registry, and a session loses its flag, if any.       *)
LEMMA DeregisterStep ==
  ASSUME IInv, NEW s \in Spawns, Deregister(s)
  PROVE  IInv'
<1> USE DEF IInv
<1> DEFINE sid == Session[Parent[s]]
<1>1. s \in Agents /\ s # Root /\ sid \in Sessions /\ Root \in Agents
  BY Family
<1>2. /\ phase' \in [Agents -> Phases] /\ phase[s] = "ended" /\ phase'[s] = "closing"
      /\ \A x \in Agents : x # s => phase'[x] = phase[x]
  <2>1. "ended" \in Phases /\ "closing" \in Phases
    BY DEF Phases
  <2> QED
    BY <1>1, <2>1, Going DEF Deregister
<1>3. /\ registry' \in [Sessions -> SUBSET Spawns]
      /\ \A x \in Sessions : registry[x] \ {s} \subseteq registry'[x]
  BY <1>1 DEF Deregister, TypeOK
<1>4. interrupted' \subseteq interrupted
  BY DEF Deregister
<1>5. TypeOK'
  BY <1>2, <1>3, <1>4 DEF TypeOK, Deregister, turnVars, spawnVars
<1>6. Started'
  BY <1>1, <1>2 DEF Started, Deregister, turnVars
<1>7. ASSUME NEW q \in Spawns, Registered(q)'
      PROVE  /\ (q \in registry[Session[Parent[q]]])'
             /\ (Session[Parent[q]] \in interrupted)' => Told(q)'
  <2>1. q # s
    BY <1>2, <1>7 DEF Registered
  <2>2. Registered(q) /\ (Told(q) => Told(q)')
    BY <1>2, <1>7, <2>1, Family DEF Registered, Told, Deregister
  <2> QED
    BY <1>3, <1>4, <2>1, <2>2, Family DEF Entered, FlagReachesChildren
<1> QED
  BY <1>5, <1>6, <1>7 DEF Entered, FlagReachesChildren

(* One iteration after the other: whoever paused has ended its run.        *)
LEMMA LoopStep ==
  ASSUME IInv, NEW a \in Agents, Loop(a)
  PROVE  IInv'
<1> USE DEF IInv
<1>1. /\ steps \in [Agents -> 0 .. MaxSteps] /\ flag \in [Agents -> BOOLEAN]
      /\ stored \in [Sessions -> Pauses] /\ steps[a] \in 0 .. MaxSteps
      /\ Session[a] \in Sessions
      /\ permits \in [Spawns -> Nat] /\ unheeded \subseteq Spawns
      /\ UNCHANGED spawnVars => permits' = permits /\ unheeded' = unheeded
  BY Family DEF TypeOK, spawnVars
<1>2. {"loop", "llm", "tools", "starting", "ended"} \subseteq Phases \ {"off"}
  BY DEF Phases
<1>3. AfterRun(a) \in Phases /\ AfterRun(a) \in {"off", "ended"}
  BY DEF AfterRun, Phases
<1>4. CASE Think(a)
  <2>1. steps' \in [Agents -> 0 .. MaxSteps]
    BY <1>1, <1>4, SubAgentConstants DEF Think
  <2> QED
    BY <1>1, <1>2, <1>4, <2>1, AwaitStep DEF Think
<1>5. CASE Pause(a)
  <2>1. [why |-> "interrupt", step |-> steps[a]] \in Pauses
    BY <1>1 DEF Pauses
  <2>2. /\ stored' \in [Sessions -> Pauses] /\ flag' \in [Agents -> BOOLEAN]
        /\ \A x \in Agents : x # a => flag'[x] = flag[x]
    BY <1>1, <1>5, <2>1, SaveType DEF Pause
  <2> QED
    BY <1>1, <1>2, <1>3, <1>5, <2>2, AwaitStep DEF Pause
<1>6. CASE AskUser(a)
  <2>1. [why |-> "question", step |-> steps[a]] \in Pauses
    BY <1>1 DEF Pauses
  <2>2. stored' \in [Sessions -> Pauses]
    BY <1>6, <2>1, SaveType DEF AskUser
  <2> QED
    BY <1>1, <1>2, <1>3, <1>6, <2>2, AwaitStep DEF AskUser
<1>7. CASE Finish(a)
  <2>1. stored' \in [Sessions -> Pauses]
    BY <1>7, NotPausedType, SaveType DEF Finish
  <2> QED
    BY <1>1, <1>2, <1>3, <1>7, <2>1, AwaitStep DEF Finish
<1>8. CASE Raises(a)
  <2>1. phase[a] \in Phases \ {"off"} /\ Goes(a, phase[a], AfterRun(a))
    BY <1>2, <1>8 DEF Raises, Goes
  <2> QED
    BY <1>1, <1>3, <1>8, <2>1, AwaitStep DEF Raises
<1>9. CASE BatchDone(a)
  BY <1>1, <1>2, <1>9, AwaitStep DEF BatchDone
<1>10. CASE \E chosen \in SUBSET Children(a) :
               \E limit \in 0 .. Cardinality(chosen) : Delegate(a, chosen, limit)
  <2>1. PICK chosen \in SUBSET Children(a) :
               \E limit \in 0 .. Cardinality(chosen) : Delegate(a, chosen, limit)
    BY <1>10
  <2>2. PICK limit \in Nat : Delegate(a, chosen, limit)
    BY <2>1, PermitsAreNatural
  <2> QED
    BY <2>1, <2>2, DelegateStep
<1> QED
  BY <1>4, <1>5, <1>6, <1>7, <1>8, <1>9, <1>10 DEF Loop

LEMMA SpawnStep ==
  ASSUME IInv, NEW s \in Spawns, Spawn(s)
  PROVE  IInv'
<1> USE DEF IInv
<1>1. /\ steps \in [Agents -> 0 .. MaxSteps] /\ flag \in [Agents -> BOOLEAN]
      /\ stored \in [Sessions -> Pauses] /\ s \in Agents
      /\ permits \in [Spawns -> Nat] /\ unheeded \subseteq Spawns
      /\ UNCHANGED spawnVars => permits' = permits /\ unheeded' = unheeded
  BY Family DEF TypeOK, spawnVars
<1>2. /\ "off" \in Phases
      /\ {"queued", "creating", "checking", "clearing", "starting", "loop", "closing"}
           \subseteq Phases \ {"off"}
  BY DEF Phases
<1>3. CASE Acquire(s)
  BY <1>1, <1>2, <1>3, AwaitStep DEF Acquire
<1>4. CASE SpawnFails(s) \/ Closed(s)
  <2>1. PICK from \in {"creating", "clearing", "closing"} : Leaves(s, from)
    BY <1>4 DEF SpawnFails, Closed
  <2>2. from \in Phases \ {"off"}
    BY <1>2
  <2>3. /\ flag' \in [Agents -> BOOLEAN] /\ \A x \in Agents : x # s => flag'[x] = flag[x]
        /\ steps' \in [Agents -> 0 .. MaxSteps] /\ permits' \in [Spawns -> Nat]
    BY <1>1, <2>1, SubAgentConstants DEF Leaves
  <2> QED
    BY <1>1, <1>2, <2>1, <2>2, <2>3, AwaitStep DEF Leaves
<1>5. CASE Created(s)
  BY <1>1, <1>2, <1>5, AwaitStep DEF Created
<1>6. CASE FindStale(s)
  BY <1>1, <1>2, <1>6, AwaitStep DEF FindStale
<1>7. CASE Register(s)
  BY <1>7, RegisterStep
<1>8. CASE Begin(s)
  <2>1. steps' \in [Agents -> 0 .. MaxSteps]
    BY <1>1, <1>8, LoadType DEF Begin
  <2> QED
    BY <1>1, <1>2, <1>8, <2>1, AwaitStep DEF Begin
<1>9. CASE Deregister(s)
  BY <1>9, DeregisterStep
<1> QED
  BY <1>3, <1>4, <1>5, <1>6, <1>7, <1>8, <1>9 DEF Spawn

LEMMA NextInvariant == IInv /\ [Next]_vars => IInv'
<1> SUFFICES ASSUME IInv, [Next]_vars PROVE IInv'
  OBVIOUS
<1>1. CASE UNCHANGED vars
  BY <1>1 DEF IInv, TypeOK, Started, Entered, FlagReachesChildren, Registered, Told,
       vars, runVars, turnVars, spawnVars
<1> QED
  BY <1>1, StartTurnStep, DesertStep, InterruptStep, LoopStep, SpawnStep DEF Next

THEOREM Invariance == Spec => []IInv
  BY InitInvariant, NextInvariant, PTL DEF Spec

(* The variables keep their types, whatever the tree of delegations.       *)
THEOREM TypeCorrect == Spec => []TypeOK
<1>1. IInv => TypeOK
  BY DEF IInv
<1> QED
  BY <1>1, Invariance, PTL

(* While a session's flag stands, each of its registered children has been *)
(* told to pause or has ended its run, however interrupts, registrations,  *)
(* failures and callers that leave interleave.                             *)
THEOREM ChildrenAreTold == Spec => []FlagReachesChildren
<1>1. IInv => FlagReachesChildren
  BY DEF IInv
<1> QED
  BY <1>1, Invariance, PTL

-----------------------------------------------------------------------------
(* The rest is about the tree: what still runs, and which sessions differ. *)

(* What a delegation below the root awaits is a tool of its parent.        *)
Chain ==
  \A s \in Spawns : phase[s] # "off" /\ Parent[s] # Root
    => phase[Parent[s]] = "tools" /\ batch[s] = batch[Parent[s]]

(* What runs belongs to the root's open batch, or to a deserted one.       *)
Unattended(s) == batch[s] \in deserted
Live ==
  \A s \in Spawns : phase[s] # "off"
    => Unattended(s) \/ (batch[s] = turn /\ phase[Root] = "tools")

(* A sibling of s whose question s may take for its own. *)
Besides(q, s) ==
  /\ Session[q] = Session[s]
  /\ (batch[q] = batch[s] \/ batch[q] \in deserted \/ batch[s] \in deserted)
Stale(s) ==
  phase[s] = "starting" /\ stored[Session[s]].why = "question" /\ s \notin unheeded
StaleBySibling == \A s \in Spawns : Stale(s) => \E q \in Spawns \ {s} : Besides(q, s)

TInv == Chain /\ Live /\ StaleBySibling

(* Every nonempty set of natural numbers has a least element. *)
LEMMA LeastNatural ==
  ASSUME NEW T \in SUBSET Nat, T # {}
  PROVE  \E n \in T : \A m \in T : n <= m
<1>1. IsWellFoundedOn({ss \in Nat \X Nat : ss[1] < ss[2]}, Nat)
  BY NatLessThanWellFounded DEF OpToRel
<1>2. PICK n \in T : \A m \in T : ~(<<m, n>> \in {ss \in Nat \X Nat : ss[1] < ss[2]})
  BY <1>1, WFMin
<1>3. \A m \in T : ~(m < n)
  BY <1>2
<1> QED
  BY <1>3

(* Of any delegations, one has none of the others as its parent. *)
LEMMA Topmost ==
  ASSUME NEW T \in SUBSET Spawns, T # {}
  PROVE  \E s \in T : Parent[s] \notin T
<1>1. PICK depth \in [Agents -> 0 .. Cardinality(Spawns)] :
        \A s \in Spawns : depth[Parent[s]] < depth[s]
  BY DelegationsDescend
<1> DEFINE D == {depth[s] : s \in T}
<1>2. D \in SUBSET Nat /\ D # {}
  BY <1>1, Family
<1>3. PICK n \in D : \A m \in D : n <= m
  BY <1>2, LeastNatural
<1>4. PICK s \in T : depth[s] = n
  BY <1>3
<1>5. depth[Parent[s]] \in Nat /\ depth[s] \in Nat /\ depth[Parent[s]] < depth[s]
  BY <1>1, Family
<1> QED
  BY <1>3, <1>4, <1>5

LEMMA NoOwnParent == \A s \in Spawns : Parent[s] # s
<1> SUFFICES ASSUME NEW s \in Spawns PROVE Parent[s] # s
  OBVIOUS
<1>1. \E q \in {s} : Parent[q] \notin {s}
  BY Topmost
<1> QED
  BY <1>1

(* Session names exist: the recursion ends at the root.                    *)
SessionOf(f, a) == IF a = Root THEN <<>> ELSE Append(f[Parent[a]], Specialist[a])
Labels == {Specialist[s] : s \in Spawns}

(* A set that has 0 and with every number the next one has all of them. *)
LEMMA AllNaturals ==
  ASSUME NEW T, 0 \in T, \A n \in Nat : n \in T => n + 1 \in T
  PROVE  Nat \subseteq T
<1> SUFFICES ASSUME Nat \ T # {} PROVE FALSE
  OBVIOUS
<1>1. PICK n \in Nat \ T : \A m \in Nat \ T : n <= m
  BY LeastNatural
<1>2. n # 0 /\ n - 1 \in Nat
  BY <1>1
<1> QED
  BY <1>1, <1>2

(* Down to each depth some function names all agents, hence down to all.   *)
LEMMA SessionsExist ==
  \E f \in [Agents -> Seq(Labels)] : f = [a \in Agents |-> SessionOf(f, a)]
<1>1. PICK depth \in [Agents -> 0 .. Cardinality(Spawns)] :
        \A s \in Spawns : depth[Parent[s]] < depth[s]
  BY DelegationsDescend
<1>2. Cardinality(Spawns) \in Nat
  BY SubAgentConstants, FS_CardinalityType
<1> DEFINE Named(f, n) == \A a \in Agents : depth[a] <= n => f[a] = SessionOf(f, a)
           T == {n \in Nat : \E f \in [Agents -> Seq(Labels)] : Named(f, n)}
<1>3. 0 \in T
  <2> DEFINE f == [a \in Agents |-> <<>>]
  <2>1. f \in [Agents -> Seq(Labels)]
    OBVIOUS
  <2>2. ASSUME NEW a \in Agents, depth[a] <= 0 PROVE a = Root
    BY <1>1, <1>2, <2>2, Family
  <2>3. Named(f, 0)
    BY <2>2, Family DEF SessionOf
  <2> QED
    BY <2>1, <2>3
<1>4. ASSUME NEW n \in Nat, n \in T PROVE n + 1 \in T
  <2>1. PICK f \in [Agents -> Seq(Labels)] : Named(f, n)
    BY <1>4
  <2> DEFINE g == [a \in Agents |-> SessionOf(f, a)]
  <2>2. ASSUME NEW a \in Agents PROVE SessionOf(f, a) \in Seq(Labels)
    <3>1. CASE a = Root
      BY <3>1 DEF SessionOf
    <3>2. CASE a # Root
      <4>1. f[Parent[a]] \in Seq(Labels) /\ Specialist[a] \in Labels
        BY <3>2, Family DEF Labels
      <4> QED
        BY <3>2, <4>1, AppendProperties DEF SessionOf
    <3> QED
      BY <3>1, <3>2
  <2>3. g \in [Agents -> Seq(Labels)]
    BY <2>2
  <2>4. ASSUME NEW a \in Agents, depth[a] <= n + 1, a # Root
        PROVE  g[Parent[a]] = f[Parent[a]]
    <3>1. Parent[a] \in Agents /\ depth[Parent[a]] <= n
      BY <1>1, <1>2, <2>4, Family
    <3> QED
      BY <2>1, <3>1
  <2>5. Named(g, n + 1)
    BY <2>4, Family DEF SessionOf
  <2> HIDE DEF Named, g
  <2> QED
    BY <2>3, <2>5
<1>5. Cardinality(Spawns) \in T
  <2> HIDE DEF T
  <2> QED
    BY <1>2, <1>3, <1>4, AllNaturals
<1>6. PICK f \in [Agents -> Seq(Labels)] : Named(f, Cardinality(Spawns))
  BY <1>5
<1>7. \A a \in Agents : f[a] = SessionOf(f, a)
  BY <1>1, <1>2, <1>6
<1> QED
  BY <1>7

LEMMA SessionEquation == Session = [a \in Agents |-> SessionOf(Session, a)]
  BY SessionsExist DEF Session, SessionOf

(* The root's session has no other owner. *)
LEMMA SessionOfRoot == \A s \in Spawns : Session[s] # Session[Root]
<1>1. \A a \in Agents : Session[a] = SessionOf(Session, a)
  BY SessionEquation
<1>2. Session[Root] = <<>> /\ Session[Root] \in Seq(Labels)
  <2>1. Session[Root] = <<>>
    BY <1>1, Family DEF SessionOf
  <2>2. <<>> \in Seq(Labels)
    OBVIOUS
  <2> QED
    BY <2>1, <2>2
<1> DEFINE T == {s \in Spawns : Session[s] \notin Seq(Labels)}
<1>3. T = {}
  <2> SUFFICES ASSUME T # {} PROVE FALSE
    OBVIOUS
  <2>1. PICK s \in T : Parent[s] \notin T
    <3>1. T \in SUBSET Spawns
      OBVIOUS
    <3> QED
      BY <3>1, Topmost
  <2>2. Session[Parent[s]] \in Seq(Labels)
    BY <1>2, <2>1, Family
  <2>3. Specialist[s] \in Labels
    BY DEF Labels
  <2>4. Append(Session[Parent[s]], Specialist[s]) \in Seq(Labels)
    BY <2>2, <2>3, AppendProperties
  <2> QED
    BY <1>1, <2>1, <2>4, Family DEF SessionOf
<1> TAKE s \in Spawns
<1>4. Session[Parent[s]] \in Seq(Labels) /\ Specialist[s] \in Labels
  BY <1>2, <1>3, Family DEF Labels
<1>5. Session[s] = Append(Session[Parent[s]], Specialist[s])
  BY <1>1, Family DEF SessionOf
<1>6. Len(Session[s]) = Len(Session[Parent[s]]) + 1
  BY <1>4, <1>5, AppendProperties
<1> QED
  BY <1>2, <1>4, <1>6

LEMMA InitTree == Init => TInv
<1> SUFFICES ASSUME Init PROVE TInv
  OBVIOUS
<1>1. \A s \in Spawns : phase[s] = "off"
  BY Family DEF Init
<1> QED
  BY <1>1 DEF TInv, Chain, Live, StaleBySibling, Stale

(* A step that starts and deserts nobody, and ends no batch, keeps Chain   *)
(* and Live.                                                               *)
LEMMA Onward ==
  ASSUME TInv, UNCHANGED turnVars,
         \A s \in Spawns : phase'[s] # "off" => phase[s] # "off",
         \A a \in Agents : phase[a] = "tools" => phase'[a] = "tools"
  PROVE  Chain' /\ Live'
  BY Family DEF TInv, Chain, Live, Unattended, turnVars

(* And one that saves no question keeps the rest, too. *)
LEMMA Unasked ==
  ASSUME TInv, UNCHANGED turnVars,
         \A s \in Spawns : Stale(s)' => Stale(s)
  PROVE  StaleBySibling'
  BY DEF TInv, StaleBySibling, Besides, turnVars

(* A new turn finds only deserted delegations. *)
LEMMA StartTurnTree ==
  ASSUME TypeOK, TInv, StartTurn
  PROVE  TInv'
<1> USE DEF TInv, StartTurn
<1>1. \A s \in Spawns : phase'[s] = phase[s] /\ (phase[s] # "off" => Unattended(s))
  BY Family DEF TypeOK, Goes, Live
<1>2. \A s \in Spawns : Parent[s] # Root => phase'[Parent[s]] = phase[Parent[s]]
  BY <1>1, Family
<1>3. Chain'
  BY <1>1, <1>2 DEF Chain
<1>4. Live'
  BY <1>1 DEF Live, Unattended
<1>5. StaleBySibling'
  BY <1>1 DEF StaleBySibling, Stale, Besides, spawnVars
<1> QED
  BY <1>3, <1>4, <1>5

LEMMA DesertTree ==
  ASSUME TypeOK, TInv, Desert
  PROVE  TInv'
<1> USE DEF TInv, Desert
<1>1. \A s \in Spawns : phase'[s] = phase[s]
  BY Family DEF TypeOK
<1>2. \A s \in Spawns : Parent[s] # Root => phase'[Parent[s]] = phase[Parent[s]]
  BY <1>1, Family
<1>3. Chain'
  BY <1>1, <1>2 DEF Chain
<1>4. deserted \subseteq deserted' /\ (phase[Root] = "tools" => turn \in deserted')
  OBVIOUS
<1>5. Live'
  BY <1>1, <1>4 DEF Live, Unattended
<1>6. StaleBySibling'
  BY <1>1, <1>4 DEF StaleBySibling, Stale, Besides, spawnVars
<1> QED
  BY <1>3, <1>5, <1>6

(* A question is saved beside what starts in the same turn, or else one of *)
(* the two is unattended.                                                  *)
LEMMA AskUserTree ==
  ASSUME TypeOK, TInv, NEW a \in Agents, AskUser(a)
  PROVE  TInv'
<1> USE DEF TInv
<1>1. /\ phase[a] = "llm" /\ phase'[a] \in {"off", "ended"}
      /\ \A x \in Agents : x # a => phase'[x] = phase[x]
  BY DEF AskUser, Goes, AfterRun, TypeOK
<1>2. UNCHANGED <<turnVars, unheeded>>
  BY DEF AskUser, spawnVars
<1>3. Chain' /\ Live'
  <2>1. \A s \in Spawns : phase'[s] # "off" => phase[s] # "off"
    BY <1>1, Family
  <2>2. \A x \in Agents : phase[x] = "tools" => phase'[x] = "tools"
    BY <1>1
  <2> QED
    BY <1>2, <2>1, <2>2, Onward
<1>4. ASSUME NEW s \in Spawns, Stale(s)'
      PROVE  \E q \in Spawns \ {s} : Besides(q, s)'
  <2>1. s # a /\ phase[s] = "starting"
    BY <1>1, <1>4, Family DEF Stale
  <2>2. CASE Session[s] = Session[a]
    <3>1. a \in Spawns \ {s}
      BY <2>1, <2>2, SessionOfRoot, Family
    <3>2. Unattended(a) \/ Unattended(s) \/ batch[a] = batch[s]
      BY <1>1, <2>1, <3>1 DEF Live
    <3> QED
      BY <1>2, <2>2, <3>1, <3>2 DEF Besides, Unattended, turnVars
  <2>3. CASE Session[s] # Session[a]
    <3>1. stored'[Session[s]] = stored[Session[s]]
      BY <2>3, Family DEF AskUser, Save, TypeOK
    <3>2. Stale(s)
      BY <1>2, <1>4, <2>1, <3>1 DEF Stale
    <3> QED
      BY <1>2, <3>2 DEF StaleBySibling, Besides, turnVars
  <2> QED
    BY <2>2, <2>3
<1> QED
  BY <1>3, <1>4 DEF StaleBySibling

(* A batch of the root is over when no delegation below it runs any more.  *)
LEMMA RootBatchOver ==
  ASSUME TInv, \A s \in Batch(Root) : phase[s] = "off"
  PROVE  \A s \in Spawns : phase[s] # "off" => Unattended(s)
<1> DEFINE T == {s \in Spawns : phase[s] # "off" /\ ~Unattended(s)}
<1> SUFFICES ASSUME T # {} PROVE FALSE
  OBVIOUS
<1>1. PICK s \in T : Parent[s] \notin T
  <2>1. T \in SUBSET Spawns
    OBVIOUS
  <2> QED
    BY <2>1, Topmost
<1>2. s \in Spawns /\ phase[s] # "off" /\ batch[s] = turn /\ ~Unattended(s)
  BY DEF TInv, Live
<1>3. Parent[s] # Root
  BY <1>2 DEF Batch, Children
<1>4. phase[Parent[s]] = "tools" /\ batch[Parent[s]] = batch[s]
  BY <1>2, <1>3 DEF TInv, Chain
<1> QED
  BY <1>1, <1>2, <1>3, <1>4, Family DEF Unattended

LEMMA BatchDoneTree ==
  ASSUME TypeOK, TInv, NEW a \in Agents, BatchDone(a)
  PROVE  TInv'
<1> USE DEF TInv
<1>1. /\ phase[a] = "tools" /\ phase'[a] = "loop"
      /\ \A x \in Agents : x # a => phase'[x] = phase[x]
  BY DEF BatchDone, Goes, TypeOK
<1>2. UNCHANGED turnVars /\ stored' = stored /\ unheeded' = unheeded
  BY DEF BatchDone, spawnVars
<1>3. \A s \in Spawns : phase'[s] # "off" => phase[s] # "off"
  BY <1>1, Family
<1>4. ASSUME NEW s \in Spawns, phase'[s] # "off", Parent[s] # Root
      PROVE  phase'[Parent[s]] = "tools" /\ batch'[s] = batch'[Parent[s]]
  <2>1. phase[Parent[s]] = "tools" /\ batch[s] = batch[Parent[s]]
    BY <1>3, <1>4 DEF Chain
  <2>2. Parent[s] # a
    BY <1>3, <1>4 DEF BatchDone, Batch, Children
  <2> QED
    BY <1>1, <1>2, <2>1, <2>2, Family DEF turnVars
<1>5. ASSUME NEW s \in Spawns, phase'[s] # "off", ~Unattended(s)
      PROVE  batch[s] = turn /\ phase'[Root] = "tools"
  <2>1. batch[s] = turn /\ phase[Root] = "tools"
    BY <1>3, <1>5 DEF Live
  <2>2. a # Root
    BY <1>3, <1>5, RootBatchOver DEF BatchDone
  <2> QED
    BY <1>1, <2>1, <2>2, Family
<1>6. StaleBySibling'
  <2>1. \A s \in Spawns : Stale(s)' => Stale(s)
    BY <1>1, <1>2, Family DEF Stale
  <2> QED
    BY <1>2, <2>1, Unasked
<1> QED
  BY <1>2, <1>4, <1>5, <1>6 DEF Chain, Live, Unattended, turnVars

(* A new delegation is part of the batch its parent is part of.            *)
LEMMA DelegateTree ==
  ASSUME TypeOK, TInv, NEW a \in Agents, NEW chosen \in SUBSET Children(a),
         NEW limit \in Nat, Delegate(a, chosen, limit)
  PROVE  TInv'
<1> USE DEF TInv
<1>1. /\ chosen \subseteq Spawns /\ Root \notin chosen /\ a \notin chosen
      /\ \A s \in chosen : Parent[s] = a /\ phase[s] = "off"
  BY NoOwnParent, SubAgentConstants DEF Children, Delegate
<1>2. /\ phase[a] = "llm" /\ phase'[a] = "tools"
      /\ \A s \in chosen : phase'[s] = "queued"
      /\ \A x \in Agents : x # a /\ x \notin chosen => phase'[x] = phase[x]
  BY <1>1, Family DEF Delegate, Agents
<1>3. /\ \A s \in chosen : batch'[s] = IF a = Root THEN turn ELSE batch[a]
      /\ \A s \in Spawns \ chosen : batch'[s] = batch[s]
      /\ turn' = turn /\ deserted' = deserted /\ stored' = stored /\ unheeded' = unheeded
  BY <1>1 DEF Delegate
<1>4. ASSUME NEW s \in Spawns, phase'[s] # "off", Parent[s] # Root
      PROVE  phase'[Parent[s]] = "tools" /\ batch'[s] = batch'[Parent[s]]
  <2>1. CASE s \in chosen
    BY <1>1, <1>2, <1>3, <1>4, <2>1, Family
  <2>2. CASE s \notin chosen
    <3>1. phase[s] # "off"
      BY <1>2, <1>4, <2>2, Family
    <3>2. phase[Parent[s]] = "tools" /\ batch[s] = batch[Parent[s]]
      BY <1>4, <3>1 DEF Chain
    <3>3. Parent[s] # a /\ Parent[s] \notin chosen
      BY <1>1, <1>2, <3>2
    <3> QED
      BY <1>2, <1>3, <1>4, <2>2, <3>2, <3>3, Family
  <2> QED
    BY <2>1, <2>2
<1>5. a # Root => batch[a] \in deserted \/ (batch[a] = turn /\ phase[Root] = "tools")
  BY <1>2, Family DEF Live, Unattended
<1>6. phase[Root] = "tools" => phase'[Root] = "tools"
  BY <1>1, <1>2, Family
<1>7. ASSUME NEW s \in Spawns, phase'[s] # "off"
      PROVE  batch'[s] \in deserted \/ (batch'[s] = turn /\ phase'[Root] = "tools")
  <2>1. CASE s \in chosen
    BY <1>2, <1>3, <1>5, <1>6, <2>1
  <2>2. CASE s \notin chosen
    <3>1. phase[s] # "off"
      BY <1>2, <1>7, <2>2, Family
    <3> QED
      BY <1>3, <1>6, <2>2, <3>1 DEF Live, Unattended
  <2> QED
    BY <2>1, <2>2
<1>8. ASSUME NEW s \in Spawns, Stale(s)'
      PROVE  \E q \in Spawns \ {s} : Besides(q, s)'
  <2>1. s \notin chosen /\ Stale(s)
    BY <1>2, <1>3, <1>8, Family DEF Stale
  <2>2. PICK q \in Spawns \ {s} : Besides(q, s)
    BY <2>1 DEF StaleBySibling
  <2>3. batch[s] \in deserted \/ (batch[s] = turn /\ phase[Root] = "tools")
    BY <2>1 DEF Stale, Live, Unattended
  <2>4. CASE q \in chosen
    BY <1>2, <1>3, <1>5, <2>1, <2>2, <2>3, <2>4 DEF Besides
  <2>5. CASE q \notin chosen
    BY <1>3, <2>1, <2>2, <2>5 DEF Besides
  <2> QED
    BY <2>4, <2>5
<1> QED
  BY <1>3, <1>4, <1>7, <1>8 DEF Chain, Live, StaleBySibling, Unattended

(* No other step starts, deserts or ends anything that others rest on, or  *)
(* saves a question.                                                       *)
LEMMA OtherTree ==
  ASSUME TypeOK, TInv, NEW a \in Agents,
         \/ Think(a) \/ Pause(a) \/ Finish(a) \/ Raises(a)
         \/ a \in Spawns /\ Spawn(a)
  PROVE  TInv'
<1> USE DEF TInv
<1>1. UNCHANGED turnVars /\ \A x \in Spawns : x # a => (x \in unheeded' <=> x \in unheeded)
  BY DEF Think, Pause, Finish, Raises, Spawn, Acquire, SpawnFails, Leaves, Created, FindStale,
         Register, RegisterChild, RegisterClean, RegisterUnheeding, Begin, Deregister, Closed,
         spawnVars
<1>2. PICK to \in Phases : phase' = [phase EXCEPT ![a] = to]
  BY AfterRunPhase DEF Think, Pause, Finish, Raises, Spawn, Acquire, SpawnFails, Leaves, Created,
         FindStale, Register, RegisterChild, Begin, Deregister, Closed, Goes, Phases
<1>3. phase[a] \notin {"off", "tools"}
  BY DEF Think, Pause, Finish, Raises, Spawn, Acquire, SpawnFails, Leaves, Created, FindStale,
         Register, RegisterClean, RegisterUnheeding, Begin, Deregister, Closed, Goes
<1>4. \A x \in Agents : x # a => phase'[x] = phase[x]
  BY <1>2 DEF TypeOK
<1>5. Chain' /\ Live'
  <2>1. \A s \in Spawns : phase'[s] # "off" => phase[s] # "off"
    BY <1>3, <1>4, Family
  <2>2. \A x \in Agents : phase[x] = "tools" => phase'[x] = "tools"
    BY <1>3, <1>4
  <2> QED
    BY <1>1, <2>1, <2>2, Onward
<1>6. ASSUME NEW x \in Sessions, stored'[x].why = "question"
      PROVE  stored[x].why = "question"
  <2>1. CASE UNCHANGED stored
    BY <1>6, <2>1
  <2>2. CASE \E p \in Pauses : p.why # "question" /\ stored' = [stored EXCEPT ![Session[a]] = p]
    BY <1>6, <2>2, Family DEF TypeOK
  <2>3. [why |-> "interrupt", step |-> steps[a]] \in Pauses
    BY DEF TypeOK, Pauses
  <2>4. NotPaused \in Pauses /\ NotPaused.why # "question"
    BY NotPausedType DEF NotPaused
  <2>5. ASSUME ~UNCHANGED stored
        PROVE  \E p \in Pauses : p.why # "question" /\ stored' = [stored EXCEPT ![Session[a]] = p]
    BY <2>3, <2>4, <2>5 DEF Think, Pause, Finish, Save, Raises, Spawn, Acquire, SpawnFails,
         Leaves, Created, FindStale, Register, RegisterClean, RegisterUnheeding, Begin,
         Deregister, Closed
  <2> QED
    BY <2>1, <2>2, <2>5
<1>7. phase'[a] = "starting" => ~Stale(a)'
  <2> SUFFICES ASSUME phase'[a] = "starting" PROVE ~Stale(a)'
    OBVIOUS
  <2>1. Register(a)
    BY AfterRunPhase DEF TypeOK, AfterRun, Think, Pause, Finish, Raises, Spawn, Acquire,
         SpawnFails, Leaves, Created, FindStale, Begin, Deregister, Closed, Goes
  <2>2. CASE RegisterClean(a)
    BY <2>2, Family DEF RegisterClean, NotPaused, TypeOK, Stale
  <2>3. CASE RegisterUnheeding(a)
    BY <2>3 DEF RegisterUnheeding, Stale
  <2> QED
    BY <2>1, <2>2, <2>3 DEF Register
<1>8. ASSUME NEW s \in Spawns, Stale(s)'
      PROVE  Stale(s)
  BY <1>1, <1>4, <1>6, <1>7, <1>8, Family DEF Stale
<1> QED
  BY <1>1, <1>5, <1>8, Unasked

LEMMA NextTree == TypeOK /\ TInv /\ [Next]_vars => TInv'
<1> SUFFICES ASSUME TypeOK, TInv, [Next]_vars PROVE TInv'
  OBVIOUS
<1>1. CASE UNCHANGED vars
  BY <1>1 DEF TInv, Chain, Live, StaleBySibling, Stale, Besides, Unattended,
       vars, runVars, turnVars, spawnVars
<1>2. CASE Interrupt
  BY <1>2 DEF TInv, Chain, Live, StaleBySibling, Stale, Besides, Unattended,
       Interrupt, turnVars, spawnVars
<1>3. CASE \E a \in Agents : Loop(a)
  <2>1. PICK a \in Agents : Loop(a)
    BY <1>3
  <2>2. ASSUME NEW chosen \in SUBSET Children(a), NEW limit \in 0 .. Cardinality(chosen),
               Delegate(a, chosen, limit)
        PROVE  TInv'
    BY <2>2, PermitsAreNatural, DelegateTree
  <2> QED
    BY <2>1, <2>2, AskUserTree, BatchDoneTree, OtherTree DEF Loop
<1>4. CASE \E s \in Spawns : Spawn(s)
  BY <1>4, OtherTree, Family
<1> QED
  BY <1>1, <1>2, <1>3, <1>4, StartTurnTree, DesertTree DEF Next

THEOREM TreeInvariance == Spec => []TInv
  BY InitTree, NextTree, TypeCorrect, PTL DEF Spec

(* A mission is taken for the answer to an old question only beside a      *)
(* sibling of the same specialist, or where one of the two is unattended,  *)
(* or where looking for the question or clearing it failed: for any tree   *)
(* of delegations and any number of turns.                                 *)
THEOREM OldQuestionsNeedSiblings == Spec => ReplayNeedsSibling
<1>1. TInv => [ \A s \in Spawns :
        /\ phase[s] = "starting" /\ phase'[s] = "loop"
        /\ stored[Session[s]].why = "question" /\ s \notin unheeded
        => \E q \in Spawns \ {s} :
             /\ Session[q] = Session[s]
             /\ (batch[q] = batch[s] \/ batch[q] \in deserted \/ batch[s] \in deserted) ]_vars
  BY DEF TInv, StaleBySibling, Stale, Besides
<1> QED
  BY <1>1, TreeInvariance, PTL DEF ReplayNeedsSibling

=============================================================================
