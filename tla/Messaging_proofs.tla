--------------------------- MODULE Messaging_proofs ---------------------------
(***************************************************************************)
(* What users of a channel can rely on, for any number of them: that the   *)
(* conversation store keeps what it was given (Conversations), that the    *)
(* answer to an agent's question comes from the person asked (ChannelAsk)  *)
(* and that a bot's updates are taken once and in order (BotPoller).       *)
(*                                                                         *)
(* The three share no variable; Ask... and Poll... are names of the        *)
(* second and third.                                                       *)
(***************************************************************************)
EXTENDS Conversations, ChannelAsk, BotPoller, FiniteSetTheorems, TLAPS

-----------------------------------------------------------------------------
(* Conversations: any conversations, people, messages and callers.         *)

(* Where the operation of a caller is, and what it has in hand. *)
Placed(p) ==
  LET o == op[p] IN
  /\ phase[p] # "idle" => o # NoOp
  /\ file[p] # Index =>
       /\ o # NoOp /\ file[p] = o.conv
       /\ \/ o.kind = "append" /\ phase[p] \in {"read", "open", "write", "unlink", "rename"}
          \/ /\ o.kind = "compact"
             /\ phase[p] \in {"read", "asking", "open", "write", "unlink", "rename"}
          \/ o.kind \in {"get", "create"} /\ phase[p] \in {"open", "write", "unlink", "rename"}
  /\ phase[p] = "look" => file[p] = Index /\ o.kind \in {"get", "title"}
  /\ phase[p] = "asking" => o.kind = IF file[p] = Index THEN "title" ELSE "compact"
  /\ phase[p] = "purge" => file[p] = Index /\ o.kind = "delete"
  /\ phase[p] \in {"open", "write"} \/ (phase[p] = "asking" /\ file[p] # Index)
       => local[p] \in Values(file[p])
  /\ phase[p] \in {"unlink", "rename"} => local[p] = {}

Control == TypeOK /\ \A p \in Callers : Placed(p)

-----------------------------------------------------------------------------
Kinds == {"get", "create", "archive", "delete", "rename", "title", "compact", "append"}

(* An operation has a kind and a conversation, and an append its message. *)
LEMMA OpShape ==
  ASSUME NEW o \in Ops, o # NoOp
  PROVE  /\ o.kind \in Kinds /\ o.conv \in Convs
         /\ o.kind = "append" => o.msg \in Msgs
  BY DEF Ops, Kinds

LEMMA FileNames ==
  /\ Index \in Files /\ Index \notin Convs /\ \A c \in Convs : c \in Files /\ c # Index
  /\ \A f \in Files : f # Index => f \in Convs
  BY ConversationConstants DEF Files

(* What is loaded is readable. *)
LEMMA LoadedValue ==
  ASSUME TypeOK, NEW f \in Files
  PROVE  Loaded(f) \in Values(f)
<1>1. disk[f] \in Unreadable \/ disk[f] \in Values(f)
  BY DEF TypeOK
<1>2. NoConvs \in Indexes
  BY DEF NoConvs, Indexes
<1> QED
  BY <1>1, <1>2 DEF Loaded, Values

(* What an operation does to the entries of the index, whatever the rest.  *)
Entered(o) == IF o.kind \in {"get", "create"} THEN {o.conv} ELSE {}
Dropped(o) == IF o.kind = "delete" THEN {o.conv} ELSE {}

LEMMA AbsentEntry == Absent \notin Entry /\ ~Absent.active
  BY DEF Absent, Entry

LEMMA NewIndexValue ==
  ASSUME NEW o \in Ops, o # NoOp, NEW x \in Indexes
  PROVE  NewIndex(o, x) \in Indexes
<1> DEFINE c == o.conv
<1>1. o.kind \in Kinds /\ c \in Convs /\ DOMAIN x = Convs
  BY OpShape DEF Indexes
<1>2. \A d \in Convs : x[d] \in Entry \/ x[d] = Absent
  BY DEF Indexes
<1>3. \A e \in Entry : [e EXCEPT !.active = FALSE] \in Entry
  BY DEF Entry
<1>4. \A e \in Entry : [e EXCEPT !.topic = "user"] \in Entry /\ [e EXCEPT !.topic = "auto"] \in Entry
  BY DEF Entry
<1>5. [active |-> TRUE, topic |-> "none"] \in Entry
  BY DEF Entry
<1>6. CASE o.kind \in {"get", "create"}
  <2>1. \A d \in Active(x, PairOf[c]) : x[d] \in Entry
    BY <1>2, AbsentEntry DEF Active
  <2>2. NewIndex(o, x) = [d \in Convs |->
               IF d = c THEN [active |-> TRUE, topic |-> "none"]
               ELSE IF d \in Active(x, PairOf[c]) THEN [x[d] EXCEPT !.active = FALSE]
               ELSE x[d]]
    BY <1>6 DEF NewIndex
  <2> QED
    BY <1>2, <1>3, <1>5, <2>1, <2>2 DEF Indexes
<1>7. CASE o.kind \notin {"get", "create"}
  <2>1. NewIndex(o, x) \in {x, [x EXCEPT ![c] = Absent]}
        \/ /\ x[c] # Absent
           /\ NewIndex(o, x) \in {[x EXCEPT ![c].active = FALSE], [x EXCEPT ![c].topic = "user"],
                                  [x EXCEPT ![c].topic = "auto"]}
    BY <1>7 DEF NewIndex
  <2>2. [x EXCEPT ![c] = Absent] \in Indexes
    BY <1>1 DEF Indexes
  <2>3. ASSUME x[c] # Absent
        PROVE  {[x EXCEPT ![c].active = FALSE], [x EXCEPT ![c].topic = "user"],
                [x EXCEPT ![c].topic = "auto"]} \subseteq Indexes
    <3>1. x[c] \in Entry
      BY <1>1, <1>2, <2>3
    <3> QED
      BY <1>1, <1>3, <1>4, <3>1 DEF Indexes
  <2> QED
    BY <2>1, <2>2, <2>3
<1> QED
  BY <1>6, <1>7

(* Entries come by create_new and go by delete. *)
LEMMA NewIndexEntries ==
  ASSUME NEW o \in Ops, o # NoOp, NEW x \in Indexes, NEW d \in Convs
  PROVE  NewIndex(o, x)[d] # Absent <=> d \in Entered(o) \/ (x[d] # Absent /\ d \notin Dropped(o))
<1> DEFINE c == o.conv
<1>1. o.kind \in Kinds /\ c \in Convs /\ DOMAIN x = Convs
  BY OpShape DEF Indexes
<1>2. x[d] \in Entry \/ x[d] = Absent
  BY DEF Indexes
<1>3. \A e \in Entry : /\ [e EXCEPT !.active = FALSE] # Absent
                       /\ [e EXCEPT !.topic = "user"] # Absent
                       /\ [e EXCEPT !.topic = "auto"] # Absent
  BY DEF Entry, Absent
<1>4. [active |-> TRUE, topic |-> "none"] # Absent
  BY DEF Absent
<1>5. CASE o.kind \in {"get", "create"}
  <2>1. d \in Active(x, PairOf[c]) => x[d] \in Entry
    BY <1>2, AbsentEntry DEF Active
  <2>2. NewIndex(o, x)[d] = IF d = c THEN [active |-> TRUE, topic |-> "none"]
                            ELSE IF d \in Active(x, PairOf[c]) THEN [x[d] EXCEPT !.active = FALSE]
                            ELSE x[d]
    BY <1>5 DEF NewIndex
  <2>3. Absent # [active |-> TRUE, topic |-> "none"] /\ Entered(o) = {c} /\ Dropped(o) = {}
    BY <1>4, <1>5 DEF Entered, Dropped
  <2>4. d \in Active(x, PairOf[c]) => x[d] # Absent /\ [x[d] EXCEPT !.active = FALSE] # Absent
    BY <1>3, <2>1, AbsentEntry
  <2> QED
    BY <2>2, <2>3, <2>4
<1>6. CASE o.kind = "delete"
  BY <1>1, <1>6 DEF NewIndex, Entered, Dropped
<1>7. CASE o.kind \notin {"get", "create", "delete"}
  <2>1. NewIndex(o, x) = x
        \/ /\ x[c] # Absent
           /\ NewIndex(o, x) \in {[x EXCEPT ![c].active = FALSE], [x EXCEPT ![c].topic = "user"],
                                  [x EXCEPT ![c].topic = "auto"]}
    BY <1>7 DEF NewIndex
  <2>2. ASSUME x[c] # Absent, NEW y \in {[x EXCEPT ![c].active = FALSE], [x EXCEPT ![c].topic = "user"],
                                  [x EXCEPT ![c].topic = "auto"]}
        PROVE  y[d] # Absent <=> x[d] # Absent
    <3>1. x[c] \in Entry
      BY <1>1, <2>2 DEF Indexes
    <3> QED
      BY <1>1, <1>3, <2>2, <3>1
  <2> QED
    BY <1>7, <2>1, <2>2 DEF Entered, Dropped
<1> QED
  BY <1>5, <1>6, <1>7

LEMMA NamedIndex ==
  \A x \in Indexes : x \notin Unreadable /\ Named(x) = {c \in Convs : x[c] # Absent}
  BY UnreadableHoldsNothing, FileNames DEF Values, Named

LEMMA NewIndexNamed ==
  ASSUME NEW o \in Ops, o # NoOp, NEW x \in Indexes
  PROVE  Named(NewIndex(o, x)) = (Named(x) \ Dropped(o)) \union Entered(o)
<1>1. Entered(o) \subseteq Convs
  BY OpShape DEF Entered
<1>2. NewIndex(o, x) \in Indexes
  BY NewIndexValue
<1> QED
  BY <1>1, <1>2, NamedIndex, NewIndexEntries

(* At most one conversation of a channel and sender is active. *)
Lone(x) ==
  \A c, d \in Convs : x[c].active /\ x[d].active /\ PairOf[c] = PairOf[d] => c = d

(* create_new archives those that were active, and nothing else activates. *)
LEMMA NewIndexLone ==
  ASSUME NEW o \in Ops, o # NoOp, NEW x \in Indexes, Lone(x)
  PROVE  Lone(NewIndex(o, x))
<1> DEFINE c == o.conv
<1>1. o.kind \in Kinds /\ c \in Convs /\ DOMAIN x = Convs
  BY OpShape DEF Indexes
<1>2. ASSUME NEW d \in Convs, NewIndex(o, x)[d].active
      PROVE  \/ x[d].active /\ (o.kind \in {"get", "create"} => PairOf[d] # PairOf[c])
             \/ o.kind \in {"get", "create"} /\ d = c
  <2>1. x[d] \in Entry \/ x[d] = Absent
    BY DEF Indexes
  <2>2. CASE o.kind \in {"get", "create"}
    <3>1. ASSUME d # c, d \in Active(x, PairOf[c])
          PROVE  FALSE
      <4>1. NewIndex(o, x)[d] = [x[d] EXCEPT !.active = FALSE]
        BY <2>2, <3>1 DEF NewIndex
      <4>2. x[d] \in Entry
        BY <2>1, <3>1, AbsentEntry DEF Active
      <4> QED
        BY <1>2, <4>1, <4>2 DEF Entry
    <3>2. ASSUME d # c, d \notin Active(x, PairOf[c])
          PROVE  NewIndex(o, x)[d] = x[d] /\ (x[d].active => PairOf[d] # PairOf[c])
      BY <2>2, <3>2 DEF NewIndex, Active
    <3> QED
      BY <1>2, <2>2, <3>1, <3>2
  <2>3. CASE o.kind \notin {"get", "create"}
    <3>1. NewIndex(o, x) \in {x, [x EXCEPT ![c] = Absent], [x EXCEPT ![c].active = FALSE],
                              [x EXCEPT ![c].topic = "user"], [x EXCEPT ![c].topic = "auto"]}
      BY <2>3 DEF NewIndex
    <3>2. x[d].active
      <4>1. CASE NewIndex(o, x) = x
        BY <1>2, <4>1
      <4>2. CASE NewIndex(o, x) = [x EXCEPT ![c] = Absent]
        BY <1>1, <1>2, <4>2, AbsentEntry
      <4>3. CASE NewIndex(o, x) = [x EXCEPT ![c].active = FALSE]
        <5>1. d = c => NewIndex(o, x)[d] = [x[c] EXCEPT !.active = FALSE]
          BY <1>1, <4>3
        <5>2. [x[c] EXCEPT !.active = FALSE].active = FALSE
          BY <1>1 DEF Indexes, Entry, Absent
        <5> QED
          BY <1>1, <1>2, <4>3, <5>1, <5>2
      <4>4. CASE NewIndex(o, x) = [x EXCEPT ![c].topic = "user"]
        BY <1>1, <1>2, <4>4
      <4>5. CASE NewIndex(o, x) = [x EXCEPT ![c].topic = "auto"]
        BY <1>1, <1>2, <4>5
      <4> QED
        BY <3>1, <4>1, <4>2, <4>3, <4>4, <4>5
    <3> QED
      BY <2>3, <3>2
  <2> QED
    BY <2>2, <2>3
<1> QED
  BY <1>1, <1>2 DEF Lone

-----------------------------------------------------------------------------
(* Control is inductive by itself. *)

LEMMA InitControl == Init => Control
<1> SUFFICES ASSUME Init PROVE Control
  OBVIOUS
<1>1. "idle" \in Phases /\ Index \in Files /\ NoOp \in Ops
  BY FileNames DEF Phases, Ops
<1>2. /\ op \in [Callers -> Ops] /\ phase \in [Callers -> Phases] /\ file \in [Callers -> Files]
      /\ at \in [Callers -> {"temp", "path", "gone"}] /\ acked \in [Convs -> SUBSET Msgs]
  BY <1>1 DEF Init
<1>3. TypeOK
  BY <1>2, ConversationConstants DEF Init, TypeOK, Unreadable
<1>4. \A p \in Callers : Placed(p)
  BY DEF Init, Placed
<1> QED
  BY <1>3, <1>4 DEF Control

LEMMA Going ==
  ASSUME TypeOK, NEW p \in Callers, NEW ph \in Phases, NEW f \in Files, Goto(p, ph, f)
  PROVE  /\ phase' \in [Callers -> Phases] /\ file' \in [Callers -> Files]
         /\ phase'[p] = ph /\ file'[p] = f
         /\ \A q \in Callers : q # p => phase'[q] = phase[q] /\ file'[q] = file[q]
  BY DEF Goto, TypeOK

LEMMA Leaving ==
  ASSUME TypeOK, NEW p \in Callers, Leave(p)
  PROVE  /\ op' \in [Callers -> Ops] /\ phase' \in [Callers -> Phases]
         /\ file' \in [Callers -> Files] /\ DOMAIN local' = Callers
         /\ at' \in [Callers -> {"temp", "path", "gone"}]
         /\ op'[p] = NoOp /\ phase'[p] = "idle" /\ file'[p] = Index /\ at'[p] = "gone"
         /\ local'[p] = {}
         /\ \A q \in Callers : q # p => /\ op'[q] = op[q] /\ phase'[q] = phase[q]
                                        /\ file'[q] = file[q] /\ local'[q] = local[q]
                                        /\ at'[q] = at[q]
<1>1. NoOp \in Ops /\ "idle" \in Phases /\ Index \in Files
  BY FileNames DEF Ops, Phases
<1> QED
  BY <1>1 DEF Leave, TypeOK

LEMMA Entering ==
  ASSUME TypeOK, NEW p \in Callers, NEW f \in Files, Enter(p, f)
  PROVE  /\ shared \subseteq shared' /\ shared' \subseteq Files
         /\ f \notin shared' => ~Overlap(p, f)
         /\ \A g \in Files : g # f => (g \in shared' <=> g \in shared)
  BY DEF Enter, TypeOK

(* Only p moves. *)
Others(p) ==
  \A q \in Callers : q # p => /\ op'[q] = op[q] /\ phase'[q] = phase[q]
                              /\ file'[q] = file[q] /\ local'[q] = local[q]

LEMMA OneMoves ==
  ASSUME Control, TypeOK', NEW p \in Callers, Placed(p)', Others(p)
  PROVE  Control'
  BY DEF Control, Placed, Others

(* The operation begun is placed as it should be. *)
Starts(o, ph, f) ==
  /\ o \in Ops /\ o # NoOp /\ ph \in {"look", "read"} /\ f \in Files
  /\ ph = "look" => f = Index /\ o.kind \in {"get", "title"}
  /\ f # Index => f = o.conv /\ o.kind \in {"append", "compact"}

LEMMA BeginEffect ==
  ASSUME TypeOK, NEW p \in Callers, NEW o, NEW ph, NEW f, Starts(o, ph, f), Begin(p, o, ph, f)
  PROVE  /\ phase[p] = "idle"
         /\ op' \in [Callers -> Ops] /\ op'[p] = o
         /\ phase' \in [Callers -> Phases] /\ file' \in [Callers -> Files]
         /\ phase'[p] = ph /\ file'[p] = f
         /\ Others(p) /\ begun' \in 0..MaxOps
         /\ shared \subseteq shared' /\ shared' \subseteq Files
         /\ ph = "read" => Enter(p, f)
         /\ ph = "look" => shared' = shared
         /\ UNCHANGED <<disk, temp, local, at, seen, acked, listed, holed>>
<1>1. ph \in Phases
  BY DEF Starts, Phases
<1>2. /\ phase' \in [Callers -> Phases] /\ file' \in [Callers -> Files]
      /\ phase'[p] = ph /\ file'[p] = f
      /\ \A q \in Callers : q # p => phase'[q] = phase[q] /\ file'[q] = file[q]
  BY <1>1, Going DEF Begin, Starts
<1>3. /\ op' \in [Callers -> Ops] /\ op'[p] = o
      /\ \A q \in Callers : q # p => op'[q] = op[q]
  BY DEF Begin, Starts, TypeOK
<1>4. begun' \in 0..MaxOps
  BY ConversationConstants DEF Begin, TypeOK
<1>5. /\ shared \subseteq shared' /\ shared' \subseteq Files
  BY Entering DEF Begin, Starts, TypeOK
<1> QED
  BY <1>2, <1>3, <1>4, <1>5 DEF Begin, Starts, Others

LEMMA BeginControl ==
  ASSUME Control, NEW p \in Callers, NEW o, NEW ph, NEW f, Starts(o, ph, f),
         Begin(p, o, ph, f), used' \subseteq Convs \union Msgs
  PROVE  Control'
<1> USE DEF Control
<1>1. TypeOK'
  <2>1. \A q \in Callers : phase'[q] \in {"open", "write"}
                             => local'[q] \in Values(file'[q])
    BY BeginEffect DEF TypeOK, Starts, Others
  <2> QED
    BY <2>1, BeginEffect DEF TypeOK
<1>2. Placed(p)'
  BY BeginEffect DEF Placed, Starts
<1> QED
  BY <1>1, <1>2, BeginEffect, OneMoves

(* What each of the actions that begin an operation begins: a new          *)
(* conversation, or an operation on one that has been in the index.        *)
Begun(p, o, ph, f) ==
  /\ Starts(o, ph, f) /\ Begin(p, o, ph, f)
  /\ used \subseteq used' /\ used' \subseteq Convs \union Msgs
  /\ o.conv \in seen \/ (o.conv \notin used /\ o.conv \in used')
  /\ o.kind \in {"get", "create"} => o.conv \notin used

LEMMA Beginnings ==
  ASSUME TypeOK, NEW p \in Callers,
         \/ BeginCreate(p) \/ BeginAppend(p) \/ BeginCompact(p)
         \/ BeginOnIndex(p) \/ BeginTitle(p)
  PROVE  \E o \in Ops, ph \in {"look", "read"}, f \in Files : Begun(p, o, ph, f)
<1>1. CASE BeginCreate(p)
  <2>1. PICK c \in Convs, kind \in {"get", "create"} :
          /\ c \notin used /\ used' = used \union {c}
          /\ Begin(p, [kind |-> kind, conv |-> c], IF kind = "get" THEN "look" ELSE "read", Index)
    BY <1>1 DEF BeginCreate
  <2> DEFINE o == [kind |-> kind, conv |-> c]
             ph == IF kind = "get" THEN "look" ELSE "read"
  <2>2. o \in Ops /\ o # NoOp /\ o.kind = kind /\ o.conv = c
    BY DEF Ops, NoOp
  <2>3. Starts(o, ph, Index)
    BY <2>2, FileNames DEF Starts
  <2>4. used' \subseteq Convs \union Msgs
    BY <2>1 DEF TypeOK
  <2>6. Begun(p, o, ph, Index)
    BY <2>1, <2>2, <2>3, <2>4 DEF Begun
  <2> HIDE DEF o, ph
  <2> QED
    BY <2>2, <2>3, <2>6, FileNames DEF Starts, Begun
<1>2. CASE BeginAppend(p)
  <2>1. PICK c \in seen, m \in Msgs :
          /\ used' = used \union {m}
          /\ Begin(p, [kind |-> "append", conv |-> c, msg |-> m], "read", c)
    BY <1>2 DEF BeginAppend
  <2> DEFINE o == [kind |-> "append", conv |-> c, msg |-> m]
  <2>2. c \in Convs
    BY DEF TypeOK
  <2>3. o \in Ops /\ o # NoOp /\ o.kind = "append" /\ o.conv = c
    BY <2>2 DEF Ops, NoOp
  <2>4. Starts(o, "read", c) /\ c \in Files
    BY <2>2, <2>3, FileNames DEF Starts
  <2>5. used' \subseteq Convs \union Msgs
    BY <2>1 DEF TypeOK
  <2>6. Begun(p, o, "read", c)
    BY <2>1, <2>3, <2>4, <2>5 DEF Begun
  <2> HIDE DEF o
  <2> QED
    BY <2>2, <2>3, <2>6, FileNames DEF Starts, Begun
<1>3. CASE BeginCompact(p)
  <2>1. PICK c \in seen : Begin(p, [kind |-> "compact", conv |-> c], "read", c) /\ used' = used
    BY <1>3 DEF BeginCompact
  <2> DEFINE o == [kind |-> "compact", conv |-> c]
  <2>2. c \in Convs /\ used \subseteq Convs \union Msgs
    BY DEF TypeOK
  <2>3. o \in Ops /\ o # NoOp /\ o.kind = "compact" /\ o.conv = c
    BY <2>2 DEF Ops, NoOp
  <2>4. Starts(o, "read", c) /\ c \in Files
    BY <2>2, <2>3, FileNames DEF Starts
  <2>6. Begun(p, o, "read", c)
    BY <2>1, <2>2, <2>3, <2>4 DEF Begun
  <2> HIDE DEF o
  <2> QED
    BY <2>2, <2>3, <2>6, FileNames DEF Starts, Begun
<1>4. CASE BeginOnIndex(p)
  <2>1. PICK c \in seen, kind \in {"archive", "delete", "rename"} :
          Begin(p, [kind |-> kind, conv |-> c], "read", Index) /\ used' = used
    BY <1>4 DEF BeginOnIndex
  <2> DEFINE o == [kind |-> kind, conv |-> c]
  <2>2. c \in Convs /\ used \subseteq Convs \union Msgs
    BY DEF TypeOK
  <2>3. o \in Ops /\ o # NoOp /\ o.kind = kind /\ o.conv = c
    BY <2>2 DEF Ops, NoOp
  <2>4. Starts(o, "read", Index)
    BY <2>2, <2>3, FileNames DEF Starts
  <2>6. Begun(p, o, "read", Index)
    BY <2>1, <2>2, <2>3, <2>4 DEF Begun
  <2> HIDE DEF o
  <2> QED
    BY <2>2, <2>3, <2>6, FileNames DEF Starts, Begun
<1>5. CASE BeginTitle(p)
  <2>1. PICK c \in seen : Begin(p, [kind |-> "title", conv |-> c], "look", Index) /\ used' = used
    BY <1>5 DEF BeginTitle
  <2> DEFINE o == [kind |-> "title", conv |-> c]
  <2>2. c \in Convs /\ used \subseteq Convs \union Msgs
    BY DEF TypeOK
  <2>3. o \in Ops /\ o # NoOp /\ o.kind = "title" /\ o.conv = c
    BY <2>2 DEF Ops, NoOp
  <2>4. Starts(o, "look", Index)
    BY <2>2, <2>3, FileNames DEF Starts
  <2>6. Begun(p, o, "look", Index)
    BY <2>1, <2>2, <2>3, <2>4 DEF Begun
  <2> HIDE DEF o
  <2> QED
    BY <2>2, <2>3, <2>6, FileNames DEF Starts, Begun
<1> QED
  BY <1>1, <1>2, <1>3, <1>4, <1>5

LEMMA LeaveControl ==
  ASSUME Control, NEW p \in Callers, Leave(p), DOMAIN disk' = Files, DOMAIN temp' = Files,
         \A f \in Files : {disk'[f], temp'[f]} \ Unreadable \subseteq Values(f),
         UNCHANGED <<used, seen, begun, acked, listed, shared, holed>>
  PROVE  Control'
<1> USE DEF Control
<1>1. TypeOK'
  <2>1. \A q \in Callers : phase'[q] \in {"open", "write"} => local'[q] \in Values(file'[q])
    BY Leaving DEF TypeOK
  <2> QED
    BY <2>1, Leaving DEF TypeOK
<1>2. Placed(p)'
  BY Leaving DEF Placed
<1> QED
  BY <1>1, <1>2, Leaving, OneMoves DEF Others

(* A step that enters nothing new, and one whose entries are typed.        *)
Stays == UNCHANGED <<used, seen, begun, acked, listed, holed>>
Recorded ==
  /\ UNCHANGED <<used, begun, holed>> /\ seen' \subseteq Convs
  /\ acked' \in [Convs -> SUBSET Msgs] /\ listed' \subseteq Convs

LEMMA StaysRecorded == Control /\ Stays => Recorded
  BY DEF Control, TypeOK, Stays, Recorded

LEMMA LookEffect ==
  ASSUME Control, NEW p \in Callers, Look(p)
  PROVE  /\ phase[p] = "look" /\ file[p] = Index /\ op[p] # NoOp
         /\ UNCHANGED <<disk, temp>> /\ Stays
         /\ \/ Leave(p) /\ UNCHANGED shared
            \/ /\ op[p].kind = "get" /\ Goto(p, "read", Index) /\ Enter(p, Index)
               /\ UNCHANGED <<op, local, at>>
            \/ /\ op[p].kind = "title" /\ Goto(p, "asking", Index) /\ UNCHANGED shared
               /\ UNCHANGED <<op, local, at>>
<1>1. /\ phase[p] = "look" /\ file[p] = Index /\ op[p] # NoOp /\ op[p].kind \in {"get", "title"}
  BY DEF Look, Placed, Control
<1> QED
  BY <1>1 DEF Look, Stays

(* What Goto leaves to show, when the files stay as they are. *)
LEMMA GotoControl ==
  ASSUME Control, NEW p \in Callers, NEW ph \in Phases, NEW f \in Files, Goto(p, ph, f),
         op' \in [Callers -> Ops], \A q \in Callers : q # p => op'[q] = op[q],
         Recorded, DOMAIN disk' = Files, DOMAIN temp' = Files,
         \A g \in Files : {disk'[g], temp'[g]} \ Unreadable \subseteq Values(g),
         at' \in [Callers -> {"temp", "path", "gone"}], shared' \subseteq Files,
         DOMAIN local' = Callers, \A q \in Callers : q # p => local'[q] = local[q],
         Placed(p)'
  PROVE  Control'
<1> USE DEF Control
<1>1. TypeOK'
  <2>1. \A q \in Callers : phase'[q] \in {"open", "write"} => local'[q] \in Values(file'[q])
    BY Going DEF TypeOK, Placed
  <2> QED
    BY <2>1, Going DEF TypeOK, Recorded
<1> QED
  BY <1>1, Going, OneMoves DEF Others

LEMMA PhaseNames ==
  {"idle", "look", "asking", "read", "open", "write", "unlink", "rename", "purge"} = Phases
  BY DEF Phases

LEMMA LookControl ==
  ASSUME Control, NEW p \in Callers, Look(p)
  PROVE  Control'
<1>1. CASE Leave(p) /\ UNCHANGED shared
  BY <1>1, LookEffect, LeaveControl DEF TypeOK, Control, Stays
<1>2. ASSUME UNCHANGED <<op, local, at>>, NEW ph \in {"read", "asking"}, Goto(p, ph, Index),
             ph = "asking" => op[p].kind = "title", shared' \subseteq Files
      PROVE  Control'
  <2>1. Placed(p)'
    BY <1>2, LookEffect, Going, PhaseNames, FileNames DEF Placed, Control
  <2> QED
    BY <1>2, <2>1, LookEffect, PhaseNames, FileNames, StaysRecorded, GotoControl DEF Control, TypeOK
<1>3. Enter(p, Index) => shared' \subseteq Files
  BY Entering, FileNames DEF Control
<1> QED
  BY <1>1, <1>2, <1>3, LookEffect DEF Control, TypeOK

LEMMA SummarizedEffect ==
  ASSUME Control, NEW p \in Callers, Summarized(p)
  PROVE  /\ phase[p] = "asking" /\ op[p] # NoOp /\ UNCHANGED <<disk, temp, op, local, at>> /\ Stays
         /\ \/ file[p] = Index /\ Goto(p, "read", Index) /\ Enter(p, Index)
            \/ file[p] # Index /\ Goto(p, "open", file[p]) /\ UNCHANGED shared
  BY DEF Control, Placed, Summarized, Stays

LEMMA SummarizedControl ==
  ASSUME Control, NEW p \in Callers, Summarized(p)
  PROVE  Control'
<1>1. file[p] \in Files /\ "read" \in Phases /\ "open" \in Phases
  BY DEF Control, TypeOK, Phases
<1>2. Placed(p)'
  <2>1. CASE file[p] = Index /\ Goto(p, "read", Index)
    BY <1>1, <2>1, SummarizedEffect, Going DEF Placed, Control
  <2>2. CASE file[p] # Index /\ Goto(p, "open", file[p])
    BY <1>1, <2>2, SummarizedEffect, Going DEF Placed, Control
  <2> QED
    BY <2>1, <2>2, SummarizedEffect
<1>3. shared' \subseteq Files
  BY SummarizedEffect, Entering, FileNames DEF Control, TypeOK
<1> QED
  BY <1>1, <1>2, <1>3, SummarizedEffect, FileNames, StaysRecorded, GotoControl DEF Control, TypeOK

(* What a caller has read becomes what it will write. *)
LEMMA ReadEffect ==
  ASSUME Control, NEW p \in Callers, Read(p)
  PROVE  /\ phase[p] = "read" /\ op[p] # NoOp /\ op[p] \in Ops /\ file[p] \in Files
         /\ UNCHANGED <<disk, temp, shared>> /\ Stays
         /\ \/ Leave(p)
            \/ /\ UNCHANGED <<op, at>>
               /\ local' = [local EXCEPT ![p] = IF file[p] = Index
                                                THEN NewIndex(op[p], Loaded(Index))
                                                ELSE NewLog(op[p], Loaded(file[p]))]
               /\ local'[p] \in Values(file[p])
               /\ Goto(p, IF file[p] # Index /\ op[p].kind = "compact" THEN "asking" ELSE "open",
                       file[p])
<1> USE DEF Control
<1>1. phase[p] = "read" /\ op[p] # NoOp /\ op[p] \in Ops /\ file[p] \in Files
  BY DEF Read, Placed, TypeOK
<1>2. Loaded(file[p]) \in Values(file[p])
  BY <1>1, LoadedValue
<1>3. file[p] = Index => NewIndex(op[p], Loaded(Index)) \in Values(Index)
  BY <1>1, <1>2, NewIndexValue DEF Values
<1>4. file[p] # Index => NewLog(op[p], Loaded(file[p])) \in Values(file[p])
  BY <1>1, <1>2, OpShape DEF Values, NewLog
<1>5. CASE Leave(p)
  BY <1>1, <1>5 DEF Read, Stays, ghosts
<1>6. CASE ~Leave(p)
  <2>1. /\ UNCHANGED <<op, at>>
        /\ local' = [local EXCEPT ![p] = IF file[p] = Index
                                         THEN NewIndex(op[p], Loaded(Index))
                                         ELSE NewLog(op[p], Loaded(file[p]))]
        /\ Goto(p, IF file[p] # Index /\ op[p].kind = "compact" THEN "asking" ELSE "open",
                       file[p])
    BY <1>6 DEF Read
  <2>2. local'[p] \in Values(file[p])
    BY <1>3, <1>4, <2>1 DEF TypeOK
  <2> QED
    BY <1>1, <2>1, <2>2 DEF Read, Stays, ghosts
<1> QED
  BY <1>5, <1>6

LEMMA ReadControl ==
  ASSUME Control, NEW p \in Callers, Read(p)
  PROVE  Control'
<1>1. CASE Leave(p)
  BY <1>1, ReadEffect, LeaveControl DEF TypeOK, Control, Stays
<1>2. CASE ~Leave(p)
  <2> DEFINE ph == IF file[p] # Index /\ op[p].kind = "compact" THEN "asking" ELSE "open"
  <2>1. /\ UNCHANGED <<op, at>> /\ Goto(p, ph, file[p]) /\ local'[p] \in Values(file[p])
        /\ DOMAIN local' = Callers /\ \A q \in Callers : q # p => local'[q] = local[q]
        /\ ph \in Phases /\ file[p] \in Files
    BY <1>2, ReadEffect DEF Control, TypeOK, Phases
  <2>2. /\ phase'[p] = ph /\ file'[p] = file[p]
    BY <2>1, Going DEF Control
  <2>3. Placed(p)'
    BY <2>1, <2>2, ReadEffect DEF Placed, Control
  <2> QED
    BY <2>1, <2>3, ReadEffect, StaysRecorded, GotoControl DEF TypeOK, Control
<1> QED
  BY <1>1, <1>2

(* The temporary file is empty, and it is the one p has open. *)
LEMMA OpenControl ==
  ASSUME Control, NEW p \in Callers, Open(p)
  PROVE  Control'
<1> USE DEF Control, Open
<1>1. file[p] \in Files /\ "write" \in Phases /\ phase[p] = "open" /\ op[p] # NoOp
  BY DEF TypeOK, Phases, Placed
<1>2. Placed(p)'
  BY <1>1, Going DEF Placed, TypeOK
<1>3. /\ DOMAIN temp' = Files /\ at' \in [Callers -> {"temp", "path", "gone"}]
      /\ \A g \in Files : {disk'[g], temp'[g]} \ Unreadable \subseteq Values(g)
  BY <1>1 DEF TypeOK, Unreadable
<1>4. Stays /\ shared' = shared
  BY DEF Stays, ghosts
<1> QED
  BY <1>1, <1>2, <1>3, <1>4, StaysRecorded, GotoControl DEF TypeOK

(* What is written is what p had, or what cannot be read. *)
LEMMA WriteEffect ==
  ASSUME Control, NEW p \in Callers, Write(p)
  PROVE  /\ file[p] \in Files /\ phase[p] = "write" /\ op[p] # NoOp
         /\ local[p] \in Values(file[p])
         /\ op' = op /\ UNCHANGED <<used, ghosts>>
         /\ Goto(p, "unlink", file[p]) /\ at' = [at EXCEPT ![p] = "gone"]
         /\ local' = [local EXCEPT ![p] = {}]
         /\ DOMAIN disk' = Files /\ DOMAIN temp' = Files
         /\ \A g \in Files : g # file[p] => disk'[g] = disk[g] /\ temp'[g] = temp[g]
         /\ at[p] # "path" => disk' = disk
         /\ at[p] # "temp" => temp' = temp
         /\ disk'[file[p]] \in {disk[file[p]], local[p], Garbled}
         /\ temp'[file[p]] \in {temp[file[p]], local[p], Garbled}
         /\ at[p] = "temp" /\ temp[file[p]] = Blank => temp'[file[p]] = local[p]
         /\ seen' = seen \union Named(disk'[Index])
<1> DEFINE f == file[p]
<1>1. /\ f \in Files /\ phase[p] = "write" /\ op[p] # NoOp /\ local[p] \in Values(f)
      /\ DOMAIN disk = Files /\ DOMAIN temp = Files
  BY DEF Control, TypeOK, Placed, Write
<1>2. /\ at[p] = "temp" => \E x \in Over(temp[f], local[p]) : temp' = [temp EXCEPT ![f] = x]
      /\ at[p] # "temp" => temp' = temp
      /\ at[p] = "path" => \E x \in Over(disk[f], local[p]) : disk' = [disk EXCEPT ![f] = x]
      /\ at[p] # "path" => disk' = disk
  BY DEF Write
<1>3. \A y : /\ Over(y, local[p]) \subseteq {local[p], Garbled}
             /\ y = Blank => Over(y, local[p]) = {local[p]}
  BY DEF Over
<1>4. /\ DOMAIN temp' = Files /\ \A g \in Files : g # f => temp'[g] = temp[g]
      /\ temp'[f] \in {temp[f], local[p], Garbled}
      /\ at[p] = "temp" /\ temp[f] = Blank => temp'[f] = local[p]
  <2>1. CASE at[p] = "temp"
    <3>1. PICK x \in Over(temp[f], local[p]) : temp' = [temp EXCEPT ![f] = x]
      BY <1>2, <2>1
    <3> QED
      BY <1>1, <1>3, <3>1
  <2> QED
    BY <1>1, <1>2, <2>1
<1>5. /\ DOMAIN disk' = Files /\ \A g \in Files : g # f => disk'[g] = disk[g]
      /\ disk'[f] \in {disk[f], local[p], Garbled}
  <2>1. CASE at[p] = "path"
    <3>1. PICK x \in Over(disk[f], local[p]) : disk' = [disk EXCEPT ![f] = x]
      BY <1>2, <2>1
    <3> QED
      BY <1>1, <1>3, <3>1
  <2> QED
    BY <1>1, <1>2, <2>1
<1> QED
  BY <1>1, <1>2, <1>4, <1>5 DEF Write

LEMMA WriteControl ==
  ASSUME Control, NEW p \in Callers, Write(p)
  PROVE  Control'
<1> USE DEF Control
<1>1. "unlink" \in Phases
  BY DEF Phases
<1>2. /\ DOMAIN local' = Callers /\ local'[p] = {}
      /\ \A q \in Callers : q # p => local'[q] = local[q]
      /\ at' \in [Callers -> {"temp", "path", "gone"}]
  BY WriteEffect DEF TypeOK
<1>3. Placed(p)'
  BY <1>1, <1>2, WriteEffect, Going DEF Placed
<1>4. \A g \in Files : {disk'[g], temp'[g]} \ Unreadable \subseteq Values(g)
  <2>1. \A g \in Files : {disk[g], temp[g]} \ Unreadable \subseteq Values(g)
    BY DEF TypeOK
  <2> QED
    BY <2>1, WriteEffect DEF Unreadable
<1>5. Recorded
  BY WriteEffect DEF Recorded, TypeOK, ghosts, Named
<1>6. shared' \subseteq Files
  BY WriteEffect DEF TypeOK, ghosts
<1> QED
  BY <1>1, <1>2, <1>3, <1>4, <1>5, <1>6, WriteEffect, GotoControl DEF TypeOK

LEMMA UnlinkControl ==
  ASSUME Control, NEW p \in Callers, Unlink(p)
  PROVE  Control'
<1> USE DEF Control, Unlink
<1>1. file[p] \in Files /\ "rename" \in Phases /\ phase[p] = "unlink" /\ op[p] # NoOp
  BY DEF TypeOK, Phases, Placed
<1>2. Placed(p)'
  BY <1>1, Going DEF Placed, TypeOK
<1>3. /\ DOMAIN disk' = Files /\ at' \in [Callers -> {"temp", "path", "gone"}]
      /\ \A g \in Files : {disk'[g], temp'[g]} \ Unreadable \subseteq Values(g)
  BY <1>1 DEF TypeOK, Unreadable, Unlinked
<1>4. Stays /\ shared' = shared
  BY DEF Stays, ghosts
<1> QED
  BY <1>1, <1>2, <1>3, <1>4, StaysRecorded, GotoControl DEF TypeOK

LEMMA RenameRaisesControl ==
  ASSUME Control, NEW p \in Callers, RenameRaises(p)
  PROVE  Control'
  BY LeaveControl DEF RenameRaises, ghosts, Control, TypeOK

(* The four ways on from a rename. *)
Creates(p) == file[p] = Index /\ op[p].kind \in {"get", "create"}
Logs(p) == file[p] # Index /\ op[p].kind \in {"append", "compact"}
Deletes(p) == file[p] = Index /\ op[p].kind = "delete"

LEMMA RenameEffect ==
  ASSUME Control, NEW p \in Callers, Rename(p)
  PROVE  /\ file[p] \in Files /\ phase[p] = "rename" /\ temp[file[p]] # Missing
         /\ op[p] # NoOp /\ op[p] \in Ops /\ local[p] = {}
         /\ disk' = [disk EXCEPT ![file[p]] = temp[file[p]]]
         /\ temp' = [temp EXCEPT ![file[p]] = Missing]
         /\ at' = Renamed(file[p]) /\ UNCHANGED <<local, begun, used, holed>>
         /\ seen' = seen \union Named(disk'[Index])
         /\ listed' = (listed \union (IF Creates(p) THEN {op[p].conv} ELSE {}))
                      \ (IF Deletes(p) THEN {op[p].conv} ELSE {})
         /\ acked' = IF file[p] # Index /\ op[p].kind = "append"
                     THEN [acked EXCEPT ![op[p].conv] = @ \union {op[p].msg}] ELSE acked
         /\ \/ /\ Creates(p) /\ op' = op
               /\ Goto(p, "open", op[p].conv) /\ Enter(p, op[p].conv)
            \/ /\ Logs(p) /\ op' = op
               /\ Goto(p, "read", Index) /\ Enter(p, Index)
            \/ /\ Deletes(p) /\ op' = op
               /\ Goto(p, "purge", Index) /\ shared' = shared
            \/ /\ ~Creates(p) /\ ~Logs(p) /\ ~Deletes(p) /\ op' = [op EXCEPT ![p] = NoOp]
               /\ Goto(p, "idle", Index) /\ shared' = shared
<1>1. /\ file[p] \in Files /\ phase[p] = "rename" /\ temp[file[p]] # Missing
      /\ op[p] # NoOp /\ op[p] \in Ops /\ local[p] = {}
  BY DEF Control, TypeOK, Placed, Rename
<1>2. /\ disk' = [disk EXCEPT ![file[p]] = temp[file[p]]]
      /\ temp' = [temp EXCEPT ![file[p]] = Missing]
      /\ at' = Renamed(file[p]) /\ UNCHANGED <<local, begun, used, holed>>
      /\ seen' = seen \union Named(disk'[Index])
  BY DEF Rename
<1>3. /\ listed' = IF Creates(p) THEN listed \union {op[p].conv}
                   ELSE IF Deletes(p) THEN listed \ {op[p].conv} ELSE listed
      /\ acked' = IF Logs(p) /\ op[p].kind = "append"
                  THEN [acked EXCEPT ![op[p].conv] = @ \union {op[p].msg}] ELSE acked
  BY DEF Rename, Creates, Deletes, Logs
<1>4. Deletes(p) => ~Creates(p)
  BY DEF Creates, Deletes
<1>5. /\ \/ Creates(p) /\ Goto(p, "open", op[p].conv) /\ Enter(p, op[p].conv)
         \/ Logs(p) /\ Goto(p, "read", Index) /\ Enter(p, Index)
         \/ Deletes(p) /\ Goto(p, "purge", Index) /\ shared' = shared
         \/ ~Creates(p) /\ ~Logs(p) /\ ~Deletes(p) /\ Goto(p, "idle", Index) /\ shared' = shared
      /\ op' = IF Creates(p) \/ Logs(p) \/ Deletes(p) THEN op ELSE [op EXCEPT ![p] = NoOp]
  BY DEF Rename, Creates, Deletes, Logs
<1>6. Logs(p) /\ op[p].kind = "append" <=> file[p] # Index /\ op[p].kind = "append"
  BY DEF Logs
<1> QED
  BY <1>1, <1>2, <1>3, <1>4, <1>5, <1>6

LEMMA RenameControl ==
  ASSUME Control, NEW p \in Callers, Rename(p)
  PROVE  Control'
<1> USE DEF Control
<1>1. /\ {"open", "read", "purge", "idle"} \subseteq Phases /\ NoOp \in Ops
      /\ op[p].conv \in Convs /\ op[p].conv \in Files /\ op[p].conv # Index
      /\ op[p].kind = "append" => op[p].msg \in Msgs
  BY RenameEffect, OpShape, FileNames DEF Phases, Ops
<1>2. /\ DOMAIN disk' = Files /\ DOMAIN temp' = Files
      /\ at' \in [Callers -> {"temp", "path", "gone"}]
      /\ \A g \in Files : {disk'[g], temp'[g]} \ Unreadable \subseteq Values(g)
  BY RenameEffect DEF TypeOK, Unreadable, Renamed
<1>3. Recorded
  BY <1>1, RenameEffect DEF Recorded, TypeOK, Named
<1>4. op' \in [Callers -> Ops] /\ \A q \in Callers : q # p => op'[q] = op[q]
  BY <1>1, RenameEffect DEF TypeOK
<1>5. DOMAIN local' = Callers /\ local' = local
  BY RenameEffect DEF TypeOK
<1>6. ASSUME NEW ph \in Phases, NEW f \in Files, Goto(p, ph, f), shared' \subseteq Files, Placed(p)'
      PROVE  Control'
  BY <1>2, <1>3, <1>4, <1>5, <1>6, GotoControl
<1>7. CASE Creates(p) /\ op' = op /\ Goto(p, "open", op[p].conv) /\ Enter(p, op[p].conv)
  <2>1. Placed(p)'
    BY <1>1, <1>5, <1>7, Going, RenameEffect DEF Placed, Creates, Values
  <2> QED
    BY <1>1, <1>6, <1>7, <2>1, Entering
<1>8. CASE Logs(p) /\ op' = op /\ Goto(p, "read", Index) /\ Enter(p, Index)
  <2>1. Placed(p)'
    BY <1>1, <1>8, Going, RenameEffect, FileNames DEF Placed
  <2> QED
    BY <1>1, <1>6, <1>8, <2>1, Entering, FileNames
<1>9. CASE Deletes(p) /\ op' = op /\ Goto(p, "purge", Index) /\ shared' = shared
  <2>1. Placed(p)'
    BY <1>1, <1>9, Going, RenameEffect, FileNames DEF Placed, Deletes
  <2> QED
    BY <1>1, <1>6, <1>9, <2>1, FileNames DEF TypeOK
<1>10. CASE Goto(p, "idle", Index) /\ shared' = shared
  <2>1. Placed(p)'
    BY <1>1, <1>10, Going, FileNames DEF Placed
  <2> QED
    BY <1>1, <1>6, <1>10, <2>1, FileNames DEF TypeOK
<1> QED
  BY <1>7, <1>8, <1>9, <1>10, RenameEffect

(* A purge ends what it takes the file from, and p itself. *)
LEMMA PurgeEffect ==
  ASSUME Control, NEW p \in Callers, Purge(p)
  PROVE  /\ phase[p] = "purge" /\ file[p] = Index /\ op[p].conv \in Convs
         /\ \A q \in Callers :
              \/ /\ q = p \/ (file[q] = op[p].conv /\ phase[q] = "open")
                 /\ op'[q] = NoOp /\ phase'[q] = "idle" /\ file'[q] = Index /\ local'[q] = {}
              \/ /\ q # p /\ op'[q] = op[q] /\ phase'[q] = phase[q] /\ file'[q] = file[q]
                 /\ local'[q] = local[q]
                 /\ at'[q] = IF Working(q, op[p].conv) THEN "gone" ELSE at[q]
         /\ disk' = [disk EXCEPT ![op[p].conv] = Missing]
         /\ temp' = [temp EXCEPT ![op[p].conv] = Missing]
         /\ acked' = [acked EXCEPT ![op[p].conv] = {}]
         /\ shared \subseteq shared' /\ shared' \subseteq shared \union {op[p].conv}
         /\ op[p].conv \notin shared' => ~Overlap(p, op[p].conv)
         /\ UNCHANGED <<begun, used, seen, listed, holed>>
<1>1. phase[p] = "purge" /\ file[p] = Index /\ op[p] # NoOp /\ op[p] \in Ops
  BY DEF Purge, Control, TypeOK, Placed
<1>2. op[p].conv \in Convs
  BY <1>1, OpShape
<1>3. \A q \in Callers :
        \/ /\ q = p \/ (file[q] = op[p].conv /\ phase[q] = "open")
           /\ op'[q] = NoOp /\ phase'[q] = "idle" /\ file'[q] = Index /\ local'[q] = {}
        \/ /\ q # p /\ op'[q] = op[q] /\ phase'[q] = phase[q] /\ file'[q] = file[q]
           /\ local'[q] = local[q]
           /\ at'[q] = IF Working(q, op[p].conv) THEN "gone" ELSE at[q]
  BY DEF Purge, Ended, Working
<1> QED
  BY <1>1, <1>2, <1>3 DEF Purge

LEMMA PurgeControl ==
  ASSUME Control, NEW p \in Callers, Purge(p)
  PROVE  Control'
<1> USE DEF Control
<1>1. \A q \in Callers : Placed(q)'
  BY PurgeEffect, FileNames DEF Placed
<1>2. /\ op' \in [Callers -> Ops] /\ phase' \in [Callers -> Phases]
      /\ file' \in [Callers -> Files] /\ DOMAIN local' = Callers
      /\ at' \in [Callers -> {"temp", "path", "gone"}]
  <2>1. NoOp \in Ops /\ "idle" \in Phases /\ Index \in Files
    BY FileNames DEF Ops, Phases
  <2> QED
    BY <2>1 DEF Purge, TypeOK
<1>3. /\ DOMAIN disk' = Files /\ DOMAIN temp' = Files
      /\ \A g \in Files : {disk'[g], temp'[g]} \ Unreadable \subseteq Values(g)
      /\ acked' \in [Convs -> SUBSET Msgs] /\ shared' \subseteq Files
  BY PurgeEffect, FileNames DEF TypeOK, Unreadable
<1>4. \A q \in Callers : phase'[q] \in {"open", "write"} => local'[q] \in Values(file'[q])
  BY <1>1 DEF Placed
<1>5. TypeOK'
  BY <1>2, <1>3, <1>4, PurgeEffect DEF TypeOK
<1> QED
  BY <1>1, <1>5

LEMMA CrashControl ==
  ASSUME Control, Crash
  PROVE  Control'
<1> USE DEF Control, Crash
<1>1. \A q \in Callers : Placed(q)'
  BY DEF Placed
<1>2. /\ op' \in [Callers -> Ops] /\ phase' \in [Callers -> Phases]
      /\ file' \in [Callers -> Files] /\ DOMAIN local' = Callers
      /\ at' \in [Callers -> {"temp", "path", "gone"}]
  <2>1. NoOp \in Ops /\ "idle" \in Phases /\ Index \in Files
    BY FileNames DEF Ops, Phases
  <2> QED
    BY <2>1 DEF TypeOK
<1>3. holed' \subseteq Files
  BY DEF TypeOK
<1>4. TypeOK'
  BY <1>2, <1>3 DEF TypeOK
<1> QED
  BY <1>1, <1>4

LEMMA NextControl == Control /\ [Next]_vars => Control'
<1> SUFFICES ASSUME Control, [Next]_vars PROVE Control'
  OBVIOUS
<1>1. CASE UNCHANGED vars
  BY <1>1 DEF Control, TypeOK, Placed, vars
<1>2. ASSUME NEW p \in Callers,
             \/ BeginCreate(p) \/ BeginAppend(p) \/ BeginCompact(p)
             \/ BeginOnIndex(p) \/ BeginTitle(p)
      PROVE  Control'
  BY <1>2, Beginnings, BeginControl DEF Begun, Control
<1> QED
  BY <1>1, <1>2, LookControl, SummarizedControl, ReadControl, OpenControl, WriteControl,
     UnlinkControl, RenameRaisesControl, RenameControl, PurgeControl, CrashControl DEF Next

THEOREM ControlInvariance == Spec => []Control
  BY InitControl, NextControl, PTL DEF Spec

-----------------------------------------------------------------------------
(* Every index, on disk or on its way there, is sound.                     *)

(* It names one active conversation per pair, and none that nobody created. *)
Sound(x) == Lone(x) /\ Named(x) \subseteq used

SoundIndexes ==
  /\ Whole(disk[Index]) => Sound(disk[Index])
  /\ Whole(temp[Index]) => Sound(temp[Index])
  /\ \A p \in Callers : file[p] = Index /\ phase[p] \in {"open", "write"} => Sound(local[p])

(* Operations and logs are of conversations that somebody created.         *)
Drawn ==
  /\ seen \subseteq used
  /\ \A p \in Callers : op[p] # NoOp => op[p].conv \in used
  /\ \A c \in Convs : c \notin used => acked[c] = {}

SInv == SoundIndexes /\ Drawn

LEMMA InitSound == Init => SInv
  BY FileNames DEF Init, SInv, SoundIndexes, Drawn, Whole, Unreadable

LEMMA UnreadableNames == \A x \in Unreadable : Named(x) = {} /\ ~Whole(x)
  BY DEF Named, Whole

LEMMA LoadedSound ==
  ASSUME SoundIndexes
  PROVE  Sound(Loaded(Index))
<1>1. CASE disk[Index] \in Unreadable
  <2>1. Loaded(Index) = NoConvs
    BY <1>1 DEF Loaded
  <2> QED
    BY <2>1, AbsentEntry DEF Sound, Lone, Named, NoConvs
<1>2. CASE disk[Index] \notin Unreadable
  BY <1>2 DEF Loaded, SoundIndexes, Whole
<1> QED
  BY <1>1, <1>2

(* A step of p that draws no fewer identifiers, ends with a sound index in *)
(* every place it has changed, and leaves the others what they have.       *)
LEMMA SoundStep ==
  ASSUME SInv, NEW p \in Callers, used \subseteq used',
         Whole(disk'[Index]) => Lone(disk'[Index]) /\ Named(disk'[Index]) \subseteq used',
         Whole(temp'[Index]) => Lone(temp'[Index]) /\ Named(temp'[Index]) \subseteq used',
         \A q \in Callers : q # p =>
           /\ file'[q] = Index /\ phase'[q] \in {"open", "write"}
                => file[q] = Index /\ phase[q] \in {"open", "write"} /\ local'[q] = local[q]
           /\ op'[q] \in {op[q], NoOp},
         file'[p] = Index /\ phase'[p] \in {"open", "write"}
           => Lone(local'[p]) /\ Named(local'[p]) \subseteq used',
         op'[p] # NoOp => op'[p].conv \in used',
         seen' \subseteq used', \A c \in Convs : acked'[c] # {} => acked[c] # {} \/ c \in used'
  PROVE  SInv'
  BY DEF SInv, SoundIndexes, Sound, Drawn, Whole

LEMMA SameIndexes ==
  ASSUME SInv, used \subseteq used'
  PROVE  /\ \A x \in {disk[Index], temp[Index]} :
              Whole(x) => Lone(x) /\ Named(x) \subseteq used'
         /\ seen \subseteq used'
         /\ \A q \in Callers : /\ op[q] # NoOp => op[q].conv \in used'
                               /\ file[q] = Index /\ phase[q] \in {"open", "write"}
                                    => Lone(local[q]) /\ Named(local[q]) \subseteq used'
  BY DEF SInv, SoundIndexes, Sound, Drawn

LEMMA BeginSound ==
  ASSUME Control, SInv, NEW p \in Callers, NEW o \in Ops, NEW ph \in {"look", "read"},
         NEW f \in Files, Begun(p, o, ph, f)
  PROVE  SInv'
<1>1. /\ UNCHANGED <<disk, temp, local, at, seen, acked, listed, holed>>
      /\ Others(p) /\ op'[p] = o /\ phase'[p] = ph
  BY BeginEffect DEF Control, Begun
<1>2. used \subseteq used' /\ o.conv \in used'
  BY DEF Begun, SInv, Drawn
<1> QED
  BY <1>1, <1>2, SameIndexes, SoundStep DEF Others

(* A step that ends the operation of p and touches no sound index. *)
LEMMA LeaveSound ==
  ASSUME Control, SInv, NEW p \in Callers, Leave(p), UNCHANGED <<disk, temp, used, seen, acked>>
  PROVE  SInv'
  BY Leaving, SameIndexes, SoundStep DEF Control

LEMMA GoSound ==
  ASSUME Control, SInv, NEW p \in Callers, NEW ph \in Phases, NEW f \in Files, Goto(p, ph, f),
         ph \notin {"open", "write"} \/ f # Index,
         UNCHANGED <<disk, temp, used, seen, acked, op>>,
         \A q \in Callers : q # p => local'[q] = local[q]
  PROVE  SInv'
  BY Going, SameIndexes, SoundStep DEF Control

LEMMA LookSound ==
  ASSUME Control, SInv, NEW p \in Callers, Look(p)
  PROVE  SInv'
  BY LookEffect, LeaveSound, GoSound, PhaseNames, FileNames DEF Stays

LEMMA SummarizedSound ==
  ASSUME Control, SInv, NEW p \in Callers, Summarized(p)
  PROVE  SInv'
<1>1. file[p] \in Files /\ "read" \in Phases /\ "open" \in Phases
  BY DEF Control, TypeOK, Phases
<1> QED
  BY <1>1, SummarizedEffect, GoSound, FileNames DEF Stays

LEMMA ReadSound ==
  ASSUME Control, SInv, NEW p \in Callers, Read(p)
  PROVE  SInv'
<1>1. CASE Leave(p)
  BY <1>1, ReadEffect, LeaveSound DEF Stays
<1>2. CASE ~Leave(p)
  <2> DEFINE ph == IF file[p] # Index /\ op[p].kind = "compact" THEN "asking" ELSE "open"
             y == NewIndex(op[p], Loaded(Index))
  <2>1. /\ UNCHANGED <<disk, temp, op>> /\ Stays /\ Goto(p, ph, file[p])
        /\ file[p] \in Files /\ op[p] \in Ops /\ op[p] # NoOp
        /\ file[p] = Index => local'[p] = y
        /\ \A q \in Callers : q # p => local'[q] = local[q]
    BY <1>2, ReadEffect DEF Control, TypeOK
  <2>2. ph \in Phases
    BY DEF Phases
  <2>3. Lone(y) /\ Named(y) \subseteq used
    <3>1. Loaded(Index) \in Indexes /\ Sound(Loaded(Index))
      BY LoadedValue, LoadedSound, FileNames DEF Control, Values, SInv
    <3>2. op[p].conv \in used
      BY <2>1 DEF SInv, Drawn
    <3> QED
      BY <2>1, <3>1, <3>2, NewIndexLone, NewIndexNamed DEF Sound, Entered
  <2> HIDE DEF y
  <2>4. file'[p] = file[p] /\ \A q \in Callers : q # p => phase'[q] = phase[q] /\ file'[q] = file[q]
    BY <2>1, <2>2, Going DEF Control
  <2> QED
    BY <2>1, <2>3, <2>4, SameIndexes, SoundStep DEF Stays
<1> QED
  BY <1>1, <1>2

LEMMA OpenSound ==
  ASSUME Control, SInv, NEW p \in Callers, Open(p)
  PROVE  SInv'
<1> USE DEF Open
<1>1. file[p] \in Files /\ "write" \in Phases
  BY DEF Control, TypeOK, Phases
<1>2. file'[p] = file[p] /\ \A q \in Callers : q # p => phase'[q] = phase[q] /\ file'[q] = file[q]
  BY <1>1, Going DEF Control
<1>3. temp'[Index] = IF file[p] = Index THEN Blank ELSE temp[Index]
  BY FileNames DEF Control, TypeOK
<1>4. ~Whole(Blank)
  BY DEF Whole, Unreadable
<1> QED
  BY <1>1, <1>2, <1>3, <1>4, SameIndexes, SoundStep DEF ghosts

LEMMA WriteSound ==
  ASSUME Control, SInv, NEW p \in Callers, Write(p)
  PROVE  SInv'
<1>1. ~Whole(Garbled) /\ Named(Garbled) = {} /\ "unlink" \in Phases
  BY DEF Whole, Unreadable, Named, Phases
<1>2. \A x \in {disk'[Index], temp'[Index]} : Whole(x) => Lone(x) /\ Named(x) \subseteq used'
  BY <1>1, WriteEffect, SameIndexes, FileNames
<1>3. seen' \subseteq used'
  <2>1. Named(disk'[Index]) \subseteq used'
    BY <1>2, UnreadableNames DEF Whole
  <2> QED
    BY <2>1, WriteEffect, SameIndexes
<1>4. phase'[p] = "unlink" /\ \A q \in Callers : q # p => phase'[q] = phase[q] /\ file'[q] = file[q]
  BY <1>1, WriteEffect, Going DEF Control
<1>5. \A q \in Callers : q # p => local'[q] = local[q]
  BY WriteEffect DEF Control, TypeOK
<1> QED
  BY <1>2, <1>3, <1>4, <1>5, WriteEffect, SameIndexes, SoundStep DEF ghosts

LEMMA UnlinkSound ==
  ASSUME Control, SInv, NEW p \in Callers, Unlink(p)
  PROVE  SInv'
<1> USE DEF Unlink
<1>1. file[p] \in Files /\ "rename" \in Phases
  BY DEF Control, TypeOK, Phases
<1>2. phase'[p] = "rename" /\ \A q \in Callers : q # p => phase'[q] = phase[q] /\ file'[q] = file[q]
  BY <1>1, Going DEF Control
<1>3. disk'[Index] = IF file[p] = Index THEN Missing ELSE disk[Index]
  BY FileNames DEF Control, TypeOK
<1>4. ~Whole(Missing)
  BY DEF Whole, Unreadable
<1> QED
  BY <1>1, <1>2, <1>3, <1>4, SameIndexes, SoundStep DEF ghosts

LEMMA RenameSound ==
  ASSUME Control, SInv, NEW p \in Callers, Rename(p)
  PROVE  SInv'
<1>1. ~Whole(Missing) /\ {"open", "read", "purge", "idle"} \subseteq Phases
  BY DEF Whole, Unreadable, Phases
<1>2. /\ disk'[Index] \in {disk[Index], temp[Index]} /\ temp'[Index] \in {temp[Index], Missing}
  BY RenameEffect, FileNames DEF Control, TypeOK
<1>3. seen' \subseteq used' /\ used' = used
  <2>1. used' = used
    BY RenameEffect
  <2>2. Named(disk'[Index]) \subseteq used
    BY <1>2, <2>1, UnreadableNames, SameIndexes DEF Whole
  <2> QED
    BY <2>1, <2>2, RenameEffect, SameIndexes
<1>4. op[p].conv \in Convs /\ op[p].conv \in Files /\ op[p].conv # Index /\ op[p].conv \in used
  BY RenameEffect, OpShape, FileNames DEF SInv, Drawn
<1>5. /\ phase'[p] \notin {"open", "write"} \/ file'[p] # Index
      /\ \A q \in Callers : q # p => phase'[q] = phase[q] /\ file'[q] = file[q]
  BY <1>1, <1>4, RenameEffect, Going, FileNames DEF Control
<1>6. op'[p] \in {op[p], NoOp} /\ \A q \in Callers : q # p => op'[q] = op[q]
  BY RenameEffect DEF Control, TypeOK
<1>7. \A c \in Convs : acked'[c] # {} => acked[c] # {} \/ c \in used
  BY <1>4, RenameEffect DEF Control, TypeOK
<1> QED
  BY <1>1, <1>2, <1>3, <1>4, <1>5, <1>6, <1>7, RenameEffect, SameIndexes, SoundStep

LEMMA PurgeSound ==
  ASSUME Control, SInv, NEW p \in Callers, Purge(p)
  PROVE  SInv'
<1>1. disk'[Index] = disk[Index] /\ temp'[Index] = temp[Index]
  BY PurgeEffect, FileNames DEF Control, TypeOK
<1>2. \A c \in Convs : acked'[c] # {} => acked[c] # {}
  BY PurgeEffect DEF Control, TypeOK
<1> QED
  BY <1>1, <1>2, PurgeEffect, SameIndexes, SoundStep

LEMMA NextSound == Control /\ SInv /\ [Next]_vars => SInv'
<1> SUFFICES ASSUME Control, SInv, [Next]_vars PROVE SInv'
  OBVIOUS
<1>1. CASE UNCHANGED vars
  BY <1>1 DEF SInv, SoundIndexes, Sound, Drawn, Whole, vars
<1>2. ASSUME NEW p \in Callers,
             \/ BeginCreate(p) \/ BeginAppend(p) \/ BeginCompact(p)
             \/ BeginOnIndex(p) \/ BeginTitle(p)
      PROVE  SInv'
  BY <1>2, Beginnings, BeginSound DEF Control
<1>3. ASSUME NEW p \in Callers, RenameRaises(p)
      PROVE  SInv'
  BY <1>3, LeaveSound DEF RenameRaises, ghosts
<1>4. CASE Crash
  BY <1>4 DEF Crash, SInv, SoundIndexes, Sound, Drawn, Whole
<1> QED
  BY <1>1, <1>2, <1>3, <1>4, LookSound, SummarizedSound, ReadSound, OpenSound, WriteSound,
     UnlinkSound, RenameSound, PurgeSound DEF Next

THEOREM SoundInvariance == Spec => []SInv
  BY ControlInvariance, InitSound, NextSound, PTL DEF Spec

(* No index that anyone could read names two active conversations of one   *)
(* channel and sender, whatever operations overlap and whenever the        *)
(* process dies: for any people, conversations and callers.                *)
THEOREM OneConversationActive == Spec => []OneActive
<1>1. ASSUME SInv, NEW x \in {disk[Index], temp[Index]}, Whole(x), NEW pair \in Pairs
      PROVE  Cardinality(Active(x, pair)) <= 1
  <2>1. Lone(x)
    BY <1>1 DEF SInv, SoundIndexes, Sound
  <2>2. CASE Active(x, pair) = {}
    BY <2>2, FS_EmptySet
  <2>3. CASE Active(x, pair) # {}
    <3>1. PICK c \in Active(x, pair) : TRUE
      BY <2>3
    <3>2. Active(x, pair) = {c}
      BY <2>1, <3>1 DEF Lone, Active
    <3>3. Cardinality({c}) = 1
      BY FS_Singleton
    <3> QED
      BY <3>2, <3>3
  <2> QED
    BY <2>2, <2>3
<1>2. SInv => OneActive
  BY <1>1 DEF OneActive
<1> QED
  BY <1>2, SoundInvariance, PTL

-----------------------------------------------------------------------------
(* A file on which no operations overlapped is never without what is owed. *)

Alone(f) ==
  \A p, q \in Callers : p # q /\ Working(p, f) => ~Working(q, f) /\ ~Creating(q, f)

(* What the readers of a file are owed, and what a content gives them.     *)
Owed(f) == IF f = Index THEN listed ELSE acked[f]
Held(f, x) == IF f = Index THEN Named(x) ELSE x
Intact(f) == disk[f] \in Values(f) \union {Missing} /\ Owed(f) \subseteq Held(f, Loaded(f))

(* What will be owed once p has renamed, and what it has in hand for it.   *)
Added(o) == IF o.kind = "append" THEN {o.msg} ELSE {}
Due(p) ==
  IF file[p] = Index THEN (listed \union Entered(op[p])) \ Dropped(op[p])
  ELSE acked[file[p]] \union Added(op[p])
Promised(p, x) == x \in Values(file[p]) /\ Due(p) \subseteq Held(file[p], x)
InHand(p) ==
  /\ phase[p] \in {"open", "write"} \/ (phase[p] = "asking" /\ file[p] # Index)
       => Promised(p, local[p])
  /\ phase[p] = "write" => at[p] = "temp" /\ temp[file[p]] = Blank
  /\ phase[p] \in {"unlink", "rename"} => Promised(p, temp[file[p]])

Safe(f) ==
  f \notin shared \union holed =>
    /\ Alone(f)
    /\ Intact(f) \/ \E p \in Callers : file[p] = f /\ phase[p] = "rename"
    /\ \A p \in Callers : file[p] = f => InHand(p)
    /\ f # Index => \A p \in Callers : Creating(p, f) => acked[f] = {}

AllSafe == \A f \in Files : Safe(f)

LEMMA NoEntries == NoConvs \in Indexes /\ Named(NoConvs) = {}
  BY DEF NoConvs, Indexes, Named

LEMMA InitSafe == Init => AllSafe
<1> SUFFICES ASSUME Init, NEW f \in Files PROVE Safe(f)
  BY DEF AllSafe
<1> USE DEF Init
<1>1. Intact(f)
  BY NoEntries, FileNames DEF Intact, Owed, Held, Loaded, Unreadable
<1>2. Alone(f) /\ \A p \in Callers : InHand(p) /\ ~Creating(p, f)
  BY DEF Alone, Working, InHand, Creating, NoOp
<1> QED
  BY <1>1, <1>2 DEF Safe

(* Whoever has a log at hand works on it. *)
LEMMA HandWorks ==
  ASSUME Control, NEW p \in Callers
  PROVE  /\ phase[p] \in {"open", "write", "unlink", "rename"} => Working(p, file[p])
         /\ file[p] # Index => Working(p, file[p])
  BY DEF Control, Placed, Working

(* A file that a step does not touch. *)
LEMMA SafeElsewhere ==
  ASSUME Control', NEW f \in Files, Safe(f), disk'[f] = disk[f], temp'[f] = temp[f],
         shared \subseteq shared', holed \subseteq holed', Owed(f)' = Owed(f),
         \A q \in Callers :
           /\ Working(q, f)' => /\ Working(q, f) /\ op'[q] = op[q] /\ phase'[q] = phase[q]
                                /\ file'[q] = file[q] /\ local'[q] = local[q] /\ at'[q] = at[q]
           /\ Creating(q, f)' => Creating(q, f)
           /\ file[q] = f /\ phase[q] = "rename" => file'[q] = f /\ phase'[q] = "rename"
  PROVE  Safe(f)'
<1> SUFFICES ASSUME f \notin shared' \union holed'
             PROVE  /\ Alone(f)'
                    /\ (Intact(f) \/ \E p \in Callers : file[p] = f /\ phase[p] = "rename")'
                    /\ \A p \in Callers : file'[p] = f => InHand(p)'
                    /\ f # Index => \A p \in Callers : Creating(p, f)' => acked'[f] = {}
  BY DEF Safe
<1>1. /\ Alone(f)
      /\ Intact(f) \/ \E p \in Callers : file[p] = f /\ phase[p] = "rename"
      /\ \A p \in Callers : file[p] = f => InHand(p)
      /\ f # Index => \A p \in Callers : Creating(p, f) => acked[f] = {}
  BY DEF Safe
<1>2. Alone(f)'
  BY <1>1 DEF Alone
<1>3. Intact(f) => Intact(f)'
  BY DEF Intact, Loaded, Held, Named
<1>4. ASSUME NEW p \in Callers, file'[p] = f
      PROVE  InHand(p)'
  <2>1. CASE Working(p, f)'
    <3>1. /\ op'[p] = op[p] /\ phase'[p] = phase[p] /\ file[p] = f
          /\ local'[p] = local[p] /\ at'[p] = at[p] /\ InHand(p)
      BY <1>1, <1>4, <2>1
    <3>2. Due(p)' = Due(p)
      BY <1>4, <3>1 DEF Due, Owed, Entered, Dropped, Added
    <3>3. \A x : Promised(p, x) => Promised(p, x)'
      BY <1>4, <3>1, <3>2 DEF Promised, Held, Named
    <3> QED
      BY <1>4, <3>1, <3>3 DEF InHand
  <2>2. CASE ~Working(p, f)'
    <3>1. phase'[p] \notin {"open", "write", "unlink", "rename"} /\ f = Index
      BY <1>4, <2>2 DEF Control, Placed, Working
    <3> QED
      BY <1>4, <3>1 DEF InHand
  <2> QED
    BY <2>1, <2>2
<1> QED
  BY <1>1, <1>2, <1>3, <1>4 DEF Owed

(* The file that p, alone, works on. *)
LEMMA SafeOwn ==
  ASSUME Control', NEW p \in Callers, NEW f \in Files, Safe(f), Working(p, f),
         shared \subseteq shared', holed \subseteq holed',
         f \notin shared \union holed =>
           /\ Intact(f)' \/ (file'[p] = f /\ phase'[p] = "rename")
           /\ file'[p] = f => InHand(p)'
           /\ f # Index => \A q \in Callers : Creating(q, f)' => acked'[f] = {},
         \A q \in Callers : q # p => /\ Working(q, f)' => Working(q, f)
                                     /\ Creating(q, f)' => Creating(q, f)
  PROVE  Safe(f)'
<1> SUFFICES ASSUME f \notin shared \union holed
             PROVE  /\ Alone(f)'
                    /\ (Intact(f) \/ \E q \in Callers : file[q] = f /\ phase[q] = "rename")'
                    /\ \A q \in Callers : file'[q] = f => InHand(q)'
                    /\ f # Index => \A q \in Callers : Creating(q, f)' => acked'[f] = {}
  BY DEF Safe
<1>1. \A q \in Callers : q # p => ~Working(q, f)' /\ ~Creating(q, f)'
  BY DEF Safe, Alone
<1>2. \A q \in Callers : q # p /\ file'[q] = f => InHand(q)'
  <2> SUFFICES ASSUME NEW q \in Callers, q # p, file'[q] = f PROVE InHand(q)'
    OBVIOUS
  <2>1. phase'[q] \notin {"open", "write", "unlink", "rename"} /\ f = Index
    BY <1>1 DEF Control, Placed, Working
  <2> QED
    BY <2>1 DEF InHand
<1> QED
  BY <1>1, <1>2 DEF Alone

(* The file that p begins to work on: any other worker shares it. *)
LEMMA SafeEntered ==
  ASSUME Control, Control', NEW p \in Callers, NEW f \in Files, Safe(f), Enter(p, f),
         ~Working(p, f), disk'[f] = disk[f], temp'[f] = temp[f], holed \subseteq holed',
         Owed(f)' = Owed(f), Creating(p, f)' => Creating(p, f), phase'[p] # "rename",
         file'[p] = f, f \notin shared \union holed => InHand(p)', Others(p)
  PROVE  Safe(f)'
<1> SUFFICES ASSUME f \notin shared' \union holed'
             PROVE  /\ Alone(f)'
                    /\ (Intact(f) \/ \E q \in Callers : file[q] = f /\ phase[q] = "rename")'
                    /\ \A q \in Callers : file'[q] = f => InHand(q)'
                    /\ f # Index => \A q \in Callers : Creating(q, f)' => acked'[f] = {}
  BY DEF Safe
<1>1. f \notin shared \union holed /\ \A q \in Callers : q # p => ~Working(q, f) /\ ~Creating(q, f)
  BY Entering DEF Control, Overlap
<1>2. \A q \in Callers : q # p => ~Working(q, f)' /\ ~Creating(q, f)'
  BY <1>1 DEF Others, Working, Creating
<1>3. Intact(f)'
  <2>1. Intact(f)
    BY <1>1, HandWorks DEF Safe, Working
  <2> QED
    BY <2>1 DEF Intact, Loaded, Held, Named
<1>4. \A q \in Callers : q # p /\ file'[q] = f => InHand(q)'
  <2> SUFFICES ASSUME NEW q \in Callers, q # p, file'[q] = f PROVE InHand(q)'
    OBVIOUS
  <2>1. phase'[q] \notin {"open", "write", "unlink", "rename"} /\ f = Index
    BY <1>2 DEF Control, Placed, Working
  <2> QED
    BY <2>1 DEF InHand
<1>5. f # Index => \A q \in Callers : Creating(q, f)' => acked'[f] = {}
  BY <1>1, <1>2 DEF Safe, Owed
<1> QED
  BY <1>1, <1>2, <1>3, <1>4, <1>5 DEF Alone

(* A conversation that nobody has drawn yet has neither workers nor log. *)
LEMMA Undrawn ==
  ASSUME Control, SInv, NEW c \in Convs, c \notin used
  PROVE  /\ \A q \in Callers : file[q] # c /\ ~Working(q, c) /\ ~Creating(q, c)
         /\ acked[c] = {}
  BY FileNames DEF Control, Placed, SInv, Drawn, Working, Creating, NoOp

LEMMA BeginSafe ==
  ASSUME Control, Control', SInv, AllSafe, NEW p \in Callers, NEW o \in Ops,
         NEW ph \in {"look", "read"}, NEW g \in Files, Begun(p, o, ph, g)
  PROVE  AllSafe'
<1>1. /\ phase[p] = "idle" /\ op'[p] = o /\ phase'[p] = ph /\ file'[p] = g /\ Others(p)
      /\ shared \subseteq shared' /\ (ph = "read" => Enter(p, g))
      /\ UNCHANGED <<disk, temp, local, at, seen, acked, listed, holed>>
  BY BeginEffect DEF Control, Begun
<1>2. Starts(o, ph, g) /\ (o.kind \in {"get", "create"} => o.conv \notin used)
  BY DEF Begun
<1> SUFFICES ASSUME NEW f \in Files PROVE Safe(f)'
  BY DEF AllSafe
<1>3. Safe(f) /\ ~Working(p, f) /\ Owed(f)' = Owed(f)
  BY <1>1 DEF AllSafe, Working, Owed
<1>4. CASE ph = "read" /\ f = g
  <2>1. Creating(p, f)' => Creating(p, f)
    BY <1>1, <1>2, <1>4, OpShape, FileNames DEF Creating, Starts
  <2>2. InHand(p)'
    BY <1>1, <1>4 DEF InHand
  <2> QED
    BY <1>1, <1>3, <1>4, <2>1, <2>2, SafeEntered
<1>5. CASE ph = "look" \/ f # g
  <2>1. ~Working(p, f)'
    BY <1>1, <1>5 DEF Working
  <2>2. CASE Creating(p, f)'
    <3>1. f = o.conv /\ f \in Convs /\ f \notin used
      BY <1>1, <1>2, <2>2, OpShape DEF Creating, Starts
    <3>2. \A q \in Callers : q # p => ~Working(q, f)' /\ file'[q] # f
      BY <1>1, <3>1, Undrawn DEF Others, Working
    <3>3. acked'[f] = {} /\ f # Index
      BY <1>1, <3>1, Undrawn, FileNames
    <3>4. Intact(f) => Intact(f)'
      BY <1>1, <1>3 DEF Intact, Loaded, Held, Named
    <3>5. f \notin shared \union holed => Intact(f)
      BY <1>3, <3>1, Undrawn DEF Safe
    <3>6. file'[p] = f => InHand(p)'
      BY <1>1, <1>5, <3>3 DEF InHand, Starts
    <3> QED
      BY <1>1, <2>1, <3>2, <3>3, <3>4, <3>5, <3>6 DEF Safe, Alone
  <2>3. CASE ~Creating(p, f)'
    <3>1. \A q \in Callers :
           /\ Working(q, f)' => /\ Working(q, f) /\ op'[q] = op[q] /\ phase'[q] = phase[q]
                                /\ file'[q] = file[q] /\ local'[q] = local[q] /\ at'[q] = at[q]
           /\ Creating(q, f)' => Creating(q, f)
           /\ file[q] = f /\ phase[q] = "rename" => file'[q] = f /\ phase'[q] = "rename"
      BY <1>1, <2>1, <2>3 DEF Others, Working, Creating
    <3> QED
      BY <1>1, <1>3, <3>1, SafeElsewhere
  <2> QED
    BY <2>2, <2>3
<1> QED
  BY <1>1, <1>4, <1>5

(* A file that p does not work on, or no longer. *)
LEMMA SafeAway ==
  ASSUME Control', NEW p \in Callers, NEW f \in Files, Safe(f), Others(p),
         ~Working(p, f)', ~(file[p] = f /\ phase[p] = "rename"),
         Creating(p, f)' => Creating(p, f),
         \A q \in Callers : q # p /\ file[q] = f => at'[q] = at[q],
         disk'[f] = disk[f], temp'[f] = temp[f],
         shared \subseteq shared', holed \subseteq holed', Owed(f)' = Owed(f)
  PROVE  Safe(f)'
<1>1. \A q \in Callers :
        /\ Working(q, f)' => /\ Working(q, f) /\ op'[q] = op[q] /\ phase'[q] = phase[q]
                             /\ file'[q] = file[q] /\ local'[q] = local[q] /\ at'[q] = at[q]
        /\ Creating(q, f)' => Creating(q, f)
        /\ file[q] = f /\ phase[q] = "rename" => file'[q] = f /\ phase'[q] = "rename"
  BY DEF Others, Working, Creating
<1> QED
  BY <1>1, SafeElsewhere

LEMMA LeaveSafe ==
  ASSUME Control, Control', AllSafe, NEW p \in Callers, Leave(p), phase[p] # "rename",
         UNCHANGED <<disk, temp, shared>>, Stays
  PROVE  AllSafe'
<1> SUFFICES ASSUME NEW f \in Files PROVE Safe(f)'
  BY DEF AllSafe
<1>1. /\ Others(p) /\ op'[p] = NoOp /\ phase'[p] = "idle"
      /\ \A q \in Callers : q # p => at'[q] = at[q]
  BY Leaving DEF Others, Control
<1>2. ~Working(p, f)' /\ ~Creating(p, f)'
  BY <1>1 DEF Working, Creating, NoOp
<1>3. Safe(f) /\ Owed(f)' = Owed(f)
  BY DEF AllSafe, Owed, Stays
<1> QED
  BY <1>1, <1>2, <1>3, SafeAway DEF Stays

(* A step to reading the index, from outside of it, or to the titler's call. *)
LEMMA GoSafe ==
  ASSUME Control, Control', AllSafe, NEW p \in Callers, phase[p] \in {"look", "asking"},
         file[p] = Index, op[p] # NoOp,
         \/ Goto(p, "read", Index) /\ Enter(p, Index)
         \/ op[p].kind = "title" /\ Goto(p, "asking", Index) /\ UNCHANGED shared,
         UNCHANGED <<disk, temp, op, local, at>>, Stays
  PROVE  AllSafe'
<1> SUFFICES ASSUME NEW f \in Files PROVE Safe(f)'
  BY DEF AllSafe
<1>1. /\ Others(p) /\ file'[p] = Index
      /\ \/ phase'[p] = "read" /\ Enter(p, Index)
         \/ phase'[p] = "asking" /\ shared' = shared
  BY Going, PhaseNames, FileNames DEF Others, Control
<1>2. ~Working(p, f) /\ (Creating(p, f)' => Creating(p, f)) /\ shared \subseteq shared'
  <2>1. phase[p] = "asking" => op[p].kind = "title"
    BY DEF Control, Placed
  <2> QED
    BY <1>1, <2>1, Entering, FileNames DEF Working, Creating, Control
<1>3. Safe(f) /\ Owed(f)' = Owed(f)
  BY DEF AllSafe, Owed, Stays
<1>4. CASE f = Index /\ phase'[p] = "read" /\ Enter(p, Index)
  <2>1. InHand(p)'
    BY <1>1, <1>4 DEF InHand
  <2> QED
    BY <1>1, <1>2, <1>3, <1>4, <2>1, SafeEntered DEF Stays
<1>5. CASE f # Index \/ phase'[p] = "asking"
  <2>1. ~Working(p, f)'
    BY <1>1, <1>5 DEF Working, Control, Placed
  <2> QED
    BY <1>1, <1>2, <1>3, <2>1, SafeAway DEF Stays
<1> QED
  BY <1>1, <1>4, <1>5

LEMMA LookSafe ==
  ASSUME Control, Control', AllSafe, NEW p \in Callers, Look(p)
  PROVE  AllSafe'
  BY LookEffect, LeaveSafe, GoSafe

(* A step of p on the file it works on, which no other file notices.       *)
LEMMA OwnSafe ==
  ASSUME Control, Control', AllSafe, NEW p \in Callers, Working(p, file[p]), Others(p),
         file'[p] = file[p], op'[p] = op[p], UNCHANGED <<shared, listed, acked, holed>>,
         \A f \in Files : f # file[p] => disk'[f] = disk[f] /\ temp'[f] = temp[f],
         \A q \in Callers : file[q] # file[p] => at'[q] = at[q],
         file[p] \notin shared \union holed =>
           /\ Intact(file[p])' \/ phase'[p] = "rename"
           /\ InHand(p)'
  PROVE  AllSafe'
<1> SUFFICES ASSUME NEW f \in Files PROVE Safe(f)'
  BY DEF AllSafe
<1>1. Safe(f)
  BY DEF AllSafe
<1>2. \A q \in Callers : Creating(q, f)' => Creating(q, f)
  BY DEF Others, Creating
<1>3. CASE f = file[p]
  <2>1. \A q \in Callers : q # p => (Working(q, f)' => Working(q, f))
    BY DEF Others, Working
  <2>2. f \notin shared \union holed /\ f # Index =>
          \A q \in Callers : Creating(q, f)' => acked'[f] = {}
    BY <1>1, <1>2 DEF Safe
  <2> QED
    BY <1>1, <1>2, <1>3, <2>1, <2>2, SafeOwn
<1>4. CASE f # file[p]
  <2>1. ~Working(p, f)' /\ Owed(f)' = Owed(f)
    BY <1>4 DEF Working, Owed
  <2> QED
    BY <1>1, <1>2, <1>4, <2>1, SafeAway
<1> QED
  BY <1>3, <1>4

(* What p, alone on its file, can rely on. *)
LEMMA OwnFacts ==
  ASSUME AllSafe, NEW p \in Callers, file[p] \in Files, Working(p, file[p]),
         file[p] \notin shared \union holed
  PROVE  /\ Intact(file[p]) \/ phase[p] = "rename"
         /\ InHand(p)
         /\ \A q \in Callers : q # p => ~Working(q, file[p]) /\ ~Creating(q, file[p])
         /\ file[p] # Index /\ Creating(p, file[p]) => acked[file[p]] = {}
  BY DEF AllSafe, Safe, Alone, Working

LEMMA SummarizedSafe ==
  ASSUME Control, Control', AllSafe, NEW p \in Callers, Summarized(p)
  PROVE  AllSafe'
<1>1. CASE file[p] = Index
  BY <1>1, SummarizedEffect, GoSafe
<1>2. CASE file[p] # Index
  <2>1. /\ phase'[p] = "open" /\ file'[p] = file[p] /\ Others(p) /\ op' = op
        /\ UNCHANGED <<disk, temp, local, at, shared, listed, acked, holed>>
        /\ phase[p] = "asking" /\ file[p] \in Files
    <3>1. file[p] \in Files /\ "open" \in Phases
      BY DEF Control, TypeOK, Phases
    <3> QED
      BY <1>2, <3>1, SummarizedEffect, Going DEF Control, Others, Stays
  <2>2. Working(p, file[p])
    BY <1>2, HandWorks
  <2>3. ASSUME file[p] \notin shared \union holed
        PROVE  Intact(file[p])' /\ InHand(p)'
    <3>1. Intact(file[p]) /\ InHand(p)
      BY <2>1, <2>2, <2>3, OwnFacts
    <3>2. Intact(file[p])'
      BY <2>1, <3>1 DEF Intact, Owed, Held, Loaded, Named
    <3>3. Promised(p, local[p])
      BY <1>2, <2>1, <3>1 DEF InHand
    <3>4. Promised(p, local[p])'
      BY <2>1, <3>3 DEF Promised, Due, Held, Named, Entered, Dropped, Added
    <3> QED
      BY <2>1, <3>2, <3>4 DEF InHand
  <2> QED
    BY <2>1, <2>2, <2>3, OwnSafe
<1> QED
  BY <1>1, <1>2

(* What is read for the save holds what will be owed. *)
LEMMA ReadPromises ==
  ASSUME Control, NEW p \in Callers, op[p] \in Ops, op[p] # NoOp, file[p] \in Files,
         phase[p] = "read", Owed(file[p]) \subseteq Held(file[p], Loaded(file[p]))
  PROVE  Due(p) \subseteq Held(file[p], IF file[p] = Index THEN NewIndex(op[p], Loaded(Index))
                                        ELSE NewLog(op[p], Loaded(file[p])))
<1>1. CASE file[p] = Index
  <2>1. Loaded(Index) \in Indexes
    BY <1>1, LoadedValue DEF Control, Values
  <2>2. Named(NewIndex(op[p], Loaded(Index)))
          = (Named(Loaded(Index)) \ Dropped(op[p])) \union Entered(op[p])
    BY <2>1, NewIndexNamed
  <2>3. Entered(op[p]) = {} \/ Dropped(op[p]) = {}
    BY DEF Entered, Dropped
  <2> QED
    BY <1>1, <2>2, <2>3 DEF Owed, Held, Due
<1>2. CASE file[p] # Index
  <2>1. op[p].kind \in {"append", "compact"}
    BY <1>2 DEF Control, Placed
  <2> QED
    BY <1>2, <2>1 DEF Owed, Held, Due, NewLog, Added
<1> QED
  BY <1>1, <1>2

LEMMA ReadSafe ==
  ASSUME Control, Control', AllSafe, NEW p \in Callers, Read(p)
  PROVE  AllSafe'
<1>1. CASE Leave(p)
  BY <1>1, ReadEffect, LeaveSafe
<1>2. CASE ~Leave(p)
  <2> DEFINE ph == IF file[p] # Index /\ op[p].kind = "compact" THEN "asking" ELSE "open"
             new == IF file[p] = Index THEN NewIndex(op[p], Loaded(Index))
                    ELSE NewLog(op[p], Loaded(file[p]))
  <2>1. /\ UNCHANGED <<op, at, disk, temp, shared, listed, acked, holed>>
        /\ Goto(p, ph, file[p]) /\ local' = [local EXCEPT ![p] = new]
        /\ local'[p] \in Values(file[p])
        /\ phase[p] = "read" /\ op[p] # NoOp /\ op[p] \in Ops /\ file[p] \in Files
    BY <1>2, ReadEffect DEF Stays
  <2>2. phase'[p] = ph /\ file'[p] = file[p] /\ Others(p) /\ local'[p] = new
    <3>1. ph \in Phases
      BY DEF Phases
    <3> QED
      BY <2>1, <3>1, Going DEF Control, TypeOK, Others
  <2>3. Working(p, file[p])
    BY <2>1 DEF Working
  <2>4. ASSUME file[p] \notin shared \union holed
        PROVE  Intact(file[p])' /\ InHand(p)'
    <3>1. Intact(file[p])
      BY <2>1, <2>3, <2>4, OwnFacts
    <3>2. Intact(file[p])'
      BY <2>1, <2>2, <3>1 DEF Intact, Owed, Held, Loaded, Named
    <3>3. Due(p) \subseteq Held(file[p], new)
      BY <2>1, <3>1, ReadPromises DEF Intact
    <3>4. Due(p)' = Due(p)
      BY <2>1, <2>2 DEF Due, Entered, Dropped, Added
    <3>5. Promised(p, local[p])'
      BY <2>1, <2>2, <3>3, <3>4 DEF Promised, Held, Named
    <3> QED
      BY <2>2, <3>2, <3>5 DEF InHand
  <2> QED
    BY <2>1, <2>2, <2>3, <2>4, OwnSafe
<1> QED
  BY <1>1, <1>2

LEMMA OpenSafe ==
  ASSUME Control, Control', AllSafe, NEW p \in Callers, Open(p)
  PROVE  AllSafe'
<1>1. /\ phase[p] = "open" /\ file[p] \in Files /\ UNCHANGED <<disk, op, local, shared, listed, acked, holed>>
      /\ temp' = [temp EXCEPT ![file[p]] = Blank] /\ at' = [at EXCEPT ![p] = "temp"]
      /\ DOMAIN temp = Files /\ DOMAIN at = Callers
  BY DEF Open, ghosts, Control, TypeOK
<1>2. phase'[p] = "write" /\ file'[p] = file[p] /\ Others(p)
  BY <1>1, Going DEF Open, Phases, Control, Others
<1>3. Working(p, file[p])
  BY <1>1 DEF Working
<1>4. ASSUME file[p] \notin shared \union holed
      PROVE  Intact(file[p])' /\ InHand(p)'
  <2>1. Intact(file[p]) /\ InHand(p)
    BY <1>1, <1>3, <1>4, OwnFacts
  <2>2. Intact(file[p])'
    BY <1>1, <1>2, <2>1 DEF Intact, Owed, Held, Loaded, Named
  <2>3. Promised(p, local[p])'
    BY <1>1, <1>2, <2>1 DEF InHand, Promised, Due, Held, Named, Entered, Dropped, Added
  <2>4. at'[p] = "temp" /\ temp'[file'[p]] = Blank
    BY <1>1, <1>2
  <2> QED
    BY <1>2, <2>2, <2>3, <2>4 DEF InHand
<1> QED
  BY <1>1, <1>2, <1>3, <1>4, OwnSafe

LEMMA WriteSafe ==
  ASSUME Control, Control', AllSafe, NEW p \in Callers, Write(p)
  PROVE  AllSafe'
<1>1. /\ phase[p] = "write" /\ file[p] \in Files /\ UNCHANGED <<op, shared, listed, acked, holed>>
      /\ \A g \in Files : g # file[p] => disk'[g] = disk[g] /\ temp'[g] = temp[g]
      /\ \A q \in Callers : q # p => at'[q] = at[q] /\ local'[q] = local[q]
  BY WriteEffect DEF ghosts, Control, TypeOK
<1>2. phase'[p] = "unlink" /\ file'[p] = file[p] /\ Others(p)
  BY <1>1, WriteEffect, Going DEF Phases, Control, Others
<1>3. Working(p, file[p])
  BY <1>1 DEF Working
<1>4. ASSUME file[p] \notin shared \union holed
      PROVE  Intact(file[p])' /\ InHand(p)'
  <2>1. Intact(file[p]) /\ InHand(p)
    BY <1>1, <1>3, <1>4, OwnFacts
  <2>2. disk' = disk /\ temp'[file[p]] = local[p] /\ Promised(p, local[p])
    BY <1>1, <2>1, WriteEffect DEF InHand
  <2>3. Intact(file[p])'
    BY <1>1, <1>2, <2>1, <2>2 DEF Intact, Owed, Held, Loaded, Named
  <2>4. Promised(p, temp[file[p]])'
    BY <1>1, <1>2, <2>2 DEF Promised, Due, Held, Named, Entered, Dropped, Added
  <2> QED
    BY <1>2, <2>3, <2>4 DEF InHand
<1>5. \A q \in Callers : file[q] # file[p] => at'[q] = at[q]
  BY <1>1
<1> QED
  BY <1>1, <1>2, <1>3, <1>4, <1>5, OwnSafe

LEMMA UnlinkSafe ==
  ASSUME Control, Control', AllSafe, NEW p \in Callers, Unlink(p)
  PROVE  AllSafe'
<1>1. /\ phase[p] = "unlink" /\ file[p] \in Files
      /\ UNCHANGED <<temp, op, local, shared, listed, acked, holed>>
      /\ disk' = [disk EXCEPT ![file[p]] = Missing] /\ at' = Unlinked(file[p])
  BY DEF Unlink, ghosts, Control, TypeOK
<1>2. phase'[p] = "rename" /\ file'[p] = file[p] /\ Others(p)
  BY <1>1, Going DEF Unlink, Phases, Control, Others
<1>3. Working(p, file[p])
  BY <1>1 DEF Working
<1>4. ASSUME file[p] \notin shared \union holed
      PROVE  InHand(p)'
  <2>1. InHand(p)
    BY <1>1, <1>3, <1>4, OwnFacts
  <2>2. Promised(p, temp[file[p]])'
    BY <1>1, <1>2, <2>1 DEF InHand, Promised, Due, Held, Named, Entered, Dropped, Added
  <2> QED
    BY <1>2, <2>2 DEF InHand
<1>5. \A q \in Callers : file[q] # file[p] => at'[q] = at[q]
  BY <1>1 DEF Unlinked
<1>6. \A g \in Files : g # file[p] => disk'[g] = disk[g] /\ temp'[g] = temp[g]
  BY <1>1 DEF Control, TypeOK
<1> QED
  BY <1>1, <1>2, <1>3, <1>4, <1>5, <1>6, OwnSafe

(* A rename that finds nothing: another writer has been at the file. *)
LEMMA RenameRaisesSafe ==
  ASSUME Control, Control', AllSafe, NEW p \in Callers, RenameRaises(p)
  PROVE  AllSafe'
<1> SUFFICES ASSUME NEW f \in Files PROVE Safe(f)'
  BY DEF AllSafe
<1>1. /\ phase[p] = "rename" /\ temp[file[p]] = Missing /\ Leave(p) /\ file[p] \in Files
      /\ UNCHANGED <<disk, temp, shared, listed, acked, holed>>
  BY DEF RenameRaises, ghosts, Control, TypeOK
<1>2. /\ Others(p) /\ op'[p] = NoOp /\ phase'[p] = "idle" /\ Safe(f) /\ Owed(f)' = Owed(f)
      /\ \A q \in Callers : q # p => at'[q] = at[q]
  BY <1>1, Leaving DEF Others, Control, AllSafe, Owed
<1>3. ~Working(p, f)' /\ ~Creating(p, f)'
  BY <1>2 DEF Working, Creating, NoOp
<1>4. CASE f = file[p]
  <2>1. Working(p, file[p])
    BY <1>1 DEF Working
  <2>2. file[p] \in shared \union holed
    <3> SUFFICES ASSUME file[p] \notin shared \union holed PROVE FALSE
      OBVIOUS
    <3>1. temp[file[p]] \in Values(file[p])
      BY <1>1, <2>1, OwnFacts DEF InHand, Promised
    <3> QED
      BY <1>1, <3>1, UnreadableHoldsNothing DEF Unreadable
  <2> QED
    BY <1>1, <1>4, <2>2 DEF Safe
<1>5. CASE f # file[p]
  BY <1>1, <1>2, <1>3, <1>5, SafeAway
<1> QED
  BY <1>4, <1>5

(* A rename puts in place what was promised, and that is now owed. *)
LEMMA RenameIntact ==
  ASSUME Control, AllSafe, NEW p \in Callers, Rename(p), NEW f \in Files, f = file[p],
         f \notin shared \union holed
  PROVE  Intact(f)'
<1> DEFINE x == temp[f]
<1>1. f \in Files /\ phase[p] = "rename" /\ op[p] # NoOp /\ op[p] \in Ops
  BY RenameEffect
<1>2. x \in Values(f) /\ Due(p) \subseteq Held(f, x)
  <2>1. Working(p, f)
    BY <1>1 DEF Working
  <2> QED
    BY <1>1, <2>1, OwnFacts DEF InHand, Promised
<1>3. disk'[f] = x /\ x \notin Unreadable
  BY <1>1, <1>2, RenameEffect, UnreadableHoldsNothing DEF Control, TypeOK
<1>4. Owed(f)' = Due(p)
  <2>1. CASE f = Index
    <3>1. Creates(p) <=> op[p].kind \in {"get", "create"}
      BY <2>1 DEF Creates
    <3>2. Deletes(p) <=> op[p].kind = "delete"
      BY <2>1 DEF Deletes
    <3> QED
      BY <2>1, <3>1, <3>2, RenameEffect DEF Owed, Due, Entered, Dropped
  <2>2. CASE f # Index
    <3>1. f = op[p].conv /\ f \in Convs
      BY <1>1, <2>2, FileNames DEF Control, Placed
    <3>2. acked \in [Convs -> SUBSET Msgs]
      BY DEF Control, TypeOK
    <3>3. CASE op[p].kind = "append"
      <4>1. acked'[f] = acked[f] \union {op[p].msg} /\ Added(op[p]) = {op[p].msg}
        <5>1. acked' = [acked EXCEPT ![f] = @ \union {op[p].msg}]
          BY <2>2, <3>1, <3>3, RenameEffect
        <5>2. Added(op[p]) = {op[p].msg}
          BY <3>3 DEF Added
        <5> QED
          BY <3>1, <3>2, <5>1, <5>2
      <4> QED
        BY <2>2, <4>1 DEF Owed, Due
    <3>4. CASE op[p].kind # "append"
      <4>1. acked' = acked /\ Added(op[p]) = {}
        BY <3>4, RenameEffect DEF Added
      <4> QED
        BY <2>2, <4>1 DEF Owed, Due
    <3> QED
      BY <3>3, <3>4
  <2> QED
    BY <2>1, <2>2
<1>5. Loaded(f)' = x
  BY <1>3 DEF Loaded, Unreadable
<1>6. Intact(f)' <=> disk'[f] \in Values(f) \union {Missing} /\ Owed(f)' \subseteq Held(f, x)
  BY <1>5 DEF Intact, Held, Named
<1> QED
  BY <1>2, <1>3, <1>4, <1>6

LEMMA RenameSafe ==
  ASSUME Control, Control', AllSafe, NEW p \in Callers, Rename(p)
  PROVE  AllSafe'
<1> SUFFICES ASSUME NEW f \in Files PROVE Safe(f)'
  BY DEF AllSafe
<1>1. /\ file[p] \in Files /\ phase[p] = "rename" /\ op[p] # NoOp /\ op[p] \in Ops
      /\ local[p] = {} /\ UNCHANGED <<local, holed>> /\ at' = Renamed(file[p])
      /\ \A g \in Files : g # file[p] => disk'[g] = disk[g] /\ temp'[g] = temp[g]
      /\ op[p].conv \in Convs /\ op[p].conv \in Files /\ op[p].conv # Index
  BY RenameEffect, OpShape, FileNames DEF Control, TypeOK
<1>2. \/ /\ Creates(p) /\ op'[p] = op[p] /\ phase'[p] = "open" /\ file'[p] = op[p].conv
         /\ Enter(p, op[p].conv)
      \/ /\ Logs(p) /\ op'[p] = op[p] /\ phase'[p] = "read" /\ file'[p] = Index
         /\ Enter(p, Index)
      \/ /\ Deletes(p) /\ op'[p] = op[p] /\ phase'[p] = "purge" /\ file'[p] = Index
         /\ shared' = shared
      \/ /\ ~Creates(p) /\ ~Logs(p) /\ ~Deletes(p) /\ op'[p] = NoOp /\ phase'[p] = "idle"
         /\ file'[p] = Index /\ shared' = shared
  <2>1. TypeOK /\ {"open", "read", "purge", "idle"} \subseteq Phases /\ Index \in Files
    BY FileNames DEF Control, Phases
  <2> QED
    BY <1>1, <2>1, RenameEffect, Going DEF TypeOK
<1>3. Others(p)
  <2>1. TypeOK /\ {"open", "read", "purge", "idle"} \subseteq Phases /\ Index \in Files
    BY FileNames DEF Control, Phases
  <2>2. \A q \in Callers : q # p => phase'[q] = phase[q] /\ file'[q] = file[q]
    BY <1>1, <2>1, RenameEffect, Going
  <2> QED
    BY <1>1, <2>1, <2>2, RenameEffect DEF Others, TypeOK
<1>4. shared \subseteq shared'
  BY <1>1, <1>2, Entering, FileNames DEF Control
<1>5. Safe(f) /\ \A q \in Callers : q # p => (Working(q, f)' => Working(q, f))
                                         /\ (Creating(q, f)' => Creating(q, f))
  BY <1>3 DEF AllSafe, Others, Working, Creating
<1>6. Creating(p, f)' => Creating(p, f)
  BY <1>2 DEF Creating, NoOp
<1>7. \A g \in Files : g # file[p] => Owed(g)' = Owed(g)
  <2> SUFFICES ASSUME NEW g \in Files, g # file[p] PROVE Owed(g)' = Owed(g)
    OBVIOUS
  <2>1. CASE g = Index
    BY <2>1, RenameEffect DEF Owed, Creates, Deletes
  <2>2. CASE g # Index
    <3>1. file[p] # Index /\ op[p].kind = "append" => file[p] = op[p].conv
      BY DEF Control, Placed
    <3> QED
      BY <2>2, <3>1, RenameEffect, FileNames DEF Owed, Control, TypeOK
  <2> QED
    BY <2>1, <2>2
<1>8. CASE f = file[p]
  <2>1. Working(p, f)
    BY <1>1, <1>8 DEF Working
  <2>2. ASSUME f \notin shared \union holed
        PROVE  /\ Intact(f)'
               /\ file'[p] = f => InHand(p)'
               /\ f # Index => \A q \in Callers : Creating(q, f)' => acked'[f] = {}
    <3>1. Intact(f)'
      BY <1>8, <2>2, RenameIntact
    <3>2. file'[p] = f => InHand(p)'
      BY <1>1, <1>2, <1>8 DEF InHand, Creates
    <3>3. f # Index => \A q \in Callers : ~Creating(q, f)'
      <4>1. \A q \in Callers : q # p => ~Creating(q, f)'
        BY <1>1, <1>5, <1>8, <2>1, <2>2, OwnFacts
      <4>2. f # Index => ~Creating(p, f)'
        BY <1>2, <1>8 DEF Creating, Creates, Logs, Deletes, NoOp
      <4> QED
        BY <4>1, <4>2
    <3> QED
      BY <3>1, <3>2, <3>3
  <2> QED
    BY <1>1, <1>4, <1>5, <2>1, <2>2, SafeOwn
<1>9. CASE f # file[p] /\ f = file'[p] /\ phase'[p] \in {"open", "read"}
  <2>1. Enter(p, f) /\ ~Working(p, f) /\ phase'[p] # "rename"
    BY <1>2, <1>9 DEF Working
  <2>2. ASSUME f \notin shared \union holed PROVE InHand(p)'
    <3>1. CASE phase'[p] = "read"
      BY <3>1 DEF InHand
    <3>2. CASE phase'[p] = "open"
      <4>1. Creating(p, f) /\ f # Index /\ file'[p] = f /\ op'[p] = op[p]
        BY <1>1, <1>2, <1>9, <3>2 DEF Creates, Creating
      <4>2. acked[f] = {}
        BY <1>5, <2>2, <4>1 DEF Safe
      <4>3. acked'[f] = {}
        BY <1>7, <1>9, <4>1, <4>2 DEF Owed
      <4>4. Due(p)' = {}
        BY <4>1, <4>3 DEF Due, Added, Creating
      <4>5. Promised(p, local[p])'
        BY <1>1, <4>1, <4>4 DEF Promised, Values
      <4> QED
        BY <3>2, <4>5 DEF InHand
    <3> QED
      BY <1>9, <3>1, <3>2
  <2> QED
    BY <1>1, <1>3, <1>5, <1>6, <1>7, <1>9, <2>1, <2>2, SafeEntered
<1>10. CASE f # file[p] /\ ~(f = file'[p] /\ phase'[p] \in {"open", "read"})
  <2>1. ~Working(p, f)'
    BY <1>2, <1>10 DEF Working
  <2>2. \A q \in Callers : q # p /\ file[q] = f => at'[q] = at[q]
    BY <1>1, <1>10 DEF Renamed
  <2> QED
    BY <1>1, <1>3, <1>4, <1>5, <1>6, <1>7, <1>10, <2>1, <2>2, SafeAway
<1> QED
  BY <1>8, <1>9, <1>10

(* A purge leaves nothing, and nothing is owed. *)
LEMMA PurgeSafe ==
  ASSUME Control, Control', AllSafe, NEW p \in Callers, Purge(p)
  PROVE  AllSafe'
<1> SUFFICES ASSUME NEW f \in Files PROVE Safe(f)'
  BY DEF AllSafe
<1> DEFINE c == op[p].conv
<1>1. c \in Convs /\ c # Index /\ DOMAIN disk = Files /\ DOMAIN temp = Files /\ DOMAIN acked = Convs
      /\ c \in Files
  BY PurgeEffect, FileNames DEF Control, TypeOK
<1>2. CASE f = c
  <2> SUFFICES ASSUME f \notin shared' PROVE Safe(f)'
    BY DEF Safe
  <2>1. \A q \in Callers : q # p => ~Working(q, f) /\ ~Creating(q, f)
    BY <1>2, PurgeEffect DEF Overlap
  <2>2. \A q \in Callers : file'[q] # f /\ ~Working(q, f)'
    BY <1>1, <1>2, <2>1, PurgeEffect, HandWorks DEF Working
  <2>3. disk'[f] = Missing /\ acked'[f] = {}
    BY <1>1, <1>2, PurgeEffect
  <2>4. Intact(f)'
    BY <1>1, <1>2, <2>3 DEF Intact, Owed
  <2> QED
    BY <2>2, <2>3, <2>4 DEF Safe, Alone
<1>3. CASE f # c
  <2>1. Safe(f) /\ Owed(f)' = Owed(f) /\ disk'[f] = disk[f] /\ temp'[f] = temp[f]
    BY <1>1, <1>3, PurgeEffect, FileNames DEF AllSafe, Owed
  <2>2. \A q \in Callers :
          /\ Working(q, f)' => /\ Working(q, f) /\ op'[q] = op[q] /\ phase'[q] = phase[q]
                               /\ file'[q] = file[q] /\ local'[q] = local[q] /\ at'[q] = at[q]
          /\ Creating(q, f)' => Creating(q, f)
          /\ file[q] = f /\ phase[q] = "rename" => file'[q] = f /\ phase'[q] = "rename"
    <3> TAKE q \in Callers
    <3>1. CASE op'[q] = NoOp /\ phase'[q] = "idle" /\ (q = p \/ file[q] = c)
      <4>1. ~Working(q, f)' /\ ~Creating(q, f)'
        BY <3>1 DEF Working, Creating, NoOp
      <4>2. ~(file[q] = f /\ phase[q] = "rename")
        BY <1>3, <3>1, PurgeEffect
      <4> QED
        BY <4>1, <4>2
    <3>2. CASE /\ op'[q] = op[q] /\ phase'[q] = phase[q] /\ file'[q] = file[q]
               /\ local'[q] = local[q]
               /\ at'[q] = IF Working(q, c) THEN "gone" ELSE at[q]
      BY <1>3, <3>2 DEF Working, Creating
    <3> QED
      BY <3>1, <3>2, PurgeEffect
  <2> QED
    BY <2>1, <2>2, PurgeEffect, SafeElsewhere
<1> QED
  BY <1>2, <1>3

LEMMA CrashSafe ==
  ASSUME Control, AllSafe, Crash
  PROVE  AllSafe'
<1> SUFFICES ASSUME NEW f \in Files, f \notin shared' \union holed'
             PROVE  /\ Alone(f)' /\ Intact(f)' /\ \A p \in Callers : InHand(p)'
                    /\ \A p \in Callers : ~Creating(p, f)'
  BY DEF AllSafe, Safe
<1>1. f \notin shared \union holed /\ \A p \in Callers : ~(file[p] = f /\ phase[p] = "rename")
  BY DEF Crash
<1>2. Intact(f)
  BY <1>1 DEF AllSafe, Safe
<1>3. Intact(f)'
  BY <1>2 DEF Crash, Intact, Owed, Held, Loaded, Named
<1>4. \A p \in Callers : op'[p] = NoOp /\ phase'[p] = "idle"
  BY DEF Crash
<1> QED
  BY <1>3, <1>4 DEF Alone, Working, Creating, InHand, NoOp

LEMMA NextSafe == Control /\ Control' /\ SInv /\ AllSafe /\ [Next]_vars => AllSafe'
<1> SUFFICES ASSUME Control, Control', SInv, AllSafe, [Next]_vars PROVE AllSafe'
  OBVIOUS
<1>1. CASE UNCHANGED vars
  BY <1>1 DEF vars, AllSafe, Safe, Alone, Working, Creating, Intact, Owed, Held, Loaded, Named,
              InHand, Promised, Due, Entered, Dropped, Added
<1>2. ASSUME NEW p \in Callers,
             \/ BeginCreate(p) \/ BeginAppend(p) \/ BeginCompact(p)
             \/ BeginOnIndex(p) \/ BeginTitle(p)
      PROVE  AllSafe'
  BY <1>2, Beginnings, BeginSafe DEF Begun, Control, Starts
<1> QED
  BY <1>1, <1>2, LookSafe, SummarizedSafe, ReadSafe, OpenSafe, WriteSafe,
     UnlinkSafe, RenameRaisesSafe, RenameSafe, PurgeSafe, CrashSafe DEF Next

(* Every file that no two operations worked on at a time and no crash hit  *)
(* between unlink and rename holds what is owed, on disk or, at that step, *)
(* in the temporary file of its only writer.                               *)
THEOREM AloneIsSafe == Spec => []AllSafe
<1>1. Init => AllSafe
  BY InitSafe
<1> QED
  BY <1>1, NextSafe, ControlInvariance, SoundInvariance, PTL DEF Spec

(* Saved messages stay in the log, for any conversations and callers. *)
THEOREM MessagesAreKept == Spec => []LogKept
<1>1. Control /\ AllSafe => LogKept
  <2> SUFFICES ASSUME Control, AllSafe, NEW c \in Convs, c \notin shared \union holed,
                      \A p \in Callers : ~(file[p] = c /\ phase[p] = "rename")
               PROVE  acked[c] \subseteq Loaded(c)
    BY DEF LogKept
  <2>1. c \in Files /\ c # Index
    BY FileNames
  <2> QED
    BY <2>1 DEF AllSafe, Safe, Intact, Owed, Held
<1> QED
  BY <1>1, AloneIsSafe, ControlInvariance, PTL

(* Created conversations stay in a readable index until they are deleted. *)
THEOREM ConversationsAreKept == Spec => []IndexKept
<1>1. AllSafe => IndexKept
  <2> SUFFICES ASSUME AllSafe, Index \notin shared \union holed, Quiet
               PROVE  /\ disk[Index] \in Indexes \union {Missing}
                      /\ listed \subseteq Named(disk[Index])
    BY DEF IndexKept
  <2>1. Intact(Index)
    BY FileNames DEF AllSafe, Safe, Quiet
  <2>2. disk[Index] \in Indexes \union {Missing} /\ listed \subseteq Named(Loaded(Index))
    BY <2>1 DEF Intact, Owed, Held, Values
  <2>3. CASE disk[Index] \in Indexes
    BY <2>2, <2>3, NamedIndex DEF Loaded
  <2>4. CASE disk[Index] = Missing
    BY <2>2, <2>4, NoEntries DEF Loaded, Named, Unreadable
  <2> QED
    BY <2>2, <2>3, <2>4
<1> QED
  BY <1>1, AloneIsSafe, PTL

-----------------------------------------------------------------------------
(* ChannelAsk: any sets of sessions, people and texts, any number of polls *)
(* and of questions.                                                       *)
(*                                                                         *)
(* NoStaleQuestion says nothing of a session that polls, so it is not      *)
(* inductive.  Owned closes the gap: an index entry names a session whose  *)
(* question is addressed to just that person.  Hence the answer that       *)
(* resolve stores comes from the person asked, and remove, which clears    *)
(* the index entry of the recipient, clears the only one there is.  What   *)
(* fails for one session only ever takes entries of the index from another. *)

(* A session has an entry only while it polls. *)
Kept(s) == entry[s] # None => asker[s] = "polling" /\ Readable(s)

Owned(s) == \A p \in People : index[p] = s => Readable(s) /\ entry[s].to = p

Matched(s) == Answered(s) => entry[s].from = entry[s].to

Heard(s) == got[s] # None => got[s].from = got[s].to

AskInv ==
  /\ AskTypeOK
  /\ \A s \in Unspoilt : Kept(s) /\ Owned(s) /\ Matched(s) /\ Heard(s)

(* None is neither a session, a person, a text nor an entry; Torn is a file's. *)
LEMMA NoneIsFresh ==
  /\ None \notin Sessions /\ None \notin People /\ None \notin Answers
  /\ None \notin Entries /\ Torn \notin Entries /\ None # Torn
  BY AskConstants

(* The constructor leaves no files, no index and no asker. *)
LEMMA InitAsk == AskInit => AskInv
  <1> SUFFICES ASSUME AskInit PROVE AskInv
    OBVIOUS
  <1>1. AskTypeOK
    BY AskConstants DEF AskInit, AskTypeOK, AskerStates
  <1>2. ASSUME NEW s \in Unspoilt
        PROVE Kept(s) /\ Owned(s) /\ Matched(s) /\ Heard(s)
    BY NoneIsFresh DEF AskInit, Unspoilt, Kept, Owned, Matched, Heard, Answered, Readable
  <1> QED
    BY <1>1, <1>2 DEF AskInv

(* An index read or left by a failing save has nothing new. *)
LEMMA LoadsShrink ==
  ASSUME AskTypeOK, NEW i \in Loads
  PROVE  /\ i \in [People -> Sessions \union {None}]
         /\ \A p \in People : i[p] \in {index[p], None}
  BY DEF Loads, AskTypeOK

(* What ends the question of s does to the index. *)
Shrinks ==
  /\ index' \in [People -> Sessions \union {None}]
  /\ \A p \in People : index'[p] \in {index[p], None}

LEMMA UnindexedShrinks ==
  ASSUME AskTypeOK, NEW s \in Sessions, index' \in Unindexed(s)
  PROVE  Shrinks /\ Readable(s) /\ index'[entry[s].to] = None
  <1>1. Readable(s) /\ index' \in {[i EXCEPT ![entry[s].to] = None] : i \in Loads}
    BY DEF Unindexed
  <1>2. entry[s].to \in People
    BY <1>1 DEF AskTypeOK, Readable, Entries
  <1>3. PICK i \in Loads : index' = [i EXCEPT ![entry[s].to] = None]
    BY <1>1
  <1>4. /\ i \in [People -> Sessions \union {None}]
        /\ \A p \in People : i[p] \in {index[p], None}
    BY LoadsShrink
  <1>5. \A p \in People : index'[p] = IF p = entry[s].to THEN None ELSE i[p]
    BY <1>3, <1>4
  <1>6. index' \in [People -> Sessions \union {None}]
    BY <1>3, <1>4
  <1> QED
    BY <1>1, <1>2, <1>4, <1>5, <1>6 DEF Shrinks

(* What ends the question of s does to the files. *)
Leaves(s) ==
  /\ entry' \in {entry, [entry EXCEPT ![s] = None]}
  /\ Shrinks
  /\ \/ spoilt' = spoilt \union {s}
     \/ /\ spoilt' = spoilt /\ entry' = [entry EXCEPT ![s] = None]
        /\ s \notin spoilt => \A p \in People : index'[p] # s

LEMMA RemoveLeaves ==
  ASSUME AskInv, NEW s \in Sessions, Remove(s)
  PROVE  Leaves(s) /\ entry' = [entry EXCEPT ![s] = None]
  <1> USE DEF AskInv
  <1>0. entry' = [entry EXCEPT ![s] = None]
    BY DEF Remove
  <1>1. CASE entry[s] = None /\ UNCHANGED <<index, spoilt>>
    <2>1. Shrinks
      BY <1>1 DEF Shrinks, AskTypeOK
    <2>2. s \notin spoilt => \A p \in People : index'[p] # s
      BY <1>1 DEF Owned, Readable, Unspoilt
    <2> QED
      BY <1>0, <1>1, <2>1, <2>2 DEF Leaves
  <1>2. CASE index' \in Unindexed(s) /\ UNCHANGED spoilt
    <2>1. Shrinks /\ Readable(s) /\ index'[entry[s].to] = None
      BY <1>2, UnindexedShrinks
    <2>2. ASSUME s \notin spoilt, NEW p \in People PROVE index'[p] # s
      <3>1. index[p] = s => entry[s].to = p
        BY <2>2 DEF Owned, Unspoilt
      <3> QED
        BY <2>1, <3>1, NoneIsFresh DEF Shrinks
    <2> QED
      BY <1>0, <1>2, <2>1, <2>2 DEF Leaves
  <1>3. CASE entry[s] # None /\ index' \in Loads /\ spoilt' = spoilt \union {s}
    <2>1. Shrinks
      BY <1>3, LoadsShrink DEF Shrinks
    <2> QED
      BY <1>0, <1>3, <2>1 DEF Leaves
  <1> QED
    BY <1>1, <1>2, <1>3 DEF Remove

LEMMA RaisesLeaves ==
  ASSUME AskInv, NEW s \in Sessions,
         entry' \in {entry, [entry EXCEPT ![s] = None]},
         index' \in Loads \union Unindexed(s),
         spoilt' = spoilt \union {s}
  PROVE  Leaves(s)
  <1>1. Shrinks
    BY LoadsShrink, UnindexedShrinks DEF Shrinks, AskInv
  <1> QED
    BY <1>1 DEF Leaves

(* A step that ends the question of s. *)
LEMMA EndsInvariant ==
  ASSUME AskInv, NEW s \in Sessions, Leaves(s), Ends(s),
         got' = got \/ (Answered(s) /\ got' = [got EXCEPT ![s] = entry[s]])
  PROVE  AskInv'
  <1>1. AskTypeOK'
    <2>1. entry' \in [Sessions -> Entries \union {None, Torn}]
      BY DEF Leaves, AskInv, AskTypeOK
    <2>2. got' \in [Sessions -> Entries \union {None}]
      BY DEF AskInv, AskTypeOK, Answered, Readable
    <2>3. index' \in [People -> Sessions \union {None}] /\ spoilt' \subseteq Sessions
      BY DEF Leaves, Shrinks, AskInv, AskTypeOK
    <2>4. /\ asker' \in [Sessions -> AskerStates]
          /\ polls' \in [Sessions -> 0..(MaxPolls - 1)]
          /\ asks' \in [Sessions -> 0..MaxAsks]
      BY AskConstants DEF Ends, AskInv, AskTypeOK, AskerStates
    <2> QED
      BY <2>1, <2>2, <2>3, <2>4 DEF AskTypeOK
  <1>2. ASSUME NEW t \in Unspoilt'
        PROVE Kept(t)' /\ Owned(t)' /\ Matched(t)' /\ Heard(t)'
    <2>0. t \in Sessions /\ t \notin spoilt' /\ t \in Unspoilt
      BY <1>2 DEF Unspoilt, Leaves
    <2>1. Kept(t) /\ Owned(t) /\ Matched(t) /\ Heard(t)
      BY <2>0 DEF AskInv
    <2>2. CASE t = s
      <3>1. entry' = [entry EXCEPT ![s] = None] /\ \A p \in People : index'[p] # t
        BY <2>0, <2>2 DEF Leaves
      <3>2. entry'[t] = None
        BY <3>1, <2>2 DEF AskInv, AskTypeOK
      <3>3. Heard(t)'
        BY <2>1, <2>2 DEF Heard, Matched, AskInv, AskTypeOK
      <3> QED
        BY <3>1, <3>2, <3>3 DEF Kept, Owned, Matched, Answered, Readable
    <2>3. CASE t # s
      <3>1. /\ entry'[t] = entry[t] /\ asker'[t] = asker[t] /\ got'[t] = got[t]
            /\ \A p \in People : index'[p] \in {index[p], None}
        BY <2>0, <2>3 DEF Leaves, Shrinks, Ends, AskInv, AskTypeOK
      <3> QED
        BY <2>0, <2>1, <3>1, NoneIsFresh DEF Kept, Owned, Readable, Matched, Answered,
           Heard
    <2> QED
      BY <2>2, <2>3
  <1> QED
    BY <1>1, <1>2 DEF AskInv

(* register overwrites index[p]; whom it named before has lost its place, *)
(* which no part of AskInv denies it.                                      *)
LEMMA RegisterInvariant ==
  ASSUME AskInv, NEW s \in Sessions, NEW p \in People,
         Register(s, p)
  PROVE  AskInv'
  <1>0. PICK i \in Loads : index' = [i EXCEPT ![p] = s]
    BY DEF Register
  <1>i. /\ i \in [People -> Sessions \union {None}]
        /\ \A q \in People : i[q] \in {index[q], None}
    BY LoadsShrink DEF AskInv
  <1>1. AskTypeOK'
    <2>1. Fresh(p) \in Entries
      BY DEF Fresh, Entries
    <2>2. index' \in [People -> Sessions \union {None}]
      BY <1>0, <1>i
    <2> QED
      BY <2>1, <2>2, AskConstants DEF AskInv, AskTypeOK, Register, AskerStates
  <1>2. ASSUME NEW t \in Unspoilt'
        PROVE Kept(t)' /\ Owned(t)' /\ Matched(t)' /\ Heard(t)'
    <2>0. t \in Sessions /\ t \in Unspoilt
      BY <1>2 DEF Unspoilt, Register
    <2>1. Kept(t) /\ Owned(t) /\ Matched(t) /\ Heard(t)
      BY <2>0 DEF AskInv
    <2>2. got' = got
      BY DEF Register
    <2>3. \A q \in People : index'[q] = IF q = p THEN s ELSE i[q]
      BY <1>0, <1>i
    <2>4. CASE t = s
      <3>1. /\ entry'[t] = [to |-> p, from |-> None, answer |-> None]
            /\ asker'[t] = "polling" /\ asker[t] = "sending"
        BY <2>4 DEF Register, Fresh, AskInv, AskTypeOK
      <3>2. entry'[t] # None /\ entry'[t] # Torn
        BY <3>1, NoneIsFresh DEF Entries
      <3>3. \A q \in People : i[q] # t
        BY <2>0, <2>1, <3>1, <1>i, NoneIsFresh DEF Kept, Owned, Readable
      <3> QED
        BY <2>1, <2>2, <2>3, <3>1, <3>2, <3>3 DEF Kept, Owned, Matched,
           Answered, Readable, Heard
    <2>5. CASE t # s
      <3>1. entry'[t] = entry[t] /\ asker'[t] = asker[t]
        BY <2>0, <2>5 DEF Register, AskInv, AskTypeOK
      <3> QED
        BY <1>i, <2>0, <2>1, <2>2, <2>3, <2>5, <3>1, NoneIsFresh
        DEF Kept, Owned, Readable, Matched, Answered, Heard
    <2> QED
      BY <2>4, <2>5
  <1> QED
    BY <1>1, <1>2 DEF AskInv, Register

(* A step that spoils s, and takes from the index at most. *)
LEMMA SpoilInvariant ==
  ASSUME AskInv, NEW s \in Sessions, AskTypeOK',
         spoilt' = spoilt \union {s},
         \A t \in Sessions \ {s} :
           entry'[t] = entry[t] /\ asker'[t] = asker[t] /\ got'[t] = got[t],
         \A p \in People : index'[p] \in {index[p], None}
  PROVE  AskInv'
  <1>1. ASSUME NEW t \in Unspoilt'
        PROVE Kept(t)' /\ Owned(t)' /\ Matched(t)' /\ Heard(t)'
    <2>1. t \in Sessions \ {s} /\ t \in Unspoilt
      BY <1>1 DEF Unspoilt
    <2>2. Kept(t) /\ Owned(t) /\ Matched(t) /\ Heard(t)
      BY <2>1 DEF AskInv
    <2> QED
      BY <2>1, <2>2, NoneIsFresh DEF Kept, Owned, Readable, Matched, Answered, Heard
  <1> QED
    BY <1>1 DEF AskInv

LEMMA RegisterRaisesInvariant ==
  ASSUME AskInv, NEW s \in Sessions, NEW p \in People, RegisterRaises(s, p)
  PROVE  AskInv'
  <1>1. /\ asker' = [asker EXCEPT ![s] = "idle"] /\ spoilt' = spoilt \union {s}
        /\ UNCHANGED <<polls, asks, got>>
    BY DEF RegisterRaises
  <1>2. /\ entry' \in {entry, [entry EXCEPT ![s] = Torn], [entry EXCEPT ![s] = Fresh(p)]}
        /\ index' \in Loads
    BY DEF RegisterRaises, Loads
  <1>3. /\ index' \in [People -> Sessions \union {None}]
        /\ \A q \in People : index'[q] \in {index[q], None}
    BY <1>2, LoadsShrink DEF AskInv
  <1>4. Fresh(p) \in Entries
    BY DEF Fresh, Entries
  <1>5. /\ entry' \in [Sessions -> Entries \union {None, Torn}]
        /\ \A t \in Sessions \ {s} : entry'[t] = entry[t]
    BY <1>2, <1>4 DEF AskInv, AskTypeOK
  <1>6. AskTypeOK'
    BY <1>1, <1>3, <1>5 DEF AskInv, AskTypeOK, AskerStates
  <1> QED
    BY <1>1, <1>3, <1>5, <1>6, SpoilInvariant DEF AskInv, AskTypeOK

(* p's message is captured only for a session that asked p. *)
LEMMA CaptureInvariant ==
  ASSUME AskInv, NEW p \in People, NEW a \in Answers, Capture(p, a)
  PROVE  AskInv'
  <1> DEFINE s == index[p]
  <1>1. s \in Sessions /\ s # None /\ Unanswered(s)
    BY DEF Capture, AskInv, AskTypeOK
  <1>2. /\ asker' = asker /\ polls' = polls /\ asks' = asks /\ got' = got
        /\ spoilt' = spoilt
    BY DEF Capture
  <1>3. entry[s] \in Entries
    BY <1>1 DEF Unanswered, Readable, AskInv, AskTypeOK
  <1>4. entry' = [entry EXCEPT ![s] = [to |-> entry[s].to, from |-> p, answer |-> a]]
    <2> DEFINE heard == [entry EXCEPT ![s] = [entry[s] EXCEPT !.from = p]]
    <2>1. entry' = [heard EXCEPT ![s] = [heard[s] EXCEPT !.answer = a]]
      BY DEF Capture
    <2>2. heard[s] = [to |-> entry[s].to, from |-> p, answer |-> entry[s].answer]
      BY <1>1, <1>3 DEF AskInv, AskTypeOK, Entries
    <2>3. [heard[s] EXCEPT !.answer = a] = [to |-> entry[s].to, from |-> p, answer |-> a]
      BY <2>2
    <2> QED
      BY <1>1, <2>1, <2>3 DEF AskInv, AskTypeOK
  <1>5. /\ index' \in [People -> Sessions \union {None}]
        /\ \A q \in People : index'[q] \in {index[q], None}
    <2>1. CASE index' \in Loads
      BY <2>1, LoadsShrink DEF AskInv
    <2>2. CASE index' = [index EXCEPT ![p] = None]
      BY <2>2 DEF AskInv, AskTypeOK
    <2> QED
      BY <2>1, <2>2 DEF Capture
  <1>6. [to |-> entry[s].to, from |-> p, answer |-> a] \in Entries
    BY <1>3 DEF Entries
  <1>7. AskTypeOK'
    BY <1>1, <1>2, <1>4, <1>5, <1>6 DEF AskInv, AskTypeOK
  <1>8. ASSUME NEW t \in Unspoilt'
        PROVE Kept(t)' /\ Owned(t)' /\ Matched(t)' /\ Heard(t)'
    <2>0. t \in Sessions /\ t \in Unspoilt
      BY <1>2, <1>8 DEF Unspoilt
    <2>1. Kept(t) /\ Owned(t) /\ Matched(t) /\ Heard(t)
      BY <2>0 DEF AskInv
    <2>2. CASE t = s
      <3>1. entry[s].to = p /\ asker[t] = "polling"
        BY <1>1, <2>1, <2>2, NoneIsFresh DEF Owned, Kept, Unanswered, Readable
      <3>2. /\ entry'[t].from = p /\ entry'[t].to = p
            /\ entry'[t] \in Entries
        BY <1>1, <1>4, <1>6, <2>2, <3>1 DEF AskInv, AskTypeOK
      <3>3. entry'[t] # None /\ entry'[t] # Torn
        BY <3>2, NoneIsFresh
      <3>4. Owned(t)'
        <4> SUFFICES ASSUME NEW q \in People, index'[q] = t
                     PROVE  Readable(t)' /\ entry'[t].to = q
          BY DEF Owned
        <4>1. index[q] = t
          BY <1>5, <2>0, NoneIsFresh
        <4>2. entry[t].to = q
          BY <4>1, <2>1 DEF Owned
        <4> QED
          BY <4>2, <2>2, <3>1, <3>2, <3>3 DEF Readable
      <3> QED
        BY <1>2, <2>1, <3>1, <3>2, <3>3, <3>4 DEF Kept, Readable, Matched, Heard
    <2>3. CASE t # s
      <3>1. entry'[t] = entry[t]
        BY <1>1, <1>4, <2>0, <2>3 DEF AskInv, AskTypeOK
      <3> QED
        BY <1>2, <1>5, <2>0, <2>1, <3>1, NoneIsFresh
        DEF Kept, Owned, Readable, Matched, Answered, Heard
    <2> QED
      BY <2>2, <2>3
  <1> QED
    BY <1>7, <1>8 DEF AskInv

LEMMA CaptureRaisesInvariant ==
  ASSUME AskInv, NEW p \in People, CaptureRaises(p)
  PROVE  AskInv'
  <1> DEFINE s == index[p]
  <1>1. s \in Sessions
    BY DEF CaptureRaises, AskInv, AskTypeOK
  <1>2. /\ entry' = [entry EXCEPT ![s] = Torn] /\ spoilt' = spoilt \union {s}
        /\ UNCHANGED <<asker, index, polls, asks, got>>
    BY DEF CaptureRaises
  <1>3. AskTypeOK'
    BY <1>1, <1>2 DEF AskInv, AskTypeOK
  <1>4. \A t \in Sessions \ {s} : entry'[t] = entry[t]
    BY <1>2 DEF AskInv, AskTypeOK
  <1> HIDE DEF s
  <1> QED
    BY <1>1, <1>2, <1>3, <1>4, SpoilInvariant

LEMMA ForgetInvariant ==
  ASSUME AskInv, NEW p \in People, Forget(p)
  PROVE  AskInv'
  <1>1. UNCHANGED <<asker, entry, polls, asks, got, spoilt>>
    BY DEF Forget
  <1>2. /\ index' \in [People -> Sessions \union {None}]
        /\ \A q \in People : index'[q] \in {index[q], None}
    <2>1. CASE index' \in Loads
      BY <2>1, LoadsShrink DEF AskInv
    <2>2. CASE index' = [index EXCEPT ![p] = None]
      BY <2>2 DEF AskInv, AskTypeOK
    <2> QED
      BY <2>1, <2>2 DEF Forget
  <1>3. AskTypeOK'
    BY <1>1, <1>2 DEF AskInv, AskTypeOK
  <1>4. ASSUME NEW t \in Unspoilt'
        PROVE Kept(t)' /\ Owned(t)' /\ Matched(t)' /\ Heard(t)'
    <2>1. t \in Sessions /\ t \in Unspoilt
      BY <1>1, <1>4 DEF Unspoilt
    <2>2. Kept(t) /\ Owned(t) /\ Matched(t) /\ Heard(t)
      BY <2>1 DEF AskInv
    <2> QED
      BY <1>1, <1>2, <2>1, <2>2, NoneIsFresh
      DEF Kept, Owned, Readable, Matched, Answered, Heard
  <1> QED
    BY <1>3, <1>4 DEF AskInv

(* The steps that leave the files alone. *)
LEMMA AskerInvariant ==
  ASSUME AskInv, NEW s \in Sessions,
         Ask(s) \/ SendFails(s) \/ PollAgain(s) \/ Dies(s)
  PROVE  AskInv'
  <1>1. entry' = entry /\ index' = index /\ got' = got
    BY DEF Ask, SendFails, PollAgain, Dies
  <1>2. AskTypeOK'
    <2>1. CASE Ask(s)
      BY <2>1, AskConstants DEF Ask, AskInv, AskTypeOK, AskerStates
    <2>2. CASE SendFails(s)
      BY <2>2 DEF SendFails, AskInv, AskTypeOK, AskerStates
    <2>3. CASE PollAgain(s)
      BY <2>3, AskConstants DEF PollAgain, LastPoll, AskInv, AskTypeOK
    <2>4. CASE Dies(s)
      BY <2>4, AskConstants DEF Dies, AskInv, AskTypeOK, AskerStates
    <2> QED
      BY <2>1, <2>2, <2>3, <2>4
  <1>3. ASSUME NEW t \in Unspoilt'
        PROVE  t \in Unspoilt /\ (asker[t] = "polling" => asker'[t] = "polling")
    BY <1>3 DEF Ask, SendFails, PollAgain, Dies, Unspoilt, AskInv, AskTypeOK
  <1> QED
    BY <1>1, <1>2, <1>3 DEF AskInv, Kept, Owned, Readable, Matched, Answered,
       Heard

(* Every step of Next keeps the invariant. *)
LEMMA NextAsk == AskInv /\ [AskNext]_askVars => AskInv'
  <1> SUFFICES ASSUME AskInv, [AskNext]_askVars PROVE AskInv'
    OBVIOUS
  <1>1. ASSUME NEW s \in Sessions, PollAnswered(s) PROVE AskInv'
    BY <1>1, EndsInvariant, RemoveLeaves DEF PollAnswered
  <1>2. ASSUME NEW s \in Sessions, PollTimesOut(s) \/ ClearRaises(s) PROVE AskInv'
    <2>1. Ends(s) /\ UNCHANGED got /\ (Remove(s) \/ RemoveRaises(s))
      BY <1>2 DEF PollTimesOut, ClearRaises
    <2>2. Leaves(s)
      BY <2>1, RemoveLeaves, RaisesLeaves DEF RemoveRaises
    <2> QED
      BY <2>1, <2>2, EndsInvariant
  <1>3. ASSUME NEW s \in Sessions, AnswerUnread(s) PROVE AskInv'
    BY <1>3, EndsInvariant, RaisesLeaves DEF AnswerUnread
  <1>4. CASE UNCHANGED askVars
    BY <1>4 DEF askVars, Unspoilt, AskInv, AskTypeOK, Kept, Owned, Readable, Matched,
       Answered, Heard
  <1> QED
    BY <1>1, <1>2, <1>3, <1>4, AskerInvariant, RegisterInvariant, CaptureInvariant,
       RegisterRaisesInvariant, CaptureRaisesInvariant, ForgetInvariant
       DEF AskNext, Routes

(* AskInv holds in every reachable state. *)
THEOREM AskInvariance == AskSpec => []AskInv
  BY InitAsk, NextAsk, PTL DEF AskSpec

(* Every variable keeps its type; in particular polls stays in its budget. *)
THEOREM AskTypes == AskSpec => []AskTypeOK
  <1>1. AskInv => AskTypeOK
    BY DEF AskInv
  <1> QED
    BY <1>1, AskInvariance, PTL

(* The store's clean-up is complete: a question that is over leaves        *)
(* neither a file nor an index entry (pending_channel_store.py, remove),   *)
(* unless an operation on the files of just this session failed.           *)
THEOREM StoreClean == AskSpec => []NoStaleQuestion
  <1>1. AskInv => NoStaleQuestion
    BY DEF AskInv, Kept, Owned, Readable, NoStaleQuestion
  <1> QED
    BY <1>1, AskInvariance, PTL

(* However sessions, people and messages interleave and whatever fails for *)
(* the others, an agent gets only the words of the person it asked.        *)
THEOREM RightPerson == AskSpec => []AnsweredByTheOneAsked
  <1>1. AskInv => AnsweredByTheOneAsked
    BY DEF AskInv, Heard, AnsweredByTheOneAsked
  <1> QED
    BY <1>1, AskInvariance, PTL

(* A captured answer is neither replaced nor dropped: it stays until a     *)
(* poll of its session hands it to the agent.                              *)
THEOREM AnswerDelivered == AskSpec => CapturedReachesAgent
  <1> DEFINE A == \A s \in Unspoilt' : Answered(s) /\ entry'[s] # entry[s] =>
                    entry'[s] = None /\ got'[s] = entry[s]
  <1>1. AskInv /\ [AskNext]_askVars => [A]_askVars
    <2> SUFFICES ASSUME AskInv, AskNext, NEW s \in Unspoilt',
                        Answered(s), entry'[s] # entry[s]
                 PROVE  entry'[s] = None /\ got'[s] = entry[s]
      BY DEF askVars
    <2>0. s \in Sessions /\ s \notin spoilt'
      BY DEF Unspoilt
    <2>1. ASSUME NEW t \in Sessions, PollAnswered(t)
          PROVE entry'[s] = None /\ got'[s] = entry[s]
      <3>1. entry' = [entry EXCEPT ![t] = None] /\ got' = [got EXCEPT ![t] = entry[t]]
        BY <2>1 DEF PollAnswered, Remove
      <3> QED
        BY <2>0, <3>1 DEF AskInv, AskTypeOK
    <2>2. ASSUME NEW t \in Sessions, PollTimesOut(t) PROVE FALSE
      <3>1. entry' \in {entry, [entry EXCEPT ![t] = None]} /\ ~Answered(t)
        BY <2>2 DEF PollTimesOut, Remove, RemoveRaises
      <3> QED
        BY <2>0, <3>1 DEF AskInv, AskTypeOK
    <2>3. ASSUME NEW t \in Sessions, ClearRaises(t) PROVE FALSE
      BY <2>3 DEF ClearRaises, RemoveRaises
    <2>4. ASSUME NEW t \in Sessions, AnswerUnread(t) PROVE FALSE
      BY <2>0, <2>4 DEF AnswerUnread, AskInv, AskTypeOK
    <2>5. ASSUME NEW t \in Sessions, NEW p \in People, Register(t, p) PROVE FALSE
      <3>1. s = t /\ s \in Unspoilt /\ asker[s] = "sending"
        BY <2>0, <2>5 DEF Register, Unspoilt, AskInv, AskTypeOK
      <3>2. Kept(s)
        BY <3>1 DEF AskInv
      <3> QED
        BY <3>1, <3>2 DEF Kept, Answered, Readable
    <2>6. ASSUME NEW t \in Sessions, NEW p \in People, RegisterRaises(t, p) PROVE FALSE
      BY <2>0, <2>6 DEF RegisterRaises, AskInv, AskTypeOK
    <2>7. ASSUME NEW p \in People, NEW a \in Answers, Capture(p, a) PROVE FALSE
      <3>1. s = index[p]
        BY <2>0, <2>7 DEF Capture, AskInv, AskTypeOK
      <3> QED
        BY <2>7, <3>1 DEF Capture, Unanswered, Answered
    <2>8. ASSUME NEW p \in People, CaptureRaises(p) \/ Forget(p) PROVE FALSE
      BY <2>0, <2>8 DEF CaptureRaises, Forget, AskInv, AskTypeOK
    <2>9. ASSUME NEW t \in Sessions, Ask(t) \/ SendFails(t) \/ PollAgain(t) \/ Dies(t)
          PROVE FALSE
      BY <2>9 DEF Ask, SendFails, PollAgain, Dies
    <2> QED
      BY <2>1, <2>2, <2>3, <2>4, <2>5, <2>6, <2>7, <2>8, <2>9 DEF AskNext, Routes
  <1> QED
    BY <1>1, AskInvariance, PTL DEF AskSpec, CapturedReachesAgent

-----------------------------------------------------------------------------
(* BotPoller: any numbers of updates, pollers and waiting saves.           *)

Handled(u) == u \in dealt \/ u \in tasks

(* What the poller holds: a batch, its next update and the one in hand. *)
Window ==
  /\ offset <= sent + 1 /\ confirmed <= sent + 1
  /\ stage \in {"fetched", "handling"} =>
       /\ next <= last + 1 /\ last <= sent
       /\ offset <= next /\ confirmed <= next
  /\ current # 0 =>
       /\ stage = "handling" /\ next = current + 1
       /\ offset = next /\ confirmed <= current
  /\ stage = "off" => offset = 0

(* Everything below the offset, the batch or Telegram's mark is done with, *)
(* except what is in hand.                                                 *)
Progress ==
  \A u \in Updates :
    /\ u < confirmed => Handled(u)
    /\ u < offset => Handled(u) \/ u = current
    /\ stage \in {"fetched", "handling"} /\ u < next => Handled(u) \/ u = current

(* What the poller acted on lies below its offset and before what is in hand. *)
Order == \A u \in mine : u < offset /\ (current # 0 => u < current)

(* The lock's holder goes where the settings want, or another save waits; a *)
(* cached list is the settings', or is known not to be.                     *)
Settled ==
  /\ running <=> stage # "off"
  /\ reconcile = "starting" => ~running /\ (saves = 0 /\ ~silent => wanted)
  /\ reconcile = "stopping" => running /\ (saves = 0 /\ ~silent => ~wanted)
  /\ ~silent => cached \in {"none", ListSays(wanted)}
  /\ SettingsTakeEffect

PollInv == PollTypeOK /\ Window /\ Progress /\ Order /\ Settled

(* The bounds are numbers. *)
LEMMA PollBounds ==
  MaxUpdates \in Nat /\ MaxLives \in Nat /\ MaxSaves \in Nat \ {0}
  BY BotPollerConstants

(* The initial state has the invariant. *)
LEMMA InitPoll == PollInit => PollInv
<1> SUFFICES ASSUME PollInit PROVE PollInv
  OBVIOUS
<1> USE PollBounds DEF PollInit
<1>1. dealt = {} /\ mine = {}
  OBVIOUS
<1>2. PollTypeOK
  <2>1. /\ sent \in 0..MaxUpdates /\ confirmed \in 1..(MaxUpdates + 1)
        /\ saves \in 0..MaxSaves /\ offset \in 0..(MaxUpdates + 1)
        /\ next \in 1..(MaxUpdates + 1) /\ last \in 0..MaxUpdates
        /\ current \in 0..MaxUpdates /\ lives \in 0..MaxLives
    OBVIOUS
  <2>2. /\ wanted \in BOOLEAN /\ running \in BOOLEAN /\ open \in BOOLEAN
        /\ failed \in BOOLEAN /\ putting \in BOOLEAN /\ silent \in BOOLEAN
        /\ cached = "none" /\ build = "none"
    OBVIOUS
  <2>3. /\ reconcile = "no" /\ stage = "off" /\ tasks \subseteq Updates
        /\ mine \subseteq Updates
    OBVIOUS
  <2> QED
    BY <1>1, <2>1, <2>2, <2>3, Zenon DEF PollTypeOK
<1>3. Window
  BY DEF Window
<1>4. Progress
  BY DEF Progress, Updates
<1>5. Order
  BY DEF Order
<1>6. Settled
  BY DEF Settled, SettingsTakeEffect
<1> QED
  BY <1>2, <1>3, <1>4, <1>5, <1>6 DEF PollInv

-----------------------------------------------------------------------------
(* Each action keeps the types. *)
LEMMA PollTypes == PollTypeOK /\ [PollNext]_pollVars => PollTypeOK'
<1> SUFFICES ASSUME PollTypeOK, [PollNext]_pollVars PROVE PollTypeOK'
  OBVIOUS
<1> USE PollBounds DEF PollTypeOK, Updates, lists
<1>1. CASE Send
  BY <1>1 DEF Send, settings, loop
<1>2. CASE Question
  BY <1>2 DEF Question, telegram, settings, loop
<1>3. CASE Request
  BY <1>3 DEF Request, Confirmed, settings
<1>4. CASE RequestFails
  BY <1>4 DEF RequestFails, Confirmed, settings
<1>5. CASE Receive
  BY <1>5 DEF Receive, telegram, settings
<1>6. CASE FetchAgain
  BY <1>6 DEF FetchAgain, telegram, settings
<1>7. CASE Take
  BY <1>7 DEF Take, telegram, settings
<1>8. CASE Answer
  <2>1. dealt' \subseteq Updates
    BY <1>8 DEF Answer, Through, Deal
  <2>2. mine' \subseteq Updates /\ current' = 0
    BY <1>8 DEF Answer, Through
  <2>3. open' \in BOOLEAN
    BY <1>8 DEF Answer
  <2> QED
    BY <1>8, <2>1, <2>2, <2>3 DEF Answer, Through, telegram,
       settings
<1>9. CASE Dispatch
  BY <1>9 DEF Dispatch, Through, telegram, settings
<1>10. CASE Skip
  BY <1>10 DEF Skip, Through, Deal, telegram,
     settings
<1>11. CASE HandlingRaises
  BY <1>11 DEF HandlingRaises, Deal, telegram, settings
<1>12. ASSUME NEW u \in Updates, TaskEnds(u) PROVE PollTypeOK'
  BY <1>12 DEF TaskEnds, Deal, telegram, settings,
     loop
<1>13. CASE SaveSettings
  BY <1>13 DEF SaveSettings, telegram, loop
<1>20. CASE PutSection
  <2>1. putting' \in BOOLEAN /\ silent' \in BOOLEAN /\ wanted' \in BOOLEAN
    BY <1>20, Zenon DEF PutSection
  <2>2. UNCHANGED <<telegram, loop, tasks, open, dealt, saves, reconcile, running,
                    failed, lives, cached, build>>
    BY <1>20, Zenon DEF PutSection
  <2> QED
    BY <2>1, <2>2 DEF telegram, loop
<1>24. CASE ClearCache
  <2>1. putting' \in BOOLEAN /\ cached' = "none"
    BY <1>24, Zenon DEF ClearCache
  <2>2. UNCHANGED <<telegram, loop, tasks, open, dealt, wanted, saves, reconcile,
                    running, failed, lives, build, silent>>
    BY <1>24, Zenon DEF ClearCache
  <2> QED
    BY <2>1, <2>2 DEF telegram, loop
<1>21. CASE BuildBegins
  <2>1. build' \in {"on", "off"}
    BY <1>21, Zenon DEF BuildBegins, ListSays
  <2> QED
    BY <1>21, <2>1 DEF BuildBegins, telegram, loop
<1>22. CASE BuildEnds
  BY <1>22 DEF BuildEnds, telegram, loop
<1>23. CASE ReconcileRaises
  BY <1>23 DEF ReconcileRaises, telegram, loop
<1>14. CASE BeginReconcile
  <2>1. reconcile' \in {"no", "stopping", "starting"}
    BY <1>14, Zenon DEF BeginReconcile, Task
  <2>5. cached' \in {"on", "off"} /\ silent' \in BOOLEAN
    BY <1>14, Zenon DEF BeginReconcile, ListSays
  <2>2. saves' \in 0..MaxSaves
    BY <1>14 DEF BeginReconcile
  <2>4. failed' \in BOOLEAN
    BY <1>14, Zenon DEF BeginReconcile
  <2>3. UNCHANGED <<telegram, loop, tasks, open, dealt, wanted, running, lives, build, putting>>
    BY <1>14, Zenon DEF BeginReconcile
  <2> QED
    BY <2>1, <2>2, <2>3, <2>4, <2>5 DEF telegram, loop
<1>15. CASE StartPoller
  BY <1>15 DEF StartPoller, telegram
<1>16. CASE StartFails
  BY <1>16 DEF StartFails, telegram, loop
<1>a. ASSUME Off
      PROVE  /\ dealt' \subseteq Updates
             /\ running' \in BOOLEAN /\ reconcile' = "no" /\ stage' = "off"
             /\ offset' = 0 /\ next' = 1 /\ last' = 0 /\ current' = 0
             /\ mine' = {} /\ tasks' = {}
  BY <1>a DEF Off
<1>17. CASE StopPoller
  <2>1. UNCHANGED <<telegram, open, wanted, saves, failed, lives, lists>>
    BY <1>17, Zenon DEF StopPoller
  <2>2. Off
    BY <1>17, Zenon DEF StopPoller
  <2> QED
    BY <1>a, <2>1, <2>2 DEF telegram
<1>18. CASE Restart
  <2>1. /\ UNCHANGED <<telegram, open, wanted, failed, lives, silent>>
        /\ saves' \in 0..MaxSaves
    BY <1>18 DEF Restart
  <2>2. putting' \in BOOLEAN /\ cached' = "none" /\ build' = "none"
    BY <1>18, Zenon DEF Restart
  <2>3. Off
    BY <1>18, Zenon DEF Restart
  <2> QED
    BY <1>a, <2>1, <2>2, <2>3 DEF telegram
<1>19. CASE UNCHANGED pollVars
  BY <1>19 DEF pollVars, telegram, settings, loop
<1> QED
  BY <1>1, <1>2, <1>3, <1>4, <1>5, <1>6, <1>7, <1>8, <1>9, <1>10, <1>11, <1>12,
     <1>13, <1>14, <1>15, <1>16, <1>17, <1>18, <1>19, <1>20, <1>21, <1>22, <1>23,
     <1>24
  DEF PollNext

(* Each action keeps the window. *)
LEMMA WindowStep == PollTypeOK /\ Window /\ Settled /\ [PollNext]_pollVars => Window'
<1> SUFFICES ASSUME PollTypeOK, Window, Settled, [PollNext]_pollVars
             PROVE Window'
  OBVIOUS
<1> USE PollBounds DEF PollTypeOK, Window, Updates
<1>1. CASE Send
  BY <1>1 DEF Send, settings, loop
<1>2. CASE Question
  BY <1>2 DEF Question, telegram, settings, loop
<1>3. CASE Request
  BY <1>3 DEF Request, Confirmed, settings
<1>4. CASE RequestFails
  BY <1>4 DEF RequestFails, Confirmed, settings
<1>5. CASE Receive
  BY <1>5 DEF Receive, telegram, settings
<1>6. CASE FetchAgain
  BY <1>6 DEF FetchAgain, telegram, settings
<1>7. CASE Take
  BY <1>7 DEF Take, telegram, settings
<1>8. CASE Answer \/ Dispatch \/ Skip
  BY <1>8 DEF Answer, Dispatch, Skip, Through,
     telegram, settings
<1>9. CASE HandlingRaises
  BY <1>9 DEF HandlingRaises, telegram, settings
<1>10. ASSUME NEW u \in Updates, TaskEnds(u) PROVE Window'
  BY <1>10 DEF TaskEnds, telegram, settings, loop
<1>11. CASE SaveSettings \/ PutSection \/ ClearCache \/ BuildBegins \/ BuildEnds
           \/ BeginReconcile \/ ReconcileRaises \/ StartFails
  BY <1>11 DEF SaveSettings, PutSection, ClearCache, BuildBegins, BuildEnds, BeginReconcile,
     ReconcileRaises, StartFails,
     telegram, loop
<1>12. CASE StartPoller
  BY <1>12 DEF StartPoller, Settled, telegram
<1>13. CASE StopPoller \/ Restart
  BY <1>13 DEF StopPoller, Restart, Off, telegram
<1>14. CASE UNCHANGED pollVars
  BY <1>14 DEF pollVars, telegram, settings, loop
<1> QED
  BY <1>1, <1>2, <1>3, <1>4, <1>5, <1>6, <1>7, <1>8, <1>9, <1>10, <1>11, <1>12,
     <1>13, <1>14 DEF PollNext

(* Nothing that was confirmed, or is about to be, is left undone. *)
LEMMA ProgressStep == PollTypeOK /\ Window /\ Progress /\ [PollNext]_pollVars => Progress'
<1> SUFFICES ASSUME PollTypeOK, Window, Progress, [PollNext]_pollVars
             PROVE Progress'
  OBVIOUS
<1> USE PollBounds DEF PollTypeOK, Window, Progress, Handled, Updates
<1>1. CASE Send
  BY <1>1 DEF Send, settings, loop
<1>2. CASE Question
  BY <1>2 DEF Question, telegram, settings, loop
<1>3. CASE Request
  BY <1>3 DEF Request, Confirmed, settings
<1>4. CASE RequestFails
  BY <1>4 DEF RequestFails, Confirmed, settings
<1>5. CASE Receive
  BY <1>5 DEF Receive, telegram, settings
<1>6. CASE FetchAgain
  BY <1>6 DEF FetchAgain, telegram, settings
<1>7. CASE Take
  BY <1>7 DEF Take, telegram, settings
<1>8. CASE Answer
  BY <1>8 DEF Answer, Through, Deal, telegram,
     settings
<1>9. CASE Dispatch
  BY <1>9 DEF Dispatch, Through, telegram, settings
<1>10. CASE Skip
  BY <1>10 DEF Skip, Through, Deal, telegram,
     settings
<1>11. CASE HandlingRaises
  BY <1>11 DEF HandlingRaises, Deal, telegram, settings
<1>12. ASSUME NEW u \in Updates, TaskEnds(u) PROVE Progress'
  BY <1>12 DEF TaskEnds, Deal, telegram, settings,
     loop
<1>13. CASE SaveSettings \/ PutSection \/ ClearCache \/ BuildBegins \/ BuildEnds
           \/ BeginReconcile \/ ReconcileRaises \/ StartFails
  BY <1>13 DEF SaveSettings, PutSection, ClearCache, BuildBegins, BuildEnds, BeginReconcile,
     ReconcileRaises, StartFails,
     telegram, loop
<1>14. CASE StartPoller
  BY <1>14 DEF StartPoller, telegram
<1>15. CASE StopPoller \/ Restart
  <2>1. Off /\ UNCHANGED <<sent, confirmed>>
    BY <1>15, Zenon DEF StopPoller, Restart, telegram
  <2> QED
    BY <2>1 DEF Off
<1>16. CASE UNCHANGED pollVars
  BY <1>16 DEF pollVars, telegram, settings, loop
<1> QED
  BY <1>1, <1>2, <1>3, <1>4, <1>5, <1>6, <1>7, <1>8, <1>9, <1>10, <1>11, <1>12,
     <1>13, <1>14, <1>15, <1>16 DEF PollNext

(* The poller goes forward only. *)
LEMMA OrderStep == PollTypeOK /\ Window /\ Order /\ [PollNext]_pollVars => Order'
<1> SUFFICES ASSUME PollTypeOK, Window, Order, [PollNext]_pollVars PROVE Order'
  OBVIOUS
<1> USE PollBounds DEF PollTypeOK, Window, Order, Updates
<1>1. CASE Take
  BY <1>1 DEF Take, telegram, settings
<1>2. CASE Answer \/ Dispatch \/ Skip
  <2>1. /\ current # 0 /\ current' = 0 /\ offset' = offset
        /\ mine' = mine \union {current}
    BY <1>2 DEF Answer, Dispatch, Skip, Through
  <2> QED
    BY <2>1
<1>3. CASE HandlingRaises
  BY <1>3 DEF HandlingRaises, telegram, settings
<1>4. CASE StopPoller \/ Restart
  BY <1>4 DEF StopPoller, Restart, Off, telegram
<1>5. CASE Request \/ RequestFails \/ Receive
           \/ FetchAgain \/ StartPoller
  BY <1>5 DEF Request, RequestFails, Receive, FetchAgain,
     StartPoller, telegram
<1>6. CASE Send \/ Question \/ SaveSettings \/ PutSection \/ ClearCache \/ BuildBegins \/ BuildEnds
           \/ BeginReconcile \/ ReconcileRaises \/ StartFails
  BY <1>6 DEF Send, Question, SaveSettings, PutSection, ClearCache, BuildBegins, BuildEnds, BeginReconcile,
     ReconcileRaises, StartFails, loop
<1>7. ASSUME NEW u \in Updates, TaskEnds(u) PROVE Order'
  BY <1>7 DEF TaskEnds, loop
<1>8. CASE UNCHANGED pollVars
  BY <1>8 DEF pollVars, loop
<1> QED
  BY <1>1, <1>2, <1>3, <1>4, <1>5, <1>6, <1>7, <1>8 DEF PollNext

(* Reconciliations end where the settings want. *)
LEMMA SettledStep == PollTypeOK /\ Window /\ Settled /\ [PollNext]_pollVars => Settled'
<1> SUFFICES ASSUME PollTypeOK, Window, Settled, [PollNext]_pollVars
             PROVE Settled'
  OBVIOUS
<1> USE PollBounds DEF PollTypeOK, Window, Settled, SettingsTakeEffect, lists
<1>1. CASE SaveSettings
  BY <1>1 DEF SaveSettings, loop
<1>2. CASE BeginReconcile
  <2>1. ~silent' => List = wanted
    BY <1>2 DEF BeginReconcile, List, ListSays
  <2> QED
    BY <1>2, <2>1 DEF BeginReconcile, Task, loop
<1>12. CASE PutSection
  BY <1>12 DEF PutSection, loop
<1>14. CASE ClearCache
  BY <1>14 DEF ClearCache, loop
<1>15. CASE BuildBegins
  BY <1>15 DEF BuildBegins, loop
<1>16. CASE BuildEnds
  <2>1. ~silent' => ~silent /\ cached' = ListSays(wanted)
    BY <1>16, Zenon DEF BuildEnds
  <2> QED
    BY <1>16, <2>1 DEF BuildEnds, loop
<1>13. CASE ReconcileRaises
  BY <1>13 DEF ReconcileRaises, loop
<1>3. CASE StartPoller
  BY <1>3 DEF StartPoller
<1>4. CASE StartFails
  BY <1>4 DEF StartFails, loop
<1>5. CASE StopPoller
  BY <1>5 DEF StopPoller, Off
<1>6. CASE Restart
  BY <1>6 DEF Restart, Off
<1>7. CASE Request \/ RequestFails \/ Receive
           \/ FetchAgain \/ HandlingRaises
  BY <1>7 DEF Request, RequestFails, Receive, FetchAgain,
     HandlingRaises, settings
<1>8. CASE Take \/ Answer \/ Dispatch \/ Skip
  BY <1>8 DEF Take, Answer, Dispatch, Skip, Through,
     settings
<1>9. CASE Send \/ Question
  BY <1>9 DEF Send, Question, settings, loop
<1>10. ASSUME NEW u \in Updates, TaskEnds(u) PROVE Settled'
  BY <1>10 DEF TaskEnds, settings, loop
<1>11. CASE UNCHANGED pollVars
  BY <1>11 DEF pollVars, settings, loop
<1> QED
  BY <1>1, <1>2, <1>3, <1>4, <1>5, <1>6, <1>7, <1>8, <1>9, <1>10, <1>11, <1>12, <1>13,
     <1>14, <1>15, <1>16 DEF PollNext

-----------------------------------------------------------------------------
(* The invariant holds in every reachable state. *)
THEOREM PollInvariance == PollSpec => []PollInv
<1>1. PollInv /\ [PollNext]_pollVars => PollInv'
  BY PollTypes, WindowStep, ProgressStep, OrderStep, SettledStep DEF PollInv
<1> QED
  BY <1>1, InitPoll, PTL DEF PollSpec

(* A poller takes the updates in the order they came and each at most once. *)
THEOREM PollingInOrder == PollSpec => []OnceInOrder
<1>1. PollInv => OnceInOrder
  BY DEF PollInv, Order, OnceInOrder
<1> QED
  BY <1>1, PollInvariance, PTL

(* Telegram forgets an update only when it was dealt with. *)
THEOREM NoUpdateLost == PollSpec => []NothingForgotten
<1>1. PollInv => NothingForgotten
  BY DEF PollInv, Progress, Handled, NothingForgotten
<1> QED
  BY <1>1, PollInvariance, PTL

(* With no reconcile left to run, the bot is polled as the settings say,    *)
(* unless the latest failed or nobody reconciled the latest change.         *)
THEOREM SettingsApplied == PollSpec => []SettingsTakeEffect
<1>1. PollInv => SettingsTakeEffect
  BY DEF PollInv, Settled
<1> QED
  BY <1>1, PollInvariance, PTL
=============================================================================
