----------------------- MODULE PersistentAgent_proofs -----------------------
(***************************************************************************)
(* Safety of the persistent agent, and that it implements the life cycle   *)
(* of a mission, for every set of requests, every priority assignment and  *)
(* every capacity of the queue.                                            *)
(***************************************************************************)
EXTENDS PersistentAgent, FiniteSetTheorems, SequenceTheorems, TLAPS

(* No putter appears twice in asyncio's deque. *)
Distinct(s) == \A i, j \in DOMAIN s : s[i] = s[j] => i = j

Elements(s) == {s[i] : i \in DOMAIN s}

(* A request is in at most one place. *)
OnePlace ==
  /\ Distinct(putters)
  /\ Blocked \intersect woken = {} /\ Blocked \intersect heap = {}
  /\ woken \intersect heap = {}
  /\ current \notin Blocked \union woken \union heap
  /\ aborted \intersect (Blocked \union woken \union heap \union {current}) = {}

(* What has happened to a request agrees with where it is. *)
History ==
  \A r \in Requests :
    /\ reply[r] = "none" =>
         /\ r \notin Blocked \union woken \union heap \union {current} \union aborted
         /\ r \notin futures \union known \union cancelled
         /\ runs[r] = 0
    /\ r \in Blocked \union woken \union heap => runs[r] = 0
    /\ r \in cancelled => reply[r] # "pending" /\ r # current
    /\ r \in Blocked \union woken \union heap /\ reply[r] = "cancelled" => r \in cancelled
    /\ r \in futures \union known /\ runs[r] > 0 => r = current \/ r \in aborted

(* Where the processor task is agrees with where start() and stop() are. *)
Control ==
  /\ current # None <=> proc \in {"prepare", "agent", "store"}
  /\ svc \in {"down", "loading", "saving"} <=> proc = "none"
  /\ proc = "done" => svc = "joining" /\ ~cancelSent
  /\ cancelSent => svc = "joining"

IInv ==
  /\ TypeOK /\ Accounting /\ NoLostWakeup
  /\ OnePlace /\ History /\ Control
  /\ AtMostOnce /\ CancelledNeverRan /\ NoLimbo

-----------------------------------------------------------------------------
(* Sequences without repetition, as the operations of asyncio's putters    *)
(* deque use them: append, popleft, remove.                                *)
LEMMA AppendElement ==
  ASSUME NEW S, NEW s \in Seq(S), NEW e \in S, Distinct(s), e \notin Elements(s)
  PROVE  /\ Append(s, e) \in Seq(S)
         /\ Distinct(Append(s, e))
         /\ Elements(Append(s, e)) = Elements(s) \union {e}
<1> DEFINE t == Append(s, e)
<1>1. /\ t \in Seq(S) /\ Len(t) = Len(s) + 1 /\ DOMAIN t = 1 .. Len(s) + 1
      /\ \A i \in 1 .. Len(s) : t[i] = s[i]
      /\ t[Len(s) + 1] = e
  OBVIOUS
<1>2. DOMAIN s = 1 .. Len(s) /\ Len(s) \in Nat
  OBVIOUS
<1>3. Distinct(t)
  BY <1>1, <1>2 DEF Distinct, Elements
<1>4. Elements(t) = Elements(s) \union {e}
  <2>1. \A x \in Elements(t) : x \in Elements(s) \union {e}
    BY <1>1, <1>2 DEF Elements
  <2>2. \A x \in Elements(s) : x \in Elements(t)
    BY <1>1, <1>2 DEF Elements
  <2>3. e \in Elements(t)
    BY <1>1, <1>2 DEF Elements
  <2> QED
    BY <2>1, <2>2, <2>3
<1> QED
  BY <1>1, <1>3, <1>4

LEMMA TailElement ==
  ASSUME NEW S, NEW s \in Seq(S), Distinct(s), s # <<>>
  PROVE  /\ Tail(s) \in Seq(S) /\ Head(s) \in Elements(s) /\ Head(s) \in S
         /\ Distinct(Tail(s))
         /\ Elements(Tail(s)) = Elements(s) \ {Head(s)}
<1> DEFINE t == Tail(s)
<1>1. /\ DOMAIN s = 1 .. Len(s) /\ Len(s) \in Nat \ {0} /\ Head(s) = s[1]
      /\ t \in Seq(S) /\ Len(t) = Len(s) - 1 /\ DOMAIN t = 1 .. Len(s) - 1
      /\ \A i \in 1 .. Len(s) - 1 : t[i] = s[i + 1]
  OBVIOUS
<1>2. Distinct(t)
  BY <1>1 DEF Distinct
<1>3. Head(s) \in Elements(s) /\ Head(s) \in S
  BY <1>1 DEF Elements
<1>4. Elements(t) = Elements(s) \ {Head(s)}
  <2>1. ASSUME NEW x \in Elements(t)
        PROVE  x \in Elements(s) /\ x # Head(s)
    BY <1>1 DEF Elements, Distinct
  <2>2. ASSUME NEW x \in Elements(s), x # Head(s)
        PROVE  x \in Elements(t)
    <3>1. PICK i \in 1 .. Len(s) : s[i] = x
      BY <1>1 DEF Elements
    <3>2. i - 1 \in 1 .. Len(s) - 1 /\ t[i - 1] = x
      BY <1>1, <2>2, <3>1
    <3> QED
      BY <1>1, <3>2 DEF Elements
  <2> QED
    BY <2>1, <2>2
<1> QED
  BY <1>1, <1>2, <1>3, <1>4

LEMMA RemoveElement ==
  ASSUME NEW S, NEW s \in Seq(S), Distinct(s), NEW k \in DOMAIN s
  PROVE  /\ Without(s, k) \in Seq(S)
         /\ Distinct(Without(s, k))
         /\ Elements(Without(s, k)) = Elements(s) \ {s[k]}
<1> DEFINE t == Without(s, k)
           u == SubSeq(s, 1, k - 1)
           v == SubSeq(s, k + 1, Len(s))
<1>1. /\ DOMAIN s = 1 .. Len(s) /\ Len(s) \in Nat /\ k \in 1 .. Len(s) /\ k \in Int
      /\ \A i \in 1 .. Len(s) : s[i] \in S
  OBVIOUS
<1>2. /\ u \in Seq(S) /\ Len(u) = k - 1
      /\ \A i \in 1 .. k - 1 : u[i] = s[i]
  <2>1. \A i \in 1 .. k - 1 : s[i] \in S
    BY <1>1
  <2>2. /\ u \in Seq(S) /\ Len(u) = IF 1 <= k - 1 THEN (k - 1) - 1 + 1 ELSE 0
        /\ \A i \in 1 .. (k - 1) - 1 + 1 : u[i] = s[1 + i - 1]
    BY <1>1, <2>1, SubSeqProperties
  <2> HIDE DEF u
  <2> QED
    BY <1>1, <2>2
<1>3. /\ v \in Seq(S) /\ Len(v) = Len(s) - k
      /\ \A i \in 1 .. Len(s) - k : v[i] = s[k + i]
  <2>1. \A i \in k + 1 .. Len(s) : s[i] \in S
    BY <1>1
  <2>2. /\ v \in Seq(S) /\ Len(v) = IF k + 1 <= Len(s) THEN Len(s) - (k + 1) + 1 ELSE 0
        /\ \A i \in 1 .. Len(s) - (k + 1) + 1 : v[i] = s[(k + 1) + i - 1]
    BY <1>1, <2>1, SubSeqProperties
  <2> HIDE DEF v
  <2>3. ASSUME NEW i \in 1 .. Len(s) - k
        PROVE  v[i] = s[k + i]
    <3>1. i \in 1 .. Len(s) - (k + 1) + 1 /\ (k + 1) + i - 1 = k + i
      BY <1>1
    <3>2. v[i] = s[(k + 1) + i - 1]
      BY <2>2, <3>1
    <3> QED
      BY <3>1, <3>2
  <2>4. Len(v) = Len(s) - k
    BY <1>1, <2>2
  <2> QED
    BY <2>2, <2>3, <2>4
<1>4. /\ t \in Seq(S) /\ DOMAIN t = 1 .. Len(s) - 1
      /\ \A i \in 1 .. Len(s) - 1 : t[i] = IF i < k THEN s[i] ELSE s[i + 1]
  <2> HIDE DEF u, v
  <2>1. t = u \o v
    BY DEF u, v, Without
  <2> HIDE DEF t
  <2>2. /\ t \in Seq(S) /\ Len(t) = Len(s) - 1
        /\ \A i \in 1 .. Len(s) - 1 : t[i] = IF i <= k - 1 THEN u[i] ELSE v[i - (k - 1)]
    <3>1. /\ t \in Seq(S) /\ Len(t) = Len(u) + Len(v)
          /\ \A i \in 1 .. Len(u) + Len(v) : t[i] = IF i <= Len(u) THEN u[i] ELSE v[i - Len(u)]
      BY <1>2, <1>3, <2>1, ConcatProperties
    <3>2. Len(u) = k - 1 /\ Len(u) + Len(v) = Len(s) - 1
      BY <1>1, <1>2, <1>3
    <3> QED
      BY <3>1, <3>2
  <2>3. ASSUME NEW i \in 1 .. Len(s) - 1
        PROVE  t[i] = IF i < k THEN s[i] ELSE s[i + 1]
    <3>1. CASE i < k
      BY <1>1, <1>2, <2>2, <3>1
    <3>2. CASE ~(i < k)
      <4>1. i - (k - 1) \in 1 .. Len(s) - k /\ k + (i - (k - 1)) = i + 1
        BY <1>1, <3>2
      <4>2. v[i - (k - 1)] = s[k + (i - (k - 1))]
        BY <1>3, <4>1
      <4> QED
        BY <1>1, <2>2, <3>2, <4>1, <4>2
    <3> QED
      BY <3>1, <3>2
  <2> QED
    BY <2>2, <2>3
<1> HIDE DEF t
<1>5. Distinct(t)
  <2> SUFFICES ASSUME NEW i \in DOMAIN t, NEW j \in DOMAIN t, t[i] = t[j]
               PROVE  i = j
    BY DEF Distinct
  <2> DEFINE ii == IF i < k THEN i ELSE i + 1
             jj == IF j < k THEN j ELSE j + 1
  <2>1. ii \in DOMAIN s /\ jj \in DOMAIN s /\ s[ii] = s[jj]
    BY <1>1, <1>4
  <2>2. ii = jj
    BY <2>1 DEF Distinct
  <2> QED
    BY <1>1, <1>4, <2>2
<1>6. Elements(t) = Elements(s) \ {s[k]}
  <2>1. ASSUME NEW x \in Elements(t)
        PROVE  x \in Elements(s) /\ x # s[k]
    <3>1. PICK i \in 1 .. Len(s) - 1 : t[i] = x
      BY <1>4 DEF Elements
    <3>2. PICK j \in 1 .. Len(s) : s[j] = x /\ j # k
      <4>1. CASE i < k
        BY <1>1, <1>4, <3>1, <4>1
      <4>2. CASE ~(i < k)
        <5>1. i + 1 \in 1 .. Len(s) /\ s[i + 1] = x /\ i + 1 # k
          BY <1>1, <1>4, <3>1, <4>2
        <5> QED
          BY <5>1
      <4> QED
        BY <4>1, <4>2
    <3> QED
      BY <1>1, <3>2 DEF Elements, Distinct
  <2>2. ASSUME NEW x \in Elements(s), x # s[k]
        PROVE  x \in Elements(t)
    <3>1. PICK i \in 1 .. Len(s) : s[i] = x
      BY <1>1 DEF Elements
    <3>2. CASE i < k
      BY <1>1, <1>4, <3>1, <3>2 DEF Elements
    <3>3. CASE i > k
      <4>1. i - 1 \in 1 .. Len(s) - 1 /\ t[i - 1] = x
        BY <1>1, <1>4, <3>1, <3>3
      <4> QED
        BY <1>4, <4>1 DEF Elements
    <3> QED
      BY <1>1, <2>2, <3>1, <3>2, <3>3
  <2> QED
    BY <2>1, <2>2
<1> QED
  BY <1>4, <1>5, <1>6 DEF t

-----------------------------------------------------------------------------
LEMMA FiniteParts ==
  ASSUME TypeOK
  PROVE  /\ IsFiniteSet(heap) /\ Cardinality(heap) \in Nat
         /\ IsFiniteSet(woken) /\ Cardinality(woken) \in Nat
         /\ IsFiniteSet(aborted) /\ Cardinality(aborted) \in Nat
  BY QueueConstants, FS_Subset, FS_CardinalityType DEF TypeOK

LEMMA BlockedIsElements ==
  /\ Blocked = Elements(putters)
  /\ Blocked' = Elements(putters')
  /\ putters' = putters => Blocked' = Blocked
  BY DEF Blocked, Elements

(* The wake-up of a putter moves it from the deque to `woken`. *)
LEMMA WakeNextMoves ==
  ASSUME TypeOK, OnePlace, NEW w \in SUBSET woken, WakeNext(w)
  PROVE  /\ putters' \in Seq(Requests) /\ Distinct(putters')
         /\ woken' \subseteq Requests /\ w \subseteq woken'
         /\ Blocked' \union woken' = Blocked \union w
         /\ Blocked' \intersect woken' = {}
         /\ putters' # <<>> => /\ putters # <<>>
                              /\ Cardinality(woken') = Cardinality(w) + 1
<1>1. CASE putters = <<>>
  BY <1>1, BlockedIsElements DEF WakeNext, TypeOK, OnePlace
<1>2. CASE putters # <<>>
  <2>1. /\ Tail(putters) \in Seq(Requests) /\ Head(putters) \in Elements(putters)
        /\ Head(putters) \in Requests /\ Distinct(Tail(putters))
        /\ Elements(Tail(putters)) = Elements(putters) \ {Head(putters)}
    BY <1>2, TailElement DEF TypeOK, OnePlace
  <2>2. woken' = w \union {Head(putters)} /\ putters' = Tail(putters)
    BY <1>2 DEF WakeNext
  <2>3. Head(putters) \notin w
    BY <2>1, BlockedIsElements DEF OnePlace
  <2>4. Cardinality(woken') = Cardinality(w) + 1
    <3>1. IsFiniteSet(w)
      BY FiniteParts, FS_Subset
    <3> QED
      BY <2>2, <2>3, <3>1, FS_AddElement
  <2>5. Blocked' \union woken' = Blocked \union w /\ Blocked' \intersect woken' = {}
    BY <2>1, <2>2, <2>3, BlockedIsElements DEF OnePlace
  <2> QED
    BY <1>2, <2>1, <2>2, <2>4, <2>5 DEF TypeOK
<1> QED
  BY <1>1, <1>2

(* The two outcomes of the full() test in put(). *)
LEMMA PutTryMoves ==
  ASSUME TypeOK, NEW r \in Requests, PutTry(r), Distinct(putters),
         r \notin Blocked, r \notin heap
  PROVE  /\ putters' \in Seq(Requests) /\ Distinct(putters')
         /\ heap' \subseteq Requests
         /\ \/ /\ Full /\ heap' = heap /\ unfinished' = unfinished
               /\ Blocked' = Blocked \union {r}
            \/ /\ ~Full /\ heap' = heap \union {r} /\ unfinished' = unfinished + 1
               /\ putters' = putters /\ Blocked' = Blocked
               /\ Cardinality(heap') = Cardinality(heap) + 1
<1>1. CASE Full
  <2>1. heap' = heap /\ unfinished' = unfinished /\ putters' = Append(putters, r)
    BY <1>1 DEF PutTry, PutWaits
  <2>2. putters \in Seq(Requests) /\ r \notin Elements(putters) /\ heap \subseteq Requests
    BY BlockedIsElements DEF TypeOK
  <2>3. /\ Append(putters, r) \in Seq(Requests) /\ Distinct(Append(putters, r))
        /\ Elements(Append(putters, r)) = Elements(putters) \union {r}
    BY <2>2, AppendElement
  <2> QED
    BY <1>1, <2>1, <2>2, <2>3, BlockedIsElements
<1>2. CASE ~Full
  <2>1. heap' = heap \union {r} /\ unfinished' = unfinished + 1 /\ putters' = putters
    BY <1>2 DEF PutTry, PutNow
  <2>2. Cardinality(heap \union {r}) = Cardinality(heap) + 1
    BY FiniteParts, FS_AddElement
  <2> QED
    BY <1>2, <2>1, <2>2, BlockedIsElements DEF TypeOK
<1> QED
  BY <1>1, <1>2

LEMMA InitInvariant == Init => IInv
<1> SUFFICES ASSUME Init PROVE IInv
  OBVIOUS
<1> USE DEF Init, QueueInit
<1>1. Blocked = {} /\ putters = <<>>
  BY DEF Blocked
<1>2. TypeOK
  <2>1. <<>> \in Seq(Requests)
    OBVIOUS
  <2>2. reply \in [Requests -> Replies] /\ proc \in ProcStates /\ svc \in SvcStates
    BY DEF Replies, Results, ProcStates, SvcStates
  <2> QED
    BY <2>1, <2>2 DEF TypeOK
<1>3. Accounting /\ NoLostWakeup
  BY FS_EmptySet DEF Accounting, NoLostWakeup
<1>4. OnePlace
  BY <1>1, NoneIsNoRequest DEF OnePlace, Distinct
<1>5. History /\ Control
  BY <1>1, NoneIsNoRequest DEF History, Control
<1>6. AtMostOnce /\ CancelledNeverRan /\ NoLimbo
  BY DEF AtMostOnce, CancelledNeverRan, NoLimbo
<1> QED
  BY <1>2, <1>3, <1>4, <1>5, <1>6 DEF IInv

(* submit: the request enters the queue or blocks in front of it. *)
LEMMA SubmitInvariant ==
  ASSUME IInv, NEW r \in Requests, Submit(r)
  PROVE  IInv'
<1> USE DEF Submit, Enqueue, agentVars
<1>1. /\ r \notin Blocked \union woken \union heap \union {current} \union aborted
      /\ r \notin futures \union known \union cancelled
      /\ runs[r] = 0 /\ reply[r] = "none"
  BY DEF IInv, History
<1>2. /\ putters' \in Seq(Requests) /\ Distinct(putters')
      /\ heap' \subseteq Requests
      /\ \/ /\ Full /\ heap' = heap /\ unfinished' = unfinished
            /\ Blocked' = Blocked \union {r}
         \/ /\ ~Full /\ heap' = heap \union {r} /\ unfinished' = unfinished + 1
            /\ putters' = putters /\ Blocked' = Blocked
            /\ Cardinality(heap') = Cardinality(heap) + 1
  BY <1>1, PutTryMoves DEF IInv, OnePlace
<1>3. TypeOK'
  BY <1>2, SMTT(30) DEF IInv, TypeOK, Replies
<1>4. Accounting'
  BY <1>2, FiniteParts, SMTT(30) DEF IInv, Accounting, TypeOK
<1>5. NoLostWakeup'
  BY <1>2, FiniteParts, QueueConstants DEF IInv, NoLostWakeup, Full
<1>6. OnePlace'
  BY <1>1, <1>2 DEF IInv, OnePlace
<1>7. History'
  BY <1>1, <1>2 DEF IInv, History, TypeOK
<1>8. Control'
  BY DEF IInv, Control
<1>9. AtMostOnce' /\ CancelledNeverRan' /\ NoLimbo'
  BY <1>1, <1>2 DEF IInv, AtMostOnce, CancelledNeverRan, NoLimbo, TypeOK
<1> QED
  BY <1>3, <1>4, <1>5, <1>6, <1>7, <1>8, <1>9 DEF IInv

LEMMA ResumeInvariant ==
  ASSUME IInv, NEW r \in Requests, SubmitterResumes(r)
  PROVE  IInv'
<1> USE DEF SubmitterResumes, ResumePut, agentVars
<1>1. r \in woken /\ r \notin Blocked /\ r \notin heap
  BY DEF IInv, OnePlace
<1>2. /\ putters' \in Seq(Requests) /\ Distinct(putters')
      /\ heap' \subseteq Requests
      /\ \/ /\ Full /\ heap' = heap /\ unfinished' = unfinished
            /\ Blocked' = Blocked \union {r}
         \/ /\ ~Full /\ heap' = heap \union {r} /\ unfinished' = unfinished + 1
            /\ putters' = putters /\ Blocked' = Blocked
            /\ Cardinality(heap') = Cardinality(heap) + 1
  BY <1>1, PutTryMoves DEF IInv, OnePlace
<1>3. Cardinality(woken') = Cardinality(woken) - 1 /\ Cardinality(woken') \in Nat
  BY <1>1, FiniteParts, FS_RemoveElement, FS_CardinalityType DEF IInv
<1>4. TypeOK'
  BY <1>2 DEF IInv, TypeOK
<1>5. Accounting'
  <2>1. UNCHANGED <<current, aborted>>
    OBVIOUS
  <2>2. Cardinality(heap) \in Nat /\ Cardinality(aborted) \in Nat /\ unfinished \in Nat
    BY FiniteParts, FS_CardinalityType DEF IInv, TypeOK
  <2>3. /\ aborted' = aborted /\ current' = current
        /\ \/ heap' = heap /\ unfinished' = unfinished
           \/ /\ unfinished' = unfinished + 1
              /\ Cardinality(heap') = Cardinality(heap) + 1
    BY <1>2, <2>1, Zenon
  <2>4. Accounting
    BY DEF IInv
  <2> HIDE DEF SubmitterResumes, ResumePut, agentVars
  <2> QED
    BY <2>2, <2>3, <2>4 DEF Accounting
<1>6. NoLostWakeup'
  BY <1>2, <1>3, FiniteParts, QueueConstants DEF IInv, NoLostWakeup, Full
<1>7. OnePlace'
  BY <1>1, <1>2 DEF IInv, OnePlace
<1>8. History'
  BY <1>1, <1>2 DEF IInv, History, TypeOK
<1>9. Control'
  BY DEF IInv, Control
<1>10. AtMostOnce' /\ CancelledNeverRan' /\ NoLimbo'
  BY <1>1, <1>2 DEF IInv, AtMostOnce, CancelledNeverRan, NoLimbo, TypeOK
<1> QED
  BY <1>4, <1>5, <1>6, <1>7, <1>8, <1>9, <1>10 DEF IInv

(* The submitting task is cancelled at one of its three awaits. *)
LEMMA LeaveInvariant ==
  ASSUME IInv, NEW r \in Requests, SubmitterLeaves(r)
  PROVE  IInv'
<1> USE DEF SubmitterLeaves, Abandon, agentVars
<1>1. /\ putters' \in Seq(Requests) /\ Distinct(putters') /\ woken' \subseteq Requests
      /\ heap' = heap
      /\ Blocked' \intersect woken' = {}
      /\ \/ Blocked' \union woken' = Blocked \union woken
         \/ Blocked' \union woken' = (Blocked \union woken) \ {r}
      /\ putters' # <<>> => Cardinality(heap) + Cardinality(woken') >= MaxSize
  <2>1. CASE AbandonBlocked(r)
    <3>1. PICK i \in DOMAIN putters : putters[i] = r /\ putters' = Without(putters, i)
      BY <2>1 DEF AbandonBlocked
    <3>2. /\ putters' \in Seq(Requests) /\ Distinct(putters')
          /\ Elements(putters') = Elements(putters) \ {r}
      BY <3>1, RemoveElement DEF IInv, TypeOK, OnePlace
    <3>3. putters # <<>>
      BY <3>1
    <3> QED
      BY <2>1, <3>2, <3>3, BlockedIsElements
      DEF AbandonBlocked, IInv, TypeOK, OnePlace, NoLostWakeup
  <2>2. CASE AbandonWoken(r) /\ Full
    <3>1. /\ r \in woken /\ woken' = woken \ {r} /\ putters' = putters /\ heap' = heap
          /\ Cardinality(heap) >= MaxSize
      BY <2>2 DEF AbandonWoken, Full
    <3>2. Cardinality(heap) \in Nat /\ Cardinality(woken') \in Nat /\ MaxSize \in Nat
      BY <3>1, FiniteParts, FS_RemoveElement, FS_CardinalityType, QueueConstants DEF IInv
    <3> QED
      BY <3>1, <3>2, BlockedIsElements DEF IInv, TypeOK, OnePlace
  <2>3. CASE AbandonWoken(r) /\ ~Full
    <3>1. r \in woken /\ WakeNext(woken \ {r}) /\ heap' = heap
      BY <2>3 DEF AbandonWoken
    <3>2. /\ putters' \in Seq(Requests) /\ Distinct(putters')
          /\ woken' \subseteq Requests
          /\ Blocked' \union woken' = Blocked \union (woken \ {r})
          /\ Blocked' \intersect woken' = {}
          /\ putters' # <<>> => /\ putters # <<>>
                               /\ Cardinality(woken') = Cardinality(woken \ {r}) + 1
      BY <3>1, WakeNextMoves DEF IInv
    <3>3. Cardinality(woken \ {r}) = Cardinality(woken) - 1
      BY <3>1, FiniteParts, FS_RemoveElement DEF IInv
    <3>4. r \notin Blocked
      BY <3>1 DEF IInv, OnePlace
    <3> QED
      BY <3>1, <3>2, <3>3, <3>4, FiniteParts DEF IInv, NoLostWakeup
  <2>4. CASE AbandonWaiting(r)
    BY <2>4, BlockedIsElements DEF AbandonWaiting, IInv, TypeOK, OnePlace, NoLostWakeup
  <2> QED
    BY <2>1, <2>2, <2>3, <2>4
<1>2. /\ reply' \in [Requests -> Replies]
      /\ \A q \in Requests \ {r} : reply'[q] = reply[q]
      /\ reply'[r] # "pending"
      /\ reply'[r] = reply[r] \/ reply'[r] = "abandoned"
      /\ reply'[r] = "none" <=> reply[r] = "none"
  BY DEF IInv, TypeOK, Replies
<1>3. TypeOK'
  BY <1>1, <1>2 DEF IInv, TypeOK
<1>4. Accounting' /\ NoLostWakeup'
  BY <1>1 DEF IInv, Accounting, NoLostWakeup
<1>5. OnePlace'
  BY <1>1 DEF IInv, OnePlace
<1>6. History'
  BY <1>1, <1>2 DEF IInv, History
<1>7. Control' /\ AtMostOnce' /\ CancelledNeverRan'
  BY <1>2 DEF IInv, Control, AtMostOnce, CancelledNeverRan
<1>8. NoLimbo'
  BY <1>1, <1>2 DEF IInv, NoLimbo
<1> QED
  BY <1>3, <1>4, <1>5, <1>6, <1>7, <1>8 DEF IInv

(* A step that moves neither the queue nor a request only has to respect   *)
(* the types and the control state.                                        *)
LEMMA ControlStepInvariant ==
  ASSUME IInv, UNCHANGED <<queueVars, current, runs, aborted>>, TypeOK', Control'
  PROVE  IInv'
<1> USE DEF queueVars
<1>1. Blocked' = Blocked
  BY BlockedIsElements
<1>2. Accounting' /\ NoLostWakeup' /\ OnePlace'
  BY <1>1 DEF IInv, Accounting, NoLostWakeup, OnePlace
<1>3. History'
  BY <1>1 DEF IInv, History
<1>4. AtMostOnce' /\ CancelledNeverRan' /\ NoLimbo'
  BY <1>1 DEF IInv, AtMostOnce, CancelledNeverRan, NoLimbo
<1> QED
  BY <1>2, <1>3, <1>4 DEF IInv

LEMMA CancelRequestInvariant ==
  ASSUME IInv, NEW r \in Requests, CancelRequest(r)
  PROVE  IInv'
<1>1. CASE r = current /\ proc = "agent"
  <2>1. CASE r # current /\ Cancel(r)
    BY <1>1, <2>1
  <2>2. CASE interrupted' = TRUE /\ UNCHANGED <<queueVars, proc, current, cancelSent, svc, runs, aborted>>
    <3>1. TypeOK' /\ Control'
      BY <2>2 DEF IInv, TypeOK, Control, queueVars
    <3> QED
      BY <2>2, <3>1, ControlStepInvariant
  <2> QED
    BY <1>1, <2>1, <2>2 DEF CancelRequest
<1>2. CASE r # current /\ Cancel(r) /\ UNCHANGED agentVars
  <2> USE DEF Cancel, Resolve, agentVars
  <2>1. /\ r \in futures \union known /\ cancelled' = cancelled \union {r}
        /\ futures' = futures \ {r}
        /\ Blocked' = Blocked /\ UNCHANGED <<putters, woken, heap, known>>
        /\ UNCHANGED <<counter, seq, unfinished, proc, current, interrupted>>
        /\ UNCHANGED <<cancelSent, svc, runs, aborted>>
    BY <1>2, BlockedIsElements
  <2>2. /\ reply' \in [Requests -> Replies]
        /\ \A q \in Requests \ {r} : reply'[q] = reply[q]
        /\ reply'[r] # "pending" /\ reply'[r] # "none"
        /\ reply'[r] = "cancelled" => reply[r] = "cancelled" \/ reply[r] = "pending"
    BY <1>2 DEF IInv, TypeOK, Replies, Results, NoLimbo, History
  <2>3. TypeOK'
    BY <2>1, <2>2 DEF IInv, TypeOK
  <2>4. Accounting' /\ NoLostWakeup' /\ OnePlace' /\ Control' /\ AtMostOnce'
    BY <2>1 DEF IInv, Accounting, NoLostWakeup, OnePlace, Control, AtMostOnce
  <2>5. History'
    BY <1>2, <2>1, <2>2 DEF IInv, History
  <2>6. CancelledNeverRan'
    BY <1>2, <2>1, <2>2 DEF IInv, CancelledNeverRan, History, TypeOK
  <2>7. NoLimbo'
    BY <2>1, <2>2 DEF IInv, NoLimbo
  <2> QED
    BY <2>3, <2>4, <2>5, <2>6, <2>7 DEF IInv
<1> QED
  BY <1>1, <1>2 DEF CancelRequest

(* dequeue, as the processor sees it: r leaves the heap. *)
LEMMA DequeueMoves ==
  ASSUME IInv, NEW r \in Requests, Dequeue(r)
  PROVE  /\ putters' \in Seq(Requests) /\ Distinct(putters')
         /\ woken' \subseteq Requests
         /\ Blocked' \union woken' = Blocked \union woken
         /\ Blocked' \intersect woken' = {}
         /\ r \in heap /\ heap' = heap \ {r}
         /\ Cardinality(heap') = Cardinality(heap) - 1 /\ Cardinality(heap') \in Nat
         /\ putters' # <<>> => Cardinality(heap') + Cardinality(woken') >= MaxSize
<1>1. r \in heap /\ heap' = heap \ {r} /\ WakeNext(woken)
  BY DEF Dequeue, IsNext
<1>2. Cardinality(heap') = Cardinality(heap) - 1 /\ Cardinality(heap') \in Nat
  BY <1>1, FiniteParts, FS_RemoveElement, FS_CardinalityType DEF IInv
<1>3. /\ putters' \in Seq(Requests) /\ Distinct(putters')
      /\ woken' \subseteq Requests
      /\ Blocked' \union woken' = Blocked \union woken
      /\ Blocked' \intersect woken' = {}
      /\ putters' # <<>> => /\ putters # <<>>
                           /\ Cardinality(woken') = Cardinality(woken) + 1
  BY <1>1, WakeNextMoves DEF IInv
<1> QED
  BY <1>1, <1>2, <1>3, FiniteParts, QueueConstants DEF IInv, NoLostWakeup

LEMMA DispatchInvariant ==
  ASSUME IInv, NEW r \in Requests, Dispatch(r)
  PROVE  IInv'
<1> USE DEF Dispatch, Runs
<1>1. /\ putters' \in Seq(Requests) /\ Distinct(putters')
      /\ woken' \subseteq Requests
      /\ Blocked' \union woken' = Blocked \union woken
      /\ Blocked' \intersect woken' = {}
      /\ r \in heap /\ heap' = heap \ {r}
      /\ Cardinality(heap') = Cardinality(heap) - 1 /\ Cardinality(heap') \in Nat
      /\ putters' # <<>> => Cardinality(heap') + Cardinality(woken') >= MaxSize
  BY DequeueMoves
<1>2. current = None /\ current' = r /\ r # None
  BY NoneIsNoRequest DEF IInv, Control, TypeOK
<1>3. runs[r] = 0 /\ runs' = [runs EXCEPT ![r] = 1] /\ reply[r] # "cancelled"
  <2>1. r \notin cancelled /\ runs' = [runs EXCEPT ![r] = @ + 1]
    OBVIOUS
  <2>2. runs[r] = 0 /\ reply[r] # "cancelled"
    BY <1>1, <2>1 DEF IInv, History
  <2> QED
    BY <2>1, <2>2
<1>4. TypeOK'
  BY <1>1, <1>2, <1>3 DEF IInv, TypeOK, ProcStates
<1>5. Accounting'
  BY <1>1, <1>2, FiniteParts, SMTT(30) DEF IInv, Accounting, TypeOK
<1>6. NoLostWakeup' /\ OnePlace'
  BY <1>1, <1>2 DEF IInv, NoLostWakeup, OnePlace
<1>7. History'
  BY <1>1, <1>2, <1>3, NoneIsNoRequest DEF IInv, History, OnePlace, TypeOK
<1>8. Control'
  BY <1>2 DEF IInv, Control
<1>9. AtMostOnce' /\ CancelledNeverRan'
  BY <1>1, <1>3 DEF IInv, AtMostOnce, CancelledNeverRan, TypeOK
<1>10. NoLimbo'
  BY <1>1, <1>2, NoneIsNoRequest DEF IInv, NoLimbo
<1> QED
  BY <1>4, <1>5, <1>6, <1>7, <1>8, <1>9, <1>10 DEF IInv

LEMMA SkipInvariant ==
  ASSUME IInv, NEW r \in Requests, SkipCancelled(r)
  PROVE  IInv'
<1> USE DEF SkipCancelled, Runs, Purge, TaskDone, agentVars
<1>1. /\ putters' \in Seq(Requests) /\ Distinct(putters')
      /\ woken' \subseteq Requests
      /\ Blocked' \union woken' = Blocked \union woken
      /\ Blocked' \intersect woken' = {}
      /\ r \in heap /\ heap' = heap \ {r}
      /\ Cardinality(heap') = Cardinality(heap) - 1 /\ Cardinality(heap') \in Nat
      /\ putters' # <<>> => Cardinality(heap') + Cardinality(woken') >= MaxSize
  BY DequeueMoves
<1>2. current = None /\ reply[r] # "pending"
  BY DEF IInv, Control, History
<1>3. unfinished' = Cardinality(heap') + Cardinality(aborted) /\ unfinished' \in Nat
  <2>1. unfinished = Cardinality(heap) + Cardinality(aborted)
    BY <1>2, FiniteParts DEF IInv, Accounting
  <2>2. unfinished' = unfinished - 1
    OBVIOUS
  <2>3. Cardinality(heap) \in Nat /\ Cardinality(aborted) \in Nat
    BY FiniteParts DEF IInv
  <2> QED
    BY <1>1, <2>1, <2>2, <2>3
<1>4. TypeOK'
  BY <1>1, <1>3 DEF IInv, TypeOK
<1>5. Accounting'
  <2>1. current' = None /\ aborted' = aborted /\ Cardinality(aborted) \in Nat
    BY <1>2, FiniteParts DEF IInv
  <2> QED
    BY <1>1, <1>3, <2>1 DEF Accounting
<1>6. NoLostWakeup' /\ OnePlace'
  BY <1>1 DEF IInv, NoLostWakeup, OnePlace
<1>7. History'
  BY <1>1, <1>2 DEF IInv, History, OnePlace
<1>8. Control' /\ AtMostOnce' /\ CancelledNeverRan'
  BY DEF IInv, Control, AtMostOnce, CancelledNeverRan
<1>9. NoLimbo'
  BY <1>1, <1>2 DEF IInv, NoLimbo
<1> QED
  BY <1>4, <1>5, <1>6, <1>7, <1>8, <1>9 DEF IInv

(* complete or fail for the request in flight, as a step of the processor. *)
LEMMA FinishInvariant ==
  ASSUME IInv, NEW result \in {"completed", "failed"}, Finish(result),
         proc \in {"prepare", "agent", "store"},
         cancelSent' \in {FALSE, cancelSent}
  PROVE  IInv'
<1> USE DEF Finish, Settle, Resolve, Purge, TaskDone
<1>1. current \in Requests /\ current # None /\ current' = None
  BY NoneIsNoRequest DEF IInv, Control, TypeOK
<1>2. /\ Blocked' = Blocked /\ UNCHANGED <<putters, woken, heap, counter, seq, svc, runs, aborted>>
  BY BlockedIsElements
<1>3. /\ reply' \in [Requests -> Replies]
      /\ \A q \in Requests \ {current} : reply'[q] = reply[q]
      /\ reply'[current] # "pending"
      /\ reply'[current] \in {reply[current], result}
      /\ reply[current] # "none"
  BY <1>1 DEF IInv, TypeOK, Replies, Results, NoLimbo, History
<1>4. unfinished' = Cardinality(heap) + Cardinality(aborted) /\ unfinished' \in Nat
  BY <1>1, FiniteParts DEF IInv, Accounting, TypeOK
<1>5. TypeOK'
  BY <1>1, <1>2, <1>3, <1>4 DEF IInv, TypeOK, ProcStates
<1>6. Accounting'
  BY <1>1, <1>2, <1>4, FiniteParts DEF IInv, Accounting
<1>7. NoLostWakeup' /\ OnePlace'
  <2>1. None \notin Blocked \union woken \union heap \union aborted
    BY NoneIsNoRequest, BlockedIsElements DEF IInv, TypeOK, Elements
  <2> QED
    BY <1>1, <1>2, <2>1 DEF IInv, NoLostWakeup, OnePlace
<1>8. History'
  BY <1>1, <1>2, <1>3, NoneIsNoRequest DEF IInv, History
<1>9. Control'
  <2>1. proc' = "idle" /\ svc' = svc
    OBVIOUS
  <2>2. svc \notin {"down", "loading", "saving"} /\ (cancelSent => svc = "joining")
    BY DEF IInv, Control
  <2>3. cancelSent' => svc' = "joining"
    BY <2>1, <2>2
  <2> QED
    BY <1>1, <2>1, <2>2, <2>3 DEF Control
<1>10. AtMostOnce' /\ CancelledNeverRan'
  BY <1>2, <1>3 DEF IInv, AtMostOnce, CancelledNeverRan
<1>11. NoLimbo'
  BY <1>1, <1>2, <1>3 DEF IInv, NoLimbo
<1> QED
  BY <1>5, <1>6, <1>7, <1>8, <1>9, <1>10, <1>11 DEF IInv

(* stop() cancels the processor outside the executor. *)
LEMMA AbortInvariant ==
  ASSUME IInv, CancelEndsProcessor
  PROVE  IInv'
<1> USE DEF CancelEndsProcessor, queueVars
<1>1. Blocked' = Blocked /\ current' = None /\ aborted' \subseteq Requests
  BY BlockedIsElements DEF IInv, TypeOK
<1>2. /\ current = None => aborted' = aborted
      /\ current # None => /\ current \in Requests /\ aborted' = aborted \union {current}
                          /\ Cardinality(aborted') = Cardinality(aborted) + 1
  <2>1. current # None => current \notin aborted /\ current \in Requests
    BY DEF IInv, OnePlace, TypeOK
  <2>2. current # None => Cardinality(aborted \union {current}) = Cardinality(aborted) + 1
    BY <2>1, FiniteParts, FS_AddElement DEF IInv
  <2>3. aborted' = aborted \union ({current} \ {None})
    OBVIOUS
  <2> QED
    BY <2>1, <2>2, <2>3
<1>3. TypeOK'
  BY <1>1 DEF IInv, TypeOK, ProcStates
<1>4. Accounting'
  <2>1. heap' = heap /\ unfinished' = unfinished
    OBVIOUS
  <2>2. Cardinality(heap) \in Nat /\ Cardinality(aborted) \in Nat
    BY FiniteParts DEF IInv
  <2>3. unfinished = Cardinality(heap) + (IF current = None THEN 0 ELSE 1) + Cardinality(aborted)
    BY DEF IInv, Accounting
  <2>4. unfinished' = Cardinality(heap') + Cardinality(aborted')
    <3>1. CASE current = None
      <4>1. heap' = heap /\ aborted' = aborted /\ unfinished' = unfinished
        BY <1>2, <2>1, <3>1
      <4>2. unfinished = Cardinality(heap) + Cardinality(aborted)
        BY <2>2, <2>3, <3>1
      <4> QED
        BY <4>1, <4>2
    <3>2. CASE current # None
      BY <1>2, <2>1, <2>2, <2>3, <3>2
    <3> QED
      BY <3>1, <3>2
  <2>5. Cardinality(heap') \in Nat /\ Cardinality(aborted') \in Nat
    BY <1>2, <2>1, <2>2
  <2> QED
    BY <1>1, <2>4, <2>5 DEF Accounting
<1>5. NoLostWakeup' /\ OnePlace'
  <2>1. None \notin Blocked \union woken \union heap \union aborted
    BY NoneIsNoRequest, BlockedIsElements DEF IInv, TypeOK, Elements
  <2> QED
    BY <1>1, <1>2, <2>1 DEF IInv, NoLostWakeup, OnePlace
<1>6. History'
  BY <1>1, <1>2, NoneIsNoRequest DEF IInv, History
<1>7. Control'
  BY <1>1 DEF IInv, Control
<1>8. AtMostOnce' /\ CancelledNeverRan' /\ NoLimbo'
  BY <1>1, <1>2, NoneIsNoRequest DEF IInv, AtMostOnce, CancelledNeverRan, NoLimbo
<1> QED
  BY <1>3, <1>4, <1>5, <1>6, <1>7, <1>8 DEF IInv

LEMMA NextInvariant == IInv /\ [Next]_vars => IInv'
<1> SUFFICES ASSUME IInv, [Next]_vars PROVE IInv'
  OBVIOUS
<1>1. ASSUME NEW r \in Requests, Submit(r) PROVE IInv'
  BY <1>1, SubmitInvariant
<1>2. ASSUME NEW r \in Requests, SubmitterResumes(r) PROVE IInv'
  BY <1>2, ResumeInvariant
<1>3. ASSUME NEW r \in Requests, SubmitterLeaves(r) PROVE IInv'
  BY <1>3, LeaveInvariant
<1>4. ASSUME NEW r \in Requests, CancelRequest(r) PROVE IInv'
  BY <1>4, CancelRequestInvariant
<1>5. ASSUME NEW r \in Requests, Dispatch(r) PROVE IInv'
  BY <1>5, DispatchInvariant
<1>6. ASSUME NEW r \in Requests, SkipCancelled(r) PROVE IInv'
  BY <1>6, SkipInvariant
<1>7. CASE BeginAgent \/ EndAgent
  <2>1. UNCHANGED <<queueVars, current, runs, aborted>>
    BY <1>7 DEF BeginAgent, EndAgent
  <2>2. TypeOK'
    BY <1>7 DEF BeginAgent, EndAgent, Runs, IInv, TypeOK, ProcStates, queueVars
  <2>3. Control'
    BY <1>7 DEF BeginAgent, EndAgent, Runs, IInv, Control
  <2> QED
    BY <2>1, <2>2, <2>3, ControlStepInvariant
<1>8. CASE Deliver \/ ExecutionFails \/ CancelBecomesFailure
  <2>1. CASE Deliver
    BY <2>1, FinishInvariant DEF Deliver, Runs
  <2>2. CASE ExecutionFails
    BY <2>2, FinishInvariant DEF ExecutionFails, Runs
  <2>3. CASE CancelBecomesFailure
    BY <2>3, FinishInvariant DEF CancelBecomesFailure
  <2> QED
    BY <1>8, <2>1, <2>2, <2>3
<1>9. CASE CancelEndsProcessor
  BY <1>9, AbortInvariant
<1>10. CASE Start \/ StartLoaded \/ Stop \/ Drained \/ CancelProcessor \/ Joined \/ StateSaved
  <2> USE DEF Start, StartLoaded, Stop, Drained, CancelProcessor, Joined, StateSaved
  <2>1. UNCHANGED <<queueVars, current, runs, aborted>>
    BY <1>10
  <2>2. TypeOK'
    BY <1>10 DEF IInv, TypeOK, ProcStates, SvcStates, queueVars
  <2>3. Control'
    BY <1>10 DEF IInv, TypeOK, SvcStates, Control
  <2> QED
    BY <2>1, <2>2, <2>3, ControlStepInvariant
<1>11. CASE UNCHANGED vars
  <2>1. UNCHANGED <<queueVars, current, runs, aborted>>
    BY <1>11 DEF vars, agentVars
  <2>2. TypeOK' /\ Control'
    BY <1>11 DEF IInv, TypeOK, Control, vars, queueVars, agentVars
  <2> QED
    BY <2>1, <2>2, ControlStepInvariant
<1> QED
  BY <1>1, <1>2, <1>3, <1>4, <1>5, <1>6, <1>7, <1>8, <1>9, <1>10, <1>11
  DEF Next, Processor, Stopping

-----------------------------------------------------------------------------
(* Every reachable state satisfies the inductive invariant. *)
THEOREM Invariance == Spec => []IInv
  BY InitInvariant, NextInvariant, PTL DEF Spec

(* The agent's state keeps its types; in particular task_done never finds  *)
(* the counter of unfinished tasks at zero.                                *)
THEOREM TypeCorrect == Spec => []TypeOK
<1>1. IInv => TypeOK
  BY DEF IInv
<1> QED
  BY <1>1, Invariance, PTL

(* The counter behind drain is the number of requests that are queued, in   *)
(* flight or dropped by a cancelled processor.                              *)
THEOREM ReleaseAccounting == Spec => []Accounting
<1>1. IInv => Accounting
  BY DEF IInv
<1> QED
  BY <1>1, Invariance, PTL

(* drain returns only when nothing is queued and nothing is in flight. *)
THEOREM JoinSoundness == Spec => []JoinIsSound
<1>1. IInv => JoinIsSound
  BY FiniteParts, FS_EmptySet DEF IInv, Accounting, JoinIsSound
<1> QED
  BY <1>1, Invariance, PTL

(* No submitter sleeps in front of a queue that has room for it. *)
THEOREM WakeupSafety == Spec => []NoLostWakeup
<1>1. IInv => NoLostWakeup
  BY DEF IInv
<1> QED
  BY <1>1, Invariance, PTL

(* No request is executed twice. *)
THEOREM ExecutionSafety == Spec => []AtMostOnce
<1>1. IInv => AtMostOnce
  BY DEF IInv
<1> QED
  BY <1>1, Invariance, PTL

(* None is executed whose caller was told "cancelled", unless stop() had    *)
(* dropped its execution before.                                            *)
THEOREM CancellationSafety == Spec => []CancelledNeverRan
<1>1. IInv => CancelledNeverRan
  BY DEF IInv
<1> QED
  BY <1>1, Invariance, PTL

(* A submitter that still waits can still be answered. *)
THEOREM AnswerSafety == Spec => []NoLimbo
<1>1. IInv => NoLimbo
  BY DEF IInv
<1> QED
  BY <1>1, Invariance, PTL

(* State is saved, and a new start accepted, only at rest. *)
THEOREM RestSafety == Spec => []SavedAtRest
<1>1. IInv => SavedAtRest
  BY DEF IInv, Control, SavedAtRest
<1> QED
  BY <1>1, Invariance, PTL


-----------------------------------------------------------------------------
(* The refinement.  Outside of what is in flight or dropped, a request's   *)
(* phase depends on whether it is in front of or in the queue.             *)
Queued == Blocked \union woken \union heap

phaseBar == [r \in Requests |-> Phase(r)]
answerBar == [r \in Requests |-> IF reply[r] = "none" THEN "pending" ELSE reply[r]]

(* What is in flight was begun. *)
Begun == current # None => runs[current] > 0

(* Only Dispatch begins an execution, and it counts it. *)
LEMMA BegunStep == IInv /\ Begun /\ [Next]_vars => Begun'
<1> SUFFICES ASSUME IInv, Begun, [Next]_vars PROVE Begun'
  OBVIOUS
<1>1. ASSUME NEW r \in Requests, Dispatch(r) PROVE Begun'
  <2>1. current' = r /\ runs' = [runs EXCEPT ![r] = @ + 1]
    BY <1>1 DEF Dispatch
  <2>2. runs \in [Requests -> Nat]
    BY DEF IInv, TypeOK
  <2> QED
    BY <2>1, <2>2 DEF Begun
<1>2. CASE UNCHANGED <<current, runs>>
  BY <1>2 DEF Begun
<1>3. CASE current' = None
  BY <1>3 DEF Begun
<1>4. CASE Next
  <2>1. ASSUME NEW r \in Requests,
               Submit(r) \/ SubmitterResumes(r) \/ SubmitterLeaves(r) \/ CancelRequest(r)
                 \/ SkipCancelled(r)
        PROVE  UNCHANGED <<current, runs>>
    BY <2>1 DEF Submit, SubmitterResumes, SubmitterLeaves, CancelRequest, SkipCancelled, agentVars
  <2>2. CASE BeginAgent \/ EndAgent \/ Start \/ StartLoaded \/ Stop \/ Stopping
    BY <1>2, <2>2 DEF BeginAgent, EndAgent, Start, StartLoaded, Stop, Stopping, Drained,
       CancelProcessor, Joined, StateSaved
  <2>3. CASE Deliver \/ ExecutionFails \/ CancelEndsProcessor \/ CancelBecomesFailure
    BY <1>3, <2>3 DEF Deliver, ExecutionFails, CancelEndsProcessor, CancelBecomesFailure, Finish
  <2> QED
    BY <1>1, <1>2, <1>4, <2>1, <2>2, <2>3 DEF Next, Processor
<1>5. CASE UNCHANGED vars
  BY <1>2, <1>5 DEF vars, agentVars
<1> QED
  BY <1>4, <1>5

(* A request keeps its phase when nothing its phase depends on changes. *)
LEMMA KeepsPhase ==
  ASSUME NEW m \in Requests, reply'[m] = "none" <=> reply[m] = "none",
         m = current' <=> m = current, m \in aborted' <=> m \in aborted,
         runs'[m] = runs[m], m \in Queued' <=> m \in Queued,
         m \in cancelled' <=> m \in cancelled
  PROVE  Phase(m)' = Phase(m)
  BY DEF Phase, Queued

(* When one request moves, the mapped phases change at that request. *)
LEMMA OneMoves ==
  ASSUME NEW r \in Requests, \A m \in Requests \ {r} : Phase(m)' = Phase(m)
  PROVE  /\ phaseBar' = [phaseBar EXCEPT ![r] = Phase(r)']
         /\ phaseBar[r] = Phase(r)
         /\ Phase(r)' = Phase(r) => phaseBar' = phaseBar
  BY DEF phaseBar

(* Nothing moves. *)
LEMMA NoneMoves ==
  ASSUME \A m \in Requests : Phase(m)' = Phase(m)
  PROVE  phaseBar' = phaseBar
  BY DEF phaseBar

(* A Future that is resolved while its caller waits is an answer told. *)
LEMMA Answered ==
  ASSUME NEW r \in Requests, NEW a \in Replies \ {"none", "pending"},
         reply \in [Requests -> Replies], reply[r] # "none",
         reply' = IF reply[r] = "pending" THEN [reply EXCEPT ![r] = a] ELSE reply
  PROVE  /\ answerBar' = IF answerBar[r] = "pending" THEN [answerBar EXCEPT ![r] = a]
                                                     ELSE answerBar
         /\ reply[r] # "pending" => answerBar' = answerBar
         /\ \A m \in Requests : reply'[m] = "none" <=> reply[m] = "none"
  BY DEF answerBar

(* The actions of the life cycle, in terms of the map. *)
LEMMA MappedActions ==
  ASSUME NEW m \in Requests
  PROVE  /\ (/\ phaseBar[m] = "new" /\ phaseBar' = [phaseBar EXCEPT ![m] = "waiting"]
             /\ answerBar' = answerBar) => Lifecycle!Submit(m)
         /\ (/\ \A n \in Requests : phaseBar[n] # "running"
             /\ phaseBar[m] = "waiting" /\ phaseBar' = [phaseBar EXCEPT ![m] = "running"]
             /\ answerBar' = answerBar) => Lifecycle!Run(m)
         /\ (/\ phaseBar[m] = "running" /\ phaseBar' = [phaseBar EXCEPT ![m] = "aborted"]
             /\ answerBar' = answerBar) => Lifecycle!Abort(m)
         /\ \A a \in {"completed", "failed"} :
              (/\ phaseBar[m] = "running" /\ phaseBar' = [phaseBar EXCEPT ![m] = "finished"]
               /\ answerBar' = IF answerBar[m] = "pending" THEN [answerBar EXCEPT ![m] = a]
                                                           ELSE answerBar)
              => Lifecycle!Finish(m)
         /\ (/\ \/ /\ phaseBar[m] = "waiting"
                   /\ phaseBar' = [phaseBar EXCEPT ![m] = "dropped"]
                \/ phaseBar[m] = "aborted" /\ phaseBar' = phaseBar
             /\ answerBar' = IF answerBar[m] = "pending"
                             THEN [answerBar EXCEPT ![m] = "cancelled"] ELSE answerBar)
            => Lifecycle!Cancel(m)
         /\ (/\ \/ /\ phaseBar[m] = "waiting"
                   /\ phaseBar' = [phaseBar EXCEPT ![m] = "dropped"]
                \/ phaseBar[m] \in {"waiting", "running", "aborted"} /\ phaseBar' = phaseBar
             /\ answerBar' = IF answerBar[m] = "pending"
                             THEN [answerBar EXCEPT ![m] = "abandoned"] ELSE answerBar)
            => Lifecycle!Leave(m)
  BY DEF phaseBar, answerBar, Lifecycle!Submit, Lifecycle!Run, Lifecycle!Abort,
     Lifecycle!Finish, Lifecycle!Cancel, Lifecycle!Leave, Lifecycle!Becomes, Lifecycle!Tell

(* A step of the life cycle, or none of it. *)
LifecycleStep == (\E m \in Requests :
    \/ Lifecycle!Submit(m) \/ Lifecycle!Run(m) \/ Lifecycle!Finish(m)
    \/ Lifecycle!Abort(m) \/ Lifecycle!Cancel(m) \/ Lifecycle!Leave(m))
  \/ UNCHANGED <<phaseBar, answerBar>>

(* A submission is one. *)
LEMMA SubmitMaps ==
  ASSUME IInv, NEW r \in Requests, Submit(r) PROVE LifecycleStep
<1> USE DEF Submit, Enqueue, agentVars
<1>1. /\ reply[r] = "none" /\ r # current /\ r \notin aborted /\ r \notin cancelled
      /\ runs[r] = 0 /\ r \notin Queued /\ reply \in [Requests -> Replies]
  BY DEF IInv, History, TypeOK, Queued
<1>2. Queued' = Queued \union {r}
  <2>1. \/ heap' = heap /\ Blocked' = Blocked \union {r}
        \/ heap' = heap \union {r} /\ Blocked' = Blocked
    BY <1>1, PutTryMoves DEF IInv, OnePlace, Queued
  <2> QED
    BY <2>1 DEF Queued
<1>3. /\ reply' = [reply EXCEPT ![r] = "pending"]
      /\ UNCHANGED <<current, aborted, runs, cancelled>>
  OBVIOUS
<1> HIDE DEF Submit, Enqueue, agentVars
<1>4. ASSUME NEW m \in Requests \ {r} PROVE Phase(m)' = Phase(m)
  BY <1>1, <1>2, <1>3, KeepsPhase
<1>5. Phase(r) = "new" /\ Phase(r)' = "waiting"
  BY <1>1, <1>2, <1>3 DEF Phase, Queued
<1>6. answerBar' = answerBar
  BY <1>1, <1>3 DEF answerBar
<1>7. phaseBar[r] = "new" /\ phaseBar' = [phaseBar EXCEPT ![r] = "waiting"]
  BY <1>4, <1>5, OneMoves
<1> QED
  BY <1>6, <1>7, MappedActions DEF LifecycleStep

(* What happens in front of the queue is none. *)
LEMMA ResumeMaps ==
  ASSUME IInv, NEW r \in Requests, SubmitterResumes(r) PROVE LifecycleStep
<1>1. r \in woken /\ r \notin Blocked /\ r \notin heap /\ woken' = woken \ {r} /\ PutTry(r)
      /\ UNCHANGED <<reply, current, aborted, runs, cancelled>>
  BY DEF IInv, OnePlace, SubmitterResumes, ResumePut, agentVars
<1>2. \/ heap' = heap /\ Blocked' = Blocked \union {r}
      \/ heap' = heap \union {r} /\ Blocked' = Blocked
  BY <1>1, PutTryMoves DEF IInv, OnePlace
<1>3. Queued' = Queued
  BY <1>1, <1>2 DEF Queued
<1>4. phaseBar' = phaseBar
  BY <1>1, <1>3, KeepsPhase, NoneMoves
<1>5. answerBar' = answerBar
  BY <1>1 DEF answerBar
<1> QED
  BY <1>4, <1>5 DEF LifecycleStep

(* A caller that leaves: in front of the queue it takes its request along. *)
LEMMA LeaveMaps ==
  ASSUME IInv, NEW r \in Requests, SubmitterLeaves(r) PROVE LifecycleStep
<1>1. /\ AbandonBlocked(r) \/ AbandonWoken(r) \/ AbandonWaiting(r)
      /\ UNCHANGED <<current, aborted, runs, cancelled>>
      /\ reply' = IF reply[r] = "pending" THEN [reply EXCEPT ![r] = "abandoned"] ELSE reply
  BY DEF SubmitterLeaves, Abandon, agentVars
<1>2. reply \in [Requests -> Replies] /\ "abandoned" \in Replies \ {"none", "pending"}
  BY DEF IInv, TypeOK, Replies
<1>3. ASSUME reply[r] # "none"
      PROVE  /\ answerBar' = IF answerBar[r] = "pending"
                             THEN [answerBar EXCEPT ![r] = "abandoned"] ELSE answerBar
             /\ reply[r] # "pending" => answerBar' = answerBar
             /\ \A m \in Requests : reply'[m] = "none" <=> reply[m] = "none"
  BY <1>1, <1>2, <1>3, Answered
<1>4. CASE Queued' = Queued \ {r} /\ r \in Queued
  <2>1. /\ reply[r] # "none" /\ runs[r] = 0 /\ r # current /\ r \notin aborted
        /\ r \in cancelled => reply[r] # "pending"
    BY <1>4 DEF IInv, History, OnePlace, Queued
  <2>2. ASSUME NEW m \in Requests \ {r} PROVE Phase(m)' = Phase(m)
    BY <1>1, <1>3, <1>4, <2>1, KeepsPhase
  <2>3. Phase(r)' = "dropped" /\ Phase(r) = IF r \in cancelled THEN "dropped" ELSE "waiting"
    BY <1>1, <1>3, <1>4, <2>1 DEF Phase, Queued
  <2>4. CASE r \in cancelled
    BY <1>3, <2>1, <2>2, <2>3, <2>4, OneMoves DEF LifecycleStep
  <2>5. CASE r \notin cancelled
    <3>1. phaseBar[r] = "waiting" /\ phaseBar' = [phaseBar EXCEPT ![r] = "dropped"]
      BY <2>2, <2>3, <2>5, OneMoves
    <3> QED
      BY <1>3, <2>1, <3>1, MappedActions DEF LifecycleStep
  <2> QED
    BY <2>4, <2>5
<1>5. CASE Queued' = Queued /\ reply[r] = "pending"
  <2>1. \A m \in Requests : Phase(m)' = Phase(m)
    BY <1>1, <1>3, <1>5, KeepsPhase
  <2>2. phaseBar' = phaseBar
    BY <2>1, NoneMoves
  <2>3. r \in Queued \union {current} \union aborted /\ r \notin cancelled
    BY <1>5 DEF IInv, History, NoLimbo, Queued
  <2>4. /\ r \in Queued => runs[r] = 0 /\ r # current /\ r \notin aborted
    BY DEF IInv, History, OnePlace, Queued
  <2>5. Phase(r) \in {"waiting", "running", "aborted"}
    BY <1>5, <2>3, <2>4 DEF Phase, Queued
  <2>6. phaseBar[r] \in {"waiting", "running", "aborted"}
    BY <2>5 DEF phaseBar
  <2> QED
    BY <1>3, <1>5, <2>2, <2>6, MappedActions DEF LifecycleStep
<1>6. CASE AbandonBlocked(r)
  <2>1. PICK i \in DOMAIN putters : putters[i] = r /\ putters' = Without(putters, i)
    BY <1>6 DEF AbandonBlocked
  <2>2. Elements(putters') = Elements(putters) \ {r}
    BY <2>1, RemoveElement DEF IInv, TypeOK, OnePlace
  <2>3. r \in Elements(putters) /\ UNCHANGED <<heap, woken>>
    BY <1>6, <2>1 DEF Elements, AbandonBlocked
  <2>4. Queued' = Queued \ {r} /\ r \in Queued
    BY <2>2, <2>3, BlockedIsElements DEF Queued, IInv, OnePlace
  <2> QED
    BY <1>4, <2>4
<1>7. CASE AbandonWoken(r)
  <2>1. r \in woken /\ heap' = heap
    BY <1>7 DEF AbandonWoken
  <2>2. Blocked' \union woken' = Blocked \union (woken \ {r})
    <3>1. CASE Full
      BY <1>7, <3>1, BlockedIsElements DEF AbandonWoken
    <3>2. CASE ~Full
      <4>1. WakeNext(woken \ {r})
        BY <1>7, <3>2 DEF AbandonWoken
      <4> QED
        BY <4>1, WakeNextMoves DEF IInv
    <3> QED
      BY <3>1, <3>2
  <2>3. Queued' = Queued \ {r} /\ r \in Queued
    BY <2>1, <2>2 DEF Queued, IInv, OnePlace
  <2> QED
    BY <1>4, <2>3
<1>8. CASE AbandonWaiting(r)
  BY <1>5, <1>8, BlockedIsElements DEF AbandonWaiting, Queued
<1> QED
  BY <1>1, <1>6, <1>7, <1>8

(* A caller of cancel_request drops what still waits, and tells whoever    *)
(* waits for an aborted execution.                                         *)
LEMMA CancelMaps ==
  ASSUME IInv, NEW r \in Requests, CancelRequest(r) PROVE LifecycleStep
<1>1. CASE UNCHANGED queueVars /\ UNCHANGED <<current, runs, aborted>>
  <2>1. phaseBar' = phaseBar
    BY <1>1, BlockedIsElements, KeepsPhase, NoneMoves DEF queueVars, Queued
  <2>2. answerBar' = answerBar
    BY <1>1 DEF answerBar, queueVars
  <2> QED
    BY <2>1, <2>2 DEF LifecycleStep
<1>2. CASE r # current /\ Cancel(r) /\ UNCHANGED agentVars
  <2>1. /\ r \in futures \union known /\ cancelled' = cancelled \union {r}
        /\ Queued' = Queued /\ UNCHANGED <<current, runs, aborted>>
    BY <1>2, BlockedIsElements DEF Cancel, agentVars, Queued
  <2>2. reply[r] # "none" /\ (runs[r] > 0 => r \in aborted)
    BY <1>2, <2>1 DEF IInv, History
  <2>3. reply' = IF reply[r] = "pending" THEN [reply EXCEPT ![r] = "cancelled"] ELSE reply
    BY <1>2 DEF Cancel, Resolve, IInv, NoLimbo
  <2>4. reply \in [Requests -> Replies] /\ "cancelled" \in Replies \ {"none", "pending"}
    BY DEF IInv, TypeOK, Replies, Results
  <2>5. /\ answerBar' = IF answerBar[r] = "pending"
                        THEN [answerBar EXCEPT ![r] = "cancelled"] ELSE answerBar
        /\ reply[r] # "pending" => answerBar' = answerBar
        /\ \A m \in Requests : reply'[m] = "none" <=> reply[m] = "none"
    BY <2>2, <2>3, <2>4, Answered
  <2>6. ASSUME NEW m \in Requests \ {r} PROVE Phase(m)' = Phase(m)
    BY <2>1, <2>5, KeepsPhase
  <2>7. CASE r \in aborted
    <3>1. Phase(r) = "aborted" /\ Phase(r)' = "aborted"
      BY <1>2, <2>1, <2>2, <2>5, <2>7 DEF Phase
    <3>2. phaseBar[r] = "aborted" /\ phaseBar' = phaseBar
      BY <2>6, <3>1, OneMoves
    <3> QED
      BY <2>5, <3>2, MappedActions DEF LifecycleStep
  <2>8. CASE r \in Queued \ cancelled /\ r \notin aborted
    <3>1. Phase(r) = "waiting" /\ Phase(r)' = "dropped"
      BY <1>2, <2>1, <2>2, <2>5, <2>8 DEF Phase, Queued
    <3>2. phaseBar[r] = "waiting" /\ phaseBar' = [phaseBar EXCEPT ![r] = "dropped"]
      BY <2>6, <3>1, OneMoves
    <3> QED
      BY <2>5, <3>2, MappedActions DEF LifecycleStep
  <2>9. CASE r \notin Queued \ cancelled /\ r \notin aborted
    <3>1. Phase(r) = "dropped" /\ Phase(r)' = "dropped"
      BY <1>2, <2>1, <2>2, <2>5, <2>9 DEF Phase, Queued
    <3>2. reply[r] # "pending"
      BY <1>2, <2>9 DEF IInv, History, NoLimbo, Queued
    <3>3. phaseBar' = phaseBar
      BY <2>6, <3>1, OneMoves
    <3> QED
      BY <2>5, <3>2, <3>3 DEF LifecycleStep
  <2> QED
    BY <2>7, <2>8, <2>9
<1> QED
  BY <1>1, <1>2 DEF CancelRequest

(* A dequeued request runs, and it runs alone. *)
LEMMA DispatchMaps ==
  ASSUME IInv, NEW r \in Requests, Dispatch(r) PROVE LifecycleStep
<1>1. /\ r \in heap /\ r \notin cancelled /\ Queued' = Queued \ {r}
  BY DequeueMoves DEF Dispatch, IInv, OnePlace, Queued
<1>2. /\ current' = r /\ runs' = [runs EXCEPT ![r] = @ + 1]
      /\ UNCHANGED <<cancelled, reply, aborted>>
  BY DEF Dispatch
<1>3. current = None /\ r # None /\ runs \in [Requests -> Nat]
  BY NoneIsNoRequest DEF Dispatch, Runs, IInv, Control, TypeOK
<1>4. reply[r] # "none" /\ runs[r] = 0 /\ r \notin aborted
  BY <1>1 DEF IInv, History, OnePlace
<1>5. ASSUME NEW m \in Requests \ {r} PROVE Phase(m)' = Phase(m)
  <2>1. m # current /\ m # current'
    BY <1>2, <1>3, NoneIsNoRequest
  <2> QED
    BY <1>1, <1>2, <1>3, <2>1, KeepsPhase
<1>6. Phase(r) = "waiting" /\ Phase(r)' = "running"
  BY <1>1, <1>2, <1>3, <1>4 DEF Phase
<1>7. phaseBar[r] = "waiting" /\ phaseBar' = [phaseBar EXCEPT ![r] = "running"]
  BY <1>5, <1>6, OneMoves
<1>8. \A m \in Requests : phaseBar[m] # "running"
  BY <1>3, NoneIsNoRequest DEF phaseBar, Phase
<1>9. answerBar' = answerBar
  BY <1>2 DEF answerBar
<1> QED
  BY <1>7, <1>8, <1>9, MappedActions DEF LifecycleStep

(* Throwing a cancelled request away is no step of the life cycle. *)
LEMMA SkipMaps ==
  ASSUME IInv, NEW r \in Requests, SkipCancelled(r) PROVE LifecycleStep
<1>1. /\ r \in heap /\ r \in cancelled /\ Queued' = Queued \ {r}
  BY DequeueMoves DEF SkipCancelled, IInv, OnePlace, Queued
<1>2. /\ cancelled' = cancelled \ {r}
      /\ UNCHANGED <<reply, current, runs, aborted>>
  BY DEF SkipCancelled, Purge, agentVars
<1>3. reply[r] # "none" /\ runs[r] = 0 /\ r \notin aborted /\ r # current
  BY <1>1 DEF IInv, History, OnePlace
<1>4. ASSUME NEW m \in Requests \ {r} PROVE Phase(m)' = Phase(m)
  BY <1>1, <1>2, KeepsPhase
<1>5. Phase(r) = "dropped" /\ Phase(r)' = "dropped"
  BY <1>1, <1>2, <1>3 DEF Phase, Queued
<1>6. phaseBar' = phaseBar
  BY <1>4, <1>5, OneMoves
<1>7. answerBar' = answerBar
  BY <1>2 DEF answerBar
<1> QED
  BY <1>6, <1>7 DEF LifecycleStep

(* complete and fail finish the execution and tell its result. *)
LEMMA FinishMaps ==
  ASSUME IInv, Begun, NEW result \in {"completed", "failed"}, Finish(result),
         proc \in {"prepare", "agent", "store"}
  PROVE  LifecycleStep
<1>1. current \in Requests /\ current # None /\ current' = None
  BY DEF IInv, Control, TypeOK, Finish
<1> DEFINE r == current
<1>2. /\ cancelled' = cancelled \ {r} /\ Queued' = Queued /\ UNCHANGED <<runs, aborted>>
  BY BlockedIsElements DEF Finish, Settle, Purge, Queued
<1>3. reply[r] # "none" /\ runs[r] > 0 /\ r \notin aborted /\ r \notin cancelled
  BY <1>1 DEF IInv, History, OnePlace, Begun
<1>4. reply' = IF reply[r] = "pending" THEN [reply EXCEPT ![r] = result] ELSE reply
  BY <1>1 DEF Finish, Settle, Resolve, IInv, NoLimbo
<1>5. reply \in [Requests -> Replies] /\ result \in Replies \ {"none", "pending"}
  BY DEF IInv, TypeOK, Replies, Results
<1>6. /\ answerBar' = IF answerBar[r] = "pending"
                      THEN [answerBar EXCEPT ![r] = result] ELSE answerBar
      /\ \A m \in Requests : reply'[m] = "none" <=> reply[m] = "none"
  BY <1>1, <1>3, <1>4, <1>5, Answered
<1>7. ASSUME NEW m \in Requests \ {r} PROVE Phase(m)' = Phase(m)
  <2>1. m # current /\ m # current'
    BY <1>1, NoneIsNoRequest
  <2> QED
    BY <1>2, <1>6, <2>1, KeepsPhase
<1>8. Phase(r) = "running"
  BY <1>3 DEF Phase
<1>9. phaseBar[r] = "running" /\ phaseBar' = [phaseBar EXCEPT ![r] = "finished"]
  <2>1. phaseBar'[r] = "finished"
    BY <1>1, <1>2, <1>3, <1>6 DEF Phase, phaseBar
  <2>2. \A m \in Requests \ {r} : phaseBar'[m] = phaseBar[m]
    BY <1>7 DEF phaseBar
  <2> QED
    BY <1>1, <1>8, <2>1, <2>2 DEF phaseBar
<1> QED
  BY <1>1, <1>6, <1>9, MappedActions DEF LifecycleStep

(* A cancelled processor aborts what was in flight. *)
LEMMA AbortMaps ==
  ASSUME IInv, CancelEndsProcessor PROVE LifecycleStep
<1>1. /\ UNCHANGED <<reply, runs, cancelled>> /\ Queued' = Queued
      /\ current' = None /\ aborted' = aborted \union ({current} \ {None})
  BY BlockedIsElements DEF CancelEndsProcessor, queueVars, Queued
<1>2. answerBar' = answerBar
  BY <1>1 DEF answerBar
<1>3. CASE current = None
  <2>1. phaseBar' = phaseBar
    BY <1>1, <1>3, KeepsPhase, NoneMoves
  <2> QED
    BY <1>2, <2>1 DEF LifecycleStep
<1>4. CASE current # None
  <2>1. current \in Requests
    BY <1>4 DEF IInv, TypeOK
  <2>2. reply[current] # "none"
    BY <2>1 DEF IInv, History
  <2>3. ASSUME NEW m \in Requests \ {current} PROVE Phase(m)' = Phase(m)
    <3>1. m # current /\ m # current' /\ (m \in aborted' <=> m \in aborted)
      BY <1>1, NoneIsNoRequest
    <3> QED
      BY <1>1, <3>1, KeepsPhase
  <2>4. Phase(current) = "running"
    BY <2>2 DEF Phase
  <2>5. phaseBar[current] = "running" /\ phaseBar' = [phaseBar EXCEPT ![current] = "aborted"]
    <3>1. phaseBar'[current] = "aborted"
      BY <1>1, <1>4, <2>1, <2>2 DEF Phase, phaseBar
    <3>2. \A m \in Requests \ {current} : phaseBar'[m] = phaseBar[m]
      BY <2>3 DEF phaseBar
    <3> QED
      BY <2>1, <2>4, <3>1, <3>2 DEF phaseBar
  <2> QED
    BY <1>2, <2>1, <2>5, MappedActions DEF LifecycleStep
<1> QED
  BY <1>3, <1>4

(* Whatever leaves the queue and the executions alone is no step. *)
LEMMA StutterMaps ==
  ASSUME UNCHANGED <<queueVars, current, runs, aborted>> PROVE LifecycleStep
<1>1. phaseBar' = phaseBar
  BY BlockedIsElements, KeepsPhase, NoneMoves DEF queueVars, Queued
<1>2. answerBar' = answerBar
  BY DEF answerBar, queueVars
<1> QED
  BY <1>1, <1>2 DEF LifecycleStep

(* Every step of the agent is a step of the life cycle or none. *)
LEMMA NextMaps == IInv /\ Begun /\ [Next]_vars => LifecycleStep
<1> SUFFICES ASSUME IInv, Begun, [Next]_vars PROVE LifecycleStep
  OBVIOUS
<1>1. ASSUME NEW r \in Requests,
             Submit(r) \/ SubmitterResumes(r) \/ SubmitterLeaves(r) \/ CancelRequest(r)
      PROVE  LifecycleStep
  BY <1>1, SubmitMaps, ResumeMaps, LeaveMaps, CancelMaps
<1>2. ASSUME NEW r \in Requests, Dispatch(r) \/ SkipCancelled(r) PROVE LifecycleStep
  BY <1>2, DispatchMaps, SkipMaps
<1>3. CASE Deliver \/ ExecutionFails \/ CancelBecomesFailure
  <2>1. CASE Deliver
    BY <2>1, FinishMaps DEF Deliver, Runs
  <2>2. CASE ExecutionFails
    BY <2>2, FinishMaps DEF ExecutionFails, Runs
  <2>3. CASE CancelBecomesFailure
    BY <2>3, FinishMaps DEF CancelBecomesFailure
  <2> QED
    BY <1>3, <2>1, <2>2, <2>3
<1>4. CASE CancelEndsProcessor
  BY <1>4, AbortMaps
<1>5. CASE BeginAgent \/ EndAgent \/ Start \/ StartLoaded \/ Stop \/ Stopping \/ UNCHANGED vars
  <2>1. UNCHANGED <<queueVars, current, runs, aborted>>
    BY <1>5 DEF BeginAgent, EndAgent, Start, StartLoaded, Stop, Stopping, Drained,
       CancelProcessor, Joined, StateSaved, vars, agentVars
  <2> QED
    BY <2>1, StutterMaps
<1> QED
  BY <1>1, <1>2, <1>3, <1>4, <1>5 DEF Next, Processor

(* The persistent agent implements the life cycle of a mission. *)
THEOREM Refinement == Spec => ImplementsLifecycle
<1>1. Init => Begun /\ Lifecycle!Init
  BY NoneIsNoRequest DEF Init, QueueInit, Begun, Lifecycle!Init, Phase
<1>2. IInv /\ Begun /\ [Next]_vars => LifecycleStep
  BY NextMaps
<1>3. LifecycleStep <=> [Lifecycle!Next]_<<phaseBar, answerBar>>
  BY DEF LifecycleStep, Lifecycle!Next
<1>4. IInv /\ Begun /\ [Next]_vars =>
        [Lifecycle!Next]_<<[r \in Requests |-> Phase(r)],
          [r \in Requests |-> IF reply[r] = "none" THEN "pending" ELSE reply[r]]>>
  BY <1>2, <1>3 DEF phaseBar, answerBar
<1> QED
  BY <1>1, <1>4, BegunStep, InitInvariant, NextInvariant, PTL
  DEF Spec, ImplementsLifecycle, Lifecycle!Spec
=============================================================================
