---------------------------- MODULE RequestQueue ----------------------------
(***************************************************************************)
(* The bounded priority queue in front of the singleton agent              *)
(* (application/request_queue.py, class RequestQueue) together with the    *)
(* asyncio.PriorityQueue it wraps.  Everything between two awaits of a     *)
(* coroutine is one step, so each operator below is one synchronous piece  *)
(* of a coroutine.  The operators only constrain the queue's variables;    *)
(* module PersistentAgent composes them with the processor, the callers    *)
(* and the service.                                                        *)
(*                                                                         *)
(* A request identifier is a fresh uuid, hence enqueued at most once.      *)
(***************************************************************************)
EXTENDS Integers, Sequences, FiniteSets

CONSTANTS
  Requests,   \* the requests that may be submitted
  Priority,   \* Priority[r]: AgentRequest.priority, the lower the sooner
  MaxSize     \* queue_max_size: capacity of the asyncio queue

ASSUME QueueConstants ==
  /\ IsFiniteSet(Requests)
  /\ Priority \in [Requests -> Nat]
  /\ MaxSize \in Nat \ {0}

VARIABLES
  futures,    \* keys of _futures
  known,      \* keys of _known_requests
  cancelled,  \* _cancelled
  reply,      \* reply[r]: the Future of r as its submitter sees it
  counter,    \* _PrioritizedItem._counter
  seq,        \* seq[r]: the sequence number of r's item, 0 before it exists
  heap,       \* the requests whose item is in the priority queue
  putters,    \* asyncio's _putters: calls of put() blocked on a full queue
  woken,      \* blocked calls whose putter future was resolved, not yet resumed
  unfinished  \* asyncio's _unfinished_tasks

queueVars == <<futures, known, cancelled, reply, counter, seq, heap, putters,
               woken, unfinished>>

(* The values a submitter's Future goes through: "none" before submission, *)
(* "abandoned" when the submitting task itself was cancelled.              *)
Results == {"completed", "failed", "cancelled"}
Replies == {"none", "pending", "abandoned"} \union Results

QueueInit ==
  /\ futures = {} /\ known = {} /\ cancelled = {}
  /\ reply = [r \in Requests |-> "none"]
  /\ counter = 0
  /\ seq = [r \in Requests |-> 0]
  /\ heap = {} /\ putters = <<>> /\ woken = {}
  /\ unfinished = 0

Blocked == {putters[i] : i \in DOMAIN putters}

Full == Cardinality(heap) >= MaxSize

(* _PrioritizedItem.__lt__ *)
Before(r, q) ==
  \/ Priority[r] < Priority[q]
  \/ Priority[r] = Priority[q] /\ seq[r] < seq[q]

IsNext(r) == r \in heap /\ \A q \in heap \ {r} : Before(r, q)

-----------------------------------------------------------------------------
(* put() past its full() test, and put() on a full queue. *)
PutNow(r) ==
  /\ heap' = heap \union {r}
  /\ unfinished' = unfinished + 1
  /\ UNCHANGED putters

PutWaits(r) ==
  /\ putters' = Append(putters, r)
  /\ UNCHANGED <<heap, unfinished>>

PutTry(r) == IF Full THEN PutWaits(r) ELSE PutNow(r)

(* enqueue: the Future is registered and the item numbered before put may  *)
(* block.                                                                  *)
Enqueue(r) ==
  /\ reply[r] = "none"
  /\ reply' = [reply EXCEPT ![r] = "pending"]
  /\ futures' = futures \union {r}
  /\ known' = known \union {r}
  /\ counter' = counter + 1
  /\ seq' = [seq EXCEPT ![r] = counter + 1]
  /\ PutTry(r)
  /\ UNCHANGED <<cancelled, woken>>

(* Mutant of ResumePut: a woken put() tests full() once, not in a loop. *)
ResumePutOnce(r) ==
  /\ r \in woken
  /\ woken' = woken \ {r}
  /\ IF Full THEN UNCHANGED <<heap, putters, unfinished>> ELSE PutNow(r)
  /\ UNCHANGED <<futures, known, cancelled, reply, counter, seq>>

(* A woken put() runs `while self.full()` again: another caller may have   *)
(* taken the slot, in which case it queues up behind everybody else.       *)
ResumePut(r) ==
  /\ r \in woken
  /\ woken' = woken \ {r}
  /\ PutTry(r)
  /\ UNCHANGED <<futures, known, cancelled, reply, counter, seq>>

(* Mutant of WakeNext: the putter leaves the deque without being woken. *)
WakeNobody(w) ==
  /\ woken' = w
  /\ putters' = IF putters = <<>> THEN putters ELSE Tail(putters)

(* asyncio's _wakeup_next(_putters), where w has just left `woken`. *)
WakeNext(w) ==
  IF putters = <<>>
  THEN /\ woken' = w
       /\ UNCHANGED putters
  ELSE /\ woken' = w \union {Head(putters)}
       /\ putters' = Tail(putters)

(* dequeue: get_nowait removes the least item and wakes one putter. *)
Dequeue(r) ==
  /\ IsNext(r)
  /\ heap' = heap \ {r}
  /\ WakeNext(woken)

(* The submitting task is cancelled: while put() is blocked, between its   *)
(* wake-up and its resumption, or while it awaits the Future.  Nothing is  *)
(* unregistered in any of the three cases.                                 *)
Without(s, i) == SubSeq(s, 1, i - 1) \o SubSeq(s, i + 1, Len(s))

AbandonBlocked(r) ==
  /\ \E i \in DOMAIN putters :
       /\ putters[i] = r
       /\ putters' = Without(putters, i)
  /\ UNCHANGED <<heap, woken>>

(* Mutant of AbandonWoken: a woken caller leaves and keeps its wake-up. *)
AbandonWokenSilently(r) ==
  /\ r \in woken
  /\ woken' = woken \ {r}
  /\ UNCHANGED <<heap, putters>>

AbandonWoken(r) ==
  /\ r \in woken
  /\ IF Full THEN woken' = woken \ {r} /\ UNCHANGED putters
             ELSE WakeNext(woken \ {r})
  /\ UNCHANGED heap

AbandonWaiting(r) ==
  /\ r \notin Blocked \union woken
  /\ reply[r] = "pending"
  /\ UNCHANGED <<heap, putters, woken>>

Abandon(r) ==
  /\ AbandonBlocked(r) \/ AbandonWoken(r) \/ AbandonWaiting(r)
  /\ reply' = IF reply[r] = "pending" THEN [reply EXCEPT ![r] = "abandoned"] ELSE reply
  /\ UNCHANGED <<futures, known, cancelled, counter, seq, unfinished>>

-----------------------------------------------------------------------------
(* set_result guarded by `not future.done()` on a Future popped from       *)
(* _futures.                                                               *)
Resolve(r, result) ==
  /\ reply' = IF r \in futures /\ reply[r] = "pending"
              THEN [reply EXCEPT ![r] = result] ELSE reply
  /\ futures' = futures \ {r}

TaskDone == unfinished' = unfinished - 1

(* cancel on a known request keeps it in _known_requests and in the queue. *)
Cancel(r) ==
  /\ r \in futures \union known
  /\ cancelled' = cancelled \union {r}
  /\ Resolve(r, "cancelled")
  /\ UNCHANGED <<known, counter, seq, heap, putters, woken, unfinished>>

(* _purge_cancelled *)
Purge(r) ==
  /\ known' = known \ {r}
  /\ cancelled' = cancelled \ {r}

(* complete (result = "completed") and fail (result = "failed") *)
Settle(r, result) ==
  /\ Resolve(r, result)
  /\ Purge(r)
  /\ TaskDone
  /\ UNCHANGED <<counter, seq, heap, putters, woken>>
=============================================================================
