--------------------------- MODULE ToolBatch_proofs ---------------------------
(***************************************************************************)
(* What a batch of tool calls promises, for any files, batches, slots and  *)
(* any number of tools at a time: the inductive invariant IInv behind      *)
(* ReadYourWrites, and CInv, on top of it, behind CacheTrustworthy.        *)
(***************************************************************************)
EXTENDS ToolBatch, TLAPS

Types ==
  /\ disk \in [Files -> Nat]
  /\ batch \in [Slots -> Batches \union {<<>>}]
  /\ mode \in [Slots -> {"free", "attended", "orphan"}]
  /\ pos \in [Slots -> Nat \ {0}]
  /\ stage \in [Slots -> [Index -> {"none", "queued", "runs", "done"}]]
  /\ got \in [Slots -> [Index -> Nat \union {None}]]
  /\ wrote \in [Slots -> [Index -> Nat \union {None}]]
  /\ hit \in [Slots -> [Index -> Files \union {None}]]
  /\ cache \in [Files -> Nat \union {None}]
  /\ saved \in [Files -> Nat \union {None}]
  /\ handled \in [Slots -> Nat]

(* A slot that is free holds nothing of an earlier batch. *)
FreeIsEmpty ==
  \A s \in Slots : mode[s] = "free" =>
    /\ pos[s] = 1
    /\ \A i \in Index : stage[s][i] = "none" /\ got[s][i] = None /\ wrote[s][i] = None

(* The loop has not touched the calls behind the one it is at, and only a  *)
(* tool that may run beside others runs when the loop is not at it.        *)
LoopOrder ==
  \A s \in Slots : \A i \in Index :
    /\ i > pos[s] => stage[s][i] = "none"
    /\ mode[s] # "free" /\ i \in Calls(s) =>
         /\ stage[s][i] = "queued" => Parallel(batch[s][i])
         /\ stage[s][i] = "runs" => Parallel(batch[s][i]) \/ i = pos[s]

(* A result belongs to a call that has ended, whoever answered it. *)
ResultsOfTheDone ==
  \A s \in Slots : \A i \in Index :
    got[s][i] # None \/ hit[s][i] # None => stage[s][i] = "done"

(* What a call wrote was not undone. *)
WrittenStays ==
  \A s \in Slots : mode[s] # "free" => \A i \in Calls(s) :
    wrote[s][i] # None => wrote[s][i] <= disk[batch[s][i].file]

IInv ==
  /\ Types /\ FreeIsEmpty /\ LoopOrder /\ ResultsOfTheDone /\ WrittenStays
  /\ ReadYourWrites

(* The calls of a batch are requests, and places of the index. *)
LEMMA CallsIn ==
  ASSUME NEW b \in Batches \union {<<>>}, NEW i \in 1..Len(b)
  PROVE  i \in Index /\ b[i] \in Requests
<1>1. CASE b = <<>>
  BY <1>1
<1>2. CASE b \in Batches
  <2>1. b \in Seq(Requests) /\ Len(b) \in 1..MaxLen
    BY <1>2, ToolBatchConstants
  <2> QED
    BY <2>1, ToolBatchConstants DEF Index
<1> QED
  BY <1>1, <1>2

(* So are those of every slot. *)
LEMMA CallsAre ==
  ASSUME Types, NEW s \in Slots, NEW i \in Calls(s)
  PROVE  i \in Index /\ batch[s][i] \in Requests /\ batch[s][i].file \in Files
<1>1. i \in Index /\ batch[s][i] \in Requests
  BY CallsIn DEF Types, Calls
<1> QED
  BY <1>1 DEF Requests

(* A result was read from a file, whoever answered the call. *)
LEMMA ReadFromAFile ==
  ASSUME Types, NEW s \in Slots, NEW i \in Calls(s)
  PROVE  ReadFrom(s, i) \in Files
<1>1. i \in Index /\ batch[s][i].file \in Files
  BY CallsAre
<1>2. hit[s][i] \in Files \union {None}
  BY <1>1 DEF Types
<1> QED
  BY <1>1, <1>2 DEF ReadFrom

(* The initial state has the invariant. *)
LEMMA InitInvariant == Init => IInv
<1> SUFFICES ASSUME Init PROVE IInv
  OBVIOUS
<1> USE DEF Init
<1>1. Types
  BY DEF Types, Untouched, Nothing, NoCache
<1>2. FreeIsEmpty /\ LoopOrder /\ ResultsOfTheDone
  BY DEF FreeIsEmpty, LoopOrder, ResultsOfTheDone, Untouched, Nothing
<1>3. WrittenStays /\ ReadYourWrites
  BY DEF WrittenStays, ReadYourWrites
<1> QED
  BY <1>1, <1>2, <1>3 DEF IInv

-----------------------------------------------------------------------------
(* A run begins or ends: the batches are as they were. *)
LEMMA RunStep ==
  ASSUME IInv, BeginRun \/ EndRun \/ UNCHANGED vars
  PROVE  IInv'
<1>1. UNCHANGED <<disk, mode, batch, pos, stage, got, hit, wrote, handled>>
  BY DEF BeginRun, EndRun, vars, calls
<1>2. /\ cache' \in [Files -> Nat \union {None}]
      /\ saved' \in [Files -> Nat \union {None}]
  BY DEF BeginRun, EndRun, vars, IInv, Types
<1> QED
  BY <1>1, <1>2 DEF IInv, Types, FreeIsEmpty, LoopOrder, ResultsOfTheDone,
                    WrittenStays, ReadYourWrites, Calls

(* A batch begins in a slot that is empty. *)
LEMMA BeginBatchStep ==
  ASSUME IInv, NEW s \in Slots, BeginBatch(s)
  PROVE  IInv'
<1>1. /\ UNCHANGED <<disk, cache, saved, pos, stage, got, hit, wrote, handled>>
      /\ mode[s] = "free"
      /\ mode' \in [Slots -> {"free", "attended", "orphan"}]
      /\ batch' \in [Slots -> Batches \union {<<>>}]
      /\ \A t \in Slots : t # s => mode'[t] = mode[t] /\ batch'[t] = batch[t]
      /\ mode'[s] = "attended"
  BY DEF BeginBatch, IInv, Types
<1>2. Types'
  BY <1>1 DEF IInv, Types
<1>3. FreeIsEmpty' /\ ResultsOfTheDone'
  BY <1>1 DEF IInv, FreeIsEmpty, ResultsOfTheDone
<1>4. \A i \in Index : stage[s][i] = "none" /\ got[s][i] = None /\ wrote[s][i] = None
  BY <1>1 DEF IInv, FreeIsEmpty
<1>5. \A t \in Slots : \A i \in 1..Len(batch'[t]) : i \in Index
  BY <1>1, CallsIn
<1>6. LoopOrder'
  BY <1>1, <1>4 DEF IInv, LoopOrder, Calls
<1>7. WrittenStays'
  <2> SUFFICES ASSUME NEW t \in Slots, mode'[t] # "free", NEW i \in 1..Len(batch'[t]),
                      wrote[t][i] # None
               PROVE  wrote[t][i] <= disk[batch'[t][i].file]
    BY <1>1 DEF WrittenStays, Calls
  <2>1. t # s
    BY <1>4, <1>5
  <2> QED
    BY <1>1, <2>1 DEF IInv, WrittenStays, Calls
<1>8. ReadYourWrites'
  <2> SUFFICES ASSUME NEW t \in Slots, mode'[t] # "free",
                      NEW i \in 1..Len(batch'[t]), NEW j \in 1..Len(batch'[t]),
                      i < j, batch'[t][i].file = batch'[t][j].file,
                      wrote[t][i] # None, got[t][j] # None, hit[t][j] = None
               PROVE  got[t][j] >= wrote[t][i]
    BY <1>1 DEF ReadYourWrites, Calls
  <2>1. t # s
    BY <1>4, <1>5
  <2> QED
    BY <1>1, <2>1 DEF IInv, ReadYourWrites, Calls
<1> QED
  BY <1>2, <1>3, <1>6, <1>7, <1>8 DEF IInv

(* The loop answers a call from the cache, or hands it on. *)
LEMMA LoopStep ==
  ASSUME IInv, NEW s \in Slots, AnswerFromCache(s) \/ CreateTask(s) \/ StartInLoop(s)
  PROVE  IInv'
<1> DEFINE n == pos[s]
<1>1. /\ UNCHANGED <<disk, cache, saved, mode, batch, wrote, handled>>
      /\ mode[s] # "free" /\ n \in Calls(s) /\ n \in Index /\ n \in Nat
      /\ stage[s][n] = "none"
  <2>1. mode[s] # "free" /\ pos[s] <= Len(batch[s]) /\ stage[s][n] = "none"
    BY DEF AnswerFromCache, CreateTask, StartInLoop, Dispatching
  <2>2. n \in Calls(s)
    <3>1. Len(batch[s]) \in Nat
      BY ToolBatchConstants DEF IInv, Types
    <3> QED
      BY <2>1, <3>1 DEF Calls, IInv, Types
  <2>3. n \in Index
    BY <2>2, CallsAre DEF IInv
  <2> QED
    BY <2>1, <2>2, <2>3 DEF AnswerFromCache, CreateTask, StartInLoop, Index
<1>2. got[s][n] = None
  BY <1>1 DEF IInv, ResultsOfTheDone
<1>3. /\ stage' \in [Slots -> [Index -> {"none", "queued", "runs", "done"}]]
      /\ \A t \in Slots : \A i \in Index : t # s \/ i # n => stage'[t][i] = stage[t][i]
      /\ AnswerFromCache(s) => stage'[s][n] = "done"
      /\ CreateTask(s) => stage'[s][n] = "queued" /\ Parallel(batch[s][n])
      /\ StartInLoop(s) => stage'[s][n] = "runs"
  <2>1. \A to \in {"none", "queued", "runs", "done"} : Enters(s, n, to) =>
          /\ stage' \in [Slots -> [Index -> {"none", "queued", "runs", "done"}]]
          /\ \A t \in Slots : \A i \in Index : t # s \/ i # n => stage'[t][i] = stage[t][i]
          /\ stage'[s][n] = to
    BY <1>1 DEF Enters, IInv, Types
  <2>2. /\ AnswerFromCache(s) => Enters(s, n, "done")
        /\ CreateTask(s) => Enters(s, n, "queued") /\ Parallel(batch[s][n])
        /\ StartInLoop(s) => Enters(s, n, "runs")
    BY DEF AnswerFromCache, CreateTask, StartInLoop, Here
  <2> QED
    BY <2>1, <2>2
<1>4. /\ pos' \in [Slots -> Nat \ {0}]
      /\ \A t \in Slots : t # s => pos'[t] = pos[t]
      /\ ~StartInLoop(s) => pos'[s] = n + 1
      /\ StartInLoop(s) => pos'[s] = n
  <2>1. CASE Goes(s)
    <3>1. pos'[s] = n + 1 /\ n + 1 # n
      BY <2>1, <1>1 DEF Goes, IInv, Types
    <3>2. ~StartInLoop(s)
      BY <3>1 DEF StartInLoop
    <3> QED
      BY <2>1, <3>1, <3>2 DEF Goes, IInv, Types
  <2>2. CASE StartInLoop(s)
    BY <2>2 DEF StartInLoop, IInv, Types
  <2> QED
    BY <2>1, <2>2 DEF AnswerFromCache, CreateTask
<1>5. /\ got' \in [Slots -> [Index -> Nat \union {None}]]
      /\ hit' \in [Slots -> [Index -> Files \union {None}]]
      /\ \A t \in Slots : \A i \in Index :
           \/ got'[t][i] = got[t][i] /\ hit'[t][i] = hit[t][i]
           \/ t = s /\ i = n /\ AnswerFromCache(s) /\ hit'[t][i] # None
  <2>1. CASE UNCHANGED <<got, hit>>
    BY <2>1 DEF IInv, Types
  <2>2. CASE AnswerFromCache(s) /\ ~UNCHANGED <<got, hit>>
    <3>1. PICK f \in Files : /\ got' = [got EXCEPT ![s][n] = cache[f]]
                            /\ hit' = [hit EXCEPT ![s][n] = f]
      BY <2>2 DEF AnswerFromCache
    <3>2. cache[f] \in Nat \union {None} /\ f # None
      BY ToolBatchConstants DEF IInv, Types
    <3> QED
      BY <1>1, <2>2, <3>1, <3>2 DEF IInv, Types
  <2> QED
    BY <2>1, <2>2 DEF CreateTask, StartInLoop
<1> HIDE DEF n
<1>6. Types'
  BY <1>1, <1>3, <1>4, <1>5 DEF IInv, Types
<1>7. FreeIsEmpty'
  <2> SUFFICES ASSUME NEW t \in Slots, mode[t] = "free"
               PROVE  /\ pos'[t] = 1
                      /\ \A i \in Index : /\ stage'[t][i] = "none"
                                          /\ got'[t][i] = None /\ wrote[t][i] = None
    BY <1>1 DEF FreeIsEmpty
  <2>1. t # s
    BY <1>1
  <2>2. pos'[t] = 1
    BY <2>1, <1>4 DEF IInv, FreeIsEmpty
  <2>3. \A i \in Index : stage[t][i] = "none" /\ got[t][i] = None /\ wrote[t][i] = None
    BY DEF IInv, FreeIsEmpty
  <2>4. \A i \in Index : stage'[t][i] = stage[t][i] /\ got'[t][i] = got[t][i]
    BY <2>1, <1>3, <1>5
  <2> QED
    BY <2>2, <2>3, <2>4
<1>8. LoopOrder'
  <2> SUFFICES ASSUME NEW t \in Slots, NEW i \in Index
               PROVE  /\ i > pos'[t] => stage'[t][i] = "none"
                      /\ mode[t] # "free" /\ i \in Calls(t) =>
                           /\ stage'[t][i] = "queued" => Parallel(batch[t][i])
                           /\ stage'[t][i] = "runs" => Parallel(batch[t][i]) \/ i = pos'[t]
    BY <1>1 DEF LoopOrder, Calls
  <2>1. CASE t # s
    BY <2>1, <1>3, <1>4 DEF IInv, LoopOrder
  <2>2. CASE t = s /\ i # n
    <3>1. stage'[t][i] = stage[t][i] /\ n = pos[s]
      BY <2>2, <1>3 DEF n
    <3>2. i > pos'[t] => i > pos[t]
      BY <2>2, <1>1, <1>4, <3>1 DEF Index
    <3> QED
      BY <2>2, <3>1, <3>2 DEF IInv, LoopOrder
  <2>3. CASE t = s /\ i = n
    <3>1. ~(i > pos'[t])
      BY <2>3, <1>1, <1>4
    <3>2. AnswerFromCache(s) \/ CreateTask(s) \/ StartInLoop(s)
      OBVIOUS
    <3> QED
      BY <2>3, <1>3, <1>4, <3>1, <3>2
  <2> QED
    BY <2>1, <2>2, <2>3
<1>9. ResultsOfTheDone'
  BY <1>1, <1>2, <1>3, <1>5 DEF IInv, ResultsOfTheDone
<1>10. WrittenStays'
  BY <1>1 DEF IInv, WrittenStays, Calls
<1>11. ReadYourWrites'
  <2> SUFFICES ASSUME NEW t \in Slots, mode[t] # "free",
                      NEW i \in Calls(t), NEW j \in Calls(t),
                      i < j, batch[t][i].file = batch[t][j].file,
                      wrote[t][i] # None, got'[t][j] # None, hit'[t][j] = None
               PROVE  got'[t][j] >= wrote[t][i]
    BY <1>1 DEF ReadYourWrites, Calls
  <2>1. j \in Index
    BY CallsAre DEF IInv
  <2>2. got'[t][j] = got[t][j] /\ hit[t][j] = None
    BY <2>1, <1>5
  <2> QED
    BY <2>2 DEF IInv, ReadYourWrites
<1> QED
  BY <1>6, <1>7, <1>8, <1>9, <1>10, <1>11 DEF IInv

-----------------------------------------------------------------------------
(* A task gets its place in the semaphore. *)
LEMMA AcquireStep ==
  ASSUME IInv, NEW s \in Slots, NEW k \in Calls(s), AcquireSemaphore(s, k)
  PROVE  IInv'
<1>1. /\ UNCHANGED <<disk, cache, saved, mode, batch, pos, got, hit, wrote, handled>>
      /\ stage[s][k] = "queued" /\ mode[s] # "free"
  BY DEF AcquireSemaphore
<1>2. k \in Index
  BY CallsAre DEF IInv
<1>3. /\ stage' \in [Slots -> [Index -> {"none", "queued", "runs", "done"}]]
      /\ \A t \in Slots : \A i \in Index : t # s \/ i # k => stage'[t][i] = stage[t][i]
      /\ stage'[s][k] = "runs"
  BY <1>2 DEF AcquireSemaphore, Enters, IInv, Types
<1>4. Types'
  BY <1>1, <1>3 DEF IInv, Types
<1>5. FreeIsEmpty'
  BY <1>1, <1>3 DEF IInv, FreeIsEmpty
<1>6. Parallel(batch[s][k]) /\ ~(k > pos[s])
  BY <1>1, <1>2 DEF IInv, LoopOrder
<1>7. LoopOrder'
  BY <1>1, <1>3, <1>6 DEF IInv, LoopOrder, Calls
<1>8. ResultsOfTheDone'
  BY <1>1, <1>2, <1>3 DEF IInv, ResultsOfTheDone
<1>9. WrittenStays' /\ ReadYourWrites'
  BY <1>1 DEF IInv, WrittenStays, ReadYourWrites, Calls
<1> QED
  BY <1>4, <1>5, <1>7, <1>8, <1>9 DEF IInv

(* What the end of a tool does to the loop. *)
LEMMA Finishing ==
  ASSUME IInv, NEW s \in Slots, NEW k \in Calls(s), Finishes(s, k)
  PROVE  /\ UNCHANGED <<cache, saved, mode, batch, hit, handled>>
         /\ mode[s] # "free" /\ k \in Index /\ stage[s][k] = "runs"
         /\ stage' \in [Slots -> [Index -> {"none", "queued", "runs", "done"}]]
         /\ \A t \in Slots : \A i \in Index : t # s \/ i # k => stage'[t][i] = stage[t][i]
         /\ stage'[s][k] = "done"
         /\ pos' \in [Slots -> Nat \ {0}]
         /\ \A t \in Slots : t # s => pos'[t] = pos[t]
         /\ LoopOrder'
<1>1. /\ UNCHANGED <<cache, saved, mode, batch, hit, handled>>
      /\ mode[s] # "free" /\ stage[s][k] = "runs"
  BY DEF Finishes
<1>2. k \in Index /\ k \in Nat
  BY CallsAre DEF IInv, Index
<1>3. /\ stage' \in [Slots -> [Index -> {"none", "queued", "runs", "done"}]]
      /\ \A t \in Slots : \A i \in Index : t # s \/ i # k => stage'[t][i] = stage[t][i]
      /\ stage'[s][k] = "done"
  BY <1>2 DEF Finishes, Enters, IInv, Types
<1>4. /\ pos' \in [Slots -> Nat \ {0}]
      /\ \A t \in Slots : t # s => pos'[t] = pos[t]
      /\ k = pos[s] => pos'[s] = pos[s] + 1
      /\ k # pos[s] => pos'[s] = pos[s]
  BY DEF Finishes, IInv, Types
<1>5. LoopOrder'
  <2> SUFFICES ASSUME NEW t \in Slots, NEW i \in Index
               PROVE  /\ i > pos'[t] => stage'[t][i] = "none"
                      /\ mode[t] # "free" /\ i \in Calls(t) =>
                           /\ stage'[t][i] = "queued" => Parallel(batch[t][i])
                           /\ stage'[t][i] = "runs" => Parallel(batch[t][i]) \/ i = pos'[t]
    BY <1>1 DEF LoopOrder, Calls
  <2>1. CASE t # s
    BY <2>1, <1>3, <1>4 DEF IInv, LoopOrder
  <2>2. CASE t = s /\ i = k
    <3>1. ~(k > pos[s])
      BY <1>1, <1>2 DEF IInv, LoopOrder
    <3>2. ~(k > pos'[s])
      BY <3>1, <1>2, <1>4 DEF IInv, Types
    <3> QED
      BY <2>2, <3>2, <1>3
  <2>3. CASE t = s /\ i # k
    <3>1. stage'[t][i] = stage[t][i]
      BY <2>3, <1>3
    <3>2. i > pos'[t] => i > pos[t]
      BY <2>3, <1>4 DEF IInv, Types, Index
    <3>3. CASE k = pos[s]
      <4>1. mode[t] # "free" /\ i \in Calls(t) /\ stage[t][i] = "runs" => Parallel(batch[t][i])
        BY <2>3, <3>3 DEF IInv, LoopOrder
      <4> QED
        BY <3>1, <3>2, <4>1 DEF IInv, LoopOrder
    <3>4. CASE k # pos[s]
      BY <2>3, <3>1, <3>2, <3>4, <1>4 DEF IInv, LoopOrder
    <3> QED
      BY <3>3, <3>4
  <2> QED
    BY <2>1, <2>2, <2>3
<1> QED
  BY <1>1, <1>2, <1>3, <1>4, <1>5

(* A read returns what the disk holds now, no less than an earlier write. *)
LEMMA FinishReadStep ==
  ASSUME IInv, NEW s \in Slots, NEW k \in Calls(s), FinishRead(s, k)
  PROVE  IInv'
<1>1. Finishes(s, k) /\ UNCHANGED <<disk, wrote>>
  BY DEF FinishRead
<1>2. /\ UNCHANGED <<cache, saved, mode, batch, hit, handled>>
      /\ mode[s] # "free" /\ k \in Index /\ stage[s][k] = "runs"
      /\ stage' \in [Slots -> [Index -> {"none", "queued", "runs", "done"}]]
      /\ \A t \in Slots : \A i \in Index : t # s \/ i # k => stage'[t][i] = stage[t][i]
      /\ stage'[s][k] = "done"
      /\ pos' \in [Slots -> Nat \ {0}]
      /\ \A t \in Slots : t # s => pos'[t] = pos[t]
      /\ LoopOrder'
  BY <1>1, Finishing
<1>3. /\ got' \in [Slots -> [Index -> Nat \union {None}]]
      /\ \A t \in Slots : \A i \in Index : t # s \/ i # k => got'[t][i] = got[t][i]
      /\ got'[s][k] \in {None, disk[batch[s][k].file]}
  <2>1. disk[batch[s][k].file] \in Nat
    BY CallsAre DEF IInv, Types
  <2>2. PICK c \in {None, disk[batch[s][k].file]} : got' = [got EXCEPT ![s][k] = c]
    BY DEF FinishRead
  <2> QED
    BY <1>2, <2>1, <2>2 DEF IInv, Types
<1>4. Types'
  BY <1>1, <1>2, <1>3 DEF IInv, Types
<1>5. FreeIsEmpty'
  <2> SUFFICES ASSUME NEW t \in Slots, mode[t] = "free"
               PROVE  /\ pos'[t] = 1
                      /\ \A i \in Index : /\ stage'[t][i] = "none"
                                          /\ got'[t][i] = None /\ wrote[t][i] = None
    BY <1>1, <1>2 DEF FreeIsEmpty
  <2>1. t # s
    BY <1>2
  <2>2. pos'[t] = 1
    BY <2>1, <1>2 DEF IInv, FreeIsEmpty
  <2>3. \A i \in Index : stage[t][i] = "none" /\ got[t][i] = None /\ wrote[t][i] = None
    BY DEF IInv, FreeIsEmpty
  <2>4. \A i \in Index : stage'[t][i] = stage[t][i] /\ got'[t][i] = got[t][i]
    BY <2>1, <1>2, <1>3
  <2> QED
    BY <2>2, <2>3, <2>4
<1>6. ResultsOfTheDone'
  <2>1. ASSUME NEW t \in Slots, NEW i \in Index, got'[t][i] # None \/ hit'[t][i] # None
        PROVE  stage'[t][i] = "done"
    <3>1. CASE t = s /\ i = k
      BY <3>1, <1>2
    <3>2. CASE t # s \/ i # k
      <4>1. got'[t][i] = got[t][i] /\ hit' = hit /\ stage'[t][i] = stage[t][i]
        BY <3>2, <1>2, <1>3
      <4> QED
        BY <2>1, <4>1 DEF IInv, ResultsOfTheDone
    <3> QED
      BY <3>1, <3>2
  <2> QED
    BY <2>1 DEF ResultsOfTheDone
<1>7. WrittenStays'
  BY <1>1, <1>2 DEF IInv, WrittenStays, Calls
<1>8. ReadYourWrites'
  <2> SUFFICES ASSUME NEW t \in Slots, mode[t] # "free",
                      NEW i \in Calls(t), NEW j \in Calls(t),
                      i < j, batch[t][i].file = batch[t][j].file,
                      wrote[t][i] # None, got'[t][j] # None, hit[t][j] = None
               PROVE  got'[t][j] >= wrote[t][i]
    BY <1>1, <1>2 DEF ReadYourWrites, Calls
  <2>1. i \in Index /\ j \in Index
    BY CallsAre DEF IInv
  <2>2. CASE t = s /\ j = k
    <3>1. got'[t][j] = disk[batch[t][i].file]
      BY <2>2, <1>3
    <3>2. wrote[t][i] <= disk[batch[t][i].file]
      BY DEF IInv, WrittenStays
    <3>3. wrote[t][i] \in Nat /\ disk[batch[t][i].file] \in Nat
      BY <2>1, CallsAre DEF IInv, Types
    <3> QED
      BY <3>1, <3>2, <3>3
  <2>3. CASE t # s \/ j # k
    <3>1. got'[t][j] = got[t][j]
      BY <2>1, <2>3, <1>3
    <3> QED
      BY <3>1 DEF IInv, ReadYourWrites
  <2> QED
    BY <2>2, <2>3
<1> QED
  BY <1>2, <1>4, <1>5, <1>6, <1>7, <1>8 DEF IInv

(* A write or a command ends: the disk moves on, and when the write is      *)
(* reported, no later call of its batch has read yet.                       *)
LEMMA FinishOtherStep ==
  ASSUME IInv, NEW s \in Slots, NEW k \in Calls(s),
         FinishWrite(s, k) \/ FailWrite(s, k) \/ FinishShell(s, k)
  PROVE  IInv'
<1> DEFINE f == batch[s][k].file
<1>1. Finishes(s, k) /\ UNCHANGED got
  BY DEF FinishWrite, FailWrite, FinishShell
<1>2. /\ UNCHANGED <<cache, saved, mode, batch, hit, handled>>
      /\ mode[s] # "free" /\ k \in Index /\ stage[s][k] = "runs"
      /\ stage' \in [Slots -> [Index -> {"none", "queued", "runs", "done"}]]
      /\ \A t \in Slots : \A i \in Index : t # s \/ i # k => stage'[t][i] = stage[t][i]
      /\ stage'[s][k] = "done"
      /\ pos' \in [Slots -> Nat \ {0}]
      /\ \A t \in Slots : t # s => pos'[t] = pos[t]
      /\ LoopOrder'
  BY <1>1, Finishing
<1>3. f \in Files /\ f \in DOMAIN disk
  BY CallsAre DEF IInv, Types
<1>4. /\ disk' \in [Files -> Nat]
      /\ \A g \in Files : disk[g] \in Nat /\ disk'[g] \in Nat /\ disk'[g] >= disk[g]
      /\ FinishWrite(s, k) => disk'[f] = disk[f] + 1
  <2>1. UNCHANGED disk \/ disk' = [disk EXCEPT ![f] = @ + 1]
    BY DEF FinishWrite, FailWrite, FinishShell, Changes
  <2>2. FinishWrite(s, k) => disk' = [disk EXCEPT ![f] = @ + 1]
    BY DEF FinishWrite, Changes
  <2> HIDE DEF f
  <2>3. disk \in [Files -> Nat]
    BY DEF IInv, Types
  <2>4. CASE UNCHANGED disk /\ ~FinishWrite(s, k)
    BY <2>3, <2>4
  <2>5. CASE disk' = [disk EXCEPT ![f] = @ + 1]
    <3>1. disk' \in [Files -> Nat] /\ disk'[f] = disk[f] + 1
      BY <1>3, <2>3, <2>5
    <3>2. \A g \in Files : g # f => disk'[g] = disk[g]
      BY <1>3, <2>3, <2>5
    <3> QED
      BY <1>3, <2>3, <3>1, <3>2
  <2> QED
    BY <2>1, <2>2, <2>4, <2>5
<1>5. /\ wrote' \in [Slots -> [Index -> Nat \union {None}]]
      /\ \A t \in Slots : \A i \in Index :
           \/ wrote'[t][i] = wrote[t][i]
           \/ /\ t = s /\ i = k /\ FinishWrite(s, k)
              /\ wrote'[t][i] \in {None, disk[f] + 1}
  <2>1. CASE UNCHANGED wrote
    BY <2>1 DEF IInv, Types
  <2>2. CASE FinishWrite(s, k)
    <3>1. PICK c \in {None, disk[f] + 1} : wrote' = [wrote EXCEPT ![s][k] = c]
      BY <2>2 DEF FinishWrite
    <3>2. c \in Nat \union {None}
      BY <1>4, <1>3, <3>1
    <3> HIDE DEF f
    <3> QED
      BY <1>2, <2>2, <3>1, <3>2 DEF IInv, Types
  <2> QED
    BY <2>1, <2>2 DEF FailWrite, FinishShell
<1>6. FinishWrite(s, k) => \A j \in Index : j > k => got[s][j] = None
  <2> SUFFICES ASSUME FinishWrite(s, k), NEW j \in Index, j > k
               PROVE  got[s][j] = None
    OBVIOUS
  <2>1. ~Parallel(batch[s][k])
    BY DEF FinishWrite, Parallel
  <2>2. k = pos[s]
    BY <2>1, <1>2 DEF IInv, LoopOrder
  <2>3. stage[s][j] = "none"
    BY <2>2 DEF IInv, LoopOrder
  <2> QED
    BY <2>3 DEF IInv, ResultsOfTheDone
<1> HIDE DEF f
<1>7. Types'
  BY <1>1, <1>2, <1>4, <1>5 DEF IInv, Types
<1>8. FreeIsEmpty'
  <2> SUFFICES ASSUME NEW t \in Slots, mode[t] = "free"
               PROVE  /\ pos'[t] = 1
                      /\ \A i \in Index : /\ stage'[t][i] = "none"
                                          /\ got[t][i] = None /\ wrote'[t][i] = None
    BY <1>1, <1>2 DEF FreeIsEmpty
  <2>1. t # s
    BY <1>2
  <2>2. pos'[t] = 1
    BY <2>1, <1>2 DEF IInv, FreeIsEmpty
  <2>3. \A i \in Index : stage[t][i] = "none" /\ got[t][i] = None /\ wrote[t][i] = None
    BY DEF IInv, FreeIsEmpty
  <2>4. \A i \in Index : stage'[t][i] = stage[t][i] /\ wrote'[t][i] = wrote[t][i]
    BY <2>1, <1>2, <1>5
  <2> QED
    BY <2>2, <2>3, <2>4
<1>9. ResultsOfTheDone'
  BY <1>1, <1>2 DEF IInv, ResultsOfTheDone
<1>10. WrittenStays'
  <2> SUFFICES ASSUME NEW t \in Slots, mode[t] # "free", NEW i \in Calls(t),
                      wrote'[t][i] # None
               PROVE  wrote'[t][i] <= disk'[batch[t][i].file]
    BY <1>2 DEF WrittenStays, Calls
  <2>1. i \in Index /\ batch[t][i].file \in Files
    BY CallsAre DEF IInv
  <2>2. CASE wrote'[t][i] = wrote[t][i]
    <3>1. wrote[t][i] <= disk[batch[t][i].file] /\ wrote[t][i] \in Nat
      BY <2>1, <2>2 DEF IInv, WrittenStays, Types
    <3> QED
      BY <2>1, <2>2, <3>1, <1>4
  <2>3. CASE t = s /\ i = k /\ FinishWrite(s, k) /\ wrote'[t][i] = disk[f] + 1
    BY <2>3, <1>3, <1>4 DEF f
  <2> QED
    BY <2>1, <2>2, <2>3, <1>5
<1>11. ReadYourWrites'
  <2> SUFFICES ASSUME NEW t \in Slots, mode[t] # "free",
                      NEW i \in Calls(t), NEW j \in Calls(t),
                      i < j, batch[t][i].file = batch[t][j].file,
                      wrote'[t][i] # None, got[t][j] # None, hit[t][j] = None
               PROVE  got[t][j] >= wrote'[t][i]
    BY <1>1, <1>2 DEF ReadYourWrites, Calls
  <2>1. i \in Index /\ j \in Index
    BY CallsAre DEF IInv
  <2>2. wrote'[t][i] = wrote[t][i]
    BY <2>1, <1>5, <1>6 DEF Index
  <2> QED
    BY <2>2 DEF IInv, ReadYourWrites
<1> QED
  BY <1>2, <1>7, <1>8, <1>9, <1>10, <1>11 DEF IInv

-----------------------------------------------------------------------------
(* The results are gone through: only the cache changes. *)
LEMMA HandlingStep ==
  ASSUME IInv, NEW s \in Slots, RecordRead(s) \/ Invalidate(s) \/ HandleShell(s)
  PROVE  IInv'
<1>1. /\ UNCHANGED <<disk, saved, mode, batch, pos, stage, got, hit, wrote>>
      /\ handled[s] < Len(batch[s]) /\ handled' = [handled EXCEPT ![s] = @ + 1]
  BY DEF RecordRead, Invalidate, HandleShell, Handling
<1>2. handled' \in [Slots -> Nat]
  BY <1>1 DEF IInv, Types
<1>3. handled[s] + 1 \in Calls(s)
  BY <1>1, ToolBatchConstants DEF Calls, IInv, Types
<1>4. /\ Mine(s).file \in Files
      /\ got[s][handled[s] + 1] \in Nat \union {None}
  BY <1>3, CallsAre DEF Mine, IInv, Types
<1>5. cache' \in [Files -> Nat \union {None}]
  <2>1. cache \in [Files -> Nat \union {None}]
    BY DEF IInv, Types
  <2>2. \A f \in Files : Without(cache, f) \in [Files -> Nat \union {None}]
    BY <2>1 DEF Without
  <2>3. ReadFrom(s, handled[s] + 1) \in Files
    BY <1>3, ReadFromAFile DEF IInv
  <2>4. CASE RecordRead(s)
    BY <1>4, <2>1, <2>2, <2>3, <2>4 DEF RecordRead
  <2>5. CASE Invalidate(s) \/ HandleShell(s)
    BY <1>4, <2>1, <2>2, <2>5 DEF Invalidate, HandleShell
  <2> QED
    BY <2>4, <2>5
<1>6. Types'
  BY <1>1, <1>2, <1>5 DEF IInv, Types
<1> QED
  BY <1>1, <1>6 DEF IInv, FreeIsEmpty, LoopOrder, ResultsOfTheDone, WrittenStays,
                    ReadYourWrites, Calls

(* A batch ends and leaves its slot empty. *)
LEMMA EndBatchStep ==
  ASSUME IInv, NEW s \in Slots, EndBatch(s) \/ EndOrphan(s)
  PROVE  IInv'
<1>1. Frees(s) /\ UNCHANGED <<disk, cache, saved>>
  BY DEF EndBatch, EndOrphan, Frees
<1>2. /\ mode' \in [Slots -> {"free", "attended", "orphan"}]
      /\ mode'[s] = "free" /\ \A t \in Slots : t # s => mode'[t] = mode[t]
  BY <1>1 DEF Frees, IInv, Types
<1>3. /\ batch' \in [Slots -> Batches \union {<<>>}]
      /\ \A t \in Slots : t # s => batch'[t] = batch[t]
  BY <1>1 DEF Frees, IInv, Types
<1>4. /\ pos' \in [Slots -> Nat \ {0}] /\ pos'[s] = 1
      /\ \A t \in Slots : t # s => pos'[t] = pos[t]
  BY <1>1 DEF Frees, IInv, Types
<1>5. /\ stage' \in [Slots -> [Index -> {"none", "queued", "runs", "done"}]]
      /\ \A i \in Index : stage'[s][i] = "none"
      /\ \A t \in Slots : t # s => stage'[t] = stage[t]
  BY <1>1 DEF Frees, Untouched, IInv, Types
<1>6. /\ got' \in [Slots -> [Index -> Nat \union {None}]]
      /\ \A i \in Index : got'[s][i] = None
      /\ \A t \in Slots : t # s => got'[t] = got[t]
  BY <1>1 DEF Frees, Nothing, IInv, Types
<1>7. /\ wrote' \in [Slots -> [Index -> Nat \union {None}]]
      /\ \A i \in Index : wrote'[s][i] = None
      /\ \A t \in Slots : t # s => wrote'[t] = wrote[t]
  BY <1>1 DEF Frees, Nothing, IInv, Types
<1>8. /\ hit' \in [Slots -> [Index -> Files \union {None}]]
      /\ handled' \in [Slots -> Nat]
      /\ \A i \in Index : hit'[s][i] = None
      /\ \A t \in Slots : t # s => hit'[t] = hit[t]
  BY <1>1 DEF Frees, Nothing, IInv, Types
<1>9. Types'
  BY <1>1, <1>2, <1>3, <1>4, <1>5, <1>6, <1>7, <1>8 DEF IInv, Types
<1>10. FreeIsEmpty'
  <2> SUFFICES ASSUME NEW t \in Slots, mode'[t] = "free"
               PROVE  /\ pos'[t] = 1
                      /\ \A i \in Index : /\ stage'[t][i] = "none"
                                          /\ got'[t][i] = None /\ wrote'[t][i] = None
    BY DEF FreeIsEmpty
  <2>1. CASE t = s
    BY <2>1, <1>4, <1>5, <1>6, <1>7
  <2>2. CASE t # s
    <3>1. mode[t] = "free"
      BY <2>2, <1>2
    <3>2. /\ pos'[t] = pos[t] /\ stage'[t] = stage[t]
          /\ got'[t] = got[t] /\ wrote'[t] = wrote[t]
      BY <2>2, <1>4, <1>5, <1>6, <1>7
    <3> QED
      BY <3>1, <3>2 DEF IInv, FreeIsEmpty
  <2> QED
    BY <2>1, <2>2
<1>11. LoopOrder'
  <2> SUFFICES ASSUME NEW t \in Slots, NEW i \in Index
               PROVE  /\ i > pos'[t] => stage'[t][i] = "none"
                      /\ mode'[t] # "free" /\ i \in Calls(t)' =>
                           /\ stage'[t][i] = "queued" => Parallel(batch'[t][i])
                           /\ stage'[t][i] = "runs" => Parallel(batch'[t][i]) \/ i = pos'[t]
    BY DEF LoopOrder, Calls
  <2>1. CASE t = s
    BY <2>1, <1>2, <1>5
  <2>2. CASE t # s
    <3>1. /\ mode'[t] = mode[t] /\ batch'[t] = batch[t] /\ pos'[t] = pos[t]
          /\ stage'[t] = stage[t]
      BY <2>2, <1>2, <1>3, <1>4, <1>5
    <3>2. Calls(t)' = Calls(t)
      BY <3>1 DEF Calls
    <3> QED
      BY <3>1, <3>2 DEF IInv, LoopOrder
  <2> QED
    BY <2>1, <2>2
<1>12. ResultsOfTheDone'
  <2>1. ASSUME NEW t \in Slots, NEW i \in Index, got'[t][i] # None \/ hit'[t][i] # None
        PROVE  stage'[t][i] = "done"
    <3>1. t # s
      BY <2>1, <1>6, <1>8
    <3>2. got'[t] = got[t] /\ hit'[t] = hit[t] /\ stage'[t] = stage[t]
      BY <3>1, <1>5, <1>6, <1>8
    <3> QED
      BY <2>1, <3>2 DEF IInv, ResultsOfTheDone
  <2> QED
    BY <2>1 DEF ResultsOfTheDone
<1>13. WrittenStays'
  BY <1>1, <1>2, <1>3, <1>7 DEF IInv, WrittenStays, Calls
<1>14. ReadYourWrites'
  <2> SUFFICES ASSUME NEW t \in Slots, mode'[t] # "free",
                      NEW i \in 1..Len(batch'[t]), NEW j \in 1..Len(batch'[t]),
                      i < j, batch'[t][i].file = batch'[t][j].file,
                      wrote'[t][i] # None, got'[t][j] # None, hit'[t][j] = None
               PROVE  got'[t][j] >= wrote'[t][i]
    BY DEF ReadYourWrites, Calls
  <2>1. t # s
    BY <1>2
  <2>2. /\ mode'[t] = mode[t] /\ batch'[t] = batch[t] /\ hit'[t] = hit[t]
        /\ got'[t] = got[t] /\ wrote'[t] = wrote[t]
    BY <2>1, <1>2, <1>3, <1>6, <1>7, <1>8
  <2> QED
    BY <2>2 DEF IInv, ReadYourWrites, Calls
<1> QED
  BY <1>9, <1>10, <1>11, <1>12, <1>13, <1>14 DEF IInv

(* A batch is abandoned: nobody looks at what it read or wrote any more. *)
LEMMA AbandonStep ==
  ASSUME IInv, Abandon
  PROVE  IInv'
<1>1. /\ UNCHANGED <<disk, saved, batch, pos, stage>> /\ cache' = saved
      /\ handled' = [t \in Slots |-> 0] /\ hit' = [t \in Slots |-> [i \in Index |-> None]]
  BY DEF Abandon, Nothing
<1>2. /\ got' \in [Slots -> [Index -> Nat \union {None}]]
      /\ wrote' \in [Slots -> [Index -> Nat \union {None}]]
      /\ \A t \in Slots : \A i \in Index : got'[t][i] = None /\ wrote'[t][i] = None
  BY DEF Abandon, Nothing
<1>3. /\ mode' \in [Slots -> {"free", "attended", "orphan"}]
      /\ \A t \in Slots : mode'[t] = "free" <=> mode[t] = "free"
  BY DEF Abandon, Attended, IInv, Types
<1>4. Types'
  BY <1>1, <1>2, <1>3 DEF IInv, Types
<1>5. FreeIsEmpty' /\ LoopOrder' /\ ResultsOfTheDone'
  BY <1>1, <1>2, <1>3 DEF IInv, FreeIsEmpty, LoopOrder, ResultsOfTheDone, Calls
<1>6. \A t \in Slots : \A i \in Calls(t) : i \in Index
  BY CallsAre DEF IInv
<1>7. WrittenStays' /\ ReadYourWrites'
  BY <1>1, <1>2, <1>6 DEF WrittenStays, ReadYourWrites, Calls
<1> QED
  BY <1>4, <1>5, <1>7 DEF IInv

(* Every step keeps the invariant. *)
LEMMA NextInvariant == IInv /\ [Next]_vars => IInv'
<1> SUFFICES ASSUME IInv, [Next]_vars PROVE IInv'
  OBVIOUS
<1>1. CASE BeginRun \/ EndRun \/ UNCHANGED vars
  BY <1>1, RunStep
<1>2. CASE Abandon
  BY <1>2, AbandonStep
<1>3. ASSUME NEW s \in Slots, BeginBatch(s) PROVE IInv'
  BY <1>3, BeginBatchStep
<1>4. ASSUME NEW s \in Slots, AnswerFromCache(s) \/ CreateTask(s) \/ StartInLoop(s)
      PROVE  IInv'
  BY <1>4, LoopStep
<1>5. ASSUME NEW s \in Slots, RecordRead(s) \/ Invalidate(s) \/ HandleShell(s)
      PROVE  IInv'
  BY <1>5, HandlingStep
<1>6. ASSUME NEW s \in Slots, EndBatch(s) \/ EndOrphan(s) PROVE IInv'
  BY <1>6, EndBatchStep
<1>7. ASSUME NEW s \in Slots, NEW k \in Calls(s), AcquireSemaphore(s, k) PROVE IInv'
  BY <1>7, AcquireStep
<1>8. ASSUME NEW s \in Slots, NEW k \in Calls(s), FinishRead(s, k) PROVE IInv'
  BY <1>8, FinishReadStep
<1>9. ASSUME NEW s \in Slots, NEW k \in Calls(s),
             FinishWrite(s, k) \/ FailWrite(s, k) \/ FinishShell(s, k)
      PROVE  IInv'
  BY <1>9, FinishOtherStep
<1> QED
  BY <1>1, <1>2, <1>3, <1>4, <1>5, <1>6, <1>7, <1>8, <1>9 DEF Next

-----------------------------------------------------------------------------
(* The invariant holds in every reachable state. *)
THEOREM Invariance == Spec => []IInv
  BY InitInvariant, NextInvariant, PTL DEF Spec

(* A read that goes to the disk never misses a write its batch made before  *)
(* it, whatever the batch and however many tools run at a time.  It says    *)
(* nothing of a read the cache answers, which may.                          *)
THEOREM ReadsFollowWrites == Spec => []ReadYourWrites
<1>1. IInv => ReadYourWrites
  BY DEF IInv
<1> QED
  BY <1>1, Invariance, PTL

-----------------------------------------------------------------------------
(* The rest is about the cache: the invariant behind CacheTrustworthy.      *)

(* The cache's own bounds, and what the results of calls tell of them. *)
CacheTypes ==
  /\ \A f \in Files : disk[f] <= MaxChanges
  /\ excuse \in [Files -> [1..MaxChanges -> Reasons]]
  /\ \A f \in Files : saved[f] # None => saved[f] <= disk[f]

(* One batch at a time is awaited, by the run. *)
OneAttended ==
  /\ \A s \in Slots : Attended(s) => run
  /\ \A s, t \in Slots : Attended(s) /\ Attended(t) => s = t

(* Results are gone through only when all of them are there, one by one;   *)
(* only reads return a content and only writes report one; and calls       *)
(* behind the one the loop is at have done neither.                        *)
Results ==
  \A s \in Slots :
    /\ mode[s] = "free" => handled[s] = 0
    /\ handled[s] > 0 => AllDone(s)
    /\ \A i \in Index :
         /\ wrote[s][i] # None => stage[s][i] = "done"
         /\ i \in Calls(s) =>
              /\ got[s][i] # None => batch[s][i].tool = "file_read"
              /\ wrote[s][i] # None => batch[s][i].tool = "file_write"

(* What the cache was not told: a change with an excuse. *)
Excused(f, c) == c = disk[f] \/ \E d \in (c + 1)..disk[f] : excuse[f][d] # None

(* A write of the batch, behind call i, will take content c of f out of    *)
(* the cache.                                                              *)
ToBeInvalidated(s, i, f, c) ==
  \E k \in Calls(s) :
    /\ k > i
    /\ batch[s][k].file = f /\ batch[s][k].absolute
    /\ wrote[s][k] # None /\ wrote[s][k] > c

(* Content c of f may stand in the cache while the results behind i are    *)
(* still to be gone through.                                               *)
Trusted(s, i, f, c) == c <= disk[f] /\ (Excused(f, c) \/ ToBeInvalidated(s, i, f, c))

(* So may whatever is in it, and whatever a read is about to put there. *)
CacheCovered ==
  \A f \in Files : cache[f] # None =>
    /\ cache[f] <= disk[f]
    /\ Idle => Excused(f, cache[f])
    /\ \A s \in Slots : Attended(s) => Trusted(s, handled[s], f, cache[f])

ReadsCovered ==
  \A s \in Slots : Attended(s) => \A i \in Calls(s) : \A f \in Files :
    got[s][i] # None /\ ReadFrom(s, i) = f => Trusted(s, i, f, got[s][i])

(* Between runs the cache is the saved one. *)
SavedBetweenRuns == ~run => cache = saved

CInv ==
  /\ CacheTypes /\ OneAttended /\ Results /\ CacheCovered /\ ReadsCovered
  /\ SavedBetweenRuns

(* An excuse for a change is not taken back. *)
LEMMA ExcusedStays ==
  ASSUME NEW f \in Files, NEW c \in Nat, Excused(f, c),
         disk \in [Files -> Nat], disk' \in [Files -> Nat], disk[f] <= disk'[f],
         \A d \in 1..disk[f] : excuse[f][d] # None => excuse'[f][d] # None,
         disk'[f] = disk[f] \/ excuse'[f][disk'[f]] # None,
         c <= disk[f]
  PROVE  Excused(f, c)'
<1>1. CASE disk'[f] = disk[f]
  BY <1>1 DEF Excused
<1>2. CASE disk'[f] # disk[f]
  <2>1. disk'[f] \in (c + 1)..disk'[f] /\ excuse'[f][disk'[f]] # None
    BY <1>2
  <2> QED
    BY <2>1 DEF Excused
<1> QED
  BY <1>1, <1>2

(* A step of the loop or the end of a tool: the disk may move on, with an   *)
(* excuse or a write that is going to be handled; a content read now is    *)
(* the one on the disk, or one the cache may hold.                         *)
LEMMA BatchGoesOn ==
  ASSUME IInv, IInv', CInv, CacheTypes', Results',
         UNCHANGED <<cache, saved, run, mode, batch, handled>>,
         \A f \in Files : disk[f] <= disk'[f],
         \A f \in Files : \A d \in 1..disk[f] :
           excuse[f][d] # None => excuse'[f][d] # None,
         \A s \in Slots : \A i \in Index :
           wrote[s][i] # None => wrote'[s][i] = wrote[s][i],
         \A f \in Files :
           \/ disk'[f] = disk[f]
           \/ excuse'[f][disk'[f]] # None
           \/ \E s \in Slots : \E k \in Calls(s) :
                /\ Attended(s) /\ handled[s] = 0
                /\ batch[s][k].file = f /\ batch[s][k].absolute
                /\ wrote'[s][k] = disk'[f] /\ disk'[f] > disk[f]
                /\ \A j \in Calls(s) : j >= k => got'[s][j] = None,
         \A s \in Slots : Attended(s) =>
           \A i \in Calls(s) : \A c \in Nat : got'[s][i] = c =>
             \/ got[s][i] = c /\ hit'[s][i] = hit[s][i]
             \/ \E f \in Files :
                  ReadFrom(s, i)' = f /\ c <= disk'[f] /\ Excused(f, c)'
  PROVE  CInv'
<1>1. \A s \in Slots : (Attended(s)' <=> Attended(s)) /\ Calls(s)' = Calls(s)
  BY DEF Attended, Calls
<1>2. (Idle' <=> Idle) /\ OneAttended' /\ SavedBetweenRuns'
  BY <1>1 DEF CInv, Idle, OneAttended, SavedBetweenRuns, Attended
<1>3. ASSUME NEW f \in Files, NEW c \in Nat, NEW s \in Slots, Attended(s),
             NEW i \in Nat, Trusted(s, i, f, c),
             i = handled[s] \/ (i \in Calls(s) /\ got'[s][i] # None)
      PROVE  Trusted(s, i, f, c)'
  <2>1. disk \in [Files -> Nat] /\ disk' \in [Files -> Nat]
    BY DEF IInv, Types
  <2>2. c <= disk[f] /\ c <= disk'[f]
    BY <1>3, <2>1 DEF Trusted
  <2>3. CASE ToBeInvalidated(s, i, f, c)
    <3>1. PICK k \in Calls(s) : /\ k > i /\ batch[s][k].file = f /\ batch[s][k].absolute
                                /\ wrote[s][k] # None /\ wrote[s][k] > c
      BY <2>3 DEF ToBeInvalidated
    <3>2. wrote'[s][k] = wrote[s][k]
      BY <3>1, CallsAre DEF IInv
    <3>3. ToBeInvalidated(s, i, f, c)'
      BY <1>1, <3>1, <3>2 DEF ToBeInvalidated
    <3> QED
      BY <2>2, <3>3 DEF Trusted
  <2>4. CASE Excused(f, c) /\ (disk'[f] = disk[f] \/ excuse'[f][disk'[f]] # None)
    <3>1. Excused(f, c)'
      BY <2>1, <2>2, <2>4, ExcusedStays
    <3> QED
      BY <2>2, <3>1 DEF Trusted
  <2>5. CASE \E t \in Slots : \E k \in Calls(t) :
                /\ Attended(t) /\ handled[t] = 0
                /\ batch[t][k].file = f /\ batch[t][k].absolute
                /\ wrote'[t][k] = disk'[f] /\ disk'[f] > disk[f]
                /\ \A j \in Calls(t) : j >= k => got'[t][j] = None
    <3>0. PICK t \in Slots : \E k \in Calls(t) :
                /\ Attended(t) /\ handled[t] = 0
                /\ batch[t][k].file = f /\ batch[t][k].absolute
                /\ wrote'[t][k] = disk'[f] /\ disk'[f] > disk[f]
                /\ \A j \in Calls(t) : j >= k => got'[t][j] = None
      BY <2>5
    <3>1. PICK k \in Calls(t) :
                /\ Attended(t) /\ handled[t] = 0
                /\ batch[t][k].file = f /\ batch[t][k].absolute
                /\ wrote'[t][k] = disk'[f] /\ disk'[f] > disk[f]
                /\ \A j \in Calls(t) : j >= k => got'[t][j] = None
      BY <3>0
    <3>2. t = s
      BY <1>3, <3>1 DEF CInv, OneAttended
    <3>3. k \in Index
      BY CallsAre DEF IInv
    <3>4. k > i
      BY <1>3, <3>1, <3>2, <3>3 DEF Index
    <3>5. wrote'[s][k] # None /\ wrote'[s][k] > c
      BY <2>1, <2>2, <3>1, <3>2, ToolBatchConstants
    <3>6. ToBeInvalidated(s, i, f, c)'
      BY <1>1, <3>1, <3>2, <3>4, <3>5 DEF ToBeInvalidated
    <3> QED
      BY <2>2, <3>6 DEF Trusted
  <2> QED
    BY <1>3, <2>3, <2>4, <2>5 DEF Trusted
<1>4. CacheCovered'
  <2> SUFFICES ASSUME NEW f \in Files, cache[f] # None
               PROVE  /\ cache[f] <= disk'[f]
                      /\ Idle => Excused(f, cache[f])'
                      /\ \A s \in Slots : Attended(s) => Trusted(s, handled[s], f, cache[f])'
    BY <1>1, <1>2 DEF CacheCovered
  <2>1. /\ disk \in [Files -> Nat] /\ disk' \in [Files -> Nat] /\ cache[f] \in Nat
        /\ \A s \in Slots : handled[s] \in Nat
    BY DEF IInv, Types
  <2>2. /\ cache[f] <= disk[f]
        /\ Idle => Excused(f, cache[f])
        /\ \A s \in Slots : Attended(s) => Trusted(s, handled[s], f, cache[f])
    BY DEF CInv, CacheCovered
  <2>3. cache[f] <= disk'[f]
    BY <2>1, <2>2
  <2>4. ASSUME Idle PROVE Excused(f, cache[f])'
    <3>1. disk'[f] = disk[f] \/ excuse'[f][disk'[f]] # None
      BY <2>4 DEF Idle
    <3> QED
      BY <2>1, <2>2, <2>4, <3>1, ExcusedStays
  <2>5. ASSUME NEW s \in Slots, Attended(s) PROVE Trusted(s, handled[s], f, cache[f])'
    BY <1>3, <2>1, <2>2, <2>5
  <2> QED
    BY <2>3, <2>4, <2>5
<1>5. ReadsCovered'
  <2>1. \A s \in Slots : \A i \in Calls(s) : i \in Index /\ i \in Nat
    BY CallsAre DEF IInv, Index
  <2>2. \A s \in Slots : \A i \in Calls(s) : got'[s][i] \in Nat \union {None}
    BY <2>1 DEF IInv, Types
  <2>3. ASSUME NEW s \in Slots, Attended(s), NEW i \in Calls(s), NEW c \in Nat,
               got'[s][i] = c, NEW f \in Files, ReadFrom(s, i)' = f
        PROVE  Trusted(s, i, f, c)'
    <3>1. CASE got[s][i] = c /\ hit'[s][i] = hit[s][i]
      <4>1. ReadFrom(s, i) = f
        BY <2>3, <3>1 DEF ReadFrom
      <4>2. Trusted(s, i, f, c)
        BY <2>3, <3>1, <4>1, ToolBatchConstants DEF CInv, ReadsCovered
      <4>3. got'[s][i] # None
        BY <2>3, ToolBatchConstants
      <4> QED
        BY <1>3, <2>1, <2>3, <4>2, <4>3
    <3>2. CASE c <= disk'[f] /\ Excused(f, c)'
      BY <3>2 DEF Trusted
    <3> QED
      BY <2>3, <3>1, <3>2
  <2> QED
    BY <1>1, <2>2, <2>3 DEF ReadsCovered
<1> QED
  BY <1>2, <1>4, <1>5 DEF CInv

(* Nothing is cached, read or written at first. *)
LEMMA InitCache == Init => CInv
<1> SUFFICES ASSUME Init PROVE CInv
  OBVIOUS
<1> USE DEF Init
<1>1. CacheTypes
  BY ToolBatchConstants DEF CacheTypes, NoCache, Reasons
<1>2. OneAttended /\ SavedBetweenRuns
  BY DEF OneAttended, Attended, SavedBetweenRuns
<1>3. Results
  BY DEF Results, Nothing, Untouched
<1>4. CacheCovered /\ ReadsCovered
  BY DEF CacheCovered, ReadsCovered, NoCache, Attended
<1> QED
  BY <1>1, <1>2, <1>3, <1>4 DEF CInv

(* A run takes the saved cache over and saves it; in between the batches   *)
(* whoever left a call behind explains what it changed.                    *)
LEMMA RunCache ==
  ASSUME IInv, CInv, BeginRun \/ EndRun \/ UNCHANGED vars
  PROVE  CInv'
<1>1. UNCHANGED <<disk, cache, mode, batch, stage, got, hit, wrote, handled, excuse>>
  BY DEF BeginRun, EndRun, vars, calls, CInv, SavedBetweenRuns
<1>2. /\ \A s \in Slots : (Attended(s)' <=> Attended(s)) /\ Calls(s)' = Calls(s)
      /\ Idle' <=> Idle
  BY <1>1 DEF Attended, Calls, Idle
<1>3. CacheCovered' /\ ReadsCovered' /\ Results'
  BY <1>1, <1>2 DEF CInv, CacheCovered, ReadsCovered, Results, Trusted, Excused,
                    ToBeInvalidated, AllDone, ReadFrom
<1>4. SavedBetweenRuns'
  BY DEF BeginRun, EndRun, vars, CInv, SavedBetweenRuns
<1>5. OneAttended'
  BY <1>1, <1>2 DEF BeginRun, EndRun, vars, CInv, OneAttended, Idle
<1>6. CacheTypes'
  <2>1. saved' = saved \/ saved' = cache
    BY DEF BeginRun, EndRun, vars
  <2> QED
    BY <1>1, <2>1 DEF CInv, CacheTypes, CacheCovered
<1> QED
  BY <1>3, <1>4, <1>5, <1>6 DEF CInv

(* A new batch has neither read nor written. *)
LEMMA BeginBatchCache ==
  ASSUME IInv, CInv, NEW s \in Slots, BeginBatch(s)
  PROVE  CInv'
<1>1. /\ UNCHANGED <<disk, cache, saved, run, stage, got, wrote, handled, excuse>>
      /\ run /\ Idle /\ mode[s] = "free"
      /\ \A t \in Slots : t # s => mode'[t] = mode[t] /\ batch'[t] = batch[t]
      /\ mode'[s] = "attended"
  BY DEF BeginBatch, IInv, Types
<1>2. /\ \A i \in Index : got[s][i] = None /\ wrote[s][i] = None
      /\ handled[s] = 0
  BY <1>1 DEF IInv, FreeIsEmpty, CInv, Results
<1>3. /\ \A t \in Slots : Attended(t)' => t = s
      /\ ~Idle'
  BY <1>1 DEF Idle, Attended
<1>4. \A t \in Slots : \A i \in Calls(t)' : i \in Index
  BY CallsIn DEF BeginBatch, Calls, IInv, Types
<1>5. CacheTypes' /\ OneAttended' /\ SavedBetweenRuns'
  BY <1>1, <1>3 DEF CInv, CacheTypes, OneAttended, SavedBetweenRuns
<1>6. Results'
  BY <1>1, <1>2 DEF CInv, Results, AllDone, Calls
<1>7. CacheCovered'
  <2>1. \A f \in Files : cache[f] # None => cache[f] <= disk[f] /\ Excused(f, cache[f])
    BY <1>1 DEF CInv, CacheCovered
  <2>2. \A f \in Files : \A t \in Slots : cache[f] # None =>
          Trusted(t, handled[t], f, cache[f])'
    BY <1>1, <2>1 DEF Trusted, Excused
  <2> QED
    BY <1>1, <1>3, <2>1, <2>2 DEF CacheCovered
<1>8. ReadsCovered'
  BY <1>1, <1>2, <1>3, <1>4 DEF ReadsCovered
<1> QED
  BY <1>5, <1>6, <1>7, <1>8 DEF CInv

(* A call that was not done moves on: its batch has no result handled yet. *)
LEMMA ResultsStay ==
  ASSUME IInv, CInv, UNCHANGED <<mode, batch, handled>>,
         NEW s \in Slots, NEW k \in Calls(s), mode[s] # "free", stage[s][k] # "done",
         \A t \in Slots : \A i \in Index : t # s \/ i # k =>
           /\ stage'[t][i] = stage[t][i]
           /\ got'[t][i] = got[t][i] /\ wrote'[t][i] = wrote[t][i],
         got'[s][k] # None => batch[s][k].tool = "file_read",
         wrote'[s][k] # None => batch[s][k].tool = "file_write" /\ stage'[s][k] = "done"
  PROVE  Results' /\ handled[s] = 0
<1>1. \A t \in Slots : Calls(t)' = Calls(t) /\ Calls(t) \subseteq Index
  BY CallsAre DEF Calls, IInv
<1>2. ~AllDone(s)
  BY DEF AllDone
<1>3. handled[s] = 0
  BY <1>2 DEF CInv, Results, IInv, Types
<1>4. ASSUME NEW t \in Slots, handled[t] > 0 PROVE AllDone(t)'
  <2>1. t # s /\ AllDone(t)
    BY <1>3, <1>4 DEF CInv, Results
  <2> QED
    BY <1>1, <2>1 DEF AllDone
<1>5. ASSUME NEW t \in Slots, NEW i \in Index
      PROVE  /\ wrote'[t][i] # None => stage'[t][i] = "done"
             /\ i \in Calls(t) =>
                  /\ got'[t][i] # None => batch[t][i].tool = "file_read"
                  /\ wrote'[t][i] # None => batch[t][i].tool = "file_write"
  <2>1. CASE t = s /\ i = k
    BY <2>1
  <2>2. CASE t # s \/ i # k
    BY <2>2 DEF CInv, Results
  <2> QED
    BY <2>1, <2>2
<1>6. \A t \in Slots : mode[t] = "free" => handled[t] = 0
  BY DEF CInv, Results
<1> QED
  BY <1>1, <1>3, <1>4, <1>5, <1>6 DEF Results

(* A call answered from the cache: what the batch wrote to the file before *)
(* is excused, so that the content is one the cache may hold.              *)
LEMMA AnswerCache ==
  ASSUME IInv, IInv', CInv, NEW s \in Slots, AnswerFromCache(s)
  PROVE  CInv'
<1>0. PICK n : n = pos[s]
  OBVIOUS
<1>a. PICK f \in Files :
        /\ Serves(s, f)
        /\ IF Attended(s)
           THEN /\ got' = [got EXCEPT ![s][pos[s]] = cache[f]]
                /\ hit' = [hit EXCEPT ![s][pos[s]] = f]
           ELSE UNCHANGED <<got, hit>>
        /\ excuse' = [excuse EXCEPT ![f] = [c \in 1..MaxChanges |->
             IF c \in MadeBefore(s, pos[s], f) /\ @[c] = None THEN "repeated" ELSE @[c]]]
  BY DEF AnswerFromCache
<1>b. PICK x : x = cache[f]
  OBVIOUS
<1>1. /\ UNCHANGED <<disk, cache, saved, run, mode, batch, wrote, handled>>
      /\ mode[s] # "free" /\ n <= Len(batch[s]) /\ stage[s][n] = "none"
      /\ batch[s][n].tool = "file_read"
      /\ stage' = [stage EXCEPT ![s][n] = "done"]
      /\ Attended(s) => x # None
  BY <1>0, <1>a, <1>b DEF AnswerFromCache, Dispatching, Enters, Serves, Here, State
<1>2. n \in Calls(s) /\ n \in Index /\ n \in Nat
  <2>1. Len(batch[s]) \in Nat /\ n \in Nat \ {0}
    BY <1>0, ToolBatchConstants DEF IInv, Types
  <2>2. n \in Calls(s)
    BY <1>1, <2>1 DEF Calls
  <2> QED
    BY <1>0, <2>1, <2>2, CallsAre DEF IInv
<1>3. /\ \A t \in Slots : \A i \in Index : t # s \/ i # n => stage'[t][i] = stage[t][i]
      /\ stage'[s][n] = "done"
  BY <1>1, <1>2 DEF IInv, Types
<1>4. \/ UNCHANGED <<got, hit>> /\ ~Attended(s)
      \/ /\ got' = [got EXCEPT ![s][n] = x] /\ hit' = [hit EXCEPT ![s][n] = f]
         /\ Attended(s)
  BY <1>0, <1>a, <1>b
<1>5. \A t \in Slots : \A i \in Index : t # s \/ i # n =>
        got'[t][i] = got[t][i] /\ hit'[t][i] = hit[t][i]
  BY <1>2, <1>4 DEF IInv, Types
<1>6. /\ excuse' \in [Files -> [1..MaxChanges -> Reasons]]
      /\ \A g \in Files : \A d \in 1..MaxChanges :
           /\ excuse[g][d] # None => excuse'[g][d] # None
           /\ g = f /\ d \in MadeBefore(s, n, f) => excuse'[g][d] # None
  <2> DEFINE new == [c \in 1..MaxChanges |->
               IF c \in MadeBefore(s, n, f) /\ excuse[f][c] = None THEN "repeated" ELSE excuse[f][c]]
  <2>1. excuse' = [excuse EXCEPT ![f] = new]
    BY <1>0, <1>a
  <2>2. excuse \in [Files -> [1..MaxChanges -> Reasons]]
    BY DEF CInv, CacheTypes
  <2>3. "repeated" # None /\ "repeated" \in Reasons
    BY ToolBatchConstants DEF Excuses, Reasons
  <2>4. /\ new \in [1..MaxChanges -> Reasons]
        /\ \A d \in 1..MaxChanges : /\ excuse[f][d] # None => new[d] # None
                                    /\ d \in MadeBefore(s, n, f) => new[d] # None
    BY <1>2, <2>2, <2>3
  <2> HIDE DEF new
  <2> QED
    BY <1>2, <2>1, <2>2, <2>4
<1>7. Results'
  <2>1. wrote[s][n] = None
    BY <1>1, <1>2 DEF CInv, Results
  <2> QED
    BY <1>1, <1>2, <1>3, <1>5, <2>1, ResultsStay
<1>8. CacheTypes'
  BY <1>1, <1>6 DEF CInv, CacheTypes
<1>9. \A g \in Files : \A d \in 1..disk[g] : d \in 1..MaxChanges
  BY ToolBatchConstants DEF CInv, CacheTypes, IInv, Types
<1>10. ASSUME Attended(s) PROVE Excused(f, x)'
  <2>1. x \in Nat /\ disk[f] \in Nat
    BY <1>b, <1>1, <1>2, <1>10 DEF IInv, Types
  <2>2. handled[s] = 0
    <3>1. ~AllDone(s)
      BY <1>0, <1>1, <1>2 DEF AllDone
    <3> QED
      BY <3>1 DEF CInv, Results, IInv, Types
  <2>3. Trusted(s, handled[s], f, x)
    BY <1>b, <1>1, <1>2, <1>10 DEF CInv, CacheCovered
  <2>4. CASE Excused(f, x)
    <3>1. /\ disk \in [Files -> Nat] /\ disk' = disk /\ x <= disk[f]
          /\ \A d \in 1..disk[f] : excuse[f][d] # None => excuse'[f][d] # None
      BY <1>1, <1>2, <1>6, <1>9, <2>3 DEF IInv, Types, Trusted
    <3> QED
      BY <1>2, <2>1, <2>4, <3>1, ExcusedStays
  <2>5. CASE ToBeInvalidated(s, handled[s], f, x)
    <3>1. PICK k \in Calls(s) : /\ batch[s][k].file = f
                                /\ wrote[s][k] # None /\ wrote[s][k] > x
      BY <2>5 DEF ToBeInvalidated
    <3>2. k \in Index
      BY CallsAre DEF IInv
    <3>3. stage[s][k] = "done"
      BY <3>1, <3>2 DEF CInv, Results
    <3>4. ~(k > pos[s]) /\ k # n
      BY <1>0, <1>1, <3>2, <3>3 DEF IInv, LoopOrder
    <3>5. k \in 1..(n - 1)
      BY <1>0, <1>2, <3>2, <3>4 DEF Index
    <3>6. wrote[s][k] <= disk[f] /\ wrote[s][k] \in Nat
      BY <1>0, <1>1, <3>1, <3>2 DEF IInv, WrittenStays, Types
    <3>7. wrote[s][k] \in MadeBefore(s, n, f)
      BY <1>0, <3>1, <3>5 DEF MadeBefore
    <3>8. wrote[s][k] \in (x + 1)..disk[f] /\ wrote[s][k] \in 1..disk[f]
      BY <2>1, <3>1, <3>6
    <3>9. excuse'[f][wrote[s][k]] # None
      BY <1>0, <1>2, <1>6, <1>9, <3>7, <3>8
    <3> QED
      BY <1>0, <1>1, <3>8, <3>9 DEF Excused
  <2> QED
    BY <2>3, <2>4, <2>5 DEF Trusted
<1>11. ASSUME NEW t \in Slots, Attended(t), NEW i \in Calls(t), NEW c \in Nat, got'[t][i] = c
       PROVE  \/ got[t][i] = c /\ hit'[t][i] = hit[t][i]
              \/ \E g \in Files : ReadFrom(t, i)' = g /\ c <= disk'[g] /\ Excused(g, c)'
  <2>1. i \in Index
    BY CallsAre DEF IInv
  <2>2. CASE t # s \/ i # n \/ UNCHANGED <<got, hit>>
    BY <1>5, <1>11, <2>1, <2>2
  <2>3. CASE t = s /\ i = n /\ Attended(s) /\ got' = [got EXCEPT ![s][n] = x]
             /\ hit' = [hit EXCEPT ![s][n] = f]
    <3>1. c = x /\ hit'[t][i] = f
      BY <1>2, <1>11, <2>3 DEF IInv, Types
    <3>2. x <= disk'[f]
      BY <1>b, <1>1, <2>3 DEF CInv, CacheCovered
    <3>3. Excused(f, c)'
      BY <1>10, <2>3, <3>1
    <3>4. ReadFrom(t, i)' = f
      BY <3>1, ToolBatchConstants DEF ReadFrom
    <3> QED
      BY <3>1, <3>2, <3>3, <3>4
  <2> QED
    BY <1>4, <2>2, <2>3
<1>12. /\ \A g \in Files : disk[g] <= disk'[g]
       /\ \A g \in Files : \A d \in 1..disk[g] : excuse[g][d] # None => excuse'[g][d] # None
       /\ \A t \in Slots : \A i \in Index : wrote[t][i] # None => wrote'[t][i] = wrote[t][i]
       /\ \A g \in Files : disk'[g] = disk[g]
  BY <1>0, <1>1, <1>6, <1>9 DEF IInv, Types
<1> QED
  BY <1>0, <1>1, <1>7, <1>8, <1>11, <1>12, BatchGoesOn

(* A call is handed on, or a task gets its place: nothing is read. *)
LEMMA StartCache ==
  ASSUME IInv, IInv', CInv, NEW s \in Slots,
         CreateTask(s) \/ StartInLoop(s) \/ \E i \in Calls(s) : AcquireSemaphore(s, i)
  PROVE  CInv'
<1>1. /\ UNCHANGED <<disk, cache, saved, run, mode, batch, got, hit, wrote, handled, excuse>>
      /\ mode[s] # "free"
  BY DEF CreateTask, StartInLoop, AcquireSemaphore, Dispatching
<1>2. PICK k \in Calls(s), to \in {"queued", "runs"} :
        stage' = [stage EXCEPT ![s][k] = to] /\ stage[s][k] \in {"none", "queued"}
  <2>1. CASE CreateTask(s) \/ StartInLoop(s)
    <3>1. Len(batch[s]) \in Nat /\ pos[s] \in Nat \ {0}
      BY ToolBatchConstants DEF IInv, Types
    <3>2. pos[s] \in Calls(s)
      BY <2>1, <3>1 DEF CreateTask, StartInLoop, Dispatching, Calls
    <3> QED
      BY <2>1, <3>2 DEF CreateTask, StartInLoop, Enters
  <2>2. CASE \E i \in Calls(s) : AcquireSemaphore(s, i)
    BY <2>2 DEF AcquireSemaphore, Enters
  <2> QED
    BY <2>1, <2>2
<1>3. k \in Index
  BY CallsAre DEF IInv
<1>4. \A t \in Slots : \A i \in Index : t # s \/ i # k => stage'[t][i] = stage[t][i]
  BY <1>2, <1>3 DEF IInv, Types
<1>5. wrote[s][k] = None /\ got[s][k] = None
  BY <1>2, <1>3 DEF CInv, Results, IInv, ResultsOfTheDone
<1>6. Results'
  BY <1>1, <1>2, <1>4, <1>5, ResultsStay
<1>7. CacheTypes'
  BY <1>1 DEF CInv, CacheTypes
<1>8. \A f \in Files : disk[f] <= disk'[f]
  BY <1>1 DEF IInv, Types
<1>9. \A t \in Slots : Attended(t) => \A i \in Calls(t) : \A c \in Nat :
        got'[t][i] = c => got[t][i] = c /\ hit'[t][i] = hit[t][i]
  BY <1>1
<1> QED
  BY <1>1, <1>6, <1>7, <1>8, <1>9, BatchGoesOn

(* What the end of call k leaves for the cache to prove: its result. *)
LEMMA EndedCall ==
  ASSUME IInv, CInv, NEW s \in Slots, NEW k \in Calls(s), Finishes(s, k),
         \A t \in Slots : \A i \in Index : t # s \/ i # k =>
           got'[t][i] = got[t][i] /\ wrote'[t][i] = wrote[t][i],
         got'[s][k] # None => batch[s][k].tool = "file_read",
         wrote'[s][k] # None => batch[s][k].tool = "file_write"
  PROVE  /\ Results' /\ handled[s] = 0
         /\ \A t \in Slots : \A i \in Index :
              wrote[t][i] # None => wrote'[t][i] = wrote[t][i]
<1>1. /\ UNCHANGED <<mode, batch, handled>>
      /\ mode[s] # "free" /\ k \in Index /\ stage[s][k] = "runs"
      /\ \A t \in Slots : \A i \in Index : t # s \/ i # k => stage'[t][i] = stage[t][i]
      /\ stage'[s][k] = "done"
  BY Finishing
<1>2. Results' /\ handled[s] = 0
  BY <1>1, ResultsStay
<1>3. wrote[s][k] = None
  BY <1>1 DEF CInv, Results
<1> QED
  BY <1>2, <1>3

(* A read that goes to the disk returns what is there. *)
LEMMA ReadCache ==
  ASSUME IInv, IInv', CInv, NEW s \in Slots, NEW k \in Calls(s), FinishRead(s, k)
  PROVE  CInv'
<1>1. /\ Finishes(s, k) /\ UNCHANGED <<disk, wrote, excuse>>
      /\ batch[s][k].tool = "file_read"
  BY DEF FinishRead
<1>2. /\ UNCHANGED <<cache, saved, run, mode, batch, hit, handled>>
      /\ k \in Index /\ stage[s][k] = "runs" /\ batch[s][k].file \in Files
  BY <1>1, Finishing, CallsAre DEF Finishes, IInv
<1>3. PICK c \in {None, disk[batch[s][k].file]} : got' = [got EXCEPT ![s][k] = c]
  BY DEF FinishRead
<1>4. /\ \A t \in Slots : \A i \in Index : t # s \/ i # k => got'[t][i] = got[t][i]
      /\ got'[s][k] = c
  BY <1>2, <1>3 DEF IInv, Types
<1>5. wrote[s][k] = None /\ hit[s][k] = None
  BY <1>2 DEF CInv, Results, IInv, ResultsOfTheDone
<1>6. Results' /\ \A t \in Slots : \A i \in Index : wrote[t][i] # None => wrote'[t][i] = wrote[t][i]
  BY <1>1, <1>4, <1>5, EndedCall
<1>7. CacheTypes'
  BY <1>1, <1>2 DEF CInv, CacheTypes
<1>8. ASSUME NEW t \in Slots, Attended(t), NEW i \in Calls(t), NEW d \in Nat, got'[t][i] = d
      PROVE  \/ got[t][i] = d /\ hit'[t][i] = hit[t][i]
             \/ \E f \in Files : ReadFrom(t, i)' = f /\ d <= disk'[f] /\ Excused(f, d)'
  <2>1. i \in Index
    BY CallsAre DEF IInv
  <2>2. CASE t # s \/ i # k
    BY <1>2, <1>4, <1>8, <2>1, <2>2
  <2>3. CASE t = s /\ i = k
    <3>1. PICK f \in Files : f = batch[s][k].file
      BY <1>2
    <3>2. d = disk[f]
      BY <1>3, <1>4, <1>8, <2>3, <3>1, ToolBatchConstants
    <3>3. ReadFrom(t, i)' = f
      BY <1>2, <1>5, <2>3, <3>1 DEF ReadFrom
    <3>4. d <= disk'[f] /\ Excused(f, d)'
      BY <1>1, <3>2 DEF Excused
    <3> QED
      BY <3>3, <3>4
  <2> QED
    BY <2>2, <2>3
<1>9. \A f \in Files : disk[f] <= disk'[f]
  BY <1>1 DEF IInv, Types
<1> QED
  BY <1>1, <1>2, <1>6, <1>7, <1>8, <1>9, BatchGoesOn

(* A write or a command changes the file with an excuse, or is a write that *)
(* will be handled: then no call from it on has read yet.                   *)
LEMMA ChangeCache ==
  ASSUME IInv, IInv', CInv, NEW s \in Slots, NEW k \in Calls(s),
         FinishWrite(s, k) \/ FailWrite(s, k) \/ FinishShell(s, k)
  PROVE  CInv'
<1>0. PICK f : f = batch[s][k].file
  OBVIOUS
<1>1. Finishes(s, k) /\ UNCHANGED got
  BY DEF FinishWrite, FailWrite, FinishShell
<1>2. /\ UNCHANGED <<cache, saved, run, mode, batch, hit, handled>> /\ mode[s] # "free"
      /\ k \in Index /\ stage[s][k] = "runs" /\ f \in Files
  BY <1>0, <1>1, Finishing, CallsAre DEF Finishes, IInv
<1>3. PICK why, new :
        /\ \/ UNCHANGED <<disk, excuse>>
           \/ /\ disk[f] < MaxChanges /\ disk' = [disk EXCEPT ![f] = @ + 1]
              /\ excuse' = [excuse EXCEPT ![f][disk[f] + 1] = why]
              /\ why \in Excuses \/ (/\ FinishWrite(s, k) /\ why = None
                                     /\ Attended(s) /\ batch[s][k].absolute)
        /\ FinishWrite(s, k) => /\ wrote' = [wrote EXCEPT ![s][k] = new]
                                /\ new = IF Attended(s) THEN disk[f] + 1 ELSE None
        /\ ~FinishWrite(s, k) => UNCHANGED wrote
  <2>1. CASE FinishWrite(s, k)
    <3> DEFINE why == IF ~Attended(s) THEN "orphan"
                      ELSE IF ~batch[s][k].absolute THEN "relative" ELSE None
               new == IF Attended(s) THEN disk[f] + 1 ELSE None
    <3>1. /\ disk[f] < MaxChanges /\ disk' = [disk EXCEPT ![f] = @ + 1]
          /\ excuse' = [excuse EXCEPT ![f][disk[f] + 1] = why]
          /\ wrote' = [wrote EXCEPT ![s][k] = new]
      BY <1>0, <2>1 DEF FinishWrite, Changes, Excuse
    <3>2. why \in Excuses \/ (why = None /\ Attended(s) /\ batch[s][k].absolute)
      BY DEF Excuses
    <3> HIDE DEF why
    <3> QED
      BY <2>1, <3>1, <3>2
  <2>2. CASE ~FinishWrite(s, k)
    <3>1. /\ UNCHANGED wrote
          /\ \/ UNCHANGED <<disk, excuse>>
             \/ /\ disk[f] < MaxChanges /\ disk' = [disk EXCEPT ![f] = @ + 1]
                /\ \E w \in Excuses : excuse' = [excuse EXCEPT ![f][disk[f] + 1] = w]
      BY <1>0, <2>2 DEF FailWrite, FinishShell, Changes, Excuse, Excuses
    <3> QED
      BY <2>2, <3>1
  <2> QED
    BY <2>1, <2>2
<1>4. /\ disk \in [Files -> Nat] /\ disk[f] \in Nat /\ MaxChanges \in Nat
      /\ \A g \in Files : disk[g] \in Nat
      /\ excuse \in [Files -> [1..MaxChanges -> Reasons]]
      /\ \A g \in Files : disk[g] <= MaxChanges
      /\ wrote \in [Slots -> [Index -> Nat \union {None}]]
  BY <1>2, ToolBatchConstants DEF IInv, Types, CInv, CacheTypes
<1>5. \/ UNCHANGED <<disk, excuse>>
      \/ /\ disk[f] + 1 \in 1..MaxChanges /\ disk'[f] = disk[f] + 1
         /\ \A g \in Files : g # f => disk'[g] = disk[g] /\ excuse'[g] = excuse[g]
         /\ \A d \in 1..MaxChanges : d # disk[f] + 1 => excuse'[f][d] = excuse[f][d]
         /\ excuse'[f][disk[f] + 1] = why
         /\ excuse' \in [Files -> [1..MaxChanges -> Reasons]]
  <2>1. CASE /\ disk[f] < MaxChanges /\ disk' = [disk EXCEPT ![f] = @ + 1]
             /\ excuse' = [excuse EXCEPT ![f][disk[f] + 1] = why]
             /\ why \in Reasons
    <3>1. disk[f] + 1 \in 1..MaxChanges
      BY <1>4, <2>1
    <3> QED
      BY <1>2, <1>4, <2>1, <3>1
  <2> QED
    BY <1>3, <2>1 DEF Reasons
<1>6. CacheTypes'
  <2>1. ASSUME NEW g \in Files PROVE disk'[g] <= MaxChanges /\ disk[g] <= disk'[g]
    <3>1. CASE disk'[g] = disk[g]
      BY <1>4, <3>1
    <3>2. CASE g = f /\ disk[f] + 1 \in 1..MaxChanges /\ disk'[f] = disk[f] + 1
      BY <1>4, <3>2
    <3> QED
      BY <1>5, <3>1, <3>2
  <2>2. \A g \in Files : saved[g] # None => saved[g] <= disk'[g]
    <3>1. \A g \in Files : saved[g] # None => saved[g] <= disk[g] /\ saved[g] \in Nat
      BY DEF CInv, CacheTypes, IInv, Types
    <3>2. \A g \in Files : disk'[g] \in Nat
      BY DEF IInv, Types
    <3> QED
      BY <1>4, <2>1, <3>1, <3>2
  <2> QED
    BY <1>2, <1>4, <1>5, <2>1, <2>2 DEF CacheTypes
<1>7. /\ \A t \in Slots : \A i \in Index : t # s \/ i # k => wrote'[t][i] = wrote[t][i]
      /\ FinishWrite(s, k) => wrote'[s][k] = new
  BY <1>2, <1>3, <1>4
<1>8. got[s][k] = None /\ wrote[s][k] = None
  BY <1>2 DEF CInv, Results, IInv, ResultsOfTheDone
<1>9. wrote'[s][k] # None => batch[s][k].tool = "file_write"
  BY <1>3, <1>8 DEF FinishWrite
<1>10. /\ Results' /\ handled[s] = 0
       /\ \A t \in Slots : \A i \in Index : wrote[t][i] # None => wrote'[t][i] = wrote[t][i]
  BY <1>1, <1>7, <1>8, <1>9, EndedCall
<1>11. FinishWrite(s, k) => \A j \in Calls(s) : j >= k => got[s][j] = None
  <2> SUFFICES ASSUME FinishWrite(s, k), NEW j \in Calls(s), j >= k
               PROVE  got[s][j] = None
    OBVIOUS
  <2>1. ~Parallel(batch[s][k])
    BY DEF FinishWrite, Parallel
  <2>2. k = pos[s]
    BY <2>1, <1>2 DEF IInv, LoopOrder
  <2>3. j \in Index
    BY CallsAre DEF IInv
  <2>4. j = k \/ stage[s][j] = "none"
    BY <1>2, <2>2, <2>3 DEF IInv, LoopOrder, Index
  <2> QED
    BY <1>8, <2>3, <2>4 DEF IInv, ResultsOfTheDone
<1>12. /\ \A g \in Files : disk[g] <= disk'[g]
       /\ \A g \in Files : \A d \in 1..disk[g] : excuse[g][d] # None => excuse'[g][d] # None
  <2>1. ASSUME NEW g \in Files, NEW d \in 1..disk[g]
        PROVE  excuse'[g][d] = excuse[g][d]
    <3>1. d \in 1..MaxChanges /\ (g = f => d # disk[f] + 1)
      BY <1>4
    <3> QED
      BY <1>5, <3>1
  <2>2. ASSUME NEW g \in Files PROVE disk[g] <= disk'[g]
    <3>1. CASE disk'[g] = disk[g]
      BY <1>4, <3>1
    <3>2. CASE g = f /\ disk'[f] = disk[f] + 1
      BY <1>4, <3>2
    <3> QED
      BY <1>5, <3>1, <3>2
  <2> QED
    BY <2>1, <2>2
<1>13. \A g \in Files :
         \/ disk'[g] = disk[g]
         \/ excuse'[g][disk'[g]] # None
         \/ \E t \in Slots : \E i \in Calls(t) :
              /\ Attended(t) /\ handled[t] = 0
              /\ batch[t][i].file = g /\ batch[t][i].absolute
              /\ wrote'[t][i] = disk'[g] /\ disk'[g] > disk[g]
              /\ \A j \in Calls(t) : j >= i => got'[t][j] = None
  <2> TAKE g \in Files
  <2>1. CASE g # f \/ UNCHANGED <<disk, excuse>>
    BY <1>5, <2>1
  <2>2. CASE g = f /\ disk'[f] = disk[f] + 1 /\ excuse'[f][disk[f] + 1] = why /\ why \in Excuses
    BY <2>2, ToolBatchConstants
  <2>3. CASE /\ g = f /\ disk'[f] = disk[f] + 1 /\ FinishWrite(s, k)
             /\ Attended(s) /\ batch[s][k].absolute
    <3>1. wrote' = [wrote EXCEPT ![s][k] = disk[f] + 1]
      BY <1>3, <1>4, <1>5, <2>3
    <3>2. wrote'[s][k] = disk'[f] /\ disk'[f] > disk[f]
      BY <1>2, <1>4, <2>3, <3>1
    <3> QED
      BY <1>0, <1>1, <1>10, <1>11, <2>3, <3>2
  <2> QED
    BY <1>3, <1>5, <2>1, <2>2, <2>3
<1>14. \A t \in Slots : Attended(t) =>
         \A i \in Calls(t) : \A c \in Nat : got'[t][i] = c =>
           \/ got[t][i] = c /\ hit'[t][i] = hit[t][i]
           \/ \E g \in Files : ReadFrom(t, i)' = g /\ c <= disk'[g] /\ Excused(g, c)'
  BY <1>1, <1>2
<1>15. UNCHANGED <<cache, saved, run, mode, batch, handled>> /\ Results'
  BY <1>2, <1>10
<1>16. \A t \in Slots : \A i \in Index : wrote[t][i] # None => wrote'[t][i] = wrote[t][i]
  BY <1>10
<1> QED
  BY <1>6, <1>12, <1>13, <1>14, <1>15, <1>16, BatchGoesOn

-----------------------------------------------------------------------------
(* A result is handled: what a read returned may stand in the cache, and a *)
(* reported write takes its file out of it.                                *)
LEMMA HandlingCache ==
  ASSUME IInv, CInv, NEW s \in Slots, RecordRead(s) \/ Invalidate(s) \/ HandleShell(s)
  PROVE  CInv'
<1>0. PICK n, f : n = handled[s] + 1 /\ f = batch[s][n].file
  OBVIOUS
<1>1. /\ UNCHANGED <<disk, saved, run, mode, batch, stage, got, hit, wrote, excuse>>
      /\ Attended(s) /\ AllDone(s) /\ handled[s] < Len(batch[s])
      /\ handled' = [handled EXCEPT ![s] = @ + 1]
  BY DEF RecordRead, Invalidate, HandleShell, Handling
<1>2. /\ n \in Calls(s) /\ n \in Index /\ n \in Nat /\ f \in Files /\ handled[s] \in Nat
      /\ handled'[s] = n
  <2>1. handled[s] \in Nat /\ Len(batch[s]) \in Nat
    BY ToolBatchConstants DEF IInv, Types
  <2>2. n \in Calls(s)
    BY <1>0, <1>1, <2>1 DEF Calls
  <2>3. handled'[s] = n
    BY <1>0, <1>1 DEF IInv, Types
  <2> QED
    BY <1>0, <2>1, <2>2, <2>3, CallsAre DEF IInv
<1>3. \A t \in Slots : (Attended(t)' <=> Attended(t)) /\ (Attended(t) => t = s)
  BY <1>1 DEF Attended, CInv, OneAttended
<1>4. ~Idle /\ ~Idle' /\ run
  BY <1>1, <1>3 DEF Idle, CInv, OneAttended
<1>5. OneAttended' /\ SavedBetweenRuns' /\ CacheTypes' /\ ReadsCovered'
  BY <1>1, <1>3, <1>4 DEF CInv, OneAttended, SavedBetweenRuns, CacheTypes, ReadsCovered,
                          Trusted, Excused, ToBeInvalidated, Calls, ReadFrom
<1>6. Results'
  <2>1. mode[s] # "free" /\ \A t \in Slots : t # s => handled'[t] = handled[t]
    BY <1>1 DEF Attended, IInv, Types
  <2>2. \A t \in Slots : (AllDone(t)' <=> AllDone(t)) /\ Calls(t)' = Calls(t)
    BY <1>1 DEF AllDone, Calls
  <2> QED
    BY <1>1, <2>1, <2>2 DEF CInv, Results
<1>7. ASSUME NEW g \in Files, NEW x \in Nat, Trusted(s, handled[s], g, x),
             ~(/\ wrote[s][n] # None /\ batch[s][n].absolute /\ g = f)
      PROVE  Trusted(s, n, g, x)
  <2>1. CASE Excused(g, x)
    BY <1>7, <2>1 DEF Trusted
  <2>2. CASE ToBeInvalidated(s, handled[s], g, x)
    <3>1. PICK k \in Calls(s) : /\ k > handled[s] /\ batch[s][k].file = g
                                /\ batch[s][k].absolute
                                /\ wrote[s][k] # None /\ wrote[s][k] > x
      BY <2>2 DEF ToBeInvalidated
    <3>2. k # n /\ k \in Index
      BY <1>0, <1>7, <3>1, CallsAre DEF IInv
    <3>3. k > n
      BY <1>0, <1>2, <3>1, <3>2 DEF Index
    <3> QED
      BY <1>7, <3>1, <3>3 DEF Trusted, ToBeInvalidated
  <2> QED
    BY <1>7, <2>1, <2>2 DEF Trusted
<1>8. ASSUME NEW g \in Files, NEW x \in Nat, cache'[g] = x
      PROVE  Trusted(s, n, g, x)
  <2>1. \A h \in Files : \A y \in Nat : cache[h] = y => Trusted(s, handled[s], h, y)
    BY <1>1, ToolBatchConstants DEF CInv, CacheCovered
  <2>2. CASE RecordRead(s)
    <3>1. wrote[s][n] = None
      <4>1. batch[s][n].tool = "file_read"
        BY <1>0, <2>2 DEF RecordRead, Mine
      <4> QED
        BY <1>2, <4>1 DEF CInv, Results
    <3>2. CASE cache[g] = x
      BY <1>7, <2>1, <3>1, <3>2
    <3>3. PICK h : h = ReadFrom(s, n)
      OBVIOUS
    <3>4. h \in Files
      BY <1>2, <3>3, ReadFromAFile DEF IInv
    <3>5. CASE got[s][n] = None
      BY <1>0, <1>8, <2>2, <3>2, <3>5 DEF RecordRead
    <3>6. CASE got[s][n] # None /\ cache' = [Without(cache, h) EXCEPT ![h] = got[s][n]]
      <4>1. g = h => got[s][n] = x
        BY <1>8, <3>4, <3>6 DEF Without
      <4>2. g = h => Trusted(s, n, g, x)
        BY <1>1, <1>2, <3>3, <3>4, <3>6, <4>1 DEF CInv, ReadsCovered
      <4>3. g # h => cache[g] = x
        BY <1>8, <3>4, <3>6, ToolBatchConstants DEF Without
      <4> QED
        BY <3>2, <4>2, <4>3
    <3> QED
      BY <1>0, <2>2, <3>3, <3>5, <3>6 DEF RecordRead
  <2>3. CASE Invalidate(s)
    <3>1. CASE wrote[s][n] # None /\ batch[s][n].absolute
      <4>1. cache' = Without(cache, f)
        BY <1>0, <2>3, <3>1 DEF Invalidate, Mine
      <4>2. g # f /\ cache[g] = x
        BY <1>2, <1>8, <4>1, ToolBatchConstants DEF Without
      <4> QED
        BY <1>7, <2>1, <4>2
    <3>2. CASE ~(wrote[s][n] # None /\ batch[s][n].absolute)
      <4>1. cache' = cache
        BY <1>0, <2>3, <3>2 DEF Invalidate, Mine
      <4> QED
        BY <1>7, <1>8, <2>1, <3>2, <4>1
    <3> QED
      BY <3>1, <3>2
  <2>4. CASE HandleShell(s)
    <3>1. wrote[s][n] = None
      <4>1. batch[s][n].tool = "shell"
        BY <1>0, <2>4 DEF HandleShell, Mine
      <4> QED
        BY <1>2, <4>1 DEF CInv, Results
    <3> QED
      BY <1>7, <1>8, <2>1, <2>4, <3>1 DEF HandleShell
  <2> QED
    BY <2>2, <2>3, <2>4
<1>9. CacheCovered'
  <2>1. cache' \in [Files -> Nat \union {None}]
    BY HandlingStep DEF IInv, Types
  <2>2. ASSUME NEW g \in Files, cache'[g] # None
        PROVE  /\ cache'[g] <= disk'[g]
               /\ Trusted(s, handled[s], g, cache[g])'
    <3>1. PICK x \in Nat : x = cache'[g]
      BY <2>1, <2>2
    <3>2. Trusted(s, n, g, x)
      BY <1>8, <3>1
    <3>3. Trusted(s, n, g, x)'
      BY <1>1, <3>2 DEF Trusted, Excused, ToBeInvalidated, Calls
    <3> QED
      BY <1>2, <3>1, <3>3 DEF Trusted, Excused, ToBeInvalidated, Calls
  <2> QED
    BY <1>3, <1>4, <2>2 DEF CacheCovered
<1> QED
  BY <1>5, <1>6, <1>9 DEF CInv

(* When all results are handled, nothing is left to be invalidated. *)
LEMMA EndBatchCache ==
  ASSUME IInv, CInv, NEW s \in Slots, EndBatch(s) \/ EndOrphan(s)
  PROVE  CInv'
<1>1. /\ Frees(s) /\ UNCHANGED <<disk, cache, saved, run, excuse>>
      /\ EndBatch(s) => Attended(s) /\ handled[s] = Len(batch[s])
      /\ EndOrphan(s) => ~Attended(s)
  BY DEF EndBatch, EndOrphan, Frees, Attended
<1>2. /\ \A t \in Slots : t # s =>
           /\ mode'[t] = mode[t] /\ batch'[t] = batch[t] /\ stage'[t] = stage[t]
           /\ got'[t] = got[t] /\ wrote'[t] = wrote[t] /\ handled'[t] = handled[t]
           /\ hit'[t] = hit[t]
      /\ mode'[s] = "free" /\ handled'[s] = 0
      /\ \A i \in Index : got'[s][i] = None /\ wrote'[s][i] = None
  BY <1>1 DEF Frees, Nothing, IInv, Types
<1>3. \A t \in Slots : Attended(t)' <=> (t # s /\ Attended(t))
  BY <1>2 DEF Attended
<1>4. \A t \in Slots : t # s => Calls(t)' = Calls(t) /\ (AllDone(t)' <=> AllDone(t))
  BY <1>2 DEF Calls, AllDone
<1>5. OneAttended' /\ SavedBetweenRuns' /\ CacheTypes'
  BY <1>1, <1>3 DEF CInv, OneAttended, SavedBetweenRuns, CacheTypes
<1>6. Results'
  BY <1>2, <1>4 DEF CInv, Results
<1>7. ReadsCovered'
  BY <1>1, <1>2, <1>3, <1>4 DEF CInv, ReadsCovered, Trusted, Excused, ToBeInvalidated,
                                ReadFrom
<1>8. ASSUME NEW f \in Files, cache[f] # None, Idle' PROVE Excused(f, cache[f])
  <2>1. CASE EndBatch(s)
    <3>1. Trusted(s, handled[s], f, cache[f]) /\ handled[s] = Len(batch[s])
      BY <1>1, <1>8, <2>1 DEF CInv, CacheCovered
    <3>2. Len(batch[s]) \in Nat
      BY ToolBatchConstants DEF IInv, Types
    <3>3. ~ToBeInvalidated(s, handled[s], f, cache[f])
      BY <3>1, <3>2 DEF ToBeInvalidated, Calls
    <3> QED
      BY <3>1, <3>3 DEF Trusted
  <2>2. CASE EndOrphan(s)
    <3>1. Idle
      BY <1>1, <1>3, <1>8, <2>2 DEF Idle
    <3> QED
      BY <1>8, <3>1 DEF CInv, CacheCovered
  <2> QED
    BY <2>1, <2>2
<1>9. CacheCovered'
  <2>1. \A f \in Files : cache[f] # None => cache[f] <= disk[f]
    BY DEF CInv, CacheCovered
  <2>2. \A f \in Files : cache[f] # None => \A t \in Slots : t # s /\ Attended(t) =>
          Trusted(t, handled[t], f, cache[f])'
    BY <1>1, <1>2, <1>4 DEF CInv, CacheCovered, Trusted, Excused, ToBeInvalidated
  <2>3. \A f \in Files : cache[f] # None /\ Idle' => Excused(f, cache[f])'
    BY <1>1, <1>8 DEF Excused
  <2> QED
    BY <1>1, <1>3, <2>1, <2>2, <2>3 DEF CacheCovered
<1> QED
  BY <1>5, <1>6, <1>7, <1>9 DEF CInv

(* A run that is abandoned leaves an excuse for every change so far. *)
LEMMA AbandonCache ==
  ASSUME IInv, CInv, Abandon
  PROVE  CInv'
<1>1. /\ UNCHANGED <<disk, saved, batch, stage>> /\ cache' = saved /\ run' = FALSE
      /\ handled' = [t \in Slots |-> 0]
      /\ \A t \in Slots : ~Attended(t)'
      /\ \A t \in Slots : \A i \in Index : got'[t][i] = None /\ wrote'[t][i] = None
  BY DEF Abandon, Attended, Nothing, IInv, Types
<1>2. /\ excuse \in [Files -> [1..MaxChanges -> Reasons]]
      /\ \A f \in Files : disk[f] \in Nat /\ disk[f] <= MaxChanges
      /\ "unsaved" \in Reasons /\ "unsaved" # None
  BY ToolBatchConstants DEF CInv, CacheTypes, IInv, Types, Reasons, Excuses
<1>3. /\ excuse' \in [Files -> [1..MaxChanges -> Reasons]]
      /\ \A f \in Files : \A c \in 1..disk[f] : excuse'[f][c] # None
  BY <1>2, ToolBatchConstants DEF Abandon
<1>4. OneAttended' /\ SavedBetweenRuns' /\ ReadsCovered' /\ CacheTypes'
  BY <1>1, <1>2, <1>3 DEF CInv, OneAttended, SavedBetweenRuns, ReadsCovered, CacheTypes
<1>5. \A t \in Slots : Calls(t)' = Calls(t)
  BY <1>1 DEF Calls
<1>6. Results'
  BY <1>1 DEF Results
<1>7. ASSUME NEW f \in Files, NEW x \in Nat, saved[f] = x
      PROVE  x <= disk[f] /\ Excused(f, x)'
  <2>1. x <= disk[f] /\ disk[f] \in Nat
    BY <1>2, <1>7, ToolBatchConstants DEF CInv, CacheTypes
  <2>2. x # disk[f] => disk[f] \in (x + 1)..disk[f] /\ disk[f] \in 1..disk[f]
    BY <2>1
  <2> QED
    BY <1>1, <1>3, <2>1, <2>2 DEF Excused
<1>8. CacheCovered'
  <2>1. saved \in [Files -> Nat \union {None}]
    BY DEF IInv, Types
  <2>2. \A f \in Files : \A x \in Nat : saved[f] = x => x <= disk'[f] /\ Excused(f, x)'
    BY <1>1, <1>7
  <2> QED
    BY <1>1, <2>1, <2>2 DEF CacheCovered
<1> QED
  BY <1>4, <1>6, <1>8 DEF CInv

(* Every step keeps the invariant of the cache. *)
LEMMA NextCache == IInv /\ IInv' /\ CInv /\ [Next]_vars => CInv'
<1> SUFFICES ASSUME IInv, IInv', CInv, [Next]_vars PROVE CInv'
  OBVIOUS
<1>1. CASE BeginRun \/ EndRun \/ UNCHANGED vars
  BY <1>1, RunCache
<1>2. CASE Abandon
  BY <1>2, AbandonCache
<1>3. ASSUME NEW s \in Slots, BeginBatch(s) PROVE CInv'
  BY <1>3, BeginBatchCache
<1>4. ASSUME NEW s \in Slots, AnswerFromCache(s) PROVE CInv'
  BY <1>4, AnswerCache
<1>5. ASSUME NEW s \in Slots, CreateTask(s) \/ StartInLoop(s) PROVE CInv'
  BY <1>5, StartCache
<1>6. ASSUME NEW s \in Slots, RecordRead(s) \/ Invalidate(s) \/ HandleShell(s)
      PROVE  CInv'
  BY <1>6, HandlingCache
<1>7. ASSUME NEW s \in Slots, EndBatch(s) \/ EndOrphan(s) PROVE CInv'
  BY <1>7, EndBatchCache
<1>8. ASSUME NEW s \in Slots, NEW k \in Calls(s), AcquireSemaphore(s, k) PROVE CInv'
  BY <1>8, StartCache
<1>9. ASSUME NEW s \in Slots, NEW k \in Calls(s), FinishRead(s, k) PROVE CInv'
  BY <1>9, ReadCache
<1>10. ASSUME NEW s \in Slots, NEW k \in Calls(s),
              FinishWrite(s, k) \/ FailWrite(s, k) \/ FinishShell(s, k)
       PROVE  CInv'
  BY <1>10, ChangeCache
<1> QED
  BY <1>1, <1>2, <1>3, <1>4, <1>5, <1>6, <1>7, <1>8, <1>9, <1>10 DEF Next

-----------------------------------------------------------------------------
(* The invariant of the cache holds in every reachable state. *)
THEOREM CacheInvariance == Spec => []CInv
<1>1. Init => CInv
  BY InitCache
<1> QED
  BY <1>1, NextCache, Invariance, PTL DEF Spec

(* Between batches the cache never holds a content that the file it was read *)
(* from no longer has, unless one of the excuses explains it: for any files, *)
(* any keys they may share, any batches and any number of batches that go on *)
(* after their run was abandoned.                                            *)
THEOREM CacheIsTrustworthy == Spec => []CacheTrustworthy
<1>1. CInv => CacheTrustworthy
  BY DEF CInv, CacheCovered, Excused, CacheTrustworthy
<1> QED
  BY <1>1, CacheInvariance, PTL
-----------------------------------------------------------------------------
(* The rest of the type invariant: contents are ones the files had, and no *)
(* index leaves its batch.                                                 *)
Limits ==
  /\ run \in BOOLEAN
  /\ pos \in [Slots -> 1..(MaxLen + 1)] /\ handled \in [Slots -> 0..MaxLen]
  /\ got \in [Slots -> [Index -> Contents \union {None}]]
  /\ wrote \in [Slots -> [Index -> Contents \union {None}]]
  /\ left \in [Slots -> [Files -> Contents \union {None}]]

(* The same of the files and of the cache follows from the invariants. *)
LEMMA ContentsAre ==
  ASSUME IInv, CInv
  PROVE  /\ disk \in [Files -> Contents]
         /\ cache \in [Files -> Contents \union {None}]
         /\ saved \in [Files -> Contents \union {None}]
<1>1. \A f \in Files : disk[f] \in Nat /\ disk[f] <= MaxChanges
  BY DEF IInv, Types, CInv, CacheTypes
<1>2. \A f \in Files : cache[f] \in Nat /\ cache[f] # None => cache[f] <= disk[f]
  BY DEF CInv, CacheCovered
<1>3. \A f \in Files : saved[f] \in Nat /\ saved[f] # None => saved[f] <= disk[f]
  BY DEF CInv, CacheTypes
<1> QED
  BY <1>1, <1>2, <1>3, ToolBatchConstants DEF IInv, Types, Contents

(* The loop moves on, and a result is filled in. *)
LEMMA MovesOn ==
  ASSUME NEW p \in [Slots -> 1..(MaxLen + 1)], NEW s \in Slots, p[s] \in 1..MaxLen
  PROVE  [p EXCEPT ![s] = p[s] + 1] \in [Slots -> 1..(MaxLen + 1)]
  BY ToolBatchConstants

LEMMA FillsIn ==
  ASSUME NEW g \in [Slots -> [Index -> Contents \union {None}]],
         NEW s \in Slots, NEW i \in Index, NEW c \in Contents \union {None}
  PROVE  [g EXCEPT ![s][i] = c] \in [Slots -> [Index -> Contents \union {None}]]
  OBVIOUS

(* Each step keeps the limits. *)
LEMMA LimitsStep ==
  ASSUME IInv, CInv, IInv', CInv', Limits, [Next]_vars
  PROVE  Limits'
<1>0. /\ disk \in [Files -> Contents]
      /\ cache \in [Files -> Contents \union {None}]
      /\ saved \in [Files -> Contents \union {None}]
  BY ContentsAre
<1> USE DEF Limits
<1>1. CASE BeginRun \/ EndRun \/ UNCHANGED vars
  BY <1>1 DEF BeginRun, EndRun, vars, calls
<1>2. CASE Abandon
  <2>1. \A s \in Slots : left'[s] \in [Files -> Contents \union {None}]
    BY <1>0, <1>2 DEF Abandon
  <2>2. /\ got' = [s \in Slots |-> Nothing] /\ wrote' = got'
        /\ handled' = [s \in Slots |-> 0] /\ run' = FALSE /\ pos' = pos
        /\ left' = [s \in Slots |-> left'[s]]
    BY <1>2 DEF Abandon
  <2>3. /\ got' \in [Slots -> [Index -> Contents \union {None}]]
        /\ wrote' \in [Slots -> [Index -> Contents \union {None}]]
        /\ left' \in [Slots -> [Files -> Contents \union {None}]]
    BY <2>1, <2>2 DEF Nothing
  <2>4. handled' \in [Slots -> 0..MaxLen]
    BY <2>2, ToolBatchConstants
  <2> QED
    BY <2>2, <2>3, <2>4
<1>3. ASSUME NEW s \in Slots, BeginBatch(s) PROVE Limits'
  BY <1>3 DEF BeginBatch
<1>4. ASSUME NEW s \in Slots, AnswerFromCache(s) \/ CreateTask(s) \/ StartInLoop(s)
      PROVE  Limits'
  <2>1. /\ UNCHANGED <<run, wrote, handled, left>>
        /\ Goes(s) \/ UNCHANGED pos
    BY <1>4 DEF AnswerFromCache, CreateTask, StartInLoop
  <2>2. pos[s] \in Calls(s)
    <3>1. Len(batch[s]) \in Nat
      BY ToolBatchConstants DEF IInv, Types
    <3> QED
      BY <1>4, <3>1 DEF AnswerFromCache, CreateTask, StartInLoop, Dispatching, Calls
  <2>3. pos' \in [Slots -> 1..(MaxLen + 1)]
    <3>1. pos[s] \in 1..MaxLen
      BY <2>2, CallsAre DEF IInv, Index
    <3>2. Goes(s) => pos' = [pos EXCEPT ![s] = pos[s] + 1]
      BY DEF Goes
    <3>3. pos \in [Slots -> 1..(MaxLen + 1)]
      BY DEF Limits
    <3>4. [pos EXCEPT ![s] = pos[s] + 1] \in [Slots -> 1..(MaxLen + 1)]
      BY <3>1, <3>3, MovesOn
    <3> QED
      BY <2>1, <3>1, <3>2, <3>3, <3>4
  <2>4. got' \in [Slots -> [Index -> Contents \union {None}]]
    <3>1. got \in [Slots -> [Index -> Contents \union {None}]] /\ pos[s] \in Index
      BY <2>2, CallsAre DEF IInv, Limits
    <3>2. CASE UNCHANGED got
      BY <3>1, <3>2
    <3>3. CASE AnswerFromCache(s) /\ ~UNCHANGED got
      <4>1. PICK f \in Files : got' = [got EXCEPT ![s][pos[s]] = cache[f]]
        BY <3>3 DEF AnswerFromCache
      <4>2. cache[f] \in Contents \union {None}
        BY <1>0
      <4> QED
        BY <3>1, <4>1, <4>2, FillsIn
    <3> QED
      BY <1>4, <3>2, <3>3 DEF CreateTask, StartInLoop
  <2> QED
    BY <2>1, <2>3, <2>4
<1>5. ASSUME NEW s \in Slots, RecordRead(s) \/ Invalidate(s) \/ HandleShell(s)
      PROVE  Limits'
  <2>1. Handling(s)
    BY <1>5 DEF RecordRead, Invalidate, HandleShell
  <2>2. handled[s] < Len(batch[s]) /\ Len(batch[s]) <= MaxLen /\ Len(batch[s]) \in Nat
    <3>1. batch[s] = <<>> \/ batch[s] \in Batches
      BY DEF IInv, Types
    <3>2. Len(<<>>) = 0
      OBVIOUS
    <3> QED
      BY <2>1, <3>1, <3>2, ToolBatchConstants DEF Handling
  <2>3. handled' \in [Slots -> 0..MaxLen]
    <3>1. handled \in [Slots -> 0..MaxLen] /\ handled[s] + 1 \in 0..MaxLen
      BY <2>2, ToolBatchConstants DEF Limits
    <3> QED
      BY <2>1, <3>1 DEF Handling
  <2> QED
    BY <2>1, <2>3 DEF Handling
<1>6. ASSUME NEW s \in Slots, EndBatch(s) \/ EndOrphan(s) PROVE Limits'
  <2>1. Frees(s)
    BY <1>6 DEF EndBatch, EndOrphan
  <2>2. /\ Nothing \in [Index -> Contents \union {None}]
        /\ NoCache \in [Files -> Contents \union {None}]
        /\ 1 \in 1..(MaxLen + 1) /\ 0 \in 0..MaxLen
    BY ToolBatchConstants DEF Nothing, NoCache
  <2> QED
    BY <2>1, <2>2 DEF Frees
<1>7. ASSUME NEW s \in Slots, NEW k \in Calls(s), AcquireSemaphore(s, k) PROVE Limits'
  BY <1>7 DEF AcquireSemaphore
<1>8. ASSUME NEW s \in Slots, NEW k \in Calls(s),
             FinishRead(s, k) \/ FinishWrite(s, k) \/ FailWrite(s, k) \/ FinishShell(s, k)
      PROVE  Limits'
  <2>1. Finishes(s, k)
    BY <1>8 DEF FinishRead, FinishWrite, FailWrite, FinishShell
  <2>2. k \in Index /\ batch[s][k].file \in Files
    BY CallsAre DEF IInv
  <2>3. pos' \in [Slots -> 1..(MaxLen + 1)]
    <3>1. pos' = [pos EXCEPT ![s] = IF k = pos[s] THEN pos[s] + 1 ELSE pos[s]]
          /\ k \in 1..MaxLen
      BY <2>1, <2>2 DEF Finishes, Index
    <3>2. pos \in [Slots -> 1..(MaxLen + 1)] /\ [pos EXCEPT ![s] = pos[s]] = pos
      BY DEF Limits
    <3>3. CASE k = pos[s]
      <4>1. [pos EXCEPT ![s] = pos[s] + 1] \in [Slots -> 1..(MaxLen + 1)]
        BY <3>1, <3>2, <3>3, MovesOn
      <4> QED
        BY <3>1, <3>3, <4>1
    <3> QED
      BY <3>1, <3>2, <3>3
  <2>4. got' \in [Slots -> [Index -> Contents \union {None}]]
    <3>1. disk[batch[s][k].file] \in Contents
      BY <1>0, <2>2
    <3>2. CASE FinishRead(s, k)
      <4>1. PICK c \in {None, disk[batch[s][k].file]} :
              got' = [got EXCEPT ![s][k] = IF Attended(s) THEN c ELSE None]
        BY <3>2 DEF FinishRead
      <4>2. (IF Attended(s) THEN c ELSE None) \in Contents \union {None}
        BY <3>1
      <4> QED
        BY <2>2, <4>1, <4>2, FillsIn
    <3> QED
      BY <1>8, <3>2 DEF FinishWrite, FailWrite, FinishShell
  <2>5. wrote' \in [Slots -> [Index -> Contents \union {None}]]
    <3>1. disk[batch[s][k].file] \in Contents
      BY <1>0, <2>2
    <3>2. CASE FinishWrite(s, k)
      <4>1. disk[batch[s][k].file] + 1 \in Contents
        <5>1. PICK d \in Contents : d = disk[batch[s][k].file]
          BY <3>1
        <5>2. d < MaxChanges
          BY <3>2, <5>1 DEF FinishWrite
        <5>3. d + 1 \in Contents
          BY <5>2, ToolBatchConstants DEF Contents
        <5> QED
          BY <5>1, <5>3
      <4>2. wrote' = [wrote EXCEPT ![s][k] =
                        IF Attended(s) THEN disk[batch[s][k].file] + 1 ELSE None]
        BY <3>2 DEF FinishWrite
      <4> QED
        BY <2>2, <4>1, <4>2, FillsIn
    <3> QED
      BY <1>8, <3>2 DEF FinishRead, FailWrite, FinishShell
  <2> QED
    BY <2>1, <2>3, <2>4, <2>5 DEF Finishes
<1> QED
  BY <1>1, <1>2, <1>3, <1>4, <1>5, <1>6, <1>7, <1>8 DEF Next

(* A key never gets a second entry. *)
LEMMA OneEntryStep ==
  ASSUME IInv, OneEntryEach(cache), OneEntryEach(saved), [Next]_vars
  PROVE  OneEntryEach(cache)' /\ OneEntryEach(saved)'
<1>1. CASE BeginRun \/ EndRun \/ Abandon \/ UNCHANGED <<cache, saved>>
  BY <1>1 DEF BeginRun, EndRun, Abandon, OneEntryEach
<1>2. ASSUME NEW s \in Slots, RecordRead(s) \/ Invalidate(s) \/ HandleShell(s)
      PROVE  OneEntryEach(cache)' /\ OneEntryEach(saved)'
  <2>1. Handling(s) /\ saved' = saved
    BY <1>2 DEF RecordRead, Invalidate, HandleShell, Handling
  <2>2. OneEntryEach(saved)'
    BY <2>1 DEF OneEntryEach
  <2>3. handled[s] + 1 \in Calls(s)
    BY <2>1, ToolBatchConstants DEF Handling, Calls, IInv, Types
  <2>4. PICK h : h = ReadFrom(s, handled[s] + 1)
    OBVIOUS
  <2>5. h \in Files
    BY <2>3, <2>4, ReadFromAFile DEF IInv
  <2>6. CASE UNCHANGED cache
    BY <2>2, <2>6 DEF OneEntryEach
  <2>7. CASE \E c : cache' = [Without(cache, h) EXCEPT ![h] = c]
    <3>1. PICK c : cache' = [Without(cache, h) EXCEPT ![h] = c]
      BY <2>7
    <3>2. \A g \in Files : cache'[g] # None =>
            g = h \/ (Key[g] # Key[h] /\ cache'[g] = cache[g])
      BY <3>1 DEF Without
    <3> QED
      BY <2>2, <2>5, <3>2 DEF OneEntryEach
  <2>8. CASE \E f : cache' = Without(cache, f)
    <3>1. PICK f : cache' = Without(cache, f)
      BY <2>8
    <3>2. \A g \in Files : cache'[g] # None => cache'[g] = cache[g]
      BY <3>1 DEF Without
    <3> QED
      BY <2>2, <3>2 DEF OneEntryEach
  <2> QED
    BY <1>2, <2>4, <2>6, <2>7, <2>8 DEF RecordRead, Invalidate, HandleShell
<1>3. ASSUME NEW s \in Slots,
             \/ BeginBatch(s) \/ AnswerFromCache(s) \/ CreateTask(s) \/ StartInLoop(s)
             \/ EndBatch(s) \/ EndOrphan(s)
      PROVE  UNCHANGED <<cache, saved>>
  BY <1>3 DEF BeginBatch, AnswerFromCache, CreateTask, StartInLoop, EndBatch, EndOrphan, Frees
<1>4. ASSUME NEW s \in Slots, NEW k \in Calls(s),
             \/ AcquireSemaphore(s, k) \/ FinishRead(s, k)
             \/ FinishWrite(s, k) \/ FailWrite(s, k) \/ FinishShell(s, k)
      PROVE  UNCHANGED <<cache, saved>>
  BY <1>4 DEF AcquireSemaphore, FinishRead, FinishWrite, FailWrite, FinishShell, Finishes
<1>5. UNCHANGED vars => UNCHANGED <<cache, saved>>
  BY DEF vars
<1> QED
  BY <1>1, <1>2, <1>3, <1>4, <1>5 DEF Next

(* Every variable keeps its type. *)
THEOREM TypeCorrect == Spec => []TypeOK
<1> DEFINE Entries == OneEntryEach(cache) /\ OneEntryEach(saved)
<1>1. Init => Limits /\ Entries
  <2> SUFFICES ASSUME Init PROVE Limits /\ Entries
    OBVIOUS
  <2>1. 0 \in Contents /\ 1 \in 1..(MaxLen + 1) /\ 0 \in 0..MaxLen
    BY ToolBatchConstants DEF Contents
  <2>2. Limits
    BY <2>1 DEF Init, Limits, Nothing, NoCache
  <2>3. Entries
    BY DEF Init, OneEntryEach, NoCache
  <2> QED
    BY <2>2, <2>3
<1>2. IInv /\ CInv /\ Limits /\ Entries => TypeOK
  BY ContentsAre DEF IInv, Types, CInv, CacheTypes, Limits, TypeOK
<1>3. IInv /\ CInv /\ IInv' /\ CInv' /\ Limits /\ [Next]_vars => Limits'
  BY LimitsStep
<1>4. IInv /\ Entries /\ [Next]_vars => Entries'
  BY OneEntryStep
<1> QED
  BY <1>1, <1>2, <1>3, <1>4, Invariance, CacheInvariance, PTL DEF Spec
=============================================================================
