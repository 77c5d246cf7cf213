-------------------------- MODULE Scheduler_proofs --------------------------
(***************************************************************************)
(* Why a one-shot job fires at most once, for any numbers of callers,      *)
(* tasks, threads and starts, as long as nobody resumes it: the inductive  *)
(* invariant IInv behind FiresAtMostOnce and NeverForgotten.  (A resume    *)
(* may write a stale job back; see the README.)  Then, whatever users and  *)
(* callbacks do, why somebody writes for whoever awaits a save (WInv), and *)
(* why no schedule of a periodic job goes on unseen and the job is         *)
(* scheduled exactly when it is enabled, with the exceptions that          *)
(* overlapping calls bring (MInv).                                         *)
(***************************************************************************)
EXTENDS Scheduler, FiniteSetTheorems, TLAPS

WriteRecords == [by : Tasks \union Callers \union {None},
                 enabled : BOOLEAN, fired : BOOLEAN, busy : BOOLEAN]
CallRecords == [op : Ops \union {"none"}, obj : Objects \union {None}, saved : BOOLEAN]

Types ==
  /\ registered \in Objects \union {None}
  /\ enabled \in [Objects -> BOOLEAN] /\ fired \in [Objects -> BOOLEAN]
  /\ slot \in Tasks \union {None}
  /\ pc \in [Tasks -> TaskStates] /\ of \in [Tasks -> Objects \union {None}]
  /\ call \in [Callers -> CallRecords]
  /\ writes \in [Threads -> WriteRecords]
  /\ disk \in [enabled : BOOLEAN, fired : BOOLEAN] \union {None}
  /\ fires \in Nat

(* What lives has an object, and so has a call. *)
HasObject ==
  /\ \A t \in Tasks : Live(t) => of[t] \in Objects
  /\ \A c \in Callers : call[c] # NoCall => call[c].op \in {"add", "pause"} /\ call[c].obj \in Objects

(* A write that would let the job fire again once it is loaded. *)
Stale(w) == w.busy /\ w.enabled /\ ~w.fired

(* Whoever has a write in flight awaits it; only add_job writes a job that  *)
(* has not fired and is enabled.                                            *)
Writers ==
  \A h \in Threads :
    /\ ~writes[h].busy => writes[h].by = None
    /\ writes[h].by \in Tasks => pc[writes[h].by] = "saving" /\ writes[h].fired
    /\ writes[h].by \in Callers =>
         call[writes[h].by] # NoCall /\ ~call[writes[h].by].saved
    /\ Stale(writes[h]) =>
         writes[h].by \in Callers /\ call[writes[h].by].op = "add"

OneWriteEach ==
  \A h, k \in Threads : writes[h].by = writes[k].by /\ writes[h].by # None => h = k

(* While the job is added there is no task of it, and nobody else adds it. *)
Adding ==
  \A c \in Callers : call[c].op = "add" =>
    /\ \A t \in Tasks : ~Live(t)
    /\ fires = 0 /\ life # "new"
    /\ \A d \in Callers : call[d].op = "add" => d = c

(* Before that there is no trace of it. *)
Untried ==
  life = "new" =>
    /\ disk = None /\ registered = None /\ slot = None /\ fires = 0
    /\ \A t \in Tasks : ~Live(t)
    /\ \A c \in Callers : call[c] = NoCall
    /\ \A h \in Threads : ~writes[h].busy

OneTask == \A t, u \in Tasks : Live(t) /\ Live(u) => t = u

DiskDone == disk # None => disk.fired \/ ~disk.enabled

(* The file says that the job has fired before the callback begins. *)
Persisted == \A t \in Tasks : pc[t] \in {"saved", "callback"} => DiskDone

AfterFiring ==
  fires > 0 => fires = 1 /\ DiskDone /\ \A t \in Tasks : Live(t) => pc[t] = "callback"

IInv ==
  /\ Types /\ HasObject /\ Writers /\ OneWriteEach /\ Adding /\ Untried /\ OneTask
  /\ Persisted /\ AfterFiring

(* A one-shot job that nobody resumes. *)
Scope == OneShot /\ "resume" \notin Ops

(* Once the job has fired, or while a task of it lives, no write is stale. *)
LEMMA NothingStale ==
  ASSUME IInv, fires > 0 \/ \E t \in Tasks : Live(t)
  PROVE  \A h \in Threads : ~Stale(writes[h])
<1> SUFFICES ASSUME NEW h \in Threads, Stale(writes[h]) PROVE FALSE
  OBVIOUS
<1>1. writes[h].by \in Callers /\ call[writes[h].by].op = "add"
  BY DEF IInv, Writers
<1> QED
  BY <1>1 DEF IInv, Adding

(* The initial state has the invariant. *)
LEMMA InitInvariant == Init => IInv
<1> SUFFICES ASSUME Init PROVE IInv
  OBVIOUS
<1> USE SchedulerConstants DEF Init
<1>1. /\ NoCall \in CallRecords /\ NoWrite \in WriteRecords /\ "none" \in TaskStates
  BY DEF NoCall, NoWrite, CallRecords, WriteRecords, TaskStates
<1>2. Types
  BY <1>1 DEF Types
<1>3. HasObject /\ Adding /\ OneTask /\ Persisted /\ AfterFiring
  BY DEF HasObject, Adding, OneTask, Persisted, AfterFiring, Live, NoCall
<1>4. Writers /\ OneWriteEach /\ Untried
  BY DEF Writers, OneWriteEach, Untried, NoWrite, Stale, Live, NoCall
<1> QED
  BY <1>2, <1>3, <1>4 DEF IInv

-----------------------------------------------------------------------------
(* What a cancellation does. *)

(* The registered task dies, or goes on with its callback. *)
LEMMA Cancelling ==
  ASSUME Types, NEW p \in AfterCancel(slot)
  PROVE  /\ p \in [Tasks -> TaskStates]
         /\ \A t \in Tasks : t # slot => p[t] = pc[t]
         /\ slot \in Tasks => p[slot] = "none" \/ (pc[slot] = "callback" /\ p[slot] = "callback")
  BY SchedulerConstants DEF Types, AfterCancel, TaskStates

(* Its write is dropped or goes on for nobody. *)
LEMMA Orphaning ==
  ASSUME Types, NEW w \in WritesAfterCancel(slot)
  PROVE  /\ w \in [Threads -> WriteRecords]
         /\ \A h \in Threads :
              \/ w[h] = writes[h] /\ (slot = None \/ writes[h].by # slot)
              \/ writes[h].by = slot /\ w[h].by = None /\ ~w[h].busy
              \/ /\ writes[h].by = slot /\ w[h].by = None /\ w[h].busy = writes[h].busy
                 /\ w[h].enabled = writes[h].enabled /\ w[h].fired = writes[h].fired
<1>1. \A h \in Threads : writes[h] \in WriteRecords
  BY DEF Types
<1>2. \A h \in Threads : [writes[h] EXCEPT !.by = None] \in WriteRecords
  BY <1>1 DEF WriteRecords
<1>3. \A h \in Threads :
        /\ [writes[h] EXCEPT !.by = None].by = None
        /\ [writes[h] EXCEPT !.by = None].busy = writes[h].busy
        /\ [writes[h] EXCEPT !.by = None].enabled = writes[h].enabled
        /\ [writes[h] EXCEPT !.by = None].fired = writes[h].fired
  BY <1>1 DEF WriteRecords
<1>4. NoWrite \in WriteRecords /\ NoWrite.by = None /\ ~NoWrite.busy
  BY DEF NoWrite, WriteRecords
<1>5. CASE w = [h \in Threads |-> IF slot # None /\ writes[h].by = slot THEN NoWrite ELSE writes[h]]
  BY <1>1, <1>4, <1>5
<1>6. CASE w = [h \in Threads |->
             IF slot # None /\ writes[h].by = slot THEN [writes[h] EXCEPT !.by = None]
             ELSE writes[h]]
  BY <1>1, <1>2, <1>3, <1>6
<1> QED
  BY <1>5, <1>6 DEF WritesAfterCancel

-----------------------------------------------------------------------------
(* Whatever only ends tasks, calls and writes, or forgets the job, keeps    *)
(* the invariant.                                                           *)
LEMMA Retreat ==
  ASSUME IInv,
         pc' \in [Tasks -> TaskStates], writes' \in [Threads -> WriteRecords],
         call' \in [Callers -> CallRecords],
         enabled' \in [Objects -> BOOLEAN], fired' \in [Objects -> BOOLEAN],
         of' \in [Tasks -> Objects \union {None}],
         disk' \in {disk, None}, registered' \in {registered, None},
         slot' \in {slot, None}, life' = life, fires' = fires,
         \A t \in Tasks : (pc'[t] = pc[t] /\ of'[t] = of[t]) \/ pc'[t] \in {"none", "failed"},
         \A c \in Callers : call'[c] = call[c] \/ call'[c] = NoCall,
         \A h \in Threads :
           \/ /\ writes'[h] = writes[h]
              /\ writes[h].by \in Tasks => pc'[writes[h].by] = pc[writes[h].by]
              /\ writes[h].by \in Callers => call'[writes[h].by] = call[writes[h].by]
           \/ writes'[h].by = None /\ ~writes'[h].busy
           \/ /\ writes[h].by \in Tasks /\ writes'[h].by = None
              /\ writes'[h].busy = writes[h].busy
              /\ writes'[h].enabled = writes[h].enabled
              /\ writes'[h].fired = writes[h].fired
  PROVE  IInv'
<1> USE SchedulerConstants
<1>1. Types'
  BY DEF IInv, Types
<1>2. \A t \in Tasks : Live(t)' => Live(t) /\ pc'[t] = pc[t] /\ of'[t] = of[t]
  BY DEF Live
<1>3. \A c \in Callers : call'[c].op = "add" => call'[c] = call[c]
  BY DEF NoCall
<1>4. HasObject'
  BY <1>2 DEF IInv, HasObject
<1>5. Writers'
  <2> SUFFICES ASSUME NEW h \in Threads
               PROVE  /\ ~writes'[h].busy => writes'[h].by = None
                      /\ writes'[h].by \in Tasks =>
                           pc'[writes'[h].by] = "saving" /\ writes'[h].fired
                      /\ writes'[h].by \in Callers =>
                           call'[writes'[h].by] # NoCall /\ ~call'[writes'[h].by].saved
                      /\ Stale(writes'[h]) =>
                           writes'[h].by \in Callers /\ call'[writes'[h].by].op = "add"
    BY DEF Writers
  <2>1. CASE /\ writes'[h] = writes[h]
             /\ writes[h].by \in Tasks => pc'[writes[h].by] = pc[writes[h].by]
             /\ writes[h].by \in Callers => call'[writes[h].by] = call[writes[h].by]
    BY <2>1 DEF IInv, Writers
  <2>2. CASE writes'[h].by = None /\ ~writes'[h].busy
    BY <2>2 DEF Stale
  <2>3. CASE /\ writes[h].by \in Tasks /\ writes'[h].by = None
             /\ writes'[h].busy = writes[h].busy
             /\ writes'[h].enabled = writes[h].enabled
             /\ writes'[h].fired = writes[h].fired
    <3>1. writes[h].fired
      BY <2>3 DEF IInv, Writers
    <3> QED
      BY <2>3, <3>1 DEF Stale
  <2> QED
    BY <2>1, <2>2, <2>3
<1>6. OneWriteEach'
  <2>1. \A h \in Threads : writes'[h].by # None => writes'[h].by = writes[h].by
    OBVIOUS
  <2> QED
    BY <2>1 DEF IInv, OneWriteEach
<1>7. Adding'
  BY <1>2, <1>3 DEF IInv, Adding
<1>8. Untried'
  <2> SUFFICES ASSUME life' = "new" PROVE Untried'
    BY DEF Untried
  <2>1. life = "new"
    OBVIOUS
  <2>2. /\ disk = None /\ registered = None /\ slot = None /\ fires = 0
        /\ \A t \in Tasks : ~Live(t)
        /\ \A c \in Callers : call[c] = NoCall
        /\ \A h \in Threads : ~writes[h].busy
    BY <2>1 DEF IInv, Untried
  <2>3. \A h \in Threads : ~writes'[h].busy
    BY <2>2
  <2> QED
    BY <1>2, <2>2, <2>3 DEF Untried
<1>9. OneTask'
  BY <1>2 DEF IInv, OneTask
<1>10. DiskDone => DiskDone'
  BY DEF DiskDone
<1>11. Persisted'
  BY <1>2, <1>10 DEF IInv, Persisted
<1>12. AfterFiring'
  BY <1>2, <1>10 DEF IInv, AfterFiring
<1> QED
  BY <1>1, <1>4, <1>5, <1>6, <1>7, <1>8, <1>9, <1>11, <1>12 DEF IInv

(* Cancelling the registered task is such a step. *)
LEMMA CancelStep ==
  ASSUME IInv, pc' \in AfterCancel(slot), writes' \in WritesAfterCancel(slot),
         UNCHANGED <<enabled, fired, of, fires>>,
         call' \in [Callers -> CallRecords],
         \A c \in Callers : call'[c] = call[c] \/ (call'[c] = NoCall /\ call[c].saved),
         disk' \in {disk, None}, registered' \in {registered, None},
         slot' \in {slot, None}, life' = life
  PROVE  IInv'
<1>1. Types
  BY DEF IInv
<1>2. /\ pc' \in [Tasks -> TaskStates]
      /\ \A t \in Tasks : t # slot => pc'[t] = pc[t]
      /\ slot \in Tasks => pc'[slot] = "none" \/ (pc[slot] = "callback" /\ pc'[slot] = "callback")
  BY <1>1, Cancelling
<1>3. /\ writes' \in [Threads -> WriteRecords]
      /\ \A h \in Threads :
           \/ writes'[h] = writes[h] /\ (slot = None \/ writes[h].by # slot)
           \/ writes[h].by = slot /\ writes'[h].by = None /\ ~writes'[h].busy
           \/ /\ writes[h].by = slot /\ writes'[h].by = None /\ writes'[h].busy = writes[h].busy
              /\ writes'[h].enabled = writes[h].enabled /\ writes'[h].fired = writes[h].fired
  BY <1>1, Orphaning
<1>4. \A t \in Tasks : pc'[t] = pc[t] \/ pc'[t] \in {"none", "failed"}
  BY <1>2
<1>5. ASSUME NEW h \in Threads
      PROVE  \/ /\ writes'[h] = writes[h]
                /\ writes[h].by \in Tasks => pc'[writes[h].by] = pc[writes[h].by]
                /\ writes[h].by \in Callers => call'[writes[h].by] = call[writes[h].by]
             \/ writes'[h].by = None /\ ~writes'[h].busy
             \/ /\ writes[h].by \in Tasks /\ writes'[h].by = None
                /\ writes'[h].busy = writes[h].busy
                /\ writes'[h].enabled = writes[h].enabled
                /\ writes'[h].fired = writes[h].fired
  <2>1. writes[h].by \in Callers => call'[writes[h].by] = call[writes[h].by]
    BY DEF IInv, Writers
  <2>2. CASE writes'[h] = writes[h] /\ (slot = None \/ writes[h].by # slot)
    BY <1>2, <2>1, <2>2, SchedulerConstants
  <2>3. CASE writes'[h].by = None /\ ~writes'[h].busy
    BY <2>3
  <2>4. CASE /\ writes[h].by = slot /\ writes'[h].by = None /\ writes'[h].busy = writes[h].busy
             /\ writes'[h].enabled = writes[h].enabled /\ writes'[h].fired = writes[h].fired
    <3>1. CASE slot = None
      <4>1. writes'[h] = writes[h]
        BY <1>1, <1>3, <2>4, <3>1 DEF Types, WriteRecords
      <4> QED
        BY <4>1, <2>4, <3>1, SchedulerConstants
    <3>2. CASE slot \in Tasks
      BY <2>4, <3>2
    <3> QED
      BY <1>1, <3>1, <3>2 DEF Types
  <2> QED
    BY <1>3, <2>2, <2>3, <2>4
<1> QED
  BY <1>1, <1>2, <1>3, <1>4, <1>5, Retreat DEF Types

(* A task that is not in a save ends, perhaps with all trace of the job. *)
LEMMA TaskEnds ==
  ASSUME IInv, NEW t \in Tasks, pc[t] # "saving",
         pc' = [pc EXCEPT ![t] = "none"] \/ pc' = [pc EXCEPT ![t] = "failed"],
         UNCHANGED <<enabled, fired, of, call, writes, life, fires>>,
         disk' \in {disk, None}, registered' \in {registered, None}, slot' \in {slot, None}
  PROVE  IInv'
<1>1. Types
  BY DEF IInv
<1>2. /\ pc' \in [Tasks -> TaskStates]
      /\ \A u \in Tasks : u # t => pc'[u] = pc[u]
      /\ pc'[t] \in {"none", "failed"}
  BY <1>1 DEF Types, TaskStates
<1>3. \A h \in Threads : writes[h].by \in Tasks => pc'[writes[h].by] = pc[writes[h].by]
  BY <1>2 DEF IInv, Writers
<1> QED
  BY <1>1, <1>2, <1>3, Retreat DEF Types

(* A one-shot's task before its save and after its callback. *)
LEMMA TaskStepInvariant ==
  ASSUME IInv, Scope, NEW t \in Tasks,
         Begin(t) \/ LeaveLoop(t) \/ CallbackReturns(t) \/ CallbackRaises(t)
  PROVE  IInv'
<1>1. CASE Begin(t) /\ ~fired[of[t]]
  <2>1. /\ pc[t] = "ready" /\ pc' = [pc EXCEPT ![t] = "sleep"]
        /\ UNCHANGED <<registered, enabled, fired, slot, of, call, writes, disk, life, fires>>
    BY <1>1 DEF Begin, Scope, historyVars
  <2>2. /\ pc' \in [Tasks -> TaskStates] /\ pc'[t] = "sleep"
        /\ \A u \in Tasks : u # t => pc'[u] = pc[u]
    BY <2>1 DEF IInv, Types, TaskStates
  <2>3. \A u \in Tasks : Live(u)' <=> Live(u)
    BY <2>1, <2>2 DEF Live
  <2>4. Types' /\ HasObject'
    BY <2>1, <2>2, <2>3 DEF IInv, Types, HasObject
  <2>5. Writers' /\ OneWriteEach'
    BY <2>1, <2>2 DEF IInv, Writers, OneWriteEach
  <2>6. Adding' /\ Untried' /\ OneTask'
    BY <2>1, <2>3 DEF IInv, Adding, Untried, OneTask
  <2>7. Persisted'
    BY <2>1, <2>2 DEF IInv, Persisted, DiskDone
  <2>8. ~(fires > 0)
    BY <2>1 DEF IInv, AfterFiring, Live
  <2>9. AfterFiring'
    BY <2>1, <2>8 DEF AfterFiring
  <2> QED
    BY <2>4, <2>5, <2>6, <2>7, <2>9 DEF IInv
<1>2. CASE (Begin(t) /\ fired[of[t]]) \/ CallbackReturns(t)
  <2>1. /\ pc[t] \in {"ready", "callback"} /\ CleanUp(t)
        /\ UNCHANGED <<enabled, fired, of, call, writes, life, fires>>
    BY <1>2 DEF Begin, CallbackReturns, Scope, historyVars
  <2> QED
    BY <2>1, TaskEnds DEF CleanUp
<1>3. CASE LeaveLoop(t)
  BY <1>3 DEF LeaveLoop, MayFire, Scope
<1>4. CASE CallbackRaises(t)
  <2>1. /\ pc[t] = "callback" /\ pc' = Raises(t)
        /\ UNCHANGED <<registered, enabled, fired, slot, of, call, writes, disk, life, fires>>
    BY <1>4 DEF CallbackRaises, historyVars
  <2>2. pc' = [pc EXCEPT ![t] = "none"] \/ pc' = [pc EXCEPT ![t] = "failed"]
    BY <2>1 DEF Raises
  <2> QED
    BY <2>1, <2>2, TaskEnds
<1> QED
  BY <1>1, <1>2, <1>3, <1>4

(* The callback begins: the file knows, and nothing else could fire. *)
LEMMA CallbackStep ==
  ASSUME IInv, Scope, NEW t \in Tasks, Callback(t)
  PROVE  IInv'
<1>1. /\ pc[t] = "saved" /\ pc' = [pc EXCEPT ![t] = "callback"]
      /\ UNCHANGED <<registered, enabled, fired, slot, of, call, writes, disk, life>>
      /\ fires' = IF OneShot /\ fires < MaxFires THEN fires + 1 ELSE fires
  BY DEF Callback, BeginCallback
<1>2. /\ pc' \in [Tasks -> TaskStates] /\ pc'[t] = "callback"
      /\ \A u \in Tasks : u # t => pc'[u] = pc[u]
  BY <1>1 DEF IInv, Types, TaskStates
<1>3. \A u \in Tasks : Live(u)' <=> Live(u)
  BY <1>1, <1>2 DEF Live
<1>4. Live(t)
  BY <1>1 DEF Live
<1>5. fires = 0 /\ fires' = 1
  <2>1. ~(fires > 0)
    BY <1>1, <1>4 DEF IInv, AfterFiring
  <2> QED
    BY <1>1, <2>1 DEF Scope, MaxFires, IInv, Types
<1>6. Types' /\ HasObject'
  BY <1>1, <1>2, <1>3, <1>5 DEF IInv, Types, HasObject
<1>7. Writers' /\ OneWriteEach'
  BY <1>1, <1>2 DEF IInv, Writers, OneWriteEach
<1>8. Adding' /\ Untried' /\ OneTask'
  BY <1>1, <1>3, <1>4 DEF IInv, Adding, Untried, OneTask
<1>9. DiskDone /\ DiskDone'
  BY <1>1 DEF IInv, Persisted, DiskDone
<1>10. Persisted'
  BY <1>9 DEF Persisted
<1>11. AfterFiring'
  <2>1. \A u \in Tasks : Live(u) => u = t
    BY <1>4 DEF IInv, OneTask
  <2> QED
    BY <1>2, <1>3, <1>5, <1>9, <2>1 DEF AfterFiring
<1> QED
  BY <1>6, <1>7, <1>8, <1>10, <1>11 DEF IInv

(* A write is handed to an idle thread: nobody else's is touched. *)
LEMMA NewWrite ==
  ASSUME IInv, NEW who \in Tasks \union Callers, NEW e \in BOOLEAN, NEW f \in BOOLEAN,
         Save(writes, who, e, f),
         \A h \in Threads : writes[h].by # who,
         \A h \in Threads : writes[h].by \in Tasks => pc'[writes[h].by] = pc[writes[h].by],
         \A h \in Threads : writes[h].by \in Callers => call'[writes[h].by] = call[writes[h].by],
         who \in Tasks => pc'[who] = "saving" /\ f,
         who \in Callers => call'[who] # NoCall /\ ~call'[who].saved,
         e /\ ~f => who \in Callers /\ call'[who].op = "add"
  PROVE  writes' \in [Threads -> WriteRecords] /\ Writers' /\ OneWriteEach'
<1>1. writes \in [Threads -> WriteRecords]
  BY DEF IInv, Types
<1>2. PICK h \in Threads :
        /\ ~writes[h].busy
        /\ writes' = [writes EXCEPT ![h] =
             [by |-> who, enabled |-> e, fired |-> f, busy |-> TRUE]]
  BY Zenon DEF Save
<1>3. /\ writes' \in [Threads -> WriteRecords]
      /\ writes'[h] = [by |-> who, enabled |-> e, fired |-> f, busy |-> TRUE]
      /\ \A k \in Threads : k # h => writes'[k] = writes[k]
  <2>1. [by |-> who, enabled |-> e, fired |-> f, busy |-> TRUE] \in WriteRecords
    BY DEF WriteRecords
  <2> QED
    BY <1>1, <1>2, <2>1
<1>4. Writers'
  <2> SUFFICES ASSUME NEW k \in Threads
               PROVE  /\ ~writes'[k].busy => writes'[k].by = None
                      /\ writes'[k].by \in Tasks =>
                           pc'[writes'[k].by] = "saving" /\ writes'[k].fired
                      /\ writes'[k].by \in Callers =>
                           call'[writes'[k].by] # NoCall /\ ~call'[writes'[k].by].saved
                      /\ Stale(writes'[k]) =>
                           writes'[k].by \in Callers /\ call'[writes'[k].by].op = "add"
    BY DEF Writers
  <2>1. CASE k = h
    BY <2>1, <1>3 DEF Stale
  <2>2. CASE k # h
    BY <2>2, <1>3 DEF IInv, Writers
  <2> QED
    BY <2>1, <2>2
<1>5. OneWriteEach'
  <2> SUFFICES ASSUME NEW k \in Threads, NEW l \in Threads,
                      writes'[k].by = writes'[l].by, writes'[k].by # None, k # l
               PROVE  FALSE
    BY DEF OneWriteEach
  <2>1. CASE k = h
    BY <2>1, <1>3
  <2>2. CASE l = h
    BY <2>2, <1>3
  <2>3. CASE k # h /\ l # h
    BY <2>3, <1>3 DEF IInv, OneWriteEach
  <2> QED
    BY <2>1, <2>2, <2>3
<1> QED
  BY <1>3, <1>4, <1>5

(* The job fires: it is saved as fired. *)
LEMMA FireStep ==
  ASSUME IInv, Scope, NEW t \in Tasks, Fire(t)
  PROVE  IInv'
<1>1. /\ pc[t] = "sleep" /\ pc' = [pc EXCEPT ![t] = "saving"]
      /\ fired' = [fired EXCEPT ![of[t]] = TRUE]
      /\ Save(writes, t, enabled[of[t]], TRUE)
      /\ UNCHANGED <<registered, enabled, slot, of, call, disk, life, fires>>
  BY DEF Fire, MayFire, historyVars
<1>2. /\ pc' \in [Tasks -> TaskStates] /\ pc'[t] = "saving"
      /\ \A u \in Tasks : u # t => pc'[u] = pc[u]
  BY <1>1 DEF IInv, Types, TaskStates
<1>3. \A u \in Tasks : Live(u)' <=> Live(u)
  BY <1>1, <1>2 DEF Live
<1>4. Live(t) /\ of[t] \in Objects /\ enabled[of[t]] \in BOOLEAN
  BY <1>1 DEF Live, IInv, HasObject, Types
<1>5. \A h \in Threads : writes[h].by # t
  BY <1>1 DEF IInv, Writers
<1>6. \A h \in Threads : writes[h].by \in Tasks => pc'[writes[h].by] = pc[writes[h].by]
  BY <1>2, <1>5
<1>7. writes' \in [Threads -> WriteRecords] /\ Writers' /\ OneWriteEach'
  <2>1. t \notin Callers
    BY SchedulerConstants
  <2>2. call' = call
    BY <1>1
  <2> QED
    BY <1>1, <1>2, <1>4, <1>5, <1>6, <2>1, <2>2, NewWrite
<1>8. Types' /\ HasObject'
  BY <1>1, <1>2, <1>3, <1>7 DEF IInv, Types, HasObject
<1>9. ~(fires > 0) /\ life # "new"
  BY <1>1, <1>4 DEF IInv, AfterFiring, Untried
<1>10. Adding' /\ Untried' /\ OneTask' /\ AfterFiring'
  BY <1>1, <1>3, <1>9 DEF IInv, Adding, Untried, OneTask, AfterFiring
<1>11. Persisted'
  BY <1>1, <1>2 DEF IInv, Persisted, DiskDone
<1> QED
  BY <1>7, <1>8, <1>10, <1>11 DEF IInv

-----------------------------------------------------------------------------
(* The management calls. *)

(* pause_job writes the job as disabled. *)
LEMMA PauseStep ==
  ASSUME IInv, NEW c \in Callers, PauseJob(c)
  PROVE  IInv'
<1>1. /\ call[c] = NoCall /\ registered # None /\ "pause" \in Ops
      /\ enabled' = [enabled EXCEPT ![registered] = FALSE]
      /\ Save(writes, c, FALSE, fired[registered])
      /\ call' = [call EXCEPT ![c] = [op |-> "pause", obj |-> registered, saved |-> FALSE]]
      /\ UNCHANGED <<registered, fired, slot, pc, of, disk, life, fires>>
  BY DEF PauseJob, MayCall, Called, historyVars
<1>2. registered \in Objects /\ fired[registered] \in BOOLEAN
  BY <1>1 DEF IInv, Types
<1>3. /\ call' \in [Callers -> CallRecords]
      /\ call'[c] = [op |-> "pause", obj |-> registered, saved |-> FALSE]
      /\ \A d \in Callers : d # c => call'[d] = call[d]
  <2>1. [op |-> "pause", obj |-> registered, saved |-> FALSE] \in CallRecords
    BY <1>1, <1>2 DEF CallRecords
  <2> QED
    BY <1>1, <2>1 DEF IInv, Types
<1>4. call'[c].op = "pause" /\ call'[c].obj = registered /\ ~call'[c].saved /\ call'[c] # NoCall
  BY <1>3 DEF NoCall
<1>5. \A h \in Threads : writes[h].by # c
  BY <1>1 DEF IInv, Writers
<1>6. writes' \in [Threads -> WriteRecords] /\ Writers' /\ OneWriteEach'
  <2>1. c \notin Tasks
    BY SchedulerConstants
  <2>2. pc' = pc /\ \A h \in Threads : writes[h].by \in Callers => call'[writes[h].by] = call[writes[h].by]
    BY <1>1, <1>3, <1>5
  <2> QED
    BY <1>1, <1>2, <1>4, <1>5, <2>1, <2>2, NewWrite
<1>7. Types'
  BY <1>1, <1>3, <1>6 DEF IInv, Types
<1>8. HasObject'
  BY <1>1, <1>2, <1>3, <1>4 DEF IInv, HasObject, Live
<1>9. \A d \in Callers : call'[d].op = "add" => call[d].op = "add"
  BY <1>3, <1>4
<1>10. life # "new"
  BY <1>1 DEF IInv, Untried
<1>11. \A t \in Tasks : Live(t)' <=> Live(t)
  BY <1>1 DEF Live
<1>12. Adding' /\ Untried' /\ OneTask'
  BY <1>1, <1>9, <1>10, <1>11 DEF IInv, Adding, Untried, OneTask
<1>13. Persisted' /\ AfterFiring'
  BY <1>1, <1>11 DEF IInv, Persisted, AfterFiring, DiskDone
<1> QED
  BY <1>6, <1>7, <1>8, <1>12, <1>13 DEF IInv

(* add_job comes first, and writes the job as enabled and not fired. *)
LEMMA AddStep ==
  ASSUME IInv, Scope, NEW c \in Callers, AddJob(c)
  PROVE  IInv'
<1>1. life = "new" /\ life' = "live" /\ call[c] = NoCall /\ "add" \in Ops
  BY DEF AddJob, Scope, MayCall
<1>2. /\ disk = None /\ registered = None /\ slot = None /\ fires = 0
      /\ \A t \in Tasks : ~Live(t)
      /\ \A d \in Callers : call[d] = NoCall
      /\ \A h \in Threads : ~writes[h].busy
  BY <1>1 DEF IInv, Untried
<1>3. PICK o \in Objects \ InUse :
        /\ registered' = o
        /\ enabled' = [enabled EXCEPT ![o] = TRUE]
        /\ fired' = [fired EXCEPT ![o] = FALSE]
        /\ \E w \in {writes} : Save(w, c, TRUE, FALSE)
        /\ Called(c, "add", o)
  BY <1>2 DEF AddJob
<1>4. /\ Save(writes, c, TRUE, FALSE)
      /\ UNCHANGED <<slot, pc, disk, of, fires>>
      /\ call' = [call EXCEPT ![c] = [op |-> "add", obj |-> o, saved |-> FALSE]]
  BY <1>2, <1>3 DEF AddJob, Called
<1>5. /\ call' \in [Callers -> CallRecords]
      /\ call'[c] = [op |-> "add", obj |-> o, saved |-> FALSE]
      /\ \A d \in Callers : d # c => call'[d] = call[d]
  <2>1. [op |-> "add", obj |-> o, saved |-> FALSE] \in CallRecords
    BY <1>1 DEF CallRecords
  <2> QED
    BY <1>4, <2>1 DEF IInv, Types
<1>6. call'[c].op = "add" /\ call'[c].obj = o /\ ~call'[c].saved /\ call'[c] # NoCall
  BY <1>5 DEF NoCall
<1>7. \A h \in Threads : writes[h].by = None
  BY <1>2 DEF IInv, Writers
<1>8. writes' \in [Threads -> WriteRecords] /\ Writers' /\ OneWriteEach'
  <2>1. c \notin Tasks /\ c # None /\ None \notin Tasks /\ None \notin Callers
    BY SchedulerConstants
  <2> QED
    BY <1>4, <1>6, <1>7, <2>1, NewWrite
<1>9. Types'
  BY <1>3, <1>4, <1>5, <1>8 DEF IInv, Types
<1>10. \A t \in Tasks : ~Live(t)'
  BY <1>2, <1>4 DEF Live
<1>11. \A d \in Callers : d # c => call'[d] = NoCall
  BY <1>2, <1>5
<1>12. HasObject'
  BY <1>3, <1>6, <1>10, <1>11 DEF HasObject
<1>13. Adding'
  <2>1. \A d \in Callers : call'[d].op = "add" => d = c
    BY <1>11 DEF NoCall
  <2> QED
    BY <1>1, <1>2, <1>4, <1>10, <2>1 DEF Adding
<1>14. Untried' /\ OneTask' /\ AfterFiring'
  BY <1>1, <1>2, <1>4, <1>10 DEF Untried, OneTask, AfterFiring
<1>15. Persisted'
  BY <1>2, <1>4 DEF Persisted, DiskDone
<1> QED
  BY <1>8, <1>9, <1>12, <1>13, <1>14, <1>15 DEF IInv

(* A task is scheduled when none lives, nothing has fired and no stale      *)
(* write is under way.                                                      *)
LEMMA ScheduleStep ==
  ASSUME IInv, NEW o \in Objects, NEW late, Schedule(o, late),
         fires = 0, life # "new",
         \A t \in Tasks : ~Live(t),
         \A h \in Threads : ~Stale(writes[h]),
         call' \in [Callers -> CallRecords],
         \A d \in Callers : \/ call'[d] = call[d] /\ call[d].op # "add"
                            \/ call'[d] = NoCall /\ \A h \in Threads : writes[h].by # d,
         registered' \in Objects \union {None},
         enabled' \in [Objects -> BOOLEAN], fired' \in [Objects -> BOOLEAN],
         UNCHANGED <<disk, life, fires>>
  PROVE  IInv'
<1> USE SchedulerConstants
<1>1. Types
  BY DEF IInv
<1>2. PICK p \in AfterCancel(slot), t \in Tasks :
        /\ slot' = t /\ pc' = [p EXCEPT ![t] = "ready"]
        /\ of' = [of EXCEPT ![t] = o]
        /\ writes' \in WritesAfterCancel(slot)
  BY DEF Schedule
<1>3. \A h \in Threads : writes[h].by \notin Tasks
  BY DEF IInv, Writers, Live
<1>4. /\ p \in [Tasks -> TaskStates]
      /\ \A u \in Tasks : p[u] = pc[u] \/ p[u] = "none"
  <2>1. /\ p \in [Tasks -> TaskStates]
        /\ \A u \in Tasks : u # slot => p[u] = pc[u]
        /\ slot \in Tasks => p[slot] = "none" \/ (pc[slot] = "callback" /\ p[slot] = "callback")
    BY <1>1, Cancelling
  <2> QED
    BY <2>1
<1>5. /\ pc' \in [Tasks -> TaskStates] /\ pc'[t] = "ready"
      /\ \A u \in Tasks : u # t => pc'[u] = pc[u] \/ pc'[u] = "none"
  BY <1>2, <1>4 DEF TaskStates
<1>6. /\ writes' \in [Threads -> WriteRecords]
      /\ \A h \in Threads : \/ writes'[h] = writes[h]
                            \/ writes'[h].by = None /\ ~writes'[h].busy
  <2>1. /\ writes' \in [Threads -> WriteRecords]
        /\ \A h \in Threads :
             \/ writes'[h] = writes[h] /\ (slot = None \/ writes[h].by # slot)
             \/ writes[h].by = slot /\ writes'[h].by = None /\ ~writes'[h].busy
             \/ /\ writes[h].by = slot /\ writes'[h].by = None
                /\ writes'[h].busy = writes[h].busy
                /\ writes'[h].enabled = writes[h].enabled
                /\ writes'[h].fired = writes[h].fired
    BY <1>1, <1>2, Orphaning
  <2>2. ASSUME NEW h \in Threads, writes[h].by = slot, writes'[h].by = None,
               writes'[h].busy = writes[h].busy,
               writes'[h].enabled = writes[h].enabled,
               writes'[h].fired = writes[h].fired
        PROVE  writes'[h] = writes[h]
    <3>1. writes[h].by = None
      BY <1>1, <1>3, <2>2 DEF Types
    <3> QED
      BY <1>1, <2>1, <2>2, <3>1 DEF Types, WriteRecords
  <2> QED
    BY <2>1, <2>2
<1>7. of' \in [Tasks -> Objects \union {None}] /\ of'[t] = o
  BY <1>1, <1>2 DEF Types
<1>8. \A u \in Tasks : Live(u)' => u = t
  BY <1>5 DEF Live
<1>9. \A d \in Callers : call'[d].op # "add"
  BY DEF NoCall
<1>10. Types'
  BY <1>1, <1>2, <1>5, <1>6, <1>7 DEF Types
<1>11. HasObject'
  BY <1>7, <1>8 DEF IInv, HasObject
<1>12. Writers'
  <2> SUFFICES ASSUME NEW h \in Threads
               PROVE  /\ ~writes'[h].busy => writes'[h].by = None
                      /\ writes'[h].by \in Tasks =>
                           pc'[writes'[h].by] = "saving" /\ writes'[h].fired
                      /\ writes'[h].by \in Callers =>
                           call'[writes'[h].by] # NoCall /\ ~call'[writes'[h].by].saved
                      /\ Stale(writes'[h]) =>
                           writes'[h].by \in Callers /\ call'[writes'[h].by].op = "add"
    BY DEF Writers
  <2>1. CASE writes'[h].by = None /\ ~writes'[h].busy
    BY <2>1 DEF Stale
  <2>2. CASE writes'[h] = writes[h]
    BY <1>3, <2>2 DEF IInv, Writers
  <2> QED
    BY <1>6, <2>1, <2>2
<1>13. OneWriteEach'
  BY <1>6 DEF IInv, OneWriteEach
<1>14. Adding' /\ Untried' /\ OneTask'
  BY <1>8, <1>9 DEF Adding, Untried, OneTask
<1>15. Persisted' /\ AfterFiring'
  <2>1. \A u \in Tasks : pc'[u] \notin {"saved", "callback"}
    BY <1>5, <1>8 DEF Live
  <2> QED
    BY <2>1 DEF Persisted, AfterFiring
<1> QED
  BY <1>10, <1>11, <1>12, <1>13, <1>14, <1>15 DEF IInv

(* add_job goes on after its save, with the first task of the job. *)
LEMMA AddedStep ==
  ASSUME IInv, NEW c \in Callers, AddJobSaved(c)
  PROVE  IInv'
<1>1. /\ call[c].op = "add" /\ call[c].saved /\ call[c] # NoCall
      /\ call' = [call EXCEPT ![c] = NoCall]
      /\ UNCHANGED <<registered, enabled, fired, disk, life, fires>>
  BY DEF AddJobSaved, Saved, Returns, Over, historyVars, NoCall
<1>2. /\ fires = 0 /\ life # "new" /\ \A t \in Tasks : ~Live(t)
      /\ \A d \in Callers : call[d].op = "add" => d = c
  BY <1>1 DEF IInv, Adding
<1>3. /\ call' \in [Callers -> CallRecords]
      /\ call'[c] = NoCall
      /\ \A d \in Callers : d # c => call'[d] = call[d]
  <2>1. NoCall \in CallRecords
    BY DEF NoCall, CallRecords
  <2> QED
    BY <1>1, <2>1 DEF IInv, Types
<1>4. \A h \in Threads : writes[h].by # c
  BY <1>1 DEF IInv, Writers
<1>5. \A h \in Threads : ~Stale(writes[h])
  BY <1>2, <1>4 DEF IInv, Writers
<1>6. \A d \in Callers : \/ call'[d] = call[d] /\ call[d].op # "add"
                         \/ call'[d] = NoCall /\ \A h \in Threads : writes[h].by # d
  BY <1>2, <1>3, <1>4
<1>7. CASE Schedule(call[c].obj, c \in overtaken)
  <2>1. call[c].obj \in Objects
    BY <1>1 DEF IInv, HasObject
  <2> QED
    BY <1>1, <1>2, <1>3, <1>5, <1>6, <1>7, <2>1, ScheduleStep DEF IInv, Types
<1>8. CASE UNCHANGED <<slot, pc, of, writes>>
  <2>1. \A h \in Threads : writes[h].by \in Callers => call'[writes[h].by] = call[writes[h].by]
    BY <1>3, <1>4
  <2> QED
    BY <1>1, <1>3, <1>8, <2>1, Retreat DEF IInv, Types
<1> QED
  BY <1>7, <1>8 DEF AddJobSaved

(* start loads the job, and schedules it unless it has fired. *)
LEMMA StartStep ==
  ASSUME IInv, Scope, Start
  PROVE  IInv'
<1>1. /\ \A t \in Tasks : ~Live(t)
      /\ \A c \in Callers : call[c] = NoCall
      /\ UNCHANGED <<call, life, fires>>
  BY DEF Start, MayStart
<1>2. CASE disk = None \/ disk.fired
  <2>1. /\ UNCHANGED <<registered, enabled, fired, slot, pc, of, writes>>
        /\ disk' \in {disk, None}
    BY <1>2 DEF Start, Scope
  <2> QED
    BY <1>1, <2>1, Retreat DEF IInv, Types
<1>3. CASE disk # None /\ ~disk.fired
  <2>1. PICK o \in Objects : Load(o)
    BY <1>3 DEF Start
  <2>2. disk \in [enabled : BOOLEAN, fired : BOOLEAN] /\ life # "new"
    BY <1>3 DEF IInv, Types, Untried
  <2>3. /\ registered' = o /\ UNCHANGED disk
        /\ enabled' \in [Objects -> BOOLEAN] /\ fired' \in [Objects -> BOOLEAN]
    BY <2>1, <2>2 DEF Load, IInv, Types
  <2>4. \A h \in Threads : ~Stale(writes[h])
    <3>1. \A c \in Callers : call[c].op # "add"
      BY <1>1 DEF NoCall
    <3> QED
      BY <3>1 DEF IInv, Writers
  <2>5. \A c \in Callers : call[c].op # "add"
    BY <1>1 DEF NoCall
  <2>6. CASE disk.enabled
    <3>1. fires = 0
      <4>1. ~DiskDone
        BY <1>3, <2>6 DEF DiskDone
      <4> QED
        BY <4>1 DEF IInv, AfterFiring, Types
    <3>2. Schedule(o, FALSE)
      BY <2>1, <2>6 DEF Load
    <3> QED
      BY <1>1, <2>2, <2>3, <2>4, <2>5, <3>1, <3>2, ScheduleStep DEF IInv, Types
  <2>7. CASE ~disk.enabled
    <3>1. UNCHANGED <<slot, pc, of, writes>>
      BY <2>1, <2>7 DEF Load
    <3>2. Types' /\ HasObject' /\ Writers' /\ OneWriteEach' /\ Adding'
      BY <1>1, <2>3, <3>1
         DEF IInv, Types, HasObject, Writers, OneWriteEach, Adding, Live
    <3>3. Untried' /\ OneTask' /\ Persisted' /\ AfterFiring'
      BY <1>1, <2>2, <2>3, <3>1
         DEF IInv, Untried, OneTask, Persisted, AfterFiring, DiskDone, Live
    <3> QED
      BY <3>2, <3>3 DEF IInv
  <2> QED
    BY <2>6, <2>7
<1> QED
  BY <1>2, <1>3

-----------------------------------------------------------------------------
(* A write lands: the file is not stale unless the job has no task yet. *)
LEMMA LandStep ==
  ASSUME IInv, NEW h \in Threads, WriteLands(h)
  PROVE  IInv'
<1> USE SchedulerConstants
<1> DEFINE who == writes[h].by
<1>1. /\ writes[h].busy
      /\ disk' = [enabled |-> writes[h].enabled, fired |-> writes[h].fired]
      /\ writes' = [writes EXCEPT ![h] = NoWrite]
      /\ pc' = IF who \in Tasks THEN [pc EXCEPT ![who] = "saved"] ELSE pc
      /\ call' = IF who \in Callers THEN [call EXCEPT ![who].saved = TRUE] ELSE call
      /\ UNCHANGED <<registered, enabled, fired, slot, of, life, fires>>
  BY DEF WriteLands, Done, historyVars
<1>2. Types /\ writes[h] \in WriteRecords
  BY DEF IInv, Types
<1>3. /\ writes' \in [Threads -> WriteRecords]
      /\ ~writes'[h].busy /\ writes'[h].by = None
      /\ \A k \in Threads : k # h => writes'[k] = writes[k]
  <2>1. NoWrite \in WriteRecords /\ ~NoWrite.busy /\ NoWrite.by = None
    BY DEF NoWrite, WriteRecords
  <2> QED
    BY <1>1, <1>2, <2>1 DEF Types
<1>4. /\ pc' \in [Tasks -> TaskStates]
      /\ \A t \in Tasks : t # who => pc'[t] = pc[t]
      /\ who \in Tasks => pc[who] = "saving" /\ pc'[who] = "saved" /\ writes[h].fired
  BY <1>1, <1>2 DEF IInv, Writers, Types, TaskStates
<1>5. \A t \in Tasks : Live(t)' <=> Live(t)
  BY <1>4 DEF Live
<1>6. /\ call' \in [Callers -> CallRecords]
      /\ \A c \in Callers : c # who => call'[c] = call[c]
      /\ \A c \in Callers : call'[c].op = call[c].op /\ call'[c].obj = call[c].obj
      /\ who \in Callers => call[who] # NoCall
  <2>1. CASE who \in Callers
    <3>1. call[who] \in CallRecords /\ call[who] # NoCall
      BY <1>2, <2>1 DEF IInv, Writers, Types
    <3>2. [call[who] EXCEPT !.saved = TRUE] \in CallRecords
      BY <3>1 DEF CallRecords
    <3>3. /\ [call[who] EXCEPT !.saved = TRUE].op = call[who].op
          /\ [call[who] EXCEPT !.saved = TRUE].obj = call[who].obj
      BY <3>1 DEF CallRecords
    <3>4. call' = [call EXCEPT ![who] = [call[who] EXCEPT !.saved = TRUE]]
      BY <1>1, <2>1
    <3> HIDE DEF who
    <3> QED
      BY <1>2, <2>1, <3>1, <3>2, <3>3, <3>4 DEF Types
  <2>2. CASE who \notin Callers
    BY <1>1, <1>2, <2>2 DEF Types
  <2> QED
    BY <2>1, <2>2
<1>7. \A c \in Callers : call[c] = NoCall => call'[c] = NoCall
  BY <1>6
<1>8. disk' \in [enabled : BOOLEAN, fired : BOOLEAN]
  BY <1>1, <1>2 DEF WriteRecords
<1>9. \A k \in Threads : k # h /\ writes[k].by # None => writes[k].by # who
  BY DEF IInv, OneWriteEach
<1>10. (fires > 0 \/ \E t \in Tasks : Live(t)) => DiskDone'
  <2> SUFFICES ASSUME fires > 0 \/ \E t \in Tasks : Live(t) PROVE DiskDone'
    OBVIOUS
  <2>1. ~Stale(writes[h])
    BY NothingStale
  <2>2. writes[h].fired \/ ~writes[h].enabled
    BY <1>1, <2>1 DEF Stale
  <2> QED
    BY <1>1, <2>2 DEF DiskDone
<1> HIDE DEF who
<1>11. Types'
  BY <1>1, <1>2, <1>3, <1>4, <1>6, <1>8 DEF Types
<1>12. HasObject'
  <2>1. \A c \in Callers : call'[c] # NoCall => call[c] # NoCall
    BY <1>7
  <2> QED
    BY <1>1, <1>5, <1>6, <2>1 DEF IInv, HasObject
<1>13. Writers'
  <2> SUFFICES ASSUME NEW k \in Threads
               PROVE  /\ ~writes'[k].busy => writes'[k].by = None
                      /\ writes'[k].by \in Tasks =>
                           pc'[writes'[k].by] = "saving" /\ writes'[k].fired
                      /\ writes'[k].by \in Callers =>
                           call'[writes'[k].by] # NoCall /\ ~call'[writes'[k].by].saved
                      /\ Stale(writes'[k]) =>
                           writes'[k].by \in Callers /\ call'[writes'[k].by].op = "add"
    BY DEF Writers
  <2>1. CASE k = h
    BY <2>1, <1>3 DEF Stale
  <2>2. CASE k # h
    <3>1. writes'[k] = writes[k]
      BY <2>2, <1>3
    <3>2. writes[k].by \in Tasks => pc'[writes[k].by] = pc[writes[k].by]
      BY <2>2, <1>4, <1>9
    <3>3. writes[k].by \in Callers => call'[writes[k].by] = call[writes[k].by]
      BY <2>2, <1>6, <1>9
    <3> QED
      BY <3>1, <3>2, <3>3 DEF IInv, Writers
  <2> QED
    BY <2>1, <2>2
<1>14. OneWriteEach'
  <2> SUFFICES ASSUME NEW k \in Threads, NEW l \in Threads,
                      writes'[k].by = writes'[l].by, writes'[k].by # None
               PROVE  k = l
    BY DEF OneWriteEach
  <2>1. k # h /\ l # h
    BY <1>3
  <2> QED
    BY <2>1, <1>3 DEF IInv, OneWriteEach
<1>15. Adding' /\ OneTask'
  BY <1>1, <1>5, <1>6 DEF IInv, Adding, OneTask
<1>16. Untried'
  BY <1>1 DEF IInv, Untried
<1>17. Persisted'
  <2> SUFFICES ASSUME NEW t \in Tasks, pc'[t] \in {"saved", "callback"} PROVE DiskDone'
    BY DEF Persisted
  <2>1. Live(t)
    BY <1>5 DEF Live
  <2> QED
    BY <2>1, <1>10
<1>18. AfterFiring'
  <2> SUFFICES ASSUME fires > 0 PROVE AfterFiring'
    BY <1>1 DEF AfterFiring
  <2>1. \A t \in Tasks : Live(t) => pc[t] = "callback" /\ t # who
    BY <1>4 DEF IInv, AfterFiring
  <2> QED
    BY <1>1, <1>4, <1>5, <1>10, <2>1 DEF IInv, AfterFiring
<1> QED
  BY <1>11, <1>12, <1>13, <1>14, <1>15, <1>16, <1>17, <1>18 DEF IInv

(* A write fails, and whoever awaits it. *)
LEMMA FailStep ==
  ASSUME IInv, NEW h \in Threads, WriteFails(h)
  PROVE  IInv'
<1> USE SchedulerConstants
<1> DEFINE who == writes[h].by
<1>1. /\ writes' = [writes EXCEPT ![h] = NoWrite]
      /\ pc' = IF who \in Tasks THEN Raises(who) ELSE pc
      /\ call' = IF who \in Callers THEN [call EXCEPT ![who] = NoCall] ELSE call
      /\ UNCHANGED <<registered, enabled, fired, slot, of, disk, life, fires>>
  BY DEF WriteFails, Done, Over, historyVars
<1>2. Types
  BY DEF IInv
<1>3. /\ writes' \in [Threads -> WriteRecords]
      /\ ~writes'[h].busy /\ writes'[h].by = None
      /\ \A k \in Threads : k # h => writes'[k] = writes[k]
  <2>1. NoWrite \in WriteRecords /\ ~NoWrite.busy /\ NoWrite.by = None
    BY DEF NoWrite, WriteRecords
  <2> QED
    BY <1>1, <1>2, <2>1 DEF Types
<1>4. /\ pc' \in [Tasks -> TaskStates]
      /\ \A t \in Tasks : t # who => pc'[t] = pc[t]
      /\ who \in Tasks => pc'[who] \in {"none", "failed"}
  BY <1>1, <1>2 DEF Raises, Types, TaskStates
<1>5. /\ call' \in [Callers -> CallRecords]
      /\ \A c \in Callers : c # who => call'[c] = call[c]
      /\ who \in Callers => call'[who] = NoCall
  <2>1. NoCall \in CallRecords
    BY DEF NoCall, CallRecords
  <2> QED
    BY <1>1, <1>2, <2>1 DEF Types
<1>6. \A k \in Threads : k # h /\ writes[k].by # None => writes[k].by # who
  BY DEF IInv, OneWriteEach
<1> HIDE DEF who
<1>7. ASSUME NEW k \in Threads
      PROVE  \/ /\ writes'[k] = writes[k]
                /\ writes[k].by \in Tasks => pc'[writes[k].by] = pc[writes[k].by]
                /\ writes[k].by \in Callers => call'[writes[k].by] = call[writes[k].by]
             \/ writes'[k].by = None /\ ~writes'[k].busy
  <2>1. CASE k = h
    BY <2>1, <1>3
  <2>2. CASE k # h
    BY <2>2, <1>3, <1>4, <1>5, <1>6
  <2> QED
    BY <2>1, <2>2
<1>8. \A t \in Tasks : pc'[t] = pc[t] \/ pc'[t] \in {"none", "failed"}
  BY <1>4
<1>9. \A c \in Callers : call'[c] = call[c] \/ call'[c] = NoCall
  BY <1>5
<1> QED
  BY <1>1, <1>2, <1>3, <1>4, <1>5, <1>7, <1>8, <1>9, Retreat DEF Types

(* The service stops, the process dies, a job is removed or a pause ends. *)
LEMMA StopStep ==
  ASSUME IInv, Stop \/ Stopped \/ Crash
  PROVE  IInv'
<1> USE SchedulerConstants
<1>1. Types
  BY DEF IInv
<1>2. CASE Stop
  BY <1>1, <1>2, CancelStep DEF Stop, historyVars, Types
<1>3. CASE Stopped
  <2>1. /\ slot' = None /\ registered' = None
        /\ slot # None => ~Live(slot)
        /\ pc' = IF slot = None THEN pc ELSE [pc EXCEPT ![slot] = "none"]
        /\ UNCHANGED <<enabled, fired, of, call, writes, disk, life, fires>>
    BY <1>3 DEF Stopped, historyVars
  <2>2. /\ pc' \in [Tasks -> TaskStates]
        /\ \A t \in Tasks : t # slot => pc'[t] = pc[t]
        /\ slot \in Tasks => pc'[slot] = "none"
    BY <1>1, <2>1 DEF Types, TaskStates
  <2>3. \A h \in Threads : writes[h].by \in Tasks => writes[h].by # slot
    BY <2>1 DEF IInv, Writers, Live
  <2>4. \A h \in Threads : writes[h].by \in Tasks => pc'[writes[h].by] = pc[writes[h].by]
    BY <2>2, <2>3
  <2>5. \A t \in Tasks : pc'[t] = pc[t] \/ pc'[t] \in {"none", "failed"}
    BY <2>2
  <2> QED
    BY <1>1, <2>1, <2>2, <2>4, <2>5, Retreat DEF Types
<1>4. CASE Crash
  <2>1. /\ registered' = None /\ slot' = None
        /\ pc' = [t \in Tasks |-> "none"] /\ of' = [t \in Tasks |-> None]
        /\ enabled' = [o \in Objects |-> FALSE] /\ fired' = [o \in Objects |-> FALSE]
        /\ call' = [c \in Callers |-> NoCall]
        /\ writes' = [h \in Threads |-> NoWrite]
        /\ UNCHANGED <<disk, life, fires>>
    BY <1>4 DEF Crash, NothingInMemory, historyVars
  <2>2. NoCall \in CallRecords /\ NoWrite \in WriteRecords
    BY DEF NoCall, CallRecords, NoWrite, WriteRecords
  <2>3. \A h \in Threads : writes'[h].by = None /\ ~writes'[h].busy
    BY <2>1 DEF NoWrite
  <2>4. pc' \in [Tasks -> TaskStates]
    BY <2>1 DEF TaskStates
  <2> QED
    BY <1>1, <2>1, <2>2, <2>3, <2>4, Retreat DEF Types
<1> QED
  BY <1>2, <1>3, <1>4

(* So do the calls that only cancel. *)
LEMMA CallStep ==
  ASSUME IInv, NEW c \in Callers, RemoveJob(c) \/ PauseJobSaved(c)
  PROVE  IInv'
<1>1. Types
  BY DEF IInv
<1>2. CASE RemoveJob(c)
  BY <1>1, <1>2, CancelStep DEF RemoveJob, PopTask, Types
<1>3. CASE PauseJobSaved(c)
  <2>1. /\ call[c].saved /\ call' = [call EXCEPT ![c] = NoCall]
        /\ pc' \in AfterCancel(slot) /\ slot' = None
        /\ writes' \in WritesAfterCancel(slot)
        /\ UNCHANGED <<registered, enabled, fired, of, disk, life, fires>>
    BY <1>3 DEF PauseJobSaved, Saved, PopTask, Returns, Over, historyVars
  <2>2. /\ call' \in [Callers -> CallRecords]
        /\ \A d \in Callers : call'[d] = call[d] \/ (call'[d] = NoCall /\ call[d].saved)
    <3>1. NoCall \in CallRecords
      BY DEF NoCall, CallRecords
    <3> QED
      BY <1>1, <2>1, <3>1 DEF Types
  <2> QED
    BY <2>1, <2>2, CancelStep
<1> QED
  BY <1>2, <1>3

(* A caller that never resumes has no resume to go on with. *)
LEMMA NoResume ==
  ASSUME IInv, Scope, NEW c \in Callers
  PROVE  ~ResumeJob(c) /\ ~ResumeJobSaved(c)
<1>1. ~ResumeJob(c)
  BY DEF Scope, ResumeJob, MayCall
<1>2. call[c].op # "resume"
  <2>1. call[c] = NoCall => call[c].op = "none"
    BY DEF NoCall
  <2> QED
    BY <2>1 DEF IInv, HasObject
<1> QED
  BY <1>1, <1>2 DEF ResumeJobSaved, Saved

(* Every step keeps the invariant. *)
LEMMA NextInvariant == Scope /\ IInv /\ [Next]_vars => IInv'
<1> SUFFICES ASSUME Scope, IInv, [Next]_vars PROVE IInv'
  OBVIOUS
<1>1. CASE Start \/ Stop \/ Stopped \/ Crash
  BY <1>1, StartStep, StopStep
<1>2. ASSUME NEW c \in Callers,
             AddJob(c) \/ RemoveJob(c) \/ PauseJob(c) \/ ResumeJob(c) \/ Continue(c)
      PROVE  IInv'
  BY <1>2, AddStep, CallStep, PauseStep, AddedStep, NoResume DEF Continue
<1>3. ASSUME NEW h \in Threads, WriteLands(h) \/ WriteFails(h) PROVE IInv'
  BY <1>3, LandStep, FailStep
<1>4. ASSUME NEW t \in Tasks, TaskStep(t) \/ CallbackRaises(t) PROVE IInv'
  BY <1>4, TaskStepInvariant, FireStep, CallbackStep DEF TaskStep
<1>5. CASE UNCHANGED vars
  <2>1. UNCHANGED <<registered, enabled, fired, slot, pc, of, call, writes, disk, life, fires>>
    BY <1>5 DEF vars
  <2> QED
    BY <2>1 DEF IInv, Types, HasObject, Writers, OneWriteEach, Adding, Untried, OneTask,
                Persisted, AfterFiring, DiskDone, Live
<1> QED
  BY <1>1, <1>2, <1>3, <1>4, <1>5 DEF Next

-----------------------------------------------------------------------------
(* The invariant holds in every reachable state of a one-shot job that      *)
(* nobody resumes.                                                          *)
THEOREM Invariance == ASSUME Scope PROVE Spec => []IInv
<1>1. IInv /\ [Next]_vars => IInv'
  BY NextInvariant
<1> QED
  BY <1>1, InitInvariant, PTL DEF Spec

(* However often the service crashes, stops and starts, a one-shot job that *)
(* nobody resumes fires at most once.                                       *)
THEOREM OneShotFiresOnce == ASSUME Scope PROVE Spec => []FiresAtMostOnce
<1>1. IInv => FiresAtMostOnce
  BY DEF IInv, AfterFiring, FiresAtMostOnce, Types
<1> QED
  BY <1>1, Invariance, PTL

(* Once its callback has begun, neither the file nor a write that is under  *)
(* way could make a later start fire it again.                              *)
THEOREM FiredIsPersisted == ASSUME Scope PROVE Spec => []NeverForgotten
<1>1. IInv => NeverForgotten
  <2> SUFFICES ASSUME IInv, fires > 0 PROVE NeverForgotten
    BY DEF NeverForgotten
  <2>1. DiskDone
    BY DEF IInv, AfterFiring
  <2>2. \A h \in Threads : ~Stale(writes[h])
    BY NothingStale
  <2> QED
    BY <2>1, <2>2 DEF NeverForgotten, DiskDone, Stale
<1> QED
  BY <1>1, Invariance, PTL

-----------------------------------------------------------------------------
(* Jobs of either kind, whatever its users and callbacks do: the state     *)
(* keeps its type, and whoever awaits a save has a thread that writes for  *)
(* it, and one only.                                                       *)
Waiting(x) ==
  \/ x \in Tasks /\ pc[x] = "saving"
  \/ x \in Callers /\ call[x] # NoCall /\ ~call[x].saved

Served ==
  /\ \A h \in Threads : ~writes[h].busy => writes[h].by = None
  /\ OneWriteEach
  /\ \A x \in Tasks \union Callers : Waiting(x) <=> \E h \in Threads : writes[h].by = x

Objectful ==
  /\ \A t \in Tasks : Live(t) => of[t] \in Objects
  /\ \A c \in Callers : call[c] # NoCall => call[c].obj \in Objects

Bounds ==
  /\ up \in {"down", "running", "stopping"}
  /\ starts \in 0..MaxStarts /\ life \in {"new", "live"}
  /\ fires \in 0..MaxFires

WInv == Types /\ Bounds /\ Objectful /\ Served

(* Writes go on or lose whoever awaits them, who then waits no more. *)
LEMMA ServedOn ==
  ASSUME WInv,
         \A h \in Threads : writes'[h] = writes[h] \/ writes'[h].by = None,
         \A x \in Tasks \union Callers :
           Waiting(x)' <=> Waiting(x) /\ \A h \in Threads : writes[h].by = x => writes'[h].by = x
  PROVE  Served'
<1>1. \A h \in Threads : writes'[h].by = None \/ writes'[h].by = writes[h].by
  OBVIOUS
<1>2. \A x \in Tasks \union Callers : x # None
  BY SchedulerConstants
<1>3. OneWriteEach'
  BY <1>1 DEF WInv, Served, OneWriteEach
<1>4. ASSUME NEW x \in Tasks \union Callers
      PROVE  Waiting(x)' <=> \E h \in Threads : writes'[h].by = x
  <2>1. ASSUME Waiting(x)' PROVE \E h \in Threads : writes'[h].by = x
    <3>1. Waiting(x) /\ \A h \in Threads : writes[h].by = x => writes'[h].by = x
      BY <2>1
    <3>2. PICK h \in Threads : writes[h].by = x
      BY <3>1 DEF WInv, Served
    <3> QED
      BY <3>1, <3>2
  <2>2. ASSUME NEW h \in Threads, writes'[h].by = x PROVE Waiting(x)'
    <3>1. writes[h].by = x
      BY <1>1, <1>2, <2>2
    <3>2. Waiting(x)
      BY <3>1 DEF WInv, Served
    <3>3. \A k \in Threads : writes[k].by = x => k = h
      BY <1>2, <3>1 DEF WInv, Served, OneWriteEach
    <3> QED
      BY <2>2, <3>2, <3>3
  <2> QED
    BY <2>1, <2>2
<1>5. \A h \in Threads : ~writes'[h].busy => writes'[h].by = None
  BY DEF WInv, Served
<1> QED
  BY <1>3, <1>4, <1>5 DEF Served

(* A save begins, by somebody who did not wait for one. *)
LEMMA ServedNew ==
  ASSUME WInv, NEW w \in [Threads -> WriteRecords], NEW who \in Tasks \union Callers,
         NEW e \in BOOLEAN, NEW f \in BOOLEAN, Save(w, who, e, f), ~Waiting(who),
         \A h \in Threads : w[h] = writes[h] \/ w[h].by = None,
         \A x \in Tasks \union Callers :
           Waiting(x)' <=>
             \/ x = who
             \/ Waiting(x) /\ \A h \in Threads : writes[h].by = x => w[h].by = x
  PROVE  writes' \in [Threads -> WriteRecords] /\ Served'
<1>1. PICK h \in Threads :
        ~w[h].busy /\ writes' = [w EXCEPT ![h] =
                        [by |-> who, enabled |-> e, fired |-> f, busy |-> TRUE]]
  BY DEF Save
<1>2. /\ writes' \in [Threads -> WriteRecords]
      /\ writes'[h].by = who /\ writes'[h].busy
      /\ \A k \in Threads : k # h => writes'[k] = w[k]
  BY <1>1 DEF WriteRecords
<1>3. \A k \in Threads : w[k].by = None \/ w[k].by = writes[k].by
  OBVIOUS
<1>4. \A x \in Tasks \union Callers : x # None
  BY SchedulerConstants
<1>5. \A k \in Threads : w[k].by # who
  <2>1. \A k \in Threads : writes[k].by # who
    BY DEF WInv, Served
  <2> QED
    BY <1>3, <1>4, <2>1
<1>6. w[h].by = None
  BY <1>1 DEF WInv, Served
<1>7. OneWriteEach'
  BY <1>2, <1>3, <1>5 DEF WInv, Served, OneWriteEach
<1>8. ASSUME NEW x \in Tasks \union Callers
      PROVE  Waiting(x)' <=> \E k \in Threads : writes'[k].by = x
  <2>1. CASE x = who
    BY <1>2, <2>1
  <2>2. CASE x # who
    <3>1. (\E k \in Threads : writes'[k].by = x) <=> (\E k \in Threads : w[k].by = x)
      BY <1>2, <1>4, <1>6, <2>2
    <3>2. ASSUME Waiting(x)' PROVE \E k \in Threads : w[k].by = x
      <4>1. Waiting(x) /\ \A k \in Threads : writes[k].by = x => w[k].by = x
        BY <2>2, <3>2
      <4>2. PICK k \in Threads : writes[k].by = x
        BY <4>1 DEF WInv, Served
      <4> QED
        BY <4>1, <4>2
    <3>3. ASSUME NEW k \in Threads, w[k].by = x PROVE Waiting(x)'
      <4>1. writes[k].by = x
        BY <1>3, <1>4, <3>3
      <4>2. Waiting(x)
        BY <4>1 DEF WInv, Served
      <4>3. \A m \in Threads : writes[m].by = x => m = k
        BY <1>4, <4>1 DEF WInv, Served, OneWriteEach
      <4> QED
        BY <3>3, <4>2, <4>3
    <3> QED
      BY <3>1, <3>2, <3>3
  <2> QED
    BY <2>1, <2>2
<1>9. \A k \in Threads : ~writes'[k].busy => writes'[k].by = None
  BY <1>2 DEF WInv, Served
<1> QED
  BY <1>2, <1>7, <1>8, <1>9 DEF Served

(* What a cancellation of the registered task leaves waiting. *)
LEMMA CancelWaiting ==
  ASSUME WInv, NEW p \in AfterCancel(slot), NEW w \in WritesAfterCancel(slot)
  PROVE  /\ p \in [Tasks -> TaskStates] /\ w \in [Threads -> WriteRecords]
         /\ \A t \in Tasks : p[t] = pc[t] \/ p[t] = "none"
         /\ \A h \in Threads : w[h] = writes[h] \/ w[h].by = None
         /\ \A t \in Tasks : p[t] = "saving" <=>
              pc[t] = "saving" /\ \A h \in Threads : writes[h].by = t => w[h].by = t
         /\ \A c \in Callers : \A h \in Threads : writes[h].by = c => w[h].by = c
<1>1. Types /\ \A t \in Tasks : t # None
  BY SchedulerConstants DEF WInv
<1>2. /\ p \in [Tasks -> TaskStates]
      /\ \A t \in Tasks : t # slot => p[t] = pc[t]
      /\ slot \in Tasks => p[slot] = "none" \/ (pc[slot] = "callback" /\ p[slot] = "callback")
  BY <1>1, Cancelling
<1>3. /\ w \in [Threads -> WriteRecords]
      /\ \A h \in Threads :
           \/ w[h] = writes[h] /\ (slot = None \/ writes[h].by # slot)
           \/ writes[h].by = slot /\ w[h].by = None
  BY <1>1, Orphaning
<1>4. \A t \in Tasks : p[t] = pc[t] \/ p[t] = "none"
  BY <1>2
<1>5. ASSUME NEW t \in Tasks
      PROVE  p[t] = "saving" <=>
               pc[t] = "saving" /\ \A h \in Threads : writes[h].by = t => w[h].by = t
  <2>1. CASE t = slot
    <3>1. pc[t] = "saving" => \E h \in Threads : writes[h].by = t
      BY DEF WInv, Served, Waiting
    <3>2. \A h \in Threads : writes[h].by = t => w[h].by = None
      BY <1>1, <1>3, <2>1
    <3> QED
      BY <1>1, <1>2, <2>1, <3>1, <3>2
  <2>2. CASE t # slot
    BY <1>2, <1>3, <2>2
  <2> QED
    BY <2>1, <2>2
<1>6. \A c \in Callers : c # slot
  BY <1>1, SchedulerConstants DEF Types
<1>7. \A c \in Callers : \A h \in Threads : writes[h].by = c => w[h].by = c
  BY <1>3, <1>6
<1> QED
  BY <1>2, <1>3, <1>4, <1>5, <1>7

(* _schedule_task: the new task awaits no save. *)
LEMMA ScheduleTypes ==
  ASSUME WInv, NEW o \in Objects, NEW late, Schedule(o, late)
  PROVE  /\ slot' \in Tasks /\ pc' \in [Tasks -> TaskStates]
         /\ of' \in [Tasks -> Objects \union {None}]
         /\ writes' \in [Threads -> WriteRecords]
         /\ \A t \in Tasks : Live(t)' => of'[t] \in Objects
         /\ \A h \in Threads : writes'[h] = writes[h] \/ writes'[h].by = None
         /\ \A t \in Tasks : pc'[t] = "saving" <=>
              pc[t] = "saving" /\ \A h \in Threads : writes[h].by = t => writes'[h].by = t
         /\ \A c \in Callers : \A h \in Threads : writes[h].by = c => writes'[h].by = c
<1>1. PICK p \in AfterCancel(slot), t \in Tasks :
        /\ p[t] = "none" /\ slot' = t
        /\ pc' = [p EXCEPT ![t] = "ready"] /\ of' = [of EXCEPT ![t] = o]
        /\ writes' \in WritesAfterCancel(slot)
  BY DEF Schedule
<1>2. PICK w \in WritesAfterCancel(slot) : w = writes'
  BY <1>1
<1>3. /\ p \in [Tasks -> TaskStates] /\ w \in [Threads -> WriteRecords]
      /\ \A u \in Tasks : p[u] = pc[u] \/ p[u] = "none"
      /\ \A h \in Threads : w[h] = writes[h] \/ w[h].by = None
      /\ \A u \in Tasks : p[u] = "saving" <=>
           pc[u] = "saving" /\ \A h \in Threads : writes[h].by = u => w[h].by = u
      /\ \A c \in Callers : \A h \in Threads : writes[h].by = c => w[h].by = c
  BY CancelWaiting
<1>4. /\ pc' \in [Tasks -> TaskStates] /\ pc'[t] = "ready"
      /\ \A u \in Tasks : u # t => pc'[u] = p[u]
  BY <1>1, <1>3 DEF TaskStates
<1>5. /\ of' \in [Tasks -> Objects \union {None}] /\ of'[t] = o
      /\ \A u \in Tasks : u # t => of'[u] = of[u]
  BY <1>1 DEF WInv, Types
<1>6. \A u \in Tasks : Live(u)' => of'[u] \in Objects
  BY <1>3, <1>4, <1>5 DEF WInv, Objectful, Live
<1>7. \A u \in Tasks : pc'[u] = "saving" <=> p[u] = "saving"
  BY <1>1, <1>4
<1> QED
  BY <1>1, <1>2, <1>3, <1>4, <1>5, <1>6, <1>7

(* Nobody begins or ends a save. *)
LEMMA StillServed ==
  ASSUME WInv, UNCHANGED <<call, writes>>,
         \A t \in Tasks : pc'[t] = "saving" <=> pc[t] = "saving"
  PROVE  Served'
<1>1. \A x \in Tasks \union Callers : Waiting(x)' <=> Waiting(x)
  BY DEF Waiting
<1> QED
  BY <1>1, ServedOn

(* The registered task is cancelled, or another one takes its place. *)
LEMMA CancelServed ==
  ASSUME WInv, call' = call,
         \A h \in Threads : writes'[h] = writes[h] \/ writes'[h].by = None,
         \A t \in Tasks : pc'[t] = "saving" <=>
           pc[t] = "saving" /\ \A h \in Threads : writes[h].by = t => writes'[h].by = t,
         \A c \in Callers : \A h \in Threads : writes[h].by = c => writes'[h].by = c
  PROVE  Served'
<1>1. \A x \in Tasks \union Callers :
        Waiting(x)' <=> Waiting(x) /\ \A h \in Threads : writes[h].by = x => writes'[h].by = x
  BY SchedulerConstants DEF Waiting
<1> QED
  BY <1>1, ServedOn

LEMMA InitSaves == Init => WInv
<1> SUFFICES ASSUME Init PROVE WInv
  OBVIOUS
<1>1. Types
  BY InitInvariant DEF IInv
<1>2. Bounds /\ Objectful
  BY SchedulerConstants DEF Init, Bounds, Objectful, Live, MaxFires
<1>3. \A h \in Threads : writes[h].by = None /\ ~writes[h].busy
  BY DEF Init, NoWrite
<1>4. \A x \in Tasks \union Callers : ~Waiting(x) /\ x # None
  BY SchedulerConstants DEF Init, Waiting
<1>5. Served
  BY <1>3, <1>4 DEF Served, OneWriteEach
<1> QED
  BY <1>1, <1>2, <1>5 DEF WInv

(* The service starts, stops and crashes. *)
LEMMA StartSaves ==
  ASSUME WInv, Start
  PROVE  WInv'
<1>1. /\ up' = "running" /\ starts' = starts + 1 /\ starts < MaxStarts
      /\ UNCHANGED <<call, life, fires>>
  BY DEF Start, MayStart
<1>2. Bounds'
  BY <1>1, SchedulerConstants DEF WInv, Bounds
<1>3. CASE UNCHANGED <<registered, enabled, fired, slot, pc, of, writes>> /\ disk' \in {disk, None}
  <2>1. Types' /\ Objectful'
    BY <1>1, <1>3 DEF WInv, Types, Objectful, Live
  <2>2. Served'
    BY <1>1, <1>3, StillServed
  <2> QED
    BY <1>2, <2>1, <2>2 DEF WInv
<1>4. ASSUME NEW o \in Objects, disk # None, Load(o) PROVE WInv'
  <2>1. /\ registered' = o /\ disk' = disk
        /\ enabled' \in [Objects -> BOOLEAN] /\ fired' \in [Objects -> BOOLEAN]
    BY <1>4 DEF Load, WInv, Types
  <2>2. CASE Schedule(o, FALSE)
    <3>1. Types' /\ Objectful'
      BY <1>1, <2>1, <2>2, ScheduleTypes DEF WInv, Types, Objectful
    <3>2. Served'
      BY <1>1, <2>2, ScheduleTypes, CancelServed
    <3> QED
      BY <1>2, <3>1, <3>2 DEF WInv
  <2>3. CASE UNCHANGED <<slot, pc, of, writes>>
    <3>1. Types' /\ Objectful'
      BY <1>1, <2>1, <2>3 DEF WInv, Types, Objectful, Live
    <3>2. Served'
      BY <1>1, <2>3, StillServed
    <3> QED
      BY <1>2, <3>1, <3>2 DEF WInv
  <2> QED
    BY <1>4, <2>2, <2>3 DEF Load
<1> QED
  BY <1>3, <1>4 DEF Start

LEMMA StopSaves ==
  ASSUME WInv, Stop
  PROVE  WInv'
<1>1. /\ up' = "stopping" /\ pc' \in AfterCancel(slot) /\ writes' \in WritesAfterCancel(slot)
      /\ UNCHANGED <<registered, enabled, fired, slot, of, call, disk, starts, life, fires>>
  BY DEF Stop, historyVars
<1>2. Types' /\ Objectful' /\ Bounds'
  BY <1>1, CancelWaiting DEF WInv, Types, Objectful, Bounds, Live
<1>3. Served'
  BY <1>1, CancelWaiting, CancelServed
<1> QED
  BY <1>2, <1>3 DEF WInv

LEMMA StoppedSaves ==
  ASSUME WInv, Stopped
  PROVE  WInv'
<1>1. /\ up' = "down" /\ slot' = None /\ registered' = None
      /\ UNCHANGED <<enabled, fired, of, call, writes, disk, starts, life, fires>>
  BY DEF Stopped, historyVars
<1>2. /\ pc' \in [Tasks -> TaskStates]
      /\ \A t \in Tasks : pc'[t] = pc[t] \/ (pc[t] \in {"none", "failed"} /\ pc'[t] = "none")
  BY SchedulerConstants DEF Stopped, WInv, Types, TaskStates, Live
<1>3. Types' /\ Objectful' /\ Bounds'
  BY <1>1, <1>2 DEF WInv, Types, Objectful, Bounds, Live
<1>4. Served'
  BY <1>1, <1>2, StillServed
<1> QED
  BY <1>3, <1>4 DEF WInv

LEMMA CrashSaves ==
  ASSUME WInv, Crash
  PROVE  WInv'
<1>1. NoCall \in CallRecords /\ NoWrite \in WriteRecords /\ "none" \in TaskStates
  BY DEF NoCall, NoWrite, CallRecords, WriteRecords, TaskStates
<1>2. Types' /\ Bounds'
  BY <1>1 DEF Crash, NothingInMemory, historyVars, WInv, Types, Bounds
<1>3. Objectful'
  BY DEF Crash, NothingInMemory, Objectful, Live
<1>4. \A h \in Threads : writes'[h].by = None
  BY DEF Crash, NoWrite
<1>5. \A x \in Tasks \union Callers : ~Waiting(x)'
  BY DEF Crash, NothingInMemory, Waiting
<1>6. \A x \in Tasks \union Callers : x # None
  BY SchedulerConstants
<1>7. \A x \in Tasks \union Callers :
        Waiting(x) => ~(\A h \in Threads : writes[h].by = x => writes'[h].by = x)
  BY <1>4, <1>6 DEF WInv, Served
<1>8. Served'
  BY <1>4, <1>5, <1>7, ServedOn
<1> QED
  BY <1>2, <1>3, <1>8 DEF WInv

-----------------------------------------------------------------------------
(* The management calls. *)
LEMMA AddSaves ==
  ASSUME WInv, NEW c \in Callers, AddJob(c)
  PROVE  WInv'
<1>1. PICK o \in Objects, w \in IF registered = None THEN {writes} ELSE WritesAfterCancel(slot) :
        /\ registered' = o
        /\ enabled' = [enabled EXCEPT ![o] = TRUE] /\ fired' = [fired EXCEPT ![o] = FALSE]
        /\ Save(w, c, TRUE, FALSE)
        /\ call' = [call EXCEPT ![c] = [op |-> "add", obj |-> o, saved |-> FALSE]]
  BY DEF AddJob, Called
<1>2. /\ "add" \in Ops /\ call[c] = NoCall /\ life' = "live"
      /\ UNCHANGED <<up, of, starts, fires>>
  BY DEF AddJob, MayCall
<1>3. /\ pc' \in [Tasks -> TaskStates] /\ w \in [Threads -> WriteRecords]
      /\ disk' \in {disk, None} /\ slot' \in {slot, None}
      /\ \A t \in Tasks : pc'[t] = pc[t] \/ pc'[t] = "none"
      /\ \A h \in Threads : w[h] = writes[h] \/ w[h].by = None
      /\ \A t \in Tasks : pc'[t] = "saving" <=>
           pc[t] = "saving" /\ \A h \in Threads : writes[h].by = t => w[h].by = t
      /\ \A d \in Callers : \A h \in Threads : writes[h].by = d => w[h].by = d
  <2>1. CASE registered = None
    <3>1. UNCHANGED <<slot, pc, disk>> /\ w = writes
      BY <1>1, <2>1 DEF AddJob
    <3> QED
      BY <3>1 DEF WInv, Types
  <2>2. CASE registered # None
    <3>1. /\ pc' \in AfterCancel(slot) /\ slot' = None /\ disk' = None
          /\ w \in WritesAfterCancel(slot)
      BY <1>1, <2>2 DEF AddJob, PopTask
    <3>2. PICK p \in AfterCancel(slot) : p = pc'
      BY <3>1
    <3> QED
      BY <3>1, <3>2, CancelWaiting
  <2> QED
    BY <2>1, <2>2
<1>4. [op |-> "add", obj |-> o, saved |-> FALSE] \in CallRecords
  BY <1>2 DEF CallRecords
<1>5. /\ call' \in [Callers -> CallRecords]
      /\ call'[c] = [op |-> "add", obj |-> o, saved |-> FALSE]
      /\ \A d \in Callers : d # c => call'[d] = call[d]
  BY <1>1, <1>4 DEF WInv, Types
<1>6. call'[c] # NoCall /\ ~call'[c].saved /\ call'[c].obj = o
  BY <1>5 DEF NoCall
<1>7. /\ c \in Tasks \union Callers /\ ~Waiting(c)
      /\ \A x \in Tasks \union Callers :
           Waiting(x)' <=>
             x = c \/ (Waiting(x) /\ \A h \in Threads : writes[h].by = x => w[h].by = x)
  BY <1>2, <1>3, <1>5, <1>6, SchedulerConstants DEF Waiting
<1>8. writes' \in [Threads -> WriteRecords] /\ Served'
  BY <1>1, <1>3, <1>7, ServedNew
<1>9. Types'
  BY <1>1, <1>2, <1>3, <1>5, <1>8 DEF WInv, Types
<1>10. Objectful' /\ Bounds'
  BY <1>2, <1>3, <1>5, <1>6 DEF WInv, Objectful, Bounds, Live
<1> QED
  BY <1>8, <1>9, <1>10 DEF WInv

LEMMA FlagSaves ==
  ASSUME WInv, NEW c \in Callers, PauseJob(c) \/ ResumeJob(c)
  PROVE  WInv'
<1>1. PICK e \in BOOLEAN, op \in {"pause", "resume"} \intersect Ops :
        /\ registered \in Objects /\ call[c] = NoCall
        /\ enabled' = [enabled EXCEPT ![registered] = e]
        /\ Save(writes, c, e, fired[registered])
        /\ call' = [call EXCEPT ![c] = [op |-> op, obj |-> registered, saved |-> FALSE]]
        /\ UNCHANGED <<up, registered, fired, slot, pc, of, disk, starts, life, fires>>
  <2>1. registered \in Objects /\ call[c] = NoCall
    BY DEF PauseJob, ResumeJob, MayCall, WInv, Types
  <2>2. CASE PauseJob(c)
    BY <2>1, <2>2 DEF PauseJob, MayCall, Called, historyVars
  <2>3. CASE ResumeJob(c)
    BY <2>1, <2>3 DEF ResumeJob, MayCall, Called, historyVars
  <2> QED
    BY <2>2, <2>3
<1>2. [op |-> op, obj |-> registered, saved |-> FALSE] \in CallRecords
  BY <1>1 DEF CallRecords
<1>3. /\ call' \in [Callers -> CallRecords]
      /\ call'[c] = [op |-> op, obj |-> registered, saved |-> FALSE]
      /\ \A d \in Callers : d # c => call'[d] = call[d]
  BY <1>1, <1>2 DEF WInv, Types
<1>4. call'[c] # NoCall /\ ~call'[c].saved /\ call'[c].obj = registered
  BY <1>3 DEF NoCall
<1>5. /\ c \in Tasks \union Callers /\ ~Waiting(c)
      /\ \A x \in Tasks \union Callers : Waiting(x)' <=> x = c \/ Waiting(x)
  BY <1>1, <1>3, <1>4, SchedulerConstants DEF Waiting
<1>6. writes \in [Threads -> WriteRecords] /\ fired[registered] \in BOOLEAN
  BY <1>1 DEF WInv, Types
<1>7. writes' \in [Threads -> WriteRecords] /\ Served'
  <2>1. \A x \in Tasks \union Callers : Waiting(x)' <=>
          x = c \/ (Waiting(x) /\ \A h \in Threads : writes[h].by = x => writes[h].by = x)
    BY <1>5
  <2> QED
    BY <1>1, <1>5, <1>6, <2>1, ServedNew
<1>8. Types'
  BY <1>1, <1>3, <1>7 DEF WInv, Types
<1>9. Objectful' /\ Bounds'
  BY <1>1, <1>3, <1>4 DEF WInv, Objectful, Bounds, Live
<1> QED
  BY <1>7, <1>8, <1>9 DEF WInv

(* remove_job, and what follows the save of the other calls. *)
LEMMA RemoveSaves ==
  ASSUME WInv, NEW c \in Callers, RemoveJob(c)
  PROVE  WInv'
<1>1. /\ pc' \in AfterCancel(slot) /\ writes' \in WritesAfterCancel(slot)
      /\ slot' = None /\ registered' = None /\ disk' = None
      /\ UNCHANGED <<up, enabled, fired, of, call, starts, life, fires>>
  BY DEF RemoveJob, PopTask
<1>2. Types' /\ Objectful' /\ Bounds'
  BY <1>1, CancelWaiting DEF WInv, Types, Objectful, Bounds, Live
<1>3. Served'
  BY <1>1, CancelWaiting, CancelServed
<1> QED
  BY <1>2, <1>3 DEF WInv

LEMMA ContinueSaves ==
  ASSUME WInv, NEW c \in Callers, Continue(c)
  PROVE  WInv'
<1>1. /\ call[c].saved /\ call[c].op \in {"add", "pause", "resume"}
      /\ call' = [call EXCEPT ![c] = NoCall]
      /\ UNCHANGED <<up, registered, enabled, fired, disk, starts, life, fires>>
  BY DEF Continue, AddJobSaved, PauseJobSaved, ResumeJobSaved, Saved, Returns, Over, historyVars
<1>2. /\ call' \in [Callers -> CallRecords] /\ call'[c] = NoCall
      /\ \A d \in Callers : d # c => call'[d] = call[d]
  <2>1. NoCall \in CallRecords
    BY DEF NoCall, CallRecords
  <2> QED
    BY <1>1, <2>1 DEF WInv, Types
<1>3. call[c].obj \in Objects
  <2>1. call[c] # NoCall
    BY <1>1 DEF NoCall
  <2> QED
    BY <2>1 DEF WInv, Objectful
<1>4. /\ pc' \in [Tasks -> TaskStates] /\ writes' \in [Threads -> WriteRecords]
      /\ slot' \in Tasks \union {None} /\ of' \in [Tasks -> Objects \union {None}]
      /\ \A t \in Tasks : Live(t)' => of'[t] \in Objects
      /\ \A h \in Threads : writes'[h] = writes[h] \/ writes'[h].by = None
      /\ \A t \in Tasks : pc'[t] = "saving" <=>
           pc[t] = "saving" /\ \A h \in Threads : writes[h].by = t => writes'[h].by = t
      /\ \A d \in Callers : \A h \in Threads : writes[h].by = d => writes'[h].by = d
  <2>1. CASE UNCHANGED <<slot, pc, of, writes>>
    BY <2>1 DEF WInv, Types, Objectful, Live
  <2>2. CASE Schedule(call[c].obj, c \in overtaken)
    BY <1>3, <2>2, ScheduleTypes
  <2>3. CASE PauseJobSaved(c)
    <3>1. /\ pc' \in AfterCancel(slot) /\ writes' \in WritesAfterCancel(slot)
          /\ slot' = None /\ of' = of
      BY <2>3 DEF PauseJobSaved, PopTask
    <3>2. \A t \in Tasks : Live(t)' => of'[t] \in Objects
      BY <3>1, CancelWaiting DEF WInv, Objectful, Live
    <3> QED
      BY <3>1, <3>2, CancelWaiting DEF WInv, Types
  <2> QED
    BY <2>1, <2>2, <2>3 DEF Continue, AddJobSaved, ResumeJobSaved
<1>5. Types' /\ Bounds'
  BY <1>1, <1>2, <1>4 DEF WInv, Types, Bounds
<1>6. Objectful'
  BY <1>2, <1>4 DEF WInv, Objectful
<1>7. \A x \in Tasks \union Callers :
        Waiting(x)' <=> Waiting(x) /\ \A h \in Threads : writes[h].by = x => writes'[h].by = x
  BY <1>1, <1>2, <1>4, SchedulerConstants DEF Waiting
<1>8. Served'
  BY <1>4, <1>7, ServedOn
<1> QED
  BY <1>5, <1>6, <1>8 DEF WInv

-----------------------------------------------------------------------------
(* A write lands or fails, and whoever waited for it does so no more. *)
LEMMA WriteEnds ==
  ASSUME WInv, NEW h \in Threads, WriteLands(h) \/ WriteFails(h)
  PROVE  WInv'
<1>1. PICK who : who = writes[h].by
  OBVIOUS
<1>2. /\ writes' = [writes EXCEPT ![h] = NoWrite]
      /\ \/ /\ pc' = IF who \in Tasks THEN [pc EXCEPT ![who] = "saved"] ELSE pc
            /\ call' = IF who \in Callers THEN [call EXCEPT ![who].saved = TRUE] ELSE call
            /\ disk' = [enabled |-> writes[h].enabled, fired |-> writes[h].fired]
         \/ /\ pc' = IF who \in Tasks THEN Raises(who) ELSE pc
            /\ call' = IF who \in Callers THEN [call EXCEPT ![who] = NoCall] ELSE call
            /\ disk' = disk
      /\ UNCHANGED <<up, registered, enabled, fired, slot, of, starts, life, fires>>
  BY <1>1 DEF WriteLands, WriteFails, Done, Over, historyVars
<1>3. /\ NoWrite \in WriteRecords /\ NoWrite.by = None
      /\ NoCall \in CallRecords
  BY DEF NoWrite, WriteRecords, NoCall, CallRecords
<1>4. /\ writes' \in [Threads -> WriteRecords] /\ writes'[h].by = None
      /\ \A k \in Threads : k # h => writes'[k] = writes[k]
  BY <1>2, <1>3 DEF WInv, Types
<1>5. /\ pc' \in [Tasks -> TaskStates]
      /\ \A t \in Tasks : t # who => pc'[t] = pc[t]
      /\ who \in Tasks => pc[who] = "saving" /\ pc'[who] \in {"saved", "none", "failed"}
  <2>1. who \in Tasks => pc[who] = "saving"
    BY <1>1, SchedulerConstants DEF WInv, Served, Waiting
  <2> QED
    BY <1>2, <2>1 DEF WInv, Types, TaskStates, Raises
<1>6. /\ call' \in [Callers -> CallRecords]
      /\ \A c \in Callers : c # who => call'[c] = call[c]
      /\ who \in Callers =>
           \/ call'[who] = NoCall
           \/ call[who] # NoCall /\ call'[who].saved /\ call'[who].obj = call[who].obj
  <2>1. CASE who \in Callers
    <3>1. call[who] \in CallRecords /\ call[who] # NoCall
      BY <1>1, <2>1, SchedulerConstants DEF WInv, Types, Served, Waiting
    <3>2. /\ [call[who] EXCEPT !.saved = TRUE] \in CallRecords
          /\ [call[who] EXCEPT !.saved = TRUE].obj = call[who].obj
          /\ [call[who] EXCEPT !.saved = TRUE].saved
      BY <3>1 DEF CallRecords
    <3>3. \/ call' = [call EXCEPT ![who] = [call[who] EXCEPT !.saved = TRUE]]
          \/ call' = [call EXCEPT ![who] = NoCall]
      BY <1>2, <2>1
    <3> QED
      BY <1>3, <2>1, <3>1, <3>2, <3>3 DEF WInv, Types
  <2>2. CASE who \notin Callers
    BY <1>2, <2>2 DEF WInv, Types
  <2> QED
    BY <2>1, <2>2
<1>7. Types'
  BY <1>2, <1>4, <1>5, <1>6 DEF WInv, Types, WriteRecords
<1>8. Bounds'
  BY <1>2 DEF WInv, Bounds
<1>9. Objectful'
  BY <1>2, <1>5, <1>6 DEF WInv, Objectful, Live
<1>10. \A k \in Threads : k # h => writes[k].by # who \/ who = None
  BY <1>1 DEF WInv, Served, OneWriteEach
<1>11. ASSUME NEW x \in Tasks \union Callers
       PROVE  Waiting(x)' <=>
                Waiting(x) /\ \A k \in Threads : writes[k].by = x => writes'[k].by = x
  <2>1. CASE x = who
    <3>1. ~Waiting(x)'
      BY <1>5, <1>6, <2>1, SchedulerConstants DEF Waiting
    <3>2. writes[h].by = x /\ writes'[h].by # x
      BY <1>1, <1>4, <2>1, SchedulerConstants
    <3> QED
      BY <3>1, <3>2
  <2>2. CASE x # who
    <3>1. Waiting(x)' <=> Waiting(x)
      BY <1>5, <1>6, <2>2 DEF Waiting
    <3>2. \A k \in Threads : writes[k].by = x => writes'[k].by = x
      BY <1>1, <1>4, <2>2
    <3> QED
      BY <3>1, <3>2
  <2> QED
    BY <2>1, <2>2
<1>12. Served'
  <2>1. \A k \in Threads : writes'[k] = writes[k] \/ writes'[k].by = None
    BY <1>4
  <2> QED
    BY <1>11, <2>1, ServedOn
<1> QED
  BY <1>7, <1>8, <1>9, <1>12 DEF WInv

(* A task begins its save, or goes on without one. *)
LEMMA FireSaves ==
  ASSUME WInv, NEW t \in Tasks, Fire(t)
  PROVE  WInv'
<1>1. /\ pc[t] = "sleep" /\ fired' = [fired EXCEPT ![of[t]] = TRUE]
      /\ Save(writes, t, enabled[of[t]], TRUE)
      /\ pc' = [pc EXCEPT ![t] = "saving"]
      /\ UNCHANGED <<up, registered, enabled, slot, of, call, disk, starts, life, fires>>
  BY DEF Fire, MayFire, historyVars
<1>2. of[t] \in Objects
  BY <1>1 DEF WInv, Objectful, Live
<1>3. enabled[of[t]] \in BOOLEAN /\ fired' \in [Objects -> BOOLEAN]
  BY <1>1, <1>2 DEF WInv, Types
<1>4. /\ pc' \in [Tasks -> TaskStates] /\ pc'[t] = "saving"
      /\ \A u \in Tasks : u # t => pc'[u] = pc[u]
  BY <1>1 DEF WInv, Types, TaskStates
<1>5. /\ t \in Tasks \union Callers /\ ~Waiting(t)
      /\ \A x \in Tasks \union Callers : Waiting(x)' <=>
           x = t \/ (Waiting(x) /\ \A h \in Threads : writes[h].by = x => writes[h].by = x)
  BY <1>1, <1>4, SchedulerConstants DEF Waiting
<1>6. writes \in [Threads -> WriteRecords]
  BY DEF WInv, Types
<1>7. writes' \in [Threads -> WriteRecords] /\ Served'
  BY <1>1, <1>3, <1>5, <1>6, ServedNew
<1>8. Types' /\ Bounds'
  BY <1>1, <1>3, <1>4, <1>7 DEF WInv, Types, Bounds
<1>9. Objectful'
  BY <1>1, <1>2, <1>4 DEF WInv, Objectful, Live
<1> QED
  BY <1>7, <1>8, <1>9 DEF WInv

LEMMA TaskSaves ==
  ASSUME WInv, NEW t \in Tasks,
         Begin(t) \/ LeaveLoop(t) \/ Callback(t) \/ CallbackReturns(t) \/ CallbackRaises(t)
  PROVE  WInv'
<1>1. /\ pc[t] \in {"ready", "sleep", "saved", "callback"}
      /\ UNCHANGED <<up, enabled, fired, of, call, writes, starts, life>>
  BY DEF Begin, LeaveLoop, Callback, BeginCallback, CallbackReturns, CallbackRaises,
         historyVars
<1>2. \E s \in {"none", "failed", "sleep", "callback"} : pc' = [pc EXCEPT ![t] = s]
  BY DEF Begin, LeaveLoop, Callback, BeginCallback, CallbackReturns, CallbackRaises,
         CleanUp, Ends, Raises
<1>3. /\ registered' \in {registered, None} /\ disk' \in {disk, None}
      /\ slot' \in {slot, None}
  BY DEF Begin, LeaveLoop, Callback, CallbackReturns, CallbackRaises, CleanUp, Ends
<1>4. fires' \in 0..MaxFires
  BY DEF Begin, LeaveLoop, Callback, BeginCallback, CallbackReturns, CallbackRaises,
         historyVars, WInv, Bounds, MaxFires
<1>5. /\ pc' \in [Tasks -> TaskStates] /\ pc'[t] # "saving"
      /\ \A u \in Tasks : u # t => pc'[u] = pc[u]
  BY <1>2 DEF WInv, Types, TaskStates
<1>6. Types' /\ Bounds'
  BY <1>1, <1>3, <1>4, <1>5 DEF WInv, Types, Bounds
<1>7. Objectful'
  BY <1>1, <1>5 DEF WInv, Objectful, Live
<1>8. Served'
  BY <1>1, <1>5, StillServed
<1> QED
  BY <1>6, <1>7, <1>8 DEF WInv

LEMMA NextSaves == WInv /\ [Next]_vars => WInv'
<1> SUFFICES ASSUME WInv, [Next]_vars PROVE WInv'
  OBVIOUS
<1>1. CASE Start \/ Stop \/ Stopped \/ Crash
  BY <1>1, StartSaves, StopSaves, StoppedSaves, CrashSaves
<1>2. ASSUME NEW c \in Callers,
             AddJob(c) \/ RemoveJob(c) \/ PauseJob(c) \/ ResumeJob(c) \/ Continue(c)
      PROVE  WInv'
  BY <1>2, AddSaves, RemoveSaves, FlagSaves, ContinueSaves
<1>3. ASSUME NEW h \in Threads, WriteLands(h) \/ WriteFails(h) PROVE WInv'
  BY <1>3, WriteEnds
<1>4. ASSUME NEW t \in Tasks, TaskStep(t) \/ CallbackRaises(t) PROVE WInv'
  BY <1>4, FireSaves, TaskSaves DEF TaskStep
<1>5. CASE UNCHANGED vars
  <2>1. Types' /\ Bounds' /\ Objectful'
    BY <1>5 DEF vars, WInv, Types, Bounds, Objectful, Live
  <2>2. Served'
    BY <1>5, StillServed DEF vars
  <2> QED
    BY <2>1, <2>2 DEF WInv
<1> QED
  BY <1>1, <1>2, <1>3, <1>4, <1>5 DEF Next

THEOREM SavesInvariance == Spec => []WInv
  BY InitSaves, NextSaves, PTL DEF Spec

-----------------------------------------------------------------------------
(* A periodic job, whose management calls overlap and fail as they like,   *)
(* and whose callbacks may swallow a cancellation: MInv, behind            *)
(* OnlyRegisteredRuns and ScheduledIffEnabled.  It says of the call that   *)
(* nobody overtook that it is about the registered object and has set its  *)
(* flag: on its return, then, flag and task agree.                         *)
Overlap == overtaken \subseteq Callers /\ loose \subseteq Tasks /\ doubt \in BOOLEAN

NothingWhenDown == up = "down" => registered = None /\ slot = None

LastCall ==
  Running => \A c \in Callers : call[c] # NoCall /\ c \notin overtaken =>
    /\ call[c].obj = registered
    /\ call[c].op \in {"add", "resume"} => enabled[registered]
    /\ call[c].op = "pause" => ~enabled[registered]

(* A task of another object that took the place of the registered one's    *)
(* was started by an overtaken call.                                       *)
SlotInDoubt == Running /\ slot \in loose => doubt

FlagMatchesSlot ==
  Running /\ registered # None /\ ~doubt /\
    (\A c \in Callers : call[c] # NoCall => c \in overtaken) =>
      (enabled[registered] <=> slot # None)

MInv ==
  /\ Overlap /\ NothingWhenDown /\ OnlyRegisteredRuns /\ LastCall
  /\ SlotInDoubt /\ FlagMatchesSlot

LEMMA OverlapStep == Overlap /\ [Next]_vars => Overlap'
<1> SUFFICES ASSUME Overlap, [Next]_vars PROVE Overlap'
  OBVIOUS
<1> USE DEF Overlap
<1>1. \A p : Loose(p) \subseteq Tasks
  BY DEF Loose
<1>2. ASSUME NEW o, NEW late, Schedule(o, late) PROVE loose' \subseteq Tasks
  BY <1>1, <1>2 DEF Schedule
<1>3. PopTask => loose' \subseteq Tasks
  BY <1>1 DEF PopTask
<1>4. ASSUME NEW c \in Callers, Returns(c) PROVE overtaken' \subseteq Callers /\ doubt' \in BOOLEAN
  BY <1>4 DEF Returns, Over
<1>5. CASE Start
  BY <1>2, <1>5 DEF Start, Load
<1>6. CASE Stop \/ Stopped \/ Crash
  BY <1>6 DEF Stop, Stopped, Crash, NothingInMemory, historyVars
<1>7. ASSUME NEW c \in Callers, AddJob(c) \/ RemoveJob(c) \/ PauseJob(c) \/ ResumeJob(c)
      PROVE  Overlap'
  BY <1>3, <1>7 DEF AddJob, RemoveJob, PauseJob, ResumeJob, Called, Begins
<1>8. ASSUME NEW c \in Callers, Continue(c) PROVE Overlap'
  BY <1>2, <1>3, <1>4, <1>8 DEF Continue, AddJobSaved, PauseJobSaved, ResumeJobSaved
<1>9. ASSUME NEW h \in Threads, WriteLands(h) \/ WriteFails(h) PROVE Overlap'
  BY <1>9 DEF WriteLands, WriteFails, Over, historyVars
<1>10. ASSUME NEW t \in Tasks, TaskStep(t) \/ CallbackRaises(t) PROVE Overlap'
  BY <1>10 DEF TaskStep, Begin, Fire, LeaveLoop, Callback, CallbackReturns, CallbackRaises,
               historyVars, overlapVars
<1>11. CASE UNCHANGED vars
  BY <1>11 DEF vars
<1> QED
  BY <1>5, <1>6, <1>7, <1>8, <1>9, <1>10, <1>11 DEF Next

(* What a cancellation does not stop is loose. *)
LEMMA Popping ==
  ASSUME WInv, MInv, ~OneShot, NEW p \in AfterCancel(slot)
  PROVE  /\ p \in [Tasks -> TaskStates]
         /\ \A u \in Tasks : p[u] \notin {"none", "failed"} => u \in Loose(p)
<1>1. /\ p \in [Tasks -> TaskStates]
      /\ \A u \in Tasks : u # slot => p[u] = pc[u]
      /\ slot \in Tasks => p[slot] = "none" \/ (pc[slot] = "callback" /\ p[slot] = "callback")
  BY Cancelling DEF WInv
<1>2. \A u \in Tasks : u # slot /\ pc[u] \notin {"none", "failed"} => u \in loose
  BY DEF MInv, OnlyRegisteredRuns, Live
<1> QED
  BY <1>1, <1>2 DEF Loose

(* So once an object is scheduled, only its task and loose ones live. *)
LEMMA Scheduling ==
  ASSUME WInv, MInv, ~OneShot, NEW o \in Objects, NEW late \in BOOLEAN, Schedule(o, late)
  PROVE  /\ slot' \in Tasks /\ of'[slot'] = o
         /\ slot' \in loose' <=> late
         /\ \A u \in Tasks : Live(u)' /\ u # slot' => u \in loose'
<1>1. PICK p \in AfterCancel(slot), t \in Tasks :
        /\ p[t] = "none" /\ slot' = t
        /\ pc' = [p EXCEPT ![t] = "ready"] /\ of' = [of EXCEPT ![t] = o]
        /\ loose' = (Loose(p) \ {t}) \union (IF late THEN {t} ELSE {})
  BY DEF Schedule
<1>2. /\ p \in [Tasks -> TaskStates]
      /\ \A u \in Tasks : p[u] \notin {"none", "failed"} => u \in Loose(p)
  BY Popping
<1>3. \A u \in Tasks : u # t => pc'[u] = p[u]
  BY <1>1, <1>2
<1>4. of'[t] = o
  BY <1>1 DEF WInv, Types
<1> QED
  BY <1>1, <1>2, <1>3, <1>4 DEF Live

-----------------------------------------------------------------------------
(* Steps that neither manage the job nor end its task. *)
LEMMA QuietManaged ==
  ASSUME MInv, Overlap',
         UNCHANGED <<up, registered, enabled, slot, of, overtaken, loose, doubt>>,
         \A c \in Callers : /\ call'[c] # NoCall <=> call[c] # NoCall
                            /\ call'[c].op = call[c].op /\ call'[c].obj = call[c].obj,
         \A u \in Tasks : Live(u)' => Live(u)
  PROVE  MInv'
<1>1. NothingWhenDown' /\ OnlyRegisteredRuns'
  BY DEF MInv, NothingWhenDown, OnlyRegisteredRuns
<1>2. LastCall' /\ SlotInDoubt' /\ FlagMatchesSlot'
  BY DEF MInv, LastCall, SlotInDoubt, FlagMatchesSlot, Running
<1> QED
  BY <1>1, <1>2 DEF MInv

(* Where the task in _tasks ends, the job has been paused. *)
LEMMA EndManaged ==
  ASSUME WInv, MInv, Overlap', ~OneShot, NEW t \in Tasks, Live(t), Ends(t), ~MayLoop(t),
         UNCHANGED <<up, registered, enabled, of, call, overtaken, loose, doubt>>
  PROVE  MInv'
<1>1. \A u \in Tasks : u # t => pc'[u] = pc[u]
  BY DEF Ends, WInv, Types
<1>2. pc'[t] = "none"
  BY DEF Ends, WInv, Types
<1>3. \A u \in Tasks : Live(u)' => u # t /\ Live(u)
  BY <1>1, <1>2 DEF Live
<1>4. CASE slot # t
  <2>1. slot' = slot
    BY <1>4 DEF Ends
  <2> QED
    BY <1>3, <2>1, QuietManaged
<1>5. CASE slot = t
  <2>1. slot' = None /\ None \notin loose'
    BY <1>5, SchedulerConstants DEF Ends, Overlap
  <2>2. NothingWhenDown' /\ OnlyRegisteredRuns' /\ SlotInDoubt'
    BY <1>3, <1>5, <2>1 DEF MInv, NothingWhenDown, OnlyRegisteredRuns, SlotInDoubt
  <2>3. LastCall'
    BY DEF MInv, LastCall, Running
  <2>4. Running /\ ~doubt => ~enabled[registered]
    <3>1. Running /\ ~doubt => of[t] = registered
      BY <1>5 DEF MInv, OnlyRegisteredRuns, SlotInDoubt
    <3> QED
      BY <3>1 DEF MayLoop
  <2>5. FlagMatchesSlot'
    BY <2>1, <2>4 DEF FlagMatchesSlot, Running
  <2> QED
    BY <2>2, <2>3, <2>5 DEF MInv
<1> QED
  BY <1>4, <1>5

LEMMA TasksManaged ==
  ASSUME WInv, MInv, Overlap', ~OneShot, NEW t \in Tasks, TaskStep(t) \/ CallbackRaises(t)
  PROVE  MInv'
<1>1. /\ Live(t)
      /\ UNCHANGED <<up, enabled, of, call, overtaken, loose, doubt>>
  BY DEF TaskStep, Begin, Fire, MayFire, LeaveLoop, Callback, CallbackReturns, CallbackRaises,
         Live, historyVars, overlapVars
<1>2. \/ /\ UNCHANGED <<slot, registered>>
         /\ \E s \in {"sleep", "saving", "callback", "none", "failed"} : pc' = [pc EXCEPT ![t] = s]
      \/ Ends(t) /\ ~MayLoop(t) /\ registered' = registered
  <2>1. CASE Begin(t)
    BY <2>1 DEF Begin
  <2>2. CASE Fire(t) \/ Callback(t) \/ CallbackRaises(t)
    BY <2>2 DEF Fire, Callback, BeginCallback, CallbackRaises, Raises
  <2>3. CASE LeaveLoop(t) \/ CallbackReturns(t)
    BY <2>3 DEF LeaveLoop, MayFire, CallbackReturns
  <2> QED
    BY <2>1, <2>2, <2>3 DEF TaskStep
<1>3. CASE /\ UNCHANGED <<slot, registered>>
           /\ \E s \in {"sleep", "saving", "callback", "none", "failed"} : pc' = [pc EXCEPT ![t] = s]
  <2>1. \A u \in Tasks : Live(u)' => Live(u)
    BY <1>1, <1>3 DEF Live, WInv, Types
  <2> QED
    BY <1>1, <1>3, <2>1, QuietManaged
<1>4. CASE Ends(t) /\ ~MayLoop(t) /\ registered' = registered
  BY <1>1, <1>4, EndManaged
<1> QED
  BY <1>2, <1>3, <1>4

(* A write lands, or its failure ends the task or the call: a failed call  *)
(* leaves the job in doubt.                                                *)
LEMMA WritesManaged ==
  ASSUME WInv, MInv, Overlap', ~OneShot, NEW h \in Threads, WriteLands(h) \/ WriteFails(h)
  PROVE  MInv'
<1>1. PICK who : who = writes[h].by
  OBVIOUS
<1>2. UNCHANGED <<up, registered, enabled, slot, of, loose>>
  BY DEF WriteLands, WriteFails, historyVars
<1>3. who \in Tasks \union Callers => Waiting(who)
  BY <1>1 DEF WInv, Served
<1>4. \A u \in Tasks : Live(u)' => Live(u)
  <2>1. who \in Tasks => Live(who)
    BY <1>3, SchedulerConstants DEF Waiting, Live
  <2>2. \A u \in Tasks : u # who => pc'[u] = pc[u]
    BY <1>1 DEF WriteLands, WriteFails, Raises, WInv, Types
  <2> QED
    BY <2>1, <2>2 DEF Live
<1>5. CASE WriteLands(h)
  <2>1. /\ call' = IF who \in Callers THEN [call EXCEPT ![who].saved = TRUE] ELSE call
        /\ UNCHANGED <<overtaken, doubt>>
    BY <1>1, <1>5 DEF WriteLands, historyVars
  <2>2. \A c \in Callers : /\ call'[c] # NoCall <=> call[c] # NoCall
                           /\ call'[c].op = call[c].op /\ call'[c].obj = call[c].obj
    <3>1. CASE who \in Callers
      <4>1. call[who] \in CallRecords /\ call[who] # NoCall
        BY <1>3, <3>1, SchedulerConstants DEF Waiting, WInv, Types
      <4>2. PICK r : r = [call[who] EXCEPT !.saved = TRUE]
        OBVIOUS
      <4>3. r.op = call[who].op /\ r.obj = call[who].obj /\ r.saved
        BY <4>1, <4>2 DEF CallRecords
      <4>4. r # NoCall
        BY <4>3 DEF NoCall
      <4>5. call' = [call EXCEPT ![who] = r]
        BY <2>1, <3>1, <4>2
      <4>6. call'[who] = r /\ \A c \in Callers : c # who => call'[c] = call[c]
        BY <3>1, <4>5 DEF WInv, Types
      <4> QED
        BY <4>1, <4>3, <4>4, <4>6
    <3> QED
      BY <2>1, <3>1
  <2> QED
    BY <1>2, <1>4, <2>1, <2>2, QuietManaged
<1>6. CASE WriteFails(h) /\ who \notin Callers
  <2>1. UNCHANGED <<call, overtaken, doubt>>
    BY <1>1, <1>6 DEF WriteFails
  <2> QED
    BY <1>2, <1>4, <2>1, QuietManaged
<1>7. CASE WriteFails(h) /\ who \in Callers
  <2>1. /\ call' = [call EXCEPT ![who] = NoCall]
        /\ overtaken' = overtaken \ {who} /\ doubt' = TRUE
    BY <1>1, <1>7 DEF WriteFails, Over
  <2>2. call'[who] = NoCall /\ \A c \in Callers : c # who => call'[c] = call[c]
    BY <1>7, <2>1 DEF WInv, Types
  <2>3. NothingWhenDown' /\ OnlyRegisteredRuns'
    BY <1>2, <1>4 DEF MInv, NothingWhenDown, OnlyRegisteredRuns
  <2>4. LastCall'
    BY <1>2, <2>1, <2>2 DEF MInv, LastCall, Running
  <2>5. SlotInDoubt' /\ FlagMatchesSlot'
    BY <2>1 DEF SlotInDoubt, FlagMatchesSlot
  <2> QED
    BY <2>3, <2>4, <2>5 DEF MInv
<1> QED
  BY <1>5, <1>6, <1>7

-----------------------------------------------------------------------------
(* The service starts, stops and crashes. *)
LEMMA StartManaged ==
  ASSUME WInv, MInv, Overlap', ~OneShot, Start
  PROVE  MInv'
<1>1. /\ up = "down" /\ registered = None /\ slot = None /\ up' = "running"
      /\ \A t \in Tasks : ~Live(t)
      /\ \A c \in Callers : call'[c] = NoCall
      /\ doubt' = FALSE
  BY DEF Start, MayStart, MInv, NothingWhenDown
<1>2. NothingWhenDown' /\ LastCall'
  BY <1>1 DEF NothingWhenDown, LastCall
<1>3. CASE UNCHANGED <<registered, slot, pc, of, loose>>
  <2>1. OnlyRegisteredRuns'
    BY <1>1, <1>3 DEF OnlyRegisteredRuns, Live
  <2>2. None \notin loose
    BY SchedulerConstants DEF MInv, Overlap
  <2>3. SlotInDoubt' /\ FlagMatchesSlot'
    BY <1>1, <1>3, <2>2 DEF SlotInDoubt, FlagMatchesSlot
  <2> QED
    BY <1>2, <2>1, <2>3 DEF MInv
<1>4. ASSUME NEW o \in Objects, Load(o), disk # None PROVE MInv'
  <2>1. /\ registered' = o /\ enabled' = [enabled EXCEPT ![o] = disk.enabled]
    BY <1>4 DEF Load
  <2>2. enabled'[o] = disk.enabled /\ disk.enabled \in BOOLEAN
    BY <1>4, <2>1 DEF WInv, Types
  <2>3. CASE disk.enabled
    <3>1. Schedule(o, FALSE)
      BY <1>4, <2>3 DEF Load
    <3>2. /\ slot' \in Tasks /\ of'[slot'] = o /\ slot' \notin loose'
          /\ \A u \in Tasks : Live(u)' /\ u # slot' => u \in loose'
      BY <3>1, Scheduling
    <3>3. OnlyRegisteredRuns' /\ SlotInDoubt'
      BY <2>1, <3>2 DEF OnlyRegisteredRuns, SlotInDoubt
    <3>4. FlagMatchesSlot'
      BY <2>1, <2>2, <2>3, <3>2, SchedulerConstants DEF FlagMatchesSlot
    <3> QED
      BY <1>2, <3>3, <3>4 DEF MInv
  <2>4. CASE ~disk.enabled
    <3>1. UNCHANGED <<slot, pc, of, loose>>
      BY <1>4, <2>4 DEF Load
    <3>2. OnlyRegisteredRuns'
      BY <1>1, <3>1 DEF OnlyRegisteredRuns, Live
    <3>3. None \notin loose
      BY SchedulerConstants DEF MInv, Overlap
    <3>4. SlotInDoubt' /\ FlagMatchesSlot'
      BY <1>1, <2>1, <2>2, <2>4, <3>1, <3>3 DEF SlotInDoubt, FlagMatchesSlot
    <3> QED
      BY <1>2, <3>2, <3>4 DEF MInv
  <2> QED
    BY <2>2, <2>3, <2>4
<1> QED
  BY <1>3, <1>4 DEF Start

LEMMA EndsManaged ==
  ASSUME WInv, MInv, Overlap', ~OneShot, Stop \/ Stopped \/ Crash
  PROVE  MInv'
<1>1. ~Running'
  BY DEF Stop, Stopped, Crash, Running
<1>2. LastCall' /\ SlotInDoubt' /\ FlagMatchesSlot'
  BY <1>1 DEF LastCall, SlotInDoubt, FlagMatchesSlot
<1>3. CASE Stop
  <2>1. /\ up' = "stopping" /\ pc' \in AfterCancel(slot)
        /\ UNCHANGED <<registered, slot, of, loose>>
    BY <1>3 DEF Stop, historyVars
  <2>2. \A u \in Tasks : Live(u)' => Live(u)
    BY <2>1, Cancelling DEF WInv, Live
  <2> QED
    BY <1>2, <2>1, <2>2 DEF MInv, NothingWhenDown, OnlyRegisteredRuns
<1>4. CASE Stopped
  <2>1. /\ slot' = None /\ registered' = None
        /\ slot # None => ~Live(slot)
        /\ loose' = loose
    BY <1>4 DEF Stopped, historyVars
  <2>2. \A u \in Tasks : Live(u)' => Live(u)
    BY <1>4 DEF Stopped, WInv, Types, Live
  <2>3. \A u \in Tasks : Live(u)' => u \in loose'
    BY <2>1, <2>2, SchedulerConstants DEF MInv, OnlyRegisteredRuns
  <2> QED
    BY <1>2, <2>1, <2>3 DEF MInv, NothingWhenDown, OnlyRegisteredRuns
<1>5. CASE Crash
  <2>1. registered' = None /\ slot' = None /\ \A u \in Tasks : ~Live(u)'
    BY <1>5 DEF Crash, NothingInMemory, Live
  <2> QED
    BY <1>2, <2>1 DEF MInv, NothingWhenDown, OnlyRegisteredRuns
<1> QED
  BY <1>3, <1>4, <1>5

-----------------------------------------------------------------------------
(* The management calls.  One that begins overtakes all others. *)
LEMMA FlagManaged ==
  ASSUME WInv, MInv, Overlap', ~OneShot, NEW c \in Callers, PauseJob(c) \/ ResumeJob(c)
  PROVE  MInv'
<1>1. PICK e \in BOOLEAN, op \in {"pause", "resume"} :
        /\ e <=> (op = "resume")
        /\ enabled' = [enabled EXCEPT ![registered] = e]
        /\ call' = [call EXCEPT ![c] = [op |-> op, obj |-> registered, saved |-> FALSE]]
  BY DEF PauseJob, ResumeJob, Called
<1>2. /\ Running /\ call[c] = NoCall /\ registered # None
      /\ overtaken' = {d \in Callers : call[d] # NoCall}
      /\ UNCHANGED <<up, registered, slot, pc, of, loose, doubt>>
  BY DEF PauseJob, ResumeJob, MayCall, Called, Begins
<1>3. registered \in Objects
  BY <1>2 DEF WInv, Types
<1>4. /\ enabled'[registered] = e
      /\ call'[c] = [op |-> op, obj |-> registered, saved |-> FALSE]
      /\ \A d \in Callers : d # c => call'[d] = call[d]
  BY <1>1, <1>3 DEF WInv, Types
<1>5. call'[c] # NoCall /\ call'[c].op = op /\ call'[c].obj = registered
  BY <1>4 DEF NoCall
<1>6. NothingWhenDown' /\ OnlyRegisteredRuns' /\ SlotInDoubt'
  BY <1>2 DEF MInv, NothingWhenDown, OnlyRegisteredRuns, SlotInDoubt, Live, Running
<1>7. LastCall' /\ FlagMatchesSlot'
  BY <1>1, <1>2, <1>4, <1>5 DEF LastCall, FlagMatchesSlot
<1> QED
  BY <1>6, <1>7 DEF MInv

LEMMA AddManaged ==
  ASSUME WInv, MInv, Overlap', ~OneShot, NEW c \in Callers, AddJob(c)
  PROVE  MInv'
<1>1. PICK o \in Objects :
        /\ registered' = o
        /\ enabled' = [enabled EXCEPT ![o] = TRUE]
        /\ call' = [call EXCEPT ![c] = [op |-> "add", obj |-> o, saved |-> FALSE]]
  BY DEF AddJob, Called
<1>2. /\ Running /\ Running' /\ up' = up /\ call[c] = NoCall /\ of' = of /\ doubt' = doubt
      /\ overtaken' = {d \in Callers : call[d] # NoCall}
  BY DEF AddJob, MayCall, Called, Begins, Running
<1>3. /\ enabled'[o]
      /\ call'[c] = [op |-> "add", obj |-> o, saved |-> FALSE]
      /\ \A d \in Callers : d # c => call'[d] = call[d]
  BY <1>1 DEF WInv, Types
<1>4. call'[c] # NoCall /\ call'[c].op = "add" /\ call'[c].obj = o
  BY <1>3 DEF NoCall
<1>5. /\ \A u \in Tasks : Live(u)' => u \in loose'
      /\ slot' \in loose' => slot' = slot /\ loose' = loose
  <2>1. CASE registered = None
    <3>1. UNCHANGED <<slot, pc, loose>>
      BY <2>1 DEF AddJob
    <3>2. \A u \in Tasks : Live(u) => of[u] \in Objects
      BY DEF WInv, Objectful
    <3>3. \A u \in Tasks : Live(u) => u \in loose
      BY <2>1, <3>2, SchedulerConstants DEF MInv, OnlyRegisteredRuns
    <3> QED
      BY <3>1, <3>3 DEF Live
  <2>2. CASE registered # None
    <3>1. pc' \in AfterCancel(slot) /\ slot' = None /\ loose' = Loose(pc')
      BY <2>2 DEF AddJob, PopTask
    <3>2. PICK p \in AfterCancel(slot) : p = pc'
      BY <3>1
    <3>3. \A u \in Tasks : Live(u)' => u \in loose'
      BY <3>1, <3>2, Popping DEF Live
    <3>4. slot' \notin loose'
      BY <3>1, SchedulerConstants DEF Overlap
    <3> QED
      BY <3>3, <3>4
  <2> QED
    BY <2>1, <2>2
<1>6. NothingWhenDown' /\ OnlyRegisteredRuns' /\ SlotInDoubt'
  BY <1>2, <1>5 DEF MInv, NothingWhenDown, OnlyRegisteredRuns, SlotInDoubt, Running
<1>7. LastCall' /\ FlagMatchesSlot'
  BY <1>1, <1>2, <1>3, <1>4 DEF LastCall, FlagMatchesSlot
<1> QED
  BY <1>6, <1>7 DEF MInv

LEMMA RemoveManaged ==
  ASSUME WInv, MInv, Overlap', ~OneShot, NEW c \in Callers, RemoveJob(c)
  PROVE  MInv'
<1>1. /\ Running /\ up' = up /\ registered' = None /\ slot' = None /\ call' = call
      /\ pc' \in AfterCancel(slot) /\ loose' = Loose(pc')
      /\ overtaken' = {d \in Callers : call[d] # NoCall}
  BY DEF RemoveJob, MayCall, PopTask, Begins
<1>2. PICK p \in AfterCancel(slot) : p = pc'
  BY <1>1
<1>3. \A u \in Tasks : Live(u)' => u \in loose'
  BY <1>1, <1>2, Popping DEF Live
<1>4. NothingWhenDown' /\ OnlyRegisteredRuns'
  BY <1>1, <1>3 DEF NothingWhenDown, OnlyRegisteredRuns
<1>5. LastCall' /\ SlotInDoubt' /\ FlagMatchesSlot'
  BY <1>1, SchedulerConstants DEF LastCall, SlotInDoubt, FlagMatchesSlot, Overlap
<1> QED
  BY <1>4, <1>5 DEF MInv

(* A call goes on after its save, overtaken or not. *)
LEMMA ContinueManaged ==
  ASSUME WInv, MInv, Overlap', ~OneShot, NEW c \in Callers, Continue(c)
  PROVE  MInv'
<1>1. /\ call[c].op \in {"add", "pause", "resume"}
      /\ call' = [call EXCEPT ![c] = NoCall]
      /\ overtaken' = overtaken \ {c} /\ doubt' = (c \in overtaken)
      /\ UNCHANGED <<up, registered, enabled>>
  BY DEF Continue, AddJobSaved, PauseJobSaved, ResumeJobSaved, Saved, Returns, Over
<1>2. call[c] # NoCall
  BY <1>1 DEF NoCall
<1>3. call'[c] = NoCall /\ \A d \in Callers : d # c => call'[d] = call[d]
  BY <1>1 DEF WInv, Types
<1>4. LastCall'
  BY <1>1, <1>3 DEF MInv, LastCall, Running
<1>5. Running /\ c \notin overtaken =>
        /\ call[c].obj = registered
        /\ call[c].op \in {"add", "resume"} => enabled[registered]
        /\ call[c].op = "pause" => ~enabled[registered]
  BY <1>2 DEF MInv, LastCall
<1>6. CASE Schedule(call[c].obj, c \in overtaken) /\ Running /\ call[c].op \in {"add", "resume"}
  <2>1. call[c].obj \in Objects
    BY <1>2 DEF WInv, Objectful
  <2>2. PICK late \in BOOLEAN : late <=> c \in overtaken
    OBVIOUS
  <2>3. late = (c \in overtaken)
    BY <2>2
  <2>4. Schedule(call[c].obj, late)
    BY <1>6, <2>3
  <2>5. /\ slot' \in Tasks /\ of'[slot'] = call[c].obj
        /\ slot' \in loose' <=> late
        /\ \A u \in Tasks : Live(u)' /\ u # slot' => u \in loose'
    BY <2>1, <2>4, Scheduling
  <2>6. OnlyRegisteredRuns'
    BY <1>1, <1>5, <1>6, <2>2, <2>5 DEF OnlyRegisteredRuns
  <2>7. NothingWhenDown'
    BY <1>1, <1>6 DEF NothingWhenDown, Running
  <2>8. SlotInDoubt'
    BY <1>1, <2>2, <2>5 DEF SlotInDoubt
  <2>9. FlagMatchesSlot'
    BY <1>1, <1>5, <1>6, <2>5, SchedulerConstants DEF FlagMatchesSlot, Running
  <2> QED
    BY <1>4, <2>6, <2>7, <2>8, <2>9 DEF MInv
<1>7. CASE PauseJobSaved(c)
  <2>1. /\ call[c].op = "pause" /\ slot' = None
        /\ pc' \in AfterCancel(slot) /\ loose' = Loose(pc')
    BY <1>7 DEF PauseJobSaved, Saved, PopTask
  <2>2. PICK p \in AfterCancel(slot) : p = pc'
    BY <2>1
  <2>3. \A u \in Tasks : Live(u)' => u \in loose'
    BY <2>1, <2>2, Popping DEF Live
  <2>4. NothingWhenDown' /\ OnlyRegisteredRuns'
    BY <1>1, <2>1, <2>3 DEF MInv, NothingWhenDown, OnlyRegisteredRuns
  <2>5. SlotInDoubt'
    BY <2>1, SchedulerConstants DEF SlotInDoubt, Overlap
  <2>6. FlagMatchesSlot'
    BY <1>1, <1>5, <2>1 DEF FlagMatchesSlot, Running
  <2> QED
    BY <1>4, <2>4, <2>5, <2>6 DEF MInv
<1>8. CASE /\ UNCHANGED <<slot, pc, of, loose>>
           /\ ~Running \/ (call[c].op = "add" /\ ~enabled[call[c].obj])
  <2>1. NothingWhenDown' /\ OnlyRegisteredRuns'
    BY <1>1, <1>8 DEF MInv, NothingWhenDown, OnlyRegisteredRuns, Live
  <2>2. Running => c \in overtaken
    BY <1>5, <1>8
  <2>3. SlotInDoubt' /\ FlagMatchesSlot'
    BY <1>1, <2>2 DEF SlotInDoubt, FlagMatchesSlot, Running
  <2> QED
    BY <1>4, <2>1, <2>3 DEF MInv
<1> QED
  BY <1>6, <1>7, <1>8 DEF Continue, AddJobSaved, ResumeJobSaved, Saved

-----------------------------------------------------------------------------
LEMMA InitManaged == Init => MInv
<1> SUFFICES ASSUME Init PROVE MInv
  OBVIOUS
<1> QED
  BY DEF Init, MInv, Overlap, NothingWhenDown, OnlyRegisteredRuns, LastCall, SlotInDoubt,
         FlagMatchesSlot, Live, Running

LEMMA NextManaged ==
  ASSUME WInv, MInv, ~OneShot, [Next]_vars
  PROVE  MInv'
<1>1. Overlap'
  BY OverlapStep DEF MInv
<1>2. CASE Start \/ Stop \/ Stopped \/ Crash
  BY <1>1, <1>2, StartManaged, EndsManaged
<1>3. ASSUME NEW c \in Callers,
             AddJob(c) \/ RemoveJob(c) \/ PauseJob(c) \/ ResumeJob(c) \/ Continue(c)
      PROVE  MInv'
  BY <1>1, <1>3, AddManaged, RemoveManaged, FlagManaged, ContinueManaged
<1>4. ASSUME NEW h \in Threads, WriteLands(h) \/ WriteFails(h) PROVE MInv'
  BY <1>1, <1>4, WritesManaged
<1>5. ASSUME NEW t \in Tasks, TaskStep(t) \/ CallbackRaises(t) PROVE MInv'
  BY <1>1, <1>5, TasksManaged
<1>6. CASE UNCHANGED vars
  BY <1>1, <1>6, QuietManaged DEF vars, Live
<1> QED
  BY <1>2, <1>3, <1>4, <1>5, <1>6 DEF Next

LEMMA ManagedInvariance == Spec => [](~OneShot => MInv)
<1>1. Init => (~OneShot => MInv)
  BY InitManaged
<1>2. WInv /\ (~OneShot => MInv) /\ [Next]_vars => (~OneShot => MInv)'
  <2> SUFFICES ASSUME WInv, ~OneShot => MInv, [Next]_vars, ~OneShot PROVE MInv'
    OBVIOUS
  <2> QED
    BY NextManaged
<1> QED
  BY <1>1, <1>2, SavesInvariance, PTL DEF Spec

(* However many users add, replace, pause, resume and remove a periodic    *)
(* job at once, and whatever fails, crashes and restarts: a task that is   *)
(* not the one in _tasks, or not of the object in _jobs, swallowed its     *)
(* cancellation or was started by an overtaken call.                       *)
THEOREM OnlyTheRegisteredJobRuns == Spec => []OnlyRegisteredRuns
<1>1. (~OneShot => MInv) => OnlyRegisteredRuns
  BY DEF MInv, OnlyRegisteredRuns
<1> QED
  BY <1>1, ManagedInvariance, PTL

(* And when no call is in progress, it is scheduled exactly when it is     *)
(* enabled, unless the last call to end had been overtaken or could not    *)
(* save.                                                                   *)
THEOREM EnabledJobsAreScheduled == Spec => []ScheduledIffEnabled
<1>1. (~OneShot => MInv) => ScheduledIffEnabled
  BY DEF MInv, FlagMatchesSlot, ScheduledIffEnabled, Unmanaged
<1> QED
  BY <1>1, ManagedInvariance, PTL

-----------------------------------------------------------------------------
LEMMA OverlapInvariance == Spec => []Overlap
<1>1. Init => Overlap
  BY DEF Init, Overlap
<1> QED
  BY <1>1, OverlapStep, PTL DEF Spec

(* Every variable keeps its type; and whoever awaits a save, a task or a   *)
(* management call, has one thread that writes for it: nobody waits for a  *)
(* write that was dropped, whatever was cancelled, failed or crashed.      *)
THEOREM TypeCorrect == Spec => []TypeOK
<1>1. WInv /\ Overlap => TypeOK
  <2> SUFFICES ASSUME WInv, Overlap PROVE TypeOK
    OBVIOUS
  <2>1. ASSUME NEW x \in Tasks \union Callers
        PROVE  Waiting(x) <=> Cardinality({h \in Threads : writes[h].by = x}) = 1
    <3> DEFINE W == {h \in Threads : writes[h].by = x}
    <3>1. \A h, k \in W : h = k
      BY SchedulerConstants DEF WInv, Served, OneWriteEach
    <3>2. CASE W = {}
      <4>1. ~Waiting(x)
        BY <3>2 DEF WInv, Served
      <4>2. Cardinality(W) = 0
        <5> HIDE DEF W
        <5> QED
          BY <3>2, FS_EmptySet
      <4>3. Cardinality(W) # 1
        BY <4>2, 0 # 1
      <4> QED
        BY <4>1, <4>3
    <3>3. CASE W # {}
      <4>1. PICK h \in W : W = {h}
        BY <3>1, <3>3
      <4>2. Waiting(x)
        BY <3>3 DEF WInv, Served
      <4>3. Cardinality(W) = 1
        <5> HIDE DEF W
        <5> QED
          BY <4>1, FS_Singleton
      <4> QED
        BY <4>2, <4>3
    <3> QED
      BY <3>2, <3>3
  <2>2. \A t \in Tasks : Waiting(t) <=> pc[t] = "saving"
    BY SchedulerConstants DEF Waiting
  <2>3. \A c \in Callers : Waiting(c) <=> call[c] # NoCall /\ ~call[c].saved
    BY SchedulerConstants DEF Waiting
  <2> QED
    BY <2>1, <2>2, <2>3 DEF WInv, Types, Bounds, Overlap, CallRecords, WriteRecords, TypeOK
<1> QED
  BY <1>1, SavesInvariance, OverlapInvariance, PTL
=============================================================================
