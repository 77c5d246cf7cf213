------------------------------ MODULE Scheduler ------------------------------
(***************************************************************************)
(* SchedulerService (infrastructure/scheduler/scheduler_service.py) over   *)
(* FileJobStore (file_job_store.py) and the thread that atomic_write_text  *)
(* (core/utils/atomic_io.py) writes in.                                    *)
(*                                                                         *)
(* Jobs share nothing but the _running flag, so the module follows one     *)
(* job_id: its file, its entry in _jobs, its task in _tasks, the coroutine *)
(* calls that manage it, and every task that was ever started for it.      *)
(* Cancelling the task that awaits a save does not stop the thread.        *)
(***************************************************************************)
EXTENDS Integers, FiniteSets

CONSTANTS
  OneShot,        \* schedule_type = ONE_SHOT; otherwise INTERVAL or CRON
  Callers,        \* concurrent users of the management calls
  Ops,            \* the calls they make: subset of {"add","remove","pause","resume"}
  Tasks,          \* asyncio tasks started for the job (bound)
  Objects,        \* ScheduleJob objects in memory at a time (bound)
  Threads,        \* writes in flight at a time (bound)
  MaxStarts,      \* how often the service is started (bound)
  Absorbs,        \* the event callback may swallow a CancelledError
  Faults,         \* writes and callbacks may raise
  None

ASSUME SchedulerConstants ==
  /\ OneShot \in BOOLEAN /\ Absorbs \in BOOLEAN /\ Faults \in BOOLEAN
  /\ Ops \subseteq {"add", "remove", "pause", "resume"}
  /\ MaxStarts \in Nat
  /\ None \notin Tasks \union Objects \union Callers
  /\ Tasks \intersect Callers = {}

VARIABLES
  up,          \* "down", "running" (_running), "stopping" (in the gather of stop)
  registered,  \* the object in _jobs
  enabled,     \* enabled[o]: ScheduleJob.enabled
  fired,       \* fired[o]: ScheduleJob.last_fired_at is set
  slot,        \* the task in _tasks; None also for a task that returned
  pc,          \* pc[t]: where task t awaits
  of,          \* of[t]: the object task t was started with
  call,        \* call[c]: the add_job, pause_job or resume_job c is in
  writes,      \* writes[h]: the write thread h has in flight
  disk,        \* the content of the job's file
  starts,      \* how often start() ran
  life,        \* "live" once somebody has added the job, "new" before
  fires,       \* callbacks begun for a one-shot job (saturates at MaxFires)
  (* History, which no step depends on: *)
  overtaken,   \* the calls in progress since whose beginning another began
  loose,       \* tasks that a cancellation did not stop or an overtaken call started
  doubt        \* the last call to end had been overtaken, or its save failed

vars == <<up, registered, enabled, fired, slot, pc, of, call, writes, disk,
          starts, life, fires, overtaken, loose, doubt>>
overlapVars == <<overtaken, loose, doubt>>
historyVars == <<starts, life, fires, overtaken, loose, doubt>>

MaxFires == 2

NoCall == [op |-> "none", obj |-> None, saved |-> FALSE]
NoWrite == [by |-> None, enabled |-> FALSE, fired |-> FALSE, busy |-> FALSE]

(* none, ready (created, not yet run), sleep, saving and saved (the save   *)
(* of _fire_job), callback, failed (ended by an exception)                 *)
TaskStates == {"none", "ready", "sleep", "saving", "saved", "callback", "failed"}
Live(t) == pc[t] \notin {"none", "failed"}
Running == up = "running"

NothingInMemory ==
  /\ registered' = None /\ slot' = None
  /\ pc' = [t \in Tasks |-> "none"]
  /\ of' = [t \in Tasks |-> None]
  /\ enabled' = [o \in Objects |-> FALSE]
  /\ fired' = [o \in Objects |-> FALSE]
  /\ call' = [c \in Callers |-> NoCall]
  /\ overtaken' = {} /\ loose' = {} /\ doubt' = FALSE

Init ==
  /\ up = "down" /\ registered = None /\ slot = None
  /\ enabled = [o \in Objects |-> FALSE] /\ fired = [o \in Objects |-> FALSE]
  /\ pc = [t \in Tasks |-> "none"] /\ of = [t \in Tasks |-> None]
  /\ call = [c \in Callers |-> NoCall]
  /\ writes = [h \in Threads |-> NoWrite]
  /\ disk = None /\ starts = 0 /\ life = "new" /\ fires = 0
  /\ overtaken = {} /\ loose = {} /\ doubt = FALSE

-----------------------------------------------------------------------------
(* FileJobStore.save: the job is serialised at once and handed to a thread *)
(* while `who` awaits it.  w is the state of the threads before.           *)
Save(w, who, isEnabled, isFired) ==
  \E h \in Threads :
    /\ ~w[h].busy
    /\ writes' = [w EXCEPT ![h] =
         [by |-> who, enabled |-> isEnabled, fired |-> isFired, busy |-> TRUE]]

(* Task.cancel on a task t (None: nothing to cancel).  It dies at its      *)
(* await; a callback may swallow the CancelledError, and then t goes on.   *)
AfterCancel(t) ==
  IF t = None THEN {pc}
  ELSE {[pc EXCEPT ![t] = "none"]} \union
       (IF pc[t] = "callback" /\ Absorbs THEN {pc} ELSE {})

(* The thread of its save goes on without it, or never got to run.         *)
WritesAfterCancel(t) ==
  LET orphaned(h, w) == IF t # None /\ writes[h].by = t THEN w ELSE writes[h]
  IN {[h \in Threads |-> orphaned(h, NoWrite)],
      [h \in Threads |-> orphaned(h, [writes[h] EXCEPT !.by = None])]}

(* The tasks at large once the one in _tasks was cancelled and taken out.  *)
Loose(p) ==
  {t \in loose : p[t] \notin {"none", "failed"}} \union
    {t \in Tasks : t = slot /\ p[t] = "callback"}

(* _schedule_task: the registered task is replaced.  The new one is loose  *)
(* from the start when the call that schedules it was overtaken.           *)
Schedule(o, late) ==
  \E p \in AfterCancel(slot), t \in Tasks :
    /\ p[t] = "none"
    /\ slot' = t
    /\ pc' = [p EXCEPT ![t] = "ready"]
    /\ of' = [of EXCEPT ![t] = o]
    /\ writes' \in WritesAfterCancel(slot)
    /\ loose' = (Loose(p) \ {t}) \union (IF late THEN {t} ELSE {})

(* _tasks.pop(job_id) and cancel *)
PopTask ==
  /\ pc' \in AfterCancel(slot)
  /\ slot' = None
  /\ loose' = Loose(pc')

(* Task t ends with an exception, which _run_job_loop logs: the finished   *)
(* task stays in _tasks.                                                   *)
Raises(t) == [pc EXCEPT ![t] = IF slot = t THEN "failed" ELSE "none"]

(* The end of task t. *)
Ends(t) ==
  /\ pc' = [pc EXCEPT ![t] = "none"]
  /\ slot' = IF slot = t THEN None ELSE slot

(* The last lines of a one-shot task: pop _jobs and _tasks, delete.  The   *)
(* store's delete does not suspend.                                        *)
CleanUp(t) ==
  /\ registered' = None /\ disk' = None /\ slot' = None
  /\ pc' = [pc EXCEPT ![t] = "none"]

-----------------------------------------------------------------------------
(* start, which nobody calls while tasks or calls of an earlier service    *)
(* still run; writes they abandoned may be in flight.                      *)
MayStart ==
  /\ up = "down" /\ starts < MaxStarts
  /\ \A t \in Tasks : ~Live(t)
  /\ \A c \in Callers : call[c] = NoCall

Load(o) ==
  /\ registered' = o
  /\ enabled' = [enabled EXCEPT ![o] = disk.enabled]
  /\ fired' = [fired EXCEPT ![o] = disk.fired]
  /\ IF disk.enabled THEN Schedule(o, FALSE)
     ELSE UNCHANGED <<slot, pc, of, writes, loose>>
  /\ UNCHANGED disk

Start ==
  /\ MayStart
  /\ up' = "running" /\ starts' = starts + 1
  /\ CASE disk = None ->
            UNCHANGED <<registered, enabled, fired, slot, pc, of, disk, writes, loose>>
       [] disk # None /\ OneShot /\ disk.fired ->
            /\ disk' = None
            /\ UNCHANGED <<registered, enabled, fired, slot, pc, of, writes, loose>>
       [] OTHER -> \E o \in Objects : Load(o)
  /\ doubt' = FALSE
  /\ UNCHANGED <<call, life, fires, overtaken>>

(* stop: every registered task is cancelled, then awaited. *)
Stop ==
  /\ Running
  /\ up' = "stopping"
  /\ pc' \in AfterCancel(slot)
  /\ writes' \in WritesAfterCancel(slot)
  /\ UNCHANGED <<registered, enabled, fired, slot, of, call, disk, historyVars>>

Stopped ==
  /\ up = "stopping"
  /\ slot # None => ~Live(slot)
  /\ up' = "down" /\ slot' = None /\ registered' = None
  /\ pc' = IF slot = None THEN pc ELSE [pc EXCEPT ![slot] = "none"]
  /\ UNCHANGED <<enabled, fired, of, call, writes, disk, historyVars>>

(* The process dies with all its threads. *)
Crash ==
  /\ up # "down" \/ \E h \in Threads : writes[h].busy
  /\ up' = "down"
  /\ NothingInMemory
  /\ writes' = [h \in Threads |-> NoWrite]
  /\ UNCHANGED <<disk, starts, life, fires>>

-----------------------------------------------------------------------------
(* The management calls, up to their save and after it.  A caller adds a   *)
(* one-shot job once, under a fresh id; register_schedule_for adds a cron  *)
(* job again under the same id, after remove_job, without an await that    *)
(* suspends in between.                                                    *)
MayCall(c, op) == Running /\ op \in Ops /\ call[c] = NoCall
Begins == overtaken' = {c \in Callers : call[c] # NoCall}
Called(c, op, o) ==
  /\ call' = [call EXCEPT ![c] = [op |-> op, obj |-> o, saved |-> FALSE]]
  /\ Begins
Over(c) == call' = [call EXCEPT ![c] = NoCall] /\ overtaken' = overtaken \ {c}
Returns(c) == Over(c) /\ doubt' = (c \in overtaken)
Saved(c, op) == call[c].op = op /\ call[c].saved

InUse == {registered} \union {of[t] : t \in {u \in Tasks : Live(u)}}
           \union {call[c].obj : c \in Callers}

AddJob(c) ==
  /\ MayCall(c, "add")
  /\ OneShot => life = "new"
  /\ IF registered = None THEN UNCHANGED <<slot, pc, disk, loose>>
                          ELSE PopTask /\ disk' = None
  /\ \E o \in Objects \ InUse :
       /\ registered' = o
       /\ enabled' = [enabled EXCEPT ![o] = TRUE]
       /\ fired' = [fired EXCEPT ![o] = FALSE]
       /\ \E w \in IF registered = None THEN {writes} ELSE WritesAfterCancel(slot) :
            Save(w, c, TRUE, FALSE)
       /\ Called(c, "add", o)
  /\ life' = "live"
  /\ UNCHANGED <<up, of, starts, fires, doubt>>

AddJobSaved(c) ==
  /\ Saved(c, "add")
  /\ IF enabled[call[c].obj] /\ Running
     THEN Schedule(call[c].obj, c \in overtaken)
     ELSE UNCHANGED <<slot, pc, of, writes, loose>>
  /\ Returns(c)
  /\ UNCHANGED <<up, registered, enabled, fired, disk, starts, life, fires>>

(* Mutant of RemoveJob: the task is popped but not cancelled. *)
RemoveJobKeepsTask(c) ==
  /\ MayCall(c, "remove")
  /\ registered # None
  /\ registered' = None /\ disk' = None /\ slot' = None
  /\ Begins
  /\ UNCHANGED <<up, enabled, fired, pc, of, call, writes, starts, life, fires, loose, doubt>>

RemoveJob(c) ==
  /\ MayCall(c, "remove")
  /\ registered # None
  /\ PopTask
  /\ writes' \in WritesAfterCancel(slot)
  /\ registered' = None /\ disk' = None
  /\ Begins
  /\ UNCHANGED <<up, enabled, fired, of, call, starts, life, fires, doubt>>

PauseJob(c) ==
  /\ MayCall(c, "pause")
  /\ registered # None
  /\ enabled' = [enabled EXCEPT ![registered] = FALSE]
  /\ Save(writes, c, FALSE, fired[registered])
  /\ Called(c, "pause", registered)
  /\ UNCHANGED <<up, registered, fired, slot, pc, of, disk, starts, life, fires, loose, doubt>>

(* Mutant of PauseJobSaved: the sleeping task is left alone. *)
PauseJobKeepsTask(c) ==
  /\ Saved(c, "pause")
  /\ Returns(c)
  /\ UNCHANGED <<up, registered, enabled, fired, slot, pc, of, writes, disk, starts, life,
                 fires, loose>>

PauseJobSaved(c) ==
  /\ Saved(c, "pause")
  /\ PopTask
  /\ writes' \in WritesAfterCancel(slot)
  /\ Returns(c)
  /\ UNCHANGED <<up, registered, enabled, fired, of, disk, starts, life, fires>>

ResumeJob(c) ==
  /\ MayCall(c, "resume")
  /\ registered # None
  /\ enabled' = [enabled EXCEPT ![registered] = TRUE]
  /\ Save(writes, c, TRUE, fired[registered])
  /\ Called(c, "resume", registered)
  /\ UNCHANGED <<up, registered, fired, slot, pc, of, disk, starts, life, fires, loose, doubt>>

ResumeJobSaved(c) ==
  /\ Saved(c, "resume")
  /\ IF Running THEN Schedule(call[c].obj, c \in overtaken)
                ELSE UNCHANGED <<slot, pc, of, writes, loose>>
  /\ Returns(c)
  /\ UNCHANGED <<up, registered, enabled, fired, disk, starts, life, fires>>

-----------------------------------------------------------------------------
(* The threads. *)
Done(h) == writes' = [writes EXCEPT ![h] = NoWrite]

WriteLands(h) ==
  /\ writes[h].busy
  /\ disk' = [enabled |-> writes[h].enabled, fired |-> writes[h].fired]
  /\ Done(h)
  /\ LET who == writes[h].by
     IN /\ pc' = IF who \in Tasks THEN [pc EXCEPT ![who] = "saved"] ELSE pc
        /\ call' = IF who \in Callers THEN [call EXCEPT ![who].saved = TRUE] ELSE call
  /\ UNCHANGED <<up, registered, enabled, fired, slot, of, historyVars>>

(* The exception ends the task, or the caller's call. *)
WriteFails(h) ==
  /\ Faults
  /\ writes[h].busy
  /\ Done(h)
  /\ LET who == writes[h].by
     IN /\ pc' = IF who \in Tasks THEN Raises(who) ELSE pc
        /\ IF who \in Callers THEN Over(who) /\ doubt' = TRUE
                              ELSE UNCHANGED <<call, overtaken, doubt>>
  /\ UNCHANGED <<up, registered, enabled, fired, slot, of, disk, starts, life, fires, loose>>

-----------------------------------------------------------------------------
(* A job's task: _run_one_shot, _run_interval and _run_cron. *)
MayLoop(t) == Running /\ enabled[of[t]]

Begin(t) ==
  /\ pc[t] = "ready"
  /\ CASE OneShot /\ fired[of[t]] -> CleanUp(t)
       [] ~OneShot /\ ~MayLoop(t) -> Ends(t) /\ UNCHANGED <<registered, disk>>
       [] OTHER -> /\ pc' = [pc EXCEPT ![t] = "sleep"]
                   /\ UNCHANGED <<slot, registered, disk>>
  /\ UNCHANGED <<up, enabled, fired, of, call, writes, historyVars>>

(* _fire_job up to its save.  A one-shot does not look at enabled again. *)
MayFire(t) == pc[t] = "sleep" /\ (OneShot \/ MayLoop(t))

BeginCallback(t) ==
  /\ pc' = [pc EXCEPT ![t] = "callback"]
  /\ fires' = IF OneShot /\ fires < MaxFires THEN fires + 1 ELSE fires

(* Mutant of Fire: the callback runs before anything is persisted. *)
FireUnsaved(t) ==
  /\ MayFire(t)
  /\ fired' = [fired EXCEPT ![of[t]] = TRUE]
  /\ BeginCallback(t)
  /\ UNCHANGED <<up, registered, enabled, slot, of, call, writes, disk, starts, life,
                 overlapVars>>

(* Mutant of Fire: the job is serialised before last_fired_at is set. *)
FireStale(t) ==
  /\ MayFire(t)
  /\ fired' = [fired EXCEPT ![of[t]] = TRUE]
  /\ Save(writes, t, enabled[of[t]], fired[of[t]])
  /\ pc' = [pc EXCEPT ![t] = "saving"]
  /\ UNCHANGED <<up, registered, enabled, slot, of, call, disk, historyVars>>

Fire(t) ==
  /\ MayFire(t)
  /\ fired' = [fired EXCEPT ![of[t]] = TRUE]
  /\ Save(writes, t, enabled[of[t]], TRUE)
  /\ pc' = [pc EXCEPT ![t] = "saving"]
  /\ UNCHANGED <<up, registered, enabled, slot, of, call, disk, historyVars>>

LeaveLoop(t) ==
  /\ pc[t] = "sleep" /\ ~MayFire(t)
  /\ Ends(t)
  /\ UNCHANGED <<up, registered, enabled, fired, of, call, writes, disk, historyVars>>

Callback(t) ==
  /\ pc[t] = "saved"
  /\ BeginCallback(t)
  /\ UNCHANGED <<up, registered, enabled, fired, slot, of, call, writes, disk, starts, life,
                 overlapVars>>

CallbackReturns(t) ==
  /\ pc[t] = "callback"
  /\ CASE OneShot -> CleanUp(t)
       [] ~OneShot /\ MayLoop(t) -> /\ pc' = [pc EXCEPT ![t] = "sleep"]
                                    /\ UNCHANGED <<slot, registered, disk>>
       [] OTHER -> Ends(t) /\ UNCHANGED <<registered, disk>>
  /\ UNCHANGED <<up, enabled, fired, of, call, writes, historyVars>>

CallbackRaises(t) ==
  /\ Faults
  /\ pc[t] = "callback"
  /\ pc' = Raises(t)
  /\ UNCHANGED <<up, registered, enabled, fired, slot, of, call, writes, disk, historyVars>>

-----------------------------------------------------------------------------
TaskStep(t) == Begin(t) \/ Fire(t) \/ LeaveLoop(t) \/ Callback(t) \/ CallbackReturns(t)
Continue(c) == AddJobSaved(c) \/ PauseJobSaved(c) \/ ResumeJobSaved(c)

Next ==
  \/ Start \/ Stop \/ Stopped \/ Crash
  \/ \E c \in Callers :
       AddJob(c) \/ RemoveJob(c) \/ PauseJob(c) \/ ResumeJob(c) \/ Continue(c)
  \/ \E h \in Threads : WriteLands(h) \/ WriteFails(h)
  \/ \E t \in Tasks : TaskStep(t) \/ CallbackRaises(t)

Spec == Init /\ [][Next]_vars

-----------------------------------------------------------------------------
(* The state is well formed, and whoever awaits a save has exactly one     *)
(* thread working for it.                                                  *)
TypeOK ==
  /\ up \in {"down", "running", "stopping"}
  /\ registered \in Objects \union {None}
  /\ enabled \in [Objects -> BOOLEAN] /\ fired \in [Objects -> BOOLEAN]
  /\ slot \in Tasks \union {None}
  /\ pc \in [Tasks -> TaskStates] /\ of \in [Tasks -> Objects \union {None}]
  /\ call \in [Callers -> [op : Ops \union {"none"}, obj : Objects \union {None},
                           saved : BOOLEAN]]
  /\ writes \in [Threads -> [by : Tasks \union Callers \union {None},
                             enabled : BOOLEAN, fired : BOOLEAN, busy : BOOLEAN]]
  /\ disk \in [enabled : BOOLEAN, fired : BOOLEAN] \union {None}
  /\ overtaken \subseteq Callers /\ loose \subseteq Tasks /\ doubt \in BOOLEAN
  /\ starts \in 0..MaxStarts /\ life \in {"new", "live"}
  /\ fires \in 0..MaxFires
  /\ \A t \in Tasks :
       (pc[t] = "saving") <=> Cardinality({h \in Threads : writes[h].by = t}) = 1
  /\ \A c \in Callers :
       (call[c] # NoCall /\ ~call[c].saved) <=>
         Cardinality({h \in Threads : writes[h].by = c}) = 1

(* docs/spec/events-scheduler.md, "never re-fires (crash-safe)": however   *)
(* often the service crashes, stops and starts, and whatever writes are    *)
(* still under way then, a one-shot job's action runs at most once.        *)
FiresAtMostOnce == OneShot => fires <= 1

(* What that rests on: from the start of its action on, no file and no     *)
(* write in flight describes the job as one that still has to fire.        *)
NeverForgotten ==
  OneShot /\ fires > 0 =>
    /\ disk # None => disk.fired \/ ~disk.enabled
    /\ \A h \in Threads : writes[h].busy => writes[h].fired \/ ~writes[h].enabled

(* Every task that still runs is the one in _tasks and works on the object *)
(* in _jobs, whatever calls overlap and fail: no replaced, paused or       *)
(* removed schedule of a periodic job goes on unseen.  Only a task whose   *)
(* callback swallowed the cancellation does, and one that a call started   *)
(* after another call had begun behind its back.                           *)
OnlyRegisteredRuns ==
  ~OneShot => \A t \in Tasks : Live(t) => (slot = t /\ of[t] = registered) \/ t \in loose

Unmanaged == Running /\ registered # None /\ \A c \in Callers : call[c] = NoCall

(* When no call is in progress a periodic job is scheduled exactly when it *)
(* is enabled, whatever mix of pausing, resuming, firing, failing and      *)
(* replacing led there, unless the last call to end had been overtaken or  *)
(* could not save.                                                         *)
ScheduledIffEnabled ==
  ~OneShot /\ Unmanaged /\ ~doubt => (enabled[registered] <=> slot # None)
=============================================================================
