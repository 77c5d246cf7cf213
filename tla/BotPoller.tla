----------------------------- MODULE BotPoller -----------------------------
(***************************************************************************)
(* The long polling of a Telegram bot and the manager that starts and      *)
(* stops it with the settings (infrastructure/communication/               *)
(* telegram_poller.py, bot_poller_manager.py).                             *)
(*                                                                         *)
(* The offset lives in the poller; Telegram forgets an update when it is   *)
(* asked for a later one.  A new poller starts without an offset and gets  *)
(* again what was not confirmed.                                           *)
(***************************************************************************)
EXTENDS Integers

CONSTANTS
  MaxUpdates,  \* updates that users send to the bot (bound)
  MaxLives,    \* pollers started for the bot (bound)
  MaxSaves     \* settings saved that wait for a reconcile (bound)

ASSUME BotPollerConstants ==
  MaxUpdates \in Nat /\ MaxLives \in Nat /\ MaxSaves \in Nat \ {0}

Updates == 1..MaxUpdates

VARIABLES
  sent,       \* Telegram: updates 1..sent have arrived
  confirmed,  \* Telegram: those below are forgotten
  wanted,     \* settings: the bot is enabled
  saves,      \* reconcile() calls that wait for the lock
  reconcile,  \* the call that holds it: "no", "stopping", "starting"
  running,    \* the bot's poller is in _pollers
  stage,      \* its loop: "off", "polling", "fetched", "handling", "waiting"
  offset,     \* its _offset, 0 at first
  next, last, \* the updates fetched and not taken yet: next..last
  current,    \* the update in _handle_update, 0 if none
  tasks,      \* its _background_tasks, by update
  mine,       \* the updates this poller acted on
  open,       \* a question to the sender is pending
  dealt,      \* updates some poller answered with, handled, skipped, cut or dropped
  failed,     \* the latest reconcile raised, or could not start the poller
  lives,      \* pollers started
  cached,     \* the cached list has the bot "on" or "off"; "none": no list
  build,      \* the same of a list that a request's thread is building
  putting,    \* PUT or DELETE of the section has written, not cleared the cache
  silent      \* history: the section changed with no reconcile to follow, or an
              \* outdated list entered the cache, and none read the right one since

telegram == <<sent, confirmed>>
lists == <<cached, build, putting, silent>>
settings == <<wanted, saves, reconcile, running, failed, lives, lists>>
loop == <<stage, offset, next, last, current, mine>>
pollVars == <<telegram, settings, loop, tasks, open, dealt>>

PollTypeOK ==
  /\ sent \in 0..MaxUpdates /\ confirmed \in 1..(MaxUpdates + 1)
  /\ wanted \in BOOLEAN /\ saves \in 0..MaxSaves
  /\ reconcile \in {"no", "stopping", "starting"}
  /\ running \in BOOLEAN
  /\ stage \in {"off", "polling", "fetched", "handling", "waiting"}
  /\ offset \in 0..(MaxUpdates + 1)
  /\ next \in 1..(MaxUpdates + 1) /\ last \in 0..MaxUpdates
  /\ current \in 0..MaxUpdates
  /\ tasks \subseteq Updates
  /\ mine \subseteq Updates
  /\ open \in BOOLEAN
  /\ dealt \subseteq Updates
  /\ failed \in BOOLEAN /\ lives \in 0..MaxLives
  /\ cached \in {"none", "on", "off"} /\ build \in {"none", "on", "off"}
  /\ putting \in BOOLEAN /\ silent \in BOOLEAN

PollInit ==
  /\ sent = 0 /\ confirmed = 1
  /\ wanted = FALSE /\ saves = 0 /\ reconcile = "no" /\ running = FALSE
  /\ stage = "off" /\ offset = 0 /\ next = 1 /\ last = 0 /\ current = 0
  /\ tasks = {} /\ mine = {} /\ open = FALSE
  /\ dealt = {}
  /\ failed = FALSE /\ lives = 0
  /\ cached = "none" /\ build = "none" /\ putting = FALSE /\ silent = FALSE

ListSays(list) == IF list THEN "on" ELSE "off"

Deal(u) == dealt' = dealt \union {u}

-----------------------------------------------------------------------------
(* The user of the bot sends, and the agent asks. *)
Send ==
  /\ sent < MaxUpdates
  /\ sent' = sent + 1
  /\ UNCHANGED <<confirmed, settings, loop, tasks, open, dealt>>

Question ==
  /\ ~open /\ open' = TRUE
  /\ UNCHANGED <<telegram, settings, loop, tasks, dealt>>

-----------------------------------------------------------------------------
(* _poll_loop, _get_updates.  Telegram forgets what the offset confirms and *)
(* answers with all it has.                                                 *)
Confirmed == IF offset > confirmed THEN offset ELSE confirmed

Request ==
  /\ stage = "polling" /\ Confirmed <= sent
  /\ confirmed' = Confirmed
  /\ next' = Confirmed /\ last' = sent
  /\ stage' = "fetched"
  /\ UNCHANGED <<sent, settings, offset, current, mine, tasks, open, dealt>>

(* The long poll times out, or the request or its answer is lost, perhaps  *)
(* after Telegram has read the offset.                                     *)
RequestFails ==
  /\ stage \in {"polling", "fetched"}
  /\ confirmed' \in {confirmed, Confirmed}
  /\ next' = 1 /\ last' = 0
  /\ stage' = "waiting"
  /\ UNCHANGED <<sent, settings, offset, current, mine, tasks, open, dealt>>

Receive ==
  /\ stage = "fetched"
  /\ stage' = "handling"
  /\ UNCHANGED <<telegram, settings, offset, next, last, current, mine, tasks, open, dealt>>

FetchAgain ==
  /\ \/ stage = "waiting"
     \/ stage = "handling" /\ current = 0 /\ next > last
  /\ stage' = "polling"
  /\ next' = 1 /\ last' = 0
  /\ UNCHANGED <<telegram, settings, offset, current, mine, tasks, open, dealt>>

(* Mutant of Take: the offset stays. *)
TakeOnly ==
  /\ stage = "handling" /\ current = 0 /\ next <= last
  /\ current' = next /\ next' = next + 1
  /\ UNCHANGED <<telegram, settings, stage, offset, last, mine, tasks, open, dealt>>

(* Mutant of Take: the first of a batch confirms all of it. *)
TakeBatch ==
  /\ stage = "handling" /\ current = 0 /\ next <= last
  /\ current' = next /\ next' = next + 1
  /\ offset' = IF last + 1 > offset THEN last + 1 ELSE offset
  /\ UNCHANGED <<telegram, settings, stage, last, mine, tasks, open, dealt>>

(* _handle_update: the offset first. *)
Take ==
  /\ stage = "handling" /\ current = 0 /\ next <= last
  /\ current' = next /\ next' = next + 1
  /\ offset' = IF next + 1 > offset THEN next + 1 ELSE offset
  /\ UNCHANGED <<telegram, settings, stage, last, mine, tasks, open, dealt>>

Through ==
  /\ current # 0
  /\ mine' = mine \union {current} /\ current' = 0
  /\ UNCHANGED <<telegram, settings, stage, offset, next, last>>

(* A text without a file answers the open question. *)
Answer ==
  /\ Through /\ open
  /\ open' = FALSE
  /\ Deal(current)
  /\ UNCHANGED tasks

(* Else the inbound handler becomes a task. *)
Dispatch ==
  /\ Through
  /\ tasks' = tasks \union {current}
  /\ UNCHANGED <<open, dealt>>

(* No message, no sender, no handler, or a file that was lost. *)
Skip ==
  /\ Through
  /\ Deal(current)
  /\ UNCHANGED <<tasks, open>>

(* Registering the recipient or resolving the question raises: the rest of *)
(* the batch is dropped, to be fetched again.                              *)
HandlingRaises ==
  /\ current # 0
  /\ Deal(current)
  /\ current' = 0 /\ next' = 1 /\ last' = 0 /\ stage' = "waiting"
  /\ UNCHANGED <<telegram, settings, offset, mine, tasks, open>>

TaskEnds(u) ==
  /\ u \in tasks
  /\ tasks' = tasks \ {u}
  /\ Deal(u)
  /\ UNCHANGED <<telegram, settings, loop, open>>

-----------------------------------------------------------------------------
(* create_bot, update_bot and delete_bot save the list, clear the cached    *)
(* components and then await reconcile().                                  *)
SaveSettings ==
  /\ saves < MaxSaves
  /\ wanted' \in BOOLEAN
  /\ saves' = saves + 1
  /\ cached' = "none"
  /\ UNCHANGED <<telegram, loop, tasks, open, dealt, reconcile, running, failed,
                 lives, build, putting, silent>>

(* PUT and DELETE of the whole section run in a thread: the section changes *)
(* and then the cache is cleared, but nobody reconciles.  A test of a       *)
(* channel clears the cache too.                                           *)
PutSection ==
  /\ ~putting /\ putting' = TRUE
  /\ wanted' \in BOOLEAN
  /\ silent' = TRUE
  /\ UNCHANGED <<telegram, loop, tasks, open, dealt, saves, reconcile, running,
                 failed, lives, cached, build>>

ClearCache ==
  /\ cached' = "none" /\ putting' \in {putting, FALSE}
  /\ UNCHANGED <<telegram, loop, tasks, open, dealt, wanted, saves, reconcile,
                 running, failed, lives, build, silent>>

(* A request that finds no gateway builds the components in a thread, which *)
(* reads the settings first and fills the cache at its end.                 *)
BuildBegins ==
  /\ cached = "none" /\ build = "none"
  /\ build' = ListSays(wanted)
  /\ UNCHANGED <<telegram, loop, tasks, open, dealt, wanted, saves, reconcile,
                 running, failed, lives, cached, putting, silent>>

BuildEnds ==
  /\ build # "none"
  /\ cached' = build /\ build' = "none"
  /\ silent' = (silent \/ build # ListSays(wanted))
  /\ UNCHANGED <<telegram, loop, tasks, open, dealt, wanted, saves, reconcile,
                 running, failed, lives, putting>>

(* What a reconcile finds: the cached list, or else the settings. *)
List == IF cached = "none" THEN wanted ELSE cached = "on"

Task(list) ==
  IF list /\ ~running THEN "starting" ELSE IF running /\ ~list THEN "stopping" ELSE "no"

(* Mutant of BeginReconcile: no lock, so that a save finds one under way. *)
BeginReconcileUnlocked ==
  /\ saves > 0
  /\ saves' = saves - 1 /\ failed' = FALSE
  /\ reconcile' = IF reconcile # "no" THEN reconcile ELSE Task(List)
  /\ cached' = ListSays(List)
  /\ silent' = (silent /\ List # wanted)
  /\ UNCHANGED <<telegram, loop, tasks, open, dealt, wanted, running, lives, build, putting>>

(* The lock is free: the bot list is read and compared. *)
BeginReconcile ==
  /\ reconcile = "no" /\ saves > 0
  /\ saves' = saves - 1 /\ failed' = FALSE
  /\ reconcile' = Task(List)
  /\ cached' = ListSays(List)
  /\ silent' = (silent /\ List # wanted)
  /\ UNCHANGED <<telegram, loop, tasks, open, dealt, wanted, running, lives, build, putting>>

(* There is no manager, or the components cannot be built: no poller is     *)
(* stopped or started, and the route and the server swallow the exception.  *)
ReconcileRaises ==
  /\ reconcile = "no" /\ saves > 0
  /\ saves' = saves - 1 /\ failed' = TRUE
  /\ UNCHANGED <<telegram, loop, tasks, open, dealt, wanted, reconcile, running, lives, lists>>

(* The webhook is deleted and the loop started, with a poller of its own. *)
StartPoller ==
  /\ reconcile = "starting" /\ lives < MaxLives
  /\ reconcile' = "no" /\ running' = TRUE /\ lives' = lives + 1
  /\ stage' = "polling"
  /\ UNCHANGED <<telegram, offset, next, last, current, mine, tasks, open, dealt,
                 wanted, saves, failed, lists>>

StartFails ==
  /\ reconcile = "starting"
  /\ reconcile' = "no" /\ failed' = TRUE
  /\ UNCHANGED <<telegram, loop, tasks, open, dealt, wanted, saves, running, lives, lists>>

(* The poller is gone, and its handlers are cut off. *)
Off ==
  /\ running' = FALSE /\ reconcile' = "no"
  /\ stage' = "off" /\ offset' = 0 /\ next' = 1 /\ last' = 0 /\ current' = 0
  /\ mine' = {} /\ tasks' = {}
  /\ dealt' = dealt \union tasks

(* stop() cancels the loop at an await, then the handlers. *)
StopPoller ==
  /\ reconcile = "stopping"
  /\ Off
  /\ UNCHANGED <<telegram, open, wanted, saves, failed, lives, lists>>

(* The process ends or dies; its next start reconciles. *)
Restart ==
  /\ lives < MaxLives
  /\ Off
  /\ saves' = 1
  /\ cached' = "none" /\ build' = "none" /\ putting' = FALSE
  /\ UNCHANGED <<telegram, open, wanted, failed, lives, silent>>

PollNext ==
  \/ Send \/ Question
  \/ Request \/ RequestFails \/ Receive \/ FetchAgain
  \/ Take \/ Answer \/ Dispatch \/ Skip \/ HandlingRaises
  \/ \E u \in Updates : TaskEnds(u)
  \/ SaveSettings \/ PutSection \/ ClearCache \/ BuildBegins \/ BuildEnds
  \/ BeginReconcile \/ ReconcileRaises \/ StartPoller \/ StartFails \/ StopPoller
  \/ Restart

PollSpec == PollInit /\ [][PollNext]_pollVars

-----------------------------------------------------------------------------
(* A poller takes the updates in the order they came and each at most once, *)
(* whatever it has to fetch again (telegram_poller.py:165).                 *)
OnceInOrder == current # 0 => \A u \in mine : u < current

(* Telegram forgets an update only when it was used as an answer, had       *)
(* nothing to act on, its handler ran, runs or was cut off by a stop, or    *)
(* handling it raised: nothing is lost between two polls, two pollers or    *)
(* two processes (telegram_poller.py:144).                                  *)
NothingForgotten ==
  \A u \in Updates : u < confirmed => u \in dealt \/ u \in tasks

(* Once no reconcile is under way or waits, the bot is polled if and only   *)
(* if the settings enable it, however many saves, restarts and builds of    *)
(* the cached list met.  Excepted are what the latest reconcile could not   *)
(* do (it raised, or Telegram refused the poller) and a section replaced    *)
(* by PUT or DELETE, or a list cached by a thread that read before a save,  *)
(* until a reconcile reads the right list (bot_poller_manager.py:107).      *)
SettingsTakeEffect ==
  saves = 0 /\ reconcile = "no" /\ ~failed /\ ~silent => (running <=> wanted)
=============================================================================
