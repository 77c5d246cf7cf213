------------------------------ MODULE ReactLoop ------------------------------
(***************************************************************************)
(* One session of an agent that runs the native ReAct strategy             *)
(* (core/domain/planning/, NativeReActStrategy in planning_strategy.py):   *)
(* a run loads the session's state, resumes it if it was paused, and       *)
(* alternates LLM calls and tool batches until an answer, a question to    *)
(* the user, an interrupt, an abort or the step limit.  A run may also die *)
(* at any await: by a crash, by a cancellation or by an exception that     *)
(* leaves the loop.  Only the saved state survives it, and a save or a     *)
(* load that fails is only logged.                                         *)
(*                                                                         *)
(* Whether a result shows progress, a call repeats, or a promised file is  *)
(* missing depends on tools, files and texts: these are free choices.      *)
(***************************************************************************)
EXTENDS MessageHistory

CONSTANTS
  MaxSteps,          \* agent.max_steps
  MaxErrors,         \* _MAX_CONSECUTIVE_LLM_ERRORS (3)
  StuckLimit,        \* react_no_progress_threshold (2)
  RepeatLimit,       \* react_signature_repeat_threshold (3)
  MaxNudges,         \* _DELIVERABLE_MAX_NUDGES (3)
  MaxPivots,         \* _PIVOT_MAX (3)
  MaxBatch,          \* tool calls in one LLM answer (bound)
  MaxPast,           \* messages of earlier turns in a fresh history (bound)
  MaxUnread,         \* messages of a saved pause that may be unreadable (bound)
  MaxUser,           \* user messages after which optional ones stop (bound)
  MaxRuns            \* missions and answers the session gets (bound)

ASSUME LoopConstants ==
  /\ {MaxErrors, StuckLimit, RepeatLimit, MaxNudges, MaxBatch} \subseteq Nat \ {0}
  /\ {MaxSteps, MaxPivots, MaxPast, MaxUnread, MaxUser, MaxRuns} \subseteq Nat

VARIABLES
  streaming, \* the provider has complete_stream
  pc,       \* where the run awaits
  msgs,     \* agent.context.messages
  step,     \* step
  errors,   \* consecutive_llm_errors
  guard,    \* the local counters of the stall and deliverable checks
  state,    \* the pause markers in the run's state dict
  disk,     \* the same in the saved session state
  events,   \* the verdict events the run has emitted
  ended,    \* the last run reached its COMPLETE event
  unsaved,  \* each save of what the run told its caller has failed
  runs,     \* missions and answers so far
  spent     \* LLM calls of the mission now and when it last paused,
            \* counted up to one too many

vars == <<streaming, pc, msgs, step, errors, guard, state, disk, events, ended,
          unsaved, runs, spent>>

Kinds == {"act", "ask"}                      \* ask: the ask_user tool
Batches == UNION {[1..n -> Kinds] : n \in 1..MaxBatch}

NotPaused == [why |-> "none", msgs |-> <<>>, call |-> 0, step |-> 0]

(* stuck: consecutive_no_progress_steps; repeats: repeated_signature_count;*)
(* acted: last_tool_signature is set; warned: the pre-stall nudge was      *)
(* given; nudges and pivots: reminders of a missing deliverable            *)
Fresh == [stuck |-> 0, repeats |-> 0, acted |-> FALSE, warned |-> FALSE,
          nudges |-> 0, pivots |-> 0]

Init ==
  /\ streaming \in BOOLEAN
  /\ pc = "idle" /\ msgs = <<>> /\ step = 0 /\ errors = 0 /\ guard = Fresh
  /\ state = NotPaused /\ disk = NotPaused
  /\ events = <<>> /\ ended = FALSE /\ unsaved = FALSE /\ runs = 0
  /\ spent = [now |-> 0, paused |-> 0]

Emit(e) == events' = Append(events, e)
Add(m) == msgs' = msgs \o m

(* A reminder that a message list may or may not get. *)
Room == Cardinality({i \in DOMAIN msgs : msgs[i].role = "user"}) < MaxUser
Reminder == {<<>>} \union IF Room THEN {<<User>>} ELSE {}

(* build_initial_messages: the system prompt, earlier turns, the mission *)
Initial(past) ==
  <<System>> \o [i \in 1..past |-> IF i % 2 = 1 THEN User ELSE Assistant] \o <<User>>

(* Mutant of Resumed: the answer becomes a user turn. *)
ResumedAsTurn(p, turn) ==
  p.msgs \o IF p.why = "question" THEN <<User>> ELSE turn

(* _resume_from_pause: the mission answers the question, or it is a new    *)
(* turn (nothing, if it is blank)                                          *)
Resumed(p, turn) ==
  p.msgs \o IF p.why = "question" THEN <<Reply(p.call, "answer")>> ELSE turn

(* execute_stream up to the loop.  A session that is not paused, or whose  *)
(* file cannot be read (load_state returns None; only of a short pause, to *)
(* bound the model), starts afresh.                                        *)
Start ==
  /\ pc = "idle" /\ runs < MaxRuns
  /\ \/ /\ Len(disk.msgs) <= MaxUnread
        /\ \E past \in 0..MaxPast : msgs' = Initial(past)
        /\ step' = 0
        /\ spent' = [spent EXCEPT !.now = 0]
     \/ /\ disk # NotPaused
        /\ \E turn \in {<<>>, <<User>>} : msgs' = Resumed(disk, turn)
        /\ step' = disk.step
        /\ spent' = [spent EXCEPT !.now = spent.paused]
  /\ state' = NotPaused
  /\ errors' = 0 /\ guard' = Fresh
  /\ events' = <<>> /\ ended' = FALSE /\ unsaved' = FALSE
  /\ runs' = runs + 1
  /\ pc' = "top"
  /\ UNCHANGED <<streaming, disk>>

NudgesLeft == guard.nudges < MaxNudges
PivotsLeft == guard.pivots < MaxPivots

(* A save that works, and one that does not: save_state returns FALSE, and *)
(* LeanAgentStateStore.save tells nobody.                                  *)
Lands(record) == disk' = record /\ spent' = [spent EXCEPT !.paused = spent.now]
Fails == UNCHANGED <<disk, spent>>

(* The pause markers are set and saved, then the event goes out. *)
Pause(record) ==
  /\ state' = record
  /\ \/ Lands(record) /\ unsaved' = FALSE
     \/ Fails /\ unsaved' = TRUE
  /\ pc' = "ending"

(* _handle_interrupt.  A request to interrupt may come at any time; the    *)
(* agent only looks for one here, and clears it here and before it starts. *)
Interrupted ==
  /\ pc = "top" /\ step < MaxSteps
  /\ Pause([why |-> "interrupt", msgs |-> msgs, call |-> 0, step |-> step])
  /\ Emit("interrupted")
  /\ UNCHANGED <<streaming, msgs, step, errors, guard, ended, runs>>

(* One iteration up to the LLM call: reminders of broken tools and of a    *)
(* missing deliverable, then prepare_for_llm.  A pivot check that finds    *)
(* the files switches further ones off.                                    *)
CallLLM ==
  /\ pc = "top" /\ step < MaxSteps
  /\ \E broken \in Reminder, pivot \in {"none", "nudge", "off"} :
       /\ pivot # "none" => PivotsLeft
       /\ guard' = [guard EXCEPT !.pivots =
                      CASE pivot = "none"  -> @
                        [] pivot = "nudge" -> @ + 1
                        [] pivot = "off"   -> MaxPivots]
       /\ msgs' \in Prepared(msgs \o broken \o IF pivot = "nudge" THEN <<User>> ELSE <<>>)
  /\ spent' = [spent EXCEPT !.now = IF @ > MaxSteps THEN @ ELSE @ + 1]
  /\ pc' = "llm"
  /\ UNCHANGED <<streaming, step, errors, state, disk, events, ended, unsaved, runs>>

(* A stream reports its error at once; complete() tells the LLM instead.   *)
LLMFails ==
  /\ pc = "llm"
  /\ step' = step + 1
  /\ errors' = errors + 1
  /\ LET reported == IF streaming THEN <<"error">> ELSE <<>>
         aborts == errors + 1 >= MaxErrors
     IN  /\ events' = events \o reported \o IF aborts THEN <<"error">> ELSE <<>>
         /\ pc' = IF aborts THEN "ending" ELSE "top"
  /\ Add(IF streaming THEN <<>> ELSE <<User>>)
  /\ UNCHANGED <<streaming, guard, state, disk, ended, unsaved, runs, spent>>

(* a non_retryable error chunk, such as a blocked prompt *)
LLMRejects ==
  /\ pc = "llm" /\ streaming
  /\ Emit("error")
  /\ pc' = "ending"
  /\ UNCHANGED <<streaming, msgs, step, errors, guard, state, disk, ended, unsaved, runs, spent>>

(* An error chunk after some text or calls came through is reported, and   *)
(* what came through is used.                                              *)
Reported == {<<>>} \union IF streaming THEN {<<"error">>} ELSE {}

(* neither a usable call nor text *)
Empty ==
  /\ pc = "llm"
  /\ \E late \in Reported : events' = events \o late
  /\ Add(<<User>>)
  /\ step' = step + 1 /\ errors' = 0
  /\ pc' = "top"
  /\ UNCHANGED <<streaming, guard, state, disk, ended, unsaved, runs, spent>>

(* Text without calls is the answer, unless a deliverable is missing. *)
Content ==
  /\ pc = "llm"
  /\ step' = step + 1 /\ errors' = 0
  /\ \E missing \in BOOLEAN, late \in Reported :
       \/ /\ missing /\ NudgesLeft
          /\ guard' = [guard EXCEPT !.nudges = @ + 1]
          /\ Add(<<Assistant, User>>)
          /\ events' = events \o late
          /\ pc' = "top"
       \/ /\ ~(missing /\ NudgesLeft)
          /\ Add(<<Assistant>>)
          /\ events' = events \o late \o <<IF missing THEN "salvaged" ELSE "answer">>
          /\ pc' = "ending"
          /\ UNCHANGED guard
  /\ UNCHANGED <<streaming, state, disk, ended, unsaved, runs, spent>>

(* Mutant of FirstAsk: a later question replaces an earlier one. *)
LastAsk(b) == Last({i \in DOMAIN b : b[i] = "ask"})

FirstAsk(b) == CHOOSE i \in DOMAIN b : b[i] = "ask" /\ \A j \in 1..(i - 1) : b[j] # "ask"

(* Mutant of Skipped: the calls after the question are forgotten. *)
SkippedQueued(b) == [i \in 1..(FirstAsk(b) - 1) |-> Reply(i, "skipped")]

(* the calls queued before the question, and those not yet looked at *)
Skipped(b) ==
  [i \in 1..(Len(b) - 1) |-> Reply(IF i < FirstAsk(b) THEN i ELSE i + 1, "skipped")]

(* Mutant of Question: the step of the question is not counted. *)
QuestionSameStep(history, call) ==
  [why |-> "question", msgs |-> history, call |-> call, step |-> step]

(* the pause markers _handle_ask_user saves *)
Question(history, call) ==
  [why |-> "question", msgs |-> history, call |-> call, step |-> step + 1]

(* _process_tool_calls of a batch with an ask_user call: the other calls   *)
(* are answered as skipped, and the run pauses.                            *)
Ask ==
  /\ pc = "llm"
  /\ errors' = 0
  /\ \E b \in Batches, reread \in Reminder, late \in Reported :
       LET history == msgs \o reread \o <<Calls(b)>> \o Skipped(b)
       IN  /\ \E i \in DOMAIN b : b[i] = "ask"
           /\ msgs' = history
           /\ Pause(Question(history, FirstAsk(b)))
           /\ events' = events \o late \o <<"question">>
  /\ UNCHANGED <<streaming, step, guard, ended, runs>>

(* a batch without: the tools are started *)
BeginTools ==
  /\ pc = "llm"
  /\ errors' = 0
  /\ \E b \in Batches, reread \in Reminder, late \in Reported :
       /\ \A i \in DOMAIN b : b[i] # "ask"
       /\ Add(reread \o <<Calls(b)>>)
       /\ events' = events \o late
  /\ pc' = "tools"
  /\ UNCHANGED <<streaming, step, guard, state, disk, ended, unsaved, runs, spent>>

(* build_messages for the results in the order of the calls: one that has  *)
(* images is followed by a user message                                    *)
Results(n, images) ==
  LET upto[k \in 0..n] ==
        IF k = 0 THEN <<>>
        ELSE upto[k - 1] \o (<<Reply(k, "result")>> \o IF k \in images THEN <<User>> ELSE <<>>)
  IN  upto[n]

(* The counters after a batch: nothing in it made progress, and it repeats *)
(* the batch before it.                                                    *)
Counted(stuck, same) ==
  [guard EXCEPT !.stuck = IF stuck THEN @ + 1 ELSE 0,
                !.repeats = IF same THEN @ + 1 ELSE 0,
                !.acted = TRUE]

NearStall(g) ==
  g.stuck = Larger(StuckLimit - 1, 1) \/ g.repeats = Larger(RepeatLimit - 1, 1)

Stalled(g) == g.stuck >= StuckLimit \/ g.repeats >= RepeatLimit

(* The results of the batch are appended and the stall checks made: warn   *)
(* once, ask once more for a missing deliverable, or give up.              *)
FinishTools ==
  /\ pc = "tools"
  /\ \E images \in SUBSET DOMAIN msgs[Len(msgs)].kinds, failed \in Reminder,
        stuck, same, missing \in BOOLEAN :
       LET n == Len(msgs[Len(msgs)].kinds)
           g == Counted(stuck, same)
           warn == ~guard.warned /\ NearStall(g)
           results == Results(n, images) \o IF warn THEN <<User>> ELSE <<>>
           warned == [g EXCEPT !.warned = guard.warned \/ warn]
           force == missing /\ PivotsLeft
       IN  /\ same => guard.acted
           /\ images # {} => Room
           /\ (failed # <<>> /\ n = 1) => stuck
           /\ \/ /\ ~Stalled(g)
                 /\ guard' = warned
                 /\ Add(results \o failed)
                 /\ step' = step + 1 /\ pc' = "top"
              \/ /\ Stalled(g) /\ force
                 /\ guard' = [warned EXCEPT !.stuck = 0, !.repeats = 0, !.pivots = MaxPivots]
                 /\ Add(results \o <<User>>)
                 /\ step' = step + 1 /\ pc' = "top"
              \/ /\ Stalled(g) /\ ~force
                 /\ guard' = warned
                 /\ Add(results)
                 /\ pc' = "salvage"
                 /\ UNCHANGED step
  /\ UNCHANGED <<streaming, errors, state, disk, events, ended, unsaved, runs, spent>>

(* The loop's condition fails. *)
LimitReached ==
  /\ pc = "top" /\ step >= MaxSteps
  /\ pc' = "salvage"
  /\ UNCHANGED <<streaming, msgs, step, errors, guard, state, disk, events, ended, unsaved, runs, spent>>

(* Mutant of Salvage: a failed salvage goes back to the loop. *)
SalvageRetried ==
  /\ pc = "salvage"
  /\ \/ Add(<<Assistant>>) /\ Emit("salvaged") /\ pc' = "ending"
     \/ UNCHANGED <<msgs, events>> /\ pc' = "top"
  /\ UNCHANGED <<streaming, step, errors, guard, state, disk, ended, unsaved, runs, spent>>

(* _salvage_answer: a last call without tools *)
Salvage ==
  /\ pc = "salvage"
  /\ \/ Add(<<Assistant>>) /\ Emit("salvaged")
     \/ Emit("error") /\ UNCHANGED msgs
  /\ pc' = "ending"
  /\ UNCHANGED <<streaming, step, errors, guard, state, disk, ended, unsaved, runs, spent>>

(* What a run leaves in memory is not read by the next one, see Start. *)
Forget == msgs' = <<>> /\ step' = 0 /\ errors' = 0 /\ guard' = Fresh

(* Mutant of Complete: the final save is left out. *)
CompleteUnsaved ==
  /\ pc = "ending"
  /\ state' = NotPaused
  /\ ended' = TRUE
  /\ pc' = "idle"
  /\ Forget
  /\ UNCHANGED <<streaming, disk, events, unsaved, runs, spent>>

(* The save at the end of execute_stream, of the same markers that a pause *)
(* has already saved, and the COMPLETE event.                              *)
Complete ==
  /\ pc = "ending"
  /\ \/ Lands(state) /\ unsaved' = FALSE
     \/ Fails /\ unsaved' = (unsaved \/ state = NotPaused)
  /\ state' = NotPaused
  /\ ended' = TRUE
  /\ pc' = "idle"
  /\ Forget
  /\ UNCHANGED <<streaming, events, runs>>

(* It may also die after that save and before the event. *)
Dies ==
  /\ pc # "idle"
  /\ Fails \/ (pc = "ending" /\ Lands(state))
  /\ ended' = FALSE /\ unsaved' = FALSE
  /\ pc' = "idle"
  /\ Forget /\ state' = NotPaused /\ events' = <<>>
  /\ UNCHANGED <<streaming, runs>>

RunStep ==
  \/ Interrupted \/ CallLLM
  \/ LLMFails \/ LLMRejects \/ Empty \/ Content \/ Ask \/ BeginTools
  \/ FinishTools \/ LimitReached \/ Salvage \/ Complete

Next == Start \/ RunStep \/ Dies

Spec == Init /\ [][Next]_vars

(* LLM calls, tools and saves return, or the run dies: weak fairness of    *)
(* RunStep, which is enabled in exactly the states where pc is not "idle". *)
FairSpec == Spec /\ ([]<>(pc = "idle") \/ []<><<RunStep>>_vars)

-----------------------------------------------------------------------------
Messages ==
  [role : {"system", "user", "assistant", "calls", "tool"},
   kinds : {<<>>} \union Batches, id : 0..MaxBatch,
   val : {"none", "result", "skipped", "answer"}]

IsHistory(m) == \A i \in DOMAIN m : m[i] \in Messages

IsPause(p) ==
  /\ p.why \in {"none", "question", "interrupt"}
  /\ p.call \in 0..MaxBatch /\ p.step \in 0..MaxSteps
  /\ IsHistory(p.msgs)

(* Every variable has its type: in particular the counters stay within     *)
(* their limits and a pause record is complete.                            *)
TypeOK ==
  /\ pc \in {"idle", "top", "llm", "tools", "salvage", "ending"}
  /\ IsHistory(msgs)
  /\ step \in 0..MaxSteps /\ errors \in 0..MaxErrors
  /\ guard \in [stuck : 0..StuckLimit, repeats : 0..RepeatLimit, acted : BOOLEAN,
                warned : BOOLEAN, nudges : 0..MaxNudges, pivots : 0..MaxPivots]
  /\ streaming \in BOOLEAN /\ ended \in BOOLEAN /\ unsaved \in BOOLEAN
  /\ IsPause(state) /\ IsPause(disk)
  /\ runs \in 0..MaxRuns

(* The tool messages that belong to the batch at position i of m. *)
Replies(m, i) ==
  {j \in (i + 1)..Len(m) : m[j].role = "tool" /\ \A k \in (i + 1)..j : m[k].role # "calls"}

Paired(m) ==
  LET calls == {i \in DOMAIN m : m[i].role = "calls"}
  IN  /\ \A i \in calls :
           /\ {m[j].id : j \in Replies(m, i)} = DOMAIN m[i].kinds
           /\ Cardinality(Replies(m, i)) = Len(m[i].kinds)
      /\ \A j \in DOMAIN m : m[j].role = "tool" => \E i \in calls : j \in Replies(m, i)

Sent == pc \in {"llm", "salvage"}

(* In every history an LLM call is made with, each tool call is answered   *)
(* exactly once before the next batch and no answer is without its call:   *)
(* after compression, trimming, a question, an interrupt, a resumption     *)
(* and a death (tool_execution.py and the message sanitizer).              *)
EveryCallAnswered == Sent => Paired(msgs)

(* The LLM reads the user's answer where it asked, at its first question   *)
(* of the batch; every other call of that batch is answered as skipped,    *)
(* and no question is ever answered by a tool (_process_tool_calls and     *)
(* _resume_from_pause).                                                    *)
QuestionsAnsweredByUser ==
  Sent => \A i \in DOMAIN msgs : \A j \in Replies(msgs, i) :
    LET asks == {k \in DOMAIN msgs[i].kinds : msgs[i].kinds[k] = "ask"}
    IN  msgs[i].role = "calls" =>
          msgs[j].val = IF asks = {} THEN "result"
                        ELSE IF msgs[j].id \in asks /\ \A k \in asks : msgs[j].id <= k
                             THEN "answer" ELSE "skipped"

(* Whenever the process dies, the saved session is either not paused or    *)
(* holds a history that becomes a valid one by the answer it waits for,    *)
(* and by nothing less (_handle_ask_user and _handle_interrupt).           *)
Resumable ==
  disk # NotPaused =>
    /\ Paired(Resumed(disk, <<>>))
    /\ disk.why = "question" => ~Paired(disk.msgs)

(* What a run told its caller is what the session was saved as: after a    *)
(* question or an interrupt it can be resumed, after an answer or an error *)
(* the next mission starts afresh, and no run ends without a verdict       *)
(* (execute_stream of NativeReActStrategy, _resume_from_pause).  Only if   *)
(* every save of that verdict failed may the file say something else: the  *)
(* pause's own save and the final one cover for each other.                *)
VerdictMatchesDisk ==
  pc = "idle" /\ ended =>
    /\ events # <<>>
    /\ ~unsaved => disk.why = CASE events[Len(events)] = "question" -> "question"
                                [] events[Len(events)] = "interrupted" -> "interrupt"
                                [] OTHER -> "none"

(* One mission makes at most max_steps LLM calls in the loop, however      *)
(* often it pauses and resumes (the step counter over paused_step).        *)
CallsBounded == spent.now <= MaxSteps

(* Every run ends: stalls, errors, empty answers and reminders all use up  *)
(* steps (_react_loop).                                                    *)
RunsEnd == pc # "idle" ~> pc = "idle"
=============================================================================
