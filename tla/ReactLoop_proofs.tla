-------------------------- MODULE ReactLoop_proofs --------------------------
(***************************************************************************)
(* What a run of the ReAct loop promises its session, for any step limit,  *)
(* any limits of the stall checks, any batches and any outcome of the      *)
(* compression.                                                            *)
(*                                                                         *)
(* The first part does not depend on the message list: the verdict agrees  *)
(* with what is saved, and pauses do not stretch the step limit (IInv).    *)
(* The second part is about the list itself: whatever is compressed,       *)
(* trimmed, asked, interrupted, resumed or lost, every call the LLM sees   *)
(* is answered once, a question by the user (HInv).  It rests on what the  *)
(* operators of MessageHistory do to lists of any length: they keep        *)
(* answered lists answered.                                                *)
(***************************************************************************)
EXTENDS ReactLoop, FiniteSetTheorems, SequenceTheorems, WellFoundedInduction, TLAPS

(* the events of which the last one is the verdict *)
EventNames == {"answer", "salvaged", "error", "question", "interrupted"}

(* the pause that belongs to a last event *)
Verdict(e) ==
  CASE e = "question" -> "question"
    [] e = "interrupted" -> "interrupt"
    [] OTHER -> "none"

(* The part of the type invariant that the arguments below need. *)
Types ==
  /\ pc \in {"idle", "top", "llm", "tools", "salvage", "ending"}
  /\ step \in Nat /\ disk.step \in Nat /\ state.step \in Nat
  /\ spent \in [now : Nat, paused : Nat]
  /\ events \in Seq(EventNames)

(* Each LLM call of the loop is paid by a step: by one that was counted,   *)
(* or by the one under way.  What a paused mission spent is covered by the *)
(* step it will resume at, in memory as on disk.                           *)
Paid ==
  /\ pc = "top" => spent.now <= step
  /\ pc \in {"llm", "tools"} => spent.now <= step + 1 /\ step < MaxSteps
  /\ spent.now <= MaxSteps
  /\ disk # NotPaused => spent.paused <= disk.step /\ disk.step <= MaxSteps
  /\ state # NotPaused => spent.now <= state.step /\ state.step <= MaxSteps

(* The pause markers in memory are set only at the end of a run, and the   *)
(* same markers are saved unless the save fails.                           *)
Marked ==
  /\ pc # "ending" => state = NotPaused
  /\ state # NotPaused /\ ~unsaved => disk = state

(* A run that is about to end has emitted its verdict, and one that ended  *)
(* was saved as the verdict says, unless no save of it worked.             *)
Told ==
  /\ pc = "ending" =>
       /\ events # <<>>
       /\ state.why = Verdict(events[Len(events)])
  /\ (pc = "idle" /\ ended) =>
       /\ events # <<>>
       /\ ~unsaved => disk.why = Verdict(events[Len(events)])

IInv == Types /\ Paid /\ Marked /\ Told

-----------------------------------------------------------------------------
(* The step limit is a number. *)
LEMMA StepLimit == MaxSteps \in Nat
  BY LoopConstants

(* The events with e at their end: they are not empty, and e is the last.  *)
LEMMA LastEvent ==
  ASSUME NEW s \in Seq(EventNames), NEW e \in EventNames
  PROVE  /\ Append(s, e) \in Seq(EventNames)
         /\ s \o <<e>> = Append(s, e)
         /\ Append(s, e) # <<>>
         /\ Append(s, e)[Len(Append(s, e))] = e
<1>1. Append(s, e) \in Seq(EventNames)
  OBVIOUS
<1>2. s \o <<e>> = Append(s, e)
  OBVIOUS
<1>3. Len(Append(s, e)) = Len(s) + 1 /\ Append(s, e)[Len(s) + 1] = e
  OBVIOUS
<1>4. Append(s, e) # <<>>
  BY <1>3
<1> QED
  BY <1>1, <1>2, <1>3, <1>4

(* An error that a stream reports on the way is one more event. *)
LEMMA LateEvent ==
  ASSUME NEW s \in Seq(EventNames), NEW late \in Reported
  PROVE  s \o late \in Seq(EventNames)
<1>1. <<>> \in Seq(EventNames) /\ <<"error">> \in Seq(EventNames)
  BY DEF EventNames
<1>2. late \in Seq(EventNames)
  BY <1>1 DEF Reported
<1> QED
  BY <1>2

(* Not paused is a pause record of its own. *)
LEMMA NotPausedFields == NotPaused.why = "none" /\ NotPaused.step = 0
  BY DEF NotPaused

(* Nothing is spent, told or marked before the first run. *)
LEMMA InitInvariant == Init => IInv
<1> SUFFICES ASSUME Init PROVE IInv
  OBVIOUS
<1>1. Types
  BY NotPausedFields DEF Init, Types
<1>2. Paid
  BY StepLimit DEF Init, Paid
<1>3. Marked /\ Told
  BY DEF Init, Marked, Told
<1> QED
  BY <1>1, <1>2, <1>3 DEF IInv

(* A fresh mission starts at zero; a resumed one at the step that covers   *)
(* what it spent before.                                                   *)
LEMMA StartStep == ASSUME IInv, Start PROVE IInv'
<1>1. /\ pc' = "top" /\ state' = NotPaused /\ disk' = disk
      /\ events' = <<>> /\ ended' = FALSE
  BY DEF Start
<1>2. /\ spent \in [now : Nat, paused : Nat] /\ disk.step \in Nat
      /\ disk # NotPaused => spent.paused <= disk.step /\ disk.step <= MaxSteps
  BY DEF IInv, Types, Paid
<1>3. \/ step' = 0 /\ spent' = [spent EXCEPT !.now = 0]
      \/ /\ disk # NotPaused /\ step' = disk.step
         /\ spent' = [spent EXCEPT !.now = spent.paused]
  BY DEF Start
<1>4. /\ step' \in Nat /\ step' <= MaxSteps
      /\ spent' \in [now : Nat, paused : Nat]
      /\ spent'.now <= step' /\ spent'.paused = spent.paused
  BY <1>2, <1>3, StepLimit
<1>5. Types'
  BY <1>1, <1>2, <1>4, NotPausedFields DEF Types
<1>6. Paid'
  BY <1>1, <1>2, <1>4, StepLimit DEF Paid
<1>7. Marked' /\ Told'
  BY <1>1 DEF Marked, Told
<1> QED
  BY <1>5, <1>6, <1>7 DEF IInv

(* A pause at the end of a run: what was spent is covered by the step of    *)
(* the record, which is saved or not before the event goes out.            *)
LEMMA PauseStep ==
  ASSUME IInv, NEW record, NEW s \in Seq(EventNames),
         NEW e \in {"question", "interrupted"},
         record.step \in Nat, spent.now <= record.step, record.step <= MaxSteps,
         record.why = Verdict(e), step' = step,
         Pause(record),
         events' = Append(s, e)
  PROVE  IInv'
<1>1. e \in EventNames
  BY DEF EventNames
<1>2. /\ events' \in Seq(EventNames) /\ events' # <<>>
      /\ events'[Len(events')] = e
  BY <1>1, LastEvent
<1>3. state' = record /\ pc' = "ending"
  BY DEF Pause
<1>4. \/ /\ disk' = record
         /\ spent' = [spent EXCEPT !.paused = spent.now]
      \/ /\ disk' = disk /\ spent' = spent /\ unsaved'
  BY DEF Pause, Lands, Fails
<1>5. /\ spent \in [now : Nat, paused : Nat] /\ spent.now <= MaxSteps /\ disk.step \in Nat
      /\ disk # NotPaused => spent.paused <= disk.step /\ disk.step <= MaxSteps
  BY DEF IInv, Types, Paid
<1>6. /\ spent' \in [now : Nat, paused : Nat] /\ spent'.now = spent.now /\ disk'.step \in Nat
      /\ disk' # NotPaused => spent'.paused <= disk'.step /\ disk'.step <= MaxSteps
  BY <1>4, <1>5
<1>7. Types'
  BY <1>2, <1>3, <1>6 DEF IInv, Types
<1>8. Paid'
  BY <1>3, <1>5, <1>6 DEF Paid
<1>9. Marked'
  BY <1>3, <1>4 DEF Marked
<1>10. Told'
  BY <1>2, <1>3 DEF Told
<1> QED
  BY <1>7, <1>8, <1>9, <1>10 DEF IInv

(* An answer or an error at the end of a run: no pause is marked. *)
LEMMA VerdictStep ==
  ASSUME IInv, pc \in {"llm", "salvage"}, NEW s \in Seq(EventNames),
         NEW e \in {"answer", "salvaged", "error"},
         step' \in Nat, pc' = "ending", UNCHANGED <<state, disk, spent>>,
         events' = Append(s, e)
  PROVE  IInv'
<1>1. e \in EventNames /\ Verdict(e) = "none"
  BY DEF EventNames, Verdict
<1>2. /\ events' \in Seq(EventNames) /\ events' # <<>>
      /\ events'[Len(events')] = e
  BY <1>1, LastEvent
<1>3. state = NotPaused
  BY DEF IInv, Marked
<1>4. Types'
  BY <1>2 DEF IInv, Types
<1>5. Paid'
  BY DEF IInv, Paid
<1>6. Marked'
  BY <1>3 DEF Marked
<1>7. Told'
  BY <1>1, <1>2, <1>3, NotPausedFields DEF Told
<1> QED
  BY <1>4, <1>5, <1>6, <1>7 DEF IInv

(* Back at the top: the call under way was counted. *)
LEMMA TopStep ==
  ASSUME IInv, pc \in {"llm", "tools"}, step' = step + 1, pc' = "top",
         events' \in Seq(EventNames), UNCHANGED <<state, disk, spent>>
  PROVE  IInv'
<1>1. Types'
  BY DEF IInv, Types
<1>2. Paid'
  BY DEF IInv, Types, Paid
<1>3. Marked' /\ Told'
  BY DEF IInv, Marked, Told
<1> QED
  BY <1>1, <1>2, <1>3 DEF IInv

(* On to the tools or to the last call: nothing is spent. *)
LEMMA OnStep ==
  ASSUME IInv, events' \in Seq(EventNames), UNCHANGED <<step, state, disk, spent>>,
         \/ pc = "llm" /\ pc' = "tools"
         \/ pc \in {"top", "tools"} /\ pc' = "salvage"
  PROVE  IInv'
<1>1. Types'
  BY DEF IInv, Types
<1>2. Paid'
  BY DEF IInv, Types, Paid
<1>3. Marked' /\ Told'
  BY DEF IInv, Marked, Told
<1> QED
  BY <1>1, <1>2, <1>3 DEF IInv

-----------------------------------------------------------------------------
(* An interrupt is looked for between two steps. *)
LEMMA InterruptedStep == ASSUME IInv, Interrupted PROVE IInv'
<1> DEFINE record == [why |-> "interrupt", msgs |-> msgs, call |-> 0, step |-> step]
<1>1. /\ record.step = step /\ record.why = Verdict("interrupted")
  BY DEF Verdict
<1>2. /\ step \in Nat /\ spent.now <= step /\ step <= MaxSteps /\ events \in Seq(EventNames)
  BY StepLimit DEF Interrupted, IInv, Types, Paid
<1>3. Pause(record) /\ step' = step /\ events' = Append(events, "interrupted")
  BY DEF Interrupted, Emit
<1> HIDE DEF record
<1> QED
  BY <1>1, <1>2, <1>3, PauseStep

(* A call of the LLM is made only below the limit. *)
LEMMA CallLLMStep == ASSUME IInv, CallLLM PROVE IInv'
<1>1. /\ pc = "top" /\ step < MaxSteps /\ pc' = "llm"
      /\ UNCHANGED <<step, state, disk, events, ended>>
      /\ spent' = [spent EXCEPT !.now = IF @ > MaxSteps THEN @ ELSE @ + 1]
  BY DEF CallLLM
<1>2. /\ spent.now <= step /\ step \in Nat /\ spent \in [now : Nat, paused : Nat]
      /\ state = NotPaused
  BY <1>1 DEF IInv, Types, Paid, Marked
<1>3. spent' \in [now : Nat, paused : Nat] /\ spent'.now = spent.now + 1 /\ spent'.paused = spent.paused
  BY <1>1, <1>2, StepLimit
<1>4. Types'
  BY <1>1, <1>3 DEF IInv, Types
<1>5. Paid'
  BY <1>1, <1>2, <1>3, StepLimit DEF IInv, Paid
<1>6. Marked' /\ Told'
  BY <1>1 DEF IInv, Marked, Told
<1> QED
  BY <1>4, <1>5, <1>6 DEF IInv

(* A failing LLM: the loop goes on, or gives up with an error. *)
LEMMA FailsStep == ASSUME IInv, LLMFails PROVE IInv'
<1> DEFINE reported == IF streaming THEN <<"error">> ELSE <<>>
           aborts == errors + 1 >= MaxErrors
<1>1. /\ pc = "llm" /\ step' = step + 1 /\ UNCHANGED <<state, disk, spent>>
      /\ events' = events \o reported \o IF aborts THEN <<"error">> ELSE <<>>
      /\ pc' = IF aborts THEN "ending" ELSE "top"
  BY DEF LLMFails
<1>2. step \in Nat /\ events \in Seq(EventNames)
  BY DEF IInv, Types
<1>3. reported \in Seq(EventNames)
  <2>1. <<>> \in Seq(EventNames) /\ <<"error">> \in Seq(EventNames)
    BY DEF EventNames
  <2> QED
    BY <2>1
<1> DEFINE told == events \o reported
<1>4. told \in Seq(EventNames)
  BY <1>2, <1>3
<1>5. step' \in Nat
  BY <1>1, <1>2
<1>6. CASE aborts
  <2>1. pc' = "ending" /\ events' = told \o <<"error">>
    BY <1>1, <1>6
  <2> HIDE DEF told
  <2>2. events' = Append(told, "error")
    BY <2>1, <1>4, LastEvent DEF EventNames
  <2> QED
    BY <1>1, <1>4, <1>5, <2>1, <2>2, VerdictStep
<1>7. CASE ~aborts
  <2>1. pc' = "top" /\ events' = told \o <<>>
    BY <1>1, <1>7
  <2> HIDE DEF told
  <2>2. events' \in Seq(EventNames)
    BY <2>1, <1>4
  <2> QED
    BY <1>1, <2>1, <2>2, TopStep
<1> QED
  BY <1>6, <1>7

(* An answer that is rejected outright ends the run. *)
LEMMA RejectsStep == ASSUME IInv, LLMRejects PROVE IInv'
<1>1. /\ pc = "llm" /\ pc' = "ending" /\ UNCHANGED <<step, state, disk, spent>>
      /\ events' = Append(events, "error")
  BY DEF LLMRejects, Emit
<1>2. step \in Nat /\ events \in Seq(EventNames)
  BY DEF IInv, Types
<1> QED
  BY <1>1, <1>2, VerdictStep

(* Nothing usable costs a step. *)
LEMMA EmptyStep == ASSUME IInv, Empty PROVE IInv'
<1>1. /\ pc = "llm" /\ step' = step + 1 /\ pc' = "top" /\ UNCHANGED <<state, disk, spent>>
  BY DEF Empty
<1>2. PICK late \in Reported : events' = events \o late
  BY DEF Empty
<1>3. events' \in Seq(EventNames)
  BY <1>2, LateEvent DEF IInv, Types
<1> QED
  BY <1>1, <1>3, TopStep

(* Text: an answer, or one more step for a missing deliverable. *)
LEMMA ContentStep == ASSUME IInv, Content PROVE IInv'
<1>1. /\ pc = "llm" /\ step' = step + 1 /\ UNCHANGED <<state, disk, spent>>
  BY DEF Content
<1>2. PICK missing \in BOOLEAN, late \in Reported :
        \/ events' = events \o late /\ pc' = "top"
        \/ /\ events' = events \o late \o <<IF missing THEN "salvaged" ELSE "answer">>
           /\ pc' = "ending"
  BY DEF Content
<1> DEFINE told == events \o late
<1>3. step' \in Nat /\ told \in Seq(EventNames)
  BY <1>1, <1>2, LateEvent DEF IInv, Types
<1>4. CASE events' = events \o late /\ pc' = "top"
  BY <1>1, <1>3, <1>4, TopStep
<1>5. CASE /\ events' = events \o late \o <<IF missing THEN "salvaged" ELSE "answer">>
           /\ pc' = "ending"
  <2>1. PICK e \in {"answer", "salvaged", "error"} : e = IF missing THEN "salvaged" ELSE "answer"
    OBVIOUS
  <2>2. events' = told \o <<e>>
    BY <1>5, <2>1
  <2> HIDE DEF told
  <2>3. events' = Append(told, e)
    BY <1>3, <2>2, LastEvent DEF EventNames
  <2> QED
    BY <1>1, <1>3, <1>5, <2>3, VerdictStep
<1> QED
  BY <1>2, <1>4, <1>5

(* A question counts its step in the record. *)
LEMMA AskStep == ASSUME IInv, Ask PROVE IInv'
<1>1. pc = "llm" /\ step' = step
  BY DEF Ask
<1>2. PICK b \in Batches, reread \in Reminder, late \in Reported :
        LET history == msgs \o reread \o <<Calls(b)>> \o Skipped(b)
        IN  /\ Pause(Question(history, FirstAsk(b)))
            /\ events' = events \o late \o <<"question">>
  BY DEF Ask
<1> DEFINE record == Question(msgs \o reread \o <<Calls(b)>> \o Skipped(b), FirstAsk(b))
<1>3. Pause(record) /\ events' = (events \o late) \o <<"question">>
  BY <1>2
<1>4. record.step = step + 1 /\ record.why = Verdict("question")
  BY DEF Question, Verdict
<1> HIDE DEF record
<1>5. /\ record.step \in Nat /\ spent.now <= record.step /\ record.step <= MaxSteps
  BY <1>1, <1>4, StepLimit DEF IInv, Types, Paid
<1>6. events \o late \in Seq(EventNames)
  BY <1>2, LateEvent DEF IInv, Types
<1>7. events' = Append(events \o late, "question")
  BY <1>3, <1>6, LastEvent DEF EventNames
<1> QED
  BY <1>1, <1>3, <1>4, <1>5, <1>6, <1>7, PauseStep

(* The tools of a batch are started in the step of their call. *)
LEMMA BeginStep == ASSUME IInv, BeginTools PROVE IInv'
<1>1. /\ pc = "llm" /\ pc' = "tools" /\ UNCHANGED <<step, state, disk, spent>>
  BY DEF BeginTools
<1>2. PICK late \in Reported : events' = events \o late
  BY DEF BeginTools
<1>3. events' \in Seq(EventNames)
  BY <1>2, LateEvent DEF IInv, Types
<1> QED
  BY <1>1, <1>3, OnStep

(* Their results count the step, or end the loop. *)
LEMMA FinishStep == ASSUME IInv, FinishTools PROVE IInv'
<1>1. /\ pc = "tools" /\ UNCHANGED <<state, disk, events, spent>>
      /\ \/ step' = step + 1 /\ pc' = "top"
         \/ pc' = "salvage" /\ step' = step
  BY DEF FinishTools
<1>2. events' \in Seq(EventNames)
  BY <1>1 DEF IInv, Types
<1> QED
  BY <1>1, <1>2, TopStep, OnStep

(* The limit leads to a last call that is not counted. *)
LEMMA LimitStep == ASSUME IInv, LimitReached PROVE IInv'
<1>1. /\ pc = "top" /\ pc' = "salvage" /\ UNCHANGED <<step, state, disk, events, spent>>
  BY DEF LimitReached
<1>2. events' \in Seq(EventNames)
  BY <1>1 DEF IInv, Types
<1> QED
  BY <1>1, <1>2, OnStep

(* Whatever it returns is a verdict. *)
LEMMA SalvageStep == ASSUME IInv, Salvage PROVE IInv'
<1>1. /\ pc = "salvage" /\ pc' = "ending" /\ UNCHANGED <<step, state, disk, spent>>
  BY DEF Salvage
<1>2. PICK e \in {"answer", "salvaged", "error"} : events' = Append(events, e)
  BY DEF Salvage, Emit
<1>3. step \in Nat /\ events \in Seq(EventNames)
  BY DEF IInv, Types
<1> QED
  BY <1>1, <1>2, <1>3, VerdictStep

(* The end of a run: the markers of the memory are saved, or they are not. *)
LEMMA EndStep ==
  ASSUME IInv, pc' = "idle", step' = 0, state' = NotPaused,
         Fails \/ Lands(state), events' \in Seq(EventNames)
  PROVE  Types' /\ Paid' /\ Marked'
<1>1. \/ disk' = state /\ spent' = [spent EXCEPT !.paused = spent.now]
      \/ disk' = disk /\ spent' = spent
  BY DEF Fails, Lands
<1>2. /\ spent \in [now : Nat, paused : Nat] /\ spent.now <= MaxSteps
      /\ disk.step \in Nat /\ state.step \in Nat
      /\ disk # NotPaused => spent.paused <= disk.step /\ disk.step <= MaxSteps
      /\ state # NotPaused => spent.now <= state.step /\ state.step <= MaxSteps
  BY DEF IInv, Types, Paid
<1>3. /\ spent' \in [now : Nat, paused : Nat] /\ spent'.now = spent.now /\ disk'.step \in Nat
      /\ disk' # NotPaused => spent'.paused <= disk'.step /\ disk'.step <= MaxSteps
  BY <1>1, <1>2
<1>4. Types'
  BY <1>3, NotPausedFields DEF Types
<1>5. Paid'
  BY <1>2, <1>3 DEF Paid
<1>6. Marked'
  BY DEF Marked
<1> QED
  BY <1>4, <1>5, <1>6

(* The last save writes what the verdict says. *)
LEMMA CompleteStep == ASSUME IInv, Complete PROVE IInv'
<1>1. /\ pc = "ending" /\ pc' = "idle" /\ state' = NotPaused
      /\ step' = 0 /\ events' = events
      /\ \/ Lands(state)
         \/ Fails /\ (~unsaved' => ~unsaved /\ state # NotPaused)
  BY DEF Complete, Forget
<1>2. Types' /\ Paid' /\ Marked'
  BY <1>1, EndStep DEF IInv, Types
<1>3. ~unsaved' => disk' = state
  BY <1>1 DEF Lands, Fails, IInv, Marked
<1>4. Told'
  BY <1>1, <1>3 DEF IInv, Told
<1> QED
  BY <1>2, <1>4 DEF IInv

(* A death leaves what was saved last. *)
LEMMA DiesStep == ASSUME IInv, Dies PROVE IInv'
<1>1. /\ pc' = "idle" /\ state' = NotPaused /\ (Fails \/ Lands(state))
      /\ step' = 0 /\ events' = <<>> /\ ended' = FALSE
  BY DEF Dies, Forget
<1>2. Types' /\ Paid' /\ Marked'
  BY <1>1, EndStep
<1>3. Told'
  BY <1>1 DEF Told
<1> QED
  BY <1>2, <1>3 DEF IInv

(* Every step keeps the invariant. *)
LEMMA NextInvariant == IInv /\ [Next]_vars => IInv'
<1> SUFFICES ASSUME IInv, [Next]_vars PROVE IInv'
  OBVIOUS
<1>1. CASE Next
  BY <1>1, StartStep, InterruptedStep, CallLLMStep, FailsStep, RejectsStep, EmptyStep,
     ContentStep, AskStep, BeginStep, FinishStep, LimitStep, SalvageStep, CompleteStep,
     DiesStep DEF Next, RunStep
<1>2. CASE UNCHANGED vars
  BY <1>2 DEF vars, IInv, Types, Paid, Marked, Told
<1> QED
  BY <1>1, <1>2

-----------------------------------------------------------------------------
(* The invariant holds in every reachable state. *)
THEOREM Invariance == Spec => []IInv
  BY InitInvariant, NextInvariant, PTL DEF Spec

(* However often a mission pauses, is resumed or dies, it makes no more LLM *)
(* calls in the loop than max_steps.                                        *)
THEOREM StepLimitHolds == Spec => []CallsBounded
<1>1. IInv => CallsBounded
  BY DEF IInv, Paid, CallsBounded
<1> QED
  BY <1>1, Invariance, PTL

(* What a run told its caller is what the session was saved as, unless     *)
(* every save of it failed.                                                *)
THEOREM VerdictIsSaved == Spec => []VerdictMatchesDisk
<1>1. IInv => VerdictMatchesDisk
  BY DEF IInv, Told, Verdict, VerdictMatchesDisk
<1> QED
  BY <1>1, Invariance, PTL

-----------------------------------------------------------------------------
(* The rest is about the message list.  What holds of every list is shown  *)
(* by induction on positions, for which facts on natural numbers stand in. *)

(* Every nonempty set of natural numbers has a least element. *)
LEMMA LeastNatural ==
  ASSUME NEW T \in SUBSET Nat, T # {}
  PROVE  \E n \in T : \A m \in T : n <= m
<1>1. IsWellFoundedOn({ss \in Nat \X Nat : ss[1] < ss[2]}, Nat)
  BY NatLessThanWellFounded DEF OpToRel
<1>2. PICK n \in T : \A m \in T : ~(<<m, n>> \in {ss \in Nat \X Nat : ss[1] < ss[2]})
  BY <1>1, WFMin
<1>3. \A m \in T : ~(m < n)
  BY <1>2
<1> QED
  BY <1>3

(* A set that has 0 and with every number the next one has all of them. *)
LEMMA AllNaturals ==
  ASSUME NEW T, 0 \in T, \A n \in Nat : n \in T => n + 1 \in T
  PROVE  Nat \subseteq T
<1> SUFFICES ASSUME Nat \ T # {} PROVE FALSE
  OBVIOUS
<1>1. PICK n \in Nat \ T : \A m \in Nat \ T : n <= m
  BY LeastNatural
<1>2. n # 0 /\ n - 1 \in Nat
  BY <1>1
<1>3. n - 1 \in T
  BY <1>1, <1>2
<1> QED
  BY <1>1, <1>2, <1>3

-----------------------------------------------------------------------------
(* Lists in which every call is answered once, and by whom it should be:   *)
(* Paired, and what QuestionsAnsweredByUser says, with answers that differ *)
(* in place of their number.                                               *)
Owed(kinds, id) ==
  LET asks == {k \in DOMAIN kinds : kinds[k] = "ask"}
  IN  IF asks = {} THEN "result"
      ELSE IF id \in asks /\ \A k \in asks : id <= k THEN "answer" ELSE "skipped"

AnsweredAt(m, i) ==
  /\ {m[j].id : j \in Replies(m, i)} = DOMAIN m[i].kinds
  /\ \A j, k \in Replies(m, i) : m[j].id = m[k].id => j = k
  /\ \A j \in Replies(m, i) : m[j].val = Owed(m[i].kinds, m[j].id)

Answered(m) ==
  /\ m \in Seq(Messages)
  /\ \A i \in 1..Len(m) : m[i].role = "calls" => AnsweredAt(m, i)
  /\ \A j \in 1..Len(m) : m[j].role = "tool" =>
       \E i \in 1..Len(m) : m[i].role = "calls" /\ j \in Replies(m, i)

(* A plain message is no call and no reply. *)
IsPlain(x) == x \in Messages /\ x.role \notin {"calls", "tool"}

(* Lists of plain messages. *)
LEMMA PlainAnswered ==
  ASSUME NEW m \in Seq(Messages), \A i \in 1..Len(m) : IsPlain(m[i])
  PROVE  Answered(m)
  BY DEF Answered, IsPlain

LEMMA NothingAnswered == Answered(<<>>)
<1>1. PICK m : m = <<>>
  OBVIOUS
<1>2. m \in Seq(Messages) /\ Len(m) = 0
  BY <1>1
<1>3. 1..Len(m) = {}
  BY <1>2
<1> QED
  BY <1>1, <1>2, <1>3 DEF Answered

LEMMA NonEmpty ==
  ASSUME NEW m \in Seq(Messages), m # <<>>
  PROVE  Len(m) \in Nat /\ Len(m) # 0
<1>1. Len(m) = 0 => m = <<>>
  OBVIOUS
<1> QED
  BY <1>1

(* The parts of a concatenation. *)
LEMMA Concat ==
  ASSUME NEW a \in Seq(Messages), NEW b \in Seq(Messages)
  PROVE  /\ a \o b \in Seq(Messages)
         /\ Len(a) \in Nat /\ Len(b) \in Nat /\ Len(a \o b) = Len(a) + Len(b)
         /\ \A k \in 1..Len(a) : (a \o b)[k] = a[k]
         /\ \A k \in 1..Len(b) : (a \o b)[Len(a) + k] = b[k]
  OBVIOUS

(* Behind a list, replies answer calls of their own. *)
LEMMA RepliesInFront ==
  ASSUME NEW a \in Seq(Messages), NEW b, Answered(b), NEW i \in 1..Len(a)
  PROVE  Replies(a \o b, i) = Replies(a, i)
<1>1. PICK m : m = a \o b
  OBVIOUS
<1>2. /\ b \in Seq(Messages) /\ m \in Seq(Messages)
      /\ Len(a) \in Nat /\ Len(b) \in Nat /\ Len(m) = Len(a) + Len(b)
      /\ \A k \in 1..Len(a) : m[k] = a[k]
      /\ \A k \in 1..Len(b) : m[Len(a) + k] = b[k]
  BY <1>1, Concat DEF Answered
<1>3. ASSUME NEW j \in Replies(m, i) PROVE j \in Replies(a, i)
  <2>1. /\ j \in (i + 1)..Len(m) /\ m[j].role = "tool"
        /\ \A k \in (i + 1)..j : m[k].role # "calls"
    BY <1>3 DEF Replies
  <2>2. j <= Len(a)
    <3> SUFFICES ASSUME j > Len(a) PROVE FALSE
      BY <1>2, <2>1
    <3>1. PICK k \in 1..Len(b) : j = Len(a) + k
      <4>1. j - Len(a) \in 1..Len(b) /\ j = Len(a) + (j - Len(a))
        BY <1>2, <2>1
      <4> QED
        BY <4>1
    <3>2. b[k].role = "tool"
      BY <1>2, <2>1, <3>1
    <3>3. PICK l \in 1..Len(b) : b[l].role = "calls" /\ k \in Replies(b, l)
      BY <3>2 DEF Answered
    <3>4. l < k
      BY <1>2, <3>3 DEF Replies
    <3>5. Len(a) + l \in (i + 1)..j /\ m[Len(a) + l].role = "calls"
      BY <1>2, <3>1, <3>3, <3>4
    <3> QED
      BY <2>1, <3>5
  <2>3. m[j] = a[j] /\ \A k \in (i + 1)..j : m[k] = a[k]
    BY <1>2, <2>1, <2>2, SMTT(30)
  <2> QED
    BY <1>2, <2>1, <2>2, <2>3 DEF Replies
<1>4. ASSUME NEW j \in Replies(a, i) PROVE j \in Replies(m, i)
  <2>1. /\ j \in (i + 1)..Len(a) /\ a[j].role = "tool"
        /\ \A k \in (i + 1)..j : a[k].role # "calls"
    BY <1>4 DEF Replies
  <2>2. m[j] = a[j] /\ \A k \in (i + 1)..j : m[k] = a[k]
    BY <1>2, <2>1, SMTT(30)
  <2>3. j \in (i + 1)..Len(m)
    BY <1>2, <2>1
  <2>4. m[j].role = "tool" /\ \A k \in (i + 1)..j : m[k].role # "calls"
    BY <2>1, <2>2
  <2> QED
    BY <2>3, <2>4 DEF Replies
<1> QED
  BY <1>1, <1>3, <1>4

(* Behind n messages, m is the list c. *)
Behind(m, n, c) ==
  /\ m \in Seq(Messages) /\ c \in Seq(Messages) /\ n \in Nat
  /\ Len(m) = n + Len(c)
  /\ \A k \in 1..Len(c) : m[n + k] = c[k]

(* Replies move with their calls. *)
LEMMA RepliesBehind ==
  ASSUME NEW m, NEW c, NEW n, Behind(m, n, c), NEW i \in 1..Len(c)
  PROVE  Replies(m, n + i) = {n + j : j \in Replies(c, i)}
<1> USE DEF Behind
<1>1. Len(c) \in Nat
  OBVIOUS
<1>2. ASSUME NEW j \in Replies(m, n + i) PROVE j - n \in Replies(c, i) /\ j = n + (j - n)
  <2>1. /\ j \in (n + i + 1)..Len(m) /\ m[j].role = "tool"
        /\ \A k \in (n + i + 1)..j : m[k].role # "calls"
    BY <1>2 DEF Replies
  <2>2. j \in Int /\ j - n \in (i + 1)..Len(c) /\ j - n \in 1..Len(c) /\ j = n + (j - n)
    BY <1>1, <2>1
  <2>3. c[j - n] = m[j]
    BY <2>2
  <2>4. \A k \in (i + 1)..(j - n) : n + k \in (n + i + 1)..j /\ k \in 1..Len(c)
    BY <1>1, <2>1
  <2>5. \A k \in (i + 1)..(j - n) : c[k].role # "calls"
    BY <2>1, <2>4
  <2> QED
    BY <2>1, <2>2, <2>3, <2>5 DEF Replies
<1>3. ASSUME NEW j \in Replies(c, i) PROVE n + j \in Replies(m, n + i)
  <2>1. /\ j \in (i + 1)..Len(c) /\ c[j].role = "tool"
        /\ \A k \in (i + 1)..j : c[k].role # "calls"
    BY <1>3 DEF Replies
  <2>2. n + j \in (n + i + 1)..Len(m) /\ m[n + j] = c[j]
    BY <1>1, <2>1
  <2>3. ASSUME NEW k \in (n + i + 1)..(n + j) PROVE m[k].role # "calls"
    <3>1. k - n \in (i + 1)..j /\ k - n \in 1..Len(c) /\ n + (k - n) = k
      BY <1>1, <2>1, SMTT(30)
    <3> QED
      BY <2>1, <3>1
  <2> QED
    BY <2>1, <2>2, <2>3 DEF Replies
<1> QED
  BY <1>2, <1>3

(* So what is answered in the part is answered in the whole, and back. *)
LEMMA AnsweredBehind ==
  ASSUME NEW m, NEW c, NEW n, Behind(m, n, c), NEW i \in 1..Len(c)
  PROVE  AnsweredAt(m, n + i) <=> AnsweredAt(c, i)
<1>1. PICK r, q : r = Replies(c, i) /\ q = Replies(m, n + i)
  OBVIOUS
<1>2. q = {n + j : j \in r} /\ n \in Int
  <2>1. Replies(m, n + i) = {n + j : j \in Replies(c, i)}
    BY RepliesBehind
  <2>2. n \in Int
    BY DEF Behind
  <2> QED
    BY <1>1, <2>1, <2>2
<1>3. \A j \in r : j \in Int /\ j \in 1..Len(c)
  BY <1>1 DEF Replies
<1>4. m[n + i] = c[i] /\ \A j \in r : m[n + j] = c[j]
  BY <1>3 DEF Behind
<1>5. \A j \in r : n + j \in q
  BY <1>2
<1>6. \A k \in q : \E j \in r : k = n + j
  BY <1>2
<1>7. {m[j].id : j \in q} = {c[j].id : j \in r}
  <2>1. ASSUME NEW j \in q PROVE m[j].id \in {c[l].id : l \in r}
    BY <1>4, <1>6
  <2>2. ASSUME NEW j \in r PROVE c[j].id \in {m[l].id : l \in q}
    <3>1. n + j \in q /\ m[n + j].id = c[j].id
      BY <1>4, <1>5
    <3> QED
      BY <3>1
  <2> QED
    BY <2>1, <2>2
<1>8. ASSUME \A j, k \in q : m[j].id = m[k].id => j = k, NEW j \in r, NEW k \in r,
             c[j].id = c[k].id
      PROVE  j = k
  <2>1. m[n + j].id = m[n + k].id /\ n + j \in q /\ n + k \in q
    BY <1>4, <1>5, <1>8
  <2>2. n + j = n + k
    BY <1>8, <2>1
  <2> QED
    BY <1>2, <1>3, <2>2
<1>9. ASSUME \A j, k \in r : c[j].id = c[k].id => j = k, NEW j \in q, NEW k \in q,
             m[j].id = m[k].id
      PROVE  j = k
  <2>1. PICK x \in r : j = n + x
    BY <1>6
  <2>2. PICK y \in r : k = n + y
    BY <1>6
  <2>3. c[x].id = c[y].id
    BY <1>4, <1>9, <2>1, <2>2
  <2> QED
    BY <1>9, <2>1, <2>2, <2>3
<1>10. (\A j \in q : m[j].val = Owed(c[i].kinds, m[j].id))
         <=> (\A j \in r : c[j].val = Owed(c[i].kinds, c[j].id))
  <2>1. ASSUME NEW j \in r PROVE n + j \in q /\ m[n + j] = c[j]
    BY <1>4, <1>5
  <2>2. ASSUME NEW k \in q PROVE \E j \in r : m[k] = c[j]
    BY <1>4, <1>6
  <2> QED
    BY <2>1, <2>2
<1> QED
  BY <1>1, <1>4, <1>7, <1>8, <1>9, <1>10 DEF AnsweredAt

(* A list behind an answered one is answered as well. *)
LEMMA ConcatAnswered ==
  ASSUME NEW a, NEW b, Answered(a), Answered(b)
  PROVE  Answered(a \o b)
<1>1. a \in Seq(Messages) /\ b \in Seq(Messages)
  BY DEF Answered
<1>2. PICK m : m = a \o b
  OBVIOUS
<1>3. PICK n : n = Len(a)
  OBVIOUS
<1>4. /\ m \in Seq(Messages) /\ n \in Nat /\ Len(b) \in Nat /\ Len(m) = n + Len(b)
      /\ \A k \in 1..n : m[k] = a[k]
      /\ \A k \in 1..Len(b) : m[n + k] = b[k]
  BY <1>1, <1>2, <1>3, Concat
<1>5. Behind(m, n, b)
  BY <1>1, <1>4 DEF Behind
<1>6. \A i \in 1..n : Replies(m, i) = Replies(a, i)
  BY <1>1, <1>2, <1>3, RepliesInFront
<1>7. \A k \in 1..Len(m) : k \in 1..n \/ (k - n \in 1..Len(b) /\ k = n + (k - n))
  BY <1>4
<1>8. ASSUME NEW i \in 1..n, a[i].role = "calls" PROVE AnsweredAt(m, i)
  <2>1. AnsweredAt(a, i) /\ Replies(m, i) = Replies(a, i) /\ m[i] = a[i]
    BY <1>3, <1>4, <1>6, <1>8 DEF Answered
  <2>2. \A j \in Replies(a, i) : m[j] = a[j]
    <3>1. ASSUME NEW j \in Replies(a, i) PROVE j \in 1..n
      BY <1>3, <1>4 DEF Replies
    <3> QED
      BY <1>4, <3>1
  <2> QED
    BY <2>1, <2>2 DEF AnsweredAt
<1>9. ASSUME NEW i \in 1..Len(b), b[i].role = "calls" PROVE AnsweredAt(m, n + i)
  <2>1. AnsweredAt(b, i)
    BY <1>9 DEF Answered
  <2> QED
    BY <1>5, <2>1, AnsweredBehind
<1>10. ASSUME NEW i \in 1..Len(m), m[i].role = "calls" PROVE AnsweredAt(m, i)
  <2>1. CASE i \in 1..n
    BY <1>4, <1>8, <1>10, <2>1
  <2>2. CASE i - n \in 1..Len(b) /\ i = n + (i - n)
    <3>1. PICK k \in 1..Len(b) : i = n + k
      BY <2>2
    <3> QED
      BY <1>4, <1>9, <1>10, <3>1
  <2> QED
    BY <1>7, <2>1, <2>2
<1>11. ASSUME NEW j \in 1..Len(m), m[j].role = "tool"
       PROVE  \E i \in 1..Len(m) : m[i].role = "calls" /\ j \in Replies(m, i)
  <2>1. CASE j \in 1..n
    <3>1. PICK i \in 1..n : a[i].role = "calls" /\ j \in Replies(a, i)
      BY <1>3, <1>4, <1>11, <2>1 DEF Answered
    <3> QED
      BY <1>4, <1>6, <3>1
  <2>2. CASE j - n \in 1..Len(b) /\ j = n + (j - n)
    <3>1. PICK k \in 1..Len(b) : j = n + k
      BY <2>2
    <3>2. PICK i \in 1..Len(b) : b[i].role = "calls" /\ k \in Replies(b, i)
      BY <1>4, <1>11, <3>1 DEF Answered
    <3>3. Replies(m, n + i) = {n + l : l \in Replies(b, i)}
      BY <1>5, RepliesBehind
    <3>4. n + i \in 1..Len(m) /\ m[n + i].role = "calls" /\ j \in Replies(m, n + i)
      BY <1>4, <3>1, <3>2, <3>3
    <3> QED
      BY <3>4
  <2> QED
    BY <1>7, <2>1, <2>2
<1> QED
  BY <1>2, <1>4, <1>10, <1>11 DEF Answered

-----------------------------------------------------------------------------
(* Windows of a list: what compression and trimming keep. *)

(* The call a reply belongs to is found. *)
LEMMA OwnerFound ==
  ASSUME NEW m, Answered(m), NEW j \in 1..Len(m), NEW i \in 1..Len(m),
         m[i].role = "calls", j \in Replies(m, i)
  PROVE  CallFor(m, j) = i
<1> DEFINE before == {k \in 1..(j - 1) : m[k].role = "calls" /\ m[j].id \in DOMAIN m[k].kinds}
<1>1. m \in Seq(Messages) /\ Len(m) \in Nat
  BY DEF Answered
<1>2. /\ j \in (i + 1)..Len(m)
      /\ \A k \in (i + 1)..j : m[k].role # "calls"
  BY DEF Replies
<1>3. m[j].id \in DOMAIN m[i].kinds
  <2>1. AnsweredAt(m, i)
    BY DEF Answered
  <2> QED
    BY <2>1 DEF AnsweredAt
<1>4. i \in before
  BY <1>1, <1>2, <1>3
<1>5. \A k \in before : k <= i
  BY <1>1, <1>2
<1>6. before \subseteq Int
  OBVIOUS
<1>7. CallFor(m, j) = Last(before)
  BY <1>4 DEF CallFor
<1> HIDE DEF before
<1>8. \A x \in before : (\A y \in before : y <= x) => x = i
  BY <1>4, <1>5, <1>6
<1> QED
  BY <1>4, <1>5, <1>7, <1>8 DEF Last

(* The messages from position s on. *)
LEMMA FromBehind ==
  ASSUME NEW m \in Seq(Messages), NEW s \in 1..(Len(m) + 1)
  PROVE  Behind(m, s - 1, From(m, s))
<1>1. Len(m) \in Nat /\ s \in Int
  OBVIOUS
<1>2. /\ From(m, s) \in Seq(Messages)
      /\ Len(From(m, s)) = Len(m) - s + 1
      /\ \A k \in 1..(Len(m) - s + 1) : From(m, s)[k] = m[s + k - 1]
  BY <1>1 DEF From
<1>3. \A k \in 1..(Len(m) - s + 1) : s + k - 1 = (s - 1) + k
  BY <1>1
<1> QED
  BY <1>1, <1>2, <1>3 DEF Behind

(* A window that cuts no pair keeps calls and answers together. *)
LEMMA SuffixAnswered ==
  ASSUME NEW m, Answered(m), NEW s \in 1..(Len(m) + 1), CutsNoPair(m, s)
  PROVE  Answered(From(m, s))
<1>1. PICK c, n : c = From(m, s) /\ n = s - 1
  OBVIOUS
<1>2. m \in Seq(Messages) /\ Len(m) \in Nat /\ s \in Nat
  BY DEF Answered
<1>3. Behind(m, n, c)
  BY <1>1, <1>2, FromBehind
<1>4. /\ c \in Seq(Messages) /\ n \in Nat /\ Len(c) \in Nat /\ Len(m) = n + Len(c)
      /\ \A k \in 1..Len(c) : m[n + k] = c[k]
  BY <1>3 DEF Behind
<1>5. ASSUME NEW i \in 1..Len(c), c[i].role = "calls" PROVE AnsweredAt(c, i)
  <2>1. n + i \in 1..Len(m) /\ m[n + i].role = "calls"
    BY <1>4, <1>5
  <2>2. AnsweredAt(m, n + i)
    BY <2>1 DEF Answered
  <2> QED
    BY <1>3, <2>2, AnsweredBehind
<1>6. ASSUME NEW j \in 1..Len(c), c[j].role = "tool"
      PROVE  \E i \in 1..Len(c) : c[i].role = "calls" /\ j \in Replies(c, i)
  <2>1. n + j \in 1..Len(m) /\ n + j \in s..Len(m) /\ m[n + j].role = "tool"
    BY <1>1, <1>2, <1>4, <1>6
  <2>2. PICK i \in 1..Len(m) : m[i].role = "calls" /\ n + j \in Replies(m, i)
    BY <2>1 DEF Answered
  <2>3. CallFor(m, n + j) = i
    BY <2>1, <2>2, OwnerFound
  <2>4. i \notin 1..(s - 1)
    BY <2>1, <2>3 DEF CutsNoPair
  <2>5. PICK k \in 1..Len(c) : i = n + k
    <3>1. i - n \in 1..Len(c) /\ i = n + (i - n)
      BY <1>1, <1>2, <1>4, <2>4
    <3> QED
      BY <3>1
  <2>6. Replies(m, n + k) = {n + l : l \in Replies(c, k)}
    BY <1>3, RepliesBehind
  <2>7. PICK l \in Replies(c, k) : n + j = n + l
    BY <2>2, <2>5, <2>6
  <2>8. l = j
    <3>1. l \in Int
      BY DEF Replies
    <3> QED
      BY <1>4, <2>7, <3>1
  <2> QED
    BY <1>4, <2>2, <2>5, <2>7, <2>8
<1> QED
  BY <1>1, <1>4, <1>5, <1>6 DEF Answered

(* Widening a window finds a start that cuts no pair: there is always the  *)
(* first message.                                                          *)
LEMMA WidenedStart ==
  ASSUME NEW m, NEW s \in Nat \ {0}
  PROVE  Widened(m, s) \in 1..s /\ CutsNoPair(m, Widened(m, s))
<1> DEFINE W == {w \in 1..s : CutsNoPair(m, w)}
           T == {n \in Nat : s - n \in W}
<1>1. 1 \in W
  BY DEF CutsNoPair
<1>2. W \subseteq 1..s /\ \A w \in W : CutsNoPair(m, w)
  OBVIOUS
<1>3. Widened(m, s) = Last(W)
  BY DEF Widened
<1> HIDE DEF W
<1>4. s - 1 \in T
  BY <1>1
<1>5. PICK n \in T : \A k \in T : n <= k
  BY <1>4, LeastNatural
<1>6. s - n \in W
  BY <1>5
<1>7. ASSUME NEW w \in W PROVE w <= s - n
  <2>1. s - w \in T
    <3>1. w \in 1..s
      BY <1>2
    <3>2. s - w \in Nat /\ s - (s - w) = w
      BY <3>1
    <3> QED
      BY <3>2
  <2>2. n <= s - w /\ n \in Nat
    BY <1>5, <2>1
  <2>3. w \in Int /\ s \in Int
    BY <1>2
  <2> QED
    BY <2>2, <2>3
<1>8. Last(W) \in W
  BY <1>6, <1>7 DEF Last
<1> QED
  BY <1>2, <1>3, <1>8

(* So the widened window is answered as well. *)
LEMMA WindowAnswered ==
  ASSUME NEW m, Answered(m), NEW s \in Nat \ {0}, s <= Len(m) + 1
  PROVE  Answered(From(m, Widened(m, s)))
<1>1. Len(m) \in Nat
  BY DEF Answered
<1>2. Widened(m, s) \in 1..(Len(m) + 1) /\ CutsNoPair(m, Widened(m, s))
  BY <1>1, WidenedStart
<1> QED
  BY <1>2, SuffixAnswered

-----------------------------------------------------------------------------
(* Pick and Results gather a list piece by piece: the function they choose *)
(* exists.                                                                 *)
LEMMA GatheredExists ==
  ASSUME NEW n \in Nat, NEW p
  PROVE  \E f : f = [k \in 0..n |-> IF k = 0 THEN <<>> ELSE f[k - 1] \o p[k]]
<1> DEFINE next(x, k) == x \o p[k]
           T == {m \in Nat : \E f : f = [k \in 0..m |-> IF k = 0 THEN <<>> ELSE next(f[k - 1], k)]}
<1> HIDE DEF next
<1>1. 0 \in T
  <2>1. PICK f : f = [k \in 0..0 |-> <<>>]
    OBVIOUS
  <2>2. f = [k \in 0..0 |-> IF k = 0 THEN <<>> ELSE next(f[k - 1], k)]
    BY <2>1
  <2> QED
    BY <2>2
<1>2. ASSUME NEW m \in Nat, m \in T PROVE m + 1 \in T
  <2>1. PICK f : f = [k \in 0..m |-> IF k = 0 THEN <<>> ELSE next(f[k - 1], k)]
    BY <1>2
  <2>2. PICK g : g = [k \in 0..(m + 1) |-> IF k <= m THEN f[k] ELSE next(f[m], k)]
    OBVIOUS
  <2>3. \A k \in 0..m : g[k] = f[k] /\ f[k] = IF k = 0 THEN <<>> ELSE next(f[k - 1], k)
    BY <2>1, <2>2
  <2>4. ASSUME NEW k \in 0..(m + 1)
        PROVE  g[k] = IF k = 0 THEN <<>> ELSE next(g[k - 1], k)
    <3>1. CASE k = 0
      BY <2>3, <3>1
    <3>2. CASE k # 0
      <4>1. k - 1 \in 0..m /\ g[k - 1] = f[k - 1]
        BY <2>3, <3>2
      <4>2. CASE k = m + 1
        <5>1. g[k] = next(f[m], k) /\ k - 1 = m
          BY <2>2, <4>2
        <5> QED
          BY <3>2, <4>1, <5>1
      <4>3. CASE k <= m
        <5>1. g[k] = next(f[k - 1], k)
          BY <2>3, <3>2, <4>3
        <5> QED
          BY <3>2, <4>1, <5>1
      <4> QED
        BY <4>2, <4>3
    <3> QED
      BY <3>1, <3>2
  <2>5. g = [k \in 0..(m + 1) |-> IF k = 0 THEN <<>> ELSE next(g[k - 1], k)]
    BY <2>2, <2>4
  <2> QED
    BY <2>5
<1>3. n \in T
  <2> HIDE DEF T
  <2> QED
    BY <1>1, <1>2, AllNaturals
<1> QED
  BY <1>3 DEF next

(* Picking every position gives the list itself. *)
LEMMA PickAll ==
  ASSUME NEW m \in Seq(Messages), NEW keep, \A k \in 1..Len(m) : k \in keep
  PROVE  Pick(m, keep) = m
<1> DEFINE piece(k) == IF k \in keep THEN <<m[k]>> ELSE <<>>
           upto[k \in 0..Len(m)] == IF k = 0 THEN <<>> ELSE upto[k - 1] \o piece(k)
<1>1. PICK n : n = Len(m)
  OBVIOUS
<1>2. n \in Nat
  BY <1>1
<1>3. PICK p : p = [k \in 1..n |-> piece(k)]
  OBVIOUS
<1>4. PICK f : f = [k \in 0..n |-> IF k = 0 THEN <<>> ELSE f[k - 1] \o p[k]]
  BY <1>2, GatheredExists
<1>5. f = [k \in 0..n |-> IF k = 0 THEN <<>> ELSE f[k - 1] \o piece(k)]
  <2>1. \A k \in 0..n : k # 0 => p[k] = piece(k)
    BY <1>2, <1>3
  <2> HIDE DEF piece
  <2> QED
    BY <1>4, <2>1
<1>6. upto = [k \in 0..n |-> IF k = 0 THEN <<>> ELSE upto[k - 1] \o piece(k)]
  <2> HIDE DEF piece
  <2> QED
    BY <1>1, <1>5
<1>7. Pick(m, keep) = upto[n]
  BY <1>1 DEF Pick
<1> HIDE DEF upto
<1>8. \A k \in 1..n : piece(k) = <<m[k]>>
  BY <1>1
<1> HIDE DEF piece
<1> DEFINE T == {k \in Nat : k <= n => upto[k] = SubSeq(m, 1, k)}
<1>9. 0 \in T
  BY <1>2, <1>6
<1>10. ASSUME NEW k \in Nat, k \in T PROVE k + 1 \in T
  <2> SUFFICES ASSUME k + 1 <= n PROVE upto[k + 1] = SubSeq(m, 1, k + 1)
    OBVIOUS
  <2>1. upto[k] = SubSeq(m, 1, k)
    BY <1>2, <1>10
  <2>2. k + 1 \in 1..n /\ k + 1 \in 0..n /\ k + 1 # 0 /\ (k + 1) - 1 = k
    BY <1>2
  <2>3. upto[k + 1] = upto[k] \o <<m[k + 1]>>
    BY <1>6, <1>8, <2>2
  <2> QED
    BY <1>1, <2>1, <2>2, <2>3
<1>11. n \in T
  <2> HIDE DEF T
  <2> QED
    BY <1>2, <1>9, <1>10, AllNaturals
<1> QED
  BY <1>1, <1>2, <1>7, <1>11

(* There is nothing to drop in an answered list. *)
LEMMA NoOrphans ==
  ASSUME NEW m, Answered(m)
  PROVE  DropOrphans(m) = m
<1>1. m \in Seq(Messages) /\ DOMAIN m = 1..Len(m) /\ Len(m) \in Nat
  BY DEF Answered
<1>2. ASSUME NEW j \in 1..Len(m), m[j].role = "tool" PROVE CallFor(m, j) # 0
  <2>1. PICK i \in 1..Len(m) : m[i].role = "calls" /\ j \in Replies(m, i)
    BY <1>2 DEF Answered
  <2>2. CallFor(m, j) = i
    BY <2>1, OwnerFound
  <2> QED
    BY <2>2
<1> DEFINE keep == {i \in DOMAIN m : m[i].role = "tool" => CallFor(m, i) # 0}
<1>3. \A k \in 1..Len(m) : k \in keep
  BY <1>1, <1>2
<1>4. DropOrphans(m) = Pick(m, keep)
  BY DEF DropOrphans
<1> HIDE DEF keep
<1> QED
  BY <1>1, <1>3, <1>4, PickAll

(* A list that starts with a plain message, the system prompt. *)
Headed(m) == m # <<>> /\ IsPlain(m[1])

Ready(m) == Answered(m) /\ Headed(m)

(* A window behind the first message, or behind it and a note. *)
LEMMA HeadKept ==
  ASSUME NEW m, Ready(m), NEW w, Answered(w)
  PROVE  Ready(<<m[1]>> \o w) /\ Ready(<<m[1], System>> \o w)
<1>1. IsPlain(m[1]) /\ m[1] \in Messages /\ w \in Seq(Messages)
  BY DEF Ready, Headed, IsPlain, Answered
<1>2. IsPlain(System) /\ System \in Messages
  BY LoopConstants DEF IsPlain, System, Plain, Messages
<1>3. Answered(<<m[1]>>)
  <2>1. <<m[1]>> \in Seq(Messages) /\ \A i \in 1..Len(<<m[1]>>) : IsPlain(<<m[1]>>[i])
    BY <1>1
  <2> QED
    BY <2>1, PlainAnswered
<1>4. Answered(<<m[1], System>>)
  <2>1. /\ <<m[1], System>> \in Seq(Messages)
        /\ \A i \in 1..Len(<<m[1], System>>) : IsPlain(<<m[1], System>>[i])
    BY <1>1, <1>2
  <2> QED
    BY <2>1, PlainAnswered
<1>5. <<m[1]>> \o w # <<>> /\ (<<m[1]>> \o w)[1] = m[1]
  BY <1>1
<1>6. <<m[1], System>> \o w # <<>> /\ (<<m[1], System>> \o w)[1] = m[1]
  BY <1>1, <1>2
<1> QED
  BY <1>1, <1>3, <1>4, <1>5, <1>6, ConcatAnswered DEF Ready, Headed

(* Trimming keeps the first message and a window without cut pairs. *)
LEMMA KeepRecentReady ==
  ASSUME NEW m, Ready(m)
  PROVE  \E w : Answered(w) /\ KeepRecent(m) = <<m[1]>> \o w /\ Tail(KeepRecent(m)) = w
<1>1. /\ Answered(m) /\ m \in Seq(Messages) /\ Len(m) \in Nat /\ m # <<>>
      /\ m[1] \in Messages
  BY DEF Ready, Headed, Answered, IsPlain
<1>2. ASSUME NEW w, Answered(w) PROVE Tail(<<m[1]>> \o w) = w
  <2>1. w \in Seq(Messages)
    BY <1>2 DEF Answered
  <2> QED
    BY <1>1, <2>1
<1>3. CASE Len(m) <= 1
  <2>1. KeepRecent(m) = m
    BY <1>3 DEF KeepRecent
  <2>2. Len(m) = 1
    <3>1. PICK l : l = Len(m)
      OBVIOUS
    <3>2. l \in Nat /\ l # 0
      BY <1>1, <3>1, NonEmpty
    <3> QED
      BY <1>3, <3>1, <3>2
  <2>3. m = <<m[1]>> \o <<>>
    BY <1>1, <2>2
  <2>4. Answered(<<>>)
    BY NothingAnswered
  <2> QED
    BY <1>2, <2>1, <2>3, <2>4
<1>4. CASE Len(m) > 1
  <2> DEFINE s == Larger(2, Len(m) - KeepLast + 1)
             w == From(m, Widened(m, s))
  <2>1. s \in Nat \ {0} /\ s <= Len(m) + 1
    BY <1>1, <1>4, HistoryConstants DEF Larger
  <2>2. KeepRecent(m) = DropOrphans(<<m[1]>> \o w)
    BY <1>1, <1>4 DEF KeepRecent
  <2> HIDE DEF s
  <2>3. Answered(w)
    BY <1>1, <2>1, WindowAnswered
  <2> HIDE DEF w
  <2>4. Answered(<<m[1]>> \o w)
    BY <2>3, HeadKept DEF Ready
  <2>5. KeepRecent(m) = <<m[1]>> \o w
    BY <2>2, <2>4, NoOrphans
  <2> QED
    BY <1>2, <2>3, <2>5
<1> QED
  BY <1>1, <1>3, <1>4

(* The fallback compression adds a note at most. *)
LEMMA DeterministicReady ==
  ASSUME NEW m, Ready(m)
  PROVE  Ready(Deterministic(m))
<1>1. PICK w : Answered(w) /\ Tail(KeepRecent(m)) = w
  BY KeepRecentReady
<1> DEFINE marker == IF Len(m) - Len(w) > 1 THEN <<System>> ELSE <<>>
           l == <<m[1]>> \o marker \o w
<1>2. Deterministic(m) = DropOrphans(l)
  BY <1>1 DEF Deterministic
<1>3. /\ w \in Seq(Messages) /\ m[1] \in Messages /\ System \in Messages
  BY <1>1, LoopConstants DEF Ready, Headed, Answered, IsPlain, System, Plain, Messages
<1>4. l = <<m[1]>> \o w \/ l = <<m[1], System>> \o w
  <2>1. CASE marker = <<>>
    BY <1>3, <2>1
  <2>2. CASE marker = <<System>>
    BY <1>3, <2>2
  <2> QED
    BY <2>1, <2>2
<1> HIDE DEF l
<1>5. Ready(l)
  BY <1>1, <1>4, HeadKept
<1>6. DropOrphans(l) = l
  BY <1>5, NoOrphans DEF Ready
<1> QED
  BY <1>2, <1>5, <1>6

(* So does the one with a summary. *)
LEMMA SummarisedReady ==
  ASSUME NEW m, Ready(m)
  PROVE  Ready(Summarised(m))
<1> DEFINE first == SummaryThreshold + 1
           start == IF first > Len(m) THEN first ELSE Widened(m, first)
           w == From(m, start)
<1>1. Answered(m) /\ m \in Seq(Messages) /\ Len(m) \in Nat
  BY DEF Ready, Answered
<1>2. first \in Nat \ {0}
  BY HistoryConstants
<1>3. Answered(w)
  <2>1. CASE first > Len(m)
    <3>1. w = <<>>
      BY <1>1, <1>2, <2>1 DEF From
    <3> HIDE DEF w
    <3> QED
      BY <3>1, NothingAnswered
  <2>2. CASE ~(first > Len(m))
    <3>1. w = From(m, Widened(m, first)) /\ first <= Len(m) + 1
      BY <1>1, <1>2, <2>2
    <3> HIDE DEF first, w
    <3> QED
      BY <1>1, <1>2, <3>1, WindowAnswered
  <2> QED
    BY <2>1, <2>2
<1>4. Summarised(m) = DropOrphans(<<m[1], System>> \o w)
  BY DEF Summarised
<1> HIDE DEF w
<1>5. Ready(<<m[1], System>> \o w)
  BY <1>3, HeadKept
<1>6. DropOrphans(<<m[1], System>> \o w) = <<m[1], System>> \o w
  BY <1>5, NoOrphans DEF Ready
<1> QED
  BY <1>4, <1>5, <1>6

(* Whatever prepare_for_llm leaves, calls and answers stay together, and   *)
(* the system prompt stays first.                                          *)
LEMMA PreparedReady ==
  ASSUME NEW m, Ready(m), NEW c \in Prepared(m)
  PROVE  Ready(c)
<1>1. ASSUME NEW l, Ready(l), NEW x \in Preflight(l) PROVE Ready(x)
  <2>1. DropOrphans(l) = l
    BY <1>1, NoOrphans DEF Ready
  <2>2. Ready(KeepRecent(l))
    <3>1. PICK w : Answered(w) /\ KeepRecent(l) = <<l[1]>> \o w
      BY <1>1, KeepRecentReady
    <3> QED
      BY <1>1, <3>1, HeadKept
  <2> QED
    BY <1>1, <2>1, <2>2 DEF Preflight
<1>2. ASSUME NEW l \in Compressed(m) PROVE Ready(l)
  BY <1>2, SummarisedReady, DeterministicReady DEF Compressed
<1>3. PICK l \in Compressed(m) : c \in Preflight(l)
  BY DEF Prepared
<1> QED
  BY <1>1, <1>2, <1>3

-----------------------------------------------------------------------------
(* The answers to one batch. *)
Tools(r) == {j \in 1..Len(r) : r[j].role = "tool"}

AnswersTo(r, ids, kinds) ==
  /\ r \in Seq(Messages)
  /\ \A j \in 1..Len(r) : r[j].role # "calls"
  /\ {r[j].id : j \in Tools(r)} = ids
  /\ \A j, k \in Tools(r) : r[j].id = r[k].id => j = k
  /\ \A j \in Tools(r) : r[j].val = Owed(kinds, r[j].id)

(* One more list of answers to other calls of the batch. *)
LEMMA MoreAnswers ==
  ASSUME NEW a, NEW b, NEW A, NEW B, NEW kinds,
         AnswersTo(a, A, kinds), AnswersTo(b, B, kinds), A \intersect B = {}
  PROVE  AnswersTo(a \o b, A \union B, kinds)
<1>1. a \in Seq(Messages) /\ b \in Seq(Messages)
  BY DEF AnswersTo
<1>2. PICK r : r = a \o b
  OBVIOUS
<1>3. PICK n : n = Len(a)
  OBVIOUS
<1>4. /\ r \in Seq(Messages) /\ n \in Nat /\ Len(b) \in Nat /\ Len(r) = n + Len(b)
      /\ \A k \in 1..n : r[k] = a[k]
      /\ \A k \in 1..Len(b) : r[n + k] = b[k]
  BY <1>1, <1>2, <1>3, Concat
<1>5. ASSUME NEW j \in 1..Len(r)
      PROVE  \/ j \in 1..n /\ r[j] = a[j]
             \/ \E k \in 1..Len(b) : j = n + k /\ r[j] = b[k]
  <2>1. CASE j <= n
    BY <1>4, <2>1
  <2>2. CASE j > n
    <3>1. j - n \in 1..Len(b) /\ j = n + (j - n)
      BY <1>4, <2>2
    <3> QED
      BY <1>4, <3>1
  <2> QED
    BY <1>4, <2>1, <2>2
<1>6. \A j \in 1..Len(r) : r[j].role # "calls"
  BY <1>3, <1>5 DEF AnswersTo
<1>7. ASSUME NEW j \in Tools(r)
      PROVE  \/ j \in Tools(a) /\ r[j] = a[j] /\ r[j].id \in A
             \/ \E k \in Tools(b) : j = n + k /\ r[j] = b[k] /\ r[j].id \in B
  <2>1. j \in 1..Len(r) /\ r[j].role = "tool"
    BY DEF Tools
  <2>2. CASE j \in 1..n /\ r[j] = a[j]
    <3>1. j \in Tools(a)
      BY <1>3, <2>1, <2>2 DEF Tools
    <3> QED
      BY <2>2, <3>1 DEF AnswersTo
  <2>3. CASE \E k \in 1..Len(b) : j = n + k /\ r[j] = b[k]
    <3>1. PICK k \in 1..Len(b) : j = n + k /\ r[j] = b[k]
      BY <2>3
    <3>2. k \in Tools(b)
      BY <2>1, <3>1 DEF Tools
    <3> QED
      BY <3>1, <3>2 DEF AnswersTo
  <2> QED
    BY <1>5, <2>1, <2>2, <2>3
<1>8. \A j \in Tools(a) : j \in Tools(r) /\ r[j] = a[j]
  BY <1>3, <1>4 DEF Tools
<1>9. \A k \in Tools(b) : n + k \in Tools(r) /\ r[n + k] = b[k]
  BY <1>4 DEF Tools
<1>10. {r[j].id : j \in Tools(r)} = A \union B
  <2>1. ASSUME NEW j \in Tools(r) PROVE r[j].id \in A \union B
    BY <1>7
  <2>2. ASSUME NEW x \in A PROVE x \in {r[j].id : j \in Tools(r)}
    <3>1. PICK j \in Tools(a) : x = a[j].id
      BY DEF AnswersTo
    <3> QED
      BY <1>8, <3>1
  <2>3. ASSUME NEW x \in B PROVE x \in {r[j].id : j \in Tools(r)}
    <3>1. PICK j \in Tools(b) : x = b[j].id
      BY DEF AnswersTo
    <3> QED
      BY <1>9, <3>1
  <2> QED
    BY <2>1, <2>2, <2>3
<1>11. ASSUME NEW j \in Tools(r), NEW k \in Tools(r), r[j].id = r[k].id PROVE j = k
  <2>1. CASE j \in Tools(a) /\ r[j] = a[j] /\ r[j].id \in A
    <3>1. r[k].id \in A
      BY <1>11, <2>1
    <3>2. k \in Tools(a) /\ r[k] = a[k]
      BY <1>7, <3>1
    <3> QED
      BY <1>11, <2>1, <3>2 DEF AnswersTo
  <2>2. CASE \E x \in Tools(b) : j = n + x /\ r[j] = b[x] /\ r[j].id \in B
    <3>1. PICK x \in Tools(b) : j = n + x /\ r[j] = b[x] /\ r[j].id \in B
      BY <2>2
    <3>2. r[k].id \in B
      BY <1>11, <3>1
    <3>3. PICK y \in Tools(b) : k = n + y /\ r[k] = b[y]
      BY <1>7, <3>2
    <3>4. x = y
      BY <1>11, <3>1, <3>3 DEF AnswersTo
    <3> QED
      BY <3>1, <3>3, <3>4
  <2> QED
    BY <1>7, <2>1, <2>2
<1>12. ASSUME NEW j \in Tools(r) PROVE r[j].val = Owed(kinds, r[j].id)
  <2>1. CASE j \in Tools(a) /\ r[j] = a[j]
    BY <2>1 DEF AnswersTo
  <2>2. CASE \E x \in Tools(b) : r[j] = b[x]
    BY <2>2 DEF AnswersTo
  <2> QED
    BY <1>7, <2>1, <2>2
<1>13. AnswersTo(r, A \union B, kinds)
  BY <1>4, <1>6, <1>10, <1>11, <1>12 DEF AnswersTo
<1> QED
  BY <1>2, <1>13

(* Messages that are plain answer nothing. *)
LEMMA NoAnswers ==
  ASSUME NEW r \in Seq(Messages), \A j \in 1..Len(r) : IsPlain(r[j]), NEW kinds
  PROVE  AnswersTo(r, {}, kinds)
<1>1. Tools(r) = {} /\ \A j \in 1..Len(r) : r[j].role # "calls"
  BY DEF Tools, IsPlain
<1> QED
  BY <1>1 DEF AnswersTo

LEMMA NothingAnswers ==
  ASSUME NEW kinds
  PROVE  AnswersTo(<<>>, {}, kinds)
<1>1. PICK e : e = <<>>
  OBVIOUS
<1>2. e \in Seq(Messages) /\ \A j \in 1..Len(e) : IsPlain(e[j])
  BY <1>1
<1>3. AnswersTo(e, {}, kinds)
  BY <1>2, NoAnswers
<1> QED
  BY <1>1, <1>3

(* One reply answers its call. *)
LEMMA OneAnswer ==
  ASSUME NEW id \in 0..MaxBatch, NEW kinds, NEW val \in {"result", "skipped", "answer"},
         val = Owed(kinds, id)
  PROVE  AnswersTo(<<Reply(id, val)>>, {id}, kinds)
<1>1. PICK x : x = Reply(id, val)
  OBVIOUS
<1>2. x \in Messages /\ x.role = "tool" /\ x.id = id /\ x.val = val
  BY <1>1 DEF Reply, Plain, Messages
<1>3. PICK r : r = <<x>>
  OBVIOUS
<1>4. r \in Seq(Messages) /\ Len(r) = 1 /\ r[1] = x
  BY <1>2, <1>3
<1>5. Tools(r) = {1}
  BY <1>2, <1>4 DEF Tools
<1> QED
  BY <1>1, <1>2, <1>3, <1>4, <1>5 DEF AnswersTo

(* A batch with all its answers is an answered list. *)
LEMMA BatchAnswered ==
  ASSUME NEW b \in Batches, NEW r, AnswersTo(r, DOMAIN b, b)
  PROVE  Answered(<<Calls(b)>> \o r)
<1>1. PICK x : x = Calls(b)
  OBVIOUS
<1>2. x \in Messages /\ x.role = "calls" /\ x.kinds = b
  BY <1>1, LoopConstants DEF Calls, Plain, Messages
<1>3. PICK m : m = <<x>> \o r
  OBVIOUS
<1>4. r \in Seq(Messages) /\ Len(r) \in Nat
  BY DEF AnswersTo
<1>5. /\ m \in Seq(Messages) /\ Len(m) = 1 + Len(r) /\ m[1] = x
      /\ \A k \in 1..Len(r) : m[1 + k] = r[k]
  BY <1>2, <1>3, <1>4
<1>6. \A i \in 2..Len(m) : i - 1 \in 1..Len(r) /\ m[i] = r[i - 1]
  <2>1. \A i \in 2..Len(m) : i - 1 \in 1..Len(r) /\ 1 + (i - 1) = i
    BY <1>4, <1>5
  <2> QED
    BY <1>5, <2>1
<1>7. \A i \in 2..Len(m) : m[i].role # "calls"
  BY <1>6 DEF AnswersTo
<1>8. Replies(m, 1) = {j \in 2..Len(m) : m[j].role = "tool"}
  BY <1>4, <1>5, <1>7 DEF Replies
<1>9. \A j \in Replies(m, 1) : j \in Int /\ j - 1 \in Tools(r) /\ m[j] = r[j - 1]
  BY <1>6, <1>8 DEF Tools
<1>10. \A k \in Tools(r) : 1 + k \in Replies(m, 1) /\ m[1 + k] = r[k]
  BY <1>4, <1>5, <1>8 DEF Tools
<1>11. AnsweredAt(m, 1)
  <2>1. {m[j].id : j \in Replies(m, 1)} = DOMAIN b
    <3>1. ASSUME NEW j \in Replies(m, 1) PROVE m[j].id \in DOMAIN b
      BY <1>9 DEF AnswersTo
    <3>2. ASSUME NEW d \in DOMAIN b PROVE d \in {m[j].id : j \in Replies(m, 1)}
      <4>1. PICK k \in Tools(r) : d = r[k].id
        BY DEF AnswersTo
      <4> QED
        BY <1>10, <4>1
    <3> QED
      BY <3>1, <3>2
  <2>2. ASSUME NEW j \in Replies(m, 1), NEW k \in Replies(m, 1), m[j].id = m[k].id
        PROVE  j = k
    <3>1. j - 1 = k - 1
      BY <1>9, <2>2 DEF AnswersTo
    <3> QED
      BY <1>9, <3>1
  <2>3. \A j \in Replies(m, 1) : m[j].val = Owed(b, m[j].id)
    BY <1>9 DEF AnswersTo
  <2> QED
    BY <1>2, <1>5, <2>1, <2>2, <2>3 DEF AnsweredAt
<1>12. \A i \in 1..Len(m) : m[i].role = "calls" => i = 1
  BY <1>4, <1>5, <1>7
<1>13. \A j \in 1..Len(m) : m[j].role = "tool" => j \in Replies(m, 1) /\ 1 \in 1..Len(m)
  BY <1>2, <1>4, <1>5, <1>8
<1> QED
  BY <1>1, <1>2, <1>3, <1>5, <1>11, <1>12, <1>13 DEF Answered

(* A batch is a short list of tools. *)
LEMMA BatchIs ==
  ASSUME NEW b \in Batches
  PROVE  /\ Len(b) \in 1..MaxBatch /\ DOMAIN b = 1..Len(b)
         /\ \A i \in 1..Len(b) : b[i] \in Kinds
<1>1. PICK n \in 1..MaxBatch : b \in [1..n -> Kinds]
  BY DEF Batches
<1>2. n \in Nat
  BY <1>1, LoopConstants
<1>3. Len(b) = n /\ DOMAIN b = 1..n
  BY <1>1, <1>2
<1> QED
  BY <1>1, <1>3

HasQuestion(b) == \E i \in DOMAIN b : b[i] = "ask"

(* The first question of a batch that has one. *)
LEMMA FirstAskIs ==
  ASSUME NEW b \in Batches, HasQuestion(b)
  PROVE  /\ FirstAsk(b) \in 1..Len(b) /\ b[FirstAsk(b)] = "ask"
         /\ \A k \in 1..Len(b) : b[k] = "ask" => FirstAsk(b) <= k
<1>1. Len(b) \in Nat /\ DOMAIN b = 1..Len(b)
  BY BatchIs
<1> DEFINE T == {i \in Nat : i \in 1..Len(b) /\ b[i] = "ask"}
<1>2. PICK f \in T : \A k \in T : f <= k
  <2>1. T # {}
    BY <1>1 DEF HasQuestion
  <2> QED
    BY <2>1, LeastNatural
<1>3. f \in DOMAIN b /\ b[f] = "ask" /\ \A j \in 1..(f - 1) : b[j] # "ask"
  <2>1. ASSUME NEW j \in 1..(f - 1), b[j] = "ask" PROVE FALSE
    <3>1. j \in T /\ j < f
      BY <1>1, <1>2, <2>1
    <3> QED
      BY <1>2, <3>1
  <2> QED
    BY <1>1, <1>2, <2>1
<1> DEFINE g == FirstAsk(b)
<1>4. g \in DOMAIN b /\ b[g] = "ask" /\ \A j \in 1..(g - 1) : b[j] # "ask"
  BY <1>3 DEF FirstAsk
<1> HIDE DEF g
<1>5. ASSUME NEW k \in 1..Len(b), b[k] = "ask" PROVE g <= k
  <2>1. k \notin 1..(g - 1)
    BY <1>4, <1>5
  <2> QED
    BY <1>1, <1>4, <2>1
<1>6. g \in 1..Len(b) /\ b[g] = "ask" /\ \A k \in 1..Len(b) : b[k] = "ask" => g <= k
  BY <1>1, <1>4, <1>5
<1> QED
  BY <1>6 DEF g

(* Who owes what. *)
LEMMA OwedToQuestion ==
  ASSUME NEW b \in Batches, HasQuestion(b), NEW id \in 1..Len(b)
  PROVE  Owed(b, id) = IF id = FirstAsk(b) THEN "answer" ELSE "skipped"
<1>1. Len(b) \in Nat /\ DOMAIN b = 1..Len(b)
  BY BatchIs
<1>2. PICK f : f = FirstAsk(b)
  OBVIOUS
<1>3. /\ f \in 1..Len(b) /\ b[f] = "ask"
      /\ \A k \in 1..Len(b) : b[k] = "ask" => f <= k
  BY <1>2, FirstAskIs
<1>4. PICK asks : asks = {k \in DOMAIN b : b[k] = "ask"}
  OBVIOUS
<1>5. f \in asks /\ asks \subseteq 1..Len(b) /\ \A k \in asks : f <= k
  BY <1>1, <1>3, <1>4
<1>6. (id \in asks /\ \A k \in asks : id <= k) <=> id = f
  BY <1>1, <1>5
<1>7. Owed(b, id) = IF asks = {} THEN "result"
                    ELSE IF id \in asks /\ \A k \in asks : id <= k THEN "answer" ELSE "skipped"
  BY <1>4 DEF Owed
<1> QED
  BY <1>2, <1>5, <1>6, <1>7

LEMMA OwedToTools ==
  ASSUME NEW b, ~HasQuestion(b), NEW id
  PROVE  Owed(b, id) = "result"
  BY DEF Owed, HasQuestion

(* A batch with a question: all but the question are answered as skipped,  *)
(* and the user's answer is what is missing.                               *)
LEMMA SkippedAnswers ==
  ASSUME NEW b \in Batches, HasQuestion(b)
  PROVE  AnswersTo(Skipped(b), (DOMAIN b) \ {FirstAsk(b)}, b)
<1>1. PICK n, f : n = Len(b) /\ f = FirstAsk(b)
  OBVIOUS
<1>2. n \in 1..MaxBatch /\ n \in Nat /\ DOMAIN b = 1..n /\ f \in 1..n /\ MaxBatch \in Nat
  BY <1>1, BatchIs, FirstAskIs, LoopConstants
<1>3. PICK at : at = [i \in 1..(n - 1) |-> IF i < f THEN i ELSE i + 1]
  OBVIOUS
<1>4. \A i \in 1..(n - 1) : at[i] \in 1..n /\ at[i] # f /\ at[i] \in 0..MaxBatch
  BY <1>2, <1>3
<1>5. \A i, k \in 1..(n - 1) : at[i] = at[k] => i = k
  BY <1>2, <1>3
<1>6. ASSUME NEW d \in 1..n, d # f PROVE \E i \in 1..(n - 1) : at[i] = d
  <2>1. CASE d < f
    <3>1. d \in 1..(n - 1) /\ at[d] = d
      BY <1>2, <1>3, <2>1
    <3> QED
      BY <3>1
  <2>2. CASE d > f
    <3>1. d - 1 \in 1..(n - 1) /\ at[d - 1] = d
      BY <1>2, <1>3, <2>2
    <3> QED
      BY <3>1
  <2> QED
    BY <1>2, <1>6, <2>1, <2>2
<1>7. PICK r : r = Skipped(b)
  OBVIOUS
<1>8. r = [i \in 1..(n - 1) |-> Reply(at[i], "skipped")]
  BY <1>1, <1>3, <1>7 DEF Skipped
<1>9. ASSUME NEW i \in 1..(n - 1)
      PROVE  r[i] \in Messages /\ r[i].role = "tool" /\ r[i].id = at[i] /\ r[i].val = "skipped"
  BY <1>4, <1>8 DEF Reply, Plain, Messages
<1>10. r \in Seq(Messages) /\ Len(r) = n - 1
  <2>1. n - 1 \in Nat
    BY <1>2
  <2>2. r \in [1..(n - 1) -> Messages]
    BY <1>8, <1>9
  <2> QED
    BY <2>1, <2>2
<1>11. Tools(r) = 1..(n - 1)
  BY <1>9, <1>10 DEF Tools
<1>12. {r[j].id : j \in Tools(r)} = (1..n) \ {f}
  <2>1. ASSUME NEW j \in Tools(r) PROVE r[j].id \in (1..n) \ {f}
    BY <1>4, <1>9, <1>11
  <2>2. ASSUME NEW d \in (1..n) \ {f} PROVE d \in {r[j].id : j \in Tools(r)}
    <3>1. PICK i \in 1..(n - 1) : at[i] = d
      BY <1>6
    <3> QED
      BY <1>9, <1>11, <3>1
  <2> QED
    BY <2>1, <2>2
<1>13. ASSUME NEW j \in Tools(r) PROVE r[j].val = Owed(b, r[j].id)
  <2>1. r[j].id \in 1..Len(b) /\ r[j].id # FirstAsk(b)
    BY <1>1, <1>4, <1>9, <1>11
  <2> QED
    BY <1>9, <1>11, <2>1, OwedToQuestion
<1>14. \A j, k \in Tools(r) : r[j].id = r[k].id => j = k
  BY <1>5, <1>9, <1>11
<1>15. \A j \in 1..Len(r) : r[j].role # "calls"
  BY <1>9, <1>10
<1>16. AnswersTo(r, (1..n) \ {f}, b)
  BY <1>10, <1>12, <1>13, <1>14, <1>15 DEF AnswersTo
<1> QED
  BY <1>1, <1>2, <1>7, <1>16

(* With that answer the batch is complete. *)
LEMMA QuestionAnswered ==
  ASSUME NEW b \in Batches, HasQuestion(b)
  PROVE  Answered(<<Calls(b)>> \o (Skipped(b) \o <<Reply(FirstAsk(b), "answer")>>))
<1>1. PICK f : f = FirstAsk(b)
  OBVIOUS
<1>2. f \in 1..Len(b) /\ DOMAIN b = 1..Len(b) /\ Len(b) \in 1..MaxBatch /\ MaxBatch \in Nat
  BY <1>1, BatchIs, FirstAskIs, LoopConstants
<1>3. f \in 0..MaxBatch /\ Owed(b, f) = "answer"
  BY <1>1, <1>2, OwedToQuestion
<1>4. AnswersTo(<<Reply(f, "answer")>>, {f}, b)
  BY <1>3, OneAnswer
<1>5. AnswersTo(Skipped(b), (DOMAIN b) \ {f}, b)
  BY <1>1, SkippedAnswers
<1>6. PICK r : r = Skipped(b) \o <<Reply(f, "answer")>>
  OBVIOUS
<1>7. AnswersTo(r, ((DOMAIN b) \ {f}) \union {f}, b)
  BY <1>4, <1>5, <1>6, MoreAnswers
<1>8. ((DOMAIN b) \ {f}) \union {f} = DOMAIN b
  BY <1>2
<1>9. AnswersTo(r, DOMAIN b, b)
  BY <1>7, <1>8
<1> QED
  BY <1>1, <1>6, <1>9, BatchAnswered

(* A batch of tools: the results, with or without images, are its answers. *)
LEMMA ResultsAnswer ==
  ASSUME NEW b \in Batches, ~HasQuestion(b), NEW images
  PROVE  AnswersTo(Results(Len(b), images), DOMAIN b, b)
<1> DEFINE piece(k) == <<Reply(k, "result")>> \o IF k \in images THEN <<User>> ELSE <<>>
<1>1. PICK n : n = Len(b)
  OBVIOUS
<1>2. n \in Nat /\ n <= MaxBatch /\ DOMAIN b = 1..n /\ MaxBatch \in Nat
  BY <1>1, BatchIs, LoopConstants
<1>3. ASSUME NEW k \in 1..n PROVE AnswersTo(piece(k), {k}, b)
  <2>1. AnswersTo(<<Reply(k, "result")>>, {k}, b)
    <3>1. k \in 0..MaxBatch
      BY <1>2
    <3> QED
      BY <3>1, OneAnswer, OwedToTools
  <2>2. AnswersTo(IF k \in images THEN <<User>> ELSE <<>>, {}, b)
    <3>1. IsPlain(User) /\ User \in Messages
      BY LoopConstants DEF IsPlain, User, Plain, Messages
    <3>2. AnswersTo(<<User>>, {}, b)
      <4>1. <<User>> \in Seq(Messages) /\ \A j \in 1..Len(<<User>>) : IsPlain(<<User>>[j])
        BY <3>1
      <4> QED
        BY <4>1, NoAnswers
    <3>3. AnswersTo(<<>>, {}, b)
      BY NothingAnswers
    <3> QED
      BY <3>2, <3>3
  <2>3. AnswersTo(piece(k), {k} \union {}, b)
    BY <2>1, <2>2, MoreAnswers
  <2>4. {k} \union {} = {k}
    OBVIOUS
  <2> HIDE DEF piece
  <2> QED
    BY <2>3, <2>4
<1> DEFINE upto[k \in 0..n] == IF k = 0 THEN <<>> ELSE upto[k - 1] \o piece(k)
<1>4. Results(n, images) = upto[n]
  BY DEF Results
<1>5. upto = [k \in 0..n |-> IF k = 0 THEN <<>> ELSE upto[k - 1] \o piece(k)]
  <2>1. PICK p : p = [k \in 1..n |-> piece(k)]
    OBVIOUS
  <2>2. PICK f : f = [k \in 0..n |-> IF k = 0 THEN <<>> ELSE f[k - 1] \o p[k]]
    BY <1>2, GatheredExists
  <2>3. \A k \in 0..n : k # 0 => p[k] = piece(k)
    BY <1>2, <2>1
  <2> HIDE DEF piece
  <2>4. f = [k \in 0..n |-> IF k = 0 THEN <<>> ELSE f[k - 1] \o piece(k)]
    BY <2>2, <2>3
  <2> QED
    BY <2>4
<1> HIDE DEF upto, piece
<1> DEFINE T == {k \in Nat : k <= n => AnswersTo(upto[k], 1..k, b)}
<1>6. 0 \in T
  <2>1. upto[0] = <<>> /\ 1..0 = {}
    BY <1>2, <1>5
  <2>2. AnswersTo(<<>>, {}, b)
    BY NothingAnswers
  <2> QED
    BY <2>1, <2>2
<1>7. ASSUME NEW k \in Nat, k \in T PROVE k + 1 \in T
  <2> SUFFICES ASSUME k + 1 <= n PROVE AnswersTo(upto[k + 1], 1..(k + 1), b)
    OBVIOUS
  <2>1. AnswersTo(upto[k], 1..k, b)
    BY <1>2, <1>7
  <2>2. k + 1 \in 1..n /\ k + 1 \in 0..n /\ k + 1 # 0 /\ (k + 1) - 1 = k
    BY <1>2
  <2>3. upto[k + 1] = upto[k] \o piece(k + 1)
    BY <1>5, <2>2
  <2>4. AnswersTo(piece(k + 1), {k + 1}, b)
    BY <1>3, <2>2
  <2>5. (1..k) \intersect {k + 1} = {} /\ (1..k) \union {k + 1} = 1..(k + 1)
    BY <1>2
  <2>6. AnswersTo(upto[k] \o piece(k + 1), (1..k) \union {k + 1}, b)
    BY <2>1, <2>4, <2>5, MoreAnswers
  <2> QED
    BY <2>3, <2>5, <2>6
<1>8. n \in T
  <2> HIDE DEF T
  <2> QED
    BY <1>2, <1>6, <1>7, AllNaturals
<1> QED
  BY <1>1, <1>2, <1>4, <1>8

-----------------------------------------------------------------------------
(* What the properties say of an answered list. *)

(* There are as many answers as calls. *)
LEMMA AnsweredPaired ==
  ASSUME NEW m, Answered(m)
  PROVE  Paired(m)
<1>1. m \in Seq(Messages) /\ DOMAIN m = 1..Len(m) /\ Len(m) \in Nat
  BY DEF Answered
<1>2. ASSUME NEW i \in DOMAIN m, m[i].role = "calls"
      PROVE  /\ {m[j].id : j \in Replies(m, i)} = DOMAIN m[i].kinds
             /\ Cardinality(Replies(m, i)) = Len(m[i].kinds)
  <2>1. AnsweredAt(m, i) /\ m[i] \in Messages
    BY <1>1, <1>2 DEF Answered
  <2>2. PICK R, n : R = Replies(m, i) /\ n = Len(m[i].kinds)
    OBVIOUS
  <2>3. n \in Nat /\ DOMAIN m[i].kinds = 1..n
    <3>1. CASE m[i].kinds = <<>>
      BY <2>2, <3>1
    <3>2. CASE m[i].kinds \in Batches
      BY <2>2, <3>2, BatchIs
    <3> QED
      BY <2>1, <3>1, <3>2 DEF Messages
  <2>4. IsFiniteSet(R)
    <3>1. IsFiniteSet(1..Len(m)) /\ R \subseteq 1..Len(m)
      BY <1>1, <2>2, FS_Interval DEF Replies
    <3> QED
      BY <3>1, FS_Subset
  <2>5. PICK f : f = [j \in R |-> m[j].id]
    OBVIOUS
  <2>6. /\ f \in [R -> 1..n]
        /\ \A j, k \in R : f[j] = f[k] => j = k
        /\ \A t \in 1..n : \E j \in R : f[j] = t
    BY <2>1, <2>2, <2>3, <2>5 DEF AnsweredAt
  <2>7. ExistsBijection(R, 1..n)
    <3>1. f \in Bijection(R, 1..n)
      BY <2>6 DEF Bijection, Injection, Surjection, IsInjective
    <3> QED
      BY <3>1 DEF ExistsBijection
  <2>8. Cardinality(1..n) = Cardinality(R)
    BY <2>4, <2>7, FS_Bijection
  <2>9. Cardinality(1..n) = n
    BY <2>3, FS_Interval
  <2> QED
    BY <2>1, <2>2, <2>8, <2>9 DEF AnsweredAt
<1>3. \A j \in DOMAIN m : m[j].role = "tool" =>
        \E i \in {k \in DOMAIN m : m[k].role = "calls"} : j \in Replies(m, i)
  BY <1>1 DEF Answered
<1> QED
  BY <1>2, <1>3 DEF Paired

(* A batch that waits for the user is not paired: nobody answered its      *)
(* first question.                                                         *)
LEMMA WaitingUnpaired ==
  ASSUME NEW h, Answered(h), NEW b \in Batches, HasQuestion(b)
  PROVE  ~Paired((h \o <<Calls(b)>>) \o Skipped(b))
<1>1. PICK r, c, f : r = Skipped(b) /\ c = Calls(b) /\ f = FirstAsk(b)
  OBVIOUS
<1>2. AnswersTo(r, (DOMAIN b) \ {f}, b) /\ f \in DOMAIN b
  BY <1>1, SkippedAnswers, FirstAskIs, BatchIs
<1>3. c \in Messages /\ c.role = "calls" /\ c.kinds = b
  BY <1>1, LoopConstants DEF Calls, Plain, Messages
<1>4. PICK a : a = h \o <<c>>
  OBVIOUS
<1>5. PICK n : n = Len(h) + 1
  OBVIOUS
<1>6. h \in Seq(Messages) /\ r \in Seq(Messages) /\ Len(r) \in Nat
  BY <1>2 DEF Answered, AnswersTo
<1>7. a \in Seq(Messages) /\ n \in Nat /\ n # 0 /\ Len(a) = n /\ a[n] = c
  BY <1>3, <1>4, <1>5, <1>6
<1>8. PICK m : m = a \o r
  OBVIOUS
<1>9. /\ m \in Seq(Messages) /\ Len(m) = n + Len(r)
      /\ \A k \in 1..n : m[k] = a[k]
      /\ \A k \in 1..Len(r) : m[n + k] = r[k]
  BY <1>6, <1>7, <1>8, Concat
<1>10. n \in DOMAIN m /\ m[n] = c
  BY <1>6, <1>7, <1>9
<1>11. ASSUME NEW j \in Replies(m, n) PROVE m[j].id # f
  <2>1. j \in (n + 1)..Len(m) /\ m[j].role = "tool"
    BY DEF Replies
  <2>2. PICK k \in 1..Len(r) : j = n + k
    <3>1. j - n \in 1..Len(r) /\ j = n + (j - n)
      BY <1>6, <1>7, <1>9, <2>1
    <3> QED
      BY <3>1
  <2>3. m[j] = r[k] /\ k \in Tools(r)
    BY <1>9, <2>1, <2>2 DEF Tools
  <2>4. r[k].id \in (DOMAIN b) \ {f}
    BY <1>2, <2>3 DEF AnswersTo
  <2> QED
    BY <2>3, <2>4
<1>12. {m[j].id : j \in Replies(m, n)} # DOMAIN m[n].kinds
  BY <1>2, <1>3, <1>10, <1>11
<1>13. ~Paired(m)
  BY <1>3, <1>10, <1>12 DEF Paired
<1> QED
  BY <1>1, <1>4, <1>8, <1>13

(* The answers are given by whom they should be. *)
LEMMA AnsweredByUser ==
  ASSUME NEW m, Answered(m), NEW i \in DOMAIN m, NEW j \in Replies(m, i), m[i].role = "calls"
  PROVE  m[j].val = Owed(m[i].kinds, m[j].id)
<1>1. AnsweredAt(m, i)
  BY DEF Answered
<1> QED
  BY <1>1 DEF AnsweredAt

-----------------------------------------------------------------------------
(* What the loop adds to its list. *)
LEMMA ReadyLonger ==
  ASSUME NEW m, Ready(m), NEW r, Answered(r)
  PROVE  Ready(m \o r)
<1>1. Answered(m \o r)
  BY ConcatAnswered DEF Ready
<1>2. m \in Seq(Messages) /\ r \in Seq(Messages) /\ m # <<>>
  BY DEF Ready, Headed, Answered
<1>3. PICK l : l = Len(m)
  OBVIOUS
<1>4. l \in Nat /\ l # 0
  BY <1>2, <1>3, NonEmpty
<1>5. m \o r # <<>> /\ (m \o r)[1] = m[1]
  BY <1>2, <1>3, <1>4
<1> QED
  BY <1>1, <1>5 DEF Ready, Headed

(* Remarks of the loop and texts of the LLM. *)
LEMMA Remarks ==
  /\ Answered(<<>>) /\ Answered(<<User>>) /\ Answered(<<Assistant>>)
  /\ Answered(<<Assistant, User>>)
<1>1. IsPlain(User) /\ IsPlain(Assistant) /\ User \in Messages /\ Assistant \in Messages
  BY LoopConstants DEF IsPlain, User, Assistant, Plain, Messages
<1>2. ASSUME NEW x, IsPlain(x), x \in Messages PROVE Answered(<<x>>)
  <2>1. <<x>> \in Seq(Messages) /\ \A j \in 1..Len(<<x>>) : IsPlain(<<x>>[j])
    BY <1>2
  <2> QED
    BY <2>1, PlainAnswered
<1>3. Answered(<<Assistant, User>>)
  <2>1. PICK x, y : x = Assistant /\ y = User
    OBVIOUS
  <2>2. <<x, y>> \in Seq(Messages) /\ \A k \in 1..Len(<<x, y>>) : IsPlain(<<x, y>>[k])
    BY <1>1, <2>1
  <2>3. Answered(<<x, y>>)
    BY <2>2, PlainAnswered
  <2> QED
    BY <2>1, <2>3
<1> QED
  BY <1>1, <1>2, <1>3, NothingAnswered

LEMMA CallsMessage ==
  ASSUME NEW b \in Batches
  PROVE  <<Calls(b)>> \in Seq(Messages)
<1>1. Calls(b) \in Messages
  BY LoopConstants DEF Calls, Plain, Messages
<1> QED
  BY <1>1

LEMMA Reminded ==
  ASSUME NEW r \in Reminder
  PROVE  Answered(r)
  BY Remarks DEF Reminder

(* Brackets do not matter. *)
Join(x, y) == x \o y

LEMMA JoinTwo ==
  ASSUME NEW x \in Seq(Messages), NEW y \in Seq(Messages)
  PROVE  Join(x, y) \in Seq(Messages)
  BY DEF Join

LEMMA JoinThree ==
  ASSUME NEW x \in Seq(Messages), NEW y \in Seq(Messages), NEW z \in Seq(Messages)
  PROVE  Join(Join(x, y), z) = Join(x, Join(y, z))
  BY ConcatAssociative DEF Join

LEMMA Regroup ==
  ASSUME NEW a \in Seq(Messages), NEW b \in Seq(Messages), NEW c \in Seq(Messages),
         NEW d \in Seq(Messages)
  PROVE  /\ Join(Join(a, b), Join(c, d)) = Join(Join(a, Join(b, c)), d)
         /\ Join(Join(Join(a, b), c), d) = Join(a, Join(b, Join(c, d)))
<1>1. /\ Join(a, b) \in Seq(Messages) /\ Join(b, c) \in Seq(Messages)
      /\ Join(c, d) \in Seq(Messages)
  BY JoinTwo
<1>2. Join(Join(Join(a, b), c), d) = Join(Join(a, b), Join(c, d))
  BY <1>1, JoinThree
<1>3. Join(Join(a, b), c) = Join(a, Join(b, c))
  BY JoinThree
<1>4. Join(Join(a, b), Join(c, d)) = Join(a, Join(b, Join(c, d)))
  BY <1>1, JoinThree
<1> QED
  BY <1>2, <1>3, <1>4

LEMMA RegroupFive ==
  ASSUME NEW a \in Seq(Messages), NEW b \in Seq(Messages), NEW c \in Seq(Messages),
         NEW d \in Seq(Messages), NEW e \in Seq(Messages)
  PROVE  Join(Join(a, b), Join(Join(c, d), e)) = Join(Join(Join(a, Join(b, c)), d), e)
<1>1. Join(Join(a, b), Join(Join(c, d), e)) = Join(Join(Join(a, b), Join(c, d)), e)
  BY JoinTwo, JoinThree
<1>2. Join(Join(a, b), Join(c, d)) = Join(Join(a, Join(b, c)), d)
  BY Regroup
<1> QED
  BY <1>1, <1>2

-----------------------------------------------------------------------------
(* Wherever the loop is, its list is answered, but for the batch it is      *)
(* running and the batch a question was asked in; and what was saved, or   *)
(* is to be saved, is one of the two pauses.                               *)
Underway(m) ==
  \E h, b : /\ Ready(h) /\ b \in Batches /\ ~HasQuestion(b)
            /\ m = h \o <<Calls(b)>>

Asked(p) ==
  /\ p.why = "question"
  /\ \E h, b : /\ Ready(h) /\ b \in Batches /\ HasQuestion(b)
               /\ p.msgs = (h \o <<Calls(b)>>) \o Skipped(b)
               /\ p.call = FirstAsk(b)

Saved(p) ==
  \/ p = NotPaused
  \/ p.why = "interrupt" /\ Ready(p.msgs)
  \/ Asked(p)

HInv ==
  /\ pc \in {"top", "llm", "salvage"} => Ready(msgs)
  /\ pc = "tools" => Underway(msgs)
  /\ Saved(disk) /\ Saved(state)

(* Nothing was saved before the first run. *)
LEMMA InitHistory == Init => HInv
  BY DEF Init, HInv, Saved

(* A resumed list is answered: a question by the mission, whatever the     *)
(* mission says.                                                           *)
LEMMA ResumedReady ==
  ASSUME NEW p, Saved(p), p # NotPaused, NEW turn \in {<<>>, <<User>>}
  PROVE  Ready(Resumed(p, turn))
<1>1. CASE p.why = "interrupt" /\ Ready(p.msgs)
  <2>1. Resumed(p, turn) = p.msgs \o turn
    BY <1>1 DEF Resumed
  <2>2. Answered(turn)
    BY Remarks
  <2> QED
    BY <1>1, <2>1, <2>2, ReadyLonger
<1>2. CASE Asked(p)
  <2>1. PICK h, b : /\ Ready(h) /\ b \in Batches /\ HasQuestion(b)
                    /\ p.msgs = (h \o <<Calls(b)>>) \o Skipped(b)
                    /\ p.call = FirstAsk(b)
    BY <1>2 DEF Asked
  <2>2. PICK c, r, a : c = <<Calls(b)>> /\ r = Skipped(b) /\ a = <<Reply(FirstAsk(b), "answer")>>
    OBVIOUS
  <2>3. Resumed(p, turn) = ((h \o c) \o r) \o a
    BY <1>2, <2>1, <2>2 DEF Resumed, Asked
  <2>4. Answered(c \o (r \o a))
    BY <2>1, <2>2, QuestionAnswered
  <2>5. h \in Seq(Messages) /\ c \in Seq(Messages) /\ r \in Seq(Messages) /\ a \in Seq(Messages)
    <3>1. h \in Seq(Messages)
      BY <2>1 DEF Ready, Answered
    <3>2. c \in Seq(Messages)
      BY <2>1, <2>2, CallsMessage
    <3>3. r \in Seq(Messages)
      BY <2>1, <2>2, SkippedAnswers DEF AnswersTo
    <3>4. a \in Seq(Messages)
      <4>1. FirstAsk(b) \in 0..MaxBatch
        BY <2>1, FirstAskIs, BatchIs, LoopConstants
      <4>2. Reply(FirstAsk(b), "answer") \in Messages
        BY <4>1 DEF Reply, Plain, Messages
      <4> QED
        BY <2>2, <4>2
    <3> QED
      BY <3>1, <3>2, <3>3, <3>4
  <2>6. Resumed(p, turn) = h \o (c \o (r \o a))
    <3>1. Join(Join(Join(h, c), r), a) = Join(h, Join(c, Join(r, a)))
      BY <2>5, Regroup
    <3> QED
      BY <2>3, <3>1 DEF Join
  <2> QED
    BY <2>1, <2>4, <2>6, ReadyLonger
<1> QED
  BY <1>1, <1>2 DEF Saved

(* So is the list of a fresh mission. *)
LEMMA InitialReady ==
  ASSUME NEW past \in Nat
  PROVE  Ready(Initial(past))
<1>1. /\ IsPlain(System) /\ IsPlain(User) /\ IsPlain(Assistant)
      /\ System \in Messages /\ User \in Messages /\ Assistant \in Messages
  BY LoopConstants DEF IsPlain, System, User, Assistant, Plain, Messages
<1>2. PICK t : t = [i \in 1..past |-> IF i % 2 = 1 THEN User ELSE Assistant]
  OBVIOUS
<1>3. t \in Seq(Messages) /\ Len(t) = past /\ \A i \in 1..Len(t) : IsPlain(t[i])
  BY <1>1, <1>2
<1>4. Answered(t)
  BY <1>3, PlainAnswered
<1>5. Ready(<<System>>)
  <2>1. <<System>> \in Seq(Messages) /\ \A i \in 1..Len(<<System>>) : IsPlain(<<System>>[i])
    BY <1>1
  <2>2. Answered(<<System>>)
    BY <2>1, PlainAnswered
  <2> QED
    BY <1>1, <2>2 DEF Ready, Headed
<1>6. Ready(<<System>> \o t)
  BY <1>4, <1>5, ReadyLonger
<1>7. Ready((<<System>> \o t) \o <<User>>)
  BY <1>6, Remarks, ReadyLonger
<1> QED
  BY <1>2, <1>7 DEF Initial

LEMMA StartHistory == ASSUME HInv, Start PROVE HInv'
<1>1. pc' = "top" /\ disk' = disk /\ Saved(state')
  BY DEF Start, Saved
<1>2. Ready(msgs')
  <2>1. CASE \E past \in 0..MaxPast : msgs' = Initial(past)
    <3>1. PICK past \in Nat : msgs' = Initial(past)
      BY <2>1, LoopConstants
    <3> QED
      BY <3>1, InitialReady
  <2>2. CASE disk # NotPaused /\ \E turn \in {<<>>, <<User>>} : msgs' = Resumed(disk, turn)
    BY <2>2, ResumedReady DEF HInv
  <2> QED
    BY <2>1, <2>2 DEF Start
<1> QED
  BY <1>1, <1>2 DEF HInv

(* An interrupt saves the list as it is. *)
LEMMA InterruptedHistory == ASSUME HInv, Interrupted PROVE HInv'
<1>1. /\ pc = "top" /\ pc' = "ending"
      /\ state' = [why |-> "interrupt", msgs |-> msgs, call |-> 0, step |-> step]
      /\ disk' \in {disk, state'}
  BY DEF Interrupted, Pause, Lands, Fails
<1>2. state'.why = "interrupt" /\ state'.msgs = msgs
  BY <1>1
<1>3. Saved(state')
  BY <1>1, <1>2 DEF HInv, Saved
<1> QED
  BY <1>1, <1>3 DEF HInv

(* What the LLM is sent was compressed and trimmed, with remarks in it. *)
LEMMA CallLLMHistory == ASSUME HInv, CallLLM PROVE HInv'
<1>1. pc = "top" /\ pc' = "llm" /\ UNCHANGED <<state, disk>>
  BY DEF CallLLM
<1>2. PICK broken \in Reminder, pivot \in {"none", "nudge", "off"} :
        msgs' \in Prepared(msgs \o broken \o IF pivot = "nudge" THEN <<User>> ELSE <<>>)
  BY DEF CallLLM
<1>3. PICK extra : extra = IF pivot = "nudge" THEN <<User>> ELSE <<>>
  OBVIOUS
<1>4. Answered(extra) /\ Answered(broken)
  BY <1>3, Remarks, Reminded
<1>5. Ready((msgs \o broken) \o extra)
  BY <1>1, <1>4, ReadyLonger DEF HInv
<1>6. Ready(msgs')
  BY <1>2, <1>3, <1>5, PreparedReady
<1> QED
  BY <1>1, <1>6 DEF HInv

(* Remarks and answers lengthen the list; the end of a run asks no more of *)
(* it.                                                                     *)
LEMMA RemarkHistory ==
  ASSUME HInv, pc \in {"top", "llm", "salvage"}, UNCHANGED <<state, disk>>,
         pc' \in {"top", "llm", "salvage", "ending"},
         \/ msgs' = msgs
         \/ \E r : Answered(r) /\ msgs' = msgs \o r
  PROVE  HInv'
<1>1. Ready(msgs')
  BY ReadyLonger DEF HInv
<1> QED
  BY <1>1 DEF HInv

LEMMA FailsHistory == ASSUME HInv, LLMFails PROVE HInv'
<1>1. PICK r : r = IF streaming THEN <<>> ELSE <<User>>
  OBVIOUS
<1>2. /\ pc = "llm" /\ pc' \in {"top", "ending"} /\ UNCHANGED <<state, disk>>
      /\ msgs' = msgs \o r
  BY <1>1 DEF LLMFails, Add
<1>3. Answered(r)
  BY <1>1, Remarks
<1> QED
  BY <1>2, <1>3, RemarkHistory

LEMMA EmptyHistory == ASSUME HInv, Empty PROVE HInv'
<1>1. pc = "llm" /\ pc' = "top" /\ UNCHANGED <<state, disk>> /\ msgs' = msgs \o <<User>>
  BY DEF Empty, Add
<1> QED
  BY <1>1, Remarks, RemarkHistory

LEMMA ContentHistory == ASSUME HInv, Content PROVE HInv'
<1>1. /\ pc = "llm" /\ pc' \in {"top", "ending"} /\ UNCHANGED <<state, disk>>
      /\ msgs' = msgs \o <<Assistant, User>> \/ msgs' = msgs \o <<Assistant>>
  BY DEF Content, Add
<1> QED
  BY <1>1, Remarks, RemarkHistory

(* A question is saved with all other calls answered. *)
LEMMA AskHistory == ASSUME HInv, Ask PROVE HInv'
<1>1. pc = "llm" /\ pc' = "ending"
  BY DEF Ask, Pause
<1>2. PICK b \in Batches, reread \in Reminder :
        /\ \E i \in DOMAIN b : b[i] = "ask"
        /\ state' = Question(msgs \o reread \o <<Calls(b)>> \o Skipped(b), FirstAsk(b))
        /\ disk' \in {disk, state'}
  BY DEF Ask, Pause, Lands, Fails
<1>3. Ready(msgs \o reread)
  BY <1>1, Reminded, ReadyLonger DEF HInv
<1>4. /\ state'.why = "question" /\ state'.call = FirstAsk(b)
      /\ state'.msgs = ((msgs \o reread) \o <<Calls(b)>>) \o Skipped(b)
  BY <1>2 DEF Question
<1>5. Asked(state')
  BY <1>2, <1>3, <1>4 DEF Asked, HasQuestion
<1> QED
  BY <1>1, <1>2, <1>5 DEF HInv, Saved

(* A batch of tools is under way. *)
LEMMA BeginHistory == ASSUME HInv, BeginTools PROVE HInv'
<1>1. pc = "llm" /\ pc' = "tools" /\ UNCHANGED <<state, disk>>
  BY DEF BeginTools
<1>2. PICK b \in Batches, reread \in Reminder :
        /\ \A i \in DOMAIN b : b[i] # "ask"
        /\ msgs' = msgs \o (reread \o <<Calls(b)>>)
  BY DEF BeginTools, Add
<1>3. Ready(msgs \o reread)
  BY <1>1, Reminded, ReadyLonger DEF HInv
<1>4. msgs' = (msgs \o reread) \o <<Calls(b)>>
  <2>1. msgs \in Seq(Messages) /\ reread \in Seq(Messages) /\ <<Calls(b)>> \in Seq(Messages)
    BY <1>1, CallsMessage, Reminded DEF HInv, Ready, Answered
  <2> QED
    BY <1>2, <2>1
<1>5. Underway(msgs')
  BY <1>2, <1>3, <1>4 DEF Underway, HasQuestion
<1> QED
  BY <1>1, <1>5 DEF HInv

(* Its results answer it. *)
LEMMA FinishHistory == ASSUME HInv, FinishTools PROVE HInv'
<1>1. pc = "tools" /\ pc' \in {"top", "salvage"} /\ UNCHANGED <<state, disk>>
  BY DEF FinishTools
<1>2. PICK h, b : /\ Ready(h) /\ b \in Batches /\ ~HasQuestion(b)
                  /\ msgs = h \o <<Calls(b)>>
  BY <1>1 DEF HInv, Underway
<1>3. msgs[Len(msgs)].kinds = b
  <2>1. PICK c : c = Calls(b)
    OBVIOUS
  <2>2. c \in Messages /\ c.kinds = b
    BY <1>2, <2>1, LoopConstants DEF Calls, Plain, Messages
  <2>3. h \in Seq(Messages)
    BY <1>2 DEF Ready, Answered
  <2>4. msgs[Len(msgs)] = c
    BY <1>2, <2>1, <2>2, <2>3
  <2> QED
    BY <2>2, <2>4
<1>4. PICK images, w, f : /\ w \in {<<>>, <<User>>} /\ f \in {<<>>, <<User>>}
                          /\ \/ msgs' = msgs \o ((Results(Len(b), images) \o w) \o f)
                             \/ msgs' = msgs \o (Results(Len(b), images) \o w)
  <2> DEFINE n == Len(msgs[Len(msgs)].kinds)
             results(images, stuck, same) ==
               Results(n, images)
                 \o IF ~guard.warned /\ NearStall(Counted(stuck, same)) THEN <<User>> ELSE <<>>
  <2>1. PICK images, failed, stuck, same :
          /\ failed \in Reminder
          /\ \/ msgs' = msgs \o (results(images, stuck, same) \o failed)
             \/ msgs' = msgs \o (results(images, stuck, same) \o <<User>>)
             \/ msgs' = msgs \o results(images, stuck, same)
    <3>1. PICK images \in SUBSET DOMAIN msgs[Len(msgs)].kinds, failed \in Reminder,
               stuck, same, missing \in BOOLEAN :
            LET g == Counted(stuck, same)
                warn == ~guard.warned /\ NearStall(g)
                warned == [g EXCEPT !.warned = guard.warned \/ warn]
                force == missing /\ PivotsLeft
            IN  /\ same => guard.acted
                /\ images # {} => Room
                /\ (failed # <<>> /\ n = 1) => stuck
                /\ \/ /\ ~Stalled(g)
                      /\ guard' = warned
                      /\ msgs' = msgs \o (results(images, stuck, same) \o failed)
                      /\ step' = step + 1 /\ pc' = "top"
                   \/ /\ Stalled(g) /\ force
                      /\ guard' = [warned EXCEPT !.stuck = 0, !.repeats = 0, !.pivots = MaxPivots]
                      /\ msgs' = msgs \o (results(images, stuck, same) \o <<User>>)
                      /\ step' = step + 1 /\ pc' = "top"
                   \/ /\ Stalled(g) /\ ~force
                      /\ guard' = warned
                      /\ msgs' = msgs \o results(images, stuck, same)
                      /\ pc' = "salvage"
                      /\ UNCHANGED step
      BY Zenon DEF FinishTools, Add
    <3>2. \/ msgs' = msgs \o (results(images, stuck, same) \o failed)
          \/ msgs' = msgs \o (results(images, stuck, same) \o <<User>>)
          \/ msgs' = msgs \o results(images, stuck, same)
      <4> HIDE DEF results
      <4> QED
        BY <3>1, Zenon
    <3> QED
      BY <3>2
  <2>2. failed \in {<<>>, <<User>>}
    BY <2>1 DEF Reminder
  <2>3. PICK w : w = IF ~guard.warned /\ NearStall(Counted(stuck, same)) THEN <<User>> ELSE <<>>
    OBVIOUS
  <2>4. results(images, stuck, same) = Results(Len(b), images) \o w
    BY <1>3, <2>3
  <2> HIDE DEF results
  <2> QED
    BY <2>1, <2>2, <2>3, <2>4
<1>5. PICK c, r : c = <<Calls(b)>> /\ r = Results(Len(b), images)
  OBVIOUS
<1>6. AnswersTo(r, DOMAIN b, b)
  BY <1>2, <1>5, ResultsAnswer
<1>7. Answered(c \o r) /\ Answered(w) /\ Answered(f)
  BY <1>2, <1>4, <1>5, <1>6, BatchAnswered, Remarks
<1>8. /\ h \in Seq(Messages) /\ c \in Seq(Messages) /\ r \in Seq(Messages)
      /\ w \in Seq(Messages) /\ f \in Seq(Messages)
  BY <1>2, <1>5, <1>6, <1>7, CallsMessage DEF Ready, Answered, AnswersTo
<1>9. Ready(h \o (c \o r))
  BY <1>2, <1>7, ReadyLonger
<1>10. Ready((h \o (c \o r)) \o w)
  BY <1>7, <1>9, ReadyLonger
<1>11. Ready(((h \o (c \o r)) \o w) \o f)
  BY <1>7, <1>10, ReadyLonger
<1>12. (h \o c) \o ((r \o w) \o f) = ((h \o (c \o r)) \o w) \o f
  <2>1. Join(Join(h, c), Join(Join(r, w), f)) = Join(Join(Join(h, Join(c, r)), w), f)
    BY <1>8, RegroupFive
  <2> QED
    BY <2>1 DEF Join
<1>13. (h \o c) \o (r \o w) = (h \o (c \o r)) \o w
  <2>1. Join(Join(h, c), Join(r, w)) = Join(Join(h, Join(c, r)), w)
    BY <1>8, Regroup
  <2> QED
    BY <2>1 DEF Join
<1>14. Ready(msgs')
  BY <1>2, <1>4, <1>5, <1>10, <1>11, <1>12, <1>13
<1> QED
  BY <1>1, <1>14 DEF HInv

LEMMA SalvageHistory == ASSUME HInv, Salvage PROVE HInv'
<1>1. /\ pc = "salvage" /\ pc' = "ending" /\ UNCHANGED <<state, disk>>
      /\ msgs' = msgs \/ msgs' = msgs \o <<Assistant>>
  BY DEF Salvage, Add
<1> QED
  BY <1>1, Remarks, RemarkHistory

(* The end of a run, or its death, leaves on disk what was saved, or       *)
(* removes the markers.                                                    *)
LEMMA EndHistory == ASSUME HInv, Complete \/ Dies PROVE HInv'
<1>1. pc' = "idle" /\ disk' \in {disk, state} /\ state' = NotPaused
  BY DEF Complete, Dies, Lands, Fails
<1> QED
  BY <1>1 DEF HInv, Saved

LEMMA NextHistory == HInv /\ [Next]_vars => HInv'
<1> SUFFICES ASSUME HInv, [Next]_vars PROVE HInv'
  OBVIOUS
<1>1. CASE Next
  <2>1. CASE LLMRejects
    BY <2>1, RemarkHistory DEF LLMRejects
  <2>2. CASE LimitReached
    BY <2>2, RemarkHistory DEF LimitReached
  <2> QED
    BY <1>1, <2>1, <2>2, StartHistory, InterruptedHistory, CallLLMHistory, FailsHistory,
       EmptyHistory, ContentHistory, AskHistory, BeginHistory, FinishHistory,
       SalvageHistory, EndHistory DEF Next, RunStep
<1>2. CASE UNCHANGED vars
  BY <1>2 DEF vars, HInv
<1> QED
  BY <1>1, <1>2

-----------------------------------------------------------------------------
(* The list is what HInv says in every reachable state. *)
THEOREM HistoryInvariance == Spec => []HInv
  BY InitHistory, NextHistory, PTL DEF Spec

(* In every list that is sent to the LLM, each call is answered exactly    *)
(* once before the next batch, and nothing else is answered, whatever was  *)
(* compressed, trimmed, asked, interrupted, resumed or lost.               *)
THEOREM CallsAreAnswered == Spec => []EveryCallAnswered
<1>1. HInv => EveryCallAnswered
  BY AnsweredPaired DEF HInv, Ready, EveryCallAnswered, Sent
<1> QED
  BY <1>1, HistoryInvariance, PTL

(* The user answers the first question of a batch, and nobody else does;   *)
(* the other calls of that batch are skipped, those of other batches have  *)
(* results.                                                                *)
THEOREM UserAnswersQuestions == Spec => []QuestionsAnsweredByUser
<1>1. ASSUME HInv, Sent, NEW i \in DOMAIN msgs, NEW j \in Replies(msgs, i), msgs[i].role = "calls"
      PROVE  msgs[j].val = Owed(msgs[i].kinds, msgs[j].id)
  BY <1>1, AnsweredByUser DEF HInv, Ready, Sent
<1>2. HInv => QuestionsAnsweredByUser
  BY <1>1 DEF QuestionsAnsweredByUser, Owed
<1> QED
  BY <1>2, HistoryInvariance, PTL

(* Whenever the process dies, a paused session becomes a valid list by the *)
(* answer it waits for, and a question by nothing less.                    *)
THEOREM SavedIsResumable == Spec => []Resumable
<1>1. ASSUME HInv, disk # NotPaused PROVE Paired(Resumed(disk, <<>>))
  BY <1>1, ResumedReady, AnsweredPaired DEF HInv, Ready
<1>2. ASSUME HInv, disk # NotPaused, disk.why = "question" PROVE ~Paired(disk.msgs)
  <2>1. Asked(disk)
    BY <1>2 DEF HInv, Saved
  <2>2. PICK h, b : /\ Ready(h) /\ b \in Batches /\ HasQuestion(b)
                    /\ disk.msgs = (h \o <<Calls(b)>>) \o Skipped(b)
    BY <2>1 DEF Asked
  <2> QED
    BY <2>2, WaitingUnpaired DEF Ready
<1>3. HInv => Resumable
  BY <1>1, <1>2 DEF Resumable
<1> QED
  BY <1>3, HistoryInvariance, PTL
-----------------------------------------------------------------------------
(* What the type invariant says beyond IInv and HInv: the counters stop at *)
(* their limits, because a run leaves the loop when one is reached.        *)
Counters ==
  [stuck : 0..StuckLimit, repeats : 0..RepeatLimit, acted : BOOLEAN,
   warned : BOOLEAN, nudges : 0..MaxNudges, pivots : 0..MaxPivots]

Limits ==
  /\ step <= MaxSteps
  /\ errors \in 0..MaxErrors /\ (pc # "ending" => errors < MaxErrors)
  /\ guard \in Counters
  /\ pc \in {"top", "llm", "tools"} => guard.stuck < StuckLimit /\ guard.repeats < RepeatLimit
  /\ streaming \in BOOLEAN /\ ended \in BOOLEAN /\ unsaved \in BOOLEAN
  /\ runs \in 0..MaxRuns
  /\ disk.call \in 0..MaxBatch /\ state.call \in 0..MaxBatch
  /\ msgs \in Seq(Messages)

LEMMA LoopLimits ==
  /\ MaxErrors \in Nat \ {0} /\ StuckLimit \in Nat \ {0} /\ RepeatLimit \in Nat \ {0}
  /\ MaxNudges \in Nat \ {0} /\ MaxBatch \in Nat \ {0}
  /\ MaxSteps \in Nat /\ MaxPivots \in Nat /\ MaxRuns \in Nat
  BY LoopConstants

LEMMA FreshCounters ==
  Fresh \in Counters /\ Fresh.stuck < StuckLimit /\ Fresh.repeats < RepeatLimit
<1>1. 0 \in 0..StuckLimit /\ 0 \in 0..RepeatLimit /\ 0 \in 0..MaxNudges /\ 0 \in 0..MaxPivots
  BY LoopLimits
<1> QED
  BY <1>1, LoopLimits DEF Fresh, Counters

LEMMA InitLimits == Init => Limits
<1> SUFFICES ASSUME Init PROVE Limits
  OBVIOUS
<1>1. step <= MaxSteps /\ errors \in 0..MaxErrors /\ errors < MaxErrors /\ runs \in 0..MaxRuns
  BY LoopLimits DEF Init
<1>2. disk.call \in 0..MaxBatch /\ state.call \in 0..MaxBatch
  BY LoopLimits DEF Init, NotPaused
<1>3. msgs \in Seq(Messages)
  BY DEF Init
<1>4. /\ guard \in Counters /\ guard.stuck < StuckLimit /\ guard.repeats < RepeatLimit
      /\ streaming \in BOOLEAN /\ ended \in BOOLEAN /\ unsaved \in BOOLEAN
  BY FreshCounters DEF Init
<1> QED
  BY <1>1, <1>2, <1>3, <1>4 DEF Limits

(* The list stays one, also where nothing else is said of it. *)
LEMMA ListKept ==
  ASSUME HInv, HInv', Limits, [Next]_vars
  PROVE  msgs' \in Seq(Messages)
<1>1. CASE pc' \in {"top", "llm", "salvage"}
  BY <1>1 DEF HInv, Ready, Answered
<1>2. CASE pc' = "tools"
  <2>1. PICK h, b : Ready(h) /\ b \in Batches /\ msgs' = h \o <<Calls(b)>>
    BY <1>2 DEF HInv, Underway
  <2>2. h \in Seq(Messages) /\ <<Calls(b)>> \in Seq(Messages)
    BY <2>1, CallsMessage DEF Ready, Answered
  <2> QED
    BY <2>1, <2>2
<1>3. CASE msgs' = msgs
  BY <1>3 DEF Limits
<1>4. ASSUME NEW r, Answered(r), msgs' = msgs \o r PROVE msgs' \in Seq(Messages)
  BY <1>4 DEF Limits, Answered
<1>5. Answered(<<>>) /\ Answered(<<User>>) /\ Answered(<<Assistant>>) /\ Answered(<<Assistant, User>>)
  BY Remarks
<1>6. CASE LLMFails
  <2>1. PICK r \in {<<>>, <<User>>} : msgs' = msgs \o r
    BY <1>6 DEF LLMFails, Add
  <2> QED
    BY <1>4, <1>5, <2>1
<1>7. CASE Content
  <2>1. PICK r \in {<<Assistant>>, <<Assistant, User>>} : msgs' = msgs \o r
    BY <1>7 DEF Content, Add
  <2> QED
    BY <1>4, <1>5, <2>1
<1>8. CASE Salvage
  <2>1. msgs' = msgs \/ msgs' = msgs \o <<Assistant>>
    BY <1>8 DEF Salvage, Add
  <2> QED
    BY <1>3, <1>4, <1>5, <2>1
<1>9. CASE Ask
  <2>1. PICK b \in Batches, reread \in Reminder :
          /\ \E i \in DOMAIN b : b[i] = "ask"
          /\ msgs' = msgs \o reread \o <<Calls(b)>> \o Skipped(b)
    BY <1>9 DEF Ask
  <2>2. /\ msgs \in Seq(Messages) /\ reread \in Seq(Messages)
        /\ <<Calls(b)>> \in Seq(Messages) /\ Skipped(b) \in Seq(Messages)
    <3>1. reread \in Seq(Messages)
      BY Reminded DEF Answered
    <3>2. Skipped(b) \in Seq(Messages)
      BY <2>1, SkippedAnswers DEF AnswersTo, HasQuestion
    <3> QED
      BY <3>1, <3>2, CallsMessage DEF Limits
  <2>3. msgs \o reread \in Seq(Messages)
    BY <2>2
  <2>4. (msgs \o reread) \o <<Calls(b)>> \in Seq(Messages)
    BY <2>2, <2>3
  <2> QED
    BY <2>1, <2>2, <2>4
<1>10. CASE Complete \/ Dies
  <2>1. msgs' = <<>>
    BY <1>10 DEF Complete, Dies, Forget
  <2> QED
    BY <2>1
<1>11. CASE Start \/ CallLLM \/ Empty \/ FinishTools \/ LimitReached
  <2>1. pc' \in {"top", "llm", "salvage"}
    <3>1. Start => pc' = "top"
      BY DEF Start
    <3>2. CallLLM => pc' = "llm"
      BY DEF CallLLM
    <3>3. Empty => pc' = "top"
      BY DEF Empty
    <3>4. FinishTools => pc' \in {"top", "salvage"}
      BY DEF FinishTools
    <3>5. LimitReached => pc' = "salvage"
      BY DEF LimitReached
    <3> QED
      BY <1>11, <3>1, <3>2, <3>3, <3>4, <3>5
  <2> QED
    BY <1>1, <2>1
<1>12. CASE BeginTools
  BY <1>2, <1>12 DEF BeginTools
<1>13. CASE Interrupted \/ LLMRejects \/ UNCHANGED vars
  BY <1>3, <1>13 DEF Interrupted, LLMRejects, vars
<1> QED
  BY <1>6, <1>7, <1>8, <1>9, <1>10, <1>11, <1>12, <1>13 DEF Next, RunStep

(* A reminder of a missing deliverable is counted while there are some. *)
LEMMA CallCounted ==
  ASSUME Limits, CallLLM
  PROVE  guard' \in Counters /\ guard'.stuck = guard.stuck /\ guard'.repeats = guard.repeats
<1>1. PICK pivot \in {"none", "nudge", "off"} :
        /\ pivot # "none" => guard.pivots < MaxPivots
        /\ guard' = [guard EXCEPT !.pivots =
                       CASE pivot = "none"  -> guard.pivots
                         [] pivot = "nudge" -> guard.pivots + 1
                         [] pivot = "off"   -> MaxPivots]
  BY DEF CallLLM, PivotsLeft
<1>2. PICK p : p = CASE pivot = "none"  -> guard.pivots
                     [] pivot = "nudge" -> guard.pivots + 1
                     [] pivot = "off"   -> MaxPivots
  OBVIOUS
<1>3. guard \in Counters /\ guard.pivots \in 0..MaxPivots
  BY DEF Limits, Counters
<1>4. p \in 0..MaxPivots
  BY <1>1, <1>2, <1>3, LoopLimits
<1>5. guard' = [guard EXCEPT !.pivots = p]
  BY <1>1, <1>2
<1> QED
  BY <1>3, <1>4, <1>5 DEF Counters

(* The counters of the stall checks, which end the loop at their limits. *)
LEMMA BatchCounted ==
  ASSUME Limits, FinishTools
  PROVE  /\ guard' \in Counters
         /\ pc' = "top" => guard'.stuck < StuckLimit /\ guard'.repeats < RepeatLimit
<1>1. /\ pc = "tools" /\ guard \in Counters
      /\ guard.stuck < StuckLimit /\ guard.repeats < RepeatLimit
  BY DEF FinishTools, Limits
<1>2. ASSUME NEW stuck \in BOOLEAN, NEW same \in BOOLEAN
      PROVE  /\ Counted(stuck, same) \in Counters
             /\ Counted(stuck, same).stuck <= StuckLimit
             /\ Counted(stuck, same).repeats <= RepeatLimit
  <2>1. /\ guard.stuck \in Nat /\ guard.repeats \in Nat
        /\ (IF stuck THEN guard.stuck + 1 ELSE 0) \in 0..StuckLimit
        /\ (IF same THEN guard.repeats + 1 ELSE 0) \in 0..RepeatLimit
    BY <1>1, LoopLimits DEF Counters
  <2>2. PICK x \in 0..StuckLimit, y \in 0..RepeatLimit :
          Counted(stuck, same) = [guard EXCEPT !.stuck = x, !.repeats = y, !.acted = TRUE]
    BY <2>1 DEF Counted
  <2>3. PICK a : a = [guard EXCEPT !.stuck = x]
    OBVIOUS
  <2>4. a \in Counters /\ a.stuck = x
    BY <1>1, <2>3 DEF Counters
  <2>5. PICK b : b = [a EXCEPT !.repeats = y]
    OBVIOUS
  <2>6. b \in Counters /\ b.stuck = x /\ b.repeats = y
    BY <2>4, <2>5 DEF Counters
  <2>7. PICK d : d = [b EXCEPT !.acted = TRUE]
    OBVIOUS
  <2>8. d \in Counters /\ d.stuck = x /\ d.repeats = y
    BY <2>6, <2>7 DEF Counters
  <2>9. Counted(stuck, same) = d
    BY <2>2, <2>3, <2>5, <2>7
  <2> QED
    BY <2>8, <2>9, LoopLimits
<1>3. PICK stuck \in BOOLEAN, same \in BOOLEAN, w \in BOOLEAN :
        \/ /\ ~Stalled(Counted(stuck, same))
           /\ guard' = [Counted(stuck, same) EXCEPT !.warned = w]
        \/ /\ guard' = [[Counted(stuck, same) EXCEPT !.warned = w]
                          EXCEPT !.stuck = 0, !.repeats = 0, !.pivots = MaxPivots]
        \/ /\ guard' = [Counted(stuck, same) EXCEPT !.warned = w]
           /\ pc' = "salvage"
  <2> DEFINE W(g) == guard.warned \/ (~guard.warned /\ NearStall(g))
             Ended(g) ==
               \/ ~Stalled(g) /\ guard' = [g EXCEPT !.warned = W(g)]
               \/ guard' = [[g EXCEPT !.warned = W(g)]
                              EXCEPT !.stuck = 0, !.repeats = 0, !.pivots = MaxPivots]
               \/ guard' = [g EXCEPT !.warned = W(g)] /\ pc' = "salvage"
  <2>1. PICK images \in SUBSET DOMAIN msgs[Len(msgs)].kinds, failed \in Reminder,
             stuck, same, missing \in BOOLEAN :
          LET n == Len(msgs[Len(msgs)].kinds)
              g == Counted(stuck, same)
              warn == ~guard.warned /\ NearStall(g)
              results == Results(n, images) \o IF warn THEN <<User>> ELSE <<>>
              warned == [g EXCEPT !.warned = guard.warned \/ warn]
              force == missing /\ PivotsLeft
          IN  /\ same => guard.acted
              /\ images # {} => Room
              /\ (failed # <<>> /\ n = 1) => stuck
              /\ \/ /\ ~Stalled(g)
                    /\ guard' = warned
                    /\ Add(results \o failed)
                    /\ step' = step + 1 /\ pc' = "top"
                 \/ /\ Stalled(g) /\ force
                    /\ guard' = [warned EXCEPT !.stuck = 0, !.repeats = 0, !.pivots = MaxPivots]
                    /\ Add(results \o <<User>>)
                    /\ step' = step + 1 /\ pc' = "top"
                 \/ /\ Stalled(g) /\ ~force
                    /\ guard' = warned
                    /\ Add(results)
                    /\ pc' = "salvage"
                    /\ UNCHANGED step
    BY Zenon DEF FinishTools
  <2>3. Ended(Counted(stuck, same))
    BY <2>1, Zenon
  <2>2. PICK w \in BOOLEAN : w = W(Counted(stuck, same))
    OBVIOUS
  <2> HIDE DEF W
  <2> QED
    BY <2>3, <2>2
<1>4. PICK c \in Counters : c = Counted(stuck, same) /\ c.stuck <= StuckLimit /\ c.repeats <= RepeatLimit
  BY <1>2
<1>5. CASE ~Stalled(c) /\ guard' = [c EXCEPT !.warned = w]
  <2>1. c.stuck < StuckLimit /\ c.repeats < RepeatLimit
    BY <1>4, <1>5, LoopLimits DEF Stalled, Counters
  <2> QED
    BY <1>5, <2>1 DEF Counters
<1>6. CASE guard' = [[c EXCEPT !.warned = w] EXCEPT !.stuck = 0, !.repeats = 0, !.pivots = MaxPivots]
  <2>1. PICK d \in Counters : d = [c EXCEPT !.warned = w]
    BY DEF Counters
  <2>2. MaxPivots \in 0..MaxPivots /\ 0 \in 0..StuckLimit /\ 0 \in 0..RepeatLimit
    BY LoopLimits
  <2>3. PICK e \in Counters : e = [d EXCEPT !.stuck = 0] /\ e.stuck = 0
    <3>1. PICK e : e = [d EXCEPT !.stuck = 0]
      OBVIOUS
    <3>2. e \in Counters /\ e.stuck = 0
      BY <2>1, <2>2, <3>1 DEF Counters
    <3> QED
      BY <3>1, <3>2
  <2>4. PICK f \in Counters : f = [e EXCEPT !.repeats = 0] /\ f.stuck = 0 /\ f.repeats = 0
    <3>1. PICK f : f = [e EXCEPT !.repeats = 0]
      OBVIOUS
    <3>2. f \in Counters /\ f.stuck = 0 /\ f.repeats = 0
      BY <2>2, <2>3, <3>1 DEF Counters
    <3> QED
      BY <3>1, <3>2
  <2>5. PICK h \in Counters : h = [f EXCEPT !.pivots = MaxPivots] /\ h.stuck = 0 /\ h.repeats = 0
    BY <2>2, <2>4 DEF Counters
  <2>6. guard' = h
    BY <1>6, <2>1, <2>3, <2>4, <2>5
  <2> QED
    BY <2>5, <2>6, LoopLimits
<1>7. CASE guard' = [c EXCEPT !.warned = w] /\ pc' = "salvage"
  BY <1>7 DEF Counters
<1> QED
  BY <1>3, <1>4, <1>5, <1>6, <1>7

(* What a run is told it may do once more. *)
LEMMA ContentCounted ==
  ASSUME Limits, Content
  PROVE  guard' \in Counters /\ guard'.stuck = guard.stuck /\ guard'.repeats = guard.repeats
<1>1. guard' = guard \/ (guard.nudges < MaxNudges /\ guard' = [guard EXCEPT !.nudges = guard.nudges + 1])
  BY DEF Content, NudgesLeft
<1>2. guard \in Counters /\ guard.nudges \in 0..MaxNudges
  BY DEF Limits, Counters
<1>3. guard.nudges < MaxNudges => guard.nudges + 1 \in 0..MaxNudges
  BY <1>2, LoopLimits
<1> QED
  BY <1>1, <1>2, <1>3 DEF Counters

LEMMA LimitsStep ==
  ASSUME IInv, HInv, HInv', Limits, [Next]_vars
  PROVE  Limits'
<1>1. msgs' \in Seq(Messages)
  BY ListKept
<1>2. pc \in {"llm", "tools"} => step + 1 <= MaxSteps
  BY LoopLimits DEF IInv, Types, Paid
<1>3. step \in Nat /\ errors \in Nat
  BY DEF IInv, Types, Limits
<1> USE LoopLimits
<1>4. CASE Start
  <2>1. step' <= MaxSteps
    BY <1>4 DEF Start, IInv, Paid
  <2>2. errors' \in 0..MaxErrors /\ errors' < MaxErrors
    BY <1>4 DEF Start
  <2>3. /\ guard' \in Counters /\ guard'.stuck < StuckLimit /\ guard'.repeats < RepeatLimit
        /\ UNCHANGED <<streaming, disk>>
    BY <1>4, FreshCounters DEF Start
  <2>5. ended' \in BOOLEAN /\ unsaved' \in BOOLEAN
    BY <1>4, Zenon DEF Start
  <2>6. state'.call \in 0..MaxBatch
    BY <1>4 DEF Start, NotPaused
  <2>7. pc' = "top"
    BY <1>4 DEF Start
  <2>4. runs' \in 0..MaxRuns
    <3>1. runs < MaxRuns /\ runs' = runs + 1
      BY <1>4 DEF Start
    <3>2. runs \in Nat
      BY DEF Limits
    <3> QED
      BY <3>1, <3>2
  <2> QED
    BY <1>1, <2>1, <2>2, <2>3, <2>4, <2>5, <2>6, <2>7 DEF Limits
<1>5. CASE Interrupted
  <2>1. state'.call = 0 /\ disk' \in {disk, state'}
    BY <1>5 DEF Interrupted, Pause, Lands, Fails
  <2>4. unsaved' \in BOOLEAN
    BY <1>5, Zenon DEF Interrupted, Pause
  <2>2. disk'.call \in 0..MaxBatch
    BY <2>1 DEF Limits
  <2>3. /\ pc' = "ending"
        /\ UNCHANGED <<streaming, msgs, step, errors, guard, ended, runs>>
    BY <1>5 DEF Interrupted, Pause
  <2> QED
    BY <1>1, <2>1, <2>2, <2>3, <2>4 DEF Limits
<1>6. CASE CallLLM
  BY <1>1, <1>6, CallCounted DEF CallLLM, Limits
<1>7. CASE LLMFails
  BY <1>1, <1>2, <1>3, <1>7 DEF LLMFails, Limits
<1>8. CASE LLMRejects
  BY <1>1, <1>8 DEF LLMRejects, Limits
<1>9. CASE Empty
  BY <1>1, <1>2, <1>9 DEF Empty, Limits
<1>10. CASE Content
  <2>1. /\ pc = "llm" /\ pc' \in {"top", "ending"} /\ step' = step + 1 /\ errors' = 0
        /\ UNCHANGED <<streaming, state, disk, ended, unsaved, runs>>
    BY <1>10 DEF Content
  <2> QED
    BY <1>1, <1>2, <1>10, <2>1, ContentCounted DEF Limits
<1>11. CASE Ask
  <2>1. PICK b \in Batches : HasQuestion(b) /\ \E h : Pause(Question(h, FirstAsk(b)))
    BY <1>11 DEF Ask, HasQuestion
  <2>2. FirstAsk(b) \in 0..MaxBatch
    BY <2>1, FirstAskIs, BatchIs
  <2>3. /\ state'.call = FirstAsk(b) /\ disk' \in {disk, state'}
        /\ pc' = "ending"
    <3>1. PICK h : Pause(Question(h, FirstAsk(b)))
      BY <2>1
    <3> QED
      BY <3>1 DEF Pause, Lands, Fails, Question
  <2>6. unsaved' \in BOOLEAN
    BY <2>1, Zenon DEF Pause
  <2>4. disk'.call \in 0..MaxBatch /\ state'.call \in 0..MaxBatch
    BY <2>2, <2>3 DEF Limits
  <2>5. errors' = 0 /\ UNCHANGED <<streaming, step, guard, ended, runs>>
    BY <1>11 DEF Ask
  <2> QED
    BY <1>1, <2>3, <2>4, <2>5, <2>6 DEF Limits
<1>12. CASE BeginTools
  BY <1>1, <1>12 DEF BeginTools, Limits
<1>13. CASE FinishTools
  <2>1. /\ pc = "tools" /\ pc' \in {"top", "salvage"} /\ step' \in {step, step + 1}
        /\ UNCHANGED <<streaming, errors, state, disk, ended, unsaved, runs>>
    BY <1>13 DEF FinishTools
  <2> QED
    BY <1>1, <1>2, <1>3, <1>13, <2>1, BatchCounted DEF Limits
<1>14. CASE LimitReached
  BY <1>1, <1>14 DEF LimitReached, Limits
<1>15. CASE Salvage
  BY <1>1, <1>15 DEF Salvage, Limits
<1>16. CASE Complete \/ Dies
  <2>1. disk' \in {disk, state} /\ state' = NotPaused /\ unsaved' \in BOOLEAN
    <3>1. disk' \in {disk, state} /\ state' = NotPaused
      BY <1>16 DEF Complete, Dies, Lands, Fails
    <3>2. unsaved' \in BOOLEAN
      BY <1>16, Zenon DEF Complete, Dies
    <3> QED
      BY <3>1, <3>2
  <2>2. disk'.call \in 0..MaxBatch /\ state'.call \in 0..MaxBatch
    BY <2>1 DEF Limits, NotPaused
  <2>3. /\ pc' = "idle" /\ step' = 0 /\ errors' = 0 /\ guard' = Fresh /\ ended' \in BOOLEAN
        /\ UNCHANGED <<streaming, runs>>
    BY <1>16 DEF Complete, Dies, Forget
  <2>4. guard' \in Counters /\ guard'.stuck < StuckLimit /\ guard'.repeats < RepeatLimit
    BY <2>3, FreshCounters
  <2> QED
    BY <1>1, <2>1, <2>2, <2>3, <2>4 DEF Limits
<1>17. CASE UNCHANGED vars
  BY <1>17 DEF vars, Limits
<1> QED
  BY <1>4, <1>5, <1>6, <1>7, <1>8, <1>9, <1>10, <1>11, <1>12, <1>13, <1>14, <1>15,
     <1>16, <1>17 DEF Next, RunStep

(* A saved pause is a pause record with a list of messages. *)
LEMMA SavedIsPause ==
  ASSUME IInv, HInv, Limits
  PROVE  IsPause(disk) /\ IsPause(state)
<1> USE LoopLimits
<1>1. IsPause(NotPaused)
  <2>1. NotPaused.msgs = <<>> /\ DOMAIN NotPaused.msgs = {}
    BY DEF NotPaused
  <2>2. IsHistory(NotPaused.msgs)
    BY <2>1 DEF IsHistory
  <2> QED
    BY <2>2 DEF NotPaused, IsPause
<1>2. ASSUME NEW m \in Seq(Messages) PROVE IsHistory(m)
  BY DEF IsHistory
<1>3. ASSUME NEW p, Saved(p), p # NotPaused, p.call \in 0..MaxBatch, p.step \in 0..MaxSteps
      PROVE  IsPause(p)
  <2>1. p.why \in {"question", "interrupt"}
    BY <1>3 DEF Saved, Asked
  <2>2. p.msgs \in Seq(Messages)
    <3>1. CASE Ready(p.msgs)
      BY <3>1 DEF Ready, Answered
    <3>2. CASE Asked(p)
      <4>1. PICK h, b : /\ Ready(h) /\ b \in Batches /\ HasQuestion(b)
                        /\ p.msgs = (h \o <<Calls(b)>>) \o Skipped(b)
        BY <3>2 DEF Asked
      <4>2. /\ h \in Seq(Messages) /\ <<Calls(b)>> \in Seq(Messages)
            /\ Skipped(b) \in Seq(Messages)
        BY <4>1, CallsMessage, SkippedAnswers DEF Ready, Answered, AnswersTo
      <4>3. h \o <<Calls(b)>> \in Seq(Messages)
        BY <4>2
      <4> QED
        BY <4>1, <4>2, <4>3
    <3> QED
      BY <1>3, <3>1, <3>2 DEF Saved
  <2> QED
    BY <1>2, <1>3, <2>1, <2>2 DEF IsPause
<1>4. IsPause(disk)
  <2>1. disk # NotPaused => disk.step \in 0..MaxSteps
    BY DEF IInv, Types, Paid
  <2> QED
    BY <1>1, <1>3, <2>1 DEF HInv, Limits
<1>5. IsPause(state)
  <2>1. state # NotPaused => state.step \in 0..MaxSteps
    BY DEF IInv, Types, Paid
  <2> QED
    BY <1>1, <1>3, <2>1 DEF HInv, Limits
<1> QED
  BY <1>4, <1>5

(* Every variable keeps its type: the counters stay within their limits,   *)
(* a resumed run's steps included, and a pause record is complete.         *)
THEOREM TypeCorrect == Spec => []TypeOK
<1>1. IInv /\ HInv /\ Limits => TypeOK
  <2> SUFFICES ASSUME IInv, HInv, Limits PROVE TypeOK
    OBVIOUS
  <2>1. IsHistory(msgs)
    BY DEF Limits, IsHistory
  <2>2. step \in 0..MaxSteps
    BY LoopLimits DEF IInv, Types, Limits
  <2> QED
    BY <2>1, <2>2, SavedIsPause DEF TypeOK, IInv, Types, Limits, Counters
<1>2. IInv /\ HInv /\ HInv' /\ Limits /\ [Next]_vars => Limits'
  BY LimitsStep
<1> QED
  BY <1>1, <1>2, InitLimits, Invariance, HistoryInvariance, PTL DEF Spec
=============================================================================
