------------------------------ MODULE ChannelAsk ------------------------------
(***************************************************************************)
(* Questions that a running agent asks a person on a channel:              *)
(* ChannelAskRouter (application/channel_ask_router.py), the gateway's     *)
(* part of it (application/gateway.py) and the store of open questions     *)
(* (infrastructure/persistence/pending_channel_store.py), whose methods    *)
(* never suspend and hence are atomic.  Any read or write of a file may    *)
(* fail; a write that fails half-way leaves a file nobody can read.        *)
(*                                                                         *)
(* Sessions run concurrently and may ask the same person; a person may     *)
(* write at any time, to answer or not.                                    *)
(***************************************************************************)
EXTENDS Integers, FiniteSets

CONSTANTS
  Sessions,    \* agent sessions
  People,      \* (channel, recipient) pairs
  Answers,     \* texts a person may write
  MaxPolls,    \* max_wait / poll_interval
  MaxAsks,     \* questions per session (bound)
  None,
  Torn         \* the content of a file whose writing failed half-way

Entries == [to : People, from : People \union {None}, answer : Answers \union {None}]

ASSUME AskConstants ==
  /\ MaxPolls \in Nat \ {0} /\ MaxAsks \in Nat
  /\ None \notin Sessions \union People \union Answers \union Entries \union {Torn}
  /\ Torn \notin Entries

VARIABLES
  asker,   \* asker[s]: where route_channel_question of s stands
  entry,   \* entry[s]: the content of <session_id>.json
  index,   \* index[p]: the session _index.json names for p
  polls,   \* polls[s]: elapsed / poll_interval
  asks,    \* asks[s]: questions s asked so far
  got,     \* got[s]: the last question of s that was answered, with the answer
  spoilt   \* history: sessions whose execution once died, or of which an
           \* operation on the files once failed

askVars == <<asker, entry, index, polls, asks, got, spoilt>>

(* sending: in send_notification; polling: in the sleep of the loop *)
AskerStates == {"idle", "sending", "polling"}

AskInit ==
  /\ asker = [s \in Sessions |-> "idle"]
  /\ entry = [s \in Sessions |-> None]
  /\ index = [p \in People |-> None]
  /\ polls = [s \in Sessions |-> 0]
  /\ asks = [s \in Sessions |-> 0]
  /\ got = [s \in Sessions |-> None]
  /\ spoilt = {}

Readable(s) == entry[s] \notin {None, Torn}
Unanswered(s) == Readable(s) /\ entry[s].answer = None
Answered(s) == Readable(s) /\ entry[s].answer # None

(* What _load_index returns, and what a failing _save_index leaves: an      *)
(* unreadable index counts as an empty one.                                *)
Loads == {index, [p \in People |-> None]}

-----------------------------------------------------------------------------
Ask(s) ==
  /\ asker[s] = "idle" /\ asks[s] < MaxAsks
  /\ asker' = [asker EXCEPT ![s] = "sending"]
  /\ asks' = [asks EXCEPT ![s] = @ + 1]
  /\ UNCHANGED <<entry, index, polls, got, spoilt>>

(* send_channel_question fails: the router returns None. *)
SendFails(s) ==
  /\ asker[s] = "sending"
  /\ asker' = [asker EXCEPT ![s] = "idle"]
  /\ UNCHANGED <<entry, index, polls, asks, got, spoilt>>

Fresh(p) == [to |-> p, from |-> None, answer |-> None]

(* It succeeds for p: the question is registered.  Who was in an index that *)
(* cannot be read is in it no more.                                        *)
Register(s, p) ==
  /\ asker[s] = "sending"
  /\ entry' = [entry EXCEPT ![s] = Fresh(p)]
  /\ \E i \in Loads : index' = [i EXCEPT ![p] = s]
  /\ asker' = [asker EXCEPT ![s] = "polling"]
  /\ polls' = [polls EXCEPT ![s] = 0]
  /\ UNCHANGED <<asks, got, spoilt>>

(* The file or then the index cannot be written: the exception ends the     *)
(* execution, with the question sent.                                      *)
RegisterRaises(s, p) ==
  /\ asker[s] = "sending"
  /\ \/ entry' \in {entry, [entry EXCEPT ![s] = Torn]} /\ UNCHANGED index
     \/ entry' = [entry EXCEPT ![s] = Fresh(p)] /\ index' \in Loads
  /\ asker' = [asker EXCEPT ![s] = "idle"]
  /\ spoilt' = spoilt \union {s}
  /\ UNCHANGED <<polls, asks, got>>

(* p writes a: handle_message offers it to resolve first.  What resolve    *)
(* does not take goes the normal inbound way.  An index entry without a    *)
(* file goes.                                                              *)
Forget(p) ==
  /\ index[p] # None /\ entry[index[p]] = None
  /\ index' \in {[index EXCEPT ![p] = None]} \union Loads
  /\ UNCHANGED <<asker, entry, polls, asks, got, spoilt>>

(* resolve, on an open question: the answer is stored, be the index saved   *)
(* then or not.                                                            *)
Capture(p, a) ==
  /\ index[p] # None /\ Unanswered(index[p])
  /\ entry' = [entry EXCEPT ![index[p]].from = p, ![index[p]].answer = a]
  /\ index' \in {[index EXCEPT ![p] = None]} \union Loads
  /\ UNCHANGED <<asker, polls, asks, got, spoilt>>

CaptureRaises(p) ==
  /\ index[p] # None /\ Unanswered(index[p])
  /\ entry' = [entry EXCEPT ![index[p]] = Torn]
  /\ spoilt' = spoilt \union {index[p]}
  /\ UNCHANGED <<asker, index, polls, asks, got>>

(* Mutant of Remove: the entry's file goes, its index entry stays. *)
RemoveFileOnly(s) ==
  /\ entry' = [entry EXCEPT ![s] = None]
  /\ UNCHANGED <<index, spoilt>>

(* The index entry of the recipient goes, whoever it names. *)
Unindexed(s) ==
  IF Readable(s) THEN {[i EXCEPT ![entry[s].to] = None] : i \in Loads} ELSE {}

(* remove: index and file.  When the file cannot be read or the index not   *)
(* be saved, the exception is swallowed and the file goes all the same.    *)
Remove(s) ==
  /\ entry' = [entry EXCEPT ![s] = None]
  /\ \/ entry[s] = None /\ UNCHANGED <<index, spoilt>>
     \/ index' \in Unindexed(s) /\ UNCHANGED spoilt
     \/ entry[s] # None /\ index' \in Loads /\ spoilt' = spoilt \union {s}

(* The file cannot be unlinked. *)
RemoveRaises(s) ==
  /\ entry[s] # None
  /\ index' \in Loads \union Unindexed(s)
  /\ spoilt' = spoilt \union {s}
  /\ UNCHANGED entry

(* The router is through with the question. *)
Ends(s) ==
  /\ asker[s] = "polling"
  /\ asker' = [asker EXCEPT ![s] = "idle"]
  /\ polls' = [polls EXCEPT ![s] = 0]
  /\ UNCHANGED asks

LastPoll(s) == polls[s] + 1 = MaxPolls

(* Mutant of PollTimesOut: the budget is tested before the response. *)
PollTimesOutFirst(s) ==
  /\ Ends(s) /\ LastPoll(s)
  /\ Remove(s) \/ RemoveRaises(s)
  /\ UNCHANGED got

PollAnswered(s) ==
  /\ Ends(s) /\ Answered(s)
  /\ got' = [got EXCEPT ![s] = entry[s]]
  /\ Remove(s)

(* The exception takes the answer with it. *)
ClearRaises(s) ==
  /\ Ends(s) /\ Answered(s)
  /\ RemoveRaises(s)
  /\ UNCHANGED got

(* Mutant of PollAgain: elapsed never counted. *)
PollAgainUncounted(s) ==
  /\ asker[s] = "polling" /\ ~LastPoll(s)
  /\ UNCHANGED askVars

(* No response, or the file cannot be read this time. *)
PollAgain(s) ==
  /\ asker[s] = "polling" /\ ~LastPoll(s)
  /\ polls' = [polls EXCEPT ![s] = @ + 1]
  /\ UNCHANGED <<asker, entry, index, asks, got, spoilt>>

(* The clean-up's exceptions are swallowed, too. *)
PollTimesOut(s) ==
  /\ Ends(s) /\ LastPoll(s) /\ ~Answered(s)
  /\ Remove(s) \/ RemoveRaises(s)
  /\ UNCHANGED got

(* The last poll cannot read the response that is there. *)
AnswerUnread(s) ==
  /\ Ends(s) /\ LastPoll(s) /\ Answered(s)
  /\ entry' \in {entry, [entry EXCEPT ![s] = None]}
  /\ index' \in Loads \union Unindexed(s)
  /\ spoilt' = spoilt \union {s}
  /\ UNCHANGED got

(* The execution is cancelled, or the process restarts: nobody polls for   *)
(* the entry any more.  The session may be run again.                      *)
Dies(s) ==
  /\ asker[s] # "idle"
  /\ asker' = [asker EXCEPT ![s] = "idle"]
  /\ polls' = [polls EXCEPT ![s] = 0]
  /\ spoilt' = spoilt \union {s}
  /\ UNCHANGED <<entry, index, asks, got>>

-----------------------------------------------------------------------------
Routes(s) ==
  \/ SendFails(s) \/ \E p \in People : Register(s, p) \/ RegisterRaises(s, p)
  \/ PollAnswered(s) \/ ClearRaises(s) \/ AnswerUnread(s)
  \/ PollAgain(s) \/ PollTimesOut(s)

AskNext ==
  \/ \E s \in Sessions : Ask(s) \/ Routes(s) \/ Dies(s)
  \/ \E p \in People : Forget(p) \/ CaptureRaises(p)
  \/ \E p \in People, a \in Answers : Capture(p, a)

(* Sends return and sleeps end; people may stay silent. *)
AskFairness == \A s \in Sessions : WF_askVars(Routes(s))

AskSpec == AskInit /\ [][AskNext]_askVars
AskFairSpec == AskSpec /\ AskFairness

-----------------------------------------------------------------------------
(* The state is well formed. *)
AskTypeOK ==
  /\ asker \in [Sessions -> AskerStates]
  /\ entry \in [Sessions -> Entries \union {None, Torn}]
  /\ index \in [People -> Sessions \union {None}]
  /\ polls \in [Sessions -> 0..(MaxPolls - 1)]
  /\ asks \in [Sessions -> 0..MaxAsks]
  /\ got \in [Sessions -> Entries \union {None}]
  /\ spoilt \subseteq Sessions

(* The sessions of which no execution died and no file operation failed. *)
Unspoilt == Sessions \ spoilt

(* docs/spec/channel-ask.md, entries are cleared on answer and on timeout: *)
(* once a session is through with its question, no file and no index entry *)
(* is left that could take a later message of that person for an answer.   *)
(* A file operation that fails, which remove and the time-out swallow,     *)
(* leaves something behind of that one session only.                       *)
NoStaleQuestion ==
  \A s \in Unspoilt : asker[s] # "polling" =>
    /\ entry[s] = None
    /\ \A p \in People : index[p] # s

(* An agent is resumed only with the words of the person it asked, however *)
(* many sessions ask the same people, whoever else writes meanwhile and    *)
(* whatever failed or died for the other sessions.                         *)
AnsweredByTheOneAsked ==
  \A s \in Unspoilt : got[s] # None => got[s].from = got[s].to

(* A captured answer, which the person saw acknowledged, is never replaced *)
(* and goes away only by reaching the agent, be it on the very last poll,  *)
(* unless the file operation of just this session fails at the end.        *)
CapturedReachesAgent ==
  [][\A s \in Unspoilt' : Answered(s) /\ entry'[s] # entry[s] =>
       entry'[s] = None /\ got'[s] = entry[s]]_askVars

(* No agent waits for ever for a person. *)
EveryAskEnds == \A s \in Sessions : asker[s] # "idle" ~> asker[s] = "idle"
=============================================================================
