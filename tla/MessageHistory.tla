--------------------------- MODULE MessageHistory ---------------------------
(***************************************************************************)
(* The message list that is sent to the LLM: MessageSanitizer and          *)
(* MessageHistoryManager (core/domain/lean_agent_components/), as          *)
(* operators on sequences of messages.  What a message says is left out;   *)
(* its role, the calls it makes and the call it answers are kept.          *)
(*                                                                         *)
(* A call is identified by its position in its batch: providers only       *)
(* promise that the ids of one assistant message differ from each other,   *)
(* so ids recur from batch to batch.                                       *)
(***************************************************************************)
EXTENDS Integers, Sequences, FiniteSets

CONSTANTS
  SummaryThreshold,  \* summary_threshold: longer lists are compressed
  KeepLast           \* keep_last_n of the emergency trims (10 in the code)

ASSUME HistoryConstants ==
  SummaryThreshold \in Nat \ {0} /\ KeepLast \in Nat \ {0}

(* kinds: the tools called, for an assistant message with tool_calls.      *)
(* id, val: the call a tool message answers, and what with: the "result"   *)
(* of the tool, "skipped", or the user's "answer".                         *)
Plain(role) == [role |-> role, kinds |-> <<>>, id |-> 0, val |-> "none"]
System == Plain("system")
User == Plain("user")
Assistant == Plain("assistant")
Calls(kinds) == [Plain("calls") EXCEPT !.kinds = kinds]
Reply(id, val) == [Plain("tool") EXCEPT !.id = id, !.val = val]

Last(S) == CHOOSE x \in S : \A y \in S : y <= x

(* find_matching_tool_call_assistant_index: 0 when there is none *)
CallFor(msgs, i) ==
  LET before == {j \in 1..(i - 1) : msgs[j].role = "calls" /\ msgs[i].id \in DOMAIN msgs[j].kinds}
  IN  IF before = {} THEN 0 ELSE Last(before)

(* The elements of msgs at the positions in keep, in their order. *)
Pick(msgs, keep) ==
  LET upto[k \in 0..Len(msgs)] ==
        IF k = 0 THEN <<>>
        ELSE upto[k - 1] \o IF k \in keep THEN <<msgs[k]>> ELSE <<>>
  IN  upto[Len(msgs)]

(* drop_orphan_tool_messages *)
DropOrphans(msgs) ==
  Pick(msgs, {i \in DOMAIN msgs : msgs[i].role = "tool" => CallFor(msgs, i) # 0})

(* A window that starts at s holds the call of every tool message in it    *)
(* that has one.  The loops of keep_recent_preserving_tool_pairs and       *)
(* adjust_keep_boundary_for_tool_pairs move the start back to the last     *)
(* such s.                                                                 *)
CutsNoPair(msgs, s) ==
  \A i \in s..Len(msgs) : msgs[i].role = "tool" => CallFor(msgs, i) \notin 1..(s - 1)

Widened(msgs, s) == Last({w \in 1..s : CutsNoPair(msgs, w)})

From(msgs, s) == SubSeq(msgs, s, Len(msgs))

Larger(a, b) == IF a >= b THEN a ELSE b

(* keep_recent_preserving_tool_pairs *)
KeepRecent(msgs) ==
  IF Len(msgs) <= 1 THEN msgs
  ELSE LET start == Widened(msgs, Larger(2, Len(msgs) - KeepLast + 1))
       IN  DropOrphans(<<msgs[1]>> \o From(msgs, start))

(* deterministic_compression: the marker is only added if something went *)
Deterministic(msgs) ==
  LET recent == Tail(KeepRecent(msgs))
      marker == IF Len(msgs) - Len(recent) > 1 THEN <<System>> ELSE <<>>
  IN  DropOrphans(<<msgs[1]>> \o marker \o recent)

(* compress_messages after the LLM wrote its summary *)
Summarised(msgs) ==
  LET first == SummaryThreshold + 1
      start == IF first > Len(msgs) THEN first ELSE Widened(msgs, first)
  IN  DropOrphans(<<msgs[1], System>> \o From(msgs, start))

(* compress_messages: what it may return.  Whether the token estimate is   *)
(* above the trigger, and whether the summary succeeds, depends on the     *)
(* text of the messages and on the provider.                               *)
Compressed(msgs) ==
  {Summarised(msgs), Deterministic(msgs)} \union
    (IF Len(msgs) > SummaryThreshold THEN {} ELSE {msgs})

(* preflight_budget_check, likewise *)
Preflight(msgs) == {msgs, DropOrphans(msgs), KeepRecent(msgs)}

(* ContextManager.prepare_for_llm: the lists it may leave *)
Prepared(msgs) == UNION {Preflight(c) : c \in Compressed(msgs)}
=============================================================================
