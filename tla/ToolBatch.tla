------------------------------ MODULE ToolBatch ------------------------------
(***************************************************************************)
(* The tool calls of one answer of the model, run by _execute_tool_calls   *)
(* and _process_tool_calls (core/domain/planning/tool_execution.py), and   *)
(* the cache of file reads in the session's state (evidence_cache.py).     *)
(*                                                                         *)
(* A file's content is the number of changes made to it.  The key of an    *)
(* entry is the lower-cased absolute path that file_read reports           *)
(* (file_tools.py:105), while a lookup and an invalidation use the path    *)
(* the model wrote: only the absolute one meets the entry.  Files whose    *)
(* paths differ in their case only share a key, and each is answered with  *)
(* what was read of the other.                                             *)
(***************************************************************************)
EXTENDS Integers, Sequences, FiniteSets

CONSTANTS
  Files,
  Key,          \* Key[f]: the path of f as the key of its entry
  Batches,      \* the sequences of tool calls the model may ask for
  MaxLen,       \* the longest of them
  MaxParallel,  \* agent.max_parallel_tools
  MaxChanges,   \* changes of a file (bound)
  Slots,        \* batches under way at a time: one attended, the others not
  None

Tools == {"file_read", "file_write", "shell"}
Requests == [tool : Tools, file : Files, absolute : BOOLEAN]
Excuses == {"relative", "repeated", "unseen", "failed", "orphan", "unsaved"}

ASSUME ToolBatchConstants ==
  /\ MaxLen \in Nat \ {0} /\ MaxParallel \in Nat \ {0} /\ MaxChanges \in Nat
  /\ Batches \subseteq Seq(Requests)
  /\ \A b \in Batches : Len(b) \in 1..MaxLen
  /\ None \notin Nat /\ None \notin Excuses /\ None \notin Files

Contents == 0..MaxChanges

VARIABLES
  disk,    \* the content of each file
  cache,   \* cache[f]: the content in state["evidence_cache"] that was read
           \* from f; of files with one key, one at most has an entry
  saved,   \* the same in the saved session
  run,     \* an execution of the session is under way
  mode,    \* mode[s]: "free", "attended" (awaited by the run) or "orphan"
  batch,   \* batch[s]: the calls
  pos,     \* pos[s]: the call the loop of _execute_tool_calls is at
  stage,   \* stage[s][i]: "none", "queued" (a task), "runs" or "done"
  got,     \* got[s][i]: the content a read returned; None if it failed
  hit,     \* hit[s][i]: the file whose entry in the cache answered the call
  wrote,   \* wrote[s][i]: the content a successful file_write made
  handled, \* handled[s]: results _process_tool_calls is through with
  left,    \* left[s]: the cache of the run that abandoned the batch
  excuse   \* excuse[f][c]: why the cache may miss the change that made c, if so

vars == <<disk, cache, saved, run, mode, batch, pos, stage, got, hit, wrote,
          handled, left, excuse>>
calls == <<mode, batch, pos, stage, got, hit, wrote, handled, left>>

Index == 1..MaxLen
Reasons == Excuses \union {None}

(* The cache is a dictionary: a key has one entry. *)
OneEntryEach(c) ==
  \A f, g \in Files : c[f] # None /\ c[g] # None /\ Key[f] = Key[g] => f = g

TypeOK ==
  /\ disk \in [Files -> Contents]
  /\ cache \in [Files -> Contents \union {None}]
  /\ saved \in [Files -> Contents \union {None}]
  /\ run \in BOOLEAN
  /\ mode \in [Slots -> {"free", "attended", "orphan"}]
  /\ batch \in [Slots -> Batches \union {<<>>}]
  /\ pos \in [Slots -> 1..(MaxLen + 1)]
  /\ stage \in [Slots -> [Index -> {"none", "queued", "runs", "done"}]]
  /\ got \in [Slots -> [Index -> Contents \union {None}]]
  /\ hit \in [Slots -> [Index -> Files \union {None}]]
  /\ wrote \in [Slots -> [Index -> Contents \union {None}]]
  /\ handled \in [Slots -> 0..MaxLen]
  /\ left \in [Slots -> [Files -> Contents \union {None}]]
  /\ excuse \in [Files -> [1..MaxChanges -> Reasons]]
  /\ OneEntryEach(cache) /\ OneEntryEach(saved)

Nothing == [i \in Index |-> None]
NoCache == [f \in Files |-> None]
Untouched == [i \in Index |-> "none"]

Init ==
  /\ disk = [f \in Files |-> 0]
  /\ cache = NoCache /\ saved = NoCache
  /\ run = FALSE
  /\ mode = [s \in Slots |-> "free"]
  /\ batch = [s \in Slots |-> <<>>]
  /\ pos = [s \in Slots |-> 1]
  /\ stage = [s \in Slots |-> Untouched]
  /\ got = [s \in Slots |-> Nothing]
  /\ hit = [s \in Slots |-> Nothing]
  /\ wrote = [s \in Slots |-> Nothing]
  /\ handled = [s \in Slots |-> 0]
  /\ left = [s \in Slots |-> NoCache]
  /\ excuse = [f \in Files |-> [c \in 1..MaxChanges |-> None]]

Attended(s) == mode[s] = "attended"
Idle == \A s \in Slots : ~Attended(s)
Here(s) == batch[s][pos[s]]
Calls(s) == 1..Len(batch[s])

(* Mutant of Parallel: a write may run beside the other calls. *)
ParallelWrites(r) == r.tool \in {"file_read", "file_write"} /\ MaxParallel > 1

(* file_read declares supports_parallelism; file_write, edit, shell do not. *)
Parallel(r) == r.tool = "file_read" /\ MaxParallel > 1
InSemaphore(s) == {i \in Calls(s) : Parallel(batch[s][i]) /\ stage[s][i] = "runs"}

Changes(f) == disk' = [disk EXCEPT ![f] = @ + 1]
Excuse(f, why) == excuse' = [excuse EXCEPT ![f][disk[f] + 1] = why]

-----------------------------------------------------------------------------
(* An execution loads the session, cache included, and saves it in the end. *)
BeginRun ==
  /\ ~run
  /\ run' = TRUE /\ cache' = saved
  /\ UNCHANGED <<disk, saved, calls, excuse>>

EndRun ==
  /\ run /\ Idle
  /\ run' = FALSE /\ saved' = cache
  /\ UNCHANGED <<disk, cache, calls, excuse>>

(* The model answers with calls; a free slot holds nothing. *)
BeginBatch(s) ==
  /\ run /\ Idle /\ mode[s] = "free"
  /\ \E b \in Batches : batch' = [batch EXCEPT ![s] = b]
  /\ mode' = [mode EXCEPT ![s] = "attended"]
  /\ UNCHANGED <<disk, cache, saved, run, pos, stage, got, hit, wrote, handled,
                 left, excuse>>

-----------------------------------------------------------------------------
(* The loop of _execute_tool_calls. *)
Dispatching(s) == mode[s] # "free" /\ pos[s] <= Len(batch[s])
Goes(s) == pos' = [pos EXCEPT ![s] = @ + 1]
Enters(s, i, to) == stage' = [stage EXCEPT ![s][i] = to]

(* An abandoned batch still has the state of the run that left it. *)
State(s) == IF Attended(s) THEN cache ELSE left[s]

(* The entry read from f has the key of the path to be read. *)
Serves(s, f) ==
  /\ Here(s).tool = "file_read" /\ Here(s).absolute
  /\ State(s)[f] # None /\ Key[f] = Key[Here(s).file]

Cached(s) == \E f \in Files : Serves(s, f)

(* What the batch made of a file before call i. *)
MadeBefore(s, i, f) ==
  {wrote[s][k] : k \in {k \in 1..(i - 1) : batch[s][k].file = f}} \ {None}

(* cached_file_read_result: answered without the tool. *)
AnswerFromCache(s) ==
  /\ Dispatching(s) /\ stage[s][pos[s]] = "none"
  /\ \E f \in Files :
       /\ Serves(s, f)
       /\ IF Attended(s)
          THEN /\ got' = [got EXCEPT ![s][pos[s]] = cache[f]]
               /\ hit' = [hit EXCEPT ![s][pos[s]] = f]
          ELSE UNCHANGED <<got, hit>>
       /\ excuse' = [excuse EXCEPT ![f] = [c \in 1..MaxChanges |->
            IF c \in MadeBefore(s, pos[s], f) /\ @[c] = None THEN "repeated" ELSE @[c]]]
  /\ Enters(s, pos[s], "done") /\ Goes(s)
  /\ UNCHANGED <<disk, cache, saved, run, mode, batch, wrote, handled, left>>

(* A tool that may run beside others becomes a task. *)
CreateTask(s) ==
  /\ Dispatching(s) /\ stage[s][pos[s]] = "none"
  /\ Parallel(Here(s)) /\ ~Cached(s)
  /\ Enters(s, pos[s], "queued") /\ Goes(s)
  /\ UNCHANGED <<disk, cache, saved, run, mode, batch, got, hit, wrote, handled,
                 left, excuse>>

(* Any other tool is awaited in the loop. *)
StartInLoop(s) ==
  /\ Dispatching(s) /\ stage[s][pos[s]] = "none"
  /\ ~Parallel(Here(s)) /\ ~Cached(s)
  /\ Enters(s, pos[s], "runs")
  /\ UNCHANGED <<disk, cache, saved, run, mode, batch, pos, got, hit, wrote,
                 handled, left, excuse>>

AcquireSemaphore(s, i) ==
  /\ mode[s] # "free" /\ i \in Calls(s) /\ stage[s][i] = "queued"
  /\ Cardinality(InSemaphore(s)) < MaxParallel
  /\ Enters(s, i, "runs")
  /\ UNCHANGED <<disk, cache, saved, run, mode, batch, pos, got, hit, wrote,
                 handled, left, excuse>>

(* A tool ends.  In the loop, the loop goes on to the next call. *)
Finishes(s, i) ==
  /\ mode[s] # "free" /\ i \in Calls(s) /\ stage[s][i] = "runs"
  /\ Enters(s, i, "done")
  /\ pos' = [pos EXCEPT ![s] = IF i = @ THEN @ + 1 ELSE @]
  /\ UNCHANGED <<cache, saved, run, mode, batch, hit, handled, left>>

FinishRead(s, i) ==
  /\ Finishes(s, i)
  /\ batch[s][i].tool = "file_read"
  /\ \E c \in {None, disk[batch[s][i].file]} : got' = [got EXCEPT ![s][i] = IF Attended(s) THEN c ELSE None]
  /\ UNCHANGED <<disk, wrote, excuse>>

(* A file_write succeeds. *)
FinishWrite(s, i) ==
  /\ Finishes(s, i)
  /\ LET f == batch[s][i].file
     IN /\ batch[s][i].tool = "file_write" /\ disk[f] < MaxChanges
        /\ Changes(f)
        /\ wrote' = [wrote EXCEPT ![s][i] = IF Attended(s) THEN disk[f] + 1 ELSE None]
        /\ Excuse(f, IF ~Attended(s) THEN "orphan"
                     ELSE IF ~batch[s][i].absolute THEN "relative" ELSE None)
  /\ UNCHANGED got

(* A file_write is denied or fails, perhaps after it began to write. *)
FailWrite(s, i) ==
  /\ Finishes(s, i)
  /\ LET f == batch[s][i].file
     IN /\ batch[s][i].tool = "file_write"
        /\ \/ UNCHANGED <<disk, excuse>>
           \/ disk[f] < MaxChanges /\ Changes(f) /\ Excuse(f, "failed")
  /\ UNCHANGED <<got, wrote>>

(* A shell command may change a file, and no one tells the cache. *)
FinishShell(s, i) ==
  /\ Finishes(s, i)
  /\ LET f == batch[s][i].file
     IN /\ batch[s][i].tool = "shell"
        /\ \/ UNCHANGED <<disk, excuse>>
           \/ disk[f] < MaxChanges /\ Changes(f) /\ Excuse(f, "unseen")
  /\ UNCHANGED <<got, wrote>>

AllDone(s) == \A i \in Calls(s) : stage[s][i] = "done"

-----------------------------------------------------------------------------
(* _process_tool_calls goes through the results in the order of the calls. *)
Mine(s) == batch[s][handled[s] + 1]

Handling(s) ==
  /\ Attended(s) /\ AllDone(s) /\ handled[s] < Len(batch[s])
  /\ handled' = [handled EXCEPT ![s] = @ + 1]
  /\ UNCHANGED <<disk, saved, run, mode, batch, pos, stage, got, hit, wrote,
                 left, excuse>>

(* The file a result was read from, now or when its entry was made. *)
ReadFrom(s, i) == IF hit[s][i] = None THEN batch[s][i].file ELSE hit[s][i]

(* The cache without the entry under the key of f. *)
Without(c, f) == [g \in Files |-> IF Key[g] = Key[f] THEN None ELSE c[g]]

(* record_file_read_evidence: under the path the result reports, which is  *)
(* that of the entry if the cache answered.                                *)
RecordRead(s) ==
  /\ Handling(s) /\ Mine(s).tool = "file_read"
  /\ LET i == handled[s] + 1
         f == ReadFrom(s, i)
     IN  IF got[s][i] = None THEN UNCHANGED cache
         ELSE cache' = [Without(cache, f) EXCEPT ![f] = got[s][i]]

(* Mutant of Invalidate: a write leaves the cache alone. *)
InvalidateNot(s) ==
  /\ Handling(s) /\ Mine(s).tool = "file_write"
  /\ UNCHANGED cache

(* invalidate_file_read_evidence, under the path of the call *)
Invalidate(s) ==
  /\ Handling(s) /\ Mine(s).tool = "file_write"
  /\ IF wrote[s][handled[s] + 1] # None /\ Mine(s).absolute
     THEN cache' = Without(cache, Mine(s).file)
     ELSE UNCHANGED cache

HandleShell(s) ==
  /\ Handling(s) /\ Mine(s).tool = "shell"
  /\ UNCHANGED cache

Frees(s) ==
  /\ mode' = [mode EXCEPT ![s] = "free"]
  /\ batch' = [batch EXCEPT ![s] = <<>>]
  /\ pos' = [pos EXCEPT ![s] = 1]
  /\ stage' = [stage EXCEPT ![s] = Untouched]
  /\ got' = [got EXCEPT ![s] = Nothing]
  /\ hit' = [hit EXCEPT ![s] = Nothing]
  /\ wrote' = [wrote EXCEPT ![s] = Nothing]
  /\ handled' = [handled EXCEPT ![s] = 0]
  /\ left' = [left EXCEPT ![s] = NoCache]
  /\ UNCHANGED <<disk, cache, saved, run, excuse>>

EndBatch(s) ==
  /\ Attended(s) /\ AllDone(s) /\ handled[s] = Len(batch[s])
  /\ Frees(s)

(* An orphaned _execute_tool_calls ends; nobody looks at its results. *)
EndOrphan(s) ==
  /\ mode[s] = "orphan" /\ AllDone(s)
  /\ Frees(s)

-----------------------------------------------------------------------------
(* The execution is cancelled or its stream closed: the state in memory is *)
(* dropped unsaved, and the task of _execute_tool_calls goes on by itself, *)
(* with the calls it has not started yet too.                              *)
Abandon ==
  /\ run
  /\ run' = FALSE
  /\ mode' = [s \in Slots |-> IF Attended(s) THEN "orphan" ELSE mode[s]]
  /\ left' = [s \in Slots |-> IF Attended(s) THEN cache ELSE left[s]]
  /\ got' = [s \in Slots |-> Nothing] /\ wrote' = got'
  /\ hit' = [s \in Slots |-> Nothing] /\ handled' = [s \in Slots |-> 0]
  /\ cache' = saved
  /\ excuse' = [f \in Files |-> [c \in 1..MaxChanges |->
       IF c <= disk[f] /\ excuse[f][c] = None THEN "unsaved" ELSE excuse[f][c]]]
  /\ UNCHANGED <<disk, saved, batch, pos, stage>>

Next ==
  \/ BeginRun \/ EndRun \/ Abandon
  \/ \E s \in Slots :
       \/ BeginBatch(s) \/ AnswerFromCache(s) \/ CreateTask(s) \/ StartInLoop(s)
       \/ RecordRead(s) \/ Invalidate(s) \/ HandleShell(s)
       \/ EndBatch(s) \/ EndOrphan(s)
       \/ \E i \in Calls(s) :
            \/ AcquireSemaphore(s, i) \/ FinishRead(s, i)
            \/ FinishWrite(s, i) \/ FailWrite(s, i) \/ FinishShell(s, i)

Spec == Init /\ [][Next]_vars

-----------------------------------------------------------------------------
(* Between batches an entry of the cache holds what the file it was read    *)
(* from holds, unless that file was changed in a way nothing reports to the *)
(* cache, under a relative path, by a write that failed half-way, by calls  *)
(* nobody awaits any more, or before a read of the same batch that the      *)
(* cache answered; or unless a run ended without saving                     *)
(* (evidence_cache.py:27 and 107).  Which files an entry answers for is     *)
(* another matter: see Serves.                                              *)
CacheTrustworthy ==
  Idle => \A f \in Files :
    cache[f] # None => \/ cache[f] = disk[f]
                       \/ \E c \in (cache[f] + 1)..disk[f] : excuse[f][c] # None

(* A read that follows a successful write of the same file in its batch and *)
(* goes to the disk never returns what was there before that write, though  *)
(* reads are tasks and writes are not (tool_execution.py:97).               *)
ReadYourWrites ==
  \A s \in Slots : mode[s] # "free" =>
    \A i, j \in Calls(s) :
      /\ i < j /\ batch[s][i].file = batch[s][j].file
      /\ wrote[s][i] # None /\ got[s][j] # None /\ hit[s][j] = None
      => got[s][j] >= wrote[s][i]
=============================================================================
