---------------------------- MODULE Conversations ----------------------------
(***************************************************************************)
(* The conversation store: one index.json for all conversations and a      *)
(* message log for each, read, changed and written back without a lock by  *)
(* coroutines of the gateway, the request processor and the REST routes    *)
(* (infrastructure/persistence/file_conversation_store.py, application/    *)
(* conversation_manager.py).                                               *)
(*                                                                         *)
(* Reads, opens and writes run in aiofiles' threads; exists, unlink,       *)
(* rename and rmtree run in the event loop.  A file's old name is unlinked *)
(* before the temporary one is renamed, and all writers of a file share    *)
(* the temporary name: what a writer writes goes where its open file went. *)
(***************************************************************************)
EXTENDS Integers, FiniteSets

CONSTANTS
  Pairs,     \* channel and sender
  Convs,     \* identifiers of conversations
  PairOf,    \* PairOf[c]: the pair that c is created for
  Msgs,      \* messages to append
  Callers,   \* coroutines
  MaxOps,    \* operations begun (bound)
  MayCrash,  \* whether the process may die
  Index,     \* index.json
  Missing, Blank, Garbled   \* no file, an empty one, one that is no JSON

ASSUME ConversationConstants ==
  /\ PairOf \in [Convs -> Pairs]
  /\ Index \notin Convs /\ MayCrash \in BOOLEAN /\ MaxOps \in Nat
  /\ IsFiniteSet(Convs)

Files == Convs \union {Index}
Entry == [active : BOOLEAN, topic : {"none", "auto", "user"}]
Absent == [active |-> FALSE, topic |-> "absent"]
Indexes == [Convs -> Entry \union {Absent}]
Unreadable == {Missing, Blank, Garbled}
NoConvs == [c \in Convs |-> Absent]
NoOp == [kind |-> "none"]

(* What a file that can be read holds: the index, or a log as the set of   *)
(* its messages.                                                           *)
Values(f) == IF f = Index THEN Indexes ELSE SUBSET Msgs

ASSUME UnreadableHoldsNothing ==
  \A f \in Files : \A x \in Values(f) : x \notin Unreadable

VARIABLES
  disk,    \* disk[f]: what the file holds
  temp,    \* temp[f]: what its .json.tmp holds
  op,      \* op[p]: the operation the caller is in
  phase,   \* phase[p]: where it is in it
  file,    \* file[p]: the file it reads or writes
  local,   \* local[p]: what it will write to that file
  at,      \* at[p]: where its open file is: "temp", "path" or "gone"
  begun,   \* operations begun
  used,    \* the identifiers and messages drawn
  seen,    \* the identifiers that have been in the index
  acked,   \* acked[c]: messages that append_message has put into the log
  listed,  \* conversations create_new has entered and nobody deleted
  shared,  \* files two operations worked on at a time
  holed    \* files lost to a crash

vars == <<disk, temp, op, phase, file, local, at, begun, used, seen,
          acked, listed, shared, holed>>
ghosts == <<begun, acked, listed, shared, holed>>

Ops ==
  {NoOp} \union
  [kind : {"get", "create", "archive", "delete", "rename", "title", "compact"},
   conv : Convs]
  \union [kind : {"append"}, conv : Convs, msg : Msgs]

Phases == {"idle", "look", "asking", "read", "open", "write", "unlink", "rename", "purge"}

TypeOK ==
  /\ DOMAIN disk = Files /\ DOMAIN temp = Files
  /\ \A f \in Files : {disk[f], temp[f]} \ Unreadable \subseteq Values(f)
  /\ op \in [Callers -> Ops]
  /\ phase \in [Callers -> Phases]
  /\ file \in [Callers -> Files]
  /\ DOMAIN local = Callers
  /\ \A p \in Callers : phase[p] \in {"open", "write"}
                         => local[p] \in Values(file[p])
  /\ at \in [Callers -> {"temp", "path", "gone"}]
  /\ begun \in 0..MaxOps
  /\ used \subseteq Convs \union Msgs /\ seen \subseteq Convs
  /\ acked \in [Convs -> SUBSET Msgs]
  /\ listed \subseteq Convs
  /\ shared \subseteq Files /\ holed \subseteq Files

Init ==
  /\ disk = [f \in Files |-> Missing] /\ temp = [f \in Files |-> Missing]
  /\ op = [p \in Callers |-> NoOp]
  /\ phase = [p \in Callers |-> "idle"]
  /\ file = [p \in Callers |-> Index]
  /\ local = [p \in Callers |-> {}]
  /\ at = [p \in Callers |-> "gone"]
  /\ begun = 0 /\ used = {} /\ seen = {}
  /\ acked = [c \in Convs |-> {}]
  /\ listed = {} /\ shared = {} /\ holed = {}

(* Only threads run while a caller is between its unlink and its rename, *)
(* or between that rename and rmtree: there is no await.                  *)
Quiet == \A p \in Callers : phase[p] \notin {"rename", "purge"}

(* _load_index, _load_messages: what cannot be read counts as empty. *)
Loaded(f) ==
  IF disk[f] \notin Unreadable THEN disk[f]
  ELSE IF f = Index THEN NoConvs ELSE {}

Working(p, f) ==
  /\ file[p] = f
  /\ \/ phase[p] \in {"read", "open", "write", "unlink", "rename"}
     \/ phase[p] = "asking" /\ op[p].kind = "compact"
Creating(p, c) == op[p].kind \in {"get", "create"} /\ op[p].conv = c
Overlap(p, f) == \E q \in Callers \ {p} : Working(q, f) \/ Creating(q, f)
Enter(p, f) == shared' = IF Overlap(p, f) THEN shared \union {f} ELSE shared

(* Caller p goes on to phase ph with file f. *)
Goto(p, ph, f) == phase' = [phase EXCEPT ![p] = ph] /\ file' = [file EXCEPT ![p] = f]

(* The operation of p returns or raises. *)
Leave(p) ==
  /\ op' = [op EXCEPT ![p] = NoOp]
  /\ phase' = [phase EXCEPT ![p] = "idle"]
  /\ file' = [file EXCEPT ![p] = Index]
  /\ local' = [local EXCEPT ![p] = {}]
  /\ at' = [at EXCEPT ![p] = "gone"]

-----------------------------------------------------------------------------
Named(x) == IF x \in Unreadable THEN {} ELSE {c \in Convs : x[c] # Absent}

Begin(p, o, ph, f) ==
  /\ phase[p] = "idle" /\ Quiet
  /\ begun < MaxOps /\ begun' = begun + 1
  /\ op' = [op EXCEPT ![p] = o]
  /\ Goto(p, ph, f)
  /\ IF ph = "read" THEN Enter(p, f) ELSE UNCHANGED shared
  /\ UNCHANGED <<disk, temp, local, at, seen, acked, listed, holed>>

(* get_or_create, create_new: the identifier is drawn by create_new. *)
BeginCreate(p) ==
  \E c \in Convs : \E kind \in {"get", "create"} :
    /\ c \notin used
    /\ used' = used \union {c}
    /\ Begin(p, [kind |-> kind, conv |-> c],
             IF kind = "get" THEN "look" ELSE "read", Index)

BeginAppend(p) ==
  \E c \in seen : \E m \in Msgs :
    /\ m \notin used
    /\ used' = used \union {m}
    /\ Begin(p, [kind |-> "append", conv |-> c, msg |-> m], "read", c)

(* compact: read, summarise, replace_messages. *)
BeginCompact(p) ==
  /\ \E c \in seen : Begin(p, [kind |-> "compact", conv |-> c], "read", c)
  /\ UNCHANGED used

(* archive, _auto_archive_stale, delete, rename *)
BeginOnIndex(p) ==
  /\ \E c \in seen : \E kind \in {"archive", "delete", "rename"} :
       Begin(p, [kind |-> kind, conv |-> c], "read", Index)
  /\ UNCHANGED used

(* maybe_generate_title *)
BeginTitle(p) ==
  /\ \E c \in seen : Begin(p, [kind |-> "title", conv |-> c], "look", Index)
  /\ UNCHANGED used

Active(x, pair) == {c \in Convs : PairOf[c] = pair /\ x[c].active}

(* get_or_create finds an active conversation, or goes on to create_new; *)
(* the titler leaves a conversation alone that is not active, is titled or *)
(* has too few messages, and gives up when the summarizer fails.          *)
Look(p) ==
  LET x == Loaded(Index)
      c == op[p].conv
      on == IF op[p].kind = "get" THEN Active(x, PairOf[c]) = {}
            ELSE x[c].active /\ x[c].topic = "none"
  IN /\ phase[p] = "look"
     /\ \/ /\ on => op[p].kind = "title"
           /\ Leave(p) /\ UNCHANGED shared
        \/ /\ on
           /\ IF op[p].kind = "get"
                THEN Goto(p, "read", Index) /\ Enter(p, Index)
                ELSE Goto(p, "asking", Index) /\ UNCHANGED shared
           /\ UNCHANGED <<op, local, at>>
     /\ UNCHANGED <<disk, temp, used, seen, begun, acked, listed, holed>>

(* The summarizer has answered: update_title, or replace_messages. *)
Summarized(p) ==
  /\ phase[p] = "asking" /\ Quiet
  /\ IF op[p].kind = "title"
       THEN Goto(p, "read", Index) /\ Enter(p, Index)
       ELSE Goto(p, "open", file[p]) /\ UNCHANGED shared
  /\ UNCHANGED <<disk, temp, op, local, at, used, seen, begun, acked, listed, holed>>

-----------------------------------------------------------------------------
(* Mutant of NewIndex: create_new leaves the active conversation active. *)
NewIndexKeeps(o, x) ==
  IF o.kind \in {"get", "create"}
  THEN [x EXCEPT ![o.conv] = [active |-> TRUE, topic |-> "none"]]
  ELSE x

(* Mutant of NewIndex: archive drops the entry. *)
NewIndexDrops(o, x) ==
  CASE o.kind \in {"get", "create"} ->
         [x EXCEPT ![o.conv] = [active |-> TRUE, topic |-> "none"]]
    [] o.kind \in {"archive", "delete"} -> [x EXCEPT ![o.conv] = Absent]
    [] OTHER -> x

(* What an operation makes of the index. *)
NewIndex(o, x) ==
  LET c == o.conv
      there == x[c] # Absent
  IN CASE o.kind \in {"get", "create"} ->
            [d \in Convs |->
               IF d = c THEN [active |-> TRUE, topic |-> "none"]
               ELSE IF d \in Active(x, PairOf[c]) THEN [x[d] EXCEPT !.active = FALSE]
               ELSE x[d]]
       [] o.kind = "archive" /\ there -> [x EXCEPT ![c].active = FALSE]
       [] o.kind = "delete" -> [x EXCEPT ![c] = Absent]
       [] o.kind = "rename" /\ there -> [x EXCEPT ![c].topic = "user"]
       [] o.kind = "title" /\ there -> [x EXCEPT ![c].topic = "auto"]
       [] OTHER -> x

(* Mutant of NewLog: compact loses the summary. *)
NewLogUnsummarised(o, log) == IF o.kind = "append" THEN log \union {o.msg} ELSE {}

(* What it makes of the log.  A log is the set of messages it holds, word *)
(* for word or in a summary.                                              *)
NewLog(o, log) ==
  CASE o.kind = "append" -> log \union {o.msg}
    [] o.kind = "compact" -> log
    [] OTHER -> {}

(* delete, update_title: nothing to do without the entry. *)
Returns(o, x) == o.kind \in {"delete", "rename", "title"} /\ x[o.conv] = Absent

(* The file is read.  For an append the save is next; compact asks the      *)
(* model, unless the log is too short, and ends if the summary fails.       *)
Read(p) ==
  LET f == file[p]
      o == op[p]
      x == Loaded(f)
  IN /\ phase[p] = "read"
     /\ \/ /\ IF f = Index THEN Returns(o, x) ELSE o.kind = "compact"
           /\ Leave(p)
        \/ /\ f = Index => ~Returns(o, x)
           /\ local' = [local EXCEPT ![p] =
                 IF f = Index THEN NewIndex(o, x) ELSE NewLog(o, x)]
           /\ Goto(p, IF f # Index /\ o.kind = "compact" THEN "asking" ELSE "open", f)
           /\ UNCHANGED <<op, at>>
     /\ UNCHANGED <<disk, temp, used, seen, ghosts>>

(* _write_json: the temporary file is created or cut to nothing. *)
Open(p) ==
  /\ phase[p] = "open"
  /\ temp' = [temp EXCEPT ![file[p]] = Blank]
  /\ at' = [at EXCEPT ![p] = "temp"]
  /\ Goto(p, "write", file[p])
  /\ UNCHANGED <<disk, op, local, used, seen, ghosts>>

(* Written over what another put there since, the rest of it may stay. *)
Over(old, new) == IF old = Blank THEN {new} ELSE {new, Garbled}

Write(p) ==
  LET f == file[p]
  IN /\ phase[p] = "write"
     /\ IF at[p] = "temp"
        THEN \E x \in Over(temp[f], local[p]) : temp' = [temp EXCEPT ![f] = x]
        ELSE UNCHANGED temp
     /\ IF at[p] = "path"
        THEN \E x \in Over(disk[f], local[p]) : disk' = [disk EXCEPT ![f] = x]
        ELSE UNCHANGED disk
     /\ seen' = seen \union Named(disk'[Index])
     /\ local' = [local EXCEPT ![p] = {}]
     /\ at' = [at EXCEPT ![p] = "gone"]
     /\ Goto(p, "unlink", f)
     /\ UNCHANGED <<op, used, ghosts>>

(* Where the open files of f are once its name is unlinked, once renamed. *)
Unlinked(f) ==
  [q \in Callers |-> IF file[q] = f /\ at[q] = "path" THEN "gone" ELSE at[q]]
Renamed(f) ==
  [q \in Callers |-> IF file[q] = f /\ at[q] = "temp" THEN "path" ELSE at[q]]

Unlink(p) ==
  LET f == file[p]
  IN /\ phase[p] = "unlink" /\ Quiet
     /\ disk' = [disk EXCEPT ![f] = Missing]
     /\ at' = Unlinked(f)
     /\ Goto(p, "rename", f)
     /\ UNCHANGED <<temp, op, local, used, seen, ghosts>>

(* The rename raises when another writer has taken the temporary file. *)
RenameRaises(p) ==
  /\ phase[p] = "rename" /\ temp[file[p]] = Missing
  /\ Leave(p)
  /\ UNCHANGED <<disk, temp, used, seen, ghosts>>

(* The file is in place, and the operation goes on to its next file. *)
Rename(p) ==
  LET f == file[p]
      o == op[p]
      created == f = Index /\ o.kind \in {"get", "create"}
      deleted == f = Index /\ o.kind = "delete"
      logged == f # Index /\ o.kind \in {"append", "compact"}
  IN /\ phase[p] = "rename" /\ temp[f] # Missing
     /\ disk' = [disk EXCEPT ![f] = temp[f]]
     /\ temp' = [temp EXCEPT ![f] = Missing]
     /\ at' = Renamed(f)
     /\ seen' = seen \union Named(disk'[Index])
     /\ listed' = IF created THEN listed \union {o.conv}
                  ELSE IF deleted THEN listed \ {o.conv} ELSE listed
     /\ acked' = IF logged /\ o.kind = "append"
                 THEN [acked EXCEPT ![o.conv] = @ \union {o.msg}] ELSE acked
     /\ \/ created /\ Goto(p, "open", o.conv) /\ Enter(p, o.conv)
        \/ logged /\ Goto(p, "read", Index) /\ Enter(p, Index)
        \/ deleted /\ Goto(p, "purge", Index) /\ UNCHANGED shared
        \/ ~(created \/ logged \/ deleted) /\ Goto(p, "idle", Index) /\ UNCHANGED shared
     /\ op' = IF created \/ logged \/ deleted THEN op ELSE [op EXCEPT ![p] = NoOp]
     /\ UNCHANGED <<local, begun, used, holed>>

(* The delete returns; who was about to open a file there raises. *)
Ended(p, c) == {p} \union {q \in Callers : Working(q, c) /\ phase[q] = "open"}

(* delete removes the directory, and what others are writing there. *)
Purge(p) ==
  LET c == op[p].conv
  IN /\ phase[p] = "purge"
     /\ disk' = [disk EXCEPT ![c] = Missing]
     /\ temp' = [temp EXCEPT ![c] = Missing]
     /\ acked' = [acked EXCEPT ![c] = {}]
     /\ shared' = IF Overlap(p, c) THEN shared \union {c} ELSE shared
     /\ at' = [q \in Callers |-> IF q = p \/ Working(q, c) THEN "gone" ELSE at[q]]
     /\ op' = [q \in Callers |-> IF q \in Ended(p, c) THEN NoOp ELSE op[q]]
     /\ phase' = [q \in Callers |-> IF q \in Ended(p, c) THEN "idle" ELSE phase[q]]
     /\ file' = [q \in Callers |-> IF q \in Ended(p, c) THEN Index ELSE file[q]]
     /\ local' = [q \in Callers |-> IF q \in Ended(p, c) THEN {} ELSE local[q]]
     /\ UNCHANGED <<begun, used, seen, listed, holed>>

(* The process dies.  A .json.tmp it leaves behind is never read. *)
Crash ==
  /\ MayCrash /\ \E p \in Callers : phase[p] # "idle"
  /\ op' = [p \in Callers |-> NoOp]
  /\ phase' = [p \in Callers |-> "idle"]
  /\ file' = [p \in Callers |-> Index]
  /\ local' = [p \in Callers |-> {}]
  /\ at' = [p \in Callers |-> "gone"]
  /\ holed' = holed \union {file[p] : p \in {q \in Callers : phase[q] = "rename"}}
  /\ UNCHANGED <<disk, temp, used, seen, begun, acked, listed, shared>>

Next ==
  \/ \E p \in Callers :
       \/ BeginCreate(p) \/ BeginAppend(p) \/ BeginCompact(p)
       \/ BeginOnIndex(p) \/ BeginTitle(p)
       \/ Look(p) \/ Summarized(p) \/ Read(p) \/ Open(p) \/ Write(p)
       \/ Unlink(p) \/ RenameRaises(p) \/ Rename(p) \/ Purge(p)
  \/ Crash

Spec == Init /\ [][Next]_vars

-----------------------------------------------------------------------------
Whole(x) == x \notin Unreadable

(* No index that anyone could read, on disk or on its way there, names two *)
(* active conversations of a channel and sender, whatever operations       *)
(* overlap and whenever the process dies (docs/spec/conversations.md:39).  *)
OneActive ==
  \A x \in {disk[Index], temp[Index]} :
    Whole(x) => \A pair \in Pairs : Cardinality(Active(x, pair)) <= 1

(* A message that append_message has saved stays in the log of its         *)
(* conversation, through compactions and whatever happens to the index,    *)
(* unless two operations worked on that log at a time or a crash hit the   *)
(* step between unlink and rename (file_conversation_store.py:385).        *)
LogKept ==
  \A c \in Convs \ (shared \union holed) :
    (\A p \in Callers : ~(file[p] = c /\ phase[p] = "rename"))
      => acked[c] \subseteq Loaded(c)

(* A conversation that was created stays in the index until it is deleted, *)
(* unless two operations worked on the index at a time or a crash hit that *)
(* step; and without those the index is always readable.                   *)
IndexKept ==
  Index \notin shared \union holed /\ Quiet =>
    /\ disk[Index] \in Indexes \union {Missing}
    /\ listed \subseteq Named(disk[Index])

(* _write_json calls itself atomic (file_conversation_store.py:380): a     *)
(* index that was written is there when all operations are over.            *)
WritesAreAtomic ==
  listed # {} /\ (\A p \in Callers : phase[p] = "idle")
    => disk[Index] \notin Unreadable
=============================================================================
