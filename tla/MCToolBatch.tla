---------------------------- MODULE MCToolBatch ----------------------------
(* Instances of ToolBatch for TLC: a file under both kinds of path, and    *)
(* another whose path differs in its case only; some batches of two calls  *)
(* on them, and some of three.                                             *)
EXTENDS ToolBatch, TLC

CONSTANTS x, y

MCKey == [f \in {x, y} |-> "a"]

Call(t, f, a) == [tool |-> t, file |-> f, absolute |-> a]
Read(f) == Call("file_read", f, TRUE)
ReadRelative == Call("file_read", x, FALSE)
Write(f) == Call("file_write", f, TRUE)
WriteRelative == Call("file_write", x, FALSE)
Shell == Call("shell", x, TRUE)

MCBatches ==
  {<<Write(x), Read(x)>>, <<Read(x), Write(x)>>, <<Write(x), Read(y)>>,
   <<Read(y), Read(x)>>, <<WriteRelative, Read(x)>>, <<ReadRelative, Write(x)>>,
   <<Shell, Read(x)>>, <<Read(x), Write(x), Read(x)>>}

SlotsAlike == Permutations(Slots)
=============================================================================
