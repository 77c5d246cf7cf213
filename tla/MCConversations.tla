--------------------------- MODULE MCConversations ---------------------------
(* Instances of Conversations for TLC: all conversations are of one channel *)
(* and sender.                                                              *)
EXTENDS Conversations, TLC

CONSTANTS pair

OnePair == [c \in Convs |-> pair]
Symmetry == Permutations(Callers)
=============================================================================
