---------------------------- MODULE MCPersistence ----------------------------
(* A small world for Persistence. *)
EXTENDS Persistence, TLC

CONSTANTS c1, c2

(* Each chunk needs the other to be generated. *)
Pair == {c1, c2}
PairNbr == [c \in Pair |-> Pair]
=============================================================================
