----------------------------- MODULE MCWorldSync -----------------------------
(* A small world for WorldSync. *)
EXTENDS WorldSync, TLC

CONSTANTS v1, v2

(* One block, two blocks (too many for point changes), light. *)
SomePatches == {{1}, {2}, {1, 2}, {Planes}}
MovingViews == {{1}, {1, 2}}
Symmetry    == Permutations(Viewers)

(* Bound: a single session moves over two chunks and the generator may write *)
(* anywhere before the last stamp; two sessions see one chunk, of which the    *)
(* generator rewrites one block, and then only while both queues have room.    *)
Explored ==
    \/ Cardinality(Viewing) < 2 /\ (generated = {} \/ stamp < MaxStamp)
    \/ /\ view \in [Viewers -> {{}, {1}}] /\ content[2] = [k \in Cells |-> 0]
       /\ \A k \in Cells : content[1][k] \in generated => k = 1
       /\ generated # {} => \A v \in Viewers : Len(queue[v]) < QueueCap
=============================================================================
