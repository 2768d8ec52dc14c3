----------------------------- MODULE MCRegionFile -----------------------------
(* Two chunks of one region with two contents each: a save of one chunk must *)
(* not disturb the other, and a second save of the same chunk leaves a dead   *)
(* record for compaction.  Inode 3 is free while a reader holds a replaced    *)
(* file and the path names another.                                           *)
EXTENDS RegionFile, TLC

CONSTANTS c1, c2, v1, v2, l1

Inodes == 1 .. 4
Contents2 == {v1, v2}
Chunks2 == {c1, c2}
Swap == Permutations(Contents2)

(* Either the machine may go down, or syncs of directory entries may fail. *)
PowerOrEntry == {{"write", "sync", "crash"}, {"entry"}}
NoFaults == {{}}

(* Bound: on a machine that may go down, no load worker and three generations. *)
Explored ==
    "crash" \in faults =>
        /\ \A l \in Loader : load[l].pc = "idle"
        /\ handle # None /\ wpc # "idle" => handle.gen < 3
=============================================================================
