----------------------------- MODULE RegionStore -----------------------------
(***************************************************************************)
(* What one region file promises its single writer, the save worker that   *)
(* owns the region, and the load workers that read it meanwhile.  A save   *)
(* becomes readable, then durable, as a whole.  A crash keeps what was     *)
(* durable, or one of the saves attempted since, never a mixture.          *)
(* Compaction changes nothing but what readers see of a failed save.       *)
(***************************************************************************)
CONSTANTS Chunk, Value, None

VARIABLES
    visible,      \* the value a reader of the region file finds for a chunk
    durable,      \* the value the writer has been told is on stable storage
    tried         \* contents published since, and never acknowledged

vars == <<visible, durable, tried>>

Init == visible = [c \in Chunk |-> None] /\ durable = visible /\ tried = {}

(* A save extends the last durable state with its own record. *)
Publish(c, v) ==
    /\ visible' = [durable EXCEPT ![c] = v]
    /\ tried' = tried \cup {visible'}
    /\ UNCHANGED durable

Commit == visible \in tried /\ durable' = visible /\ tried' = {} /\ UNCHANGED visible

(* A published record that never became durable disappears again when the
   next save, or a compaction, replaces the page that named it. *)
Revert == visible' = durable /\ UNCHANGED <<durable, tried>>

Crash == visible' \in {durable} \cup tried /\ durable' = visible' /\ tried' = {}

Next == Commit \/ Revert \/ Crash \/ \E c \in Chunk, v \in Value : Publish(c, v)

Spec == Init /\ [][Next]_vars
=============================================================================
