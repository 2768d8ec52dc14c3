------------------------------- MODULE SaveTurns -------------------------------
(* Which dirty chunks the storage tick saves, and when (tick_persistence of    *)
(* extension/src/world/storage/tick.rs, dirty_snapshots_excluding).  A tick    *)
(* walks the resident chunks in the order of two hash maps, always from the    *)
(* start, and submits the first Budget dirty ones that are not in flight,      *)
(* until a worker's channel is full; then it asks for compactions, which go    *)
(* through the same channels.  Gameplay modifies chunks for ever, so a chunk   *)
(* is described by how it stands to the disk and not by a revision.  Chunks    *)
(* are numbered in the order of the maps; none is loaded or evicted, no save   *)
(* fails (Persistence), completions never fill their channel (AsyncStorage)    *)
(* and the regions are fewer than MAX_COMPACTION_CANDIDATES.                   *)
EXTENDS Integers, FiniteSets, SequencesExt

CONSTANTS Region,    \* the region of each resident chunk, in the order of the maps
          Route,     \* route_region_worker: the worker of a region
          Busy,      \* the chunks that gameplay may modify for ever
          Budget,    \* budget of one tick
          QueueCap   \* queue_capacity of a worker's command channel

VARIABLES
    state,                 \* how each chunk stands to the disk
    commands,              \* what is in each worker's channel
    receipts, compacted,   \* completions, by kind and in order
    compaction_queue, compaction_in_flight, compaction_blocked,
    tick, batch, room      \* the tick: its phase, snapshots and compactions left

compactions == <<compaction_queue, compaction_in_flight, compaction_blocked>>
vars == <<state, commands, receipts, compacted, compactions, tick, batch, room>>

Chunks  == DOMAIN Region
Regions == {Region[c] : c \in Chunks}
Workers == {Route[r] : r \in Regions}
Least(m, n) == IF m < n THEN m ELSE n
First(n, s) == SubSeq(s, 1, Least(n, Len(s)))
Rest(n, s)  == SubSeq(s, Least(n, Len(s)) + 1, Len(s))

Init ==
    /\ state = [c \in Chunks |-> "clean"]
    /\ commands = [w \in Workers |-> <<>>] /\ receipts = <<>> /\ compacted = <<>>
    /\ compaction_queue = <<>> /\ compaction_in_flight = {} /\ compaction_blocked = {}
    /\ tick = "idle" /\ batch = <<>> /\ room = 0

--------------------------------------------------------------------------------
(* Gameplay between two ticks: what is being saved is out of date at once. *)
Mutate(c) ==
    /\ tick = "idle" /\ state[c] \in {"clean", "saving"}
    /\ state' = [state EXCEPT ![c] = IF @ = "clean" THEN "dirty" ELSE "stale"]
    /\ UNCHANGED <<commands, receipts, compacted, compactions, tick, batch, room>>

(* The first dirty chunks of the maps that are not in flight. *)
dirty_snapshots_excluding(s, limit) ==
    First(limit, SelectSeq([c \in Chunks |-> c], LAMBDA c : s[c] = "dirty"))

(* Mutant: a receipt for an older revision leaves the chunk in flight. *)
keep_outdated_in_flight(s, saved) ==
    [c \in Chunks |-> IF c \in saved /\ s[c] = "saving" THEN "clean" ELSE s[c]]

(* in_flight_saves.remove and mark_saved_if_revision: a chunk modified since its *)
(* snapshot stays dirty.                                                         *)
apply_save_completion(s, saved) ==
    [c \in Chunks |-> IF c \notin saved THEN s[c] ELSE IF s[c] = "saving" THEN "clean" ELSE "dirty"]

(* apply_compaction_completion, then apply_save_completion, for at most Budget *)
(* of each; a region whose stats match the policy joins the queue, in the      *)
(* order of the receipts or any other.  Then the snapshots of the tick are     *)
(* taken.                                                                      *)
Poll ==
    /\ tick = "idle"
    /\ LET ended == First(Budget, compacted)
           saved == ToSet(First(Budget, receipts))
           unlocked == compaction_in_flight \ {e.region : e \in ToSet(ended)}
           blocked  == compaction_blocked \cup {e.region : e \in {f \in ToSet(ended) : ~f.ok}}
           eligible == {Region[c] : c \in saved} \ (blocked \cup unlocked \cup ToSet(compaction_queue))
       IN  /\ compacted' = Rest(Budget, compacted) /\ receipts' = Rest(Budget, receipts)
           /\ compaction_in_flight' = unlocked /\ compaction_blocked' = blocked
           /\ \E due \in SetToAllKPermutations(eligible) : compaction_queue' = compaction_queue \o due
           /\ state' = apply_save_completion(state, saved)
    /\ batch' = dirty_snapshots_excluding(state', Budget)
    /\ tick' = "saves"
    /\ UNCHANGED <<commands, room>>

Room(r) == Len(commands[Route[r]]) < QueueCap
Send(r, command) == commands' = [commands EXCEPT ![Route[r]] = Append(@, command)]

(* try_save, one snapshot after the other; a full channel ends the loop. *)
try_save ==
    /\ tick = "saves" /\ batch # <<>>
    /\ LET c == Head(batch) IN
       IF Room(Region[c])
       THEN /\ Send(Region[c], [kind |-> "save", chunk |-> c])
            /\ state' = [state EXCEPT ![c] = "saving"]
            /\ batch' = Tail(batch)
       ELSE batch' = <<>> /\ UNCHANGED <<commands, state>>
    /\ UNCHANGED <<receipts, compacted, compactions, tick, room>>

SavesScheduled ==
    /\ tick = "saves" /\ batch = <<>>
    /\ tick' = "compactions" /\ room' = Budget
    /\ UNCHANGED <<state, commands, receipts, compacted, compactions, batch>>

(* try_compact of the region that waits longest.  A blocked region, or one     *)
(* that is no longer worth it, is dropped; a full channel ends the loop and    *)
(* the region keeps its place.                                                 *)
try_compact ==
    /\ tick = "compactions" /\ room > 0 /\ compaction_queue # <<>>
    /\ LET r == Head(compaction_queue) IN
       \/ /\ compaction_queue' = Tail(compaction_queue)
          /\ UNCHANGED <<commands, compaction_in_flight, tick, room>>
       \/ /\ r \notin compaction_blocked \cup compaction_in_flight /\ Room(r)
          /\ Send(r, [kind |-> "compact", region |-> r])
          /\ compaction_in_flight' = compaction_in_flight \cup {r}
          /\ compaction_queue' = Tail(compaction_queue) /\ room' = room - 1
          /\ UNCHANGED tick
       \/ /\ r \notin compaction_blocked \cup compaction_in_flight /\ ~Room(r)
          /\ tick' = "idle" /\ room' = 0
          /\ UNCHANGED <<commands, compaction_queue, compaction_in_flight>>
    /\ UNCHANGED <<state, receipts, compacted, compaction_blocked, batch>>

EndTick ==
    /\ tick = "compactions" /\ (room = 0 \/ compaction_queue = <<>>)
    /\ tick' = "idle" /\ room' = 0
    /\ UNCHANGED <<state, commands, receipts, compacted, compactions, batch>>

Tick == Poll \/ try_save \/ SavesScheduled \/ try_compact \/ EndTick

(* save_worker_main: one command after the other; a compaction may fail. *)
Work(w) ==
    /\ commands[w] # <<>>
    /\ commands' = [commands EXCEPT ![w] = Tail(@)]
    /\ LET m == Head(commands[w]) IN
       IF m.kind = "save" THEN receipts' = Append(receipts, m.chunk) /\ UNCHANGED compacted
       ELSE /\ \E ok \in BOOLEAN : compacted' = Append(compacted, [region |-> m.region, ok |-> ok])
            /\ UNCHANGED receipts
    /\ UNCHANGED <<state, compactions, tick, batch, room>>

Next == \/ \E c \in Chunks : Mutate(c)
        \/ Tick
        \/ \E w \in Workers : Work(w)

Fairness == WF_vars(Tick) /\ \A w \in Workers : WF_vars(Work(w))
Spec == Init /\ [][Next]_vars /\ Fairness

--------------------------------------------------------------------------------
(* Nothing rotates the order in which chunks are saved, so it is the number of *)
(* chunks that keep changing which decides whether a chunk has its turn.       *)
Few(c) == Cardinality(Busy \ {c}) < Least(Budget, QueueCap)
OnlyBusyChange == <>[][\A c \in Chunks \ Busy : ~Mutate(c)]_vars

(* A modified chunk has its turn as long as the other chunks that gameplay     *)
(* never leaves alone are fewer than a tick submits and than a channel holds:  *)
(* neither the backlog of an earlier burst, nor a full channel that ends the   *)
(* loop early, nor a receipt for an older revision, nor compactions keep it    *)
(* back for ever.  A chunk left alone ends up clean, one that is modified on   *)
(* and on has a save of its current content under way again and again.         *)
SavedInTurn ==
    OnlyBusyChange => \A c \in Chunks : (Few(c) /\ state[c] \in {"dirty", "stale"})
                                          ~> (state[c] = IF c \in Busy THEN "saving" ELSE "clean")
================================================================================
