------------------------------ MODULE WorldSync ------------------------------
(***************************************************************************)
(* How clients follow the world: the bounded change journal of WorldStore, *)
(* the views that sessions hold with their journal cursors, the bounded    *)
(* command queue of every session, and the flush that the owner runs once  *)
(* per tick.                                                               *)
(*                                                                         *)
(* The owner thread patches chunks, commits views and flushes.  The        *)
(* session host sends queued commands, and ends sessions, between any two  *)
(* steps of a flush.  Delivery is reliable and ordered, so a queued        *)
(* command is represented by what the client shows once it has processed   *)
(* that command.  Block states and the other planes of a chunk (light,     *)
(* biomes, extra data) are stamps: every write uses a new one.             *)
(***************************************************************************)
EXTENDS Naturals, Sequences, FiniteSets

CONSTANTS
    Chunks,       \* chunk positions, numbers for the order of packets
    Blocks,       \* block indices of a chunk, positive numbers
    Viewers,      \* sessions
    Views,        \* the sets of chunks a view may cover
    Capacity,     \* WORLD_CHANGE_LOG_CAPACITY
    PointMax,     \* MAX_POINT_BLOCK_CHANGES
    BatchMax,     \* MAX_SYNC_BATCH_PACKETS
    QueueCap,     \* SESSION_COMMAND_CAPACITY
    Patches,      \* the sets of cells gameplay patches at once
    Generator,    \* "flat" or "infinite"
    MaxStamp,     \* bound: writes to the world
    Unknown       \* a chunk the client never received

Planes == 0                     \* everything of a chunk that is not a block state
Cells  == Blocks \cup {Planes}
Image  == [Cells -> 0..MaxStamp]

ASSUME WorldSyncAssumption ==
    /\ Chunks \subseteq Nat /\ Blocks \subseteq Nat \ {0} /\ IsFiniteSet(Blocks)
    /\ Views \subseteq (SUBSET Chunks) \ {{}}
    /\ Patches \subseteq (SUBSET Cells) \ {{}}
    /\ Capacity \in Nat \ {0} /\ PointMax \in Nat \ {0} /\ BatchMax \in Nat \ {0}
    /\ QueueCap \in Nat \ {0} /\ MaxStamp \in Nat
    /\ Generator \in {"flat", "infinite"} /\ Unknown \notin Image

VARIABLES
    content,      \* the chunks of the WorldStore
    stamp,        \* last stamp used
    generated,    \* history: the stamps the generator wrote past the journal
    next_sequence, oldest, changes,   \* WorldChangeLog: changes[oldest .. next_sequence - 1]
    view, cursor, \* WorldView of a session, {} when it has none
    queue,        \* commands accepted for a session and not yet sent
    client,       \* what the client shows
    pc, todo, current, rest, updates  \* the owner inside flush_world_changes

worldVars == <<content, stamp, generated, next_sequence, oldest, changes>>
flushVars == <<pc, todo, current, rest, updates>>
vars == <<worldVars, view, cursor, queue, client, flushVars>>

latest  == next_sequence - 1    \* current_change_sequence
Viewing == {v \in Viewers : view[v] # {}}

Init ==
    /\ content = [c \in Chunks |-> [k \in Cells |-> 0]] /\ stamp = 0 /\ generated = {}
    /\ next_sequence = 1 /\ oldest = 1 /\ changes = <<>>
    /\ view = [v \in Viewers |-> {}] /\ cursor = [v \in Viewers |-> 0]
    /\ queue = [v \in Viewers |-> <<>>]
    /\ client = [v \in Viewers |-> [c \in Chunks |-> Unknown]]
    /\ pc = "idle" /\ todo = {} /\ rest = {} /\ updates = {} /\ current \in Viewers

-----------------------------------------------------------------------------
(* The journal. *)

(* The sequence of the first entry kept once one more is recorded. *)
OldestAfterRecord ==
    IF next_sequence - oldest = Capacity THEN oldest + 1 ELSE oldest

(* record_change *)
RecordChange(change) ==
    /\ next_sequence' = next_sequence + 1
    /\ oldest' = OldestAfterRecord
    /\ changes' = [q \in oldest'..next_sequence |->
                     IF q = next_sequence THEN change ELSE changes[q]]

(* prune_changes_through *)
PruneChangesThrough(sequence) ==
    /\ oldest' = IF sequence < oldest THEN oldest
                 ELSE IF sequence < latest THEN sequence + 1 ELSE next_sequence
    /\ changes' = [q \in oldest'..latest |-> changes[q]]

StaleOffByOne(v) == cursor[v] + 2 < oldest
CursorIsStale(v) == cursor[v] + 1 < oldest

(* The kind of journal entry a patch of these cells leaves. *)
ChangeKind(cells) ==
    IF Planes \notin cells /\ Cardinality(cells) <= PointMax THEN "Blocks" ELSE "FullChunk"

(* apply_patch, when its revisions are current: one atomic write to a chunk, *)
(* then one journal entry.                                                   *)
ApplyPatch(c, cells) ==
    /\ pc = "idle" /\ stamp < MaxStamp
    /\ stamp' = stamp + 1
    /\ content' = [content EXCEPT ![c] = [k \in Cells |-> IF k \in cells THEN stamp' ELSE @[k]]]
    /\ RecordChange([position |-> c, kind |-> ChangeKind(cells), cells |-> cells, state |-> stamp'])
    /\ UNCHANGED <<generated, view, cursor, queue, client, flushVars>>

(* install_generated_chunk: post-processing a chunk of an infinite world     *)
(* also rewrites blocks of its neighbors, which clients may be viewing.      *)
PostProcess(c, k) ==
    /\ Generator = "infinite" /\ pc = "idle" /\ stamp < MaxStamp
    /\ stamp' = stamp + 1
    /\ content' = [content EXCEPT ![c][k] = stamp']
    /\ generated' = generated \cup {stamp'}
    /\ UNCHANGED <<next_sequence, oldest, changes, view, cursor, queue, client, flushVars>>

-----------------------------------------------------------------------------
(* Sessions. *)

(* What the client shows once everything queued has been processed. *)
Received(v) == IF queue[v] = <<>> THEN client[v] ELSE queue[v][Len(queue[v])]

HasRoom(v) == Len(queue[v]) < QueueCap

(* The FullChunkData packets of these chunks, from their latest snapshot. *)
WithChunks(image, area) == [c \in Chunks |-> IF c \in area THEN content[c] ELSE image[c]]

JoinCursor == latest

(* The initial view is queued and committed: its cursor starts at the        *)
(* current sequence.                                                         *)
CommitInitial(v, area) ==
    /\ pc = "idle" /\ view[v] = {} /\ HasRoom(v)
    /\ queue' = [queue EXCEPT ![v] = Append(@, WithChunks(Received(v), area))]
    /\ view' = [view EXCEPT ![v] = area]
    /\ cursor' = [cursor EXCEPT ![v] = JoinCursor]
    /\ UNCHANGED <<worldVars, client, flushVars>>

(* A view transition sends the chunks that enter; the cursor stays.          *)
Entering(v, area) == area \ view[v]

CommitTransition(v, area) ==
    /\ pc = "idle" /\ view[v] # {} /\ area # view[v] /\ HasRoom(v)
    /\ queue' = [queue EXCEPT ![v] = Append(@, WithChunks(Received(v), Entering(v, area)))]
    /\ view' = [view EXCEPT ![v] = area]
    /\ UNCHANGED <<worldVars, cursor, client, flushVars>>

(* The session task sends the next queued command. *)
SendCommand(v) ==
    /\ queue[v] # <<>>
    /\ client' = [client EXCEPT ![v] = Head(queue[v])]
    /\ queue' = [queue EXCEPT ![v] = Tail(@)]
    /\ UNCHANGED <<worldVars, view, cursor, flushVars>>

(* The session ends; a later session of this viewer starts from nothing.     *)
EndSession(v) ==
    /\ view[v] # {}
    /\ view' = [view EXCEPT ![v] = {}] /\ cursor' = [cursor EXCEPT ![v] = 0]
    /\ queue' = [queue EXCEPT ![v] = <<>>]
    /\ client' = [client EXCEPT ![v] = [c \in Chunks |-> Unknown]]
    /\ UNCHANGED <<worldVars, flushVars>>

-----------------------------------------------------------------------------
(* cobblestone_session_flush_world_changes *)

(* The entries of chunk c that viewer v has not been sent. *)
Unsent(v, c) == {q \in DOMAIN changes : q > cursor[v] /\ changes[q].position = c}
Touched(v, c) == UNION {changes[q].cells : q \in Unsent(v, c)}

(* The state merge_change keeps for a block: that of the last entry.         *)
FirstState(v, c, k) ==
    LET qs == {q \in Unsent(v, c) : k \in changes[q].cells}
    IN  changes[CHOOSE q \in qs : \A r \in qs : q <= r].state
MergedState(v, c, k) ==
    LET qs == {q \in Unsent(v, c) : k \in changes[q].cells}
    IN  changes[CHOOSE q \in qs : \A r \in qs : q >= r].state

(* The chunks that pending_view_changes sends in full. *)
FullChunks(v) ==
    IF CursorIsStale(v) THEN view[v]
    ELSE {c \in view[v] : \/ \E q \in Unsent(v, c) : changes[q].kind = "FullChunk"
                          \/ Cardinality(Touched(v, c)) > PointMax}

(* The packets of one flush for v: whole chunks and single blocks. *)
Packets(v) ==
    {<<c, Planes>> : c \in FullChunks(v)}
      \cup IF CursorIsStale(v) THEN {}
           ELSE UNION {{<<c, k>> : k \in Touched(v, c)} : c \in view[v] \ FullChunks(v)}

Before(p, q) == p[1] < q[1] \/ (p[1] = q[1] /\ p[2] < q[2])

(* packets.chunks(MAX_SYNC_BATCH_PACKETS) *)
NextBatch == {p \in rest : Cardinality({q \in rest : Before(q, p)}) < BatchMax}

WithBatch(image, v, batch) ==
    [c \in Chunks |->
        IF <<c, Planes>> \in batch THEN content[c]
        ELSE IF image[c] = Unknown THEN Unknown
        ELSE [k \in Cells |-> IF <<c, k>> \in batch THEN MergedState(v, c, k) ELSE image[c][k]]]

FlushBegin ==
    /\ pc = "idle"
    /\ \/ /\ Viewing = {}
          /\ PruneChangesThrough(latest)
          /\ UNCHANGED <<pc, todo, updates>>
       \/ /\ \E v \in Viewing : cursor[v] # latest
          /\ pc' = "views" /\ todo' = {v \in Viewing : cursor[v] # latest} /\ updates' = {}
          /\ UNCHANGED <<oldest, changes>>
    /\ UNCHANGED <<content, stamp, generated, next_sequence, view, cursor, queue, client, current, rest>>

(* One view: its packets are encoded.  A session that ended meanwhile would  *)
(* be found Gone by the first try_queue.                                     *)
FlushView(v) ==
    /\ pc = "views" /\ v \in todo
    /\ todo' = todo \ {v}
    /\ IF view[v] = {} \/ Packets(v) = {}
       THEN /\ updates' = updates \cup {v}
            /\ UNCHANGED <<pc, current, rest>>
       ELSE /\ pc' = "send" /\ current' = v /\ rest' = Packets(v)
            /\ UNCHANGED updates
    /\ UNCHANGED <<worldVars, view, cursor, queue, client>>

(* A view whose batches were not all accepted keeps its cursor. *)
AcceptedAnyway == updates \cup {current}
AfterRefusal == updates

(* One try_queue. *)
FlushSend ==
    /\ pc = "send"
    /\ IF view[current] # {} /\ HasRoom(current)
       THEN /\ queue' = [queue EXCEPT ![current] =
                            Append(@, WithBatch(Received(current), current, NextBatch))]
            /\ rest' = rest \ NextBatch
            /\ pc' = IF rest' = {} THEN "views" ELSE "send"
            /\ updates' = IF rest' = {} THEN updates \cup {current} ELSE updates
       ELSE /\ rest' = {} /\ pc' = "views" /\ updates' = AfterRefusal
            /\ UNCHANGED queue
    /\ UNCHANGED <<worldVars, view, cursor, client, todo, current>>

PruneLatest(cursors) == latest
PruneThrough(cursors) ==
    IF cursors = {} THEN latest ELSE CHOOSE q \in cursors : \A r \in cursors : q <= r

FlushEnd ==
    /\ pc = "views" /\ todo = {}
    /\ pc' = "idle" /\ updates' = {}
    /\ cursor' = [v \in Viewers |-> IF v \in updates /\ view[v] # {} THEN latest ELSE cursor[v]]
    /\ PruneChangesThrough(PruneThrough({cursor'[v] : v \in Viewing}))
    /\ UNCHANGED <<content, stamp, generated, next_sequence, view, queue, client, todo, current, rest>>

-----------------------------------------------------------------------------
Moves ==
    \/ \E c \in Chunks, cells \in Patches : ApplyPatch(c, cells)
    \/ \E c \in Chunks, k \in Blocks : PostProcess(c, k)
    \/ \E v \in Viewers, area \in Views : CommitInitial(v, area) \/ CommitTransition(v, area)
    \/ \E v \in Viewers : EndSession(v)

Flush == FlushBegin \/ (\E v \in Viewers : FlushView(v)) \/ FlushSend \/ FlushEnd

Next == Moves \/ Flush \/ \E v \in Viewers : SendCommand(v)

Spec == Init /\ [][Next]_vars

(* The server ticks, and a live session sends what is queued for it. *)
FairSpec == Spec /\ WF_vars(Flush) /\ \A v \in Viewers : WF_vars(SendCommand(v))

-----------------------------------------------------------------------------
TypeOK ==
    /\ content \in [Chunks -> Image] /\ stamp \in 0..MaxStamp
    /\ generated \subseteq 1..MaxStamp
    /\ next_sequence \in 1..(MaxStamp + 1) /\ oldest \in 1..next_sequence
    /\ next_sequence - oldest <= Capacity
    /\ changes \in [oldest..latest ->
          [position : Chunks, kind : {"Blocks", "FullChunk"}, cells : SUBSET Cells, state : 1..MaxStamp]]
    /\ view \in [Viewers -> Views \cup {{}}] /\ cursor \in [Viewers -> 0..MaxStamp]
    /\ \A v \in Viewers :
          /\ Len(queue[v]) <= QueueCap
          /\ \A i \in DOMAIN queue[v] : queue[v][i] \in [Chunks -> Image \cup {Unknown}]
          /\ client[v] \in [Chunks -> Image \cup {Unknown}]
    /\ pc \in {"idle", "views", "send"} /\ todo \subseteq Viewers /\ current \in Viewers
    /\ rest \subseteq Chunks \X Cells /\ updates \subseteq Viewers

(* Where a session's client, after its queue, differs from the world inside  *)
(* its view, the journal still has an entry past its cursor that says so, or *)
(* the cursor is stale and the next flush resends the view, or the generator *)
(* wrote there last.  A flush under way does not matter: entries leave the   *)
(* journal only when it ends.  Only a journal that overflowed makes a cursor *)
(* stale: pruning never drops an entry that a remaining viewer still needs.  *)
(* (The state has its types throughout.)                                     *)
NothingForgotten ==
    /\ TypeOK
    /\ \A v \in Viewing : \A c \in view[v] :
          /\ Received(v)[c] # Unknown
          /\ ~CursorIsStale(v) =>
               \A k \in Cells :
                  Received(v)[c][k] # content[c][k] =>
                      \/ content[c][k] \in generated
                      \/ k \in Touched(v, c)
                      \/ \E q \in Unsent(v, c) : changes[q].kind = "FullChunk"
    /\ \A v \in Viewing : CursorIsStale(v) => next_sequence - oldest = Capacity

(* The client shows chunk c as it is, but for blocks the generator wrote last. *)
Shows(image, c) ==
    \A k \in Cells : image[c][k] = content[c][k] \/ content[c][k] \in generated

(* Neither resending after backpressure nor replaying entries older than a   *)
(* chunk that just entered the view shows a client an older state of a block *)
(* than the one it shows, unless the generator wrote that one: its write is  *)
(* not in the journal, and an entry from before it is replayed over it.      *)
ClientsNeverGoBack ==
    [][\A v \in Viewing : view'[v] # {} =>
         \A c \in view[v] \cap view'[v], k \in Cells :
            client[v][c] # Unknown =>
               /\ client'[v][c] # Unknown
               /\ client'[v][c][k] >= client[v][c][k] \/ client[v][c][k] \in generated]_vars

(* Once the world and the views stay as they are, every client ends up       *)
(* showing the world inside its view, whatever backpressure did before.      *)
InSync == \A v \in Viewing : \A c \in view[v] : client[v][c] # Unknown /\ Shows(client[v], c)
ClientsConverge == <>[][~Moves]_vars => <>[]InSync
=============================================================================
