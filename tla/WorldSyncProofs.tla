---------------------------- MODULE WorldSyncProofs ----------------------------
(* What clients are sent, for every world, set of sessions and views, and every *)
(* capacity: the inductive invariant of WorldSync, that sessions, writers and   *)
(* the flush keep it, and the two theorems.                                     *)
EXTENDS WorldSync, TLAPS

(* The journal entries that write cell k of chunk c. *)
Writes(c, k) == {q \in DOMAIN changes : changes[q].position = c /\ k \in changes[q].cells}

(* The last of them. *)
IsLast(q, c, k) == q \in Writes(c, k) /\ \A r \in Writes(c, k) : r <= q

Images == [Chunks -> Image \cup {Unknown}]

Types ==
    /\ content \in [Chunks -> Image] /\ stamp \in 0..MaxStamp
    /\ generated \subseteq 1..MaxStamp
    /\ next_sequence \in Nat /\ oldest \in Nat /\ oldest >= 1 /\ oldest <= next_sequence
    /\ next_sequence <= stamp + 1 /\ next_sequence - oldest <= Capacity
    /\ changes \in [oldest..latest ->
          [position : Chunks, kind : {"Blocks", "FullChunk"}, cells : SUBSET Cells, state : 1..MaxStamp]]
    /\ view \in [Viewers -> Views \cup {{}}] /\ cursor \in [Viewers -> 0..latest]
    /\ queue \in [Viewers -> Seq(Images)] /\ client \in [Viewers -> Images]
    /\ \A v \in Viewers : Len(queue[v]) <= QueueCap
    /\ pc \in {"idle", "views", "send"} /\ todo \subseteq Viewers /\ current \in Viewers
    /\ rest \subseteq Chunks \X Cells /\ updates \subseteq Viewers

(* The last entry of a cell has what is there now, but for the generator. *)
JournalSound ==
    \A c \in Chunks, k \in Cells :
       /\ content[c][k] <= stamp
       /\ \A q \in Writes(c, k) : changes[q].state <= content[c][k]
       /\ \A q \in Writes(c, k) :
             IsLast(q, c, k) => content[c][k] = changes[q].state \/ content[c][k] \in generated

(* What a client will show is not newer than the world, and not newer than   *)
(* the entry that may be replayed over it.                                   *)
BehindWorld(image) ==
    \A c \in Chunks : image[c] # Unknown =>
       \A k \in Cells :
          /\ image[c][k] <= content[c][k]
          /\ \A q \in Writes(c, k) :
                IsLast(q, c, k) => image[c][k] <= changes[q].state \/ image[c][k] \in generated

(* Image b may replace image a at a client. *)
Follows(a, b) ==
    \A c \in Chunks : a[c] # Unknown =>
       /\ b[c] # Unknown
       /\ \A k \in Cells : b[c][k] >= a[c][k] \/ a[c][k] \in generated

InOrder(v) ==
    \A i \in 1..Len(queue[v]) :
       Follows(IF i = 1 THEN client[v] ELSE queue[v][i - 1], queue[v][i])

(* Cell k of chunk c is as in the world, or the generator wrote it last. *)
Synced(image, c, k) == image[c][k] = content[c][k] \/ content[c][k] \in generated

(* NothingForgotten of one session. *)
Remembered(v) ==
    \A c \in view[v] :
       /\ Received(v)[c] # Unknown
       /\ ~CursorIsStale(v) => \A k \in Cells :
             \/ Synced(Received(v), c, k)
             \/ \E q \in Writes(c, k) : q > cursor[v]
             \/ \E q \in Unsent(v, c) : changes[q].kind = "FullChunk"

Overflowed == \A v \in Viewing : CursorIsStale(v) => next_sequence - oldest = Capacity

(* A session whose batches were all accepted is in sync once it has them. *)
UpdatesSynced ==
    /\ pc = "idle" => updates = {}
    /\ \A v \in updates : \A c \in view[v], k \in Cells : Synced(Received(v), c, k)

(* While a view is sent, what is not yet in sync is in the packets left. *)
RestCovers ==
    pc = "send" /\ view[current] # {} =>
       /\ \A p \in rest : /\ p[1] \in view[current]
                          /\ p[2] # Planes => \E q \in Writes(p[1], p[2]) : q > cursor[current]
       /\ \A c \in view[current], k \in Cells :
             Synced(Received(current), c, k) \/ <<c, k>> \in rest \/ <<c, Planes>> \in rest

IInv ==
    /\ Types /\ JournalSound
    /\ \A v \in Viewers : BehindWorld(Received(v)) /\ InOrder(v) /\ Remembered(v)
    /\ Overflowed /\ UpdatesSynced /\ RestCovers

-----------------------------------------------------------------------------
(* Operators of the model. *)

LEMMA ReceivedType ==
    ASSUME Types, NEW v \in Viewers
    PROVE  Received(v) \in Images
<1>1. queue[v] \in Seq(Images) /\ client[v] \in Images
  BY Zenon DEF Types
<1> QED  BY <1>1 DEF Received

LEMMA ViewIsOfChunks ==
    ASSUME Types, NEW v \in Viewers
    PROVE  view[v] \subseteq Chunks
<1>1. view[v] \in Views \cup {{}}
  BY Zenon DEF Types
<1> QED  BY Zenon, <1>1, WorldSyncAssumption

LEMMA TouchedIsWritten ==
    ASSUME NEW v, NEW c, NEW k
    PROVE  k \in Touched(v, c) <=> \E q \in Writes(c, k) : q > cursor[v]
BY Zenon DEF Touched, Unsent, Writes

(* What an entry of the journal or a cell of the world holds is a stamp. *)
LEMMA EntryStamp ==
    ASSUME Types, NEW d, NEW k, NEW q \in Writes(d, k)
    PROVE  changes[q].state \in Nat
<1>1. changes[q] \in [position : Chunks, kind : {"Blocks", "FullChunk"}, cells : SUBSET Cells, state : 1..MaxStamp]
  BY Zenon DEF Writes, Types
<1>2. changes[q].state \in 1..MaxStamp
  BY Zenon, <1>1
<1> QED  BY <1>2, WorldSyncAssumption

LEMMA CellStamp ==
    ASSUME Types, JournalSound, NEW d \in Chunks, NEW k \in Cells
    PROVE  content[d][k] \in Nat /\ content[d][k] <= stamp
<1>1. content[d][k] \in 0..MaxStamp
  BY DEF Types, Image
<1>2. content[d][k] <= stamp
  BY Zenon DEF JournalSound
<1> QED  BY <1>1, <1>2, WorldSyncAssumption

(* try_queue: the command is the last thing the session will be sent. *)
LEMMA Queued ==
    ASSUME Types, NEW v \in Viewers, NEW x \in Images, HasRoom(v),
           queue' = [queue EXCEPT ![v] = Append(@, x)], UNCHANGED client
    PROVE  /\ queue' \in [Viewers -> Seq(Images)]
           /\ \A u \in Viewers : Len(queue'[u]) <= QueueCap
           /\ Received(v)' = x
           /\ \A u \in Viewers \ {v} : queue'[u] = queue[u]
<1>1. queue \in [Viewers -> Seq(Images)]
  BY Zenon DEF Types
<1>2. queue'[v] = Append(queue[v], x) /\ Len(queue'[v]) = Len(queue[v]) + 1
  BY <1>1
<1>3. queue' \in [Viewers -> Seq(Images)]
  BY <1>1
<1>4. \A u \in Viewers \ {v} : queue'[u] = queue[u]
  BY Zenon, <1>1
<1>5. \A u \in Viewers : Len(queue'[u]) <= QueueCap
  <2>1. Len(queue[v]) \in Nat /\ QueueCap \in Nat
    BY <1>1, WorldSyncAssumption
  <2> QED  BY <1>2, <1>4, <2>1 DEF Types, HasRoom
<1>6. Received(v)' = x
  <2>1. queue'[v] # <<>> /\ queue'[v][Len(queue'[v])] = x
    BY <1>1, <1>2
  <2> QED  BY Zenon, <2>1 DEF Received
<1> QED  BY Zenon, <1>3, <1>4, <1>5, <1>6

LEMMA SameReceived ==
    ASSUME NEW u, queue'[u] = queue[u], client'[u] = client[u]
    PROVE  Received(u)' = Received(u)
BY Zenon DEF Received

(* The images of a queue stay in order when the one queued follows the last. *)
LEMMA QueuedInOrder ==
    ASSUME Types, NEW v \in Viewers, NEW x \in Images, InOrder(v), Follows(Received(v), x),
           queue' = [queue EXCEPT ![v] = Append(@, x)], UNCHANGED <<client, generated>>
    PROVE  InOrder(v)'
<1>1. queue[v] \in Seq(Images) /\ queue'[v] = Append(queue[v], x) /\ client'[v] = client[v]
  BY Zenon DEF Types
<1>2. Len(queue'[v]) = Len(queue[v]) + 1 /\ Len(queue[v]) \in Nat
  BY <1>1
<1> SUFFICES ASSUME NEW i \in 1..Len(queue'[v])
             PROVE  Follows(IF i = 1 THEN client[v] ELSE queue'[v][i - 1], queue'[v][i])
  BY <1>1 DEF InOrder, Follows
<1>3. CASE i <= Len(queue[v])
  <2>1. queue'[v][i] = queue[v][i] /\ (i # 1 => queue'[v][i - 1] = queue[v][i - 1])
    BY <1>1, <1>2, <1>3
  <2>2. i \in 1..Len(queue[v])
    BY <1>2, <1>3
  <2> QED  BY Zenon, <2>1, <2>2 DEF InOrder
<1>4. CASE i = Len(queue[v]) + 1
  <2>1. queue'[v][i] = x
    BY <1>1, <1>2, <1>4
  <2>2. CASE queue[v] = <<>>
    BY <1>1, <1>4, <2>1, <2>2 DEF Received
  <2>3. CASE queue[v] # <<>>
    <3>1. i # 1 /\ queue'[v][i - 1] = queue[v][Len(queue[v])]
      BY <1>1, <1>2, <1>4, <2>3
    <3> QED  BY Zenon, <2>1, <2>3, <3>1 DEF Received
  <2> QED  BY Zenon, <2>2, <2>3
<1> QED  BY <1>2, <1>3, <1>4

-----------------------------------------------------------------------------
(* Steps that leave the world and the cursors alone. *)

LEMMA SameWorld ==
    ASSUME JournalSound, UNCHANGED worldVars
    PROVE  /\ JournalSound'
           /\ \A c, k : Writes(c, k)' = Writes(c, k)
           /\ latest' = latest
<1> USE DEF worldVars
<1>1. \A c, k : Writes(c, k)' = Writes(c, k)
  BY Zenon DEF Writes
<1>2. latest' = latest
  BY Zenon DEF latest
<1>3. JournalSound'
  BY DEF JournalSound, IsLast, Writes
<1> QED  BY Zenon, <1>1, <1>2, <1>3

(* A session whose view, cursor and images stay has nothing to fear. *)
LEMMA SameSession ==
    ASSUME NEW u \in Viewers, BehindWorld(Received(u)), Remembered(u),
           UNCHANGED worldVars, view'[u] = view[u], cursor'[u] = cursor[u],
           Received(u)' = Received(u)
    PROVE  BehindWorld(Received(u))' /\ Remembered(u)'
<1> USE DEF worldVars
<1>1. BehindWorld(Received(u))'
  BY Zenon DEF BehindWorld, IsLast, Writes
<1>2. CursorIsStale(u)' = CursorIsStale(u)
  BY Zenon DEF CursorIsStale
<1>3. Remembered(u)'
  BY <1>2 DEF Remembered, Synced, Writes, Unsent
<1> QED  BY Zenon, <1>1, <1>3

(* The session task sends a command. *)
LEMMA SendCommandKeeps ==
    ASSUME IInv, NEW v \in Viewers, SendCommand(v)
    PROVE  IInv'
<1> USE DEF SendCommand
<1>1. /\ queue \in [Viewers -> Seq(Images)] /\ client \in [Viewers -> Images]
      /\ queue[v] \in Seq(Images) /\ queue[v] # <<>>
  BY Zenon DEF IInv, Types
<1>2. /\ client'[v] = queue[v][1] /\ queue'[v] = Tail(queue[v])
      /\ Len(queue'[v]) = Len(queue[v]) - 1 /\ Len(queue[v]) \in Nat \ {0}
      /\ \A i \in 1..Len(queue'[v]) : queue'[v][i] = queue[v][i + 1]
      /\ queue'[v] \in Seq(Images) /\ client'[v] \in Images
  BY <1>1
<1>3. \A u \in Viewers \ {v} : queue'[u] = queue[u] /\ client'[u] = client[u]
  BY Zenon, <1>1
<1>4. ASSUME NEW u \in Viewers PROVE Received(u)' = Received(u)
  <2>1. CASE u # v
    BY Zenon, <1>3, <2>1, SameReceived
  <2>2. CASE Len(queue[v]) = 1
    <3>1. queue'[v] = <<>>
      BY <1>1, <1>2, <2>2
    <3>2. Received(v)' = client'[v]
      BY Zenon, <3>1 DEF Received
    <3>3. Received(v) = queue[v][1]
      BY Zenon, <1>1, <2>2 DEF Received
    <3> QED  BY Zenon, <1>2, <2>1, <3>2, <3>3
  <2>3. CASE Len(queue[v]) # 1
    <3>1. queue'[v] # <<>> /\ queue'[v][Len(queue'[v])] = queue[v][Len(queue[v])]
      <4> DEFINE n == Len(queue[v])
                 m == Len(queue'[v])
      <4>0. n \in Nat \ {0} /\ n # 1 /\ m = n - 1
        BY Zenon, <1>2, <2>3
      <4>1. m \in 1..m /\ m + 1 = n
        <5> HIDE DEF n, m
        <5> QED  BY <4>0
      <4>2. queue'[v] # <<>>
        <5>1. queue'[v] = <<>> => m = 0
          BY Zenon
        <5>2. m # 0
          <6> HIDE DEF m
          <6> QED  BY <4>1
        <5> QED  BY Zenon, <5>1, <5>2
      <4> QED  BY Zenon, <1>2, <4>1, <4>2
    <3>2. Received(v)' = queue'[v][Len(queue'[v])]
      BY Zenon, <3>1 DEF Received
    <3>3. Received(v) = queue[v][Len(queue[v])]
      BY Zenon, <1>1 DEF Received
    <3> QED  BY Zenon, <2>1, <3>1, <3>2, <3>3
  <2> QED  BY Zenon, <2>1, <2>2, <2>3
<1>5. Types'
  <2>1. queue' \in [Viewers -> Seq(Images)] /\ client' \in [Viewers -> Images]
    BY Zenon, <1>1, <1>2
  <2>2. \A u \in Viewers : Len(queue'[u]) <= QueueCap
    BY <1>2, <1>3, WorldSyncAssumption DEF IInv, Types
  <2>3. Images' = Images
    BY Zenon DEF Images
  <2> QED  BY Zenon, <2>1, <2>2, <2>3 DEF IInv, Types, worldVars, flushVars, latest
<1>6. ASSUME NEW u \in Viewers PROVE InOrder(u)'
  <2>1. CASE u # v
    BY <1>3, <2>1 DEF IInv, InOrder, Follows, worldVars
  <2>2. CASE u = v
    <3> DEFINE before(i) == IF i = 1 THEN client'[v] ELSE queue'[v][i - 1]
    <3>1. ASSUME NEW i \in 1..Len(queue'[v])
          PROVE  Follows(before(i), queue'[v][i])
      <4>1. i + 1 \in 1..Len(queue[v]) /\ i + 1 # 1
        BY <1>2
      <4>2. Follows(queue[v][i + 1 - 1], queue[v][i + 1])
        BY <4>1 DEF IInv, InOrder
      <4>3. i + 1 - 1 = i /\ queue'[v][i] = queue[v][i + 1]
        BY <1>2
      <4>4. i # 1 => queue'[v][i - 1] = queue[v][i]
        BY <1>2
      <4> QED  BY Zenon, <1>2, <4>2, <4>3, <4>4
    <3>2. generated' = generated
      BY Zenon DEF worldVars
    <3>3. ASSUME NEW i \in 1..Len(queue'[v])
          PROVE  \A c \in Chunks : before(i)[c] # Unknown =>
                    /\ queue'[v][i][c] # Unknown
                    /\ \A k \in Cells : queue'[v][i][c][k] >= before(i)[c][k] \/ before(i)[c][k] \in generated'
      BY Zenon, <3>1, <3>2 DEF Follows
    <3>4. InOrder(v)'
      BY <3>3 DEF InOrder, Follows
    <3> QED  BY Zenon, <2>2, <3>4
  <2> QED  BY Zenon, <2>1, <2>2
<1>7. ASSUME NEW u \in Viewers PROVE BehindWorld(Received(u))' /\ Remembered(u)'
  BY Zenon, <1>4, SameSession DEF IInv
<1>8. JournalSound' /\ Overflowed'
  BY Zenon, SameWorld DEF IInv, Overflowed, Viewing, CursorIsStale, worldVars
<1>9. UpdatesSynced'
  <2> SUFFICES ASSUME NEW u \in updates, NEW c \in view[u], NEW k \in Cells
               PROVE  Synced(Received(u), c, k)'
    BY Zenon DEF UpdatesSynced, IInv, flushVars
  <2>1. u \in Viewers
    BY Zenon DEF IInv, Types
  <2>2. Synced(Received(u), c, k)
    BY Zenon DEF IInv, UpdatesSynced
  <2> QED  BY Zenon, <1>4, <2>1, <2>2 DEF Synced, worldVars
<1>10. RestCovers'
  <2>1. Received(current)' = Received(current) /\ current' = current
    BY Zenon, <1>4 DEF IInv, Types, flushVars
  <2>2. \A c, k : Writes(c, k)' = Writes(c, k)
    BY Zenon, SameWorld DEF IInv
  <2> QED  BY Zenon, <2>1, <2>2 DEF IInv, RestCovers, Synced, worldVars, flushVars
<1> QED  BY Zenon, <1>5, <1>6, <1>7, <1>8, <1>9, <1>10 DEF IInv

(* A session ends. *)
LEMMA EndSessionKeeps ==
    ASSUME IInv, NEW v \in Viewers, EndSession(v)
    PROVE  IInv'
<1> USE DEF EndSession
<1>1. /\ queue \in [Viewers -> Seq(Images)] /\ client \in [Viewers -> Images]
      /\ view \in [Viewers -> Views \cup {{}}] /\ cursor \in [Viewers -> 0..latest]
      /\ next_sequence \in Nat /\ next_sequence >= 1
  BY DEF IInv, Types
<1>2. /\ queue'[v] = <<>> /\ client'[v] = [c \in Chunks |-> Unknown]
      /\ view'[v] = {} /\ cursor'[v] = 0
  BY Zenon, <1>1
<1>3. \A u \in Viewers \ {v} : /\ queue'[u] = queue[u] /\ client'[u] = client[u]
                               /\ view'[u] = view[u] /\ cursor'[u] = cursor[u]
  BY Zenon, <1>1
<1>4. Received(v)' = [c \in Chunks |-> Unknown]
  BY Zenon, <1>2 DEF Received
<1>5. ASSUME NEW u \in Viewers \ {v} PROVE Received(u)' = Received(u)
  BY Zenon, <1>3, SameReceived
<1>6. Types'
  <2>1. queue' \in [Viewers -> Seq(Images)] /\ client' \in [Viewers -> Images]
    BY <1>1 DEF Images
  <2>2. \A u \in Viewers : Len(queue'[u]) <= QueueCap
    BY <1>2, <1>3, WorldSyncAssumption DEF IInv, Types
  <2>3. view' \in [Viewers -> Views \cup {{}}] /\ cursor' \in [Viewers -> 0..latest]
    BY <1>1 DEF latest
  <2>4. Images' = Images
    BY Zenon DEF Images
  <2> QED  BY Zenon, <2>1, <2>2, <2>3, <2>4 DEF IInv, Types, worldVars, flushVars, latest
<1>7. ASSUME NEW u \in Viewers PROVE InOrder(u)' /\ BehindWorld(Received(u))' /\ Remembered(u)'
  <2>1. CASE u = v
    BY <1>2, <1>4, <2>1 DEF InOrder, BehindWorld, Remembered
  <2>2. CASE u # v
    <3>1. InOrder(u)'
      BY <1>3, <2>2 DEF IInv, InOrder, Follows, worldVars
    <3> QED  BY Zenon, <1>3, <1>5, <2>2, <3>1, SameSession DEF IInv
  <2> QED  BY Zenon, <2>1, <2>2
<1>8. JournalSound'
  BY Zenon, SameWorld DEF IInv
<1>9. Overflowed'
  BY <1>2, <1>3 DEF IInv, Overflowed, Viewing, CursorIsStale, worldVars
<1>10. UpdatesSynced'
  <2> SUFFICES ASSUME NEW u \in updates, NEW c \in view'[u], NEW k \in Cells
               PROVE  Synced(Received(u), c, k)'
    BY Zenon DEF UpdatesSynced, IInv, flushVars
  <2>1. u \in Viewers \ {v}
    BY Zenon, <1>2 DEF IInv, Types
  <2>2. Synced(Received(u), c, k)
    BY Zenon, <1>3, <2>1 DEF IInv, UpdatesSynced
  <2> QED  BY Zenon, <1>5, <2>1, <2>2 DEF Synced, worldVars
<1>11. RestCovers'
  <2>1. current' = current /\ current \in Viewers
    BY Zenon DEF IInv, Types, flushVars
  <2>2. CASE current = v
    BY Zenon, <1>2, <2>1, <2>2 DEF RestCovers
  <2>3. CASE current # v
    <3>1. Received(current)' = Received(current)
      BY Zenon, <1>5, <2>1, <2>3
    <3>2. \A c, k : Writes(c, k)' = Writes(c, k)
      BY Zenon, SameWorld DEF IInv
    <3> QED  BY <1>3, <2>1, <2>3, <3>1, <3>2 DEF IInv, RestCovers, Synced, worldVars, flushVars
  <2> QED  BY Zenon, <2>2, <2>3
<1> QED  BY Zenon, <1>6, <1>7, <1>8, <1>9, <1>10, <1>11 DEF IInv

(* The chunks of an area are sent as they are, and are then what the client  *)
(* shows of that area.                                                       *)
LEMMA ChunksFollow ==
    ASSUME Types, JournalSound, NEW v \in Viewers, BehindWorld(Received(v)), NEW area \in SUBSET Chunks
    PROVE  /\ WithChunks(Received(v), area) \in Images
           /\ Follows(Received(v), WithChunks(Received(v), area))
           /\ BehindWorld(WithChunks(Received(v), area))
<1> DEFINE x == WithChunks(Received(v), area)
<1>1. Received(v) \in [Chunks -> Image \cup {Unknown}] /\ content \in [Chunks -> Image]
  BY Zenon, ReceivedType DEF Images, Types
<1>2. \A c \in Chunks : x[c] = IF c \in area THEN content[c] ELSE Received(v)[c]
  BY Zenon DEF WithChunks
<1>3. x \in Images
  BY Zenon, <1>1 DEF WithChunks, Images
<1>4. Unknown \notin Image
  BY Zenon, WorldSyncAssumption
<1>5. ASSUME NEW c \in Chunks, NEW k \in Cells
      PROVE  content[c][k] \in Nat /\ (Received(v)[c] # Unknown => Received(v)[c][k] \in Nat)
  BY <1>1 DEF Image
<1> HIDE DEF x
<1>6. Follows(Received(v), x)
  BY <1>1, <1>2, <1>4, <1>5 DEF Follows, BehindWorld
<1>7. BehindWorld(x)
  <2> SUFFICES ASSUME NEW c \in Chunks, x[c] # Unknown, NEW k \in Cells
               PROVE  /\ x[c][k] <= content[c][k]
                      /\ \A q \in Writes(c, k) :
                            IsLast(q, c, k) => x[c][k] <= changes[q].state \/ x[c][k] \in generated
    BY Zenon DEF BehindWorld
  <2>1. CASE c \in area
    <3>1. x[c] = content[c] /\ content[c][k] \in Nat
      BY Zenon, <1>2, <1>5, <2>1
    <3> QED  BY <3>1 DEF JournalSound
  <2>2. CASE c \notin area
    BY Zenon, <1>2, <2>2 DEF BehindWorld
  <2> QED  BY Zenon, <2>1, <2>2
<1> QED  BY Zenon, <1>3, <1>6, <1>7 DEF x

(* A view is committed, with the chunks it adds queued before it. *)
LEMMA CommitKeeps ==
    ASSUME IInv, NEW v \in Viewers, NEW area \in Views, NEW sent \in SUBSET Chunks,
           pc = "idle", HasRoom(v), area \subseteq sent \cup view[v],
           queue' = [queue EXCEPT ![v] = Append(@, WithChunks(Received(v), sent))],
           view' = [view EXCEPT ![v] = area],
           (cursor' = cursor /\ view[v] # {}) \/ (cursor' = [cursor EXCEPT ![v] = latest] /\ view[v] = {}),
           UNCHANGED <<worldVars, client, flushVars>>
    PROVE  IInv'
<1> DEFINE x == WithChunks(Received(v), sent)
<1>1. x \in Images /\ Follows(Received(v), x) /\ BehindWorld(x)
  BY Zenon, ChunksFollow DEF IInv
<1>2. \A c \in Chunks : x[c] = IF c \in sent THEN content[c] ELSE Received(v)[c]
  BY Zenon DEF WithChunks
<1> HIDE DEF x
<1>3. queue' = [queue EXCEPT ![v] = Append(@, x)]
  BY Zenon DEF x
<1>4. /\ queue' \in [Viewers -> Seq(Images)]
      /\ \A u \in Viewers : Len(queue'[u]) <= QueueCap
      /\ Received(v)' = x
      /\ \A u \in Viewers \ {v} : queue'[u] = queue[u]
  BY Zenon, <1>1, <1>3, Queued DEF IInv
<1>5. /\ view \in [Viewers -> Views \cup {{}}] /\ cursor \in [Viewers -> 0..latest]
      /\ view' \in [Viewers -> Views \cup {{}}]
      /\ latest \in Nat /\ latest + 1 >= oldest /\ oldest \in Nat
  BY DEF IInv, Types, latest
<1>6. /\ view'[v] = area
      /\ \A u \in Viewers \ {v} : view'[u] = view[u] /\ cursor'[u] = cursor[u]
      /\ cursor' \in [Viewers -> 0..latest]
      /\ cursor'[v] = IF view[v] = {} THEN latest ELSE cursor[v]
  BY <1>5
<1>7. Types'
  <2>1. Images' = Images
    BY Zenon DEF Images
  <2> QED  BY Zenon, <1>4, <1>5, <1>6, <2>1 DEF IInv, Types, worldVars, flushVars, latest
<1>8. ASSUME NEW u \in Viewers \ {v}
      PROVE  Received(u)' = Received(u) /\ InOrder(u)' /\ BehindWorld(Received(u))' /\ Remembered(u)'
  <2>1. Received(u)' = Received(u)
    BY Zenon, <1>4, SameReceived
  <2>2. InOrder(u)'
    BY <1>4 DEF IInv, InOrder, Follows, worldVars
  <2> QED  BY Zenon, <1>6, <2>1, <2>2, SameSession DEF IInv
<1>9. InOrder(v)'
  BY Zenon, <1>1, <1>3, QueuedInOrder DEF IInv, worldVars
<1>10. BehindWorld(Received(v))'
  BY Zenon, <1>1, <1>4 DEF BehindWorld, IsLast, Writes, worldVars
<1>11. Remembered(v)'
  <2>1. CursorIsStale(v)' => view[v] # {} /\ CursorIsStale(v)
    BY <1>5, <1>6 DEF CursorIsStale, worldVars
  <2> SUFFICES ASSUME NEW c \in area
               PROVE  /\ x[c] # Unknown
                      /\ ~CursorIsStale(v)' => \A k \in Cells :
                            \/ Synced(x, c, k)
                            \/ \E q \in Writes(c, k) : q > cursor'[v]
                            \/ \E q \in Unsent(v, c)' : changes[q].kind = "FullChunk"
    BY Zenon, <1>4, <1>6 DEF Remembered, Synced, Writes, worldVars
  <2>2. c \in Chunks /\ content[c] # Unknown
    <3>1. c \in Chunks /\ Unknown \notin Image
      BY Zenon, WorldSyncAssumption
    <3>2. content \in [Chunks -> Image]
      BY Zenon DEF IInv, Types
    <3> QED  BY Zenon, <3>1, <3>2
  <2>3. CASE c \in sent
    BY Zenon, <1>2, <2>2, <2>3 DEF Synced
  <2>4. CASE c \notin sent
    <3>1. c \in view[v] /\ view[v] # {} /\ x[c] = Received(v)[c] /\ cursor'[v] = cursor[v]
      BY Zenon, <1>2, <1>6, <2>2, <2>4
    <3>2. Unsent(v, c)' = Unsent(v, c) /\ CursorIsStale(v)' = CursorIsStale(v)
      BY Zenon, <3>1 DEF Unsent, CursorIsStale, worldVars
    <3> QED  BY Zenon, <3>1, <3>2 DEF IInv, Remembered, Synced
  <2> QED  BY Zenon, <2>3, <2>4
<1>12. JournalSound'
  BY Zenon, SameWorld DEF IInv
<1>13. Overflowed'
  <2>1. ASSUME NEW u \in Viewers, view'[u] # {}, CursorIsStale(u)' PROVE next_sequence - oldest = Capacity
    <3>1. view[u] # {} /\ CursorIsStale(u)
      BY <1>5, <1>6, <2>1 DEF CursorIsStale, worldVars
    <3> QED  BY Zenon, <3>1 DEF IInv, Overflowed, Viewing
  <2> QED  BY Zenon, <2>1 DEF Overflowed, Viewing, worldVars
<1>14. UpdatesSynced' /\ RestCovers'
  BY Zenon DEF IInv, UpdatesSynced, RestCovers, flushVars
<1> QED  BY Zenon, <1>7, <1>8, <1>9, <1>10, <1>11, <1>12, <1>13, <1>14 DEF IInv

LEMMA CommitInitialKeeps ==
    ASSUME IInv, NEW v \in Viewers, NEW area \in Views, CommitInitial(v, area)
    PROVE  IInv'
<1>1. area \in SUBSET Chunks
  BY Zenon, WorldSyncAssumption
<1> QED  BY Zenon, <1>1, CommitKeeps DEF CommitInitial, JoinCursor

LEMMA CommitTransitionKeeps ==
    ASSUME IInv, NEW v \in Viewers, NEW area \in Views, CommitTransition(v, area)
    PROVE  IInv'
<1>1. PICK sent \in SUBSET Chunks : sent = Entering(v, area)
  BY Zenon, WorldSyncAssumption DEF Entering
<1>2. /\ pc = "idle" /\ HasRoom(v) /\ view[v] # {} /\ cursor' = cursor
      /\ queue' = [queue EXCEPT ![v] = Append(@, WithChunks(Received(v), sent))]
      /\ view' = [view EXCEPT ![v] = area]
      /\ UNCHANGED <<worldVars, client, flushVars>>
  BY Zenon, <1>1 DEF CommitTransition
<1>3. area \subseteq sent \cup view[v]
  BY Zenon, <1>1 DEF Entering
<1> QED  BY Zenon, <1>2, <1>3, CommitKeeps

-----------------------------------------------------------------------------
(* Writes to the world. *)

(* apply_patch: the new entry is the last one of every cell it writes, and   *)
(* the entry that overflows the journal leaves no cursor behind it unnoticed. *)
LEMMA PatchKeeps ==
    ASSUME IInv, NEW c \in Chunks, NEW cells \in Patches, ApplyPatch(c, cells)
    PROVE  IInv'
<1> DEFINE new == [position |-> c, kind |-> ChangeKind(cells), cells |-> cells, state |-> stamp']
<1>1. /\ stamp \in Nat /\ MaxStamp \in Nat /\ stamp' = stamp + 1 /\ stamp' \in 1..MaxStamp
      /\ Capacity \in Nat \ {0} /\ cells \subseteq Cells
  BY WorldSyncAssumption DEF IInv, Types, ApplyPatch
<1>2. /\ next_sequence \in Nat /\ oldest \in Nat /\ 1 <= oldest /\ oldest <= next_sequence
      /\ next_sequence <= stamp + 1 /\ next_sequence - oldest <= Capacity
      /\ DOMAIN changes = oldest..latest /\ content \in [Chunks -> Image]
      /\ cursor \in [Viewers -> 0..latest]
  BY Zenon DEF IInv, Types
<1>3. /\ next_sequence' = next_sequence + 1 /\ latest' = next_sequence
      /\ oldest' = IF next_sequence - oldest = Capacity THEN oldest + 1 ELSE oldest
      /\ oldest' \in Nat /\ oldest <= oldest' /\ oldest' <= next_sequence
      /\ next_sequence' - oldest' <= Capacity
  <2>1. /\ next_sequence' = next_sequence + 1
        /\ oldest' = IF next_sequence - oldest = Capacity THEN oldest + 1 ELSE oldest
    BY Zenon DEF ApplyPatch, RecordChange, OldestAfterRecord
  <2>2. latest' = next_sequence
    BY <1>2, <2>1 DEF latest
  <2> QED  BY <1>1, <1>2, <2>1, <2>2
<1>n. /\ next_sequence \in Nat /\ oldest \in Nat /\ oldest' \in Nat /\ Capacity \in Nat
      /\ latest = next_sequence - 1 /\ next_sequence' = next_sequence + 1
      /\ oldest <= oldest' /\ oldest' <= next_sequence
      /\ oldest' # oldest <=> next_sequence - oldest = Capacity
      /\ oldest' # oldest => oldest' = oldest + 1
  BY <1>1, <1>2, <1>3 DEF latest
<1>4. /\ DOMAIN changes' = oldest'..next_sequence
      /\ changes'[next_sequence] = new
      /\ \A q \in oldest'..latest : changes'[q] = changes[q] /\ q \in DOMAIN changes
  <2>1. changes' = [q \in oldest'..next_sequence |-> IF q = next_sequence THEN new ELSE changes[q]]
    BY Zenon DEF ApplyPatch, RecordChange
  <2> QED  BY <1>2, <1>n, <2>1
<1>5. UNCHANGED <<generated, view, cursor, queue, client, pc, todo, current, rest, updates>> /\ pc = "idle"
  BY Zenon DEF ApplyPatch, flushVars
<1>6. /\ content' \in [Chunks -> Image]
      /\ \A d \in Chunks, k \in Cells :
            content'[d][k] = IF d = c /\ k \in cells THEN stamp' ELSE content[d][k]
  <2>1. content' = [content EXCEPT ![c] = [k \in Cells |-> IF k \in cells THEN stamp' ELSE content[c][k]]]
    BY Zenon, <1>2 DEF ApplyPatch
  <2>2. \A d \in Chunks, k \in Cells : content[d][k] \in 0..MaxStamp
    BY Zenon, <1>2 DEF Image
  <2>3. [k \in Cells |-> IF k \in cells THEN stamp' ELSE content[c][k]] \in Image
    BY SMTT(30), <1>1, <2>2 DEF Image
  <2> QED  BY Zenon, <1>2, <2>1, <2>3
<1>7. ASSUME NEW d \in Chunks, NEW k \in Cells
      PROVE  /\ Writes(d, k) \subseteq oldest..latest
             /\ d = c /\ k \in cells => \A q \in Writes(d, k)' : IsLast(q, d, k)' => q = next_sequence
             /\ ~(d = c /\ k \in cells) =>
                   /\ Writes(d, k)' = {q \in Writes(d, k) : q >= oldest'}
                   /\ \A q \in Writes(d, k)' : changes'[q] = changes[q] /\ (IsLast(q, d, k)' => IsLast(q, d, k))
             /\ \A q \in Writes(d, k)' : q = next_sequence \/ (q \in Writes(d, k) /\ changes'[q] = changes[q])
             /\ \A q \in Writes(d, k) : q >= oldest' => q \in Writes(d, k)'
  <2>1. Writes(d, k) \subseteq oldest..latest
    BY Zenon, <1>2 DEF Writes
  <2>2. new.position = c /\ new.cells = cells
    BY Zenon
  <2> HIDE DEF new
  <2>3. \A q \in oldest'..next_sequence : q = next_sequence \/ q \in oldest'..latest
    BY <1>n
  <2>4. \A q : q \in Writes(d, k)' <=>
                  \/ q = next_sequence /\ d = c /\ k \in cells
                  \/ q \in oldest'..latest /\ q \in Writes(d, k)
    <3>1. \A q \in oldest'..latest : q \in oldest'..next_sequence /\ q # next_sequence
      BY <1>n
    <3>2. next_sequence \in oldest'..next_sequence
      BY <1>2, <1>3
    <3> QED  BY Zenon, <1>4, <2>2, <2>3, <3>1, <3>2 DEF Writes
  <2>5. \A q \in Writes(d, k) : q \in oldest'..latest <=> q >= oldest'
    BY <1>n, <2>1
  <2>6. \A q \in Writes(d, k)' : q = next_sequence \/ (q \in Writes(d, k) /\ changes'[q] = changes[q])
    BY Zenon, <1>4, <2>4
  <2>7. ASSUME d = c, k \in cells, NEW q \in Writes(d, k)', IsLast(q, d, k)' PROVE q = next_sequence
    <3>1. next_sequence \in Writes(d, k)'
      BY Zenon, <2>4, <2>7
    <3>2. next_sequence <= q
      BY Zenon, <2>7, <3>1 DEF IsLast
    <3>3. q \in oldest'..next_sequence
      BY Zenon, <1>4 DEF Writes
    <3> QED  BY <1>2, <1>3, <3>2, <3>3
  <2>8. ASSUME ~(d = c /\ k \in cells)
        PROVE  /\ Writes(d, k)' = {q \in Writes(d, k) : q >= oldest'}
               /\ \A q \in Writes(d, k)' : changes'[q] = changes[q] /\ (IsLast(q, d, k)' => IsLast(q, d, k))
    <3>1. Writes(d, k)' = {q \in Writes(d, k) : q >= oldest'}
      BY Zenon, <2>4, <2>5, <2>8
    <3>2. ASSUME NEW q \in Writes(d, k)', IsLast(q, d, k)' PROVE IsLast(q, d, k)
      <4>1. q \in Writes(d, k) /\ q >= oldest' /\ q \in Nat
        BY <1>2, <2>1, <3>1
      <4>2. ASSUME NEW r \in Writes(d, k) PROVE r <= q
        <5>1. r \in Nat
          BY <1>2, <2>1
        <5>2. CASE r >= oldest'
          <6>1. r \in Writes(d, k)'
            BY Zenon, <3>1, <5>2
          <6> QED  BY Zenon, <3>2, <6>1 DEF IsLast
        <5>3. CASE ~(r >= oldest')
          BY <1>3, <4>1, <5>1, <5>3
        <5> QED  BY Zenon, <5>2, <5>3
      <4> QED  BY Zenon, <4>1, <4>2 DEF IsLast
    <3>3. \A q \in Writes(d, k)' : changes'[q] = changes[q]
      BY Zenon, <1>4, <2>4, <2>8
    <3> QED  BY Zenon, <3>1, <3>2, <3>3
  <2> QED  BY Zenon, <2>1, <2>4, <2>5, <2>6, <2>7, <2>8
<1>8. Types'
  <2>1. Images' = Images
    BY Zenon DEF Images
  <2>2. new \in [position : Chunks, kind : {"Blocks", "FullChunk"}, cells : SUBSET Cells, state : 1..MaxStamp]
    <3>1. ChangeKind(cells) \in {"Blocks", "FullChunk"}
      BY Zenon DEF ChangeKind
    <3> QED  BY Zenon, <1>1, <3>1
  <2>3. changes' \in [oldest'..latest' ->
          [position : Chunks, kind : {"Blocks", "FullChunk"}, cells : SUBSET Cells, state : 1..MaxStamp]]
    <3>1. changes' = [q \in oldest'..next_sequence |-> IF q = next_sequence THEN new ELSE changes[q]]
      BY Zenon DEF ApplyPatch, RecordChange
    <3>2. \A q \in oldest'..next_sequence : q # next_sequence => q \in oldest..latest
      BY <1>n
    <3>3. \A q \in oldest..latest : changes[q] \in
            [position : Chunks, kind : {"Blocks", "FullChunk"}, cells : SUBSET Cells, state : 1..MaxStamp]
      BY Zenon DEF IInv, Types
    <3> HIDE DEF new
    <3> QED  BY Zenon, <1>3, <2>2, <3>1, <3>2, <3>3
  <2>4. cursor' \in [Viewers -> 0..latest']
    BY <1>2, <1>3, <1>5 DEF latest
  <2>5. next_sequence' <= stamp' + 1 /\ next_sequence' \in Nat /\ oldest' >= 1 /\ oldest' <= next_sequence'
    BY <1>1, <1>2, <1>3
  <2> QED  BY <1>1, <1>3, <1>5, <1>6, <2>1, <2>3, <2>4, <2>5 DEF IInv, Types
<1>9. ASSUME NEW d \in Chunks, NEW k \in Cells
      PROVE  content[d][k] \in Nat /\ content[d][k] <= stamp
  BY Zenon, CellStamp DEF IInv
<1>10. JournalSound'
  <2> SUFFICES ASSUME NEW d \in Chunks, NEW k \in Cells
               PROVE  /\ content'[d][k] <= stamp'
                      /\ \A q \in Writes(d, k)' : changes'[q].state <= content'[d][k]
                      /\ \A q \in Writes(d, k)' : IsLast(q, d, k)' =>
                            content'[d][k] = changes'[q].state \/ content'[d][k] \in generated'
    BY Zenon DEF JournalSound
  <2>1. content'[d][k] <= stamp' /\ (d = c /\ k \in cells => content'[d][k] = stamp')
    BY <1>1, <1>6, <1>9
  <2>2. new.state = stamp'
    BY Zenon
  <2> HIDE DEF new
  <2>3. CASE d = c /\ k \in cells
    <3>1. ASSUME NEW q \in Writes(d, k)' PROVE changes'[q].state <= content'[d][k]
      <4>1. CASE q = next_sequence
        BY Zenon, <1>1, <1>4, <2>1, <2>2, <2>3, <4>1
      <4>2. CASE q \in Writes(d, k) /\ changes'[q] = changes[q]
        <5>1. changes[q].state \in Nat
          BY Zenon, <4>2, EntryStamp DEF IInv
        <5>2. changes[q].state <= content[d][k]
          BY Zenon, <4>2 DEF IInv, JournalSound
        <5>3. content[d][k] \in Nat /\ content[d][k] <= stamp /\ content'[d][k] = stamp + 1
          BY Zenon, <1>1, <1>9, <2>1, <2>3
        <5> QED  BY <1>1, <4>2, <5>1, <5>2, <5>3
      <4> QED  BY Zenon, <1>7, <4>1, <4>2
    <3>2. ASSUME NEW q \in Writes(d, k)', IsLast(q, d, k)' PROVE content'[d][k] = changes'[q].state
      BY Zenon, <1>4, <1>7, <2>1, <2>2, <2>3, <3>2
    <3> QED  BY Zenon, <2>1, <3>1, <3>2
  <2>4. CASE ~(d = c /\ k \in cells)
    <3>1. /\ \A q \in Writes(d, k)' : q \in Writes(d, k) /\ changes'[q] = changes[q]
          /\ \A q \in Writes(d, k)' : IsLast(q, d, k)' => IsLast(q, d, k)
          /\ content'[d][k] = content[d][k]
      BY Zenon, <1>6, <1>7, <2>4
    <3> QED  BY Zenon, <1>5, <2>1, <3>1 DEF IInv, JournalSound
  <2> QED  BY Zenon, <2>3, <2>4
<1>11. ASSUME NEW u \in Viewers
       PROVE  Received(u)' = Received(u) /\ Received(u) \in Images /\ InOrder(u)' /\ BehindWorld(Received(u))'
  <2>1. Received(u)' = Received(u) /\ Received(u) \in Images
    BY Zenon, <1>5, SameReceived, ReceivedType DEF IInv
  <2>2. InOrder(u)'
    BY Zenon, <1>5 DEF IInv, InOrder, Follows
  <2>3. BehindWorld(Received(u))'
    <3> DEFINE x == Received(u)
    <3> SUFFICES ASSUME NEW d \in Chunks, x[d] # Unknown, NEW k \in Cells
                 PROVE  /\ x[d][k] <= content'[d][k]
                        /\ \A q \in Writes(d, k)' :
                              IsLast(q, d, k)' => x[d][k] <= changes'[q].state \/ x[d][k] \in generated'
      BY Zenon, <2>1 DEF BehindWorld
    <3>1. x[d][k] \in Nat /\ x[d][k] <= content[d][k]
      BY SMTT(30), <2>1 DEF IInv, BehindWorld, Images, Image
    <3>2. CASE d = c /\ k \in cells
      <4>1. new.state = stamp'
        BY Zenon
      <4> HIDE DEF x, new
      <4>2. x[d][k] <= stamp' /\ content'[d][k] = stamp'
        <5>1. content[d][k] \in Nat /\ content[d][k] <= stamp /\ content'[d][k] = stamp'
          BY Zenon, <1>6, <1>9, <3>2
        <5> QED  BY <1>1, <3>1, <5>1
      <4> QED  BY Zenon, <1>4, <1>7, <3>2, <4>1, <4>2
    <3>3. CASE ~(d = c /\ k \in cells)
      <4>1. /\ \A q \in Writes(d, k)' : q \in Writes(d, k) /\ changes'[q] = changes[q]
            /\ \A q \in Writes(d, k)' : IsLast(q, d, k)' => IsLast(q, d, k)
            /\ content'[d][k] = content[d][k]
        BY Zenon, <1>6, <1>7, <3>3
      <4> QED  BY Zenon, <1>5, <3>1, <4>1 DEF IInv, BehindWorld
    <3> QED  BY Zenon, <3>2, <3>3
  <2> QED  BY Zenon, <2>1, <2>2, <2>3
<1>12. ASSUME NEW u \in Viewers PROVE ~CursorIsStale(u)' => ~CursorIsStale(u) /\ cursor[u] + 1 >= oldest'
  <2>1. cursor[u] \in Nat /\ cursor'[u] = cursor[u]
    BY <1>2, <1>5 DEF latest
  <2> QED  BY <1>n, <2>1 DEF CursorIsStale
<1>13. ASSUME NEW u \in Viewers PROVE Remembered(u)'
  <2> SUFFICES ASSUME NEW d \in view[u]
               PROVE  /\ Received(u)[d] # Unknown
                      /\ ~CursorIsStale(u)' => \A k \in Cells :
                            \/ Synced(Received(u), d, k)'
                            \/ \E q \in Writes(d, k)' : q > cursor[u]
                            \/ \E q \in Unsent(u, d)' : changes'[q].kind = "FullChunk"
    BY Zenon, <1>5, <1>11 DEF Remembered
  <2>1. d \in Chunks
    BY Zenon, ViewIsOfChunks DEF IInv
  <2>2. Received(u)[d] # Unknown
    BY Zenon DEF IInv, Remembered
  <2>3. ASSUME ~CursorIsStale(u)', NEW k \in Cells
        PROVE  \/ Synced(Received(u), d, k)'
               \/ \E q \in Writes(d, k)' : q > cursor[u]
               \/ \E q \in Unsent(u, d)' : changes'[q].kind = "FullChunk"
    <3>1. /\ ~CursorIsStale(u) /\ cursor[u] + 1 >= oldest'
          /\ cursor[u] \in Nat /\ cursor[u] < next_sequence
      <4>1. ~CursorIsStale(u) /\ cursor[u] + 1 >= oldest'
        BY Zenon, <1>12, <2>3
      <4>2. cursor[u] \in 0..latest
        BY Zenon, <1>2
      <4> QED  BY <1>n, <4>1, <4>2
    <3>2. CASE d = c /\ k \in cells
      <4>1. next_sequence \in Writes(d, k)'
        <5>1. new.position = c /\ new.cells = cells /\ next_sequence \in oldest'..next_sequence
          BY <1>2, <1>3
        <5> HIDE DEF new
        <5> QED  BY Zenon, <1>4, <3>2, <5>1 DEF Writes
      <4> QED  BY Zenon, <1>2, <3>1, <4>1
    <3>3. CASE ~(d = c /\ k \in cells)
      <4>1. CASE Synced(Received(u), d, k)
        BY Zenon, <1>5, <1>6, <1>11, <2>1, <3>3, <4>1 DEF Synced
      <4>2. CASE \E q \in Writes(d, k) : q > cursor[u]
        <5>1. PICK q \in Writes(d, k) : q > cursor[u]
          BY Zenon, <4>2
        <5>2. q \in oldest..latest
          BY Zenon, <1>7, <2>1
        <5>3. q >= oldest'
          BY <1>n, <3>1, <5>1, <5>2
        <5> QED  BY Zenon, <1>7, <2>1, <5>1, <5>3
      <4>3. CASE \E q \in Unsent(u, d) : changes[q].kind = "FullChunk"
        <5>1. PICK q \in Unsent(u, d) : changes[q].kind = "FullChunk"
          BY Zenon, <4>3
        <5>2. q \in oldest..latest /\ q > cursor[u] /\ changes[q].position = d
          BY Zenon, <1>2 DEF Unsent
        <5>3. q \in oldest'..latest /\ q \in oldest'..next_sequence
          BY <1>n, <3>1, <5>2
        <5>4. q \in Unsent(u, d)' /\ changes'[q] = changes[q]
          BY Zenon, <1>4, <1>5, <5>2, <5>3 DEF Unsent
        <5> QED  BY Zenon, <5>1, <5>4
      <4> QED  BY Zenon, <3>1, <4>1, <4>2, <4>3 DEF IInv, Remembered
    <3> QED  BY Zenon, <3>2, <3>3
  <2> QED  BY Zenon, <2>2, <2>3
<1>14. Overflowed'
  <2> SUFFICES ASSUME NEW u \in Viewers, view[u] # {}, CursorIsStale(u)'
               PROVE  next_sequence' - oldest' = Capacity
    BY Zenon, <1>5 DEF Overflowed, Viewing
  <2>1. CASE CursorIsStale(u)
    <3>1. next_sequence - oldest = Capacity
      BY Zenon, <2>1 DEF IInv, Overflowed, Viewing
    <3> QED  BY <1>n, <3>1
  <2>2. CASE ~CursorIsStale(u)
    <3>1. oldest' # oldest
      BY Zenon, <1>5, <2>2 DEF CursorIsStale
    <3> QED  BY <1>n, <3>1
  <2> QED  BY Zenon, <2>1, <2>2
<1>15. UpdatesSynced' /\ RestCovers'
  BY Zenon, <1>5 DEF IInv, UpdatesSynced, RestCovers
<1> QED  BY Zenon, <1>8, <1>10, <1>11, <1>13, <1>14, <1>15 DEF IInv

(* The generator writes a block past the journal. *)
LEMMA PostProcessKeeps ==
    ASSUME IInv, NEW c \in Chunks, NEW b \in Blocks, PostProcess(c, b)
    PROVE  IInv'
<1>1. /\ stamp \in Nat /\ MaxStamp \in Nat /\ stamp' = stamp + 1 /\ stamp' \in 1..MaxStamp
      /\ b \in Cells
  BY WorldSyncAssumption DEF IInv, Types, PostProcess, Cells
<1>2. /\ UNCHANGED <<next_sequence, oldest, changes, view, cursor, queue, client, pc, todo, current, rest, updates>>
      /\ generated' = generated \cup {stamp'} /\ pc = "idle"
  BY Zenon DEF PostProcess, flushVars
<1>3. content \in [Chunks -> [Cells -> 0..MaxStamp]]
  BY Zenon DEF IInv, Types, Image
<1>4. /\ content' \in [Chunks -> Image]
      /\ \A d \in Chunks, k \in Cells :
            content'[d][k] = IF d = c /\ k = b THEN stamp' ELSE content[d][k]
  BY <1>1, <1>3 DEF PostProcess, Image
<1>5. \A d \in Chunks, k \in Cells : content[d][k] \in Nat /\ content[d][k] <= stamp
  BY Zenon, CellStamp DEF IInv
<1>6. /\ \A d, k : Writes(d, k)' = Writes(d, k)
      /\ \A q, d, k : IsLast(q, d, k)' <=> IsLast(q, d, k)
  BY Zenon, <1>2 DEF IsLast, Writes
<1>8. Types'
  <2>1. Images' = Images
    BY Zenon DEF Images
  <2>2. next_sequence <= stamp' + 1
    BY <1>1 DEF IInv, Types
  <2> QED  BY <1>1, <1>2, <1>4, <2>1, <2>2 DEF IInv, Types, latest
<1>9. JournalSound'
  <2> SUFFICES ASSUME NEW d \in Chunks, NEW k \in Cells
               PROVE  /\ content'[d][k] <= stamp'
                      /\ \A q \in Writes(d, k) : changes[q].state <= content'[d][k]
                      /\ \A q \in Writes(d, k) : IsLast(q, d, k) =>
                            content'[d][k] = changes[q].state \/ content'[d][k] \in generated'
    BY Zenon, <1>2, <1>6 DEF JournalSound
  <2>1. content[d][k] \in Nat /\ content[d][k] <= stamp
    BY Zenon, <1>5
  <2>2. CASE d = c /\ k = b
    <3>1. content'[d][k] = stamp' /\ content'[d][k] \in generated'
      BY Zenon, <1>2, <1>4, <2>2
    <3>2. ASSUME NEW q \in Writes(d, k) PROVE changes[q].state <= stamp'
      <4>1. changes[q].state \in Nat /\ changes[q].state <= content[d][k]
        BY Zenon, EntryStamp DEF IInv, JournalSound
      <4> QED  BY <1>1, <2>1, <4>1
    <3> QED  BY <1>1, <3>1, <3>2
  <2>3. CASE ~(d = c /\ k = b)
    <3>1. content'[d][k] = content[d][k]
      BY Zenon, <1>4, <2>3
    <3>2. content[d][k] <= stamp'
      BY <1>1, <2>1
    <3> QED  BY Zenon, <1>2, <3>1, <3>2 DEF IInv, JournalSound
  <2> QED  BY Zenon, <2>2, <2>3
<1>10. ASSUME NEW u \in Viewers
       PROVE  InOrder(u)' /\ BehindWorld(Received(u))' /\ Remembered(u)'
  <2>1. Received(u)' = Received(u) /\ Received(u) \in [Chunks -> Image \cup {Unknown}]
    BY Zenon, <1>2, SameReceived, ReceivedType DEF IInv, Images
  <2>2. InOrder(u)'
    BY Zenon, <1>2 DEF IInv, InOrder, Follows
  <2>3. BehindWorld(Received(u))'
    <3>1. \A d \in Chunks, k \in Cells : Received(u)[d] # Unknown => Received(u)[d][k] \in Nat
      BY <2>1 DEF Image
    <3>2. \A d \in Chunks, k \in Cells : content[d][k] <= content'[d][k] /\ content'[d][k] \in Nat
      BY <1>1, <1>4, <1>5
    <3> SUFFICES ASSUME NEW d \in Chunks, Received(u)[d] # Unknown, NEW k \in Cells
                 PROVE  /\ Received(u)[d][k] <= content'[d][k]
                        /\ \A q \in Writes(d, k) : IsLast(q, d, k) =>
                              Received(u)[d][k] <= changes[q].state \/ Received(u)[d][k] \in generated'
      BY Zenon, <1>2, <1>6, <2>1 DEF BehindWorld
    <3>3. /\ Received(u)[d][k] <= content[d][k]
          /\ \A q \in Writes(d, k) : IsLast(q, d, k) =>
                Received(u)[d][k] <= changes[q].state \/ Received(u)[d][k] \in generated
      BY Zenon DEF IInv, BehindWorld
    <3>4. Received(u)[d][k] <= content'[d][k]
      <4>1. Received(u)[d][k] \in Nat /\ content[d][k] \in Nat /\ content'[d][k] \in Nat
        BY Zenon, <1>5, <3>1, <3>2
      <4>2. content[d][k] <= content'[d][k]
        BY Zenon, <3>2
      <4> QED  BY <3>3, <4>1, <4>2
    <3> QED  BY Zenon, <1>2, <3>3, <3>4
  <2>4. view[u] \subseteq Chunks
    BY Zenon, ViewIsOfChunks DEF IInv
  <2>5. \A d \in Chunks, k \in Cells : Synced(Received(u), d, k) => Synced(Received(u), d, k)'
    BY Zenon, <1>1, <1>2, <1>4, <2>1 DEF Synced
  <2>6. /\ CursorIsStale(u)' = CursorIsStale(u)
        /\ \A d : Unsent(u, d)' = Unsent(u, d)
    BY Zenon, <1>2 DEF CursorIsStale, Unsent
  <2>7. Remembered(u)'
    BY Zenon, <1>2, <1>6, <2>1, <2>4, <2>5, <2>6 DEF IInv, Remembered
  <2> QED  BY Zenon, <2>2, <2>3, <2>7
<1>11. Overflowed' /\ UpdatesSynced' /\ RestCovers'
  BY Zenon, <1>2 DEF IInv, Overflowed, Viewing, CursorIsStale, UpdatesSynced, RestCovers
<1> QED  BY Zenon, <1>8, <1>9, <1>10, <1>11 DEF IInv


-----------------------------------------------------------------------------
(* Sequences are handed out one by one from 1, so any of them have a first   *)
(* and a last one. Part of the invariant, which stands in for an induction.  *)
Ordered ==
    \A qs \in SUBSET (0..latest) : qs # {} =>
       /\ \E q \in qs : \A r \in qs : q <= r
       /\ \E q \in qs : \A r \in qs : q >= r

LEMMA InitOrdered == Init => Ordered
<1> SUFFICES ASSUME Init, NEW qs \in SUBSET (0..latest), qs # {}
             PROVE  qs = {0}
  BY DEF Ordered
<1>1. latest = 0
  BY DEF Init, latest
<1>2. 0..latest = {0}
  BY <1>1
<1> QED  BY Zenon, <1>2

LEMMA OrderedKeeps == Types /\ Ordered /\ [Next]_vars => Ordered'
<1> SUFFICES ASSUME Types, Ordered, [Next]_vars PROVE Ordered'  BY Zenon
<1>1. next_sequence \in Nat /\ latest \in Nat /\ latest = next_sequence - 1
  BY DEF Types, latest
<1>2. next_sequence' = next_sequence \/ next_sequence' = next_sequence + 1
  BY Zenon DEF Next, Moves, Flush, ApplyPatch, RecordChange, PostProcess, CommitInitial, CommitTransition,
         EndSession, FlushBegin, FlushView, FlushSend, FlushEnd, SendCommand, vars, worldVars
<1>3. CASE next_sequence' = next_sequence
  BY Zenon, <1>3 DEF Ordered, latest
<1>4. CASE next_sequence' = next_sequence + 1
  <2>1. latest' = latest + 1
    BY <1>1, <1>4 DEF latest
  <2> SUFFICES ASSUME NEW qs \in SUBSET (0..(latest + 1)), qs # {}
               PROVE  /\ \E q \in qs : \A r \in qs : q <= r
                      /\ \E q \in qs : \A r \in qs : q >= r
    BY Zenon, <2>1 DEF Ordered
  <2> DEFINE old == qs \cap 0..latest
  <2>2. old \in SUBSET (0..latest) /\ \A q \in qs : q \in old \/ q = latest + 1
    <3>1. \A q \in 0..(latest + 1) : q \in 0..latest \/ q = latest + 1
      BY <1>1
    <3> QED  BY Zenon, <3>1
  <2>3. CASE old = {}
    <3>1. qs = {latest + 1}
      BY Zenon, <2>2, <2>3
    <3> QED  BY <1>1, <3>1
  <2>4. CASE old # {}
    <3> HIDE DEF old
    <3>1. PICK a \in old : \A r \in old : a <= r
      BY Zenon, <2>2, <2>4 DEF Ordered
    <3>2. PICK b \in old : \A r \in old : b >= r
      BY Zenon, <2>2, <2>4 DEF Ordered
    <3>3. a \in qs /\ b \in qs /\ a \in 0..latest /\ b \in 0..latest
      BY Zenon DEF old
    <3>4. \A r \in qs : a <= r
      BY <1>1, <2>2, <3>1, <3>3
    <3>5. CASE latest + 1 \in qs
      BY <1>1, <2>2, <3>3, <3>4, <3>5
    <3>6. CASE latest + 1 \notin qs
      BY Zenon, <2>2, <3>2, <3>3, <3>4, <3>6
    <3> QED  BY Zenon, <3>5, <3>6
  <2> QED  BY Zenon, <2>3, <2>4
<1> QED  BY Zenon, <1>2, <1>3, <1>4

(* merge_change ends with the last entry of a cell. *)
LEMMA MergedIsLast ==
    ASSUME Types, Ordered, NEW v \in Viewers, NEW c \in Chunks, NEW k \in Cells,
           \E q \in Writes(c, k) : q > cursor[v]
    PROVE  \E q \in Writes(c, k) : IsLast(q, c, k) /\ MergedState(v, c, k) = changes[q].state
<1> DEFINE qs == {q \in Unsent(v, c) : k \in changes[q].cells}
<1>1. qs = {q \in Writes(c, k) : q > cursor[v]}
  BY Zenon DEF Unsent, Writes
<1>a. Writes(c, k) \subseteq 0..latest
  BY DEF Types, Writes, latest
<1>2. qs # {} /\ qs \in SUBSET (0..latest)
  BY Zenon, <1>1, <1>a
<1>3. MergedState(v, c, k) = changes[CHOOSE q \in qs : \A r \in qs : q >= r].state
  BY Zenon DEF MergedState
<1> HIDE DEF qs
<1>4. PICK m \in qs : /\ \A r \in qs : m >= r
                      /\ m = CHOOSE q \in qs : \A r \in qs : q >= r
  <2>1. \E q \in qs : \A r \in qs : q >= r
    BY Zenon, <1>2 DEF Ordered
  <2> QED  BY Zenon, <2>1
<1>5. \A r \in Writes(c, k) : r <= m
  <2> SUFFICES ASSUME NEW r \in Writes(c, k) PROVE r <= m  BY Zenon
  <2>1. r \in Nat /\ m \in Nat /\ cursor[v] \in Nat /\ m > cursor[v]
    BY <1>1, <1>4 DEF Types, Writes, latest
  <2> QED  BY <1>1, <1>4, <2>1
<1>6. m \in Writes(c, k) /\ MergedState(v, c, k) = changes[m].state
  BY <1>1, <1>3, <1>4
<1> QED  BY Zenon, <1>5, <1>6 DEF IsLast

-----------------------------------------------------------------------------
(* Flushes. *)

(* prune_changes_through forgets the entries up to a sequence. *)
LEMMA Pruned ==
    ASSUME IInv, NEW s \in Nat, s <= latest, PruneChangesThrough(s),
           UNCHANGED <<content, stamp, generated, next_sequence>>
    PROVE  /\ oldest' = IF s < oldest THEN oldest ELSE s + 1
           /\ oldest' \in Nat /\ oldest <= oldest' /\ oldest' <= next_sequence /\ latest' = latest
           /\ changes' \in [oldest'..latest' ->
                 [position : Chunks, kind : {"Blocks", "FullChunk"}, cells : SUBSET Cells, state : 1..MaxStamp]]
           /\ \A q \in DOMAIN changes' : q \in DOMAIN changes /\ changes'[q] = changes[q]
           /\ \A q \in DOMAIN changes : q >= oldest' => q \in DOMAIN changes'
           /\ JournalSound'
           /\ \A x : BehindWorld(x) => BehindWorld(x)'
<1>1. /\ next_sequence \in Nat /\ oldest \in Nat /\ 1 <= oldest /\ oldest <= next_sequence
      /\ latest = next_sequence - 1
      /\ changes \in [oldest..latest ->
            [position : Chunks, kind : {"Blocks", "FullChunk"}, cells : SUBSET Cells, state : 1..MaxStamp]]
  BY Zenon DEF IInv, Types, latest
<1>2. /\ oldest' = IF s < oldest THEN oldest ELSE s + 1
      /\ latest' = latest
  BY <1>1 DEF PruneChangesThrough, latest
<1>3. oldest' \in Nat /\ oldest <= oldest' /\ oldest' <= next_sequence
  BY <1>1, <1>2
<1>4. changes' = [q \in oldest'..latest |-> changes[q]]
  BY Zenon DEF PruneChangesThrough
<1>5. \A q \in oldest'..latest : q \in oldest..latest
  BY <1>1, <1>3
<1>6. changes' \in [oldest'..latest' ->
                 [position : Chunks, kind : {"Blocks", "FullChunk"}, cells : SUBSET Cells, state : 1..MaxStamp]]
  BY Zenon, <1>1, <1>2, <1>4, <1>5
<1>7. \A q \in DOMAIN changes' : q \in DOMAIN changes /\ changes'[q] = changes[q]
  BY Zenon, <1>1, <1>4, <1>5
<1>8. \A q \in DOMAIN changes : q >= oldest' => q \in DOMAIN changes'
  BY <1>1, <1>3, <1>4
<1>9. ASSUME NEW c, NEW k, NEW q \in Writes(c, k)'
      PROVE  q \in Writes(c, k) /\ (IsLast(q, c, k)' => IsLast(q, c, k))
  <2>1. q \in Writes(c, k) /\ q \in Nat /\ q >= oldest'
    BY <1>1, <1>3, <1>4, <1>7 DEF Writes
  <2>2. ASSUME IsLast(q, c, k)', NEW r \in Writes(c, k) PROVE r <= q
    <3>1. r \in DOMAIN changes /\ r \in Nat
      BY <1>1 DEF Writes
    <3>2. CASE r >= oldest'
      <4>1. r \in Writes(c, k)'
        BY Zenon, <1>7, <1>8, <3>1, <3>2 DEF Writes
      <4> QED  BY Zenon, <2>2, <4>1 DEF IsLast
    <3>3. CASE ~(r >= oldest')
      BY <1>3, <2>1, <3>1, <3>3
    <3> QED  BY Zenon, <3>2, <3>3
  <2> QED  BY Zenon, <2>1, <2>2 DEF IsLast
<1>10. \A c, k : \A q \in Writes(c, k)' : changes'[q] = changes[q]
  BY Zenon, <1>7 DEF Writes
<1>11. JournalSound'
  BY <1>9, <1>10 DEF IInv, JournalSound
<1>12. ASSUME NEW x, BehindWorld(x) PROVE BehindWorld(x)'
  BY <1>9, <1>10, <1>12 DEF BehindWorld
<1> QED  BY Zenon, <1>2, <1>3, <1>6, <1>7, <1>8, <1>11, <1>12

(* The tick takes the views that lag, or prunes everything without viewers. *)
LEMMA FlushBeginKeeps == IInv /\ FlushBegin => IInv'
<1> SUFFICES ASSUME IInv, FlushBegin PROVE IInv'  BY Zenon
<1>1. /\ UNCHANGED <<content, stamp, generated, next_sequence, view, cursor, queue, client, current, rest>>
      /\ pc = "idle"
  BY Zenon DEF FlushBegin
<1>2. ASSUME NEW u \in Viewers PROVE Received(u)' = Received(u) /\ InOrder(u)'
  <2>1. InOrder(u)'
    BY <1>1 DEF IInv, InOrder, Follows
  <2> QED  BY Zenon, <1>1, <2>1, SameReceived
<1>3. Images' = Images
  BY Zenon DEF Images
<1>4. CASE Viewing = {} /\ PruneChangesThrough(latest) /\ UNCHANGED <<pc, todo, updates>>
  <2>1. PICK s \in Nat : s = latest
    BY DEF IInv, Types, latest
  <2>2. /\ oldest' \in Nat /\ oldest <= oldest' /\ oldest' <= next_sequence /\ latest' = latest
        /\ changes' \in [oldest'..latest' ->
              [position : Chunks, kind : {"Blocks", "FullChunk"}, cells : SUBSET Cells, state : 1..MaxStamp]]
        /\ JournalSound'
        /\ \A x : BehindWorld(x) => BehindWorld(x)'
    BY <1>1, <1>4, <2>1, Pruned
  <2>3. \A u \in Viewers : view[u] = {}
    BY Zenon, <1>4 DEF Viewing
  <2>4. Types'
    <3>1. oldest' >= 1 /\ next_sequence - oldest' <= Capacity
      <4>1. /\ oldest \in Nat /\ oldest >= 1 /\ next_sequence \in Nat
            /\ next_sequence - oldest <= Capacity
        BY Zenon DEF IInv, Types
      <4>2. Capacity \in Nat
        BY Zenon, WorldSyncAssumption
      <4>3. oldest' \in Nat /\ oldest <= oldest'
        BY Zenon, <2>2
      <4>4. oldest' >= 1
        BY <4>1, <4>3
      <4>5. \A n, a, b, m \in Nat : a <= b /\ n - a <= m => n - b <= m
        OBVIOUS
      <4> QED  BY Zenon, <4>1, <4>2, <4>3, <4>4, <4>5
    <3> QED  BY Zenon, <1>1, <1>3, <1>4, <2>2, <3>1 DEF IInv, Types
  <2>5. ASSUME NEW u \in Viewers PROVE BehindWorld(Received(u))' /\ Remembered(u)'
    <3>1. BehindWorld(Received(u))'
      BY Zenon, <1>2, <2>2 DEF IInv, BehindWorld
    <3> QED  BY Zenon, <1>1, <2>3, <3>1 DEF Remembered
  <2>6. Overflowed' /\ UpdatesSynced' /\ RestCovers'
    BY Zenon, <1>1, <1>4, <2>3 DEF IInv, Overflowed, Viewing, UpdatesSynced, RestCovers
  <2> QED  BY Zenon, <1>2, <2>2, <2>4, <2>5, <2>6 DEF IInv
<1>5. CASE /\ pc' = "views" /\ todo' = {v \in Viewing : cursor[v] # latest} /\ updates' = {}
           /\ UNCHANGED <<oldest, changes>>
  <2>1. UNCHANGED worldVars
    BY Zenon, <1>1, <1>5 DEF worldVars
  <2>2. Types'
    BY Zenon, <1>1, <1>3, <1>5 DEF IInv, Types, latest, Viewing
  <2>3. ASSUME NEW u \in Viewers PROVE BehindWorld(Received(u))' /\ Remembered(u)'
    BY Zenon, <1>1, <1>2, <2>1, SameSession DEF IInv
  <2>4. JournalSound'
    BY Zenon, <2>1, SameWorld DEF IInv
  <2>5. Overflowed' /\ UpdatesSynced' /\ RestCovers'
    BY Zenon, <1>1, <1>5 DEF IInv, Overflowed, Viewing, CursorIsStale, UpdatesSynced, RestCovers
  <2> QED  BY Zenon, <1>2, <2>2, <2>3, <2>4, <2>5 DEF IInv
<1> QED  BY Zenon, <1>4, <1>5 DEF FlushBegin

(* The packets of a view cover all in which its client lags. *)
LEMMA PacketsCover ==
    ASSUME IInv, NEW v \in Viewers, NEW c \in view[v], NEW k \in Cells
    PROVE  Synced(Received(v), c, k) \/ <<c, k>> \in Packets(v) \/ <<c, Planes>> \in Packets(v)
<1>1. CASE c \in FullChunks(v)
  BY Zenon, <1>1 DEF Packets
<1>2. CASE c \notin FullChunks(v)
  <2>1. /\ ~CursorIsStale(v)
        /\ ~\E q \in Unsent(v, c) : changes[q].kind = "FullChunk"
    BY Zenon, <1>2 DEF FullChunks
  <2>2. Synced(Received(v), c, k) \/ k \in Touched(v, c)
    BY Zenon, <2>1, TouchedIsWritten DEF IInv, Remembered
  <2>3. k \in Touched(v, c) => <<c, k>> \in Packets(v)
    BY <1>2, <2>1 DEF Packets
  <2> QED  BY Zenon, <2>2, <2>3
<1> QED  BY Zenon, <1>1, <1>2

(* A packet is of a chunk in view; a block packet is of a block written since. *)
LEMMA PacketsWritten ==
    ASSUME IInv, NEW v \in Viewers, NEW p \in Packets(v)
    PROVE  /\ p \in Chunks \X Cells /\ p[1] \in view[v]
           /\ p[2] # Planes => \E q \in Writes(p[1], p[2]) : q > cursor[v]
<1>1. view[v] \subseteq Chunks
  BY Zenon, ViewIsOfChunks DEF IInv
<1>2. FullChunks(v) \subseteq view[v] /\ Planes \in Cells
  BY Zenon DEF FullChunks, Cells
<1>3. CASE \E c \in FullChunks(v) : p = <<c, Planes>>
  BY <1>1, <1>2, <1>3
<1>4. CASE \E c \in view[v] : \E k \in Touched(v, c) : p = <<c, k>>
  <2>a. PICK c \in view[v] : \E k \in Touched(v, c) : p = <<c, k>>
    BY Zenon, <1>4
  <2>1. PICK k \in Touched(v, c) : p = <<c, k>>
    BY Zenon, <2>a
  <2>2. \E q \in Writes(c, k) : q > cursor[v]
    BY Zenon, TouchedIsWritten
  <2>3. k \in Cells
    BY Zenon, <2>2 DEF Writes, IInv, Types
  <2> QED  BY Zenon, <1>1, <2>1, <2>2, <2>3
<1> QED  BY Zenon, <1>3, <1>4 DEF Packets

(* A view is taken up: it is in sync, gone, or its packets are to be sent. *)
LEMMA FlushViewKeeps ==
    ASSUME IInv, NEW v \in Viewers, FlushView(v)
    PROVE  IInv'
<1>1. /\ UNCHANGED <<worldVars, view, cursor, queue, client>>
      /\ pc = "views" /\ v \in todo /\ todo' = todo \ {v}
  BY Zenon DEF FlushView
<1>2. ASSUME NEW u \in Viewers
      PROVE  Received(u)' = Received(u) /\ InOrder(u)' /\ BehindWorld(Received(u))' /\ Remembered(u)'
  <2>1. InOrder(u)'
    BY <1>1 DEF IInv, InOrder, Follows, worldVars
  <2> QED  BY Zenon, <1>1, <2>1, SameReceived, SameSession DEF IInv
<1>3. Images' = Images
  BY Zenon DEF Images
<1>4. JournalSound' /\ Overflowed'
  BY Zenon, <1>1, SameWorld DEF IInv, Overflowed, Viewing, CursorIsStale, worldVars
<1>5. CASE (view[v] = {} \/ Packets(v) = {}) /\ updates' = updates \cup {v} /\ UNCHANGED <<pc, current, rest>>
  <2>1. Types'
    BY Zenon, <1>1, <1>3, <1>5 DEF IInv, Types, latest, worldVars
  <2>2. UpdatesSynced'
    <3> SUFFICES ASSUME NEW u \in updates', NEW c \in view[u], NEW k \in Cells
                 PROVE  Synced(Received(u), c, k)'
      BY Zenon, <1>1, <1>5 DEF UpdatesSynced
    <3>1. u \in Viewers
      BY Zenon, <2>1 DEF Types
    <3>2. Synced(Received(u), c, k)
      <4>1. CASE u \in updates
        BY Zenon, <4>1 DEF IInv, UpdatesSynced
      <4>2. CASE u = v
        BY Zenon, <1>5, <4>2, PacketsCover
      <4> QED  BY Zenon, <1>5, <4>1, <4>2
    <3> QED  BY Zenon, <1>1, <1>2, <3>1, <3>2 DEF Synced, worldVars
  <2>3. RestCovers'
    BY Zenon, <1>1, <1>5 DEF RestCovers
  <2> QED  BY Zenon, <1>2, <1>4, <2>1, <2>2, <2>3 DEF IInv
<1>6. CASE pc' = "send" /\ current' = v /\ rest' = Packets(v) /\ UNCHANGED updates
  <2>1. Types'
    <3>1. rest' \subseteq Chunks \X Cells
      BY Zenon, <1>6, PacketsWritten DEF IInv
    <3>2. /\ todo' \subseteq Viewers /\ updates' \subseteq Viewers
          /\ pc' \in {"idle", "views", "send"} /\ current' \in Viewers
      BY Zenon, <1>1, <1>6 DEF IInv, Types
    <3> QED  BY Zenon, <1>1, <1>3, <3>1, <3>2 DEF IInv, Types, latest, worldVars
  <2>2. UpdatesSynced'
    <3> SUFFICES ASSUME NEW u \in updates, NEW c \in view[u], NEW k \in Cells
                 PROVE  Synced(Received(u), c, k)'
      BY Zenon, <1>1, <1>6 DEF UpdatesSynced
    <3>1. u \in Viewers
      BY Zenon, <2>1, <1>6 DEF Types
    <3>2. Synced(Received(u), c, k)
      BY Zenon DEF IInv, UpdatesSynced
    <3> QED  BY Zenon, <1>1, <1>2, <3>1, <3>2 DEF Synced, worldVars
  <2>3. RestCovers'
    <3>1. Received(current)' = Received(v)
      BY Zenon, <1>1, <1>6 DEF Received
    <3>2. \A c, k : Writes(c, k)' = Writes(c, k)
      BY Zenon, <1>1, SameWorld DEF IInv
    <3>3. \A c, k : Synced(Received(current), c, k)' <=> Synced(Received(v), c, k)
      BY Zenon, <1>1, <3>1 DEF Synced, worldVars
    <3>4. \A p \in rest' : /\ p[1] \in view[v]
                           /\ p[2] # Planes => \E q \in Writes(p[1], p[2]) : q > cursor[v]
      BY Zenon, <1>6, PacketsWritten
    <3>5. \A c \in view[v], k \in Cells :
             Synced(Received(v), c, k) \/ <<c, k>> \in rest' \/ <<c, Planes>> \in rest'
      BY Zenon, <1>6, PacketsCover
    <3> QED  BY Zenon, <1>1, <1>6, <3>2, <3>3, <3>4, <3>5 DEF RestCovers
  <2> QED  BY Zenon, <1>2, <1>4, <2>1, <2>2, <2>3 DEF IInv
<1> QED  BY Zenon, <1>5, <1>6 DEF FlushView

(* A batch shows the client only the world, or the last entry of a block. *)
LEMMA BatchFollows ==
    ASSUME IInv, Ordered, NEW v \in Viewers, NEW batch,
           \A p \in batch : /\ p \in Chunks \X Cells
                            /\ p[2] # Planes => \E q \in Writes(p[1], p[2]) : q > cursor[v]
    PROVE  /\ WithBatch(Received(v), v, batch) \in Images
           /\ Follows(Received(v), WithBatch(Received(v), v, batch))
           /\ BehindWorld(WithBatch(Received(v), v, batch))
           /\ \A c \in Chunks : Received(v)[c] # Unknown =>
                 /\ WithBatch(Received(v), v, batch)[c] # Unknown
                 /\ \A k \in Cells :
                       \/ Synced(WithBatch(Received(v), v, batch), c, k)
                       \/ /\ <<c, k>> \notin batch /\ <<c, Planes>> \notin batch
                          /\ WithBatch(Received(v), v, batch)[c][k] = Received(v)[c][k]
<1> DEFINE a == Received(v)
           x == WithBatch(a, v, batch)
<1>1. a \in [Chunks -> Image \cup {Unknown}] /\ content \in [Chunks -> Image] /\ Unknown \notin Image
  BY Zenon, ReceivedType, WorldSyncAssumption DEF IInv, Images, Types
<1>2. ASSUME NEW c \in Chunks, NEW k \in Cells, <<c, k>> \in batch, <<c, Planes>> \notin batch
      PROVE  /\ MergedState(v, c, k) \in 0..MaxStamp
             /\ MergedState(v, c, k) <= content[c][k]
             /\ MergedState(v, c, k) = content[c][k] \/ content[c][k] \in generated
             /\ \A q \in Writes(c, k) : IsLast(q, c, k) => MergedState(v, c, k) = changes[q].state
             /\ a[c] # Unknown => a[c][k] <= MergedState(v, c, k) \/ a[c][k] \in generated
  <2>1. \E q \in Writes(c, k) : q > cursor[v]
    BY Zenon, <1>2
  <2>2. PICK q \in Writes(c, k) : IsLast(q, c, k) /\ MergedState(v, c, k) = changes[q].state
    BY Zenon, <2>1, MergedIsLast DEF IInv
  <2>3. changes[q] \in [position : Chunks, kind : {"Blocks", "FullChunk"}, cells : SUBSET Cells, state : 1..MaxStamp]
    BY Zenon DEF Writes, IInv, Types
  <2>4. changes[q].state \in 0..MaxStamp
    BY <2>3, WorldSyncAssumption
  <2>5. ASSUME NEW r \in Writes(c, k), IsLast(r, c, k) PROVE r = q
    <3>1. r \in Nat /\ q \in Nat
      BY DEF Writes, IInv, Types, latest
    <3>2. r <= q /\ q <= r
      BY Zenon, <2>2, <2>5 DEF IsLast
    <3> QED  BY <3>1, <3>2
  <2>6. a[c] # Unknown => a[c][k] <= changes[q].state \/ a[c][k] \in generated
    BY Zenon, <2>2 DEF IInv, BehindWorld
  <2>7. /\ changes[q].state <= content[c][k]
        /\ changes[q].state = content[c][k] \/ content[c][k] \in generated
    BY Zenon, <2>2 DEF IInv, JournalSound
  <2> QED  BY Zenon, <2>2, <2>4, <2>5, <2>6, <2>7
<1>3. ASSUME NEW c \in Chunks
      PROVE  x[c] = IF <<c, Planes>> \in batch THEN content[c]
                    ELSE IF a[c] = Unknown THEN Unknown
                    ELSE [k \in Cells |-> IF <<c, k>> \in batch THEN MergedState(v, c, k) ELSE a[c][k]]
  BY Zenon DEF WithBatch
<1>4. ASSUME NEW c \in Chunks, NEW k \in Cells
      PROVE  content[c][k] \in 0..MaxStamp /\ (a[c] # Unknown => a[c][k] \in 0..MaxStamp)
  BY Zenon, <1>1 DEF Image
<1>5. ASSUME NEW c \in Chunks
      PROVE  x[c] \in Image \cup {Unknown} /\ (a[c] # Unknown => x[c] # Unknown)
  <2>1. CASE <<c, Planes>> \in batch
    <3>1. x[c] = content[c]
      BY Zenon, <1>3, <2>1
    <3>2. content[c] \in Image
      BY Zenon, <1>1
    <3> HIDE DEF x
    <3> QED  BY Zenon, <1>1, <3>1, <3>2
  <2>2. CASE <<c, Planes>> \notin batch /\ a[c] = Unknown
    BY Zenon, <1>3, <2>2
  <2>3. CASE <<c, Planes>> \notin batch /\ a[c] # Unknown
    <3>1. [k \in Cells |-> IF <<c, k>> \in batch THEN MergedState(v, c, k) ELSE a[c][k]] \in Image
      BY Zenon, <1>2, <1>4, <2>3 DEF Image
    <3> QED  BY Zenon, <1>1, <1>3, <2>3, <3>1
  <2> QED  BY Zenon, <2>1, <2>2, <2>3
<1>6. x \in Images
  <2>1. \E f : x = [c \in Chunks |-> f[c]]
    <3> DEFINE f == [c \in Chunks |->
                       IF <<c, Planes>> \in batch THEN content[c]
                       ELSE IF a[c] = Unknown THEN Unknown
                       ELSE [k \in Cells |-> IF <<c, k>> \in batch THEN MergedState(v, c, k) ELSE a[c][k]]]
    <3>1. x = f
      BY Zenon DEF WithBatch
    <3>2. f = [c \in Chunks |-> f[c]]
      BY Zenon
    <3> QED  BY Zenon, <3>1, <3>2
  <2> HIDE DEF x
  <2> QED  BY Zenon, <1>5, <2>1 DEF Images
<1>7. ASSUME NEW c \in Chunks, x[c] # Unknown, NEW k \in Cells
      PROVE  \/ x[c][k] = content[c][k] /\ <<c, Planes>> \in batch
             \/ a[c] # Unknown /\ <<c, k>> \in batch /\ <<c, Planes>> \notin batch /\ x[c][k] = MergedState(v, c, k)
             \/ a[c] # Unknown /\ <<c, k>> \notin batch /\ <<c, Planes>> \notin batch /\ x[c][k] = a[c][k]
  BY Zenon, <1>3, <1>7
<1> HIDE DEF x, a
<1>8. Follows(a, x)
  <2> SUFFICES ASSUME NEW c \in Chunks, a[c] # Unknown, NEW k \in Cells
               PROVE  x[c][k] >= a[c][k] \/ a[c][k] \in generated
    BY Zenon, <1>5 DEF Follows
  <2>1. x[c] # Unknown
    BY Zenon, <1>5
  <2>2. a[c][k] <= content[c][k] /\ a[c][k] \in Nat /\ content[c][k] \in Nat
    BY <1>4, WorldSyncAssumption DEF IInv, BehindWorld, a
  <2>3. CASE x[c][k] = MergedState(v, c, k) /\ <<c, k>> \in batch /\ <<c, Planes>> \notin batch
    <3>1. MergedState(v, c, k) \in Nat
      BY <1>2, <2>3, WorldSyncAssumption
    <3> QED  BY Zenon, <1>2, <2>2, <2>3, <3>1
  <2> QED  BY <1>7, <2>1, <2>2, <2>3
<1>9. BehindWorld(x)
  <2> SUFFICES ASSUME NEW c \in Chunks, x[c] # Unknown, NEW k \in Cells
               PROVE  /\ x[c][k] <= content[c][k]
                      /\ \A q \in Writes(c, k) :
                            IsLast(q, c, k) => x[c][k] <= changes[q].state \/ x[c][k] \in generated
    BY Zenon DEF BehindWorld
  <2>1. CASE x[c][k] = content[c][k]
    BY <1>4, <2>1 DEF IInv, JournalSound
  <2>2. CASE <<c, k>> \in batch /\ <<c, Planes>> \notin batch /\ x[c][k] = MergedState(v, c, k)
    BY <1>2, <2>2
  <2>3. CASE a[c] # Unknown /\ x[c][k] = a[c][k]
    BY Zenon, <2>3 DEF IInv, BehindWorld, a
  <2> QED  BY Zenon, <1>7, <2>1, <2>2, <2>3
<1>10. ASSUME NEW c \in Chunks, a[c] # Unknown, NEW k \in Cells
       PROVE  \/ Synced(x, c, k)
              \/ <<c, k>> \notin batch /\ <<c, Planes>> \notin batch /\ x[c][k] = a[c][k]
  BY <1>2, <1>5, <1>7, <1>10 DEF Synced
<1> QED  BY Zenon, <1>5, <1>6, <1>8, <1>9, <1>10 DEF x, a

(* A batch is queued, or refused, which puts the view off to a later tick. *)
LEMMA FlushSendKeeps == IInv /\ Ordered /\ FlushSend => IInv'
<1> SUFFICES ASSUME IInv, Ordered, FlushSend PROVE IInv'  BY Zenon
<1>1. PICK v \in Viewers : v = current
  BY Zenon DEF IInv, Types
<1>2. UNCHANGED <<worldVars, view, cursor, client, todo, current>> /\ pc = "send"
  BY Zenon DEF FlushSend
<1>3. Images' = Images
  BY Zenon DEF Images
<1>4. JournalSound' /\ Overflowed' /\ \A c, k : Writes(c, k)' = Writes(c, k)
  BY Zenon, <1>2, SameWorld DEF IInv, Overflowed, Viewing, CursorIsStale, worldVars
<1>5. CASE view[v] # {} /\ HasRoom(v)
  <2>1. PICK batch \in SUBSET rest : batch = NextBatch
    BY Zenon DEF NextBatch
  <2>2. /\ \A p \in rest : /\ p \in Chunks \X Cells /\ p[1] \in view[v]
                           /\ p[2] # Planes => \E q \in Writes(p[1], p[2]) : q > cursor[v]
        /\ \A c \in view[v], k \in Cells :
              Synced(Received(v), c, k) \/ <<c, k>> \in rest \/ <<c, Planes>> \in rest
    BY Zenon, <1>1, <1>2, <1>5 DEF IInv, RestCovers, Types
  <2>3. PICK x \in Images : x = WithBatch(Received(v), v, batch)
    BY Zenon, <2>1, <2>2, BatchFollows
  <2>4. /\ Follows(Received(v), x) /\ BehindWorld(x)
        /\ \A c \in Chunks : Received(v)[c] # Unknown =>
              /\ x[c] # Unknown
              /\ \A k \in Cells :
                    \/ Synced(x, c, k)
                    \/ <<c, k>> \notin batch /\ <<c, Planes>> \notin batch /\ x[c][k] = Received(v)[c][k]
    BY <2>1, <2>2, <2>3, BatchFollows
  <2>5. /\ queue' = [queue EXCEPT ![v] = Append(@, x)]
        /\ rest' = rest \ batch
        /\ pc' = IF rest' = {} THEN "views" ELSE "send"
        /\ updates' = IF rest' = {} THEN updates \cup {v} ELSE updates
    BY Zenon, <1>1, <1>5, <2>1, <2>3 DEF FlushSend
  <2>6. /\ queue' \in [Viewers -> Seq(Images)]
        /\ \A u \in Viewers : Len(queue'[u]) <= QueueCap
        /\ Received(v)' = x
        /\ \A u \in Viewers \ {v} : queue'[u] = queue[u]
    BY Zenon, <1>2, <1>5, <2>5, Queued DEF IInv
  <2>7. Types'
    <3>1. /\ pc' \in {"idle", "views", "send"} /\ rest' \subseteq Chunks \X Cells
          /\ updates' \subseteq Viewers
      BY Zenon, <2>5 DEF IInv, Types
    <3> QED  BY Zenon, <1>2, <1>3, <2>6, <3>1 DEF IInv, Types, latest, worldVars
  <2>8. ASSUME NEW u \in Viewers \ {v}
        PROVE  Received(u)' = Received(u) /\ InOrder(u)' /\ BehindWorld(Received(u))' /\ Remembered(u)'
    <3>1. Received(u)' = Received(u)
      BY Zenon, <1>2, <2>6, SameReceived
    <3>2. InOrder(u)'
      BY <1>2, <2>6 DEF IInv, InOrder, Follows, worldVars
    <3> QED  BY Zenon, <1>2, <3>1, <3>2, SameSession DEF IInv
  <2>9. InOrder(v)' /\ BehindWorld(Received(v))'
    <3>1. InOrder(v)'
      BY Zenon, <1>2, <2>4, <2>5, QueuedInOrder DEF IInv, worldVars
    <3>2. BehindWorld(Received(v))'
      BY Zenon, <1>2, <1>4, <2>4, <2>6 DEF BehindWorld, IsLast, worldVars
    <3> QED  BY Zenon, <3>1, <3>2
  <2>10. view[v] \subseteq Chunks /\ \A c \in view[v] : Received(v)[c] # Unknown
    BY Zenon, ViewIsOfChunks DEF IInv, Remembered
  <2>11. ASSUME NEW c \in view[v], NEW k \in Cells
         PROVE  /\ x[c] # Unknown
                /\ \/ Synced(x, c, k)
                   \/ <<c, k>> \notin batch /\ <<c, Planes>> \notin batch /\ x[c][k] = Received(v)[c][k]
                /\ Synced(Received(v), c, k) => Synced(x, c, k)
                /\ Synced(x, c, k) \/ <<c, k>> \in rest' \/ <<c, Planes>> \in rest'
    <3>1. /\ x[c] # Unknown
          /\ \/ Synced(x, c, k)
             \/ <<c, k>> \notin batch /\ <<c, Planes>> \notin batch /\ x[c][k] = Received(v)[c][k]
      BY Zenon, <2>4, <2>10
    <3>2. Synced(Received(v), c, k) => Synced(x, c, k)
      BY Zenon, <3>1 DEF Synced
    <3>3. Synced(x, c, k) \/ <<c, k>> \in rest' \/ <<c, Planes>> \in rest'
      BY Zenon, <2>2, <2>5, <3>1, <3>2
    <3> QED  BY Zenon, <3>1, <3>2, <3>3
  <2>12. \A c, k : Synced(Received(v), c, k)' <=> Synced(x, c, k)
    BY Zenon, <1>2, <2>6 DEF Synced, worldVars
  <2>13. Remembered(v)'
    <3>1. /\ CursorIsStale(v)' = CursorIsStale(v)
          /\ \A c : Unsent(v, c)' = Unsent(v, c)
      BY Zenon, <1>2 DEF CursorIsStale, Unsent, worldVars
    <3>2. ASSUME NEW c \in view[v] PROVE Received(v)'[c] # Unknown
      <4>1. Planes \in Cells
        BY Zenon DEF Cells
      <4> QED  BY Zenon, <2>6, <2>11, <4>1
    <3>3. ASSUME NEW c \in view[v], ~CursorIsStale(v), NEW k \in Cells
          PROVE  \/ Synced(x, c, k)
                 \/ \E q \in Writes(c, k) : q > cursor[v]
                 \/ \E q \in Unsent(v, c) : changes[q].kind = "FullChunk"
      BY Zenon, <2>11, <3>3 DEF IInv, Remembered
    <3> QED  BY Zenon, <1>2, <1>4, <2>12, <3>1, <3>2, <3>3 DEF Remembered, worldVars
  <2>14. UpdatesSynced'
    <3> SUFFICES ASSUME NEW u \in updates', NEW c \in view[u], NEW k \in Cells
                 PROVE  Synced(Received(u), c, k)'
      BY Zenon, <1>2, <2>5 DEF UpdatesSynced
    <3>1. CASE u = v
      <4>1. Synced(x, c, k)
        <5>1. CASE v \in updates
          BY Zenon, <2>11, <3>1, <5>1 DEF IInv, UpdatesSynced
        <5>2. CASE rest' = {}
          BY Zenon, <2>11, <3>1, <5>2
        <5> QED  BY Zenon, <2>5, <3>1, <5>1, <5>2
      <4> QED  BY Zenon, <2>12, <3>1, <4>1
    <3>2. CASE u # v
      <4>1. u \in updates /\ u \in Viewers \ {v}
        BY Zenon, <2>5, <2>7, <3>2 DEF Types
      <4>2. Synced(Received(u), c, k) /\ Received(u)' = Received(u)
        BY Zenon, <2>8, <4>1 DEF IInv, UpdatesSynced
      <4> QED  BY Zenon, <1>2, <4>2 DEF Synced, worldVars
    <3> QED  BY Zenon, <3>1, <3>2
  <2>15. RestCovers'
    <3>1. Received(current)' = x
      BY Zenon, <1>1, <1>2, <2>6 DEF Received
    <3>2. \A c, k : Synced(Received(current), c, k)' <=> Synced(x, c, k)
      BY Zenon, <1>2, <3>1 DEF Synced, worldVars
    <3> QED  BY Zenon, <1>1, <1>2, <1>4, <2>2, <2>5, <2>11, <3>2 DEF RestCovers
  <2> QED  BY Zenon, <1>4, <2>7, <2>8, <2>9, <2>13, <2>14, <2>15 DEF IInv
<1>6. CASE ~(view[v] # {} /\ HasRoom(v))
  <2>1. rest' = {} /\ pc' = "views" /\ updates' = updates /\ queue' = queue
    BY Zenon, <1>1, <1>6 DEF FlushSend, AfterRefusal
  <2>2. Types'
    BY Zenon, <1>2, <1>3, <2>1 DEF IInv, Types, latest, worldVars
  <2>3. ASSUME NEW u \in Viewers
        PROVE  Received(u)' = Received(u) /\ InOrder(u)' /\ BehindWorld(Received(u))' /\ Remembered(u)'
    <3>1. InOrder(u)'
      BY Zenon, <1>2, <2>1 DEF IInv, InOrder, Follows, worldVars
    <3> QED  BY Zenon, <1>2, <2>1, <3>1, SameReceived, SameSession DEF IInv
  <2>4. UpdatesSynced'
    <3> SUFFICES ASSUME NEW u \in updates, NEW c \in view[u], NEW k \in Cells
                 PROVE  Synced(Received(u), c, k)'
      BY Zenon, <1>2, <2>1 DEF UpdatesSynced
    <3>1. u \in Viewers /\ Synced(Received(u), c, k)
      BY Zenon DEF IInv, UpdatesSynced, Types
    <3> QED  BY Zenon, <1>2, <2>3, <3>1 DEF Synced, worldVars
  <2>5. RestCovers'
    BY Zenon, <2>1 DEF RestCovers
  <2> QED  BY Zenon, <1>4, <2>2, <2>3, <2>4, <2>5 DEF IInv
<1> QED  BY Zenon, <1>5, <1>6

(* The flush ends: cursors advance, and the journal is pruned up to the      *)
(* first cursor that a viewer still has.                                     *)
LEMMA FlushEndKeeps == IInv /\ Ordered /\ FlushEnd => IInv'
<1> SUFFICES ASSUME IInv, Ordered, FlushEnd PROVE IInv'  BY Zenon
<1>1. /\ UNCHANGED <<content, stamp, generated, next_sequence, view, queue, client, todo, current, rest>>
      /\ pc' = "idle" /\ updates' = {}
  BY Zenon DEF FlushEnd
<1>2. /\ next_sequence \in Nat /\ oldest \in Nat /\ 1 <= oldest /\ oldest <= next_sequence
      /\ latest \in Nat /\ latest = next_sequence - 1
      /\ cursor \in [Viewers -> 0..latest] /\ next_sequence - oldest <= Capacity
      /\ DOMAIN changes = oldest..latest
  BY DEF IInv, Types, latest
<1>3. /\ cursor' \in [Viewers -> 0..latest]
      /\ \A v \in Viewers : view[v] # {} => cursor'[v] = IF v \in updates THEN latest ELSE cursor[v]
      /\ \A v \in Viewers : view[v] = {} => cursor'[v] = cursor[v]
  BY <1>2 DEF FlushEnd
<1>4. PICK s \in Nat : /\ s = PruneThrough({cursor'[v] : v \in Viewing}) /\ s <= latest
                       /\ \A v \in Viewing : s <= cursor'[v]
  <2> DEFINE cursors == {cursor'[v] : v \in Viewing}
  <2>1. cursors \subseteq 0..latest /\ cursors \subseteq Nat
    BY <1>2, <1>3 DEF Viewing
  <2>2. \A v \in Viewing : cursor'[v] \in cursors
    BY Zenon
  <2> HIDE DEF cursors
  <2>3. /\ PruneThrough(cursors) \in Nat /\ PruneThrough(cursors) <= latest
        /\ \A v \in Viewing : PruneThrough(cursors) <= cursor'[v]
    <3>1. CASE cursors = {}
      <4>1. PruneThrough(cursors) = latest
        BY Zenon, <3>1 DEF PruneThrough
      <4> QED  BY <1>2, <2>2, <3>1, <4>1
    <3>2. CASE cursors # {}
      <4>1. \E q \in cursors : \A r \in cursors : q <= r
        BY Zenon, <2>1, <3>2 DEF Ordered
      <4>2. PruneThrough(cursors) = CHOOSE q \in cursors : \A r \in cursors : q <= r
        BY Zenon, <3>2 DEF PruneThrough
      <4>3. PruneThrough(cursors) \in cursors /\ \A r \in cursors : PruneThrough(cursors) <= r
        BY Zenon, <4>1, <4>2
      <4>4. \A q \in cursors : q \in Nat /\ q <= latest
        BY <1>2, <2>1
      <4> QED  BY Zenon, <2>2, <4>3, <4>4
    <3> QED  BY Zenon, <3>1, <3>2
  <2> QED  BY Zenon, <2>3 DEF cursors
<1>5. PruneChangesThrough(s)
  BY Zenon, <1>4 DEF FlushEnd
<1>6. /\ oldest' = IF s < oldest THEN oldest ELSE s + 1
      /\ oldest' \in Nat /\ oldest <= oldest' /\ oldest' <= next_sequence /\ latest' = latest
      /\ changes' \in [oldest'..latest' ->
            [position : Chunks, kind : {"Blocks", "FullChunk"}, cells : SUBSET Cells, state : 1..MaxStamp]]
      /\ \A q \in DOMAIN changes' : q \in DOMAIN changes /\ changes'[q] = changes[q]
      /\ \A q \in DOMAIN changes : q >= oldest' => q \in DOMAIN changes'
      /\ JournalSound'
  BY Zenon, <1>1, <1>4, <1>5, Pruned
<1>7. \A x : BehindWorld(x) => BehindWorld(x)'
  BY Zenon, <1>1, <1>4, <1>5, Pruned
<1>8. Types'
  <2>1. Images' = Images
    BY Zenon DEF Images
  <2>2. \A n, a, b, m \in Nat : a <= b /\ n - a <= m => n - b <= m
    OBVIOUS
  <2>3. Capacity \in Nat
    BY Zenon, WorldSyncAssumption
  <2>4. oldest' >= 1 /\ next_sequence - oldest' <= Capacity
    BY <1>2, <1>6, <2>2, <2>3
  <2> QED  BY Zenon, <1>1, <1>3, <1>6, <2>1, <2>4 DEF IInv, Types
<1>9. ASSUME NEW u \in Viewers PROVE Received(u)' = Received(u) /\ InOrder(u)' /\ BehindWorld(Received(u))'
  <2>1. Received(u)' = Received(u)
    BY Zenon, <1>1, SameReceived
  <2>2. InOrder(u)'
    BY Zenon, <1>1 DEF IInv, InOrder, Follows
  <2>3. BehindWorld(Received(u))'
    BY Zenon, <1>7, <2>1 DEF IInv, BehindWorld
  <2> QED  BY Zenon, <2>1, <2>2, <2>3
<1>10. ASSUME NEW u \in Viewers, view[u] # {}
       PROVE  /\ u \in updates => ~CursorIsStale(u)'
              /\ u \notin updates => cursor'[u] = cursor[u]
              /\ CursorIsStale(u)' => oldest' = oldest
              /\ cursor'[u] \in Nat
              /\ \A q \in DOMAIN changes : q > cursor'[u] => q \in DOMAIN changes'
  <2>1. /\ cursor'[u] \in 0..latest /\ s <= cursor'[u]
        /\ u \in updates => cursor'[u] = latest
        /\ u \notin updates => cursor'[u] = cursor[u]
    BY Zenon, <1>3, <1>4, <1>10 DEF Viewing
  <2>2. u \in updates => ~CursorIsStale(u)'
    BY <1>2, <1>6, <2>1 DEF CursorIsStale
  <2>3. CursorIsStale(u)' => oldest' = oldest
    BY <1>2, <1>6, <2>1 DEF CursorIsStale
  <2>4. ASSUME NEW q \in DOMAIN changes, q > cursor'[u] PROVE q \in DOMAIN changes'
    <3>1. q \in oldest..latest
      BY Zenon, <1>2
    <3>2. q >= oldest'
      BY <1>2, <1>6, <2>1, <2>4, <3>1
    <3> QED  BY Zenon, <1>6, <3>2
  <2> QED  BY <1>2, <2>1, <2>2, <2>3, <2>4
<1>11. ASSUME NEW u \in Viewers PROVE Remembered(u)'
  <2> SUFFICES ASSUME NEW c \in view[u]
               PROVE  /\ Received(u)[c] # Unknown
                      /\ ~CursorIsStale(u)' => \A k \in Cells :
                            \/ Synced(Received(u), c, k)
                            \/ \E q \in Writes(c, k)' : q > cursor'[u]
                            \/ \E q \in Unsent(u, c)' : changes'[q].kind = "FullChunk"
    BY Zenon, <1>1, <1>9 DEF Remembered, Synced
  <2>1. Received(u)[c] # Unknown
    BY Zenon DEF IInv, Remembered
  <2>2. CASE u \in updates
    BY Zenon, <2>1, <2>2 DEF IInv, UpdatesSynced
  <2>3. CASE u \notin updates
    <3>1. cursor'[u] = cursor[u] /\ (~CursorIsStale(u)' => ~CursorIsStale(u))
      BY <1>2, <1>6, <1>10, <2>3 DEF CursorIsStale
    <3>2. ASSUME NEW k PROVE \A q \in Writes(c, k) : q > cursor[u] => q \in Writes(c, k)'
      BY Zenon, <1>6, <1>10, <3>1 DEF Writes
    <3>3. \A q \in Unsent(u, c) : q \in Unsent(u, c)' /\ changes'[q] = changes[q]
      BY Zenon, <1>6, <1>10, <3>1 DEF Unsent
    <3> QED  BY Zenon, <2>1, <3>1, <3>2, <3>3 DEF IInv, Remembered
  <2> QED  BY Zenon, <2>2, <2>3
<1>12. Overflowed'
  <2> SUFFICES ASSUME NEW u \in Viewers, view[u] # {}, CursorIsStale(u)'
               PROVE  next_sequence - oldest' = Capacity
    BY Zenon, <1>1 DEF Overflowed, Viewing
  <2>1. oldest' = oldest /\ cursor'[u] = cursor[u]
    BY Zenon, <1>10
  <2>2. CursorIsStale(u)
    BY Zenon, <2>1 DEF CursorIsStale
  <2> QED  BY Zenon, <2>1, <2>2 DEF IInv, Overflowed, Viewing
<1>13. UpdatesSynced' /\ RestCovers'
  BY Zenon, <1>1 DEF UpdatesSynced, RestCovers
<1> QED  BY Zenon, <1>6, <1>8, <1>9, <1>11, <1>12, <1>13 DEF IInv

-----------------------------------------------------------------------------
(* The theorems. *)

LEMMA InitHolds == Init => IInv
<1> SUFFICES ASSUME Init PROVE IInv  BY Zenon
<1> USE DEF Init
<1>1. latest = 0 /\ oldest..latest = {}
  BY DEF latest
<1>2. Types
  <2>1. [k \in Cells |-> 0] \in Image /\ MaxStamp \in Nat /\ Capacity \in Nat /\ QueueCap \in Nat
    BY WorldSyncAssumption DEF Image
  <2>2. content \in [Chunks -> Image] /\ client \in [Viewers -> Images] /\ queue \in [Viewers -> Seq(Images)]
    BY <2>1 DEF Images
  <2>3. changes \in [oldest..latest ->
          [position : Chunks, kind : {"Blocks", "FullChunk"}, cells : SUBSET Cells, state : 1..MaxStamp]]
    BY <1>1
  <2>4. cursor \in [Viewers -> 0..latest] /\ view \in [Viewers -> Views \cup {{}}]
    BY <1>1
  <2> QED  BY <2>1, <2>2, <2>3, <2>4 DEF Types
<1>3. \A c, k : Writes(c, k) = {}
  BY DEF Writes
<1>4. JournalSound
  BY <1>3 DEF JournalSound
<1>5. ASSUME NEW v \in Viewers PROVE BehindWorld(Received(v)) /\ InOrder(v) /\ Remembered(v)
  BY DEF Received, BehindWorld, InOrder, Remembered
<1>6. Overflowed /\ UpdatesSynced /\ RestCovers
  BY Zenon DEF Overflowed, Viewing, UpdatesSynced, RestCovers
<1> QED  BY Zenon, <1>2, <1>4, <1>5, <1>6 DEF IInv

LEMMA StutterKeeps == IInv /\ UNCHANGED vars => IInv'
<1> SUFFICES ASSUME IInv, UNCHANGED vars PROVE IInv'  BY Zenon
<1> USE DEF vars, flushVars
<1>1. ASSUME NEW u \in Viewers
      PROVE  Received(u)' = Received(u) /\ InOrder(u)' /\ BehindWorld(Received(u))' /\ Remembered(u)'
  <2>1. InOrder(u)'
    BY Zenon DEF IInv, InOrder, Follows, worldVars
  <2> QED  BY Zenon, <2>1, SameReceived, SameSession DEF IInv
<1>2. Types'
  BY Zenon DEF IInv, Types, Images, latest, worldVars
<1>3. JournalSound' /\ Overflowed'
  BY Zenon, SameWorld DEF IInv, Overflowed, Viewing, CursorIsStale, worldVars
<1>4. UpdatesSynced' /\ RestCovers'
  BY Zenon DEF IInv, UpdatesSynced, RestCovers, Synced, Received, Writes, worldVars
<1> QED  BY Zenon, <1>1, <1>2, <1>3, <1>4 DEF IInv

(* The inductive invariant: the journal has the last journalled write of     *)
(* every cell it mentions, what a client will show is older than the world   *)
(* and than what may be replayed over it, and lags only where an entry past  *)
(* the session's cursor, or a packet still to be sent, makes up for it.      *)
THEOREM Invariance == Spec => []IInv
<1>1. IInv /\ Ordered /\ [Next]_vars => IInv'
  <2> SUFFICES ASSUME IInv, Ordered, [Next]_vars PROVE IInv'  BY Zenon
  <2>1. CASE \E c \in Chunks, cells \in Patches : ApplyPatch(c, cells)
    BY Zenon, <2>1, PatchKeeps
  <2>2. CASE \E c \in Chunks, k \in Blocks : PostProcess(c, k)
    BY Zenon, <2>2, PostProcessKeeps
  <2>3. CASE \E v \in Viewers, area \in Views : CommitInitial(v, area) \/ CommitTransition(v, area)
    BY Zenon, <2>3, CommitInitialKeeps, CommitTransitionKeeps
  <2>4. CASE \E v \in Viewers : EndSession(v)
    BY Zenon, <2>4, EndSessionKeeps
  <2>5. CASE Flush
    BY Zenon, <2>5, FlushBeginKeeps, FlushViewKeeps, FlushSendKeeps, FlushEndKeeps DEF Flush
  <2>6. CASE \E v \in Viewers : SendCommand(v)
    BY Zenon, <2>6, SendCommandKeeps
  <2>7. CASE UNCHANGED vars
    BY Zenon, <2>7, StutterKeeps
  <2> QED  BY Zenon, <2>1, <2>2, <2>3, <2>4, <2>5, <2>6, <2>7 DEF Next, Moves
<1>2. IInv => Types
  BY Zenon DEF IInv
<1> QED  BY <1>1, <1>2, InitHolds, InitOrdered, OrderedKeeps, PTL DEF Spec

(* A client that differs from the world inside its view is never forgotten:  *)
(* the journal has the difference past the session's cursor, or the cursor   *)
(* is stale because the journal overflowed and the flush resends the view,   *)
(* or the generator wrote last; whatever the flush was doing, and however    *)
(* often a full queue cut it short.                                          *)
THEOREM NoChangeIsForgotten == Spec => []NothingForgotten
<1>1. IInv => NothingForgotten
  <2> SUFFICES ASSUME IInv PROVE NothingForgotten  BY Zenon
  <2>1. TypeOK
    <3>1. /\ next_sequence \in 1..(MaxStamp + 1) /\ oldest \in 1..next_sequence
          /\ cursor \in [Viewers -> 0..MaxStamp]
      <4>1. /\ next_sequence \in Nat /\ oldest \in Nat /\ oldest >= 1 /\ oldest <= next_sequence
            /\ next_sequence <= stamp + 1 /\ stamp \in 0..MaxStamp /\ MaxStamp \in Nat
            /\ cursor \in [Viewers -> 0..latest]
        BY Zenon, WorldSyncAssumption DEF IInv, Types
      <4>2. latest \in 0..MaxStamp
        BY <4>1 DEF latest
      <4> QED  BY <4>1, <4>2
    <3>2. ASSUME NEW v \in Viewers
          PROVE  /\ \A i \in DOMAIN queue[v] : queue[v][i] \in [Chunks -> Image \cup {Unknown}]
                 /\ client[v] \in [Chunks -> Image \cup {Unknown}]
      <4>1. queue[v] \in Seq(Images) /\ client[v] \in Images
        BY Zenon DEF IInv, Types
      <4> QED  BY <4>1 DEF Images
    <3> QED  BY Zenon, <3>1, <3>2 DEF IInv, Types, TypeOK
  <2>2. ASSUME NEW v \in Viewing, NEW c \in view[v]
        PROVE  /\ Received(v)[c] # Unknown
               /\ ~CursorIsStale(v) =>
                    \A k \in Cells :
                       Received(v)[c][k] # content[c][k] =>
                           \/ content[c][k] \in generated
                           \/ k \in Touched(v, c)
                           \/ \E q \in Unsent(v, c) : changes[q].kind = "FullChunk"
    <3>1. Remembered(v)
      BY Zenon DEF IInv, Viewing
    <3> QED  BY Zenon, <3>1, TouchedIsWritten DEF Remembered, Synced
  <2>3. Overflowed
    BY Zenon DEF IInv
  <2> QED  BY Zenon, <2>1, <2>2, <2>3 DEF NothingForgotten, Overflowed
<1> QED  BY <1>1, Invariance, PTL

(* What a client shows of a chunk it keeps in view never goes back to an     *)
(* older state, but for blocks the generator wrote past the journal: neither *)
(* a batch sent again after backpressure nor an entry older than a chunk     *)
(* that entered the view takes a block back.                                 *)
THEOREM NoClientGoesBack == Spec => ClientsNeverGoBack
<1> DEFINE Forward ==
       \A v \in Viewing : view'[v] # {} =>
         \A c \in view[v] \cap view'[v], k \in Cells :
            client[v][c] # Unknown =>
               /\ client'[v][c] # Unknown
               /\ client'[v][c][k] >= client[v][c][k] \/ client[v][c][k] \in generated
<1>1. IInv /\ [Next]_vars => [Forward]_vars
  <2> SUFFICES ASSUME IInv, Next, NEW v \in Viewers, view'[v] # {}, NEW c \in view[v], NEW k \in Cells,
                      client[v][c] # Unknown
               PROVE  /\ client'[v][c] # Unknown
                      /\ client'[v][c][k] >= client[v][c][k] \/ client[v][c][k] \in generated
    BY Zenon DEF Viewing
  <2>1. c \in Chunks /\ client[v] \in [Chunks -> Image \cup {Unknown}] /\ client[v][c][k] \in Nat
    <3>1. client[v] \in [Chunks -> Image \cup {Unknown}]
      BY Zenon DEF IInv, Types, Images
    <3>2. c \in Chunks
      BY Zenon, ViewIsOfChunks DEF IInv
    <3>3. client[v][c] \in [Cells -> 0..MaxStamp]
      BY Zenon, <3>1, <3>2 DEF Image
    <3> QED  BY <3>1, <3>2, <3>3
  <2>2. CASE client'[v] = client[v]
    BY <2>1, <2>2
  <2>3. ASSUME NEW u \in Viewers, SendCommand(u), client'[v] # client[v]
        PROVE  /\ client'[v][c] # Unknown
               /\ client'[v][c][k] >= client[v][c][k] \/ client[v][c][k] \in generated
    <3>1. queue[v] \in Seq(Images) /\ queue[v] # <<>> /\ client'[v] = queue[v][1]
      <4>1. u = v
        BY Zenon, <2>3 DEF SendCommand, IInv, Types
      <4> QED  BY <2>3, <4>1 DEF SendCommand, IInv, Types
    <3>2. 1 \in 1..Len(queue[v])
      BY <3>1
    <3>3. Follows(client[v], queue[v][1])
      BY Zenon, <3>2 DEF IInv, InOrder
    <3> QED  BY Zenon, <2>1, <3>1, <3>3 DEF Follows
  <2>4. ASSUME NEW u \in Viewers, EndSession(u) PROVE client'[v] = client[v]
    BY Zenon, <2>4 DEF EndSession, IInv, Types
  <2>5. \/ client' = client
        \/ \E u \in Viewers : EndSession(u) \/ SendCommand(u)
    BY Zenon DEF Next, Moves, Flush, ApplyPatch, PostProcess, CommitInitial, CommitTransition,
           FlushBegin, FlushView, FlushSend, FlushEnd
  <2> QED  BY Zenon, <2>2, <2>3, <2>4, <2>5
<1>2. ClientsNeverGoBack <=> [][Forward]_vars
  BY Zenon DEF ClientsNeverGoBack
<1> QED  BY <1>1, <1>2, Invariance, PTL DEF Spec
=============================================================================
