------------------------- MODULE SessionHostProofs -------------------------
(***************************************************************************)
(* The session host, for any number of sessions: pins are exactly those of *)
(* the views and plans that live, a view follows its player, and PHP sees  *)
(* the life of a session in order.                                         *)
(*                                                                         *)
(* The host and the owner meet in a locked SessionState between any two    *)
(* steps of the other.  What a state says of itself (`Consistent') no step *)
(* can break; what the owner remembers from an earlier call (the chunks it *)
(* fetched, the slot it holds, the position it found resident) stays true  *)
(* or stops mattering when the host replaces the plan or ends the session. *)
(***************************************************************************)
EXTENDS SessionHost, FiniteSetTheorems, WellFoundedInduction, TLAPS

Early == {"WaitingLogin", "LoginPending", "WaitingChunkRadius"}

(* What a SessionState says, whoever else knows the session. *)
Consistent(st) ==
    /\ st \in SessionStates /\ Len(st.deferred) <= MaxDeferred
    /\ st.phase \in Early => st.view = None /\ st.pending = None /\ st.desired = None
    /\ st.phase = "WaitingChunkRadius" => st.player # None
    /\ st.phase = "WaitingInitialChunks" =>
          st.view = None /\ st.desired = None /\ st.pending # None /\ st.pending.to.center = st.player
    /\ st.phase = "Spawned" => st.view # None /\ Target(st).center = st.player
    /\ st.pending # None => st.pending.from = st.view /\ st.pending.prepared \subseteq Entering(st.pending)
    /\ st.desired # None => st.pending # None /\ st.pending.to.radius = st.desired

Viewers(f, c)   == {s \in Sessions : c \in Area(f[s].view)}
Preparers(f, c) == {s \in Sessions : c \in Prepared(f[s])}
Exact(p, f) == \A c \in Chunks : p[c] = Cardinality(Viewers(f, c)) + Cardinality(Preparers(f, c))

Views ==
    /\ state \in [Sessions -> SessionStates] /\ \A s \in Sessions : Consistent(state[s])
    /\ pins \in [Chunks -> Nat] /\ Exact(pins, state)
    /\ \A s \in Sessions : Area(state[s].view) \cup Prepared(state[s]) \subseteq resident
    /\ DOMAIN client = Sessions
    /\ \A s \in Sessions : state[s].view # None => client[s] = Area(state[s].view)

Tasks == {"new", "announced", "refused", "live", "closing", "removed", "dropped", "ended"}
EventKinds == {"Connected", "LoginRequested", "Packet", "Disconnected"}
Commands == {"send", "disconnect"}
Events == [kind : EventKinds, session : Sessions]
Bounded(q) == q \in [Sessions -> Seq(Commands)] /\ \A s \in Sessions : Len(q[s]) <= CommandCap

Queues ==
    /\ task \in [Sessions -> Tasks]
    /\ Bounded(commands)
    /\ events \in Seq(Events) /\ Len(events) <= EventCap
    /\ shut \in BOOLEAN /\ (shut => \A s \in Sessions : task[s] # "announced")
    /\ sessions = IF shut THEN {} ELSE {s \in Sessions : task[s] \in {"live", "closing"}}
    /\ left \in 0 .. Budget

(* The owner, and what it remembers of the session it serves. *)
Calls   == {"accept", "mark", "fetch", "complete"}
Ticking == {"next", "prepare", "mark", "fetch", "complete", "dispatch"}
Owner ==
    /\ pc \in {"poll", "reject", "sync", "evict", "joining", "stopped"} \cup Calls \cup Ticking
    /\ pc \in {"accept", "reject", "prepare", "mark", "fetch", "complete"} => session \in Sessions
    /\ held # None => held = session /\ pc \in Calls
    /\ spawned \subseteq Sessions /\ (spawned # {} => pc \in Ticking)
    /\ IsFiniteSet(fetched)
    /\ pc = "mark" => MinOf(work) \in resident
    /\ pc = "complete" /\ state[session].pending # None =>
          fetched = Entering(state[session].pending) \/ state[session].pending.prepared = {}

(* A session that nobody refers to any more, or does not yet, holds nothing. *)
Unborn == {"new", "announced", "refused"}
Over   == {"dropped", "ended"}
Gone ==
    /\ \A s \in Sessions : task[s] \in Over /\ held # s => state[s] = Fresh
    /\ \A s \in Sessions : task[s] \in Unborn => state[s] = Fresh /\ held # s
    /\ \A s \in Sessions : story[s] = "disconnected" => task[s] = "ended" /\ held # s

(* What PHP was told and what is on its way to it: events of a session come
   after its Connected, and Disconnected after everything the host did. *)
Stories == {"none", "connected", "accepted", "spawned", "disconnected"}
Absent  == {"new", "refused"}
Announced(q, s, n) == \E m \in 1 .. n : q[m] = Event("Connected", s)
EventHeard(q, n, t, h) ==
    /\ t[q[n].session] \notin Absent
    /\ q[n].kind = "Connected" => h[q[n].session] = "none"
    /\ q[n].kind = "Disconnected" => t[q[n].session] = "ended"
    /\ h[q[n].session] = "none" => Announced(q, q[n].session, n)
HeardOf(q, t, h) ==
    /\ \A s \in Sessions : t[s] \in Absent => h[s] = "none"
    /\ \A s \in Sessions : h[s] = "none" /\ t[s] \notin Absent => Announced(q, s, Len(q))
    /\ \A n \in 1 .. Len(q) : EventHeard(q, n, t, h)
    /\ \A m, n \in 1 .. Len(q) : q[m].kind = "Connected" /\ q[n] = q[m] => m = n
Heard ==
    /\ story \in [Sessions -> Stories] /\ HeardOf(events, task, story)
    /\ pc = "accept" => story[session] # "none"

(* How far PHP believes a session is, and how far its state is. *)
Joining == {"WaitingChunkRadius", "WaitingInitialChunks"}
Agreed ==
    /\ \A s \in Sessions : state[s].phase \in Joining => story[s] = "accepted" /\ s \notin spawned
    /\ \A s \in Sessions : story[s] \in {"accepted", "spawned"} /\ (task[s] \notin Over \/ held = s) =>
          state[s].phase \notin {"WaitingLogin", "LoginPending"}
    /\ \A s \in spawned : story[s] = "accepted"

IInv == Views /\ Queues /\ Owner /\ Gone /\ Heard /\ Agreed

-----------------------------------------------------------------------------
(* Counting.  One element more or less in a set changes its size by one. *)
Ind(b) == IF b THEN 1 ELSE 0

LEMMA Count ==
    ASSUME NEW S, IsFiniteSet(S), NEW A \in SUBSET S, NEW B \in SUBSET S, NEW x \in S, A \ {x} = B \ {x}
    PROVE  /\ Cardinality(A) \in Nat /\ Ind(x \in A) <= Cardinality(A)
           /\ Cardinality(B) = Cardinality(A) + Ind(x \in B) - Ind(x \in A)
  <1>1. IsFiniteSet(A) /\ IsFiniteSet(B)
    BY Zenon, FS_Subset
  <1>2. /\ Cardinality(A) \in Nat /\ Cardinality(B) \in Nat
        /\ Cardinality(A \ {x}) = IF x \in A THEN Cardinality(A) - 1 ELSE Cardinality(A)
        /\ Cardinality(B \ {x}) = IF x \in B THEN Cardinality(B) - 1 ELSE Cardinality(B)
    BY <1>1, FS_CardinalityType, FS_RemoveElement
  <1>3. Cardinality(A \ {x}) \in Nat
    BY Zenon, <1>1, FS_CardinalityType, FS_RemoveElement
  <1> QED
    BY <1>2, <1>3 DEF Ind

(* A set of numbers has a least element. *)
LEMMA Least ==
    ASSUME NEW S \in SUBSET Nat, S # {}
    PROVE  MinOf(S) \in S
  <1>1. PICK x \in S : \A y \in S : ~(<<y, x>> \in OpToRel(<, Nat))
    BY Zenon, NatLessThanWellFounded, WFMin
  <1>2. \A y \in S : ~(y < x)
    BY Zenon, <1>1 DEF OpToRel
  <1>3. \A y \in S : x <= y
    BY <1>2
  <1> QED
    BY Zenon, <1>3 DEF MinOf

-----------------------------------------------------------------------------
(* Views, plans and states. *)

LEMMA NatInInt ==
    Nat \subseteq Int
  OBVIOUS

LEMMA Constants ==
    /\ Sessions \subseteq Nat /\ IsFiniteSet(Sessions)
    /\ Spawn \in Int /\ Places \subseteq Int
    /\ MaxRadius \in Nat /\ 1 <= MaxRadius /\ MaxDeferred \in Nat
    /\ EventCap \in Nat /\ CommandCap \in Nat /\ Budget \in Nat
  <1>1. /\ Sessions \subseteq Nat \ {0} /\ IsFiniteSet(Sessions)
        /\ Spawn \in Int /\ Places \subseteq Int
        /\ MaxRadius \in Nat \ {0} /\ EventCap \in Nat \ {0} /\ CommandCap \in Nat \ {0}
        /\ Budget \in Nat \ {0} /\ MaxDeferred \in Nat
    BY Zenon, SessionHostAssumption
  <1> QED
    BY <1>1

LEMMA NoneApart ==
    /\ None \notin Sessions /\ None \notin Places \cup {Spawn} /\ None \notin 1 .. MaxRadius
    /\ None \notin View /\ None \notin Plan
  <1>1. Sessions \subseteq Int /\ Places \cup {Spawn} \subseteq Int /\ 1 .. MaxRadius \subseteq Int
    BY Constants
  <1>2. None \notin Int /\ None \notin View /\ None \notin Plan
    BY Zenon, SessionHostAssumption
  <1> QED
    BY Zenon, <1>1, <1>2

LEMMA AreaInChunks ==
    ASSUME NEW v \in View \cup {None}
    PROVE  Area(v) \subseteq Chunks /\ IsFiniteSet(Area(v))
  <1>1. CASE v = None
    BY Zenon, <1>1, FS_EmptySet DEF Area
  <1>2. CASE v # None
    <2>0. v.center \in Places \cup {Spawn} /\ v.radius \in 1 .. MaxRadius
      BY Zenon, <1>2 DEF View
    <2>1. /\ v.center \in Places \cup {Spawn} /\ v.center \in Int
          /\ v.radius \in Int /\ v.radius <= MaxRadius /\ MaxRadius \in Int
      <3>1. v.center \in Int /\ MaxRadius \in Int
        BY Zenon, <2>0, Constants, NatInInt
      <3>2. \A r \in 1 .. MaxRadius : r \in Int /\ r <= MaxRadius
        BY <3>1
      <3> QED
        BY Zenon, <2>0, <3>1, <3>2
    <2>2. Area(v) = (v.center - v.radius) .. (v.center + v.radius)
      BY Zenon, <1>2 DEF Area
    <2>3. ASSUME NEW c \in Area(v) PROVE c \in Chunks
      <3>1. c - v.center \in -MaxRadius .. MaxRadius /\ c = v.center + (c - v.center)
        BY <2>1, <2>2
      <3> QED
        BY <2>1, <3>1 DEF Chunks
    <2>4. IsFiniteSet(Area(v))
      BY <2>1, <2>2, FS_Interval
    <2> QED
      BY Zenon, <2>3, <2>4
  <1> QED
    BY Zenon, <1>1, <1>2

(* The positions a plan asks for can be counted and lie in the world. *)
LEMMA EnteringInChunks ==
    ASSUME NEW w \in Plan
    PROVE  Entering(w) \subseteq Chunks /\ IsFiniteSet(Entering(w))
  <1>1. w.to \in View \cup {None}
    BY DEF Plan
  <1>2. Area(w.to) \subseteq Chunks /\ IsFiniteSet(Area(w.to))
    BY Zenon, <1>1, AreaInChunks
  <1>3. Entering(w) \subseteq Area(w.to)
    BY Zenon DEF Entering
  <1> QED
    BY Zenon, <1>2, <1>3, FS_Subset

LEMMA StateType ==
    ASSUME NEW st \in SessionStates
    PROVE  /\ st.view \in View \cup {None} /\ st.pending \in Plan \cup {None}
           /\ st.player \in Places \cup {Spawn, None} /\ st.desired \in (1 .. MaxRadius) \cup {None}
           /\ st.deferred \in Seq(Packets)
           /\ Area(st.view) \subseteq Chunks /\ Prepared(st) \subseteq Chunks
           /\ st.phase \in Early \cup {"WaitingInitialChunks", "Spawned"}
  <1>1. /\ st.view \in View \cup {None} /\ st.pending \in Plan \cup {None}
        /\ st.player \in Places \cup {Spawn, None} /\ st.desired \in (1 .. MaxRadius) \cup {None}
        /\ st.deferred \in Seq(Packets)
        /\ st.phase \in Early \cup {"WaitingInitialChunks", "Spawned"}
    BY Zenon DEF SessionStates, Early
  <1>2. Prepared(st) \subseteq Chunks
    BY <1>1 DEF Prepared, Plan
  <1> QED
    BY Zenon, <1>1, <1>2, AreaInChunks

LEMMA FreshState ==
    /\ Consistent(Fresh) /\ Area(Fresh.view) = {} /\ Prepared(Fresh) = {}
    /\ Fresh.view = None /\ Fresh.pending = None /\ Fresh.phase = "WaitingLogin"
  <1>1. /\ Fresh.view = None /\ Fresh.pending = None /\ Fresh.phase = "WaitingLogin"
        /\ Fresh.deferred = <<>> /\ Fresh.desired = None /\ Fresh.player = None
    BY DEF Fresh
  <1>2. Fresh \in SessionStates
    BY DEF Fresh, SessionStates
  <1>3. Len(Fresh.deferred) <= MaxDeferred
    BY <1>1, Constants
  <1> QED
    BY <1>1, <1>2, <1>3 DEF Consistent, Area, Prepared, Early

-----------------------------------------------------------------------------
(* Pins. *)

States == [Sessions -> SessionStates]

(* What a pin count has to follow when the state of one session changes. *)
LEMMA ExactAfter ==
    ASSUME NEW f \in States, NEW s \in Sessions, NEW st \in SessionStates, NEW p, NEW q, Exact(p, f),
           \A c \in Chunks : q[c] = p[c] + Ind(c \in Area(st.view)) - Ind(c \in Area(f[s].view))
                                         + Ind(c \in Prepared(st)) - Ind(c \in Prepared(f[s]))
    PROVE  Exact(q, [f EXCEPT ![s] = st])
  <1> DEFINE g == [f EXCEPT ![s] = st]
  <1> SUFFICES ASSUME NEW c \in Chunks
               PROVE  q[c] = Cardinality(Viewers(g, c)) + Cardinality(Preparers(g, c))
    BY Zenon DEF Exact
  <1>1. g[s] = st /\ \A t \in Sessions \ {s} : g[t] = f[t]
    BY DEF States
  <1> HIDE DEF g
  <1>2. Viewers(f, c) \ {s} = Viewers(g, c) \ {s} /\ Preparers(f, c) \ {s} = Preparers(g, c) \ {s}
    BY Zenon, <1>1 DEF Viewers, Preparers
  <1>7. /\ (s \in Viewers(g, c)) = (c \in Area(st.view)) /\ (s \in Viewers(f, c)) = (c \in Area(f[s].view))
        /\ (s \in Preparers(g, c)) = (c \in Prepared(st)) /\ (s \in Preparers(f, c)) = (c \in Prepared(f[s]))
    BY <1>1 DEF Viewers, Preparers
  <1>3. /\ Viewers(f, c) \in SUBSET Sessions /\ Viewers(g, c) \in SUBSET Sessions
        /\ Preparers(f, c) \in SUBSET Sessions /\ Preparers(g, c) \in SUBSET Sessions
        /\ IsFiniteSet(Sessions)
    BY Constants DEF Viewers, Preparers
  <1>4. /\ Cardinality(Viewers(f, c)) \in Nat
        /\ Cardinality(Viewers(g, c)) =
              Cardinality(Viewers(f, c)) + Ind(s \in Viewers(g, c)) - Ind(s \in Viewers(f, c))
    BY <1>2, <1>3, Count
  <1>5. /\ Cardinality(Preparers(f, c)) \in Nat
        /\ Cardinality(Preparers(g, c)) =
              Cardinality(Preparers(f, c)) + Ind(s \in Preparers(g, c)) - Ind(s \in Preparers(f, c))
    BY <1>2, <1>3, Count
  <1>6. p[c] = Cardinality(Viewers(f, c)) + Cardinality(Preparers(f, c))
    BY Zenon DEF Exact
  <1> QED
    BY <1>4, <1>5, <1>6, <1>7 DEF Ind

(* A session's own pins are counted. *)
LEMMA Counted ==
    ASSUME NEW f \in States, NEW s \in Sessions, NEW p, Exact(p, f), NEW c \in Chunks
    PROVE  p[c] \in Nat /\ Ind(c \in Area(f[s].view)) + Ind(c \in Prepared(f[s])) <= p[c]
  <1>1. /\ Viewers(f, c) \in SUBSET Sessions /\ Preparers(f, c) \in SUBSET Sessions
        /\ IsFiniteSet(Sessions)
        /\ (s \in Viewers(f, c)) = (c \in Area(f[s].view))
        /\ (s \in Preparers(f, c)) = (c \in Prepared(f[s]))
    BY Constants DEF Viewers, Preparers
  <1>2. /\ Cardinality(Viewers(f, c)) \in Nat /\ Ind(s \in Viewers(f, c)) <= Cardinality(Viewers(f, c))
        /\ Cardinality(Preparers(f, c)) \in Nat /\ Ind(s \in Preparers(f, c)) <= Cardinality(Preparers(f, c))
    BY Zenon, <1>1, Count
  <1>3. p[c] = Cardinality(Viewers(f, c)) + Cardinality(Preparers(f, c))
    BY Zenon DEF Exact
  <1> QED
    BY <1>1, <1>2, <1>3 DEF Ind

LEMMA Unpins ==
    ASSUME NEW p \in [Chunks -> Nat], NEW C
    PROVE  /\ Unpin(p, C) \in [Chunks -> Nat]
           /\ \A c \in Chunks : Unpin(p, C)[c] = IF c \in C /\ p[c] > 0 THEN p[c] - 1 ELSE p[c]
  BY DEF Unpin

(* The last reference to a session gives back its pins, each of them once. *)
LEMMA DropExact ==
    ASSUME NEW f \in States, NEW s \in Sessions, NEW p \in [Chunks -> Nat], Exact(p, f)
    PROVE  /\ DropPins(p, f[s]) \in [Chunks -> Nat]
           /\ Exact(DropPins(p, f[s]), [f EXCEPT ![s] = Fresh])
  <1> DEFINE q == Unpin(p, Area(f[s].view))
             r == DropPins(p, f[s])
  <1>1. q \in [Chunks -> Nat] /\ r = Unpin(q, Prepared(f[s])) /\ r \in [Chunks -> Nat]
    BY Zenon, Unpins DEF DropPins
  <1>2. ASSUME NEW c \in Chunks
        PROVE  r[c] = p[c] - Ind(c \in Area(f[s].view)) - Ind(c \in Prepared(f[s]))
    <2>1. p[c] \in Nat /\ Ind(c \in Area(f[s].view)) + Ind(c \in Prepared(f[s])) <= p[c]
      BY Zenon, Counted
    <2>2. q[c] = IF c \in Area(f[s].view) /\ p[c] > 0 THEN p[c] - 1 ELSE p[c]
      BY Zenon, Unpins
    <2> HIDE DEF q, r
    <2>3. r[c] = IF c \in Prepared(f[s]) /\ q[c] > 0 THEN q[c] - 1 ELSE q[c]
      BY Zenon, <1>1, Unpins
    <2> QED
      BY <2>1, <2>2, <2>3 DEF Ind
  <1> HIDE DEF q, r
  <1>3. Fresh \in SessionStates /\ Area(Fresh.view) = {} /\ Prepared(Fresh) = {}
    BY Zenon, FreshState DEF Consistent
  <1>4. ASSUME NEW c \in Chunks
        PROVE  r[c] = p[c] + Ind(c \in Area(Fresh.view)) - Ind(c \in Area(f[s].view))
                           + Ind(c \in Prepared(Fresh)) - Ind(c \in Prepared(f[s]))
    BY <1>2, <1>3 DEF Ind
  <1>5. Exact(r, [f EXCEPT ![s] = Fresh])
    BY Zenon, <1>3, <1>4, ExactAfter
  <1> QED
    BY Zenon, <1>1, <1>5 DEF r

(* A call of the owner that leaves state st and pins p, whether or not it drops
   the last reference. *)
Left(st) == IF task[session] \in Over THEN Fresh ELSE st
LEMMA SettleExact ==
    ASSUME state \in States, session \in Sessions, NEW st, Consistent(st), NEW p \in [Chunks -> Nat],
           Exact(p, [state EXCEPT ![session] = st]), Settle(st, p)
    PROVE  /\ pins' \in [Chunks -> Nat] /\ Exact(pins', state')
           /\ state' = [state EXCEPT ![session] = Left(st)] /\ Consistent(Left(st)) /\ held' = None
  <1>1. CASE task[session] \notin Over
    BY Zenon, <1>1 DEF Settle, Left, Over
  <1>2. CASE task[session] \in Over
    <2> DEFINE f == [state EXCEPT ![session] = st]
    <2>1. f \in States /\ f[session] = st /\ [f EXCEPT ![session] = Fresh] = [state EXCEPT ![session] = Fresh]
      BY Zenon DEF States, Consistent
    <2> HIDE DEF f
    <2>2. state' = [state EXCEPT ![session] = Fresh] /\ pins' = DropPins(p, st) /\ held' = None
      BY Zenon, <1>2 DEF Settle, Over
    <2>3. /\ DropPins(p, f[session]) \in [Chunks -> Nat]
          /\ Exact(DropPins(p, f[session]), [f EXCEPT ![session] = Fresh])
      BY Zenon, <2>1, DropExact DEF f
    <2>4. pins' \in [Chunks -> Nat] /\ Exact(pins', state')
      BY Zenon, <2>1, <2>2, <2>3
    <2> QED
      BY Zenon, <1>2, <2>2, <2>4, FreshState DEF Left
  <1> QED
    BY Zenon, <1>1, <1>2

(* Nothing changes for the pins when neither the view nor the prepared set does. *)
LEMMA ExactSame ==
    ASSUME NEW f \in States, NEW s \in Sessions, NEW st \in SessionStates, NEW p, Exact(p, f),
           st.view = f[s].view, st.pending = f[s].pending
    PROVE  Exact(p, [f EXCEPT ![s] = st])
  <1>1. Prepared(st) = Prepared(f[s])
    BY Zenon DEF Prepared
  <1>2. ASSUME NEW c \in Chunks
        PROVE  p[c] = p[c] + Ind(c \in Area(st.view)) - Ind(c \in Area(f[s].view))
                           + Ind(c \in Prepared(st)) - Ind(c \in Prepared(f[s]))
    <2>1. p[c] \in Nat
      BY Zenon, Counted
    <2> QED
      BY <1>1, <2>1 DEF Ind
  <1> QED
    BY Zenon, <1>2, ExactAfter

-----------------------------------------------------------------------------
(* Packets. *)

LEMMA PacketType ==
    ASSUME NEW p \in Packets
    PROVE  /\ p.kind = "move" => p.to \in Places
           /\ p.kind = "radius" => Effective(p.radius) \in 1 .. MaxRadius
  <1>1. p \in {Login, Other} \cup {Move(c) : c \in Places} \cup {Radius(r) : r \in 1 .. (MaxRadius + 1)}
    BY Zenon, SessionHostAssumption
  <1>2. CASE p \in {Login, Other}
    BY <1>2 DEF Login, Other
  <1>3. CASE p \in {Move(c) : c \in Places}
    BY <1>3 DEF Move
  <1>4. CASE p \in {Radius(r) : r \in 1 .. (MaxRadius + 1)}
    <2>1. PICK r \in 1 .. (MaxRadius + 1) : p = Radius(r)
      BY Zenon, <1>4
    <2>2. p.kind = "radius" /\ p.radius = r
      BY <2>1 DEF Radius
    <2>3. Effective(r) \in 1 .. MaxRadius
      BY Constants DEF Effective
    <2> QED
      BY <2>2, <2>3
  <1> QED
    BY Zenon, <1>1, <1>2, <1>3, <1>4

(* plan_view_transition: the plan follows the player, and what was prepared for
   another plan is let go. *)
Replanned(st, e) ==
    /\ Consistent(e) /\ e.view = st.view
    /\ e.pending = st.pending \/ e.pending = None \/ e.pending.prepared = {}

LEMMA PlanConsistent ==
    ASSUME NEW st \in SessionStates, Len(st.deferred) <= MaxDeferred, st.phase = "Spawned", st.view # None,
           NEW to \in View, to.center = st.player, st.desired # None => to.radius = st.desired,
           st.pending # None => st.pending.from = st.view /\ st.pending.prepared \subseteq Entering(st.pending)
    PROVE  Replanned(st, PlanView(st, to)) /\ PlanView(st, to).phase = "Spawned"
  <1>0. st.view \in View \cup {None}
    BY Zenon, StateType
  <1>1. CASE to = st.view
    <2> DEFINE e == [st EXCEPT !.pending = None, !.desired = None]
    <2>1. PlanView(st, to) = e
      BY Zenon, <1>1 DEF PlanView
    <2>2. /\ e \in SessionStates /\ e.view = st.view /\ e.pending = None /\ e.desired = None
          /\ e.phase = "Spawned" /\ e.player = st.player /\ e.deferred = st.deferred
      BY Zenon DEF SessionStates
    <2> HIDE DEF e
    <2>3. Target(e) = to
      BY Zenon, <1>1, <2>2 DEF Target
    <2> QED
      BY Zenon, <2>1, <2>2, <2>3 DEF Replanned, Consistent, Early
  <1>2. CASE to # st.view /\ st.pending # None /\ SamePlan(st.pending, st.view, to)
    <2>1. PlanView(st, to) = st
      BY Zenon, <1>2 DEF PlanView
    <2>2. Target(st) = to /\ st.pending.to = to
      BY Zenon, <1>2 DEF Target, SamePlan
    <2> QED
      BY Zenon, <1>2, <2>1, <2>2 DEF Replanned, Consistent, Early
  <1>3. CASE to # st.view /\ ~(st.pending # None /\ SamePlan(st.pending, st.view, to))
    <2> DEFINE w == [from |-> st.view, to |-> to, prepared |-> {}]
               e == [st EXCEPT !.pending = w]
    <2>1. PlanView(st, to) = e
      BY Zenon, <1>3 DEF PlanView
    <2>2. w \in Plan /\ w.from = st.view /\ w.to = to /\ w.prepared = {}
      BY <1>0 DEF Plan
    <2>3. w # None
      BY Zenon, <2>2, NoneApart
    <2> HIDE DEF w
    <2>4. /\ e \in SessionStates /\ e.view = st.view /\ e.pending = w /\ e.desired = st.desired
          /\ e.phase = "Spawned" /\ e.player = st.player /\ e.deferred = st.deferred
      BY Zenon, <2>2 DEF SessionStates
    <2> HIDE DEF e
    <2>5. Target(e) = to
      BY Zenon, <2>2, <2>3, <2>4 DEF Target
    <2> QED
      BY Zenon, <2>1, <2>2, <2>3, <2>4, <2>5 DEF Replanned, Consistent, Early
  <1> QED
    BY Zenon, <1>1, <1>2, <1>3

(* SessionState::handle_packet keeps a state consistent.  It neither accepts a
   login by itself nor takes a player back before it. *)
LEMMA PacketConsistent ==
    ASSUME NEW st, Consistent(st), NEW p \in Packets, Accepts(st, p)
    PROVE  LET e == AfterPacket(st, p) IN
           /\ Replanned(st, e)
           /\ e.phase \in Joining => st.phase \in Joining
           /\ e.phase \in {"WaitingLogin", "LoginPending"} => st.phase \in {"WaitingLogin", "LoginPending"}
  <1> DEFINE e == AfterPacket(st, p)
  <1>0. st \in SessionStates /\ Len(st.deferred) <= MaxDeferred
    BY Zenon DEF Consistent
  <1>t. /\ st.view \in View \cup {None} /\ st.pending \in Plan \cup {None}
        /\ st.player \in Places \cup {Spawn, None} /\ st.desired \in (1 .. MaxRadius) \cup {None}
        /\ st.deferred \in Seq(Packets) /\ st.phase \in Early \cup {"WaitingInitialChunks", "Spawned"}
    BY Zenon, <1>0, StateType
  <1>1. CASE st.phase = "WaitingLogin"
    <2>1. e = [st EXCEPT !.phase = "LoginPending"]
      BY <1>1 DEF AfterPacket
    <2>2. /\ e \in SessionStates /\ e.view = st.view /\ e.pending = st.pending /\ e.desired = st.desired
          /\ e.phase = "LoginPending" /\ e.deferred = st.deferred
      BY Zenon, <1>0, <2>1 DEF SessionStates
    <2> HIDE DEF e
    <2>3. st.view = None /\ st.pending = None /\ st.desired = None
      BY Zenon, <1>1 DEF Consistent, Early
    <2>4. Replanned(st, e)
      BY <1>0, <2>2, <2>3 DEF Replanned, Consistent
    <2> QED
      BY Zenon, <1>1, <2>2, <2>4 DEF Joining, e
  <1>2. CASE st.phase = "LoginPending"
    <2>1. e = [st EXCEPT !.deferred = Append(@, p)] /\ Len(st.deferred) < MaxDeferred
      BY <1>2 DEF AfterPacket, Accepts
    <2>2. /\ Append(st.deferred, p) \in Seq(Packets) /\ Len(Append(st.deferred, p)) <= MaxDeferred
      BY <1>t, <2>1, Constants
    <2>3. /\ e \in SessionStates /\ e.view = st.view /\ e.pending = st.pending /\ e.desired = st.desired
          /\ e.phase = "LoginPending" /\ e.deferred = Append(st.deferred, p)
      BY Zenon, <1>0, <1>2, <2>1, <2>2 DEF SessionStates
    <2> HIDE DEF e
    <2>4. st.view = None /\ st.pending = None /\ st.desired = None
      BY Zenon, <1>2 DEF Consistent, Early
    <2>5. Replanned(st, e)
      BY <2>2, <2>3, <2>4 DEF Replanned, Consistent
    <2> QED
      BY Zenon, <1>2, <2>3, <2>5 DEF Joining, e
  <1>3. CASE st.phase = "WaitingChunkRadius"
    <2> DEFINE to == [center |-> st.player, radius |-> Effective(p.radius)]
               w  == [from |-> None, prepared |-> {}, to |-> to]
    <2>1. p.kind = "radius" /\ e = [st EXCEPT !.phase = "WaitingInitialChunks", !.pending = w]
      BY <1>3 DEF AfterPacket, Accepts
    <2>2. st.view = None /\ st.pending = None /\ st.desired = None /\ st.player # None
      BY Zenon, <1>3 DEF Consistent, Early
    <2>3. st.player \in Places \cup {Spawn} /\ Effective(p.radius) \in 1 .. MaxRadius
      BY Zenon, <1>t, <2>1, <2>2, PacketType
    <2>4. to \in View /\ to.center = st.player
      BY Zenon, <2>3 DEF View
    <2> HIDE DEF to
    <2>5. w \in Plan /\ w.from = None /\ w.to = to /\ w.prepared = {}
      BY Zenon, <2>4 DEF Plan
    <2>6. w # None
      BY Zenon, <2>5, NoneApart
    <2> HIDE DEF w
    <2>7. /\ e \in SessionStates /\ e.view = st.view /\ e.pending = w /\ e.desired = st.desired
          /\ e.phase = "WaitingInitialChunks" /\ e.player = st.player /\ e.deferred = st.deferred
      BY Zenon, <1>0, <2>1, <2>5 DEF SessionStates
    <2> HIDE DEF e
    <2>8. Replanned(st, e)
      BY <1>0, <2>2, <2>4, <2>5, <2>6, <2>7 DEF Replanned, Consistent, Early
    <2> QED
      BY Zenon, <1>3, <2>7, <2>8 DEF Joining, e
  <1>4. CASE st.phase = "WaitingInitialChunks"
    <2>1. e = st
      BY <1>4 DEF AfterPacket
    <2> QED
      BY Zenon, <2>1 DEF Replanned
  <1>5. CASE st.phase = "Spawned" /\ p.kind = "move"
    <2> DEFINE q  == [st EXCEPT !.player = p.to]
               to == [center |-> p.to, radius |-> MoveRadius(st)]
    <2>1. e = PlanView(q, to)
      BY <1>5 DEF AfterPacket
    <2>2. p.to \in Places
      BY Zenon, <1>5, PacketType
    <2>3. /\ q \in SessionStates /\ q.view = st.view /\ q.pending = st.pending /\ q.desired = st.desired
          /\ q.phase = "Spawned" /\ q.player = p.to /\ q.deferred = st.deferred
      BY Zenon, <1>0, <1>5, <2>2 DEF SessionStates
    <2>4. st.view # None /\ st.view \in View
      BY Zenon, <1>t, <1>5 DEF Consistent
    <2>5. MoveRadius(st) \in 1 .. MaxRadius /\ (st.desired # None => MoveRadius(st) = st.desired)
      BY Zenon, <1>t, <2>4 DEF MoveRadius, View
    <2>6. to \in View /\ to.center = p.to /\ to.radius = MoveRadius(st)
      BY Zenon, <2>2, <2>5 DEF View
    <2> HIDE DEF q, to, e
    <2>7. st.pending # None => st.pending.from = st.view /\ st.pending.prepared \subseteq Entering(st.pending)
      BY Zenon DEF Consistent
    <2>8. Replanned(q, e) /\ e.phase = "Spawned"
      BY Zenon, <1>0, <2>1, <2>3, <2>4, <2>5, <2>6, <2>7, PlanConsistent
    <2> QED
      BY Zenon, <2>3, <2>8 DEF Replanned, Joining, e
  <1>6. CASE st.phase = "Spawned" /\ p.kind = "radius"
    <2> DEFINE q  == [st EXCEPT !.desired = Effective(p.radius)]
               to == [center |-> st.player, radius |-> Effective(p.radius)]
    <2>1. e = PlanView(q, to)
      BY <1>6 DEF AfterPacket
    <2>2. Effective(p.radius) \in 1 .. MaxRadius
      BY Zenon, <1>6, PacketType
    <2>3. /\ q \in SessionStates /\ q.view = st.view /\ q.pending = st.pending
          /\ q.desired = Effective(p.radius)
          /\ q.phase = "Spawned" /\ q.player = st.player /\ q.deferred = st.deferred
      BY Zenon, <1>0, <1>6, <2>2 DEF SessionStates
    <2>4. st.view # None /\ st.view \in View /\ Target(st).center = st.player
      BY Zenon, <1>t, <1>6 DEF Consistent
    <2>5. st.player \in Places \cup {Spawn}
      <3>1. Target(st) \in View
        BY Zenon, <1>t, <2>4 DEF Target, Plan
      <3> QED
        BY Zenon, <2>4, <3>1 DEF View
    <2>6. to \in View /\ to.center = st.player /\ to.radius = Effective(p.radius)
      BY Zenon, <2>2, <2>5 DEF View
    <2> HIDE DEF q, to, e
    <2>7. st.pending # None => st.pending.from = st.view /\ st.pending.prepared \subseteq Entering(st.pending)
      BY Zenon DEF Consistent
    <2>8. Replanned(q, e) /\ e.phase = "Spawned"
      BY Zenon, <1>0, <2>1, <2>3, <2>4, <2>6, <2>7, PlanConsistent
    <2> QED
      BY Zenon, <2>3, <2>8 DEF Replanned, Joining, e
  <1>7. CASE st.phase = "Spawned" /\ p.kind \notin {"move", "radius"}
    <2>1. e = st
      BY <1>7 DEF AfterPacket
    <2> QED
      BY Zenon, <2>1 DEF Replanned
  <1> QED
    BY Zenon, <1>t, <1>1, <1>2, <1>3, <1>4, <1>5, <1>6, <1>7 DEF Early

-----------------------------------------------------------------------------
(* One session moves: what each part of the invariant needs of it. *)

LEMMA ViewsUpdate ==
    ASSUME Views, NEW s \in Sessions, NEW st, Consistent(st), state' = [state EXCEPT ![s] = st],
           pins' \in [Chunks -> Nat], Exact(pins', state'), UNCHANGED resident,
           Area(st.view) \cup Prepared(st) \subseteq resident,
           DOMAIN client' = Sessions, \A t \in Sessions \ {s} : client'[t] = client[t],
           st.view # None => client'[s] = Area(st.view)
    PROVE  Views'
  <1>1. state \in States /\ st \in SessionStates
    BY Zenon DEF Views, States, Consistent
  <1>2. state' \in States /\ state'[s] = st /\ \A t \in Sessions \ {s} : state'[t] = state[t]
    BY Zenon, <1>1 DEF States
  <1>3. ASSUME NEW t \in Sessions
        PROVE  /\ Consistent(state'[t]) /\ Area(state'[t].view) \cup Prepared(state'[t]) \subseteq resident'
               /\ state'[t].view # None => client'[t] = Area(state'[t].view)
    <2>1. CASE t = s
      BY Zenon, <1>2, <2>1
    <2>2. CASE t # s
      BY Zenon, <1>2, <2>2 DEF Views
    <2> QED
      BY Zenon, <2>1, <2>2
  <1> QED
    BY Zenon, <1>2, <1>3 DEF Views, States

LEMMA ViewsSame ==
    ASSUME Views, UNCHANGED <<state, pins, client>>, resident \subseteq resident'
    PROVE  Views'
  BY Zenon DEF Views

LEMMA OwnerMove ==
    ASSUME Owner, NEW s \in Sessions, UNCHANGED <<resident, ownerVars>>,
           \A t \in Sessions \ {s} : state'[t] = state[t],
           \/ state'[s].pending = state[s].pending \/ state'[s].pending = None
           \/ state'[s].pending.prepared = {}
    PROVE  Owner'
  <1>1. UNCHANGED <<pc, session, held, spawned, fetched, work, resident>>
    BY Zenon DEF ownerVars, workVars
  <1>2. pc = "complete" /\ state'[session].pending # None =>
          fetched = Entering(state'[session].pending) \/ state'[session].pending.prepared = {}
    BY Zenon DEF Owner, Calls, Ticking
  <1> QED
    BY Zenon, <1>1, <1>2 DEF Owner

LEMMA GoneMove ==
    ASSUME Gone, NEW s \in Sessions, NEW x, task \in [Sessions -> Tasks], task' = [task EXCEPT ![s] = x],
           UNCHANGED <<held, story>>, \A t \in Sessions \ {s} : state'[t] = state[t],
           x \in Over /\ held # s => state'[s] = Fresh,
           x \in Unborn => task[s] \in Unborn /\ state'[s] = state[s], task[s] # "ended"
    PROVE  Gone'
  <1>1. task'[s] = x /\ \A t \in Sessions \ {s} : task'[t] = task[t]
    BY Zenon
  <1>2. ASSUME NEW t \in Sessions
        PROVE  /\ task'[t] \in Over /\ held # t => state'[t] = Fresh
               /\ task'[t] \in Unborn => state'[t] = Fresh /\ held # t
               /\ story[t] = "disconnected" => task'[t] = "ended" /\ held # t
    <2>1. CASE t = s
      BY Zenon, <1>1, <2>1 DEF Gone
    <2>2. CASE t # s
      BY Zenon, <1>1, <2>2 DEF Gone
    <2> QED
      BY Zenon, <2>1, <2>2
  <1> QED
    BY Zenon, <1>2 DEF Gone

LEMMA AgreedMove ==
    ASSUME Agreed, NEW s \in Sessions, NEW x, task \in [Sessions -> Tasks], task' = [task EXCEPT ![s] = x],
           UNCHANGED <<held, story, spawned>>, \A t \in Sessions \ {s} : state'[t] = state[t],
           state'[s].phase \in Joining => state[s].phase \in Joining,
           x \notin Over \/ held = s =>
              /\ task[s] \notin Over \/ held = s
              /\ state'[s].phase \in {"WaitingLogin", "LoginPending"} =>
                    state[s].phase \in {"WaitingLogin", "LoginPending"}
    PROVE  Agreed'
  <1>1. task'[s] = x /\ \A t \in Sessions \ {s} : task'[t] = task[t]
    BY Zenon
  <1>2. ASSUME NEW t \in Sessions
        PROVE  /\ state'[t].phase \in Joining => story[t] = "accepted" /\ t \notin spawned
               /\ story[t] \in {"accepted", "spawned"} /\ (task'[t] \notin Over \/ held = t) =>
                     state'[t].phase \notin {"WaitingLogin", "LoginPending"}
    <2>1. CASE t = s
      BY Zenon, <1>1, <2>1 DEF Agreed
    <2>2. CASE t # s
      BY Zenon, <1>1, <2>2 DEF Agreed
    <2> QED
      BY Zenon, <2>1, <2>2
  <1> QED
    BY Zenon, <1>2 DEF Agreed

LEMMA EventType ==
    ASSUME NEW k \in EventKinds, NEW s \in Sessions
    PROVE  Event(k, s) \in Events /\ Event(k, s).kind = k /\ Event(k, s).session = s
  BY Zenon DEF Event, Events

LEMMA ElementOf ==
    ASSUME NEW S, NEW q \in Seq(S), NEW n \in 1 .. Len(q)
    PROVE  q[n] \in S
  OBVIOUS

LEMMA EventIn ==
    ASSUME NEW q \in Seq(Events), NEW n \in 1 .. Len(q)
    PROVE  q[n].kind \in EventKinds /\ q[n].session \in Sessions
  <1>1. q[n] \in Events
    BY Zenon, ElementOf
  <1> QED
    BY Zenon, <1>1 DEF Events

(* An event at the end of the queue. *)
LEMMA Queued ==
    ASSUME NEW q \in Seq(Events), NEW e \in Events, NEW r, r = Append(q, e)
    PROVE  /\ r \in Seq(Events) /\ Len(q) \in Nat /\ Len(r) = Len(q) + 1 /\ Len(r) \in 1 .. Len(r)
           /\ r[Len(r)] = e /\ \A n \in 1 .. Len(q) : r[n] = q[n] /\ n \in 1 .. Len(r)
           /\ \A n \in 1 .. Len(r) : n \in 1 .. Len(q) \/ n = Len(r)
  OBVIOUS

LEMMA Earlier ==
    ASSUME NEW n \in Nat, NEW m \in 1 .. n, NEW k \in 1 .. m
    PROVE  k \in 1 .. n
  OBVIOUS

(* Events and tasks that move on, but neither come nor go. *)
LEMMA HeardTask ==
    ASSUME NEW q \in Seq(Events), NEW t, NEW h, NEW u, HeardOf(q, t, h),
           \A s \in Sessions : (u[s] \in Absent <=> t[s] \in Absent) /\ (t[s] = "ended" => u[s] = "ended")
    PROVE  HeardOf(q, u, h)
  <1>1. ASSUME NEW n \in 1 .. Len(q) PROVE EventHeard(q, n, u, h)
    BY Zenon, EventIn DEF HeardOf, EventHeard
  <1> QED
    BY Zenon, <1>1 DEF HeardOf

(* Any event but Connected comes after the Connected of its session. *)
LEMMA HeardAppend ==
    ASSUME NEW q \in Seq(Events), NEW t, NEW h, HeardOf(q, t, h), NEW e \in Events, NEW r, r = Append(q, e),
           e.kind # "Connected", t[e.session] \notin Absent, e.kind = "Disconnected" => t[e.session] = "ended"
    PROVE  HeardOf(r, t, h)
  <1>1. /\ r \in Seq(Events) /\ Len(q) \in Nat /\ Len(r) = Len(q) + 1 /\ Len(r) \in 1 .. Len(r)
        /\ r[Len(r)] = e /\ \A n \in 1 .. Len(q) : r[n] = q[n] /\ n \in 1 .. Len(r)
        /\ \A n \in 1 .. Len(r) : n \in 1 .. Len(q) \/ n = Len(r)
    BY Queued
  <1>2. \A s : \A n \in 1 .. Len(q) : Announced(q, s, n) => Announced(r, s, n)
    BY Zenon, <1>1, Earlier DEF Announced
  <1>3. \A s : Announced(q, s, Len(q)) => Announced(r, s, Len(r))
    BY Zenon, <1>1 DEF Announced
  <1>4. \A s \in Sessions : h[s] = "none" /\ t[s] \notin Absent => Announced(r, s, Len(r))
    BY Zenon, <1>3 DEF HeardOf
  <1>5. ASSUME NEW n \in 1 .. Len(r) PROVE EventHeard(r, n, t, h)
    <2>1. CASE n \in 1 .. Len(q)
      <3>1. EventHeard(q, n, t, h) /\ r[n] = q[n]
        BY Zenon, <1>1, <2>1 DEF HeardOf
      <3> QED
        BY Zenon, <1>2, <2>1, <3>1 DEF EventHeard
    <2>2. CASE n = Len(r)
      <3>1. r[n] = e /\ e.session \in Sessions
        BY Zenon, <1>1, <2>2 DEF Events
      <3> QED
        BY Zenon, <1>4, <2>2, <3>1 DEF EventHeard
    <2> QED
      BY Zenon, <1>1, <2>1, <2>2
  <1>6. ASSUME NEW m \in 1 .. Len(r), NEW n \in 1 .. Len(r), r[m].kind = "Connected", r[n] = r[m]
        PROVE  m = n
    <2>1. m \in 1 .. Len(q) /\ n \in 1 .. Len(q)
      BY Zenon, <1>1, <1>6
    <2>2. q[m].kind = "Connected" /\ q[n] = q[m]
      BY Zenon, <1>1, <1>6, <2>1
    <2> QED
      BY Zenon, <2>1, <2>2 DEF HeardOf
  <1> QED
    BY Zenon, <1>4, <1>5, <1>6 DEF HeardOf

(* A session is announced when it connects. *)
LEMMA HeardConnect ==
    ASSUME NEW q \in Seq(Events), NEW t, NEW h, HeardOf(q, t, h), NEW s \in Sessions, t[s] = "new",
           NEW u, u[s] = "announced", \A x \in Sessions \ {s} : u[x] = t[x],
           NEW r, r = Append(q, Event("Connected", s))
    PROVE  HeardOf(r, u, h)
  <1> DEFINE e == Event("Connected", s)
  <1>0. e \in Events /\ e.kind = "Connected" /\ e.session = s
    BY Zenon, EventType DEF EventKinds
  <1> HIDE DEF e
  <1>1. /\ r \in Seq(Events) /\ Len(q) \in Nat /\ Len(r) = Len(q) + 1 /\ Len(r) \in 1 .. Len(r)
        /\ r[Len(r)] = e /\ \A n \in 1 .. Len(q) : r[n] = q[n] /\ n \in 1 .. Len(r)
        /\ \A n \in 1 .. Len(r) : n \in 1 .. Len(q) \/ n = Len(r)
    BY <1>0, Queued DEF e
  <1>2. \A x : \A n \in 1 .. Len(q) : Announced(q, x, n) => Announced(r, x, n)
    BY Zenon, <1>1, Earlier DEF Announced
  <1>3. \A x : Announced(q, x, Len(q)) => Announced(r, x, Len(r))
    BY Zenon, <1>1 DEF Announced
  <1>4. Announced(r, s, Len(r)) /\ h[s] = "none"
    BY Zenon, <1>1 DEF Announced, HeardOf, Absent, e
  <1>5. \A x \in Sessions : /\ u[x] \in Absent => h[x] = "none"
                            /\ h[x] = "none" /\ u[x] \notin Absent => Announced(r, x, Len(r))
    BY Zenon, <1>3, <1>4 DEF HeardOf
  <1>6. \A n \in 1 .. Len(q) : EventHeard(q, n, t, h) /\ q[n].session \in Sessions /\ q[n].session # s
    BY Zenon, EventIn DEF HeardOf, EventHeard, Absent
  <1>7. ASSUME NEW n \in 1 .. Len(r) PROVE EventHeard(r, n, u, h)
    <2>1. CASE n \in 1 .. Len(q)
      <3>1. r[n] = q[n] /\ u[q[n].session] = t[q[n].session]
        BY Zenon, <1>1, <1>6, <2>1
      <3> QED
        BY Zenon, <1>2, <1>6, <2>1, <3>1 DEF EventHeard
    <2>2. CASE n = Len(r)
      BY Zenon, <1>0, <1>1, <1>4, <2>2 DEF EventHeard, Absent
    <2> QED
      BY Zenon, <1>1, <2>1, <2>2
  <1>8. ASSUME NEW m \in 1 .. Len(r), NEW n \in 1 .. Len(r), r[m].kind = "Connected", r[n] = r[m]
        PROVE  m = n
    <2>1. \A k \in 1 .. Len(q) : r[k] # e
      BY Zenon, <1>0, <1>1, <1>6
    <2>2. CASE m \in 1 .. Len(q) /\ n \in 1 .. Len(q)
      <3>1. q[m].kind = "Connected" /\ q[n] = q[m]
        BY Zenon, <1>1, <1>8, <2>2
      <3> QED
        BY Zenon, <2>2, <3>1 DEF HeardOf
    <2> QED
      BY Zenon, <1>1, <1>8, <2>1, <2>2
  <1> QED
    BY Zenon, <1>5, <1>7, <1>8 DEF HeardOf

(* PHP hears the next event. *)
Hearing(e, h) ==
    CASE e.kind = "Connected" -> [h EXCEPT ![e.session] = "connected"]
      [] e.kind = "Disconnected" -> [h EXCEPT ![e.session] = "disconnected"]
      [] OTHER -> h

LEMMA ConnectedEvent ==
    \A s : Event("Connected", s).kind = "Connected" /\ Event("Connected", s).session = s
  BY Zenon DEF Event

LEMMA SameEvent ==
    ASSUME NEW a \in Events, NEW b \in Events, a.kind = b.kind, a.session = b.session
    PROVE  a = b
  BY DEF Events

LEMMA Shifted ==
    ASSUME NEW q \in Seq(Events), q # <<>>, NEW r, r = Tail(q)
    PROVE  /\ r \in Seq(Events) /\ Len(r) \in Nat /\ Len(q) = Len(r) + 1 /\ 1 \in 1 .. Len(q)
           /\ \A n \in 1 .. Len(r) : n + 1 \in 1 .. Len(q) /\ r[n] = q[n + 1]
           /\ \A n \in 1 .. Len(r) : \A m \in 1 .. n + 1 : m = 1 \/ (m - 1 \in 1 .. n /\ r[m - 1] = q[m])
           /\ \A m \in 1 .. Len(q) : m = 1 \/ (m - 1 \in 1 .. Len(r) /\ r[m - 1] = q[m])
           /\ \A m, n \in 1 .. Len(r) : m + 1 = n + 1 => m = n
  OBVIOUS

(* From stories h to k with event e, r is the rest of the queue. *)
Polled(e, r, t, h, k) ==
    /\ k \in [Sessions -> Stories] /\ HeardOf(r, t, k)
    /\ e.kind \in EventKinds /\ e.session \in Sessions
    /\ e.kind = "Connected" => h[e.session] = "none"
    /\ e.kind # "Connected" => h[e.session] # "none"
    /\ e.kind = "Disconnected" => t[e.session] = "ended"
    /\ e.kind \notin {"Connected", "Disconnected"} => k = h
    /\ \A s \in Sessions : k[s] # h[s] => s = e.session /\
          ((e.kind = "Connected" /\ k[s] = "connected") \/ (e.kind = "Disconnected" /\ k[s] = "disconnected"))

LEMMA HeardPoll ==
    ASSUME NEW q \in Seq(Events), q # <<>>, NEW r, r = Tail(q), NEW e, e = q[1], NEW t,
           NEW h \in [Sessions -> Stories], HeardOf(q, t, h), NEW k, k = Hearing(e, h)
    PROVE  Polled(e, r, t, h, k)
  <1>1. /\ r \in Seq(Events) /\ Len(r) \in Nat /\ Len(q) = Len(r) + 1 /\ 1 \in 1 .. Len(q)
        /\ \A n \in 1 .. Len(r) : n + 1 \in 1 .. Len(q) /\ r[n] = q[n + 1]
        /\ \A n \in 1 .. Len(r) : \A m \in 1 .. n + 1 : m = 1 \/ (m - 1 \in 1 .. n /\ r[m - 1] = q[m])
        /\ \A m \in 1 .. Len(q) : m = 1 \/ (m - 1 \in 1 .. Len(r) /\ r[m - 1] = q[m])
        /\ \A m, n \in 1 .. Len(r) : m + 1 = n + 1 => m = n
    BY Shifted
  <1>2. e.kind \in EventKinds /\ e.session \in Sessions /\ EventHeard(q, 1, t, h)
    BY Zenon, <1>1, EventIn DEF HeardOf
  <1>3. /\ e.kind = "Connected" => h[e.session] = "none"
        /\ e.kind = "Disconnected" => t[e.session] = "ended"
        /\ t[e.session] \notin Absent
    BY Zenon, <1>2 DEF EventHeard
  <1>4. e.kind # "Connected" => h[e.session] # "none"
    <2>1. \A m \in 1 .. 1 : m = 1
      OBVIOUS
    <2>2. Announced(q, e.session, 1) => e.kind = "Connected"
      BY Zenon, <2>1, ConnectedEvent DEF Announced
    <2> QED
      BY Zenon, <1>2, <2>2 DEF EventHeard
  <1>5. /\ e.kind = "Connected" => k = [h EXCEPT ![e.session] = "connected"]
        /\ e.kind = "Disconnected" => k = [h EXCEPT ![e.session] = "disconnected"]
        /\ e.kind \notin {"Connected", "Disconnected"} => k = h
    BY DEF Hearing
  <1>6. k \in [Sessions -> Stories]
    BY Zenon, <1>2, <1>5 DEF Stories
  <1>7. \A s \in Sessions : k[s] # h[s] => s = e.session /\
           ((e.kind = "Connected" /\ k[s] = "connected") \/ (e.kind = "Disconnected" /\ k[s] = "disconnected"))
    <2>1. CASE e.kind = "Connected"
      <3>1. k = [h EXCEPT ![e.session] = "connected"]
        BY Zenon, <1>5, <2>1
      <3> QED
        BY Zenon, <2>1, <3>1
    <2>2. CASE e.kind = "Disconnected"
      BY Zenon, <1>2, <1>5, <2>2
    <2> QED
      BY Zenon, <1>5, <2>1, <2>2
  <1>8. \A s \in Sessions : k[s] = "none" => h[s] = "none" /\ e # Event("Connected", s)
    <2>1. ASSUME NEW s \in Sessions, k[s] = "none" PROVE h[s] = "none"
      BY Zenon, <1>7, <2>1
    <2>2. ASSUME NEW s \in Sessions, e = Event("Connected", s) PROVE k[s] # "none"
      <3>1. e.kind = "Connected" /\ e.session = s
        BY Zenon, <2>2, ConnectedEvent
      <3> QED
        BY Zenon, <1>5, <3>1
    <2> QED
      BY Zenon, <2>1, <2>2
  <1>9. \A s \in Sessions : k[s] = "none" =>
            /\ \A n \in 1 .. Len(r) : Announced(q, s, n + 1) => Announced(r, s, n)
            /\ Announced(q, s, Len(q)) => Announced(r, s, Len(r))
    <2> SUFFICES ASSUME NEW s \in Sessions, k[s] = "none"
                 PROVE  /\ \A n \in 1 .. Len(r) : Announced(q, s, n + 1) => Announced(r, s, n)
                        /\ Announced(q, s, Len(q)) => Announced(r, s, Len(r))
      BY Zenon
    <2>1. q[1] # Event("Connected", s)
      BY Zenon, <1>8
    <2>2. ASSUME NEW n \in 1 .. Len(r), Announced(q, s, n + 1) PROVE Announced(r, s, n)
      <3>1. PICK m \in 1 .. n + 1 : q[m] = Event("Connected", s)
        BY Zenon, <2>2 DEF Announced
      <3>2. m - 1 \in 1 .. n /\ r[m - 1] = q[m]
        BY Zenon, <1>1, <2>1, <3>1
      <3> QED
        BY Zenon, <3>1, <3>2 DEF Announced
    <2>3. ASSUME Announced(q, s, Len(q)) PROVE Announced(r, s, Len(r))
      <3>1. PICK m \in 1 .. Len(q) : q[m] = Event("Connected", s)
        BY Zenon, <2>3 DEF Announced
      <3>2. m - 1 \in 1 .. Len(r) /\ r[m - 1] = q[m]
        BY Zenon, <1>1, <2>1, <3>1
      <3> QED
        BY Zenon, <3>1, <3>2 DEF Announced
    <2> QED
      BY Zenon, <2>2, <2>3
  <1>10. ASSUME NEW s \in Sessions
         PROVE  /\ t[s] \in Absent => k[s] = "none"
                /\ k[s] = "none" /\ t[s] \notin Absent => Announced(r, s, Len(r))
    <2>1. t[s] \in Absent => k[s] = "none"
      BY Zenon, <1>3, <1>7 DEF HeardOf
    <2> QED
      BY Zenon, <1>8, <1>9, <2>1 DEF HeardOf
  <1>11. ASSUME NEW n \in 1 .. Len(r) PROVE EventHeard(r, n, t, k)
    <2>1. EventHeard(q, n + 1, t, h) /\ r[n] = q[n + 1] /\ r[n].session \in Sessions /\ n + 1 \in 1 .. Len(q)
      BY Zenon, <1>1, EventIn DEF HeardOf
    <2>2. r[n].kind = "Connected" => k[r[n].session] = "none"
      <3>1. SUFFICES ASSUME r[n].kind = "Connected", k[r[n].session] # "none" PROVE FALSE
        OBVIOUS
      <3>2. h[r[n].session] = "none"
        BY Zenon, <2>1, <3>1 DEF EventHeard
      <3>3. e.session = r[n].session /\ h[e.session] = "none"
        BY Zenon, <1>7, <2>1, <3>1, <3>2
      <3>4. e.kind = "Connected"
        BY Zenon, <1>4, <3>3
      <3>5. e \in Events /\ r[n] \in Events
        BY Zenon, <1>1, ElementOf
      <3>6. e = r[n]
        BY Zenon, <3>1, <3>3, <3>4, <3>5, SameEvent
      <3>7. 1 = n + 1
        <4>1. q[1].kind = "Connected" /\ q[n + 1] = q[1] /\ 1 \in 1 .. Len(q) /\ n + 1 \in 1 .. Len(q)
          BY Zenon, <1>1, <2>1, <3>4, <3>6
        <4> QED
          BY Zenon, <4>1 DEF HeardOf
      <3> QED
        BY <3>7
    <2>3. k[r[n].session] = "none" => Announced(r, r[n].session, n)
      BY Zenon, <1>8, <1>9, <2>1 DEF EventHeard
    <2> QED
      BY Zenon, <2>1, <2>2, <2>3 DEF EventHeard
  <1>12. ASSUME NEW m \in 1 .. Len(r), NEW n \in 1 .. Len(r), r[m].kind = "Connected", r[n] = r[m]
         PROVE  m = n
    <2>1. /\ m + 1 \in 1 .. Len(q) /\ n + 1 \in 1 .. Len(q)
          /\ q[m + 1].kind = "Connected" /\ q[n + 1] = q[m + 1]
      BY Zenon, <1>1, <1>12
    <2>2. m + 1 = n + 1
      BY Zenon, <2>1 DEF HeardOf
    <2> QED
      BY Zenon, <1>1, <2>2
  <1>13. HeardOf(r, t, k)
    BY Zenon, <1>10, <1>11, <1>12 DEF HeardOf
  <1> QED
    BY Zenon, <1>2, <1>3, <1>4, <1>5, <1>6, <1>7, <1>13 DEF Polled

LEMMA HeardHost ==
    ASSUME Heard, Queues, NEW s \in Sessions, NEW x, task' = [task EXCEPT ![s] = x],
           x \in Absent <=> task[s] \in Absent, task[s] # "ended", UNCHANGED <<story, pc, session>>,
           \/ events' = events
           \/ /\ x \notin Absent
              /\ \E k \in EventKinds \ {"Connected"} :
                    events' = Append(events, Event(k, s)) /\ (k = "Disconnected" => x = "ended")
    PROVE  Heard'
  <1>1. task \in [Sessions -> Tasks] /\ events \in Seq(Events)
    BY Zenon DEF Queues
  <1>2. task'[s] = x /\ \A t \in Sessions \ {s} : task'[t] = task[t]
    BY Zenon, <1>1
  <1>3. \A t \in Sessions : (task'[t] \in Absent <=> task[t] \in Absent) /\ (task[t] = "ended" => task'[t] = "ended")
    BY Zenon, <1>2
  <1>4. HeardOf(events, task', story)
    BY Zenon, <1>1, <1>3, HeardTask DEF Heard
  <1>5. HeardOf(events', task', story)
    <2>1. CASE events' = events
      BY Zenon, <1>4, <2>1
    <2>2. ASSUME x \notin Absent, NEW k \in EventKinds \ {"Connected"},
                 events' = Append(events, Event(k, s)), k = "Disconnected" => x = "ended"
          PROVE  HeardOf(events', task', story)
      <3>1. Event(k, s) \in Events /\ Event(k, s).kind = k /\ Event(k, s).session = s
        BY Zenon, EventType
      <3> QED
        BY Zenon, <1>1, <1>2, <1>4, <2>2, <3>1, HeardAppend
    <2> QED
      BY Zenon, <2>1, <2>2
  <1> QED
    BY Zenon, <1>5 DEF Heard

LEMMA QueuesHost ==
    ASSUME Queues, NEW s \in Sessions, NEW x \in Tasks, task' = [task EXCEPT ![s] = x],
           \/ events' = events
           \/ HasRoom /\ \E k \in EventKinds : events' = Append(events, Event(k, s)),
           Bounded(commands'), UNCHANGED <<shut, left>>, x = "announced" => ~shut,
           sessions' = IF x \in {"live", "closing"} THEN sessions \cup (IF shut THEN {} ELSE {s}) ELSE sessions \ {s}
    PROVE  Queues'
  <1>1. task \in [Sessions -> Tasks] /\ events \in Seq(Events) /\ Len(events) <= EventCap
    BY Zenon DEF Queues
  <1>2. task' \in [Sessions -> Tasks] /\ task'[s] = x /\ \A t \in Sessions \ {s} : task'[t] = task[t]
    BY Zenon, <1>1
  <1>3. events' \in Seq(Events) /\ Len(events') <= EventCap
    <2>1. CASE events' = events
      BY Zenon, <1>1, <2>1
    <2>2. ASSUME HasRoom, NEW k \in EventKinds, events' = Append(events, Event(k, s))
          PROVE  events' \in Seq(Events) /\ Len(events') <= EventCap
      <3>1. Event(k, s) \in Events
        BY Zenon, EventType
      <3>2. events' \in Seq(Events) /\ Len(events) \in Nat /\ Len(events') = Len(events) + 1
        BY <1>1, <2>2, <3>1, Queued
      <3> QED
        BY <2>2, <3>2, Constants DEF HasRoom
    <2> QED
      BY Zenon, <2>1, <2>2
  <1>4. sessions' = IF shut THEN {} ELSE {t \in Sessions : task'[t] \in {"live", "closing"}}
    <2>1. sessions = IF shut THEN {} ELSE {t \in Sessions : task[t] \in {"live", "closing"}}
      BY Zenon DEF Queues
    <2>2. CASE shut
      BY Zenon, <2>1, <2>2
    <2>3. CASE ~shut
      BY Zenon, <1>2, <2>1, <2>3
    <2> QED
      BY Zenon, <2>2, <2>3
  <1>5. shut => \A t \in Sessions : task'[t] # "announced"
    BY Zenon, <1>2 DEF Queues
  <1> QED
    BY Zenon, <1>2, <1>3, <1>4, <1>5 DEF Queues

(* A step of the host with session s that leaves its state alone. *)
LEMMA HostKeeps ==
    ASSUME IInv, NEW s \in Sessions, NEW x \in Tasks, task' = [task EXCEPT ![s] = x], task[s] # "ended",
           Bounded(commands'), UNCHANGED <<shut, state, pins, resident, ownerVars, client>>,
           x \in Absent <=> task[s] \in Absent, x = "announced" => ~shut,
           x \in Unborn => task[s] \in Unborn, x \in Over => task[s] \in Over \/ held = s,
           task[s] \in Over => x \in Over,
           sessions' = IF x \in {"live", "closing"} THEN sessions \cup (IF shut THEN {} ELSE {s}) ELSE sessions \ {s},
           \/ events' = events
           \/ /\ x \notin Absent /\ HasRoom
              /\ \E k \in EventKinds \ {"Connected"} :
                    events' = Append(events, Event(k, s)) /\ (k = "Disconnected" => x = "ended")
    PROVE  IInv'
  <1>1. UNCHANGED <<pc, session, held, left, spawned, story>> /\ task \in [Sessions -> Tasks]
    BY Zenon DEF ownerVars, IInv, Queues
  <1>2. Views'
    BY Zenon, ViewsSame DEF IInv
  <1>3. Queues'
    BY Zenon, <1>1, QueuesHost DEF IInv
  <1>4. Owner'
    BY Zenon, OwnerMove DEF IInv
  <1>5. Gone'
    BY Zenon, <1>1, GoneMove DEF IInv, Gone
  <1>6. Heard'
    BY Zenon, <1>1, HeardHost DEF IInv
  <1>7. Agreed'
    <2>1. x \notin Over \/ held = s => task[s] \notin Over \/ held = s
      BY Zenon
    <2> QED
      BY Zenon, <1>1, <2>1, AgreedMove DEF IInv
  <1> QED
    BY Zenon, <1>2, <1>3, <1>4, <1>5, <1>6, <1>7 DEF IInv

(* process_inbound: what a packet replaces is unpinned, and only that. *)
LEMMA InboundPins ==
    ASSUME Views, NEW s \in Sessions, NEW st, st.view = state[s].view, st.pending = state[s].pending,
           NEW e, Replanned(st, e), state' = [state EXCEPT ![s] = e],
           pins' = Unpin(pins, Prepared(st) \ Prepared(e)), UNCHANGED <<resident, client>>
    PROVE  Views'
  <1>1. /\ state \in States /\ pins \in [Chunks -> Nat] /\ Exact(pins, state) /\ DOMAIN client = Sessions
        /\ e \in SessionStates /\ Consistent(e) /\ e.view = state[s].view
    BY Zenon DEF Views, States, Replanned, Consistent
  <1>2. Prepared(st) = Prepared(state[s])
    BY Zenon DEF Prepared
  <1>3. Prepared(e) \subseteq Prepared(st)
    BY Zenon DEF Replanned, Prepared
  <1>4. /\ pins' \in [Chunks -> Nat]
        /\ \A c \in Chunks : pins'[c] = IF c \in Prepared(st) \ Prepared(e) /\ pins[c] > 0 THEN pins[c] - 1 ELSE pins[c]
    BY Zenon, <1>1, Unpins
  <1>5. ASSUME NEW c \in Chunks
        PROVE  pins'[c] = pins[c] + Ind(c \in Area(e.view)) - Ind(c \in Area(state[s].view))
                                  + Ind(c \in Prepared(e)) - Ind(c \in Prepared(state[s]))
    <2>1. pins[c] \in Nat /\ Ind(c \in Area(state[s].view)) + Ind(c \in Prepared(state[s])) <= pins[c]
      BY Zenon, <1>1, Counted
    <2>2. Ind(c \in Area(e.view)) = Ind(c \in Area(state[s].view)) /\ Ind(c \in Area(e.view)) \in 0 .. 1
      BY <1>1 DEF Ind
    <2>3. CASE c \in Prepared(st) \ Prepared(e)
      <3>1. Ind(c \in Prepared(e)) = 0 /\ Ind(c \in Prepared(state[s])) = 1
        BY Zenon, <1>2, <2>3 DEF Ind
      <3>2. pins[c] > 0
        BY <2>1, <2>2, <3>1
      <3>3. pins'[c] = pins[c] - 1
        BY Zenon, <1>4, <2>3, <3>2
      <3> QED
        BY <2>1, <2>2, <3>1, <3>3
    <2>4. CASE c \notin Prepared(st) \ Prepared(e)
      <3>1. /\ Ind(c \in Prepared(e)) = Ind(c \in Prepared(state[s]))
            /\ Ind(c \in Prepared(e)) = 0 \/ Ind(c \in Prepared(e)) = 1
        BY Zenon, <1>2, <1>3, <2>4 DEF Ind
      <3>2. pins'[c] = pins[c]
        BY Zenon, <1>4, <2>4
      <3> QED
        BY <2>1, <2>2, <3>1, <3>2
    <2> QED
      BY Zenon, <2>3, <2>4
  <1>6. Exact(pins', [state EXCEPT ![s] = e])
    BY Zenon, <1>1, <1>5, ExactAfter
  <1>7. Area(e.view) \cup Prepared(e) \subseteq resident
    BY Zenon, <1>1, <1>2, <1>3 DEF Views
  <1>8. e.view # None => client'[s] = Area(e.view)
    BY Zenon, <1>1 DEF Views
  <1> QED
    BY Zenon, <1>1, <1>4, <1>6, <1>7, <1>8, ViewsUpdate

LEMMA Inbound ==
    ASSUME IInv, NEW s \in Sessions, task[s] = "live", NEW st, Consistent(st), st.view = state[s].view,
           st.pending = state[s].pending, st.phase = state[s].phase, NEW p \in Packets, ProcessInbound(s, st, p),
           UNCHANGED <<sessions, shut, commands, resident, ownerVars, client>>
    PROVE  IInv'
  <1> DEFINE e == IF Accepts(st, p) THEN AfterPacket(st, p) ELSE st
  <1>1. /\ Replanned(st, e) /\ (e.phase \in Joining => st.phase \in Joining)
        /\ e.phase \in {"WaitingLogin", "LoginPending"} => st.phase \in {"WaitingLogin", "LoginPending"}
    <2>1. CASE Accepts(st, p)
      BY Zenon, <2>1, PacketConsistent
    <2>2. CASE ~Accepts(st, p)
      BY Zenon, <2>2 DEF Replanned
    <2> QED
      BY Zenon, <2>1, <2>2
  <1>2. state' = [state EXCEPT ![s] = e] /\ pins' = Unpin(pins, Prepared(st) \ Prepared(e))
    BY Zenon DEF ProcessInbound
  <1> HIDE DEF e
  <1>3. /\ task \in [Sessions -> Tasks] /\ state \in States
        /\ UNCHANGED <<pc, session, held, left, spawned, story>>
    BY Zenon DEF ownerVars, IInv, Queues, Views, States
  <1>4. state'[s] = e /\ \A t \in Sessions \ {s} : state'[t] = state[t]
    BY Zenon, <1>2, <1>3 DEF States
  <1>5. PICK x \in {"live", "closing"} : task' = [task EXCEPT ![s] = x]
    <2>1. task' = task => task' = [task EXCEPT ![s] = "live"]
      BY Zenon, <1>3
    <2> QED
      BY Zenon, <2>1 DEF ProcessInbound
  <1>6. x \in Tasks /\ x \notin Absent /\ x \notin Over /\ x \notin Unborn /\ x # "announced"
    BY Zenon DEF Tasks, Absent, Over, Unborn
  <1>7. \/ events' = events
        \/ HasRoom /\ \E k \in {"LoginRequested", "Packet"} : events' = Append(events, Event(k, s))
    BY Zenon DEF ProcessInbound, PacketEvent
  <1>8. Views'
    BY Zenon, <1>1, <1>2, InboundPins DEF IInv
  <1>9. Queues'
    <2>1. sessions = sessions \cup (IF shut THEN {} ELSE {s})
      BY Zenon DEF IInv, Queues
    <2>2. \/ events' = events
          \/ HasRoom /\ \E k \in EventKinds : events' = Append(events, Event(k, s))
      BY Zenon, <1>7 DEF EventKinds
    <2>3. Bounded(commands')
      BY Zenon DEF IInv, Queues
    <2> QED
      BY Zenon, <1>3, <1>5, <1>6, <2>1, <2>2, <2>3, QueuesHost DEF IInv
  <1>10. Owner'
    BY Zenon, <1>1, <1>4, OwnerMove DEF IInv, Replanned
  <1>11. Gone'
    BY Zenon, <1>3, <1>4, <1>5, <1>6, GoneMove DEF IInv
  <1>12. Heard'
    <2>1. \/ events' = events
          \/ /\ x \notin Absent
             /\ \E k \in EventKinds \ {"Connected"} :
                   events' = Append(events, Event(k, s)) /\ (k = "Disconnected" => x = "ended")
      BY Zenon, <1>6, <1>7 DEF EventKinds
    <2>2. task[s] \notin Absent /\ task[s] # "ended"
      BY Zenon DEF Absent
    <2> QED
      BY Zenon, <1>3, <1>5, <1>6, <2>1, <2>2, HeardHost DEF IInv
  <1>13. Agreed'
    <2>1. task[s] \notin Over
      BY Zenon DEF Over
    <2> QED
      BY Zenon, <1>1, <1>3, <1>4, <1>5, <2>1, AgreedMove DEF IInv
  <1> QED
    BY Zenon, <1>8, <1>9, <1>10, <1>11, <1>12, <1>13 DEF IInv

-----------------------------------------------------------------------------
(* The steps of the host. *)

(* What is known of a session from its place, of the map and of the queues. *)
LEMMA Known ==
    ASSUME IInv
    PROVE  /\ task \in [Sessions -> Tasks] /\ state \in States /\ Bounded(commands) /\ events \in Seq(Events)
           /\ sessions = IF shut THEN {} ELSE {t \in Sessions : task[t] \in {"live", "closing"}}
           /\ held \in Sessions \cup {None}
           /\ \A s \in Sessions : Consistent(state[s])
           /\ \A s \in Sessions : task[s] \notin {"live", "closing"} => sessions \ {s} = sessions
  <1>1. held # None => held \in Sessions
    BY Zenon DEF IInv, Owner, Calls
  <1> QED
    BY Zenon, <1>1 DEF IInv, Views, Queues, States

LEMMA ConnectKeeps ==
    ASSUME IInv, NEW s \in Sessions, Connect(s)
    PROVE  IInv'
  <1>1. task[s] = "new" /\ ~shut /\ UNCHANGED <<sessions, shut, state, commands, pins, resident, ownerVars, client>>
    BY Zenon DEF Connect
  <1>2. CASE ~HasRoom
    <2>1. task' = [task EXCEPT ![s] = "refused"] /\ events' = events
      BY Zenon, <1>2 DEF Connect
    <2> QED
      BY Zenon, <1>1, <2>1, Known, HostKeeps DEF Tasks, Absent, Unborn, Over
  <1>3. CASE HasRoom
    <2>1. task' = [task EXCEPT ![s] = "announced"] /\ events' = Append(events, Event("Connected", s))
      BY Zenon, <1>3 DEF Connect
    <2>2. /\ task \in [Sessions -> Tasks] /\ UNCHANGED <<pc, session, held, left, spawned, story>>
          /\ task'[s] = "announced" /\ (\A t \in Sessions \ {s} : task'[t] = task[t])
          /\ events \in Seq(Events) /\ Bounded(commands') /\ sessions \ {s} = sessions
      BY Zenon, <1>1, <2>1, Known DEF ownerVars
    <2>3. Views'
      BY Zenon, <1>1, ViewsSame DEF IInv
    <2>4. Queues'
      <3>1. "announced" \in Tasks /\ "Connected" \in EventKinds
        BY Zenon DEF Tasks, EventKinds
      <3> QED
        BY Zenon, <1>1, <1>3, <2>1, <2>2, <3>1, QueuesHost DEF IInv
    <2>5. Owner'
      BY Zenon, <1>1, OwnerMove DEF IInv
    <2>6. Gone'
      BY Zenon, <1>1, <2>1, <2>2, GoneMove DEF IInv, Over, Unborn
    <2>7. Heard'
      <3>1. HeardOf(events', task', story)
        BY Zenon, <1>1, <2>1, <2>2, HeardConnect DEF IInv, Heard
      <3> QED
        BY Zenon, <2>2, <3>1 DEF IInv, Heard
    <2>8. Agreed'
      BY Zenon, <1>1, <2>1, <2>2, AgreedMove DEF IInv, Over
    <2> QED
      BY Zenon, <2>3, <2>4, <2>5, <2>6, <2>7, <2>8 DEF IInv
  <1> QED
    BY Zenon, <1>2, <1>3

LEMMA RegisterKeeps ==
    ASSUME IInv, NEW s \in Sessions, Register(s)
    PROVE  IInv'
  <1>1. task[s] = "announced" /\ task' = [task EXCEPT ![s] = "live"] /\ sessions' = sessions \cup {s}
        /\ UNCHANGED <<shut, state, commands, events, pins, resident, ownerVars, client>>
    BY Zenon DEF Register
  <1>2. ~shut /\ sessions' = sessions \cup (IF shut THEN {} ELSE {s})
    BY Zenon, <1>1 DEF IInv, Queues
  <1>3. "live" \in Tasks /\ "live" \notin Absent \cup Unborn \cup Over /\ task[s] \notin Absent \cup Over
    BY Zenon, <1>1 DEF Tasks, Absent, Unborn, Over
  <1> QED
    BY Zenon, <1>1, <1>2, <1>3, Known, HostKeeps

LEMMA DeferredKeeps ==
    ASSUME IInv, NEW s \in Sessions, NextDeferred(s)
    PROVE  IInv'
  <1> DEFINE st == state[s]
             q  == [st EXCEPT !.deferred = Tail(@)]
  <1>1. task[s] = "live" /\ UNCHANGED <<sessions, shut, commands, resident, ownerVars, client>>
    BY Zenon DEF NextDeferred
  <1>2. CASE TakesDeferred(st)
    <2>1. ProcessInbound(s, q, Head(st.deferred)) /\ st.deferred # <<>>
      BY Zenon, <1>2 DEF NextDeferred, TakesDeferred
    <2>2. Consistent(st) /\ st \in SessionStates /\ st.deferred \in Seq(Packets)
      BY Zenon, Known, StateType DEF Consistent
    <2>3. /\ Head(st.deferred) \in Packets /\ Tail(st.deferred) \in Seq(Packets)
          /\ Len(st.deferred) \in Nat /\ Len(Tail(st.deferred)) = Len(st.deferred) - 1
      BY <2>1, <2>2
    <2>4. /\ q \in SessionStates /\ q.view = st.view /\ q.pending = st.pending /\ q.phase = st.phase
          /\ q.desired = st.desired /\ q.player = st.player /\ q.deferred = Tail(st.deferred)
      BY Zenon, <2>2, <2>3 DEF SessionStates
    <2>5. Len(q.deferred) <= MaxDeferred
      <3>1. Len(st.deferred) <= MaxDeferred /\ Len(q.deferred) = Len(st.deferred) - 1
        BY Zenon, <2>2, <2>3, <2>4 DEF Consistent
      <3> HIDE DEF st, q
      <3> QED
        BY <2>3, <3>1, Constants
    <2> HIDE DEF st, q
    <2>6. Target(q) = Target(st)
      BY Zenon, <2>4 DEF Target
    <2>7. Consistent(q)
      BY Zenon, <2>2, <2>4, <2>5, <2>6 DEF Consistent
    <2> QED
      BY Zenon, <1>1, <2>1, <2>3, <2>4, <2>7, Inbound DEF st
  <1>3. CASE ~TakesDeferred(st)
    <2>1. UNCHANGED <<task, state, events, pins>>
      BY Zenon, <1>3 DEF NextDeferred
    <2>2. task' = [task EXCEPT ![s] = "live"] /\ sessions' = sessions \cup (IF shut THEN {} ELSE {s})
      BY Zenon, <1>1, <2>1, Known
    <2>3. "live" \in Tasks /\ "live" \notin Absent \cup Unborn \cup Over
      BY Zenon DEF Tasks, Absent, Unborn, Over
    <2> QED
      BY Zenon, <1>1, <2>1, <2>2, <2>3, Known, HostKeeps
  <1> QED
    BY Zenon, <1>2, <1>3

LEMMA ReceiveKeeps ==
    ASSUME IInv, NEW s \in Sessions, NEW p \in Packets, Receive(s, p)
    PROVE  IInv'
  <1>1. /\ task[s] = "live" /\ ProcessInbound(s, state[s], p) /\ Consistent(state[s])
        /\ UNCHANGED <<sessions, shut, commands, resident, ownerVars, client>>
    BY Zenon, Known DEF Receive
  <1> QED
    BY Zenon, <1>1, Inbound

LEMMA TailBounded ==
    ASSUME Bounded(commands), NEW s \in Sessions, commands[s] # <<>>
    PROVE  Bounded([commands EXCEPT ![s] = Tail(@)])
  <1>1. /\ commands \in [Sessions -> Seq(Commands)] /\ commands[s] \in Seq(Commands)
        /\ \A t \in Sessions : Len(commands[t]) <= CommandCap
    BY Zenon DEF Bounded
  <1>2. Tail(commands[s]) \in Seq(Commands) /\ Len(Tail(commands[s])) <= CommandCap
    BY <1>1, Constants
  <1> QED
    BY Zenon, <1>1, <1>2 DEF Bounded

LEMMA AppendBounded ==
    ASSUME Bounded(commands), NEW s \in Sessions, NEW c \in Commands, Len(commands[s]) < CommandCap
    PROVE  Bounded([commands EXCEPT ![s] = Append(@, c)])
  <1>1. /\ commands \in [Sessions -> Seq(Commands)] /\ commands[s] \in Seq(Commands)
        /\ \A t \in Sessions : Len(commands[t]) <= CommandCap
    BY Zenon DEF Bounded
  <1>2. Append(commands[s], c) \in Seq(Commands) /\ Len(Append(commands[s], c)) <= CommandCap
    BY <1>1, Constants
  <1> QED
    BY Zenon, <1>1, <1>2 DEF Bounded

LEMMA RunCommandKeeps ==
    ASSUME IInv, NEW s \in Sessions, RunCommand(s)
    PROVE  IInv'
  <1>1. /\ task[s] = "live" /\ commands' = [commands EXCEPT ![s] = Tail(@)] /\ commands[s] # <<>>
        /\ task' = task \/ task' = [task EXCEPT ![s] = "closing"]
        /\ UNCHANGED <<sessions, shut, state, events, pins, resident, ownerVars, client>>
    BY Zenon DEF RunCommand
  <1>2. PICK x \in {"live", "closing"} : task' = [task EXCEPT ![s] = x]
    BY Zenon, <1>1, Known
  <1>3. Bounded(commands')
    BY Zenon, <1>1, Known, TailBounded
  <1>4. x \in Tasks /\ x \notin Absent \cup Unborn \cup Over /\ task[s] \notin Absent \cup Over
    BY Zenon, <1>1 DEF Tasks, Absent, Unborn, Over
  <1>5. sessions' = sessions \cup (IF shut THEN {} ELSE {s})
    BY Zenon, <1>1, Known
  <1>6. x # "announced" /\ task[s] # "ended"
    BY Zenon, <1>1
  <1> QED
    BY Zenon, <1>1, <1>2, <1>3, <1>4, <1>5, <1>6, HostKeeps

LEMMA PeerGoneKeeps ==
    ASSUME IInv, NEW s \in Sessions, PeerGone(s)
    PROVE  IInv'
  <1>1. /\ task[s] = "live" /\ task' = [task EXCEPT ![s] = "closing"]
        /\ UNCHANGED <<sessions, shut, state, commands, events, pins, resident, ownerVars, client>>
    BY Zenon DEF PeerGone
  <1>2. /\ "closing" \in Tasks /\ "closing" \notin Absent \cup Unborn \cup Over /\ task[s] \notin Absent \cup Over
        /\ task[s] # "ended"
    BY Zenon, <1>1 DEF Tasks, Absent, Unborn, Over
  <1>3. sessions' = sessions \cup (IF shut THEN {} ELSE {s})
    BY Zenon, <1>1, Known
  <1> QED
    BY Zenon, <1>1, <1>2, <1>3, Known, HostKeeps

LEMMA RemoveKeeps ==
    ASSUME IInv, NEW s \in Sessions, Remove(s)
    PROVE  IInv'
  <1>1. /\ task[s] = "closing" /\ task' = [task EXCEPT ![s] = "removed"] /\ sessions' = sessions \ {s}
        /\ UNCHANGED <<shut, state, commands, events, pins, resident, ownerVars, client>>
    BY Zenon DEF Remove
  <1>2. /\ "removed" \in Tasks /\ "removed" \notin Absent \cup Unborn \cup Over /\ task[s] \notin Absent \cup Over
        /\ task[s] # "ended" /\ "removed" \notin {"live", "closing"}
    BY Zenon, <1>1 DEF Tasks, Absent, Unborn, Over
  <1> QED
    BY Zenon, <1>1, <1>2, Known, HostKeeps

LEMMA ReportKeeps ==
    ASSUME IInv, NEW s \in Sessions, Report(s)
    PROVE  IInv'
  <1>1. /\ task[s] = "dropped" /\ task' = [task EXCEPT ![s] = "ended"]
        /\ events' = events \/ (HasRoom /\ events' = Append(events, Event("Disconnected", s)))
        /\ UNCHANGED <<sessions, shut, state, commands, pins, resident, ownerVars, client>>
    BY Zenon DEF Report
  <1>2. /\ "ended" \in Tasks /\ "ended" \notin Absent \cup Unborn /\ "ended" \in Over
        /\ task[s] \notin Absent /\ task[s] \in Over /\ task[s] # "ended"
        /\ "Disconnected" \in EventKinds \ {"Connected"} /\ "ended" \notin {"live", "closing"}
    BY Zenon, <1>1 DEF Tasks, Absent, Unborn, Over, EventKinds
  <1>3. sessions' = sessions \ {s}
    BY Zenon, <1>1, Known
  <1>4. \/ events' = events
        \/ /\ "ended" \notin Absent /\ HasRoom
           /\ \E k \in EventKinds \ {"Connected"} :
                 events' = Append(events, Event(k, s)) /\ (k = "Disconnected" => "ended" = "ended")
    BY Zenon, <1>1, <1>2
  <1> QED
    BY Zenon, <1>1, <1>2, <1>3, <1>4, Known, HostKeeps

(* The last reference may be the host's own. *)
LEMMA ReleaseKeeps ==
    ASSUME IInv, NEW s \in Sessions, Release(s)
    PROVE  IInv'
  <1>1. /\ task[s] = "removed" /\ task' = [task EXCEPT ![s] = "dropped"]
        /\ UNCHANGED <<sessions, shut, commands, events, resident, ownerVars, client>>
    BY Zenon DEF Release
  <1>2. /\ "dropped" \in Tasks /\ "dropped" \notin Absent \cup Unborn /\ "dropped" \in Over
        /\ task[s] \notin Absent \cup Over /\ task[s] # "ended" /\ "dropped" \notin {"live", "closing"}
    BY Zenon, <1>1 DEF Tasks, Absent, Unborn, Over
  <1>3. sessions' = sessions \ {s}
    BY Zenon, <1>1, Known
  <1>4. CASE held = s
    <2>1. UNCHANGED <<state, pins>>
      BY Zenon, <1>4 DEF Release
    <2> QED
      BY Zenon, <1>1, <1>2, <1>3, <1>4, <2>1, Known, HostKeeps
  <1>5. CASE held # s
    <2>1. state' = [state EXCEPT ![s] = Fresh] /\ pins' = DropPins(pins, state[s])
      BY Zenon, <1>5 DEF Release
    <2>2. /\ state \in States /\ pins \in [Chunks -> Nat] /\ Exact(pins, state) /\ task \in [Sessions -> Tasks]
          /\ UNCHANGED <<pc, session, held, left, spawned, story>> /\ Bounded(commands') /\ DOMAIN client' = Sessions
      BY Zenon, <1>1, Known DEF IInv, Views, ownerVars
    <2>3. /\ state'[s] = Fresh /\ (\A t \in Sessions \ {s} : state'[t] = state[t])
      BY Zenon, <2>1, <2>2 DEF States
    <2>4. pins' \in [Chunks -> Nat] /\ Exact(pins', state')
      BY Zenon, <2>1, <2>2, DropExact
    <2>5. Views'
      BY Zenon, <1>1, <2>1, <2>2, <2>4, FreshState, ViewsUpdate DEF IInv
    <2>6. Queues'
      BY Zenon, <1>1, <1>2, <1>3, <2>2, QueuesHost DEF IInv
    <2>7. Owner'
      BY Zenon, <1>1, <2>3, FreshState, OwnerMove DEF IInv
    <2>8. Gone'
      BY Zenon, <1>1, <1>2, <2>2, <2>3, GoneMove DEF IInv
    <2>9. Heard'
      BY Zenon, <1>1, <1>2, <2>2, HeardHost DEF IInv
    <2>10. Agreed'
      BY Zenon, <1>1, <1>2, <1>5, <2>2, <2>3, FreshState, AgreedMove DEF IInv, Joining
    <2> QED
      BY Zenon, <2>5, <2>6, <2>7, <2>8, <2>9, <2>10 DEF IInv
  <1> QED
    BY Zenon, <1>4, <1>5

(* The map loses its slots at once, and the sessions in it are told to end. *)
LEMMA EndAcceptingKeeps ==
    ASSUME IInv, EndAccepting
    PROVE  IInv'
  <1>1. /\ shut' = TRUE /\ (\A s \in Sessions : task[s] # "announced") /\ sessions' = {}
        /\ UNCHANGED <<task, state, events, pins, resident, ownerVars, client>>
    BY Zenon DEF EndAccepting
  <1>2. UNCHANGED <<pc, session, held, left, work, fetched, spawned, story>>
    BY Zenon, <1>1 DEF ownerVars, workVars
  <1>3. Bounded(commands')
    <2>1. "disconnect" \in Commands
      BY Zenon DEF Commands
    <2>2. commands \in [Sessions -> Seq(Commands)] /\ \A s \in Sessions : Len(commands[s]) <= CommandCap
      BY Zenon, Known DEF Bounded
    <2>3. ASSUME NEW q \in Seq(Commands), Len(q) < CommandCap
          PROVE  Append(q, "disconnect") \in Seq(Commands) /\ Len(Append(q, "disconnect")) <= CommandCap
      BY <2>1, <2>3, Constants
    <2>4. commands' = [s \in Sessions |-> IF s \in sessions /\ Len(commands[s]) < CommandCap
                                          THEN Append(commands[s], "disconnect") ELSE commands[s]]
      BY Zenon DEF EndAccepting
    <2>5. ASSUME NEW s \in Sessions
          PROVE  commands'[s] \in Seq(Commands) /\ Len(commands'[s]) <= CommandCap
      BY Zenon, <2>2, <2>3, <2>4
    <2>6. commands' \in [Sessions -> Seq(Commands)]
      BY Zenon, <2>4, <2>5
    <2> QED
      BY Zenon, <2>5, <2>6 DEF Bounded
  <1>4. Queues'
    BY Zenon, <1>1, <1>2, <1>3 DEF IInv, Queues
  <1> QED
    BY Zenon, <1>1, <1>2, <1>4 DEF IInv, Views, Owner, Gone, Heard, Agreed

-----------------------------------------------------------------------------
(* The steps of the owner. *)

LEMMA QueuesOwner ==
    ASSUME Queues, UNCHANGED hostVars, Bounded(commands'), events' \in Seq(Events), Len(events') <= EventCap,
           left' \in 0 .. Budget
    PROVE  Queues'
  BY Zenon DEF Queues, hostVars

(* A step of the owner between two calls into a session. *)
LEMMA OwnerKeeps ==
    ASSUME IInv, Views', Owner', UNCHANGED <<hostVars, state, events, held, story>>, Bounded(commands'),
           left' \in 0 .. Budget, spawned' \subseteq spawned,
           pc' = "accept" => pc = "accept" /\ session' = session
    PROVE  IInv'
  <1>1. UNCHANGED <<task, state, events, held, story>>
    BY Zenon DEF hostVars
  <1>2. Queues'
    BY Zenon, QueuesOwner DEF IInv, Queues
  <1>3. Gone'
    BY Zenon, <1>1 DEF IInv, Gone
  <1>4. Heard'
    BY Zenon, <1>1 DEF IInv, Heard
  <1>5. Agreed'
    BY Zenon, <1>1 DEF IInv, Agreed
  <1> QED
    BY Zenon, <1>2, <1>3, <1>4, <1>5 DEF IInv

LEMMA LeftType ==
    ASSUME IInv
    PROVE  left \in 0 .. Budget /\ Budget \in 0 .. Budget
  <1>1. Budget \in 0 .. Budget
    BY Constants
  <1> QED
    BY Zenon, <1>1 DEF IInv, Queues

(* Steps that move the owner from one place to another and touch nothing else. *)
LEMMA PassesOn ==
    ASSUME IInv, PollEnd \/ PreparePending \/ PrepareEnd \/ Stop \/ Join
    PROVE  IInv'
  <1>1. UNCHANGED <<hostVars, state, pins, resident, events, held, story, client, commands, left, fetched>>
    BY Zenon DEF PollEnd, PreparePending, PrepareEnd, Stop, Join, workVars
  <1>2. Views'
    BY Zenon, <1>1 DEF IInv, Views
  <1>3. pc \in {"poll", "prepare", "joining"} /\ held = None
    BY Zenon DEF PollEnd, PreparePending, PrepareEnd, Stop, Join, IInv, Owner, Calls
  <1>4. /\ pc' \in {"next", "joining", "prepare", "fetch", "stopped"} /\ spawned' \subseteq spawned
        /\ pc' \in {"prepare", "fetch"} => pc = "prepare" /\ session' = session
        /\ pc' \in {"joining", "stopped"} => spawned' = {}
    <2>1. CASE PollEnd
      BY Zenon, <2>1 DEF PollEnd, Throw
    <2>2. CASE PreparePending
      BY Zenon, <2>2 DEF PreparePending
    <2>3. CASE PrepareEnd
      BY Zenon, <2>3 DEF PrepareEnd
    <2>4. CASE Stop \/ Join
      <3>1. pc \in {"poll", "joining"} /\ pc' \in {"joining", "stopped"} /\ spawned' = spawned
        BY Zenon, <2>4 DEF Stop, Join
      <3>2. spawned = {}
        BY Zenon, <3>1 DEF IInv, Owner, Ticking
      <3> QED
        BY Zenon, <3>1, <3>2
    <2> QED
      BY Zenon, <2>1, <2>2, <2>3, <2>4
  <1>5. Owner'
    BY Zenon, <1>1, <1>3, <1>4 DEF IInv, Owner, Calls, Ticking
  <1> QED
    BY Zenon, <1>1, <1>2, <1>4, <1>5, Known, LeftType, OwnerKeeps

LEMMA FullBounded ==
    ASSUME Bounded(commands), session \in Sessions, ~Full, NEW c \in Commands, Queue(c)
    PROVE  Bounded(commands')
  <1>1. Len(commands[session]) \in Nat
    BY DEF Bounded
  <1>2. Len(commands[session]) < CommandCap
    BY <1>1, Constants DEF Full
  <1> QED
    BY Zenon, <1>2, AppendBounded DEF Queue

LEMMA RejectKeeps ==
    ASSUME IInv, Reject
    PROVE  IInv'
  <1>1. /\ pc = "reject" /\ pc' = "poll"
        /\ UNCHANGED <<hostVars, state, events, pins, resident, session, held, left, workVars, spawned, story, client>>
    BY Zenon DEF Reject
  <1>2. session \in Sessions /\ "disconnect" \in Commands
    BY Zenon, <1>1 DEF IInv, Owner, Commands
  <1>3. Bounded(commands')
    BY Zenon, <1>2, Known, FullBounded DEF Reject
  <1>4. Views'
    BY Zenon, <1>1 DEF IInv, Views
  <1>5. Owner'
    BY Zenon, <1>1 DEF IInv, Owner, Calls, Ticking, workVars
  <1> QED
    BY Zenon, <1>1, <1>3, <1>4, <1>5, LeftType, OwnerKeeps

LEMMA SyncSendKeeps ==
    ASSUME IInv, NEW s \in Sessions, SyncSend(s)
    PROVE  IInv'
  <1>1. /\ pc = "sync" /\ pc' = "evict"
        /\ UNCHANGED <<hostVars, state, events, pins, resident, session, held, left, workVars, spawned, story, client>>
    BY Zenon DEF SyncSend
  <1>2. Bounded(commands')
    <2>1. "send" \in Commands
      BY Zenon DEF Commands
    <2> QED
      BY Zenon, <2>1, Known, AppendBounded DEF SyncSend
  <1>3. Views'
    BY Zenon, <1>1 DEF IInv, Views
  <1>4. Owner'
    BY Zenon, <1>1 DEF IInv, Owner, Calls, Ticking, workVars
  <1> QED
    BY Zenon, <1>1, <1>2, <1>3, <1>4, LeftType, OwnerKeeps

(* Only chunks that no session pins are evicted. *)
LEMMA EndTickKeeps ==
    ASSUME IInv, EndTick
    PROVE  IInv'
  <1>1. /\ pc \in {"sync", "evict"} /\ pc' = "poll" /\ left' = Budget
        /\ UNCHANGED <<hostVars, state, commands, events, pins, session, held, workVars, spawned, story, client>>
    BY Zenon DEF EndTick
  <1>2. PICK E \in SUBSET Evictable : resident' = resident \ E
    BY Zenon DEF EndTick
  <1>3. state \in States /\ Exact(pins, state)
    BY Zenon, Known DEF IInv, Views
  <1>4. ASSUME NEW s \in Sessions
        PROVE  Area(state[s].view) \cup Prepared(state[s]) \subseteq resident'
    <2>1. state[s] \in SessionStates
      BY Zenon, <1>3 DEF States
    <2>2. ASSUME NEW c \in Area(state[s].view) \cup Prepared(state[s])
          PROVE  c \in resident'
      <3>1. c \in Chunks /\ c \in resident
        BY Zenon, <2>1, StateType DEF IInv, Views
      <3>2. pins[c] \in Nat /\ Ind(c \in Area(state[s].view)) + Ind(c \in Prepared(state[s])) <= pins[c]
        BY Zenon, <1>3, <3>1, Counted
      <3>3. pins[c] # 0
        BY <3>2 DEF Ind
      <3> QED
        BY Zenon, <1>2, <3>1, <3>3 DEF Evictable
    <2> QED
      BY Zenon, <2>2
  <1>5. Views'
    BY Zenon, <1>1, <1>4 DEF IInv, Views
  <1>6. Owner'
    BY Zenon, <1>1 DEF IInv, Owner, Calls, Ticking, workVars
  <1> QED
    BY Zenon, <1>1, <1>5, <1>6, Known, LeftType, OwnerKeeps

LEMMA NextWorkKeeps ==
    ASSUME IInv, NextWork
    PROVE  IInv'
  <1>1. /\ pc = "next"
        /\ UNCHANGED <<hostVars, state, commands, events, pins, resident, held, left, fetched, spawned, story, client>>
    BY Zenon DEF NextWork
  <1>2. pc' = "dispatch" \/ (pc' = "prepare" /\ session' \in Sessions)
    <2>1. CASE WaitingForChunks = {}
      BY Zenon, <2>1 DEF NextWork
    <2>2. CASE WaitingForChunks # {}
      <3>1. sessions \subseteq Sessions
        BY Zenon, Known
      <3>2. WaitingForChunks \subseteq Sessions /\ WaitingForChunks \in SUBSET Nat
        BY Zenon, <3>1, Constants DEF WaitingForChunks
      <3>3. MinOf(WaitingForChunks) \in WaitingForChunks
        BY Zenon, <2>2, <3>2, Least
      <3> QED
        BY Zenon, <2>2, <3>2, <3>3 DEF NextWork
    <2> QED
      BY Zenon, <2>1, <2>2
  <1>3. Views'
    BY Zenon, <1>1 DEF IInv, Views
  <1>4. Owner'
    BY Zenon, <1>1, <1>2 DEF IInv, Owner, Calls, Ticking
  <1> QED
    BY Zenon, <1>1, <1>2, <1>3, <1>4, Known, LeftType, OwnerKeeps

LEMMA PrepareReadyKeeps ==
    ASSUME IInv, NEW c \in Chunks, PrepareReady(c)
    PROVE  IInv'
  <1>1. /\ pc = "prepare" /\ pc' = "mark" /\ c = MinOf(work) /\ resident' = resident \cup {c}
        /\ UNCHANGED <<hostVars, state, commands, events, pins, session, held, left, workVars, spawned, story, client>>
    BY Zenon DEF PrepareReady
  <1>2. Views'
    BY Zenon, <1>1, ViewsSame DEF IInv
  <1>3. UNCHANGED <<work, fetched>>
    BY Zenon, <1>1 DEF workVars
  <1>4. Owner'
    BY Zenon, <1>1, <1>3 DEF IInv, Owner, Calls, Ticking
  <1> QED
    BY Zenon, <1>1, <1>2, <1>4, Known, LeftType, OwnerKeeps

LEMMA SlotKeeps ==
    ASSUME IInv, Slot
    PROVE  IInv'
  <1>1. /\ pc \in Calls /\ held = None
        /\ UNCHANGED <<hostVars, state, commands, events, pins, resident, session, left, workVars, story, client>>
    BY Zenon DEF Slot, Calls
  <1>2. UNCHANGED <<work, fetched>>
    BY Zenon, <1>1 DEF workVars
  <1>3. Views'
    BY Zenon, <1>1 DEF IInv, Views
  <1>4. CASE session \in sessions
    <2>1. held' = session /\ UNCHANGED <<pc, spawned>>
      BY Zenon, <1>4 DEF Slot
    <2>2. session \in Sessions /\ task[session] \in {"live", "closing"}
      BY Zenon, <1>4, Known
    <2>3. task[session] \notin Over \cup Unborn \cup {"ended"}
      BY Zenon, <2>2 DEF Over, Unborn
    <2>4. Owner'
      BY Zenon, <1>1, <1>2, <2>1 DEF IInv, Owner
    <2>5. UNCHANGED <<task, state, events, story, pc, session, spawned>>
      BY Zenon, <1>1, <2>1 DEF hostVars
    <2>6. Gone'
      BY Zenon, <1>1, <2>1, <2>2, <2>3, <2>5, NoneApart DEF IInv, Gone
    <2>7. Heard'
      BY Zenon, <2>5 DEF IInv, Heard
    <2>8. Agreed'
      BY Zenon, <2>1, <2>3, <2>5 DEF IInv, Agreed
    <2>9. Queues'
      BY Zenon, <1>1 DEF IInv, Queues, hostVars
    <2> QED
      BY Zenon, <1>3, <2>4, <2>6, <2>7, <2>8, <2>9 DEF IInv
  <1>5. CASE session \notin sessions
    <2>1. /\ held' = held /\ (pc' = "poll" \/ pc' = "joining")
          /\ (pc = "accept" /\ spawned' = spawned) \/ spawned' = {}
      BY Zenon, <1>5 DEF Slot, Throw
    <2>2. spawned' = {} /\ spawned' \subseteq spawned
      BY Zenon, <2>1 DEF IInv, Owner, Ticking
    <2>3. Owner'
      BY Zenon, <1>1, <1>2, <2>1, <2>2 DEF IInv, Owner, Calls, Ticking
    <2> QED
      BY Zenon, <1>1, <1>3, <2>1, <2>2, <2>3, Known, LeftType, OwnerKeeps
  <1> QED
    BY Zenon, <1>4, <1>5

(* PHP hears one event. *)
LEMMA PollHears ==
    ASSUME IInv, Poll
    PROVE  /\ events \in Seq(Events) /\ events # <<>> /\ events' = Tail(events)
           /\ Head(events) = events[1] /\ story' = Hearing(events[1], story)
           /\ pc = "poll" /\ held = None /\ spawned = {}
           /\ pc' = "poll" \/ (pc' = "accept" /\ session' = events[1].session /\ events[1].kind = "LoginRequested")
           /\ left' = left - 1 /\ left > 0
           /\ UNCHANGED <<hostVars, state, commands, pins, resident, held, workVars, spawned, client>>
  <1>1. events \in Seq(Events) /\ events # <<>> /\ Head(events) = events[1]
    <2>1. events \in Seq(Events) /\ events # <<>>
      BY Zenon DEF IInv, Queues, Poll
    <2> QED
      BY <2>1
  <1>2. story' = Hearing(Head(events), story)
    BY Zenon DEF Poll, Hearing
  <1>3. pc = "poll" /\ held = None /\ spawned = {}
    BY Zenon DEF IInv, Owner, Calls, Ticking, Poll
  <1> QED
    BY Zenon, <1>1, <1>2, <1>3 DEF Poll

LEMMA PollKeeps ==
    ASSUME IInv, Poll
    PROVE  IInv'
  <1> DEFINE e == events[1]
  <1>1. /\ events \in Seq(Events) /\ events # <<>> /\ events' = Tail(events) /\ story' = Hearing(e, story)
        /\ held = None /\ spawned = {} /\ left' = left - 1 /\ left > 0
        /\ pc' = "poll" \/ (pc' = "accept" /\ session' = e.session /\ e.kind = "LoginRequested")
        /\ UNCHANGED <<hostVars, state, commands, pins, resident, held, workVars, spawned, client>>
    BY Zenon, PollHears
  <1>0. e = events[1]
    OBVIOUS
  <1> HIDE DEF e
  <1>2. UNCHANGED <<task, work, fetched>>
    BY Zenon, <1>1 DEF hostVars, workVars
  <1>3. /\ story \in [Sessions -> Stories] /\ HeardOf(events, task, story)
    BY Zenon DEF IInv, Heard
  <1>4. /\ story' \in [Sessions -> Stories] /\ HeardOf(events', task, story')
        /\ e.kind \in EventKinds /\ e.session \in Sessions
        /\ e.kind = "Connected" => story[e.session] = "none"
        /\ e.kind # "Connected" => story[e.session] # "none"
        /\ e.kind = "Disconnected" => task[e.session] = "ended"
        /\ e.kind \notin {"Connected", "Disconnected"} => story' = story
        /\ \A s \in Sessions : story'[s] # story[s] =>
              /\ s = e.session
              /\ \/ (e.kind = "Connected" /\ story'[s] = "connected")
                 \/ (e.kind = "Disconnected" /\ story'[s] = "disconnected")
    <2>1. Polled(e, events', task, story, story')
      BY Zenon, <1>0, <1>1, <1>3, HeardPoll
    <2> QED
      BY Zenon, <2>1 DEF Polled
  <1>5. Views'
    BY Zenon, <1>1 DEF IInv, Views
  <1>6. Queues'
    <2>1. left \in 0 .. Budget /\ Len(events) <= EventCap
      BY Zenon DEF IInv, Queues
    <2>2. left' \in 0 .. Budget /\ events' \in Seq(Events) /\ Len(events') <= EventCap
      BY <1>1, <2>1, Constants
    <2> QED
      BY Zenon, <1>1, <2>2, Known, QueuesOwner DEF IInv
  <1>7. Owner'
    BY Zenon, <1>1, <1>2, <1>4 DEF IInv, Owner, Calls, Ticking
  <1>8. Gone'
    BY Zenon, <1>1, <1>2, <1>4, NoneApart DEF IInv, Gone
  <1>9. Heard'
    BY Zenon, <1>1, <1>2, <1>4 DEF Heard
  <1>10. Agreed'
    <2>1. ASSUME NEW s \in Sessions, state[s].phase \in Joining
          PROVE  story'[s] = "accepted"
      <3>1. story[s] = "accepted"
        BY Zenon, <2>1 DEF IInv, Agreed
      <3>2. task[s] # "ended"
        BY Zenon, <1>1, <2>1, NoneApart, FreshState DEF IInv, Gone, Over, Joining
      <3> QED
        BY Zenon, <1>4, <3>1, <3>2
    <2>2. ASSUME NEW s \in Sessions, story'[s] \in {"accepted", "spawned"}
          PROVE  story[s] = story'[s]
      BY Zenon, <1>4, <2>2
    <2> QED
      BY Zenon, <1>1, <1>2, <2>1, <2>2 DEF IInv, Agreed
  <1> QED
    BY Zenon, <1>5, <1>6, <1>7, <1>8, <1>9, <1>10 DEF IInv

LEMMA HeardStory ==
    ASSUME NEW q \in Seq(Events), NEW t, NEW h, NEW k, HeardOf(q, t, h),
           \A s \in Sessions : k[s] = "none" <=> h[s] = "none"
    PROVE  HeardOf(q, t, k)
  <1>1. ASSUME NEW n \in 1 .. Len(q) PROVE EventHeard(q, n, t, k)
    BY Zenon, EventIn DEF HeardOf, EventHeard
  <1> QED
    BY Zenon, <1>1 DEF HeardOf

LEMMA DispatchKeeps ==
    ASSUME IInv, DispatchSpawned
    PROVE  IInv'
  <1>1. /\ pc = "dispatch" /\ pc' = "sync" /\ spawned' = {}
        /\ story' = [s \in Sessions |-> IF s \in spawned THEN "spawned" ELSE story[s]]
        /\ UNCHANGED <<hostVars, state, commands, events, pins, resident, session, held, left, workVars, client>>
    BY Zenon DEF DispatchSpawned
  <1>2. UNCHANGED <<task, work, fetched>>
    BY Zenon, <1>1 DEF hostVars, workVars
  <1>3. story \in [Sessions -> Stories] /\ \A s \in spawned : story[s] = "accepted"
    BY Zenon DEF IInv, Heard, Agreed
  <1>4. /\ story' \in [Sessions -> Stories]
        /\ \A s \in Sessions : story'[s] = IF s \in spawned THEN "spawned" ELSE story[s]
    BY Zenon, <1>1, <1>3 DEF Stories
  <1>5. Views'
    BY Zenon, <1>1 DEF IInv, Views
  <1>6. Queues'
    BY Zenon, <1>1 DEF IInv, Queues, hostVars
  <1>7. Owner'
    BY Zenon, <1>1, <1>2 DEF IInv, Owner, Calls, Ticking
  <1>8. Gone'
    BY Zenon, <1>1, <1>2, <1>4 DEF IInv, Gone
  <1>9. Heard'
    <2>1. HeardOf(events, task, story')
      BY Zenon, <1>3, <1>4, Known, HeardStory DEF IInv, Heard
    <2> QED
      BY Zenon, <1>1, <1>2, <1>4, <2>1 DEF Heard
  <1>10. Agreed'
    BY Zenon, <1>1, <1>2, <1>3, <1>4 DEF IInv, Agreed
  <1> QED
    BY Zenon, <1>5, <1>6, <1>7, <1>8, <1>9, <1>10 DEF IInv

(* The owner serves a session: the second half of each of its calls. *)
LEMMA Serves ==
    ASSUME IInv, held = session, pc \in Calls
    PROVE  /\ session \in Sessions /\ state \in States /\ Consistent(state[session])
           /\ state[session] \in SessionStates /\ held # None
           /\ pins \in [Chunks -> Nat] /\ Exact(pins, state)
           /\ Exact(pins, [state EXCEPT ![session] = state[session]])
           /\ Area(state[session].view) \cup Prepared(state[session]) \subseteq resident
           /\ task[session] \notin Unborn /\ story[session] # "disconnected"
  <1>1. session \in Sessions
    BY Zenon DEF IInv, Owner, Calls
  <1>2. state \in States /\ [state EXCEPT ![session] = state[session]] = state
    BY Zenon, Known DEF States
  <1> QED
    BY Zenon, <1>1, <1>2, NoneApart DEF IInv, Views, States, Gone

LEMMA Served ==
    ASSUME IInv, held = session, pc \in Calls, NEW st, Consistent(st), NEW p \in [Chunks -> Nat],
           Exact(p, [state EXCEPT ![session] = st]), Settle(st, p),
           Area(st.view) \cup Prepared(st) \subseteq resident,
           UNCHANGED <<hostVars, events, resident, left>>, Bounded(commands'),
           DOMAIN client' = Sessions, \A t \in Sessions \ {session} : client'[t] = client[t],
           st.view # None => client'[session] = Area(st.view),
           \A t \in Sessions : story'[t] = "disconnected" => story[t] = "disconnected"
    PROVE  /\ Views' /\ Queues' /\ Gone' /\ held' = None
           /\ state'[session] = Left(st) /\ \A t \in Sessions \ {session} : state'[t] = state[t]
  <1>1. session \in Sessions /\ state \in States /\ task[session] \notin Unborn /\ story[session] # "disconnected"
    BY Zenon, Serves
  <1>2. /\ pins' \in [Chunks -> Nat] /\ Exact(pins', state')
        /\ state' = [state EXCEPT ![session] = Left(st)] /\ Consistent(Left(st)) /\ held' = None
    BY Zenon, <1>1, SettleExact
  <1>3. /\ state'[session] = Left(st) /\ \A t \in Sessions \ {session} : state'[t] = state[t]
    BY Zenon, <1>1, <1>2 DEF States
  <1>4. /\ Area(Left(st).view) \cup Prepared(Left(st)) \subseteq resident
        /\ Left(st).view # None => client'[session] = Area(Left(st).view)
    <2>1. CASE Left(st) = st
      BY Zenon, <2>1
    <2>2. CASE Left(st) = Fresh
      BY Zenon, <2>2, FreshState
    <2> QED
      BY Zenon, <2>1, <2>2 DEF Left
  <1>5. Views'
    BY Zenon, <1>1, <1>2, <1>4, ViewsUpdate DEF IInv
  <1>6. Queues'
    BY Zenon, QueuesOwner DEF IInv, Queues
  <1>7. Gone'
    <2>1. ASSUME NEW t \in Sessions
          PROVE  /\ task[t] \in Over => state'[t] = Fresh
                 /\ task[t] \in Unborn => state'[t] = Fresh /\ None # t
                 /\ story'[t] = "disconnected" => task[t] = "ended" /\ None # t
      <3>1. CASE t = session
        BY Zenon, <1>1, <1>3, <3>1, NoneApart DEF Left
      <3>2. CASE t # session
        BY Zenon, <1>3, <3>2, NoneApart DEF IInv, Gone
      <3> QED
        BY Zenon, <3>1, <3>2
    <2>2. task' = task
      BY Zenon DEF hostVars
    <2> QED
      BY Zenon, <1>2, <2>1, <2>2 DEF Gone
  <1> QED
    BY Zenon, <1>2, <1>3, <1>5, <1>6, <1>7

(* A call that changes neither the phase nor what PHP believes. *)
LEMMA ServedQuietly ==
    ASSUME IInv, held = session, pc \in Calls, NEW st, Consistent(st), st.phase = state[session].phase,
           NEW p \in [Chunks -> Nat],
           Exact(p, [state EXCEPT ![session] = st]), Settle(st, p), st.view = state[session].view,
           Area(st.view) \cup Prepared(st) \subseteq resident,
           UNCHANGED <<hostVars, events, resident, left, commands, client, story, session>>,
           pc' # "accept", spawned' \subseteq spawned, Owner'
    PROVE  IInv'
  <1>1. /\ DOMAIN client' = Sessions /\ (\A t \in Sessions \ {session} : client'[t] = client[t])
        /\ st.view # None => client'[session] = Area(st.view)
    BY Zenon, Serves DEF IInv, Views
  <1>2. /\ Views' /\ Queues' /\ Gone' /\ held' = None
        /\ state'[session] = Left(st) /\ (\A t \in Sessions \ {session} : state'[t] = state[t])
    BY Zenon, <1>1, Known, Served
  <1>3. UNCHANGED <<task, events, story>> /\ session \in Sessions
    BY Zenon, Serves DEF hostVars
  <1>4. Heard'
    BY Zenon, <1>3 DEF IInv, Heard
  <1>5. Agreed'
    <2>1. ASSUME NEW t \in Sessions
          PROVE  /\ state'[t].phase \in Joining => story[t] = "accepted" /\ t \notin spawned
                 /\ story[t] \in {"accepted", "spawned"} /\ task[t] \notin Over =>
                       state'[t].phase \notin {"WaitingLogin", "LoginPending"}
      <3>1. CASE t = session /\ task[t] \in Over
        BY Zenon, <1>2, <3>1, FreshState DEF Left, Joining
      <3>2. CASE t = session /\ task[t] \notin Over
        BY Zenon, <1>2, <3>2 DEF Left, IInv, Agreed
      <3>3. CASE t # session
        BY Zenon, <1>2, <3>3 DEF IInv, Agreed
      <3> QED
        BY Zenon, <3>1, <3>2, <3>3
    <2> QED
      BY Zenon, <1>2, <1>3, <2>1, NoneApart DEF IInv, Agreed
  <1> QED
    BY Zenon, <1>2, <1>4, <1>5 DEF IInv

LEMMA AcceptLoginKeeps ==
    ASSUME IInv, NEW encodes, AcceptLogin(encodes)
    PROVE  /\ IInv'
           /\ story' = story \/ (story[session] = "connected" /\ story' = [story EXCEPT ![session] = "accepted"])
  <1> DEFINE st == state[session]
             ok == encodes /\ st.phase = "LoginPending" /\ ~Closed /\ ~Full
             e  == [st EXCEPT !.phase = "WaitingChunkRadius", !.player = Spawn]
  <1>1. /\ pc = "accept" /\ held = session /\ pc \in Calls
        /\ UNCHANGED <<hostVars, events, resident, session, left, workVars, spawned, client>>
    BY Zenon DEF AcceptLogin, Calls
  <1>2. /\ session \in Sessions /\ state \in States /\ Consistent(st) /\ st \in SessionStates
        /\ pins \in [Chunks -> Nat] /\ Exact(pins, state)
        /\ Exact(pins, [state EXCEPT ![session] = st])
        /\ Area(st.view) \cup Prepared(st) \subseteq resident
        /\ story[session] # "disconnected"
    BY Zenon, <1>1, Serves
  <1>3. UNCHANGED <<task, work, fetched>> /\ spawned = {} /\ story[session] # "none"
    BY Zenon, <1>1 DEF hostVars, workVars, IInv, Owner, Ticking, Heard
  <1>4. pc' \in {"poll", "reject"} /\ held' = None
    BY Zenon DEF AcceptLogin, Settle
  <1>5. Owner'
    BY Zenon, <1>1, <1>2, <1>3, <1>4 DEF IInv, Owner, Calls, Ticking
  <1>6. CASE ~ok
    <2>1. Settle(st, pins) /\ UNCHANGED <<commands, story>>
      BY Zenon, <1>6 DEF AcceptLogin
    <2> QED
      BY Zenon, <1>1, <1>2, <1>4, <1>5, <2>1, ServedQuietly
  <1>7. CASE ok
    <2>1. Settle(e, pins) /\ Queue("send") /\ story' = [story EXCEPT ![session] = "accepted"] /\ pc' = "poll"
      BY Zenon, <1>7 DEF AcceptLogin
    <2>2. /\ e \in SessionStates /\ e.view = st.view /\ e.pending = st.pending /\ e.phase = "WaitingChunkRadius"
          /\ e.desired = st.desired /\ e.player = Spawn /\ e.deferred = st.deferred
      BY Zenon, <1>2 DEF SessionStates
    <2>3. st.phase = "LoginPending" /\ ~Full
      BY Zenon, <1>7
    <2> HIDE DEF ok, st, e
    <2>4. e.view = None /\ e.pending = None /\ e.desired = None
      BY Zenon, <1>2, <2>2, <2>3 DEF Consistent, Early
    <2>5. Consistent(e)
      BY Zenon, <1>2, <2>2, <2>4, NoneApart DEF Consistent, Early
    <2>6. Area(e.view) \cup Prepared(e) \subseteq resident
      BY Zenon, <2>4 DEF Area, Prepared
    <2>7. Exact(pins, [state EXCEPT ![session] = e])
      BY Zenon, <1>2, <2>2, ExactSame DEF st
    <2>8. Bounded(commands')
      <3>1. "send" \in Commands
        BY Zenon DEF Commands
      <3> QED
        BY Zenon, <1>2, <2>1, <2>3, <3>1, Known, FullBounded
    <2>9. story \in [Sessions -> Stories] /\ HeardOf(events, task, story) /\ events \in Seq(Events)
      BY Zenon, Known DEF IInv, Heard
    <2>10. /\ story' \in [Sessions -> Stories] /\ story'[session] = "accepted"
           /\ \A t \in Sessions \ {session} : story'[t] = story[t]
      BY Zenon, <1>2, <2>1, <2>9 DEF Stories
    <2>11. /\ DOMAIN client' = Sessions /\ (\A t \in Sessions \ {session} : client'[t] = client[t])
           /\ \A t \in Sessions : story'[t] = "disconnected" => story[t] = "disconnected"
      BY Zenon, <1>1, <2>10 DEF IInv, Views
    <2>12. /\ Views' /\ Queues' /\ Gone'
           /\ state'[session] = Left(e) /\ (\A t \in Sessions \ {session} : state'[t] = state[t])
      BY Zenon, <1>1, <1>2, <2>1, <2>4, <2>5, <2>6, <2>7, <2>8, <2>11, Served
    <2>13. Heard'
      <3>1. HeardOf(events, task, story')
        BY Zenon, <1>3, <2>9, <2>10, HeardStory
      <3> QED
        BY Zenon, <1>1, <1>3, <2>1, <2>10, <3>1 DEF Heard
    <2>14. Agreed'
      <3>1. ASSUME NEW t \in Sessions
            PROVE  /\ state'[t].phase \in Joining => story'[t] = "accepted"
                   /\ story'[t] \in {"accepted", "spawned"} /\ task[t] \notin Over =>
                         state'[t].phase \notin {"WaitingLogin", "LoginPending"}
        <4>1. CASE t = session
          BY Zenon, <2>2, <2>10, <2>12, <4>1 DEF Left
        <4>2. CASE t # session
          BY Zenon, <2>10, <2>12, <4>2 DEF IInv, Agreed
        <4> QED
          BY Zenon, <4>1, <4>2
      <3> QED
        BY Zenon, <1>1, <1>3, <1>4, <3>1, NoneApart DEF Agreed
    <2>15. story[session] = "connected"
      <3>1. story[session] \notin {"accepted", "spawned"}
        BY Zenon, <1>1, <1>2, <2>3 DEF st, IInv, Agreed
      <3> QED
        BY Zenon, <1>2, <1>3, <2>9, <3>1 DEF Stories
    <2> QED
      BY Zenon, <1>5, <2>1, <2>12, <2>13, <2>14, <2>15 DEF IInv
  <1> QED
    BY Zenon, <1>6, <1>7

(* The pin of one more chunk, at most once. *)
LEMMA PinExact ==
    ASSUME state \in States, session \in Sessions, NEW st \in SessionStates, pins \in [Chunks -> Nat],
           Exact(pins, state), NEW c \in Chunks, st.view = state[session].view,
           Prepared(st) = Prepared(state[session]) \cup {c}
    PROVE  /\ Pin(pins, {c} \ Prepared(state[session])) \in [Chunks -> Nat]
           /\ Exact(Pin(pins, {c} \ Prepared(state[session])), [state EXCEPT ![session] = st])
  <1> DEFINE D == Prepared(state[session])
             p == Pin(pins, {c} \ D)
  <1>1. p \in [Chunks -> Nat] /\ \A d \in Chunks : p[d] = IF d \in {c} \ D THEN pins[d] + 1 ELSE pins[d]
    BY DEF Pin
  <1> HIDE DEF D, p
  <1>2. ASSUME NEW d \in Chunks
        PROVE  p[d] = pins[d] + Ind(d \in Area(st.view)) - Ind(d \in Area(state[session].view))
                              + Ind(d \in Prepared(st)) - Ind(d \in D)
    <2>1. Ind(d \in Area(st.view)) = Ind(d \in Area(state[session].view))
          /\ Ind(d \in Area(st.view)) \in {0, 1} /\ pins[d] \in Nat
      BY Zenon DEF Ind
    <2>2. CASE d = c /\ d \notin D
      <3>1. p[d] = pins[d] + 1 /\ Ind(d \in Prepared(st)) = 1 /\ Ind(d \in D) = 0
        BY Zenon, <1>1, <2>2 DEF Ind, D
      <3> QED
        BY <2>1, <3>1
    <2>3. CASE ~(d = c /\ d \notin D)
      <3>1. p[d] = pins[d] /\ Ind(d \in Prepared(st)) = Ind(d \in D) /\ Ind(d \in D) \in {0, 1}
        BY Zenon, <1>1, <2>3 DEF Ind, D
      <3> QED
        BY <2>1, <3>1
    <2> QED
      BY Zenon, <2>2, <2>3
  <1>3. Exact(p, [state EXCEPT ![session] = st])
    BY Zenon, <1>2, ExactAfter DEF D
  <1> QED
    BY Zenon, <1>1, <1>3 DEF p, D

LEMMA MarkKeeps ==
    ASSUME IInv, Mark
    PROVE  IInv'
  <1> DEFINE st == state[session]
             c  == MinOf(work)
             w  == st.pending
             e  == [st EXCEPT !.pending.prepared = @ \cup {c}]
  <1>1. /\ pc = "mark" /\ held = session /\ pc \in Calls
        /\ UNCHANGED <<hostVars, commands, events, resident, session, left, complete, fetched, story, client>>
    BY Zenon DEF Mark, Calls
  <1>2. /\ session \in Sessions /\ state \in States /\ Consistent(st) /\ st \in SessionStates
        /\ pins \in [Chunks -> Nat] /\ Exact(pins, state)
        /\ Exact(pins, [state EXCEPT ![session] = st])
        /\ Area(st.view) \cup Prepared(st) \subseteq resident
    BY Zenon, <1>1, Serves
  <1>3. held' = None
    BY Zenon DEF Mark, Settle
  <1>4. CASE w = None \/ c \notin Entering(w)
    <2>1. pc' = "joining" /\ spawned' = {} /\ Settle(st, pins)
      BY Zenon, <1>4 DEF Mark, Throw
    <2>2. Owner'
      BY Zenon, <1>1, <1>2, <1>3, <2>1 DEF IInv, Owner, Calls, Ticking
    <2> QED
      BY Zenon, <1>1, <1>2, <2>1, <2>2, ServedQuietly
  <1>5. CASE w # None /\ c \in Entering(w)
    <2>1. pc' = "prepare" /\ spawned' = spawned /\ Settle(e, Pin(pins, {c} \ Prepared(st)))
      BY Zenon, <1>5 DEF Mark
    <2>2. Owner'
      BY Zenon, <1>1, <1>2, <1>3, <2>1 DEF IInv, Owner, Calls, Ticking
    <2>3. w \in Plan /\ c \in Chunks /\ c \in resident
      BY Zenon, <1>1, <1>2, <1>5, StateType, EnteringInChunks DEF IInv, Owner
    <2> DEFINE v == [w EXCEPT !.prepared = @ \cup {c}]
    <2>4. v \in Plan /\ v.from = w.from /\ v.to = w.to /\ v.prepared = w.prepared \cup {c}
      BY Zenon, <2>3 DEF Plan
    <2>5. e = [st EXCEPT !.pending = v]
      OBVIOUS
    <2> HIDE DEF c, v
    <2>6. /\ e \in SessionStates /\ e.view = st.view /\ e.pending = v /\ e.phase = st.phase
          /\ e.desired = st.desired /\ e.player = st.player /\ e.deferred = st.deferred
      BY Zenon, <1>2, <2>4, <2>5 DEF SessionStates
    <2> HIDE DEF st, e, w
    <2>7. v # None /\ Entering(v) = Entering(w)
      BY Zenon, <2>4, NoneApart DEF Entering
    <2>8. Target(e) = v.to /\ Target(st) = w.to
      BY Zenon, <1>5, <2>6, <2>7 DEF Target, w
    <2>9. Consistent(e)
      BY Zenon, <1>2, <1>5, <2>4, <2>6, <2>7, <2>8 DEF Consistent, w
    <2>10. Prepared(e) = Prepared(st) \cup {c}
      BY Zenon, <1>5, <2>4, <2>6, <2>7 DEF Prepared, w
    <2>11. /\ Pin(pins, {c} \ Prepared(st)) \in [Chunks -> Nat]
           /\ Exact(Pin(pins, {c} \ Prepared(st)), [state EXCEPT ![session] = e])
      BY Zenon, <1>2, <2>3, <2>6, <2>10, PinExact DEF st
    <2>12. Area(e.view) \cup Prepared(e) \subseteq resident
      BY Zenon, <1>2, <2>3, <2>6, <2>10
    <2>13. e.view = state[session].view /\ e.phase = state[session].phase
      BY Zenon, <2>6 DEF st
    <2> QED
      BY Zenon, <1>1, <2>1, <2>2, <2>9, <2>11, <2>12, <2>13, ServedQuietly
  <1> QED
    BY Zenon, <1>4, <1>5

LEMMA FetchKeeps ==
    ASSUME IInv, Fetch
    PROVE  IInv'
  <1> DEFINE st == state[session]
             w  == st.pending
  <1>1. /\ pc = "fetch" /\ held = session /\ pc \in Calls /\ Settle(st, pins)
        /\ UNCHANGED <<hostVars, commands, events, resident, session, left, work, complete, story, client>>
    BY Zenon DEF Fetch, Calls
  <1>2. /\ session \in Sessions /\ state \in States /\ Consistent(st) /\ st \in SessionStates
        /\ pins \in [Chunks -> Nat] /\ Exact(pins, state)
        /\ Exact(pins, [state EXCEPT ![session] = st])
        /\ Area(st.view) \cup Prepared(st) \subseteq resident
    BY Zenon, <1>1, Serves
  <1>3. held' = None /\ state' = [state EXCEPT ![session] = Left(st)]
    BY Zenon, <1>1, <1>2, SettleExact
  <1>4. \/ pc' = "joining" /\ spawned' = {} /\ fetched' = fetched
        \/ pc' = "complete" /\ spawned' = spawned /\ fetched' = Entering(w) /\ w # None
    BY Zenon DEF Fetch, Throw
  <1>5. IsFiniteSet(fetched')
    <2>1. w # None => IsFiniteSet(Entering(w))
      BY Zenon, <1>2, StateType, EnteringInChunks
    <2> QED
      BY Zenon, <1>4, <2>1 DEF IInv, Owner
  <1>6. state'[session].pending = w \/ state'[session].pending = None
    BY Zenon, <1>2, <1>3, FreshState DEF Left, States
  <1>7. Owner'
    BY Zenon, <1>1, <1>2, <1>3, <1>4, <1>5, <1>6 DEF IInv, Owner, Calls, Ticking
  <1> QED
    BY Zenon, <1>1, <1>2, <1>4, <1>7, ServedQuietly

(* What commit_pending makes of a consistent state whose chunks are all prepared. *)
LEMMA CommitConsistent ==
    ASSUME NEW st, Consistent(st), st.pending # None, st.pending.prepared = Entering(st.pending),
           NEW e, e = CommitPending(st)
    PROVE  /\ Consistent(e) /\ e.view = st.pending.to /\ e.view # None /\ e.phase = "Spawned" /\ Prepared(e) = {}
           /\ st.pending.from = st.view /\ Prepared(st) = Area(e.view) \ Area(st.view)
  <1>1. st \in SessionStates /\ st.pending \in Plan
    BY Zenon, StateType DEF Consistent
  <1>2. st.pending.to \in View /\ st.pending.to # None
    BY Zenon, <1>1, NoneApart DEF Plan
  <1>3. /\ e \in SessionStates /\ e.view = st.pending.to /\ e.pending = None /\ e.desired = None
        /\ e.phase = "Spawned" /\ e.player = st.player /\ e.deferred = st.deferred
    BY Zenon, <1>1, <1>2 DEF SessionStates, CommitPending
  <1>4. st.phase \in {"WaitingInitialChunks", "Spawned"}
    BY Zenon, <1>1, StateType DEF Consistent
  <1>5. st.pending.to.center = st.player
    BY Zenon, <1>4 DEF Consistent, Target
  <1>6. Target(e) = e.view
    BY Zenon, <1>3 DEF Target
  <1>7. Consistent(e)
    BY Zenon, <1>2, <1>3, <1>5, <1>6 DEF Consistent, Early
  <1>8. st.pending.from = st.view
    BY Zenon DEF Consistent
  <1>9. Prepared(e) = {} /\ Prepared(st) = Area(e.view) \ Area(st.view)
    BY Zenon, <1>3, <1>8 DEF Prepared, Entering
  <1> QED
    BY Zenon, <1>2, <1>3, <1>7, <1>8, <1>9

(* A commit turns the pins of the plan into pins of the view. *)
LEMMA CommitExact ==
    ASSUME state \in States, session \in Sessions, pins \in [Chunks -> Nat], Exact(pins, state),
           NEW e \in SessionStates, Prepared(e) = {},
           Prepared(state[session]) = Area(e.view) \ Area(state[session].view),
           NEW p, p = Unpin(pins, Area(state[session].view) \ Area(e.view))
    PROVE  p \in [Chunks -> Nat] /\ Exact(p, [state EXCEPT ![session] = e])
  <1> DEFINE A == Area(state[session].view)
             B == Area(e.view)
             D == Prepared(state[session])
  <1>1. p \in [Chunks -> Nat] /\ \A c \in Chunks : p[c] = IF c \in A \ B /\ pins[c] > 0 THEN pins[c] - 1 ELSE pins[c]
    BY Zenon, Unpins
  <1>2. ASSUME NEW c \in Chunks
        PROVE  pins[c] \in Nat /\ Ind(c \in A) + Ind(c \in D) <= pins[c]
    BY Zenon, Counted
  <1> HIDE DEF A, B, D
  <1>3. D = B \ A
    BY Zenon DEF A, B, D
  <1>4. ASSUME NEW c \in Chunks
        PROVE  p[c] = pins[c] + Ind(c \in B) - Ind(c \in A) + Ind(c \in Prepared(e)) - Ind(c \in D)
    <2>1. Ind(c \in Prepared(e)) = 0 /\ pins[c] \in Nat
      BY Zenon, <1>2 DEF Ind
    <2>2. CASE c \in A /\ c \in B
      <3>1. Ind(c \in A) = 1 /\ Ind(c \in B) = 1 /\ Ind(c \in D) = 0 /\ p[c] = pins[c]
        BY Zenon, <1>1, <1>3, <2>2 DEF Ind
      <3> QED
        BY <2>1, <3>1
    <2>3. CASE c \in A /\ c \notin B
      <3>1. /\ Ind(c \in A) = 1 /\ Ind(c \in B) = 0 /\ Ind(c \in D) = 0
            /\ p[c] = IF pins[c] > 0 THEN pins[c] - 1 ELSE pins[c]
        BY Zenon, <1>1, <1>3, <2>3 DEF Ind
      <3> QED
        BY <1>2, <2>1, <3>1
    <2>4. CASE c \notin A /\ c \in B
      <3>1. Ind(c \in A) = 0 /\ Ind(c \in B) = 1 /\ Ind(c \in D) = 1 /\ p[c] = pins[c]
        BY Zenon, <1>1, <1>3, <2>4 DEF Ind
      <3> QED
        BY <2>1, <3>1
    <2>5. CASE c \notin A /\ c \notin B
      <3>1. Ind(c \in A) = 0 /\ Ind(c \in B) = 0 /\ Ind(c \in D) = 0 /\ p[c] = pins[c]
        BY Zenon, <1>1, <1>3, <2>5 DEF Ind
      <3> QED
        BY <2>1, <3>1
    <2> QED
      BY Zenon, <2>2, <2>3, <2>4, <2>5
  <1>5. Exact(p, [state EXCEPT ![session] = e])
    BY Zenon, <1>4, ExactAfter DEF A, B, D
  <1> QED
    BY Zenon, <1>1, <1>5

(* The chunks fetched before the slot was taken again are those of the plan that
   is committed: had it been replaced since, nothing would be prepared for it,
   and then it has nothing to send either. *)
LEMMA FetchedForThisPlan ==
    ASSUME IInv, pc = "complete", state[session].pending # None, Completes(state[session].pending)
    PROVE  fetched = Entering(state[session].pending)
  <1> DEFINE w == state[session].pending
  <1>1. w.prepared = Entering(w) /\ Cardinality(fetched) = Cardinality(Entering(w))
        /\ IsFiniteSet(fetched) /\ (fetched = Entering(w) \/ w.prepared = {})
    BY Zenon DEF Completes, IInv, Owner
  <1>2. CASE w.prepared = {}
    <2>1. Cardinality(fetched) = 0
      BY Zenon, <1>1, <1>2, FS_EmptySet
    <2>2. fetched = {}
      BY Zenon, <1>1, <2>1, FS_EmptySet
    <2> QED
      BY Zenon, <1>1, <1>2, <2>2
  <1> QED
    BY Zenon, <1>1, <1>2

LEMMA CompleteKeeps ==
    ASSUME IInv, Complete
    PROVE  IInv'
  <1> DEFINE st == state[session]
             w  == st.pending
             e  == CommitPending(st)
             p  == LeavingUnpinned(st)
             ready == w # None /\ Completes(w)
  <1>1. /\ pc = "complete" /\ held = session /\ pc \in Calls /\ fetched' = {}
        /\ UNCHANGED <<hostVars, events, resident, session, left, work, complete, story>>
    BY Zenon DEF Complete, Calls
  <1>2. /\ session \in Sessions /\ state \in States /\ Consistent(st) /\ st \in SessionStates
        /\ pins \in [Chunks -> Nat] /\ Exact(pins, state)
        /\ Exact(pins, [state EXCEPT ![session] = st])
        /\ Area(st.view) \cup Prepared(st) \subseteq resident
    BY Zenon, <1>1, Serves
  <1>3. held' = None /\ IsFiniteSet(fetched')
    <2>1. held' = None
      BY Zenon DEF Complete, Settle
    <2> QED
      BY Zenon, <1>1, <2>1, FS_EmptySet
  <1>4. \/ /\ (pc' = "joining" /\ spawned' = {}) \/ (pc' = "next" /\ spawned' = spawned)
           /\ Settle(st, pins) /\ UNCHANGED <<commands, client>>
        \/ /\ ready /\ ~Full /\ pc' = "next" /\ Queue("send") /\ Settle(e, p)
           /\ spawned' = IF st.phase = "WaitingInitialChunks" THEN spawned \cup {session} ELSE spawned
           /\ client' = [client EXCEPT ![session] = (@ \cup fetched) \cap Area(w.to)]
    BY Zenon DEF Complete, Throw
  <1>5. Owner'
    BY Zenon, <1>1, <1>2, <1>3, <1>4 DEF IInv, Owner, Calls, Ticking
  <1>6. CASE /\ (pc' = "joining" /\ spawned' = {}) \/ (pc' = "next" /\ spawned' = spawned)
             /\ Settle(st, pins) /\ UNCHANGED <<commands, client>>
    BY Zenon, <1>1, <1>2, <1>5, <1>6, ServedQuietly
  <1>7. CASE /\ ready /\ ~Full /\ pc' = "next" /\ Queue("send") /\ Settle(e, p)
             /\ spawned' = IF st.phase = "WaitingInitialChunks" THEN spawned \cup {session} ELSE spawned
             /\ client' = [client EXCEPT ![session] = (@ \cup fetched) \cap Area(w.to)]
    <2>1. /\ Consistent(e) /\ e.view = w.to /\ e.view # None /\ e.phase = "Spawned" /\ Prepared(e) = {}
          /\ w.from = st.view /\ Prepared(st) = Area(e.view) \ Area(st.view)
      BY Zenon, <1>2, <1>7, CommitConsistent DEF Completes
    <2>2. fetched = Area(w.to) \ Area(st.view)
      BY Zenon, <1>1, <1>7, <2>1, FetchedForThisPlan DEF Entering
    <2>3. p = Unpin(pins, Area(st.view) \ Area(e.view)) /\ e \in SessionStates
      BY Zenon, <2>1 DEF LeavingUnpinned, Consistent
    <2> HIDE DEF p, e
    <2>4. p \in [Chunks -> Nat] /\ Exact(p, [state EXCEPT ![session] = e])
      BY Zenon, <1>2, <2>1, <2>3, CommitExact
    <2>5. Area(e.view) \cup Prepared(e) \subseteq resident
      BY Zenon, <1>2, <2>1
    <2>6. /\ DOMAIN client' = Sessions /\ (\A t \in Sessions \ {session} : client'[t] = client[t])
          /\ client'[session] = Area(e.view)
      <3>1. DOMAIN client = Sessions /\ (st.view # None => client[session] = Area(st.view))
        BY Zenon, <1>2 DEF IInv, Views
      <3>2. client' = [client EXCEPT ![session] = (@ \cup fetched) \cap Area(w.to)]
        BY Zenon, <1>7
      <3>3. /\ DOMAIN client' = Sessions /\ (\A t \in Sessions \ {session} : client'[t] = client[t])
        BY Zenon, <3>1, <3>2
      <3>4. client'[session] = (client[session] \cup fetched) \cap Area(w.to)
        BY Zenon, <1>2, <3>1, <3>2
      <3>5. (client[session] \cup fetched) \cap Area(w.to) = Area(w.to)
        <4>1. CASE st.view = None
          <5>1. Area(st.view) = {}
            BY Zenon, <4>1 DEF Area
          <5> QED
            BY Zenon, <2>2, <5>1
        <4>2. CASE st.view # None
          BY Zenon, <2>2, <3>1, <4>2
        <4> QED
          BY Zenon, <4>1, <4>2
      <3> QED
        BY Zenon, <2>1, <3>3, <3>4, <3>5
    <2>7. Bounded(commands')
      <3>1. "send" \in Commands
        BY Zenon DEF Commands
      <3> QED
        BY Zenon, <1>2, <1>7, <3>1, Known, FullBounded
    <2>8. /\ Views' /\ Queues' /\ Gone'
          /\ state'[session] = Left(e) /\ (\A t \in Sessions \ {session} : state'[t] = state[t])
      BY Zenon, <1>1, <1>7, <2>1, <2>4, <2>5, <2>6, <2>7, Served
    <2>9. UNCHANGED <<task, events, story>>
      BY Zenon, <1>1 DEF hostVars
    <2>10. Heard'
      BY Zenon, <1>7, <2>9 DEF IInv, Heard
    <2>11. Agreed'
      <3>1. \A t \in Sessions \ {session} : t \in spawned' => t \in spawned
        BY Zenon, <1>7
      <3>2. ASSUME NEW t \in Sessions
            PROVE  /\ state'[t].phase \in Joining => story[t] = "accepted" /\ t \notin spawned'
                   /\ story[t] \in {"accepted", "spawned"} /\ task[t] \notin Over =>
                         state'[t].phase \notin {"WaitingLogin", "LoginPending"}
        <4>1. CASE t = session /\ task[t] \in Over
          BY Zenon, <2>8, <4>1, FreshState DEF Left, Joining
        <4>2. CASE t = session /\ task[t] \notin Over
          BY Zenon, <2>1, <2>8, <4>2 DEF Left, Joining
        <4>3. CASE t # session
          BY Zenon, <2>8, <3>1, <4>3 DEF IInv, Agreed
        <4> QED
          BY Zenon, <4>1, <4>2, <4>3
      <3>3. \A t \in spawned' : story[t] = "accepted"
        BY Zenon, <1>2, <1>7 DEF IInv, Agreed, Joining
      <3> QED
        BY Zenon, <1>3, <2>9, <3>2, <3>3, NoneApart DEF Agreed
    <2> QED
      BY Zenon, <1>5, <2>8, <2>10, <2>11 DEF IInv
  <1> QED
    BY Zenon, <1>4, <1>6, <1>7

-----------------------------------------------------------------------------
(* The specification. *)

LEMMA InitHolds ==
    ASSUME Init
    PROVE  IInv
  <1>1. /\ task = [s \in Sessions |-> "new"] /\ state = [s \in Sessions |-> Fresh]
        /\ commands = [s \in Sessions |-> <<>>] /\ sessions = {} /\ events = <<>> /\ shut = FALSE
        /\ pins = [c \in Chunks |-> 0] /\ resident = {} /\ pc = "poll" /\ session = None /\ held = None
        /\ left = Budget /\ work = {} /\ fetched = {} /\ spawned = {}
        /\ story = [s \in Sessions |-> "none"] /\ client = [s \in Sessions |-> {}]
    BY Zenon DEF Init
  <1>2. /\ \A s \in Sessions : task[s] = "new" /\ state[s] = Fresh /\ commands[s] = <<>> /\ story[s] = "none"
        /\ \A c \in Chunks : pins[c] = 0
    BY Zenon, <1>1
  <1>3. Fresh \in SessionStates /\ Fresh.phase = "WaitingLogin"
    BY Zenon, FreshState DEF Consistent
  <1>4. Views
    <2>1. ASSUME NEW c \in Chunks
          PROVE  pins[c] = Cardinality(Viewers(state, c)) + Cardinality(Preparers(state, c))
      <3>1. Viewers(state, c) = {} /\ Preparers(state, c) = {}
        BY Zenon, <1>2, FreshState DEF Viewers, Preparers
      <3>2. Cardinality(Viewers(state, c)) = 0 /\ Cardinality(Preparers(state, c)) = 0
        BY Zenon, <3>1, FS_EmptySet
      <3> QED
        BY <1>2, <3>2
    <2>2. state \in [Sessions -> SessionStates]
      BY Zenon, <1>1, <1>3
    <2>3. pins \in [Chunks -> Nat]
      BY <1>1
    <2>4. DOMAIN client = Sessions
      BY Zenon, <1>1
    <2>5. \A s \in Sessions : Consistent(state[s]) /\ Area(state[s].view) \cup Prepared(state[s]) \subseteq resident
                              /\ state[s].view = None
      BY Zenon, <1>2, FreshState
    <2> QED
      BY Zenon, <2>1, <2>2, <2>3, <2>4, <2>5 DEF Views, Exact
  <1>5. Queues
    <2>1. Bounded(commands)
      <3>1. <<>> \in Seq(Commands) /\ Len(<<>>) <= CommandCap
        BY Constants
      <3> QED
        BY Zenon, <1>1, <1>2, <3>1 DEF Bounded
    <2>2. events \in Seq(Events) /\ Len(events) <= EventCap /\ left \in 0 .. Budget
      BY <1>1, Constants
    <2>3. task \in [Sessions -> Tasks]
      BY Zenon, <1>1 DEF Tasks
    <2> QED
      BY Zenon, <1>1, <1>2, <2>1, <2>2, <2>3 DEF Queues
  <1>6. Owner
    BY Zenon, <1>1, FS_EmptySet DEF Owner
  <1>7. Gone
    BY Zenon, <1>1, <1>2, NoneApart DEF Gone
  <1>8. Heard
    <2>1. story \in [Sessions -> Stories]
      BY Zenon, <1>1 DEF Stories
    <2>2. \A n \in 1 .. Len(events) : FALSE
      BY <1>1
    <2> QED
      BY Zenon, <1>1, <1>2, <2>1, <2>2 DEF Heard, HeardOf, Absent
  <1>9. Agreed
    BY Zenon, <1>1, <1>2, <1>3 DEF Agreed, Joining
  <1> QED
    BY Zenon, <1>4, <1>5, <1>6, <1>7, <1>8, <1>9 DEF IInv

LEMMA HostStepsKeep ==
    ASSUME IInv, NEW s \in Sessions, Connect(s) \/ HostStep(s) \/ PeerGone(s) \/ \E p \in Packets : Receive(s, p)
    PROVE  IInv' /\ story' = story
  <1>1. story' = story
    BY Zenon DEF Connect, HostStep, Register, NextDeferred, RunCommand, Remove, Release, Report, PeerGone, Receive,
                 ownerVars
  <1>2. IInv'
    BY Zenon, ConnectKeeps, RegisterKeeps, DeferredKeeps, RunCommandKeeps, RemoveKeeps, ReleaseKeeps,
       ReportKeeps, PeerGoneKeeps, ReceiveKeeps DEF HostStep
  <1> QED
    BY Zenon, <1>1, <1>2

(* What a step may do to what PHP was told: one event further, in the order of
   a session's life. *)
Told == \A s \in Sessions : story'[s] # story[s] => <<story[s], story'[s]>> \in Forward

LEMMA PollTold ==
    ASSUME IInv, Poll
    PROVE  Told
  <1>1. /\ events \in Seq(Events) /\ events # <<>> /\ events' = Tail(events)
        /\ story' = Hearing(events[1], story) /\ story \in [Sessions -> Stories] /\ HeardOf(events, task, story)
    BY Zenon, PollHears DEF IInv, Heard
  <1>2. Polled(events[1], events', task, story, story')
    BY Zenon, <1>1, HeardPoll
  <1>3. ASSUME NEW s \in Sessions, story'[s] # story[s]
        PROVE  <<story[s], story'[s]>> \in Forward
    <2>1. \/ story[s] = "none" /\ story'[s] = "connected"
          \/ story[s] # "none" /\ story'[s] = "disconnected"
      BY Zenon, <1>2, <1>3 DEF Polled
    <2>2. story[s] \in Stories
      BY Zenon, <1>1
    <2> QED
      BY Zenon, <1>3, <2>1, <2>2 DEF Forward, Stories
  <1> QED
    BY Zenon, <1>3 DEF Told

LEMMA OwnerStepsKeep ==
    ASSUME IInv, OwnerStep \/ Stop
    PROVE  IInv' /\ Told
  <1>1. CASE Poll
    BY Zenon, <1>1, PollKeeps, PollTold
  <1>2. CASE \E encodes \in BOOLEAN : AcceptLogin(encodes)
    <2>1. /\ IInv' /\ story \in [Sessions -> Stories]
          /\ story' = story \/ (story[session] = "connected" /\ story' = [story EXCEPT ![session] = "accepted"])
      BY Zenon, <1>2, AcceptLoginKeeps DEF IInv, Heard
    <2>2. Told
      BY Zenon, <2>1 DEF Told, Forward
    <2> QED
      BY Zenon, <2>1, <2>2
  <1>3. CASE DispatchSpawned
    <2>1. \A s \in spawned : story[s] = "accepted"
      BY Zenon DEF IInv, Agreed
    <2>2. Told
      BY Zenon, <1>3, <2>1 DEF DispatchSpawned, Told, Forward
    <2> QED
      BY Zenon, <1>3, <2>2, DispatchKeeps
  <1>4. CASE PollEnd \/ PreparePending \/ PrepareEnd \/ Stop \/ Join
    <2>1. story' = story
      BY Zenon, <1>4 DEF PollEnd, PreparePending, PrepareEnd, Stop, Join
    <2> QED
      BY Zenon, <1>4, <2>1, PassesOn DEF Told
  <1>5. CASE Slot \/ Reject \/ NextWork \/ (\E c \in Chunks : PrepareReady(c)) \/ Mark \/ Fetch \/ Complete
             \/ (\E s \in Sessions : SyncSend(s)) \/ EndTick
    <2>1. story' = story
      BY Zenon, <1>5 DEF Slot, Reject, NextWork, PrepareReady, Mark, Fetch, Complete, SyncSend, EndTick
    <2> QED
      BY Zenon, <1>5, <2>1, SlotKeeps, RejectKeeps, NextWorkKeeps, PrepareReadyKeeps, MarkKeeps, FetchKeeps,
         CompleteKeeps, SyncSendKeeps, EndTickKeeps DEF Told
  <1> QED
    BY Zenon, <1>1, <1>2, <1>3, <1>4, <1>5 DEF OwnerStep, CoordinatorStep

LEMMA NextKeeps ==
    ASSUME IInv, [Next]_vars
    PROVE  IInv' /\ Told
  <1>1. CASE UNCHANGED vars
    BY Zenon, <1>1 DEF vars, hostVars, ownerVars, workVars, Told, IInv, Views, Queues, Owner, Gone, Heard, Agreed
  <1>2. CASE \E s \in Sessions : Connect(s) \/ HostStep(s) \/ PeerGone(s) \/ \E p \in Packets : Receive(s, p)
    BY Zenon, <1>2, HostStepsKeep DEF Told
  <1>3. CASE EndAccepting
    <2>1. story' = story
      BY Zenon, <1>3 DEF EndAccepting, ownerVars
    <2> QED
      BY Zenon, <1>3, <2>1, EndAcceptingKeeps DEF Told
  <1> QED
    BY Zenon, <1>1, <1>2, <1>3, OwnerStepsKeep DEF Next

LEMMA Invariance ==
    Spec => []IInv
  <1>1. Init => IInv
    BY Zenon, InitHolds
  <1>2. IInv /\ [Next]_vars => IInv'
    BY Zenon, NextKeeps
  <1> QED
    BY <1>1, <1>2, PTL DEF Spec

(* The pins of a chunk are the views and the plans that want it, one each, for
   any sessions, any interleaving of the host and the owner and any length of a
   run (session_host/runner.rs, state.rs and view.rs): no pin leaks, none is
   released twice, no chunk in use is evicted, and a session PHP saw disconnect
   holds none. *)
THEOREM PinsAreExact ==
    Spec => []PinsExact
  <1>1. IInv => PinsExact
    <2> SUFFICES ASSUME IInv PROVE PinsExact
      BY Zenon
    <2>1. TypeOK
      BY Zenon, Known DEF TypeOK, IInv, Views, Queues, Bounded, Consistent
    <2>2. \A c \in Chunks : pins[c] = Cardinality({s \in Sessions : c \in Area(state[s].view)})
                                       + Cardinality({s \in Sessions : c \in Prepared(state[s])})
      BY Zenon DEF IInv, Views, Exact, Viewers, Preparers
    <2>3. \A s \in Sessions : story[s] = "disconnected" => state[s].view = None /\ Prepared(state[s]) = {}
      BY Zenon, FreshState DEF IInv, Gone, Over
    <2> QED
      BY Zenon, <2>1, <2>2, <2>3 DEF PinsExact, IInv, Views
  <1> QED
    BY <1>1, Invariance, PTL

(* SessionState plans towards the player wherever they are, with the radius
   last asked for, and a client was sent exactly the chunks of its view: what
   the owner encoded for one plan is never sent for another. *)
THEOREM ViewsFollowPlayers ==
    Spec => []ViewFollowsPlayer
  <1>1. IInv => ViewFollowsPlayer
    <2> SUFFICES ASSUME IInv, NEW s \in Sessions
                 PROVE  /\ state[s].phase \in {"WaitingInitialChunks", "Spawned"} =>
                              Target(state[s]).center = state[s].player
                        /\ state[s].pending # None => state[s].pending.from = state[s].view
                        /\ state[s].desired # None =>
                              state[s].pending # None /\ state[s].pending.to.radius = state[s].desired
                        /\ state[s].view # None => client[s] = Area(state[s].view)
      BY Zenon DEF ViewFollowsPlayer
    <2>1. Consistent(state[s]) /\ (state[s].view # None => client[s] = Area(state[s].view))
      BY Zenon DEF IInv, Views
    <2> QED
      BY Zenon, <2>1 DEF Consistent, Target
  <1> QED
    BY <1>1, Invariance, PTL

(* SessionEvents reach PHP in the order of a session's life, each at most once:
   through a bounded queue that may drop the last of them, and past logins that
   the owner accepts while their session is ending. *)
THEOREM LifecycleInOrder ==
    Spec => LifecycleOrder
  <1>1. IInv /\ [Next]_vars => [\A s \in Sessions : story'[s] # story[s] => <<story[s], story'[s]>> \in Forward]_vars
    BY Zenon, NextKeeps DEF Told
  <1> QED
    BY <1>1, Invariance, PTL DEF Spec, LifecycleOrder
=============================================================================
