----------------------------- MODULE SessionHost -----------------------------
(***************************************************************************)
(* Sessions from connection to disconnection: the join phases and chunk    *)
(* views that the session host thread owns, the pins those views hold, the *)
(* bounded event and command queues, and the owner's tick that answers     *)
(* logins, prepares chunks and completes views through the Coordinator.    *)
(*                                                                         *)
(* The host thread and the owner share a session only through its locked   *)
(* SessionState, which the owner reaches by cloning the session's slot: a  *)
(* call of the owner is a lookup of the slot and then one locked step, and *)
(* the host may do anything in between.  Chunk positions lie on a line.    *)
(***************************************************************************)
EXTENDS Integers, Sequences, FiniteSets

CONSTANTS
    Sessions,     \* session ids, numbers: they are served in order
    Spawn,        \* the chunk of the world's spawn
    Places,       \* the chunks players move to
    Packets,      \* the packets clients send
    MaxRadius,    \* max_chunk_radius
    MaxDeferred,  \* MAX_DEFERRED_PACKETS
    EventCap,     \* event_queue_capacity
    CommandCap,   \* session_command_capacity
    Budget,       \* nativeEventBudget, events per tick
    ListenerFails,\* whether server.accept may fail
    None

Chunks == LET ends == Places \cup {Spawn}
          IN  {c + d : c \in ends, d \in -MaxRadius..MaxRadius}

(* What tells packets apart: Login, MovePlayer, RequestChunkRadius, others. *)
Login     == [kind |-> "login"]
Other     == [kind |-> "other"]
Move(c)   == [kind |-> "move", to |-> c]
Radius(r) == [kind |-> "radius", radius |-> r]

View == [center : Places \cup {Spawn}, radius : 1..MaxRadius]
Plan == [from : View \cup {None}, to : View, prepared : SUBSET Chunks]

ASSUME SessionHostAssumption ==
    /\ Sessions \subseteq Nat \ {0} /\ IsFiniteSet(Sessions)
    /\ Spawn \in Int /\ Places \subseteq Int
    /\ Packets \subseteq {Login, Other} \cup {Move(c) : c \in Places} \cup {Radius(r) : r \in 1..(MaxRadius + 1)}
    /\ {MaxRadius, EventCap, CommandCap, Budget} \subseteq Nat \ {0} /\ MaxDeferred \in Nat
    /\ ListenerFails \in BOOLEAN
    /\ None \notin Int /\ None \notin View /\ None \notin Plan

VARIABLES
    task,      \* where run_host and run_session stand with a session
    idle,      \* run_session waits in select!, having found nothing deferred
    state,     \* SessionState
    commands,  \* the command queue of a session
    sessions,  \* the map of live slots
    events,    \* the queue of SessionHostEvents
    pins,      \* pins per chunk in the WorldStore
    resident,  \* chunks in the WorldStore
    shut,      \* the accept loop has ended
    pc, session, held, left, \* the owner: its place, its session, the slot it holds, event budget
    work, complete, fetched, \* Coordinator::prepare and complete_chunk_work
    spawned,   \* completions the Coordinator has collected
    story,     \* history: the last semantic event PHP dispatched for a session
    client     \* history: the chunks each client was sent and still covers

hostVars  == <<task, idle, sessions, shut>>
workVars  == <<work, complete, fetched>>
ownerVars == <<pc, session, held, left, workVars, spawned, story>>
vars == <<hostVars, state, commands, events, pins, resident, ownerVars, client>>

(* SessionState::new *)
Fresh == [phase |-> "WaitingLogin", player |-> None, desired |-> None, view |-> None,
          pending |-> None, deferred |-> <<>>]

Init ==
    /\ task = [s \in Sessions |-> "new"]
    /\ idle = [s \in Sessions |-> FALSE]
    /\ state = [s \in Sessions |-> Fresh]
    /\ commands = [s \in Sessions |-> <<>>]
    /\ sessions = {} /\ events = <<>> /\ shut = FALSE
    /\ pins = [c \in Chunks |-> 0] /\ resident = {}
    /\ pc = "poll" /\ session = None /\ held = None /\ left = Budget
    /\ work = {} /\ complete = TRUE /\ fetched = {} /\ spawned = {}
    /\ story = [s \in Sessions |-> "none"]
    /\ client = [s \in Sessions |-> {}]

-----------------------------------------------------------------------------
(* Views and pins. *)

(* view_positions, of no view too *)
Area(v) == IF v = None THEN {} ELSE (v.center - v.radius)..(v.center + v.radius)

(* PendingWork::prepare_positions, the same set as send_positions; Initial
   work is a transition from no view. *)
Entering(w) == Area(w.to) \ Area(w.from)
Prepared(st) == IF st.pending = None THEN {} ELSE st.pending.prepared

Pin(p, C)   == [c \in Chunks |-> IF c \in C THEN p[c] + 1 ELSE p[c]]
UnpinFully(p, C) == [c \in Chunks |-> IF c \in C THEN 0 ELSE p[c]]
Unpin(p, C) == [c \in Chunks |-> IF c \in C /\ p[c] > 0 THEN p[c] - 1 ELSE p[c]]

(* Drop of WorldView and of PreparedChunks *)
DropPins(p, st) == Unpin(Unpin(p, Area(st.view)), Prepared(st))

(* plan_view_transition: a plan that still fits is kept, any other is
   replaced. *)
SameCenter(w, v, to) == w.from = v /\ w.to.center = to.center
SamePlan(w, v, to) == w.from = v /\ w.to = to
PlanView(st, to) ==
    IF to = st.view
    THEN [st EXCEPT !.pending = None, !.desired = None]
    ELSE IF st.pending # None /\ SamePlan(st.pending, st.view, to)
    THEN st
    ELSE [st EXCEPT !.pending = [from |-> st.view, to |-> to, prepared |-> {}]]

-----------------------------------------------------------------------------
(* SessionState::handle_packet: what it accepts, what it makes of it, and the
   event it asks for. *)
Effective(r) == IF r < MaxRadius THEN r ELSE MaxRadius

Accepts(st, p) ==
    CASE st.phase = "WaitingLogin" -> p.kind = "login"
      [] st.phase = "LoginPending" -> Len(st.deferred) < MaxDeferred
      [] st.phase \in {"WaitingChunkRadius", "WaitingInitialChunks"} -> p.kind = "radius"
      [] st.phase = "Spawned" -> TRUE

(* The radius a moved player keeps: the requested one before the active one. *)
MoveRadius(st) == IF st.desired # None THEN st.desired ELSE st.view.radius

AfterPacket(st, p) ==
    CASE st.phase = "WaitingLogin" -> [st EXCEPT !.phase = "LoginPending"]
      [] st.phase = "LoginPending" -> [st EXCEPT !.deferred = Append(@, p)]
      [] st.phase = "WaitingChunkRadius" ->
           [st EXCEPT !.phase = "WaitingInitialChunks",
                      !.pending = [from |-> None, prepared |-> {},
                                   to |-> [center |-> st.player, radius |-> Effective(p.radius)]]]
      [] st.phase = "Spawned" /\ p.kind = "move" ->
           PlanView([st EXCEPT !.player = p.to], [center |-> p.to, radius |-> MoveRadius(st)])
      [] st.phase = "Spawned" /\ p.kind = "radius" ->
           PlanView([st EXCEPT !.desired = Effective(p.radius)],
                    [center |-> st.player, radius |-> Effective(p.radius)])
      [] OTHER -> st

PacketEvent(st) ==
    CASE st.phase = "WaitingLogin" -> "LoginRequested"
      [] st.phase = "Spawned" -> "Packet"
      [] OTHER -> None

Event(k, s) == [kind |-> k, session |-> s]
HasRoom == Len(events) < EventCap

(* process_inbound, on the state st of session s; a rejected packet or a full
   event queue ends the session. *)
ProcessInbound(s, st, p) ==
    LET after == IF Accepts(st, p) THEN AfterPacket(st, p) ELSE st
        event == IF Accepts(st, p) THEN PacketEvent(st) ELSE None
    IN  /\ state' = [state EXCEPT ![s] = after]
        /\ pins' = Unpin(pins, Prepared(st) \ Prepared(after))
        /\ events' = IF event # None /\ HasRoom THEN Append(events, Event(event, s)) ELSE events
        /\ task' = IF Accepts(st, p) /\ (event = None \/ HasRoom)
                   THEN task ELSE [task EXCEPT ![s] = "closing"]

-----------------------------------------------------------------------------
(* The host thread: run_host and run_session. *)

(* server.accept: Connected is announced before the slot is in the map. *)
Connect(s) ==
    /\ task[s] = "new" /\ ~shut
    /\ task' = [task EXCEPT ![s] = IF HasRoom THEN "announced" ELSE "refused"]
    /\ events' = IF HasRoom THEN Append(events, Event("Connected", s)) ELSE events
    /\ UNCHANGED <<idle, sessions, shut, state, commands, pins, resident, ownerVars, client>>

Register(s) ==
    /\ task[s] = "announced"
    /\ task' = [task EXCEPT ![s] = "live"]
    /\ sessions' = sessions \cup {s}
    /\ UNCHANGED <<idle, shut, state, commands, events, pins, resident, ownerVars, client>>

(* The head of the loop: take_deferred, or wait. *)
TakesWhenAccepted(st) == st.phase = "WaitingChunkRadius" /\ st.deferred # <<>>
TakesDeferred(st) == st.phase # "LoginPending" /\ st.deferred # <<>>
NextDeferred(s) ==
    LET st == state[s]
    IN  /\ task[s] = "live" /\ ~idle[s]
        /\ IF TakesDeferred(st)
           THEN /\ ProcessInbound(s, [st EXCEPT !.deferred = Tail(@)], Head(st.deferred))
                /\ idle' = idle
           ELSE /\ idle' = [idle EXCEPT ![s] = TRUE]
                /\ UNCHANGED <<task, state, events, pins>>
        /\ UNCHANGED <<sessions, shut, commands, resident, ownerVars, client>>

Receive(s, p) ==
    /\ task[s] = "live" /\ idle[s]
    /\ idle' = [idle EXCEPT ![s] = FALSE]
    /\ ProcessInbound(s, state[s], p)
    /\ UNCHANGED <<sessions, shut, commands, resident, ownerVars, client>>

(* One command; a send may find the transport gone. *)
RunCommand(s) ==
    /\ task[s] = "live" /\ idle[s] /\ commands[s] # <<>>
    /\ commands' = [commands EXCEPT ![s] = Tail(@)]
    /\ idle' = [idle EXCEPT ![s] = FALSE]
    /\ \/ Head(commands[s]) = "send" /\ task' = task
       \/ task' = [task EXCEPT ![s] = "closing"]
    /\ UNCHANGED <<sessions, shut, state, events, pins, resident, ownerVars, client>>

(* session.recv fails, or the last sender of commands is gone. *)
PeerGone(s) ==
    /\ task[s] = "live" /\ idle[s]
    /\ task' = [task EXCEPT ![s] = "closing"]
    /\ UNCHANGED <<idle, sessions, shut, state, commands, events, pins, resident, ownerVars, client>>

(* The end of run_session: leave the map, drop the state, report. *)
ReportFirst(s) ==
    /\ task[s] = "closing"
    /\ task' = [task EXCEPT ![s] = "removed"]
    /\ events' = IF HasRoom THEN Append(events, Event("Disconnected", s)) ELSE events
    /\ UNCHANGED <<idle, sessions, shut, state, commands, pins, resident, ownerVars, client>>
Remove(s) ==
    /\ task[s] = "closing"
    /\ task' = [task EXCEPT ![s] = "removed"]
    /\ sessions' = sessions \ {s}
    /\ UNCHANGED <<idle, shut, state, commands, events, pins, resident, ownerVars, client>>

(* The state dies with its last reference, which may be the owner's. *)
Release(s) ==
    /\ task[s] = "removed"
    /\ task' = [task EXCEPT ![s] = "dropped"]
    /\ IF held = s
       THEN UNCHANGED <<state, pins>>
       ELSE /\ state' = [state EXCEPT ![s] = Fresh]
            /\ pins' = DropPins(pins, state[s])
    /\ UNCHANGED <<idle, sessions, shut, commands, events, resident, ownerVars, client>>

(* A full queue loses the report. *)
ReportBlocking(s) ==
    /\ task[s] = "dropped" /\ HasRoom
    /\ task' = [task EXCEPT ![s] = "ended"]
    /\ events' = Append(events, Event("Disconnected", s))
    /\ UNCHANGED <<idle, sessions, shut, state, commands, pins, resident, ownerVars, client>>
Report(s) ==
    /\ task[s] = "dropped"
    /\ task' = [task EXCEPT ![s] = "ended"]
    /\ events' = IF HasRoom THEN Append(events, Event("Disconnected", s)) ELSE events
    /\ UNCHANGED <<idle, sessions, shut, state, commands, pins, resident, ownerVars, client>>

(* The accept loop ends, asked by the owner or because the listener failed. *)
EndAccepting ==
    /\ pc = "joining" \/ ListenerFails
    /\ ~shut /\ shut' = TRUE
    /\ \A s \in Sessions : task[s] # "announced"
    /\ sessions' = {}
    /\ commands' = [s \in Sessions |->
                      IF s \in sessions /\ Len(commands[s]) < CommandCap
                      THEN Append(commands[s], "disconnect") ELSE commands[s]]
    /\ UNCHANGED <<task, idle, state, events, pins, resident, ownerVars, client>>

HostGone == shut /\ \A s \in Sessions : task[s] \in {"new", "refused", "ended"}

-----------------------------------------------------------------------------
(* The owner: pollSessions. *)
MinOf(S) == CHOOSE x \in S : \A y \in S : x <= y

(* An exception leaves the tick; the Runner stops the server, which stops the
   host and joins it. *)
Throw == pc' = "joining" /\ spawned' = {}

Poll ==
    /\ pc = "poll" /\ left > 0 /\ events # <<>>
    /\ events' = Tail(events) /\ left' = left - 1
    /\ LET e == Head(events)
       IN  /\ story' = CASE e.kind = "Connected" -> [story EXCEPT ![e.session] = "connected"]
                         [] e.kind = "Disconnected" -> [story EXCEPT ![e.session] = "disconnected"]
                         [] OTHER -> story
           /\ IF e.kind = "LoginRequested"
              THEN pc' = "accept" /\ session' = e.session
              ELSE pc' = pc /\ session' = session
    /\ UNCHANGED <<hostVars, state, commands, pins, resident, held, workVars, spawned, client>>

(* Budget or queue exhausted; or every sender is gone, which is an error. *)
PollEnd ==
    /\ pc = "poll" /\ (left = 0 \/ events = <<>>)
    /\ IF left > 0 /\ HostGone
       THEN Throw /\ session' = session
       ELSE pc' = "next" /\ session' = 0 /\ spawned' = spawned
    /\ UNCHANGED <<hostVars, state, commands, events, pins, resident, held, left, workVars, story, client>>

(* SessionHost::slot, the first half of every call.  loginRequested catches
   UnknownSession; the Coordinator does not. *)
Slot ==
    /\ pc \in {"accept", "mark", "fetch", "complete"} /\ held = None
    /\ IF session \in sessions
       THEN held' = session /\ UNCHANGED <<pc, spawned>>
       ELSE /\ held' = held
            /\ IF pc = "accept" THEN pc' = "poll" /\ spawned' = spawned ELSE Throw
    /\ UNCHANGED <<hostVars, state, commands, events, pins, resident, session, left, workVars, story, client>>

(* The second half leaves the session in state st with pins p, and drops the
   slot: the last reference, if the host dropped its own meanwhile. *)
Settle(st, p) ==
    /\ held' = None
    /\ IF task[session] \in {"dropped", "ended"}
       THEN /\ state' = [state EXCEPT ![session] = Fresh]
            /\ pins' = DropPins(p, st)
       ELSE /\ state' = [state EXCEPT ![session] = st]
            /\ pins' = p

(* try_send on the held command channel *)
Closed == task[session] = "ended"
Full == Len(commands[session]) >= CommandCap
Queue(c) == commands' = [commands EXCEPT ![session] = Append(@, c)]

(* SessionHost::accept_login; the bootstrap may not encode, the command may
   not be accepted: then nothing of it remains. *)
AcceptLogin(encodes) ==
    LET st == state[session]
        ok == encodes /\ st.phase = "LoginPending" /\ ~Closed /\ ~Full
    IN  /\ pc = "accept" /\ held = session
        /\ IF ok
           THEN /\ Settle([st EXCEPT !.phase = "WaitingChunkRadius", !.player = Spawn], pins)
                /\ Queue("send")
                /\ story' = [story EXCEPT ![session] = "accepted"]
                /\ pc' = "poll"
           ELSE /\ Settle(st, pins)
                /\ pc' = "reject"
                /\ UNCHANGED <<commands, story>>
        /\ UNCHANGED <<hostVars, events, resident, session, left, workVars, spawned, client>>

(* disconnectAfterFailure; its own failure is logged. *)
Reject ==
    /\ pc = "reject" /\ pc' = "poll"
    /\ IF session \in sessions /\ ~Full THEN Queue("disconnect") ELSE commands' = commands
    /\ UNCHANGED <<hostVars, state, events, pins, resident, session, held, left, workVars, spawned,
                   story, client>>

-----------------------------------------------------------------------------
(* The owner: Coordinator::tick. *)

(* next_chunk_work after the session last served *)
WaitingForChunks == {s \in sessions : s > session /\ state[s].pending # None}
NextWork ==
    /\ pc = "next"
    /\ IF WaitingForChunks = {}
       THEN pc' = "dispatch" /\ UNCHANGED <<session, work, complete>>
       ELSE LET s == MinOf(WaitingForChunks)
            IN  /\ session' = s /\ pc' = "prepare" /\ complete' = TRUE
                /\ work' = Entering(state[s].pending) \ Prepared(state[s])
    /\ UNCHANGED <<hostVars, state, commands, events, pins, resident, held, left, fetched, spawned,
                   story, client>>

(* prepare: a position whose chunk is still loading is left for a later tick. *)
PreparePending ==
    /\ pc = "prepare" /\ work # {}
    /\ work' = work \ {MinOf(work)} /\ complete' = FALSE
    /\ UNCHANGED <<hostVars, state, commands, events, pins, resident, pc, session, held, left, fetched,
                   spawned, story, client>>

PrepareReady(c) ==
    /\ pc = "prepare" /\ work # {} /\ c = MinOf(work)
    /\ resident' = resident \cup {c}
    /\ pc' = "mark"
    /\ UNCHANGED <<hostVars, state, commands, events, pins, session, held, left, workVars, spawned,
                   story, client>>

(* mark_prepared_chunk *)
Mark ==
    LET st == state[session]
        c  == MinOf(work)
    IN  /\ pc = "mark" /\ held = session
        /\ IF st.pending = None \/ c \notin Entering(st.pending)
           THEN Throw /\ Settle(st, pins) /\ work' = work
           ELSE /\ Settle([st EXCEPT !.pending.prepared = @ \cup {c}], Pin(pins, {c} \ Prepared(st)))
                /\ work' = work \ {c} /\ pc' = "prepare" /\ spawned' = spawned
        /\ UNCHANGED <<hostVars, commands, events, resident, session, left, complete, fetched, story, client>>

PrepareEnd ==
    /\ pc = "prepare" /\ work = {}
    /\ pc' = IF complete THEN "fetch" ELSE "next"
    /\ UNCHANGED <<hostVars, state, commands, events, pins, resident, session, held, left, workVars,
                   spawned, story, client>>

(* cobblestone_session_complete_chunk_work: read the work again and encode its
   chunks from their snapshots, ... *)
Fetch ==
    LET w == state[session].pending
    IN  /\ pc = "fetch" /\ held = session
        /\ IF w = None \/ ~(Entering(w) \subseteq resident)
           THEN Throw /\ fetched' = fetched
           ELSE pc' = "complete" /\ fetched' = Entering(w) /\ spawned' = spawned
        /\ Settle(state[session], pins)
        /\ UNCHANGED <<hostVars, commands, events, resident, session, left, work, complete, story, client>>

(* ... then try_complete_chunk_work: completion_plan, try_send, commit_pending. *)
Completes(w) == w.prepared = Entering(w) /\ Cardinality(fetched) = Cardinality(Entering(w))

LeavingUnpinned(st) == Unpin(pins, Area(st.view) \ Area(st.pending.to))
CommitPending(st) ==
    [st EXCEPT !.view = st.pending.to, !.pending = None, !.desired = None, !.phase = "Spawned"]

Complete ==
    LET st == state[session]
        ready == st.pending # None /\ Completes(st.pending)
    IN  /\ pc = "complete" /\ held = session
        /\ \/ /\ ~ready
              /\ Throw
              /\ Settle(st, pins)
              /\ UNCHANGED <<commands, client>>
           \/ /\ ready /\ (Closed \/ Full)
              /\ pc' = "next" /\ spawned' = spawned
              /\ Settle(st, pins)
              /\ UNCHANGED <<commands, client>>
           \/ /\ ready /\ ~Closed /\ ~Full
              /\ pc' = "next" /\ Queue("send")
              /\ Settle(CommitPending(st), LeavingUnpinned(st))
              /\ spawned' = IF st.phase = "WaitingInitialChunks" THEN spawned \cup {session} ELSE spawned
              /\ client' = [client EXCEPT ![session] = (@ \cup fetched) \cap Area(st.pending.to)]
        /\ fetched' = {}
        /\ UNCHANGED <<hostVars, events, resident, session, left, work, complete, story>>

-----------------------------------------------------------------------------
(* The owner: the rest of the tick, and shutdown. *)

(* dispatchSpawned, once the Coordinator has returned *)
DispatchSpawned ==
    /\ pc = "dispatch" /\ pc' = "sync"
    /\ story' = [s \in Sessions |-> IF s \in spawned THEN "spawned" ELSE story[s]]
    /\ spawned' = {}
    /\ UNCHANGED <<hostVars, state, commands, events, pins, resident, session, held, left, workVars, client>>

(* flushWorldChanges puts a batch into the queue of a session with a view. *)
SyncSend(s) ==
    /\ pc = "sync" /\ pc' = "evict"
    /\ s \in sessions /\ state[s].view # None /\ Len(commands[s]) < CommandCap
    /\ commands' = [commands EXCEPT ![s] = Append(@, "send")]
    /\ UNCHANGED <<hostVars, state, events, pins, resident, session, held, left, workVars, spawned,
                   story, client>>

(* evictCleanUnpinned takes some of the chunks nobody pins. *)
Evictable == {c \in resident : pins[c] = 0}
EndTick ==
    /\ pc \in {"sync", "evict"} /\ pc' = "poll" /\ left' = Budget
    /\ \E E \in SUBSET Evictable : resident' = resident \ E
    /\ UNCHANGED <<hostVars, state, commands, events, pins, session, held, workVars, spawned, story, client>>

(* stop between two ticks *)
Stop ==
    /\ pc = "poll" /\ left = Budget /\ pc' = "joining"
    /\ UNCHANGED <<hostVars, state, commands, events, pins, resident, session, held, left, workVars,
                   spawned, story, client>>

(* SessionHost::shutdown returns. *)
Join ==
    /\ pc = "joining" /\ HostGone /\ pc' = "stopped"
    /\ UNCHANGED <<hostVars, state, commands, events, pins, resident, session, held, left, workVars,
                   spawned, story, client>>

-----------------------------------------------------------------------------
HostStep(s) == Register(s) \/ NextDeferred(s) \/ RunCommand(s) \/ Remove(s) \/ Release(s) \/ Report(s)

CoordinatorStep ==
    \/ NextWork \/ PreparePending \/ (\E c \in Chunks : PrepareReady(c)) \/ Mark \/ PrepareEnd
    \/ Fetch \/ Complete

OwnerStep ==
    \/ Poll \/ PollEnd \/ Slot \/ (\E encodes \in BOOLEAN : AcceptLogin(encodes)) \/ Reject
    \/ CoordinatorStep
    \/ DispatchSpawned \/ (\E s \in Sessions : SyncSend(s)) \/ EndTick \/ Join

Next ==
    \/ \E s \in Sessions : Connect(s) \/ HostStep(s) \/ PeerGone(s) \/ \E p \in Packets : Receive(s, p)
    \/ EndAccepting
    \/ OwnerStep
    \/ Stop

Spec == Init /\ [][Next]_vars

(* Both threads keep running, and select! picks a ready branch at random, so
   packets cannot hold off commands, nor the end of the transport that follows
   the end of the accept loop.  Storage answers loads. *)
FairSpec ==
    /\ Spec
    /\ WF_vars(OwnerStep)
    /\ \A s \in Sessions : WF_vars(HostStep(s)) /\ SF_vars(RunCommand(s)) /\ SF_vars(shut /\ PeerGone(s))
    /\ WF_vars(pc = "joining" /\ EndAccepting)
    /\ SF_vars(\E c \in Chunks : PrepareReady(c))

-----------------------------------------------------------------------------
SessionStates ==
    [phase : {"WaitingLogin", "LoginPending", "WaitingChunkRadius", "WaitingInitialChunks", "Spawned"},
     player : Places \cup {Spawn, None}, desired : (1..MaxRadius) \cup {None}, view : View \cup {None},
     pending : Plan \cup {None},
     deferred : Seq(Packets)]

(* Fields hold values of their types, queues respect their capacities, and a
   slot is in the map exactly from its registration to its removal. *)
TypeOK ==
    /\ state \in [Sessions -> SessionStates]
    /\ \A s \in Sessions : Len(state[s].deferred) <= MaxDeferred /\ Len(commands[s]) <= CommandCap
    /\ Len(events) <= EventCap
    /\ sessions = IF shut THEN {} ELSE {s \in Sessions : task[s] \in {"live", "closing"}}
    /\ held \in Sessions \cup {None} /\ left \in 0..Budget

(* Every pin belongs to one view or one prepared set: replacing a plan,
   committing a view, ending a session at any moment and an owner that still
   holds the slot neither leak a pin nor release one twice.  A chunk that a
   client sees, or that was prepared for one, is never evicted.  The runner
   releases pins "before the owner observes disconnect completion".  (The state
   has its types throughout.) *)
PinsExact ==
    /\ TypeOK
    /\ \A c \in Chunks :
          pins[c] = Cardinality({s \in Sessions : c \in Area(state[s].view)})
                      + Cardinality({s \in Sessions : c \in Prepared(state[s])})
    /\ \A s \in Sessions : Area(state[s].view) \cup Prepared(state[s]) \subseteq resident
    /\ \A s \in Sessions : story[s] = "disconnected" => state[s].view = None /\ Prepared(state[s]) = {}

(* Wherever a spawned player went, the view or its plan is centred there with
   the radius last asked for, and a plan starts from the view it will replace.
   A client was sent every chunk of its view: chunks encoded for one plan are
   never sent for another. *)
Target(st) == IF st.pending # None THEN st.pending.to ELSE st.view
ViewFollowsPlayer ==
    \A s \in Sessions : LET st == state[s] IN
        /\ st.phase \in {"WaitingInitialChunks", "Spawned"} => Target(st).center = st.player
        /\ st.pending # None => st.pending.from = st.view
        /\ st.desired # None => st.pending # None /\ st.pending.to.radius = st.desired
        /\ st.view # None => client[s] = Area(st.view)

(* PHP sees a session connect, be accepted, spawn and disconnect in this order
   and each at most once. *)
Forward == {<<"none", "connected">>, <<"connected", "accepted">>, <<"accepted", "spawned">>,
            <<"connected", "disconnected">>, <<"accepted", "disconnected">>,
            <<"spawned", "disconnected">>}
LifecycleOrder ==
    [][\A s \in Sessions : story'[s] # story[s] => <<story[s], story'[s]>> \in Forward]_vars

(* No session waits forever on the server: every login is accepted or its
   session ends, packets set aside during acceptance are handled once it is
   over, and waiting for the initial chunks ends in a spawn or in the end of
   the session. *)
SessionsProgress ==
    \A s \in Sessions :
        /\ state[s].phase = "LoginPending" ~> state[s].phase # "LoginPending"
        /\ state[s].phase # "LoginPending" /\ state[s].deferred # <<>> ~> state[s].deferred = <<>>
        /\ state[s].phase = "WaitingInitialChunks" ~> state[s].phase # "WaitingInitialChunks"

(* Stopping the server never waits forever for a session. *)
StopCompletes == pc = "joining" ~> pc = "stopped"

(* A session that leaves while its chunks are prepared is Gone for the
   Coordinator, and does not end the tick of every other session. *)
LeaverIsGone == [][Slot /\ ~shut => pc' # "joining"]_vars
=============================================================================
