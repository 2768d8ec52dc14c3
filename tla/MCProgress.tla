----------------------------- MODULE MCProgress -----------------------------
(* What must eventually happen.  A behaviour is one of WorldSync with one    *)
(* session that moves, one of SessionHost with one session, or one of        *)
(* Transport with two peers; the fairness of each is that of its module.     *)
EXTENDS Integers, Sequences

CONSTANTS Unknown, None, v1

VARIABLES machine,
          content, stamp, generated, next_sequence, oldest, changes, view,
          cursor, commandQueue, shows, flushPc, todo, current, rest, updates,
          task, idle, state, commands, sessions, events, pins, resident, shut,
          pc, session, held, left, work, complete, fetched, spawned, story, client,
          backend, peers, close, inbound, accepts, requests, listener, holder, got,
          link, sent

syncVars == <<content, stamp, generated, next_sequence, oldest, changes, view,
              cursor, commandQueue, shows, flushPc, todo, current, rest, updates>>
hostVars == <<task, idle, state, commands, sessions, events, pins, resident, shut,
              pc, session, held, left, work, complete, fetched, spawned, story, client>>
netVars == <<backend, peers, close, inbound, accepts, requests, listener, holder, got,
             link, sent>>

Sync == INSTANCE WorldSync WITH
    Chunks <- {1, 2}, Blocks <- {1, 2}, Viewers <- {v1}, Views <- {{1}, {1, 2}},
    Capacity <- 2, PointMax <- 1, BatchMax <- 2, QueueCap <- 1,
    Patches <- {{1}, {1, 2}}, Generator <- "flat", MaxStamp <- 3,
    queue <- commandQueue, client <- shows, pc <- flushPc

Host == INSTANCE SessionHost WITH
    Sessions <- {1}, Spawn <- 1, Places <- {1, 2},
    Packets <- {[kind |-> "login"], [kind |-> "radius", radius |-> 1],
                [kind |-> "move", to |-> 1], [kind |-> "move", to |-> 2]},
    MaxRadius <- 1, MaxDeferred <- 1, EventCap <- 2, CommandCap <- 1, Budget <- 1,
    ListenerFails <- FALSE

Net == INSTANCE Transport WITH
    Peers <- {"p1", "p2"}, AcceptCap <- 1, InboundCap <- 1, CommandCap <- 1,
    MaxPayloads <- [p \in {"p1", "p2"} |-> IF p = "p1" THEN 2 ELSE 0],
    commands <- requests, session <- holder

MCInit ==
    /\ machine \in {"sync", "session", "transport"}
    /\ Sync!Init /\ Host!Init /\ Net!Init

SyncStep == machine = "sync" /\ Sync!Next /\ UNCHANGED <<machine, hostVars, netVars>>
HostStep == machine = "session" /\ Host!Next /\ UNCHANGED <<machine, syncVars, netVars>>
NetStep  == machine = "transport" /\ Net!Next /\ UNCHANGED <<machine, syncVars, hostVars>>

(* The fairness of the three modules, for the machine that runs. *)
FlushFair   == WF_syncVars(machine = "sync" /\ Sync!Flush)
SendFair    == WF_syncVars(machine = "sync" /\ Sync!SendCommand(v1))
OwnerFair   == WF_hostVars(machine = "session" /\ Host!OwnerStep)
SessionFair == /\ WF_hostVars(machine = "session" /\ Host!HostStep(1))
               /\ SF_hostVars(machine = "session" /\ Host!RunCommand(1))
               /\ SF_hostVars(machine = "session" /\ shut /\ Host!PeerGone(1))
JoinFair    == WF_hostVars(machine = "session" /\ pc = "joining" /\ Host!EndAccepting)
LoadFair    == SF_hostVars(machine = "session" /\ \E c \in 0 .. 3 : Host!PrepareReady(c))
BackendFair == WF_netVars(machine = "transport" /\ (Net!RunCommand \/ Net!Finish))
ListenFair  == /\ WF_netVars(machine = "transport" /\ (Net!Accept \/ Net!AcceptFails))
               /\ SF_netVars(machine = "transport" /\ Net!Shutdown)
ReceiveFair == \A p \in {"p1", "p2"} : WF_netVars(machine = "transport" /\ Net!Receiving(p))

MCSpec ==
    /\ MCInit
    /\ [][SyncStep \/ HostStep \/ NetStep]_<<machine, syncVars, hostVars, netVars>>
    /\ FlushFair /\ SendFair
    /\ OwnerFair /\ SessionFair /\ JoinFair /\ LoadFair
    /\ BackendFair /\ ListenFair /\ ReceiveFair

-----------------------------------------------------------------------------
(* Every client shows the world as it is once nothing moves any more: flushes  *)
(* deliver or resynchronise whatever the journal and full queues dropped.      *)
ClientsConverge == Sync!ClientsConverge

(* A login is answered, deferred packets are handled, initial chunks arrive.   *)
SessionsProgress == Host!SessionsProgress

(* Stopping the server never waits forever for a session, nor the listener for *)
(* the transport: its calls are answered though its backend may fail, and the  *)
(* session of a peer that left ends.                                           *)
StopCompletes == Host!StopCompletes /\ Net!CallsReturn

(* The payloads of a peer reach its session in order and without gaps; what    *)
(* does not fit into a full queue closes the connection.                       *)
PayloadsInOrder == Net!PayloadsInOrder
=============================================================================
