------------------------------ MODULE Transport ------------------------------
(***************************************************************************)
(* The RakNet adapter (native/raknet): one backend task between the protocol *)
(* library and the session host.  It owns the library's server and the map   *)
(* of peers; sessions hold Connections that share with it a bounded inbound  *)
(* queue, a watch channel with the close state, and the bounded command      *)
(* queue, whose commands carry a oneshot channel for the answer.  A step is  *)
(* what one task does between two awaits.  Peer ids are never reused.        *)
(* The session host's listener loop and a session's loop are kept as far as  *)
(* they call the adapter; what they do with payloads is in SessionHost.      *)
(***************************************************************************)
EXTENDS Naturals, Sequences

CONSTANTS Peers,
          AcceptCap, InboundCap, CommandCap,     \* capacities of the three channels
          MaxPayloads                            \* bound: payloads of each peer

VARIABLES
    backend,    \* run_backend: "running", "closing" (past its loop) or "stopped"
    peers,      \* keys of the backend's map
    close,      \* CloseState in each connection's watch channel
    inbound,    \* payloads in each connection's channel, numbered as sent
    accepts,    \* the accept channel: peers with a new connection, or "failure"
    commands,   \* the command channel
    listener,   \* the host's accept loop: "accepting", the peer it turns away,
                \* "closing" (before shutdown), "waiting" (for its answer), "done"
    session,    \* the task that holds a connection, and the call it is in
    got,        \* the number of the last payload a session received
    link, sent  \* the library: whether a peer is connected; payloads it handed over

vars == <<backend, peers, close, inbound, accepts, commands, listener, session, got, link, sent>>

Init ==
    /\ backend = "running" /\ peers = {} /\ accepts = <<>> /\ commands = <<>>
    /\ listener = "accepting"
    /\ close = [p \in Peers |-> "Open"] /\ inbound = [p \in Peers |-> <<>>]
    /\ session = [p \in Peers |-> "none"] /\ got = [p \in Peers |-> 0]
    /\ link = [p \in Peers |-> "new"] /\ sent = [p \in Peers |-> 0]

-----------------------------------------------------------------------------
(* The backend task. *)

(* A peer leaves the map and its connection is told why. *)
Forget(p, why) ==
    /\ peers' = peers \ {p}
    /\ close' = IF p \in peers THEN [close EXCEPT ![p] = why] ELSE close

(* A connection that does not fit into the accept channel is closed.  The    *)
(* channel's other end lives as long as the backend.                         *)
PeerConnected(p) ==
    /\ backend = "running" /\ link[p] = "new" /\ link' = [link EXCEPT ![p] = "up"]
    /\ \/ /\ Len(accepts) < AcceptCap /\ accepts' = Append(accepts, p)
          /\ peers' = peers \cup {p} /\ session' = [session EXCEPT ![p] = "queued"]
          /\ UNCHANGED close
       \/ /\ Len(accepts) = AcceptCap
          /\ close' = [close EXCEPT ![p] = "Backpressure"]
          /\ session' = [session EXCEPT ![p] = "ended"]
          /\ UNCHANGED <<accepts, peers>>
    /\ UNCHANGED <<backend, inbound, commands, listener, got, sent>>

(* Variant for mutation: a payload that does not fit is dropped. *)
DropPayload(p) ==
    /\ Len(inbound[p]) = InboundCap /\ session[p] # "ended"
    /\ UNCHANGED <<inbound, peers, close>>

(* A payload that does not fit closes the connection. *)
Saturated(p) ==
    /\ Len(inbound[p]) = InboundCap /\ session[p] # "ended"
    /\ Forget(p, "Backpressure") /\ UNCHANGED inbound

(* The library may deliver what it had queued after it was told to disconnect. *)
Packet(p) ==
    /\ backend = "running" /\ link[p] = "up" /\ sent[p] < MaxPayloads[p]
    /\ sent' = [sent EXCEPT ![p] = @ + 1]
    /\ \/ p \notin peers /\ UNCHANGED <<inbound, peers, close>>
       \/ /\ p \in peers /\ session[p] # "ended" /\ Len(inbound[p]) < InboundCap
          /\ inbound' = [inbound EXCEPT ![p] = Append(@, sent'[p])]
          /\ UNCHANGED <<peers, close>>
       \/ p \in peers /\ Saturated(p)
       \/ p \in peers /\ session[p] = "ended" /\ Forget(p, "Closed") /\ UNCHANGED inbound
    /\ UNCHANGED <<backend, accepts, commands, listener, session, got, link>>

PeerDisconnected(p) ==
    /\ backend = "running" /\ link[p] = "up" /\ link' = [link EXCEPT ![p] = "over"]
    /\ Forget(p, "Closed")
    /\ UNCHANGED <<backend, inbound, accepts, commands, listener, session, got, sent>>

(* Past the loop every peer is closed before anything is awaited. *)
Leave ==
    /\ backend' = "closing" /\ peers' = {}
    /\ close' = [p \in Peers |-> IF p \in peers THEN "Closed" ELSE close[p]]

(* WorkerError and WorkerStopped, of which the host hears if there is room,  *)
(* or no event any more.                                                     *)
WorkerFails ==
    /\ backend = "running" /\ Leave
    /\ \/ Len(accepts) < AcceptCap /\ accepts' = Append(accepts, "failure")
       \/ UNCHANGED accepts
    /\ UNCHANGED <<inbound, commands, listener, session, got, link, sent>>

(* What follows the answer to a call: a session that asked to be closed, and *)
(* one whose send failed, ends.                                              *)
Answered(p, next) ==
    /\ session' = [session EXCEPT ![p] = next]
    /\ inbound' = IF next = "ended" THEN [inbound EXCEPT ![p] = <<>>] ELSE inbound
    /\ listener' = IF listener = p THEN "accepting" ELSE listener

RunCommand ==
    /\ backend = "running" /\ commands # <<>> /\ commands' = Tail(commands)
    /\ \/ /\ Head(commands).kind = "Shutdown" /\ Leave
          /\ UNCHANGED <<inbound, listener, session>>
       \/ /\ Head(commands).kind = "Send"
          /\ \E next \in {"run", "ended"} : Answered(Head(commands).peer, next)
          /\ UNCHANGED <<backend, peers, close>>
       \/ /\ Head(commands).kind = "Disconnect" /\ Answered(Head(commands).peer, "ended")
          /\ UNCHANGED <<backend, peers, close>>
    /\ UNCHANGED <<accepts, got, link, sent>>

(* The library's server is shut down and the task returns.  What it owned is  *)
(* dropped: unanswered calls and the shutdown that waits get BackendStopped   *)
(* or their answer; then the accept channel goes with the listener's server.  *)
Finish ==
    /\ backend = "closing" /\ backend' = "stopped" /\ commands' = <<>>
    /\ listener' = IF listener \in Peers THEN "accepting"
                   ELSE IF listener = "waiting" THEN "done" ELSE listener
    /\ session' = [p \in Peers |->
            IF session[p] \in {"sending", "closing"} \cup
                              (IF listener = "waiting" THEN {"queued"} ELSE {})
            THEN "ended" ELSE session[p]]
    /\ accepts' = IF listener = "waiting" THEN <<>> ELSE accepts
    /\ inbound' = [p \in Peers |-> IF session'[p] = "ended" THEN <<>> ELSE inbound[p]]
    /\ UNCHANGED <<peers, close, got, link, sent>>

-----------------------------------------------------------------------------
(* Calls of a session. *)

End(p) == session' = [session EXCEPT ![p] = "ended"] /\ inbound' = [inbound EXCEPT ![p] = <<>>]

(* recv looks at the close state, then waits for a change of it or a payload; *)
(* when both are there, either may be taken.                                  *)
RecvStart(p) ==
    /\ session[p] = "run"
    /\ \/ close[p] = "Open" /\ session' = [session EXCEPT ![p] = "recv"] /\ UNCHANGED inbound
       \/ close[p] # "Open" /\ End(p)
    /\ UNCHANGED <<backend, peers, close, accepts, commands, listener, got, link, sent>>

RecvPayload(p) ==
    /\ session[p] = "recv" /\ inbound[p] # <<>>
    /\ got' = [got EXCEPT ![p] = Head(inbound[p])]
    /\ inbound' = [inbound EXCEPT ![p] = Tail(@)]
    /\ session' = [session EXCEPT ![p] = "run"]
    /\ UNCHANGED <<backend, peers, close, accepts, commands, listener, link, sent>>

RecvClosed(p) ==
    /\ session[p] = "recv" /\ close[p] # "Open" /\ End(p)
    /\ UNCHANGED <<backend, peers, close, accepts, commands, listener, got, link, sent>>

(* send and close refuse a closed connection, a full command channel and a   *)
(* stopped backend; the session then ends.                                   *)
Refused(p) == close[p] # "Open" \/ Len(commands) = CommandCap \/ backend = "stopped"

Call(p) ==
    /\ session[p] = "recv"
    /\ \/ ~ Refused(p) /\ UNCHANGED inbound
          /\ \/ /\ commands' = Append(commands, [kind |-> "Send", peer |-> p])
                /\ session' = [session EXCEPT ![p] = "sending"]
             \/ /\ commands' = Append(commands, [kind |-> "Disconnect", peer |-> p])
                /\ session' = [session EXCEPT ![p] = "closing"]
       \/ Refused(p) /\ End(p) /\ UNCHANGED commands
    /\ UNCHANGED <<backend, peers, close, accepts, listener, got, link, sent>>

-----------------------------------------------------------------------------
(* The host's listener. *)

(* A connection gets a session, or is turned away when the owner's event      *)
(* queue is full: the loop then waits for the answer to its close.            *)
Accept ==
    /\ listener = "accepting" /\ accepts # <<>> /\ Head(accepts) \in Peers
    /\ accepts' = Tail(accepts)
    /\ LET p == Head(accepts) IN
       \/ /\ session' = [session EXCEPT ![p] = "run"]
          /\ UNCHANGED <<inbound, commands, listener>>
       \/ /\ ~ Refused(p) /\ listener' = p
          /\ commands' = Append(commands, [kind |-> "Disconnect", peer |-> p])
          /\ session' = [session EXCEPT ![p] = "closing"] /\ UNCHANGED inbound
       \/ Refused(p) /\ End(p) /\ UNCHANGED <<commands, listener>>
    /\ UNCHANGED <<backend, peers, close, got, link, sent>>

(* The owner asks the host to stop, or accept fails. *)
StopAccepting ==
    /\ listener = "accepting" /\ listener' = "closing"
    /\ UNCHANGED <<backend, peers, close, inbound, accepts, commands, session, got, link, sent>>

AcceptFails ==
    /\ listener = "accepting" /\ listener' = "closing"
    /\ \/ accepts # <<>> /\ Head(accepts) = "failure" /\ accepts' = Tail(accepts)
       \/ accepts = <<>> /\ backend = "stopped" /\ UNCHANGED accepts
    /\ UNCHANGED <<backend, peers, close, inbound, commands, session, got, link, sent>>

(* shutdown waits for room in the command channel, unlike the other calls. *)
Shutdown ==
    /\ listener = "closing"
    /\ \/ /\ backend # "stopped" /\ Len(commands) < CommandCap
          /\ commands' = Append(commands, [kind |-> "Shutdown"]) /\ listener' = "waiting"
          /\ UNCHANGED <<session, inbound, accepts>>
       \/ /\ backend = "stopped" /\ listener' = "done" /\ accepts' = <<>>
          /\ session' = [p \in Peers |-> IF session[p] = "queued" THEN "ended" ELSE session[p]]
          /\ inbound' = [p \in Peers |-> IF session[p] = "queued" THEN <<>> ELSE inbound[p]]
          /\ UNCHANGED commands
    /\ UNCHANGED <<backend, peers, close, got, link, sent>>

Receiving(p) == RecvStart(p) \/ RecvPayload(p) \/ RecvClosed(p)

Next ==
    \/ WorkerFails \/ RunCommand \/ Finish
    \/ Accept \/ AcceptFails \/ StopAccepting \/ Shutdown
    \/ \E p \in Peers : PeerConnected(p) \/ Packet(p) \/ PeerDisconnected(p)
                        \/ Receiving(p) \/ Call(p)

(* The runtime runs every task that can go on; a select takes a branch that   *)
(* stays ready.  Room in a channel goes to the send that waits for it, not to  *)
(* later ones that only try.  The library promises nothing but that its calls  *)
(* return.                                                                     *)
Fairness ==
    /\ WF_vars(RunCommand \/ Finish) /\ WF_vars(Accept \/ AcceptFails)
    /\ SF_vars(Shutdown)
    /\ \A p \in Peers : WF_vars(Receiving(p))

Spec == Init /\ [][Next]_vars /\ Fairness

-----------------------------------------------------------------------------
(* While a connection is open its session misses nothing: the payloads it has  *)
(* and those in its channel are all the library handed over, in order.  What   *)
(* does not fit closes the connection, and a peer the backend has forgotten    *)
(* is never left open.                                                         *)
PayloadsInOrder ==
    \A p \in Peers : session[p] \notin {"none", "ended"} =>
        /\ \A i \in 1 .. Len(inbound[p]) : inbound[p][i] = got[p] + i
        /\ close[p] = "Open" => p \in peers /\ got[p] + Len(inbound[p]) = sent[p]

(* Every call is answered, the session of a peer that left ends, and shutdown  *)
(* returns with no session left, though the command channel may be full, the   *)
(* backend may fail at any time, and calls race with its end.                  *)
Gone(p) == session[p] \in {"none", "ended"}
CallsReturn ==
    /\ \A p \in Peers : session[p] \in {"sending", "closing"} ~> session[p] \in {"run", "ended"}
    /\ \A p \in Peers : link[p] = "over" ~> Gone(p)
    /\ listener = "closing" ~> listener = "done" /\ \A p \in Peers : Gone(p)
==============================================================================
