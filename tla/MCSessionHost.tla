---------------------------- MODULE MCSessionHost ----------------------------
(* Small instances of SessionHost. *)
EXTENDS SessionHost

MovePackets == {Login, Radius(1), Move(1), Move(2)}
AllPackets  == {Login, Other, Radius(1), Radius(3), Move(1), Move(2)}

(* Bound: the first session is alone and does everything, or two share the    *)
(* one view around the spawn, defer nothing, send nothing once spawned, no     *)
(* load is waited for and the server is not stopped.                           *)
Plain(st) ==
    /\ {st.view} \cup (IF st.pending = None THEN {} ELSE {st.pending.to})
         \subseteq {None, [center |-> Spawn, radius |-> 1]}
    /\ st.player \in {None, Spawn} /\ st.desired = None /\ st.deferred = <<>>
Explored ==
    \/ task[2] = "new"
    \/ /\ \A s \in Sessions : Plain(state[s])
       /\ \A i \in DOMAIN events : events[i].kind # "Packet"
       /\ resident \subseteq Area([center |-> Spawn, radius |-> 1])
       /\ ~shut /\ complete /\ pc # "joining"
=============================================================================
