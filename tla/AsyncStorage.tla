----------------------------- MODULE AsyncStorage -----------------------------
(* The two services that do storage I/O on threads of their own, and the       *)
(* channels between them and the owner                                         *)
(* (native/storage/src/async_save, async_load).  A behaviour starts, uses and  *)
(* shuts down one of them.  Every worker has a bounded command channel; all    *)
(* share one bounded channel of events back to the owner, on which the save    *)
(* service multiplexes completions and compactions.  What a command does to    *)
(* its region is the subject of RegionFile; when it is submitted, that of      *)
(* Persistence.                                                                *)
EXTENDS Integers, FiniteSets, SequencesExt

CONSTANTS Regions,
          Route,              \* route_region_worker, a hash: the worker of a region
          queue_capacity,
          completion_capacity,
          MaxCommands         \* bound on the commands submitted

VARIABLES service,             \* "save" or "load"
          owner,               \* what the owner's thread is doing
          workers,             \* each worker's thread
          sender,              \* command channels still open at the owner's end
          commands,            \* what is in the command channels
          events,              \* what is in the channel back
          receiver,            \* the owner's end of it is open
          pending_completions, pending_compactions,
          observed_stopped,
          in_flight,           \* load service: what is being loaded, one chunk of a region
          accepted,            \* commands accepted, in order
          delivered            \* completions given to the owner, in order

ends    == <<sender, receiver>>
threads == <<workers, commands>>
inbox   == <<pending_completions, pending_compactions, observed_stopped, in_flight, delivered>>
vars    == <<service, owner, ends, threads, events, inbox, accepted>>

Workers == {Route[r] : r \in Regions}
Stopped == [kind |-> "stopped"]
Idle    == [state |-> "recv"]
Gone    == [state |-> "gone"]
Sending(event) == [state |-> "send", event |-> event]

Init ==
    /\ service \in {"save", "load"} /\ owner = "starting"
    /\ workers = [w \in Workers |-> Gone] /\ commands = [w \in Workers |-> <<>>]
    /\ sender = {} /\ receiver = TRUE /\ events = <<>>
    /\ pending_completions = <<>> /\ pending_compactions = <<>>
    /\ observed_stopped = 0 /\ in_flight = {}
    /\ accepted = <<>> /\ delivered = <<>>

-------------------------------------------------------------------------------
(* start: one worker after the other. *)
Spawn(w) ==
    /\ owner = "starting" /\ w \notin sender
    /\ workers' = [workers EXCEPT ![w] = Idle]
    /\ sender' = sender \cup {w}
    /\ owner' = IF sender' = Workers THEN "idle" ELSE "starting"
    /\ UNCHANGED <<service, receiver, commands, events, inbox, accepted>>

(* A thread cannot be spawned: the ones before it are stopped and joined. *)
SpawnFails ==
    /\ owner = "starting"
    /\ owner' = "joining" /\ sender' = {} /\ receiver' = FALSE
    /\ UNCHANGED <<service, threads, events, inbox, accepted>>

(* try_send: a full channel refuses the command, and the caller keeps it. *)
TrySend(kind, r) ==
    LET command == [kind |-> kind, region |-> r, id |-> Len(accepted)] IN
    /\ owner = "idle" /\ Len(accepted) < MaxCommands
    /\ Len(commands[Route[r]]) < queue_capacity
    /\ commands' = [commands EXCEPT ![Route[r]] = Append(@, command)]
    /\ accepted' = Append(accepted, command)
    /\ UNCHANGED <<service, owner, ends, workers, events, pending_completions,
                   pending_compactions, observed_stopped, delivered>>

try_save(r)    == service = "save" /\ TrySend("save", r) /\ UNCHANGED in_flight
try_compact(r) == service = "save" /\ TrySend("compact", r) /\ UNCHANGED in_flight

(* A load of what is being loaded joins it. *)
request(r) ==
    /\ service = "load" /\ r \notin in_flight
    /\ TrySend("load", r)
    /\ in_flight' = in_flight \cup {r}

-------------------------------------------------------------------------------
(* A command is done, refused by its file, or panics, which is caught: it has  *)
(* its event in any case.                                                      *)
Work(w) ==
    /\ workers[w] = Idle /\ commands[w] # <<>>
    /\ workers' = [workers EXCEPT ![w] = Sending(Head(commands[w]))]
    /\ commands' = [commands EXCEPT ![w] = Tail(@)]
    /\ UNCHANGED <<service, owner, ends, events, inbox, accepted>>

(* send blocks while the channel is full; a worker returns after Stopped, or   *)
(* when nobody listens any more.                                               *)
Send(w) ==
    /\ workers[w].state = "send"
    /\ IF receiver
       THEN /\ Len(events) < completion_capacity
            /\ events' = Append(events, workers[w].event)
            /\ workers' = [workers EXCEPT ![w] = IF @.event = Stopped THEN Gone ELSE Idle]
       ELSE workers' = [workers EXCEPT ![w] = Gone] /\ UNCHANGED events
    /\ UNCHANGED <<service, owner, ends, commands, inbox, accepted>>

(* Only a closed channel that is empty ends the loop. *)
Finish(w) ==
    /\ workers[w] = Idle /\ commands[w] = <<>> /\ w \notin sender
    /\ workers' = [workers EXCEPT ![w] = Sending(Stopped)]
    /\ UNCHANGED <<service, owner, ends, commands, events, inbox, accepted>>

-------------------------------------------------------------------------------
(* The receiving calls.  The save service looks at what an earlier call put    *)
(* aside, then at the channel.                                                 *)
(* Mutant: only at the channel. *)
recv_completion_from_channel ==
    /\ service = "save" /\ owner = "idle" /\ owner' = "completion"
    /\ UNCHANGED <<service, ends, threads, events, inbox, accepted>>

try_recv_completion ==
    /\ service = "save" /\ owner = "idle"
    /\ IF pending_completions = <<>>
       THEN owner' = "completion" /\ UNCHANGED <<pending_completions, delivered>>
       ELSE /\ delivered' = Append(delivered, Head(pending_completions))
            /\ pending_completions' = Tail(pending_completions)
            /\ UNCHANGED owner
    /\ UNCHANGED <<service, ends, threads, events, pending_compactions, observed_stopped,
                   in_flight, accepted>>

try_recv_compaction ==
    /\ service = "save" /\ owner = "idle"
    /\ IF pending_compactions = <<>>
       THEN owner' = "compaction" /\ UNCHANGED <<pending_compactions, delivered>>
       ELSE /\ delivered' = Append(delivered, Head(pending_compactions))
            /\ pending_compactions' = Tail(pending_compactions)
            /\ UNCHANGED owner
    /\ UNCHANGED <<service, ends, threads, events, pending_completions, observed_stopped,
                   in_flight, accepted>>

load_try_recv_completion ==
    /\ service = "load" /\ owner = "idle" /\ owner' = "loaded"
    /\ UNCHANGED <<service, ends, threads, events, inbox, accepted>>

(* The loop ends on an empty channel, at once or after the timeout.  (No       *)
(* worker stops before shutdown, so it never ends on the last Stopped.)        *)
Empty ==
    /\ owner \in {"completion", "compaction", "loaded"} /\ events = <<>>
    /\ owner' = "idle"
    /\ UNCHANGED <<service, ends, threads, events, inbox, accepted>>

Counted(event) == observed_stopped + (IF event = Stopped THEN 1 ELSE 0)

CompletionLoop ==
    LET event == Head(events) IN
    /\ owner = "completion" /\ events # <<>>
    /\ events' = Tail(events)
    /\ IF event.kind = "save"
       THEN delivered' = Append(delivered, event) /\ owner' = "idle"
       ELSE UNCHANGED <<delivered, owner>>
    /\ pending_compactions' =
         IF event.kind = "compact" THEN Append(pending_compactions, event) ELSE pending_compactions
    /\ observed_stopped' = Counted(event)
    /\ UNCHANGED <<service, ends, threads, pending_completions, in_flight, accepted>>

CompactionLoop ==
    LET event == Head(events) IN
    /\ owner = "compaction" /\ events # <<>>
    /\ events' = Tail(events)
    /\ IF event.kind = "compact"
       THEN delivered' = Append(delivered, event) /\ owner' = "idle"
       ELSE UNCHANGED <<delivered, owner>>
    /\ pending_completions' =
         IF event.kind = "save" THEN Append(pending_completions, event) ELSE pending_completions
    /\ observed_stopped' = Counted(event)
    /\ UNCHANGED <<service, ends, threads, pending_compactions, in_flight, accepted>>

LoadLoop ==
    LET event == Head(events) IN
    /\ owner = "loaded" /\ events # <<>>
    /\ events' = Tail(events)
    /\ IF event.kind = "load"
       THEN /\ delivered' = Append(delivered, event) /\ owner' = "idle"
            /\ in_flight' = in_flight \ {event.region}
       ELSE UNCHANGED <<delivered, owner, in_flight>>
    /\ observed_stopped' = Counted(event)
    /\ UNCHANGED <<service, ends, threads, pending_completions, pending_compactions, accepted>>

-------------------------------------------------------------------------------
(* shutdown and drop: the command channels are closed, events are taken until  *)
(* every worker has said Stopped, then the threads are joined.                 *)
(* Mutant: the threads are joined first. *)
shutdown_joining ==
    /\ owner = "idle"
    /\ owner' = "joining" /\ sender' = {}
    /\ delivered' = delivered \o pending_completions /\ pending_completions' = <<>>
    /\ UNCHANGED <<service, receiver, threads, events, pending_compactions, observed_stopped,
                   in_flight, accepted>>

shutdown ==
    /\ owner = "idle"
    /\ owner' = "draining" /\ sender' = {}
    /\ delivered' = delivered \o pending_completions /\ pending_completions' = <<>>
    /\ UNCHANGED <<service, receiver, threads, events, pending_compactions, observed_stopped,
                   in_flight, accepted>>

Drain ==
    LET event == Head(events) IN
    /\ owner = "draining" /\ events # <<>>
    /\ events' = Tail(events)
    /\ delivered' = IF event.kind \in {"save", "load"} THEN Append(delivered, event) ELSE delivered
    /\ pending_compactions' =
         IF event.kind = "compact" THEN Append(pending_compactions, event) ELSE pending_compactions
    /\ in_flight' = IF event.kind = "load" THEN in_flight \ {event.region} ELSE in_flight
    /\ observed_stopped' = Counted(event)
    /\ UNCHANGED <<service, owner, ends, threads, pending_completions, accepted>>

(* All have said so, or the channel has no sender left. *)
Drained ==
    /\ owner = "draining"
    /\ \/ observed_stopped >= Cardinality(Workers)
       \/ events = <<>> /\ \A w \in Workers : workers[w] = Gone
    /\ owner' = "joining" /\ receiver' = FALSE
    /\ UNCHANGED <<service, sender, threads, events, inbox, accepted>>

Join ==
    /\ owner = "joining" /\ \A w \in Workers : workers[w] = Gone
    /\ owner' = "closed" /\ in_flight' = {}
    /\ UNCHANGED <<service, ends, threads, events, pending_completions, pending_compactions,
                   observed_stopped, accepted, delivered>>

-------------------------------------------------------------------------------
Worker(w) == Work(w) \/ Send(w) \/ Finish(w)
Submit(r) == try_save(r) \/ try_compact(r) \/ request(r)
Receive   == try_recv_completion \/ try_recv_compaction \/ load_try_recv_completion
             \/ Empty \/ CompletionLoop \/ CompactionLoop \/ LoadLoop
Close     == Drain \/ Drained \/ Join

Next ==
    \/ \E w \in Workers : Spawn(w) \/ Worker(w)
    \/ \E r \in Regions : Submit(r)
    \/ SpawnFails \/ Receive \/ shutdown \/ Close

(* The system runs every thread that can run; nothing makes the owner submit,  *)
(* receive or shut down.                                                       *)
Fairness == WF_vars(Close) /\ \A w \in Workers : WF_vars(Worker(w))
Spec == Init /\ [][Next]_vars /\ Fairness

-------------------------------------------------------------------------------
Of(kind, r, s) == SelectSeq(s, LAMBDA e : e.kind = kind /\ e.region = r)

(* Every command accepted is answered once: for each region the owner gets the *)
(* answers in the order of the commands, whatever it asked for in between and  *)
(* however events were put aside, it has all of them after shutdown (but those *)
(* of compactions), and a region is in flight exactly while its load is        *)
(* unanswered.                                                                 *)
AnsweredInOrder ==
    /\ \A r \in Regions : \A kind \in {"save", "compact", "load"} :
         /\ IsPrefix(Of(kind, r, delivered), Of(kind, r, accepted))
         /\ owner = "closed" /\ kind # "compact" => Of(kind, r, delivered) = Of(kind, r, accepted)
    /\ in_flight = {r \in Regions : Of("load", r, delivered) # Of("load", r, accepted)}

(* A shutdown that was begun ends, with all threads joined, though workers may *)
(* be blocked on a full channel when it begins.                                *)
ShutdownEnds == owner \in {"draining", "joining"} ~> owner = "closed"
===============================================================================
