------------------------------ MODULE MCStorage ------------------------------
(* A small world for Persistence, three chunks in two regions for SaveTurns,  *)
(* AsyncStorage with two workers, and WorldFiles with two processes that      *)
(* create the same world and may replace its metadata, or with one that       *)
(* writes both files over its restarts.  A behaviour is one of them alone.    *)
EXTENDS MCPersistence, Sequences

CONSTANT Torn

VARIABLES machine, service, owner, workers, sender, commands, events, receiver,
          pending_completions, pending_compactions, observed_stopped, loading,
          accepted, delivered,
          state, channels, receipts, compacted,
          compaction_queue, compaction_in_flight, compaction_blocked, tick, batch, room,
          dir, onDisk, inodes, proc, written, attempted, faults

serviceVars == <<service, owner, workers, sender, commands, events, receiver,
                 pending_completions, pending_compactions, observed_stopped, loading,
                 accepted, delivered>>

Services == INSTANCE AsyncStorage WITH
    Regions <- {1, 2}, Route <- [r \in {1, 2} |-> r], queue_capacity <- 1,
    completion_capacity <- 1, MaxCommands <- 3, in_flight <- loading

turnVars == <<state, channels, receipts, compacted, compaction_queue, compaction_in_flight,
              compaction_blocked, tick, batch, room>>

(* One chunk is modified for ever, so two slots leave room for the others. *)
Turns == INSTANCE SaveTurns WITH
    Region <- <<1, 1, 2>>, Route <- <<1, 2>>, Busy <- {1}, Budget <- 2, QueueCap <- 2,
    commands <- channels

worldVars == <<dir, onDisk, inodes, proc, written, attempted, faults>>

Race == INSTANCE WorldFiles WITH
    Process <- {1, 2}, Uuid <- 1 .. 3, Inode <- 1 .. 5, MaxRev <- 0, MaxTemp <- 1,
    MaxFaults <- 2, file <- inodes, acked <- written, tried <- attempted

Files == INSTANCE WorldFiles WITH
    Process <- {1}, Uuid <- 1 .. 3, Inode <- 1 .. 5, MaxRev <- 2, MaxTemp <- 2,
    MaxFaults <- 2, file <- inodes, acked <- written, tried <- attempted

MCInit ==
    /\ machine \in {"chunks", "services", "turns", "race", "files"}
    /\ Init /\ Services!Init /\ Turns!Init
    /\ machine # "services" => service = "save"
    /\ machine # "chunks" => target = c1
    /\ IF machine = "race" THEN Race!Init ELSE Files!Init

ChunkStep   == machine = "chunks" /\ Next /\ UNCHANGED <<machine, serviceVars, turnVars, worldVars>>
ServiceStep == machine = "services" /\ Services!Next /\ UNCHANGED <<machine, vars, turnVars, worldVars>>
TurnStep    == machine = "turns" /\ Turns!Next /\ UNCHANGED <<machine, vars, serviceVars, worldVars>>
RaceStep    == machine = "race" /\ Race!Next /\ UNCHANGED <<machine, vars, serviceVars, turnVars>>
FileStep    == machine = "files" /\ Files!Next /\ UNCHANGED <<machine, vars, serviceVars, turnVars>>

(* The fairness of the first three modules, for the machine that runs. *)
ChunkFair ==
    /\ WF_vars(machine = "chunks" /\ Tick)
    /\ WF_vars(machine = "chunks" /\ PollLoads) /\ WF_vars(machine = "chunks" /\ PollSaves)
    /\ WF_vars(machine = "chunks" /\ Generation) /\ WF_vars(machine = "chunks" /\ Flush)
    /\ WF_vars(machine = "chunks" /\ \E m \in saveQ : SaveWorker(m, TRUE))
    /\ WF_vars(machine = "chunks" /\ \E p \in loadQ : LoadWorker(p, TRUE))
ServiceFair ==
    /\ WF_serviceVars(machine = "services" /\ Services!Close)
    /\ \A w \in {1, 2} : WF_serviceVars(machine = "services" /\ Services!Worker(w))
TurnFair ==
    /\ WF_turnVars(machine = "turns" /\ Turns!Tick)
    /\ \A w \in {1, 2} : WF_turnVars(machine = "turns" /\ Turns!Work(w))

MCSpec ==
    /\ MCInit
    /\ [][ChunkStep \/ ServiceStep \/ TurnStep \/ RaceStep \/ FileStep]_
          <<machine, vars, serviceVars, turnVars, worldVars>>
    /\ ChunkFair /\ ServiceFair /\ TurnFair

------------------------------------------------------------------------------
(* The storage services answer every command once and in order, to the last    *)
(* one before shutdown.                                                        *)
AnsweredInOrder == machine = "services" => Services!AnsweredInOrder

(* Stopping never waits forever: a flush ends though its queue may be full, and *)
(* so does the shutdown of a service whose threads are blocked.                *)
StorageStops == FlushTerminates /\ Services!ShutdownEnds

(* The storage tick gives every modified chunk its turn, as long as fewer      *)
(* others are modified for ever than a tick submits and a channel holds.       *)
SavedInTurn == Turns!SavedInTurn

(* The metadata and the generator state are replaced whole: a reader finds     *)
(* what was last reported written or a later version, whatever call fails and  *)
(* whenever a process or the machine stops.  The world a process attached is   *)
(* the world on disk while it runs, though another was creating one.           *)
WorldFilesAtomic ==
    /\ Files!FilesReplacedWhole
    /\ [](machine = "race" => Race!IdentityKept) /\ [](machine = "files" => Files!IdentityKept)
==============================================================================
