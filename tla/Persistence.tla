----------------------------- MODULE Persistence -----------------------------
(***************************************************************************)
(* Chunk residency and persistence of one attached world: the native       *)
(* WorldStore, the NativeWorldPersistence record next to it, the save and  *)
(* load workers behind their channels, and the PHP MainChunkSource on top. *)
(*                                                                         *)
(* The owner thread runs every store mutation, the storage tick and the    *)
(* flush; `pc' is its place in a handler that polls a channel several      *)
(* times.  Workers run between any two owner steps.  The region file is    *)
(* the state of RegionStore, which RegionFile implements; a load worker    *)
(* reads it in one step.                                                   *)
(* Terrain and light revisions advance together along one chain of         *)
(* snapshots, so a single revision stands for the pair.                    *)
(***************************************************************************)
EXTENDS Naturals, FiniteSets

CONSTANTS
    Chunk,        \* chunk positions of one region (one save and one load worker)
    Nbr,          \* Nbr[c]: the positions generating c needs, c included
    MaxRev,       \* bound: revisions a chunk may reach
    MaxPins,      \* bound: pins held on one chunk
    Budget,       \* completions polled, and saves submitted, per storage tick
    QueueCap,     \* capacity of the save command channel
    Faults,       \* which worker operations may fail: a subset of {"save", "load"}
    ApiFlags,     \* lifecycle states gameplay code sets through Chunk::mark*
    None          \* no record, no watermark

ASSUME PersistenceAssumption ==
    /\ Nbr \in [Chunk -> SUBSET Chunk]
    /\ \A c \in Chunk : c \in Nbr[c] /\ Cardinality(Nbr[c]) \in Nat
    /\ MaxRev \in Nat /\ MaxPins \in Nat /\ Budget \in Nat \ {0} /\ QueueCap \in Nat \ {0}
    /\ Faults \subseteq {"save", "load"} /\ ApiFlags \subseteq {"generated", "full"}
    /\ None \notin [rev : Nat, flags : {"generated", "full"}]

(* CHUNK_LIFECYCLE bits that the code tells apart: GENERATED alone, or      *)
(* GENERATED | POPULATED | LIGHT_POPULATED.                                 *)
Flags == {"generated", "full"}
Content == [rev : Nat, flags : Flags]

VARIABLES
    cur,            \* ChunkRecord revision and flags, None when not resident
    persisted,      \* ChunkRecord persisted_* watermark
    pins,           \* ChunkRecord pin_count
    visible,        \* the record a reader of the region file finds for a chunk
    durable,        \* the record the save worker's index names, synced
    tried,          \* file contents published by saves that failed since
    save_in_flight, load_missing,          \* NativeWorldPersistence
    in_flight,                             \* AsyncLoadService
    saveQ, saveDone, loadQ, loadDone,      \* commands and completions in the channels
    chunks,         \* keys of MainChunkSource::$chunks
    genState, genDirty, genDisk,  \* positions the structure state covers; on disk
    pc, left, target,             \* owner: handler phase, budget left, chunk asked for
    latest          \* history: the newest content each chunk ever had

storeVars == <<cur, persisted, pins>>
saveVars  == <<save_in_flight, saveQ, saveDone>>
loadVars  == <<load_missing, in_flight, loadQ, loadDone>>
genVars   == <<genState, genDirty, genDisk>>
ownerVars == <<pc, left, target>>
fileVars  == <<visible, durable, tried>>
vars == <<storeVars, fileVars, saveVars, loadVars, chunks, genVars, ownerVars, latest>>

Resident == {p \in Chunk : cur[p] # None}
Dirty    == {p \in Resident : cur[p] # persisted[p]}

Init ==
    /\ cur = [p \in Chunk |-> None]
    /\ persisted = [p \in Chunk |-> None]
    /\ pins = [p \in Chunk |-> 0]
    /\ visible = [p \in Chunk |-> None]
    /\ durable = [p \in Chunk |-> None] /\ tried = {}
    /\ save_in_flight = {} /\ saveQ = {} /\ saveDone = {}
    /\ load_missing = {} /\ in_flight = {} /\ loadQ = {} /\ loadDone = {}
    /\ chunks = {}
    /\ genState = {} /\ genDirty = FALSE /\ genDisk = {}
    /\ pc = "idle" /\ left = 0 /\ target \in Chunk
    /\ latest = [p \in Chunk |-> None]

-----------------------------------------------------------------------------
(* Owner: gameplay on resident chunks. *)

(* WorldStore::apply_patch and the setters: compare-and-set one revision up. *)
Mutate(p) ==
    /\ pc = "idle" /\ p \in chunks /\ cur[p].rev < MaxRev
    /\ cur' = [cur EXCEPT ![p].rev = @ + 1]
    /\ latest' = [latest EXCEPT ![p] = cur'[p]]
    /\ UNCHANGED <<persisted, pins, fileVars, saveVars, loadVars, chunks, genVars, ownerVars>>

(* Chunk::markGenerated, markPopulated, markLightPopulated. *)
SetLifecycleFlags(p, f) ==
    /\ pc = "idle" /\ p \in chunks /\ f \in ApiFlags
    /\ cur' = [cur EXCEPT ![p].flags = f]
    /\ latest' = [latest EXCEPT ![p] = cur'[p]]
    /\ UNCHANGED <<persisted, pins, fileVars, saveVars, loadVars, chunks, genVars, ownerVars>>

(* pin_chunk by a view plan or a lease (owner), unpin_chunk when a session's
   state is dropped (host thread, at any time). *)
Pin(p) ==
    /\ pc = "idle" /\ p \in chunks /\ pins[p] < MaxPins
    /\ pins' = [pins EXCEPT ![p] = @ + 1]
    /\ UNCHANGED <<cur, persisted, fileVars, saveVars, loadVars, chunks, genVars, ownerVars, latest>>

Unpin(p) ==
    /\ pins[p] > 0
    /\ pins' = [pins EXCEPT ![p] = @ - 1]
    /\ UNCHANGED <<cur, persisted, fileVars, saveVars, loadVars, chunks, genVars, ownerVars, latest>>

(* MainChunkSource::evictCleanUnpinned: the queued keys it inspects leave
   native residency and the facade together, unless pinned or dirty. *)
EvictableDirty(p) == p \in chunks /\ pins[p] = 0
EvictablePinned(p) == p \in chunks /\ p \notin Dirty
Evictable(p) == p \in chunks /\ pins[p] = 0 /\ p \notin Dirty

EvictCleanUnpinned(K) ==
    /\ pc = "idle" /\ K # {} /\ \A p \in K : Evictable(p)
    /\ cur' = [p \in Chunk |-> IF p \in K THEN None ELSE cur[p]]
    /\ persisted' = [p \in Chunk |-> IF p \in K THEN None ELSE persisted[p]]
    /\ chunks' = chunks \ K
    /\ UNCHANGED <<pins, fileVars, saveVars, loadVars, genVars, ownerVars, latest>>

-----------------------------------------------------------------------------
(* Owner: loading and generating. *)

(* AsyncLoadService::request for every position of P not already in flight. *)
Request(P) ==
    /\ in_flight' = in_flight \cup P
    /\ loadQ' = loadQ \cup (P \ in_flight)

(* MainChunkSource::getOrGenerate, up to the native generator call.  A
   resident chunk is adopted; a chunk storage has not answered for is
   requested and the caller gets ChunkLoadPending; a chunk known to be
   missing, or not complete, goes on to the generator. *)
GetOrGenerate(p) ==
    /\ pc = "idle"
    /\ \/ /\ p \in Resident
          /\ chunks' = chunks \cup {p}
          /\ IF cur[p].flags = "full"
               THEN UNCHANGED ownerVars
               ELSE pc' = "neighborhood" /\ left' = Cardinality(Nbr[p]) /\ target' = p
          /\ UNCHANGED loadVars
       \/ /\ p \in load_missing \ Resident
          /\ pc' = "neighborhood" /\ left' = Cardinality(Nbr[p]) /\ target' = p
          /\ UNCHANGED <<chunks, loadVars>>
       \/ /\ p \notin Resident \cup load_missing
          /\ Request({p})
          /\ UNCHANGED <<load_missing, loadDone, chunks, ownerVars>>
    /\ UNCHANGED <<storeVars, fileVars, saveVars, genVars, latest>>

(* Positions of the 3x3 that residency or storage has not settled yet. *)
UnsettledIgnoringLoads(c) == Nbr[c] \ (Resident \cup load_missing \cup in_flight)
Unsettled(c) == Nbr[c] \ (Resident \cup load_missing)

(* prepare_generation_neighborhood answers "loading": request the rest. *)
NeighborhoodLoading ==
    /\ pc = "neighborhood" /\ (loadDone = {} \/ left = 0)
    /\ Unsettled(target) # {}
    /\ Request(Unsettled(target))
    /\ pc' = "idle"
    /\ UNCHANGED <<left, target, storeVars, fileVars, saveVars, load_missing, loadDone,
                   chunks, genVars, latest>>

(* try_post_process_center runs for a center whose whole 3x3 is generated
   and that is not complete; post_process_area tries the centers around each
   newly generated chunk and around the target. *)
PostProcessed(fresh, R) ==
    {x \in UNION {Nbr[n] : n \in fresh \cup {target}} :
        /\ x \in R /\ Nbr[x] \subseteq R
        /\ x \in Resident => cur[x].flags # "full"}

(* clear_missing: a chunk that became resident is no longer known missing. *)
KeepMissing(P) == load_missing
ClearMissing(P) == load_missing \ P

(* generate_into_store with the preflight satisfied.  Absent neighbors are
   installed at revision 0, unpersisted; every chunk of a post-processed 3x3
   may get a new revision (install_generated_chunk bumps it when the data
   differ), and the centers become complete. *)
GenerateIntoStore(bumped) ==
    LET fresh   == Nbr[target] \ Resident
        R       == Resident \cup fresh
        centers == PostProcessed(fresh, R)
        touched == UNION {Nbr[x] : x \in centers}
    IN  /\ pc = "neighborhood" /\ (loadDone = {} \/ left = 0)
        /\ Unsettled(target) = {}
        /\ bumped \subseteq touched
        /\ \A x \in bumped \cap Resident : cur[x].rev < MaxRev
        /\ cur' = [x \in Chunk |->
             IF x \notin fresh \cup touched THEN cur[x]
             ELSE [rev   |-> (IF x \in fresh THEN 0 ELSE cur[x].rev)
                               + (IF x \in bumped THEN 1 ELSE 0),
                   flags |-> IF x \in centers THEN "full"
                             ELSE IF x \in fresh THEN "generated" ELSE cur[x].flags]]
        /\ latest' = [x \in Chunk |-> IF x \in R THEN cur'[x] ELSE latest[x]]
        /\ load_missing' = ClearMissing(Nbr[target])
        /\ genState' = genState \cup fresh
        /\ genDirty' = TRUE
        /\ chunks' = chunks \cup {target}
        /\ pc' = "idle"
        /\ UNCHANGED <<left, target, persisted, pins, fileVars, saveVars, in_flight, loadQ,
                       loadDone, genDisk>>

-----------------------------------------------------------------------------
(* Owner: the storage tick, polled completion by completion. *)

BeginTick ==
    /\ pc = "idle"
    /\ pc' = "loads" /\ left' = Budget
    /\ UNCHANGED <<target, storeVars, fileVars, saveVars, loadVars, chunks, genVars, latest>>

(* An exception leaves the tick; the runner stops the server, whose last
   shutdown phase flushes the world. *)
Throw == pc' = "flush" /\ UNCHANGED <<left, target>>

(* One turn of poll_load_completions, in the tick or the preflight. *)
PollLoad(d) ==
    /\ pc \in {"loads", "neighborhood"} /\ left > 0 /\ d \in loadDone
    /\ loadDone' = loadDone \ {d}
    /\ in_flight' = in_flight \ {d.pos}
    /\ \/ /\ d.out = "loaded"
          /\ load_missing' = ClearMissing({d.pos})
          /\ IF d.pos \in Resident
               THEN UNCHANGED storeVars
               ELSE /\ cur' = [cur EXCEPT ![d.pos] = d.content]
                    /\ persisted' = [persisted EXCEPT ![d.pos] = d.content]
                    /\ pins' = [pins EXCEPT ![d.pos] = 0]
          /\ left' = left - 1 /\ UNCHANGED <<pc, target>>
       \/ /\ d.out = "missing"
          /\ load_missing' = load_missing \cup {d.pos}
          /\ left' = left - 1 /\ UNCHANGED <<pc, target, storeVars>>
       \/ /\ d.out = "failed"
          /\ Throw /\ UNCHANGED <<load_missing, storeVars>>
    /\ UNCHANGED <<fileVars, saveVars, loadQ, chunks, genVars, latest>>

EndLoads ==
    /\ pc = "loads" /\ (loadDone = {} \/ left = 0)
    /\ pc' = "saves" /\ left' = Budget
    /\ UNCHANGED <<target, storeVars, fileVars, saveVars, loadVars, chunks, genVars, latest>>

(* WorldStore::mark_persisted accepts a receipt that is neither ahead of the
   live chunk nor behind an earlier receipt. *)
MarkAccepted(p, c) ==
    /\ p \in Resident
    /\ c.rev <= cur[p].rev
    /\ persisted[p] # None => persisted[p].rev <= c.rev

(* The watermark it stores: the revisions and flags of the receipt. *)
LiveWatermark(d) == cur[d.pos]
Watermark(d) == d.content

(* One turn of the save-completion loop: apply_save_completion. *)
PollSave(d) ==
    /\ pc \in {"saves", "flush"} /\ (pc = "saves" => left > 0) /\ d \in saveDone
    /\ saveDone' = saveDone \ {d}
    /\ save_in_flight' = save_in_flight \ {d.pos}
    /\ IF d.ok /\ MarkAccepted(d.pos, d.content)
         THEN /\ persisted' = [persisted EXCEPT ![d.pos] = Watermark(d)]
              /\ left' = (IF pc = "saves" THEN left - 1 ELSE left) /\ UNCHANGED <<pc, target>>
         ELSE /\ pc' = (IF pc = "saves" THEN "flush" ELSE "failed")
              /\ UNCHANGED <<left, target, persisted>>
    /\ UNCHANGED <<cur, pins, fileVars, saveQ, loadVars, chunks, genVars, latest>>

(* dirty_snapshots_excluding, then try_save until the channel is full. *)
Candidates == Dirty \ save_in_flight

Schedule(S) ==
    /\ S \subseteq Candidates
    /\ Cardinality(S) <= Budget
    /\ Cardinality(saveQ) + Cardinality(S) <= QueueCap
    /\ \/ S = Candidates
       \/ Cardinality(S) = Budget
       \/ Cardinality(saveQ) + Cardinality(S) = QueueCap
    /\ saveQ' = saveQ \cup {[pos |-> p, content |-> cur[p]] : p \in S}
    /\ save_in_flight' = save_in_flight \cup S

(* persist_generator_state_if_safe: nothing in flight, nothing dirty. *)
AtAnyTime == TRUE
GeneratorSafe == save_in_flight' = {} /\ Dirty = {}

(* infinite::persist_if_dirty writes the structure state. *)
PersistGenerator ==
    IF genDirty THEN genDisk' = genState /\ genDirty' = FALSE /\ UNCHANGED genState
                ELSE UNCHANGED genVars

(* End of the tick: schedule saves, then persist_generator_state_if_safe. *)
EndTick(S) ==
    /\ pc = "saves" /\ (saveDone = {} \/ left = 0)
    /\ Schedule(S)
    /\ IF GeneratorSafe THEN PersistGenerator ELSE UNCHANGED genVars
    /\ pc' = "idle"
    /\ UNCHANGED <<left, target, storeVars, fileVars, saveDone, loadVars, chunks, latest>>

-----------------------------------------------------------------------------
(* Owner: shutdown.  Sessions, plugins and tasks are stopped, then the world
   is flushed: flush_persistence and the generator state. *)

Stop ==
    /\ pc = "idle" /\ pc' = "flush"
    /\ UNCHANGED <<left, target, storeVars, fileVars, saveVars, loadVars, chunks, genVars, latest>>

FlushSchedule(S) ==
    /\ pc = "flush" /\ saveDone = {} /\ S # {}
    /\ Schedule(S)
    /\ UNCHANGED <<saveDone, storeVars, fileVars, loadVars, chunks, genVars, ownerVars, latest>>

NothingToSubmit == Candidates = {}
FlushComplete == Candidates = {} /\ save_in_flight = {}

FlushDone ==
    /\ pc = "flush" /\ saveDone = {} /\ FlushComplete
    /\ PersistGenerator
    /\ pc' = "flushed"
    /\ UNCHANGED <<left, target, storeVars, fileVars, saveVars, loadVars, chunks, latest>>

-----------------------------------------------------------------------------
(* Workers. *)

(* save_snapshot: append and publish the record, then send the receipt.  The
   page it publishes extends the worker's own index.  A save that fails may
   leave that page readable, until the next save to the region replaces it. *)
SaveWorker(m, ok) ==
    /\ m \in saveQ
    /\ ok \/ "save" \in Faults
    /\ saveQ' = saveQ \ {m}
    /\ LET written == [durable EXCEPT ![m.pos] = m.content]
       IN  IF ok THEN visible' = written /\ durable' = written /\ tried' = {}
                 ELSE /\ visible' \in {visible, durable, written} /\ durable' = durable
                      /\ tried' = tried \cup {written}
    /\ saveDone' = saveDone \cup {[pos |-> m.pos, content |-> m.content, ok |-> ok]}
    /\ UNCHANGED <<storeVars, save_in_flight, loadVars, chunks, genVars, ownerVars, latest>>

(* compact_region: the replacement file holds what the worker's index names. *)
CompactWorker ==
    /\ visible' = durable
    /\ UNCHANGED <<durable, tried, storeVars, saveVars, loadVars, chunks, genVars, ownerVars, latest>>

(* load_chunk: open the region, read the indexed record, send the outcome. *)
LoadWorker(p, ok) ==
    /\ p \in loadQ
    /\ ok \/ "load" \in Faults
    /\ loadQ' = loadQ \ {p}
    /\ loadDone' = loadDone \cup
         {[pos |-> p, content |-> visible[p],
           out |-> IF ~ok THEN "failed" ELSE IF visible[p] = None THEN "missing" ELSE "loaded"]}
    /\ UNCHANGED <<storeVars, fileVars, saveVars, load_missing, in_flight, chunks, genVars,
                   ownerVars, latest>>

(* The process dies and is started again on the same directory. *)
Crash ==
    /\ cur' = [p \in Chunk |-> None]
    /\ persisted' = [p \in Chunk |-> None]
    /\ pins' = [p \in Chunk |-> 0]
    /\ save_in_flight' = {} /\ saveQ' = {} /\ saveDone' = {}
    /\ load_missing' = {} /\ in_flight' = {} /\ loadQ' = {} /\ loadDone' = {}
    /\ chunks' = {}
    /\ genState' = genDisk /\ genDirty' = FALSE
    /\ pc' = "idle" /\ left' = 0
    /\ visible' \in {durable} \cup tried /\ durable' = visible' /\ tried' = {}
    /\ latest' = visible'
    /\ UNCHANGED <<genDisk, target>>

-----------------------------------------------------------------------------
Gameplay ==
    \/ \E p \in Chunk : Mutate(p) \/ Pin(p) \/ Unpin(p) \/ GetOrGenerate(p)
    \/ \E p \in Chunk, f \in Flags : SetLifecycleFlags(p, f)
    \/ \E K \in SUBSET chunks : EvictCleanUnpinned(K)
Generation == NeighborhoodLoading \/ \E B \in SUBSET Chunk : GenerateIntoStore(B)
PollLoads  == \E d \in loadDone : PollLoad(d)
PollSaves  == \E d \in saveDone : PollSave(d)
Tick       == BeginTick \/ EndLoads \/ \E S \in SUBSET Candidates : EndTick(S)
Flush      == FlushDone \/ \E S \in SUBSET Candidates : FlushSchedule(S)
Workers    ==
    \/ CompactWorker
    \/ \E m \in saveQ, ok \in BOOLEAN : SaveWorker(m, ok)
    \/ \E p \in loadQ, ok \in BOOLEAN : LoadWorker(p, ok)

Next == \/ Gameplay \/ Generation \/ PollLoads \/ PollSaves \/ Tick
        \/ Stop \/ Flush \/ Workers \/ Crash

Spec == Init /\ [][Next]_vars

-----------------------------------------------------------------------------
SaveMsg == [pos : Chunk, content : Content]
SaveReceipt == [pos : Chunk, content : Content, ok : BOOLEAN]
LoadOutcome == [pos : Chunk, content : Content \cup {None},
                out : {"loaded", "missing", "failed"}]

(* Every variable holds a value of the kind the Rust and PHP fields hold, and
   a message never names a chunk outside the world. *)
TypeOK ==
    /\ cur \in [Chunk -> Content \cup {None}]
    /\ persisted \in [Chunk -> Content \cup {None}]
    /\ pins \in [Chunk -> Nat]
    /\ visible \in [Chunk -> Content \cup {None}]
    /\ durable \in [Chunk -> Content \cup {None}]
    /\ tried \subseteq [Chunk -> Content \cup {None}]
    /\ save_in_flight \subseteq Chunk /\ saveQ \subseteq SaveMsg /\ saveDone \subseteq SaveReceipt
    /\ load_missing \subseteq Chunk /\ in_flight \subseteq Chunk
    /\ loadQ \subseteq Chunk /\ loadDone \subseteq LoadOutcome
    /\ chunks \subseteq Chunk
    /\ genState \subseteq Chunk /\ genDirty \in BOOLEAN /\ genDisk \subseteq Chunk
    /\ pc \in {"idle", "neighborhood", "loads", "saves", "flush", "flushed", "failed"}
    /\ left \in Nat /\ target \in Chunk
    /\ latest \in [Chunk -> Content \cup {None}]

(* Eviction, failed saves, late completions and generation never lose a
   chunk: one that is not resident is on stable storage exactly as it last
   was (try_evict_chunk, mark_persisted, dirty_snapshots_excluding). *)
NoLostChunk == \A p \in Chunk \ Resident : durable[p] = latest[p]

(* A watermark is never ahead of stable storage: a chunk is_dirty calls clean
   is on disk as it stands, so a crash right now would not lose it. *)
CleanIsDurable == \A p \in Resident \ Dirty : durable[p] = cur[p]

(* "Only a durable Missing result is permission to generate": a position in
   load_missing has no record and no resident chunk, however long ago the
   load worker looked. *)
MissingIsAbsent == \A p \in load_missing : durable[p] = None /\ visible[p] = None /\ p \notin Resident

(* mark_persisted never refuses a receipt (ChunkMissing, revision ahead,
   regression), so a successful save never stops the server. *)
ReceiptsAccepted == \A d \in saveDone : d.ok => MarkAccepted(d.pos, d.content)

(* persist_generator_state_if_safe and flush_all: the structure state on disk
   covers no chunk whose record is not on disk. *)
GeneratorNotAhead == \A p \in genDisk : durable[p] # None

(* When the flush of flush_all returns without error, everything that ever
   existed is on stable storage, the structure state included. *)
FlushedIsDurable ==
    pc = "flushed" => (\A p \in Chunk : durable[p] = latest[p]) /\ genDisk = genState

(* What a reader finds for a chunk never goes back to an older acknowledged
   revision and never disappears: nothing regenerates over a saved chunk. *)
StorageNeverRegresses ==
    [][\A p \in Chunk : durable[p] # None =>
          durable'[p] # None /\ durable[p].rev <= durable'[p].rev]_vars

-----------------------------------------------------------------------------
(* The server loop ticks while it runs and keeps polling in a flush; workers
   drain their channels.  Gameplay, stopping, crashing and failing are free. *)
Fairness ==
    /\ WF_vars(Tick) /\ WF_vars(PollLoads) /\ WF_vars(PollSaves)
    /\ WF_vars(Generation) /\ WF_vars(Flush)
    /\ WF_vars(\E m \in saveQ : SaveWorker(m, TRUE))
    /\ WF_vars(\E p \in loadQ : LoadWorker(p, TRUE))
FairSpec == Spec /\ Fairness

(* A flush ends: everything gets persisted or a save error is reported. *)
FlushTerminates == (pc = "flush") ~> (pc # "flush")

-----------------------------------------------------------------------------
(* The inductive invariant. *)

(* The order along which the content of one chunk grows. *)
Leq(a, b) == a.rev <= b.rev /\ (a.flags = "full" => b.flags = "full")

(* Watermark, in-flight snapshots and live chunk are ordered. *)
Between(p, c) ==
    /\ Leq(c, cur[p])
    /\ persisted[p] # None => Leq(persisted[p], c)

SavesInv ==
    /\ save_in_flight \subseteq Dirty
    /\ \A p \in Resident : persisted[p] # None => Leq(persisted[p], cur[p])
    /\ \A m \in saveQ : m.pos \in save_in_flight /\ Between(m.pos, m.content)
    /\ \A d \in saveDone : d.pos \in save_in_flight /\ Between(d.pos, d.content)
    /\ \A m, n \in saveQ : m.pos = n.pos => m = n
    /\ \A d, e \in saveDone : d.pos = e.pos => d = e
    /\ \A m \in saveQ, d \in saveDone : m.pos # d.pos

(* Where the record of each chunk stands on disk. *)
DiskInv ==
    /\ \A p \in Chunk : IF p \in Resident THEN latest[p] = cur[p]
                        ELSE latest[p] = durable[p] /\ persisted[p] = None
    /\ \A d \in saveDone : d.ok => durable[d.pos] = d.content /\ visible[d.pos] = d.content
    /\ \A p \in Resident :
          (\A d \in saveDone : d.pos = p => ~d.ok) => durable[p] = persisted[p]
    /\ \A p \in Chunk : visible[p] # durable[p] => p \in Dirty
    /\ \A p \in Chunk : durable[p] # None => visible[p] # None /\ Leq(durable[p], visible[p])

LoadsInv ==
    /\ chunks \subseteq Resident
    /\ in_flight \cap Resident = {} /\ loadQ \subseteq in_flight
    /\ \A p \in load_missing : durable[p] = None /\ p \notin Resident /\ p \notin in_flight
    /\ \A d \in loadDone :
          /\ d.pos \in in_flight /\ d.pos \notin loadQ
          /\ d.out = "loaded" => d.content = durable[d.pos] /\ d.content # None
          /\ d.out = "missing" => d.content = None /\ durable[d.pos] = None
    /\ \A d, e \in loadDone : d.pos = e.pos => d = e

GenInv ==
    /\ \A p \in genState : latest[p] # None
    /\ \A p \in genDisk : durable[p] # None
    /\ ~genDirty => genDisk = genState

StopInv == pc = "flushed" => Dirty = {} /\ save_in_flight = {} /\ ~genDirty

(* What a failed save may leave for a crash to find is no step back. *)
TriedInv == \A t \in tried, p \in Chunk : durable[p] # None => t[p] # None /\ Leq(durable[p], t[p])

IInv == TypeOK /\ SavesInv /\ DiskInv /\ LoadsInv /\ GenInv /\ StopInv
IndInv == IInv /\ TriedInv
=============================================================================
