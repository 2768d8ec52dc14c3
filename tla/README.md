# Cobblestone: TLA+ models and proofs

Cobblestone is a server for MCPE 0.15.10. PHP (`src/`) holds the application:
server lifecycle, plugins, events, tasks, commands, the world facade. A Rust
extension (`native/`) below it holds the world in memory, generates it, stores
it and talks to clients. Paths in this document are relative to the
repository.

## The system and its threads

| thread | runs | shares with the others |
| --- | --- | --- |
| owner | all of PHP, every mutation of the `WorldStore`, the storage tick, the flush | everything below |
| save workers | append and publish records, compact regions | a bounded command channel each, a completion channel, the region files |
| load workers | open a region, read one record | a channel each way, the region files |
| session host | accept loop, one task per session (`run_session`) | a bounded event queue, a bounded command queue per session, the locked state of each session, pins of the `WorldStore` |
| RakNet backend | the transport library | channels to the session host |

One server tick of the owner (`src/Server/Internal/Runtime.php`, `tick`) runs
the task scheduler, polls session events and dispatches them to PHP listeners,
polls storage, prepares and completes chunk views and dispatches spawns,
flushes world changes to clients and evicts chunks, in this order. An exception out of a tick makes
the runner stop the server; shutdown stops sessions, plugins and tasks and
then flushes the world.

### Inventory

| part | source | module | state |
| --- | --- | --- | --- |
| chunk residency, pins, watermarks | `native/world/src/residency.rs` | `Persistence` | modelled |
| asynchronous loads and saves, flush | `native/extension/src/world/storage*` | `Persistence`, `SaveTurns` | modelled |
| the save and load services, their threads and channels | `native/storage/src/async_*` | `AsyncStorage` | modelled |
| chunk source of the PHP world | `src/World/MainChunkSource.php` | `Persistence` | requests, adoption, eviction |
| region file | `native/storage/src/region*` | `RegionFile`, `RegionStore` | modelled |
| change journal, client synchronisation | `native/world/src/change_log.rs`, `native/extension/src/session/sync.rs` | `WorldSync` | modelled |
| session host and coordinator | `native/session/src`, `src/Session/Internal/Coordinator.php` | `SessionHost` | modelled but for movement values |
| task scheduler, due queue | `src/Task` | `Scheduler`, `DueOrder`, `DueQueue` | modelled |
| server lifecycle, runner, plugins, dispatcher | `src/Server`, `src/Plugin`, `src/Event`, `src/Tick` | `ServerLifecycle` | modelled |
| infinite generation, neighbourhoods, known structures | `native/world/src/infinite.rs`, `structure/*.rs` | `InfiniteWorld` | modelled |
| plans of villages, strongholds and mineshafts | `structure/*_plan.rs` | `VillagePlan`, `StrongholdPlan`, `MineshaftPlan` | modelled, draws are choices |
| writers of structure pieces | `structure/*_place.rs` | `StructureWriters`, `StrongholdRooms` | the boxes they write, not the block kinds |
| stored form of the generator's state | `infinite.rs`, `structure/*.rs` | `StructureCodec` | modelled as fields, not bytes |
| decorator | `population*.rs` | `Population` | where features start and reach, not their blocks |
| finishing a chunk: liquids, snow, light | `population_finalizer.rs`, `population_tick.rs`, `population_light.rs` | `Finalizer` | modelled on slices of the world |
| world metadata and generator state files | `native/storage/src/metadata*`, `generator_state.rs` | `WorldFiles` | modelled |
| RakNet adapter | `native/raknet/src` | `Transport` | modelled but for the library's protocol |
| arenas, mutation, light edits, commands, wire codecs, terrain and biome noise, configuration, logging, generated tables | | | not modelled, see the end |

`PROJECT.json` lists every part with its files, and for every definition the
lines it stands for.

## Modules

### `Persistence`

The life of the chunks of one region. State: the resident record of each chunk
(`cur`, one number for the pair of terrain and light revision, and the
lifecycle flags), its `persisted` watermark, its `pins`; the bookkeeping of
`NativeWorldPersistence` (`save_in_flight`, `load_missing`) and of
`AsyncLoadService` (`in_flight`); the channels; `chunks`, the keys PHP knows;
the generator's structure state in memory and on disk. `visible` and `durable`
are the state of `RegionStore`: what a reader finds and what the writer was
told is on stable storage; `tried` holds what failed saves published.

Owner handlers that poll a channel repeatedly are split at each poll, with `pc`
for the place reached: the storage tick is `BeginTick`, `PollLoad`*,
`EndLoads`, `PollSave`*, `EndTick`; the generation preflight polls in
`neighborhood`; the flush polls and submits until nothing is left. Workers act
between any two of these. A failed load or save is thrown by the tick, and
`Throw` takes the owner to the final flush, as the runner does. `Crash` is the
death of the process: the operating system still writes what it was given, so
the file keeps the durable contents or those of one attempted save.

A load worker reads the region in one step. `RegionFile` examines what happens
when it does not (finding 2 below).

### `SaveTurns`

Which chunks a storage tick saves. `dirty_snapshots_excluding` walks the maps
always from the start, so the chunks are numbered in that order and a tick
submits the first dirty ones, up to the budget and until one worker's channel
is full; then it submits compactions through the same channels. Gameplay goes
on for ever here: a chunk is clean, dirty, being saved as it is, or being saved
and modified since, and there is no bound on revisions.

### `AsyncStorage`

The two services below `Persistence`, thread by thread: a bounded command
channel for each worker (a region always goes to the same one), one bounded
channel of events back, on which the save service multiplexes save and
compaction completions and puts aside whichever was not asked for; submission
that fails when a channel is full, a worker that blocks on a full event
channel, and `shutdown`, which closes the command
channels and drains events until the last worker is gone.

### `WorldFiles`

The two files beside the regions, `world.cwm` and `generator.cgs`, and the calls
that attach a world, create it, move its spawn and save the generator. A
publication is a temporary file written, synced and renamed (or, for a new
world, hard linked) into place, and a directory sync, one step for each system
call. Names denote inodes, so that the name a killed process left behind is a
second name of the live file. Any call may fail, a process may be killed and
started again with the same process id and counters, the machine may lose
power. Both files are instances of `RegionStore`: what holds for the region
file holds for them. Two processes may create the world at once; `Alone` is the
assumption that only one of them then serves it, which no lock enforces.

### `RegionStore` and `RegionFile`

`RegionStore` is the promise: a save becomes readable, then durable, as a
whole; a crash keeps what was durable or one of the saves attempted since.
`RegionFile` is the file: creation (header, two pages, sync, directory sync),
append, sync, page write (through a torn state), sync, switch of the in-memory
index; compaction into a temporary file, rename and directory sync; and the
reader, which opens, reads page A, reads page B and reads the record in four
steps. A power failure keeps, for each unit written since the last sync, the
old bytes, the new ones or `Torn`. Offsets are record numbers, a checksum is
the ability to tell `Torn` apart. `faults`, chosen at the start, says what may
fail on this machine.

### `WorldSync`

The bounded journal, the views with their cursors, the bounded command queues
and `flush_world_changes` one view and one batch at a time. Every write uses a
new stamp, so "the client shows the world" is an equality. A queued command is
represented by what the client shows after it, since delivery is ordered and
reliable (RakNet). `PostProcess` is the generator writing into a finished
neighbour without a journal entry; the history variable `generated` has the
stamps of those writes, which the properties have to except.

### `SessionHost`

Both threads around the locked `SessionState`: join phases, packets deferred
while a login is decided, view plans with their prepared pins, the command and
event queues, the coordinator's tick, shutdown. A call of the owner is two
steps, `Slot` (the lookup that clones the slot) and the locked operation; the
host may end the session in between, and `Settle` then drops the last
reference. Positions lie on a line; a packet is what the phases tell apart.

### `Transport`

The backend task of the RakNet adapter between the library and the session host:
the map of peers, an inbound queue and a close state for each connection, the
accept queue, the command queue with its answers. The host's accept loop and a
session are kept as far as they call it. A full queue closes a connection
(inbound, accept) or refuses the call (commands), except that `shutdown` waits
for room. The backend may fail at any moment.

### `DueOrder`, `DueQueue`, `Scheduler`

`DueQueue` is the binary heap, `DueOrder` an ordered bag; `PopsInOrder` is the
refinement. `Scheduler` has every operation of the task scheduler, called
between ticks and from inside callbacks, which are user code: they schedule,
spawn, cancel, sleep, return or throw. Its due queues are sets. This loses
nothing: an entry for an id is pushed only once the previous one was popped or
cleared, and its due tick is later (`TaskEntries` and `SleepEntries` of the
proved invariant), so no entry is ever there twice.

### `ServerLifecycle`

The owner thread from `run()` to the end of the process. User code is called
from many places and calls back into the server, so the main variable is the
call stack: `run`, `tick`, `dispatch`, `shutdown`, `unloadAll` and `close`
frames of the server, `enable`, `disable` and `call` frames of user code. The
last frame acts; `raised` carries an exception to it, and every frame treats
it as the code's `catch` does. User code registers (through the server or a
scope), cancels, loads, unloads, runs a command, asks for a stop, returns,
throws or exits. A signal is a stop request at any point. `exit()` drops the
stack and leaves the PHP shutdown hook. A task here is only something a tick
may call; `Scheduler` has its details. `Starting` is not a state of its own,
because nothing but one native call happens in it.

One limit: a fiber that sleeps inside `enable()` or `disable()` would put
these frames aside for some ticks; the model takes a fiber to sleep only
outside calls into the server.

### Generation: `InfiniteWorld`

A chunk is generated by `generate_into_store`, and populated
(`try_post_process_center`) once it is the centre of nine generated chunks; each
step is the whole call, with the discovery of structures by `apply` of the four
families, post-processing of the ones due, and the preservation of neighbours.
A village house takes the ground height of the first chunk it is built in, a
mineshaft corridor places one spawner; both are part of the generator's state,
saved after the chunks. `evict`, `save_chunks`,
`persist_generator_state_if_safe`, `Reopen` and, in `structures_crash`, `Crash`
between the two saves surround it. `chunk_hash` is the code's, with its
collisions: the third chunk of the instance has the hash of the second.

### Plans: `VillagePlan`, `StrongholdPlan`, `MineshaftPlan`

The three planners, one step for each piece tried. Random draws are choices, so
a plan of the model is one the code could make with some stream (a little more
than that for strongholds, as the module says). `StructureBounds` has the boxes
(`orient_box`, `intersects`, `move_by`), `StructureShapes` the sizes of the
pieces. A mineshaft recurses in the code; here the exits still to be followed
are a stack.

### Writers: `StructureWriters`, `StrongholdRooms`

A piece is written once for each chunk it meets, in whatever order the chunks
are populated, and each time clipped to the chunk. The model has, for every
writer of the four families, the box it reaches in the coordinates of the
piece, and turns it as `world_pos` does. The first room of a mineshaft is
written in world coordinates, with a box for each entrance that is as wide and
as high as the piece behind it; `Reach` lists what writers may touch outside
the box of their piece. The doors of a stronghold room are
computed twice by the code, by the planner and by the writer;
`StrongholdRooms` keeps both, and `DoorsMeet` compares them.

### `StructureCodec`

The fields in which the generator's state is stored, for the four families with
their kinds of pieces, tags and optional parts. Writer and reader are separate
tables, as they are in the code.

### `Population` and `Finalizer`

`Population` follows the order of `try_post_process_center` and of the
decorator, with the biome tables, and keeps for each feature where it may start
and which columns it may write. A write outside the nine chunks is dropped
silently by the code; `clipped` records it.

`Finalizer` takes a slice of blocks, four by four, through springs, the liquid
ticks of `population_tick.rs` (flow, sources, drying up, hardening, fire),
edge water, top snow with the plants it covers, the drain and the two light
computations, queue entry by queue entry.

## Runs

| run | checks | instance |
| --- | --- | --- |
| `persistence` | no chunk lost, `Missing` means absent, receipts accepted, generator state not ahead, flush durable, storage never regresses; flush and service shutdown terminate, every modified chunk has its turn; services answer every command once and in order; metadata and generator state replaced whole, one identity | two chunks that need each other to be generated, one revision of change, one pin, budget and save queue of 1, failing saves and loads; three chunks in two regions, one of them modified for ever, budget and channels of 2; two workers, channels of 1, three commands; two processes that create a world, or one with two states of the generator, and two faults |
| `persistence_flags` | finding 1 | lifecycle flags set in any order |
| `region` | index always sound, loads linearizable, refinement of `RegionStore` | two chunks, two contents, five generations, three records, four inodes, one reader |
| `region_stale` | finding 2 | no fault at all |
| `sync` | nothing forgotten and staleness only after overflow, clients never go back | two sessions, two chunks of two blocks, journal of 2, batches of 1, queue of 2, three writes, infinite generator |
| `session` | pins exact, view follows player, order of lifecycle events | two sessions, two places, radius up to 2, queues of 1, failing listener |
| `progress` | clients converge, joins progress, stop completes and calls into the transport return; payloads in order and without gaps | one session each, flushes of one batch; two peers, queues of 1 |
| `session_leave` | finding 3 | one session |
| `scheduler` | no task or fiber lost, nothing overdue after a tick, cancelled stays cancelled, callbacks run when due; the heap refines the ordered bag; nothing outlives its scope, shutdown complete and in order | four ticks, four tasks or three fibers, stale limit 1; a heap of up to seven entries; two plugin classes, two loads, two registrations, five frames |
| `server_unload` | finding 4 | two listeners of one event |
| `generation` | see below | eight machines, each on its own |
| `structures_crash` | finding 5 | two chunks on a slope and a house across both |

`generation`: `PiecesApart` and `PiecesInReach` of the three planners and of the
decorator over one biome for each row of its tables; `BuiltInPlace`: a piece
built chunk by chunk is whole, stays in the box that was reserved for it but
for eaves, doorsteps, floors, webs and the ways out of a mineshaft's room, no
column is written from two chunks, and doors meet; `SlicesAlign`,
`SlicesBuilt`, `DoneOnce`: a house across two chunks is level, no chunk of a
structure is left out or decorated twice, through eviction and reopening;
`RoundTrip` of the codec; `PlanesAgree`, `LightIsExact` and `ChunkIsFinished` of the finalizer: no liquid is left in
motion, the plants kept in the extra data are those under snow or under what
washed the snow away, light is the solution of its equations
whatever the order of the queue, and the unbounded drain loop ends.

Why the bounds are enough. Queues, budgets and the journal are small so that
they fill: every backpressure and overflow path is taken. Two chunks suffice
for `persistence` because handlers relate a chunk only to its generation
neighbours, and these two are each other's. Three writes are one more than the
journal of `sync` holds. Five generations of a region file let a reader be
overtaken twice by saves and once by a compaction. Seven heap entries give
three levels and a last node with one child. `StaleLimit` 1 makes compaction
happen inside callbacks. Five frames let a listener or task inside a tick, and
a plugin inside shutdown, call back into the server once more; the server's
own frames may go deeper. Nine pieces of a village are the well, four roads and
houses and branches that get in each other's way; the limits of distance and
depth, which no plan that can be enumerated meets, are left to the proofs.
A room is the smallest or the largest and has one entrance, at an end of a wall
and as low or as high as can be: entrances do not depend on each other.
In `SaveTurns` a second chunk modified for ever would fill the budget of 2, and
TLC then finds a third that is never saved (Observations).
Every writer, every kind of stored piece and every feature occurs. The eight
slices of `Finalizer` were chosen so that every rule of the liquid tick fires,
as TLC's coverage of actions shows, that water runs into snow over plants, and
that a chunk finished before is finished again with another depth of snow.

Some runs stop at states a constraint (`Explored` in the MC module) excludes, so
that several scenarios share one run; only safety is checked there, and every
state up to the constraint is checked. `MCRegionFile`: with power failures
there is no reader and fewer generations. `MCWorldSync`: one session that moves
over two chunks, with the generator writing anywhere before the last stamp, or
two on one chunk of which the generator rewrites one block. `MCSessionHost`: one session does
everything, or two share the view around the spawn. `MCScheduler`: four tasks
and no fiber, or one task and three fibers; loads and registrations of plugins
are at most three together. In `MCStorage`, `MCProgress`, `MCScheduler` and
`MCGeneration` a behaviour is one of several machines alone (`machine`): they
share a run, not their state.

Deadlock is not checked: bounded counters end every behaviour, and a server may
be idle or stopped. What must not stop is stated as liveness.

### Fairness

* `Persistence`: the server loop ticks (`WF` of `Tick`, the polls, the flush
  and the preflight, which the owner is inside of); workers drain their
  channels. A worker's weak fairness is on succeeding when it takes a command;
  failing stays possible at any time. Gameplay, stop and crash are free.
* `SaveTurns`: the server loop ticks and workers drain their channels. Gameplay
  may modify the chunks of `Busy` for ever and leaves the others alone at some
  point.
* `AsyncStorage`: threads run, and the owner goes on with a shutdown it began.
* `WorldSync`: the tick flushes; a live session sends what is queued.
* `SessionHost`: both threads run. `select!` picks a ready branch at random,
  so a session cannot read packets forever while a command waits: strong
  fairness of `RunCommand`, and of noticing the end of the transport after the
  accept loop ended. Storage answers loads: strong fairness of `PrepareReady`.
* `Transport`: tasks run, and a `select!` takes a branch that stays ready. Room in
  a channel goes to the send that waits for it (`tokio`'s semaphore is a queue),
  not to those that only try: strong fairness of `Shutdown`. The library
  promises nothing but that its calls return.
* `Finalizer`: `finalize` is one call and runs until it returns.

`ClientsConverge` is checked with flushes of one batch. A flush of several
batches (more than 256 packets) starts over when the queue fills, and a session
that never frees room for all of them between two ticks is not covered.

## Proofs

`PersistenceProofs`, for every set of chunks, every neighbourhood, every number
of revisions and pins, every budget, queue capacity and set of faults:
`NoLostChunk`, `CleanIsDurable`, `MissingIsAbsent`, `ReceiptsAccepted`,
`GeneratorNotAhead`, `FlushedIsDurable`, `StorageNeverRegresses`. The assumption `FlagsOnlyGrow` says
that gameplay sets the lifecycle state to complete only, never back; finding 1
shows that it is needed. The invariant `IndInv` is needed because none of the
properties survives a step by itself. `SavesInv` orders watermark, snapshots in
flight and live chunk, with one snapshot per chunk in flight. `DiskInv` ties
the record on disk to the watermark, except between a successful save and its
receipt. `LoadsInv` says a load answers for a chunk nobody can make resident
meanwhile, so the answer is current whenever it is read. `TriedInv` says that
what failed saves left behind is never older than what was acknowledged.

`SchedulerProofs`, for every number of ticks, tasks and fibers, every set of
delays and every compaction limit: `EveryTaskQueued`, `FibersInPlace`,
`NothingOverdue`, `HandlesStayInactive`, `StartsWhenDue`. The invariant adds
where `tick()` can be with a callback on the stack, that no queue entry is
later than its task, and that sleepers and sleep queue agree; `RanInv` adds the
history of executions for `StartsWhenDue`.

`WorldSyncProofs`, for every world, set of sessions and views, journal and queue
capacity, batch size and limit of point changes: `NothingForgotten` and
`ClientsNeverGoBack`. Both speak of what a client shows, which depends on
commands still queued, on the journal and on how far the flush is, so the
invariant `IInv` follows a change on its way:

* `JournalSound`: the last entry that writes a cell has what is there now, unless
  the generator wrote since. That is why merging may keep the last entry only.
* `BehindWorld`: what a session will show once its queue is sent is no newer than
  the world, nor than the last entry of the same cell. This is what makes it
  safe to replay entries over a chunk that has just entered the view, and to
  send a batch again after a refusal.
* `InOrder`: each queued command leaves a state that may replace the one before.
* `Remembered`, `RestCovers`, `UpdatesSynced`: a cell that lags has an entry past
  the cursor; while a view is being sent it is in the packets that are left;
  once all of them were accepted nothing lags, and only then may the cursor
  move and the journal be pruned. `Overflowed` leaves the overflow of the
  journal as the only other way to lose an entry.

`Ordered` says that any sequences handed out have a first and a last one. It is
true of all finite sets of numbers, but an induction over numbers is out of the
provers' reach, so it is carried from step to step like the rest.

`RegionFileProofs`, for every number of chunks, contents, generations, records and
inodes, with writes and syncs failing in any way and a power failure at any
point: `IndexSound`, and `ImplementsRegionStore`, the refinement of `RegionStore`,
every step of the file being a step of the store or none. The hypothesis of both
theorems is that no machine has both `entry` and `crash` among its faults: once
the sync of a directory entry has failed, later saves are acknowledged for a file
a power failure may take (Observations). `SlotsAssumption` says that the slots
of a region can be listed, which is true of every finite set, and is what lets a
compaction copy them in order. The invariant `IInv` is the argument of the commit
protocol:

* `InHand`: the page the worker calls active is never written. It is the same in the
  page cache and on stable storage and shows what was acknowledged; the other
  page (`Rival`) is torn, or older, or newer, and then shows a save that was tried.
  Until the directory is synced after a rename, this holds of the replaced file
  as well, with a page of its own: a power failure may bring it back.
* `InPlace`: both pages, in the cache and on stable storage, only name records that
  are on stable storage already. Hence any mixture a power failure leaves is
  sound.
* `Unopened`: a file nobody has open is one a restart found, all of it on stable
  storage, or one whose creation is not over, without records.
* `SaveInv`, `TempInv`: how far the save is, and that the compacted file shows the
  acknowledged state before it takes the path.

`RegionLoadProofs`, for any number of load workers: `LoadLinearizable`, on machines
that do not go down (a crash inside the creation of a file can leave a file of
full length with no valid page, and a load of it fails). The invariant `LInv` adds to `IInv` what a worker knows at each of
its places. Between its two page reads (`Between`, `AtPageA`) the pair of its
copy of page A and of page B as it is tells a state that was seen: while no page
write overlapped, it is the pair of the file; when one write goes to page B, the
copy is still page A of the file; when it goes to page A, page B is the active
one and has not moved. A second write breaks this, which is finding 2. After
that the record it chose is whole and will not be written again. A replaced file
no longer changes while a worker has it open.

`SessionHostProofs`, for every finite set of sessions, every set of places and
packets, every radius, number of deferred packets, budget and queue capacity,
whether or not the listener may fail: `PinsExact`, `ViewFollowsPlayer`,
`LifecycleOrder`. The host thread and the owner meet in the locked state of a
session between any two steps of the other, and the owner spreads one piece of
work over several calls. The invariant `IInv` says what each may rely on:

* `Consistent`: what a `SessionState` says of itself, in every phase: before the
  first chunks there is no view; a plan starts from the view it will replace, and
  only chunks that enter are prepared for it. Each packet keeps it (`Inbound`).
* `Exact`: pins as cardinalities of the sets of sessions that want a chunk. A
  replaced plan, a commit, and the drop of the last reference, which may be the
  host's (`Release`) or the owner's (`Settle`), change one session in both sets.
* `Owner`: what the owner remembers from its last call. The chunks it fetched are
  those of the plan it will find, or that plan was replaced since and nothing is
  prepared for it; then it completes only if it has nothing to send, and an equal
  number of chunks fetched means none (`FetchedForThisPlan`).
* `Gone`: a session nobody refers to is fresh, so `Disconnected`, which is reported
  after the drop, finds no pins.
* `Heard`: every queued event of a session follows its `Connected` or PHP has heard
  that one already, there is at most one `Connected`, and `Disconnected` is queued
  only when the task is over.
* `Agreed`: the phase and what PHP was told move together, from the login it
  accepted until the spawn it dispatches at the end of the tick.

`PlanProofs` (strongholds and villages) and `MineshaftProofs` are about plans of
any size, on lemmas about boxes (where `orient_box` puts a box, that `intersects`
is symmetric and survives `move_by`).

* `HousesStayApart`: no two pieces of a village share a column, which is more
  than the planner tests. The invariant `Laid` is why it holds: all pieces are
  laid out at one height, so boxes that do not intersect share no column.
* `RoomsStayInPlace`: rooms of a stronghold do not overlap, fillers excepted,
  lie within the eight chunks around their source in which `apply` looks for
  it, and stay above bedrock. A door further than 112 blocks from the start is
  refused and no room is longer than sixteen; the argument also needs that
  every entry of `calls` is a door in one of four directions, hence lemmas on
  `add_children` for each kind of room.
* `TunnelsStayInPlace`: the same for mineshafts, and that the plan fits under the
  top of the world. Here the height matters: the invariant bounds an exit of
  generation k between `51 - 6k` and `56 + 4k` (down a stair and one more, up to
  an upper floor), so eight generations lie between -2 and 94 before `settle`
  moves them. Its assumption `Draws` states the ranges of the code's draws.

Only model-checked: all liveness (fairness is beyond the proof system),
`PopsInOrder` (the heap), `AnsweredInOrder`, and `WorldFiles`, `Transport`,
`SaveTurns`, `ServerLifecycle`, `InfiniteWorld`, `StructureWriters`,
`StructureCodec`, `Population` and `Finalizer` entirely. `PiecesApart` and `PiecesInReach` of
`MCGeneration` are the conjunction of what the three theorems prove and of the
reach of the decorator, which is only model-checked.

## Findings

1. `persistence_flags`: dirtiness is equality with the watermark, and setting
   flags moves no revision. Flags cleared and set back while the intermediate
   save is in flight make the chunk look clean; it is evicted and the late save
   publishes the older flags.
2. `region_stale`: two saves between a reader's two page reads leave it with a
   page two generations old, and a saved chunk may be answered `Missing`.
3. `session_leave`: a player who leaves between two coordinator calls is an
   exception that stops the server, where the code documents a status `gone`.
4. `server_unload`: a dispatch goes on with the chain it resolved at its start,
   so a listener whose plugin was unloaded by an earlier listener is called
   after the plugin's `disable()` and cleanups.
5. `structures_crash`: chunks are durable before the generator's state. After a
   crash between the two, the rest of a house that was half built takes its
   height from another chunk.

## Observations

Behaviours met while modelling which have no run of their own, most of them where
what a document or a test says does not hold:

* A load that opens a region file while the save worker is creating it finds
  it short and fails, instead of answering `Missing`
  (`native/storage/src/region.rs:138`, `docs/architecture/WORLD_STORAGE.md:214`).
* A crash inside the creation of a region file leaves a short file that
  `open_or_create` refuses on every later start
  (`region.rs:115`, `WORLD_STORAGE.md:9`).
* If the directory sync of a new or compacted file fails, later saves find the
  file in place and are acknowledged without it (`region.rs:114`,
  `WORLD_STORAGE.md:257`).
* Post-processing in an infinite world rewrites blocks of finished neighbours
  without a journal entry; clients that show them keep the old blocks
  (`native/world/src/infinite.rs:366`, `docs/architecture/WORLD_SYNC.md:25`).
  A client can even be taken back: a block is patched, the generator writes
  over it, the chunk enters a view whose cursor is still before the patch, and
  the flush replays the patch over the newer block. The proof of
  `ClientsNeverGoBack` needed this case to be excepted; the generator is its
  only cause.
* A move or a radius request between two coordinator calls replaces the plan,
  and marking a position outside the new one is an exception that stops the
  server (`native/session/src/view.rs:123`, `docs/architecture/RUNTIME_API.md:530`).
* `Disconnected` is dropped when the event queue is full
  (`native/session/src/host/runner.rs:214`,
  `docs/architecture/TRANSPORT_API.md:319`).
* A plugin loaded from inside its own `enable()` is listed, and then replaced
  when the outer `enable()` returns; the inner scope stays open for good
  (`src/Plugin/Internal/Plugins.php:87`, `docs/architecture/RUNTIME_API.md:567`).
  `OpenScopesHaveOwners` shows that this and `exit()` are the only ways to lose
  a scope.
* A plugin loaded while another one is disabled in shutdown stays loaded, with
  its registrations: shutdown visits the classes listed when it began
  (`Plugins.php:110`, `RUNTIME_API.md:72`).
* `exit()` or a fatal error inside a shutdown phase skips the later phases: the
  hook finds the server `Stopping` and returns. Only the native module
  shutdown then flushes the world (`src/Server/Server.php:266`,
  `docs/architecture/FOUNDATION.md:226`).

* The storage tick saves from the start of its maps every time. As many chunks
  as the budget, or as a channel holds, that are modified again before each
  tick keep the ones behind them dirty until gameplay leaves one of them alone
  or the server stops and flushes (`native/world/src/residency.rs:180`,
  `storage/tick.rs:143`). `SavedInTurn` is stated for fewer than that.
* A tunnel of a mineshaft may begin 99 blocks from the room: an exit at 80, and
  a corridor of 20 behind it towards smaller coordinates. The test at
  `structure/mineshaft_plan.rs:1062` asserts at most 96, for the seed it tries.
* A village may reach nine chunks from its source while `apply` looks four
  chunks around: houses further away are built only in chunks generated after a
  nearer one found the village (`structure/village.rs`).
* A `FiveCrossing` that faces north or west and has one of the two doors on a
  side opens its wall at the other height than the one where the next room is
  planned: the planner swaps the heights there and the writer does not
  (`structure/stronghold_place.rs`).
* Boulders and ferns of the taiga start at swapped coordinates. Away from the
  diagonal of the world these lie outside the nine chunks, where writes are
  dropped (`population_biome.rs:456`, marked there as the target's own doing;
  `docs/architecture/SUBSYSTEMS.md:307`: "without clipping").
* In biome 158 top snow may have no layer at all: a plant is then removed and
  neither covered nor kept. Water that flows into a layer over a plant leaves
  the plant's extra data behind (`population_finalizer.rs:169`,
  `docs/provenance/WORLD015.md:61`).
* `chunk_hash` gives some chunks near the origin the same number, (1, 0) and
  (-1, -2) among them. A structure that was built in one of them is taken as
  built in the other (`structure/mod.rs:281`); `SlicesBuilt` excepts this.
* `decode` refuses more than 4096 starts of a family, and `encode` writes as
  many as there are (`structure/village.rs:141`).
* Compactions that complete during shutdown are not reported
  (`native/storage/src/async_save/service.rs`).

## Not modelled

* Arenas, handles and region ownership (`native/runtime/src`): called from the
  owner thread only, a few lines for each call.
* Mutations, light edits and commands in PHP: sequential, each inside one call of
  the owner. What they do to the world is one atomic write in `WorldSync`.
* The protocol of the RakNet library: `Transport` takes it to deliver events in
  any order it may, and `SessionHost` takes the client as one that may send, stop
  or vanish at any step.
* Byte layouts of records and packets, terrain and biome noise, block kinds of
  structures and features, configuration, logging and generated tables: values
  without control.
* The figures the compaction policy compares: a region may match it or not at
  any time in `SaveTurns`, and in `Persistence` a compaction is a step the save
  worker may take at any time.
* Liquids beyond a slice of blocks: `Finalizer` drains the ticks of one slice,
  and `Population` leaves the drain out of the columns it follows, since
  `can_spread_to` refuses what lies outside the nine chunks.
