----------------------------- MODULE MCGeneration -----------------------------
(* Small instances of the machines that generate the infinite overworld.  A    *)
(* behaviour is one of them alone, the others keep still.                      *)
EXTENDS MCInfiniteWorld

VARIABLES machine,
          pieces, pending_roads, pending_houses, left, previous, at,
          rooms, pending_children, calls, placed, imposed, lastRoom, lowered,
          tunnels, exits, surface, settled,
          turn, biome, skew, swapped, clipped,
          built, todo, written, beyond,
          stage, blocks, extra, pending, current_tick, instaticking, springs,
          field, light, queue, sky_light,
          known, codecStage, bytes, restored

villageVars    == <<pieces, pending_roads, pending_houses, left, previous, at>>
strongholdVars == <<rooms, pending_children, calls, placed, imposed, lastRoom, lowered>>
mineshaftVars  == <<tunnels, exits, surface, settled>>
populationVars == <<turn, biome, skew, swapped, clipped>>
writerVars     == <<built, todo, written, beyond>>
worldVars      == vars
finishVars     == <<stage, blocks, extra, pending, current_tick, instaticking, springs,
                    field, light, queue, sky_light>>
codecVars      == <<known, codecStage, bytes, restored>>

(* A village with two kinds of house and roads of one length. *)
Village == INSTANCE VillagePlan WITH
    Kinds <- {"PigHouse", "SmallHut"}, MaxCounts <- {1, 2}, Lengths <- {3}, Gaps <- {3},
    MaxPieces <- 9

Stronghold == INSTANCE StrongholdPlan WITH
    Kinds <- {"Straight", "LeftTurn", "Library"}, MaxPieces <- 5,
    pieces <- rooms, previous <- lastRoom, settled <- lowered

Mineshaft == INSTANCE MineshaftPlan WITH
    Kinds <- {"Corridor", "Crossing", "Stairs"}, Sections <- {4}, RoomTops <- {54},
    RoomSides <- {7}, Doors <- {0}, Ups <- {0}, MaxPieces <- 6,
    pieces <- tunnels

(* One biome for every row of the decorator's tables. *)
Decorator == INSTANCE Population WITH
    Biomes <- {0, 1, 2, 4, 5, 6, 12, 14, 16, 20, 21, 23, 27, 29, 32, 35, 37, 38, 129, 132, 140, 155, 160},
    Skews <- {0, 1}, stage <- turn

(* A door from which pieces spread over up to nine chunks. *)
Writers == INSTANCE StructureWriters WITH Feet <- {<<6, 70, 9>>}

(* Slices of the world, rows from the top down: a closed cave, lava beside     *)
(* falling water, a hill where plants and water meet, burning wood, a valley   *)
(* with plants between snow, water at the edge that runs or falls on snow over *)
(* plants, and a chunk that was finished before, with layers that cover        *)
(* plants, low and high and under a snow block.                                *)
A == [id |-> "air", data |-> 0]
S == [id |-> "stone", data |-> 0]
W == [id |-> "still_water", data |-> 0]
L == [id |-> "still_lava", data |-> 0]
G == [id |-> "grass", data |-> 0]
F == [id |-> "snow", data |-> 0]
T == [id |-> "wood", data |-> 0]
C == [id |-> "snow_layer", data |-> 10]
H == [id |-> "snow_layer", data |-> 15]
Slice(rows) == [p \in (0 .. 3) \X (0 .. 3) \X {0} |-> rows[4 - p[2]][p[1] + 1]]
Finish == INSTANCE Finalizer WITH
    Caves <- {
        Slice(<< <<S, S, S, S>>, <<A, A, A, S>>, <<S, A, A, S>>, <<S, S, S, S>> >>),
        Slice(<< <<A, A, S, S>>, <<W, A, A, S>>, <<S, A, L, S>>, <<S, S, S, S>> >>),
        Slice(<< <<A, A, A, A>>, <<W, G, A, A>>, <<W, S, G, L>>, <<S, S, S, S>> >>),
        Slice(<< <<S, S, S, S>>, <<W, A, W, S>>, <<S, A, A, A>>, <<S, T, S, L>> >>),
        Slice(<< <<A, A, A, A>>, <<A, A, W, A>>, <<G, F, G, A>>, <<S, S, S, S>> >>),
        Slice(<< <<A, A, A, A>>, <<A, S, W, G>>, <<G, S, S, S>>, <<S, S, S, S>> >>),
        Slice(<< <<A, A, A, A>>, <<G, G, W, A>>, <<S, S, S, G>>, <<S, S, S, S>> >>),
        Slice(<< <<A, A, A, A>>, <<A, A, F, A>>, <<C, H, C, G>>, <<S, S, S, S>> >>)},
    Width <- 4, Top <- 4, EdgeColumns <- {<<0, 0>>, <<2, 0>>}, MaxSprings <- 1, Layers <- {-1, 0, 3, 9}

Codec == INSTANCE StructureCodec WITH Limit <- 3, stage <- codecStage

-------------------------------------------------------------------------------
NoVillage ==
    /\ pieces = <<>> /\ pending_roads = <<>> /\ pending_houses = <<>> /\ left = <<>>
    /\ previous = <<>> /\ at = <<>>
NoStronghold ==
    /\ rooms = <<>> /\ pending_children = <<>> /\ calls = <<>> /\ placed = <<>>
    /\ imposed = <<>> /\ lastRoom = <<>> /\ lowered = <<>>
NoMineshaft  == tunnels = <<>> /\ exits = <<>> /\ surface = <<>> /\ settled = <<>>
NoPopulation == turn = <<>> /\ biome = <<>> /\ skew = <<>> /\ swapped = <<>> /\ clipped = <<>>
NoWriters    == built = <<>> /\ todo = <<>> /\ written = <<>> /\ beyond = <<>>
NoFinish ==
    /\ stage = "done" /\ blocks = <<>> /\ extra = <<>> /\ pending = <<>> /\ current_tick = <<>>
    /\ instaticking = <<>> /\ springs = <<>> /\ field = <<>> /\ light = <<>> /\ queue = <<>>
    /\ sky_light = <<>>
NoCodec == known = <<>> /\ codecStage = <<>> /\ bytes = <<>> /\ restored = <<>>

MCInit ==
    /\ machine \in {"village", "stronghold", "mineshaft", "population", "writers", "world", "finish",
                   "codec"}
    /\ IF machine = "village"    THEN Village!Init    ELSE NoVillage
    /\ IF machine = "stronghold" THEN Stronghold!Init ELSE NoStronghold
    /\ IF machine = "mineshaft"  THEN Mineshaft!Init  ELSE NoMineshaft
    /\ IF machine = "population" THEN Decorator!Init  ELSE NoPopulation
    /\ IF machine = "writers"    THEN Writers!Init    ELSE NoWriters
    /\ Init
    /\ IF machine = "finish"     THEN Finish!Init     ELSE NoFinish
    /\ IF machine = "codec"      THEN Codec!Init      ELSE NoCodec

VillageStep ==
    /\ machine = "village" /\ Village!Next
    /\ UNCHANGED <<machine, strongholdVars, mineshaftVars, populationVars, writerVars, worldVars, finishVars, codecVars>>
StrongholdStep ==
    /\ machine = "stronghold" /\ Stronghold!Next
    /\ UNCHANGED <<machine, villageVars, mineshaftVars, populationVars, writerVars, worldVars, finishVars, codecVars>>
MineshaftStep ==
    /\ machine = "mineshaft" /\ Mineshaft!Next
    /\ UNCHANGED <<machine, villageVars, strongholdVars, populationVars, writerVars, worldVars, finishVars, codecVars>>
PopulationStep ==
    /\ machine = "population" /\ Decorator!Next
    /\ UNCHANGED <<machine, villageVars, strongholdVars, mineshaftVars, writerVars, worldVars, finishVars, codecVars>>
WriterStep ==
    /\ machine = "writers" /\ Writers!Next
    /\ UNCHANGED <<machine, villageVars, strongholdVars, mineshaftVars, populationVars, worldVars, finishVars, codecVars>>
WorldStep ==
    /\ machine = "world" /\ Next
    /\ UNCHANGED <<machine, villageVars, strongholdVars, mineshaftVars, populationVars, writerVars, finishVars, codecVars>>
FinishStep ==
    /\ machine = "finish" /\ Finish!Next
    /\ UNCHANGED <<machine, villageVars, strongholdVars, mineshaftVars, populationVars, writerVars, worldVars, codecVars>>
CodecStep ==
    /\ machine = "codec" /\ Codec!Next
    /\ UNCHANGED <<machine, villageVars, strongholdVars, mineshaftVars, populationVars, writerVars, worldVars, finishVars>>

MCNext == VillageStep \/ StrongholdStep \/ MineshaftStep \/ PopulationStep \/ WriterStep
          \/ WorldStep \/ FinishStep \/ CodecStep

(* The fairness is that of Finalizer; where it does not run, stage is "done". *)
MCSpec ==
    /\ MCInit
    /\ [][MCNext]_<<machine, villageVars, strongholdVars, mineshaftVars, populationVars, writerVars,
                    worldVars, finishVars, codecVars>>
    /\ Finish!Fairness

-------------------------------------------------------------------------------
(* No two houses of a village share a column, no room of a stronghold is built *)
(* into an older one but for fillers, and no two tunnels of a mineshaft meet.  *)
PiecesApart ==
    /\ machine = "village"    => Village!PiecesApart
    /\ machine = "stronghold" => Stronghold!RoomsApart
    /\ machine = "mineshaft"  => Mineshaft!TunnelsApart

(* Every room and tunnel lies in the chunks that find the structure, the       *)
(* finished plan between bedrock and the top of the world, and no feature of   *)
(* the decorator is clipped at the edge of the nine chunks.                    *)
PiecesInReach ==
    /\ machine = "stronghold" => Stronghold!RoomsInReach /\ Stronghold!RoomsAboveBedrock
    /\ machine = "mineshaft"  => Mineshaft!TunnelsInReach /\ Mineshaft!TunnelsInWorld
    /\ machine = "population" => Decorator!FeaturesFit

(* Built chunk by chunk in any order, a piece is whole, inside its reserved    *)
(* box, and no column is written from two chunks; the door of every room opens *)
(* on the door of the one before it.                                           *)
BuiltInPlace == machine = "writers" => Writers!BuiltInPlace /\ Writers!DoorsMeet

(* One spider spawner for each corridor; no chunk decorated twice from one     *)
(* centre.                                                                     *)
DoneOnce == OneSpawner /\ DecoratedOnce

(* What the generator knows of its structures survives being stored. *)
RoundTrip == machine = "codec" => Codec!RoundTrip

(* What is kept in two places agrees: flowing liquid has its tick in the queue  *)
(* that finalize drains, and the extra data holds the plants that top snow      *)
(* covers, and no other unless a liquid washed the snow away.                   *)
PlanesAgree == machine = "finish" => Finish!FlowingIsQueued /\ Finish!CoveredMatchesExtra

(* The light of a finished chunk is the one solution of its equations. *)
LightIsExact == machine = "finish" => Finish!LightIsExact

(* drain_generation_ticks ends though its loop has no bound: the liquids of a  *)
(* chunk come to rest and finalize returns.                                    *)
ChunkIsFinished == Finish!ChunkIsFinished
===============================================================================
