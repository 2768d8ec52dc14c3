----------------------------- MODULE InfiniteWorld -----------------------------
(* Generating the overworld (native/world/src/infinite.rs, structure) and      *)
(* keeping the result (native/extension/src/world/infinite.rs, storage.rs).    *)
(* A chunk is generated, and later populated as the centre of nine generated   *)
(* chunks; a structure is found while a chunk near its source is generated and *)
(* is built slice by slice, whenever a chunk it meets is populated.  What the  *)
(* generator knows of its structures is saved apart from the chunks, and later.*)
(* Terrain is abstracted to a ground height for each chunk, a structure to one *)
(* piece.  Saving and evicting single chunks is Persistence's subject: here    *)
(* they go in batches.                                                         *)
EXTENDS StructureBounds, SequencesExt, Bitwise

CONSTANTS Targets,  \* chunks that players ask for
          Plans,    \* structures: family, source chunk, bounds
          Ground,   \* the ground height of a chunk
          Wet,      \* chunks with water at the edge of the mineshafts
          Lucky     \* sets of chunks where a spawner's draw may succeed

VARIABLES mem,      \* resident chunks
          gen,      \* OverworldInfiniteState
          dirty,    \* runtime.dirty: gen differs from its file
          disk,     \* stored chunks
          sidecar,  \* the stored generator state
          twice     \* chunks decorated twice by one centre

vars == <<mem, gen, dirty, disk, sidecar, twice>>

Offsets3x3 == [i \in 1 .. 9 |-> <<((i - 1) % 3) - 1, ((i - 1) \div 3) - 1>>]
neighborhood(c) == [i \in 1 .. 9 |-> <<c[1] + Offsets3x3[i][1], c[2] + Offsets3x3[i][2]>>]
Nine(c) == {neighborhood(c)[i] : i \in 1 .. 9}
Chunks == UNION {Nine(t) : t \in Targets}

Families == {"village", "mineshaft", "stronghold", "scattered"}
Starts   == {p \in Plans : p.family \in Families}

(* A chunk: GENERATED, or populated as well (FULL_LIFECYCLE); the slices and   *)
(* spawners built in it, and the centres whose population reached it.          *)
Absent == [lifecycle |-> "absent", built |-> {}, spawners |-> {}, reached |-> {}]
Fresh  == [Absent EXCEPT !.lifecycle = "generated"]
FULL_LIFECYCLE == "full"

EmptyState == [known |-> {}, height |-> [s \in Starts |-> -1], removed |-> {},
               has_placed_spider |-> {}, generated_chunk_positions |-> [s \in Starts |-> {}]]

Init ==
    /\ mem = [c \in Chunks |-> Absent] /\ disk = [c \in Chunks |-> Absent]
    /\ gen = EmptyState /\ sidecar = EmptyState
    /\ dirty = FALSE /\ twice = {}

--------------------------------------------------------------------------------
(* The 32-bit hash, of which 16 bits tell nearby chunks apart as all 32 do. *)
chunk_hash(c) == ((c[1] * 7967) % 65536) ^^ (c[2] % 65536)

Square(c, side) == Box(16 * c[1], 0, 16 * c[2], 16 * c[1] + side, 0, 16 * c[2] + side)
(* Mutant: only the corner of the chunk is looked at. *)
post_process_corner(g, s, c) ==
    intersects_xz(s.bounds, Square(c, 0)) /\ chunk_hash(c) \notin g.generated_chunk_positions[s]

(* One block wider than the chunk. *)
should_post_process(g, s, c) ==
    /\ intersects_xz(s.bounds, Square(c, IF s.family = "scattered" THEN 15 ELSE 16))
    /\ chunk_hash(c) \notin g.generated_chunk_positions[s]

(* apply, of each family: the structures whose source lies near. *)
Near(s, c, radius) == /\ s.source[1] - c[1] \in -radius .. radius
                      /\ s.source[2] - c[2] \in -radius .. radius
village_apply(c)    == {s \in Starts : s.family = "village" /\ Near(s, c, 4)}
mineshaft_apply(c)  == {s \in Starts : s.family = "mineshaft" /\ Near(s, c, 8)}
stronghold_apply(c) == {s \in Starts : s.family = "stronghold" /\ Near(s, c, 8)}
scattered_apply(c)  == {s \in Starts : s.family = "scattered" /\ Near(s, c, 8)}
Sources(c)  == village_apply(c) \cup mineshaft_apply(c) \cup stronghold_apply(c) \cup scattered_apply(c)
apply(g, c) == [g EXCEPT !.known = @ \cup Sources(c)]

(* process_start for every structure known.  A village house, a jungle temple  *)
(* and a hut settle on the ground of the first chunk; a mineshaft that meets   *)
(* water there is given up; a spider spawner is placed once, in a chunk where  *)
(* the draw falls.                                                             *)
Meets(s, c)    == intersects_xz(s.bounds, Square(c, 15))
Due(g, c)      == {s \in g.known : should_post_process(g, s, c)}
Flooded(g, c)  == {s \in Due(g, c) : s.family = "mineshaft" /\ Meets(s, c) /\ c \in Wet}
BuiltNow(g, c) == {s \in Due(g, c) : Meets(s, c)} \ (Flooded(g, c) \cup g.removed)
HeightAt(g, s, c) ==
    CASE s.family \notin {"village", "scattered"} -> 0
      [] g.height[s] >= 0 -> g.height[s]
      [] OTHER -> Ground[c]
SpawnersNow(g, c, lucky) ==
    {s \in BuiltNow(g, c) \ g.has_placed_spider : s.family = "mineshaft" /\ c \in lucky}

process_starts(g, c, lucky) ==
    [g EXCEPT
        !.generated_chunk_positions =
            [s \in Starts |-> IF s \in Due(g, c) THEN @[s] \cup {chunk_hash(c)} ELSE @[s]],
        !.removed = @ \cup Flooded(g, c),
        !.height = [s \in Starts |-> IF s \in BuiltNow(g, c) THEN HeightAt(g, s, c) ELSE @[s]],
        !.has_placed_spider = @ \cup SpawnersNow(g, c, lucky)]

(* Population of centre c: it reaches all nine chunks and completes c. *)
try_post_process_center(w, c, lucky) ==
    IF \/ c \notin Chunks \/ ~(Nine(c) \subseteq Chunks)
       \/ w.mem[c].lifecycle # "generated"
       \/ \E d \in Nine(c) : w.mem[d].lifecycle = "absent"
    THEN w
    ELSE [mem |-> [d \in Chunks |->
                     IF d = c
                     THEN [lifecycle |-> FULL_LIFECYCLE,
                           built |-> w.mem[c].built \cup
                                     {<<s, HeightAt(w.gen, s, c)>> : s \in BuiltNow(w.gen, c)},
                           spawners |-> w.mem[c].spawners \cup SpawnersNow(w.gen, c, lucky),
                           reached |-> w.mem[c].reached \cup {c}]
                     ELSE IF d \in Nine(c) THEN [w.mem[d] EXCEPT !.reached = @ \cup {c}]
                     ELSE w.mem[d]],
          gen |-> process_starts(w.gen, c, lucky),
          twice |-> w.twice \cup {d \in Nine(c) : c \in w.mem[d].reached}]

(* The centre, then its eight neighbours. *)
post_process_area(w, c, lucky) ==
    LET order == <<c>> \o SelectSeq(neighborhood(c), LAMBDA d : d # c)
    IN  FoldLeft(LAMBDA v, d : try_post_process_center(v, d, lucky), w, order)

ensure_generated_chunk(w, c, lucky) ==
    IF w.mem[c].lifecycle # "absent" THEN w
    ELSE post_process_area([w EXCEPT !.mem[c] = Fresh, !.gen = apply(w.gen, c)], c, lucky)

generate_into_store(w, t, lucky) ==
    IF w.mem[t].lifecycle = FULL_LIFECYCLE THEN w
    ELSE post_process_area(
           FoldLeft(LAMBDA v, d : ensure_generated_chunk(v, d, lucky), w, neighborhood(t)), t, lucky)

--------------------------------------------------------------------------------
Modified(c) == mem[c] # Absent /\ mem[c] # disk[c]

(* prepare_generation_neighborhood: a stored chunk that is not resident is     *)
(* loaded, and generation waits for it.                                        *)
(* Mutant: only the chunk asked for is loaded. *)
CentreNotLoaded(t) == {c \in {t} : mem[c] = Absent /\ disk[c] # Absent}
NotLoaded(t) == {c \in Nine(t) : mem[c] = Absent /\ disk[c] # Absent}
prepare_generation_neighborhood(t) ==
    /\ NotLoaded(t) # {}
    /\ mem' = [c \in Chunks |-> IF c \in NotLoaded(t) THEN disk[c] ELSE mem[c]]
    /\ UNCHANGED <<gen, dirty, disk, sidecar, twice>>

generate_infinite(t) ==
    /\ NotLoaded(t) = {}
    /\ mem[t].lifecycle # FULL_LIFECYCLE
    /\ \E lucky \in Lucky :
         LET w == generate_into_store([mem |-> mem, gen |-> gen, twice |-> twice], t, lucky) IN
         /\ mem' = w.mem /\ gen' = w.gen /\ twice' = w.twice
         /\ dirty' = (dirty \/ w.mem[t].lifecycle = FULL_LIFECYCLE)
    /\ UNCHANGED <<disk, sidecar>>

save_chunks ==
    /\ \E c \in Chunks : Modified(c)
    /\ disk' = [c \in Chunks |-> IF Modified(c) THEN mem[c] ELSE disk[c]]
    /\ UNCHANGED <<mem, gen, dirty, sidecar, twice>>

evict(t) ==
    /\ \A c \in Nine(t) : ~Modified(c)
    /\ \E c \in Nine(t) : mem[c] # Absent
    /\ mem' = [c \in Chunks |-> IF c \in Nine(t) THEN Absent ELSE mem[c]]
    /\ UNCHANGED <<gen, dirty, disk, sidecar, twice>>

(* Mutant: the ground height is left out as well. *)
encode_flat(g) == [g EXCEPT !.generated_chunk_positions = [s \in Starts |-> {}],
                            !.height = [s \in Starts |-> -1]]

(* encode leaves generated_chunk_positions out. *)
encode(g) == [g EXCEPT !.generated_chunk_positions = [s \in Starts |-> {}]]

(* Only when no chunk is waiting to be saved. *)
persist_generator_state_if_safe ==
    /\ dirty /\ \A c \in Chunks : ~Modified(c)
    /\ sidecar' = encode(gen) /\ dirty' = FALSE
    /\ UNCHANGED <<mem, gen, disk, twice>>

restore_persistent ==
    /\ mem' = [c \in Chunks |-> Absent]
    /\ gen' = sidecar /\ dirty' = FALSE
    /\ UNCHANGED <<disk, sidecar, twice>>

(* Closing and opening the world: a close saves everything first. *)
Reopen == mem # [c \in Chunks |-> Absent] /\ (\A c \in Chunks : ~Modified(c)) /\ ~dirty /\ restore_persistent
Crash  == mem # [c \in Chunks |-> Absent] /\ restore_persistent

Next ==
    \/ \E t \in Targets : prepare_generation_neighborhood(t) \/ generate_infinite(t) \/ evict(t)
    \/ save_chunks \/ persist_generator_state_if_safe \/ Reopen

Spec      == Init /\ [][Next]_vars
CrashSpec == Init /\ [][Next \/ Crash]_vars

--------------------------------------------------------------------------------
(* What the world holds: memory, and disk behind it. *)
World(c) == IF mem[c] # Absent THEN mem[c] ELSE disk[c]

(* The slices of one building stand at one height, though each is built when   *)
(* its own chunk happens to be populated and the height comes from whichever   *)
(* was first, perhaps before the world was last closed.                        *)
SlicesAlign ==
    LET slices == UNION {World(c).built : c \in Chunks}
    IN  \A x, y \in slices : x[1] = y[1] => x[2] = y[2]

(* A mineshaft corridor has one spider spawner, however many chunks, sessions  *)
(* and draws it takes to build it.                                             *)
OneSpawner ==
    \A s \in UNION {World(c).spawners : c \in Chunks} :
        Cardinality({c \in Chunks : s \in World(c).spawners}) = 1

(* No centre decorates a chunk twice: a stored chunk is never taken for one    *)
(* still to be generated, and populated centres stay populated.                *)
DecoratedOnce == twice = {}

(* No slice is left out: a populated chunk near enough to a structure's source *)
(* holds its part of it, unless water ended the mineshaft or a chunk of the    *)
(* same hash was populated too.                                                *)
SlicesBuilt ==
    \A t \in Targets : \A s \in Starts :
        World(t).lifecycle = FULL_LIFECYCLE /\ Meets(s, t) /\ s \in Sources(t) =>
            \/ \E x \in World(t).built : x[1] = s
            \/ s \in gen.removed
            \/ \E c \in Chunks \ {t} : chunk_hash(c) = chunk_hash(t) /\ World(c).lifecycle = FULL_LIFECYCLE
================================================================================
