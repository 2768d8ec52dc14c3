------------------------------- MODULE Finalizer -------------------------------
(* Finishing a populated chunk (population_finalizer.rs, population_tick.rs,   *)
(* population_light.rs): springs placed by the decorator schedule liquid       *)
(* ticks, the finalizer wakes the water along the chunk's edge, lays snow,     *)
(* drains every pending tick and then computes the light from scratch.         *)
(* The blocks are one slice, Width by Top, of a cave or a hillside; all around *)
(* it is stone, except for x < 0 and outside 0 .. Top - 1, which lies outside  *)
(* the neighbourhood.  Random draws and the snow noise are choices.            *)
EXTENDS Integers, Sequences, FiniteSetsExt, SequencesExt

CONSTANTS Caves,       \* the block arrangements that decoration may leave
          Width, Top,  \* size of the modelled slice
          EdgeColumns, \* columns <<x, z>> on the perimeter of the centre chunk
          MaxSprings,  \* bound on the springs of one chunk
          Layers       \* snow depths the noise may ask for, -1 where the biome has no snow

VARIABLES stage, blocks, extra, pending, current_tick, instaticking, springs,
          field,       \* the light field being computed, "sky" or "block"
          light, queue, sky_light

liquids == <<blocks, pending, current_tick, instaticking>>
lights  == <<field, light, queue, sky_light>>
vars    == <<stage, extra, springs, liquids, lights>>

--------------------------------------------------------------------------------
(* Blocks and the neighbourhood's accessors. *)
block(id, data) == [id |-> id, data |-> data]
Air       == block("air", 0)
Outside   == block("outside", 0)
Scan      == [i \in 1 .. Width * Top |-> <<(i - 1) % Width, (i - 1) \div Width, 0>>]
Columns   == [i \in 1 .. Width |-> <<i - 1, 0>>]
Cells     == ToSet(Scan)
Offset(p, d) == <<p[1] + d[1], p[2] + d[2], p[3] + d[3]>>
Below(p)  == Offset(p, <<0, -1, 0>>)
Above(p)  == Offset(p, <<0, 1, 0>>)
West      == <<-1, 0, 0>>
East      == <<1, 0, 0>>
North     == <<0, 0, -1>>
South     == <<0, 0, 1>>
Up        == <<0, 1, 0>>
Down      == <<0, -1, 0>>

state(b, p) == IF p \in DOMAIN b THEN b[p]
               ELSE IF p[1] < 0 \/ p[2] \notin 0 .. Top - 1 THEN Outside ELSE block("stone", 0)
block_id(b, p) == LET id == state(b, p).id IN IF id = "outside" THEN "air" ELSE id
set_state(b, p, v) == IF p \in DOMAIN b THEN [b EXCEPT ![p] = v] ELSE b

Flowing   == {"water", "lava"}
Still(id) == IF id = "water" THEN "still_water" ELSE "still_lava"
LiquidOf(id) == IF id \in {"water", "still_water"} THEN "water"
                ELSE IF id \in {"lava", "still_lava"} THEN "lava" ELSE "none"
material_is_solid(id) == id \notin {"air", "water", "still_water", "lava", "still_lava", "grass"}
water_blocking(id)    == material_is_solid(id) /\ id # "snow_layer"
flammable(id)         == id \in {"wood", "grass"}
tick_delay(liquid)    == IF liquid = "water" THEN 5 ELSE 30

--------------------------------------------------------------------------------
(* The tick queue.  Ticks are counted modulo Wrap; the drain starts at the     *)
(* last tick, so that everything scheduled while draining falls due first.     *)
Wrap == 1024

(* A liquid machine is the record of what the liquid code threads along. *)
Machine == [b |-> blocks, q |-> pending, now |-> current_tick, instatic |-> instaticking]
Becomes(s) == /\ blocks' = s.b /\ pending' = s.q
              /\ current_tick' = s.now /\ instaticking' = s.instatic

add(s, p, id, delay) ==
    [s EXCEPT !.q = Append(@, [pos |-> p, id |-> id, due |-> (s.now + delay) % Wrap])]

(* The first entry among those due first, and the queue after swap_remove. *)
take_next(q) ==
    LET best == CHOOSE i \in DOMAIN q :
                    /\ \A j \in DOMAIN q : q[i].due <= q[j].due
                    /\ \A j \in 1 .. i - 1 : q[i].due < q[j].due
    IN  [tick |-> q[best], rest |-> Front([q EXCEPT ![best] = Last(q)])]

--------------------------------------------------------------------------------
(* Liquid rules. *)
liquid_depth(b, p, liquid) == IF LiquidOf(state(b, p).id) = liquid THEN state(b, p).data ELSE -1

(* Lava at p that water touches from its side or from above turns to stone. *)
solidify_lava(b, p, changed) ==
    IF \/ changed[2] < p[2]
       \/ LiquidOf(block_id(b, p)) # "lava"
       \/ LiquidOf(block_id(b, changed)) # "water"
       \/ state(b, p).data > 4
    THEN b
    ELSE set_state(b, p, block(IF state(b, p).data = 0 THEN "obsidian" ELSE "cobblestone", 0))

(* Mutant: the liquid wakes up and is not scheduled. *)
WakeOnly(s, n, p) ==
    LET id == block_id(s.b, n)
        b  == solidify_lava(s.b, n, p)
    IN  IF id \in {"still_water", "still_lava"} /\ block_id(b, n) = id
        THEN [s EXCEPT !.b = set_state(b, n, block(LiquidOf(id), state(b, n).data))]
        ELSE [s EXCEPT !.b = b]

(* One neighbour of a changed block: lava may harden, still liquid wakes up. *)
UpdateNeighbor(s, n, p) ==
    LET id == block_id(s.b, n)
        b  == solidify_lava(s.b, n, p)
        liquid == LiquidOf(id)
    IN  IF id \in {"still_water", "still_lava"} /\ block_id(b, n) = id
        THEN add([s EXCEPT !.b = set_state(b, n, block(liquid, state(b, n).data))],
                 n, liquid, tick_delay(liquid))
        ELSE [s EXCEPT !.b = b]
update_liquid_neighbors(s, p) ==
    FoldLeft(LAMBDA t, d : UpdateNeighbor(t, Offset(p, d), p), s,
             <<West, East, Down, Up, North, South>>)
set_with_liquid_updates(s, p, v) == update_liquid_neighbors([s EXCEPT !.b = set_state(@, p, v)], p)
(* Mutant: coming to rest is announced to the neighbours. *)
set_static_loud(s, p, liquid) ==
    set_with_liquid_updates(s, p, block(Still(liquid), state(s.b, p).data))
set_static(s, p, liquid) == [s EXCEPT !.b = set_state(@, p, block(Still(liquid), state(@, p).data))]

can_spread_to(b, p, liquid) ==
    LET id == state(b, p).id IN
    id # "outside" /\ LiquidOf(id) \notin {liquid, "lava"} /\ ~water_blocking(id)

try_spread_to(s, p, liquid, depth) ==
    IF ~can_spread_to(s.b, p, liquid) THEN s
    ELSE LET t == [s EXCEPT !.b = set_state(@, p, block(liquid, depth))]
         IN  add(IF t.instatic THEN update_liquid_neighbors(t, p) ELSE t, p, liquid, tick_delay(liquid))

(* Distance to the nearest edge the liquid can fall over, 1000 without one. *)
Directions == <<West, East, North, South>>
Opposite(d) == <<-d[1], -d[2], -d[3]>>
RECURSIVE slope_distance(_, _, _, _, _)
slope_distance(b, p, pass, from, liquid) ==
    LET Open(d) == /\ d # Opposite(from)
                   /\ ~water_blocking(block_id(b, Offset(p, d)))
                   /\ LiquidOf(block_id(b, Offset(p, d))) # liquid
        Dist(d) == LET n == Offset(p, d) IN
                   IF ~water_blocking(block_id(b, Below(n))) THEN pass
                   ELSE IF pass < 4 THEN slope_distance(b, n, pass + 1, d, liquid) ELSE 1000
    IN  Min({1000} \cup {Dist(d) : d \in {e \in ToSet(Directions) : Open(e)}})
get_spread(b, p, liquid) ==
    LET Dist(d) == LET n == Offset(p, d) IN
            IF water_blocking(block_id(b, n)) THEN 1000
            ELSE IF LiquidOf(block_id(b, n)) = liquid
                 THEN IF state(b, n).data = 0 THEN 1000 ELSE slope_distance(b, n, 1, d, liquid)
            ELSE IF ~water_blocking(block_id(b, Below(n))) THEN 0
            ELSE slope_distance(b, n, 1, d, liquid)
        lowest == Min({Dist(d) : d \in ToSet(Directions)})
    IN  SelectSeq(Directions, LAMBDA d : Dist(d) = lowest)

(* Lava lights the first free cell beside some flammable block near it, or none. *)
try_spread_fire(b, p) ==
    LET Around(n) == LET free == SelectSeq(<<East, West, Up, Down, South, North>>,
                                           LAMBDA d : block_id(b, Offset(n, d)) = "air")
                     IN  IF free = <<>> THEN {} ELSE {Offset(n, free[1])}
        Near == {Offset(p, <<i, j, k>>) : i \in -1 .. 1, j \in -1 .. 1, k \in -1 .. 1}
    IN  {b} \cup {set_state(b, f, block("fire", 0)) :
                  f \in UNION {Around(n) : n \in {m \in Near : flammable(block_id(b, m))}}}

(* The depth a liquid of positive depth settles at, -1 to dry up. *)
get_highest(b, p, liquid) ==
    LET feeding == {liquid_depth(b, Offset(p, d), liquid) : d \in ToSet(Directions)} \ {-1}
    IN  IF feeding = {} THEN -100 ELSE Min({IF d >= 8 THEN 0 ELSE d : d \in feeding})
NewDepth(b, p, liquid) ==
    LET drop_off  == IF liquid = "lava" THEN 2 ELSE 1
        highest   == get_highest(b, p, liquid)
        above     == liquid_depth(b, Above(p), liquid)
        max_count == Cardinality({d \in ToSet(Directions) : liquid_depth(b, Offset(p, d), liquid) = 0})
    IN  IF /\ max_count >= 2 /\ liquid = "water"
           /\ material_is_solid(block_id(b, Below(p))) \/ liquid_depth(b, Below(p), liquid) = 0
        THEN 0
        ELSE IF above >= 0 THEN IF above >= 8 THEN above ELSE above + 8
        ELSE IF highest < 0 \/ highest + drop_off >= 8 THEN -1 ELSE highest + drop_off

Settle(s, p, liquid, slow) ==
    LET depth == state(s.b, p).data
        new   == NewDepth(s.b, p, liquid)
        delay == IF liquid = "lava" /\ depth < 8 /\ new < 8 /\ new > depth /\ slow
                 THEN 4 * tick_delay(liquid) ELSE tick_delay(liquid)
    IN  IF depth = 0 \/ new = depth THEN set_static(s, p, liquid)
        ELSE IF new < 0 THEN set_with_liquid_updates(s, p, Air)
        ELSE add(set_with_liquid_updates(s, p, block(liquid, new)), p, liquid, delay)

Flow(s, p, liquid, depth) ==
    LET below == Below(p)
        drop  == IF depth >= 8 THEN depth ELSE depth + 8
        next  == IF depth >= 8 THEN 1 ELSE depth + IF liquid = "lava" THEN 2 ELSE 1
    IN  IF can_spread_to(s.b, below, liquid)
        THEN IF liquid = "lava" /\ LiquidOf(block_id(s.b, below)) = "water"
             THEN set_with_liquid_updates(s, below, block("stone", 0))
             ELSE try_spread_to(s, below, liquid, drop)
        ELSE IF depth >= 0 /\ (depth = 0 \/ water_blocking(block_id(s.b, below))) /\ next < 8
        THEN FoldLeft(LAMBDA t, d : try_spread_to(t, Offset(p, d), liquid, next), s,
                      get_spread(s.b, p, liquid))
        ELSE s

(* The results of one tick of flowing liquid at p. *)
tick_dynamic_liquid(s, p, liquid) ==
    IF state(s.b, p).id # liquid THEN {s}
    ELSE {LET depth == state(b, p).data
              t     == [s EXCEPT !.b = b]
          IN  Flow(Settle(t, p, liquid, slow), p, liquid,
                   IF depth = 0 THEN 0 ELSE NewDepth(b, p, liquid)) :
             b \in IF liquid = "lava" THEN try_spread_fire(s.b, p) ELSE {s.b}, slow \in BOOLEAN}

on_liquid_placed(s, p) ==
    LET Harden(b, d) == IF LiquidOf(block_id(b, p)) # "lava" THEN b ELSE solidify_lava(b, p, Offset(p, d))
        b  == FoldLeft(Harden, s.b, <<South, North, East, West, Up>>)
        t  == [s EXCEPT !.b = b]
        id == block_id(b, p)
    IN  update_liquid_neighbors(IF id \in Flowing THEN add(t, p, id, tick_delay(id)) ELSE t, p)

--------------------------------------------------------------------------------
(* Snow.  A snow layer keeps the covered bit (8) and its height less one. *)
Covered(v)     == v.id = "snow_layer" /\ v.data >= 8
recoverable(id) == id = "grass"
NoExtra        == block("none", 0)
TopRainY(b, c) ==
    LET solid == {y \in 1 .. Top - 1 : LET id == block_id(b, <<c[1], y, c[2]>>)
                                       IN  material_is_solid(id) \/ LiquidOf(id) # "none"}
    IN  IF solid = {} THEN -1 ELSE Max(solid) + 1
block_solid_flag(id) == material_is_solid(id) /\ id \notin {"fire", "snow_layer"}
can_place_generation_top_snow(b, p) ==
    LET here == state(b, p)  below == state(b, Below(p)) IN
    /\ p[2] \in 0 .. Top - 1
    /\ \/ here.id = "snow_layer"
       \/ /\ here.id = "air" \/ recoverable(here.id)
          /\ IF below.id = "snow_layer" THEN below.data % 8 = 7
             ELSE below.id # "ice" /\ block_solid_flag(below.id)

top_snow_data(v, height) ==
    IF v.id = "snow_layer" THEN (v.data \div 8) * 8 + height - 1
    ELSE height - 1 + IF recoverable(v.id) THEN 8 ELSE 0

(* Mutant: the extra data of a layer that goes is kept. *)
keep_extra(e, P) == e

(* set_extra_data with zero, wherever a layer becomes a snow block or air. *)
without_extra(e, P) == [p \in DOMAIN e |-> IF p \in P THEN NoExtra ELSE e[p]]

(* Rebuilds the snow above p to the given depth: s holds blocks and extra data. *)
rebuild_top_snow_to_depth(s, p, depth) ==
    LET At(y)  == <<p[1], y, p[3]>>
        top    == Min({Top} \cup {y \in p[2] .. Top - 1 : block_id(s.b, At(y)) = "air"})
        first  == Max({-1} \cup {y \in 0 .. top - 1 : block_id(s.b, At(y)) \notin {"snow_layer", "snow"}})
        bottom == IF first >= 0 /\ ~recoverable(block_id(s.b, At(first))) THEN first + 1 ELSE first
        full   == Cardinality({y \in first + 1 .. top - 1 : block_id(s.b, At(y)) = "snow"})
        Height(y) == Max({0, Min({8, depth - 8 * (y - bottom - full)})})
        Full   == bottom .. Min({bottom + full, Top}) - 1
        Layer  == {y \in bottom + full .. Top - 1 : Height(y) > 0}
        Bare   == {y \in bottom + full .. top - 1 : Height(y) = 0}
        Old(y) == state(s.b, At(y))
        Keep(y) == IF recoverable(Old(y).id) THEN Old(y) ELSE s.e[At(y)]
        Rewrite(f, S, g(_)) == FoldSet(LAMBDA y, h : set_state(h, At(y), g(y)), f, S)
    IN  [b |-> Rewrite(Rewrite(Rewrite(s.b, Full, LAMBDA y : block("snow", 0)),
                               Layer, LAMBDA y : block("snow_layer", top_snow_data(Old(y), Height(y)))),
                       Bare, LAMBDA y : Air),
         e |-> without_extra(Rewrite(s.e, Layer, Keep), {At(y) : y \in Full \cup Bare})]

--------------------------------------------------------------------------------
(* Light. *)
target_light_block(id) ==
    CASE id \in {"water", "still_water", "ice"} -> 3
      [] id \in {"air", "grass", "fire", "snow_layer"} -> 0
      [] OTHER -> 15
target_light_emission(id) == IF id \in {"lava", "still_lava", "fire"} THEN 15 ELSE 0
NeighborhoodHeight(c) ==
    Max({0} \cup {y + 1 : y \in {z \in 0 .. Top - 1 :
                                  target_light_block(block_id(blocks, <<c[1], z, c[2]>>)) # 0}})
light_neighbors(p) ==
    SelectSeq([i \in 1 .. 6 |-> Offset(p, <<West, East, Down, Up, North, South>>[i])],
              LAMBDA n : n \in Cells)
Seed(f) == [p \in Cells |->
    IF f = "sky" THEN IF p[2] >= NeighborhoodHeight(<<p[1], p[3]>>) THEN 15 ELSE 0
    ELSE target_light_emission(block_id(blocks, p))]
Sources(f) == SelectSeq(Scan, LAMBDA p : Seed(f)[p] > 0)

--------------------------------------------------------------------------------
Init ==
    /\ stage = "decorate"
    /\ blocks \in Caves
    /\ extra = [p \in DOMAIN blocks |-> IF Covered(blocks[p]) THEN block("grass", 0) ELSE NoExtra]
    /\ pending = <<>> /\ current_tick = 1 /\ instaticking = FALSE
    /\ springs = 0
    /\ field = "none" /\ light = <<>> /\ queue = <<>> /\ sky_light = <<>>

place_spring(p, liquid) ==
    LET Count(id) == Cardinality({d \in ToSet(Directions) : block_id(blocks, Offset(p, d)) = id}) IN
    /\ stage = "decorate" /\ springs < MaxSprings
    /\ block_id(blocks, Above(p)) = "stone" /\ block_id(blocks, Below(p)) = "stone"
    /\ block_id(blocks, p) \in {"air", "stone"}
    /\ Count("stone") = 3 /\ Count("air") = 1
    /\ \E s \in tick_dynamic_liquid(
                  on_liquid_placed([Machine EXCEPT !.b = set_state(@, p, block(liquid, 0))], p), p, liquid) :
           Becomes(s)
    /\ springs' = springs + 1
    /\ UNCHANGED <<stage, extra, lights>>

(* The lowest block of each run of still water in an edge column wakes up. *)
fix_water_along_edges ==
    LET Wakes(p) == /\ <<p[1], p[3]>> \in EdgeColumns
                    /\ block_id(blocks, p) = "still_water"
                    /\ block_id(blocks, Below(p)) # "still_water"
        Wake(s, p) == add([s EXCEPT !.b = set_state(@, p, block("water", 0))], p, "water", 1)
    IN  /\ stage = "decorate"
        /\ Becomes(FoldLeft(Wake, Machine, SelectSeq(Scan, Wakes)))
        /\ stage' = "seasons"
        /\ UNCHANGED <<extra, springs, lights>>

apply_generation_seasons ==
    /\ stage = "seasons"
    /\ \E depth \in [ToSet(Columns) -> Layers] :
           LET Snow(s, c) == LET p == <<c[1], TopRainY(s.b, c), c[2]>> IN
                             IF depth[c] >= 0 /\ can_place_generation_top_snow(s.b, p)
                             THEN rebuild_top_snow_to_depth(s, p, depth[c]) ELSE s
               s == FoldLeft(Snow, [b |-> blocks, e |-> extra], Columns)
           IN  blocks' = s.b /\ extra' = s.e
    /\ stage' = "snowed"
    /\ UNCHANGED <<pending, current_tick, instaticking, springs, lights>>

StartDrain ==
    /\ stage = "snowed"
    /\ stage' = "drain" /\ current_tick' = Wrap - 1 /\ instaticking' = TRUE
    /\ UNCHANGED <<blocks, extra, pending, springs, lights>>

(* One pending tick; a tick whose block is gone is dropped. *)
drain_generation_ticks ==
    /\ stage = "drain" /\ pending # <<>>
    /\ LET next == take_next(pending)
           s    == [Machine EXCEPT !.q = next.rest]
       IN  IF block_id(blocks, next.tick.pos) # next.tick.id THEN Becomes(s)
           ELSE \E t \in tick_dynamic_liquid(s, next.tick.pos, next.tick.id) : Becomes(t)
    /\ UNCHANGED <<stage, extra, springs, lights>>

StartLight(f) ==
    /\ field' = f /\ light' = Seed(f) /\ queue' = Sources(f)
DrainDone ==
    /\ stage = "drain" /\ pending = <<>>
    /\ stage' = "light" /\ instaticking' = FALSE
    /\ StartLight("sky")
    /\ UNCHANGED <<blocks, extra, pending, current_tick, springs, sky_light>>

(* Mutant: a cell that is lit already is not lit again. *)
LightOnce(s, n, source) ==
    LET candidate == source - Max({1, target_light_block(block_id(blocks, n))})
    IN  IF candidate > 0 /\ s.light[n] = 0
        THEN [light |-> [s.light EXCEPT ![n] = candidate], queue |-> Append(s.queue, n)]
        ELSE s

(* One entry of the light queue; a neighbour that gets brighter joins it. *)
Brighten(s, n, source) ==
    LET attenuation == Max({1, target_light_block(block_id(blocks, n))})
        candidate   == source - attenuation
    IN  IF candidate > s.light[n]
        THEN [light |-> [s.light EXCEPT ![n] = candidate], queue |-> Append(s.queue, n)]
        ELSE s
propagate ==
    /\ stage = "light" /\ queue # <<>>
    /\ LET p == Head(queue)
           s == FoldLeft(LAMBDA t, n : Brighten(t, n, light[p]),
                         [light |-> light, queue |-> Tail(queue)], light_neighbors(p))
       IN  light' = s.light /\ queue' = s.queue
    /\ UNCHANGED <<stage, extra, springs, liquids, field, sky_light>>
propagate_block_light ==
    /\ stage = "light" /\ queue = <<>> /\ field = "sky"
    /\ sky_light' = light
    /\ StartLight("block")
    /\ UNCHANGED <<stage, extra, springs, liquids>>
finalize_center_lighting ==
    /\ stage = "light" /\ queue = <<>> /\ field = "block"
    /\ stage' = "done"
    /\ UNCHANGED <<extra, springs, liquids, lights>>

Finalize == fix_water_along_edges \/ apply_generation_seasons \/ StartDrain
            \/ drain_generation_ticks \/ DrainDone \/ propagate \/ propagate_block_light \/ finalize_center_lighting
Next == \/ \E p \in Cells, liquid \in Flowing : place_spring(p, liquid)
        \/ Finalize

(* finalize runs to its end once called: weak fairness of Finalize, written    *)
(* out because Finalize is enabled exactly until the chunk is done.            *)
Fairness == []<>(stage = "done") \/ []<><<Finalize>>_vars

Spec == Init /\ [][Next]_vars /\ Fairness

--------------------------------------------------------------------------------
(* A flowing block always has its own tick in the queue, so the drain leaves   *)
(* none of it frozen in motion: every write of a flowing liquid schedules it,  *)
(* and the ticks that take_next drops are those whose block changed.           *)
FlowingIsQueued ==
    \A p \in Cells : blocks[p].id \in Flowing =>
        \E i \in DOMAIN pending : pending[i].pos = p /\ pending[i].id = blocks[p].id

(* The drain loop has no bound of its own: liquids that wake each other, dry   *)
(* up or harden must come to rest before the chunk can be finished.            *)
ChunkIsFinished == <>(stage = "done")

(* What a block is once liquid has run into it: dried up, hardened or burnt    *)
(* over, or liquid still.                                                      *)
Overrun(id) == id \in {"air", "water", "still_water", "lava", "still_lava",
                       "stone", "obsidian", "cobblestone", "fire"}

(* A snow layer that covers a plant has the plant in the extra data, and a     *)
(* plant in the extra data lies under such a layer, also where a chunk that    *)
(* was finished before gets more or less snow.  Once liquids move it may       *)
(* outlive its layer, but only where a liquid has washed the layer away.       *)
CoveredMatchesExtra ==
    \A p \in Cells :
        /\ Covered(blocks[p]) => recoverable(extra[p].id)
        /\ recoverable(extra[p].id) =>
              \/ Covered(blocks[p])
              \/ stage \in {"drain", "light", "done"} /\ Overrun(blocks[p].id)

(* In a finished chunk every cell is exactly as bright as its own source or    *)
(* its brightest neighbour less what the cell absorbs, whatever the order of   *)
(* the queue.  A cell absorbs at least one level, so these equations have one  *)
(* solution: the light that arrives along the best path.                       *)
Balanced(f, lit) ==
    \A p \in Cells :
        lit[p] = Max({Seed(f)[p]} \cup {lit[q] - Max({1, target_light_block(block_id(blocks, p))}) :
                                         q \in ToSet(light_neighbors(p))})
LightIsExact == stage = "done" => Balanced("sky", sky_light) /\ Balanced("block", light)
================================================================================
