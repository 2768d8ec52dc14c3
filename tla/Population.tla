------------------------------ MODULE Population ------------------------------
(* Populating one finished terrain chunk (native/world/src/population*.rs).    *)
(* Every feature writes through PopulationNeighborhood, which holds the chunk  *)
(* and its eight neighbours: a write outside is dropped without a trace        *)
(* (set_state returns false and the features ignore it).  The model keeps, for *)
(* each feature, where the decorator may start it and which columns it may     *)
(* write around its start; random draws are choices.  Block kinds, heights and *)
(* the free-space tests are left out: they only make a feature write less.     *)
EXTENDS Integers

CONSTANTS Biomes,   \* target biome ids of the centre chunk, column (15, 15)
          Skews     \* chunk z - chunk x, in chunks

VARIABLES stage,    \* what populates next, "idle" before a chunk is chosen
          biome, skew,
          swapped,  \* the last feature was started at swapped coordinates
          clipped   \* the columns that feature lost

vars == <<stage, biome, skew, swapped, clipped>>

--------------------------------------------------------------------------------
(* Sets of columns, relative to the start of a feature. *)
Here           == <<0, 0>>
Range2(a, b)   == (a .. b) \X (a .. b)
Square(r)      == Range2(-r, r)
Disk(r)        == {c \in Square(r) : c[1] * c[1] + c[2] * c[2] <= r * r}
Corners(a, b)  == {a, b} \X {a, b}
Plus(c, d)     == <<c[1] + d[1], c[2] + d[2]>>
Times(n, d)    == <<n * d[1], n * d[2]>>
Sum2(S, T)     == {Plus(s, t) : s \in S, t \in T}
Sides          == {<<0, 1>>, <<-1, 0>>, <<0, -1>>, <<1, 0>>}
(* Rust divides toward zero. *)
Trunc(n, d)    == IF n >= 0 THEN n \div d ELSE -((-n) \div d)

--------------------------------------------------------------------------------
(* Ground features (population_feature.rs). *)
place_sand_disk(max_radius) == UNION {Disk(r) : r \in 2 .. max_radius - 1}
place_clay_disk             == UNION {Disk(r) : r \in 2 .. 3}
place_ice_patch             == UNION {Disk(r) : r \in 2 .. 3}
(* The spring, the side it spreads to at once and, for lava, the fire it may   *)
(* light beside a flammable neighbour.                                         *)
place_spring                == {Here} \cup Sides \cup Sum2(Square(1), Sides)
next_gaussian_int(bound)    == Square(bound - 1)
place_flower_patch          == next_gaussian_int(8)
place_tall_grass(radius)    == next_gaussian_int(radius)
place_double_plant          == next_gaussian_int(8)
place_dead_bush             == next_gaussian_int(8)
place_reeds                 == next_gaussian_int(8)
place_cactus                == next_gaussian_int(8)
place_waterlily             == next_gaussian_int(8)
place_pumpkin               == next_gaussian_int(8)
place_melon                 == next_gaussian_int(8)
place_vines                 == next_gaussian_int(4)
place_desert_well           == Square(2)
(* Three blobs, each displaced from the one before it. *)
place_block_blob(start_radius) ==
    LET Drift == Range2(-(start_radius + 1), start_radius)
        Blob  == Square(start_radius + 1)
    IN  Blob \cup Sum2(Blob, Drift) \cup Sum2(Sum2(Blob, Drift), Drift)
(* The cone is widest at its foot; widths are in quarters of a block. *)
place_ice_spike ==
    LET Abs(i)  == IF i < 0 THEN -i ELSE i
        Q(i)    == (4 * Abs(i) - 1) * (4 * Abs(i) - 1)
        Cone(w) == {c \in Square(w) : c = Here \/ Q(c[1]) + Q(c[2]) <= 16 * w * w}
        Widths  == {height \div 4 + extra : height \in 7 .. 10, extra \in 0 .. 1}
    IN  UNION {Cone(w) \cup (IF w > 1 THEN Square(1) ELSE {Here}) : w \in Widths}
place_huge_mushroom ==
    LET Brown == Square(3) \ Corners(-3, 3)
        Red   == (Square(2) \ Corners(-2, 2)) \cup Square(1)
    IN  Brown \cup Red

--------------------------------------------------------------------------------
(* Trees (population_tree.rs). *)
place_fallen_trunk(height) ==
    {Times(distance + n, d) : distance \in 2 .. 3, n \in 0 .. height - 3, d \in Sides}
place_trunk(height) == {Here} \cup Sides \cup place_fallen_trunk(height)
(* add_hanging_vine and add_jungle_leaf_vines hang beside any leaf in reach. *)
Vines(r) == Sum2(Square(r), Sides)
Canopy(r0) == UNION {Square(r0 - Trunc(yo, 2)) : yo \in -3 .. 0}
place_standard_tree(Heights, jungle) ==
    Canopy(1) \cup UNION {place_trunk(h) : h \in Heights}
              \cup (IF jungle THEN UNION {Vines(2 - Trunc(yo, 2)) : yo \in -3 .. 0} ELSE {})
(* Row by row from the top: the radius grows to max_radius, then starts over. *)
place_spruce ==
    LET Row(leaf_radius, start) ==
          LET row[n \in 0 .. 8] ==
                IF n = 0 THEN [cur |-> start, max |-> 1, min |-> 0]
                ELSE LET r == row[n - 1] IN
                     IF r.cur >= r.max
                     THEN [cur |-> r.min, min |-> 1,
                           max |-> IF r.max + 1 > leaf_radius THEN leaf_radius ELSE r.max + 1]
                     ELSE [r EXCEPT !.cur = @ + 1]
          IN row
        Radii == {Row(leaf, start)[n].cur : leaf \in 2 .. 3, start \in 0 .. 1, n \in 0 .. 8}
    IN  UNION {place_trunk(h - less) : h \in 6 .. 9, less \in 0 .. 2}
        \cup UNION {Square(r) \ (IF r > 0 THEN Corners(-r, r) ELSE {}) : r \in Radii}
place_pine ==
    LET Row(top_height, top_radius) ==
          LET row[n \in 0 .. top_height] ==
                IF n = 0 THEN 0
                ELSE LET r == row[n - 1] IN
                     IF r >= 1 /\ n - 1 = top_height - 1 THEN r - 1
                     ELSE IF r < top_radius THEN r + 1 ELSE r
          IN row
        Radii == UNION {{Row(top, 1 + extra)[n] : n \in 0 .. top, extra \in 0 .. top} : top \in 3 .. 4}
    IN  UNION {Square(r) \ (IF r > 0 THEN Corners(-r, r) ELSE {}) : r \in Radii}
place_ground_bush == UNION {Square(2 - yo) : yo \in 0 .. 2}
place_swamp       == Canopy(2) \cup UNION {Vines(2 - Trunc(yo, 2)) : yo \in -3 .. 0}
(* The trunk leans up to three columns one way, a branch up to three another. *)
place_savanna ==
    LET Lean  == {Times(n, d) : n \in 0 .. 3, d \in Sides}
        Crown == Sum2(Lean, Square(3) \ Corners(-3, 3))
        Bough == Sum2(Lean, Square(2) \ Corners(-2, 2))
    IN  Crown \cup Bough
(* A trunk of two by two columns that leans up to two. *)
place_roofed ==
    LET Lean   == {Times(n, d) : n \in 0 .. 2, d \in Sides}
        Stem   == Range2(-1, 2)
        Roof   == {c \in Range2(-3, 4) : c[1] \in -2 .. 2 \/ c[2] \in -2 .. 2}
        Boughs == Sum2(Range2(-1, 2), Square(2) \ Corners(-2, 2))
    IN  Stem \cup Sum2(Lean, Roof \cup Boughs)
mega_leaf_double(radius) ==
    {c \in Range2(-radius, radius + 1) :
        \E dx \in {c[1], c[1] - 1}, dz \in {c[2], c[2] - 1} : dx * dx + dz * dz <= radius * radius}
mega_leaf_single(radius) == Disk(radius)
place_mega_pine(Crowns) ==
    LET Radius(crown, yo) == (7 * yo) \div (2 * crown)
        Extra(crown, yo)  == IF yo \in 1 .. crown - 1 /\ Radius(crown, yo) = Radius(crown, yo + 1)
                             THEN {0, 1} ELSE {0}
        Radii == UNION {{Radius(crown, yo) + e : e \in Extra(crown, yo)} :
                          <<crown, yo>> \in {p \in Crowns \X (0 .. 17) : p[2] <= p[1]}}
    IN  Range2(0, 1) \cup UNION {mega_leaf_double(r) : r \in Radii}
(* Branches of five steps at any angle, each with a tuft at its end. *)
place_mega_jungle ==
    LET Step(s) == Range2(Trunc(3 - 2 * s, 2), Trunc(3 + 2 * s, 2))
    IN  UNION {mega_leaf_double(3 - dy) : dy \in -2 .. 0}
        \cup UNION {Step(s) : s \in 0 .. 4}
        \cup Sum2(Step(4), UNION {mega_leaf_single(r) : r \in 1 .. 3})
        \cup (Range2(-1, 2) \ Corners(-1, 2))
(* Clusters up to 1.328 * height / 4 from the trunk, in thousandths. *)
place_fancy_tree ==
    LET Cluster(h) == Range2(Trunc(500 - 332 * h, 1000), Trunc(500 + 332 * h, 1000))
        Leaves     == {c \in Square(3) : LET Q(i) == (2 * (IF i < 0 THEN -i ELSE i) + 1)
                                         IN  Q(c[1]) * Q(c[1]) + Q(c[2]) * Q(c[2]) <= 36}
    IN  UNION {Sum2(Cluster(h), Leaves) : h \in 5 .. 16}

place_tree ==
    [Oak        |-> place_standard_tree(4 .. 6, FALSE),
     Birch      |-> place_standard_tree(5 .. 7, FALSE),
     SuperBirch |-> place_standard_tree(5 .. 13, FALSE),
     Jungle     |-> place_standard_tree(4 .. 10, TRUE),
     FancyOak   |-> place_fancy_tree,     Spruce     |-> place_spruce,
     Pine       |-> place_pine,           RoofedOak  |-> place_roofed,
     Swamp      |-> place_swamp,          JungleBush |-> place_ground_bush,
     MegaJungle |-> place_mega_jungle,    MegaPine   |-> place_mega_pine(3 .. 7),
     MegaSpruce |-> place_mega_pine(13 .. 17),
     Savanna    |-> place_savanna,        HugeMushroom |-> place_huge_mushroom]

--------------------------------------------------------------------------------
(* Lakes, rooms and ores. *)
(* The hollow; a lake of lava also turns its rim to stone. *)
place_lake(rim) == Range2(-7 - rim, 6 + rim)
place_monster_room == UNION {(-rx - 1 .. rx + 1) \X (-rz - 1 .. rz + 1) : rx \in 2 .. 3, rz \in 2 .. 3}
(* A vein runs size/8 to both sides of start + 8; its blobs have a radius of   *)
(* at most size/16 + 1/2.  In sixteenths of a block, rounded down.             *)
place_ore(size) == LET reach == 3 * size + 8 IN Range2((128 - reach) \div 16, (128 + reach) \div 16)
ore_sizes == {33, 17, 9, 8, 7}

--------------------------------------------------------------------------------
(* Biome tables (population_biome.rs). *)
tree_source_biome(id) ==
    CASE id \in {129, 130, 131, 133, 134} -> id - 128
      [] id \in {149, 151, 155, 156, 157, 158, 161, 162, 163, 164, 165, 166, 167} -> id - 128
      [] OTHER -> id

(* tree_count in hundredths. *)
DEFAULT == [tree |-> 0, flower |-> 2, grass |-> 1, dead_bush |-> 0, mushroom |-> 0, reeds |-> 0,
            cactus |-> 0, gravel |-> 1, sand |-> 3, clay |-> 1, huge |-> 0, lily |-> 0]
decorator_config(id) ==
    LET b == tree_source_biome(id) IN
    CASE b \in {1, 129} -> [DEFAULT EXCEPT !.tree = 5, !.flower = 4, !.grass = 10]
      [] b \in {2, 17, 130} -> [DEFAULT EXCEPT !.tree = -99900, !.dead_bush = 2, !.reeds = 50, !.cactus = 10]
      [] b \in {4, 18, 27, 28} -> [DEFAULT EXCEPT !.tree = 1000, !.grass = 0]
      [] b = 132 -> [DEFAULT EXCEPT !.tree = 100, !.flower = 100]
      [] b = 29 -> [DEFAULT EXCEPT !.tree = -99900, !.grass = 0]
      [] b \in {5, 19, 30, 31} -> [DEFAULT EXCEPT !.tree = 1000, !.mushroom = 1]
      [] b \in {32, 33, 160} -> [DEFAULT EXCEPT !.tree = 1000, !.grass = 7, !.dead_bush = 1, !.mushroom = 3]
      [] b = 6 -> [DEFAULT EXCEPT !.tree = 200, !.flower = 1, !.dead_bush = 1, !.mushroom = 8, !.reeds = 10,
                                  !.sand = 0, !.gravel = 0, !.lily = 4, !.grass = 5]
      [] b \in {12, 13} -> [DEFAULT EXCEPT !.tree = 1]
      [] b \in {14, 15} -> [DEFAULT EXCEPT !.tree = -10000, !.flower = -100, !.grass = -100, !.mushroom = 1, !.huge = 1]
      [] b \in {16, 25, 26} -> [DEFAULT EXCEPT !.tree = -99900]
      [] b \in {20, 34} -> [DEFAULT EXCEPT !.tree = 300]
      [] b \in {21, 22} -> [DEFAULT EXCEPT !.tree = 2500, !.flower = 4, !.grass = 25]
      [] b = 23 -> [DEFAULT EXCEPT !.tree = 200, !.flower = 4, !.grass = 25]
      [] b \in {35, 36} -> [DEFAULT EXCEPT !.tree = 100, !.flower = 4, !.grass = 20]
      [] b \in {37, 39} -> [DEFAULT EXCEPT !.tree = -99900, !.flower = 0, !.dead_bush = 20, !.reeds = 3, !.cactus = 5]
      [] b = 38 -> [DEFAULT EXCEPT !.tree = 500, !.flower = 0, !.dead_bush = 20, !.reeds = 3, !.cactus = 5]
      [] OTHER -> DEFAULT

default_tree == {"FancyOak", "Oak"}
choose_tree_feature(id) ==
    LET b == tree_source_biome(id) IN
    CASE id \in {155, 156} -> {"SuperBirch", "Birch"}
      [] id = 160 -> {"MegaSpruce", "Pine", "Spruce"}
      [] b \in {4, 18, 132} -> {"Birch"} \cup default_tree
      [] b \in {27, 28} -> {"Birch"}
      [] b = 29 -> {"RoofedOak", "Birch"} \cup default_tree
      [] b \in {5, 19, 30, 31} -> {"Pine", "Spruce"}
      [] b \in {32, 33} -> {"MegaSpruce", "MegaPine", "Pine", "Spruce"}
      [] b = 6 -> {"HugeMushroom", "Swamp"}
      [] b \in {12, 13, 140} -> {"Spruce"}
      [] b \in {21, 22} -> {"FancyOak", "JungleBush", "MegaJungle", "Jungle"}
      [] b = 23 -> {"FancyOak", "JungleBush", "Jungle"}
      [] b \in {3, 20, 34} -> {"Spruce"} \cup default_tree
      [] b \in {35, 36} -> {"Savanna", "Oak"}
      [] b \in {37, 38, 39} -> {"Oak"}
      [] OTHER -> default_tree

--------------------------------------------------------------------------------
(* A call of a feature: its columns and the range of its start, relative to    *)
(* the corner of the centre chunk.  Bound: only the ends of the range are      *)
(* tried; what lies between is covered by them.                                *)
Call(cols, lo, hi) == {[cols |-> cols, at |-> at, swapped |-> FALSE] : at \in Corners(lo, hi)}
In(cols)           == Call(cols, 0, 15)
When(count, calls) == IF count > 0 THEN calls ELSE {}
(* decorate_taiga_before builds the start from the origin with x and z         *)
(* swapped: off by the difference of the chunk's coordinates.                  *)
Swapped(cols, s)   == {[cols |-> cols, at |-> Plus(at, <<16 * s, -16 * s>>), swapped |-> s # 0] :
                         at \in Corners(0, 15)}

populate_lakes(b) ==
    (IF b \in {2, 17} THEN {} ELSE Call(place_lake(0), 3, 11)) \cup Call(place_lake(1), 3, 11)
(* Mutant: the start is drawn from the next chunk alone. *)
rooms_ahead == Call(place_monster_room, 16, 31)
populate_monster_rooms == Call(place_monster_room, 8, 23)
populate_freeze        == In({Here})

decorate_forest_before(b) ==
    (IF b = 29 THEN UNION {Call(place_tree[t] \cup place_tall_grass(3), 1, 15) :
                             t \in {"HugeMushroom"} \cup choose_tree_feature(b)}
               ELSE {})
    \cup In(place_double_plant)
decorate_taiga_before(b, s) ==
    (IF b \in {32, 33, 160} THEN Swapped(place_block_blob(0), s) ELSE {})
    \cup Swapped(place_double_plant, s)
decorate_biome_override_before(b, s) ==
    CASE b \in {1, 129, 35, 36} -> In(place_double_plant)
      [] b \in {4, 18, 27, 28, 29, 132} -> decorate_forest_before(b)
      [] b \in {5, 19, 30, 31, 32, 33, 160} -> decorate_taiga_before(b, s)
      [] b = 140 -> In(place_ice_spike) \cup In(place_ice_patch)
      [] OTHER -> {}

decorate_ores == UNION {In(place_ore(size)) : size \in ore_sizes}

decorate_common(b) ==
    LET c == decorator_config(b) IN
    UNION {When(c.sand, In(place_sand_disk(7))),
           When(c.clay, In(place_clay_disk)),
           When(c.gravel, In(place_sand_disk(6))),
           When(c.tree, UNION {Call(place_tree[t] \cup place_tall_grass(3), 1, 14) :
                                 t \in choose_tree_feature(b)}),
           When(c.huge, In(place_huge_mushroom)),
           When(c.flower, In(place_flower_patch)),
           When(IF c.tree > 0 THEN 10 ELSE c.grass, In(place_tall_grass(8))),
           When(c.dead_bush, In(place_dead_bush)),
           When(c.lily, In(place_waterlily)),
           When(c.mushroom, In(place_flower_patch)),
           In(place_flower_patch), In(place_reeds), In(place_pumpkin),
           When(c.cactus, In(place_cactus)),
           In(place_spring)}

decorate_jungle_after        == In(place_melon) \cup Call(place_vines, 8, 23)
decorate_extreme_hills_after == In({Here}) \cup In(place_ore(8))
decorate_biome_override_after(b) ==
    CASE b \in {2, 17} -> In(place_desert_well)
      [] b \in {3, 20, 34} -> decorate_extreme_hills_after
      [] b \in 21 .. 23 -> decorate_jungle_after
      [] OTHER -> {}

(* Edge water is set flowing and snow is laid in the centre's own columns.     *)
(* (What the liquids do then is Finalizer's subject; they ask can_spread_to    *)
(* and stop at the edge of the nine chunks.)                                   *)
finalize_states == In({Here})

--------------------------------------------------------------------------------
(* PopulationNeighborhood::resolve: the columns of the nine chunks. *)
resolve == -16 .. 31
(* What a feature started at c.at writes outside is lost. *)
set_state(c) == {w \in Sum2({c.at}, c.cols) : ~(w[1] \in resolve /\ w[2] \in resolve)}

Init ==
    /\ stage = "idle" /\ biome = 0 /\ skew = 0
    /\ swapped = FALSE /\ clipped = {}

Choose ==
    /\ stage = "idle"
    /\ biome' \in Biomes
    /\ skew' \in Skews
    /\ stage' = "lakes"
    /\ UNCHANGED <<swapped, clipped>>

(* One stage runs any number of its features, then the next one begins. *)
Stage(here, next, calls) ==
    /\ stage = here
    /\ \/ /\ \E c \in calls :
              /\ clipped' = set_state(c)
              /\ swapped' = c.swapped
           /\ UNCHANGED stage
        \/ /\ stage' = next
           /\ clipped' = {} /\ swapped' = FALSE
    /\ UNCHANGED <<biome, skew>>

Lakes    == Stage("lakes", "rooms", populate_lakes(biome))
Rooms    == Stage("rooms", "freeze", populate_monster_rooms)
Freeze   == Stage("freeze", "before", populate_freeze)
Before   == Stage("before", "ores", decorate_biome_override_before(biome, skew))
Ores     == Stage("ores", "common", decorate_ores)
Common   == Stage("common", "after", decorate_common(biome))
After    == Stage("after", "finalize", decorate_biome_override_after(biome))
Finalize == Stage("finalize", "idle", finalize_states)

Next == Choose \/ Lakes \/ Rooms \/ Freeze \/ Before \/ Ores \/ Common \/ After \/ Finalize

Spec == Init /\ [][Next]_vars

(* No feature is clipped: wherever the decorator starts it and whatever it     *)
(* draws, all it writes lies in the nine chunks, the boundary                  *)
(* PopulationNeighborhood promises.  The one exception is the Taiga, whose     *)
(* boulders and ferns start at swapped coordinates.                            *)
FeaturesFit == clipped = {} \/ swapped
================================================================================
