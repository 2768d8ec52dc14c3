---------------------------- MODULE StructureWriters ----------------------------
(* Building one piece of a structure (village_place.rs, stronghold_place.rs,   *)
(* mineshaft_place.rs, scattered_place.rs): the chunks its box meets are       *)
(* processed in any order, and in each of them the whole writer runs with      *)
(* everything outside the chunk cut off.  Blocks are abstracted to the box a   *)
(* writer reaches (its hull, in the piece's own coordinates); columns filled   *)
(* down to the ground or cleared up to the sky count by their x and z.         *)
EXTENDS StrongholdRooms, FiniteSetsExt

CONSTANTS Feet  \* where the door of the piece may stand

VARIABLES built,    \* the piece, with its family and drawn doors, or None
          todo,     \* chunks still to be processed
          written,  \* boxes written, with the chunk and the part of the piece
          beyond    \* the doorway into the next room, or None

vars == <<built, todo, written, beyond>>

None == [kind |-> "None"]

--------------------------------------------------------------------------------
(* The writers of a village. *)
well            == Box(0, 0, 0, 5, 15, 5)
simple_house    == Box(0, 0, -1, 4, 6, 4)
small_temple    == Box(0, 0, -1, 4, 12, 8)
book_house      == Box(0, 0, -1, 8, 9, 6)
small_hut       == Box(0, 0, -1, 3, 6, 4)
pig_house       == Box(0, 0, -1, 8, 7, 10)
farmland        == Box(0, 0, 0, 6, 4, 8)
double_farmland == Box(0, 0, 0, 12, 4, 8)
smithy          == Box(0, 0, -1, 9, 6, 6)
two_room_house  == Box(0, 0, -1, 8, 7, 10)
light_post      == Box(0, 0, -1, 2, 3, 1)
village_writer ==
    [Start |-> well, SimpleHouse |-> simple_house, SmallTemple |-> small_temple,
     BookHouse |-> book_house, SmallHut |-> small_hut, PigHouse |-> pig_house,
     Farmland |-> farmland, DoubleFarmland |-> double_farmland, Smithy |-> smithy,
     TwoRoomHouse |-> two_room_house, LightPost |-> light_post]

(* The writers of a mineshaft; a floor is laid one below the piece, and a web  *)
(* may hang one block before a corridor.                                       *)
mine_size ==
    [Corridor |-> <<3, 3, 20>>, Crossing |-> <<5, 7, 5>>, Stairs |-> <<3, 8, 9>>]
corridor(size)    == Box(0, -1, -1, 2, 2, size[3] - 1)
crossing(size)    == Box(0, -1, 0, size[1] - 1, size[2] - 1, size[3] - 1)
stairs            == Box(0, 0, 0, 2, 7, 8)
mineshaft_writer ==
    [Corridor |-> corridor(mine_size["Corridor"]), Crossing |-> crossing(mine_size["Crossing"]),
     Stairs |-> stairs]

(* The room a mineshaft starts from stands two blocks into its chunk.  Bounds: *)
(* the smallest and the largest, with one entrance at an end of a wall, as     *)
(* low or as high as the planner draws it.                                     *)
room_boxes == {Box(2, 50, 2, 2 + w, top, 2 + d) : w \in {7, 12}, d \in {7, 12}, top \in {54, 59}}

(* An entrance is as wide and as high as the piece behind it, and two deep. *)
entrances(b) ==
    LET space == IF y_span(b) > 4 THEN y_span(b) - 4 ELSE 1
        ys == {b.y0 + 1, b.y0 + space}
        xs == {b.x0, b.x1 - 2}
        zs == {b.z0, b.z1 - 2}
        behind(x, y, z, dir) ==
            {orient_box(<<x, y, z>>, <<0, 0, 0>>, <<3, 3, 20>>, dir),
             orient_box(<<x, y, z>>, <<-1, 0, 0>>, <<5, 3, 5>>, dir),
             orient_box(<<x, y, z>>, <<-1, 0, 0>>, <<5, 7, 5>>, dir),
             orient_box(<<x, y, z>>, <<0, -5, 0>>, <<3, 8, 9>>, dir)}
        north == UNION {behind(x, y, b.z0 - 1, North) : x \in xs, y \in ys}
        south == UNION {behind(x, y, b.z1 + 1, South) : x \in xs, y \in ys}
        west  == UNION {behind(b.x0 - 1, y, z, West) : z \in zs, y \in ys}
        east  == UNION {behind(b.x1 + 1, y, z, East) : z \in zs, y \in ys}
    IN  {Box(c.x0, c.y0, b.z0, c.x1, c.y1, b.z0 + 1) : c \in north}
        \cup {Box(c.x0, c.y0, b.z1 - 1, c.x1, c.y1, b.z1) : c \in south}
        \cup {Box(b.x0, c.y0, c.z0, b.x0 + 1, c.y1, c.z1) : c \in west}
        \cup {Box(b.x1 - 1, c.y0, c.z0, b.x1, c.y1, c.z1) : c \in east}

(* The room itself, and of each entrance the upper three blocks. *)
mine_room(b, doors) == {b} \cup {Box(e.x0, e.y1 - 2, e.z0, e.x1, e.y1, e.z1) : e \in doors}

(* The temples and the hut, which always face the same way. *)
scattered_size ==
    [DesertPyramid |-> <<21, 15, 21>>, JunglePyramid |-> <<12, 10, 15>>, SwamplandHut |-> <<7, 7, 9>>]
desert_pyramid == Box(0, -14, 0, 20, 10, 20)
jungle_pyramid == Box(0, -4, 0, 11, 9, 14)
swampland_hut  == Box(0, 0, 0, 6, 5, 8)
scattered_writer ==
    [DesertPyramid |-> desert_pyramid, JunglePyramid |-> jungle_pyramid, SwamplandHut |-> swampland_hut]

Plan(family, kind, b, dir, sides) ==
    [family |-> family, kind |-> kind, bounds |-> b, orientation |-> dir, gen_depth |-> 0,
     sides |-> sides]
(* Once the mineshaft is laid out it is moved as a whole, entrances included;  *)
(* here by 20 down.                                                            *)
rooms ==
    UNION {{Plan("mineshaft", "Room", move_by(b, -20), South, {move_by(e, -20) : e \in s}) :
              s \in {{}} \cup {{e} : e \in entrances(b)}} : b \in room_boxes}

Planned(foot, dir) ==
    {Plan("village", k, orient_box(foot, <<0, 0, 0>>, dimensions[k], dir), dir, {}) :
       k \in DOMAIN dimensions}
    \cup {Plan("mineshaft", k, orient_box(foot, <<0, 0, 0>>, mine_size[k], dir), dir, {}) :
            k \in DOMAIN mine_size}
    \cup UNION {{Plan("stronghold", k, orient_box(foot, shapes[k][n][1], shapes[k][n][2], dir), dir, s) :
                   n \in DOMAIN shapes[k], s \in SUBSET optional_doors(k)} : k \in DOMAIN shapes}
    \cup {Plan("stronghold", Filler, orient_box(foot, <<-1, -1, 0>>, <<5, 5, n>>, dir), dir, {}) : n \in 1 .. 3}
    \cup (IF dir = South
          THEN rooms \cup {Plan("scattered", k, orient_box(foot, <<0, 0, 0>>, scattered_size[k], South), South, {}) :
                  k \in DOMAIN scattered_size}
          ELSE {})

(* The box a writer reaches, in the piece's own coordinates. *)
Hull(p) == CASE p.family = "village"    -> village_writer[p.kind]
             [] p.family = "mineshaft"  -> mineshaft_writer[p.kind]
             [] p.family = "scattered"  -> scattered_writer[p.kind]
             [] p.family = "stronghold" -> stronghold_writer(p, p.sides).hull

Parts(p) == IF p.kind = "Room" THEN mine_room(p.bounds, p.sides)
            ELSE {world_box(p.bounds, p.orientation, Hull(p))}

clip(a, b) ==
    LET Hi(m, n) == IF m > n THEN m ELSE n
        Lo(m, n) == IF m < n THEN m ELSE n
    IN  Box(Hi(a.x0, b.x0), a.y0, Hi(a.z0, b.z0), Lo(a.x1, b.x1), a.y1, Lo(a.z1, b.z1))
chunk_bounds(c) == Box(16 * c[1], 1, 16 * c[2], 16 * c[1] + 15, 512, 16 * c[2] + 15)
Around == (-2 .. 2) \X (-2 .. 2)

--------------------------------------------------------------------------------
Init == built = None /\ todo = {} /\ written = {} /\ beyond = None

Place ==
    /\ built = None
    /\ \E foot \in Feet, dir \in Orientations : built' \in Planned(foot, dir)
    /\ todo' = {c \in Around : intersects(built'.bounds, chunk_bounds(c))}
    /\ UNCHANGED <<written, beyond>>

(* place and box_fill: the writer's blocks that lie in this chunk. *)
place(p, c) == {[chunk |-> c, part |-> b, box |-> clip(b, chunk_bounds(c))] : b \in Parts(p)}
process_piece ==
    /\ \E c \in todo :
         /\ todo' = todo \ {c}
         /\ written' = written \cup place(built, c)
    /\ UNCHANGED <<built, beyond>>

(* A room of any kind behind one of the doors the planner tried. *)
Enter ==
    /\ built # None /\ built.family = "stronghold" /\ todo = {} /\ beyond = None
    /\ LET doors == add_children(built, built.sides) IN
       \E i \in DOMAIN doors :
       \E child \in {p \in Planned(doors[i].foot, doors[i].dir) : p.family = "stronghold"} :
         LET entry == stronghold_writer(child, child.sides).entry
             back  == Box(entry[1] + 1, entry[2], -1, entry[1] + 1, entry[2] + 1, -1)
         IN  beyond' = world_box(child.bounds, child.orientation, back)
    /\ UNCHANGED <<built, todo, written>>

Next == Place \/ process_piece \/ Enter

Spec == Init /\ [][Next]_vars

--------------------------------------------------------------------------------
Empty(b) == b.x1 < b.x0 \/ b.z1 < b.z0
Area(b)  == IF Empty(b) THEN 0 ELSE x_span(b) * z_span(b)

(* What a piece may reach beyond its box: eaves and a doorstep one block       *)
(* before or behind a house, a web before a corridor, the floor of a mine.     *)
(* The way from a room into a crossing is one block wider on each side than    *)
(* its door, and into one of two floors is cut up to three above the room.     *)
Reach(p) ==
    LET b == p.bounds
        eaves == IF p.family = "village" \/ p.kind = "Corridor" THEN 1 ELSE 0
        floor == IF p.family = "mineshaft" THEN 1 ELSE 0
    IN  IF p.kind = "Room" THEN Box(b.x0 - 1, b.y0, b.z0 - 1, b.x1 + 1, b.y1 + 3, b.z1 + 1)
        ELSE IF p.orientation \in {North, South}
        THEN Box(b.x0, b.y0 - floor, b.z0 - eaves, b.x1, b.y1, b.z1 + eaves)
        ELSE Box(b.x0 - eaves, b.y0 - floor, b.z0, b.x1 + eaves, b.y1, b.z1)

(* Chunk by chunk, in whatever order, a writer stays inside the box the plan   *)
(* reserved but for what Reach lists, writes no column from two chunks, and    *)
(* once every chunk its box meets is processed has written every column of     *)
(* the piece.  Of a room nothing at all is missing, though its entrances are   *)
(* wider than its box and only the chunks the box meets are processed.         *)
BuiltInPlace ==
    built # None =>
        LET reach == Reach(built)
            due == IF built.kind = "Room" THEN reach ELSE built.bounds
        IN  /\ \A w \in {v \in written : ~Empty(v.box)} :
                  /\ Area(clip(w.box, reach)) = Area(w.box)
                  /\ built.family \in {"stronghold", "mineshaft"} =>
                        reach.y0 <= w.box.y0 /\ w.box.y1 <= reach.y1
                  /\ \A v \in written : v.chunk # w.chunk => Empty(v.box) \/ ~intersects_xz(v.box, w.box)
            /\ todo = {} => \A b \in Parts(built) :
                  Area(clip(b, due)) =
                  MapThenSumSet(LAMBDA w : Area(clip(w.box, due)), {w \in written : w.part = b})

(* A room can be walked into: the middle of its door, two blocks high, lies    *)
(* behind an opening of the room before it.  A FiveCrossing facing North or    *)
(* West with one door of the two on a side is the exception: the planner       *)
(* swaps the heights there and the writer does not.                            *)
DoorsMeet ==
    beyond # None =>
        \/ \E o \in stronghold_writer(built, built.sides).open :
             LET w == world_box(built.bounds, built.orientation, o)
             IN  contains(w, <<beyond.x0, beyond.y0, beyond.z0>>) /\ contains(w, <<beyond.x1, beyond.y1, beyond.z1>>)
        \/ /\ built.kind = "FiveCrossing" /\ built.orientation \in {North, West}
           /\ \/ ("left_low" \in built.sides) # ("left_high" \in built.sides)
              \/ ("right_low" \in built.sides) # ("right_high" \in built.sides)
================================================================================
