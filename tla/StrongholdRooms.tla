---------------------------- MODULE StrongholdRooms ----------------------------
(* The doors of a stronghold's rooms: where the planner looks for the next     *)
(* room (stronghold_plan.rs) and where the writers open the wall               *)
(* (stronghold_place.rs).  The two are written independently of each other.    *)
EXTENDS StructureShapes

door(x, y, z, dir, depth) == [foot |-> <<x, y, z>>, dir |-> dir, depth |-> depth]

child_forward(p, x_off, y_off) ==
    LET b == p.bounds
        y == b.y0 + y_off
    IN  CASE p.orientation = North -> door(b.x0 + x_off, y, b.z0 - 1, North, p.gen_depth)
          [] p.orientation = South -> door(b.x0 + x_off, y, b.z1 + 1, South, p.gen_depth)
          [] p.orientation = West  -> door(b.x0 - 1, y, b.z0 + x_off, West, p.gen_depth)
          [] p.orientation = East  -> door(b.x1 + 1, y, b.z0 + x_off, East, p.gen_depth)
child_left(p, y_off, z_off) ==
    LET b == p.bounds IN
    IF p.orientation \in {North, South}
    THEN door(b.x0 - 1, b.y0 + y_off, b.z0 + z_off, West, p.gen_depth)
    ELSE door(b.x0 + z_off, b.y0 + y_off, b.z0 - 1, North, p.gen_depth)
child_right(p, y_off, z_off) ==
    LET b == p.bounds IN
    IF p.orientation \in {North, South}
    THEN door(b.x1 + 1, b.y0 + y_off, b.z0 + z_off, East, p.gen_depth)
    ELSE door(b.x0 + z_off, b.y0 + y_off, b.z1 + 1, South, p.gen_depth)

(* The doors of which a room may have any, drawn when it is made. *)
optional_doors(kind) ==
    CASE kind = "FiveCrossing" -> {"left_low", "left_high", "right_low", "right_high"}
      [] kind = "Straight" -> {"left", "right"}
      [] OTHER -> {}

(* add_children: the doors of a piece, in the order they are tried. *)
add_children(p, sides) ==
    LET When(side, d) == IF side \in sides THEN <<d>> ELSE <<>>
    IN  CASE p.kind \in {"StairsDown", "ChestCorridor", "PrisonHall", "StraightStairsDown"} ->
               <<child_forward(p, 1, 1)>>
          [] p.kind \in {Filler, "Library", "PortalRoom"} -> <<>>
          [] p.kind = "FiveCrossing" ->
               LET back == p.orientation \in {West, North}
                   a == IF back THEN 5 ELSE 3
                   b == IF back THEN 3 ELSE 5
               IN  <<child_forward(p, 5, 1)>>
                   \o When("left_low", child_left(p, a, 1)) \o When("left_high", child_left(p, b, 7))
                   \o When("right_low", child_right(p, a, 1)) \o When("right_high", child_right(p, b, 7))
          [] p.kind \in {"LeftTurn", "RightTurn"} ->
               IF (p.kind = "LeftTurn") <=> (p.orientation \in {North, East})
               THEN <<child_left(p, 1, 1)>> ELSE <<child_right(p, 1, 1)>>
          [] p.kind = "RoomCrossing" ->
               <<child_forward(p, 4, 1), child_left(p, 1, 4), child_right(p, 1, 4)>>
          [] p.kind = "Straight" ->
               <<child_forward(p, 1, 1)>>
               \o When("left", child_left(p, 1, 2)) \o When("right", child_right(p, 1, 2))

--------------------------------------------------------------------------------
(* What each writer leaves, in the piece's own coordinates: hull is all it     *)
(* writes, entry the lower left corner of the door it was entered by, open the *)
(* ways it cuts in its walls.                                                  *)
room(hull, entry, open) == [hull |-> hull, entry |-> entry, open |-> open]

stairs_down   == room(Box(0, 0, 0, 4, 10, 4), <<1, 7>>, {Box(1, 1, 4, 3, 3, 4)})
chest_corridor == room(Box(0, 0, 0, 4, 4, 6), <<1, 2>>, {Box(1, 1, 6, 3, 3, 6)})
filler_corridor(steps) ==
    room(Box(0, 0, 0, 4, 4, steps - 1), <<1, 1>>, {Box(1, 1, steps - 1, 3, 3, steps - 1)})
five_crossing(sides) ==
    room(Box(0, 0, 0, 9, 8, 10), <<4, 3>>,
         {Box(5, 1, 10, 7, 3, 10)}
         \cup (IF "left_low"   \in sides THEN {Box(0, 3, 1, 0, 5, 3)} ELSE {})
         \cup (IF "right_low"  \in sides THEN {Box(9, 3, 1, 9, 5, 3)} ELSE {})
         \cup (IF "left_high"  \in sides THEN {Box(0, 5, 7, 0, 7, 9)} ELSE {})
         \cup (IF "right_high" \in sides THEN {Box(9, 5, 7, 9, 7, 9)} ELSE {}))
(* Mutant: the writer forgets that two orientations mirror the piece. *)
turn_unmirrored(dir, left) ==
    LET x == IF left THEN 0 ELSE 4
    IN  room(Box(0, 0, 0, 4, 4, 4), <<1, 2>>, {Box(x, 1, 1, x, 3, 3)})
turn(dir, left) ==
    LET x == IF left <=> dir \in {North, East} THEN 0 ELSE 4
    IN  room(Box(0, 0, 0, 4, 4, 4), <<1, 2>>, {Box(x, 1, 1, x, 3, 3)})
prison_hall == room(Box(0, 0, 0, 8, 4, 10), <<1, 1>>, {Box(1, 1, 10, 3, 3, 10)})
room_crossing ==
    room(Box(0, 0, 0, 10, 6, 10), <<4, 1>>,
         {Box(4, 1, 10, 6, 3, 10), Box(0, 1, 4, 0, 3, 6), Box(10, 1, 4, 10, 3, 6)})
straight(sides) ==
    room(Box(0, 0, 0, 4, 4, 6), <<1, 2>>,
         {Box(1, 1, 6, 3, 3, 6)}
         \cup (IF "left"  \in sides THEN {Box(0, 1, 2, 0, 3, 4)} ELSE {})
         \cup (IF "right" \in sides THEN {Box(4, 1, 2, 4, 3, 4)} ELSE {}))
straight_stairs_down == room(Box(0, 0, 0, 4, 10, 7), <<1, 7>>, {Box(1, 1, 7, 3, 3, 7)})
library(height) == room(Box(0, 0, 0, 13, height - 1, 14), <<4, 1>>, {})
portal_room == room(Box(0, 0, 0, 10, 7, 15), <<4, 1>>, {})

stronghold_writer(p, sides) ==
    CASE p.kind = "StairsDown"    -> stairs_down
      [] p.kind = "ChestCorridor" -> chest_corridor
      [] p.kind = Filler          ->
           filler_corridor(IF p.orientation \in {North, South} THEN z_span(p.bounds) ELSE x_span(p.bounds))
      [] p.kind = "FiveCrossing"  -> five_crossing(sides)
      [] p.kind = "LeftTurn"      -> turn(p.orientation, TRUE)
      [] p.kind = "RightTurn"     -> turn(p.orientation, FALSE)
      [] p.kind = "PrisonHall"    -> prison_hall
      [] p.kind = "RoomCrossing"  -> room_crossing
      [] p.kind = "Straight"      -> straight(sides)
      [] p.kind = "StraightStairsDown" -> straight_stairs_down
      [] p.kind = "Library"       -> library(y_span(p.bounds))
      [] p.kind = "PortalRoom"    -> portal_room

(* Mutant: West is turned as East is. *)
world_pos_west(b, dir, x, y, z) ==
    CASE dir = North -> <<b.x0 + x, b.y0 + y, b.z1 - z>>
      [] dir = South -> <<b.x0 + x, b.y0 + y, b.z0 + z>>
      [] dir \in {West, East} -> <<b.x0 + z, b.y0 + y, b.z0 + x>>

(* The writers' own coordinates turned into the world's. *)
world_pos(b, dir, x, y, z) ==
    CASE dir = North -> <<b.x0 + x, b.y0 + y, b.z1 - z>>
      [] dir = South -> <<b.x0 + x, b.y0 + y, b.z0 + z>>
      [] dir = West  -> <<b.x1 - z, b.y0 + y, b.z0 + x>>
      [] dir = East  -> <<b.x0 + z, b.y0 + y, b.z0 + x>>
world_box(b, dir, local) ==
    LET p == world_pos(b, dir, local.x0, local.y0, local.z0)
        q == world_pos(b, dir, local.x1, local.y1, local.z1)
        Low(i)  == IF p[i] < q[i] THEN p[i] ELSE q[i]
        High(i) == IF p[i] < q[i] THEN q[i] ELSE p[i]
    IN  Box(Low(1), Low(2), Low(3), High(1), High(2), High(3))
================================================================================
