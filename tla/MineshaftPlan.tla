------------------------------ MODULE MineshaftPlan ------------------------------
(* Laying out one mineshaft (structure/mineshaft_plan.rs) in source chunk      *)
(* (0, 0).  The code recurses: a piece that fits joins the plan and its own    *)
(* exits are followed before those of the piece it came from, so the exits     *)
(* still to be followed form a stack.  At the end the plan is moved as a       *)
(* whole.  Every draw is a choice.  Bounds: MaxPieces and the sets of draws.   *)
EXTENDS StructureShapes

CONSTANTS Kinds,      \* what an exit may lead to
          Sections,   \* draws of a corridor's sections, 2 .. 4 in the code
          RoomTops,   \* draws of the room's y1, 54 .. 59 in the code
          RoomSides,  \* draws of the room's length and width less one, 7 .. 12
          Doors,      \* draws of a door's place in a wall of the room
          Ups,        \* draws of an exit's height, at most 0 .. 5
          MaxPieces

VARIABLES pieces, exits, surface, settled

vars == <<pieces, exits, surface, settled>>

SHAFT_WIDTH  == 3
SHAFT_HEIGHT == 3
SHAFT_LENGTH == 5
MAX_DEPTH    == 8
MAX_DISTANCE == 80
SEA_LEVEL    == 63

exit(x, y, z, dir, depth) == [foot |-> <<x, y, z>>, dir |-> dir, depth |-> depth]

--------------------------------------------------------------------------------
(* The exits of a piece, in the order they are followed.  Each is a set of     *)
(* which one is drawn when its turn comes; Nothing is no exit.                 *)
Nothing == exit(0, 0, 0, North, MAX_DEPTH + 1)

(* Bound: at most one door in each wall of the room. *)
add_room_children(p) ==
    LET b == p.bounds
        space == y_span(b) - SHAFT_HEIGHT - 1
        ys == {b.y0 + 1 + u : u \in {v \in Ups : v < (IF space <= 0 THEN 1 ELSE space)}}
        xs == {b.x0 + q : q \in {r \in Doors : r + SHAFT_WIDTH <= x_span(b)}}
        zs == {b.z0 + q : q \in {r \in Doors : r + SHAFT_WIDTH <= z_span(b)}}
    IN  <<{Nothing} \cup {exit(x, y, b.z0 - 1, North, 0) : x \in xs, y \in ys},
          {Nothing} \cup {exit(x, y, b.z1 + 1, South, 0) : x \in xs, y \in ys},
          {Nothing} \cup {exit(b.x0 - 1, y, z, West, 0) : z \in zs, y \in ys},
          {Nothing} \cup {exit(b.x1 + 1, y, z, East, 0) : z \in zs, y \in ys}>>

(* The far end leads on, or to either side; before it, one chance for a side   *)
(* tunnel every five blocks.                                                   *)
corridor_ends(p, y) ==
    LET b == p.bounds
        d == p.gen_depth
    IN  CASE p.orientation = North ->
               {exit(b.x0, y, b.z0 - 1, North, d), exit(b.x0 - 1, y, b.z0, West, d),
                exit(b.x1 + 1, y, b.z0, East, d)}
          [] p.orientation = South ->
               {exit(b.x0, y, b.z1 + 1, South, d), exit(b.x0 - 1, y, b.z1 - SHAFT_WIDTH, West, d),
                exit(b.x1 + 1, y, b.z1 - SHAFT_WIDTH, East, d)}
          [] p.orientation = West ->
               {exit(b.x0 - 1, y, b.z0, West, d), exit(b.x0, y, b.z0 - 1, North, d),
                exit(b.x0, y, b.z1 + 1, South, d)}
          [] p.orientation = East ->
               {exit(b.x1 + 1, y, b.z0, East, d), exit(b.x1 - SHAFT_WIDTH, y, b.z0 - 1, North, d),
                exit(b.x1 - SHAFT_WIDTH, y, b.z1 + 1, South, d)}
side_tunnels(p, n) ==
    LET b == p.bounds
        along == p.orientation \in {North, South}
        at == (IF along THEN b.z0 ELSE b.x0) + 3 + SHAFT_LENGTH * n
        d == p.gen_depth + 1
    IN  {Nothing} \cup
        (IF p.gen_depth >= MAX_DEPTH \/ at + SHAFT_WIDTH > (IF along THEN b.z1 ELSE b.x1) THEN {}
         ELSE IF along THEN {exit(b.x0 - 1, b.y0, at, West, d), exit(b.x1 + 1, b.y0, at, East, d)}
         ELSE {exit(at, b.y0, b.z0 - 1, North, d), exit(at, b.y0, b.z1 + 1, South, d)})
add_corridor_children(p) ==
    <<UNION {corridor_ends(p, p.bounds.y0 - 1 + u) : u \in Ups \cap 0 .. 2},
      side_tunnels(p, 0), side_tunnels(p, 1), side_tunnels(p, 2)>>

add_crossing_children(p) ==
    LET b == p.bounds
        d == p.gen_depth
        n(y) == exit(b.x0 + 1, y, b.z0 - 1, North, d)
        s(y) == exit(b.x0 + 1, y, b.z1 + 1, South, d)
        w(y) == exit(b.x0 - 1, y, b.z0 + 1, West, d)
        e(y) == exit(b.x1 + 1, y, b.z0 + 1, East, d)
        up == b.y0 + SHAFT_HEIGHT + 1
        lower == CASE p.orientation = North -> <<{n(b.y0)}, {w(b.y0)}, {e(b.y0)}>>
                   [] p.orientation = South -> <<{s(b.y0)}, {w(b.y0)}, {e(b.y0)}>>
                   [] p.orientation = West  -> <<{n(b.y0)}, {s(b.y0)}, {w(b.y0)}>>
                   [] p.orientation = East  -> <<{n(b.y0)}, {s(b.y0)}, {e(b.y0)}>>
        upper == <<{Nothing, n(up)}, {Nothing, w(up)}, {Nothing, e(up)}, {Nothing, s(up)}>>
    IN  IF y_span(b) > SHAFT_HEIGHT THEN lower \o upper ELSE lower

add_stairs_children(p) ==
    LET b == p.bounds
        d == p.gen_depth
    IN  <<{CASE p.orientation = North -> exit(b.x0, b.y0, b.z0 - 1, North, d)
             [] p.orientation = South -> exit(b.x0, b.y0, b.z1 + 1, South, d)
             [] p.orientation = West  -> exit(b.x0 - 1, b.y0, b.z0, West, d)
             [] p.orientation = East  -> exit(b.x1 + 1, b.y0, b.z0, East, d)}>>

add_children(p) ==
    CASE p.kind = "Corridor" -> add_corridor_children(p)
      [] p.kind = "Crossing" -> add_crossing_children(p)
      [] p.kind = "Stairs"   -> add_stairs_children(p)

--------------------------------------------------------------------------------
Init ==
    /\ surface \in BOOLEAN
    /\ pieces \in {<<piece("Room", Box(2, 50, 2, 2 + x, y1, 2 + z), South, 0)>> :
                     x \in RoomSides, z \in RoomSides, y1 \in RoomTops}
    /\ exits \in {add_room_children(pieces[1])} \cup (IF surface THEN {<<>>} ELSE {})
    /\ settled = FALSE

(* The corridor as drawn, or as many sections shorter as it takes to fit. *)
corridor_box(e, sections) ==
    orient_box(e.foot, <<0, 0, 0>>, <<SHAFT_WIDTH, SHAFT_HEIGHT, SHAFT_LENGTH * sections>>, e.dir)
find_corridor(e) ==
    {corridor_box(e, n) : n \in {m \in 1 .. 4 :
        /\ ~collides(pieces, corridor_box(e, m))
        /\ \E drawn \in Sections : m <= drawn /\ \A l \in m + 1 .. drawn : collides(pieces, corridor_box(e, l))}}
(* A crossing may have a second floor. *)
find_crossing(e) ==
    {b \in {orient_box(e.foot, <<-1, 0, 0>>, <<SHAFT_WIDTH + 2, height, SHAFT_WIDTH + 2>>, e.dir) :
              height \in {SHAFT_HEIGHT, 2 * SHAFT_HEIGHT + 1}} : ~collides(pieces, b)}
find_stairs(e) ==
    {b \in {orient_box(e.foot, <<0, -5, 0>>, <<SHAFT_WIDTH, SHAFT_HEIGHT + 5, 9>>, e.dir)} : ~collides(pieces, b)}

create_random_piece(kind, e) ==
    CASE kind = "Corridor" -> find_corridor(e)
      [] kind = "Crossing" -> find_crossing(e)
      [] kind = "Stairs"   -> find_stairs(e)

Refused(e) ==
    LET Far(a, b) == a - b > MAX_DISTANCE \/ b - a > MAX_DISTANCE
    IN  e.depth > MAX_DEPTH \/ Far(e.foot[1], pieces[1].bounds.x0) \/ Far(e.foot[3], pieces[1].bounds.z0)

(* The kind is drawn first; if it does not fit, nothing is built. *)
generate_and_add_piece ==
    /\ exits # <<>>
    /\ \E e \in Head(exits) :
       \/ /\ Refused(e) \/ \E kind \in Kinds : create_random_piece(kind, e) = {}
          /\ exits' = Tail(exits)
          /\ UNCHANGED pieces
       \/ /\ ~Refused(e)
          /\ Len(pieces) < MaxPieces
          /\ \E kind \in Kinds : \E b \in create_random_piece(kind, e) :
               LET p == piece(kind, b, e.dir, e.depth + 1) IN
               /\ pieces' = Append(pieces, p)
               /\ exits' = add_children(p) \o Tail(exits)
    /\ UNCHANGED <<surface, settled>>

(* The end of generate: a mesa's mineshaft is centred above the sea, any other *)
(* goes as far underground as its span allows.                                 *)
settle ==
    /\ exits = <<>> /\ ~settled
    /\ \E low \in DOMAIN pieces, high \in DOMAIN pieces :
         LET y0 == pieces[low].bounds.y0
             y1 == pieces[high].bounds.y1
             span == y1 - y0 + 1
             tops == IF surface THEN {SEA_LEVEL + span \div 2 + 5}
                     ELSE {span + 1} \cup span + 1 .. SEA_LEVEL - 11
         IN  /\ \A i \in DOMAIN pieces : y0 <= pieces[i].bounds.y0 /\ pieces[i].bounds.y1 <= y1
             /\ \E top \in tops :
                  pieces' = [i \in DOMAIN pieces |->
                               [pieces[i] EXCEPT !.bounds = move_by(@, top - y1)]]
    /\ settled' = TRUE
    /\ UNCHANGED <<exits, surface>>

Next == generate_and_add_piece \/ settle

Spec == Init /\ [][Next]_vars

--------------------------------------------------------------------------------
(* No tunnel is dug through another: pieces never overlap, however the exits   *)
(* of a depth-first walk meet.                                                 *)
TunnelsApart ==
    \A i, j \in DOMAIN pieces : i # j => ~intersects(pieces[i].bounds, pieces[j].bounds)

(* Every piece lies in the chunks that find this mineshaft: apply looks eight  *)
(* chunks around for sources.                                                  *)
TunnelsInReach ==
    \A i \in DOMAIN pieces :
        LET b == pieces[i].bounds
        IN  -128 <= b.x0 /\ b.x1 < 144 /\ -128 <= b.z0 /\ b.z1 < 144

(* The finished plan lies between bedrock and the top of the world, deep or    *)
(* high as its walk may have led.                                              *)
TunnelsInWorld ==
    settled => \A i \in DOMAIN pieces : pieces[i].bounds.y0 >= 1 /\ pieces[i].bounds.y1 < 128
================================================================================
