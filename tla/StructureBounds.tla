---------------------------- MODULE StructureBounds ----------------------------
(* Boxes of structure pieces (native/world/src/structure/mod.rs), inclusive at *)
(* both ends.  Coordinates stay far from the i32 limits: no wrapping.          *)
EXTENDS Integers, Sequences

North == "North"
South == "South"
West  == "West"
East  == "East"
Orientations == {North, South, West, East}

Box(x0, y0, z0, x1, y1, z1) ==
    [x0 |-> x0, y0 |-> y0, z0 |-> z0, x1 |-> x1, y1 |-> y1, z1 |-> z1]
Boxes == [x0 : Int, y0 : Int, z0 : Int, x1 : Int, y1 : Int, z1 : Int]

(* A piece of size <<width, height, depth>> whose door stands at foot and      *)
(* which lies ahead of it; off shifts it sideways, up and ahead.               *)
orient_box(foot, off, size, dir) ==
    LET x == foot[1]
        y == foot[2] + off[2]
        z == foot[3]
        top == y + size[2] - 1
    IN  CASE dir = North -> Box(x + off[1], y, z - size[3] + 1 + off[3],
                                x + size[1] - 1 + off[1], top, z + off[3])
          [] dir = South -> Box(x + off[1], y, z + off[3],
                                x + size[1] - 1 + off[1], top, z + size[3] - 1 + off[3])
          [] dir = West  -> Box(x - size[3] + 1 + off[3], y, z + off[1],
                                x + off[3], top, z + size[1] - 1 + off[1])
          [] dir = East  -> Box(x + off[3], y, z + off[1],
                                x + size[3] - 1 + off[3], top, z + size[1] - 1 + off[1])

intersects_xz(b, c) == ~(b.x1 < c.x0 \/ b.x0 > c.x1 \/ b.z1 < c.z0 \/ b.z0 > c.z1)
intersects(b, c)    == intersects_xz(b, c) /\ ~(b.y1 < c.y0 \/ b.y0 > c.y1)
contains(b, p) ==
    p[1] \in b.x0 .. b.x1 /\ p[2] \in b.y0 .. b.y1 /\ p[3] \in b.z0 .. b.z1
move_by(b, dy) == Box(b.x0, b.y0 + dy, b.z0, b.x1, b.y1 + dy, b.z1)
x_span(b) == b.x1 - b.x0 + 1
y_span(b) == b.y1 - b.y0 + 1
z_span(b) == b.z1 - b.z0 + 1

(* Mutant: only the piece added last is looked at. *)
collides_last(pieces, b) == intersects(pieces[Len(pieces)].bounds, b)

(* Some piece of the plan stands where b would. *)
collides(pieces, b) == \E i \in DOMAIN pieces : intersects(pieces[i].bounds, b)
================================================================================
