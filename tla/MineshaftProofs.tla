----------------------------- MODULE MineshaftProofs -----------------------------
(* No two tunnels of a mineshaft meet, every tunnel lies where the generator   *)
(* looks for it, and the finished plan fits between bedrock and the top of the *)
(* world: for any number of tunnels of any kinds.                              *)
EXTENDS MineshaftPlan, TLAPS

Places == Int \X Int \X Int
Sizes  == (Nat \ {0}) \X (Nat \ {0}) \X (Nat \ {0})

Within(b, foot, r) ==
    /\ b.x0 >= foot[1] - r /\ b.x1 <= foot[1] + r
    /\ b.z0 >= foot[3] - r /\ b.z1 <= foot[3] + r

(* orient_box: a box as high as it is told to be, that starts at the door and  *)
(* reaches as far from it as the larger of its sides and offsets.              *)
LEMMA OrientedBox ==
    ASSUME NEW foot \in Places, NEW off \in Places, NEW size \in Sizes, NEW dir \in Orientations
    PROVE  /\ orient_box(foot, off, size, dir) \in Boxes
           /\ orient_box(foot, off, size, dir).y0 = foot[2] + off[2]
           /\ orient_box(foot, off, size, dir).y1 = foot[2] + off[2] + size[2] - 1
  <1> DEFINE x == foot[1]
             y == foot[2] + off[2]
             z == foot[3]
  <1>1. x \in Int /\ y \in Int /\ z \in Int /\ off[1] \in Int /\ off[2] \in Int /\ off[3] \in Int
    BY DEF Places
  <1>2. size[1] \in Int /\ size[2] \in Int /\ size[3] \in Int
    BY DEF Sizes
  <1>3. dir = North \/ dir = South \/ dir = West \/ dir = East
    BY Zenon DEF Orientations
  <1> QED
    BY <1>1, <1>2, <1>3 DEF orient_box, Box, Boxes, North, South, West, East

(* orient_box again: no further from the door than the longest side allows.    *)
LEMMA OrientedNear ==
    ASSUME NEW foot \in Places, NEW off \in Places, NEW size \in Sizes, NEW dir \in Orientations,
           NEW r \in Int, r >= 4, off[1] \in -4 .. 0, off[3] = 0,
           size[1] <= r + 1, size[3] <= r + 1
    PROVE  Within(orient_box(foot, off, size, dir), foot, r)
  <1>1. /\ foot[1] \in Int /\ foot[2] \in Int /\ foot[3] \in Int
        /\ off[1] \in Int /\ off[2] \in Int /\ off[1] >= -4 /\ off[1] <= 0
    BY DEF Places
  <1>2. /\ size[1] \in Int /\ size[2] \in Int /\ size[3] \in Int
        /\ size[1] >= 1 /\ size[3] >= 1
    BY DEF Sizes
  <1>3. dir = North \/ dir = South \/ dir = West \/ dir = East
    BY Zenon DEF Orientations
  <1> QED
    BY <1>1, <1>2, <1>3 DEF Within, orient_box, Box, North, South, West, East

(* Which box is asked about which makes no difference. *)
LEMMA Symmetric ==
    ASSUME NEW b \in Boxes, NEW c \in Boxes
    PROVE  /\ intersects(b, c) <=> intersects(c, b)
           /\ intersects_xz(b, c) <=> intersects_xz(c, b)
  BY Zenon DEF intersects, intersects_xz, Boxes

(* move_by: up or down, and nothing else. *)
LEMMA MovedBox ==
    ASSUME NEW b \in Boxes, NEW dy \in Int
    PROVE  /\ move_by(b, dy) \in Boxes
           /\ move_by(b, dy).x0 = b.x0 /\ move_by(b, dy).x1 = b.x1
           /\ move_by(b, dy).z0 = b.z0 /\ move_by(b, dy).z1 = b.z1
           /\ move_by(b, dy).y0 = b.y0 + dy /\ move_by(b, dy).y1 = b.y1 + dy
  BY DEF move_by, Boxes, Box

(* Moving a whole plan up or down keeps what was apart apart. *)
LEMMA MovedTogether ==
    ASSUME NEW b \in Boxes, NEW c \in Boxes, NEW dy \in Int
    PROVE  intersects(move_by(b, dy), move_by(c, dy)) <=> intersects(b, c)
  <1>1. /\ b.y0 \in Int /\ b.y1 \in Int /\ c.y0 \in Int /\ c.y1 \in Int
        /\ b.x0 \in Int /\ b.x1 \in Int /\ c.x0 \in Int /\ c.x1 \in Int
        /\ b.z0 \in Int /\ b.z1 \in Int /\ c.z0 \in Int /\ c.z1 \in Int
    BY Zenon DEF Boxes
  <1> DEFINE m == move_by(b, dy)
             n == move_by(c, dy)
  <1>2. /\ m.x0 = b.x0 /\ m.x1 = b.x1 /\ m.z0 = b.z0 /\ m.z1 = b.z1
        /\ m.y0 = b.y0 + dy /\ m.y1 = b.y1 + dy
        /\ n.x0 = c.x0 /\ n.x1 = c.x1 /\ n.z0 = c.z0 /\ n.z1 = c.z1
        /\ n.y0 = c.y0 + dy /\ n.y1 = c.y1 + dy
    BY Zenon, MovedBox
  <1> HIDE DEF m, n
  <1>3. intersects(m, n) <=> intersects(b, c)
    BY <1>1, <1>2 DEF intersects, intersects_xz
  <1> QED
    BY Zenon, <1>3 DEF m, n

---------------------------------------------------------------------------------
(* Mineshafts. *)

TunnelKinds == {"Room", "Corridor", "Crossing", "Stairs"}
AnyTunnel   == [kind : TunnelKinds, bounds : Boxes, orientation : Orientations, gen_depth : Nat]

(* A walk goes down six or up four blocks a generation at most: five down a    *)
(* stair and one more at the end of a corridor, four to an upper floor.        *)
Lowest(depth)  == 51 - 6 * depth
Highest(depth) == 56 + 4 * depth
AnyExit == {e \in [foot : Places, dir : Orientations, depth : Nat] :
              Lowest(e.depth) <= e.foot[2] /\ e.foot[2] <= Highest(e.depth)}

InReach(b) == -128 <= b.x0 /\ b.x1 < 144 /\ -128 <= b.z0 /\ b.z1 < 144

Tunnels(ps) ==
    /\ ps \in Seq(AnyTunnel) /\ Len(ps) >= 1
    /\ ps[1].bounds.x0 = 2 /\ ps[1].bounds.z0 = 2
    /\ \A i \in 1 .. Len(ps) : InReach(ps[i].bounds)
    /\ \A i, j \in 1 .. Len(ps) : i # j => ~intersects(ps[i].bounds, ps[j].bounds)

IInv ==
    /\ Tunnels(pieces)
    /\ exits \in Seq(SUBSET AnyExit)
    /\ settled \in BOOLEAN /\ surface \in BOOLEAN
    /\ ~settled => \A i \in 1 .. Len(pieces) : pieces[i].bounds.y0 >= -2 /\ pieces[i].bounds.y1 <= 94
    /\ settled => exits = <<>>
    /\ TunnelsInWorld

(* The draws of the code. *)
Draws ==
    /\ Kinds \subseteq {"Corridor", "Crossing", "Stairs"}
    /\ RoomTops \subseteq 54 .. 59 /\ RoomSides \subseteq 7 .. 12
    /\ Doors \subseteq Int /\ Ups \subseteq 0 .. 5

(* What makes an exit. *)
LEMMA Exits ==
    ASSUME NEW x \in Int, NEW y \in Int, NEW z \in Int, NEW dir \in Orientations, NEW depth \in Nat,
           Lowest(depth) <= y, y <= Highest(depth)
    PROVE  exit(x, y, z, dir, depth) \in AnyExit
  BY Zenon DEF exit, AnyExit, Places

(* Nothing passes for one: it is refused by its depth. *)
LEMMA NoExit == Nothing \in AnyExit
  BY DEF Nothing, exit, AnyExit, Places, Lowest, Highest, MAX_DEPTH, Orientations, North

(* What an exit of depth k may lead to stands at the exit or, stairs, five     *)
(* blocks below it.                                                            *)
Hung(p) ==
    /\ p \in AnyTunnel /\ p.gen_depth >= 1 /\ p.kind # "Room"
    /\ Lowest(p.gen_depth) <= p.bounds.y0 - 1
    /\ p.bounds.y0 + 4 <= Highest(p.gen_depth)

(* An exit in the wall or at the end of such a piece. *)
LEMMA HungExits ==
    ASSUME NEW p, Hung(p), NEW x \in Int, NEW z \in Int, NEW up \in -1 .. 4, NEW dir \in Orientations
    PROVE  /\ exit(x, p.bounds.y0 + up, z, dir, p.gen_depth) \in AnyExit
           /\ exit(x, p.bounds.y0 + up, z, dir, p.gen_depth + 1) \in AnyExit
  <1>1. p.gen_depth \in Nat /\ p.gen_depth + 1 \in Nat /\ p.bounds.y0 \in Int /\ p.bounds.y0 + up \in Int
    BY DEF Hung, AnyTunnel, Boxes
  <1>2. Lowest(p.gen_depth) <= p.bounds.y0 + up /\ p.bounds.y0 + up <= Highest(p.gen_depth)
    BY <1>1 DEF Hung, Lowest, Highest
  <1>3. Lowest(p.gen_depth + 1) <= p.bounds.y0 + up /\ p.bounds.y0 + up <= Highest(p.gen_depth + 1)
    BY <1>1, <1>2 DEF Lowest, Highest
  <1> QED
    BY Zenon, <1>1, <1>2, <1>3, Exits

(* The parts of such a piece. *)
LEMMA HungBounds ==
    ASSUME NEW p, Hung(p)
    PROVE  /\ p.bounds.x0 \in Int /\ p.bounds.x1 \in Int /\ p.bounds.y0 \in Int
           /\ p.bounds.z0 \in Int /\ p.bounds.z1 \in Int /\ p.bounds.y1 \in Int
           /\ p.orientation \in Orientations /\ p.gen_depth \in Nat
           /\ p.kind \in {"Corridor", "Crossing", "Stairs"}
  <1>1. p.bounds \in Boxes /\ p.orientation \in Orientations /\ p.gen_depth \in Nat
        /\ p.kind \in {"Corridor", "Crossing", "Stairs"}
    BY Zenon DEF Hung, AnyTunnel, TunnelKinds
  <1> QED
    BY Zenon, <1>1 DEF Boxes

(* add_stairs_children: one exit, at the foot of the stairs. *)
LEMMA HungStairs ==
    ASSUME NEW p, Hung(p)
    PROVE  add_stairs_children(p) \in Seq(SUBSET AnyExit)
  <1> DEFINE b == p.bounds
             d == p.gen_depth
  <1>1. /\ b.x0 \in Int /\ b.x1 \in Int /\ b.z0 \in Int /\ b.z1 \in Int /\ b.y0 \in Int
        /\ p.orientation \in Orientations
    BY Zenon, HungBounds
  <1>2. /\ exit(b.x0, b.y0 + 0, b.z0 - 1, North, d) \in AnyExit
        /\ exit(b.x0, b.y0 + 0, b.z1 + 1, South, d) \in AnyExit
        /\ exit(b.x0 - 1, b.y0 + 0, b.z0, West, d) \in AnyExit
        /\ exit(b.x1 + 1, b.y0 + 0, b.z0, East, d) \in AnyExit
    BY <1>1, HungExits DEF Orientations
  <1>3. b.y0 + 0 = b.y0
    BY <1>1
  <1> DEFINE e == CASE p.orientation = North -> exit(b.x0, b.y0, b.z0 - 1, North, d)
                    [] p.orientation = South -> exit(b.x0, b.y0, b.z1 + 1, South, d)
                    [] p.orientation = West  -> exit(b.x0 - 1, b.y0, b.z0, West, d)
                    [] p.orientation = East  -> exit(b.x1 + 1, b.y0, b.z0, East, d)
  <1>4. e \in AnyExit
    BY Zenon, <1>1, <1>2, <1>3 DEF Orientations, North, South, West, East
  <1>5. add_stairs_children(p) = <<{e}>>
    BY Zenon DEF add_stairs_children
  <1> HIDE DEF e
  <1> QED
    BY <1>4, <1>5

(* add_corridor_children: on from the end, a block up, level or a block down. *)
LEMMA HungEnds ==
    ASSUME NEW p, Hung(p), NEW up \in -1 .. 1
    PROVE  corridor_ends(p, p.bounds.y0 + up) \subseteq AnyExit
  <1> DEFINE b == p.bounds
             d == p.gen_depth
             y == b.y0 + up
             xw == b.x1 - SHAFT_WIDTH
             zw == b.z1 - SHAFT_WIDTH
  <1>1. /\ b.x0 \in Int /\ b.x1 \in Int /\ b.z0 \in Int /\ b.z1 \in Int /\ b.y0 \in Int
        /\ p.orientation \in Orientations
    BY Zenon, HungBounds
  <1>2. up \in -1 .. 4 /\ xw \in Int /\ zw \in Int
    BY <1>1 DEF SHAFT_WIDTH
  <1> HIDE DEF xw, zw
  <1>3. /\ exit(b.x0, y, b.z0 - 1, North, d) \in AnyExit /\ exit(b.x0 - 1, y, b.z0, West, d) \in AnyExit
        /\ exit(b.x1 + 1, y, b.z0, East, d) \in AnyExit /\ exit(b.x0, y, b.z1 + 1, South, d) \in AnyExit
    BY SMTT(30), <1>1, <1>2, HungExits DEF Orientations
  <1>8. exit(b.x0 - 1, y, zw, West, d) \in AnyExit /\ exit(b.x1 + 1, y, zw, East, d) \in AnyExit
    BY <1>1, <1>2, HungExits DEF Orientations
  <1>9. exit(xw, y, b.z0 - 1, North, d) \in AnyExit /\ exit(xw, y, b.z1 + 1, South, d) \in AnyExit
    BY <1>1, <1>2, HungExits DEF Orientations
  <1> HIDE DEF y
  <1> DEFINE Ends(a, c, e) == corridor_ends(p, y) = {a, c, e}
  <1>4. CASE p.orientation = North
    <2>1. Ends(exit(b.x0, y, b.z0 - 1, North, d), exit(b.x0 - 1, y, b.z0, West, d), exit(b.x1 + 1, y, b.z0, East, d))
      BY <1>4, Zenon DEF corridor_ends, xw, zw, North, South, West, East
    <2> QED
      BY Zenon, <2>1, <1>3, <1>8, <1>9 DEF y
  <1>5. CASE p.orientation = South
    <2>1. Ends(exit(b.x0, y, b.z1 + 1, South, d), exit(b.x0 - 1, y, zw, West, d),
               exit(b.x1 + 1, y, zw, East, d))
      BY <1>5, Zenon DEF corridor_ends, xw, zw, North, South, West, East
    <2> QED
      BY Zenon, <2>1, <1>3, <1>8, <1>9 DEF y
  <1>6. CASE p.orientation = West
    <2>1. Ends(exit(b.x0 - 1, y, b.z0, West, d), exit(b.x0, y, b.z0 - 1, North, d), exit(b.x0, y, b.z1 + 1, South, d))
      BY <1>6, Zenon DEF corridor_ends, xw, zw, North, South, West, East
    <2> QED
      BY Zenon, <2>1, <1>3, <1>8, <1>9 DEF y
  <1>7. CASE p.orientation = East
    <2>1. Ends(exit(b.x1 + 1, y, b.z0, East, d), exit(xw, y, b.z0 - 1, North, d),
               exit(xw, y, b.z1 + 1, South, d))
      BY <1>7, Zenon DEF corridor_ends, xw, zw, North, South, West, East
    <2> QED
      BY Zenon, <2>1, <1>3, <1>8, <1>9 DEF y
  <1> QED
    BY Zenon, <1>1, <1>4, <1>5, <1>6, <1>7 DEF Orientations

(* add_corridor_children: a tunnel to the side, one generation further. *)
LEMMA HungSides ==
    ASSUME NEW p, Hung(p), NEW n \in Int
    PROVE  side_tunnels(p, n) \subseteq AnyExit
  <1> DEFINE b == p.bounds
             along == p.orientation \in {North, South}
             at == (IF along THEN b.z0 ELSE b.x0) + 3 + SHAFT_LENGTH * n
             d == p.gen_depth + 1
  <1>1. /\ b.x0 \in Int /\ b.x1 \in Int /\ b.z0 \in Int /\ b.z1 \in Int /\ b.y0 \in Int
    BY Zenon, HungBounds
  <1>2. at \in Int
    BY <1>1 DEF SHAFT_LENGTH
  <1> HIDE DEF at
  <1>3. /\ exit(b.x0 - 1, b.y0 + 0, at, West, d) \in AnyExit /\ exit(b.x1 + 1, b.y0 + 0, at, East, d) \in AnyExit
        /\ exit(at, b.y0 + 0, b.z0 - 1, North, d) \in AnyExit /\ exit(at, b.y0 + 0, b.z1 + 1, South, d) \in AnyExit
    BY <1>1, <1>2, HungExits DEF Orientations
  <1>4. b.y0 + 0 = b.y0
    BY <1>1
  <1> QED
    BY Zenon, <1>3, <1>4, NoExit DEF side_tunnels, at

(* All the exits of a corridor. *)
LEMMA HungCorridor ==
    ASSUME Draws, NEW p, Hung(p)
    PROVE  add_corridor_children(p) \in Seq(SUBSET AnyExit)
  <1>1. p.bounds.y0 \in Int
    BY Zenon, HungBounds
  <1>2. ASSUME NEW u \in Ups \cap 0 .. 2
        PROVE  corridor_ends(p, p.bounds.y0 - 1 + u) \subseteq AnyExit
    <2>1. u - 1 \in -1 .. 1 /\ p.bounds.y0 - 1 + u = p.bounds.y0 + (u - 1)
      BY <1>1
    <2> QED
      BY Zenon, <2>1, HungEnds
  <1>3. UNION {corridor_ends(p, p.bounds.y0 - 1 + u) : u \in Ups \cap 0 .. 2} \subseteq AnyExit
    BY Zenon, <1>2
  <1>4. side_tunnels(p, 0) \subseteq AnyExit /\ side_tunnels(p, 1) \subseteq AnyExit /\ side_tunnels(p, 2) \subseteq AnyExit
    BY HungSides
  <1> QED
    BY <1>3, <1>4 DEF add_corridor_children

(* add_crossing_children: three ways on, and four from an upper floor. *)
LEMMA HungCrossing ==
    ASSUME NEW p, Hung(p)
    PROVE  add_crossing_children(p) \in Seq(SUBSET AnyExit)
  <1> DEFINE b == p.bounds
             d == p.gen_depth
             n(y) == exit(b.x0 + 1, y, b.z0 - 1, North, d)
             s(y) == exit(b.x0 + 1, y, b.z1 + 1, South, d)
             w(y) == exit(b.x0 - 1, y, b.z0 + 1, West, d)
             e(y) == exit(b.x1 + 1, y, b.z0 + 1, East, d)
             up == b.y0 + SHAFT_HEIGHT + 1
  <1>1. /\ b.x0 \in Int /\ b.x1 \in Int /\ b.z0 \in Int /\ b.z1 \in Int /\ b.y0 \in Int
        /\ p.orientation \in Orientations
    BY Zenon, HungBounds
  <1>2. b.y0 + 0 = b.y0 /\ b.y0 + 4 = up
    BY <1>1 DEF SHAFT_HEIGHT
  <1>3. /\ n(b.y0 + 0) \in AnyExit /\ s(b.y0 + 0) \in AnyExit
        /\ w(b.y0 + 0) \in AnyExit /\ e(b.y0 + 0) \in AnyExit
    BY <1>1, HungExits DEF Orientations
  <1>4. /\ n(b.y0 + 4) \in AnyExit /\ s(b.y0 + 4) \in AnyExit
        /\ w(b.y0 + 4) \in AnyExit /\ e(b.y0 + 4) \in AnyExit
    BY <1>1, HungExits DEF Orientations
  <1> HIDE DEF up, n, s, w, e
  <1> DEFINE lower == CASE p.orientation = North -> <<{n(b.y0)}, {w(b.y0)}, {e(b.y0)}>>
                        [] p.orientation = South -> <<{s(b.y0)}, {w(b.y0)}, {e(b.y0)}>>
                        [] p.orientation = West  -> <<{n(b.y0)}, {s(b.y0)}, {w(b.y0)}>>
                        [] p.orientation = East  -> <<{n(b.y0)}, {s(b.y0)}, {e(b.y0)}>>
             upper == <<{Nothing, n(up)}, {Nothing, w(up)}, {Nothing, e(up)}, {Nothing, s(up)}>>
  <1>5. add_crossing_children(p) = IF y_span(b) > SHAFT_HEIGHT THEN lower \o upper ELSE lower
    BY Zenon DEF add_crossing_children, n, s, w, e, up
  <1>6. upper \in Seq(SUBSET AnyExit)
    BY <1>2, <1>4, NoExit
  <1>7. lower \in Seq(SUBSET AnyExit)
    <2>1. CASE p.orientation = North
      <3>1. lower = <<{n(b.y0)}, {w(b.y0)}, {e(b.y0)}>>
        BY <2>1, Zenon DEF North, South, West, East
      <3> HIDE DEF lower
      <3> QED
        BY <3>1, <1>2, <1>3
    <2>2. CASE p.orientation = South
      <3>1. lower = <<{s(b.y0)}, {w(b.y0)}, {e(b.y0)}>>
        BY <2>2, Zenon DEF North, South, West, East
      <3> HIDE DEF lower
      <3> QED
        BY <3>1, <1>2, <1>3
    <2>3. CASE p.orientation = West
      <3>1. lower = <<{n(b.y0)}, {s(b.y0)}, {w(b.y0)}>>
        BY <2>3, Zenon DEF North, South, West, East
      <3> HIDE DEF lower
      <3> QED
        BY <3>1, <1>2, <1>3
    <2>4. CASE p.orientation = East
      <3>1. lower = <<{n(b.y0)}, {s(b.y0)}, {e(b.y0)}>>
        BY <2>4, Zenon DEF North, South, West, East
      <3> HIDE DEF lower
      <3> QED
        BY <3>1, <1>2, <1>3
    <2> HIDE DEF lower
    <2> QED
      BY Zenon, <1>1, <2>1, <2>2, <2>3, <2>4 DEF Orientations
  <1> HIDE DEF lower, upper
  <1> QED
    BY <1>5, <1>6, <1>7

(* Whatever was built, the exits it leads to are within the limits of their    *)
(* generation.                                                                 *)
LEMMA HungChildren ==
    ASSUME Draws, NEW p, Hung(p)
    PROVE  add_children(p) \in Seq(SUBSET AnyExit)
  <1>1. p.kind \in {"Corridor", "Crossing", "Stairs"}
    BY Zenon, HungBounds
  <1>2. CASE p.kind = "Corridor"
    <2>1. add_children(p) = add_corridor_children(p)
      BY <1>2, Zenon DEF add_children
    <2> QED
      BY Zenon, <2>1, HungCorridor
  <1>3. CASE p.kind = "Crossing"
    <2>1. add_children(p) = add_crossing_children(p)
      BY <1>3, Zenon DEF add_children
    <2> QED
      BY Zenon, <2>1, HungCrossing
  <1>4. CASE p.kind = "Stairs"
    <2>1. add_children(p) = add_stairs_children(p)
      BY <1>4, Zenon DEF add_children
    <2> QED
      BY Zenon, <2>1, HungStairs
  <1> QED
    BY Zenon, <1>1, <1>2, <1>3, <1>4

(* How deep and how high the eight generations may go. *)
LEMMA Levels ==
    ASSUME NEW k \in 0 .. 8
    PROVE  /\ Lowest(k) \in Int /\ Lowest(k) >= 3 /\ Lowest(k + 1) = Lowest(k) - 6
           /\ Highest(k) \in Int /\ Highest(k) <= 88 /\ Highest(k + 1) = Highest(k) + 4
  BY DEF Lowest, Highest

(* A room has its exits between one block above its floor and six. *)
LEMMA RoomChildren ==
    ASSUME Draws, NEW p, NEW x \in Int, NEW z \in Int, NEW y1 \in Int,
           p.bounds = Box(2, 50, 2, x, y1, z)
    PROVE  add_room_children(p) \in Seq(SUBSET AnyExit)
  <1> DEFINE b == p.bounds
             space == y_span(b) - SHAFT_HEIGHT - 1
             ys == {b.y0 + 1 + u : u \in {v \in Ups : v < (IF space <= 0 THEN 1 ELSE space)}}
             xs == {b.x0 + q : q \in {r \in Doors : r + SHAFT_WIDTH <= x_span(b)}}
             zs == {b.z0 + q : q \in {r \in Doors : r + SHAFT_WIDTH <= z_span(b)}}
  <1>1. b.x0 = 2 /\ b.y0 = 50 /\ b.z0 = 2 /\ b.x1 = x /\ b.z1 = z
    BY DEF Box
  <1>2. ys \subseteq 51 .. 56
    <2>1. Ups \subseteq 0 .. 5
      BY Zenon DEF Draws
    <2>2. ys \subseteq {b.y0 + 1 + u : u \in Ups}
      BY Zenon
    <2>3. \A u \in Ups : b.y0 + 1 + u \in 51 .. 56
      BY <1>1, <2>1
    <2> QED
      BY Zenon, <2>2, <2>3
  <1>3. xs \subseteq Int /\ zs \subseteq Int
    <2>1. \A q \in Doors : b.x0 + q \in Int /\ b.z0 + q \in Int
      BY <1>1 DEF Draws
    <2> QED
      BY Zenon, <2>1
  <1>4. add_room_children(p) =
          <<{Nothing} \cup {exit(i, y, b.z0 - 1, North, 0) : i \in xs, y \in ys},
            {Nothing} \cup {exit(i, y, b.z1 + 1, South, 0) : i \in xs, y \in ys},
            {Nothing} \cup {exit(b.x0 - 1, y, k, West, 0) : k \in zs, y \in ys},
            {Nothing} \cup {exit(b.x1 + 1, y, k, East, 0) : k \in zs, y \in ys}>>
    BY DEF add_room_children
  <1> HIDE DEF xs, ys, zs
  <1>5. ASSUME NEW i \in Int, NEW k \in Int, NEW y \in 51 .. 56, NEW dir \in Orientations
        PROVE  exit(i, y, k, dir, 0) \in AnyExit
    BY <1>5, Exits DEF Lowest, Highest
  <1>6. b.z0 - 1 \in Int /\ b.z1 + 1 \in Int /\ b.x0 - 1 \in Int /\ b.x1 + 1 \in Int
    BY <1>1
  <1> DEFINE zl == b.z0 - 1
             zh == b.z1 + 1
             xl == b.x0 - 1
             xh == b.x1 + 1
             north == {exit(i, y, zl, North, 0) : i \in xs, y \in ys}
             south == {exit(i, y, zh, South, 0) : i \in xs, y \in ys}
             west == {exit(xl, y, k, West, 0) : k \in zs, y \in ys}
             east == {exit(xh, y, k, East, 0) : k \in zs, y \in ys}
  <1>7. zl \in Int /\ zh \in Int /\ xl \in Int /\ xh \in Int
    BY Zenon, <1>6
  <1>8. North \in Orientations /\ South \in Orientations /\ West \in Orientations /\ East \in Orientations
    BY Zenon DEF Orientations
  <1> HIDE DEF zl, zh, xl, xh
  <1>9. north \subseteq AnyExit /\ south \subseteq AnyExit /\ west \subseteq AnyExit /\ east \subseteq AnyExit
    BY <1>2, <1>3, <1>5, <1>7, <1>8
  <1>10. add_room_children(p) =
           <<{Nothing} \cup north, {Nothing} \cup south, {Nothing} \cup west, {Nothing} \cup east>>
    BY <1>4 DEF zl, zh, xl, xh
  <1> HIDE DEF north, south, west, east
  <1> QED
    BY <1>9, <1>10, NoExit

(* An exit that is not refused is near enough for any piece behind it, and     *)
(* neither too low nor too high.                                               *)
LEMMA NearExit ==
    ASSUME NEW e \in AnyExit, ~Refused(e), pieces[1].bounds.x0 = 2, pieces[1].bounds.z0 = 2
    PROVE  /\ e.foot \in Places /\ e.dir \in Orientations /\ e.depth \in 0 .. 8
           /\ e.foot[1] \in -78 .. 82 /\ e.foot[3] \in -78 .. 82
           /\ e.foot[2] \in Int /\ Lowest(e.depth) <= e.foot[2] /\ e.foot[2] <= Highest(e.depth)
           /\ e.foot[2] \in 3 .. 88
  <1>1. /\ e.foot \in Places /\ e.dir \in Orientations /\ e.depth \in Nat
        /\ Lowest(e.depth) <= e.foot[2] /\ e.foot[2] <= Highest(e.depth)
    BY Zenon DEF AnyExit
  <1>2. e.foot[1] \in Int /\ e.foot[2] \in Int /\ e.foot[3] \in Int
    BY Zenon, <1>1 DEF Places
  <1>3. e.depth \in 0 .. 8 /\ e.foot[1] \in -78 .. 82 /\ e.foot[3] \in -78 .. 82
    BY SMTT(30), <1>1, <1>2 DEF Refused, MAX_DEPTH, MAX_DISTANCE
  <1>4. e.foot[2] \in 3 .. 88
    BY <1>1, <1>2, <1>3, Levels
  <1> QED
    BY Zenon, <1>1, <1>2, <1>3, <1>4

(* What create_random_piece may return: a box at the exit, or five below it,   *)
(* as far as twenty blocks deep.                                               *)
LEMMA Behind ==
    ASSUME NEW e \in AnyExit, ~Refused(e), pieces[1].bounds.x0 = 2, pieces[1].bounds.z0 = 2,
           NEW off \in Places, NEW size \in Sizes, off[1] \in -1 .. 0, off[2] \in {-5, 0}, off[3] = 0,
           size[1] <= 20, size[2] + off[2] <= 7, size[3] <= 20, NEW b, b = orient_box(e.foot, off, size, e.dir)
    PROVE  /\ b \in Boxes /\ InReach(b) /\ b.y0 >= -2 /\ b.y1 <= 94
           /\ Lowest(e.depth + 1) <= b.y0 - 1 /\ b.y0 + 4 <= Highest(e.depth + 1)
  <1>1. /\ e.foot \in Places /\ e.dir \in Orientations /\ e.depth \in 0 .. 8
        /\ e.foot[1] \in -78 .. 82 /\ e.foot[3] \in -78 .. 82
        /\ Lowest(e.depth) <= e.foot[2] /\ e.foot[2] <= Highest(e.depth)
        /\ e.foot[2] \in 3 .. 88
    BY NearExit
  <1>2. b \in Boxes /\ b.y0 = e.foot[2] + off[2] /\ b.y1 = e.foot[2] + off[2] + size[2] - 1
    BY Zenon, <1>1, OrientedBox
  <1>3. /\ off[1] \in -4 .. 0 /\ size[1] <= 19 + 1 /\ size[3] <= 19 + 1
        /\ size[2] \in Int
    BY DEF Sizes
  <1>4. Within(b, e.foot, 19)
    BY <1>1, <1>3, OrientedNear
  <1>5. /\ b.x0 \in Int /\ b.x1 \in Int /\ b.z0 \in Int /\ b.z1 \in Int
        /\ b.y0 \in Int /\ b.y1 \in Int
    BY Zenon, <1>2 DEF Boxes
  <1>6. InReach(b)
    BY SMTT(30), <1>1, <1>4, <1>5 DEF InReach, Within
  <1>7. b.y0 >= -2 /\ b.y1 <= 94
    BY SMTT(30), <1>1, <1>2, <1>3
  <1>8. Lowest(e.depth + 1) <= b.y0 - 1 /\ b.y0 + 4 <= Highest(e.depth + 1)
    <2>1. /\ Lowest(e.depth) \in Int /\ Lowest(e.depth + 1) = Lowest(e.depth) - 6
          /\ Highest(e.depth) \in Int /\ Highest(e.depth + 1) = Highest(e.depth) + 4
      BY Zenon, <1>1, Levels
    <2>2. e.foot[2] \in Int /\ off[2] \in Int /\ off[2] >= -5 /\ off[2] <= 0
      BY <1>1
    <2> QED
      BY <1>1, <1>2, <2>1, <2>2
  <1> QED
    BY Zenon, <1>2, <1>6, <1>7, <1>8

(* create_random_piece: what it returns meets nothing and can be built on. *)
LEMMA Created ==
    ASSUME NEW e \in AnyExit, ~Refused(e), pieces[1].bounds.x0 = 2, pieces[1].bounds.z0 = 2,
           NEW kind \in {"Corridor", "Crossing", "Stairs"}, NEW b \in create_random_piece(kind, e)
    PROVE  /\ b \in Boxes /\ InReach(b) /\ b.y0 >= -2 /\ b.y1 <= 94 /\ ~collides(pieces, b)
           /\ Hung(piece(kind, b, e.dir, e.depth + 1))
  <1> DEFINE Good == /\ b \in Boxes /\ InReach(b) /\ b.y0 >= -2 /\ b.y1 <= 94
                     /\ Lowest(e.depth + 1) <= b.y0 - 1 /\ b.y0 + 4 <= Highest(e.depth + 1)
  <1>1. Good /\ ~collides(pieces, b)
    <2>1. CASE kind = "Corridor"
      <3>1. b \in find_corridor(e)
        BY <2>1, Zenon DEF create_random_piece
      <3>2. PICK n \in 1 .. 4 : b = corridor_box(e, n) /\ ~collides(pieces, corridor_box(e, n))
        BY Zenon, <3>1 DEF find_corridor
      <3> DEFINE off == <<0, 0, 0>>
                 size == <<3, 3, 5 * n>>
      <3>3. /\ off \in Places /\ size \in Sizes /\ off[1] \in -1 .. 0 /\ off[2] \in {-5, 0} /\ off[3] = 0
            /\ size[1] <= 20 /\ size[2] + off[2] <= 7 /\ size[3] <= 20
        BY DEF Places, Sizes
      <3>4. b = orient_box(e.foot, off, size, e.dir)
        BY Zenon, <3>2 DEF corridor_box, SHAFT_WIDTH, SHAFT_HEIGHT, SHAFT_LENGTH
      <3> HIDE DEF off, size
      <3> QED
        BY <3>2, <3>3, <3>4, Behind
    <2>2. CASE kind = "Crossing"
      <3>1. b \in find_crossing(e)
        BY <2>2, Zenon DEF create_random_piece
      <3>2. PICK height \in {3, 7} :
                /\ b = orient_box(e.foot, <<-1, 0, 0>>, <<5, height, 5>>, e.dir)
                /\ ~collides(pieces, b)
        BY <3>1 DEF find_crossing, SHAFT_WIDTH, SHAFT_HEIGHT
      <3> DEFINE off == <<-1, 0, 0>>
                 size == <<5, height, 5>>
      <3>3. /\ off \in Places /\ size \in Sizes /\ off[1] \in -1 .. 0 /\ off[2] \in {-5, 0} /\ off[3] = 0
            /\ size[1] <= 20 /\ size[2] + off[2] <= 7 /\ size[3] <= 20
        BY DEF Places, Sizes
      <3>4. b = orient_box(e.foot, off, size, e.dir)
        BY Zenon, <3>2
      <3> HIDE DEF off, size
      <3> QED
        BY <3>2, <3>3, <3>4, Behind
    <2>3. CASE kind = "Stairs"
      <3>1. b \in find_stairs(e)
        BY <2>3, Zenon DEF create_random_piece
      <3>2. /\ b = orient_box(e.foot, <<0, -5, 0>>, <<3, 8, 9>>, e.dir)
            /\ ~collides(pieces, b)
        BY <3>1 DEF find_stairs, SHAFT_WIDTH, SHAFT_HEIGHT
      <3> DEFINE off == <<0, -5, 0>>
                 size == <<3, 8, 9>>
      <3>3. /\ off \in Places /\ size \in Sizes /\ off[1] \in -1 .. 0 /\ off[2] \in {-5, 0} /\ off[3] = 0
            /\ size[1] <= 20 /\ size[2] + off[2] <= 7 /\ size[3] <= 20
        BY DEF Places, Sizes
      <3>4. b = orient_box(e.foot, off, size, e.dir)
        BY Zenon, <3>2
      <3> HIDE DEF off, size
      <3> QED
        BY <3>2, <3>3, <3>4, Behind
    <2> QED
      BY Zenon, <2>1, <2>2, <2>3
  <1> DEFINE p == piece(kind, b, e.dir, e.depth + 1)
  <1>2. e.dir \in Orientations /\ e.depth \in Nat
    BY Zenon DEF AnyExit
  <1>3. p.kind = kind /\ p.bounds = b /\ p.gen_depth = e.depth + 1 /\ p \in AnyTunnel
    BY <1>1, <1>2 DEF piece, AnyTunnel, TunnelKinds
  <1> HIDE DEF p
  <1>4. Hung(p)
    BY <1>1, <1>2, <1>3 DEF Hung
  <1> QED
    BY Zenon, <1>1, <1>4 DEF p

(* Such a piece may join. *)
LEMMA TunnelJoins ==
    ASSUME NEW ps, Tunnels(ps), NEW p \in AnyTunnel, InReach(p.bounds), ~collides(ps, p.bounds)
    PROVE  /\ Tunnels(Append(ps, p)) /\ Len(Append(ps, p)) = Len(ps) + 1
           /\ Append(ps, p)[Len(ps) + 1] = p
           /\ \A i \in 1 .. Len(ps) : Append(ps, p)[i] = ps[i]
  <1> DEFINE qs == Append(ps, p)
  <1>1. ps \in Seq(AnyTunnel) /\ Len(ps) \in Nat /\ Len(ps) >= 1
    BY DEF Tunnels
  <1>2. /\ qs \in Seq(AnyTunnel) /\ Len(qs) = Len(ps) + 1
        /\ qs[Len(ps) + 1] = p
        /\ \A i \in 1 .. Len(ps) : qs[i] = ps[i]
    BY <1>1
  <1>3. \A i \in 1 .. Len(ps) : ~intersects(ps[i].bounds, p.bounds) /\ ~intersects(p.bounds, ps[i].bounds)
    <2> SUFFICES ASSUME NEW i \in 1 .. Len(ps)
                 PROVE  ~intersects(ps[i].bounds, p.bounds) /\ ~intersects(p.bounds, ps[i].bounds)
      BY Zenon
    <2>1. ~intersects(ps[i].bounds, p.bounds)
      BY <1>1 DEF collides
    <2>2. ps[i] \in AnyTunnel
      BY <1>1
    <2>3. ps[i].bounds \in Boxes /\ p.bounds \in Boxes
      BY Zenon, <2>2 DEF AnyTunnel
    <2> QED
      BY Zenon, <2>1, <2>3, Symmetric
  <1> HIDE DEF qs
  <1>4. \A i \in 1 .. Len(qs) : InReach(qs[i].bounds)
    <2> SUFFICES ASSUME NEW i \in 1 .. Len(qs) PROVE InReach(qs[i].bounds)
      BY Zenon
    <2>1. CASE i \in 1 .. Len(ps)
      BY Zenon, <2>1, <1>2 DEF Tunnels
    <2>2. CASE i = Len(ps) + 1
      BY Zenon, <2>2, <1>2
    <2> QED
      BY <2>1, <2>2, <1>1, <1>2
  <1>5. ASSUME NEW i \in 1 .. Len(qs), NEW j \in 1 .. Len(qs), i # j
        PROVE  ~intersects(qs[i].bounds, qs[j].bounds)
    <2>1. CASE i \in 1 .. Len(ps) /\ j \in 1 .. Len(ps)
      BY Zenon, <2>1, <1>2, <1>5 DEF Tunnels
    <2>2. CASE i = Len(ps) + 1 /\ j \in 1 .. Len(ps)
      BY Zenon, <2>2, <1>2, <1>3
    <2>3. CASE i \in 1 .. Len(ps) /\ j = Len(ps) + 1
      BY Zenon, <2>3, <1>2, <1>3
    <2> QED
      BY <2>1, <2>2, <2>3, <1>1, <1>2, <1>5
  <1>6. qs[1].bounds.x0 = 2 /\ qs[1].bounds.z0 = 2 /\ Len(qs) >= 1
    BY <1>1, <1>2 DEF Tunnels
  <1> QED
    BY Zenon, <1>2, <1>4, <1>5, <1>6 DEF Tunnels, qs

(* generate_and_add_piece keeps the plan in order. *)
LEMMA ExitStep ==
    ASSUME Draws, IInv, generate_and_add_piece
    PROVE  IInv'
  <1>1. /\ exits # <<>> /\ exits \in Seq(SUBSET AnyExit) /\ settled' = settled /\ surface' = surface
        /\ settled \in BOOLEAN /\ surface \in BOOLEAN
    BY Zenon DEF generate_and_add_piece, IInv
  <1>2. Head(exits) \subseteq AnyExit /\ Tail(exits) \in Seq(SUBSET AnyExit)
    BY <1>1
  <1>3. ~settled
    BY Zenon, <1>1 DEF IInv
  <1>4. CASE UNCHANGED pieces /\ exits' = Tail(exits)
    BY Zenon, <1>1, <1>2, <1>3, <1>4 DEF IInv, TunnelsInWorld
  <1>5. CASE \E e \in Head(exits) : /\ ~Refused(e)
                                    /\ \E kind \in Kinds : \E b \in create_random_piece(kind, e) :
                                         /\ pieces' = Append(pieces, piece(kind, b, e.dir, e.depth + 1))
                                         /\ exits' = add_children(piece(kind, b, e.dir, e.depth + 1)) \o Tail(exits)
    <2>1. PICK e \in Head(exits) : /\ ~Refused(e)
                                   /\ \E kind \in Kinds : \E b \in create_random_piece(kind, e) :
                                        /\ pieces' = Append(pieces, piece(kind, b, e.dir, e.depth + 1))
                                        /\ exits' = add_children(piece(kind, b, e.dir, e.depth + 1)) \o Tail(exits)
      BY Zenon, <1>5
    <2>2. PICK kind \in Kinds : \E b \in create_random_piece(kind, e) :
                                        /\ pieces' = Append(pieces, piece(kind, b, e.dir, e.depth + 1))
                                        /\ exits' = add_children(piece(kind, b, e.dir, e.depth + 1)) \o Tail(exits)
      BY Zenon, <2>1
    <2>3. PICK b \in create_random_piece(kind, e) :
                                        /\ pieces' = Append(pieces, piece(kind, b, e.dir, e.depth + 1))
                                        /\ exits' = add_children(piece(kind, b, e.dir, e.depth + 1)) \o Tail(exits)
      BY Zenon, <2>2
    <2> DEFINE p == piece(kind, b, e.dir, e.depth + 1)
    <2>4. e \in AnyExit /\ kind \in {"Corridor", "Crossing", "Stairs"}
      BY Zenon, <1>2 DEF Draws
    <2>5. Tunnels(pieces) /\ pieces[1].bounds.x0 = 2 /\ pieces[1].bounds.z0 = 2
      BY Zenon DEF IInv, Tunnels
    <2>6. /\ b \in Boxes /\ InReach(b) /\ b.y0 >= -2 /\ b.y1 <= 94 /\ ~collides(pieces, b)
          /\ Hung(p)
      BY <2>1, <2>4, <2>5, Created
    <2>7. p.bounds = b
      BY Zenon DEF piece
    <2>8. pieces' = Append(pieces, p) /\ exits' = add_children(p) \o Tail(exits)
      BY Zenon, <2>3
    <2> HIDE DEF p
    <2>9. p \in AnyTunnel
      BY Zenon, <2>6 DEF Hung
    <2>10. /\ Tunnels(pieces') /\ Len(pieces') = Len(pieces) + 1 /\ pieces'[Len(pieces) + 1] = p
           /\ \A i \in 1 .. Len(pieces) : pieces'[i] = pieces[i]
      BY Zenon, <2>5, <2>6, <2>7, <2>8, <2>9, TunnelJoins
    <2>11. exits' \in Seq(SUBSET AnyExit)
      <3>1. add_children(p) \in Seq(SUBSET AnyExit)
        BY Zenon, <2>6, HungChildren
      <3> QED
        BY <3>1, <1>2, <2>8
    <2>12. \A i \in 1 .. Len(pieces') : pieces'[i].bounds.y0 >= -2 /\ pieces'[i].bounds.y1 <= 94
      <3>1. Len(pieces) \in Nat
        BY <2>5 DEF Tunnels
      <3>2. \A i \in 1 .. Len(pieces) : pieces[i].bounds.y0 >= -2 /\ pieces[i].bounds.y1 <= 94
        BY Zenon, <1>3 DEF IInv
      <3> SUFFICES ASSUME NEW i \in 1 .. Len(pieces')
                   PROVE  pieces'[i].bounds.y0 >= -2 /\ pieces'[i].bounds.y1 <= 94
        BY Zenon
      <3>3. CASE i \in 1 .. Len(pieces)
        BY Zenon, <3>2, <3>3, <2>10
      <3>4. CASE i = Len(pieces) + 1
        BY Zenon, <3>4, <2>6, <2>7, <2>10
      <3> QED
        BY <3>1, <3>3, <3>4, <2>10
    <2> QED
      BY Zenon, <1>1, <1>3, <2>10, <2>11, <2>12 DEF IInv, TunnelsInWorld
  <1> QED
    BY Zenon, <1>4, <1>5 DEF generate_and_add_piece

(* What lies between the lowest floor and the highest ceiling moves with them. *)
LEMMA Shifted ==
    ASSUME NEW low \in Int, NEW high \in Int, NEW floor \in Int, NEW top \in Int, NEW dy \in Int,
           dy >= 1 - low, high + dy < 128, low <= floor, top <= high
    PROVE  floor + dy >= 1 /\ top + dy < 128
  OBVIOUS

(* settle moves the whole plan into the world. *)
LEMMA SettleStep ==
    ASSUME IInv, settle
    PROVE  IInv'
  <1> DEFINE Tops(span) == IF surface THEN {SEA_LEVEL + span \div 2 + 5}
                           ELSE {span + 1} \cup span + 1 .. SEA_LEVEL - 11
  <1>0. PICK low \in DOMAIN pieces, high \in DOMAIN pieces :
             /\ \A i \in DOMAIN pieces : /\ pieces[low].bounds.y0 <= pieces[i].bounds.y0
                                         /\ pieces[i].bounds.y1 <= pieces[high].bounds.y1
             /\ \E top \in Tops(pieces[high].bounds.y1 - pieces[low].bounds.y0 + 1) :
                  pieces' = [i \in DOMAIN pieces |->
                               [pieces[i] EXCEPT !.bounds = move_by(@, top - pieces[high].bounds.y1)]]
    BY Zenon DEF settle
  <1> DEFINE y0 == pieces[low].bounds.y0
             y1 == pieces[high].bounds.y1
  <1>1. PICK top \in Tops(y1 - y0 + 1) :
             pieces' = [i \in DOMAIN pieces |-> [pieces[i] EXCEPT !.bounds = move_by(@, top - y1)]]
    BY Zenon, <1>0
  <1> DEFINE dy == top - y1
  <1>2. /\ pieces \in Seq(AnyTunnel) /\ Len(pieces) \in Nat /\ DOMAIN pieces = 1 .. Len(pieces)
        /\ Len(pieces) >= 1 /\ ~settled /\ surface \in BOOLEAN
    BY DEF IInv, Tunnels, settle
  <1>3. \A i \in 1 .. Len(pieces) : pieces[i] \in AnyTunnel
    BY <1>2
  <1>4. \A i \in 1 .. Len(pieces) : pieces[i].bounds \in Boxes
    BY Zenon, <1>3 DEF AnyTunnel
  <1>5. y0 \in Int /\ y1 \in Int /\ y0 >= -2 /\ y1 <= 94
    <2>1. low \in 1 .. Len(pieces) /\ high \in 1 .. Len(pieces)
      BY Zenon, <1>2
    <2>2. pieces[low].bounds \in Boxes /\ pieces[high].bounds \in Boxes
      BY Zenon, <2>1, <1>4
    <2>3. y0 >= -2 /\ y1 <= 94
      BY Zenon, <2>1, <1>2 DEF IInv
    <2> QED
      BY Zenon, <2>2, <2>3 DEF Boxes
  <1> DEFINE span == y1 - y0 + 1
  <1>6. top \in Int /\ top - y1 >= 1 - y0 /\ top < 128
    <2>1. span \in Int /\ span <= 97 /\ span - 1 + y0 = y1
      BY <1>5
    <2> HIDE DEF y0, y1, span
    <2>2. CASE surface
      <3>1. top = 63 + span \div 2 + 5
        BY Zenon, <1>1, <2>2 DEF SEA_LEVEL, span
      <3>2. span \div 2 \in Int /\ span \div 2 <= 48 /\ span - span \div 2 <= 49
        BY <2>1
      <3> QED
        BY <3>1, <3>2, <2>1, <1>5
    <2>3. CASE ~surface
      <3>1. top \in {span + 1} \cup span + 1 .. 52
        BY <1>1, <2>3 DEF SEA_LEVEL, span
      <3>2. top \in Int /\ top >= span + 1 /\ top < 128
        BY <3>1, <2>1
      <3> QED
        BY <3>2, <2>1, <1>5
    <2> QED
      BY Zenon, <2>2, <2>3
  <1>7. dy \in Int
    BY <1>5, <1>6
  <1>8. pieces' = [i \in 1 .. Len(pieces) |-> [pieces[i] EXCEPT !.bounds = move_by(@, dy)]]
    BY Zenon, <1>1, <1>2
  <1> HIDE DEF dy, Tops
  <1>9. \A i \in 1 .. Len(pieces) :
          /\ pieces'[i] \in AnyTunnel
          /\ pieces'[i].bounds = move_by(pieces[i].bounds, dy)
    <2> SUFFICES ASSUME NEW i \in 1 .. Len(pieces)
                 PROVE  /\ pieces'[i] \in AnyTunnel
                        /\ pieces'[i].bounds = move_by(pieces[i].bounds, dy)
      BY Zenon
    <2>1. pieces'[i] = [pieces[i] EXCEPT !.bounds = move_by(pieces[i].bounds, dy)]
      BY Zenon, <1>8
    <2>2. move_by(pieces[i].bounds, dy) \in Boxes
      BY Zenon, <1>4, <1>7, MovedBox
    <2> QED
      BY Zenon, <2>1, <2>2, <1>3 DEF AnyTunnel
  <1>10. pieces' \in Seq(AnyTunnel) /\ Len(pieces') = Len(pieces)
    <2>1. pieces' \in [1 .. Len(pieces) -> AnyTunnel]
      BY Zenon, <1>8, <1>9
    <2>2. pieces' \in Seq(AnyTunnel)
      BY <2>1, <1>2
    <2> QED
      BY <2>1, <2>2, <1>2
  <1>11. \A i \in 1 .. Len(pieces) :
           /\ pieces'[i].bounds.x0 = pieces[i].bounds.x0 /\ pieces'[i].bounds.x1 = pieces[i].bounds.x1
           /\ pieces'[i].bounds.z0 = pieces[i].bounds.z0 /\ pieces'[i].bounds.z1 = pieces[i].bounds.z1
           /\ pieces'[i].bounds.y0 = pieces[i].bounds.y0 + dy /\ pieces'[i].bounds.y1 = pieces[i].bounds.y1 + dy
    <2> SUFFICES ASSUME NEW i \in 1 .. Len(pieces)
                 PROVE  /\ pieces'[i].bounds.x0 = pieces[i].bounds.x0 /\ pieces'[i].bounds.x1 = pieces[i].bounds.x1
                        /\ pieces'[i].bounds.z0 = pieces[i].bounds.z0 /\ pieces'[i].bounds.z1 = pieces[i].bounds.z1
                        /\ pieces'[i].bounds.y0 = pieces[i].bounds.y0 + dy
                        /\ pieces'[i].bounds.y1 = pieces[i].bounds.y1 + dy
      BY Zenon
    <2>1. pieces[i].bounds \in Boxes /\ pieces'[i].bounds = move_by(pieces[i].bounds, dy)
      BY Zenon, <1>4, <1>9
    <2> QED
      BY <2>1 DEF move_by, Box
  <1>12. \A i \in 1 .. Len(pieces') : InReach(pieces'[i].bounds)
    BY SMTT(30), <1>10, <1>11 DEF InReach, IInv, Tunnels
  <1>13. ASSUME NEW i \in 1 .. Len(pieces'), NEW j \in 1 .. Len(pieces'), i # j
         PROVE  ~intersects(pieces'[i].bounds, pieces'[j].bounds)
    <2>1. i \in 1 .. Len(pieces) /\ j \in 1 .. Len(pieces)
      BY Zenon, <1>10
    <2>2. ~intersects(pieces[i].bounds, pieces[j].bounds)
      BY Zenon, <2>1, <1>13 DEF IInv, Tunnels
    <2> QED
      BY <2>1, <2>2, <1>4, <1>7, <1>9, MovedTogether
  <1>14. \A i \in 1 .. Len(pieces') : pieces'[i].bounds.y0 >= 1 /\ pieces'[i].bounds.y1 < 128
    <2> SUFFICES ASSUME NEW i \in 1 .. Len(pieces)
                 PROVE  pieces'[i].bounds.y0 >= 1 /\ pieces'[i].bounds.y1 < 128
      BY Zenon, <1>10
    <2>1. pieces'[i].bounds.y0 = pieces[i].bounds.y0 + dy /\ pieces'[i].bounds.y1 = pieces[i].bounds.y1 + dy
      BY Zenon, <1>11
    <2>2. /\ pieces[i].bounds.y0 \in Int /\ y0 <= pieces[i].bounds.y0
          /\ pieces[i].bounds.y1 \in Int /\ pieces[i].bounds.y1 <= y1
      BY Zenon, <1>0, <1>2, <1>4 DEF Boxes
    <2>3. dy >= 1 - y0 /\ y1 + dy < 128
      BY <1>5, <1>6 DEF dy
    <2> HIDE DEF y0, y1
    <2> QED
      BY SMTT(30), <2>1, <2>2, <2>3, <1>5, <1>7, Shifted
  <1>15. DOMAIN pieces' = 1 .. Len(pieces')
    BY <1>10
  <1>16. exits' = <<>> /\ surface' = surface /\ settled' = TRUE
    BY Zenon DEF settle
  <1>17. Tunnels(pieces')
    <2>1. pieces'[1].bounds.x0 = 2 /\ pieces'[1].bounds.z0 = 2
      BY <1>2, <1>11 DEF IInv, Tunnels
    <2> QED
      BY Zenon, <2>1, <1>2, <1>10, <1>12, <1>13 DEF Tunnels
  <1>18. TunnelsInWorld'
    BY Zenon, <1>14, <1>15 DEF TunnelsInWorld
  <1> QED
    BY <1>2, <1>16, <1>17, <1>18 DEF IInv

(* However the tunnels of a mineshaft branch, no two of them meet, each lies   *)
(* in the seventeen chunks around which apply looks for it, and the plan that  *)
(* generate returns reaches neither bedrock nor the top of the world.  Eight   *)
(* generations of tunnels are far more than can be enumerated.                 *)
THEOREM TunnelsStayInPlace ==
    ASSUME Draws
    PROVE  Spec => [](TunnelsApart /\ TunnelsInReach /\ TunnelsInWorld)
  <1>1. Init => IInv
    <2> SUFFICES ASSUME Init PROVE IInv
      BY Zenon
    <2>1. PICK x \in RoomSides, z \in RoomSides, y1 \in RoomTops :
                 pieces = <<piece("Room", Box(2, 50, 2, 2 + x, y1, 2 + z), South, 0)>>
      BY DEF Init
    <2>2. x \in 7 .. 12 /\ z \in 7 .. 12 /\ y1 \in 54 .. 59
      BY Zenon DEF Draws
    <2> DEFINE b == Box(2, 50, 2, 2 + x, y1, 2 + z)
    <2>3. b \in Boxes /\ InReach(b) /\ b.x0 = 2 /\ b.z0 = 2 /\ b.y0 = 50 /\ b.y1 = y1
      BY <2>2 DEF Box, Boxes, InReach
    <2> HIDE DEF b
    <2>4. pieces = <<piece("Room", b, South, 0)>>
      BY Zenon, <2>1 DEF b
    <2>5. Len(pieces) = 1 /\ pieces[1] \in AnyTunnel /\ pieces[1].bounds = b /\ pieces \in Seq(AnyTunnel)
      BY <2>3, <2>4 DEF piece, AnyTunnel, TunnelKinds, Orientations
    <2>6. Tunnels(pieces)
      BY <2>3, <2>5 DEF Tunnels
    <2>7. exits \in Seq(SUBSET AnyExit)
      <3>1. 2 + x \in Int /\ 2 + z \in Int /\ y1 \in Int
        BY <2>2
      <3>2. add_room_children(pieces[1]) \in Seq(SUBSET AnyExit)
        BY Zenon, <3>1, <2>5, RoomChildren DEF b
      <3>3. exits = add_room_children(pieces[1]) \/ exits = <<>>
        <4>1. exits \in {add_room_children(pieces[1])} \cup (IF surface THEN {<<>>} ELSE {})
          BY DEF Init
        <4> QED
          BY <4>1, Zenon
      <3>4. <<>> \in Seq(SUBSET AnyExit)
        OBVIOUS
      <3> QED
        BY <3>2, <3>3, <3>4, Zenon
    <2>8. \A i \in 1 .. Len(pieces) : pieces[i].bounds.y0 >= -2 /\ pieces[i].bounds.y1 <= 94
      BY <2>2, <2>3, <2>5
    <2>9. settled = FALSE /\ surface \in BOOLEAN
      BY DEF Init
    <2> QED
      BY Zenon, <2>6, <2>7, <2>8, <2>9 DEF IInv, TunnelsInWorld
  <1>2. IInv /\ [Next]_vars => IInv'
    <2> SUFFICES ASSUME IInv, [Next]_vars PROVE IInv'
      BY Zenon
    <2>1. CASE UNCHANGED vars
      BY Zenon, <2>1 DEF vars, IInv, TunnelsInWorld
    <2> QED
      BY Zenon, <2>1, ExitStep, SettleStep DEF Next
  <1>3. IInv => TunnelsApart /\ TunnelsInReach /\ TunnelsInWorld
    BY DEF IInv, Tunnels, TunnelsApart, TunnelsInReach, InReach
  <1> QED
    BY <1>1, <1>2, <1>3, PTL DEF Spec
==================================================================================
