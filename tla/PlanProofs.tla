------------------------------- MODULE PlanProofs -------------------------------
(* The plans of strongholds and of villages, for any number of pieces, of any  *)
(* kinds, in any order.  No room of a stronghold is built into an older one,   *)
(* every room lies where the generator looks for it, and none reaches into the *)
(* lowest layer of bedrock.  No two pieces of a village share a column.        *)
EXTENDS StrongholdPlan, TLAPS

Places == Int \X Int \X Int
Sizes  == (Nat \ {0}) \X (Nat \ {0}) \X (Nat \ {0})

Within(b, foot, r) ==
    /\ b.x0 >= foot[1] - r /\ b.x1 <= foot[1] + r
    /\ b.z0 >= foot[3] - r /\ b.z1 <= foot[3] + r

(* orient_box: a box as high as it is told to be, that starts at the door and  *)
(* reaches as far from it as the larger of its sides and offsets.              *)
LEMMA OrientedBox ==
    ASSUME NEW foot \in Places, NEW off \in Places, NEW size \in Sizes, NEW dir \in Orientations
    PROVE  /\ orient_box(foot, off, size, dir) \in Boxes
           /\ orient_box(foot, off, size, dir).y0 = foot[2] + off[2]
           /\ orient_box(foot, off, size, dir).y1 = foot[2] + off[2] + size[2] - 1
  <1> DEFINE x == foot[1]
             y == foot[2] + off[2]
             z == foot[3]
  <1>1. x \in Int /\ y \in Int /\ z \in Int /\ off[1] \in Int /\ off[2] \in Int /\ off[3] \in Int
    BY DEF Places
  <1>2. size[1] \in Int /\ size[2] \in Int /\ size[3] \in Int
    BY DEF Sizes
  <1>3. dir = North \/ dir = South \/ dir = West \/ dir = East
    BY Zenon DEF Orientations
  <1> QED
    BY <1>1, <1>2, <1>3 DEF orient_box, Box, Boxes, North, South, West, East

(* orient_box again: no further from the door than the longest side allows.    *)
LEMMA OrientedNear ==
    ASSUME NEW foot \in Places, NEW off \in Places, NEW size \in Sizes, NEW dir \in Orientations,
           NEW r \in Int, r >= 4, off[1] \in -4 .. 0, off[3] = 0,
           size[1] <= r + 1, size[3] <= r + 1
    PROVE  Within(orient_box(foot, off, size, dir), foot, r)
  <1>1. /\ foot[1] \in Int /\ foot[2] \in Int /\ foot[3] \in Int
        /\ off[1] \in Int /\ off[2] \in Int /\ off[1] >= -4 /\ off[1] <= 0
    BY DEF Places
  <1>2. /\ size[1] \in Int /\ size[2] \in Int /\ size[3] \in Int
        /\ size[1] >= 1 /\ size[3] >= 1
    BY DEF Sizes
  <1>3. dir = North \/ dir = South \/ dir = West \/ dir = East
    BY Zenon DEF Orientations
  <1> QED
    BY <1>1, <1>2, <1>3 DEF Within, orient_box, Box, North, South, West, East

(* move_by: up or down, and nothing else. *)
LEMMA MovedBox ==
    ASSUME NEW b \in Boxes, NEW dy \in Int
    PROVE  /\ move_by(b, dy) \in Boxes
           /\ move_by(b, dy).x0 = b.x0 /\ move_by(b, dy).x1 = b.x1
           /\ move_by(b, dy).z0 = b.z0 /\ move_by(b, dy).z1 = b.z1
           /\ move_by(b, dy).y0 = b.y0 + dy /\ move_by(b, dy).y1 = b.y1 + dy
  BY DEF move_by, Boxes, Box

(* Moving a whole plan up or down keeps what was apart apart. *)
LEMMA MovedTogether ==
    ASSUME NEW b \in Boxes, NEW c \in Boxes, NEW dy \in Int
    PROVE  intersects(move_by(b, dy), move_by(c, dy)) <=> intersects(b, c)
  <1>1. /\ b.y0 \in Int /\ b.y1 \in Int /\ c.y0 \in Int /\ c.y1 \in Int
        /\ b.x0 \in Int /\ b.x1 \in Int /\ c.x0 \in Int /\ c.x1 \in Int
        /\ b.z0 \in Int /\ b.z1 \in Int /\ c.z0 \in Int /\ c.z1 \in Int
    BY Zenon DEF Boxes
  <1> DEFINE m == move_by(b, dy)
             n == move_by(c, dy)
  <1>2. /\ m.x0 = b.x0 /\ m.x1 = b.x1 /\ m.z0 = b.z0 /\ m.z1 = b.z1
        /\ m.y0 = b.y0 + dy /\ m.y1 = b.y1 + dy
        /\ n.x0 = c.x0 /\ n.x1 = c.x1 /\ n.z0 = c.z0 /\ n.z1 = c.z1
        /\ n.y0 = c.y0 + dy /\ n.y1 = c.y1 + dy
    BY Zenon, MovedBox
  <1> HIDE DEF m, n
  <1>3. intersects(m, n) <=> intersects(b, c)
    BY <1>1, <1>2 DEF intersects, intersects_xz
  <1> QED
    BY Zenon, <1>3 DEF m, n

---------------------------------------------------------------------------------
(* Strongholds. *)

RoomKinds == DOMAIN shapes \cup {Filler}
AnyRoom   == [kind : RoomKinds, bounds : Boxes, orientation : Orientations, gen_depth : Int]
AnyDoor   == [foot : Places, dir : Orientations, depth : Int]

InReach(b) == -128 <= b.x0 /\ b.x1 < 144 /\ -128 <= b.z0 /\ b.z1 < 144

Rooms(ps) ==
    /\ ps \in Seq(AnyRoom)
    /\ \A i \in 1 .. Len(ps) : InReach(ps[i].bounds)
    /\ \A i, j \in 1 .. Len(ps) :
         i < j /\ ps[j].kind # Filler => ~intersects(ps[i].bounds, ps[j].bounds)

(* A settled plan grows no more: RoomsAboveBedrock needs no more than its last *)
(* step.                                                                       *)
IInv ==
    /\ Rooms(pieces)
    /\ pending_children \subseteq 1 .. Len(pieces)
    /\ calls \in Seq(AnyDoor)
    /\ imposed \in {None, "FiveCrossing"}
    /\ settled => calls = <<>> /\ pending_children = {}
    /\ RoomsAboveBedrock

(* shapes: every room is small enough to reach at most fifteen blocks from the *)
(* door it was entered by.                                                     *)
LEMMA Shapes ==
    ASSUME NEW kind \in DOMAIN shapes, NEW n \in DOMAIN shapes[kind]
    PROVE  /\ shapes[kind][n][1] \in Places /\ shapes[kind][n][2] \in Sizes
           /\ shapes[kind][n][1][1] \in -4 .. 0 /\ shapes[kind][n][1][3] = 0
           /\ shapes[kind][n][2][1] <= 16 /\ shapes[kind][n][2][3] <= 16
  <1>1. CASE kind = "Straight"
    BY SMTT(30), <1>1 DEF shapes, Places, Sizes
  <1>2. CASE kind = "PrisonHall"
    BY SMTT(30), <1>2 DEF shapes, Places, Sizes
  <1>3. CASE kind = "LeftTurn"
    BY SMTT(30), <1>3 DEF shapes, Places, Sizes
  <1>4. CASE kind = "RightTurn"
    BY SMTT(30), <1>4 DEF shapes, Places, Sizes
  <1>5. CASE kind = "RoomCrossing"
    BY SMTT(30), <1>5 DEF shapes, Places, Sizes
  <1>6. CASE kind = "StraightStairsDown"
    BY SMTT(30), <1>6 DEF shapes, Places, Sizes
  <1>7. CASE kind = "StairsDown"
    BY SMTT(30), <1>7 DEF shapes, Places, Sizes
  <1>8. CASE kind = "FiveCrossing"
    BY SMTT(30), <1>8 DEF shapes, Places, Sizes
  <1>9. CASE kind = "ChestCorridor"
    BY SMTT(30), <1>9 DEF shapes, Places, Sizes
  <1>10. CASE kind = "Library"
    BY SMTT(30), <1>10 DEF shapes, Places, Sizes
  <1>11. CASE kind = "PortalRoom"
    BY <1>11 DEF shapes, Places, Sizes
  <1> QED
    BY ZenonT(30), <1>1, <1>2, <1>3, <1>4, <1>5, <1>6, <1>7, <1>8, <1>9, <1>10, <1>11 DEF shapes

(* A door that is not refused is near enough for any room behind it. *)
LEMMA NearDoor ==
    ASSUME NEW d \in AnyDoor, ~Refused(d)
    PROVE  /\ d.foot \in Places /\ d.dir \in Orientations /\ d.depth \in Int
           /\ d.foot[1] \in -110 .. 114 /\ d.foot[3] \in -110 .. 114
  <1>1. d.foot \in Places /\ d.dir \in Orientations /\ d.depth \in Int
    BY Zenon DEF AnyDoor
  <1>2. d.foot[1] \in Int /\ d.foot[3] \in Int
    BY Zenon, <1>1 DEF Places
  <1>3. start_bounds.x0 = 2 /\ start_bounds.z0 = 2
    BY Zenon DEF start_bounds, Box
  <1> QED
    BY <1>1, <1>2, <1>3 DEF Refused, MAX_DISTANCE

(* create_piece: what it returns collides with nothing and is in reach. *)
LEMMA Created ==
    ASSUME NEW d \in AnyDoor, ~Refused(d), NEW kind \in DOMAIN shapes, NEW b \in create_piece(kind, d)
    PROVE  b \in Boxes /\ InReach(b) /\ ~collides(pieces, b)
  <1>1. PICK n \in DOMAIN shapes[kind] :
             /\ b = orient_box(d.foot, shapes[kind][n][1], shapes[kind][n][2], d.dir)
             /\ box_ok(b)
    BY Zenon DEF create_piece
  <1>2. /\ d.foot \in Places /\ d.dir \in Orientations
        /\ d.foot[1] \in -110 .. 114 /\ d.foot[3] \in -110 .. 114
    BY Zenon, NearDoor
  <1> DEFINE off == shapes[kind][n][1]
             size == shapes[kind][n][2]
  <1>3. /\ off \in Places /\ size \in Sizes /\ off[1] \in -4 .. 0 /\ off[3] = 0
        /\ size[1] <= 15 + 1 /\ size[3] <= 15 + 1
    BY Shapes
  <1> HIDE DEF off, size
  <1>4. b = orient_box(d.foot, off, size, d.dir)
    BY Zenon, <1>1 DEF off, size
  <1>5. b \in Boxes
    BY Zenon, <1>2, <1>3, <1>4, OrientedBox
  <1>6. Within(b, d.foot, 15)
    BY <1>2, <1>3, <1>4, OrientedNear
  <1>7. b.x0 \in Int /\ b.x1 \in Int /\ b.z0 \in Int /\ b.z1 \in Int
    BY Zenon, <1>5 DEF Boxes
  <1>8. InReach(b)
    BY SMTT(30), <1>2, <1>6, <1>7 DEF InReach, Within
  <1> QED
    BY Zenon, <1>1, <1>5, <1>8 DEF box_ok

(* A filler is in reach too. *)
LEMMA Filled ==
    ASSUME NEW d \in AnyDoor, ~Refused(d), NEW b \in Fillers(d)
    PROVE  b \in Boxes /\ InReach(b)
  <1>1. PICK n \in 1 .. 3 : b = orient_box(d.foot, <<-1, -1, 0>>, <<5, 5, n>>, d.dir)
    BY Zenon DEF Fillers, find_filler_corridor_box, filler_box
  <1>2. /\ d.foot \in Places /\ d.dir \in Orientations
        /\ d.foot[1] \in -110 .. 114 /\ d.foot[3] \in -110 .. 114
    BY Zenon, NearDoor
  <1> DEFINE off == <<-1, -1, 0>>
             size == <<5, 5, n>>
  <1>3. /\ off \in Places /\ size \in Sizes /\ off[1] \in -4 .. 0 /\ off[3] = 0
        /\ size[1] <= 15 + 1 /\ size[3] <= 15 + 1
    BY DEF Places, Sizes
  <1>4. b = orient_box(d.foot, off, size, d.dir)
    BY Zenon, <1>1
  <1> HIDE DEF off, size
  <1>5. b \in Boxes
    BY Zenon, <1>2, <1>3, <1>4, OrientedBox
  <1>6. Within(b, d.foot, 15)
    BY <1>2, <1>3, <1>4, OrientedNear
  <1>7. b.x0 \in Int /\ b.x1 \in Int /\ b.z0 \in Int /\ b.z1 \in Int
    BY Zenon, <1>5 DEF Boxes
  <1> QED
    BY SMTT(30), <1>2, <1>5, <1>6, <1>7 DEF InReach, Within

(* What fits behind a door may join: a room that collides with nothing, or a   *)
(* filler.                                                                     *)
LEMMA RoomJoins ==
    ASSUME NEW ps, Rooms(ps), NEW kind \in RoomKinds, NEW b \in Boxes, InReach(b),
           NEW dir \in Orientations, NEW depth \in Int,
           kind # Filler => ~collides(ps, b)
    PROVE  Rooms(Append(ps, piece(kind, b, dir, depth)))
  <1> DEFINE p == piece(kind, b, dir, depth)
             qs == Append(ps, p)
  <1>1. p \in AnyRoom /\ p.bounds = b /\ p.kind = kind
    BY Zenon DEF piece, AnyRoom
  <1>2. ps \in Seq(AnyRoom) /\ Len(ps) \in Nat
    BY DEF Rooms
  <1> HIDE DEF p
  <1>3. /\ qs \in Seq(AnyRoom) /\ Len(qs) = Len(ps) + 1
        /\ qs[Len(ps) + 1] = p
        /\ \A i \in 1 .. Len(ps) : qs[i] = ps[i]
    BY <1>1, <1>2
  <1>4. kind # Filler => \A i \in 1 .. Len(ps) : ~intersects(ps[i].bounds, b)
    BY <1>2 DEF collides
  <1> HIDE DEF qs
  <1>5. \A i \in 1 .. Len(qs) : InReach(qs[i].bounds)
    <2> SUFFICES ASSUME NEW i \in 1 .. Len(qs) PROVE InReach(qs[i].bounds)
      BY Zenon
    <2>1. CASE i \in 1 .. Len(ps)
      BY Zenon, <2>1, <1>3 DEF Rooms
    <2>2. CASE i = Len(ps) + 1
      BY Zenon, <2>2, <1>1, <1>3
    <2> QED
      BY <2>1, <2>2, <1>2, <1>3
  <1>6. ASSUME NEW i \in 1 .. Len(qs), NEW j \in 1 .. Len(qs), i < j, qs[j].kind # Filler
        PROVE  ~intersects(qs[i].bounds, qs[j].bounds)
    <2>1. i \in 1 .. Len(ps)
      BY <1>2, <1>3, <1>6
    <2>2. CASE j \in 1 .. Len(ps)
      BY Zenon, <2>1, <2>2, <1>3, <1>6 DEF Rooms
    <2>3. CASE j = Len(ps) + 1
      BY Zenon, <2>1, <2>3, <1>1, <1>3, <1>4, <1>6
    <2> QED
      BY <2>2, <2>3, <1>2, <1>3
  <1> QED
    BY Zenon, <1>3, <1>5, <1>6 DEF Rooms, p, qs

(* Where the doors of a room lead. *)
LEMMA Doors ==
    ASSUME NEW p \in AnyRoom, NEW x \in Int, NEW y \in Int
    PROVE  /\ child_forward(p, x, y) \in AnyDoor
           /\ child_left(p, x, y) \in AnyDoor
           /\ child_right(p, x, y) \in AnyDoor
  <1>1. p.bounds \in Boxes /\ p.orientation \in Orientations /\ p.gen_depth \in Int
    BY Zenon DEF AnyRoom
  <1>2. /\ p.bounds.x0 \in Int /\ p.bounds.x1 \in Int /\ p.bounds.y0 \in Int
        /\ p.bounds.z0 \in Int /\ p.bounds.z1 \in Int
    BY Zenon, <1>1 DEF Boxes
  <1>3. child_left(p, x, y) \in AnyDoor
    BY <1>1, <1>2 DEF child_left, door, AnyDoor, Places, Orientations, North, South, West, East
  <1>4. child_right(p, x, y) \in AnyDoor
    BY <1>1, <1>2 DEF child_right, door, AnyDoor, Places, Orientations, North, South, West, East
  <1>5. child_forward(p, x, y) \in AnyDoor
    BY SMTT(30), <1>1, <1>2 DEF child_forward, door, AnyDoor, Places, Orientations, North, South, West, East
  <1> QED
    BY Zenon, <1>3, <1>4, <1>5

(* add_children returns doors. *)
LEMMA Children ==
    ASSUME NEW p \in AnyRoom, NEW sides
    PROVE  add_children(p, sides) \in Seq(AnyDoor)
  <1> DEFINE When(side, d) == IF side \in sides THEN <<d>> ELSE <<>>
  <1>1. \A side : \A d \in AnyDoor : When(side, d) \in Seq(AnyDoor) /\ <<d>> \in Seq(AnyDoor)
    OBVIOUS
  <1>2. \A s \in Seq(AnyDoor), t \in Seq(AnyDoor) : s \o t \in Seq(AnyDoor)
    OBVIOUS
  <1>3. CASE p.kind \in {"StairsDown", "ChestCorridor", "PrisonHall", "StraightStairsDown"}
    <2>1. add_children(p, sides) = <<child_forward(p, 1, 1)>>
      BY Zenon, <1>3 DEF add_children, Filler
    <2>2. child_forward(p, 1, 1) \in AnyDoor
      BY Doors
    <2> QED
      BY <2>1, <2>2
  <1>4. CASE p.kind \in {Filler, "Library", "PortalRoom"}
    BY <1>4 DEF add_children, Filler
  <1>5. CASE p.kind = "FiveCrossing"
    <2> DEFINE back == p.orientation \in {West, North}
               a == IF back THEN 5 ELSE 3
               b == IF back THEN 3 ELSE 5
               all == <<child_forward(p, 5, 1)>>
                      \o When("left_low", child_left(p, a, 1)) \o When("left_high", child_left(p, b, 7))
                      \o When("right_low", child_right(p, a, 1)) \o When("right_high", child_right(p, b, 7))
    <2>1. add_children(p, sides) = all
      BY Zenon, <1>5 DEF add_children, Filler
    <2>2. a \in Int /\ b \in Int
      OBVIOUS
    <2> HIDE DEF a, b
    <2>3. /\ child_forward(p, 5, 1) \in AnyDoor
          /\ child_left(p, a, 1) \in AnyDoor /\ child_left(p, b, 7) \in AnyDoor
          /\ child_right(p, a, 1) \in AnyDoor /\ child_right(p, b, 7) \in AnyDoor
      BY <2>2, Doors
    <2> HIDE DEF When
    <2>4. all \in Seq(AnyDoor)
      BY Zenon, <2>3, <1>1, <1>2
    <2> QED
      BY Zenon, <2>1, <2>4
  <1>6. CASE p.kind \in {"LeftTurn", "RightTurn"}
    <2> DEFINE turn_left == (p.kind = "LeftTurn") <=> (p.orientation \in {North, East})
    <2>1. add_children(p, sides) = IF turn_left THEN <<child_left(p, 1, 1)>> ELSE <<child_right(p, 1, 1)>>
      BY <1>6, Zenon DEF add_children, Filler
    <2>2. child_left(p, 1, 1) \in AnyDoor /\ child_right(p, 1, 1) \in AnyDoor
      BY Doors
    <2> QED
      BY <2>1, <2>2
  <1>7. CASE p.kind = "RoomCrossing"
    BY <1>7, Doors DEF add_children, Filler
  <1>8. CASE p.kind = "Straight"
    <2> DEFINE all == <<child_forward(p, 1, 1)>>
                      \o When("left", child_left(p, 1, 2)) \o When("right", child_right(p, 1, 2))
    <2>1. add_children(p, sides) = all
      BY Zenon, <1>8 DEF add_children, Filler
    <2>2. child_forward(p, 1, 1) \in AnyDoor /\ child_left(p, 1, 2) \in AnyDoor /\ child_right(p, 1, 2) \in AnyDoor
      BY Doors
    <2> HIDE DEF When
    <2>3. all \in Seq(AnyDoor)
      BY Zenon, <2>2, <1>1, <1>2
    <2> QED
      BY Zenon, <2>1, <2>3
  <1>9. p.kind \in RoomKinds
    BY Zenon DEF AnyRoom
  <1> QED
    BY Zenon, <1>3, <1>4, <1>5, <1>6, <1>7, <1>8, <1>9 DEF RoomKinds, shapes, Filler

(* AddPiece keeps the plan in order. *)
LEMMA Added ==
    ASSUME IInv, NEW d \in AnyDoor, NEW kind \in RoomKinds, NEW b \in Boxes, InReach(b),
           kind # Filler => ~collides(pieces, b), AddPiece(kind, b, d)
    PROVE  Rooms(pieces') /\ pending_children' \subseteq 1 .. Len(pieces')
  <1>1. Rooms(pieces) /\ pieces \in Seq(AnyRoom) /\ Len(pieces) \in Nat
    BY DEF IInv, Rooms
  <1>2. d.dir \in Orientations /\ d.depth + 1 \in Int
    BY DEF AnyDoor
  <1>3. pieces' = Append(pieces, piece(kind, b, d.dir, d.depth + 1))
    BY Zenon DEF AddPiece
  <1>4. Rooms(pieces')
    BY Zenon, <1>1, <1>2, <1>3, RoomJoins
  <1>5. Len(pieces') = Len(pieces) + 1
    BY <1>1, <1>3
  <1>6. pending_children' = pending_children \cup {Len(pieces) + 1} /\ pending_children \subseteq 1 .. Len(pieces)
    BY Zenon DEF AddPiece, IInv
  <1>7. 1 .. Len(pieces) \subseteq 1 .. Len(pieces') /\ Len(pieces) + 1 \in 1 .. Len(pieces')
    BY SMTT(30), <1>1, <1>5
  <1> QED
    BY Zenon, <1>4, <1>6, <1>7

(* generate_and_add_piece keeps the plan in order, whatever is behind the door. *)
LEMMA DoorStep ==
    ASSUME Kinds \subseteq DOMAIN shapes, IInv, generate_and_add_piece
    PROVE  IInv'
  <1> DEFINE d == Head(calls)
  <1>1. calls # <<>> /\ calls \in Seq(AnyDoor) /\ calls' = Tail(calls) /\ settled' = settled
    BY Zenon DEF generate_and_add_piece, IInv
  <1>2. d \in AnyDoor /\ calls' \in Seq(AnyDoor)
    BY <1>1
  <1>4. imposed' \in {None, "FiveCrossing"}
    BY Zenon DEF generate_and_add_piece, IInv
  <1>5. Rooms(pieces') /\ pending_children' \subseteq 1 .. Len(pieces')
    <2>1. CASE UNCHANGED <<pieces, pending_children>>
      BY Zenon, <2>1 DEF IInv
    <2>2. CASE ~Refused(d) /\ \E kind \in DOMAIN shapes : \E b \in create_piece(kind, d) : AddPiece(kind, b, d)
      <3>1. PICK kind \in DOMAIN shapes : \E b \in create_piece(kind, d) : AddPiece(kind, b, d)
        BY Zenon, <2>2
      <3>2. PICK b \in create_piece(kind, d) : AddPiece(kind, b, d)
        BY Zenon, <3>1
      <3> HIDE DEF d
      <3>3. b \in Boxes /\ InReach(b) /\ ~collides(pieces, b)
        BY Zenon, <1>2, <2>2, Created
      <3>4. kind \in RoomKinds
        BY Zenon DEF RoomKinds
      <3> QED
        BY Zenon, <1>2, <3>2, <3>3, <3>4, Added
    <2>3. CASE ~Refused(d) /\ \E b \in Fillers(d) : AddPiece(Filler, b, d)
      <3>1. PICK b \in Fillers(d) : AddPiece(Filler, b, d)
        BY Zenon, <2>3
      <3> HIDE DEF d
      <3>2. b \in Boxes /\ InReach(b)
        BY Zenon, <1>2, <2>3, Filled
      <3>3. Filler \in RoomKinds
        BY Zenon DEF RoomKinds
      <3> QED
        BY Zenon, <1>2, <3>1, <3>2, <3>3, Added
    <2>4. CASE Refused(d)
      BY Zenon, <2>1, <2>4 DEF generate_and_add_piece
    <2>5. CASE ~Refused(d)
      <3>1. generate_piece_from_small_door(d)
        BY Zenon, <2>5 DEF generate_and_add_piece
      <3> HIDE DEF d
      <3>2. CASE imposed # None /\ \E b \in create_piece(imposed, d) : AddPiece(imposed, b, d)
        <4>1. imposed = "FiveCrossing"
          BY Zenon, <3>2 DEF IInv
        <4>2. imposed \in DOMAIN shapes
          BY Zenon, <4>1 DEF shapes
        <4> QED
          BY Zenon, <3>2, <4>2, <2>2, <2>5
      <3>3. CASE \E kind \in Kinds : \E b \in create_piece(kind, d) : AddPiece(kind, b, d)
        BY Zenon, <3>3, <2>2, <2>5
      <3>4. CASE \E b \in Fillers(d) : AddPiece(Filler, b, d)
        BY Zenon, <3>4, <2>3, <2>5
      <3> QED
        BY Zenon, <3>1, <3>2, <3>3, <3>4, <2>1 DEF generate_piece_from_small_door
    <2> QED
      BY Zenon, <2>4, <2>5
  <1>6. ~settled'
    BY Zenon, <1>1 DEF IInv
  <1> QED
    BY Zenon, <1>2, <1>4, <1>5, <1>6 DEF IInv, RoomsAboveBedrock

(* The loop of generate takes a room and follows its doors. *)
LEMMA PendingStep ==
    ASSUME IInv, take_pending
    PROVE  IInv'
  <1>1. PICK i \in pending_children :
             /\ pending_children' = pending_children \ {i}
             /\ calls' \in {add_children(pieces[i], sides) : sides \in SUBSET optional_doors(pieces[i].kind)}
    BY Zenon DEF take_pending
  <1>2. pieces \in Seq(AnyRoom) /\ i \in 1 .. Len(pieces)
    BY Zenon DEF IInv, Rooms
  <1>3. pieces[i] \in AnyRoom
    BY <1>2
  <1>4. calls' \in Seq(AnyDoor)
    BY Zenon, <1>1, <1>3, Children
  <1>5. ~settled /\ UNCHANGED <<pieces, imposed, settled>>
    BY Zenon DEF take_pending, IInv
  <1>6. pending_children' \subseteq 1 .. Len(pieces)
    BY Zenon, <1>1 DEF IInv
  <1> QED
    BY Zenon, <1>4, <1>5, <1>6 DEF IInv, RoomsAboveBedrock

(* What lies above the lowest floor moves with it. *)
LEMMA Shifted ==
    ASSUME NEW low \in Int, NEW floor \in Int, NEW dy \in Int, dy > 1 - low, low <= floor
    PROVE  floor + dy > 1
  OBVIOUS

(* The end of generate moves every room by the same height. *)
LEMMA SettleStep ==
    ASSUME IInv, settle
    PROVE  IInv'
  <1>0. PICK low \in DOMAIN pieces, high \in DOMAIN pieces :
             /\ \A i \in DOMAIN pieces : /\ pieces[low].bounds.y0 <= pieces[i].bounds.y0
                                         /\ pieces[i].bounds.y1 <= pieces[high].bounds.y1
             /\ \E top \in Tops(pieces[high].bounds.y1 - pieces[low].bounds.y0 + 1) :
                  pieces' = [i \in DOMAIN pieces |->
                               [pieces[i] EXCEPT !.bounds = move_by(@, top - pieces[high].bounds.y1)]]
    BY Zenon DEF settle
  <1> DEFINE y0 == pieces[low].bounds.y0
             y1 == pieces[high].bounds.y1
  <1>1. PICK top \in Tops(y1 - y0 + 1) :
             pieces' = [i \in DOMAIN pieces |-> [pieces[i] EXCEPT !.bounds = move_by(@, top - y1)]]
    BY Zenon, <1>0
  <1> DEFINE dy == top - y1
  <1>2. pieces \in Seq(AnyRoom) /\ Len(pieces) \in Nat /\ DOMAIN pieces = 1 .. Len(pieces)
    BY DEF IInv, Rooms
  <1>3. \A i \in 1 .. Len(pieces) : pieces[i] \in AnyRoom
    BY <1>2
  <1>4. \A i \in 1 .. Len(pieces) : pieces[i].bounds \in Boxes
    BY Zenon, <1>3 DEF AnyRoom
  <1>5. y0 \in Int /\ y1 \in Int
    BY Zenon, <1>2, <1>4 DEF Boxes
  <1>6. top \in Int /\ top >= y1 - y0 + 2
    BY <1>1, <1>5 DEF Tops, SEA_LEVEL_MINUS_FIVE
  <1>7. dy \in Int
    BY <1>5, <1>6
  <1>8. pieces' = [i \in 1 .. Len(pieces) |-> [pieces[i] EXCEPT !.bounds = move_by(@, dy)]]
    BY Zenon, <1>1, <1>2
  <1> HIDE DEF dy
  <1>9. \A i \in 1 .. Len(pieces) :
          /\ pieces'[i] \in AnyRoom
          /\ pieces'[i].bounds = move_by(pieces[i].bounds, dy)
          /\ pieces'[i].kind = pieces[i].kind
    <2> SUFFICES ASSUME NEW i \in 1 .. Len(pieces)
                 PROVE  /\ pieces'[i] \in AnyRoom
                        /\ pieces'[i].bounds = move_by(pieces[i].bounds, dy)
                        /\ pieces'[i].kind = pieces[i].kind
      BY Zenon
    <2>1. pieces'[i] = [pieces[i] EXCEPT !.bounds = move_by(pieces[i].bounds, dy)]
      BY Zenon, <1>8
    <2>2. move_by(pieces[i].bounds, dy) \in Boxes
      BY Zenon, <1>4, <1>7, MovedBox
    <2> QED
      BY Zenon, <2>1, <2>2, <1>3 DEF AnyRoom
  <1>10. pieces' \in Seq(AnyRoom) /\ Len(pieces') = Len(pieces)
    <2>1. pieces' \in [1 .. Len(pieces) -> AnyRoom]
      BY Zenon, <1>8, <1>9
    <2>2. pieces' \in Seq(AnyRoom)
      BY <2>1, <1>2
    <2> QED
      BY <2>1, <2>2, <1>2
  <1>11. \A i \in 1 .. Len(pieces') : InReach(pieces'[i].bounds)
    <2> SUFFICES ASSUME NEW i \in 1 .. Len(pieces) PROVE InReach(pieces'[i].bounds)
      BY Zenon, <1>10
    <2>1. InReach(pieces[i].bounds)
      BY Zenon DEF IInv, Rooms
    <2>2. pieces[i].bounds \in Boxes /\ pieces'[i].bounds = move_by(pieces[i].bounds, dy)
      BY Zenon, <1>4, <1>9
    <2>3. /\ pieces'[i].bounds.x0 = pieces[i].bounds.x0 /\ pieces'[i].bounds.x1 = pieces[i].bounds.x1
          /\ pieces'[i].bounds.z0 = pieces[i].bounds.z0 /\ pieces'[i].bounds.z1 = pieces[i].bounds.z1
      BY SMTT(30), <2>2 DEF move_by, Box
    <2> QED
      BY Zenon, <2>1, <2>3 DEF InReach
  <1>12. ASSUME NEW i \in 1 .. Len(pieces'), NEW j \in 1 .. Len(pieces'), i < j, pieces'[j].kind # Filler
         PROVE  ~intersects(pieces'[i].bounds, pieces'[j].bounds)
    <2>1. i \in 1 .. Len(pieces) /\ j \in 1 .. Len(pieces) /\ pieces[j].kind # Filler
      BY Zenon, <1>9, <1>10, <1>12
    <2>2. ~intersects(pieces[i].bounds, pieces[j].bounds)
      BY Zenon, <2>1, <1>12 DEF IInv, Rooms
    <2> QED
      BY <2>1, <2>2, <1>4, <1>7, <1>9, MovedTogether
  <1>13. \A i \in 1 .. Len(pieces') : pieces'[i].bounds.y0 > 1
    <2> SUFFICES ASSUME NEW i \in 1 .. Len(pieces) PROVE pieces'[i].bounds.y0 > 1
      BY Zenon, <1>10
    <2>1. pieces'[i].bounds.y0 = pieces[i].bounds.y0 + dy
      <3>1. pieces[i].bounds \in Boxes /\ pieces'[i].bounds = move_by(pieces[i].bounds, dy)
        BY Zenon, <1>4, <1>9
      <3> QED
        BY <1>7, <3>1, MovedBox
    <2>2. pieces[i].bounds.y0 \in Int /\ y0 <= pieces[i].bounds.y0
      BY Zenon, <1>0, <1>2, <1>4 DEF Boxes
    <2>3. dy > 1 - y0
      BY SMTT(30), <1>5, <1>6 DEF dy
    <2> HIDE DEF y0
    <2> QED
      BY Zenon, <2>1, <2>2, <2>3, <1>5, <1>7, Shifted
  <1>14. DOMAIN pieces' = 1 .. Len(pieces')
    BY <1>10
  <1>15. calls' = <<>> /\ pending_children' = {} /\ imposed' = imposed
    BY Zenon DEF settle
  <1> QED
    <2>1. Rooms(pieces')
      BY Zenon, <1>10, <1>11, <1>12 DEF Rooms
    <2>2. RoomsAboveBedrock'
      BY Zenon, <1>13, <1>14 DEF RoomsAboveBedrock
    <2>3. imposed' \in {None, "FiveCrossing"} /\ calls' \in Seq(AnyDoor)
      BY <1>15 DEF IInv
    <2> QED
      BY Zenon, <2>1, <2>2, <2>3, <1>15 DEF IInv

(* No room is built into an older one but for the far end of a filler; every   *)
(* room lies in the seventeen chunks around which apply looks for it; and when *)
(* the plan has been moved to its height, none reaches the lowest layer of     *)
(* bedrock (generate of stronghold_plan.rs).  It takes plans of more than a    *)
(* dozen rooms for the limit of distance to matter, more than can be           *)
(* enumerated.                                                                 *)
THEOREM RoomsStayInPlace ==
    ASSUME Kinds \subseteq DOMAIN shapes
    PROVE  Spec => [](RoomsApart /\ RoomsInReach /\ RoomsAboveBedrock)
  <1>1. Init => IInv
    <2> SUFFICES ASSUME Init PROVE IInv
      BY Zenon
    <2>1. PICK dir \in Orientations : pieces = <<piece("StairsDown", start_bounds, dir, 0)>>
      BY Zenon DEF Init
    <2>2. /\ pieces[1] = piece("StairsDown", start_bounds, dir, 0)
          /\ pieces[1] \in AnyRoom /\ pieces[1].bounds = start_bounds
      <3>1. start_bounds \in Boxes
        BY SMTT(30) DEF start_bounds, Box, Boxes
      <3>2. "StairsDown" \in RoomKinds
        BY Zenon DEF RoomKinds, shapes
      <3> QED
        BY <2>1, <3>1, <3>2 DEF piece, AnyRoom
    <2>3. InReach(start_bounds)
      BY DEF InReach, start_bounds, Box
    <2>4. Rooms(pieces)
      BY <2>1, <2>2, <2>3 DEF Rooms
    <2>5. calls \in Seq(AnyDoor)
      <3>1. calls = <<child_forward(pieces[1], 1, 1)>>
        BY Zenon DEF Init
      <3>2. child_forward(pieces[1], 1, 1) \in AnyDoor
        BY <2>2, Doors
      <3> QED
        BY <3>1, <3>2
    <2> QED
      BY Zenon, <2>4, <2>5 DEF Init, IInv, RoomsAboveBedrock
  <1>2. IInv /\ [Next]_vars => IInv'
    <2> SUFFICES ASSUME IInv, [Next]_vars PROVE IInv'
      BY Zenon
    <2>1. CASE UNCHANGED vars
      BY Zenon, <2>1 DEF vars, IInv, RoomsAboveBedrock
    <2> QED
      BY Zenon, <2>1, DoorStep, PendingStep, SettleStep DEF Next
  <1>3. IInv => RoomsApart /\ RoomsInReach /\ RoomsAboveBedrock
    BY DEF IInv, Rooms, RoomsApart, RoomsInReach, InReach
  <1> QED
    BY <1>1, <1>2, <1>3, PTL DEF Spec

---------------------------------------------------------------------------------
(* Villages. *)

CONSTANTS MaxCounts, Lengths, Gaps
VARIABLES pending_roads, pending_houses, left, at

Village == INSTANCE VillagePlan

(* orient_box: a box as high as it is told to be, that starts at the door and  *)
(* reaches as far from it as the larger of its sides and offsets.              *)
LEMMA VillageBox ==
    ASSUME NEW foot \in Places, NEW off \in Places, NEW size \in Sizes, NEW dir \in Village!Orientations
    PROVE  /\ Village!orient_box(foot, off, size, dir) \in Village!Boxes
           /\ Village!orient_box(foot, off, size, dir).y0 = foot[2] + off[2]
           /\ Village!orient_box(foot, off, size, dir).y1 = foot[2] + off[2] + size[2] - 1
  <1> DEFINE x == foot[1]
             y == foot[2] + off[2]
             z == foot[3]
  <1>1. x \in Int /\ y \in Int /\ z \in Int /\ off[1] \in Int /\ off[2] \in Int /\ off[3] \in Int
    BY DEF Places
  <1>2. size[1] \in Int /\ size[2] \in Int /\ size[3] \in Int
    BY DEF Sizes
  <1>3. dir = Village!North \/ dir = Village!South \/ dir = Village!West \/ dir = Village!East
    BY Zenon DEF Village!Orientations
  <1> QED
    BY <1>1, <1>2, <1>3 DEF Village!orient_box, Village!Box, Village!Boxes, Village!North, Village!South, Village!West, Village!East

(* Which box is asked about which makes no difference. *)
LEMMA Symmetric ==
    ASSUME NEW b \in Village!Boxes, NEW c \in Village!Boxes
    PROVE  /\ Village!intersects(b, c) <=> Village!intersects(c, b)
           /\ Village!intersects_xz(b, c) <=> Village!intersects_xz(c, b)
  BY Zenon DEF Village!intersects, Village!intersects_xz, Village!Boxes

AnyPiece == [kind : DOMAIN Village!dimensions \cup {Village!Road}, bounds : Village!Boxes,
             orientation : Village!Orientations, gen_depth : Int]

Ground == 74   \* the height of every door: the well's y1 - 4

(* What is laid out stands at one height, on which the well stands too, so     *)
(* that a box which intersects no piece shares no column with one.             *)
Laid(ps) ==
    /\ ps \in Seq(AnyPiece) /\ Len(ps) >= 1
    /\ ps[1].bounds = Village!start_bounds
    /\ \A i \in 2 .. Len(ps) : ps[i].bounds.y0 = Ground /\ ps[i].bounds.y1 >= Ground
    /\ \A i, j \in 1 .. Len(ps) : i # j => ~Village!intersects_xz(ps[i].bounds, ps[j].bounds)

(* The planner stands beside roads of the plan only. *)
Stands(n) ==
    {Village!AtStart(k) : k \in 0 .. 3} \cup {Village!Picking}
    \cup [step : {"left", "right", "branch_left", "branch_right"}, road : 2 .. n,
          offset : Int, has_houses : BOOLEAN]

VillageInv ==
    /\ Laid(pieces)
    /\ pending_roads \subseteq 2 .. Len(pieces)
    /\ at \in Stands(Len(pieces))

(* dimensions: no house without a side. *)
LEMMA Dimensions ==
    ASSUME NEW kind \in DOMAIN Village!dimensions
    PROVE  Village!dimensions[kind] \in Sizes
  BY DEF Village!dimensions, Sizes

(* A piece that stands on the ground and intersects none may join. *)
LEMMA Joins ==
    ASSUME NEW ps, Laid(ps), NEW kind \in DOMAIN Village!dimensions \cup {Village!Road},
           NEW foot \in Places, foot[2] = Ground, NEW size \in Sizes,
           NEW dir \in Village!Orientations, NEW depth \in Int,
           ~Village!collides(ps, Village!orient_box(foot, <<0, 0, 0>>, size, dir))
    PROVE  Laid(Append(ps, Village!piece(kind, Village!orient_box(foot, <<0, 0, 0>>, size, dir), dir, depth)))
  <1> DEFINE b == Village!orient_box(foot, <<0, 0, 0>>, size, dir)
             p == Village!piece(kind, b, dir, depth)
             qs == Append(ps, p)
  <1>1. <<0, 0, 0>> \in Places
    BY DEF Places
  <1>2. b \in Village!Boxes /\ b.y0 = foot[2] + 0 /\ b.y1 = foot[2] + 0 + size[2] - 1
    BY Zenon, <1>1, VillageBox
  <1>3. b.y0 = Ground /\ b.y1 >= Ground
    BY <1>2 DEF Sizes, Ground
  <1> HIDE DEF b
  <1>4. p \in AnyPiece
    BY Zenon, <1>2 DEF Village!piece, AnyPiece
  <1>5. ps \in Seq(AnyPiece) /\ Len(ps) \in Nat /\ Len(ps) >= 1
    BY DEF Laid
  <1>6. /\ qs \in Seq(AnyPiece) /\ Len(qs) = Len(ps) + 1
        /\ qs[Len(ps) + 1] = p
        /\ \A i \in 1 .. Len(ps) : qs[i] = ps[i]
    BY <1>4, <1>5
  <1>7. \A i \in 1 .. Len(ps) : ps[i].bounds \in Village!Boxes
    <2>1. \A i \in 1 .. Len(ps) : ps[i] \in AnyPiece
      BY <1>5
    <2> QED
      BY Zenon, <2>1 DEF AnyPiece
  <1>8. \A i \in 1 .. Len(ps) : ps[i].bounds.y0 <= Ground /\ ps[i].bounds.y1 >= Ground
    BY <1>5 DEF Laid, Village!start_bounds, Village!Box, Ground
  <1>9. \A i \in 1 .. Len(ps) : ~Village!intersects(ps[i].bounds, b)
    BY <1>5 DEF Village!collides, b
  <1>10. \A i \in 1 .. Len(ps) : ~Village!intersects_xz(ps[i].bounds, b) /\ ~Village!intersects_xz(b, ps[i].bounds)
    <2> SUFFICES ASSUME NEW i \in 1 .. Len(ps)
                 PROVE  ~Village!intersects_xz(ps[i].bounds, b) /\ ~Village!intersects_xz(b, ps[i].bounds)
      BY Zenon
    <2>1. ~(ps[i].bounds.y1 < b.y0 \/ ps[i].bounds.y0 > b.y1)
      <3>1. ps[i].bounds.y0 \in Int /\ ps[i].bounds.y1 \in Int /\ b.y0 \in Int /\ b.y1 \in Int
        BY Zenon, <1>2, <1>7 DEF Village!Boxes
      <3> QED
        BY <3>1, <1>3, <1>8 DEF Ground
    <2>2. ~Village!intersects_xz(ps[i].bounds, b)
      BY Zenon, <2>1, <1>9 DEF Village!intersects
    <2> QED
      BY Zenon, <2>2, <1>2, <1>7, Symmetric
  <1>11. p.bounds = b
    BY Zenon DEF Village!piece
  <1> HIDE DEF p, qs
  <1>12. qs[1].bounds = Village!start_bounds
    BY <1>5, <1>6 DEF Laid
  <1>13. \A i \in 2 .. Len(qs) : qs[i].bounds.y0 = Ground /\ qs[i].bounds.y1 >= Ground
    BY <1>3, <1>5, <1>6, <1>11 DEF Laid
  <1>14. \A i, j \in 1 .. Len(qs) : i # j => ~Village!intersects_xz(qs[i].bounds, qs[j].bounds)
    <2> SUFFICES ASSUME NEW i \in 1 .. Len(qs), NEW j \in 1 .. Len(qs), i # j
                 PROVE  ~Village!intersects_xz(qs[i].bounds, qs[j].bounds)
      BY Zenon
    <2>1. CASE i \in 1 .. Len(ps) /\ j \in 1 .. Len(ps)
      BY Zenon, <2>1, <1>6 DEF Laid
    <2>2. CASE i = Len(ps) + 1
      <3>1. j \in 1 .. Len(ps)
        BY <2>2, <1>5, <1>6
      <3> QED
        BY Zenon, <3>1, <2>2, <1>6, <1>10, <1>11
    <2>3. CASE j = Len(ps) + 1
      <3>1. i \in 1 .. Len(ps)
        BY <2>3, <1>5, <1>6
      <3> QED
        BY Zenon, <3>1, <2>3, <1>6, <1>10, <1>11
    <2> QED
      BY <2>1, <2>2, <2>3, <1>5, <1>6
  <1> QED
    BY <1>5, <1>6, <1>12, <1>13, <1>14 DEF Laid, b, p, qs

(* generate_road: a road is three wide and a multiple of seven long. *)
LEMMA RoadBoxes ==
    ASSUME NEW n \in 1 .. 5
    PROVE  <<3, 3, 7 * n>> \in Sizes
  BY DEF Sizes

(* generate_road adds at most one piece, a road still to be grown. *)
LEMMA RoadJoins ==
    ASSUME VillageInv, NEW foot \in Places, foot[2] = Ground, NEW dir \in Village!Orientations,
           NEW depth \in Int, Village!generate_road(foot, dir, depth)
    PROVE  /\ Laid(pieces') /\ Len(pieces') \in Nat /\ Len(pieces') >= Len(pieces)
           /\ pending_roads' \subseteq 2 .. Len(pieces')
  <1>0. Laid(pieces) /\ pending_roads \subseteq 2 .. Len(pieces) /\ Len(pieces) \in Nat /\ Len(pieces) >= 1
    BY DEF VillageInv, Laid
  <1>1. CASE UNCHANGED <<pieces, pending_roads>>
    BY <1>0, <1>1
  <1>2. CASE \E n \in Village!road_lengths(foot, dir) :
               /\ pieces' = Append(pieces, Village!piece(Village!Road, Village!road_box(foot, dir, n), dir, depth))
               /\ pending_roads' = pending_roads \cup {Len(pieces) + 1}
    <2>1. PICK n \in Village!road_lengths(foot, dir) :
               /\ pieces' = Append(pieces, Village!piece(Village!Road, Village!road_box(foot, dir, n), dir, depth))
               /\ pending_roads' = pending_roads \cup {Len(pieces) + 1}
      BY Zenon, <1>2
    <2>2. n \in 1 .. 5 /\ ~Village!collides(pieces, Village!road_box(foot, dir, n))
      BY Zenon DEF Village!road_lengths
    <2>3. Laid(pieces')
      <3>1. <<3, 3, 7 * n>> \in Sizes /\ Village!Road \in DOMAIN Village!dimensions \cup {Village!Road}
        BY Zenon, <2>2, RoadBoxes
      <3>2. Village!road_box(foot, dir, n) = Village!orient_box(foot, <<0, 0, 0>>, <<3, 3, 7 * n>>, dir)
        BY Zenon DEF Village!road_box
      <3>3. Laid(Append(pieces, Village!piece(Village!Road, Village!orient_box(foot, <<0, 0, 0>>, <<3, 3, 7 * n>>, dir), dir, depth)))
        BY Zenon, <1>0, <2>2, <3>1, <3>2, Joins
      <3> QED
        BY Zenon, <2>1, <3>2, <3>3
    <2>4. Len(pieces') = Len(pieces) + 1
      BY <1>0, <2>1 DEF Laid
    <2>5. pending_roads' \subseteq 2 .. Len(pieces')
      <3>1. pending_roads' = pending_roads \cup {Len(pieces) + 1}
        BY Zenon, <2>1
      <3>2. pending_roads \subseteq 2 .. Len(pieces) /\ Len(pieces) \in Nat /\ Len(pieces) >= 1
        BY Zenon, <1>0
      <3>3. 2 .. Len(pieces) \subseteq 2 .. Len(pieces') /\ Len(pieces) + 1 \in 2 .. Len(pieces')
        BY <3>2, <2>4
      <3> QED
        BY Zenon, <3>1, <3>2, <3>3
    <2> QED
      BY <1>0, <2>3, <2>4, <2>5
  <1> QED
    BY Zenon, <1>1, <1>2 DEF Village!generate_road

(* create_leaf adds one piece. *)
LEMMA LeafJoins ==
    ASSUME VillageInv, NEW kind \in DOMAIN Village!dimensions, NEW foot \in Places, foot[2] = Ground,
           NEW dir \in Village!Orientations, NEW depth \in Int, Village!create_leaf(kind, foot, dir, depth)
    PROVE  Laid(pieces') /\ Len(pieces') = Len(pieces) + 1
  <1>1. Laid(pieces) /\ pieces \in Seq(AnyPiece)
    BY Zenon DEF VillageInv, Laid
  <1>2. /\ ~Village!collides(pieces, Village!house_box(kind, foot, dir))
        /\ pieces' = Append(pieces, Village!piece(kind, Village!house_box(kind, foot, dir), dir, depth))
    BY Zenon DEF Village!create_leaf, Village!Fits
  <1>3. Laid(pieces')
    BY Zenon, <1>1, <1>2, Dimensions, Joins DEF Village!house_box
  <1> QED
    BY <1>1, <1>2, <1>3

(* length: the longer side of a piece. *)
LEMMA LongSide ==
    ASSUME NEW p, p.bounds \in Village!Boxes
    PROVE  Village!length(p) \in Int
  <1>1. p.bounds.x0 \in Int /\ p.bounds.x1 \in Int /\ p.bounds.z0 \in Int /\ p.bounds.z1 \in Int
    BY Zenon DEF Village!Boxes
  <1>2. Village!x_span(p.bounds) \in Int /\ Village!z_span(p.bounds) \in Int
    BY <1>1 DEF Village!x_span, Village!z_span
  <1> QED
    BY Zenon, <1>2 DEF Village!length

(* A road of the plan, and the place of a door beside it or at its end. *)
LEMMA RoadPieces ==
    ASSUME VillageInv, NEW i \in 2 .. Len(pieces)
    PROVE  /\ pieces[i] \in AnyPiece
           /\ pieces[i].bounds \in Village!Boxes /\ pieces[i].bounds.y0 = Ground
           /\ pieces[i].orientation \in Village!Orientations /\ pieces[i].gen_depth \in Int
           /\ Village!length(pieces[i]) \in Int
  <1>1. pieces \in Seq(AnyPiece) /\ Len(pieces) \in Nat
    BY DEF VillageInv, Laid
  <1>2. pieces[i] \in AnyPiece
    BY <1>1
  <1>3. pieces[i].bounds \in Village!Boxes /\ pieces[i].orientation \in Village!Orientations /\ pieces[i].gen_depth \in Int
    BY Zenon, <1>2 DEF AnyPiece
  <1>4. pieces[i].bounds.y0 = Ground
    BY Zenon DEF VillageInv, Laid
  <1>5. Village!length(pieces[i]) \in Int
    BY Zenon, <1>3, LongSide
  <1> QED
    BY Zenon, <1>2, <1>3, <1>4, <1>5

(* generate_house_left, generate_house_right: where a house is put beside a    *)
(* road, it stands on the ground.                                              *)
LEMMA HouseDoors ==
    ASSUME NEW road \in AnyPiece, road.bounds.y0 = Ground, NEW side \in {"left", "right"},
           NEW offset \in Int
    PROVE  /\ Village!generate_house(road, side, offset).foot \in Places
           /\ Village!generate_house(road, side, offset).foot[2] = Ground
           /\ Village!generate_house(road, side, offset).dir \in Village!Orientations
  <1>1. road.bounds \in Village!Boxes /\ road.orientation \in Village!Orientations
    BY Zenon DEF AnyPiece
  <1>2. /\ road.bounds.x0 \in Int /\ road.bounds.x1 \in Int /\ road.bounds.y0 \in Int
        /\ road.bounds.z0 \in Int /\ road.bounds.z1 \in Int
    BY Zenon, <1>1 DEF Village!Boxes
  <1> QED
    BY <1>1, <1>2 DEF Village!generate_house, Places, Village!Orientations, Village!North, Village!South, Village!West, Village!East

(* add_road_children: so does the road that branches off its end. *)
LEMMA BranchDoors ==
    ASSUME NEW road \in AnyPiece, road.bounds.y0 = Ground,
           NEW side \in {"branch_left", "branch_right"}
    PROVE  /\ Village!branch(road, side).foot \in Places
           /\ Village!branch(road, side).foot[2] = Ground
           /\ Village!branch(road, side).dir \in Village!Orientations
  <1>1. road.bounds \in Village!Boxes /\ road.orientation \in Village!Orientations
    BY Zenon DEF AnyPiece
  <1>2. /\ road.bounds.x0 \in Int /\ road.bounds.x1 \in Int /\ road.bounds.y0 \in Int
        /\ road.bounds.z0 \in Int /\ road.bounds.z1 \in Int
    BY Zenon, <1>1 DEF Village!Boxes
  <1>3. Village!road_end(road) \in Int
    BY <1>1, <1>2 DEF Village!road_end, Village!Orientations, Village!North, Village!South, Village!West, Village!East
  <1> QED
    BY <1>1, <1>2, <1>3 DEF Village!branch, Places, Village!Orientations, Village!North, Village!South, Village!West, Village!East

(* While a road is being grown, the road is a piece of the plan. *)
LEMMA OnRoad ==
    ASSUME VillageInv, at.step \in {"left", "right", "branch_left", "branch_right"}
    PROVE  /\ at \in [step : {"left", "right", "branch_left", "branch_right"},
                      road : 2 .. Len(pieces), offset : Int, has_houses : BOOLEAN]
           /\ at.road \in 2 .. Len(pieces) /\ at.offset \in Int /\ at.has_houses \in BOOLEAN
  <1>1. at \in Stands(Len(pieces))
    BY Zenon DEF VillageInv
  <1>2. at \notin {Village!AtStart(k) : k \in 0 .. 3}
    BY DEF Village!AtStart
  <1>3. at # Village!Picking
    BY DEF Village!Picking
  <1> QED
    BY Zenon, <1>1, <1>2, <1>3 DEF Stands

(* add_start_children keeps the plan in order. *)
LEMMA StartStep ==
    ASSUME VillageInv, Village!add_start_children
    PROVE  VillageInv'
  <1> DEFINE s == Village!start_bounds
             foot == <<<<s.x0 - 1, s.y1 - 4, s.z0 + 1>>, <<s.x1 + 1, s.y1 - 4, s.z0 + 1>>,
                       <<s.x0 + 1, s.y1 - 4, s.z0 - 1>>, <<s.x0 + 1, s.y1 - 4, s.z1 + 1>>>>
             dir  == <<Village!West, Village!East, Village!North, Village!South>>
  <1>1. at \in {Village!AtStart(k) : k \in 0 .. 3}
    <2>1. at \in Stands(Len(pieces)) /\ at.step = "start"
      BY Zenon DEF VillageInv, Village!add_start_children
    <2>2. at # Village!Picking
      BY <2>1 DEF Village!Picking
    <2>3. at \notin [step : {"left", "right", "branch_left", "branch_right"}, road : 2 .. Len(pieces),
                     offset : Int, has_houses : BOOLEAN]
      BY Zenon, <2>1
    <2> QED
      BY Zenon, <2>1, <2>2, <2>3 DEF Stands
  <1>2. at.n \in 0 .. 3
    BY <1>1 DEF Village!AtStart
  <1>3. \A k \in 1 .. 4 : foot[k] \in Places /\ foot[k][2] = Ground /\ dir[k] \in Village!Orientations
    BY DEF Village!start_bounds, Village!Box, Places, Ground, Village!Orientations
  <1>4. Village!generate_road(foot[at.n + 1], dir[at.n + 1], 0)
    BY Zenon DEF Village!add_start_children
  <1>5. /\ Laid(pieces') /\ Len(pieces') \in Nat
        /\ pending_roads' \subseteq 2 .. Len(pieces')
    <2> HIDE DEF foot, dir
    <2>1. at.n + 1 \in 1 .. 4
      BY <1>2
    <2> QED
      BY <2>1, <1>3, <1>4, RoadJoins
  <1>6. at' \in Stands(Len(pieces'))
    <2>1. at' = Village!Picking \/ (at.n # 3 /\ at' = Village!AtStart(at.n + 1))
      BY Zenon DEF Village!add_start_children
    <2> QED
      BY <2>1, <1>2 DEF Stands
  <1> QED
    BY Zenon, <1>5, <1>6 DEF VillageInv

(* generate, which takes the next pending road, keeps it. *)
LEMMA PickStep ==
    ASSUME Gaps \subseteq Int, VillageInv, Village!generate
    PROVE  VillageInv'
  <1>1. pieces' = pieces /\ Len(pieces) \in Nat
    BY DEF Village!generate, VillageInv, Laid
  <1>2. ASSUME NEW i \in pending_roads, NEW gap \in Gaps,
               pending_roads' = pending_roads \ {i}, at' = Village!Beside(i, "left", gap, FALSE)
        PROVE  pending_roads' \subseteq 2 .. Len(pieces) /\ at' \in Stands(Len(pieces))
    <2>1. i \in 2 .. Len(pieces) /\ gap \in Int
      BY Zenon DEF VillageInv
    <2> QED
      BY Zenon, <1>1, <1>2, <2>1 DEF VillageInv, Village!Beside, Stands
  <1>3. pending_roads' \subseteq 2 .. Len(pieces) /\ at' \in Stands(Len(pieces))
    BY Zenon, <1>2 DEF Village!generate, VillageInv
  <1> QED
    BY Zenon, <1>1, <1>3 DEF VillageInv

(* A house, or a gap, beside a road: add_road_children up to its branches. *)
LEMMA HouseStep ==
    ASSUME Kinds \subseteq Village!Houses, Gaps \subseteq Int, VillageInv, Village!add_road_houses
    PROVE  VillageInv'
  <1> DEFINE road == pieces[at.road]
             h == Village!generate_house(road, at.step, at.offset)
  <1>1. at.step \in {"left", "right"} /\ pending_roads' = pending_roads
    BY Zenon DEF Village!add_road_houses
  <1>2. /\ at.road \in 2 .. Len(pieces) /\ at.offset \in Int /\ at.has_houses \in BOOLEAN
        /\ at \in [step : {"left", "right", "branch_left", "branch_right"},
                   road : 2 .. Len(pieces), offset : Int, has_houses : BOOLEAN]
    BY Zenon, <1>1, OnRoad
  <1>3. /\ road \in AnyPiece /\ road.bounds.y0 = Ground /\ road.gen_depth \in Int
    BY Zenon, <1>2, RoadPieces
  <1>4. h.foot \in Places /\ h.foot[2] = Ground /\ h.dir \in Village!Orientations
    BY Zenon, <1>1, <1>2, <1>3, HouseDoors
  <1>5. Laid(pieces) /\ pending_roads \subseteq 2 .. Len(pieces) /\ Len(pieces) \in Nat /\ Len(pieces) >= 1
    BY DEF VillageInv, Laid
  <1>6. ASSUME NEW gap \in Gaps,
               Village!generate_piece_from_small_door(h.foot, h.dir, road.gen_depth + 1),
               at' = Village!Beside(at.road, at.step, at.offset + Village!length(pieces'[Len(pieces')]) + 2 + gap, TRUE)
        PROVE  VillageInv'
    <2>1. PICK kind \in DOMAIN Village!dimensions : Village!create_leaf(kind, h.foot, h.dir, road.gen_depth + 1)
      BY Zenon, <1>6 DEF Village!generate_piece_from_small_door, Village!Houses, Village!dimensions
    <2>2. Laid(pieces') /\ Len(pieces') = Len(pieces) + 1
      <3>1. road.gen_depth + 1 \in Int
        BY <1>3
      <3> HIDE DEF road, h
      <3> QED
        BY Zenon, <1>4, <2>1, <3>1, LeafJoins
    <2>3. Village!length(pieces'[Len(pieces')]) \in Int
      <3>1. pieces'[Len(pieces')] \in AnyPiece
        BY <1>5, <2>2 DEF Laid
      <3>2. pieces'[Len(pieces')].bounds \in Village!Boxes
        BY Zenon, <3>1 DEF AnyPiece
      <3> QED
        BY Zenon, <3>2, LongSide
    <2>4. at.offset + Village!length(pieces'[Len(pieces')]) + 2 + gap \in Int
      BY <1>2, <2>3
    <2>5. at' \in Stands(Len(pieces'))
      <3> DEFINE off == at.offset + Village!length(pieces'[Len(pieces')]) + 2 + gap
      <3>1. at.road \in 2 .. Len(pieces')
        BY <1>2, <1>5, <2>2
      <3> HIDE DEF off
      <3>2. off \in Int
        BY Zenon, <2>4 DEF off
      <3>3. Village!Beside(at.road, at.step, off, TRUE) \in Stands(Len(pieces'))
        BY Zenon, <1>1, <3>1, <3>2 DEF Village!Beside, Stands
      <3> QED
        BY Zenon, <1>6, <3>3 DEF off
    <2>6. pending_roads' \subseteq 2 .. Len(pieces')
      BY <1>1, <1>5, <2>2
    <2> QED
      BY Zenon, <2>2, <2>5, <2>6 DEF VillageInv
  <1>7. ASSUME NEW gap \in Gaps, at' = [at EXCEPT !.offset = @ + 2 + gap], pieces' = pieces
        PROVE  VillageInv'
    <2>1. at' \in Stands(Len(pieces))
      BY <1>2, <1>7 DEF Stands
    <2> QED
      BY Zenon, <1>1, <1>5, <1>7, <2>1 DEF VillageInv
  <1>8. ASSUME NEW gap \in Gaps, pieces' = pieces,
               at' = IF at.step = "left" THEN Village!Beside(at.road, "right", gap, at.has_houses)
                     ELSE IF at.has_houses THEN Village!Beside(at.road, "branch_left", 0, TRUE)
                     ELSE Village!Picking
        PROVE  VillageInv'
    <2>1. Village!Picking \in Stands(Len(pieces))
      BY Zenon DEF Stands
    <2>2. gap \in Int
      BY Zenon
    <2>3. /\ Village!Beside(at.road, "right", gap, at.has_houses) \in Stands(Len(pieces))
          /\ Village!Beside(at.road, "branch_left", 0, TRUE) \in Stands(Len(pieces))
      BY <1>2, <2>2 DEF Village!Beside, Stands
    <2> QED
      BY Zenon, <1>1, <1>5, <1>8, <2>1, <2>3 DEF VillageInv
  <1> QED
    BY Zenon, <1>6, <1>7, <1>8 DEF Village!add_road_houses

(* The branches at the end of a road. *)
LEMMA BranchStep ==
    ASSUME VillageInv, Village!add_road_branches
    PROVE  VillageInv'
  <1> DEFINE road == pieces[at.road]
             to == Village!branch(road, at.step)
  <1>1. at.step \in {"branch_left", "branch_right"}
    BY Zenon DEF Village!add_road_branches
  <1>2. at.road \in 2 .. Len(pieces)
    BY Zenon, <1>1, OnRoad
  <1>3. road \in AnyPiece /\ road.bounds.y0 = Ground /\ road.gen_depth \in Int
    BY Zenon, <1>2, RoadPieces
  <1>4. to.foot \in Places /\ to.foot[2] = Ground /\ to.dir \in Village!Orientations
    BY Zenon, <1>1, <1>3, BranchDoors
  <1>5. Laid(pieces) /\ pending_roads \subseteq 2 .. Len(pieces) /\ Len(pieces) \in Nat /\ Len(pieces) >= 1
    BY DEF VillageInv, Laid
  <1>6. /\ Laid(pieces') /\ Len(pieces') \in Nat /\ Len(pieces') >= Len(pieces)
        /\ pending_roads' \subseteq 2 .. Len(pieces')
    <2>1. CASE Village!generate_road(to.foot, to.dir, road.gen_depth)
      <3> HIDE DEF road, to
      <3> QED
        BY Zenon, <1>3, <1>4, <2>1, RoadJoins
    <2>2. CASE UNCHANGED <<pieces, pending_roads>>
      BY <1>5, <2>2
    <2> QED
      BY Zenon, <2>1, <2>2 DEF Village!add_road_branches
  <1>7. at' \in Stands(Len(pieces'))
    <2>1. at.road \in 2 .. Len(pieces')
      BY <1>2, <1>5, <1>6
    <2>2. Village!Beside(at.road, "branch_right", 0, TRUE) \in Stands(Len(pieces'))
      BY <2>1 DEF Village!Beside, Stands
    <2> QED
      BY Zenon, <2>2 DEF Village!add_road_branches, Stands
  <1> QED
    BY Zenon, <1>6, <1>7 DEF VillageInv

(* No two pieces of a village share a column (create_leaf and generate_road of *)
(* village_plan.rs), so that process_piece may move each to its own ground:    *)
(* for any kinds of house, counts, gaps and road lengths, and villages of any  *)
(* size.                                                                       *)
THEOREM HousesStayApart ==
    ASSUME Kinds \subseteq Village!Houses, Gaps \subseteq Int
    PROVE  Village!Spec => []Village!PiecesApart
  <1>1. Village!Init => VillageInv
    <2> SUFFICES ASSUME Village!Init PROVE VillageInv
      BY Zenon
    <2>1. PICK dir \in Village!Orientations : pieces = <<Village!piece(Village!Start, Village!start_bounds, dir, 0)>>
      BY Zenon DEF Village!Init
    <2>2. Village!piece(Village!Start, Village!start_bounds, dir, 0) \in AnyPiece
      BY DEF Village!piece, AnyPiece, Village!start_bounds, Village!Box, Village!Boxes, Village!dimensions, Village!Start
    <2>3. Laid(pieces)
      BY <2>1, <2>2 DEF Laid, Village!piece
    <2> QED
      BY <2>3 DEF Village!Init, VillageInv, Stands
  <1>2. VillageInv /\ [Village!Next]_Village!vars => VillageInv'
    <2> SUFFICES ASSUME VillageInv, [Village!Next]_Village!vars PROVE VillageInv'
      BY Zenon
    <2>1. CASE UNCHANGED Village!vars
      BY Zenon, <2>1 DEF Village!vars, VillageInv
    <2> QED
      BY Zenon, <2>1, StartStep, PickStep, HouseStep, BranchStep DEF Village!Next
  <1>3. VillageInv => Village!PiecesApart
    BY DEF VillageInv, Laid, Village!PiecesApart
  <1> QED
    BY <1>1, <1>2, <1>3, PTL DEF Village!Spec
=================================================================================
