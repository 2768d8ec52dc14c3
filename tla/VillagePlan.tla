------------------------------ MODULE VillagePlan ------------------------------
(* Laying out one village (structure/village_plan.rs): four roads leave the    *)
(* well, each road grows houses along both sides and up to two branch roads,   *)
(* and the roads still to be grown are taken in random order.  Every draw of   *)
(* the random stream is a choice.  Bounds: MaxPieces, and the sets of draws.   *)
EXTENDS StructureShapes

CONSTANTS Kinds,      \* the kinds of house with a count above zero
          MaxCounts,  \* the counts a kind may draw
          Lengths,    \* draws of a road's length, times seven
          Gaps,       \* draws of the gap along a road, 0 .. 4 in the code
          MaxPieces

VARIABLES pieces, pending_roads, pending_houses,
          left,      \* places left for each kind in weights
          previous,  \* previous_piece
          at         \* what the planner does next

vars == <<pieces, pending_roads, pending_houses, left, previous, at>>

MAX_OFFSET_FROM_START == 112
LOWEST_Y_POSITION     == 10
MAX_DEPTH             == 50
BASE_ROAD_DEPTH       == 3

(* The weight table, in order. *)
weights == <<"SimpleHouse", "SmallTemple", "BookHouse", "SmallHut", "PigHouse", "DoubleFarmland",
             "Farmland", "Smithy", "TwoRoomHouse">>
Houses == DOMAIN dimensions \ {"Start", "LightPost"}
Start  == "Start"
Road   == "StraightRoad"

start_bounds == Box(2, 64, 2, 7, 78, 7)

(* Where the planner stands: at the well with n roads tried, between two       *)
(* roads, or beside road i.                                                    *)
AtStart(n)                == [step |-> "start", n |-> n]
Picking                   == [step |-> "pick"]
Beside(i, side, off, has) == [step |-> side, road |-> i, offset |-> off, has_houses |-> has]

Init ==
    /\ pieces \in {<<piece(Start, start_bounds, dir, 0)>> : dir \in Orientations}
    /\ pending_roads = {} /\ pending_houses = {}
    /\ left \in [Kinds -> MaxCounts]
    /\ previous = Start
    /\ at = AtStart(0)

--------------------------------------------------------------------------------
TooFar(foot) ==
    LET Far(a, b) == a - b > MAX_OFFSET_FROM_START \/ b - a > MAX_OFFSET_FROM_START
    IN  Far(foot[1], start_bounds.x0) \/ Far(foot[3], start_bounds.z0)

(* The roads generate_road may lay: the drawn length, or as many sevens less   *)
(* as it takes to find room.                                                   *)
road_box(foot, dir, sevens) == orient_box(foot, <<0, 0, 0>>, <<3, 3, 7 * sevens>>, dir)
road_lengths(foot, dir) ==
    {n \in 1 .. 5 : /\ ~collides(pieces, road_box(foot, dir, n))
                    /\ \E drawn \in Lengths :
                         /\ n <= drawn
                         /\ \A m \in n + 1 .. drawn : collides(pieces, road_box(foot, dir, m))}
generate_road(foot, dir, depth) ==
    IF depth > BASE_ROAD_DEPTH \/ TooFar(foot) \/ foot[2] <= LOWEST_Y_POSITION
       \/ road_lengths(foot, dir) = {}
    THEN UNCHANGED <<pieces, pending_roads>>
    ELSE \E n \in road_lengths(foot, dir) :
           /\ Len(pieces) < MaxPieces
           /\ pieces' = Append(pieces, piece(Road, road_box(foot, dir, n), dir, depth))
           /\ pending_roads' = pending_roads \cup {Len(pieces) + 1}

house_box(kind, foot, dir) == orient_box(foot, <<0, 0, 0>>, dimensions[kind], dir)
Fits(kind, foot, dir) == ~collides(pieces, house_box(kind, foot, dir))
create_leaf(kind, foot, dir, depth) ==
    /\ Fits(kind, foot, dir)
    /\ Len(pieces) < MaxPieces
    /\ pieces' = Append(pieces, piece(kind, house_box(kind, foot, dir), dir, depth))

(* A kind is refused twice in a row unless it is the last one left. *)
Selectable(k) == left[k] > 0 /\ ~(k = previous /\ \E j \in Kinds \ {k} : left[j] > 0)
(* A try runs down the table from the drawn kind to the first one that fits,   *)
(* and gives up at one that is refused; five tries may all give up.            *)
TriesFail(foot, dir) ==
    LET table == {n \in DOMAIN weights : weights[n] \in Kinds /\ left[weights[n]] > 0}
        ok(n) == Selectable(weights[n])
    IN  \E drawn \in table : \A n \in {m \in table : m >= drawn} :
          ok(n) /\ Fits(weights[n], foot, dir) => \E m \in table : drawn <= m /\ m < n /\ ~ok(m)
(* Failing a house, a lamp post. *)
generate_piece_from_small_door(foot, dir, depth) ==
    \/ \E kind \in Kinds :
         /\ Selectable(kind)
         /\ create_leaf(kind, foot, dir, depth)
         /\ left' = [left EXCEPT ![kind] = @ - 1]
         /\ previous' = kind
    \/ /\ TriesFail(foot, dir)
       /\ create_leaf("LightPost", foot, dir, depth)
       /\ UNCHANGED <<left, previous>>
NoHouse(foot, dir, depth) ==
    \/ depth > MAX_DEPTH \/ TooFar(foot)
    \/ \A kind \in Kinds : left[kind] = 0
    \/ TriesFail(foot, dir) /\ ~Fits("LightPost", foot, dir)

--------------------------------------------------------------------------------
(* add_start_children: a road to each side of the well. *)
add_start_children ==
    LET s == start_bounds
        foot == <<<<s.x0 - 1, s.y1 - 4, s.z0 + 1>>, <<s.x1 + 1, s.y1 - 4, s.z0 + 1>>,
                  <<s.x0 + 1, s.y1 - 4, s.z0 - 1>>, <<s.x0 + 1, s.y1 - 4, s.z1 + 1>>>>
        dir  == <<West, East, North, South>>
    IN  /\ at.step = "start" /\ at.n < 4
        /\ generate_road(foot[at.n + 1], dir[at.n + 1], 0)
        /\ at' = IF at.n = 3 THEN Picking ELSE AtStart(at.n + 1)
        /\ UNCHANGED <<pending_houses, left, previous>>

(* The main loop of generate: roads before houses, either in any order.        *)
(* Houses grow nothing.                                                        *)
generate ==
    /\ at = Picking
    /\ \/ \E i \in pending_roads, gap \in Gaps :
            /\ pending_roads' = pending_roads \ {i}
            /\ at' = Beside(i, "left", gap, FALSE)
            /\ UNCHANGED pending_houses
       \/ /\ pending_roads = {}
          /\ \E i \in pending_houses : pending_houses' = pending_houses \ {i}
          /\ UNCHANGED <<pending_roads, at>>
    /\ UNCHANGED <<pieces, left, previous>>

(* generate_house_left and _right: the door of a house offset along the road. *)
generate_house(road, side, offset) ==
    LET b == road.bounds
        along == road.orientation \in {North, South}
    IN  CASE side = "left"  /\ along  -> [foot |-> <<b.x0 - 1, b.y0, b.z0 + offset>>, dir |-> West]
          [] side = "left"  /\ ~along -> [foot |-> <<b.x0 + offset, b.y0, b.z0 - 1>>, dir |-> North]
          [] side = "right" /\ along  -> [foot |-> <<b.x1 + 1, b.y0, b.z0 + offset>>, dir |-> East]
          [] side = "right" /\ ~along -> [foot |-> <<b.x0 + offset, b.y0, b.z1 + 1>>, dir |-> South]

length(road) == IF x_span(road.bounds) > z_span(road.bounds)
                THEN x_span(road.bounds) ELSE z_span(road.bounds)

(* One turn of the two loops of add_road_children. *)
add_road_houses ==
    /\ at.step \in {"left", "right"}
    /\ LET road == pieces[at.road]
           h == generate_house(road, at.step, at.offset)
           depth == road.gen_depth + 1
       IN  IF at.offset < length(road) - 8
           THEN \E gap \in Gaps :
                  \/ /\ ~(road.gen_depth > MAX_DEPTH \/ TooFar(h.foot))
                     /\ generate_piece_from_small_door(h.foot, h.dir, depth)
                     /\ pending_houses' = pending_houses \cup {Len(pieces) + 1}
                     /\ at' = Beside(at.road, at.step,
                                     at.offset + length(pieces'[Len(pieces')]) + 2 + gap, TRUE)
                  \/ /\ NoHouse(h.foot, h.dir, road.gen_depth)
                     /\ at' = [at EXCEPT !.offset = @ + 2 + gap]
                     /\ UNCHANGED <<pieces, pending_houses, left, previous>>
           ELSE /\ \E gap \in Gaps :
                     at' = IF at.step = "left" THEN Beside(at.road, "right", gap, at.has_houses)
                           ELSE IF at.has_houses THEN Beside(at.road, "branch_left", 0, TRUE)
                           ELSE Picking
                /\ UNCHANGED <<pieces, pending_houses, left, previous>>
    /\ UNCHANGED pending_roads

(* The far end of the road, where a branch starts to its left or right. *)
road_end(road) ==
    LET b == road.bounds
    IN  [North |-> b.z0, South |-> b.z1 - 2, East |-> b.x1 - 2, West |-> b.x0][road.orientation]
branch(road, side) ==
    LET b == road.bounds
        far == road_end(road)
        along == road.orientation \in {North, South}
    IN  CASE side = "branch_left"  /\ along  -> [foot |-> <<b.x0 - 1, b.y0, far>>, dir |-> West]
          [] side = "branch_left"  /\ ~along -> [foot |-> <<far, b.y0, b.z0 - 1>>, dir |-> North]
          [] side = "branch_right" /\ along  -> [foot |-> <<b.x1 + 1, b.y0, far>>, dir |-> East]
          [] side = "branch_right" /\ ~along -> [foot |-> <<far, b.y0, b.z1 + 1>>, dir |-> South]

add_road_branches ==
    /\ at.step \in {"branch_left", "branch_right"}
    /\ LET road == pieces[at.road]
           to == branch(road, at.step)
       IN  \/ generate_road(to.foot, to.dir, road.gen_depth)
           \/ UNCHANGED <<pieces, pending_roads>>
    /\ at' = IF at.step = "branch_left" THEN Beside(at.road, "branch_right", 0, TRUE) ELSE Picking
    /\ UNCHANGED <<pending_houses, left, previous>>

Next == add_start_children \/ generate \/ add_road_houses \/ add_road_branches

Spec == Init /\ [][Next]_vars

--------------------------------------------------------------------------------
(* No two pieces share a column.  Each piece is later moved up or down to its  *)
(* own ground height (village_place.rs), so boxes that merely do not intersect *)
(* would not keep one house from being built through another.                  *)
PiecesApart ==
    \A i, j \in DOMAIN pieces : i # j => ~intersects_xz(pieces[i].bounds, pieces[j].bounds)
================================================================================
