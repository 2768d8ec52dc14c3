----------------------------- MODULE StrongholdPlan -----------------------------
(* Laying out one stronghold (structure/stronghold_plan.rs) in source chunk    *)
(* (0, 0): a piece is taken at random from pending_children, its doors are     *)
(* tried one after the other, and what fits behind a door joins the plan and   *)
(* pending_children.  At the end the whole plan is moved underground.  Every   *)
(* draw is a choice (the code draws a piece from a copy of the stream, so not  *)
(* every combination occurs).  Bounds: MaxPieces, Kinds.                       *)
EXTENDS StrongholdRooms

CONSTANTS Kinds,     \* the kinds of the weight table in use
          MaxPieces

VARIABLES pieces, pending_children,
          calls,     \* doors of the current piece still to be tried
          placed,    \* place_count of every kind
          imposed, previous,
          settled    \* the plan has been moved to its final height

vars == <<pieces, pending_children, calls, placed, imposed, previous, settled>>

MAX_DEPTH    == 50
MAX_DISTANCE == 112
LOWEST_Y     == 10
SEA_LEVEL_MINUS_FIVE == 58

None   == "None"

(* The weight table, in order; 0 places means any number. *)
weights == <<"Straight", "PrisonHall", "LeftTurn", "RightTurn", "RoomCrossing", "StraightStairsDown",
             "StairsDown", "FiveCrossing", "ChestCorridor", "Library", "PortalRoom">>
max_place_count ==
    [Straight |-> 0, PrisonHall |-> 5, LeftTurn |-> 0, RightTurn |-> 0, RoomCrossing |-> 6,
     StraightStairsDown |-> 5, StairsDown |-> 5, FiveCrossing |-> 4, ChestCorridor |-> 4,
     Library |-> 2, PortalRoom |-> 1]
min_depth(kind) == CASE kind = "Library" -> 5 [] kind = "PortalRoom" -> 6 [] OTHER -> 0

start_bounds == Box(2, 64, 2, 6, 74, 6)

Init ==
    /\ pieces \in {<<piece("StairsDown", start_bounds, dir, 0)>> : dir \in Orientations}
    /\ pending_children = {}
    /\ calls = <<child_forward(pieces[1], 1, 1)>>
    /\ placed = [k \in Kinds |-> 0]
    /\ imposed = "FiveCrossing" /\ previous = None
    /\ settled = FALSE

--------------------------------------------------------------------------------
box_ok(b) == b.y0 > LOWEST_Y /\ ~collides(pieces, b)

(* The boxes create_piece may return: the first shape that fits. *)
create_piece(kind, d) ==
    LET box(n) == orient_box(d.foot, shapes[kind][n][1], shapes[kind][n][2], d.dir)
    IN  {box(n) : n \in {m \in DOMAIN shapes[kind] :
                           box_ok(box(m)) /\ \A l \in 1 .. m - 1 : ~box_ok(box(l))}}

(* A filler only goes where a longer one would run into a piece on the same    *)
(* floor, and it ends one block inside that piece.                             *)
filler_box(d, depth) == orient_box(d.foot, <<-1, -1, 0>>, <<5, 5, depth>>, d.dir)
find_filler_corridor_box(d) ==
    LET full == filler_box(d, 4)
        hits == {i \in DOMAIN pieces : intersects(pieces[i].bounds, full)}
        Fits(hit, depth) == ~intersects(hit, filler_box(d, depth - 1))
    IN  {b \in {filler_box(d, depth) : depth \in 1 .. 3} :
           \E i \in hits, depth \in 1 .. 3 :
             /\ \A j \in hits : i <= j
             /\ pieces[i].bounds.y0 = full.y0
             /\ Fits(pieces[i].bounds, depth)
             /\ \A longer \in depth + 1 .. 3 : ~Fits(pieces[i].bounds, longer)
             /\ b = filler_box(d, depth)}

InTable(kind)  == max_place_count[kind] = 0 \/ placed[kind] < max_place_count[kind]
HasFinite      == \E k \in Kinds : max_place_count[k] > 0 /\ InTable(k)
(* do_place, and not the same kind twice in a row while another is left. *)
Eligible(kind, depth) ==
    /\ InTable(kind) /\ depth >= min_depth(kind)
    /\ ~(kind = previous /\ \E k \in Kinds \ {kind} : InTable(k))

(* A try runs down the table from the drawn kind to the first one that fits,   *)
(* and gives up at one that is not eligible; five tries may all give up.       *)
TriesFail(d) ==
    LET table == {n \in DOMAIN weights : weights[n] \in Kinds /\ InTable(weights[n])}
        ok(n) == Eligible(weights[n], d.depth + 1)
    IN  \E drawn \in table : \A n \in {m \in table : m >= drawn} :
          ok(n) /\ create_piece(weights[n], d) # {} => \E m \in table : drawn <= m /\ m < n /\ ~ok(m)

AddPiece(kind, b, d) ==
    /\ Len(pieces) < MaxPieces
    /\ pieces' = Append(pieces, piece(kind, b, d.dir, d.depth + 1))
    /\ pending_children' = pending_children \cup {Len(pieces) + 1}

Refused(d) ==
    LET Far(a, b) == a - b > MAX_DISTANCE \/ b - a > MAX_DISTANCE
    IN  d.depth > MAX_DEPTH \/ Far(d.foot[1], start_bounds.x0) \/ Far(d.foot[3], start_bounds.z0)

Fillers(d) == {b \in find_filler_corridor_box(d) : b.y0 > 1}

(* The imposed kind is tried once; else a kind of the table; else a filler.    *)
generate_piece_from_small_door(d) ==
    IF imposed # None /\ create_piece(imposed, d) # {}
    THEN /\ \E b \in create_piece(imposed, d) : AddPiece(imposed, b, d)
         /\ UNCHANGED <<placed, previous>>
    ELSE \/ /\ HasFinite
            /\ \E kind \in Kinds : \E b \in create_piece(kind, d) :
                 /\ Eligible(kind, d.depth + 1)
                 /\ AddPiece(kind, b, d)
                 /\ placed' = [placed EXCEPT ![kind] = @ + 1]
                 /\ previous' = kind
         \/ /\ HasFinite /\ TriesFail(d)
            /\ \E b \in Fillers(d) : AddPiece(Filler, b, d)
            /\ UNCHANGED <<placed, previous>>
         \/ /\ ~HasFinite \/ (TriesFail(d) /\ Fillers(d) = {})
            /\ UNCHANGED <<pieces, pending_children, placed, previous>>

generate_and_add_piece ==
    /\ calls # <<>>
    /\ LET d == Head(calls) IN
       IF Refused(d)
       THEN UNCHANGED <<pieces, pending_children, placed, imposed, previous>>
       ELSE /\ generate_piece_from_small_door(d)
            /\ imposed' = None
    /\ calls' = Tail(calls)
    /\ UNCHANGED settled

take_pending ==
    /\ calls = <<>>
    /\ \E i \in pending_children :
         /\ pending_children' = pending_children \ {i}
         /\ calls' \in {add_children(pieces[i], sides) : sides \in SUBSET optional_doors(pieces[i].kind)}
    /\ UNCHANGED <<pieces, placed, imposed, previous, settled>>

(* Mutant: the top may go one lower. *)
TopsFlush(span) == {span} \cup span .. SEA_LEVEL_MINUS_FIVE - 1

(* The heights the plan's top may go to: from its own span plus one to five    *)
(* below the sea.                                                              *)
Tops(span) == {span + 1} \cup span + 1 .. SEA_LEVEL_MINUS_FIVE - 1

(* The end of generate. *)
settle ==
    /\ calls = <<>> /\ pending_children = {} /\ ~settled
    /\ \E low \in DOMAIN pieces, high \in DOMAIN pieces :
         LET y0 == pieces[low].bounds.y0
             y1 == pieces[high].bounds.y1
             span == y1 - y0 + 1
         IN  /\ \A i \in DOMAIN pieces : y0 <= pieces[i].bounds.y0 /\ pieces[i].bounds.y1 <= y1
             /\ \E top \in Tops(span) :
                  pieces' = [i \in DOMAIN pieces |->
                               [pieces[i] EXCEPT !.bounds = move_by(@, top - y1)]]
    /\ settled' = TRUE
    /\ UNCHANGED <<pending_children, calls, placed, imposed, previous>>

Next == generate_and_add_piece \/ take_pending \/ settle

Spec == Init /\ [][Next]_vars

--------------------------------------------------------------------------------
(* No room is built into an older one: only a filler may overlap what stands   *)
(* before it, at its far end, and nothing is ever built over a filler.         *)
RoomsApart ==
    \A i, j \in DOMAIN pieces :
        i < j /\ pieces[j].kind # Filler => ~intersects(pieces[i].bounds, pieces[j].bounds)

(* Every piece lies in the chunks that find this stronghold: apply and         *)
(* post_process look eight chunks around, and a piece further out would never  *)
(* be built.                                                                   *)
RoomsInReach ==
    \A i \in DOMAIN pieces :
        LET b == pieces[i].bounds
        IN  -128 <= b.x0 /\ b.x1 < 144 /\ -128 <= b.z0 /\ b.z1 < 144

(* The finished plan stands clear of the lowest layer of bedrock, though it    *)
(* was laid out at another height and moved as a whole.                        *)
RoomsAboveBedrock == settled => \A i \in DOMAIN pieces : pieces[i].bounds.y0 > 1
================================================================================
