---------------------------- MODULE StructureShapes ----------------------------
(* The boxes the planners reserve for the pieces of a structure, shared by the *)
(* plans and by the writers that later fill them with blocks.                  *)
EXTENDS StructureBounds

(* VillagePieceKind::dimensions: width, height and depth. *)
dimensions ==
    [Start |-> <<6, 15, 6>>, SimpleHouse |-> <<5, 6, 5>>, SmallTemple |-> <<5, 12, 9>>,
     BookHouse |-> <<9, 9, 6>>, SmallHut |-> <<4, 6, 5>>, PigHouse |-> <<9, 7, 11>>,
     DoubleFarmland |-> <<13, 4, 9>>, Farmland |-> <<7, 4, 9>>, Smithy |-> <<10, 6, 7>>,
     TwoRoomHouse |-> <<9, 7, 12>>, LightPost |-> <<3, 4, 2>>]

(* Stronghold create_piece: offset and size of each kind; a library is tried   *)
(* tall, then short.                                                           *)
shapes ==
    [Straight           |-> <<<<<<-1, -1, 0>>, <<5, 5, 7>>>>>>,
     PrisonHall         |-> <<<<<<-1, -1, 0>>, <<9, 5, 11>>>>>>,
     LeftTurn           |-> <<<<<<-1, -1, 0>>, <<5, 5, 5>>>>>>,
     RightTurn          |-> <<<<<<-1, -1, 0>>, <<5, 5, 5>>>>>>,
     RoomCrossing       |-> <<<<<<-4, -1, 0>>, <<11, 7, 11>>>>>>,
     StraightStairsDown |-> <<<<<<-1, -7, 0>>, <<5, 11, 8>>>>>>,
     StairsDown         |-> <<<<<<-1, -7, 0>>, <<5, 11, 5>>>>>>,
     FiveCrossing       |-> <<<<<<-4, -3, 0>>, <<10, 9, 11>>>>>>,
     ChestCorridor      |-> <<<<<<-1, -1, 0>>, <<5, 5, 7>>>>>>,
     Library            |-> <<<<<<-4, -1, 0>>, <<14, 11, 15>>>>, <<<<-4, -1, 0>>, <<14, 6, 15>>>>>>,
     PortalRoom         |-> <<<<<<-4, -1, 0>>, <<11, 8, 16>>>>>>]
Filler == "FillerCorridor"

(* A piece of a plan. *)
piece(kind, bounds, dir, depth) ==
    [kind |-> kind, bounds |-> bounds, orientation |-> dir, gen_depth |-> depth]
================================================================================
