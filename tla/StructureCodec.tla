---------------------------- MODULE StructureCodec ----------------------------
(* The stored form of what the generator knows (OverworldInfiniteState::encode *)
(* and decode in native/world/src/infinite.rs, and the codec of each family    *)
(* under structure).  The file is a sequence of fields of one or four bytes;   *)
(* writer and reader are written apart, so they are tables apart here: the     *)
(* order of the fields, the number of every kind, what follows which tag.      *)
EXTENDS Integers, SequencesExt, TLC

CONSTANT Limit   \* starts of a family, pieces of a start, entrances: 4096 in the code

VARIABLES known,      \* OverworldInfiniteState: the starts of each family
          stage,      \* "known", "stored" or "restored"
          bytes,      \* the stored form
          restored    \* what decode made of it

vars == <<known, stage, bytes, restored>>

Families == <<"village", "mineshaft", "stronghold", "scattered">>

-------------------------------------------------------------------------------
(* The number of a variant: "as u8" when it is written, a match when it is read. *)
as_u8 ==
    [orientation    |-> <<"South", "West", "North", "East">>,
     style          |-> <<"Plains", "Desert", "Savanna", "Taiga">>,
     crop           |-> <<"Wheat", "Potato", "Beetroot", "Carrot">>,
     VillageKind    |-> <<"Start", "SimpleHouse", "SmallTemple", "BookHouse", "SmallHut", "PigHouse",
                          "DoubleFarmland", "Farmland", "Smithy", "TwoRoomHouse", "LightPost",
                          "StraightRoad">>,
     MineshaftKind  |-> <<"Room", "Corridor", "Crossing", "Stairs">>,
     StrongholdKind |-> <<"Straight", "PrisonHall", "LeftTurn", "RightTurn", "RoomCrossing",
                          "StraightStairsDown", "StairsDown", "FiveCrossing", "ChestCorridor",
                          "Library", "PortalRoom", "FillerCorridor">>,
     Door           |-> <<"Opening", "WoodDoor", "Grates", "IronDoor">>,
     ScatteredKind  |-> <<"DesertPyramid", "JunglePyramid", "SwamplandHut">>]

piece_kind ==
    [orientation    |-> <<"South", "West", "North", "East">>,
     style          |-> <<"Plains", "Desert", "Savanna", "Taiga">>,
     crop           |-> <<"Wheat", "Potato", "Beetroot", "Carrot">>,
     VillageKind    |-> <<"Start", "SimpleHouse", "SmallTemple", "BookHouse", "SmallHut", "PigHouse",
                          "DoubleFarmland", "Farmland", "Smithy", "TwoRoomHouse", "LightPost",
                          "StraightRoad">>,
     MineshaftKind  |-> <<"Room", "Corridor", "Crossing", "Stairs">>,
     StrongholdKind |-> <<"Straight", "PrisonHall", "LeftTurn", "RightTurn", "RoomCrossing",
                          "StraightStairsDown", "StairsDown", "FiveCrossing", "ChestCorridor",
                          "Library", "PortalRoom", "FillerCorridor">>,
     Door           |-> <<"Opening", "WoodDoor", "Grates", "IronDoor">>,
     ScatteredKind  |-> <<"DesertPyramid", "JunglePyramid", "SwamplandHut">>]

(* Tables of fields, each a name and a type. *)
i32(names)  == [k \in DOMAIN names |-> <<names[k], "i32">>]
flag(names) == [k \in DOMAIN names |-> <<names[k], "bool">>]
one(name, type) == << <<name, type>> >>
entrances == one("entrances", "boxes")
Corners == <<"x0", "y0", "z0", "x1", "y1", "z1">>

encode_core_semantics == i32(<<"x", "z">> \o Corners)
decode_core_semantics == i32(<<"x", "z">> \o Corners)

(* A family's layout: the fields of a start and of a piece, and what follows   *)
(* each tag, in the order of the tags.  A reader also names the kinds of piece *)
(* it accepts a tag for.                                                       *)
village_encode ==
    [start |-> one("style", "style") \o flag(<<"abandoned">>),
     piece |-> one("kind", "VillageKind") \o one("orientation", "orientation")
               \o i32(<<"gen_depth">> \o Corners \o <<"height_position">>) \o flag(<<"placed_chest">>),
     extra |-> <<[tag |-> "None", fields |-> <<>>],
                 [tag |-> "SimpleHouse", fields |-> flag(<<"terrace">>)],
                 [tag |-> "SmallHut", fields |-> flag(<<"low_ceiling">>) \o one("table", "u8")],
                 [tag |-> "Farmland", fields |-> one("crop1", "crop") \o one("crop2", "crop")],
                 [tag |-> "DoubleFarmland",
                  fields |-> one("crop1", "crop") \o one("crop2", "crop")
                             \o one("crop3", "crop") \o one("crop4", "crop")],
                 [tag |-> "StraightRoad", fields |-> i32(<<"length">>)]>>]

village_decode ==
    LET any == Range(as_u8.VillageKind) IN
    [start |-> one("style", "style") \o flag(<<"abandoned">>),
     piece |-> one("kind", "VillageKind") \o one("orientation", "orientation")
               \o i32(<<"gen_depth">> \o Corners \o <<"height_position">>) \o flag(<<"placed_chest">>),
     least |-> 0, most |-> Limit,
     extra |-> <<[tag |-> "None", kinds |-> any, fields |-> <<>>],
                 [tag |-> "SimpleHouse", kinds |-> any, fields |-> flag(<<"terrace">>)],
                 [tag |-> "SmallHut", kinds |-> any,
                  fields |-> flag(<<"low_ceiling">>) \o one("table", "u8")],
                 [tag |-> "Farmland", kinds |-> any,
                  fields |-> one("crop1", "crop") \o one("crop2", "crop")],
                 [tag |-> "DoubleFarmland", kinds |-> any,
                  fields |-> one("crop1", "crop") \o one("crop2", "crop")
                             \o one("crop3", "crop") \o one("crop4", "crop")],
                 [tag |-> "StraightRoad", kinds |-> any, fields |-> i32(<<"length">>)]>>]

mineshaft_encode ==
    [start |-> flag(<<"surface">>),
     piece |-> one("kind", "MineshaftKind") \o one("orientation", "orientation")
               \o i32(<<"gen_depth">> \o Corners),
     extra |-> <<[tag |-> "Room", fields |-> entrances],
                 [tag |-> "Corridor",
                  fields |-> flag(<<"has_rails", "spider_corridor", "has_placed_spider">>)
                             \o i32(<<"num_sections">>)],
                 [tag |-> "Crossing",
                  fields |-> one("direction", "orientation") \o flag(<<"two_floored">>)],
                 [tag |-> "Stairs", fields |-> <<>>]>>]

mineshaft_decode ==
    [start |-> flag(<<"surface">>),
     piece |-> one("kind", "MineshaftKind") \o one("orientation", "orientation")
               \o i32(<<"gen_depth">> \o Corners),
     least |-> 0, most |-> Limit,
     extra |-> <<[tag |-> "Room", kinds |-> {"Room"}, fields |-> entrances],
                 [tag |-> "Corridor", kinds |-> {"Corridor"},
                  fields |-> flag(<<"has_rails", "spider_corridor", "has_placed_spider">>)
                             \o i32(<<"num_sections">>)],
                 [tag |-> "Crossing", kinds |-> {"Crossing"},
                  fields |-> one("direction", "orientation") \o flag(<<"two_floored">>)],
                 [tag |-> "Stairs", kinds |-> {"Stairs"}, fields |-> <<>>]>>]

stronghold_encode ==
    [start |-> <<>>,
     piece |-> one("kind", "StrongholdKind") \o one("orientation", "orientation")
               \o one("entry_door", "Door") \o i32(<<"gen_depth">> \o Corners),
     extra |-> <<[tag |-> "None", fields |-> <<>>],
                 [tag |-> "StairsDown", fields |-> flag(<<"is_source">>)],
                 [tag |-> "ChestCorridor", fields |-> flag(<<"has_placed_chest">>)],
                 [tag |-> "FillerCorridor", fields |-> i32(<<"steps">>)],
                 [tag |-> "FiveCrossing",
                  fields |-> flag(<<"left_high", "left_low", "right_high", "right_low">>)],
                 [tag |-> "Library", fields |-> flag(<<"is_tall">>)],
                 [tag |-> "PortalRoom", fields |-> flag(<<"has_placed_mob_spawner">>)],
                 [tag |-> "RoomCrossing", fields |-> i32(<<"room_type">>)],
                 [tag |-> "Straight", fields |-> flag(<<"left_child", "right_child">>)]>>]

StrongholdReader(crossing) ==
    [start |-> <<>>,
     piece |-> one("kind", "StrongholdKind") \o one("orientation", "orientation")
               \o one("entry_door", "Door") \o i32(<<"gen_depth">> \o Corners),
     least |-> 1, most |-> Limit,
     extra |-> <<[tag |-> "None", fields |-> <<>>,
                  kinds |-> {"PrisonHall", "LeftTurn", "RightTurn", "StraightStairsDown"}],
                 [tag |-> "StairsDown", kinds |-> {"StairsDown"}, fields |-> flag(<<"is_source">>)],
                 [tag |-> "ChestCorridor", kinds |-> {"ChestCorridor"},
                  fields |-> flag(<<"has_placed_chest">>)],
                 [tag |-> "FillerCorridor", kinds |-> {"FillerCorridor"}, fields |-> i32(<<"steps">>)],
                 [tag |-> "FiveCrossing", kinds |-> {"FiveCrossing"}, fields |-> flag(crossing)],
                 [tag |-> "Library", kinds |-> {"Library"}, fields |-> flag(<<"is_tall">>)],
                 [tag |-> "PortalRoom", kinds |-> {"PortalRoom"},
                  fields |-> flag(<<"has_placed_mob_spawner">>)],
                 [tag |-> "RoomCrossing", kinds |-> {"RoomCrossing"}, fields |-> i32(<<"room_type">>)],
                 [tag |-> "Straight", kinds |-> {"Straight"},
                  fields |-> flag(<<"left_child", "right_child">>)]>>]

(* Mutant: two doors of a crossing change places. *)
stronghold_decode_swapped == StrongholdReader(<<"left_low", "left_high", "right_high", "right_low">>)
stronghold_decode == StrongholdReader(<<"left_high", "left_low", "right_high", "right_low">>)

(* At most one piece, and no tag. *)
scattered_encode ==
    [start |-> <<>>,
     piece |-> one("kind", "ScatteredKind") \o i32(<<"height_position">>)
               \o flag(<<"chest1", "chest2", "chest3", "chest4", "jungle_main_chest",
                         "jungle_hidden_chest", "trap1", "trap2", "spawned_witch">>),
     extra |-> <<>>]

scattered_decode ==
    [start |-> <<>>,
     piece |-> one("kind", "ScatteredKind") \o i32(<<"height_position">>)
               \o flag(<<"chest1", "chest2", "chest3", "chest4", "jungle_main_chest",
                         "jungle_hidden_chest", "trap1", "trap2", "spawned_witch">>),
     least |-> 0, most |-> 1,
     extra |-> <<>>]

writer == [village |-> village_encode, mineshaft |-> mineshaft_encode,
           stronghold |-> stronghold_encode, scattered |-> scattered_encode]
reader == [village |-> village_decode, mineshaft |-> mineshaft_decode,
           stronghold |-> stronghold_decode, scattered |-> scattered_decode]
(* The number of pieces takes four bytes, the option of a scattered piece one. *)
count_type == [village |-> "i32", mineshaft |-> "i32", stronghold |-> "i32", scattered |-> "u8"]

-------------------------------------------------------------------------------
(* Writing: one field for each entry of a table, but for the entrances of a     *)
(* room, whose number comes before their boxes.                                *)
write(type, v) ==
    CASE type = "i32"  -> <<4, v>>
      [] type = "u8"   -> <<1, v>>
      [] type = "bool" -> <<1, IF v THEN 1 ELSE 0>>
      [] OTHER -> <<1, (CHOOSE k \in DOMAIN as_u8[type] : as_u8[type][k] = v) - 1>>

fields(r, table) ==
    IF table = entrances
    THEN << <<4, Len(r.entrances)>> >> \o
         [k \in 1 .. 6 * Len(r.entrances) |->
            <<4, r.entrances[1 + ((k - 1) \div 6)][Corners[1 + ((k - 1) % 6)]]>>]
    ELSE [k \in DOMAIN table |-> write(table[k][2], r[table[k][1]])]

encode_piece(layout, p) ==
    fields(p, layout.piece) \o
    IF layout.extra = <<>> THEN <<>>
    ELSE LET k == CHOOSE k \in DOMAIN layout.extra : layout.extra[k].tag = p.extra
         IN  << <<1, k - 1>> >> \o fields(p, layout.extra[k].fields)

encode_plan(f, s) ==
    fields(s, encode_core_semantics) \o fields(s, writer[f].start)
    \o <<write(count_type[f], Len(s.pieces))>>
    \o FlattenSeq([k \in DOMAIN s.pieces |-> encode_piece(writer[f], s.pieces[k])])

encode_family(f, starts) ==
    << <<4, f>>, <<4, Len(starts)>> >> \o FlattenSeq([k \in DOMAIN starts |-> encode_plan(f, starts[k])])

(* The length of a section, in fields. *)
encode(state) ==
    << <<4, "magic">> >> \o
    FlattenSeq([k \in DOMAIN Families |->
                  LET section == encode_family(Families[k], state[Families[k]])
                  IN  << <<4, Len(section)>> >> \o section])

-------------------------------------------------------------------------------
(* Reading: a value and what is left, or failure. *)
fail == [ok |-> FALSE]
got(value, rest) == [ok |-> TRUE, value |-> value, rest |-> rest]
width(type) == IF type = "i32" THEN 4 ELSE 1
legal(type, field) ==
    /\ field[1] = width(type)
    /\ type \in DOMAIN piece_kind => field[2] + 1 \in DOMAIN piece_kind[type]
read(type, v) ==
    CASE type \in {"i32", "u8"} -> v
      [] type = "bool" -> v # 0
      [] OTHER -> piece_kind[type][v + 1]

parse_boxes(rest) ==
    IF rest = <<>> \/ Head(rest)[2] > Limit \/ Len(rest) <= 6 * Head(rest)[2] THEN fail
    ELSE LET n == Head(rest)[2] IN
         got([entrances |-> [k \in 1 .. n |-> [c \in Range(Corners) |->
                rest[1 + 6 * (k - 1) + (CHOOSE i \in 1 .. 6 : Corners[i] = c)][2]]]],
             SubSeq(rest, 2 + 6 * n, Len(rest)))

parse(table, rest) ==
    IF table = entrances THEN parse_boxes(rest)
    ELSE IF Len(rest) < Len(table) \/ \E k \in DOMAIN table : ~legal(table[k][2], rest[k]) THEN fail
    ELSE got([name \in {table[k][1] : k \in DOMAIN table} |->
                LET k == CHOOSE k \in DOMAIN table : table[k][1] = name IN read(table[k][2], rest[k][2])],
             SubSeq(rest, Len(table) + 1, Len(rest)))

(* The same thing a number of times. *)
times(n, decode_one(_), rest) ==
    FoldLeft(LAMBDA s, k :
               IF ~s.ok THEN s
               ELSE LET d == decode_one(s.rest)
                    IN  IF d.ok THEN got(Append(s.value, d.value), d.rest) ELSE d,
             got(<<>>, rest), [k \in 1 .. n |-> k])

decode_piece(layout, rest) ==
    LET p == parse(layout.piece, rest) IN
    IF ~p.ok \/ layout.extra = <<>> THEN p
    ELSE IF p.rest = <<>> \/ ~(Head(p.rest)[2] + 1 \in DOMAIN layout.extra) THEN fail
    ELSE LET extra == layout.extra[Head(p.rest)[2] + 1]
             e == parse(extra.fields, Tail(p.rest))
         IN  IF ~e.ok \/ p.value.kind \notin extra.kinds THEN fail
             ELSE got(p.value @@ e.value @@ ("extra" :> extra.tag), e.rest)

decode_plan(f, rest) ==
    LET layout == reader[f]
        start  == parse(decode_core_semantics \o layout.start \o one("count", count_type[f]), rest)
    IN  IF ~start.ok THEN fail
        ELSE IF start.value.count \notin layout.least .. layout.most THEN fail
        ELSE LET pieces == times(start.value.count, LAMBDA r : decode_piece(layout, r), start.rest)
             IN  IF pieces.ok
                 THEN got([n \in DOMAIN start.value \ {"count"} |-> start.value[n]]
                          @@ ("pieces" :> pieces.value), pieces.rest)
                 ELSE fail

decode_family(f, section) ==
    IF Len(section) < 2 \/ section[1] # <<4, f>> \/ section[2][2] > Limit THEN fail
    ELSE LET starts == times(section[2][2], LAMBDA r : decode_plan(f, r), SubSeq(section, 3, Len(section)))
         IN  IF starts.ok /\ starts.rest = <<>> THEN starts ELSE fail

(* The section whose length comes first. *)
take_section(rest) ==
    IF rest = <<>> THEN fail
    ELSE LET n == Head(rest)[2] IN
         IF Len(rest) <= n THEN fail ELSE got(SubSeq(rest, 2, n + 1), SubSeq(rest, n + 2, Len(rest)))

decode(stored) ==
    LET all == FoldLeft(LAMBDA s, f :
                   IF ~s.ok THEN s
                   ELSE LET section == take_section(s.rest)
                            starts  == IF section.ok THEN decode_family(f, section.value) ELSE fail
                        IN  IF starts.ok THEN got(s.value @@ (f :> starts.value), section.rest) ELSE fail,
                 IF Head(stored) = <<4, "magic">> THEN got(<<>>, Tail(stored)) ELSE fail, Families)
    IN  IF all.ok /\ all.rest = <<>> THEN all ELSE fail

-------------------------------------------------------------------------------
(* Starts as the planners make and the writers change them: every kind with    *)
(* the extra that belongs to it, every orientation and door, each flag set on  *)
(* its own, every integer another value.                                       *)
extra_of(f, kind) ==
    LET tags == {k \in DOMAIN writer[f].extra : writer[f].extra[k].tag \in {kind, "None"}}
    IN  writer[f].extra[CHOOSE k \in tags : \A n \in tags : n <= k]

Entrance == [c \in Range(Corners) |-> 90 + (CHOOSE n \in 1 .. 6 : Corners[n] = c)]
Kinds(f) == Range(as_u8[writer[f].piece[1][2]])
Variants(field, kind, k, set) ==
    CASE field[1] = "kind"  -> {kind}
      [] field[2] = "i32"   -> {k}
      [] field[2] = "u8"    -> {0, 2}
      [] field[2] = "bool"  -> {k = set}
      [] field[2] = "boxes" -> {<<>>, <<Entrance, Entrance>>}
      [] field[2] = "crop"  -> {as_u8.crop[1 + (k % 4)], as_u8.crop[1 + ((k + 1) % 4)]}
      [] OTHER -> Range(as_u8[field[2]])

(* All records of a table of fields, at most one of its flags set. *)
Records(table, kind) ==
    UNION {FoldLeft(LAMBDA rs, k : {r @@ (table[k][1] :> v) :
                                      r \in rs, v \in Variants(table[k], kind, k, set)},
                    {<<>>}, [k \in DOMAIN table |-> k]) :
           set \in {0} \cup {k \in DOMAIN table : table[k][2] = "bool"}}

PiecesOf(f, kind) ==
    IF f = "scattered" THEN Records(writer[f].piece, kind)
    ELSE {p @@ ("extra" :> extra_of(f, kind).tag) :
            p \in Records(writer[f].piece \o extra_of(f, kind).fields, kind)}
Pieces(f) == UNION {PiecesOf(f, kind) : kind \in Kinds(f)}
SomePiece(f) == CHOOSE p \in PiecesOf(f, as_u8[writer[f].piece[1][2]][3]) : TRUE
Heads(f) == Records(encode_core_semantics \o writer[f].start, "")
SomeHead(f) == CHOOSE h \in Heads(f) : TRUE
Found == [k \in DOMAIN Families |-> Len(known[Families[k]])]
Total == FoldLeft(LAMBDA n, m : n + m, 0, Found)

Init ==
    /\ known = [f \in Range(Families) |-> <<>>]
    /\ stage = "known" /\ bytes = <<>> /\ restored = fail

(* A start is found: any piece, or any style. *)
Discover(f) ==
    /\ stage = "known" /\ Total = 0
    /\ \E s \in {SomeHead(f) @@ ("pieces" :> <<p>>) : p \in Pieces(f)} \cup
                 {h @@ ("pieces" :> <<SomePiece(f)>>) : h \in Heads(f)} :
         known' = [known EXCEPT ![f] = <<s>>]
    /\ UNCHANGED <<stage, bytes, restored>>

(* It has more pieces, or none left: a mineshaft ended by water, a temple.     *)
Grow(f) ==
    /\ stage = "known" /\ Total = 1 /\ Len(known[f]) = 1
    /\ \/ f # "scattered" /\ Len(known[f][1].pieces) = 1
         /\ known' = [known EXCEPT ![f][1].pieces = Append(@, SomePiece(f))]
       \/ f \in {"mineshaft", "scattered"} /\ Len(known[f][1].pieces) = 1
         /\ known' = [known EXCEPT ![f][1].pieces = <<>>]
    /\ UNCHANGED <<stage, bytes, restored>>

(* A start of another family, or of the same. *)
DiscoverMore(f) ==
    /\ stage = "known" /\ Total = 1
    /\ known' = [known EXCEPT ![f] = Append(@, SomeHead(f) @@ ("pieces" :> <<SomePiece(f)>>))]
    /\ UNCHANGED <<stage, bytes, restored>>

persist ==
    /\ stage = "known"
    /\ stage' = "stored" /\ bytes' = encode(known)
    /\ UNCHANGED <<known, restored>>

restore ==
    /\ stage = "stored"
    /\ stage' = "restored" /\ restored' = decode(bytes)
    /\ UNCHANGED <<known, bytes>>

Next ==
    \/ \E f \in Range(Families) : Discover(f) \/ Grow(f) \/ DiscoverMore(f)
    \/ persist \/ restore

Spec == Init /\ [][Next]_vars

-------------------------------------------------------------------------------
(* A world that was saved can be opened, and the generator knows then exactly  *)
(* what it knew of every start and piece (but for the chunks a start was       *)
(* already built in, which are not stored), whatever kinds, doors and flags    *)
(* they have.                                                                  *)
RoundTrip == stage = "restored" => restored.ok /\ restored.value = known
===============================================================================
