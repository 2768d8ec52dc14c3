---------------------------- MODULE MCInfiniteWorld ----------------------------
(* A small world for InfiniteWorld: two chunks side by side and one of the same *)
(* hash as one of them, a village house on a slope across the first two and a  *)
(* mineshaft under all of them, with water at its edge in the third.           *)
EXTENDS InfiniteWorld

SomeTargets == {<<0, 0>>, <<1, 0>>, <<-1, -2>>}
SomePlans ==
    {[family |-> "village", source |-> <<0, -1>>,
      bounds |-> Box(5, 64, 4, 20, 70, 12)],
     [family |-> "mineshaft", source |-> <<0, -1>>,
      bounds |-> Box(-10, 20, -25, 25, 30, 6)]}
Slope    == [c \in Chunks |-> IF c[1] > 0 THEN 70 ELSE 66]
SomeWet  == {<<-1, -2>>}
SomeLuck == {{}, {<<0, 0>>}, {<<0, 0>>, <<1, 0>>}}
================================================================================
