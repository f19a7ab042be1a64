---------------------------- MODULE MCVeinMiner ----------------------------
(***************************************************************************)
(* A world of 4 x 3 tiles: 0 is air, 1 a block that is no ore, 6 an ore.   *)
(* The columns 1 and 2 are away from the edge.                             *)
(***************************************************************************)
EXTENDS VeinMiner

Paint(ore, block) ==
  [p \in 0 .. 11 |-> IF p \in ore THEN 6 ELSE IF p \in block THEN 1 ELSE 0]

(* A vein of three with a diagonal step; a vein in the corner that goes on *)
(* in the next row (4 is the index after 3).                               *)
MCLayouts == { Paint({1, 6, 10}, {2, 5}), Paint({0, 3, 4}, {2}) }
=============================================================================
