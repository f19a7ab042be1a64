-------------------------- MODULE MCTextureLoader --------------------------
(* Packs a, b and d replace the same texture; b's second one does not      *)
(* decode, its third cannot be extracted; d's images stand before and      *)
(* after their descriptions, one has none, one description does not parse  *)
(* and one image cannot be extracted.                                      *)
EXTENDS TextureLoader

Content(k, intact, good) == [dir |-> "Content", id |-> k, json |-> FALSE, key |-> k, intact |-> intact, good |-> good]
Image(id, intact) == [dir |-> "Modified", id |-> id, json |-> FALSE, key |-> "y", intact |-> intact, good |-> TRUE]
Desc(id, k, good) == [dir |-> "Modified", id |-> id, json |-> TRUE, key |-> k, intact |-> TRUE, good |-> good]
Other == [dir |-> "other", id |-> "0", json |-> TRUE, key |-> "x", intact |-> TRUE, good |-> TRUE]

MCEntries ==
  [f \in {"a", "b", "d"} |->
     CASE f = "a" -> <<Content("x", TRUE, TRUE), Other>>
       [] f = "b" -> <<Content("x", TRUE, TRUE), Content("y", TRUE, FALSE), Content("z", FALSE, TRUE)>>
       [] f = "d" -> <<Image("0", TRUE), Desc("0", "x", TRUE), Desc("1", "y", TRUE), Image("1", TRUE),
                       Image("2", TRUE), Desc("3", "z", FALSE), Image("3", TRUE),
                       Image("4", FALSE), Desc("4", "z", TRUE), Other>>]

ItemsOf(order, on) ==
  [i \in 1 .. 3 |-> [file |-> order[i], type |-> IF order[i] = "d" THEN 1 ELSE 0, enable |-> order[i] \in on]]

MCConfigs ==
  {[file |-> f, items |-> <<>>] : f \in {"absent", "empty", "torn", "whole"}}
  \union
  {[file |-> "whole", items |-> ItemsOf(order, on)] :
     order \in {<<"a", "b", "d">>, <<"d", "b", "a">>, <<"b", "a", "d">>}, on \in SUBSET {"a", "b", "d"}}
=============================================================================
