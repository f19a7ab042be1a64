-------------------------- MODULE MCTexturePacks --------------------------
(* A standard and a TL pack replace the same texture.                      *)
EXTENDS TexturePacks

File(dir, id, json, k) == [dir |-> dir, id |-> id, json |-> json, key |-> k, intact |-> TRUE, good |-> TRUE]

MCEntriesOf ==
  [c \in AllContents \union {"absent"} |->
     CASE c = "standard" -> <<File("other", "pack", TRUE, "x"), File("Content", "x", FALSE, "x")>>
       [] c = "tl"       -> <<File("Modified", "0", FALSE, "y"), File("Modified", "0", TRUE, "x")>>
       [] OTHER          -> <<>>]
=============================================================================
