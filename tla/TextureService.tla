--------------------------- MODULE TextureService ---------------------------
(***************************************************************************)
(* What TexturePack promises the game, without threads, archives or hooks: *)
(* the enabled packs stand on a shelf; once, for every texture, the first  *)
(* pack is taken of those whose texture can be used; from then on a path   *)
(* always gets the answer it got first.                                    *)
(***************************************************************************)
EXTENDS Integers, FiniteSets, SequencesExt

CONSTANTS Keys, Game, NoTexture

VARIABLES
  shelf,     \* the enabled packs in order, each with the keys it has textures for
  open, table, answers

vars == <<shelf, open, table, answers>>

Answerable(k) == IF k \in DOMAIN table THEN {table[k], NoTexture} ELSE {Game}

Init == open = FALSE /\ table = <<>> /\ answers = <<>>

Open ==
  /\ ~open
  /\ open' = TRUE
  /\ \E usable \in SUBSET {u \in (DOMAIN shelf) \X Keys : u[2] \in shelf[u[1]].keys} :
       table' = [k \in {u[2] : u \in usable} |-> shelf[Min({u[1] : u \in {v \in usable : v[2] = k}})].pack]
  /\ UNCHANGED <<shelf, answers>>

Answer(k) ==
  /\ open
  /\ k \notin DOMAIN answers
  /\ \E a \in Answerable(k) :
       answers' = [q \in DOMAIN answers \union {k} |-> IF q = k THEN a ELSE answers[q]]
  /\ UNCHANGED <<shelf, open, table>>

Next == Open \/ \E k \in Keys : Answer(k)

Spec == Init /\ [][Next]_vars
=============================================================================
