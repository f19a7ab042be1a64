------------------------------- MODULE MCMods -------------------------------
(* Up to three of the seven mods at a time, and one unload.                *)
EXTENDS Mods

MCLineups == {mods \in SUBSET DOMAIN Mod : Cardinality(mods) \in 1 .. 3}
OnlyForgottenItem == {{"ForgottenItem"}}

Stuff(type) ==
  [type |-> type, headSlot |-> -1, bodySlot |-> -1, legSlot |-> -1, accessory |-> FALSE,
   damage |-> 0, createTile |-> -1, createWall |-> -1, useTime |-> 100, useAnimation |-> 100]

(* Dirt places tile 0, a helmet may have slot 0; the contested bow comes   *)
(* without and with a damage of its own.                                   *)
Items ==
  {[Stuff(2) EXCEPT !.createTile = 0], [Stuff(3) EXCEPT !.createTile = 1],
   [Stuff(26) EXCEPT !.createWall = 1], [Stuff(89) EXCEPT !.headSlot = 0],
   [Stuff(76) EXCEPT !.legSlot = 1], [Stuff(4) EXCEPT !.damage = 10], Stuff(29), Stuff(2881), Stuff(3850),
   Stuff(3853), [Stuff(3853) EXCEPT !.damage = 42], [Stuff(4058) EXCEPT !.damage = 8],
   [Stuff(4722) EXCEPT !.damage = 190], Stuff(4010)}

Projectiles ==
  {[type |-> type, aiStyle |-> style, friendly |-> friendly, minion |-> FALSE, sentry |-> FALSE] :
     type \in {1, 933}, style \in {1, 7}, friendly \in BOOLEAN}

(* The game's own table turns 5 into 6 and not back.                       *)
ItemSets ==
  [Deprecated |-> {2881, 3853}, ItemsThatShouldNotBeInInventory |-> {3853},
   ShimmerTransformToItem |->
     [i \in {p[1] : p \in ShimmerPairs} \union {5, 6} |-> IF i = 5 THEN 6 ELSE -1]]

MCSubjects ==
  [method \in UNION {Mod[m].hooks : m \in DOMAIN Mod} |->
     CASE method[1] = "Item" -> Items
       [] method[1] = "Projectile" -> Projectiles
       [] method[1] = "Player" ->
            {[maxTurrets |-> n, maxTurretsOld |-> 1, maxMinions |-> 1, respawnTimer |-> 600] : n \in {1, 999}}
       [] method[1] = "ItemID.Sets" -> {ItemSets}
       [] method[1] = "PrefixLegacy.ItemSets" ->
            {[SwordsHammersAxesPicks |-> {4}, GunsBows |-> {}, MagicAndSummon |-> {}]}
       [] OTHER -> {{}}]
=============================================================================
