------------------------------ MODULE ModHooks ------------------------------
(***************************************************************************)
(* What the mods' functions do to what the hooked method was called for:   *)
(* an item, a projectile, a player, or the tables of the game.  Numbers    *)
(* are those of the source.  Of an item the fields are kept that more than *)
(* one mod reads or sets.                                                  *)
(***************************************************************************)
EXTENDS Integers, FiniteSets, SequencesExt

AccessorizeSetDefaults(item) ==
  IF item.headSlot >= 0 \/ item.bodySlot >= 0 \/ item.legSlot >= 0
  THEN [item EXCEPT !.accessory = TRUE] ELSE item

\* Mutant: weapons are left out.
shouldOverclock_Placed(item) ==
  item.createTile > 0 \/ item.createWall > 0 \/ item.type \in {1291, 29, 109}

shouldOverclock(item) ==
  item.damage > 0 \/ item.createTile > 0 \/ item.createWall > 0 \/ item.type \in {1291, 29, 109}

OverclockSetDefaults(item) ==
  IF shouldOverclock(item) THEN [item EXCEPT !.useTime = 1, !.useAnimation = 5] ELSE item

(* SetWeaponValues sets the damage, DefaultToFood the times of use.        *)
ForgottenItemSetDefaults(item) ==
  CASE item.type = 2881 -> [item EXCEPT !.useAnimation = 20, !.useTime = 80, !.damage = 550]
    [] item.type = 3850 -> [item EXCEPT !.useAnimation = 17, !.useTime = 17, !.damage = 71]
    [] item.type = 3853 -> [item EXCEPT !.useAnimation = 25, !.useTime = 12, !.damage = 72]
    [] item.type = 4058 -> [item EXCEPT !.damage = 30]
    [] item.type = 4722 -> [item EXCEPT !.damage = 130]
    [] item.type = 4010 -> [item EXCEPT !.useAnimation = 17, !.useTime = 17]
    [] OTHER -> item

SeekerSetDefaults(proj) ==
  IF /\ proj.friendly /\ ~proj.minion /\ ~proj.sentry
     /\ proj.aiStyle \notin {7, 26, 165} /\ proj.type \notin {933, 927}
  THEN [proj EXCEPT !.aiStyle = 9] ELSE proj

InfiniteLegionResetEffects(player) ==
  IF player.maxTurrets # 999 \/ player.maxMinions # 999
  THEN [player EXCEPT !.maxTurrets = 999, !.maxTurretsOld = 999, !.maxMinions = 999] ELSE player

InstantRespawnUpdateDead(player) == [player EXCEPT !.respawnTimer = 0]

----------------------------------------------------------------------------
(* ForgottenItem: the tables.                                              *)

\* Mutant: a pair with a wrong number.
ShimmerPairs_Typo ==
  {<<3357, 3331>>, <<3331, 3357>>, <<3868, 3861>>, <<3861, 3868>>, <<3862, 3867>>, <<3867, 3862>>,
   <<2881, 3358>>, <<3358, 2881>>, <<3847, 3865>>, <<3865, 3847>>, <<3854, 3853>>, <<3853, 3854>>,
   <<2901, 2989>>, <<2989, 2901>>, <<2990, 2902>>, <<2902, 2990>>, <<3404, 1649>>, <<1649, 3404>>,
   <<3398, 1648>>, <<1648, 3404>>, <<1569, 1571>>, <<1571, 1569>>}

(* What hook_cctor sets in ShimmerTransformToItem.                         *)
ShimmerPairs ==
  {<<3357, 3331>>, <<3331, 3357>>, <<3868, 3861>>, <<3861, 3868>>, <<3862, 3867>>, <<3867, 3862>>,
   <<2881, 3358>>, <<3358, 2881>>, <<3847, 3865>>, <<3865, 3847>>, <<3854, 3853>>, <<3853, 3854>>,
   <<2901, 2989>>, <<2989, 2901>>, <<2990, 2902>>, <<2902, 2990>>, <<3404, 1649>>, <<1649, 3404>>,
   <<3398, 1648>>, <<1648, 3398>>, <<1569, 1571>>, <<1571, 1569>>}

(* hook_cctor of ItemID; a table of Booleans is the set where it is true.  *)
ItemIDcctor(sets) ==
  [Deprecated |-> {}, ItemsThatShouldNotBeInInventory |-> {},
   ShimmerTransformToItem |->
     [i \in DOMAIN sets.ShimmerTransformToItem |->
        IF \E p \in ShimmerPairs : p[1] = i THEN (CHOOSE p \in ShimmerPairs : p[1] = i)[2]
        ELSE sets.ShimmerTransformToItem[i]]]

(* hook_cctor of PrefixLegacy.                                             *)
PrefixLegacycctor(sets) ==
  [sets EXCEPT !.SwordsHammersAxesPicks = @ \union {4722},
               !.MagicAndSummon = @ \union {2881},
               !.GunsBows = @ \union {3850, 3853, 4058}]

(* hook_Populate: who drops what, one time in how many.                    *)
Drops ==
  {<<395, 2881, 50>>}
  \union {<<npc, 3853, 10>> : npc \in {564, 565}}
  \union {<<npc, 3850, 10>> : npc \in {561, 562, 563}}
  \union {<<npc, 3848, 10>> : npc \in 552 .. 557}
  \union {<<npc, 3849, 10>> : npc \in 555 .. 557}
  \union {<<npc, 3851, 10>> : npc \in {572, 573}}

ItemDropDatabasePopulate(drops) == drops \union Drops

Of(id, stack) == [id |-> id, stack |-> stack]

(* Item.SetDefaults, the game's, makes a stack of one.                     *)
SetDefaults(id) == Of(id, 1)

(* The stack of the result is set before SetDefaults, that of a material   *)
(* after it.                                                               *)
AddRecipeGroup(recipes, config) ==
  recipes \union {[result    |-> SetDefaults(config.result),
                   materials |-> {IF m.stack > 1 THEN m ELSE SetDefaults(m.id) : m \in config.materials},
                   tile      |-> config.tile]}

Config(result, materials, tile, stack) ==
  [result |-> result, materials |-> materials, tile |-> tile, stack |-> stack]

LuminousTools ==
  <<<<3458, <<2785, 2783, 2782>>>>, <<3456, <<2775, 2773, 2772>>>>,
    <<3457, <<2780, 2778, 2777>>>>, <<3459, <<3465, 3463, 3462>>>>>>

allRecipes ==
  <<Config(4058, {Of(1274, 1), Of(154, 50)}, 18, 1),
    Config(3978, {Of(id, 1) : id \in 3385 .. 3388}, 228, 1),
    Config(4010, {Of(4011, 1)}, 0, 4),
    Config(4011, {Of(4010, 4)}, -1, 1),
    Config(4722, {Of(757, 1), Of(3827, 1), Of(3787, 1), Of(1570, 2), Of(2880, 1)}, 134, 1),
    Config(766, {Of(154, 1)}, 18, 1),
    Config(3705, {Of(3886, 1)}, -1, 1),
    Config(3706, {Of(3887, 1)}, -1, 1),
    Config(5013, {}, 79, 1)>>

(* (The materials are then marked in IsAMaterial, and clear is called on   *)
(* it: what that does is up to the loader.)                                *)
SetupRecipeGroups(recipes) ==
  LET tools == [i \in DOMAIN LuminousTools |->
                  Config(LuminousTools[i][1], {Of(LuminousTools[i][2][1], 1), Of(3467, 6)}, 412, 1)]
      gifts == [i \in 1 .. 3 |-> Config(598 + i, {Of(1869, 1)}, -1, 1)]
  IN  FoldLeft(AddRecipeGroup, recipes, tools \o gifts \o allRecipes)
=============================================================================
