----------------------------- MODULE ModTables -----------------------------
(***************************************************************************)
(* What each mod registers in Send and looks up in Receive, the parsers it *)
(* fetches for that, and the methods it hooks.  "once": Send and Receive   *)
(* both call init, which tells them apart by a static flag.  Members are   *)
(* known by class, name - methods with the number of arguments - and kind. *)
(***************************************************************************)

Api(class, names, kind) == {<<class, name, kind>> : name \in names}
Field(class, names) == Api(class, names, "Field")
Method(class, names) == Api(class, names, "Method")
By(parser, ids) == {<<parser, id>> : id \in ids}

\* Mutant: a field that is looked up is not registered.
Accessorize_NoLeg ==
  [hooks     |-> {<<"Item", "SetDefaults/3">>},
   registers |-> Field("Item", {"headSlot", "bodySlot", "accessory"}),
   looksUp   |-> By("Field<Int>", Field("Item", {"headSlot", "bodySlot", "legSlot"}))
                   \union By("Field<Bool>", Field("Item", {"accessory"})),
   parsers   |-> {"Field<Int>", "Field<Bool>"},
   once      |-> FALSE]

Accessorize ==
  [hooks     |-> {<<"Item", "SetDefaults/3">>},
   registers |-> Field("Item", {"headSlot", "bodySlot", "legSlot", "accessory"}),
   looksUp   |-> By("Field<Int>", Field("Item", {"headSlot", "bodySlot", "legSlot"}))
                   \union By("Field<Bool>", Field("Item", {"accessory"})),
   parsers   |-> {"Field<Int>", "Field<Bool>"},
   once      |-> FALSE]

Overclock ==
  [hooks     |-> {<<"Item", "SetDefaults/3">>},
   registers |-> Field("Item", {"useTime", "useAnimation", "damage", "createTile", "createWall"}),
   looksUp   |-> By("Field<Int>",
                    Field("Item", {"useTime", "useAnimation", "damage", "createTile", "createWall"})),
   parsers   |-> {"Field<Int>"},
   once      |-> FALSE]

Seeker ==
  [hooks     |-> {<<"Projectile", "SetDefaults/1">>},
   registers |-> Field("Projectile", {"aiStyle", "friendly", "minion", "sentry"}),
   looksUp   |-> By("Field<Int>", Field("Projectile", {"aiStyle"}))
                   \union By("Field<Bool>", Field("Projectile", {"friendly", "minion", "sentry"})),
   parsers   |-> {"Field<Int>", "Field<Bool>"},
   once      |-> FALSE]

InfiniteLegion ==
  [hooks     |-> {<<"Player", "ResetEffects/0">>},
   registers |-> Field("Player", {"maxTurrets", "maxTurretsOld", "maxMinions"}),
   looksUp   |-> By("Field<Int>", Field("Player", {"maxTurrets", "maxMinions", "maxTurretsOld"})),
   parsers   |-> {"Field<Int>"},
   once      |-> FALSE]

InstantRespawn ==
  [hooks     |-> {<<"Player", "UpdateDead/0">>},
   registers |-> Field("Player", {"respawnTimer", "whoAmI"}),
   looksUp   |-> By("Field<Int>", Field("Player", {"respawnTimer", "whoAmI"})),
   parsers   |-> {"Field<Int>"},
   once      |-> FALSE]

----------------------------------------------------------------------------
(* ForgottenItem, by the init of each of its parts.                        *)

ItemIDInit ==
  [registers |-> Field("ItemID.Sets", {"ShimmerTransformToItem", "Deprecated", "ItemsThatShouldNotBeInInventory"}),
   looksUp   |-> By("Field<Other>", Field("ItemID.Sets",
                      {"ShimmerTransformToItem", "Deprecated", "ItemsThatShouldNotBeInInventory"}))]

RecipeInit ==
  [registers |-> Field("Item", {"stack"}) \union Method("Item", {"SetDefaults/1"})
                   \union Field("Recipe", {"createItem", "currentRecipe", "requiredItem", "requiredTile"})
                   \union Method("Recipe", {"AddRecipe/0"}) \union Field("ItemID.Sets", {"IsAMaterial"}),
   looksUp   |-> By("Method<Void>", Method("Recipe", {"AddRecipe/0"}) \union Method("Item", {"SetDefaults/1"}))
                   \union By("Field<Int>", Field("Item", {"stack"}))
                   \union By("Field<Other>", Field("ItemID.Sets", {"IsAMaterial"}) \union
                             Field("Recipe", {"createItem", "currentRecipe", "requiredItem", "requiredTile"}))]

ItemInit ==
  [registers |-> Field("Item", {"useStyle", "useAnimation", "useTime", "width", "height", "shoot", "useAmmo",
                                "damage", "shootSpeed", "noMelee", "value", "ranged", "channel", "rare",
                                "autoReuse", "mana", "magic", "noUseGraphic"})
                   \union Method("Item", {"DefaultToBow/3", "SetWeaponValues/3", "DefaultToFood/6", "buyPrice/4"}),
   looksUp   |-> By("Method<Void>", Method("Item", {"DefaultToBow/3", "SetWeaponValues/3", "DefaultToFood/6"}))
                   \union By("Method<Int>", Method("Item", {"buyPrice/4"}))
                   \union By("Field<Float>", Field("Item", {"shootSpeed"}))
                   \union By("Field<Int>", Field("Item", {"useStyle", "useAnimation", "useTime", "width",
                             "height", "shoot", "useAmmo", "damage", "value", "rare", "mana"}))
                   \union By("Field<Bool>", Field("Item", {"noMelee", "ranged", "channel", "autoReuse",
                             "magic", "noUseGraphic"}))]

PrefixLegacyInit ==
  [registers |-> Field("PrefixLegacy.ItemSets", {"SwordsHammersAxesPicks", "GunsBows", "MagicAndSummon"}),
   looksUp   |-> By("Field<Other>",
                    Field("PrefixLegacy.ItemSets", {"SwordsHammersAxesPicks", "GunsBows", "MagicAndSummon"}))]

ItemDropDatabaseInit ==
  [registers |-> Method("ItemDropRule", {"Common/4"}) \union Method("ItemDropDatabase", {"RegisterToNPC/2"}),
   looksUp   |-> By("Method<Other>",
                    Method("ItemDropRule", {"Common/4"}) \union Method("ItemDropDatabase", {"RegisterToNPC/2"}))]

ForgottenItem ==
  LET parts == {ItemIDInit, RecipeInit, ItemInit, PrefixLegacyInit, ItemDropDatabaseInit}
  IN  [hooks     |-> {<<"ItemID.Sets", ".cctor/0">>, <<"Recipe", "SetupRecipeGroups/0">>, <<"Item", "SetDefaults/3">>,
                       <<"PrefixLegacy.ItemSets", ".cctor/0">>, <<"ItemDropDatabase", "Populate/0">>},
       registers |-> UNION {part.registers : part \in parts},
       looksUp   |-> UNION {part.looksUp : part \in parts},
       parsers   |-> {"Field<Int>", "Field<Bool>", "Field<Other>", "Field<Float>",
                      "Method<Int>", "Method<Void>", "Method<Other>"},
       once      |-> TRUE]

----------------------------------------------------------------------------

(* Load assigns ParseUShortMethod twice and ParseUShortField never.        *)
VeinMiner ==
  [hooks     |-> {<<"Main", "UpdateTime/0">>, <<"HitTile", "AddDamage/3">>},
   registers |-> Field("TileData", {"_width", "_height"}) \union Field("Tile", {"type", "_tileOffset"})
                   \union Method("TileData", {"GetType/1", "get_Item/2"})
                   \union Field("Main", {"tile"}) \union Method("Main", {"get_LocalPlayer/0"})
                   \union Field("TileID.Sets", {"Ore"}) \union Method("WorldGen", {"KillTile/5"})
                   \union Field("Player", {"HeldItem"}) \union Field("Item", {"pick"})
                   \union Field("HitTile", {"HitTileObjectData"}),
   looksUp   |-> By("Field<UShort>", Field("Tile", {"type"}))
                   \union By("Field<Int>", Field("Tile", {"_tileOffset"}) \union Field("Item", {"pick"})
                             \union Field("TileData", {"_width", "_height"}))
                   \union By("Field<Other>", Field("TileID.Sets", {"Ore"}) \union Field("Main", {"tile"}) \union
                             Field("Player", {"HeldItem"}) \union Field("HitTile", {"HitTileObjectData"}))
                   \union By("Method<Void>", Method("WorldGen", {"KillTile/5"}))
                   \union By("Method<UShort>", Method("TileData", {"GetType/1"}))
                   \union By("Method<Other>", Method("TileData", {"get_Item/2"}) \union Method("Main", {"get_LocalPlayer/0"})),
   parsers   |-> {"Field<Int>", "Field<Bool>", "Field<Other>", "Field<Float>",
                  "Method<Int>", "Method<Void>", "Method<UShort>", "Method<Other>"},
   once      |-> TRUE]

Mod ==
  [Accessorize |-> Accessorize, Overclock |-> Overclock, Seeker |-> Seeker, InfiniteLegion |-> InfiniteLegion,
   InstantRespawn |-> InstantRespawn, ForgottenItem |-> ForgottenItem, VeinMiner |-> VeinMiner]
=============================================================================
