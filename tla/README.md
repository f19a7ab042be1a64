# Terraria-EFMod in TLA+

TLA+ specifications of the mods and loader extensions of Terraria-EFMod, the
TLC configurations that check them on small instances, and TLAPS proofs of
their main invariants. Source paths below are relative to the repository.

Contents: [inventory](#inventory) - [modules](#modules) - [runs](#runs) -
[proofs](#proofs) - [what the checks found](#what-the-checks-found) -
[not modelled](#not-modelled) - [plan](#plan).

## Inventory

The repository holds two kinds of plug-ins for Terraria on Android. An *efmod*
is a native library with an `EFMod` object; a loader, which is not in the
repository, calls `Load`, `Send`, `Receive` and `UnLoad` and offers registries
for hooks and handles. A *modx* is a native library the game process loads by
itself (`JNI_OnLoad`), with a Kotlin page in the loader app that edits the
`config.json` the library reads. Libraries under `modx/Dobby`,
`modx/BNM-Android*`, `luajit`, miniz, lodepng and nlohmann json are third-party.

| Component | State | Operations | Interacts with | Correct means |
|---|---|---|---|---|
| VeinMiner (`efmod/VeinMiner`) | `TileData`: cached size and offsets of the world, `REMOVE_LIST`, `REMOVE_UPDATE_COUNTER`, `IsInitialized` | `T_AddDamage` starts `Mine` (a search over tiles with a stack), `T_UpdateTime` runs `Update` (kills queued tiles in batches) | the game's tiles through handles; both hooks run on the update thread | the search ends, queues exactly the vein and nothing twice; only queued tiles are killed, at the configured pace, all of them in the end |
| TerraFormats page (`modx/TerraFormats/page`, `EFModPage.kt`) | zips and `config.json` on disk; `packInfos`, `errorMessage`, and per card a remembered switch and priority | load, save, install, delete, toggle, change of priority, composition | the disk, read by the game | memory, cards, config and zips agree; at most 7 enabled; nothing lost by a failure that could be kept |
| TerraFormats native (`LanguageManager.cpp`, `LanguagePacks.cpp`, `Modx.cpp`) | `packs` (a pack per language code), the static list of languages, the static cache by culture | `init` in `JNI_OnLoad`, the `LoadLanguage` hook | the disk; the game's `LanguageManager` | each enabled pack has a language, by priority; the menu names what a choice loads; text that is missing is completed |
| TexturePack native (`TexturePack.cpp`, `LoadTexture2D.cpp`, `Texture2DConverter.cpp`, `PNGDecoder.cpp`) | futures of packs and textures, `decodeResults`, two redirect maps | `loadTexturePack` (threads per pack, threads per texture; two archive formats), hooks on `.cctor` and `LoadTexture2D` | the disk; the game's `ContentManager` | order of `config.json` decides, whatever order threads end in; the wait ends; an answer, once given, stays |
| TexturePack page (`EFModPage.kt` of TexturePack) | zips and `config.json` on disk; `packInfos`, `errorMessage`, and per card a remembered switch; no priority and no cap | load, save, install (two formats), delete, toggle, composition | the disk, read by the game | what is shown is what is saved; the topmost enabled pack is the one the game uses; a deleted pack is gone |
| ForgottenItem (`efmod/ForgottenItem`) | handles, recipe tables, one static `inited` flag per part | hooks on `ItemID.Sets..cctor`, `Item.SetDefaults`, `Recipe.SetupRecipeGroups`, `PrefixLegacy.ItemSets..cctor`, `ItemDropDatabase.Populate` | the registry, the game, other mods on `Item.SetDefaults` | items and recipes get the values the README lists; no null handle is called |
| Accessorize, Overclock, Seeker, InfiniteLegion, InstantRespawn | handles and one `HookTemplate` each | one hook each | Accessorize, Overclock and ForgottenItem hook the same `Item.SetDefaults` | every mod acts, in whatever order the mods were loaded |
| efmod-api, tefmod-api | interfaces: life cycle, `MultiChannel`, `HookTemplate`, descriptors | - | every efmod | the order of `Load`, `Send`, `Receive` |
| EFModAPI registry (`modx/TerraFormats/includes/EFMod.hpp`) | vectors of API descriptors, function descriptors and looked-up APIs, a mutex for each | register, get, merge | every efmod, the loader | descriptors with one ID are merged, and none of their functions is lost |

Behaviours that are hard to test, each with its line and the properties for it,
are the `hazards` of `PROJECT.json`. In short: searches and batches of VeinMiner
interleave over one list of flat indices; the pages write `config.json` by
emptying it first and the zips apart from it, so that a crash or a failure
leaves the two in disagreement; the page remembers state in cards, in memory
and on disk; the game reads that disk with other rules than the page; TexturePack
loads on as many threads as there are packs and textures; efmods share methods of
the game and a registry, are hooked before they have their handles, and may be
loaded a second time in a process that remembers the first.

## Modules

| Module | Models | Checked by | Proofs |
|---|---|---|---|
| `VeinMiner` | `vein_miner.cpp`, `TileData::Initialize`, the two hooks of `efmod.cpp` | `MCVeinMiner`: `VeinMiner.cfg`, `VeinMinerAsBuilt.cfg`, `VeinMinerPick.cfg` | `VeinMinerProofs` |
| `LanguagePage` | `EFModPage.kt` of TerraFormats | `MCLanguagePage`: `LanguagePage.cfg` | `LanguagePageProofs` |
| `LanguageManager` | `LanguageManager.cpp`, `LanguagePacks.cpp`, `Modx.cpp` | `MCLanguageManager`: `LanguageManager.cfg`, `LanguageFallback.cfg`, `LanguageOverride.cfg` | `LanguageManagerProofs` |
| `TerraFormats` | the two above over one disk | `MCTerraFormats`: `TerraFormats.cfg` | `TerraFormatsProofs` |
| `TextureLoader` | the native side of TexturePack | `MCTextureLoader`: `TextureLoader.cfg` | `TextureLoaderProofs` |
| `TextureService` | abstract: what TexturePack promises the game | refined by `TextureLoader` | `TextureLoaderProofs` |
| `TexturePage` | `EFModPage.kt` of TexturePack | `MCTexturePacks`: `TexturePacks.cfg` | `TexturePacksProofs` |
| `TexturePacks` | `TexturePage` and `TextureLoader` over one disk | `MCTexturePacks`: `TexturePacks.cfg` | `TexturePacksProofs` |
| `Subsequences` | the elements of a list at some of its positions: what a filter leaves | through the modules above | `SubsequenceProofs` |
| `ModRegistry` | the registry of `EFMod.hpp` | through `Mods` | through `ModsProofs` |
| `ModTables` | what the seven efmods register, look up and hook (`Send`, `Receive`, `Load`) | through `Mods` | `ModsProofs` |
| `ModHooks` | what the hook functions of six efmods do to an item, a player, a table | through `Mods` | through `ModsProofs` |
| `Mods` | life cycle of the efmods, the loader's sequence, calls of hooked methods | `MCMods`: `Mods.cfg`, `ForgottenRecipes.cfg` | `ModsProofs` |

The names of variables and actions are those of the source. A definition
whose name has the form `X_Word`, with a comment that begins "Mutant", is a
faulty version of `X`. It is used by no specification; `PROJECT.json` names,
for every property, a mutant that violates it.

### VeinMiner

State: `tile` (Main.tile, flat, as `_tileOffset` numbers it), `heldPick`, the
statics of `TileData`, and the locals of `Mine`. `Mine` is cut at its loops:
`T_AddDamage` enters it, `MinePop` is the test and first lines of `while`,
`MineScan` is one turn of the `for`, `MineScanned` and `MineReturn` leave the
loops. Because hook calls run to completion on one thread, `Update` and the
game are enabled only while `pc = "idle"`. The game itself may edit a tile, load
another world and switch the held item between hook calls, and `KillTile` may
refuse a tile.

Assumptions of the model:

- It starts once `Receive` has resolved every handle. The real `Receive` does
  not get that far: `efmod.cpp:126` assigns the UShort *field* parser to the
  *method* parser's variable, so `tile_data.cpp:58` calls a null pointer. `Mods`
  models that part.
- `Main.tile` has the same width and height in every world of a session.
  `LoadWorld` replaces the tiles; `IsInitialized` and the cached size stay, as
  in the code.
- `tile_data.cpp` and `vein_miner.cpp` pass the handle `TileData::tile` where an
  instance is asked for. What the loader makes of that is not in the
  repository; the model takes it for `Main.tile`.
- `OneCopy = TRUE` reads the statics of `tile_data.hpp` as one object, as in a
  unity build: the algorithm the source describes. `OneCopy = FALSE` is the build
  of `CMakeLists.txt`, with one copy per source file.

`base` and `ticks` are history variables, used by properties only.

### LanguagePage

State: on disk `zips` (what each file holds), `configFile` and `config`; in the
page `packInfos`, `errorMessage` and `cards`. A handler is a chain of steps
(`pc`): copying, opening `config.json` (which empties it), writing it, and what
the caller does after `saveConfig`. A fault or a crash may come between any two.
`Compose` is the frame drawn after each handler. It contains the initial load and
keeps or drops what cards remember. `Restart` ends the process anywhere and
begins again with nothing in memory.

A zip is one of six kinds, told apart by who can read it: `empty`, `junk` and
`bare` by neither side, `cut` and `rejected` by the page alone, `loadable` by both.
`cut`: the page goes from entry to entry (`ZipInputStream`) and reads a file that is
cut off behind its `config.json`, the game looks for the central directory at the
end. `rejected`: the page asks for name, author and version, the game for
autocomplete, type and standard as well. Names matter only in the sort, and are
ranks.

A copy that fails, or that the process does not survive, leaves some part of the
zip (`Parts`): nothing, something unreadable, a `cut` one, or all of it, if it was
`close` that threw. `installPack` then removes files of length 0 only.

The check of the cap in `togglePack` is unreachable through the cards: a switch
is disabled at the cap. Both are in the model and both use `EnabledCount`.

### LanguageManager

`JNI_OnLoad` is `LanguageManager::init`: it sorts (`std::sort` is not stable, so any
order by priority may result), cuts at the number of languages, and constructs a
pack per language. A constructor that throws leaves the language without a
pack; a zip that cannot be opened, one that is `cut` included, makes a pack without
name and files.
`LoadLanguage` is the hook, including its undefined case (`end()` dereferenced,
`game = "undefined"`) and the exception of a `Base.json` that does not parse
(`game = "terminated"`). `text` says where each file's text came from, `menu` which
packs the language menu names. `GameCulture.FromName` is external: `CultureOf`.

A `config.json` lists no pack twice (`ConfigOK`). Only the page writes the file,
and `LanguagePageProofs!TypeCorrect` proves that it keeps to this.

### TerraFormats

`LanguagePage` and an instance of `LanguageManager` share `zips`, `configFile` and
`config`. The player uses the page or the game, not both at once; the game
may start after a crash of the page, before it is opened again.

### TextureLoader

`ReadConfig` starts a job per item; `asyncLoadTexturePack(i)` and `Decode(j)` are the
threads; `TakePack` and `TakeResult` are the loops that wait for the futures in order.
`HookAssets`, `cctor` and `LoadTexture2D` follow on the game's thread; Unity may fail
to make a texture and the conversion may return null. A texture is known by the
pack it came from. `made` (of which results Unity textures were made) and
`unconverted` (which conversions failed) are history variables. `std::async` throws
if there is no thread to be had, for a pack or for a texture, and nothing catches
it: `phase = "starved"`.

A zip is a sequence of entries (`dir`, base name `id`, whether it is JSON, `key`,
`intact` if it can be extracted, `good` if it then decodes or parses).
`LoadZipFormat` takes each file under `Content/` that it can extract; `LoadTLFormat`
pairs each image under `Modified/` with the description of the same base name, in
two passes, whatever their folders and their order, of two descriptions with one
name keeps the last, and skips the pair if either cannot be extracted or the
description does not parse. `textures`, the outcome for every pack, depends on the
constants alone.

`TextureService` is the abstract specification: a shelf of enabled packs, one step
`Open` that chooses for each path the first pack of those whose texture can be
used, and `Answer`, which happens once per path. The refinement mapping is `shelf`
<- the enabled items with the keys that decode, `open` <- `phase = "running"`, `table`
<- `redirectMap_unity`. All the work of threads maps to stutters, `cctor` to `Open`, the
first `LoadTexture2D` of a path to `Answer`, later ones to stutters: that is what
the cache is for.

As in `LanguageManager`, a `config.json` lists no pack twice (`ConfigOK`):
`TexturePacksProofs!TypeCorrect` proves it of the page.

### TexturePage and TexturePacks

State and steps as in `LanguagePage`, with the differences of the code: `deletePack`
and `togglePack` keep their list in memory and read nothing back, `saveConfig`'s
failure shows as an error, and an error hides all cards, which forget their
switches. The sort is stable and by `enabled` alone. A picked file is `empty`, `junk`
(no format), `bare` (a format, no readable description), `standard` or `tl`, or one of
these two cut off behind its description (`standardCut`, `tlCut`), which the page
reads and the game does not. Failed and interrupted copies leave `Parts`, as in
`LanguagePage`. Faults are kinds (`copy`, `delete`, `open`, `write`, `crash`, `tear`); each may happen any number
of times, `MaxFaults` bounds how many kinds do.

`TexturePacks` runs the page and the loader over the same disk, in turns; the game
may be started after a crash of the page and before it is opened again, and
may be left and started again. A zip that is not there cannot be opened, and so
has no entries (`PacksAssumption`).

### ModRegistry, ModTables, ModHooks and Mods

`ModRegistry` is `EFModAPI`: the IDs to look up, the function descriptors by
method (the template of the first mod, the functions of all), and what was
looked up. Vectors without duplicates are sets. An ID is the class, the name (of
a method with its number of arguments) and the kind of a member.

`ModTables` has one record per efmod: what `Send` registers, what `Receive` looks up
and by which parser, which parsers `Load` fetches, which methods it hooks, and
whether both go through an `init` with a static flag (`once`).

`ModHooks` has what each function does, by the numbers of the source. Of an item
only the fields are kept that two mods share or a property needs.

`Mods`: `Load`, `Send`, `Receive` and `UnLoad` per mod, `Resolve` for the loader, and `Call`
for the game. `Call` is a template's trampoline: it needs the old function, which
the first mod's `Receive` fetched, runs the functions in order, and the first null
handle ends the process (`crash`). `inited` and `handles` survive `UnLoad`, which does
nothing in any mod.

What the model assumes of the loader, which is not in the repository:

- It implements `TEFModAPI`, an interface, with the semantics of `EFModAPI` in
  `EFMod.hpp`; registry and libraries stay in the process when a mod is unloaded.
- It calls `Load`, `Send` and `Receive` of each mod in this order, mods in any order;
  looks up and hooks all that is registered once every enabled mod has sent.
- A hooked method may be called from then on, before `Receive` too.
- The game's own `Item.SetDefaults` makes a stack of one.
- What it makes before the mods' functions is as `ByGame` says: items 4058 and 4722 have
  damage, 4010 is nothing Overclock looks for (no damage, places nothing), and the
  shimmer table has an entry for every item. The run leaves its own recipes out.

## Runs

| Run | Question | Result |
|---|---|---|
| `vein` | does the search find the vein, and does the queue behave, whatever happens in between? | holds |
| `vein_as_built` | does it in the build of `CMakeLists.txt`? | violated |
| `vein_pick` | does a pickaxe start a search? | violated |
| `language_page` | do cap, memory, cards, config and zips agree under faults? | holds |
| `language_manager` | does each pack have its language, the menu its pack, the text its completion? | holds |
| `language_fallback` | is there always a pack to fall back to? | violated |
| `language_override` | does a higher priority override? | violated |
| `terraformats` | does the game serve what the page shows? | holds |
| `texture_loader` | does the order of packs survive the threads, and is the whole a `TextureService`? | holds |
| `texture_packs` | do page, disk and game agree under faults? | holds |
| `mods` | which null pointers are called, and does each mod act whatever the order? | holds |
| `forgotten_recipes` | are the luminous tools made as the README says? | violated |

What the properties say:

- `vein`: `NoDuplicates` (no tile waits twice, which is also why the search ends),
  `SearchClosed` (a finished search missed no neighbour and queued no other type),
  `MineFindsVein` (a search from an empty queue queues exactly the connected tiles,
  by coordinates, for a type away from the first and last column),
  `KillsQueued`, `FramePacing`, and `QueueDrains` (liveness).
- `language_page`: `EnabledCap` under every fault; `ShownIsSaved` and `CardsTrue` as long
  as no save failed; `InstalledListed` over crashes that do not tear the file;
  `NoOrphans` (`config.json` lists exactly the packs whose installation came to its
  end, and each can be read) without faults other than failed copies. A failed copy may
  leave a zip that the page could read and that nothing ever lists: that no such zip
  is on the disk holds only as long as no copy failed. The conditions are sharp: a save that cannot open `config.json` is reported for no longer than the reload
  that follows, so the cards go on showing what was not stored; a save that
  fails in the middle, or a crash there, loses every entry; a crash in
  `deletePack` leaves an entry without a zip, one in `installPack` a zip
  without an entry, and nothing ever looks for either.
- `language_manager`: `PacksServed`, `MenuTrue` (choosing the language with a pack's
  name loads that pack), `CompletedText` (no text of an earlier choice remains).
- `terraformats`: `EnabledServed` (the page's cap suffices: each enabled, loadable pack
  has a language), `PageOrderKept`, `NoGhostPack` (only a crash or an unopenable
  `config.json` can give a language to a pack the page cannot read).
- `texture_loader`: `FirstPackFirst` (results are in the order of `config.json`),
  `AnswersFromFirst` (each path is answered from the first enabled pack of whose
  texture a Unity texture could be made, and with null if that one, and no other,
  could not be converted), `PairsLoaded` (of a TL pack without double names, exactly
  the images with a description are loaded that can be read), `LoadingEnds` (liveness),
  `ImplementsService` (the refinement).
- `texture_packs`: `ShownIsSaved` and `CardsTrue` under every fault (a failed save
  shows an error, which hides the cards until something is loaded again: unlike
  the page of TerraFormats), `PageDecides` (the topmost enabled pack with a texture
  is the one the game uses), `GameStarts` (only a torn `config.json` keeps the game
  from starting), `DeletedGone` (a deleted pack gives no textures; with one kind
  of fault this always holds, with two a failed deletion and a failed save keep
  both the zip and its entry, so the property asks for at most one).
- `mods`: `NullCallsOnlyEarly` (a null pointer is called in VeinMiner's `Receive`, or by a
  call that comes before a mod's first `Receive`, and nowhere else, reloads
  included), `EveryHookActs` (each enabled mod on a method acts, and the result is
  that of any other order, but for the speed of three items), `LastWins` (for those
  the order of registration decides), `ShimmerSymmetric`.

### Bounds

| Run | Bound | Why it is enough |
|---|---|---|
| `vein*` | 4 x 3 world, two layouts, one change of the world at one of two tiles, intervals of 2 and batches of 2 | the layouts hold a vein with a diagonal step, a corner tile (index 0), and a vein that wraps at a row's end; a vein of three takes two batches; one change can fall before, during and after the removal |
| `language_page` | three packs, cap 2, priorities 0 and 1, any number of faults of at most two kinds | the cap can be reached and exceeded by one; the sort has ties in priority and in name; each fault can repeat and combine with one other kind |
| `language_manager` | four packs, three languages for them, a fourth without | more packs than languages, one unreadable pack at any place, each kind of zip |
| `terraformats` | as `language_page` with one kind of fault and zips `cut` or `loadable`, two languages | the cap equals the number of languages, as 7 does in the code; a failed copy makes the other kinds but `rejected`, which `language_manager` has |
| `texture_loader` | three packs of both formats in three orders, each enabled or not, three keys | three packs compete for one key; the second has a provider that does not decode, the third one that does not extract and descriptions that do not parse or whose image does not extract; images stand before and after their descriptions |
| `texture_packs` | two copies, two keys, two kinds of faults (663,241 states) | two packs have an order and compete; a second fault can hit the recovery of the first. |
| `mods` | every set of one to three of the seven mods, one unload (42,280 states) | `Item.SetDefaults` has three mods, so each order of all of them occurs; one unload puts each mod in front of, between or behind the others, and doubles its functions |

`CHECK_DEADLOCK FALSE` stands in the vein configurations, whose violation
runs stop at a state of no interest; in `TextureLoader.cfg`, because the game
ends where `config.json` does not parse; and in `Mods.cfg` and `ForgottenRecipes.cfg`,
because a process ends on a null pointer.

### Fairness

`VeinMiner`: weak fairness of the steps of a search (a function call goes on) and
strong fairness of `Update`: the game calls `UpdateTime` every tick, however many
tiles are hit between two ticks, and a search disables it only for the length
of a call. `TextureLoader`: weak fairness of the disjunction of all work of
`JNI_OnLoad` and its threads: as long as a thread can go on, some thread does.
The pages, `LanguageManager` and `Mods` have no liveness property and no fairness:
what happens there is up to the player, the game and the loader.

## Proofs

Every theorem is of the whole specification, for all values of the constants that
satisfy the named assumption. The form is the same throughout: an invariant `IInv`,
a conjunction of named parts, which holds initially and which every step keeps (a
lemma per action), then the properties as consequences.

### VeinMinerProofs

`VeinMinerProofs` proves, for every world size, layout, neighbourhood, white list and
interval that satisfy `VeinAssumption`, and for either reading of the statics:

| Theorem | Property |
|---|---|
| `TypeCorrect` | `TypeOK` |
| `QueueHasNoDuplicates` | `NoDuplicates` |
| `SearchIsClosed` | `SearchClosed` |
| `BatchesArePaced` | `FramePacing` |
| `OnlyQueuedTilesAreKilled` | `KillsQueued` |
| `SearchFindsVein` | `MineFindsVein`, if `OneCopy` (in the other reading it is false: run `vein_as_built`) |

`TypeOK` is inductive by itself. So is `NoDuplicates` given `TypeOK`: `Mine` appends
only what `std::find` did not find, `Update` drops a prefix. `SearchClosed` speaks
of the end of a search only; `SearchInv` strengthens it to every step: a
tile the search has reached is on the stack, or is being scanned with its first
`k - 1` neighbours looked at, or is done, and then each of its neighbours of the
hit type is in the list. An empty stack leaves only the last case.
`FramePacing` needs that the counter and `ticks` agree (`PacingInv`): the counter is
reset exactly when a batch is due, so it cannot reach `RemoveInterval` sooner
than `ticks`. `KillsQueued` rests on `DivMod`: an index split by the width into x
and y and put together again is the same index.

`MineFindsVein` says that what a search from an empty list has queued is the vein: the
least set with the hit tile that is closed under neighbours of its type. One inclusion
follows from `SearchClosed`: the queued tiles and the hit tile are such a set. For the
other, `VeinInv` follows the search: the stack holds found tiles and the start, the start
is found only from another tile, and whatever was found is in every closed set, because
it is at one of the offsets from a tile that is. Away from the edge of the world the tiles
at the offsets are the neighbours and no others (`NeighboursAreOffsets`), which takes
the arithmetic of `TileCoordinates`.

### ModsProofs

For every set of lineups, whatever the game makes before the mods' functions (within
`ByGame`), and any number of reloads (`ModsAssumption`):

| Theorem | Property |
|---|---|
| `TypeCorrect` | `TypeOK` |
| `NullCallsAreEarly` | `NullCallsOnlyEarly` |
| `EveryModActs` | `EveryHookActs` |
| `LastFunctionWins` | `LastWins` |
| `ShimmerTurnsBack` | `ShimmerSymmetric` |

The inductive invariant `IInv` has four parts besides. `Types`: every descriptor,
registered or installed, is *led* by its template's mod, and its functions are
of mods of the lineup (`MergedLed`, `Registering`). `Provided`: a mod whose flag is set
has everything it wants in the registry, and from the next `Resolve` on
everything has been looked up; it needs that each mod registers what it looks
up (`Tables`, proved table by table). `AllOrNone`: a mod fetches all its handles or
none, which turns "some handle is null" into "has not received yet".
`VeinMinerOnce`: VeinMiner, whose parsers do not suffice, never gets to a second `Send`.
One lemma per action and one for stuttering.

The other four are about what a call does. `CallsInv`: the functions of a method are
exactly those of the mods that hook it and have sent; a mod with a flag is there once, one
without it perhaps more often; and the last call ran what is installed. `FoldLeft`, which
runs the functions, is defined by a recursive function on sets of positions; `FoldExists`
shows, by the least counterexample, that there is one, and `EffectsAreSteps` makes of it
a sequence of values, each made from the one before. Every method but Item's
`SetDefaults` has one mod (`OneHooks`), which acts once or does again what it did
(`Idempotent`). For `SetDefaults` the lemma `MadeByOneMore` says of each field what a set
of mods makes of it, whatever the order, so that two lists of the same mods agree
(`MadeByOne`). The speed of a contested item is outside of that, and `LastSets` follows it
along the list: from ForgottenItem's function on the item is a weapon, so that
Overclock's sets the speed whenever it comes.

### SubsequenceProofs

What the lists of the other proofs need: `Places` (the positions kept are numbered
in order, without a gap), `SubsequenceElements` (which elements a filter keeps, how
many, and that it keeps their order), `FirstOfSubsequence` (the first element with a
property is the same before and after a filter that keeps all of those), `JoinsExist`
and `Flattened` (the lists of a list put behind each other: how long the whole is,
what it holds, and that the order is kept). Where a fact needs induction, it is
proved from `NatLeast`: a set of natural numbers that is not empty has a least
element, so a property that fails fails for a least number. The library's
induction theorems take an operator as a parameter, which the provers cannot
instantiate; `NatLeast` needs none.

### TextureLoaderProofs

For any packs, archives, keys and `config.json`s that satisfy `LoaderAssumption`:

| Theorem | Property |
|---|---|
| `TypeCorrect` | `TypeOK` |
| `OrderDecides` | `FirstPackFirst` |
| `AnswersRight` | `AnswersFromFirst` |
| `PairsComplete` | `PairsLoaded` |
| `Implements` | `ImplementsService` |

The inductive invariant follows the pipeline. `PacksInOrder`: `TexturePacks` is what the
filter leaves of the items taken so far. `JobsInOrder`: once the last pack is taken,
`decodeJobs` has each texture of each enabled item, and the items of the jobs never
descend. `ResultsOfJobs`: `decodeResults` is a prefix of the jobs, each with its own
outcome. `FirstKept`: `redirectMap_unity` has, for each path, the first result that decoded
and could be made. `AnswersCached`: what is cached is what was answered - the texture, or
null exactly if its conversion failed - and `Game` was answered only for a path without a
texture. None of them mentions the order in which threads end, which is the point: a
thread changes the state of its own job and nothing else.

`Implements` is the whole refinement, since `TextureService` has no liveness: the
initial states map to its initial states, `cctor` to `Open`, the first `LoadTexture2D` of a path
to `Answer`, and every other step to a stutter.

### TexturePacksProofs

First the page alone, for any number of copies, any contents and any faults:

| Theorem | Property |
|---|---|
| `TypeCorrect` | `TypeOK` |
| `MemoryIsDisk` | `ShownIsSaved` |
| `CardsRight` | `CardsTrue` |

`ListsOK`: the list in memory, the list to be saved and the list on disk each name a
pack once, with the format of its zip. `Fresh`: a zip being copied is on none of them.
`SavedOrTold`: between the steps of a handler, what is in memory was saved or there is
an error. `CardsAgree` says, for each step of each handler, with which of the three
lists the cards agree: the one the next frame will be drawn from.

Then page and game together, with the theorems of the loader used as they are:

| Theorem | Property |
|---|---|
| `PageAsBefore` | together with the game the page does what it does alone |
| `AlwaysStarts` | `GameStarts` |
| `NoGhosts` | `DeletedGone` |
| `Decides` | `PageDecides` |

`TexturePacks` and the proofs each have an instance of `TextureLoader`; lemmas show that
they are the same game, state by state. `Playing`: while the game runs, the disk
stands still and the loader's invariant holds; while it is off, the page may do
anything that leaves a `config.json` the loader accepts. `Torn` and `Gone` record what
is left on disk of a file that was being written and of a pack that was deleted,
by the kinds of faults that happened. `Decides` combines them with
`FirstOfSubsequence`: page and game filter one list by different rules, and the first
usable pack is the same.

### LanguagePageProofs

For any number of copies, any names, any cap and any number of priorities
(`PageAssumption`), and every combination of faults:

| Theorem | Property |
|---|---|
| `TypeCorrect` | `TypeOK` |
| `CapHolds` | `EnabledCap` |
| `MemoryIsDisk` | `ShownIsSaved` |
| `CardsRight` | `CardsTrue` |
| `InstalledStay` | `InstalledListed` |
| `NothingAstray` | `NoOrphans` |

`CapHolds` is a counting argument: each list names a pack once, so that the enabled
entries are as many as the enabled names, and names can only be lost on the way
from memory to disk and back. The sort needs `Ranks`: under a strict total order
the rank of an entry, the number of entries before it, is different for each, and so
a permutation. The other properties hold under conditions on what failed.
`SavesEnd`, `SavesWhole`, `SavesDone` and `CopiesOnly` name these, and the parts `Written`,
`Shown`, `CardsAgree`, `Installs` and `NoOthers` say what holds under each at every step of
a handler: which list, of memory, to be saved and on disk, has the pack just then.

### LanguageManagerProofs

For any packs, languages and disks (`ManagerAssumption`), whatever order of equals
`std::sort` leaves:

| Theorem | Property |
|---|---|
| `TypeCorrect` | `TypeOK` |
| `EachPackServed` | `PacksServed` |
| `MenuNamesPacks` | `MenuTrue` |
| `TextCompleted` | `CompletedText` |

`Started`: from `JNI_OnLoad` on, `packs` comes from some order of the enabled entries by
priority, and the static list of languages is empty or `packs`. `OnScreen`: the text is that
of a pack chosen for the culture, or the game's, in which case there is no pack.
That no pack is lost by sorting is the pigeonhole principle: an order is an injective
map of the positions of a finite list into themselves, and so onto.

### TerraFormatsProofs

| Theorem | Property |
|---|---|
| `PageAsBefore` | together with the game the page does what it does alone |
| `EnabledHaveLanguages` | `EnabledServed` |
| `HigherHasEarlier` | `PageOrderKept` |
| `NoGhosts` | `NoGhostPack` |

The assumption is that the page's cap is the number of the game's languages
(`CompositionAssumption`; both are 7 in the code). Here too the two instances of the game are
shown equal. `PageKeeps` is what the game needs of the page beyond the page's own
invariant: a file that is absent or torn has no entries; without a crash or a file that cannot
be opened, only the entry of the pack being deleted lacks its zip; and what is shown
descends by priority among the enabled packs. `BothInv` adds the game's invariant and that
the page is at rest while the game runs.

### Only model-checked

- `QueueDrains` and `LoadingEnds`: liveness under fairness.

Every invariant and every action property that a passing run checks is proved.

## What the checks found

Each is an entry of `findings` in `PROJECT.json`, with the run that shows it.

1. The statics of `tile_data.hpp` have a copy in each source file. Built as
   `CMakeLists.txt` says, VeinMiner initialises one copy and searches with
   another: it never queues a tile.
2. `T_AddDamage` starts a search for items *without* pick power; its comment says
   that it checks for a pickaxe.
3. `LoadLanguage` dereferences `end()` if the first language's pack failed to load.
4. Priority selects the language a pack replaces. It does not make one pack
   override another, as the README of TerraFormats says.
5. ForgottenItem's recipes of the luminous tools have result and materials the
   wrong way round: a hammer and six bars make a fragment. Its README lists
   fragments and bars that make hammers, axes and chainsaws.

Not findings, since no document says otherwise, but seen on the way:

- VeinMiner's `Receive` calls a null parser, in every lineup: the mod as it is ends
  the process (`NullCallsOnlyEarly` names this case). Findings 1 and 2 are about the
  code behind it.
- Items 2881, 3850 and 3853 have Overclock's speed or ForgottenItem's, whichever was
  registered last. The README of ForgottenItem gives 3853 a damage of 42, the code 72.
- The recipe of 4010 asks for a result of four, set before `SetDefaults`, which makes
  it one. Nothing says which of the two is meant, so no property is about it.
- A zip that is cut off behind its description, or that a failed copy left so, can be
  read by the pages and not by the game: TerraFormats lists it, gives it a language and
  shows it nameless and empty in the game; TexturePack lists a pack without textures.
- A texture that cannot be converted is answered and cached as null, although a later
  pack, or the game, has one for the path.
- `IsAMaterial` is cleared after the materials were marked in it.
- `UnLoad` does nothing, although its interface promises that a mod can be loaded
  again. That works only because the registry keeps the first registration; mods
  without a flag then have their function twice in the array.
- The page of TexturePack hides failed deletions; with a failed save on top the
  game goes on using a deleted pack.
- `createTile > 0` in Overclock leaves out tile 0, which dirt places.

## Not modelled

- Third-party code, build files, IDE files, assets: not this program's logic.
  It makes up nearly all of the repository's lines: two copies each of nlohmann
  json and miniz, lodepng, LuaJIT, BNM with the IL2CPP headers of every Unity
  version, Dobby. The program's own C++ and Kotlin is a few thousand lines.
- Layout and wording of pages, logs, icons, and the pixel code of
  `ProcessPixels`, `PNGDecoder.cpp` and `Texture2DConverter.cpp` (it decodes or fails):
  no property is about them. `successCount` and `failCount` of TexturePack are read by
  log lines only; each texture is counted in `loadTexturePack` and again in `cctor`.
- The mutexes of `EFMod.hpp`: nothing in the repository uses a registry from two
  threads.
- The loader and the game: external, modelled by what the code here relies on.
- `Item.cpp` and `TerraFormats.cpp` of TerraFormats are unreachable or not built.
  `PerfMonitor.hpp` is included nowhere, `IL2CppArray.hpp` only by `Item.cpp`.
- Of ForgottenItem's items the fields no other mod touches (sizes, sounds, prices),
  and `IsAMaterial`, whose `clear` the loader defines.

## Plan

Done: `VeinMiner` and `VeinMinerProofs`; `LanguagePage`, `LanguageManager`, `TerraFormats`;
`TextureLoader`, `TextureService`; `TexturePage`, `TexturePacks`; `ModRegistry`, `ModTables`,
`ModHooks`, `Mods` and `ModsProofs`;
`Subsequences`; the proofs of all their invariants and action properties.

To come: the hazards of `PROJECT.json` that no property covers are open, each with its
reason there. Of the proofs, what is left is liveness (`QueueDrains`, `LoadingEnds`), which is
out of the prover's reach, and the five properties of the documents that the code does
not keep (`expect` is `violation`), which have none.
