----------------------------- MODULE VeinMiner -----------------------------
(***************************************************************************)
(* The VeinMiner mod (efmod/VeinMiner).  The game calls two hooks on its   *)
(* one update thread: HitTile.AddDamage, which may start a vein search     *)
(* (vein_miner::Mine), and Main.UpdateTime, which removes queued tiles a   *)
(* batch at a time (vein_miner::Update).                                   *)
(*                                                                         *)
(* The module starts after Receive resolved every handle of TileData.      *)
(* Tiles are flat indices y * W + x, as Tile._tileOffset numbers them.     *)
(* Mine runs to completion inside one hook call: while pc # "idle" neither *)
(* the game nor Update takes a step.                                       *)
(***************************************************************************)
EXTENDS Integers, SequencesExt

CONSTANTS
  W, H,               \* width and height of Main.tile
  TileTypes,          \* the tile types that occur
  Air,                \* the type KillTile leaves behind
  WhiteList,          \* config::WhiteList
  Neighborhood,       \* config::Neighborhood
  RemoveInterval,     \* config::RemoveInterval
  RemovePerInterval,  \* config::RemovePerInterval
  Layouts,            \* the worlds the game may load
  Picks,              \* pick powers of the items the player may hold
  OneCopy,            \* TRUE: TileData's statics are one object (unity build);
                      \* FALSE: each .cpp file has its own copy, as CMakeLists.txt builds
  EditCells,          \* bound: the tiles the game itself changes
  MaxEdits            \* bound: how often it changes one or loads a world

Cells == 0 .. W * H - 1

ASSUME VeinAssumption ==
  /\ W \in Nat /\ W >= 3
  /\ H \in Nat \ {0}
  /\ Air \in TileTypes
  /\ WhiteList \subseteq TileTypes \ {Air}
  /\ RemoveInterval \in Nat \ {0}
  /\ RemovePerInterval \in Nat \ {0}
  /\ Layouts \subseteq [Cells -> TileTypes]
  /\ Picks \subseteq Nat
  /\ OneCopy \in BOOLEAN
  /\ EditCells \subseteq Cells
  /\ MaxEdits \in Nat

VARIABLES
  \* The game.
  tile,       \* Main.tile: the type of every tile
  heldPick,   \* pick power of LocalPlayer.HeldItem
  edits,      \* world changes so far (bounded by MaxEdits)
  \* The copy of TileData's statics that vein_miner.cpp reads and writes.
  WORLD_WIDTH, WORLD_SIZE, OFFSETS,
  REMOVE_LIST, REMOVE_UPDATE_COUNTER, IsInitialized,
  \* Locals of Mine.
  pc,         \* "idle", "pop" (while condition) or "scan" (for over OFFSETS)
  start,      \* hitTile's _tileOffset
  hitTileType, stack, currentPoint,
  k,          \* position of the for loop in OFFSETS
  \* History.
  base,       \* Len(REMOVE_LIST) when this Mine began its search
  ticks       \* Updates since tiles last left the queue, counted up to RemoveInterval

game    == <<tile, heldPick, edits>>
dims    == <<WORLD_WIDTH, WORLD_SIZE, OFFSETS, IsInitialized>>
queue   == <<REMOVE_LIST, REMOVE_UPDATE_COUNTER>>
locals  == <<start, hitTileType, stack, currentPoint, k>>
vars    == <<game, dims, queue, pc, locals, base, ticks>>

\* Mutant: the second direction is the last one.
Moore_Typo == <<W, W - 1, 1, -W + 1, -W, -W - 1, -1, W - 1>>

Moore      == <<W, W + 1, 1, -W + 1, -W, -W - 1, -1, W - 1>>
VonNeumann == <<W, -W, 1, -1>>
Directions == IF Neighborhood = "Moore" THEN Moore ELSE VonNeumann

----------------------------------------------------------------------------
(* TileData::Initialize.  It writes the copy of tile_data.cpp, which is    *)
(* vein_miner.cpp's own copy only if the statics are one object.  The copy *)
(* of tile_data.cpp is read by no function and is not kept.                *)

Initialize ==
  IF OneCopy
  THEN /\ WORLD_WIDTH' = W
       /\ WORLD_SIZE' = W * H
       /\ OFFSETS' = Directions
       /\ REMOVE_LIST' = <<>>
       /\ REMOVE_UPDATE_COUNTER' = 0
       /\ IsInitialized' = TRUE
  ELSE UNCHANGED <<dims, queue>>

IsTileTypeCanBeVeinMined(tileType) == tileType \in WhiteList

(* vein_miner::Mine up to its while loop, for the tile with offset p.      *)
Mine(p) ==
  /\ IF ~IsInitialized THEN Initialize ELSE UNCHANGED <<dims, queue>>
  /\ IF IsTileTypeCanBeVeinMined(tile[p])
     THEN /\ pc' = "pop"
          /\ start' = p
          /\ hitTileType' = tile[p]
          /\ stack' = <<p>>
          /\ base' = Len(REMOVE_LIST')
          /\ UNCHANGED <<currentPoint, k>>
     ELSE UNCHANGED <<pc, locals, base>>

(* T_AddDamage: the damage the game computed reached 100 on tile p.        *)
MayMine(pick) == pick <= 0

T_AddDamage(p) ==
  /\ pc = "idle"
  /\ MayMine(heldPick)
  /\ Mine(p)
  /\ UNCHANGED <<game, ticks>>

(* The while loop takes the last point of the stack ...                    *)
MinePop ==
  /\ pc = "pop"
  /\ stack # <<>>
  /\ currentPoint' = Last(stack)
  /\ stack' = Front(stack)
  /\ k' = 1
  /\ pc' = "scan"
  /\ UNCHANGED <<game, dims, queue, start, hitTileType, base, ticks>>

(* ... and the for loop looks at its neighbour in direction OFFSETS[k].    *)
\* Mutant: tile 0 is taken for no tile.
InWorld_Positive(p) == 0 < p /\ p < WORLD_SIZE

InWorld(p) == 0 <= p /\ p < WORLD_SIZE

\* Mutant: the std::find over REMOVE_LIST is missing.
Belongs_NoFind(p) == InWorld(p) /\ tile[p] = hitTileType

Belongs(p) ==
  /\ InWorld(p)
  /\ p \notin ToSet(REMOVE_LIST)
  /\ tile[p] = hitTileType

MineScan ==
  /\ pc = "scan"
  /\ k <= Len(OFFSETS)
  /\ LET nextPoint == currentPoint + OFFSETS[k]
     IN  IF Belongs(nextPoint)
         THEN /\ REMOVE_LIST' = Append(REMOVE_LIST, nextPoint)
              /\ stack' = Append(stack, nextPoint)
         ELSE UNCHANGED <<REMOVE_LIST, stack>>
  /\ k' = k + 1
  /\ UNCHANGED <<game, dims, REMOVE_UPDATE_COUNTER, pc, start, hitTileType,
                 currentPoint, base, ticks>>

MineScanned ==
  /\ pc = "scan"
  /\ k > Len(OFFSETS)
  /\ pc' = "pop"
  /\ UNCHANGED <<game, dims, queue, locals, base, ticks>>

MineReturn ==
  /\ pc = "pop"
  /\ stack = <<>>
  /\ pc' = "idle"
  /\ start' = 0 /\ hitTileType' = Air /\ stack' = <<>> /\ currentPoint' = 0 /\ k' = 1
  /\ base' = 0
  /\ UNCHANGED <<game, dims, queue, ticks>>

----------------------------------------------------------------------------
(* vein_miner::Update, called by T_UpdateTime on every tick of the game.   *)

Due == REMOVE_UPDATE_COUNTER >= RemoveInterval

\* Mutant: the counter is not reset after a batch.
CounterAfter_NoReset == REMOVE_UPDATE_COUNTER + 1

CounterAfter == (IF Due THEN 0 ELSE REMOVE_UPDATE_COUNTER) + 1

\* Mutant: the loop stops before the list is empty.
BatchSize_LeavesOne == IF Len(REMOVE_LIST) \in 1 .. RemovePerInterval
                       THEN Len(REMOVE_LIST) - 1
                       ELSE IF REMOVE_LIST = <<>> THEN 0 ELSE RemovePerInterval

BatchSize == IF Len(REMOVE_LIST) < RemovePerInterval
             THEN Len(REMOVE_LIST) ELSE RemovePerInterval

\* Mutant: the quotient is taken for x and the remainder for y.
KillIndex_Swapped(tileOffset) ==
  ((tileOffset % WORLD_WIDTH) * W) + (tileOffset \div WORLD_WIDTH)

(* The index of the tile KillTile is called for.                           *)
KillIndex(tileOffset) ==
  ((tileOffset \div WORLD_WIDTH) * W) + (tileOffset % WORLD_WIDTH)

(* WorldGen.KillTile removes a tile or refuses to (tiles under a chest).   *)
KillTiles(targets) ==
  \E refused \in SUBSET targets :
    tile' = [p \in Cells |-> IF p \in targets \ refused THEN Air ELSE tile[p]]

RemoveBatch ==
  LET batch == ToSet(SubSeq(REMOVE_LIST, 1, BatchSize))
  IN  /\ REMOVE_LIST' = SubSeq(REMOVE_LIST, BatchSize + 1, Len(REMOVE_LIST))
      /\ KillTiles({KillIndex(p) : p \in batch})

Update ==
  /\ pc = "idle"
  /\ IsInitialized
  /\ IF Due THEN RemoveBatch ELSE UNCHANGED <<tile, REMOVE_LIST>>
  /\ REMOVE_UPDATE_COUNTER' = CounterAfter
  /\ ticks' = IF REMOVE_LIST' # REMOVE_LIST THEN 1
              ELSE IF ticks < RemoveInterval THEN ticks + 1 ELSE ticks
  /\ UNCHANGED <<heldPick, edits, dims, pc, locals, base>>

----------------------------------------------------------------------------
(* The rest of the game, between two hook calls.                           *)

(* A tile is placed, mined by hand or replaced.                            *)
EditTile(p, t) ==
  /\ pc = "idle"
  /\ edits < MaxEdits
  /\ tile' = [tile EXCEPT ![p] = t]
  /\ edits' = edits + 1
  /\ UNCHANGED <<heldPick, dims, queue, pc, locals, base, ticks>>

(* Another world is entered: TileData's statics keep their values.         *)
LoadWorld(layout) ==
  /\ pc = "idle"
  /\ edits < MaxEdits
  /\ tile' = layout
  /\ edits' = edits + 1
  /\ UNCHANGED <<heldPick, dims, queue, pc, locals, base, ticks>>

SwitchItem(pick) ==
  /\ pc = "idle"
  /\ heldPick' = pick
  /\ UNCHANGED <<tile, edits, dims, queue, pc, locals, base, ticks>>

----------------------------------------------------------------------------
Init ==
  /\ tile \in Layouts
  /\ heldPick \in Picks
  /\ edits = 0
  /\ WORLD_WIDTH = 0 /\ WORLD_SIZE = 0 /\ OFFSETS = <<>>
  /\ REMOVE_LIST = <<>> /\ REMOVE_UPDATE_COUNTER = 0 /\ IsInitialized = FALSE
  /\ pc = "idle"
  /\ start = 0 /\ hitTileType = Air /\ stack = <<>> /\ currentPoint = 0 /\ k = 1
  /\ base = 0
  /\ ticks = RemoveInterval

MineStep == MinePop \/ MineScan \/ MineScanned \/ MineReturn

Next ==
  \/ \E p \in Cells : T_AddDamage(p)
  \/ MinePop
  \/ MineScan
  \/ MineScanned
  \/ MineReturn
  \/ Update
  \/ \E p \in EditCells, t \in TileTypes : EditTile(p, t)
  \/ \E layout \in Layouts : LoadWorld(layout)
  \/ \E pick \in Picks : SwitchItem(pick)

(* A search runs without interruption, and the game calls UpdateTime once  *)
(* a tick however many tiles are hit in between.                           *)
Fairness == WF_vars(MineStep) /\ SF_vars(Update)

Spec == Init /\ [][Next]_vars /\ Fairness

----------------------------------------------------------------------------
(* Properties.                                                             *)

(* Every variable stays in its range; the counter of Update never passes   *)
(* RemoveInterval, and the cached dimensions are unset or those of the     *)
(* world.                                                                  *)
TypeOK ==
  /\ tile \in [Cells -> TileTypes]
  /\ heldPick \in Picks
  /\ edits \in 0 .. MaxEdits
  /\ IsInitialized \in BOOLEAN
  /\ WORLD_WIDTH = IF IsInitialized THEN W ELSE 0
  /\ WORLD_SIZE = IF IsInitialized THEN W * H ELSE 0
  /\ OFFSETS = IF IsInitialized THEN Directions ELSE <<>>
  /\ REMOVE_LIST \in Seq(Cells)
  /\ REMOVE_UPDATE_COUNTER \in 0 .. RemoveInterval
  /\ pc \in {"idle", "pop", "scan"}
  /\ start \in Cells
  /\ hitTileType \in TileTypes
  /\ stack \in Seq(Cells)
  /\ currentPoint \in Cells
  /\ k \in 1 .. Len(OFFSETS) + 1
  /\ base \in 0 .. Len(REMOVE_LIST)
  /\ pc = "idle" => k = 1 /\ base = 0
  /\ ticks \in 1 .. RemoveInterval

(* No tile waits twice in REMOVE_LIST, however many searches and batches   *)
(* are interleaved: the search of Mine ends and Update kills a tile once.  *)
NoDuplicates ==
  \A i, j \in 1 .. Len(REMOVE_LIST) : REMOVE_LIST[i] = REMOVE_LIST[j] => i = j

SearchDone == pc = "pop" /\ stack = <<>>

(* What the running search queued: everything it appended to REMOVE_LIST.  *)
Found == {REMOVE_LIST[i] : i \in base + 1 .. Len(REMOVE_LIST)}

(* When the search ends it has missed no neighbour: each tile next to the  *)
(* hit tile or to a tile it queued that has the hit type is in the list.   *)
(* It queued nothing but tiles of the hit type.                            *)
SearchClosed ==
  SearchDone =>
    /\ \A p \in Found : tile[p] = hitTileType
    /\ \A p \in Found \union {start} : \A d \in 1 .. Len(OFFSETS) :
         LET q == p + OFFSETS[d]
         IN  q \in Cells /\ tile[q] = hitTileType => q \in ToSet(REMOVE_LIST)

X(p) == p % W
Y(p) == p \div W
Distance(a, b) == IF a < b THEN b - a ELSE a - b

(* The adjacency the two neighbourhoods stand for, on coordinates.         *)
Adjacent(p, q) ==
  LET dx == Distance(X(p), X(q))
      dy == Distance(Y(p), Y(q))
  IN  IF Neighborhood = "Moore" THEN dx <= 1 /\ dy <= 1 ELSE dx + dy <= 1

(* The vein of p: the tiles of its type connected to it, which are those   *)
(* in every set that has p and all neighbours of what it has.              *)
Vein(p) ==
  LET same     == {q \in Cells : tile[q] = tile[p]}
      Whole(S) == p \in S /\ \A r \in S, q \in same : Adjacent(q, r) => q \in S
  IN  {q \in same : \A S \in SUBSET same : Whole(S) => q \in S}

(* No tile of type t in the first or last column, where p - 1 and p + 1    *)
(* are tiles of another row (players cannot reach the edge of a world).    *)
AwayFromEdge(t) == \A p \in Cells : tile[p] = t => X(p) \notin {0, W - 1}

(* A search that starts with an empty list queues exactly the vein of the  *)
(* tile that was hit; the hit tile itself only if a neighbour leads back   *)
(* to it.                                                                  *)
MineFindsVein ==
  SearchDone /\ base = 0 /\ AwayFromEdge(hitTileType) =>
    ToSet(REMOVE_LIST) = IF Vein(start) = {start} THEN {} ELSE Vein(start)

(* Update removes nothing but queued tiles, and takes what it removes out  *)
(* of the queue: the split of an index into x and y and back is exact.     *)
KillsQueued ==
  [][\A p \in Cells : edits' = edits /\ tile'[p] # tile[p] =>
        p \in ToSet(REMOVE_LIST) /\ p \notin ToSet(REMOVE_LIST')]_vars

(* Frame pacing: at most RemovePerInterval tiles leave the queue at once,  *)
(* and RemoveInterval ticks pass between two such batches, whatever        *)
(* searches run between them.                                              *)
FramePacing ==
  [][Len(REMOVE_LIST') < Len(REMOVE_LIST) =>
        /\ ticks >= RemoveInterval
        /\ Len(REMOVE_LIST) - Len(REMOVE_LIST') <= RemovePerInterval]_vars

(* Every queued tile leaves the queue, while new searches keep adding.     *)
QueueDrains ==
  \A p \in Cells : p \in ToSet(REMOVE_LIST) ~> p \notin ToSet(REMOVE_LIST)

(* What the comment in T_AddDamage says: a search is started with a        *)
(* pickaxe in hand.                                                        *)
PickaxeMines == [][pc = "idle" /\ pc' # "idle" => heldPick > 0]_vars

=============================================================================
