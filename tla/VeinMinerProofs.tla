-------------------------- MODULE VeinMinerProofs --------------------------
(***************************************************************************)
(* Proofs about VeinMiner, for every world, neighbourhood, pacing and for  *)
(* both ways of building the mod.                                          *)
(***************************************************************************)
EXTENDS VeinMiner, SequenceTheorems, TLAPS

----------------------------------------------------------------------------
(* Sequences.                                                              *)

(* Taking the last element off a sequence.                                 *)
LEMMA FrontLast ==
  ASSUME NEW S, NEW s \in Seq(S), s # <<>>
  PROVE  /\ Front(s) \in Seq(S)
         /\ Last(s) \in S
         /\ ToSet(s) = ToSet(Front(s)) \union {Last(s)}
<1>1. Len(s) \in Nat \ {0} /\ DOMAIN s = 1 .. Len(s)
  BY EmptySeq, LenProperties
<1>2. \A i \in 1 .. Len(s) : s[i] \in S
  BY ElementOfSeq
<1>3. /\ Front(s) \in Seq(S)
      /\ Len(Front(s)) = Len(s) - 1
      /\ \A i \in 1 .. Len(s) - 1 : Front(s)[i] = s[i]
  <2>1. \A i \in 1 .. Len(s) - 1 : s[i] \in S
    BY <1>1, <1>2
  <2>2. /\ SubSeq(s, 1, Len(s) - 1) \in Seq(S)
        /\ Len(SubSeq(s, 1, Len(s) - 1)) =
             IF 1 <= Len(s) - 1 THEN Len(s) - 1 - 1 + 1 ELSE 0
        /\ \A i \in 1 .. Len(s) - 1 - 1 + 1 : SubSeq(s, 1, Len(s) - 1)[i] = s[1 + i - 1]
    <3>1. Len(s) - 1 \in Int /\ 1 \in Int
      BY <1>1
    <3>2. QED  BY <2>1, <3>1, SubSeqProperties
  <2>3. QED  BY <2>2, <1>1 DEF Front
<1>4. DOMAIN Front(s) = 1 .. Len(s) - 1
  BY <1>3, LenProperties
<1>5. QED  BY <1>1, <1>2, <1>3, <1>4 DEF ToSet, Last

(* Appending an element.                                                   *)
LEMMA AppendElement ==
  ASSUME NEW S, NEW s \in Seq(S), NEW e \in S
  PROVE  /\ Append(s, e) \in Seq(S)
         /\ Len(Append(s, e)) = Len(s) + 1
         /\ \A i \in 1 .. Len(s) : Append(s, e)[i] = s[i]
         /\ Append(s, e)[Len(s) + 1] = e
         /\ ToSet(Append(s, e)) = ToSet(s) \union {e}
<1>1. /\ Append(s, e) \in Seq(S)
      /\ Len(Append(s, e)) = Len(s) + 1
      /\ \A i \in 1 .. Len(s) : Append(s, e)[i] = s[i]
      /\ Append(s, e)[Len(s) + 1] = e
  BY AppendProperties
<1>2. Len(s) \in Nat /\ DOMAIN s = 1 .. Len(s) /\ DOMAIN Append(s, e) = 1 .. Len(s) + 1
  BY <1>1, LenProperties
<1>3. QED  BY <1>1, <1>2 DEF ToSet

(* Dropping the first n elements of a sequence.                            *)
LEMMA DropFirst ==
  ASSUME NEW S, NEW s \in Seq(S), NEW n \in 0 .. Len(s)
  PROVE  LET t == SubSeq(s, n + 1, Len(s))
         IN  /\ t \in Seq(S)
             /\ Len(t) = Len(s) - n
             /\ \A i \in 1 .. Len(t) : t[i] = s[n + i]
<1> DEFINE t == SubSeq(s, n + 1, Len(s))
<1>1. Len(s) \in Nat
  BY LenProperties
<1>2. \A i \in n + 1 .. Len(s) : s[i] \in S
  BY <1>1, ElementOfSeq
<1>3. n + 1 \in Int /\ Len(s) \in Int
  BY <1>1
<1>4. /\ t \in Seq(S)
      /\ Len(t) = IF n + 1 <= Len(s) THEN Len(s) - (n + 1) + 1 ELSE 0
      /\ \A i \in 1 .. Len(s) - (n + 1) + 1 : t[i] = s[n + 1 + i - 1]
  BY <1>2, <1>3, SubSeqProperties
<1>5. QED  BY <1>1, <1>4

----------------------------------------------------------------------------
(* The world and the directions.                                           *)

(* The world has tiles, and 0 is the index of one.                         *)
LEMMA WorldSize == W * H \in Nat \ {0} /\ 0 \in Cells
<1>1. W \in Nat /\ H \in Nat /\ W > 0 /\ H > 0
  BY VeinAssumption
<1>2. W * H \in Nat /\ W * H > 0
  BY <1>1
<1>3. QED  BY <1>2 DEF Cells

(* The offsets are a list of integers.                                     *)
LEMMA DirectionsType == Directions \in Seq(Int) /\ Len(Directions) \in Nat
<1>1. W \in Int
  BY VeinAssumption
<1>2. Moore \in Seq(Int) /\ VonNeumann \in Seq(Int)
  BY <1>1 DEF Moore, VonNeumann
<1>3. QED  BY <1>2, LenProperties DEF Directions

(* What the directions are: integers, none while the statics are unset.    *)
LEMMA OffsetsType ==
  ASSUME TypeOK
  PROVE  /\ Len(OFFSETS) \in Nat
         /\ \A d \in 1 .. Len(OFFSETS) : OFFSETS[d] \in Int
<1>1. OFFSETS \in Seq(Int)
  BY DirectionsType DEF TypeOK
<1>2. QED  BY <1>1, LenProperties, ElementOfSeq

(* A point accepted by the search is a tile of the world.                  *)
LEMMA BelongsInCells ==
  ASSUME TypeOK, NEW p \in Int, Belongs(p)
  PROVE  p \in Cells
<1>1. WORLD_SIZE \in {0, W * H} /\ W * H \in Nat
  BY WorldSize DEF TypeOK
<1>2. QED  BY <1>1 DEF Belongs, InWorld, Cells

----------------------------------------------------------------------------
(* Type correctness.                                                       *)

(* Types hold at the start,                                                *)
LEMMA InitType == Init => TypeOK
<1> SUFFICES ASSUME Init PROVE TypeOK
  OBVIOUS
<1>1. tile \in [Cells -> TileTypes] /\ Air \in TileTypes /\ RemoveInterval \in Nat \ {0} /\ MaxEdits \in Nat
  BY VeinAssumption DEF Init
<1>2. <<>> \in Seq(Cells) /\ Len(<<>>) = 0
  OBVIOUS
<1>3. QED  BY <1>1, <1>2, WorldSize DEF Init, TypeOK

(* A call of the hook leaves every variable in its range: it may set the   *)
(* statics and it may begin a search.                                      *)
LEMMA AddDamageType ==
  ASSUME TypeOK, NEW p \in Cells, T_AddDamage(p)
  PROVE  TypeOK'
<1>1. Initialize \/ UNCHANGED <<dims, queue>>
  BY DEF T_AddDamage, Mine
<1>2. RemoveInterval \in Nat \ {0} /\ OneCopy \in BOOLEAN
  BY VeinAssumption
<1>3. /\ IsInitialized' \in BOOLEAN
      /\ WORLD_WIDTH' = IF IsInitialized' THEN W ELSE 0
      /\ WORLD_SIZE' = IF IsInitialized' THEN W * H ELSE 0
      /\ OFFSETS' = IF IsInitialized' THEN Directions ELSE <<>>
      /\ REMOVE_LIST' \in Seq(Cells)
      /\ REMOVE_UPDATE_COUNTER' \in 0 .. RemoveInterval
  <2>1. CASE UNCHANGED <<dims, queue>>
    BY <2>1 DEF TypeOK, dims, queue
  <2>2. CASE Initialize
    <3>1. <<>> \in Seq(Cells)
      OBVIOUS
    <3>2. CASE OneCopy
      <4>1. /\ WORLD_WIDTH' = W /\ WORLD_SIZE' = W * H /\ OFFSETS' = Directions
            /\ REMOVE_LIST' = <<>> /\ REMOVE_UPDATE_COUNTER' = 0 /\ IsInitialized' = TRUE
        BY <2>2, <3>2 DEF Initialize
      <4>2. 0 \in 0 .. RemoveInterval
        BY <1>2
      <4>3. QED  BY <3>1, <4>1, <4>2
    <3>3. CASE ~OneCopy
      BY <2>1, <2>2, <3>3 DEF Initialize
    <3>4. QED  BY <3>2, <3>3
  <2>3. QED  BY <1>1, <2>1, <2>2
<1>4. tile \in [Cells -> TileTypes] /\ tile[p] \in TileTypes /\ <<p>> \in Seq(Cells)
  BY DEF TypeOK
<1>5. Len(REMOVE_LIST') \in Nat /\ Len(OFFSETS') \in Nat
  BY <1>3, DirectionsType, LenProperties
<1>6. /\ pc' \in {"idle", "pop", "scan"}
      /\ start' \in Cells
      /\ hitTileType' \in TileTypes
      /\ stack' \in Seq(Cells)
      /\ currentPoint' \in Cells
      /\ k' = k
  BY <1>4 DEF T_AddDamage, Mine, TypeOK, locals
<1>7. k' \in 1 .. Len(OFFSETS') + 1 /\ base' \in 0 .. Len(REMOVE_LIST')
  <2>1. k = 1 /\ base = 0
    BY DEF T_AddDamage, TypeOK
  <2>2. base' \in {base, Len(REMOVE_LIST')}
    BY DEF T_AddDamage, Mine
  <2>3. QED  BY <2>1, <2>2, <1>5, <1>6
<1>8. pc' = "idle" => k' = 1 /\ base' = 0
  BY DEF T_AddDamage, Mine, TypeOK, locals
<1>9. QED  BY <1>3, <1>6, <1>7, <1>8 DEF T_AddDamage, TypeOK, game

(* after a step of the search,                                             *)
LEMMA MineStepType ==
  ASSUME TypeOK, MineStep
  PROVE  TypeOK'
<1>1. Len(OFFSETS) \in Nat /\ Len(REMOVE_LIST) \in Nat
  BY OffsetsType, LenProperties DEF TypeOK
<1>2. CASE MinePop
  <2>1. Front(stack) \in Seq(Cells) /\ Last(stack) \in Cells
    BY <1>2, FrontLast DEF MinePop, TypeOK
  <2>2. QED  BY <1>1, <1>2, <2>1 DEF MinePop, TypeOK, game, dims, queue
<1>3. CASE MineScan
  <2> DEFINE nextPoint == currentPoint + OFFSETS[k]
  <2>1. nextPoint \in Int
    <3>1. currentPoint \in Int
      BY WorldSize DEF TypeOK, Cells
    <3>2. k \in 1 .. Len(OFFSETS)
      BY <1>1, <1>3 DEF MineScan, TypeOK
    <3>3. QED  BY <3>1, <3>2, OffsetsType
  <2>2. k' \in 1 .. Len(OFFSETS) + 1
    BY <1>1, <1>3 DEF MineScan, TypeOK
  <2>3. CASE Belongs(nextPoint)
    <3>1. nextPoint \in Cells
      BY <2>1, <2>3, BelongsInCells
    <3>2. REMOVE_LIST' = Append(REMOVE_LIST, nextPoint) /\ stack' = Append(stack, nextPoint)
      BY <1>3, <2>3 DEF MineScan
    <3>3. /\ REMOVE_LIST' \in Seq(Cells) /\ stack' \in Seq(Cells)
          /\ Len(REMOVE_LIST') = Len(REMOVE_LIST) + 1
      BY <3>1, <3>2, AppendElement DEF TypeOK
    <3>4. base' \in 0 .. Len(REMOVE_LIST')
      BY <1>1, <1>3, <3>3 DEF MineScan, TypeOK
    <3>5. QED  BY <1>3, <2>2, <3>3, <3>4 DEF MineScan, TypeOK, game, dims
  <2>4. CASE ~Belongs(nextPoint)
    <3>1. UNCHANGED <<REMOVE_LIST, stack>>
      BY <1>3, <2>4 DEF MineScan
    <3>2. QED  BY <1>3, <2>2, <3>1 DEF MineScan, TypeOK, game, dims
  <2>5. QED  BY <2>3, <2>4
<1>4. CASE MineScanned
  BY <1>4 DEF MineScanned, TypeOK, game, dims, queue, locals
<1>5. CASE MineReturn
  <2>1. <<>> \in Seq(Cells)
    OBVIOUS
  <2>2. Air \in TileTypes
    BY VeinAssumption
  <2>3. 1 \in 1 .. Len(OFFSETS) + 1 /\ 0 \in 0 .. Len(REMOVE_LIST)
    BY <1>1
  <2>4. QED  BY <1>5, <2>1, <2>2, <2>3, WorldSize DEF MineReturn, TypeOK, game, dims, queue
<1>6. QED  BY <1>2, <1>3, <1>4, <1>5 DEF MineStep

(* What one batch takes from the front of the queue.                       *)
LEMMA Batch ==
  ASSUME TypeOK
  PROVE  /\ BatchSize \in 0 .. Len(REMOVE_LIST)
         /\ BatchSize <= RemovePerInterval
<1>1. Len(REMOVE_LIST) \in Nat /\ RemovePerInterval \in Nat
  BY VeinAssumption, LenProperties DEF TypeOK
<1>2. QED  BY <1>1 DEF BatchSize

(* after the mod's turn in a frame,                                        *)
LEMMA UpdateType ==
  ASSUME TypeOK, Update
  PROVE  TypeOK'
<1>1. RemoveInterval \in Nat \ {0} /\ Air \in TileTypes
  BY VeinAssumption
<1>2. REMOVE_LIST' \in Seq(Cells) /\ tile' \in [Cells -> TileTypes]
  <2>1. CASE Due
    <3>1. RemoveBatch
      BY <2>1 DEF Update
    <3>2. REMOVE_LIST' \in Seq(Cells)
      BY <3>1, Batch, DropFirst DEF RemoveBatch, TypeOK
    <3>3. \A targets : KillTiles(targets) => tile' \in [Cells -> TileTypes]
      BY <1>1 DEF KillTiles, TypeOK
    <3>4. tile' \in [Cells -> TileTypes]
      BY <3>1, <3>3 DEF RemoveBatch
    <3>5. QED  BY <3>2, <3>4
  <2>2. CASE ~Due
    BY <2>2 DEF Update, TypeOK
  <2>3. QED  BY <2>1, <2>2
<1>3. REMOVE_UPDATE_COUNTER' \in 0 .. RemoveInterval
  BY <1>1 DEF Update, CounterAfter, Due, TypeOK
<1>4. ticks' \in 1 .. RemoveInterval
  BY <1>1 DEF Update, TypeOK
<1>5. base' = 0 /\ k' = 1 /\ pc' = "idle"
  BY DEF Update, TypeOK, locals
<1>6. 0 \in 0 .. Len(REMOVE_LIST')
  BY <1>2, LenProperties
<1>7. QED  BY <1>2, <1>3, <1>4, <1>5, <1>6 DEF Update, TypeOK, dims, locals

(* after a step of the game's own,                                         *)
LEMMA GameType ==
  ASSUME TypeOK,
         \/ \E p \in EditCells, t \in TileTypes : EditTile(p, t)
         \/ \E layout \in Layouts : LoadWorld(layout)
         \/ \E pick \in Picks : SwitchItem(pick)
  PROVE  TypeOK'
<1>1. MaxEdits \in Nat /\ EditCells \subseteq Cells /\ Layouts \subseteq [Cells -> TileTypes]
  BY VeinAssumption
<1>2. ASSUME NEW p \in EditCells, NEW t \in TileTypes, EditTile(p, t)
      PROVE  TypeOK'
  BY <1>1, <1>2 DEF EditTile, TypeOK, dims, queue, locals
<1>3. ASSUME NEW layout \in Layouts, LoadWorld(layout)
      PROVE  TypeOK'
  BY <1>1, <1>3 DEF LoadWorld, TypeOK, dims, queue, locals
<1>4. ASSUME NEW pick \in Picks, SwitchItem(pick)
      PROVE  TypeOK'
  BY <1>4 DEF SwitchItem, TypeOK, dims, queue, locals
<1>5. QED  BY <1>2, <1>3, <1>4

(* and when nothing changes.                                               *)
LEMMA StutterType == TypeOK /\ UNCHANGED vars => TypeOK'
BY DEF TypeOK, vars, game, dims, queue, locals

(* The types of the variables are invariant, in both builds.               *)
THEOREM TypeCorrect == Spec => []TypeOK
<1>1. Init => TypeOK
  BY InitType
<1>2. TypeOK /\ [Next]_vars => TypeOK'
  BY AddDamageType, MineStepType, UpdateType, GameType, StutterType DEF Next, MineStep
<1>3. QED  BY <1>1, <1>2, PTL DEF Spec

----------------------------------------------------------------------------
(* No duplicates.                                                          *)

(* What a step does to the queue: nothing, clear it, append a tile that is *)
(* not in it, or drop a batch from its front.                              *)
Appends == \E p \in Cells : /\ p \notin ToSet(REMOVE_LIST)
                            /\ REMOVE_LIST' = Append(REMOVE_LIST, p)
Drops == REMOVE_LIST' = SubSeq(REMOVE_LIST, BatchSize + 1, Len(REMOVE_LIST))

(* What each step does to the queue.                                       *)
LEMMA QueueSteps ==
  ASSUME TypeOK, [Next]_vars
  PROVE  \/ UNCHANGED REMOVE_LIST
         \/ REMOVE_LIST' = <<>> /\ pc = "idle" /\ ~IsInitialized
         \/ Appends /\ MineScan
         \/ Drops /\ Update /\ Due
<1>1. ASSUME NEW p \in Cells, T_AddDamage(p)
      PROVE  \/ UNCHANGED REMOVE_LIST
             \/ REMOVE_LIST' = <<>> /\ pc = "idle" /\ ~IsInitialized
  BY <1>1 DEF T_AddDamage, Mine, Initialize, queue
<1>2. CASE MineScan
  <2> DEFINE nextPoint == currentPoint + OFFSETS[k]
  <2>1. CASE Belongs(nextPoint)
    <3>1. nextPoint \in Int
      <4>1. Len(OFFSETS) \in Nat /\ currentPoint \in Int
        BY OffsetsType, WorldSize DEF TypeOK, Cells
      <4>2. k \in 1 .. Len(OFFSETS)
        BY <1>2, <4>1 DEF MineScan, TypeOK
      <4>3. QED  BY <4>1, <4>2, OffsetsType
    <3>2. nextPoint \in Cells
      BY <2>1, <3>1, BelongsInCells
    <3>3. QED  BY <1>2, <2>1, <3>2 DEF MineScan, Belongs, Appends
  <2>2. CASE ~Belongs(nextPoint)
    BY <1>2, <2>2 DEF MineScan
  <2>3. QED  BY <2>1, <2>2
<1>3. CASE MinePop \/ MineScanned \/ MineReturn
  BY <1>3 DEF MinePop, MineScanned, MineReturn, queue
<1>4. CASE Update
  BY <1>4 DEF Update, RemoveBatch, Drops
<1>5. ASSUME NEW p \in EditCells, NEW t \in TileTypes, EditTile(p, t)
      PROVE  UNCHANGED REMOVE_LIST
  BY <1>5 DEF EditTile, queue
<1>6. ASSUME NEW layout \in Layouts, LoadWorld(layout)
      PROVE  UNCHANGED REMOVE_LIST
  BY <1>6 DEF LoadWorld, queue
<1>7. ASSUME NEW pick \in Picks, SwitchItem(pick)
      PROVE  UNCHANGED REMOVE_LIST
  BY <1>7 DEF SwitchItem, queue
<1>8. CASE UNCHANGED vars
  BY <1>8 DEF vars, queue
<1>9. QED  BY <1>1, <1>2, <1>3, <1>4, <1>5, <1>6, <1>7, <1>8 DEF Next

(* Dropping a batch leaves the tail of the queue.                          *)
LEMMA DropBatch ==
  ASSUME TypeOK, Drops
  PROVE  /\ Len(REMOVE_LIST') = Len(REMOVE_LIST) - BatchSize
         /\ \A i \in 1 .. Len(REMOVE_LIST') : REMOVE_LIST'[i] = REMOVE_LIST[BatchSize + i]
<1>1. REMOVE_LIST \in Seq(Cells) /\ BatchSize \in 0 .. Len(REMOVE_LIST)
  BY Batch DEF TypeOK
<1>2. QED  BY <1>1, DropFirst DEF Drops

(* No step queues a tile that is queued.                                   *)
LEMMA NoDuplicatesStep ==
  ASSUME TypeOK, NoDuplicates, [Next]_vars
  PROVE  NoDuplicates'
<1>1. REMOVE_LIST \in Seq(Cells) /\ Len(REMOVE_LIST) \in Nat
  BY LenProperties DEF TypeOK
<1>2. CASE UNCHANGED REMOVE_LIST
  BY <1>2 DEF NoDuplicates
<1>3. CASE REMOVE_LIST' = <<>>
  BY <1>3 DEF NoDuplicates
<1>4. CASE Appends
  <2>1. PICK p \in Cells : p \notin ToSet(REMOVE_LIST) /\ REMOVE_LIST' = Append(REMOVE_LIST, p)
    BY <1>4 DEF Appends
  <2>2. \A i \in 1 .. Len(REMOVE_LIST) : REMOVE_LIST[i] # p
    BY <1>1, <2>1, LenProperties DEF ToSet
  <2>3. /\ Len(REMOVE_LIST') = Len(REMOVE_LIST) + 1
        /\ \A i \in 1 .. Len(REMOVE_LIST) : REMOVE_LIST'[i] = REMOVE_LIST[i]
        /\ REMOVE_LIST'[Len(REMOVE_LIST) + 1] = p
    BY <1>1, <2>1, AppendElement
  <2>4. QED  BY <1>1, <2>2, <2>3 DEF NoDuplicates
<1>5. CASE Drops
  <2>1. BatchSize \in 0 .. Len(REMOVE_LIST)
    BY Batch
  <2>2. /\ Len(REMOVE_LIST') = Len(REMOVE_LIST) - BatchSize
        /\ \A i \in 1 .. Len(REMOVE_LIST') : REMOVE_LIST'[i] = REMOVE_LIST[BatchSize + i]
    BY <1>5, DropBatch
  <2>3. SUFFICES ASSUME NEW i \in 1 .. Len(REMOVE_LIST'), NEW j \in 1 .. Len(REMOVE_LIST'),
                        REMOVE_LIST'[i] = REMOVE_LIST'[j]
                 PROVE  i = j
    BY DEF NoDuplicates
  <2>4. BatchSize + i \in 1 .. Len(REMOVE_LIST) /\ BatchSize + j \in 1 .. Len(REMOVE_LIST)
    BY <1>1, <2>1, <2>2
  <2>5. BatchSize + i = BatchSize + j
    BY <2>2, <2>3, <2>4 DEF NoDuplicates
  <2>6. QED  BY <1>1, <2>1, <2>5
<1>6. QED  BY <1>2, <1>3, <1>4, <1>5, QueueSteps

(* No tile is queued twice, for any interleaving of searches, batches and  *)
(* changes of the world.                                                   *)
THEOREM QueueHasNoDuplicates == Spec => []NoDuplicates
<1>1. Init => NoDuplicates
  BY DEF Init, NoDuplicates
<1>2. TypeOK /\ NoDuplicates /\ [Next]_vars => NoDuplicates'
  BY NoDuplicatesStep
<1>3. QED  BY <1>1, <1>2, TypeCorrect, PTL DEF Spec

----------------------------------------------------------------------------
(* The search misses nothing.                                              *)

(* In the first n directions from p no tile of the hit type is missing     *)
(* from the queue.                                                         *)
Matched(p, n) ==
  \A d \in 1 .. n : LET q == p + OFFSETS[d]
                    IN  q \in Cells /\ tile[q] = hitTileType => q \in ToSet(REMOVE_LIST)

(* While a search runs: it queued tiles of the hit type only; each of them *)
(* and the hit tile is on the stack, being looked around from, or done.    *)
SearchInv ==
  pc # "idle" =>
    /\ \A p \in Found : tile[p] = hitTileType
    /\ \A p \in Found \union {start} : \/ p \in ToSet(stack)
                                       \/ pc = "scan" /\ p = currentPoint
                                       \/ Matched(p, Len(OFFSETS))
    /\ pc = "scan" => Matched(currentPoint, k - 1)

(* The invariant of the search: when it starts,                            *)
LEMMA SearchStart ==
  ASSUME TypeOK, NEW p \in Cells, T_AddDamage(p)
  PROVE  SearchInv'
<1>1. CASE pc' = "idle"
  BY <1>1 DEF SearchInv
<1>2. CASE pc' # "idle"
  <2>1. /\ pc' = "pop" /\ start' = p /\ hitTileType' = tile[p] /\ stack' = <<p>>
        /\ base' = Len(REMOVE_LIST')
    BY <1>2 DEF T_AddDamage, Mine
  <2>2. REMOVE_LIST' \in Seq(Cells)
    BY AddDamageType DEF TypeOK
  <2>3. Found' = {}
    <3>1. Len(REMOVE_LIST') \in Nat
      BY <2>2, LenProperties
    <3>2. QED  BY <2>1, <3>1 DEF Found
  <2>4. p \in ToSet(stack')
    BY <2>1 DEF ToSet
  <2>5. QED  BY <2>1, <2>3, <2>4 DEF SearchInv
<1>3. QED  BY <1>1, <1>2

(* when a tile is taken from the stack,                                    *)
LEMMA SearchPop ==
  ASSUME TypeOK, SearchInv, MinePop
  PROVE  SearchInv'
<1>1. ToSet(stack) = ToSet(stack') \union {currentPoint'}
  BY FrontLast DEF MinePop, TypeOK
<1>2. UNCHANGED <<tile, OFFSETS, REMOVE_LIST, start, hitTileType, base>>
  BY DEF MinePop, game, dims, queue
<1>3. Found' = Found /\ pc = "pop" /\ pc' = "scan" /\ k' = 1
  BY <1>2 DEF Found, MinePop
<1>4. \A p, n : Matched(p, n) => Matched(p, n)'
  BY <1>2 DEF Matched
<1>5. Matched(currentPoint, k - 1)'
  BY <1>3 DEF Matched
<1>6. QED  BY <1>1, <1>2, <1>3, <1>4, <1>5 DEF SearchInv

(* when a neighbour is looked at,                                          *)
LEMMA SearchScan ==
  ASSUME TypeOK, SearchInv, MineScan
  PROVE  SearchInv'
<1> DEFINE nextPoint == currentPoint + OFFSETS[k]
<1>1. /\ UNCHANGED <<tile, OFFSETS, WORLD_SIZE, start, hitTileType, currentPoint, base, pc>>
      /\ pc = "scan" /\ k' = k + 1
  BY DEF MineScan, game, dims
<1>2. k \in 1 .. Len(OFFSETS) /\ Len(OFFSETS) \in Nat
  BY OffsetsType DEF MineScan, TypeOK
<1>3. REMOVE_LIST \in Seq(Cells) /\ stack \in Seq(Cells) /\ Len(REMOVE_LIST) \in Nat /\ base \in Nat
      /\ base <= Len(REMOVE_LIST)
  BY LenProperties DEF TypeOK
<1>4. CASE Belongs(nextPoint)
  <2>1. nextPoint \in Cells
    <3>1. currentPoint \in Int
      BY WorldSize DEF TypeOK, Cells
    <3>2. QED  BY <1>2, <1>4, <3>1, OffsetsType, BelongsInCells
  <2>2. /\ REMOVE_LIST' = Append(REMOVE_LIST, nextPoint)
        /\ stack' = Append(stack, nextPoint)
    BY <1>4 DEF MineScan
  <2>3. /\ ToSet(REMOVE_LIST') = ToSet(REMOVE_LIST) \union {nextPoint}
        /\ ToSet(stack') = ToSet(stack) \union {nextPoint}
    BY <1>3, <2>1, <2>2, AppendElement
  <2>4. Found' = Found \union {nextPoint}
    <3>1. /\ Len(REMOVE_LIST') = Len(REMOVE_LIST) + 1
          /\ \A i \in 1 .. Len(REMOVE_LIST) : REMOVE_LIST'[i] = REMOVE_LIST[i]
          /\ REMOVE_LIST'[Len(REMOVE_LIST) + 1] = nextPoint
      BY <1>3, <2>1, <2>2, AppendElement
    <3>2. QED  BY <1>1, <1>3, <3>1 DEF Found
  <2>5. tile[nextPoint] = hitTileType
    BY <1>4 DEF Belongs
  <2>6. \A p, n : Matched(p, n) => Matched(p, n)'
    BY <1>1, <2>3 DEF Matched
  <2>7. Matched(currentPoint, k - 1)'
    <3>1. Matched(currentPoint, k - 1)
      BY <1>1 DEF SearchInv
    <3>2. 1 .. k' - 1 = (1 .. k - 1) \union {k}
      BY <1>1, <1>2
    <3>3. QED  BY <1>1, <2>3, <3>1, <3>2 DEF Matched
  <2>8. QED  BY <1>1, <2>3, <2>4, <2>5, <2>6, <2>7 DEF SearchInv
<1>5. CASE ~Belongs(nextPoint)
  <2>1. UNCHANGED <<REMOVE_LIST, stack>>
    BY <1>5 DEF MineScan
  <2>2. Found' = Found /\ (\A p, n : Matched(p, n) => Matched(p, n)')
    BY <1>1, <2>1 DEF Found, Matched
  <2>3. nextPoint \in Cells /\ tile[nextPoint] = hitTileType => nextPoint \in ToSet(REMOVE_LIST)
    <3>1. WORLD_SIZE = W * H /\ W * H \in Nat
      BY <1>2, WorldSize DEF TypeOK
    <3>2. nextPoint \in Cells => InWorld(nextPoint)
      BY <3>1 DEF Cells, InWorld
    <3>3. QED  BY <1>5, <3>2 DEF Belongs
  <2>4. Matched(currentPoint, k - 1)'
    <3>1. Matched(currentPoint, k - 1)
      BY <1>1 DEF SearchInv
    <3>2. 1 .. k' - 1 = (1 .. k - 1) \union {k}
      BY <1>1, <1>2
    <3>3. QED  BY <1>1, <2>1, <2>3, <3>1, <3>2 DEF Matched
  <2>5. QED  BY <1>1, <2>1, <2>2, <2>4 DEF SearchInv
<1>6. QED  BY <1>4, <1>5

(* and when the last one was.                                              *)
LEMMA SearchScanned ==
  ASSUME TypeOK, SearchInv, MineScanned
  PROVE  SearchInv'
<1>1. UNCHANGED <<tile, OFFSETS, REMOVE_LIST, start, hitTileType, stack, currentPoint, base>>
      /\ pc = "scan" /\ pc' = "pop"
  BY DEF MineScanned, game, dims, queue, locals
<1>2. Found' = Found /\ (\A p, n : Matched(p, n) => Matched(p, n)')
  BY <1>1 DEF Found, Matched
<1>3. Len(OFFSETS) \in Nat /\ k - 1 = Len(OFFSETS)
  BY OffsetsType DEF MineScanned, TypeOK
<1>4. Matched(currentPoint, Len(OFFSETS))
  BY <1>1, <1>3 DEF SearchInv
<1>5. QED  BY <1>1, <1>2, <1>4 DEF SearchInv

(* So every step keeps it.                                                 *)
LEMMA SearchInvStep ==
  ASSUME TypeOK, SearchInv, [Next]_vars
  PROVE  SearchInv'
<1>1. CASE MineReturn \/ Update \/ \E pick \in Picks : SwitchItem(pick)
  BY <1>1 DEF MineReturn, Update, SwitchItem, SearchInv
<1>2. CASE \/ \E p \in EditCells, t \in TileTypes : EditTile(p, t)
           \/ \E layout \in Layouts : LoadWorld(layout)
  BY <1>2 DEF EditTile, LoadWorld, SearchInv
<1>3. CASE UNCHANGED vars
  BY <1>3 DEF vars, game, dims, queue, locals, SearchInv, Found, Matched
<1>4. QED  BY <1>1, <1>2, <1>3, SearchStart, SearchPop, SearchScan, SearchScanned DEF Next

(* A finished search has missed no neighbour of what it found, and found   *)
(* tiles of the hit type only.                                             *)
THEOREM SearchIsClosed == Spec => []SearchClosed
<1>1. Init => SearchInv
  BY DEF Init, SearchInv
<1>2. TypeOK /\ SearchInv /\ [Next]_vars => SearchInv'
  BY SearchInvStep
<1>3. SearchInv => SearchClosed
  <2> SUFFICES ASSUME SearchInv, SearchDone PROVE SearchClosed
    BY DEF SearchClosed
  <2>1. pc = "pop" /\ ToSet(stack) = {}
    BY DEF SearchDone, ToSet
  <2>2. QED  BY <2>1 DEF SearchInv, SearchClosed, Matched
<1>4. QED  BY <1>1, <1>2, <1>3, TypeCorrect, PTL DEF Spec

----------------------------------------------------------------------------
(* The search finds the vein.                                              *)

(* An index is made of its coordinates in one way only.                    *)
LEMMA Coordinates ==
  ASSUME NEW x \in 0 .. W - 1, NEW y \in Int
  PROVE  X(y * W + x) = x /\ Y(y * W + x) = y
<1>1. W \in Nat /\ W > 0
  BY VeinAssumption
<1> DEFINE n == y * W + x
<1>2. n \in Int /\ n \div W \in Int /\ n % W \in 0 .. W - 1 /\ n = (n \div W) * W + (n % W)
  BY <1>1
<1>3. PICK a, b : a = n \div W /\ b = n % W
  OBVIOUS
<1>4. ((y - a) * W) = b - x /\ a \in Int /\ b \in 0 .. W - 1
  BY <1>1, <1>2, <1>3
<1>5. y - a = 0
  <2>1. ASSUME y - a >= 1 PROVE FALSE
     <3>1. (y - a) * W >= W
        BY <1>1, <1>4, <2>1
     <3> QED BY <1>1, <1>4, <3>1
  <2>2. ASSUME y - a <= -1 PROVE FALSE
     <3>1. (y - a) * W <= -W
        BY <1>1, <1>4, <2>2
     <3> QED BY <1>1, <1>4, <3>1
  <2> QED BY <1>4, <2>1, <2>2
<1>6. QED
  BY <1>1, <1>3, <1>4, <1>5 DEF X, Y
(* A step of at most one tile each way, and not none.                      *)
Step(a, b) ==
  /\ a \in -1 .. 1 /\ b \in -1 .. 1 /\ (a # 0 \/ b # 0)
  /\ Neighborhood = "Moore" \/ a = 0 \/ b = 0

(* The offsets in the table are those of the steps.                        *)
LEMMA DirectionsAreSteps ==
  /\ \A d \in 1 .. Len(Directions) : \E a, b : Step(a, b) /\ Directions[d] = a * W + b
  /\ \A a, b : Step(a, b) => \E d \in 1 .. Len(Directions) : Directions[d] = a * W + b
<1>1. W \in Nat
  BY VeinAssumption
<1>2. CASE Neighborhood = "Moore"
  <2>1. Directions = Moore
    BY <1>2 DEF Directions
  <2>2. /\ Len(Moore) = 8
        /\ Moore[1] = W /\ Moore[2] = W + 1 /\ Moore[3] = 1 /\ Moore[4] = -W + 1
        /\ Moore[5] = -W /\ Moore[6] = -W - 1 /\ Moore[7] = -1 /\ Moore[8] = W - 1
    BY DEF Moore
  <2>3. ASSUME NEW d \in 1 .. 8
        PROVE  \E a, b : Step(a, b) /\ Moore[d] = a * W + b
    <3>1. /\ Step(1, 0) /\ Step(1, 1) /\ Step(0, 1) /\ Step(-1, 1)
          /\ Step(-1, 0) /\ Step(-1, -1) /\ Step(0, -1) /\ Step(1, -1)
      BY <1>2 DEF Step
    <3>2. /\ W = 1 * W + 0 /\ W + 1 = 1 * W + 1 /\ 1 = 0 * W + 1 /\ -W + 1 = (-1) * W + 1
          /\ -W = (-1) * W + 0 /\ -W - 1 = (-1) * W + (-1) /\ -1 = 0 * W + (-1) /\ W - 1 = 1 * W + (-1)
      BY <1>1
    <3>3. d = 1 \/ d = 2 \/ d = 3 \/ d = 4 \/ d = 5 \/ d = 6 \/ d = 7 \/ d = 8
      OBVIOUS
    <3>4. QED
      BY <2>2, <3>1, <3>2, <3>3
  <2>4. ASSUME NEW a, NEW b, Step(a, b)
        PROVE  \E d \in 1 .. 8 : Moore[d] = a * W + b
    <3>1. a \in {-1, 0, 1} /\ b \in {-1, 0, 1} /\ (a # 0 \/ b # 0)
      BY <2>4 DEF Step
    <3>2. CASE a = 1
      BY <1>1, <2>2, <3>1, <3>2
    <3>3. CASE a = -1
      BY <1>1, <2>2, <3>1, <3>3
    <3>4. CASE a = 0
      BY <1>1, <2>2, <3>1, <3>4
    <3>5. QED
      BY <3>1, <3>2, <3>3, <3>4
  <2>5. QED
    BY <2>1, <2>2, <2>3, <2>4
<1>3. CASE Neighborhood # "Moore"
  <2>1. Directions = VonNeumann
    BY <1>3 DEF Directions
  <2>2. Len(VonNeumann) = 4 /\ VonNeumann[1] = W /\ VonNeumann[2] = -W /\ VonNeumann[3] = 1 /\ VonNeumann[4] = -1
    BY DEF VonNeumann
  <2>3. ASSUME NEW d \in 1 .. 4
        PROVE  \E a, b : Step(a, b) /\ VonNeumann[d] = a * W + b
    <3>1. Step(1, 0) /\ Step(-1, 0) /\ Step(0, 1) /\ Step(0, -1)
      BY DEF Step
    <3>2. W = 1 * W + 0 /\ -W = (-1) * W + 0 /\ 1 = 0 * W + 1 /\ -1 = 0 * W + (-1)
      BY <1>1
    <3>3. d = 1 \/ d = 2 \/ d = 3 \/ d = 4
      OBVIOUS
    <3>4. QED
      BY <2>2, <3>1, <3>2, <3>3
  <2>4. ASSUME NEW a, NEW b, Step(a, b)
        PROVE  \E d \in 1 .. 4 : VonNeumann[d] = a * W + b
    <3>1. a \in {-1, 0, 1} /\ b \in {-1, 0, 1} /\ (a # 0 \/ b # 0) /\ (a = 0 \/ b = 0)
      BY <1>3, <2>4 DEF Step
    <3>2. QED
      BY <1>1, <2>2, <3>1
  <2>5. QED
    BY <2>1, <2>2, <2>3, <2>4
<1>4. QED
  BY <1>2, <1>3

(* A tile is its coordinates.                                              *)
LEMMA TileCoordinates ==
  ASSUME NEW p \in Cells
  PROVE  p \in Nat /\ X(p) \in 0 .. W - 1 /\ Y(p) \in Int /\ p = Y(p) * W + X(p)
<1>1. W \in Nat /\ W > 0 /\ p \in Nat
  BY VeinAssumption DEF Cells
<1>2. p \div W \in Int /\ p % W \in 0 .. W - 1 /\ p = (p \div W) * W + (p % W)
  BY <1>1
<1>3. QED
  BY <1>1, <1>2 DEF X, Y

(* Away from the edge the tiles at the offsets are the neighbours.         *)
LEMMA NeighboursAreOffsets ==
  ASSUME NEW p \in Cells, X(p) \notin {0, W - 1}, NEW q \in Cells
  PROVE  /\ \A d \in 1 .. Len(Directions) : q = p + Directions[d] => Adjacent(q, p) /\ q # p
         /\ Adjacent(q, p) /\ q # p => \E d \in 1 .. Len(Directions) : q = p + Directions[d]
<1>1. W \in Nat /\ W > 2
  BY VeinAssumption
<1>2. PICK x, y, u, v : x = X(p) /\ y = Y(p) /\ u = X(q) /\ v = Y(q)
  OBVIOUS
<1>3. /\ p \in Nat /\ x \in 1 .. W - 2 /\ y \in Int /\ p = y * W + x
      /\ q \in Nat /\ u \in 0 .. W - 1 /\ v \in Int /\ q = v * W + u
  BY <1>1, <1>2, TileCoordinates
<1>4. Adjacent(q, p) <=> IF Neighborhood = "Moore"
                         THEN Distance(u, x) <= 1 /\ Distance(v, y) <= 1
                         ELSE Distance(u, x) + Distance(v, y) <= 1
  BY <1>2 DEF Adjacent
<1>5. ASSUME NEW a, NEW b, Step(a, b), q = p + (a * W + b)
      PROVE  Adjacent(q, p) /\ q # p
  <2>1. a \in {-1, 0, 1} /\ b \in {-1, 0, 1} /\ (a # 0 \/ b # 0) /\ (Neighborhood = "Moore" \/ a = 0 \/ b = 0)
    BY <1>5 DEF Step
  <2>2. x + b \in 0 .. W - 1 /\ y + a \in Int /\ q = (y + a) * W + (x + b)
    BY <1>1, <1>3, <1>5, <2>1
  <2>3. u = x + b /\ v = y + a
    BY <1>2, <2>2, Coordinates
  <2>4. Distance(u, x) = IF b = 0 THEN 0 ELSE 1
    BY <1>3, <2>1, <2>3 DEF Distance
  <2>5. Distance(v, y) = IF a = 0 THEN 0 ELSE 1
    BY <1>3, <2>1, <2>3 DEF Distance
  <2>6. Adjacent(q, p)
    BY <1>4, <2>1, <2>4, <2>5
  <2>7. q # p
    BY <1>2, <1>3, <2>1, <2>3
  <2>8. QED
    BY <2>6, <2>7
<1>6. ASSUME Adjacent(q, p), q # p
      PROVE  \E a, b : Step(a, b) /\ q = p + (a * W + b)
  <2>1. PICK a, b : a = v - y /\ b = u - x
    OBVIOUS
  <2>2. a \in Int /\ b \in Int /\ q = p + (a * W + b)
    BY <1>1, <1>3, <2>1
  <2>3. Distance(u, x) = (IF b < 0 THEN -b ELSE b) /\ Distance(v, y) = (IF a < 0 THEN -a ELSE a)
    BY <1>3, <2>1 DEF Distance
  <2>4. a # 0 \/ b # 0
    BY <1>1, <1>3, <1>6, <2>1
  <2>5. Step(a, b)
    BY <1>4, <1>6, <2>2, <2>3, <2>4 DEF Step
  <2>6. QED
    BY <2>2, <2>5
<1>7. QED
  BY <1>5, <1>6, DirectionsAreSteps
(* Neighbours are neighbours of each other.                                *)
LEMMA AdjacentBack ==
  ASSUME NEW p \in Cells, NEW q \in Cells, Adjacent(q, p)
  PROVE  Adjacent(p, q)
<1>1. X(p) \in Int /\ X(q) \in Int /\ Y(p) \in Int /\ Y(q) \in Int
  <2>1. W \in Int
    BY VeinAssumption
  <2>2. QED
    BY <2>1, TileCoordinates
<1>2. Distance(X(p), X(q)) = Distance(X(q), X(p)) /\ Distance(Y(p), Y(q)) = Distance(Y(q), Y(p))
  BY <1>1 DEF Distance
<1>3. QED
  BY <1>2 DEF Adjacent

----------------------------------------------------------------------------
(* The vein.                                                               *)

Alike(p) == {q \in Cells : tile[q] = tile[p]}

(* The set has p, and all neighbours of what it has that are like p.       *)
Whole(S, p) == p \in S /\ \A r \in S, q \in Alike(p) : Adjacent(q, r) => q \in S

(* What membership of a vein means.                                        *)
LEMMA VeinIs ==
  ASSUME NEW p
  PROVE  Vein(p) = {q \in Alike(p) : \A S \in SUBSET Alike(p) : Whole(S, p) => q \in S}
BY DEF Vein, Alike, Whole

(* The vein has its first tile and goes on to each neighbour.              *)
LEMMA VeinGoesOn ==
  ASSUME NEW p \in Cells
  PROVE  /\ p \in Vein(p)
         /\ \A r \in Vein(p), q \in Alike(p) : Adjacent(q, r) => q \in Vein(p)
<1>1. p \in Vein(p)
  BY VeinIs DEF Alike, Whole
<1>2. ASSUME NEW r \in Vein(p), NEW q \in Alike(p), Adjacent(q, r)
      PROVE  q \in Vein(p)
  BY <1>2, VeinIs DEF Whole
<1>3. QED
  BY <1>1, <1>2

(* And it goes no further.                                                 *)
LEMMA VeinEnds ==
  ASSUME NEW p, NEW S \in SUBSET Alike(p), Whole(S, p)
  PROVE  Vein(p) \subseteq S
BY VeinIs

(* While a search runs: the tiles it will look around from were hit or     *)
(* found; it comes back to the hit tile from another one; and all it found *)
(* is in the vein.                                                         *)
VeinInv ==
  pc # "idle" =>
    /\ IsInitialized
    /\ tile[start] = hitTileType
    /\ ToSet(stack) \subseteq Found \union {start}
    /\ pc = "scan" => currentPoint \in Found \union {start}
    /\ start \in Found => \E p \in Found : p # start
    /\ AwayFromEdge(hitTileType) => Found \subseteq Vein(start)

(* A tile that is appended is found.                                       *)
LEMMA FoundGrows ==
  ASSUME TypeOK, NEW p \in Cells, REMOVE_LIST' = Append(REMOVE_LIST, p), base' = base
  PROVE  Found' = Found \union {p}
<1>1. REMOVE_LIST \in Seq(Cells) /\ Len(REMOVE_LIST) \in Nat /\ base \in Nat /\ base <= Len(REMOVE_LIST)
  BY LenProperties DEF TypeOK
<1>2. /\ Len(REMOVE_LIST') = Len(REMOVE_LIST) + 1
      /\ \A i \in 1 .. Len(REMOVE_LIST) : REMOVE_LIST'[i] = REMOVE_LIST[i]
      /\ REMOVE_LIST'[Len(REMOVE_LIST) + 1] = p
  BY <1>1, AppendElement
<1>3. QED
  BY <1>1, <1>2 DEF Found

(* The invariant of the vein: when the search starts.                      *)
LEMMA VeinStart ==
  ASSUME OneCopy, TypeOK, NEW p \in Cells, T_AddDamage(p)
  PROVE  VeinInv'
<1>1. CASE pc' = "idle"
  BY <1>1 DEF VeinInv
<1>2. CASE pc' # "idle"
  <2>1. /\ start' = p /\ hitTileType' = tile[p] /\ stack' = <<p>> /\ base' = Len(REMOVE_LIST')
        /\ pc' = "pop" /\ tile' = tile
    BY <1>2 DEF T_AddDamage, Mine, game
  <2>2. IsInitialized'
    BY DEF T_AddDamage, Mine, Initialize, dims
  <2>3. Found' = {}
    <3>1. REMOVE_LIST' \in Seq(Cells)
      BY AddDamageType DEF TypeOK
    <3>2. Len(REMOVE_LIST') \in Nat
      BY <3>1, LenProperties
    <3>3. QED
      BY <2>1, <3>2 DEF Found
  <2>4. ToSet(stack') = {p}
    BY <2>1 DEF ToSet
  <2>5. QED
    BY <2>1, <2>2, <2>3, <2>4 DEF VeinInv
<1>3. QED
  BY <1>1, <1>2

(* The next point is a neighbour of a tile of the vein.                    *)
LEMMA VeinScan ==
  ASSUME TypeOK, SearchInv, VeinInv, MineScan
  PROVE  VeinInv'
<1>1. /\ UNCHANGED <<tile, start, hitTileType, currentPoint, base, pc, IsInitialized>> /\ pc = "scan"
  BY DEF MineScan, game, dims
<1>2. /\ k \in 1 .. Len(Directions) /\ OFFSETS = Directions
  BY <1>1, OffsetsType DEF MineScan, TypeOK, VeinInv
<1>3. PICK q : q = currentPoint + OFFSETS[k]
  OBVIOUS
<1>4. CASE Belongs(q)
  <2>1. q \in Cells /\ tile[q] = hitTileType /\ currentPoint \in Cells /\ start \in Cells
    <3>1. currentPoint \in Int
      BY WorldSize DEF TypeOK, Cells
    <3>2. OFFSETS[k] \in Int
      BY <1>2, OffsetsType
    <3>3. QED
      BY <1>3, <1>4, <3>1, <3>2, BelongsInCells DEF Belongs, TypeOK
  <2>2. REMOVE_LIST' = Append(REMOVE_LIST, q) /\ stack' = Append(stack, q)
    BY <1>3, <1>4 DEF MineScan
  <2>3. Found' = Found \union {q}
    BY <1>1, <2>1, <2>2, FoundGrows
  <2>4. ToSet(stack') = ToSet(stack) \union {q}
    BY <2>1, <2>2, AppendElement DEF TypeOK
  <2>5. q # currentPoint
    <3>1. PICK a, b : Step(a, b) /\ OFFSETS[k] = a * W + b
      BY <1>2, DirectionsAreSteps
    <3>2. a \in {-1, 0, 1} /\ b \in {-1, 0, 1} /\ (a # 0 \/ b # 0) /\ W \in Nat /\ W > 2 /\ currentPoint \in Int
      BY <2>1, <3>1, VeinAssumption, WorldSize DEF Step, Cells
    <3>3. a * W + b # 0 /\ a * W + b \in Int
      BY <3>2
    <3>4. QED
      BY <1>3, <3>1, <3>2, <3>3
  <2>6. start \in Found' => \E p \in Found' : p # start
    BY <1>1, <2>3, <2>5 DEF VeinInv
  <2>7. ASSUME AwayFromEdge(hitTileType)
        PROVE  q \in Vein(start)
    <3>1. currentPoint \in Vein(start) /\ tile[currentPoint] = hitTileType
      BY <1>1, <2>1, <2>7, VeinGoesOn DEF VeinInv, SearchInv
    <3>2. X(currentPoint) \notin {0, W - 1}
      BY <2>1, <2>7, <3>1 DEF AwayFromEdge
    <3>3. Adjacent(q, currentPoint)
      BY <1>2, <1>3, <2>1, <3>2, NeighboursAreOffsets
    <3>4. q \in Alike(start)
      BY <1>1, <2>1 DEF Alike, VeinInv
    <3>5. QED
      BY <2>1, <3>1, <3>3, <3>4, VeinGoesOn
  <2>8. Vein(start)' = Vein(start) /\ (AwayFromEdge(hitTileType)' <=> AwayFromEdge(hitTileType))
    BY <1>1 DEF Vein, AwayFromEdge
  <2>9. QED
    BY <1>1, <2>3, <2>4, <2>6, <2>7, <2>8 DEF VeinInv
<1>5. CASE ~Belongs(q)
  <2>1. UNCHANGED <<REMOVE_LIST, stack>>
    BY <1>3, <1>5 DEF MineScan
  <2>2. Found' = Found /\ Vein(start)' = Vein(start) /\ (AwayFromEdge(hitTileType)' <=> AwayFromEdge(hitTileType))
    BY <1>1, <2>1 DEF Found, Vein, AwayFromEdge
  <2>3. QED
    BY <1>1, <2>1, <2>2 DEF VeinInv
<1>6. QED
  BY <1>4, <1>5

(* The other steps of a search take from the stack what they look at.      *)
LEMMA VeinRest ==
  ASSUME TypeOK, VeinInv, MinePop \/ MineScanned \/ UNCHANGED vars
  PROVE  VeinInv'
<1>1. UNCHANGED <<tile, start, hitTileType, REMOVE_LIST, base, IsInitialized>>
  BY DEF MinePop, MineScanned, vars, game, dims, queue, locals
<1>2. Found' = Found /\ Vein(start)' = Vein(start) /\ (AwayFromEdge(hitTileType)' <=> AwayFromEdge(hitTileType))
  BY <1>1 DEF Found, Vein, AwayFromEdge
<1>3. CASE MinePop
  <2>1. ToSet(stack) = ToSet(stack') \union {currentPoint'}
    BY <1>3, FrontLast DEF MinePop, TypeOK
  <2>2. pc = "pop"
    BY <1>3 DEF MinePop
  <2>3. QED
    BY <1>1, <1>2, <2>1, <2>2 DEF VeinInv
<1>4. CASE MineScanned
  <2>1. UNCHANGED stack /\ pc = "scan" /\ pc' = "pop"
    BY <1>4 DEF MineScanned, locals
  <2>2. QED
    BY <1>1, <1>2, <2>1 DEF VeinInv
<1>5. CASE UNCHANGED vars
  <2>1. UNCHANGED <<stack, pc, currentPoint>>
    BY <1>5 DEF vars, locals
  <2>2. QED
    BY <1>1, <1>2, <2>1 DEF VeinInv
<1>6. QED
  BY <1>3, <1>4, <1>5

(* Every step keeps the invariant of the vein.                             *)
LEMMA VeinInvStep ==
  ASSUME OneCopy, TypeOK, SearchInv, VeinInv, [Next]_vars
  PROVE  VeinInv'
<1>1. CASE \/ MineReturn \/ Update
           \/ \E pick \in Picks : SwitchItem(pick)
           \/ \E p \in EditCells, t \in TileTypes : EditTile(p, t)
           \/ \E layout \in Layouts : LoadWorld(layout)
  <2>1. pc' = "idle"
    BY <1>1 DEF MineReturn, Update, SwitchItem, EditTile, LoadWorld
  <2>2. QED
    BY <2>1 DEF VeinInv
<1>2. QED
  BY <1>1, VeinStart, VeinScan, VeinRest DEF Next

(* A search that has looked around everywhere has the vein.                *)
LEMMA VeinFound ==
  ASSUME TypeOK, SearchInv, VeinInv, SearchDone, base = 0, AwayFromEdge(hitTileType)
  PROVE  ToSet(REMOVE_LIST) = IF Vein(start) = {start} THEN {} ELSE Vein(start)
<1>1. /\ pc = "pop" /\ ToSet(stack) = {} /\ start \in Cells /\ OFFSETS = Directions
      /\ tile[start] = hitTileType
  BY DEF SearchDone, ToSet, TypeOK, VeinInv
<1>2. PICK R : R = ToSet(REMOVE_LIST)
  OBVIOUS
<1>3. R = Found /\ R \subseteq Cells
  <2>1. REMOVE_LIST \in Seq(Cells) /\ Len(REMOVE_LIST) \in Nat /\ DOMAIN REMOVE_LIST = 1 .. Len(REMOVE_LIST)
    BY LenProperties DEF TypeOK
  <2>2. \A i \in 1 .. Len(REMOVE_LIST) : REMOVE_LIST[i] \in Cells
    BY <2>1, ElementOfSeq
  <2>3. QED
    BY <1>2, <2>1, <2>2 DEF Found, ToSet
<1>4. /\ R \subseteq Vein(start)
      /\ \A p \in R : tile[p] = hitTileType
      /\ start \in R => \E p \in R : p # start
  BY <1>1, <1>3 DEF VeinInv, SearchInv
<1>5. ASSUME NEW r \in R \union {start}, NEW q \in Alike(start), Adjacent(q, r), q # r
      PROVE  q \in R
  <2>1. r \in Cells /\ tile[r] = hitTileType /\ q \in Cells /\ tile[q] = hitTileType
    BY <1>1, <1>3, <1>4 DEF Alike
  <2>2. PICK d \in 1 .. Len(Directions) : q = r + Directions[d]
    BY <1>5, <2>1, NeighboursAreOffsets DEF AwayFromEdge
  <2>3. Matched(r, Len(OFFSETS))
    BY <1>1, <1>3 DEF SearchInv
  <2>4. QED
    BY <1>1, <1>2, <2>1, <2>2, <2>3 DEF Matched
<1>6. Vein(start) \subseteq R \union {start}
  <2>1. R \union {start} \in SUBSET Alike(start)
    BY <1>1, <1>3, <1>4 DEF Alike
  <2>2. Whole(R \union {start}, start)
    BY <1>5 DEF Whole
  <2>3. QED
    BY <2>1, <2>2, VeinEnds
<1>7. CASE Vein(start) = {start}
  BY <1>2, <1>4, <1>7
<1>8. CASE Vein(start) # {start}
  <2>1. \E q \in Alike(start) : Adjacent(q, start) /\ q # start
    <3>1. SUFFICES ASSUME \A q \in Alike(start) : Adjacent(q, start) => q = start
                   PROVE  FALSE
      OBVIOUS
    <3>2. {start} \in SUBSET Alike(start) /\ Whole({start}, start)
      BY <1>1, <3>1 DEF Alike, Whole
    <3>3. Vein(start) \subseteq {start} /\ start \in Vein(start)
      BY <1>1, <3>2, VeinEnds, VeinGoesOn
    <3>4. QED
      BY <1>8, <3>3
  <2>2. PICK q \in Alike(start) : Adjacent(q, start) /\ q # start
    BY <2>1
  <2>3. q \in R
    BY <1>5, <2>2
  <2>4. start \in Alike(start) /\ Adjacent(start, q)
    BY <1>1, <2>2, AdjacentBack DEF Alike
  <2>5. start \in R
    BY <1>5, <2>2, <2>3, <2>4
  <2>6. QED
    BY <1>2, <1>4, <1>6, <1>8, <2>5
<1>9. QED
  BY <1>7, <1>8

(* A search that starts with an empty list queues exactly the tiles of the *)
(* hit type connected to the hit tile, in a world of any size, if the      *)
(* statics of TileData are one object.                                     *)
THEOREM SearchFindsVein ==
  ASSUME OneCopy
  PROVE  Spec => []MineFindsVein
<1>1. Init => SearchInv /\ VeinInv
  BY DEF Init, SearchInv, VeinInv
<1>2. TypeOK /\ SearchInv /\ VeinInv /\ [Next]_vars => SearchInv' /\ VeinInv'
  BY SearchInvStep, VeinInvStep
<1>3. TypeOK /\ SearchInv /\ VeinInv => MineFindsVein
  BY VeinFound DEF MineFindsVein
<1>4. QED
  BY <1>1, <1>2, <1>3, TypeCorrect, PTL DEF Spec

----------------------------------------------------------------------------
(* Update.                                                                 *)

(* Quotient and remainder.                                                 *)
LEMMA DivMod ==
  ASSUME NEW n \in Nat, NEW d \in Nat, d > 0
  PROVE  ((n \div d) * d) + (n % d) = n
OBVIOUS

(* The counter of Update is never ahead of the ticks since the last batch, *)
(* and nothing is queued before the statics are set.                       *)
PacingInv ==
  /\ REMOVE_UPDATE_COUNTER <= ticks
  /\ ~IsInitialized => REMOVE_LIST = <<>>

(* Every step keeps the invariant of the pacing.                           *)
LEMMA PacingInvStep ==
  ASSUME TypeOK, PacingInv, [Next]_vars
  PROVE  PacingInv'
<1>1. /\ RemoveInterval \in Nat \ {0}
      /\ REMOVE_UPDATE_COUNTER \in 0 .. RemoveInterval /\ ticks \in 1 .. RemoveInterval
  BY VeinAssumption DEF TypeOK
<1>2. ASSUME NEW p \in Cells, T_AddDamage(p)
      PROVE  PacingInv'
  <2>1. ticks' = ticks /\ (Initialize \/ UNCHANGED <<dims, queue>>)
    BY <1>2 DEF T_AddDamage, Mine
  <2>2. CASE UNCHANGED <<dims, queue>>
    BY <2>1, <2>2 DEF PacingInv, dims, queue
  <2>3. CASE Initialize /\ OneCopy
    BY <1>1, <2>1, <2>3 DEF PacingInv, Initialize
  <2>4. CASE Initialize /\ ~OneCopy
    BY <2>2, <2>4 DEF Initialize
  <2>5. QED  BY <2>1, <2>2, <2>3, <2>4
<1>3. CASE MineScan
  <2>1. IsInitialized
    <3>1. ~IsInitialized => Len(OFFSETS) = 0
      BY DEF TypeOK
    <3>2. QED  BY <1>3, <3>1 DEF MineScan, TypeOK
  <2>2. QED  BY <1>3, <2>1 DEF MineScan, PacingInv, dims
<1>4. CASE MinePop \/ MineScanned \/ MineReturn
  BY <1>4 DEF MinePop, MineScanned, MineReturn, PacingInv, dims, queue
<1>5. CASE Update
  <2>1. IsInitialized'
    BY <1>5 DEF Update, dims
  <2>2. CASE Due
    <3>1. REMOVE_UPDATE_COUNTER' = 1 /\ ticks' \in Nat /\ ticks' >= 1
      BY <1>1, <1>5, <2>2 DEF Update, CounterAfter
    <3>2. QED  BY <2>1, <3>1 DEF PacingInv
  <2>3. CASE ~Due
    <3>1. REMOVE_UPDATE_COUNTER' = REMOVE_UPDATE_COUNTER + 1 /\ REMOVE_UPDATE_COUNTER < RemoveInterval
      BY <1>1, <1>5, <2>3 DEF Update, CounterAfter, Due
    <3>2. ticks' = IF ticks < RemoveInterval THEN ticks + 1 ELSE ticks
      BY <1>5, <2>3 DEF Update
    <3>3. QED  BY <1>1, <2>1, <3>1, <3>2 DEF PacingInv
  <2>4. QED  BY <2>2, <2>3
<1>6. ASSUME NEW p \in EditCells, NEW t \in TileTypes, EditTile(p, t)
      PROVE  PacingInv'
  BY <1>6 DEF EditTile, PacingInv, dims, queue
<1>7. ASSUME NEW layout \in Layouts, LoadWorld(layout)
      PROVE  PacingInv'
  BY <1>7 DEF LoadWorld, PacingInv, dims, queue
<1>8. ASSUME NEW pick \in Picks, SwitchItem(pick)
      PROVE  PacingInv'
  BY <1>8 DEF SwitchItem, PacingInv, dims, queue
<1>9. CASE UNCHANGED vars
  BY <1>9 DEF vars, PacingInv, dims, queue
<1>10. QED  BY <1>2, <1>3, <1>4, <1>5, <1>6, <1>7, <1>8, <1>9 DEF Next

(* What the invariant says of a step.                                      *)
LEMMA PacingStep ==
  ASSUME TypeOK, PacingInv, [Next]_vars, Len(REMOVE_LIST') < Len(REMOVE_LIST)
  PROVE  /\ ticks >= RemoveInterval
         /\ Len(REMOVE_LIST) - Len(REMOVE_LIST') <= RemovePerInterval
<1>1. REMOVE_LIST \in Seq(Cells) /\ Len(REMOVE_LIST) \in Nat /\ RemoveInterval \in Nat
      /\ RemovePerInterval \in Nat
  BY VeinAssumption, LenProperties DEF TypeOK
<1>2. CASE UNCHANGED REMOVE_LIST
  BY <1>1, <1>2
<1>3. CASE REMOVE_LIST' = <<>> /\ pc = "idle" /\ ~IsInitialized
  BY <1>1, <1>3 DEF PacingInv
<1>4. CASE Appends
  BY <1>1, <1>4, AppendElement DEF Appends
<1>5. CASE Drops /\ Update /\ Due
  <2>1. REMOVE_UPDATE_COUNTER >= RemoveInterval /\ REMOVE_UPDATE_COUNTER <= ticks
    BY <1>5 DEF Due, PacingInv
  <2>2. ticks \in Int /\ REMOVE_UPDATE_COUNTER \in Int
    BY <1>1 DEF TypeOK
  <2>3. Len(REMOVE_LIST') = Len(REMOVE_LIST) - BatchSize
    BY <1>5, DropBatch
  <2>4. QED  BY <1>1, <2>1, <2>2, <2>3, Batch
<1>6. QED  BY <1>2, <1>3, <1>4, <1>5, QueueSteps

(* Batches are RemoveInterval ticks apart and hold RemovePerInterval tiles *)
(* at most, whatever the searches between them add.                        *)
THEOREM BatchesArePaced == Spec => FramePacing
<1>1. Init => PacingInv
  BY VeinAssumption DEF Init, PacingInv
<1>2. TypeOK /\ PacingInv /\ [Next]_vars => PacingInv'
  BY PacingInvStep
<1>3. TypeOK /\ PacingInv /\ [Next]_vars =>
        [Len(REMOVE_LIST') < Len(REMOVE_LIST) =>
           /\ ticks >= RemoveInterval
           /\ Len(REMOVE_LIST) - Len(REMOVE_LIST') <= RemovePerInterval]_vars
  BY PacingStep
<1>4. QED  BY <1>1, <1>2, <1>3, TypeCorrect, PTL DEF Spec, FramePacing

(* A batch kills tiles of the queue, and they are no longer queued.        *)
LEMMA KillStep ==
  ASSUME TypeOK, NoDuplicates, Update, NEW p \in Cells, tile'[p] # tile[p]
  PROVE  p \in ToSet(REMOVE_LIST) /\ p \notin ToSet(REMOVE_LIST')
<1>1. Due /\ RemoveBatch
  BY DEF Update
<1>2. Drops
  BY <1>1 DEF RemoveBatch, Drops
<1>3. REMOVE_LIST \in Seq(Cells) /\ Len(REMOVE_LIST) \in Nat /\ BatchSize \in 0 .. Len(REMOVE_LIST)
      /\ DOMAIN REMOVE_LIST = 1 .. Len(REMOVE_LIST)
  BY Batch, LenProperties DEF TypeOK
<1> DEFINE batch == SubSeq(REMOVE_LIST, 1, BatchSize)
<1>4. Len(batch) = BatchSize /\ DOMAIN batch = 1 .. BatchSize
      /\ \A i \in 1 .. BatchSize : batch[i] = REMOVE_LIST[i]
  <2>1. \A i \in 1 .. BatchSize : REMOVE_LIST[i] \in Cells
    BY <1>3, ElementOfSeq
  <2>2. BatchSize \in Int /\ 1 \in Int
    BY <1>3
  <2>3. /\ batch \in Seq(Cells)
        /\ Len(batch) = IF 1 <= BatchSize THEN BatchSize - 1 + 1 ELSE 0
        /\ \A i \in 1 .. BatchSize - 1 + 1 : batch[i] = REMOVE_LIST[1 + i - 1]
    BY <2>1, <2>2, SubSeqProperties
  <2>4. QED  BY <1>3, <2>3, LenProperties
<1>5. p \in {KillIndex(q) : q \in ToSet(batch)}
  <2>1. \A targets : KillTiles(targets) => p \in targets
    BY DEF KillTiles
  <2>2. QED  BY <1>1, <2>1 DEF RemoveBatch
<1>6. PICK i \in 1 .. BatchSize : p = KillIndex(REMOVE_LIST[i])
  BY <1>4, <1>5 DEF ToSet
<1>7. REMOVE_LIST[i] \in Nat
  BY <1>3, ElementOfSeq, WorldSize DEF Cells
<1>8. p = REMOVE_LIST[i]
  <2>1. WORLD_WIDTH = W /\ W \in Nat /\ W > 0
    BY VeinAssumption DEF Update, TypeOK
  <2>2. QED  BY <1>6, <1>7, <2>1, DivMod DEF KillIndex
<1>9. p \in ToSet(REMOVE_LIST)
  BY <1>3, <1>8 DEF ToSet
<1>10. p \notin ToSet(REMOVE_LIST')
  <2>1. Len(REMOVE_LIST') = Len(REMOVE_LIST) - BatchSize
        /\ (\A j \in 1 .. Len(REMOVE_LIST') : REMOVE_LIST'[j] = REMOVE_LIST[BatchSize + j])
    BY <1>2, DropBatch
  <2>2. REMOVE_LIST' \in Seq(Cells)
    BY <1>2, <1>3, DropFirst DEF Drops
  <2>3. DOMAIN REMOVE_LIST' = 1 .. Len(REMOVE_LIST')
    BY <2>2, LenProperties
  <2>4. SUFFICES ASSUME NEW j \in 1 .. Len(REMOVE_LIST'), REMOVE_LIST'[j] = p
                 PROVE  FALSE
    BY <2>3 DEF ToSet
  <2>5. BatchSize + j \in 1 .. Len(REMOVE_LIST) /\ i \in 1 .. Len(REMOVE_LIST) /\ i # BatchSize + j
    BY <1>3, <2>1
  <2>6. REMOVE_LIST[BatchSize + j] = REMOVE_LIST[i]
    BY <1>8, <2>1, <2>4
  <2>7. QED  BY <2>5, <2>6 DEF NoDuplicates
<1>11. QED  BY <1>9, <1>10

(* Update kills queued tiles only, each once: for every size of world the  *)
(* coordinates it passes to KillTile name the tile that was queued.        *)
THEOREM OnlyQueuedTilesAreKilled == Spec => KillsQueued
<1>1. TypeOK /\ NoDuplicates /\ [Next]_vars =>
        [\A p \in Cells : edits' = edits /\ tile'[p] # tile[p] =>
            p \in ToSet(REMOVE_LIST) /\ p \notin ToSet(REMOVE_LIST')]_vars
  <2> SUFFICES ASSUME TypeOK, NoDuplicates, Next, NEW p \in Cells, edits' = edits, tile'[p] # tile[p]
               PROVE  p \in ToSet(REMOVE_LIST) /\ p \notin ToSet(REMOVE_LIST')
    OBVIOUS
  <2>1. edits \in Int
    BY VeinAssumption DEF TypeOK
  <2>2. CASE Update
    BY <2>2, KillStep
  <2>3. CASE \/ \E q \in EditCells, t \in TileTypes : EditTile(q, t)
             \/ \E layout \in Layouts : LoadWorld(layout)
    BY <2>1, <2>3 DEF EditTile, LoadWorld
  <2>4. CASE (\E q \in Cells : T_AddDamage(q)) \/ (\E pick \in Picks : SwitchItem(pick))
    BY <2>4 DEF T_AddDamage, SwitchItem, game
  <2>5. CASE MinePop \/ MineScan \/ MineScanned \/ MineReturn
    BY <2>5 DEF MinePop, MineScan, MineScanned, MineReturn, game
  <2>6. QED  BY <2>2, <2>3, <2>4, <2>5 DEF Next
<1>2. QED  BY <1>1, TypeCorrect, QueueHasNoDuplicates, PTL DEF Spec, KillsQueued

=============================================================================
