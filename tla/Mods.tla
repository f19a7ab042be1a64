-------------------------------- MODULE Mods --------------------------------
(***************************************************************************)
(* The mods in one process.  The loader, which is not in the repository,   *)
(* loads every mod of the lineup, has each Send, looks up and hooks what   *)
(* was registered, has each Receive; the game may call a hooked method as  *)
(* soon as it is hooked, so also before the mods have their handles.  It   *)
(* may unload a mod and load it again; the registry and the mod's static   *)
(* variables stay.                                                         *)
(***************************************************************************)
EXTENDS ModRegistry, ModTables, ModHooks

CONSTANTS
  Lineups,     \* the sets of mods that are enabled together
  Subjects,    \* for each method, what the game's own code makes before the mods' functions
  MaxReloads

Item ==
  [type : Int, headSlot : Int, bodySlot : Int, legSlot : Int, accessory : BOOLEAN, damage : Int,
   createTile : Int, createWall : Int, useTime : Int, useAnimation : Int]
Projectile == [type : Int, aiStyle : Int, friendly : BOOLEAN, minion : BOOLEAN, sentry : BOOLEAN]
Player == [maxTurrets : Int, maxTurretsOld : Int, maxMinions : Int, respawnTimer : Int]

(* What the game makes.  Of the items ForgottenItem sets, 4058 and 4722    *)
(* are weapons, and 4010 is food, which nobody overclocks.  The table of   *)
(* shimmer has an entry for every item.                                    *)
ByGame(method, x) ==
  /\ method[1] = "Item" => /\ x \in Item
                           /\ x.type \in {4058, 4722} => x.damage > 0
                           /\ x.type = 4010 => ~shouldOverclock(x)
  /\ method[1] = "Projectile" => x \in Projectile
  /\ method[1] = "Player" => x \in Player
  /\ method[1] = "ItemID.Sets" => {p[1] : p \in ShimmerPairs} \subseteq DOMAIN x.ShimmerTransformToItem

ASSUME ModsAssumption ==
  /\ Lineups \subseteq SUBSET DOMAIN Mod
  /\ MaxReloads \in Nat
  /\ \A m \in DOMAIN Mod : \A method \in Mod[m].hooks : \A x \in Subjects[method] : ByGame(method, x)

VARIABLES
  lineup,
  status,      \* of each mod: where in the loader's sequence
  inited,      \* of each mod: the static flag of init
  handles,     \* of each mod: the IDs its pointers were fetched for
  installed,   \* the hooked methods: the template and its FunctionArray
  last,        \* the last call of a hooked method
  crash,       \* the null pointer that was called: whose, and where
  reloads

vars == <<registry, lineup, status, inited, handles, installed, last, crash, reloads>>

NoCall == [method |-> <<>>, before |-> <<>>, after |-> <<>>, by |-> <<>>]
NoCrash == [mod |-> "none", at |-> "none"]

TypeOK ==
  /\ lineup \in Lineups
  /\ status \in [DOMAIN Mod -> {"out", "loaded", "sent", "resolved", "received"}]
  /\ inited \in [DOMAIN Mod -> BOOLEAN]
  /\ \A m \in DOMAIN Mod : handles[m] \subseteq API
  /\ \A d \in {FuncDescriptor[x] : x \in DOMAIN FuncDescriptor} : d.template = d.functions[1]
  /\ \A method \in DOMAIN installed : OldFun(method) \in API
  /\ crash = NoCrash \/ crash.mod \in lineup
  /\ reloads \in 0 .. MaxReloads

Init ==
  /\ Empty
  /\ lineup \in Lineups
  /\ status = [m \in DOMAIN Mod |-> "out"]
  /\ inited = [m \in DOMAIN Mod |-> FALSE]
  /\ handles = [m \in DOMAIN Mod |-> {}]
  /\ installed = <<>>
  /\ last = NoCall
  /\ crash = NoCrash
  /\ reloads = 0

----------------------------------------------------------------------------
(* A step of the loader with mod m.                                        *)
Moves(m, from, to) ==
  /\ crash = NoCrash
  /\ m \in lineup
  /\ status[m] = from
  /\ status' = [status EXCEPT ![m] = to]
  /\ last' = NoCall
  /\ UNCHANGED <<lineup, installed>>

Load(m) ==
  /\ Moves(m, "out", "loaded")
  /\ UNCHANGED <<registry, inited, handles, crash, reloads>>

Wanted(m) == {p[2] : p \in Mod[m].looksUp} \union {OldFun(method) : method \in Mod[m].hooks}

(* The lookups.  A parser that Load did not fetch is a null function.      *)
Fetch(m, at) ==
  IF {p[1] : p \in Mod[m].looksUp} \subseteq Mod[m].parsers
  THEN handles' = [handles EXCEPT ![m] = getAPI(Wanted(m))] /\ UNCHANGED crash
  ELSE crash' = [mod |-> m, at |-> at] /\ UNCHANGED handles

Send(m) ==
  /\ Moves(m, "loaded", "sent")
  /\ IF Mod[m].once /\ inited[m]
     THEN Fetch(m, "Send") /\ UNCHANGED <<registry, inited>>
     ELSE /\ Register(Mod[m].registers, Mod[m].hooks, m)
          /\ inited' = [inited EXCEPT ![m] = TRUE]
          /\ UNCHANGED <<handles, crash>>
  /\ UNCHANGED reloads

(* The loader looks up and hooks once every mod of the lineup has sent.    *)
Resolve ==
  /\ crash = NoCrash
  /\ \A m \in lineup : status[m] \notin {"out", "loaded"}
  /\ \E m \in lineup : status[m] = "sent"
  /\ LookUp
  /\ installed' = FuncDescriptor
  /\ status' = [m \in DOMAIN Mod |-> IF status[m] = "sent" THEN "resolved" ELSE status[m]]
  /\ last' = NoCall
  /\ UNCHANGED <<lineup, inited, handles, crash, reloads>>

(* Send has run before, so a mod with the flag finds it set.               *)
Receive(m) ==
  /\ Moves(m, "resolved", "received")
  /\ Fetch(m, "Receive")
  /\ UNCHANGED <<registry, inited, reloads>>

(* UnLoad of every mod returns 0 and does nothing else.                    *)
UnLoad(m) ==
  /\ reloads < MaxReloads
  /\ Moves(m, "received", "out")
  /\ reloads' = reloads + 1
  /\ UNCHANGED <<registry, inited, handles, crash>>

----------------------------------------------------------------------------
(* What m's function does to x.  VeinMiner's functions have a module of    *)
(* their own.                                                              *)
Effect(m, method, x) ==
  CASE m = "Accessorize" -> AccessorizeSetDefaults(x)
    [] m = "Overclock" -> OverclockSetDefaults(x)
    [] m = "Seeker" -> SeekerSetDefaults(x)
    [] m = "InfiniteLegion" -> InfiniteLegionResetEffects(x)
    [] m = "InstantRespawn" -> InstantRespawnUpdateDead(x)
    [] m = "VeinMiner" -> x
    [] m = "ForgottenItem" ->
         CASE method[1] = "Item" -> ForgottenItemSetDefaults(x)
           [] method[1] = "ItemID.Sets" -> ItemIDcctor(x)
           [] method[1] = "Recipe" -> SetupRecipeGroups(x)
           [] method[1] = "PrefixLegacy.ItemSets" -> PrefixLegacycctor(x)
           [] method[1] = "ItemDropDatabase" -> ItemDropDatabasePopulate(x)

Effects(mods, method, x) == FoldLeft(LAMBDA y, m : Effect(m, method, y), x, mods)

Ready(m) == Wanted(m) \subseteq handles[m]

(* The trampoline of the template, whose mod's function comes first: the   *)
(* game's function by the pointer that mod fetched, then the mods', in the *)
(* order they were registered.  The first null pointer ends the process.   *)
Call(method, x) ==
  LET functions == installed[method].functions
      null == {i \in DOMAIN functions : ~Ready(functions[i])}
  IN  /\ crash = NoCrash
      /\ \/ /\ null = {}
            /\ last' = [method |-> method, before |-> x, by |-> functions,
                        after |-> Effects(functions, method, x)]
            /\ UNCHANGED crash
         \/ /\ \E i \in null : (\A j \in null : i <= j) /\ crash' = [mod |-> functions[i], at |-> "call"]
            /\ last' = NoCall
      /\ UNCHANGED <<registry, lineup, status, inited, handles, installed, reloads>>

Next ==
  \/ \E m \in lineup : Load(m) \/ Send(m) \/ Receive(m) \/ UnLoad(m)
  \/ Resolve
  \/ \E method \in DOMAIN installed : \E x \in Subjects[method] : Call(method, x)

Spec == Init /\ [][Next]_vars

----------------------------------------------------------------------------
(* The process ends on a null pointer in two ways only: in VeinMiner's     *)
(* Receive, whose parser was never fetched (efmod.cpp 126), and in a call  *)
(* that comes before the mod it reaches has received for the first time.   *)
(* No mod that has received calls a handle it did not register.            *)
NullCallsOnlyEarly ==
  crash # NoCrash =>
    \/ crash = [mod |-> "VeinMiner", at |-> "Receive"]
    \/ crash.at = "call" /\ handles[crash.mod] = {}

Hooking(method) == {m \in lineup : method \in Mod[m].hooks}

(* The items whose speed ForgottenItem sets while Overclock would set it.  *)
Contested == {2881, 3850, 3853}

Speedless(x) == [x EXCEPT !.useTime = 0, !.useAnimation = 0]

Agree(method, x, y) ==
  \/ x = y
  \/ method[1] = "Item" /\ x.type \in Contested /\ Speedless(x) = Speedless(y)

(* Whichever mod's template hooks a method, in whatever order the mods     *)
(* were registered and however often one was loaded again: every mod of    *)
(* the lineup that hooks the method acts, and what comes out is the same   *)
(* as in any other order, but for the speed of the contested items.        *)
EveryHookActs ==
  last # NoCall =>
    \A order \in SetToSeqs(Hooking(last.method)) :
      Agree(last.method, last.after, Effects(order, last.method, last.before))

(* A contested item has Overclock's speed exactly if Overclock's function  *)
(* runs after ForgottenItem's: nothing but the order decides.              *)
LastWins ==
  last # NoCall /\ last.method[1] = "Item" =>
    ({"ForgottenItem", "Overclock"} \subseteq Range(last.by) /\ last.before.type \in Contested =>
       (last.after.useTime = 1 <=>
          \E i \in DOMAIN last.by : /\ last.by[i] = "Overclock"
                                    /\ \A j \in i .. Len(last.by) : last.by[j] # "ForgottenItem"))

(* Whatever the mod makes shimmer turn an item into, shimmer turns back.   *)
ShimmerSymmetric ==
  last # NoCall /\ last.method[1] = "ItemID.Sets" =>
    LET shimmer == last.after.ShimmerTransformToItem
    IN  \A i \in DOMAIN shimmer :
          shimmer[i] # last.before.ShimmerTransformToItem[i] => shimmer[shimmer[i]] = i

(* README.md 48, 52 and 56: each luminous hammer, axe and chainsaw is      *)
(* made of 6 of its fragment and 5 bars at the manipulator.                *)
ReadmeTools ==
  last # NoCall /\ last.method[1] = "Recipe" =>
    \A i \in DOMAIN LuminousTools : \A tool \in Range(LuminousTools[i][2]) :
      [result |-> Of(tool, 1), materials |-> {Of(LuminousTools[i][1], 6), Of(3467, 5)}, tile |-> 412]
        \in last.after
=============================================================================
