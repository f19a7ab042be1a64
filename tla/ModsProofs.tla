----------------------------- MODULE ModsProofs -----------------------------
(***************************************************************************)
(* Proofs about Mods, for every set of lineups, whatever the game makes    *)
(* before the mods' functions and however often mods are loaded again.     *)
(***************************************************************************)
EXTENDS Mods, SubsequenceProofs, SequenceTheorems, TLAPS

----------------------------------------------------------------------------
(* The tables.                                                             *)

(* The seven mods.                                                         *)
LEMMA Names ==
  DOMAIN Mod = {"Accessorize", "Overclock", "Seeker", "InfiniteLegion",
                "InstantRespawn", "ForgottenItem", "VeinMiner"}
BY DEF Mod

(* What a mod looks up it registers, in its own table.                     *)
Registered(t) == \A p \in t.looksUp : p[2] \in t.registers

(* What a mod looks up it looks up with a parser that Load fetches.        *)
Parsed(t) == \A p \in t.looksUp : p[1] \in t.parsers

(* The tables of the five small mods: every lookup is registered and has   *)
(* its parser.                                                             *)
LEMMA ShortTables ==
  \A t \in {Accessorize, Overclock, Seeker, InfiniteLegion, InstantRespawn} :
    Registered(t) /\ Parsed(t)
<1>1. Registered(Accessorize) /\ Parsed(Accessorize)
  BY DEF Registered, Parsed, Accessorize, By, Field, Api
<1>2. Registered(Overclock) /\ Parsed(Overclock)
  BY DEF Registered, Parsed, Overclock, By, Field, Api
<1>3. Registered(Seeker) /\ Parsed(Seeker)
  BY DEF Registered, Parsed, Seeker, By, Field, Api
<1>4. Registered(InfiniteLegion) /\ Parsed(InfiniteLegion)
  BY DEF Registered, Parsed, InfiniteLegion, By, Field, Api
<1>5. Registered(InstantRespawn) /\ Parsed(InstantRespawn)
  BY DEF Registered, Parsed, InstantRespawn, By, Field, Api
<1>6. QED  BY <1>1, <1>2, <1>3, <1>4, <1>5

(* Each part of ForgottenItem registers what it looks up.                  *)
LEMMA PartTables ==
  \A part \in {ItemIDInit, RecipeInit, ItemInit, PrefixLegacyInit, ItemDropDatabaseInit} :
    /\ Registered(part)
    /\ \A p \in part.looksUp :
         p[1] \in {"Field<Int>", "Field<Bool>", "Field<Other>", "Field<Float>",
                   "Method<Int>", "Method<Void>", "Method<Other>"}
<1> DEFINE Good(part) ==
      /\ Registered(part)
      /\ \A p \in part.looksUp :
           p[1] \in {"Field<Int>", "Field<Bool>", "Field<Other>", "Field<Float>",
                     "Method<Int>", "Method<Void>", "Method<Other>"}
<1>1. Good(ItemIDInit)
  BY DEF Registered, ItemIDInit, By, Field, Api
<1>2. Good(RecipeInit)
  BY DEF Registered, RecipeInit, By, Field, Method, Api
<1>3. Good(ItemInit)
  BY DEF Registered, ItemInit, By, Field, Method, Api
<1>4. Good(PrefixLegacyInit)
  BY DEF Registered, PrefixLegacyInit, By, Field, Api
<1>5. Good(ItemDropDatabaseInit)
  BY DEF Registered, ItemDropDatabaseInit, By, Method, Api
<1>6. QED  BY <1>1, <1>2, <1>3, <1>4, <1>5

(* ForgottenItem's, put together of its parts.                             *)
LEMMA ForgottenItemTable == Registered(ForgottenItem) /\ Parsed(ForgottenItem)
<1> DEFINE parts == {ItemIDInit, RecipeInit, ItemInit, PrefixLegacyInit, ItemDropDatabaseInit}
<1>1. /\ ForgottenItem.looksUp = UNION {part.looksUp : part \in parts}
      /\ ForgottenItem.registers = UNION {part.registers : part \in parts}
      /\ ForgottenItem.parsers = {"Field<Int>", "Field<Bool>", "Field<Other>", "Field<Float>",
                                  "Method<Int>", "Method<Void>", "Method<Other>"}
  BY DEF ForgottenItem
<1> HIDE DEF parts
<1>2. \A part \in parts : Registered(part) /\ \A p \in part.looksUp : p[1] \in ForgottenItem.parsers
  BY <1>1, PartTables DEF parts
<1>3. QED  BY <1>1, <1>2 DEF Registered, Parsed

(* VeinMiner's: every lookup is registered, but one parser is never        *)
(* fetched.                                                                *)
LEMMA VeinMinerTable ==
  /\ Registered(VeinMiner)
  /\ <<"Field<UShort>", <<"Tile", "type", "Field">>>> \in VeinMiner.looksUp
  /\ "Field<UShort>" \notin VeinMiner.parsers
<1>1. Registered(VeinMiner)
  BY DEF Registered, VeinMiner, By, Field, Method, Api
<1>2. /\ <<"Field<UShort>", <<"Tile", "type", "Field">>>> \in VeinMiner.looksUp
      /\ "Field<UShort>" \notin VeinMiner.parsers
  BY DEF VeinMiner, By, Field, Api
<1>3. QED  BY <1>1, <1>2

(* All seven: each registers what it looks up, and each but VeinMiner has  *)
(* the parsers for it.                                                     *)
LEMMA Tables ==
  /\ \A m \in DOMAIN Mod : Wanted(m) \subseteq Mod[m].registers \union {OldFun(method) : method \in Mod[m].hooks}
  /\ \A m \in DOMAIN Mod \ {"VeinMiner"} : {p[1] : p \in Mod[m].looksUp} \subseteq Mod[m].parsers
  /\ ~({p[1] : p \in Mod["VeinMiner"].looksUp} \subseteq Mod["VeinMiner"].parsers)
<1>1. /\ Mod["Accessorize"] = Accessorize /\ Mod["Overclock"] = Overclock /\ Mod["Seeker"] = Seeker
      /\ Mod["InfiniteLegion"] = InfiniteLegion /\ Mod["InstantRespawn"] = InstantRespawn
      /\ Mod["ForgottenItem"] = ForgottenItem /\ Mod["VeinMiner"] = VeinMiner
  BY DEF Mod
<1>2. \A m \in DOMAIN Mod : Registered(Mod[m])
  BY <1>1, Names, ShortTables, ForgottenItemTable, VeinMinerTable
<1>3. \A m \in DOMAIN Mod \ {"VeinMiner"} : Parsed(Mod[m])
  BY <1>1, Names, ShortTables, ForgottenItemTable
<1>4. ~({p[1] : p \in Mod["VeinMiner"].looksUp} \subseteq Mod["VeinMiner"].parsers)
  <2>1. <<"Field<UShort>", <<"Tile", "type", "Field">>>>[1] \in {p[1] : p \in VeinMiner.looksUp}
    BY VeinMinerTable
  <2>2. QED  BY <1>1, <2>1, VeinMinerTable
<1>5. QED  BY <1>2, <1>3, <1>4 DEF Wanted, Registered, Parsed

----------------------------------------------------------------------------
(* The invariant.                                                          *)

Descriptors == [template : lineup, functions : Seq(lineup)]

(* A descriptor's first function is that of its template.                  *)
Led(d) == d \in Descriptors /\ Len(d.functions) > 0 /\ d.template = d.functions[1]

Types ==
  /\ TypeOK
  /\ handles \in [DOMAIN Mod -> SUBSET API]
  /\ \A x \in DOMAIN FuncDescriptor : Led(FuncDescriptor[x])
  /\ \A method \in DOMAIN installed : Led(installed[method])

(* What m wants is in the registry, to be looked up.                       *)
Requested(m) ==
  Mod[m].registers \subseteq ApiDescriptor /\ Mod[m].hooks \subseteq DOMAIN FuncDescriptor

(* Once its flag is set a mod is in the registry for good, and from the    *)
(* next Resolve on what it wants has been looked up.                       *)
Provided ==
  \A m \in DOMAIN Mod :
    /\ status[m] \in {"sent", "resolved", "received"} => inited[m]
    /\ inited[m] => Requested(m)
    /\ inited[m] /\ status[m] # "sent" => Wanted(m) \subseteq API

(* A mod fetches all of its handles or none.                               *)
AllOrNone == \A m \in DOMAIN Mod : handles[m] = {} \/ Ready(m)

(* VeinMiner never gets past Receive, so it never sends twice.             *)
VeinMinerOnce == crash = NoCrash /\ inited["VeinMiner"] => status["VeinMiner"] \in {"sent", "resolved"}

IInv == Types /\ Provided /\ AllOrNone /\ VeinMinerOnce /\ NullCallsOnlyEarly

(* The invariant holds before the loader starts.                           *)
LEMMA InitInv == Init => IInv
<1> SUFFICES ASSUME Init PROVE IInv
  OBVIOUS
<1>1. DOMAIN installed = {} /\ DOMAIN FuncDescriptor = {} /\ API = {}
  BY DEF Init, Empty
<1>2. Types
  BY <1>1, ModsAssumption DEF Init, Types, TypeOK
<1>3. Provided /\ AllOrNone
  BY <1>1 DEF Init, Provided, AllOrNone
<1>4. VeinMinerOnce /\ NullCallsOnlyEarly
  BY Names DEF Init, VeinMinerOnce, NullCallsOnlyEarly
<1>5. QED  BY <1>2, <1>3, <1>4 DEF IInv

(* Only the seven mods are ever in a lineup.                               *)
LEMMA LineupMods ==
  ASSUME Types
  PROVE  lineup \subseteq DOMAIN Mod
BY ModsAssumption DEF Types, TypeOK

----------------------------------------------------------------------------
(* The registry.                                                           *)

(* A descriptor stays led by its template when a function is added.        *)
LEMMA MergedLed ==
  ASSUME NEW d, Led(d), NEW m \in lineup
  PROVE  Led(Merged(d, m))
<1>1. d.functions \in Seq(lineup) /\ Len(d.functions) > 0
  BY DEF Led, Descriptors
<1>2. /\ Append(d.functions, m) \in Seq(lineup)
      /\ Len(Append(d.functions, m)) = Len(d.functions) + 1
      /\ \A i \in 1 .. Len(d.functions) : Append(d.functions, m)[i] = d.functions[i]
  BY <1>1, AppendProperties
<1>3. Len(d.functions) \in Nat
  BY <1>1, LenProperties
<1>4. Append(d.functions, m)[1] = d.functions[1]
  BY <1>1, <1>2, <1>3
<1>5. Merged(d, m) \in Descriptors /\ Merged(d, m).template = d.template
      /\ Merged(d, m).functions = Append(d.functions, m)
  BY <1>2 DEF Merged, Led, Descriptors
<1>6. QED  BY <1>1, <1>2, <1>3, <1>4, <1>5 DEF Led

(* The first descriptor for a method is led by its template.               *)
LEMMA FirstLed ==
  ASSUME NEW m \in lineup
  PROVE  Led([template |-> m, functions |-> <<m>>])
BY DEF Led, Descriptors

(* Registering loses nothing, adds what is asked for, and keeps every      *)
(* descriptor led.                                                         *)
LEMMA Registering ==
  ASSUME Types, NEW ids, NEW methods, NEW m \in lineup, Register(ids, methods, m), lineup' = lineup
  PROVE  /\ API' = API
         /\ ApiDescriptor \union ids \subseteq ApiDescriptor'
         /\ DOMAIN FuncDescriptor \union methods \subseteq DOMAIN FuncDescriptor'
         /\ \A x \in DOMAIN FuncDescriptor' : Led(FuncDescriptor'[x])
<1>1. /\ API' = API
      /\ ApiDescriptor' = ApiDescriptor \union ids
      /\ DOMAIN FuncDescriptor' = DOMAIN FuncDescriptor \union methods
  BY DEF Register
<1>2. ASSUME NEW x \in DOMAIN FuncDescriptor'
      PROVE  Led(FuncDescriptor'[x])
  <2>1. x \in DOMAIN FuncDescriptor => Led(FuncDescriptor[x])
    BY DEF Types
  <2>2. CASE x \notin methods
    <3>1. x \in DOMAIN FuncDescriptor /\ FuncDescriptor'[x] = FuncDescriptor[x]
      BY <1>1, <1>2, <2>2 DEF Register
    <3>2. QED  BY <2>1, <3>1
  <2>3. CASE x \in methods /\ x \in DOMAIN FuncDescriptor
    <3>1. FuncDescriptor'[x] = Merged(FuncDescriptor[x], m)
      BY <1>1, <2>3 DEF Register
    <3>2. QED  BY <2>1, <2>3, <3>1, MergedLed
  <2>4. CASE x \in methods /\ x \notin DOMAIN FuncDescriptor
    <3>1. FuncDescriptor'[x] = [template |-> m, functions |-> <<m>>]
      BY <1>1, <2>4 DEF Register
    <3>2. QED  BY <3>1, FirstLed
  <2>5. QED  BY <1>1, <1>2, <2>2, <2>3, <2>4
<1>3. QED  BY <1>1, <1>2

(* What is requested has been looked up after LookUp.                      *)
LEMMA LookingUp ==
  ASSUME LookUp, NEW m \in DOMAIN Mod, Requested(m)
  PROVE  Wanted(m) \subseteq API'
<1>1. Wanted(m) \subseteq Mod[m].registers \union {OldFun(method) : method \in Mod[m].hooks}
  BY Tables
<1>2. QED  BY <1>1 DEF LookUp, Requested

(* What Fetch leaves behind, where what m wants has been looked up.        *)
LEMMA Fetching ==
  ASSUME Types, AllOrNone, NEW m \in lineup, NEW at, Fetch(m, at), UNCHANGED API,
         crash = NoCrash, Wanted(m) \subseteq API
  PROVE  /\ handles' \in [DOMAIN Mod -> SUBSET API]
         /\ \A n \in DOMAIN Mod : handles'[n] = {} \/ Wanted(n) \subseteq handles'[n]
         /\ m # "VeinMiner" => crash' = NoCrash
         /\ m = "VeinMiner" => crash' = [mod |-> m, at |-> at]
<1>1. m \in DOMAIN Mod
  BY LineupMods
<1>2. CASE m # "VeinMiner"
  <2>1. handles' = [handles EXCEPT ![m] = getAPI(Wanted(m))] /\ crash' = crash
    BY <1>1, <1>2, Tables DEF Fetch
  <2>2. getAPI(Wanted(m)) = Wanted(m)
    BY DEF getAPI
  <2>3. QED  BY <1>1, <1>2, <2>1, <2>2 DEF Types, AllOrNone, Ready
<1>3. CASE m = "VeinMiner"
  <2>1. crash' = [mod |-> m, at |-> at] /\ handles' = handles
    BY <1>3, Tables DEF Fetch
  <2>2. QED  BY <1>3, <2>1 DEF Types, AllOrNone, Ready
<1>4. QED  BY <1>2, <1>3

----------------------------------------------------------------------------
(* The steps.                                                              *)

(* A step of the loader with one mod.                                      *)
LEMMA Moving ==
  ASSUME Types, NEW m \in lineup, NEW from, NEW to \in {"out", "loaded", "sent", "resolved", "received"},
         Moves(m, from, to)
  PROVE  /\ crash = NoCrash /\ status[m] = from /\ m \in DOMAIN Mod
         /\ status' \in [DOMAIN Mod -> {"out", "loaded", "sent", "resolved", "received"}]
         /\ status'[m] = to
         /\ \A n \in DOMAIN Mod \ {m} : status'[n] = status[n]
         /\ lineup' = lineup /\ installed' = installed
<1>1. m \in DOMAIN Mod
  BY LineupMods
<1>2. QED  BY <1>1 DEF Moves, Types, TypeOK

(* Each step keeps the invariant: loading a mod,                           *)
LEMMA LoadInv ==
  ASSUME IInv, NEW m \in lineup, Load(m)
  PROVE  IInv'
<1>1. Moves(m, "out", "loaded") /\ UNCHANGED <<registry, inited, handles, crash, reloads>>
  BY DEF Load
<1>2. /\ crash = NoCrash /\ status[m] = "out" /\ m \in DOMAIN Mod
      /\ status' \in [DOMAIN Mod -> {"out", "loaded", "sent", "resolved", "received"}]
      /\ status'[m] = "loaded"
      /\ \A n \in DOMAIN Mod \ {m} : status'[n] = status[n]
      /\ lineup' = lineup /\ installed' = installed
  BY <1>1, Moving DEF IInv
<1>3. Types'
  BY <1>1, <1>2 DEF IInv, Types, TypeOK, registry, Led, Descriptors
<1>4. Provided'
  BY <1>1, <1>2 DEF IInv, Provided, Requested, registry
<1>5. AllOrNone'
  BY <1>1 DEF IInv, AllOrNone, Ready
<1>6. VeinMinerOnce'
  BY <1>1, <1>2, Names DEF IInv, VeinMinerOnce
<1>7. NullCallsOnlyEarly'
  BY <1>1, <1>2 DEF IInv, NullCallsOnlyEarly
<1>8. QED  BY <1>3, <1>4, <1>5, <1>6, <1>7 DEF IInv

(* A mod that sends for the first time, or has no flag, registers.         *)
LEMMA SendRegisters ==
  ASSUME IInv, NEW m \in lineup, Send(m), ~(Mod[m].once /\ inited[m])
  PROVE  IInv'
<1>1. /\ Moves(m, "loaded", "sent")
      /\ Register(Mod[m].registers, Mod[m].hooks, m)
      /\ inited' = [inited EXCEPT ![m] = TRUE]
      /\ UNCHANGED <<handles, crash, reloads>>
  BY DEF Send
<1>2. /\ crash = NoCrash /\ m \in DOMAIN Mod
      /\ status' \in [DOMAIN Mod -> {"out", "loaded", "sent", "resolved", "received"}]
      /\ status'[m] = "sent"
      /\ \A n \in DOMAIN Mod \ {m} : status'[n] = status[n]
      /\ lineup' = lineup /\ installed' = installed
  BY <1>1, Moving DEF IInv
<1>3. /\ API' = API
      /\ ApiDescriptor \union Mod[m].registers \subseteq ApiDescriptor'
      /\ DOMAIN FuncDescriptor \union Mod[m].hooks \subseteq DOMAIN FuncDescriptor'
      /\ \A x \in DOMAIN FuncDescriptor' : Led(FuncDescriptor'[x])
  BY <1>1, <1>2, Registering DEF IInv
<1>4. /\ inited' \in [DOMAIN Mod -> BOOLEAN] /\ inited'[m]
      /\ \A n \in DOMAIN Mod \ {m} : inited'[n] = inited[n]
  BY <1>1, <1>2 DEF IInv, Types, TypeOK
<1>5. Types'
  BY <1>1, <1>2, <1>3, <1>4 DEF IInv, Types, TypeOK, Led, Descriptors
<1>6. Provided'
  <2>1. Requested(m)'
    BY <1>3 DEF Requested
  <2>2. \A n \in DOMAIN Mod : Requested(n) => Requested(n)'
    BY <1>3 DEF Requested
  <2>3. QED  BY <1>2, <1>3, <1>4, <2>1, <2>2 DEF IInv, Provided
<1>7. AllOrNone'
  BY <1>1 DEF IInv, AllOrNone, Ready
<1>8. VeinMinerOnce'
  BY <1>2, <1>4, Names DEF IInv, VeinMinerOnce
<1>9. NullCallsOnlyEarly'
  BY <1>1, <1>2 DEF NullCallsOnlyEarly
<1>10. QED  BY <1>5, <1>6, <1>7, <1>8, <1>9 DEF IInv

(* A mod whose flag is set already looks up in Send.  It is not VeinMiner, *)
(* and what it wants has been looked up before it was unloaded.            *)
LEMMA SendFetches ==
  ASSUME IInv, NEW m \in lineup, Send(m), Mod[m].once, inited[m]
  PROVE  IInv'
<1>1. Moves(m, "loaded", "sent") /\ Fetch(m, "Send") /\ UNCHANGED <<registry, inited, reloads>>
  BY DEF Send
<1>2. /\ crash = NoCrash /\ status[m] = "loaded" /\ m \in DOMAIN Mod
      /\ status' \in [DOMAIN Mod -> {"out", "loaded", "sent", "resolved", "received"}]
      /\ status'[m] = "sent"
      /\ \A n \in DOMAIN Mod \ {m} : status'[n] = status[n]
      /\ lineup' = lineup /\ installed' = installed
  BY <1>1, Moving DEF IInv
<1>3. m # "VeinMiner"
  BY <1>2 DEF IInv, VeinMinerOnce
<1>4. API' = API /\ Wanted(m) \subseteq API
  BY <1>1, <1>2 DEF IInv, Provided, registry
<1>5. /\ handles' \in [DOMAIN Mod -> SUBSET API]
      /\ \A n \in DOMAIN Mod : handles'[n] = {} \/ Wanted(n) \subseteq handles'[n]
      /\ crash' = NoCrash
  BY <1>1, <1>2, <1>3, <1>4, Fetching DEF IInv
<1>6. Types'
  BY <1>1, <1>2, <1>5 DEF IInv, Types, TypeOK, registry, Led, Descriptors
<1>7. Provided'
  BY <1>1, <1>2 DEF IInv, Provided, Requested, registry
<1>8. AllOrNone'
  BY <1>5 DEF AllOrNone, Ready
<1>9. VeinMinerOnce' /\ NullCallsOnlyEarly'
  BY <1>1, <1>2, <1>3, <1>5, Names DEF IInv, VeinMinerOnce, NullCallsOnlyEarly
<1>10. QED  BY <1>6, <1>7, <1>8, <1>9 DEF IInv

(* a Receive, which fetches what was looked up or stops at a null parser,  *)
LEMMA ReceiveInv ==
  ASSUME IInv, NEW m \in lineup, Receive(m)
  PROVE  IInv'
<1>1. Moves(m, "resolved", "received") /\ Fetch(m, "Receive") /\ UNCHANGED <<registry, inited, reloads>>
  BY DEF Receive
<1>2. /\ crash = NoCrash /\ status[m] = "resolved" /\ m \in DOMAIN Mod
      /\ status' \in [DOMAIN Mod -> {"out", "loaded", "sent", "resolved", "received"}]
      /\ status'[m] = "received"
      /\ \A n \in DOMAIN Mod \ {m} : status'[n] = status[n]
      /\ lineup' = lineup /\ installed' = installed
  BY <1>1, Moving DEF IInv
<1>3. API' = API /\ Wanted(m) \subseteq API
  BY <1>1, <1>2 DEF IInv, Provided, registry
<1>4. /\ handles' \in [DOMAIN Mod -> SUBSET API]
      /\ \A n \in DOMAIN Mod : handles'[n] = {} \/ Wanted(n) \subseteq handles'[n]
      /\ m # "VeinMiner" => crash' = NoCrash
      /\ m = "VeinMiner" => crash' = [mod |-> m, at |-> "Receive"]
  BY <1>1, <1>2, <1>3, Fetching DEF IInv
<1>5. Types'
  BY <1>1, <1>2, <1>4 DEF IInv, Types, TypeOK, registry, Led, Descriptors
<1>6. Provided'
  BY <1>1, <1>2 DEF IInv, Provided, Requested, registry
<1>7. AllOrNone'
  BY <1>4 DEF AllOrNone, Ready
<1>8. VeinMinerOnce'
  <2>1. CASE m = "VeinMiner"
    <3>1. crash'.mod = "VeinMiner" /\ NoCrash.mod = "none"
      BY <1>4, <2>1 DEF NoCrash
    <3>2. QED  BY <3>1 DEF VeinMinerOnce
  <2>2. CASE m # "VeinMiner"
    BY <1>1, <1>2, <2>2, Names DEF IInv, VeinMinerOnce
  <2>3. QED  BY <2>1, <2>2
<1>9. NullCallsOnlyEarly'
  BY <1>4 DEF NullCallsOnlyEarly
<1>10. QED  BY <1>5, <1>6, <1>7, <1>8, <1>9 DEF IInv

(* an unload, after which the registry and the flags stay,                 *)
LEMMA UnLoadInv ==
  ASSUME IInv, NEW m \in lineup, UnLoad(m)
  PROVE  IInv'
<1>1. /\ Moves(m, "received", "out")
      /\ reloads < MaxReloads /\ reloads' = reloads + 1
      /\ UNCHANGED <<registry, inited, handles, crash>>
  BY DEF UnLoad
<1>2. /\ crash = NoCrash /\ status[m] = "received" /\ m \in DOMAIN Mod
      /\ status' \in [DOMAIN Mod -> {"out", "loaded", "sent", "resolved", "received"}]
      /\ status'[m] = "out"
      /\ \A n \in DOMAIN Mod \ {m} : status'[n] = status[n]
      /\ lineup' = lineup /\ installed' = installed
  BY <1>1, Moving DEF IInv
<1>3. reloads' \in 0 .. MaxReloads
  BY <1>1, ModsAssumption DEF IInv, Types, TypeOK
<1>4. Types'
  BY <1>1, <1>2, <1>3 DEF IInv, Types, TypeOK, registry, Led, Descriptors
<1>5. Provided'
  BY <1>1, <1>2 DEF IInv, Provided, Requested, registry
<1>6. AllOrNone'
  BY <1>1 DEF IInv, AllOrNone, Ready
<1>7. VeinMinerOnce'
  <2>1. inited[m]
    BY <1>2 DEF IInv, Provided
  <2>2. m # "VeinMiner"
    BY <1>2, <2>1 DEF IInv, VeinMinerOnce
  <2>3. QED  BY <1>1, <1>2, <2>2, Names DEF IInv, VeinMinerOnce
<1>8. NullCallsOnlyEarly'
  BY <1>1, <1>2 DEF NullCallsOnlyEarly
<1>9. QED  BY <1>4, <1>5, <1>6, <1>7, <1>8 DEF IInv

(* the loader looking up and hooking,                                      *)
LEMMA ResolveInv ==
  ASSUME IInv, Resolve
  PROVE  IInv'
<1>1. /\ crash = NoCrash /\ LookUp /\ installed' = FuncDescriptor
      /\ status' = [m \in DOMAIN Mod |-> IF status[m] = "sent" THEN "resolved" ELSE status[m]]
      /\ UNCHANGED <<lineup, inited, handles, crash, reloads>>
  BY DEF Resolve
<1>2. /\ ApiDescriptor' = ApiDescriptor /\ FuncDescriptor' = FuncDescriptor
      /\ API \subseteq API'
      /\ \A method \in DOMAIN FuncDescriptor : OldFun(method) \in API'
  BY <1>1 DEF LookUp
<1>3. Types'
  BY <1>1, <1>2 DEF IInv, Types, TypeOK, Led, Descriptors
<1>4. Provided'
  <2>1. \A m \in DOMAIN Mod : inited[m] => Requested(m)
    BY DEF IInv, Provided
  <2>2. \A m \in DOMAIN Mod : inited[m] => Wanted(m) \subseteq API'
    BY <1>1, <2>1, LookingUp
  <2>3. \A m \in DOMAIN Mod : status'[m] \in {"sent", "resolved", "received"} => inited[m]
    BY <1>1 DEF IInv, Provided
  <2>4. QED  BY <1>1, <1>2, <2>1, <2>2, <2>3 DEF Provided, Requested
<1>5. AllOrNone'
  BY <1>1 DEF IInv, AllOrNone, Ready
<1>6. VeinMinerOnce'
  BY <1>1, Names DEF IInv, VeinMinerOnce
<1>7. NullCallsOnlyEarly'
  BY <1>1 DEF NullCallsOnlyEarly
<1>8. QED  BY <1>3, <1>4, <1>5, <1>6, <1>7 DEF IInv

(* a call by the game, which stops at a mod that has no handles yet,       *)
LEMMA CallInv ==
  ASSUME IInv, NEW method \in DOMAIN installed, NEW x, Call(method, x)
  PROVE  IInv'
<1> DEFINE functions == installed[method].functions
<1>1. crash = NoCrash /\ UNCHANGED <<registry, lineup, status, inited, handles, installed, reloads>>
  BY DEF Call
<1>2. \/ crash' = NoCrash
      \/ \E i \in DOMAIN functions : ~Ready(functions[i]) /\ crash' = [mod |-> functions[i], at |-> "call"]
  BY <1>1 DEF Call
<1>3. \A i \in DOMAIN functions : functions[i] \in lineup
  <2>1. functions \in Seq(lineup)
    BY DEF IInv, Types, Led, Descriptors
  <2>2. QED  BY <2>1, ElementOfSeq, LenProperties
<1>4. crash' = NoCrash \/ crash'.mod \in lineup
  BY <1>2, <1>3
<1>5. Types'
  BY <1>1, <1>4 DEF IInv, Types, TypeOK, registry, Led, Descriptors
<1>6. Provided' /\ AllOrNone'
  BY <1>1 DEF IInv, Provided, Requested, AllOrNone, Ready, registry
<1>7. VeinMinerOnce'
  BY <1>1 DEF IInv, VeinMinerOnce
<1>8. NullCallsOnlyEarly'
  <2>1. \A i \in DOMAIN functions : ~Ready(functions[i]) => handles[functions[i]] = {}
    BY <1>3, LineupMods DEF IInv, AllOrNone
  <2>2. QED  BY <1>1, <1>2, <2>1 DEF NullCallsOnlyEarly
<1>9. QED  BY <1>5, <1>6, <1>7, <1>8 DEF IInv

(* and a step that changes nothing.                                        *)
LEMMA StutterInv ==
  ASSUME IInv, UNCHANGED vars
  PROVE  IInv'
<1>1. UNCHANGED <<ApiDescriptor, FuncDescriptor, API, lineup, status, inited, handles, installed, crash, reloads>>
  BY DEF vars, registry
<1>2. Types'
  BY <1>1 DEF IInv, Types, TypeOK, Led, Descriptors
<1>3. Provided' /\ AllOrNone'
  BY <1>1 DEF IInv, Provided, Requested, AllOrNone, Ready
<1>4. VeinMinerOnce' /\ NullCallsOnlyEarly'
  BY <1>1 DEF IInv, VeinMinerOnce, NullCallsOnlyEarly
<1>5. QED  BY <1>2, <1>3, <1>4 DEF IInv

(* So every step keeps it.                                                 *)
LEMMA NextInv == IInv /\ [Next]_vars => IInv'
<1> SUFFICES ASSUME IInv, [Next]_vars PROVE IInv'
  OBVIOUS
<1>1. CASE \E m \in lineup : Load(m)
  BY <1>1, LoadInv
<1>2. CASE \E m \in lineup : Send(m)
  BY <1>2, SendRegisters, SendFetches
<1>3. CASE \E m \in lineup : Receive(m)
  BY <1>3, ReceiveInv
<1>4. CASE \E m \in lineup : UnLoad(m)
  BY <1>4, UnLoadInv
<1>5. CASE Resolve
  BY <1>5, ResolveInv
<1>6. CASE \E method \in DOMAIN installed : \E x \in Subjects[method] : Call(method, x)
  BY <1>6, CallInv
<1>7. CASE UNCHANGED vars
  BY <1>7, StutterInv
<1>8. QED  BY <1>1, <1>2, <1>3, <1>4, <1>5, <1>6, <1>7 DEF Next

(* The invariant holds in every reachable state.                           *)
LEMMA InvHolds == Spec => []IInv
BY InitInv, NextInv, PTL DEF Spec

----------------------------------------------------------------------------
(* In every lineup the registry, the handles and the FunctionArrays stay   *)
(* within what was registered: a template's mod is the first of its        *)
(* functions, and no handle is held that was not looked up.                *)
THEOREM TypeCorrect == Spec => []TypeOK
<1>1. IInv => TypeOK
  BY DEF IInv, Types
<1>2. QED  BY <1>1, InvHolds, PTL

(* Whatever is enabled together, and however often it is loaded again, the *)
(* process ends on a null pointer only in VeinMiner's Receive (efmod.cpp   *)
(* 126) or in a call that comes before the first Receive of the mod whose  *)
(* pointer it is.                                                          *)
THEOREM NullCallsAreEarly == Spec => []NullCallsOnlyEarly
<1>1. IInv => NullCallsOnlyEarly
  BY DEF IInv
<1>2. QED  BY <1>1, InvHolds, PTL

----------------------------------------------------------------------------
(* Who is called.                                                          *)

(* fs has the functions of those of the mods that hook the method; a mod   *)
(* with a flag has one.                                                    *)
Serves(fs, method, mods) ==
  /\ ToSet(fs) = {m \in mods : method \in Mod[m].hooks}
  /\ \A i, j \in DOMAIN fs : fs[i] = fs[j] /\ Mod[fs[i]].once => i = j

Initialised == {m \in lineup : inited[m]}

(* The last call went to what was installed.                               *)
Called ==
  /\ last.method \in DOMAIN installed
  /\ last.by = installed[last.method].functions
  /\ last.before \in Subjects[last.method]
  /\ last.after = Effects(last.by, last.method, last.before)

CallsInv ==
  /\ \A method \in DOMAIN FuncDescriptor : Serves(FuncDescriptor[method].functions, method, Initialised)
  /\ \A method \in DOMAIN installed : Serves(installed[method].functions, method, lineup)
  /\ last # NoCall => Called

(* Before the loader starts nothing is hooked and nothing was called.      *)
LEMMA InitCalls == Init => CallsInv
<1> SUFFICES ASSUME Init PROVE CallsInv
  OBVIOUS
<1>1. DOMAIN installed = {} /\ DOMAIN FuncDescriptor = {} /\ last = NoCall
  BY DEF Init, Empty
<1>2. QED
  BY <1>1 DEF CallsInv

(* A step that registers nothing and hooks nothing.                        *)
LEMMA QuietCalls ==
  ASSUME CallsInv, UNCHANGED <<FuncDescriptor, lineup, inited, installed>>, last' = NoCall \/ last' = last
  PROVE  CallsInv'
<1>1. Initialised' = Initialised
  BY DEF Initialised
<1>2. \A fs, method, mods : Serves(fs, method, mods)' <=> Serves(fs, method, mods)
  BY DEF Serves
<1>3. last' # NoCall => Called'
  <2>1. CASE last' = NoCall
    BY <2>1
  <2>2. CASE last' = last
    BY <2>2 DEF CallsInv, Called
  <2>3. QED
    BY <2>1, <2>2
<1>4. QED
  BY <1>1, <1>3 DEF CallsInv, Serves

(* A mod with a flag registers once; the first to register for a method is *)
(* the first to be initialised that hooks it.                              *)
LEMMA SendCalls ==
  ASSUME IInv, CallsInv, NEW m \in lineup, Send(m), ~(Mod[m].once /\ inited[m])
  PROVE  CallsInv'
<1>1. /\ Moves(m, "loaded", "sent")
      /\ Register(Mod[m].registers, Mod[m].hooks, m)
      /\ inited' = [inited EXCEPT ![m] = TRUE]
  BY DEF Send
<1>2. m \in DOMAIN Mod /\ lineup' = lineup /\ installed' = installed /\ last' = NoCall
  BY <1>1, Moving DEF IInv, Moves
<1>3. inited' \in [DOMAIN Mod -> BOOLEAN] /\ inited'[m] /\ \A n \in DOMAIN Mod \ {m} : inited'[n] = inited[n]
  BY <1>1, <1>2 DEF IInv, Types, TypeOK
<1>4. Initialised' = Initialised \union {m}
  BY <1>2, <1>3, LineupMods DEF Initialised, IInv
<1>5. ASSUME NEW x \in DOMAIN FuncDescriptor'
      PROVE  Serves(FuncDescriptor'[x].functions, x, Initialised')
  <2>1. x \in DOMAIN FuncDescriptor \union Mod[m].hooks
    BY <1>1, <1>5 DEF Register
  <2>2. x \in DOMAIN FuncDescriptor =>
          FuncDescriptor[x].functions \in Seq(lineup) /\ Serves(FuncDescriptor[x].functions, x, Initialised)
    BY DEF IInv, Types, Led, Descriptors, CallsInv
  <2>3. CASE x \notin Mod[m].hooks
    <3>1. x \in DOMAIN FuncDescriptor /\ FuncDescriptor'[x] = FuncDescriptor[x]
      BY <1>1, <2>1, <2>3 DEF Register
    <3>2. QED
      BY <1>4, <2>2, <2>3, <3>1 DEF Serves
  <2>4. CASE x \in Mod[m].hooks /\ x \in DOMAIN FuncDescriptor
    <3>1. PICK fs : fs = FuncDescriptor[x].functions
      OBVIOUS
    <3>2. FuncDescriptor'[x].functions = Append(fs, m)
      <4>1. FuncDescriptor'[x] = Merged(FuncDescriptor[x], m)
        BY <1>1, <2>1, <2>4 DEF Register
      <4>2. Led(FuncDescriptor[x])
        BY <2>4 DEF IInv, Types
      <4>3. QED
        BY <3>1, <4>1, <4>2 DEF Merged, Led, Descriptors
    <3>3. fs \in Seq(lineup) /\ Serves(fs, x, Initialised)
      BY <2>2, <2>4, <3>1
    <3>4. /\ Len(fs) \in Nat /\ DOMAIN fs = 1 .. Len(fs)
          /\ DOMAIN Append(fs, m) = 1 .. Len(fs) + 1
          /\ \A i \in 1 .. Len(fs) + 1 : Append(fs, m)[i] = IF i = Len(fs) + 1 THEN m ELSE fs[i]
      BY <3>3, SeqAppend
    <3>5. PICK gs : gs = Append(fs, m)
      OBVIOUS
    <3>6. /\ DOMAIN gs = 1 .. Len(fs) + 1 /\ gs[Len(fs) + 1] = m
          /\ \A i \in DOMAIN fs : i \in DOMAIN gs /\ gs[i] = fs[i]
          /\ \A i \in DOMAIN gs : i \in DOMAIN fs \/ i = Len(fs) + 1
      BY <3>4, <3>5
    <3>7. ToSet(gs) = ToSet(fs) \union {m}
      BY <3>4, <3>6 DEF ToSet
    <3>8. ToSet(gs) = {n \in Initialised' : x \in Mod[n].hooks}
      BY <1>4, <2>4, <3>3, <3>7 DEF Serves
    <3>9. ASSUME Mod[m].once PROVE m \notin ToSet(fs)
      BY <3>3, <3>9 DEF Serves, Initialised
    <3>10. ASSUME NEW i \in DOMAIN gs, NEW j \in DOMAIN gs, gs[i] = gs[j], Mod[gs[i]].once
           PROVE  i = j
      <4>1. CASE i \in DOMAIN fs /\ j \in DOMAIN fs
        BY <3>3, <3>6, <3>10, <4>1 DEF Serves
      <4>2. CASE i = Len(fs) + 1 /\ j = Len(fs) + 1
        BY <4>2
      <4>3. CASE i \in DOMAIN fs /\ j = Len(fs) + 1
        BY <3>6, <3>9, <3>10, <4>3 DEF ToSet
      <4>4. CASE i = Len(fs) + 1 /\ j \in DOMAIN fs
        BY <3>6, <3>9, <3>10, <4>4 DEF ToSet
      <4>5. QED
        BY <3>6, <4>1, <4>2, <4>3, <4>4
    <3>11. QED
      BY <3>2, <3>5, <3>8, <3>10 DEF Serves
  <2>5. CASE x \in Mod[m].hooks /\ x \notin DOMAIN FuncDescriptor
    <3>1. FuncDescriptor'[x].functions = <<m>>
      BY <1>1, <2>1, <2>5 DEF Register
    <3>2. \A n \in Initialised : x \notin Mod[n].hooks
      BY <2>5, LineupMods DEF Initialised, IInv, Provided, Requested
    <3>3. ToSet(<<m>>) = {m}
      BY DEF ToSet
    <3>4. QED
      BY <1>4, <2>5, <3>1, <3>2, <3>3 DEF Serves
  <2>6. QED
    BY <2>1, <2>3, <2>4, <2>5
<1>6. QED
  BY <1>2, <1>5 DEF CallsInv, Serves

(* When the loader hooks, every mod of the lineup is initialised.          *)
LEMMA ResolveCalls ==
  ASSUME IInv, CallsInv, Resolve
  PROVE  CallsInv'
<1>1. /\ installed' = FuncDescriptor /\ FuncDescriptor' = FuncDescriptor
      /\ lineup' = lineup /\ inited' = inited /\ last' = NoCall
  BY DEF Resolve, LookUp
<1>2. Initialised = lineup
  <2>1. ASSUME NEW m \in lineup PROVE inited[m]
    <3>1. m \in DOMAIN Mod /\ status[m] \notin {"out", "loaded"}
      BY LineupMods DEF IInv, Resolve
    <3>2. status[m] \in {"sent", "resolved", "received"}
      BY <3>1 DEF IInv, Types, TypeOK
    <3>3. QED
      BY <3>1, <3>2 DEF IInv, Provided
  <2>2. QED
    BY <2>1 DEF Initialised
<1>3. Initialised' = Initialised
  BY <1>1 DEF Initialised
<1>4. QED
  BY <1>1, <1>2, <1>3 DEF CallsInv, Serves

(* A call goes to the functions that are hooked.                           *)
LEMMA CallCalls ==
  ASSUME CallsInv, NEW method \in DOMAIN installed, NEW x \in Subjects[method], Call(method, x)
  PROVE  CallsInv'
<1>1. UNCHANGED <<FuncDescriptor, lineup, inited, installed>>
  BY DEF Call, registry
<1>2. CASE last' = NoCall
  BY <1>1, <1>2, QuietCalls
<1>3. CASE last' # NoCall
  <2>1. last' = [method |-> method, before |-> x, by |-> installed[method].functions,
                 after |-> Effects(installed[method].functions, method, x)]
    BY <1>3, Zenon DEF Call
  <2>2. /\ last'.method = method /\ last'.before = x /\ last'.by = installed[method].functions
        /\ last'.after = Effects(installed[method].functions, method, x)
    BY <2>1, Zenon
  <2>3. Called'
    BY <1>1, <2>2, Zenon DEF Called
  <2>4. Initialised' = Initialised
    BY <1>1 DEF Initialised
  <2>5. QED
    BY <1>1, <2>3, <2>4 DEF CallsInv, Serves
<1>4. QED
  BY <1>2, <1>3

(* Every step keeps the invariant of the calls.                            *)
LEMMA NextCalls == IInv /\ CallsInv /\ [Next]_vars => CallsInv'
<1> SUFFICES ASSUME IInv, CallsInv, [Next]_vars PROVE CallsInv'
  OBVIOUS
<1>1. CASE \E m \in lineup : Load(m) \/ Receive(m) \/ UnLoad(m)
  BY <1>1, QuietCalls DEF Load, Receive, UnLoad, Moves, registry
<1>2. ASSUME NEW m \in lineup, Send(m) PROVE CallsInv'
  <2>1. CASE Mod[m].once /\ inited[m]
    BY <1>2, <2>1, QuietCalls DEF Send, Moves, registry
  <2>2. CASE ~(Mod[m].once /\ inited[m])
    BY <1>2, <2>2, SendCalls
  <2>3. QED
    BY <2>1, <2>2
<1>3. CASE Resolve
  BY <1>3, ResolveCalls
<1>4. CASE \E method \in DOMAIN installed : \E x \in Subjects[method] : Call(method, x)
  BY <1>4, CallCalls
<1>5. CASE UNCHANGED vars
  BY <1>5, QuietCalls DEF vars, registry
<1>6. QED
  BY <1>1, <1>2, <1>3, <1>4, <1>5 DEF Next

(* The invariant of the calls holds in every reachable state.              *)
LEMMA CallsHold == Spec => []CallsInv
BY InitCalls, NextCalls, InvHolds, PTL DEF Spec

----------------------------------------------------------------------------
(* Functions one after the other.                                          *)

(* f holds what the functions with the numbers in s, in order, make of x.  *)
Folded(f, mods, method, x, n) ==
  f = [s \in SUBSET (1 .. n) |-> IF s = {} THEN x ELSE Effect(mods[Max(s)], method, f[s \ {Max(s)}])]

(* There is such an f: FoldLeft is defined by one.                         *)
LEMMA FoldExists ==
  ASSUME NEW mods, NEW method, NEW x, NEW n \in Nat
  PROVE  \E f : Folded(f, mods, method, x, n)
<1> DEFINE Bad == {m \in Nat : ~\E f : Folded(f, mods, method, x, m)}
<1>1. Bad = {}
  <2> SUFFICES ASSUME Bad # {} PROVE FALSE
    OBVIOUS
  <2>1. PICK m \in Bad : \A q \in Bad : m <= q
    BY NatLeast
  <2>2. CASE m = 0
    <3>1. SUBSET (1 .. 0) = {{}}
      OBVIOUS
    <3>2. Folded([s \in SUBSET (1 .. 0) |-> x], mods, method, x, 0)
      BY <3>1 DEF Folded
    <3>3. QED
      BY <2>2, <3>2
  <2>3. CASE m # 0
    <3>1. m \in Nat /\ m - 1 \in Nat /\ ~(m <= m - 1)
      BY <2>3
    <3>2. PICK f : Folded(f, mods, method, x, m - 1)
      BY <2>1, <3>1
    <3> DEFINE g == [s \in SUBSET (1 .. m) |-> IF m \in s THEN Effect(mods[m], method, f[s \ {m}]) ELSE f[s]]
    <3>3. ASSUME NEW s \in SUBSET (1 .. m)
          PROVE  g[s] = IF s = {} THEN x ELSE Effect(mods[Max(s)], method, g[s \ {Max(s)}])
      <4>1. CASE m \in s
        <5>1. Max(s) = m
          <6>1. \A j \in s : j <= m
            BY <3>1
          <6>2. Max(s) \in s /\ \A j \in s : j <= Max(s)
            BY <3>1, <4>1, MaxOfPositions
          <6>3. Max(s) \in 1 .. m /\ Max(s) <= m /\ m <= Max(s)
            BY <4>1, <6>1, <6>2
          <6>4. QED
            BY <3>1, <6>3
        <5>2. s \ {m} \in SUBSET (1 .. m) /\ m \notin s \ {m}
          OBVIOUS
        <5>3. g[s \ {m}] = f[s \ {m}]
          BY <5>2
        <5>4. g[s] = Effect(mods[m], method, f[s \ {m}])
          BY <4>1
        <5>5. s # {}
          BY <4>1
        <5>6. QED
          BY <5>1, <5>3, <5>4, <5>5, Zenon
      <4>2. CASE m \notin s
        <5>1. s \in SUBSET (1 .. m - 1)
          BY <3>1, <4>2
        <5>2. g[s] = f[s]
          BY <4>2
        <5>3. f[s] = IF s = {} THEN x ELSE Effect(mods[Max(s)], method, f[s \ {Max(s)}])
          BY <3>2, <5>1, Zenon DEF Folded
        <5>4. s \ {Max(s)} \in SUBSET (1 .. m) /\ m \notin s \ {Max(s)}
          BY <4>2
        <5>5. g[s \ {Max(s)}] = f[s \ {Max(s)}]
          BY <5>4
        <5>6. QED
          BY <5>2, <5>3, <5>5, Zenon
      <4>3. QED
        BY <4>1, <4>2
    <3>4. Folded(g, mods, method, x, m)
      BY <3>3 DEF Folded
    <3>5. QED
      BY <2>1, <3>4
  <2>4. QED
    BY <2>2, <2>3
<1>2. QED
  BY <1>1

(* What the functions make of x is made one by one.                        *)
Steps(made, mods, method, x) ==
  /\ made[0] = x
  /\ \A i \in 1 .. Len(mods) : made[i] = Effect(mods[i], method, made[i - 1])
  /\ Effects(mods, method, x) = made[Len(mods)]

(* One can always name what is made on the way.                            *)
LEMMA EffectsAreSteps ==
  ASSUME NEW S, NEW mods \in Seq(S), NEW method, NEW x
  PROVE  \E made : Steps(made, mods, method, x)
<1>1. PICK n : n = Len(mods)
  OBVIOUS
<1>2. n \in Nat /\ DOMAIN mods = 1 .. n
  BY <1>1
<1>3. Effects(mods, method, x) = (CHOOSE f : Folded(f, mods, method, x, n))[1 .. n]
  <2>1. Effects(mods, method, x) =
          (CHOOSE f : f = [s \in SUBSET (DOMAIN mods) |->
                             IF s = {} THEN x
                             ELSE LET i == Max(s) IN Effect(mods[i], method, f[s \ {i}])])[DOMAIN mods]
    BY Zenon DEF Effects, FoldLeft, MapThenFoldSet
  <2>2. QED
    BY <1>2, <2>1, Zenon DEF Folded
<1>4. PICK f : f = (CHOOSE g : Folded(g, mods, method, x, n))
  OBVIOUS
<1>5. Folded(f, mods, method, x, n)
  BY <1>2, <1>4, FoldExists
<1> DEFINE made == [i \in 0 .. n |-> f[1 .. i]]
<1>6. made[0] = x
  <2>1. 1 .. 0 = {} /\ {} \in SUBSET (1 .. n) /\ 0 \in 0 .. n
    BY <1>2
  <2>2. f[{}] = x
    BY <1>5, <2>1, Zenon DEF Folded
  <2>3. made[0] = f[1 .. 0]
    BY <2>1
  <2>4. QED
    BY <2>1, <2>2, <2>3
<1>7. ASSUME NEW i \in 1 .. n
      PROVE  made[i] = Effect(mods[i], method, made[i - 1])
  <2>1. 1 .. i \in SUBSET (1 .. n) /\ 1 .. i # {} /\ (1 .. i) \ {i} = 1 .. i - 1
        /\ i \in 0 .. n /\ i - 1 \in 0 .. n /\ i \in 1 .. i /\ 1 .. i \subseteq Nat
    BY <1>2
  <2>2. Max(1 .. i) = i
    <3>1. Max(1 .. i) \in 1 .. i /\ \A j \in 1 .. i : j <= Max(1 .. i)
      BY <2>1, MaxOfPositions
    <3>2. QED
      BY <2>1, <3>1
  <2>3. f[1 .. i] = Effect(mods[Max(1 .. i)], method, f[(1 .. i) \ {Max(1 .. i)}])
    BY <1>5, <2>1, Zenon DEF Folded
  <2>4. made[i] = f[1 .. i] /\ made[i - 1] = f[1 .. i - 1]
    BY <2>1
  <2>5. QED
    BY <2>1, <2>2, <2>3, <2>4, Zenon
<1>8. Effects(mods, method, x) = made[n]
  BY <1>2, <1>3, <1>4
<1> HIDE DEF made
<1>9. QED
  BY <1>1, <1>6, <1>7, <1>8 DEF Steps
----------------------------------------------------------------------------
(* Who acts.                                                               *)

ItemMethod == <<"Item", "SetDefaults/3">>

(* What each mod hooks.                                                    *)
LEMMA Hooks ==
  /\ \A m \in {"Accessorize", "Overclock"} : Mod[m].hooks = {ItemMethod}
  /\ Mod["Seeker"].hooks = {<<"Projectile", "SetDefaults/1">>}
  /\ Mod["InfiniteLegion"].hooks = {<<"Player", "ResetEffects/0">>}
  /\ Mod["InstantRespawn"].hooks = {<<"Player", "UpdateDead/0">>}
  /\ Mod["VeinMiner"].hooks = {<<"Main", "UpdateTime/0">>, <<"HitTile", "AddDamage/3">>}
  /\ Mod["ForgottenItem"].hooks =
       {<<"ItemID.Sets", ".cctor/0">>, <<"Recipe", "SetupRecipeGroups/0">>, ItemMethod,
        <<"PrefixLegacy.ItemSets", ".cctor/0">>, <<"ItemDropDatabase", "Populate/0">>}
  /\ Mod["ForgottenItem"].once
BY DEF Mod, ItemMethod, Accessorize, Overclock, Seeker, InfiniteLegion, InstantRespawn, VeinMiner, ForgottenItem

(* Item's SetDefaults is the one method that several mods hook.            *)
LEMMA OneHooks ==
  ASSUME NEW m \in DOMAIN Mod, NEW n \in DOMAIN Mod, NEW method \in Mod[m].hooks,
         method \in Mod[n].hooks, m # n
  PROVE  method = ItemMethod /\ {m, n} \subseteq {"Accessorize", "Overclock", "ForgottenItem"}
<1>1. method[1] \in {"Item", "Projectile", "Player", "Main", "HitTile", "ItemID.Sets", "Recipe",
                    "PrefixLegacy.ItemSets", "ItemDropDatabase"}
  BY Names, Hooks DEF ItemMethod
<1>2. QED
  BY Names, Hooks DEF ItemMethod

(* What each mod's function is.                                            *)
LEMMA EffectIs ==
  ASSUME NEW method, NEW x
  PROVE  /\ Effect("Accessorize", method, x) = AccessorizeSetDefaults(x)
         /\ Effect("Overclock", method, x) = OverclockSetDefaults(x)
         /\ Effect("Seeker", method, x) = SeekerSetDefaults(x)
         /\ Effect("InfiniteLegion", method, x) = InfiniteLegionResetEffects(x)
         /\ Effect("InstantRespawn", method, x) = InstantRespawnUpdateDead(x)
         /\ Effect("VeinMiner", method, x) = x
         /\ method[1] = "Item" => Effect("ForgottenItem", method, x) = ForgottenItemSetDefaults(x)
         /\ method[1] = "ItemID.Sets" => Effect("ForgottenItem", method, x) = ItemIDcctor(x)
<1>1. /\ Effect("Accessorize", method, x) = AccessorizeSetDefaults(x)
      /\ Effect("Overclock", method, x) = OverclockSetDefaults(x)
      /\ Effect("Seeker", method, x) = SeekerSetDefaults(x)
      /\ Effect("VeinMiner", method, x) = x
  BY DEF Effect
<1>2. Effect("InfiniteLegion", method, x) = InfiniteLegionResetEffects(x)
  BY DEF Effect
<1>3. Effect("InstantRespawn", method, x) = InstantRespawnUpdateDead(x)
  BY DEF Effect
<1>4. method[1] = "Item" => Effect("ForgottenItem", method, x) = ForgottenItemSetDefaults(x)
  BY DEF Effect
<1>5. method[1] = "ItemID.Sets" => Effect("ForgottenItem", method, x) = ItemIDcctor(x)
  BY DEF Effect
<1>6. QED
  BY <1>1, <1>2, <1>3, <1>4, <1>5

(* The mods of an order are each there, and each once.                     *)
LEMMA OrderServes ==
  ASSUME lineup \subseteq DOMAIN Mod, NEW method, NEW order \in SetToSeqs(Hooking(method))
  PROVE  order \in Seq(lineup) /\ Serves(order, method, lineup)
<1> DEFINE H == Hooking(method)
<1>1. IsFiniteSet(H)
  <2>1. H \subseteq DOMAIN Mod
    BY DEF Hooking
  <2>2. IsFiniteSet(DOMAIN Mod)
    <3>1. \A S, e : IsFiniteSet(S) => IsFiniteSet(S \union {e})
      BY FS_AddElement
    <3>2. PICK A, B, C, D : /\ A = {} \union {"Accessorize"} /\ B = A \union {"Overclock"}
                            /\ C = B \union {"Seeker"} /\ D = C \union {"InfiniteLegion"}
      OBVIOUS
    <3>3. PICK E, F, G : /\ E = D \union {"InstantRespawn"} /\ F = E \union {"ForgottenItem"}
                         /\ G = F \union {"VeinMiner"}
      OBVIOUS
    <3>4. DOMAIN Mod = G
      BY <3>2, <3>3, Names
    <3>5. IsFiniteSet(D)
      BY <3>1, <3>2, FS_EmptySet, Zenon
    <3>6. IsFiniteSet(G)
      BY <3>1, <3>3, <3>5, Zenon
    <3>7. QED
      BY <3>4, <3>6, Zenon
  <2>3. QED
    BY <2>1, <2>2, FS_Subset
<1>2. PICK n : n = Cardinality(H)
  OBVIOUS
<1>3. n \in Nat
  BY <1>1, <1>2, FS_CardinalityType
<1>4. order \in [1 .. n -> H] /\ \A i, j \in 1 .. n : i # j => order[i] # order[j]
  BY <1>2 DEF SetToSeqs
<1>5. order \in Injection(1 .. n, H)
  BY <1>4 DEF Injection, IsInjective
<1>6. Cardinality(1 .. n) = n
  BY <1>3, FS_Interval
<1>7. order \in Surjection(1 .. n, H)
  BY <1>1, <1>2, <1>5, <1>6, FS_Injection
<1>8. ToSet(order) = H
  BY <1>4, <1>7 DEF ToSet, Surjection
<1>9. order \in Seq(lineup)
  BY <1>3, <1>4 DEF Hooking
<1>10. QED
  BY <1>4, <1>8, <1>9 DEF Serves, Hooking
----------------------------------------------------------------------------
(* One mod acts: once, or as if once.                                      *)

Again(m, method, x) == Effect(m, method, Effect(m, method, x)) = Effect(m, method, x)

(* A list of one mod does what its function does once.                     *)
LEMMA OneActs ==
  ASSUME NEW S, NEW mods \in Seq(S), NEW method, NEW m, NEW x,
         mods # <<>>, ToSet(mods) = {m}, Len(mods) = 1 \/ Again(m, method, x)
  PROVE  Effects(mods, method, x) = Effect(m, method, x)
<1>1. PICK made : Steps(made, mods, method, x)
  BY EffectsAreSteps
<1>2. PICK n : n = Len(mods)
  OBVIOUS
<1>3. n \in Nat /\ n > 0 /\ DOMAIN mods = 1 .. n
  BY <1>2
<1>4. \A i \in 1 .. n : mods[i] = m
  BY <1>3 DEF ToSet
<1>5. made[1] = Effect(m, method, x)
  <2>1. 1 \in 1 .. n /\ 1 - 1 = 0
    BY <1>3
  <2>2. made[1] = Effect(mods[1], method, made[1 - 1]) /\ made[0] = x
    BY <1>1, <1>2, <2>1 DEF Steps
  <2>3. QED
    BY <1>4, <2>1, <2>2
<1>6. CASE n = 1
  BY <1>1, <1>2, <1>5, <1>6 DEF Steps
<1>7. CASE n # 1
  <2>1. Again(m, method, x)
    BY <1>2, <1>7
  <2> DEFINE Bad == {i \in 1 .. n : made[i] # Effect(m, method, x)}
  <2>2. Bad = {}
    <3> SUFFICES ASSUME Bad # {} PROVE FALSE
      OBVIOUS
    <3>0. Bad \subseteq Nat
      BY <1>3
    <3>1. PICK i \in Bad : \A j \in Bad : i <= j
      BY <3>0, NatLeast
    <3>2. i \in 1 .. n /\ i # 1 /\ made[i] # Effect(m, method, x)
      BY <1>5
    <3>3. i - 1 \in 1 .. n /\ ~(i <= i - 1)
      BY <1>3, <3>2
    <3>4. made[i - 1] = Effect(m, method, x)
      BY <3>1, <3>3
    <3>5. made[i] = Effect(m, method, made[i - 1])
      BY <1>1, <1>2, <1>4, <3>2 DEF Steps
    <3>6. QED
      BY <2>1, <3>2, <3>4, <3>5, Zenon DEF Again
  <2>3. QED
    BY <1>1, <1>2, <1>3, <2>2 DEF Steps
<1>8. QED
  BY <1>6, <1>7

(* Whoever registered more than once sets what it set before.              *)
LEMMA Idempotent ==
  ASSUME NEW m \in DOMAIN Mod, ~Mod[m].once, NEW method \in Mod[m].hooks, method # ItemMethod,
         NEW x, ByGame(method, x)
  PROVE  Again(m, method, x)
<1>1. m \in {"Seeker", "InfiniteLegion", "InstantRespawn", "VeinMiner"}
  BY Names, Hooks
<1>2. CASE m = "Seeker"
  <2>1. method[1] = "Projectile" /\ x \in Projectile
    BY <1>2, Hooks DEF ByGame
  <2>2. SeekerSetDefaults(SeekerSetDefaults(x)) = SeekerSetDefaults(x)
    BY <2>1 DEF SeekerSetDefaults, Projectile
  <2>3. \A y : Effect(m, method, y) = SeekerSetDefaults(y)
    BY <1>2, EffectIs
  <2>4. QED
    BY <2>2, <2>3, Zenon DEF Again
<1>3. CASE m = "InfiniteLegion"
  <2>1. method[1] = "Player" /\ x \in Player
    BY <1>3, Hooks DEF ByGame
  <2>2. InfiniteLegionResetEffects(InfiniteLegionResetEffects(x)) = InfiniteLegionResetEffects(x)
    BY <2>1 DEF InfiniteLegionResetEffects, Player
  <2>3. \A y : Effect(m, method, y) = InfiniteLegionResetEffects(y)
    BY <1>3, EffectIs
  <2>4. QED
    BY <2>2, <2>3, Zenon DEF Again
<1>4. CASE m = "InstantRespawn"
  <2>1. method[1] = "Player" /\ x \in Player
    BY <1>4, Hooks DEF ByGame
  <2>2. InstantRespawnUpdateDead(InstantRespawnUpdateDead(x)) = InstantRespawnUpdateDead(x)
    BY <2>1 DEF InstantRespawnUpdateDead, Player
  <2>3. \A y : Effect(m, method, y) = InstantRespawnUpdateDead(y)
    BY <1>4, EffectIs
  <2>4. QED
    BY <2>2, <2>3, Zenon DEF Again
<1>5. CASE m = "VeinMiner"
  <2>1. \A y : Effect(m, method, y) = y
    BY <1>5, EffectIs
  <2>2. QED
    BY <2>1, Zenon DEF Again
<1>6. QED
  BY <1>1, <1>2, <1>3, <1>4, <1>5

(* Two lists of the mods that hook a method that is not Item's.            *)
LEMMA OneMakesTheSame ==
  ASSUME lineup \subseteq DOMAIN Mod, NEW m \in lineup, NEW method \in Mod[m].hooks, method # ItemMethod,
         NEW x, ByGame(method, x), NEW mods \in Seq(lineup), Serves(mods, method, lineup)
  PROVE  Effects(mods, method, x) = Effect(m, method, x)
<1>1. ToSet(mods) = {m}
  <2>1. \A n \in lineup : method \in Mod[n].hooks => n = m
    BY OneHooks
  <2>2. QED
    BY <2>1 DEF Serves
<1>2. mods # <<>>
  BY <1>1 DEF ToSet
<1>3. CASE Mod[m].once
  <2>1. PICK n : n = Len(mods)
    OBVIOUS
  <2>2. n \in Nat /\ n > 0 /\ DOMAIN mods = 1 .. n
    BY <1>2, <2>1
  <2>3. 1 \in 1 .. n /\ n \in 1 .. n
    BY <2>2
  <2>4. mods[1] = m /\ mods[n] = m
    BY <1>1, <2>2, <2>3 DEF ToSet
  <2>5. 1 = n
    BY <1>3, <2>2, <2>3, <2>4 DEF Serves
  <2>6. QED
    BY <1>1, <1>2, <2>1, <2>5, OneActs
<1>4. CASE ~Mod[m].once
  <2>1. Again(m, method, x)
    BY <1>4, Idempotent
  <2>2. QED
    BY <1>1, <1>2, <2>1, OneActs
<1>5. QED
  BY <1>3, <1>4
(* The last call: which mods it reached, and on what.                      *)
LEMMA CallMade ==
  ASSUME IInv, CallsInv, last # NoCall
  PROVE  /\ lineup \subseteq DOMAIN Mod
         /\ last.by \in Seq(lineup) /\ last.by # <<>> /\ Serves(last.by, last.method, lineup)
         /\ last.after = Effects(last.by, last.method, last.before)
         /\ \E m \in lineup : last.method \in Mod[m].hooks
         /\ ByGame(last.method, last.before)
<1>1. lineup \subseteq DOMAIN Mod
  BY LineupMods DEF IInv
<1>2. Called
  BY DEF CallsInv
<1>3. PICK method : method = last.method
  OBVIOUS
<1>4. method \in DOMAIN installed /\ last.by = installed[method].functions
  BY <1>2, <1>3 DEF Called
<1>5. Led(installed[method])
  BY <1>4 DEF IInv, Types
<1>6. last.by \in Seq(lineup) /\ Len(last.by) > 0
  BY <1>4, <1>5 DEF Led, Descriptors
<1>7. Serves(last.by, method, lineup)
  BY <1>4 DEF CallsInv
<1>8. 1 \in DOMAIN last.by
  BY <1>6
<1>9. last.by[1] \in lineup /\ method \in Mod[last.by[1]].hooks
  BY <1>7, <1>8 DEF Serves, ToSet
<1>10. ByGame(method, last.before)
  BY <1>1, <1>2, <1>3, <1>9, ModsAssumption DEF Called
<1>11. QED
  BY <1>1, <1>2, <1>3, <1>6, <1>7, <1>9, <1>10 DEF Called

----------------------------------------------------------------------------
(* Shimmer.                                                                *)

(* Every pair is there both ways, and no item is turned into two.          *)
LEMMA PairsBack ==
  /\ \A p \in ShimmerPairs : <<p[2], p[1]>> \in ShimmerPairs
  /\ \A p, q \in ShimmerPairs : p[1] = q[1] => p[2] = q[2]
BY DEF ShimmerPairs

(* What the last call of the shimmer table made is symmetric where it was  *)
(* changed.                                                                *)
LEMMA ShimmersBack == IInv /\ CallsInv => ShimmerSymmetric
<1> SUFFICES ASSUME IInv, CallsInv, last # NoCall, last.method[1] = "ItemID.Sets"
             PROVE  \A i \in DOMAIN last.after.ShimmerTransformToItem :
                      last.after.ShimmerTransformToItem[i] # last.before.ShimmerTransformToItem[i] =>
                        last.after.ShimmerTransformToItem[last.after.ShimmerTransformToItem[i]] = i
  BY DEF ShimmerSymmetric
<1>1. PICK method, x, after : method = last.method /\ x = last.before /\ after = last.after
  OBVIOUS
<1>2. PICK m \in lineup : method \in Mod[m].hooks
  BY <1>1, CallMade
<1>3. m = "ForgottenItem" /\ method # ItemMethod
  BY <1>1, <1>2, CallMade, Names, Hooks DEF ItemMethod
<1>4. after = Effect(m, method, x)
  BY <1>1, <1>2, <1>3, CallMade, OneMakesTheSame
<1>5. after = ItemIDcctor(x)
  BY <1>1, <1>3, <1>4, EffectIs
<1>6. PICK old, new : old = x.ShimmerTransformToItem /\ new = after.ShimmerTransformToItem
  OBVIOUS
<1>7. /\ DOMAIN new = DOMAIN old
      /\ \A i \in DOMAIN old : new[i] = IF \E p \in ShimmerPairs : p[1] = i
                                      THEN (CHOOSE p \in ShimmerPairs : p[1] = i)[2] ELSE old[i]
  BY <1>5, <1>6 DEF ItemIDcctor
<1>8. {p[1] : p \in ShimmerPairs} \subseteq DOMAIN old
  BY <1>1, <1>6, CallMade DEF ByGame
<1>9. \A p \in ShimmerPairs : new[p[1]] = p[2]
  <2> SUFFICES ASSUME NEW p \in ShimmerPairs PROVE new[p[1]] = p[2]
    OBVIOUS
  <2>1. p[1] \in DOMAIN old
    BY <1>8
  <2>2. PICK q : q = CHOOSE r \in ShimmerPairs : r[1] = p[1]
    OBVIOUS
  <2>3. q \in ShimmerPairs /\ q[1] = p[1]
    BY <2>2
  <2>4. new[p[1]] = q[2]
    BY <1>7, <2>1, <2>2
  <2>5. QED
    BY <2>3, <2>4, PairsBack
<1>10. ASSUME NEW i \in DOMAIN new, new[i] # old[i] PROVE new[new[i]] = i
  <2>1. PICK p \in ShimmerPairs : p[1] = i
    BY <1>7, <1>10
  <2>2. new[i] = p[2]
    BY <1>9, <2>1
  <2>3. <<p[2], p[1]>> \in ShimmerPairs
    BY PairsBack
  <2>4. new[p[2]] = p[1]
    BY <1>9, <2>3
  <2>5. QED
    BY <2>1, <2>2, <2>4
<1>11. QED
  BY <1>1, <1>6, <1>10

----------------------------------------------------------------------------
(* An item.                                                                *)

Wearable(x) == x.headSlot >= 0 \/ x.bodySlot >= 0 \/ x.legSlot >= 0

(* What the mods of S make of item x in whatever order, but for the speed  *)
(* of the contested items.                                                 *)
MadeBy(S, x, y) ==
  /\ y \in Item
  /\ y.type = x.type /\ y.createTile = x.createTile /\ y.createWall = x.createWall
  /\ y.headSlot = x.headSlot /\ y.bodySlot = x.bodySlot /\ y.legSlot = x.legSlot
  /\ y.accessory <=> x.accessory \/ ("Accessorize" \in S /\ Wearable(x))
  /\ y.damage = IF "ForgottenItem" \in S THEN ForgottenItemSetDefaults(x).damage ELSE x.damage
  /\ x.type \notin Contested =>
       IF "Overclock" \in S /\ shouldOverclock(x) THEN y.useTime = 1 /\ y.useAnimation = 5
       ELSE IF "ForgottenItem" \in S
       THEN /\ y.useTime = ForgottenItemSetDefaults(x).useTime
            /\ y.useAnimation = ForgottenItemSetDefaults(x).useAnimation
       ELSE y.useTime = x.useTime /\ y.useAnimation = x.useAnimation

(* That leaves no choice.                                                  *)
LEMMA MadeByOne ==
  ASSUME NEW S, NEW x \in Item, NEW y, NEW z, MadeBy(S, x, y), MadeBy(S, x, z)
  PROVE  y = z \/ (x.type \in Contested /\ Speedless(y) = Speedless(z))
<1>1. y \in Item /\ z \in Item
  BY DEF MadeBy
<1>2. /\ y.type = z.type /\ y.createTile = z.createTile /\ y.createWall = z.createWall
      /\ y.headSlot = z.headSlot /\ y.bodySlot = z.bodySlot /\ y.legSlot = z.legSlot
      /\ y.damage = z.damage
  BY DEF MadeBy
<1>3. y.accessory = z.accessory
  BY <1>1 DEF MadeBy, Item
<1>4. CASE x.type \in Contested
  <2>1. Speedless(y) = Speedless(z)
    BY <1>1, <1>2, <1>3 DEF Speedless, Item
  <2>2. QED
    BY <1>4, <2>1
<1>5. CASE x.type \notin Contested
  <2>1. y.useTime = z.useTime /\ y.useAnimation = z.useAnimation
    BY <1>5 DEF MadeBy
  <2>2. QED
    BY <1>1, <1>2, <1>3, <2>1 DEF Item
<1>6. QED
  BY <1>4, <1>5
(* z is y but for its speed and damage.                                    *)
Retimed(y, z) ==
  /\ z \in Item
  /\ z.type = y.type /\ z.createTile = y.createTile /\ z.createWall = y.createWall
  /\ z.headSlot = y.headSlot /\ z.bodySlot = y.bodySlot /\ z.legSlot = y.legSlot
  /\ z.accessory = y.accessory

Sped(y, a, t) == [y EXCEPT !.useTime = t, !.useAnimation = a]

(* Overclock's function sets the speed.                                    *)
LEMMA SpeedSet ==
  ASSUME NEW y \in Item, NEW a \in Int, NEW t \in Int
  PROVE  LET w == Sped(y, a, t)
         IN  Retimed(y, w) /\ w.damage = y.damage /\ w.useTime = t /\ w.useAnimation = a
<1> DEFINE w == Sped(y, a, t)
<1>1. w.type = y.type /\ w.createTile = y.createTile /\ w.createWall = y.createWall
  BY DEF Item, Sped
<1>2. w.headSlot = y.headSlot /\ w.bodySlot = y.bodySlot /\ w.legSlot = y.legSlot
  BY DEF Item, Sped
<1>3. w.damage = y.damage /\ w.useTime = t /\ w.useAnimation = a
  BY DEF Item, Sped
<1>4. w.accessory = y.accessory
  BY DEF Item, Sped
<1>5. w \in Item
  BY DEF Item, Sped
<1> HIDE DEF w
<1>6. Retimed(y, w)
  BY <1>1, <1>2, <1>4, <1>5 DEF Retimed
<1>7. QED
  BY <1>3, <1>6 DEF w

Food(y, a, t) == [y EXCEPT !.useAnimation = a, !.useTime = t]

(* DefaultToFood too.                                                      *)
LEMMA FoodSet ==
  ASSUME NEW y \in Item, NEW a \in Int, NEW t \in Int
  PROVE  LET w == Food(y, a, t)
         IN  Retimed(y, w) /\ w.damage = y.damage /\ w.useTime = t /\ w.useAnimation = a
<1> DEFINE w == Food(y, a, t)
<1>1. w.type = y.type /\ w.createTile = y.createTile /\ w.createWall = y.createWall
  BY DEF Item, Food
<1>2. w.headSlot = y.headSlot /\ w.bodySlot = y.bodySlot /\ w.legSlot = y.legSlot
  BY DEF Item, Food
<1>3. w.damage = y.damage /\ w.useTime = t /\ w.useAnimation = a
  BY DEF Item, Food
<1>4. w.accessory = y.accessory
  BY DEF Item, Food
<1>5. w \in Item
  BY DEF Item, Food
<1> HIDE DEF w
<1>6. Retimed(y, w)
  BY <1>1, <1>2, <1>4, <1>5 DEF Retimed
<1>7. QED
  BY <1>3, <1>6 DEF w

Weapon(y, a, t, d) == [y EXCEPT !.useAnimation = a, !.useTime = t, !.damage = d]

(* SetWeaponValues with it.                                                *)
LEMMA WeaponSet ==
  ASSUME NEW y \in Item, NEW a \in Int, NEW t \in Int, NEW d \in Int
  PROVE  LET w == Weapon(y, a, t, d)
         IN  Retimed(y, w) /\ w.damage = d /\ w.useTime = t /\ w.useAnimation = a
<1> DEFINE w == Weapon(y, a, t, d)
<1>1. w.type = y.type /\ w.createTile = y.createTile /\ w.createWall = y.createWall
  BY DEF Item, Weapon
<1>2. w.headSlot = y.headSlot /\ w.bodySlot = y.bodySlot /\ w.legSlot = y.legSlot
  BY DEF Item, Weapon
<1>3. w.damage = d /\ w.useTime = t /\ w.useAnimation = a
  BY DEF Item, Weapon
<1>4. w.accessory = y.accessory
  BY DEF Item, Weapon
<1>5. w \in Item
  BY DEF Item, Weapon
<1> HIDE DEF w
<1>6. Retimed(y, w)
  BY <1>1, <1>2, <1>4, <1>5 DEF Retimed
<1>7. QED
  BY <1>3, <1>6 DEF w

(* SetWeaponValues alone.                                                  *)
LEMMA DamageSet ==
  ASSUME NEW y \in Item, NEW d \in Int, NEW z, z = [y EXCEPT !.damage = d]
  PROVE  Retimed(y, z) /\ z.damage = d /\ z.useTime = y.useTime /\ z.useAnimation = y.useAnimation
BY DEF Item, Retimed

(* ForgottenItem's function, field by field.                               *)
LEMMA ForgottenFields ==
  ASSUME NEW y \in Item, NEW z, z = ForgottenItemSetDefaults(y)
  PROVE  /\ Retimed(y, z)
         /\ z.damage = IF y.type = 2881 THEN 550 ELSE IF y.type = 3850 THEN 71 ELSE IF y.type = 3853 THEN 72
                       ELSE IF y.type = 4058 THEN 30 ELSE IF y.type = 4722 THEN 130 ELSE y.damage
         /\ y.type \notin Contested =>
              IF y.type = 4010 THEN z.useTime = 17 /\ z.useAnimation = 17
              ELSE z.useTime = y.useTime /\ z.useAnimation = y.useAnimation
         /\ y.type \in Contested => z.useTime \in {80, 17, 12}
<1>1. CASE y.type = 2881
  <2>1. z = Weapon(y, 20, 80, 550)
    BY <1>1 DEF ForgottenItemSetDefaults, Weapon
  <2>2. Retimed(y, z) /\ z.useAnimation = 20 /\ z.useTime = 80 /\ z.damage = 550
    BY <2>1, WeaponSet
  <2>3. QED
    BY <1>1, <2>2 DEF Contested
<1>2. CASE y.type = 3850
  <2>1. z = Weapon(y, 17, 17, 71)
    BY <1>2 DEF ForgottenItemSetDefaults, Weapon
  <2>2. Retimed(y, z) /\ z.useAnimation = 17 /\ z.useTime = 17 /\ z.damage = 71
    BY <2>1, WeaponSet
  <2>3. QED
    BY <1>2, <2>2 DEF Contested
<1>3. CASE y.type = 3853
  <2>1. z = Weapon(y, 25, 12, 72)
    BY <1>3 DEF ForgottenItemSetDefaults, Weapon
  <2>2. Retimed(y, z) /\ z.useAnimation = 25 /\ z.useTime = 12 /\ z.damage = 72
    BY <2>1, WeaponSet
  <2>3. QED
    BY <1>3, <2>2 DEF Contested
<1>4. CASE y.type = 4058
  <2>1. z = [y EXCEPT !.damage = 30]
    BY <1>4 DEF ForgottenItemSetDefaults
  <2>2. Retimed(y, z) /\ z.damage = 30 /\ z.useTime = y.useTime /\ z.useAnimation = y.useAnimation
    BY <2>1, DamageSet
  <2>3. QED
    BY <1>4, <2>2 DEF Contested
<1>5. CASE y.type = 4722
  <2>1. z = [y EXCEPT !.damage = 130]
    BY <1>5 DEF ForgottenItemSetDefaults
  <2>2. Retimed(y, z) /\ z.damage = 130 /\ z.useTime = y.useTime /\ z.useAnimation = y.useAnimation
    BY <2>1, DamageSet
  <2>3. QED
    BY <1>5, <2>2 DEF Contested
<1>6. CASE y.type = 4010
  <2>1. z = Food(y, 17, 17)
    BY <1>6 DEF ForgottenItemSetDefaults, Food
  <2>2. Retimed(y, z) /\ z.useAnimation = 17 /\ z.useTime = 17 /\ z.damage = y.damage
    BY <2>1, FoodSet
  <2>3. QED
    BY <1>6, <2>2 DEF Contested
<1>7. CASE y.type \notin {2881, 3850, 3853, 4058, 4722, 4010}
  <2>1. z = y
    BY <1>7 DEF ForgottenItemSetDefaults
  <2>2. QED
    BY <1>7, <2>1 DEF Contested, Retimed
<1>8. QED
  BY <1>1, <1>2, <1>3, <1>4, <1>5, <1>6, <1>7

(* One more mod's function.                                                *)
LEMMA MadeByOneMore ==
  ASSUME NEW S, NEW x \in Item, ByGame(ItemMethod, x), NEW y, MadeBy(S, x, y),
         NEW m \in {"Accessorize", "Overclock", "ForgottenItem"}, NEW z, z = Effect(m, ItemMethod, y)
  PROVE  MadeBy(S \union {m}, x, z)
<1>1. y \in Item /\ y.type = x.type
  BY DEF MadeBy
<1>2. x.type \in {4058, 4722} => x.damage > 0
  BY DEF ByGame, ItemMethod
<1>3. x.type = 4010 => ~shouldOverclock(x)
  BY DEF ByGame, ItemMethod
<1>4. PICK w : w = ForgottenItemSetDefaults(x)
  OBVIOUS
<1>5. PICK T : T = S \union {m}
  OBVIOUS
<1>6. CASE m = "Accessorize"
  <2>1. z = AccessorizeSetDefaults(y)
    BY <1>6, EffectIs
  <2>2. /\ z \in Item
        /\ z.type = y.type /\ z.createTile = y.createTile /\ z.createWall = y.createWall
        /\ z.headSlot = y.headSlot /\ z.bodySlot = y.bodySlot /\ z.legSlot = y.legSlot
        /\ z.damage = y.damage /\ z.useTime = y.useTime /\ z.useAnimation = y.useAnimation
        /\ z.accessory <=> y.accessory \/ Wearable(y)
    BY <1>1, <2>1 DEF AccessorizeSetDefaults, Item, Wearable
  <2>3. "Accessorize" \in T /\ ("Overclock" \in T <=> "Overclock" \in S)
        /\ ("ForgottenItem" \in T <=> "ForgottenItem" \in S)
    BY <1>5, <1>6
  <2>4. Wearable(y) <=> Wearable(x)
    BY DEF MadeBy, Wearable
  <2>5. MadeBy(T, x, z)
    BY <2>2, <2>3, <2>4 DEF MadeBy
  <2>6. QED
    BY <1>5, <2>5
<1>7. CASE m = "Overclock"
  <2>1. z = OverclockSetDefaults(y)
    BY <1>7, EffectIs
  <2>2. /\ Retimed(y, z) /\ z.damage = y.damage
        /\ shouldOverclock(y) => z.useTime = 1 /\ z.useAnimation = 5
        /\ ~shouldOverclock(y) => z.useTime = y.useTime /\ z.useAnimation = y.useAnimation
    <3>1. CASE shouldOverclock(y)
      <4>1. z = Sped(y, 5, 1)
        BY <2>1, <3>1 DEF OverclockSetDefaults, Sped
      <4>2. Retimed(y, z) /\ z.damage = y.damage /\ z.useTime = 1 /\ z.useAnimation = 5
        BY <1>1, <4>1, SpeedSet
      <4>3. QED
        BY <3>1, <4>2
    <3>2. CASE ~shouldOverclock(y)
      <4>1. z = y
        BY <2>1, <3>2 DEF OverclockSetDefaults
      <4>2. QED
        BY <1>1, <3>2, <4>1 DEF Retimed
    <3>3. QED
      BY <3>1, <3>2
  <2>3. "Overclock" \in T /\ ("Accessorize" \in T <=> "Accessorize" \in S)
        /\ ("ForgottenItem" \in T <=> "ForgottenItem" \in S)
    BY <1>5, <1>7
  <2>4. ASSUME x.type \notin Contested PROVE shouldOverclock(y) <=> shouldOverclock(x)
    <3>1. y.damage = x.damage \/ y.damage = w.damage
      BY <1>4 DEF MadeBy
    <3>2. y.damage = x.damage \/ (x.type \in {4058, 4722} /\ y.damage > 0)
      BY <1>4, <2>4, <3>1, ForgottenFields DEF Contested
    <3>3. y.damage > 0 <=> x.damage > 0
      BY <1>2, <3>2
    <3>4. QED
      BY <3>3 DEF MadeBy, shouldOverclock
  <2>5. MadeBy(T, x, z)
    <3>1. CASE x.type \notin Contested
      BY <2>2, <2>3, <2>4, <3>1 DEF MadeBy, Retimed
    <3>2. CASE x.type \in Contested
      BY <2>2, <2>3, <3>2 DEF MadeBy, Retimed
    <3>3. QED
      BY <3>1, <3>2
  <2>6. QED
    BY <1>5, <2>5
<1>8. CASE m = "ForgottenItem"
  <2>1. z = ForgottenItemSetDefaults(y)
    BY <1>8, EffectIs DEF ItemMethod
  <2>2. "ForgottenItem" \in T /\ ("Accessorize" \in T <=> "Accessorize" \in S)
        /\ ("Overclock" \in T <=> "Overclock" \in S)
    BY <1>5, <1>8
  <2>3. y.damage = x.damage \/ y.damage = w.damage
    BY <1>4 DEF MadeBy
  <2>4. z.damage = w.damage
    BY <1>1, <1>4, <2>1, <2>3, ForgottenFields
  <2>5. ASSUME x.type \notin Contested
        PROVE  IF "Overclock" \in T /\ shouldOverclock(x) THEN z.useTime = 1 /\ z.useAnimation = 5
               ELSE z.useTime = w.useTime /\ z.useAnimation = w.useAnimation
    <3>1. CASE x.type = 4010
      BY <1>1, <1>3, <1>4, <2>1, <2>5, <3>1, ForgottenFields
    <3>2. CASE x.type # 4010
      <4>1. z.useTime = y.useTime /\ z.useAnimation = y.useAnimation
        BY <1>1, <2>1, <2>5, <3>2, ForgottenFields
      <4>2. w.useTime = x.useTime /\ w.useAnimation = x.useAnimation
        BY <1>4, <2>5, <3>2, ForgottenFields
      <4>3. QED
        BY <1>4, <2>2, <2>5, <4>1, <4>2 DEF MadeBy
    <3>3. QED
      BY <3>1, <3>2
  <2>6. Retimed(y, z)
    BY <1>1, <2>1, ForgottenFields
  <2>7. MadeBy(T, x, z)
    BY <1>4, <2>2, <2>4, <2>5, <2>6 DEF MadeBy, Retimed
  <2>8. QED
    BY <1>5, <2>7
<1>9. QED
  BY <1>6, <1>7, <1>8

Heads(mods, i) == {mods[j] : j \in 1 .. i}

(* And so on along a list.                                                 *)
LEMMA MadeBySteps ==
  ASSUME NEW x \in Item, ByGame(ItemMethod, x),
         NEW mods \in Seq({"Accessorize", "Overclock", "ForgottenItem"}),
         NEW made, Steps(made, mods, ItemMethod, x)
  PROVE  \A i \in 0 .. Len(mods) : MadeBy(Heads(mods, i), x, made[i])
<1>1. PICK n : n = Len(mods)
  OBVIOUS
<1>2. n \in Nat /\ DOMAIN mods = 1 .. n
  BY <1>1
<1> DEFINE Bad == {i \in 0 .. n : ~MadeBy(Heads(mods, i), x, made[i])}
<1>3. Bad = {}
  <2> SUFFICES ASSUME Bad # {} PROVE FALSE
    OBVIOUS
  <2>1. Bad \subseteq Nat
    BY <1>2
  <2>2. PICK i \in Bad : \A j \in Bad : i <= j
    BY <2>1, NatLeast
  <2>3. CASE i = 0
    <3>1. made[0] = x
      BY DEF Steps
    <3>2. Heads(mods, 0) = {}
      BY DEF Heads
    <3>3. MadeBy({}, x, x)
      BY DEF MadeBy
    <3>4. QED
      BY <2>2, <2>3, <3>1, <3>2, <3>3
  <2>4. CASE i # 0
    <3>1. i \in 1 .. n /\ i - 1 \in 0 .. n /\ ~(i <= i - 1)
      BY <1>2, <2>4
    <3>2. MadeBy(Heads(mods, i - 1), x, made[i - 1])
      BY <2>2, <3>1
    <3>3. mods[i] \in {"Accessorize", "Overclock", "ForgottenItem"}
      BY <1>2, <3>1, SeqElement
    <3>4. made[i] = Effect(mods[i], ItemMethod, made[i - 1])
      BY <1>1, <3>1 DEF Steps
    <3>5. Heads(mods, i) = Heads(mods, i - 1) \union {mods[i]}
      <4>1. 1 .. i = (1 .. i - 1) \union {i}
        BY <1>2, <3>1
      <4>2. QED
        BY <4>1 DEF Heads
    <3>6. MadeBy(Heads(mods, i - 1) \union {mods[i]}, x, made[i])
      BY <3>2, <3>3, <3>4, MadeByOneMore
    <3>7. QED
      BY <3>5, <3>6
  <2>5. QED
    BY <2>3, <2>4
<1>4. QED
  BY <1>1, <1>3, Zenon

(* So every list of the same mods makes the same of an item.               *)
LEMMA MadeByAll ==
  ASSUME NEW x \in Item, ByGame(ItemMethod, x),
         NEW mods \in Seq({"Accessorize", "Overclock", "ForgottenItem"})
  PROVE  MadeBy(ToSet(mods), x, Effects(mods, ItemMethod, x))
<1>1. PICK made : Steps(made, mods, ItemMethod, x)
  BY EffectsAreSteps
<1>2. PICK n : n = Len(mods)
  OBVIOUS
<1>3. n \in Nat /\ DOMAIN mods = 1 .. n /\ n \in 0 .. n
  BY <1>2
<1>4. Heads(mods, n) = ToSet(mods)
  BY <1>3 DEF ToSet, Heads
<1>5. MadeBy(Heads(mods, n), x, made[n])
  BY <1>1, <1>2, <1>3, MadeBySteps
<1>6. QED
  BY <1>1, <1>2, <1>4, <1>5 DEF Steps

(* The mods that hook Item's SetDefaults.                                  *)
LEMMA ItemMods ==
  ASSUME lineup \subseteq DOMAIN Mod, NEW mods \in Seq(lineup), Serves(mods, ItemMethod, lineup)
  PROVE  mods \in Seq({"Accessorize", "Overclock", "ForgottenItem"})
<1> DEFINE A == {"Accessorize", "Overclock", "ForgottenItem"}
<1>1. \A m \in lineup : ItemMethod \in Mod[m].hooks => m \in A
  BY Names, Hooks DEF ItemMethod
<1>2. ToSet(mods) \subseteq A
  BY <1>1 DEF Serves
<1>3. \A i \in DOMAIN mods : mods[i] \in A
  BY <1>2 DEF ToSet
<1> HIDE DEF A
<1>4. mods \in Seq(A)
  BY <1>3
<1>5. QED
  BY <1>4 DEF A

(* The last call made what any other order of the same mods would have.    *)
LEMMA OrdersAgree == IInv /\ CallsInv => EveryHookActs
<1> SUFFICES ASSUME IInv, CallsInv, last # NoCall, NEW order \in SetToSeqs(Hooking(last.method))
             PROVE  Agree(last.method, last.after, Effects(order, last.method, last.before))
  BY DEF EveryHookActs
<1>1. PICK method, x, after, mods : method = last.method /\ x = last.before /\ after = last.after
                                    /\ mods = last.by
  OBVIOUS
<1>2. /\ lineup \subseteq DOMAIN Mod
      /\ mods \in Seq(lineup) /\ Serves(mods, method, lineup)
      /\ after = Effects(mods, method, x)
      /\ \E m \in lineup : method \in Mod[m].hooks
      /\ ByGame(method, x)
  BY <1>1, CallMade
<1>3. order \in Seq(lineup) /\ Serves(order, method, lineup)
  BY <1>1, <1>2, OrderServes
<1>4. PICK other : other = Effects(order, method, x)
  OBVIOUS
<1>5. CASE method # ItemMethod
  <2>1. PICK m \in lineup : method \in Mod[m].hooks
    BY <1>2
  <2>2. after = Effect(m, method, x)
    BY <1>2, <1>5, <2>1, OneMakesTheSame
  <2>3. other = Effect(m, method, x)
    BY <1>2, <1>3, <1>4, <1>5, <2>1, OneMakesTheSame
  <2>4. QED
    BY <1>1, <1>4, <2>2, <2>3 DEF Agree
<1>6. CASE method = ItemMethod
  <2>1. x \in Item /\ method[1] = "Item"
    BY <1>2, <1>6 DEF ByGame, ItemMethod
  <2>2. ToSet(mods) = ToSet(order)
    BY <1>2, <1>3 DEF Serves
  <2>3. MadeBy(ToSet(mods), x, after)
    BY <1>2, <1>6, <2>1, ItemMods, MadeByAll
  <2>4. MadeBy(ToSet(mods), x, other)
    BY <1>2, <1>3, <1>4, <1>6, <2>1, <2>2, ItemMods, MadeByAll
  <2>5. after = other \/ (x.type \in Contested /\ Speedless(after) = Speedless(other))
    BY <2>1, <2>3, <2>4, MadeByOne
  <2>6. after.type = x.type
    BY <2>3 DEF MadeBy
  <2>7. QED
    BY <1>1, <1>4, <2>1, <2>5, <2>6 DEF Agree
<1>7. QED
  BY <1>5, <1>6

----------------------------------------------------------------------------
(* A contested item.                                                       *)

(* Overclock's function came after every one of ForgottenItem's.           *)
Overclocked(mods, i) ==
  \E k \in 1 .. i : mods[k] = "Overclock" /\ \A j \in k .. i : mods[j] # "ForgottenItem"

(* From ForgottenItem's function on, the item is a weapon, and the last    *)
(* function that sets the speed is seen in it.                             *)
LEMMA LastSets ==
  ASSUME NEW x \in Item, ByGame(ItemMethod, x), x.type \in Contested,
         NEW mods \in Seq({"Accessorize", "Overclock", "ForgottenItem"}),
         "ForgottenItem" \in ToSet(mods)
  PROVE  Effects(mods, ItemMethod, x).useTime = 1 <=> Overclocked(mods, Len(mods))
<1>1. PICK made : Steps(made, mods, ItemMethod, x)
  BY EffectsAreSteps
<1>2. PICK n : n = Len(mods)
  OBVIOUS
<1>3. n \in Nat /\ DOMAIN mods = 1 .. n
  BY <1>2
<1>4. PICK p \in 1 .. n : mods[p] = "ForgottenItem"
  BY <1>3 DEF ToSet
<1>5. \A i \in 0 .. n : MadeBy(Heads(mods, i), x, made[i])
  BY <1>1, <1>2, MadeBySteps
<1> DEFINE Right(i) == made[i].useTime = 1 <=> Overclocked(mods, i)
<1>6. ASSUME NEW i \in p .. n, i = p \/ Right(i - 1)
      PROVE  Right(i)
  <2>1. i \in 1 .. n /\ i - 1 \in 0 .. n
    BY <1>3, <1>4
  <2>2. PICK y, z : y = made[i - 1] /\ z = made[i]
    OBVIOUS
  <2>3. z = Effect(mods[i], ItemMethod, y)
    BY <1>1, <1>2, <2>1, <2>2 DEF Steps
  <2>4. y \in Item /\ y.type = x.type
    BY <1>5, <2>1, <2>2 DEF MadeBy
  <2>5. CASE mods[i] = "ForgottenItem"
    <3>1. z = ForgottenItemSetDefaults(y)
      BY <2>3, <2>5, EffectIs DEF ItemMethod
    <3>2. z.useTime # 1
      BY <2>4, <3>1, ForgottenFields
    <3>3. \A k \in 1 .. i : i \in k .. i
      BY <2>1
    <3>4. QED
      BY <2>2, <2>5, <3>2, <3>3 DEF Overclocked
  <2>6. CASE mods[i] = "Overclock"
    <3>1. z = OverclockSetDefaults(y)
      BY <2>3, <2>6, EffectIs
    <3>2. i # p /\ p \in 1 .. i - 1
      BY <1>4, <2>1, <2>6
    <3>3. "ForgottenItem" \in Heads(mods, i - 1)
      BY <1>4, <3>2 DEF Heads
    <3>4. y.damage = ForgottenItemSetDefaults(x).damage
      BY <1>5, <2>1, <2>2, <3>3 DEF MadeBy
    <3>5. y.damage > 0
      BY <3>4, ForgottenFields DEF Contested
    <3>6. shouldOverclock(y)
      BY <3>5 DEF shouldOverclock
    <3>7. z = Sped(y, 5, 1)
      BY <3>1, <3>6 DEF OverclockSetDefaults, Sped
    <3>8. z.useTime = 1
      BY <2>4, <3>7, SpeedSet
    <3>9. i \in 1 .. i /\ i .. i = {i}
      BY <2>1
    <3>10. Overclocked(mods, i)
      BY <2>6, <3>9 DEF Overclocked
    <3>11. QED
      BY <2>2, <3>8, <3>10
  <2>7. CASE mods[i] = "Accessorize"
    <3>1. z = AccessorizeSetDefaults(y)
      BY <2>3, <2>7, EffectIs
    <3>2. z.useTime = y.useTime
      BY <2>4, <3>1 DEF AccessorizeSetDefaults, Item
    <3>3. Right(i - 1)
      BY <1>4, <1>6, <2>7
    <3>4. Overclocked(mods, i) <=> Overclocked(mods, i - 1)
      <4>1. 1 .. i = (1 .. i - 1) \union {i}
        BY <2>1
      <4>2. \A k \in 1 .. i - 1 : k .. i = (k .. i - 1) \union {i}
        BY <2>1
      <4>3. QED
        BY <2>7, <4>1, <4>2 DEF Overclocked
    <3>5. QED
      BY <2>2, <3>2, <3>3, <3>4
  <2>8. mods[i] \in {"Accessorize", "Overclock", "ForgottenItem"}
    BY <1>3, <2>1, SeqElement
  <2>9. QED
    BY <2>5, <2>6, <2>7, <2>8
<1> HIDE DEF Right
<1> DEFINE Bad == {i \in p .. n : ~Right(i)}
<1>7. Bad = {}
  <2> SUFFICES ASSUME Bad # {} PROVE FALSE
    OBVIOUS
  <2>1. Bad \subseteq Nat
    BY <1>3, <1>4
  <2>2. PICK i \in Bad : \A j \in Bad : i <= j
    BY <2>1, NatLeast
  <2>3. i = p \/ (i - 1 \in p .. n /\ ~(i <= i - 1))
    BY <1>3, <1>4
  <2>4. QED
    BY <1>6, <2>2, <2>3
<1>8. n \in p .. n
  BY <1>3, <1>4
<1>9. Right(n)
  BY <1>7, <1>8
<1>10. QED
  BY <1>1, <1>2, <1>9 DEF Right, Steps

(* In the last call the order decided the speed.                           *)
LEMMA LastDecides == IInv /\ CallsInv => LastWins
<1> SUFFICES ASSUME IInv, CallsInv, last # NoCall, last.method[1] = "Item",
                    {"ForgottenItem", "Overclock"} \subseteq Range(last.by), last.before.type \in Contested
             PROVE  last.after.useTime = 1 <=>
                      \E i \in DOMAIN last.by : /\ last.by[i] = "Overclock"
                                                /\ \A j \in i .. Len(last.by) : last.by[j] # "ForgottenItem"
  BY DEF LastWins
<1>1. PICK method, x, after, mods : method = last.method /\ x = last.before /\ after = last.after
                                    /\ mods = last.by
  OBVIOUS
<1>2. /\ lineup \subseteq DOMAIN Mod
      /\ mods \in Seq(lineup) /\ Serves(mods, method, lineup)
      /\ after = Effects(mods, method, x)
      /\ \E m \in lineup : method \in Mod[m].hooks
      /\ ByGame(method, x)
  BY <1>1, CallMade
<1>3. method = ItemMethod
  BY <1>1, <1>2, Names, Hooks DEF ItemMethod
<1>4. x \in Item
  BY <1>2, <1>3 DEF ByGame, ItemMethod
<1>5. mods \in Seq({"Accessorize", "Overclock", "ForgottenItem"})
  BY <1>2, <1>3, ItemMods
<1>6. "ForgottenItem" \in ToSet(mods)
  BY <1>1 DEF Range, ToSet
<1>7. after.useTime = 1 <=> Overclocked(mods, Len(mods))
  BY <1>1, <1>2, <1>3, <1>4, <1>5, <1>6, LastSets
<1>8. DOMAIN mods = 1 .. Len(mods)
  BY <1>2
<1>9. QED
  BY <1>1, <1>7, <1>8 DEF Overclocked

----------------------------------------------------------------------------
(* The theorems about what a call does.                                    *)

(* However the mods were loaded and registered, every mod that hooks a     *)
(* method acts on each call of it, as in any other order but for the speed *)
(* of the contested items.                                                 *)
THEOREM EveryModActs == Spec => []EveryHookActs
BY OrdersAgree, InvHolds, CallsHold, PTL

(* The speed of a contested item is set by the function that runs last.    *)
THEOREM LastFunctionWins == Spec => []LastWins
BY LastDecides, InvHolds, CallsHold, PTL

(* What ForgottenItem makes shimmer do, shimmer undoes.                    *)
THEOREM ShimmerTurnsBack == Spec => []ShimmerSymmetric
BY ShimmersBack, InvHolds, CallsHold, PTL
=============================================================================
