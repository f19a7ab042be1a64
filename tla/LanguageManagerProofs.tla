----------------------- MODULE LanguageManagerProofs -----------------------
(***************************************************************************)
(* Which pack has which language, and what a choice of language shows, for *)
(* any packs, any number of languages, any cultures, and any config.json   *)
(* that lists no pack twice.                                               *)
(***************************************************************************)
EXTENDS LanguageManager, SubsequenceProofs

(* The finite sequence of S without two entries of one pack.               *)
OnceEach(s) == s \in Seq(Setting) /\ \A i, j \in DOMAIN s : s[i].path = s[j].path => i = j

----------------------------------------------------------------------------
(* The lists of init.                                                      *)

(* packs_info holds the enabled entries of a config.json that is there.    *)
LEMMA EnabledEntries ==
  ASSUME ConfigOK(config)
  PROVE  /\ OnceEach(Enabled)
         /\ configFile = "whole" => ToSet(Enabled) = {e \in ToSet(config) : e.isEnabled}
         /\ ToSet(Enabled) \subseteq ToSet(config)
<1>0. PICK I : I = {i \in DOMAIN config : config[i].isEnabled}
  OBVIOUS
<1>1. CASE configFile # "whole"
  <2>1. Enabled = <<>> /\ <<>> \in Seq(Setting) /\ DOMAIN <<>> = {}
    BY <1>1 DEF Enabled
  <2>2. QED
    BY <1>1, <2>1 DEF OnceEach, ToSet
<1>2. CASE configFile = "whole"
  <2>1. PICK t : t = Subsequence(config, I)
    OBVIOUS
  <2>2. config \in Seq(Setting) /\ I \in SUBSET (DOMAIN config)
    BY <1>0 DEF ConfigOK
  <2>3. /\ t \in Seq(Setting)
        /\ DOMAIN t = 1 .. Cardinality(I)
        /\ ToSet(t) = {config[i] : i \in I}
        /\ \A n \in 1 .. Cardinality(I) : Place(I, n) \in I /\ t[n] = config[Place(I, n)]
    BY <2>1, <2>2, SubsequenceElements
  <2>4. DOMAIN config = 1 .. Len(config) /\ Len(config) \in Nat
    BY <2>2
  <2>5. \A m, n \in 1 .. Cardinality(I) : m < n => Place(I, m) < Place(I, n)
    BY <2>2, <2>4, Places
  <2>6. \A m, n \in DOMAIN t : t[m].path = t[n].path => m = n
    <3> SUFFICES ASSUME NEW m \in DOMAIN t, NEW n \in DOMAIN t, t[m].path = t[n].path PROVE m = n
      OBVIOUS
    <3>1. Place(I, m) \in DOMAIN config /\ Place(I, n) \in DOMAIN config
      BY <2>2, <2>3
    <3>2. Place(I, m) = Place(I, n)
      BY <2>3, <3>1 DEF ConfigOK
    <3>3. Place(I, m) \in Nat /\ m \in Nat /\ n \in Nat
      BY <2>3, <2>4, <3>1
    <3>4. ~(m < n) /\ ~(n < m)
      BY <2>3, <2>5, <3>2, <3>3
    <3>5. QED
      BY <3>3, <3>4
  <2>7. {config[i] : i \in I} = {e \in ToSet(config) : e.isEnabled}
    BY <1>0 DEF ToSet
  <2>8. t = Enabled
    BY <1>0, <1>2, <2>1 DEF Enabled
  <2>9. QED
    BY <2>3, <2>6, <2>7, <2>8 DEF OnceEach
<1>3. QED
  BY <1>1, <1>2

(* std::sort loses nothing and lists nothing twice.                        *)
LEMMA OrderKeeps ==
  ASSUME NEW s, OnceEach(s), NEW order \in Orders(s)
  PROVE  OnceEach(order) /\ Len(order) = Len(s) /\ ToSet(order) = ToSet(s)
<1> DEFINE D == DOMAIN s
<1>1. PICK f \in [D -> D] : IsInjective(f) /\ order = [i \in D |-> s[f[i]]]
  BY DEF Orders
<1>2. D = 1 .. Len(s) /\ Len(s) \in Nat /\ s \in Seq(Setting)
  BY DEF OnceEach
<1>3. IsFiniteSet(D)
  BY <1>2, FS_Interval
<1>4. f \in Injection(D, D)
  BY <1>1 DEF Injection
<1>5. \A n \in D : \E i \in D : f[i] = n
  BY <1>3, <1>4, FS_Injection DEF Surjection
<1>6. order \in Seq(Setting) /\ DOMAIN order = D /\ Len(order) = Len(s)
  <2>1. \A i \in D : s[f[i]] \in Setting
    BY <1>1, <1>2, SeqElement
  <2>2. QED
    BY <1>1, <1>2, <2>1
<1>7. \A i, j \in D : order[i].path = order[j].path => i = j
  <2> SUFFICES ASSUME NEW i \in D, NEW j \in D, order[i].path = order[j].path PROVE i = j
    OBVIOUS
  <2>1. f[i] \in D /\ f[j] \in D /\ s[f[i]].path = s[f[j]].path
    BY <1>1
  <2>2. f[i] = f[j]
    BY <2>1 DEF OnceEach
  <2>3. QED
    BY <1>1, <2>2 DEF IsInjective
<1>8. ToSet(order) = ToSet(s)
  BY <1>1, <1>5, <1>6 DEF ToSet
<1>9. QED
  BY <1>6, <1>7, <1>8 DEF OnceEach

(* A language's pack is an entry of the sorted list at its place.          *)
LEMMA PacksOfOrder ==
  ASSUME NEW order, OnceEach(order)
  PROVE  /\ NumPacks(Len(order)) \in 0 .. Codes /\ NumPacks(Len(order)) <= Len(order)
         /\ DOMAIN PacksOf(order) = {i \in 1 .. NumPacks(Len(order)) : ~CtorThrows(order[i].path)}
         /\ \A i \in DOMAIN PacksOf(order) :
              /\ i \in DOMAIN order /\ i \in 1 .. Codes
              /\ PacksOf(order)[i] = order[i].path
              /\ PacksOf(order)[i] \in PackFiles
<1>1. DOMAIN order = 1 .. Len(order) /\ Len(order) \in Nat /\ order \in Seq(Setting)
  BY DEF OnceEach
<1>2. NumPacks(Len(order)) \in 0 .. Codes /\ NumPacks(Len(order)) <= Len(order)
  BY <1>1, ManagerAssumption DEF NumPacks
<1>3. \A i \in 1 .. NumPacks(Len(order)) : i \in DOMAIN order /\ i \in 1 .. Codes
  BY <1>1, <1>2, ManagerAssumption
<1>4. \A i \in DOMAIN order : order[i].path \in PackFiles
  <2>1. \A i \in DOMAIN order : order[i] \in Setting
    BY <1>1, SeqElement
  <2>2. QED
    BY <2>1 DEF Setting
<1>5. QED
  BY <1>2, <1>3, <1>4 DEF PacksOf

(* PriorityOf finds the entry of a pack.                                   *)
LEMMA PriorityOfEntry ==
  ASSUME ConfigOK(config), NEW e \in ToSet(config)
  PROVE  PriorityOf(e.path) = e.priority
<1>1. \A d \in ToSet(config) : d.path = e.path => d = e
  BY DEF ConfigOK, ToSet
<1>2. (CHOOSE d \in ToSet(config) : d.path = e.path) = e
  BY <1>1
<1>3. QED
  BY <1>2 DEF PriorityOf

----------------------------------------------------------------------------
(* The invariant.                                                          *)

(* packs is what init made of some order by priority.                      *)
Arranged(order) == order \in Orders(Enabled) /\ ByPriority(order) /\ packs = PacksOf(order)

Started ==
  /\ game = "off" => packs = <<>> /\ culture = None
  /\ game # "off" => \E order : Arranged(order)
  /\ language_list \in {<<>>, packs}

(* What LoadLanguage leaves when it loads p.                               *)
TextOf(p) ==
  [f \in CommonName |-> IF f \in Files(p) THEN [pack |-> p, culture |-> None] ELSE Completion(p)[f]]

(* Before the first choice; a choice without packs; a choice with packs.   *)
OnScreen ==
  game = "loaded" =>
    \/ culture = None /\ DOMAIN language_list = {}
    \/ culture \in Cultures /\ DOMAIN packs = {} /\ text = FromGame(culture)
    \/ /\ culture \in Cultures
       /\ language_list = packs
       /\ \E p \in Chosen(culture) : text = TextOf(p) /\ menu \in {<<>>, packs}

IInv == ConfigOK(config) /\ TypeOK /\ Started /\ OnScreen

(* A pack that is chosen has a language.                                   *)
LEMMA ChosenHasCode ==
  ASSUME NEW c, NEW p \in Chosen(c)
  PROVE  \E i \in DOMAIN packs : packs[i] = p
BY DEF Chosen, Cached

(* The texts are of the packs or of the game.                              *)
LEMMA Texts ==
  /\ \A c \in Cultures \union {None} :
       FromGame(c) \in [CommonName -> [pack : PackFiles \union {0}, culture : Cultures \union {None}]]
  /\ \A p \in PackFiles :
       /\ TextOf(p) \in [CommonName -> [pack : PackFiles \union {0}, culture : Cultures \union {None}]]
       /\ \A f \in CommonName :
            TextOf(p)[f] = IF f \in Files(p)
                           THEN [pack |-> p, culture |-> None]
                           ELSE [pack |-> 0, culture |-> IF Ghost(p) THEN Default ELSE PackInfo[p].autocomplete]
<1> DEFINE Text == [CommonName -> [pack : PackFiles \union {0}, culture : Cultures \union {None}]]
<1>1. \A c \in Cultures \union {None} : FromGame(c) \in Text
  BY DEF FromGame
<1>2. ASSUME NEW p \in PackFiles, NEW f \in CommonName
      PROVE  TextOf(p)[f] = IF f \in Files(p)
                           THEN [pack |-> p, culture |-> None]
                           ELSE [pack |-> 0, culture |-> IF Ghost(p) THEN Default ELSE PackInfo[p].autocomplete]
  BY DEF TextOf, Completion, FromGame
<1>3. \A p \in PackFiles : PackInfo[p].autocomplete \in Cultures /\ Default \in Cultures
  BY ManagerAssumption
<1>4. ASSUME NEW p \in PackFiles PROVE TextOf(p) \in Text
  <2>1. \A f \in CommonName : TextOf(p)[f] \in [pack : PackFiles \union {0}, culture : Cultures \union {None}]
    <3> SUFFICES ASSUME NEW f \in CommonName
                 PROVE  TextOf(p)[f] \in [pack : PackFiles \union {0}, culture : Cultures \union {None}]
      OBVIOUS
    <3>1. PICK c \in Cultures : c = IF Ghost(p) THEN Default ELSE PackInfo[p].autocomplete
      BY <1>3
    <3>2. TextOf(p)[f] = IF f \in Files(p) THEN [pack |-> p, culture |-> None] ELSE [pack |-> 0, culture |-> c]
      BY <1>2, <3>1
    <3>3. QED
      BY <3>2
  <2>2. TextOf(p) = [f \in CommonName |-> TextOf(p)[f]]
    BY DEF TextOf
  <2>3. QED
    BY <2>1, <2>2
<1>5. QED
  BY <1>1, <1>2, <1>4

(* The game before it starts.                                              *)
LEMMA OffInv ==
  ASSUME ConfigOK(config), Off
  PROVE  IInv
<1>1. DOMAIN <<>> = {}
  OBVIOUS
<1>2. TypeOK
  BY <1>1, Texts DEF TypeOK, Off
<1>3. QED
  BY <1>2 DEF IInv, Started, OnScreen, Off

(* JNI_OnLoad takes some order by priority.                                *)
LEMMA JNI_OnLoadInv ==
  ASSUME IInv, JNI_OnLoad
  PROVE  IInv'
<1>1. ConfigOK(config)' /\ Enabled' = Enabled
  BY DEF IInv, JNI_OnLoad, disk, ConfigOK, Enabled
<1>2. PICK order \in Orders(Enabled) : ByPriority(order) /\ packs' = PacksOf(order)
  BY DEF JNI_OnLoad
<1>3. OnceEach(order)
  BY <1>2, EnabledEntries, OrderKeeps DEF IInv
<1>4. TypeOK'
  <2>1. language_list = <<>> /\ DOMAIN <<>> = {}
    BY DEF IInv, Started, JNI_OnLoad
  <2>2. DOMAIN packs' \subseteq 1 .. Codes /\ \A i \in DOMAIN packs' : packs'[i] \in PackFiles
    BY <1>2, <1>3, PacksOfOrder
  <2>3. QED
    BY <2>1, <2>2 DEF IInv, TypeOK, JNI_OnLoad
<1>5. Started'
  <2>1. Arranged(order)'
    <3>1. PacksOf(order)' = PacksOf(order)
      BY DEF PacksOf, CtorThrows, JNI_OnLoad, disk
    <3>2. Orders(Enabled)' = Orders(Enabled)
      BY <1>1 DEF Orders
    <3>3. QED
      BY <1>2, <3>1, <3>2 DEF Arranged, ByPriority
  <2>2. language_list' = <<>> /\ game' = "loaded"
    BY DEF IInv, Started, JNI_OnLoad
  <2>3. QED
    BY <2>1, <2>2 DEF Started
<1>6. OnScreen'
  <2>1. language_list' = <<>> /\ culture' = None /\ DOMAIN <<>> = {}
    BY DEF IInv, Started, JNI_OnLoad
  <2>2. QED
    BY <2>1 DEF OnScreen
<1>7. QED
  BY <1>1, <1>4, <1>5, <1>6 DEF IInv

(* The hook changes neither packs nor the disk, and builds the list of     *)
(* languages from packs.                                                   *)
LEMMA StartedKept ==
  ASSUME IInv, UNCHANGED <<disk, packs>>, game # "off", game' # "off", language_list' \in {language_list, packs}
  PROVE  ConfigOK(config)' /\ Started'
<1>1. ConfigOK(config)' /\ Enabled' = Enabled
  BY DEF IInv, disk, ConfigOK, Enabled
<1>2. PICK order : Arranged(order)
  BY DEF IInv, Started
<1>3. Arranged(order)'
  <2>1. PacksOf(order)' = PacksOf(order)
    BY DEF PacksOf, CtorThrows, disk
  <2>2. Orders(Enabled)' = Orders(Enabled)
    BY <1>1 DEF Orders
  <2>3. QED
    BY <1>2, <2>1, <2>2 DEF Arranged, ByPriority
<1>4. QED
  BY <1>1, <1>3 DEF IInv, Started

(* What LoadLanguage shows is the chosen pack's, or the game's.            *)
LEMMA LoadLanguageInv ==
  ASSUME IInv, NEW c \in Cultures, LoadLanguage(c)
  PROVE  IInv'
<1>1. /\ game = "loaded" /\ UNCHANGED <<disk, packs>> /\ culture' = c
      /\ language_list \in {<<>>, packs}
  BY DEF IInv, Started, LoadLanguage
<1>2. /\ DOMAIN packs \subseteq 1 .. Codes /\ \A i \in DOMAIN packs : packs[i] \in PackFiles
      /\ DOMAIN <<>> = {}
  BY DEF IInv, TypeOK
<1>3. CASE DOMAIN packs = {} /\ text' = FromGame(c) /\ menu' = <<>> /\ UNCHANGED <<game, language_list>>
  <2>1. ConfigOK(config)' /\ Started'
    BY <1>1, <1>3, StartedKept
  <2>2. TypeOK'
    BY <1>1, <1>2, <1>3, Texts DEF IInv, TypeOK
  <2>3. OnScreen'
    BY <1>1, <1>3 DEF OnScreen, FromGame
  <2>4. QED
    BY <2>1, <2>2, <2>3 DEF IInv
<1>4. CASE \E p \in Chosen(c) : LoadPack(p)
  <2>1. PICK p \in Chosen(c) : LoadPack(p)
    BY <1>4
  <2>2. p \in PackFiles
    BY <1>2, ChosenHasCode
  <2>3. language_list' = packs /\ Listed = packs
    BY <1>1, <2>1 DEF LoadPack, Listed
  <2>4. CASE game' = "terminated" /\ UNCHANGED <<text, menu>>
    <3>1. ConfigOK(config)' /\ Started'
      BY <1>1, <2>3, <2>4, StartedKept
    <3>2. TypeOK'
      BY <1>1, <1>2, <2>3, <2>4 DEF IInv, TypeOK
    <3>3. OnScreen'
      BY <2>4 DEF OnScreen
    <3>4. QED
      BY <3>1, <3>2, <3>3 DEF IInv
  <2>5. CASE /\ text' = TextOf(p)
             /\ menu' \in {<<>>, packs}
             /\ UNCHANGED game
    <3>1. ConfigOK(config)' /\ Started'
      BY <1>1, <2>3, <2>5, StartedKept
    <3>2. TypeOK'
      BY <1>1, <1>2, <2>2, <2>3, <2>5, Texts DEF IInv, TypeOK
    <3>3. OnScreen'
      <4>1. TextOf(p)' = TextOf(p)
        BY <1>1 DEF TextOf, Completion, FromGame, Files, Ghost, disk
      <4>2. Chosen(c)' = Chosen(c)
        BY <1>1 DEF Chosen, Cached
      <4>3. QED
        BY <1>1, <2>1, <2>3, <2>5, <4>1, <4>2 DEF OnScreen
    <3>4. QED
      BY <3>1, <3>2, <3>3 DEF IInv
  <2>6. QED
    BY <2>1, <2>3, <2>4, <2>5 DEF LoadPack, TextOf
<1>5. CASE game' = "undefined" /\ UNCHANGED <<language_list, text, menu>>
  <2>1. ConfigOK(config)' /\ Started'
    BY <1>1, <1>5, StartedKept
  <2>2. TypeOK'
    BY <1>1, <1>2, <1>5 DEF IInv, TypeOK
  <2>3. OnScreen'
    BY <1>5 DEF OnScreen
  <2>4. QED
    BY <2>1, <2>2, <2>3 DEF IInv
<1>6. QED
  BY <1>3, <1>4, <1>5 DEF LoadLanguage

(* So the invariant outlives every step.                                   *)
LEMMA NextInv ==
  IInv /\ [Next]_vars => IInv'
<1> SUFFICES ASSUME IInv, [Next]_vars PROVE IInv'
  OBVIOUS
<1>1. CASE UNCHANGED vars
  <2>1. /\ zips' = zips /\ configFile' = configFile /\ config' = config
        /\ game' = game /\ packs' = packs /\ language_list' = language_list
        /\ text' = text /\ menu' = menu /\ culture' = culture
    BY <1>1 DEF vars, disk, native
  <2>2. ConfigOK(config)' /\ TypeOK'
    BY <2>1 DEF IInv, ConfigOK, TypeOK
  <2>3. Started'
    <3>1. CASE game = "off"
      BY <2>1, <3>1 DEF IInv, Started
    <3>2. CASE game # "off"
      BY <2>1, <3>2, StartedKept DEF disk
    <3>3. QED
      BY <3>1, <3>2
  <2>4. OnScreen'
    BY <2>1 DEF IInv, OnScreen, FromGame, Chosen, Cached, TextOf, Completion, Files, Ghost
  <2>5. QED
    BY <2>2, <2>3, <2>4 DEF IInv
<1>2. CASE JNI_OnLoad
  BY <1>2, JNI_OnLoadInv
<1>3. CASE \E c \in Cultures : LoadLanguage(c)
  BY <1>3, LoadLanguageInv
<1>4. CASE Exit
  <2>1. Off' /\ ConfigOK(config)'
    BY <1>4 DEF IInv, Exit, Off, FromGame, disk, ConfigOK
  <2>2. DOMAIN <<>> = {}
    OBVIOUS
  <2>3. TypeOK'
    BY <2>1, <2>2, Texts DEF Off, TypeOK, FromGame
  <2>4. QED
    BY <2>1, <2>3 DEF IInv, Off, Started, OnScreen
<1>5. QED
  BY <1>1, <1>2, <1>3, <1>4 DEF Next

----------------------------------------------------------------------------
(* What follows.                                                           *)

(* From any disk the page may leave, packs, menu and text are related as   *)
(* IInv says, however often the game is started and its language changed.  *)
THEOREM Invariance == Spec => []IInv
<1>1. Init => IInv
  <2> SUFFICES ASSUME Init PROVE IInv
    OBVIOUS
  <2>1. ConfigOK(config) /\ Off
    BY ManagerAssumption DEF Init
  <2>2. QED
    BY <2>1, OffInv
<1>2. QED
  BY <1>1, NextInv, PTL DEF Spec

(* Every variable stays in its range: no language is given that the game   *)
(* does not have.                                                          *)
THEOREM TypeCorrect == Spec => []TypeOK
<1>1. IInv => TypeOK
  BY DEF IInv
<1>2. QED
  BY <1>1, Invariance, PTL

(* init gives each enabled pack that can be read a language to itself, if  *)
(* there are enough, whatever order of equals std::sort leaves.            *)
LEMMA OneLanguageEach ==
  ASSUME ConfigOK(config), NEW order, Arranged(order), Len(Enabled) <= Codes,
         NEW e \in ToSet(Enabled), ~CtorThrows(e.path)
  PROVE  Cardinality({i \in DOMAIN packs : packs[i] = e.path}) = 1
<1>1. OnceEach(order) /\ Len(order) = Len(Enabled) /\ ToSet(order) = ToSet(Enabled)
  BY EnabledEntries, OrderKeeps DEF Arranged
<1>2. PICK k \in DOMAIN order : order[k] = e
  BY <1>1 DEF ToSet
<1>3. /\ DOMAIN packs = {i \in 1 .. NumPacks(Len(order)) : ~CtorThrows(order[i].path)}
      /\ \A i \in DOMAIN packs : i \in DOMAIN order /\ packs[i] = order[i].path
  BY <1>1, PacksOfOrder DEF Arranged
<1>4. NumPacks(Len(order)) = Len(order) /\ DOMAIN order = 1 .. Len(order)
  <2>1. order \in Seq(Setting) /\ Codes \in Nat
    BY <1>1, ManagerAssumption DEF OnceEach
  <2>2. Len(order) \in Nat /\ DOMAIN order = 1 .. Len(order) /\ Len(order) <= Codes
    BY <1>1, <2>1
  <2>3. \A n \in Nat : n <= Codes => NumPacks(n) = n
    BY <2>1 DEF NumPacks
  <2>4. QED
    BY <2>2, <2>3
<1>5. k \in DOMAIN packs /\ packs[k] = e.path
  BY <1>2, <1>3, <1>4
<1>6. \A i \in DOMAIN packs : packs[i] = e.path => i = k
  BY <1>1, <1>2, <1>3 DEF OnceEach
<1>7. {i \in DOMAIN packs : packs[i] = e.path} = {k}
  BY <1>5, <1>6
<1>8. QED
  BY <1>7, FS_Singleton

(* The earlier language goes to the pack of higher or equal priority.      *)
LEMMA EarlierIsHigher ==
  ASSUME ConfigOK(config), NEW order, Arranged(order),
         NEW i \in DOMAIN packs, NEW j \in DOMAIN packs, i < j
  PROVE  PriorityOf(packs[i]) >= PriorityOf(packs[j])
<1>1. OnceEach(order) /\ ToSet(order) \subseteq ToSet(config)
  BY EnabledEntries, OrderKeeps DEF Arranged
<1>2. \A k \in DOMAIN packs : k \in DOMAIN order /\ packs[k] = order[k].path
  BY <1>1, PacksOfOrder DEF Arranged
<1>3. \A k \in DOMAIN packs : order[k] \in ToSet(config)
  BY <1>1, <1>2 DEF ToSet
<1>4. \A k \in DOMAIN packs : PriorityOf(packs[k]) = order[k].priority
  BY <1>2, <1>3, PriorityOfEntry
<1>5. order[i].priority >= order[j].priority
  BY <1>2 DEF Arranged, ByPriority
<1>6. QED
  BY <1>4, <1>5

(* Every enabled pack whose constructor returns has one language to itself *)
(* if there are languages enough, and never a later one than a pack of     *)
(* lower priority.                                                         *)
THEOREM EachPackServed == Spec => []PacksServed
<1>1. IInv => PacksServed
  BY OneLanguageEach, EarlierIsHigher DEF IInv, Started, PacksServed
<1>2. QED
  BY <1>1, Invariance, PTL

(* Choosing the language with a pack's name in the menu shows the text of  *)
(* that pack, and the menu still names it.                                 *)
THEOREM MenuNamesPacks == Spec => []MenuTrue
<1>1. IInv => MenuTrue
  <2> SUFFICES ASSUME IInv, game = "loaded", IsInjective(CultureOf),
                      NEW i \in DOMAIN language_list, culture = CultureOf[i],
                      NEW p, p = language_list[i]
               PROVE  /\ \A f \in CommonName : text[f].pack = IF f \in Files(p) THEN p ELSE 0
                      /\ menu # <<>> => DOMAIN menu = DOMAIN packs /\ menu[i] = p
    BY DEF MenuTrue
  <2>1. language_list = packs /\ DOMAIN packs \subseteq 1 .. Codes /\ p \in PackFiles /\ i \in DOMAIN packs
    <3>1. DOMAIN <<>> = {}
      OBVIOUS
    <3>2. QED
      BY <3>1 DEF IInv, TypeOK, Started
  <2>2. PICK q \in Chosen(culture) : text = TextOf(q) /\ menu \in {<<>>, packs}
    BY <2>1 DEF IInv, OnScreen
  <2>3. Cached(culture) = {p}
    <3>1. \A j \in DOMAIN packs : CultureOf[j] = CultureOf[i] => j = i
      BY <2>1, ManagerAssumption DEF IsInjective
    <3>2. QED
      BY <2>1, <3>1 DEF Cached
  <2>4. q = p
    BY <2>2, <2>3 DEF Chosen
  <2>5. ASSUME NEW f \in CommonName PROVE text[f].pack = IF f \in Files(p) THEN p ELSE 0
    <3>1. PICK c : c = IF Ghost(p) THEN Default ELSE PackInfo[p].autocomplete
      OBVIOUS
    <3>2. text[f] = IF f \in Files(p) THEN [pack |-> p, culture |-> None] ELSE [pack |-> 0, culture |-> c]
      BY <2>1, <2>2, <2>4, <3>1, Texts
    <3>3. QED
      BY <3>2
  <2>6. menu # <<>> => DOMAIN menu = DOMAIN packs /\ menu[i] = p
    BY <2>1, <2>2
  <2>7. QED
    BY <2>5, <2>6
<1>2. QED
  BY <1>1, Invariance, PTL

(* What the pack on screen does not translate is in its autocomplete       *)
(* language, whatever was shown before.                                    *)
THEOREM TextCompleted == Spec => []CompletedText
<1>1. IInv => CompletedText
  <2> SUFFICES ASSUME IInv, game = "loaded", culture # None,
                      ~(DOMAIN packs = {} /\ text = FromGame(culture))
               PROVE  \E i \in DOMAIN packs : \A f \in CommonName \ Files(packs[i]) :
                        /\ text[f].pack = 0
                        /\ text[f].culture = IF Ghost(packs[i]) THEN Default ELSE PackInfo[packs[i]].autocomplete
    BY DEF CompletedText
  <2>1. PICK p \in Chosen(culture) : text = TextOf(p)
    BY DEF IInv, OnScreen
  <2>2. PICK i \in DOMAIN packs : packs[i] = p
    BY ChosenHasCode
  <2>3. p \in PackFiles
    BY <2>2 DEF IInv, TypeOK
  <2>4. ASSUME NEW f \in CommonName \ Files(p)
        PROVE  /\ text[f].pack = 0
               /\ text[f].culture = IF Ghost(p) THEN Default ELSE PackInfo[p].autocomplete
    <3>1. text[f] = [pack |-> 0, culture |-> IF Ghost(p) THEN Default ELSE PackInfo[p].autocomplete]
      BY <2>1, <2>3, Texts
    <3>2. QED
      BY <3>1
  <2>5. QED
    BY <2>2, <2>4
<1>2. QED
  BY <1>1, Invariance, PTL
=============================================================================
