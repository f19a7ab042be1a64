------------------------- MODULE TerraFormatsProofs -------------------------
(***************************************************************************)
(* What the player sorts on the page of TerraFormats is what the game      *)
(* gives languages to, whatever fails, for any number of copies, any kinds *)
(* of faults, any packs.  The page's own theorems hold here as well.       *)
(***************************************************************************)
EXTENDS TerraFormats, LanguagePageProofs

(* The game of TerraFormats, with what is proved of it.                    *)
Proved == INSTANCE LanguageManagerProofs WITH PackFiles <- Packs, Disks <- {}

(* It may assume what LanguageManager assumes.                             *)
LEMMA ManagerHolds ==
  /\ Packs \subseteq Nat \ {0}
  /\ Codes \in Nat \ {0}
  /\ Default \in Cultures
  /\ CultureOf \in [1 .. Codes -> Cultures]
  /\ "Base" \in CommonName
  /\ PackInfo \in [Packs -> [isCommon : BOOLEAN, autocomplete : Cultures,
                            files : SUBSET CommonName, baseParses : BOOLEAN]]
  /\ \A d \in {} : Proved!ConfigOK(d.config)
BY PageAssumption, CompositionAssumption DEF Packs

----------------------------------------------------------------------------
(* The two instances are one game.                                         *)

(* What init makes of the disk.                                            *)
LEMMA SameInit ==
  /\ Native!Enabled = Proved!Enabled
  /\ \A s : Native!Orders(s) = Proved!Orders(s)
  /\ \A order : Native!ByPriority(order) <=> Proved!ByPriority(order)
  /\ \A order : Native!PacksOf(order) = Proved!PacksOf(order)
<1>1. \A S : Native!Cardinality(S) = Proved!Cardinality(S)
  BY DEF Native!Cardinality, Proved!Cardinality
<1>2. \A I, n : Native!Place(I, n) = Proved!Place(I, n)
  BY <1>1 DEF Native!Place, Proved!Place
<1>3. \A s, I : Native!Subsequence(s, I) = Proved!Subsequence(s, I)
  BY <1>1, <1>2 DEF Native!Subsequence, Proved!Subsequence
<1>4. Native!Enabled = Proved!Enabled
  BY <1>3 DEF Native!Enabled, Proved!Enabled
<1>5. \A s : Native!Orders(s) = Proved!Orders(s)
  BY DEF Native!Orders, Proved!Orders, Native!IsInjective, Proved!IsInjective
<1>6. \A order : Native!ByPriority(order) <=> Proved!ByPriority(order)
  BY DEF Native!ByPriority, Proved!ByPriority
<1>7. \A order : Native!PacksOf(order) = Proved!PacksOf(order)
  BY DEF Native!PacksOf, Proved!PacksOf, Native!NumPacks, Proved!NumPacks, Native!CtorThrows, Proved!CtorThrows
<1>8. QED
  BY <1>4, <1>5, <1>6, <1>7

(* The steps.                                                              *)
LEMMA SameSteps ==
  /\ Native!Off => Proved!Off
  /\ Native!JNI_OnLoad => Proved!JNI_OnLoad
  /\ Native!Exit => Proved!Exit
<1>1. \A c : Native!FromGame(c) = Proved!FromGame(c)
  BY DEF Native!FromGame, Proved!FromGame
<1>2. Native!None = Proved!None
  BY DEF Native!None, Proved!None
<1>3. QED
  BY <1>1, <1>2, SameInit
     DEF Native!Off, Proved!Off, Native!JNI_OnLoad, Proved!JNI_OnLoad, Native!Exit, Proved!Exit,
         Native!disk, Proved!disk

----------------------------------------------------------------------------
(* The order of the page.                                                  *)

(* Of two enabled entries the earlier has the higher or an equal priority. *)
Descends(s) ==
  \A i, j \in DOMAIN s : i < j /\ s[i].isEnabled /\ s[j].isEnabled => s[i].priority >= s[j].priority

(* An entry of a list has a switch and a priority.                         *)
LEMMA EntryTyped ==
  ASSUME NEW s, Listed(s), NEW i \in DOMAIN s
  PROVE  s[i] \in Setting /\ s[i].isEnabled \in BOOLEAN /\ s[i].priority \in Int /\ i \in Nat
<1>1. s[i] \in Setting /\ i \in Nat
  BY SeqElement DEF Listed
<1>2. QED
  BY <1>1, PageAssumption DEF Setting

(* sortedWith puts the enabled packs in this order.                        *)
LEMMA SortedDescends ==
  ASSUME NEW s, Listed(s)
  PROVE  Descends(Sorted(s))
<1> DEFINE D == DOMAIN s
<1>1. s \in Seq(Setting)
  BY DEF Listed
<1>2. PICK f : f = [n \in D |-> CHOOSE i \in D : Rank(s, i) = n]
  OBVIOUS
<1>3. \A n \in D : f[n] \in D /\ Rank(s, f[n]) = n
  BY <1>1, <1>2, Ranks
<1>4. PICK t : t = Sorted(s)
  OBVIOUS
<1>5. DOMAIN t = D /\ \A n \in D : t[n] = s[f[n]]
  BY <1>2, <1>4 DEF Sorted
<1>6. ASSUME NEW m \in D, NEW n \in D, m < n, t[m].isEnabled, t[n].isEnabled
      PROVE  t[m].priority >= t[n].priority
  <2>1. /\ s[f[m]].isEnabled \in BOOLEAN /\ s[f[m]].priority \in Int /\ m \in Nat
        /\ s[f[n]].isEnabled \in BOOLEAN /\ s[f[n]].priority \in Int /\ n \in Nat
    BY <1>3, EntryTyped
  <2>2. s[f[m]].isEnabled = s[f[n]].isEnabled
    BY <1>5, <1>6, <2>1, Zenon
  <2>3. ~Before(s, f[n], f[m])
    <3>1. Before(s, f[n], f[m]) => Rank(s, f[n]) < Rank(s, f[m])
      BY <1>1, <1>3, Ranks
    <3>2. QED
      BY <1>3, <1>6, <2>1, <3>1
  <2>4. ~(s[f[n]].priority > s[f[m]].priority)
    BY <2>2, <2>3, Zenon DEF Before
  <2>5. QED
    BY <1>5, <2>1, <2>4
<1>7. QED
  BY <1>4, <1>5, <1>6 DEF Descends

(* A filter keeps it.                                                      *)
LEMMA FilterDescends ==
  ASSUME NEW s, Listed(s), Descends(s), NEW I \in SUBSET (DOMAIN s)
  PROVE  Descends(Subsequence(s, I))
<1>1. PICK t : t = Subsequence(s, I)
  OBVIOUS
<1>0. s \in Seq(Setting)
  BY DEF Listed
<1>2. /\ DOMAIN t = 1 .. Cardinality(I)
      /\ \A n \in 1 .. Cardinality(I) : Place(I, n) \in I /\ t[n] = s[Place(I, n)]
      /\ \A m, n \in 1 .. Cardinality(I) : m < n => Place(I, m) < Place(I, n)
  <2>1. /\ DOMAIN Subsequence(s, I) = 1 .. Cardinality(I)
        /\ \A n \in 1 .. Cardinality(I) :
              Place(I, n) \in I /\ Subsequence(s, I)[n] = s[Place(I, n)]
        /\ \A m, n \in 1 .. Cardinality(I) : m < n => Place(I, m) < Place(I, n)
    BY <1>0, SubsequenceElements
  <2>2. QED
    BY <1>1, <2>1, Zenon
<1>3. QED
  BY <1>1, <1>2 DEF Descends

(* Either loadPackInfos changes nothing, or it sorts.                      *)
LEMMA LoadDescends ==
  ASSUME IInv, LoadPackInfos, Descends(packInfos)
  PROVE  Descends(packInfos')
<1>1. CASE configFile = "torn"
  BY <1>1 DEF LoadPackInfos
<1>2. CASE configFile # "torn"
  <2>1. PICK s : s = Present
    OBVIOUS
  <2>2. Listed(s)
    BY <2>1, PresentListed DEF IInv, ListsOK
  <2>3. {i \in DOMAIN s : Readable(s[i].path)} \in SUBSET (DOMAIN s)
    OBVIOUS
  <2>4. Listed(ReadableOf(s))
    BY <2>2, <2>3, Filtered DEF ReadableOf
  <2>5. packInfos' = Sorted(ReadableOf(s))
    BY <1>2, <2>1 DEF LoadPackInfos
  <2>6. QED
    BY <2>4, <2>5, SortedDescends
<1>3. QED
  BY <1>1, <1>2

----------------------------------------------------------------------------
(* What more the game needs of the page.                                   *)

(* Every deletion went on to open config.json.                             *)
Opens == No({"crash", "open"})

(* Only a config.json that is there has entries; only the entry of a pack  *)
(* being deleted has no zip; the page shows its packs in order.            *)
PageKeeps ==
  /\ configFile # "whole" => config = <<>>
  /\ Opens => \A e \in ToSet(config) : zips[e.path] # "absent" \/ (pc = "open" /\ e.path = target)
  /\ Descends(packInfos) /\ (thenLoad \/ Descends(toSave))

(* The empty list is in order.                                             *)
LEMMA EmptyDescends ==
  Descends(<<>>)
<1>1. DOMAIN <<>> = {}
  OBVIOUS
<1>2. QED
  BY <1>1 DEF Descends

(* The zip of an entry is there, or absent, but never an empty file.       *)
LEMMA EntryFits ==
  ASSUME IInv, NEW e \in ToSet(config)
  PROVE  e.path \in Packs /\ e.path \in Paths(config) /\ zips[e.path] \in {"absent"} \union PageReads
<1>1. clock \in Nat /\ ListOK(config, zips, clock)
  BY PageAssumption DEF IInv, Types, ListsOK
<1>2. QED
  BY <1>1, ListElement DEF ListOK, Fits

(* A step that leaves config.json alone.                                   *)
LEMMA SameConfig ==
  ASSUME IInv, PageKeeps, UNCHANGED <<configFile, config>>, faults \subseteq faults',
         pc # "open" \/ ~Opens',
         \A e \in ToSet(config) :
           zips[e.path] # "absent" => zips'[e.path] # "absent" \/ (pc' = "open" /\ e.path = target'),
         Descends(packInfos'), thenLoad' \/ Descends(toSave')
  PROVE  PageKeeps'
<1>1. Opens' => Opens
  BY DEF Opens, No
<1>2. ToSet(config)' = ToSet(config)
  BY DEF ToSet
<1>3. ASSUME Opens', NEW e \in ToSet(config)
      PROVE  zips'[e.path] # "absent" \/ (pc' = "open" /\ e.path = target')
  BY <1>1, <1>3 DEF PageKeeps
<1>4. Descends(packInfos)' /\ (thenLoad \/ Descends(toSave))'
  BY DEF Descends
<1>5. QED
  BY <1>2, <1>3, <1>4 DEF PageKeeps

(* A failed installation deletes only files without content.               *)
LEMMA CleanUpKeeps ==
  ASSUME IInv, NEW files \in [Packs -> AllContents \union {"absent"}], NEW e \in ToSet(config),
         files[e.path] = zips[e.path], zips[e.path] # "absent"
  PROVE  CleanUp(files)[e.path] # "absent"
<1>1. e.path \in Packs /\ zips[e.path] # "empty"
  BY EntryFits DEF PageReads
<1>2. QED
  BY <1>1, Cleaned

(* The zip that is copied is not listed yet.                               *)
LEMMA InstallKeeps ==
  ASSUME IInv, PageKeeps, NEW content \in Contents, InstallPack(content)
  PROVE  PageKeeps'
<1>1. /\ pc = "idle" /\ clock \in Nat /\ clock + 1 \in Packs
      /\ UNCHANGED <<configFile, config, packInfos, toSave, thenLoad>>
  BY PageAssumption DEF IInv, Types, InstallPack, Packs
<1>2. zips \in [Packs -> AllContents \union {"absent"}]
  BY DEF IInv, Types
<1>3. faults \subseteq faults'
  BY DEF InstallPack, Fault
<1>4. ASSUME NEW e \in ToSet(config), zips[e.path] # "absent" PROVE zips'[e.path] # "absent"
  <2>1. CASE zips' = [zips EXCEPT ![clock + 1] = "empty"]
    BY <1>2, <1>4, <2>1, EntryFits
  <2>2. CASE zips' = CleanUp(zips)
    BY <1>2, <1>4, <2>2, CleanUpKeeps
  <2>3. QED
    BY <2>1, <2>2 DEF InstallPack
<1>5. QED
  BY <1>1, <1>3, <1>4, SameConfig DEF PageKeeps

(* Nor is it when it has been copied.                                      *)
LEMMA CopyKeeps ==
  ASSUME IInv, PageKeeps, CopyPack
  PROVE  PageKeeps'
<1>1. /\ pc = "copy" /\ clock \in Packs /\ clock \notin Paths(config)
      /\ UNCHANGED <<configFile, config, packInfos>>
  BY DEF IInv, Zips, CopyPack
<1>2. zips \in [Packs -> AllContents \union {"absent"}] /\ picked \in AllContents
  BY DEF IInv, Types
<1>3. faults \subseteq faults'
  BY DEF CopyPack, Fault
<1>4. PICK content \in AllContents : Copied(content) \/ NotCopied(content)
  BY <1>2, PartsKnown DEF CopyPack
<1>5. PICK files : files = [zips EXCEPT ![clock] = content]
  OBVIOUS
<1>6. /\ files \in [Packs -> AllContents \union {"absent"}]
      /\ \A e \in ToSet(config) : files[e.path] = zips[e.path]
  BY <1>1, <1>2, <1>4, <1>5, EntryFits
<1>7. CASE Copied(content)
  <2>1. zips' = files /\ thenLoad' = TRUE
    BY <1>5, <1>7 DEF Copied, SaveConfig
  <2>2. QED
    BY <1>1, <1>3, <1>6, <2>1, SameConfig DEF PageKeeps
<1>8. CASE NotCopied(content)
  <2>1. zips' = CleanUp(files) /\ UNCHANGED <<toSave, thenLoad>>
    BY <1>5, <1>8 DEF NotCopied
  <2>2. QED
    BY <1>1, <1>3, <1>6, <2>1, CleanUpKeeps, SameConfig DEF PageKeeps
<1>9. QED
  BY <1>4, <1>7, <1>8

(* A pack is deleted first and then its entry.                             *)
LEMMA DeleteKeeps ==
  ASSUME IInv, PageKeeps, NEW p \in Packs, DeletePack(p)
  PROVE  PageKeeps'
<1>1. /\ pc = "idle" /\ pc' = "open" /\ target' = p /\ toSave' = Others(p)
      /\ UNCHANGED <<configFile, config, packInfos>>
  BY DEF DeletePack, SaveConfig, page
<1>2. faults \subseteq faults'
  BY DEF DeletePack, Fault
<1>3. zips \in [Packs -> AllContents \union {"absent"}] /\ (zips' = zips \/ zips' = [zips EXCEPT ![p] = "absent"])
  BY DEF IInv, Types, DeletePack
<1>4. Descends(toSave')
  <2>1. {i \in DOMAIN packInfos : packInfos[i].path # p} \in SUBSET (DOMAIN packInfos) /\ Listed(packInfos)
    BY DEF IInv, ListsOK, ListOK
  <2>2. QED
    BY <1>1, <2>1, FilterDescends DEF Others, PageKeeps
<1>5. ASSUME NEW e \in ToSet(config), zips[e.path] # "absent", e.path # p PROVE zips'[e.path] # "absent"
  BY <1>3, <1>5, EntryFits
<1>6. QED
  BY <1>1, <1>2, <1>4, <1>5, SameConfig DEF PageKeeps

(* Switch and priority of a card are saved, and then loaded again.         *)
LEMMA ChangeKeeps ==
  ASSUME IInv, PageKeeps, NEW p \in Packs,
         Switch(p) \/ \E step \in {-1, 1} : UpdatePriority(p, step)
  PROVE  PageKeeps'
<1>1. pc = "idle" /\ UNCHANGED <<zips, configFile, config, packInfos, faults>>
  BY DEF Switch, UpdatePriority, disk
<1>2. thenLoad' = TRUE \/ UNCHANGED <<toSave, thenLoad>>
  BY DEF Switch, TogglePack, UpdatePriority, SaveConfig
<1>3. QED
  BY <1>1, <1>2, SameConfig DEF PageKeeps

(* config.json is emptied, or cannot be opened.                            *)
LEMMA OpenKeeps ==
  ASSUME IInv, PageKeeps, SaveOpen
  PROVE  PageKeeps'
<1>1. UNCHANGED <<zips, packInfos, toSave, target, thenLoad>>
  BY DEF SaveOpen
<1>2. CASE configFile' = "torn" /\ config' = <<>>
  <2>1. ToSet(config)' = {}
    BY <1>2, EmptyList
  <2>2. QED
    BY <1>1, <1>2, <2>1 DEF PageKeeps, Descends
<1>3. CASE Fault("open") /\ UNCHANGED <<configFile, config>>
  <2>1. ~Opens' /\ faults \subseteq faults'
    BY <1>3 DEF Opens, No, Fault
  <2>2. QED
    BY <1>1, <1>3, <2>1, SameConfig DEF PageKeeps
<1>4. QED
  BY <1>2, <1>3 DEF SaveOpen

(* What is written is the list to save, whose zips are there.              *)
LEMMA WriteKeeps ==
  ASSUME IInv, PageKeeps, SaveWrite
  PROVE  PageKeeps'
<1>1. pc = "write" /\ UNCHANGED <<zips, packInfos, toSave, target, thenLoad>>
  BY DEF SaveWrite
<1>2. CASE configFile' = "whole" /\ config' = toSave
  <2>1. \A e \in ToSet(config') : zips'[e.path] # "absent"
    BY <1>1, <1>2 DEF IInv, Zips, Readable, PageReads
  <2>2. QED
    BY <1>1, <1>2, <2>1 DEF PageKeeps, Descends
<1>3. CASE Fault("write") /\ UNCHANGED <<configFile, config>>
  <2>1. faults \subseteq faults'
    BY <1>3 DEF Fault
  <2>2. QED
    BY <1>1, <1>3, <2>1, SameConfig DEF PageKeeps
<1>4. QED
  BY <1>2, <1>3 DEF SaveWrite

(* What is shown next was sorted now or before.                            *)
LEMMA ShowKeeps ==
  ASSUME IInv, PageKeeps, Saved \/ Compose \/ \E p \in Packs : Scroll(p)
  PROVE  PageKeeps'
<1>1. pc # "open" /\ UNCHANGED <<zips, configFile, config, faults>>
  BY DEF Saved, Compose, Scroll, disk
<1>2. Descends(packInfos')
  <2>1. CASE LoadPackInfos
    BY <2>1, LoadDescends DEF PageKeeps
  <2>2. CASE packInfos' = Kept /\ ~thenLoad
    BY <2>2 DEF PageKeeps, Kept
  <2>3. CASE packInfos' = packInfos
    BY <2>3 DEF PageKeeps
  <2>4. QED
    BY <2>1, <2>2, <2>3 DEF Saved, Compose, Scroll
<1>3. thenLoad' \/ Descends(toSave')
  <2>1. toSave' = <<>> \/ UNCHANGED <<toSave, thenLoad>>
    BY DEF Saved, Compose, Scroll, handler
  <2>2. QED
    BY <2>1, EmptyDescends DEF PageKeeps
<1>4. QED
  BY <1>1, <1>2, <1>3, SameConfig

(* A page that ends between deletion and opening is a crash.               *)
LEMMA RestartKeeps ==
  ASSUME IInv, PageKeeps, Restart
  PROVE  PageKeeps'
<1>1. packInfos' = <<>> /\ toSave' = <<>> /\ UNCHANGED <<configFile, config>>
  BY DEF Restart
<1>2. faults \subseteq faults' /\ (pc = "open" => ~Opens')
  <2>1. CASE pc = "idle"
    BY <2>1 DEF Restart
  <2>2. CASE pc = "write"
    BY <2>2 DEF Restart, Fault
  <2>3. CASE pc \notin {"idle", "write"}
    BY <2>3 DEF Restart, Fault, Opens, No
  <2>4. QED
    BY <2>1, <2>2, <2>3
<1>3. ASSUME NEW e \in ToSet(config) PROVE zips'[e.path] = zips[e.path]
  <2>1. e.path \in Packs /\ e.path \in Paths(config) /\ zips \in [Packs -> AllContents \union {"absent"}]
    BY EntryFits DEF IInv, Types
  <2>2. CASE pc = "copy"
    <3>1. e.path # clock
      BY <2>1, <2>2 DEF IInv, Zips
    <3>2. PICK part : zips' = [zips EXCEPT ![clock] = part]
      BY <2>2 DEF Restart
    <3>3. QED
      BY <2>1, <3>1, <3>2
  <2>3. CASE pc # "copy"
    BY <2>3 DEF Restart
  <2>4. QED
    BY <2>2, <2>3
<1>4. QED
  BY <1>1, <1>2, <1>3, EmptyDescends, SameConfig

(* So it outlives every step of the page.                                  *)
LEMMA PageKeepsNext ==
  ASSUME IInv, PageKeeps, Next
  PROVE  PageKeeps'
BY InstallKeeps, CopyKeeps, DeleteKeeps, ChangeKeeps, OpenKeeps, WriteKeeps, ShowKeeps, RestartKeeps DEF Next

----------------------------------------------------------------------------
(* The invariant of page and game.                                         *)

BothInv ==
  /\ IInv /\ PageKeeps
  /\ Proved!IInv
  /\ game \in {"off", "loaded"}
  /\ game = "loaded" => pc \in {"idle", "compose"}

(* The game can read what the page writes.                                 *)
LEMMA ConfigFits ==
  ASSUME IInv
  PROVE  Proved!ConfigOK(config)
<1>1. config \in Seq(Setting) /\ Distinct(config)
  BY DEF IInv, ListsOK, ListOK, Listed
<1>2. \A i \in DOMAIN config : config[i] \in Proved!Setting
  <2>1. \A i \in DOMAIN config : config[i] \in Setting
    BY <1>1, SeqElement
  <2>2. Setting \subseteq Proved!Setting
    BY PageAssumption DEF Setting, Proved!Setting
  <2>3. QED
    BY <2>1, <2>2
<1>3. config \in Seq(Proved!Setting)
  BY <1>1, <1>2
<1>4. QED
  BY <1>1, <1>3 DEF Proved!ConfigOK, Distinct

(* At the start there is no list and no game.                              *)
LEMMA BothInitInv ==
  BothInit => BothInv
<1> SUFFICES ASSUME BothInit PROVE BothInv
  OBVIOUS
<1>1. IInv
  BY InitInv DEF BothInit
<1>2. PageKeeps
  <2>1. config = <<>> /\ packInfos = <<>> /\ toSave = <<>>
    BY DEF BothInit, Init
  <2>2. QED
    BY <2>1, EmptyList, EmptyDescends DEF PageKeeps
<1>3. Proved!IInv
  BY <1>1, ConfigFits, ManagerHolds, SameSteps, Proved!OffInv DEF BothInit
<1>4. game = "off"
  BY DEF BothInit, Native!Off
<1>5. QED
  BY <1>1, <1>2, <1>3, <1>4 DEF BothInv

(* The page does not move while the game runs, and the game changes        *)
(* nothing the page has.                                                   *)
LEMMA BothNextInv ==
  BothInv /\ [BothNext]_allVars => BothInv'
<1>0. (IInv => Proved!ConfigOK(config))'
  <2>1. IInv => Proved!ConfigOK(config)
    BY ConfigFits
  <2>2. QED
    BY ConfigFits, PTL
<1> SUFFICES ASSUME BothInv, [BothNext]_allVars PROVE BothInv'
  OBVIOUS
<1>1. CASE UNCHANGED allVars
  <2>1. UNCHANGED vars /\ UNCHANGED <<game, packs, language_list, text, menu, culture>>
    BY <1>1 DEF allVars, native
  <2>2. UNCHANGED <<zips, configFile, config, packInfos, pc, target, toSave, thenLoad, faults>>
    BY <2>1 DEF vars, disk, page, handler
  <2>3. IInv'
    BY <2>1, NextInv DEF BothInv
  <2>4. PageKeeps'
    BY <2>2 DEF BothInv, PageKeeps, Opens, No, Descends
  <2>5. Proved!IInv'
    <3>1. UNCHANGED Proved!vars
      BY <2>1, <2>2 DEF Proved!vars, Proved!disk, Proved!native
    <3>2. QED
      BY <3>1, ManagerHolds, Proved!NextInv DEF BothInv
  <2>6. QED
    BY <2>1, <2>2, <2>3, <2>4, <2>5 DEF BothInv
<1>2. CASE UsePage
  <2>1. game = "off" /\ Next /\ UNCHANGED <<game, packs, language_list, text, menu, culture>>
    BY <1>2 DEF UsePage, native
  <2>2. IInv' /\ PageKeeps'
    BY <2>1, NextInv, PageKeepsNext DEF BothInv
  <2>3. Proved!IInv'
    BY <1>0, <2>1, <2>2 DEF BothInv, Proved!IInv, Proved!TypeOK, Proved!Started, Proved!OnScreen
  <2>4. QED
    BY <2>1, <2>2, <2>3 DEF BothInv
<1>3. CASE StartGame
  <2>1. pc \in {"idle", "compose"} /\ Native!JNI_OnLoad /\ UNCHANGED <<page, handler, clock, installed, faults>>
    BY <1>3 DEF StartGame
  <2>2. UNCHANGED disk /\ game' = "loaded"
    BY <2>1 DEF Native!JNI_OnLoad, Native!disk, disk
  <2>3. UNCHANGED vars
    BY <2>1, <2>2 DEF vars
  <2>4. UNCHANGED <<zips, configFile, config, packInfos, pc, target, toSave, thenLoad, faults>>
    BY <2>3 DEF vars, disk, page, handler
  <2>5. IInv' /\ PageKeeps'
    BY <2>3, <2>4, NextInv DEF BothInv, PageKeeps, Opens, No, Descends
  <2>6. Proved!IInv'
    BY <2>1, SameSteps, ManagerHolds, Proved!JNI_OnLoadInv DEF BothInv
  <2>7. QED
    BY <2>1, <2>2, <2>4, <2>5, <2>6 DEF BothInv
<1>4. CASE LeaveGame
  <2>1. Native!Exit /\ UNCHANGED <<page, handler, clock, installed, faults>>
    BY <1>4 DEF LeaveGame
  <2>2. UNCHANGED disk /\ game' = "off"
    BY <2>1 DEF Native!Exit, Native!disk, disk
  <2>3. UNCHANGED vars
    BY <2>1, <2>2 DEF vars
  <2>4. UNCHANGED <<zips, configFile, config, packInfos, pc, target, toSave, thenLoad, faults>>
    BY <2>3 DEF vars, disk, page, handler
  <2>5. IInv' /\ PageKeeps'
    BY <2>3, <2>4, NextInv DEF BothInv, PageKeeps, Opens, No, Descends
  <2>6. Proved!IInv'
    <3>1. Proved!Next
      BY <2>1, SameSteps DEF Proved!Next
    <3>2. QED
      BY <3>1, ManagerHolds, Proved!NextInv DEF BothInv
  <2>7. QED
    BY <2>2, <2>5, <2>6 DEF BothInv
<1>5. QED
  BY <1>1, <1>2, <1>3, <1>4 DEF BothNext

----------------------------------------------------------------------------
(* What follows.                                                           *)

(* Whatever is proved of the page alone holds beside the game: this is one *)
(* of its behaviours.                                                      *)
THEOREM PageAsBefore == BothSpec => Spec
<1>1. BothInit => Init
  BY DEF BothInit
<1>2. [BothNext]_allVars => [Next]_vars
  BY DEF BothNext, UsePage, StartGame, LeaveGame, Native!JNI_OnLoad, Native!Exit, Native!disk, disk, vars, allVars
<1>3. QED
  BY <1>1, <1>2, PTL DEF BothSpec, Spec

(* Page, disk and game are related as BothInv says, through every fault    *)
(* and every game.                                                         *)
THEOREM BothInvariance == BothSpec => []BothInv
BY BothInitInv, BothNextInv, PTL DEF BothSpec

(* The operators of the library are the same in both.                      *)
LEMMA SameOperators ==
  /\ \A S : Proved!Cardinality(S) = Cardinality(S)
  /\ \A s : Proved!ToSet(s) = ToSet(s)
<1>1. \A S : Proved!Cardinality(S) = Cardinality(S)
  BY DEF Proved!Cardinality, Cardinality
<1>2. \A s : Proved!ToSet(s) = ToSet(s)
  BY DEF Proved!ToSet, ToSet
<1>3. QED
  BY <1>1, <1>2

(* A page at rest shows entries of config.json.                            *)
LEMMA ShownInConfig ==
  ASSUME IInv, pc = "idle", SavesDone, NEW i \in DOMAIN packInfos
  PROVE  packInfos[i] \in ToSet(config) /\ packInfos[i] \in Setting
<1>1. packInfos[i] \in ToSet(packInfos) /\ packInfos[i] \in Setting
  BY SeqElement DEF ToSet, IInv, ListsOK, ListOK, Listed
<1>2. ToSet(packInfos) = Entries
  BY DEF IInv, Shown
<1>3. QED
  BY <1>1, <1>2 DEF Entries

(* The game enables no more packs than it has languages.                   *)
LEMMA FewEnabled ==
  ASSUME IInv
  PROVE  Len(Proved!Enabled) <= Codes
<1>1. CASE configFile # "whole"
  <2>1. Proved!Enabled = <<>> /\ Len(<<>>) = 0
    BY <1>1 DEF Proved!Enabled
  <2>2. QED
    BY <2>1, ManagerHolds
<1>2. CASE configFile = "whole"
  <2>1. PICK I : I = {i \in DOMAIN config : config[i].isEnabled}
    OBVIOUS
  <2>2. Proved!Enabled = Proved!Subsequence(config, I)
    BY <1>2, <2>1 DEF Proved!Enabled
  <2>3. config \in Seq(Setting) /\ I \in SUBSET (DOMAIN config)
    BY <2>1 DEF IInv, ListsOK, ListOK, Listed
  <2>4. Len(Proved!Subsequence(config, I)) = Proved!Cardinality(I)
    BY <2>3, ManagerHolds, Proved!SubsequenceElements
  <2>5. Cardinality(I) <= MaxEnabled
    BY <2>1 DEF IInv, ListsOK, ListOK, Capped, EnabledIn
  <2>6. QED
    BY <2>2, <2>4, <2>5, SameOperators, CompositionAssumption
<1>3. QED
  BY <1>1, <1>2

(* Each pack the page shows as enabled and the game can load has one of    *)
(* the game's languages, unless a save failed.                             *)
THEOREM EnabledHaveLanguages == BothSpec => []EnabledServed
<1>1. BothInv => EnabledServed
  <2> SUFFICES ASSUME BothInv, game = "loaded", pc = "idle", SavesDone, NEW i \in DOMAIN packInfos,
                      packInfos[i].isEnabled, zips[packInfos[i].path] = "loadable"
               PROVE  \E c \in DOMAIN packs : packs[c] = packInfos[i].path
    BY DEF EnabledServed, Running, SavesDone
  <2>1. PICK e : e = packInfos[i]
    OBVIOUS
  <2>2. e \in ToSet(config) /\ Proved!ConfigOK(config)
    BY <2>1, ShownInConfig DEF BothInv, Proved!IInv
  <2>3. configFile = "whole"
    BY <2>2, EmptyList DEF BothInv, PageKeeps
  <2>4. e \in Proved!ToSet(Proved!Enabled)
    BY <2>1, <2>2, <2>3, ManagerHolds, SameOperators, Proved!EnabledEntries
  <2>5. ~Proved!CtorThrows(e.path)
    BY <2>1 DEF Proved!CtorThrows
  <2>6. PICK order : Proved!Arranged(order)
    BY DEF BothInv, Proved!IInv, Proved!Started
  <2>7. Len(Proved!Enabled) <= Codes
    BY FewEnabled DEF BothInv
  <2>8. Proved!Cardinality({c \in DOMAIN packs : packs[c] = e.path}) = 1
    BY <2>2, <2>4, <2>5, <2>6, <2>7, ManagerHolds, Proved!OneLanguageEach
  <2>9. {c \in DOMAIN packs : packs[c] = e.path} # {}
    BY <2>8, SameOperators, FS_EmptySet
  <2>10. QED
    BY <2>1, <2>9
<1>2. QED
  BY <1>1, BothInvariance, PTL

(* A pack with a language is that of an enabled entry.                     *)
LEMMA GivenToEnabled ==
  ASSUME IInv, NEW order, Proved!Arranged(order), NEW c \in DOMAIN packs
  PROVE  \E e \in ToSet(config) : e.isEnabled /\ e.path = packs[c]
<1>1. Proved!ConfigOK(config)
  BY ConfigFits
<1>2. /\ Proved!OnceEach(Proved!Enabled)
      /\ configFile = "whole" => ToSet(Proved!Enabled) = {e \in ToSet(config) : e.isEnabled}
      /\ configFile # "whole" => ToSet(Proved!Enabled) = {}
  <2>1. configFile # "whole" => Proved!Enabled = <<>>
    BY DEF Proved!Enabled
  <2>2. QED
    BY <1>1, <2>1, ManagerHolds, SameOperators, EmptyList, Proved!EnabledEntries
<1>3. Proved!OnceEach(order) /\ ToSet(order) = ToSet(Proved!Enabled) /\ packs = Proved!PacksOf(order)
  BY <1>2, ManagerHolds, SameOperators, Proved!OrderKeeps DEF Proved!Arranged
<1>4. c \in DOMAIN order /\ packs[c] = order[c].path
  BY <1>3, ManagerHolds, Proved!PacksOfOrder
<1>5. order[c] \in ToSet(Proved!Enabled)
  BY <1>3, <1>4 DEF ToSet
<1>6. QED
  BY <1>2, <1>4, <1>5

(* Of two packs with languages the one higher on the page has the earlier  *)
(* language, or both have the same priority.                               *)
THEOREM HigherHasEarlier == BothSpec => []PageOrderKept
<1>1. BothInv => PageOrderKept
  <2> SUFFICES ASSUME BothInv, game = "loaded", pc = "idle", SavesDone,
                      NEW i \in DOMAIN packInfos, NEW j \in DOMAIN packInfos, i < j,
                      NEW c \in DOMAIN packs, NEW d \in DOMAIN packs,
                      packs[c] = packInfos[i].path, packs[d] = packInfos[j].path
               PROVE  c < d \/ packInfos[i].priority = packInfos[j].priority
    BY DEF PageOrderKept, Running, SavesDone
  <2>1. Proved!ConfigOK(config) /\ c \in Int /\ d \in Int
    BY ManagerHolds DEF BothInv, Proved!IInv, Proved!TypeOK
  <2>2. PICK order : Proved!Arranged(order)
    BY DEF BothInv, Proved!IInv, Proved!Started
  <2>3. /\ packInfos[i] \in ToSet(config) /\ packInfos[j] \in ToSet(config)
        /\ packInfos[i].priority \in Int /\ packInfos[j].priority \in Int
    BY ShownInConfig, PageAssumption DEF BothInv, Setting
  <2>4. /\ Proved!PriorityOf(packs[c]) = packInfos[i].priority
        /\ Proved!PriorityOf(packs[d]) = packInfos[j].priority
    BY <2>1, <2>3, ManagerHolds, SameOperators, Proved!PriorityOfEntry
  <2>5. packInfos[i].isEnabled /\ packInfos[j].isEnabled
    <3>1. Distinct(config)
      BY DEF BothInv, IInv, ListsOK, ListOK, Listed
    <3>2. PICK e \in ToSet(config) : e.isEnabled /\ e.path = packInfos[i].path
      BY <2>2, GivenToEnabled DEF BothInv
    <3>3. PICK f \in ToSet(config) : f.isEnabled /\ f.path = packInfos[j].path
      BY <2>2, GivenToEnabled DEF BothInv
    <3>4. e = packInfos[i] /\ f = packInfos[j]
      BY <2>3, <3>1, <3>2, <3>3, OneEntry
    <3>5. QED
      BY <3>2, <3>3, <3>4
  <2>6. packInfos[i].priority >= packInfos[j].priority
    BY <2>5 DEF BothInv, PageKeeps, Descends
  <2>7. d < c => packInfos[j].priority >= packInfos[i].priority
    BY <2>1, <2>2, <2>4, ManagerHolds, Proved!EarlierIsHigher
  <2>8. c # d
    <3>1. Distinct(packInfos) /\ i # j
      <4>1. packInfos \in Seq(Setting) /\ Distinct(packInfos)
        BY DEF BothInv, IInv, ListsOK, ListOK, Listed
      <4>2. i \in Int /\ j \in Int
        BY <4>1
      <4>3. QED
        BY <4>1, <4>2
    <3>2. QED
      BY <3>1 DEF Distinct
  <2>9. QED
    BY <2>1, <2>3, <2>6, <2>7, <2>8
<1>2. QED
  BY <1>1, BothInvariance, PTL

(* A language is only given to a pack the page can show, unless a crash or *)
(* an unopenable config.json left the entry of a deleted one alone.        *)
THEOREM NoGhosts == BothSpec => []NoGhostPack
<1>1. BothInv => NoGhostPack
  <2> SUFFICES ASSUME BothInv, game = "loaded", Opens, NEW c \in DOMAIN packs
               PROVE  Readable(packs[c])
    BY DEF NoGhostPack, Opens
  <2>1. PICK order : Proved!Arranged(order)
    BY DEF BothInv, Proved!IInv, Proved!Started
  <2>2. PICK e \in ToSet(config) : e.path = packs[c]
    BY <2>1, GivenToEnabled DEF BothInv
  <2>3. zips[e.path] # "absent"
    BY DEF BothInv, PageKeeps
  <2>4. zips[e.path] \in PageReads
    BY <2>3, EntryFits DEF BothInv
  <2>5. QED
    BY <2>2, <2>4 DEF Readable
<1>2. QED
  BY <1>1, BothInvariance, PTL
=============================================================================
