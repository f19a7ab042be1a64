------------------------- MODULE TexturePacksProofs -------------------------
(***************************************************************************)
(* What the player sets up on the page of TexturePack is what the game     *)
(* does, whatever fails, for any number of copies, any kinds of faults,    *)
(* any packs.  First of the page alone (TexturePage), then of page and     *)
(* game (TexturePacks): the game changes nothing of the page, and the page *)
(* nothing of a game that has started, so that the page's theorems and the *)
(* loader's (TextureLoaderProofs) hold together.                           *)
(***************************************************************************)
EXTENDS TexturePacks, SubsequenceProofs

Distinct(s) == \A i, j \in DOMAIN s : s[i].file = s[j].file => i = j

(* A list as it may stand in memory or in config.json.                     *)
Listed(s) == s \in Seq(Setting) /\ Distinct(s)

----------------------------------------------------------------------------
(* The lists the page makes of lists.                                      *)

(* A filtered list lists nothing twice and nothing else.                   *)
LEMMA Filtered ==
  ASSUME NEW s, Listed(s), NEW I \in SUBSET (DOMAIN s)
  PROVE  /\ Listed(Subsequence(s, I))
         /\ ToSet(Subsequence(s, I)) = {s[i] : i \in I}
         /\ Files(Subsequence(s, I)) = {s[i].file : i \in I}
<1> DEFINE t == Subsequence(s, I)
<1>1. s \in Seq(Setting) /\ Distinct(s)
  BY DEF Listed
<1>2. /\ t \in Seq(Setting) /\ DOMAIN t = 1 .. Cardinality(I) /\ Cardinality(I) \in Nat
      /\ ToSet(t) = {s[i] : i \in I}
      /\ \A n \in DOMAIN t : Place(I, n) \in I /\ t[n] = s[Place(I, n)]
      /\ \A i \in I : \E n \in DOMAIN t : Place(I, n) = i
      /\ \A m, n \in DOMAIN t : m < n => Place(I, m) < Place(I, n)
  BY <1>1, SubsequenceElements
<1> HIDE DEF t
<1>3. \A n \in DOMAIN t : Place(I, n) \in DOMAIN s /\ Place(I, n) \in Int /\ n \in Int
  BY <1>1, <1>2
<1>4. Distinct(t)
  <2> SUFFICES ASSUME NEW m \in DOMAIN t, NEW n \in DOMAIN t, t[m].file = t[n].file PROVE m = n
    BY DEF Distinct
  <2>1. Place(I, m) = Place(I, n)
    BY <1>1, <1>2, <1>3 DEF Distinct
  <2>2. ~(m < n) /\ ~(n < m) /\ m \in Int /\ n \in Int
    BY <1>2, <1>3, <2>1
  <2>3. QED
    BY <2>2
<1>5. Files(t) = {s[i].file : i \in I}
  <2>1. Files(t) = {t[n].file : n \in DOMAIN t}
    BY DEF Files
  <2>2. (\A n \in DOMAIN t : \E i \in I : t[n].file = s[i].file) /\ (\A i \in I : \E n \in DOMAIN t : t[n].file = s[i].file)
    BY <1>2
  <2>3. QED
    BY <2>1, <2>2
<1>6. QED
  BY <1>2, <1>4, <1>5 DEF t, Listed

(* sortedByDescending { isEnabled } loses nothing, and keeps the order of  *)
(* the enabled packs.                                                      *)
LEMMA EnabledFirstKeeps ==
  ASSUME NEW s, Listed(s)
  PROVE  /\ Listed(EnabledFirst(s))
         /\ ToSet(EnabledFirst(s)) = ToSet(s)
         /\ Files(EnabledFirst(s)) = Files(s)
         /\ EnabledOf(EnabledFirst(s)) = EnabledOf(s)
<1> DEFINE I == {i \in DOMAIN s : s[i].enable}
           J == {i \in DOMAIN s : ~s[i].enable}
<1>1. PICK a, b : a = EnabledOf(s) /\ b = DisabledOf(s)
  OBVIOUS
<1>2. /\ Listed(a) /\ ToSet(a) = {s[i] : i \in I} /\ Files(a) = {s[i].file : i \in I}
      /\ Listed(b) /\ ToSet(b) = {s[i] : i \in J} /\ Files(b) = {s[i].file : i \in J}
  <2>1. I \in SUBSET (DOMAIN s) /\ J \in SUBSET (DOMAIN s)
    OBVIOUS
  <2>2. QED
    BY <1>1, <2>1, Filtered DEF EnabledOf, DisabledOf
<1>3. a \in Seq(Setting) /\ b \in Seq(Setting)
  BY <1>2 DEF Listed
<1>4. PICK c : c = a \o b
  OBVIOUS
<1>5. /\ c \in Seq(Setting) /\ Len(a) \in Nat /\ Len(b) \in Nat
      /\ DOMAIN c = 1 .. Len(a) + Len(b)
      /\ DOMAIN a = 1 .. Len(a) /\ DOMAIN b = 1 .. Len(b)
      /\ \A n \in DOMAIN a : c[n] = a[n]
      /\ \A n \in DOMAIN c : n \in DOMAIN a \/ n - Len(a) \in DOMAIN b
      /\ ToSet(c) = ToSet(a) \union ToSet(b)
  BY <1>3, <1>4, JoinElements
<1>6. \A n \in DOMAIN c : n \notin DOMAIN a => n - Len(a) \in DOMAIN b /\ c[n] = b[n - Len(a)]
  <2> SUFFICES ASSUME NEW n \in DOMAIN c, n \notin DOMAIN a PROVE n - Len(a) \in DOMAIN b /\ c[n] = b[n - Len(a)]
    OBVIOUS
  <2>1. n - Len(a) \in DOMAIN b
    BY <1>5
  <2>2. c[Len(a) + (n - Len(a))] = b[n - Len(a)]
    BY <1>3, <1>4, <2>1, JoinElements
  <2>3. Len(a) + (n - Len(a)) = n
    BY <1>5
  <2>4. QED
    BY <2>1, <2>2, <2>3
<1>7. (\A n \in DOMAIN a : a[n].enable /\ a[n] \in Setting) /\ (\A n \in DOMAIN b : ~b[n].enable /\ b[n] \in Setting)
  <2>1. (\A n \in DOMAIN a : a[n] \in ToSet(a)) /\ (\A n \in DOMAIN b : b[n] \in ToSet(b))
    BY DEF ToSet
  <2>2. (\A n \in DOMAIN a : a[n] \in Setting) /\ (\A n \in DOMAIN b : b[n] \in Setting)
    BY <1>3, SeqElement
  <2>3. QED
    BY <1>2, <2>1, <2>2
<1>8. ToSet(c) = ToSet(s)
  BY <1>2, <1>5 DEF ToSet
<1>9. Distinct(c)
  <2>1. ASSUME NEW m \in DOMAIN a, NEW n \in DOMAIN b PROVE a[m].file # b[n].file
    <3>1. (\A q \in DOMAIN a : a[q] \in ToSet(a)) /\ (\A q \in DOMAIN b : b[q] \in ToSet(b))
      BY DEF ToSet
    <3>2. PICK i \in I : a[m] = s[i]
      BY <1>2, <3>1
    <3>3. PICK j \in J : b[n] = s[j]
      BY <1>2, <3>1
    <3>4. QED
      BY <3>2, <3>3 DEF Listed, Distinct
  <2> SUFFICES ASSUME NEW m \in DOMAIN c, NEW n \in DOMAIN c, c[m].file = c[n].file PROVE m = n
    BY DEF Distinct
  <2>2. CASE m \in DOMAIN a /\ n \in DOMAIN a
    BY <1>2, <1>5, <2>2 DEF Listed, Distinct
  <2>3. CASE m \in DOMAIN a /\ n \notin DOMAIN a
    BY <1>5, <1>6, <2>1, <2>3
  <2>4. CASE m \notin DOMAIN a /\ n \in DOMAIN a
    BY <1>5, <1>6, <2>1, <2>4
  <2>5. CASE m \notin DOMAIN a /\ n \notin DOMAIN a
    <3>1. m - Len(a) = n - Len(a)
      BY <1>2, <1>6, <2>5 DEF Listed, Distinct
    <3>2. QED
      BY <1>5, <3>1
  <2>6. QED
    BY <2>2, <2>3, <2>4, <2>5
<1>10. Files(c) = Files(s)
  <2>1. \A t : Files(t) = {e.file : e \in ToSet(t)}
    BY DEF Files, ToSet
  <2>2. QED
    BY <1>8, <2>1
<1>11. EnabledOf(c) = a
  <2>1. {n \in DOMAIN c : c[n].enable} = 1 .. Len(a)
    <3>1. \A n \in DOMAIN c : c[n].enable <=> n \in DOMAIN a
      BY <1>5, <1>6, <1>7
    <3>2. DOMAIN a \subseteq DOMAIN c
      BY <1>5
    <3>3. QED
      BY <1>5, <3>1, <3>2
  <2>2. QED
    BY <1>3, <1>4, <2>1, SubsequenceFront DEF EnabledOf
<1>12. QED
  BY <1>1, <1>4, <1>5, <1>8, <1>9, <1>10, <1>11 DEF EnabledFirst, Listed

----------------------------------------------------------------------------
(* The invariant.                                                          *)

(* An entry with zips z, of which c were copied.                           *)
Fits(e, z, c) == e.file \in 1 .. c /\ (z[e.file] = "absent" \/ e.type = detectPackType(z[e.file]))

ListOK(s, z, c) == Listed(s) /\ \A e \in ToSet(s) : Fits(e, z, c)

Types ==
  /\ zips \in [Packs -> AllContents \union {"absent"}]
  /\ configFile \in {"absent", "empty", "torn", "whole"} /\ (configFile = "absent" => config = <<>>)
  /\ errorMessage \in {"none", "load", "save", "install"}
  /\ cards \in [DOMAIN cards -> BOOLEAN] /\ DOMAIN cards \subseteq Packs
  /\ pc \in {"idle", "copy", "open", "write", "saved", "compose"}
  /\ picked \in AllContents /\ thenLoad \in BOOLEAN
  /\ clock \in 0 .. MaxInstalls /\ deleted \subseteq Packs /\ faults \subseteq Faults

ListsOK == ListOK(config, zips, clock) /\ ListOK(packInfos, zips, clock) /\ ListOK(toSave, zips, clock)

(* The zip being copied is listed nowhere yet.                             *)
Fresh ==
  /\ pc = "copy" => clock \in Packs /\ clock \notin Files(config) /\ clock \notin Files(packInfos)
  /\ pc \in {"idle", "copy"} => toSave = <<>>

(* The page shows what config.json, which can be read, holds of the zips   *)
(* that are there.                                                         *)
Shown ==
  /\ configFile \in {"absent", "whole"}
  /\ ToSet(packInfos) = ToSet(Present)
  /\ EnabledOf(packInfos) = EnabledOf(Present)

(* A list kept in memory was saved, or an error says that it was not.      *)
SavedOrTold ==
  /\ pc \in {"open", "write"} /\ ~thenLoad => errorMessage = "none"
  /\ pc \in {"open", "write", "saved"} /\ ~thenLoad => \A e \in ToSet(toSave) : zips[e.file] # "absent"
  /\ pc = "saved" /\ ~thenLoad /\ errorMessage = "none" => config = toSave /\ configFile = "whole"
  /\ pc = "compose" /\ errorMessage = "none" /\ packInfos # <<>> => Shown
  /\ pc = "idle" /\ errorMessage = "none" => Shown

(* The cards c that are drawn say of their packs what s does.              *)
Agree(s, c) == \A e \in ToSet(s) : e.file \in DOMAIN c => (c[e.file] <=> e.enable)

(* Where the next list of the page may come from, the cards agree with it. *)
CardsAgree ==
  /\ pc = "idle" /\ errorMessage # "none" => DOMAIN cards = {}
  /\ pc \in {"idle", "copy"} => DOMAIN cards \subseteq Files(packInfos) /\ Agree(packInfos, cards) /\ Agree(config, cards)
  /\ pc \in {"open", "write", "saved"} =>
       /\ Agree(toSave, cards)
       /\ thenLoad => Agree(packInfos, cards)
       /\ thenLoad \/ toSave = <<>> => Agree(config, cards)
  /\ pc = "compose" => Agree(packInfos, cards) /\ (packInfos = <<>> => Agree(config, cards))

IInv == Types /\ ListsOK /\ Fresh /\ SavedOrTold /\ CardsAgree

----------------------------------------------------------------------------
(* Lists on disk and in memory.                                            *)

(* Files is the set of the files of a list's entries.                      *)
LEMMA FilesOf ==
  ASSUME NEW s
  PROVE  Files(s) = {e.file : e \in ToSet(s)}
BY DEF Files, ToSet

(* The empty list is in order, on any disk and with any cards.             *)
LEMMA EmptyList ==
  ASSUME NEW z, NEW c, NEW d
  PROVE  ListOK(<<>>, z, c) /\ Agree(<<>>, d) /\ ToSet(<<>>) = {} /\ Files(<<>>) = {} /\ Listed(<<>>)
<1>1. <<>> \in Seq(Setting) /\ DOMAIN <<>> = {}
  OBVIOUS
<1>2. QED
  BY <1>1 DEF ListOK, Listed, Distinct, Agree, ToSet, Files

(* Elements of a list that is in order.                                    *)
LEMMA ListElement ==
  ASSUME NEW s, NEW z, NEW c \in Nat, ListOK(s, z, c), NEW e \in ToSet(s)
  PROVE  e \in Setting /\ e.file \in 1 .. c /\ e.file \in Nat /\ e.file \in Files(s)
<1>1. PICK i \in DOMAIN s : e = s[i]
  BY DEF ToSet
<1>2. e \in Setting
  BY <1>1, SeqElement DEF ListOK, Listed
<1>3. QED
  BY <1>2, FilesOf DEF ListOK, Fits

(* A list stays in order while the zips it lists stay or are deleted.      *)
LEMMA ListKept ==
  ASSUME NEW s, NEW z, NEW c \in Nat, ListOK(s, z, c), NEW y, NEW d \in Nat, c <= d,
         \A p \in Files(s) : y[p] \in {z[p], "absent"}
  PROVE  ListOK(s, y, d)
<1> SUFFICES ASSUME NEW e \in ToSet(s) PROVE Fits(e, y, d)
  BY DEF ListOK
<1>1. Fits(e, z, c) /\ e.file \in Files(s)
  BY FilesOf DEF ListOK
<1>2. y[e.file] = z[e.file] \/ y[e.file] = "absent"
  BY <1>1
<1>3. e.file \in 1 .. d
  BY <1>1 DEF Fits
<1>4. QED
  BY <1>1, <1>2, <1>3 DEF Fits

(* Present is config.json without the entries whose zip is gone.           *)
LEMMA PresentListed ==
  ASSUME NEW z, NEW c, ListOK(config, z, c)
  PROVE  /\ Listed(Present)
         /\ ToSet(Present) = {config[i] : i \in {i \in DOMAIN config : zips[config[i].file] # "absent"}}
         /\ ToSet(Present) \subseteq ToSet(config)
         /\ \A e \in ToSet(Present) : zips[e.file] # "absent"
<1> DEFINE I == {i \in DOMAIN config : zips[config[i].file] # "absent"}
<1>1. I \in SUBSET (DOMAIN config) /\ Listed(config)
  BY DEF ListOK
<1>2. Listed(Present) /\ ToSet(Present) = {config[i] : i \in I}
  BY <1>1, Filtered DEF Present
<1>3. QED
  BY <1>2 DEF ToSet

(* With nothing gone it is config.json itself.                             *)
LEMMA PresentAll ==
  ASSUME NEW z, NEW c, ListOK(config, z, c), \A e \in ToSet(config) : zips[e.file] # "absent"
  PROVE  Present = config
<1>1. {i \in DOMAIN config : zips[config[i].file] # "absent"} = DOMAIN config
  BY DEF ToSet
<1>2. config \in Seq(Setting)
  BY DEF ListOK, Listed
<1>3. QED
  BY <1>1, <1>2, SubsequenceAll DEF Present

(* What loadPackInfos shows is on disk, all of it unless it tells of an    *)
(* error.                                                                  *)
LEMMA LoadShows ==
  ASSUME ListsOK, LoadPackInfos, UNCHANGED <<zips, configFile, config>>,
         configFile \in {"absent", "empty", "torn", "whole"}
  PROVE  /\ ListOK(packInfos', zips, clock)
         /\ errorMessage' \in {"none", "load"}
         /\ packInfos' = packInfos \/ ToSet(packInfos') \subseteq ToSet(config)
         /\ errorMessage' = "none" => Shown'
<1>1. CASE configFile \in {"empty", "torn"}
  BY <1>1 DEF LoadPackInfos, ListsOK
<1>2. CASE configFile \notin {"empty", "torn"}
  <2>1. /\ packInfos' = EnabledFirst(ReadableOf(Present))
        /\ errorMessage' = IF \A f \in Files(Present) : Readable(zips[f]) THEN "none" ELSE "load"
    BY <1>2 DEF LoadPackInfos
  <2>2. PICK s : s = Present
    OBVIOUS
  <2>3. Listed(s) /\ ToSet(s) \subseteq ToSet(config) /\ s \in Seq(Setting)
    BY <2>2, PresentListed DEF ListsOK, Listed
  <2>4. PICK r : r = ReadableOf(s)
    OBVIOUS
  <2>5. Listed(r) /\ ToSet(r) \subseteq ToSet(s)
    <3>1. {i \in DOMAIN s : Readable(zips[s[i].file])} \in SUBSET (DOMAIN s)
      OBVIOUS
    <3>2. Listed(r) /\ ToSet(r) = {s[i] : i \in {i \in DOMAIN s : Readable(zips[s[i].file])}}
      BY <2>3, <2>4, <3>1, Filtered DEF ReadableOf
    <3>3. QED
      BY <3>2 DEF ToSet
  <2>6. /\ Listed(packInfos') /\ ToSet(packInfos') = ToSet(r)
        /\ EnabledOf(packInfos') = EnabledOf(r)
    BY <2>1, <2>2, <2>4, <2>5, EnabledFirstKeeps
  <2>7. ListOK(packInfos', zips, clock)
    BY <2>3, <2>5, <2>6 DEF ListsOK, ListOK
  <2>8. ASSUME errorMessage' = "none" PROVE Shown'
    <3>1. \A f \in Files(s) : Readable(zips[f])
      BY <2>1, <2>2, <2>8
    <3>2. {i \in DOMAIN s : Readable(zips[s[i].file])} = DOMAIN s
      BY <3>1 DEF Files
    <3>3. r = s
      BY <2>3, <2>4, <3>2, SubsequenceAll DEF ReadableOf
    <3>4. Present' = Present
      BY DEF Present
    <3>5. EnabledOf(packInfos)' = EnabledOf(packInfos') /\ EnabledOf(Present)' = EnabledOf(Present')
      BY DEF EnabledOf
    <3>6. configFile' \in {"absent", "whole"}
      BY <1>2
    <3>7. QED
      BY <2>2, <2>6, <3>3, <3>4, <3>5, <3>6 DEF Shown
  <2>9. QED
    BY <2>1, <2>3, <2>5, <2>6, <2>7, <2>8
<1>3. QED
  BY <1>1, <1>2

----------------------------------------------------------------------------
(* The steps.                                                              *)

(* The page starts empty.                                                  *)
LEMMA InitInv ==
  Init => IInv
<1> SUFFICES ASSUME Init PROVE IInv
  OBVIOUS
<1>1. ListsOK /\ Agree(<<>>, cards)
  BY EmptyList DEF Init, ListsOK
<1>2. Types
  <2>1. cards = <<>> /\ DOMAIN cards = {}
    BY DEF Init
  <2>2. cards \in [DOMAIN cards -> BOOLEAN]
    BY <2>1
  <2>3. zips \in [Packs -> AllContents \union {"absent"}] /\ 0 \in 0 .. MaxInstalls
    BY PageAssumption DEF Init
  <2>4. DOMAIN cards \subseteq Packs
    BY <2>1
  <2>5. QED
    BY <2>2, <2>3, <2>4 DEF Init, Types, AllContents
<1>3. Fresh /\ SavedOrTold /\ CardsAgree
  BY <1>1 DEF Init, Fresh, SavedOrTold, CardsAgree
<1>4. QED
  BY <1>1, <1>2, <1>3 DEF IInv

(* Of a page at rest that shows cards, each is that of a pack it shows,    *)
(* whose zip is there.                                                     *)
LEMMA CardsOfShown ==
  ASSUME IInv, pc = "idle", NEW p \in DOMAIN cards
  PROVE  /\ errorMessage = "none" /\ p \in Packs /\ p \in Files(packInfos) /\ packInfos # <<>>
         /\ \A e \in ToSet(packInfos) : zips[e.file] # "absent"
<1>1. errorMessage = "none" /\ Shown /\ p \in Files(packInfos)
  BY DEF IInv, SavedOrTold, CardsAgree
<1>2. \A e \in ToSet(packInfos) : zips[e.file] # "absent"
  BY <1>1, PresentListed DEF IInv, ListsOK, Shown
<1>3. p \in Packs
  BY DEF IInv, Types
<1>4. packInfos # <<>>
  BY <1>1, EmptyList
<1>5. QED
  BY <1>1, <1>2, <1>3, <1>4

(* An installation that fails leaves the lists alone.                      *)
LEMMA FailedInv ==
  ASSUME IInv, pc \in {"idle", "copy"}, NEW files \in [Packs -> AllContents \union {"absent"}],
         \A p \in Files(config) \union Files(packInfos) : files[p] = zips[p],
         Failed(files), clock' \in clock .. MaxInstalls, picked' \in AllContents, faults' \subseteq Faults,
         UNCHANGED <<configFile, config, packInfos, cards, deleted>>
  PROVE  IInv'
<1>0. clock \in Nat /\ clock' \in Nat /\ clock <= clock' /\ clock' \in 0 .. MaxInstalls
  BY PageAssumption DEF IInv, Types
<1>1. Types'
  <2>1. zips' \in [Packs -> AllContents \union {"absent"}]
    BY DEF Failed
  <2>2. QED
    BY <1>0, <2>1 DEF Failed, IInv, Types
<1>2. ListsOK'
  <2>1. toSave = <<>> /\ toSave' = toSave
    BY DEF IInv, Fresh, Failed
  <2>2. ListOK(toSave', zips', clock')
    BY <2>1, EmptyList
  <2>3. ASSUME NEW p, p \in Files(config) \/ p \in Files(packInfos) PROVE zips'[p] \in {zips[p], "absent"}
    <3>1. p \in Packs
      <4>1. \A s : ListOK(s, zips, clock) => Files(s) \subseteq 1 .. clock
        BY FilesOf DEF ListOK, Fits
      <4>2. p \in 1 .. clock
        BY <2>3, <4>1 DEF IInv, ListsOK
      <4>3. QED
        BY <1>0, <4>2, PageAssumption DEF Packs
    <3>2. QED
      BY <2>3, <3>1 DEF Failed
  <2>4. ListOK(config, zips', clock') /\ ListOK(packInfos, zips', clock')
    BY <1>0, <2>3, ListKept DEF IInv, ListsOK
  <2>5. QED
    BY <2>2, <2>4 DEF ListsOK
<1>3. Fresh' /\ SavedOrTold'
  BY DEF Failed, Fresh, SavedOrTold
<1>4. CardsAgree'
  BY DEF Failed, IInv, CardsAgree
<1>5. QED
  BY <1>1, <1>2, <1>3, <1>4 DEF IInv

(* The new zip is listed nowhere, having a name of its own.                *)
LEMMA InstallPackInv ==
  ASSUME IInv, NEW content \in Contents, InstallPack(content)
  PROVE  IInv'
<1>0. /\ clock \in Nat /\ clock' \in Nat /\ clock' = clock + 1 /\ clock' \in Packs /\ clock' \in clock .. MaxInstalls
      /\ pc = "idle" /\ picked' \in AllContents
  BY PageAssumption DEF IInv, Types, InstallPack, Packs
<1>1. \A s : ListOK(s, zips, clock) => Files(s) \subseteq 1 .. clock
  BY FilesOf DEF ListOK, Fits
<1>2. CASE /\ zips' = [zips EXCEPT ![clock'] = "empty"]
           /\ errorMessage' = "none"
           /\ pc' = "copy"
           /\ UNCHANGED <<toSave, thenLoad, faults>>
  <2>0. UNCHANGED <<configFile, config, packInfos, cards, deleted>>
    BY DEF InstallPack
  <2>1. Types'
    <3>1. zips' \in [Packs -> AllContents \union {"absent"}]
      BY <1>0, <1>2 DEF IInv, Types, AllContents
    <3>2. clock' \in 0 .. MaxInstalls
      BY <1>0
    <3>3. QED
      BY <1>0, <1>2, <2>0, <3>1, <3>2 DEF IInv, Types
  <2>2. clock' \notin Files(config) /\ clock' \notin Files(packInfos) /\ clock' \notin Files(toSave)
    BY <1>0, <1>1 DEF IInv, ListsOK
  <2>3. ListsOK'
    <3>1. ASSUME NEW p, p # clock', p \in 1 .. clock PROVE zips'[p] = zips[p]
      BY <1>0, <1>2, <3>1 DEF IInv, Types, Packs
    <3>2. \A p \in Files(config) \union Files(packInfos) \union Files(toSave) : zips'[p] = zips[p]
      BY <1>1, <2>2, <3>1 DEF IInv, ListsOK
    <3>3. ListOK(config, zips', clock') /\ ListOK(packInfos, zips', clock') /\ ListOK(toSave, zips', clock')
      BY <1>0, <3>2, ListKept DEF IInv, ListsOK
    <3>4. QED
      BY <1>2, <2>0, <3>3 DEF ListsOK
  <2>4. Fresh'
    BY <1>0, <1>2, <2>0, <2>2 DEF IInv, Fresh, Files
  <2>5. SavedOrTold' /\ CardsAgree'
    BY <1>0, <1>2, <2>0 DEF IInv, SavedOrTold, CardsAgree, Files
  <2>6. QED
    BY <2>1, <2>3, <2>4, <2>5 DEF IInv
<1>3. CASE Fault("copy") /\ Failed(zips)
  <2>1. faults' \subseteq Faults
    BY <1>3 DEF Fault, IInv, Types, Faults
  <2>2. zips \in [Packs -> AllContents \union {"absent"}]
    BY DEF IInv, Types
  <2>3. UNCHANGED <<configFile, config, packInfos, cards, deleted>>
    BY DEF InstallPack
  <2>4. QED
    BY <1>0, <1>3, <2>1, <2>2, <2>3, FailedInv
<1>4. QED
  BY <1>2, <1>3 DEF InstallPack

(* A part of a file is itself a kind of file.                              *)
LEMMA PartsKnown ==
  ASSUME NEW content \in AllContents
  PROVE  Parts(content) \subseteq AllContents
<1>1. content \in {"empty", "junk", "bare", "standardCut", "tlCut", "standard", "tl"}
  BY DEF AllContents
<1>2. QED
  BY <1>1 DEF Parts, AllContents

(* A copy that can be read goes into the list with its format; what else   *)
(* was copied is in none.                                                  *)
LEMMA CopyPackInv ==
  ASSUME IInv, CopyPack
  PROVE  IInv'
<1>0. /\ clock \in Nat /\ clock \in Packs /\ pc = "copy" /\ picked \in AllContents /\ toSave = <<>>
      /\ clock \notin Files(config) /\ clock \notin Files(packInfos)
      /\ clock' = clock /\ clock' \in clock .. MaxInstalls
      /\ UNCHANGED <<configFile, config, packInfos, cards, picked, deleted>>
  BY PageAssumption DEF IInv, Types, Fresh, CopyPack
<1>1. PICK copied : copied = [zips EXCEPT ![clock] = picked]
  OBVIOUS
<1>2. /\ copied \in [Packs -> AllContents \union {"absent"}] /\ copied[clock] = picked
      /\ \A p \in Packs : p # clock => copied[p] = zips[p]
  BY <1>0, <1>1 DEF IInv, Types
<1>3. \A s : ListOK(s, zips, clock) => Files(s) \subseteq Packs
  <2>1. 1 .. clock \subseteq Packs
    BY <1>0, PageAssumption DEF Packs
  <2>2. QED
    BY <2>1, FilesOf DEF ListOK, Fits
<1>4. ASSUME Readable(picked), zips' = copied, SaveConfig(WithNew, TRUE), UNCHANGED <<errorMessage, faults>>
      PROVE  IInv'
  <2>1. Types'
    BY <1>0, <1>2, <1>4 DEF IInv, Types, SaveConfig
  <2>2. PICK new : new = [file |-> clock, type |-> detectPackType(picked), enable |-> FALSE]
    OBVIOUS
  <2>3. new \in Setting /\ new.file = clock /\ new.type = detectPackType(picked)
    BY <1>0, <1>4, <2>2 DEF Setting, detectPackType, Readable
  <2>4. toSave' = Append(packInfos, new)
    BY <1>4, <2>2 DEF SaveConfig, WithNew
  <2>5. packInfos \in Seq(Setting) /\ Distinct(packInfos)
    BY DEF IInv, ListsOK, ListOK, Listed
  <2>6. /\ toSave' \in Seq(Setting)
        /\ Len(packInfos) \in Nat /\ DOMAIN packInfos = 1 .. Len(packInfos)
        /\ DOMAIN toSave' = 1 .. Len(packInfos) + 1
        /\ \A i \in 1 .. Len(packInfos) + 1 : toSave'[i] = IF i = Len(packInfos) + 1 THEN new ELSE packInfos[i]
    BY <2>3, <2>4, <2>5, SeqAppend
  <2>7. Distinct(toSave')
    <3>1. \A i \in DOMAIN packInfos : packInfos[i].file # clock
      BY <1>0 DEF Files
    <3>2. QED
      BY <2>3, <2>5, <2>6, <3>1 DEF Distinct
  <2>8. \A e \in ToSet(toSave') : e = new \/ e \in ToSet(packInfos)
    BY <2>6 DEF ToSet
  <2>9. ListOK(config, copied, clock) /\ ListOK(packInfos, copied, clock)
    <3>1. \A p \in Files(config) \union Files(packInfos) : copied[p] = zips[p]
      BY <1>0, <1>2, <1>3 DEF IInv, ListsOK
    <3>2. QED
      BY <1>0, <3>1, ListKept DEF IInv, ListsOK
  <2>10. ListOK(toSave', copied, clock)
    <3>1. Fits(new, copied, clock)
      BY <1>0, <1>2, <2>3 DEF Fits, Packs
    <3>2. QED
      BY <2>6, <2>7, <2>8, <2>9, <3>1 DEF ListOK, Listed
  <2>11. ListsOK'
    BY <1>0, <1>4, <2>9, <2>10 DEF ListsOK
  <2>12. pc' = "open" /\ thenLoad' = TRUE
    BY <1>4 DEF SaveConfig
  <2>13. Fresh' /\ SavedOrTold'
    BY <2>12 DEF Fresh, SavedOrTold
  <2>14. CardsAgree'
    <3>1. clock \notin DOMAIN cards /\ Agree(packInfos, cards) /\ Agree(config, cards)
      BY <1>0 DEF IInv, CardsAgree
    <3>2. Agree(toSave', cards)
      BY <2>3, <2>8, <3>1 DEF Agree
    <3>3. QED
      BY <1>0, <2>12, <3>1, <3>2 DEF CardsAgree
  <2>15. QED
    BY <2>1, <2>11, <2>13, <2>14 DEF IInv
<1>5. ASSUME NEW part \in AllContents \union {"absent"}, Failed([copied EXCEPT ![clock] = part]), faults' \subseteq Faults
      PROVE  IInv'
  <2>1. PICK files : files = [copied EXCEPT ![clock] = part]
    OBVIOUS
  <2>2. files \in [Packs -> AllContents \union {"absent"}] /\ \A p \in Packs : p # clock => files[p] = zips[p]
    BY <1>0, <1>2, <2>1
  <2>3. \A p \in Files(config) \union Files(packInfos) : files[p] = zips[p]
    BY <1>0, <1>3, <2>2 DEF IInv, ListsOK
  <2>4. QED
    BY <1>0, <1>5, <2>1, <2>2, <2>3, FailedInv
<1>6. ASSUME Failed(copied), faults' \subseteq Faults
      PROVE  IInv'
  <2>1. copied = [copied EXCEPT ![clock] = picked]
    BY <1>0, <1>2
  <2>2. QED
    BY <1>0, <1>5, <1>6, <2>1
<1>7. \A kind \in Faults : Fault(kind) => faults' \subseteq Faults
  BY DEF Fault, IInv, Types
<1>8. faults \subseteq Faults
  BY DEF IInv, Types
<1>9. CASE Readable(picked) /\ zips' = copied /\ SaveConfig(WithNew, TRUE) /\ UNCHANGED <<errorMessage, faults>>
  BY <1>4, <1>9
<1>10. CASE /\ ~Readable(picked)
            /\ Failed(IF detectPackType(picked) = -1 THEN [copied EXCEPT ![clock] = "absent"] ELSE copied)
            /\ UNCHANGED faults
  BY <1>5, <1>6, <1>8, <1>10
<1>11. CASE detectPackType(picked) = -1 /\ Fault("delete") /\ Failed(copied)
  BY <1>6, <1>7, <1>11 DEF Faults
<1>12. CASE Fault("copy") /\ \E part \in Parts(picked) : Failed([copied EXCEPT ![clock] = part])
  <2>1. PICK part \in Parts(picked) : Failed([copied EXCEPT ![clock] = part])
    BY <1>12
  <2>2. part \in AllContents
    BY <1>0, <2>1, PartsKnown
  <2>3. QED
    BY <1>5, <1>7, <1>12, <2>1, <2>2 DEF Faults
<1>13. QED
  BY <1>1, <1>9, <1>10, <1>11, <1>12 DEF CopyPack

(* What is left of a list whose zips are there has its zips.               *)
LEMMA DeletePackInv ==
  ASSUME IInv, NEW p \in Packs, DeletePack(p)
  PROVE  IInv'
<1>0. /\ pc = "idle" /\ p \in DOMAIN cards /\ pc' = "open" /\ thenLoad' = FALSE /\ toSave' = Others(p)
      /\ UNCHANGED <<configFile, config, packInfos, errorMessage, cards, picked, clock>>
  BY DEF DeletePack, SaveConfig, page
<1>1. errorMessage = "none" /\ \A e \in ToSet(packInfos) : zips[e.file] # "absent"
  BY <1>0, CardsOfShown
<1>2. (zips' = [zips EXCEPT ![p] = "absent"] \/ zips' = zips) /\ faults' \subseteq Faults /\ deleted' = deleted \union {p}
  BY DEF DeletePack, Fault, IInv, Types, Faults
<1>3. zips' \in [Packs -> AllContents \union {"absent"}] /\ \A q \in Packs : zips'[q] = zips[q] \/ (q = p /\ zips'[q] = "absent")
  BY <1>2 DEF IInv, Types
<1>4. Types'
  BY <1>0, <1>2, <1>3 DEF IInv, Types
<1>5. /\ Listed(toSave') /\ \A e \in ToSet(toSave') : e \in ToSet(packInfos) /\ e.file # p
  <2>1. Listed(packInfos) /\ {i \in DOMAIN packInfos : packInfos[i].file # p} \in SUBSET (DOMAIN packInfos)
    BY DEF IInv, ListsOK, ListOK
  <2>2. /\ Listed(toSave')
        /\ ToSet(toSave') = {packInfos[i] : i \in {i \in DOMAIN packInfos : packInfos[i].file # p}}
    BY <1>0, <2>1, Filtered DEF Others
  <2>3. QED
    BY <2>2 DEF ToSet
<1>6. \A q \in 1 .. clock : q \in Packs /\ clock \in Nat
  BY PageAssumption DEF IInv, Types, Packs
<1>7. ListsOK'
  <2>1. \A s : ListOK(s, zips, clock) => \A q \in Files(s) : zips'[q] \in {zips[q], "absent"}
    BY <1>3, <1>6, FilesOf DEF ListOK, Fits
  <2>2. clock \in Nat /\ clock <= clock
    BY PageAssumption DEF IInv, Types
  <2>3. ListOK(config, zips', clock) /\ ListOK(packInfos, zips', clock)
    BY <2>1, <2>2, ListKept DEF IInv, ListsOK
  <2>4. ListOK(toSave', zips', clock)
    BY <1>5, <2>3 DEF ListOK
  <2>5. QED
    BY <1>0, <2>3, <2>4 DEF ListsOK
<1>8. Fresh'
  BY <1>0 DEF Fresh
<1>9. SavedOrTold'
  <2>1. \A e \in ToSet(toSave') : zips'[e.file] # "absent"
    <3>1. \A e \in ToSet(packInfos) : e.file \in Packs
      BY <1>6 DEF IInv, ListsOK, ListOK, Fits
    <3>2. QED
      BY <1>1, <1>3, <1>5, <3>1
  <2>2. QED
    BY <1>0, <1>1, <2>1 DEF SavedOrTold
<1>10. CardsAgree'
  <2>1. Agree(packInfos, cards) /\ Agree(config, cards)
    BY <1>0 DEF IInv, CardsAgree
  <2>2. Agree(toSave', cards)
    BY <1>5, <2>1 DEF Agree
  <2>3. QED
    BY <1>0, <2>1, <2>2 DEF CardsAgree
<1>11. QED
  BY <1>4, <1>7, <1>8, <1>9, <1>10 DEF IInv

(* The card and the list to save are switched together.                    *)
LEMMA TogglePackInv ==
  ASSUME IInv, NEW p \in Packs, TogglePack(p)
  PROVE  IInv'
<1>0. /\ pc = "idle" /\ p \in DOMAIN cards /\ pc' = "open" /\ thenLoad' = FALSE
      /\ toSave' = WithEnabled(p, ~cards[p]) /\ cards' = [cards EXCEPT ![p] = ~@]
      /\ UNCHANGED <<zips, configFile, config, packInfos, errorMessage, picked, clock, deleted, faults>>
  BY DEF TogglePack, SaveConfig, disk
<1>1. /\ errorMessage = "none" /\ p \in Files(packInfos) /\ packInfos # <<>>
      /\ \A e \in ToSet(packInfos) : zips[e.file] # "absent"
  BY <1>0, CardsOfShown
<1>2. /\ cards \in [DOMAIN cards -> BOOLEAN] /\ DOMAIN cards \subseteq Packs
  BY DEF IInv, Types
<1>3. DOMAIN cards' = DOMAIN cards /\ cards'[p] = ~cards[p] /\ \A q \in DOMAIN cards : q # p => cards'[q] = cards[q]
  BY <1>0, <1>2
<1>4. Types'
  <2>1. cards' \in [DOMAIN cards' -> BOOLEAN]
    BY <1>0, <1>2
  <2>2. QED
    BY <1>0, <1>3, <2>1 DEF IInv, Types
<1>5. packInfos \in Seq(Setting) /\ Distinct(packInfos) /\ Len(packInfos) \in Nat
      /\ DOMAIN packInfos = 1 .. Len(packInfos) /\ \A i \in DOMAIN packInfos : packInfos[i] \in Setting
  BY SeqElement DEF IInv, ListsOK, ListOK, Listed
<1>6. PICK b \in BOOLEAN : b = ~cards[p]
  OBVIOUS
<1>7. /\ DOMAIN toSave' = DOMAIN packInfos
      /\ \A i \in DOMAIN packInfos :
           toSave'[i] = IF packInfos[i].file = p THEN [packInfos[i] EXCEPT !.enable = b] ELSE packInfos[i]
  BY <1>0, <1>6 DEF WithEnabled
<1>8. \A i \in DOMAIN packInfos :
        /\ toSave'[i] \in Setting
        /\ toSave'[i].file = packInfos[i].file /\ toSave'[i].type = packInfos[i].type
        /\ toSave'[i].enable = IF packInfos[i].file = p THEN b ELSE packInfos[i].enable
  BY <1>5, <1>7 DEF Setting
<1>9. toSave' \in Seq(Setting) /\ Len(toSave') = Len(packInfos) /\ toSave' # <<>>
  <2>1. toSave' = [i \in 1 .. Len(packInfos) |-> toSave'[i]]
    BY <1>0, <1>5 DEF WithEnabled
  <2>2. toSave' \in Seq(Setting)
    BY <1>5, <1>8, <2>1
  <2>3. DOMAIN packInfos # {}
    BY <1>1 DEF Files
  <2>4. QED
    BY <1>5, <1>7, <2>2, <2>3
<1>10. ListsOK'
  <2>1. Distinct(toSave')
    BY <1>5, <1>7, <1>8 DEF Distinct
  <2>2. \A e \in ToSet(toSave') : Fits(e, zips, clock)
    <3> SUFFICES ASSUME NEW i \in DOMAIN packInfos PROVE Fits(toSave'[i], zips, clock)
      BY <1>7 DEF ToSet
    <3>1. Fits(packInfos[i], zips, clock)
      BY DEF IInv, ListsOK, ListOK, ToSet
    <3>2. QED
      BY <1>8, <3>1 DEF Fits
  <2>3. ListOK(toSave', zips, clock)
    BY <1>9, <2>1, <2>2 DEF ListOK, Listed
  <2>4. QED
    BY <1>0, <2>3 DEF IInv, ListsOK
<1>11. Fresh'
  BY <1>0 DEF Fresh
<1>12. SavedOrTold'
  <2>1. ASSUME NEW e \in ToSet(toSave') PROVE zips[e.file] # "absent"
    <3>1. PICK i \in DOMAIN packInfos : e = toSave'[i]
      BY <1>7 DEF ToSet
    <3>2. packInfos[i] \in ToSet(packInfos) /\ e.file = packInfos[i].file
      BY <1>8, <3>1 DEF ToSet
    <3>3. QED
      BY <1>1, <3>2
  <2>2. QED
    BY <1>0, <1>1, <2>1 DEF SavedOrTold
<1>13. CardsAgree'
  <2>1. Agree(packInfos, cards)
    BY <1>0 DEF IInv, CardsAgree
  <2>2. ASSUME NEW e \in ToSet(toSave'), e.file \in DOMAIN cards' PROVE cards'[e.file] <=> e.enable
    <3>1. PICK i \in DOMAIN packInfos : e = toSave'[i]
      BY <1>7 DEF ToSet
    <3>2. packInfos[i] \in ToSet(packInfos) /\ e.file = packInfos[i].file
      BY <1>8, <3>1 DEF ToSet
    <3>3. CASE e.file = p
      BY <1>3, <1>6, <1>8, <3>1, <3>2, <3>3
    <3>4. CASE e.file # p
      <4>1. e.enable = packInfos[i].enable
        BY <1>8, <3>1, <3>2, <3>4
      <4>2. cards[e.file] <=> packInfos[i].enable
        BY <1>3, <2>1, <2>2, <3>2 DEF Agree
      <4>3. QED
        BY <1>3, <2>2, <3>4, <4>1, <4>2
    <3>5. QED
      BY <3>3, <3>4
  <2>3. QED
    BY <1>0, <1>9, <2>2 DEF CardsAgree, Agree
<1>14. QED
  BY <1>4, <1>10, <1>11, <1>12, <1>13 DEF IInv

(* An emptied file lists nothing; one that cannot be opened is told.       *)
LEMMA SaveOpenInv ==
  ASSUME IInv, SaveOpen
  PROVE  IInv'
<1>0. /\ pc = "open" /\ pc' \in {"write", "saved"}
      /\ UNCHANGED <<zips, packInfos, cards, picked, toSave, thenLoad, clock, deleted>>
      /\ \/ pc' = "write" /\ configFile' = "empty" /\ config' = <<>> /\ errorMessage' = errorMessage /\ faults' = faults
         \/ pc' = "saved" /\ errorMessage' = "save" /\ config' = config /\ configFile' = configFile
      /\ faults' \subseteq Faults
  BY DEF SaveOpen, SaveError, Fault, IInv, Types, Faults
<1>1. ListOK(<<>>, zips, clock) /\ Agree(<<>>, cards)
  BY EmptyList
<1>2. Types'
  BY <1>0 DEF IInv, Types
<1>3. ListsOK'
  BY <1>0, <1>1 DEF IInv, ListsOK
<1>4. Fresh'
  BY <1>0 DEF Fresh
<1>5. SavedOrTold'
  BY <1>0 DEF IInv, SavedOrTold
<1>6. CardsAgree'
  BY <1>0, <1>1 DEF IInv, CardsAgree
<1>7. QED
  BY <1>2, <1>3, <1>4, <1>5, <1>6 DEF IInv

(* What is written is the list to save; a failure is told.                 *)
LEMMA SaveWriteInv ==
  ASSUME IInv, SaveWrite
  PROVE  IInv'
<1>0. /\ pc = "write" /\ pc' = "saved"
      /\ UNCHANGED <<zips, packInfos, cards, picked, toSave, thenLoad, clock, deleted>>
      /\ \/ configFile' = "whole" /\ config' = toSave /\ errorMessage' = errorMessage
         \/ configFile' \in {configFile, "torn"} /\ config' = config /\ errorMessage' = "save"
      /\ faults' \subseteq Faults
  BY DEF SaveWrite, SaveError, Fault, IInv, Types, Faults
<1>1. Types'
  BY <1>0 DEF IInv, Types
<1>2. ListsOK'
  BY <1>0 DEF IInv, ListsOK
<1>3. Fresh'
  BY <1>0 DEF Fresh
<1>4. SavedOrTold'
  BY <1>0 DEF IInv, SavedOrTold
<1>5. CardsAgree'
  BY <1>0 DEF IInv, CardsAgree
<1>6. QED
  BY <1>1, <1>2, <1>3, <1>4, <1>5 DEF IInv

(* The cards agree with what stays a part of config.json.                  *)
LEMMA AgreeKept ==
  ASSUME NEW s, NEW t, NEW c, Agree(s, c), ToSet(t) \subseteq ToSet(s)
  PROVE  Agree(t, c)
BY DEF Agree

(* The list that is shown next was loaded or saved, or an error is told.   *)
LEMMA SavedInv ==
  ASSUME IInv, Saved
  PROVE  IInv'
<1>0. /\ pc = "saved" /\ pc' = "compose"
      /\ UNCHANGED <<zips, configFile, config, cards, picked, toSave, thenLoad, clock, deleted, faults>>
  BY DEF Saved, disk
<1>1. CASE thenLoad
  <2>1. LoadPackInfos
    BY <1>1 DEF Saved
  <2>2. /\ ListOK(packInfos', zips, clock)
        /\ errorMessage' \in {"none", "load"}
        /\ packInfos' = packInfos \/ ToSet(packInfos') \subseteq ToSet(config)
        /\ errorMessage' = "none" => Shown'
    BY <1>0, <2>1, LoadShows DEF IInv, Types
  <2>3. Types' /\ ListsOK' /\ Fresh' /\ SavedOrTold'
    BY <1>0, <2>2 DEF IInv, Types, ListsOK, Fresh, SavedOrTold
  <2>4. CardsAgree'
    <3>1. Agree(packInfos, cards) /\ Agree(config, cards)
      BY <1>0, <1>1 DEF IInv, CardsAgree
    <3>2. Agree(packInfos', cards)
      BY <2>2, <3>1, AgreeKept
    <3>3. QED
      BY <1>0, <3>1, <3>2 DEF CardsAgree
  <2>5. QED
    BY <2>3, <2>4 DEF IInv
<1>2. CASE ~thenLoad
  <2>1. packInfos' = toSave /\ errorMessage' = errorMessage
    BY <1>2 DEF Saved
  <2>2. Types' /\ ListsOK' /\ Fresh'
    BY <1>0, <2>1 DEF IInv, Types, ListsOK, Fresh
  <2>3. ASSUME errorMessage = "none" PROVE Shown'
    <3>1. config = toSave /\ configFile = "whole" /\ \A e \in ToSet(config) : zips[e.file] # "absent"
      BY <1>0, <1>2, <2>3 DEF IInv, SavedOrTold
    <3>2. Present = config
      BY <3>1, PresentAll DEF IInv, ListsOK
    <3>3. Present' = Present
      BY <1>0 DEF Present
    <3>4. packInfos' = Present'
      BY <2>1, <3>1, <3>2, <3>3
    <3>5. configFile' = "whole"
      BY <1>0, <3>1
    <3>6. QED
      BY <3>4, <3>5 DEF Shown, EnabledOf
  <2>4. SavedOrTold'
    BY <1>0, <2>1, <2>3 DEF SavedOrTold
  <2>5. CardsAgree'
    BY <1>0, <1>2, <2>1 DEF IInv, CardsAgree
  <2>6. QED
    BY <2>2, <2>4, <2>5 DEF IInv
<1>3. QED
  BY <1>1, <1>2

(* A card is drawn with what the list says, or agreed with it before.      *)
LEMMA ComposeInv ==
  ASSUME IInv, Compose
  PROVE  IInv'
<1>0. /\ pc = "compose" /\ pc' = "idle" /\ picked' = "empty" /\ toSave' = <<>> /\ thenLoad' = FALSE
      /\ UNCHANGED <<zips, configFile, config, clock, deleted, faults>>
      /\ cards' = [p \in IF errorMessage' = "none" THEN Files(packInfos') ELSE {} |->
                     IF p \in DOMAIN cards THEN cards[p] ELSE p \in Enabled(packInfos')]
  BY DEF Compose, disk
<1>1. /\ ListOK(packInfos', zips, clock)
      /\ errorMessage' \in {"none", "load", "save", "install"}
      /\ errorMessage' = "none" => Shown'
      /\ Agree(packInfos', cards)
  <2>1. CASE packInfos = <<>>
    <3>1. LoadPackInfos
      BY <2>1 DEF Compose
    <3>2. /\ ListOK(packInfos', zips, clock)
          /\ errorMessage' \in {"none", "load"}
          /\ packInfos' = packInfos \/ ToSet(packInfos') \subseteq ToSet(config)
          /\ errorMessage' = "none" => Shown'
      BY <1>0, <3>1, LoadShows DEF IInv, Types
    <3>3. Agree(packInfos, cards) /\ Agree(config, cards)
      BY <1>0, <2>1 DEF IInv, CardsAgree
    <3>4. QED
      BY <3>2, <3>3, AgreeKept
  <2>2. CASE packInfos # <<>>
    <3>1. packInfos' = packInfos /\ errorMessage' = errorMessage
      BY <2>2 DEF Compose
    <3>2. ListOK(packInfos, zips, clock) /\ Agree(packInfos, cards)
      BY <1>0 DEF IInv, ListsOK, CardsAgree
    <3>3. errorMessage = "none" => Shown
      BY <1>0, <2>2 DEF IInv, SavedOrTold
    <3>4. Shown' <=> Shown
      BY <1>0, <3>1 DEF Shown, Present, EnabledOf
    <3>5. errorMessage \in {"none", "load", "save", "install"}
      BY DEF IInv, Types
    <3>6. QED
      BY <3>1, <3>2, <3>3, <3>4, <3>5
  <2>3. QED
    BY <2>1, <2>2
<1>2. clock \in Nat /\ 1 .. clock \subseteq Packs
  BY PageAssumption DEF IInv, Types, Packs
<1>3. Files(packInfos') \subseteq Packs
  BY <1>1, <1>2, FilesOf DEF ListOK, Fits
<1>4. DOMAIN cards' \subseteq Files(packInfos') /\ (errorMessage' # "none" => DOMAIN cards' = {})
  BY <1>0
<1>5. Types'
  <2>1. cards' \in [DOMAIN cards' -> BOOLEAN]
    <3>1. \A p \in DOMAIN cards : cards[p] \in BOOLEAN
      BY DEF IInv, Types
    <3>2. PICK D : D = IF errorMessage' = "none" THEN Files(packInfos') ELSE {}
      OBVIOUS
    <3>3. PICK E : E = Enabled(packInfos')
      OBVIOUS
    <3>4. cards' = [p \in D |-> IF p \in DOMAIN cards THEN cards[p] ELSE p \in E]
      BY <1>0, <3>2, <3>3
    <3>5. \A p \in D : (IF p \in DOMAIN cards THEN cards[p] ELSE p \in E) \in BOOLEAN
      <4> SUFFICES ASSUME NEW p \in D PROVE (IF p \in DOMAIN cards THEN cards[p] ELSE p \in E) \in BOOLEAN
        OBVIOUS
      <4>1. CASE p \in DOMAIN cards
        BY <3>1, <4>1, Zenon
      <4>2. CASE p \notin DOMAIN cards
        <5>1. (p \in E) \in BOOLEAN
          OBVIOUS
        <5>2. QED
          BY <4>2, <5>1, Zenon
      <4>3. QED
        BY <4>1, <4>2
    <3>6. cards' \in [D -> BOOLEAN] /\ DOMAIN cards' = D
      BY <3>4, <3>5
    <3>7. QED
      BY <3>6
  <2>2. "empty" \in AllContents
    BY DEF AllContents
  <2>3. QED
    BY <1>0, <1>1, <1>3, <1>4, <2>1, <2>2 DEF IInv, Types
<1>6. ListsOK'
  BY <1>0, <1>1, EmptyList DEF IInv, ListsOK
<1>7. Fresh' /\ SavedOrTold'
  BY <1>0, <1>1 DEF Fresh, SavedOrTold
<1>8. Agree(packInfos', cards')
  <2> SUFFICES ASSUME NEW e \in ToSet(packInfos'), e.file \in DOMAIN cards' PROVE cards'[e.file] <=> e.enable
    BY DEF Agree
  <2>1. CASE e.file \in DOMAIN cards
    BY <1>0, <1>1, <2>1 DEF Agree
  <2>2. CASE e.file \notin DOMAIN cards
    <3>1. cards'[e.file] = (e.file \in Enabled(packInfos'))
      BY <1>0, <2>2
    <3>2. ASSUME NEW d \in ToSet(packInfos'), d.file = e.file PROVE d = e
      BY <1>1, <3>2 DEF ListOK, Listed, Distinct, ToSet
    <3>3. e.file \in Enabled(packInfos') <=> e.enable
      BY <3>2 DEF Enabled
    <3>4. QED
      BY <3>1, <3>3
  <2>3. QED
    BY <2>1, <2>2
<1>9. CardsAgree'
  <2>1. Agree(config, cards')
    <3>1. CASE errorMessage' = "none"
      <4> SUFFICES ASSUME NEW e \in ToSet(config), e.file \in DOMAIN cards' PROVE cards'[e.file] <=> e.enable
        BY DEF Agree
      <4>1. PICK d \in ToSet(packInfos') : d.file = e.file
        BY <1>4, FilesOf
      <4>2. d \in ToSet(Present) /\ Present' = Present
        <5>1. Present' = Present
          BY <1>0 DEF Present
        <5>2. QED
          BY <1>1, <3>1, <4>1, <5>1 DEF Shown
      <4>3. d \in ToSet(config)
        BY <4>2, PresentListed DEF IInv, ListsOK
      <4>4. d = e
        BY <4>1, <4>3 DEF IInv, ListsOK, ListOK, Listed, Distinct, ToSet
      <4>5. QED
        BY <1>8, <4>1, <4>4 DEF Agree
    <3>2. CASE errorMessage' # "none"
      BY <1>4, <3>2 DEF Agree
    <3>3. QED
      BY <3>1, <3>2
  <2>2. QED
    BY <1>0, <1>4, <1>8, <2>1 DEF CardsAgree
<1>10. QED
  BY <1>5, <1>6, <1>7, <1>9 DEF IInv

(* A process that ends changes no zip but the one being copied.            *)
LEMMA RestartZips ==
  ASSUME IInv, Restart
  PROVE  /\ zips' \in [Packs -> AllContents \union {"absent"}]
         /\ \A p \in Packs : zips'[p] = zips[p] \/ (pc = "copy" /\ p = clock)
<1>1. CASE pc = "copy"
  <2>1. PICK part \in Parts(picked) : zips' = [zips EXCEPT ![clock] = part]
    BY <1>1 DEF Restart
  <2>2. part \in AllContents
    BY <2>1, PartsKnown DEF IInv, Types
  <2>3. QED
    BY <1>1, <2>1, <2>2 DEF IInv, Types
<1>2. CASE pc # "copy"
  BY <1>2 DEF Restart, IInv, Types
<1>3. QED
  BY <1>1, <1>2

(* A page that starts again has forgotten everything.                      *)
LEMMA RestartInv ==
  ASSUME IInv, Restart
  PROVE  IInv'
<1>0. /\ pc' = "compose" /\ picked' = "empty" /\ toSave' = <<>> /\ thenLoad' = FALSE
      /\ packInfos' = <<>> /\ errorMessage' = "none" /\ cards' = <<>>
      /\ UNCHANGED <<config, clock, deleted>> /\ clock \in Nat
      /\ configFile' \in {configFile, "torn"} /\ faults' \subseteq Faults
  BY PageAssumption DEF Restart, Fault, IInv, Types, Faults
<1>1. DOMAIN cards' = {} /\ cards' \in [DOMAIN cards' -> BOOLEAN] /\ "empty" \in AllContents
  BY <1>0 DEF AllContents
<1>2. Types'
  BY <1>0, <1>1, RestartZips DEF IInv, Types
<1>3. ListsOK'
  <2>1. Files(config) \subseteq Packs
    <3>1. 1 .. clock \subseteq Packs
      BY <1>0, PageAssumption DEF IInv, Types, Packs
    <3>2. QED
      BY <3>1, FilesOf DEF IInv, ListsOK, ListOK, Fits
  <2>2. \A p \in Files(config) : zips'[p] = zips[p]
    BY <2>1, RestartZips DEF IInv, Fresh
  <2>3. ListOK(config, zips', clock)
    BY <1>0, <2>2, ListKept DEF IInv, ListsOK
  <2>4. QED
    BY <1>0, <2>3, EmptyList DEF ListsOK
<1>4. Fresh' /\ SavedOrTold'
  BY <1>0 DEF Fresh, SavedOrTold
<1>5. CardsAgree'
  BY <1>0, <1>1 DEF CardsAgree, Agree
<1>6. QED
  BY <1>2, <1>3, <1>4, <1>5 DEF IInv

(* So the invariant outlives every step.                                   *)
LEMMA NextInv ==
  IInv /\ [Next]_vars => IInv'
<1> SUFFICES ASSUME IInv, [Next]_vars PROVE IInv'
  OBVIOUS
<1>1. CASE UNCHANGED vars
  <2>0. /\ UNCHANGED <<zips, configFile, config, packInfos, errorMessage, cards>>
        /\ UNCHANGED <<pc, picked, toSave, thenLoad, clock, deleted, faults>>
    BY <1>1 DEF vars, disk, page, handler
  <2>1. Types' /\ ListsOK' /\ Fresh'
    BY <2>0 DEF IInv, Types, ListsOK, Fresh
  <2>2. Shown' <=> Shown
    BY <2>0 DEF Shown, Present, EnabledOf
  <2>3. SavedOrTold' /\ CardsAgree'
    BY <2>0, <2>2 DEF IInv, SavedOrTold, CardsAgree
  <2>4. QED
    BY <2>1, <2>3 DEF IInv
<1>2. CASE \E content \in Contents : InstallPack(content)
  BY <1>2, InstallPackInv
<1>3. CASE CopyPack
  BY <1>3, CopyPackInv
<1>4. CASE \E p \in Packs : DeletePack(p)
  BY <1>4, DeletePackInv
<1>5. CASE \E p \in Packs : TogglePack(p)
  BY <1>5, TogglePackInv
<1>6. CASE SaveOpen
  BY <1>6, SaveOpenInv
<1>7. CASE SaveWrite
  BY <1>7, SaveWriteInv
<1>8. CASE Saved
  BY <1>8, SavedInv
<1>9. CASE Compose
  BY <1>9, ComposeInv
<1>10. CASE Restart
  BY <1>10, RestartInv
<1>11. QED
  BY <1>1, <1>2, <1>3, <1>4, <1>5, <1>6, <1>7, <1>8, <1>9, <1>10 DEF Next

----------------------------------------------------------------------------
(* What follows.                                                           *)

(* Whatever fails and wherever the process ends, lists, cards and disk are *)
(* related as IInv says.                                                   *)
THEOREM Invariance == Spec => []IInv
<1>1. IInv /\ [Next]_vars => IInv'
  BY NextInv
<1>2. QED
  BY <1>1, InitInv, PTL DEF Spec

(* Every variable stays in its range, no pack is listed twice, each is     *)
(* listed with the format of its zip.                                      *)
LEMMA InvTyped ==
  IInv => TypeOK
<1> SUFFICES ASSUME IInv PROVE TypeOK
  OBVIOUS
<1>1. ASSUME NEW s, ListOK(s, zips, clock)
      PROVE  /\ s \in Seq(Setting)
             /\ \A i, j \in DOMAIN s : s[i].file = s[j].file => i = j
             /\ \A e \in ToSet(s) : zips[e.file] = "absent" \/ e.type = detectPackType(zips[e.file])
  BY <1>1 DEF ListOK, Listed, Distinct, Fits
<1>2. \A s \in {config, packInfos, toSave} :
        /\ s \in Seq(Setting)
        /\ \A i, j \in DOMAIN s : s[i].file = s[j].file => i = j
        /\ \A e \in ToSet(s) : zips[e.file] = "absent" \/ e.type = detectPackType(zips[e.file])
  BY <1>1 DEF IInv, ListsOK
<1>3. QED
  BY <1>2 DEF IInv, Types, TypeOK

(* So they do in every behaviour.                                          *)
THEOREM TypeCorrect == Spec => []TypeOK
BY Invariance, InvTyped, PTL

(* A page that shows no error shows what config.json holds of the zips     *)
(* that are there, whatever failed before.                                 *)
THEOREM MemoryIsDisk == Spec => []ShownIsSaved
<1>1. IInv => ShownIsSaved
  BY DEF IInv, SavedOrTold, Shown, ShownIsSaved
<1>2. QED
  BY <1>1, Invariance, PTL

(* Each card shows what the list says of its pack, although it is told of  *)
(* no load.                                                                *)
THEOREM CardsRight == Spec => []CardsTrue
<1>1. IInv => CardsTrue
  <2> SUFFICES ASSUME IInv, pc = "idle", NEW p \in DOMAIN cards PROVE cards[p] <=> p \in Enabled(packInfos)
    BY DEF CardsTrue
  <2>1. DOMAIN cards \subseteq Files(packInfos) /\ Agree(packInfos, cards)
    BY DEF IInv, CardsAgree
  <2>2. PICK e \in ToSet(packInfos) : e.file = p
    BY <2>1, FilesOf
  <2>3. cards[p] <=> e.enable
    BY <2>1, <2>2 DEF Agree
  <2>4. \A d \in ToSet(packInfos) : d.file = p => d = e
    BY <2>2 DEF IInv, ListsOK, ListOK, Listed, Distinct, ToSet
  <2>5. QED
    BY <2>2, <2>3, <2>4 DEF Enabled
<1>2. QED
  BY <1>1, Invariance, PTL

----------------------------------------------------------------------------
(* The page and the game.                                                  *)

(* The loader of TexturePacks, with what is proved of it.                  *)
Proved == INSTANCE TextureLoaderProofs
            WITH PackFiles <- ZipFiles, Entries <- [f \in ZipFiles |-> EntriesOf[f[2]]],
                 Configs <- {}, config <- OnDisk

(* It may assume what TextureLoader assumes.                               *)
LEMMA LoaderHolds ==
  /\ \A f \in ZipFiles : [g \in ZipFiles |-> EntriesOf[g[2]]][f] \in Seq(Proved!Entry)
  /\ {Game, NoTexture} \intersect ZipFiles = {} /\ Game # NoTexture
  /\ \A c \in {} : Proved!ConfigOK(c)
<1>1. Loader!Entry = Proved!Entry
  BY DEF Loader!Entry, Proved!Entry
<1>2. \A f \in ZipFiles : EntriesOf[f[2]] \in Seq(Loader!Entry)
  <2>1. \A f \in ZipFiles : f[2] \in AllContents \union {"absent"}
    BY DEF ZipFiles
  <2>2. QED
    BY <2>1, PacksAssumption
<1>3. QED
  BY <1>1, <1>2, PacksAssumption

----------------------------------------------------------------------------
(* The two instances are one loader.                                       *)

(* Operators of the library.                                               *)
LEMMA SameOperators ==
  /\ \A S : Loader!Cardinality(S) = Cardinality(S) /\ Proved!Cardinality(S) = Cardinality(S)
  /\ \A T : Loader!Min(T) = Min(T) /\ Proved!Min(T) = Min(T)
  /\ \A T : Loader!Max(T) = Max(T) /\ Proved!Max(T) = Max(T)
  /\ \A s : Loader!ToSet(s) = ToSet(s) /\ Proved!ToSet(s) = ToSet(s)
  /\ \A s : Loader!FlattenSeq(s) = Proved!FlattenSeq(s)
  /\ \A I, n : Loader!Place(I, n) = Place(I, n) /\ Proved!Place(I, n) = Place(I, n)
<1>1. \A S : Loader!Cardinality(S) = Cardinality(S)
  BY DEF Loader!Cardinality, Cardinality
<1>2. \A S : Proved!Cardinality(S) = Cardinality(S)
  BY DEF Proved!Cardinality, Cardinality
<1>3. \A T : Loader!Min(T) = Min(T) /\ Proved!Min(T) = Min(T)
  BY DEF Loader!Min, Proved!Min, Min
<1>4. \A T : Loader!Max(T) = Max(T) /\ Proved!Max(T) = Max(T)
  BY DEF Loader!Max, Proved!Max, Max
<1>5. \A s : Loader!ToSet(s) = ToSet(s) /\ Proved!ToSet(s) = ToSet(s)
  BY DEF Loader!ToSet, Proved!ToSet, ToSet
<1>6. \A s : Loader!FlattenSeq(s) = Proved!FlattenSeq(s)
  BY DEF Loader!FlattenSeq, Proved!FlattenSeq
<1>7. \A I, n : Loader!Place(I, n) = Place(I, n) /\ Proved!Place(I, n) = Place(I, n)
  BY <1>1, <1>2 DEF Loader!Place, Proved!Place, Place
<1>8. QED
  BY <1>1, <1>2, <1>3, <1>4, <1>5, <1>6, <1>7

(* The textures of a zip.                                                  *)
LEMMA SameTextures ==
  \A pack : Loader!GetTextures(pack) = Proved!GetTextures(pack)
<1>1. \A entries, i : Loader!DescriptionsOf(entries, i) = Proved!DescriptionsOf(entries, i)
  BY DEF Loader!DescriptionsOf, Proved!DescriptionsOf
<1>2. \A entries, i : Loader!Description(entries, i) = Proved!Description(entries, i)
  BY <1>1, SameOperators DEF Loader!Description, Proved!Description
<1>3. \A entries : Loader!Described(entries) = Proved!Described(entries)
  BY <1>1, <1>2 DEF Loader!Described, Proved!Described
<1>4. \A entries : Loader!LoadTLFormat(entries) = Proved!LoadTLFormat(entries)
  BY <1>2, <1>3, SameOperators DEF Loader!LoadTLFormat, Proved!LoadTLFormat
<1>5. \A entries : Loader!LoadZipFormat(entries) = Proved!LoadZipFormat(entries)
  BY SameOperators DEF Loader!LoadZipFormat, Proved!LoadZipFormat
<1>6. Loader!Pack = Proved!Pack
  BY DEF Loader!Pack, Proved!Pack
<1>7. Loader!textures = Proved!textures
  BY <1>4, <1>5, <1>6 DEF Loader!textures, Proved!textures
<1>8. \A pack : Loader!PackOf(pack) = Proved!PackOf(pack)
  BY DEF Loader!PackOf, Proved!PackOf
<1>9. QED
  BY <1>7, <1>8 DEF Loader!GetTextures, Proved!GetTextures

(* The steps.                                                              *)
LEMMA SameNext ==
  Loader!Next => Proved!Next
<1>1. Loader!ReadConfig => Proved!ReadConfig
  BY DEF Loader!ReadConfig, Proved!ReadConfig, Loader!Unparsable, Proved!Unparsable, Loader!maps, Proved!maps
<1>2. \A i : Loader!asyncLoadTexturePack(i) => Proved!asyncLoadTexturePack(i)
  BY DEF Loader!asyncLoadTexturePack, Proved!asyncLoadTexturePack, Loader!maps, Proved!maps
<1>3. Loader!TakePack => Proved!TakePack
  BY DEF Loader!TakePack, Proved!TakePack, Loader!NextPack, Proved!NextPack,
         Loader!PackOf, Proved!PackOf, Loader!maps, Proved!maps
<1>4. Loader!StartDecoding => Proved!StartDecoding
  <2>1. \A pack : Loader!Jobs(pack) = Proved!Jobs(pack)
    BY SameTextures DEF Loader!Jobs, Proved!Jobs
  <2>2. Loader!AllJobs = Proved!AllJobs
    <3>1. PICK js : js = [i \in DOMAIN TexturePacks |-> Loader!Jobs(TexturePacks[i])]
      OBVIOUS
    <3>2. js = [i \in DOMAIN TexturePacks |-> Proved!Jobs(TexturePacks[i])]
      BY <2>1, <3>1
    <3>3. Loader!FlattenSeq(js) = Proved!FlattenSeq(js)
      BY SameOperators
    <3>4. Loader!AllJobs = Loader!FlattenSeq(js) /\ Proved!AllJobs = Proved!FlattenSeq(js)
      BY <3>1, <3>2 DEF Loader!AllJobs, Proved!AllJobs
    <3>5. QED
      BY <3>3, <3>4
  <2>3. QED
    BY <2>2 DEF Loader!StartDecoding, Proved!StartDecoding, Loader!maps, Proved!maps
<1>5. \A j : Loader!Decode(j) => Proved!Decode(j)
  BY DEF Loader!Decode, Proved!Decode, Loader!maps, Proved!maps
<1>6. Loader!TakeResult => Proved!TakeResult
  BY DEF Loader!TakeResult, Proved!TakeResult, Loader!ResultOf, Proved!ResultOf, Loader!maps, Proved!maps
<1>7. Loader!HookAssets => Proved!HookAssets
  BY DEF Loader!HookAssets, Proved!HookAssets, Loader!maps, Proved!maps, Loader!jobs, Proved!jobs
<1>8. Loader!cctor => Proved!cctor
  <2>1. \A js, k : Loader!Emplaced(js, k) = Proved!Emplaced(js, k)
    BY SameOperators DEF Loader!Emplaced, Proved!Emplaced
  <2>2. QED
    BY <2>1 DEF Loader!cctor, Proved!cctor, Loader!jobs, Proved!jobs
<1>9. \A k : Loader!LoadTexture2D(k) => Proved!LoadTexture2D(k)
  <2>1. \A f, x, v : Loader!Extend(f, x, v) = Proved!Extend(f, x, v)
    BY DEF Loader!Extend, Proved!Extend
  <2>2. \A k, xna : Loader!Unconverted(k, xna) = Proved!Unconverted(k, xna)
    BY DEF Loader!Unconverted, Proved!Unconverted
  <2>3. QED
    BY <2>1, <2>2 DEF Loader!LoadTexture2D, Proved!LoadTexture2D, Loader!jobs, Proved!jobs
<1>10. QED
  BY <1>1, <1>2, <1>3, <1>4, <1>5, <1>6, <1>7, <1>8, <1>9 DEF Loader!Next, Proved!Next

----------------------------------------------------------------------------
(* What the page deletes.                                                  *)

Apart(s) == deleted \intersect Files(s) = {}

(* As long as a deletion never failed, what was deleted is off the disk;   *)
(* as long as nothing else failed, it is off the lists.                    *)
Gone ==
  /\ deleted \subseteq 1 .. clock
  /\ pc = "copy" => clock \notin deleted
  /\ "delete" \notin faults => \A p \in deleted : zips[p] = "absent"
  /\ faults \subseteq {"delete"} =>
       /\ Apart(toSave)
       /\ pc \in {"idle", "copy", "compose"} \/ thenLoad => Apart(packInfos) /\ Apart(config)
       /\ pc = "write" => config = <<>>
       /\ pc = "saved" => config = toSave

(* A list that lists less is apart as well.                                *)
LEMMA SmallerApart ==
  ASSUME NEW s, NEW t, ToSet(t) \subseteq ToSet(s), Apart(s)
  PROVE  Apart(t)
BY FilesOf DEF Apart

(* The page goes on keeping deleted packs away.                            *)
LEMMA GoneNext ==
  IInv /\ Gone /\ [Next]_vars => Gone'
<1> SUFFICES ASSUME IInv, Gone, [Next]_vars PROVE Gone'
  OBVIOUS
<1>0. /\ clock \in Nat /\ deleted \subseteq Nat /\ zips \in [Packs -> AllContents \union {"absent"}]
      /\ \A p \in 1 .. clock : p \in Packs
      /\ \A s : ListOK(s, zips, clock) => Files(s) \subseteq 1 .. clock
      /\ Apart(<<>>)
  BY PageAssumption, FilesOf, EmptyList DEF IInv, Types, Packs, ListOK, Fits, Gone, Apart
<1>1. CASE UNCHANGED vars
  BY <1>1 DEF vars, disk, page, handler, Gone, Apart
<1>2. ASSUME NEW content \in Contents, InstallPack(content) PROVE Gone'
  <2>1. /\ pc = "idle" /\ clock' = clock + 1 /\ clock' \in Packs /\ pc' \in {"copy", "compose"}
        /\ UNCHANGED <<configFile, config, packInfos, cards, deleted, toSave, thenLoad>>
        /\ faults \subseteq faults'
    BY <1>0, <1>2, PageAssumption DEF InstallPack, Failed, Fault, Packs
  <2>2. clock' \notin deleted /\ deleted \subseteq 1 .. clock'
    BY <1>0, <2>1 DEF Gone
  <2>3. \A p \in deleted : zips[p] = "absent" => zips'[p] = "absent"
    <3> SUFFICES ASSUME NEW p \in deleted, zips[p] = "absent" PROVE zips'[p] = "absent"
      OBVIOUS
    <3>1. p \in Packs /\ p # clock'
      BY <1>0, <2>2 DEF Gone
    <3>2. QED
      BY <1>0, <1>2, <3>1 DEF InstallPack, Failed
  <2>4. QED
    BY <2>1, <2>2, <2>3 DEF Gone, Apart
<1>3. ASSUME CopyPack PROVE Gone'
  <2>1. /\ pc = "copy" /\ clock' = clock /\ clock \in Packs /\ clock \notin deleted
        /\ clock \notin Files(packInfos) /\ clock \notin Files(config)
        /\ pc' \in {"open", "compose"} /\ faults \subseteq faults'
        /\ UNCHANGED <<configFile, config, packInfos, cards, deleted>>
    BY <1>3 DEF CopyPack, SaveConfig, Failed, Fault, IInv, Fresh, Gone
  <2>2. \A p \in deleted : zips[p] = "absent" => zips'[p] = "absent"
    <3> SUFFICES ASSUME NEW p \in deleted, zips[p] = "absent" PROVE zips'[p] = "absent"
      OBVIOUS
    <3>1. p \in Packs /\ p # clock
      BY <1>0, <2>1 DEF Gone
    <3>2. \A files : Failed(files) => zips'[p] = IF files[p] = "empty" THEN "absent" ELSE files[p]
      BY <3>1 DEF Failed
    <3>3. PICK copied : copied = [zips EXCEPT ![clock] = picked]
      OBVIOUS
    <3>4. copied[p] = "absent" /\ \A x : [copied EXCEPT ![clock] = x][p] = "absent"
      BY <1>0, <3>1, <3>3
    <3>5. QED
      BY <1>3, <3>2, <3>3, <3>4 DEF CopyPack
  <2>3. /\ pc' = "open" => thenLoad' = TRUE /\ toSave' = WithNew
        /\ pc' = "compose" => toSave' = toSave
    BY <1>3 DEF CopyPack, SaveConfig, Failed
  <2>4. ASSUME Apart(packInfos), pc' = "open" PROVE Apart(toSave)'
    <3>1. PICK new : toSave' = Append(packInfos, new) /\ new.file = clock
      BY <2>3, <2>4 DEF WithNew
    <3>2. packInfos \in Seq(Setting)
      BY DEF IInv, ListsOK, ListOK, Listed
    <3>3. \A i \in DOMAIN toSave' : (i \in DOMAIN packInfos /\ toSave'[i] = packInfos[i]) \/ toSave'[i] = new
      BY <3>1, <3>2
    <3>4. Files(toSave') \subseteq Files(packInfos) \union {clock}
      BY <3>1, <3>3 DEF Files
    <3>5. QED
      BY <2>1, <2>4, <3>4 DEF Apart
  <2>5. QED
    BY <2>1, <2>2, <2>3, <2>4 DEF Gone, Apart
<1>4. ASSUME NEW p \in Packs, DeletePack(p) PROVE Gone'
  <2>1. /\ pc = "idle" /\ p \in DOMAIN cards /\ pc' = "open" /\ thenLoad' = FALSE /\ toSave' = Others(p)
        /\ deleted' = deleted \union {p} /\ faults \subseteq faults'
        /\ UNCHANGED <<configFile, config, packInfos, errorMessage, cards, picked, clock>>
    BY <1>4 DEF DeletePack, SaveConfig, page, Fault
  <2>2. p \in Files(packInfos)
    BY <2>1, CardsOfShown
  <2>3. p \in 1 .. clock
    BY <1>0, <2>2 DEF IInv, ListsOK
  <2>4. "delete" \notin faults' => zips'[p] = "absent" /\ \A q \in deleted : zips[q] = "absent" => zips'[q] = "absent"
    <3>1. CASE zips' = [zips EXCEPT ![p] = "absent"]
      BY <1>0, <3>1 DEF Gone
    <3>2. CASE Fault("delete")
      BY <3>2 DEF Fault
    <3>3. QED
      BY <1>4, <3>1, <3>2 DEF DeletePack
  <2>5. ASSUME Apart(packInfos) PROVE Apart(toSave)'
    <3>1. /\ Listed(packInfos)
          /\ {i \in DOMAIN packInfos : packInfos[i].file # p} \in SUBSET (DOMAIN packInfos)
      BY DEF IInv, ListsOK, ListOK
    <3>2. Files(toSave') = {packInfos[i].file : i \in {i \in DOMAIN packInfos : packInfos[i].file # p}}
      BY <2>1, <3>1, Filtered DEF Others
    <3>3. p \notin Files(toSave') /\ Files(toSave') \subseteq Files(packInfos)
      BY <3>2 DEF Files
    <3>4. QED
      BY <2>1, <2>5, <3>3 DEF Apart
  <2>6. QED
    BY <2>1, <2>3, <2>4, <2>5 DEF Gone
<1>5. ASSUME NEW p \in Packs, TogglePack(p) PROVE Gone'
  <2>1. /\ pc = "idle" /\ pc' = "open" /\ thenLoad' = FALSE /\ toSave' = WithEnabled(p, ~cards[p])
        /\ UNCHANGED <<zips, configFile, config, packInfos, clock, deleted, faults>>
    BY <1>5 DEF TogglePack, SaveConfig, disk
  <2>2. ASSUME Apart(packInfos) PROVE Apart(toSave)'
    <3>1. packInfos \in Seq(Setting)
      BY DEF IInv, ListsOK, ListOK, Listed
    <3>2. /\ DOMAIN toSave' = DOMAIN packInfos
          /\ \A i \in DOMAIN packInfos :
               toSave'[i] = IF packInfos[i].file = p THEN [packInfos[i] EXCEPT !.enable = ~cards[p]] ELSE packInfos[i]
      BY <2>1 DEF WithEnabled
    <3>3. \A i \in DOMAIN packInfos : packInfos[i] \in Setting
      BY <3>1, SeqElement
    <3>4. \A i \in DOMAIN packInfos : toSave'[i].file = packInfos[i].file
      BY <3>2, <3>3 DEF Setting
    <3>5. Files(toSave') = Files(packInfos)
      BY <3>2, <3>4 DEF Files
    <3>6. QED
      BY <2>1, <2>2, <3>5 DEF Apart
  <2>3. QED
    BY <2>1, <2>2 DEF Gone
<1>6. ASSUME SaveOpen PROVE Gone'
  <2>1. /\ pc = "open" /\ pc' \in {"write", "saved"} /\ faults \subseteq faults'
        /\ UNCHANGED <<zips, packInfos, toSave, thenLoad, clock, deleted>>
        /\ faults' \subseteq {"delete"} => pc' = "write" /\ config' = <<>>
    BY <1>6 DEF SaveOpen, Fault
  <2>2. QED
    BY <1>0, <2>1 DEF Gone, Apart
<1>7. ASSUME SaveWrite PROVE Gone'
  <2>1. /\ pc = "write" /\ pc' = "saved" /\ faults \subseteq faults'
        /\ UNCHANGED <<zips, packInfos, toSave, thenLoad, clock, deleted>>
        /\ faults' \subseteq {"delete"} => config' = toSave
    BY <1>7 DEF SaveWrite, Fault
  <2>2. QED
    BY <2>1 DEF Gone, Apart
<1>8. ASSUME Saved PROVE Gone'
  <2>1. /\ pc = "saved" /\ pc' = "compose"
        /\ UNCHANGED <<zips, configFile, config, toSave, thenLoad, clock, deleted, faults>>
    BY <1>8 DEF Saved, disk
  <2>2. CASE thenLoad
    <3>1. packInfos' = packInfos \/ ToSet(packInfos') \subseteq ToSet(config)
      BY <1>8, <2>1, <2>2, LoadShows DEF Saved, IInv, Types
    <3>2. Apart(packInfos) /\ Apart(config) => Apart(packInfos')
      BY <3>1, SmallerApart
    <3>3. QED
      BY <2>1, <2>2, <3>2 DEF Gone, Apart
  <2>3. CASE ~thenLoad
    BY <1>8, <2>1, <2>3 DEF Saved, Gone, Apart
  <2>4. QED
    BY <2>2, <2>3
<1>9. ASSUME Compose PROVE Gone'
  <2>1. /\ pc = "compose" /\ pc' = "idle" /\ toSave' = <<>> /\ thenLoad' = FALSE
        /\ UNCHANGED <<zips, configFile, config, clock, deleted, faults>>
    BY <1>9 DEF Compose, disk
  <2>2. packInfos' = packInfos \/ ToSet(packInfos') \subseteq ToSet(config)
    BY <1>9, <2>1, LoadShows DEF Compose, IInv, Types
  <2>3. Apart(packInfos) /\ Apart(config) => Apart(packInfos')
    BY <2>2, SmallerApart
  <2>4. QED
    BY <1>0, <2>1, <2>3 DEF Gone, Apart
<1>10. ASSUME Restart PROVE Gone'
  <2>1. /\ packInfos' = <<>> /\ pc' = "compose" /\ toSave' = <<>> /\ thenLoad' = FALSE /\ faults \subseteq faults'
        /\ UNCHANGED <<config, clock, deleted>>
        /\ faults' \subseteq {"delete"} => pc = "idle"
    BY <1>10 DEF Restart, Fault
  <2>2. \A p \in deleted : zips'[p] = zips[p]
    <3> SUFFICES ASSUME NEW p \in deleted PROVE zips'[p] = zips[p]
      OBVIOUS
    <3>1. p \in Packs /\ ~(pc = "copy" /\ p = clock)
      BY <1>0 DEF Gone
    <3>2. QED
      BY <1>10, <3>1, RestartZips
  <2>3. QED
    BY <1>0, <2>1, <2>2 DEF Gone, Apart
<1>11. QED
  BY <1>1, <1>2, <1>3, <1>4, <1>5, <1>6, <1>7, <1>8, <1>9, <1>10 DEF Next

----------------------------------------------------------------------------
(* The page and the game together.                                         *)

(* The game reads a disk that is in order, and that nobody changes while   *)
(* it runs.                                                                *)
Playing ==
  /\ Proved!IInv
  /\ phase = "start" => Proved!Off
  /\ phase # "start" => pc \in {"idle", "compose"}
  /\ phase = "terminated" => configFile = "torn"

(* A torn config.json is one whose write was cut off.                       *)
Torn == configFile = "torn" => "tear" \in faults

BothInv == IInv /\ Gone /\ Torn /\ Playing

(* What the page writes is a config.json the game can take.                *)
LEMMA DiskRead ==
  IInv => Proved!ConfigOK(OnDisk)
<1> SUFFICES ASSUME IInv PROVE Proved!ConfigOK(OnDisk)
  OBVIOUS
<1>1. /\ config \in Seq(Setting) /\ Distinct(config) /\ Len(config) \in Nat /\ DOMAIN config = 1 .. Len(config)
      /\ \A i \in DOMAIN config : config[i] \in Setting
  BY SeqElement DEF IInv, ListsOK, ListOK, Listed
<1>2. zips \in [Packs -> AllContents \union {"absent"}]
  BY DEF IInv, Types
<1>3. PICK items : items = OnDisk.items
  OBVIOUS
<1>4. /\ DOMAIN items = 1 .. Len(config)
      /\ \A i \in DOMAIN config : items[i] = [config[i] EXCEPT !.file = <<config[i].file, zips[config[i].file]>>]
      /\ items = [i \in 1 .. Len(config) |-> items[i]]
  BY <1>1, <1>3 DEF OnDisk
<1>5. \A i \in DOMAIN config :
        /\ items[i] \in Proved!Item
        /\ items[i].file[1] = config[i].file
  <2> SUFFICES ASSUME NEW i \in DOMAIN config PROVE items[i] \in Proved!Item /\ items[i].file[1] = config[i].file
    OBVIOUS
  <2>1. config[i].file \in Packs /\ zips[config[i].file] \in AllContents \union {"absent"}
    BY <1>1, <1>2 DEF Setting
  <2>2. PICK z : z = <<config[i].file, zips[config[i].file]>>
    OBVIOUS
  <2>3. z \in ZipFiles /\ z[1] = config[i].file
    BY <2>1, <2>2 DEF ZipFiles
  <2>4. items[i] = [config[i] EXCEPT !.file = z] /\ config[i] \in Setting
    BY <1>1, <1>4, <2>2
  <2>5. items[i] = [file |-> z, type |-> config[i].type, enable |-> config[i].enable]
    BY <2>4 DEF Setting
  <2>6. config[i].type \in {0, 1} /\ config[i].enable \in BOOLEAN
    BY <2>4 DEF Setting
  <2>7. QED
    BY <2>3, <2>5, <2>6 DEF Proved!Item
<1>6. items \in Seq(Proved!Item)
  BY <1>1, <1>4, <1>5
<1>7. \A i, j \in DOMAIN items : items[i].file = items[j].file => i = j
  BY <1>1, <1>4, <1>5 DEF Distinct
<1>8. OnDisk.file = configFile /\ configFile \in {"absent", "empty", "torn", "whole"}
  BY DEF OnDisk, IInv, Types
<1>9. QED
  BY <1>3, <1>6, <1>7, <1>8 DEF Proved!ConfigOK

(* A game that has not started has nothing that could be out of order.     *)
LEMMA BeforeStart ==
  IInv /\ Proved!Off => Proved!IInv
BY DiskRead, LoaderHolds, Proved!InitInv

(* Every step of the page is one of TexturePage, or none.                  *)
LEMMA PageStep ==
  BothNext => [Next]_vars
BY DEF BothNext, UsePage, Play, Leave

(* Only a write that is cut off leaves a torn config.json.                 *)
LEMMA TornNext ==
  Torn /\ [Next]_vars => Torn'
<1> SUFFICES ASSUME Torn, [Next]_vars PROVE Torn'
  OBVIOUS
<1> USE DEF Torn
<1>1. CASE UNCHANGED <<configFile, faults>>
  BY <1>1
<1>2. CASE UNCHANGED configFile /\ \E kind \in Faults : Fault(kind)
  BY <1>2 DEF Fault
<1>3. CASE SaveOpen
  BY <1>3 DEF SaveOpen, Fault
<1>4. CASE SaveWrite
  BY <1>4 DEF SaveWrite, Fault
<1>5. CASE Restart
  BY <1>5 DEF Restart, Fault
<1>6. ASSUME NEW content \in Contents, InstallPack(content) PROVE Torn'
  BY <1>6 DEF InstallPack, Fault
<1>7. CASE CopyPack
  BY <1>7 DEF CopyPack, Fault
<1>8. ASSUME NEW p \in Packs, DeletePack(p) PROVE Torn'
  BY <1>8 DEF DeletePack, Fault
<1>9. CASE Saved \/ Compose \/ \E p \in Packs : TogglePack(p)
  BY <1>1, <1>9 DEF Saved, Compose, TogglePack, disk
<1>10. CASE UNCHANGED vars
  BY <1>1, <1>10 DEF vars, disk
<1>11. QED
  BY <1>3, <1>4, <1>5, <1>6, <1>7, <1>8, <1>9, <1>10 DEF Next

(* Only a config.json that does not parse ends the game.                   *)
LEMMA TerminatedTorn ==
  ASSUME Loader!Next, phase' = "terminated", phase # "terminated"
  PROVE  configFile = "torn"
<1>1. CASE Loader!ReadConfig
  BY <1>1 DEF Loader!ReadConfig, Loader!Unparsable, OnDisk
<1>2. CASE \E i \in DOMAIN packJobs : Loader!asyncLoadTexturePack(i)
  BY <1>2 DEF Loader!asyncLoadTexturePack
<1>3. CASE Loader!TakePack
  BY <1>3 DEF Loader!TakePack
<1>4. CASE Loader!StartDecoding
  BY <1>4 DEF Loader!StartDecoding
<1>5. CASE \E j \in DOMAIN decodeJobs : Loader!Decode(j)
  BY <1>5 DEF Loader!Decode
<1>6. CASE Loader!TakeResult
  BY <1>6 DEF Loader!TakeResult
<1>7. CASE Loader!HookAssets
  BY <1>7 DEF Loader!HookAssets
<1>8. CASE Loader!cctor
  BY <1>8 DEF Loader!cctor
<1>9. CASE \E k \in Keys : Loader!LoadTexture2D(k)
  BY <1>9 DEF Loader!LoadTexture2D
<1>10. QED
  BY <1>1, <1>2, <1>3, <1>4, <1>5, <1>6, <1>7, <1>8, <1>9 DEF Loader!Next

(* JNI_OnLoad never goes back to its start.                                *)
LEMMA NotBack ==
  ASSUME Loader!Next
  PROVE  phase' # "start"
<1>1. CASE Loader!ReadConfig
  BY <1>1 DEF Loader!ReadConfig
<1>2. CASE \E i \in DOMAIN packJobs : Loader!asyncLoadTexturePack(i)
  BY <1>2 DEF Loader!asyncLoadTexturePack
<1>3. CASE Loader!TakePack
  BY <1>3 DEF Loader!TakePack
<1>4. CASE Loader!StartDecoding
  BY <1>4 DEF Loader!StartDecoding
<1>5. CASE \E j \in DOMAIN decodeJobs : Loader!Decode(j)
  BY <1>5 DEF Loader!Decode
<1>6. CASE Loader!TakeResult
  BY <1>6 DEF Loader!TakeResult
<1>7. CASE Loader!HookAssets
  BY <1>7 DEF Loader!HookAssets
<1>8. CASE Loader!cctor
  BY <1>8 DEF Loader!cctor
<1>9. CASE \E k \in Keys : Loader!LoadTexture2D(k)
  BY <1>9 DEF Loader!LoadTexture2D
<1>10. QED
  BY <1>1, <1>2, <1>3, <1>4, <1>5, <1>6, <1>7, <1>8, <1>9 DEF Loader!Next

(* At the start there is no list and no game.                              *)
LEMMA BothInitInv ==
  BothInit => BothInv
<1> SUFFICES ASSUME BothInit PROVE BothInv
  OBVIOUS
<1>1. IInv
  BY InitInv DEF BothInit
<1>2. Proved!Off /\ phase = "start"
  BY DEF BothInit, Loader!Off, Proved!Off
<1>3. Playing
  BY <1>1, <1>2, BeforeStart DEF Playing
<1>4. Torn
  BY DEF BothInit, Init, Torn
<1>5. Gone
  <2>1. deleted = {} /\ toSave = <<>> /\ packInfos = <<>> /\ config = <<>> /\ pc = "compose"
    BY DEF BothInit, Init
  <2>2. QED
    BY <2>1 DEF Gone, Apart
<1>6. QED
  BY <1>1, <1>3, <1>4, <1>5 DEF BothInv

(* The page does not move while the game runs, and the game only reads.    *)
LEMMA BothNextInv ==
  BothInv /\ [BothNext]_allVars => BothInv'
<1>0. (IInv /\ Proved!Off => Proved!IInv)'
  <2>1. IInv /\ Proved!Off => Proved!IInv
    BY BeforeStart
  <2>2. QED
    BY BeforeStart, PTL
<1> SUFFICES ASSUME BothInv, [BothNext]_allVars PROVE BothInv'
  OBVIOUS
<1>1. [Next]_vars
  BY PageStep DEF allVars
<1>2. IInv' /\ Gone' /\ Torn'
  BY <1>1, NextInv, GoneNext, TornNext DEF BothInv
<1>3. CASE UNCHANGED allVars
  <2>1. UNCHANGED vars /\ UNCHANGED loader
    BY <1>3 DEF allVars
  <2>2. UNCHANGED Proved!vars /\ UNCHANGED <<phase, pc, configFile>>
    BY <2>1 DEF vars, loader, disk, handler, OnDisk, Proved!vars, Proved!jobs, Proved!maps
  <2>3. Proved!IInv'
    BY <2>2, LoaderHolds, Proved!NextInv DEF BothInv, Playing
  <2>4. Proved!Off => Proved!Off'
    BY <2>1 DEF loader, Proved!Off
  <2>5. Playing'
    BY <2>2, <2>3, <2>4 DEF BothInv, Playing
  <2>6. QED
    BY <1>2, <2>5 DEF BothInv
<1>4. CASE UsePage
  <2>1. phase = "start" /\ phase' = "start" /\ Proved!Off'
    BY <1>4 DEF UsePage, loader, BothInv, Playing, Proved!Off
  <2>2. Playing'
    BY <1>0, <1>2, <2>1 DEF Playing
  <2>3. QED
    BY <1>2, <2>2 DEF BothInv
<1>5. CASE Play
  <2>1. /\ pc' = pc /\ configFile' = configFile /\ pc \in {"idle", "compose"} /\ Loader!Next
    BY <1>5 DEF Play, vars, disk, handler
  <2>2. Proved!IInv'
    BY <2>1, SameNext, LoaderHolds, Proved!NextInv DEF BothInv, Playing
  <2>3. phase' # "start" /\ (phase' = "terminated" /\ phase # "terminated" => configFile = "torn")
    BY <2>1, NotBack, TerminatedTorn
  <2>4. Playing'
    BY <2>1, <2>2, <2>3 DEF BothInv, Playing
  <2>5. QED
    BY <1>2, <2>4 DEF BothInv
<1>6. CASE Leave
  <2>1. phase' = "start" /\ Proved!Off'
    BY <1>6 DEF Leave, Proved!Off
  <2>2. Playing'
    BY <1>0, <1>2, <2>1 DEF Playing
  <2>3. QED
    BY <1>2, <2>2 DEF BothInv
<1>7. QED
  BY <1>3, <1>4, <1>5, <1>6 DEF BothNext

----------------------------------------------------------------------------
(* What follows.                                                           *)

(* Whatever is proved of the page alone holds beside the game: this is one *)
(* of its behaviours.                                                      *)
THEOREM PageAsBefore == BothSpec => Spec
<1>1. BothInit => Init
  BY DEF BothInit
<1>2. [BothNext]_allVars => [Next]_vars
  BY PageStep DEF allVars
<1>3. QED
  BY <1>1, <1>2, PTL DEF BothSpec, Spec

(* Page, disk and game are related as BothInv says, through every fault    *)
(* and every game.                                                         *)
THEOREM BothInvariance == BothSpec => []BothInv
BY BothInitInv, BothNextInv, PTL DEF BothSpec

(* The game comes up whatever the page did, was killed at or failed to     *)
(* write, unless a write was cut off in the middle of the text.            *)
THEOREM AlwaysStarts == BothSpec => []GameStarts
<1>1. BothInv => GameStarts
  BY DEF BothInv, Playing, Torn, GameStarts
<1>2. QED
  BY <1>1, BothInvariance, PTL

(* What the game reads of config.json.                                     *)
LEMMA ItemOnDisk ==
  ASSUME IInv, NEW i \in DOMAIN config
  PROVE  /\ config[i] \in Setting /\ config[i].file \in Packs
         /\ DOMAIN OnDisk.items = DOMAIN config
         /\ OnDisk.items[i].file = <<config[i].file, zips[config[i].file]>>
         /\ OnDisk.items[i].file \in ZipFiles
         /\ OnDisk.items[i].type = config[i].type
         /\ OnDisk.items[i].enable = config[i].enable
         /\ zips[config[i].file] = "absent" \/ config[i].type = detectPackType(zips[config[i].file])
<1>1. config[i] \in Setting /\ config[i] \in ToSet(config)
  BY SeqElement DEF IInv, ListsOK, ListOK, Listed, ToSet
<1>2. config[i].file \in Packs /\ zips[config[i].file] \in AllContents \union {"absent"}
  BY <1>1 DEF Setting, IInv, Types
<1>3. PICK z : z = <<config[i].file, zips[config[i].file]>>
  OBVIOUS
<1>4. z \in ZipFiles
  BY <1>2, <1>3 DEF ZipFiles
<1>5. DOMAIN OnDisk.items = DOMAIN config /\ OnDisk.items[i] = [config[i] EXCEPT !.file = z]
  BY <1>3 DEF OnDisk
<1>6. OnDisk.items[i] = [file |-> z, type |-> config[i].type, enable |-> config[i].enable]
  BY <1>1, <1>5 DEF Setting
<1>7. Fits(config[i], zips, clock)
  BY <1>1 DEF IInv, ListsOK, ListOK
<1>8. QED
  BY <1>1, <1>2, <1>3, <1>4, <1>5, <1>6, <1>7 DEF Fits

(* A zip that is gone has no textures, in either format.                   *)
LEMMA NoTexturesOfAbsent ==
  ASSUME NEW pack, pack.file \in ZipFiles, pack.type \in {0, 1}, EntriesOf[pack.file[2]] = <<>>
  PROVE  Proved!GetTextures(pack) = <<>>
<1>1. [f \in ZipFiles |-> EntriesOf[f[2]]][pack.file] = <<>>
  OBVIOUS
<1>2. DOMAIN <<>> = {} /\ Cardinality({}) = 0
  BY FS_EmptySet
<1>3. Proved!LoadZipFormat(<<>>) = <<>>
  BY <1>2, SameOperators DEF Proved!LoadZipFormat
<1>4. Proved!Described(<<>>) = {}
  BY <1>2 DEF Proved!Described
<1>5. Proved!LoadTLFormat(<<>>) = <<>>
  <2>1. Proved!Cardinality(Proved!Described(<<>>)) = 0
    BY <1>2, <1>4, SameOperators
  <2>2. 1 .. Proved!Cardinality(Proved!Described(<<>>)) = {}
    BY <2>1
  <2>3. QED
    BY <2>2 DEF Proved!LoadTLFormat
<1>6. QED
  BY <1>1, <1>3, <1>5, LoaderHolds, Proved!TexturesByType

(* A set of faults with at most one element that has delete has no other.  *)
LEMMA OneFault ==
  ASSUME IInv, Cardinality(faults) <= 1
  PROVE  "delete" \notin faults \/ faults \subseteq {"delete"}
<1> SUFFICES ASSUME "delete" \in faults, NEW kind \in faults, kind # "delete" PROVE FALSE
  OBVIOUS
<1>1. IsFiniteSet(faults)
  <2>1. IsFiniteSet(Faults)
    <3>1. Faults = {"copy", "delete"} \union ({"open", "write"} \union {"crash", "tear"})
      BY DEF Faults
    <3>2. IsFiniteSet({"copy", "delete"}) /\ IsFiniteSet({"open", "write"}) /\ IsFiniteSet({"crash", "tear"})
      <4>1. ASSUME NEW x, NEW y PROVE IsFiniteSet({x, y})
        <5>1. IsFiniteSet({x}) /\ IsFiniteSet({y})
          BY FS_Singleton
        <5>2. {x, y} = {x} \union {y}
          OBVIOUS
        <5>3. QED
          BY <5>1, <5>2, FS_Union
      <4>2. QED
        BY <4>1
    <3>3. QED
      BY <3>1, <3>2, FS_Union
  <2>2. QED
    BY <2>1, FS_Subset DEF IInv, Types
<1>2. {"delete", kind} \subseteq faults
  OBVIOUS
<1>3. Cardinality({"delete"} \union {kind}) = 2
  <2>1. IsFiniteSet({"delete"}) /\ Cardinality({"delete"}) = 1
    BY FS_Singleton
  <2>2. Cardinality({"delete"} \union {kind}) = Cardinality({"delete"}) + 1
    BY <2>1, FS_AddElement
  <2>3. QED
    BY <2>1, <2>2
<1>4. {"delete", kind} = {"delete"} \union {kind}
  OBVIOUS
<1>5. Cardinality({"delete", kind}) <= Cardinality(faults) /\ Cardinality(faults) \in Nat
  BY <1>1, <1>2, FS_Subset, FS_CardinalityType
<1>6. QED
  BY <1>3, <1>4, <1>5

(* A deleted pack has no texture in the game, although its zip or its      *)
(* entry may have been left behind, unless two kinds of faults happened.   *)
THEOREM NoGhosts == BothSpec => []DeletedGone
<1>1. BothInv => DeletedGone
  <2> SUFFICES ASSUME BothInv, phase = "ready", Cardinality(faults) <= 1,
                      NEW j \in DOMAIN decodeResults, decodeResults[j].pack[1] \in deleted
               PROVE  FALSE
    BY DEF DeletedGone
  <2>1. /\ IInv /\ Gone /\ Proved!IInv /\ pc \in {"idle", "compose"}
    BY DEF BothInv, Playing
  <2>2. PICK i \in Proved!EnabledItems : /\ decodeResults[j].pack = OnDisk.items[i].file
                                         /\ Proved!GetTextures(OnDisk.items[i]) # <<>>
    BY <2>1, LoaderHolds, Proved!ResultHasPack
  <2>3. i \in DOMAIN OnDisk.items
    BY <2>2 DEF Proved!EnabledItems
  <2>4. i \in DOMAIN config
    BY <2>3 DEF OnDisk
  <2>5. /\ OnDisk.items[i].file = <<config[i].file, zips[config[i].file]>>
        /\ OnDisk.items[i].file \in ZipFiles /\ OnDisk.items[i].type \in {0, 1}
    BY <2>1, <2>4, ItemOnDisk DEF Setting
  <2>6. config[i].file \in deleted /\ config[i].file \in Files(config)
    BY <2>2, <2>4, <2>5 DEF Files
  <2>7. zips[config[i].file] # "absent"
    <3>1. EntriesOf[OnDisk.items[i].file[2]] # <<>>
      BY <2>2, <2>5, NoTexturesOfAbsent
    <3>2. QED
      BY <2>5, <3>1, PacksAssumption
  <2>8. CASE "delete" \notin faults
    BY <2>1, <2>6, <2>7, <2>8 DEF Gone
  <2>9. CASE faults \subseteq {"delete"}
    BY <2>1, <2>6, <2>9 DEF Gone, Apart
  <2>10. QED
    BY <2>1, <2>8, <2>9, OneFault
<1>2. QED
  BY <1>1, BothInvariance, PTL

(* The page finds in a zip what the game finds there.                      *)
LEMMA SameHas ==
  ASSUME IInv, NEW i \in DOMAIN config, NEW k
  PROVE  /\ Has(config[i].file, k) <=>
              [key |-> k, decodes |-> TRUE] \in Proved!ToSet(Proved!GetTextures(OnDisk.items[i]))
         /\ Has(config[i].file, k) => zips[config[i].file] # "absent"
<1>1. PICK p, item : p = config[i].file /\ item = OnDisk.items[i]
  OBVIOUS
<1>2. /\ item.file = <<p, zips[p]>> /\ item.file \in ZipFiles /\ item.type \in {0, 1}
      /\ zips[p] = "absent" \/ item.type = detectPackType(zips[p])
  BY <1>1, ItemOnDisk DEF Setting
<1>3. PICK pack : pack = [file |-> <<p, zips[p]>>, type |-> detectPackType(zips[p])]
  OBVIOUS
<1>4. pack.file = item.file /\ pack.type = detectPackType(zips[p]) /\ pack.file[2] = zips[p]
  BY <1>2, <1>3
<1>5. Has(p, k) <=> zips[p] # "absent" /\ [key |-> k, decodes |-> TRUE] \in ToSet(Proved!GetTextures(pack))
  BY <1>3, SameTextures DEF Has
<1>6. CASE zips[p] = "absent"
  <2>1. Proved!GetTextures(item) = <<>>
    BY <1>2, <1>6, NoTexturesOfAbsent, PacksAssumption
  <2>2. ToSet(<<>>) = {}
    BY DEF ToSet
  <2>3. QED
    BY <1>1, <1>5, <1>6, <2>1, <2>2, SameOperators
<1>7. CASE zips[p] # "absent"
  <2>1. Proved!GetTextures(pack) = Proved!GetTextures(item)
    BY <1>2, <1>4, <1>7 DEF Proved!GetTextures, Proved!PackOf
  <2>2. QED
    BY <1>1, <1>5, <1>7, <2>1, SameOperators
<1>8. QED
  BY <1>6, <1>7

(* Of the packs that are shown, the enabled ones of which G holds come in  *)
(* the order of config.json.                                               *)
LEMMA ShownInOrder ==
  ASSUME IInv, Shown, NEW G,
         \A e \in G : e.enable, \A i \in DOMAIN config : config[i] \in G => zips[config[i].file] # "absent",
         NEW O, O = {i \in DOMAIN packInfos : packInfos[i] \in G},
         NEW T, T = {i \in DOMAIN config : config[i] \in G}
  PROVE  /\ O = {} <=> T = {}
         /\ T # {} => packInfos[Min(O)] = config[Min(T)]
<1>1. config \in Seq(Setting) /\ packInfos \in Seq(Setting) /\ Present \in Seq(Setting)
  BY PresentListed DEF IInv, ListsOK, ListOK, Listed
<1>2. PICK a, b : a = EnabledOf(packInfos) /\ b = Present
  OBVIOUS
<1>3. a = EnabledOf(b)
  BY <1>2 DEF Shown
<1>4. /\ {n \in DOMAIN a : a[n] \in G} = {} <=> O = {}
      /\ O # {} => a[Min({n \in DOMAIN a : a[n] \in G})] = packInfos[Min(O)]
  <2>1. PICK I : I = {i \in DOMAIN packInfos : packInfos[i].enable}
    OBVIOUS
  <2>2. I \in SUBSET (DOMAIN packInfos) /\ a = Subsequence(packInfos, I)
    BY <1>2, <2>1 DEF EnabledOf
  <2>3. Keeps(packInfos, I, G)
    BY <2>1 DEF Keeps
  <2>4. QED
    BY <1>1, <2>2, <2>3, FirstOfSubsequence
<1>5. PICK B : B = {n \in DOMAIN b : b[n] \in G}
  OBVIOUS
<1>6. /\ {n \in DOMAIN a : a[n] \in G} = {} <=> B = {}
      /\ B # {} => a[Min({n \in DOMAIN a : a[n] \in G})] = b[Min(B)]
  <2>1. PICK I : I = {i \in DOMAIN b : b[i].enable}
    OBVIOUS
  <2>2. I \in SUBSET (DOMAIN b) /\ a = Subsequence(b, I) /\ b \in Seq(Setting)
    BY <1>1, <1>2, <1>3, <2>1 DEF EnabledOf
  <2>3. Keeps(b, I, G)
    BY <2>1 DEF Keeps
  <2>4. QED
    BY <1>5, <2>2, <2>3, FirstOfSubsequence
<1>7. /\ B = {} <=> T = {}
      /\ T # {} => b[Min(B)] = config[Min(T)]
  <2>1. PICK I : I = {i \in DOMAIN config : zips[config[i].file] # "absent"}
    OBVIOUS
  <2>2. I \in SUBSET (DOMAIN config) /\ b = Subsequence(config, I)
    BY <1>2, <2>1 DEF Present
  <2>3. Keeps(config, I, G)
    BY <2>1 DEF Keeps
  <2>4. /\ {n \in DOMAIN b : b[n] \in G} = {} <=> {i \in DOMAIN config : config[i] \in G} = {}
        /\ {i \in DOMAIN config : config[i] \in G} # {} =>
             b[Min({n \in DOMAIN b : b[n] \in G})] = config[Min({i \in DOMAIN config : config[i] \in G})]
    <3>1. config \in Seq(Setting)
      BY <1>1
    <3>2. QED
      BY <2>2, <2>3, <3>1, FirstOfSubsequence
  <2>5. T = {i \in DOMAIN config : config[i] \in G} /\ B = {n \in DOMAIN b : b[n] \in G}
    BY <1>5
  <2>6. QED
    BY <2>4, <2>5, Zenon
<1>8. QED
  BY <1>4, <1>6, <1>7

(* If the page shows no error, then of the packs it shows as enabled the   *)
(* topmost with a texture for a path is the one the game loads for it, and *)
(* without one the game keeps its own.                                     *)
THEOREM Decides == BothSpec => []PageDecides
<1>1. BothInv => PageDecides
  <2> SUFFICES ASSUME BothInv, phase = "ready", pc = "idle", errorMessage = "none", NEW k \in Keys,
                      NEW O, O = {i \in DOMAIN packInfos : packInfos[i].enable /\ Has(packInfos[i].file, k)},
                      NEW L, L = {j \in DOMAIN decodeResults : decodeResults[j].contentKey = k /\ decodeResults[j].success}
               PROVE  /\ O = {} <=> L = {}
                      /\ O # {} => decodeResults[Min(L)].pack[1] = packInfos[Min(O)].file
    BY DEF PageDecides
  <2>1. IInv /\ Proved!IInv /\ Shown
    BY DEF BothInv, Playing, IInv, SavedOrTold
  <2>2. PICK G : G = {e \in Setting : e.enable /\ Has(e.file, k)}
    OBVIOUS
  <2>3. PICK T : T = {i \in DOMAIN config : config[i] \in G}
    OBVIOUS
  <2>4. config \in Seq(Setting) /\ packInfos \in Seq(Setting) /\ DOMAIN config \subseteq Nat
    BY <2>1 DEF IInv, ListsOK, ListOK, Listed
  <2>5. O = {i \in DOMAIN packInfos : packInfos[i] \in G}
    <3>1. \A i \in DOMAIN packInfos : packInfos[i] \in Setting
      BY <2>4, SeqElement
    <3>2. QED
      BY <2>2, <3>1
  <2>6. \A i \in DOMAIN config : config[i] \in G <=> config[i].enable /\ Has(config[i].file, k)
    <3>1. \A i \in DOMAIN config : config[i] \in Setting
      BY <2>4, SeqElement
    <3>2. QED
      BY <2>2, <3>1
  <2>7. /\ O = {} <=> T = {}
        /\ T # {} => packInfos[Min(O)] = config[Min(T)]
    <3>1. (\A e \in G : e.enable) /\ \A i \in DOMAIN config : config[i] \in G => zips[config[i].file] # "absent"
      BY <2>1, <2>2, <2>6, SameHas
    <3>2. QED
      BY <2>1, <2>3, <2>5, <3>1, ShownInOrder
  <2>8. CASE configFile = "whole"
    <3>1. OnDisk.file = "whole" /\ Proved!FirstPackFirst
      BY <2>1, <2>8, LoaderHolds, Proved!InvFirst DEF OnDisk
    <3>2. Proved!Providers(k) = T
      <4>1. \A i \in DOMAIN config :
              /\ DOMAIN OnDisk.items = DOMAIN config /\ OnDisk.items[i].enable = config[i].enable
              /\ Has(config[i].file, k) <=>
                   [key |-> k, decodes |-> TRUE] \in Proved!ToSet(Proved!GetTextures(OnDisk.items[i]))
        BY <2>1, ItemOnDisk, SameHas
      <4>2. DOMAIN OnDisk.items = DOMAIN config
        BY DEF OnDisk
      <4>3. Proved!EnabledItems = {i \in DOMAIN config : config[i].enable}
        BY <4>1, <4>2 DEF Proved!EnabledItems
      <4>4. QED
        BY <2>3, <2>6, <4>1, <4>3 DEF Proved!Providers
    <3>3. /\ L = {} <=> T = {}
          /\ L # {} => decodeResults[Min(L)].pack = OnDisk.items[Min(T)].file
      BY <3>1, <3>2, SameOperators DEF Proved!FirstPackFirst
    <3>4. ASSUME T # {} PROVE OnDisk.items[Min(T)].file[1] = config[Min(T)].file
      <4>1. Min(T) \in DOMAIN config
        BY <2>3, <2>4, <3>4, MinOfPositions
      <4>2. QED
        BY <2>1, <4>1, ItemOnDisk
    <3>5. QED
      BY <2>7, <3>3, <3>4
  <2>9. CASE configFile # "whole"
    <3>1. configFile = "absent" /\ config = <<>>
      BY <2>1, <2>9 DEF Shown, IInv, Types
    <3>2. T = {}
      BY <2>3, <3>1
    <3>3. L = {}
      <4>1. \A j \in DOMAIN decodeResults : OnDisk.file = "whole"
        BY <2>1, LoaderHolds, Proved!ResultHasPack
      <4>2. QED
        BY <2>9, <4>1 DEF OnDisk
    <3>4. QED
      BY <2>7, <3>2, <3>3
  <2>10. QED
    BY <2>8, <2>9
<1>2. QED
  BY <1>1, BothInvariance, PTL
=============================================================================
