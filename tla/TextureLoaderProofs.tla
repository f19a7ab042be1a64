------------------------ MODULE TextureLoaderProofs ------------------------
(***************************************************************************)
(* What TextureLoader keeps, whatever the packs, their contents and the    *)
(* order in which the threads end, and that it implements TextureService.  *)
(***************************************************************************)
EXTENDS TextureLoader, SubsequenceProofs

Texture == [key : Keys, decodes : BOOLEAN]
Job     == [pack : PackFiles, key : Keys, decodes : BOOLEAN, state : {"running", "ready"}]

TextureOf(job) == [key |-> job.key, decodes |-> job.decodes]

----------------------------------------------------------------------------
(* The invariant.                                                          *)

Types ==
  /\ ConfigOK(config)
  /\ phase \in Phases
  /\ packJobs \in Seq({"running", "loaded", "thrown", "taken"})
  /\ taken \in Nat /\ taken <= Len(packJobs) + Len(decodeJobs)
  /\ TexturePacks \in Seq(Pack)
  /\ decodeJobs \in Seq(Job)
  /\ decodeResults \in Seq([contentKey : Keys, pack : PackFiles, success : BOOLEAN])

EnabledUpto(n) == {i \in 1 .. n : config.items[i].enable}

(* The job of pack i, as the loop that takes them and its own thread leave *)
(* it.                                                                     *)
JobOfPack(i) ==
  /\ packJobs[i] = "taken" <=> i <= taken
  /\ packJobs[i] = "loaded" => config.items[i].enable
  /\ packJobs[i] = "thrown" => ~config.items[i].enable

(* e says where in config.json the packs stand that were taken.            *)
Placed(e) ==
  /\ Enumerates(e, Len(TexturePacks), EnabledUpto(taken))
  /\ \A n \in DOMAIN TexturePacks : TexturePacks[n] = PackOf(config.items[e[n]])

(* The packs that were taken stand in the order of config.json.            *)
PacksInOrder ==
  /\ phase \in {"start", "terminated"} => packJobs = <<>> /\ taken = 0 /\ TexturePacks = <<>>
  /\ phase = "packs" =>
       /\ config.file = "whole"
       /\ Len(packJobs) = Len(config.items) /\ taken <= Len(packJobs)
       /\ \A i \in DOMAIN packJobs : JobOfPack(i)
       /\ \E e : Placed(e)

(* So do the decoding jobs: item says of which pack each is, no texture of *)
(* an enabled pack is left out.                                            *)
Follows(item) ==
  /\ \A j, l \in DOMAIN decodeJobs : j <= l => item[j] <= item[l]
  /\ \A j \in DOMAIN decodeJobs : /\ decodeJobs[j].pack = config.items[item[j]].file
                                  /\ TextureOf(decodeJobs[j]) \in ToSet(GetTextures(config.items[item[j]]))
  /\ \A i \in EnabledItems : \A t \in ToSet(GetTextures(config.items[i])) :
       \E j \in DOMAIN decodeJobs : item[j] = i /\ TextureOf(decodeJobs[j]) = t

JobsInOrder ==
  IF phase \in {"decode", "ready", "hooked", "running"} /\ config.file = "whole"
  THEN \E item \in [DOMAIN decodeJobs -> EnabledItems] : Follows(item)
  ELSE decodeJobs = <<>>

(* Results are those of the jobs, one by one.                              *)
ResultsOfJobs ==
  /\ phase \notin {"decode", "ready", "hooked"} => decodeResults = <<>>
  /\ phase = "decode" => taken = Len(decodeResults)
  /\ phase \in {"ready", "hooked"} => Len(decodeResults) = Len(decodeJobs)
  /\ Len(decodeResults) <= Len(decodeJobs)
  /\ \A j \in DOMAIN decodeResults : decodeResults[j] = ResultOf(decodeJobs[j])

(* Of the results that decoded and of which Unity made a texture, the      *)
(* first for its key is kept.                                              *)
FirstKept ==
  /\ phase # "running" => made = {} /\ redirectMap = <<>> /\ answers = <<>> /\ unconverted = {}
  /\ made \subseteq {j \in DOMAIN decodeJobs : decodeJobs[j].decodes}
  /\ redirectMap_unity = [k \in {decodeJobs[j].key : j \in made} |->
                            decodeJobs[Min({j \in made : decodeJobs[j].key = k})].pack]

(* What was converted was answered, and is answered again; null is there   *)
(* for exactly the textures that were tried and not converted.             *)
AnswersCached ==
  /\ DOMAIN redirectMap \subseteq DOMAIN redirectMap_unity \intersect DOMAIN answers
  /\ \A k \in DOMAIN redirectMap : redirectMap[k] \in {redirectMap_unity[k], NoTexture}
  /\ unconverted = {<<redirectMap_unity[k], k>> : k \in {k \in DOMAIN redirectMap : redirectMap[k] = NoTexture}}
  /\ DOMAIN answers \subseteq Keys
  /\ answers = [k \in DOMAIN answers |-> answers[k]]
  /\ \A k \in DOMAIN answers : IF k \in DOMAIN redirectMap_unity
                               THEN k \in DOMAIN redirectMap /\ answers[k] = redirectMap[k]
                               ELSE answers[k] = Game

IInv == Types /\ PacksInOrder /\ JobsInOrder /\ ResultsOfJobs /\ FirstKept /\ AnswersCached

----------------------------------------------------------------------------
(* The textures of a pack, in either format.                               *)

(* A pack is read as its type says.                                        *)
LEMMA TexturesByType ==
  ASSUME NEW item, item.file \in PackFiles, item.type \in {0, 1}
  PROVE  GetTextures(item) = IF item.type = 0 THEN LoadZipFormat(Entries[item.file]) ELSE LoadTLFormat(Entries[item.file])
<1>1. PICK pack : pack = PackOf(item)
  OBVIOUS
<1>2. pack \in Pack /\ pack.file = item.file /\ pack.type = item.type
  BY <1>1 DEF PackOf, Pack
<1>3. GetTextures(item) = textures[pack]
  BY <1>1 DEF GetTextures
<1>4. QED
  BY <1>2, <1>3 DEF textures

(* Every zip holds textures only, whatever its files are.                  *)
LEMMA TexturesTyped ==
  ASSUME NEW pack, pack.file \in PackFiles, pack.type \in {0, 1}
  PROVE  GetTextures(pack) \in Seq(Texture)
<1> DEFINE entries == Entries[pack.file]
<1>1. entries \in Seq(Entry)
  BY LoaderAssumption
<1> HIDE DEF entries
<1>2. Len(entries) \in Nat /\ DOMAIN entries = 1 .. Len(entries)
  BY <1>1
<1>3. \A i \in DOMAIN entries : entries[i].key \in Keys /\ entries[i].good \in BOOLEAN /\ entries[i].json \in BOOLEAN
  <2>1. \A i \in DOMAIN entries : entries[i] \in Entry
    BY <1>1
  <2>2. QED
    BY <2>1 DEF Entry
<1>4. LoadZipFormat(entries) \in Seq(Texture)
  <2> DEFINE content == {i \in DOMAIN entries : entries[i].dir = "Content" /\ entries[i].intact}
  <2>1. Cardinality(content) \in Nat /\ \A n \in 1 .. Cardinality(content) : Place(content, n) \in DOMAIN entries
    BY <1>2, Places
  <2>2. \A n \in 1 .. Cardinality(content) :
          [key |-> entries[Place(content, n)].key,
           decodes |-> entries[Place(content, n)].good /\ ~entries[Place(content, n)].json] \in Texture
    BY <1>3, <2>1 DEF Texture
  <2>3. QED
    BY <2>1, <2>2 DEF LoadZipFormat
<1>5. LoadTLFormat(entries) \in Seq(Texture)
  <2> DEFINE images == Described(entries)
  <2>0. images \in SUBSET (1 .. Len(entries))
    BY <1>2 DEF Described
  <2>1. Cardinality(images) \in Nat /\ \A n \in 1 .. Cardinality(images) : Place(images, n) \in images
    BY <1>2, <2>0, Places
  <2>2. \A i \in images : Max(DescriptionsOf(entries, i)) \in DOMAIN entries /\ i \in DOMAIN entries
    <3> SUFFICES ASSUME NEW i \in images PROVE Max(DescriptionsOf(entries, i)) \in DOMAIN entries
      BY DEF Described
    <3>1. DescriptionsOf(entries, i) \subseteq 1 .. Len(entries) /\ DescriptionsOf(entries, i) # {}
      BY <1>2 DEF DescriptionsOf, Described
    <3>2. QED
      BY <1>2, <3>1, MaxOfPositions
  <2> HIDE DEF images
  <2>3. \A n \in 1 .. Cardinality(images) :
          [key |-> Description(entries, Place(images, n)).key, decodes |-> entries[Place(images, n)].good] \in Texture
    BY <1>3, <2>1, <2>2 DEF Texture, Description
  <2>4. QED
    BY <2>1, <2>3 DEF LoadTLFormat, images
<1>6. QED
  BY <1>4, <1>5, TexturesByType DEF entries

(* Those of a TL pack are one for each image with a description.           *)
LEMMA TexturesOfTL ==
  ASSUME NEW f \in PackFiles
  PROVE  {t.key : t \in ToSet(LoadTLFormat(Entries[f]))}
           = {Description(Entries[f], i).key : i \in Described(Entries[f])}
<1> DEFINE entries == Entries[f]
           images == Described(entries)
<1>1. entries \in Seq(Entry)
  BY LoaderAssumption
<1> HIDE DEF entries
<1>2. Len(entries) \in Nat /\ images \in SUBSET (1 .. Len(entries))
  BY <1>1 DEF Described
<1>3. /\ \A n \in 1 .. Cardinality(images) : Place(images, n) \in images
      /\ \A i \in images : \E n \in 1 .. Cardinality(images) : Place(images, n) = i
  BY <1>2, Places
<1> HIDE DEF images
<1>4. LoadTLFormat(entries) =
        [n \in 1 .. Cardinality(images) |->
           [key |-> Description(entries, Place(images, n)).key, decodes |-> entries[Place(images, n)].good]]
  BY DEF LoadTLFormat, images
<1>5. {t.key : t \in ToSet(LoadTLFormat(entries))}
        = {Description(entries, Place(images, n)).key : n \in 1 .. Cardinality(images)}
  BY <1>4 DEF ToSet
<1>6. QED
  BY <1>3, <1>5 DEF entries, images

----------------------------------------------------------------------------
(* The steps.                                                              *)

(* Before JNI_OnLoad there is nothing to be out of order.                  *)
LEMMA InitInv ==
  ASSUME ConfigOK(config), Off
  PROVE  IInv
<1> USE DEF Off
<1>1. Types /\ PacksInOrder /\ JobsInOrder /\ ResultsOfJobs
  BY DEF Types, Phases, PacksInOrder, JobsInOrder, ResultsOfJobs
<1>2. FirstKept
  BY DEF FirstKept
<1>3. AnswersCached
  BY DEF AnswersCached
<1>4. QED
  BY <1>1, <1>2, <1>3 DEF IInv

(* A thread for each item, and none of them taken.                         *)
LEMMA ReadConfigInv ==
  ASSUME IInv, ReadConfig
  PROVE  IInv'
<1> USE DEF ReadConfig, jobs, maps
<1>1. Types'
  <2>1. CASE phase' = "packs"
    <3>1. packJobs' \in Seq({"running", "loaded", "thrown", "taken"}) /\ Len(packJobs') \in Nat
      BY <2>1 DEF IInv, Types, ConfigOK
    <3>2. QED
      BY <2>1, <3>1 DEF IInv, Types, Phases, PacksInOrder
  <2>2. CASE phase' # "packs"
    BY <2>2 DEF IInv, Types, Phases
  <2>3. QED
    BY <2>1, <2>2
<1>2. PacksInOrder'
  <2>1. CASE phase' = "packs"
    <3>1. /\ config.file = "whole" /\ config' = config /\ taken' = 0 /\ TexturePacks' = <<>>
          /\ DOMAIN packJobs' = DOMAIN config.items /\ \A i \in DOMAIN packJobs' : packJobs'[i] = "running"
      BY <2>1 DEF IInv, PacksInOrder
    <3>2. Len(packJobs') = Len(config.items) /\ Len(config.items) \in Nat /\ DOMAIN config.items = 1 .. Len(config.items)
      BY <2>1, <3>1 DEF IInv, Types, ConfigOK
    <3>3. EnabledUpto(taken)' = {}
      BY <3>1 DEF EnabledUpto
    <3>4. Placed(<<>>)'
      BY <3>1, <3>3 DEF Placed, Enumerates
    <3>5. \A i \in DOMAIN packJobs' : JobOfPack(i)'
      BY <3>1, <3>2 DEF JobOfPack
    <3>6. QED
      BY <2>1, <3>1, <3>2, <3>4, <3>5 DEF PacksInOrder
  <2>2. CASE phase' # "packs"
    BY <2>2 DEF IInv, PacksInOrder
  <2>3. QED
    BY <2>1, <2>2
<1>3. JobsInOrder' /\ ResultsOfJobs'
  BY DEF IInv, JobsInOrder, ResultsOfJobs
<1>4. FirstKept' /\ AnswersCached'
  BY DEF IInv, FirstKept, AnswersCached
<1>5. QED
  BY <1>1, <1>2, <1>3, <1>4 DEF IInv

(* A thread ends as its item is enabled or not, whenever that is.          *)
LEMMA LoadPackInv ==
  ASSUME IInv, NEW i \in DOMAIN packJobs, asyncLoadTexturePack(i)
  PROVE  IInv'
<1> USE DEF asyncLoadTexturePack, maps
<1>1. /\ packJobs' \in Seq({"running", "loaded", "thrown", "taken"}) /\ Len(packJobs') = Len(packJobs)
      /\ DOMAIN packJobs' = DOMAIN packJobs
      /\ \A q \in DOMAIN packJobs : packJobs'[q] = IF q = i THEN (IF config.items[i].enable THEN "loaded" ELSE "thrown")
                                                            ELSE packJobs[q]
  BY DEF IInv, Types
<1>2. Types'
  BY <1>1 DEF IInv, Types
<1>3. PacksInOrder'
  <2>1. (\E e : Placed(e)) => (\E e : Placed(e)')
    BY DEF Placed, EnabledUpto
  <2>2. QED
    BY <1>1, <2>1 DEF IInv, PacksInOrder, JobOfPack
<1>4. JobsInOrder' /\ ResultsOfJobs'
  BY DEF IInv, JobsInOrder, ResultsOfJobs
<1>5. FirstKept' /\ AnswersCached'
  BY DEF IInv, FirstKept, AnswersCached
<1>6. QED
  BY <1>2, <1>3, <1>4, <1>5 DEF IInv

(* The pack taken is the next enabled one: e goes on with its place.       *)
LEMMA TakePackInv ==
  ASSUME IInv, TakePack
  PROVE  IInv'
<1> USE DEF TakePack, maps
<1>0. /\ taken + 1 \in DOMAIN packJobs /\ packJobs[taken + 1] \in {"loaded", "thrown"}
      /\ packJobs' = [packJobs EXCEPT ![taken + 1] = "taken"]
      /\ TexturePacks' = IF packJobs[taken + 1] = "loaded"
                         THEN Append(TexturePacks, PackOf(config.items[taken + 1])) ELSE TexturePacks
      /\ phase = "packs"
  BY DEF NextPack, IInv, Types, PacksInOrder, JobOfPack
<1>1. /\ packJobs' \in Seq({"running", "loaded", "thrown", "taken"}) /\ Len(packJobs') = Len(packJobs)
      /\ DOMAIN packJobs' = DOMAIN packJobs
      /\ \A q \in DOMAIN packJobs : packJobs'[q] = IF q = taken + 1 THEN "taken" ELSE packJobs[q]
  BY <1>0 DEF IInv, Types
<1>2. /\ taken \in Nat /\ taken + 1 <= Len(packJobs) /\ Len(packJobs) = Len(config.items)
      /\ Len(packJobs) \in Nat /\ Len(decodeJobs) \in Nat /\ DOMAIN packJobs = 1 .. Len(packJobs)
      /\ config.items \in Seq(Item) /\ config.items[taken + 1] \in Item
      /\ config.items[taken + 1].enable <=> packJobs[taken + 1] = "loaded"
  BY <1>0 DEF IInv, Types, PacksInOrder, JobOfPack, ConfigOK
<1>3. PackOf(config.items[taken + 1]) \in Pack
  BY <1>2 DEF Item, PackOf, Pack
<1>4. Types'
  <2>1. TexturePacks' \in Seq(Pack)
    <3>1. TexturePacks \in Seq(Pack)
      BY DEF IInv, Types
    <3>2. Append(TexturePacks, PackOf(config.items[taken + 1])) \in Seq(Pack)
      BY <1>3, <3>1
    <3>3. QED
      BY <1>0, <3>1, <3>2
  <2>2. taken' \in Nat /\ taken' <= Len(packJobs') + Len(decodeJobs')
    BY <1>1, <1>2
  <2>3. QED
    BY <1>1, <2>1, <2>2 DEF IInv, Types
<1>5. \E e : Placed(e)'
  <2>0. PICK e : Placed(e)
    BY <1>0 DEF IInv, PacksInOrder
  <2>0a. EnabledUpto(taken)' = EnabledUpto(taken + 1)
    BY DEF EnabledUpto
  <2>1. CASE packJobs[taken + 1] = "thrown"
    <3>1. EnabledUpto(taken + 1) = EnabledUpto(taken) /\ TexturePacks' = TexturePacks
      BY <1>0, <1>2, <2>1 DEF EnabledUpto
    <3>2. Placed(e)'
      BY <2>0, <2>0a, <3>1 DEF Placed
    <3>3. QED
      BY <3>2
  <2>2. CASE packJobs[taken + 1] = "loaded"
    <3> DEFINE L == Len(TexturePacks)
               g == [n \in 1 .. L + 1 |-> IF n = L + 1 THEN taken + 1 ELSE e[n]]
    <3>1. /\ TexturePacks \in Seq(Pack)
          /\ L \in Nat /\ Len(TexturePacks') = L + 1
          /\ TexturePacks' = Append(TexturePacks, PackOf(config.items[taken + 1]))
          /\ DOMAIN TexturePacks' = 1 .. L + 1 /\ DOMAIN TexturePacks = 1 .. L
      BY <1>0, <2>2 DEF IInv, Types
    <3>2. EnabledUpto(taken + 1) = EnabledUpto(taken) \union {taken + 1}
      BY <1>2, <2>2 DEF EnabledUpto
    <3>3. \A i \in EnabledUpto(taken) : i \in Nat /\ i <= taken
      BY <1>2 DEF EnabledUpto
    <3> HIDE DEF L
    <3>4. \A n \in 1 .. L + 1 : g[n] \in EnabledUpto(taken + 1) /\ (n # L + 1 => n \in 1 .. L /\ g[n] = e[n] /\ g[n] <= taken)
      BY <2>0, <3>1, <3>2, <3>3 DEF L, Placed, Enumerates
    <3>5. g[L + 1] = taken + 1
      BY <3>1
    <3>6. \A m, n \in 1 .. L + 1 : m < n => g[m] < g[n]
      <4> SUFFICES ASSUME NEW m \in 1 .. L + 1, NEW n \in 1 .. L + 1, m < n PROVE g[m] < g[n]
        OBVIOUS
      <4>1. m # L + 1 /\ m \in 1 .. L
        BY <3>1
      <4>2. CASE n = L + 1
        <5>1. g[m] \in EnabledUpto(taken) /\ g[m] <= taken
          BY <2>0, <3>4, <4>1 DEF Placed, Enumerates, L
        <5>2. g[n] = taken + 1 /\ g[m] \in Nat /\ taken \in Nat
          BY <1>2, <3>3, <3>5, <4>2, <5>1
        <5>3. QED
          BY <5>1, <5>2
      <4>3. CASE n # L + 1
        <5>1. n \in 1 .. L /\ g[n] = e[n] /\ g[m] = e[m]
          BY <3>4, <4>1, <4>3
        <5>2. e[m] < e[n]
          BY <2>0, <4>1, <5>1 DEF Enumerates, Placed, L
        <5>3. QED
          BY <5>1, <5>2
      <4>4. QED
        BY <4>2, <4>3
    <3>7. \A i \in EnabledUpto(taken + 1) : \E n \in 1 .. L + 1 : g[n] = i
      <4>1. L + 1 \in 1 .. L + 1
        BY <3>1
      <4>2. \A i \in EnabledUpto(taken) : \E n \in 1 .. L : e[n] = i
        BY <2>0 DEF Enumerates, Placed, L
      <4>3. \A n \in 1 .. L : n \in 1 .. L + 1 /\ g[n] = e[n]
        BY <3>1
      <4>4. QED
        BY <3>2, <3>5, <4>1, <4>2, <4>3
    <3>8. \A n \in DOMAIN TexturePacks' : TexturePacks'[n] = PackOf(config.items[g[n]])
      <4> SUFFICES ASSUME NEW n \in 1 .. L + 1 PROVE TexturePacks'[n] = PackOf(config.items[g[n]])
        BY <3>1
      <4>1. CASE n = L + 1
        BY <3>1, <3>5, <4>1 DEF L
      <4>2. CASE n # L + 1
        <5>1. n \in 1 .. L /\ TexturePacks'[n] = TexturePacks[n]
          BY <3>1, <4>2 DEF L
        <5>2. QED
          BY <2>0, <3>1, <3>4, <4>2, <5>1 DEF L, Placed
      <4>3. QED
        BY <4>1, <4>2
    <3> HIDE DEF g
    <3>9. g \in [1 .. L + 1 -> EnabledUpto(taken + 1)]
      BY <3>4 DEF g
    <3>10. PICK h : h = g
      OBVIOUS
    <3>11. Placed(h)'
      BY <2>0a, <3>1, <3>6, <3>7, <3>8, <3>9, <3>10 DEF Placed, Enumerates
    <3>12. QED
      BY <3>11
  <2>3. QED
    BY <1>0, <2>1, <2>2
<1>6. PacksInOrder'
  <2>1. \A i \in DOMAIN packJobs' : JobOfPack(i)'
    BY <1>0, <1>1, <1>2 DEF IInv, PacksInOrder, JobOfPack
  <2>2. phase' = "packs" /\ config'.file = "whole" /\ Len(packJobs') = Len(config'.items) /\ taken' <= Len(packJobs')
    BY <1>0, <1>1, <1>2 DEF IInv, PacksInOrder
  <2>3. QED
    BY <1>5, <2>1, <2>2 DEF PacksInOrder
<1>7. JobsInOrder' /\ ResultsOfJobs'
  BY DEF IInv, JobsInOrder, ResultsOfJobs
<1>8. FirstKept' /\ AnswersCached'
  BY DEF IInv, FirstKept, AnswersCached
<1>9. QED
  BY <1>4, <1>6, <1>7, <1>8 DEF IInv

(* The jobs of all packs, joined, follow the order of the packs.           *)
LEMMA StartDecodingInv ==
  ASSUME IInv, StartDecoding
  PROVE  IInv'
<1> USE DEF StartDecoding, maps
<1> DEFINE lists == [n \in DOMAIN TexturePacks |-> Jobs(TexturePacks[n])]
<1>1. /\ phase = "packs" /\ config.file = "whole" /\ taken = Len(config.items) /\ taken \in Nat
      /\ config.items \in Seq(Item) /\ DOMAIN config.items = 1 .. taken
      /\ TexturePacks \in Seq(Pack)
      /\ Len(TexturePacks) \in Nat /\ DOMAIN TexturePacks = 1 .. Len(TexturePacks)
      /\ packJobs \in Seq({"running", "loaded", "thrown", "taken"}) /\ Len(packJobs) \in Nat
  BY DEF IInv, Types, PacksInOrder, ConfigOK
<1>2. \A n \in DOMAIN TexturePacks :
        /\ GetTextures(TexturePacks[n]) \in Seq(Texture)
        /\ DOMAIN Jobs(TexturePacks[n]) = DOMAIN GetTextures(TexturePacks[n])
        /\ Jobs(TexturePacks[n]) \in Seq(Job)
        /\ \A q \in DOMAIN Jobs(TexturePacks[n]) :
             /\ TextureOf(Jobs(TexturePacks[n])[q]) = GetTextures(TexturePacks[n])[q]
             /\ Jobs(TexturePacks[n])[q].pack = TexturePacks[n].file
  <2> SUFFICES ASSUME NEW n \in DOMAIN TexturePacks
               PROVE  /\ GetTextures(TexturePacks[n]) \in Seq(Texture)
                      /\ DOMAIN Jobs(TexturePacks[n]) = DOMAIN GetTextures(TexturePacks[n])
                      /\ Jobs(TexturePacks[n]) \in Seq(Job)
                      /\ \A q \in DOMAIN Jobs(TexturePacks[n]) :
                           /\ TextureOf(Jobs(TexturePacks[n])[q]) = GetTextures(TexturePacks[n])[q]
                           /\ Jobs(TexturePacks[n])[q].pack = TexturePacks[n].file
    OBVIOUS
  <2> DEFINE pack == TexturePacks[n]
             ts == GetTextures(pack)
  <2>1. pack.file \in PackFiles /\ pack.type \in {0, 1}
    <3>1. TexturePacks[n] \in Pack
      BY <1>1, SeqElement
    <3>2. QED
      BY <3>1 DEF Pack
  <2>2. ts \in Seq(Texture)
    BY <2>1, TexturesTyped
  <2> HIDE DEF pack
  <2>3. Jobs(pack) = [q \in DOMAIN ts |-> [pack |-> pack.file, key |-> ts[q].key, decodes |-> ts[q].decodes, state |-> "running"]]
    BY DEF Jobs
  <2> HIDE DEF ts
  <2>4. Len(ts) \in Nat /\ DOMAIN ts = 1 .. Len(ts) /\ \A q \in DOMAIN ts : ts[q] \in Texture
    BY <2>2
  <2>5. \A q \in DOMAIN ts : ts[q] = [key |-> ts[q].key, decodes |-> ts[q].decodes] /\ ts[q].key \in Keys /\ ts[q].decodes \in BOOLEAN
    BY <2>4 DEF Texture
  <2>6. \A q \in DOMAIN ts : Jobs(pack)[q] \in Job
    BY <2>1, <2>3, <2>5 DEF Job, pack
  <2>7. Jobs(pack) \in Seq(Job)
    BY <2>3, <2>4, <2>6
  <2>8. \A q \in DOMAIN ts : TextureOf(Jobs(pack)[q]) = ts[q] /\ Jobs(pack)[q].pack = pack.file
    BY <2>3, <2>5 DEF TextureOf
  <2>9. QED
    BY <2>2, <2>3, <2>7, <2>8 DEF pack, ts
<1>3. lists \in Seq(Seq(Job)) /\ DOMAIN lists = DOMAIN TexturePacks /\ Len(lists) = Len(TexturePacks)
  BY <1>1, <1>2
<1> DEFINE F == FlattenSeq(lists)
<1>4. \/ decodeJobs' = F /\ taken' = 0 /\ phase' = (IF F = <<>> THEN "ready" ELSE "decode")
      \/ decodeJobs' = <<>> /\ taken' = taken /\ phase' = "starved"
  <2>1. AllJobs = F
    BY DEF AllJobs
  <2>2. decodeJobs = <<>>
    BY <1>1 DEF IInv, JobsInOrder
  <2>3. QED
    BY <2>1, <2>2
<1>5. \A n \in DOMAIN TexturePacks : lists[n] = Jobs(TexturePacks[n])
  OBVIOUS
<1> HIDE DEF lists
<1>6. F \in Seq(Job) /\ \E src \in [DOMAIN F -> DOMAIN lists] : Lists(src, F, lists, Len(lists))
  BY <1>3, Flattened
<1> HIDE DEF F, StartDecoding
<1>7. Types'
  <2>1. Len(F) \in Nat /\ (F = <<>> <=> Len(F) = 0)
    BY <1>6
  <2>2. /\ config' = config /\ packJobs' = packJobs /\ TexturePacks' = TexturePacks /\ decodeResults' = decodeResults
    BY DEF StartDecoding
  <2>3. CASE decodeJobs' = F /\ taken' = 0 /\ phase' = (IF F = <<>> THEN "ready" ELSE "decode")
    BY <1>1, <1>6, <2>1, <2>2, <2>3 DEF IInv, Types, Phases
  <2>4. CASE decodeJobs' = <<>> /\ taken' = taken /\ phase' = "starved"
    BY <1>1, <2>2, <2>4 DEF IInv, Types, Phases, JobsInOrder
  <2>5. QED
    BY <1>4, <2>3, <2>4
<1>8. JobsInOrder'
  <2>1. PICK e : Placed(e)
    BY <1>1 DEF IInv, PacksInOrder
  <2>2. PICK src \in [DOMAIN F -> DOMAIN lists] : Lists(src, F, lists, Len(lists))
    BY <1>6
  <2>3. EnabledItems = EnabledUpto(taken)
    BY <1>1 DEF EnabledItems, EnabledUpto
  <2>4. e \in [DOMAIN TexturePacks -> EnabledItems]
    BY <1>1, <2>1, <2>3 DEF Placed, Enumerates
  <2>5. \A m, n \in DOMAIN TexturePacks : m <= n => e[m] <= e[n]
    <3> SUFFICES ASSUME NEW m \in DOMAIN TexturePacks, NEW n \in DOMAIN TexturePacks, m <= n PROVE e[m] <= e[n]
      OBVIOUS
    <3>1. e[m] \in Int /\ e[n] \in Int /\ m \in Int /\ n \in Int
      BY <1>1, <2>4 DEF EnabledItems
    <3>2. m < n => e[m] < e[n]
      BY <1>1, <2>1 DEF Placed, Enumerates
    <3>3. QED
      BY <3>1, <3>2
  <2>6. \A i \in EnabledItems : \E n \in DOMAIN TexturePacks : e[n] = i
    BY <1>1, <2>1, <2>3 DEF Placed, Enumerates
  <2>7. \A n \in DOMAIN TexturePacks : /\ TexturePacks[n].file = config.items[e[n]].file
                                      /\ GetTextures(TexturePacks[n]) = GetTextures(config.items[e[n]])
    BY <2>1 DEF Placed, PackOf, GetTextures
  <2>8. PICK item : item = [j \in DOMAIN F |-> e[src[j]]]
    OBVIOUS
  <2>9. item \in [DOMAIN F -> EnabledItems] /\ \A j \in DOMAIN F : item[j] = e[src[j]] /\ src[j] \in DOMAIN TexturePacks
    BY <1>3, <2>4, <2>8
  <2>10. \A j, l \in DOMAIN F : j <= l => item[j] <= item[l]
    BY <2>2, <2>5, <2>9 DEF Lists
  <2>11. ASSUME NEW j \in DOMAIN F
         PROVE  /\ F[j].pack = config.items[item[j]].file
                /\ TextureOf(F[j]) \in ToSet(GetTextures(config.items[item[j]]))
    <3>1. PICK q \in DOMAIN lists[src[j]] : F[j] = lists[src[j]][q]
      BY <2>2 DEF Lists
    <3>2. lists[src[j]] = Jobs(TexturePacks[src[j]])
      BY <1>5, <2>9
    <3>3. /\ TextureOf(F[j]) = GetTextures(TexturePacks[src[j]])[q] /\ q \in DOMAIN GetTextures(TexturePacks[src[j]])
          /\ F[j].pack = TexturePacks[src[j]].file
      BY <1>2, <2>9, <3>1, <3>2
    <3>4. QED
      BY <2>7, <2>9, <3>3 DEF ToSet
  <2>12. ASSUME NEW i \in EnabledItems, NEW t \in ToSet(GetTextures(config.items[i]))
         PROVE  \E j \in DOMAIN F : item[j] = i /\ TextureOf(F[j]) = t
    <3>1. PICK n \in DOMAIN TexturePacks : e[n] = i
      BY <2>6
    <3>2. PICK q \in DOMAIN GetTextures(TexturePacks[n]) : t = GetTextures(TexturePacks[n])[q]
      BY <2>7, <3>1 DEF ToSet
    <3>3. n \in 1 .. Len(lists) /\ lists[n] = Jobs(TexturePacks[n]) /\ q \in DOMAIN lists[n] /\ TextureOf(lists[n][q]) = t
      BY <1>1, <1>2, <1>3, <1>5, <3>2
    <3>4. PICK j \in DOMAIN F : src[j] = n /\ F[j] = lists[n][q]
      BY <2>2, <3>3 DEF Lists
    <3>5. QED
      BY <2>9, <3>1, <3>3, <3>4
  <2>13. EnabledItems' = EnabledItems /\ config' = config
    BY DEF EnabledItems, StartDecoding
  <2>14. decodeJobs' = F => Follows(item)' /\ item \in [DOMAIN decodeJobs' -> EnabledItems']
    BY <2>9, <2>10, <2>11, <2>12, <2>13 DEF Follows
  <2>15. decodeJobs' = F => \E h \in [DOMAIN decodeJobs' -> EnabledItems'] : Follows(h)'
    BY <2>14
  <2>16. QED
    BY <1>1, <1>4, <2>13, <2>15 DEF JobsInOrder
<1>9. PacksInOrder' /\ ResultsOfJobs'
  <2>1. decodeResults = <<>> /\ decodeResults' = decodeResults
    BY <1>1 DEF StartDecoding, IInv, ResultsOfJobs
  <2>2. Len(F) \in Nat /\ (F = <<>> <=> Len(F) = 0)
    BY <1>6
  <2>3. QED
    BY <1>4, <2>1, <2>2 DEF PacksInOrder, ResultsOfJobs
<1>10. FirstKept' /\ AnswersCached'
  <2>1. /\ made = {} /\ redirectMap = <<>> /\ answers = <<>> /\ phase' # "running" /\ unconverted' = {}
        /\ made' = made /\ redirectMap' = redirectMap /\ answers' = answers /\ redirectMap_unity' = redirectMap_unity
    BY <1>1, <1>4 DEF StartDecoding, IInv, FirstKept
  <2>2. redirectMap_unity = <<>>
    BY <2>1 DEF IInv, FirstKept
  <2>3. QED
    BY <2>1, <2>2 DEF FirstKept, AnswersCached
<1>11. QED
  BY <1>7, <1>8, <1>9, <1>10 DEF IInv

(* Decoding ends in any order, which changes no job's texture or pack.     *)
LEMMA DecodeInv ==
  ASSUME IInv, NEW j \in DOMAIN decodeJobs, Decode(j)
  PROVE  IInv'
<1> USE DEF Decode, maps
<1>1. decodeJobs \in Seq(Job) /\ DOMAIN decodeJobs = 1 .. Len(decodeJobs) /\ \A l \in DOMAIN decodeJobs : decodeJobs[l] \in Job
  BY SeqElement DEF IInv, Types
<1>2. /\ DOMAIN decodeJobs' = DOMAIN decodeJobs
      /\ \A l \in DOMAIN decodeJobs :
           /\ decodeJobs'[l] \in Job
           /\ decodeJobs'[l].key = decodeJobs[l].key /\ decodeJobs'[l].pack = decodeJobs[l].pack
           /\ decodeJobs'[l].decodes = decodeJobs[l].decodes
  <2>1. decodeJobs' = [decodeJobs EXCEPT ![j] = [decodeJobs[j] EXCEPT !.state = "ready"]]
    OBVIOUS
  <2>2. \A l \in DOMAIN decodeJobs :
          decodeJobs'[l] = IF l = j THEN [decodeJobs[j] EXCEPT !.state = "ready"] ELSE decodeJobs[l]
    BY <2>1
  <2>3. LET d == [decodeJobs[j] EXCEPT !.state = "ready"]
        IN  d \in Job /\ d.key = decodeJobs[j].key /\ d.pack = decodeJobs[j].pack /\ d.decodes = decodeJobs[j].decodes
    BY <1>1 DEF Job
  <2>4. QED
    BY <1>1, <2>1, <2>2, <2>3
<1>2a. \A l \in DOMAIN decodeJobs : /\ TextureOf(decodeJobs'[l]) = TextureOf(decodeJobs[l])
                                   /\ ResultOf(decodeJobs'[l]) = ResultOf(decodeJobs[l])
  BY <1>2 DEF TextureOf, ResultOf
<1>2b. EnabledItems' = EnabledItems /\ config' = config
  BY DEF EnabledItems
<1>3. decodeJobs' \in Seq(Job) /\ Len(decodeJobs') = Len(decodeJobs)
  BY <1>1, <1>2
<1>4. Types'
  BY <1>3 DEF IInv, Types
<1>5. PacksInOrder'
  BY DEF IInv, PacksInOrder
<1>6. JobsInOrder'
  <2>1. ASSUME NEW item \in [DOMAIN decodeJobs -> EnabledItems], Follows(item)
        PROVE  Follows(item)'
    <3> HIDE DEF Decode, maps
    <3>1. \A q, l \in DOMAIN decodeJobs' : q <= l => item[q] <= item[l]
      BY <1>2, <2>1 DEF Follows
    <3>2. \A l \in DOMAIN decodeJobs' : /\ decodeJobs'[l].pack = config'.items[item[l]].file
                                       /\ TextureOf(decodeJobs'[l]) \in ToSet(GetTextures(config'.items[item[l]]))
      BY <1>2, <1>2a, <1>2b, <2>1 DEF Follows
    <3>3. \A i \in EnabledItems' : \A t \in ToSet(GetTextures(config'.items[i])) :
            \E l \in DOMAIN decodeJobs' : item[l] = i /\ TextureOf(decodeJobs'[l]) = t
      <4>1. \A i \in EnabledItems : \A t \in ToSet(GetTextures(config.items[i])) :
              \E l \in DOMAIN decodeJobs : item[l] = i /\ TextureOf(decodeJobs[l]) = t
        BY <2>1 DEF Follows
      <4>2. QED
        BY <1>2, <1>2a, <1>2b, <4>1
    <3>4. QED
      BY <3>1, <3>2, <3>3 DEF Follows
  <2>2. EnabledItems' = EnabledItems
    BY <1>2b
  <2>3. config.file = "whole"
    BY DEF IInv, JobsInOrder
  <2>4. PICK item \in [DOMAIN decodeJobs -> EnabledItems] : Follows(item)
    BY <2>3 DEF IInv, JobsInOrder
  <2>5. item \in [DOMAIN decodeJobs' -> EnabledItems'] /\ Follows(item)'
    BY <1>2, <2>1, <2>2, <2>4
  <2>6. QED
    BY <2>3, <2>5 DEF JobsInOrder
<1>7. ResultsOfJobs'
  <2>1. /\ DOMAIN decodeResults \subseteq DOMAIN decodeJobs /\ decodeResults' = decodeResults
        /\ phase' = phase /\ taken' = taken
    BY <1>1 DEF IInv, ResultsOfJobs, Types
  <2>2. \A l \in DOMAIN decodeResults' : decodeResults'[l] = ResultOf(decodeJobs'[l])
    BY <1>2a, <2>1 DEF IInv, ResultsOfJobs
  <2>3. QED
    BY <1>3, <2>1, <2>2 DEF IInv, ResultsOfJobs
<1>8. FirstKept' /\ AnswersCached'
  <2>1. /\ made = {} /\ made' = {} /\ redirectMap' = <<>> /\ answers' = <<>> /\ phase' # "running"
        /\ unconverted' = {}
    BY DEF IInv, FirstKept
  <2>2. redirectMap_unity' = <<>>
    BY <2>1 DEF IInv, FirstKept
  <2>3. QED
    BY <2>1, <2>2 DEF FirstKept, AnswersCached
<1>9. QED
  BY <1>4, <1>5, <1>6, <1>7, <1>8 DEF IInv

(* The results are those of the first jobs, in their order.                *)
LEMMA TakeResultInv ==
  ASSUME IInv, TakeResult
  PROVE  IInv'
<1> USE DEF TakeResult, maps
<1>1. /\ decodeJobs \in Seq(Job) /\ Len(decodeJobs) \in Nat /\ DOMAIN decodeJobs = 1 .. Len(decodeJobs)
      /\ taken = Len(decodeResults) /\ taken \in Nat /\ taken + 1 <= Len(decodeJobs) /\ taken + 1 \in DOMAIN decodeJobs
      /\ Len(packJobs) \in Nat /\ DOMAIN decodeResults = 1 .. taken
  BY DEF IInv, Types, ResultsOfJobs
<1>1a. /\ config' = config /\ decodeJobs' = decodeJobs /\ taken' = taken + 1 /\ packJobs' = packJobs
       /\ phase' = IF taken + 1 = Len(decodeJobs) THEN "ready" ELSE "decode"
  OBVIOUS
<1>2. ResultOf(decodeJobs[taken + 1]) \in [contentKey : Keys, pack : PackFiles, success : BOOLEAN]
  <2>1. decodeJobs[taken + 1] \in Job
    BY <1>1, SeqElement
  <2>2. QED
    BY <2>1 DEF ResultOf, Job
<1>3. /\ decodeResults' \in Seq([contentKey : Keys, pack : PackFiles, success : BOOLEAN])
      /\ Len(decodeResults') = taken + 1 /\ DOMAIN decodeResults' = 1 .. taken + 1
      /\ \A l \in 1 .. taken + 1 : decodeResults'[l] = IF l = taken + 1 THEN ResultOf(decodeJobs[l]) ELSE decodeResults[l]
  <2>1. decodeResults \in Seq([contentKey : Keys, pack : PackFiles, success : BOOLEAN])
    BY DEF IInv, Types
  <2>2. decodeResults' = Append(decodeResults, ResultOf(decodeJobs[taken + 1]))
    OBVIOUS
  <2> HIDE DEF TakeResult, maps
  <2>3. QED
    BY <1>1, <1>2, <2>1, <2>2, SeqAppend
<1>4. Types'
  <2>1. taken' \in Nat /\ taken' <= Len(packJobs) + Len(decodeJobs)
    <3> HIDE DEF TakeResult, maps
    <3>1. taken \in Nat /\ taken + 1 <= Len(decodeJobs) /\ Len(decodeJobs) \in Nat /\ Len(packJobs) \in Nat
      BY <1>1
    <3>2. taken + 1 \in Nat /\ taken + 1 <= Len(packJobs) + Len(decodeJobs)
      BY <3>1
    <3>3. QED
      BY <1>1a, <3>2
  <2>2. QED
    BY <1>3, <2>1 DEF IInv, Types, Phases
<1>5. PacksInOrder'
  BY DEF IInv, PacksInOrder
<1>6. JobsInOrder'
  <2>1. EnabledItems' = EnabledItems /\ \A item : Follows(item) => Follows(item)'
    BY DEF EnabledItems, Follows
  <2>2. config.file = "whole" /\ config' = config /\ decodeJobs' = decodeJobs
    <3>1. decodeJobs # <<>>
      <4> HIDE DEF TakeResult, maps
      <4>1. QED
        BY <1>1
    <3>2. QED
      BY <3>1 DEF IInv, JobsInOrder
  <2>3. PICK item \in [DOMAIN decodeJobs -> EnabledItems] : Follows(item)
    BY <2>2 DEF IInv, JobsInOrder
  <2>4. item \in [DOMAIN decodeJobs' -> EnabledItems'] /\ Follows(item)'
    BY <2>1, <2>2, <2>3
  <2>5. phase' \in {"decode", "ready"}
    OBVIOUS
  <2>6. QED
    BY <2>2, <2>4, <2>5 DEF JobsInOrder
<1>7. ResultsOfJobs'
  <2> HIDE DEF TakeResult, maps
  <2>1. ASSUME NEW l \in 1 .. taken + 1
        PROVE  decodeResults'[l] = ResultOf(decodeJobs[l])
    <3>1. l # taken + 1 => l \in DOMAIN decodeResults
      BY <1>1
    <3>2. QED
      BY <1>3, <3>1 DEF IInv, ResultsOfJobs
  <2>2. phase' \in {"decode", "ready"} /\ (phase' = "ready" => taken + 1 = Len(decodeJobs))
    BY <1>1a
  <2>3. QED
    BY <1>1, <1>1a, <1>3, <2>1, <2>2 DEF ResultsOfJobs
<1>8. FirstKept' /\ AnswersCached'
  <2>1. /\ made = {} /\ made' = {} /\ redirectMap' = <<>> /\ answers' = <<>> /\ phase' # "running"
        /\ unconverted' = {}
    BY DEF IInv, FirstKept
  <2>2. redirectMap_unity' = <<>>
    BY <2>1 DEF IInv, FirstKept
  <2>3. QED
    BY <2>1, <2>2 DEF FirstKept, AnswersCached
<1>9. QED
  BY <1>4, <1>5, <1>6, <1>7, <1>8 DEF IInv

(* hookAssets touches nothing of what was loaded.                          *)
LEMMA HookAssetsInv ==
  ASSUME IInv, HookAssets
  PROVE  IInv'
<1> USE DEF HookAssets, maps, jobs
<1>1. Types' /\ PacksInOrder' /\ ResultsOfJobs'
  BY DEF IInv, Types, Phases, PacksInOrder, ResultsOfJobs
<1>2. JobsInOrder'
  <2>1. EnabledItems' = EnabledItems /\ \A item : Follows(item) => Follows(item)'
    BY DEF EnabledItems, Follows
  <2>2. QED
    BY <2>1 DEF IInv, JobsInOrder
<1>3. FirstKept' /\ AnswersCached'
  BY DEF IInv, FirstKept, AnswersCached
<1>4. QED
  BY <1>1, <1>2, <1>3 DEF IInv

(* Of several results for a key the first one is kept.                     *)
LEMMA cctorInv ==
  ASSUME IInv, cctor
  PROVE  IInv'
<1> USE DEF cctor, jobs
<1>1. PICK js \in SUBSET {j \in DOMAIN decodeResults : decodeResults[j].success} :
        /\ made' = js
        /\ redirectMap_unity' = [k \in {decodeResults[j].contentKey : j \in js} |->
                                   decodeResults[Min({j \in js : decodeResults[j].contentKey = k})].pack]
  BY DEF Emplaced
<1>2. /\ decodeJobs \in Seq(Job) /\ DOMAIN decodeResults = DOMAIN decodeJobs
      /\ \A j \in DOMAIN decodeJobs : /\ decodeResults[j].success = decodeJobs[j].decodes
                                      /\ decodeResults[j].contentKey = decodeJobs[j].key
                                      /\ decodeResults[j].pack = decodeJobs[j].pack
  BY DEF IInv, Types, ResultsOfJobs, ResultOf
<1>3. js \subseteq {j \in DOMAIN decodeJobs : decodeJobs[j].decodes}
  BY <1>2
<1>4. redirectMap_unity' = [k \in {decodeJobs[j].key : j \in js} |-> decodeJobs[Min({j \in js : decodeJobs[j].key = k})].pack]
  <2>1. {decodeResults[j].contentKey : j \in js} = {decodeJobs[j].key : j \in js}
    BY <1>2, <1>3
  <2>2. ASSUME NEW k \in {decodeJobs[j].key : j \in js}
        PROVE  decodeResults[Min({j \in js : decodeResults[j].contentKey = k})].pack
                 = decodeJobs[Min({j \in js : decodeJobs[j].key = k})].pack
    <3> DEFINE T == {j \in js : decodeJobs[j].key = k}
    <3>1. T = {j \in js : decodeResults[j].contentKey = k}
      BY <1>2, <1>3
    <3>2. T \subseteq Nat /\ T # {} /\ T \subseteq DOMAIN decodeJobs
      BY <1>2, <1>3
    <3>3. Min(T) \in DOMAIN decodeJobs
      BY <3>2, MinOfPositions
    <3>4. QED
      BY <1>2, <3>1, <3>3
  <2>3. QED
    BY <1>1, <2>1, <2>2
<1>5. /\ config' = config /\ phase' = "running" /\ decodeResults' = <<>> /\ decodeJobs' = decodeJobs
      /\ packJobs' = packJobs /\ taken' = taken /\ TexturePacks' = TexturePacks
      /\ redirectMap' = <<>> /\ answers' = <<>> /\ unconverted' = {} /\ phase = "hooked"
  BY DEF IInv, FirstKept
<1> HIDE DEF cctor
<1>6. Types' /\ PacksInOrder' /\ ResultsOfJobs'
  BY <1>5 DEF IInv, Types, Phases, PacksInOrder, ResultsOfJobs
<1>7. JobsInOrder'
  <2>1. EnabledItems' = EnabledItems /\ \A item : Follows(item) => Follows(item)'
    BY <1>5 DEF EnabledItems, Follows
  <2>2. QED
    BY <1>5, <2>1 DEF IInv, JobsInOrder
<1>8. FirstKept'
  <2>1. made' = js
    BY <1>1
  <2>2. QED
    BY <1>3, <1>4, <1>5, <2>1 DEF FirstKept
<1>9. AnswersCached'
  BY <1>5 DEF AnswersCached
<1>10. QED
  BY <1>6, <1>7, <1>8, <1>9 DEF IInv

(* What LoadTexture2D does is one of three things, each said in full.      *)
LEMMA LoadTexture2DInv ==
  ASSUME IInv, NEW k \in Keys, LoadTexture2D(k)
  PROVE  IInv'
<1> USE DEF LoadTexture2D, jobs
<1>1. /\ config' = config /\ phase' = phase /\ phase = "running" /\ decodeResults' = decodeResults /\ decodeJobs' = decodeJobs
      /\ packJobs' = packJobs /\ taken' = taken /\ TexturePacks' = TexturePacks
      /\ redirectMap_unity' = redirectMap_unity /\ made' = made
  OBVIOUS
<1>2. AnswersCached'
  <2>1. CASE k \in DOMAIN redirectMap
    BY <2>1 DEF IInv, AnswersCached, Extend
  <2>2. ASSUME k \in DOMAIN redirectMap_unity \ DOMAIN redirectMap,
               NEW xna \in {redirectMap_unity[k], NoTexture},
               redirectMap' = Extend(redirectMap, k, xna), answers' = Extend(answers, k, xna),
               unconverted' = Unconverted(k, xna)
        PROVE  AnswersCached'
    <3> HIDE DEF LoadTexture2D
    <3>1. /\ DOMAIN redirectMap' = DOMAIN redirectMap \union {k} /\ redirectMap'[k] = xna
          /\ \A q \in DOMAIN redirectMap : redirectMap'[q] = redirectMap[q] /\ q # k
      BY <2>2 DEF Extend
    <3>2. {q \in DOMAIN redirectMap' : redirectMap'[q] = NoTexture}
            = {q \in DOMAIN redirectMap : redirectMap[q] = NoTexture} \union (IF xna = NoTexture THEN {k} ELSE {})
      BY <3>1
    <3>3. unconverted = {<<redirectMap_unity[q], q>> : q \in {q \in DOMAIN redirectMap : redirectMap[q] = NoTexture}}
      BY DEF IInv, AnswersCached
    <3>4. unconverted' = {<<redirectMap_unity[q], q>> : q \in {q \in DOMAIN redirectMap' : redirectMap'[q] = NoTexture}}
      BY <2>2, <3>2, <3>3 DEF Unconverted
    <3>5. /\ DOMAIN redirectMap' \subseteq DOMAIN redirectMap_unity \intersect DOMAIN answers'
          /\ \A q \in DOMAIN redirectMap' : redirectMap'[q] \in {redirectMap_unity[q], NoTexture}
      BY <2>2, <3>1 DEF IInv, AnswersCached, Extend
    <3>6. /\ DOMAIN answers' \subseteq Keys /\ answers' = [q \in DOMAIN answers' |-> answers'[q]]
          /\ \A q \in DOMAIN answers' : IF q \in DOMAIN redirectMap_unity
                                       THEN q \in DOMAIN redirectMap' /\ answers'[q] = redirectMap'[q]
                                       ELSE answers'[q] = Game
      BY <2>2, <3>1 DEF IInv, AnswersCached, Extend
    <3>7. QED
      BY <1>1, <3>4, <3>5, <3>6 DEF AnswersCached
  <2>3. CASE k \notin DOMAIN redirectMap \union DOMAIN redirectMap_unity
    BY <2>3 DEF IInv, AnswersCached, Extend
  <2>4. QED
    BY <2>1, <2>2, <2>3
<1> HIDE DEF LoadTexture2D
<1>3. Types' /\ PacksInOrder' /\ ResultsOfJobs'
  BY <1>1 DEF IInv, Types, Phases, PacksInOrder, ResultsOfJobs
<1>4. JobsInOrder'
  <2>1. EnabledItems' = EnabledItems /\ \A item : Follows(item) => Follows(item)'
    BY <1>1 DEF EnabledItems, Follows
  <2>2. QED
    BY <1>1, <2>1 DEF IInv, JobsInOrder
<1>5. FirstKept'
  BY <1>1 DEF IInv, FirstKept
<1>6. QED
  BY <1>2, <1>3, <1>4, <1>5 DEF IInv

(* So the invariant outlives every step.                                   *)
LEMMA NextInv ==
  ASSUME IInv, [Next]_vars
  PROVE  IInv'
<1>1. CASE UNCHANGED vars
  <2>1. EnabledItems' = EnabledItems /\ \A item : Follows(item) => Follows(item)'
    BY <1>1 DEF EnabledItems, Follows, vars, jobs, maps
  <2>2. JobsInOrder'
    BY <1>1, <2>1 DEF IInv, JobsInOrder, vars, jobs, maps
  <2>3. PacksInOrder'
    <3>1. \A e : Placed(e) => Placed(e)'
      BY <1>1 DEF Placed, EnabledUpto, vars, jobs, maps
    <3>2. QED
      BY <1>1, <3>1 DEF IInv, PacksInOrder, JobOfPack, vars, jobs, maps
  <2>4. Types' /\ ResultsOfJobs'
    BY <1>1 DEF IInv, Types, ResultsOfJobs, vars, jobs, maps
  <2>5. FirstKept' /\ AnswersCached'
    <3>0. /\ phase' = phase /\ decodeJobs' = decodeJobs /\ made' = made /\ redirectMap_unity' = redirectMap_unity
          /\ redirectMap' = redirectMap /\ answers' = answers /\ unconverted' = unconverted
      BY <1>1 DEF vars, jobs, maps
    <3>1. FirstKept'
      BY <3>0 DEF IInv, FirstKept
    <3>2. AnswersCached'
      BY <3>0 DEF IInv, AnswersCached
    <3>3. QED
      BY <3>1, <3>2
  <2>6. QED
    BY <2>2, <2>3, <2>4, <2>5 DEF IInv
<1>2. CASE Next
  BY <1>2, ReadConfigInv, LoadPackInv, TakePackInv, StartDecodingInv, DecodeInv, TakeResultInv, HookAssetsInv,
     cctorInv, LoadTexture2DInv DEF Next
<1>3. QED
  BY <1>1, <1>2

(* The packs, the jobs and the results stand in the order of config.json   *)
(* at every moment, and what was answered is what is cached.               *)
THEOREM Invariance == Spec => []IInv
<1>1. Init => IInv
  BY LoaderAssumption, InitInv DEF Init
<1>2. IInv /\ [Next]_vars => IInv'
  BY NextInv
<1>3. QED
  BY <1>1, <1>2, PTL DEF Spec

----------------------------------------------------------------------------
(* What follows.                                                           *)

(* Every variable stays in its range; no loop passes its last job; what is *)
(* cached is of a path that has a texture.                                 *)
THEOREM TypeCorrect == Spec => []TypeOK
<1>1. Init => config \in Configs
  BY DEF Init
<1>2. config \in Configs /\ [Next]_vars => (config \in Configs)'
  BY DEF Next, ReadConfig, asyncLoadTexturePack, TakePack, StartDecoding, Decode, TakeResult, HookAssets, cctor,
         LoadTexture2D, vars
<1>3. config \in Configs /\ IInv => TypeOK
  <2> SUFFICES ASSUME config \in Configs, IInv PROVE TypeOK
    OBVIOUS
  <2>1. taken \in 0 .. Len(packJobs) + Len(decodeJobs)
    BY DEF IInv, Types
  <2>2. \A k \in DOMAIN redirectMap_unity : k \in Keys /\ redirectMap_unity[k] \in PackFiles
    <3> SUFFICES ASSUME NEW k \in DOMAIN redirectMap_unity PROVE k \in Keys /\ redirectMap_unity[k] \in PackFiles
      OBVIOUS
    <3> DEFINE T == {j \in made : decodeJobs[j].key = k}
    <3>1. /\ decodeJobs \in Seq(Job) /\ made \subseteq DOMAIN decodeJobs /\ T # {}
          /\ redirectMap_unity[k] = decodeJobs[Min(T)].pack
      BY DEF IInv, Types, FirstKept
    <3>2. Min(T) \in T
      <4>1. T \subseteq Nat
        BY <3>1
      <4>2. QED
        BY <3>1, <4>1, MinOfPositions
    <3>3. decodeJobs[Min(T)] \in Job /\ decodeJobs[Min(T)].key = k
      BY <3>1, <3>2, SeqElement
    <3>4. QED
      BY <3>1, <3>3 DEF Job
  <2>3. \A k \in DOMAIN redirectMap : redirectMap[k] \in PackFiles \union {NoTexture}
    BY <2>2 DEF IInv, AnswersCached
  <2>4. unconverted \subseteq PackFiles \X Keys
    BY <2>2 DEF IInv, AnswersCached
  <2>5. QED
    BY <2>1, <2>2, <2>3, <2>4 DEF TypeOK, IInv, Types, ResultsOfJobs, AnswersCached
<1>4. QED
  BY <1>1, <1>2, <1>3, Invariance, PTL DEF Spec

(* The first job for a key and of a pack that can provide it is that of    *)
(* the first such pack.                                                    *)
LEMMA FirstJob ==
  ASSUME IInv, config.file = "whole", phase \in {"ready", "hooked", "running"}, NEW k \in Keys
  PROVE  LET jobsOf == {j \in DOMAIN decodeJobs : decodeJobs[j].key = k /\ decodeJobs[j].decodes}
         IN  /\ jobsOf = {} <=> Providers(k) = {}
             /\ jobsOf # {} => decodeJobs[Min(jobsOf)].pack = config.items[Min(Providers(k))].file
<1> DEFINE jobsOf == {j \in DOMAIN decodeJobs : decodeJobs[j].key = k /\ decodeJobs[j].decodes}
<1>1. PICK item \in [DOMAIN decodeJobs -> EnabledItems] : Follows(item)
  BY DEF IInv, JobsInOrder
<1>2. decodeJobs \in Seq(Job) /\ DOMAIN decodeJobs \subseteq Nat /\ EnabledItems \subseteq Nat
  BY DEF IInv, Types, ConfigOK, EnabledItems
<1>3. ASSUME NEW j \in jobsOf PROVE item[j] \in Providers(k)
  <2>1. TextureOf(decodeJobs[j]) = [key |-> k, decodes |-> TRUE]
    <3>1. decodeJobs[j].decodes = TRUE
      BY <1>2, SeqElement DEF Job
    <3>2. QED
      BY <3>1 DEF TextureOf
  <2>2. TextureOf(decodeJobs[j]) \in ToSet(GetTextures(config.items[item[j]])) /\ item[j] \in EnabledItems
    BY <1>1 DEF Follows
  <2>3. QED
    BY <2>1, <2>2 DEF Providers
<1>4. ASSUME NEW i \in Providers(k) PROVE \E j \in jobsOf : item[j] = i
  <2>1. i \in EnabledItems /\ [key |-> k, decodes |-> TRUE] \in ToSet(GetTextures(config.items[i]))
    BY DEF Providers
  <2>2. PICK j \in DOMAIN decodeJobs : item[j] = i /\ TextureOf(decodeJobs[j]) = [key |-> k, decodes |-> TRUE]
    BY <1>1, <2>1 DEF Follows
  <2>3. decodeJobs[j].key = k /\ decodeJobs[j].decodes
    BY <2>2 DEF TextureOf
  <2>4. QED
    BY <2>2, <2>3
<1>5. jobsOf = {} <=> Providers(k) = {}
  BY <1>3, <1>4
<1>6. ASSUME jobsOf # {} PROVE decodeJobs[Min(jobsOf)].pack = config.items[Min(Providers(k))].file
  <2>1. Min(jobsOf) \in jobsOf /\ \A j \in jobsOf : Min(jobsOf) <= j
    <3>1. jobsOf \subseteq Nat
      BY <1>2
    <3>2. QED
      BY <1>6, <3>1, MinOfPositions
  <2>2. Min(Providers(k)) \in Providers(k) /\ \A i \in Providers(k) : Min(Providers(k)) <= i
    <3>1. Providers(k) \subseteq Nat
      BY <1>2 DEF Providers
    <3>2. QED
      BY <1>5, <1>6, <3>1, MinOfPositions
  <2>3. item[Min(jobsOf)] \in Providers(k)
    BY <1>3, <2>1
  <2>4. PICK j \in jobsOf : item[j] = Min(Providers(k))
    BY <1>4, <2>2
  <2>5. item[Min(jobsOf)] <= item[j]
    BY <1>1, <2>1 DEF Follows
  <2>6. item[Min(jobsOf)] = Min(Providers(k))
    <3>1. item[Min(jobsOf)] \in Nat /\ Min(Providers(k)) \in Nat
      BY <1>2, <2>2, <2>3 DEF Providers
    <3>2. QED
      BY <2>2, <2>3, <2>4, <2>5, <3>1
  <2>7. QED
    BY <1>1, <2>1, <2>6 DEF Follows
<1>7. QED
  BY <1>5, <1>6

(* The results stand as the jobs do.                                       *)
LEMMA InvFirst ==
  IInv => FirstPackFirst
<1> SUFFICES ASSUME IInv, phase = "ready", config.file = "whole", NEW k \in Keys
             PROVE  LET decoded == {j \in DOMAIN decodeResults :
                                      decodeResults[j].contentKey = k /\ decodeResults[j].success}
                    IN  /\ decoded = {} <=> Providers(k) = {}
                        /\ decoded # {} =>
                             decodeResults[Min(decoded)].pack = config.items[Min(Providers(k))].file
  BY DEF FirstPackFirst
<1> DEFINE jobsOf == {j \in DOMAIN decodeJobs : decodeJobs[j].key = k /\ decodeJobs[j].decodes}
           decoded == {j \in DOMAIN decodeResults : decodeResults[j].contentKey = k /\ decodeResults[j].success}
<1>1. /\ DOMAIN decodeResults = DOMAIN decodeJobs /\ DOMAIN decodeJobs \subseteq Nat
      /\ \A j \in DOMAIN decodeJobs : /\ decodeResults[j].success = decodeJobs[j].decodes
                                      /\ decodeResults[j].contentKey = decodeJobs[j].key
                                      /\ decodeResults[j].pack = decodeJobs[j].pack
  BY DEF IInv, Types, ResultsOfJobs, ResultOf
<1>2. decoded = jobsOf
  BY <1>1
<1>3. /\ jobsOf = {} <=> Providers(k) = {}
      /\ jobsOf # {} => decodeJobs[Min(jobsOf)].pack = config.items[Min(Providers(k))].file
  BY FirstJob
<1>4. jobsOf # {} => Min(jobsOf) \in DOMAIN decodeJobs
  <2>1. jobsOf \subseteq Nat
    BY <1>1
  <2>2. QED
    BY <2>1, MinOfPositions
<1>5. QED
  BY <1>1, <1>2, <1>3, <1>4

(* A result is of an enabled pack that has a texture.                      *)
LEMMA ResultHasPack ==
  ASSUME IInv, phase = "ready", NEW j \in DOMAIN decodeResults
  PROVE  /\ config.file = "whole"
         /\ \E i \in EnabledItems : /\ decodeResults[j].pack = config.items[i].file
                                   /\ GetTextures(config.items[i]) # <<>>
<1>1. /\ j \in DOMAIN decodeJobs /\ decodeJobs # <<>>
      /\ decodeResults[j].pack = decodeJobs[j].pack
  BY DEF IInv, Types, ResultsOfJobs, ResultOf
<1>2. config.file = "whole"
  BY <1>1 DEF IInv, JobsInOrder
<1>3. PICK item \in [DOMAIN decodeJobs -> EnabledItems] : Follows(item)
  BY <1>2 DEF IInv, JobsInOrder
<1>4. item[j] \in EnabledItems
  BY <1>1, <1>3
<1>5. /\ decodeJobs[j].pack = config.items[item[j]].file
      /\ ToSet(GetTextures(config.items[item[j]])) # {}
  BY <1>1, <1>3 DEF Follows
<1>6. GetTextures(config.items[item[j]]) # <<>>
  BY <1>5 DEF ToSet
<1>7. QED
  BY <1>1, <1>2, <1>4, <1>5, <1>6

(* The results stand in the order of config.json, whatever order the       *)
(* threads ended in.                                                       *)
THEOREM OrderDecides == Spec => []FirstPackFirst
BY InvFirst, Invariance, PTL

(* Every answer of LoadTexture2D is that of the first enabled pack of      *)
(* whose texture a Unity texture could be made: this texture, or null for  *)
(* good if it was tried and not converted; the game's own only if there is *)
(* no such pack.                                                           *)
THEOREM AnswersRight == Spec => []AnswersFromFirst
<1>1. IInv => AnswersFromFirst
  <2> SUFFICES ASSUME IInv, NEW k \in DOMAIN answers
               PROVE  LET ofKey == {j \in made : decodeJobs[j].key = k}
                          able  == {i \in Providers(k) : \E j \in ofKey : decodeJobs[j].pack = config.items[i].file}
                          first == config.items[Min(able)].file
                      IN  answers[k] = IF ofKey = {} THEN Game
                                       ELSE IF <<first, k>> \in unconverted THEN NoTexture ELSE first
    BY DEF AnswersFromFirst
  <2> DEFINE ofKey == {j \in made : decodeJobs[j].key = k}
             able  == {i \in Providers(k) : \E j \in ofKey : decodeJobs[j].pack = config.items[i].file}
  <2>1. /\ decodeJobs \in Seq(Job) /\ DOMAIN decodeJobs \subseteq Nat /\ EnabledItems \subseteq Nat
        /\ made \subseteq DOMAIN decodeJobs /\ \A j \in made : decodeJobs[j].decodes
        /\ EnabledItems \subseteq DOMAIN config.items /\ ofKey \subseteq Nat
    BY DEF IInv, Types, ConfigOK, EnabledItems, FirstKept
  <2>2. /\ k \in DOMAIN redirectMap_unity <=> ofKey # {}
        /\ ofKey # {} => redirectMap_unity[k] = decodeJobs[Min(ofKey)].pack
    BY DEF IInv, FirstKept
  <2>3. CASE ofKey = {}
    BY <2>2, <2>3 DEF IInv, AnswersCached
  <2>4. CASE ofKey # {}
    <3>1. Min(ofKey) \in ofKey /\ \A j \in ofKey : Min(ofKey) <= j
      BY <2>1, <2>4, MinOfPositions
    <3>3. /\ k \in DOMAIN redirectMap /\ answers[k] = redirectMap[k]
          /\ redirectMap[k] \in {decodeJobs[Min(ofKey)].pack, NoTexture}
      BY <2>2, <2>4 DEF IInv, AnswersCached
    <3>4. <<redirectMap_unity[k], k>> \in unconverted <=> redirectMap[k] = NoTexture
      BY <3>3 DEF IInv, AnswersCached
    <3>5. answers[k] = IF <<decodeJobs[Min(ofKey)].pack, k>> \in unconverted
                       THEN NoTexture ELSE decodeJobs[Min(ofKey)].pack
      BY <2>2, <2>4, <3>3, <3>4
    <3>6. PICK item \in [DOMAIN decodeJobs -> EnabledItems] : Follows(item)
      <4>1. decodeJobs # <<>>
        BY <2>1, <3>1
      <4>2. QED
        BY <4>1 DEF IInv, JobsInOrder
    <3>7. ASSUME NEW j \in ofKey PROVE item[j] \in Providers(k) /\ decodeJobs[j].pack = config.items[item[j]].file
      <4>1. decodeJobs[j] \in Job /\ j \in DOMAIN decodeJobs /\ decodeJobs[j].key = k /\ decodeJobs[j].decodes
        BY <2>1, SeqElement
      <4>2. decodeJobs[j].decodes = TRUE
        BY <4>1 DEF Job
      <4>3. TextureOf(decodeJobs[j]) = [key |-> k, decodes |-> TRUE]
        BY <4>1, <4>2 DEF TextureOf
      <4>4. /\ TextureOf(decodeJobs[j]) \in ToSet(GetTextures(config.items[item[j]])) /\ item[j] \in EnabledItems
            /\ decodeJobs[j].pack = config.items[item[j]].file
        BY <3>6, <4>1 DEF Follows
      <4>5. QED
        BY <4>3, <4>4 DEF Providers
    <3>8. item[Min(ofKey)] \in able
      BY <3>1, <3>7
    <3>9. Min(able) \in able /\ \A i \in able : Min(able) <= i
      <4>1. able \subseteq Nat
        BY <2>1 DEF Providers
      <4>2. QED
        BY <3>8, <4>1, MinOfPositions
    <3>10. PICK j \in ofKey : decodeJobs[j].pack = config.items[Min(able)].file
      BY <3>9
    <3>11. item[j] = Min(able)
      <4>1. item[j] \in DOMAIN config.items /\ Min(able) \in DOMAIN config.items
        BY <2>1, <3>7, <3>9 DEF Providers
      <4>2. QED
        BY <3>7, <3>10, <4>1 DEF IInv, Types, ConfigOK
    <3>12. item[Min(ofKey)] <= item[j]
      BY <2>1, <3>1, <3>6 DEF Follows
    <3>13. item[Min(ofKey)] = Min(able)
      <4>1. item[Min(ofKey)] \in Nat /\ Min(able) \in Nat /\ Min(able) <= item[Min(ofKey)]
        BY <2>1, <3>8, <3>9 DEF Providers
      <4>2. QED
        BY <3>11, <3>12, <4>1
    <3>14. QED
      BY <2>4, <3>1, <3>5, <3>7, <3>13
  <2>5. QED
    BY <2>3, <2>4
<1>2. QED
  BY <1>1, Invariance, PTL

(* Where no two descriptions share a name, the last of those with the name *)
(* of an image is the one there is.                                        *)
LEMMA PairedTextures ==
  ASSUME NEW f \in PackFiles,
         \A d, e \in {e \in ToSet(Entries[f]) : e.dir = "Modified" /\ e.json} : d.id = e.id => d = e
  PROVE  {Description(Entries[f], i).key : i \in Described(Entries[f])}
           = {d.key : d \in {d \in ToSet(Entries[f]) :
                               /\ d.dir = "Modified" /\ d.json /\ d.intact /\ d.good
                               /\ \E e \in ToSet(Entries[f]) : e.dir = "Modified" /\ ~e.json /\ e.intact /\ e.id = d.id}}
<1> DEFINE entries == Entries[f]
           Desc(d) == d \in ToSet(entries) /\ d.dir = "Modified" /\ d.json
           Image(e) == e \in ToSet(entries) /\ e.dir = "Modified" /\ ~e.json /\ e.intact
<1>1. entries \in Seq(Entry)
  BY LoaderAssumption
<1>2. \A d, e : Desc(d) /\ Desc(e) /\ d.id = e.id => d = e
  OBVIOUS
<1> HIDE DEF entries
<1>3. Len(entries) \in Nat /\ DOMAIN entries = 1 .. Len(entries)
  BY <1>1
<1>4. ASSUME NEW i \in DOMAIN entries, DescriptionsOf(entries, i) # {}
      PROVE  Max(DescriptionsOf(entries, i)) \in DescriptionsOf(entries, i)
  <2>1. DescriptionsOf(entries, i) \subseteq 1 .. Len(entries)
    BY <1>3 DEF DescriptionsOf
  <2>2. QED
    BY <1>3, <1>4, <2>1, MaxOfPositions
<1>5. ASSUME NEW i \in Described(entries)
      PROVE  LET d == Description(entries, i)
             IN  Desc(d) /\ d.intact /\ d.good /\ \E e : Image(e) /\ e.id = d.id
  <2>1. /\ i \in DOMAIN entries /\ entries[i].dir = "Modified" /\ ~entries[i].json /\ entries[i].intact
        /\ Description(entries, i).intact /\ Description(entries, i).good
    BY DEF Described
  <2>2. Max(DescriptionsOf(entries, i)) \in DescriptionsOf(entries, i)
    BY <1>4 DEF Described
  <2>3. Desc(Description(entries, i)) /\ Description(entries, i).id = entries[i].id
    BY <2>2 DEF Description, DescriptionsOf, ToSet
  <2>4. Image(entries[i])
    BY <2>1 DEF ToSet
  <2>5. QED
    BY <2>1, <2>3, <2>4
<1>6. ASSUME NEW d, Desc(d), d.intact, d.good, NEW e, Image(e), e.id = d.id
      PROVE  \E i \in Described(entries) : Description(entries, i) = d
  <2>1. PICK i \in DOMAIN entries : entries[i] = e
    BY <1>6 DEF ToSet
  <2>2. PICK q \in DOMAIN entries : entries[q] = d
    BY <1>6 DEF ToSet
  <2>3. q \in DescriptionsOf(entries, i)
    BY <1>6, <2>1, <2>2 DEF DescriptionsOf
  <2>4. Max(DescriptionsOf(entries, i)) \in DescriptionsOf(entries, i)
    BY <1>4, <2>3
  <2>5. Desc(Description(entries, i)) /\ Description(entries, i).id = d.id
    BY <1>6, <2>1, <2>4 DEF Description, DescriptionsOf, ToSet
  <2>6. Description(entries, i) = d
    BY <1>2, <1>6, <2>5
  <2>7. i \in Described(entries)
    BY <1>6, <2>1, <2>3, <2>6 DEF Described
  <2>8. QED
    BY <2>6, <2>7
<1>7. {Description(entries, i).key : i \in Described(entries)}
        = {d.key : d \in {d \in ToSet(entries) :
                            /\ d.dir = "Modified" /\ d.json /\ d.intact /\ d.good
                            /\ \E e \in ToSet(entries) : e.dir = "Modified" /\ ~e.json /\ e.intact /\ e.id = d.id}}
  BY <1>5, <1>6
<1>8. QED
  BY <1>7 DEF entries

(* Of a TL pack the textures with both an image and a description are      *)
(* loaded, wherever the two stand in the archive.                          *)
THEOREM PairsComplete == Spec => []PairsLoaded
<1>1. IInv => PairsLoaded
  <2> SUFFICES ASSUME IInv, phase = "ready", config.file = "whole", NEW i \in DOMAIN config.items,
                      config.items[i].enable, config.items[i].type = 1,
                      \A d, e \in {e \in {e \in ToSet(Entries[config.items[i].file]) : e.dir = "Modified"} : e.json} :
                        d.id = e.id => d = e
               PROVE  {decodeResults[j].contentKey :
                         j \in {j \in DOMAIN decodeResults : decodeResults[j].pack = config.items[i].file}}
                        = {d.key : d \in {d \in {e \in {e \in ToSet(Entries[config.items[i].file]) : e.dir = "Modified"} : e.json} :
                             d.intact /\ d.good /\ \E e \in {e \in {e \in ToSet(Entries[config.items[i].file]) : e.dir = "Modified"} : ~e.json} :
                                e.intact /\ e.id = d.id}}
    BY DEF PairsLoaded
  <2> DEFINE f == config.items[i].file
             ofPack == {j \in DOMAIN decodeJobs : decodeJobs[j].pack = f}
  <2>1. config.items \in Seq(Item) /\ config.items[i] \in Item /\ f \in PackFiles /\ i \in EnabledItems
    <3>1. config.items \in Seq(Item)
      BY DEF IInv, Types, ConfigOK
    <3>2. config.items[i] \in Item
      BY <3>1, SeqElement
    <3>3. QED
      BY <3>1, <3>2 DEF Item, EnabledItems
  <2>2. PICK item \in [DOMAIN decodeJobs -> EnabledItems] : Follows(item)
    BY DEF IInv, JobsInOrder
  <2>3. \A j \in DOMAIN decodeJobs : decodeJobs[j].pack = f <=> item[j] = i
    <3>1. \A j \in DOMAIN decodeJobs : item[j] \in DOMAIN config.items /\ decodeJobs[j].pack = config.items[item[j]].file
      BY <2>2 DEF Follows, EnabledItems
    <3>2. QED
      BY <3>1 DEF IInv, Types, ConfigOK
  <2>4. {decodeJobs[j].key : j \in ofPack} = {t.key : t \in ToSet(GetTextures(config.items[i]))}
    <3>1. \A j \in ofPack : TextureOf(decodeJobs[j]) \in ToSet(GetTextures(config.items[i])) /\ TextureOf(decodeJobs[j]).key = decodeJobs[j].key
      BY <2>2, <2>3 DEF Follows, TextureOf
    <3>2. \A t \in ToSet(GetTextures(config.items[i])) : \E j \in ofPack : decodeJobs[j].key = t.key
      <4> SUFFICES ASSUME NEW t \in ToSet(GetTextures(config.items[i])) PROVE \E j \in ofPack : decodeJobs[j].key = t.key
        OBVIOUS
      <4>1. PICK j \in DOMAIN decodeJobs : item[j] = i /\ TextureOf(decodeJobs[j]) = t
        BY <2>1, <2>2 DEF Follows
      <4>2. decodeJobs[j].key = t.key
        BY <4>1 DEF TextureOf
      <4>3. QED
        BY <2>3, <4>1, <4>2
    <3>3. QED
      BY <3>1, <3>2
  <2>5. GetTextures(config.items[i]) = LoadTLFormat(Entries[f])
    <3>1. config.items[i].type = 1 /\ config.items[i].type # 0
      OBVIOUS
    <3>2. QED
      BY <2>1, <3>1, TexturesByType
  <2>6. {decodeResults[j].contentKey : j \in {j \in DOMAIN decodeResults : decodeResults[j].pack = f}}
          = {decodeJobs[j].key : j \in ofPack}
    <3>1. /\ DOMAIN decodeResults = DOMAIN decodeJobs
          /\ \A j \in DOMAIN decodeJobs : /\ decodeResults[j].contentKey = decodeJobs[j].key
                                          /\ decodeResults[j].pack = decodeJobs[j].pack
      BY DEF IInv, Types, ResultsOfJobs, ResultOf
    <3>2. QED
      BY <3>1
  <2>7. \A d, e \in {e \in ToSet(Entries[f]) : e.dir = "Modified" /\ e.json} : d.id = e.id => d = e
    OBVIOUS
  <2> HIDE DEF f, ofPack
  <2>8. {decodeResults[j].contentKey : j \in {j \in DOMAIN decodeResults : decodeResults[j].pack = f}}
          = {d.key : d \in {d \in ToSet(Entries[f]) :
                              /\ d.dir = "Modified" /\ d.json /\ d.intact /\ d.good
                              /\ \E e \in ToSet(Entries[f]) : e.dir = "Modified" /\ ~e.json /\ e.intact /\ e.id = d.id}}
    BY <2>1, <2>4, <2>5, <2>6, <2>7, TexturesOfTL, PairedTextures
  <2>9. QED
    BY <2>8 DEF f
<1>2. QED
  BY <1>1, Invariance, PTL

----------------------------------------------------------------------------
(* The refinement: cctor is the abstract Open, the first LoadTexture2D of  *)
(* a path the abstract Answer, and everything else stutters.               *)

(* What no step but cctor and LoadTexture2D touches, no one sees.          *)
LEMMA Stutters ==
  ASSUME config' = config, phase' # "running", phase # "running",
         redirectMap_unity' = redirectMap_unity, answers' = answers
  PROVE  UNCHANGED Service!vars
<1>1. Shelf' = Shelf
  BY DEF Shelf, EnabledItems
<1>2. QED
  BY <1>1 DEF Service!vars

(* A call answers a path for the first time, or as it did before.          *)
LEMMA AnswerOrStutter ==
  ASSUME IInv, NEW k \in Keys, LoadTexture2D(k)
  PROVE  Service!Answer(k) \/ UNCHANGED Service!vars
<1>1. /\ config' = config /\ phase' = "running" /\ phase = "running" /\ redirectMap_unity' = redirectMap_unity
  BY DEF LoadTexture2D
<1>2. Shelf' = Shelf
  BY <1>1 DEF Shelf, EnabledItems
<1>3. CASE k \in DOMAIN redirectMap
  <2>1. k \in DOMAIN answers /\ answers[k] = redirectMap[k] /\ answers = [q \in DOMAIN answers |-> answers[q]]
    BY <1>3 DEF IInv, AnswersCached
  <2>2. answers' = Extend(answers, k, redirectMap[k])
    BY <1>3 DEF LoadTexture2D
  <2>3. answers' = answers
    BY <2>1, <2>2 DEF Extend
  <2>4. QED
    BY <1>1, <1>2, <2>3 DEF Service!vars
<1>4. CASE k \in DOMAIN redirectMap_unity \ DOMAIN redirectMap
  <2>1. k \notin DOMAIN answers
    BY <1>4 DEF IInv, AnswersCached
  <2>2. \E a \in {redirectMap_unity[k], NoTexture} : answers' = Extend(answers, k, a)
    BY <1>4 DEF LoadTexture2D
  <2>3. QED
    BY <1>1, <1>2, <1>4, <2>1, <2>2 DEF Service!Answer, Service!Answerable, Extend
<1>5. CASE k \notin DOMAIN redirectMap \union DOMAIN redirectMap_unity
  <2>1. answers' = Extend(answers, k, Game)
    BY <1>5 DEF LoadTexture2D
  <2>2. CASE k \in DOMAIN answers
    <3>1. answers[k] = Game /\ answers = [q \in DOMAIN answers |-> answers[q]]
      BY <1>5, <2>2 DEF IInv, AnswersCached
    <3>2. answers' = answers
      BY <2>1, <2>2, <3>1 DEF Extend
    <3>3. QED
      BY <1>1, <1>2, <3>2 DEF Service!vars
  <2>3. CASE k \notin DOMAIN answers
    BY <1>1, <1>2, <1>5, <2>1, <2>3 DEF Service!Answer, Service!Answerable, Extend
  <2>4. QED
    BY <2>2, <2>3
<1>6. QED
  BY <1>3, <1>4, <1>5

(* The textures of the jobs js are usable on the shelf, where the pack of  *)
(* the first job for a key is the first.                                   *)
LEMMA OpensShelf ==
  ASSUME IInv, cctor
  PROVE  Service!Open
<1>1. /\ config' = config /\ phase' = "running" /\ phase = "hooked" /\ answers' = answers
  BY DEF cctor
<1>2. Shelf' = Shelf
  BY <1>1 DEF Shelf, EnabledItems
<1>3. IInv' /\ made' \subseteq {j \in DOMAIN decodeJobs : decodeJobs[j].decodes} /\ decodeJobs' = decodeJobs
  <2>1. IInv'
    BY cctorInv
  <2>2. decodeJobs' = decodeJobs
    BY DEF cctor, jobs
  <2>3. QED
    BY <2>1, <2>2 DEF IInv, FirstKept
<1> DEFINE js == made'
           usable == {u \in (DOMAIN Shelf) \X Keys :
                        \E j \in js : decodeJobs[j].pack = Shelf[u[1]].pack /\ decodeJobs[j].key = u[2]}
<1>4. redirectMap_unity' = [k \in {decodeJobs[j].key : j \in js} |-> decodeJobs[Min({j \in js : decodeJobs[j].key = k})].pack]
  BY <1>3 DEF IInv, FirstKept
<1>5. /\ decodeJobs \in Seq(Job) /\ DOMAIN decodeJobs \subseteq Nat /\ js \subseteq DOMAIN decodeJobs
      /\ \A j \in js : decodeJobs[j].decodes = TRUE /\ decodeJobs[j].key \in Keys
  <2>1. decodeJobs \in Seq(Job) /\ DOMAIN decodeJobs \subseteq Nat
    BY DEF IInv, Types
  <2>2. \A j \in DOMAIN decodeJobs : decodeJobs[j] \in Job
    BY <2>1, SeqElement
  <2>3. QED
    BY <1>3, <2>1, <2>2 DEF Job
<1> HIDE DEF js, usable
<1>6. CASE js = {}
  <2>1. redirectMap_unity' = <<>>
    BY <1>4, <1>6
  <2>2. {} \in SUBSET {u \in (DOMAIN Shelf) \X Keys : u[2] \in Shelf[u[1]].keys}
    OBVIOUS
  <2>3. redirectMap_unity' = [k \in {u[2] : u \in {}} |-> Shelf[Min({u[1] : u \in {v \in {} : v[2] = k}})].pack]
    BY <2>1
  <2>4. QED
    BY <1>1, <1>2, <2>2, <2>3 DEF Service!Open
<1>7. CASE js # {}
  <2>1. PICK item \in [DOMAIN decodeJobs -> EnabledItems] : Follows(item)
    <3>1. decodeJobs # <<>>
      BY <1>5, <1>7
    <3>2. QED
      BY <3>1 DEF IInv, JobsInOrder
  <2>2. /\ config.items \in Seq(Item) /\ EnabledItems \in SUBSET (1 .. Len(config.items)) /\ Len(config.items) \in Nat
        /\ \A i, q \in EnabledItems : config.items[i].file = config.items[q].file => i = q
        /\ \A i \in EnabledItems : i \in Nat
    BY DEF IInv, Types, ConfigOK, EnabledItems
  <2>3. /\ Cardinality(EnabledItems) \in Nat
        /\ \A n \in 1 .. Cardinality(EnabledItems) : Place(EnabledItems, n) \in EnabledItems
        /\ \A i \in EnabledItems : \E n \in 1 .. Cardinality(EnabledItems) : Place(EnabledItems, n) = i
        /\ \A m, n \in 1 .. Cardinality(EnabledItems) : m < n => Place(EnabledItems, m) < Place(EnabledItems, n)
    BY <2>2, Places
  <2>4. /\ DOMAIN Shelf = 1 .. Cardinality(EnabledItems)
        /\ \A n \in DOMAIN Shelf :
             /\ Shelf[n].pack = config.items[Place(EnabledItems, n)].file
             /\ Shelf[n].keys = {t.key : t \in {t \in ToSet(GetTextures(config.items[Place(EnabledItems, n)])) : t.decodes}}
    BY DEF Shelf
  <2>5. \A n \in DOMAIN Shelf : n \in Nat /\ Place(EnabledItems, n) \in EnabledItems
    BY <2>3, <2>4
  <2>6. \A m, n \in DOMAIN Shelf : m < n => Place(EnabledItems, m) < Place(EnabledItems, n)
    BY <2>3, <2>4
  <2>7. \A j \in js : \E n \in DOMAIN Shelf : Place(EnabledItems, n) = item[j]
    BY <1>5, <2>1, <2>3, <2>4
  <2>8. \A j \in js : \A n \in DOMAIN Shelf : decodeJobs[j].pack = Shelf[n].pack <=> Place(EnabledItems, n) = item[j]
    <3>1. \A j \in js : decodeJobs[j].pack = config.items[item[j]].file /\ item[j] \in EnabledItems
      BY <1>5, <2>1 DEF Follows
    <3>2. QED
      BY <2>2, <2>4, <2>5, <3>1
  <2>9. usable \in SUBSET {u \in (DOMAIN Shelf) \X Keys : u[2] \in Shelf[u[1]].keys}
    <3> SUFFICES ASSUME NEW u \in usable PROVE u \in (DOMAIN Shelf) \X Keys /\ u[2] \in Shelf[u[1]].keys
      OBVIOUS
    <3>1. PICK j \in js : decodeJobs[j].pack = Shelf[u[1]].pack /\ decodeJobs[j].key = u[2]
      BY DEF usable
    <3>2. u \in (DOMAIN Shelf) \X Keys /\ u[1] \in DOMAIN Shelf
      BY DEF usable
    <3>3. item[j] = Place(EnabledItems, u[1])
      BY <2>8, <3>1, <3>2
    <3>4. TextureOf(decodeJobs[j]) \in ToSet(GetTextures(config.items[item[j]]))
      BY <1>5, <2>1 DEF Follows
    <3>5. TextureOf(decodeJobs[j]).decodes /\ TextureOf(decodeJobs[j]).key = u[2]
      BY <1>5, <3>1 DEF TextureOf
    <3>6. u[2] \in Shelf[u[1]].keys
      BY <2>4, <3>2, <3>3, <3>4, <3>5
    <3>7. QED
      BY <3>2, <3>6
  <2>10. {u[2] : u \in usable} = {decodeJobs[j].key : j \in js}
    <3>1. \A u \in usable : \E j \in js : decodeJobs[j].key = u[2]
      BY DEF usable
    <3>2. ASSUME NEW j \in js PROVE \E u \in usable : u[2] = decodeJobs[j].key
      <4>1. PICK n \in DOMAIN Shelf : decodeJobs[j].pack = Shelf[n].pack
        BY <2>7, <2>8
      <4>2. <<n, decodeJobs[j].key>> \in usable
        BY <1>5, <4>1 DEF usable
      <4>3. QED
        BY <4>2
    <3>3. QED
      BY <3>1, <3>2
  <2>11. ASSUME NEW k \in {decodeJobs[j].key : j \in js}
         PROVE  decodeJobs[Min({j \in js : decodeJobs[j].key = k})].pack
                  = Shelf[Min({u[1] : u \in {v \in usable : v[2] = k}})].pack
    <3> DEFINE T == {j \in js : decodeJobs[j].key = k}
               P == {u[1] : u \in {v \in usable : v[2] = k}}
    <3>1. T \subseteq Nat /\ T # {}
      BY <1>5
    <3>2. Min(T) \in T /\ \A j \in T : Min(T) <= j
      BY <3>1, MinOfPositions
    <3>3. \A n \in P : n \in DOMAIN Shelf /\ \E j \in T : Place(EnabledItems, n) = item[j]
      <4> SUFFICES ASSUME NEW n \in P PROVE n \in DOMAIN Shelf /\ \E j \in T : Place(EnabledItems, n) = item[j]
        OBVIOUS
      <4>1. PICK u \in usable : u[1] = n /\ u[2] = k
        OBVIOUS
      <4>2. n \in DOMAIN Shelf /\ \E j \in js : decodeJobs[j].pack = Shelf[n].pack /\ decodeJobs[j].key = k
        BY <4>1 DEF usable
      <4>3. QED
        BY <2>8, <4>2
    <3>4. \A j \in T : \A n \in DOMAIN Shelf : Place(EnabledItems, n) = item[j] => n \in P
      <4> SUFFICES ASSUME NEW j \in T, NEW n \in DOMAIN Shelf, Place(EnabledItems, n) = item[j] PROVE n \in P
        OBVIOUS
      <4>1. <<n, k>> \in usable
        BY <1>5, <2>8 DEF usable
      <4>2. QED
        BY <4>1
    <3> HIDE DEF P
    <3>5. PICK n \in DOMAIN Shelf : Place(EnabledItems, n) = item[Min(T)]
      BY <2>7, <3>2
    <3>6. n \in P
      BY <3>2, <3>4, <3>5
    <3>7. Min(P) \in P /\ \A m \in P : Min(P) <= m
      <4>1. P \subseteq Nat
        BY <2>5, <3>3
      <4>2. QED
        BY <3>6, <4>1, MinOfPositions
    <3>8. Min(P) = n
      <4>1. PICK j \in T : Place(EnabledItems, Min(P)) = item[j]
        BY <3>3, <3>7
      <4>2. item[Min(T)] <= item[j]
        BY <1>5, <2>1, <3>2 DEF Follows
      <4>3. Place(EnabledItems, n) <= Place(EnabledItems, Min(P))
        BY <3>5, <4>1, <4>2
      <4>4. Min(P) \in DOMAIN Shelf /\ Min(P) \in Nat /\ n \in Nat /\ Min(P) <= n
        BY <2>5, <3>3, <3>6, <3>7
      <4>5. ~(Min(P) < n)
        <5>1. Place(EnabledItems, n) \in Nat /\ Place(EnabledItems, Min(P)) \in Nat
          BY <2>2, <2>5, <4>4
        <5>2. QED
          BY <2>6, <4>3, <4>4, <5>1
      <4>6. QED
        BY <4>4, <4>5
    <3>9. decodeJobs[Min(T)].pack = Shelf[n].pack
      BY <2>8, <3>2, <3>5
    <3>10. QED
      BY <3>8, <3>9 DEF P
  <2>12. redirectMap_unity' = [k \in {u[2] : u \in usable} |-> Shelf[Min({u[1] : u \in {v \in usable : v[2] = k}})].pack]
    BY <1>4, <2>10, <2>11
  <2>13. \A T : Service!Min(T) = Min(T)
    BY DEF Service!Min, Min
  <2>14. QED
    BY <1>1, <1>2, <2>9, <2>12, <2>13 DEF Service!Open
<1>8. QED
  BY <1>6, <1>7

(* With all its threads the loader does what TextureService does.          *)
THEOREM Implements == Spec => ImplementsService
<1>1. Init => Service!Init
  BY DEF Init, Off, Service!Init
<1>2. IInv /\ [Next]_vars => [Service!Next]_(Service!vars)
  <2> SUFFICES ASSUME IInv, [Next]_vars PROVE Service!Next \/ UNCHANGED Service!vars
    OBVIOUS
  <2>1. CASE UNCHANGED vars
    <3>1. config' = config /\ phase' = phase /\ redirectMap_unity' = redirectMap_unity /\ answers' = answers
      BY <2>1 DEF vars, maps
    <3>2. Shelf' = Shelf
      BY <3>1 DEF Shelf, EnabledItems
    <3>3. QED
      BY <3>1, <3>2 DEF Service!vars
  <2>2. CASE ReadConfig
    BY <2>2, Stutters DEF ReadConfig, maps
  <2>3. CASE \E i \in DOMAIN packJobs : asyncLoadTexturePack(i)
    BY <2>3, Stutters DEF asyncLoadTexturePack, maps
  <2>4. CASE TakePack
    BY <2>4, Stutters DEF TakePack, maps
  <2>5. CASE StartDecoding
    BY <2>5, Stutters DEF StartDecoding, maps
  <2>6. CASE \E j \in DOMAIN decodeJobs : Decode(j)
    BY <2>6, Stutters DEF Decode, maps
  <2>7. CASE TakeResult
    BY <2>7, Stutters DEF TakeResult, maps
  <2>8. CASE HookAssets
    BY <2>8, Stutters DEF HookAssets, maps
  <2>9. CASE cctor
    BY <2>9, OpensShelf DEF Service!Next
  <2>10. CASE \E k \in Keys : LoadTexture2D(k)
    BY <2>10, AnswerOrStutter DEF Service!Next
  <2>11. QED
    BY <2>1, <2>2, <2>3, <2>4, <2>5, <2>6, <2>7, <2>8, <2>9, <2>10 DEF Next
<1>3. QED
  BY <1>1, <1>2, Invariance, PTL DEF Spec, ImplementsService, Service!Spec
=============================================================================
