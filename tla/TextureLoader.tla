--------------------------- MODULE TextureLoader ---------------------------
(***************************************************************************)
(* TexturePack inside the game.  JNI_OnLoad starts a thread per pack of    *)
(* config.json, takes the packs in order, starts a thread per texture to   *)
(* decode it, takes the results in order.  The static constructor of       *)
(* ContentManager, hooked, makes Unity textures of the results, and        *)
(* ContentManager.LoadTexture2D, hooked, answers with them.                *)
(***************************************************************************)
EXTENDS Integers, FiniteSets, SequencesExt, Subsequences

CONSTANTS
  PackFiles,      \* the zips config.json may name
  Keys,           \* texture paths
  Entries,        \* for each zip, its files in order; none if it cannot be opened
  Configs,        \* what config.json may hold
  Game, NoTexture \* a texture is known by its pack; those of the game, and null

(* A file of a zip: the texture it is, or says it describes, the name both *)
(* share (id), and whether it can be extracted (intact) and then decoded   *)
(* or parsed (good).                                                       *)
Entry == [dir : {"Content", "Modified", "other"}, id : STRING, json : BOOLEAN,
          key : Keys, intact : BOOLEAN, good : BOOLEAN]

Item == [file : PackFiles, type : {0, 1}, enable : BOOLEAN]

(* "absent"; "empty" (0 bytes); "torn" (no JSON); "whole", with its items: *)
(* the page lists no pack twice (TexturePage's TypeOK).                    *)
ConfigOK(c) ==
  /\ c.file \in {"absent", "empty", "torn", "whole"}
  /\ c.items \in Seq(Item)
  /\ \A i, j \in DOMAIN c.items : c.items[i].file = c.items[j].file => i = j

ASSUME LoaderAssumption ==
  /\ \A f \in PackFiles : Entries[f] \in Seq(Entry)
  /\ {Game, NoTexture} \intersect PackFiles = {} /\ Game # NoTexture
  /\ \A c \in Configs : ConfigOK(c)

VARIABLES
  config,
  phase,          \* where JNI_OnLoad, then the game, is
  packJobs,       \* the futures of asyncLoadTexturePack: "running", "loaded" or "thrown"
  taken,          \* how many futures of the current loop were taken
  TexturePacks,   \* the packs that were loaded
  decodeJobs,     \* the futures of the decoding threads
  decodeResults,
  redirectMap_unity,   \* for each key, the texture made of a result
  redirectMap,         \* for each path asked for, the XNA texture
  answers,             \* what LoadTexture2D returned last for each path
  made,                \* history: the results cctor made textures of
  unconverted          \* history: the pack and the key of each texture that ConvertToXnaTexture failed on

jobs  == <<packJobs, taken, TexturePacks, decodeJobs>>
maps  == <<redirectMap_unity, redirectMap, answers, made, unconverted>>
vars  == <<config, phase, jobs, decodeResults, maps>>

Extend(f, x, v) == [y \in DOMAIN f \union {x} |-> IF y = x THEN v ELSE f[y]]

----------------------------------------------------------------------------
(* The textures of a zip, by the format its page found.                    *)

(* LoadZipFormat takes every file under Content/ that it can extract.      *)
LoadZipFormat(entries) ==
  LET content == {i \in DOMAIN entries : entries[i].dir = "Content" /\ entries[i].intact}
  IN  [n \in 1 .. Cardinality(content) |->
         LET file == entries[Place(content, n)]
         IN  [key |-> file.key, decodes |-> file.good /\ ~file.json]]

\* Mutant: one pass, so that an image in front of its description has none.
DescriptionsOf_Before(entries, i) ==
  {d \in DOMAIN entries : /\ entries[d].dir = "Modified" /\ entries[d].json
                          /\ entries[d].id = entries[i].id /\ d < i}

(* The descriptions with the name of image i; json_entries keeps the last. *)
DescriptionsOf(entries, i) ==
  {d \in DOMAIN entries : /\ entries[d].dir = "Modified" /\ entries[d].json
                          /\ entries[d].id = entries[i].id}

Description(entries, i) == entries[Max(DescriptionsOf(entries, i))]

(* The images under Modified/ that have a description; both can be         *)
(* extracted, and the description parses.                                  *)
Described(entries) ==
  {i \in DOMAIN entries : /\ entries[i].dir = "Modified" /\ ~entries[i].json /\ entries[i].intact
                          /\ DescriptionsOf(entries, i) # {}
                          /\ Description(entries, i).intact /\ Description(entries, i).good}

LoadTLFormat(entries) ==
  LET images == Described(entries)
  IN  [n \in 1 .. Cardinality(images) |->
         LET i == Place(images, n)
         IN  [key |-> Description(entries, i).key, decodes |-> entries[i].good]]

Pack == [file : PackFiles, type : {0, 1}]

textures ==
  [pack \in Pack |->
     IF pack.type = 0 THEN LoadZipFormat(Entries[pack.file]) ELSE LoadTLFormat(Entries[pack.file])]

PackOf(item) == [file |-> item.file, type |-> item.type]

GetTextures(item) == textures[PackOf(item)]

----------------------------------------------------------------------------
(* loadTexturePack.                                                        *)

\* Mutant: the size of config.json is not asked.
Unparsable_Empty == config.file \in {"torn", "empty"}

(* json::parse throws, outside any try.                                    *)
Unparsable == config.file = "torn"

(* A thread for each item, unless there are no more threads to be had:     *)
(* then std::async throws, outside any try as well.                        *)
ReadConfig ==
  /\ phase = "start"
  /\ \/ /\ config.file # "whole"
        /\ phase' = IF Unparsable THEN "terminated" ELSE "ready"
        /\ UNCHANGED packJobs
     \/ /\ config.file = "whole"
        /\ phase' = "packs" /\ packJobs' = [i \in DOMAIN config.items |-> "running"]
     \/ /\ config.file = "whole" /\ config.items # <<>>
        /\ phase' = "starved" /\ UNCHANGED packJobs
  /\ UNCHANGED <<config, taken, TexturePacks, decodeJobs, decodeResults, maps>>

(* The thread of pack i; one of a disabled pack throws.                    *)
asyncLoadTexturePack(i) ==
  /\ phase = "packs"
  /\ i \in DOMAIN packJobs
  /\ packJobs[i] = "running"
  /\ packJobs' = [packJobs EXCEPT ![i] = IF config.items[i].enable THEN "loaded" ELSE "thrown"]
  /\ UNCHANGED <<config, phase, taken, TexturePacks, decodeJobs, decodeResults, maps>>

\* Mutant: any future that is ready is taken.
NextPack_AnyReady == {i \in DOMAIN packJobs : packJobs[i] \in {"loaded", "thrown"}}

\* Mutant: the loop waits for a pack even where the thread threw.
NextPack_OnlyLoaded == {i \in DOMAIN packJobs : i = taken + 1 /\ packJobs[i] = "loaded"}

(* The future the loop is at, once it is ready.                            *)
NextPack == {i \in DOMAIN packJobs : i = taken + 1 /\ packJobs[i] # "running"}

TakePack ==
  /\ phase = "packs"
  /\ \E i \in NextPack :
       /\ TexturePacks' = IF packJobs[i] = "loaded"
                          THEN Append(TexturePacks, PackOf(config.items[i])) ELSE TexturePacks
       /\ packJobs' = [packJobs EXCEPT ![i] = "taken"]
  /\ taken' = taken + 1
  /\ UNCHANGED <<config, phase, decodeJobs, decodeResults, maps>>

Jobs(pack) ==
  [n \in DOMAIN GetTextures(pack) |->
     [pack |-> pack.file, key |-> GetTextures(pack)[n].key,
      decodes |-> GetTextures(pack)[n].decodes, state |-> "running"]]

AllJobs == FlattenSeq([i \in DOMAIN TexturePacks |-> Jobs(TexturePacks[i])])

(* A thread per texture, in the order of packs and of textures in them, if *)
(* there are that many.                                                    *)
StartDecoding ==
  /\ phase = "packs"
  /\ taken = Len(packJobs)
  /\ \/ /\ decodeJobs' = AllJobs /\ taken' = 0
        /\ phase' = IF decodeJobs' = <<>> THEN "ready" ELSE "decode"
     \/ /\ AllJobs # <<>>
        /\ phase' = "starved" /\ UNCHANGED <<decodeJobs, taken>>
  /\ UNCHANGED <<config, packJobs, TexturePacks, decodeResults, maps>>

Decode(j) ==
  /\ phase = "decode"
  /\ j \in DOMAIN decodeJobs
  /\ decodeJobs[j].state = "running"
  /\ decodeJobs' = [decodeJobs EXCEPT ![j].state = "ready"]
  /\ UNCHANGED <<config, phase, packJobs, taken, TexturePacks, decodeResults, maps>>

\* Mutant: a texture that failed to decode counts as one that did.
ResultOf_Success(job) == [contentKey |-> job.key, pack |-> job.pack, success |-> TRUE]

ResultOf(job) == [contentKey |-> job.key, pack |-> job.pack, success |-> job.decodes]

TakeResult ==
  /\ phase = "decode"
  /\ taken < Len(decodeJobs)
  /\ decodeJobs[taken + 1].state = "ready"
  /\ decodeResults' = Append(decodeResults, ResultOf(decodeJobs[taken + 1]))
  /\ taken' = taken + 1
  /\ phase' = IF taken' = Len(decodeJobs) THEN "ready" ELSE "decode"
  /\ UNCHANGED <<config, packJobs, TexturePacks, decodeJobs, maps>>

----------------------------------------------------------------------------
(* The hooks.                                                              *)

HookAssets ==
  /\ phase = "ready"
  /\ phase' = "hooked"
  /\ UNCHANGED <<config, jobs, decodeResults, maps>>

\* Mutant: insert_or_assign in place of emplace.
Emplaced_Last(js, k) == Max({j \in js : decodeResults[j].contentKey = k})

(* emplace keeps the texture that is there already.                        *)
Emplaced(js, k) == Min({j \in js : decodeResults[j].contentKey = k})

(* Unity makes textures of some of the results that decoded.               *)
cctor ==
  /\ phase = "hooked"
  /\ \E js \in SUBSET {j \in DOMAIN decodeResults : decodeResults[j].success} :
       /\ made' = js
       /\ redirectMap_unity' = [k \in {decodeResults[j].contentKey : j \in js} |->
                                  decodeResults[Emplaced(js, k)].pack]
  /\ decodeResults' = <<>>
  /\ phase' = "running"
  /\ UNCHANGED <<config, jobs, redirectMap, answers, unconverted>>

Unconverted(k, xna) ==
  IF xna = NoTexture THEN unconverted \union {<<redirectMap_unity[k], k>>} ELSE unconverted

\* Mutant: the game's own textures are cached as well.
LoadTexture2D_CachesAll(k) ==
  /\ phase = "running"
  /\ LET answer == IF k \in DOMAIN redirectMap_unity THEN redirectMap_unity[k] ELSE Game
     IN  redirectMap' = Extend(redirectMap, k, answer) /\ answers' = Extend(answers, k, answer)
  /\ UNCHANGED <<config, phase, jobs, decodeResults, redirectMap_unity, made, unconverted>>

\* Mutant: every call converts again.
LoadTexture2D_Uncached(k) ==
  /\ phase = "running"
  /\ \/ /\ k \in DOMAIN redirectMap_unity
        /\ \E xna \in {redirectMap_unity[k], NoTexture} :
             /\ redirectMap' = Extend(redirectMap, k, xna) /\ answers' = Extend(answers, k, xna)
             /\ unconverted' = Unconverted(k, xna)
     \/ /\ k \notin DOMAIN redirectMap_unity /\ answers' = Extend(answers, k, Game)
        /\ UNCHANGED <<redirectMap, unconverted>>
  /\ UNCHANGED <<config, phase, jobs, decodeResults, redirectMap_unity, made>>

(* ConvertToXnaTexture makes an XNA texture or returns null, which is      *)
(* cached and answered like a texture.                                     *)
LoadTexture2D(k) ==
  /\ phase = "running"
  /\ \/ /\ k \in DOMAIN redirectMap
        /\ answers' = Extend(answers, k, redirectMap[k])
        /\ UNCHANGED <<redirectMap, unconverted>>
     \/ /\ k \in DOMAIN redirectMap_unity \ DOMAIN redirectMap
        /\ \E xna \in {redirectMap_unity[k], NoTexture} :
             /\ redirectMap' = Extend(redirectMap, k, xna)
             /\ answers' = Extend(answers, k, xna)
             /\ unconverted' = Unconverted(k, xna)
     \/ /\ k \notin DOMAIN redirectMap \union DOMAIN redirectMap_unity
        /\ answers' = Extend(answers, k, Game)
        /\ UNCHANGED <<redirectMap, unconverted>>
  /\ UNCHANGED <<config, phase, jobs, decodeResults, redirectMap_unity, made>>

Off ==
  /\ phase = "start"
  /\ packJobs = <<>> /\ taken = 0 /\ TexturePacks = <<>> /\ decodeJobs = <<>>
  /\ decodeResults = <<>>
  /\ redirectMap_unity = <<>> /\ redirectMap = <<>> /\ answers = <<>>
  /\ made = {} /\ unconverted = {}

Init == config \in Configs /\ Off

OnLoad == ReadConfig \/ TakePack \/ StartDecoding \/ TakeResult

Next ==
  \/ ReadConfig
  \/ \E i \in DOMAIN packJobs : asyncLoadTexturePack(i)
  \/ TakePack
  \/ StartDecoding
  \/ \E j \in DOMAIN decodeJobs : Decode(j)
  \/ TakeResult
  \/ HookAssets
  \/ cctor
  \/ \E k \in Keys : LoadTexture2D(k)

(* Each job has a thread of its own (std::launch::async): all of them, and *)
(* that of JNI_OnLoad, go on while they can.                               *)
Work ==
  \/ OnLoad
  \/ \E i \in DOMAIN packJobs : asyncLoadTexturePack(i)
  \/ \E j \in DOMAIN decodeJobs : Decode(j)

Spec == Init /\ [][Next]_vars /\ WF_vars(Work)

----------------------------------------------------------------------------
(* Properties.                                                             *)

Phases == {"start", "packs", "decode", "ready", "hooked", "running", "terminated", "starved"}

(* Every variable stays in its range; the loops never pass the last job,   *)
(* and only a running game has textures.                                   *)
TypeOK ==
  /\ config \in Configs
  /\ phase \in Phases
  /\ packJobs \in Seq({"running", "loaded", "thrown", "taken"})
  /\ taken \in 0 .. Len(packJobs) + Len(decodeJobs)
  /\ TexturePacks \in Seq(Pack)
  /\ decodeResults \in Seq([contentKey : Keys, pack : PackFiles, success : BOOLEAN])
  /\ Len(decodeResults) <= Len(decodeJobs)
  /\ DOMAIN redirectMap \subseteq DOMAIN redirectMap_unity
  /\ \A k \in DOMAIN redirectMap_unity : k \in Keys /\ redirectMap_unity[k] \in PackFiles
  /\ \A k \in DOMAIN redirectMap : redirectMap[k] \in PackFiles \union {NoTexture}
  /\ DOMAIN answers \subseteq Keys
  /\ unconverted \subseteq PackFiles \X Keys

EnabledItems == {i \in DOMAIN config.items : config.items[i].enable}

(* The enabled packs with a texture for k that decodes, by place in        *)
(* config.json.                                                            *)
Providers(k) ==
  {i \in EnabledItems : [key |-> k, decodes |-> TRUE] \in ToSet(GetTextures(config.items[i]))}

(* When the threads are done the results stand in the order of config.json *)
(* whatever order the threads ended in: for every texture the first result *)
(* that decoded is that of the first enabled pack that can provide it.     *)
FirstPackFirst ==
  phase = "ready" /\ config.file = "whole" =>
    \A k \in Keys :
      LET decoded == {j \in DOMAIN decodeResults :
                        decodeResults[j].contentKey = k /\ decodeResults[j].success}
      IN  /\ decoded = {} <=> Providers(k) = {}
          /\ decoded # {} =>
               decodeResults[Min(decoded)].pack = config.items[Min(Providers(k))].file

(* Every answer is that of the first enabled pack in config.json of whose  *)
(* texture a Unity texture could be made - packs whose texture did not     *)
(* decode or was not made are passed over -, and the game's own only if    *)
(* there is no such pack.  But if that one cannot be converted, the answer *)
(* is null from then on: neither a later pack nor the game is asked.       *)
AnswersFromFirst ==
  \A k \in DOMAIN answers :
    LET ofKey == {j \in made : decodeJobs[j].key = k}
        able  == {i \in Providers(k) : \E j \in ofKey : decodeJobs[j].pack = config.items[i].file}
        first == config.items[Min(able)].file
    IN  answers[k] = IF ofKey = {} THEN Game
                     ELSE IF <<first, k>> \in unconverted THEN NoTexture ELSE first

(* Of a TL pack in which no two descriptions share a name, the textures    *)
(* are those that have both an image and a description that can be read,   *)
(* under the key the description gives, wherever the two stand.            *)
PairsLoaded ==
  phase = "ready" /\ config.file = "whole" =>
    \A i \in DOMAIN config.items :
      LET item   == config.items[i]
          files  == {e \in ToSet(Entries[item.file]) : e.dir = "Modified"}
          images == {e \in files : ~e.json}
          descs  == {e \in files : e.json}
      IN  item.enable /\ item.type = 1 /\ (\A d, e \in descs : d.id = e.id => d = e) =>
            {decodeResults[j].contentKey : j \in {j \in DOMAIN decodeResults : decodeResults[j].pack = item.file}}
              = {d.key : d \in {d \in descs : d.intact /\ d.good /\ \E e \in images : e.intact /\ e.id = d.id}}

(* The wait in JNI_OnLoad ends: with the results of all threads, unless    *)
(* config.json does not parse or there are too few threads to be had.      *)
LoadingEnds == <>(phase \in {"ready", "hooked", "running", "terminated", "starved"})

(* For each enabled pack in order, the keys of its textures that decode.   *)
Shelf ==
  LET item(n) == config.items[Place(EnabledItems, n)]
  IN  [n \in 1 .. Cardinality(EnabledItems) |->
         [pack |-> item(n).file, keys |-> {t.key : t \in {t \in ToSet(GetTextures(item(n))) : t.decodes}}]]

Service == INSTANCE TextureService
             WITH shelf <- Shelf, open <- phase = "running", table <- redirectMap_unity

(* With all its threads the loader does what TextureService does in two    *)
(* kinds of steps: the packs' order decides once, an answer never changes. *)
ImplementsService == Service!Spec
=============================================================================
