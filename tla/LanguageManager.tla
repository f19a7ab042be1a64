-------------------------- MODULE LanguageManager --------------------------
(***************************************************************************)
(* TerraFormats inside the game.  JNI_OnLoad reads config.json once and    *)
(* gives each enabled pack, by priority, one of the game's languages; from *)
(* then on every LoadLanguage of the game goes through the hook, which     *)
(* loads the pack that has the chosen language.  All of it runs on the     *)
(* game's thread, a call at a time.  The disk is what LanguagePage left.   *)
(***************************************************************************)
EXTENDS Integers, SequencesExt, Subsequences

CONSTANTS
  PackFiles,     \* the zips config.json may name: numbers above 0
  Codes,         \* how many languages_code there are (7); 1 is "en-US"
  Cultures,      \* the languages of the game
  Default,       \* what GameCulture.FromName makes of a name it does not know
  CultureOf,     \* GameCulture.FromName of each code
  CommonName,    \* LanguagePacks::common_name; "Base" holds the list of languages
  PackInfo,      \* what each zip holds, if it is a pack
  Disks          \* the disks the game may start with

Setting == [path : PackFiles, isEnabled : BOOLEAN, priority : Int]

(* The page lists no pack twice (LanguagePage, TypeOK).                    *)
ConfigOK(entries) ==
  /\ entries \in Seq(Setting)
  /\ \A i, j \in DOMAIN entries : entries[i].path = entries[j].path => i = j

ASSUME ManagerAssumption ==
  /\ PackFiles \subseteq Nat \ {0}
  /\ Codes \in Nat \ {0}
  /\ Default \in Cultures
  /\ CultureOf \in [1 .. Codes -> Cultures]
  /\ "Base" \in CommonName
  /\ PackInfo \in [PackFiles -> [isCommon : BOOLEAN,        \* type is "Common"
                                 autocomplete : Cultures,   \* FromName(autocomplete)
                                 files : SUBSET CommonName,
                                 baseParses : BOOLEAN]]     \* Base.json is JSON
  /\ \A d \in Disks : ConfigOK(d.config)

VARIABLES
  \* The disk, as in LanguagePage.
  zips, configFile, config,
  \* The game: "off", "loaded", or ended by a fault of the hook: "undefined"
  \* (it dereferenced end()) or "terminated" (an exception left it).
  game,
  \* LanguageManager's statics: the pack of each code that has one, and the
  \* list of languages, which is built once.
  packs, language_list,
  \* What the player sees: where each file's text is from (pack 0: the game),
  \* the packs named in the language menu, the culture chosen last.
  text, menu, culture

disk    == <<zips, configFile, config>>
native  == <<game, packs, language_list, text, menu, culture>>
vars    == <<disk, native>>

None == "none"

----------------------------------------------------------------------------
(* LanguageManager::init.                                                  *)

(* The constructor of LanguagePacks throws if config.json of the zip is    *)
(* not there or lacks a field.  A file that is no zip, is cut off, or is   *)
(* not there does not throw and leaves a pack without name, type and files.*)
CtorThrows(p) == zips[p] \in {"bare", "rejected"}
Ghost(p) == zips[p] \in {"absent", "empty", "junk", "cut"}

(* packs_info; a torn config.json is a parse_error, which init catches.    *)
Enabled ==
  IF configFile = "whole" THEN Subsequence(config, {i \in DOMAIN config : config[i].isEnabled}) ELSE <<>>

\* Mutant: the comparison of std::sort is the wrong way round.
ByPriority_Ascending(order) ==
  \A i, j \in DOMAIN order : i < j => order[i].priority <= order[j].priority

(* Any order std::sort, which is not stable, may leave.                    *)
ByPriority(order) ==
  \A i, j \in DOMAIN order : i < j => order[i].priority >= order[j].priority

Orders(s) == {[i \in DOMAIN s |-> s[f[i]]] :
                f \in {f \in [DOMAIN s -> DOMAIN s] : IsInjective(f)}}

\* Mutant: the last language is given to no pack.
NumPacks_OffByOne(n) == IF n < Codes THEN n ELSE Codes - 1

\* Mutant: std::min is missing.
NumPacks_NoMin(n) == n

NumPacks(n) == IF n < Codes THEN n ELSE Codes

(* A pack that throws leaves its code without a pack.                      *)
PacksOf(order) ==
  [i \in {i \in 1 .. NumPacks(Len(order)) : ~CtorThrows(order[i].path)} |-> order[i].path]

JNI_OnLoad ==
  /\ game = "off"
  /\ \E order \in Orders(Enabled) : ByPriority(order) /\ packs' = PacksOf(order)
  /\ game' = "loaded"
  /\ UNCHANGED <<disk, language_list, text, menu, culture>>

----------------------------------------------------------------------------
(* LanguageManager::LoadLanguage, the hook.                                *)

FromGame(c) == [f \in CommonName |-> [pack |-> 0, culture |-> c]]

\* Mutant: old_LoadLanguage is not called.
Completion_Missing(p) == text

(* old_LoadLanguage loads every file in the pack's autocomplete language.  *)
Completion(p) == FromGame(IF Ghost(p) THEN Default ELSE PackInfo[p].autocomplete)

(* The files LoadLanguageFromFileText is called with.                      *)
Files(p) == IF ~Ghost(p) /\ PackInfo[p].isCommon THEN PackInfo[p].files ELSE {}

(* packs_cache at culture c: if two codes are one culture, the pack that   *)
(* comes last in the unordered map.                                        *)
Cached(c) == {packs[i] : i \in {i \in DOMAIN packs : CultureOf[i] = c}}

\* Mutant: the pack of en-US is loaded whatever language is chosen.
Chosen_English(c) == Cached(CultureOf[1])

Chosen(c) == IF Cached(c) # {} THEN Cached(c) ELSE Cached(CultureOf[1])

Listed == IF language_list = <<>> THEN packs ELSE language_list

(* get_setLanguagesList throws if Base.json does not parse.                *)
LoadPack(p) ==
  /\ language_list' = Listed
  /\ IF "Base" \in Files(p) /\ ~PackInfo[p].baseParses
     THEN game' = "terminated" /\ UNCHANGED <<text, menu>>
     ELSE /\ text' = [f \in CommonName |-> IF f \in Files(p)
                                           THEN [pack |-> p, culture |-> None]
                                           ELSE Completion(p)[f]]
          /\ menu' = IF "Base" \in Files(p) THEN Listed ELSE <<>>
          /\ UNCHANGED game

LoadLanguage(c) ==
  /\ game = "loaded"
  /\ culture' = c
  /\ \/ /\ DOMAIN packs = {}
        /\ text' = FromGame(c)
        /\ menu' = <<>>
        /\ UNCHANGED <<game, language_list>>
     \/ \E p \in Chosen(c) : LoadPack(p)
     \/ /\ DOMAIN packs # {}
        /\ Chosen(c) = {}
        /\ game' = "undefined"   \* packs_cache.end() is dereferenced
        /\ UNCHANGED <<language_list, text, menu>>
  /\ UNCHANGED <<disk, packs>>

Off ==
  /\ game = "off"
  /\ packs = <<>> /\ language_list = <<>>
  /\ text = FromGame(None) /\ menu = <<>> /\ culture = None

Exit ==
  /\ game # "off"
  /\ game' = "off"
  /\ packs' = <<>> /\ language_list' = <<>>
  /\ text' = FromGame(None) /\ menu' = <<>> /\ culture' = None
  /\ UNCHANGED disk

Init ==
  /\ \E d \in Disks : zips = d.zips /\ configFile = d.configFile /\ config = d.config
  /\ Off

Next == JNI_OnLoad \/ (\E c \in Cultures : LoadLanguage(c)) \/ Exit

Spec == Init /\ [][Next]_vars

----------------------------------------------------------------------------
(* Properties.                                                             *)

(* Every variable stays in its range.                                      *)
TypeOK ==
  /\ game \in {"off", "loaded", "undefined", "terminated"}
  /\ \A s \in {packs, language_list, menu} :
       DOMAIN s \subseteq 1 .. Codes /\ \A i \in DOMAIN s : s[i] \in PackFiles
  /\ text \in [CommonName -> [pack : PackFiles \union {0}, culture : Cultures \union {None}]]
  /\ culture \in Cultures \union {None}

PriorityOf(p) == (CHOOSE e \in ToSet(config) : e.path = p).priority

(* Every enabled pack whose constructor returns has one language to itself *)
(* if there are languages enough, and never a later one than a pack of     *)
(* lower priority.                                                         *)
PacksServed ==
  game # "off" =>
    /\ Len(Enabled) <= Codes =>
         \A e \in ToSet(Enabled) :
           ~CtorThrows(e.path) => Cardinality({i \in DOMAIN packs : packs[i] = e.path}) = 1
    /\ \A i, j \in DOMAIN packs : i < j => PriorityOf(packs[i]) >= PriorityOf(packs[j])

(* Choosing the language that has a pack's name in the menu gives the text *)
(* of that pack, completed in the language the pack names: the menu is     *)
(* built once and the cache at every call.                                 *)
MenuTrue ==
  game = "loaded" /\ IsInjective(CultureOf) =>
    \A i \in DOMAIN language_list :
      culture = CultureOf[i] =>
        LET p == language_list[i]
        IN  /\ \A f \in CommonName : text[f].pack = IF f \in Files(p) THEN p ELSE 0
            /\ menu # <<>> => DOMAIN menu = DOMAIN packs /\ menu[i] = p

(* What the pack on screen does not translate is in its autocomplete       *)
(* language, never in what an earlier choice of language left.             *)
CompletedText ==
  game = "loaded" /\ culture # None =>
    \/ DOMAIN packs = {} /\ text = FromGame(culture)
    \/ \E i \in DOMAIN packs : \A f \in CommonName \ Files(packs[i]) :
         /\ text[f].pack = 0
         /\ text[f].culture = IF Ghost(packs[i]) THEN Default ELSE PackInfo[packs[i]].autocomplete

(* README.md: a missing translation is completed in another language.  The *)
(* hook always finds a pack to load.                                       *)
FallbackLoads == game # "undefined"

(* README.md: the translations of a pack of higher priority override those *)
(* of the packs below it.                                                  *)
HigherOverrides ==
  game = "loaded" =>
    \A f \in CommonName, i \in DOMAIN packs :
      f \in Files(packs[i]) /\ text[f].pack # 0 => PriorityOf(text[f].pack) >= PriorityOf(packs[i])
=============================================================================
