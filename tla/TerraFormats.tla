---------------------------- MODULE TerraFormats ----------------------------
(***************************************************************************)
(* The page and the game over one disk: the player sorts packs on the page *)
(* (LanguagePage), starts the game, which reads config.json and the zips   *)
(* (LanguageManager), and comes back.  The page is not used while the game *)
(* runs; the game may start after a crash of the page and before it is     *)
(* opened again.                                                           *)
(***************************************************************************)
EXTENDS LanguagePage

CONSTANTS
  Cultures, Default, CultureOf, CommonName, PackInfo,   \* see LanguageManager
  Codes                                                 \* 7, as is MaxEnabled

VARIABLES game, packs, language_list, text, menu, culture

Native == INSTANCE LanguageManager WITH PackFiles <- Packs, Disks <- {}

ASSUME CompositionAssumption ==
  /\ Codes = MaxEnabled
  /\ Default \in Cultures
  /\ CultureOf \in [1 .. Codes -> Cultures]
  /\ "Base" \in CommonName
  /\ PackInfo \in [Packs -> [isCommon : BOOLEAN, autocomplete : Cultures,
                            files : SUBSET CommonName, baseParses : BOOLEAN]]

native  == <<game, packs, language_list, text, menu, culture>>
allVars == <<vars, native>>

UsePage == game = "off" /\ Next /\ UNCHANGED native

StartGame ==
  /\ pc \in {"idle", "compose"}
  /\ Native!JNI_OnLoad
  /\ UNCHANGED <<page, handler, clock, installed, faults>>

LeaveGame == Native!Exit /\ UNCHANGED <<page, handler, clock, installed, faults>>

BothInit == Init /\ Native!Off

BothNext == UsePage \/ StartGame \/ LeaveGame

BothSpec == BothInit /\ [][BothNext]_allVars

----------------------------------------------------------------------------
(* Properties.                                                             *)

Running == game = "loaded" /\ pc = "idle"

(* Each pack the page shows as enabled and the game can load has one of    *)
(* the game's languages: the cap of the page, counted in memory, is enough *)
(* for what config.json holds.                                             *)
EnabledServed ==
  Running /\ No({"open", "write", "tear"}) =>
    \A i \in DOMAIN packInfos :
      LET p == packInfos[i].path
      IN  packInfos[i].isEnabled /\ zips[p] = "loadable" => \E c \in DOMAIN packs : packs[c] = p

(* Of two packs with languages the one higher on the page has the earlier  *)
(* language, or both have the same priority.                               *)
PageOrderKept ==
  Running /\ No({"open", "write", "tear"}) =>
    \A i, j \in DOMAIN packInfos : i < j =>
      \A c, d \in DOMAIN packs :
        packs[c] = packInfos[i].path /\ packs[d] = packInfos[j].path =>
          c < d \/ packInfos[i].priority = packInfos[j].priority

(* A language is only given to a pack the page can show: a deletion takes  *)
(* the zip and then the entry, and only a crash between the two, or a      *)
(* config.json that cannot be opened, leaves an entry alone.               *)
NoGhostPack ==
  game = "loaded" /\ No({"crash", "open"}) => \A c \in DOMAIN packs : Readable(packs[c])
=============================================================================
