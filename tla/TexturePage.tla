---------------------------- MODULE TexturePage ----------------------------
(***************************************************************************)
(* The page of TexturePack in the loader app (EFModPage.kt): it installs,  *)
(* deletes and enables texture packs.  What it keeps on disk - the zips    *)
(* and config.json - is what the game reads (TextureLoader).               *)
(*                                                                         *)
(* As in LanguagePage, handlers run one at a time, their steps are apart   *)
(* where a failure or a crash leaves the disk in another state, and a      *)
(* frame is composed after every handler.  Unlike there, deletions and     *)
(* switches keep their list in memory and load nothing.                    *)
(***************************************************************************)
EXTENDS Integers, FiniteSets, SequencesExt, Subsequences

CONSTANTS
  MaxInstalls,   \* bound: how many zips are ever copied
  MaxFaults,     \* bound: how many kinds of faults happen, each any number of times
  Contents       \* what a picked file may hold

Packs == 1 .. MaxInstalls   \* zips, named after the time of their copy

(* "junk": neither pack.json nor Settings.json; "bare": one of them, not   *)
(* as the page needs it; "standard": with pack.json; "tl": Settings.json;  *)
(* cut: cut off behind it, so that the page, going from entry to entry,    *)
(* reads it and the game, looking for the directory at the end, does not.  *)
AllContents == {"empty", "junk", "bare", "standardCut", "tlCut", "standard", "tl"}

ASSUME PageAssumption ==
  MaxInstalls \in Nat \ {0} /\ MaxFaults \in Nat /\ Contents \subseteq AllContents

VARIABLES
  zips, configFile, config,        \* on disk; config.json is "absent", "empty", "torn" or "whole"
  packInfos, errorMessage, cards,  \* the page; cards: the isEnabled each card remembers
  pc, picked, toSave, thenLoad,    \* the running handler
  clock, deleted, faults           \* files copied so far; history

disk    == <<zips, configFile, config>>
page    == <<packInfos, errorMessage, cards>>
handler == <<pc, picked, toSave, thenLoad>>
vars    == <<disk, page, handler, clock, deleted, faults>>

Faults == {"copy", "delete", "open", "write", "crash", "tear"}
Fault(kind) == faults' = faults \union {kind} /\ Cardinality(faults') <= MaxFaults

Setting == [file : Packs, type : {0, 1}, enable : BOOLEAN]
Files(s) == {s[i].file : i \in DOMAIN s}

----------------------------------------------------------------------------
(* Reading and writing the disk.                                           *)

detectPackType(content) ==
  CASE content \in {"standard", "standardCut", "bare"} -> 0
    [] content \in {"tl", "tlCut"} -> 1
    [] OTHER -> -1

(* readPackInfoFromZip returns, rather than throws.                        *)
Readable(content) == content \in {"standard", "standardCut", "tl", "tlCut"}

Present == Subsequence(config, {i \in DOMAIN config : zips[config[i].file] # "absent"})

ReadableOf(s) == Subsequence(s, {i \in DOMAIN s : Readable(zips[s[i].file])})

EnabledOf(s)  == Subsequence(s, {i \in DOMAIN s : s[i].enable})
DisabledOf(s) == Subsequence(s, {i \in DOMAIN s : ~s[i].enable})

\* Mutant: enabled packs are put in front of each other.
EnabledFirst_Unstable(s) == Reverse(EnabledOf(s)) \o DisabledOf(s)

(* sortedByDescending { isEnabled } is stable.                             *)
EnabledFirst(s) == EnabledOf(s) \o DisabledOf(s)

LoadPackInfos ==
  IF configFile \in {"empty", "torn"}
  THEN errorMessage' = "load" /\ UNCHANGED packInfos
  ELSE /\ packInfos' = EnabledFirst(ReadableOf(Present))
       /\ errorMessage' = IF \A f \in Files(Present) : Readable(zips[f]) THEN "none" ELSE "load"

(* saveConfig; a failure is put in errorMessage and kept from the caller.  *)
SaveConfig(packs, load) == pc' = "open" /\ toSave' = packs /\ thenLoad' = load

\* Mutant: a save that fails is not told.
SaveError_Silent == errorMessage

SaveError == "save"

(* writeText opens config.json, which empties it, and then writes.         *)
SaveOpen ==
  /\ pc = "open"
  /\ \/ configFile' = "empty" /\ config' = <<>> /\ pc' = "write" /\ UNCHANGED <<errorMessage, faults>>
     \/ Fault("open") /\ errorMessage' = SaveError /\ pc' = "saved" /\ UNCHANGED <<configFile, config>>
  /\ UNCHANGED <<zips, packInfos, cards, picked, toSave, thenLoad, clock, deleted>>

SaveWrite ==
  /\ pc = "write"
  /\ pc' = "saved"
  /\ \/ configFile' = "whole" /\ config' = toSave /\ UNCHANGED <<errorMessage, faults>>
     \/ Fault("write") /\ errorMessage' = SaveError /\ UNCHANGED <<configFile, config>>
     \/ Fault("tear") /\ errorMessage' = SaveError /\ configFile' = "torn" /\ UNCHANGED config
  /\ UNCHANGED <<zips, packInfos, cards, picked, toSave, thenLoad, clock, deleted>>

(* installPack loads the list again, the others keep what they saved.      *)
Saved ==
  /\ pc = "saved"
  /\ IF thenLoad THEN LoadPackInfos ELSE packInfos' = toSave /\ UNCHANGED errorMessage
  /\ pc' = "compose"
  /\ UNCHANGED <<disk, cards, picked, toSave, thenLoad, clock, deleted, faults>>

----------------------------------------------------------------------------
(* Handlers.                                                               *)

(* installPack's catch block; it deletes the zips of length 0.             *)
Failed(files) ==
  /\ zips' = [p \in Packs |-> IF files[p] = "empty" THEN "absent" ELSE files[p]]
  /\ errorMessage' = "install"
  /\ pc' = "compose"
  /\ UNCHANGED <<toSave, thenLoad>>

(* installPack creates the zip, unless the picked file cannot be opened.   *)
InstallPack(content) ==
  /\ pc = "idle"
  /\ clock < MaxInstalls
  /\ clock' = clock + 1
  /\ picked' = content
  /\ \/ /\ zips' = [zips EXCEPT ![clock'] = "empty"]
        /\ errorMessage' = "none"
        /\ pc' = "copy"
        /\ UNCHANGED <<toSave, thenLoad, faults>>
     \/ Fault("copy") /\ Failed(zips)
  /\ UNCHANGED <<configFile, config, packInfos, cards, deleted>>

\* Mutant: every new pack is stored as a standard one.
WithNew_Standard == Append(packInfos, [file |-> clock, type |-> 0, enable |-> FALSE])

WithNew == Append(packInfos, [file |-> clock, type |-> detectPackType(picked), enable |-> FALSE])

(* What there may be of a file whose copy did not come to its end: some of *)
(* its bytes, and even all of them if it was close that threw.             *)
Parts(content) ==
  {"empty", content} \union
    CASE content \in {"empty", "junk"} -> {}
      [] content = "bare" -> {"junk", "standardCut", "tlCut"}
      [] content \in {"standard", "standardCut"} -> {"junk", "bare", "standardCut"}
      [] content \in {"tl", "tlCut"}             -> {"junk", "bare", "tlCut"}

(* The copy, the search for its format and the reading of its description; *)
(* a zip without a format is deleted, if that succeeds.                    *)
CopyPack ==
  /\ pc = "copy"
  /\ LET copied == [zips EXCEPT ![clock] = picked]
     IN  \/ /\ Readable(picked)
            /\ zips' = copied
            /\ SaveConfig(WithNew, TRUE)
            /\ UNCHANGED <<errorMessage, faults>>
         \/ /\ ~Readable(picked)
            /\ Failed(IF detectPackType(picked) = -1 THEN [copied EXCEPT ![clock] = "absent"] ELSE copied)
            /\ UNCHANGED faults
         \/ detectPackType(picked) = -1 /\ Fault("delete") /\ Failed(copied)
         \/ Fault("copy") /\ \E part \in Parts(picked) : Failed([copied EXCEPT ![clock] = part])
  /\ UNCHANGED <<configFile, config, packInfos, cards, picked, clock, deleted>>

\* Mutant: the filter keeps every pack.
Others_All(p) == packInfos

Others(p) == Subsequence(packInfos, {i \in DOMAIN packInfos : packInfos[i].file # p})

(* deletePack: File.delete may fail, which nobody asks.                    *)
DeletePack(p) ==
  /\ pc = "idle"
  /\ p \in DOMAIN cards
  /\ \/ zips' = [zips EXCEPT ![p] = "absent"] /\ UNCHANGED faults
     \/ Fault("delete") /\ UNCHANGED zips
  /\ SaveConfig(Others(p), FALSE)
  /\ deleted' = deleted \union {p}
  /\ UNCHANGED <<configFile, config, page, picked, clock>>

\* Mutant: the switch of one card moves all packs.
WithEnabled_All(p, enabled) == [i \in DOMAIN packInfos |-> [packInfos[i] EXCEPT !.enable = enabled]]

WithEnabled(p, enabled) ==
  [i \in DOMAIN packInfos |->
     IF packInfos[i].file = p THEN [packInfos[i] EXCEPT !.enable = enabled] ELSE packInfos[i]]

(* The switch of card p, which follows the card's own isEnabled, and       *)
(* togglePack.                                                             *)
TogglePack(p) ==
  /\ pc = "idle"
  /\ p \in DOMAIN cards
  /\ cards' = [cards EXCEPT ![p] = ~@]
  /\ SaveConfig(WithEnabled(p, ~cards[p]), FALSE)
  /\ UNCHANGED <<disk, packInfos, errorMessage, picked, clock, deleted, faults>>

----------------------------------------------------------------------------
(* Composition.                                                            *)

Enabled(s) == {e.file : e \in {e \in ToSet(s) : e.enable}}

(* A frame: an empty page loads config.json; cards are drawn unless there  *)
(* is an error to show; a card drawn before keeps what it remembers.  (One *)
(* scrolled out of the LazyColumn and back is drawn anew: by CardsTrue     *)
(* with what it had.)                                                      *)
Compose ==
  /\ pc = "compose"
  /\ IF packInfos = <<>> THEN LoadPackInfos ELSE UNCHANGED <<packInfos, errorMessage>>
  /\ cards' = [p \in IF errorMessage' = "none" THEN Files(packInfos') ELSE {} |->
                 IF p \in DOMAIN cards THEN cards[p] ELSE p \in Enabled(packInfos')]
  /\ pc' = "idle" /\ picked' = "empty" /\ toSave' = <<>> /\ thenLoad' = FALSE
  /\ UNCHANGED <<disk, clock, deleted, faults>>

(* The process ends, between two handlers or inside one, and starts again; *)
(* what was being copied or written may be in the file in part.            *)
Restart ==
  /\ pc # "compose"
  /\ zips' \in IF pc = "copy" THEN {[zips EXCEPT ![clock] = part] : part \in Parts(picked)} ELSE {zips}
  /\ packInfos' = <<>> /\ errorMessage' = "none" /\ cards' = <<>>
  /\ pc' = "compose" /\ picked' = "empty" /\ toSave' = <<>> /\ thenLoad' = FALSE
  /\ \/ pc = "idle" /\ UNCHANGED <<configFile, faults>>
     \/ pc # "idle" /\ Fault("crash") /\ UNCHANGED configFile
     \/ pc = "write" /\ Fault("tear") /\ configFile' = "torn"
  /\ UNCHANGED <<config, clock, deleted>>

Init ==
  /\ zips = [p \in Packs |-> "absent"]
  /\ configFile = "absent" /\ config = <<>>
  /\ packInfos = <<>> /\ errorMessage = "none" /\ cards = <<>>
  /\ pc = "compose" /\ picked = "empty" /\ toSave = <<>> /\ thenLoad = FALSE
  /\ clock = 0 /\ deleted = {} /\ faults = {}

Next ==
  \/ \E content \in Contents : InstallPack(content)
  \/ CopyPack
  \/ \E p \in Packs : DeletePack(p)
  \/ \E p \in Packs : TogglePack(p)
  \/ SaveOpen
  \/ SaveWrite
  \/ Saved
  \/ Compose
  \/ Restart

Spec == Init /\ [][Next]_vars

----------------------------------------------------------------------------
(* Properties.                                                             *)

(* Every variable stays in its range, no pack is listed twice, and each is *)
(* listed with the format of its zip.                                      *)
TypeOK ==
  /\ zips \in [Packs -> AllContents \union {"absent"}]
  /\ configFile \in {"absent", "empty", "torn", "whole"}
  /\ \A s \in {config, packInfos, toSave} :
       /\ s \in Seq(Setting)
       /\ \A i, j \in DOMAIN s : s[i].file = s[j].file => i = j
       /\ \A e \in ToSet(s) : zips[e.file] = "absent" \/ e.type = detectPackType(zips[e.file])
  /\ errorMessage \in {"none", "load", "save", "install"}
  /\ cards \in [DOMAIN cards -> BOOLEAN] /\ DOMAIN cards \subseteq Packs
  /\ pc \in {"idle", "copy", "open", "write", "saved", "compose"}
  /\ picked \in AllContents /\ thenLoad \in BOOLEAN
  /\ clock \in 0 .. MaxInstalls /\ deleted \subseteq Packs /\ faults \subseteq Faults

(* Whatever failed before: a page that shows no error shows what           *)
(* config.json holds of the zips that are there, the enabled packs in the  *)
(* order the game takes them.  A list kept in memory after a failed save   *)
(* never outlives the error that hides it.                                 *)
ShownIsSaved ==
  pc = "idle" /\ errorMessage = "none" =>
    /\ ToSet(packInfos) = ToSet(Present)
    /\ EnabledOf(packInfos) = EnabledOf(Present)

(* Each card shows what the list says of its pack: a card remembers its    *)
(* switch, is not told of loads, and is forgotten when an error is shown.  *)
CardsTrue ==
  pc = "idle" => \A p \in DOMAIN cards : cards[p] <=> p \in Enabled(packInfos)
=============================================================================
