---------------------------- MODULE LanguagePage ----------------------------
(***************************************************************************)
(* The page of TerraFormats in the loader app (EFModPage.kt): it installs, *)
(* deletes, enables and ranks language packs.  What it keeps on disk - the *)
(* zips and config.json - is what the game reads (LanguageManager).        *)
(*                                                                         *)
(* Handlers run on the main thread, one at a time; their steps are apart   *)
(* only where a failure or a crash leaves the disk in another state.  A    *)
(* frame is composed after every handler.  isLoading is TRUE only inside a *)
(* handler, so no frame sees it and it is left out.                        *)
(***************************************************************************)
EXTENDS Integers, FiniteSets, SequencesExt, Subsequences

CONSTANTS
  MaxEnabled,    \* 7
  MaxPriority,   \* 6
  MaxInstalls,   \* bound: how many zips are ever copied
  MaxFaults,     \* bound: how many kinds of faults happen, each any number of times
  NameRank,      \* place of a pack's name in the order of names
  Contents       \* what a picked file may hold

Packs == 1 .. MaxInstalls   \* zips, named after the time of their copy

(* "empty": no bytes; "junk": no zip archive, or a broken one; "bare": a   *)
(* zip without config.json; "cut": cut off behind a config.json, which the *)
(* page, going from entry to entry, still reads, while the game looks for  *)
(* the directory at the end; "rejected": the page's fields are there but   *)
(* the game's (autocomplete, standard) are not; "loadable": all are.       *)
AllContents == {"empty", "junk", "bare", "cut", "rejected", "loadable"}

(* readPackInfoFromZip returns, rather than throws.                        *)
PageReads == {"cut", "rejected", "loadable"}

ASSUME PageAssumption ==
  /\ MaxEnabled \in Nat \ {0}
  /\ MaxPriority \in Nat
  /\ MaxInstalls \in Nat \ {0}
  /\ MaxFaults \in Nat
  /\ NameRank \in [Packs -> Nat]
  /\ Contents \subseteq AllContents

VARIABLES
  \* On disk.
  zips,          \* the file of every pack
  configFile,    \* config.json: "absent", "torn" (no JSON) or "whole"
  config,        \* its entries
  \* The page's state.
  packInfos, errorMessage,
  cards,         \* the isEnabled and currentPriority each card remembers
  \* The running handler.
  pc, picked, toSave, target, thenLoad,
  \* Bound and history.
  clock,         \* files copied so far
  installed,     \* packs whose installation came to its end, less those deleted
  faults         \* the kinds of faults that happened

disk    == <<zips, configFile, config>>
page    == <<packInfos, errorMessage, cards>>
handler == <<pc, picked, toSave, target, thenLoad>>
vars    == <<disk, page, handler, clock, installed, faults>>

Faults == {"copy", "delete", "open", "write", "crash", "tear"}
Fault(kind) == faults' = faults \union {kind} /\ Cardinality(faults') <= MaxFaults
No(kinds) == faults \intersect kinds = {}

Setting == [path : Packs, isEnabled : BOOLEAN, priority : 0 .. MaxPriority]
Paths(s) == {s[i].path : i \in DOMAIN s}
SettingOf(s, p) == s[CHOOSE i \in DOMAIN s : s[i].path = p]

----------------------------------------------------------------------------
(* Reading the disk.                                                       *)

Readable(p) == zips[p] \in PageReads

(* sortedWith is stable: equal entries keep their order.                   *)
Before(s, i, j) ==
  LET a == s[i]
      b == s[j]
  IN  \/ a.isEnabled /\ ~b.isEnabled
      \/ /\ a.isEnabled = b.isEnabled
         /\ \/ a.priority > b.priority
            \/ a.priority = b.priority /\ NameRank[a.path] < NameRank[b.path]
            \/ a.priority = b.priority /\ NameRank[a.path] = NameRank[b.path] /\ i < j

Rank(s, i) == 1 + Cardinality({j \in DOMAIN s : Before(s, j, i)})

Sorted(s) == [n \in DOMAIN s |-> s[CHOOSE i \in DOMAIN s : Rank(s, i) = n]]

Present == Subsequence(config, {i \in DOMAIN config : zips[config[i].path] # "absent"})

ReadableOf(s) == Subsequence(s, {i \in DOMAIN s : Readable(s[i].path)})

\* Mutant: what is loaded is added to the old list.
LoadPackInfos_Adds ==
  IF configFile = "torn"
  THEN errorMessage' = "load" /\ UNCHANGED packInfos
  ELSE /\ packInfos' = Sorted(packInfos \o ReadableOf(Present))
       /\ errorMessage' = "none"

LoadPackInfos ==
  IF configFile = "torn"
  THEN errorMessage' = "load" /\ UNCHANGED packInfos
  ELSE /\ packInfos' = Sorted(ReadableOf(Present))
       /\ errorMessage' = IF \A p \in Paths(Present) : Readable(p) THEN "none" ELSE "load"

----------------------------------------------------------------------------
(* saveConfig: writeText opens config.json, which empties it, and writes.  *)
(* A failure is put in errorMessage and does not reach the caller.         *)

SaveConfig(packs, changed, load) ==
  pc' = "open" /\ toSave' = packs /\ target' = changed /\ thenLoad' = load

SaveOpen ==
  /\ pc = "open"
  /\ \/ /\ configFile' = "torn" /\ config' = <<>>
        /\ pc' = "write"
        /\ UNCHANGED <<errorMessage, faults>>
     \/ /\ Fault("open")
        /\ errorMessage' = "save"
        /\ pc' = "saved"
        /\ UNCHANGED <<configFile, config>>
  /\ UNCHANGED <<zips, packInfos, cards, picked, toSave, target, thenLoad, clock, installed>>

SaveWrite ==
  /\ pc = "write"
  /\ \/ /\ configFile' = "whole" /\ config' = toSave
        /\ UNCHANGED <<errorMessage, faults>>
     \/ /\ Fault("write")
        /\ errorMessage' = "save"
        /\ UNCHANGED <<configFile, config>>
  /\ pc' = "saved"
  /\ UNCHANGED <<zips, packInfos, cards, picked, toSave, target, thenLoad, clock, installed>>

\* Mutant: the list in memory is not updated after a deletion.
Kept_Old == packInfos

(* What deletePack leaves in packInfos; the others load config.json again. *)
Kept == toSave

Saved ==
  /\ pc = "saved"
  /\ IF thenLoad THEN LoadPackInfos ELSE packInfos' = Kept /\ UNCHANGED errorMessage
  /\ installed' = IF thenLoad THEN installed \union {target} ELSE installed
  /\ pc' = "compose"
  /\ UNCHANGED <<disk, cards, picked, toSave, target, thenLoad, clock, faults>>

----------------------------------------------------------------------------
(* Handlers.                                                               *)

(* installPack's catch block deletes the zips of length 0.                 *)
CleanUp(files) == [p \in Packs |-> IF files[p] = "empty" THEN "absent" ELSE files[p]]

(* installPack creates the zip, unless the picked file cannot be opened.   *)
InstallPack(content) ==
  /\ pc = "idle"
  /\ clock < MaxInstalls
  /\ clock' = clock + 1
  /\ picked' = content
  /\ \/ /\ zips' = [zips EXCEPT ![clock + 1] = "empty"]
        /\ errorMessage' = "none"
        /\ pc' = "copy"
        /\ UNCHANGED faults
     \/ /\ Fault("copy")
        /\ zips' = CleanUp(zips)
        /\ errorMessage' = "install"
        /\ pc' = "compose"
  /\ UNCHANGED <<configFile, config, packInfos, cards, toSave, target, thenLoad, installed>>

\* Mutant: a new pack is enabled at once.
NewPack_Enabled(p) == [path |-> p, isEnabled |-> TRUE, priority |-> 0]

NewPack(p) == [path |-> p, isEnabled |-> FALSE, priority |-> 0]

\* Mutant: the list is saved without the new pack.
WithNew_Forgotten(p) == packInfos

WithNew(p) == Append(packInfos, NewPack(p))

Copied(content) ==
  /\ zips' = [zips EXCEPT ![clock] = content]
  /\ SaveConfig(WithNew(clock), clock, TRUE)
  /\ UNCHANGED errorMessage

NotCopied(content) ==
  /\ zips' = CleanUp([zips EXCEPT ![clock] = content])
  /\ errorMessage' = "install"
  /\ pc' = "compose"
  /\ UNCHANGED <<toSave, target, thenLoad>>

(* What there may be of a file whose copy did not come to its end: some of *)
(* its bytes, and even all of them if it was close that threw.             *)
Parts(content) == IF content = "empty" THEN {"empty"} ELSE {"empty", "junk", "cut", content}

(* The copy and the reading of what was copied.                            *)
CopyPack ==
  /\ pc = "copy"
  /\ \/ /\ IF picked \in PageReads THEN Copied(picked) ELSE NotCopied(picked)
        /\ UNCHANGED faults
     \/ /\ Fault("copy")
        /\ \E part \in Parts(picked) : NotCopied(part)
  /\ UNCHANGED <<configFile, config, packInfos, cards, picked, clock, installed>>

\* Mutant: the filter keeps every pack.
Others_All(p) == packInfos

Others(p) == Subsequence(packInfos, {i \in DOMAIN packInfos : packInfos[i].path # p})

(* deletePack: File.delete may fail, which nobody asks.                    *)
DeletePack(p) ==
  /\ pc = "idle"
  /\ p \in DOMAIN cards
  /\ \/ zips' = [zips EXCEPT ![p] = "absent"] /\ UNCHANGED faults
     \/ Fault("delete") /\ UNCHANGED zips
  /\ SaveConfig(Others(p), p, FALSE)
  /\ installed' = installed \ {p}
  /\ UNCHANGED <<configFile, config, page, picked, clock>>

\* Mutant: disabled packs are counted too few.
EnabledCount_MinusOne == Cardinality({i \in DOMAIN packInfos : packInfos[i].isEnabled}) - 1

EnabledCount == Cardinality({i \in DOMAIN packInfos : packInfos[i].isEnabled})

WithEnabled(p, enabled) ==
  [i \in DOMAIN packInfos |->
     IF packInfos[i].path = p THEN [packInfos[i] EXCEPT !.isEnabled = enabled] ELSE packInfos[i]]

TogglePack(p, enabled) ==
  IF enabled /\ EnabledCount >= MaxEnabled
  THEN errorMessage' = "limit" /\ pc' = "compose" /\ UNCHANGED <<toSave, target, thenLoad>>
  ELSE SaveConfig(WithEnabled(p, enabled), p, TRUE) /\ UNCHANGED errorMessage

(* The switch of card p: it follows the card's own isEnabled.              *)
Switch(p) ==
  /\ pc = "idle"
  /\ p \in DOMAIN cards
  /\ ~(EnabledCount >= MaxEnabled /\ ~cards[p].isEnabled)
  /\ cards' = [cards EXCEPT ![p].isEnabled = ~@]
  /\ TogglePack(p, ~cards[p].isEnabled)
  /\ UNCHANGED <<disk, packInfos, picked, clock, installed, faults>>

\* Mutant: coerceIn(0, 5).
WithPriority_Short(p, new) ==
  [i \in DOMAIN packInfos |->
     IF packInfos[i].path = p
     THEN [packInfos[i] EXCEPT !.priority = IF new < MaxPriority THEN new ELSE MaxPriority - 1]
     ELSE packInfos[i]]

WithPriority(p, new) ==
  [i \in DOMAIN packInfos |->
     IF packInfos[i].path = p THEN [packInfos[i] EXCEPT !.priority = new] ELSE packInfos[i]]

(* The buttons that lower and raise the priority; an enabled card has them.*)
UpdatePriority(p, step) ==
  LET new == cards[p].priority + step
  IN  /\ pc = "idle"
      /\ p \in DOMAIN cards
      /\ cards[p].isEnabled
      /\ new \in 0 .. MaxPriority
      /\ cards' = [cards EXCEPT ![p].priority = new]
      /\ SaveConfig(WithPriority(p, new), p, TRUE)
      /\ UNCHANGED <<disk, packInfos, errorMessage, picked, clock, installed, faults>>

----------------------------------------------------------------------------
(* Composition.                                                            *)

Remembered(e) == [isEnabled |-> e.isEnabled, priority |-> e.priority]

(* A frame: an empty page loads config.json; cards are drawn unless there  *)
(* is an error to show; a card drawn before keeps what it remembers.       *)
Compose ==
  /\ pc = "compose"
  /\ IF packInfos = <<>> THEN LoadPackInfos ELSE UNCHANGED <<packInfos, errorMessage>>
  /\ cards' = [p \in IF errorMessage' = "none" THEN Paths(packInfos') ELSE {} |->
                 IF p \in DOMAIN cards THEN cards[p] ELSE Remembered(SettingOf(packInfos', p))]
  /\ pc' = "idle"
  /\ picked' = "empty" /\ toSave' = <<>> /\ target' = 1 /\ thenLoad' = FALSE
  /\ UNCHANGED <<disk, clock, installed, faults>>

(* A card scrolled out of the LazyColumn and back has forgotten.           *)
Scroll(p) ==
  /\ pc = "idle"
  /\ p \in DOMAIN cards
  /\ cards' = [cards EXCEPT ![p] = Remembered(SettingOf(packInfos, p))]
  /\ UNCHANGED <<disk, packInfos, errorMessage, handler, clock, installed, faults>>

(* The process ends, between two handlers or inside one, and starts again; *)
(* what was being copied is there in part.                                 *)
Restart ==
  /\ pc # "compose"
  /\ zips' \in IF pc = "copy" THEN {[zips EXCEPT ![clock] = part] : part \in Parts(picked)} ELSE {zips}
  /\ packInfos' = <<>> /\ errorMessage' = "none" /\ cards' = <<>>
  /\ pc' = "compose"
  /\ picked' = "empty" /\ toSave' = <<>> /\ target' = 1 /\ thenLoad' = FALSE
  /\ CASE pc = "idle"  -> UNCHANGED faults
       [] pc = "write" -> Fault("tear")
       [] OTHER        -> Fault("crash")
  /\ UNCHANGED <<configFile, config, clock, installed>>

Init ==
  /\ zips = [p \in Packs |-> "absent"]
  /\ configFile = "absent" /\ config = <<>>
  /\ packInfos = <<>> /\ errorMessage = "none" /\ cards = <<>>
  /\ pc = "compose"
  /\ picked = "empty" /\ toSave = <<>> /\ target = 1 /\ thenLoad = FALSE
  /\ clock = 0 /\ installed = {} /\ faults = {}

Next ==
  \/ \E content \in Contents : InstallPack(content)
  \/ CopyPack
  \/ \E p \in Packs : DeletePack(p)
  \/ \E p \in Packs : Switch(p)
  \/ \E p \in Packs, step \in {-1, 1} : UpdatePriority(p, step)
  \/ SaveOpen
  \/ SaveWrite
  \/ Saved
  \/ Compose
  \/ \E p \in Packs : Scroll(p)
  \/ Restart

Spec == Init /\ [][Next]_vars

----------------------------------------------------------------------------
(* Properties.                                                             *)

Distinct(s) == \A i, j \in DOMAIN s : s[i].path = s[j].path => i = j
EnabledIn(s) == {i \in DOMAIN s : s[i].isEnabled}

(* Every variable stays in its range, and no pack is listed twice.         *)
TypeOK ==
  /\ zips \in [Packs -> AllContents \union {"absent"}]
  /\ configFile \in {"absent", "torn", "whole"}
  /\ \A s \in {config, packInfos, toSave} : s \in Seq(Setting) /\ Distinct(s)
  /\ errorMessage \in {"none", "load", "save", "install", "limit"}
  /\ DOMAIN cards \subseteq Packs
  /\ \A p \in DOMAIN cards : cards[p] \in [isEnabled : BOOLEAN, priority : 0 .. MaxPriority]
  /\ pc \in {"idle", "copy", "open", "write", "saved", "compose"}
  /\ picked \in AllContents
  /\ target \in Packs
  /\ thenLoad \in BOOLEAN
  /\ clock \in 0 .. MaxInstalls
  /\ installed \subseteq Packs
  /\ faults \subseteq Faults

(* Never more than MaxEnabled packs are enabled, in memory or on disk,     *)
(* whatever fails: the game has no more languages to give to packs.        *)
EnabledCap ==
  \A s \in {packInfos, toSave, config} : Cardinality(EnabledIn(s)) <= MaxEnabled

(* As long as no save failed, the list the page shows is what config.json  *)
(* says of the zips that are there - over crashes and failed copies.       *)
ShownIsSaved ==
  pc = "idle" /\ No({"open", "write", "tear"}) =>
    ToSet(packInfos) = ToSet(Present)

(* As long as no save failed, each card shows what is stored for its pack: *)
(* a card remembers its switch and its priority and is not told of loads.  *)
CardsTrue ==
  pc = "idle" /\ No({"open", "write"}) =>
    \A p \in DOMAIN cards : cards[p] = Remembered(SettingOf(packInfos, p))

(* A pack whose installation came to its end stays listed in config.json   *)
(* until it is deleted, unless a save failed or a crash tore the file.     *)
InstalledListed ==
  pc = "idle" /\ No({"open", "write", "tear"}) => installed \subseteq Paths(config)

(* An installation is whole or leaves no entry: as long as nothing but     *)
(* copies failed, config.json lists exactly the packs whose installation   *)
(* came to its end and that were not deleted, and the page can read each.  *)
(* Zips that it can read and that are not listed are there only after a    *)
(* copy that failed: nothing ever lists them.                              *)
NoOrphans ==
  pc = "idle" /\ No(Faults \ {"copy"}) =>
    LET readable == {p \in Packs : Readable(p)}
    IN  /\ Paths(config) = installed
        /\ installed \subseteq readable
        /\ "copy" \notin faults => installed = readable
=============================================================================
