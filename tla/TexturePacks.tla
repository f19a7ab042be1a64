--------------------------- MODULE TexturePacks ---------------------------
(***************************************************************************)
(* The page and the game over one disk: the player sets packs up on the    *)
(* page (TexturePage) and plays, with the textures the game takes from     *)
(* config.json and the zips (TextureLoader).  The page is not used while   *)
(* the game runs; the game may start after a crash of the page and before  *)
(* it is opened again.                                                     *)
(***************************************************************************)
EXTENDS TexturePage

CONSTANTS
  EntriesOf,               \* the files of a zip, by its content
  Keys, Game, NoTexture    \* see TextureLoader

VARIABLES
  phase, packJobs, taken, TexturePacks, decodeJobs, decodeResults,
  redirectMap_unity, redirectMap, answers, made, unconverted   \* see TextureLoader

(* A zip is known to the game by its name and what is in it.               *)
ZipFiles == Packs \X (AllContents \union {"absent"})

OnDisk ==
  [file  |-> configFile,
   items |-> [i \in DOMAIN config |-> [config[i] EXCEPT !.file = <<config[i].file, zips[config[i].file]>>]]]

Loader == INSTANCE TextureLoader
            WITH PackFiles <- ZipFiles, Entries <- [f \in ZipFiles |-> EntriesOf[f[2]]],
                 Configs <- {}, config <- OnDisk

(* A zip that is gone cannot be opened; a texture is not a zip.            *)
ASSUME PacksAssumption ==
  /\ \A content \in AllContents \union {"absent"} : EntriesOf[content] \in Seq(Loader!Entry)
  /\ EntriesOf["absent"] = <<>>
  /\ {Game, NoTexture} \intersect ZipFiles = {} /\ Game # NoTexture

loader  == <<phase, packJobs, taken, TexturePacks, decodeJobs, decodeResults,
             redirectMap_unity, redirectMap, answers, made, unconverted>>
allVars == <<vars, loader>>

UsePage == phase = "start" /\ Next /\ UNCHANGED loader

Play == pc \in {"idle", "compose"} /\ UNCHANGED vars /\ Loader!Next

(* The game ends, of its own or where it stands, and can be started again. *)
Leave ==
  /\ phase \in {"running", "terminated", "starved"}
  /\ phase' = "start"
  /\ packJobs' = <<>> /\ taken' = 0 /\ TexturePacks' = <<>> /\ decodeJobs' = <<>>
  /\ decodeResults' = <<>>
  /\ redirectMap_unity' = <<>> /\ redirectMap' = <<>> /\ answers' = <<>>
  /\ made' = {} /\ unconverted' = {}
  /\ UNCHANGED vars

BothInit == Init /\ Loader!Off

BothNext == UsePage \/ Play \/ Leave

BothSpec == BothInit /\ [][BothNext]_allVars

----------------------------------------------------------------------------
(* Properties.                                                             *)

Has(p, k) ==
  /\ zips[p] # "absent"
  /\ [key |-> k, decodes |-> TRUE] \in
       ToSet(Loader!GetTextures([file |-> <<p, zips[p]>>, type |-> detectPackType(zips[p])]))

(* What the player sees is what decides: if the page shows no error, then  *)
(* of the packs it shows as enabled the topmost with a texture for a path  *)
(* is the one the game loads for it, and without one the game keeps its    *)
(* own.                                                                    *)
PageDecides ==
  phase = "ready" /\ pc = "idle" /\ errorMessage = "none" =>
    \A k \in Keys :
      LET offered == {i \in DOMAIN packInfos : packInfos[i].enable /\ Has(packInfos[i].file, k)}
          loaded  == {j \in DOMAIN decodeResults : decodeResults[j].contentKey = k /\ decodeResults[j].success}
      IN  /\ offered = {} <=> loaded = {}
          /\ offered # {} => decodeResults[Min(loaded)].pack[1] = packInfos[Min(offered)].file

(* The game comes up whatever the page did, was killed at or failed to     *)
(* write - an emptied config.json included - unless a write was cut off    *)
(* in the middle of the text, or there are not threads enough (starved).   *)
GameStarts == phase = "terminated" => "tear" \in faults

(* A pack that was deleted has no texture in the game, although the zip or *)
(* the entry may have been left behind: that takes two faults, one for     *)
(* each.                                                                   *)
DeletedGone ==
  phase = "ready" /\ Cardinality(faults) <= 1 =>
    \A j \in DOMAIN decodeResults : decodeResults[j].pack[1] \notin deleted
=============================================================================
