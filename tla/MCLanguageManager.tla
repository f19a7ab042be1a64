------------------------- MODULE MCLanguageManager -------------------------
(***************************************************************************)
(* Three languages can be given to packs, a fourth cannot.  Of the four    *)
(* packs 1 translates every file, 2 one, 3 is of another type and 4 has a  *)
(* Base.json that does not parse.                                          *)
(***************************************************************************)
EXTENDS LanguageManager

MCCultureOf == <<"en", "de", "it">>

MCPackInfo ==
  << [isCommon |-> TRUE, autocomplete |-> "zh", files |-> {"Base", "Items"}, baseParses |-> TRUE],
     [isCommon |-> TRUE, autocomplete |-> "en", files |-> {"Items"}, baseParses |-> TRUE],
     [isCommon |-> FALSE, autocomplete |-> "de", files |-> {"Base"}, baseParses |-> TRUE],
     [isCommon |-> TRUE, autocomplete |-> "en", files |-> {"Base"}, baseParses |-> FALSE] >>

Entry(p, enabled, priority) == [path |-> p, isEnabled |-> enabled, priority |-> priority]

(* Some packs enabled, in some order of priority, and zips of every kind.  *)
MCDisks ==
  {[zips |-> z, configFile |-> "whole",
    config |-> <<Entry(1, TRUE, a), Entry(2, TRUE, b), Entry(3, c, 1), Entry(4, d, 0)>>] :
       z \in {<<x, "loadable", "loadable", y>> : x \in {"loadable", "rejected", "absent"},
                                                 y \in {"loadable", "bare", "junk", "cut"}},
       a \in {0, 2}, b \in {0, 1}, c \in BOOLEAN, d \in BOOLEAN}
  \union {[zips |-> <<"loadable", "empty", "absent", "absent">>, configFile |-> f, config |-> <<>>] :
             f \in {"absent", "torn"}}
=============================================================================
