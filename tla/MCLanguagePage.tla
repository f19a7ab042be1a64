--------------------------- MODULE MCLanguagePage ---------------------------
(* Three installs, the third pack has the name of the first.               *)
EXTENDS LanguagePage

MCNameRank == <<2, 1, 2>>
=============================================================================
