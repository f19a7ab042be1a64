--------------------------- MODULE MCTerraFormats ---------------------------
EXTENDS TerraFormats

MCNameRank == <<2, 1, 2>>

MCCultureOf == <<"en", "de">>

MCPackInfo ==
  [p \in 1 .. 3 |-> [isCommon |-> TRUE, autocomplete |-> "en", files |-> {"Base"}, baseParses |-> TRUE]]
=============================================================================
