\* Two of three packs can be enabled, there are two languages.
CONSTANTS
  MaxEnabled = 2
  MaxPriority = 1
  MaxInstalls = 3
  MaxFaults = 1
  NameRank <- MCNameRank
  Contents = {"cut", "loadable"}
  Codes = 2
  Cultures = {"en", "de"}
  Default = "en"
  CultureOf <- MCCultureOf
  CommonName = {"Base"}
  PackInfo <- MCPackInfo
SPECIFICATION BothSpec
INVARIANTS EnabledServed PageOrderKept NoGhostPack
