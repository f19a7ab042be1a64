\* Two languages and priorities 0 and 1 stand for seven each.
CONSTANTS
  MaxEnabled = 2
  MaxPriority = 1
  MaxInstalls = 3
  MaxFaults = 2
  NameRank <- MCNameRank
  Contents = {"empty", "junk", "loadable"}
SPECIFICATION Spec
INVARIANTS TypeOK EnabledCap ShownIsSaved CardsTrue InstalledListed NoOrphans
