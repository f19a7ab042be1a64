\* Two copies, one texture; any number of faults of any two kinds.
CONSTANTS
  Game = Game
  NoTexture = NoTexture
  MaxInstalls = 2
  MaxFaults = 2
  Contents = {"junk", "bare", "standardCut", "tlCut", "standard", "tl"}
  Keys = {"x", "y"}
  EntriesOf <- MCEntriesOf
SPECIFICATION BothSpec
INVARIANTS TypeOK ShownIsSaved CardsTrue PageDecides GameStarts DeletedGone
