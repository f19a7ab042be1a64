\* Three packs in some order, any of them disabled.
CONSTANTS
  Game = Game
  NoTexture = NoTexture
  PackFiles = {"a", "b", "d"}
  Keys = {"x", "y", "z"}
  Entries <- MCEntries
  Configs <- MCConfigs
SPECIFICATION Spec
INVARIANTS TypeOK FirstPackFirst AnswersFromFirst PairsLoaded
PROPERTIES LoadingEnds ImplementsService
CHECK_DEADLOCK FALSE
