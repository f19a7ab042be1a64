\* Algorithm of the mod, its statics being one object.
CONSTANTS
  W = 4
  H = 3
  TileTypes = {0, 1, 6}
  Air = 0
  WhiteList = {6}
  Neighborhood = "Moore"
  RemoveInterval = 2
  RemovePerInterval = 2
  Layouts <- MCLayouts
  Picks = {0, 35}
  OneCopy = TRUE
  EditCells = {2, 6}
  MaxEdits = 1
SPECIFICATION Spec
INVARIANTS TypeOK NoDuplicates SearchClosed MineFindsVein
PROPERTIES KillsQueued FramePacing QueueDrains
CHECK_DEADLOCK FALSE
