\* Which tool starts a search.
CONSTANTS
  W = 4
  H = 3
  TileTypes = {0, 1, 6}
  Air = 0
  WhiteList = {6}
  Neighborhood = "Moore"
  RemoveInterval = 2
  RemovePerInterval = 2
  Layouts <- MCLayouts
  Picks = {0, 35}
  OneCopy = TRUE
  EditCells = {2, 6}
  MaxEdits = 1
SPECIFICATION Spec
PROPERTIES PickaxeMines
CHECK_DEADLOCK FALSE
