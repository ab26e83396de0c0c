SPECIFICATION SnakeSpec
CONSTANTS
  Clients = {c1, c2}
  MAP_H = 4
  MAP_W = 5
  Options <- OptionsOf
  MaxQueue = 1
  MaxFrames = 4
INVARIANTS SnakeTypeOK BoardConsistent BodyConnected BoardsAgree
CHECK_DEADLOCK FALSE
SYMMETRY Symmetry
