SPECIFICATION RoomsSpec
CONSTANTS
  Cids = {1, 2, 3}
  Names = {n1, n2}
  Gids = {1, 2, 3}
  MaxFrames = 2
INVARIANTS RoomsTypeOK MapsAgree OwnerIsReadyPlayer NamesUnique
PROPERTIES OwnerStaysWhilePresent
CHECK_DEADLOCK FALSE
