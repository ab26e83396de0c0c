SPECIFICATION TreeSpec
CONSTANTS
  Nodes = {1, 2, 3, 4, 5, 6, 7, 8}
  Data <- DataOf
  High <- HighOf
  NIL = NIL
  Null = Null
INVARIANTS TreeTypeOK ContentsKept RanksRight SearchesRight PrintsInOrder
CHECK_DEADLOCK FALSE
