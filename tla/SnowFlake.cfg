SPECIFICATION SnowFlakeSpec
CONSTANTS
  Threads = {1, 2}
  MaxSerial = 1
  SecondLen = 3
  MaxTime = 7
  MaxIds = 4
INVARIANTS SnowFlakeTypeOK IncreasingUntilExhausted IncreasingForOneCaller
CHECK_DEADLOCK FALSE
