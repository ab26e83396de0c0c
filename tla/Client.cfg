SPECIFICATION ClientSpec
CONSTANTS
  MaxRequests = 6
  MaxStarts = 2
INVARIANTS NothingLeftBehind FlagMeansNotification MenuMeansNotReady
PROPERTIES RequestEnds WaitingPlayerPlays
CHECK_DEADLOCK FALSE
