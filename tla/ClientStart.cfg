SPECIFICATION ClientSpec
CONSTANTS
  MaxRequests = 2
  MaxStarts = 2
PROPERTIES AnnouncedGameStarts
CHECK_DEADLOCK FALSE
