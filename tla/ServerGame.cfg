SPECIFICATION FairServerSpec
CONSTANTS
  Cids = {0, 1, 2}
  Names = {"n1"}
  Gids = {1, 2, 3, 4, 5}
  MaxFrames = 1
  Clients = {p1, p2}
  NoClient = NoClient
  Fds = {1, 2}
  Accounts = {"123", "456"}
  AccountsOf <- OneAndAny
  TestAccounts <- TwoAccounts
  MaxRequests = 7
  MaxIdStep = 1
  MaxFailures = 0
  Faults = {"exit"}
  Faulty = {p1, p2}
INVARIANTS SeatHeld LoggedInIsOnline
PROPERTIES AllPlayersNotified RequestsAnswered
CHECK_DEADLOCK FALSE
