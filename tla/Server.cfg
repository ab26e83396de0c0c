SPECIFICATION FairServerSpec
CONSTANTS
  Cids = {0, 1, 2}
  Names = {"n1"}
  Gids = {1, 2, 3}
  MaxFrames = 1
  Clients = {p1, p2}
  NoClient = NoClient
  Fds = {1, 2}
  Accounts = {"123", "456"}
  AccountsOf <- AnyAccount
  TestAccounts <- OneAccount
  MaxRequests = 3
  MaxIdStep = 1
  MaxFailures = 2
  Faults = {"exit", "timeout", "crash", "split"}
  Faulty = {p1}
PROPERTIES RequestsAnswered
INVARIANTS ServerTypeOK OnlineUnique RepliesInRequestOrder
CHECK_DEADLOCK FALSE
