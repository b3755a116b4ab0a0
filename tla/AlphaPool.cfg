SPECIFICATION Spec
CONSTANTS
  Trader <- MCTrader
  Request = {"post"}
  RequestLimit = 2
  ALPHA_POOL_DEFAULT_SIZE = 1
  BANDIT_SELECT_K = 1
  CandidatesPerPlace = 2
  PollLimit = 1
  Boards <- MCBoards
  InitialFills <- MCInitialFills
  HistoryLength = 1
  Transaction <- MCTransaction
  Posteriors <- MCPosteriors
  MaxSlots = 1
  MaxFills = 1
  MaxEvents = 1
CHECK_DEADLOCK FALSE
PROPERTIES PoolFollowsBoard SubscriptionsFollow 
