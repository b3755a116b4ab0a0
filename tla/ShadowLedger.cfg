SPECIFICATION Spec
CONSTANTS
  Trader = {t1, t2}
  Pinned = {t1}
  PValue <- MCPValue
  R <- MCR
  Account = {100, 15}
  SNAPSHOT_MIN_EPISODES = 1
  SNAPSHOT_FDR_ALPHA = 10
  SNAPSHOT_MIN_AVG_R_NET = 5
  CostR = 15
  SelectionSize = 1
  DEATH_ACCOUNT_FLOOR = 10
  DEATH_DRAWDOWN_PCT = 80
  MaxDate = 3
  MaxEvents = 2
CHECK_DEADLOCK FALSE
INVARIANTS NoSurvivorshipBias FDRControlled
