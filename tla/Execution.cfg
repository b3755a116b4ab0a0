SPECIFICATION Spec
CONSTANTS
  Venue = {"hyperliquid", "bybit"}
  Symbol = {s1, s2, s3}
  DayLength = 2
  KILL_SWITCH_COOLDOWN = 2
  DAILY_DRAWDOWN_KILL_PCT = 5
  MIN_EQUITY_FLOOR = 10
  MAX_POSITION_SIZE_PCT = 10
  MAX_TOTAL_EXPOSURE_PCT = 50
  MAX_CONCURRENT_POSITIONS = 2
  MAX_EXPOSURE_PCT = 50
  Equity = {9, 19, 20}
  StartEquity <- MCStartEquity
  Sizes = {1, 3}
  Setups <- MCSetups
  MaxTime = 3
  MaxSignals = 3
  MaxMoves = 1
  MaxFaults = 1
SYMMETRY Symmetry
CHECK_DEADLOCK FALSE
INVARIANTS WithinLimits LogTellsTruth
PROPERTIES KillSwitchHolds LossRemembered
