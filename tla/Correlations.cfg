SPECIFICATION CorrelationsSpec
CONSTANTS
  LogWeight <- MCLogWeight
  CONSENSUS_MIN_AGREEING = 3
  CONSENSUS_MIN_PCT = 70
  CONSENSUS_BASE_WINDOW_S = 120
  CONSENSUS_MAX_PRICE_DRIFT_R = 250
  DEFAULT_CORRELATION = 30
  NON_HL_DEFAULT_CORRELATION = 50
  Trader <- MCTrader
  DayLength = 60
  CORR_MIN_COMMON_BUCKETS = 2
  Decay <- MCDecay
  Postures <- MCPostures
  TickSeconds = 60
  CORR_LOOKBACK_DAYS = 0
  MaxTime = 60
  MaxPostures = 1
  MaxLeaves = 1
  MaxFaults = 1
  MaxRequests = 1
CHECK_DEADLOCK FALSE
PROPERTIES RefreshReachesDetector
