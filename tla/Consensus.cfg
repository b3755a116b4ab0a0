SPECIFICATION Spec
CONSTANTS
  LogWeight <- MCLogWeight
  CONSENSUS_MIN_AGREEING = 3
  CONSENSUS_MIN_PCT = 70
  CONSENSUS_BASE_WINDOW_S = 120
  CONSENSUS_MAX_PRICE_DRIFT_R = 250
  DEFAULT_CORRELATION = 30
  NON_HL_DEFAULT_CORRELATION = 50
  Trader <- MCTrader
  DayLength = 160
  CORR_MIN_COMMON_BUCKETS = 2
  Decay <- MCDecay
  Postures <- MCPostures
  TickSeconds = 160
  CORR_LOOKBACK_DAYS = 30
  MaxTime = 160
  MaxPostures = 1
  MaxLeaves = 0
  MaxFaults = 1
  MaxRequests = 0
  ATR_STRICT_MODE = TRUE
  ATR_MULTIPLIER = 2
  ATR_FALLBACK = 40
  REGIME_MIN_CANDLES = 50
  REGIME_TREND_THRESHOLD = 200
  REGIME_VOLATILITY_HIGH_MULT = 150
  REGIME_VOLATILITY_LOW_MULT = 70
  REGIME_CACHE_TTL_SECONDS = 100
  MIN_SIGNAL_CONFIDENCE = 550
  FUNDING_CACHE_TTL_SECONDS = 300
  SLIPPAGE_CACHE_TTL_SECONDS = 60
  HOLD_TIME_CACHE_TTL_SECONDS = 300
  DEFAULT_HOLD_HOURS = 24
  MIN_EPISODES_FOR_ESTIMATE = 10
  CONSENSUS_MIN_TRADERS = 3
  CONSENSUS_MIN_EFFECTIVE_K = 200
  CONSENSUS_EV_MIN_R = 50
  MIN_SIGNAL_EV_R = 50
  CONSENSUS_MAX_STALENESS_PCT = 125
  VENUE_SELECTION_EXCHANGES <- MCVenues
  TargetExchange = "hyperliquid"
  Size = 1
  Price = {10000}
  Restored <- MCRestored
  Marks <- MCMarks
  Quotes <- MCQuotes
  Views <- MCViews
  MaxFills = 2
  MaxViews = 1
  MaxFailures = 1
CONSTRAINT SignalPossible
ACTION_CONSTRAINT ReplayBeforeFill
CHECK_DEADLOCK FALSE
INVARIANTS NoSignalOnGuessedVolatility
PROPERTIES ClonesNeverSignal RegimeRespected
