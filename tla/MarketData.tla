----------------------------- MODULE MarketData -----------------------------
(***************************************************************************)
(* The market data consensus.py decides with: the volatility behind the    *)
(* stops, the market regime, and the costs of a trade.                     *)
(*                                                                         *)
(* Fractions of a price, costs and funding rates are in basis points,      *)
(* shares and ratios in hundredths, confidences in thousandths, times in   *)
(* seconds, hold times in hours.                                           *)
(***************************************************************************)
EXTENDS Integers, FiniteSets, FiniteSetsExt

CONSTANTS
  ATR_STRICT_MODE, ATR_MULTIPLIER, ATR_FALLBACK,
  REGIME_MIN_CANDLES, REGIME_TREND_THRESHOLD,   \* candles, bps
  REGIME_VOLATILITY_HIGH_MULT, REGIME_VOLATILITY_LOW_MULT,
  REGIME_CACHE_TTL_SECONDS,
  MIN_SIGNAL_CONFIDENCE,
  FUNDING_CACHE_TTL_SECONDS, SLIPPAGE_CACHE_TTL_SECONDS, HOLD_TIME_CACHE_TTL_SECONDS,
  DEFAULT_HOLD_HOURS, MIN_EPISODES_FOR_ESTIMATE

ASSUME MarketDataAssumption ==
  /\ ATR_STRICT_MODE \in BOOLEAN /\ REGIME_CACHE_TTL_SECONDS \in Nat

FUNDING_INTERVAL_HOURS == 8
DefaultFunding == 8
Absent == 0          \* of a quote that is positive when there is one

--------------------------------------------------------------------------
\* Volatility.  What marks_1m holds of an asset: the ATR it stores, the one
\* its last candles give, the realized volatility of a day; bps of the price.

Measured(source, atr) == [source |-> source, stop |-> atr * ATR_MULTIPLIER]

\* HyperliquidATRProvider.get_atr without a cached value: the first source
\* that answers; a failing database answers nothing.
ProviderATR(marks) ==
  IF marks.atr14 # Absent THEN Measured("db", marks.atr14)
  ELSE IF marks.candles # Absent THEN Measured("calculated", marks.candles)
  ELSE IF marks.realized # Absent THEN Measured("realized_vol", marks.realized)
  ELSE Measured("fallback_hardcoded", ATR_FALLBACK)

is_data_driven(atr) == atr.source \in {"db", "api", "calculated", "realized_vol"}

\* ATRManager.get_atr for the target exchange the detector starts with, which
\* is also the manager's default.
ManagerATR(marks) ==
  LET atr == ProviderATR(marks)
  IN  IF is_data_driven(atr) THEN atr ELSE Measured("fallback_hardcoded", ATR_FALLBACK)

\* Slip: blocks outside strict mode only.
BlockUnlessStrict(atr) == ~ATR_STRICT_MODE /\ atr.source = "fallback_hardcoded"

should_block_gate(atr) == ATR_STRICT_MODE /\ atr.source = "fallback_hardcoded"

--------------------------------------------------------------------------
\* The regime.  A view of the market is what the last candles show:
\* [candles, spread, ratio, range], a spread of the two averages and a price
\* range in bps, a ratio of two volatilities in hundredths; each of the three
\* is a set, empty when it cannot be calculated: too few candles, candles
\* without prices, or a volatility or range of zero.

Regime == {"trending", "ranging", "volatile", "unknown"}

Scores(view) ==
  LET trend  == \E s \in view.spread : Max({s, -s}) > REGIME_TREND_THRESHOLD
      flat   == \E s \in view.spread : 2 * Max({s, -s}) < REGIME_TREND_THRESHOLD
      high   == \E r \in view.ratio : r > REGIME_VOLATILITY_HIGH_MULT
      low    == \E r \in view.ratio : r < REGIME_VOLATILITY_LOW_MULT
      normal == view.ratio # {} /\ ~high /\ ~low
      wide   == \E r \in view.range : r > 300
      tight  == \E r \in view.range : r < 100
      points(cond, n) == IF cond THEN n ELSE 0
  IN  [trending |-> points(trend, 40) + points(low, 10) + points(normal, 15) + points(wide, 20),
       ranging  |-> points(flat, 30) + points(low, 20) + points(normal, 15) + points(tight, 30),
       volatile |-> points(high, 40) + points(wide, 20)]

\* The highest score of at least 30, the first of equals; volatile outright
\* when the ratio exceeds two.
_classify_regime(view) ==
  LET s == Scores(view)
      top == Max({s.trending, s.ranging, s.volatile})
  IN  IF \E r \in view.ratio : r > 200 THEN "volatile"
      ELSE IF top < 30 THEN "unknown"
      ELSE IF s.trending = top THEN "trending"
      ELSE IF s.ranging = top THEN "ranging" ELSE "volatile"

RegimeOf(view) ==
  IF view.candles < REGIME_MIN_CANDLES THEN "unknown" ELSE _classify_regime(view)

\* REGIME_PARAMS: hundredths of the stop, added confidence.
StopMultiplier(regime) ==
  CASE regime = "trending" -> 120 [] regime = "ranging" -> 80
    [] regime = "volatile" -> 150 [] OTHER -> 100
ConfidenceAdjustment(regime) ==
  CASE regime = "trending" -> 0 [] regime = "volatile" -> 100 [] OTHER -> 50

get_regime_adjusted_stop(stop, regime) == (stop * StopMultiplier(regime)) \div 100

get_regime_adjusted_confidence(regime) ==
  Min({MIN_SIGNAL_CONFIDENCE + ConfidenceAdjustment(regime), 950})

--------------------------------------------------------------------------
\* Costs.  quotes holds what was cached when the process started, at
\* quotes.at; only for Hyperliquid, the detector's target at that time.

Cached(quotes, exchange, ttl, now) ==
  /\ exchange = "hyperliquid"
  /\ quotes.at >= 0 /\ now - quotes.at <= ttl

get_exchange_fees_bps(exchange) == IF exchange = "bybit" THEN 12 ELSE 10

\* _compute_estimate: the median of the closed episodes when there are enough.
_compute_estimate(episodes, median) ==
  IF episodes < MIN_EPISODES_FOR_ESTIMATE THEN DEFAULT_HOLD_HOURS ELSE median

\* get_hold_time_sync, called without an exchange
get_dynamic_hold_hours_sync(quotes, now) ==
  IF Cached(quotes, "hyperliquid", HOLD_TIME_CACHE_TTL_SECONDS, now)
  THEN quotes.hold ELSE DEFAULT_HOLD_HOURS

\* cost_for_hold_time: shorts receive what longs pay.
cost_for_hold_time(rate, hours, side) ==
  LET cost == (rate * hours) \div FUNDING_INTERVAL_HOURS
  IN  IF side = "short" THEN -cost ELSE cost

get_funding_cost_bps_sync(quotes, exchange, hours, side, now) ==
  cost_for_hold_time(IF Cached(quotes, exchange, FUNDING_CACHE_TTL_SECONDS, now)
                     THEN quotes.funding ELSE DefaultFunding, hours, side)

\* For the reference order of $10k; the rates of BTC, rounded up.
get_slippage_estimate_bps_sync(quotes, exchange, now) ==
  IF quotes.slippage # Absent /\ Cached(quotes, exchange, SLIPPAGE_CACHE_TTL_SECONDS, now)
  THEN quotes.slippage ELSE 2
=============================================================================
