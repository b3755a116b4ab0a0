--------------------------- MODULE ConsensusMath ---------------------------
(***************************************************************************)
(* The arithmetic of consensus.py: votes and their weights, the effective  *)
(* number of independent voters, the estimated win probability, and the    *)
(* expected value after costs.                                             *)
(*                                                                         *)
(* Reals become integers of a fixed scale: weights and correlations are in *)
(* hundredths, the effective K in hundredths, probabilities and R-units in *)
(* thousandths, fractions of a price in basis points.  Division truncates. *)
(***************************************************************************)
EXTENDS Integers, FiniteSets, FiniteSetsExt

CONSTANTS
  LogWeight(_),      \* 100 * log(1 + notional / VOTE_WEIGHT_LOG_BASE) / 4
  CONSENSUS_MIN_AGREEING, CONSENSUS_MIN_PCT, \* voters, percent
  CONSENSUS_BASE_WINDOW_S,
  CONSENSUS_MAX_PRICE_DRIFT_R,               \* thousandths of R
  DEFAULT_CORRELATION, NON_HL_DEFAULT_CORRELATION

Abs(x) == IF x < 0 THEN -x ELSE x
Clamp(lo, x, hi) == Max({lo, Min({x, hi})})

\* A vote is [address, direction, weight, price, ts].
Addresses(votes) == {v.address : v \in votes}
TotalWeight(votes) == MapThenSumSet(LAMBDA v : v.weight, votes)

calculate_vote_weight(notional) ==
  IF notional <= 0 THEN 0 ELSE Min({LogWeight(notional), 100})

\* statistics.median of the prices.
MedianPrice(votes) ==
  LET n == Cardinality(votes)
      prices == {v.price : v \in votes}
      low  == Min({p \in prices : 2 * Cardinality({v \in votes : v.price <= p}) >= n})
      high == Max({p \in prices : 2 * Cardinality({v \in votes : v.price >= p}) >= n})
  IN  (low + high) \div 2

Side(votes, d) == {v \in votes : v.direction = d}

\* A tie is a long majority.
MajorityDirection(votes) ==
  IF Cardinality(Side(votes, "long")) >= Cardinality(Side(votes, "short"))
  THEN "long" ELSE "short"

Agreeing(votes) == Side(votes, MajorityDirection(votes))

passes_consensus_gates(votes) ==
  /\ votes # {}
  /\ Cardinality(Agreeing(votes)) >= CONSENSUS_MIN_AGREEING
  /\ 100 * Cardinality(Agreeing(votes)) >= CONSENSUS_MIN_PCT * Cardinality(votes)

\* The matrix is keyed by the sorted pair: by the set of the two addresses.
Rho(matrix, default, a, b) ==
  IF a = b THEN 100
  ELSE IF {a, b} \in DOMAIN matrix THEN Clamp(0, matrix[{a, b}], 100) ELSE default

DefaultRho(exchange) ==
  IF exchange = "hyperliquid" THEN DEFAULT_CORRELATION ELSE NON_HL_DEFAULT_CORRELATION

\* (sum of w)^2 / sum of w_a * w_b * rho_ab
eff_k_from_corr(votes, matrix, exchange) ==
  LET weightedBy(a) == MapThenSumSet(
        LAMBDA b : a.weight * b.weight
                     * Rho(matrix, DefaultRho(exchange), a.address, b.address), votes)
      den == MapThenSumSet(weightedBy, votes)
      w   == TotalWeight(votes)
  IN  IF Cardinality(votes) <= 1 THEN 100 * Cardinality(votes)
      ELSE (100 * 100 * w * w) \div Max({den, 1})

calibrated_p_win(votes, k) ==
  LET bonusK == Min({150, (k - 100) \div 2})
      bonusW == Min({100, TotalWeight(votes) \div 5})
  IN  IF votes = {} THEN 500 ELSE Clamp(300, 500 + bonusK + bonusW, 800)

bps_to_R(entry, stop, bps) ==
  IF entry <= 0 THEN 0
  ELSE (1000 * bps) \div Max({(10000 * Abs(entry - stop)) \div entry, 1})

\* With the default average win of 0.5R and loss of 0.3R.
calculate_ev(p, entry, stop, fees, slip, funding) ==
  (500 * p - 300 * (1000 - p)) \div 1000 - bps_to_R(entry, stop, fees + slip + funding)

\* The price has moved at most CONSENSUS_MAX_PRICE_DRIFT_R stop distances.
WithinPriceBand(entry, mid, fraction) ==
  /\ entry > 0 /\ mid > 0
  /\ 1000 * 10000 * Abs(mid - entry) <= CONSENSUS_MAX_PRICE_DRIFT_R * fraction * entry

StopPrice(entry, fraction, d) ==
  LET distance == (entry * fraction) \div 10000
  IN  IF d = "long" THEN entry - distance ELSE entry + distance
=============================================================================
