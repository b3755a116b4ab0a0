----------------------------- MODULE Consensus -----------------------------
(***************************************************************************)
(* The consensus signals of hl-decide for BTC: from the open episodes of   *)
(* the traders, through the gates of check_episode_consensus, to the       *)
(* published and stored signal.                                            *)
(*                                                                         *)
(* One fill is handled at a time; the handler awaits the regime, the log,  *)
(* the executor, NATS and the database, and in between the correlation     *)
(* runs, the reconciliation, time and crashes go on.  The volatility and   *)
(* the quotes are those of the last start-up.                              *)
(***************************************************************************)
EXTENDS Correlations, MarketData

CONSTANTS
  CONSENSUS_MIN_TRADERS, CONSENSUS_MIN_EFFECTIVE_K, CONSENSUS_EV_MIN_R,
  MIN_SIGNAL_EV_R, CONSENSUS_MAX_STALENESS_PCT, \* hundredths of the window
  VENUE_SELECTION_EXCHANGES, \* a sequence
  TargetExchange,    \* exchange of execution_config
  Size,              \* of every episode
  Price,             \* prices of fills
  Restored,          \* open episodes that unclaimed stored fills may build
  Marks, Quotes,     \* what start-up may read
  Views,             \* what the candles may show
  MaxFills, MaxViews, MaxFailures   \* bounds

NoPosition == [direction |-> "none"]
Episodes(times) == [direction : {"long", "short"}, price : Price, ts : times]

ASSUME ConsensusAssumption ==
  /\ IsFiniteSet(Trader) /\ Price \subseteq Nat \ {0} /\ Size \in Nat \ {0}
  /\ \A price \in Price : LogWeight(Size * price) \in Nat
  /\ Restored \subseteq [Trader -> {NoPosition} \cup Episodes(Nat)]
  /\ \A q \in Quotes : {"funding", "slippage", "episodes", "median"} \subseteq DOMAIN q
  /\ {CONSENSUS_MIN_TRADERS, CONSENSUS_MIN_EFFECTIVE_K, CONSENSUS_MAX_STALENESS_PCT,
      CONSENSUS_BASE_WINDOW_S} \subseteq Nat

NoSignal == [pc |-> "idle"]
NoCandles == [candles |-> 0]

VARIABLES
  position,   \* open episode of each trader
  mid,        \* current_prices of the detector; 0 without a fill
  atr,        \* stop_fractions and atr_validity, with the source they came from
  quotes,     \* funding, order book and hold time read at start-up
  view,       \* what the candles show now
  cache,      \* RegimeDetector._cache
  handler,    \* the signal the fill handler is at work on
  lastHeld,   \* history: when a view was last the market's, or could not be read
  fills, views, failures

marketVars == <<view, lastHeld, views>>
countVars == <<fills, failures>>
bootVars == <<atr, quotes>>
consensusVars == <<position, mid, cache, handler, countVars, bootVars>>
vars == <<correlationsVars, marketVars, consensusVars>>

TypeOK ==
  /\ CorrelationsTypeOK
  /\ position \in [Trader -> {NoPosition} \cup Episodes(0 .. now)]
  /\ mid \in Price \cup {0} /\ view \in Views
  /\ handler.pc \in {"idle", "regime", "log", "execute", "publish", "insert"}
  /\ handler.pc # "idle" =>
       /\ handler.k >= 100 /\ handler.k <= 100 * Cardinality(handler.voters)
       /\ handler.p \in 300 .. 800

NoATR == [source |-> "none", stop |-> 100, valid |-> TRUE]
NoCache == [at |-> Never]
NoQuotes == [at |-> Never]

Init ==
  /\ CorrelationsInit
  /\ position = [t \in Trader |-> NoPosition] /\ mid = 0
  /\ atr = NoATR /\ quotes = NoQuotes
  /\ view \in Views
  /\ lastHeld = [v \in Views \cup {NoCandles} |-> IF v = view THEN 0 ELSE Never]
  /\ cache = NoCache /\ handler = NoSignal
  /\ fills = 0 /\ views = 0 /\ failures = 0

--------------------------------------------------------------------------
\* The regime

\* Slip: a cached regime never expires.
FreshForEver == cache # NoCache

\* _get_cached
Fresh == cache # NoCache /\ now - cache.at <= REGIME_CACHE_TTL_SECONDS

\* detect_regime: the cached regime, or what the candles show now; a failing
\* database shows no candles.  Either is cached.
detect_regime(regime, readable) ==
  IF Fresh THEN /\ regime = cache.regime /\ UNCHANGED <<cache, lastHeld>>
  ELSE LET seen == IF readable THEN view ELSE NoCandles
       IN  /\ regime = RegimeOf(seen)
           /\ cache' = [regime |-> regime, at |-> now]
           /\ lastHeld' = [lastHeld EXCEPT ![seen] = now]

--------------------------------------------------------------------------
\* The process

\* update_atr_for_consensus for BTC: the stop, adjusted to the regime and
\* clamped by set_stop_fraction, and whether it may be used.
update_atr(marks, regime) ==
  LET measured == ManagerATR(marks)
  IN  [source |-> measured.source,
       stop |-> Clamp(10, get_regime_adjusted_stop(measured.stop, regime), 1000),
       valid |-> ~should_block_gate(measured)]

\* A call answers, or a failure of the budget is spent.
Answers(ok) ==
  /\ ok \/ faults + failures < MaxFailures
  /\ failures' = failures + (IF ok THEN 0 ELSE 1)

\* update_funding_for_consensus, update_orderbooks_for_slippage and the hold
\* times: one read of the funding, the book and the closed episodes.
Read(q) == [at |-> now, funding |-> q.funding, slippage |-> q.slippage,
            hold |-> _compute_estimate(q.episodes, q.median)]

\* bootstrap_from_historical_fills: the tracker of the new process is rebuilt
\* from the stored fills no earlier process claimed, whichever those are.
Bootstrap ==
  \E open \in Restored :
    /\ \A t \in Trader : open[t] # NoPosition => open[t].ts <= now
    /\ position' = open

\* The rest of lifespan: the stored fills, the volatility, the quotes, and the
\* subscriptions.
Subscribe ==
  /\ Ready
  /\ Bootstrap
  /\ \E marks \in Marks, regime \in Regime, readable \in BOOLEAN, q \in Quotes :
       /\ Answers(readable) /\ detect_regime(regime, readable)
       /\ atr' = update_atr(marks, regime)
       /\ quotes' = Read(q)
  /\ UNCHANGED <<view, views, mid, handler, fills>>

Die ==
  /\ Crash
  /\ position' = [t \in Trader |-> NoPosition]
  /\ mid' = 0 /\ atr' = NoATR /\ cache' = NoCache /\ handler' = NoSignal
  /\ UNCHANGED <<marketVars, quotes, countVars>>

TimePasses ==
  /\ Tick /\ lastHeld' = [lastHeld EXCEPT ![view] = now']
  /\ UNCHANGED <<view, views, consensusVars>>

MarketMoves ==
  /\ views < MaxViews /\ views' = views + 1
  /\ \E v \in Views \ {view} : view' = v /\ lastHeld' = [lastHeld EXCEPT ![v] = now]
  /\ UNCHANGED <<correlationsVars, consensusVars>>

\* What the tracker makes of a fill of t: it opens an episode or flips to one,
\* adds to the open one, reduces, closes or ignores it.
AfterFill(t, price, ts) ==
  {[direction |-> d, price |-> price, ts |-> ts] :
     d \in {"long", "short"} \ {position[t].direction}}
  \cup IF position[t] = NoPosition THEN {}
       ELSE {NoPosition} \cup {[position[t] EXCEPT !.price = vwap] : vwap \in Price}

\* Times a stored fill may have.
Times == {ts \in 0 .. now : ts % TickSeconds = 0}

\* periodic_reconciliation_task, or a request, processes a stored fill that
\* was not claimed, with the time it was made at; the gates are not asked.
Reconcile(t) ==
  /\ phase = "up" /\ fills < MaxFills /\ fills' = fills + 1
  /\ \E price \in Price, ts \in Times :
       \E episode \in AfterFill(t, price, ts) : position' = [position EXCEPT ![t] = episode]
  /\ UNCHANGED <<correlationsVars, marketVars, mid, cache, handler, failures,
                 bootVars>>

--------------------------------------------------------------------------
\* The gates

\* One vote per open episode.
EpisodeVotes(open) ==
  {[address |-> t, direction |-> open[t].direction, price |-> open[t].price,
    weight |-> calculate_vote_weight(Size * open[t].price), ts |-> open[t].ts] :
   t \in {u \in Trader : open[u] # NoPosition}}

Oldest(votes) == Min({v.ts : v \in votes})

LatencyPassed(votes) ==
  100 * (now - Oldest(votes)) <= CONSENSUS_BASE_WINDOW_S * CONSENSUS_MAX_STALENESS_PCT

PricePassed(votes, price) == WithinPriceBand(MedianPrice(votes), price, atr.stop)

\* calculate_ev_for_exchange
NetEV(exchange, direction, entry, p) ==
  LET hours == get_dynamic_hold_hours_sync(quotes, now)
  IN  calculate_ev(p, entry, StopPrice(entry, atr.stop, direction),
                   get_exchange_fees_bps(exchange),
                   get_slippage_estimate_bps_sync(quotes, exchange, now),
                   get_funding_cost_bps_sync(quotes, exchange, hours, direction, now))

\* compare_ev_across_exchanges: the first of the best.
BestExchange(direction, entry, p) ==
  LET ev(i) == NetEV(VENUE_SELECTION_EXCHANGES[i], direction, entry, p)
      venues == DOMAIN VENUE_SELECTION_EXCHANGES
  IN  VENUE_SELECTION_EXCHANGES[Min({i \in venues : \A k \in venues : ev(k) <= ev(i)})]

EffK(votes) == eff_k_from_corr(votes, matrix, TargetExchange)

\* What check_episode_consensus works out of the votes.
Signal(votes) ==
  LET agreeing == Agreeing(votes)
      entry    == MedianPrice(agreeing)
      k        == EffK(agreeing)
      p        == calibrated_p_win(agreeing, k)
      d        == MajorityDirection(votes)
      venue    == BestExchange(d, entry, p)
  IN  [pc |-> "regime", voters |-> Addresses(agreeing), entry |-> entry, k |-> k, p |-> p,
       exchange |-> venue, ev |-> NetEV(venue, d, entry, p)]

\* The gates up to its first await, in their order.
Passes(votes, price) ==
  /\ Cardinality(votes) >= Max({3, CONSENSUS_MIN_TRADERS})
  /\ passes_consensus_gates(votes)
  /\ LET signal == Signal(votes)
     IN  /\ signal.k >= CONSENSUS_MIN_EFFECTIVE_K
         /\ atr.valid
         /\ LatencyPassed(Agreeing(votes))
         /\ PricePassed(Agreeing(votes), price)
         /\ signal.ev >= CONSENSUS_EV_MIN_R

\* handle_fill: the tracker processes the fill, whose price is the detector's
\* mid price; then the gates.
Fill(t) ==
  /\ phase = "up" /\ handler = NoSignal /\ fills < MaxFills /\ fills' = fills + 1
  /\ \E price \in Price :
       /\ mid' = price
       /\ \E episode \in AfterFill(t, price, now) :
            /\ position' = [position EXCEPT ![t] = episode]
            /\ \E votes \in {EpisodeVotes([position EXCEPT ![t] = episode])} :
                 handler' = IF Passes(votes, price) THEN Signal(votes) ELSE NoSignal
  /\ UNCHANGED <<correlationsVars, marketVars, cache, failures, bootVars>>

--------------------------------------------------------------------------
\* The signal after the gates

\* check_risk_limits
PassesRisk(regime) ==
  /\ handler.p >= get_regime_adjusted_confidence(regime)
  /\ handler.ev >= MIN_SIGNAL_EV_R

CheckRisk ==
  /\ handler.pc = "regime"
  /\ \E regime \in Regime, readable \in BOOLEAN :
       /\ Answers(readable) /\ detect_regime(regime, readable)
       /\ handler' = IF PassesRisk(regime) THEN [handler EXCEPT !.pc = "log"] ELSE NoSignal
  /\ UNCHANGED <<correlationsVars, view, views, position, mid, fills, bootVars>>

\* log_decision, whose failure is swallowed
LogSignal ==
  /\ handler.pc = "log" /\ handler' = [handler EXCEPT !.pc = "execute"]
  /\ UNCHANGED <<correlationsVars, marketVars, position, mid, cache, countVars, bootVars>>

\* maybe_execute_signal, publish and insert: an exception of one ends the
\* handling.
AfterCall ==
  CASE handler.pc = "execute" -> [handler EXCEPT !.pc = "publish"]
    [] handler.pc = "publish" -> [handler EXCEPT !.pc = "insert"]
    [] OTHER                  -> NoSignal

handle_consensus_signal ==
  /\ handler.pc \in {"execute", "publish", "insert"}
  /\ \E ok \in BOOLEAN :
       /\ Answers(ok)
       /\ handler' = IF ok THEN AfterCall ELSE NoSignal
  /\ UNCHANGED <<correlationsVars, marketVars, position, mid, cache, fills, bootVars>>

--------------------------------------------------------------------------
ConsensusIdle == UNCHANGED <<marketVars, consensusVars>>

Next ==
  \/ Startup /\ ConsensusIdle
  \/ Correlate /\ ConsensusIdle
  \/ Subscribe \/ Die \/ TimePasses \/ MarketMoves
  \/ \E t \in Trader : Fill(t) \/ Reconcile(t)
  \/ CheckRisk \/ LogSignal \/ handle_consensus_signal

Spec == Init /\ [][Next]_vars

--------------------------------------------------------------------------
\* Traders whose last known correlations are all complete count as one: no
\* signal rests on them alone, whatever runs stored, loaded and overlapped.
Clones(traders) ==
  \A a, b \in traders : a # b => {a, b} \in DOMAIN loaded /\ loaded[{a, b}] = 100
SignalRaised == handler.pc = "idle" /\ handler'.pc = "regime"
ClonesNeverSignal == [][SignalRaised => ~Clones(handler'.voters)]_vars

\* In strict mode no signal rests on a stop that was guessed, over restarts
\* that read other data (consensus.py:1084-1086).
NoSignalOnGuessedVolatility ==
  handler.pc # "idle" /\ ATR_STRICT_MODE => atr.source \in {"db", "calculated", "realized_vol"}

\* A signal is sure enough for the regime of the market as it was at some
\* time within the life of the cache.
RegimeRespected ==
  [][(handler.pc = "regime" /\ handler'.pc = "log") =>
       \E v \in DOMAIN lastHeld' :
         /\ lastHeld'[v] # Never /\ now - lastHeld'[v] <= REGIME_CACHE_TTL_SECONDS
         /\ handler.p >= get_regime_adjusted_confidence(RegimeOf(v))]_vars
=============================================================================
