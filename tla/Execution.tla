----------------------------- MODULE Execution -----------------------------
(***************************************************************************)
(* The execution of consensus signals in hl-decide: maybe_execute_signal,  *)
(* the executor with its checks, the exchange manager and the adapters,    *)
(* and the risk governor.                                                  *)
(*                                                                         *)
(* One signal is executed at a time (the fill handler awaits it).  Its     *)
(* steps, separated where the executor awaits the venues and the database, *)
(* interleave with the market, with positions closed by the stop manager   *)
(* or the venue, with time, and with crashes.  Calls fail at most          *)
(* MaxFaults times.  The positions of a venue are counted in orders, all   *)
(* of them of notional 1.                                                  *)
(***************************************************************************)
EXTENDS RiskGovernor, ExchangeAdapters, FiniteSetsExt

CONSTANTS
  Symbol,
  Equity,           \* account values
  StartEquity,      \* StartEquity[v]: the account value v starts with
  MAX_EXPOSURE_PCT, \* hl_max_exposure_pct of execution_config
  Sizes,            \* notionals the Kelly sizing may propose
  Setups,           \* configurations to start in
  MaxTime, MaxSignals, MaxMoves, MaxFaults  \* bounds

HL == "hyperliquid"

ASSUME ExecutionAssumption ==
  /\ Venue \subseteq {"hyperliquid", "bybit", "aster"} /\ HL \in Venue
  /\ IsFiniteSet(Symbol)
  /\ Equity \subseteq Nat \ {0} /\ StartEquity \in [Venue -> Equity]
  /\ Setups \subseteq [real : BOOLEAN, keys : SUBSET Venue, legacy : BOOLEAN]

NoJob == [pc |-> "idle"]

VARIABLES
  setup,       \* REAL_EXECUTION_ENABLED, the venues with credentials, and
               \* whether hl_enabled and hl_address are set
  running,     \* the process is up
  registered,  \* ExchangeManager._exchanges; a registered adapter stays connected
  address,     \* executor.address has been set by the path without the manager
  job,         \* the signal in execution
  held,        \* held[v][s]: orders in the position of s at v
  equity,      \* equity[v]
  orders,      \* orders sent
  \* history
  blind,       \* venues with an order sent while their positions were unread
  opening,     \* the day and the account value of the first check of the
               \* day that reached the database
  missedDay,   \* last day a check did not reach the database
  boots,       \* crashes
  signals, moves, faults

venueVars == <<held, equity>>
countVars == <<signals, moves, faults>>
historyVars == <<blind, opening, missedDay, boots>>
riskVars == <<triggered_at, daily, row, opening, missedDay>>
processVars == <<setup, running, registered, address>>
vars == <<governorVars, processVars, job, venueVars, orders, historyVars, countVars>>

TypeOK ==
  /\ now \in 0 .. MaxTime /\ triggered_at \in {Never} \cup 0 .. MaxTime
  /\ setup \in Setups /\ running \in BOOLEAN /\ address \in BOOLEAN
  /\ registered \subseteq setup.keys
  /\ job.pc \in {"idle", "read", "check", "order", "log"}
  /\ held \in [Venue -> [Symbol -> Nat]] /\ equity \in [Venue -> Equity]
  /\ byExchange \in [Venue -> SUBSET (Symbol \X {"", "USDT", "-PERP"})]
  /\ orders \in Nat /\ blind \subseteq Venue

Init ==
  /\ setup \in Setups
  /\ running = FALSE /\ registered = {} /\ address = FALSE
  /\ job = NoJob
  /\ held = [v \in Venue |-> [s \in Symbol |-> 0]] /\ equity = StartEquity
  /\ now = 0 /\ triggered_at = Never /\ daily = NoDay /\ row = NoDay
  /\ byExchange = [v \in Venue |-> {}]
  /\ orders = 0 /\ blind = {} /\ opening = NoDay /\ missedDay = Never /\ boots = 0
  /\ signals = 0 /\ moves = 0 /\ faults = 0

\* A call may fail: ok is TRUE, or a fault of the budget is spent.
Calls(ok) == (ok \/ faults < MaxFaults) /\ faults' = faults + (IF ok THEN 0 ELSE 1)

HeldSymbols(v) == {s \in Symbol : held[v][s] > 0}
Exposure(v) == MapThenSumSet(LAMBDA s : held[v][s], Symbol)

--------------------------------------------------------------------------
\* The process and its surroundings

\* connect_exchange: without credentials nothing is tried.
ConnectExchange(v, up) == v \in setup.keys /\ Connect(v, up)

\* lifespan and init_exchange_manager: each venue with
\* credentials is tried once; one that does not connect is not registered.
Startup ==
  /\ ~running /\ running' = TRUE
  /\ \E answering \in SUBSET setup.keys :
       /\ Calls(answering = setup.keys)
       /\ registered' = {v \in Venue : ConnectExchange(v, v \in answering)}
  /\ UNCHANGED <<governorVars, setup, address, job, venueVars, orders, historyVars,
                 signals, moves>>

\* The process dies, at any await; the database and the venues remember.
Crash ==
  /\ running /\ Calls(FALSE)
  /\ running' = FALSE /\ registered' = {} /\ address' = FALSE /\ job' = NoJob
  /\ MemoryReset /\ boots' = boots + 1
  /\ UNCHANGED <<now, row, setup, venueVars, orders, blind, opening, missedDay, signals, moves>>

Tick ==
  /\ now < MaxTime /\ now' = now + 1
  /\ UNCHANGED <<memory, row, processVars, job, venueVars, orders, historyVars, countVars>>

Market(v) ==
  /\ moves < MaxMoves /\ moves' = moves + 1
  /\ \E e \in Equity \ {equity[v]} : equity' = [equity EXCEPT ![v] = e]
  /\ UNCHANGED <<governorVars, processVars, job, held, orders, historyVars, signals, faults>>

\* A position is closed, by the venue or by StopManager through
\* ExchangeManager.close_position; the governor is not told.
Closed(v, s) ==
  /\ held[v][s] > 0
  /\ \E o \in ClosePosition(v, TRUE, TRUE) : o.executed
  /\ held' = [held EXCEPT ![v][s] = 0]
  /\ UNCHANGED <<governorVars, processVars, job, equity, orders, historyVars, countVars>>

--------------------------------------------------------------------------
\* The executor

\* maybe_execute_signal: an enabled configuration, whose exchange is the
\* target of the signal.  kelly: KELLY_ENABLED is set and the caller names the
\* traders of the consensus, which the one caller in the service does not.
Signal(v, s, kelly) ==
  /\ running /\ job.pc = "idle" /\ signals < MaxSignals
  /\ signals' = signals + 1
  /\ job' = [pc |-> "read", venue |-> v, symbol |-> s, kelly |-> kelly]
  /\ UNCHANGED <<governorVars, processVars, venueVars, orders, historyVars, moves, faults>>

Managed == job.venue \in registered
Reject == job' = [pc |-> "log", status |-> "rejected", sent |-> FALSE, told |-> Refused,
                  watched |-> FALSE]

\* get_account_state: the account of the signal's venue through the manager,
\* or Hyperliquid's by the configured address: without the manager, and also
\* when the balance of the venue cannot be read and an address was set before.
Sources == {job.venue : up \in {u \in BOOLEAN : Managed /\ Balance(job.venue, u)}}
           \cup (IF address \/ ~Managed THEN {HL} ELSE {})
Account == IF Managed THEN job.venue ELSE HL

\* _to_hl_account_state, or the answer of Hyperliquid's own API, with what
\* check_risk_before_trade adds up; readable: the positions were read too.
AccountState(src, readable) ==
  [value |-> equity[src], names |-> Positions(src, HeldSymbols(src), readable),
   exposure |-> IF readable THEN Exposure(src) ELSE 0]

\* hl_enabled and hl_address of execution_config
LegacyEnabled == setup.legacy

\* get_account_value and get_account_state_with_retry: no value, or no state
\* in three attempts
NoAccount == Calls(FALSE)

\* validate_execution up to the circuit breaker's counts: the path, the
\* account, the quick look at the kill switch, the counts of the venue.
ReadAccount ==
  /\ job.pc = "read"
  /\ address' = (address \/ (~Managed /\ LegacyEnabled))
  /\ \/ ~Managed /\ ~LegacyEnabled /\ Reject /\ UNCHANGED <<byExchange, faults>>
     \/ (Managed \/ LegacyEnabled) /\ NoAccount /\ Reject /\ UNCHANGED byExchange
     \/ /\ Managed \/ LegacyEnabled
        /\ \E src \in Sources, readable \in BOOLEAN :
             LET state == AccountState(src, readable)
             IN /\ Calls(readable /\ src = Account)
                /\ ~readable => Managed /\ src = job.venue
                /\ IF is_kill_switch_active
                   THEN Reject /\ UNCHANGED byExchange
                   ELSE /\ UpdatePositions(job.venue, state.names)
                        /\ job' = [pc |-> "check", venue |-> job.venue, symbol |-> job.symbol,
                                   kelly |-> job.kelly, value |-> state.value,
                                   exposure |-> state.exposure,
                                   blind |-> ~readable \/ src # Account]
  /\ UNCHANGED <<now, triggered_at, daily, row, setup, running, registered, venueVars, orders,
                 historyVars, signals, moves>>

\* get_current_exposure: a reading of its own; nothing when it fails.
ExposureRead(src, ok) == IF ok THEN Exposure(src) ELSE 0

\* get_mid_price: neither the venue nor Hyperliquid's API tells the price.
NoPrice == Calls(FALSE)

\* The exposure limit of the configuration: exposure is relative to the equity
\* of this reading, the size to that of the reading before.
AtLimit(exposure, src) == exposure * 100 >= equity[src] * MAX_EXPOSURE_PCT
WithinLimit(exposure, src, size) ==
  (exposure * job.value + size * equity[src]) * 100 <= equity[src] * job.value * MAX_EXPOSURE_PCT

\* check_risk_before_trade on the state ReadAccount left, then the circuit
\* breaker.
CheckRisk(size, dbOK) ==
  LET check == RunAllChecks(job.value, job.exposure, size, DailyPnl(job.value, dbOK))
  IN /\ triggered_at' = check.triggered_at /\ daily' = check.daily
     /\ row' = RowAfter(job.value, dbOK)
     /\ opening' = IF dbOK /\ opening.date # Today
                   THEN [date |-> Today, equity |-> job.value] ELSE opening
     /\ missedDay' = IF dbOK THEN missedDay ELSE Today
     /\ IF check.allowed /\ CircuitClosed(Name(job.symbol, ""))
        THEN job' = [job EXCEPT !.pc = "order"] ELSE Reject

\* validate_execution from the exposure limit on: the limit, the price, the
\* size, the expected value at that size, the limit with it, the governor.
Validate ==
  /\ job.pc = "check"
  /\ \E src \in Sources, readable \in BOOLEAN :
       LET exposure == ExposureRead(src, readable)
           unread   == ~readable \/ src # Account
       IN \/ /\ AtLimit(exposure, src) /\ Calls(~unread)
             /\ Reject /\ UNCHANGED riskVars
          \/ /\ ~AtLimit(exposure, src) /\ ~unread /\ NoPrice
             /\ Reject /\ UNCHANGED riskVars
          \/ \* hl_config is unbound: the exception leaves the executor
             /\ ~AtLimit(exposure, src) /\ Calls(~unread)
             /\ Managed /\ ~job.kelly
             /\ job' = NoJob /\ UNCHANGED riskVars
          \/ /\ ~AtLimit(exposure, src) /\ (Managed => job.kelly)
             /\ \E size \in Sizes, dbOK \in BOOLEAN :
                  /\ Calls(~unread /\ dbOK)
                  /\ \/ Reject /\ UNCHANGED riskVars       \* expected value too low
                     \/ /\ ~WithinLimit(exposure, src, size)
                        /\ Reject /\ UNCHANGED riskVars
                     \/ WithinLimit(exposure, src, size) /\ CheckRisk(size, dbOK)
  /\ UNCHANGED <<now, byExchange, processVars, venueVars, orders, blind, boots, signals, moves>>

\* The venue and the answers of an order: through the manager to the venue
\* of the signal, otherwise to Hyperliquid, whatever the signal's venue is.
Outcomes == IF Managed THEN OpenPosition(job.venue) ELSE LegacyOpen
CanOrder == setup.real /\ (Managed \/ HL \in setup.keys)

\* Slip: a success is a fill.
StatusOfSuccess(o) == IF o.success THEN "filled" ELSE "failed"

\* The status that is logged: printing a success without a price raises an
\* exception, which turns it into a failure.
StatusOf(o) == IF o.success /\ o.priced THEN "filled" ELSE "failed"

\* execute_signal after the validation: one order, and the registration of
\* its stop when it was filled (its failure is swallowed).
PlaceOrder ==
  /\ job.pc = "order" /\ CanOrder
  /\ orders' = orders + 1
  /\ \E o \in Outcomes, saved \in BOOLEAN :
       /\ Calls(o \in {Filled, Refused} \cup WithStop({Filled}) /\ saved)
       /\ saved = FALSE => StatusOf(o) = "filled"
       /\ held' = [held EXCEPT ![Account][job.symbol] = @ + (IF o.executed THEN 1 ELSE 0)]
       /\ job' = [pc |-> "log", status |-> StatusOf(o), sent |-> TRUE, told |-> o,
                  watched |-> StatusOf(o) = "filled" /\ saved]
  /\ blind' = IF job.blind THEN blind \cup {Account} ELSE blind
  /\ UNCHANGED <<governorVars, processVars, equity, opening, missedDay, boots, signals, moves>>

Simulate ==
  /\ job.pc = "order" /\ ~CanOrder
  /\ job' = [pc |-> "log", status |-> "simulated", sent |-> FALSE, told |-> Refused,
             watched |-> FALSE]
  /\ UNCHANGED <<governorVars, processVars, venueVars, orders, historyVars, countVars>>

\* _log_execution, whose failure is swallowed, ends the execution.
LogExecution ==
  /\ job.pc = "log" /\ job' = NoJob
  /\ UNCHANGED <<governorVars, processVars, venueVars, orders, historyVars, countVars>>

Next ==
  \/ Startup \/ Crash \/ Tick
  \/ \E v \in Venue : Market(v)
  \/ \E v \in Venue, s \in Symbol : Closed(v, s)
  \/ \E v \in Venue, s \in Symbol, kelly \in BOOLEAN : Signal(v, s, kelly)
  \/ ReadAccount \/ Validate \/ PlaceOrder \/ Simulate \/ LogExecution

Spec == Init /\ [][Next]_vars

--------------------------------------------------------------------------
\* The kill switch: the executor keeps the promise of TradingHalt, over the
\* two looks at the switch, the cool-down and restarts.
Halt == INSTANCE TradingHalt WITH
  Cooldown <- KILL_SWITCH_COOLDOWN,
  time <- now,
  haltedUntil <- IF triggered_at # Never /\ now < triggered_at + KILL_SWITCH_COOLDOWN
                 THEN triggered_at + KILL_SWITCH_COOLDOWN ELSE 0,
  restarts <- boots

KillSwitchHolds == Halt!Spec

\* A loss of the day is not forgotten, whatever restarted in between: no order
\* passes the checks on an account value that is below the first one of the
\* day by the drawdown limit, unless the database failed that day.
LossRemembered ==
  [][(job.pc = "check" /\ job'.pc = "order" /\ missedDay' # Today)
     => ~DrawdownHit(opening'.equity, job.value - opening'.equity)]_vars

\* Where the names of the positions are those of the signals, a venue holds
\* at most one order per symbol and MAX_CONCURRENT_POSITIONS positions: lost
\* answers, crashes and orders of other venues' signals included.  The
\* exception is a venue whose positions could not be read before an order.
WithinLimits ==
  HL \notin blind =>
    /\ \A s \in Symbol : held[HL][s] <= 1
    /\ Cardinality(HeldSymbols(HL)) <= MAX_CONCURRENT_POSITIONS

\* The log tells the truth where it claims to know: a "filled" order was
\* executed and its stop registered, if the row could be written; nothing
\* was sent for a "rejected" or "simulated" one.
LogTellsTruth ==
  job.pc = "log" =>
    /\ job.status = "filled" => job.told.executed /\ (job.watched \/ faults > 0)
    /\ job.status \in {"rejected", "simulated"} => ~job.sent
=============================================================================
