---------------------------- MODULE RiskGovernor ----------------------------
(***************************************************************************)
(* The RiskGovernor of hl-decide: the state it keeps in memory, the row of *)
(* the day it keeps in the table risk_daily_pnl, and its checks as         *)
(* operators.  Execution extends this module and takes the steps.          *)
(*                                                                         *)
(* Money is a small integer and time a count of ticks, DayLength of them   *)
(* to a UTC day.  A position is reported under a name, the pair of its     *)
(* symbol and the suffix the venue adds.  The API-error and loss-streak    *)
(* pauses are left out: nothing calls report_api_error and                 *)
(* report_trade_result, so they never begin.  The liquidation check is     *)
(* left out for the same reason: no account state has a maintenanceMargin, *)
(* and without one the ratio is infinite.                                  *)
(***************************************************************************)
EXTENDS Integers, FiniteSets

CONSTANTS
  Venue,
  DayLength,                 \* ticks of a day
  KILL_SWITCH_COOLDOWN,      \* in ticks
  DAILY_DRAWDOWN_KILL_PCT,
  MIN_EQUITY_FLOOR,
  MAX_POSITION_SIZE_PCT,
  MAX_TOTAL_EXPOSURE_PCT,
  MAX_CONCURRENT_POSITIONS

ASSUME GovernorAssumption ==
  /\ {DayLength, KILL_SWITCH_COOLDOWN} \subseteq Nat \ {0}
  /\ {DAILY_DRAWDOWN_KILL_PCT, MIN_EQUITY_FLOOR, MAX_POSITION_SIZE_PCT,
      MAX_TOTAL_EXPOSURE_PCT, MAX_CONCURRENT_POSITIONS} \subseteq Nat

Never == -1
NoDay == [date |-> Never, equity |-> 0]

VARIABLES
  now,           \* the clock
  triggered_at,  \* _kill_switch_triggered_at, Never when the switch is off
  daily,         \* _daily_start_date and _daily_starting_equity
  byExchange,    \* _positions_by_exchange: the names each venue last reported
  row            \* risk_daily_pnl: the last row's date and starting equity

memory == <<triggered_at, daily, byExchange>>
governorVars == <<now, memory, row>>

Today == now \div DayLength

\* RiskGovernor.__init__: memory is empty when the process starts.
MemoryReset ==
  triggered_at' = Never /\ daily' = NoDay /\ byExchange' = [v \in Venue |-> {}]

\* is_kill_switch_active, the quick look: it leaves an expired switch alone.
is_kill_switch_active == triggered_at # Never /\ now - triggered_at < KILL_SWITCH_COOLDOWN

\* check_kill_switch, the full check: an expired switch is reset.
SwitchAfterCheck == IF is_kill_switch_active THEN triggered_at ELSE Never

\* update_daily_starting_equity, called by compute_risk_state: the first
\* check of the day fixes the equity the day is measured from.
StartingEquity(value, pnl) == IF daily.date = Today THEN daily.equity ELSE value - pnl

\* Slip: the day is measured from what this process remembers.
DailyPnlInMemory(value, dbOK) == IF daily.date = Today THEN value - daily.equity ELSE 0

\* get_daily_pnl: the profit since the row of the day, 0 if there is none yet
\* or the database fails.
DailyPnl(value, dbOK) == IF dbOK /\ row.date = Today THEN value - row.equity ELSE 0

\* The row after it; one of today is never replaced (ON CONFLICT DO NOTHING).
RowAfter(value, dbOK) ==
  IF dbOK /\ row.date # Today THEN [date |-> Today, equity |-> value] ELSE row

DrawdownHit(start, pnl) ==
  /\ start > 0 /\ pnl < 0
  /\ -pnl * 100 >= DAILY_DRAWDOWN_KILL_PCT * start

EquityAllowed(value) == value >= MIN_EQUITY_FLOOR

SizeAllowed(value, size) == size * 100 <= value * MAX_POSITION_SIZE_PCT

ExposureAllowed(value, exposure, size) ==
  (exposure + size) * 100 <= value * MAX_TOTAL_EXPOSURE_PCT

\* Slip: the check that triggers the switch lets its own trade pass.
RunAllChecksLate(value, exposure, size, pnl) ==
  LET start == StartingEquity(value, pnl)
  IN IF is_kill_switch_active
     THEN [allowed |-> FALSE, triggered_at |-> triggered_at, daily |-> daily]
     ELSE [allowed |-> /\ EquityAllowed(value) /\ SizeAllowed(value, size)
                       /\ ExposureAllowed(value, exposure, size),
           triggered_at |-> IF DrawdownHit(start, pnl) THEN now ELSE Never,
           daily |-> [date |-> Today, equity |-> start]]

\* run_all_checks: the verdict and what the checks leave in memory.  The
\* equity floor is looked at before the drawdown, so that an account below
\* the floor does not trigger the switch.
RunAllChecks(value, exposure, size, pnl) ==
  LET start == StartingEquity(value, pnl)
      down  == EquityAllowed(value) /\ DrawdownHit(start, pnl)
  IN IF is_kill_switch_active
     THEN [allowed |-> FALSE, triggered_at |-> triggered_at, daily |-> daily]
     ELSE [allowed |-> /\ EquityAllowed(value) /\ ~down
                       /\ SizeAllowed(value, size)
                       /\ ExposureAllowed(value, exposure, size),
           triggered_at |-> IF down THEN now ELSE SwitchAfterCheck,
           daily |-> [date |-> Today, equity |-> start]]

\* Slip: the positions of a venue are taken over once.
UpdatePositionsOnce(v, names) ==
  byExchange' = [byExchange EXCEPT ![v] = IF @ = {} THEN names ELSE @]

\* update_positions_from_account_state: what a venue reports replaces what
\* it reported before; the other venues keep what they reported last.
UpdatePositions(v, names) == byExchange' = [byExchange EXCEPT ![v] = names]

\* _update_aggregated_positions: the number of positions over all venues.
PositionCount == Cardinality(UNION {{v} \X byExchange[v] : v \in Venue})

\* get_symbol_position_count, for the name the signal uses
SymbolCount(name) == Cardinality({v \in Venue : name \in byExchange[v]})

ConcurrentAllowed(count) == count < MAX_CONCURRENT_POSITIONS

\* check_symbol_position, MAX_POSITION_PER_SYMBOL being 1
SymbolAllowed(count) == count = 0

CircuitClosed(name) == ConcurrentAllowed(PositionCount) /\ SymbolAllowed(SymbolCount(name))
=============================================================================
