---------------------------- MODULE StopManager ----------------------------
(***************************************************************************)
(* The StopManager of hl-decide: stops of open positions, kept in the      *)
(* table active_stops and enforced by native orders on the exchange or by  *)
(* a polling loop.                                                         *)
(*                                                                         *)
(* register_stop (called by the executor when an order has been filled)    *)
(* and one check_stops at a time are coroutines: every await is a point    *)
(* where the exchange, the other coroutine or cancel_stop may act.         *)
(* check_stops works on a snapshot of the active rows and on prices it     *)
(* fetched before it looks at the first of them.                           *)
(*                                                                         *)
(* A position is netted per exchange and symbol; it is represented by the  *)
(* set of decisions it was opened for.  Prices are small integers and the  *)
(* stop distance is a number of ticks instead of a percentage.             *)
(***************************************************************************)
EXTENDS Integers, FiniteSets

CONSTANTS
  Decision,      \* decisions that open a position
  Symbol,
  Exchange,      \* connected exchanges, "hyperliquid" among them
  MaxPrice,      \* bound: prices are 1 .. MaxPrice
  Dist,          \* stop distance
  RR,            \* take-profit distance in stop distances
  Trailing,      \* values of TRAILING_STOP_ENABLED
  UseNative,     \* USE_NATIVE_STOPS
  LoopStarted,   \* somebody has started run_loop, which no code of the repository does
  MaxFailures    \* bound: database and exchange calls that fail

ASSUME StopAssumption ==
  /\ "hyperliquid" \in Exchange
  /\ {MaxPrice, Dist, RR} \subseteq Nat \ {0} /\ MaxFailures \in Nat
  /\ Trailing \subseteq BOOLEAN /\ {UseNative, LoopStarted} \subseteq BOOLEAN

Price == 1 .. MaxPrice
NoOrder == [symbol |-> "none"]

VARIABLES
  \* the exchanges
  price,      \* price[e][s]
  connected,  \* connected[e]: adapter.is_connected
  held,       \* held[e][s]: decisions whose size the position contains
  native,     \* native[e][s]: trigger orders, pairs <<decision, "sl" or "tp">>
  expired,    \* decisions whose timeout_at has passed
  \* executor and register_stop
  reg,        \* reg[d]: "new", "placing", "saving" or "done"
  order,      \* order[d]: exchange, symbol, direction and levels of d
  \* the table active_stops
  status,     \* status[d]: "none" or the column
  stop_price,
  native_stop_placed,
  reason,     \* triggered_reason and triggered_price
  at,
  \* check_stops
  pc,         \* "idle", "prices", "check", "cancel", "close" or "mark"
  stops,      \* decisions of the snapshot still to be looked at
  snapStop,   \* stop_price in the snapshot
  prices,     \* prices[e][s] in this pass: 0 for none, -1 for not fetched
  now,        \* decisions expired at the time the pass took as "now"
  cur,        \* the stop in hand and why it is triggered
  why,
  failures

exchangeVars == <<price, connected, held, native, expired>>
regVars      == <<reg, order>>
tableVars    == <<status, stop_price, native_stop_placed, reason, at>>
loopVars     == <<pc, stops, snapStop, prices, now, cur, why>>
vars == <<exchangeVars, regVars, tableVars, loopVars, failures>>

Fail == failures < MaxFailures /\ failures' = failures + 1

_calculate_stop_price(p, direction) == IF direction = "long" THEN p - Dist ELSE p + Dist
_calculate_take_profit(p, direction) ==
  IF direction = "long" THEN p + Dist * RR ELSE p - Dist * RR

(* Slip: the comparison is the long one for both directions.               *)
_is_stop_hitLongOnly(d, stop, p) == p <= stop

_is_stop_hit(d, stop, p) ==
  IF order[d].direction = "long" THEN p <= stop ELSE p >= stop

_is_tp_hit(d, p) ==
  IF order[d].direction = "long" THEN p >= order[d].tp ELSE p <= order[d].tp

Init ==
  /\ price \in [Exchange -> [Symbol -> Price]]
  /\ connected = [e \in Exchange |-> TRUE]
  /\ held = [e \in Exchange |-> [s \in Symbol |-> {}]]
  /\ native = [e \in Exchange |-> [s \in Symbol |-> {}]]
  /\ expired = {}
  /\ reg = [d \in Decision |-> "new"]
  /\ order = [d \in Decision |-> NoOrder]
  /\ status = [d \in Decision |-> "none"]
  /\ stop_price = [d \in Decision |-> 0]
  /\ native_stop_placed = [d \in Decision |-> FALSE]
  /\ reason = [d \in Decision |-> "none"]
  /\ at = [d \in Decision |-> 0]
  /\ pc = "idle"
  /\ stops = {} /\ now = {}
  /\ snapStop = [d \in Decision |-> 0]
  /\ prices = [e \in Exchange |-> [s \in Symbol |-> 0]]
  /\ cur \in Decision /\ why = "none"
  /\ failures = 0

-----------------------------------------------------------------------------
(* The exchanges and the clock, external.  A trigger order may fill when   *)
(* the price is beyond its level, and takes the other order of its         *)
(* decision with it.                                                       *)
MovePrice(e, s) ==
  /\ \E p \in Price : price' = [price EXCEPT ![e][s] = p]
  /\ UNCHANGED <<connected, held, native, expired, regVars, tableVars, loopVars, failures>>

ToggleConnection(e) ==
  /\ connected' = [connected EXCEPT ![e] = ~@]
  /\ UNCHANGED <<price, held, native, expired, regVars, tableVars, loopVars, failures>>

NativeFill(d, kind) ==
  LET o == order[d] IN
  /\ reg[d] # "new"
  /\ <<d, kind>> \in native[o.exchange][o.symbol]
  /\ IF kind = "sl" THEN _is_stop_hit(d, o.stop, price[o.exchange][o.symbol])
                    ELSE _is_tp_hit(d, price[o.exchange][o.symbol])
  /\ held' = [held EXCEPT ![o.exchange][o.symbol] = @ \ {d}]
  /\ native' = [native EXCEPT ![o.exchange][o.symbol] = @ \ {<<d, "sl">>, <<d, "tp">>}]
  /\ UNCHANGED <<price, connected, expired, regVars, tableVars, loopVars, failures>>

Expire(d) ==
  /\ reg[d] # "new" /\ d \notin expired
  /\ expired' = expired \cup {d}
  /\ UNCHANGED <<price, connected, held, native, regVars, tableVars, loopVars, failures>>

(* The executor has had an order filled and calls register_stop.  It does  *)
(* not hedge: positions of one symbol have one direction.                  *)
OpenPosition(d, e, s, direction, trailing) ==
  LET p == price[e][s] IN
  /\ reg[d] = "new" /\ connected[e]
  /\ \A c \in held[e][s] : order[c].direction = direction
  /\ p > Dist * RR
  /\ held' = [held EXCEPT ![e][s] = @ \cup {d}]
  /\ order' = [order EXCEPT ![d] =
       [exchange |-> e, symbol |-> s, direction |-> direction,
        trailing_enabled |-> trailing,
        stop |-> _calculate_stop_price(p, direction),
        tp |-> _calculate_take_profit(p, direction)]]
  /\ reg' = [reg EXCEPT ![d] = IF UseNative /\ ~trailing THEN "placing" ELSE "saving"]
  /\ UNCHANGED <<price, connected, native, expired, tableVars, loopVars, failures>>

(* _place_native_stops: the take-profit is sent whatever became of the     *)
(* stop-loss, and the answer is that of the stop-loss alone.  Without a    *)
(* connection nothing is sent.                                             *)
_place_native_stops(d) ==
  LET o == order[d]
      placed(kinds) == [native EXCEPT ![o.exchange][o.symbol] = @ \cup ({d} \X kinds)]
  IN
  /\ reg[d] = "placing"
  /\ reg' = [reg EXCEPT ![d] = "saving"]
  /\ \/ /\ connected[o.exchange]
        /\ native' = placed({"sl", "tp"})
        /\ native_stop_placed' = [native_stop_placed EXCEPT ![d] = TRUE]
        /\ UNCHANGED failures
     \/ /\ connected[o.exchange] /\ Fail
        /\ \E kinds \in {{"sl"}, {"tp"}, {}} :
             /\ native' = placed(kinds)
             /\ native_stop_placed' = [native_stop_placed EXCEPT ![d] = "sl" \in kinds]
     \/ /\ ~connected[o.exchange]
        /\ UNCHANGED <<native, native_stop_placed, failures>>
  /\ UNCHANGED <<price, connected, held, expired, order, status, stop_price, reason, at, loopVars>>

(* The upsert; when it fails the error is printed and the position has no  *)
(* row.                                                                    *)
_save_stop(d) ==
  /\ reg[d] = "saving"
  /\ reg' = [reg EXCEPT ![d] = "done"]
  /\ \/ /\ status' = [status EXCEPT ![d] = "active"]
        /\ stop_price' = [stop_price EXCEPT ![d] = order[d].stop]
        /\ UNCHANGED failures
     \/ /\ Fail
        /\ UNCHANGED <<status, stop_price>>
  /\ UNCHANGED <<exchangeVars, order, native_stop_placed, reason, at, loopVars>>

cancel_stop(d) ==
  /\ status[d] = "active"
  /\ status' = [status EXCEPT ![d] = "cancelled"]
  /\ UNCHANGED <<exchangeVars, regVars, stop_price, native_stop_placed, reason, at, loopVars,
                 failures>>

-----------------------------------------------------------------------------
(* Slip: the rows are read without "status = 'active'".                    *)
get_all_stops ==
  /\ LoopStarted /\ pc = "idle"
  /\ \/ /\ \E d \in Decision : status[d] # "none"
        /\ stops' = {d \in Decision : status[d] # "none"}
        /\ snapStop' = stop_price
        /\ prices' = [e \in Exchange |-> [s \in Symbol |-> -1]]
        /\ pc' = "prices"
        /\ UNCHANGED failures
     \/ /\ Fail
        /\ UNCHANGED <<pc, stops, snapStop, prices>>
  /\ UNCHANGED <<exchangeVars, regVars, tableVars, now, cur, why>>

(* check_stops takes its snapshot; a database error counts as no stops.    *)
get_active_stops ==
  /\ LoopStarted /\ pc = "idle"
  /\ \/ /\ \E d \in Decision : status[d] = "active"
        /\ stops' = {d \in Decision : status[d] = "active"}
        /\ snapStop' = stop_price
        /\ prices' = [e \in Exchange |-> [s \in Symbol |-> -1]]
        /\ pc' = "prices"
        /\ UNCHANGED failures
     \/ /\ Fail
        /\ UNCHANGED <<pc, stops, snapStop, prices>>
  /\ UNCHANGED <<exchangeVars, regVars, tableVars, now, cur, why>>

WatchedByExchange(d) == native_stop_placed[d] /\ ~order[d].trailing_enabled
Wanted == {<<order[d].exchange, order[d].symbol>> : d \in {c \in stops : ~WatchedByExchange(c)}}

(* One price per exchange and symbol: from its adapter, else from the      *)
(* legacy Hyperliquid API, else none.                                      *)
_get_price_for_stop(e, s) ==
  /\ pc = "prices"
  /\ <<e, s>> \in Wanted /\ prices[e][s] = -1
  /\ \/ /\ connected[e]
        /\ prices' = [prices EXCEPT ![e][s] = price[e][s]]
        /\ UNCHANGED failures
     \/ /\ IF connected[e] THEN Fail ELSE UNCHANGED failures
        /\ prices' = [prices EXCEPT ![e][s] = price["hyperliquid"][s]]
     \/ /\ Fail
        /\ prices' = [prices EXCEPT ![e][s] = 0]
  /\ UNCHANGED <<exchangeVars, regVars, tableVars, pc, stops, snapStop, now, cur, why>>

StartChecks ==
  /\ pc = "prices"
  /\ \A k \in Wanted : prices[k[1]][k[2]] # -1
  /\ pc' = "check"
  /\ now' = expired
  /\ UNCHANGED <<exchangeVars, regVars, tableVars, stops, snapStop, prices, cur, why, failures>>

TriggerStop(d, cause, next) ==
  /\ cur' = d /\ why' = cause /\ pc' = next
  /\ UNCHANGED <<exchangeVars, regVars, tableVars, stops, snapStop, prices, now, failures>>

(* 0 where the code has None, which it records as 0.0.                     *)
CurrentPrice(d) ==
  LET p == prices[order[d].exchange][order[d].symbol] IN IF p > 0 THEN p ELSE 0

CheckTimeout(d) ==
  /\ pc = "check" /\ d \in stops /\ d \in now
  /\ TriggerStop(d, "timeout", IF native_stop_placed[d] THEN "cancel" ELSE "close")

(* Whatever _check_position_closed answers, or whether it fails, the loop  *)
(* continues with the next stop and the row stays as it is.                *)
CheckNative(d) ==
  /\ pc = "check" /\ d \in stops \ now /\ WatchedByExchange(d)
  /\ stops' = stops \ {d}
  /\ UNCHANGED <<exchangeVars, regVars, tableVars, pc, snapStop, prices, now, cur, why,
                 failures>>

CheckLevels(d) ==
  /\ pc = "check" /\ d \in stops \ now /\ ~WatchedByExchange(d) /\ CurrentPrice(d) > 0
  /\ \/ /\ _is_stop_hit(d, snapStop[d], CurrentPrice(d))
        /\ TriggerStop(d, "stop_loss", "close")
     \/ /\ ~_is_stop_hit(d, snapStop[d], CurrentPrice(d))
        /\ _is_tp_hit(d, CurrentPrice(d))
        /\ TriggerStop(d, "take_profit", "close")

(* Slip: the new stop follows the price in both directions.                *)
_update_trailingAlways(d) ==
  LET new_stop == _calculate_stop_price(CurrentPrice(d), order[d].direction) IN
  /\ pc = "check" /\ d \in stops \ now /\ ~WatchedByExchange(d)
  /\ CurrentPrice(d) > 0 => /\ ~_is_stop_hit(d, snapStop[d], CurrentPrice(d))
                            /\ ~_is_tp_hit(d, CurrentPrice(d))
  /\ \/ /\ order[d].trailing_enabled /\ CurrentPrice(d) > 0 /\ status[d] = "active"
        /\ stop_price' = [stop_price EXCEPT ![d] = new_stop]
        /\ UNCHANGED failures
     \/ /\ IF order[d].trailing_enabled /\ CurrentPrice(d) > 0 /\ status[d] = "active"
             THEN Fail ELSE UNCHANGED failures
        /\ UNCHANGED stop_price
  /\ stops' = stops \ {d}
  /\ UNCHANGED <<exchangeVars, regVars, status, native_stop_placed, reason, at,
                 pc, snapStop, prices, now, cur, why>>

(* Nothing is hit, or there is no price: a trailing stop follows the price *)
(* in the favourable direction, in the row if that is still active.        *)
_maybe_update_trailing(d) ==
  LET new_stop == _calculate_stop_price(CurrentPrice(d), order[d].direction)
      should_update == /\ order[d].trailing_enabled /\ CurrentPrice(d) > 0
                       /\ IF order[d].direction = "long" THEN new_stop > snapStop[d]
                                                         ELSE new_stop < snapStop[d]
  IN
  /\ pc = "check" /\ d \in stops \ now /\ ~WatchedByExchange(d)
  /\ CurrentPrice(d) > 0 => /\ ~_is_stop_hit(d, snapStop[d], CurrentPrice(d))
                            /\ ~_is_tp_hit(d, CurrentPrice(d))
  /\ \/ /\ should_update /\ status[d] = "active"
        /\ stop_price' = [stop_price EXCEPT ![d] = new_stop]
        /\ UNCHANGED failures
     \/ /\ IF should_update /\ status[d] = "active" THEN Fail ELSE UNCHANGED failures
        /\ UNCHANGED stop_price
  /\ stops' = stops \ {d}
  /\ UNCHANGED <<exchangeVars, regVars, status, native_stop_placed, reason, at,
                 pc, snapStop, prices, now, cur, why>>

(* All trigger orders of the symbol are cancelled; an error is swallowed.  *)
_cancel_native_stops ==
  LET o == order[cur] IN
  /\ pc = "cancel"
  /\ pc' = "close"
  /\ \/ /\ connected[o.exchange]
        /\ native' = [native EXCEPT ![o.exchange][o.symbol] = {}]
        /\ UNCHANGED failures
     \/ /\ IF connected[o.exchange] THEN Fail ELSE UNCHANGED failures
        /\ UNCHANGED native
  /\ UNCHANGED <<price, connected, held, expired, regVars, tableVars,
                 stops, snapStop, prices, now, cur, why>>

(* The whole position of the symbol is closed; without a connection, or    *)
(* when the adapter raises, it is that of the legacy Hyperliquid account.  *)
(* A failed order is reported in the result, which nobody looks at.        *)
_close_position_on_exchange ==
  LET o == order[cur] IN
  /\ pc = "close"
  /\ pc' = "mark"
  /\ \/ /\ connected[o.exchange]
        /\ held' = [held EXCEPT ![o.exchange][o.symbol] = {}]
        /\ UNCHANGED failures
     \/ /\ IF connected[o.exchange] THEN Fail ELSE UNCHANGED failures
        /\ held' = [held EXCEPT !["hyperliquid"][o.symbol] = {}]
     \/ /\ Fail
        /\ UNCHANGED held
  /\ UNCHANGED <<price, connected, native, expired, regVars, tableVars,
                 stops, snapStop, prices, now, cur, why>>

(* The end of _trigger_stop: the row is marked, whatever its status; an    *)
(* error leaves it as it is for the next pass.                             *)
MarkTriggered ==
  /\ pc = "mark"
  /\ pc' = "check" /\ stops' = stops \ {cur}
  /\ \/ /\ status' = [status EXCEPT ![cur] = "triggered"]
        /\ reason' = [reason EXCEPT ![cur] = why]
        /\ at' = [at EXCEPT ![cur] = CurrentPrice(cur)]
        /\ UNCHANGED failures
     \/ /\ Fail
        /\ UNCHANGED <<status, reason, at>>
  /\ UNCHANGED <<exchangeVars, regVars, stop_price, native_stop_placed,
                 snapStop, prices, now, cur, why>>

EndPass ==
  /\ pc = "check" /\ stops = {}
  /\ pc' = "idle"
  /\ UNCHANGED <<exchangeVars, regVars, tableVars, stops, snapStop, prices, now, cur, why,
                 failures>>

Register(d) == _place_native_stops(d) \/ _save_stop(d)
Check(d) == CheckTimeout(d) \/ CheckNative(d) \/ CheckLevels(d) \/ _maybe_update_trailing(d)

Loop ==
  \/ get_active_stops
  \/ \E e \in Exchange, s \in Symbol : _get_price_for_stop(e, s)
  \/ StartChecks
  \/ \E d \in Decision : Check(d)
  \/ _cancel_native_stops
  \/ _close_position_on_exchange
  \/ MarkTriggered
  \/ EndPass

Next ==
  \/ \E e \in Exchange, s \in Symbol : MovePrice(e, s)
  \/ \E e \in Exchange : ToggleConnection(e)
  \/ \E d \in Decision, kind \in {"sl", "tp"} : NativeFill(d, kind)
  \/ \E d \in Decision : Expire(d)
  \/ \E d \in Decision, e \in Exchange, s \in Symbol,
        direction \in {"long", "short"}, trailing \in Trailing :
       OpenPosition(d, e, s, direction, trailing)
  \/ \E d \in Decision : Register(d)
  \/ \E d \in Decision : cancel_stop(d)
  \/ Loop

Spec == Init /\ [][Next]_vars

(* asyncio runs every ready coroutine, and awaited calls return or raise:  *)
(* register_stop and run_loop, if it was started, go on.  Nothing is       *)
(* assumed of prices, fills, connections and the clock.                    *)
FairSpec == Spec /\ WF_vars(Loop) /\ \A d \in Decision : WF_vars(Register(d))

-----------------------------------------------------------------------------
TypeOK ==
  /\ price \in [Exchange -> [Symbol -> Price]]
  /\ connected \in [Exchange -> BOOLEAN]
  /\ held \in [Exchange -> [Symbol -> SUBSET Decision]]
  /\ native \in [Exchange -> [Symbol -> SUBSET (Decision \X {"sl", "tp"})]]
  /\ reg \in [Decision -> {"new", "placing", "saving", "done"}]
  /\ status \in [Decision -> {"none", "active", "triggered", "cancelled"}]
  /\ \A d \in Decision : status[d] # "none" => reg[d] = "done" /\ order[d] # NoOrder
  /\ native_stop_placed \in [Decision -> BOOLEAN]
  /\ reason \in [Decision -> {"none", "timeout", "stop_loss", "take_profit"}]
  /\ pc \in {"idle", "prices", "check", "cancel", "close", "mark"}
  /\ pc \in {"cancel", "close", "mark"} => cur \in stops
  /\ stops \in SUBSET Decision /\ now \in SUBSET expired
  /\ failures \in 0 .. MaxFailures

(* _maybe_update_trailing works on a stop price read one or more awaits    *)
(* earlier and its UPDATE does not compare: still, no row's stop ever      *)
(* moves away from the price.                                              *)
TrailingNeverLoosens ==
  [][\A d \in Decision : status[d] = "active" /\ stop_price'[d] # stop_price[d] =>
       IF order[d].direction = "long" THEN stop_price'[d] > stop_price[d]
                                      ELSE stop_price'[d] < stop_price[d]]_vars

(* The reason a row gives for its trigger is true of the row: the timeout  *)
(* had passed, or the recorded price is beyond the level that the row      *)
(* (not only the snapshot) holds.                                          *)
RecordedReasonTrue ==
  \A d \in Decision : status[d] = "triggered" =>
    CASE reason[d] = "timeout" -> d \in expired
      [] reason[d] = "stop_loss" ->
           IF order[d].direction = "long" THEN at[d] <= stop_price[d] ELSE at[d] >= stop_price[d]
      [] reason[d] = "take_profit" -> _is_tp_hit(d, at[d])
      [] OTHER -> FALSE

(* A stop that has been marked triggered closes nothing again: the next    *)
(* position in its symbol is safe from it.                                 *)
TriggeredOnce ==
  [][_close_position_on_exchange => status[cur] # "triggered"]_vars

(* The class docstring: "Runs as a background task, polling positions and  *)
(* prices", and "when price crosses a stop level, triggers a position      *)
(* close".  A polled stop then cannot stay active with the price beyond    *)
(* its level for good.  Nothing in the repository starts run_loop, though. *)
StopLossEnforced ==
  \A d \in Decision :
    []<>(status[d] = "active" /\ ~native_stop_placed[d] =>
           ~_is_stop_hit(d, stop_price[d], price[order[d].exchange][order[d].symbol]))

(* _trigger_stop: "Execute stop trigger and close position on correct      *)
(* exchange".  What is marked triggered is closed, then.  The row is       *)
(* marked whatever became of the order, though.                            *)
TriggeredIsClosed ==
  \A d \in Decision : status[d] = "triggered" =>
    d \notin held[order[d].exchange][order[d].symbol]
=============================================================================
