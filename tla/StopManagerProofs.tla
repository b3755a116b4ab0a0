------------------------- MODULE StopManagerProofs -------------------------
(***************************************************************************)
(* Proofs about StopManager, for every number of decisions, symbols and    *)
(* exchanges, every configuration and however often calls fail: the reason *)
(* a row gives for its trigger is true of the row, a trailing stop never   *)
(* moves away from the price, and a stop closes nothing after it has been  *)
(* marked.                                                                 *)
(*                                                                         *)
(* All three rest on what check_stops may assume of rows it read awaits    *)
(* ago: what it still has to look at has not been marked (Unmarked), and   *)
(* has the stop price it read (Snapshot).                                  *)
(***************************************************************************)
EXTENDS StopManager, TLAPS

Order == [exchange : Exchange, symbol : Symbol, direction : {"long", "short"},
          trailing_enabled : BOOLEAN, stop : Int, tp : Int]

Types ==
  /\ TypeOK
  /\ expired \subseteq Decision
  /\ order \in [Decision -> Order \cup {NoOrder}]
  /\ \A d \in Decision : reg[d] # "new" => order[d] \in Order
  /\ stop_price \in [Decision -> Int]
  /\ at \in [Decision -> Int]
  /\ snapStop \in [Decision -> Int]
  /\ prices \in [Exchange -> [Symbol -> Int]]
  /\ cur \in Decision
  /\ why \in {"none", "timeout", "stop_loss", "take_profit"}

Unmarked == \A d \in stops : status[d] \in {"active", "cancelled"}

Snapshot == \A d \in stops : snapStop[d] = stop_price[d]

(* The cause in hand is true of the stop in hand.                          *)
CauseTrue ==
  pc \in {"cancel", "close", "mark"} =>
    \/ why = "timeout" /\ cur \in expired
    \/ why = "stop_loss" /\ _is_stop_hit(cur, snapStop[cur], CurrentPrice(cur))
    \/ why = "take_profit" /\ _is_tp_hit(cur, CurrentPrice(cur))

(* What a marked row says, with the hit conditions as operators.           *)
ReasonTrue(d) ==
  \/ reason[d] = "timeout" /\ d \in expired
  \/ reason[d] = "stop_loss" /\ _is_stop_hit(d, stop_price[d], at[d])
  \/ reason[d] = "take_profit" /\ _is_tp_hit(d, at[d])

SInv ==
  /\ Types
  /\ Unmarked
  /\ Snapshot
  /\ CauseTrue
  /\ \A d \in Decision : status[d] = "triggered" => ReasonTrue(d)

LEMMA SInit == Init => SInv
<1> SUFFICES ASSUME Init PROVE SInv
  OBVIOUS
<1>1. Types
  BY StopAssumption DEF Init, Types, TypeOK
<1> QED  BY <1>1 DEF Init, SInv, Unmarked, Snapshot, CauseTrue

LEMMA NewOrder ==
  ASSUME Types, NEW d \in Decision, NEW e \in Exchange, NEW s \in Symbol,
         NEW direction \in {"long", "short"}, NEW trailing \in Trailing
  PROVE  LET o == [exchange |-> e, symbol |-> s, direction |-> direction,
                   trailing_enabled |-> trailing,
                   stop |-> _calculate_stop_price(price[e][s], direction),
                   tp |-> _calculate_take_profit(price[e][s], direction)]
         IN  o \in Order /\ o # NoOrder
<1>1. price[e][s] \in Int
  BY DEF Types, TypeOK, Price
<1>2. /\ _calculate_stop_price(price[e][s], direction) \in Int
      /\ _calculate_take_profit(price[e][s], direction) \in Int
  BY <1>1, StopAssumption DEF _calculate_stop_price, _calculate_take_profit
<1>3. trailing \in BOOLEAN
  BY StopAssumption
<1> HIDE DEF _calculate_stop_price, _calculate_take_profit
<1> QED  BY <1>2, <1>3 DEF Order, NoOrder

LEMMA NestedType ==
  ASSUME NEW V, NEW f \in [Exchange -> [Symbol -> V]],
         NEW e \in Exchange, NEW s \in Symbol, NEW v \in V
  PROVE  [f EXCEPT ![e][s] = v] \in [Exchange -> [Symbol -> V]]
OBVIOUS

LEMMA FailType ==
  ASSUME failures \in 0 .. MaxFailures, Fail
  PROVE  failures' \in 0 .. MaxFailures
BY StopAssumption DEF Fail

(* A stop that is looked at has been registered with an order.             *)
LEMMA StopsOrdered ==
  ASSUME Types, Unmarked, NEW d \in stops
  PROVE  /\ d \in Decision /\ reg[d] = "done" /\ status[d] \in {"active", "cancelled"}
         /\ order[d] \in Order
         /\ order[d].exchange \in Exchange /\ order[d].symbol \in Symbol
         /\ CurrentPrice(d) \in Int
<1>1. d \in Decision /\ reg[d] = "done" /\ order[d] \in Order
        /\ status[d] \in {"active", "cancelled"}
  BY DEF Types, TypeOK, Unmarked
<1>2. order[d].exchange \in Exchange /\ order[d].symbol \in Symbol
  BY <1>1 DEF Order
<1> QED  BY <1>1, <1>2 DEF CurrentPrice, Types

LEMMA TNext == Types /\ Unmarked /\ [Next]_vars => Types' /\ Unmarked'
<1> SUFFICES ASSUME Types, Unmarked, [Next]_vars PROVE Types' /\ Unmarked'
  OBVIOUS
<1> USE DEF exchangeVars, regVars, tableVars, loopVars
<1>0. NoOrder \notin Order
  BY DEF NoOrder, Order
<1>1. ASSUME NEW e \in Exchange, NEW s \in Symbol, MovePrice(e, s)
      PROVE  Types' /\ Unmarked'
  BY <1>1 DEF MovePrice, Types, TypeOK, Unmarked
<1>2. ASSUME NEW e \in Exchange, ToggleConnection(e)
      PROVE  Types' /\ Unmarked'
  BY <1>2 DEF ToggleConnection, Types, TypeOK, Unmarked
<1>3. ASSUME NEW d \in Decision, NEW kind \in {"sl", "tp"}, NativeFill(d, kind)
      PROVE  Types' /\ Unmarked'
  <2>1. order[d].exchange \in Exchange /\ order[d].symbol \in Symbol
    BY <1>3 DEF NativeFill, Types, Order
  <2> QED  BY <1>3, <2>1 DEF NativeFill, Types, TypeOK, Unmarked
<1>4. ASSUME NEW d \in Decision, Expire(d)
      PROVE  Types' /\ Unmarked'
  BY <1>4 DEF Expire, Types, TypeOK, Unmarked
<1>5. ASSUME NEW d \in Decision, NEW e \in Exchange, NEW s \in Symbol,
             NEW direction \in {"long", "short"}, NEW trailing \in Trailing,
             OpenPosition(d, e, s, direction, trailing)
      PROVE  Types' /\ Unmarked'
  BY <1>5, NewOrder DEF OpenPosition, Types, TypeOK, Unmarked
<1>6. ASSUME NEW d \in Decision, _place_native_stops(d)
      PROVE  Types' /\ Unmarked'
  <2>1. order[d].exchange \in Exchange /\ order[d].symbol \in Symbol
    BY <1>6 DEF _place_native_stops, Types, Order
  <2>2. failures' \in 0 .. MaxFailures
    BY <1>6, FailType DEF _place_native_stops, Types, TypeOK
  <2> DEFINE placed(kinds) == [native EXCEPT ![order[d].exchange][order[d].symbol] =
                                 @ \cup ({d} \X kinds)]
  <2>3. \A kinds \in SUBSET {"sl", "tp"} :
          placed(kinds) \in [Exchange -> [Symbol -> SUBSET (Decision \X {"sl", "tp"})]]
    <3> SUFFICES ASSUME NEW kinds \in SUBSET {"sl", "tp"}
                 PROVE  placed(kinds) \in
                          [Exchange -> [Symbol -> SUBSET (Decision \X {"sl", "tp"})]]
      OBVIOUS
    <3>1. native \in [Exchange -> [Symbol -> SUBSET (Decision \X {"sl", "tp"})]]
      BY DEF Types, TypeOK
    <3>2. native[order[d].exchange][order[d].symbol] \cup ({d} \X kinds)
            \in SUBSET (Decision \X {"sl", "tp"})
      <4>1. {d} \X kinds \subseteq Decision \X {"sl", "tp"}
        OBVIOUS
      <4>2. native[order[d].exchange][order[d].symbol] \subseteq Decision \X {"sl", "tp"}
        BY <2>1, <3>1
      <4>3. \A A, B, C : A \subseteq C /\ B \subseteq C => A \cup B \in SUBSET C
        OBVIOUS
      <4> QED  BY <4>1, <4>2, <4>3, Zenon
    <3> QED  BY <2>1, <3>1, <3>2, NestedType
  <2>4. /\ native' = native \/ \E kinds \in SUBSET {"sl", "tp"} : native' = placed(kinds)
        /\ \/ native_stop_placed' = native_stop_placed
           \/ \E x \in BOOLEAN : native_stop_placed' = [native_stop_placed EXCEPT ![d] = x]
    <3>1. {{"sl"}, {"tp"}, {}, {"sl", "tp"}} \subseteq SUBSET {"sl", "tp"}
      OBVIOUS
    <3>2. native' = native \/ \E kinds \in {{"sl"}, {"tp"}, {}, {"sl", "tp"}} :
                                native' = placed(kinds)
      BY <1>6 DEF _place_native_stops
    <3>3. \/ native_stop_placed' = native_stop_placed
          \/ \E x \in BOOLEAN : native_stop_placed' = [native_stop_placed EXCEPT ![d] = x]
      <4>1. \A kinds : ("sl" \in kinds) \in BOOLEAN
        OBVIOUS
      <4>2. \/ native_stop_placed' = native_stop_placed
            \/ native_stop_placed' = [native_stop_placed EXCEPT ![d] = TRUE]
            \/ \E kinds \in {{"sl"}, {"tp"}, {}} :
                 native_stop_placed' = [native_stop_placed EXCEPT ![d] = "sl" \in kinds]
        BY <1>6, Zenon DEF _place_native_stops
      <4> QED  BY <4>1, <4>2, Zenon
    <3> QED  BY <3>1, <3>2, <3>3
  <2>5. /\ native' \in [Exchange -> [Symbol -> SUBSET (Decision \X {"sl", "tp"})]]
        /\ native_stop_placed' \in [Decision -> BOOLEAN]
    <3> HIDE DEF placed
    <3>1. /\ native \in [Exchange -> [Symbol -> SUBSET (Decision \X {"sl", "tp"})]]
          /\ native_stop_placed \in [Decision -> BOOLEAN]
      BY DEF Types, TypeOK
    <3> QED  BY <2>3, <2>4, <3>1
  <2> QED  BY <1>6, <2>2, <2>5 DEF _place_native_stops, Types, TypeOK, Unmarked
<1>7. ASSUME NEW d \in Decision, _save_stop(d)
      PROVE  Types' /\ Unmarked'
  <2>1. order[d].stop \in Int /\ order[d] # NoOrder
    BY <1>0, <1>7 DEF _save_stop, Types, Order
  <2>2. failures' \in 0 .. MaxFailures
    BY <1>7, FailType DEF _save_stop, Types, TypeOK
  <2> QED  BY <1>7, <2>1, <2>2 DEF _save_stop, Types, TypeOK, Unmarked
<1>8. ASSUME NEW d \in Decision, cancel_stop(d)
      PROVE  Types' /\ Unmarked'
  BY <1>8 DEF cancel_stop, Types, TypeOK, Unmarked
<1>9. ASSUME get_active_stops
      PROVE  Types' /\ Unmarked'
  <2>1. failures' \in 0 .. MaxFailures
    BY <1>9, FailType DEF get_active_stops, Types, TypeOK
  <2> QED  BY <1>9, <2>1 DEF get_active_stops, Types, TypeOK, Unmarked
<1>10. ASSUME NEW e \in Exchange, NEW s \in Symbol, _get_price_for_stop(e, s)
       PROVE  Types' /\ Unmarked'
  <2>1. failures' \in 0 .. MaxFailures
    BY <1>10, FailType DEF _get_price_for_stop, Types, TypeOK
  <2>2. price[e][s] \in Int /\ price["hyperliquid"][s] \in Int
    BY StopAssumption DEF Types, TypeOK, Price
  <2>3. prices' \in [Exchange -> [Symbol -> Int]]
    BY <1>10, <2>2 DEF _get_price_for_stop, Types
  <2> QED  BY <1>10, <2>1, <2>3 DEF _get_price_for_stop, Types, TypeOK, Unmarked
<1>11. ASSUME StartChecks
       PROVE  Types' /\ Unmarked'
  BY <1>11 DEF StartChecks, Types, TypeOK, Unmarked
<1>12. ASSUME NEW d \in Decision, Check(d)
       PROVE  Types' /\ Unmarked'
  <2>1. CASE CheckTimeout(d)
    BY <2>1 DEF CheckTimeout, TriggerStop, Types, TypeOK, Unmarked
  <2>2. CASE CheckNative(d)
    BY <2>2 DEF CheckNative, Types, TypeOK, Unmarked
  <2>3. CASE CheckLevels(d)
    BY <2>3 DEF CheckLevels, TriggerStop, Types, TypeOK, Unmarked
  <2>4. CASE _maybe_update_trailing(d)
    <3>1. failures' \in 0 .. MaxFailures
      BY <2>4, FailType DEF _maybe_update_trailing, Types, TypeOK
    <3>2. _calculate_stop_price(CurrentPrice(d), order[d].direction) \in Int
      BY <2>4, StopsOrdered, StopAssumption DEF _maybe_update_trailing, _calculate_stop_price
    <3>3. stop_price' \in [Decision -> Int]
      BY <2>4, <3>2 DEF _maybe_update_trailing, Types
    <3>4. /\ pc = "check" /\ stops' = stops \ {d}
          /\ UNCHANGED <<exchangeVars, regVars, status, native_stop_placed, reason, at,
                         pc, snapStop, prices, now, cur, why>>
      BY <2>4 DEF _maybe_update_trailing
    <3> QED  BY <3>1, <3>3, <3>4 DEF Types, TypeOK, Unmarked
  <2> QED  BY <1>12, <2>1, <2>2, <2>3, <2>4 DEF Check
<1>13. ASSUME _cancel_native_stops
       PROVE  Types' /\ Unmarked'
  <2>1. failures' \in 0 .. MaxFailures
    BY <1>13, FailType DEF _cancel_native_stops, Types, TypeOK
  <2>2. native' \in [Exchange -> [Symbol -> SUBSET (Decision \X {"sl", "tp"})]]
    <3>1. native \in [Exchange -> [Symbol -> SUBSET (Decision \X {"sl", "tp"})]]
      BY DEF Types, TypeOK
    <3>2. order[cur].exchange \in Exchange /\ order[cur].symbol \in Symbol
      BY <1>13, StopsOrdered DEF _cancel_native_stops, Types, TypeOK
    <3>3. [native EXCEPT ![order[cur].exchange][order[cur].symbol] = {}]
            \in [Exchange -> [Symbol -> SUBSET (Decision \X {"sl", "tp"})]]
      BY <3>1, <3>2, NestedType
    <3> QED  BY <1>13, <3>1, <3>3 DEF _cancel_native_stops
  <2> QED  BY <1>13, <2>1, <2>2 DEF _cancel_native_stops, Types, TypeOK, Unmarked
<1>14. ASSUME _close_position_on_exchange
       PROVE  Types' /\ Unmarked'
  <2>1. failures' \in 0 .. MaxFailures
    BY <1>14, FailType DEF _close_position_on_exchange, Types, TypeOK
  <2>2. held' \in [Exchange -> [Symbol -> SUBSET Decision]]
    <3>1. held \in [Exchange -> [Symbol -> SUBSET Decision]]
      BY DEF Types, TypeOK
    <3>2. order[cur].exchange \in Exchange /\ order[cur].symbol \in Symbol
      BY <1>14, StopsOrdered DEF _close_position_on_exchange, Types, TypeOK
    <3>3. \A e \in Exchange : [held EXCEPT ![e][order[cur].symbol] = {}]
                                \in [Exchange -> [Symbol -> SUBSET Decision]]
      BY <3>1, <3>2, NestedType
    <3> QED  BY <1>14, <3>1, <3>2, <3>3, StopAssumption DEF _close_position_on_exchange
  <2> QED  BY <1>14, <2>1, <2>2 DEF _close_position_on_exchange, Types, TypeOK, Unmarked
<1>15. ASSUME MarkTriggered
       PROVE  Types' /\ Unmarked'
  <2>1. failures' \in 0 .. MaxFailures
    BY <1>15, FailType DEF MarkTriggered, Types, TypeOK
  <2>2. cur \in stops /\ status[cur] \in {"active", "cancelled"} /\ CurrentPrice(cur) \in Int
    <3>1. cur \in stops
      BY <1>15 DEF MarkTriggered, Types, TypeOK
    <3> QED  BY <3>1, StopsOrdered
  <2>3. /\ status' \in [Decision -> {"none", "active", "triggered", "cancelled"}]
        /\ \A d \in Decision : d # cur => status'[d] = status[d]
        /\ reason' \in [Decision -> {"none", "timeout", "stop_loss", "take_profit"}]
        /\ at' \in [Decision -> Int]
    <3>1. /\ status \in [Decision -> {"none", "active", "triggered", "cancelled"}]
          /\ reason \in [Decision -> {"none", "timeout", "stop_loss", "take_profit"}]
          /\ at \in [Decision -> Int]
          /\ why \in {"none", "timeout", "stop_loss", "take_profit"}
      BY DEF Types, TypeOK
    <3>2. \/ UNCHANGED <<status, reason, at>>
          \/ /\ status' = [status EXCEPT ![cur] = "triggered"]
             /\ reason' = [reason EXCEPT ![cur] = why]
             /\ at' = [at EXCEPT ![cur] = CurrentPrice(cur)]
      BY <1>15 DEF MarkTriggered
    <3> QED  BY <2>2, <3>1, <3>2
  <2>4. reg[cur] = "done" /\ order[cur] # NoOrder
    BY <1>0, <2>2, StopsOrdered
  <2> QED  BY <1>15, <2>1, <2>2, <2>3, <2>4 DEF MarkTriggered, Types, TypeOK, Unmarked
<1>16. ASSUME EndPass
       PROVE  Types' /\ Unmarked'
  BY <1>16 DEF EndPass, Types, TypeOK, Unmarked
<1>17. ASSUME UNCHANGED vars
       PROVE  Types' /\ Unmarked'
  BY <1>17 DEF vars, Types, TypeOK, Unmarked
<1> QED  BY <1>1, <1>2, <1>3, <1>4, <1>5, <1>6, <1>7, <1>8, <1>9, <1>10, <1>11, <1>12,
            <1>13, <1>14, <1>15, <1>16, <1>17 DEF Next, Register, Loop

(* What the rows and the stop in hand say stays true: while a stop is      *)
(* looked at nobody changes its row's stop price, its order or its price   *)
(* in this pass.                                                           *)
Truths == Snapshot /\ CauseTrue /\ \A d \in Decision : status[d] = "triggered" => ReasonTrue(d)

LEMMA TruthsKept ==
  ASSUME Types, Unmarked, Truths,
         UNCHANGED <<order, status, stop_price, reason, at, snapStop, prices, cur, why>>,
         expired \subseteq expired', stops' \subseteq stops,
         pc' \in {"cancel", "close", "mark"} => pc \in {"cancel", "close", "mark"}
  PROVE  Truths'
BY DEF Truths, Snapshot, CauseTrue, ReasonTrue, _is_stop_hit, _is_tp_hit, CurrentPrice

LEMMA TruthsNext == Types /\ Unmarked /\ Truths /\ [Next]_vars => Truths'
<1> SUFFICES ASSUME Types, Unmarked, Truths, [Next]_vars PROVE Truths'
  OBVIOUS
<1> USE DEF exchangeVars, regVars, tableVars, loopVars
<1>1. ASSUME NEW e \in Exchange, NEW s \in Symbol, MovePrice(e, s)
      PROVE  Truths'
  BY <1>1, TruthsKept DEF MovePrice
<1>2. ASSUME NEW e \in Exchange, ToggleConnection(e)
      PROVE  Truths'
  BY <1>2, TruthsKept DEF ToggleConnection
<1>3. ASSUME NEW d \in Decision, NEW kind \in {"sl", "tp"}, NativeFill(d, kind)
      PROVE  Truths'
  BY <1>3, TruthsKept DEF NativeFill
<1>4. ASSUME NEW d \in Decision, Expire(d)
      PROVE  Truths'
  BY <1>4, TruthsKept DEF Expire
<1>5. ASSUME NEW d \in Decision, NEW e \in Exchange, NEW s \in Symbol,
             NEW direction \in {"long", "short"}, NEW trailing \in Trailing,
             OpenPosition(d, e, s, direction, trailing)
      PROVE  Truths'
  <2>1. status[d] = "none" /\ d \notin stops
    BY <1>5 DEF OpenPosition, Types, TypeOK, Unmarked
  <2>2. \A c \in Decision \ {d} : order'[c] = order[c]
    BY <1>5 DEF OpenPosition, Types
  <2>3. pc \in {"cancel", "close", "mark"} => cur \in Decision \ {d}
    BY <2>1 DEF Types, TypeOK
  <2>4. /\ Snapshot'
        /\ UNCHANGED <<status, stop_price, reason, at, snapStop, prices, cur, why, pc, expired>>
    BY <1>5 DEF OpenPosition, Truths, Snapshot
  <2>5. CauseTrue'
    BY <2>2, <2>3, <2>4 DEF Truths, CauseTrue, _is_stop_hit, _is_tp_hit, CurrentPrice
  <2>6. \A c \in Decision : status'[c] = "triggered" => ReasonTrue(c)'
    BY <2>1, <2>2, <2>4 DEF Truths, ReasonTrue, _is_stop_hit, _is_tp_hit
  <2> QED  BY <2>4, <2>5, <2>6 DEF Truths
<1>6. ASSUME NEW d \in Decision, _place_native_stops(d)
      PROVE  Truths'
  BY <1>6, TruthsKept DEF _place_native_stops
<1>7. ASSUME NEW d \in Decision, _save_stop(d)
      PROVE  Truths'
  <2>1. status[d] = "none" /\ d \notin stops
    BY <1>7 DEF _save_stop, Types, TypeOK, Unmarked
  <2>2. \A c \in Decision \ {d} : stop_price'[c] = stop_price[c] /\ status'[c] = status[c]
    BY <1>7 DEF _save_stop, Types, TypeOK
  <2>3. status'[d] # "triggered"
    BY <1>7, <2>1 DEF _save_stop, Types, TypeOK
  <2>4. UNCHANGED <<order, reason, at, snapStop, prices, cur, why, pc, expired, stops>>
    BY <1>7 DEF _save_stop
  <2>5. Snapshot'
    BY <2>1, <2>2, <2>4 DEF Truths, Snapshot, Types, TypeOK
  <2>6. CauseTrue'
    BY <2>4 DEF Truths, CauseTrue, _is_stop_hit, _is_tp_hit, CurrentPrice
  <2>7. \A c \in Decision : status'[c] = "triggered" => ReasonTrue(c)'
    BY <2>2, <2>3, <2>4 DEF Truths, ReasonTrue, _is_stop_hit, _is_tp_hit
  <2> QED  BY <2>5, <2>6, <2>7 DEF Truths
<1>8. ASSUME NEW d \in Decision, cancel_stop(d)
      PROVE  Truths'
  <2>1. \A c \in Decision : status'[c] = "triggered" => status[c] = "triggered"
    BY <1>8 DEF cancel_stop, Types, TypeOK
  <2> QED  BY <1>8, <2>1 DEF cancel_stop, Truths, Snapshot, CauseTrue, ReasonTrue,
                             _is_stop_hit, _is_tp_hit, CurrentPrice
<1>9. ASSUME get_active_stops
      PROVE  Truths'
  <2>1. /\ UNCHANGED <<order, status, stop_price, reason, at, expired>>
        /\ \/ snapStop' = stop_price
           \/ UNCHANGED <<stops, snapStop>>
        /\ pc' \notin {"cancel", "close", "mark"}
    BY <1>9 DEF get_active_stops
  <2> QED  BY <2>1 DEF Truths, Snapshot, CauseTrue, ReasonTrue, _is_stop_hit, _is_tp_hit
<1>10. ASSUME NEW e \in Exchange, NEW s \in Symbol, _get_price_for_stop(e, s)
       PROVE  Truths'
  BY <1>10 DEF _get_price_for_stop, Truths, Snapshot, CauseTrue, ReasonTrue,
               _is_stop_hit, _is_tp_hit
<1>11. ASSUME StartChecks
       PROVE  Truths'
  BY <1>11, TruthsKept DEF StartChecks
<1>12. ASSUME NEW d \in Decision, Check(d)
       PROVE  Truths'
  <2>1. CASE CheckTimeout(d)
    <3>1. d \in expired
      BY <2>1 DEF CheckTimeout, Types, TypeOK
    <3> QED  BY <2>1, <3>1 DEF CheckTimeout, TriggerStop, Truths, Snapshot, CauseTrue,
                               ReasonTrue, _is_stop_hit, _is_tp_hit
  <2>2. CASE CheckNative(d)
    BY <2>2, TruthsKept DEF CheckNative
  <2>3. CASE CheckLevels(d)
    BY <2>3 DEF CheckLevels, TriggerStop, Truths, Snapshot, CauseTrue, ReasonTrue,
                _is_stop_hit, _is_tp_hit, CurrentPrice
  <2>4. CASE _maybe_update_trailing(d)
    <3>1. /\ pc = "check" /\ pc' = "check" /\ stops' = stops \ {d}
          /\ UNCHANGED <<order, status, reason, at, expired, snapStop>>
          /\ \/ stop_price' = stop_price
             \/ status[d] = "active" /\ \A c \in Decision \ {d} : stop_price'[c] = stop_price[c]
      BY <2>4 DEF _maybe_update_trailing, Types
    <3>2. stops \subseteq Decision
      BY DEF Types, TypeOK
    <3> QED  BY <3>1, <3>2 DEF Truths, Snapshot, CauseTrue, ReasonTrue,
                               _is_stop_hit, _is_tp_hit
  <2> QED  BY <1>12, <2>1, <2>2, <2>3, <2>4 DEF Check
<1>13. ASSUME _cancel_native_stops
       PROVE  Truths'
  BY <1>13, TruthsKept DEF _cancel_native_stops
<1>14. ASSUME _close_position_on_exchange
       PROVE  Truths'
  BY <1>14, TruthsKept DEF _close_position_on_exchange
<1>15. ASSUME MarkTriggered
       PROVE  Truths'
  <2>1. cur \in stops /\ cur \in Decision /\ snapStop[cur] = stop_price[cur]
    BY <1>15 DEF MarkTriggered, Types, TypeOK, Truths, Snapshot
  <2>2. /\ pc' = "check" /\ stops' = stops \ {cur} /\ pc = "mark"
        /\ UNCHANGED <<order, stop_price, expired, snapStop, prices, cur, why>>
    BY <1>15 DEF MarkTriggered
  <2>3. CASE UNCHANGED <<status, reason, at>>
    BY <2>2, <2>3 DEF Truths, Snapshot, CauseTrue, ReasonTrue, _is_stop_hit, _is_tp_hit
  <2>4. CASE /\ status' = [status EXCEPT ![cur] = "triggered"]
             /\ reason' = [reason EXCEPT ![cur] = why]
             /\ at' = [at EXCEPT ![cur] = CurrentPrice(cur)]
    <3>1. /\ reason'[cur] = why /\ at'[cur] = CurrentPrice(cur)
          /\ \A c \in Decision \ {cur} : /\ status'[c] = status[c]
                                         /\ reason'[c] = reason[c] /\ at'[c] = at[c]
      BY <2>1, <2>4 DEF Types, TypeOK
    <3>2. ReasonTrue(cur)'
      BY <2>1, <2>2, <3>1 DEF Truths, CauseTrue, ReasonTrue, _is_stop_hit, _is_tp_hit
    <3>3. \A c \in Decision : status'[c] = "triggered" => ReasonTrue(c)'
      BY <2>2, <3>1, <3>2 DEF Truths, ReasonTrue, _is_stop_hit, _is_tp_hit
    <3> QED  BY <2>2, <3>3 DEF Truths, Snapshot, CauseTrue
  <2> QED  BY <1>15, <2>3, <2>4 DEF MarkTriggered
<1>16. ASSUME EndPass
       PROVE  Truths'
  BY <1>16, TruthsKept DEF EndPass
<1>17. ASSUME UNCHANGED vars
       PROVE  Truths'
  BY <1>17, TruthsKept DEF vars
<1> QED  BY <1>1, <1>2, <1>3, <1>4, <1>5, <1>6, <1>7, <1>8, <1>9, <1>10, <1>11, <1>12,
            <1>13, <1>14, <1>15, <1>16, <1>17 DEF Next, Register, Loop

(* The inductive invariant holds in every reachable state.                 *)
THEOREM SInvariance == Spec => []SInv
<1>1. SInv /\ [Next]_vars => SInv'
  BY TNext, TruthsNext DEF SInv, Truths
<1> QED  BY <1>1, SInit, PTL DEF Spec

(* The reason a row gives for its trigger is true of the row, although     *)
(* check_stops judged an older copy of it: what _trigger_stop is about to  *)
(* mark has not changed since.                                             *)
THEOREM RecordedReason == Spec => []RecordedReasonTrue
<1>1. SInv => RecordedReasonTrue
  BY DEF SInv, ReasonTrue, RecordedReasonTrue, _is_stop_hit
<1> QED  BY <1>1, SInvariance, PTL

(* No row's stop ever moves away from the price: the stop price that       *)
(* _maybe_update_trailing compares with is the one it overwrites, because  *)
(* only the loop itself writes the stop prices of active rows.             *)
THEOREM StopsOnlyTighten == Spec => TrailingNeverLoosens
<1> DEFINE A == \A d \in Decision : status[d] = "active" /\ stop_price'[d] # stop_price[d] =>
                 IF order[d].direction = "long" THEN stop_price'[d] > stop_price[d]
                                                ELSE stop_price'[d] < stop_price[d]
<1>1. ASSUME SInv, [Next]_vars PROVE A
  <2> USE DEF exchangeVars, regVars, tableVars, loopVars
  <2>1. ASSUME NEW d \in Decision, _save_stop(d) PROVE A
    BY <1>1, <2>1 DEF _save_stop, SInv, Types, TypeOK
  <2>2. ASSUME NEW d \in Decision, _maybe_update_trailing(d) PROVE A
    <3>1. d \in stops /\ snapStop[d] = stop_price[d]
      BY <1>1, <2>2 DEF _maybe_update_trailing, SInv, Snapshot
    <3> DEFINE new == _calculate_stop_price(CurrentPrice(d), order[d].direction)
    <3>2. \/ stop_price' = stop_price
          \/ /\ stop_price' = [stop_price EXCEPT ![d] = new]
             /\ IF order[d].direction = "long" THEN new > snapStop[d] ELSE new < snapStop[d]
      BY <2>2 DEF _maybe_update_trailing
    <3> HIDE DEF new
    <3> QED  BY <1>1, <3>1, <3>2 DEF SInv, Types
  <2>3. ASSUME ~(\E d \in Decision : _save_stop(d) \/ _maybe_update_trailing(d)) PROVE A
    <3>1. UNCHANGED stop_price
      BY <1>1, <2>3 DEF Next, Register, Loop, Check, vars, MovePrice, ToggleConnection,
           NativeFill, Expire, OpenPosition, _place_native_stops, cancel_stop,
           get_active_stops, _get_price_for_stop, StartChecks, CheckTimeout, TriggerStop,
           CheckNative, CheckLevels, _cancel_native_stops, _close_position_on_exchange,
           MarkTriggered, EndPass
    <3> QED  BY <3>1
  <2> QED  BY <2>1, <2>2, <2>3
<1> QED  BY <1>1, SInvariance, PTL DEF Spec, TrailingNeverLoosens

(* A stop that has been marked triggered closes nothing again: the stop in *)
(* hand is one of those still to be looked at, and those are unmarked.     *)
THEOREM MarkedClosesNothing == Spec => TriggeredOnce
<1>1. SInv => (_close_position_on_exchange => status[cur] # "triggered")
  BY DEF SInv, Types, TypeOK, Unmarked, _close_position_on_exchange
<1> QED  BY <1>1, SInvariance, PTL DEF Spec, TriggeredOnce
=============================================================================
