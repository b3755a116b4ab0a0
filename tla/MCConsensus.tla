---------------------------- MODULE MCConsensus ----------------------------
(* Small instances of Consensus for TLC: three traders; with weights of one *)
(* size, three independent ones have K = 3, three of the default            *)
(* correlation 1.875, clones 1.                                             *)
EXTENDS Consensus

MCTrader == {1, 2, 3}
MCLogWeight(n) == IF n > 10010 THEN 18 ELSE 17
MCDecay(age) == CASE age = 1 -> 79 [] age = 2 -> 63 [] OTHER -> 50
MCNone == [t \in MCTrader |-> <<>>]
MCClones == [t \in MCTrader |-> <<1, 1>>]
MCApart == [t \in MCTrader |-> IF t = 1 THEN <<1, 1>> ELSE IF t = 2 THEN <<1, -1>> ELSE <<-1, 1>>]
Posture(btc, eth) == [a \in Asset |-> IF a = "BTC" THEN btc ELSE eth]
MCPostures == {Posture(MCApart, MCNone), Posture(MCClones, MCNone)}
Episode(d, ts) == [direction |-> d, price |-> 10000, ts |-> ts]
MCRestored == {[t \in Trader |-> Episode("short", 0)],
               [t \in Trader |-> IF t = 3 THEN NoPosition ELSE Episode("long", 160)]}
MCMarks == {[atr14 |-> 0, candles |-> 50, realized |-> 0],
            [atr14 |-> 0, candles |-> 0, realized |-> 0]}
MCQuotes == {[funding |-> 4, slippage |-> 0, episodes |-> 10, median |-> 8]}
MCViews == {[candles |-> 60, spread |-> {0}, ratio |-> {210}, range |-> {350}],
            [candles |-> 50, spread |-> {250}, ratio |-> {}, range |-> {350}]}
\* A behaviour is followed until its live fill is dealt with, or until no fill
\* is to come: after that no other signal arises within the bounds.
SignalPossible == handler # NoSignal \/ (mid = 0 /\ fills < MaxFills)
\* A replayed fill changes nothing but a position, which only the next fill
\* reads: of the orders that differ in what comes in between, the one with
\* nothing in between is followed.
ReplayBeforeFill ==
  IF handler = NoSignal THEN fills > 0 => fills' > fills ELSE fills' = fills
MCVenues == <<"hyperliquid", "bybit">>
=============================================================================
