--------------------------- MODULE MCCorrelations ---------------------------
(* Small instances of Correlations for TLC: three traders that move alike,  *)
(* or not, or trade one asset only.                                         *)
EXTENDS Correlations

MCTrader == {1, 2, 3}
MCLogWeight(n) == 100
MCDecay(age) == CASE age = 1 -> 79 [] age = 2 -> 63 [] OTHER -> 50
Clones == [t \in MCTrader |-> <<1, 1>>]
\* Trader 3 shows no fills; the others hold the same, or the opposite.
Alike == [t \in MCTrader |-> IF t = 3 THEN <<>> ELSE <<1, 1>>]
Opposite == [t \in MCTrader |-> IF t = 1 THEN <<1, 1>> ELSE IF t = 2 THEN <<-1, -1>> ELSE <<>>]
MCPostures == {[BTC |-> Clones, ETH |-> Alike], [BTC |-> Opposite, ETH |-> Alike]}
=============================================================================
