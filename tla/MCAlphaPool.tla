---------------------------- MODULE MCAlphaPool ----------------------------
(* A small instance of AlphaPool for TLC.  The leaderboard may list the     *)
(* best trader behind the candidates that are collected, and its first      *)
(* candidate may be one that trades through subaccounts or too often.       *)
EXTENDS AlphaPool

MCTrader == {1, 2, 3}
Row(row, pnl, kind) == [row |-> row, pnl |-> pnl, kind |-> kind]
MCBoards == {<<Row(1, 1, "clean"), Row(2, 2, "clean"), Row(3, 3, "clean")>>,
             <<Row(3, 1, "clean"), Row(1, 3, "subaccounts"), Row(2, 2, "hft")>>}
\* The third has yet to trade BTC or ETH.
MCInitialFills == <<1, 1, 0>>
MCPosteriors == {<<1, 2, 1>>}
\* The first two fills of a trader are of one transaction.
MCTransaction(t, n) == <<t, Max({n, 2})>>
=============================================================================
