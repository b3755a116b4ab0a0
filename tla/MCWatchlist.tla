---------------------------- MODULE MCWatchlist ----------------------------
(* A small instance of Watchlist for TLC: the values are in Watchlist.cfg, *)
(* without symmetry, which the liveness checks do not allow.               *)
EXTENDS Watchlist
=============================================================================
