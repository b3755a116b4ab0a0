--------------------------- MODULE MCStopManager ---------------------------
(* Small instances of StopManager for TLC: the values are in the .cfg      *)
(* files.                                                                  *)
EXTENDS StopManager
=============================================================================
