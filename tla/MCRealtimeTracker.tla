------------------------- MODULE MCRealtimeTracker -------------------------
(* A small instance of RealtimeTracker for TLC: two traders, the position   *)
(* of one of them observed, connections that take one user.                 *)
EXTENDS RealtimeTracker

\* Three events from without are followed together.  None of them is what a
\* fair step waits for: where a call may fail it may succeed as well.
FewEvents == moves' + changes' + faults' <= 3
=============================================================================
