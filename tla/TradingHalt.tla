---------------------------- MODULE TradingHalt ----------------------------
(***************************************************************************)
(* What the kill switch of hl-decide promises, without saying how: once    *)
(* trading has been halted no order leaves the process until the cool-down *)
(* is over.  The promise is of one process: a restart forgets the halt.    *)
(***************************************************************************)
EXTENDS Naturals

CONSTANT Cooldown

VARIABLES
  time,
  haltedUntil,  \* orders are held back while time < haltedUntil
  orders,       \* orders sent so far
  restarts      \* how often the process has died

vars == <<time, haltedUntil, orders, restarts>>

Init == time = 0 /\ haltedUntil = 0 /\ orders = 0 /\ restarts = 0

\* Time passes; a halt that is over is over.
Advance ==
  /\ time' = time + 1
  /\ haltedUntil' = IF time' < haltedUntil THEN haltedUntil ELSE 0
  /\ UNCHANGED <<orders, restarts>>

Halt ==
  /\ haltedUntil = 0 /\ haltedUntil' = time + Cooldown
  /\ UNCHANGED <<time, orders, restarts>>

Order ==
  /\ haltedUntil = 0 /\ orders' = orders + 1
  /\ UNCHANGED <<time, haltedUntil, restarts>>

Restart ==
  /\ restarts' = restarts + 1 /\ haltedUntil' = 0
  /\ UNCHANGED <<time, orders>>

Next == Advance \/ Halt \/ Order \/ Restart

Spec == Init /\ [][Next]_vars
=============================================================================
