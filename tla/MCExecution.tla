---------------------------- MODULE MCExecution ----------------------------
(* Small instances of Execution for TLC: two venues with different account *)
(* values, days and a cool-down of two ticks.                              *)
EXTENDS Execution, TLC

MCStartEquity == [v \in Venue |-> IF v = HL THEN 20 ELSE 19]
MCSetups == {
  [real |-> TRUE,  keys |-> Venue,        legacy |-> TRUE],
  [real |-> TRUE,  keys |-> Venue,        legacy |-> FALSE],
  [real |-> TRUE,  keys |-> Venue \ {HL}, legacy |-> TRUE],
  [real |-> FALSE, keys |-> Venue,        legacy |-> TRUE]}
Symmetry == Permutations(Symbol)
=============================================================================
