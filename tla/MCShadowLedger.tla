--------------------------- MODULE MCShadowLedger ---------------------------
(* A small instance of ShadowLedger for TLC: two traders; one good episode  *)
(* has a p-value that only two traders together may have.                   *)
EXTENDS ShadowLedger

MCR == {40, -40}

MCPValue(es) ==
  IF \E e \in es : e.r < 0 THEN 90 ELSE IF Cardinality(es) = 1 THEN 8 ELSE 4
=============================================================================
