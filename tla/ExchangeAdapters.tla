-------------------------- MODULE ExchangeAdapters --------------------------
(***************************************************************************)
(* The three exchange adapters of hl-decide, and hl_exchange.py which is   *)
(* older than they are, as what their calls can answer.                    *)
(*                                                                         *)
(* up says whether the venue answers this call.  An order has two sides:   *)
(* what happened at the venue (executed, and guarded: with a stop of the   *)
(* venue's own) and what the adapter tells (success, and priced: with a    *)
(* fill price and size).                                                   *)
(***************************************************************************)

Name(symbol, suffix) == <<symbol, suffix>>

Outcome(executed, success, priced) ==
  [executed |-> executed, success |-> success, priced |-> priced, guarded |-> FALSE]

Refused == Outcome(FALSE, FALSE, FALSE)
Filled  == Outcome(TRUE, TRUE, TRUE)
\* An exception after the request was sent: the venue may have executed it.
Lost    == Outcome(TRUE, FALSE, FALSE)
\* The venue took the order and told nothing of a fill, if there was one.
Untold  == {Outcome(TRUE, TRUE, FALSE), Outcome(FALSE, TRUE, FALSE)}

\* The stop loss travels with the order: an executed order has its stop.
WithStop(outcomes) == {[o EXCEPT !.guarded = o.executed] : o \in outcomes}

--------------------------------------------------------------------------
\* connect: Hyperliquid's Info and Bybit's wallet request need an answer;
\* Aster only builds a wallet and a client.
HyperliquidConnect(up) == up
BybitConnect(up)       == up
AsterConnect(up)       == TRUE

Connect(v, up) == CASE v = "hyperliquid" -> HyperliquidConnect(up)
                    [] v = "bybit"       -> BybitConnect(up)
                    [] v = "aster"       -> AsterConnect(up)

\* get_balance: an error is answered with None.  Aster does not ask whether it
\* is connected; without a wallet its request fails.
HyperliquidBalance(up) == up
BybitBalance(up)       == up
AsterBalance(up)       == up

Balance(v, up) == CASE v = "hyperliquid" -> HyperliquidBalance(up)
                    [] v = "bybit"       -> BybitBalance(up)
                    [] v = "aster"       -> AsterBalance(up)

\* get_positions: an error is answered with no positions at all.
HyperliquidPositions(held, up) == IF up THEN {Name(s, "") : s \in held} ELSE {}
BybitPositions(held, up)       == IF up THEN {Name(s, "USDT") : s \in held} ELSE {}
AsterPositions(held, up)       == IF up THEN {Name(s, "-PERP") : s \in held} ELSE {}

Positions(v, held, up) == CASE v = "hyperliquid" -> HyperliquidPositions(held, up)
                            [] v = "bybit"       -> BybitPositions(held, up)
                            [] v = "aster"       -> AsterPositions(held, up)

\* Parsing the answer to an order.  Hyperliquid ("resting") and Aster
\* ("pending") know an answer without a fill.
HyperliquidAnswer == {Filled, Refused} \cup Untold
AsterAnswer       == {Filled, Refused} \cup Untold

\* A signed request of Aster answers an exception like an error of the venue.
AsterRequest == AsterAnswer \cup {Lost}

\* Bybit's place_order asks for the status of the order half a second later
\* and reports success whatever it learns; alone it passes the stop loss of
\* the parameters on.
BybitStatus == {Filled} \cup Untold
BybitOrder  == WithStop(BybitStatus \cup {Refused, Lost})

\* open_position: no price of the venue, no order.
HyperliquidOpen == HyperliquidAnswer \cup {Refused, Lost}
BybitOpen       == BybitOrder
AsterOpen       == AsterRequest \cup {Refused}

OpenPosition(v) == CASE v = "hyperliquid" -> HyperliquidOpen
                     [] v = "bybit"       -> BybitOpen
                     [] v = "aster"       -> AsterOpen

\* execute_market_order of hl_exchange.py, the path without the manager
LegacyOpen == HyperliquidAnswer \cup {Refused, Lost}

\* close_position of a symbol: held says whether there is a position, up
\* whether the adapter's own look for it was answered.  Without a position
\* Bybit reports a failure and Aster success, as Aster does when it could not
\* look; Hyperliquid has the venue find the position.
HyperliquidClose(held, up) ==
  IF held /\ up THEN HyperliquidAnswer \cup {Lost} ELSE {Refused}

BybitClose(held, up) == IF held /\ up THEN BybitOrder ELSE {Refused}

AsterClose(held, up) ==
  IF held /\ up THEN AsterOpen ELSE {Outcome(FALSE, TRUE, TRUE)}

ClosePosition(v, held, up) == CASE v = "hyperliquid" -> HyperliquidClose(held, up)
                                [] v = "bybit"       -> BybitClose(held, up)
                                [] v = "aster"       -> AsterClose(held, up)
=============================================================================
