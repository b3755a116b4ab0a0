SPECIFICATION Spec
CONSTANTS
  Decision = {d1}
  Symbol = {"BTC"}
  Exchange = {"hyperliquid"}
  MaxPrice = 5
  Dist = 2
  RR = 1
  Trailing = {TRUE, FALSE}
  UseNative = TRUE
  LoopStarted = TRUE
  MaxFailures = 2
INVARIANTS RecordedReasonTrue
PROPERTIES TrailingNeverLoosens TriggeredOnce
