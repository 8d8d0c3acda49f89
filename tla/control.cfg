\* Two controllers and an operator: every way to serve a request, late and repeated.
SPECIFICATION ControlSpec
CONSTANTS
  Symbols = {aapl, nvda}
  DefaultSymbol = aapl
  Recording <- Few
  Times = {2}
  MaxGeneration = 3
  Sessions = {c1, c2}
  Scripts <- Conversations
  MaxDetailedSpeed = 2
  SyncTolerance = 1
INVARIANTS OwnershipHolds
PROPERTIES OneOwnerInOrder InPlaceIsExact ServiceReturns
CHECK_DEADLOCK FALSE
