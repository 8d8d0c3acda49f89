\* A controller whose cue of another symbol fails, and which then goes on with the first.
SPECIFICATION ControlSpec
CONSTANTS
  Symbols = {aapl, nvda}
  DefaultSymbol = aapl
  Recording <- Few
  Times = {2}
  MaxGeneration = 3
  Sessions = {c1, c2}
  Scripts <- Detours
  MaxDetailedSpeed = 2
  SyncTolerance = 1
INVARIANTS StatusNamesTheTape
CHECK_DEADLOCK FALSE
