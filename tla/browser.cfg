SPECIFICATION Spec
CONSTANTS
  Symbols = {aapl, nvda}
  FirstSymbol = aapl
  NoSymbol = none
  Modes = {"replay", "live"}
  Length = 2
  SnapshotTrades = 2
  MaxNav = 2
  MaxGeneration = 2
  MaxWire = 1
  MaxTickets = 3
  MaxUpsets = 2
INVARIANTS TapeAndCandlesAgree NavigationFollows
CHECK_DEADLOCK FALSE
