\* One symbol whose ring wraps, or three symbols and a history of two; one rebuild at a time.
SPECIFICATION ScopedSpec
CONSTANTS
  Symbols = {aapl, nvda, iren}
  DefaultSymbol = aapl
  Builders = {b1}
  RingSize = 2
  HistorySize = 2
  Prints <- OnePrint
  RecordedTags <- OneTag
  TopsOfBook <- OneTop
  LastTrades <- OneLast
  DayVolumes <- OneDay
  Closes <- None
  MaxSeq = 3
  MaxGeneration = 3
SYMMETRY Interchangeable
INVARIANTS StagesContinue ReadersExact HistoryIsRecency
PROPERTIES ImplementsTapeLog NoLostPublication EvictsLeastRecent
CHECK_DEADLOCK FALSE
