\* Overruns and rebuilds of one symbol, switches and quotes of two.
SPECIFICATION FairSpec
CONSTANTS
  Symbols = {aapl, nvda}
  DefaultSymbol = aapl
  Builders = {b1}
  RingSize = 2
  HistorySize = 2
  Prints <- QuietPrint
  RecordedTags <- None
  TopsOfBook <- None
  LastTrades <- None
  DayVolumes <- None
  Closes = {1}
  MaxSeq = 4
  MaxGeneration = 2
  SnapshotTrades = 1
  MaxBatch = 1
  DrainLimit = 2
  MaxConnects = 2
INVARIANT StreamExact
PROPERTY CatchesUp
CHECK_DEADLOCK FALSE
