\* Two symbols: a backfill that is on its way when the symbol changes.
SPECIFICATION RewindSpec
CONSTANTS
  Symbols = {s1, s2}
  NoSymbol = none
  QueueSize = 1
  RecordBatch = 1
  RingSize = 1
  MaxBatch = 2
  SnapshotTrades = 1
  Capacity = 3
  BufferSpan = 9
  MaxGaps = 2
  MaxPages = 2
  Rewinds = {b1}
  MaxPrints = 5
  MaxRuns = 1
INVARIANT OneStreamOnly
CHECK_DEADLOCK FALSE
