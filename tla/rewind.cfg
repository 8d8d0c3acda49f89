\* A ring that overruns the browser, holes, evictions, a symbol change, a restart.
SPECIFICATION RewindSpec
CONSTANTS
  Symbols = {s1, s2}
  NoSymbol = none
  QueueSize = 1
  RecordBatch = 2
  RingSize = 1
  MaxBatch = 2
  SnapshotTrades = 1
  Capacity = 3
  BufferSpan = 3
  MaxGaps = 2
  MaxPages = 2
  Rewinds = {b1}
  MaxPrints = 4
  MaxRuns = 2
SYMMETRY AnySymbol
INVARIANTS RecordIsHonest BufferIsExact
CHECK_DEADLOCK FALSE
