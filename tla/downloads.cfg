\* Downloads that overlap, fail, retry and are abandoned.
SPECIFICATION DownloadsSpec
CONSTANTS
  Provided <- Ticks
  NanosPerMicro = 2
  Requests <- Ranges
  Trading <- Session
  BatchSize = 2
  MaxRetries = 1
  MaxDownloads = 3
INVARIANTS CoveredIsStoredOnce CoverageIntervalsExact
PROPERTIES OutsideKept DownloadEnds
CHECK_DEADLOCK FALSE
