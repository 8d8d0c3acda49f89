\* Events that share a microsecond, and a row that playback skips.
SPECIFICATION ReplaySpec
CONSTANTS
  Symbols = {aapl, nvda}
  DefaultSymbol = aapl
  Recording <- Skips
  Times = {1, 2}
  MaxGeneration = 3
INVARIANTS PlayedExactly StatusIsTruthful
PROPERTIES CueIsAtomic PlaybackSettles
CHECK_DEADLOCK FALSE
