\* Every display that remembers, and the mixer.
SPECIFICATION Spec
CONSTANTS
  TickChoices = {1, 25}
  Presets = {1}
  LargeSizes = {1, 9}
  MaxLarge = 5
  Durations = {42, 110}
  Legacy = 42
  Primary = {"tape-pressure", "adr-rth-extension"}
  Lower = {"options-flow", "kronos-forecast", "tick-chart"}
  FirstPrimary = "adr-rth-extension"
  ResetPrimary = "tape-pressure"
  FirstLower = "options-flow"
  FormerLower = "kronos-forecast"
  TickChart = "tick-chart"
  MaxChanges = 3
  MaxLoads = 1
  Kinds = {"gex", "overlay", "rvol", "forecast", "flow", "adr", "volatility", "chartHistory",
           "dayMap", "daily", "warmup", "review", "lines"}
  Symbols = {"a", "b"}
  MaxClock = 1
  SessionLength = 2
  StaleAfter = 0
  Pace = 1
  Retry = 1
  MaxTries = 2
  MaxPanelChanges = 2
  MaxFailures = 2
  SampleRate = 8
  RateWindow = 3
  MinimumSpan = 1
  FullDetail = 4
  MinSmall = 3
  MaxDelay = 2
  Sizes = {1, 2, 8}
  LargeChoices = {2, 8}
  Pools = {1, 2}
  Decay = 2
  NoteGap = 1
  MaxBatch = 2
  MaxPrints = 3
  MaxFrame = 5
  MaxConfigs = 1
  TicksOfDay = 5
  QuietTicks = 1
  CounterLife = 2
  DailyCloses <- SomeCloses
  DaysAsked = 3
  DaysDrawn = 2
  BandWindow = 3
  PricesPaid = {3, 9}
  ReadoutModes = {"live", "replay"}
  RowsOffered = {1, 2}
  MaxReadoutEvents = 3
  LastReadoutTick = 16
  Chains <- SomeChains
  PrintKinds <- SomeFlow
  MaxAge = 2
  Slack = 1
  FreshAge = 1
  Flow = 1
  Trend = 1
  Long = 2
  Guard = 1
  Retained = 3
  Pruned = 4
  MinPrints = 1
  MinSeconds = 1
  ReturnBins = 1
  MaxNow = 3
  MaxTape = 2
  MaxAnswers = 2
  MaxResets = 1
INVARIANTS SettingsStand  ReadoutsCurrent PanelsCurrent
PROPERTY LargeIsHeard
CHECK_DEADLOCK FALSE
