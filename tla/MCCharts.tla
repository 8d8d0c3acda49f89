------------------------------- MODULE MCCharts -------------------------------
(***************************************************************************)
(* Instances for TLC of the parts of the page that compute charts and measures *)
(* from prints and answers. *)
(* They share no state, so each behaviour is of one of them, chosen at first. *)
(***************************************************************************)
EXTENDS Integers, Sequences, TLC

VARIABLES part,  \* the one that runs
          delivered, now, number, snapshots, stream, bars, ticks, candles, buffer, added,
          typed, wallDay, observed, pivot, inFlight, mapping, canvas, reported, loads,
          draws, side, context, amended, past, heard, boundary, request, filled, answers,
          position, stopped, run, wire, paused, clock, panel, requests, pauses, replaying,
          file, memory

vars == <<part, delivered, now, number, snapshots, stream, bars, ticks, candles, buffer,
          added, typed, wallDay, observed, pivot, inFlight, mapping, canvas, reported,
          loads, draws, side, context, amended, past, heard, boundary, request, filled,
          answers, position, stopped, run, wire, paused, clock, panel, requests, pauses,
          replaying, file, memory>>

Every == {"price", "range", "volume", "last"}

\* A buy, and a sale that sets a price outside the range.
SomeReports == {[p |-> 2, z |-> 1, d |-> 1, f |-> Every, m |-> 1],
                [p |-> 3, z |-> 2, d |-> -1, f |-> {"price", "volume"}, m |-> 3]}

\* Waves of a few forms, then any candles.
Level(price) == [high |-> price + 1, low |-> price, close |-> price]
Wave(unit, n) == [i \in 1 .. n |-> Level(unit[((i - 1) % Len(unit)) + 1])]
SomeCandles == {Level(1), Level(4), [high |-> 4, low |-> 1, close |-> 3]}
SomeHistories == {<<>>} \cup {Wave(unit, n) :
  unit \in {<<3, 2, 1, 2>>, <<2, 3, 4, 5, 4, 3>>, <<4, 1, 3, 2, 5, 1, 4>>, <<5, 3, 4, 2, 3, 1, 4>>},
  n \in {9, 12}}
LargeAndSmall(large, small) == [large |-> large, small |-> small]

\* One symbol lacks the session before, one session is flat.
Bar(high, low, close) == [high |-> high, low |-> low, close |-> close]
CONSTANT NoBar
SomeSessions == [k \in {"nvda", "amd"} \X {1, 2} |->
  IF k = <<"amd", 1>> THEN NoBar
  ELSE IF k[1] = "amd" THEN Bar(8, 4, 6) ELSE IF k[2] = 1 THEN Bar(30, 20, 25) ELSE Bar(26, 26, 26)]
PaneOf(bottom, low, high, blocked) ==
  [top |-> 0, bottom |-> bottom, minimum |-> low, maximum |-> high, blocked |-> blocked]
SomePanes == {PaneOf(100, 60, 100, <<40>>), PaneOf(100, 58, 160, <<66, 84>>), PaneOf(60, 12, 30, <<>>)}

\* 10000 ln(p / 1000), rounded; the session of day 1 begins with minute 20.
SomeLogs == (990 :> -101) @@ (995 :> -50) @@ (1000 :> 0) @@ (1001 :> 10) @@ (1003 :> 30) @@ (1004 :> 40)
            @@ (1010 :> 100) @@ (1020 :> 198) @@ (1040 :> 392)
Candle(low, high, close, volume) == [low |-> low, high |-> high, close |-> close, volume |-> volume]
SomeMinutes == [m \in 5 .. 9 \cup 20 .. 23 |->
  IF m < 20 THEN Candle(1000, 1000, 1000, 4)
  ELSE Candle(1000, 1001, 1000, 10)]
SomePath == <<{Candle(1000, 1003, 1003, 10)}, {Candle(1001, 1004, 1004, 10)},
              {Candle(1003, 1010, 1010, 40), Candle(1000, 1004, 1000, 5)},
              {Candle(1010, 1020, 1020, 40), Candle(990, 1010, 990, 10)},
              {Candle(1020, 1040, 1040, 60), Candle(990, 1040, 990, 10)}>>
SomeCloses == <<[day |-> -1, close |-> 990], [day |-> 0, close |-> 995]>>

\* A day of six minutes: night, premarket, three regular ones, evening.  The first past
\* is a whole day with a gap; the second has no regular candle before today.
Trade(t, p) == [t |-> t, p |-> p, z |-> 1, f |-> {"price", "range", "volume"}]
SomePasts == {<<Trade(7, 2), Trade(8, 3), Trade(8, 1), Trade(10, 2), Trade(13, 3)>>,
              <<Trade(11, 1), Trade(13, 2), Trade(14, 2)>>}

\* A recording whose session (minutes 1 to 3 of 5) goes on between the answer and the
\* stream, has two prints of one receipt and one print of the session after.
Recorded(r, m, p, f) == [r |-> r, m |-> m, p |-> p, f |-> f]
OpenClose == {"oc", "hl"}
SomePrints == <<Recorded(1, 1, 5, OpenClose), Recorded(2, 2, 3, OpenClose), Recorded(3, 3, 4, {"hl"}),
                Recorded(3, 2, 6, OpenClose), Recorded(6, 6, 9, OpenClose)>>
SomeRanges == <<[day |-> -1, range |-> 3], [day |-> 0, range |-> 2]>>

\* A measurement that can be used, and one whose stock price was too old.
SomeQualities == {[covered |-> TRUE, lag |-> 0], [covered |-> TRUE, lag |-> -1]}

Aggregate == INSTANCE Aggregates WITH
  MinuteLength <- 2, Reports <- SomeReports, Lags <- {0, 2}, MaxLocalTrades <- 2,
  PruneChunk <- 1, MaxBars <- 2, VisibleBars <- 1, Horizons <- {1, 2}, Deadband <- 40,
  RateSpan <- 1, TickSizes <- {1, 2}, MinuteLimit <- 2, BufferCapacity <- 3,
  BufferSpan <- 2, SnapshotTrades <- 2, MaxNumber <- 4, MaxSnapshots <- 1

Trendline == INSTANCE Trendlines WITH
  Histories <- SomeHistories, Candles <- SomeCandles, MaxCandles <- 2, AtrPeriod <- 1,
  Spans <- LargeAndSmall(2, 1), Moves <- LargeAndSmall(1, 0), TouchSpan <- 1,
  BreakoutBars <- 2, FewestCandles <- 3, VisibleCandles <- 10, PivotsPerSide <- 2,
  PerGroup <- 2, MostLines <- 3, Scale <- 4

Pivot == INSTANCE PivotOverlay WITH
  Symbols <- {"nvda", "amd"}, NoSymbol <- "none", NoBar <- NoBar, Days <- {1, 2},
  Session <- SomeSessions, Quotes <- {27, 78}, Panes <- SomePanes, MaxLoads <- 3,
  MaxDraws <- 1

Setup == INSTANCE Momentum WITH
  Log <- SomeLogs, DayMinutes <- 20, Opens <- 0, Closes <- 18, Averaged <- 3,
  Window <- 8, Least <- 7, Sessions <- 2, LeastSessions <- 1, Path <- SomePath,
  History <- SomeMinutes, Start <- 24, Closed <- SomeCloses,
  Late <- {Candle(995, 1010, 995, 20)}

Study == INSTANCE Studies WITH
  MinuteLength <- 1, DayMinutes <- 6, Premarket <- 1, Opening <- 2, Closing <- 5,
  Late <- 5, Short <- 2, Long <- 3, MinuteLimit <- 6, WarmupBars <- 3,
  FewestCandles <- 1, MostCandles <- 3, PriorSeconds <- 1, MinuteSeconds <- 3,
  Pasts <- SomePasts, Prices <- {1, 3}, MaxPrints <- 3, MaxAnswers <- 2,
  LastMinute <- 15

Session == INSTANCE SessionRange WITH
  Prints <- SomePrints, DayLength <- 5, Opens <- 1, Closes <- 4, Lookback <- 1,
  History <- SomeRanges, MaxPending <- 1, RetryAfter <- 3, MaxTime <- 7, Ahead <- 1,
  MaxSeeks <- 1, MaxLoads <- 2, MaxPauses <- 1

Gex == INSTANCE GexHistory WITH
  Scopes <- {30, 120}, Qualities <- SomeQualities, Lookbacks <- {2, 3}, MaxAge <- 1,
  DayTicks <- 7, Open <- 2, Close <- 7, LastTick <- 9, MaxWrites <- 3

-----------------------------------------------------------------------------
\* The variables of the parts that do not run.
Unused == "unused"

WithoutAggregates == <<part, added, typed, wallDay, observed, pivot, inFlight, mapping,
                       canvas, reported, loads, draws, side, context, amended, past,
                       heard, boundary, request, filled, answers, position, stopped,
                       run, wire, paused, clock, panel, requests, pauses, replaying,
                       file, memory>>
WithoutTrendlines == <<part, delivered, now, number, snapshots, stream, bars, ticks,
                       buffer, typed, wallDay, observed, pivot, inFlight, mapping,
                       canvas, reported, loads, draws, side, context, amended, past,
                       heard, boundary, request, filled, answers, position, stopped,
                       run, wire, paused, clock, panel, requests, pauses, replaying,
                       file, memory>>
WithoutPivots == <<part, delivered, now, number, snapshots, stream, bars, ticks,
                   candles, buffer, added, side, context, amended, past, heard,
                   boundary, request, filled, answers, position, stopped, run, wire,
                   paused, clock, panel, requests, pauses, replaying, file, memory>>
WithoutMomentum == <<part, delivered, number, snapshots, stream, ticks, candles, buffer,
                     added, typed, wallDay, observed, pivot, inFlight, mapping, canvas,
                     reported, loads, draws, past, heard, boundary, request, filled,
                     answers, position, stopped, run, wire, paused, clock, panel,
                     requests, pauses, replaying, file, memory>>
WithoutStudies == <<part, delivered, number, snapshots, stream, bars, ticks, buffer,
                    added, typed, wallDay, observed, pivot, inFlight, mapping, canvas,
                    reported, loads, draws, side, context, amended, position, stopped,
                    run, wire, paused, clock, panel, requests, pauses, replaying, file,
                    memory>>
WithoutRange == <<part, now, number, snapshots, stream, bars, ticks, candles, buffer,
                  added, typed, wallDay, observed, pivot, inFlight, mapping, canvas,
                  reported, draws, side, context, amended, past, boundary, request,
                  filled, answers, replaying, file, memory>>
WithoutGex == <<part, delivered, now, number, snapshots, stream, bars, ticks, candles,
                buffer, added, typed, wallDay, observed, pivot, inFlight, mapping,
                canvas, reported, loads, draws, side, context, amended, past, heard,
                boundary, request, filled, answers, position, stopped, run, wire,
                paused, panel, requests, pauses>>

Init ==
  \/ /\ part = "aggregates" /\ Aggregate!Init
     /\ added = Unused /\ typed = Unused /\ wallDay = Unused /\ observed = Unused
     /\ pivot = Unused /\ inFlight = Unused /\ mapping = Unused /\ canvas = Unused
     /\ reported = Unused /\ loads = Unused /\ draws = Unused /\ side = Unused
     /\ context = Unused /\ amended = Unused /\ past = Unused /\ heard = Unused
     /\ boundary = Unused /\ request = Unused /\ filled = Unused /\ answers = Unused
     /\ position = Unused /\ stopped = Unused /\ run = Unused /\ wire = Unused
     /\ paused = Unused /\ clock = Unused /\ panel = Unused /\ requests = Unused
     /\ pauses = Unused /\ replaying = Unused /\ file = Unused /\ memory = Unused
  \/ /\ part = "trendlines" /\ Trendline!Init
     /\ delivered = Unused /\ now = Unused /\ number = Unused /\ snapshots = Unused
     /\ stream = Unused /\ bars = Unused /\ ticks = Unused /\ buffer = Unused
     /\ typed = Unused /\ wallDay = Unused /\ observed = Unused /\ pivot = Unused
     /\ inFlight = Unused /\ mapping = Unused /\ canvas = Unused /\ reported = Unused
     /\ loads = Unused /\ draws = Unused /\ side = Unused /\ context = Unused
     /\ amended = Unused /\ past = Unused /\ heard = Unused /\ boundary = Unused
     /\ request = Unused /\ filled = Unused /\ answers = Unused /\ position = Unused
     /\ stopped = Unused /\ run = Unused /\ wire = Unused /\ paused = Unused
     /\ clock = Unused /\ panel = Unused /\ requests = Unused /\ pauses = Unused
     /\ replaying = Unused /\ file = Unused /\ memory = Unused
  \/ /\ part = "pivots" /\ Pivot!Init
     /\ delivered = Unused /\ now = Unused /\ number = Unused /\ snapshots = Unused
     /\ stream = Unused /\ bars = Unused /\ ticks = Unused /\ candles = Unused
     /\ buffer = Unused /\ added = Unused /\ side = Unused /\ context = Unused
     /\ amended = Unused /\ past = Unused /\ heard = Unused /\ boundary = Unused
     /\ request = Unused /\ filled = Unused /\ answers = Unused /\ position = Unused
     /\ stopped = Unused /\ run = Unused /\ wire = Unused /\ paused = Unused
     /\ clock = Unused /\ panel = Unused /\ requests = Unused /\ pauses = Unused
     /\ replaying = Unused /\ file = Unused /\ memory = Unused
  \/ /\ part = "momentum" /\ Setup!Init
     /\ delivered = Unused /\ number = Unused /\ snapshots = Unused /\ stream = Unused
     /\ ticks = Unused /\ candles = Unused /\ buffer = Unused /\ added = Unused
     /\ typed = Unused /\ wallDay = Unused /\ observed = Unused /\ pivot = Unused
     /\ inFlight = Unused /\ mapping = Unused /\ canvas = Unused /\ reported = Unused
     /\ loads = Unused /\ draws = Unused /\ past = Unused /\ heard = Unused
     /\ boundary = Unused /\ request = Unused /\ filled = Unused /\ answers = Unused
     /\ position = Unused /\ stopped = Unused /\ run = Unused /\ wire = Unused
     /\ paused = Unused /\ clock = Unused /\ panel = Unused /\ requests = Unused
     /\ pauses = Unused /\ replaying = Unused /\ file = Unused /\ memory = Unused
  \/ /\ part = "studies" /\ Study!Init
     /\ delivered = Unused /\ number = Unused /\ snapshots = Unused /\ stream = Unused
     /\ bars = Unused /\ ticks = Unused /\ buffer = Unused /\ added = Unused
     /\ typed = Unused /\ wallDay = Unused /\ observed = Unused /\ pivot = Unused
     /\ inFlight = Unused /\ mapping = Unused /\ canvas = Unused /\ reported = Unused
     /\ loads = Unused /\ draws = Unused /\ side = Unused /\ context = Unused
     /\ amended = Unused /\ position = Unused /\ stopped = Unused /\ run = Unused
     /\ wire = Unused /\ paused = Unused /\ clock = Unused /\ panel = Unused
     /\ requests = Unused /\ pauses = Unused /\ replaying = Unused /\ file = Unused
     /\ memory = Unused
  \/ /\ part = "range" /\ Session!Init
     /\ now = Unused /\ number = Unused /\ snapshots = Unused /\ stream = Unused
     /\ bars = Unused /\ ticks = Unused /\ candles = Unused /\ buffer = Unused
     /\ added = Unused /\ typed = Unused /\ wallDay = Unused /\ observed = Unused
     /\ pivot = Unused /\ inFlight = Unused /\ mapping = Unused /\ canvas = Unused
     /\ reported = Unused /\ draws = Unused /\ side = Unused /\ context = Unused
     /\ amended = Unused /\ past = Unused /\ boundary = Unused /\ request = Unused
     /\ filled = Unused /\ answers = Unused /\ replaying = Unused /\ file = Unused
     /\ memory = Unused
  \/ /\ part = "gex" /\ Gex!Init
     /\ delivered = Unused /\ now = Unused /\ number = Unused /\ snapshots = Unused
     /\ stream = Unused /\ bars = Unused /\ ticks = Unused /\ candles = Unused
     /\ buffer = Unused /\ added = Unused /\ typed = Unused /\ wallDay = Unused
     /\ observed = Unused /\ pivot = Unused /\ inFlight = Unused /\ mapping = Unused
     /\ canvas = Unused /\ reported = Unused /\ loads = Unused /\ draws = Unused
     /\ side = Unused /\ context = Unused /\ amended = Unused /\ past = Unused
     /\ heard = Unused /\ boundary = Unused /\ request = Unused /\ filled = Unused
     /\ answers = Unused /\ position = Unused /\ stopped = Unused /\ run = Unused
     /\ wire = Unused /\ paused = Unused /\ panel = Unused /\ requests = Unused
     /\ pauses = Unused

AggregateDoes(Step) == part = "aggregates" /\ Step /\ UNCHANGED WithoutAggregates
TrendlineDoes(Step) == part = "trendlines" /\ Step /\ UNCHANGED WithoutTrendlines
PivotDoes(Step) == part = "pivots" /\ Step /\ UNCHANGED WithoutPivots
SetupDoes(Step) == part = "momentum" /\ Step /\ UNCHANGED WithoutMomentum
StudyDoes(Step) == part = "studies" /\ Step /\ UNCHANGED WithoutStudies
SessionDoes(Step) == part = "range" /\ Step /\ UNCHANGED WithoutRange
GexDoes(Step) == part = "gex" /\ Step /\ UNCHANGED WithoutGex

Next ==
  \/ AggregateDoes(Aggregate!Next)
  \/ TrendlineDoes(Trendline!Next)
  \/ PivotDoes(Pivot!Next)
  \/ SetupDoes(Setup!Next)
  \/ StudyDoes(Study!Next)
  \/ SessionDoes(Session!Next)
  \/ GexDoes(Gex!Next)

Spec == Init /\ [][Next]_vars

-----------------------------------------------------------------------------
(* Properties.                                                               *)

\* README.md:378, "equals the state the live path held": the totals of every window, the bars of a rewound pane,
\* what the pane says of its instant and the minute candles are those of the prints that
\* were delivered, whatever was pruned, evicted or computed again since.
AggregatesExact == part = "aggregates" => Aggregate!AggregatesExact

\* auto-trendlines.js:9, "cannot inspect the future": a swing that another one has followed never
\* moves, a forming candle changes no line, strengths are what they are defined to be and no
\* two lines that are drawn cross, crowd or repeat each other.
TrendlinesStand ==
  /\ [](part = "trendlines" => Trendline!LinesStandApart)
  /\ [][part = "trendlines" => Trendline!PivotsStay]_vars

\* daily-pivot-overlay.js: the pivots painted are those of the symbol and the session last
\* reported, whatever replies are late, and their labels are the closest and can be read.
PivotsExact == part = "pivots" => Pivot!PivotsFollowTheSession /\ Pivot!LabelsReadable

\* momentum-context-model.js: the setup shown beside an alert never knows the forming minute and
\* is never of another minute, side or leg.
SetupExact == part = "momentum" => Setup!SetupIsOfCompletedMinutes

\* app.js:835 and chart-history.js:66: whatever warm-ups, histories and late prints are
\* merged, the candles count each print once, and every study is its definition over them.
StudiesExact == part = "studies" => Study!CandlesOfTheTape /\ Study!StudiesExact

\* adr-rth-extension-panel.js: the session's range on display is that of the prints handed over,
\* none missed or counted of another run between the answer and the stream.
RangeIsOfTheTape == part = "range" => Session!RangeIsOfTheTape

\* gex-history-model.js:9: a review compares measurements of one scope and session that were
\* recorded, the newest then known, whatever was torn or appended twice.
ReviewIsTheRecord == part = "gex" => Gex!ReviewIsTheRecord
=============================================================================
