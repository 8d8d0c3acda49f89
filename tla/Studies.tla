------------------------------ MODULE Studies ------------------------------
(***************************************************************************)
(* The one-minute chart of a symbol whose past the page did not hear        *)
(* (internal/server/web/app.js, chart-history.js, tape-model.js): its       *)
(* candles come from the prints, of which some arrive after their minute,   *)
(* from the warm-up answer of completed minutes, which replaces them, and   *)
(* from the background history, which only fills in.  Every frame draws     *)
(* the studies of the candles that are there.                               *)
(*                                                                         *)
(* Exchange time passes in minutes (MinuteLength = 1), a day has            *)
(* DayMinutes of them, and every print counts in all three ways.            *)
(***************************************************************************)
EXTENDS TapeModel

CONSTANTS DayMinutes,                        \* 1440; a receipt tick is a minute
          Premarket, Opening, Closing, Late, \* 04:00, 09:30, 16:00 and 20:00: 240, 570, 960, 1200
          Short, Long,        \* averaged candles: 9 and 20
          MinuteLimit,        \* candles kept: 5001
          WarmupBars,         \* candles of a warm-up answer: 960 or 2200
          FewestCandles, MostCandles, PriorSeconds, MinuteSeconds, \* of the pace: 5, 20, 5, 60
          Pasts,              \* what was printed before the page opened
          Prices,             \* of the prints it hears
          MaxPrints, MaxAnswers, LastMinute   \* bounds

VARIABLES now,       \* minute of the server's clock
          past,      \* prints before the page opened: the provider knows them
          heard,     \* prints since
          candles,
          boundary,  \* throughUS of the last warm-up answer, 0 before it
          request,   \* the answer in flight, or NoAnswer
          filled,    \* the background history arrived
          answers

vars == <<now, past, heard, candles, boundary, request, filled, answers>>

NoAnswer == [kind |-> "none", through |-> 0, bars |-> <<>>]

Trade(t, p, z) == [t |-> t, p |-> p, z |-> z, f |-> {"price", "range", "volume"}]

Day(t) == t \div DayMinutes
Minute(t) == t % DayMinutes

-----------------------------------------------------------------------------
(* Merging *)

Newest(bars, most) == SubSeq(bars, Max({1, Len(bars) - most + 1}), Len(bars))

Start(bar) == bar.minute

\* A map of both, in the order of their minutes; the second wins.
Merge(bars, wins) ==
  LET minutes == {wins[i].minute : i \in DOMAIN wins}
      others == SelectSeq(bars, LAMBDA bar : bar.minute \notin minutes)
  IN Newest(SortSeq(others \o wins, LAMBDA a, b : a.minute < b.minute), MinuteLimit)

Before(bars, through) == SelectSeq(bars, LAMBDA bar : bar.minute < through)

\* Mutant of WarmupMerged: the candle that begins at the boundary is taken from neither.
WarmupMerged_AfterBoundary(bars, answer) ==
  Merge(Before(answer.bars, answer.through), SelectSeq(bars, LAMBDA bar : bar.minute > answer.through))

\* The completed minutes of the answer are authoritative; what the page counted since
\* the boundary stays, and so does what is older than the answer.
WarmupMerged(bars, answer) ==
  LET completed == Before(answer.bars, answer.through)
      kept == SelectSeq(bars, LAMBDA bar :
                \/ bar.minute >= answer.through
                \/ completed # <<>> /\ bar.minute < completed[1].minute
                \/ completed = <<>>)
  IN IF answer.through <= 0 THEN bars ELSE Merge(completed, kept)

HistoryMerged(bars, answer) ==
  IF answer.through <= 0 THEN bars ELSE Merge(Before(answer.bars, answer.through), bars)

-----------------------------------------------------------------------------
(* Averages and VWAP.  Sums stand for averages and for the variance. *)

NoStudy == [short |-> 0, long |-> 0, squares |-> 0, day |-> -1, dollars |-> 0, volume |-> 0]

OfSession(sums, day) ==
  IF sums.day = day THEN sums ELSE [sums EXCEPT !.day = day, !.dollars = 0, !.volume = 0]

\* The running sums after each candle.
RunningSums(bars) ==
  LET Leaving(i, n) == IF i > n THEN bars[i - n].close ELSE 0
      Added(before, i) ==
        LET bar == bars[i]
            regular == Minute(bar.minute) >= Opening
        IN [before EXCEPT
              !.short = @ + bar.close - Leaving(i, Short),
              !.long = @ + bar.close - Leaving(i, Long),
              !.squares = @ + bar.close * bar.close - Leaving(i, Long) * Leaving(i, Long),
              !.dollars = IF regular THEN @ + bar.dollars ELSE @,
              !.volume = IF regular THEN @ + bar.volume ELSE @]
      Then(done, bar) ==
        LET i == Len(done) + 1
            before == IF i = 1 THEN NoStudy ELSE done[i - 1]
        IN Append(done, Added(OfSession(before, Day(bar.minute)), i))
  IN FoldLeft(Then, <<>>, bars)

\* What is drawn at each candle; 0 where nothing is.  `spread` is Long times Long times
\* the variance, of which the bands are two roots away.
Indicators(bars) ==
  LET sums == RunningSums(bars)
  IN [i \in DOMAIN bars |->
       LET drawn == Minute(bars[i].minute) >= Opening /\ sums[i].volume > 0
       IN [short |-> IF i >= Short THEN sums[i].short ELSE 0,
           long |-> IF i >= Long THEN sums[i].long ELSE 0,
           spread |-> IF i >= Long THEN Max({0, Long * sums[i].squares - sums[i].long * sums[i].long})
                      ELSE 0,
           dollars |-> IF drawn THEN sums[i].dollars ELSE 0,
           volume |-> IF drawn THEN sums[i].volume ELSE 0]]

-----------------------------------------------------------------------------
(* Reference levels *)

Part(bars, day, from, to) ==
  SelectSeq(bars, LAMBDA bar : Day(bar.minute) = day /\ Minute(bar.minute) >= from /\ Minute(bar.minute) < to)

High(bars) == IF bars = <<>> THEN 0 ELSE Max({bars[i].high : i \in DOMAIN bars})
Low(bars) == IF bars = <<>> THEN 0 ELSE Min({bars[i].low : i \in DOMAIN bars})

\* The last day before this one with regular candles, -1 without one.
PriorDay(bars, day) ==
  Max({-1} \cup {Day(bars[i].minute) : i \in
        {i \in DOMAIN bars : Day(bars[i].minute) < day /\ Part(<<bars[i]>>, Day(bars[i].minute), Opening, Closing) # <<>>}})

\* The prices of the levels, 0 for one that is not drawn.
XtraLevels(bars, quoted) ==
  LET day == Day(Last(bars).minute)
      premarket == Part(bars, day, Premarket, Opening)
      regular == Part(bars, day, Opening, Closing)
      prior == Part(bars, PriorDay(bars, day), Opening, Closing)
      previousClose == IF prior = <<>> THEN 0 ELSE Last(prior).close
  IN [PDC |-> IF quoted > 0 THEN quoted ELSE previousClose,
      PDH |-> High(prior), PDL |-> Low(prior),
      PMH |-> High(premarket), PML |-> Low(premarket),
      OPEN |-> IF regular = <<>> THEN 0 ELSE regular[1].open,
      RTHH |-> High(regular), RTHL |-> Low(regular)]

\* Their labels from top to bottom, a gap apart: pushed down from the first one, then
\* up together when they run over the bottom, then up where they still touch, then down.
Labels(ys, top, bottom, gap, half) ==
  LET n == Len(ys)
      sorted == SortSeq(ys, <)
      down == FoldLeft(LAMBDA done, y : Append(done, IF done = <<>> THEN y ELSE Max({y, Last(done) + gap})),
                       <<>>, sorted)
      over == Max({0, Last(down) - (bottom - half)})
      up == FoldRight(LAMBDA y, done : <<IF done = <<>> THEN y - over ELSE Min({y - over, done[1] - gap})>> \o done,
                      down, <<>>)
      under == Max({0, top + half - up[1]})
  IN [i \in 1 .. n |-> up[i] + under]

\* The session strip of the latest day: what it is measured against, and its range.
DayContext(bars) ==
  LET day == Day(Last(bars).minute)
      shown == Part(bars, day, Premarket, Late + 1)
      regular == Part(bars, day, Opening, Closing)
      before == SelectSeq(bars, LAMBDA bar : Day(bar.minute) < day)
      prior == SelectSeq(before, LAMBDA bar : Minute(bar.minute) >= Opening /\ Minute(bar.minute) < Closing)
      reference == IF regular # <<>> THEN regular[1].open
                   ELSE IF prior # <<>> THEN Last(prior).close ELSE 0
      last == Last(shown).close
  IN [shown |-> shown # <<>>, reference |-> IF shown = <<>> THEN 0 ELSE reference,
      high |-> High(shown), low |-> Low(shown),
      above |-> shown # <<>> /\ reference > 0 /\ last > reference,
      below |-> shown # <<>> /\ reference > 0 /\ last < reference]

-----------------------------------------------------------------------------
(* Volume *)

\* A binary search for the first candle of the latest session: a count, as long as
\* every candle of it comes after every other.
VolumeSinceFourAM(bars) ==
  LET day == Day(Last(bars).minute)
      InSession(bar) == Day(bar.minute) > day \/ (Day(bar.minute) = day /\ Minute(bar.minute) >= Premarket)
      low == 1 + Len(SelectSeq(bars, LAMBDA bar : ~InSession(bar)))
  IN FoldLeft(LAMBDA n, bar : n + bar.volume, 0, SubSeq(bars, low, Len(bars)))

\* The pace of the newest candle against twice the median of those before: over
\* the prior seconds of neutral pace while it forms, a fraction; <<0, 1>> for none.
CandleRVOL(bars, elapsed) ==
  LET baseline == CandleBaseline(bars, MostCandles, FewestCandles)
      volume == Last(bars).volume
      seconds == Min({MinuteSeconds, elapsed})
  IN IF baseline = 0 THEN <<0, 1>>
     ELSE IF seconds < MinuteSeconds
     THEN <<2 * volume * MinuteSeconds + PriorSeconds * baseline, baseline * (seconds + PriorSeconds)>>
     ELSE <<2 * volume, baseline>>

-----------------------------------------------------------------------------
Init ==
  /\ past \in Pasts /\ now = Last(past).t
  /\ heard = <<>> /\ candles = NoCandles
  /\ boundary = 0 /\ request = NoAnswer /\ filled = FALSE /\ answers = 0

Candles(prints) ==
  FoldLeft(LAMBDA c, e : AppendMinuteBar(c, e, 2 * LastMinute), NoCandles, prints).bars

\* What a provider answers with: the completed minutes of all that was printed.
\* Candles that were loaded have no times.
Provided(most) ==
  LET done == Before(Candles(past \o heard), now)
      Loaded(bar) == [bar EXCEPT !.openAt = 0, !.closeAt = 0]
  IN Newest([i \in DOMAIN done |-> Loaded(done[i])], most)

Hear(lag, price) ==
  LET e == Trade(now - lag, price, 1)
  IN /\ Len(heard) < MaxPrints
     /\ heard' = Append(heard, e)
     /\ candles' = AppendMinuteBar(candles, e, MinuteLimit)
     /\ UNCHANGED <<now, past, boundary, request, filled, answers>>

NextMinute ==
  /\ now < LastMinute /\ now' = now + 1
  /\ UNCHANGED <<past, heard, candles, boundary, request, filled, answers>>

\* ensureRVOLWarmup asks when the page opened and after a reset; the background history
\* waits for its answer.
Ask(kind) ==
  /\ request.kind = "none" /\ answers < MaxAnswers
  /\ kind = "history" => boundary > 0 /\ ~filled
  /\ answers' = answers + 1
  /\ request' = [kind |-> kind, through |-> now,
                 bars |-> Provided(IF kind = "history" THEN MinuteLimit ELSE WarmupBars)]
  /\ UNCHANGED <<now, past, heard, candles, boundary, filled>>

WarmedUp ==
  /\ request.kind = "warmup" /\ request' = NoAnswer
  /\ candles' = [NoCandles EXCEPT !.bars = WarmupMerged(candles.bars, request)]
  /\ boundary' = request.through
  /\ UNCHANGED <<now, past, heard, filled, answers>>

FilledIn ==
  /\ request.kind = "history" /\ request' = NoAnswer
  /\ candles' = [NoCandles EXCEPT !.bars = HistoryMerged(candles.bars, request)]
  /\ filled' = TRUE
  /\ UNCHANGED <<now, past, heard, boundary, answers>>

Next ==
  \/ \E lag \in 0 .. 1, price \in Prices : Hear(lag, price)
  \/ NextMinute
  \/ \E kind \in {"warmup", "history"} : Ask(kind)
  \/ WarmedUp
  \/ FilledIn

Spec == Init /\ [][Next]_vars

-----------------------------------------------------------------------------
(* Properties.                                                               *)

Minutes == {candles.bars[i].minute : i \in DOMAIN candles.bars}
VolumeAt(minute) == CHOOSE v \in {b.volume : b \in ToSet(candles.bars)} :
                      \E b \in ToSet(candles.bars) : b.minute = minute /\ b.volume = v
Printed(prints, minute) == Len(SelectSeq(prints, LAMBDA e : e.t = minute))
Retained(minute) == Len(candles.bars) < MinuteLimit \/ minute >= candles.bars[1].minute

\* app.js:835: "Keep only local receipt-time candles at and after the request boundary,
\* including the forming candle and anything that arrived while the request was in
\* flight"; chart-history.js:66: "The current chart wins overlaps".  Through warm-ups,
\* refreshes, the background history and prints that come a minute late, the candles
\* are in the order of their minutes, no print is counted twice, none since the
\* boundary is lost, and once the history is there, nor is any of the past.
CandlesOfTheTape ==
  /\ \A i \in 2 .. Len(candles.bars) : candles.bars[i - 1].minute < candles.bars[i].minute
  /\ \A minute \in Minutes : VolumeAt(minute) <= Printed(past, minute) + Printed(heard, minute)
  /\ \A e \in ToSet(heard) :
       e.t >= boundary /\ Retained(e.t) => e.t \in Minutes /\ VolumeAt(e.t) >= Printed(heard, e.t)
  /\ filled => \A e \in ToSet(past) :
       e.t < boundary /\ Retained(e.t) => e.t \in Minutes /\ VolumeAt(e.t) >= Printed(past, e.t)

Sum(Value(_), from, to) == FoldLeft(LAMBDA n, i : n + Value(i), 0, [k \in 1 .. to - from + 1 |-> from + k - 1])

\* app.js:2019 keeps running sums and resets them at a session; app.js:1768 and 1288
\* find the same opening price and previous close in two ways; app.js:3191 relies on the
\* order of the candles.  Every study is what its definition says over the candles that
\* are there: averages and bands of the last candles, VWAP from the session's regular
\* open, levels of the right sessions and labels that do not overlap, the volume since
\* 04:00, and a pace that the neutral prior only dampens.
StudiesExact ==
  LET bars == candles.bars
      drawn == Indicators(bars)
      levels == XtraLevels(bars, 0)
      context == DayContext(bars)
      Close(i) == bars[i].close
      today == {b \in ToSet(bars) : \A c \in ToSet(bars) : Day(c.minute) <= Day(b.minute)}
      Regular(b) == Minute(b.minute) \in Opening .. Closing - 1
      prices == SelectSeq(<<levels.PDC, levels.PDH, levels.PMH, levels.OPEN, levels.RTHH,
                            levels.PDL, levels.RTHL, levels.PML>>, LAMBDA price : price > 0)
      room == 3 * Len(prices) + 1
      labels == Labels(prices, 0, room, 3, 1)
  IN bars # <<>> =>
     /\ \A i \in DOMAIN bars :
          /\ drawn[i].short = IF i < Short THEN 0 ELSE Sum(Close, i - Short + 1, i)
          /\ drawn[i].long = IF i < Long THEN 0 ELSE Sum(Close, i - Long + 1, i)
          /\ i >= Long => drawn[i].spread =
               MapThenSumSet(LAMBDA pair : (Close(pair[1]) - Close(pair[2])) * (Close(pair[1]) - Close(pair[2])),
                             {pair \in (i - Long + 1 .. i) \X (i - Long + 1 .. i) : pair[1] < pair[2]})
          /\ LET session == {j \in 1 .. i : /\ Day(bars[j].minute) = Day(bars[i].minute)
                                            /\ Minute(bars[j].minute) >= Opening}
             IN /\ drawn[i].volume = MapThenSumSet(LAMBDA j : bars[j].volume, session)
                /\ drawn[i].dollars = MapThenSumSet(LAMBDA j : bars[j].dollars, session)
     /\ \A b \in today :
          /\ Regular(b) => b.high <= levels.RTHH /\ b.low >= levels.RTHL /\ levels.OPEN > 0
          /\ levels.OPEN > 0 /\ Regular(b) /\ b.open # levels.OPEN =>
               \E c \in today : c.minute < b.minute /\ Regular(c) /\ c.open = levels.OPEN
     /\ levels.OPEN \in levels.RTHL .. levels.RTHH
     /\ levels.PDC \in levels.PDL .. levels.PDH
     /\ context.shown => context.reference = IF levels.OPEN > 0 THEN levels.OPEN ELSE levels.PDC
     /\ \A i \in 2 .. Len(labels) : labels[i] - labels[i - 1] >= 3
     /\ prices # <<>> => labels[1] >= 1 /\ Last(labels) <= room - 1
     /\ VolumeSinceFourAM(bars) =
          MapThenSumSet(LAMBDA b : b.volume, {b \in today : Minute(b.minute) >= Premarket})
     /\ \A elapsed \in 1 .. MinuteSeconds :
          LET pace == CandleRVOL(bars, elapsed)
              baseline == CandleBaseline(bars, MostCandles, FewestCandles)
              naive == <<2 * Last(bars).volume * MinuteSeconds, baseline * elapsed>>
              AtMost(a, b) == a[1] * b[2] <= b[1] * a[2]
          IN baseline > 0 => \/ AtMost(<<1, 1>>, pace) /\ AtMost(pace, naive)
                             \/ AtMost(naive, pace) /\ AtMost(pace, <<1, 1>>)
=============================================================================
