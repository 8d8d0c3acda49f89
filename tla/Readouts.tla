------------------------------ MODULE Readouts ------------------------------
(***************************************************************************)
(* What the page shows of the day (internal/server/web/app.js,              *)
(* daily-extension.js, day-map.js, day-volume.js): the last price with the  *)
(* run and the bands of the daily closes, the daily map, the volume of the   *)
(* day and the rows of the tape.  Messages change the data and mark what must be painted; a      *)
(* frame paints what is marked and, ten times a second, recomputes the      *)
(* readouts that also depend on the clock.  The clock passes midnight, a    *)
(* provider's counter expires, a replay seeks, the tab is hidden.           *)
(*                                                                         *)
(* Time is in ticks of 100 ms and more: between two of them a visible page  *)
(* has computed its readouts.  A session is a day of DayTicks.              *)
(***************************************************************************)
EXTENDS Integers, FiniteSets, FiniteSetsExt, SequencesExt, Orders

CONSTANTS DayTicks,
          Quiet,        \* ticks at the end of a day without any report
          Expiry,       \* age at which a counter is not shown: 90 s
          Closes,       \* close of each completed session, by its day
          Sessions,     \* sessions asked for: 90
          MapSessions,  \* sessions drawn: 60
          Window,       \* closes of the bands, the developing one included: 20
          Prices, Modes,
          RowChoices,   \* rows of the tape in the settings
          MaxEvents, LastTick   \* bounds

VARIABLES mode, clock,  \* the server's clock as the page knows it
          last,         \* lastPriceTrade: [t, p], t = 0 before the first
          minute,       \* the newest minute candle: [t, p]
          tape,         \* state.trades: the ticks of its prints, in arrival order
          rows,         \* rows of the tape panel
          counter,      \* the quote: [at, volume] of the provider's day, mid of its prices
          history,      \* state.dailyMap: [key, before, bars], bars a sequence of days
          replies,      \* requests for daily bars in flight: their keys
          pending,      \* pendingReplayReset: a seek, and no batch of it yet
          view,         \* daily map or the minutes of the day
          hidden, marked, available, measured,
          shown,        \* what was painted last
          settled,      \* history: passes since the last event, up to 2
          events

vars == <<mode, clock, last, minute, tape, rows, counter, history, replies, pending, view, hidden,
          marked, available, measured, shown, settled, events>>

Day(t) == t \div DayTicks
Nothing == [t |-> 0, p |-> 0]

-----------------------------------------------------------------------------
(* Daily closes *)

Sign(n) == IF n > 0 THEN 1 ELSE IF n < 0 THEN -1 ELSE 0

\* A run over one more close, the first of all perhaps.
Longer(run, direction, first) ==
  IF run.over \/ direction = 0 \/ (run.days > 0 /\ direction # run.direction)
  THEN [run EXCEPT !.over = TRUE]
  ELSE [days |-> run.days + 1, direction |-> direction, atLeast |-> first, over |-> FALSE]

\* How many closes before `price' it continues the direction of, down to the first
\* that does not: [days, direction, atLeast], after the last k closes.
RunOnwards(closes, price) ==
  LET n == Len(closes)
      Direction(i) == Sign((IF i = n THEN price ELSE closes[i + 1]) - closes[i])
      onwards[k \in 0 .. n] ==
        IF k = 0 THEN [days |-> 0, direction |-> 0, atLeast |-> FALSE, over |-> FALSE]
        ELSE Longer(onwards[k - 1], Direction(n - k + 1), k = n)
  IN onwards

Run(closes, price) == RunOnwards(closes, price)[Len(closes)]

\* Above the upper band (1), below the lower (-1) or inside, the developing close
\* among those of the bands: two standard deviations of the window.
Band(closes, price) ==
  LET window == Append(SubSeq(closes, Len(closes) - Window + 2, Len(closes)), price)
      sum == FoldLeft(LAMBDA n, close : n + close, 0, window)
      squares == FoldLeft(LAMBDA n, close : n + close * close, 0, window)
      away == Window * price - sum
  IN IF away * away > 4 * (Window * squares - sum * sum) THEN Sign(away) ELSE 0

\* dailyExtension: the run and the bands of the sessions before this one.
DailyExtension(days, session, print) ==
  LET before == Filtered(days, {i \in DOMAIN days : days[i] < session})
      closes == [i \in DOMAIN before |-> Closes[before[i]]]
      run == Run(closes, print.p)
      bands == Len(closes) >= Window - 1
  IN IF print.p = 0 \/ closes = <<>> THEN [ready |-> FALSE]
     ELSE [ready |-> TRUE, session |-> session, at |-> print.t, newest |-> Last(before),
           days |-> run.days, direction |-> run.direction, atLeast |-> run.atLeast,
           banded |-> bands, extension |-> IF bands THEN Band(closes, print.p) ELSE 0]

\* updateDailyExtension: a print of another session, of the future, or of before a seek
\* is not today's developing close.
\* Mutant of Developing: any last price will do.
Developing_Any(print, seeking) == print
Developing(print, seeking) ==
  IF Day(print.t) = Day(clock) /\ print.t <= clock /\ ~seeking THEN print ELSE Nothing

ExtensionNow == DailyExtension(history.bars, Day(clock), Developing(last, pending))

\* drawDailyMap: the newest candle of today; of a quiet ticker the middle of its quote,
\* said to be one; or the last close.  A price of nought is that close.
LivePrice ==
  IF minute.t > 0 /\ Day(minute.t) = Day(clock) THEN [p |-> minute.p, label |-> "LAST"]
  ELSE IF mode = "live" /\ counter.mid > 0 THEN [p |-> counter.mid, label |-> "MID"]
  ELSE [p |-> 0, label |-> "CLOSE"]

\* dailyMapModel
MapOf(days) ==
  LET bars == SubSeq(days, Max({1, Len(days) - MapSessions + 1}), Len(days))
      price == IF LivePrice.p > 0 THEN LivePrice.p ELSE Closes[Last(bars)]
      used == {Closes[bars[i]] : i \in DOMAIN bars} \cup {price}
  IN IF bars = <<>> THEN [drawn |-> FALSE]
     ELSE [drawn |-> TRUE, through |-> Last(bars), label |-> LivePrice.label, price |-> price,
           high |-> Max(used), low |-> Min(used)]

\* providerDayVolume: a fresh counter of this day, and never in a replay.
Counted == mode = "live" /\ counter.at > 0 /\ clock - counter.at <= Expiry /\ Day(counter.at) = Day(clock)

\* The candles' volume is that of the newest print's session.
CandleVolume ==
  IF tape = <<>> \/ pending THEN 0
  ELSE Cardinality({i \in DOMAIN tape : Day(tape[i]) = Day(Max(Range(tape)))})

VolumeNow ==
  IF Counted THEN [from |-> "counter", volume |-> counter.volume]
  ELSE [from |-> "candles", volume |-> CandleVolume]

\* renderTape: newest first, as many as there are rows.
TapeRows == Reverse(SubSeq(tape, Max({1, Len(tape) - rows + 1}), Len(tape)))

-----------------------------------------------------------------------------
(* The history of the daily map *)

Loading(day) == [key |-> day, before |-> day, bars |-> <<>>, done |-> FALSE]
NoHistory == [key |-> -1, before |-> -1, bars |-> <<>>, done |-> FALSE]

\* ensureDailyMapHistory: a new session drops the bars of the one before and asks again.
Ensured(h) ==
  IF hidden \/ pending THEN h
  ELSE IF h.key # Day(clock) THEN Loading(Day(clock)) ELSE h

Asking(h) == ~hidden /\ ~pending /\ ~h.done /\ h.key \notin replies

-----------------------------------------------------------------------------
Init ==
  /\ mode \in Modes /\ clock = 2 * DayTicks
  /\ last = Nothing /\ minute = Nothing /\ tape = <<>> /\ rows = Max(RowChoices)
  /\ counter = [at |-> 0, volume |-> 0, mid |-> 0]
  /\ history = NoHistory /\ replies = {} /\ pending = FALSE
  /\ view = "daily" /\ hidden = FALSE
  /\ marked = {"chart", "context", "tape"} /\ available = FALSE /\ measured = 0
  /\ shown = [extension |-> [ready |-> FALSE], map |-> [drawn |-> FALSE],
              volume |-> [from |-> "candles", volume |-> 0], tape |-> <<>>]
  /\ settled = 0 /\ events = 0

\* Something happened: what is marked is painted by the next frame.
Happens(marks) == /\ marked' = marked \cup marks /\ settled' = 0
                  /\ events < MaxEvents /\ events' = events + 1

Tick ==
  /\ clock < LastTick /\ (measured = clock \/ hidden)
  /\ clock' = clock + 1 /\ settled' = 0
  /\ UNCHANGED <<mode, last, minute, tape, rows, counter, history, replies, pending, view, hidden,
                 marked, available, measured, shown, events>>

\* A batch of one print: the first after a seek begins the history anew.  Its quote may
\* carry a counter.
Batch(lag, price) ==
  /\ clock % DayTicks < DayTicks - Quiet \/ mode = "replay"
  /\ LET print == [t |-> clock - lag, p |-> price]
         known == IF pending THEN Nothing ELSE last
     IN /\ last' = IF print.t >= known.t THEN print ELSE known
        /\ minute' = IF print.t >= minute.t \/ pending THEN print ELSE minute
        /\ tape' = IF pending THEN <<print.t>> ELSE Append(tape, print.t)
        /\ shown' = [shown EXCEPT !.extension =
              DailyExtension(history.bars, Day(clock), Developing(last', FALSE))]
  /\ pending' = FALSE
  /\ Happens({"chart", "context", "tape"})
  /\ UNCHANGED <<mode, clock, rows, counter, history, replies, view, hidden, available, measured>>

Report(mid) ==
  /\ mode = "live" /\ clock % DayTicks < DayTicks - Quiet
  /\ counter' = [at |-> clock, volume |-> 10 + events, mid |-> mid]
  /\ shown' = [shown EXCEPT !.extension = ExtensionNow]
  /\ Happens({"chart", "context"})
  /\ UNCHANGED <<mode, clock, last, minute, tape, rows, history, replies, pending, view, hidden,
                 available, measured>>

\* The empty snapshot of a seek: the tape stays on screen, the candles do not.
Seek(target) ==
  /\ mode = "replay" /\ target # clock /\ last # Nothing
  /\ clock' = target /\ measured' = 0
  /\ pending' = TRUE /\ minute' = Nothing
  /\ shown' = [shown EXCEPT !.extension = [ready |-> FALSE]]
  /\ Happens({"chart", "context"})
  /\ UNCHANGED <<mode, last, tape, rows, counter, history, replies, view, hidden, available>>

\* The completed sessions before one, of the last Sessions.
Daily(key) ==
  LET asked == [k \in 1 .. Sessions |-> key - Sessions + k - 1]
  IN Filtered(asked, {k \in 1 .. Sessions : asked[k] \in DOMAIN Closes})

\* A reply is for the session it was asked for; a failure is asked again.
Accepted(key, h) == key = h.key

Reply(key, fails) ==
  /\ key \in replies /\ replies' = replies \ {key}
  /\ IF Accepted(key, history) /\ ~fails
     THEN /\ history' = [history EXCEPT !.done = TRUE,
                !.bars = Daily(key)]
          /\ Happens({"context"})
     ELSE /\ UNCHANGED history /\ Happens({})
  /\ UNCHANGED <<mode, clock, last, minute, tape, rows, counter, pending, view, hidden, available, measured, shown>>

SelectDayMap ==
  /\ view' = IF view = "daily" THEN "intraday" ELSE "daily"
  /\ Happens({"context"})
  /\ UNCHANGED <<mode, clock, last, minute, tape, rows, counter, history, replies, pending, hidden,
                 available, measured, shown>>

\* commitSettings, ensureTapePool: new rows are empty until they are painted.
SetRows(n) ==
  /\ n # rows /\ rows' = n
  /\ shown' = [shown EXCEPT !.tape = <<>>]
  /\ Happens({"chart", "context", "tape"})
  /\ UNCHANGED <<mode, clock, last, minute, tape, counter, history, replies, pending, view, hidden,
                 available, measured>>

\* A hidden page gets no frames; when it comes back its chart is painted again, its map
\* only if the session changed.  (README 7: a replay that was sought is not hidden here.)
Hide ==
  /\ mode = "live"
  /\ hidden' = ~hidden
  /\ Happens(IF hidden THEN {"chart"} ELSE {})
  /\ UNCHANGED <<mode, clock, last, minute, tape, rows, counter, history, replies, pending, view,
                 available, measured, shown>>

\* animationLoop: paint what is marked; then, once a tick, compare the counter, ask for
\* what is missing and recompute the last price's readouts.
Remarked(now, before) == IF now # before THEN {"chart"} ELSE {}

Frame ==
  LET due == measured # clock
      painting == "context" \in marked
      ensures == due \/ painting
      ensured == IF ensures THEN Ensured(history) ELSE history
      painted == [shown EXCEPT !.volume = IF "chart" \in marked THEN VolumeNow ELSE @,
                               !.tape = IF "tape" \in marked THEN TapeRows ELSE @,
                               !.map = IF painting /\ view = "daily" THEN MapOf(ensured.bars) ELSE @]
      missing == ensures /\ Asking(ensured)
      left == IF ensured # history /\ ~painting THEN {"context"} ELSE {}
  IN /\ ~hidden /\ (due \/ marked # {} \/ settled < 2)
     /\ history' = ensured
     /\ replies' = IF missing THEN replies \cup {ensured.key} ELSE replies
     /\ shown' = IF due THEN [painted EXCEPT !.extension =
                       DailyExtension(ensured.bars, Day(clock), Developing(last, pending))]
                 ELSE painted
     /\ available' = IF due THEN Counted ELSE available
     /\ marked' = left \cup (IF due THEN Remarked(Counted, available) ELSE {})
     /\ measured' = clock
     /\ settled' = IF due THEN 1 ELSE IF settled = 1 THEN 2 ELSE settled
     /\ UNCHANGED <<mode, clock, last, minute, tape, rows, counter, pending, view, hidden, events>>

Next ==
  \/ Tick \/ SelectDayMap \/ Hide \/ Frame
  \/ \E mid \in {0, Min(Prices)} : Report(mid)
  \/ \E n \in RowChoices : SetRows(n)
  \/ \E lag \in 0 .. 1, price \in Prices : Batch(lag, price)
  \/ \E target \in {DayTicks, 2 * DayTicks, 3 * DayTicks} : Seek(target)
  \/ \E key \in replies, fails \in BOOLEAN : Reply(key, fails)

Spec == Init /\ [][Next]_vars

-----------------------------------------------------------------------------
(* Properties.                                                               *)

\* app.js:2664, "A yesterday snapshot, pending seek or future timestamp is not today's
\* developing candle", daily-extension.js:2, "The current session is represented once
\* [...] No future daily bars": the run and the bands compare a print of the session
\* they are shown for with the closes of the sessions before it, and of all of them.
DevelopingIsOfToday ==
  LET e == shown.extension
      before == [i \in 1 .. e.session - 1 |-> i]
      Steps(k) == {IF j = e.session - 1 THEN Sign(last.p - Closes[j]) ELSE Sign(Closes[j + 1] - Closes[j]) :
                     j \in e.session - k .. e.session - 1}
  IN e.ready =>
     /\ Day(e.at) = e.session /\ e.at <= clock
     /\ e.newest < e.session
     /\ settled > 0 => /\ e.session = Day(clock) /\ e.newest = e.session - 1 /\ e.at = last.t
                       /\ e.days > 0 => Steps(e.days) = {e.direction}
                       /\ ~e.atLeast /\ e.days < Len(history.bars) =>
                            Cardinality(Steps(e.days + 1)) > 1 \/ Steps(e.days + 1) = {0}

\* Once the readouts were computed after the last message, the last tick of the clock,
\* midnight, a seek or the return of a hidden tab, and a frame has followed, nothing on
\* the page is what an earlier clock or message made of it: day-volume.js:4, "Historical
\* replay must never inherit a present-day feed counter", and app.js:3114 marks the
\* chart when a counter expires although no message arrives.
SettledIsCurrent ==
  settled = 2 => /\ shown.extension = ExtensionNow
                 /\ shown.volume = VolumeNow
                 /\ shown.tape = TapeRows
                 /\ view = "daily" => shown.map = MapOf(history.bars)
=============================================================================
