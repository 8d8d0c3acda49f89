------------------------------ MODULE Momentum ------------------------------
(***************************************************************************)
(* The momentum context of the stock (momentum-context-model.js): how far   *)
(* the price is from its recent average, whether the leg that brought it    *)
(* there looks exhausted, how far the daily closes have run, and what the   *)
(* last seconds of flow say.  The completed-minute part is computed once a  *)
(* minute and kept (MomentumContextModel), while candles grow, are          *)
(* completed, come back from history and are amended by late prints.        *)
(*                                                                         *)
(* A minute is a number, a day DayMinutes of them.  Logarithms are those of *)
(* the table Log, in hundredths of a percent.                               *)
(***************************************************************************)
EXTENDS Integers, Sequences, FiniteSets, SequencesExt, FiniteSetsExt, Functions

CONSTANTS
  Log,          \* price -> logarithm
  DayMinutes, Opens, Closes, \* the extended session, 04:00 to 20:00
  Averaged,     \* 15 closes
  Window, Least, \* 16 and 7 completed minutes
  Sessions, LeastSessions, \* 5 prior sessions, 3 of them needed
  Path,         \* the candles of the minutes to come, one set for each
  History,      \* the candles of the days before
  Start,        \* the first minute
  Closed,       \* daily closes, oldest first: [day, close]
  Late          \* a candle that a late print may make of a completed one

VARIABLES
  now,          \* the minute of the clock
  bars,         \* minute -> candle
  side,         \* the side of an alert in force, 0 if none
  context,      \* MomentumContextModel: key, bars it was computed from, tape
  amended       \* a completed candle changed since the model computed

vars == <<now, bars, side, context, amended>>

DayOf(minute) == minute \div DayMinutes
InSession(minute) == minute % DayMinutes \in Opens..(Closes - 1)

Abs(n) == IF n < 0 THEN -n ELSE n
Sign(n) == IF n < 0 THEN -1 ELSE IF n > 0 THEN 1 ELSE 0
Round(n, d) == (2 * n + d) \div (2 * d)   \* Math.round
Sum(s) == FoldLeft(LAMBDA total, n : total + n, 0, s)

\* Twice the median: it stays a whole number.
Median2(values) ==
  LET sorted == SortSeq(values, <)
      half == (Len(sorted) + 1) \div 2
  IN IF sorted = <<>> THEN 0 ELSE sorted[half] + sorted[Len(sorted) + 1 - half]

-----------------------------------------------------------------------------
(* calculateMomentum: the last close over the average of fifteen *)

NoMomentum == [ready |-> FALSE, side |-> 0]

RECURSIVE LastMinutes(_, _, _)
LastMinutes(minutes, count, taken) ==
  IF count = 0 \/ minutes = {} THEN taken
  ELSE LastMinutes(minutes \ {Max(minutes)}, count - 1, <<Max(minutes)>> \o taken)

MomentumOf(candles, at) ==
  LET today == {m \in DOMAIN candles : m <= at /\ DayOf(m) = DayOf(at) /\ InSession(m)}
      last == LastMinutes(today, Averaged, <<>>)
      total == Sum([i \in DOMAIN last |-> candles[last[i]].close])
      close == candles[Last(last)].close
  IN IF Len(last) < Averaged \/ Last(last) < at - 1 \/ ~InSession(at) THEN NoMomentum
     ELSE [ready |-> TRUE,
           side |-> IF 100 * Averaged * close > 102 * total THEN 1
                    ELSE IF 100 * Averaged * close < 98 * total THEN -1 ELSE 0]

-----------------------------------------------------------------------------
(* calculateDailyStretch: days in a row to one side; the 20-day bands need 19 *)

RECURSIVE Streak(_, _, _, _)
Streak(closes, last, direction, days) ==
  LET step == Sign(last - Last(closes).close)
  IN IF closes = <<>> THEN [days |-> days, direction |-> direction, atLeast |-> days > 0]
     ELSE IF step = 0 \/ (days > 0 /\ step # direction)
     THEN [days |-> days, direction |-> direction, atLeast |-> FALSE]
     ELSE Streak(Front(closes), Last(closes).close, step, days + 1)

DailyStretch(price, day) ==
  LET before(bar) == bar.day < day
  IN Streak(SelectSeq(Closed, before), price, 0, 0)

-----------------------------------------------------------------------------
(* calculateExhaustion *)

\* volumeProfiles: the volumes of the last prior sessions, by minute of day.
Profiles(candles, day) ==
  LET days == {DayOf(m) : m \in {k \in DOMAIN candles : InSession(k)}} \cap 0..(day - 1)
  IN {d \in days : Cardinality({e \in days : e > d}) < Sessions}

Baselines(candles, days, minute) ==
  LET three(d) == {d * DayMinutes + (minute % DayMinutes) - k : k \in 0..2}
      whole == {d \in days : three(d) \subseteq DOMAIN candles /\ \A m \in three(d) : DayOf(m) = d}
      volume(d) == MapThenSumSet(LAMBDA m : candles[m].volume, three(d))
  IN FoldSet(LAMBDA d, sums : IF volume(d) > 0 THEN Append(sums, volume(d)) ELSE sums, <<>>, whole)

\* The completed pushes of a window: a rise of the threshold from the last low,
\* until a fall of the threshold from its high.
Legs(prices, threshold8) ==
  FoldLeft(LAMBDA leg, p :
      IF leg.push
      THEN IF 8 * (Max({leg.peak, p}) - p) >= threshold8
           THEN [leg EXCEPT !.push = FALSE, !.trough = p, !.peak = Max({@, p})]
           ELSE [leg EXCEPT !.peak = Max({@, p})]
      ELSE IF 8 * (p - Min({leg.trough, p})) >= threshold8
           THEN [push |-> TRUE, peak |-> p, trough |-> Min({leg.trough, p}), count |-> leg.count + 1]
           ELSE [leg EXCEPT !.trough = Min({@, p})],
    [push |-> FALSE, peak |-> Head(prices), trough |-> Head(prices), count |-> 0], Tail(prices)).count

\* exhaustionWindow, over the completed minutes in order.
ExhaustionWindow(candles, minutes, askedSide) ==
  LET n == Len(minutes)
      close(i) == Log[candles[minutes[i]].close]
      prior == close(n - 3) - close(n - 6)
      recent == close(n) - close(n - 3)
      direction == IF Abs(prior) >= 6 THEN Sign(prior) ELSE askedSide
      p == prior * direction
      r == recent * direction
      accelerates == p >= 6 /\ 2 * r >= 3 * p /\ r - p >= 12
      travel == Sum([i \in 1..6 |-> Abs(close(n - 6 + i) - close(n - 7 + i))])
      direct == travel > 0 /\ 100 * Abs(close(n) - close(n - 6)) >= 85 * travel
      ranges == [i \in 1..n |-> Log[candles[minutes[i]].high] - Log[candles[minutes[i]].low]]
      legs == Legs([i \in 1..n |-> direction * close(i)], Max({80, 3 * Median2(ranges)}))
      volume(from, to) == Sum([i \in 1..(to - from + 1) |-> candles[minutes[from + i - 1]].volume])
      current == volume(n - 2, n)
      before == volume(n - 5, n - 3)
      baselines == Baselines(candles, Profiles(candles, DayOf(minutes[n])), minutes[n])
      usual2 == Median2(baselines)
      known == Len(baselines) >= LeastSessions
      climax == known /\ current >= usual2 /\ before > 0 /\ 2 * current >= 3 * before
      volumeScore == IF climax THEN Min({30, Round(15 * (2 * current - usual2), usual2),
                                         Round(15 * (current - before), before)}) ELSE 0
      previous == {minutes[i] : i \in (n - 3)..(n - 1)}
      turns == p >= 6 /\ IF direction > 0 THEN \A m \in previous : candles[minutes[n]].close < candles[m].low
                         ELSE direction < 0 /\ \A m \in previous : candles[minutes[n]].close > candles[m].high
  IN [ready |-> TRUE, direction |-> direction, legs |-> legs,
      exhaustion |-> IF ~accelerates THEN 0
                     ELSE Min({40, Round(20 * (r - p), p)}) + volumeScore
                            + (IF direct THEN 15 ELSE 0) + (IF legs >= 3 THEN 15 ELSE 0),
      turn |-> IF turns THEN -direction ELSE 0,
      setup |-> minutes[n], volumeKnown |-> known]

\* The unbroken completed minutes before `at', at most Window of them.
\* Mutant of Completed: the minute still forming is taken too.
Completed_Forming(candles, at) ==
  {m \in (at - Window)..at :
     \A k \in m..at : k \in DOMAIN candles /\ DayOf(k) = DayOf(at)}
Completed(candles, at) ==
  {m \in (at - Window)..(at - 1) :
     \A k \in m..(at - 1) : k \in DOMAIN candles /\ DayOf(k) = DayOf(at)}

\* The worst of the windows that end earlier is kept if it is of this leg.
Worse(result, candidate) ==
  IF candidate.direction = result.direction /\ candidate.exhaustion > result.exhaustion
  THEN [result EXCEPT !.exhaustion = candidate.exhaustion, !.legs = candidate.legs,
                      !.setup = candidate.setup]
  ELSE result

ExhaustionOver(candles, minutes, askedSide) ==
  LET shorter(result, size) ==
        Worse(result, ExhaustionWindow(candles, SubSeq(minutes, 1, size), askedSide))
  IN IF Len(minutes) < Least THEN [ready |-> FALSE]
     ELSE FoldLeft(shorter, ExhaustionWindow(candles, minutes, askedSide),
                   [i \in 1..(Len(minutes) - Least) |-> Len(minutes) - i])

Exhaustion(candles, at, askedSide) ==
  ExhaustionOver(candles, LastMinutes(Completed(candles, at), Window, <<>>), askedSide)

-----------------------------------------------------------------------------
(* MomentumContextModel *)

\* What the kept part was computed for: the minute, the number of candles, the
\* side, and which array of candles.
KeyOf(at, candles, askedSide) == <<at, Cardinality(DOMAIN candles), askedSide>>

SideOf(candles, at, alert) ==
  IF MomentumOf(candles, at).side # 0 THEN MomentumOf(candles, at).side ELSE alert

Init ==
  /\ now = Start
  /\ bars = History
  /\ side \in {-1, 0, 1}
  /\ context = [key |-> <<>>, array |-> 0, tape |-> [ready |-> FALSE], daily |-> <<>>, asked |-> 0]
  /\ amended = FALSE

\* calculate, in a frame
Calculates ==
  LET asked == SideOf(bars, now, side)
      key == KeyOf(now, bars, asked)
      stale == context.key # key
      price == IF now \in DOMAIN bars THEN bars[now].close ELSE 0
  IN /\ context' = [context EXCEPT
           !.key = key, !.asked = asked,
           !.tape = IF stale THEN Exhaustion(bars, now, asked) ELSE @,
           !.daily = IF price = 0 THEN <<>> ELSE DailyStretch(price, DayOf(now))]
     /\ amended' = (amended /\ ~stale)
     /\ UNCHANGED <<now, bars, side>>

\* A print opens the candle of the minute or changes it.
Prints ==
  /\ now - Start + 1 \in DOMAIN Path
  /\ \E candle \in Path[now - Start + 1] :
       /\ bars' = [m \in DOMAIN bars \cup {now} |-> IF m = now THEN candle ELSE bars[m]]
       /\ bars' # bars
  /\ UNCHANGED <<now, side, context, amended>>

\* A print of the minute before comes late: a completed candle changes.
PrintsLate ==
  /\ now - 1 \in DOMAIN bars /\ now - 1 >= Start
  /\ \E candle \in Late :
       /\ bars' = [bars EXCEPT ![now - 1] = candle]
       /\ bars' # bars
  /\ amended' = TRUE
  /\ UNCHANGED <<now, side, context>>

Minute ==
  /\ now < Start + Len(Path)
  /\ now' = now + 1
  /\ UNCHANGED <<bars, side, context, amended>>

\* An alert comes or runs out (30 minutes).
Alert(given) ==
  /\ given # side
  /\ side' = given
  /\ UNCHANGED <<now, bars, context, amended>>

Next == Calculates \/ Prints \/ PrintsLate \/ Minute \/ (\E given \in {-1, 0, 1} : Alert(given))

Spec == Init /\ [][Next]_vars

-----------------------------------------------------------------------------
(* Properties *)

\* What is shown of the completed minutes is never of another minute, side or
\* leg than the frame it is shown in, and never knows the forming minute: the
\* kept reading is what the minutes completed by then give, for the side asked
\* about, unless a late print amended one of them since (it is then a minute
\* old at most).  A turn is against its leg and a score needs an acceleration.
SetupIsOfCompletedMinutes ==
  LET past == Restrict(bars, {m \in DOMAIN bars : m < context.key[1]})
      shown == Exhaustion(past, context.key[1], context.asked)
  IN (context.key # <<>> /\ ~amended) =>
       /\ context.key[1] = now => context.tape = shown
       /\ context.tape.ready =>
            /\ context.tape.setup < context.key[1]
            /\ context.tape.turn \in {0, -context.tape.direction}
            /\ context.tape.exhaustion \in 0..100
=============================================================================
