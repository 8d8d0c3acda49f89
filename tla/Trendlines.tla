----------------------------- MODULE Trendlines -----------------------------
(***************************************************************************)
(* The automatic trendlines of the minute chart                              *)
(* (internal/server/web/auto-trendlines.js): pivots of the closed candles, a   *)
(* zigzag through them for each of two sizes, the lines through pairs of its   *)
(* points that no close has broken, and the few of them that are drawn.        *)
(*                                                                         *)
(* Candles are [high, low, close], numbered from 1.  Prices are integers and   *)
(* averages are kept in units of 1/Scale; comparisons with the slope of a line *)
(* are multiplied out, so they are exact where the code allows an epsilon.     *)
(* The code looks at the newest 5000 candles; here there are never that many.  *)
(***************************************************************************)
EXTENDS Integers, SequencesExt

CONSTANTS Histories,      \* candles the chart was loaded with
          Candles,        \* what a candle can be
          MaxCandles,     \* bound on the candles that follow
          AtrPeriod,      \* 14
          Spans,          \* candles a pivot of a size must overtop: large 25, small 5
          Moves,          \* average ranges a swing must move: large 5, small 2
          TouchSpan,      \* strength from which a pivot touches a line: 3
          BreakoutBars,   \* closes behind a line that break it: 3
          FewestCandles,  \* 24
          VisibleCandles, \* 180
          PivotsPerSide, PerGroup, MostLines, \* 24, 3, 12
          Scale           \* fractions of a price that averages keep

VARIABLES candles,  \* the minute candles, the forming one last
          added     \* candles begun since the chart was loaded

vars == <<candles, added>>

Sizes == {"large", "small"}
Sides == {1, -1}     \* support and resistance

\* Mutant of Closed: the forming candle is taken with the others.
Closed_AndForming == candles

\* packClosedBars: the newest candle is held out until the next one arrives.
Closed == SubSeq(candles, 1, Len(candles) - 1)

Abs(n) == IF n < 0 THEN -n ELSE n

TrueRange(bars, i) ==
  LET previous == bars[Max({1, i - 1})].close
  IN Max({bars[i].high - bars[i].low, Abs(bars[i].high - previous), Abs(bars[i].low - previous)})

\* wilderATR: no average before AtrPeriod candles are there.
AverageRange(bars) ==
  LET Step(sums, i) == Append(sums, IF i = 1 THEN TrueRange(bars, 1) ELSE Last(sums) + TrueRange(bars, i))
      sum == FoldLeft(Step, <<>>, [i \in 1 .. Len(bars) |-> i])
      average[i \in AtrPeriod .. Len(bars)] ==
        IF i = AtrPeriod THEN (Scale * sum[i]) \div AtrPeriod
        ELSE (average[i - 1] * (AtrPeriod - 1) + Scale * TrueRange(bars, i)) \div AtrPeriod
  IN average

\* The extreme that a pivot of a side stands out by.
Extreme(bars, side, i) == IF side = 1 THEN -bars[i].low ELSE bars[i].high
PriceOf(bars, side, i) == IF side = 1 THEN bars[i].low ELSE bars[i].high

\* pivotStrengths: on a stack of the candles that still stand out, left to right and
\* back.  A plateau belongs to its rightmost candle.
Strengths(bars, side) ==
  LET n == Len(bars)
      V(i) == Extreme(bars, side, i)
      Left(state, i) ==
        LET higher == SelectSeq(state.stack, LAMBDA j : V(j) > V(i))
        IN [stack |-> Append(higher, i),
            out |-> Append(state.out, IF higher = <<>> THEN i - 1 ELSE i - Last(higher) - 1)]
      Right(state, i) ==
        LET higher == SelectSeq(state.stack, LAMBDA j : V(j) >= V(i))
        IN [stack |-> Append(higher, i),
            out |-> <<IF higher = <<>> THEN n - i ELSE Last(higher) - i - 1>> \o state.out]
      empty == [stack |-> <<>>, out |-> <<>>]
      left == FoldLeft(Left, empty, [i \in 1 .. n |-> i]).out
      right == FoldLeft(Right, empty, [i \in 1 .. n |-> n + 1 - i]).out
  IN [i \in 1 .. n |-> Min({left[i], right[i]})]

\* zigZag: swings of alternating side.  A more extreme pivot of the same side
\* replaces the last point, one of the other side must have moved far enough.
ZigZag(bars, atr, highs, lows, size) ==
  LET span == Spans[size]
      Step(points, i) ==
        LET high == highs[i] >= span
            low == lows[i] >= span
            last == Last(points)
            side == IF high /\ low THEN -last.side ELSE IF high THEN -1 ELSE 1
            point == [index |-> i, price |-> PriceOf(bars, side, i), side |-> side,
                      strength |-> IF side = 1 THEN lows[i] ELSE highs[i]]
        IN IF (~high /\ ~low) \/ (high /\ low /\ points = <<>>) THEN points
           ELSE IF points = <<>> THEN <<point>>
           ELSE IF side = last.side
                THEN IF (point.price - last.price) * side <= 0
                     THEN Append(Front(points), point) ELSE points
           ELSE IF Scale * (point.price - last.price) * last.side > Moves[size] * atr[last.index]
                THEN Append(points, point) ELSE points
      first == Max({AtrPeriod - 1, span}) + 1
  IN FoldLeft(Step, <<>>, [k \in 1 .. Max({0, Len(bars) - span - first + 1}) |-> first + k - 1])

\* computeAutoTrendlines: the swings of a size, from averages and strengths of all candles.
SwingsOf(bars, size) ==
  ZigZag(bars, AverageRange(bars), Strengths(bars, -1), Strengths(bars, 1), size)

-----------------------------------------------------------------------------
(* A line through two points of a side.  Its price at a candle, and distances   *)
(* to it, are multiplied by its base.                                        *)

Base(a, b) == b.index - a.index
At(a, b, i) == a.price * Base(a, b) + (b.price - a.price) * (i - a.index)

\* evaluateTrendline: NoLine, or the line with what it is ranked by.
NoLine == [size |-> "none"]

Line(bars, size, a, b) ==
  LET n == Len(bars)
      base == Base(a, b)
      atr == AverageRange(bars)
      strengths == Strengths(bars, a.side)
      zone == atr[a.index] + atr[b.index]           \* four times the zone, times Scale
      Behind(i) == (bars[i].close * base - At(a, b, i)) * a.side < 0
      Distance(i) == (PriceOf(bars, a.side, i) * base - At(a, b, i)) * a.side
      Touches(i) == 4 * Scale * Abs(Distance(i)) <= zone * base
      Breaks(i) == \A k \in i - BreakoutBars + 1 .. i : k > a.index /\ k # b.index /\ Behind(k)
      breaks == {i \in a.index + BreakoutBars .. n : Breaks(i)}
      end == IF breaks = {} THEN n ELSE Min(breaks)
      pivots == {i \in a.index .. end : strengths[i] >= TouchSpan}
      inside == pivots \cap (a.index + 1 .. b.index - 1)
      crossed == \E i \in inside :
                   \/ 4 * Scale * Distance(i) < -zone * base
                   \/ strengths[i] >= b.strength /\ Touches(i)
      extend == end - b.index <= 2 * base
  IN IF base <= 0 \/ b.index + Spans[size] > n \/ zone <= 0 \/ end < b.index \/ crossed THEN NoLine
     ELSE [size |-> size, side |-> a.side, a |-> a, b |-> b, broken |-> breaks # {},
           touches |-> Cardinality({i \in pivots : Touches(i)}), length |-> end - a.index,
           zone |-> zone, end |-> IF extend THEN end ELSE b.index]

\* rank: touches, length, strength, steepness, then the newer one.
Steeper(x, y) == Abs(x.b.price - x.a.price) * Base(y.a, y.b) * y.zone
                   - Abs(y.b.price - y.a.price) * Base(x.a, x.b) * x.zone
Ranked(x, y) ==
  LET keys == <<y.touches - x.touches, y.length - x.length, y.b.strength - x.b.strength,
                -Steeper(x, y), y.b.index - x.b.index, y.a.index - x.a.index>>
      first == SelectInSeq(keys, LAMBDA k : k # 0)
  IN IF x.size # y.size THEN x.size = "large"
     ELSE first # 0 /\ keys[first] < 0

\* linesConflict: they overlap by more than three tenths of the shorter base and
\* cross, or run closer than the wider zone at an end of the overlap.
LinesConflict(x, y) ==
  LET left == Max({x.a.index, y.a.index})
      right == Min({x.b.index, y.b.index})
      bx == Base(x.a, x.b)
      by == Base(y.a, y.b)
      D(i) == At(x.a, x.b, i) * by - At(y.a, y.b, i) * bx
  IN /\ x.side = y.side
     /\ 10 * (right - left) > 3 * Min({bx, by})
     /\ \/ D(left) * D(right) <= 0
        \/ 4 * Scale * Min({Abs(D(left)), Abs(D(right))}) <= Max({x.zone, y.zone}) * bx * by

\* smallInsideLarge: a small line that a large one of its side already shows.
SmallInsideLarge(x, y) ==
  LET bx == Base(x.a, x.b)
      by == Base(y.a, y.b)
      Near(i) == 4 * Scale * Abs(At(x.a, x.b, i) * by - At(y.a, y.b, i) * bx) <= y.zone * bx * by
  IN /\ x.size = "small" /\ y.size = "large" /\ x.side = y.side
     /\ x.a.index >= y.a.index /\ x.b.index <= y.b.index
     /\ Near(x.a.index) /\ Near(x.b.index)

\* computeAutoTrendlines: pairs of the newest points of each side, best first, and
\* of those the ones that no better one displaces.
Newest(points) == SubSeq(points, Max({1, Len(points) - PivotsPerSide + 1}), Len(points))

Lines(bars, size, points) ==
  {Line(bars, size, points[i], points[j]) :
     <<i, j>> \in {pair \in (DOMAIN points) \X (DOMAIN points) : pair[1] < pair[2]}}

AllCandidates(bars) ==
  UNION {Lines(bars, size, Newest(SelectSeq(SwingsOf(bars, size), LAMBDA p : p.side = side))) :
         <<size, side>> \in Sizes \X Sides}

Drawn(bars) ==
  LET candidates == {line \in AllCandidates(bars) :
                       line # NoLine /\ line.end > Max({0, Len(bars) - VisibleCandles})}
      Step(lines, line) ==
        LET group == {k \in DOMAIN lines : lines[k].size = line.size /\ lines[k].side = line.side}
        IN IF \/ Cardinality(group) >= PerGroup \/ Len(lines) >= MostLines
              \/ \E k \in DOMAIN lines : LinesConflict(line, lines[k]) \/ SmallInsideLarge(line, lines[k])
           THEN lines ELSE Append(lines, line)
  IN IF Len(bars) < FewestCandles THEN <<>>
     ELSE FoldLeft(Step, <<>>, SetToSortSeq(candidates, Ranked))

-----------------------------------------------------------------------------
Init == candles \in Histories /\ added = 0

\* The forming candle closes as it is, and the next one begins.
NewCandle ==
  \E candle \in Candles :
    /\ added < MaxCandles
    /\ added' = added + 1
    /\ candles' = Append(candles, candle)

\* The forming candle changes with each print of its minute.
FormingChanges ==
  \E candle \in Candles :
    /\ candles # <<>>
    /\ candles' = Append(Front(candles), candle)
    /\ UNCHANGED added

Next == NewCandle \/ FormingChanges
Spec == Init /\ [][Next]_vars

-----------------------------------------------------------------------------
(* Properties.                                                               *)

\* auto-trendlines.js:9: nothing of the future.  A swing that another one has followed
\* never moves again, whatever closes next, and a candle that is still forming
\* changes no line at all.
Followed(points) ==
  [i \in 1 .. Max({0, Len(points) - 1}) |->
     [index |-> points[i].index, price |-> points[i].price, side |-> points[i].side]]

Confirmed(bars, size) == Followed(SwingsOf(bars, size))

PivotsStay ==
  /\ \A size \in Sizes : IsPrefix(Confirmed(Closed, size), Confirmed(Closed', size))
  /\ Len(candles') = Len(candles) => Drawn(Closed') = Drawn(Closed)

\* The strength of a pivot, found with a stack in one pass each way, is by definition
\* how many candles on either side it overtops; and of the lines drawn, small and
\* large, no two of a side cross, crowd or repeat each other, whichever came first.
Overtops(bars, side, i, k) ==
  /\ i - k >= 1 /\ i + k <= Len(bars)
  /\ \A j \in i - k .. i - 1 : Extreme(bars, side, j) <= Extreme(bars, side, i)
  /\ \A j \in i + 1 .. i + k : Extreme(bars, side, j) < Extreme(bars, side, i)

Apart(lines) ==
  \A i, j \in DOMAIN lines : i < j =>
    /\ ~LinesConflict(lines[i], lines[j])
    /\ ~SmallInsideLarge(lines[i], lines[j]) /\ ~SmallInsideLarge(lines[j], lines[i])

LinesStandApart ==
  /\ \A side \in Sides : \A i \in DOMAIN Closed :
       Strengths(Closed, side)[i] = Max({k \in 0 .. Len(Closed) : Overtops(Closed, side, i, k)})
  /\ Apart(Drawn(Closed))
=============================================================================
