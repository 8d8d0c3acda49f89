------------------------------ MODULE TapeModel ------------------------------
(***************************************************************************)
(* What the browser computes from the prints it was given                    *)
(* (internal/server/web/tape-model.js, tape-source.js, tape-rewind.js): the   *)
(* totals of a window of receipt time, tick bars, minute candles and where a  *)
(* rewound pane starts.                                                     *)
(*                                                                         *)
(* A print is [s, r, t, p, z, d, f, m]: sequence number, receipt and exchange *)
(* time, price, size, side, what it is eligible for, and the middle of its    *)
(* quote, 0 without a usable one.  `f` is the set that the bits of the wire    *)
(* flags name, and all of it when there are none.  Receipt times and sequence  *)
(* numbers do not decrease along the tape, so a binary search is a count.      *)
(***************************************************************************)
EXTENDS Integers, SequencesExt

CONSTANTS MinuteLength   \* receipt ticks in a minute: 60 s in the code

Nothing == [volume |-> 0, buyer |-> 0, seller |-> 0, prints |-> 0]

CountedSize(e) == IF "volume" \in e.f THEN e.z ELSE 0

Plus(totals, e) ==
  [volume |-> totals.volume + CountedSize(e),
   buyer  |-> totals.buyer + (IF e.d > 0 THEN CountedSize(e) ELSE 0),
   seller |-> totals.seller + (IF e.d < 0 THEN CountedSize(e) ELSE 0),
   prints |-> totals.prints + 1]

Minus(after, before) == [k \in DOMAIN after |-> Max({0, after[k] - before[k]})]

LowerBound(keys, target) == 1 + Cardinality({i \in DOMAIN keys : keys[i] < target})
UpperBound(keys, target) == 1 + Cardinality({i \in DOMAIN keys : keys[i] <= target})

Receipt(prints) == [i \in DOMAIN prints |-> prints[i].r]

-----------------------------------------------------------------------------
(* The stream: [prints, sums, base, midpoints], sums[i] the totals up to       *)
(* prints[i] and base those of what was pruned before them.                   *)

EmptyStream == [prints |-> <<>>, sums |-> <<>>, base |-> Nothing, midpoints |-> <<>>]

Pushed(stream, e) ==
  LET before == IF stream.sums = <<>> THEN stream.base ELSE Last(stream.sums)
  IN [stream EXCEPT !.prints = Append(@, e), !.sums = Append(@, Plus(before, e)),
                    !.midpoints = IF e.m > 0 THEN Append(@, e) ELSE @]

Pruned(stream, keep) ==
  LET removed == Len(stream.prints) - keep
      first == stream.prints[removed + 1].s
  IN [prints |-> SubSeq(stream.prints, removed + 1, Len(stream.prints)),
      sums |-> SubSeq(stream.sums, removed + 1, Len(stream.sums)),
      base |-> stream.sums[removed],
      midpoints |-> SelectSeq(stream.midpoints, LAMBDA e : e.s >= first)]

StreamTotals(stream, start, end) ==
  LET from == LowerBound(Receipt(stream.prints), start)
      to == UpperBound(Receipt(stream.prints), end) - 1
  IN IF from > to THEN Nothing
     ELSE Minus(stream.sums[to], IF from > 1 THEN stream.sums[from - 1] ELSE stream.base)

StreamMidpoints(stream, start, end) ==
  LET from == LowerBound(Receipt(stream.midpoints), start)
      after == UpperBound(Receipt(stream.midpoints), end)
  IN IF from >= after THEN 0 ELSE stream.midpoints[after - 1].m - stream.midpoints[from].m

\* One horizon of a source, from `start' on: its totals, the volume of the window before
\* it (excluding the instant both share), whether that one can be known, and whether
\* this one reaches past the oldest print.
HorizonOf(prints, totals, before, move, start, length) ==
  [totals |-> totals, delta |-> totals.buyer - totals.seller, move |-> move,
   pace |-> before.volume, hasPace |-> prints # <<>> /\ prints[1].r <= start - length,
   truncated |-> prints = <<>> \/ prints[1].r > start]

Horizon(stream, length, now) ==
  LET start == now - length
  IN HorizonOf(stream.prints, StreamTotals(stream, start, now),
               StreamTotals(stream, start - length, start - 1),
               StreamMidpoints(stream, start, now), start, length)

-----------------------------------------------------------------------------
(* The rewind buffer: [prints, sums, base, head], bounded by receipt time and  *)
(* by capacity.  Print counts are not stored: the i-th is head + i - 1.        *)

EmptyBuffer == [prints |-> <<>>, sums |-> <<>>, base |-> Nothing, head |-> 1]

\* Reset leaves the base of the last eviction behind.
BufferReset(buffer) == [EmptyBuffer EXCEPT !.base = buffer.base]

\* Mutant of EvictedOldest: the base stays that of the reset.
EvictedOldest_KeepsBase(buffer) ==
  [buffer EXCEPT !.prints = Tail(@), !.sums = Tail(@), !.head = @ + 1]

EvictedOldest(buffer) ==
  [prints |-> Tail(buffer.prints), sums |-> Tail(buffer.sums),
   base |-> [buffer.sums[1] EXCEPT !.prints = buffer.head], head |-> buffer.head + 1]

RECURSIVE EvictedExpired(_, _)
EvictedExpired(buffer, floor) ==
  IF buffer.prints # <<>> /\ buffer.prints[1].r < floor
  THEN EvictedExpired(EvictedOldest(buffer), floor) ELSE buffer

BufferPushed(buffer, e, capacity, span) ==
  LET room == IF Len(buffer.prints) = capacity THEN EvictedOldest(buffer) ELSE buffer
      before == IF room.sums = <<>> THEN room.base ELSE Last(room.sums)
      kept == [room EXCEPT !.prints = Append(@, e), !.sums = Append(@, Plus(before, e))]
  IN IF buffer.prints # <<>> /\ e.s <= Last(buffer.prints).s THEN buffer
     ELSE EvictedExpired(kept, e.r - span)

PrefixAt(buffer, i) == [buffer.sums[i] EXCEPT !.prints = buffer.head + i - 1]

IndexAtReceipt(buffer, time) == LowerBound(Receipt(buffer.prints), time)
IndexAfterReceipt(buffer, time) == UpperBound(Receipt(buffer.prints), time)

\* each: the prints of a range of numbers; a hole in it is passed over.
Each(prints, from, to) == SelectSeq(prints, LAMBDA e : e.s >= from /\ e.s <= to)

SeqAtOrBefore(buffer, time) ==
  LET i == IndexAfterReceipt(buffer, time) - 1 IN IF i = 0 THEN 0 ELSE buffer.prints[i].s

RewindTotals(buffer, start, end) ==
  LET from == IndexAtReceipt(buffer, start)
      to == IndexAfterReceipt(buffer, end) - 1
  IN IF from > to THEN Nothing
     ELSE Minus(PrefixAt(buffer, to), IF from > 1 THEN PrefixAt(buffer, from - 1) ELSE buffer.base)

RewindMidpoints(buffer, start, end) ==
  LET inside == SelectSeq(buffer.prints, LAMBDA e : e.r >= start /\ e.r <= end /\ e.m > 0)
  IN IF inside = <<>> THEN 0 ELSE Last(inside).m - inside[1].m

RewindHorizon(buffer, length, now) ==
  LET start == now - length
  IN HorizonOf(buffer.prints, RewindTotals(buffer, start, now),
               RewindTotals(buffer, start - length, start - 1),
               RewindMidpoints(buffer, start, now), start, length)

\* The quote of the newest print up to a number that carries a usable one.
QuoteAt(buffer, seq) ==
  LET quoted == SelectSeq(buffer.prints, LAMBDA e : e.s <= seq /\ e.m > 0)
  IN IF quoted = <<>> THEN 0 ELSE Last(quoted).m

-----------------------------------------------------------------------------
(* Tick bars: a bar closes after `ticks` eligible prints.                      *)

NewBar(e) == [count |-> 0, first |-> e.s, open |-> 0, high |-> 0, low |-> 0, close |-> 0,
              volume |-> 0, delta |-> 0, time |-> e.t]

\* 0 stands for a price that no print has established yet.
BarWith(bar, e) ==
  LET priced == "price" \in e.f
      ranged == "range" \in e.f
  IN [bar EXCEPT !.count = @ + 1,
                 !.open = IF priced /\ @ = 0 THEN e.p ELSE @,
                 !.close = IF priced THEN e.p ELSE @,
                 !.high = IF ranged THEN Max({@, e.p}) ELSE @,
                 !.low = IF ranged /\ (@ = 0 \/ e.p < @) THEN e.p ELSE @,
                 !.volume = @ + CountedSize(e),
                 !.delta = @ + CountedSize(e) * e.d,
                 !.time = e.t]

AppendTickBar(bars, e, ticks) ==
  IF e.f \cap {"price", "range", "volume"} = {} THEN bars
  ELSE IF bars = <<>> \/ Last(bars).count >= ticks THEN Append(bars, BarWith(NewBar(e), e))
  ELSE [bars EXCEPT ![Len(bars)] = BarWith(@, e)]

AggregateTickBars(prints, from, to, ticks) ==
  FoldLeft(LAMBDA bars, e : AppendTickBar(bars, e, ticks), <<>>,
           Each(prints, from, to))

\* Where a rewound pane starts, so that its bars fall where the live ones do.
RewindWindowStart(liveBars, liveTicks, ticks, target, floor, visible) ==
  LET desired == Max({floor, target - Max({1, visible * ticks}) + 1})
      i == UpperBound([k \in DOMAIN liveBars |-> liveBars[k].first], desired) - 1
      found == liveBars[Max({i, 1})].first
      retained == SelectSeq(liveBars, LAMBDA bar : bar.first >= floor)
      anchor == IF found >= floor THEN found
                ELSE IF retained # <<>> THEN retained[1].first ELSE desired
  IN IF liveBars = <<>> \/ liveTicks # ticks THEN desired
     ELSE Max({floor, Min({anchor, target})})

-----------------------------------------------------------------------------
(* Minute candles: [bars, pending].  Prints that only count as volume wait in  *)
(* `pending` for the first print that establishes a price in their minute.     *)

NoCandles == [bars |-> <<>>, pending |-> <<>>]

MinuteOf(e) == (e.t \div MinuteLength) * MinuteLength

\* The candle a minute's first priced print opens, with what waited for it.
Opened(e, waiting) ==
  LET ranged == {e.p} \cup {w.p : w \in {w \in ToSet(waiting) : "range" \in w.f}}
  IN [minute |-> MinuteOf(e), open |-> e.p, high |-> Max(ranged), low |-> Min(ranged),
      close |-> e.p, volume |-> FoldLeft(LAMBDA n, w : n + CountedSize(w), 0, waiting),
      dollars |-> FoldLeft(LAMBDA n, w : n + w.p * CountedSize(w), 0, waiting),
      openAt |-> e.t, closeAt |-> e.t]

\* A candle loaded from history has no times (0); its close moves only while it is
\* the newest.
Repriced(bar, e, newest) ==
  LET opens == bar.openAt > 0 /\ e.t < bar.openAt
      closes == IF bar.closeAt > 0 THEN e.t >= bar.closeAt ELSE newest
  IN [bar EXCEPT !.open = IF opens THEN e.p ELSE @, !.openAt = IF opens THEN e.t ELSE @,
                 !.close = IF closes THEN e.p ELSE @, !.closeAt = IF closes THEN e.t ELSE @]

Volumed(bar, e) ==
  [bar EXCEPT !.volume = @ + CountedSize(e), !.dollars = @ + e.p * CountedSize(e),
              !.high = IF "range" \in e.f THEN Max({@, e.p}) ELSE @,
              !.low = IF "range" \in e.f THEN Min({@, e.p}) ELSE @]

AppendMinuteBar(candles, e, limit) ==
  LET minute == MinuteOf(e)
      priced == "price" \in e.f
      i == LowerBound([k \in DOMAIN candles.bars |-> candles.bars[k].minute], minute)
      known == i <= Len(candles.bars) /\ candles.bars[i].minute = minute
      Waits(w) == MinuteOf(w) = minute
      opened == Volumed(Opened(e, SelectSeq(candles.pending, Waits)), e)
      longer == InsertAt(candles.bars, i, opened)
      priceds == IF priced THEN Repriced(candles.bars[i], e, i = Len(candles.bars))
                 ELSE candles.bars[i]
  IN IF known THEN [candles EXCEPT !.bars[i] = Volumed(priceds, e)]
     ELSE IF ~priced THEN [candles EXCEPT !.pending = Append(@, e)]
     ELSE [bars |-> SubSeq(longer, Max({1, Len(longer) - limit + 1}), Len(longer)),
           pending |-> SelectSeq(candles.pending, LAMBDA w : MinuteOf(w) # minute)]

\* The median volume of the completed candles before the newest: the baseline of
\* the forming candle's relative volume.  Twice the median, to stay in the integers;
\* 0 when there are too few.
CandleBaseline(bars, most, fewest) ==
  LET done == SubSeq(bars, Max({1, Len(bars) - most}), Len(bars) - 1)
      volumes == SortSeq([i \in DOMAIN done |-> done[i].volume], <)
      n == Len(volumes)
  IN IF Len(bars) < fewest + 1 \/ n < fewest THEN 0
     ELSE volumes[(n + 1) \div 2] + volumes[n \div 2 + 1]
=============================================================================
