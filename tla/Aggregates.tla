----------------------------- MODULE Aggregates -----------------------------
(***************************************************************************)
(* The aggregates the browser keeps while prints arrive (ingestTrades and     *)
(* what it calls in internal/server/web/app.js): the history with its prefix   *)
(* totals, pruned in chunks; the tick bars; the minute candles; the rewind     *)
(* buffer, which is filled by the same prints and evicts on its own terms.     *)
(*                                                                         *)
(* A message carries one print.  Live receipt times are the server's clock:   *)
(* they never decrease.  Exchange times lag, so a report may be of an earlier   *)
(* minute, and numbers jump where a slow browser was overrun, which takes      *)
(* time.                                                                     *)
(***************************************************************************)
EXTENDS TapeModel

CONSTANTS Reports,        \* what a print says: [p, z, d, f, m]
          Lags,           \* how far an exchange time lags behind its receipt
          MaxLocalTrades, \* MAX_LOCAL_TRADES: 120000
          PruneChunk,     \* LOCAL_TRADE_PRUNE_CHUNK: 8192
          MaxBars,        \* tick bars kept: at least 10000
          VisibleBars,    \* settings.visibleBars
          Horizons,       \* of the pressure panel: 5, 15 and 60 s
          Deadband,       \* percent of the volume below which nobody wins: 2
          RateSpan,       \* of the rate of prints: 1 s
          TickSizes,      \* settings.tickSize
          MinuteLimit,    \* minute candles kept: 5001
          BufferCapacity, BufferSpan,        \* of the rewind buffer
          SnapshotTrades, \* prints in a snapshot
          MaxNumber,      \* bound on the sequence numbers
          MaxSnapshots    \* bound on the snapshots

VARIABLES delivered,   \* history: the prints since the last snapshot, its own included
          now,         \* the server's clock
          number,      \* the last sequence number
          snapshots,   \* snapshots sent
          stream, bars, ticks, candles, buffer

vars == <<delivered, now, number, snapshots, stream, bars, ticks, candles, buffer>>

Init ==
  /\ delivered = <<>> /\ now = 2 * MinuteLength /\ number = 0 /\ snapshots = 0
  /\ stream = EmptyStream /\ bars = <<>> /\ ticks \in TickSizes
  /\ candles = NoCandles /\ buffer = EmptyBuffer

AddedToBars(kept, e, size) ==
  LET longer == AppendTickBar(kept, e, size)
  IN SubSeq(longer, Max({1, Len(longer) - MaxBars + 1}), Len(longer))

RebuiltBars(prints, size) == FoldLeft(LAMBDA kept, e : AddedToBars(kept, e, size), <<>>, prints)

\* ingestTrades, one print.  Pruning waits until a whole chunk can go.
Deliver(report, wait, lag, skip) ==
  LET e == [s |-> number + 1 + skip, r |-> now + wait, t |-> now + wait - lag, p |-> report.p,
            z |-> report.z, d |-> report.d, f |-> report.f, m |-> report.m]
      longer == Pushed(stream, e)
  IN /\ number + 1 + skip <= MaxNumber
     /\ number' = e.s /\ now' = e.r
     /\ delivered' = Append(delivered, e)
     /\ stream' = IF Len(longer.prints) > MaxLocalTrades + PruneChunk
                  THEN Pruned(longer, MaxLocalTrades) ELSE longer
     /\ bars' = AddedToBars(bars, e, ticks)
     /\ candles' = AppendMinuteBar(candles, e, MinuteLimit)
     /\ buffer' = BufferPushed(buffer, e, BufferCapacity, BufferSpan)
     /\ UNCHANGED <<ticks, snapshots>>

\* A snapshot: everything is computed again from its prints, the newest of the tape.
Snapshot ==
  \E n \in 0 .. Min({SnapshotTrades, Len(delivered)}) :
    LET prints == SubSeq(delivered, Len(delivered) - n + 1, Len(delivered))
    IN /\ snapshots < MaxSnapshots
       /\ snapshots' = snapshots + 1
       /\ delivered' = prints
       /\ stream' = FoldLeft(Pushed, EmptyStream, prints)
       /\ bars' = RebuiltBars(prints, ticks)
       /\ candles' = FoldLeft(LAMBDA c, e : AppendMinuteBar(c, e, MinuteLimit), NoCandles, prints)
       /\ buffer' = FoldLeft(LAMBDA b, e : BufferPushed(b, e, BufferCapacity, BufferSpan),
                             BufferReset(buffer), prints)
       /\ UNCHANGED <<now, number, ticks>>

\* The trader picks another tick size: rebuildBars over what is retained.
ChangeTicks ==
  \E size \in TickSizes \ {ticks} :
    /\ ticks' = size
    /\ bars' = RebuiltBars(stream.prints, size)
    /\ UNCHANGED <<delivered, now, number, snapshots, stream, candles, buffer>>

Next ==
  \/ \E report \in Reports, wait \in {0, 1}, lag \in Lags : \E skip \in 0 .. wait :
       Deliver(report, wait, lag, skip)
  \/ Snapshot
  \/ ChangeTicks

Spec == Init /\ [][Next]_vars

-----------------------------------------------------------------------------
(* The rewound pane, drawn at an instant (drawRewindPane).                    *)

NoData == [winner |-> "no data"]

\* renderRow of the pressure panel, which is blank where the buffer does not reach.
Row(h) ==
  LET close == h.delta = 0 \/ 100 * Max({h.delta, -h.delta}) < Deadband * h.totals.volume
  IN IF h.truncated THEN NoData
     ELSE [winner |-> IF close THEN "balanced" ELSE IF h.delta > 0 THEN "buyer" ELSE "seller",
           horizon |-> h]

PaneBars(target) ==
  AggregateTickBars(buffer.prints,
    RewindWindowStart(bars, ticks, ticks, target, buffer.prints[1].s, VisibleBars), target, ticks)

Pane(at) ==
  LET target == SeqAtOrBefore(buffer, at)
  IN [bars |-> PaneBars(target),
      rows |-> [length \in Horizons |-> Row(RewindHorizon(buffer, length, at))],
      rate |-> RewindTotals(buffer, at - RateSpan, at).prints,
      quote |-> QuoteAt(buffer, target),
      last |-> Each(buffer.prints, target, target)[1].p]

-----------------------------------------------------------------------------
(* Properties.                                                               *)

\* Summed over the prints themselves: what a window of receipt time held.
WindowSum(start, end) ==
  FoldLeft(Plus, Nothing, SelectSeq(delivered, LAMBDA e : e.r >= start /\ e.r <= end))

WindowMove(start, end) ==
  LET quoted == SelectSeq(delivered, LAMBDA e : e.r >= start /\ e.r <= end /\ e.m > 0)
  IN IF quoted = <<>> THEN 0 ELSE Last(quoted).m - quoted[1].m

\* Of the prints from an instant on none was pruned or evicted.
Reaches(prints, start) ==
  prints # <<>> /\ \A e \in ToSet(delivered) : e.r >= start => e.s >= prints[1].s

\* A snapshot resets the buffer but leaves the base's count of prints: of a window that
\* begins with the oldest print only the volumes can be relied on then.
Reliable(start) ==
  IF snapshots > 0 /\ start <= buffer.prints[1].r THEN {"volume", "buyer", "seller"} ELSE DOMAIN Nothing

\* README.md:378: the rewound panel uses the same formulas and bounds as the live
\* one.  Whatever was pruned or evicted, the totals and the midpoint move of a
\* window that is retained from its beginning on are those of the prints in it, from
\* the stream and from the rewind buffer alike; and a horizon that is not marked
\* truncated is not understated.
TotalsExact ==
  /\ \A start \in MinuteLength .. now : \A end \in start .. now :
       /\ Reaches(stream.prints, start) =>
            /\ StreamTotals(stream, start, end) = WindowSum(start, end)
            /\ StreamMidpoints(stream, start, end) = WindowMove(start, end)
       /\ Reaches(buffer.prints, start) =>
            /\ \A k \in Reliable(start) :
                 RewindTotals(buffer, start, end)[k] = WindowSum(start, end)[k]
            /\ RewindMidpoints(buffer, start, end) = WindowMove(start, end)
  /\ \A length \in 1 .. now - MinuteLength :
       LET h == Horizon(stream, length, now)
       IN /\ ~h.truncated /\ Reaches(stream.prints, now - length) =>
               h.totals = WindowSum(now - length, now)
          /\ h.hasPace /\ Reaches(stream.prints, now - 2 * length) =>
               h.pace = WindowSum(now - 2 * length, now - length - 1).volume

\* A rewound pane reproduces the live bars: with the same tick size, wherever it is
\* rewound to and whatever was pruned, evicted or re-aggregated, each of its bars is
\* a live bar, and its last one such a bar while it was forming; unless no live
\* boundary is left in the buffer before the target.
BarsCoincide ==
  LET Bounded(target) == \E i \in DOMAIN bars : bars[i].first \in buffer.prints[1].s .. target
      Forming(bar, target) ==
        \E i \in DOMAIN bars :
          /\ bars[i].first = bar.first
          /\ bar = Last(AggregateTickBars(delivered, bar.first, target, ticks))
  IN \A n \in DOMAIN buffer.prints :
       LET target == buffer.prints[n].s
           pane == PaneBars(target)
       IN Bounded(target) =>
            /\ \A i \in 1 .. Len(pane) - 1 : pane[i] \in ToSet(bars)
            /\ pane # <<>> => Forming(Last(pane), target)

\* The rewound pane shows what was on the screen at its instant: the last print and the
\* last quote delivered by then, unless that is not retained, the prints of its last
\* second and, for every horizon the buffer reaches back over, the volumes and the
\* winner of the prints of that window.  (A window that begins with the oldest retained
\* receipt may miss others of the same receipt.)
PaneShowsThen ==
  LET first == buffer.prints[1]
      Before(at) == SelectSeq(delivered, LAMBDA e : e.r <= at)
      Quoted(at) == SelectSeq(Before(at), LAMBDA e : e.m > 0 /\ e.s >= first.s)
      Won(sum, winner) ==
        LET lead == 100 * (sum.buyer - sum.seller)
        IN CASE winner = "buyer" -> lead >= Deadband * sum.volume /\ lead > 0
             [] winner = "seller" -> -lead >= Deadband * sum.volume /\ lead < 0
             [] winner = "balanced" -> lead = 0 \/ Max({lead, -lead}) < Deadband * sum.volume
             [] OTHER -> FALSE
  IN buffer.prints # <<>> =>
       \A at \in first.r .. now :
         LET pane == Pane(at)
         IN /\ pane.last = Last(Before(at)).p
            /\ pane.quote = IF Quoted(at) = <<>> THEN 0 ELSE Last(Quoted(at)).m
            /\ at - RateSpan > first.r => pane.rate = WindowSum(at - RateSpan, at).prints
            /\ \A length \in Horizons :
                 IF at - length < first.r THEN pane.rows[length] = NoData
                 ELSE at - length > first.r =>
                   /\ pane.rows[length].horizon.totals = WindowSum(at - length, at)
                   /\ pane.rows[length].horizon.move = WindowMove(at - length, at)
                   /\ Won(WindowSum(at - length, at), pane.rows[length].winner)

\* The candles, by definition, of the prints since the snapshot: the first and last
\* priced print by exchange time, and every counted size of the minute.
Candle(minute) ==
  LET inside == SelectSeq(delivered, LAMBDA e : MinuteOf(e) = minute)
      priced == SelectSeq(inside, LAMBDA e : "price" \in e.f)
      times == {e.t : e \in ToSet(priced)}
      opening == SelectSeq(priced, LAMBDA e : e.t = Min(times))
      closing == SelectSeq(priced, LAMBDA e : e.t = Max(times))
      prices == {priced[1].p} \cup {e.p : e \in {e \in ToSet(inside) : "range" \in e.f}}
  IN [minute |-> minute, open |-> opening[1].p, high |-> Max(prices), low |-> Min(prices),
      close |-> Last(closing).p, volume |-> FoldLeft(Plus, Nothing, inside).volume,
      dollars |-> FoldLeft(LAMBDA n, e : n + e.p * CountedSize(e), 0, inside),
      openAt |-> Min(times), closeAt |-> Max(times)]

\* Reports come late, from an earlier minute, out of exchange order, and some count
\* only as volume: the candles are still those of the newest minutes that a print has
\* established a price in, in order, and half of the completed ones lie on either
\* side of the baseline that the forming one is compared with.
MinuteBarsExact ==
  LET minutes == {MinuteOf(e) : e \in {e \in ToSet(delivered) : "price" \in e.f}}
      newest == {k \in minutes : Cardinality({j \in minutes : j > k}) < MinuteLimit}
      volumes == [k \in newest \ {Max(newest)} |-> Candle(k).volume]
      Below(twice) == Cardinality({k \in DOMAIN volumes : 2 * volumes[k] < twice})
      Above(twice) == Cardinality({k \in DOMAIN volumes : 2 * volumes[k] > twice})
      baseline == CandleBaseline(candles.bars, MinuteLimit, 1)
  IN /\ Len(candles.bars) = Cardinality(newest)
     /\ \A i \in DOMAIN candles.bars :
          /\ candles.bars[i] = Candle(candles.bars[i].minute)
          /\ i > 1 => candles.bars[i - 1].minute < candles.bars[i].minute
     /\ Cardinality(newest) > 1 =>
          /\ 2 * Below(baseline) <= Cardinality(newest) - 1
          /\ 2 * Above(baseline) <= Cardinality(newest) - 1

AggregatesExact == TotalsExact /\ BarsCoincide /\ PaneShowsThen /\ MinuteBarsExact
=============================================================================
