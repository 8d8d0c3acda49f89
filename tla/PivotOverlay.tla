---------------------------- MODULE PivotOverlay ----------------------------
(***************************************************************************)
(* The daily pivots painted over the one-minute chart                      *)
(* (src/internal/server/web/daily-pivot-overlay.js and daily-pivots.js).   *)
(*                                                                         *)
(* The overlay is told nothing by app.js: it reads the ticker box, watches *)
(* the replies of three requests for the session date, asks for the last   *)
(* completed session of that symbol before that date, and paints when the  *)
(* chart writes its fifth axis label.  Every request is an await: it comes *)
(* back, fails or is aborted while the ticker and the date go on changing. *)
(*                                                                         *)
(* A price here is in thirds of a tick, so that PP = (H + L + C) / 3 is a  *)
(* whole number.  A day is a number; 0 stands for the empty string.        *)
(***************************************************************************)
EXTENDS Integers, Sequences, FiniteSets, FiniteSetsExt, SequencesExt

CONSTANTS
  Symbols,      \* texts of the ticker box that pass the pattern of line 50
  NoSymbol,     \* the box is empty or fails the pattern
  Days,         \* Eastern session dates, 1..n
  Session,      \* [symbol, day] -> the completed session before it, or NoBar
  NoBar,
  Quotes,       \* last prices the chart may show
  Panes,        \* [top, bottom, minimum, maximum, blocked] of the chart
  MaxLoads,     \* bound: requests sent
  MaxDraws      \* bound: redraws of the chart

VARIABLES
  typed,        \* activeSymbol()
  wallDay,      \* todayET()
  observed,     \* observedSessionDateET
  pivot,        \* pivotState
  inFlight,     \* requests sent and not settled: [symbol, before, token]
  mapping,      \* what is known of the chart's last painting, NoBar at first
  canvas,       \* overlay paintings since the chart last cleared its canvas
  reported,     \* the last new day a watched reply gave, 0 if it met an empty box
  loads, draws  \* counters of the bounds

vars == <<typed, wallDay, observed, pivot, inFlight, mapping, canvas, reported, loads, draws>>

-----------------------------------------------------------------------------
(* Levels (daily-pivots.js) *)

\* The value of R(k) for side "up" and S(k) for "down", of PP for "at".
PivotPrice(bar, side, k) ==
  LET pp == bar.high + bar.low + bar.close
      h == 3 * bar.high
      l == 3 * bar.low
      range == h - l
      third(up) == IF up THEN h + 2 * (pp - l) ELSE l - 2 * (h - pp)
  IN CASE side = "at"              -> pp
       [] side = "up" /\ k = 1     -> 2 * pp - l
       [] side = "up" /\ k = 2     -> pp + range
       [] side = "up" /\ k >= 3    -> third(TRUE) + (k - 3) * range
       [] side = "down" /\ k = 1   -> 2 * pp - h
       [] side = "down" /\ k = 2   -> pp - range
       [] side = "down" /\ k >= 3  -> third(FALSE) - (k - 3) * range

ValidSession(bar) == bar.low > 0 /\ bar.close > 0 /\ bar.high >= bar.low

\* dailyPivotLevels: those of positive price, in the order of the table.
Levels(bar) ==
  LET up == [i \in 1..10 |-> [side |-> "up", k |-> 11 - i, price |-> PivotPrice(bar, "up", 11 - i)]]
      at == <<[side |-> "at", k |-> 0, price |-> PivotPrice(bar, "at", 0)]>>
      down == [i \in 1..10 |-> [side |-> "down", k |-> i, price |-> PivotPrice(bar, "down", i)]]
      positive(level) == level.price > 0
  IN SelectSeq(up \o at \o down, positive)

Range3(bar) == 3 * (bar.high - bar.low)

-----------------------------------------------------------------------------
(* Which levels are shown, and where *)

Distance(a, b) == Max({a - b, b - a})

\* mappingPriceY, with whole pixels.
PriceY(pane, price) ==
  pane.bottom - ((price - pane.minimum) * (pane.bottom - pane.top)) \div (pane.maximum - pane.minimum)

\* dailyPivotProximity: the nearest level is highlighted when it is close in
\* price, by a threshold that follows the prior range between 0.15 % and
\* 0.4 % of the price, or within 22 pixels.  The first of equals wins.
IsNear(pane, level, last, range) ==
  LET floor == 15 * last
      scaled == IF range = 0 THEN floor ELSE 400 * range
      threshold == Max({floor, Min({40 * last, scaled})})
  IN \/ 10000 * Distance(last, level.price) <= threshold
     \/ Distance(PriceY(pane, last), PriceY(pane, level.price)) <= 22

Ascending(levels) == SortSeq(levels, LAMBDA a, b: a.price < b.price)

\* selectDailyPivotContext: two levels at or above the price, two below.
Selected(levels, last) ==
  LET ordered == Ascending(levels)
      up == SelectSeq(ordered, LAMBDA level: level.price >= last)
      down == Reverse(SelectSeq(ordered, LAMBDA level: level.price < last))
      two(s) == SubSeq(s, 1, Min({2, Len(s)}))
  IN two(up) \o two(down)

InView(pane, level) == pane.minimum <= level.price /\ level.price <= pane.maximum

\* The level that is highlighted, if it is among the selected ones.
Highlighted(pane, levels, last, range) ==
  LET ordered == Ascending(levels)
      nearest == CHOOSE i \in DOMAIN ordered :
        \A j \in DOMAIN ordered :
          \/ Distance(last, ordered[i].price) < Distance(last, ordered[j].price)
          \/ Distance(last, ordered[i].price) = Distance(last, ordered[j].price) /\ i <= j
  IN {level \in ToSet(Selected(levels, last)) :
        level = ordered[nearest] /\ IsNear(pane, level, last, range)}

MinimumGap == 17

\* The passes of layoutDailyPivotLabels over the wanted heights y, sorted:
\* push down, shift up by the overflow, push up, shift down by the underflow.
PushedDown(y) == FoldLeft(LAMBDA done, v:
  Append(done, IF done = <<>> THEN v ELSE Max({v, Last(done) + MinimumGap})), <<>>, y)
PushedUp(y) == Reverse(FoldLeft(LAMBDA done, v:
  Append(done, IF done = <<>> THEN v ELSE Min({v, Last(done) - MinimumGap})), <<>>, Reverse(y)))
Shifted(y, by) == [i \in DOMAIN y |-> y[i] + by]

\* The room a label has between its neighbours, or the ends of the pane.
RoomOf(y, i, lower, upper) ==
  [low |-> IF i = 1 THEN lower ELSE y[i - 1] + MinimumGap,
   high |-> IF i = Len(y) THEN upper ELSE y[i + 1] - MinimumGap]

\* One label steps aside from each blocked height in turn, if it can without
\* leaving the room its neighbours give it; the nearer side is taken.
SteppedAside(y, i, lower, upper, blocked) ==
  LET room == RoomOf(y, i, lower, upper)
      aside(v, b) ==
        LET rooms == {r \in {b - MinimumGap, b + MinimumGap} : room.low <= r /\ r <= room.high}
        IN IF Distance(v, b) >= MinimumGap \/ rooms = {} THEN v
           ELSE CHOOSE r \in rooms : \A other \in rooms :
                  Distance(r, v) < Distance(other, v) \/ (Distance(r, v) = Distance(other, v) /\ r <= other)
  IN [y EXCEPT ![i] = FoldLeft(aside, y[i], blocked)]

Placed(wanted, lower, upper, blocked) ==
  IF wanted = <<>> \/ upper < lower THEN <<>>
  ELSE LET sorted == SortSeq([i \in DOMAIN wanted |-> Max({lower, Min({upper, wanted[i]})})], <)
           down == PushedDown(sorted)
           raised == Shifted(down, -Max({0, Last(down) - upper}))
           up == PushedUp(raised)
           final == Shifted(up, Max({0, lower - up[1]}))
       IN FoldLeft(LAMBDA y, i: SteppedAside(y, i, lower, upper, blocked), final, [i \in DOMAIN final |-> i])

\* edgeLabelY: a level out of view is named at the edge, a step further from
\* it for each occupied height met, eight steps at most, and kept on the pane.
RECURSIVE Unoccupied(_, _, _, _)
Unoccupied(y, step, occupied, attempts) ==
  IF attempts = 0 \/ \A v \in occupied : Distance(v, y) >= 16 THEN y
  ELSE Unoccupied(y + step, step, occupied, attempts - 1)

EdgeLabels(pane, above, below, occupied) ==
  LET lower == pane.top + 9
      upper == pane.bottom - 9
      place(done, from, step) ==
        Append(done, Max({lower, Min({upper, Unoccupied(from, step, occupied \cup ToSet(done), 8)})}))
      upEdge == FoldLeft(LAMBDA done, i: place(done, lower + (i - 1) * 18, 18), <<>>, [i \in 1..above |-> i])
  IN FoldLeft(LAMBDA done, i: place(done, upper - (i - 1) * 18, -18), upEdge, [i \in 1..below |-> i])

\* drawDailyPivotLines and drawDailyPivotLabels: the guides of the selected
\* levels in view, their labels, and the labels of those out of view.
Painting(key, bar, last, pane) ==
  LET levels == Levels(bar)
      chosen == Selected(levels, last)
      seen == SelectSeq(chosen, LAMBDA level: InView(pane, level))
      labels == Placed([i \in DOMAIN seen |-> PriceY(pane, seen[i].price)],
                       pane.top + 8, pane.bottom - 8, pane.blocked)
      above == Len(SelectSeq(chosen, LAMBDA level: level.price > pane.maximum))
      below == Len(SelectSeq(chosen, LAMBDA level: level.price < pane.minimum))
  IN [key |-> key, guides |-> ToSet(seen), labels |-> labels,
      edges |-> EdgeLabels(pane, above, below, ToSet(labels) \cup ToSet(pane.blocked)),
      near |-> Highlighted(pane, levels, last, Range3(bar)), last |-> last, pane |-> pane]

-----------------------------------------------------------------------------
(* The overlay's state *)

NoKey == <<>>

Init ==
  /\ typed \in Symbols
  /\ wallDay = Min(Days)
  /\ observed = 0
  /\ pivot = [symbol |-> NoSymbol, requested |-> 0, session |-> 0, bar |-> NoBar, key |-> NoKey,
              status |-> "idle", pending |-> FALSE, token |-> 0, retry |-> FALSE]
  /\ inFlight = {}
  /\ mapping = NoBar
  /\ canvas = <<>>
  /\ reported = 0
  /\ loads = 0 /\ draws = 0

RequestDay(seen) == IF seen # 0 THEN seen ELSE wallDay

\* clearPivots
Cleared(p, symbol, day) ==
  [p EXCEPT !.symbol = symbol, !.requested = day, !.session = 0, !.bar = NoBar, !.key = NoKey,
            !.status = "loading", !.pending = FALSE, !.retry = FALSE, !.token = @ + 1]

\* ensurePivots, from state p and observed day: what is held and what is sent.
Ensured(p, seen, force) ==
  LET day == RequestDay(seen)
      changed == typed # p.symbol \/ day # p.requested
      held == IF changed THEN Cleared(p, typed, day) ELSE p
      quiet == \/ held.pending
               \/ ~force /\ held.status = "ready" /\ ~changed
               \/ ~force /\ held.retry
  IN IF typed = NoSymbol THEN [held |-> p, sent |-> {}]
     ELSE IF quiet THEN [held |-> held, sent |-> {}]
     ELSE [held |-> [held EXCEPT !.token = @ + 1, !.pending = TRUE, !.status = "loading"],
           sent |-> {[symbol |-> typed, before |-> day, token |-> held.token + 1]}]

Ensures(seen, force, from) ==
  LET result == Ensured(from, seen, force)
  IN /\ loads + Cardinality(result.sent) <= MaxLoads
     /\ pivot' = result.held
     /\ inFlight' = inFlight \cup result.sent
     /\ loads' = loads + Cardinality(result.sent)

\* The user types, or app.js writes the adopted symbol into the box.
Types(text) ==
  /\ text # typed
  /\ typed' = text
  /\ UNCHANGED <<wallDay, observed, pivot, inFlight, mapping, canvas, reported, loads, draws>>

\* pollContext, every 500 ms
Polls ==
  LET leaves == typed # NoSymbol /\ typed # pivot.symbol
      from == IF leaves THEN Cleared(pivot, typed, RequestDay(observed)) ELSE pivot
  IN /\ Ensures(observed, FALSE, from)
     /\ UNCHANGED <<typed, wallDay, observed, mapping, canvas, reported, draws>>

\* observeFetchResponse of /api/replay and /api/render: setObservedClockUS
ClockSeen(day) ==
  /\ IF day = observed
     THEN UNCHANGED <<observed, reported, pivot, inFlight, loads>>
     ELSE /\ observed' = day
          /\ reported' = IF typed = NoSymbol THEN 0 ELSE day
          /\ Ensures(day, TRUE, pivot)
  /\ UNCHANGED <<typed, wallDay, mapping, canvas, draws>>

\* observeFetchResponse of /api/ticker: ensurePivots(true)
TickerAccepted ==
  /\ Ensures(observed, TRUE, pivot)
  /\ UNCHANGED <<typed, wallDay, observed, mapping, canvas, reported, draws>>

\* drawLines and drawLabels: once per mapping and data.
PaintsOver(paintings, p, map) ==
  IF map = NoBar \/ p.status # "ready" \/ map.painted = p.key THEN paintings
  ELSE Append(paintings, Painting(p.key, p.bar, map.last, map.pane))

PaintedMapping(p, map) ==
  IF map = NoBar \/ p.status # "ready" THEN map ELSE [map EXCEPT !.painted = p.key]

\* Mutant of IsCurrent: the token is not compared.
IsCurrent_SymbolOnly(request) == request.symbol = typed

\* A reply is used only by the request that is current, for the symbol typed.
IsCurrent(request) == request.token = pivot.token /\ request.symbol = typed

\* loadPivots: the reply.  The completed session is adopted with its date and
\* the known chart is painted over; a reply without one is unavailable for
\* RETRY_MS.  A reply for another symbol than the one typed is dropped, and
\* clears pending if its request is still the last one (finally).
Replied(request) ==
  LET bar == Session[request.symbol, request.before]
      dropped == IF request.token = pivot.token THEN [pivot EXCEPT !.pending = FALSE] ELSE pivot
      ready == [pivot EXCEPT !.symbol = request.symbol, !.requested = request.before,
                  !.session = request.before, !.bar = bar,
                  !.key = <<request.symbol, request.before, bar>>,
                  !.status = "ready", !.pending = FALSE, !.retry = FALSE]
      refused == [pivot EXCEPT !.bar = NoBar, !.key = NoKey, !.status = "unavailable",
                    !.pending = FALSE, !.retry = TRUE]
  IN /\ inFlight' = inFlight \ {request}
     /\ CASE ~IsCurrent(request) ->
               /\ pivot' = dropped
               /\ UNCHANGED <<observed, canvas, mapping>>
          [] IsCurrent(request) /\ bar # NoBar /\ ValidSession(bar) ->
               /\ pivot' = ready
               /\ observed' = request.before
               /\ canvas' = PaintsOver(canvas, ready, mapping)
               /\ mapping' = PaintedMapping(ready, mapping)
          [] OTHER ->
               /\ pivot' = refused
               /\ UNCHANGED <<observed, canvas, mapping>>
     /\ UNCHANGED <<typed, wallDay, reported, loads, draws>>

\* loadPivots: the request fails, or was aborted by clearPivots.
Failed(request) ==
  /\ inFlight' = inFlight \ {request}
  /\ pivot' = IF request.token # pivot.token THEN pivot
              ELSE [pivot EXCEPT !.bar = NoBar, !.key = NoKey, !.status = "unavailable",
                                 !.pending = FALSE, !.retry = TRUE]
  /\ UNCHANGED <<typed, wallDay, observed, mapping, canvas, reported, loads, draws>>

\* RETRY_MS after a failure
RetryDue ==
  /\ pivot.retry
  /\ pivot' = [pivot EXCEPT !.retry = FALSE]
  /\ UNCHANGED <<typed, wallDay, observed, inFlight, mapping, canvas, reported, loads, draws>>

\* The chart clears its canvas and draws; its fifth axis label makes a new
\* mapping, the guides follow at once and the labels after the chart.
Redraws(last, pane) ==
  LET map == [last |-> last, pane |-> pane, painted |-> NoKey]
  IN /\ draws < MaxDraws
     /\ draws' = draws + 1
     /\ canvas' = PaintsOver(<<>>, pivot, map)
     /\ mapping' = PaintedMapping(pivot, map)
     /\ UNCHANGED <<typed, wallDay, observed, pivot, inFlight, reported, loads>>

Midnight ==
  /\ wallDay + 1 \in Days
  /\ wallDay' = wallDay + 1
  /\ UNCHANGED <<typed, observed, pivot, inFlight, mapping, canvas, reported, loads, draws>>

Next ==
  \/ \E text \in Symbols \cup {NoSymbol} : Types(text)
  \/ Polls
  \/ \E day \in Days : ClockSeen(day)
  \/ TickerAccepted
  \/ \E request \in inFlight : Replied(request) \/ Failed(request)
  \/ RetryDue
  \/ \E last \in Quotes, pane \in Panes : Redraws(last, pane)
  \/ Midnight

Spec == Init /\ [][Next]_vars

-----------------------------------------------------------------------------
(* Properties *)

\* The pivots held are those of the session last reported to the page, and of
\* the symbol they are filed under, and the chart has them painted: no reply
\* of an abandoned symbol or date takes their place, in whatever order the
\* replies, the typing and the dates come.  (A date reported while the ticker
\* box is empty is not asked about, and a reply still in flight overrules it:
\* that case is left out by the definition of reported.)
PivotsFollowTheSession ==
  pivot.status = "ready" =>
    /\ pivot.bar = Session[pivot.symbol, pivot.session]
    /\ reported # 0 => pivot.session = reported
    /\ mapping # NoBar => canvas # <<>> /\ Last(canvas).key = <<pivot.symbol, pivot.session, pivot.bar>>

\* In every painting the labels of the visible levels keep their distance and
\* stay on the pane whenever the pane has room for them, the levels named are
\* the closest two on each side, and a level is never named both at its height
\* and at an edge.
Room(painting) == painting.pane.bottom - painting.pane.top - 16
LabelsReadable ==
  \A i \in DOMAIN canvas :
    LET painting == canvas[i]
        labels == painting.labels
        levels == Levels(painting.key[3])
    IN /\ (Len(labels) - 1) * MinimumGap <= Room(painting) =>
            /\ \A j \in 1..(Len(labels) - 1) : labels[j] + MinimumGap <= labels[j + 1]
            /\ \A j \in DOMAIN labels : painting.pane.top + 8 <= labels[j] /\ labels[j] <= painting.pane.bottom - 8
       /\ \A side \in {TRUE, FALSE} :
            LET on(level) == (level.price >= painting.last) = side
                named == {level \in ToSet(Selected(levels, painting.last)) : on(level)}
            IN \A level \in ToSet(levels) \ named : on(level) =>
                 \A other \in named : Distance(other.price, painting.last) <= Distance(level.price, painting.last)
       /\ Len(labels) + Len(painting.edges) = Len(Selected(levels, painting.last))

=============================================================================
