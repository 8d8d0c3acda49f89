-------------------------------- MODULE Panels --------------------------------
(***************************************************************************)
(* The parts of the browser that show what they ask the server for, one at a  *)
(* time, while the trader changes the stock, seeks the replay, loses the       *)
(* connection, hides the page or swaps the panel: the panels of the two slots  *)
(* (panel-host.js), the studies of the minute chart, its background history    *)
(* and the map of the day.  `panel' is one of them, of any kind.              *)
(*                                                                         *)
(* The server moves on by itself; the browser hears of it later.  A request    *)
(* that was dropped (its token is old and it is aborted) may still be          *)
(* answered: its answer was on its way.  Clocks are in minutes, waits are      *)
(* rounds of Tick.  What an answer says is not modelled, only whether it can    *)
(* be used; a subscription is denied, or the background history refused (422), *)
(* for the whole run or not at all.                                            *)
(***************************************************************************)
EXTENDS Integers, FiniteSets

CONSTANTS Kinds,        \* the kinds of panel
          Symbols,
          MaxClock, SessionLength, \* minutes, and those of a session
          StaleAfter,   \* age at which a reading may not be shown: 90 s
          Pace, Retry,  \* waits after a request and after a failed one
          MaxTries,     \* attempts of the background history: 3
          MaxChanges,   \* bound on what the trader and the network do
          MaxFailures   \* bound on failed requests

VARIABLES server,   \* [symbol, generation, clock, paused, denied]
          seen,     \* what the browser knows of it, and [replay, connected, epoch, on]
          panel,
          changes, failures

vars == <<server, seen, panel, changes, failures>>

\* A reply: what the server computed, for which tape, up to which minute.
Blank == [status |-> "none", symbol |-> "none", generation |-> 0, asOf |-> 0]
Failure(status) == [Blank EXCEPT !.status = status]
Never == -1

Fresh(kind) ==
  [kind |-> kind, key |-> <<>>, result |-> Blank, wait |-> 0, asked |-> Never, last |-> Never,
   tries |-> 0, done |-> FALSE, armed |-> FALSE, flights |-> {}]

Session(clock) == clock \div SessionLength
Stopped(w) == w.replay /\ w.paused
Pending(p) == \E f \in p.flights : f.live
Asking(p, w) ==
  [p EXCEPT !.flights = @ \cup {[symbol |-> w.symbol, generation |-> w.generation,
                                 clock |-> w.clock, live |-> TRUE]}]
\* Mutant of Dropped: the requests under way are not aborted.
Dropped_Kept(p) == p
Dropped(p) == [p EXCEPT !.flights = {[f EXCEPT !.live = FALSE] : f \in @}]
Same(f, r) == r.symbol = f.symbol /\ r.generation = f.generation

-----------------------------------------------------------------------------
(* Each kind: what it does in a frame, with an answer, and to be reset.  The  *)
(* answers of dropped requests do not get here (Hears, below).                *)

\* gex-panel.js
GexClear(p) == [Dropped(p) EXCEPT !.result = Blank, !.wait = 0, !.asked = Never]

GexRender(p, w) ==
  LET key == <<w.symbol, w.generation, w.connected>>
      q == [IF p.key # key \/ w.clock < p.last THEN GexClear(p) ELSE p
              EXCEPT !.key = key, !.last = w.clock]
  IN IF /\ w.on /\ ~Pending(q) /\ q.wait = 0
        /\ w.replay \/ ((w.connected \/ q.result = Blank) /\ q.result.status # "denied")
        /\ Stopped(w) => q.asked # w.clock
     THEN [Asking(q, w) EXCEPT !.wait = Pace, !.asked = w.clock] ELSE q

GexReply(p, f, r) ==
  [p EXCEPT !.result = IF r.status = "offline" \/ Same(f, r) THEN r ELSE Failure("changed")]

\* gexView: nothing of another tape, of the future or too old is shown.
GexView(r, w) ==
  /\ r.status = "ready" /\ r.symbol = w.symbol /\ r.generation = w.generation
  /\ w.replay \/ w.connected
  /\ r.asOf <= w.clock /\ w.clock - r.asOf <= StaleAfter

\* gex-overlay-controller.js.  A lookup that failed may be repeated while paused.
OverlayReset(p) == [GexClear(p) EXCEPT !.key = <<>>, !.last = Never]

OverlaySync(p, w) ==
  LET key == <<w.symbol, w.generation, w.connected, w.epoch>>
      q == [IF p.key # key \/ w.clock < p.last THEN OverlayReset(p) ELSE p
              EXCEPT !.key = key, !.last = w.clock]
  IN IF ~w.on THEN OverlayReset(p)
     ELSE IF /\ ~Pending(q) /\ q.wait = 0
             /\ w.replay \/ ((w.connected \/ q.result = Blank) /\ q.result.status # "denied")
             /\ Stopped(w) => q.asked # w.clock
          THEN [Asking(q, w) EXCEPT !.wait = Pace, !.asked = w.clock] ELSE q

OverlayLoaded(p, f, r) ==
  IF r.status = "offline" THEN [p EXCEPT !.result = r, !.asked = Never, !.wait = Retry]
  ELSE GexReply(p, f, r)

\* cumulative-rvol.js: once a minute; `last' is the minute of the result.
RvolReset(p) ==
  [Dropped(p) EXCEPT !.key = <<>>, !.last = Never, !.wait = 0, !.result = Blank]

RvolSync(p, w) ==
  LET key == <<w.symbol, w.generation, w.epoch, Session(w.clock)>>
      q == [IF p.key # key THEN RvolReset(p) ELSE p EXCEPT !.key = key]
  IN IF ~w.on THEN RvolReset(p)
     ELSE IF Pending(q) \/ w.clock = q.last \/ q.wait > 0 THEN q ELSE Asking(q, w)

RvolLoaded(p, f, r) ==
  IF r.status = "offline" \/ r.symbol # f.symbol
  THEN [p EXCEPT !.result = Failure("offline"), !.wait = Retry]
  ELSE [p EXCEPT !.result = r, !.last = f.clock]

\* kronos-panel.js: `last' is the minute the forecast starts at.  A hidden panel
\* aborts its request, which then fails.
ForecastClear(p) == [Dropped(p) EXCEPT !.result = Blank, !.wait = 0, !.last = Never]

ForecastRender(p, w) ==
  LET q == IF w.clock # p.last THEN [p EXCEPT !.last = w.clock, !.wait = 0] ELSE p
  IN IF ~w.on \/ Pending(q) \/ q.wait > 0 THEN (IF w.on THEN q ELSE p) ELSE Asking(q, w)

ForecastReply(p, f, r, w) ==
  IF r.status = "offline" THEN [p EXCEPT !.result = r, !.wait = Retry]
  ELSE IF f.symbol # w.symbol \/ f.generation # w.generation THEN p
  ELSE IF ~Same(f, r) THEN [p EXCEPT !.result = Failure("changed")]
  ELSE [p EXCEPT !.result = r, !.wait = Pace]

\* options-flow-panel.js: only live.
FlowClear(p) == [Dropped(p) EXCEPT !.result = Blank, !.wait = 0]

FlowRender(p, w) ==
  LET key == <<w.symbol, w.generation, w.connected>>
      q == [IF p.key # key THEN FlowClear(p) ELSE p EXCEPT !.key = key]
  IN IF /\ ~w.replay /\ w.on /\ ~Pending(q) /\ q.wait = 0
        /\ (w.connected \/ q.result = Blank) /\ q.result.status # "denied"
     THEN [Asking(q, w) EXCEPT !.wait = Pace] ELSE q

\* adr-rth-extension-panel.js: `last' is the session it is of, `asked' the clock when it
\* last asked; it asks again after a failure and when the session changes.
AdrLoad(p, w) ==
  [Asking(Dropped(p), w) EXCEPT !.result = Blank, !.wait = Retry,
     !.last = Session(w.clock), !.asked = w.clock]

\* Mutant of AdrRender: a failure is not tried again.
AdrRender_Once(p, w) == IF p.last # Never /\ p.last # Session(w.clock) THEN AdrLoad(p, w) ELSE p
AdrRender(p, w) ==
  IF \/ p.last # Never /\ p.last # Session(w.clock)
     \/ ~Pending(p) /\ ~Stopped(w) /\ p.wait = 0 /\ p.result.status = "offline"
  THEN AdrLoad(p, w) ELSE p

AdrReply(p, f, r) ==
  [p EXCEPT !.result = IF r.symbol = f.symbol THEN r ELSE Failure("offline"), !.wait = Retry]

\* options-volatility-panel.js: `last' is the session of its model.
VolatilityReset(p, w) ==
  [Dropped(p) EXCEPT !.result = Blank, !.wait = 0, !.last = Session(w.clock),
     !.key = <<w.symbol>>]

VolatilityRender(p, w) ==
  LET q == IF p.key # <<w.symbol>> \/ p.last # Session(w.clock) THEN VolatilityReset(p, w) ELSE p
      first == ~w.replay /\ q.result = Blank
      closed == ~w.replay /\ q.result.status = "denied"
  IN IF ~Pending(q) /\ q.wait = 0 /\ (first \/ (~closed /\ w.connected)) THEN Asking(q, w) ELSE q

VolatilityReply(p, f, r, w) ==
  IF r.status = "offline" THEN [p EXCEPT !.result = r, !.wait = Pace]
  ELSE IF r.generation # f.generation THEN [p EXCEPT !.result = Failure("changed"), !.wait = Pace]
  ELSE IF w.replay /\ r.asOf > w.clock THEN [p EXCEPT !.wait = Pace]
  ELSE [p EXCEPT !.result = r, !.wait = Pace]

\* chart-history.js: a request waits for its turn, and is not repeated for long: `done' is
\* set by an answer, by a refusal (422), and by the last attempt that failed.
HistoryReset(p) ==
  [Dropped(p) EXCEPT !.key = <<>>, !.done = FALSE, !.tries = 0, !.armed = FALSE, !.wait = 0,
     !.result = Blank]

HistoryEnsure(p, key) ==
  LET q == [IF p.key # key THEN HistoryReset(p) ELSE p EXCEPT !.key = key]
  IN IF q.done \/ q.armed \/ Pending(q) THEN q
     ELSE [q EXCEPT !.armed = TRUE, !.wait = IF q.tries > 0 THEN Retry ELSE Pace]

HistoryLoad(p, w) == [Asking(p, w) EXCEPT !.armed = FALSE, !.tries = @ + 1]

HistoryLoaded(p, f, r) ==
  LET q == IF r.status = "denied" THEN [p EXCEPT !.done = TRUE]
           ELSE IF r.status = "offline" THEN [p EXCEPT !.done = p.tries >= MaxTries]
           ELSE IF r.symbol # f.symbol THEN p
           ELSE [p EXCEPT !.result = r, !.done = TRUE]
  IN IF q.done THEN q ELSE HistoryEnsure(q, q.key)

\* day-map.js
MapReset(p) == [Dropped(p) EXCEPT !.key = <<>>, !.wait = 0, !.done = FALSE]

MapEnsure(p, w) ==
  LET key == <<w.symbol, Session(w.clock)>>
      q == IF p.key # key THEN [MapReset(p) EXCEPT !.key = key, !.result = Blank] ELSE p
  IN IF ~w.on THEN p
     ELSE IF q.done \/ Pending(q) \/ q.wait > 0 THEN q ELSE Asking(q, w)

MapLoaded(p, f, r) ==
  IF r.status = "offline" \/ r.symbol # f.symbol
  THEN [p EXCEPT !.result = Failure("offline"), !.wait = Retry]
  ELSE [p EXCEPT !.result = r, !.done = TRUE, !.wait = Retry]

\* loadDailyHistory of app.js: `key' is the symbol of its bars.
DailyForget(p, w) ==
  IF p.key = <<w.symbol>> THEN p
  ELSE [Dropped(p) EXCEPT !.key = <<>>, !.wait = 0, !.result = Blank]

DailyLoad(p, w) ==
  IF ~w.on \/ (\E f \in p.flights : f.live /\ f.symbol = w.symbol) \/ p.key = <<w.symbol>> \/ p.wait > 0
  THEN p ELSE Asking(Dropped(p), w)

DailyLoaded(p, f, r, w) ==
  IF f.symbol # w.symbol THEN p
  ELSE IF r.status = "offline" \/ r.symbol # f.symbol THEN [p EXCEPT !.wait = Retry]
  ELSE [p EXCEPT !.result = r, !.key = <<f.symbol>>, !.wait = Retry]

\* resetRVOLWarmup, ensureRVOLWarmup and loadRVOLWarmup of app.js: `key' is its
\* symbol, `done' is ready, a positive wait its timer.
WarmupEnsure(p, w) ==
  IF w.replay \/ p.done \/ Pending(p) \/ p.wait > 0 \/ p.key # <<w.symbol>> THEN p ELSE Asking(p, w)

WarmupReset(p, w) ==
  WarmupEnsure([Dropped(p) EXCEPT !.key = <<w.symbol>>, !.done = FALSE, !.tries = 0, !.wait = 0,
                  !.result = Blank], w)

WarmupLoaded(p, f, r, w) ==
  IF f.symbol # w.symbol THEN p
  ELSE IF r.status = "offline"
       THEN [p EXCEPT !.tries = IF @ < MaxTries THEN @ + 1 ELSE @, !.wait = Retry]
  ELSE [p EXCEPT !.result = r, !.done = TRUE, !.tries = 0]

\* gex-history.js: the review dialog, its own clock.
ReviewIdentity(w) == <<w.symbol, w.generation, w.epoch, Session(w.clock)>>
ReviewRefresh(p) == [Dropped(p) EXCEPT !.wait = 0, !.asked = Never]

ReviewTick(p, w) ==
  LET key == ReviewIdentity(w)
      q == [IF p.key # key \/ w.clock < p.last THEN [ReviewRefresh(p) EXCEPT !.result = Blank] ELSE p
              EXCEPT !.key = key, !.last = w.clock]
  IN IF ~w.on THEN ReviewRefresh(p)
     ELSE IF Pending(q) \/ q.wait > 0 \/ (Stopped(w) /\ q.asked = w.clock) THEN q
     ELSE [Asking(q, w) EXCEPT !.wait = Pace, !.asked = w.clock]

ReviewLoaded(p, f, r, w) ==
  IF r.status # "offline" /\ (p.key # ReviewIdentity(w) \/ w.clock < f.clock) THEN p
  ELSE IF r.status = "offline" \/ ~Same(f, r) \/ r.asOf > w.clock
       THEN [p EXCEPT !.result = Failure("offline"), !.asked = Never, !.wait = Retry]
  ELSE [p EXCEPT !.result = r]

\* auto-trendlines-controller.js: `key' names the candles that were asked for last
\* (latest), `asked' is the clock of the lines (resultKey).  The worker is given one job
\* at a time; the clock stands for the closed candles.
LinesStop(p) == [Dropped(p) EXCEPT !.key = <<>>, !.result = Blank, !.asked = Never, !.wait = 0]

LinesUpdate(p, w) ==
  LET other == p.key # <<>> /\ (p.key[1] # w.symbol \/ p.key[2] # w.generation \/ w.clock < p.last)
      q == [IF other THEN LinesStop(p) ELSE p
              EXCEPT !.key = <<w.symbol, w.generation>>, !.last = w.clock]
  IN IF ~w.on THEN LinesStop(p)
     ELSE IF Pending(q) \/ q.wait > 0 \/ q.asked = w.clock \/ q.result.status = "offline" THEN q
     ELSE [Asking(q, w) EXCEPT !.wait = Pace]

LinesReceived(p, f, r) ==
  IF r.status = "offline" THEN [LinesStop(p) EXCEPT !.result = r]
  ELSE IF f.clock # p.last THEN p ELSE [p EXCEPT !.result = r, !.asked = f.clock]

-----------------------------------------------------------------------------
(* What the rest of the browser tells a panel.                               *)

Hosted == {"gex", "forecast", "flow", "adr", "volatility"}
Studies == {"overlay", "rvol", "chartHistory"}   \* reset when the page is hidden

\* handleMessage, a snapshot: resets, and the event to the mounted panels.
OnSnapshot(p, w, symbolChanged) ==
  CASE p.kind = "forecast" -> ForecastClear(p)
    [] p.kind = "flow" -> FlowClear(p)
    [] p.kind = "adr" -> AdrLoad(p, w)
    [] p.kind = "volatility" -> VolatilityReset(p, w)
    [] p.kind = "rvol" -> RvolReset(p)
    [] p.kind = "chartHistory" -> HistoryReset(p)
    [] p.kind = "dayMap" /\ symbolChanged -> [MapReset(p) EXCEPT !.result = Blank]
    [] p.kind = "daily" -> DailyForget(p, w)
    [] p.kind = "warmup" -> WarmupReset(p, w)
    [] OTHER -> p

\* handleMessage, a status: a connection that came back, or a change of state.
OnStatus(p, w, recovered) ==
  CASE p.kind = "forecast" -> ForecastClear(p)
    [] p.kind = "flow" -> FlowClear(p)
    [] p.kind = "adr" /\ recovered -> AdrLoad(p, w)
    [] p.kind = "volatility" ->
         IF w.connected THEN [p EXCEPT !.wait = 0]
         ELSE [Dropped(p) EXCEPT !.wait = 0,
                 !.result = IF @.status = "denied" THEN @ ELSE Failure("changed")]
    [] p.kind = "rvol" /\ recovered -> RvolReset(p)
    [] p.kind = "dayMap" /\ recovered -> MapReset(p)
    [] p.kind = "daily" /\ recovered -> [p EXCEPT !.wait = 0]
    [] p.kind = "warmup" -> IF recovered THEN WarmupReset(p, w) ELSE WarmupEnsure(p, w)
    [] OTHER -> p

OnHidden(p) ==
  CASE p.kind = "overlay" -> OverlayReset(p)
    [] p.kind = "rvol" -> RvolReset(p)
    [] p.kind = "chartHistory" -> HistoryReset(p)
    [] p.kind = "lines" -> LinesStop(p)
    [] OTHER -> p

\* PanelHost.swap: the panel is mounted anew and told the snapshot at once.
Mounted(p, w) == OnSnapshot([Fresh(p.kind) EXCEPT !.flights = Dropped(p).flights], w, FALSE)

Init ==
  \E kind \in Kinds, symbol \in Symbols, replay, denied \in BOOLEAN :
    /\ server = [symbol |-> symbol, generation |-> 1, clock |-> 0, paused |-> FALSE, denied |-> denied]
    /\ seen = [symbol |-> symbol, generation |-> 1, clock |-> 0, paused |-> FALSE,
               replay |-> replay, connected |-> TRUE, epoch |-> 0, on |-> TRUE]
    /\ panel = Mounted(Fresh(kind), seen)
    /\ changes = 0 /\ failures = 0

\* A frame of the browser (animationLoop), or the timer of the review dialog.
Frame ==
  /\ panel' = CASE panel.kind = "gex" -> GexRender(panel, seen)
                [] panel.kind = "overlay" -> OverlaySync(panel, seen)
                [] panel.kind = "rvol" -> RvolSync(panel, seen)
                [] panel.kind = "forecast" -> ForecastRender(panel, seen)
                [] panel.kind = "flow" -> FlowRender(panel, seen)
                [] panel.kind = "adr" -> AdrRender(panel, seen)
                [] panel.kind = "volatility" -> VolatilityRender(panel, seen)
                [] panel.kind = "chartHistory" ->
                     IF panel.armed /\ panel.wait = 0 THEN HistoryLoad(panel, seen)
                     ELSE IF seen.on THEN HistoryEnsure(panel, <<seen.symbol, seen.generation>>)
                     ELSE panel
                [] panel.kind = "dayMap" -> MapEnsure(panel, seen)
                [] panel.kind = "daily" -> DailyLoad(panel, seen)
                [] panel.kind = "warmup" -> WarmupEnsure(panel, seen)
                [] panel.kind = "review" -> ReviewTick(panel, seen)
                [] panel.kind = "lines" -> LinesUpdate(panel, seen)
  /\ UNCHANGED <<server, seen, changes, failures>>

\* An answer to one of the requests; to a dropped one it changes nothing.
Received(p, f, r) ==
  LET q == [p EXCEPT !.flights = @ \ {f}]
  IN IF ~f.live THEN q
     ELSE CASE p.kind \in {"gex", "flow"} -> GexReply(q, f, r)
            [] p.kind = "overlay" -> OverlayLoaded(q, f, r)
            [] p.kind = "rvol" -> RvolLoaded(q, f, r)
            [] p.kind = "forecast" -> ForecastReply(q, f, r, seen)
            [] p.kind = "adr" -> AdrReply(q, f, r)
            [] p.kind = "volatility" -> VolatilityReply(q, f, r, seen)
            [] p.kind = "chartHistory" -> HistoryLoaded(q, f, r)
            [] p.kind = "dayMap" -> MapLoaded(q, f, r)
            [] p.kind = "daily" -> DailyLoaded(q, f, r, seen)
            [] p.kind = "warmup" -> WarmupLoaded(q, f, r, seen)
            [] p.kind = "review" -> ReviewLoaded(q, f, r, seen)
            [] p.kind = "lines" -> LinesReceived(q, f, r)

\* The endpoints answer for the stock they are asked for.  Those of the current tape
\* say so when it is another one; to two that is a failure (409).
Options == {"gex", "overlay", "flow", "volatility"}
OfTheTape == Options \cup {"review", "forecast"}

ServerReply(f) ==
  IF panel.kind = "lines"        \* the worker, of the candles it was sent
  THEN [status |-> "ready", symbol |-> f.symbol, generation |-> f.generation, asOf |-> f.clock]
  ELSE [status |-> IF panel.kind \in OfTheTape /\ f.symbol # server.symbol THEN "changed"
                   ELSE IF panel.kind \in {"rvol", "chartHistory"} /\ f.symbol # server.symbol THEN "offline"
                   ELSE IF panel.kind \in Options \cup {"chartHistory"} /\ server.denied THEN "denied"
                   ELSE "ready",
        symbol |-> f.symbol, generation |-> server.generation, asOf |-> server.clock]

Answer ==
  \E f \in panel.flights :
    /\ panel' = Received(panel, f, ServerReply(f))
    /\ UNCHANGED <<server, seen, changes, failures>>

Fail ==
  \E f \in panel.flights :
    /\ failures < MaxFailures
    /\ failures' = failures + 1
    /\ panel' = Received(panel, f, Failure("offline"))
    /\ UNCHANGED <<server, seen, changes>>

Tick ==
  /\ panel.wait > 0
  /\ panel' = [panel EXCEPT !.wait = @ - 1]
  /\ UNCHANGED <<server, seen, changes, failures>>

-----------------------------------------------------------------------------
(* The world.                                                                *)

Change == changes < MaxChanges /\ changes' = changes + 1

ServerSwitches ==
  \E symbol \in Symbols \ {server.symbol} :
    /\ Change
    /\ server' = [server EXCEPT !.symbol = symbol, !.generation = @ + 1]
    /\ UNCHANGED <<seen, panel, failures>>

ServerSeeks ==
  \E clock \in 0 .. server.clock :
    /\ seen.replay /\ Change
    /\ server' = [server EXCEPT !.generation = @ + 1, !.clock = clock]
    /\ UNCHANGED <<seen, panel, failures>>

ServerPauses ==
  /\ seen.replay /\ Change
  /\ server' = [server EXCEPT !.paused = ~@]
  /\ UNCHANGED <<seen, panel, failures>>

TimePasses ==
  /\ server.clock < MaxClock /\ ~server.paused
  /\ server' = [server EXCEPT !.clock = @ + 1]
  /\ UNCHANGED <<seen, panel, changes, failures>>

Snapshot ==
  /\ seen' = [seen EXCEPT !.symbol = server.symbol, !.generation = server.generation,
                          !.clock = server.clock]
  /\ panel' = OnSnapshot(panel, seen', seen.symbol # server.symbol)
  /\ UNCHANGED <<server, failures>>

HearsSnapshot == seen.generation # server.generation /\ Snapshot /\ UNCHANGED changes

\* The WebSocket was lost and connected again: a snapshot of the same tape.
SocketReopens == seen.generation = server.generation /\ Change /\ Snapshot

HearsStatus ==
  /\ seen.generation = server.generation
  /\ seen' = [seen EXCEPT !.clock = server.clock, !.paused = server.paused]
  /\ panel' = IF seen.paused # server.paused THEN OnStatus(panel, seen', FALSE) ELSE panel
  /\ UNCHANGED <<server, changes, failures>>

\* The status of the feed, as the server reports it.
Disconnects ==
  /\ seen.connected /\ Change
  /\ seen' = [seen EXCEPT !.connected = FALSE]
  /\ panel' = OnStatus(panel, seen', FALSE)
  /\ UNCHANGED <<server, failures>>

Reconnects ==
  /\ ~seen.connected
  /\ seen' = [seen EXCEPT !.connected = TRUE, !.epoch = @ + 1]
  /\ panel' = OnStatus(panel, seen', TRUE)
  /\ UNCHANGED <<server, changes, failures>>

Hides ==
  /\ seen.on /\ Change
  /\ seen' = [seen EXCEPT !.on = FALSE]
  /\ panel' = OnHidden(panel)
  /\ UNCHANGED <<server, failures>>

Shows ==
  /\ ~seen.on
  /\ seen' = [seen EXCEPT !.on = TRUE]
  /\ UNCHANGED <<server, panel, changes, failures>>

Swaps ==
  /\ panel.kind \in Hosted /\ Change
  /\ panel' = Mounted(panel, seen)
  /\ UNCHANGED <<server, seen, failures>>

Refreshes ==
  /\ panel.kind = "review" /\ Change
  /\ panel' = ReviewRefresh(panel)
  /\ UNCHANGED <<server, seen, failures>>

Next ==
  \/ Frame \/ Answer \/ Fail \/ Tick
  \/ ServerSwitches \/ ServerSeeks \/ ServerPauses \/ TimePasses
  \/ HearsSnapshot \/ SocketReopens \/ HearsStatus \/ Disconnects \/ Reconnects
  \/ Hides \/ Shows \/ Swaps \/ Refreshes

\* Frames are drawn, time passes, requests are answered or time out, and what the
\* server sends arrives.
Fairness ==
  /\ WF_vars(Frame) /\ WF_vars(Answer) /\ WF_vars(Tick) /\ WF_vars(TimePasses)
  /\ WF_vars(HearsSnapshot) /\ WF_vars(HearsStatus) /\ WF_vars(Reconnects) /\ WF_vars(Shows)

Spec == Init /\ [][Next]_vars /\ Fairness

-----------------------------------------------------------------------------
(* Properties.                                                               *)

\* What the panel shows when it is drawn: some parts look at their key first.
Usable(p, w) ==
  CASE p.kind \in {"gex", "overlay"} -> GexView(p.result, w)
    [] p.kind = "forecast" -> p.result.status = "ready" /\ w.clock <= p.result.asOf
    [] p.kind = "flow" -> p.result.status = "ready" /\ ~w.replay /\ p.key = <<w.symbol, w.generation, TRUE>>
    [] p.kind = "lines" -> p.result.status = "ready" /\ p.key = <<w.symbol, w.generation>> /\ p.last = w.clock
    [] p.kind = "review" -> p.result.status = "ready" /\ p.key = ReviewIdentity(w) /\ p.last = w.clock
    [] OTHER -> p.result.status = "ready"

Draws == {"gex", "overlay", "forecast", "volatility", "review", "lines"}

\* panel-host.js:49 and the tokens of every part: whatever order requests, answers,
\* switches, seeks and remounts come in, what is drawn is of the stock on the screen and
\* of no earlier timeline; what the server tells the generation of is of this one.
ShownIsCurrent ==
  (seen.on /\ Usable(panel, seen)) =>
    /\ panel.result.symbol = seen.symbol
    /\ panel.kind \notin {"daily", "dayMap"} => panel.result.generation >= seen.generation
    /\ panel.kind \in Draws => panel.result.generation = seen.generation

\* auto-trendlines-controller.js:6, chart-history.js:2: one request at a time, and of a
\* part that was hidden and reset none at all.
OneRequest ==
  /\ Cardinality({f \in panel.flights : f.live}) <= 1
  /\ ~seen.on /\ panel.kind \in Studies \cup {"lines"} => ~Pending(panel)

\* chart-history.js:43, "Quiet bounded retries": no attempt is left until a reset.
GaveUp(p) == p.done /\ p.tries >= MaxTries /\ p.result = Blank

\* Whatever was switched, sought, lost, hidden or failed before, a part that may know from
\* some time on is answered in the end, and what it shows then stays.  Of those that ask nothing while
\* the replay is paused that is said while it plays; the worker of the trendlines is
\* not tried again once it failed, and the background history not once its attempts are used up.
Entitled ==
  /\ ~server.denied
  /\ panel.kind \in {"flow", "warmup"} => ~seen.replay
  /\ panel.kind \in {"gex", "adr"} => ~Stopped(seen)
  /\ panel.kind = "lines" => failures = 0
  /\ panel.kind = "chartHistory" => ~GaveUp(panel)
Answered == Usable(panel, seen)
=============================================================================
