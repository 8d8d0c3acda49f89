------------------------------ MODULE PanelsProofs ------------------------------
(***************************************************************************)
(* Theorems about Panels, for every set of symbols, every clock, pace, retry and *)
(* bound: whatever order requests, answers, switches, seeks, lost connections,   *)
(* hidden pages and remounts come in, a part shows what is of the stock and the  *)
(* timeline on the screen, and asks for one thing at a time.                   *)
(*                                                                         *)
(* The inductive invariant IInv says of every part what its next handler relies *)
(* on.  The parts reset by a snapshot (Reset) ask, and show, only of the tape     *)
(* the browser knows; the map of the day and the daily bars of its stock; the     *)
(* trendlines and the review dialog of what their key names, which may be behind *)
(* until their next frame; and gex and its overlay compare when they are drawn.  *)
(* The server may be ahead, never behind (WorldInv), so what it answers is of no *)
(* earlier generation.  The proof takes a part through each handler by what the   *)
(* handler does to it: it is Cleared, or Moved, or it Asks.                    *)
(***************************************************************************)
EXTENDS Panels, FiniteSetTheorems, TLAPS

\* Every kind of part that Panels has handlers for.
AllKinds == {"gex", "overlay", "rvol", "forecast", "flow", "adr", "volatility", "chartHistory",
             "dayMap", "daily", "warmup", "review", "lines"}
-----------------------------------------------------------------------------
(* The inductive invariant.                                                  *)

\* The parts that a snapshot resets.
Reset == {"rvol", "forecast", "flow", "adr", "volatility", "chartHistory", "warmup"}

\* A part has these fields, a request those.
IsPanel(p) ==
  /\ DOMAIN p = {"kind", "key", "result", "wait", "asked", "last", "tries", "done", "armed", "flights"}
  /\ p.kind \in AllKinds
IsFlight(f) == DOMAIN f = {"symbol", "generation", "clock", "live"} /\ f.generation \in Nat
FlightsTyped(p) == \A f \in p.flights : IsFlight(f)

\* At most one request is under way, and none while one waits for its turn.
OneLive(p) == \A f, g \in p.flights : f.live /\ g.live => f = g
ArmedIsIdle(p) == p.armed => p.kind = "chartHistory" /\ ~Pending(p)
HiddenIsIdle(p, w) ==
  ~w.on /\ p.kind \in Studies \cup {"lines"} => ~p.armed /\ ~Pending(p)

\* What is asked, and what is shown, of each kind of part.
Asked(p, w, f) ==
  CASE p.kind \in Reset -> f.symbol = w.symbol /\ f.generation = w.generation
    [] p.kind = "dayMap" -> f.symbol = w.symbol
    [] p.kind = "lines" -> p.key = <<f.symbol, f.generation>>
    [] p.kind = "review" -> p.key[1] = f.symbol /\ p.key[2] = f.generation
    [] OTHER -> TRUE
Holds(p, w, r) ==
  CASE p.kind \in Reset -> /\ r.symbol = w.symbol /\ r.generation \in Nat /\ r.generation >= w.generation
                           /\ p.kind \in Draws => r.generation = w.generation
    [] p.kind = "dayMap" -> r.symbol = w.symbol
    [] p.kind = "daily" -> r.symbol = w.symbol /\ p.key = <<w.symbol>>
    [] p.kind = "lines" -> p.key = <<r.symbol, r.generation>>
    [] p.kind = "review" -> p.key[1] = r.symbol /\ p.key[2] = r.generation
    [] OTHER -> TRUE
AskedForThis(p, w) == \A f \in p.flights : f.live => Asked(p, w, f)
ShowsThis(p, w) == p.result.status = "ready" => Holds(p, w, p.result)

PanelInv(p, w) ==
  /\ IsPanel(p) /\ FlightsTyped(p) /\ OneLive(p) /\ ArmedIsIdle(p) /\ HiddenIsIdle(p, w)
  /\ AskedForThis(p, w) /\ ShowsThis(p, w)

\* The browser hears of a new generation, and of the stock it is of, from the server.
WorldInv ==
  /\ DOMAIN server = {"symbol", "generation", "clock", "paused", "denied"}
  /\ DOMAIN seen = {"symbol", "generation", "clock", "paused", "replay", "connected", "epoch", "on"}
  /\ server.generation \in Nat /\ seen.generation \in Nat
  /\ seen.generation <= server.generation
  /\ seen.generation = server.generation => seen.symbol = server.symbol

IInv == WorldInv /\ PanelInv(panel, seen)

-----------------------------------------------------------------------------
(* The building blocks of the handlers.                                      *)

Keyed == {"daily", "lines", "review"}
Request(w) == [symbol |-> w.symbol, generation |-> w.generation, clock |-> w.clock, live |-> TRUE]

\* A part that was reset: no request, nothing shown.
Cleared(q, p) ==
  /\ IsPanel(q) /\ FlightsTyped(q) /\ ~Pending(q)
  /\ q.kind = p.kind /\ ~q.armed /\ q.result.status # "ready"

\* A part that kept what it shows and asks for.
Moved(q, p) ==
  /\ IsPanel(q) /\ q.kind = p.kind /\ q.result = p.result /\ q.armed = p.armed
  /\ q.flights = p.flights
  /\ q.key = p.key \/ p.kind \notin Keyed

\* A part that asks.
Asks(q, p, w) ==
  /\ IsPanel(q) /\ q.kind = p.kind /\ q.key = p.key /\ q.result = p.result /\ ~q.armed
  /\ q.flights = p.flights \cup {Request(w)}

\* Dropping the requests changes nothing else.
LEMMA DroppedIs ==
  ASSUME NEW p, IsPanel(p), FlightsTyped(p)
  PROVE  /\ IsPanel(Dropped(p)) /\ FlightsTyped(Dropped(p)) /\ ~Pending(Dropped(p))
         /\ Dropped(p).kind = p.kind /\ Dropped(p).key = p.key
         /\ Dropped(p).result = p.result /\ Dropped(p).armed = p.armed
<1> DEFINE q == Dropped(p)
           F == {[f EXCEPT !.live = FALSE] : f \in p.flights}
<1>1. q = [p EXCEPT !.flights = F]
  BY DEF Dropped
<1>2. IsPanel(q) /\ q.flights = F
  BY <1>1 DEF IsPanel
<1>3. q.kind = p.kind /\ q.key = p.key /\ q.result = p.result /\ q.armed = p.armed
  BY <1>1 DEF IsPanel
<1>4. ASSUME NEW f \in F
      PROVE  IsFlight(f) /\ ~f.live
  <2>1. PICK g \in p.flights : f = [g EXCEPT !.live = FALSE]
    OBVIOUS
  <2>2. IsFlight(g)
    BY DEF FlightsTyped
  <2>3. QED
    BY <2>1, <2>2 DEF IsFlight
<1>5. QED
  BY <1>2, <1>3, <1>4 DEF FlightsTyped, Pending

\* Asking adds one request and changes nothing else.
LEMMA AskingIs ==
  ASSUME NEW p, NEW w, IsPanel(p)
  PROVE  /\ IsPanel(Asking(p, w))
         /\ Asking(p, w).flights = p.flights \cup {Request(w)}
         /\ Asking(p, w).kind = p.kind /\ Asking(p, w).key = p.key
         /\ Asking(p, w).result = p.result /\ Asking(p, w).armed = p.armed
BY DEF Asking, Request, IsPanel

\* A request, and the waits that go with it.
LEMMA AskingAsks ==
  ASSUME NEW p, NEW w, IsPanel(p), ~p.armed, NEW x, NEW y
  PROVE  /\ Asks(Asking(p, w), p, w)
         /\ Asks([Asking(p, w) EXCEPT !.wait = x], p, w)
         /\ Asks([Asking(p, w) EXCEPT !.wait = x, !.asked = y], p, w)
<1> DEFINE a == Asking(p, w)
<1>1. /\ IsPanel(a) /\ a.flights = p.flights \cup {Request(w)}
      /\ a.kind = p.kind /\ a.key = p.key /\ a.result = p.result /\ a.armed = p.armed
  BY AskingIs
<1> HIDE DEF a
<1>2. Asks(a, p, w)
  BY <1>1 DEF Asks
<1>3. Asks([a EXCEPT !.wait = x], p, w)
  BY <1>1 DEF Asks, IsPanel
<1>4. Asks([a EXCEPT !.wait = x, !.asked = y], p, w)
  BY <1>1 DEF Asks, IsPanel
<1>5. QED
  BY <1>2, <1>3, <1>4 DEF a

\* A part that was reset is right whatever the browser knows.
LEMMA ClearedInv ==
  ASSUME NEW p, NEW q, NEW w, Cleared(q, p)
  PROVE  PanelInv(q, w)
BY DEF Cleared, PanelInv, OneLive, ArmedIsIdle, HiddenIsIdle, AskedForThis, ShowsThis, Pending

\* What moves only clocks and waits keeps the invariant.
LEMMA MovedInv ==
  ASSUME NEW p, NEW q, NEW w, PanelInv(p, w), Moved(q, p)
  PROVE  PanelInv(q, w)
<1>1. \A f : Asked(q, w, f) <=> Asked(p, w, f)
  BY DEF Moved, Asked, Keyed
<1>2. \A r : Holds(p, w, r) => Holds(q, w, r)
  BY DEF Moved, Holds, Keyed
<1>3. FlightsTyped(q) /\ OneLive(q) /\ ArmedIsIdle(q) /\ HiddenIsIdle(q, w)
  BY DEF PanelInv, Moved, FlightsTyped, OneLive, ArmedIsIdle, HiddenIsIdle, Pending
<1>4. AskedForThis(q, w)
  BY <1>1 DEF PanelInv, Moved, AskedForThis
<1>5. ShowsThis(q, w)
  BY <1>2 DEF PanelInv, Moved, ShowsThis
<1>6. QED
  BY <1>3, <1>4, <1>5 DEF PanelInv, Moved

\* A part with no request under way may ask of the tape the browser knows.
LEMMA AsksInv ==
  ASSUME NEW p, NEW q, NEW w, PanelInv(p, w), Asks(q, p, w),
         ~Pending(p), w.generation \in Nat,
         w.on \/ p.kind \notin Studies \cup {"lines"},
         Asked(p, w, Request(w))
  PROVE  PanelInv(q, w)
<1>1. IsFlight(Request(w)) /\ Request(w).live
  BY DEF IsFlight, Request
<1>2. \A f \in q.flights : f.live => f = Request(w)
  BY DEF Asks, Pending
<1>3. FlightsTyped(q) /\ OneLive(q) /\ ArmedIsIdle(q) /\ HiddenIsIdle(q, w)
  BY <1>1, <1>2 DEF PanelInv, Asks, FlightsTyped, OneLive, ArmedIsIdle, HiddenIsIdle
<1>4. Asked(q, w, Request(w))
  BY DEF Asks, Asked
<1>5. AskedForThis(q, w)
  BY <1>2, <1>4 DEF AskedForThis
<1>6. \A r : Holds(p, w, r) => Holds(q, w, r)
  BY DEF Asks, Holds
<1>7. ShowsThis(q, w)
  BY <1>6 DEF PanelInv, Asks, ShowsThis
<1>8. QED
  BY <1>3, <1>5, <1>7 DEF PanelInv, Asks

\* Dropping requests keeps what is shown.
LEMMA DropsInv ==
  ASSUME NEW p, NEW w, PanelInv(p, w)
  PROVE  /\ PanelInv(Dropped(p), w) /\ IsPanel(Dropped(p)) /\ ~Pending(Dropped(p))
         /\ Dropped(p).kind = p.kind /\ Dropped(p).key = p.key
         /\ Dropped(p).result = p.result /\ Dropped(p).armed = p.armed
<1> DEFINE q == Dropped(p)
<1>1. /\ IsPanel(q) /\ FlightsTyped(q) /\ ~Pending(q)
      /\ q.kind = p.kind /\ q.key = p.key /\ q.result = p.result /\ q.armed = p.armed
  BY DroppedIs DEF PanelInv
<1> HIDE DEF q
<1>2. \A r : Holds(p, w, r) => Holds(q, w, r)
  BY <1>1 DEF Holds
<1>3. ShowsThis(q, w)
  BY <1>1, <1>2 DEF PanelInv, ShowsThis
<1>4. OneLive(q) /\ ArmedIsIdle(q) /\ HiddenIsIdle(q, w) /\ AskedForThis(q, w)
  BY <1>1 DEF PanelInv, OneLive, ArmedIsIdle, HiddenIsIdle, AskedForThis, Pending
<1>5. QED
  BY <1>1, <1>3, <1>4 DEF PanelInv, q

\* Only the background history waits for its turn.
LEMMA NotArmed ==
  ASSUME NEW p, NEW w, PanelInv(p, w)
  PROVE  /\ IsPanel(p) /\ FlightsTyped(p)
         /\ p.kind # "chartHistory" => ~p.armed
BY DEF PanelInv, ArmedIsIdle

\* The resets.
LEMMA Resets ==
  ASSUME NEW p, NEW w, IsPanel(p), FlightsTyped(p), p.kind # "chartHistory" => ~p.armed
  PROVE  /\ p.kind # "chartHistory" =>
              /\ Cleared(GexClear(p), p) /\ Cleared(OverlayReset(p), p) /\ Cleared(RvolReset(p), p)
              /\ Cleared(ForecastClear(p), p) /\ Cleared(FlowClear(p), p)
              /\ Cleared(VolatilityReset(p, w), p) /\ Cleared(LinesStop(p), p)
              /\ Cleared([MapReset(p) EXCEPT !.result = Blank], p)
              /\ Cleared([ReviewRefresh(p) EXCEPT !.result = Blank], p)
         /\ Cleared(HistoryReset(p), p)
<1> DEFINE d == Dropped(p)
<1>1. /\ IsPanel(d) /\ FlightsTyped(d) /\ ~Pending(d)
      /\ d.kind = p.kind /\ d.armed = p.armed
  BY DroppedIs
<1>2. Blank.status # "ready"
  BY DEF Blank
<1>3. ASSUME NEW q, IsPanel(q), q.flights = d.flights, q.kind = d.kind, q.result = Blank, ~q.armed
      PROVE  Cleared(q, p)
  BY <1>1, <1>2, <1>3 DEF Cleared, FlightsTyped, Pending
<1> HIDE DEF d
<1>4. Cleared(HistoryReset(p), p)
  <2>1. HistoryReset(p) = [d EXCEPT !.key = <<>>, !.done = FALSE, !.tries = 0, !.armed = FALSE,
                             !.wait = 0, !.result = Blank]
    BY DEF HistoryReset, d
  <2>2. QED
    BY <1>1, <1>3, <2>1 DEF IsPanel
<1>5. ASSUME p.kind # "chartHistory"
      PROVE  /\ Cleared(GexClear(p), p) /\ Cleared(OverlayReset(p), p) /\ Cleared(RvolReset(p), p)
             /\ Cleared(ForecastClear(p), p) /\ Cleared(FlowClear(p), p)
             /\ Cleared(VolatilityReset(p, w), p) /\ Cleared(LinesStop(p), p)
             /\ Cleared([MapReset(p) EXCEPT !.result = Blank], p)
             /\ Cleared([ReviewRefresh(p) EXCEPT !.result = Blank], p)
  <2>0. ~d.armed
    BY <1>1, <1>5
  <2>1. Cleared(GexClear(p), p)
    <3>1. GexClear(p) = [d EXCEPT !.result = Blank, !.wait = 0, !.asked = Never]
      BY DEF GexClear, d
    <3>2. QED
      BY <1>1, <1>3, <2>0, <3>1 DEF IsPanel
  <2>2. Cleared(OverlayReset(p), p)
    <3>1. OverlayReset(p) = [[d EXCEPT !.result = Blank, !.wait = 0, !.asked = Never]
                               EXCEPT !.key = <<>>, !.last = Never]
      BY DEF OverlayReset, GexClear, d
    <3>2. QED
      BY <1>1, <1>3, <2>0, <3>1 DEF IsPanel
  <2>3. Cleared(RvolReset(p), p)
    <3>1. RvolReset(p) = [d EXCEPT !.key = <<>>, !.last = Never, !.wait = 0, !.result = Blank]
      BY DEF RvolReset, d
    <3>2. QED
      BY <1>1, <1>3, <2>0, <3>1 DEF IsPanel
  <2>4. Cleared(ForecastClear(p), p)
    <3>1. ForecastClear(p) = [d EXCEPT !.result = Blank, !.wait = 0, !.last = Never]
      BY DEF ForecastClear, d
    <3>2. QED
      BY <1>1, <1>3, <2>0, <3>1 DEF IsPanel
  <2>5. Cleared(FlowClear(p), p)
    <3>1. FlowClear(p) = [d EXCEPT !.result = Blank, !.wait = 0]
      BY DEF FlowClear, d
    <3>2. QED
      BY <1>1, <1>3, <2>0, <3>1 DEF IsPanel
  <2>6. Cleared(VolatilityReset(p, w), p)
    <3>1. VolatilityReset(p, w) = [d EXCEPT !.result = Blank, !.wait = 0,
                                     !.last = Session(w.clock), !.key = <<w.symbol>>]
      BY DEF VolatilityReset, d
    <3>2. QED
      BY <1>1, <1>3, <2>0, <3>1 DEF IsPanel
  <2>7. Cleared(LinesStop(p), p)
    <3>1. LinesStop(p) = [d EXCEPT !.key = <<>>, !.result = Blank, !.asked = Never, !.wait = 0]
      BY DEF LinesStop, d
    <3>2. QED
      BY <1>1, <1>3, <2>0, <3>1 DEF IsPanel
  <2>8. Cleared([MapReset(p) EXCEPT !.result = Blank], p)
    <3>1. MapReset(p) = [d EXCEPT !.key = <<>>, !.wait = 0, !.done = FALSE]
      BY DEF MapReset, d
    <3>2. QED
      BY <1>1, <1>3, <2>0, <3>1 DEF IsPanel
  <2>9. Cleared([ReviewRefresh(p) EXCEPT !.result = Blank], p)
    <3>1. ReviewRefresh(p) = [d EXCEPT !.wait = 0, !.asked = Never]
      BY DEF ReviewRefresh, d
    <3>2. QED
      BY <1>1, <1>3, <2>0, <3>1 DEF IsPanel
  <2>10. QED
    BY <2>1, <2>2, <2>3, <2>4, <2>5, <2>6, <2>7, <2>8, <2>9
<1>6. QED
  BY <1>4, <1>5

-----------------------------------------------------------------------------
(* A frame, of each kind of part.                                            *)

\* gex-panel.js, render.
LEMMA GexFrame ==
  ASSUME NEW p, NEW w, PanelInv(p, w), w.generation \in Nat, p.kind = "gex"
  PROVE  PanelInv(GexRender(p, w), w)
<1> DEFINE key == <<w.symbol, w.generation, w.connected>>
           o == IF p.key # key \/ w.clock < p.last THEN GexClear(p) ELSE p
           q == [o EXCEPT !.key = key, !.last = w.clock]
           a == [Asking(q, w) EXCEPT !.wait = Pace, !.asked = w.clock]
<1>1. PanelInv(o, w) /\ o.kind = "gex"
  BY NotArmed, Resets, ClearedInv DEF Cleared
<1> HIDE DEF o
<1>2. PanelInv(q, w) /\ IsPanel(q) /\ q.kind = "gex" /\ ~q.armed
  <2>1. Moved(q, o)
    BY <1>1, NotArmed DEF Moved, IsPanel, Keyed
  <2>2. QED
    BY <1>1, <2>1, MovedInv, NotArmed DEF Moved
<1>3. ASSUME ~Pending(q) PROVE PanelInv(a, w)
  <2>1. Asks(a, q, w)
    BY <1>2, AskingAsks
  <2>2. Asked(q, w, Request(w)) /\ q.kind \notin Studies \cup {"lines"}
    BY <1>2 DEF Asked, Reset, Studies
  <2>3. QED
    BY <1>2, <1>3, <2>1, <2>2, AsksInv
<1>4. \/ GexRender(p, w) = a /\ ~Pending(q)
      \/ GexRender(p, w) = q
  BY DEF GexRender, o
<1>5. QED
  BY <1>2, <1>3, <1>4

\* gex-overlay-controller.js, sync.
LEMMA OverlayFrame ==
  ASSUME NEW p, NEW w, PanelInv(p, w), w.generation \in Nat, p.kind = "overlay"
  PROVE  PanelInv(OverlaySync(p, w), w)
<1> DEFINE key == <<w.symbol, w.generation, w.connected, w.epoch>>
           o == IF p.key # key \/ w.clock < p.last THEN OverlayReset(p) ELSE p
           q == [o EXCEPT !.key = key, !.last = w.clock]
           a == [Asking(q, w) EXCEPT !.wait = Pace, !.asked = w.clock]
<1>1. PanelInv(o, w) /\ o.kind = "overlay" /\ PanelInv(OverlayReset(p), w)
  BY NotArmed, Resets, ClearedInv DEF Cleared
<1> HIDE DEF o
<1>2. PanelInv(q, w) /\ IsPanel(q) /\ q.kind = "overlay" /\ ~q.armed
  <2>1. Moved(q, o)
    BY <1>1, NotArmed DEF Moved, IsPanel, Keyed
  <2>2. QED
    BY <1>1, <2>1, MovedInv, NotArmed DEF Moved
<1>3. ASSUME ~Pending(q), w.on PROVE PanelInv(a, w)
  <2>1. Asks(a, q, w)
    BY <1>2, AskingAsks
  <2>2. Asked(q, w, Request(w))
    BY <1>2 DEF Asked, Reset
  <2>3. QED
    BY <1>2, <1>3, <2>1, <2>2, AsksInv
<1>4. \/ OverlaySync(p, w) = OverlayReset(p)
      \/ OverlaySync(p, w) = a /\ ~Pending(q) /\ w.on
      \/ OverlaySync(p, w) = q
  BY DEF OverlaySync, o
<1>5. QED
  BY <1>1, <1>2, <1>3, <1>4

\* cumulative-rvol.js, sync.
LEMMA RvolFrame ==
  ASSUME NEW p, NEW w, PanelInv(p, w), w.generation \in Nat, p.kind = "rvol"
  PROVE  PanelInv(RvolSync(p, w), w)
<1> DEFINE key == <<w.symbol, w.generation, w.epoch, Session(w.clock)>>
           o == IF p.key # key THEN RvolReset(p) ELSE p
           q == [o EXCEPT !.key = key]
<1>1. PanelInv(o, w) /\ o.kind = "rvol" /\ PanelInv(RvolReset(p), w)
  BY NotArmed, Resets, ClearedInv DEF Cleared
<1> HIDE DEF o
<1>2. PanelInv(q, w) /\ IsPanel(q) /\ q.kind = "rvol" /\ ~q.armed
  <2>1. Moved(q, o)
    BY <1>1, NotArmed DEF Moved, IsPanel, Keyed
  <2>2. QED
    BY <1>1, <2>1, MovedInv, NotArmed DEF Moved
<1>3. ASSUME ~Pending(q), w.on PROVE PanelInv(Asking(q, w), w)
  <2>1. Asks(Asking(q, w), q, w)
    BY <1>2, AskingAsks
  <2>2. Asked(q, w, Request(w))
    BY <1>2 DEF Asked, Reset, Request
  <2>3. QED
    BY <1>2, <1>3, <2>1, <2>2, AsksInv
<1>4. \/ RvolSync(p, w) = RvolReset(p)
      \/ RvolSync(p, w) = Asking(q, w) /\ ~Pending(q) /\ w.on
      \/ RvolSync(p, w) = q
  BY DEF RvolSync, o
<1>5. QED
  BY <1>1, <1>2, <1>3, <1>4

\* kronos-panel.js, render.
LEMMA ForecastFrame ==
  ASSUME NEW p, NEW w, PanelInv(p, w), w.generation \in Nat, p.kind = "forecast"
  PROVE  PanelInv(ForecastRender(p, w), w)
<1> DEFINE q == IF w.clock # p.last THEN [p EXCEPT !.last = w.clock, !.wait = 0] ELSE p
<1>1. PanelInv(q, w) /\ IsPanel(q) /\ q.kind = "forecast" /\ ~q.armed
  <2>1. Moved(q, p)
    BY NotArmed DEF Moved, IsPanel
  <2>2. QED
    BY <2>1, MovedInv, NotArmed DEF Moved
<1> HIDE DEF q
<1>2. ASSUME ~Pending(q) PROVE PanelInv(Asking(q, w), w)
  <2>1. Asks(Asking(q, w), q, w)
    BY <1>1, AskingAsks
  <2>2. Asked(q, w, Request(w)) /\ q.kind \notin Studies \cup {"lines"}
    BY <1>1 DEF Asked, Reset, Request, Studies
  <2>3. QED
    BY <1>1, <1>2, <2>1, <2>2, AsksInv
<1>3. \/ ForecastRender(p, w) = p
      \/ ForecastRender(p, w) = Asking(q, w) /\ ~Pending(q)
      \/ ForecastRender(p, w) = q
  BY DEF ForecastRender, q
<1>4. QED
  BY <1>1, <1>2, <1>3

\* options-flow-panel.js, render.
LEMMA FlowFrame ==
  ASSUME NEW p, NEW w, PanelInv(p, w), w.generation \in Nat, p.kind = "flow"
  PROVE  PanelInv(FlowRender(p, w), w)
<1> DEFINE key == <<w.symbol, w.generation, w.connected>>
           o == IF p.key # key THEN FlowClear(p) ELSE p
           q == [o EXCEPT !.key = key]
           a == [Asking(q, w) EXCEPT !.wait = Pace]
<1>1. PanelInv(o, w) /\ o.kind = "flow"
  BY NotArmed, Resets, ClearedInv DEF Cleared
<1> HIDE DEF o
<1>2. PanelInv(q, w) /\ IsPanel(q) /\ q.kind = "flow" /\ ~q.armed
  <2>1. Moved(q, o)
    BY <1>1, NotArmed DEF Moved, IsPanel, Keyed
  <2>2. QED
    BY <1>1, <2>1, MovedInv, NotArmed DEF Moved
<1>3. ASSUME ~Pending(q) PROVE PanelInv(a, w)
  <2>1. Asks(a, q, w)
    BY <1>2, AskingAsks
  <2>2. Asked(q, w, Request(w)) /\ q.kind \notin Studies \cup {"lines"}
    BY <1>2 DEF Asked, Reset, Request, Studies
  <2>3. QED
    BY <1>2, <1>3, <2>1, <2>2, AsksInv
<1>4. \/ FlowRender(p, w) = a /\ ~Pending(q)
      \/ FlowRender(p, w) = q
  BY DEF FlowRender, o
<1>5. QED
  BY <1>2, <1>3, <1>4

\* The ADR panel drops its request and asks anew, of whatever tape it had been.
LEMMA AdrLoads ==
  ASSUME NEW p, NEW w, IsPanel(p), FlightsTyped(p), ~p.armed, w.generation \in Nat, p.kind = "adr"
  PROVE  PanelInv(AdrLoad(p, w), w)
<1> DEFINE d == Dropped(p)
           b == [d EXCEPT !.result = Blank]
<1>1. IsPanel(d) /\ FlightsTyped(d) /\ ~Pending(d) /\ d.kind = "adr" /\ ~d.armed
  BY DroppedIs
<1> HIDE DEF d
<1>2. /\ IsPanel(b) /\ b.flights = d.flights /\ b.kind = "adr" /\ ~b.armed /\ b.result = Blank
      /\ b.key = d.key
  BY <1>1 DEF IsPanel
<1>3. PanelInv(b, w) /\ ~Pending(b)
  <2>1. Cleared(b, p)
    BY <1>1, <1>2 DEF Cleared, FlightsTyped, Pending, Blank
  <2>2. QED
    BY <2>1, ClearedInv DEF Cleared
<1>4. Asks(AdrLoad(p, w), b, w)
  <2>1. AdrLoad(p, w) = [Asking(d, w) EXCEPT !.result = Blank, !.wait = Retry,
                           !.last = Session(w.clock), !.asked = w.clock]
    BY DEF AdrLoad, d
  <2>2. QED
    BY <1>1, <1>2, <2>1, AskingIs DEF Asks, IsPanel
<1>5. Asked(b, w, Request(w)) /\ b.kind \notin Studies \cup {"lines"}
  BY <1>2 DEF Asked, Reset, Request, Studies
<1>6. QED
  BY <1>3, <1>4, <1>5, AsksInv

\* adr-rth-extension-panel.js, render.
LEMMA AdrFrame ==
  ASSUME NEW p, NEW w, PanelInv(p, w), w.generation \in Nat, p.kind = "adr"
  PROVE  PanelInv(AdrRender(p, w), w)
<1>1. AdrRender(p, w) = AdrLoad(p, w) \/ AdrRender(p, w) = p
  BY DEF AdrRender
<1>2. PanelInv(AdrLoad(p, w), w)
  BY AdrLoads, NotArmed
<1>3. QED
  BY <1>1, <1>2

\* options-volatility-panel.js, render.
LEMMA VolatilityFrame ==
  ASSUME NEW p, NEW w, PanelInv(p, w), w.generation \in Nat, p.kind = "volatility"
  PROVE  PanelInv(VolatilityRender(p, w), w)
<1> DEFINE q == IF p.key # <<w.symbol>> \/ p.last # Session(w.clock)
                THEN VolatilityReset(p, w) ELSE p
<1>1. PanelInv(q, w) /\ IsPanel(q) /\ q.kind = "volatility" /\ ~q.armed
  <2>1. Cleared(VolatilityReset(p, w), p)
    BY NotArmed, Resets
  <2>2. QED
    BY <2>1, NotArmed, ClearedInv DEF Cleared
<1> HIDE DEF q
<1>2. ASSUME ~Pending(q) PROVE PanelInv(Asking(q, w), w)
  <2>1. Asks(Asking(q, w), q, w)
    BY <1>1, AskingAsks
  <2>2. Asked(q, w, Request(w)) /\ q.kind \notin Studies \cup {"lines"}
    BY <1>1 DEF Asked, Reset, Request, Studies
  <2>3. QED
    BY <1>1, <1>2, <2>1, <2>2, AsksInv
<1>3. \/ VolatilityRender(p, w) = Asking(q, w) /\ ~Pending(q)
      \/ VolatilityRender(p, w) = q
  BY DEF VolatilityRender, q
<1>4. QED
  BY <1>1, <1>2, <1>3

\* chart-history.js, ensure: a request waits for its turn, if none is under way.
LEMMA HistoryEnsures ==
  ASSUME NEW p, NEW w, NEW key, PanelInv(p, w), p.kind = "chartHistory", w.on
  PROVE  PanelInv(HistoryEnsure(p, key), w)
<1> DEFINE o == IF p.key # key THEN HistoryReset(p) ELSE p
           q == [o EXCEPT !.key = key]
           a == [q EXCEPT !.armed = TRUE, !.wait = IF q.tries > 0 THEN Retry ELSE Pace]
<1>1. PanelInv(o, w) /\ o.kind = "chartHistory"
  BY NotArmed, Resets, ClearedInv DEF Cleared
<1> HIDE DEF o
<1>2. PanelInv(q, w) /\ IsPanel(q) /\ q.kind = "chartHistory"
  <2>1. Moved(q, o)
    BY <1>1, NotArmed DEF Moved, IsPanel, Keyed
  <2>2. QED
    BY <1>1, <2>1, MovedInv, NotArmed DEF Moved
<1> HIDE DEF q
<1>3. ASSUME ~Pending(q) PROVE PanelInv(a, w)
  <2>1. /\ IsPanel(a) /\ a.kind = q.kind /\ a.result = q.result /\ a.flights = q.flights
        /\ a.key = q.key
    BY <1>2 DEF IsPanel
  <2>2. \A f : Asked(a, w, f) <=> Asked(q, w, f)
    BY <2>1 DEF Asked
  <2>3. \A r : Holds(q, w, r) => Holds(a, w, r)
    BY <2>1 DEF Holds
  <2>4. AskedForThis(a, w) /\ ShowsThis(a, w)
    BY <1>2, <2>1, <2>2, <2>3 DEF PanelInv, AskedForThis, ShowsThis
  <2>5. FlightsTyped(a) /\ OneLive(a) /\ ArmedIsIdle(a) /\ HiddenIsIdle(a, w)
    BY <1>2, <1>3, <2>1
       DEF PanelInv, FlightsTyped, OneLive, ArmedIsIdle, HiddenIsIdle, Pending
  <2>6. QED
    BY <2>1, <2>4, <2>5 DEF PanelInv
<1>4. \/ HistoryEnsure(p, key) = a /\ ~Pending(q)
      \/ HistoryEnsure(p, key) = q
  BY DEF HistoryEnsure, q, o
<1>5. QED
  BY <1>2, <1>3, <1>4

\* chart-history.js, load: the turn has come.
LEMMA HistoryLoads ==
  ASSUME NEW p, NEW w, PanelInv(p, w), w.generation \in Nat, p.kind = "chartHistory", p.armed
  PROVE  PanelInv(HistoryLoad(p, w), w)
<1> DEFINE a == [Asking(p, w) EXCEPT !.armed = FALSE, !.tries = @ + 1]
<1>1. IsPanel(p) /\ ~Pending(p) /\ w.on
  BY DEF PanelInv, ArmedIsIdle, HiddenIsIdle, Studies
<1>2. Asks(a, p, w)
  BY <1>1, AskingIs DEF Asks, IsPanel
<1>3. Asked(p, w, Request(w))
  BY DEF Asked, Reset, Request
<1>4. a = HistoryLoad(p, w)
  BY DEF HistoryLoad
<1>5. QED
  BY <1>1, <1>2, <1>3, <1>4, AsksInv

\* day-map.js, ensure.
LEMMA MapFrame ==
  ASSUME NEW p, NEW w, PanelInv(p, w), w.generation \in Nat, p.kind = "dayMap"
  PROVE  PanelInv(MapEnsure(p, w), w)
<1> DEFINE key == <<w.symbol, Session(w.clock)>>
           q == IF p.key # key THEN [MapReset(p) EXCEPT !.key = key, !.result = Blank] ELSE p
<1>1. PanelInv(q, w) /\ IsPanel(q) /\ q.kind = "dayMap" /\ ~q.armed
  <2> DEFINE o == [MapReset(p) EXCEPT !.result = Blank]
             m == [MapReset(p) EXCEPT !.key = key, !.result = Blank]
  <2>1. Cleared(o, p) /\ PanelInv(o, w) /\ ~o.armed /\ o.kind = "dayMap"
    BY NotArmed, Resets, ClearedInv DEF Cleared
  <2>2. IsPanel(MapReset(p))
    BY NotArmed, DroppedIs DEF MapReset, IsPanel
  <2>3. Moved(m, o)
    BY <2>1, <2>2 DEF Moved, IsPanel, Keyed
  <2>4. PanelInv(m, w) /\ m.kind = "dayMap"
    BY <2>1, <2>3, MovedInv DEF Moved
  <2>5. QED
    BY <2>4, NotArmed
<1> HIDE DEF q
<1>2. ASSUME ~Pending(q) PROVE PanelInv(Asking(q, w), w)
  <2>1. Asks(Asking(q, w), q, w)
    BY <1>1, AskingAsks
  <2>2. Asked(q, w, Request(w)) /\ q.kind \notin Studies \cup {"lines"}
    BY <1>1 DEF Asked, Reset, Request, Studies
  <2>3. QED
    BY <1>1, <1>2, <2>1, <2>2, AsksInv
<1>3. \/ MapEnsure(p, w) = p
      \/ MapEnsure(p, w) = Asking(q, w) /\ ~Pending(q)
      \/ MapEnsure(p, w) = q
  BY DEF MapEnsure, q
<1>4. QED
  BY <1>1, <1>2, <1>3

\* loadDailyHistory: a request for another stock is dropped.
LEMMA DailyFrame ==
  ASSUME NEW p, NEW w, PanelInv(p, w), w.generation \in Nat, p.kind = "daily"
  PROVE  PanelInv(DailyLoad(p, w), w)
<1> DEFINE d == Dropped(p)
<1>1. PanelInv(d, w) /\ IsPanel(d) /\ ~Pending(d) /\ d.kind = "daily" /\ ~d.armed
  BY DropsInv, NotArmed
<1> HIDE DEF d
<1>2. Asks(Asking(d, w), d, w)
  BY <1>1, AskingAsks
<1>3. Asked(d, w, Request(w)) /\ d.kind \notin Studies \cup {"lines"}
  BY <1>1 DEF Asked, Reset, Studies
<1>4. PanelInv(Asking(d, w), w)
  BY <1>1, <1>2, <1>3, AsksInv
<1>5. DailyLoad(p, w) = p \/ DailyLoad(p, w) = Asking(d, w)
  BY DEF DailyLoad, d
<1>6. QED
  BY <1>4, <1>5

\* ensureRVOLWarmup.
LEMMA WarmupFrame ==
  ASSUME NEW p, NEW w, PanelInv(p, w), w.generation \in Nat, p.kind = "warmup"
  PROVE  PanelInv(WarmupEnsure(p, w), w)
<1>1. IsPanel(p) /\ ~p.armed
  BY NotArmed
<1>2. ASSUME ~Pending(p) PROVE PanelInv(Asking(p, w), w)
  <2>1. Asks(Asking(p, w), p, w)
    BY <1>1, AskingAsks
  <2>2. Asked(p, w, Request(w)) /\ p.kind \notin Studies \cup {"lines"}
    BY DEF Asked, Reset, Request, Studies
  <2>3. QED
    BY <1>2, <2>1, <2>2, AsksInv
<1>3. WarmupEnsure(p, w) = p \/ (WarmupEnsure(p, w) = Asking(p, w) /\ ~Pending(p))
  <2>1. CASE Pending(p)
    BY <2>1 DEF WarmupEnsure
  <2>2. CASE ~Pending(p)
    BY <2>2, Zenon DEF WarmupEnsure
  <2>3. QED
    BY <2>1, <2>2
<1>4. QED
  BY <1>2, <1>3

\* The dialog drops its request and keeps the record it shows.
LEMMA ReviewRefreshes ==
  ASSUME NEW p, NEW w, PanelInv(p, w), p.kind = "review"
  PROVE  PanelInv(ReviewRefresh(p), w) /\ ReviewRefresh(p).kind = "review"
<1> DEFINE d == Dropped(p)
<1>1. PanelInv(d, w) /\ IsPanel(d) /\ d.kind = "review"
  BY DropsInv, NotArmed
<1>2. ReviewRefresh(p) = [d EXCEPT !.wait = 0, !.asked = Never]
  BY DEF ReviewRefresh
<1> HIDE DEF d
<1>3. Moved(ReviewRefresh(p), d)
  BY <1>1, <1>2 DEF Moved, IsPanel
<1>4. QED
  BY <1>1, <1>3, MovedInv DEF Moved

\* gex-history.js, the tick of its clock.
LEMMA ReviewFrame ==
  ASSUME NEW p, NEW w, PanelInv(p, w), w.generation \in Nat, p.kind = "review"
  PROVE  PanelInv(ReviewTick(p, w), w)
<1> DEFINE key == ReviewIdentity(w)
           c == [ReviewRefresh(p) EXCEPT !.result = Blank]
           o == IF p.key # key \/ w.clock < p.last THEN c ELSE p
           q == [o EXCEPT !.key = key, !.last = w.clock]
           a == [Asking(q, w) EXCEPT !.wait = Pace, !.asked = w.clock]
<1>1. PanelInv(q, w) /\ IsPanel(q) /\ q.kind = "review" /\ ~q.armed /\ q.key = key
  <2>1. CASE p.key # key \/ w.clock < p.last
    <3>1. Cleared(c, p)
      BY NotArmed, Resets
    <3>2. o = c
      BY <2>1
    <3> HIDE DEF c, o, key
    <3>3. Cleared(q, p) /\ q.key = key
      BY <3>1, <3>2 DEF Cleared, IsPanel, FlightsTyped, Pending
    <3>4. QED
      BY <3>3, ClearedInv DEF Cleared
  <2>2. CASE ~(p.key # key \/ w.clock < p.last)
    <3>1. o = p /\ p.key = key
      BY <2>2
    <3> HIDE DEF o, key
    <3>2. Moved(q, p) /\ q.key = key
      BY <3>1, NotArmed DEF Moved, IsPanel
    <3>3. QED
      BY <3>2, MovedInv, NotArmed DEF Moved
  <2>3. QED
    BY <2>1, <2>2
<1>2. key[1] = w.symbol /\ key[2] = w.generation
  BY DEF ReviewIdentity
<1>3. \/ ReviewTick(p, w) = ReviewRefresh(p)
      \/ ReviewTick(p, w) = q
      \/ ReviewTick(p, w) = a /\ ~Pending(q)
  BY DEF ReviewTick
<1> HIDE DEF q, key
<1>4. ASSUME ~Pending(q) PROVE PanelInv(a, w)
  <2>1. Asks(a, q, w)
    BY <1>1, AskingAsks
  <2>2. Asked(q, w, Request(w)) /\ q.kind \notin Studies \cup {"lines"}
    BY <1>1, <1>2 DEF Asked, Reset, Request, Studies
  <2>3. QED
    BY <1>1, <1>4, <2>1, <2>2, AsksInv
<1>5. QED
  BY <1>1, <1>3, <1>4, ReviewRefreshes

\* auto-trendlines-controller.js, update.
LEMMA LinesFrame ==
  ASSUME NEW p, NEW w, PanelInv(p, w), w.generation \in Nat, p.kind = "lines"
  PROVE  PanelInv(LinesUpdate(p, w), w)
<1> DEFINE key == <<w.symbol, w.generation>>
           other == p.key # <<>> /\ (p.key[1] # w.symbol \/ p.key[2] # w.generation \/ w.clock < p.last)
           c == LinesStop(p)
           o == IF other THEN c ELSE p
           q == [o EXCEPT !.key = key, !.last = w.clock]
           a == [Asking(q, w) EXCEPT !.wait = Pace]
<1>1. Cleared(c, p) /\ PanelInv(c, w)
  BY NotArmed, Resets, ClearedInv
<1>2. PanelInv(q, w) /\ IsPanel(q) /\ q.kind = "lines" /\ ~q.armed /\ q.key = key
  <2>1. CASE other
    <3>1. o = c
      BY <2>1
    <3> HIDE DEF c, o, key
    <3>2. Cleared(q, p) /\ q.key = key
      BY <1>1, <3>1 DEF Cleared, IsPanel, FlightsTyped, Pending
    <3>3. QED
      BY <3>2, ClearedInv DEF Cleared
  <2>2. CASE ~other
    <3>1. o = p /\ (p.key = <<>> \/ (p.key[1] = w.symbol /\ p.key[2] = w.generation))
      BY <2>2
    <3>2. /\ IsPanel(q) /\ q.kind = "lines" /\ q.result = p.result /\ ~q.armed
          /\ q.flights = p.flights /\ q.key = key
      <4> HIDE DEF o, key
      <4>1. QED
        BY <3>1, NotArmed DEF IsPanel
    <3> HIDE DEF q, o
    <3>3. ASSUME NEW x, NEW n, p.key = <<x, n>>
          PROVE  key = <<x, n>>
      BY <3>1, <3>3
    <3>4. FlightsTyped(q) /\ OneLive(q) /\ ArmedIsIdle(q) /\ HiddenIsIdle(q, w)
      BY <3>2 DEF PanelInv, FlightsTyped, OneLive, ArmedIsIdle, HiddenIsIdle, Pending
    <3>5. AskedForThis(q, w)
      <4> SUFFICES ASSUME NEW f \in p.flights, f.live
                   PROVE  Asked(q, w, f)
        BY <3>2 DEF AskedForThis
      <4>1. p.key = <<f.symbol, f.generation>>
        BY DEF PanelInv, AskedForThis, Asked, Reset
      <4>2. key = <<f.symbol, f.generation>>
        BY <3>3, <4>1
      <4>3. QED
        BY <3>2, <4>2 DEF Asked, Reset
    <3>6. ShowsThis(q, w)
      <4> SUFFICES ASSUME p.result.status = "ready"
                   PROVE  Holds(q, w, p.result)
        BY <3>2 DEF ShowsThis
      <4>1. p.key = <<p.result.symbol, p.result.generation>>
        BY DEF PanelInv, ShowsThis, Holds, Reset
      <4>2. key = <<p.result.symbol, p.result.generation>>
        BY <3>3, <4>1
      <4>3. QED
        BY <3>2, <4>2 DEF Holds, Reset
    <3>7. QED
      BY <3>2, <3>4, <3>5, <3>6 DEF PanelInv
  <2>3. QED
    BY <2>1, <2>2
<1>3. \/ LinesUpdate(p, w) = c
      \/ LinesUpdate(p, w) = q
      \/ LinesUpdate(p, w) = a /\ ~Pending(q) /\ w.on
  BY DEF LinesUpdate
<1> HIDE DEF q, c
<1>4. ASSUME ~Pending(q), w.on PROVE PanelInv(a, w)
  <2>1. Asks(a, q, w)
    BY <1>2, AskingAsks
  <2>2. Asked(q, w, Request(w))
    BY <1>2 DEF Asked, Reset, Request
  <2>3. QED
    BY <1>2, <1>4, <2>1, <2>2, AsksInv
<1>5. QED
  BY <1>1, <1>2, <1>3, <1>4

-----------------------------------------------------------------------------
(* What the rest of the browser tells a part.                                *)

\* A reset warm-up asks at once, if it may.
LEMMA WarmupResets ==
  ASSUME NEW p, NEW w, IsPanel(p), FlightsTyped(p), ~p.armed, w.generation \in Nat,
         p.kind = "warmup"
  PROVE  PanelInv(WarmupReset(p, w), w)
<1> DEFINE d == Dropped(p)
           q == [d EXCEPT !.key = <<w.symbol>>, !.done = FALSE, !.tries = 0, !.wait = 0,
                   !.result = Blank]
<1>1. IsPanel(d) /\ FlightsTyped(d) /\ ~Pending(d) /\ d.kind = "warmup" /\ ~d.armed
  BY DroppedIs
<1>2. WarmupReset(p, w) = WarmupEnsure(q, w)
  BY DEF WarmupReset
<1> HIDE DEF d
<1>3. Cleared(q, p) /\ q.kind = "warmup"
  BY <1>1 DEF Cleared, IsPanel, FlightsTyped, Pending, Blank
<1> HIDE DEF q
<1>4. PanelInv(q, w)
  BY <1>3, ClearedInv
<1>5. QED
  BY <1>2, <1>3, <1>4, WarmupFrame

\* A snapshot: the stock, the generation and the clock may all be others.  The parts that
\* are reset ask of the new ones; the map goes with its stock, the daily bars with theirs,
\* and the rest look at their key in the next frame.
LEMMA SnapshotKeeps ==
  ASSUME NEW p, NEW w, NEW x, PanelInv(p, w), x.generation \in Nat, x.on = w.on,
         NEW changed \in BOOLEAN, changed = (w.symbol # x.symbol)
  PROVE  PanelInv(OnSnapshot(p, x, changed), x)
<1> DEFINE q == OnSnapshot(p, x, changed)
<1>1. IsPanel(p) /\ FlightsTyped(p) /\ (p.kind # "chartHistory" => ~p.armed)
  BY NotArmed
<1>2. p.kind \in AllKinds
  BY <1>1 DEF IsPanel
<1>3. CASE p.kind = "forecast"
  <2>1. q = ForecastClear(p)
    BY <1>3 DEF OnSnapshot
  <2>2. QED
    BY <1>1, <1>3, <2>1, Resets, ClearedInv
<1>4. CASE p.kind = "flow"
  <2>1. q = FlowClear(p)
    BY <1>4 DEF OnSnapshot
  <2>2. QED
    BY <1>1, <1>4, <2>1, Resets, ClearedInv
<1>5. CASE p.kind = "adr"
  <2>1. q = AdrLoad(p, x)
    BY <1>5 DEF OnSnapshot
  <2>2. QED
    BY <1>1, <1>5, <2>1, AdrLoads
<1>6. CASE p.kind = "volatility"
  <2>1. q = VolatilityReset(p, x)
    BY <1>6 DEF OnSnapshot
  <2>2. Cleared(VolatilityReset(p, x), p)
    BY <1>1, <1>6, Resets
  <2>3. QED
    BY <2>1, <2>2, ClearedInv
<1>7. CASE p.kind = "rvol"
  <2>1. q = RvolReset(p)
    BY <1>7 DEF OnSnapshot
  <2>2. QED
    BY <1>1, <1>7, <2>1, Resets, ClearedInv
<1>8. CASE p.kind = "chartHistory"
  <2>1. q = HistoryReset(p)
    BY <1>8 DEF OnSnapshot
  <2>2. Cleared(HistoryReset(p), p)
    BY <1>1, Resets
  <2>3. QED
    BY <2>1, <2>2, ClearedInv
<1>9. CASE p.kind = "dayMap"
  <2>1. CASE changed
    <3>1. q = [MapReset(p) EXCEPT !.result = Blank]
      BY <1>9, <2>1 DEF OnSnapshot
    <3>2. QED
      BY <1>1, <1>9, <3>1, Resets, ClearedInv
  <2>2. CASE ~changed
    <3>1. q = p
      BY <1>9, <2>2 DEF OnSnapshot
    <3>2. w.symbol = x.symbol
      BY <2>2
    <3>3. QED
      BY <1>9, <3>1, <3>2
         DEF PanelInv, HiddenIsIdle, AskedForThis, ShowsThis, Asked, Holds, Reset
  <2>3. QED
    BY <2>1, <2>2
<1>10. CASE p.kind = "daily"
  <2>1. q = DailyForget(p, x)
    BY <1>10 DEF OnSnapshot
  <2>2. CASE p.key = <<x.symbol>>
    <3>1. q = p
      BY <2>1, <2>2 DEF DailyForget
    <3>2. AskedForThis(p, x)
      BY <1>10 DEF AskedForThis, Asked, Reset
    <3>3. ASSUME p.result.status = "ready"
          PROVE  p.result.symbol = x.symbol
      <4>1. Holds(p, w, p.result)
        BY <3>3 DEF PanelInv, ShowsThis
      <4>2. p.result.symbol = w.symbol /\ p.key = <<w.symbol>>
        BY <1>10, <4>1 DEF Holds, Reset
      <4>3. w.symbol = x.symbol
        BY <2>2, <4>2
      <4>4. QED
        BY <4>2, <4>3
    <3>4. ShowsThis(p, x)
      BY <1>10, <2>2, <3>3 DEF ShowsThis, Holds, Reset
    <3>5. QED
      BY <3>1, <3>2, <3>4 DEF PanelInv, HiddenIsIdle
  <2>3. CASE p.key # <<x.symbol>>
    <3> DEFINE d == Dropped(p)
    <3>1. IsPanel(d) /\ FlightsTyped(d) /\ ~Pending(d) /\ d.kind = p.kind /\ ~d.armed
      BY <1>1, <1>10, DroppedIs
    <3>2. q = [d EXCEPT !.key = <<>>, !.wait = 0, !.result = Blank]
      BY <2>1, <2>3 DEF DailyForget
    <3> HIDE DEF d, q
    <3>3. Cleared(q, p)
      BY <3>1, <3>2 DEF Cleared, IsPanel, FlightsTyped, Pending, Blank
    <3>4. QED
      BY <3>3, ClearedInv DEF q
  <2>4. QED
    BY <2>2, <2>3
<1>11. CASE p.kind = "warmup"
  <2>1. q = WarmupReset(p, x)
    BY <1>11 DEF OnSnapshot
  <2>2. QED
    BY <1>1, <1>11, <2>1, WarmupResets
<1>12. CASE p.kind \in {"gex", "overlay", "review", "lines"}
  <2>1. q = p
    BY <1>12 DEF OnSnapshot
  <2>2. \A f : Asked(p, w, f) => Asked(p, x, f)
    BY <1>12 DEF Asked, Reset
  <2>3. \A r : Holds(p, w, r) => Holds(p, x, r)
    BY <1>12 DEF Holds, Reset
  <2>4. QED
    BY <2>1, <2>2, <2>3 DEF PanelInv, HiddenIsIdle, AskedForThis, ShowsThis
<1>13. QED
  BY <1>2, <1>3, <1>4, <1>5, <1>6, <1>7, <1>8, <1>9, <1>10, <1>11, <1>12 DEF AllKinds

\* A status: the tape is the same.
LEMMA SameTape ==
  ASSUME NEW p, NEW w, NEW x, PanelInv(p, w),
         x.symbol = w.symbol, x.generation = w.generation, x.on = w.on
  PROVE  PanelInv(p, x)
<1>1. \A f : Asked(p, w, f) => Asked(p, x, f)
  BY DEF Asked
<1>2. \A r : Holds(p, w, r) => Holds(p, x, r)
  BY DEF Holds
<1>3. QED
  BY <1>1, <1>2 DEF PanelInv, HiddenIsIdle, AskedForThis, ShowsThis

\* A status resets what relied on the connection.
LEMMA StatusKeeps ==
  ASSUME NEW p, NEW x, NEW recovered \in BOOLEAN, PanelInv(p, x), x.generation \in Nat
  PROVE  PanelInv(OnStatus(p, x, recovered), x)
<1> DEFINE q == OnStatus(p, x, recovered)
<1>1. IsPanel(p) /\ FlightsTyped(p) /\ (p.kind # "chartHistory" => ~p.armed)
  BY NotArmed
<1>2. p.kind \in AllKinds
  BY <1>1 DEF IsPanel
<1>3. CASE p.kind = "forecast"
  <2>1. q = ForecastClear(p)
    BY <1>3 DEF OnStatus
  <2>2. QED
    BY <1>1, <1>3, <2>1, Resets, ClearedInv
<1>4. CASE p.kind = "flow"
  <2>1. q = FlowClear(p)
    BY <1>4 DEF OnStatus
  <2>2. QED
    BY <1>1, <1>4, <2>1, Resets, ClearedInv
<1>5. CASE p.kind = "adr"
  <2>1. q = AdrLoad(p, x) \/ q = p
    BY <1>5 DEF OnStatus
  <2>2. QED
    BY <1>1, <1>5, <2>1, AdrLoads
<1>6. CASE p.kind = "volatility"
  <2> DEFINE d == Dropped(p)
             kept == [p EXCEPT !.wait = 0]
             lost == [d EXCEPT !.wait = 0,
                        !.result = IF @.status = "denied" THEN @ ELSE Failure("changed")]
  <2>1. q = kept \/ q = lost
    BY <1>6 DEF OnStatus
  <2>2. PanelInv(kept, x)
    <3>1. Moved(kept, p)
      BY <1>1 DEF Moved, IsPanel
    <3>2. QED
      BY <3>1, MovedInv
  <2>3. PanelInv(lost, x)
    <3>1. IsPanel(d) /\ FlightsTyped(d) /\ ~Pending(d) /\ d.kind = p.kind /\ ~d.armed
      BY <1>1, <1>6, DroppedIs
    <3>2. Failure("changed").status = "changed"
      BY DEF Failure, Blank
    <3> HIDE DEF d
    <3>3. lost.result.status # "ready"
      BY <3>1, <3>2 DEF IsPanel
    <3>4. IsPanel(lost) /\ lost.flights = d.flights /\ lost.kind = p.kind /\ ~lost.armed
      BY <3>1 DEF IsPanel
    <3> HIDE DEF lost
    <3>5. Cleared(lost, p)
      BY <3>1, <3>3, <3>4 DEF Cleared, FlightsTyped, Pending
    <3>6. QED
      BY <3>5, ClearedInv
  <2>4. QED
    BY <2>1, <2>2, <2>3
<1>7. CASE p.kind = "rvol"
  <2>1. q = RvolReset(p) \/ q = p
    BY <1>7 DEF OnStatus
  <2>2. QED
    BY <1>1, <1>7, <2>1, Resets, ClearedInv
<1>8. CASE p.kind = "dayMap"
  <2> DEFINE d == Dropped(p)
  <2>1. q = MapReset(p) \/ q = p
    BY <1>8 DEF OnStatus
  <2>2. PanelInv(d, x) /\ IsPanel(d) /\ d.kind = "dayMap"
    BY <1>8, DropsInv
  <2>3. MapReset(p) = [d EXCEPT !.key = <<>>, !.wait = 0, !.done = FALSE]
    BY DEF MapReset
  <2> HIDE DEF d
  <2>4. Moved(MapReset(p), d)
    BY <2>2, <2>3 DEF Moved, IsPanel, Keyed
  <2>5. QED
    BY <2>1, <2>2, <2>4, MovedInv
<1>9. CASE p.kind = "daily"
  <2>1. q = [p EXCEPT !.wait = 0] \/ q = p
    BY <1>9 DEF OnStatus
  <2>2. Moved([p EXCEPT !.wait = 0], p)
    BY <1>1 DEF Moved, IsPanel
  <2>3. QED
    BY <2>1, <2>2, MovedInv
<1>10. CASE p.kind = "warmup"
  <2>1. q = WarmupReset(p, x) \/ q = WarmupEnsure(p, x)
    BY <1>10 DEF OnStatus
  <2>2. QED
    BY <1>1, <1>10, <2>1, WarmupResets, WarmupFrame
<1>11. CASE p.kind \in {"gex", "overlay", "chartHistory", "review", "lines"}
  <2>1. q = p
    BY <1>11 DEF OnStatus
  <2>2. QED
    BY <2>1
<1>12. QED
  BY <1>2, <1>3, <1>4, <1>5, <1>6, <1>7, <1>8, <1>9, <1>10, <1>11 DEF AllKinds

\* The page is hidden: the studies and the trendlines are reset.
LEMMA HiddenKeeps ==
  ASSUME NEW p, NEW w, NEW x, PanelInv(p, w),
         x.symbol = w.symbol, x.generation = w.generation
  PROVE  PanelInv(OnHidden(p), x)
<1>1. IsPanel(p) /\ FlightsTyped(p) /\ (p.kind # "chartHistory" => ~p.armed)
  BY NotArmed
<1>2. CASE p.kind = "overlay"
  BY <1>1, <1>2, Resets, ClearedInv DEF OnHidden
<1>3. CASE p.kind = "rvol"
  BY <1>1, <1>3, Resets, ClearedInv DEF OnHidden
<1>4. CASE p.kind = "chartHistory"
  <2>1. Cleared(HistoryReset(p), p)
    BY <1>1, Resets
  <2>2. QED
    BY <1>4, <2>1, ClearedInv DEF OnHidden
<1>5. CASE p.kind = "lines"
  BY <1>1, <1>5, Resets, ClearedInv DEF OnHidden
<1>6. CASE p.kind \notin {"overlay", "rvol", "chartHistory", "lines"}
  <2>1. OnHidden(p) = p
    BY <1>6 DEF OnHidden
  <2>2. \A f : Asked(p, w, f) => Asked(p, x, f)
    BY DEF Asked
  <2>3. \A r : Holds(p, w, r) => Holds(p, x, r)
    BY DEF Holds
  <2>4. HiddenIsIdle(p, x)
    BY <1>6 DEF HiddenIsIdle, Studies
  <2>5. QED
    BY <2>1, <2>2, <2>3, <2>4 DEF PanelInv, AskedForThis, ShowsThis
<1>7. QED
  BY <1>2, <1>3, <1>4, <1>5, <1>6

\* A part that is mounted anew: what was asked before is dropped.
LEMMA MountedInv ==
  ASSUME NEW p, NEW w, IsPanel(p), FlightsTyped(p), w.generation \in Nat
  PROVE  PanelInv(Mounted(p, w), w)
<1> DEFINE d == Dropped(p)
           q == [Fresh(p.kind) EXCEPT !.flights = d.flights]
<1>1. FlightsTyped(d) /\ ~Pending(d)
  BY DroppedIs
<1>2. Mounted(p, w) = OnSnapshot(q, w, FALSE)
  BY DEF Mounted
<1> HIDE DEF d
<1>3. /\ DOMAIN Fresh(p.kind) = {"kind", "key", "result", "wait", "asked", "last", "tries",
                                 "done", "armed", "flights"}
      /\ Fresh(p.kind).kind = p.kind /\ Fresh(p.kind).armed = FALSE
      /\ Fresh(p.kind).result = Blank
  BY DEF Fresh
<1>4. Cleared(q, p)
  BY <1>1, <1>3 DEF Cleared, IsPanel, FlightsTyped, Pending, Blank
<1> HIDE DEF q
<1>5. PanelInv(q, w)
  BY <1>4, ClearedInv
<1>6. PanelInv(OnSnapshot(q, w, FALSE), w)
  BY <1>5, SnapshotKeeps
<1>7. QED
  BY <1>2, <1>6

-----------------------------------------------------------------------------
(* Answers.                                                                  *)

\* A part that asks for nothing is right when what it shows is.
LEMMA QuietInv ==
  ASSUME NEW q, NEW w, IsPanel(q), FlightsTyped(q), ~Pending(q), ~q.armed, ShowsThis(q, w)
  PROVE  PanelInv(q, w)
BY DEF PanelInv, OneLive, ArmedIsIdle, HiddenIsIdle, AskedForThis, Pending

\* The request an answer is of.
LEMMA TakenOut ==
  ASSUME NEW p, NEW w, PanelInv(p, w), NEW f \in p.flights
  PROVE  LET q == [p EXCEPT !.flights = @ \ {f}]
         IN /\ PanelInv(q, w) /\ IsPanel(q) /\ FlightsTyped(q) /\ IsFlight(f)
            /\ q.kind = p.kind /\ q.key = p.key /\ q.result = p.result
            /\ f.live => ~Pending(q) /\ ~q.armed /\ Asked(q, w, f)
                         /\ (w.on \/ q.kind \notin Studies \cup {"lines"})
<1> DEFINE q == [p EXCEPT !.flights = @ \ {f}]
<1>1. /\ IsPanel(q) /\ q.flights = p.flights \ {f} /\ q.kind = p.kind /\ q.key = p.key
      /\ q.result = p.result /\ q.armed = p.armed
  BY DEF PanelInv, IsPanel
<1> HIDE DEF q
<1>2. \A g : Asked(p, w, g) <=> Asked(q, w, g)
  BY <1>1 DEF Asked
<1>3. \A r : Holds(p, w, r) => Holds(q, w, r)
  BY <1>1 DEF Holds
<1>4. FlightsTyped(q) /\ OneLive(q) /\ ArmedIsIdle(q) /\ HiddenIsIdle(q, w)
  BY <1>1 DEF PanelInv, FlightsTyped, OneLive, ArmedIsIdle, HiddenIsIdle, Pending
<1>5. AskedForThis(q, w) /\ ShowsThis(q, w)
  BY <1>1, <1>2, <1>3 DEF PanelInv, AskedForThis, ShowsThis
<1>6. PanelInv(q, w)
  BY <1>1, <1>4, <1>5 DEF PanelInv
<1>7. ASSUME f.live
      PROVE  ~Pending(q) /\ ~q.armed /\ Asked(q, w, f)
             /\ (w.on \/ q.kind \notin Studies \cup {"lines"})
  <2>1. Pending(p)
    BY <1>7 DEF Pending
  <2>2. ~Pending(q)
    BY <1>1, <1>7 DEF Pending, PanelInv, OneLive
  <2>3. Asked(q, w, f)
    BY <1>2, <1>7 DEF PanelInv, AskedForThis
  <2>4. QED
    BY <1>1, <2>1, <2>2, <2>3 DEF PanelInv, ArmedIsIdle, HiddenIsIdle
<1>8. IsFlight(f)
  BY DEF PanelInv, FlightsTyped
<1>9. QED
  BY <1>1, <1>4, <1>6, <1>7, <1>8 DEF q

\* An answer that can be used is of the stock that was asked for and of no earlier
\* generation than the browser's; the worker's is of the candles it was sent.
Replies(p, w, f, r) ==
  r.status = "ready" =>
    /\ r.symbol = f.symbol /\ r.generation \in Nat
    /\ p.kind = "lines" => r.generation = f.generation
    /\ p.kind # "lines" => r.generation >= w.generation

\* A part without a request takes a result, or a failure.
LEMMA TakesResult ==
  ASSUME NEW p, NEW q, NEW w, IsPanel(p), FlightsTyped(p), ~Pending(p),
         IsPanel(q), q.kind = p.kind, q.flights = p.flights, ~q.armed,
         q.result.status = "ready" => Holds(q, w, q.result)
  PROVE  PanelInv(q, w)
BY QuietInv DEF FlightsTyped, Pending, ShowsThis

\* A failure cannot be shown.
LEMMA FailureIsNotReady ==
  \A status : status # "ready" => Failure(status).status # "ready"
BY DEF Failure, Blank

\* Each kind with an answer to its request.
LEMMA AnswerKeeps ==
  ASSUME NEW p, NEW w, NEW f, NEW r, PanelInv(p, w), ~Pending(p), ~p.armed,
         IsFlight(f), Asked(p, w, f), Replies(p, w, f, r), w.generation \in Nat,
         w.on \/ p.kind \notin Studies \cup {"lines"}
  PROVE  /\ p.kind \in {"gex", "flow"} => PanelInv(GexReply(p, f, r), w)
         /\ p.kind = "overlay" => PanelInv(OverlayLoaded(p, f, r), w)
         /\ p.kind = "rvol" => PanelInv(RvolLoaded(p, f, r), w)
         /\ p.kind = "forecast" => PanelInv(ForecastReply(p, f, r, w), w)
         /\ p.kind = "adr" => PanelInv(AdrReply(p, f, r), w)
         /\ p.kind = "volatility" => PanelInv(VolatilityReply(p, f, r, w), w)
         /\ p.kind = "chartHistory" => PanelInv(HistoryLoaded(p, f, r), w)
         /\ p.kind = "dayMap" => PanelInv(MapLoaded(p, f, r), w)
         /\ p.kind = "daily" => PanelInv(DailyLoaded(p, f, r, w), w)
         /\ p.kind = "warmup" => PanelInv(WarmupLoaded(p, f, r, w), w)
         /\ p.kind = "review" => PanelInv(ReviewLoaded(p, f, r, w), w)
         /\ p.kind = "lines" => PanelInv(LinesReceived(p, f, r), w)
<1>1. IsPanel(p) /\ FlightsTyped(p)
  BY NotArmed
<1>2. Failure("offline").status # "ready" /\ Failure("changed").status # "ready"
  BY FailureIsNotReady
\* Taking what was received, or a failure, and no more.
<1>3. ASSUME NEW q, IsPanel(q), q.kind = p.kind, q.flights = p.flights, ~q.armed,
             q.result.status = "ready" => Holds(q, w, q.result)
      PROVE  PanelInv(q, w)
  BY <1>1, <1>3, TakesResult
<1>4. ASSUME NEW q, IsPanel(q), q.kind = p.kind, q.flights = p.flights, ~q.armed,
             q.result = p.result, q.key = p.key
      PROVE  PanelInv(q, w)
  <2>1. Holds(p, w, p.result) => Holds(q, w, q.result)
    BY <1>4 DEF Holds
  <2>2. q.result.status = "ready" => Holds(q, w, q.result)
    BY <1>4, <2>1 DEF PanelInv, ShowsThis
  <2>3. QED
    BY <1>1, <1>4, <2>2, TakesResult
<1>5. ASSUME p.kind \in Reset, r.status = "ready"
      PROVE  r.symbol = w.symbol /\ r.generation >= w.generation /\ r.generation \in Nat
             /\ f.generation = w.generation
  BY <1>5 DEF Replies, Asked, Reset
<1>6. ASSUME NEW q, p.kind = "gex" \/ p.kind = "overlay", q.kind = p.kind, NEW s
      PROVE  Holds(q, w, s)
  BY <1>6 DEF Holds, Reset
<1>7. ASSUME p.kind \in {"gex", "flow", "overlay"}
      PROVE  PanelInv(GexReply(p, f, r), w)
  <2> DEFINE s == IF r.status = "offline" \/ Same(f, r) THEN r ELSE Failure("changed")
             q == GexReply(p, f, r)
  <2>1. q = [p EXCEPT !.result = s]
    BY DEF GexReply
  <2>2. ASSUME s.status = "ready" PROVE s = r /\ Same(f, r)
    <3>1. CASE r.status = "offline"
      BY <2>2, <3>1
    <3>2. QED
      BY <1>2, <2>2, <3>1
  <2> HIDE DEF s, q
  <2>3. IsPanel(q) /\ q.kind = p.kind /\ q.flights = p.flights /\ ~q.armed /\ q.result = s
    BY <1>1, <2>1 DEF IsPanel
  <2>4. ASSUME s.status = "ready" PROVE Holds(q, w, s)
    <3>1. CASE p.kind = "flow"
      <4>1. s.symbol = w.symbol /\ s.generation = w.generation
        BY <1>5, <2>2, <2>4, <3>1 DEF Same, Reset
      <4>2. QED
        BY <2>3, <3>1, <4>1 DEF Holds, Reset
    <3>2. QED
      BY <1>6, <1>7, <2>3, <3>1
  <2>5. PanelInv(q, w)
    BY <1>3, <2>3, <2>4
  <2>6. QED
    BY <2>5 DEF q
<1>8. ASSUME p.kind = "overlay" PROVE PanelInv(OverlayLoaded(p, f, r), w)
  <2> DEFINE q == [p EXCEPT !.result = r, !.asked = Never, !.wait = Retry]
  <2>1. OverlayLoaded(p, f, r) = GexReply(p, f, r) \/ OverlayLoaded(p, f, r) = q
    BY DEF OverlayLoaded
  <2>2. IsPanel(q) /\ q.kind = p.kind /\ q.flights = p.flights /\ ~q.armed
    BY <1>1 DEF IsPanel
  <2> HIDE DEF q
  <2>3. PanelInv(q, w)
    BY <1>3, <1>6, <1>8, <2>2
  <2>4. QED
    BY <1>7, <1>8, <2>1, <2>3
<1>9. ASSUME p.kind = "rvol" PROVE PanelInv(RvolLoaded(p, f, r), w)
  <2> DEFINE q == [p EXCEPT !.result = r, !.last = f.clock]
             e == [p EXCEPT !.result = Failure("offline"), !.wait = Retry]
  <2>1. RvolLoaded(p, f, r) = q \/ RvolLoaded(p, f, r) = e
    BY DEF RvolLoaded
  <2>2. PanelInv(e, w)
    <3>1. /\ IsPanel(e) /\ e.kind = p.kind /\ e.flights = p.flights /\ ~e.armed
          /\ e.result = Failure("offline")
      BY <1>1 DEF IsPanel
    <3> HIDE DEF e
    <3>2. QED
      BY <1>2, <1>3, <3>1
  <2>3. PanelInv(q, w)
    <3>1. /\ IsPanel(q) /\ q.kind = p.kind /\ q.flights = p.flights /\ ~q.armed
          /\ q.result = r
      BY <1>1 DEF IsPanel
    <3> HIDE DEF q
    <3>2. r.status = "ready" => Holds(q, w, r)
      BY <1>5, <1>9, <3>1 DEF Holds, Reset, Draws
    <3>3. QED
      BY <1>3, <3>1, <3>2
  <2>4. QED
    BY <2>1, <2>2, <2>3
<1>10. ASSUME p.kind = "forecast" PROVE PanelInv(ForecastReply(p, f, r, w), w)
  <2> DEFINE q == [p EXCEPT !.result = r, !.wait = Pace]
             n == [p EXCEPT !.result = r, !.wait = Retry]
             e == [p EXCEPT !.result = Failure("changed")]
  <2>1. \/ ForecastReply(p, f, r, w) = n /\ r.status = "offline"
        \/ ForecastReply(p, f, r, w) = p
        \/ ForecastReply(p, f, r, w) = e
        \/ ForecastReply(p, f, r, w) = q /\ Same(f, r)
    BY DEF ForecastReply
  <2>2. PanelInv(e, w)
    <3>1. /\ IsPanel(e) /\ e.kind = p.kind /\ e.flights = p.flights /\ ~e.armed
          /\ e.result = Failure("changed")
      BY <1>1 DEF IsPanel
    <3> HIDE DEF e
    <3>2. QED
      BY <1>2, <1>3, <3>1
  <2>3. ASSUME r.status = "offline" PROVE PanelInv(n, w)
    <3>1. /\ IsPanel(n) /\ n.kind = p.kind /\ n.flights = p.flights /\ ~n.armed
          /\ n.result = r
      BY <1>1 DEF IsPanel
    <3> HIDE DEF n
    <3>2. QED
      BY <1>3, <2>3, <3>1
  <2>4. ASSUME Same(f, r) PROVE PanelInv(q, w)
    <3>1. /\ IsPanel(q) /\ q.kind = p.kind /\ q.flights = p.flights /\ ~q.armed
          /\ q.result = r
      BY <1>1 DEF IsPanel
    <3> HIDE DEF q
    <3>2. r.status = "ready" => Holds(q, w, r)
      BY <1>5, <1>10, <2>4, <3>1 DEF Holds, Reset, Draws, Same
    <3>3. QED
      BY <1>3, <3>1, <3>2
  <2>5. QED
    BY <2>1, <2>2, <2>3, <2>4
<1>11. ASSUME p.kind = "adr" PROVE PanelInv(AdrReply(p, f, r), w)
  <2> DEFINE s == IF r.symbol = f.symbol THEN r ELSE Failure("offline")
             q == [p EXCEPT !.result = s, !.wait = Retry]
  <2>1. AdrReply(p, f, r) = q
    BY DEF AdrReply
  <2>2. s.status = "ready" => s = r
    BY <1>2
  <2> HIDE DEF s
  <2>3. IsPanel(q) /\ q.kind = p.kind /\ q.flights = p.flights /\ ~q.armed /\ q.result = s
    BY <1>1 DEF IsPanel
  <2> HIDE DEF q
  <2>4. s.status = "ready" => Holds(q, w, s)
    BY <1>5, <1>11, <2>2, <2>3 DEF Holds, Reset, Draws
  <2>5. QED
    BY <1>3, <2>1, <2>3, <2>4
<1>12. ASSUME p.kind = "volatility" PROVE PanelInv(VolatilityReply(p, f, r, w), w)
  <2> DEFINE q == [p EXCEPT !.result = r, !.wait = Pace]
             e == [p EXCEPT !.result = Failure("changed"), !.wait = Pace]
             k == [p EXCEPT !.wait = Pace]
  <2>1. \/ VolatilityReply(p, f, r, w) = q /\ (r.status = "offline" \/ r.generation = f.generation)
        \/ VolatilityReply(p, f, r, w) = e
        \/ VolatilityReply(p, f, r, w) = k
    BY DEF VolatilityReply
  <2>2. PanelInv(e, w)
    <3>1. /\ IsPanel(e) /\ e.kind = p.kind /\ e.flights = p.flights /\ ~e.armed
          /\ e.result = Failure("changed")
      BY <1>1 DEF IsPanel
    <3> HIDE DEF e
    <3>2. QED
      BY <1>2, <1>3, <3>1
  <2>3. PanelInv(k, w)
    <3>1. /\ IsPanel(k) /\ k.kind = p.kind /\ k.flights = p.flights /\ ~k.armed
          /\ k.result = p.result /\ k.key = p.key
      BY <1>1 DEF IsPanel
    <3> HIDE DEF k
    <3>2. QED
      BY <1>4, <3>1
  <2>4. ASSUME r.status = "offline" \/ r.generation = f.generation PROVE PanelInv(q, w)
    <3>1. /\ IsPanel(q) /\ q.kind = p.kind /\ q.flights = p.flights /\ ~q.armed
          /\ q.result = r
      BY <1>1 DEF IsPanel
    <3> HIDE DEF q
    <3>2. r.status = "ready" => Holds(q, w, r)
      BY <1>5, <1>12, <2>4, <3>1 DEF Holds, Reset, Draws
    <3>3. QED
      BY <1>3, <3>1, <3>2
  <2>5. QED
    BY <2>1, <2>2, <2>3, <2>4
<1>13. ASSUME p.kind = "chartHistory" PROVE PanelInv(HistoryLoaded(p, f, r), w)
  <2> DEFINE d == [p EXCEPT !.done = p.tries >= MaxTries]
             t == [p EXCEPT !.result = r, !.done = TRUE]
             refused == [p EXCEPT !.done = TRUE]
             q == IF r.status = "denied" THEN refused
                  ELSE IF r.status = "offline" THEN d ELSE IF r.symbol # f.symbol THEN p ELSE t
  <2>1. PanelInv(d, w) /\ d.kind = "chartHistory"
    <3>1. /\ IsPanel(d) /\ d.kind = p.kind /\ d.flights = p.flights /\ ~d.armed
          /\ d.result = p.result /\ d.key = p.key
      BY <1>1 DEF IsPanel
    <3> HIDE DEF d
    <3>2. QED
      BY <1>4, <1>13, <3>1
  <2>2. PanelInv(t, w) /\ t.kind = "chartHistory"
    <3>1. /\ IsPanel(t) /\ t.kind = p.kind /\ t.flights = p.flights /\ ~t.armed
          /\ t.result = r
      BY <1>1 DEF IsPanel
    <3> HIDE DEF t
    <3>2. r.status = "ready" => Holds(t, w, r)
      BY <1>5, <1>13, <3>1 DEF Holds, Reset, Draws
    <3>3. QED
      BY <1>3, <1>13, <3>1, <3>2
  <2>3. PanelInv(refused, w) /\ refused.kind = "chartHistory"
    <3>1. /\ IsPanel(refused) /\ refused.kind = p.kind /\ refused.flights = p.flights /\ ~refused.armed
          /\ refused.result = p.result /\ refused.key = p.key
      BY <1>1 DEF IsPanel
    <3> HIDE DEF refused
    <3>2. QED
      BY <1>4, <1>13, <3>1
  <2>4. HistoryLoaded(p, f, r) = IF q.done THEN q ELSE HistoryEnsure(q, q.key)
    BY DEF HistoryLoaded
  <2>5. PanelInv(q, w) /\ q.kind = "chartHistory"
    BY <1>13, <2>1, <2>2, <2>3
  <2> HIDE DEF q
  <2>6. w.on
    BY <1>13 DEF Studies
  <2>7. PanelInv(HistoryEnsure(q, q.key), w)
    BY <2>5, <2>6, HistoryEnsures
  <2>8. QED
    BY <2>4, <2>5, <2>7
<1>14. ASSUME p.kind = "dayMap" PROVE PanelInv(MapLoaded(p, f, r), w)
  <2> DEFINE q == [p EXCEPT !.result = r, !.done = TRUE, !.wait = Retry]
             e == [p EXCEPT !.result = Failure("offline"), !.wait = Retry]
  <2>1. MapLoaded(p, f, r) = q \/ MapLoaded(p, f, r) = e
    BY DEF MapLoaded
  <2>2. PanelInv(e, w)
    <3>1. /\ IsPanel(e) /\ e.kind = p.kind /\ e.flights = p.flights /\ ~e.armed
          /\ e.result = Failure("offline")
      BY <1>1 DEF IsPanel
    <3> HIDE DEF e
    <3>2. QED
      BY <1>2, <1>3, <3>1
  <2>3. PanelInv(q, w)
    <3>1. /\ IsPanel(q) /\ q.kind = p.kind /\ q.flights = p.flights /\ ~q.armed
          /\ q.result = r
      BY <1>1 DEF IsPanel
    <3> HIDE DEF q
    <3>2. f.symbol = w.symbol
      BY <1>14 DEF Asked, Reset
    <3>3. r.status = "ready" => Holds(q, w, r)
      BY <1>14, <3>1, <3>2 DEF Holds, Reset, Replies
    <3>4. QED
      BY <1>3, <3>1, <3>3
  <2>4. QED
    BY <2>1, <2>2, <2>3
<1>15. ASSUME p.kind = "daily" PROVE PanelInv(DailyLoaded(p, f, r, w), w)
  <2> DEFINE q == [p EXCEPT !.result = r, !.key = <<f.symbol>>, !.wait = Retry]
             k == [p EXCEPT !.wait = Retry]
  <2>1. \/ DailyLoaded(p, f, r, w) = p
        \/ DailyLoaded(p, f, r, w) = k
        \/ DailyLoaded(p, f, r, w) = q /\ f.symbol = w.symbol
    BY DEF DailyLoaded
  <2>2. PanelInv(k, w)
    <3>1. /\ IsPanel(k) /\ k.kind = p.kind /\ k.flights = p.flights /\ ~k.armed
          /\ k.result = p.result /\ k.key = p.key
      BY <1>1 DEF IsPanel
    <3> HIDE DEF k
    <3>2. QED
      BY <1>4, <3>1
  <2>3. ASSUME f.symbol = w.symbol PROVE PanelInv(q, w)
    <3>1. /\ IsPanel(q) /\ q.kind = p.kind /\ q.flights = p.flights /\ ~q.armed
          /\ q.result = r /\ q.key = <<f.symbol>>
      BY <1>1 DEF IsPanel
    <3> HIDE DEF q
    <3>2. r.status = "ready" => Holds(q, w, r)
      BY <1>15, <2>3, <3>1 DEF Holds, Reset, Replies
    <3>3. QED
      BY <1>3, <3>1, <3>2
  <2>4. QED
    BY <2>1, <2>2, <2>3
<1>16. ASSUME p.kind = "warmup" PROVE PanelInv(WarmupLoaded(p, f, r, w), w)
  <2> DEFINE q == [p EXCEPT !.result = r, !.done = TRUE, !.tries = 0]
             k == [p EXCEPT !.tries = IF @ < MaxTries THEN @ + 1 ELSE @, !.wait = Retry]
  <2>1. \/ WarmupLoaded(p, f, r, w) = p
        \/ WarmupLoaded(p, f, r, w) = k
        \/ WarmupLoaded(p, f, r, w) = q
    BY DEF WarmupLoaded
  <2>2. PanelInv(k, w)
    <3>1. /\ IsPanel(k) /\ k.kind = p.kind /\ k.flights = p.flights /\ ~k.armed
          /\ k.result = p.result /\ k.key = p.key
      BY <1>1 DEF IsPanel
    <3> HIDE DEF k
    <3>2. QED
      BY <1>4, <3>1
  <2>3. PanelInv(q, w)
    <3>1. /\ IsPanel(q) /\ q.kind = p.kind /\ q.flights = p.flights /\ ~q.armed
          /\ q.result = r
      BY <1>1 DEF IsPanel
    <3> HIDE DEF q
    <3>2. r.status = "ready" => Holds(q, w, r)
      BY <1>5, <1>16, <3>1 DEF Holds, Reset, Draws
    <3>3. QED
      BY <1>3, <3>1, <3>2
  <2>4. QED
    BY <2>1, <2>2, <2>3
<1>17. ASSUME p.kind = "review" PROVE PanelInv(ReviewLoaded(p, f, r, w), w)
  <2> DEFINE q == [p EXCEPT !.result = r]
             e == [p EXCEPT !.result = Failure("offline"), !.asked = Never, !.wait = Retry]
  <2>1. \/ ReviewLoaded(p, f, r, w) = p
        \/ ReviewLoaded(p, f, r, w) = e
        \/ ReviewLoaded(p, f, r, w) = q /\ Same(f, r)
    BY DEF ReviewLoaded
  <2>2. PanelInv(e, w)
    <3>1. /\ IsPanel(e) /\ e.kind = p.kind /\ e.flights = p.flights /\ ~e.armed
          /\ e.result = Failure("offline")
      BY <1>1 DEF IsPanel
    <3> HIDE DEF e
    <3>2. QED
      BY <1>2, <1>3, <3>1
  <2>3. ASSUME Same(f, r) PROVE PanelInv(q, w)
    <3>1. /\ IsPanel(q) /\ q.kind = p.kind /\ q.flights = p.flights /\ ~q.armed
          /\ q.result = r /\ q.key = p.key
      BY <1>1 DEF IsPanel
    <3> HIDE DEF q
    <3>2. p.key[1] = f.symbol /\ p.key[2] = f.generation
      BY <1>17 DEF Asked, Reset
    <3>3. Holds(q, w, r)
      BY <1>17, <2>3, <3>1, <3>2 DEF Holds, Reset, Same
    <3>4. QED
      BY <1>3, <3>1, <3>3
  <2>4. QED
    BY <2>1, <2>2, <2>3
<1>18. ASSUME p.kind = "lines" PROVE PanelInv(LinesReceived(p, f, r), w)
  <2> DEFINE q == [p EXCEPT !.result = r, !.asked = f.clock]
             s == LinesStop(p)
             e == [s EXCEPT !.result = r]
  <2>1. \/ LinesReceived(p, f, r) = p
        \/ LinesReceived(p, f, r) = e /\ r.status = "offline"
        \/ LinesReceived(p, f, r) = q
    BY DEF LinesReceived
  <2>2. ASSUME r.status = "offline" PROVE PanelInv(e, w)
    <3>1. Cleared(s, p)
      BY <1>1, <1>18, Resets
    <3> HIDE DEF s
    <3>2. Cleared(e, p)
      BY <2>2, <3>1 DEF Cleared, IsPanel, FlightsTyped, Pending
    <3>3. QED
      BY <3>2, ClearedInv
  <2>3. PanelInv(q, w)
    <3>1. /\ IsPanel(q) /\ q.kind = p.kind /\ q.flights = p.flights /\ ~q.armed
          /\ q.result = r /\ q.key = p.key
      BY <1>1 DEF IsPanel
    <3> HIDE DEF q
    <3>2. p.key = <<f.symbol, f.generation>>
      BY <1>18 DEF Asked, Reset
    <3>3. r.status = "ready" => Holds(q, w, r)
      BY <1>18, <3>1, <3>2 DEF Holds, Reset, Replies
    <3>4. QED
      BY <1>3, <3>1, <3>3
  <2>4. QED
    BY <2>1, <2>2, <2>3
<1>19. QED
  BY <1>7, <1>8, <1>9, <1>10, <1>11, <1>12, <1>13, <1>14, <1>15, <1>16, <1>17, <1>18

-----------------------------------------------------------------------------
(* The steps.                                                                *)

\* A frame keeps the invariant, whatever the kind.
LEMMA FrameStep ==
  ASSUME IInv, Frame
  PROVE  IInv'
<1>1. PanelInv(panel, seen) /\ seen.generation \in Nat
  BY DEF IInv, WorldInv
<1>2. UNCHANGED <<server, seen>>
  BY DEF Frame
<1>3. panel.kind \in AllKinds
  BY <1>1 DEF PanelInv, IsPanel
<1>4. PanelInv(panel', seen)
  <2>1. CASE panel.kind = "gex"
    BY <1>1, <2>1, GexFrame DEF Frame
  <2>2. CASE panel.kind = "overlay"
    BY <1>1, <2>2, OverlayFrame DEF Frame
  <2>3. CASE panel.kind = "rvol"
    BY <1>1, <2>3, RvolFrame DEF Frame
  <2>4. CASE panel.kind = "forecast"
    BY <1>1, <2>4, ForecastFrame DEF Frame
  <2>5. CASE panel.kind = "flow"
    BY <1>1, <2>5, FlowFrame DEF Frame
  <2>6. CASE panel.kind = "adr"
    BY <1>1, <2>6, AdrFrame DEF Frame
  <2>7. CASE panel.kind = "volatility"
    BY <1>1, <2>7, VolatilityFrame DEF Frame
  <2>8. CASE panel.kind = "chartHistory"
    <3>1. panel' = IF panel.armed /\ panel.wait = 0 THEN HistoryLoad(panel, seen)
                   ELSE IF seen.on THEN HistoryEnsure(panel, <<seen.symbol, seen.generation>>)
                   ELSE panel
      BY <2>8 DEF Frame
    <3>2. CASE panel.armed /\ panel.wait = 0
      BY <1>1, <2>8, <3>1, <3>2, HistoryLoads
    <3>3. CASE ~(panel.armed /\ panel.wait = 0) /\ seen.on
      BY <1>1, <2>8, <3>1, <3>3, HistoryEnsures
    <3>4. CASE ~(panel.armed /\ panel.wait = 0) /\ ~seen.on
      BY <1>1, <3>1, <3>4
    <3>5. QED
      BY <3>2, <3>3, <3>4
  <2>9. CASE panel.kind = "dayMap"
    BY <1>1, <2>9, MapFrame DEF Frame
  <2>10. CASE panel.kind = "daily"
    BY <1>1, <2>10, DailyFrame DEF Frame
  <2>11. CASE panel.kind = "warmup"
    BY <1>1, <2>11, WarmupFrame DEF Frame
  <2>12. CASE panel.kind = "review"
    BY <1>1, <2>12, ReviewFrame DEF Frame
  <2>13. CASE panel.kind = "lines"
    BY <1>1, <2>13, LinesFrame DEF Frame
  <2>14. QED
    BY <1>3, <2>1, <2>2, <2>3, <2>4, <2>5, <2>6, <2>7, <2>8, <2>9, <2>10, <2>11, <2>12, <2>13
       DEF AllKinds
<1>5. QED
  BY <1>2, <1>4 DEF IInv, WorldInv

\* An answer, to a request that is still wanted or to one that was dropped.
LEMMA ReceivedKeeps ==
  ASSUME PanelInv(panel, seen), seen.generation \in Nat, NEW f \in panel.flights, NEW r,
         Replies(panel, seen, f, r)
  PROVE  PanelInv(Received(panel, f, r), seen)
<1> DEFINE q == [panel EXCEPT !.flights = @ \ {f}]
<1>1. /\ PanelInv(q, seen) /\ IsFlight(f) /\ q.kind = panel.kind
      /\ f.live => ~Pending(q) /\ ~q.armed /\ Asked(q, seen, f)
                   /\ (seen.on \/ q.kind \notin Studies \cup {"lines"})
  BY TakenOut
<1>2. CASE ~f.live
  <2>1. Received(panel, f, r) = q
    BY <1>2 DEF Received
  <2>2. QED
    BY <1>1, <2>1
<1>3. CASE f.live
  <2>1. Replies(q, seen, f, r)
    BY <1>1 DEF Replies
  <2>2. q.kind \in AllKinds
    BY <1>1 DEF PanelInv, IsPanel
  <2>3. Received(panel, f, r) =
          CASE panel.kind \in {"gex", "flow"} -> GexReply(q, f, r)
            [] panel.kind = "overlay" -> OverlayLoaded(q, f, r)
            [] panel.kind = "rvol" -> RvolLoaded(q, f, r)
            [] panel.kind = "forecast" -> ForecastReply(q, f, r, seen)
            [] panel.kind = "adr" -> AdrReply(q, f, r)
            [] panel.kind = "volatility" -> VolatilityReply(q, f, r, seen)
            [] panel.kind = "chartHistory" -> HistoryLoaded(q, f, r)
            [] panel.kind = "dayMap" -> MapLoaded(q, f, r)
            [] panel.kind = "daily" -> DailyLoaded(q, f, r, seen)
            [] panel.kind = "warmup" -> WarmupLoaded(q, f, r, seen)
            [] panel.kind = "review" -> ReviewLoaded(q, f, r, seen)
            [] panel.kind = "lines" -> LinesReceived(q, f, r)
    BY <1>3 DEF Received
  <2> HIDE DEF q
  <2>4. /\ q.kind \in {"gex", "flow"} => PanelInv(GexReply(q, f, r), seen)
        /\ q.kind = "overlay" => PanelInv(OverlayLoaded(q, f, r), seen)
        /\ q.kind = "rvol" => PanelInv(RvolLoaded(q, f, r), seen)
        /\ q.kind = "forecast" => PanelInv(ForecastReply(q, f, r, seen), seen)
        /\ q.kind = "adr" => PanelInv(AdrReply(q, f, r), seen)
        /\ q.kind = "volatility" => PanelInv(VolatilityReply(q, f, r, seen), seen)
        /\ q.kind = "chartHistory" => PanelInv(HistoryLoaded(q, f, r), seen)
        /\ q.kind = "dayMap" => PanelInv(MapLoaded(q, f, r), seen)
        /\ q.kind = "daily" => PanelInv(DailyLoaded(q, f, r, seen), seen)
        /\ q.kind = "warmup" => PanelInv(WarmupLoaded(q, f, r, seen), seen)
        /\ q.kind = "review" => PanelInv(ReviewLoaded(q, f, r, seen), seen)
        /\ q.kind = "lines" => PanelInv(LinesReceived(q, f, r), seen)
    BY <1>1, <1>3, <2>1, AnswerKeeps
  <2>5. QED
    BY <1>1, <2>2, <2>3, <2>4 DEF AllKinds
<1>4. QED
  BY <1>2, <1>3

\* An answer or a failure keeps the invariant.
LEMMA AnswerStep ==
  ASSUME IInv, Answer \/ Fail
  PROVE  IInv'
<1>1. PanelInv(panel, seen) /\ seen.generation \in Nat
  BY DEF IInv, WorldInv
<1>2. UNCHANGED <<server, seen>>
  BY DEF Answer, Fail
<1>3. CASE Answer
  <2>1. PICK f \in panel.flights : panel' = Received(panel, f, ServerReply(f))
    BY <1>3 DEF Answer
  <2>2. f.generation \in Nat
    BY <1>1 DEF PanelInv, FlightsTyped, IsFlight
  <2>3. /\ ServerReply(f).symbol = f.symbol
        /\ panel.kind = "lines" => ServerReply(f).generation = f.generation
        /\ panel.kind # "lines" => ServerReply(f).generation = server.generation
    BY DEF ServerReply
  <2>4. Replies(panel, seen, f, ServerReply(f))
    BY <2>2, <2>3 DEF Replies, IInv, WorldInv
  <2>5. PanelInv(panel', seen)
    BY <1>1, <2>1, <2>4, ReceivedKeeps
  <2>6. QED
    BY <1>2, <2>5 DEF IInv, WorldInv
<1>4. CASE Fail
  <2>1. PICK f \in panel.flights : panel' = Received(panel, f, Failure("offline"))
    BY <1>4 DEF Fail
  <2>2. Replies(panel, seen, f, Failure("offline"))
    BY FailureIsNotReady DEF Replies
  <2>3. PanelInv(panel', seen)
    BY <1>1, <2>1, <2>2, ReceivedKeeps
  <2>4. QED
    BY <1>2, <2>3 DEF IInv, WorldInv
<1>5. QED
  BY <1>3, <1>4

\* Waiting keeps the invariant.
LEMMA TickStep ==
  ASSUME IInv, Tick
  PROVE  IInv'
<1>1. PanelInv(panel, seen) /\ IsPanel(panel)
  BY DEF IInv, PanelInv
<1>2. panel' = [panel EXCEPT !.wait = @ - 1] /\ UNCHANGED <<server, seen>>
  BY DEF Tick
<1>3. Moved(panel', panel)
  BY <1>1, <1>2 DEF Moved, IsPanel
<1>4. PanelInv(panel', seen)
  BY <1>1, <1>3, MovedInv
<1>5. QED
  BY <1>2, <1>4 DEF IInv, WorldInv

\* What the server does the part has not heard of.
LEMMA ServerStep ==
  ASSUME IInv, ServerSwitches \/ ServerSeeks \/ ServerPauses \/ TimePasses
  PROVE  IInv'
<1>1. UNCHANGED <<seen, panel>>
  BY DEF ServerSwitches, ServerSeeks, ServerPauses, TimePasses
<1>2. PanelInv(panel', seen')
  BY <1>1 DEF IInv
<1>3. DOMAIN server = {"symbol", "generation", "clock", "paused", "denied"}
  BY DEF IInv, WorldInv
<1>4. \/ server'.generation = server.generation + 1
      \/ server'.generation = server.generation /\ server'.symbol = server.symbol
  BY <1>3 DEF ServerSwitches, ServerSeeks, ServerPauses, TimePasses
<1>5. DOMAIN server' = DOMAIN server
  BY <1>3 DEF ServerSwitches, ServerSeeks, ServerPauses, TimePasses
<1>6. WorldInv'
  BY <1>1, <1>3, <1>4, <1>5 DEF IInv, WorldInv
<1>7. QED
  BY <1>2, <1>6 DEF IInv

\* A snapshot keeps the invariant.
LEMMA SnapshotStep ==
  ASSUME IInv, HearsSnapshot \/ SocketReopens
  PROVE  IInv'
<1>1. Snapshot
  BY DEF HearsSnapshot, SocketReopens
<1>2. /\ DOMAIN seen = {"symbol", "generation", "clock", "paused", "replay", "connected", "epoch", "on"}
      /\ server.generation \in Nat
  BY DEF IInv, WorldInv
<1>3. /\ seen' = [seen EXCEPT !.symbol = server.symbol, !.generation = server.generation,
                              !.clock = server.clock]
      /\ panel' = OnSnapshot(panel, seen', seen.symbol # server.symbol)
      /\ server' = server
  BY <1>1 DEF Snapshot
<1>4. /\ seen'.symbol = server.symbol /\ seen'.generation = server.generation
      /\ seen'.on = seen.on /\ DOMAIN seen' = DOMAIN seen
  BY <1>2, <1>3
<1> DEFINE changed == seen.symbol # server.symbol
<1>5. changed \in BOOLEAN /\ changed = (seen.symbol # seen'.symbol)
  BY <1>4
<1>6. PanelInv(panel, seen)
  BY DEF IInv
<1> HIDE DEF changed
<1>7. \A x : x.generation \in Nat /\ x.on = seen.on /\ changed = (seen.symbol # x.symbol)
               => PanelInv(OnSnapshot(panel, x, changed), x)
  BY <1>5, <1>6, SnapshotKeeps
<1>8. PanelInv(OnSnapshot(panel, seen', changed), seen')
  BY <1>2, <1>4, <1>5, <1>7
<1>9. panel' = OnSnapshot(panel, seen', changed)
  BY <1>3 DEF changed
<1>10. PanelInv(panel', seen')
  BY <1>8, <1>9
<1>11. WorldInv'
  BY <1>3, <1>4 DEF IInv, WorldInv
<1>12. QED
  BY <1>10, <1>11 DEF IInv

\* A status keeps the invariant.
LEMMA StatusStep ==
  ASSUME IInv, HearsStatus \/ Disconnects \/ Reconnects
  PROVE  IInv'
<1>1. /\ DOMAIN seen = {"symbol", "generation", "clock", "paused", "replay", "connected", "epoch", "on"}
      /\ seen.generation \in Nat /\ PanelInv(panel, seen)
  BY DEF IInv, WorldInv
<1>2. /\ seen'.symbol = seen.symbol /\ seen'.generation = seen.generation
      /\ seen'.on = seen.on /\ DOMAIN seen' = DOMAIN seen
      /\ server' = server
  BY <1>1 DEF HearsStatus, Disconnects, Reconnects
<1>3. \/ panel' = panel
      \/ panel' = OnStatus(panel, seen', FALSE)
      \/ panel' = OnStatus(panel, seen', TRUE)
  BY DEF HearsStatus, Disconnects, Reconnects
<1>4. \A x : x.symbol = seen.symbol /\ x.generation = seen.generation /\ x.on = seen.on
               => PanelInv(panel, x)
  BY <1>1, SameTape
<1>5. \A x : x.symbol = seen.symbol /\ x.generation = seen.generation /\ x.on = seen.on
               => /\ PanelInv(OnStatus(panel, x, FALSE), x)
                  /\ PanelInv(OnStatus(panel, x, TRUE), x)
  BY <1>1, <1>4, StatusKeeps
<1>6. PanelInv(panel', seen')
  BY <1>2, <1>3, <1>4, <1>5
<1>7. WorldInv'
  BY <1>2 DEF IInv, WorldInv
<1>8. QED
  BY <1>6, <1>7 DEF IInv

\* Hiding and showing the page keep the invariant.
LEMMA PageStep ==
  ASSUME IInv, Hides \/ Shows
  PROVE  IInv'
<1>1. /\ DOMAIN seen = {"symbol", "generation", "clock", "paused", "replay", "connected", "epoch", "on"}
      /\ seen.generation \in Nat /\ PanelInv(panel, seen)
  BY DEF IInv, WorldInv
<1>2. /\ seen'.symbol = seen.symbol /\ seen'.generation = seen.generation
      /\ DOMAIN seen' = DOMAIN seen /\ server' = server
  BY <1>1 DEF Hides, Shows
<1>3. PanelInv(panel', seen')
  <2>1. CASE Hides
    <3>1. \A x : x.symbol = seen.symbol /\ x.generation = seen.generation
                   => PanelInv(OnHidden(panel), x)
      BY <1>1, HiddenKeeps
    <3>2. panel' = OnHidden(panel)
      BY <2>1 DEF Hides
    <3>3. QED
      BY <1>2, <3>1, <3>2
  <2>2. CASE Shows
    <3>1. panel' = panel /\ seen'.on
      BY <1>1, <2>2 DEF Shows
    <3>2. \A x, f : x.symbol = seen.symbol /\ x.generation = seen.generation
                      => (Asked(panel, seen, f) => Asked(panel, x, f))
      BY DEF Asked
    <3>3. \A x, r : x.symbol = seen.symbol /\ x.generation = seen.generation
                      => (Holds(panel, seen, r) => Holds(panel, x, r))
      BY DEF Holds
    <3>4. \A x : /\ x.symbol = seen.symbol /\ x.generation = seen.generation /\ x.on
                 => PanelInv(panel, x)
      BY <1>1, <3>2, <3>3 DEF PanelInv, HiddenIsIdle, AskedForThis, ShowsThis
    <3>5. QED
      BY <1>2, <3>1, <3>4
  <2>3. QED
    BY <2>1, <2>2
<1>4. WorldInv'
  BY <1>2 DEF IInv, WorldInv
<1>5. QED
  BY <1>3, <1>4 DEF IInv

\* Remounting a panel and refreshing the dialog keep the invariant.
LEMMA TraderStep ==
  ASSUME IInv, Swaps \/ Refreshes
  PROVE  IInv'
<1>1. /\ PanelInv(panel, seen) /\ IsPanel(panel) /\ FlightsTyped(panel)
      /\ seen.generation \in Nat
  BY DEF IInv, WorldInv, PanelInv
<1>2. UNCHANGED <<server, seen>>
  BY DEF Swaps, Refreshes
<1>3. PanelInv(panel', seen)
  <2>1. CASE Swaps
    BY <1>1, <2>1, MountedInv DEF Swaps
  <2>2. CASE Refreshes
    BY <1>1, <2>2, ReviewRefreshes DEF Refreshes
  <2>3. QED
    BY <2>1, <2>2
<1>4. QED
  BY <1>2, <1>3 DEF IInv, WorldInv

\* The initial states satisfy the invariant.
LEMMA InitIsRight ==
  ASSUME Kinds \subseteq AllKinds, Init
  PROVE  IInv
<1>1. PICK kind \in Kinds, symbol \in Symbols, replay \in BOOLEAN, denied \in BOOLEAN :
        /\ server = [symbol |-> symbol, generation |-> 1, clock |-> 0, paused |-> FALSE,
                     denied |-> denied]
        /\ seen = [symbol |-> symbol, generation |-> 1, clock |-> 0, paused |-> FALSE,
                   replay |-> replay, connected |-> TRUE, epoch |-> 0, on |-> TRUE]
        /\ panel = Mounted(Fresh(kind), seen)
  BY DEF Init
<1>2. IsPanel(Fresh(kind)) /\ FlightsTyped(Fresh(kind))
  BY DEF Fresh, IsPanel, FlightsTyped
<1>3. WorldInv
  BY <1>1 DEF WorldInv
<1>4. PanelInv(panel, seen)
  BY <1>1, <1>2, <1>3, MountedInv DEF WorldInv
<1>5. QED
  BY <1>3, <1>4 DEF IInv

\* Every step keeps the invariant.
LEMMA IInvIsInductive ==
  ASSUME IInv, [Next]_vars
  PROVE  IInv'
<1>1. CASE Next
  BY <1>1, FrameStep, AnswerStep, TickStep, ServerStep, SnapshotStep, StatusStep, PageStep, TraderStep
     DEF Next
<1>2. CASE UNCHANGED vars
  BY <1>2 DEF vars, IInv, WorldInv
<1>3. QED
  BY <1>1, <1>2

-----------------------------------------------------------------------------
(* What follows.                                                             *)

\* What is shown was asked for on this stock and this timeline.
LEMMA IInvShows == IInv => ShownIsCurrent
<1> SUFFICES ASSUME IInv, seen.on, Usable(panel, seen)
             PROVE  /\ panel.result.symbol = seen.symbol
                    /\ panel.kind \notin {"daily", "dayMap"}
                         => panel.result.generation >= seen.generation
                    /\ panel.kind \in Draws => panel.result.generation = seen.generation
  BY DEF ShownIsCurrent
<1> DEFINE r == panel.result
<1>1. PanelInv(panel, seen) /\ panel.kind \in AllKinds /\ seen.generation \in Nat
  BY DEF IInv, WorldInv, PanelInv, IsPanel
<1>2. r.status = "ready" => Holds(panel, seen, r)
  BY <1>1 DEF PanelInv, ShowsThis
<1> HIDE DEF r
<1>3. CASE panel.kind \in {"gex", "overlay"}
  <2>1. GexView(r, seen)
    BY <1>3 DEF Usable, r
  <2>2. QED
    BY <1>1, <1>3, <2>1 DEF GexView, r
<1>4. CASE panel.kind \in Reset
  <2>1. r.status = "ready"
    BY <1>4 DEF Usable, Reset, r
  <2>2. Holds(panel, seen, r)
    BY <1>2, <2>1
  <2>3. QED
    BY <1>4, <2>2 DEF Holds, Reset, r
<1>5. CASE panel.kind = "lines"
  <2>1. r.status = "ready" /\ panel.key = <<seen.symbol, seen.generation>>
    BY <1>5 DEF Usable, r
  <2>2. panel.key = <<r.symbol, r.generation>>
    BY <1>2, <1>5, <2>1 DEF Holds, Reset
  <2>3. r.symbol = seen.symbol /\ r.generation = seen.generation
    BY <2>1, <2>2
  <2>4. QED
    BY <1>1, <2>3 DEF r
<1>6. CASE panel.kind = "review"
  <2>1. r.status = "ready" /\ panel.key = ReviewIdentity(seen)
    BY <1>6 DEF Usable, r
  <2>2. panel.key[1] = r.symbol /\ panel.key[2] = r.generation
    BY <1>2, <1>6, <2>1 DEF Holds, Reset
  <2>3. r.symbol = seen.symbol /\ r.generation = seen.generation
    BY <2>1, <2>2 DEF ReviewIdentity
  <2>4. QED
    BY <1>1, <2>3 DEF r
<1>7. CASE panel.kind \in {"daily", "dayMap"}
  <2>1. r.status = "ready"
    BY <1>7 DEF Usable, r
  <2>2. r.symbol = seen.symbol
    BY <1>2, <1>7, <2>1 DEF Holds, Reset
  <2>3. QED
    BY <1>7, <2>2 DEF Draws, r
<1>8. QED
  BY <1>1, <1>3, <1>4, <1>5, <1>6, <1>7 DEF AllKinds, Reset

\* One request at a time, and of a hidden study none.
LEMMA IInvAsksOnce == IInv => OneRequest
<1> SUFFICES ASSUME IInv
             PROVE  OneRequest
  OBVIOUS
<1> DEFINE L == {f \in panel.flights : f.live}
<1>1. \A f, g \in L : f = g
  BY DEF IInv, PanelInv, OneLive
<1>2. Cardinality(L) <= 1
  <2>1. CASE L = {}
    BY <2>1, FS_EmptySet
  <2>2. CASE L # {}
    <3>1. PICK f : f \in L
      BY <2>2
    <3>2. L = {f}
      BY <1>1, <3>1
    <3>3. Cardinality({f}) = 1
      BY FS_Singleton
    <3>4. QED
      BY <3>2, <3>3
  <2>3. QED
    BY <2>1, <2>2
<1>3. ~seen.on /\ panel.kind \in Studies \cup {"lines"} => ~Pending(panel)
  BY DEF IInv, PanelInv, HiddenIsIdle
<1>4. QED
  BY <1>2, <1>3 DEF OneRequest

\* panel-host.js and the tokens of every part: whatever order requests, answers, switches,
\* seeks, lost connections and remounts come in, what is drawn is of the stock and the
\* timeline on the screen, and a part has at most one request under way.
THEOREM PanelsStayCurrent ==
  ASSUME Kinds \subseteq AllKinds
  PROVE  Spec => [](ShownIsCurrent /\ OneRequest)
<1>1. Init => IInv
  BY InitIsRight
<1>2. IInv /\ [Next]_vars => IInv'
  BY IInvIsInductive
<1>3. IInv => ShownIsCurrent /\ OneRequest
  BY IInvShows, IInvAsksOnce
<1>4. QED
  BY <1>1, <1>2, <1>3, PTL DEF Spec
=============================================================================
