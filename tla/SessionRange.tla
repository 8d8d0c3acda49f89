---------------------------- MODULE SessionRange ----------------------------
(***************************************************************************)
(* The panel of the session's range against its average (adr-rth-extension *)
(* -panel.js and -model.js): it asks the server for the range so far and    *)
(* folds the prints of the stream into it, while the replay plays, pauses   *)
(* and seeks under it and its requests come back late, fail or are         *)
(* superseded.                                                             *)
(*                                                                         *)
(* The server computes its answer with the same fold over what it has       *)
(* recorded (EligibleSessionTradeStats), through the instant asked for and  *)
(* never past its own position.  Time is a number; a day has DayLength of   *)
(* them and is open from Opens until Closes.  A print has its receipt time  *)
(* r, its market time m, a price p and the set f of what it may update.     *)
(***************************************************************************)
EXTENDS Integers, Sequences, FiniteSets, SequencesExt, FiniteSetsExt

CONSTANTS
  Prints,       \* the recording, in order of receipt
  DayLength, Opens, Closes,
  Lookback,     \* sessions of the average, 5 to 60 in the program
  History,      \* ranges (in tenths of a percent) of the completed sessions known
  MaxPending,   \* 8192 in the program
  RetryAfter,   \* 5 s
  MaxTime,      \* bound: the end of the replay
  Ahead,        \* bound: how far the page's clock runs ahead of the server's
  MaxSeeks, MaxLoads, MaxPauses  \* bounds

VARIABLES
  position,     \* the server's clock
  stopped,      \* the server's replay is paused
  run,          \* seeks so far
  wire,         \* messages to the page
  heard,        \* the run the page knows
  delivered,    \* prints handed to the panel, counted from the first
  paused,       \* the page knows the replay is paused
  clock,        \* the page's clock, serverNowUS
  panel,
  requests,     \* asked of the server and not settled
  loads, pauses

vars == <<position, stopped, run, wire, heard, delivered, paused, clock, panel, requests, loads, pauses>>

-----------------------------------------------------------------------------
(* The model of the range *)

DayOf(t) == t \div DayLength
TimeOfDay(t) == t % DayLength

\* classifyRTH
Phase(t) == IF TimeOfDay(t) < Opens THEN "before-open"
            ELSE IF TimeOfDay(t) >= Closes THEN "closed" ELSE "open"

\* applyEligibleTrades, one print: 0 stands for a price not known.
Applied(range, print) ==
  LET oc == "oc" \in print.f
      hl == "hl" \in print.f
      latest == oc /\ print.m >= range.lastAt
  IN [range EXCEPT
        !.status = "ready",
        !.open = IF @ = 0 /\ oc THEN print.p ELSE @,
        !.last = IF latest THEN print.p ELSE @,
        !.lastAt = IF latest THEN print.m ELSE @,
        !.high = IF hl /\ (@ = 0 \/ print.p > @) THEN print.p ELSE @,
        !.low = IF hl /\ (@ = 0 \/ print.p < @) THEN print.p ELSE @]

Eligible(print, day) ==
  DayOf(print.m) = day /\ Phase(print.m) = "open" /\ print.p > 0 /\ print.f # {}

Extended(range, prints, day) ==
  IF range.day # day \/ ~range.complete THEN range
  ELSE FoldLeft(LAMBDA sofar, print: IF Eligible(print, day) THEN Applied(sofar, print) ELSE sofar,
                range, prints)

NoRange(status, day, complete) ==
  [status |-> status, day |-> day, complete |-> complete,
   open |-> 0, high |-> 0, low |-> 0, last |-> 0, lastAt |-> 0]

\* handlePanelRTHContext in a replay whose prints are all recorded.
Through(asked) == Min({asked, position})
Served(request) ==
  LET through == Through(request.through)
      day == DayOf(position)
      recorded == SelectSeq(Prints, LAMBDA print: print.r <= through /\ print.m <= through)
      range == Extended(NoRange("building", day, TRUE), recorded, day)
  IN IF through < day * DayLength + Opens THEN NoRange("before-open", day, FALSE)
     ELSE [range EXCEPT !.status =
             IF @ = "ready" /\ through >= day * DayLength + Closes THEN "closed" ELSE @]

\* seedRTHContext: the answer must be of the session asked about.
Seeded(answer, day) ==
  IF answer.day # day THEN NoRange("stale", day, FALSE)
  ELSE IF answer.status = "before-open" THEN answer
  ELSE IF 0 \in {answer.open, answer.high, answer.low, answer.last} THEN NoRange("building", day, TRUE)
  ELSE answer

\* calculateADR: the average of the last Lookback valid sessions, if that many.
Average(day) ==
  LET before == SelectSeq(History, LAMBDA session: session.day < day /\ session.range >= 0)
      used == SubSeq(before, Max({1, Len(before) - Lookback + 1}), Len(before))
      total == FoldLeft(LAMBDA sum, session: sum + session.range, 0, used)
  IN IF Len(used) # Lookback THEN "insufficient"
     ELSE IF total = 0 THEN "unavailable" ELSE "ready"

\* calculateExtension of mode auto measures from the low of a session that is
\* up and from the high of one that is down; extensionTone names the result.
Tones == {"neutral", "bullish", "bearish"}
Tone(range) ==
  IF range.last >= range.open
  THEN IF range.last > range.low THEN "bullish" ELSE "neutral"
  ELSE IF range.high > range.last THEN "bearish" ELSE "neutral"

-----------------------------------------------------------------------------
(* The panel *)

Unloaded == [clock |-> 0, average |-> "none", range |-> NoRange("none", -1, FALSE), day |-> -1,
             phase |-> "none", loading |-> FALSE, pending |-> <<>>, overflow |-> FALSE,
             token |-> 0, loadedAt |-> 0, retryAt |-> 0, shown |-> "LOADING"]

Init ==
  /\ position = 0 /\ stopped = FALSE /\ run = 0
  /\ wire = <<[kind |-> "snapshot", run |-> 0, clock |-> 0, first |-> 1, last |-> 0, stop |-> FALSE]>>
  /\ heard = -1 /\ delivered = 0 /\ paused = FALSE /\ clock = 0
  /\ panel = Unloaded
  /\ requests = {}
  /\ loads = 0 /\ pauses = 0

HasContext(p) == p.range.status # "none"

\* load: what is known is dropped, except an average of the same session; the
\* session and the clock it asks with are those of now.
Loading(p) ==
  [p EXCEPT !.average = IF p.day = DayOf(p.clock) /\ @ = "ready" THEN @ ELSE "none",
            !.range = NoRange("none", -1, FALSE), !.day = DayOf(p.clock), !.phase = Phase(p.clock),
            !.loading = TRUE, !.pending = <<>>, !.overflow = FALSE, !.token = @ + 1,
            !.loadedAt = p.clock, !.retryAt = p.clock + RetryAfter, !.shown = "LOADING"]

\* What render shows when it asks for nothing.
Shown(p) ==
  IF Phase(p.clock) = "before-open" THEN "WAITING"
  ELSE IF p.average # "ready" THEN "NO AVERAGE"
  ELSE IF p.range.status \in {"none", "building"} THEN "BUILDING"
  ELSE IF p.range.status \in {"ready", "closed"} THEN Tone(p.range)
  ELSE "UNAVAILABLE"

\* render: another session, the opening, or a failure old enough asks again.
OtherSession(p) == p.day # -1 /\ DayOf(p.clock) # p.day
AsksAgain(p) ==
  \/ OtherSession(p)
  \/ ~p.loading /\ Phase(p.clock) = "open" /\
       (p.phase = "before-open" \/ (p.range.status = "building" /\ p.clock - p.loadedAt >= RetryAfter))
  \/ ~p.loading /\ ~paused' /\ p.clock >= p.retryAt /\
       (p.average \in {"unavailable", "insufficient"} \/ p.range.status \in {"unavailable", "stale"})

\* The panel after load, with the request it sends.
Loads(p) ==
  LET loaded == Loading(p)
  IN /\ loads < MaxLoads
     /\ loads' = loads + 1
     /\ panel' = loaded
     /\ requests' = requests \cup {[token |-> loaded.token, day |-> loaded.day, through |-> p.clock]}

Renders(p) ==
  IF AsksAgain(p) THEN Loads(p)
  ELSE /\ panel' = [p EXCEPT !.shown = Shown(p)]
       /\ UNCHANGED <<requests, loads>>

\* Mutant of Kept: what does not fit is forgotten without asking again.
Kept_Forgets(p, prints) ==
  IF Len(p.pending) + Len(prints) <= MaxPending THEN [p EXCEPT !.pending = @ \o prints] ELSE p

\* Prints that come while the range is being asked for are kept for it.
Kept(p, prints) ==
  IF Len(p.pending) + Len(prints) <= MaxPending THEN [p EXCEPT !.pending = @ \o prints]
  ELSE [p EXCEPT !.overflow = TRUE]

\* onEvent tradeBatch.  observeReceiptClock has set the page's clock to the
\* last receipt; a paused replay's panel does not follow it.
Hears(message) ==
  LET prints == SubSeq(Prints, message.first, message.last)
      now == IF paused THEN panel.clock ELSE message.clock
      at == [panel EXCEPT !.clock = now]
      taken == IF HasContext(at)
               THEN [at EXCEPT !.range = Extended(@, prints, DayOf(now))] ELSE Kept(at, prints)
  IN /\ message.kind = "trades"
     /\ wire' = Tail(wire)
     /\ clock' = message.clock
     /\ delivered' = message.last
     /\ UNCHANGED <<heard, paused>>
     /\ Renders(taken)

\* onEvent modeChanged, with the exact position of the status
HearsStatus(message) ==
  /\ message.kind = "status"
  /\ wire' = Tail(wire)
  /\ clock' = message.clock
  /\ paused' = message.stop
  /\ UNCHANGED <<heard, delivered>>
  /\ Renders([panel EXCEPT !.clock = message.clock])

\* onEvent snapshot
HearsSnapshot(message) ==
  /\ message.kind = "snapshot"
  /\ wire' = Tail(wire)
  /\ clock' = message.clock
  /\ heard' = message.run
  /\ delivered' = message.last
  /\ paused' = message.stop
  /\ Loads([panel EXCEPT !.clock = message.clock])

Receives ==
  /\ wire # <<>>
  /\ Hears(Head(wire)) \/ HearsStatus(Head(wire)) \/ HearsSnapshot(Head(wire))
  /\ UNCHANGED <<position, stopped, run, pauses>>

\* A frame: the panel's clock is the page's, which runs on by itself.
Frame(passed) ==
  /\ heard >= 0
  /\ IF paused THEN passed = 0 ELSE clock + passed <= Min({position + Ahead, MaxTime})
  /\ clock' = clock + passed
  /\ paused' = paused
  /\ Renders(IF paused THEN panel ELSE [panel EXCEPT !.clock = clock'])
  /\ UNCHANGED <<position, stopped, run, wire, heard, delivered, pauses>>

\* load: both answers are in (Promise.allSettled).  What was kept is folded in;
\* if it did not fit, everything is asked again with the clock of now.
Answered(request, ok, history) ==
  LET seed == IF ok THEN Seeded(Served(request), request.day) ELSE NoRange("unavailable", request.day, FALSE)
      average == IF panel.average # "none" THEN panel.average
                 ELSE IF history THEN Average(request.day) ELSE "unavailable"
      got == [panel EXCEPT !.average = average, !.range = Extended(seed, panel.pending, request.day),
                           !.pending = <<>>]
  IN /\ paused' = paused
     /\ IF request.token # panel.token
        THEN requests' = requests \ {request} /\ UNCHANGED <<panel, loads>>
        ELSE IF panel.overflow
        THEN /\ loads < MaxLoads /\ loads' = loads + 1
             /\ panel' = Loading([got EXCEPT !.clock = clock])
             /\ requests' = (requests \ {request}) \cup
                  {[token |-> panel'.token, day |-> panel'.day, through |-> clock]}
        ELSE LET settled == [got EXCEPT !.loading = FALSE, !.retryAt = panel.clock + RetryAfter]
             IN IF AsksAgain(settled)
                THEN /\ loads < MaxLoads /\ loads' = loads + 1
                     /\ panel' = Loading(settled)
                     /\ requests' = (requests \ {request}) \cup
                          {[token |-> panel'.token, day |-> panel'.day, through |-> settled.clock]}
                ELSE /\ panel' = [settled EXCEPT !.shown = Shown(settled)]
                     /\ requests' = requests \ {request}
                     /\ UNCHANGED loads
     /\ UNCHANGED <<position, stopped, run, wire, heard, delivered, clock, pauses>>

\* Another lookback asks again; the average of the old one is not kept.
ChangesLookback ==
  /\ heard >= 0
  /\ paused' = paused
  /\ Loads([panel EXCEPT !.average = "none"])
  /\ UNCHANGED <<position, stopped, run, wire, heard, delivered, clock, pauses>>

-----------------------------------------------------------------------------
(* The replay of the server *)

Sent(at) == Cardinality({i \in DOMAIN Prints : Prints[i].r <= at})

\* It plays on and sends the prints of that instant in one batch.
Plays ==
  /\ ~stopped /\ position < MaxTime
  /\ position' = position + 1
  /\ wire' = IF Sent(position') = Sent(position) THEN wire
             ELSE Append(wire, [kind |-> "trades", run |-> run, clock |-> position',
                                first |-> Sent(position) + 1, last |-> Sent(position'), stop |-> FALSE])
  /\ UNCHANGED <<stopped, run, heard, delivered, paused, clock, panel, requests, loads, pauses>>

PausesOrResumes ==
  /\ pauses < MaxPauses
  /\ pauses' = pauses + 1
  /\ stopped' = ~stopped
  /\ wire' = Append(wire, [kind |-> "status", run |-> run, clock |-> position,
                           first |-> 1, last |-> 0, stop |-> stopped'])
  /\ UNCHANGED <<position, run, heard, delivered, paused, clock, panel, requests, loads>>

Seeks(at) ==
  /\ run < MaxSeeks
  /\ run' = run + 1
  /\ position' = at
  /\ wire' = Append(wire, [kind |-> "snapshot", run |-> run', clock |-> at,
                           first |-> 1, last |-> Sent(at), stop |-> stopped])
  /\ UNCHANGED <<stopped, heard, delivered, paused, clock, panel, requests, loads, pauses>>

Next ==
  \/ Receives
  \/ \E passed \in 0..1 : Frame(passed)
  \/ \E request \in requests, ok, history \in BOOLEAN : Answered(request, ok, history)
  \/ ChangesLookback
  \/ Plays
  \/ PausesOrResumes
  \/ \E at \in {Opens, DayLength} : Seeks(at)

Spec == Init /\ [][Next]_vars

-----------------------------------------------------------------------------
(* Properties *)

\* The range on display is of the session of the panel's clock, and is exactly
\* that of the first n prints of the recording, for an n between the prints the
\* panel was handed and those the server has played: none is missed between the
\* answer and the stream, or taken from after a seek, though the two overlap.
\* (Its last price may be one of the overlap until the stream has passed it.)
RangeIsOfTheTape ==
  (panel.shown \in Tones /\ heard = run) =>
    /\ panel.range.day = DayOf(panel.clock)
    /\ \E n \in delivered..Max({delivered, Sent(position)}) :
         LET whole == Extended(NoRange("building", panel.day, TRUE), SubSeq(Prints, 1, n), panel.day)
         IN /\ panel.range.open = whole.open
            /\ panel.range.high = whole.high /\ panel.range.low = whole.low
            /\ delivered = Sent(position) => panel.range.last = whole.last /\ panel.shown = Tone(whole)
=============================================================================
