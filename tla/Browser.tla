------------------------------ MODULE Browser ------------------------------
(***************************************************************************)
(* The tape side of app.js: what handleMessage makes of snapshots and prints,   *)
(* the one-minute candles it shares with the answers of /api/replay, and the     *)
(* history of tickers.  The rewind buffer it feeds is in LiveRewind.             *)
(*                                                                         *)
(* The server is what the browser can see of it (TapeStore, TapeStream and      *)
(* Replay have the rest): a tape per symbol with its generation, a position in  *)
(* a recording, a socket that delivers in order, and requests whose answers     *)
(* arrive when they arrive.  Print n of a recording happens at time n, so a     *)
(* candle is given by how often it counts each print.                        *)
(***************************************************************************)
EXTENDS Integers, Sequences, FiniteSets

CONSTANTS Symbols, FirstSymbol, NoSymbol,
          Modes,           \* "replay" and "live"
          Length,          \* prints of a recording
          SnapshotTrades,  \* prints of a snapshot
          MaxNav,          \* 50 in pushNavigation
          MaxGeneration,   \* bound: generations of a tape
          MaxWire,         \* bound: messages under way
          MaxTickets,      \* bound: chart requests
          MaxUpsets        \* bound: commands of the operator and lost connections

ASSUME BrowserAssumption ==
  /\ FirstSymbol \in Symbols /\ NoSymbol \notin Symbols
  /\ Length \in Nat /\ SnapshotTrades \in Nat /\ MaxNav \in Nat \ {0}

VARIABLES mode,     \* of the session
          tapes,    \* the server's tape of every symbol
          active,   \* the server's active symbol
          playing,  \* the symbol whose recording the replay plays
          sent,     \* what this connection was last told
          wire,     \* messages under way to the browser
          up,       \* is the socket open
          state,    \* the browser's state
          ranges,   \* GET /api/replay requests
          posts,    \* POST /api/replay and /api/ticker requests
          drops, commands, failed, raced

server == <<mode, tapes, active, playing, sent, wire, up>>
history == <<drops, commands, failed, raced>>
vars == <<server, state, ranges, posts, history>>

Nothing == [symbol |-> NoSymbol, generation |-> 0, upTo |-> 0]
NoCandles == [p \in Symbols \X (1 .. Length) |-> 0]

Init ==
  /\ mode \in Modes
  /\ tapes = [s \in Symbols |-> [generation |-> 1, from |-> 0, position |-> 0]]
  /\ active = FirstSymbol /\ playing = FirstSymbol /\ sent = Nothing /\ wire = <<>> /\ up = TRUE
  /\ state = [symbol |-> NoSymbol, generation |-> 0, trades |-> <<>>, pendingReplayReset |-> FALSE,
              minuteBars |-> NoCandles, chartKey |-> NoSymbol, ticket |-> 0,
              nav |-> <<>>, navIndex |-> 0]
  /\ ranges = {} /\ posts = {} /\ drops = 0 /\ commands = 0 /\ failed = FALSE /\ raced = FALSE

-----------------------------------------------------------------------------
(* The server, as far as a browser can tell.                                *)

Tape == tapes[active]

\* Prints first+1 to last of a symbol's present run.
PrintsOf(s, first, last) ==
  [i \in 1 .. last - first |->
     [symbol |-> s, generation |-> tapes[s].generation, number |-> first + i]]

\* A print of the recording, or of the live market, reaches the active tape.
PrintsOne ==
  /\ mode = "live" \/ playing = active
  /\ Tape.position < Length
  /\ tapes' = [tapes EXCEPT ![active].position = @ + 1]
  /\ UNCHANGED <<mode, active, playing, sent, wire, up, state, ranges, posts, history>>

\* The connection's writer: a snapshot after a change of symbol or generation, else
\* the prints since.
Streams ==
  /\ up /\ Len(wire) < MaxWire
  /\ LET fresh == sent.symbol # active \/ sent.generation # Tape.generation
         oldest == IF Tape.from + SnapshotTrades < Tape.position
                   THEN Tape.position - SnapshotTrades ELSE Tape.from
         first == IF fresh THEN oldest ELSE sent.upTo
     IN /\ fresh \/ first < Tape.position
        /\ wire' = Append(wire, [type |-> IF fresh THEN "snapshot" ELSE "trades",
                                 symbol |-> active, generation |-> Tape.generation,
                                 trades |-> PrintsOf(active, first, Tape.position)])
        /\ sent' = [symbol |-> active, generation |-> Tape.generation, upTo |-> Tape.position]
  /\ UNCHANGED <<mode, tapes, active, playing, up, state, ranges, posts, history>>

\* A seek, a start or a cue of the active symbol: an empty tape of a new generation.
Restarted(position) ==
  /\ Tape.generation < MaxGeneration
  /\ tapes' = [tapes EXCEPT ![active] = [generation |-> @.generation + 1, from |-> position,
                                         position |-> position]]
  /\ playing' = active

\* A command is under way, or the stream has not told of the last one yet.
Undecided == posts # {} \/ sent.symbol # active

\* Another window or the external controller chooses the symbol.
OthersSwitch ==
  /\ commands + drops < MaxUpsets /\ commands' = commands + 1
  /\ active' \in Symbols \ {active}
  /\ raced' = (raced \/ Undecided)
  /\ UNCHANGED <<mode, tapes, playing, sent, wire, up, state, ranges, posts, drops, failed>>

-----------------------------------------------------------------------------
(* handleMessage and what it calls.                                         *)

\* Candles that also count the prints whose number is above after.
Counted(candles, trades, after) ==
  [p \in DOMAIN candles |->
     candles[p] + Cardinality({i \in DOMAIN trades :
       trades[i].number > after /\ <<trades[i].symbol, trades[i].number>> = p})]

RunOf(trade) == <<trade.symbol, trade.generation>>
RunsOf(trades) == {RunOf(trades[i]) : i \in DOMAIN trades}

\* Mutant of Navigated: going back and then to another symbol keeps what was ahead.
Navigated_KeepsIndex(b, symbol) ==
  IF b.navIndex > 0 /\ b.nav[b.navIndex] = symbol THEN b
  ELSE [b EXCEPT !.nav = Append(@, symbol), !.navIndex = IF @ = 0 THEN 1 ELSE @]

\* pushNavigation
Navigated(b, symbol) ==
  IF b.navIndex > 0 /\ b.nav[b.navIndex] = symbol THEN b
  ELSE LET kept == Append(SubSeq(b.nav, 1, b.navIndex), symbol)
           nav == IF Len(kept) > MaxNav THEN Tail(kept) ELSE kept
       IN [b EXCEPT !.nav = nav, !.navIndex = Len(nav)]

\* refreshReplayRange up to its await.
Asked(b) == [b EXCEPT !.ticket = @ + 1]
Question(b) == [ticket |-> b.ticket, symbol |-> b.symbol, generation |-> b.generation, upTo |-> -1]

\* The snapshot of a seek is empty: the last frame stays up until the first prints
\* of the new position arrive.
DefersReset(b, m) ==
  mode = "replay" /\ m.symbol = b.symbol /\ m.trades = <<>> /\ b.trades # <<>>

MinuteBarsOf(b, m, trades) ==
  LET changed == m.generation # b.generation
      preserves == mode = "replay" /\ m.symbol = b.symbol /\ b.minuteBars # NoCandles
  IN CASE mode = "replay" /\ changed ->
            IF DefersReset(b, m) THEN NoCandles ELSE Counted(NoCandles, trades, 0)
       [] (mode # "replay" \/ ~changed) /\ preserves -> b.minuteBars
       [] OTHER -> Counted(NoCandles, trades, 0)

RefreshesAfter(b, m) ==
  mode = "replay" /\ (m.generation # b.generation \/ b.chartKey # m.symbol)

OnSnapshot(b, m) ==
  LET trades == IF DefersReset(b, m) THEN b.trades ELSE m.trades
      next == [b EXCEPT !.symbol = m.symbol, !.generation = m.generation, !.trades = trades,
                        !.pendingReplayReset = DefersReset(b, m),
                        !.minuteBars = MinuteBarsOf(b, m, trades),
                        !.chartKey = IF RefreshesAfter(b, m) THEN m.symbol ELSE @]
  IN IF RefreshesAfter(b, m) THEN Asked(Navigated(next, m.symbol)) ELSE Navigated(next, m.symbol)

\* The first prints after a deferred reset take the place of the old tape.
Swapped(b) ==
  IF b.pendingReplayReset THEN [b EXCEPT !.pendingReplayReset = FALSE, !.trades = <<>>] ELSE b

\* ingestTrades
Ingested(b, trades) ==
  [b EXCEPT !.trades = @ \o trades, !.minuteBars = Counted(@, trades, 0)]

OnTrades(b, m) == IF m.symbol = b.symbol THEN Ingested(Swapped(b), m.trades) ELSE b

Hears ==
  /\ up /\ wire # <<>>
  /\ wire' = Tail(wire)
  /\ LET m == Head(wire)
         asks == m.type = "snapshot" /\ RefreshesAfter(state, m)
     IN /\ asks => state.ticket < MaxTickets
        /\ state' = IF m.type = "snapshot" THEN OnSnapshot(state, m) ELSE OnTrades(state, m)
        /\ ranges' = IF asks THEN ranges \cup {Question(state')} ELSE ranges
  /\ UNCHANGED <<mode, tapes, active, playing, sent, up, posts, history>>

-----------------------------------------------------------------------------
(* GET /api/replay.                                                         *)

\* A changed source, an opened dialog or a new target of the external controller.
Refreshes ==
  /\ mode = "replay" /\ state.symbol # NoSymbol /\ state.ticket < MaxTickets
  /\ state' = Asked(state)
  /\ ranges' = ranges \cup {Question(state')}
  /\ UNCHANGED <<server, posts, history>>

\* handleReplay reads the position when it gets there.
RangeRead ==
  /\ \E q \in ranges :
       /\ q.upTo = -1
       /\ ranges' = (ranges \ {q}) \cup
            {[q EXCEPT !.upTo = IF playing = q.symbol THEN tapes[q.symbol].position ELSE 0]}
  /\ UNCHANGED <<server, state, posts, history>>

\* Mutant of Replaced: the prints that followed the answer's position are not kept.
Replaced_BarsOnly(b, q) ==
  [b EXCEPT !.minuteBars =
     [p \in DOMAIN NoCandles |-> IF p[1] = q.symbol /\ p[2] <= q.upTo THEN 1 ELSE 0]]

\* replaceReplayMinuteBars: the bars of the answer, and the prints after them.
Replaced(b, q) ==
  LET bars == [p \in DOMAIN NoCandles |-> IF p[1] = q.symbol /\ p[2] <= q.upTo THEN 1 ELSE 0]
  IN [b EXCEPT !.minuteBars = IF b.pendingReplayReset THEN bars ELSE Counted(bars, b.trades, q.upTo)]

IsCurrent(b, q) ==
  q.ticket = b.ticket /\ q.generation = b.generation /\ q.symbol = b.symbol

RangeArrives ==
  /\ \E q \in ranges :
       /\ q.upTo >= 0
       /\ ranges' = ranges \ {q}
       /\ state' = IF IsCurrent(state, q) THEN Replaced(state, q) ELSE state
  /\ UNCHANGED <<server, posts, history>>

RangeFails ==
  /\ ~failed /\ failed' = TRUE
  /\ \E q \in ranges : ranges' = ranges \ {q}
  /\ UNCHANGED <<server, state, posts, drops, commands, raced>>

-----------------------------------------------------------------------------
(* The operator's commands.                                                 *)

Posts(post) ==
  /\ commands + drops < MaxUpsets /\ commands' = commands + 1
  /\ posts' = posts \cup {post}
  /\ raced' = (raced \/ Undecided)

\* The seek of the replay controls.
SeeksTo ==
  /\ mode = "replay" /\ state.symbol # NoSymbol
  /\ \E p \in 0 .. Length :
       Posts([action |-> "seek", number |-> commands, target |-> p, done |-> FALSE])
  /\ UNCHANGED <<server, state, ranges, drops, failed>>

\* switchSymbol of the ticker field or the list.
Switches ==
  /\ state.symbol # NoSymbol
  /\ \E s \in Symbols :
       /\ state' = Navigated(state, s)
       /\ Posts([action |-> "ticker", number |-> commands, target |-> s, done |-> FALSE])
  /\ UNCHANGED <<server, ranges, drops, failed>>

\* The back and forward buttons.
Navigates ==
  /\ \E i \in {state.navIndex - 1, state.navIndex + 1} \cap DOMAIN state.nav :
       /\ state' = [state EXCEPT !.navIndex = i]
       /\ Posts([action |-> "ticker", number |-> commands, target |-> state.nav[i], done |-> FALSE])
  /\ UNCHANGED <<server, ranges, drops, failed>>

\* The answer to a ticker command changes nothing more.
PostHandled ==
  /\ \E post \in posts :
       /\ ~post.done
       /\ IF post.action = "seek"
          THEN /\ Restarted(post.target) /\ active' = active
               /\ posts' = (posts \ {post}) \cup {[post EXCEPT !.done = TRUE]}
          ELSE /\ active' = post.target /\ UNCHANGED <<tapes, playing>>
               /\ posts' = posts \ {post}
  /\ UNCHANGED <<mode, sent, wire, up, state, ranges, history>>

\* The answer to a seek asks for the chart again.
PostAnswered ==
  /\ \E post \in posts :
       /\ post.done /\ state.ticket < MaxTickets
       /\ posts' = posts \ {post}
       /\ state' = Asked(state)
       /\ ranges' = ranges \cup {Question(state')}
  /\ UNCHANGED <<server, history>>

PostFails ==
  /\ ~failed /\ failed' = TRUE
  /\ \E post \in posts : ~post.done /\ posts' = posts \ {post}
  /\ UNCHANGED <<server, state, ranges, drops, commands, raced>>

-----------------------------------------------------------------------------
(* The connection.                                                          *)

Disconnects ==
  /\ up /\ commands + drops < MaxUpsets /\ drops' = drops + 1
  /\ up' = FALSE /\ wire' = <<>> /\ sent' = Nothing
  /\ UNCHANGED <<mode, tapes, active, playing, state, ranges, posts, commands, failed, raced>>

\* connect: the new connection starts with a snapshot.
Reconnects ==
  /\ ~up /\ up' = TRUE
  /\ UNCHANGED <<mode, tapes, active, playing, sent, wire, state, ranges, posts, history>>

Server == PrintsOne \/ Streams \/ OthersSwitch \/ RangeRead \/ PostHandled
Page == Hears \/ Refreshes \/ RangeArrives \/ RangeFails \/ SeeksTo \/ Switches \/ Navigates
        \/ PostAnswered \/ PostFails \/ Disconnects \/ Reconnects
Next == Server \/ Page
Spec == Init /\ [][Next]_vars

-----------------------------------------------------------------------------
(* Properties.                                                              *)

InStep == up /\ state.symbol = active /\ state.generation = Tape.generation
Told == [symbol |-> active, generation |-> Tape.generation, upTo |-> Tape.position]
Quiet == InStep /\ wire = <<>> /\ sent = Told /\ ranges = {} /\ posts = {}

\* The tape on screen is one unbroken stretch of one run: the run of the last snapshot,
\* or the one before it while the frame of a seek is held.  Two positions of a replay or
\* two symbols are never shown together (the swap of handleMessage, 555-565).
TapeOfOneRun ==
  /\ \A i \in DOMAIN state.trades \ {1} :
       state.trades[i] = [state.trades[i - 1] EXCEPT !.number = @ + 1]
  /\ ~state.pendingReplayReset =>
       RunsOf(state.trades) \subseteq {<<state.symbol, state.generation>>}

\* Once the browser is on the server's run, no candle shows another symbol or a moment
\* the replay has not reached: not an answer asked for before a seek, not the old prints
\* that are still on screen after one ("its candles may belong to a later replay instant").
CandlesNeverAhead ==
  InStep /\ mode = "replay" /\ drops = 0 =>
    \A p \in DOMAIN state.minuteBars :
      state.minuteBars[p] > 0 => p[1] = active /\ p[2] <= Tape.position

\* When everything has arrived, and nothing was lost or refused, the candles count every
\* print of the recording up to the position, whichever of answer and stream was first.
CandlesComplete ==
  Quiet /\ mode = "replay" /\ playing = active /\ drops = 0 /\ ~failed
    => \A n \in 1 .. Tape.position : state.minuteBars[<<active, n>>] > 0

\* The tape and its candles are those of one moment of one run.
TapeAndCandlesAgree == TapeOfOneRun /\ CandlesNeverAhead /\ CandlesComplete

\* When everything has arrived the ticker history stands on the symbol shown, whoever
\* chose it, unless a command was refused or two came before the stream told of the first.
NavigationFollows == Quiet /\ ~failed /\ ~raced => state.nav[state.navIndex] = state.symbol
=============================================================================
