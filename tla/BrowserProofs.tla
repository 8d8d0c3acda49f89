----------------------------- MODULE BrowserProofs -----------------------------
(***************************************************************************)
(* Theorems about Browser, for every set of symbols, length of recording and     *)
(* size of snapshot and history, however prints, commands, answers and lost      *)
(* connections interleave.                                                  *)
(*                                                                         *)
(* What is on screen and what is on the wire are one chain: each batch of prints *)
(* goes on where the message before it ended (StreamIsChained).  From that come   *)
(* the tape, the bounds of the candles and, with the questions that are open,     *)
(* that nothing is missing from them.  The ticker history is an argument of its   *)
(* own, about commands the stream has not told of (WishIsUnderWay).              *)
(***************************************************************************)
EXTENDS Browser, FiniteSetTheorems, TLAPS

Trade == [symbol : Symbols, generation : Nat, number : 1 .. Length]
Message == [type : {"snapshot", "trades"}, symbol : Symbols, generation : Nat, trades : Seq(Trade)]
Candles == [Symbols \X (1 .. Length) -> Nat]
PageState == [symbol : Symbols \cup {NoSymbol}, generation : Nat, trades : Seq(Trade),
              pendingReplayReset : BOOLEAN, minuteBars : Candles, chartKey : Symbols \cup {NoSymbol},
              ticket : Nat, nav : Seq(Symbols), navIndex : Nat]
RangeQuestion == [ticket : Nat, symbol : Symbols, generation : Nat, upTo : -1 .. Length]

PostTyped(post) ==
  /\ DOMAIN post = {"action", "number", "target", "done"}
  /\ \/ post.action = "seek" /\ post.target \in 0 .. Length
     \/ post.action = "ticker" /\ post.target \in Symbols /\ ~post.done

\* The server's part, and the fields of the page.
ServerTyped ==
  /\ tapes \in [Symbols -> [generation : Nat \ {0}, from : 0 .. Length, position : 0 .. Length]]
  /\ \A s \in Symbols : tapes[s].from <= tapes[s].position
  /\ active \in Symbols /\ playing \in Symbols
  /\ sent \in [symbol : Symbols \cup {NoSymbol}, generation : Nat, upTo : 0 .. Length]
  /\ wire \in Seq(Message) /\ drops \in Nat

PageTyped ==
  /\ state \in PageState
  /\ ranges \subseteq RangeQuestion
  /\ \A post \in posts : PostTyped(post)
  /\ state.symbol = NoSymbol => ranges = {} /\ posts = {}

-----------------------------------------------------------------------------
(* The chain of messages.                                                   *)

\* Prints in order, none missing between two.
Consecutive(trades) ==
  \A i \in DOMAIN trades \ {1} : trades[i] = [trades[i - 1] EXCEPT !.number = @ + 1]

\* A message has prints of its own run, and a batch is never empty.
MessagesAreExact ==
  \A k \in DOMAIN wire :
    /\ Consecutive(wire[k].trades)
    /\ \A i \in DOMAIN wire[k].trades :
         wire[k].trades[i].symbol = wire[k].symbol /\ wire[k].trades[i].generation = wire[k].generation
    /\ wire[k].type = "trades" => wire[k].trades # <<>>

\* What the page has, as the message before the first on the wire.
Shown == IF state.pendingReplayReset THEN <<>> ELSE state.trades
Screen == [type |-> "snapshot", symbol |-> state.symbol, generation |-> state.generation, trades |-> Shown]
EndsAt(m, n) == m.trades # <<>> => m.trades[Len(m.trades)].number = n
SameRun(m, n) == m.symbol = n.symbol /\ m.generation = n.generation

\* A batch goes on where m ended.  While no connection is lost a snapshot is of another run.
Follows(m, n, lost) ==
  /\ n.type = "trades" => SameRun(m, n) /\ EndsAt(m, n.trades[1].number - 1)
  /\ n.type = "snapshot" /\ lost = 0 => ~SameRun(m, n)

LastMessage == IF wire = <<>> THEN Screen ELSE wire[Len(wire)]

StreamIsChained ==
  /\ wire # <<>> => Follows(Screen, wire[1], drops)
  /\ \A k \in DOMAIN wire \ {1} : Follows(wire[k - 1], wire[k], drops)
  /\ sent.symbol # NoSymbol => SameRun(LastMessage, sent) /\ EndsAt(LastMessage, sent.upTo)
  /\ sent.symbol = NoSymbol => wire = <<>> /\ (drops = 0 => state.symbol = NoSymbol)
  /\ ~up => wire = <<>> /\ sent.symbol = NoSymbol

ScreenIsExact == TapeOfOneRun

-----------------------------------------------------------------------------
(* Nothing is ahead of the tape it is of.                                    *)

\* Number n of generation g of symbol s, with the tapes t: not of a run to come, and if
\* of the present one, not ahead of it.
Reached(t, s, g, n) ==
  g <= t[s].generation /\ (g = t[s].generation => n <= t[s].position)

MessagesAreReached ==
  /\ sent.symbol # NoSymbol => Reached(tapes, sent.symbol, sent.generation, sent.upTo)
  /\ \A k \in DOMAIN wire :
       /\ Reached(tapes, wire[k].symbol, wire[k].generation, 0)
       /\ \A i \in DOMAIN wire[k].trades :
            Reached(tapes, wire[k].symbol, wire[k].generation, wire[k].trades[i].number)

ScreenIsReached ==
  state.symbol # NoSymbol =>
    /\ Reached(tapes, state.symbol, state.generation, 0)
    /\ \A i \in DOMAIN Shown : Reached(tapes, state.symbol, state.generation, Shown[i].number)

AnswersAreReached ==
  \A q \in ranges : Reached(tapes, q.symbol, q.generation, q.upTo)

CandlesAreReached ==
  /\ state.symbol = NoSymbol => state.minuteBars = NoCandles
  /\ mode = "replay" /\ drops = 0 =>
       \A p \in Symbols \X (1 .. Length) :
         state.minuteBars[p] > 0 => p[1] = state.symbol /\ Reached(tapes, state.symbol, state.generation, p[2])

-----------------------------------------------------------------------------
(* Nothing is missing from the candles.                                      *)

\* Between snapshots the wire stays on one run; message 0 is the screen.
ChainAt(k) == IF k = 0 THEN Screen ELSE wire[k]
RunsGoOn ==
  \A i \in 0 .. Len(wire) : \A k \in i .. Len(wire) :
    (\A j \in i + 1 .. k : ChainAt(j).type # "snapshot") => SameRun(ChainAt(i), ChainAt(k))

TicketsTellApart ==
  /\ mode = "replay" => state.chartKey = state.symbol
  /\ \A q \in ranges : q.ticket <= state.ticket
  /\ \A q \in ranges : \A r \in ranges : q.ticket = r.ticket => q = r

SnapshotUnderWay == \E k \in DOMAIN wire : wire[k].type = "snapshot"
OnWire(n) == \E k \in DOMAIN wire : \E i \in DOMAIN wire[k].trades : wire[k].trades[i].number = n
OnScreen(n) == \E i \in DOMAIN Shown : Shown[i].number = n

\* The page is on the present run of what the replay plays, and no snapshot is to come.
OnRun ==
  /\ mode = "replay" /\ drops = 0 /\ ~failed
  /\ state.symbol # NoSymbol /\ playing = state.symbol
  /\ state.generation = tapes[state.symbol].generation
  /\ ~SnapshotUnderWay

\* An answer that will be taken leaves nothing out, and if none is to come nothing is
\* missing already.
NothingIsMissing ==
  OnRun =>
    /\ \A q \in ranges : IsCurrent(state, q) /\ q.upTo >= 0 =>
         \A n \in 1 .. sent.upTo : n <= q.upTo \/ OnScreen(n) \/ OnWire(n)
    /\ (\A q \in ranges : ~IsCurrent(state, q)) =>
         \A n \in 1 .. sent.upTo : state.minuteBars[<<state.symbol, n>>] > 0 \/ OnWire(n)

-----------------------------------------------------------------------------
(* The ticker history.                                                       *)

StandsInNav(b) ==
  IF b.symbol = NoSymbol THEN b.navIndex = 0 /\ b.nav = <<>> ELSE b.navIndex \in DOMAIN b.nav
NavStands == StandsInNav(state)

\* While nothing raced there is one command at most; and if the history stands on another
\* symbol than the one shown, then a ticker command that is open is the one that moved it,
\* and that command, its symbol or a snapshot is to come.
Wish == state.nav[state.navIndex]
OneCommand == \A p \in posts : \A r \in posts : p = r
WishIsCommanded == \A post \in posts : post.action = "ticker" => post.target = Wish
WishComes ==
  \/ \E post \in posts : post.action = "ticker"
  \/ active = Wish
  \/ SnapshotUnderWay
  \/ sent.symbol = NoSymbol

WishIsUnderWay ==
  ~raced =>
    /\ OneCommand
    /\ ~failed /\ state.symbol # NoSymbol /\ Wish # state.symbol => WishIsCommanded /\ WishComes

-----------------------------------------------------------------------------
(* The operators of the model.                                              *)

\* The prints of a message are those of the present run between two numbers.
LEMMA PrintsOfIsRun ==
  ASSUME ServerTyped, NEW s \in Symbols, NEW first \in Nat, NEW last \in 0 .. Length, first <= last
  PROVE  /\ PrintsOf(s, first, last) \in Seq(Trade)
         /\ Len(PrintsOf(s, first, last)) = last - first
         /\ DOMAIN PrintsOf(s, first, last) = 1 .. last - first
         /\ \A i \in 1 .. last - first :
              PrintsOf(s, first, last)[i] =
                [symbol |-> s, generation |-> tapes[s].generation, number |-> first + i]
<1> DEFINE P == PrintsOf(s, first, last)
<1>1. Length \in Nat BY BrowserAssumption
<1>2. tapes[s].generation \in Nat BY DEF ServerTyped
<1>3. last - first \in Nat BY <1>1
<1>4. /\ P = [i \in 1 .. last - first |->
              [symbol |-> s, generation |-> tapes[s].generation, number |-> first + i]]
  BY DEF PrintsOf
<1>5. \A i \in 1 .. last - first :
        [symbol |-> s, generation |-> tapes[s].generation, number |-> first + i] \in Trade
  BY <1>1, <1>2 DEF Trade
<1>6. P \in [1 .. last - first -> Trade] BY <1>4, <1>5
<1>7. P \in Seq(Trade) BY <1>3, <1>6
<1>8. Len(P) = last - first BY <1>3, <1>4, <1>7
<1> QED BY <1>4, <1>7, <1>8

\* A candle counts a print if it did or if one of the prints added is it.
LEMMA CountedCounts ==
  ASSUME NEW candles \in Candles, NEW trades \in Seq(Trade), NEW after \in Int
  PROVE  /\ Counted(candles, trades, after) \in Candles
         /\ \A p \in Symbols \X (1 .. Length) :
              Counted(candles, trades, after)[p] > 0 <=>
                \/ candles[p] > 0
                \/ \E i \in DOMAIN trades :
                     trades[i].number > after /\ <<trades[i].symbol, trades[i].number>> = p
<1> DEFINE In(p) == {i \in DOMAIN trades :
                       trades[i].number > after /\ <<trades[i].symbol, trades[i].number>> = p}
<1>1. \A p : In(p) \subseteq 1 .. Len(trades) OBVIOUS
<1>2. IsFiniteSet(1 .. Len(trades)) BY FS_Interval
<1>3. \A p : IsFiniteSet(In(p)) BY <1>1, <1>2, FS_Subset
<1>4. \A p : Cardinality(In(p)) \in Nat BY <1>3, FS_CardinalityType
<1>5. \A p : Cardinality(In(p)) = 0 <=> In(p) = {} BY <1>3, FS_EmptySet
<1>6. Counted(candles, trades, after) =
        [p \in Symbols \X (1 .. Length) |-> candles[p] + Cardinality(In(p))]
  BY DEF Counted, Candles
<1>7. \A p \in Symbols \X (1 .. Length) : candles[p] \in Nat BY DEF Candles
<1> HIDE DEF In
<1>8. Counted(candles, trades, after) \in Candles BY <1>4, <1>6, <1>7 DEF Candles
<1>9. ASSUME NEW p \in Symbols \X (1 .. Length)
      PROVE  Counted(candles, trades, after)[p] > 0 <=> candles[p] > 0 \/ In(p) # {}
  <2>1. Counted(candles, trades, after)[p] = candles[p] + Cardinality(In(p)) BY <1>6
  <2> QED BY <2>1, <1>4, <1>5, <1>7
<1> QED BY <1>8, <1>9 DEF In

\* The numbers of prints are positive, so all of them count after 0.
LEMMA AllAreCounted ==
  ASSUME NEW candles \in Candles, NEW trades \in Seq(Trade), NEW p \in Symbols \X (1 .. Length)
  PROVE  Counted(candles, trades, 0)[p] > 0 <=>
           \/ candles[p] > 0
           \/ \E i \in DOMAIN trades : <<trades[i].symbol, trades[i].number>> = p
<1>1. \A i \in DOMAIN trades : trades[i].number > 0
  <2> SUFFICES ASSUME NEW i \in DOMAIN trades PROVE trades[i].number > 0 OBVIOUS
  <2>1. trades[i] \in Trade OBVIOUS
  <2> QED BY <2>1, BrowserAssumption DEF Trade
<1>2. Counted(candles, trades, 0)[p] > 0 <=>
        \/ candles[p] > 0
        \/ \E i \in DOMAIN trades :
             trades[i].number > 0 /\ <<trades[i].symbol, trades[i].number>> = p
  <2>1. 0 \in Int OBVIOUS
  <2> QED BY <2>1, CountedCounts
<1> QED BY <1>1, <1>2

NoCandlesTyped == NoCandles \in Candles /\ \A p \in Symbols \X (1 .. Length) : NoCandles[p] = 0
LEMMA NoCandlesCountNothing == NoCandlesTyped
BY DEF NoCandlesTyped, NoCandles, Candles

\* pushNavigation: the history ends up on the symbol, and nothing else changes.
LEMMA NavigatedStands ==
  ASSUME NEW b \in PageState, NEW s \in Symbols,
         b.navIndex \in DOMAIN b.nav \/ (b.navIndex = 0 /\ b.nav = <<>>)
  PROVE  /\ Navigated(b, s) = [b EXCEPT !.nav = Navigated(b, s).nav, !.navIndex = Navigated(b, s).navIndex]
         /\ Navigated(b, s).nav \in Seq(Symbols) /\ Navigated(b, s).navIndex \in Nat
         /\ Navigated(b, s).navIndex \in DOMAIN Navigated(b, s).nav
         /\ Navigated(b, s).nav[Navigated(b, s).navIndex] = s
<1>1. b.nav \in Seq(Symbols) /\ b.navIndex \in Nat BY DEF PageState
<1>2. CASE b.navIndex > 0 /\ b.nav[b.navIndex] = s
  <2>1. Navigated(b, s) = b BY <1>2 DEF Navigated
  <2>2. b = [b EXCEPT !.nav = b.nav, !.navIndex = b.navIndex] BY DEF PageState
  <2> QED BY <1>1, <1>2, <2>1, <2>2
<1>3. CASE ~(b.navIndex > 0 /\ b.nav[b.navIndex] = s)
  <2> DEFINE kept == Append(SubSeq(b.nav, 1, b.navIndex), s)
             nav == IF Len(kept) > MaxNav THEN Tail(kept) ELSE kept
  <2>1. Navigated(b, s) = [b EXCEPT !.nav = nav, !.navIndex = Len(nav)]
    BY <1>3 DEF Navigated
  <2>2. b.navIndex <= Len(b.nav) BY <1>1
  <2>3. SubSeq(b.nav, 1, b.navIndex) \in Seq(Symbols) /\ Len(SubSeq(b.nav, 1, b.navIndex)) = b.navIndex
    BY <1>1, <2>2
  <2>4. kept \in Seq(Symbols) /\ Len(kept) = b.navIndex + 1 /\ kept[Len(kept)] = s BY <2>3, <1>1
  <2> HIDE DEF kept
  <2>5. nav \in Seq(Symbols) /\ Len(nav) \in Nat \ {0} /\ nav[Len(nav)] = s
    <3>1. CASE Len(kept) > MaxNav
      <4>1. Len(kept) >= 2 BY <3>1, <2>4, <1>1, BrowserAssumption
      <4>2. Tail(kept) \in Seq(Symbols) /\ Len(Tail(kept)) = Len(kept) - 1
            /\ Tail(kept)[Len(kept) - 1] = kept[Len(kept)]
        BY <2>4, <4>1
      <4> QED BY <3>1, <4>1, <4>2, <2>4, <1>1
    <3>2. CASE ~(Len(kept) > MaxNav) BY <3>2, <2>4, <1>1
    <3> QED BY <3>1, <3>2
  <2> HIDE DEF nav
  <2>6. Navigated(b, s).nav = nav /\ Navigated(b, s).navIndex = Len(nav) BY <2>1 DEF PageState
  <2> QED BY <2>1, <2>5, <2>6
<1> QED BY <1>2, <1>3


\* The candles after a snapshot: none, those that were there, or those of the prints.
LEMMA MinuteBarsAre ==
  ASSUME NEW b \in PageState, NEW m \in Message, NEW trades \in Seq(Trade)
  PROVE  LET bars == MinuteBarsOf(b, m, trades)
             changed == mode = "replay" /\ m.generation # b.generation
             preserves == mode = "replay" /\ m.symbol = b.symbol /\ b.minuteBars # NoCandles
         IN /\ changed /\ DefersReset(b, m) => bars = NoCandles
            /\ changed /\ ~DefersReset(b, m) => bars = Counted(NoCandles, trades, 0)
            /\ ~changed /\ preserves => bars = b.minuteBars
            /\ ~changed /\ ~preserves => bars = Counted(NoCandles, trades, 0)
            /\ bars \in Candles
<1> DEFINE bars == MinuteBarsOf(b, m, trades)
           changed == mode = "replay" /\ m.generation # b.generation
           preserves == mode = "replay" /\ m.symbol = b.symbol /\ b.minuteBars # NoCandles
<1>1. /\ changed /\ DefersReset(b, m) => bars = NoCandles
      /\ changed /\ ~DefersReset(b, m) => bars = Counted(NoCandles, trades, 0)
      /\ ~changed /\ preserves => bars = b.minuteBars
      /\ ~changed /\ ~preserves => bars = Counted(NoCandles, trades, 0)
  BY DEF MinuteBarsOf
<1>2. NoCandles \in Candles BY NoCandlesCountNothing DEF NoCandlesTyped
<1>3. Counted(NoCandles, trades, 0) \in Candles BY <1>2, CountedCounts
<1>4. b.minuteBars \in Candles BY DEF PageState
<1>5. bars \in Candles
  <2> HIDE DEF bars, changed, preserves
  <2> QED BY <1>1, <1>2, <1>3, <1>4
<1> QED BY <1>1, <1>5

\* handleMessage: what a snapshot leaves behind.
LEMMA OnSnapshotLeaves ==
  ASSUME NEW b \in PageState, NEW m \in Message, StandsInNav(b)
  PROVE  LET n == OnSnapshot(b, m)
             trades == IF DefersReset(b, m) THEN b.trades ELSE m.trades
         IN /\ n \in PageState
            /\ n.symbol = m.symbol /\ n.generation = m.generation /\ n.trades = trades
            /\ n.pendingReplayReset <=> DefersReset(b, m)
            /\ n.minuteBars = MinuteBarsOf(b, m, trades)
            /\ n.chartKey = IF RefreshesAfter(b, m) THEN m.symbol ELSE b.chartKey
            /\ n.ticket = IF RefreshesAfter(b, m) THEN b.ticket + 1 ELSE b.ticket
            /\ n.navIndex \in DOMAIN n.nav /\ n.nav[n.navIndex] = m.symbol
<1> DEFINE d == DefersReset(b, m)
           r == RefreshesAfter(b, m)
           trades == IF d THEN b.trades ELSE m.trades
           bars == MinuteBarsOf(b, m, trades)
           key == IF r THEN m.symbol ELSE b.chartKey
           next == [b EXCEPT !.symbol = m.symbol, !.generation = m.generation, !.trades = trades,
                             !.pendingReplayReset = d, !.minuteBars = bars, !.chartKey = key]
           n == OnSnapshot(b, m)
           w == Navigated(next, m.symbol)
<1>1. trades \in Seq(Trade) BY DEF PageState, Message
<1>2. bars \in Candles BY <1>1, MinuteBarsAre
<1>3. m.symbol \in Symbols /\ m.generation \in Nat /\ key \in Symbols \cup {NoSymbol}
  BY DEF Message, PageState
<1>4. d \in BOOLEAN BY DEF DefersReset
<1>5. n = IF r THEN Asked(w) ELSE w
  <2>1. next = [b EXCEPT !.symbol = m.symbol, !.generation = m.generation, !.trades = trades,
                         !.pendingReplayReset = DefersReset(b, m), !.minuteBars = MinuteBarsOf(b, m, trades),
                         !.chartKey = IF RefreshesAfter(b, m) THEN m.symbol ELSE @]
    BY DEF PageState
  <2> QED BY <2>1 DEF OnSnapshot
<1> HIDE DEF d, r, trades, bars, key, n
<1>6. /\ next \in PageState
      /\ next.symbol = m.symbol /\ next.generation = m.generation /\ next.trades = trades
      /\ next.pendingReplayReset = d /\ next.minuteBars = bars /\ next.chartKey = key
      /\ next.ticket = b.ticket /\ next.nav = b.nav /\ next.navIndex = b.navIndex
  BY <1>1, <1>2, <1>3, <1>4 DEF PageState
<1> HIDE DEF next
<1>7. /\ w = [next EXCEPT !.nav = w.nav, !.navIndex = w.navIndex]
      /\ w.nav \in Seq(Symbols) /\ w.navIndex \in Nat
      /\ w.navIndex \in DOMAIN w.nav /\ w.nav[w.navIndex] = m.symbol
  <2>1. next.navIndex \in DOMAIN next.nav \/ (next.navIndex = 0 /\ next.nav = <<>>)
    BY <1>6 DEF StandsInNav
  <2>2. next \in PageState /\ m.symbol \in Symbols BY <1>3, <1>6
  <2> QED BY <2>1, <2>2, NavigatedStands, ZenonT(30)
<1> HIDE DEF w
<1>8. /\ w \in PageState
      /\ w.symbol = m.symbol /\ w.generation = m.generation /\ w.trades = trades
      /\ w.pendingReplayReset = d /\ w.minuteBars = bars /\ w.chartKey = key
      /\ w.ticket = b.ticket
  BY <1>6, <1>7 DEF PageState
<1>9. /\ n \in PageState
      /\ n.symbol = m.symbol /\ n.generation = m.generation /\ n.trades = trades
      /\ n.pendingReplayReset = d /\ n.minuteBars = bars /\ n.chartKey = key
      /\ n.ticket = IF r THEN b.ticket + 1 ELSE b.ticket
      /\ n.navIndex = w.navIndex /\ n.nav = w.nav
  <2>1. CASE r
    <3>1. n = [w EXCEPT !.ticket = b.ticket + 1] BY <2>1, <1>5, <1>8 DEF Asked
    <3>2. b.ticket + 1 \in Nat BY DEF PageState
    <3> QED BY <2>1, <3>1, <3>2, <1>8 DEF PageState
  <2>2. CASE ~r BY <2>2, <1>5, <1>8
  <2> QED BY <2>1, <2>2
<1> QED BY <1>7, <1>9 DEF d, r, trades, bars, key, n

\* handleMessage and ingestTrades: a batch is added to what is shown and counted.
LEMMA OnTradesLeaves ==
  ASSUME NEW b \in PageState, NEW m \in Message
  PROVE  LET n == OnTrades(b, m)
             shown == IF b.pendingReplayReset THEN <<>> ELSE b.trades
         IN /\ m.symbol # b.symbol => n = b
            /\ m.symbol = b.symbol =>
                 /\ n = [b EXCEPT !.trades = shown \o m.trades, !.pendingReplayReset = FALSE,
                                  !.minuteBars = Counted(b.minuteBars, m.trades, 0)]
                 /\ n.trades = shown \o m.trades /\ n.pendingReplayReset = FALSE
                 /\ n.minuteBars = Counted(b.minuteBars, m.trades, 0)
            /\ n \in PageState
            /\ n.symbol = b.symbol /\ n.generation = b.generation /\ n.chartKey = b.chartKey
            /\ n.ticket = b.ticket /\ n.nav = b.nav /\ n.navIndex = b.navIndex
<1> DEFINE shown == IF b.pendingReplayReset THEN <<>> ELSE b.trades
           n == OnTrades(b, m)
           bars == Counted(b.minuteBars, m.trades, 0)
<1>1. m.symbol # b.symbol => n = b BY DEF OnTrades
<1>2. b.minuteBars \in Candles /\ m.trades \in Seq(Trade) /\ b.trades \in Seq(Trade)
  BY DEF PageState, Message
<1>3. bars \in Candles BY <1>2, CountedCounts
<1>4. shown \in Seq(Trade) BY <1>2
<1>5. ASSUME m.symbol = b.symbol
      PROVE  n = [b EXCEPT !.trades = shown \o m.trades, !.pendingReplayReset = FALSE, !.minuteBars = bars]
  <2>1. n = Ingested(Swapped(b), m.trades) BY <1>5 DEF OnTrades
  <2>2. Swapped(b) = [b EXCEPT !.pendingReplayReset = FALSE, !.trades = shown]
    <3>1. CASE b.pendingReplayReset BY <3>1 DEF Swapped
    <3>2. CASE ~b.pendingReplayReset
      <4>1. b.pendingReplayReset = FALSE BY <3>2 DEF PageState
      <4> QED BY <4>1 DEF Swapped, PageState
    <3> QED BY <3>1, <3>2
  <2> HIDE DEF shown
  <2> DEFINE a == Swapped(b)
  <2>3. /\ a.minuteBars = b.minuteBars /\ a.trades = shown BY <2>2 DEF PageState
  <2>4. n = [a EXCEPT !.trades = shown \o m.trades, !.minuteBars = bars]
    BY <2>1, <2>3 DEF Ingested
  <2> HIDE DEF bars, n
  <2> QED BY <2>2, <2>4 DEF PageState
<1>6. shown \o m.trades \in Seq(Trade) BY <1>2, <1>4
<1> HIDE DEF shown, bars, n
<1>7. CASE m.symbol # b.symbol BY <1>1, <1>7 DEF n, shown, bars
<1>8. CASE m.symbol = b.symbol
  <2>1. /\ n \in PageState
        /\ n.trades = shown \o m.trades /\ n.pendingReplayReset = FALSE /\ n.minuteBars = bars
        /\ n.symbol = b.symbol /\ n.generation = b.generation /\ n.chartKey = b.chartKey
        /\ n.ticket = b.ticket /\ n.nav = b.nav /\ n.navIndex = b.navIndex
    BY <1>3, <1>5, <1>6, <1>8 DEF PageState
  <2> QED BY <1>5, <1>8, <2>1 DEF n, shown, bars
<1> QED BY <1>7, <1>8


-----------------------------------------------------------------------------
(* What the steps do.                                                       *)

\* handleWebSocket sends a snapshot, or exactly the prints since what it sent last.
Sends(m) ==
  /\ up /\ wire' = Append(wire, m)
  /\ SameRun(m, Told) /\ sent' = Told
  /\ m.type = "snapshot" <=> ~SameRun(sent, Told)
  /\ Consecutive(m.trades) /\ EndsAt(m, Told.upTo)
  /\ \A i \in DOMAIN m.trades :
       /\ m.trades[i].symbol = m.symbol /\ m.trades[i].generation = m.generation
       /\ m.trades[i].number <= Told.upTo
  /\ m.type = "trades" =>
       /\ m.trades # <<>> /\ m.trades[1].number = sent.upTo + 1
       /\ \A n \in 1 .. Told.upTo :
            n <= sent.upTo \/ \E i \in DOMAIN m.trades : m.trades[i].number = n

LEMMA StreamsSends ==
  ASSUME ServerTyped, Streams
  PROVE  \E m \in Message : Sends(m)
<1> DEFINE fresh == sent.symbol # active \/ sent.generation # Tape.generation
           oldest == IF Tape.from + SnapshotTrades < Tape.position
                     THEN Tape.position - SnapshotTrades ELSE Tape.from
           first == IF fresh THEN oldest ELSE sent.upTo
           last == Tape.position
           P == PrintsOf(active, first, last)
           type == IF fresh THEN "snapshot" ELSE "trades"
           m == [type |-> type, symbol |-> active, generation |-> Tape.generation, trades |-> P]
<1>1. /\ up /\ wire' = Append(wire, m) /\ sent' = Told /\ (fresh \/ first < last)
  BY DEF Streams, Told
<1>2. /\ active \in Symbols /\ Tape.generation \in Nat /\ last \in 0 .. Length
      /\ Tape.from \in 0 .. Length /\ Tape.from <= last /\ sent.upTo \in 0 .. Length
      /\ Length \in Nat /\ SnapshotTrades \in Nat
  BY BrowserAssumption DEF ServerTyped, Tape
<1>3. oldest \in Nat /\ oldest <= last BY <1>2
<1> HIDE DEF oldest
<1>4. first \in Nat /\ first <= last
  <2>1. CASE fresh BY <2>1, <1>3
  <2>2. CASE ~fresh BY <2>2, <1>1, <1>2
  <2> QED BY <2>1, <2>2
<1>5. ~fresh => first = sent.upTo /\ first < last BY <1>1
<1> HIDE DEF first
<1>6. /\ P \in Seq(Trade) /\ Len(P) = last - first /\ DOMAIN P = 1 .. last - first
      /\ \A i \in 1 .. last - first :
           P[i] = [symbol |-> active, generation |-> Tape.generation, number |-> first + i]
  BY <1>2, <1>4, PrintsOfIsRun DEF Tape
<1> HIDE DEF P, last
<1>7. \A i \in DOMAIN P : /\ P[i].symbol = active /\ P[i].generation = Tape.generation
                          /\ P[i].number = first + i /\ P[i].number <= last
  <2> SUFFICES ASSUME NEW i \in 1 .. last - first
               PROVE  /\ P[i].symbol = active /\ P[i].generation = Tape.generation
                      /\ P[i].number = first + i /\ P[i].number <= last
    BY <1>6
  <2>1. P[i] = [symbol |-> active, generation |-> Tape.generation, number |-> first + i] BY <1>6
  <2>2. first + i <= last BY <1>2, <1>4
  <2> QED BY <2>1, <2>2
<1>8. Consecutive(P)
  <2> SUFFICES ASSUME NEW i \in DOMAIN P \ {1} PROVE P[i] = [P[i - 1] EXCEPT !.number = @ + 1]
    BY DEF Consecutive
  <2>1. i \in 1 .. last - first /\ i - 1 \in 1 .. last - first BY <1>2, <1>4, <1>6
  <2>2. P[i] = [symbol |-> active, generation |-> Tape.generation, number |-> first + i]
    BY <1>6, <2>1
  <2>3. P[i - 1] = [symbol |-> active, generation |-> Tape.generation, number |-> first + (i - 1)]
    BY <1>6, <2>1
  <2>4. first + (i - 1) + 1 = first + i BY <1>4, <2>1, <1>2
  <2> QED BY <2>2, <2>3, <2>4
<1>9. m \in Message /\ m.type = type /\ m.symbol = active /\ m.generation = Tape.generation /\ m.trades = P
  BY <1>2, <1>6 DEF Message
<1>10. EndsAt(m, last)
  <2> SUFFICES ASSUME P # <<>> PROVE P[Len(P)].number = last BY <1>9 DEF EndsAt
  <2>1. Len(P) \in DOMAIN P BY <1>2, <1>4, <1>6
  <2> QED BY <1>2, <1>4, <1>6, <1>7, <2>1
<1>11. /\ Told.symbol = active /\ Told.generation = Tape.generation /\ Told.upTo = last
  BY DEF Told, last
<1>12. SameRun(m, Told) /\ (fresh <=> ~SameRun(sent, Told)) BY <1>9, <1>11 DEF SameRun
<1>13. ASSUME ~fresh
       PROVE  /\ P # <<>> /\ P[1].number = sent.upTo + 1
              /\ \A n \in 1 .. last : n <= sent.upTo \/ \E i \in DOMAIN P : P[i].number = n
  <2>1. 1 \in DOMAIN P BY <1>2, <1>4, <1>5, <1>6, <1>13
  <2>2. P # <<>> /\ P[1].number = sent.upTo + 1 BY <2>1, <1>5, <1>7, <1>13
  <2>3. ASSUME NEW n \in 1 .. last, ~(n <= sent.upTo) PROVE \E i \in DOMAIN P : P[i].number = n
    <3>1. n - first \in DOMAIN P BY <2>3, <1>2, <1>4, <1>5, <1>6, <1>13
    <3>2. P[n - first].number = n BY <3>1, <1>2, <1>4, <1>7
    <3> QED BY <3>1, <3>2
  <2> QED BY <2>2, <2>3
<1>14. ~fresh <=> m.type = "trades" BY <1>9
<1>15. fresh <=> m.type = "snapshot" BY <1>9
<1> HIDE DEF m, fresh
<1> QED BY <1>1, <1>7, <1>8, <1>9, <1>10, <1>11, <1>12, <1>13, <1>14, <1>15 DEF Sends

\* onmessage takes the first message off the wire.
LEMMA HearsTakes ==
  ASSUME ServerTyped, Hears
  PROVE  /\ wire # <<>> /\ Head(wire) \in Message /\ Head(wire) = wire[1]
         /\ wire' \in Seq(Message) /\ wire' = Tail(wire) /\ Len(wire') = Len(wire) - 1
         /\ \A k \in DOMAIN wire' : k + 1 \in DOMAIN wire /\ wire'[k] = wire[k + 1]
         /\ \A k \in DOMAIN wire \ {1} : k - 1 \in DOMAIN wire' /\ wire[k] = wire'[k - 1]
<1>1. wire # <<>> /\ wire \in Seq(Message) /\ wire' = Tail(wire) BY DEF Hears, ServerTyped
<1>2. Len(wire) \in Nat \ {0} /\ DOMAIN wire = 1 .. Len(wire) BY <1>1
<1>3. Head(wire) \in Message /\ Head(wire) = wire[1] BY <1>1, <1>2
<1>4. wire' \in Seq(Message) /\ Len(wire') = Len(wire) - 1 BY <1>1, <1>2
<1>5. \A k \in 1 .. Len(wire) - 1 : wire'[k] = wire[k + 1] BY <1>1, <1>2
<1>6. DOMAIN wire' = 1 .. Len(wire) - 1 BY <1>4
<1> QED BY <1>1, <1>2, <1>3, <1>4, <1>5, <1>6

\* The questions that are open all have the fields of one.
LEMMA QuestionsAre ==
  ASSUME NEW b \in PageState, b.symbol # NoSymbol
  PROVE  /\ Question(b) \in RangeQuestion
         /\ Question(b).ticket = b.ticket /\ Question(b).symbol = b.symbol
         /\ Question(b).generation = b.generation /\ Question(b).upTo = -1
         /\ Asked(b) \in PageState
         /\ Asked(b) = [b EXCEPT !.ticket = b.ticket + 1]
         /\ Asked(b).symbol = b.symbol /\ Asked(b).generation = b.generation
         /\ Asked(b).trades = b.trades /\ Asked(b).pendingReplayReset = b.pendingReplayReset
         /\ Asked(b).minuteBars = b.minuteBars /\ Asked(b).chartKey = b.chartKey
         /\ Asked(b).ticket = b.ticket + 1 /\ Asked(b).nav = b.nav /\ Asked(b).navIndex = b.navIndex
<1>1. Asked(b) = [b EXCEPT !.ticket = b.ticket + 1] BY DEF Asked
<1>2. b.ticket + 1 \in Nat /\ b.ticket \in Nat BY DEF PageState
<1>3. Question(b) \in RangeQuestion BY BrowserAssumption DEF PageState, RangeQuestion, Question
<1>4. Asked(b) \in PageState BY <1>1, <1>2 DEF PageState
<1> QED BY <1>1, <1>2, <1>3, <1>4 DEF PageState, Question


\* What onmessage makes of the page and its questions.
LEMMA HearsLeaves ==
  ASSUME ServerTyped, PageTyped, NavStands, Hears
  PROVE  LET m == wire[1]
             asks == m.type = "snapshot" /\ RefreshesAfter(state, m)
         IN /\ state' = IF m.type = "snapshot" THEN OnSnapshot(state, m) ELSE OnTrades(state, m)
            /\ ranges' = IF asks THEN ranges \cup {Question(state')} ELSE ranges
            /\ state' \in PageState
            /\ state'.symbol # NoSymbol
               \/ (state'.symbol = state.symbol /\ ranges' = ranges)
            /\ StandsInNav(state')
<1> DEFINE m == wire[1]
           asks == m.type = "snapshot" /\ RefreshesAfter(state, m)
<1>1. m \in Message /\ m = Head(wire) BY HearsTakes
<1>2. /\ state' = IF m.type = "snapshot" THEN OnSnapshot(state, m) ELSE OnTrades(state, m)
      /\ ranges' = IF asks THEN ranges \cup {Question(state')} ELSE ranges
  BY <1>1 DEF Hears
<1>3. state \in PageState /\ StandsInNav(state) BY DEF PageTyped, NavStands
<1>4. m.symbol \in Symbols /\ m.symbol # NoSymbol BY <1>1, BrowserAssumption DEF Message
<1>5. CASE m.type = "snapshot"
  <2>1. state' = OnSnapshot(state, m) BY <1>2, <1>5
  <2>2. /\ state' \in PageState /\ state'.symbol = m.symbol
        /\ state'.navIndex \in DOMAIN state'.nav
    BY <1>1, <1>3, <2>1, OnSnapshotLeaves
  <2> QED BY <1>2, <1>4, <2>2 DEF StandsInNav
<1>6. CASE m.type # "snapshot"
  <2>1. state' = OnTrades(state, m) /\ ranges' = ranges BY <1>2, <1>6
  <2>2. /\ state' \in PageState /\ state'.symbol = state.symbol
        /\ state'.nav = state.nav /\ state'.navIndex = state.navIndex
    BY <1>1, <1>3, <2>1, OnTradesLeaves
  <2> QED BY <1>2, <1>3, <2>1, <2>2 DEF StandsInNav
<1> QED BY <1>2, <1>5, <1>6

\* replaceReplayMinuteBars: only the candles change.
LEMMA ReplacedLeaves ==
  ASSUME NEW b \in PageState, NEW q \in RangeQuestion
  PROVE  LET bars == Replaced(b, q).minuteBars
         IN /\ Replaced(b, q) = [b EXCEPT !.minuteBars = bars] /\ bars \in Candles
            /\ \A p \in Symbols \X (1 .. Length) :
                 bars[p] > 0 <=>
                   \/ p[1] = q.symbol /\ p[2] <= q.upTo
                   \/ /\ ~b.pendingReplayReset
                      /\ \E i \in DOMAIN b.trades :
                           b.trades[i].number > q.upTo /\ <<b.trades[i].symbol, b.trades[i].number>> = p
<1> DEFINE base == [p \in Symbols \X (1 .. Length) |-> IF p[1] = q.symbol /\ p[2] <= q.upTo THEN 1 ELSE 0]
           added == Counted(base, b.trades, q.upTo)
<1>1. DOMAIN NoCandles = Symbols \X (1 .. Length) BY DEF NoCandles
<1>2. Replaced(b, q) = [b EXCEPT !.minuteBars = IF b.pendingReplayReset THEN base ELSE added]
  BY <1>1 DEF Replaced
<1>3. base \in Candles BY DEF Candles
<1>4. \A p \in Symbols \X (1 .. Length) : base[p] > 0 <=> p[1] = q.symbol /\ p[2] <= q.upTo OBVIOUS
<1>5. b.trades \in Seq(Trade) /\ q.upTo \in Int BY BrowserAssumption DEF PageState, RangeQuestion
<1> HIDE DEF base
<1>6. /\ added \in Candles
      /\ \A p \in Symbols \X (1 .. Length) :
           added[p] > 0 <=> base[p] > 0
             \/ \E i \in DOMAIN b.trades :
                  b.trades[i].number > q.upTo /\ <<b.trades[i].symbol, b.trades[i].number>> = p
  BY <1>3, <1>5, CountedCounts
<1> HIDE DEF added
<1>7. Replaced(b, q).minuteBars = IF b.pendingReplayReset THEN base ELSE added BY <1>2 DEF PageState
<1>8. Replaced(b, q) = [b EXCEPT !.minuteBars = Replaced(b, q).minuteBars] BY <1>2, <1>7
<1>9. CASE b.pendingReplayReset BY <1>3, <1>4, <1>7, <1>8, <1>9
<1>10. CASE ~b.pendingReplayReset BY <1>4, <1>6, <1>7, <1>8, <1>10
<1> QED BY <1>9, <1>10


-----------------------------------------------------------------------------
(* Types.                                                                   *)

TapesTyped(t) ==
  /\ t \in [Symbols -> [generation : Nat \ {0}, from : 0 .. Length, position : 0 .. Length]]
  /\ \A s \in Symbols : t[s].from <= t[s].position

\* A tape only goes on, or starts again under the next generation.
Advances ==
  \A s \in Symbols :
    \/ tapes'[s].generation = tapes[s].generation /\ tapes'[s].position >= tapes[s].position
    \/ tapes'[s].generation = tapes[s].generation + 1

LEMMA RestartedAdvances ==
  ASSUME ServerTyped, NEW position \in 0 .. Length, Restarted(position)
  PROVE  /\ TapesTyped(tapes') /\ Advances
         /\ playing' = active /\ tapes'[active].generation = tapes[active].generation + 1
         /\ \A s \in Symbols \ {active} : tapes'[s] = tapes[s]
<1>1. /\ tapes' = [tapes EXCEPT ![active] = [generation |-> tapes[active].generation + 1,
                                             from |-> position, position |-> position]]
      /\ playing' = active
  BY DEF Restarted
<1>2. tapes[active].generation + 1 \in Nat \ {0} BY DEF ServerTyped
<1>3. TapesTyped(tapes')
  <2>1. [generation |-> tapes[active].generation + 1, from |-> position, position |-> position]
          \in [generation : Nat \ {0}, from : 0 .. Length, position : 0 .. Length]
    BY <1>2
  <2>2. tapes' \in [Symbols -> [generation : Nat \ {0}, from : 0 .. Length, position : 0 .. Length]]
    BY <1>1, <2>1 DEF ServerTyped
  <2>3. ASSUME NEW s \in Symbols PROVE tapes'[s].from <= tapes'[s].position
    <3>1. CASE s = active
      <4>1. tapes'[s] = [generation |-> tapes[active].generation + 1, from |-> position, position |-> position]
        BY <1>1, <3>1 DEF ServerTyped
      <4> QED BY <4>1, BrowserAssumption
    <3>2. CASE s # active
      <4>1. tapes'[s] = tapes[s] BY <1>1, <3>2 DEF ServerTyped
      <4> QED BY <4>1 DEF ServerTyped
    <3> QED BY <3>1, <3>2
  <2> QED BY <2>2, <2>3 DEF TapesTyped
<1>4. tapes'[active].generation = tapes[active].generation + 1 BY <1>1 DEF ServerTyped
<1>5. \A s \in Symbols \ {active} : tapes'[s] = tapes[s] BY <1>1 DEF ServerTyped
<1>6. Advances
  <2> SUFFICES ASSUME NEW s \in Symbols
               PROVE  \/ tapes'[s].generation = tapes[s].generation /\ tapes'[s].position >= tapes[s].position
                      \/ tapes'[s].generation = tapes[s].generation + 1
    BY DEF Advances
  <2>1. tapes[s].position \in Int BY BrowserAssumption DEF ServerTyped
  <2>2. CASE s = active BY <1>4, <2>2
  <2>3. CASE s # active BY <1>5, <2>1, <2>3
  <2> QED BY <2>2, <2>3
<1> QED BY <1>1, <1>3, <1>4, <1>5, <1>6

LEMMA PrintsOneAdvances ==
  ASSUME ServerTyped, PrintsOne
  PROVE  /\ TapesTyped(tapes') /\ Advances
         /\ \A s \in Symbols : tapes'[s].generation = tapes[s].generation
<1>1. tapes' = [tapes EXCEPT ![active].position = @ + 1] BY DEF PrintsOne
<1>2. tapes[active].position \in 0 .. Length /\ tapes[active].position < Length /\ Length \in Nat
  BY BrowserAssumption DEF PrintsOne, ServerTyped, Tape
<1>3. tapes'[active] = [tapes[active] EXCEPT !.position = tapes[active].position + 1]
  BY <1>1 DEF ServerTyped
<1>4. \A s \in Symbols \ {active} : tapes'[s] = tapes[s] BY <1>1 DEF ServerTyped
<1>5. /\ tapes'[active].generation = tapes[active].generation
      /\ tapes'[active].from = tapes[active].from
      /\ tapes'[active].position = tapes[active].position + 1
      /\ tapes'[active] \in [generation : Nat \ {0}, from : 0 .. Length, position : 0 .. Length]
  <2> DEFINE r == tapes[active]
  <2>1. r \in [generation : Nat \ {0}, from : 0 .. Length, position : 0 .. Length]
    BY DEF ServerTyped
  <2>2. r.position + 1 \in 0 .. Length BY <1>2
  <2>3. tapes'[active] = [r EXCEPT !.position = r.position + 1] BY <1>3
  <2> HIDE DEF r
  <2>4. [r EXCEPT !.position = r.position + 1]
          \in [generation : Nat \ {0}, from : 0 .. Length, position : 0 .. Length]
    BY <2>1, <2>2
  <2>5. /\ tapes'[active].generation = r.generation /\ tapes'[active].from = r.from
        /\ tapes'[active].position = r.position + 1
    BY <2>1, <2>3
  <2> QED BY <2>3, <2>4, <2>5 DEF r
<1>6. tapes' \in [Symbols -> [generation : Nat \ {0}, from : 0 .. Length, position : 0 .. Length]]
  <2>1. tapes' = [s \in Symbols |-> tapes'[s]] BY <1>1 DEF ServerTyped
  <2>2. \A s \in Symbols : tapes'[s] \in [generation : Nat \ {0}, from : 0 .. Length, position : 0 .. Length]
    BY <1>4, <1>5 DEF ServerTyped
  <2> QED BY <2>1, <2>2
<1>7. ASSUME NEW s \in Symbols
      PROVE  /\ tapes'[s].from <= tapes'[s].position
             /\ tapes'[s].generation = tapes[s].generation
             /\ tapes'[s].position >= tapes[s].position
  <2>1. tapes[s].position \in 0 .. Length /\ tapes[s].from <= tapes[s].position
        /\ tapes[s].from \in 0 .. Length
    BY DEF ServerTyped
  <2>2. CASE s = active BY <1>2, <1>5, <2>1, <2>2
  <2>3. CASE s # active BY <1>2, <1>4, <2>1, <2>3
  <2> QED BY <2>2, <2>3
<1> QED BY <1>6, <1>7 DEF TapesTyped, Advances

\* Tapes change in two actions only.
LEMMA TapesAdvance ==
  ASSUME ServerTyped, PageTyped, [Next]_vars
  PROVE  /\ TapesTyped(tapes') /\ Advances
         /\ \/ playing' = playing /\ \A s \in Symbols : tapes'[s].generation = tapes[s].generation
            \/ /\ tapes'[active].generation = tapes[active].generation + 1 /\ playing' = active
               /\ \A s \in Symbols \ {active} : tapes'[s] = tapes[s]
               /\ UNCHANGED <<sent, wire, up, state, ranges, failed, drops, mode>>
         /\ playing' = playing \/ playing' = active
         /\ mode' = mode
<1>1. CASE UNCHANGED tapes /\ UNCHANGED <<playing, mode>>
  <2>1. Advances BY <1>1, BrowserAssumption DEF Advances, ServerTyped
  <2> QED BY <1>1, <2>1 DEF TapesTyped, ServerTyped
<1>2. CASE PrintsOne BY <1>2, PrintsOneAdvances DEF PrintsOne
<1>3. CASE PostHandled
  <2> PICK post \in posts :
        /\ ~post.done
        /\ IF post.action = "seek" THEN Restarted(post.target) /\ active' = active
           ELSE active' = post.target /\ UNCHANGED <<tapes, playing>>
    BY <1>3 DEF PostHandled
  <2>1. UNCHANGED <<mode, sent, wire, up, state, ranges, history>> BY <1>3 DEF PostHandled
  <2>2. CASE post.action = "seek"
    <3>1. post.target \in 0 .. Length BY <2>2 DEF PageTyped, PostTyped
    <3>2. Restarted(post.target) BY <2>2
    <3> QED BY <2>1, <3>1, <3>2, RestartedAdvances DEF history
  <2>3. CASE post.action # "seek" BY <1>1, <2>1, <2>3
  <2> QED BY <2>2, <2>3
<1>4. CASE Streams \/ OthersSwitch \/ RangeRead BY <1>1, <1>4 DEF Streams, OthersSwitch, RangeRead, server
<1>5. CASE Hears \/ Refreshes \/ RangeArrives \/ RangeFails \/ Disconnects \/ Reconnects
  BY <1>1, <1>5 DEF Hears, Refreshes, RangeArrives, RangeFails, Disconnects, Reconnects, server
<1>6. CASE SeeksTo \/ Switches \/ Navigates \/ PostAnswered \/ PostFails
  BY <1>1, <1>6 DEF SeeksTo, Switches, Navigates, PostAnswered, PostFails, server
<1>7. CASE UNCHANGED vars BY <1>1, <1>7 DEF vars, server
<1> QED BY <1>2, <1>3, <1>4, <1>5, <1>6, <1>7 DEF Next, Server, Page

LEMMA ServerTypesKept ==
  ASSUME ServerTyped, PageTyped, [Next]_vars
  PROVE  ServerTyped'
<1>1. TapesTyped(tapes') /\ playing' \in Symbols BY TapesAdvance DEF ServerTyped
<1> SUFFICES /\ active' \in Symbols
             /\ sent' \in [symbol : Symbols \cup {NoSymbol}, generation : Nat, upTo : 0 .. Length]
             /\ wire' \in Seq(Message) /\ drops' \in Nat
  BY <1>1 DEF ServerTyped, TapesTyped
<1>2. CASE UNCHANGED <<active, sent, wire, drops>> BY <1>2 DEF ServerTyped
<1>3. CASE Streams
  <2> PICK m \in Message : Sends(m) BY <1>3, StreamsSends
  <2>1. wire' \in Seq(Message) BY DEF Sends, ServerTyped
  <2>2. Told \in [symbol : Symbols \cup {NoSymbol}, generation : Nat, upTo : 0 .. Length]
    BY DEF Told, Tape, ServerTyped
  <2>3. active' = active /\ drops' = drops BY <1>3 DEF Streams, history
  <2> QED BY <2>1, <2>2, <2>3 DEF Sends, ServerTyped
<1>4. CASE OthersSwitch BY <1>4 DEF OthersSwitch, ServerTyped
<1>5. CASE PostHandled
  <2>1. active' \in Symbols BY <1>5 DEF PostHandled, ServerTyped, PageTyped, PostTyped
  <2> QED BY <1>5, <2>1 DEF PostHandled, ServerTyped, history
<1>6. CASE Hears
  <2>1. wire' \in Seq(Message) BY <1>6, HearsTakes
  <2> QED BY <1>6, <2>1 DEF Hears, ServerTyped, history
<1>7. CASE Disconnects
  <2>1. Nothing \in [symbol : Symbols \cup {NoSymbol}, generation : Nat, upTo : 0 .. Length]
    BY BrowserAssumption DEF Nothing
  <2> QED BY <1>7, <2>1 DEF Disconnects, ServerTyped
<1>8. CASE PrintsOne \/ RangeRead \/ Refreshes \/ RangeArrives \/ RangeFails \/ Reconnects
  BY <1>2, <1>8 DEF PrintsOne, RangeRead, Refreshes, RangeArrives, RangeFails, Reconnects, server, history
<1>9. CASE SeeksTo \/ Switches \/ Navigates \/ PostAnswered \/ PostFails \/ UNCHANGED vars
  BY <1>2, <1>9 DEF SeeksTo, Switches, Navigates, PostAnswered, PostFails, Posts, server, history, vars
<1> QED BY <1>3, <1>4, <1>5, <1>6, <1>7, <1>8, <1>9 DEF Next, Server, Page

LEMMA PageTypesKept ==
  ASSUME ServerTyped, PageTyped, NavStands, [Next]_vars
  PROVE  PageTyped' /\ NavStands'
<1> DEFINE Fine == /\ state' \in PageState /\ StandsInNav(state')
                   /\ ranges' \subseteq RangeQuestion
                   /\ \A post \in posts' : PostTyped(post)
                   /\ (state'.symbol = NoSymbol => ranges' = {} /\ posts' = {})
<1> SUFFICES Fine BY DEF PageTyped, NavStands
<1>0. state \in PageState /\ StandsInNav(state) BY DEF PageTyped, NavStands
<1>1. CASE UNCHANGED <<state, ranges, posts>> BY <1>0, <1>1 DEF PageTyped
<1>2. CASE Hears
  <2> DEFINE asks == wire[1].type = "snapshot" /\ RefreshesAfter(state, wire[1])
  <2>1. /\ ranges' = IF asks THEN ranges \cup {Question(state')} ELSE ranges
        /\ state' \in PageState /\ StandsInNav(state')
        /\ state'.symbol # NoSymbol \/ (state'.symbol = state.symbol /\ ranges' = ranges)
    BY <1>2, HearsLeaves
  <2>2. posts' = posts BY <1>2 DEF Hears
  <2>3. state'.symbol # NoSymbol => Question(state') \in RangeQuestion BY <2>1, QuestionsAre
  <2> HIDE DEF asks
  <2>4. ranges' \subseteq RangeQuestion BY <2>1, <2>3 DEF PageTyped
  <2> QED BY <2>1, <2>2, <2>4 DEF PageTyped
<1>3. CASE Refreshes \/ PostAnswered
  <2>1. /\ state' = Asked(state) /\ ranges' = ranges \cup {Question(state')}
        /\ posts' \subseteq posts /\ state.symbol # NoSymbol
    BY <1>3 DEF Refreshes, PostAnswered, PageTyped
  <2>2. /\ state' \in PageState /\ state'.symbol = state.symbol
        /\ state'.nav = state.nav /\ state'.navIndex = state.navIndex
    BY <1>0, <2>1, QuestionsAre
  <2>3. Question(state') \in RangeQuestion BY <2>1, <2>2, QuestionsAre
  <2> QED BY <1>0, <2>1, <2>2, <2>3 DEF PageTyped, StandsInNav
<1>4. CASE RangeRead
  <2> PICK q \in ranges :
        ranges' = (ranges \ {q}) \cup
          {[q EXCEPT !.upTo = IF playing = q.symbol THEN tapes[q.symbol].position ELSE 0]}
    BY <1>4 DEF RangeRead
  <2> DEFINE p == IF playing = q.symbol THEN tapes[q.symbol].position ELSE 0
  <2>1. q \in RangeQuestion BY DEF PageTyped
  <2>2. p \in -1 .. Length
    <3>1. q.symbol \in Symbols BY <2>1 DEF RangeQuestion
    <3>2. tapes[q.symbol].position \in 0 .. Length BY <3>1 DEF ServerTyped
    <3> QED BY <3>2, BrowserAssumption
  <2> HIDE DEF p
  <2>3. [q EXCEPT !.upTo = p] \in RangeQuestion BY <2>1, <2>2 DEF RangeQuestion
  <2>4. UNCHANGED <<state, posts>> BY <1>4 DEF RangeRead
  <2>5. ranges' \subseteq RangeQuestion BY <2>3 DEF PageTyped, p
  <2> QED BY <1>0, <2>4, <2>5 DEF PageTyped
<1>5. CASE RangeArrives
  <2> PICK q \in ranges :
        /\ ranges' = ranges \ {q}
        /\ state' = IF IsCurrent(state, q) THEN Replaced(state, q) ELSE state
    BY <1>5 DEF RangeArrives
  <2>1. q \in RangeQuestion /\ posts' = posts BY <1>5 DEF PageTyped, RangeArrives
  <2>2. state' \in PageState /\ state'.symbol = state.symbol
        /\ state'.nav = state.nav /\ state'.navIndex = state.navIndex
    <3>1. CASE IsCurrent(state, q)
      <4> DEFINE bars == Replaced(state, q).minuteBars
      <4>1. state' = [state EXCEPT !.minuteBars = bars] /\ bars \in Candles
        BY <1>0, <2>1, <3>1, ReplacedLeaves
      <4> HIDE DEF bars
      <4> QED BY <1>0, <4>1 DEF PageState
    <3>2. CASE ~IsCurrent(state, q) BY <1>0, <3>2
    <3> QED BY <3>1, <3>2
  <2> QED BY <1>0, <2>1, <2>2 DEF PageTyped, StandsInNav
<1>6. CASE RangeFails \/ PostFails
  <2>1. state' = state /\ ranges' \subseteq ranges /\ posts' \subseteq posts
    BY <1>6 DEF RangeFails, PostFails
  <2> QED BY <1>0, <2>1 DEF PageTyped
<1>7. CASE SeeksTo
  <2> PICK p \in 0 .. Length :
        Posts([action |-> "seek", number |-> commands, target |-> p, done |-> FALSE])
    BY <1>7 DEF SeeksTo
  <2>1. PostTyped([action |-> "seek", number |-> commands, target |-> p, done |-> FALSE])
    BY DEF PostTyped
  <2> QED BY <1>0, <1>7, <2>1 DEF SeeksTo, Posts, PageTyped
<1>8. CASE Switches
  <2> PICK s \in Symbols :
        /\ state' = Navigated(state, s)
        /\ Posts([action |-> "ticker", number |-> commands, target |-> s, done |-> FALSE])
    BY <1>8 DEF Switches
  <2>1. PostTyped([action |-> "ticker", number |-> commands, target |-> s, done |-> FALSE])
    BY DEF PostTyped
  <2>2. /\ state' = [state EXCEPT !.nav = state'.nav, !.navIndex = state'.navIndex]
        /\ state'.nav \in Seq(Symbols) /\ state'.navIndex \in Nat
        /\ state'.navIndex \in DOMAIN state'.nav
    BY <1>0, NavigatedStands DEF StandsInNav
  <2>3. state' \in PageState /\ state'.symbol = state.symbol BY <1>0, <2>2 DEF PageState
  <2>4. state.symbol # NoSymbol /\ ranges' = ranges BY <1>8 DEF Switches
  <2>5. \A post \in posts' : PostTyped(post) BY <2>1 DEF Posts, PageTyped
  <2> QED BY <2>2, <2>3, <2>4, <2>5 DEF PageTyped, StandsInNav
<1>9. CASE Navigates
  <2> PICK i \in {state.navIndex - 1, state.navIndex + 1} \cap DOMAIN state.nav :
        /\ state' = [state EXCEPT !.navIndex = i]
        /\ Posts([action |-> "ticker", number |-> commands, target |-> state.nav[i], done |-> FALSE])
    BY <1>9 DEF Navigates
  <2>1. state.nav \in Seq(Symbols) BY <1>0 DEF PageState
  <2>2. state.nav[i] \in Symbols /\ i \in Nat BY <2>1
  <2>3. PostTyped([action |-> "ticker", number |-> commands, target |-> state.nav[i], done |-> FALSE])
    BY <2>2 DEF PostTyped
  <2>4. /\ state' \in PageState /\ state'.symbol = state.symbol
        /\ state'.nav = state.nav /\ state'.navIndex = i
    BY <1>0, <2>2 DEF PageState
  <2>5. state.symbol # NoSymbol
    <3>1. state.nav # <<>> BY <2>1
    <3> QED BY <1>0, <3>1 DEF StandsInNav
  <2>6. \A post \in posts' : PostTyped(post) BY <2>3 DEF Posts, PageTyped
  <2>7. ranges' = ranges BY <1>9 DEF Navigates
  <2> QED BY <2>4, <2>5, <2>6, <2>7 DEF PageTyped, StandsInNav
<1>10. CASE PostHandled
  <2> PICK post \in posts :
        IF post.action = "seek" THEN posts' = (posts \ {post}) \cup {[post EXCEPT !.done = TRUE]}
        ELSE posts' = posts \ {post}
    BY <1>10 DEF PostHandled
  <2>1. UNCHANGED <<state, ranges>> BY <1>10 DEF PostHandled
  <2>2. PostTyped(post) BY DEF PageTyped
  <2>3. CASE post.action = "seek"
    <3> DEFINE done == [post EXCEPT !.done = TRUE]
    <3>1. DOMAIN done = DOMAIN post /\ done.action = post.action /\ done.target = post.target
      BY <2>2 DEF PostTyped
    <3>2. PostTyped(done) BY <2>2, <2>3, <3>1 DEF PostTyped
    <3>3. \A p \in posts' : PostTyped(p) BY <2>3, <3>2 DEF PageTyped
    <3> QED BY <1>0, <2>1, <3>3 DEF PageTyped
  <2>4. CASE post.action # "seek" BY <1>0, <2>1, <2>4 DEF PageTyped
  <2> QED BY <2>3, <2>4
<1>11. CASE PrintsOne \/ Streams \/ OthersSwitch \/ Disconnects \/ Reconnects \/ UNCHANGED vars
  BY <1>1, <1>11 DEF PrintsOne, Streams, OthersSwitch, Disconnects, Reconnects, vars
<1> QED BY <1>2, <1>3, <1>4, <1>5, <1>6, <1>7, <1>8, <1>9, <1>10, <1>11 DEF Next, Server, Page


-----------------------------------------------------------------------------
(* The chain.                                                               *)

ScreenStays ==
  /\ state'.symbol = state.symbol /\ state'.generation = state.generation
  /\ state'.trades = state.trades /\ state'.pendingReplayReset = state.pendingReplayReset
  /\ state'.chartKey = state.chartKey

\* Three actions move the stream; the others leave it, and what is shown, alone.
LEMMA StreamStepKinds ==
  ASSUME ServerTyped, PageTyped, NavStands, [Next]_vars
  PROVE  \/ Streams \/ Hears \/ Disconnects
         \/ ScreenStays /\ UNCHANGED <<wire, sent, drops>> /\ (up' = up \/ (Reconnects /\ up'))
<1>0. state \in PageState BY DEF PageTyped
<1>1. CASE PrintsOne \/ OthersSwitch \/ RangeRead \/ PostHandled
  BY <1>1 DEF PrintsOne, OthersSwitch, RangeRead, PostHandled, server, history, ScreenStays
<1>2. CASE Refreshes \/ PostAnswered
  <2>1. state' = Asked(state) /\ state.symbol # NoSymbol
    BY <1>2 DEF Refreshes, PostAnswered, PageTyped
  <2>2. ScreenStays BY <1>0, <2>1, QuestionsAre DEF ScreenStays
  <2> QED BY <1>2, <2>2 DEF Refreshes, PostAnswered, server, history
<1>3. CASE RangeArrives
  <2> PICK q \in ranges :
        state' = IF IsCurrent(state, q) THEN Replaced(state, q) ELSE state
    BY <1>3 DEF RangeArrives
  <2>1. q \in RangeQuestion BY DEF PageTyped
  <2>2. ScreenStays
    <3>1. CASE IsCurrent(state, q)
      <4> DEFINE bars == Replaced(state, q).minuteBars
      <4>1. state' = [state EXCEPT !.minuteBars = bars]
        BY <1>0, <2>1, <3>1, ReplacedLeaves
      <4> HIDE DEF bars
      <4> QED BY <1>0, <4>1 DEF PageState, ScreenStays
    <3>2. CASE ~IsCurrent(state, q) BY <3>2 DEF ScreenStays
    <3> QED BY <3>1, <3>2
  <2> QED BY <1>3, <2>2 DEF RangeArrives, server, history
<1>4. CASE RangeFails \/ PostFails \/ Reconnects \/ SeeksTo
  BY <1>4 DEF RangeFails, PostFails, Reconnects, SeeksTo, Posts, server, history, ScreenStays
<1>5. CASE Switches
  <2> PICK s \in Symbols : state' = Navigated(state, s) BY <1>5 DEF Switches
  <2>1. state' = [state EXCEPT !.nav = state'.nav, !.navIndex = state'.navIndex]
    BY <1>0, NavigatedStands DEF NavStands, StandsInNav
  <2>2. ScreenStays BY <1>0, <2>1 DEF PageState, ScreenStays
  <2> QED BY <1>5, <2>2 DEF Switches, Posts, server
<1>6. CASE Navigates
  <2> PICK i \in DOMAIN state.nav : state' = [state EXCEPT !.navIndex = i] BY <1>6 DEF Navigates
  <2>1. ScreenStays BY <1>0 DEF PageState, ScreenStays
  <2> QED BY <1>6, <2>1 DEF Navigates, Posts, server
<1>7. CASE UNCHANGED vars BY <1>7 DEF vars, server, history, ScreenStays
<1> QED BY <1>1, <1>2, <1>3, <1>4, <1>5, <1>6, <1>7 DEF Next, Server, Page

\* Messages keep their prints.
LEMMA MessagesKept ==
  ASSUME ServerTyped, PageTyped, NavStands, MessagesAreExact, [Next]_vars
  PROVE  MessagesAreExact'
<1>1. CASE Streams
  <2> PICK m \in Message : Sends(m) BY <1>1, StreamsSends
  <2>1. wire \in Seq(Message) /\ wire' = Append(wire, m) BY DEF Sends, ServerTyped
  <2>2. \A k \in DOMAIN wire' : wire'[k] = m \/ (k \in DOMAIN wire /\ wire'[k] = wire[k]) BY <2>1
  <2> QED BY <2>2 DEF MessagesAreExact, Sends
<1>2. CASE Hears
  <2>1. \A k \in DOMAIN wire' : k + 1 \in DOMAIN wire /\ wire'[k] = wire[k + 1] BY <1>2, HearsTakes
  <2> QED BY <2>1 DEF MessagesAreExact
<1>3. CASE Disconnects BY <1>3 DEF Disconnects, MessagesAreExact
<1>4. CASE wire' = wire BY <1>4 DEF MessagesAreExact
<1> QED BY <1>1, <1>2, <1>3, <1>4, StreamStepKinds

\* What the page shows when a message has been heard.
LEMMA HearsShows ==
  ASSUME ServerTyped, PageTyped, NavStands, MessagesAreExact, StreamIsChained, Hears
  PROVE  /\ SameRun(Screen', wire[1])
         /\ wire[1].type = "snapshot" => Shown' = wire[1].trades /\ state' = OnSnapshot(state, wire[1])
         /\ wire[1].type = "trades" =>
              /\ SameRun(Screen, wire[1]) /\ wire[1].trades # <<>>
              /\ state' = OnTrades(state, wire[1])
              /\ state'.trades = Shown \o wire[1].trades /\ state'.pendingReplayReset = FALSE
              /\ state'.minuteBars = Counted(state.minuteBars, wire[1].trades, 0)
              /\ Shown' = Shown \o wire[1].trades
              /\ state'.ticket = state.ticket /\ state'.chartKey = state.chartKey
              /\ state'.nav = state.nav /\ state'.navIndex = state.navIndex
         /\ \A n : EndsAt(wire[1], n) => EndsAt(Screen', n)
<1> DEFINE m == wire[1]
<1>1. m \in Message /\ wire # <<>> BY HearsTakes
<1>2. state \in PageState /\ StandsInNav(state) BY DEF PageTyped, NavStands
<1>3. state' = IF m.type = "snapshot" THEN OnSnapshot(state, m) ELSE OnTrades(state, m)
  BY HearsLeaves
<1>4. 1 \in DOMAIN wire BY <1>1 DEF ServerTyped
<1>5. m.trades \in Seq(Trade) BY <1>1 DEF Message
<1> HIDE DEF m
<1>6. CASE m.type = "snapshot"
  <2>1. state' = OnSnapshot(state, m) BY <1>3, <1>6
  <2> DEFINE trades == IF DefersReset(state, m) THEN state.trades ELSE m.trades
  <2>2. /\ state'.symbol = m.symbol /\ state'.generation = m.generation /\ state'.trades = trades
        /\ state'.pendingReplayReset <=> DefersReset(state, m)
    BY <1>1, <1>2, <2>1, OnSnapshotLeaves
  <2>3. Shown' = m.trades
    <3>1. CASE DefersReset(state, m)
      <4>1. m.trades = <<>> BY <3>1 DEF DefersReset
      <4> QED BY <2>2, <3>1, <4>1 DEF Shown
    <3>2. CASE ~DefersReset(state, m) BY <2>2, <3>2 DEF Shown
    <3> QED BY <3>1, <3>2
  <2>4. SameRun(Screen', m) BY <2>2 DEF SameRun, Screen
  <2>5. Screen'.trades = m.trades BY <2>3 DEF Screen
  <2>6. \A n : EndsAt(m, n) => EndsAt(Screen', n) BY <2>5 DEF EndsAt
  <2> QED BY <1>6, <2>1, <2>3, <2>4, <2>6 DEF m
<1>7. CASE m.type # "snapshot"
  <2>1. m.type = "trades" BY <1>1, <1>7 DEF Message
  <2>2. state' = OnTrades(state, m) BY <1>3, <1>7
  <2>3. SameRun(Screen, m) BY <1>1, <2>1 DEF StreamIsChained, Follows, m
  <2>4. m.symbol = state.symbol /\ m.generation = state.generation BY <2>3 DEF SameRun, Screen
  <2>5. m.trades # <<>> BY <1>4, <2>1 DEF MessagesAreExact, m
  <2>6. /\ state'.trades = Shown \o m.trades /\ state'.pendingReplayReset = FALSE
        /\ state'.minuteBars = Counted(state.minuteBars, m.trades, 0)
        /\ state'.symbol = state.symbol /\ state'.generation = state.generation
        /\ state'.ticket = state.ticket /\ state'.chartKey = state.chartKey
        /\ state'.nav = state.nav /\ state'.navIndex = state.navIndex
    BY <1>1, <1>2, <2>2, <2>4, OnTradesLeaves DEF Shown
  <2>7. Shown' = Shown \o m.trades BY <2>6 DEF Shown
  <2>8. SameRun(Screen', m) BY <2>4, <2>6 DEF SameRun, Screen
  <2>9. Shown \in Seq(Trade) BY <1>2 DEF Shown, PageState
  <2>10. \A n : EndsAt(m, n) => EndsAt(Screen', n)
    <3>1. Screen'.trades = Shown \o m.trades BY <2>7 DEF Screen
    <3>2. (Shown \o m.trades)[Len(Shown \o m.trades)] = m.trades[Len(m.trades)] BY <1>5, <2>5, <2>9
    <3> QED BY <2>5, <3>1, <3>2 DEF EndsAt
  <2> QED BY <1>7, <2>1, <2>2, <2>3, <2>5, <2>6, <2>7, <2>8, <2>10 DEF m
<1> QED BY <1>6, <1>7


\* Whatever goes on from a message goes on from a screen that ends as it does.
LEMMA FollowsScreen ==
  ASSUME NEW m, NEW n, NEW r, NEW lost, SameRun(r, m), \A k : EndsAt(m, k) => EndsAt(r, k), Follows(m, n, lost)
  PROVE  Follows(r, n, lost)
BY DEF Follows, SameRun

LEMMA ChainKept ==
  ASSUME ServerTyped, PageTyped, NavStands, MessagesAreExact, StreamIsChained, [Next]_vars
  PROVE  StreamIsChained'
<1>1. CASE Streams
  <2> PICK m \in Message : Sends(m) BY <1>1, StreamsSends
  <2>1. /\ wire \in Seq(Message) /\ wire' = Append(wire, m) /\ up /\ sent' = Told
        /\ SameRun(m, Told) /\ EndsAt(m, Told.upTo)
    BY DEF Sends, ServerTyped
  <2>2. state' = state /\ drops' = drops /\ up' = up BY <1>1 DEF Streams, history
  <2>3. Screen' = Screen BY <2>2 DEF Screen, Shown
  <2>4. Told.symbol \in Symbols /\ Told.symbol # NoSymbol BY BrowserAssumption DEF Told, ServerTyped
  <2>5. Follows(LastMessage, m, drops)
    <3>1. ASSUME m.type = "trades"
          PROVE  SameRun(LastMessage, m) /\ EndsAt(LastMessage, m.trades[1].number - 1)
      <4>1. SameRun(sent, Told) /\ m.trades[1].number = sent.upTo + 1 BY <3>1 DEF Sends
      <4>2. sent.symbol # NoSymbol BY <2>4, <4>1 DEF SameRun
      <4>3. SameRun(LastMessage, sent) /\ EndsAt(LastMessage, sent.upTo) BY <4>2 DEF StreamIsChained
      <4>4. m.trades[1].number - 1 = sent.upTo BY <4>1, BrowserAssumption DEF ServerTyped
      <4> QED BY <2>1, <4>1, <4>3, <4>4 DEF SameRun
    <3>2. ASSUME m.type = "snapshot", drops = 0 PROVE ~SameRun(LastMessage, m)
      <4>1. ~SameRun(sent, Told) BY <3>2 DEF Sends
      <4>2. CASE sent.symbol # NoSymbol
        <5>1. SameRun(LastMessage, sent) BY <4>2 DEF StreamIsChained
        <5> QED BY <2>1, <4>1, <5>1 DEF SameRun
      <4>3. CASE sent.symbol = NoSymbol
        <5>1. wire = <<>> /\ state.symbol = NoSymbol BY <3>2, <4>3 DEF StreamIsChained
        <5>2. LastMessage.symbol = NoSymbol BY <5>1 DEF LastMessage, Screen
        <5> QED BY <2>1, <2>4, <5>2 DEF SameRun
      <4> QED BY <4>2, <4>3
    <3> QED BY <3>1, <3>2 DEF Follows
  <2>6. wire' # <<>> /\ Len(wire') = Len(wire) + 1 /\ wire'[Len(wire')] = m
        /\ \A k \in DOMAIN wire : wire'[k] = wire[k]
    BY <2>1
  <2>7. LastMessage' = m BY <2>6 DEF LastMessage
  <2>8. wire' # <<>> => Follows(Screen', wire'[1], drops')
    <3>1. CASE wire = <<>>
      <4>1. wire'[1] = m /\ LastMessage = Screen BY <2>6, <3>1 DEF LastMessage
      <4> QED BY <2>2, <2>3, <2>5, <4>1
    <3>2. CASE wire # <<>>
      <4>1. 1 \in DOMAIN wire BY <2>1, <3>2
      <4>2. wire'[1] = wire[1] /\ Follows(Screen, wire[1], drops) BY <2>6, <3>2, <4>1 DEF StreamIsChained
      <4> QED BY <2>2, <2>3, <4>2
    <3> QED BY <3>1, <3>2
  <2>9. ASSUME NEW k \in DOMAIN wire' \ {1} PROVE Follows(wire'[k - 1], wire'[k], drops')
    <3>1. CASE k \in DOMAIN wire
      <4>1. k - 1 \in DOMAIN wire BY <2>1, <2>9, <3>1
      <4>2. wire'[k] = wire[k] /\ wire'[k - 1] = wire[k - 1] BY <2>6, <3>1, <4>1
      <4>3. Follows(wire[k - 1], wire[k], drops) BY <3>1, <2>9 DEF StreamIsChained
      <4> QED BY <2>2, <4>2, <4>3
    <3>2. CASE k \notin DOMAIN wire
      <4>1. k = Len(wire) + 1 /\ wire'[k] = m /\ Len(wire) >= 1 /\ Len(wire) \in DOMAIN wire
        BY <2>1, <2>6, <2>9, <3>2
      <4>2. wire'[k - 1] = wire[Len(wire)] /\ LastMessage = wire[Len(wire)]
        BY <2>1, <2>6, <4>1 DEF LastMessage
      <4> QED BY <2>2, <2>5, <4>1, <4>2
    <3> QED BY <3>1, <3>2
  <2>10. sent'.symbol # NoSymbol /\ SameRun(LastMessage', sent') /\ EndsAt(LastMessage', sent'.upTo)
    BY <2>1, <2>4, <2>7
  <2> QED BY <2>1, <2>2, <2>8, <2>9, <2>10 DEF StreamIsChained, EndsAt, SameRun
<1>2. CASE Hears
  <2>1. /\ wire \in Seq(Message) /\ wire # <<>> /\ wire' \in Seq(Message)
        /\ Len(wire') = Len(wire) - 1
        /\ \A k \in DOMAIN wire' : k + 1 \in DOMAIN wire /\ wire'[k] = wire[k + 1]
    BY <1>2, HearsTakes DEF ServerTyped
  <2>2. UNCHANGED <<sent, up, drops>> /\ up BY <1>2 DEF Hears, history
  <2>3. SameRun(Screen', wire[1]) /\ \A n : EndsAt(wire[1], n) => EndsAt(Screen', n)
    BY <1>2, HearsShows
  <2>4. sent.symbol # NoSymbol BY <2>1 DEF StreamIsChained
  <2>5. SameRun(LastMessage, sent) /\ EndsAt(LastMessage, sent.upTo) /\ LastMessage = wire[Len(wire)]
    BY <2>1, <2>4 DEF StreamIsChained, LastMessage
  <2>6. SameRun(LastMessage', sent) /\ EndsAt(LastMessage', sent.upTo)
    <3>1. CASE wire' = <<>>
      <4>1. LastMessage' = Screen' /\ Len(wire) = 1 BY <2>1, <3>1 DEF LastMessage
      <4> QED BY <2>3, <2>5, <4>1 DEF SameRun
    <3>2. CASE wire' # <<>>
      <4>1. Len(wire') \in DOMAIN wire' BY <2>1, <3>2
      <4>2. wire'[Len(wire')] = wire[Len(wire)] BY <2>1, <4>1
      <4>3. LastMessage' = wire[Len(wire)] BY <3>2, <4>2 DEF LastMessage
      <4> QED BY <2>5, <4>3
    <3> QED BY <3>1, <3>2
  <2>7. wire' # <<>> => Follows(Screen', wire'[1], drops')
    <3> SUFFICES ASSUME wire' # <<>> PROVE Follows(Screen', wire'[1], drops') OBVIOUS
    <3>1. 2 \in DOMAIN wire \ {1} /\ wire'[1] = wire[2]
      <4>1. 1 \in DOMAIN wire' BY <2>1
      <4> QED BY <2>1, <4>1
    <3>2. Follows(wire[2 - 1], wire[2], drops) BY <3>1 DEF StreamIsChained
    <3>3. Follows(wire[1], wire[2], drops) BY <3>2
    <3> QED BY <2>2, <2>3, <3>1, <3>3, FollowsScreen
  <2>8. ASSUME NEW k \in DOMAIN wire' \ {1} PROVE Follows(wire'[k - 1], wire'[k], drops')
    <3>1. k - 1 \in DOMAIN wire' /\ k \in DOMAIN wire' BY <2>1, <2>8
    <3>2. wire'[k] = wire[k + 1] /\ wire'[k - 1] = wire[k] /\ k + 1 \in DOMAIN wire \ {1}
      BY <2>1, <3>1
    <3>3. Follows(wire[(k + 1) - 1], wire[k + 1], drops) BY <3>2 DEF StreamIsChained
    <3>4. (k + 1) - 1 = k BY <2>1, <3>1
    <3> QED BY <2>2, <3>2, <3>3, <3>4
  <2> QED BY <2>2, <2>4, <2>6, <2>7, <2>8 DEF StreamIsChained, SameRun, EndsAt
<1>3. CASE Disconnects
  <2>1. wire' = <<>> /\ sent'.symbol = NoSymbol /\ drops' # 0
    BY <1>3 DEF Disconnects, Nothing, ServerTyped
  <2> QED BY <2>1 DEF StreamIsChained
<1>4. CASE ScreenStays /\ UNCHANGED <<wire, sent, drops>> /\ (up' = up \/ (Reconnects /\ up'))
  <2>1. Screen' = Screen BY <1>4 DEF Screen, Shown, ScreenStays
  <2>2. LastMessage' = LastMessage BY <1>4, <2>1 DEF LastMessage
  <2>3. state'.symbol = state.symbol /\ (~up' => ~up) BY <1>4 DEF ScreenStays
  <2> QED BY <1>4, <2>1, <2>2, <2>3 DEF StreamIsChained, SameRun, EndsAt
<1> QED BY <1>1, <1>2, <1>3, <1>4, StreamStepKinds


-----------------------------------------------------------------------------
(* The tape on screen.                                                      *)

LEMMA JoinedIsConsecutive ==
  ASSUME NEW a \in Seq(Trade), NEW b \in Seq(Trade), Consecutive(a), Consecutive(b),
         a # <<>> /\ b # <<>> => b[1] = [a[Len(a)] EXCEPT !.number = @ + 1]
  PROVE  Consecutive(a \o b)
<1> DEFINE c == a \o b
<1>1. /\ c \in Seq(Trade) /\ Len(c) = Len(a) + Len(b)
      /\ \A i \in 1 .. Len(a) : c[i] = a[i]
      /\ \A i \in 1 .. Len(b) : c[Len(a) + i] = b[i]
  OBVIOUS
<1> HIDE DEF c
<1> SUFFICES ASSUME NEW i \in DOMAIN c \ {1} PROVE c[i] = [c[i - 1] EXCEPT !.number = @ + 1]
  BY DEF Consecutive, c
<1>2. i \in 2 .. Len(a) + Len(b) /\ Len(a) \in Nat /\ Len(b) \in Nat BY <1>1
<1>3. CASE i <= Len(a)
  <2>1. c[i] = a[i] /\ c[i - 1] = a[i - 1] /\ i \in DOMAIN a \ {1} BY <1>1, <1>2, <1>3, SMTT(30)
  <2> QED BY <2>1 DEF Consecutive
<1>4. CASE i = Len(a) + 1
  <2>1. Len(b) >= 1 /\ Len(a) >= 1 /\ i - 1 = Len(a) BY <1>2, <1>4
  <2>2. c[i - 1] = a[Len(a)] BY <1>1, <1>2, <2>1
  <2>3. c[i] = b[1]
    <3>1. 1 \in 1 .. Len(b) BY <1>2, <2>1
    <3>2. c[Len(a) + 1] = b[1] BY <1>1, <3>1
    <3> QED BY <1>4, <3>2
  <2>4. a # <<>> /\ b # <<>> BY <2>1
  <2> QED BY <2>2, <2>3, <2>4
<1>5. CASE i > Len(a) + 1
  <2> DEFINE j == i - Len(a)
  <2>1. j \in 2 .. Len(b) /\ j - 1 \in 1 .. Len(b) /\ i = Len(a) + j /\ i - 1 = Len(a) + (j - 1)
    BY <1>2, <1>5
  <2> HIDE DEF j
  <2>2. c[i] = b[j] /\ c[i - 1] = b[j - 1] /\ j \in DOMAIN b \ {1} BY <1>1, <2>1
  <2> QED BY <2>2 DEF Consecutive
<1> QED BY <1>2, <1>3, <1>4, <1>5

LEMMA ScreenKept ==
  ASSUME ServerTyped, PageTyped, NavStands, MessagesAreExact, StreamIsChained, ScreenIsExact, [Next]_vars
  PROVE  ScreenIsExact'
<1>0. /\ Consecutive(state.trades) /\ state \in PageState
      /\ ~state.pendingReplayReset =>
           \A i \in DOMAIN state.trades : RunOf(state.trades[i]) = <<state.symbol, state.generation>>
  BY DEF ScreenIsExact, TapeOfOneRun, Consecutive, RunsOf, PageTyped
<1> SUFFICES /\ Consecutive(state'.trades)
             /\ ~state'.pendingReplayReset =>
                  \A i \in DOMAIN state'.trades :
                    RunOf(state'.trades[i]) = <<state'.symbol, state'.generation>>
  BY DEF ScreenIsExact, TapeOfOneRun, Consecutive, RunsOf, RunOf
<1>1. CASE Hears
  <2> DEFINE m == wire[1]
  <2>1. m \in Message /\ 1 \in DOMAIN wire BY <1>1, HearsTakes DEF ServerTyped
  <2>2. /\ Consecutive(m.trades) /\ m.trades \in Seq(Trade)
        /\ \A i \in DOMAIN m.trades : RunOf(m.trades[i]) = <<m.symbol, m.generation>>
    BY <2>1 DEF MessagesAreExact, Message, RunOf
  <2>3. state'.symbol = m.symbol /\ state'.generation = m.generation
    BY <1>1, HearsShows DEF SameRun, Screen
  <2> HIDE DEF m
  <2>4. CASE m.type = "snapshot"
    <3>1. state' = OnSnapshot(state, m) BY <1>1, <2>4, HearsShows DEF m
    <3>2. /\ state'.trades = IF DefersReset(state, m) THEN state.trades ELSE m.trades
          /\ state'.pendingReplayReset <=> DefersReset(state, m)
      BY <1>0, <2>1, <3>1, OnSnapshotLeaves DEF NavStands
    <3>3. CASE DefersReset(state, m) BY <1>0, <3>2, <3>3
    <3>4. CASE ~DefersReset(state, m) BY <2>2, <2>3, <3>2, <3>4
    <3> QED BY <3>3, <3>4
  <2>5. CASE m.type = "trades"
    <3>1. /\ SameRun(Screen, m) /\ m.trades # <<>>
          /\ state'.trades = Shown \o m.trades /\ state'.pendingReplayReset = FALSE
      BY <1>1, <2>5, HearsShows DEF m
    <3>2. /\ Shown \in Seq(Trade) /\ Consecutive(Shown)
          /\ \A i \in DOMAIN Shown : RunOf(Shown[i]) = <<m.symbol, m.generation>>
      <4>1. m.symbol = state.symbol /\ m.generation = state.generation BY <3>1 DEF SameRun, Screen
      <4>2. CASE state.pendingReplayReset
        <5>1. Shown = <<>> BY <4>2 DEF Shown
        <5> QED BY <5>1 DEF Consecutive
      <4>3. CASE ~state.pendingReplayReset
        <5>1. Shown = state.trades BY <4>3 DEF Shown
        <5> QED BY <1>0, <4>1, <4>3, <5>1 DEF PageState
      <4> QED BY <4>2, <4>3
    <3>3. ASSUME Shown # <<>> PROVE m.trades[1] = [Shown[Len(Shown)] EXCEPT !.number = @ + 1]
      <4>1. 1 \in DOMAIN m.trades /\ Len(Shown) \in DOMAIN Shown BY <2>2, <3>1, <3>2, <3>3
      <4>2. m.trades[1] \in Trade /\ Shown[Len(Shown)] \in Trade BY <2>2, <3>2, <4>1
      <4>3. RunOf(m.trades[1]) = RunOf(Shown[Len(Shown)]) BY <2>2, <3>2, <4>1
      <4>4. Shown[Len(Shown)].number = m.trades[1].number - 1
        <5>1. wire # <<>> /\ EndsAt(Screen, m.trades[1].number - 1)
          BY <1>1, <2>5, HearsTakes DEF StreamIsChained, Follows, m
        <5> QED BY <3>3, <5>1 DEF EndsAt, Screen
      <4>5. m.trades[1].number = Shown[Len(Shown)].number + 1
        <5>1. m.trades[1].number \in Int BY <4>2, BrowserAssumption DEF Trade
        <5> QED BY <4>4, <5>1
      <4> QED BY <4>2, <4>3, <4>5 DEF Trade, RunOf
    <3>4. Consecutive(state'.trades) BY <2>2, <3>1, <3>2, <3>3, JoinedIsConsecutive
    <3>5. \A i \in DOMAIN state'.trades : RunOf(state'.trades[i]) = <<m.symbol, m.generation>>
      <4> SUFFICES ASSUME NEW i \in DOMAIN (Shown \o m.trades)
                   PROVE  RunOf((Shown \o m.trades)[i]) = <<m.symbol, m.generation>>
        BY <3>1
      <4>1. CASE i \in DOMAIN Shown
        <5>1. (Shown \o m.trades)[i] = Shown[i] BY <2>2, <3>2, <4>1
        <5> QED BY <3>2, <4>1, <5>1
      <4>2. CASE i \notin DOMAIN Shown
        <5>1. i - Len(Shown) \in DOMAIN m.trades /\ (Shown \o m.trades)[i] = m.trades[i - Len(Shown)]
          BY <2>2, <3>2, <4>2
        <5> QED BY <2>2, <5>1
      <4> QED BY <4>1, <4>2
    <3> QED BY <2>3, <3>4, <3>5
  <2> QED BY <2>1, <2>4, <2>5 DEF Message
<1>2. CASE Streams BY <1>0, <1>2 DEF Streams
<1>3. CASE Disconnects BY <1>0, <1>3 DEF Disconnects
<1>4. CASE ScreenStays BY <1>0, <1>4 DEF ScreenStays
<1> QED BY <1>1, <1>2, <1>3, <1>4, StreamStepKinds


-----------------------------------------------------------------------------
(* Nothing is ahead.                                                        *)

\* What was not ahead stays so.
LEMMA ReachedStays ==
  ASSUME ServerTyped, TapesTyped(tapes'), Advances, NEW s \in Symbols, NEW g \in Nat, NEW n \in Int, Reached(tapes, s, g, n)
  PROVE  Reached(tapes', s, g, n)
<1>1. tapes[s].generation \in Nat /\ tapes[s].position \in Int BY BrowserAssumption, SMTT(30) DEF ServerTyped
<1>2. g <= tapes[s].generation /\ (g = tapes[s].generation => n <= tapes[s].position) BY DEF Reached
<1>3. \/ tapes'[s].generation = tapes[s].generation /\ tapes'[s].position >= tapes[s].position
      \/ tapes'[s].generation = tapes[s].generation + 1
  BY DEF Advances
<1>4. tapes'[s].position \in Int BY BrowserAssumption DEF TapesTyped
<1>5. CASE tapes'[s].generation = tapes[s].generation + 1 BY <1>1, <1>2, <1>5 DEF Reached
<1>6. CASE tapes'[s].generation = tapes[s].generation /\ tapes'[s].position >= tapes[s].position
  <2>1. CASE g = tapes[s].generation
    <3>1. n <= tapes[s].position BY <1>2, <2>1
    <3> QED BY <1>1, <1>2, <1>4, <1>6, <3>1 DEF Reached
  <2>2. CASE g # tapes[s].generation BY <1>1, <1>2, <1>6, <2>2 DEF Reached
  <2> QED BY <2>1, <2>2
<1> QED BY <1>3, <1>5, <1>6


\* Questions go, one is asked under the next ticket, or one is read by the server.
LEMMA RangeStepKinds ==
  ASSUME ServerTyped, PageTyped, NavStands, [Next]_vars
  PROVE  \/ state'.ticket = state.ticket /\ ranges' \subseteq ranges
         \/ /\ state'.ticket = state.ticket + 1 /\ state'.symbol # NoSymbol
            /\ ranges' = ranges \cup {Question(state')}
         \/ /\ UNCHANGED <<state, tapes, playing, wire, sent, drops, failed, mode>>
            /\ \E q \in ranges :
                 /\ q.upTo = -1
                 /\ ranges' = (ranges \ {q}) \cup
                      {[q EXCEPT !.upTo = IF playing = q.symbol THEN tapes[q.symbol].position ELSE 0]}
<1>0. state \in PageState /\ StandsInNav(state) BY DEF PageTyped, NavStands
<1>1. CASE Hears
  <2> DEFINE m == wire[1]
             asks == m.type = "snapshot" /\ RefreshesAfter(state, m)
  <2>1. /\ ranges' = IF asks THEN ranges \cup {Question(state')} ELSE ranges
        /\ state' = IF m.type = "snapshot" THEN OnSnapshot(state, m) ELSE OnTrades(state, m)
    BY <1>1, HearsLeaves
  <2>2. m \in Message /\ m.symbol # NoSymbol BY <1>1, HearsTakes, BrowserAssumption DEF Message
  <2>3. CASE asks
    <3>1. state' = OnSnapshot(state, m) BY <2>1, <2>3
    <3>2. state'.symbol = m.symbol /\ state'.ticket = state.ticket + 1
      BY <1>0, <2>2, <2>3, <3>1, OnSnapshotLeaves
    <3> QED BY <2>1, <2>2, <2>3, <3>2
  <2>4. CASE ~asks
    <3>1. CASE m.type = "snapshot"
      <4>1. state' = OnSnapshot(state, m) /\ ~RefreshesAfter(state, m) BY <2>1, <2>4, <3>1
      <4>2. state'.ticket = state.ticket BY <1>0, <2>2, <4>1, OnSnapshotLeaves
      <4> QED BY <2>1, <2>4, <4>2
    <3>2. CASE m.type # "snapshot"
      <4>1. state' = OnTrades(state, m) BY <2>1, <3>2
      <4>2. state'.ticket = state.ticket BY <1>0, <2>2, <4>1, OnTradesLeaves
      <4> QED BY <2>1, <2>4, <4>2
    <3> QED BY <3>1, <3>2
  <2> QED BY <2>3, <2>4
<1>2. CASE Refreshes \/ PostAnswered
  <2>1. state' = Asked(state) /\ ranges' = ranges \cup {Question(state')} /\ state.symbol # NoSymbol
    BY <1>2 DEF Refreshes, PostAnswered, PageTyped
  <2>2. state'.symbol = state.symbol /\ state'.ticket = state.ticket + 1
    BY <1>0, <2>1, QuestionsAre
  <2> QED BY <2>1, <2>2
<1>3. CASE RangeRead BY <1>3 DEF RangeRead, server, history
<1>4. CASE RangeArrives
  <2> PICK q \in ranges :
        /\ ranges' = ranges \ {q}
        /\ state' = IF IsCurrent(state, q) THEN Replaced(state, q) ELSE state
    BY <1>4 DEF RangeArrives
  <2>1. CASE IsCurrent(state, q)
    <3> DEFINE bars == Replaced(state, q).minuteBars
    <3>1. q \in RangeQuestion BY DEF PageTyped
    <3>2. Replaced(state, q) = [state EXCEPT !.minuteBars = bars] BY <1>0, <3>1, ReplacedLeaves
    <3> HIDE DEF bars
    <3>3. state'.ticket = state.ticket BY <1>0, <2>1, <3>2 DEF PageState
    <3> QED BY <3>3
  <2>2. CASE ~IsCurrent(state, q) BY <2>2
  <2> QED BY <2>1, <2>2
<1>5. CASE Switches
  <2> PICK s \in Symbols : state' = Navigated(state, s) BY <1>5 DEF Switches
  <2>1. state' = [state EXCEPT !.nav = state'.nav, !.navIndex = state'.navIndex]
    BY <1>0, NavigatedStands DEF StandsInNav
  <2>2. state'.ticket = state.ticket BY <1>0, <2>1 DEF PageState
  <2> QED BY <1>5, <2>2 DEF Switches
<1>6. CASE Navigates
  <2> PICK i \in DOMAIN state.nav : state' = [state EXCEPT !.navIndex = i] BY <1>6 DEF Navigates
  <2>1. state'.ticket = state.ticket BY <1>0 DEF PageState
  <2> QED BY <1>6, <2>1 DEF Navigates
<1>7. CASE state' = state /\ ranges' \subseteq ranges BY <1>7
<1>8. CASE PrintsOne \/ Streams \/ OthersSwitch \/ PostHandled \/ Disconnects \/ Reconnects
  BY <1>7, <1>8 DEF PrintsOne, Streams, OthersSwitch, PostHandled, Disconnects, Reconnects
<1>9. CASE RangeFails \/ SeeksTo \/ PostFails \/ UNCHANGED vars
  BY <1>7, <1>9 DEF RangeFails, SeeksTo, PostFails, vars
<1> QED BY <1>1, <1>2, <1>3, <1>4, <1>5, <1>6, <1>8, <1>9 DEF Next, Server, Page

LEMMA MessagesReachedKept ==
  ASSUME ServerTyped, PageTyped, NavStands, MessagesAreReached, [Next]_vars
  PROVE  MessagesAreReached'
<1>0. TapesTyped(tapes') /\ Advances /\ ServerTyped' BY TapesAdvance, ServerTypesKept
<1>1. CASE Streams
  <2> PICK m \in Message : Sends(m) BY <1>1, StreamsSends
  <2>1. tapes' = tapes /\ sent' = Told /\ SameRun(m, Told) BY <1>1 DEF Streams, Sends
  <2>2. /\ Told.symbol = active /\ Told.generation = tapes[active].generation
        /\ Told.upTo = tapes[active].position
    BY DEF Told, Tape
  <2>3. tapes[active].generation \in Nat /\ tapes[active].position \in Nat
    BY BrowserAssumption DEF ServerTyped
  <2>4. Reached(tapes, Told.symbol, Told.generation, Told.upTo) BY <2>2, <2>3 DEF Reached
  <2>5. /\ m.symbol = active /\ m.generation = tapes[active].generation BY <2>1, <2>2 DEF SameRun
  <2>6. Reached(tapes, m.symbol, m.generation, 0) BY <2>3, <2>5 DEF Reached
  <2>7. \A i \in DOMAIN m.trades : Reached(tapes, m.symbol, m.generation, m.trades[i].number)
    BY <2>2, <2>3, <2>5 DEF Reached, Sends
  <2>8. \A k \in DOMAIN wire' : wire'[k] = m \/ (k \in DOMAIN wire /\ wire'[k] = wire[k])
    BY DEF Sends, ServerTyped
  <2> QED BY <2>1, <2>4, <2>6, <2>7, <2>8 DEF MessagesAreReached
<1>2. CASE Hears
  <2>1. \A k \in DOMAIN wire' : k + 1 \in DOMAIN wire /\ wire'[k] = wire[k + 1] BY <1>2, HearsTakes
  <2> QED BY <1>2, <2>1 DEF MessagesAreReached, Hears
<1>3. CASE Disconnects BY <1>3 DEF Disconnects, MessagesAreReached, Nothing
<1>4. CASE UNCHANGED <<wire, sent>>
  <2>1. sent.symbol # NoSymbol => Reached(tapes', sent.symbol, sent.generation, sent.upTo)
    <3> SUFFICES ASSUME sent.symbol # NoSymbol
                 PROVE  Reached(tapes', sent.symbol, sent.generation, sent.upTo)
      OBVIOUS
    <3>1. sent.symbol \in Symbols /\ sent.generation \in Nat /\ sent.upTo \in Int
      BY BrowserAssumption DEF ServerTyped
    <3>2. Reached(tapes, sent.symbol, sent.generation, sent.upTo) BY DEF MessagesAreReached
    <3> QED BY <1>0, <3>1, <3>2, ReachedStays
  <2>2. ASSUME NEW k \in DOMAIN wire
        PROVE  /\ Reached(tapes', wire[k].symbol, wire[k].generation, 0)
               /\ \A i \in DOMAIN wire[k].trades :
                    Reached(tapes', wire[k].symbol, wire[k].generation, wire[k].trades[i].number)
    <3>1. wire[k] \in Message BY DEF ServerTyped
    <3>2. wire[k].symbol \in Symbols /\ wire[k].generation \in Nat /\ wire[k].trades \in Seq(Trade)
      BY <3>1 DEF Message
    <3>3. \A i \in DOMAIN wire[k].trades : wire[k].trades[i].number \in Int
      <4> SUFFICES ASSUME NEW i \in DOMAIN wire[k].trades PROVE wire[k].trades[i].number \in Int
        OBVIOUS
      <4>1. wire[k].trades[i] \in Trade BY <3>2
      <4> QED BY <4>1, BrowserAssumption DEF Trade
    <3>4. Reached(tapes', wire[k].symbol, wire[k].generation, 0)
      BY <1>0, <3>2, ReachedStays DEF MessagesAreReached
    <3>5. \A i \in DOMAIN wire[k].trades :
            Reached(tapes', wire[k].symbol, wire[k].generation, wire[k].trades[i].number)
      BY <1>0, <3>2, <3>3, ReachedStays DEF MessagesAreReached
    <3> QED BY <3>4, <3>5
  <2> QED BY <1>4, <2>1, <2>2 DEF MessagesAreReached
<1> QED BY <1>1, <1>2, <1>3, <1>4, StreamStepKinds

LEMMA ScreenReachedKept ==
  ASSUME ServerTyped, PageTyped, NavStands, MessagesAreExact, StreamIsChained, MessagesAreReached,
         ScreenIsReached, [Next]_vars
  PROVE  ScreenIsReached'
<1>0. TapesTyped(tapes') /\ Advances /\ state \in PageState BY TapesAdvance DEF PageTyped
<1>1. CASE Hears
  <2> DEFINE m == wire[1]
  <2>1. m \in Message /\ 1 \in DOMAIN wire /\ tapes' = tapes
    BY <1>1, HearsTakes DEF ServerTyped, Hears
  <2>2. state'.symbol = m.symbol /\ state'.generation = m.generation
    BY <1>1, HearsShows DEF SameRun, Screen
  <2>3. /\ Reached(tapes, m.symbol, m.generation, 0)
        /\ \A i \in DOMAIN m.trades : Reached(tapes, m.symbol, m.generation, m.trades[i].number)
    BY <2>1 DEF MessagesAreReached
  <2> SUFFICES \A i \in DOMAIN Shown' : Reached(tapes, m.symbol, m.generation, (Shown')[i].number)
    BY <2>1, <2>2, <2>3 DEF ScreenIsReached
  <2>4. CASE m.type = "snapshot"
    <3>1. Shown' = m.trades BY <1>1, <2>4, HearsShows
    <3> QED BY <2>3, <3>1
  <2>5. CASE m.type = "trades"
    <3>1. Shown' = Shown \o m.trades /\ SameRun(Screen, m) BY <1>1, <2>5, HearsShows
    <3>2. m.symbol = state.symbol /\ m.generation = state.generation BY <3>1 DEF SameRun, Screen
    <3>3. state.symbol # NoSymbol BY <2>1, <3>2, BrowserAssumption DEF Message
    <3>4. \A i \in DOMAIN Shown : Reached(tapes, m.symbol, m.generation, Shown[i].number)
      BY <3>2, <3>3 DEF ScreenIsReached
    <3>5. m.trades \in Seq(Trade) /\ Shown \in Seq(Trade) BY <1>0, <2>1 DEF Message, Shown, PageState
    <3> HIDE DEF m
    <3>6. ASSUME NEW i \in DOMAIN (Shown \o m.trades)
          PROVE  Reached(tapes, m.symbol, m.generation, (Shown \o m.trades)[i].number)
      <4>1. CASE i \in DOMAIN Shown
        <5>1. (Shown \o m.trades)[i] = Shown[i] BY <3>5, <4>1
        <5> QED BY <3>4, <4>1, <5>1
      <4>2. CASE i \notin DOMAIN Shown
        <5>1. i - Len(Shown) \in DOMAIN m.trades /\ (Shown \o m.trades)[i] = m.trades[i - Len(Shown)]
          BY <3>5, <4>2
        <5> QED BY <2>3, <5>1
      <4> QED BY <4>1, <4>2
    <3> QED BY <3>1, <3>6
  <2> QED BY <2>1, <2>4, <2>5 DEF Message
<1>2. CASE ScreenStays
  <2>1. Shown' = Shown BY <1>2 DEF Shown, ScreenStays
  <2>2. ASSUME state.symbol # NoSymbol
        PROVE  /\ Reached(tapes', state.symbol, state.generation, 0)
               /\ \A i \in DOMAIN Shown : Reached(tapes', state.symbol, state.generation, Shown[i].number)
    <3>1. state.symbol \in Symbols /\ state.generation \in Nat BY <1>0, <2>2 DEF PageState
    <3>2. Shown \in Seq(Trade) BY <1>0 DEF Shown, PageState
    <3>3. \A i \in DOMAIN Shown : Shown[i].number \in Int
      <4> SUFFICES ASSUME NEW i \in DOMAIN Shown PROVE Shown[i].number \in Int OBVIOUS
      <4>1. Shown[i] \in Trade BY <3>2
      <4> QED BY <4>1, BrowserAssumption DEF Trade
    <3>4. Reached(tapes', state.symbol, state.generation, 0)
      BY <1>0, <2>2, <3>1, ReachedStays DEF ScreenIsReached
    <3>5. \A i \in DOMAIN Shown : Reached(tapes', state.symbol, state.generation, Shown[i].number)
      BY <1>0, <2>2, <3>1, <3>3, ReachedStays DEF ScreenIsReached
    <3> QED BY <3>4, <3>5
  <2> QED BY <1>2, <2>1, <2>2 DEF ScreenIsReached, ScreenStays
<1>3. CASE Streams \/ Disconnects BY <1>2, <1>3 DEF Streams, Disconnects, ScreenStays
<1> QED BY <1>1, <1>2, <1>3, StreamStepKinds

LEMMA AnswersReachedKept ==
  ASSUME ServerTyped, PageTyped, NavStands, ScreenIsReached', AnswersAreReached, [Next]_vars
  PROVE  AnswersAreReached'
<1>0. TapesTyped(tapes') /\ Advances /\ PageTyped' BY TapesAdvance, PageTypesKept
<1> SUFFICES ASSUME NEW r \in ranges' PROVE Reached(tapes', r.symbol, r.generation, r.upTo)
  BY DEF AnswersAreReached
<1>1. CASE r \in ranges
  <2>1. r \in RangeQuestion BY <1>1 DEF PageTyped
  <2>2. r.symbol \in Symbols /\ r.generation \in Nat /\ r.upTo \in Int
    BY <2>1, BrowserAssumption DEF RangeQuestion
  <2> QED BY <1>0, <1>1, <2>2, ReachedStays DEF AnswersAreReached
<1>2. CASE r = Question(state') /\ state'.symbol # NoSymbol
  <2>1. r.symbol = state'.symbol /\ r.generation = state'.generation /\ r.upTo = -1
    BY <1>2 DEF Question
  <2>2. Reached(tapes', r.symbol, r.generation, 0) BY <1>2, <2>1 DEF ScreenIsReached
  <2>3. state'.symbol \in Symbols BY <1>0, <1>2 DEF PageTyped, PageState
  <2>4. tapes'[r.symbol].position \in Nat BY <1>0, <2>1, <2>3, BrowserAssumption DEF TapesTyped
  <2> QED BY <2>1, <2>2, <2>4 DEF Reached
<1>3. CASE \E q \in ranges :
              /\ q.upTo = -1 /\ UNCHANGED <<state, tapes, playing>>
              /\ r = [q EXCEPT !.upTo = IF playing = q.symbol THEN tapes[q.symbol].position ELSE 0]
  <2> PICK q \in ranges :
              /\ q.upTo = -1 /\ UNCHANGED <<state, tapes, playing>>
              /\ r = [q EXCEPT !.upTo = IF playing = q.symbol THEN tapes[q.symbol].position ELSE 0]
    BY <1>3
  <2>1. q \in RangeQuestion BY DEF PageTyped
  <2>2. /\ r.symbol = q.symbol /\ r.generation = q.generation
        /\ r.upTo = IF playing = q.symbol THEN tapes[q.symbol].position ELSE 0
    BY <2>1 DEF RangeQuestion
  <2>3. tapes[q.symbol].position \in Nat
    <3>1. q.symbol \in Symbols BY <2>1 DEF RangeQuestion
    <3> QED BY <3>1, BrowserAssumption, SMTT(30) DEF ServerTyped
  <2>4. Reached(tapes, q.symbol, q.generation, q.upTo) BY DEF AnswersAreReached
  <2> QED BY <2>2, <2>3, <2>4 DEF Reached
<1> QED BY <1>1, <1>2, <1>3, RangeStepKinds


-----------------------------------------------------------------------------
(* The candles.                                                             *)

\* Only a message and an answer that is taken touch the candles.
LEMMA CandleStepKinds ==
  ASSUME ServerTyped, PageTyped, NavStands, [Next]_vars
  PROVE  \/ Hears
         \/ ScreenStays /\ state'.minuteBars = state.minuteBars
         \/ /\ ScreenStays /\ RangeArrives
            /\ \E q \in ranges : /\ q.upTo >= 0 /\ IsCurrent(state, q)
                                 /\ ranges' = ranges \ {q} /\ state' = Replaced(state, q)
<1>0. state \in PageState BY DEF PageTyped
<1>1. CASE RangeArrives
  <2> PICK q \in ranges :
        /\ q.upTo >= 0 /\ ranges' = ranges \ {q}
        /\ state' = IF IsCurrent(state, q) THEN Replaced(state, q) ELSE state
    BY <1>1 DEF RangeArrives
  <2>1. CASE IsCurrent(state, q)
    <3> DEFINE bars == Replaced(state, q).minuteBars
    <3>1. q \in RangeQuestion BY DEF PageTyped
    <3>2. Replaced(state, q) = [state EXCEPT !.minuteBars = bars] BY <1>0, <3>1, ReplacedLeaves
    <3>3. state' = Replaced(state, q) BY <2>1
    <3> HIDE DEF bars
    <3>4. ScreenStays BY <1>0, <3>2, <3>3 DEF PageState, ScreenStays
    <3> QED BY <1>1, <2>1, <3>3, <3>4
  <2>2. CASE ~IsCurrent(state, q) BY <2>2 DEF ScreenStays
  <2> QED BY <2>1, <2>2
<1>2. CASE Refreshes \/ PostAnswered
  <2>1. state' = Asked(state) /\ state.symbol # NoSymbol
    BY <1>2 DEF Refreshes, PostAnswered, PageTyped
  <2> QED BY <1>0, <2>1, QuestionsAre DEF ScreenStays
<1>3. CASE Switches
  <2> PICK s \in Symbols : state' = Navigated(state, s) BY <1>3 DEF Switches
  <2>1. state' = [state EXCEPT !.nav = state'.nav, !.navIndex = state'.navIndex]
    BY <1>0, NavigatedStands DEF NavStands, StandsInNav
  <2> QED BY <1>0, <2>1 DEF PageState, ScreenStays
<1>4. CASE Navigates
  <2> PICK i \in DOMAIN state.nav : state' = [state EXCEPT !.navIndex = i] BY <1>4 DEF Navigates
  <2> QED BY <1>0 DEF PageState, ScreenStays
<1>5. CASE state' = state BY <1>5 DEF ScreenStays
<1>6. CASE PrintsOne \/ Streams \/ OthersSwitch \/ RangeRead \/ PostHandled
  BY <1>5, <1>6 DEF PrintsOne, Streams, OthersSwitch, RangeRead, PostHandled
<1>7. CASE RangeFails \/ SeeksTo \/ PostFails \/ Disconnects \/ Reconnects \/ UNCHANGED vars
  BY <1>5, <1>7 DEF RangeFails, SeeksTo, PostFails, Disconnects, Reconnects, vars
<1> QED BY <1>1, <1>2, <1>3, <1>4, <1>6, <1>7 DEF Next, Server, Page

LEMMA CandlesReachedKept ==
  ASSUME ServerTyped, PageTyped, NavStands, MessagesAreExact, StreamIsChained, ScreenIsExact,
         MessagesAreReached, ScreenIsReached, AnswersAreReached, CandlesAreReached, [Next]_vars
  PROVE  CandlesAreReached'
<1>0. /\ TapesTyped(tapes') /\ Advances /\ mode' = mode /\ state \in PageState
      /\ state.minuteBars \in Candles
  BY TapesAdvance DEF PageTyped, PageState
<1>00. drops' = 0 => drops = 0
  <2>1. CASE Disconnects BY <2>1 DEF Disconnects, ServerTyped
  <2>2. CASE Streams \/ Hears BY <2>2 DEF Streams, Hears, history
  <2> QED BY <2>1, <2>2, StreamStepKinds
<1> DEFINE Fine(b, s, g) == \A p \in Symbols \X (1 .. Length) :
                              b[p] > 0 => p[1] = s /\ Reached(tapes', s, g, p[2])
<1>1. CASE Hears
  <2> DEFINE m == wire[1]
  <2>1. m \in Message /\ 1 \in DOMAIN wire /\ tapes' = tapes /\ drops' = drops
    BY <1>1, HearsTakes DEF ServerTyped, Hears, history
  <2>2. m.symbol \in Symbols /\ m.symbol # NoSymbol /\ m.trades \in Seq(Trade)
    BY <2>1, BrowserAssumption DEF Message
  <2>3. state'.symbol = m.symbol /\ state'.generation = m.generation
    BY <1>1, HearsShows DEF SameRun, Screen
  <2>4. \A i \in DOMAIN m.trades :
          /\ m.trades[i].symbol = m.symbol
          /\ Reached(tapes', m.symbol, m.generation, m.trades[i].number)
    BY <2>1 DEF MessagesAreExact, MessagesAreReached
  <2> HIDE DEF m
  <2> SUFFICES ASSUME mode = "replay", drops = 0 PROVE Fine(state'.minuteBars, m.symbol, m.generation)
    BY <1>0, <1>00, <2>2, <2>3 DEF CandlesAreReached
  <2>5. Fine(NoCandles, m.symbol, m.generation) BY NoCandlesCountNothing DEF NoCandlesTyped
  <2>6. Fine(Counted(NoCandles, m.trades, 0), m.symbol, m.generation)
    <3> SUFFICES ASSUME NEW p \in Symbols \X (1 .. Length), Counted(NoCandles, m.trades, 0)[p] > 0
                 PROVE  p[1] = m.symbol /\ Reached(tapes', m.symbol, m.generation, p[2])
      OBVIOUS
    <3>1. NoCandles \in Candles /\ ~(NoCandles[p] > 0) BY NoCandlesCountNothing DEF NoCandlesTyped
    <3>2. \E i \in DOMAIN m.trades : <<m.trades[i].symbol, m.trades[i].number>> = p
      BY <2>2, <3>1, AllAreCounted
    <3> QED BY <2>4, <3>2
  <2>7. CASE m.type = "snapshot"
    <3> DEFINE trades == IF DefersReset(state, m) THEN state.trades ELSE m.trades
               bars == MinuteBarsOf(state, m, trades)
    <3>1. state' = OnSnapshot(state, m) BY <1>1, <2>7, HearsShows DEF m
    <3>2. state'.minuteBars = bars BY <1>0, <2>1, <3>1, OnSnapshotLeaves DEF NavStands
    <3>3. ~SameRun(Screen, m)
      <4>1. Follows(Screen, m, drops) BY <2>1 DEF StreamIsChained, m
      <4> QED BY <2>7, <4>1 DEF Follows
    <3>4. m.generation # state.generation \/ m.symbol # state.symbol BY <3>3 DEF SameRun, Screen
    <3>5. state.trades \in Seq(Trade) /\ trades \in Seq(Trade) BY <1>0, <2>2 DEF PageState
    <3>6. bars = NoCandles \/ bars = Counted(NoCandles, m.trades, 0)
      <4>1. CASE m.generation # state.generation
        <5>1. CASE DefersReset(state, m) BY <1>0, <2>1, <3>5, <4>1, <5>1, MinuteBarsAre
        <5>2. CASE ~DefersReset(state, m) BY <1>0, <2>1, <3>5, <4>1, <5>2, MinuteBarsAre
        <5> QED BY <5>1, <5>2
      <4>2. CASE m.generation = state.generation
        <5>1. m.symbol # state.symbol /\ ~DefersReset(state, m) BY <3>4, <4>2 DEF DefersReset
        <5> QED BY <1>0, <2>1, <3>5, <4>2, <5>1, MinuteBarsAre
      <4> QED BY <4>1, <4>2
    <3> QED BY <2>5, <2>6, <3>2, <3>6
  <2>8. CASE m.type = "trades"
    <3>1. /\ SameRun(Screen, m) /\ state'.minuteBars = Counted(state.minuteBars, m.trades, 0)
      BY <1>1, <2>8, HearsShows DEF m
    <3>2. m.symbol = state.symbol /\ m.generation = state.generation BY <3>1 DEF SameRun, Screen
    <3> SUFFICES ASSUME NEW p \in Symbols \X (1 .. Length), Counted(state.minuteBars, m.trades, 0)[p] > 0
                 PROVE  p[1] = m.symbol /\ Reached(tapes', m.symbol, m.generation, p[2])
      BY <3>1
    <3>3. \/ state.minuteBars[p] > 0
          \/ \E i \in DOMAIN m.trades : <<m.trades[i].symbol, m.trades[i].number>> = p
      BY <1>0, <2>2, AllAreCounted
    <3>4. CASE state.minuteBars[p] > 0 BY <2>1, <3>2, <3>4 DEF CandlesAreReached
    <3>5. CASE \E i \in DOMAIN m.trades : <<m.trades[i].symbol, m.trades[i].number>> = p
      BY <2>4, <3>5
    <3> QED BY <3>3, <3>4, <3>5
  <2> QED BY <2>1, <2>7, <2>8 DEF Message
<1>2. CASE ScreenStays /\ state'.minuteBars = state.minuteBars
  <2>1. ASSUME mode = "replay", drops = 0
        PROVE  Fine(state.minuteBars, state.symbol, state.generation)
    <3> SUFFICES ASSUME NEW p \in Symbols \X (1 .. Length), state.minuteBars[p] > 0
                 PROVE  p[1] = state.symbol /\ Reached(tapes', state.symbol, state.generation, p[2])
      OBVIOUS
    <3>1. p[1] = state.symbol /\ Reached(tapes, state.symbol, state.generation, p[2])
      BY <2>1 DEF CandlesAreReached
    <3>2. state.symbol \in Symbols /\ p[2] \in Int BY <3>1, BrowserAssumption
    <3>3. state.generation \in Nat BY <1>0 DEF PageState
    <3> QED BY <1>0, <3>1, <3>2, <3>3, ReachedStays
  <2> QED BY <1>0, <1>00, <1>2, <2>1 DEF CandlesAreReached, ScreenStays
<1>3. CASE /\ ScreenStays /\ RangeArrives
           /\ \E q \in ranges : /\ q.upTo >= 0 /\ IsCurrent(state, q)
                                /\ ranges' = ranges \ {q} /\ state' = Replaced(state, q)
  <2> PICK q \in ranges : IsCurrent(state, q) /\ state' = Replaced(state, q) BY <1>3
  <2>1. q \in RangeQuestion /\ tapes' = tapes BY <1>3 DEF PageTyped, RangeArrives, server
  <2>2. q.symbol = state.symbol /\ q.generation = state.generation /\ q.symbol \in Symbols
    BY <2>1 DEF IsCurrent, RangeQuestion
  <2>3. Reached(tapes, q.symbol, q.generation, q.upTo) BY DEF AnswersAreReached
  <2>4. \A p \in Symbols \X (1 .. Length) :
          state'.minuteBars[p] > 0 <=>
            \/ p[1] = q.symbol /\ p[2] <= q.upTo
            \/ /\ ~state.pendingReplayReset
               /\ \E i \in DOMAIN state.trades :
                    state.trades[i].number > q.upTo
                    /\ <<state.trades[i].symbol, state.trades[i].number>> = p
    BY <1>0, <2>1, ReplacedLeaves
  <2>5. ASSUME NEW p \in Symbols \X (1 .. Length), state'.minuteBars[p] > 0
        PROVE  p[1] = state.symbol /\ Reached(tapes', state.symbol, state.generation, p[2])
    <3>1. CASE p[1] = q.symbol /\ p[2] <= q.upTo
      <4>1. q.upTo \in Int /\ p[2] \in Int /\ tapes[q.symbol].position \in Int
            /\ tapes[q.symbol].generation \in Int
        <5>1. q.upTo \in Int BY <2>1, BrowserAssumption DEF RangeQuestion
        <5>2. p[2] \in Int BY BrowserAssumption
        <5>3. tapes[q.symbol].position \in Int /\ tapes[q.symbol].generation \in Int
          BY <2>2, BrowserAssumption, SMTT(30) DEF ServerTyped
        <5> QED BY <5>1, <5>2, <5>3
      <4> QED BY <2>1, <2>2, <2>3, <3>1, <4>1 DEF Reached
    <3>2. CASE /\ ~state.pendingReplayReset
               /\ \E i \in DOMAIN state.trades :
                    <<state.trades[i].symbol, state.trades[i].number>> = p
      <4> PICK i \in DOMAIN state.trades : <<state.trades[i].symbol, state.trades[i].number>> = p
        BY <3>2
      <4>1. Shown = state.trades BY <3>2 DEF Shown
      <4>2. RunOf(state.trades[i]) = <<state.symbol, state.generation>>
        BY <3>2 DEF ScreenIsExact, TapeOfOneRun, RunsOf
      <4>3. p[1] = state.symbol BY <4>2 DEF RunOf
      <4>4. Reached(tapes, state.symbol, state.generation, p[2])
        BY <2>2, <4>1, BrowserAssumption DEF ScreenIsReached
      <4> QED BY <2>1, <4>3, <4>4
    <3> QED BY <2>4, <2>5, <3>1, <3>2
  <2>6. state'.symbol = state.symbol /\ state'.generation = state.generation BY <1>3 DEF ScreenStays
  <2>7. state.symbol # NoSymbol BY <2>2, BrowserAssumption
  <2> QED BY <2>5, <2>6, <2>7 DEF CandlesAreReached
<1> QED BY <1>1, <1>2, <1>3, CandleStepKinds


-----------------------------------------------------------------------------
(* Nothing is missing.                                                      *)

LEMMA RunsKept ==
  ASSUME ServerTyped, PageTyped, NavStands, MessagesAreExact, StreamIsChained, RunsGoOn, [Next]_vars
  PROVE  RunsGoOn'
<1>0. wire \in Seq(Message) /\ Len(wire) \in Nat BY DEF ServerTyped
<1> SUFFICES ASSUME NEW i \in 0 .. Len(wire'), NEW k \in i .. Len(wire'),
                    \A j \in i + 1 .. k : ChainAt(j)'.type # "snapshot"
             PROVE  SameRun(ChainAt(i)', ChainAt(k)')
  BY DEF RunsGoOn
<1>1. CASE Streams
  <2> PICK m \in Message : Sends(m) BY <1>1, StreamsSends
  <2>1. /\ wire' = Append(wire, m) /\ Len(wire') = Len(wire) + 1 /\ wire'[Len(wire) + 1] = m
        /\ \A j \in 1 .. Len(wire) : wire'[j] = wire[j]
    BY <1>0 DEF Sends
  <2>2. Screen' = Screen BY <1>1 DEF Streams, Screen, Shown
  <2>3. \A j \in 0 .. Len(wire) : ChainAt(j)' = ChainAt(j) BY <1>0, <2>1, <2>2 DEF ChainAt
  <2>4. CASE k <= Len(wire)
    <3>1. i \in 0 .. Len(wire) /\ k \in i .. Len(wire) BY <1>0, <2>4
    <3>2. \A j \in i + 1 .. k : ChainAt(j).type # "snapshot" BY <1>0, <2>3, <2>4
    <3>3. SameRun(ChainAt(i), ChainAt(k)) BY <3>1, <3>2 DEF RunsGoOn
    <3>4. ChainAt(i)' = ChainAt(i) /\ ChainAt(k)' = ChainAt(k) BY <1>0, <2>3, <3>1
    <3> QED BY <3>3, <3>4
  <2>5. CASE k = Len(wire) + 1 /\ i = k BY <2>5 DEF SameRun
  <2>6. CASE k = Len(wire) + 1 /\ i # k
    <3>1. i \in 0 .. Len(wire) /\ Len(wire) \in i .. Len(wire) BY <1>0, <2>6
    <3>2. ChainAt(k)' = m BY <1>0, <2>1, <2>6 DEF ChainAt
    <3>3. k \in i + 1 .. k /\ m.type # "snapshot" BY <1>0, <2>6, <3>2
    <3>4. \A j \in i + 1 .. Len(wire) : ChainAt(j).type # "snapshot" BY <1>0, <2>3, <2>6
    <3>5. SameRun(ChainAt(i), ChainAt(Len(wire))) BY <3>1, <3>4 DEF RunsGoOn
    <3>6. ChainAt(Len(wire)) = LastMessage BY <1>0 DEF ChainAt, LastMessage
    <3>7. SameRun(LastMessage, m)
      <4>1. SameRun(sent, Told) /\ SameRun(m, Told) BY <3>3 DEF Sends
      <4>2. sent.symbol # NoSymbol BY <4>1, BrowserAssumption DEF SameRun, Told, ServerTyped
      <4>3. SameRun(LastMessage, sent) BY <4>2 DEF StreamIsChained
      <4> QED BY <4>1, <4>3 DEF SameRun
    <3>8. ChainAt(i)' = ChainAt(i) BY <2>3, <3>1
    <3> QED BY <3>2, <3>5, <3>6, <3>7, <3>8 DEF SameRun
  <2> QED BY <1>0, <2>1, <2>4, <2>5, <2>6
<1>2. CASE Hears
  <2>1. /\ wire # <<>> /\ Len(wire') = Len(wire) - 1
        /\ \A j \in 1 .. Len(wire) - 1 : wire'[j] = wire[j + 1]
    BY <1>0, <1>2, HearsTakes
  <2>2. SameRun(Screen', wire[1]) BY <1>2, HearsShows
  <2>3. ASSUME NEW j \in 0 .. Len(wire) - 1 PROVE SameRun(ChainAt(j)', ChainAt(j + 1))
    <3>1. CASE j = 0 BY <2>2, <3>1 DEF ChainAt
    <3>2. CASE j # 0
      <4>1. ChainAt(j)' = wire[j + 1] /\ ChainAt(j + 1) = wire[j + 1]
        BY <1>0, <2>1, <3>2 DEF ChainAt
      <4> QED BY <4>1 DEF SameRun
    <3> QED BY <3>1, <3>2
  <2>4. i + 1 \in 0 .. Len(wire) /\ k + 1 \in i + 1 .. Len(wire) BY <1>0, <2>1
  <2>5. ASSUME NEW j \in (i + 1) + 1 .. k + 1 PROVE ChainAt(j).type # "snapshot"
    <3>1. j - 1 \in i + 1 .. k /\ j - 1 \in 1 .. Len(wire) - 1 /\ (j - 1) + 1 = j /\ j # 0
      BY <1>0, <2>1, <2>5
    <3>2. ChainAt(j - 1)'.type # "snapshot" BY <3>1
    <3>3. ChainAt(j - 1)' = wire'[j - 1] BY <3>1 DEF ChainAt
    <3>4. wire'[j - 1] = wire[(j - 1) + 1] BY <2>1, <3>1
    <3>5. ChainAt(j) = wire[j] BY <3>1 DEF ChainAt
    <3> QED BY <3>1, <3>2, <3>3, <3>4, <3>5
  <2>6. SameRun(ChainAt(i + 1), ChainAt(k + 1)) BY <2>4, <2>5 DEF RunsGoOn
  <2>7. i \in 0 .. Len(wire) - 1 /\ k \in 0 .. Len(wire) - 1 BY <1>0, <2>1
  <2> QED BY <2>3, <2>6, <2>7 DEF SameRun
<1>3. CASE Disconnects
  <2>1. Len(wire') = 0 BY <1>3 DEF Disconnects
  <2> QED BY <2>1 DEF SameRun
<1>4. CASE ScreenStays /\ wire' = wire
  <2>1. SameRun(Screen', Screen) /\ Screen'.type = Screen.type
    BY <1>4 DEF Screen, ScreenStays, SameRun
  <2>2. \A j : SameRun(ChainAt(j)', ChainAt(j)) /\ ChainAt(j)'.type = ChainAt(j).type
    BY <1>4, <2>1 DEF ChainAt, SameRun
  <2>3. \A j \in i + 1 .. k : ChainAt(j).type # "snapshot" BY <2>2
  <2>4. SameRun(ChainAt(i), ChainAt(k)) BY <1>4, <2>3 DEF RunsGoOn
  <2> QED BY <2>2, <2>4 DEF SameRun
<1> QED BY <1>1, <1>2, <1>3, <1>4, StreamStepKinds

\* With no snapshot to come, what was sent last is of the run on screen.
LEMMA SentIsOfScreen ==
  ASSUME ServerTyped, StreamIsChained, RunsGoOn, ~SnapshotUnderWay
  PROVE  /\ sent.symbol # NoSymbol => SameRun(Screen, sent)
         /\ \A k \in DOMAIN wire : SameRun(Screen, wire[k])
<1>0. wire \in Seq(Message) /\ Len(wire) \in Nat BY DEF ServerTyped
<1>1. ASSUME NEW k \in 0 .. Len(wire) PROVE SameRun(Screen, ChainAt(k))
  <2>1. \A j \in 0 + 1 .. k : ChainAt(j).type # "snapshot" BY <1>0 DEF ChainAt, SnapshotUnderWay
  <2>2. SameRun(ChainAt(0), ChainAt(k)) BY <1>0, <2>1 DEF RunsGoOn
  <2> QED BY <2>2 DEF ChainAt
<1>2. \A k \in DOMAIN wire : SameRun(Screen, wire[k]) BY <1>0, <1>1 DEF ChainAt
<1>3. LastMessage = ChainAt(Len(wire)) BY <1>0 DEF LastMessage, ChainAt
<1>4. SameRun(Screen, LastMessage) BY <1>0, <1>1, <1>3
<1> QED BY <1>2, <1>4 DEF StreamIsChained, SameRun

LEMMA TicketsKept ==
  ASSUME ServerTyped, PageTyped, NavStands, MessagesAreExact, StreamIsChained, TicketsTellApart, [Next]_vars
  PROVE  TicketsTellApart'
<1>0. state \in PageState /\ state.ticket \in Nat /\ mode' = mode
  BY TapesAdvance DEF PageTyped, PageState
<1>1. mode = "replay" => state'.chartKey = state'.symbol
  <2> SUFFICES ASSUME mode = "replay" PROVE state'.chartKey = state'.symbol OBVIOUS
  <2>1. CASE Hears
    <3> DEFINE m == wire[1]
    <3>1. m \in Message BY <2>1, HearsTakes
    <3>2. SameRun(Screen', m) BY <2>1, HearsShows
    <3>3. state'.symbol = m.symbol BY <3>2 DEF SameRun, Screen
    <3>4. CASE m.type = "snapshot"
      <4>1. state' = OnSnapshot(state, m) BY <2>1, <3>4, HearsShows
      <4>2. state'.chartKey = IF RefreshesAfter(state, m) THEN m.symbol ELSE state.chartKey
        BY <1>0, <3>1, <4>1, OnSnapshotLeaves DEF NavStands
      <4> QED BY <3>3, <4>2 DEF RefreshesAfter
    <3>5. CASE m.type = "trades"
      <4>1. state'.chartKey = state.chartKey /\ SameRun(Screen, m) BY <2>1, <3>5, HearsShows
      <4> QED BY <3>3, <4>1 DEF SameRun, Screen, TicketsTellApart
    <3> QED BY <3>1, <3>4, <3>5 DEF Message
  <2>2. CASE ScreenStays BY <2>2 DEF ScreenStays, TicketsTellApart
  <2> QED BY <2>1, <2>2, CandleStepKinds
<1>2. /\ \A q \in ranges' : q.ticket <= state'.ticket
      /\ \A q \in ranges' : \A r \in ranges' : q.ticket = r.ticket => q = r
  <2>1. \A q \in ranges : q.ticket \in Nat /\ q.ticket <= state.ticket
    BY DEF PageTyped, RangeQuestion, TicketsTellApart
  <2>2. CASE state'.ticket = state.ticket /\ ranges' \subseteq ranges BY <2>2 DEF TicketsTellApart
  <2>3. CASE state'.ticket = state.ticket + 1 /\ ranges' = ranges \cup {Question(state')}
    <3>1. Question(state').ticket = state.ticket + 1 BY <2>3 DEF Question
    <3>2. \A q \in ranges : q.ticket <= state'.ticket /\ q.ticket # Question(state').ticket
      BY <1>0, <2>1, <2>3, <3>1
    <3>3. Question(state').ticket <= state'.ticket BY <1>0, <2>3, <3>1
    <3> QED BY <2>3, <3>2, <3>3 DEF TicketsTellApart
  <2>4. CASE /\ state' = state
             /\ \E q \in ranges : \E p : ranges' = (ranges \ {q}) \cup {[q EXCEPT !.upTo = p]}
    <3> PICK q \in ranges : \E p : ranges' = (ranges \ {q}) \cup {[q EXCEPT !.upTo = p]} BY <2>4
    <3> PICK p : ranges' = (ranges \ {q}) \cup {[q EXCEPT !.upTo = p]} OBVIOUS
    <3> DEFINE r == [q EXCEPT !.upTo = p]
    <3>1. r.ticket = q.ticket BY DEF PageTyped, RangeQuestion
    <3> HIDE DEF r
    <3> QED BY <2>4, <3>1 DEF r, TicketsTellApart
  <2> QED BY <2>2, <2>3, <2>4, RangeStepKinds
<1> QED BY <1>0, <1>1, <1>2 DEF TicketsTellApart


\* What a step does to the questions and to what they are about.
Framed ==
  /\ ScreenStays /\ state'.minuteBars = state.minuteBars /\ state'.ticket = state.ticket
  /\ UNCHANGED <<ranges, wire, sent, drops, failed>>

LEMMA MissingStepKinds ==
  ASSUME ServerTyped, PageTyped, NavStands, [Next]_vars
  PROVE  \/ Streams \/ Hears \/ Disconnects \/ RangeRead \/ RangeArrives
         \/ Refreshes \/ PostAnswered
         \/ RangeFails \/ PostFails
         \/ Framed
<1>0. state \in PageState BY DEF PageTyped
<1>1. CASE PrintsOne \/ OthersSwitch \/ PostHandled \/ Reconnects \/ SeeksTo \/ UNCHANGED vars
  BY <1>1 DEF PrintsOne, OthersSwitch, PostHandled, Reconnects, SeeksTo, Posts, vars, server, history,
              Framed, ScreenStays
<1>2. CASE Switches
  <2> PICK s \in Symbols : state' = Navigated(state, s) BY <1>2 DEF Switches
  <2>1. state' = [state EXCEPT !.nav = state'.nav, !.navIndex = state'.navIndex]
    BY <1>0, NavigatedStands DEF NavStands, StandsInNav
  <2>2. ScreenStays /\ state'.minuteBars = state.minuteBars /\ state'.ticket = state.ticket
    BY <1>0, <2>1 DEF PageState, ScreenStays
  <2> QED BY <1>2, <2>2 DEF Framed, Switches, Posts, server
<1>3. CASE Navigates
  <2> PICK i \in DOMAIN state.nav : state' = [state EXCEPT !.navIndex = i] BY <1>3 DEF Navigates
  <2>1. ScreenStays /\ state'.minuteBars = state.minuteBars /\ state'.ticket = state.ticket
    BY <1>0 DEF PageState, ScreenStays
  <2> QED BY <1>3, <2>1 DEF Framed, Navigates, Posts, server
<1> QED BY <1>1, <1>2, <1>3 DEF Next, Server, Page

\* After a new question no answer is on its way to be taken, and one is to come.
LEMMA QuestionCovers ==
  ASSUME PageTyped, TicketsTellApart, state'.ticket = state.ticket + 1,
         ranges' = ranges \cup {Question(state')}
  PROVE  NothingIsMissing'
<1>1. /\ Question(state').ticket = state'.ticket /\ Question(state').symbol = state'.symbol
      /\ Question(state').generation = state'.generation /\ Question(state').upTo = -1
  BY DEF Question
<1>2. IsCurrent(state', Question(state')) BY <1>1 DEF IsCurrent
<1>3. ASSUME NEW q \in ranges', q.upTo >= 0 PROVE ~IsCurrent(state', q)
  <2>1. q \in ranges BY <1>1, <1>3
  <2>2. q.ticket <= state.ticket BY <2>1 DEF TicketsTellApart
  <2>3. q.ticket \in Nat /\ state.ticket \in Nat BY <2>1 DEF PageTyped, PageState, RangeQuestion
  <2> QED BY <2>2, <2>3 DEF IsCurrent
<1> QED BY <1>2, <1>3 DEF NothingIsMissing


\* The prints sent last have numbers of the recording, and are on the run on screen.
LEMMA SentOnRun ==
  ASSUME ServerTyped, PageTyped, StreamIsChained, RunsGoOn, MessagesAreReached, OnRun
  PROVE  /\ sent.symbol # NoSymbol
         /\ sent.upTo <= tapes[state.symbol].position
         /\ \A n \in 1 .. sent.upTo : <<state.symbol, n>> \in Symbols \X (1 .. Length)
<1>1. sent.symbol # NoSymbol BY DEF OnRun, StreamIsChained
<1>2. SameRun(Screen, sent) BY <1>1, SentIsOfScreen DEF OnRun
<1>3. sent.symbol = state.symbol /\ sent.generation = state.generation BY <1>2 DEF SameRun, Screen
<1>4. Reached(tapes, sent.symbol, sent.generation, sent.upTo) BY <1>1 DEF MessagesAreReached
<1>5. sent.upTo <= tapes[state.symbol].position BY <1>3, <1>4 DEF Reached, OnRun
<1>6. state.symbol \in Symbols /\ sent.upTo \in 0 .. Length
  BY BrowserAssumption DEF PageTyped, PageState, OnRun, ServerTyped
<1> QED BY <1>1, <1>5, <1>6, BrowserAssumption

LEMMA MissingAfterStreams ==
  ASSUME ServerTyped, PageTyped, NothingIsMissing, Streams
  PROVE  NothingIsMissing'
<1> PICK m \in Message : Sends(m) BY StreamsSends
<1>1. UNCHANGED <<mode, tapes, playing, state, ranges, drops, failed>> BY DEF Streams, history
<1>2. /\ wire \in Seq(Message) /\ wire' = Append(wire, m) /\ sent' = Told
      /\ Told.upTo \in Int /\ sent.upTo \in Int
  BY BrowserAssumption DEF Sends, ServerTyped, Told, Tape
<1>3. /\ Len(wire) + 1 \in DOMAIN wire' /\ wire'[Len(wire) + 1] = m
      /\ \A k \in DOMAIN wire : k \in DOMAIN wire' /\ wire'[k] = wire[k]
  BY <1>2
<1> SUFFICES ASSUME OnRun' PROVE NothingIsMissing' BY DEF NothingIsMissing
<1>4. m.type = "trades" BY <1>3 DEF OnRun, SnapshotUnderWay, Message
<1>5. ~SnapshotUnderWay BY <1>3 DEF OnRun, SnapshotUnderWay
<1>6. OnRun BY <1>1, <1>5 DEF OnRun
<1>7. ASSUME NEW n \in 1 .. sent'.upTo PROVE n \in 1 .. sent.upTo \/ OnWire(n)'
  <2>1. n <= sent.upTo \/ \E i \in DOMAIN m.trades : m.trades[i].number = n
    BY <1>2, <1>4 DEF Sends
  <2> QED BY <1>2, <1>3, <2>1 DEF OnWire
<1>8. \A n : OnWire(n) => OnWire(n)' BY <1>3 DEF OnWire
<1>9. \A n : OnScreen(n) => OnScreen(n)' BY <1>1 DEF OnScreen, Shown
<1> QED BY <1>1, <1>6, <1>7, <1>8, <1>9 DEF NothingIsMissing

LEMMA MissingAfterHears ==
  ASSUME ServerTyped, PageTyped, NavStands, MessagesAreExact, StreamIsChained, RunsGoOn,
         MessagesAreReached, TicketsTellApart, NothingIsMissing, [Next]_vars, Hears
  PROVE  NothingIsMissing'
<1> DEFINE m == wire[1]
<1>1. /\ m \in Message /\ 1 \in DOMAIN wire /\ m.trades \in Seq(Trade)
      /\ \A k \in DOMAIN wire' : k + 1 \in DOMAIN wire /\ wire'[k] = wire[k + 1]
      /\ \A k \in DOMAIN wire \ {1} : k - 1 \in DOMAIN wire' /\ wire[k] = wire'[k - 1]
  <2>1. /\ wire # <<>> /\ m \in Message
        /\ \A k \in DOMAIN wire' : k + 1 \in DOMAIN wire /\ wire'[k] = wire[k + 1]
        /\ \A k \in DOMAIN wire \ {1} : k - 1 \in DOMAIN wire' /\ wire[k] = wire'[k - 1]
    BY HearsTakes
  <2>2. 1 \in DOMAIN wire BY <2>1 DEF ServerTyped
  <2>3. m.trades \in Seq(Trade) BY <2>1 DEF Message
  <2> QED BY <2>1, <2>2, <2>3
<1>2. UNCHANGED <<mode, tapes, playing, sent, drops, failed>> BY DEF Hears, history
<1>3. state \in PageState /\ state.ticket \in Nat /\ StandsInNav(state)
  BY DEF PageTyped, PageState, NavStands
<1> SUFFICES ASSUME OnRun' PROVE NothingIsMissing' BY DEF NothingIsMissing
<1>4. mode = "replay" /\ drops = 0 BY <1>2 DEF OnRun
<1>5. CASE m.type = "snapshot"
  <2>1. ~SameRun(Screen, m) BY <1>1, <1>4, <1>5 DEF StreamIsChained, Follows
  <2>2. RefreshesAfter(state, m)
    BY <1>4, <2>1 DEF SameRun, Screen, RefreshesAfter, TicketsTellApart
  <2>3. state' = OnSnapshot(state, m) BY <1>5, HearsShows
  <2>4. state'.ticket = state.ticket + 1 BY <1>1, <1>3, <2>2, <2>3, OnSnapshotLeaves
  <2>5. ranges' = ranges \cup {Question(state')} BY <1>5, <2>2, HearsLeaves
  <2> QED BY <2>4, <2>5, QuestionCovers
<1>6. CASE m.type = "trades"
  <2>1. /\ SameRun(Screen, m) /\ Shown' = Shown \o m.trades
        /\ state'.minuteBars = Counted(state.minuteBars, m.trades, 0)
        /\ state'.ticket = state.ticket /\ SameRun(Screen', m)
    BY <1>6, HearsShows
  <2>2. /\ m.symbol = state.symbol /\ state'.symbol = state.symbol
        /\ state'.generation = state.generation
    BY <2>1 DEF SameRun, Screen
  <2>3. ranges' = ranges BY <1>6, HearsLeaves
  <2>4. ~SnapshotUnderWay
    <3> SUFFICES ASSUME NEW k \in DOMAIN wire, wire[k].type = "snapshot" PROVE FALSE
      BY DEF SnapshotUnderWay
    <3>1. k # 1 BY <1>6
    <3> QED BY <1>1, <3>1 DEF OnRun, SnapshotUnderWay
  <2>5. OnRun BY <1>2, <2>2, <2>4 DEF OnRun
  <2>6. \A q : IsCurrent(state', q) <=> IsCurrent(state, q) BY <2>1, <2>2 DEF IsCurrent
  <2>7. Shown \in Seq(Trade) BY <1>3 DEF Shown, PageState
  <2>8. \A n : OnScreen(n) => OnScreen(n)'
    <3> SUFFICES ASSUME NEW n, NEW i \in DOMAIN Shown, Shown[i].number = n
                 PROVE  \E j \in DOMAIN (Shown \o m.trades) : (Shown \o m.trades)[j].number = n
      BY <2>1 DEF OnScreen
    <3>1. i \in DOMAIN (Shown \o m.trades) /\ (Shown \o m.trades)[i] = Shown[i] BY <1>1, <2>7
    <3> QED BY <3>1
  <2>9. \A n : OnWire(n) => OnWire(n)' \/ \E i \in DOMAIN m.trades : m.trades[i].number = n
    <3> SUFFICES ASSUME NEW n, NEW k \in DOMAIN wire, NEW i \in DOMAIN wire[k].trades,
                        wire[k].trades[i].number = n
                 PROVE  OnWire(n)' \/ \E j \in DOMAIN m.trades : m.trades[j].number = n
      BY DEF OnWire
    <3>1. CASE k = 1 BY <3>1
    <3>2. CASE k # 1 BY <1>1, <3>2 DEF OnWire
    <3> QED BY <3>1, <3>2
  <2>10. ASSUME NEW n, NEW i \in DOMAIN m.trades, m.trades[i].number = n PROVE OnScreen(n)'
    <3>1. /\ Len(Shown) + i \in DOMAIN (Shown \o m.trades)
          /\ (Shown \o m.trades)[Len(Shown) + i] = m.trades[i]
      BY <1>1, <2>7
    <3> QED BY <2>1, <2>10, <3>1 DEF OnScreen
  <2>11. ASSUME NEW q \in ranges', IsCurrent(state', q), q.upTo >= 0, NEW n \in 1 .. sent'.upTo
         PROVE  n <= q.upTo \/ OnScreen(n)' \/ OnWire(n)'
    <3>1. n <= q.upTo \/ OnScreen(n) \/ OnWire(n)
      BY <1>2, <2>3, <2>5, <2>6, <2>11 DEF NothingIsMissing
    <3> QED BY <2>8, <2>9, <2>10, <3>1
  <2>12. ASSUME \A q \in ranges' : ~IsCurrent(state', q), NEW n \in 1 .. sent'.upTo
         PROVE  state'.minuteBars[<<state'.symbol, n>>] > 0 \/ OnWire(n)'
    <3> DEFINE p == <<state.symbol, n>>
    <3>1. p \in Symbols \X (1 .. Length) BY <1>2, <2>5, SentOnRun
    <3>2. state.minuteBars[p] > 0 \/ OnWire(n)
      BY <1>2, <2>3, <2>5, <2>6, <2>12 DEF NothingIsMissing
    <3>3. state.minuteBars \in Candles BY <1>3 DEF PageState
    <3> HIDE DEF m
    <3>4. Counted(state.minuteBars, m.trades, 0)[p] > 0 <=>
            \/ state.minuteBars[p] > 0
            \/ \E i \in DOMAIN m.trades : <<m.trades[i].symbol, m.trades[i].number>> = p
      BY <1>1, <3>1, <3>3, AllAreCounted
    <3>5. \A i \in DOMAIN m.trades : m.trades[i].symbol = state.symbol
      BY <1>1, <2>2 DEF MessagesAreExact, m
    <3> QED BY <2>1, <2>2, <2>9, <3>2, <3>4, <3>5
  <2> QED BY <2>11, <2>12 DEF NothingIsMissing
<1> QED BY <1>1, <1>5, <1>6 DEF Message


LEMMA MissingAfterRead ==
  ASSUME ServerTyped, PageTyped, StreamIsChained, RunsGoOn, MessagesAreReached, NothingIsMissing, RangeRead
  PROVE  NothingIsMissing'
<1> PICK q \in ranges :
      /\ q.upTo = -1
      /\ ranges' = (ranges \ {q}) \cup
           {[q EXCEPT !.upTo = IF playing = q.symbol THEN tapes[q.symbol].position ELSE 0]}
  BY DEF RangeRead
<1> DEFINE position == IF playing = q.symbol THEN tapes[q.symbol].position ELSE 0
           a == [q EXCEPT !.upTo = position]
<1>1. UNCHANGED <<mode, tapes, playing, state, wire, sent, drops, failed>>
  BY DEF RangeRead, server, history
<1>2. q \in RangeQuestion BY DEF PageTyped
<1>3. a.ticket = q.ticket /\ a.symbol = q.symbol /\ a.generation = q.generation /\ a.upTo = position
  BY <1>2 DEF RangeQuestion
<1>4. ranges' = (ranges \ {q}) \cup {a} OBVIOUS
<1> HIDE DEF a, position
<1> SUFFICES ASSUME OnRun' PROVE NothingIsMissing' BY DEF NothingIsMissing
<1>5. OnRun BY <1>1 DEF OnRun, SnapshotUnderWay
<1>6. IsCurrent(state, a) <=> IsCurrent(state, q) BY <1>3 DEF IsCurrent
<1>7. /\ \A n : OnScreen(n) => OnScreen(n)'
      /\ \A n : OnWire(n) => OnWire(n)'
  BY <1>1 DEF OnScreen, Shown, OnWire
<1>8. ASSUME NEW r \in ranges', IsCurrent(state, r), r.upTo >= 0, NEW n \in 1 .. sent.upTo
      PROVE  n <= r.upTo \/ OnScreen(n)' \/ OnWire(n)'
  <2>1. CASE r \in ranges BY <1>5, <1>7, <1>8, <2>1 DEF NothingIsMissing
  <2>2. CASE r = a
    <3>1. q.symbol = state.symbol /\ playing = state.symbol
      BY <1>5, <1>6, <1>8, <2>2 DEF IsCurrent, OnRun
    <3>2. r.upTo = tapes[state.symbol].position BY <1>3, <2>2, <3>1 DEF position
    <3>3. sent.upTo <= tapes[state.symbol].position BY <1>5, SentOnRun
    <3>4. sent.upTo \in Int /\ tapes[state.symbol].position \in Int
      <4>1. state.symbol \in Symbols BY <1>5 DEF OnRun, ServerTyped
      <4> QED BY <4>1, BrowserAssumption, SMTT(30) DEF ServerTyped
    <3> QED BY <3>2, <3>3, <3>4
  <2> QED BY <1>4, <2>1, <2>2
<1>9. ASSUME \A r \in ranges' : ~IsCurrent(state, r)
      PROVE  \A n \in 1 .. sent.upTo : state.minuteBars[<<state.symbol, n>>] > 0 \/ OnWire(n)'
  <2>1. \A r \in ranges : ~IsCurrent(state, r) BY <1>4, <1>6, <1>9
  <2> QED BY <1>5, <1>7, <2>1 DEF NothingIsMissing
<1> QED BY <1>1, <1>8, <1>9 DEF NothingIsMissing

LEMMA MissingAfterArrives ==
  ASSUME ServerTyped, PageTyped, StreamIsChained, RunsGoOn, ScreenIsExact, MessagesAreReached,
         TicketsTellApart, NothingIsMissing, RangeArrives
  PROVE  NothingIsMissing'
<1> PICK q \in ranges :
      /\ q.upTo >= 0
      /\ ranges' = ranges \ {q}
      /\ state' = IF IsCurrent(state, q) THEN Replaced(state, q) ELSE state
  BY DEF RangeArrives
<1>1. UNCHANGED <<mode, tapes, playing, wire, sent, drops, failed>> BY DEF RangeArrives, server, history
<1>2. q \in RangeQuestion /\ state \in PageState BY DEF PageTyped
<1> SUFFICES ASSUME OnRun' PROVE NothingIsMissing' BY DEF NothingIsMissing
<1>3. \A n : OnWire(n) => OnWire(n)' BY <1>1 DEF OnWire
<1>4. CASE IsCurrent(state, q)
  <2> DEFINE bars == Replaced(state, q).minuteBars
  <2>1. /\ Replaced(state, q) = [state EXCEPT !.minuteBars = bars]
        /\ \A p \in Symbols \X (1 .. Length) :
             bars[p] > 0 <=>
               \/ p[1] = q.symbol /\ p[2] <= q.upTo
               \/ /\ ~state.pendingReplayReset
                  /\ \E i \in DOMAIN state.trades :
                       state.trades[i].number > q.upTo
                       /\ <<state.trades[i].symbol, state.trades[i].number>> = p
    BY <1>2, ReplacedLeaves
  <2>2. state' = [state EXCEPT !.minuteBars = bars] BY <1>4, <2>1
  <2> HIDE DEF bars
  <2>3. /\ state'.symbol = state.symbol /\ state'.generation = state.generation
        /\ state'.ticket = state.ticket /\ state'.minuteBars = bars
    BY <1>2, <2>2 DEF PageState
  <2>4. OnRun BY <1>1, <2>3 DEF OnRun, SnapshotUnderWay
  <2>5. ASSUME NEW r \in ranges' PROVE ~IsCurrent(state', r)
    <3>1. r \in ranges /\ r # q OBVIOUS
    <3>2. r.ticket # q.ticket BY <3>1 DEF TicketsTellApart
    <3> QED BY <1>4, <2>3, <3>2 DEF IsCurrent
  <2>6. ASSUME NEW n \in 1 .. sent.upTo PROVE bars[<<state.symbol, n>>] > 0 \/ OnWire(n)'
    <3> DEFINE p == <<state.symbol, n>>
    <3>1. p \in Symbols \X (1 .. Length) BY <2>4, SentOnRun
    <3>2. n <= q.upTo \/ OnScreen(n) \/ OnWire(n) BY <1>4, <2>4 DEF NothingIsMissing
    <3>3. q.symbol = state.symbol BY <1>4 DEF IsCurrent
    <3>4. CASE n <= q.upTo BY <2>1, <3>1, <3>3, <3>4
    <3>5. CASE ~(n <= q.upTo) /\ OnScreen(n)
      <4> PICK i \in DOMAIN Shown : Shown[i].number = n BY <3>5 DEF OnScreen
      <4>1. ~state.pendingReplayReset /\ Shown = state.trades
        <5>1. CASE state.pendingReplayReset
          <6>1. Shown = <<>> BY <5>1 DEF Shown
          <6> QED BY <6>1
        <5>2. CASE ~state.pendingReplayReset BY <5>2 DEF Shown
        <5> QED BY <5>1, <5>2
      <4>2. RunOf(state.trades[i]) = <<state.symbol, state.generation>>
        BY <4>1 DEF ScreenIsExact, TapeOfOneRun, RunsOf
      <4>3. <<state.trades[i].symbol, state.trades[i].number>> = p BY <4>1, <4>2 DEF RunOf
      <4>4. n > q.upTo
        <5>1. n \in Int /\ q.upTo \in Int BY <1>2, BrowserAssumption DEF RangeQuestion
        <5> QED BY <3>5, <5>1
      <4>5. state.trades[i].number > q.upTo BY <4>1, <4>4
      <4> QED BY <2>1, <3>1, <4>1, <4>3, <4>5
    <3>6. CASE OnWire(n) BY <1>3, <3>6
    <3> QED BY <3>2, <3>4, <3>5, <3>6
  <2> QED BY <1>1, <2>3, <2>5, <2>6 DEF NothingIsMissing
<1>5. CASE ~IsCurrent(state, q)
  <2>1. state' = state BY <1>5
  <2>2. OnRun BY <1>1, <2>1 DEF OnRun, SnapshotUnderWay
  <2>3. \A n : OnScreen(n) => OnScreen(n)' BY <2>1 DEF OnScreen, Shown
  <2>4. (\A r \in ranges' : ~IsCurrent(state, r)) => \A r \in ranges : ~IsCurrent(state, r) BY <1>5
  <2> QED BY <1>1, <1>3, <2>1, <2>2, <2>3, <2>4 DEF NothingIsMissing
<1> QED BY <1>4, <1>5

LEMMA NothingMissingKept ==
  ASSUME ServerTyped, PageTyped, NavStands, MessagesAreExact, StreamIsChained, RunsGoOn, ScreenIsExact,
         MessagesAreReached, ScreenIsReached, TicketsTellApart, NothingIsMissing, [Next]_vars
  PROVE  NothingIsMissing'
<1>0. state \in PageState BY DEF PageTyped
<1>1. CASE Streams BY <1>1, MissingAfterStreams
<1>2. CASE Hears BY <1>2, MissingAfterHears
<1>3. CASE RangeRead BY <1>3, MissingAfterRead
<1>4. CASE RangeArrives BY <1>4, MissingAfterArrives
<1>5. CASE Refreshes \/ PostAnswered
  <2>1. state' = Asked(state) /\ ranges' = ranges \cup {Question(state')} /\ state.symbol # NoSymbol
    BY <1>5 DEF Refreshes, PostAnswered, PageTyped
  <2>2. state'.ticket = state.ticket + 1 BY <1>0, <2>1, QuestionsAre
  <2> QED BY <2>1, <2>2, QuestionCovers
<1>6. CASE Disconnects
  <2>1. drops' # 0 BY <1>6 DEF Disconnects, ServerTyped
  <2> QED BY <2>1 DEF NothingIsMissing, OnRun
<1>7. CASE RangeFails \/ PostFails BY <1>7 DEF RangeFails, PostFails, NothingIsMissing, OnRun
<1>8. CASE Framed
  <2> SUFFICES ASSUME OnRun' PROVE NothingIsMissing' BY DEF NothingIsMissing
  <2>1. /\ UNCHANGED <<ranges, wire, sent, drops, failed>>
        /\ state'.symbol = state.symbol /\ state'.generation = state.generation
        /\ state'.minuteBars = state.minuteBars /\ state'.ticket = state.ticket /\ Shown' = Shown
    BY <1>8 DEF Framed, ScreenStays, Shown
  <2>2. OnRun
    <3>1. /\ mode = "replay" /\ drops = 0 /\ ~failed /\ state.symbol # NoSymbol /\ ~SnapshotUnderWay
          /\ state.symbol = playing' /\ state.generation = tapes'[state.symbol].generation
      BY <2>1, TapesAdvance DEF OnRun, SnapshotUnderWay
    <3>2. state.symbol \in Symbols BY <1>0, <3>1 DEF PageState
    <3>3. playing = state.symbol /\ state.generation = tapes[state.symbol].generation
      <4>1. CASE playing' = playing /\ \A s \in Symbols : tapes'[s].generation = tapes[s].generation
        BY <3>1, <3>2, <4>1
      <4>2. CASE tapes'[active].generation = tapes[active].generation + 1 /\ playing' = active
        <5>1. state.generation = tapes[state.symbol].generation + 1 BY <3>1, <4>2
        <5>2. state.generation <= tapes[state.symbol].generation BY <3>1 DEF ScreenIsReached, Reached
        <5>3. tapes[state.symbol].generation \in Nat BY <3>2 DEF ServerTyped
        <5> QED BY <5>1, <5>2, <5>3
      <4> QED BY <4>1, <4>2, TapesAdvance
    <3> QED BY <3>1, <3>3 DEF OnRun
  <2>3. \A q : IsCurrent(state', q) <=> IsCurrent(state, q) BY <2>1 DEF IsCurrent
  <2>4. \A n : (OnScreen(n) => OnScreen(n)') /\ (OnWire(n) => OnWire(n)') BY <2>1 DEF OnScreen, OnWire
  <2> QED BY <2>1, <2>2, <2>3, <2>4 DEF NothingIsMissing
<1> QED BY <1>1, <1>2, <1>3, <1>4, <1>5, <1>6, <1>7, <1>8, MissingStepKinds


-----------------------------------------------------------------------------
(* The ticker history.                                                       *)

\* What is settled when a command is given: no other is open, and a snapshot of the
\* server's symbol is shown or under way.
LEMMA DecidedMeans ==
  ASSUME ServerTyped, StreamIsChained, RunsGoOn, ~Undecided
  PROVE  /\ posts = {} /\ sent.symbol = active /\ sent.symbol # NoSymbol
         /\ state.symbol # active => SnapshotUnderWay
<1>1. posts = {} /\ sent.symbol = active BY DEF Undecided
<1>2. sent.symbol # NoSymbol BY <1>1, BrowserAssumption DEF ServerTyped
<1>3. ASSUME ~SnapshotUnderWay PROVE state.symbol = active
  <2>1. SameRun(Screen, sent) BY <1>2, <1>3, SentIsOfScreen
  <2> QED BY <1>1, <2>1 DEF SameRun, Screen
<1> QED BY <1>1, <1>2, <1>3

\* A command is the only one, and the one that moved the history if one did.
LEMMA WishAfterPosts ==
  ASSUME ServerTyped, StreamIsChained, RunsGoOn, NEW post, Posts(post), ~raced'
  PROVE  ~raced /\ ~Undecided /\ posts' = {post} /\ OneCommand'
<1>1. raced' = (raced \/ Undecided) /\ posts' = posts \cup {post} BY DEF Posts
<1>2. ~raced /\ ~Undecided BY <1>1
<1>3. posts = {} BY <1>2, DecidedMeans
<1> QED BY <1>1, <1>2, <1>3 DEF OneCommand

LEMMA WishKept ==
  ASSUME ServerTyped, PageTyped, NavStands, MessagesAreExact, StreamIsChained, RunsGoOn, WishIsUnderWay,
         [Next]_vars
  PROVE  WishIsUnderWay'
<1>0. state \in PageState /\ StandsInNav(state) BY DEF PageTyped, NavStands
<1> SUFFICES ASSUME ~raced'
             PROVE  /\ OneCommand'
                    /\ ~failed' /\ state'.symbol # NoSymbol /\ Wish' # state'.symbol =>
                         WishIsCommanded' /\ WishComes'
  BY DEF WishIsUnderWay
<1>1. CASE Streams
  <2> PICK m \in Message : Sends(m) BY <1>1, StreamsSends
  <2>1. UNCHANGED <<state, posts, failed, raced, active>> BY <1>1 DEF Streams, history
  <2>2. /\ Len(wire) + 1 \in DOMAIN wire' /\ wire'[Len(wire) + 1] = m
        /\ \A k \in DOMAIN wire : k \in DOMAIN wire' /\ wire'[k] = wire[k]
    BY SMTT(30) DEF Sends, ServerTyped
  <2>3. SnapshotUnderWay => SnapshotUnderWay' BY <2>2 DEF SnapshotUnderWay
  <2>4. sent.symbol = NoSymbol => SnapshotUnderWay'
    <3> SUFFICES ASSUME sent.symbol = NoSymbol PROVE SnapshotUnderWay' OBVIOUS
    <3>1. ~SameRun(sent, Told) BY BrowserAssumption DEF SameRun, Told, ServerTyped
    <3>2. m.type = "snapshot" BY <3>1 DEF Sends
    <3> QED BY <2>2, <3>2 DEF SnapshotUnderWay
  <2> QED BY <2>1, <2>3, <2>4 DEF WishIsUnderWay, OneCommand, WishIsCommanded, WishComes, Wish
<1>2. CASE Hears
  <2> DEFINE m == wire[1]
  <2>1. UNCHANGED <<posts, failed, raced, active, sent>> BY <1>2 DEF Hears, history
  <2>2. m \in Message BY <1>2, HearsTakes
  <2>3. OneCommand' BY <2>1 DEF WishIsUnderWay, OneCommand
  <2>4. CASE m.type = "snapshot"
    <3>1. state' = OnSnapshot(state, m) BY <1>2, <2>4, HearsShows
    <3>2. Wish' = m.symbol /\ state'.symbol = m.symbol BY <1>0, <2>2, <3>1, OnSnapshotLeaves DEF Wish
    <3> QED BY <2>3, <3>2
  <2>5. CASE m.type = "trades"
    <3>1. /\ state'.nav = state.nav /\ state'.navIndex = state.navIndex
          /\ SameRun(Screen, m) /\ SameRun(Screen', m)
      BY <1>2, <2>5, HearsShows
    <3>2. Wish' = Wish /\ state'.symbol = state.symbol BY <3>1 DEF Wish, SameRun, Screen
    <3>3. SnapshotUnderWay => SnapshotUnderWay'
      <4> SUFFICES ASSUME NEW k \in DOMAIN wire, wire[k].type = "snapshot" PROVE SnapshotUnderWay'
        BY DEF SnapshotUnderWay
      <4>1. k # 1 BY <2>5
      <4>2. k - 1 \in DOMAIN wire' /\ wire[k] = wire'[k - 1] BY <1>2, <4>1, HearsTakes
      <4> QED BY <4>2 DEF SnapshotUnderWay
    <3> QED BY <2>1, <2>3, <3>2, <3>3 DEF WishIsUnderWay, WishIsCommanded, WishComes
  <2> QED BY <2>2, <2>4, <2>5 DEF Message
<1>3. CASE Disconnects
  <2>1. UNCHANGED <<state, posts, failed, raced, active>> /\ sent'.symbol = NoSymbol
    BY <1>3 DEF Disconnects, Nothing
  <2> QED BY <2>1 DEF WishIsUnderWay, OneCommand, WishIsCommanded, WishComes, Wish
<1>4. CASE OthersSwitch
  <2>1. UNCHANGED <<state, posts, failed, wire, sent>> /\ raced' = (raced \/ Undecided)
    BY <1>4 DEF OthersSwitch
  <2>2. ~raced /\ ~Undecided BY <2>1
  <2>3. posts = {} /\ sent.symbol # NoSymbol /\ (state.symbol # active => SnapshotUnderWay)
    BY <2>2, DecidedMeans
  <2>4. SnapshotUnderWay => SnapshotUnderWay' BY <2>1 DEF SnapshotUnderWay
  <2>5. ~failed /\ state.symbol # NoSymbol /\ Wish # state.symbol => SnapshotUnderWay
    BY <2>2, <2>3 DEF WishIsUnderWay, WishComes
  <2> QED BY <2>1, <2>3, <2>4, <2>5 DEF OneCommand, WishIsCommanded, WishComes, Wish
<1>5. CASE SeeksTo
  <2> PICK p \in 0 .. Length :
        Posts([action |-> "seek", number |-> commands, target |-> p, done |-> FALSE])
    BY <1>5 DEF SeeksTo
  <2> DEFINE post == [action |-> "seek", number |-> commands, target |-> p, done |-> FALSE]
  <2>1. UNCHANGED <<state, failed, wire, sent, active>> BY <1>5 DEF SeeksTo, server
  <2>2. post.action = "seek" OBVIOUS
  <2> HIDE DEF post
  <2>3. ~raced /\ ~Undecided /\ posts' = {post} /\ OneCommand' BY WishAfterPosts DEF post
  <2>4. posts = {} BY <2>3, DecidedMeans
  <2>5. ~failed /\ state.symbol # NoSymbol /\ Wish # state.symbol =>
          active = Wish \/ SnapshotUnderWay \/ sent.symbol = NoSymbol
    BY <2>3, <2>4 DEF WishIsUnderWay, WishComes
  <2>6. Wish' = Wish /\ (SnapshotUnderWay => SnapshotUnderWay') BY <2>1 DEF Wish, SnapshotUnderWay
  <2>7. WishIsCommanded' BY <2>2, <2>3 DEF WishIsCommanded
  <2> QED BY <2>1, <2>3, <2>5, <2>6, <2>7 DEF WishComes
<1>6. CASE Switches
  <2> PICK s \in Symbols :
        /\ state' = Navigated(state, s)
        /\ Posts([action |-> "ticker", number |-> commands, target |-> s, done |-> FALSE])
    BY <1>6 DEF Switches
  <2> DEFINE post == [action |-> "ticker", number |-> commands, target |-> s, done |-> FALSE]
  <2>1. post.action = "ticker" /\ post.target = s OBVIOUS
  <2> HIDE DEF post
  <2>2. posts' = {post} /\ OneCommand' BY WishAfterPosts DEF post
  <2>3. Wish' = s BY <1>0, NavigatedStands DEF Wish, StandsInNav
  <2> QED BY <2>1, <2>2, <2>3 DEF WishIsCommanded, WishComes
<1>7. CASE Navigates
  <2> PICK i \in DOMAIN state.nav :
        /\ state' = [state EXCEPT !.navIndex = i]
        /\ Posts([action |-> "ticker", number |-> commands, target |-> state.nav[i], done |-> FALSE])
    BY <1>7 DEF Navigates
  <2> DEFINE post == [action |-> "ticker", number |-> commands, target |-> state.nav[i], done |-> FALSE]
  <2>1. post.action = "ticker" /\ post.target = state.nav[i] OBVIOUS
  <2> HIDE DEF post
  <2>2. posts' = {post} /\ OneCommand' BY WishAfterPosts DEF post
  <2>3. Wish' = state.nav[i] BY <1>0 DEF Wish, PageState
  <2> QED BY <2>1, <2>2, <2>3 DEF WishIsCommanded, WishComes
<1>8. CASE PostHandled
  <2> PICK post \in posts :
        IF post.action = "seek"
        THEN active' = active /\ posts' = (posts \ {post}) \cup {[post EXCEPT !.done = TRUE]}
        ELSE active' = post.target /\ posts' = posts \ {post}
    BY <1>8 DEF PostHandled
  <2>1. UNCHANGED <<state, wire, sent, failed, raced>> BY <1>8 DEF PostHandled, history
  <2>2. PostTyped(post) /\ OneCommand BY <2>1 DEF PageTyped, WishIsUnderWay
  <2>3. posts = {post} BY <2>2 DEF OneCommand
  <2>4. Wish' = Wish /\ (SnapshotUnderWay => SnapshotUnderWay') BY <2>1 DEF Wish, SnapshotUnderWay
  <2>5. CASE post.action = "seek"
    <3> DEFINE done == [post EXCEPT !.done = TRUE]
    <3>1. done.action = "seek" BY <2>2, <2>5 DEF PostTyped
    <3> HIDE DEF done
    <3>2. posts' = {done} /\ active' = active BY <2>3, <2>5 DEF done
    <3>3. OneCommand' /\ WishIsCommanded' BY <3>1, <3>2 DEF OneCommand, WishIsCommanded
    <3>4. ~failed /\ state.symbol # NoSymbol /\ Wish # state.symbol =>
            active = Wish \/ SnapshotUnderWay \/ sent.symbol = NoSymbol
      BY <2>1, <2>3, <2>5 DEF WishIsUnderWay, WishComes
    <3> QED BY <2>1, <2>4, <3>2, <3>3, <3>4 DEF WishComes
  <2>6. CASE post.action # "seek"
    <3>1. post.action = "ticker" BY <2>2, <2>6 DEF PostTyped
    <3>2. posts' = {} /\ active' = post.target BY <2>3, <2>6
    <3>3. ~failed /\ state.symbol # NoSymbol /\ Wish # state.symbol => post.target = Wish
      BY <2>1, <3>1 DEF WishIsUnderWay, WishIsCommanded
    <3> QED BY <2>1, <2>4, <3>2, <3>3 DEF OneCommand, WishIsCommanded, WishComes
  <2> QED BY <2>5, <2>6
<1>9. CASE PostAnswered
  <2> PICK post \in posts : post.done /\ posts' = posts \ {post} BY <1>9 DEF PostAnswered
  <2>1. /\ UNCHANGED <<active, wire, sent, failed, raced>>
        /\ state' = Asked(state) /\ state.symbol # NoSymbol
    BY <1>9 DEF PostAnswered, server, history, PageTyped
  <2>2. Wish' = Wish /\ state'.symbol = state.symbol BY <1>0, <2>1, QuestionsAre DEF Wish
  <2>3. post.action # "ticker" BY DEF PageTyped, PostTyped
  <2>4. OneCommand' /\ (SnapshotUnderWay => SnapshotUnderWay')
    BY <2>1 DEF WishIsUnderWay, OneCommand, SnapshotUnderWay
  <2>5. (\E p \in posts : p.action = "ticker") => \E p \in posts' : p.action = "ticker" BY <2>3
  <2> QED BY <2>1, <2>2, <2>4, <2>5 DEF WishIsUnderWay, WishIsCommanded, WishComes
<1>10. CASE RangeFails \/ PostFails
  <2>1. failed' /\ posts' \subseteq posts /\ raced' = raced BY <1>10 DEF RangeFails, PostFails
  <2> QED BY <2>1 DEF WishIsUnderWay, OneCommand
<1>11. CASE /\ state'.nav = state.nav /\ state'.navIndex = state.navIndex /\ state'.symbol = state.symbol
            /\ UNCHANGED <<active, wire, sent, posts, failed, raced>>
  BY <1>11 DEF WishIsUnderWay, OneCommand, WishIsCommanded, WishComes, Wish, SnapshotUnderWay
<1>12. CASE PrintsOne \/ RangeRead \/ Reconnects \/ UNCHANGED vars
  BY <1>11, <1>12 DEF PrintsOne, RangeRead, Reconnects, vars, server, history
<1>13. CASE Refreshes
  <2>1. state' = Asked(state) /\ state.symbol # NoSymbol BY <1>13 DEF Refreshes
  <2>2. state'.nav = state.nav /\ state'.navIndex = state.navIndex /\ state'.symbol = state.symbol
    BY <1>0, <2>1, QuestionsAre
  <2> QED BY <1>11, <1>13, <2>2 DEF Refreshes, server, history
<1>14. CASE RangeArrives
  <2> PICK q \in ranges : state' = IF IsCurrent(state, q) THEN Replaced(state, q) ELSE state
    BY <1>14 DEF RangeArrives
  <2>1. state'.nav = state.nav /\ state'.navIndex = state.navIndex /\ state'.symbol = state.symbol
    BY <1>0 DEF Replaced, PageState
  <2> QED BY <1>11, <1>14, <2>1 DEF RangeArrives, server, history
<1> QED BY <1>1, <1>2, <1>3, <1>4, <1>5, <1>6, <1>7, <1>8, <1>9, <1>10, <1>12, <1>13, <1>14
        DEF Next, Server, Page


-----------------------------------------------------------------------------
(* The invariant and the theorems.                                          *)

\* The inductive invariant.  The chain of messages and the limits on what is ahead lean
\* on each other; the last two parts use all the others.
BrowserInv ==
  /\ ServerTyped /\ PageTyped /\ NavStands
  /\ MessagesAreExact /\ StreamIsChained /\ RunsGoOn /\ ScreenIsExact
  /\ MessagesAreReached /\ ScreenIsReached /\ AnswersAreReached /\ CandlesAreReached
  /\ TicketsTellApart /\ NothingIsMissing
  /\ WishIsUnderWay

LEMMA BrowserInit ==
  ASSUME Init
  PROVE  BrowserInv
<1> USE DEF Init
<1>1. /\ wire = <<>> /\ ranges = {} /\ posts = {} /\ sent = Nothing /\ up = TRUE /\ drops = 0
      /\ state.symbol = NoSymbol /\ state.trades = <<>> /\ state.minuteBars = NoCandles
      /\ state.chartKey = NoSymbol /\ state.nav = <<>> /\ state.navIndex = 0
      /\ state.pendingReplayReset = FALSE
  OBVIOUS
<1>2. Nothing.symbol = NoSymbol /\ Nothing \in [symbol : Symbols \cup {NoSymbol}, generation : Nat, upTo : 0 .. Length]
  BY BrowserAssumption DEF Nothing
<1>3. ServerTyped
  <2>1. tapes \in [Symbols -> [generation : Nat \ {0}, from : 0 .. Length, position : 0 .. Length]]
    BY BrowserAssumption
  <2>2. \A s \in Symbols : tapes[s].from <= tapes[s].position OBVIOUS
  <2> QED BY <1>1, <1>2, <2>1, <2>2, BrowserAssumption DEF ServerTyped
<1>4. PageTyped
  <2>1. NoCandles \in Candles BY NoCandlesCountNothing DEF NoCandlesTyped
  <2>2. state \in PageState BY <2>1 DEF PageState
  <2> QED BY <1>1, <2>2 DEF PageTyped
<1>5. NavStands BY <1>1 DEF NavStands, StandsInNav
<1>6. MessagesAreExact BY <1>1 DEF MessagesAreExact
<1>7. StreamIsChained BY <1>1, <1>2 DEF StreamIsChained
<1>8. RunsGoOn BY <1>1 DEF RunsGoOn, SameRun
<1>9. ScreenIsExact BY <1>1 DEF ScreenIsExact, TapeOfOneRun, RunsOf
<1>10. MessagesAreReached BY <1>1, <1>2 DEF MessagesAreReached
<1>11. ScreenIsReached /\ AnswersAreReached BY <1>1 DEF ScreenIsReached, AnswersAreReached
<1>12. CandlesAreReached BY <1>1, NoCandlesCountNothing DEF CandlesAreReached, NoCandlesTyped
<1>13. TicketsTellApart BY <1>1 DEF TicketsTellApart
<1>14. NothingIsMissing BY <1>1 DEF NothingIsMissing, OnRun
<1>15. WishIsUnderWay BY <1>1 DEF WishIsUnderWay, OneCommand
<1> QED BY <1>3, <1>4, <1>5, <1>6, <1>7, <1>8, <1>9, <1>10, <1>11, <1>12, <1>13, <1>14, <1>15
        DEF BrowserInv

LEMMA BrowserStep ==
  ASSUME BrowserInv, [Next]_vars
  PROVE  BrowserInv'
<1> USE DEF BrowserInv
<1>1. ServerTyped' /\ PageTyped' /\ NavStands' BY ServerTypesKept, PageTypesKept
<1>2. MessagesAreExact' /\ StreamIsChained' /\ RunsGoOn' /\ ScreenIsExact'
  BY MessagesKept, ChainKept, RunsKept, ScreenKept
<1>3. MessagesAreReached' /\ ScreenIsReached' BY MessagesReachedKept, ScreenReachedKept
<1>4. AnswersAreReached' BY <1>3, AnswersReachedKept
<1>5. CandlesAreReached' BY CandlesReachedKept
<1>6. TicketsTellApart' /\ NothingIsMissing' BY TicketsKept, NothingMissingKept
<1>7. WishIsUnderWay' BY WishKept
<1> QED BY <1>1, <1>2, <1>3, <1>4, <1>5, <1>6, <1>7

\* In step with the server, the candles are not ahead; and when everything has arrived
\* none is missing.
LEMMA AgreeMeans ==
  ASSUME BrowserInv
  PROVE  TapeAndCandlesAgree
<1> USE DEF BrowserInv
<1>1. TapeOfOneRun BY DEF ScreenIsExact
<1>2. CandlesNeverAhead
  <2> SUFFICES ASSUME InStep, mode = "replay", drops = 0,
                      NEW p \in DOMAIN state.minuteBars, state.minuteBars[p] > 0
               PROVE  p[1] = active /\ p[2] <= Tape.position
    BY DEF CandlesNeverAhead
  <2>1. state.symbol = active /\ state.generation = tapes[active].generation BY DEF InStep, Tape
  <2>2. p \in Symbols \X (1 .. Length) BY DEF PageTyped, PageState, Candles
  <2>3. p[1] = state.symbol /\ Reached(tapes, state.symbol, state.generation, p[2])
    BY <2>2 DEF CandlesAreReached
  <2> QED BY <2>1, <2>3 DEF Reached, Tape
<1>3. CandlesComplete
  <2> SUFFICES ASSUME Quiet, mode = "replay", playing = active, drops = 0, ~failed,
                      NEW n \in 1 .. Tape.position
               PROVE  state.minuteBars[<<active, n>>] > 0
    BY DEF CandlesComplete
  <2>1. /\ state.symbol = active /\ state.generation = tapes[active].generation
        /\ wire = <<>> /\ ranges = {} /\ sent.upTo = Tape.position
    BY DEF Quiet, InStep, Tape, Told
  <2>2. state.symbol # NoSymbol BY <2>1, BrowserAssumption DEF ServerTyped
  <2>3. OnRun BY <2>1, <2>2 DEF OnRun, SnapshotUnderWay
  <2>4. ~OnWire(n) BY <2>1 DEF OnWire
  <2> QED BY <2>1, <2>3, <2>4 DEF NothingIsMissing
<1> QED BY <1>1, <1>2, <1>3 DEF TapeAndCandlesAgree

\* Whatever arrives in whatever order, the tape on screen is one stretch of one run, no
\* candle is of a moment the replay has not reached, and none of the moments it has
\* reached is missing when everything has arrived (handleMessage, refreshReplayRange and
\* replaceReplayMinuteBars).
THEOREM TapeAndCandlesStayTogether == Spec => []TapeAndCandlesAgree
<1>1. Init => BrowserInv BY BrowserInit
<1>2. BrowserInv /\ [Next]_vars => BrowserInv' BY BrowserStep
<1>3. BrowserInv => TapeAndCandlesAgree BY AgreeMeans
<1> QED BY <1>1, <1>2, <1>3, PTL DEF Spec

\* The ticker history ends up on the symbol shown, whoever chose it, unless a command was
\* refused or two of them raced (pushNavigation, switchSymbol and navigateSymbol).
THEOREM HistoryKeepsUp == Spec => []NavigationFollows
<1>1. Init => BrowserInv BY BrowserInit
<1>2. BrowserInv /\ [Next]_vars => BrowserInv' BY BrowserStep
<1>3. BrowserInv => NavigationFollows
  <2> SUFFICES ASSUME BrowserInv, Quiet, ~failed, ~raced
               PROVE  state.nav[state.navIndex] = state.symbol
    BY DEF NavigationFollows
  <2>1. /\ state.symbol = active /\ wire = <<>> /\ posts = {} /\ sent.symbol = active
    BY DEF Quiet, InStep, Told
  <2>2. active # NoSymbol BY BrowserAssumption DEF BrowserInv, ServerTyped
  <2>3. state.symbol # NoSymbol /\ Wish # state.symbol => WishComes
    BY DEF BrowserInv, WishIsUnderWay
  <2> QED BY <2>1, <2>2, <2>3 DEF WishComes, SnapshotUnderWay, Wish
<1> QED BY <1>1, <1>2, <1>3, PTL DEF Spec

================================================================================
