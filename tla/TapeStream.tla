------------------------------ MODULE TapeStream ------------------------------
(***************************************************************************)
(* One browser connection (handleWebSocket in internal/server/server.go) on  *)
(* top of the tape store: a snapshot on connecting, on a symbol change and on *)
(* a new generation, incremental prints pulled by sequence number otherwise.  *)
(*                                                                         *)
(* Each store call of the handler is a step of its own, so that every store   *)
(* call of another goroutine can come between any two of them.  The messages  *)
(* are applied by the browser when they are sent; a lost connection is        *)
(* followed by a new one, whose handler starts over.  The status and ping      *)
(* tickers carry nothing of the tape and are left out.                        *)
(***************************************************************************)
EXTENDS TapeStore

CONSTANTS SnapshotTrades,  \* cfg.Tape.SnapshotTrades
          MaxBatch,        \* cfg.Tape.WebSocketMaxBatch
          DrainLimit,      \* Since calls per tick: 8 in the code
          MaxConnects      \* bound on the connections a browser makes

\* What the validation of the configuration guarantees (config.go), and the code's 8.
StreamBounds ==
  /\ SnapshotTrades \in Nat \ {0} /\ MaxBatch \in Nat \ {0}
  /\ DrainLimit \in Nat \ {0} /\ MaxConnects \in Nat \ {0}

VARIABLES phase,       \* where the handler is
          todo,        \* the reads that are left after a snapshot was sent
          symbol,      \* the handler's symbol, seq, generation and lastQuote
          seq,
          generation,
          lastQuote,
          reading,     \* the snapshot being read, and the tape it is read from
          drained,     \* Since calls made in this tick
          shown,       \* what the browser has been given
          connects,    \* connections made
          warmup       \* history: the numbers each symbol's rebuilds were published with

session == <<phase, todo, symbol, seq, generation, lastQuote, reading, drained, shown,
             connects, warmup>>
streamVars == <<vars, session>>

Phases == {"connect", "snapshot", "stamp", "finish", "tick", "check", "drain"}

NotReading == [object |-> 0, generation |-> 0, numbers |-> <<>>, quote |-> NoQuote]

\* The browser's view.  `numbers` are the sequence numbers of the prints it was
\* given since its last snapshot, the `hydrated` ones of the snapshot first; `start`
\* is the number before the first; `sources` the generations its deltas came from.
NothingShown == [symbol |-> DefaultSymbol, stamp |-> 0, start |-> 0, hydrated |-> 0,
                 numbers |-> <<>>, dropped |-> 0, quote |-> NoQuote, sources |-> {}]

StreamTypeOK ==
  /\ phase \in Phases
  /\ todo \in {<<>>, <<"quote">>, <<"generation">>, <<"quote", "generation">>,
               <<"generation", "quote">>}
  /\ symbol \in Symbols
  /\ seq \in Nat /\ generation \in Nat /\ lastQuote \in Quote
  /\ reading \in [object : Nat, generation : Nat, numbers : Seq(Nat), quote : Quote]
  /\ drained \in 0 .. DrainLimit - 1
  /\ shown \in [symbol : Symbols, stamp : Nat, start : Nat, hydrated : Nat,
                numbers : Seq(Nat), dropped : Nat, quote : Quote, sources : SUBSET Nat]
  /\ connects \in 1 .. MaxConnects
  /\ warmup \in [Symbols -> SUBSET Nat]

StreamInit ==
  /\ Init
  /\ phase = "connect" /\ todo = <<>> /\ symbol = DefaultSymbol
  /\ seq = 0 /\ generation = 0 /\ lastQuote = NoQuote
  /\ reading = NotReading /\ drained = 0 /\ shown = NothingShown /\ connects = 1
  /\ warmup = [s \in Symbols |-> {}]

Numbers(trades) == [i \in DOMAIN trades |-> trades[i].seq]

-----------------------------------------------------------------------------
(* The handler.                                                              *)

StartSnapshot(reads) ==
  /\ phase' = "snapshot"
  /\ todo' = reads

Connect ==
  /\ phase = "connect"
  /\ symbol' = active
  /\ StartSnapshot(<<"quote", "generation">>)
  /\ UNCHANGED <<vars, seq, generation, lastQuote, reading, drained, shown, connects, warmup>>

\* Store.Snapshot, first half: the trades and the quote under the tape's lock.
ReadSnapshot ==
  /\ phase = "snapshot"
  /\ reading' = [object |-> object[symbol], generation |-> tapes[symbol].generation,
                 numbers |-> Numbers(SnapshotOf(tapes[symbol], SnapshotTrades)),
                 quote |-> tapes[symbol].quote]
  /\ phase' = "stamp"
  /\ UNCHANGED <<vars, todo, symbol, seq, generation, lastQuote, drained, shown, connects, warmup>>

\* Store.Snapshot, second half, and writeSnapshot: the generation of the same
\* tape object under a lock of its own, and the message.
SendSnapshot ==
  LET n == Len(reading.numbers)
  IN /\ phase = "stamp"
     /\ shown' = [symbol |-> symbol, stamp |-> reading.generation,
                  start |-> IF n = 0 THEN 0 ELSE reading.numbers[1] - 1,
                  hydrated |-> n, numbers |-> reading.numbers, dropped |-> 0,
                  quote |-> reading.quote, sources |-> {}]
     /\ seq' = IF n = 0 THEN 0 ELSE reading.numbers[n]
     /\ reading' = NotReading
     /\ phase' = "finish"
     /\ UNCHANGED <<vars, todo, symbol, generation, lastQuote, drained, connects, warmup>>

\* What the handler still reads after a snapshot, each in a store call.
Finish ==
  /\ phase = "finish"
  /\ IF todo = <<>>
       THEN phase' = "tick" /\ UNCHANGED <<todo, generation, lastQuote>>
     ELSE /\ todo' = Tail(todo)
          /\ generation' = IF Head(todo) = "generation" THEN tapes[symbol].generation
                           ELSE generation
          /\ lastQuote' = IF Head(todo) = "quote" THEN tapes[symbol].quote ELSE lastQuote
          /\ phase' = phase
  /\ UNCHANGED <<vars, symbol, seq, reading, drained, shown, connects, warmup>>

\* The batch ticker fires: has the symbol changed?
Tick ==
  /\ phase = "tick"
  /\ symbol' = active
  /\ IF active # symbol THEN StartSnapshot(<<"generation", "quote">>)
     ELSE phase' = "check" /\ todo' = todo
  /\ UNCHANGED <<vars, seq, generation, lastQuote, reading, drained, shown, connects, warmup>>

\* Mutant of Check: the new generation is not remembered.
Check_ForgetsGeneration ==
  /\ phase = "check"
  /\ IF tapes[symbol].generation # generation THEN StartSnapshot(<<"quote">>)
     ELSE phase' = "drain" /\ todo' = todo
  /\ drained' = 0
  /\ UNCHANGED <<vars, symbol, seq, generation, lastQuote, reading, shown, connects, warmup>>

\* Has the tape been replaced?  The generation read here is the one that is
\* remembered, after a snapshot that is read later.
Check ==
  /\ phase = "check"
  /\ generation' = tapes[symbol].generation
  /\ IF generation' # generation THEN StartSnapshot(<<"quote">>)
     ELSE phase' = "drain" /\ todo' = todo
  /\ drained' = 0
  /\ UNCHANGED <<vars, symbol, seq, lastQuote, reading, shown, connects, warmup>>

\* One "trades" message.
Deliver(r) ==
  /\ seq' = IF r.trades = <<>> THEN seq ELSE r.trades[Len(r.trades)].seq
  /\ lastQuote' = tapes[symbol].quote
  /\ shown' = [shown EXCEPT !.numbers = @ \o Numbers(r.trades), !.dropped = @ + r.dropped,
                 !.quote = tapes[symbol].quote,
                 !.sources = IF r.trades = <<>> THEN @ ELSE @ \cup {r.generation}]

NothingNew(r) == r.trades = <<>> /\ r.dropped = 0 /\ tapes[symbol].quote = lastQuote

EndTick ==
  /\ phase' = "tick"
  /\ drained' = 0
  /\ UNCHANGED <<seq, lastQuote, shown>>

\* Mutant of Drain: prints of a tape that was replaced since the check are delivered.
Drain_AnyGeneration ==
  LET r == SinceOf(tapes[symbol], seq, MaxBatch)
  IN /\ phase = "drain"
     /\ IF NothingNew(r) THEN EndTick
        ELSE /\ Deliver(r)
             /\ IF r.more /\ drained + 1 < DrainLimit
                  THEN phase' = phase /\ drained' = drained + 1
                ELSE phase' = "tick" /\ drained' = 0
     /\ UNCHANGED <<vars, todo, symbol, generation, reading, connects, warmup>>

\* One round of the drain loop: Store.Since reads prints, quote and generation
\* under one lock.
Drain ==
  LET r == SinceOf(tapes[symbol], seq, MaxBatch)
  IN /\ phase = "drain"
     /\ IF r.generation # generation \/ NothingNew(r) THEN EndTick
        ELSE /\ Deliver(r)
             /\ IF r.more /\ drained + 1 < DrainLimit
                  THEN phase' = phase /\ drained' = drained + 1
                ELSE phase' = "tick" /\ drained' = 0
     /\ UNCHANGED <<vars, todo, symbol, generation, reading, connects, warmup>>

\* The connection is lost; the browser keeps its screen and connects again.
Reconnect ==
  /\ phase # "connect"
  /\ connects < MaxConnects
  /\ connects' = connects + 1
  /\ phase' = "connect" /\ todo' = <<>> /\ reading' = NotReading /\ drained' = 0
  /\ UNCHANGED <<vars, symbol, seq, generation, lastQuote, shown, warmup>>

Handler == Connect \/ ReadSnapshot \/ SendSnapshot \/ Finish \/ Tick \/ Check \/ Drain

\* Another goroutine's store call.  A handler between the two halves of Snapshot
\* holds a pointer: it sees a Clear of that tape, but not a tape published over it.
StoreCall ==
  /\ Next
  /\ reading' = IF phase = "stamp" /\ object'[symbol] = reading.object
                  THEN [reading EXCEPT !.generation = tapes'[symbol].generation]
                ELSE reading
  /\ warmup' = [s \in Symbols |->
                  IF object'[s] # object[s] /\ stage' # stage
                    THEN warmup[s] \cup {Contents(tapes'[s])[i].seq : i \in 1 .. tapes'[s].count}
                  ELSE warmup[s]]
  /\ UNCHANGED <<phase, todo, symbol, seq, generation, lastQuote, drained, shown, connects>>

StreamNext == Handler \/ Reconnect \/ StoreCall

\* The handler's goroutine keeps running while it is connected: its ticker fires
\* again and again and its store calls return.  Nothing else has to happen.
StreamSpec == StreamInit /\ [][StreamNext]_streamVars /\ WF_streamVars(Handler)

-----------------------------------------------------------------------------
(* What the browser may rely on.                                             *)

\* Every number after the place the browser started from was delivered once and
\* in order, or counted as LAGGED: across batches, drains that were cut short,
\* ring overruns, clears and swaps (handleWebSocket, Store.Since).
EveryNumberAccounted ==
  LET n == Len(shown.numbers)
  IN /\ \A i \in 1 .. n - 1 : shown.numbers[i] < shown.numbers[i + 1]
     /\ n > 0 => shown.numbers[n] - shown.start = n + shown.dropped
     /\ n = 0 => shown.dropped = 0
     /\ phase \notin {"connect", "snapshot", "stamp"} =>
          seq = IF n = 0 THEN 0 ELSE shown.numbers[n]

\* Between two snapshots the browser never gets prints of two generations: the
\* guard in the drain loop against a tape replaced after the check.
DeltasOfOneGeneration == Cardinality(shown.sources) <= 1

\* While the handler follows the generation its snapshot was stamped with, the
\* prints a rebuild was published with are never delivered incrementally
\* (server.go, the comment in the drain loop; Store.Since).
FollowedGenerationHasNoWarmup ==
  generation = shown.stamp =>
    \A i \in shown.hydrated + 1 .. Len(shown.numbers) :
      shown.numbers[i] \notin warmup[shown.symbol]

\* handleWebSocket, Store.Since: every number after the browser's starting place is delivered
\* once and in order or counted as lagged; the deltas between two snapshots are of one
\* generation, and never the prints that a followed generation was published with.
StreamExact ==
  /\ StreamTypeOK
  /\ EveryNumberAccounted
  /\ DeltasOfOneGeneration
  /\ FollowedGenerationHasNoWarmup

\* What the browser ends up with once the store has come to rest: the active symbol and its
\* newest print, and, if anything was sent after its snapshot, the current quote.
UpToDate ==
  /\ shown.symbol = active /\ symbol = active
  /\ generation = tapes[active].generation
  /\ tapes[active].count > 0 =>
       /\ shown.numbers # <<>>
       /\ shown.numbers[Len(shown.numbers)] = NewestSeq(tapes[active])
  /\ lastQuote = tapes[active].quote
  /\ shown.sources # {} => shown.quote = tapes[active].quote
=============================================================================
