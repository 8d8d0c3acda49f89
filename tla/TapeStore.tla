------------------------------ MODULE TapeStore ------------------------------
(***************************************************************************)
(* The in-memory tape store (type Store in internal/tape/store.go): one tape  *)
(* per symbol, the active symbol and its recent history, and the rebuild      *)
(* stages that replace a whole tape in one swap.                             *)
(*                                                                         *)
(* Every action is one store call.  A call takes the store lock to find the   *)
(* tape and the tape lock to change it; nothing replaces a tape between the    *)
(* two, because in replay mode - the only mode that replaces tapes - both the   *)
(* writers (applyCurrent) and Commit run under Replay.mu.                     *)
(*                                                                         *)
(* s.tapes is a map of pointers.  object[s] names the object s.tapes[s]       *)
(* points at: 0 is nil, and every allocation that the map comes to point at    *)
(* gets the next number.  While object[s] = 0, tapes[s] holds the tape that    *)
(* getOrCreate would allocate.                                               *)
(***************************************************************************)
EXTENDS SymbolTape, FiniteSets

CONSTANTS Symbols,         \* usable ticker symbols
          DefaultSymbol,   \* NewStore's defaultSymbol
          Builders,        \* callers that may each hold one rebuild stage
          HistorySize,     \* how many recent symbols are kept
          Prints,          \* the prints feeds and recordings offer
          RecordedTags,    \* the <<class, side>> pairs recordings carry
          TopsOfBook,      \* the <<bid, ask>> updates feeds offer; 0 = absent
          LastTrades,      \* the <<price, ms>> of provider snapshots
          DayVolumes,      \* the stamps of accumulated day volumes
          Closes,          \* the previous closes feeds supply
          MaxSeq,          \* bound on the sequence numbers assigned
          MaxGeneration    \* bound on a symbol's generations

ASSUME StoreAssumption ==
  /\ DefaultSymbol \in Symbols
  /\ HistorySize \in Nat \ {0}
  /\ Prints \subseteq OfferedPrint
  /\ RecordedTags \subseteq (Classes \cup {""}) \X Sides
  /\ TopsOfBook \subseteq Nat \X Nat
  /\ LastTrades \subseteq Nat \X Nat
  /\ DayVolumes \subseteq Nat
  /\ Closes \subseteq Nat

VARIABLES tapes,     \* the published tapes
          object,    \* which tape object each symbol points at
          active,    \* the symbol on screen
          history,   \* recent symbols, the active one first
          stage      \* stage[b]: the RebuildStage builder b holds

vars == <<tapes, object, active, history, stage>>

NoStage == [held |-> FALSE]

\* `base` is a history field: the whole tape the stage was prepared from, of
\* which the code keeps the three fields that Commit compares.
Stage == [held : {TRUE}, symbol : Symbols, previous : Nat, base : Tape, tape : Tape]

TypeOK ==
  /\ tapes \in [Symbols -> Tape]
  /\ object \in [Symbols -> Nat]
  /\ active \in Symbols
  /\ history \in Seq(Symbols)
  /\ stage \in [Builders -> Stage \cup {NoStage}]

Init ==
  /\ tapes = [s \in Symbols |-> NewTape]
  /\ object = [s \in Symbols |-> IF s = DefaultSymbol THEN 1 ELSE 0]
  /\ active = DefaultSymbol
  /\ history = <<DefaultSymbol>>
  /\ stage = [b \in Builders |-> NoStage]

-----------------------------------------------------------------------------
(* Writers of a published tape.                                              *)

\* getOrCreate: a symbol that has no tape yet gets one.
GotOrCreated(s) ==
  object' = [object EXCEPT ![s] = IF @ = 0 THEN 1 ELSE @]

Write(s, tape) ==
  /\ GotOrCreated(s)
  /\ tapes' = [tapes EXCEPT ![s] = tape]
  /\ UNCHANGED <<active, history, stage>>

\* Mutants of MovedToFront: the moved symbol keeps its old place as well; a full
\* history lets go of its first entry rather than its last.
MovedToFront_KeepsOldPlace(s) ==
  <<s>> \o SubSeq(history, 1, Least(Len(history), HistorySize - 1))
MovedToFront_EvictsFirst(s) ==
  LET others == SelectSeq(history, LAMBDA item : item # s)
  IN <<s>> \o IF Len(others) < HistorySize THEN others ELSE Tail(others)

\* Most recently used first, at most HistorySize symbols: s leaves its place
\* (`at`, past the end if it has none), the ones before it move back by one.
MovedToFront(s) ==
  LET places == {i \in DOMAIN history : history[i] = s}
      at == IF places = {} THEN Len(history) + 1 ELSE CHOOSE i \in places : TRUE
      n == Least(HistorySize, IF places = {} THEN Len(history) + 1 ELSE Len(history))
  IN [j \in 1 .. n |-> IF j = 1 THEN s ELSE IF j <= at THEN history[j - 1] ELSE history[j]]

Activate(s) ==
  /\ GotOrCreated(s)
  /\ active' = s
  /\ history' = MovedToFront(s)
  /\ UNCHANGED <<tapes, stage>>

UpdateQuote(s, top) ==
  Write(s, [tapes[s] EXCEPT !.quote = QuoteUpdated(@, top[1], top[2])])

ClearTopOfBook(s) ==
  Write(s, [tapes[s] EXCEPT !.quote = TopOfBookCleared(@)])

UpdateLastPrice(s, last) ==
  Write(s, [tapes[s] EXCEPT !.quote = LastPriceUpdated(@, last[1], last[2])])

UpdateDayVolume(s, ms) ==
  /\ ms > 0
  /\ Write(s, [tapes[s] EXCEPT !.quote = DayVolumeUpdated(@, ms)])

UpdatePreviousClose(s, close) ==
  Write(s, [tapes[s] EXCEPT !.quote = PreviousCloseUpdated(@, close)])

AddTrade(s, p) ==
  /\ tapes[s].nextSeq <= MaxSeq
  /\ Write(s, Traded(tapes[s], p))

AddRecordedTrade(s, p, tag) ==
  /\ tapes[s].nextSeq <= MaxSeq
  /\ Write(s, Recorded(tapes[s], p, tag[1], tag[2]))

Clear(s) ==
  /\ tapes[s].generation < MaxGeneration
  /\ Write(s, Cleared(tapes[s]))

-----------------------------------------------------------------------------
(* Rebuild stages.                                                           *)

PrepareRebuild(b, s) ==
  /\ ~stage[b].held
  /\ tapes[s].generation < MaxGeneration
  /\ stage' = [stage EXCEPT ![b] =
       [held |-> TRUE, symbol |-> s, previous |-> object[s], base |-> tapes[s],
        tape |-> IF object[s] = 0 THEN NewTape ELSE StagedFrom(tapes[s])]]
  /\ UNCHANGED <<tapes, object, active, history>>

\* The caller streams one more event into its stage.
StageWrite(b, tape) ==
  /\ stage' = [stage EXCEPT ![b].tape = tape]
  /\ UNCHANGED <<tapes, object, active, history>>

StageQuote(b, top) ==
  /\ stage[b].held
  /\ StageWrite(b, [stage[b].tape EXCEPT !.quote = QuoteUpdated(@, top[1], top[2])])

StageTrade(b, p) ==
  /\ stage[b].held
  /\ stage[b].tape.nextSeq <= MaxSeq
  /\ StageWrite(b, Traded(stage[b].tape, p))

StageRecordedTrade(b, p, tag) ==
  /\ stage[b].held
  /\ stage[b].tape.nextSeq <= MaxSeq
  /\ StageWrite(b, Recorded(stage[b].tape, p, tag[1], tag[2]))

\* Mutant of Unchanged: only the pointer is compared.
Unchanged_PointerOnly(st) == object[st.symbol] = st.previous

\* Commit publishes only over the very tape the stage was based on, and only if
\* nothing a reader could have seen was written to it since.
Unchanged(st) ==
  /\ object[st.symbol] = st.previous
  /\ \/ st.previous = 0
     \/ /\ tapes[st.symbol].generation = st.base.generation
        /\ tapes[st.symbol].nextSeq = st.base.nextSeq
        /\ tapes[st.symbol].quote = st.base.quote

CommitPublishes(b) ==
  LET s == stage[b].symbol
  IN /\ stage[b].held
     /\ Unchanged(stage[b])
     /\ tapes' = [tapes EXCEPT ![s] = stage[b].tape]
     /\ object' = [object EXCEPT ![s] = @ + 1]
     /\ active' = s
     /\ history' = MovedToFront(s)
     /\ stage' = [stage EXCEPT ![b] = NoStage]

\* Commit returns false and its only caller, Cue, drops the stage; a failed read
\* drops it before Commit.
Discard(b) ==
  /\ stage[b].held
  /\ stage' = [stage EXCEPT ![b] = NoStage]
  /\ UNCHANGED <<tapes, object, active, history>>

-----------------------------------------------------------------------------
Next ==
  \/ \E s \in Symbols :
       \/ Activate(s)
       \/ \E top \in TopsOfBook : UpdateQuote(s, top)
       \/ ClearTopOfBook(s)
       \/ \E last \in LastTrades : UpdateLastPrice(s, last)
       \/ \E ms \in DayVolumes : UpdateDayVolume(s, ms)
       \/ \E close \in Closes : UpdatePreviousClose(s, close)
       \/ \E p \in Prints : AddTrade(s, p)
       \/ \E p \in Prints, tag \in RecordedTags : AddRecordedTrade(s, p, tag)
       \/ Clear(s)
       \/ \E b \in Builders : PrepareRebuild(b, s)
  \/ \E b \in Builders :
       \/ \E top \in TopsOfBook : StageQuote(b, top)
       \/ \E p \in Prints : StageTrade(b, p)
       \/ \E p \in Prints, tag \in RecordedTags : StageRecordedTrade(b, p, tag)
       \/ CommitPublishes(b)
       \/ Discard(b)

Spec == Init /\ [][Next]_vars

-----------------------------------------------------------------------------
(* Safety.                                                                   *)

\* Every ring, published or still being staged, is contiguous, however often it
\* wrapped, was cleared, or was continued from a replaced one.
RingsContiguous ==
  /\ \A s \in Symbols : RingContiguous(tapes[s])
  /\ \A b \in Builders : stage[b].held => RingContiguous(stage[b].tape)

\* A stage continues the tape it was prepared from: the next generation, and
\* only sequence numbers that tape had not assigned (PrepareRebuild).
StagesContinue ==
  \A b \in Builders : stage[b].held =>
    LET st == stage[b]
    IN /\ st.tape.nextSeq - st.tape.count >= st.base.nextSeq
       /\ st.previous # 0 => st.tape.generation = st.base.generation + 1
       /\ st.previous = 0 => st.tape.generation = st.base.generation

\* What a reader is owed by one tape, for every position it can ask from:
\* since() accounts for every number after seq exactly once - as delivered, as
\* dropped, or as still to come - and rangeSeq() gives the same trades.
ReaderExact(t, seq, limit) ==
  LET r == SinceOf(t, seq, limit)
      kept == {t.items[SlotOf(t, k)].seq : k \in 0 .. t.count - 1}
      asked == RangeOf(t, seq + 1, NewestSeq(t), limit)
  IN /\ \A i \in DOMAIN r.trades : r.trades[i].seq = seq + r.dropped + i
     /\ t.count > 0 => r.dropped = Cardinality((seq + 1 .. NewestSeq(t)) \ kept)
     /\ r.more <=> /\ Len(r.trades) = limit
                   /\ seq + r.dropped + limit < NewestSeq(t)
     /\ t.count > 0 /\ ~r.more => seq + r.dropped + Len(r.trades) = NewestSeq(t)
     /\ asked.trades = r.trades /\ asked.more = r.more

\* The readers are exact on every published tape, from every position a reader
\* of that tape can hold.
ReadersExact ==
  \A s \in Symbols : \A seq \in 0 .. NewestSeq(tapes[s]), limit \in 1 .. RingSize :
    ReaderExact(tapes[s], seq, limit)

\* The history is the recency order of the symbols: the active one first, none
\* twice, at most HistorySize, each with a tape (Activate and Commit).
HistoryIsRecency ==
  /\ history # <<>> /\ history[1] = active
  /\ Len(history) <= HistorySize
  /\ \A i, j \in DOMAIN history : history[i] = history[j] => i = j
  /\ \A i \in DOMAIN history : object[history[i]] # 0

-----------------------------------------------------------------------------
(* Action properties.                                                        *)

\* A swap never discards a write: the tape it replaces is, in every field and
\* not only in the three that Commit compares, the tape the rebuild was based on.
NoLostPublication ==
  [][\A s \in Symbols : object[s] # 0 /\ object'[s] # object[s] =>
       \E b \in Builders : /\ stage[b].held
                           /\ stage[b].symbol = s
                           /\ stage[b].base = tapes[s]]_vars

\* A step that drops a symbol out of the history drops the least recent one.
EvictsLeastRecent ==
  [][\A s \in Symbols :
       /\ \E i \in DOMAIN history : history[i] = s
       /\ \A i \in DOMAIN history' : history'[i] # s
       => history[Len(history)] = s /\ Len(history) = HistorySize]_vars

-----------------------------------------------------------------------------
(* The store implements the abstract log of TapeLog.                         *)

Log == INSTANCE TapeLog WITH
         Capacity <- RingSize,
         window <- [s \in Symbols |-> Contents(tapes[s])],
         next <- [s \in Symbols |-> tapes[s].nextSeq],
         generation <- [s \in Symbols |->
                          IF object[s] = 0 THEN 0 ELSE tapes[s].generation]

\* Every store call publishes one print, replaces one window under a new
\* generation and fresh numbers, or leaves what readers see alone.
ImplementsTapeLog == Log!LogSpec

=============================================================================
