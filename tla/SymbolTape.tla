------------------------------ MODULE SymbolTape ------------------------------
(***************************************************************************)
(* One symbol's tape (type symbolTape in internal/tape/store.go): a bounded  *)
(* ring of classified trades, the quote that goes with it and the counters   *)
(* that let readers tell one print, and one reconstruction, from another.    *)
(*                                                                         *)
(* The operators here are the methods that run under the tape's own lock, so  *)
(* each of them is one indivisible change or one consistent read.  The       *)
(* modules TapeStore and TapeStream build their state machines from them.     *)
(*                                                                         *)
(* Prices are integers at least one tick apart: the epsilon of classify()    *)
(* only makes floating-point equality behave as integer equality does.       *)
(***************************************************************************)
EXTENDS Integers, Sequences

CONSTANT RingSize     \* len(items): the ring's capacity, cfg.Tape.RingSize

ASSUME RingSizeAssumption == RingSize \in Nat \ {0}

Least(a, b) == IF a < b THEN a ELSE b

Slots == 0 .. RingSize - 1
Classes == {"below", "bid", "mid", "ask", "above"}
Sides == {-1, 0, 1}

\* What a feed knows of a print: its market time, its price, and whether its
\* condition flags let it move the last price and the open/close reference.
OfferedPrint == [ms : Nat, price : Int, last : BOOLEAN, openClose : BOOLEAN]

Trade == [seq : Nat, ms : Nat, price : Nat, class : Classes \cup {""}, side : Sides]

Quote == [bid : Nat, ask : Nat, previousClose : Nat,
          lastPrice : Nat, lastTimeMS : Nat, dayVolumeMS : Nat]

Tape == [items : [Slots -> Trade], start : Slots, count : 0 .. RingSize,
         nextSeq : Nat \ {0}, generation : Nat \ {0}, quote : Quote,
         lastMarketMS : Nat, lastPrice : Nat, lastSide : Sides]

\* Go's zero values: an unwritten slot and an unset quote.
NoTrade == [seq |-> 0, ms |-> 0, price |-> 0, class |-> "", side |-> 0]
NoQuote == [bid |-> 0, ask |-> 0, previousClose |-> 0,
            lastPrice |-> 0, lastTimeMS |-> 0, dayVolumeMS |-> 0]

NewTape == [items |-> [i \in Slots |-> NoTrade], start |-> 0, count |-> 0,
            nextSeq |-> 1, generation |-> 1, quote |-> NoQuote,
            lastMarketMS |-> 0, lastPrice |-> 0, lastSide |-> 0]

-----------------------------------------------------------------------------
(* Classification of a print against the top of book.                        *)

Classify(price, q) ==
  IF q.bid <= 0 \/ q.ask <= 0 THEN "mid"
  ELSE IF price < q.bid THEN "below"
  ELSE IF price = q.bid THEN "bid"
  ELSE IF price > q.ask THEN "above"
  ELSE IF price = q.ask THEN "ask"
  ELSE "mid"

Direction(class, price, t) ==
  IF class \in {"below", "bid"} THEN -1
  ELSE IF class \in {"ask", "above"} THEN 1
  ELSE IF t.lastPrice > 0 /\ price > t.lastPrice THEN 1
  ELSE IF t.lastPrice > 0 /\ price < t.lastPrice THEN -1
  ELSE t.lastSide

-----------------------------------------------------------------------------
(* The quote.                                                                *)

QuoteUpdated(q, bid, ask) ==
  [q EXCEPT !.bid = IF bid > 0 THEN bid ELSE @,
            !.ask = IF ask > 0 THEN ask ELSE @]

TopOfBookCleared(q) == [q EXCEPT !.bid = 0, !.ask = 0, !.dayVolumeMS = 0]

LastPriceUpdated(q, price, ms) ==
  IF price > 0 /\ ms > 0 /\ ms >= q.lastTimeMS
    THEN [q EXCEPT !.lastPrice = price, !.lastTimeMS = ms]
    ELSE q

DayVolumeUpdated(q, ms) ==
  IF ms > 0 /\ ms >= q.dayVolumeMS THEN [q EXCEPT !.dayVolumeMS = ms] ELSE q

PreviousCloseUpdated(q, close) ==
  IF close > 0 THEN [q EXCEPT !.previousClose = close] ELSE q

-----------------------------------------------------------------------------
(* The ring.                                                                 *)

\* The slot of the k-th oldest retained trade, k counted from 0.
SlotOf(t, k) == (t.start + k) % RingSize

\* appendLocked: number the print, write it to the next free slot or over the
\* oldest trade, and move the reference prices its flags allow it to move.
Appended(t, p, class, side) ==
  LET full == t.count = RingSize
      trade == [seq |-> t.nextSeq, ms |-> p.ms, price |-> p.price,
                class |-> class, side |-> side]
      reference == p.openClose /\ p.ms >= t.lastMarketMS
  IN [items |-> [t.items EXCEPT ![IF full THEN t.start ELSE SlotOf(t, t.count)] = trade],
      start |-> IF full THEN (t.start + 1) % RingSize ELSE t.start,
      count |-> IF full THEN t.count ELSE t.count + 1,
      nextSeq |-> t.nextSeq + 1,
      generation |-> t.generation,
      quote |-> IF p.last THEN LastPriceUpdated(t.quote, p.price, p.ms) ELSE t.quote,
      lastMarketMS |-> IF reference THEN p.ms ELSE t.lastMarketMS,
      lastPrice |-> IF reference THEN p.price ELSE t.lastPrice,
      lastSide |-> IF reference /\ side # 0 THEN side ELSE t.lastSide]

\* add and addRules without a recorded class: classified against the quote.
\* A price that is not positive is refused before the ring is touched.
Traded(t, p) ==
  LET class == Classify(p.price, t.quote)
  IN IF p.price <= 0 THEN t
     ELSE Appended(t, p, class, Direction(class, p.price, t))

\* addRecorded: a live recording carries the class and side it was sounded with.
Recorded(t, p, class, side) ==
  IF p.price <= 0 THEN t
  ELSE Appended(t, p, IF class = "" THEN Classify(p.price, t.quote) ELSE class, side)

\* Mutant of Cleared: the content goes under the generation readers know.
Cleared_SameGeneration(t) ==
  [t EXCEPT !.start = 0, !.count = 0, !.quote = NoQuote, !.lastMarketMS = 0,
            !.lastPrice = 0, !.lastSide = 0]

\* Clear: the content goes, the sequence numbers stay, the generation advances.
\* The slots themselves are not wiped: count = 0 makes them unreachable.
Cleared(t) ==
  [items |-> t.items, start |-> 0, count |-> 0,
   nextSeq |-> t.nextSeq, generation |-> t.generation + 1, quote |-> NoQuote,
   lastMarketMS |-> 0, lastPrice |-> 0, lastSide |-> 0]

\* Mutant of StagedFrom: the generation stays.
StagedFrom_SameGeneration(t) ==
  [NewTape EXCEPT !.generation = t.generation, !.nextSeq = t.nextSeq,
                  !.quote.previousClose = t.quote.previousClose]

\* PrepareRebuild: the detached tape that will replace t.
StagedFrom(t) ==
  [items |-> NewTape.items, start |-> 0, count |-> 0,
   nextSeq |-> t.nextSeq, generation |-> t.generation + 1,
   quote |-> [NoQuote EXCEPT !.previousClose = t.quote.previousClose],
   lastMarketMS |-> 0, lastPrice |-> 0, lastSide |-> 0]

-----------------------------------------------------------------------------
(* Reads.                                                                    *)

\* Everything a reader can reach, oldest first.
Contents(t) == [i \in 1 .. t.count |-> t.items[SlotOf(t, i - 1)]]

OldestSeq(t) == t.items[t.start].seq
NewestSeq(t) == t.nextSeq - 1

\* n trades beginning with the k-th oldest one (the copy loop of the readers).
Copied(t, k, n) == [i \in 1 .. n |-> t.items[SlotOf(t, k + i - 1)]]

\* snapshot: the newest trades, all of them when the limit is 0.
SnapshotOf(t, limit) ==
  LET n == IF limit <= 0 \/ limit > t.count THEN t.count ELSE limit
  IN Copied(t, t.count - n, n)

\* Mutant of SinceOf: a reader that fell behind the ring is not told.
SinceOf_HidesOverrun(t, seq, limit) ==
  LET from == IF seq + 1 < OldestSeq(t) THEN OldestSeq(t) ELSE seq + 1
      available == NewestSeq(t) - from + 1
      n == Least(available, limit)
  IN IF t.count = 0 \/ limit <= 0 \/ available <= 0
       THEN [trades |-> <<>>, dropped |-> 0, more |-> FALSE, generation |-> t.generation]
     ELSE [trades |-> Copied(t, from - OldestSeq(t), n), dropped |-> 0,
           more |-> available > n, generation |-> t.generation]

\* since: what a reader that holds everything up to seq has still to be given.
SinceOf(t, seq, limit) ==
  LET oldest == OldestSeq(t)
      wanted == IF seq + 1 < oldest THEN oldest ELSE seq + 1
      dropped == wanted - (seq + 1)
      available == NewestSeq(t) - wanted + 1
      n == Least(available, limit)
  IN IF t.count = 0 \/ limit <= 0
       THEN [trades |-> <<>>, dropped |-> 0, more |-> FALSE, generation |-> t.generation]
     ELSE IF wanted > NewestSeq(t)
       THEN [trades |-> <<>>, dropped |-> dropped, more |-> FALSE, generation |-> t.generation]
     ELSE [trades |-> Copied(t, wanted - oldest, n), dropped |-> dropped,
           more |-> available > n, generation |-> t.generation]

\* rangeSeq: an explicit window of sequence numbers, cut to what the ring holds.
RangeOf(t, fromSeq, toSeq, limit) ==
  LET oldest == OldestSeq(t)
      newest == NewestSeq(t)
      from == IF fromSeq < oldest THEN oldest ELSE fromSeq
      to == IF toSeq > newest THEN newest ELSE toSeq
      n == Least(to - from + 1, limit)
  IN IF t.count = 0
       THEN [trades |-> <<>>, oldest |-> 0, newest |-> 0, more |-> FALSE]
     ELSE IF limit <= 0 \/ from > to
       THEN [trades |-> <<>>, oldest |-> oldest, newest |-> newest, more |-> FALSE]
     ELSE [trades |-> Copied(t, from - oldest, n), oldest |-> oldest,
           newest |-> newest, more |-> to - from + 1 > n]

-----------------------------------------------------------------------------
\* The retained trades of a tape carry the consecutive numbers that end just
\* before the next one to be assigned, each in the slot the readers' index
\* arithmetic looks for it in (appendLocked against since, snapshot, rangeSeq).
RingContiguous(t) ==
  /\ t.count < t.nextSeq
  /\ \A k \in 0 .. t.count - 1 :
        t.items[SlotOf(t, k)].seq = t.nextSeq - t.count + k

=============================================================================
