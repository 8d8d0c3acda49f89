--------------------------- MODULE TapeStreamProofs ---------------------------
(***************************************************************************)
(* Theorems about TapeStore, and about TapeStream on top of it, for every set of *)
(* symbols and builders, every ring and history size, and every set of events. *)
(*                                                                         *)
(* First the operators of SymbolTape: each one yields a tape again, and keeps  *)
(* the ring contiguous.                                                     *)
(*                                                                         *)
(* Then the store.  Its steps fall into six kinds (lemma StepKinds).  One      *)
(* inductive invariant, StoreInv, carries all the safety results: it adds to   *)
(* the checked invariants that a symbol without a tape object has the tape    *)
(* getOrCreate would allocate, and that a stage whose tape object is still    *)
(* the published one is based on a past of it (StagesTracked), and that a      *)
(* stage holds all that was streamed into it (StagesFilled).                 *)
(*                                                                         *)
(* Then what the readers are given, and that TapeStore implements the abstract *)
(* log of TapeLog.  A reader's index arithmetic is exact because the ring is    *)
(* contiguous.  Each kind of step maps to a step of the log: a write to         *)
(* Publish, to Replace (a clear, or the first write to a symbol) or to a       *)
(* stutter, as its tape Shows; a commit to Replace, because a stage has only     *)
(* fresh numbers and all of them that fit; the rest to stutters.               *)
(*                                                                         *)
(* Last what a browser may rely on (StreamExact), for every snapshot and batch   *)
(* size, and however often the connection is lost.  The stream leaves the store   *)
(* to its own steps, so the invariants of the store hold under it; StreamInv     *)
(* adds what relates the handler's position, the snapshot it reads and the        *)
(* browser's numbers to the store: the numbers it has given are past, and until  *)
(* the generation of its snapshot is over no print of a published rebuild lies    *)
(* before it (SnapshotIsFollowed).                                           *)
(***************************************************************************)
EXTENDS TapeStream, FiniteSetTheorems, TLAPS

-----------------------------------------------------------------------------
(* Slot arithmetic.                                                          *)

\* The k-th oldest trade of a tape is in a slot of the ring.
LEMMA SlotInRing ==
  ASSUME NEW t, t.start \in Slots, NEW k \in 0 .. RingSize - 1
  PROVE  /\ SlotOf(t, k) \in Slots
         /\ SlotOf(t, k) = IF t.start + k < RingSize THEN t.start + k
                           ELSE t.start + k - RingSize
<1>1. t.start \in 0 .. RingSize - 1
  BY DEF Slots
<1>2. (t.start + k) % RingSize
        = IF t.start + k < RingSize THEN t.start + k ELSE t.start + k - RingSize
  BY <1>1, RingSizeAssumption
<1>3. QED
  BY <1>1, <1>2, RingSizeAssumption DEF SlotOf, Slots

-----------------------------------------------------------------------------
(* Types.                                                                    *)

\* The fields of a tape and of a print.
LEMMA TapeFields ==
  ASSUME NEW t \in Tape
  PROVE  /\ t.items \in [Slots -> Trade] /\ t.start \in Slots /\ t.count \in 0 .. RingSize
         /\ t.nextSeq \in Nat \ {0} /\ t.generation \in Nat \ {0} /\ t.quote \in Quote
         /\ t.lastMarketMS \in Nat /\ t.lastPrice \in Nat /\ t.lastSide \in Sides
  BY DEF Tape

LEMMA NewTapeType == NewTape \in Tape
  BY RingSizeAssumption
  DEF NewTape, Tape, NoTrade, NoQuote, Trade, Quote, Slots, Sides, Classes

LEMMA ClassifyType ==
  ASSUME NEW price, NEW q PROVE Classify(price, q) \in Classes
  BY DEF Classify, Classes

LEMMA DirectionType ==
  ASSUME NEW class, NEW price, NEW t \in Tape PROVE Direction(class, price, t) \in Sides
  BY DEF Direction, Sides, Tape

LEMMA QuoteUpdatedType ==
  ASSUME NEW q \in Quote, NEW bid \in Nat, NEW ask \in Nat
  PROVE  QuoteUpdated(q, bid, ask) \in Quote
  BY DEF Quote, QuoteUpdated

LEMMA TopOfBookClearedType ==
  ASSUME NEW q \in Quote PROVE TopOfBookCleared(q) \in Quote
  BY DEF Quote, TopOfBookCleared

LEMMA LastPriceUpdatedType ==
  ASSUME NEW q \in Quote, NEW price \in Int, NEW ms \in Nat
  PROVE  LastPriceUpdated(q, price, ms) \in Quote
<1>1. CASE price > 0
  <2>1. price \in Nat
    BY <1>1
  <2>2. QED
    BY <2>1 DEF Quote, LastPriceUpdated
<1>2. CASE ~(price > 0)
  BY <1>2 DEF LastPriceUpdated
<1>3. QED
  BY <1>1, <1>2

LEMMA DayVolumeUpdatedType ==
  ASSUME NEW q \in Quote, NEW ms \in Nat
  PROVE  DayVolumeUpdated(q, ms) \in Quote
  BY DEF Quote, DayVolumeUpdated

LEMMA PreviousCloseUpdatedType ==
  ASSUME NEW q \in Quote, NEW close \in Nat
  PROVE  PreviousCloseUpdated(q, close) \in Quote
  BY DEF Quote, PreviousCloseUpdated

\* The counters of a tape after one more trade.
LEMMA Counters ==
  ASSUME NEW t \in Tape
  PROVE  /\ (t.start + 1) % RingSize \in Slots
         /\ t.nextSeq + 1 \in Nat \ {0}
         /\ t.count # RingSize => t.count + 1 \in 0 .. RingSize
<1>1. t.start \in 0 .. RingSize - 1 /\ t.nextSeq \in Nat \ {0} /\ t.count \in 0 .. RingSize
  BY TapeFields DEF Slots
<1>2. (t.start + 1) % RingSize \in 0 .. RingSize - 1
  BY <1>1, RingSizeAssumption
<1>3. QED
  BY <1>1, <1>2, RingSizeAssumption DEF Slots

LEMMA PositiveIsNat == \A n \in Int : n > 0 => n \in Nat
  OBVIOUS

LEMMA PositivePrice ==
  ASSUME NEW p \in OfferedPrint, ~(p.price <= 0) PROVE p.price > 0
  BY DEF OfferedPrint

\* A print is appended as a trade, whatever its class and side.
LEMMA AppendedType ==
  ASSUME NEW t \in Tape, NEW p \in OfferedPrint, p.price > 0,
         NEW class \in Classes \cup {""}, NEW side \in Sides
  PROVE  Appended(t, p, class, side) \in Tape
<1> DEFINE trade == [seq |-> t.nextSeq, ms |-> p.ms, price |-> p.price,
                     class |-> class, side |-> side]
<1>1. p.ms \in Nat /\ p.price \in Nat /\ p.price \in Int
  <2>1. p.ms \in Nat /\ p.price \in Int
    BY DEF OfferedPrint
  <2>2. QED
    BY <2>1, PositiveIsNat
<1>2. trade \in Trade
  BY <1>1, TapeFields DEF Trade
<1>3. \A i : [t.items EXCEPT ![i] = trade] \in [Slots -> Trade]
  BY <1>2, TapeFields
<1>4. LastPriceUpdated(t.quote, p.price, p.ms) \in Quote
  BY <1>1, TapeFields, LastPriceUpdatedType
<1>5. QED
  BY <1>1, <1>3, <1>4, Counters, TapeFields DEF Appended, Tape

\* A classified print, and one recorded with its class, both leave a tape.
LEMMA TradedType ==
  ASSUME NEW t \in Tape, NEW p \in OfferedPrint PROVE Traded(t, p) \in Tape
<1>1. CASE p.price <= 0
  BY <1>1 DEF Traded
<1>2. CASE ~(p.price <= 0)
  <2>1. p.price > 0
    BY <1>2, PositivePrice
  <2>2. Classify(p.price, t.quote) \in Classes
    BY ClassifyType
  <2>3. Direction(Classify(p.price, t.quote), p.price, t) \in Sides
    BY DirectionType
  <2>4. QED
    BY <1>2, <2>1, <2>2, <2>3, AppendedType DEF Traded
<1>3. QED
  BY <1>1, <1>2

LEMMA RecordedType ==
  ASSUME NEW t \in Tape, NEW p \in OfferedPrint,
         NEW class \in Classes \cup {""}, NEW side \in Sides
  PROVE  Recorded(t, p, class, side) \in Tape
<1> DEFINE named == IF class = "" THEN Classify(p.price, t.quote) ELSE class
<1>1. CASE p.price <= 0
  BY <1>1 DEF Recorded
<1>2. CASE ~(p.price <= 0)
  <2>1. p.price > 0
    BY <1>2, PositivePrice
  <2>2. named \in Classes \cup {""}
    <3>1. CASE class = ""
      BY <3>1, ClassifyType
    <3>2. CASE class # ""
      BY <3>2
    <3>3. QED
      BY <3>1, <3>2
  <2>3. Appended(t, p, named, side) \in Tape
    BY <2>1, <2>2, AppendedType
  <2>4. QED
    BY <1>2, <2>3 DEF Recorded
<1>3. QED
  BY <1>1, <1>2

LEMMA ClearedType ==
  ASSUME NEW t \in Tape PROVE Cleared(t) \in Tape
  BY TapeFields, RingSizeAssumption, SMTT(30) DEF Cleared, Tape, NoQuote, Quote, Slots, Sides

LEMMA StagedFromType ==
  ASSUME NEW t \in Tape PROVE StagedFrom(t) \in Tape
<1>1. [NoQuote EXCEPT !.previousClose = t.quote.previousClose] \in Quote
  BY TapeFields DEF NoQuote, Quote
<1>2. NewTape.items \in [Slots -> Trade]
  BY NewTapeType, TapeFields
<1>3. QED
  BY <1>1, <1>2, TapeFields, RingSizeAssumption DEF StagedFrom, Tape, Slots, Sides

\* A tape whose quote alone changes is a tape.
LEMMA RequotedType ==
  ASSUME NEW t \in Tape, NEW q \in Quote PROVE [t EXCEPT !.quote = q] \in Tape
  BY DEF Tape

-----------------------------------------------------------------------------
(* Contiguity of the ring.                                                   *)

\* Two positions of the ring that are less than a turn apart are two slots.
LEMMA SlotsDiffer ==
  ASSUME NEW t \in Tape, NEW j \in 0 .. RingSize - 1, NEW k \in 0 .. RingSize - 1, j # k
  PROVE  SlotOf(t, j) # SlotOf(t, k)
<1>1. t.start \in Slots /\ t.start \in 0 .. RingSize - 1
  BY TapeFields DEF Slots
<1>2. /\ SlotOf(t, j) = IF t.start + j < RingSize THEN t.start + j
                        ELSE t.start + j - RingSize
      /\ SlotOf(t, k) = IF t.start + k < RingSize THEN t.start + k
                        ELSE t.start + k - RingSize
  BY <1>1, SlotInRing
<1>3. QED
  BY <1>1, <1>2, RingSizeAssumption

\* The trade that Appended writes.
Written(t, p, class, side) ==
  [seq |-> t.nextSeq, ms |-> p.ms, price |-> p.price, class |-> class, side |-> side]

\* What Appended does to the fields that place a trade.
LEMMA AppendedPlace ==
  ASSUME NEW t \in Tape, NEW p, NEW class, NEW side
  PROVE  LET u == Appended(t, p, class, side)
             at == IF t.count = RingSize THEN t.start ELSE SlotOf(t, t.count)
         IN /\ u.start = IF t.count = RingSize THEN (t.start + 1) % RingSize ELSE t.start
            /\ u.count = IF t.count = RingSize THEN t.count ELSE t.count + 1
            /\ u.nextSeq = t.nextSeq + 1 /\ u.generation = t.generation
            /\ \A i \in Slots : i # at => u.items[i] = t.items[i]
            /\ at \in Slots => u.items[at] = Written(t, p, class, side)
  BY TapeFields DEF Appended, Written

\* The retained trades after an append: those of before, without the oldest one if
\* the ring was full, and the new trade behind them - also when the ring wraps.
LEMMA AppendedItems ==
  ASSUME NEW t \in Tape, NEW p, NEW class, NEW side
  PROVE  LET u == Appended(t, p, class, side)
             shift == IF t.count = RingSize THEN 1 ELSE 0
         IN \A k \in 0 .. u.count - 1 :
              u.items[SlotOf(u, k)] = IF k = u.count - 1 THEN Written(t, p, class, side)
                                      ELSE t.items[SlotOf(t, k + shift)]
<1> DEFINE u == Appended(t, p, class, side)
           trade == Written(t, p, class, side)
<1>1. t.start \in Slots /\ t.start \in 0 .. RingSize - 1 /\ t.count \in 0 .. RingSize
  BY TapeFields DEF Slots
<1> HIDE DEF trade
<1>2. CASE t.count = RingSize
  <2>1. /\ u.start = (t.start + 1) % RingSize /\ u.count = RingSize
        /\ u.items[t.start] = trade
        /\ \A i \in Slots : i # t.start => u.items[i] = t.items[i]
    BY <1>1, <1>2, AppendedPlace DEF trade
  <2>2. u.start = IF t.start + 1 < RingSize THEN t.start + 1 ELSE 0
    BY <1>1, <2>1, RingSizeAssumption
  <2>3. u.start \in Slots
    BY <1>1, <2>2, RingSizeAssumption DEF Slots
  <2> HIDE DEF u
  <2>4. SUFFICES ASSUME NEW k \in 0 .. RingSize - 1
                 PROVE  u.items[SlotOf(u, k)]
                          = IF k = RingSize - 1 THEN trade ELSE t.items[SlotOf(t, k + 1)]
    BY <1>2, <2>1 DEF u, trade
  <2>5. SlotOf(u, k) = IF u.start + k < RingSize THEN u.start + k
                       ELSE u.start + k - RingSize
    BY <2>3, SlotInRing
  <2>6. CASE k = RingSize - 1
    <3>1. SlotOf(u, k) = t.start
      BY <1>1, <2>2, <2>5, <2>6, RingSizeAssumption
    <3>2. QED
      BY <2>1, <2>6, <3>1
  <2>7. CASE k # RingSize - 1
    <3>1. k + 1 \in 0 .. RingSize - 1
      BY <2>7, RingSizeAssumption
    <3>2. SlotOf(t, k + 1) \in Slots
      BY <1>1, <3>1, SlotInRing
    <3>3. SlotOf(t, k + 1) = IF t.start + (k + 1) < RingSize THEN t.start + (k + 1)
                             ELSE t.start + (k + 1) - RingSize
      BY <1>1, <3>1, SlotInRing
    <3>4. SlotOf(u, k) = SlotOf(t, k + 1) /\ SlotOf(t, k + 1) # t.start
      BY <1>1, <2>2, <2>5, <2>7, <3>3, RingSizeAssumption
    <3>5. QED
      BY <2>1, <2>7, <3>2, <3>4
  <2>8. QED
    BY <2>6, <2>7
<1>3. CASE t.count # RingSize
  <2>1. t.count \in 0 .. RingSize - 1
    BY <1>1, <1>3, RingSizeAssumption
  <2>2. SlotOf(t, t.count) \in Slots
    BY <1>1, <2>1, SlotInRing
  <2>3. /\ u.start = t.start /\ u.count = t.count + 1
        /\ u.items[SlotOf(t, t.count)] = trade
        /\ \A i \in Slots : i # SlotOf(t, t.count) => u.items[i] = t.items[i]
    BY <1>3, <2>2, AppendedPlace DEF trade
  <2> HIDE DEF u
  <2>4. SUFFICES ASSUME NEW k \in 0 .. t.count
                 PROVE  u.items[SlotOf(u, k)]
                          = IF k = t.count THEN trade ELSE t.items[SlotOf(t, k)]
    BY <1>3, <2>1, <2>3 DEF u, trade
  <2>5. SlotOf(u, k) = SlotOf(t, k)
    BY <2>3 DEF SlotOf
  <2>6. CASE k = t.count
    BY <2>3, <2>5, <2>6
  <2>7. CASE k # t.count
    <3>1. k \in 0 .. RingSize - 1
      BY <2>1, <2>7, RingSizeAssumption
    <3>2. SlotOf(t, k) \in Slots /\ SlotOf(t, k) # SlotOf(t, t.count)
      BY <1>1, <2>1, <2>7, <3>1, SlotInRing, SlotsDiffer
    <3>3. QED
      BY <2>3, <2>5, <2>7, <3>2
  <2>8. QED
    BY <2>6, <2>7
<1>4. QED
  BY <1>2, <1>3

\* Appending keeps the numbers of the ring consecutive.
LEMMA AppendedContiguous ==
  ASSUME NEW t \in Tape, RingContiguous(t), NEW p, NEW class, NEW side
  PROVE  RingContiguous(Appended(t, p, class, side))
<1> DEFINE u == Appended(t, p, class, side)
           shift == IF t.count = RingSize THEN 1 ELSE 0
<1>1. t.count \in 0 .. RingSize /\ t.nextSeq \in Nat \ {0}
  BY TapeFields
<1>2. /\ t.count < t.nextSeq
      /\ \A k \in 0 .. t.count - 1 : t.items[SlotOf(t, k)].seq = t.nextSeq - t.count + k
  BY DEF RingContiguous
<1>3. u.nextSeq = t.nextSeq + 1 /\ u.count = t.count + 1 - shift
  BY <1>1, AppendedPlace
<1>4. \A k \in 0 .. u.count - 1 :
        u.items[SlotOf(u, k)] = IF k = u.count - 1 THEN Written(t, p, class, side)
                                ELSE t.items[SlotOf(t, k + shift)]
  BY AppendedItems
<1> HIDE DEF u
<1>5. ASSUME NEW k \in 0 .. u.count - 1
      PROVE  u.items[SlotOf(u, k)].seq = u.nextSeq - u.count + k
  <2>1. CASE k = u.count - 1
    <3>1. u.items[SlotOf(u, k)].seq = t.nextSeq
      BY <1>4, <2>1 DEF Written
    <3>2. QED
      BY <1>1, <1>3, <2>1, <3>1
  <2>2. CASE k # u.count - 1
    <3>1. k + shift \in 0 .. t.count - 1
      BY <1>1, <1>3, <2>2
    <3>2. u.items[SlotOf(u, k)].seq = t.nextSeq - t.count + (k + shift)
      BY <1>2, <1>4, <2>2, <3>1
    <3>3. QED
      BY <1>1, <1>3, <3>2
  <2>3. QED
    BY <2>1, <2>2
<1>6. u.count < u.nextSeq
  BY <1>1, <1>2, <1>3
<1>7. RingContiguous(u)
  BY <1>5, <1>6 DEF RingContiguous
<1>8. QED
  BY <1>7 DEF u

LEMMA TradedContiguous ==
  ASSUME NEW t \in Tape, RingContiguous(t), NEW p PROVE RingContiguous(Traded(t, p))
  BY AppendedContiguous DEF Traded

LEMMA RecordedContiguous ==
  ASSUME NEW t \in Tape, RingContiguous(t), NEW p, NEW class, NEW side
  PROVE  RingContiguous(Recorded(t, p, class, side))
  BY AppendedContiguous DEF Recorded

\* An empty ring is contiguous whatever its slots still hold.
LEMMA EmptyContiguous ==
  ASSUME NEW t, t.count = 0, t.nextSeq \in Nat \ {0} PROVE RingContiguous(t)
  BY DEF RingContiguous

LEMMA EmptiedContiguous ==
  /\ RingContiguous(NewTape)
  /\ \A t \in Tape : RingContiguous(Cleared(t)) /\ RingContiguous(StagedFrom(t))
<1>1. RingContiguous(NewTape)
  BY EmptyContiguous DEF NewTape
<1>2. ASSUME NEW t \in Tape
      PROVE  RingContiguous(Cleared(t)) /\ RingContiguous(StagedFrom(t))
  <2>1. Cleared(t).count = 0 /\ Cleared(t).nextSeq \in Nat \ {0}
    BY TapeFields DEF Cleared
  <2>2. StagedFrom(t).count = 0 /\ StagedFrom(t).nextSeq \in Nat \ {0}
    BY TapeFields DEF StagedFrom
  <2>3. QED
    BY <2>1, <2>2, EmptyContiguous
<1>3. QED
  BY <1>1, <1>2

\* A quote is not part of the ring.
LEMMA RequotedContiguous ==
  ASSUME NEW t \in Tape, RingContiguous(t), NEW q
  PROVE  RingContiguous([t EXCEPT !.quote = q])
<1> DEFINE u == [t EXCEPT !.quote = q]
<1>1. u.items = t.items /\ u.start = t.start /\ u.count = t.count /\ u.nextSeq = t.nextSeq
  BY DEF Tape
<1>2. \A k : SlotOf(u, k) = SlotOf(t, k)
  BY <1>1 DEF SlotOf
<1>3. QED
  BY <1>1, <1>2 DEF RingContiguous

-----------------------------------------------------------------------------
(* What a change to a tape may do.                                           *)

\* The counters of u are past those of t, or only the quote differs.
Past(t, u) ==
  /\ t.generation <= u.generation
  /\ t.nextSeq <= u.nextSeq
  /\ t.generation = u.generation /\ t.nextSeq = u.nextSeq =>
       /\ u.items = t.items /\ u.start = t.start /\ u.count = t.count
       /\ u.lastMarketMS = t.lastMarketMS
       /\ u.lastPrice = t.lastPrice /\ u.lastSide = t.lastSide

\* The newest RingSize elements of a sequence.
Newest(w) == IF Len(w) <= RingSize THEN w ELSE SubSeq(w, Len(w) - RingSize + 1, Len(w))

\* One more number has been assigned, to the print at the end of the window.
Extends(t, u) ==
  /\ u.generation = t.generation /\ u.nextSeq = t.nextSeq + 1
  /\ u.count = Least(RingSize, t.count + 1)
  /\ \E trade : trade.seq = t.nextSeq /\ Contents(u) = Newest(Append(Contents(t), trade))

\* What readers see of u after t: the same window, one more print, or nothing under
\* the next generation.
Shows(t, u) ==
  \/ u.generation = t.generation /\ u.nextSeq = t.nextSeq
  \/ Extends(t, u)
  \/ u.generation = t.generation + 1 /\ u.nextSeq = t.nextSeq /\ u.count = 0

\* u is what one more write makes of t.
Follows(t, u) == Past(t, u) /\ (RingContiguous(t) => RingContiguous(u)) /\ Shows(t, u)

\* u is what one more staged event makes of t: the generation stays and no
\* retained trade gets a number that t had let go of or not reached.
Continues(t, u) ==
  /\ u.generation = t.generation
  /\ \/ u.nextSeq = t.nextSeq /\ u.count = t.count
     \/ u.nextSeq = t.nextSeq + 1 /\ u.count = Least(RingSize, t.count + 1)
  /\ RingContiguous(t) => RingContiguous(u)

LEMMA PastTransitive ==
  ASSUME NEW t \in Tape, NEW u \in Tape, NEW v \in Tape, Past(t, u), Past(u, v)
  PROVE  Past(t, v)
<1>1. /\ t.generation \in Nat /\ u.generation \in Nat /\ v.generation \in Nat
      /\ t.nextSeq \in Nat /\ u.nextSeq \in Nat /\ v.nextSeq \in Nat
  BY TapeFields
<1>2. QED
  BY <1>1 DEF Past

\* Tapes that agree on the counters Commit compares and on the quote are equal.
LEMMA PastEqual ==
  ASSUME NEW t \in Tape, NEW u \in Tape, Past(t, u),
         t.generation = u.generation, t.nextSeq = u.nextSeq, t.quote = u.quote
  PROVE  t = u
  BY DEF Past, Tape

LEMMA RequotedFollows ==
  ASSUME NEW t \in Tape, NEW q
  PROVE  Follows(t, [t EXCEPT !.quote = q]) /\ Continues(t, [t EXCEPT !.quote = q])
<1> DEFINE u == [t EXCEPT !.quote = q]
<1>1. /\ u.items = t.items /\ u.start = t.start /\ u.count = t.count
      /\ u.nextSeq = t.nextSeq /\ u.generation = t.generation
      /\ u.lastMarketMS = t.lastMarketMS /\ u.lastPrice = t.lastPrice
      /\ u.lastSide = t.lastSide
  BY DEF Tape
<1>2. t.generation \in Nat /\ t.nextSeq \in Nat /\ t.count \in Nat
  BY TapeFields
<1>3. Past(t, u)
  BY <1>1, <1>2 DEF Past
<1>4. QED
  BY <1>1, <1>2, <1>3, RequotedContiguous DEF Follows, Continues, Shows

\* The window after an append.
LEMMA AppendedContents ==
  ASSUME NEW t \in Tape, NEW p, NEW class, NEW side
  PROVE  Contents(Appended(t, p, class, side))
           = Newest(Append(Contents(t), Written(t, p, class, side)))
<1> DEFINE u == Appended(t, p, class, side)
           trade == Written(t, p, class, side)
           shift == IF t.count = RingSize THEN 1 ELSE 0
           longer == Append(Contents(t), trade)
<1>1. t.count \in 0 .. RingSize /\ RingSize \in Nat \ {0}
  BY TapeFields, RingSizeAssumption
<1>2. u.count = t.count + 1 - shift
  BY <1>1, AppendedPlace
<1>3. \A k \in 0 .. u.count - 1 :
        u.items[SlotOf(u, k)] = IF k = u.count - 1 THEN trade ELSE t.items[SlotOf(t, k + shift)]
  BY AppendedItems
<1> HIDE DEF u, trade
<1> DEFINE e(i) == t.items[SlotOf(t, i - 1)]
           f(i) == u.items[SlotOf(u, i - 1)]
<1>4. Contents(t) = [i \in 1 .. t.count |-> e(i)] /\ Contents(u) = [i \in 1 .. u.count |-> f(i)]
  BY DEF Contents
<1>5. \A i \in 1 .. u.count : f(i) = IF i = u.count THEN trade ELSE e(i + shift)
  <2> SUFFICES ASSUME NEW i \in 1 .. u.count
               PROVE  f(i) = IF i = u.count THEN trade ELSE e(i + shift)
    OBVIOUS
  <2>1. i - 1 \in 0 .. u.count - 1 /\ (i - 1) + shift = (i + shift) - 1
    BY <1>1, <1>2
  <2>2. f(i) = IF i - 1 = u.count - 1 THEN trade ELSE e(i + shift)
    BY <1>3, <2>1
  <2>3. QED
    BY <1>1, <1>2, <2>2
<1> HIDE DEF e, f
<1>6. /\ longer = [i \in 1 .. t.count + 1 |-> IF i = t.count + 1 THEN trade ELSE e(i)]
      /\ Len(longer) = t.count + 1
  BY <1>1, <1>4
<1> HIDE DEF longer
<1>7. CASE t.count = RingSize
  <2>1. Newest(longer) = SubSeq(longer, 2, RingSize + 1)
    <3>1. /\ Len(longer) = RingSize + 1 /\ ~(Len(longer) <= RingSize)
          /\ Len(longer) - RingSize + 1 = 2
      BY <1>1, <1>6, <1>7
    <3>2. QED
      BY <3>1, Zenon DEF Newest
  <2>2. SubSeq(longer, 2, RingSize + 1) = [i \in 1 .. RingSize |-> longer[i + 1]]
    BY <1>1, <1>6, <1>7
  <2>3. \A i \in 1 .. RingSize : longer[i + 1] = IF i = RingSize THEN trade ELSE e(i + 1)
    BY <1>1, <1>6, <1>7
  <2>4. Contents(u) = [i \in 1 .. RingSize |-> longer[i + 1]]
    BY <1>1, <1>2, <1>4, <1>5, <1>7, <2>3
  <2>5. QED
    BY <2>1, <2>2, <2>4 DEF u, trade, longer
<1>8. CASE t.count # RingSize
  <2>1. Newest(longer) = longer
    BY <1>1, <1>6, <1>8 DEF Newest
  <2>2. Contents(u) = [i \in 1 .. t.count + 1 |-> IF i = t.count + 1 THEN trade ELSE e(i)]
    BY <1>1, <1>2, <1>4, <1>5, <1>8
  <2>3. QED
    BY <1>6, <2>1, <2>2 DEF u, trade, longer
<1>9. QED
  BY <1>7, <1>8

LEMMA AppendedFollows ==
  ASSUME NEW t \in Tape, NEW p, NEW class, NEW side
  PROVE  LET u == Appended(t, p, class, side) IN Follows(t, u) /\ Continues(t, u)
<1> DEFINE u == Appended(t, p, class, side)
<1>1. t.generation \in Nat /\ t.nextSeq \in Nat /\ t.count \in 0 .. RingSize
  BY TapeFields
<1>2. /\ u.generation = t.generation /\ u.nextSeq = t.nextSeq + 1
      /\ u.count = IF t.count = RingSize THEN t.count ELSE t.count + 1
  BY DEF Appended
<1>3. Past(t, u)
  BY <1>1, <1>2 DEF Past
<1>4. u.count = Least(RingSize, t.count + 1)
  BY <1>1, <1>2, RingSizeAssumption DEF Least
<1>5. Extends(t, u)
  <2>1. Written(t, p, class, side).seq = t.nextSeq
    BY DEF Written
  <2>2. QED
    BY <1>2, <1>4, <2>1, AppendedContents DEF Extends
<1>6. QED
  BY <1>2, <1>3, <1>4, <1>5, AppendedContiguous DEF Follows, Continues, Shows

LEMMA Reflexive ==
  ASSUME NEW t \in Tape PROVE Follows(t, t) /\ Continues(t, t)
<1>1. t.generation \in Nat /\ t.nextSeq \in Nat /\ t.count \in Nat
  BY TapeFields
<1>2. QED
  BY <1>1 DEF Follows, Continues, Past, Shows

LEMMA TradedFollows ==
  ASSUME NEW t \in Tape, NEW p
  PROVE  Follows(t, Traded(t, p)) /\ Continues(t, Traded(t, p))
  BY Reflexive, AppendedFollows DEF Traded

LEMMA RecordedFollows ==
  ASSUME NEW t \in Tape, NEW p, NEW class, NEW side
  PROVE  /\ Follows(t, Recorded(t, p, class, side))
         /\ Continues(t, Recorded(t, p, class, side))
  BY Reflexive, AppendedFollows DEF Recorded

LEMMA ClearedFollows ==
  ASSUME NEW t \in Tape PROVE Follows(t, Cleared(t))
<1>1. t.generation \in Nat /\ t.nextSeq \in Nat
  BY TapeFields
<1>2. Cleared(t).generation = t.generation + 1 /\ Cleared(t).nextSeq = t.nextSeq
  BY DEF Cleared
<1>3. Cleared(t).count = 0
  BY DEF Cleared
<1>4. QED
  BY <1>1, <1>2, <1>3, EmptiedContiguous DEF Follows, Past, Shows

-----------------------------------------------------------------------------
(* The store.                                                                *)

NilIsNew == \A s \in Symbols : object[s] = 0 => tapes[s] = NewTape

\* While the object a stage was prepared from is the published one, what is
\* published now differs from the stage's base at most as later writes allow.
StageTracked(st) ==
  /\ st.previous <= object[st.symbol]
  /\ st.previous = object[st.symbol] => Past(st.base, tapes[st.symbol])

StagesTracked == \A b \in Builders : stage[b].held => StageTracked(stage[b])

\* A stage retains every print streamed into it, up to the size of the ring.
StageFilled(st) == st.tape.count = Least(RingSize, st.tape.nextSeq - st.base.nextSeq)

StagesFilled == \A b \in Builders : stage[b].held => StageFilled(stage[b])

StoreInv == /\ TypeOK /\ NilIsNew /\ RingsContiguous
            /\ StagesContinue /\ StagesFilled /\ StagesTracked

-----------------------------------------------------------------------------
(* The kinds of steps.                                                       *)

Activates == \E s \in Symbols : Activate(s)
Writes == \E s \in Symbols, u \in Tape : Follows(tapes[s], u) /\ Write(s, u)
Prepares == \E b \in Builders, s \in Symbols : PrepareRebuild(b, s)
StageWrites == \E b \in Builders, u \in Tape :
                 stage[b].held /\ Continues(stage[b].tape, u) /\ StageWrite(b, u)
Commits == \E b \in Builders : CommitPublishes(b)
Discards == \E b \in Builders : Discard(b)

\* What a held stage is.
LEMMA HeldStage ==
  ASSUME TypeOK, NEW b \in Builders, stage[b].held
  PROVE  /\ stage[b] \in Stage
         /\ stage[b].symbol \in Symbols /\ stage[b].previous \in Nat
         /\ stage[b].base \in Tape /\ stage[b].tape \in Tape
<1>1. stage[b] \in Stage \cup {NoStage}
  BY DEF TypeOK
<1>2. stage[b] # NoStage
  BY DEF NoStage
<1>3. stage[b] \in Stage
  BY <1>1, <1>2
<1>4. QED
  BY <1>3 DEF Stage

\* Every step of the store is of one of the kinds: each writer makes of its tape
\* a tape that follows it, each staged event one that continues it.
LEMMA StepKinds ==
  ASSUME TypeOK, Next
  PROVE  Activates \/ Writes \/ Prepares \/ StageWrites \/ Commits \/ Discards
<1>1. ASSUME NEW s \in Symbols, Activate(s) PROVE Activates
  BY <1>1 DEF Activates
<1>2. ASSUME NEW s \in Symbols,
             \/ \E top \in TopsOfBook : UpdateQuote(s, top)
             \/ ClearTopOfBook(s)
             \/ \E last \in LastTrades : UpdateLastPrice(s, last)
             \/ \E ms \in DayVolumes : UpdateDayVolume(s, ms)
             \/ \E close \in Closes : UpdatePreviousClose(s, close)
      PROVE  Writes
  <2>1. tapes[s] \in Tape /\ tapes[s].quote \in Quote
    BY TapeFields DEF TypeOK
  <2>2. ASSUME NEW q \in Quote, Write(s, [tapes[s] EXCEPT !.quote = q]) PROVE Writes
    BY <2>1, <2>2, RequotedType, RequotedFollows DEF Writes
  <2>3. CASE \E top \in TopsOfBook : UpdateQuote(s, top)
    <3>1. PICK top \in TopsOfBook : UpdateQuote(s, top)
      BY <2>3
    <3>2. QuoteUpdated(tapes[s].quote, top[1], top[2]) \in Quote
      BY <2>1, StoreAssumption, QuoteUpdatedType
    <3>3. QED
      BY <2>2, <3>1, <3>2 DEF UpdateQuote
  <2>4. CASE ClearTopOfBook(s)
    BY <2>1, <2>2, <2>4, TopOfBookClearedType DEF ClearTopOfBook
  <2>5. CASE \E last \in LastTrades : UpdateLastPrice(s, last)
    <3>1. PICK last \in LastTrades : UpdateLastPrice(s, last)
      BY <2>5
    <3>2. last[1] \in Nat /\ last[2] \in Nat
      BY StoreAssumption
    <3>3. LastPriceUpdated(tapes[s].quote, last[1], last[2]) \in Quote
      <4>1. last[1] \in Int
        BY <3>2
      <4>2. QED
        BY <2>1, <3>2, <4>1, LastPriceUpdatedType
    <3>4. QED
      BY <2>2, <3>1, <3>3 DEF UpdateLastPrice
  <2>6. CASE \E ms \in DayVolumes : UpdateDayVolume(s, ms)
    <3>1. PICK ms \in DayVolumes : UpdateDayVolume(s, ms)
      BY <2>6
    <3>2. DayVolumeUpdated(tapes[s].quote, ms) \in Quote
      BY <2>1, StoreAssumption, DayVolumeUpdatedType
    <3>3. QED
      BY <2>2, <3>1, <3>2 DEF UpdateDayVolume
  <2>7. CASE \E close \in Closes : UpdatePreviousClose(s, close)
    <3>1. PICK close \in Closes : UpdatePreviousClose(s, close)
      BY <2>7
    <3>2. PreviousCloseUpdated(tapes[s].quote, close) \in Quote
      BY <2>1, StoreAssumption, PreviousCloseUpdatedType
    <3>3. QED
      BY <2>2, <3>1, <3>2 DEF UpdatePreviousClose
  <2>8. QED
    BY <1>2, <2>3, <2>4, <2>5, <2>6, <2>7
<1>3. ASSUME NEW s \in Symbols,
             \/ \E p \in Prints : AddTrade(s, p)
             \/ \E p \in Prints, tag \in RecordedTags : AddRecordedTrade(s, p, tag)
             \/ Clear(s)
      PROVE  Writes
  <2>1. tapes[s] \in Tape
    BY DEF TypeOK
  <2>2. CASE \E p \in Prints : AddTrade(s, p)
    <3>1. PICK p \in Prints : AddTrade(s, p)
      BY <2>2
    <3>2. p \in OfferedPrint
      BY StoreAssumption
    <3>3. Traded(tapes[s], p) \in Tape /\ Follows(tapes[s], Traded(tapes[s], p))
      BY <2>1, <3>2, TradedType, TradedFollows
    <3>4. QED
      BY <3>1, <3>3 DEF AddTrade, Writes
  <2>3. CASE \E p \in Prints, tag \in RecordedTags : AddRecordedTrade(s, p, tag)
    <3>1. PICK p \in Prints, tag \in RecordedTags : AddRecordedTrade(s, p, tag)
      BY <2>3
    <3>2. p \in OfferedPrint /\ tag[1] \in Classes \cup {""} /\ tag[2] \in Sides
      BY StoreAssumption
    <3>3. /\ Recorded(tapes[s], p, tag[1], tag[2]) \in Tape
          /\ Follows(tapes[s], Recorded(tapes[s], p, tag[1], tag[2]))
      BY <2>1, <3>2, RecordedType, RecordedFollows
    <3>4. QED
      BY <3>1, <3>3 DEF AddRecordedTrade, Writes
  <2>4. CASE Clear(s)
    BY <2>1, <2>4, ClearedType, ClearedFollows DEF Clear, Writes
  <2>5. QED
    BY <1>3, <2>2, <2>3, <2>4
<1>4. ASSUME NEW b \in Builders,
             \/ \E top \in TopsOfBook : StageQuote(b, top)
             \/ \E p \in Prints : StageTrade(b, p)
             \/ \E p \in Prints, tag \in RecordedTags : StageRecordedTrade(b, p, tag)
      PROVE  StageWrites
  <2>1. stage[b].held
    BY <1>4 DEF StageQuote, StageTrade, StageRecordedTrade
  <2> DEFINE t == stage[b].tape
  <2>2. t \in Tape /\ t.quote \in Quote
    BY <2>1, HeldStage, TapeFields
  <2>3. ASSUME NEW u \in Tape, Continues(t, u), StageWrite(b, u) PROVE StageWrites
    BY <2>1, <2>3 DEF StageWrites
  <2>4. CASE \E top \in TopsOfBook : StageQuote(b, top)
    <3>1. PICK top \in TopsOfBook : StageQuote(b, top)
      BY <2>4
    <3>2. QuoteUpdated(t.quote, top[1], top[2]) \in Quote
      BY <2>2, StoreAssumption, QuoteUpdatedType
    <3>3. QED
      BY <2>2, <2>3, <3>1, <3>2, RequotedType, RequotedFollows DEF StageQuote
  <2>5. CASE \E p \in Prints : StageTrade(b, p)
    <3>1. PICK p \in Prints : StageTrade(b, p)
      BY <2>5
    <3>2. p \in OfferedPrint
      BY StoreAssumption
    <3>3. QED
      BY <2>2, <2>3, <3>1, <3>2, TradedType, TradedFollows DEF StageTrade
  <2>6. CASE \E p \in Prints, tag \in RecordedTags : StageRecordedTrade(b, p, tag)
    <3>1. PICK p \in Prints, tag \in RecordedTags : StageRecordedTrade(b, p, tag)
      BY <2>6
    <3>2. p \in OfferedPrint /\ tag[1] \in Classes \cup {""} /\ tag[2] \in Sides
      BY StoreAssumption
    <3>3. QED
      BY <2>2, <2>3, <3>1, <3>2, RecordedType, RecordedFollows DEF StageRecordedTrade
  <2>7. QED
    BY <1>4, <2>4, <2>5, <2>6
<1>5. QED
  BY <1>1, <1>2, <1>3, <1>4 DEF Next, Prepares, Commits, Discards

-----------------------------------------------------------------------------
(* The history.                                                              *)

\* Moving a symbol to the front yields a sequence of symbols.
LEMMA MovedToFrontType ==
  ASSUME history \in Seq(Symbols), NEW s \in Symbols
  PROVE  MovedToFront(s) \in Seq(Symbols)
<1> DEFINE places == {i \in DOMAIN history : history[i] = s}
           at == IF places = {} THEN Len(history) + 1 ELSE CHOOSE i \in places : TRUE
           n == Least(HistorySize, IF places = {} THEN Len(history) + 1 ELSE Len(history))
           e(j) == IF j = 1 THEN s ELSE IF j <= at THEN history[j - 1] ELSE history[j]
<1>1. /\ Len(history) \in Nat /\ DOMAIN history = 1 .. Len(history)
      /\ \A i \in 1 .. Len(history) : history[i] \in Symbols
  OBVIOUS
<1>2. at \in 1 .. Len(history) + 1
  <2>1. CASE places = {}
    BY <1>1, <2>1
  <2>2. CASE places # {}
    <3>1. at \in places
      BY <2>2
    <3>2. QED
      BY <1>1, <3>1
  <2>3. QED
    BY <2>1, <2>2
<1>3. n \in Nat /\ n <= (IF places = {} THEN Len(history) + 1 ELSE Len(history))
  <2>1. HistorySize \in Nat
    BY StoreAssumption
  <2>2. \A i, j \in Nat : Least(i, j) \in Nat /\ Least(i, j) <= j
    BY DEF Least
  <2>3. (IF places = {} THEN Len(history) + 1 ELSE Len(history)) \in Nat
    BY <1>1
  <2> HIDE DEF places
  <2>4. QED
    BY <2>1, <2>2, <2>3
<1>4. ASSUME NEW j \in 1 .. n PROVE e(j) \in Symbols
  <2>1. CASE j = 1
    BY <2>1
  <2>2. CASE j # 1 /\ j <= at
    <3>1. j - 1 \in 1 .. Len(history)
      BY <1>1, <1>2, <1>3, <2>2
    <3>2. QED
      BY <1>1, <2>2, <3>1
  <2>3. CASE j # 1 /\ ~(j <= at)
    <3>1. j \in 1 .. Len(history)
      BY <1>1, <1>2, <1>3, <2>3
    <3>2. QED
      BY <1>1, <2>3, <3>1
  <2>4. QED
    BY <2>1, <2>2, <2>3
<1>5. MovedToFront(s) = [j \in 1 .. n |-> e(j)]
  BY Zenon DEF MovedToFront
<1> HIDE DEF n, e
<1>6. [j \in 1 .. n |-> e(j)] \in Seq(Symbols)
  BY <1>3, <1>4
<1>7. QED
  BY <1>5, <1>6

\* What moving a symbol to the front does, place by place: `source` is the place
\* whose symbol ends up at place j, and `at` the place the symbol leaves.
LEMMA MovedToFrontPlaces ==
  ASSUME history \in Seq(Symbols), NEW s \in Symbols,
         \A i, j \in DOMAIN history : history[i] = history[j] => i = j
  PROVE  \E at \in 1 .. Len(history) + 1 :
           LET new == MovedToFront(s)
               longest == IF at = Len(history) + 1 THEN at ELSE Len(history)
           IN /\ at # Len(history) + 1 => history[at] = s
              /\ \A i \in 1 .. Len(history) : history[i] = s => i = at
              /\ Len(new) = IF HistorySize < longest THEN HistorySize ELSE longest
              /\ DOMAIN new = 1 .. Len(new) /\ Len(new) > 0
              /\ new[1] = s
              /\ \A j \in 2 .. Len(new) :
                   new[j] = IF j <= at THEN history[j - 1] ELSE history[j]
<1> DEFINE places == {i \in DOMAIN history : history[i] = s}
           at == IF places = {} THEN Len(history) + 1 ELSE CHOOSE i \in places : TRUE
           longest == IF places = {} THEN Len(history) + 1 ELSE Len(history)
           n == Least(HistorySize, longest)
           e(j) == IF j = 1 THEN s ELSE IF j <= at THEN history[j - 1] ELSE history[j]
           new == [j \in 1 .. n |-> e(j)]
<1>1. /\ Len(history) \in Nat /\ DOMAIN history = 1 .. Len(history)
      /\ \A i, j \in 1 .. Len(history) : history[i] = history[j] => i = j
  OBVIOUS
<1>2. HistorySize \in Nat \ {0}
  BY StoreAssumption
<1>3. places # {} => at \in places
  OBVIOUS
<1>4. /\ at \in 1 .. Len(history) + 1
      /\ at # Len(history) + 1 => history[at] = s
      /\ \A i \in 1 .. Len(history) : history[i] = s => i = at
      /\ at = Len(history) + 1 <=> places = {}
  BY <1>1, <1>3
<1>5. MovedToFront(s) = new
  BY Zenon DEF MovedToFront
<1>6. longest \in Nat \ {0} /\ longest = IF at = Len(history) + 1 THEN at ELSE Len(history)
  BY <1>1, <1>4
<1> HIDE DEF longest, at, places
<1>7. n \in Nat \ {0} /\ n = IF HistorySize < longest THEN HistorySize ELSE longest
  BY <1>2, <1>6 DEF Least
<1> HIDE DEF n
<1>8. /\ DOMAIN new = 1 .. n /\ Len(new) = n /\ new[1] = s
      /\ \A j \in 2 .. n : new[j] = IF j <= at THEN history[j - 1] ELSE history[j]
  BY <1>7
<1> HIDE DEF new
<1>9. QED
  BY <1>4, <1>5, <1>6, <1>7, <1>8

\* Moving a symbol to the front keeps the history an order of recency.
LEMMA MovedToFrontRecency ==
  ASSUME history \in Seq(Symbols), NEW s \in Symbols,
         \A i, j \in DOMAIN history : history[i] = history[j] => i = j
  PROVE  LET new == MovedToFront(s)
         IN /\ new # <<>> /\ new[1] = s /\ Len(new) <= HistorySize
            /\ \A i, j \in DOMAIN new : new[i] = new[j] => i = j
            /\ \A i \in DOMAIN new :
                 new[i] = s \/ \E j \in DOMAIN history : new[i] = history[j]
<1> DEFINE new == MovedToFront(s)
<1>1. PICK at \in 1 .. Len(history) + 1 :
        LET longest == IF at = Len(history) + 1 THEN at ELSE Len(history)
        IN /\ at # Len(history) + 1 => history[at] = s
           /\ \A i \in 1 .. Len(history) : history[i] = s => i = at
           /\ Len(new) = IF HistorySize < longest THEN HistorySize ELSE longest
           /\ DOMAIN new = 1 .. Len(new) /\ Len(new) > 0
           /\ new[1] = s
           /\ \A j \in 2 .. Len(new) :
                new[j] = IF j <= at THEN history[j - 1] ELSE history[j]
  BY MovedToFrontPlaces
<1>2. /\ Len(history) \in Nat /\ DOMAIN history = 1 .. Len(history)
      /\ \A i, j \in 1 .. Len(history) : history[i] = history[j] => i = j
  OBVIOUS
<1>3. HistorySize \in Nat \ {0}
  BY StoreAssumption
<1> DEFINE source(j) == IF j <= at THEN j - 1 ELSE j
<1> HIDE DEF new
<1>4. Len(new) \in Nat /\ Len(new) <= HistorySize
      /\ Len(new) <= (IF at = Len(history) + 1 THEN at ELSE Len(history))
  <2> DEFINE longest == IF at = Len(history) + 1 THEN at ELSE Len(history)
  <2>1. longest \in Nat
    BY <1>2
  <2>2. Len(new) = IF HistorySize < longest THEN HistorySize ELSE longest
    BY <1>1
  <2> HIDE DEF longest
  <2>3. Len(new) \in Nat /\ Len(new) <= HistorySize /\ Len(new) <= longest
    BY <1>3, <2>1, <2>2
  <2>4. QED
    BY <2>3 DEF longest
<1>5. ASSUME NEW j \in 2 .. Len(new)
      PROVE  /\ source(j) \in 1 .. Len(history) /\ source(j) # at
             /\ new[j] = history[source(j)] /\ new[j] # s
  <2>1. source(j) \in 1 .. Len(history) /\ source(j) # at
    BY <1>2, <1>4
  <2>2. new[j] = history[source(j)]
    BY <1>1
  <2>3. new[j] # s
    BY <1>1, <2>1, <2>2
  <2>4. QED
    BY <2>1, <2>2, <2>3
<1>6. ASSUME NEW i \in 1 .. Len(new), NEW j \in 1 .. Len(new), new[i] = new[j]
      PROVE  i = j
  <2>1. CASE i = 1 \/ j = 1
    <3>1. ASSUME NEW k \in 1 .. Len(new), new[k] = s PROVE k = 1
      <4>1. k = 1 \/ k \in 2 .. Len(new)
        BY <1>4
      <4>2. QED
        BY <1>5, <3>1, <4>1
    <3>2. QED
      BY <1>1, <1>6, <2>1, <3>1
  <2>2. CASE i # 1 /\ j # 1
    <3>1. i \in 2 .. Len(new) /\ j \in 2 .. Len(new)
      BY <1>4, <2>2
    <3>2. /\ source(i) \in 1 .. Len(history) /\ source(j) \in 1 .. Len(history)
          /\ history[source(i)] = history[source(j)]
          /\ source(i) # at /\ source(j) # at
      BY <1>5, <1>6, <3>1
    <3>3. source(i) = source(j)
      BY <1>2, <3>2
    <3>4. QED
      BY <3>1, <3>2, <3>3
  <2>3. QED
    BY <2>1, <2>2
<1>7. ASSUME NEW i \in 1 .. Len(new)
      PROVE  new[i] = s \/ \E j \in 1 .. Len(history) : new[i] = history[j]
  <2>1. i = 1 \/ i \in 2 .. Len(new)
    BY <1>4
  <2>2. QED
    BY <1>1, <1>5, <2>1
<1>8. new # <<>>
  BY <1>1
<1>9. QED
  BY <1>1, <1>2, <1>4, <1>6, <1>7, <1>8 DEF new

\* The places involved when a symbol at place i of `len` gives way to one that
\* leaves place `at` (len + 1: it had none) of a history of at most `size`.
LEMMA EvictionPlaces ==
  ASSUME NEW len \in Nat, NEW size \in Nat, len <= size, NEW at \in 1 .. len + 1,
         NEW i \in 1 .. len, NEW n \in Nat, NEW longest \in Nat,
         longest = IF at = len + 1 THEN at ELSE len,
         n = IF size < longest THEN size ELSE longest
  PROVE  /\ i > at => n = len
         /\ i < at /\ i + 1 > n => i = len /\ len = size
  OBVIOUS

\* What moving a symbol to the front drops is the last entry of a full history.
LEMMA MovedToFrontEvicts ==
  ASSUME history \in Seq(Symbols), Len(history) <= HistorySize,
         \A i, j \in DOMAIN history : history[i] = history[j] => i = j,
         NEW s \in Symbols, NEW i \in DOMAIN history,
         \A j \in DOMAIN MovedToFront(s) : MovedToFront(s)[j] # history[i]
  PROVE  i = Len(history) /\ Len(history) = HistorySize
<1> DEFINE new == MovedToFront(s)
<1>1. PICK at \in 1 .. Len(history) + 1 :
        LET longest == IF at = Len(history) + 1 THEN at ELSE Len(history)
        IN /\ at # Len(history) + 1 => history[at] = s
           /\ \A k \in 1 .. Len(history) : history[k] = s => k = at
           /\ Len(new) = IF HistorySize < longest THEN HistorySize ELSE longest
           /\ DOMAIN new = 1 .. Len(new) /\ Len(new) > 0
           /\ new[1] = s
           /\ \A j \in 2 .. Len(new) :
                new[j] = IF j <= at THEN history[j - 1] ELSE history[j]
  BY MovedToFrontPlaces
<1> DEFINE longest == IF at = Len(history) + 1 THEN at ELSE Len(history)
<1>2. Len(history) \in Nat /\ DOMAIN history = 1 .. Len(history)
  OBVIOUS
<1>3. HistorySize \in Nat \ {0}
  BY StoreAssumption
<1>4. \A j \in DOMAIN new : new[j] # history[i]
  OBVIOUS
<1> HIDE DEF new
<1>5. /\ longest \in Nat
      /\ Len(new) = IF HistorySize < longest THEN HistorySize ELSE longest
      /\ longest = IF at = Len(history) + 1 THEN at ELSE Len(history)
  BY <1>1, <1>2
<1> HIDE DEF longest
<1>6. Len(new) \in Nat \ {0}
  BY <1>1, <1>3, <1>5
<1>7. \A j \in 1 .. Len(new) : new[j] # history[i]
  BY <1>1, <1>4
<1>8. history[i] # s
  BY <1>1, <1>6, <1>7
<1>9. i \in 1 .. Len(history) /\ i # at
  BY <1>1, <1>2, <1>8
<1>10. i < at
  <2>1. SUFFICES ASSUME i > at PROVE FALSE
    BY <1>9
  <2>2. Len(new) = Len(history)
    BY <1>2, <1>3, <1>5, <1>6, <1>9, <2>1, EvictionPlaces
  <2>3. i \in 2 .. Len(new) /\ ~(i <= at)
    BY <1>2, <1>9, <2>1, <2>2
  <2>4. new[i] = history[i]
    BY <1>1, <2>3
  <2>5. QED
    BY <1>2, <1>7, <1>9, <2>2, <2>4
<1>11. i + 1 > Len(new)
  <2>1. SUFFICES ASSUME i + 1 <= Len(new) PROVE FALSE
    BY <1>6, <1>9
  <2>2. i + 1 \in 2 .. Len(new) /\ i + 1 <= at /\ (i + 1) - 1 = i
    BY <1>6, <1>9, <1>10, <2>1
  <2>3. new[i + 1] = history[i]
    BY <1>1, <2>2
  <2>4. QED
    BY <1>7, <2>2, <2>3
<1>12. QED
  <2> DEFINE len == Len(history)
             n == Len(new)
  <2>1. /\ len \in Nat /\ HistorySize \in Nat /\ len <= HistorySize
        /\ at \in 1 .. len + 1 /\ i \in 1 .. len /\ n \in Nat /\ longest \in Nat
        /\ longest = (IF at = len + 1 THEN at ELSE len)
        /\ n = IF HistorySize < longest THEN HistorySize ELSE longest
    BY <1>2, <1>3, <1>5, <1>6, <1>9
  <2>2. i < at /\ i + 1 > n
    BY <1>10, <1>11
  <2> HIDE DEF len, n
  <2>3. i = len /\ len = HistorySize
    BY <2>1, <2>2, EvictionPlaces
  <2>4. QED
    BY <2>3 DEF len

-----------------------------------------------------------------------------
(* The inductive invariant.                                                  *)

LEMMA InitStoreInv == Init => StoreInv
<1> SUFFICES ASSUME Init PROVE StoreInv
  OBVIOUS
<1>1. TypeOK
  <2>1. DefaultSymbol \in Symbols
    BY StoreAssumption
  <2>2. tapes \in [Symbols -> Tape]
    BY NewTapeType DEF Init
  <2>3. object \in [Symbols -> Nat]
    BY DEF Init
  <2>4. active \in Symbols /\ history \in Seq(Symbols)
    BY <2>1 DEF Init
  <2>5. stage \in [Builders -> Stage \cup {NoStage}]
    BY DEF Init
  <2>6. QED
    BY <2>2, <2>3, <2>4, <2>5 DEF TypeOK
<1>2. NilIsNew
  BY DEF Init, NilIsNew
<1>3. RingsContiguous
  BY EmptiedContiguous DEF Init, RingsContiguous, NoStage
<1>4. StagesContinue /\ StagesFilled /\ StagesTracked
  BY DEF Init, StagesContinue, StagesFilled, StagesTracked, NoStage
<1>5. QED
  BY <1>1, <1>2, <1>3, <1>4 DEF StoreInv

\* A write changes one published tape.
LEMMA WritesStoreInv ==
  ASSUME StoreInv, NEW s \in Symbols, NEW u \in Tape, Follows(tapes[s], u), Write(s, u)
  PROVE  StoreInv'
<1>1. /\ tapes' = [tapes EXCEPT ![s] = u] /\ stage' = stage
      /\ object' = [object EXCEPT ![s] = IF @ = 0 THEN 1 ELSE @]
      /\ active' = active /\ history' = history
  BY DEF Write, GotOrCreated
<1>2. tapes \in [Symbols -> Tape] /\ object \in [Symbols -> Nat]
  BY DEF StoreInv, TypeOK
<1>3. TypeOK'
  BY <1>1 DEF StoreInv, TypeOK
<1>4. NilIsNew'
  BY <1>1, <1>2 DEF StoreInv, NilIsNew
<1>5. RingsContiguous'
  BY <1>1, <1>2 DEF StoreInv, RingsContiguous, Follows
<1>6. StagesContinue' /\ StagesFilled'
  BY <1>1 DEF StoreInv, StagesContinue, StagesFilled, StageFilled
<1>7. StagesTracked'
  <2> SUFFICES ASSUME NEW b \in Builders, stage[b].held PROVE StageTracked(stage[b])'
    BY <1>1 DEF StagesTracked
  <2> DEFINE st == stage[b]
  <2>1. st.symbol \in Symbols /\ st.previous \in Nat /\ st.base \in Tape
    BY HeldStage DEF StoreInv
  <2>2. /\ st.previous <= object[st.symbol]
        /\ st.previous = object[st.symbol] => Past(st.base, tapes[st.symbol])
    BY DEF StoreInv, StagesTracked, StageTracked
  <2>3. CASE st.symbol # s
    <3>1. object'[st.symbol] = object[st.symbol] /\ tapes'[st.symbol] = tapes[st.symbol]
      BY <1>1, <1>2, <2>1, <2>3
    <3>2. QED
      BY <1>1, <2>2, <3>1 DEF StageTracked
  <2>4. CASE st.symbol = s
    <3>1. /\ object'[s] = IF object[s] = 0 THEN 1 ELSE object[s]
          /\ tapes'[s] = u /\ object[s] \in Nat
      BY <1>1, <1>2
    <3>2. st.previous <= object'[s]
      BY <2>1, <2>2, <2>4, <3>1
    <3>3. ASSUME st.previous = object'[s] PROVE Past(st.base, u)
      <4>1. st.previous = object[s]
        BY <2>2, <2>4, <3>1, <3>3
      <4>2. Past(st.base, tapes[s]) /\ Past(tapes[s], u)
        BY <2>2, <2>4, <4>1 DEF Follows
      <4>3. QED
        BY <1>2, <2>1, <4>2, PastTransitive
    <3>4. QED
      BY <1>1, <2>4, <3>1, <3>2, <3>3 DEF StageTracked
  <2>5. QED
    BY <2>3, <2>4
<1>8. QED
  BY <1>3, <1>4, <1>5, <1>6, <1>7 DEF StoreInv

LEMMA ActivateStoreInv ==
  ASSUME StoreInv, NEW s \in Symbols, Activate(s) PROVE StoreInv'
<1>1. /\ tapes' = tapes /\ stage' = stage /\ active' = s /\ history' = MovedToFront(s)
      /\ object' = [object EXCEPT ![s] = IF @ = 0 THEN 1 ELSE @]
  BY DEF Activate, GotOrCreated
<1>2. /\ tapes \in [Symbols -> Tape] /\ object \in [Symbols -> Nat]
      /\ history \in Seq(Symbols)
  BY DEF StoreInv, TypeOK
<1>3. TypeOK'
  <2>1. history' \in Seq(Symbols)
    BY <1>1, <1>2, MovedToFrontType
  <2>2. QED
    BY <1>1, <2>1 DEF StoreInv, TypeOK
<1>4. NilIsNew'
  BY <1>1, <1>2 DEF StoreInv, NilIsNew
<1>5. RingsContiguous' /\ StagesContinue' /\ StagesFilled'
  BY <1>1 DEF StoreInv, RingsContiguous, StagesContinue, StagesFilled, StageFilled
<1>6. StagesTracked'
  <2> SUFFICES ASSUME NEW b \in Builders, stage[b].held PROVE StageTracked(stage[b])'
    BY <1>1 DEF StagesTracked
  <2> DEFINE st == stage[b]
  <2>1. st.symbol \in Symbols /\ st.previous \in Nat
    BY HeldStage DEF StoreInv
  <2>2. /\ st.previous <= object[st.symbol]
        /\ st.previous = object[st.symbol] => Past(st.base, tapes[st.symbol])
    BY DEF StoreInv, StagesTracked, StageTracked
  <2>3. object'[st.symbol] = object[st.symbol]
        \/ (object[st.symbol] = 0 /\ object'[st.symbol] = 1)
    BY <1>1, <1>2, <2>1
  <2>4. QED
    BY <1>1, <1>2, <2>1, <2>2, <2>3 DEF StageTracked
<1>7. QED
  BY <1>3, <1>4, <1>5, <1>6 DEF StoreInv

LEMMA PrepareStoreInv ==
  ASSUME StoreInv, NEW b \in Builders, NEW s \in Symbols, PrepareRebuild(b, s)
  PROVE  StoreInv'
<1> DEFINE new == IF object[s] = 0 THEN NewTape ELSE StagedFrom(tapes[s])
           st == [held |-> TRUE, symbol |-> s, previous |-> object[s],
                  base |-> tapes[s], tape |-> new]
<1>1. /\ stage' = [stage EXCEPT ![b] = st]
      /\ tapes' = tapes /\ object' = object /\ active' = active /\ history' = history
  BY DEF PrepareRebuild
<1>2. /\ tapes \in [Symbols -> Tape] /\ object \in [Symbols -> Nat]
      /\ stage \in [Builders -> Stage \cup {NoStage}]
  BY DEF StoreInv, TypeOK
<1>3. tapes[s] \in Tape /\ object[s] \in Nat /\ new \in Tape
  BY <1>2, NewTapeType, StagedFromType
<1>4. RingContiguous(new)
  BY <1>2, EmptiedContiguous
<1>5. /\ new.nextSeq - new.count >= tapes[s].nextSeq
      /\ new.count = 0 /\ new.nextSeq = tapes[s].nextSeq
      /\ object[s] # 0 => new.generation = tapes[s].generation + 1
      /\ object[s] = 0 => new.generation = tapes[s].generation
  <2>1. CASE object[s] = 0
    <3>1. tapes[s] = NewTape
      BY <2>1 DEF StoreInv, NilIsNew
    <3>2. QED
      BY <2>1, <3>1 DEF NewTape
  <2>2. CASE object[s] # 0
    <3>1. tapes[s].nextSeq \in Nat
      BY <1>3, TapeFields
    <3>2. QED
      BY <2>2, <3>1 DEF StagedFrom
  <2>3. QED
    BY <2>1, <2>2
<1>6. /\ st.symbol = s /\ st.previous = object[s] /\ st.base = tapes[s] /\ st.tape = new
      /\ st \in Stage
  BY <1>3 DEF Stage
<1>7. Past(tapes[s], tapes[s])
  BY <1>3, Reflexive DEF Follows
<1> HIDE DEF st, new
<1>8. stage'[b] = st /\ \A c \in Builders : c # b => stage'[c] = stage[c]
  BY <1>1, <1>2
<1>9. TypeOK'
  BY <1>1, <1>2, <1>6 DEF StoreInv, TypeOK
<1>10. NilIsNew'
  BY <1>1 DEF StoreInv, NilIsNew
<1>11. RingsContiguous'
  BY <1>1, <1>4, <1>6, <1>8 DEF StoreInv, RingsContiguous
<1>12. StagesContinue'
  <2> SUFFICES ASSUME NEW c \in Builders, stage'[c].held
               PROVE  /\ stage'[c].tape.nextSeq - stage'[c].tape.count
                           >= stage'[c].base.nextSeq
                      /\ stage'[c].previous # 0 =>
                           stage'[c].tape.generation = stage'[c].base.generation + 1
                      /\ stage'[c].previous = 0 =>
                           stage'[c].tape.generation = stage'[c].base.generation
    BY DEF StagesContinue
  <2>1. CASE c = b
    BY <1>5, <1>6, <1>8, <2>1
  <2>2. CASE c # b
    BY <1>8, <2>2 DEF StoreInv, StagesContinue
  <2>3. QED
    BY <2>1, <2>2
<1>13. StagesTracked'
  <2> SUFFICES ASSUME NEW c \in Builders, stage'[c].held PROVE StageTracked(stage[c])'
    BY DEF StagesTracked
  <2>1. CASE c = b
    BY <1>1, <1>3, <1>6, <1>7, <1>8, <2>1 DEF StageTracked
  <2>2. CASE c # b
    BY <1>1, <1>8, <2>2 DEF StoreInv, StagesTracked, StageTracked
  <2>3. QED
    BY <2>1, <2>2
<1>14. StagesFilled'
  <2> SUFFICES ASSUME NEW c \in Builders, stage'[c].held PROVE StageFilled(stage[c])'
    BY DEF StagesFilled
  <2>1. CASE c = b
    <3>1. tapes[s].nextSeq \in Nat
      BY <1>3, TapeFields
    <3>2. Least(RingSize, tapes[s].nextSeq - tapes[s].nextSeq) = 0
      BY <3>1, RingSizeAssumption DEF Least
    <3>3. QED
      BY <1>5, <1>6, <1>8, <2>1, <3>2 DEF StageFilled
  <2>2. CASE c # b
    BY <1>8, <2>2 DEF StoreInv, StagesFilled, StageFilled
  <2>3. QED
    BY <2>1, <2>2
<1>15. QED
  BY <1>9, <1>10, <1>11, <1>12, <1>13, <1>14 DEF StoreInv

\* A stage whose tape alone changes is a stage.
LEMMA RetapedStage ==
  ASSUME NEW st \in Stage, NEW u \in Tape
  PROVE  LET new == [st EXCEPT !.tape = u]
         IN /\ new \in Stage /\ new.tape = u /\ new.base = st.base
            /\ new.symbol = st.symbol /\ new.previous = st.previous
  BY DEF Stage

\* A staged event changes one stage's tape.
LEMMA StageWriteStoreInv ==
  ASSUME StoreInv, NEW b \in Builders, NEW u \in Tape, stage[b].held,
         Continues(stage[b].tape, u), StageWrite(b, u)
  PROVE  StoreInv'
<1> DEFINE st == stage[b]
<1>1. /\ stage' = [stage EXCEPT ![b].tape = u]
      /\ tapes' = tapes /\ object' = object /\ active' = active /\ history' = history
  BY DEF StageWrite
<1>2. stage \in [Builders -> Stage \cup {NoStage}]
  BY DEF StoreInv, TypeOK
<1>3. st \in Stage /\ st.symbol \in Symbols /\ st.base \in Tape /\ st.tape \in Tape
      /\ st.previous \in Nat
  BY HeldStage DEF StoreInv
<1>4. /\ stage'[b] = [st EXCEPT !.tape = u]
      /\ \A c \in Builders : c # b => stage'[c] = stage[c]
      /\ stage' = [stage EXCEPT ![b] = [st EXCEPT !.tape = u]]
  BY <1>1, <1>2
<1>5. /\ stage'[b] \in Stage /\ stage'[b].tape = u /\ stage'[b].base = st.base
      /\ stage'[b].symbol = st.symbol /\ stage'[b].previous = st.previous
  BY <1>3, <1>4, RetapedStage
<1>6. TypeOK'
  <2>1. stage' \in [Builders -> Stage \cup {NoStage}]
    BY <1>2, <1>4, <1>5
  <2>2. QED
    BY <1>1, <2>1 DEF StoreInv, TypeOK
<1>7. NilIsNew'
  BY <1>1 DEF StoreInv, NilIsNew
<1>8. RingContiguous(u)
  BY DEF StoreInv, RingsContiguous, Continues
<1>9. RingsContiguous'
  BY <1>1, <1>4, <1>5, <1>8 DEF StoreInv, RingsContiguous
<1>10. StagesContinue'
  <2> SUFFICES ASSUME NEW c \in Builders, stage'[c].held
               PROVE  /\ stage'[c].tape.nextSeq - stage'[c].tape.count
                           >= stage'[c].base.nextSeq
                      /\ stage'[c].previous # 0 =>
                           stage'[c].tape.generation = stage'[c].base.generation + 1
                      /\ stage'[c].previous = 0 =>
                           stage'[c].tape.generation = stage'[c].base.generation
    BY DEF StagesContinue
  <2>1. CASE c = b
    <3>1. /\ u.generation = st.tape.generation
          /\ \/ u.nextSeq = st.tape.nextSeq /\ u.count = st.tape.count
             \/ u.nextSeq = st.tape.nextSeq + 1 /\ u.count <= st.tape.count + 1
      <4>1. RingSize \in Nat /\ st.tape.count \in Nat
        BY <1>3, TapeFields, RingSizeAssumption
      <4>2. Least(RingSize, st.tape.count + 1) <= st.tape.count + 1
        BY <4>1 DEF Least
      <4>3. QED
        BY <4>2 DEF Continues
    <3>2. /\ st.tape.nextSeq - st.tape.count >= st.base.nextSeq
          /\ st.previous # 0 => st.tape.generation = st.base.generation + 1
          /\ st.previous = 0 => st.tape.generation = st.base.generation
      BY DEF StoreInv, StagesContinue
    <3>3. /\ st.tape.nextSeq \in Nat /\ st.tape.count \in Nat /\ st.base.nextSeq \in Nat
          /\ u.nextSeq \in Nat /\ u.count \in Nat
      BY <1>3, TapeFields
    <3>4. QED
      BY <1>5, <2>1, <3>1, <3>2, <3>3
  <2>2. CASE c # b
    BY <1>4, <2>2 DEF StoreInv, StagesContinue
  <2>3. QED
    BY <2>1, <2>2
<1>11. StagesTracked'
  BY <1>1, <1>4, <1>5 DEF StoreInv, StagesTracked, StageTracked
<1>12. StagesFilled'
  <2> SUFFICES ASSUME NEW c \in Builders, stage'[c].held PROVE StageFilled(stage[c])'
    BY DEF StagesFilled
  <2>1. CASE c = b
    <3>1. st.tape.count = Least(RingSize, st.tape.nextSeq - st.base.nextSeq)
      BY DEF StoreInv, StagesFilled, StageFilled
    <3>2. \/ u.nextSeq = st.tape.nextSeq /\ u.count = st.tape.count
          \/ u.nextSeq = st.tape.nextSeq + 1 /\ u.count = Least(RingSize, st.tape.count + 1)
      BY DEF Continues
    <3>3. /\ st.tape.nextSeq \in Nat /\ st.base.nextSeq \in Nat /\ st.tape.count \in Nat
          /\ RingSize \in Nat \ {0} /\ st.tape.nextSeq - st.tape.count >= st.base.nextSeq
      BY <1>3, TapeFields, RingSizeAssumption DEF StoreInv, StagesContinue
    <3>4. u.count = Least(RingSize, u.nextSeq - st.base.nextSeq)
      BY <3>1, <3>2, <3>3 DEF Least
    <3>5. QED
      BY <1>5, <2>1, <3>4 DEF StageFilled
  <2>2. CASE c # b
    BY <1>4, <2>2 DEF StoreInv, StagesFilled, StageFilled
  <2>3. QED
    BY <2>1, <2>2
<1>13. QED
  BY <1>6, <1>7, <1>9, <1>10, <1>11, <1>12 DEF StoreInv

\* Commit swaps one tape object for a new one and gives up the stage.
LEMMA CommitStoreInv ==
  ASSUME StoreInv, NEW b \in Builders, CommitPublishes(b) PROVE StoreInv'
<1> DEFINE st == stage[b]
           s == st.symbol
<1>1. /\ st.held /\ tapes' = [tapes EXCEPT ![s] = st.tape]
      /\ object' = [object EXCEPT ![s] = @ + 1]
      /\ active' = s /\ history' = MovedToFront(s)
      /\ stage' = [stage EXCEPT ![b] = NoStage]
  BY DEF CommitPublishes
<1>2. /\ tapes \in [Symbols -> Tape] /\ object \in [Symbols -> Nat]
      /\ stage \in [Builders -> Stage \cup {NoStage}] /\ history \in Seq(Symbols)
  BY DEF StoreInv, TypeOK
<1>3. s \in Symbols /\ st.tape \in Tape
  BY <1>1, HeldStage DEF StoreInv
<1>4. /\ stage'[b] = NoStage
      /\ \A c \in Builders : c # b => stage'[c] = stage[c]
      /\ \A c \in Builders : stage'[c].held => c # b
  BY <1>1, <1>2 DEF NoStage
<1>5. /\ object'[s] = object[s] + 1 /\ object[s] \in Nat /\ tapes'[s] = st.tape
      /\ \A r \in Symbols : r # s => object'[r] = object[r] /\ tapes'[r] = tapes[r]
  BY <1>1, <1>2, <1>3
<1>6. TypeOK'
  <2>1. history' \in Seq(Symbols)
    BY <1>1, <1>2, <1>3, MovedToFrontType
  <2>2. tapes' \in [Symbols -> Tape] /\ object' \in [Symbols -> Nat]
    BY <1>1, <1>2, <1>3, <1>5
  <2>3. stage' \in [Builders -> Stage \cup {NoStage}]
    BY <1>1, <1>2
  <2>4. QED
    BY <1>1, <1>3, <2>1, <2>2, <2>3 DEF TypeOK
<1>7. NilIsNew'
  BY <1>5 DEF StoreInv, NilIsNew
<1>8. RingsContiguous'
  BY <1>1, <1>4, <1>5 DEF StoreInv, RingsContiguous
<1>9. StagesContinue' /\ StagesFilled'
  BY <1>4 DEF StoreInv, StagesContinue, StagesFilled, StageFilled
<1>10. StagesTracked'
  <2> SUFFICES ASSUME NEW c \in Builders, stage'[c].held PROVE StageTracked(stage[c])'
    BY DEF StagesTracked
  <2>1. stage'[c] = stage[c] /\ stage[c].held
    BY <1>4
  <2>2. /\ stage[c].symbol \in Symbols /\ stage[c].previous \in Nat
        /\ stage[c].previous <= object[stage[c].symbol]
        /\ stage[c].previous = object[stage[c].symbol] =>
             Past(stage[c].base, tapes[stage[c].symbol])
    BY <2>1, HeldStage DEF StoreInv, StagesTracked, StageTracked
  <2>3. CASE stage[c].symbol = s
    BY <1>5, <2>1, <2>2, <2>3 DEF StageTracked
  <2>4. CASE stage[c].symbol # s
    BY <1>5, <2>1, <2>2, <2>4 DEF StageTracked
  <2>5. QED
    BY <2>3, <2>4
<1>11. QED
  BY <1>6, <1>7, <1>8, <1>9, <1>10 DEF StoreInv

LEMMA DiscardStoreInv ==
  ASSUME StoreInv, NEW b \in Builders, Discard(b) PROVE StoreInv'
<1>1. /\ stage' = [stage EXCEPT ![b] = NoStage]
      /\ tapes' = tapes /\ object' = object /\ active' = active /\ history' = history
  BY DEF Discard
<1>2. stage \in [Builders -> Stage \cup {NoStage}]
  BY DEF StoreInv, TypeOK
<1>3. \A c \in Builders : stage'[c].held => stage'[c] = stage[c]
  BY <1>1, <1>2 DEF NoStage
<1>4. TypeOK'
  BY <1>1, <1>2 DEF StoreInv, TypeOK
<1>5. NilIsNew' /\ RingsContiguous' /\ StagesContinue' /\ StagesFilled'
  BY <1>1, <1>3 DEF StoreInv, NilIsNew, RingsContiguous, StagesContinue,
                    StagesFilled, StageFilled
<1>6. StagesTracked'
  BY <1>1, <1>3 DEF StoreInv, StagesTracked, StageTracked
<1>7. QED
  BY <1>4, <1>5, <1>6 DEF StoreInv

LEMMA NextStoreInv == StoreInv /\ [Next]_vars => StoreInv'
<1> SUFFICES ASSUME StoreInv, [Next]_vars PROVE StoreInv'
  OBVIOUS
<1>1. CASE UNCHANGED vars
  BY <1>1 DEF vars, StoreInv, TypeOK, NilIsNew, RingsContiguous, StagesContinue,
              StagesFilled, StageFilled, StagesTracked, StageTracked
<1>2. CASE Next
  <2>1. Activates \/ Writes \/ Prepares \/ StageWrites \/ Commits \/ Discards
    BY <1>2, StepKinds DEF StoreInv
  <2>2. CASE Activates
    BY <2>2, ActivateStoreInv DEF Activates
  <2>3. CASE Writes
    BY <2>3, WritesStoreInv DEF Writes
  <2>4. CASE Prepares
    BY <2>4, PrepareStoreInv DEF Prepares
  <2>5. CASE StageWrites
    BY <2>5, StageWriteStoreInv DEF StageWrites
  <2>6. CASE Commits
    BY <2>6, CommitStoreInv DEF Commits
  <2>7. CASE Discards
    BY <2>7, DiscardStoreInv DEF Discards
  <2>8. QED
    BY <2>1, <2>2, <2>3, <2>4, <2>5, <2>6, <2>7
<1>3. QED
  BY <1>1, <1>2

LEMMA StoreInvHolds == Spec => []StoreInv
  BY InitStoreInv, NextStoreInv, PTL DEF Spec

-----------------------------------------------------------------------------
(* The theorems.                                                             *)

\* Whatever feeds, replays and operators do to the store (Store's methods), its
\* tapes, history and stages keep their types: counts stay within the rings.
THEOREM TypesHold == Spec => []TypeOK
  BY StoreInvHolds, PTL DEF StoreInv

\* Every ring - published or staged, wrapped, cleared or continued from a
\* replaced one - carries consecutive numbers in the slots appendLocked and the
\* readers agree on.
THEOREM RingsStayContiguous == Spec => []RingsContiguous
  BY StoreInvHolds, PTL DEF StoreInv

\* A rebuild stage (PrepareRebuild and its sinks) never holds a number that the
\* tape it was prepared from had assigned, and is one generation past it.
THEOREM StagesStayContinuous == Spec => []StagesContinue
  BY StoreInvHolds, PTL DEF StoreInv

\* Commit never discards a write: comparing pointer, generation, next number and
\* quote is enough to know that the whole tape is the one the rebuild began from.
THEOREM CommitLosesNothing == Spec => NoLostPublication
<1> DEFINE Kept == \A s \in Symbols : object[s] # 0 /\ object'[s] # object[s] =>
                     \E b \in Builders : /\ stage[b].held
                                         /\ stage[b].symbol = s
                                         /\ stage[b].base = tapes[s]
<1>1. ASSUME StoreInv, [Next]_vars PROVE [Kept]_vars
  <2> SUFFICES ASSUME Next, NEW s \in Symbols, object[s] # 0, object'[s] # object[s]
               PROVE  \E b \in Builders : /\ stage[b].held
                                          /\ stage[b].symbol = s
                                          /\ stage[b].base = tapes[s]
    BY <1>1
  <2>1. object \in [Symbols -> Nat]
    BY <1>1 DEF StoreInv, TypeOK
  <2>2. Activates \/ Writes \/ Prepares \/ StageWrites \/ Commits \/ Discards
    BY <1>1, StepKinds DEF StoreInv
  <2>3. ~Activates /\ ~Writes
    BY <2>1 DEF Activates, Activate, Writes, Write, GotOrCreated
  <2>4. ~Prepares /\ ~StageWrites /\ ~Discards
    BY DEF Prepares, PrepareRebuild, StageWrites, StageWrite, Discards, Discard
  <2>5. PICK b \in Builders : CommitPublishes(b)
    BY <2>2, <2>3, <2>4 DEF Commits
  <2> DEFINE st == stage[b]
  <2>6. st.held /\ Unchanged(st) /\ object' = [object EXCEPT ![st.symbol] = @ + 1]
    BY <2>5 DEF CommitPublishes
  <2>7. st.symbol = s
    BY <2>1, <2>6
  <2>8. /\ object[s] = st.previous
        /\ tapes[s].generation = st.base.generation
        /\ tapes[s].nextSeq = st.base.nextSeq /\ tapes[s].quote = st.base.quote
    BY <2>6, <2>7 DEF Unchanged
  <2>9. Past(st.base, tapes[s])
    BY <1>1, <2>6, <2>7, <2>8 DEF StoreInv, StagesTracked, StageTracked
  <2>10. st.base \in Tape /\ tapes[s] \in Tape
    BY <1>1, <2>6, HeldStage DEF StoreInv, TypeOK
  <2>11. st.base = tapes[s]
    BY <2>8, <2>9, <2>10, PastEqual
  <2>12. QED
    BY <2>6, <2>7, <2>11
<1>2. QED
  BY <1>1, StoreInvHolds, PTL DEF Spec, NoLostPublication

\* The history is the recency order of the symbols at every moment: Activate and
\* Commit put a symbol in front, never list one twice, and never list one that
\* has no tape.
THEOREM HistoryStaysRecency == Spec => []HistoryIsRecency
<1>1. Init => HistoryIsRecency
  <2>1. DefaultSymbol \in Symbols /\ HistorySize \in Nat \ {0}
    BY StoreAssumption
  <2>2. HistorySize >= 1 /\ <<DefaultSymbol>> # <<>> /\ Len(<<DefaultSymbol>>) = 1
    BY <2>1
  <2>3. QED
    BY <2>1, <2>2 DEF Init, HistoryIsRecency
<1>2. ASSUME StoreInv, HistoryIsRecency, [Next]_vars PROVE HistoryIsRecency'
  <2>1. CASE UNCHANGED vars
    BY <1>2, <2>1 DEF vars, HistoryIsRecency
  <2>2. CASE Next
    <3>1. Activates \/ Writes \/ Prepares \/ StageWrites \/ Commits \/ Discards
      BY <1>2, <2>2, StepKinds DEF StoreInv
    <3>2. /\ object \in [Symbols -> Nat] /\ history \in Seq(Symbols)
          /\ \A i \in DOMAIN history : history[i] \in Symbols
      BY <1>2 DEF StoreInv, TypeOK
    <3>3. ASSUME NEW s \in Symbols, active' = s, history' = MovedToFront(s),
                 object'[s] # 0, \A r \in Symbols : object[r] # 0 => object'[r] # 0
          PROVE  HistoryIsRecency'
      <4>1. /\ history' # <<>> /\ history'[1] = s /\ Len(history') <= HistorySize
            /\ \A i, j \in DOMAIN history' : history'[i] = history'[j] => i = j
            /\ \A i \in DOMAIN history' :
                 history'[i] = s \/ \E j \in DOMAIN history : history'[i] = history[j]
        BY <1>2, <3>2, <3>3, MovedToFrontRecency DEF HistoryIsRecency
      <4>2. \A i \in DOMAIN history' : object'[history'[i]] # 0
        BY <1>2, <3>2, <3>3, <4>1 DEF HistoryIsRecency
      <4>3. QED
        BY <3>3, <4>1, <4>2 DEF HistoryIsRecency
    <3>4. CASE Activates
      BY <3>2, <3>3, <3>4 DEF Activates, Activate, GotOrCreated
    <3>5. CASE Commits
      <4>1. PICK b \in Builders : CommitPublishes(b)
        BY <3>5 DEF Commits
      <4>2. stage[b].symbol \in Symbols
        BY <1>2, <4>1, HeldStage DEF StoreInv, CommitPublishes
      <4>3. QED
        BY <3>2, <3>3, <4>1, <4>2 DEF CommitPublishes
    <3>6. CASE Writes \/ Prepares \/ StageWrites \/ Discards
      <4>1. history' = history /\ active' = active
            /\ \A r \in Symbols : object[r] # 0 => object'[r] # 0
        BY <3>2, <3>6 DEF Writes, Write, GotOrCreated, Prepares, PrepareRebuild,
                          StageWrites, StageWrite, Discards, Discard
      <4>2. QED
        BY <1>2, <3>2, <4>1 DEF HistoryIsRecency
    <3>7. QED
      BY <3>1, <3>4, <3>5, <3>6
  <2>3. QED
    BY <1>2, <2>1, <2>2
<1>3. QED
  BY <1>1, <1>2, StoreInvHolds, PTL DEF Spec

\* A symbol that Activate or Commit drops from the history was the least recent
\* one of a full history.
THEOREM LeastRecentIsEvicted == Spec => EvictsLeastRecent
<1> DEFINE Evicts == \A s \in Symbols :
                       /\ \E i \in DOMAIN history : history[i] = s
                       /\ \A i \in DOMAIN history' : history'[i] # s
                       => history[Len(history)] = s /\ Len(history) = HistorySize
<1>1. ASSUME StoreInv, HistoryIsRecency, [Next]_vars PROVE [Evicts]_vars
  <2> SUFFICES ASSUME Next, NEW s \in Symbols,
                      NEW i \in DOMAIN history, history[i] = s,
                      \A j \in DOMAIN history' : history'[j] # s
               PROVE  history[Len(history)] = s /\ Len(history) = HistorySize
    BY <1>1
  <2>1. Activates \/ Writes \/ Prepares \/ StageWrites \/ Commits \/ Discards
    BY <1>1, StepKinds DEF StoreInv
  <2>2. history' # history
    OBVIOUS
  <2>3. ~Writes /\ ~Prepares /\ ~StageWrites /\ ~Discards
    BY <2>2 DEF Writes, Write, Prepares, PrepareRebuild,
                StageWrites, StageWrite, Discards, Discard
  <2>4. \E r \in Symbols : history' = MovedToFront(r)
    <3>1. CASE Activates
      BY <3>1 DEF Activates, Activate
    <3>2. CASE Commits
      <4>1. PICK b \in Builders : CommitPublishes(b)
        BY <3>2 DEF Commits
      <4>2. stage[b].symbol \in Symbols
        BY <1>1, <4>1, HeldStage DEF StoreInv, CommitPublishes
      <4>3. QED
        BY <4>1, <4>2 DEF CommitPublishes
    <3>3. QED
      BY <2>1, <2>3, <3>1, <3>2
  <2>5. PICK r \in Symbols : history' = MovedToFront(r)
    BY <2>4
  <2>6. history \in Seq(Symbols)
    BY <1>1 DEF StoreInv, TypeOK
  <2>7. /\ Len(history) <= HistorySize
        /\ \A j, k \in DOMAIN history : history[j] = history[k] => j = k
    BY <1>1 DEF HistoryIsRecency
  <2>8. i = Len(history) /\ Len(history) = HistorySize
    BY <2>5, <2>6, <2>7, MovedToFrontEvicts
  <2>9. QED
    BY <2>8
<1>2. QED
  BY <1>1, StoreInvHolds, HistoryStaysRecency, PTL DEF Spec, EvictsLeastRecent

-----------------------------------------------------------------------------
(* The readers.                                                              *)

\* A ring that holds anything holds exactly the numbers up to the newest.
LEMMA KeptNumbers ==
  ASSUME NEW t \in Tape, RingContiguous(t), t.count > 0
  PROVE  /\ OldestSeq(t) = t.nextSeq - t.count
         /\ {t.items[SlotOf(t, k)].seq : k \in 0 .. t.count - 1}
              = t.nextSeq - t.count .. t.nextSeq - 1
<1>1. t.count \in 0 .. RingSize /\ t.nextSeq \in Nat /\ t.start \in Slots
  BY TapeFields
<1>2. \A k \in 0 .. t.count - 1 : t.items[SlotOf(t, k)].seq = t.nextSeq - t.count + k
  BY DEF RingContiguous
<1>3. 0 \in 0 .. t.count - 1 /\ 0 \in 0 .. RingSize - 1 /\ t.start \in 0 .. RingSize - 1
  BY <1>1, RingSizeAssumption DEF Slots
<1>4. SlotOf(t, 0) = t.start
  <2>1. SlotOf(t, 0) = IF t.start + 0 < RingSize THEN t.start + 0 ELSE t.start + 0 - RingSize
    BY <1>1, <1>3, SlotInRing
  <2>2. QED
    BY <1>3, <2>1, RingSizeAssumption
<1>5. OldestSeq(t) = t.nextSeq - t.count
  BY <1>1, <1>2, <1>3, <1>4 DEF OldestSeq
<1>6. {t.items[SlotOf(t, k)].seq : k \in 0 .. t.count - 1}
        = {t.nextSeq - t.count + k : k \in 0 .. t.count - 1}
  BY <1>2
<1>7. ASSUME NEW n \in t.nextSeq - t.count .. t.nextSeq - 1
      PROVE  \E k \in 0 .. t.count - 1 : n = t.nextSeq - t.count + k
  <2>1. n - (t.nextSeq - t.count) \in 0 .. t.count - 1
    BY <1>1
  <2>2. n = t.nextSeq - t.count + (n - (t.nextSeq - t.count))
    BY <1>1
  <2>3. QED
    BY <2>1, <2>2
<1>8. \A k \in 0 .. t.count - 1 :
        t.nextSeq - t.count + k \in t.nextSeq - t.count .. t.nextSeq - 1
  BY <1>1
<1>9. QED
  BY <1>5, <1>6, <1>7, <1>8

\* The trades that are copied out of a contiguous ring are numbered from the first.
LEMMA CopiedNumbers ==
  ASSUME NEW t \in Tape, RingContiguous(t),
         NEW k \in Nat, NEW n \in Nat, k + n <= t.count
  PROVE  /\ Copied(t, k, n) = [i \in 1 .. n |-> t.items[SlotOf(t, k + i - 1)]]
         /\ DOMAIN Copied(t, k, n) = 1 .. n /\ Len(Copied(t, k, n)) = n
         /\ \A i \in 1 .. n : Copied(t, k, n)[i].seq = t.nextSeq - t.count + k + i - 1
<1>1. t.count \in Nat /\ t.nextSeq \in Nat
  BY TapeFields
<1>2. Copied(t, k, n) = [i \in 1 .. n |-> t.items[SlotOf(t, k + i - 1)]]
  BY DEF Copied
<1>3. ASSUME NEW i \in 1 .. n
      PROVE  Copied(t, k, n)[i].seq = t.nextSeq - t.count + k + i - 1
  <2>1. k + i - 1 \in 0 .. t.count - 1
    BY <1>1
  <2>2. t.items[SlotOf(t, k + i - 1)].seq = t.nextSeq - t.count + (k + i - 1)
    BY <2>1 DEF RingContiguous
  <2>3. QED
    BY <1>1, <1>2, <2>2
<1>4. DOMAIN Copied(t, k, n) = 1 .. n /\ Len(Copied(t, k, n)) = n
  BY <1>2
<1>5. QED
  BY <1>2, <1>3, <1>4

\* What since() answers from a position within an occupied ring: `wanted` is the first
\* number that is still there to give.
LEMMA SinceInRing ==
  ASSUME NEW t \in Tape, RingContiguous(t), t.count > 0,
         NEW after \in Nat, after <= NewestSeq(t), NEW limit \in Nat \ {0}
  PROVE  LET oldest == t.nextSeq - t.count
             wanted == IF after + 1 < oldest THEN oldest ELSE after + 1
             left == t.nextSeq - wanted
             n == Least(left, limit)
         IN /\ oldest \in Nat \ {0} /\ wanted \in Nat /\ left \in Nat /\ n \in Nat
            /\ wanted >= oldest
            /\ SinceOf(t, after, limit)
                 = [trades |-> Copied(t, wanted - oldest, n), dropped |-> wanted - (after + 1),
                    more |-> left > n, generation |-> t.generation]
<1> DEFINE oldest == t.nextSeq - t.count
           wanted == IF after + 1 < oldest THEN oldest ELSE after + 1
           left == t.nextSeq - wanted
           n == Least(left, limit)
           r == SinceOf(t, after, limit)
<1>1. t.count \in Nat /\ t.nextSeq \in Nat /\ t.count < t.nextSeq
  BY TapeFields DEF RingContiguous
<1>2. OldestSeq(t) = oldest /\ NewestSeq(t) = t.nextSeq - 1
  BY KeptNumbers DEF NewestSeq
<1>3. oldest \in Nat \ {0} /\ wanted \in Nat /\ left \in Nat /\ wanted >= oldest
  BY <1>1, <1>2
<1>4. n \in Nat
  BY <1>3 DEF Least
<1>5. NewestSeq(t) - wanted + 1 = left
  BY <1>1, <1>2, <1>3
<1>6. ~(t.count = 0 \/ limit <= 0)
  BY <1>1
<1>7. r = [trades |-> Copied(t, wanted - oldest, n), dropped |-> wanted - (after + 1),
           more |-> left > n, generation |-> t.generation]
  <2>1. CASE wanted > NewestSeq(t)
    <3>1. left = 0 /\ n = 0 /\ (left > n) = FALSE
      BY <1>1, <1>2, <1>3, <2>1 DEF Least
    <3>2. Copied(t, wanted - oldest, n) = <<>>
      BY <3>1 DEF Copied
    <3>3. r = [trades |-> <<>>, dropped |-> wanted - (after + 1), more |-> FALSE,
               generation |-> t.generation]
      BY <1>2, <1>6, <2>1 DEF SinceOf
    <3> HIDE DEF r, wanted, left, n, oldest
    <3>4. QED
      BY <3>1, <3>2, <3>3
  <2>2. CASE ~(wanted > NewestSeq(t))
    BY <1>2, <1>5, <1>6, <2>2 DEF SinceOf
  <2>3. QED
    BY <2>1, <2>2
<1> HIDE DEF r, wanted, left, n, oldest
<1>8. QED
  BY <1>3, <1>4, <1>7 DEF r, wanted, left, n, oldest

\* Every position a reader can hold, on every contiguous ring.
LEMMA ReaderIsExact ==
  ASSUME NEW t \in Tape, RingContiguous(t),
         NEW after \in Nat, after <= NewestSeq(t), NEW limit \in Nat \ {0}
  PROVE  ReaderExact(t, after, limit)
<1> DEFINE r == SinceOf(t, after, limit)
           kept == {t.items[SlotOf(t, k)].seq : k \in 0 .. t.count - 1}
           asked == RangeOf(t, after + 1, NewestSeq(t), limit)
<1>1. t.count \in Nat /\ t.nextSeq \in Nat /\ t.count < t.nextSeq
  BY TapeFields DEF RingContiguous
<1>2. CASE t.count = 0
  <2>1. r = [trades |-> <<>>, dropped |-> 0, more |-> FALSE, generation |-> t.generation]
    BY <1>2 DEF SinceOf
  <2>2. asked = [trades |-> <<>>, oldest |-> 0, newest |-> 0, more |-> FALSE]
    BY <1>2 DEF RangeOf
  <2> HIDE DEF r, asked
  <2>3. /\ r.trades = <<>> /\ r.more = FALSE /\ asked.trades = <<>> /\ asked.more = FALSE
        /\ Len(r.trades) # limit /\ DOMAIN r.trades = {}
    BY <2>1, <2>2
  <2>4. \A i \in DOMAIN r.trades : r.trades[i].seq = after + r.dropped + i
    BY <2>3
  <2>5. r.more <=> /\ Len(r.trades) = limit
                   /\ after + r.dropped + limit < NewestSeq(t)
    BY <2>3
  <2>6. asked.trades = r.trades /\ asked.more = r.more
    BY <2>3, Zenon
  <2>7. ~(t.count > 0)
    BY <1>2
  <2>8. QED
    BY <2>4, <2>5, <2>6, <2>7 DEF ReaderExact, r, asked
<1>3. CASE t.count > 0
  <2> DEFINE oldest == t.nextSeq - t.count
             wanted == IF after + 1 < oldest THEN oldest ELSE after + 1
             left == t.nextSeq - wanted
             n == Least(left, limit)
             given == Copied(t, wanted - oldest, n)
  <2>1. /\ oldest \in Nat \ {0} /\ wanted \in Nat /\ left \in Nat /\ n \in Nat
        /\ wanted >= oldest
        /\ r = [trades |-> given, dropped |-> wanted - (after + 1),
                more |-> left > n, generation |-> t.generation]
    BY <1>3, SinceInRing
  <2>2. OldestSeq(t) = oldest /\ NewestSeq(t) = t.nextSeq - 1 /\ kept = oldest .. t.nextSeq - 1
    BY <1>3, KeptNumbers DEF NewestSeq
  <2>3. /\ n = (IF left < limit THEN left ELSE limit)
        /\ wanted = (IF after + 1 < oldest THEN oldest ELSE after + 1)
        /\ left = t.nextSeq - wanted /\ oldest = t.nextSeq - t.count
    BY DEF Least
  <2>4. asked.trades = given /\ asked.more = (left > n)
    <3> DEFINE to == IF NewestSeq(t) > NewestSeq(t) THEN NewestSeq(t) ELSE NewestSeq(t)
    <3>1. to = t.nextSeq - 1 /\ to - wanted + 1 = left
      BY <1>1, <2>1, <2>2, <2>3
    <3>2. CASE wanted > to
      <4>1. n = 0 /\ (left > n) = FALSE
        BY <1>1, <2>1, <2>3, <3>1, <3>2
      <4>2. given = <<>>
        BY <4>1 DEF Copied
      <4>3. asked.trades = <<>> /\ asked.more = FALSE
        BY <1>3, <2>2, <3>2 DEF RangeOf
      <4>4. QED
        BY <4>1, <4>2, <4>3
    <3>3. CASE ~(wanted > to)
      <4>1. ~(limit <= 0) /\ ~(t.count = 0)
        BY <1>3
      <4>2. QED
        BY <2>2, <3>1, <3>3, <4>1 DEF RangeOf
    <3>4. QED
      BY <3>2, <3>3
  <2>5. r.trades = given /\ r.dropped = wanted - (after + 1) /\ r.more = (left > n)
    BY <2>1
  <2>6. NewestSeq(t) \in Nat /\ after <= t.nextSeq - 1
    BY <1>1, <2>2
  <2> HIDE DEF r, asked, oldest, wanted, left, n, given, kept
  <2>7. wanted - oldest \in Nat /\ wanted - oldest + n <= t.count
    BY <1>1, <2>1, <2>3
  <2>8. /\ DOMAIN given = 1 .. n /\ Len(given) = n
        /\ \A i \in 1 .. n : given[i].seq = oldest + (wanted - oldest) + i - 1
    BY <2>1, <2>7, CopiedNumbers, ZenonT(30) DEF given, oldest
  <2>9. \A i \in DOMAIN r.trades : r.trades[i].seq = after + r.dropped + i
    BY <2>1, <2>5, <2>8
  <2>10. r.dropped = Cardinality((after + 1 .. NewestSeq(t)) \ kept)
    <3>1. (after + 1 .. NewestSeq(t)) \ kept = after + 1 .. wanted - 1
      BY <1>1, <1>3, <2>1, <2>2, <2>3, <2>6, SMTT(30)
    <3>2. Cardinality(after + 1 .. wanted - 1)
            = IF after + 1 > wanted - 1 THEN 0 ELSE wanted - 1 - (after + 1) + 1
      <4>1. after + 1 \in Int /\ wanted - 1 \in Int
        BY <2>1
      <4>2. QED
        BY ONLY <4>1, FS_Interval
    <3>3. wanted - (after + 1) = IF after + 1 > wanted - 1 THEN 0 ELSE wanted - 1 - (after + 1) + 1
      BY <2>1, <2>3
    <3>4. QED
      BY <2>5, <3>1, <3>2, <3>3
  <2>11. r.more <=> /\ Len(r.trades) = limit
                    /\ after + r.dropped + limit < NewestSeq(t)
    <3>1. left > n <=> n = limit /\ after + (wanted - (after + 1)) + limit < t.nextSeq - 1
      <4>1. wanted \in Nat /\ left \in Nat /\ n \in Nat
        BY <2>1
      <4>2. QED
        BY ONLY <1>1, <2>3, <4>1, after \in Nat, limit \in Nat \ {0}
    <3>2. QED
      BY <2>2, <2>5, <2>8, <3>1
  <2>12. ~r.more => after + r.dropped + Len(r.trades) = NewestSeq(t)
    <3>1. ~(left > n) => after + (wanted - (after + 1)) + n = t.nextSeq - 1
      <4>1. wanted \in Nat /\ left \in Nat /\ n \in Nat
        BY <2>1
      <4>2. QED
        BY ONLY <1>1, <2>3, <4>1, after \in Nat
    <3>2. QED
      BY <2>2, <2>5, <2>8, <3>1
  <2>13. asked.trades = r.trades /\ asked.more = r.more
    BY <2>4, <2>5
  <2>14. QED
    BY <2>9, <2>10, <2>11, <2>12, <2>13 DEF ReaderExact, r, kept, asked
<1>4. QED
  BY <1>1, <1>2, <1>3

\* However the ring of a symbol came about, since() accounts for every number after
\* the reader's position exactly once - delivered, dropped or still to come - and
\* rangeSeq() gives the same trades.
THEOREM ReadersStayExact == Spec => []ReadersExact
<1>1. StoreInv => ReadersExact
  <2> SUFFICES ASSUME StoreInv, NEW s \in Symbols,
                      NEW after \in 0 .. NewestSeq(tapes[s]), NEW limit \in 1 .. RingSize
               PROVE  ReaderExact(tapes[s], after, limit)
    BY DEF ReadersExact
  <2>1. tapes[s] \in Tape /\ RingContiguous(tapes[s])
    BY DEF StoreInv, TypeOK, RingsContiguous
  <2>2. NewestSeq(tapes[s]) \in Nat
    BY <2>1, TapeFields DEF NewestSeq
  <2>3. after \in Nat /\ after <= NewestSeq(tapes[s]) /\ limit \in Nat \ {0}
    BY <2>2, RingSizeAssumption
  <2>4. QED
    BY <2>1, <2>3, ReaderIsExact
<1>2. QED
  BY <1>1, StoreInvHolds, PTL

-----------------------------------------------------------------------------
(* The refinement.                                                           *)

LEMMA ContentsLength ==
  ASSUME NEW t \in Tape
  PROVE  /\ Len(Contents(t)) = t.count /\ DOMAIN Contents(t) = 1 .. t.count
         /\ \A i \in 1 .. t.count : Contents(t)[i] = t.items[SlotOf(t, i - 1)]
  BY TapeFields DEF Contents

\* The log of a symbol is all that a step changes if its tape is.
LEMMA OnlyOneLog ==
  ASSUME NEW s \in Symbols,
         \A r \in Symbols : r # s => tapes'[r] = tapes[r] /\ object'[r] = object[r]
  PROVE  Log!OnlyLogOf(s)
  BY DEF Log!OnlyLogOf

\* The print at the end of an extended window is the new one.
LEMMA ExtendedByPrint ==
  ASSUME NEW t \in Tape, NEW u \in Tape, Extends(t, u)
  PROVE  /\ Len(Contents(u)) > 0
         /\ Contents(u)[Len(Contents(u))].seq = t.nextSeq
         /\ Contents(u) = Newest(Append(Contents(t), Contents(u)[Len(Contents(u))]))
<1>1. PICK trade : trade.seq = t.nextSeq /\ Contents(u) = Newest(Append(Contents(t), trade))
  BY DEF Extends
<1> DEFINE longer == Append(Contents(t), trade)
<1>2. t.count \in 0 .. RingSize /\ RingSize \in Nat \ {0}
  BY TapeFields, RingSizeAssumption
<1>3. Len(longer) = t.count + 1 /\ longer[t.count + 1] = trade
  BY <1>2 DEF Contents
<1>4. longer = [i \in 1 .. t.count + 1 |-> longer[i]]
  BY <1>2 DEF Contents
<1> HIDE DEF longer
<1>5. Len(Newest(longer)) > 0 /\ Newest(longer)[Len(Newest(longer))] = trade
  <2>1. CASE t.count = RingSize
    <3>1. /\ Len(longer) = RingSize + 1 /\ ~(Len(longer) <= RingSize)
          /\ Len(longer) - RingSize + 1 = 2
      BY <1>2, <1>3, <2>1
    <3>2. Newest(longer) = SubSeq(longer, 2, RingSize + 1)
      BY <3>1, Zenon DEF Newest
    <3>3. SubSeq(longer, 2, RingSize + 1) = [i \in 1 .. RingSize |-> longer[i + 1]]
      BY <1>2, <1>4, <3>1, SMTT(30)
    <3>4. QED
      BY <1>2, <1>3, <2>1, <3>2, <3>3
  <2>2. CASE t.count # RingSize
    <3>1. Newest(longer) = longer
      BY <1>2, <1>3, <2>2 DEF Newest
    <3>2. QED
      BY <1>2, <1>3, <3>1
  <2>3. QED
    BY <2>1, <2>2
<1>6. QED
  BY <1>1, <1>5 DEF longer

\* One more print on a tape that exists publishes it.
LEMMA PublishStep ==
  ASSUME NEW s \in Symbols, object[s] # 0, object'[s] # 0,
         tapes[s] \in Tape, tapes'[s] \in Tape, Extends(tapes[s], tapes'[s])
  PROVE  Log!Publish(s)
<1> DEFINE t == tapes[s]
           u == tapes'[s]
           print == Contents(u)[Len(Contents(u))]
<1>1. /\ Len(Contents(u)) > 0 /\ print.seq = t.nextSeq
      /\ Contents(u) = Newest(Append(Contents(t), print))
  BY ExtendedByPrint
<1>2. u.nextSeq = t.nextSeq + 1 /\ u.generation = t.generation /\ t.generation \in Nat \ {0}
  BY TapeFields DEF Extends
<1>3. Contents(u) # <<>>
  BY <1>1
<1>4. \A w : Log!Retained(w) = Newest(w)
  BY DEF Log!Retained, Newest
<1> HIDE DEF print
<1>5. QED
  BY <1>1, <1>2, <1>3, <1>4 DEF Log!Publish, print

\* A tape under a later generation, with fresh numbers and as many as fit, replaces.
LEMMA ReplaceStep ==
  ASSUME NEW s \in Symbols, object'[s] # 0, tapes[s] \in Tape, tapes'[s] \in Tape,
         object[s] # 0 => tapes'[s].generation > tapes[s].generation,
         RingContiguous(tapes'[s]), tapes'[s].nextSeq >= tapes[s].nextSeq,
         tapes'[s].count = Least(RingSize, tapes'[s].nextSeq - tapes[s].nextSeq)
  PROVE  Log!Replace(s)
<1> DEFINE t == tapes[s]
           u == tapes'[s]
<1>1. /\ t.nextSeq \in Nat /\ u.nextSeq \in Nat /\ u.count \in Nat
      /\ t.generation \in Nat \ {0} /\ u.generation \in Nat \ {0}
  BY TapeFields
<1>2. (IF object[s] = 0 THEN 0 ELSE t.generation) < u.generation
  BY <1>1
<1>3. u.count = IF u.nextSeq - t.nextSeq < RingSize THEN u.nextSeq - t.nextSeq ELSE RingSize
  BY <1>1, RingSizeAssumption DEF Least
<1>4. Len(Contents(u)) = u.count
  BY ContentsLength
<1>5. \A i \in 1 .. u.count : Contents(u)[i].seq = u.nextSeq - u.count + i - 1
  <2> SUFFICES ASSUME NEW i \in 1 .. u.count
               PROVE  Contents(u)[i].seq = u.nextSeq - u.count + i - 1
    OBVIOUS
  <2>1. i - 1 \in 0 .. u.count - 1 /\ Contents(u)[i] = u.items[SlotOf(u, i - 1)]
    BY <1>1, ContentsLength
  <2>2. u.items[SlotOf(u, i - 1)].seq = u.nextSeq - u.count + (i - 1)
    BY <2>1 DEF RingContiguous
  <2>3. QED
    BY <1>1, <2>1, <2>2
<1>6. QED
  BY <1>1, <1>2, <1>3, <1>4, <1>5 DEF Log!Replace

\* A step of the log.
LEMMA LogSteps ==
  ASSUME NEW s \in Symbols,
         \A r \in Symbols : r # s => tapes'[r] = tapes[r] /\ object'[r] = object[r],
         Log!Publish(s) \/ Log!Replace(s)
  PROVE  Log!LogNext
  BY OnlyOneLog DEF Log!LogNext

\* A stutter of the log.
LEMMA LogStutters ==
  ASSUME \A s \in Symbols :
           /\ Contents(tapes'[s]) = Contents(tapes[s])
           /\ tapes'[s].nextSeq = tapes[s].nextSeq
           /\ tapes'[s].generation = tapes[s].generation
           /\ object'[s] = 0 <=> object[s] = 0
  PROVE  UNCHANGED Log!logVars
  BY DEF Log!logVars

\* A write to one tape publishes, replaces or stutters.
LEMMA WriteRefines ==
  ASSUME StoreInv, NEW s \in Symbols, NEW u \in Tape, Follows(tapes[s], u), Write(s, u)
  PROVE  [Log!LogNext]_(Log!logVars)
<1> DEFINE t == tapes[s]
<1>1. /\ tapes' = [tapes EXCEPT ![s] = u]
      /\ object' = [object EXCEPT ![s] = IF @ = 0 THEN 1 ELSE @]
      /\ tapes \in [Symbols -> Tape] /\ object \in [Symbols -> Nat]
  BY DEF Write, GotOrCreated, StoreInv, TypeOK
<1>2. /\ tapes'[s] = u /\ t \in Tape
      /\ object'[s] = IF object[s] = 0 THEN 1 ELSE object[s]
      /\ \A r \in Symbols : r # s => tapes'[r] = tapes[r] /\ object'[r] = object[r]
  BY <1>1
<1>3. /\ t.generation \in Nat \ {0} /\ t.nextSeq \in Nat \ {0} /\ t.count \in Nat
      /\ u.generation \in Nat \ {0} /\ u.nextSeq \in Nat \ {0} /\ u.count \in Nat
      /\ RingSize \in Nat \ {0}
  BY <1>2, TapeFields, RingSizeAssumption
<1>4. RingContiguous(u) /\ Past(t, u) /\ Shows(t, u)
  BY DEF Follows, StoreInv, RingsContiguous
<1>5. object'[s] # 0
  BY <1>2
<1>6. CASE u.generation = t.generation + 1 /\ u.nextSeq = t.nextSeq /\ u.count = 0
  <2>1. u.generation > t.generation /\ u.nextSeq >= t.nextSeq
        /\ u.count = Least(RingSize, u.nextSeq - t.nextSeq)
    BY <1>3, <1>6 DEF Least
  <2>2. Log!Replace(s)
    BY <1>2, <1>4, <1>5, <2>1, ReplaceStep
  <2>3. QED
    BY <1>2, <2>2, LogSteps
<1>7. CASE object[s] = 0 /\ u.generation = t.generation
  <2>1. t = NewTape
    BY <1>7 DEF StoreInv, NilIsNew
  <2>2. t.count = 0 /\ t.nextSeq = 1
    BY <2>1 DEF NewTape
  <2>3. \/ u.nextSeq = t.nextSeq /\ u.count = 0
        \/ u.nextSeq = t.nextSeq + 1 /\ u.count = Least(RingSize, 1)
    BY <1>3, <1>4, <1>7, <2>2 DEF Shows, Extends, Past
  <2>4. u.count = Least(RingSize, u.nextSeq - t.nextSeq) /\ u.nextSeq >= t.nextSeq
    BY <1>3, <2>2, <2>3 DEF Least
  <2>5. Log!Replace(s)
    BY <1>2, <1>4, <1>5, <1>7, <2>4, ReplaceStep
  <2>6. QED
    BY <1>2, <2>5, LogSteps
<1>8. CASE object[s] # 0 /\ Extends(t, u)
  <2>1. Log!Publish(s)
    BY <1>2, <1>5, <1>8, PublishStep
  <2>2. QED
    BY <1>2, <2>1, LogSteps
<1>9. CASE object[s] # 0 /\ u.generation = t.generation /\ u.nextSeq = t.nextSeq
  <2>1. u.items = t.items /\ u.start = t.start /\ u.count = t.count
    BY <1>4, <1>9 DEF Past
  <2>2. Contents(u) = Contents(t)
    BY <2>1 DEF Contents, SlotOf
  <2>3. UNCHANGED Log!logVars
    BY <1>2, <1>9, <2>2, LogStutters
  <2>4. QED
    BY <2>3
<1>10. QED
  BY <1>4, <1>6, <1>7, <1>8, <1>9 DEF Shows, Extends

\* Activating a symbol brings its log to exist, or stutters.
LEMMA ActivateRefines ==
  ASSUME StoreInv, NEW s \in Symbols, Activate(s) PROVE [Log!LogNext]_(Log!logVars)
<1>1. /\ tapes' = tapes /\ object' = [object EXCEPT ![s] = IF @ = 0 THEN 1 ELSE @]
      /\ tapes \in [Symbols -> Tape] /\ object \in [Symbols -> Nat]
  BY DEF Activate, GotOrCreated, StoreInv, TypeOK
<1>2. CASE object[s] = 0
  <2>1. /\ object'[s] # 0 /\ tapes'[s] = tapes[s] /\ tapes[s] = NewTape /\ tapes[s] \in Tape
        /\ \A r \in Symbols : r # s => tapes'[r] = tapes[r] /\ object'[r] = object[r]
    BY <1>1, <1>2 DEF StoreInv, NilIsNew
  <2>2. /\ RingContiguous(tapes'[s]) /\ tapes'[s].nextSeq >= tapes[s].nextSeq
        /\ tapes'[s].count = Least(RingSize, tapes'[s].nextSeq - tapes[s].nextSeq)
    <3>1. NewTape.nextSeq = 1 /\ NewTape.count = 0 /\ Least(RingSize, 1 - 1) = 0
      BY RingSizeAssumption DEF NewTape, Least
    <3>2. QED
      BY <2>1, <3>1, EmptiedContiguous
  <2>3. Log!Replace(s)
    BY <1>2, <2>1, <2>2, ReplaceStep
  <2>4. QED
    BY <2>1, <2>3, LogSteps
<1>3. CASE object[s] # 0
  <2>1. UNCHANGED Log!logVars
    BY <1>1, <1>3, LogStutters
  <2>2. QED
    BY <2>1
<1>4. QED
  BY <1>2, <1>3

\* Publishing a stage replaces the window of its symbol.
LEMMA CommitRefines ==
  ASSUME StoreInv, NEW b \in Builders, CommitPublishes(b)
  PROVE  [Log!LogNext]_(Log!logVars)
<1>0. PICK s \in Symbols : s = stage[b].symbol
  BY HeldStage DEF StoreInv, CommitPublishes
<1> DEFINE st == stage[b]
           t == tapes[s]
           u == st.tape
<1>1. /\ st.held /\ Unchanged(st)
      /\ tapes' = [tapes EXCEPT ![s] = u] /\ object' = [object EXCEPT ![s] = @ + 1]
      /\ tapes \in [Symbols -> Tape] /\ object \in [Symbols -> Nat]
  BY <1>0 DEF CommitPublishes, StoreInv, TypeOK
<1>2. st.previous \in Nat /\ st.base \in Tape /\ u \in Tape /\ t \in Tape
  BY <1>1, HeldStage DEF StoreInv
<1>3. /\ tapes'[s] = u /\ object'[s] = object[s] + 1 /\ object[s] \in Nat
      /\ \A r \in Symbols : r # s => tapes'[r] = tapes[r] /\ object'[r] = object[r]
  BY <1>1
<1>4. /\ t.nextSeq \in Nat \ {0} /\ u.nextSeq \in Nat /\ st.base.nextSeq \in Nat \ {0}
      /\ u.count \in Nat /\ t.generation \in Nat \ {0} /\ st.base.generation \in Nat
      /\ u.generation \in Nat
  BY <1>2, TapeFields
<1>5. /\ RingContiguous(u) /\ u.nextSeq - u.count >= st.base.nextSeq
      /\ st.previous # 0 => u.generation = st.base.generation + 1
      /\ u.count = Least(RingSize, u.nextSeq - st.base.nextSeq)
      /\ st.previous = object[s] => Past(st.base, t)
  BY <1>0, <1>1 DEF StoreInv, RingsContiguous, StagesContinue, StagesFilled, StageFilled,
              StagesTracked, StageTracked
<1>6. object[s] = st.previous
      /\ (st.previous # 0 => t.generation = st.base.generation /\ t.nextSeq = st.base.nextSeq)
  BY <1>0, <1>1 DEF Unchanged
<1>7. t.nextSeq = st.base.nextSeq
  <2>1. CASE st.previous # 0
    BY <1>6, <2>1
  <2>2. CASE st.previous = 0
    <3>1. t = NewTape
      BY <1>2, <1>6, <2>2 DEF StoreInv, NilIsNew
    <3>2. st.base.nextSeq <= t.nextSeq /\ t.nextSeq = 1
      BY <1>5, <1>6, <3>1 DEF Past, NewTape
    <3>3. QED
      BY <1>4, <3>2
  <2>3. QED
    BY <2>1, <2>2
<1>8. object[s] # 0 => u.generation > t.generation
  BY <1>4, <1>5, <1>6
<1>9. u.nextSeq >= t.nextSeq /\ u.count = Least(RingSize, u.nextSeq - t.nextSeq)
  BY <1>4, <1>5, <1>7
<1>10. object'[s] # 0
  BY <1>3
<1>11. Log!Replace(s)
  BY <1>2, <1>3, <1>5, <1>8, <1>9, <1>10, ReplaceStep
<1>12. QED
  BY <1>2, <1>3, <1>11, LogSteps

\* The store implements the abstract log: whatever feeds, replays, rebuilds and operators
\* do, each store call publishes one print at the end of a symbol's window, replaces the
\* window under a later generation and fresh numbers, or leaves what readers see alone.
THEOREM StoreImplementsLog == Spec => ImplementsTapeLog
<1>1. Init => Log!LogInit
  <2> SUFFICES ASSUME Init PROVE Log!LogInit
    OBVIOUS
  <2>1. \A s \in Symbols : Contents(tapes[s]) = <<>> /\ tapes[s].nextSeq = 1
    BY DEF Init, NewTape, Contents
  <2>2. \A s \in Symbols : (IF object[s] = 0 THEN 0 ELSE tapes[s].generation) \in {0, 1}
    BY DEF Init, NewTape
  <2>3. QED
    BY <2>1, <2>2 DEF Log!LogInit
<1>2. StoreInv /\ [Next]_vars => [Log!LogNext]_(Log!logVars)
  <2> SUFFICES ASSUME StoreInv, [Next]_vars PROVE [Log!LogNext]_(Log!logVars)
    OBVIOUS
  <2>1. CASE UNCHANGED vars
    BY <2>1, LogStutters DEF vars
  <2>2. CASE Next
    <3>1. Activates \/ Writes \/ Prepares \/ StageWrites \/ Commits \/ Discards
      BY <2>2, StepKinds DEF StoreInv
    <3>2. CASE Activates
      BY <3>2, ActivateRefines DEF Activates
    <3>3. CASE Writes
      BY <3>3, WriteRefines DEF Writes
    <3>4. CASE Commits
      BY <3>4, CommitRefines DEF Commits
    <3>5. CASE Prepares \/ StageWrites \/ Discards
      <4>1. UNCHANGED <<tapes, object>>
        BY <3>5 DEF Prepares, PrepareRebuild, StageWrites, StageWrite, Discards, Discard
      <4>2. UNCHANGED Log!logVars
        BY <4>1, LogStutters
      <4>3. QED
        BY <4>2
    <3>6. QED
      BY <3>1, <3>2, <3>3, <3>4, <3>5
  <2>3. QED
    BY <2>1, <2>2
<1>3. QED
  BY <1>1, <1>2, StoreInvHolds, PTL DEF Spec, ImplementsTapeLog, Log!LogSpec

-----------------------------------------------------------------------------
(* The stream: its inductive invariant.                                       *)

Following == {"finish", "tick", "check", "drain"}
Settled == {"tick", "check", "drain"}

LastOf(numbers) == IF numbers = <<>> THEN 0 ELSE numbers[Len(numbers)]

\* The prints that the rebuilds of s were published with are numbered already.
WarmupIsPast == \A s \in Symbols : \A w \in warmup[s] : w < tapes[s].nextSeq

\* A reader of s at `last` has nothing of a published rebuild before it.
Behind(s, last) == \A w \in warmup[s] : w <= last \/ w < tapes[s].nextSeq - tapes[s].count

\* The snapshot being read is of the published tape, or of one that has been
\* replaced by a later generation.
ReadingIsPast ==
  phase = "stamp" =>
    /\ reading.object <= object[symbol]
    /\ \A i \in DOMAIN reading.numbers :
         /\ reading.numbers[i] = reading.numbers[1] + i - 1
         /\ reading.numbers[i] > 0
         /\ reading.numbers[i] < tapes[symbol].nextSeq
    /\ reading.object < object[symbol] => reading.generation < tapes[symbol].generation
    /\ reading.object = object[symbol] =>
         /\ reading.generation = tapes[symbol].generation
         /\ Behind(symbol, LastOf(reading.numbers))

\* What the browser has was numbered before what is still to come; its deltas follow
\* the snapshot.
ShownIsPast ==
  /\ \A i \in DOMAIN shown.numbers : shown.numbers[i] < tapes[shown.symbol].nextSeq
  /\ shown.numbers = <<>> => shown.start = 0
  /\ shown.hydrated <= Len(shown.numbers)
  /\ \A g, h \in shown.sources : g = h

\* Until the tape is replaced, nothing of a rebuild lies before the handler.
SnapshotIsFollowed ==
  phase \in Following =>
    /\ shown.symbol = symbol
    /\ shown.stamp <= tapes[symbol].generation
    /\ shown.stamp = tapes[symbol].generation => Behind(symbol, seq)

\* The deltas are of the generation the handler follows, at or after the stamp.
DeltasAreFollowed ==
  /\ phase = "finish" => shown.sources = {} /\ Len(shown.numbers) = shown.hydrated
  /\ phase \in Settled =>
       /\ shown.sources \subseteq {generation}
       /\ Len(shown.numbers) > shown.hydrated =>
            shown.stamp <= generation /\ generation <= tapes[symbol].generation

StreamInv ==
  /\ StreamTypeOK /\ EveryNumberAccounted /\ FollowedGenerationHasNoWarmup
  /\ WarmupIsPast /\ ReadingIsPast /\ ShownIsPast /\ SnapshotIsFollowed /\ DeltasAreFollowed
  /\ phase # "connect" => object[symbol] # 0

-----------------------------------------------------------------------------
(* What the handler's reads return.                                          *)

\* The numbers of the trades copied out of a contiguous ring.
LEMMA CopiedSequence ==
  ASSUME NEW t \in Tape, RingContiguous(t),
         NEW k \in Nat, NEW n \in Nat, k + n <= t.count
  PROVE  LET numbers == Numbers(Copied(t, k, n))
         IN /\ numbers \in Seq(Nat) /\ Len(numbers) = n /\ DOMAIN numbers = 1 .. n
            /\ \A i \in 1 .. n : /\ numbers[i] = t.nextSeq - t.count + k + i - 1
                                 /\ numbers[i] > 0 /\ numbers[i] < t.nextSeq
<1> DEFINE trades == Copied(t, k, n)
<1>1. t.count \in Nat /\ t.nextSeq \in Nat /\ t.count < t.nextSeq
  BY TapeFields DEF RingContiguous
<1>2. DOMAIN trades = 1 .. n
      /\ \A i \in 1 .. n : trades[i].seq = t.nextSeq - t.count + k + i - 1
  BY CopiedNumbers
<1> HIDE DEF trades
<1>3. Numbers(trades) = [i \in 1 .. n |-> trades[i].seq]
  BY <1>2 DEF Numbers
<1>4. \A i \in 1 .. n : /\ trades[i].seq \in Nat
                        /\ trades[i].seq > 0 /\ trades[i].seq < t.nextSeq
  BY <1>1, <1>2
<1>5. Numbers(trades) \in Seq(Nat) /\ Len(Numbers(trades)) = n
  BY <1>3, <1>4
<1>6. QED
  BY <1>2, <1>3, <1>4, <1>5 DEF trades

\* A snapshot ends with the newest print, and is empty only if the ring is.
LEMMA SnapshotNumbers ==
  ASSUME NEW t \in Tape, RingContiguous(t), NEW limit \in Nat \ {0}
  PROVE  LET numbers == Numbers(SnapshotOf(t, limit))
             n == Len(numbers)
         IN /\ numbers \in Seq(Nat) /\ n \in Nat
            /\ \A i \in 1 .. n : /\ numbers[i] = t.nextSeq - n + i - 1
                                 /\ numbers[i] > 0 /\ numbers[i] < t.nextSeq
            /\ n = 0 => t.count = 0
<1> DEFINE m == IF limit <= 0 \/ limit > t.count THEN t.count ELSE limit
<1>1. t.count \in Nat /\ t.nextSeq \in Nat
  BY TapeFields
<1>2. m \in Nat /\ m <= t.count /\ (m = 0 => t.count = 0)
  BY <1>1
<1>3. SnapshotOf(t, limit) = Copied(t, t.count - m, m)
  BY DEF SnapshotOf
<1> HIDE DEF m
<1> DEFINE k == t.count - m
<1>4. k \in Nat /\ k + m <= t.count /\ \A i \in 1 .. m : t.nextSeq - t.count + k + i - 1
                                                        = t.nextSeq - m + i - 1
  BY <1>1, <1>2
<1> DEFINE numbers == Numbers(SnapshotOf(t, limit))
<1>5. numbers = Numbers(Copied(t, k, m))
  BY <1>3
<1> HIDE DEF k
<1> HIDE DEF numbers
<1>6. /\ numbers \in Seq(Nat) /\ Len(numbers) = m
      /\ \A i \in 1 .. m : /\ numbers[i] = t.nextSeq - t.count + k + i - 1
                           /\ numbers[i] > 0 /\ numbers[i] < t.nextSeq
  BY <1>2, <1>4, <1>5, CopiedSequence, ZenonT(30)
<1>7. \A i \in 1 .. m : numbers[i] = t.nextSeq - m + i - 1
  BY <1>4, <1>6
<1>8. QED
  BY <1>2, <1>6, <1>7 DEF numbers

\* since() continues a position the ring has reached: consecutive numbers after the
\* dropped ones, all still retained, and nothing is dropped unless something is given.
LEMMA SinceNumbers ==
  ASSUME NEW t \in Tape, RingContiguous(t),
         NEW last \in Nat, last < t.nextSeq, NEW limit \in Nat \ {0}
  PROVE  LET r == SinceOf(t, last, limit)
             numbers == Numbers(r.trades)
             n == Len(numbers)
         IN /\ r.generation = t.generation /\ r.dropped \in Nat
            /\ numbers \in Seq(Nat) /\ n \in Nat /\ Len(r.trades) = n
            /\ \A i \in 1 .. n : /\ numbers[i] = last + r.dropped + i
                                 /\ r.trades[i].seq = numbers[i]
                                 /\ numbers[i] < t.nextSeq
                                 /\ numbers[i] >= t.nextSeq - t.count
            /\ n = 0 => r.dropped = 0
            /\ n = 0 <=> r.trades = <<>>
<1> DEFINE r == SinceOf(t, last, limit)
<1>1. t.count \in Nat /\ t.nextSeq \in Nat /\ t.count < t.nextSeq
  BY TapeFields DEF RingContiguous
<1>2. CASE t.count = 0
  <2>1. r = [trades |-> <<>>, dropped |-> 0, more |-> FALSE, generation |-> t.generation]
    BY <1>2 DEF SinceOf
  <2> HIDE DEF r
  <2>2. r.trades = <<>> /\ r.dropped = 0 /\ r.generation = t.generation
    BY <2>1
  <2>3. Numbers(<<>>) = <<>>
    BY DEF Numbers
  <2>4. Numbers(r.trades) = <<>>
    BY <2>2, <2>3, Zenon
  <2> DEFINE numbers == Numbers(r.trades)
  <2> HIDE DEF numbers
  <2>5. Len(numbers) = 0 /\ numbers \in Seq(Nat) /\ Len(r.trades) = 0
    <3>1. numbers = <<>>
      BY <2>4 DEF numbers
    <3>2. QED
      BY <2>2, <3>1
  <2>6. QED
    BY <2>2, <2>5 DEF r, numbers
<1>3. CASE t.count # 0
  <2> DEFINE oldest == t.nextSeq - t.count
             wanted == IF last + 1 < oldest THEN oldest ELSE last + 1
             left == t.nextSeq - wanted
             n == Least(left, limit)
             k == wanted - oldest
             given == Copied(t, k, n)
  <2>1. last <= NewestSeq(t) /\ t.count > 0
    BY <1>1, <1>3 DEF NewestSeq
  <2>2. /\ oldest \in Nat \ {0} /\ wanted \in Nat /\ left \in Nat /\ n \in Nat
        /\ wanted >= oldest
    BY <2>1, SinceInRing
  <2>3. r.trades = given /\ r.dropped = wanted - (last + 1) /\ r.generation = t.generation
    <3>1. r = [trades |-> given, dropped |-> wanted - (last + 1),
               more |-> left > n, generation |-> t.generation]
      BY <2>1, SinceInRing
    <3>2. QED
      BY <3>1
  <2>4. /\ n = (IF left < limit THEN left ELSE limit)
        /\ wanted = (IF last + 1 < oldest THEN oldest ELSE last + 1)
        /\ left = t.nextSeq - wanted /\ oldest = t.nextSeq - t.count /\ k = wanted - oldest
    BY DEF Least
  <2> HIDE DEF r, oldest, wanted, left, n, k, given
  <2>5. k \in Nat /\ k + n <= t.count
    BY <1>1, <2>2, <2>4
  <2>6. \A i \in 1 .. n : t.nextSeq - t.count + k + i - 1 = last + (wanted - (last + 1)) + i
    <3>1. oldest = t.nextSeq - t.count /\ k = wanted - oldest
      BY <2>4
    <3>2. \A i \in Int : /\ t.nextSeq - t.count + (wanted - (t.nextSeq - t.count)) + i - 1
                              = wanted + i - 1
                         /\ last + (wanted - (last + 1)) + i = wanted + i - 1
      BY <1>1, <2>2
    <3>3. QED
      BY <2>2, <3>1, <3>2
  <2>7. wanted - (last + 1) \in Nat /\ (n = 0 => wanted - (last + 1) = 0)
    BY <1>1, <1>3, <2>2, <2>4
  <2> DEFINE numbers == Numbers(given)
  <2> HIDE DEF numbers
  <2>8. /\ numbers \in Seq(Nat) /\ Len(numbers) = n
        /\ \A i \in 1 .. n : /\ numbers[i] = t.nextSeq - t.count + k + i - 1
                             /\ numbers[i] > 0 /\ numbers[i] < t.nextSeq
    BY <2>2, <2>5, CopiedSequence, Zenon DEF given, numbers
  <2>9. /\ Len(given) = n /\ (given = <<>> <=> n = 0)
        /\ \A i \in 1 .. n : given[i].seq = numbers[i]
    <3>1. given = [i \in 1 .. n |-> t.items[SlotOf(t, k + i - 1)]]
      BY DEF Copied, given
    <3>2. DOMAIN given = 1 .. n /\ Len(given) = n /\ (given = <<>> <=> n = 0)
      BY <2>2, <3>1
    <3>3. \A i \in 1 .. n : numbers[i] = given[i].seq
      BY <3>2 DEF numbers, Numbers
    <3>4. QED
      BY <3>2, <3>3
  <2>10. \A i \in 1 .. n : /\ numbers[i] = last + (wanted - (last + 1)) + i
                          /\ numbers[i] >= t.nextSeq - t.count
    BY <1>1, <2>5, <2>6, <2>8
  <2>11. Numbers(r.trades) = numbers
    BY <2>3 DEF numbers
  <2>12. QED
    BY <2>2, <2>3, <2>7, <2>8, <2>9, <2>10, <2>11 DEF r
<1>4. QED
  BY <1>2, <1>3

-----------------------------------------------------------------------------
(* What a store call does to one tape, as far as the stream can tell.        *)

\* Another tape object, a later generation, only fresh numbers.
Swaps(s) ==
  /\ object'[s] = object[s] + 1 /\ stage' # stage
  /\ tapes'[s].generation >= tapes[s].generation
  /\ object[s] # 0 => tapes'[s].generation > tapes[s].generation
  /\ tapes'[s].nextSeq - tapes'[s].count >= tapes[s].nextSeq

\* The same tape object (or its allocation): untouched, one more print, or emptied.
Keeps(s) ==
  /\ object'[s] = object[s] \/ (object[s] = 0 /\ object'[s] = 1 /\ stage' = stage)
  /\ \/ /\ tapes'[s].generation = tapes[s].generation
        /\ tapes'[s].nextSeq = tapes[s].nextSeq /\ tapes'[s].count = tapes[s].count
     \/ /\ tapes'[s].generation = tapes[s].generation
        /\ tapes'[s].nextSeq = tapes[s].nextSeq + 1 /\ tapes'[s].count <= tapes[s].count + 1
     \/ /\ tapes'[s].generation = tapes[s].generation + 1
        /\ tapes'[s].nextSeq = tapes[s].nextSeq /\ tapes'[s].count = 0

LEMMA StoreMoves ==
  ASSUME StoreInv, Next, NEW s \in Symbols PROVE Swaps(s) \/ Keeps(s)
<1>1. /\ tapes \in [Symbols -> Tape] /\ object \in [Symbols -> Nat]
      /\ stage \in [Builders -> Stage \cup {NoStage}]
  BY DEF StoreInv, TypeOK
<1>2. /\ tapes[s] \in Tape /\ tapes[s].count \in Nat /\ tapes[s].nextSeq \in Nat
      /\ tapes[s].generation \in Nat /\ RingSize \in Nat
  BY <1>1, TapeFields, RingSizeAssumption
<1>3. Activates \/ Writes \/ Prepares \/ StageWrites \/ Commits \/ Discards
  BY StepKinds DEF StoreInv
<1>4. CASE Activates
  BY <1>1, <1>4 DEF Activates, Activate, GotOrCreated, Keeps
<1>5. CASE Prepares \/ StageWrites \/ Discards
  BY <1>5 DEF Prepares, PrepareRebuild, StageWrites, StageWrite, Discards, Discard, Keeps
<1>6. CASE Writes
  <2>1. PICK r \in Symbols, u \in Tape : Follows(tapes[r], u) /\ Write(r, u)
    BY <1>6 DEF Writes
  <2>2. /\ tapes' = [tapes EXCEPT ![r] = u] /\ stage' = stage
        /\ object' = [object EXCEPT ![r] = IF @ = 0 THEN 1 ELSE @]
    BY <2>1 DEF Write, GotOrCreated
  <2>3. CASE r = s
    <3>1. tapes'[s] = u /\ Past(tapes[s], u) /\ Shows(tapes[s], u)
      BY <1>1, <2>1, <2>2, <2>3 DEF Follows
    <3>2. object'[s] = object[s] \/ (object[s] = 0 /\ object'[s] = 1 /\ stage' = stage)
      BY <1>1, <2>2, <2>3
    <3>3. CASE u.generation = tapes[s].generation /\ u.nextSeq = tapes[s].nextSeq
      BY <3>1, <3>2, <3>3 DEF Past, Keeps
    <3>4. CASE Extends(tapes[s], u)
      <4>1. Least(RingSize, tapes[s].count + 1) <= tapes[s].count + 1
        BY <1>2 DEF Least
      <4>2. QED
        BY <3>1, <3>2, <3>4, <4>1 DEF Extends, Keeps
    <3>5. CASE u.generation = tapes[s].generation + 1 /\ u.nextSeq = tapes[s].nextSeq
               /\ u.count = 0
      BY <3>1, <3>2, <3>5 DEF Keeps
    <3>6. QED
      BY <3>1, <3>3, <3>4, <3>5 DEF Shows
  <2>4. CASE r # s
    BY <1>1, <2>2, <2>4 DEF Keeps
  <2>5. QED
    BY <2>3, <2>4
<1>7. CASE Commits
  <2>1. PICK b \in Builders : CommitPublishes(b)
    BY <1>7 DEF Commits
  <2>2. PICK r \in Symbols : r = stage[b].symbol
    BY <2>1, HeldStage DEF StoreInv, CommitPublishes
  <2> DEFINE st == stage[b]
  <2>3. /\ st.held /\ Unchanged(st) /\ tapes' = [tapes EXCEPT ![r] = st.tape]
        /\ object' = [object EXCEPT ![r] = @ + 1] /\ stage' = [stage EXCEPT ![b] = NoStage]
    BY <2>1, <2>2 DEF CommitPublishes
  <2>4. CASE r = s
    <3>1. st.tape \in Tape /\ st.base \in Tape /\ st.previous \in Nat
      BY <2>3, HeldStage DEF StoreInv
    <3>2. /\ st.tape.nextSeq \in Nat /\ st.tape.count \in Nat /\ st.tape.generation \in Nat
          /\ st.base.nextSeq \in Nat \ {0} /\ st.base.generation \in Nat \ {0}
      BY <3>1, TapeFields
    <3>3. /\ st.tape.nextSeq - st.tape.count >= st.base.nextSeq
          /\ st.previous # 0 => st.tape.generation = st.base.generation + 1
          /\ st.previous = 0 => st.tape.generation = st.base.generation
          /\ st.previous = object[s] => Past(st.base, tapes[s])
      BY <2>2, <2>3, <2>4 DEF StoreInv, StagesContinue, StagesTracked, StageTracked
    <3>4. /\ object[s] = st.previous
          /\ st.previous # 0 => /\ tapes[s].generation = st.base.generation
                                /\ tapes[s].nextSeq = st.base.nextSeq
      BY <2>2, <2>3, <2>4 DEF Unchanged
    <3>5. st.previous = 0 => /\ st.base.generation = tapes[s].generation
                             /\ st.base.nextSeq = tapes[s].nextSeq
      <4> SUFFICES ASSUME st.previous = 0
                   PROVE  /\ st.base.generation = tapes[s].generation
                          /\ st.base.nextSeq = tapes[s].nextSeq
        OBVIOUS
      <4>1. tapes[s] = NewTape
        BY <3>4 DEF StoreInv, NilIsNew
      <4>2. tapes[s].generation = 1 /\ tapes[s].nextSeq = 1
        BY <4>1 DEF NewTape
      <4>3. QED
        BY <3>2, <3>3, <3>4, <4>2 DEF Past
    <3>6. tapes'[s] = st.tape /\ object'[s] = object[s] + 1
      BY <1>1, <2>3, <2>4
    <3>7. stage' # stage
      <4>1. stage'[b] = NoStage /\ stage[b].held
        BY <1>1, <2>3
      <4>2. QED
        BY <4>1 DEF NoStage
    <3>8. QED
      BY <1>2, <3>2, <3>3, <3>4, <3>5, <3>6, <3>7 DEF Swaps
  <2>5. CASE r # s
    BY <1>1, <2>3, <2>5 DEF Keeps
  <2>6. QED
    BY <2>4, <2>5
<1>8. QED
  BY <1>3, <1>4, <1>5, <1>6, <1>7

-----------------------------------------------------------------------------
(* The handler's steps.                                                      *)

\* The tape the handler reads.
LEMMA HandlersTape ==
  ASSUME StoreInv, StreamTypeOK
  PROVE  /\ symbol \in Symbols /\ tapes[symbol] \in Tape /\ RingContiguous(tapes[symbol])
         /\ tapes[symbol].quote \in Quote /\ object[symbol] \in Nat
         /\ tapes[symbol].count \in Nat /\ tapes[symbol].count < tapes[symbol].nextSeq
         /\ tapes[symbol].nextSeq \in Nat /\ tapes[symbol].generation \in Nat
<1>1. symbol \in Symbols /\ tapes \in [Symbols -> Tape] /\ object \in [Symbols -> Nat]
  BY DEF StreamTypeOK, StoreInv, TypeOK
<1>2. tapes[symbol] \in Tape /\ RingContiguous(tapes[symbol])
  BY <1>1 DEF StoreInv, RingsContiguous
<1>3. QED
  BY <1>1, <1>2, TapeFields DEF RingContiguous

\* The active symbol has a tape.
LEMMA ActiveExists ==
  ASSUME HistoryIsRecency PROVE object[active] # 0
  BY DEF HistoryIsRecency

LEMMA NoQuoteType == NoQuote \in Quote
  BY DEF NoQuote, Quote

LEMMA InitStreamInv == ASSUME StreamBounds, StreamInit PROVE StreamInv
<1>1. DefaultSymbol \in Symbols
  BY StoreAssumption
<1>2. StreamTypeOK
  <2>1. /\ phase \in Phases /\ todo = <<>> /\ symbol \in Symbols /\ seq \in Nat
        /\ generation \in Nat /\ lastQuote \in Quote /\ connects \in 1 .. MaxConnects
        /\ drained \in 0 .. DrainLimit - 1
    BY <1>1, NoQuoteType DEF StreamInit, Phases, StreamBounds
  <2>2. reading \in [object : Nat, generation : Nat, numbers : Seq(Nat), quote : Quote]
    BY NoQuoteType DEF StreamInit, NotReading
  <2>3. shown \in [symbol : Symbols, stamp : Nat, start : Nat, hydrated : Nat,
                   numbers : Seq(Nat), dropped : Nat, quote : Quote, sources : SUBSET Nat]
    BY <1>1, NoQuoteType DEF StreamInit, NothingShown
  <2>4. warmup \in [Symbols -> SUBSET Nat]
    BY DEF StreamInit
  <2>5. QED
    BY <2>1, <2>2, <2>3, <2>4 DEF StreamTypeOK
<1>3. EveryNumberAccounted /\ FollowedGenerationHasNoWarmup
  BY DEF StreamInit, NothingShown, EveryNumberAccounted, FollowedGenerationHasNoWarmup
<1>4. WarmupIsPast /\ ReadingIsPast
  BY DEF StreamInit, WarmupIsPast, ReadingIsPast
<1>5. ShownIsPast
  BY DEF StreamInit, NothingShown, ShownIsPast
<1>6. SnapshotIsFollowed /\ DeltasAreFollowed /\ phase = "connect"
  BY DEF StreamInit, SnapshotIsFollowed, DeltasAreFollowed, Following, Settled
<1>7. QED
  BY <1>2, <1>3, <1>4, <1>5, <1>6 DEF StreamInv

\* Steps that touch neither the store nor what the browser has: their invariants are
\* about the position of the handler alone.
LEMMA PastsStay ==
  ASSUME StreamInv, UNCHANGED <<vars, shown, warmup>>
  PROVE  WarmupIsPast' /\ ShownIsPast'
  BY DEF vars, StreamInv, WarmupIsPast, ShownIsPast

LEMMA ConnectStreamInv ==
  ASSUME StoreInv, HistoryIsRecency, StreamInv, Connect PROVE StreamInv'
<1>1. /\ phase = "connect" /\ phase' = "snapshot" /\ symbol' = active
      /\ todo' = <<"quote", "generation">>
      /\ UNCHANGED <<vars, seq, generation, lastQuote, reading, drained, shown, connects, warmup>>
  BY DEF Connect, StartSnapshot
<1>2. active \in Symbols /\ object[active] # 0
  BY ActiveExists DEF StoreInv, TypeOK
<1>3. StreamTypeOK'
  BY <1>1, <1>2 DEF StreamInv, StreamTypeOK, Phases
<1>4. EveryNumberAccounted' /\ FollowedGenerationHasNoWarmup'
  BY <1>1 DEF StreamInv, EveryNumberAccounted, FollowedGenerationHasNoWarmup
<1>5. ReadingIsPast' /\ SnapshotIsFollowed' /\ DeltasAreFollowed'
  BY <1>1 DEF ReadingIsPast, SnapshotIsFollowed, DeltasAreFollowed, Following, Settled
<1>6. object'[symbol'] # 0
  BY <1>1, <1>2 DEF vars
<1>7. QED
  BY <1>1, <1>3, <1>4, <1>5, <1>6, PastsStay DEF StreamInv

LEMMA ReconnectStreamInv ==
  ASSUME StreamBounds, StreamInv, Reconnect PROVE StreamInv'
<1>1. /\ phase' = "connect" /\ todo' = <<>> /\ reading' = NotReading /\ drained' = 0
      /\ connects < MaxConnects /\ connects' = connects + 1
      /\ UNCHANGED <<vars, symbol, seq, generation, lastQuote, shown, warmup>>
  BY DEF Reconnect
<1>2. StreamTypeOK'
  <2>1. reading' \in [object : Nat, generation : Nat, numbers : Seq(Nat), quote : Quote]
    BY <1>1, NoQuoteType DEF NotReading
  <2>2. drained' \in 0 .. DrainLimit - 1 /\ connects' \in 1 .. MaxConnects
    BY <1>1 DEF StreamBounds, StreamInv, StreamTypeOK
  <2>3. QED
    BY <1>1, <2>1, <2>2 DEF StreamInv, StreamTypeOK, Phases
<1>3. EveryNumberAccounted' /\ FollowedGenerationHasNoWarmup'
  BY <1>1 DEF StreamInv, EveryNumberAccounted, FollowedGenerationHasNoWarmup
<1>4. ReadingIsPast' /\ SnapshotIsFollowed' /\ DeltasAreFollowed'
  BY <1>1 DEF ReadingIsPast, SnapshotIsFollowed, DeltasAreFollowed, Following, Settled
<1>5. QED
  BY <1>1, <1>2, <1>3, <1>4, PastsStay DEF StreamInv

\* The snapshot is read: its numbers end at the newest one of the tape.
LEMMA ReadSnapshotStreamInv ==
  ASSUME StreamBounds, StoreInv, StreamInv, ReadSnapshot PROVE StreamInv'
<1> DEFINE t == tapes[symbol]
           numbers == Numbers(SnapshotOf(t, SnapshotTrades))
           n == Len(numbers)
<1>1. /\ phase = "snapshot" /\ phase' = "stamp"
      /\ reading' = [object |-> object[symbol], generation |-> t.generation,
                     numbers |-> numbers, quote |-> t.quote]
      /\ UNCHANGED <<vars, todo, symbol, seq, generation, lastQuote, drained, shown, connects, warmup>>
  BY DEF ReadSnapshot
<1>2. StreamTypeOK
  BY DEF StreamInv
<1>3. /\ symbol \in Symbols /\ t \in Tape /\ RingContiguous(t) /\ t.quote \in Quote
      /\ object[symbol] \in Nat /\ t.generation \in Nat
      /\ t.count \in Nat /\ t.count < t.nextSeq /\ t.nextSeq \in Nat
  BY <1>2, HandlersTape
<1>4. /\ numbers \in Seq(Nat) /\ n \in Nat
      /\ \A i \in 1 .. n : /\ numbers[i] = t.nextSeq - n + i - 1
                           /\ numbers[i] > 0 /\ numbers[i] < t.nextSeq
      /\ n = 0 => t.count = 0
  BY <1>3, SnapshotNumbers, Zenon DEF StreamBounds
<1> HIDE DEF numbers
<1>5. StreamTypeOK'
  BY <1>1, <1>2, <1>3, <1>4 DEF StreamTypeOK, Phases
<1>6. /\ reading'.object = object[symbol] /\ reading'.generation = t.generation
      /\ reading'.numbers = numbers /\ object'[symbol'] = object[symbol]
      /\ tapes'[symbol'] = t /\ symbol' = symbol /\ warmup' = warmup /\ tapes' = tapes
  BY <1>1 DEF vars
<1>7. ReadingIsPast'
  <2>1. \A i \in DOMAIN numbers : /\ numbers[i] = numbers[1] + i - 1
                                  /\ numbers[i] > 0 /\ numbers[i] < t.nextSeq
    <3> SUFFICES ASSUME NEW i \in 1 .. n PROVE numbers[i] = numbers[1] + i - 1
      BY <1>4
    <3>1. 1 \in 1 .. n
      BY <1>4
    <3>2. numbers[i] = t.nextSeq - n + i - 1 /\ numbers[1] = t.nextSeq - n + 1 - 1
      BY <1>4, <3>1
    <3>3. QED
      BY <1>3, <1>4, <3>2
  <2>2. Behind(symbol, LastOf(numbers))
    <3> SUFFICES ASSUME NEW w \in warmup[symbol]
                 PROVE  w <= LastOf(numbers) \/ w < t.nextSeq - t.count
      BY DEF Behind
    <3>1. w \in Nat /\ w < t.nextSeq
      BY <1>2, <1>3 DEF StreamInv, WarmupIsPast, StreamTypeOK
    <3>2. CASE n = 0
      BY <1>3, <1>4, <3>1, <3>2
    <3>3. CASE n # 0
      <4>1. LastOf(numbers) = t.nextSeq - n + n - 1
        BY <1>4, <3>3 DEF LastOf
      <4>2. QED
        BY <1>3, <1>4, <3>1, <4>1
    <3>4. QED
      BY <3>2, <3>3
  <2>3. Behind(symbol, LastOf(numbers))'
    BY <1>6, <2>2 DEF Behind, numbers
  <2>4. QED
    BY <1>3, <1>6, <2>1, <2>2 DEF ReadingIsPast, Behind
<1>8. EveryNumberAccounted' /\ FollowedGenerationHasNoWarmup'
  BY <1>1 DEF StreamInv, EveryNumberAccounted, FollowedGenerationHasNoWarmup
<1>9. SnapshotIsFollowed' /\ DeltasAreFollowed'
  BY <1>1 DEF SnapshotIsFollowed, DeltasAreFollowed, Following, Settled
<1>10. object'[symbol'] # 0
  BY <1>1, <1>6 DEF StreamInv
<1>11. QED
  BY <1>1, <1>5, <1>7, <1>8, <1>9, <1>10, PastsStay DEF StreamInv

\* The snapshot is shown: the browser starts from it, and follows its newest print.
LEMMA SendSnapshotStreamInv ==
  ASSUME StoreInv, StreamInv, SendSnapshot PROVE StreamInv'
<1> DEFINE t == tapes[symbol]
           numbers == reading.numbers
           n == Len(numbers)
           start == IF n = 0 THEN 0 ELSE numbers[1] - 1
           given == [symbol |-> symbol, stamp |-> reading.generation, start |-> start,
                     hydrated |-> n, numbers |-> numbers, dropped |-> 0,
                     quote |-> reading.quote, sources |-> {}]
<1>1. /\ phase = "stamp" /\ phase' = "finish" /\ shown' = given
      /\ seq' = (IF n = 0 THEN 0 ELSE numbers[n]) /\ reading' = NotReading
      /\ UNCHANGED <<vars, todo, symbol, generation, lastQuote, drained, connects, warmup>>
  BY DEF SendSnapshot
<1>2. StreamTypeOK
  BY DEF StreamInv
<1>3. /\ symbol \in Symbols /\ t.generation \in Nat /\ t.nextSeq \in Nat
      /\ object[symbol] \in Nat /\ t.count \in Nat
  BY <1>2, HandlersTape
<1>4. /\ reading.object \in Nat /\ reading.generation \in Nat
      /\ numbers \in Seq(Nat) /\ n \in Nat /\ DOMAIN numbers = 1 .. n
      /\ reading.quote \in Quote
  BY <1>2 DEF StreamTypeOK
<1>5. /\ reading.object <= object[symbol]
      /\ \A i \in 1 .. n : /\ numbers[i] = numbers[1] + i - 1
                           /\ numbers[i] > 0 /\ numbers[i] < t.nextSeq
      /\ reading.object < object[symbol] => reading.generation < t.generation
      /\ reading.object = object[symbol] =>
           reading.generation = t.generation /\ Behind(symbol, LastOf(numbers))
  BY <1>1, <1>4 DEF StreamInv, ReadingIsPast
<1>6. n # 0 => 1 \in 1 .. n /\ n \in 1 .. n
  BY <1>4
<1>7. \A i \in 1 .. n : numbers[i] \in Nat
  BY <1>4
<1>8. start \in Nat /\ (n # 0 => start = numbers[1] - 1) /\ (n = 0 => start = 0)
  BY <1>5, <1>6, <1>7
<1>9. n = 0 <=> numbers = <<>>
  BY <1>4
<1>10. seq' = LastOf(numbers) /\ seq' \in Nat
  BY <1>1, <1>6, <1>7, <1>9 DEF LastOf
<1> HIDE DEF start
<1>11. given \in [symbol : Symbols, stamp : Nat, start : Nat, hydrated : Nat,
                  numbers : Seq(Nat), dropped : Nat, quote : Quote, sources : SUBSET Nat]
  BY <1>3, <1>4, <1>8
<1>12. /\ shown'.symbol = symbol /\ shown'.stamp = reading.generation /\ shown'.start = start
       /\ shown'.hydrated = n /\ shown'.numbers = numbers /\ shown'.dropped = 0
       /\ shown'.sources = {}
  BY <1>1
<1> HIDE DEF given, numbers
<1>13. StreamTypeOK'
  <2>1. NotReading \in [object : Nat, generation : Nat, numbers : Seq(Nat), quote : Quote]
    BY NoQuoteType DEF NotReading
  <2>2. shown' \in [symbol : Symbols, stamp : Nat, start : Nat, hydrated : Nat,
                   numbers : Seq(Nat), dropped : Nat, quote : Quote, sources : SUBSET Nat]
    BY <1>1, <1>11
  <2>3. QED
    BY <1>1, <1>2, <1>10, <2>1, <2>2 DEF StreamTypeOK, Phases
<1>14. EveryNumberAccounted'
  <2>1. \A i \in 1 .. n - 1 : numbers[i] < numbers[i + 1]
    <3> SUFFICES ASSUME NEW i \in 1 .. n - 1 PROVE numbers[i] < numbers[i + 1]
      OBVIOUS
    <3>1. i \in 1 .. n /\ i + 1 \in 1 .. n /\ i \in Int
      BY <1>4
    <3>2. numbers[i] = numbers[1] + i - 1 /\ numbers[i + 1] = numbers[1] + (i + 1) - 1
      BY <1>5, <3>1
    <3>3. numbers[1] \in Nat
      BY <1>6, <1>7, <3>1
    <3>4. QED
      BY <3>1, <3>2, <3>3
  <2>2. n > 0 => numbers[n] - start = n + 0
    <3> SUFFICES ASSUME n > 0 PROVE numbers[n] - start = n
      BY <1>4
    <3>1. numbers[n] = numbers[1] + n - 1 /\ start = numbers[1] - 1 /\ numbers[1] \in Nat
      BY <1>4, <1>5, <1>6, <1>7, <1>8
    <3>2. QED
      BY <1>4, <3>1
  <2>3. Len(shown'.numbers) = n
    BY <1>12
  <2>4. n \in Nat /\ (n # 0 => n > 0)
    BY <1>4
  <2>5. QED
    BY <1>1, <1>12, <2>1, <2>2, <2>3, <2>4 DEF EveryNumberAccounted, numbers
<1>15. FollowedGenerationHasNoWarmup'
  <2>1. Len(shown'.numbers) = n /\ shown'.hydrated = n
    BY <1>12
  <2>2. n + 1 .. n = {}
    BY <1>4
  <2>3. QED
    BY <2>1, <2>2 DEF FollowedGenerationHasNoWarmup
<1>16. WarmupIsPast' /\ ReadingIsPast'
  BY <1>1 DEF vars, StreamInv, WarmupIsPast, ReadingIsPast
<1>17. tapes' = tapes /\ object' = object /\ warmup' = warmup /\ symbol' = symbol
  BY <1>1 DEF vars
<1>18. ShownIsPast'
  BY <1>4, <1>5, <1>8, <1>9, <1>12, <1>17 DEF ShownIsPast
<1>19. SnapshotIsFollowed'
  <2>1. reading.generation <= t.generation
    BY <1>3, <1>4, <1>5
  <2>2. reading.generation = t.generation => Behind(symbol, LastOf(numbers))
    BY <1>3, <1>4, <1>5
  <2>3. QED
    BY <1>10, <1>12, <1>17, <2>1, <2>2 DEF SnapshotIsFollowed, Behind
<1>20. DeltasAreFollowed'
  BY <1>1, <1>12 DEF DeltasAreFollowed, Settled
<1>21. object'[symbol'] # 0
  BY <1>1, <1>17 DEF StreamInv
<1>22. QED
  BY <1>13, <1>14, <1>15, <1>16, <1>18, <1>19, <1>20, <1>21 DEF StreamInv

LEMMA FinishStreamInv ==
  ASSUME StoreInv, StreamInv, Finish PROVE StreamInv'
<1>1. /\ phase = "finish" /\ phase' \in {"tick", "finish"}
      /\ UNCHANGED <<vars, symbol, seq, reading, drained, shown, connects, warmup>>
  BY DEF Finish
<1>2. StreamTypeOK
  BY DEF StreamInv
<1>3. \/ todo' = todo /\ generation' = generation /\ lastQuote' = lastQuote
      \/ /\ todo # <<>> /\ todo' = Tail(todo)
         /\ generation' \in {generation, tapes[symbol].generation}
         /\ lastQuote' \in {lastQuote, tapes[symbol].quote}
  BY DEF Finish
<1>4. StreamTypeOK'
  <2>1. generation' \in Nat /\ lastQuote' \in Quote
    BY <1>2, <1>3, HandlersTape DEF StreamTypeOK
  <2>2. todo' \in {<<>>, <<"quote">>, <<"generation">>, <<"quote", "generation">>,
                   <<"generation", "quote">>}
    <3>1. /\ Tail(<<"quote">>) = <<>> /\ Tail(<<"generation">>) = <<>>
          /\ Tail(<<"quote", "generation">>) = <<"generation">>
          /\ Tail(<<"generation", "quote">>) = <<"quote">>
      OBVIOUS
    <3>2. QED
      BY <1>2, <1>3, <3>1 DEF StreamTypeOK
  <2>3. QED
    BY <1>1, <1>2, <2>1, <2>2 DEF StreamTypeOK, Phases
<1>5. shown.sources = {} /\ Len(shown.numbers) = shown.hydrated /\ shown.hydrated \in Nat
  BY <1>1, <1>2 DEF StreamInv, DeltasAreFollowed, StreamTypeOK
<1>6. EveryNumberAccounted'
  BY <1>1 DEF StreamInv, EveryNumberAccounted
<1>7. FollowedGenerationHasNoWarmup'
  <2>1. shown' = shown /\ shown.hydrated + 1 .. Len(shown.numbers) = {}
    BY <1>1, <1>5
  <2>2. QED
    BY <2>1 DEF FollowedGenerationHasNoWarmup
<1>8. ReadingIsPast'
  BY <1>1 DEF ReadingIsPast
<1>9. SnapshotIsFollowed'
  <2>1. tapes' = tapes /\ warmup' = warmup
    BY <1>1 DEF vars
  <2>2. QED
    BY <1>1, <2>1 DEF StreamInv, SnapshotIsFollowed, Following, Behind
<1>10. DeltasAreFollowed'
  BY <1>1, <1>5 DEF DeltasAreFollowed, Settled
<1>11. object'[symbol'] # 0
  BY <1>1 DEF StreamInv, vars
<1>12. QED
  BY <1>1, <1>4, <1>6, <1>7, <1>8, <1>9, <1>10, <1>11, PastsStay DEF StreamInv

LEMMA TickStreamInv ==
  ASSUME StoreInv, HistoryIsRecency, StreamInv, Tick PROVE StreamInv'
<1>1. /\ phase = "tick" /\ symbol' = active
      /\ UNCHANGED <<vars, seq, generation, lastQuote, reading, drained, shown, connects, warmup>>
      /\ \/ phase' = "snapshot" /\ todo' = <<"generation", "quote">>
         \/ phase' = "check" /\ todo' = todo /\ symbol' = symbol
  BY DEF Tick, StartSnapshot
<1>2. active \in Symbols /\ object[active] # 0
  BY ActiveExists DEF StoreInv, TypeOK
<1>3. StreamTypeOK'
  BY <1>1, <1>2 DEF StreamInv, StreamTypeOK, Phases
<1>4. EveryNumberAccounted' /\ FollowedGenerationHasNoWarmup'
  BY <1>1 DEF StreamInv, EveryNumberAccounted, FollowedGenerationHasNoWarmup
<1>5. tapes' = tapes /\ warmup' = warmup /\ object' = object
  BY <1>1 DEF vars
<1>6. ReadingIsPast' /\ SnapshotIsFollowed' /\ DeltasAreFollowed'
  <2>1. CASE phase' = "snapshot"
    BY <2>1 DEF ReadingIsPast, SnapshotIsFollowed, DeltasAreFollowed, Following, Settled
  <2>2. CASE phase' = "check" /\ symbol' = symbol
    BY <1>1, <1>5, <2>2 DEF StreamInv, ReadingIsPast, SnapshotIsFollowed, DeltasAreFollowed,
                            Following, Settled, Behind
  <2>3. QED
    BY <1>1, <2>1, <2>2
<1>7. object'[symbol'] # 0
  BY <1>1, <1>2, <1>5
<1>8. QED
  BY <1>1, <1>3, <1>4, <1>6, <1>7, PastsStay DEF StreamInv

\* A generation that became the stamp's again is not possible: the tape's only grow, and
\* the deltas' was the stamp's or later.
LEMMA CheckStreamInv ==
  ASSUME StreamBounds, StoreInv, StreamInv, Check PROVE StreamInv'
<1> DEFINE now == tapes[symbol].generation
<1>1. /\ phase = "check" /\ generation' = now /\ drained' = 0
      /\ UNCHANGED <<vars, symbol, seq, lastQuote, reading, shown, connects, warmup>>
      /\ \/ phase' = "snapshot" /\ todo' = <<"quote">>
         \/ phase' = "drain" /\ todo' = todo /\ generation' = generation
  BY DEF Check, StartSnapshot
<1>2. StreamTypeOK
  BY DEF StreamInv
<1>3. now \in Nat /\ generation \in Nat /\ shown.stamp \in Nat /\ shown.hydrated \in Nat
      /\ Len(shown.numbers) \in Nat /\ shown.hydrated <= Len(shown.numbers)
  BY <1>2, HandlersTape DEF StreamTypeOK, StreamInv, ShownIsPast
<1>4. StreamTypeOK'
  BY <1>1, <1>2, <1>3 DEF StreamBounds, StreamTypeOK, Phases
<1>5. EveryNumberAccounted'
  BY <1>1 DEF StreamInv, EveryNumberAccounted
<1>6. FollowedGenerationHasNoWarmup'
  <2>1. CASE Len(shown.numbers) = shown.hydrated
    <3>1. shown.hydrated + 1 .. Len(shown.numbers) = {}
      BY <1>3, <2>1
    <3>2. shown' = shown
      BY <1>1
    <3>3. QED
      BY <3>1, <3>2 DEF FollowedGenerationHasNoWarmup
  <2>2. CASE Len(shown.numbers) # shown.hydrated
    <3>1. shown.stamp <= generation /\ generation <= now
      BY <1>1, <1>3, <2>2 DEF StreamInv, DeltasAreFollowed, Settled
    <3>2. generation' = shown.stamp => generation = shown.stamp
      BY <1>1, <1>3, <3>1
    <3>3. shown' = shown /\ warmup' = warmup
      BY <1>1
    <3>4. QED
      BY <3>2, <3>3 DEF StreamInv, FollowedGenerationHasNoWarmup
  <2>3. QED
    BY <2>1, <2>2
<1>7. tapes' = tapes /\ warmup' = warmup /\ object' = object
  BY <1>1 DEF vars
<1>8. ReadingIsPast'
  BY <1>1 DEF ReadingIsPast
<1>9. SnapshotIsFollowed' /\ DeltasAreFollowed'
  BY <1>1, <1>7 DEF StreamInv, SnapshotIsFollowed, DeltasAreFollowed, Following, Settled, Behind
<1>10. object'[symbol'] # 0
  BY <1>1, <1>7 DEF StreamInv
<1>11. QED
  BY <1>1, <1>4, <1>5, <1>6, <1>8, <1>9, <1>10, PastsStay DEF StreamInv

\* Prints are delivered: of the generation that is followed, and after everything given.
LEMMA DrainStreamInv ==
  ASSUME StreamBounds, StoreInv, StreamInv, Drain PROVE StreamInv'
<1> DEFINE t == tapes[symbol]
           r == SinceOf(t, seq, MaxBatch)
           more == Numbers(r.trades)
           k == Len(more)
           n == Len(shown.numbers)
<1>1. /\ phase = "drain" /\ phase' \in {"tick", "drain"}
      /\ UNCHANGED <<vars, todo, symbol, generation, reading, connects, warmup>>
  BY DEF Drain, EndTick
<1>2. StreamTypeOK
  BY DEF StreamInv
<1>3. /\ symbol \in Symbols /\ t \in Tape /\ RingContiguous(t) /\ t.quote \in Quote
      /\ t.nextSeq \in Nat /\ t.count \in Nat /\ t.generation \in Nat /\ t.count < t.nextSeq
  BY <1>2, HandlersTape
<1>4. /\ shown.numbers \in Seq(Nat) /\ n \in Nat /\ DOMAIN shown.numbers = 1 .. n
      /\ shown.start \in Nat /\ shown.stamp \in Nat /\ shown.dropped \in Nat
      /\ shown.hydrated \in Nat /\ shown.symbol \in Symbols /\ shown.sources \in SUBSET Nat
      /\ seq \in Nat /\ generation \in Nat
  BY <1>2 DEF StreamTypeOK
<1>5. /\ \A i \in 1 .. n - 1 : shown.numbers[i] < shown.numbers[i + 1]
      /\ n > 0 => shown.numbers[n] - shown.start = n + shown.dropped
      /\ n = 0 => shown.dropped = 0
      /\ seq = (IF n = 0 THEN 0 ELSE shown.numbers[n])
  BY <1>1 DEF StreamInv, EveryNumberAccounted
<1>6. /\ shown.symbol = symbol /\ shown.stamp <= t.generation
      /\ shown.stamp = t.generation => Behind(symbol, seq)
      /\ shown.sources \subseteq {generation} /\ shown.hydrated <= n
      /\ \A i \in 1 .. n : shown.numbers[i] < t.nextSeq
      /\ n = 0 => shown.start = 0
  BY <1>1, <1>4 DEF StreamInv, SnapshotIsFollowed, DeltasAreFollowed, ShownIsPast, Following,
                    Settled
<1>7. seq < t.nextSeq
  <2>1. CASE n = 0
    BY <1>3, <1>4, <1>5, <2>1
  <2>2. CASE n # 0
    BY <1>4, <1>5, <1>6, <2>2, SMTT(30)
  <2>3. QED
    BY <2>1, <2>2
<1>8. /\ r.generation = t.generation /\ r.dropped \in Nat
      /\ more \in Seq(Nat) /\ k \in Nat /\ Len(r.trades) = k
      /\ \A i \in 1 .. k : /\ more[i] = seq + r.dropped + i
                           /\ r.trades[i].seq = more[i]
                           /\ more[i] < t.nextSeq
                           /\ more[i] >= t.nextSeq - t.count
      /\ k = 0 => r.dropped = 0
      /\ k = 0 <=> r.trades = <<>>
  BY <1>3, <1>4, <1>7, SinceNumbers, SMTT(30) DEF StreamBounds
<1>9. tapes' = tapes /\ warmup' = warmup /\ object' = object
  BY <1>1 DEF vars
<1>10. ReadingIsPast' /\ WarmupIsPast' /\ object'[symbol'] # 0
  BY <1>1, <1>9 DEF StreamInv, ReadingIsPast, WarmupIsPast
<1>11. CASE EndTick
  <2>1. /\ phase' = "tick" /\ drained' = 0
        /\ UNCHANGED <<seq, lastQuote, shown>>
    BY <1>11 DEF EndTick
  <2>2. StreamTypeOK'
    BY <1>1, <1>2, <2>1 DEF StreamBounds, StreamTypeOK, Phases
  <2>3. EveryNumberAccounted' /\ FollowedGenerationHasNoWarmup'
    BY <1>1, <2>1 DEF StreamInv, EveryNumberAccounted, FollowedGenerationHasNoWarmup
  <2>4. SnapshotIsFollowed' /\ DeltasAreFollowed'
    BY <1>1, <1>9, <2>1 DEF StreamInv, SnapshotIsFollowed, DeltasAreFollowed, Following,
                            Settled, Behind
  <2>5. ShownIsPast'
    BY <1>9, <2>1 DEF StreamInv, ShownIsPast
  <2>6. QED
    BY <1>10, <2>2, <2>3, <2>4, <2>5 DEF StreamInv
<1>12. CASE Deliver(r) /\ r.generation = generation /\ drained' \in 0 .. DrainLimit - 1
  <2>1. /\ seq' = (IF r.trades = <<>> THEN seq ELSE r.trades[Len(r.trades)].seq)
        /\ lastQuote' = t.quote
        /\ shown' = [shown EXCEPT !.numbers = @ \o more, !.dropped = @ + r.dropped,
                        !.quote = t.quote,
                        !.sources = IF r.trades = <<>> THEN @ ELSE @ \cup {r.generation}]
    BY <1>12 DEF Deliver
  <2> DEFINE all == shown.numbers \o more
             sources == IF r.trades = <<>> THEN shown.sources
                        ELSE shown.sources \cup {r.generation}
             dropped == shown.dropped + r.dropped
  <2>2. /\ shown'.symbol = symbol /\ shown'.stamp = shown.stamp
        /\ shown'.start = shown.start /\ shown'.hydrated = shown.hydrated
        /\ shown'.numbers = all /\ shown'.dropped = dropped /\ shown'.sources = sources
    BY <1>2, <1>6, <2>1 DEF StreamTypeOK
  <2> HIDE DEF r, more
  <2>3. /\ n \in Nat /\ k \in Nat /\ r.dropped \in Nat /\ seq \in Nat
         /\ shown.start \in Nat /\ shown.dropped \in Nat
    BY <1>4, <1>8
  <2>4. all \in Seq(Nat) /\ Len(all) = n + k /\ DOMAIN all = 1 .. n + k
    BY <1>4, <1>8
  <2>5. /\ \A i \in 1 .. n : all[i] = shown.numbers[i]
        /\ \A i \in n + 1 .. n + k : all[i] = seq + r.dropped + (i - n)
    <3>1. \A i \in 1 .. n + k : all[i] = IF i <= n THEN shown.numbers[i] ELSE more[i - n]
      BY <1>4, <1>8
    <3>2. ASSUME NEW i \in n + 1 .. n + k PROVE all[i] = seq + r.dropped + (i - n)
      <4>1. i - n \in 1 .. k /\ ~(i <= n) /\ i \in 1 .. n + k
        BY <1>4, <1>8
      <4>2. QED
        BY <1>8, <3>1, <4>1
    <3>3. ASSUME NEW i \in 1 .. n PROVE all[i] = shown.numbers[i]
      BY <1>4, <1>8, <3>1
    <3>4. QED
      BY <3>2, <3>3
  <2> HIDE DEF all
  <2>6. shown' \in [symbol : Symbols, stamp : Nat, start : Nat, hydrated : Nat,
                   numbers : Seq(Nat), dropped : Nat, quote : Quote, sources : SUBSET Nat]
    <3>1. dropped \in Nat /\ sources \in SUBSET Nat
      BY <1>3, <1>4, <1>8, SMTT(30)
    <3>2. shown' = [shown EXCEPT !.numbers = all, !.dropped = dropped, !.quote = t.quote,
                                 !.sources = sources]
      BY <2>1 DEF all
    <3> HIDE DEF dropped, sources
    <3>3. QED
      BY <1>2, <1>3, <2>4, <3>1, <3>2 DEF StreamTypeOK
  <2>7. seq' = (IF k = 0 THEN seq ELSE seq + r.dropped + k)
    <3>1. CASE k = 0
      BY <1>8, <2>1, <3>1
    <3>2. CASE k # 0
      <4>1. k \in 1 .. k
        BY <1>8, <3>2
      <4>2. seq' = r.trades[k].seq
        BY <1>8, <2>1, <3>2
      <4>3. QED
        BY <1>8, <3>2, <4>1, <4>2
    <3>3. QED
      BY <3>1, <3>2
  <2>8. seq' \in Nat /\ seq' >= seq
    BY <1>4, <1>8, <2>7
  <2>9. StreamTypeOK'
    BY <1>1, <1>2, <1>3, <1>12, <2>1, <2>6, <2>8 DEF StreamTypeOK, Phases
  <2>10. n + k = 0 <=> n = 0 /\ k = 0
    BY <1>4, <1>8
  <2>11. seq' = IF n + k = 0 THEN 0 ELSE all[n + k]
    <3>1. CASE k = 0
      <4>1. n + k = n /\ seq' = seq
        BY <1>4, <2>7, <3>1
      <4>2. n # 0 => n \in 1 .. n
        BY <1>4
      <4>3. QED
        BY <1>5, <2>5, <4>1, <4>2
    <3>2. CASE k # 0
      <4>1. n + k \in n + 1 .. n + k /\ n + k # 0 /\ (n + k) - n = k
        BY <1>4, <1>8, <3>2
      <4>2. QED
        BY <2>5, <2>7, <3>2, <4>1
    <3>3. QED
      BY <3>1, <3>2
  <2>12. \A i \in 1 .. n + k - 1 : all[i] < all[i + 1]
    <3> SUFFICES ASSUME NEW i \in 1 .. n + k - 1 PROVE all[i] < all[i + 1]
      OBVIOUS
    <3>1. CASE i < n
      <4>1. i \in 1 .. n - 1 /\ i \in 1 .. n /\ i + 1 \in 1 .. n
        BY <1>4, <3>1
      <4>2. QED
        BY <1>5, <2>5, <4>1
    <3>2. CASE i = n
      <4>1. n \in 1 .. n /\ n + 1 \in n + 1 .. n + k /\ (n + 1) - n = 1 /\ n # 0
        BY <1>4, <1>8, <3>2
      <4>2. all[n] = seq /\ all[n + 1] = seq + r.dropped + 1
        BY <1>5, <2>5, <4>1
      <4>3. QED
        BY <1>4, <1>8, <3>2, <4>2
    <3>3. CASE i > n
      <4>1. i \in n + 1 .. n + k /\ i + 1 \in n + 1 .. n + k /\ i \in Int
        BY <1>4, <1>8, <3>3, SMTT(30)
      <4>2. all[i] = seq + r.dropped + (i - n) /\ all[i + 1] = seq + r.dropped + ((i + 1) - n)
        BY <2>5, <4>1
      <4> DEFINE at == seq + r.dropped
      <4>3. at \in Int /\ n \in Int
        BY <2>3
      <4> HIDE DEF at, n, k
      <4>4. at + (i - n) < at + ((i + 1) - n)
        BY <4>1, <4>3
      <4>5. QED
        BY <4>2, <4>4 DEF at
    <3>4. QED
      BY <1>4, <1>8, <3>1, <3>2, <3>3
  <2>13. n + k > 0 => all[n + k] - shown.start = n + k + dropped
    <3> SUFFICES ASSUME n + k > 0 PROVE seq' - shown.start = n + k + dropped
      BY <1>4, <1>8, <2>11
    <3>1. seq - shown.start = n + shown.dropped
      <4>1. CASE n = 0
        BY <1>5, <1>6, <4>1
      <4>2. CASE n # 0
        BY <1>5, <2>3, <4>2
      <4>3. QED
        BY <4>1, <4>2
    <3>2. seq' = seq + r.dropped + k
      BY <1>8, <2>7, <2>3
    <3>3. \A a, b, c, d, e, f \in Int : a - b = c + d => (a + e + f) - b = c + f + (d + e)
      OBVIOUS
    <3> HIDE DEF n, k
    <3>4. (seq + r.dropped + k) - shown.start = n + k + (shown.dropped + r.dropped)
      BY <2>3, <3>1, <3>3
    <3>5. QED
      BY <3>2, <3>4
  <2>14. n + k = 0 => dropped = 0
    BY <1>4, <1>5, <1>8, <2>10
  <2>15. EveryNumberAccounted'
    <3>1. Len(shown'.numbers) = n + k
      BY <2>2, <2>4
    <3> HIDE DEF dropped
    <3>2. QED
      BY <2>2, <2>11, <2>12, <2>13, <2>14, <3>1 DEF EveryNumberAccounted
  <2>16. FollowedGenerationHasNoWarmup'
    <3> SUFFICES ASSUME generation = shown.stamp, NEW i \in shown.hydrated + 1 .. n + k
                 PROVE  all[i] \notin warmup[symbol]
      BY <1>1, <1>9, <2>2, <2>4 DEF FollowedGenerationHasNoWarmup
    <3>1. CASE i <= n
      <4>1. i \in 1 .. n /\ i \in shown.hydrated + 1 .. n
        BY <1>4, <1>8, <3>1
      <4>2. shown.numbers[i] \notin warmup[symbol]
        BY <1>6, <4>1 DEF StreamInv, FollowedGenerationHasNoWarmup
      <4>3. QED
        BY <2>5, <4>1, <4>2
    <3>2. CASE ~(i <= n)
      <4>1. i \in n + 1 .. n + k /\ i - n \in 1 .. k
        BY <1>4, <1>8, <3>2
      <4>2. all[i] = seq + r.dropped + (i - n) /\ all[i] = more[i - n]
        BY <1>8, <2>5, <4>1
      <4>3. all[i] >= t.nextSeq - t.count /\ all[i] \in Nat
        BY <1>8, <4>1, <4>2, SMTT(30)
      <4>4. all[i] > seq
        <5>1. \A a, b \in Nat, c \in Int : c >= 1 => a + b + c > a
          OBVIOUS
        <5>2. i - n \in Int /\ i - n >= 1
          BY <2>3, <4>1
        <5>3. QED
          BY <2>3, <4>2, <5>1, <5>2
      <4>5. Behind(symbol, seq)
        BY <1>6, <1>8, <1>12
      <4>6. \A w \in warmup[symbol] : w <= seq \/ w < t.nextSeq - t.count
        BY <4>5 DEF Behind
      <4>7. t.nextSeq - t.count \in Int
        BY <1>3
      <4> DEFINE x == all[i]
                 oldest == t.nextSeq - t.count
      <4>8. x >= oldest /\ x \in Nat /\ x > seq /\ oldest \in Int /\ seq \in Nat
        BY <2>3, <4>3, <4>4, <4>7
      <4> HIDE DEF x, oldest
      <4>9. ~(x <= seq \/ x < oldest)
        BY <4>8
      <4>10. QED
        BY <4>6, <4>9 DEF x, oldest
    <3>3. QED
      BY <3>1, <3>2
  <2>17. ShownIsPast'
    <3>1. \A i \in 1 .. n + k : all[i] < t.nextSeq
      <4> SUFFICES ASSUME NEW i \in 1 .. n + k PROVE all[i] < t.nextSeq
        OBVIOUS
      <4>1. CASE i <= n
        BY <1>4, <1>6, <1>8, <2>5, <4>1
      <4>2. CASE ~(i <= n)
        <5>1. i \in n + 1 .. n + k /\ i - n \in 1 .. k
          BY <1>4, <1>8, <4>2
        <5>2. all[i] = more[i - n]
          BY <1>8, <2>5, <5>1
        <5>3. QED
          BY <1>8, <5>1, <5>2
      <4>3. QED
        BY <4>1, <4>2
    <3>2. all = <<>> => shown.start = 0
      <4>1. all = <<>> => n + k = 0
        BY <2>4
      <4>2. QED
        BY <1>6, <2>10, <4>1
    <3>3. shown.hydrated <= n + k
      BY <1>4, <1>6, <1>8
    <3>4. \A g, h \in sources : g = h
      BY <1>6, <1>12
    <3>5. tapes'[shown'.symbol] = t
      BY <1>9, <2>2
    <3> HIDE DEF sources
    <3>6. QED
      BY <2>2, <2>4, <3>1, <3>2, <3>3, <3>4, <3>5 DEF ShownIsPast
  <2>18. SnapshotIsFollowed'
    <3>1. shown.stamp = t.generation => Behind(symbol, seq')
      <4> SUFFICES ASSUME shown.stamp = t.generation, NEW w \in warmup[symbol]
                   PROVE  w <= seq' \/ w < t.nextSeq - t.count
        BY DEF Behind
      <4>1. w \in Nat /\ (w <= seq \/ w < t.nextSeq - t.count)
        BY <1>2, <1>3, <1>6 DEF Behind, StreamTypeOK
      <4>2. QED
        BY <1>4, <2>8, <4>1
    <3>2. symbol' = symbol
      BY <1>1
    <3>3. QED
      BY <1>6, <1>9, <2>2, <3>1, <3>2 DEF SnapshotIsFollowed, Behind
  <2>19. DeltasAreFollowed'
    <3>1. sources \subseteq {generation}
      BY <1>6, <1>12
    <3>2. shown.stamp <= generation /\ generation <= t.generation
      BY <1>4, <1>6, <1>8, <1>12
    <3> HIDE DEF sources
    <3>3. generation' = generation /\ symbol' = symbol
      BY <1>1
    <3>4. QED
      BY <1>1, <1>9, <2>2, <3>1, <3>2, <3>3 DEF DeltasAreFollowed, Settled
  <2>20. QED
    BY <1>10, <2>9, <2>15, <2>16, <2>17, <2>18, <2>19 DEF StreamInv
<1>13. EndTick \/ (Deliver(r) /\ r.generation = generation /\ drained' \in 0 .. DrainLimit - 1)
  <2>1. CASE r.generation # generation \/ NothingNew(r)
    BY <2>1 DEF Drain
  <2>2. CASE ~(r.generation # generation \/ NothingNew(r))
    <3>1. /\ Deliver(r) /\ r.generation = generation
          /\ \/ drained + 1 < DrainLimit /\ drained' = drained + 1
             \/ drained' = 0
      BY <2>2 DEF Drain
    <3>2. drained \in 0 .. DrainLimit - 1 /\ DrainLimit \in Nat \ {0}
      BY <1>2 DEF StreamTypeOK, StreamBounds
    <3>3. drained' \in 0 .. DrainLimit - 1
      BY <3>1, <3>2
    <3>4. QED
      BY <3>1, <3>3
  <2>3. QED
    BY <2>1, <2>2
<1>14. QED
  BY <1>11, <1>12, <1>13

-----------------------------------------------------------------------------
(* The store's steps.                                                        *)

\* The numbers a tape's prints have.
LEMMA RetainedNumbers ==
  ASSUME NEW t \in Tape, RingContiguous(t),
         NEW w \in {Contents(t)[i].seq : i \in 1 .. t.count}
  PROVE  w \in Nat /\ w < t.nextSeq /\ w >= t.nextSeq - t.count
<1>1. t.count \in Nat /\ t.nextSeq \in Nat /\ t.count < t.nextSeq
  BY TapeFields DEF RingContiguous
<1>2. PICK i \in 1 .. t.count : w = Contents(t)[i].seq
  OBVIOUS
<1>3. Contents(t)[i].seq = t.items[SlotOf(t, i - 1)].seq /\ i - 1 \in 0 .. t.count - 1
  BY <1>1, ContentsLength
<1>4. t.items[SlotOf(t, i - 1)].seq = t.nextSeq - t.count + (i - 1)
  BY <1>3 DEF RingContiguous
<1>5. QED
  BY <1>1, <1>2, <1>3, <1>4

\* A store call moves every tape forward; the prints of a rebuild it publishes have numbers
\* that were not assigned before, and nothing else changes the warmup of a tape.
LEMMA StoreCallMoves ==
  ASSUME StoreInv, StoreInv', StreamTypeOK, StoreCall, NEW s \in Symbols
  PROVE  /\ tapes'[s].nextSeq >= tapes[s].nextSeq
         /\ tapes'[s].nextSeq - tapes'[s].count >= tapes[s].nextSeq - tapes[s].count
         /\ tapes'[s].generation >= tapes[s].generation
         /\ object'[s] >= object[s]
         /\ object[s] # 0 /\ object'[s] # object[s] =>
              tapes'[s].generation > tapes[s].generation
         /\ object[s] # 0 /\ object'[s] = object[s] => warmup'[s] = warmup[s]
         /\ \A w \in warmup'[s] :
              \/ w \in warmup[s]
              \/ w \in Nat /\ w >= tapes[s].nextSeq /\ w < tapes'[s].nextSeq
<1>1. /\ tapes[s] \in Tape /\ tapes'[s] \in Tape /\ object[s] \in Nat
      /\ RingContiguous(tapes'[s])
  BY DEF StoreInv, TypeOK, RingsContiguous
<1>2. /\ tapes[s].nextSeq \in Nat /\ tapes[s].count \in Nat /\ tapes[s].generation \in Nat
      /\ tapes'[s].nextSeq \in Nat /\ tapes'[s].count \in Nat /\ tapes'[s].generation \in Nat
  BY <1>1, TapeFields
<1>3. /\ Next
      /\ warmup' = [r \in Symbols |->
                      IF object'[r] # object[r] /\ stage' # stage
                        THEN warmup[r] \cup {Contents(tapes'[r])[i].seq : i \in 1 .. tapes'[r].count}
                      ELSE warmup[r]]
  BY DEF StoreCall
<1>4. warmup'[s] = IF object'[s] # object[s] /\ stage' # stage
                     THEN warmup[s] \cup {Contents(tapes'[s])[i].seq : i \in 1 .. tapes'[s].count}
                   ELSE warmup[s]
  BY <1>3
<1>5. CASE Swaps(s)
  <2>1. /\ object'[s] = object[s] + 1
        /\ tapes'[s].generation >= tapes[s].generation
        /\ object[s] # 0 => tapes'[s].generation > tapes[s].generation
        /\ tapes'[s].nextSeq - tapes'[s].count >= tapes[s].nextSeq
    BY <1>5 DEF Swaps
  <2>2. /\ tapes'[s].nextSeq >= tapes[s].nextSeq
        /\ tapes'[s].nextSeq - tapes'[s].count >= tapes[s].nextSeq - tapes[s].count
        /\ object'[s] >= object[s] /\ object'[s] # object[s]
    BY <1>1, <1>2, <2>1
  <2>3. ASSUME NEW w \in warmup'[s], w \notin warmup[s]
        PROVE  w \in Nat /\ w >= tapes[s].nextSeq /\ w < tapes'[s].nextSeq
    <3>1. w \in {Contents(tapes'[s])[i].seq : i \in 1 .. tapes'[s].count}
      BY <1>4, <2>3
    <3>2. /\ w \in Nat /\ w < tapes'[s].nextSeq
          /\ w >= tapes'[s].nextSeq - tapes'[s].count
      BY <1>1, <3>1, RetainedNumbers
    <3>3. QED
      BY <1>2, <2>1, <3>2
  <2>4. QED
    BY <2>1, <2>2, <2>3
<1>6. CASE Keeps(s)
  <2>1. warmup'[s] = warmup[s]
    BY <1>4, <1>6 DEF Keeps
  <2>2. /\ object'[s] >= object[s]
        /\ object[s] # 0 => object'[s] = object[s]
    BY <1>1, <1>6 DEF Keeps
  <2>3. /\ tapes'[s].nextSeq >= tapes[s].nextSeq
        /\ tapes'[s].nextSeq - tapes'[s].count >= tapes[s].nextSeq - tapes[s].count
        /\ tapes'[s].generation >= tapes[s].generation
    BY <1>2, <1>6 DEF Keeps
  <2>4. QED
    BY <2>1, <2>2, <2>3
<1>7. QED
  BY <1>3, <1>5, <1>6, StoreMoves

\* Whatever other goroutines do to the store, between any two steps of the handler.
LEMMA StoreCallStreamInv ==
  ASSUME StoreInv, StoreInv', StreamInv, StoreCall PROVE StreamInv'
<1> DEFINE t == tapes[symbol]
<1>1. /\ UNCHANGED <<phase, todo, symbol, seq, generation, lastQuote, drained, shown, connects>>
      /\ reading' = IF phase = "stamp" /\ object'[symbol] = reading.object
                      THEN [reading EXCEPT !.generation = tapes'[symbol].generation]
                    ELSE reading
      /\ DOMAIN warmup' = Symbols
      /\ warmup' = [s \in Symbols |-> warmup'[s]]
  BY DEF StoreCall
<1>2. StreamTypeOK
  BY DEF StreamInv
<1>3. /\ symbol \in Symbols /\ shown.symbol \in Symbols /\ seq \in Nat
      /\ shown.stamp \in Nat /\ generation \in Nat /\ warmup \in [Symbols -> SUBSET Nat]
      /\ shown.numbers \in Seq(Nat)
      /\ reading \in [object : Nat, generation : Nat, numbers : Seq(Nat), quote : Quote]
  BY <1>2 DEF StreamTypeOK
<1>4. /\ tapes \in [Symbols -> Tape] /\ object \in [Symbols -> Nat]
      /\ tapes' \in [Symbols -> Tape] /\ object' \in [Symbols -> Nat]
  BY DEF StoreInv, TypeOK
<1>5. \A s \in Symbols :
        /\ tapes[s].nextSeq \in Nat /\ tapes[s].count \in Nat /\ tapes[s].generation \in Nat
        /\ tapes'[s].nextSeq \in Nat /\ tapes'[s].count \in Nat
        /\ tapes'[s].generation \in Nat
  BY <1>4, TapeFields
<1>6. \A s \in Symbols :
        /\ tapes'[s].nextSeq >= tapes[s].nextSeq
        /\ tapes'[s].nextSeq - tapes'[s].count >= tapes[s].nextSeq - tapes[s].count
        /\ tapes'[s].generation >= tapes[s].generation
        /\ object'[s] >= object[s]
        /\ object[s] # 0 /\ object'[s] # object[s] =>
             tapes'[s].generation > tapes[s].generation
        /\ object[s] # 0 /\ object'[s] = object[s] => warmup'[s] = warmup[s]
        /\ \A w \in warmup'[s] :
             \/ w \in warmup[s]
             \/ w \in Nat /\ w >= tapes[s].nextSeq /\ w < tapes'[s].nextSeq
  BY <1>2, StoreCallMoves
<1>7. \A s \in Symbols : \A w \in warmup[s] : w \in Nat /\ w < tapes[s].nextSeq
  BY <1>3 DEF StreamInv, WarmupIsPast
<1>8. warmup' \in [Symbols -> SUBSET Nat]
  <2>1. \A s \in Symbols : warmup'[s] \in SUBSET Nat
    BY <1>6, <1>7
  <2>2. QED
    BY <1>1, <2>1
<1>9. WarmupIsPast'
  <2> SUFFICES ASSUME NEW s \in Symbols, NEW w \in warmup'[s] PROVE w < tapes'[s].nextSeq
    BY DEF WarmupIsPast
  <2>1. CASE w \in warmup[s]
    BY <1>5, <1>6, <1>7, <2>1
  <2>2. CASE w \notin warmup[s]
    BY <1>6, <2>2
  <2>3. QED
    BY <2>1, <2>2
<1>10. phase # "connect" => object[symbol] # 0 /\ object'[symbol] # 0
  <2>1. phase # "connect" => object[symbol] # 0
    BY DEF StreamInv
  <2>2. object'[symbol] >= object[symbol] /\ object[symbol] \in Nat /\ object'[symbol] \in Nat
    BY <1>3, <1>4, <1>6
  <2>3. QED
    BY <2>1, <2>2
<1>11. StreamTypeOK'
  <2>1. reading' \in [object : Nat, generation : Nat, numbers : Seq(Nat), quote : Quote]
    BY <1>1, <1>3, <1>5
  <2>2. QED
    BY <1>1, <1>2, <1>8, <2>1 DEF StreamTypeOK
<1>12. EveryNumberAccounted'
  BY <1>1 DEF StreamInv, EveryNumberAccounted
\* A position that nothing of a rebuild lies before keeps that as long as its tape is the same.
<1>13. ASSUME phase # "connect", object'[symbol] = object[symbol], NEW last \in Nat,
              Behind(symbol, last)
       PROVE  \A w \in warmup'[symbol] :
                w <= last \/ w < tapes'[symbol].nextSeq - tapes'[symbol].count
  <2> SUFFICES ASSUME NEW w \in warmup'[symbol]
               PROVE  w <= last \/ w < tapes'[symbol].nextSeq - tapes'[symbol].count
    OBVIOUS
  <2>1. w \in warmup[symbol]
    BY <1>3, <1>6, <1>10, <1>13
  <2>2. w \in Nat /\ (w <= last \/ w < tapes[symbol].nextSeq - tapes[symbol].count)
    BY <1>3, <1>7, <1>13, <2>1 DEF Behind
  <2>3. /\ tapes'[symbol].nextSeq - tapes'[symbol].count
             >= tapes[symbol].nextSeq - tapes[symbol].count
        /\ tapes'[symbol].nextSeq - tapes'[symbol].count \in Int
        /\ tapes[symbol].nextSeq - tapes[symbol].count \in Int
    BY <1>3, <1>5, <1>6, SMTT(30)
  <2>4. QED
    BY <2>2, <2>3
<1>14. FollowedGenerationHasNoWarmup'
  <2> SUFFICES ASSUME generation = shown.stamp,
                      NEW i \in shown.hydrated + 1 .. Len(shown.numbers)
               PROVE  shown.numbers[i] \notin warmup'[shown.symbol]
    BY <1>1 DEF FollowedGenerationHasNoWarmup
  <2>1. shown.numbers[i] \notin warmup[shown.symbol]
    BY DEF StreamInv, FollowedGenerationHasNoWarmup
  <2>2. shown.hydrated \in Nat
    BY <1>2 DEF StreamTypeOK
  <2>3. i \in DOMAIN shown.numbers /\ shown.numbers[i] \in Nat
    BY <1>3, <2>2, SMTT(30)
  <2>4. shown.numbers[i] < tapes[shown.symbol].nextSeq
    BY <2>3 DEF StreamInv, ShownIsPast
  <2>5. QED
    BY <1>3, <1>5, <1>6, <2>1, <2>3, <2>4
<1>15. ReadingIsPast'
  <2> SUFFICES ASSUME phase = "stamp" PROVE ReadingIsPast'
    BY <1>1 DEF ReadingIsPast
  <2>1. /\ reading.object <= object[symbol]
        /\ \A i \in DOMAIN reading.numbers :
             /\ reading.numbers[i] = reading.numbers[1] + i - 1
             /\ reading.numbers[i] > 0
             /\ reading.numbers[i] < tapes[symbol].nextSeq
        /\ reading.object < object[symbol] => reading.generation < tapes[symbol].generation
        /\ reading.object = object[symbol] =>
             /\ reading.generation = tapes[symbol].generation
             /\ Behind(symbol, LastOf(reading.numbers))
    BY DEF StreamInv, ReadingIsPast
  <2>2. /\ reading'.object = reading.object /\ reading'.numbers = reading.numbers
        /\ reading'.generation = IF object'[symbol] = reading.object
                                   THEN tapes'[symbol].generation ELSE reading.generation
    BY <1>1, <1>3
  <2>3. /\ object[symbol] \in Nat /\ object'[symbol] \in Nat /\ reading.object \in Nat
        /\ object'[symbol] >= object[symbol] /\ object[symbol] # 0
        /\ reading.generation \in Nat
        /\ t.generation \in Nat /\ tapes'[symbol].generation \in Nat
        /\ tapes'[symbol].generation >= t.generation
        /\ object'[symbol] # object[symbol] => tapes'[symbol].generation > t.generation
    BY <1>3, <1>4, <1>5, <1>6, <1>10
  <2>4. reading.object <= object'[symbol]
    BY <2>1, <2>3
  <2>5. \A i \in DOMAIN reading.numbers : reading.numbers[i] < tapes'[symbol].nextSeq
    <3>1. \A i \in DOMAIN reading.numbers : reading.numbers[i] \in Nat
      BY <1>3
    <3>2. /\ t.nextSeq \in Nat /\ tapes'[symbol].nextSeq \in Nat
          /\ t.nextSeq <= tapes'[symbol].nextSeq
      BY <1>3, <1>5, <1>6
    <3>3. QED
      BY <2>1, <3>1, <3>2
  <2>6. reading.object < object'[symbol] => reading'.generation < tapes'[symbol].generation
    BY <2>1, <2>2, <2>3
  <2>7. reading.object = object'[symbol] =>
          /\ reading'.generation = tapes'[symbol].generation
          /\ \A w \in warmup'[symbol] : \/ w <= LastOf(reading.numbers)
                                        \/ w < tapes'[symbol].nextSeq - tapes'[symbol].count
    <3> SUFFICES ASSUME reading.object = object'[symbol]
                 PROVE  \A w \in warmup'[symbol] :
                          \/ w <= LastOf(reading.numbers)
                          \/ w < tapes'[symbol].nextSeq - tapes'[symbol].count
      BY <2>2
    <3>1. object'[symbol] = object[symbol] /\ Behind(symbol, LastOf(reading.numbers))
      BY <2>1, <2>3
    <3>2. LastOf(reading.numbers) \in Nat
      <4>1. reading.numbers # <<>> =>
              Len(reading.numbers) \in DOMAIN reading.numbers
        BY <1>3
      <4>2. QED
        BY <1>3, <4>1 DEF LastOf
    <3>3. QED
      BY <1>13, <3>1, <3>2
  <2>8. symbol' = symbol
    BY <1>1
  <2>9. QED
    BY <2>1, <2>2, <2>4, <2>5, <2>6, <2>7, <2>8 DEF ReadingIsPast, Behind
<1>16. ShownIsPast'
  <2>1. \A i \in DOMAIN shown.numbers : shown.numbers[i] < tapes'[shown.symbol].nextSeq
    <3>1. \A i \in DOMAIN shown.numbers :
            shown.numbers[i] \in Nat /\ shown.numbers[i] < tapes[shown.symbol].nextSeq
      BY <1>3 DEF StreamInv, ShownIsPast
    <3>2. /\ tapes[shown.symbol].nextSeq \in Nat /\ tapes'[shown.symbol].nextSeq \in Nat
          /\ tapes[shown.symbol].nextSeq <= tapes'[shown.symbol].nextSeq
      BY <1>3, <1>5, <1>6
    <3>3. QED
      BY <3>1, <3>2
  <2>2. QED
    BY <1>1, <2>1 DEF StreamInv, ShownIsPast
<1>17. /\ t.generation \in Nat /\ tapes'[symbol].generation \in Nat
       /\ t.generation <= tapes'[symbol].generation
       /\ object[symbol] # 0 /\ object'[symbol] # object[symbol] =>
            tapes'[symbol].generation > t.generation
  BY <1>3, <1>5, <1>6
<1>18. SnapshotIsFollowed'
  <2> SUFFICES ASSUME phase \in Following PROVE SnapshotIsFollowed'
    BY <1>1 DEF SnapshotIsFollowed
  <2>1. /\ shown.symbol = symbol /\ shown.stamp <= t.generation
        /\ shown.stamp = t.generation => Behind(symbol, seq)
    BY DEF StreamInv, SnapshotIsFollowed
  <2>2. phase # "connect"
    BY DEF Following
  <2>3. shown.stamp <= tapes'[symbol].generation
    BY <1>3, <1>17, <2>1
  <2>4. ASSUME shown.stamp = tapes'[symbol].generation
        PROVE  \A w \in warmup'[symbol] :
                 w <= seq \/ w < tapes'[symbol].nextSeq - tapes'[symbol].count
    <3>1. object'[symbol] = object[symbol] /\ shown.stamp = t.generation
      BY <1>3, <1>10, <1>17, <2>1, <2>2, <2>4
    <3>2. QED
      BY <1>3, <1>13, <2>1, <2>2, <3>1
  <2>5. QED
    BY <1>1, <2>1, <2>3, <2>4 DEF SnapshotIsFollowed, Behind
<1>19. DeltasAreFollowed'
  BY <1>1, <1>3, <1>17, SMTT(30) DEF StreamInv, DeltasAreFollowed
<1>20. QED
  BY <1>1, <1>9, <1>10, <1>11, <1>12, <1>14, <1>15, <1>16, <1>18, <1>19 DEF StreamInv

-----------------------------------------------------------------------------
(* The theorem.                                                              *)

LEMMA NextStreamInv ==
  ASSUME StreamBounds, StoreInv, StoreInv', HistoryIsRecency, StreamInv,
         [StreamNext]_streamVars
  PROVE  StreamInv'
<1>1. CASE UNCHANGED streamVars
  <2>1. /\ UNCHANGED <<vars, phase, todo, symbol, seq, generation, lastQuote, reading, drained,
                       shown, connects, warmup>>
    BY <1>1 DEF streamVars, session
  <2>2. StreamTypeOK' /\ EveryNumberAccounted' /\ FollowedGenerationHasNoWarmup'
    BY <2>1 DEF StreamInv, StreamTypeOK, EveryNumberAccounted, FollowedGenerationHasNoWarmup
  <2>3. tapes' = tapes /\ object' = object
    BY <2>1 DEF vars
  <2>4. ReadingIsPast' /\ SnapshotIsFollowed' /\ DeltasAreFollowed'
    BY <2>1, <2>3 DEF StreamInv, ReadingIsPast, SnapshotIsFollowed, DeltasAreFollowed, Behind
  <2>5. QED
    BY <2>1, <2>2, <2>3, <2>4, PastsStay DEF StreamInv
<1>2. CASE Handler
  BY <1>2, ConnectStreamInv, ReadSnapshotStreamInv, SendSnapshotStreamInv, FinishStreamInv,
     TickStreamInv, CheckStreamInv, DrainStreamInv DEF Handler
<1>3. CASE Reconnect
  BY <1>3, ReconnectStreamInv
<1>4. CASE StoreCall
  BY <1>4, StoreCallStreamInv
<1>5. QED
  BY <1>1, <1>2, <1>3, <1>4 DEF StreamNext

\* The stream leaves the store to the store's own steps.
LEMMA StreamMovesStore == [StreamNext]_streamVars => [Next]_vars
  BY DEF StreamNext, streamVars, Handler, Connect, ReadSnapshot, SendSnapshot, Finish, Tick,
         Check, Drain, Reconnect, StoreCall

LEMMA StreamIsExact == StreamInv => StreamExact
<1> SUFFICES ASSUME StreamInv PROVE StreamExact
  OBVIOUS
<1>1. \A g, h \in shown.sources : g = h
  BY DEF StreamInv, ShownIsPast
<1>2. DeltasOfOneGeneration
  <2>1. CASE shown.sources = {}
    BY <2>1, FS_EmptySet DEF DeltasOfOneGeneration
  <2>2. CASE shown.sources # {}
    <3>1. PICK g \in shown.sources : TRUE
      BY <2>2
    <3>2. shown.sources = {g}
      BY <1>1, <3>1
    <3>3. Cardinality({g}) = 1
      BY FS_Singleton
    <3>4. QED
      BY <3>2, <3>3 DEF DeltasOfOneGeneration
  <2>3. QED
    BY <2>1, <2>2
<1>3. QED
  BY <1>2 DEF StreamInv, StreamExact

\* However other goroutines' store calls fall between the handler's, however often the
\* connection is lost, and for every ring, snapshot and batch size: what the browser is
\* given accounts for every number after its snapshot, its incremental prints are of one
\* generation, and none of them is a print a rebuild was published with while the handler
\* follows the generation of its snapshot (handleWebSocket, Store.Since).
THEOREM StreamStaysExact == ASSUME StreamBounds PROVE StreamSpec => []StreamExact
<1>1. StreamInit => Init /\ StreamInv
  BY InitStreamInv DEF StreamInit
<1>2. [StreamNext]_streamVars => [Next]_vars
  BY StreamMovesStore
<1>3. StoreInv /\ StoreInv' /\ HistoryIsRecency /\ StreamInv /\ [StreamNext]_streamVars
        => StreamInv'
  BY NextStreamInv
<1>4. StreamSpec => Spec
  BY <1>1, <1>2, PTL DEF StreamSpec, Spec
<1>5. StreamSpec => []StreamInv
  BY <1>1, <1>3, <1>4, StoreInvHolds, HistoryStaysRecency, PTL DEF StreamSpec
<1>6. QED
  BY <1>5, StreamIsExact, PTL

=============================================================================
