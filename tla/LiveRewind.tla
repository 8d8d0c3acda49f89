----------------------------- MODULE LiveRewind -----------------------------
(***************************************************************************)
(* Live Rewind: the browser keeps the prints it was given in a bounded buffer   *)
(* (web/tape-rewind.js), and fills the holes that a lagging connection left      *)
(* from /api/tape/range (handleTapeRange of server.go), which answers from the   *)
(* ring in memory and, below it, from what the Recorder has stored.           *)
(*                                                                         *)
(* The feed prints, the recorder writes, the stream delivers, the operator      *)
(* changes the symbol and the process restarts while a backfill is on its way.   *)
(* The ring is given by the numbers it retains; TapeStore has its arithmetic.   *)
(***************************************************************************)
EXTENDS Recorder, Orders, SequencesExt, FiniteSetsExt

CONSTANTS Symbols, NoSymbol,
          RingSize,         \* prints the server retains of a symbol
          MaxBatch,         \* WebSocketMaxBatch, the bound of one answer
          SnapshotTrades,   \* prints of a snapshot
          Capacity,         \* events the buffer has columns for (at least 1024)
          BufferSpan,       \* bufferUS, in units of receipt time
          MaxGaps,          \* 64 in noteGap
          MaxPages,         \* 32 in ensure
          Rewinds,          \* backfills that may be in progress at once
          MaxPrints,        \* bound: prints in one behaviour
          MaxRuns           \* bound: starts of the server

ASSUME LiveRewindAssumption ==
  /\ NoSymbol \notin Symbols
  /\ {RingSize, MaxBatch, SnapshotTrades, BufferSpan, MaxGaps, MaxPages} \subseteq Nat \ {0}
  /\ Capacity \in Nat \ {0, 1} /\ MaxPrints \in Nat /\ MaxRuns \in Nat \ {0}

VARIABLES run,          \* which start of the server this is
          printed,      \* prints of all runs: the receipt clock
          tape,         \* all prints of this run, by symbol; number n is at place n
          active,       \* the active symbol
          stream,       \* the connection: is it up, its symbol, run and last number
          buffer,       \* the browser's RewindBuffer
          unfillable,   \* holes that are not asked for again
          backfill      \* ensure calls in progress

rewindVars == <<run, printed, tape, active, stream, buffer, unfillable, backfill>>
vars == <<recorderVars, rewindVars>>

Trade == [symbol : Symbols, run : 1 .. MaxRuns, seq : 1 .. MaxPrints, at : 1 .. MaxPrints]
Event == [symbol : Symbols, run : 1 .. MaxRuns, seq : 1 .. MaxPrints, at : 1 .. MaxPrints,
          volume : Nat]
Hole == (Nat \ {0}) \X Nat

Size(p) == p.seq   \* the size of a print; any two differ

-----------------------------------------------------------------------------
(* RewindBuffer: events in order, the count of prints at the head, the totals    *)
(* before the head, and the holes.                                          *)

NoBase == [volume |-> 0, prints |-> 0]
NewBuffer == [events |-> <<>>, printsAtHead |-> 1, base |-> NoBase, gaps |-> <<>>]

\* reset: pendingBase is not among what it clears.
Reset(b) == [b EXCEPT !.events = <<>>, !.printsAtHead = 1, !.gaps = <<>>]

\* evictOldest, k times.
Evicted(b, k) ==
  IF k = 0 THEN b
  ELSE LET newest == b.events[k]   \* of those that go
       IN [b EXCEPT !.events = SubSeq(@, k + 1, Len(@)), !.printsAtHead = @ + k,
                    !.base = [volume |-> newest.volume, prints |-> b.printsAtHead + k - 1],
                    !.gaps = Filtered(@, {n \in DOMAIN @ : @[n][2] > newest.seq})]

\* evictExpired: the oldest events as long as they are older than the span before the
\* newest receipt.
Expired(b, newest) ==
  LET Old(n) == b.events[n].at + BufferSpan < newest
  IN Evicted(b, Max({k \in 0 .. Len(b.events) : \A n \in 1 .. k : Old(n)}))

\* noteGap: a hole that touches the last one extends it; the oldest are forgotten.
Noted(gaps, from, to) ==
  IF gaps # <<>> /\ Last(gaps)[2] + 1 = from
  THEN [gaps EXCEPT ![Len(gaps)] = <<@[1], to>>]
  ELSE LET all == Append(gaps, <<from, to>>)
       IN SubSeq(all, Max({1, Len(all) - MaxGaps + 1}), Len(all))

Skips_LateGap(last, p) == p.seq > last + 2
Skips(last, p) == p.seq > last + 1

Room(b) == IF Len(b.events) = Capacity THEN Evicted(b, 1) ELSE b

\* push: numbers only grow; a jump is a hole; the prefix total goes on.
Pushed(b, p) ==
  LET last == IF b.events = <<>> THEN p.seq - 1 ELSE Last(b.events).seq
      room == Room(IF Skips(last, p) THEN [b EXCEPT !.gaps = Noted(@, last + 1, p.seq - 1)] ELSE b)
      before == IF room.events = <<>> THEN room.base.volume ELSE Last(room.events).volume
      event == [symbol |-> p.symbol, run |-> p.run, seq |-> p.seq, at |-> p.at,
                volume |-> before + Size(p)]
  IN IF p.seq <= last THEN b
     ELSE Expired([room EXCEPT !.events = Append(@, event)], p.at)

PushedAll(b, prints) ==
  LET upto[n \in 0 .. Len(prints)] ==
        IF n = 0 THEN b ELSE Pushed(upto[n - 1], prints[n])
  IN upto[Len(prints)]

\* Of a number, what the buffer has, or else the first that came with it.
Numbered(b, incoming, n) ==
  LET first == CHOOSE i \in DOMAIN incoming :
                 incoming[i].seq = n /\ \A j \in 1 .. i - 1 : incoming[j].seq # n
  IN IF \E e \in ToSet(b.events) : e.seq = n
     THEN CHOOSE e \in ToSet(b.events) : e.seq = n ELSE incoming[first]

\* merge: the buffer is rebuilt from what it has and what it was short of.
Merge(b, incoming) ==
  LET numbers == {p.seq : p \in ToSet(b.events) \cup ToSet(incoming)}
      place == Ascending(numbers)
      merged == [n \in DOMAIN place |-> Numbered(b, incoming, place[n])]
      filled == Len(merged) - Len(b.events)
      head == Max({1, b.printsAtHead - filled})
      emptied == [Reset(b) EXCEPT !.printsAtHead = head,
                                  !.base = [volume |-> b.base.volume, prints |-> head - 1]]
  IN PushedAll(emptied, merged)

GapsBetween(b, from, to) ==
  LET over == Filtered(b.gaps, {n \in DOMAIN b.gaps : b.gaps[n][2] >= from /\ b.gaps[n][1] <= to})
  IN [n \in DOMAIN over |-> <<Max({over[n][1], from}), Min({over[n][2], to})>>]

-----------------------------------------------------------------------------
(* The server's answer to a range of numbers. *)

Oldest(s) == IF tape[s] = <<>> THEN 0 ELSE Max({1, Len(tape[s]) - RingSize + 1})
Resident(s, from, to) == SubSeq(tape[s], Max({1, from, Oldest(s)}), Min({to, Len(tape[s])}))
Limited(trades, limit) == SubSeq(trades, 1, Min({limit, Len(trades)}))

\* A backfill: the holes left with the one being filled at the head, the place in
\* it, what its pages have brought, and the request or answer on its way.
Idle == [step |-> "idle", holes |-> <<>>, cursor |-> 0, page |-> 0, collected |-> <<>>,
         symbol |-> NoSymbol, run |-> 0, found |-> <<>>, oldest |-> 0,
         complete |-> FALSE, next |-> 0]

\* The range of one answer is bounded by the batch.
Upto(e) == Min({Head(e.holes)[2], e.cursor + MaxBatch - 1})

\* How many trades lead without a jump.
Leading(trades) ==
  Max({k \in 0 .. Len(trades) : \A n \in 2 .. k : trades[n].seq = trades[n - 1].seq + 1})

Answered(e, trades) ==
  LET contiguous == Leading(trades) = Len(trades)
      last == IF trades = <<>> THEN 0 ELSE trades[Leading(trades)].seq
      complete == trades # <<>> /\ contiguous /\ trades[1].seq = e.cursor
                  /\ last >= Head(e.holes)[2]
  IN [e EXCEPT !.step = "answered", !.run = run, !.found = trades, !.complete = complete,
               !.next = IF complete THEN 0
                        ELSE IF last >= e.cursor /\ contiguous THEN last + 1 ELSE e.cursor]

OfThisRun_All(p) == p \in ToSet(stored)
OfThisRun(p) == p.run = run

\* TradesByRingSeq: the rows of this run, below what the ring retained, by number.
StoredRows(e) ==
  LET rows == {n \in DOMAIN stored :
                 /\ OfThisRun(stored[n]) /\ stored[n].symbol = e.symbol
                 /\ e.cursor <= stored[n].seq /\ stored[n].seq <= Min({e.oldest - 1, Upto(e)})}
      before == {p \in rows \X rows :
                   \/ stored[p[1]].seq < stored[p[2]].seq
                   \/ stored[p[1]].seq = stored[p[2]].seq /\ p[1] < p[2]}
  IN Limited(Entries(stored, InOrder(rows, before)), MaxBatch)

Serving == writer = "open"

\* handleTapeRange reads the ring, once; what is below it is asked of the recording.
FromRing(e) ==
  LET part == Resident(e.symbol, e.cursor, Upto(e))
      oldest == Oldest(e.symbol)
  IN IF oldest > e.cursor THEN [e EXCEPT !.step = "query", !.found = part, !.oldest = oldest]
     ELSE Answered(e, part)

FromRecording(e) == Answered(e, Limited(StoredRows(e) \o e.found, MaxBatch))

ReadRing(b) ==
  /\ Serving /\ backfill[b].step = "asked"
  /\ backfill' = [backfill EXCEPT ![b] = FromRing(@)]
  /\ UNCHANGED <<recorderVars, run, printed, tape, active, stream, buffer, unfillable>>

ReadStored(b) ==
  /\ Serving /\ backfill[b].step = "query"
  /\ backfill' = [backfill EXCEPT ![b] = FromRecording(@)]
  /\ UNCHANGED <<recorderVars, run, printed, tape, active, stream, buffer, unfillable>>

-----------------------------------------------------------------------------
(* The browser. *)

Fillable(holes, refused) == Filtered(holes, {n \in DOMAIN holes : holes[n] \notin refused})

\* The first page of the first hole, of the symbol on screen; or ensure returns.
Asking(holes) ==
  IF holes = <<>> THEN Idle
  ELSE [Idle EXCEPT !.step = "asked", !.holes = holes, !.cursor = Head(holes)[1],
                    !.symbol = stream.symbol]

\* seekRewind and ensure: from the buffered print before the window to the target.
Rewind(b) ==
  /\ backfill[b].step = "idle"
  /\ \E from, to \in {e.seq : e \in ToSet(buffer.events)} :
       LET holes == Fillable(GapsBetween(buffer, from, to), unfillable)
       IN /\ from <= to /\ holes # <<>>
          /\ backfill' = [backfill EXCEPT ![b] = Asking(holes)]
  /\ UNCHANGED <<recorderVars, run, printed, tape, active, stream, buffer, unfillable>>

\* An answer arrives: another page is asked for, or the hole is done with. Then
\* what it brought is merged, or it is not asked for again.
Receive(b) ==
  LET e == backfill[b]
      hole == Head(e.holes)
      collected == e.collected \o e.found
      more == /\ e.found # <<>> /\ ~e.complete /\ e.next > e.cursor /\ e.next <= hole[2]
              /\ e.page + 1 < MaxPages
  IN /\ e.step = "answered"
     /\ IF more
        THEN /\ backfill' = [backfill EXCEPT ![b] =
                  [Asking(e.holes) EXCEPT !.cursor = e.next, !.page = e.page + 1,
                                          !.collected = collected]]
             /\ UNCHANGED <<buffer, unfillable>>
        ELSE /\ unfillable' = IF collected = <<>> THEN unfillable \cup {hole} ELSE unfillable
             /\ buffer' = IF collected = <<>> THEN buffer ELSE Merge(buffer, collected)
             /\ backfill' = [backfill EXCEPT ![b] = Asking(Fillable(Tail(e.holes), unfillable'))]
     /\ UNCHANGED <<recorderVars, run, printed, tape, active, stream>>

\* The request is refused, lost or timed out: ensure rejects.
FetchFails(b) ==
  /\ backfill[b].step \in {"asked", "query"}
  /\ backfill' = [backfill EXCEPT ![b] = Idle]
  /\ UNCHANGED <<recorderVars, run, printed, tape, active, stream, buffer, unfillable>>

\* A print of the stream: the next number the ring still has.
Deliver ==
  LET s == stream.symbol
      next == Max({stream.seq + 1, Oldest(s)})
  IN /\ Serving /\ stream.up /\ s = active /\ next \in DOMAIN tape[s]
     /\ buffer' = Pushed(buffer, tape[s][next])
     /\ stream' = [stream EXCEPT !.seq = next]
     /\ UNCHANGED <<recorderVars, run, printed, tape, active, unfillable, backfill>>

\* A connection, or another symbol: a snapshot, and the buffer starts over.
Snapshot ==
  LET newest == Len(tape[active])
      trades == Resident(active, newest - SnapshotTrades + 1, newest)
  IN /\ Serving /\ (~stream.up \/ stream.symbol # active)
     /\ stream' = [up |-> TRUE, symbol |-> active, run |-> run, seq |-> newest]
     /\ buffer' = PushedAll(Reset(buffer), trades)
     /\ UNCHANGED <<recorderVars, run, printed, tape, active, unfillable, backfill>>

Disconnect ==
  /\ stream.up
  /\ stream' = [stream EXCEPT !.up = FALSE]
  /\ UNCHANGED <<recorderVars, run, printed, tape, active, buffer, unfillable, backfill>>

-----------------------------------------------------------------------------
(* The feed, the operator and the process. *)

\* AddTrade and RecordTrade.
Feed(s) ==
  LET p == [symbol |-> s, run |-> run, seq |-> Len(tape[s]) + 1, at |-> printed + 1]
  IN /\ printed < MaxPrints
     /\ tape' = [tape EXCEPT ![s] = Append(@, p)]
     /\ printed' = printed + 1
     /\ Record(p)
     /\ UNCHANGED <<run, active, stream, buffer, unfillable, backfill>>

Activate(s) ==
  /\ Serving /\ s # active /\ active' = s
  /\ UNCHANGED <<recorderVars, run, printed, tape, stream, buffer, unfillable, backfill>>

Unanswered == [b \in Rewinds |-> IF backfill[b].step \in {"asked", "query"} THEN Idle
                                 ELSE backfill[b]]

\* The server stops serving, then closes the recorder.
Shutdown ==
  /\ CloseQueue
  /\ stream' = [stream EXCEPT !.up = FALSE] /\ backfill' = Unanswered
  /\ UNCHANGED <<run, printed, tape, active, buffer, unfillable>>

\* A start, after a shutdown or a crash. A feed that records after Close panics,
\* which is a crash.
Restart ==
  /\ run < MaxRuns /\ run' = run + 1
  /\ RecorderRestarts
  /\ tape' = [s \in Symbols |-> <<>>] /\ active' \in Symbols
  /\ stream' = [stream EXCEPT !.up = FALSE] /\ backfill' = Unanswered
  /\ UNCHANGED <<printed, buffer, unfillable>>

RewindInit ==
  /\ RecorderInit
  /\ run = 1 /\ printed = 0 /\ tape = [s \in Symbols |-> <<>>] /\ active \in Symbols
  /\ stream = [up |-> FALSE, symbol |-> NoSymbol, run |-> 0, seq |-> 0]
  /\ buffer = NewBuffer /\ unfillable = {} /\ backfill = [b \in Rewinds |-> Idle]

Answering(b) == ReadRing(b) \/ ReadStored(b) \/ Receive(b)

RewindNext ==
  \/ \E s \in Symbols : Feed(s) \/ Activate(s)
  \/ WriterStep /\ UNCHANGED rewindVars
  \/ \E b \in Rewinds : Rewind(b) \/ Answering(b) \/ FetchFails(b)
  \/ Deliver \/ Snapshot \/ Disconnect \/ Shutdown \/ Restart

RewindSpec == RewindInit /\ [][RewindNext]_vars

-----------------------------------------------------------------------------
(* Properties. *)

\* Type invariant of the recorder, the browser's buffer and the backfills.
LiveRewindTypeOK ==
  /\ {queue, items, stored} \subseteq Seq(Trade)
  /\ Len(queue) <= QueueSize /\ Len(items) < RecordBatch /\ dropped \in Nat
  /\ writer \in {"open", "closing", "stopped"}
  /\ run \in 1 .. MaxRuns /\ printed \in 0 .. MaxPrints /\ active \in Symbols
  /\ tape \in [Symbols -> Seq(Trade)]
  /\ stream \in [up : BOOLEAN, symbol : Symbols \cup {NoSymbol}, run : 0 .. MaxRuns,
                 seq : 0 .. MaxPrints]
  /\ buffer.events \in Seq(Event) /\ Len(buffer.events) <= Capacity
  /\ buffer.gaps \in Seq(Hole) /\ Len(buffer.gaps) <= MaxGaps
  /\ buffer.printsAtHead \in Nat \ {0} /\ buffer.base \in [volume : Nat, prints : Nat]
  /\ unfillable \subseteq Hole
  /\ \A b \in Rewinds : LET e == backfill[b]
       IN /\ e.step \in {"idle", "asked", "query", "answered"}
          /\ e.holes \in Seq(Hole) /\ {e.collected, e.found} \subseteq Seq(Trade)
          /\ e.step # "idle" => e.symbol \in Symbols /\ e.page < MaxPages /\ e.holes # <<>>

\* Every print of the run is stored once, waits to be, or is counted as dropped, as
\* the tape has it and in the order of receipt; a recorder that closed has nothing
\* left to store.
Received == UNION {{s} \X DOMAIN tape[s] : s \in Symbols}

RecorderAccounts ==
  LET kept == stored \o items \o queue
      ofRun == {n \in DOMAIN kept : kept[n].run = run}
  IN /\ Cardinality(ofRun) + dropped = Cardinality(Received)
     /\ \A n \in ofRun : LET p == kept[n]
          IN p.seq \in DOMAIN tape[p.symbol] /\ p = tape[p.symbol][p.seq]
     /\ \A m, n \in ofRun : m < n => kept[m].at < kept[n].at
     /\ writer = "stopped" => items = <<>> /\ queue = <<>>

\* An answer, on its way or to any range that the browser could ask for now, has
\* prints of the symbol asked for and of the run that answers, in order and none
\* twice, although the ring moves on and rows come late between the two reads; one
\* that says it is complete has the whole range from its cursor on; one that is not
\* continues no later than after what it served.
AnswerIsTrue(e) ==
  /\ \A n \in DOMAIN e.found : /\ e.found[n].symbol = e.symbol /\ e.found[n].run = e.run
                               /\ e.cursor <= e.found[n].seq /\ e.found[n].seq <= Upto(e)
                               /\ n > 1 => e.found[n - 1].seq < e.found[n].seq
  /\ e.complete => {p.seq : p \in ToSet(e.found)} = e.cursor .. Head(e.holes)[2]
  /\ ~e.complete => e.next <= Max({e.cursor} \cup {p.seq + 1 : p \in ToSet(e.found)})

RequestOf(s, from, to) == [Idle EXCEPT !.holes = <<<<from, to>>>>, !.cursor = from, !.symbol = s]

AnswersAreTrue ==
  \A b \in Rewinds :
    /\ backfill[b].step = "answered" => AnswerIsTrue(backfill[b])
    /\ backfill[b].step = "idle" /\ Serving /\ stream.up =>
         \A to \in 1 .. Len(tape[stream.symbol]) + 1 : \A from \in 1 .. to :
           LET read == FromRing(RequestOf(stream.symbol, from, to))
           IN AnswerIsTrue(IF read.step = "query" THEN FromRecording(read) ELSE read)

\* What the server says about the past is true: the recorder's books balance and every
\* answer to a backfill is honest about what it has.
RecordIsHonest == LiveRewindTypeOK /\ RecorderAccounts /\ AnswersAreTrue

\* The browser knows what it lacks: the numbers between the oldest and the newest
\* retained print that are missing are the recorded holes, through deliveries that
\* jump, evictions, partial backfills and snapshots. Holes older than the MaxGaps
\* newest ones are forgotten.
HolesAreKnown ==
  LET events == buffer.events
      gaps == buffer.gaps
      floor == IF Len(gaps) < MaxGaps THEN events[1].seq
               ELSE Max({events[1].seq, gaps[1][1]})
      span == floor .. Last(events).seq
  IN events # <<>> =>
       /\ \A n \in 2 .. Len(events) : events[n - 1].seq < events[n].seq
       /\ span \ {e.seq : e \in ToSet(events)}
            = span \cap UNION {g[1] .. g[2] : g \in ToSet(gaps)}

TotalSize(prints) ==
  LET upto[n \in 0 .. Len(prints)] == IF n = 0 THEN 0 ELSE upto[n - 1] + Size(prints[n])
  IN upto[Len(prints)]

\* The volume of any window, a difference of two prefix totals, is the sum of the
\* sizes of the prints in it, whatever was evicted, merged or reset before.
VolumesExact ==
  LET events == buffer.events
      Before(i) == IF i = 1 THEN buffer.base.volume ELSE events[i - 1].volume
  IN \A i \in DOMAIN events : \A j \in i .. Len(events) :
       events[j].volume = Before(i) + TotalSize(SubSeq(events, i, j))

\* What the browser says about the past is true: its holes and its totals.
BufferIsExact == HolesAreKnown /\ VolumesExact

\* app.js:518: rewind history does not continue across a snapshot. What is in the
\* buffer is of the symbol and the run that the stream is of.
OneStreamOnly ==
  \A e \in ToSet(buffer.events) : e.symbol = stream.symbol /\ e.run = stream.run
=============================================================================
