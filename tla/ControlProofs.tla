----------------------------- MODULE ControlProofs -----------------------------
(***************************************************************************)
(* Theorems about the replay and about the external control that drives it, for   *)
(* every recording, every set of instants and any number of generations, for every *)
(* set of sessions, whatever they send, and however their requests are delayed,   *)
(* repeated and interleaved with the operator's actions and the playback.        *)
(*                                                                         *)
(* The first part is about Replay alone, which ExternalControl extends.  It rests  *)
(* on what a generation means.  A goroutine that has not been cancelled is of the  *)
(* newest generation and r.cancel is its own (AliveIsCurrent); every operation    *)
(* that supersedes it counts the generation up, so that the goroutine of the new   *)
(* one is not there yet; and so nothing plays, and nothing is written to a tape,   *)
(* while a cue reads (CueIsQuiet).                                           *)
(*                                                                         *)
(* In the second part OwnersInOrder is about the lock alone: a handler that was    *)
(* admitted keeps it until its answer, so nobody else becomes the owner meanwhile  *)
(* (ServesOwner).  OwnershipStaysTrue and DriftsAbsorbedExactly also need the      *)
(* replay: what it plays under a request (ReplaySound), and how the fields of the  *)
(* control follow it while a handler is half-way through (HoldsInv, one conjunct   *)
(* for each thing a handler may be in the middle of).                         *)
(***************************************************************************)
EXTENDS ExternalControl, FiniteSetTheorems, TLAPS

PlayFields == {"phase", "cancelled", "symbol", "rows"}
CueFields == {"op", "step", "generation", "request", "warmup", "target", "playing", "base"}

\* Generations are counted, and a goroutine is of one that has been reached.
PlaysTyped ==
  /\ generation \in 0 .. MaxGeneration
  /\ DOMAIN plays = 1 .. MaxGeneration
  /\ \A g \in 1 .. MaxGeneration :
       /\ DOMAIN plays[g] = PlayFields
       /\ plays[g].phase # "none" => g <= generation
  /\ DOMAIN state = {"state", "symbol", "position", "generation"}

\* The operation in flight has its fields, and generations left for its launch.
ControlTyped ==
  \/ control.op = "idle"
  \/ control.op = "launch" /\ generation < MaxGeneration
  \/ /\ control.op = "cue" /\ DOMAIN control = CueFields
     /\ control.playing => generation < MaxGeneration

\* No goroutine is of the generation of a cue, and once it has looked at the tape the
\* tape stays.
CueIsQuiet ==
  control.op = "cue" =>
    /\ control.generation = generation
    /\ generation > 0 /\ plays[generation].phase = "none"
    /\ control.step = "read" => control.base = tape[control.request.symbol]

AliveIsCurrent ==
  \A g \in 1 .. MaxGeneration : Alive(g) => g = generation /\ cancel = g

ReplayInv == PlaysTyped /\ ControlTyped /\ CueIsQuiet /\ StatusIsTruthful

\* The operations, for every instant that anybody may ask for.
Instants == Nat \ {0}

Operates ==
  \/ \E s \in Symbols, start, end \in Instants : Start(s, start, end)
  \/ \E target \in Instants : SeekTo(target)
  \/ Resume \/ Pause \/ Stop
  \/ \E s \in Symbols, target \in Instants : Track(s, target)
  \/ \E s \in Symbols : SetSymbol(s)
  \/ \E s \in Symbols, warmup, target, end \in Instants, playing, asked \in BOOLEAN :
       Cue(s, warmup, target, end, playing, asked)

ReplayMoves == Play \/ Operates \/ GoOn

LEMMA NextMoves == ReplayNext => ReplayMoves
<1>1. Times \subseteq Instants
  BY ReplayAssumption DEF Instants
<1>2. QED
  BY <1>1 DEF ReplayNext, ReplayMoves, Operate, Operates

-----------------------------------------------------------------------------
(* What is on the tape, what is left to play, and who plays it.              *)

\* Requests, cues and launches carry instants that somebody asked for.
OperationTyped ==
  /\ control.op = "launch" =>
       /\ control.request \in Request /\ control.request.end > 0
       /\ control.from \in Instants /\ control.cursor \in Cursors
       /\ control.fresh \in BOOLEAN
       /\ control.fresh => control.cursor = NoCursor
  /\ control.op = "cue" =>
       /\ control.request \in Request /\ control.request.end > 0
       /\ control.warmup \in Instants /\ control.target \in Instants
       /\ control.warmup <= control.target

BeganTyped ==
  /\ DOMAIN began = Symbols
  /\ \A s \in Symbols :
       began[s].from \in Nat /\ began[s].after \in Cursors /\ began[s].mark \in Nat

\* Before the first request nothing has been played.
RequestLaunched ==
  /\ request = NoRequest =>
       /\ \A g \in 1 .. MaxGeneration : plays[g].phase = "none"
       /\ state.state \in {"ready", "stopped"}
  /\ request # NoRequest => request \in Request /\ request.end > 0 /\ resumeUS > 0

\* What is left to play, from an instant on and after a cursor.
Remaining(req, from, cur) == {e \in Window(req.symbol, from, req.end) : After(e, cur)}

\* The goroutine of the newest generation has exactly what is left of the request; one
\* that is to go on finds nobody playing.
GoroutineFollows ==
  /\ generation > 0 /\ plays[generation].phase = "reading" =>
       /\ request # NoRequest
       /\ ~plays[generation].cancelled
       /\ plays[generation].symbol = request.symbol
       /\ plays[generation].rows = Ordered(Remaining(request, resumeUS, cursor))
  /\ control.op = "launch" /\ ~control.fresh =>
       /\ request # NoRequest
       /\ control.request = request /\ control.from = resumeUS /\ control.cursor = cursor
       /\ generation > 0 => plays[generation].phase # "reading"

\* The events that Slice puts in order.
Played(s, from, after, upto) ==
  {e \in Eligible(Recording[s]) : /\ upto.valid
                                  /\ e.us >= from /\ After(e, after) /\ ~After(e, upto)}

\* Since tape[s] began as b, it has what there is up to the cursor; what the cursor has
\* passed is what the clock has passed.
Continues(content, s, b, cur, clock) ==
  /\ b.mark <= Len(content)
  /\ SubSeq(content, b.mark + 1, Len(content)) = Ordered(Played(s, b.from, b.after, cur))
  /\ b.from <= clock
  /\ \A e \in Recording[s] :
       After(e, cur) => After(e, b.after) /\ (e.us >= b.from => e.us >= clock)

\* Unless the tape has been cleared for a launch that is still to come.
TapeContinues ==
  request # NoRequest /\ ~(control.op = "launch" /\ control.fresh) =>
    Continues(tape[request.symbol], request.symbol, began[request.symbol], cursor, resumeUS)

ExactInv ==
  ReplayTypeOK /\ OperationTyped /\ BeganTyped /\ RequestLaunched /\ GoroutineFollows /\ TapeContinues

-----------------------------------------------------------------------------
(* The order of the recorded events.                                         *)

Preceding(events, e) == {f \in events : RowBefore(f, e)}
Rank(events, e) == Cardinality(Preceding(events, e))

LEMMA RecordedEvents ==
  ASSUME NEW s \in Symbols
  PROVE  /\ Recording[s] \subseteq Event /\ IsFiniteSet(Recording[s])
         /\ \A e \in Recording[s] :
              e.us \in Nat \ {0} /\ e.kind \in {"quote", "trade"} /\ e.id \in Nat
         /\ \A e, f \in Recording[s] :
              e.us = f.us /\ e.kind = f.kind /\ e.id = f.id => e = f
  BY ReplayAssumption DEF Event

\* ORDER BY is a strict total order of a symbol's events.
LEMMA RowsAreOrdered ==
  ASSUME NEW s \in Symbols, NEW a \in Recording[s], NEW b \in Recording[s]
  PROVE  /\ ~RowBefore(a, a)
         /\ RowBefore(a, b) => ~RowBefore(b, a) /\ a # b
         /\ a = b \/ RowBefore(a, b) \/ RowBefore(b, a)
         /\ \A c \in Recording[s] : RowBefore(a, b) /\ RowBefore(b, c) => RowBefore(a, c)
  BY RecordedEvents DEF RowBefore, KindRank

\* compareEvent is that order.
LEMMA AfterIsLater ==
  ASSUME NEW s \in Symbols, NEW a \in Recording[s], NEW b \in Recording[s]
  PROVE  After(b, CursorAt(a)) <=> RowBefore(a, b)
  BY RecordedEvents DEF RowBefore, After, CursorAt, KindRank

\* A later event has more before it.
LEMMA LaterHasMoreBefore ==
  ASSUME NEW s \in Symbols, NEW events \in SUBSET Recording[s]
  PROVE  /\ IsFiniteSet(events) /\ Cardinality(events) \in Nat
         /\ \A e \in events : Rank(events, e) \in 0 .. Cardinality(events) - 1
         /\ \A e, f \in events : RowBefore(e, f) => Rank(events, e) < Rank(events, f)
<1>1. IsFiniteSet(events) /\ Cardinality(events) \in Nat
  BY RecordedEvents, FS_Subset, FS_CardinalityType
<1>2. ASSUME NEW S \in SUBSET events, NEW T \in SUBSET events, S \subseteq T, S # T
      PROVE  Cardinality(S) \in Nat /\ Cardinality(T) \in Nat /\ Cardinality(S) < Cardinality(T)
  <2>1. IsFiniteSet(S) /\ IsFiniteSet(T)
    BY <1>1, FS_Subset
  <2>2. Cardinality(S) \in Nat /\ Cardinality(T) \in Nat
    BY <2>1, FS_CardinalityType
  <2>3. Cardinality(S) <= Cardinality(T) /\ Cardinality(S) # Cardinality(T)
    BY <1>2, <2>1, FS_Subset
  <2>4. QED
    BY <2>2, <2>3
<1>3. ASSUME NEW e \in events
      PROVE  Rank(events, e) \in 0 .. Cardinality(events) - 1
  <2>1. e \notin Preceding(events, e)
    BY RowsAreOrdered DEF Preceding
  <2>2. Preceding(events, e) \subseteq events /\ Preceding(events, e) # events
    BY <2>1 DEF Preceding
  <2>3. Rank(events, e) \in Nat /\ Rank(events, e) < Cardinality(events)
    BY <1>2, <2>2 DEF Rank
  <2>4. QED
    BY <1>1, <2>3
<1>4. ASSUME NEW e \in events, NEW f \in events, RowBefore(e, f)
      PROVE  Rank(events, e) < Rank(events, f)
  <2>1. Preceding(events, e) \subseteq Preceding(events, f)
    BY <1>4, RowsAreOrdered DEF Preceding
  <2>2. e \in Preceding(events, f) /\ e \notin Preceding(events, e)
    BY <1>4, RowsAreOrdered DEF Preceding
  <2>3. Preceding(events, e) \in SUBSET events /\ Preceding(events, f) \in SUBSET events
    BY DEF Preceding
  <2>4. QED
    BY <1>2, <2>1, <2>2, <2>3 DEF Rank
<1>5. QED
  BY <1>1, <1>3, <1>4

\* The number before it tells one event from every other.
LEMMA RanksDiffer ==
  ASSUME NEW s \in Symbols, NEW events \in SUBSET Recording[s],
         NEW e \in events, NEW f \in events, Rank(events, e) = Rank(events, f)
  PROVE  e = f
<1> DEFINE r(x) == Rank(events, x)
<1>1. /\ r(e) \in 0 .. Cardinality(events) - 1
      /\ RowBefore(e, f) => r(e) < r(f)
      /\ RowBefore(f, e) => r(f) < r(e)
  BY LaterHasMoreBefore
<1> HIDE DEF r
<1>2. ~RowBefore(e, f) /\ ~RowBefore(f, e)
  <2>1. r(e) = r(f) /\ r(e) \in Int
    BY <1>1 DEF r
  <2>2. QED
    BY <1>1, <2>1
<1>3. QED
  BY <1>2, RowsAreOrdered

\* Every place is taken: as many events, no two in one place.
LEMMA EveryRankIsTaken ==
  ASSUME NEW s \in Symbols, NEW events \in SUBSET Recording[s],
         NEW k \in 0 .. Cardinality(events) - 1
  PROVE  \E e \in events : Rank(events, e) = k
<1> DEFINE n == Cardinality(events)
           places == 0 .. n - 1
           place == [e \in events |-> Rank(events, e)]
<1>1. n \in Nat /\ IsFiniteSet(events)
  BY LaterHasMoreBefore
<1>2. place \in Injection(events, places)
  <2>1. place \in [events -> places]
    BY LaterHasMoreBefore
  <2>2. \A e, f \in events : place[e] = place[f] => e = f
    BY RanksDiffer
  <2>3. QED
    BY <2>1, <2>2 DEF Injection, IsInjective
<1>3. IsFiniteSet(places) /\ Cardinality(places) = n
  <2>1. 0 \in Int /\ n - 1 \in Int
    BY <1>1
  <2>2. IsFiniteSet(places) /\ Cardinality(places) = IF 0 > n - 1 THEN 0 ELSE (n - 1) - 0 + 1
    BY <2>1, FS_Interval
  <2>3. QED
    BY <1>1, <2>2
<1>4. place \in Surjection(events, places)
  BY <1>2, <1>3, FS_Injection
<1>5. QED
  BY <1>4 DEF Surjection

LEMMA OrderedPlaces ==
  ASSUME NEW s \in Symbols, NEW events \in SUBSET Recording[s]
  PROVE  /\ Ordered(events) \in Seq(events) /\ Len(Ordered(events)) = Cardinality(events)
         /\ Cardinality(events) \in Nat
         /\ \A i \in 1 .. Cardinality(events) :
              /\ Ordered(events)[i] \in events
              /\ Rank(events, Ordered(events)[i]) = i - 1
<1> DEFINE n == Cardinality(events)
<1>1. n \in Nat
  BY LaterHasMoreBefore
<1>2. Ordered(events) = [i \in 1 .. n |-> CHOOSE e \in events : Rank(events, e) = i - 1]
  BY DEF Ordered, Rank, Preceding
<1>3. ASSUME NEW i \in 1 .. n
      PROVE  Ordered(events)[i] \in events /\ Rank(events, Ordered(events)[i]) = i - 1
  <2>1. i - 1 \in 0 .. n - 1
    BY <1>1
  <2>2. \E e \in events : Rank(events, e) = i - 1
    BY <2>1, EveryRankIsTaken
  <2>3. Ordered(events)[i] = CHOOSE e \in events : Rank(events, e) = i - 1
    BY <1>2
  <2>4. QED
    BY <2>2, <2>3
<1>4. Ordered(events) \in Seq(events) /\ Len(Ordered(events)) = n
  BY <1>1, <1>2, <1>3
<1>5. QED
  BY <1>1, <1>3, <1>4

\* There is only one way to order them.
LEMMA OrderedIsUnique ==
  ASSUME NEW s \in Symbols, NEW events \in SUBSET Recording[s], NEW q,
         q = [i \in 1 .. Cardinality(events) |-> q[i]],
         \A i \in 1 .. Cardinality(events) : q[i] \in events /\ Rank(events, q[i]) = i - 1
  PROVE  q = Ordered(events)
<1>1. \A i \in 1 .. Cardinality(events) : q[i] = Ordered(events)[i]
  BY OrderedPlaces, RanksDiffer
<1> DEFINE place(i) == CHOOSE e \in events : Rank(events, e) = i - 1
           o == Ordered(events)
<1>2. o = [i \in 1 .. Cardinality(events) |-> place(i)]
  BY DEF Ordered, Rank, Preceding
<1> HIDE DEF place, o
<1>3. o = [i \in 1 .. Cardinality(events) |-> o[i]]
  BY <1>2
<1>4. QED
  BY <1>1, <1>3 DEF o

LEMMA OrderedEmpty ==
  ASSUME NEW s \in Symbols, NEW events \in SUBSET Recording[s]
  PROVE  Ordered(events) = <<>> <=> events = {}
<1>1. Cardinality(events) = 0 <=> events = {}
  BY LaterHasMoreBefore, FS_EmptySet
<1>2. Ordered(events) = <<>> <=> Len(Ordered(events)) = 0
  BY OrderedPlaces
<1>3. QED
  BY <1>1, <1>2, OrderedPlaces

\* An event after all others comes last.
LEMMA OrderedAppend ==
  ASSUME NEW s \in Symbols, NEW events \in SUBSET Recording[s],
         NEW x \in Recording[s], \A e \in events : RowBefore(e, x)
  PROVE  Ordered(events \cup {x}) = Append(Ordered(events), x)
<1> DEFINE n == Cardinality(events)
           more == events \cup {x}
           q == Append(Ordered(events), x)
<1>1. n \in Nat /\ IsFiniteSet(events) /\ more \in SUBSET Recording[s]
  BY LaterHasMoreBefore
<1>2. x \notin events
  BY RowsAreOrdered
<1>3. Cardinality(more) = n + 1
  BY <1>1, <1>2, FS_AddElement
<1>4. Rank(more, x) = n
  <2>1. Preceding(more, x) = events
    BY RowsAreOrdered DEF Preceding
  <2>2. QED
    BY <2>1 DEF Rank
<1>5. \A e \in events : Rank(more, e) = Rank(events, e)
  <2> SUFFICES ASSUME NEW e \in events PROVE Preceding(more, e) = Preceding(events, e)
    BY DEF Rank
  <2>1. ~RowBefore(x, e)
    BY RowsAreOrdered
  <2>2. QED
    BY <2>1 DEF Preceding
<1>6. /\ Ordered(events) \in Seq(events) /\ Len(Ordered(events)) = n
      /\ \A i \in 1 .. n : /\ Ordered(events)[i] \in events
                           /\ Rank(events, Ordered(events)[i]) = i - 1
  BY OrderedPlaces
<1> DEFINE o == Ordered(events)
<1>7. /\ q = [i \in 1 .. n + 1 |-> q[i]]
      /\ \A i \in 1 .. n : q[i] = o[i]
      /\ q[n + 1] = x
  <2> HIDE DEF n
  <2>1. o \in Seq(events) /\ Len(o) = n /\ n \in Nat
    BY <1>1, <1>6
  <2> HIDE DEF o
  <2>2. Append(o, x) \in Seq(more) /\ Len(Append(o, x)) = n + 1
    BY <2>1
  <2>3. (\A i \in 1 .. n : Append(o, x)[i] = o[i]) /\ Append(o, x)[n + 1] = x
    BY <2>1
  <2>4. q = Append(o, x)
    BY DEF o
  <2> HIDE DEF q
  <2>5. q \in Seq(more) /\ Len(q) = n + 1
    BY <2>2, <2>4
  <2>6. q = [i \in 1 .. n + 1 |-> q[i]]
    BY <2>5
  <2>7. QED
    BY <2>3, <2>4, <2>6
<1> HIDE DEF o
<1> HIDE DEF q
<1>8. ASSUME NEW i \in 1 .. n + 1 PROVE q[i] \in more /\ Rank(more, q[i]) = i - 1
  <2>1. CASE i \in 1 .. n
    <3>1. q[i] = o[i] /\ o[i] \in events /\ Rank(events, o[i]) = i - 1
      BY <1>6, <1>7, <2>1 DEF o
    <3>2. QED
      BY <1>5, <3>1
  <2>2. CASE i = n + 1
    BY <1>1, <1>4, <1>7, <2>2
  <2>3. QED
    BY <1>1, <2>1, <2>2
<1>9. q = Ordered(more)
  BY <1>1, <1>3, <1>7, <1>8, OrderedIsUnique
<1>10. QED
  BY <1>9 DEF q

\* The first row comes before all others; the rest is the order of the rest.
LEMMA OrderedHead ==
  ASSUME NEW s \in Symbols, NEW events \in SUBSET Recording[s], events # {}
  PROVE  LET first == Head(Ordered(events))
         IN /\ Ordered(events) # <<>> /\ first \in events
            /\ \A e \in events : e = first \/ RowBefore(first, e)
            /\ Tail(Ordered(events)) = Ordered(events \ {first})
<1> DEFINE n == Cardinality(events)
           o == Ordered(events)
           first == Head(o)
           rest == events \ {first}
<1>1. /\ n \in Nat /\ IsFiniteSet(events) /\ o \in Seq(events) /\ Len(o) = n
      /\ \A i \in 1 .. n : o[i] \in events /\ Rank(events, o[i]) = i - 1
  BY OrderedPlaces, LaterHasMoreBefore
<1>2. o # <<>> /\ n >= 1
  BY <1>1, OrderedEmpty
<1> HIDE DEF o, n
<1>3. first \in events /\ Rank(events, first) = 0 /\ first = o[1]
  BY <1>1, <1>2
<1>4. \A e \in events : Rank(events, e) \in Nat
  BY LaterHasMoreBefore
<1>5. ASSUME NEW e \in events, e # first PROVE RowBefore(first, e)
  <2> DEFINE r(x) == Rank(events, x)
  <2>1. /\ r(e) \in Nat /\ r(first) = 0
        /\ RowBefore(e, first) => r(e) < r(first)
    BY <1>3, <1>4, LaterHasMoreBefore
  <2> HIDE DEF r
  <2>2. ~RowBefore(e, first)
    BY <2>1
  <2>3. QED
    BY <1>3, <1>5, <2>2, RowsAreOrdered
<1>6. Cardinality(rest) = n - 1 /\ rest \in SUBSET Recording[s]
  BY <1>1, <1>3, FS_RemoveElement DEF n
<1>7. ASSUME NEW e \in rest PROVE Rank(rest, e) = Rank(events, e) - 1
  <2>1. Preceding(rest, e) = Preceding(events, e) \ {first} /\ first \in Preceding(events, e)
    BY <1>3, <1>5 DEF Preceding
  <2>2. IsFiniteSet(Preceding(events, e))
    BY <1>1, FS_Subset DEF Preceding
  <2>3. QED
    BY <2>1, <2>2, FS_RemoveElement DEF Rank
<1> DEFINE q == Tail(o)
<1>8. /\ q = [i \in 1 .. n - 1 |-> q[i]]
      /\ \A i \in 1 .. n - 1 : q[i] = o[i + 1]
  <2>1. q \in Seq(events) /\ Len(q) = n - 1 /\ \A i \in 1 .. n - 1 : q[i] = o[i + 1]
    BY <1>1, <1>2
  <2> HIDE DEF q
  <2>2. q = [i \in 1 .. n - 1 |-> q[i]]
    BY <2>1
  <2>3. QED
    BY <2>1, <2>2
<1> HIDE DEF q
<1>9. ASSUME NEW i \in 1 .. n - 1 PROVE q[i] \in rest /\ Rank(rest, q[i]) = i - 1
  <2>1. i + 1 \in 1 .. n /\ q[i] = o[i + 1] /\ (i + 1) - 1 = i /\ i # 0 /\ i \in Nat
    BY <1>1, <1>8
  <2>2. q[i] \in events /\ Rank(events, q[i]) = i
    BY <1>1, <2>1
  <2>3. q[i] # first
    BY <1>3, <2>1, <2>2
  <2>4. QED
    BY <1>7, <2>2, <2>3
<1>10. q = Ordered(rest)
  BY <1>6, <1>8, <1>9, OrderedIsUnique
<1>11. QED
  BY <1>2, <1>3, <1>5, <1>10 DEF q, o

\* The last row comes after all others.
LEMMA OrderedLast ==
  ASSUME NEW s \in Symbols, NEW events \in SUBSET Recording[s], events # {}
  PROVE  LET last == Ordered(events)[Len(Ordered(events))]
         IN last \in events /\ \A e \in events : e = last \/ RowBefore(e, last)
<1> DEFINE n == Cardinality(events)
           o == Ordered(events)
<1>1. /\ n \in Nat /\ Len(o) = n /\ o # <<>> /\ o \in Seq(events)
      /\ \A i \in 1 .. n : o[i] \in events /\ Rank(events, o[i]) = i - 1
  BY OrderedPlaces, OrderedEmpty
<1> HIDE DEF o
<1>2. n \in 1 .. n
  BY <1>1
<1>3. o[n] \in events /\ Rank(events, o[n]) = n - 1
  BY <1>1, <1>2
<1>4. ASSUME NEW e \in events, e # o[n] PROVE RowBefore(e, o[n])
  <2>1. Rank(events, e) \in 0 .. n - 1
    BY LaterHasMoreBefore
  <2>2. ~RowBefore(o[n], e)
    BY <1>1, <1>3, <2>1, LaterHasMoreBefore
  <2>3. QED
    BY <1>3, <1>4, <2>2, RowsAreOrdered
<1>5. QED
  BY <1>1, <1>3, <1>4 DEF o

-----------------------------------------------------------------------------
(* Superseding.                                                              *)

\* A cancelled context changes nothing else.
LEMMA CancelledPlays ==
  ASSUME PlaysTyped, AliveIsCurrent
  PROVE  /\ DOMAIN Cancelled = 1 .. MaxGeneration
         /\ \A g \in 1 .. MaxGeneration :
              /\ DOMAIN Cancelled[g] = PlayFields
              /\ Cancelled[g].phase = plays[g].phase
              /\ Cancelled[g].phase = "reading" => Cancelled[g].cancelled
<1>1. DOMAIN Cancelled = 1 .. MaxGeneration
  BY DEF Cancelled, PlaysTyped
<1>2. ASSUME NEW g \in 1 .. MaxGeneration
      PROVE  /\ DOMAIN Cancelled[g] = PlayFields
             /\ Cancelled[g].phase = plays[g].phase
             /\ Cancelled[g].phase = "reading" => Cancelled[g].cancelled
  <2>1. DOMAIN plays[g] = PlayFields /\ g \in DOMAIN plays /\ g > 0
    BY DEF PlaysTyped
  <2>2. CASE g = cancel
    <3>1. Cancelled[g] = [plays[g] EXCEPT !.cancelled = TRUE]
      BY <2>1, <2>2 DEF Cancelled
    <3>2. QED
      BY <2>1, <3>1 DEF PlayFields
  <2>3. CASE g # cancel
    <3>1. Cancelled[g] = plays[g]
      BY <2>1, <2>3 DEF Cancelled
    <3>2. ~Alive(g)
      BY <2>3 DEF AliveIsCurrent
    <3>3. QED
      BY <2>1, <3>1, <3>2 DEF Alive
  <2>4. QED
    BY <2>2, <2>3
<1>3. QED
  BY <1>1, <1>2

\* Once superseded, nobody is alive, and the new generation has no goroutine.
LEMMA SupersedeSilences ==
  ASSUME PlaysTyped, AliveIsCurrent, generation < MaxGeneration,
         generation' = generation + 1, plays' = Cancelled,
         DOMAIN state' = {"state", "symbol", "position", "generation"}
  PROVE  /\ PlaysTyped'
         /\ generation' > 0 /\ plays'[generation'].phase = "none"
         /\ \A g \in 1 .. MaxGeneration : ~Alive(g)'
<1>1. generation \in 0 .. MaxGeneration /\ MaxGeneration \in Nat
  BY ReplayAssumption DEF PlaysTyped
<1>2. \A g \in 1 .. MaxGeneration : plays'[g].phase = plays[g].phase
  BY CancelledPlays
<1>3. plays'[generation'].phase = "none"
  BY <1>1, <1>2 DEF PlaysTyped
<1>4. PlaysTyped'
  BY <1>1, <1>2, CancelledPlays DEF PlaysTyped
<1>5. \A g \in 1 .. MaxGeneration : ~Alive(g)'
  BY CancelledPlays DEF Alive
<1>6. QED
  BY <1>1, <1>3, <1>4, <1>5

\* Whoever supersedes and reports that nothing plays tells the truth.
LEMMA SupersedeKeeps ==
  ASSUME ReplayInv, generation < MaxGeneration, generation' = generation + 1,
         plays' = Cancelled, control' = control, control.op = "idle",
         DOMAIN state' = {"state", "symbol", "position", "generation"},
         state'.state # "replaying", feed' = state'.state
  PROVE  ReplayInv'
<1>1. AliveIsCurrent
  BY DEF ReplayInv, StatusIsTruthful, AliveIsCurrent
<1>2. /\ PlaysTyped' /\ generation' \in 1 .. MaxGeneration
      /\ \A g \in 1 .. MaxGeneration : ~Alive(g)'
  BY <1>1, SupersedeSilences, ReplayAssumption DEF ReplayInv, PlaysTyped
<1>3. StatusIsTruthful'
  BY <1>2 DEF StatusIsTruthful
<1>4. QED
  BY <1>2, <1>3 DEF ReplayInv, ControlTyped, CueIsQuiet

-----------------------------------------------------------------------------
(* The goroutines.                                                           *)

\* A goroutine ends, or moves on to its next row.
LEMMA PlayKeeps ==
  ASSUME ReplayInv, NEW g \in 1 .. generation,
         PlayNext(g) \/ PlayAbandoned(g) \/ PlayComplete(g) \/ PlayFailed(g)
  PROVE  ReplayInv'
<1>1. g \in 1 .. MaxGeneration /\ generation \in 0 .. MaxGeneration /\ MaxGeneration \in Nat
  BY ReplayAssumption DEF ReplayInv, PlaysTyped
<1>2. /\ plays[g].phase = "reading" /\ generation' = generation /\ control' = control
      /\ DOMAIN plays = 1 .. MaxGeneration /\ DOMAIN plays[g] = PlayFields
  BY <1>1 DEF ReplayInv, PlaysTyped, PlayNext, PlayAbandoned, PlayComplete, PlayFailed, Finished
<1>3. control.op = "cue" => g # generation
  BY <1>2 DEF ReplayInv, CueIsQuiet
<1>4. CASE g = generation /\ PlayNext(g)
  <2>1. /\ plays' = [plays EXCEPT ![g].rows = Tail(@)] /\ feed' = feed /\ cancel' = cancel
        /\ state' = [state EXCEPT !.position = Head(plays[g].rows).us]
    BY <1>4 DEF PlayNext
  <2>2. /\ DOMAIN plays' = 1 .. MaxGeneration
        /\ \A h \in 1 .. MaxGeneration :
             /\ DOMAIN plays'[h] = DOMAIN plays[h]
             /\ plays'[h].phase = plays[h].phase /\ plays'[h].cancelled = plays[h].cancelled
    BY <1>1, <1>2, <2>1 DEF PlayFields
  <2>3. state'.state = state.state /\ DOMAIN state' = DOMAIN state
    BY <2>1 DEF ReplayInv, PlaysTyped
  <2>4. PlaysTyped' /\ ControlTyped'
    BY <1>2, <2>2, <2>3 DEF ReplayInv, PlaysTyped, ControlTyped
  <2>5. \A h \in 1 .. MaxGeneration : Alive(h)' <=> Alive(h)
    BY <2>2 DEF Alive
  <2>6. StatusIsTruthful'
    BY <1>1, <1>2, <2>1, <2>3, <2>5 DEF ReplayInv, StatusIsTruthful
  <2>7. CueIsQuiet'
    BY <1>2, <1>3, <1>4 DEF CueIsQuiet
  <2>8. QED
    BY <2>4, <2>6, <2>7 DEF ReplayInv
<1>5. CASE ~(g = generation /\ PlayNext(g))
  <2>1. /\ plays' = [plays EXCEPT ![g].phase = "done", ![g].rows = <<>>]
        /\ tape' = tape
    BY <1>5 DEF PlayNext, PlayAbandoned, PlayComplete, PlayFailed, Finished
  <2>2. /\ DOMAIN plays' = 1 .. MaxGeneration
        /\ \A h \in 1 .. MaxGeneration : DOMAIN plays'[h] = DOMAIN plays[h]
        /\ \A h \in 1 .. MaxGeneration \ {g} : plays'[h] = plays[h]
        /\ plays'[g].phase = "done"
    BY <1>1, <1>2, <2>1 DEF PlayFields
  <2>3. \A h \in 1 .. MaxGeneration : Alive(h)' <=> Alive(h) /\ h # g
    BY <1>1, <2>2 DEF Alive
  <2>4. \/ /\ state' = state /\ feed' = feed /\ cancel' = cancel
           /\ Alive(g) => g # generation
        \/ /\ g = generation /\ DOMAIN state' = DOMAIN state
           /\ state'.state # "replaying" /\ feed' = state'.state
    <3>1. CASE PlayNext(g)
      BY <1>5, <3>1 DEF PlayNext
    <3>2. CASE PlayAbandoned(g)
      BY <3>2 DEF PlayAbandoned, Alive
    <3>3. CASE PlayComplete(g) \/ PlayFailed(g)
      BY <3>3 DEF PlayComplete, PlayFailed, Finished, Report, ReplayInv, PlaysTyped
    <3>4. QED
      BY <3>1, <3>2, <3>3
  <2>5. PlaysTyped' /\ ControlTyped'
    BY <1>1, <1>2, <2>2, <2>4 DEF ReplayInv, PlaysTyped, ControlTyped
  <2>6. CueIsQuiet'
    BY <1>1, <1>2, <1>3, <2>1, <2>2 DEF ReplayInv, CueIsQuiet
  <2>7. StatusIsTruthful'
    BY <1>1, <1>2, <2>3, <2>4 DEF ReplayInv, StatusIsTruthful
  <2>8. QED
    BY <2>5, <2>6, <2>7 DEF ReplayInv
<1>6. QED
  BY <1>4, <1>5

-----------------------------------------------------------------------------
(* The operations.                                                           *)

\* An operation begins when no other is in flight and a generation is left.
LEMMA BeginsIdle ==
  ASSUME ReplayInv, Begins(1)
  PROVE  control.op = "idle" /\ generation < MaxGeneration
<1>1. control = Idle /\ generation + 1 <= MaxGeneration
  BY DEF Begins
<1>2. generation \in Int /\ MaxGeneration \in Int
  BY ReplayAssumption DEF ReplayInv, PlaysTyped
<1>3. QED
  BY <1>1, <1>2 DEF Idle

\* An operation that only decides what it launches leaves what is reported.
LEMMA LaunchingKeeps ==
  ASSUME ReplayInv, Begins(1), control'.op = "launch",
         UNCHANGED <<state, feed, generation, cancel, plays>>
  PROVE  ReplayInv'
<1>1. generation < MaxGeneration
  BY ReplayAssumption DEF Begins, ReplayInv, PlaysTyped
<1>2. PlaysTyped' /\ ControlTyped' /\ CueIsQuiet'
  BY <1>1 DEF ReplayInv, PlaysTyped, ControlTyped, CueIsQuiet
<1>3. StatusIsTruthful'
  BY DEF ReplayInv, StatusIsTruthful, Alive
<1>4. QED
  BY <1>2, <1>3 DEF ReplayInv

LEMMA OperateKeeps ==
  ASSUME ReplayInv, Operates
  PROVE  ReplayInv'
<1>1. CASE \/ \E s \in Symbols, start, end \in Instants : Start(s, start, end)
           \/ \E target \in Instants : SeekTo(target)
           \/ Resume
  BY <1>1, LaunchingKeeps DEF Start, SeekTo, Resume, Launching
<1>2. CASE Pause \/ Stop \/ \E s \in Symbols, target \in Instants : Track(s, target)
  <2>1. Begins(1) /\ Supersede /\ control' = control
    BY <1>2 DEF Pause, Stop, Track
  <2>2. control.op = "idle" /\ generation < MaxGeneration
    BY <2>1, BeginsIdle
  <2>3. generation' = generation + 1 /\ plays' = Cancelled
    BY <2>1 DEF Supersede
  <2>4. /\ DOMAIN state' = {"state", "symbol", "position", "generation"}
        /\ state'.state # "replaying" /\ feed' = state'.state
    BY <1>2 DEF Pause, Stop, Track, Report, ReplayInv, PlaysTyped
  <2>5. QED
    BY <2>1, <2>2, <2>3, <2>4, SupersedeKeeps
<1>3. ASSUME NEW s \in Symbols, SetSymbol(s)
      PROVE  ReplayInv'
  <2>1. /\ UNCHANGED <<tape, feed, generation, cancel, plays, control>>
        /\ state'.state = state.state /\ DOMAIN state' = DOMAIN state
    BY <1>3 DEF SetSymbol, ReplayInv, PlaysTyped
  <2>2. PlaysTyped' /\ ControlTyped' /\ CueIsQuiet'
    BY <2>1 DEF ReplayInv, PlaysTyped, ControlTyped, CueIsQuiet
  <2>3. StatusIsTruthful'
    BY <2>1 DEF ReplayInv, StatusIsTruthful, Alive
  <2>4. QED
    BY <2>2, <2>3 DEF ReplayInv
<1>4. ASSUME NEW s \in Symbols, NEW warmup \in Instants, NEW target \in Instants, NEW end \in Instants,
             NEW playing \in BOOLEAN, NEW asked \in BOOLEAN,
             Cue(s, warmup, target, end, playing, asked)
      PROVE  ReplayInv'
  <2>1. /\ generation' = generation + 1 /\ plays' = Cancelled
        /\ UNCHANGED <<tape, state, feed>> /\ generation \in Nat /\ MaxGeneration \in Nat
        /\ generation < MaxGeneration /\ (playing => generation + 2 <= MaxGeneration)
    BY <1>4, ReplayAssumption DEF Cue, Begins, Supersede, ReplayInv, PlaysTyped
  <2>2. /\ control'.op = "cue" /\ DOMAIN control' = CueFields /\ control'.step = "prepare"
        /\ control'.generation = generation' /\ control'.playing = playing
    BY <1>4 DEF Cue, CueFields
  <2>3. AliveIsCurrent
    BY DEF ReplayInv, StatusIsTruthful, AliveIsCurrent
  <2>4. /\ PlaysTyped' /\ generation' > 0 /\ plays'[generation'].phase = "none"
        /\ \A g \in 1 .. MaxGeneration : ~Alive(g)'
    BY <2>1, <2>3, SupersedeSilences DEF ReplayInv, PlaysTyped
  <2>5. ControlTyped' /\ CueIsQuiet'
    BY <2>1, <2>2, <2>4 DEF ControlTyped, CueIsQuiet
  <2>6. ~Alive(generation)'
    BY <2>4 DEF Alive
  <2>7. StatusIsTruthful'
    BY <2>1, <2>2, <2>4, <2>6 DEF ReplayInv, StatusIsTruthful
  <2>8. QED
    BY <2>4, <2>5, <2>7 DEF ReplayInv
<1>5. QED
  BY <1>1, <1>2, <1>3, <1>4 DEF Operates

\* launch makes the next generation, whose goroutine is the only one alive.
LEMMA LaunchKeeps ==
  ASSUME ReplayInv, Launch
  PROVE  ReplayInv'
<1>. DEFINE g == generation + 1
            play == [phase |-> "reading", cancelled |-> FALSE, symbol |-> control.request.symbol,
                     rows |-> Ordered({e \in Window(control.request.symbol, control.from,
                                                    control.request.end) :
                                         After(e, control.cursor)})]
<1>1. control.op = "launch" /\ generation' = g /\ cancel' = g /\ control'.op = "idle"
  BY DEF Launch, Idle
<1>2. generation \in Nat /\ MaxGeneration \in Nat /\ generation < MaxGeneration
  BY <1>1, ReplayAssumption DEF ReplayInv, PlaysTyped, ControlTyped
<1>3. AliveIsCurrent
  BY DEF ReplayInv, StatusIsTruthful, AliveIsCurrent
<1>4. plays' = [Cancelled EXCEPT ![g] = play]
  BY DEF Launch
<1>5. /\ DOMAIN state' = {"state", "symbol", "position", "generation"}
      /\ state'.state = "replaying" /\ feed' = "replaying"
  BY DEF Launch, Report
<1>6. /\ DOMAIN play = PlayFields /\ play.phase = "reading" /\ play.cancelled = FALSE
  BY DEF PlayFields
<1>. HIDE DEF play
<1>7. /\ DOMAIN plays' = 1 .. MaxGeneration /\ plays'[g] = play
      /\ \A h \in 1 .. MaxGeneration \ {g} : plays'[h] = Cancelled[h]
  BY <1>2, <1>3, <1>4, CancelledPlays DEF ReplayInv
<1>8. PlaysTyped'
  BY <1>1, <1>2, <1>3, <1>5, <1>6, <1>7, CancelledPlays DEF ReplayInv, PlaysTyped
<1>9. /\ Alive(generation)'
      /\ \A h \in 1 .. MaxGeneration : Alive(h)' => h = g
  BY <1>1, <1>2, <1>3, <1>6, <1>7, CancelledPlays DEF ReplayInv, Alive
<1>10. StatusIsTruthful'
  BY <1>1, <1>5, <1>9 DEF StatusIsTruthful
<1>11. QED
  BY <1>1, <1>8, <1>10 DEF ReplayInv, ControlTyped, CueIsQuiet

\* A cue that prepares, fails or publishes finds nothing alive.
LEMMA CueKeeps ==
  ASSUME ReplayInv, CuePrepare \/ CueFailed \/ CueCommit
  PROVE  ReplayInv'
<1>0. control.op = "cue"
  BY DEF CuePrepare, CueFailed, CueCommit
<1>1. /\ control.op = "cue" /\ DOMAIN control = CueFields /\ control.generation = generation
      /\ generation \in 1 .. MaxGeneration /\ plays[generation].phase = "none"
      /\ control.playing => generation < MaxGeneration
  BY <1>0, ReplayAssumption DEF ReplayInv, PlaysTyped, ControlTyped, CueIsQuiet
<1>2. UNCHANGED <<generation, cancel, plays>>
  BY DEF CuePrepare, CueFailed, CueCommit
<1>3. \A g \in 1 .. MaxGeneration : ~Alive(g) /\ ~Alive(g)'
  BY <1>1, <1>2 DEF ReplayInv, StatusIsTruthful, Alive
<1>4. CASE CuePrepare
  <2>1. /\ UNCHANGED <<tape, state, feed>>
        /\ control' = [control EXCEPT !.step = "read", !.base = tape[control.request.symbol]]
    BY <1>4 DEF CuePrepare
  <2>2. /\ DOMAIN control' = CueFields /\ control'.op = "cue"
        /\ control'.generation = control.generation /\ control'.playing = control.playing
        /\ control'.request = control.request /\ control'.base = tape[control.request.symbol]
    BY <1>1, <2>1 DEF CueFields
  <2>3. PlaysTyped' /\ ControlTyped' /\ CueIsQuiet'
    BY <1>1, <1>2, <2>1, <2>2 DEF ReplayInv, PlaysTyped, ControlTyped, CueIsQuiet
  <2>4. StatusIsTruthful'
    BY <1>1, <1>2, <1>3, <2>1, <2>2 DEF ReplayInv, StatusIsTruthful
  <2>5. QED
    BY <2>3, <2>4 DEF ReplayInv
<1>5. CASE CueFailed
  <2>1. control'.op = "idle"
    BY <1>5 DEF CueFailed, Idle
  <2>2. /\ DOMAIN state' = DOMAIN state /\ state'.state # "replaying" /\ feed' = state'.state
    BY <1>1, <1>5 DEF CueFailed, Report, ReplayInv, PlaysTyped, StatusIsTruthful
  <2>3. PlaysTyped' /\ ControlTyped' /\ CueIsQuiet'
    BY <1>2, <2>1, <2>2 DEF ReplayInv, PlaysTyped, ControlTyped, CueIsQuiet
  <2>4. StatusIsTruthful'
    BY <1>1, <1>2, <1>3, <2>2 DEF StatusIsTruthful
  <2>5. QED
    BY <2>3, <2>4 DEF ReplayInv
<1>6. CASE CueCommit
  <2>1. control.base = tape[control.request.symbol]
    BY <1>1, <1>6 DEF CueCommit, ReplayInv, CueIsQuiet
  <2>2. /\ DOMAIN state' = {"state", "symbol", "position", "generation"}
        /\ state'.state = (IF control.playing THEN "replaying" ELSE "paused")
        /\ feed' = state'.state
        /\ control'.op = (IF control.playing THEN "launch" ELSE "idle")
    BY <1>1, <1>6, <2>1 DEF CueCommit, Report, Launching, Idle
  <2>3. PlaysTyped' /\ ControlTyped' /\ CueIsQuiet'
    BY <1>1, <1>2, <2>2 DEF ReplayInv, PlaysTyped, ControlTyped, CueIsQuiet
  <2>4. StatusIsTruthful'
    BY <1>1, <1>2, <1>3, <2>2 DEF StatusIsTruthful
  <2>5. QED
    BY <2>3, <2>4 DEF ReplayInv
<1>7. QED
  BY <1>4, <1>5, <1>6

-----------------------------------------------------------------------------

LEMMA ReplayInvInit ==
  ASSUME ReplayInit
  PROVE  ReplayInv
<1>1. /\ generation = 0 /\ MaxGeneration \in Nat /\ control.op = "idle"
      /\ DOMAIN state = {"state", "symbol", "position", "generation"}
      /\ feed = "ready" /\ state.state = "ready"
  BY ReplayAssumption DEF ReplayInit, Idle
<1>2. /\ DOMAIN plays = 1 .. MaxGeneration
      /\ \A g \in 1 .. MaxGeneration : DOMAIN plays[g] = PlayFields /\ plays[g].phase = "none"
  BY DEF ReplayInit, NoPlay, PlayFields
<1>3. PlaysTyped /\ ControlTyped /\ CueIsQuiet
  BY <1>1, <1>2 DEF PlaysTyped, ControlTyped, CueIsQuiet
<1>4. StatusIsTruthful
  BY <1>1, <1>2 DEF StatusIsTruthful, Alive
<1>5. QED
  BY <1>3, <1>4 DEF ReplayInv

LEMMA ReplayInvStep ==
  ASSUME ReplayInv, [ReplayMoves]_replayVars
  PROVE  ReplayInv'
<1>1. CASE UNCHANGED replayVars
  BY <1>1 DEF replayVars, ReplayInv, PlaysTyped, ControlTyped, CueIsQuiet, StatusIsTruthful, Alive
<1>2. CASE Play
  BY <1>2, PlayKeeps DEF Play
<1>3. CASE Operates
  BY <1>3, OperateKeeps
<1>4. CASE GoOn
  BY <1>4, LaunchKeeps, CueKeeps DEF GoOn
<1>5. QED
  BY <1>1, <1>2, <1>3, <1>4 DEF ReplayMoves

LEMMA ReplayInvHolds == ReplaySpec => []ReplayInv
<1>1. ReplayInv /\ [ReplayNext]_replayVars => ReplayInv'
  BY ReplayInvStep, NextMoves
<1>2. QED
  BY <1>1, ReplayInvInit, PTL DEF ReplaySpec

\* What Status says is true, whatever operations, failures and ends of old goroutines
\* come between: "replaying" has a living goroutine or an operation that will launch
\* one or report, only the newest goroutine is alive, and the browser is told the same.
THEOREM StatusTellsTheTruth == ReplaySpec => []StatusIsTruthful
<1>1. ReplayInv => StatusIsTruthful
  BY DEF ReplayInv
<1>2. QED
  BY <1>1, ReplayInvHolds, PTL

\* While a cue reads, no tape is written: it publishes its whole window or nothing.
THEOREM CuesAreAtomic == ReplaySpec => CueIsAtomic
<1>. DEFINE Atomic ==
       control.op = "cue" =>
         \/ tape' = tape
         \/ /\ control'.op # "cue"
            /\ tape' = [tape EXCEPT ![control.request.symbol] =
                 Ordered(Eligible(Window(control.request.symbol, control.warmup,
                                         control.target)))]
<1>1. ASSUME ReplayInv, [ReplayNext]_replayVars PROVE [Atomic]_replayVars
  <2>1. SUFFICES ASSUME ReplayNext, control.op = "cue" PROVE Atomic
    BY <1>1
  <2>2. CASE Play
    <3>1. PICK g \in 1 .. generation :
            PlayNext(g) \/ PlayAbandoned(g) \/ PlayComplete(g) \/ PlayFailed(g)
      BY <2>2 DEF Play
    <3>2. plays[g].phase = "reading"
      BY <3>1 DEF PlayNext, PlayAbandoned, PlayComplete, PlayFailed
    <3>3. g # generation
      BY <1>1, <2>1, <3>2 DEF ReplayInv, CueIsQuiet
    <3>4. QED
      BY <3>1, <3>3 DEF PlayNext, PlayAbandoned, PlayComplete, PlayFailed, Finished
  <2>3. CASE Operate
    <3>1. control = Idle
      BY <2>3, ZenonT(30) DEF Operate, Start, SeekTo, Resume, Pause, Stop, Track, SetSymbol, Cue, Begins
    <3>2. QED
      BY <2>1, <3>1 DEF Idle
  <2>4. CASE GoOn
    <3>1. CASE CueCommit
      BY <3>1 DEF CueCommit, Launching, Idle
    <3>2. CASE ~CueCommit
      BY <2>1, <2>4, <3>2 DEF GoOn, Launch, CuePrepare, CueFailed
    <3>3. QED
      BY <3>1, <3>2
  <2>5. QED
    BY <2>1, <2>2, <2>3, <2>4 DEF ReplayNext
<1>2. CueIsAtomic <=> [][Atomic]_replayVars
  BY DEF CueIsAtomic
<1>. HIDE DEF Atomic
<1>3. QED
  BY <1>1, <1>2, ReplayInvHolds, PTL DEF ReplaySpec

-----------------------------------------------------------------------------
(* What was played is on the tape.                                           *)

\* The order of cursors goes on with that of the rows.
LEMMA CursorsAreOrdered ==
  ASSUME NEW s \in Symbols, NEW a \in Recording[s], NEW b \in Recording[s], NEW c \in Cursors
  PROVE  /\ After(a, c) /\ RowBefore(a, b) => After(b, c)
         /\ c.valid /\ ~After(a, c) /\ After(b, c) => RowBefore(a, b)
<1>1. CASE c = NoCursor
  BY <1>1 DEF NoCursor, After
<1>2. CASE c # NoCursor
  <2>1. c.us \in Nat /\ c.kind \in {"quote", "trade"} /\ c.id \in Nat
    BY <1>2 DEF Cursors
  <2>2. QED
    BY <2>1, RecordedEvents DEF After, RowBefore, KindRank
<1>3. QED
  BY <1>1, <1>2

LEMMA CursorFields ==
  ASSUME NEW c \in Cursors
  PROVE  c.valid \in BOOLEAN /\ (c.valid => c.us \in Nat)
<1>1. CASE c = NoCursor
  <2>1. c.valid = FALSE
    BY <1>1 DEF NoCursor
  <2>2. QED
    BY <2>1
<1>2. CASE c # NoCursor
  <2>1. c \in [valid : {TRUE}, us : Nat, kind : {"quote", "trade"}, id : Nat]
    BY <1>2 DEF Cursors
  <2>2. c.valid = TRUE /\ c.us \in Nat
    BY <2>1
  <2>3. QED
    BY <2>2
<1>3. QED
  BY <1>1, <1>2

LEMMA NoRequestEnds ==
  ASSUME NEW req, req.end > 0
  PROVE  req # NoRequest
<1>1. NoRequest.end = 0
  BY DEF NoRequest
<1>2. QED
  BY <1>1

LEMMA CursorOfEvent ==
  ASSUME NEW s \in Symbols, NEW e \in Recording[s]
  PROVE  /\ CursorAt(e) \in Cursors /\ CursorAt(e).valid /\ CursorAt(e).us = e.us
         /\ ~After(e, CursorAt(e))
  BY RecordedEvents DEF CursorAt, Cursors, After, KindRank

LEMMA OrderedNothing == Ordered({}) = <<>>
<1>1. Cardinality({}) = 0
  BY FS_EmptySet
<1>2. QED
  BY <1>1 DEF Ordered

\* A sequence of recorded events is one of events.
LEMMA OrderedTyped ==
  ASSUME NEW s \in Symbols, NEW events \in SUBSET Recording[s]
  PROVE  Ordered(events) \in Seq(Event)
<1>1. Ordered(events) \in Seq(events) /\ events \subseteq Event
  BY OrderedPlaces, RecordedEvents
<1>2. QED
  BY <1>1

\* Slice is Played in order.
LEMMA SliceIsPlayed ==
  ASSUME NEW s, NEW from, NEW after, NEW upto, upto.valid \in BOOLEAN
  PROVE  Slice(s, from, after, upto) = Ordered(Played(s, from, after, upto))
<1>1. CASE ~upto.valid
  <2>1. Played(s, from, after, upto) = {}
    BY <1>1 DEF Played
  <2>2. QED
    BY <1>1, <2>1, OrderedNothing DEF Slice
<1>2. CASE upto.valid
  <2>1. Played(s, from, after, upto) =
          {e \in Eligible(Recording[s]) : e.us >= from /\ After(e, after) /\ ~After(e, upto)}
    BY <1>2 DEF Played
  <2>2. QED
    BY <1>2, <2>1 DEF Slice
<1>3. QED
  BY <1>1, <1>2

LEMMA SubSeqFrom ==
  ASSUME NEW T, NEW q \in Seq(T), NEW m \in Nat, m <= Len(q)
  PROVE  LET from == SubSeq(q, m + 1, Len(q))
         IN /\ from \in Seq(T) /\ Len(from) = Len(q) - m
            /\ \A i \in 1 .. Len(q) - m : from[i] = q[m + i]
  OBVIOUS

LEMMA SubSeqAppend ==
  ASSUME NEW T, NEW content \in Seq(T), NEW m \in Nat, m <= Len(content), NEW e \in T
  PROVE  SubSeq(Append(content, e), m + 1, Len(Append(content, e)))
           = Append(SubSeq(content, m + 1, Len(content)), e)
<1> DEFINE n == Len(content)
           all == Append(content, e)
           a == SubSeq(all, m + 1, n + 1)
           b == SubSeq(content, m + 1, n)
           c == Append(b, e)
<1>1. n \in Nat /\ all \in Seq(T) /\ Len(all) = n + 1
      /\ (\A i \in 1 .. n : all[i] = content[i]) /\ all[n + 1] = e
  OBVIOUS
<1>0. m <= n /\ m \in Nat /\ m <= n + 1
  BY <1>1
<1> HIDE DEF n
<1>2. a \in Seq(T) /\ Len(a) = n - m + 1 /\ \A i \in 1 .. n - m + 1 : a[i] = all[m + i]
  <2> HIDE DEF all, a
  <2>1. LET from == SubSeq(all, m + 1, Len(all))
        IN /\ from \in Seq(T) /\ Len(from) = Len(all) - m
           /\ \A i \in 1 .. Len(all) - m : from[i] = all[m + i]
    BY <1>0, <1>1, SubSeqFrom
  <2>2. a = SubSeq(all, m + 1, Len(all)) /\ Len(all) - m = n - m + 1
    BY <1>0, <1>1 DEF a
  <2>3. QED
    BY <2>1, <2>2
<1> HIDE DEF all
<1>3. b \in Seq(T) /\ Len(b) = n - m /\ \A i \in 1 .. n - m : b[i] = content[m + i]
  BY <1>1 DEF n
<1> HIDE DEF a, b
<1>4. /\ c \in Seq(T) /\ Len(c) = n - m + 1 /\ c[n - m + 1] = e
      /\ \A i \in 1 .. n - m : c[i] = b[i]
  BY <1>1, <1>3 DEF n
<1> HIDE DEF c
<1>5. \A i \in 1 .. n - m + 1 : a[i] = c[i]
  <2> SUFFICES ASSUME NEW i \in 1 .. n - m + 1 PROVE a[i] = c[i]
    OBVIOUS
  <2>1. a[i] = all[m + i]
    BY <1>2
  <2>2. CASE i = n - m + 1
    <3>1. m + i = n + 1
      BY <1>0, <1>1, <2>2
    <3>2. QED
      BY <1>1, <1>4, <2>1, <2>2, <3>1
  <2>3. CASE i \in 1 .. n - m
    <3>1. m + i \in 1 .. n
      BY <1>0, <1>1, <2>3
    <3>2. QED
      BY <1>1, <1>3, <1>4, <2>1, <2>3, <3>1
  <2>4. i = n - m + 1 \/ i \in 1 .. n - m
    BY <1>0, <1>1
  <2>5. QED
    BY <2>2, <2>3, <2>4
<1>6. a = [i \in 1 .. n - m + 1 |-> a[i]] /\ c = [i \in 1 .. n - m + 1 |-> c[i]]
  BY <1>2, <1>4
<1>7. a = c
  BY <1>5, <1>6
<1>8. QED
  BY <1>1, <1>7 DEF a, b, c, n, all

\* A tape that begins here, at the cursor, has nothing to hold yet.
LEMMA ContinuesAfresh ==
  ASSUME NEW s \in Symbols, NEW content \in Seq(Event), NEW cur \in Cursors, NEW clock \in Nat,
         NEW b, b.from = clock, b.after = cur, b.mark = Len(content)
  PROVE  Continues(content, s, b, cur, clock)
<1>1. SubSeq(content, Len(content) + 1, Len(content)) = <<>>
  OBVIOUS
<1>2. Played(s, clock, cur, cur) = {}
  BY DEF Played
<1>3. \A e \in Recording[s] : e.us >= clock => e.us >= clock
  OBVIOUS
<1>4. Len(content) <= Len(content) /\ clock <= clock
  OBVIOUS
<1>5. SubSeq(content, b.mark + 1, Len(content)) = Ordered(Played(s, b.from, b.after, cur))
  BY <1>1, <1>2, OrderedNothing
<1>6. QED
  BY <1>3, <1>4, <1>5 DEF Continues

\* A cue's tape holds its window, and its cursor is the window's last row.
LEMMA ContinuesCue ==
  ASSUME NEW s \in Symbols, NEW warmup \in Instants, NEW target \in Instants, warmup <= target,
         NEW cur, cur = IF Rows(s, warmup, target) = <<>> THEN NoCursor
                        ELSE CursorAt(Rows(s, warmup, target)[Len(Rows(s, warmup, target))]),
         NEW b, b.from = warmup, b.after = NoCursor, b.mark = 0
  PROVE  /\ cur \in Cursors
         /\ Ordered(Eligible(Window(s, warmup, target))) \in Seq(Event)
         /\ Continues(Ordered(Eligible(Window(s, warmup, target))), s, b, cur, target)
<1> DEFINE window == Window(s, warmup, target)
           shown == Eligible(window)
           last == Ordered(window)[Len(Ordered(window))]
<1>1. window \in SUBSET Recording[s] /\ shown \in SUBSET Recording[s]
  BY DEF Window, Eligible
<1>2. Ordered(shown) \in Seq(Event)
  BY <1>1, OrderedTyped
<1>3. \A e \in Recording[s] : After(e, NoCursor)
  BY DEF After, NoCursor
<1>4. /\ cur \in Cursors
      /\ Played(s, warmup, NoCursor, cur) = shown
      /\ \A e \in Recording[s] : After(e, cur) => (e.us >= warmup => e.us >= target)
  <2>1. CASE window = {}
    <3>1. cur = NoCursor
      BY <1>1, <2>1, OrderedEmpty DEF Rows
    <3>2. \A e \in Recording[s] : e.us >= warmup => e.us >= target
      BY <2>1, RecordedEvents DEF Window, Instants
    <3>3. QED
      BY <2>1, <3>1, <3>2 DEF NoCursor, Cursors, Played, Eligible
  <2>2. CASE window # {}
    <3>1. cur = CursorAt(last)
      BY <1>1, <2>2, OrderedEmpty DEF Rows
    <3>2. last \in window /\ \A e \in window : e = last \/ RowBefore(e, last)
      BY <1>1, <2>2, OrderedLast
    <3> HIDE DEF last
    <3>3. last \in Recording[s] /\ cur \in Cursors /\ cur.valid
      BY <1>1, <3>1, <3>2, CursorOfEvent
    <3>4. \A e \in window : ~After(e, cur)
      BY <1>1, <3>1, <3>2, <3>3, AfterIsLater, RowsAreOrdered
    <3>5. \A e \in Recording[s] : ~After(e, cur) => e.us <= target
      <4> SUFFICES ASSUME NEW e \in Recording[s], ~After(e, cur) PROVE e.us <= target
        OBVIOUS
      <4>1. ~RowBefore(last, e)
        BY <3>1, <3>3, AfterIsLater
      <4>2. e.us <= last.us
        BY <3>3, <4>1, RecordedEvents DEF RowBefore
      <4>3. last.us <= target
        BY <3>2 DEF Window
      <4>4. QED
        BY <3>3, <4>2, <4>3, RecordedEvents DEF Instants
    <3>6. Played(s, warmup, NoCursor, cur) = shown
      BY <1>3, <3>3, <3>4, <3>5 DEF Played, Eligible, Window
    <3>7. \A e \in Recording[s] : After(e, cur) => (e.us >= warmup => e.us >= target)
      BY <3>4, RecordedEvents DEF Window, Instants
    <3>8. QED
      BY <3>3, <3>6, <3>7
  <2>3. QED
    BY <2>1, <2>2
<1>5. SubSeq(Ordered(shown), 1, Len(Ordered(shown))) = Ordered(shown)
  BY <1>2
<1>6. 0 <= Len(Ordered(shown)) /\ 0 + 1 = 1
  BY <1>2
<1> HIDE DEF shown
<1>7. Continues(Ordered(shown), s, b, cur, target)
  BY <1>3, <1>4, <1>5, <1>6 DEF Continues
<1>8. QED
  BY <1>2, <1>4, <1>7 DEF shown

\* What is left after the first of what is left is the rest.
LEMMA RemainingNext ==
  ASSUME NEW s \in Symbols, NEW cur \in Cursors, NEW clock \in Nat,
         NEW req, req.symbol = s, req.end \in Nat,
         Remaining(req, clock, cur) # {},
         NEW e, e = Head(Ordered(Remaining(req, clock, cur)))
  PROVE  Remaining(req, e.us, CursorAt(e)) = Remaining(req, clock, cur) \ {e}
<1> DEFINE left == Remaining(req, clock, cur)
<1>1. left \in SUBSET Recording[s]
  BY DEF Remaining, Window
<1>2. e \in left /\ \A f \in left : f = e \/ RowBefore(e, f)
  BY <1>1, OrderedHead
<1>3. e \in Recording[s] /\ e.us >= clock /\ e.us <= req.end /\ After(e, cur)
  BY <1>1, <1>2 DEF Remaining, Window
<1>5. \A f \in Recording[s] : After(f, CursorAt(e)) <=> RowBefore(e, f)
  BY <1>3, AfterIsLater
<1>6. \A f \in Recording[s] : RowBefore(e, f) => f.us >= e.us /\ After(f, cur)
  BY <1>3, CursorsAreOrdered, RecordedEvents DEF RowBefore
<1>7. Remaining(req, e.us, CursorAt(e)) = left \ {e}
  <2>1. ASSUME NEW f \in left, f # e PROVE f \in Remaining(req, e.us, CursorAt(e))
    BY <1>1, <1>2, <1>5, <1>6, <2>1 DEF Remaining, Window
  <2>2. ASSUME NEW f \in Remaining(req, e.us, CursorAt(e)) PROVE f \in left /\ f # e
    <3>1. f \in Recording[s] /\ f.us >= e.us /\ f.us <= req.end /\ RowBefore(e, f)
      BY <1>5 DEF Remaining, Window
    <3>2. f.us >= clock
      BY <1>3, <3>1, RecordedEvents
    <3>3. f # e
      BY <1>3, <3>1, RowsAreOrdered
    <3>4. QED
      BY <1>6, <3>1, <3>2, <3>3 DEF Remaining, Window
  <2>3. QED
    BY <2>1, <2>2
<1>8. QED
  BY <1>7

\* The next row of what is left: it comes after all that was played, and what is left
\* after it is the rest.
LEMMA ContinuesNext ==
  ASSUME NEW s \in Symbols, NEW content \in Seq(Event), NEW cur \in Cursors, NEW clock \in Nat,
         NEW req, req.symbol = s, req.end \in Nat,
         NEW b, b.from \in Nat, b.after \in Cursors, b.mark \in Nat,
         Continues(content, s, b, cur, clock),
         Remaining(req, clock, cur) # {},
         NEW e, e = Head(Ordered(Remaining(req, clock, cur)))
  PROVE  /\ e \in Recording[s]
         /\ Continues(Applied(content, e), s, b, CursorAt(e), e.us)
         /\ Tail(Ordered(Remaining(req, clock, cur))) = Ordered(Remaining(req, e.us, CursorAt(e)))
<1> DEFINE left == Remaining(req, clock, cur)
           old == Played(s, b.from, b.after, cur)
           new == Played(s, b.from, b.after, CursorAt(e))
<1>1. left \in SUBSET Recording[s] /\ old \in SUBSET Recording[s]
  BY DEF Remaining, Window, Played, Eligible
<1>2. /\ e \in left /\ Tail(Ordered(left)) = Ordered(left \ {e})
      /\ \A f \in left : f = e \/ RowBefore(e, f)
  BY <1>1, OrderedHead
<1>3. /\ e \in Recording[s] /\ e.us >= clock /\ e.us <= req.end /\ After(e, cur)
      /\ e.us \in Nat
  BY <1>1, <1>2, RecordedEvents DEF Remaining, Window
<1>4. CursorAt(e) \in Cursors /\ CursorAt(e).valid /\ ~After(e, CursorAt(e))
  BY <1>3, CursorOfEvent
<1>5. \A f \in Recording[s] : After(f, CursorAt(e)) <=> RowBefore(e, f)
  BY <1>3, AfterIsLater
<1>6. \A f \in Recording[s] : RowBefore(e, f) => f.us >= e.us /\ After(f, cur)
  BY <1>3, CursorsAreOrdered, RecordedEvents DEF RowBefore
<1>7. b.from <= clock
      /\ \A f \in Recording[s] :
           After(f, cur) => After(f, b.after) /\ (f.us >= b.from => f.us >= clock)
  BY DEF Continues
<1>8. Remaining(req, e.us, CursorAt(e)) = left \ {e}
  BY RemainingNext
\* Nothing lies between the old cursor and the new one.
<1>9. \A f \in Recording[s] : f.us >= b.from /\ After(f, cur) => f = e \/ RowBefore(e, f)
  <2> SUFFICES ASSUME NEW f \in Recording[s], f.us >= b.from, After(f, cur), ~RowBefore(e, f)
               PROVE  f = e
    OBVIOUS
  <2>1. f.us <= e.us
    BY <1>3, RecordedEvents DEF RowBefore
  <2>2. f.us >= clock /\ f.us <= req.end
    BY <1>3, <1>7, <2>1, RecordedEvents
  <2>3. f \in left
    BY <2>2 DEF Remaining, Window
  <2>4. QED
    BY <1>2, <2>3
<1>10. e.us >= b.from /\ After(e, b.after)
  BY <1>3, <1>7
<1>11. \A f \in old : RowBefore(f, e)
  BY <1>3, CursorsAreOrdered DEF Played, Eligible
<1>12. new = IF e.eligible THEN old \cup {e} ELSE old
  <2>1. ASSUME NEW f \in old PROVE f \in new /\ f # e
    <3>1. f \in Recording[s] /\ RowBefore(f, e) /\ ~RowBefore(e, f) /\ f # e
      BY <1>1, <1>3, <1>11, RowsAreOrdered
    <3>2. QED
      BY <1>4, <1>5, <3>1 DEF Played
  <2>2. ASSUME NEW f \in new, f # e PROVE f \in old
    <3>1. /\ f \in Recording[s] /\ f.eligible /\ f.us >= b.from /\ After(f, b.after)
          /\ ~RowBefore(e, f)
      BY <1>5 DEF Played, Eligible
    <3>2. ~After(f, cur)
      BY <1>9, <2>2, <3>1
    <3>3. cur.valid
      BY <3>2 DEF After
    <3>4. QED
      BY <3>1, <3>2, <3>3 DEF Played, Eligible
  <2>3. e \in new <=> e.eligible
    BY <1>3, <1>4, <1>10 DEF Played, Eligible
  <2> HIDE DEF old, new
  <2>4. CASE e.eligible
    <3>1. \A f : f \in new <=> f \in old \/ f = e
      BY <2>1, <2>2, <2>3, <2>4
    <3>2. new = old \cup {e}
      BY <3>1
    <3>3. QED
      BY <2>4, <3>2
  <2>5. CASE ~e.eligible
    <3>1. \A f : f \in new <=> f \in old
      BY <2>1, <2>2, <2>3, <2>5
    <3>2. new = old
      BY <3>1
    <3>3. QED
      BY <2>5, <3>2
  <2>6. QED
    BY <2>4, <2>5
<1>13. Applied(content, e) \in Seq(Event) /\ b.mark <= Len(Applied(content, e))
  <2>1. e \in Event /\ b.mark <= Len(content)
    BY <1>3, RecordedEvents DEF Continues
  <2>2. QED
    BY <2>1 DEF Applied
<1>14. SubSeq(Applied(content, e), b.mark + 1, Len(Applied(content, e))) = Ordered(new)
  <2>1. SubSeq(content, b.mark + 1, Len(content)) = Ordered(old) /\ b.mark <= Len(content)
    BY DEF Continues
  <2> HIDE DEF old, new
  <2>2. CASE ~e.eligible
    BY <1>12, <2>1, <2>2 DEF Applied
  <2>3. CASE e.eligible
    <3>1. Ordered(new) = Append(Ordered(old), e)
      BY <1>1, <1>3, <1>11, <1>12, <2>3, OrderedAppend
    <3>2. e \in Event
      BY <1>3, RecordedEvents
    <3>3. Applied(content, e) = Append(content, e)
      BY <2>3 DEF Applied
    <3>4. SubSeq(Append(content, e), b.mark + 1, Len(Append(content, e)))
            = Append(SubSeq(content, b.mark + 1, Len(content)), e)
      BY <2>1, <3>2, SubSeqAppend
    <3>5. QED
      BY <2>1, <3>1, <3>3, <3>4
  <2>4. QED
    BY <2>2, <2>3
<1>15. b.from <= e.us
  BY <1>10, <1>3
<1>16. \A f \in Recording[s] :
         After(f, CursorAt(e)) => After(f, b.after) /\ (f.us >= b.from => f.us >= e.us)
  BY <1>5, <1>6, <1>7
<1>17. Continues(Applied(content, e), s, b, CursorAt(e), e.us)
  BY <1>13, <1>14, <1>15, <1>16 DEF Continues
<1>18. QED
  BY <1>2, <1>3, <1>8, <1>17

-----------------------------------------------------------------------------
(* The steps keep it so.                                                     *)

\* The type invariant without the goroutines, and what it says of them.
OuterTyped ==
  /\ tape \in [Symbols -> Seq(Event)]
  /\ active \in Symbols
  /\ state \in [state : States, symbol : Symbols, position : Nat, generation : Nat]
  /\ feed \in States
  /\ request \in Request \cup {NoRequest}
  /\ cursor \in Cursors
  /\ resumeUS \in Nat
  /\ generation \in 0 .. MaxGeneration
  /\ cancel \in 0 .. generation
  /\ control.op \in {"idle", "launch", "cue"}

WorkTyped ==
  \A g \in 1 .. MaxGeneration :
    /\ plays[g].phase \in {"none", "reading", "done"}
    /\ plays[g].phase # "none" => g <= generation /\ plays[g].symbol \in Symbols
    /\ plays[g].rows \in Seq(Event)

LEMMA TypeParts == ReplayTypeOK <=> OuterTyped /\ WorkTyped
BY DEF ReplayTypeOK, OuterTyped, WorkTyped

\* A cancelled goroutine keeps its work.
LEMMA CancelledWork ==
  ASSUME PlaysTyped
  PROVE  \A g \in 1 .. MaxGeneration :
           /\ Cancelled[g].phase = plays[g].phase /\ Cancelled[g].symbol = plays[g].symbol
           /\ Cancelled[g].rows = plays[g].rows
<1> SUFFICES ASSUME NEW g \in 1 .. MaxGeneration
             PROVE  /\ Cancelled[g].phase = plays[g].phase
                    /\ Cancelled[g].symbol = plays[g].symbol
                    /\ Cancelled[g].rows = plays[g].rows
  OBVIOUS
<1>1. DOMAIN plays[g] = PlayFields /\ g \in DOMAIN plays
  BY DEF PlaysTyped
<1>2. Cancelled[g] = plays[g] \/ Cancelled[g] = [plays[g] EXCEPT !.cancelled = TRUE]
  BY <1>1 DEF Cancelled
<1>3. QED
  BY <1>1, <1>2 DEF PlayFields

\* What an operation's supersession does to the goroutines.
LEMMA SupersededWork ==
  ASSUME ReplayInv, ExactInv, Supersede, generation < MaxGeneration
  PROVE  /\ generation' \in 1 .. MaxGeneration /\ cancel' \in 0 .. generation'
         /\ WorkTyped'
         /\ plays'[generation'].phase = "none"
         /\ \A g \in 1 .. MaxGeneration : plays'[g].phase = plays[g].phase
<1>1. /\ generation \in 0 .. MaxGeneration /\ MaxGeneration \in Nat
      /\ generation' = generation + 1 /\ cancel' = 0 /\ plays' = Cancelled
  BY ReplayAssumption DEF ReplayInv, PlaysTyped, Supersede
<1>2. \A g \in 1 .. MaxGeneration :
        /\ plays'[g].phase = plays[g].phase /\ plays'[g].symbol = plays[g].symbol
        /\ plays'[g].rows = plays[g].rows
  BY <1>1, CancelledWork DEF ReplayInv
<1>3. WorkTyped
  BY TypeParts DEF ExactInv
<1>4. WorkTyped'
  BY <1>1, <1>2, <1>3 DEF WorkTyped
<1>5. plays'[generation'].phase = "none"
  BY <1>1, <1>2 DEF ReplayInv, PlaysTyped
<1>6. QED
  BY <1>1, <1>2, <1>4, <1>5

\* Start, SeekTo: the tape is cleared and a launch from its beginning is to come.
LEMMA ClearedKeepsExact ==
  ASSUME ReplayInv, ExactInv,
         NEW s \in Symbols, tape' = [tape EXCEPT ![s] = <<>>], active' \in Symbols,
         NEW req \in Request, req.end > 0, NEW from \in Instants,
         Launching(req, from, NoCursor, TRUE),
         UNCHANGED <<state, feed, request, cursor, resumeUS, generation, cancel, plays, began>>
  PROVE  ExactInv'
<1>1. /\ control'.op = "launch" /\ control'.request = req /\ control'.from = from
      /\ control'.cursor = NoCursor /\ control'.fresh = TRUE
  BY DEF Launching
<1>2. OuterTyped /\ WorkTyped
  BY TypeParts DEF ExactInv
<1>3. tape' \in [Symbols -> Seq(Event)]
  BY <1>2 DEF OuterTyped
<1>4. OuterTyped' /\ WorkTyped'
  BY <1>1, <1>2, <1>3 DEF OuterTyped, WorkTyped
<1>5. ReplayTypeOK'
  BY <1>4 DEF ReplayTypeOK, OuterTyped, WorkTyped
<1>6. OperationTyped'
  BY <1>1 DEF OperationTyped, Cursors
<1>7. BeganTyped' /\ RequestLaunched'
  BY DEF ExactInv, BeganTyped, RequestLaunched
<1>8. GoroutineFollows' /\ TapeContinues'
  BY <1>1 DEF ExactInv, GoroutineFollows, TapeContinues, Remaining, Window
<1>9. QED
  BY <1>5, <1>6, <1>7, <1>8 DEF ExactInv

LEMMA ResumeKeepsExact ==
  ASSUME ReplayInv, ExactInv, Resume
  PROVE  ExactInv'
<1>1. /\ control.op = "idle" /\ state.state = "paused"
      /\ UNCHANGED <<tape, active, state, feed, request, cursor, resumeUS, generation, cancel,
                     plays, began>>
  BY DEF Resume, Begins, Idle
<1>2. OuterTyped /\ WorkTyped
  BY TypeParts DEF ExactInv
<1>3. request # NoRequest /\ request \in Request /\ request.end > 0 /\ resumeUS > 0
  BY <1>1 DEF ExactInv, RequestLaunched
<1>4. /\ control'.op = "launch" /\ control'.request = request /\ control'.from = resumeUS
      /\ control'.cursor = cursor /\ control'.fresh = FALSE
  <2>1. ~(resumeUS <= 0)
    BY <1>2, <1>3 DEF OuterTyped
  <2>2. QED
    BY <2>1 DEF Resume, Launching
<1>5. generation > 0 => plays[generation].phase # "reading"
  <2> SUFFICES ASSUME generation > 0, plays[generation].phase = "reading" PROVE FALSE
    OBVIOUS
  <2>1. Alive(generation)
    BY DEF ExactInv, GoroutineFollows, Alive
  <2>2. ~Alive(generation)
    BY <1>1 DEF ReplayInv, StatusIsTruthful
  <2>3. QED
    BY <2>1, <2>2
<1>6. ReplayTypeOK'
  BY <1>1, <1>2, <1>4 DEF ReplayTypeOK, OuterTyped, WorkTyped
<1>7. OperationTyped'
  <2>1. resumeUS \in Instants /\ cursor \in Cursors
    BY <1>2, <1>3 DEF OuterTyped, Instants
  <2>2. control'.fresh \in BOOLEAN /\ ~control'.fresh
    BY <1>4
  <2>3. control'.op # "cue"
    BY <1>4
  <2>4. QED
    BY <1>3, <1>4, <2>1, <2>2, <2>3 DEF OperationTyped
<1>8. BeganTyped' /\ RequestLaunched'
  BY <1>1 DEF ExactInv, BeganTyped, RequestLaunched
<1>9. GoroutineFollows' /\ TapeContinues'
  BY <1>1, <1>3, <1>4, <1>5 DEF ExactInv, GoroutineFollows, TapeContinues, Remaining, Window
<1>10. QED
  BY <1>6, <1>7, <1>8, <1>9 DEF ExactInv

\* Pause, Stop and Track: nobody plays any more, and no operation is in flight.
LEMMA SupersededKeepsExact ==
  ASSUME ReplayInv, ExactInv, Supersede, generation < MaxGeneration,
         control.op = "idle", control' = control,
         state' \in [state : States, symbol : Symbols, position : Nat, generation : Nat],
         request = NoRequest => state'.state = "stopped",
         feed' = state'.state,
         UNCHANGED <<tape, active, request, cursor>>,
         \/ UNCHANGED <<resumeUS, began>>
         \/ \E target \in Instants :
              /\ request # NoRequest /\ resumeUS' = target
              /\ began' = [began EXCEPT ![request.symbol] =
                   [how |-> "followed", from |-> target, after |-> cursor,
                    mark |-> Len(tape[request.symbol])]]
  PROVE  ExactInv'
<1>1. OuterTyped /\ WorkTyped
  BY TypeParts DEF ExactInv
<1>2. /\ generation' \in 1 .. MaxGeneration /\ cancel' \in 0 .. generation'
      /\ WorkTyped' /\ plays'[generation'].phase = "none"
      /\ \A g \in 1 .. MaxGeneration : plays'[g].phase = plays[g].phase
  BY SupersededWork
<1>3. OuterTyped'
  <2>1. resumeUS' \in Nat
    BY <1>1 DEF OuterTyped, Instants
  <2>2. feed' \in States
    OBVIOUS
  <2>3. generation' \in 0 .. MaxGeneration
    BY <1>2, ReplayAssumption
  <2>4. QED
    BY <1>1, <1>2, <2>1, <2>2, <2>3 DEF OuterTyped
<1>4. ReplayTypeOK'
  BY <1>2, <1>3 DEF ReplayTypeOK, OuterTyped, WorkTyped
<1>5. OperationTyped'
  BY DEF OperationTyped
<1>6. request # NoRequest => request \in Request /\ request.symbol \in Symbols
  BY <1>1 DEF OuterTyped, Request
<1>7. RequestLaunched'
  <2>0. resumeUS' = resumeUS \/ resumeUS' \in Instants
    OBVIOUS
  <2>1. request # NoRequest => request \in Request /\ request.end > 0 /\ resumeUS' > 0
    BY <2>0 DEF ExactInv, RequestLaunched, Instants
  <2>2. request = NoRequest => \A g \in 1 .. MaxGeneration : plays'[g].phase = "none"
    BY <1>2 DEF ExactInv, RequestLaunched
  <2>3. QED
    BY <2>1, <2>2 DEF RequestLaunched
<1>8. GoroutineFollows'
  BY <1>2 DEF GoroutineFollows
<1>9. CASE UNCHANGED <<resumeUS, began>>
  <2>1. BeganTyped' /\ TapeContinues'
    BY <1>9 DEF ExactInv, BeganTyped, TapeContinues
  <2>2. QED
    BY <1>4, <1>5, <1>7, <1>8, <2>1 DEF ExactInv
<1>10. ASSUME NEW target \in Instants, request # NoRequest, resumeUS' = target,
              began' = [began EXCEPT ![request.symbol] =
                [how |-> "followed", from |-> target, after |-> cursor,
                 mark |-> Len(tape[request.symbol])]]
       PROVE  ExactInv'
  <2> DEFINE s == request.symbol
             b == [how |-> "followed", from |-> target, after |-> cursor, mark |-> Len(tape[s])]
  <2>1. s \in Symbols /\ tape[s] \in Seq(Event) /\ cursor \in Cursors /\ target \in Nat
    BY <1>1, <1>6, <1>10 DEF OuterTyped, Instants
  <2>2. b.from = target /\ b.after = cursor /\ b.mark = Len(tape[s]) /\ b.mark \in Nat
    BY <2>1
  <2>3. DOMAIN began = Symbols /\ began' = [began EXCEPT ![s] = b]
    BY <1>10 DEF ExactInv, BeganTyped
  <2> HIDE DEF b
  <2>4. BeganTyped' /\ began'[s] = b
    BY <2>1, <2>2, <2>3 DEF ExactInv, BeganTyped
  <2>5. Continues(tape[s], s, b, cursor, target)
    BY <2>1, <2>2, ContinuesAfresh
  <2>6. TapeContinues'
    BY <1>10, <2>4, <2>5 DEF TapeContinues
  <2>7. QED
    BY <1>4, <1>5, <1>7, <1>8, <2>4, <2>6 DEF ExactInv
<1>11. QED
  BY <1>9, <1>10

LEMMA TrackHasRequest ==
  ASSUME NEW s \in Symbols, NEW target \in Instants, Track(s, target)
  PROVE  request # NoRequest
<1>1. target <= request.end
  BY DEF Track
<1>2. NoRequest.end = 0
  BY DEF NoRequest
<1>3. QED
  BY <1>1, <1>2 DEF Instants

LEMMA OperateKeepsExact ==
  ASSUME ReplayInv, ExactInv, Operates
  PROVE  ExactInv'
<1>0. OuterTyped /\ WorkTyped
  BY TypeParts DEF ExactInv
<1>1. ASSUME NEW s \in Symbols, NEW start \in Instants, NEW end \in Instants, Start(s, start, end)
      PROVE  ExactInv'
  <2> DEFINE req == [symbol |-> s, start |-> start, end |-> end]
  <2>1. req \in Request /\ req.end > 0
    BY DEF Request, Instants
  <2>2. /\ tape' = [tape EXCEPT ![s] = <<>>] /\ active' \in Symbols
        /\ Launching(req, start, NoCursor, TRUE)
        /\ UNCHANGED <<state, feed, request, cursor, resumeUS, generation, cancel, plays, began>>
    BY <1>1 DEF Start
  <2> HIDE DEF req
  <2>3. QED
    BY <2>1, <2>2, ClearedKeepsExact
<1>2. ASSUME NEW target \in Instants, SeekTo(target)
      PROVE  ExactInv'
  <2>1. request # NoRequest
    BY <1>2 DEF SeekTo
  <2>2. request \in Request /\ request.end > 0 /\ request.symbol \in Symbols
    BY <1>0, <2>1 DEF ExactInv, RequestLaunched, Request
  <2>3. /\ tape' = [tape EXCEPT ![request.symbol] = <<>>] /\ active' \in Symbols
        /\ Launching(request, target, NoCursor, TRUE)
        /\ UNCHANGED <<state, feed, request, cursor, resumeUS, generation, cancel, plays, began>>
    BY <1>0, <1>2 DEF SeekTo, OuterTyped
  <2>4. QED
    BY <2>2, <2>3, ClearedKeepsExact
<1>3. CASE Resume
  BY <1>3, ResumeKeepsExact
<1>4. CASE Pause \/ Stop \/ \E s \in Symbols, target \in Instants : Track(s, target)
  <2>1. Begins(1) /\ Supersede /\ control' = control /\ UNCHANGED <<tape, active, request, cursor>>
    BY <1>4 DEF Pause, Stop, Track
  <2>2. control.op = "idle" /\ generation < MaxGeneration
    BY <2>1, BeginsIdle
  <2>3. generation' \in Nat
    BY <1>0, <2>1 DEF Supersede, OuterTyped
  <2>4. /\ state' \in [state : States, symbol : Symbols, position : Nat, generation : Nat]
        /\ feed' = state'.state
    BY <1>0, <1>4, <2>3 DEF Pause, Stop, Track, Report, OuterTyped, States, Instants
  <2>5. request = NoRequest => state'.state = "stopped"
    <3>1. CASE Pause
      BY <3>1 DEF Pause, ExactInv, RequestLaunched
    <3>2. CASE Stop
      BY <1>0, <3>2 DEF Stop, Report, OuterTyped
    <3>3. CASE \E s \in Symbols, target \in Instants : Track(s, target)
      BY <3>3, TrackHasRequest
    <3>4. QED
      BY <1>4, <3>1, <3>2, <3>3
  <2>6. \/ UNCHANGED <<resumeUS, began>>
        \/ \E target \in Instants :
             /\ request # NoRequest /\ resumeUS' = target
             /\ began' = [began EXCEPT ![request.symbol] =
                  [how |-> "followed", from |-> target, after |-> cursor,
                   mark |-> Len(tape[request.symbol])]]
    <3>1. CASE Pause \/ Stop
      BY <3>1 DEF Pause, Stop
    <3>2. ASSUME NEW s \in Symbols, NEW target \in Instants, Track(s, target)
          PROVE  /\ request # NoRequest /\ resumeUS' = target
                 /\ began' = [began EXCEPT ![request.symbol] =
                      [how |-> "followed", from |-> target, after |-> cursor,
                       mark |-> Len(tape[request.symbol])]]
      BY <3>2, TrackHasRequest DEF Track
    <3>3. QED
      BY <1>4, <3>1, <3>2
  <2>7. QED
    BY <2>1, <2>2, <2>4, <2>5, <2>6, SupersededKeepsExact
<1>5. ASSUME NEW s \in Symbols, SetSymbol(s)
      PROVE  ExactInv'
  <2>1. /\ UNCHANGED <<tape, feed, request, cursor, resumeUS, generation, cancel, plays, control,
                       began>>
        /\ state' = [state EXCEPT !.symbol = s] /\ active' = s
    BY <1>5 DEF SetSymbol
  <2>2. /\ state' \in [state : States, symbol : Symbols, position : Nat, generation : Nat]
        /\ state'.state = state.state
    BY <1>0, <2>1 DEF OuterTyped
  <2>3. ReplayTypeOK'
    BY <1>0, <2>1, <2>2 DEF ReplayTypeOK, OuterTyped, WorkTyped
  <2>4. OperationTyped' /\ BeganTyped' /\ RequestLaunched'
    BY <2>1, <2>2 DEF ExactInv, OperationTyped, BeganTyped, RequestLaunched
  <2>5. GoroutineFollows' /\ TapeContinues'
    BY <2>1 DEF ExactInv, GoroutineFollows, TapeContinues, Remaining, Window
  <2>6. QED
    BY <2>3, <2>4, <2>5 DEF ExactInv
<1>6. ASSUME NEW s \in Symbols, NEW warmup \in Instants, NEW target \in Instants, NEW end \in Instants,
             NEW playing \in BOOLEAN, NEW asked \in BOOLEAN,
             Cue(s, warmup, target, end, playing, asked)
      PROVE  ExactInv'
  <2>1. /\ Supersede /\ warmup <= target /\ target <= end /\ generation < MaxGeneration
        /\ UNCHANGED <<tape, active, state, feed, request, cursor, resumeUS, began>>
    BY <1>0, <1>6, ReplayAssumption DEF Cue, Begins, OuterTyped
  <2>2. /\ control'.op = "cue" /\ control'.warmup = warmup /\ control'.target = target
        /\ control'.request = [symbol |-> s, start |-> IF asked THEN target ELSE 0, end |-> end]
    BY <1>6 DEF Cue
  <2>3. control'.request \in Request /\ control'.request.end > 0
    BY <2>2 DEF Request, Instants
  <2>4. /\ generation' \in 1 .. MaxGeneration /\ cancel' \in 0 .. generation'
        /\ WorkTyped' /\ plays'[generation'].phase = "none"
        /\ \A g \in 1 .. MaxGeneration : plays'[g].phase = plays[g].phase
    BY <2>1, SupersededWork
  <2>5. OuterTyped'
    BY <1>0, <2>1, <2>2, <2>4, ReplayAssumption DEF OuterTyped
  <2>6. ReplayTypeOK'
    BY <2>4, <2>5 DEF ReplayTypeOK, OuterTyped, WorkTyped
  <2>7. OperationTyped' /\ BeganTyped' /\ RequestLaunched'
    BY <2>1, <2>2, <2>3, <2>4 DEF ExactInv, OperationTyped, BeganTyped, RequestLaunched
  <2>8. control.op = "idle"
    BY <1>6 DEF Cue, Begins, Idle
  <2>9. GoroutineFollows' /\ TapeContinues'
    BY <2>1, <2>2, <2>4, <2>8 DEF ExactInv, GoroutineFollows, TapeContinues
  <2>10. QED
    BY <2>6, <2>7, <2>9 DEF ExactInv
<1>7. QED
  BY <1>1, <1>2, <1>3, <1>4, <1>5, <1>6 DEF Operates

\* A goroutine that ends.
LEMMA EndedKeepsExact ==
  ASSUME ReplayInv, ExactInv, NEW g \in 1 .. generation,
         plays[g].phase = "reading",
         plays' = [plays EXCEPT ![g].phase = "done", ![g].rows = <<>>],
         state' \in [state : States, symbol : Symbols, position : Nat, generation : Nat],
         feed' \in States, cancel' \in 0 .. generation,
         UNCHANGED <<tape, active, request, cursor, resumeUS, generation, control, began>>
  PROVE  ExactInv'
<1>1. g \in 1 .. MaxGeneration /\ generation \in 0 .. MaxGeneration /\ MaxGeneration \in Nat
  BY ReplayAssumption DEF ReplayInv, PlaysTyped
<1>2. OuterTyped /\ WorkTyped
  BY TypeParts DEF ExactInv
<1>3. DOMAIN plays = 1 .. MaxGeneration /\ DOMAIN plays[g] = PlayFields
  BY <1>1 DEF ReplayInv, PlaysTyped
<1>4. /\ \A h \in 1 .. MaxGeneration \ {g} : plays'[h] = plays[h]
      /\ plays'[g].phase = "done" /\ plays'[g].rows = <<>> /\ plays'[g].symbol = plays[g].symbol
  BY <1>1, <1>3 DEF PlayFields
<1>5. WorkTyped'
  <2> SUFFICES ASSUME NEW h \in 1 .. MaxGeneration
               PROVE  /\ plays'[h].phase \in {"none", "reading", "done"}
                      /\ plays'[h].phase # "none" => h <= generation /\ plays'[h].symbol \in Symbols
                      /\ plays'[h].rows \in Seq(Event)
    BY DEF WorkTyped
  <2>1. CASE h = g
    <3>1. plays[g].symbol \in Symbols /\ g <= generation
      BY <1>1, <1>2 DEF WorkTyped
    <3>2. <<>> \in Seq(Event)
      OBVIOUS
    <3>3. QED
      BY <1>4, <2>1, <3>1, <3>2
  <2>2. CASE h # g
    BY <1>1, <1>2, <1>4, <2>2 DEF WorkTyped
  <2>3. QED
    BY <2>1, <2>2
<1>6. OuterTyped'
  BY <1>2 DEF OuterTyped
<1>7. ReplayTypeOK'
  BY <1>5, <1>6 DEF ReplayTypeOK, OuterTyped, WorkTyped
<1>8. OperationTyped' /\ BeganTyped' /\ TapeContinues'
  BY DEF ExactInv, OperationTyped, BeganTyped, TapeContinues
<1>9. RequestLaunched'
  BY <1>1 DEF ExactInv, RequestLaunched
<1>10. GoroutineFollows'
  <2>1. CASE g = generation
    <3>1. plays'[generation].phase # "reading" /\ generation > 0
      BY <1>1, <1>4, <2>1
    <3>2. control.op # "launch" \/ control.fresh
      BY <2>1, <3>1 DEF ExactInv, GoroutineFollows
    <3>3. QED
      BY <3>1, <3>2 DEF GoroutineFollows
  <2>2. CASE g # generation
    <3>1. generation > 0 => plays'[generation] = plays[generation]
      <4>1. generation > 0 => generation \in 1 .. MaxGeneration \ {g}
        BY <1>1, <2>2
      <4>2. QED
        BY <1>4, <4>1
    <3>2. QED
      BY <3>1 DEF ExactInv, GoroutineFollows, Remaining, Window
  <2>3. QED
    BY <2>1, <2>2
<1>11. QED
  BY <1>7, <1>8, <1>9, <1>10 DEF ExactInv

\* The newest goroutine applies its next row.
LEMMA NextKeepsExact ==
  ASSUME ReplayInv, ExactInv, generation > 0, PlayNext(generation)
  PROVE  ExactInv'
<1> DEFINE g == generation
           s == request.symbol
           b == began[s]
           e == Head(plays[g].rows)
           left == Remaining(request, resumeUS, cursor)
<1>1. g \in 1 .. MaxGeneration /\ generation \in 0 .. MaxGeneration /\ MaxGeneration \in Nat
  BY ReplayAssumption DEF ReplayInv, PlaysTyped
<1>2. OuterTyped /\ WorkTyped
  BY TypeParts DEF ExactInv
<1>3. /\ plays[g].phase = "reading" /\ plays[g].rows # <<>>
      /\ plays' = [plays EXCEPT ![g].rows = Tail(@)]
      /\ tape' = [tape EXCEPT ![plays[g].symbol] = Applied(@, e)]
      /\ cursor' = CursorAt(e) /\ resumeUS' = e.us
      /\ state' = [state EXCEPT !.position = e.us]
      /\ UNCHANGED <<active, feed, request, generation, cancel, control, began>>
  BY DEF PlayNext
<1>4. /\ request # NoRequest /\ plays[g].symbol = s /\ plays[g].rows = Ordered(left)
      /\ ~plays[g].cancelled
  BY <1>1, <1>3 DEF ExactInv, GoroutineFollows
<1>5. request \in Request /\ request.end > 0 /\ s \in Symbols /\ request.end \in Nat
  BY <1>2, <1>4 DEF ExactInv, RequestLaunched, Request
<1>6. /\ tape[s] \in Seq(Event) /\ cursor \in Cursors /\ resumeUS \in Nat
      /\ b.from \in Nat /\ b.after \in Cursors /\ b.mark \in Nat
  BY <1>2, <1>5 DEF OuterTyped, ExactInv, BeganTyped
<1>7. left \in SUBSET Recording[s] /\ left # {} /\ e = Head(Ordered(left))
  <2>1. left \in SUBSET Recording[s]
    BY DEF Remaining, Window
  <2>2. Ordered(left) # <<>>
    BY <1>3, <1>4
  <2>3. QED
    BY <1>4, <1>5, <2>1, <2>2, OrderedEmpty
\* A launch that goes on waits for no reading goroutine.
<1>8. control.op # "launch" \/ control.fresh
  BY <1>1, <1>3 DEF ExactInv, GoroutineFollows
<1>9. CursorAt(e) \in Cursors /\ e \in Event /\ e.us \in Nat \ {0}
  <2>1. e \in Recording[s]
    BY <1>5, <1>7, OrderedHead
  <2>2. QED
    BY <1>5, <2>1, CursorOfEvent, RecordedEvents
<1>10. /\ Tail(plays[g].rows) = Ordered(Remaining(request, e.us, CursorAt(e)))
       /\ Tail(plays[g].rows) \in Seq(Event)
  <2>1. Tail(Ordered(left)) = Ordered(left \ {e})
    BY <1>5, <1>7, OrderedHead
  <2>2. PICK f : f \in Recording[s] /\ f = e
    BY <1>5, <1>7, OrderedHead
  <2>3. Remaining(request, e.us, CursorAt(e)) = left \ {e}
    BY <1>5, <1>6, <1>7, RemainingNext
  <2>4. left \ {e} \in SUBSET Recording[s]
    BY <1>7
  <2>5. QED
    BY <1>4, <1>5, <2>1, <2>3, <2>4, OrderedTyped
<1>11. Applied(tape[s], e) \in Seq(Event)
  BY <1>6, <1>9 DEF Applied
<1>12. tape' = [tape EXCEPT ![s] = Applied(tape[s], e)]
  BY <1>3, <1>4
<1> HIDE DEF e
<1>13. /\ DOMAIN plays = 1 .. MaxGeneration /\ DOMAIN plays[g] = PlayFields
  BY <1>1 DEF ReplayInv, PlaysTyped
<1>14. /\ \A h \in 1 .. MaxGeneration \ {g} : plays'[h] = plays[h]
       /\ plays'[g].phase = "reading" /\ plays'[g].rows = Tail(plays[g].rows)
       /\ plays'[g].symbol = s /\ ~plays'[g].cancelled
  BY <1>1, <1>3, <1>4, <1>13 DEF PlayFields
<1>15. WorkTyped'
  BY <1>1, <1>2, <1>3, <1>5, <1>10, <1>14 DEF WorkTyped
<1>16. OuterTyped'
  <2>1. tape' \in [Symbols -> Seq(Event)]
    BY <1>2, <1>5, <1>11, <1>12 DEF OuterTyped
  <2>2. state' \in [state : States, symbol : Symbols, position : Nat, generation : Nat]
    BY <1>2, <1>3, <1>9 DEF OuterTyped
  <2>3. QED
    BY <1>2, <1>3, <1>9, <2>1, <2>2 DEF OuterTyped
<1>17. ReplayTypeOK'
  BY <1>15, <1>16 DEF ReplayTypeOK, OuterTyped, WorkTyped
<1>18. OperationTyped' /\ BeganTyped'
  BY <1>3 DEF ExactInv, OperationTyped, BeganTyped
<1>19. RequestLaunched'
  BY <1>3, <1>4, <1>5, <1>9 DEF RequestLaunched
<1>20. GoroutineFollows'
  BY <1>3, <1>4, <1>8, <1>10, <1>14 DEF GoroutineFollows, Remaining, Window
<1>21. TapeContinues'
  <2>1. SUFFICES ASSUME ~(control.op = "launch" /\ control.fresh)
                 PROVE  Continues(tape'[s], s, b, CursorAt(e), e.us)
    BY <1>3 DEF TapeContinues
  <2>2. Continues(tape[s], s, b, cursor, resumeUS)
    BY <1>4, <2>1 DEF ExactInv, TapeContinues
  <2>3. Continues(Applied(tape[s], e), s, b, CursorAt(e), e.us)
    BY <1>5, <1>6, <1>7, <2>2, ContinuesNext
  <2>4. tape'[s] = Applied(tape[s], e)
    BY <1>2, <1>5, <1>12 DEF OuterTyped
  <2>5. QED
    BY <2>3, <2>4
<1>22. QED
  BY <1>17, <1>18, <1>19, <1>20, <1>21 DEF ExactInv

LEMMA PlayKeepsExact ==
  ASSUME ReplayInv, ExactInv, NEW g \in 1 .. generation,
         PlayNext(g) \/ PlayAbandoned(g) \/ PlayComplete(g) \/ PlayFailed(g)
  PROVE  ExactInv'
<1>1. CASE g = generation /\ PlayNext(g)
  <2>1. generation > 0
    BY ReplayAssumption DEF ReplayInv, PlaysTyped
  <2>2. QED
    BY <1>1, <2>1, NextKeepsExact
<1>2. CASE ~(g = generation /\ PlayNext(g))
  <2>1. OuterTyped
    BY TypeParts DEF ExactInv
  <2>2. /\ plays[g].phase = "reading"
        /\ plays' = [plays EXCEPT ![g].phase = "done", ![g].rows = <<>>]
        /\ UNCHANGED <<tape, active, request, cursor, resumeUS, generation, control, began>>
    BY <1>2 DEF PlayNext, PlayAbandoned, PlayComplete, PlayFailed, Finished
  <2>3. \/ UNCHANGED <<state, feed, cancel>>
        \/ /\ \E name \in {"complete", "error"} : Report([state EXCEPT !.state = name])
           /\ cancel' = 0
    BY <1>2 DEF PlayNext, PlayAbandoned, PlayComplete, PlayFailed, Finished
  <2>4. /\ state' \in [state : States, symbol : Symbols, position : Nat, generation : Nat]
        /\ feed' \in States /\ cancel' \in 0 .. generation
    <3>1. CASE UNCHANGED <<state, feed, cancel>>
      BY <2>1, <3>1 DEF OuterTyped
    <3>2. CASE /\ \E name \in {"complete", "error"} : Report([state EXCEPT !.state = name])
               /\ cancel' = 0
      <4>1. PICK name \in {"complete", "error"} : Report([state EXCEPT !.state = name])
        BY <3>2
      <4>2. name \in States
        BY DEF States
      <4>3. state' = [state EXCEPT !.state = name] /\ feed' = state'.state
        BY <4>1 DEF Report
      <4>4. state' \in [state : States, symbol : Symbols, position : Nat, generation : Nat]
        BY <2>1, <4>2, <4>3 DEF OuterTyped
      <4>5. generation \in Nat
        BY <2>1 DEF OuterTyped
      <4>6. QED
        BY <3>2, <4>3, <4>4, <4>5
    <3>3. QED
      BY <2>3, <3>1, <3>2
  <2>5. QED
    BY <2>2, <2>4, EndedKeepsExact
<1>3. QED
  BY <1>1, <1>2

-----------------------------------------------------------------------------

\* launch: the goroutine of the next generation gets what is left.
LEMMA LaunchKeepsExact ==
  ASSUME ReplayInv, ExactInv, Launch
  PROVE  ExactInv'
<1> DEFINE g == generation + 1
           req == control.request
           s == req.symbol
           rows == Ordered(Remaining(req, control.from, control.cursor))
           play == [phase |-> "reading", cancelled |-> FALSE, symbol |-> s, rows |-> rows]
<1>1. /\ control.op = "launch" /\ generation' = g /\ cancel' = g /\ control' = Idle
      /\ plays' = [Cancelled EXCEPT ![g] = play]
      /\ request' = req /\ cursor' = control.cursor /\ resumeUS' = control.from
      /\ state' = [state |-> "replaying", symbol |-> s, generation |-> g,
                   position |-> IF control.cursor.valid THEN control.cursor.us ELSE control.from]
      /\ feed' = "replaying"
      /\ UNCHANGED <<tape, active>>
  BY DEF Launch, Report, Remaining
<1>2. OuterTyped /\ WorkTyped
  BY TypeParts DEF ExactInv
<1>3. generation \in Nat /\ MaxGeneration \in Nat /\ generation < MaxGeneration
  BY <1>1, ReplayAssumption DEF ReplayInv, PlaysTyped, ControlTyped
<1>4. /\ req \in Request /\ req.end > 0 /\ s \in Symbols /\ control.from \in Instants
      /\ control.cursor \in Cursors
  BY <1>1 DEF ExactInv, OperationTyped, Request
<1>5. req # NoRequest
  BY <1>4, NoRequestEnds
<1>6. rows \in Seq(Event)
  <2>1. Remaining(req, control.from, control.cursor) \in SUBSET Recording[s]
    BY DEF Remaining, Window
  <2>2. QED
    BY <1>4, <2>1, OrderedTyped
<1>7. play.phase = "reading" /\ ~play.cancelled /\ play.symbol = s /\ play.rows = rows
  OBVIOUS
<1>8. AliveIsCurrent
  BY DEF ReplayInv, StatusIsTruthful, AliveIsCurrent
<1> HIDE DEF play
<1>9. /\ plays'[g] = play
      /\ \A h \in 1 .. MaxGeneration \ {g} : plays'[h] = Cancelled[h]
  BY <1>1, <1>3, <1>8, CancelledPlays DEF ReplayInv
<1>10. \A h \in 1 .. MaxGeneration :
         /\ Cancelled[h].phase = plays[h].phase /\ Cancelled[h].symbol = plays[h].symbol
         /\ Cancelled[h].rows = plays[h].rows
  BY CancelledWork DEF ReplayInv
<1> HIDE DEF rows
<1>11. WorkTyped'
  <2> SUFFICES ASSUME NEW h \in 1 .. MaxGeneration
               PROVE  /\ plays'[h].phase \in {"none", "reading", "done"}
                      /\ plays'[h].phase # "none" => h <= g /\ plays'[h].symbol \in Symbols
                      /\ plays'[h].rows \in Seq(Event)
    BY <1>1 DEF WorkTyped
  <2>1. CASE h = g
    BY <1>3, <1>4, <1>6, <1>7, <1>9, <2>1
  <2>2. CASE h # g
    <3>1. /\ plays'[h].phase = plays[h].phase /\ plays'[h].symbol = plays[h].symbol
          /\ plays'[h].rows = plays[h].rows
      BY <1>9, <1>10, <2>2
    <3>2. QED
      BY <1>2, <1>3, <3>1 DEF WorkTyped
  <2>3. QED
    BY <2>1, <2>2
<1>12. OuterTyped'
  <2>1. (IF control.cursor.valid THEN control.cursor.us ELSE control.from) \in Nat
    BY <1>4, CursorFields DEF Instants
  <2>2. state' \in [state : States, symbol : Symbols, position : Nat, generation : Nat]
    BY <1>1, <1>3, <1>4, <2>1 DEF States
  <2>3. control'.op = "idle" /\ "replaying" \in States
    BY <1>1 DEF Idle, States
  <2>4. QED
    BY <1>1, <1>2, <1>3, <1>4, <2>2, <2>3 DEF OuterTyped, Instants
<1>13. ReplayTypeOK'
  BY <1>11, <1>12 DEF ReplayTypeOK, OuterTyped, WorkTyped
<1>14. OperationTyped'
  BY <1>1 DEF OperationTyped, Idle
<1>15. RequestLaunched'
  BY <1>1, <1>4, <1>5 DEF RequestLaunched, Instants
<1>16. GoroutineFollows'
  BY <1>1, <1>3, <1>5, <1>7, <1>9 DEF GoroutineFollows, Remaining, Window, Idle, rows
<1>17. tape[s] \in Seq(Event)
  BY <1>2, <1>4 DEF OuterTyped
<1>18. CASE control.fresh
  <2> DEFINE b == [how |-> "restart", from |-> control.from, after |-> NoCursor,
                   mark |-> Len(tape[s])]
  <2>1. began' = [began EXCEPT ![s] = b]
    BY <1>18 DEF Launch
  <2>2. /\ b.from = control.from /\ b.after = NoCursor /\ b.mark = Len(tape[s])
        /\ b.mark \in Nat /\ b.from \in Nat /\ b.after \in Cursors
    BY <1>4, <1>17 DEF Instants, Cursors
  <2> HIDE DEF b
  <2>3. BeganTyped' /\ began'[s] = b
    BY <1>4, <2>1, <2>2 DEF ExactInv, BeganTyped
  <2>4. control.cursor = NoCursor
    BY <1>1, <1>18 DEF ExactInv, OperationTyped
  <2>5. Continues(tape[s], s, b, control.cursor, control.from)
    BY <1>4, <1>17, <2>2, <2>4, ContinuesAfresh DEF Instants
  <2>6. TapeContinues'
    BY <1>1, <2>3, <2>5 DEF TapeContinues
  <2>7. QED
    BY <1>13, <1>14, <1>15, <1>16, <2>3, <2>6 DEF ExactInv
<1>19. CASE ~control.fresh
  <2>1. began' = [began EXCEPT ![s] = began[s]]
    BY <1>19 DEF Launch
  <2>2. DOMAIN began' = Symbols /\ \A t \in Symbols : began'[t] = began[t]
    BY <1>4, <2>1 DEF ExactInv, BeganTyped
  <2>3. BeganTyped'
    BY <2>2 DEF ExactInv, BeganTyped
  <2>4. request # NoRequest /\ req = request /\ control.from = resumeUS /\ control.cursor = cursor
    BY <1>1, <1>19 DEF ExactInv, GoroutineFollows
  <2>5. Continues(tape[s], s, began[s], cursor, resumeUS)
    BY <1>19, <2>4 DEF ExactInv, TapeContinues
  <2>6. TapeContinues'
    BY <1>1, <1>4, <2>2, <2>4, <2>5 DEF TapeContinues
  <2>7. QED
    BY <1>13, <1>14, <1>15, <1>16, <2>3, <2>6 DEF ExactInv
<1>20. QED
  BY <1>18, <1>19

LEMMA CueKeepsExact ==
  ASSUME ReplayInv, ExactInv, CuePrepare \/ CueFailed \/ CueCommit
  PROVE  ExactInv'
<1>1. /\ control.op = "cue" /\ DOMAIN control = CueFields /\ control.generation = generation
      /\ generation > 0 /\ plays[generation].phase = "none"
  <2>1. control.op = "cue"
    BY DEF CuePrepare, CueFailed, CueCommit
  <2>2. QED
    BY <2>1 DEF ReplayInv, ControlTyped, CueIsQuiet
<1>2. OuterTyped /\ WorkTyped
  BY TypeParts DEF ExactInv
<1>3. /\ control.request \in Request /\ control.request.end > 0 /\ control.request.symbol \in Symbols
      /\ control.warmup \in Instants /\ control.target \in Instants
      /\ control.warmup <= control.target
  BY <1>1 DEF ExactInv, OperationTyped, Request
<1>4. UNCHANGED <<generation, cancel, plays>> /\ generation \in Nat
  <2>1. UNCHANGED <<generation, cancel, plays>>
    BY DEF CuePrepare, CueFailed, CueCommit
  <2>2. QED
    BY <1>2, <2>1 DEF OuterTyped
<1>5. WorkTyped'
  BY <1>2, <1>4 DEF WorkTyped
<1>6. CASE CuePrepare
  <2>1. /\ UNCHANGED <<tape, active, state, feed, request, cursor, resumeUS, began>>
        /\ control' = [control EXCEPT !.step = "read", !.base = tape[control.request.symbol]]
    BY <1>6 DEF CuePrepare
  <2>2. /\ control'.op = "cue" /\ control'.request = control.request
        /\ control'.warmup = control.warmup /\ control'.target = control.target
    BY <1>1, <2>1 DEF CueFields
  <2>3. OuterTyped'
    BY <1>2, <1>4, <2>1, <2>2 DEF OuterTyped
  <2>4. ReplayTypeOK'
    BY <1>5, <2>3 DEF ReplayTypeOK, OuterTyped, WorkTyped
  <2>5. OperationTyped' /\ BeganTyped' /\ RequestLaunched'
    BY <1>3, <1>4, <2>1, <2>2 DEF ExactInv, OperationTyped, BeganTyped, RequestLaunched
  <2>6. GoroutineFollows' /\ TapeContinues'
    BY <1>1, <1>4, <2>1, <2>2 DEF ExactInv, GoroutineFollows, TapeContinues
  <2>7. QED
    BY <2>4, <2>5, <2>6 DEF ExactInv
<1>7. CASE CueFailed
  <2>1. /\ UNCHANGED <<tape, active, request, cursor, resumeUS, began>> /\ control'.op = "idle"
        /\ \/ UNCHANGED <<state, feed>>
           \/ /\ state.state = "replaying"
              /\ state' = [state EXCEPT !.state = "paused", !.generation = generation]
              /\ feed' = state'.state
    BY <1>1, <1>7 DEF CueFailed, Idle, Report
  <2>2. state' \in [state : States, symbol : Symbols, position : Nat, generation : Nat]
    BY <1>2, <1>4, <2>1 DEF OuterTyped, States
  <2>3. OuterTyped'
    BY <1>2, <1>4, <2>1, <2>2 DEF OuterTyped
  <2>4. ReplayTypeOK'
    BY <1>5, <2>3 DEF ReplayTypeOK, OuterTyped, WorkTyped
  <2>5. request = NoRequest => state' = state
    BY <2>1 DEF ExactInv, RequestLaunched
  <2>6. OperationTyped' /\ BeganTyped' /\ RequestLaunched'
    BY <1>4, <2>1, <2>5 DEF ExactInv, OperationTyped, BeganTyped, RequestLaunched
  <2>7. GoroutineFollows' /\ TapeContinues'
    BY <1>1, <1>4, <2>1 DEF ExactInv, GoroutineFollows, TapeContinues
  <2>8. QED
    BY <2>4, <2>6, <2>7 DEF ExactInv
<1>8. CASE CueCommit
  <2> DEFINE s == control.request.symbol
             rows == Rows(s, control.warmup, control.target)
             cur == IF rows = <<>> THEN NoCursor ELSE CursorAt(rows[Len(rows)])
             content == Ordered(Eligible(Window(s, control.warmup, control.target)))
             b == [how |-> "cue", from |-> control.warmup, after |-> NoCursor, mark |-> 0]
  <2>1. control.step = "read" /\ control.base = tape[s]
    BY <1>1, <1>8 DEF CueCommit, ReplayInv, CueIsQuiet
  <2>2. /\ tape' = [tape EXCEPT ![s] = content] /\ active' = s
        /\ request' = control.request /\ cursor' = cur /\ resumeUS' = control.target
        /\ state' = [state |-> IF control.playing THEN "replaying" ELSE "paused", symbol |-> s,
                     position |-> control.target, generation |-> control.generation]
        /\ feed' = state'.state
        /\ began' = [began EXCEPT ![s] = b]
        /\ IF control.playing THEN Launching(control.request, control.target, cur, FALSE)
           ELSE control' = Idle
    BY <1>1, <1>8, <2>1 DEF CueCommit, Report
  <2>3. b.from = control.warmup /\ b.after = NoCursor /\ b.mark = 0
    OBVIOUS
  <2> HIDE DEF b
  <2>4. cur \in Cursors /\ content \in Seq(Event) /\ Continues(content, s, b, cur, control.target)
    BY <1>3, <2>3, ContinuesCue
  <2> HIDE DEF content, cur
  <2>5. BeganTyped' /\ began'[s] = b
    <3>1. b.from \in Nat /\ b.after \in Cursors /\ b.mark \in Nat
      BY <1>3, <2>3 DEF Instants, Cursors
    <3>2. QED
      BY <1>3, <2>2, <3>1 DEF ExactInv, BeganTyped
  <2>6. tape' \in [Symbols -> Seq(Event)] /\ tape'[s] = content
    BY <1>2, <1>3, <2>2, <2>4 DEF OuterTyped
  <2>7. /\ state' \in [state : States, symbol : Symbols, position : Nat, generation : Nat]
        /\ feed' \in States
    BY <1>1, <1>3, <1>4, <2>2 DEF States, Instants
  <2>8. request' # NoRequest /\ request' \in Request /\ request'.end > 0
    BY <1>3, <2>2, NoRequestEnds
  <2>9. \/ /\ control'.op = "launch" /\ control'.request = control.request
           /\ control'.from = control.target /\ control'.cursor = cur /\ control'.fresh = FALSE
        \/ control'.op = "idle"
    BY <2>2 DEF Launching, Idle
  <2>10. OuterTyped'
    BY <1>2, <1>3, <1>4, <2>2, <2>4, <2>6, <2>7, <2>8, <2>9 DEF OuterTyped, Instants
  <2>11. ReplayTypeOK'
    BY <1>5, <2>10 DEF ReplayTypeOK, OuterTyped, WorkTyped
  <2>12. OperationTyped'
    <3>1. CASE control'.op = "idle"
      BY <3>1 DEF OperationTyped
    <3>2. CASE control'.op # "idle"
      <4>1. control'.fresh \in BOOLEAN /\ ~control'.fresh /\ control'.op # "cue"
        BY <2>9, <3>2
      <4>2. QED
        BY <1>3, <2>4, <2>9, <3>2, <4>1 DEF OperationTyped
    <3>3. QED
      BY <3>1, <3>2
  <2>13. RequestLaunched'
    BY <1>3, <2>2, <2>8 DEF RequestLaunched, Instants
  <2>14. GoroutineFollows'
    BY <1>1, <1>4, <2>2, <2>8, <2>9 DEF GoroutineFollows
  <2>15. TapeContinues'
    BY <2>2, <2>4, <2>5, <2>6 DEF TapeContinues
  <2>16. QED
    BY <2>5, <2>11, <2>12, <2>13, <2>14, <2>15 DEF ExactInv
<1>9. QED
  BY <1>6, <1>7, <1>8

-----------------------------------------------------------------------------

LEMMA ExactInvInit ==
  ASSUME ReplayInit
  PROVE  ExactInv
<1>1. /\ MaxGeneration \in Nat /\ DefaultSymbol \in Symbols
      /\ generation = 0 /\ cancel = 0 /\ control.op = "idle" /\ active = DefaultSymbol
      /\ state = [state |-> "ready", symbol |-> DefaultSymbol, position |-> 0, generation |-> 0]
      /\ feed = "ready" /\ request = NoRequest /\ cursor = NoCursor /\ resumeUS = 0
      /\ tape = [s \in Symbols |-> <<>>]
  BY ReplayAssumption DEF ReplayInit, Idle
<1>2. \A g \in 1 .. MaxGeneration : plays[g].phase = "none" /\ plays[g].rows = <<>>
  BY DEF ReplayInit, NoPlay
<1>3. ReplayTypeOK
  <2>1. /\ state \in [state : States, symbol : Symbols, position : Nat, generation : Nat]
        /\ feed \in States
    BY <1>1 DEF States
  <2>2. tape \in [Symbols -> Seq(Event)]
    BY <1>1
  <2>3. OuterTyped
    BY <1>1, <2>1, <2>2 DEF OuterTyped, Cursors
  <2>4. WorkTyped
    <3>1. <<>> \in Seq(Event)
      OBVIOUS
    <3>2. QED
      BY <1>2, <3>1, Zenon DEF WorkTyped
  <2>5. QED
    BY <2>3, <2>4, TypeParts
<1>4. BeganTyped
  BY DEF ReplayInit, BeganTyped, Cursors
<1>5. OperationTyped /\ GoroutineFollows /\ TapeContinues
  BY <1>1 DEF OperationTyped, GoroutineFollows, TapeContinues
<1>6. RequestLaunched
  BY <1>1, <1>2 DEF RequestLaunched
<1>7. QED
  BY <1>3, <1>4, <1>5, <1>6 DEF ExactInv

LEMMA ExactInvStep ==
  ASSUME ReplayInv, ExactInv, [ReplayMoves]_replayVars
  PROVE  ExactInv'
<1>1. CASE UNCHANGED replayVars
  BY <1>1 DEF replayVars, ExactInv, ReplayTypeOK, OperationTyped, BeganTyped, RequestLaunched,
              GoroutineFollows, TapeContinues, Remaining, Window
<1>2. CASE Play
  BY <1>2, PlayKeepsExact DEF Play
<1>3. CASE Operates
  BY <1>3, OperateKeepsExact
<1>4. CASE GoOn
  BY <1>4, LaunchKeepsExact, CueKeepsExact DEF GoOn
<1>5. QED
  BY <1>1, <1>2, <1>3, <1>4 DEF ReplayMoves

LEMMA ExactIsPlayed ==
  ASSUME ExactInv
  PROVE  PlayedExactly
<1>1. ReplayTypeOK
  BY DEF ExactInv
<1>2. ASSUME request # NoRequest, control.op # "launch"
      PROVE  SubSeq(tape[request.symbol], began[request.symbol].mark + 1, Len(tape[request.symbol]))
               = Slice(request.symbol, began[request.symbol].from, began[request.symbol].after, cursor)
  <2>1. Continues(tape[request.symbol], request.symbol, began[request.symbol], cursor, resumeUS)
    BY <1>2 DEF ExactInv, TapeContinues
  <2>2. cursor.valid \in BOOLEAN
    BY <1>1, CursorFields DEF ReplayTypeOK
  <2>3. QED
    BY <2>1, <2>2, SliceIsPlayed DEF Continues
<1>3. QED
  BY <1>1, <1>2 DEF PlayedExactly

\* Since the tape was last cleared, cued or left behind by a fast follow, it holds
\* exactly the eligible events up to the cursor, each once and in order, for every
\* recording and through any pauses, resumes, seeks, failed cues and late goroutines;
\* and every variable has its type.
THEOREM PlayedStaysExact == ReplaySpec => []PlayedExactly
<1>1. ReplayInit => ExactInv
  BY ExactInvInit
<1>2. ReplayInv /\ ExactInv /\ [ReplayNext]_replayVars => ExactInv'
  BY ExactInvStep, NextMoves
<1>3. ExactInv => PlayedExactly
  BY ExactIsPlayed
<1>4. QED
  BY <1>1, <1>2, <1>3, ReplayInvHolds, PTL DEF ReplaySpec

-----------------------------------------------------------------------------
(* The external control.                                                     *)

\* Numbers are compared, and the records have their fields.
ExternalTyped ==
  /\ script \in [Sessions -> Seq(ControlRequest)]
  /\ DOMAIN external = DOMAIN Detached
  /\ external.attached \in BOOLEAN /\ external.sequence \in Nat
  /\ \/ serving = Free
     \/ /\ DOMAIN serving = {"step", "session", "sequence"}
        /\ serving.sequence \in Nat /\ serving.step # "free"

\* A handler that was admitted while a controller was attached is that controller's
\* and newer than what was accepted; a release has made its controller leave.
ServesOwner ==
  serving # Free /\ external.attached =>
    external.session = serving.session /\ serving.sequence >= external.sequence

OwnerInv == ExternalTyped /\ ServesOwner

\* What a step may do to the owner and to the one being served.
InOrder ==
  /\ external.attached /\ external'.attached =>
       external'.session = external.session /\ external'.sequence >= external.sequence
  /\ external.attached /\ serving'.step \notin {"free", serving.step} /\ serving = Free =>
       serving'.session = external.session /\ serving'.sequence > external.sequence

-----------------------------------------------------------------------------

\* A request has its place in the script for its number.
LEMMA ScriptNumbers ==
  ASSUME ExternalTyped, NEW c \in Sessions, NEW n \in DOMAIN script[c]
  PROVE  n \in Nat
BY DEF ExternalTyped

\* A step that touches neither the owner nor the one being served.
LEMMA UntouchedKeeps ==
  ASSUME OwnerInv, UNCHANGED <<script, external, serving>>
  PROVE  OwnerInv' /\ InOrder
<1>1. OwnerInv'
  BY DEF OwnerInv, ExternalTyped, ServesOwner
<1>2. InOrder
  BY DEF OwnerInv, ExternalTyped, InOrder, Free
<1>3. QED
  BY <1>1, <1>2

\* A handler that goes on, or answers.
LEMMA GoesOnKeeps ==
  ASSUME OwnerInv, script' = script, serving # Free,
         DOMAIN external' = DOMAIN external,
         external'.attached = external.attached, external'.session = external.session,
         external'.sequence = external.sequence,
         \/ serving' = Free
         \/ /\ DOMAIN serving' = DOMAIN serving /\ serving'.step # "free"
            /\ serving'.session = serving.session /\ serving'.sequence = serving.sequence
  PROVE  OwnerInv' /\ InOrder
<1>1. ExternalTyped'
  BY DEF OwnerInv, ExternalTyped
<1>2. ServesOwner'
  BY DEF OwnerInv, ExternalTyped, ServesOwner
<1>3. InOrder
  BY DEF OwnerInv, ExternalTyped, InOrder
<1>4. QED
  BY <1>1, <1>2, <1>3 DEF OwnerInv

-----------------------------------------------------------------------------
(* Requests.                                                                 *)

LEMMA RequestedKeeps ==
  ASSUME OwnerInv, Requested
  PROVE  OwnerInv' /\ InOrder
<1>0. PICK c \in Sessions : \E n \in DOMAIN script[c] :
        SyncInPlace(c, n) \/ Follow(c, n) \/ Incomplete(c, n) \/ Rebuild(c, n) \/ Detach(c, n)
  BY DEF Requested
<1>1. PICK n \in DOMAIN script[c] :
        SyncInPlace(c, n) \/ Follow(c, n) \/ Incomplete(c, n) \/ Rebuild(c, n) \/ Detach(c, n)
  BY <1>0
<1>2. n \in Nat
  BY ScriptNumbers DEF OwnerInv
<1>3. /\ serving = Free /\ script' = script
      /\ external.attached => external.session = c /\ n > external.sequence
  BY <1>1 DEF SyncInPlace, Follow, Incomplete, Rebuild, Detach, Arrives, Admitted
<1>4. external.sequence \in Nat /\ DOMAIN external = DOMAIN Detached
  BY DEF OwnerInv, ExternalTyped
<1>5. CASE SyncInPlace(c, n)
  <2>1. /\ external.attached
        /\ external' = [external EXCEPT !.sequence = n, !.target = script[c][n].target,
                          !.speed = script[c][n].speed, !.playing = script[c][n].playing,
                          !.state = IF script[c][n].playing THEN "following" ELSE "paused"]
        /\ serving' = Serving("transport", c, n)
    BY <1>5 DEF SyncInPlace, CorrectedInPlace
  <2>2. /\ DOMAIN external' = DOMAIN Detached /\ external'.sequence = n
        /\ external'.attached = external.attached /\ external'.session = external.session
    BY <1>4, <2>1 DEF Detached
  <2>3. /\ DOMAIN serving' = {"step", "session", "sequence"} /\ serving'.step = "transport"
        /\ serving'.session = c /\ serving'.sequence = n
    BY <2>1 DEF Serving
  <2>4. external'.attached \in BOOLEAN
    BY <2>2 DEF OwnerInv, ExternalTyped
  <2>5. ExternalTyped'
    BY <1>2, <1>3, <2>2, <2>3, <2>4 DEF OwnerInv, ExternalTyped
  <2>6. ServesOwner'
    BY <1>2, <1>3, <2>1, <2>2, <2>3 DEF ServesOwner
  <2>7. InOrder
    BY <1>2, <1>3, <1>4, <2>1, <2>2, <2>3 DEF InOrder
  <2>8. QED
    BY <2>5, <2>6, <2>7 DEF OwnerInv
<1>6. CASE Follow(c, n)
  <2>1. /\ external' = [external EXCEPT !.sequence = n, !.target = script[c][n].target,
                          !.speed = script[c][n].speed, !.playing = FALSE,
                          !.generation = generation', !.state = "fast_follow"]
        /\ serving' = serving
    BY <1>6 DEF Follow
  <2>2. /\ DOMAIN external' = DOMAIN Detached /\ external'.sequence = n
        /\ external'.attached = external.attached /\ external'.session = external.session
    BY <1>4, <2>1 DEF Detached
  <2>3. QED
    BY <1>2, <1>3, <1>4, <2>1, <2>2
       DEF OwnerInv, ExternalTyped, ServesOwner, InOrder, Free
<1>7. CASE Incomplete(c, n) \/ Rebuild(c, n)
  <2>1. /\ \/ external' = [external EXCEPT !.state = "data_incomplete"]
           \/ external' = [external EXCEPT !.state = "cueing", !.symbol = script[c][n].symbol,
                             !.target = script[c][n].target]
        /\ serving' = serving \/ serving' = Serving("cue", c, n)
    BY <1>7 DEF Incomplete, Rebuild
  <2>2. /\ DOMAIN external' = DOMAIN Detached /\ external'.sequence = external.sequence
        /\ external'.attached = external.attached /\ external'.session = external.session
    BY <1>4, <2>1 DEF Detached
  <2>3. QED
    BY <1>2, <1>3, <1>4, <2>1, <2>2
       DEF OwnerInv, ExternalTyped, ServesOwner, InOrder, Serving, Free
<1>8. CASE Detach(c, n)
  <2>1. external.attached /\ external' = Detached /\ serving' = Serving("release", c, n)
    BY <1>8 DEF Detach
  <2>2. QED
    BY <1>2, <1>3, <1>4, <2>1
       DEF OwnerInv, ExternalTyped, ServesOwner, InOrder, Serving, Detached, Free
<1>9. QED
  BY <1>1, <1>5, <1>6, <1>7, <1>8

-----------------------------------------------------------------------------
(* The steps a handler goes on with, and the operator.                       *)

LEMMA ContinueKeeps ==
  ASSUME OwnerInv, Continue
  PROVE  OwnerInv' /\ InOrder
<1>1. CASE Proceeds
  BY <1>1, UntouchedKeeps DEF Proceeds
<1>2. ASSUME Fails, serving # Free
      PROVE  OwnerInv' /\ InOrder
  <2>1. external' = [external EXCEPT !.state = "error"] /\ serving' = Free /\ script' = script
    BY <1>2 DEF Fails
  <2>2. /\ DOMAIN external' = DOMAIN external /\ external'.sequence = external.sequence
        /\ external'.attached = external.attached /\ external'.session = external.session
    BY <2>1 DEF OwnerInv, ExternalTyped, Detached
  <2>3. QED
    BY <1>2, <2>1, <2>2, GoesOnKeeps
<1>3. ASSUME NEW step, NextStep(step), serving # Free
      PROVE  OwnerInv' /\ InOrder
  <2>1. script' = script /\ external' = external
    BY <1>3 DEF NextStep
  <2>2. \/ serving' = Free
        \/ /\ DOMAIN serving' = DOMAIN serving /\ serving'.step # "free"
           /\ serving'.session = serving.session /\ serving'.sequence = serving.sequence
    BY <1>3 DEF NextStep, OwnerInv, ExternalTyped
  <2>3. QED
    BY <1>3, <2>1, <2>2, GoesOnKeeps
<1>4. CASE CueAborts \/ CuePublishes
  <2>1. CASE serving = Free
    BY <1>4, <2>1, UntouchedKeeps DEF CueAborts, CuePublishes
  <2>2. CASE serving # Free
    BY <1>2, <1>3, <1>4, <2>2 DEF CueAborts, CuePublishes
  <2>3. QED
    BY <2>1, <2>2
<1>5. CASE Attach
  <2>1. /\ serving # Free /\ serving' = Free /\ script' = script
        /\ DOMAIN external' = DOMAIN Detached /\ external'.attached = TRUE
        /\ external'.session = serving.session /\ external'.sequence = serving.sequence
    BY <1>5 DEF Attach, Free, Detached
  <2>2. QED
    BY <2>1 DEF OwnerInv, ExternalTyped, ServesOwner, InOrder, Free
<1>6. CASE Transport \/ TransportResumes \/ TransportPauses \/ ReleasePauses
  <2>1. serving # Free
    BY <1>6 DEF Transport, TransportResumes, TransportPauses, ReleasePauses, Free
  <2>2. QED
    BY <1>2, <1>3, <1>6, <2>1 DEF Transport, TransportResumes, TransportPauses, ReleasePauses
<1>7. CASE ReportGeneration
  <2>1. /\ serving # Free /\ serving' = Free /\ script' = script
        /\ external' = [external EXCEPT !.generation = state.generation]
    BY <1>7 DEF ReportGeneration, Free
  <2>2. /\ DOMAIN external' = DOMAIN external /\ external'.sequence = external.sequence
        /\ external'.attached = external.attached /\ external'.session = external.session
    BY <2>1 DEF OwnerInv, ExternalTyped, Detached
  <2>3. QED
    BY <2>1, <2>2, GoesOnKeeps
<1>8. QED
  BY <1>1, <1>4, <1>5, <1>6, <1>7 DEF Continue

LEMMA ManualKeeps ==
  ASSUME OwnerInv, Manual
  PROVE  OwnerInv' /\ InOrder
<1>1. CASE external.attached
  <2>1. external' = Detached /\ serving' = serving /\ serving = Free /\ script' = script
    BY <1>1 DEF Manual
  <2>2. QED
    BY <2>1 DEF OwnerInv, ExternalTyped, ServesOwner, InOrder, Detached, Free
<1>2. CASE ~external.attached
  BY <1>2, UntouchedKeeps DEF Manual
<1>3. QED
  BY <1>1, <1>2

-----------------------------------------------------------------------------

LEMMA OwnerInvInit ==
  ASSUME ControlInit
  PROVE  OwnerInv
<1>1. script \in [Sessions -> Seq(ControlRequest)]
  BY ControlAssumption DEF ControlInit
<1>2. /\ DOMAIN external = DOMAIN Detached
      /\ external.attached \in BOOLEAN /\ ~external.attached
      /\ external.sequence \in Nat /\ serving = Free
  BY DEF ControlInit, Detached
<1>3. ExternalTyped
  BY <1>1, <1>2 DEF ExternalTyped
<1>4. ServesOwner
  BY <1>2 DEF ServesOwner
<1>5. QED
  BY <1>3, <1>4 DEF OwnerInv

LEMMA OwnerInvStep ==
  ASSUME OwnerInv, [ControlNext]_controlVars
  PROVE  OwnerInv' /\ [InOrder]_controlVars
<1>1. CASE UNCHANGED controlVars
  BY <1>1, UntouchedKeeps DEF controlVars
<1>2. CASE Playback
  BY <1>2, UntouchedKeeps DEF Playback
<1>3. QED
  BY <1>1, <1>2, RequestedKeeps, ManualKeeps, ContinueKeeps DEF ControlNext

\* A controller that is attached stays the owner until a release, its accepted number
\* never goes back, and a request that gets to do anything is the owner's and newer.
THEOREM OwnersInOrder == ControlSpec => OneOwnerInOrder
<1>1. OneOwnerInOrder <=> [][InOrder]_controlVars
  BY DEF OneOwnerInOrder, InOrder
<1>2. QED
  BY <1>1, OwnerInvInit, OwnerInvStep, PTL DEF ControlSpec

-----------------------------------------------------------------------------
(* What the controller has is what there is.                                 *)

\* The type of Server.external while g generations have been made.
ExternalSet(g) ==
  [attached : BOOLEAN, session : Sessions \cup {Nobody}, sequence : Nat,
   generation : 0 .. g, symbol : Symbols \cup {""}, target : Nat,
   playing : BOOLEAN, speed : Nat, fast : BOOLEAN, state : ControlStates]

FastIsStill ==
  external.fast => external.attached /\ ~external.playing /\ external.state # "following"

ExternalFields ==
  /\ external \in ExternalSet(generation) /\ FastIsStill
  /\ driver \in {Nobody, "controller", "operator"} /\ cueFailed \in BOOLEAN

\* A handler serves a request that a session sends.
ServedIsAsked ==
  /\ script \in Scripts
  /\ serving # Free =>
       /\ serving.session \in Sessions /\ serving.sequence \in DOMAIN script[serving.session]
       /\ serving.step \in {"cue", "attach", "transport", "resume", "pause", "report",
                            "release"}

\* Which operation of the replay is in flight at which step of the handler; without a
\* handler it is the operator's, and nobody is attached.
InStep ==
  /\ control.op = "idle" => control = Idle
  /\ serving = Free /\ control # Idle => driver = "operator" /\ ~external.attached
  /\ serving.step = "cue" => control.op = "cue" /\ control.request.symbol = Served.symbol
  /\ serving.step \in {"attach", "report"} => control.op \in {"idle", "launch"}
  /\ serving.step \in {"transport", "resume", "pause", "release"} => control = Idle
  /\ serving.step \in {"transport", "resume", "pause", "report"} => external.attached
  /\ serving.step = "release" => ~external.attached
  /\ serving # Free /\ control.op = "launch" => ~control.fresh

\* While a controller is attached, or a cue is about to attach one, its replay is on
\* screen, and unless it follows fast the tape is the one that its cue began.
ScreenIsOwned ==
  /\ external.attached \/ serving.step = "attach" =>
       request # NoRequest /\ request.symbol = active /\ state.symbol = active
  /\ serving.step = "attach" => Served.symbol = active
  /\ (external.attached /\ ~external.fast) \/ serving.step = "attach" =>
       began[request.symbol].how = "cue"

\* The names and the generation are out of step only while a handler works on them.
NamesAreCurrent ==
  /\ external.attached /\ serving.step \notin {"cue", "attach"} =>
       cueFailed \/ external.symbol = active
  /\ external.attached /\ serving = Free
       /\ external.state \in {"paused", "following", "fast_follow"} =>
       external.generation = state.generation

HoldsInv ==
  ExternalFields /\ ServedIsAsked /\ InStep /\ ScreenIsOwned /\ NamesAreCurrent
    /\ PlaybackHasDriver

\* On a tape that a cue began, the clock and the cursor are not ahead of where playback
\* is to go on.
ClockFollows ==
  request # NoRequest /\ began[request.symbol].how = "cue" =>
    state.position <= resumeUS /\ (cursor.valid => cursor.us <= resumeUS)

\* What is reported is a generation that was reached.
Reached == state.generation \in 0 .. generation

ReplaySound == ReplayInv /\ ExactInv /\ ClockFollows /\ Reached

-----------------------------------------------------------------------------
(* Every step of the server moves the replay as Replay says.                 *)

LEMMA AskedFields ==
  ASSUME script \in Scripts, NEW c \in Sessions, NEW n \in DOMAIN script[c]
  PROVE  /\ script[c][n].symbol \in Symbols /\ script[c][n].playing \in BOOLEAN
         /\ script[c][n].warmup \in Instants /\ script[c][n].target \in Instants
         /\ script[c][n].end \in Instants /\ script[c][n].speed \in Nat
         /\ script[c][n].warmup <= script[c][n].target
         /\ script[c][n].target <= script[c][n].end
<1>1. script \in [Sessions -> Seq(ControlRequest)]
  BY ControlAssumption
<1>2. script[c] \in Seq(ControlRequest)
  BY <1>1
<1>3. script[c][n] \in ControlRequest
  BY <1>2
<1>4. script[c][n].warmup <= script[c][n].target /\ script[c][n].target <= script[c][n].end
  BY ControlAssumption
<1>5. QED
  BY <1>3, <1>4 DEF ControlRequest, Instants

LEMMA ManualOperates ==
  ASSUME Manual
  PROVE  UNCHANGED replayVars \/ Operates
<1>1. Times \subseteq Instants
  BY ReplayAssumption DEF Instants
<1>2. QED
  BY <1>1 DEF Manual, Operates

LEMMA ControlMoves ==
  ASSUME ServedIsAsked, [ControlNext]_controlVars
  PROVE  [ReplayMoves]_replayVars
<1>1. CASE UNCHANGED controlVars
  BY <1>1 DEF controlVars
<1>2. CASE Playback
  BY <1>2 DEF Playback, ReplayMoves
<1>3. CASE Requested
  <2>1. PICK c \in Sessions : \E n \in DOMAIN script[c] :
          SyncInPlace(c, n) \/ Follow(c, n) \/ Incomplete(c, n) \/ Rebuild(c, n) \/ Detach(c, n)
    BY <1>3 DEF Requested
  <2>2. PICK n \in DOMAIN script[c] :
          SyncInPlace(c, n) \/ Follow(c, n) \/ Incomplete(c, n) \/ Rebuild(c, n) \/ Detach(c, n)
    BY <2>1
  <2>3. /\ script[c][n].symbol \in Symbols /\ script[c][n].target \in Instants
        /\ script[c][n].warmup \in Instants /\ script[c][n].end \in Instants
    BY AskedFields DEF ServedIsAsked
  <2>4. CASE Follow(c, n)
    <3>1. Track(script[c][n].symbol, script[c][n].target)
      BY <2>4 DEF Follow
    <3>2. QED
      BY <2>3, <3>1 DEF ReplayMoves, Operates
  <2>5. CASE Rebuild(c, n)
    <3>1. Cue(script[c][n].symbol, script[c][n].warmup, script[c][n].target, script[c][n].end,
              script[c][n].playing /\ ~Fast(script[c][n]), TRUE)
      BY <2>5 DEF Rebuild
    <3>2. (script[c][n].playing /\ ~Fast(script[c][n])) \in BOOLEAN
      OBVIOUS
    <3>3. QED
      BY <2>3, <3>1, <3>2 DEF ReplayMoves, Operates
  <2>6. QED
    BY <2>2, <2>4, <2>5 DEF SyncInPlace, Incomplete, Detach
<1>4. CASE Manual
  BY <1>4, ManualOperates DEF ReplayMoves
<1>5. CASE Continue
  <2>1. Launch \/ CuePrepare \/ CueFailed \/ CueCommit \/ Resume \/ Pause \/ UNCHANGED replayVars
    BY <1>5 DEF Continue, Proceeds, CueAborts, CuePublishes, Attach, Transport,
                TransportResumes, TransportPauses, ReportGeneration, ReleasePauses
  <2>2. QED
    BY <2>1 DEF ReplayMoves, GoOn, Operates
<1>6. QED
  BY <1>1, <1>2, <1>3, <1>4, <1>5 DEF ControlNext

-----------------------------------------------------------------------------
(* What the steps of the replay do to what the server looks at.              *)

\* A playback goroutine moves the cursor and the clock to an event, or ends.
LEMMA PlayShape ==
  ASSUME ReplaySound, Play
  PROVE  /\ UNCHANGED <<active, request, generation, control, began>>
         /\ state'.symbol = state.symbol /\ state'.generation = state.generation
         /\ state'.state = "replaying" => state.state = "replaying"
         /\ \/ UNCHANGED <<cursor, resumeUS>> /\ state'.position = state.position
            \/ resumeUS' \in Nat /\ cursor'.us = resumeUS' /\ state'.position = resumeUS'
<1>1. DOMAIN state = {"state", "symbol", "position", "generation"} /\ generation \in 0 .. MaxGeneration
  BY DEF ReplaySound, ReplayInv, PlaysTyped
<1>2. PICK g \in 1 .. generation : PlayNext(g) \/ PlayAbandoned(g) \/ PlayComplete(g) \/ PlayFailed(g)
  BY DEF Play
<1>3. g \in 1 .. MaxGeneration
  BY <1>1, ReplayAssumption
<1>4. CASE PlayNext(g) /\ g = generation
  <2> DEFINE e == Head(plays[g].rows)
  <2>1. plays[g].rows \in Seq(Event) /\ plays[g].rows # <<>>
    BY <1>3, <1>4 DEF ReplaySound, ExactInv, ReplayTypeOK, PlayNext
  <2>2. e \in Event
    BY <2>1
  <2>3. cursor' = CursorAt(e) /\ resumeUS' = e.us /\ state' = [state EXCEPT !.position = e.us]
    BY <1>4 DEF PlayNext
  <2>4. UNCHANGED <<active, request, generation, control, began>>
    BY <1>4 DEF PlayNext
  <2>5. e.us \in Nat
    BY <2>2 DEF Event
  <2>6. cursor'.us = e.us
    BY <2>3 DEF CursorAt
  <2> HIDE DEF e
  <2>7. /\ state'.symbol = state.symbol /\ state'.generation = state.generation
        /\ state'.state = state.state /\ state'.position = e.us
    BY <1>1, <2>3
  <2>8. QED
    BY <2>3, <2>4, <2>5, <2>6, <2>7
<1>5. CASE PlayNext(g) /\ g # generation
  BY <1>5 DEF PlayNext
<1>6. CASE PlayAbandoned(g)
  BY <1>6 DEF PlayAbandoned
<1>7. CASE PlayComplete(g) \/ PlayFailed(g)
  <2>1. PICK name \in {"complete", "error"} : Finished(g, name)
    BY <1>7 DEF PlayComplete, PlayFailed
  <2>2. UNCHANGED <<active, request, cursor, resumeUS, generation, control, began>>
    BY <2>1 DEF Finished
  <2>3. state' = state \/ state' = [state EXCEPT !.state = name]
    BY <2>1 DEF Finished, Report
  <2>4. QED
    BY <1>1, <2>1, <2>2, <2>3
<1>8. QED
  BY <1>2, <1>4, <1>5, <1>6, <1>7

\* Generations are only ever counted up.
LEMMA GenerationGrows ==
  ASSUME ReplaySound, [ReplayMoves]_replayVars
  PROVE  generation \in Nat /\ generation' \in Nat /\ generation <= generation'
<1>1. generation \in Nat
  BY DEF ReplaySound, ReplayInv, PlaysTyped
<1>2. generation' = generation \/ generation' = generation + 1
  <2>1. CASE UNCHANGED replayVars
    BY <2>1 DEF replayVars
  <2>2. CASE Play
    BY <2>2, PlayShape
  <2>3. CASE Operates
    BY <2>3 DEF Operates, Start, SeekTo, Resume, Pause, Stop, Track, SetSymbol, Cue, Supersede
  <2>4. CASE GoOn
    BY <2>4 DEF GoOn, Launch, CuePrepare, CueFailed, CueCommit
  <2>5. QED
    BY <2>1, <2>2, <2>3, <2>4 DEF ReplayMoves
<1>3. QED
  BY <1>1, <1>2

\* The target of a cue is not before the last row of its window.
LEMMA CuedCursor ==
  ASSUME NEW s \in Symbols, NEW warmup, NEW target,
         Rows(s, warmup, target) # <<>>
  PROVE  Rows(s, warmup, target)[Len(Rows(s, warmup, target))].us <= target
<1> DEFINE window == Window(s, warmup, target)
<1>1. window \in SUBSET Recording[s]
  BY DEF Window
<1>2. window # {}
  BY <1>1, OrderedNothing DEF Rows
<1>3. Ordered(window)[Len(Ordered(window))] \in window
  BY <1>1, <1>2, OrderedLast
<1>4. QED
  BY <1>3 DEF Rows, Window

LEMMA ClockKept ==
  ASSUME ReplaySound, [ReplayMoves]_replayVars
  PROVE  ClockFollows'
<1>1. /\ DOMAIN state = {"state", "symbol", "position", "generation"}
      /\ DOMAIN began = Symbols /\ cursor \in Cursors /\ resumeUS \in Nat
      /\ request \in Request \cup {NoRequest}
  BY DEF ReplaySound, ReplayInv, PlaysTyped, ExactInv, BeganTyped, ReplayTypeOK
<1>2. ASSUME UNCHANGED <<request, cursor, resumeUS, began>>, state'.position = state.position
      PROVE  ClockFollows'
  BY <1>2 DEF ReplaySound, ClockFollows
<1>3. CASE UNCHANGED replayVars
  BY <1>2, <1>3 DEF replayVars
<1>4. CASE Play
  BY <1>2, <1>4, PlayShape DEF ReplaySound, ClockFollows
<1>5. CASE Operates
  <2>1. CASE \E s \in Symbols, target \in Instants : Track(s, target)
    <3>1. /\ request' = request
          /\ \E target \in Instants : began' = [began EXCEPT ![request.symbol] =
               [how |-> "followed", from |-> target, after |-> cursor,
                mark |-> Len(tape[request.symbol])]]
      BY <2>1 DEF Track
    <3>2. request # NoRequest => began'[request.symbol].how = "followed"
      BY <1>1, <3>1 DEF Request
    <3>3. QED
      BY <3>1, <3>2 DEF ClockFollows
  <2>2. CASE ~\E s \in Symbols, target \in Instants : Track(s, target)
    <3>1. UNCHANGED <<request, cursor, resumeUS, began>>
      BY <1>5, <2>2 DEF Operates, Start, SeekTo, Resume, Pause, Stop, SetSymbol, Cue
    <3>2. state' = state \/ \E name, g : state' = [state EXCEPT !.state = name, !.generation = g]
            \/ \E s : state' = [state EXCEPT !.symbol = s]
      BY <1>5, <2>2 DEF Operates, Start, SeekTo, Resume, Pause, Stop, SetSymbol, Cue, Report
    <3>3. state'.position = state.position
      BY <1>1, <3>2
    <3>4. QED
      BY <1>2, <3>1, <3>3
  <2>3. QED
    BY <2>1, <2>2
<1>6. CASE Launch
  <2>1. /\ control.op = "launch" /\ request' = control.request /\ cursor' = control.cursor
        /\ resumeUS' = control.from
        /\ state'.position = IF control.cursor.valid THEN control.cursor.us ELSE control.from
        /\ began' = [began EXCEPT ![control.request.symbol] =
             IF control.fresh THEN [how |-> "restart", from |-> control.from, after |-> NoCursor,
                                    mark |-> Len(tape[control.request.symbol])] ELSE @]
    BY <1>6 DEF Launch, Report
  <2>2. /\ control.request \in Request /\ control.from \in Nat /\ control.cursor \in Cursors
        /\ control.fresh \in BOOLEAN
    BY <2>1 DEF ReplaySound, ExactInv, OperationTyped, Instants
  <2>3. control.request.symbol \in Symbols
    BY <2>2 DEF Request
  <2>4. CASE control.fresh = TRUE
    <3>1. began'[request'.symbol].how = "restart"
      BY <1>1, <2>1, <2>3, <2>4
    <3>2. QED
      BY <3>1 DEF ClockFollows
  <2>5. CASE control.fresh = FALSE
    <3>1. /\ request # NoRequest /\ control.request = request /\ control.from = resumeUS
          /\ control.cursor = cursor
      BY <2>1, <2>5 DEF ReplaySound, ExactInv, GoroutineFollows
    <3>2. began'[request.symbol] = began[request.symbol]
      BY <1>1, <2>1, <2>3, <2>5, <3>1
    <3>3. SUFFICES ASSUME began[request.symbol].how = "cue"
                   PROVE  state'.position <= resumeUS' /\ (cursor'.valid => cursor'.us <= resumeUS')
      BY <2>1, <3>1, <3>2 DEF ClockFollows
    <3>4. cursor.valid => cursor.us <= resumeUS
      BY <3>1, <3>3 DEF ReplaySound, ClockFollows
    <3>5. cursor' = cursor /\ resumeUS' = resumeUS
          /\ state'.position = IF cursor.valid THEN cursor.us ELSE resumeUS
      BY <2>1, <3>1
    <3>6. QED
      BY <1>1, <3>4, <3>5
  <2>6. QED
    BY <2>2, <2>4, <2>5
<1>7. CASE CuePrepare
  BY <1>2, <1>7 DEF CuePrepare
<1>8. CASE CueFailed
  <2>1. UNCHANGED <<request, cursor, resumeUS, began>>
        /\ (state' = state \/ state' = [state EXCEPT !.state = "paused",
                                          !.generation = control.generation])
    BY <1>8 DEF CueFailed, Report
  <2>2. state'.position = state.position
    BY <1>1, <2>1
  <2>3. QED
    BY <1>2, <2>1, <2>2
<1>9. CASE CueCommit
  <2>1. CASE UNCHANGED <<state, request, cursor, resumeUS, began>>
    BY <1>2, <2>1
  <2>2. CASE ~UNCHANGED <<state, request, cursor, resumeUS, began>>
    <3> DEFINE s == control.request.symbol
               rows == Rows(s, control.warmup, control.target)
    <3>1. /\ control.op = "cue" /\ request' = control.request /\ resumeUS' = control.target
          /\ cursor' = IF rows = <<>> THEN NoCursor ELSE CursorAt(rows[Len(rows)])
          /\ state'.position = control.target
      <4>1. control.op = "cue"
            /\ ~(control.generation # generation \/ control.base # tape[s])
        BY <1>9, <2>2 DEF CueCommit
      <4>2. request' = control.request /\ resumeUS' = control.target
        BY <1>9, <4>1 DEF CueCommit
      <4>3. cursor' = IF rows = <<>> THEN NoCursor ELSE CursorAt(rows[Len(rows)])
        BY <1>9, <4>1 DEF CueCommit
      <4>4. state' = [state |-> IF control.playing THEN "replaying" ELSE "paused", symbol |-> s,
                      position |-> control.target, generation |-> control.generation]
        BY <1>9, <4>1 DEF CueCommit, Report
      <4>5. QED
        BY <4>1, <4>2, <4>3, <4>4
    <3>2. s \in Symbols /\ control.target \in Nat
      BY <3>1 DEF ReplaySound, ExactInv, OperationTyped, Instants, Request
    <3>3. cursor'.valid => cursor'.us <= control.target
      <4>1. CASE rows = <<>>
        BY <3>1, <4>1 DEF NoCursor
      <4>2. CASE rows # <<>>
        <5>1. rows[Len(rows)].us <= control.target
          BY <3>2, <4>2, CuedCursor
        <5>2. cursor'.us = rows[Len(rows)].us
          BY <3>1, <4>2 DEF CursorAt
        <5>3. QED
          BY <5>1, <5>2
      <4>3. QED
        BY <4>1, <4>2
    <3>4. QED
      BY <3>1, <3>2, <3>3 DEF ClockFollows
  <2>3. QED
    BY <2>1, <2>2
<1>10. QED
  BY <1>3, <1>4, <1>5, <1>6, <1>7, <1>8, <1>9 DEF ReplayMoves, GoOn

LEMMA ReachedKept ==
  ASSUME ReplaySound, [ReplayMoves]_replayVars
  PROVE  Reached'
<1>1. /\ generation \in Nat /\ generation' \in Nat /\ generation <= generation'
      /\ state.generation \in 0 .. generation
      /\ DOMAIN state = {"state", "symbol", "position", "generation"}
  BY GenerationGrows DEF ReplaySound, Reached, ReplayInv, PlaysTyped
<1>2. state'.generation = state.generation \/ state'.generation = generation'
  <2>1. CASE UNCHANGED replayVars
    BY <2>1 DEF replayVars
  <2>2. CASE Play
    BY <2>2, PlayShape
  <2>3. CASE Operates
    BY <1>1, <2>3
       DEF Operates, Start, SeekTo, Resume, Pause, Stop, Track, SetSymbol, Cue, Report
  <2>4. CASE Launch
    BY <2>4 DEF Launch, Report
  <2>5. CASE CuePrepare
    BY <2>5 DEF CuePrepare
  <2>6. CASE CueFailed
    BY <1>1, <2>6 DEF CueFailed, Report
  <2>7. CASE CueCommit
    <3>1. control.op = "cue" /\ generation' = generation
      BY <2>7 DEF CueCommit
    <3>2. control.generation = generation
      BY <3>1 DEF ReplaySound, ReplayInv, CueIsQuiet
    <3>3. \/ state' = state
          \/ state' = [state |-> IF control.playing THEN "replaying" ELSE "paused",
                       symbol |-> control.request.symbol, position |-> control.target,
                       generation |-> control.generation]
      BY <2>7 DEF CueCommit, Report
    <3>4. QED
      BY <3>1, <3>2, <3>3
  <2>8. QED
    BY <2>1, <2>2, <2>3, <2>4, <2>5, <2>6, <2>7 DEF ReplayMoves, GoOn
<1>3. QED
  BY <1>1, <1>2 DEF Reached

LEMMA ReplaySoundInit ==
  ASSUME ReplayInit
  PROVE  ReplaySound
<1>1. ReplayInv /\ ExactInv
  BY ReplayInvInit, ExactInvInit
<1>2. request = NoRequest /\ generation = 0 /\ state.generation = 0
  BY DEF ReplayInit
<1>3. QED
  BY <1>1, <1>2 DEF ReplaySound, ClockFollows, Reached

LEMMA ReplaySoundStep ==
  ASSUME ReplaySound, [ReplayMoves]_replayVars
  PROVE  ReplaySound'
<1>1. ReplayInv' /\ ExactInv'
  BY ReplayInvStep, ExactInvStep DEF ReplaySound
<1>2. QED
  BY <1>1, ClockKept, ReachedKept DEF ReplaySound

-----------------------------------------------------------------------------
(* The controller's side of the invariant.                                   *)

LEMMA ExternalGrows ==
  ASSUME NEW g \in Nat, NEW h \in Nat, g <= h, NEW x \in ExternalSet(g)
  PROVE  x \in ExternalSet(h)
<1>1. 0 .. g \subseteq 0 .. h
  OBVIOUS
<1>2. QED
  BY <1>1 DEF ExternalSet

\* Nobody is attached, no handler runs, and the operator may play.
LEMMA UnownedHolds ==
  ASSUME HoldsInv, serving' = Free, script' = script, cueFailed' \in BOOLEAN,
         driver' = "operator", external' \in ExternalSet(generation'), ~external'.attached,
         FastIsStill', control'.op = "idle" => control' = Idle
  PROVE  HoldsInv'
<1>1. ExternalFields' /\ ServedIsAsked'
  BY DEF HoldsInv, ExternalFields, ServedIsAsked
<1>2. InStep' /\ ScreenIsOwned' /\ NamesAreCurrent' /\ PlaybackHasDriver'
  BY DEF InStep, ScreenIsOwned, NamesAreCurrent, PlaybackHasDriver, Free
<1>3. QED
  BY <1>1, <1>2 DEF HoldsInv

\* A step of the replay that does not concern the controller.
LEMMA RestHolds ==
  ASSUME HoldsInv, ReplaySound, [ReplayMoves]_replayVars,
         UNCHANGED <<script, external, serving, driver, cueFailed, request, active, began>>,
         state'.symbol = state.symbol, state'.generation = state.generation,
         state'.state = "replaying" => state.state = "replaying",
         \/ control' = control
         \/ /\ control.op = "cue" /\ control'.op = "cue"
            /\ control'.request = control.request
  PROVE  HoldsInv'
<1>1. generation \in Nat /\ generation' \in Nat /\ generation <= generation'
  BY GenerationGrows
<1>2. external' \in ExternalSet(generation')
  BY <1>1, ExternalGrows DEF HoldsInv, ExternalFields
<1>3. ExternalFields' /\ ServedIsAsked'
  BY <1>2 DEF HoldsInv, ExternalFields, FastIsStill, ServedIsAsked
<1>4. Served' = Served
  BY DEF Served
<1>5. control' # Idle <=> control # Idle
  BY DEF Idle
<1>6. InStep'
  BY <1>4, <1>5 DEF HoldsInv, InStep
<1>7. ScreenIsOwned'
  BY <1>4 DEF HoldsInv, ScreenIsOwned
<1>8. NamesAreCurrent' /\ PlaybackHasDriver'
  BY DEF HoldsInv, NamesAreCurrent, PlaybackHasDriver
<1>9. QED
  BY <1>3, <1>6, <1>7, <1>8 DEF HoldsInv

-----------------------------------------------------------------------------
(* The replay's steps, for the handler or for the operator.                  *)

LEMMA PlaybackHolds ==
  ASSUME HoldsInv, ReplaySound, Playback
  PROVE  HoldsInv'
<1>1. Play /\ UNCHANGED <<script, external, serving, driver, cueFailed>>
  BY DEF Playback
<1>2. QED
  BY <1>1, PlayShape, RestHolds DEF ReplayMoves

\* An operation that the operator began goes on.
LEMMA OperatorGoesOn ==
  ASSUME HoldsInv, ReplaySound, GoOn, serving = Free,
         UNCHANGED <<script, external, serving, driver, cueFailed>>
  PROVE  HoldsInv'
<1>1. control # Idle
  <2>1. control.op = "launch" \/ control.op = "cue"
    BY DEF GoOn, Launch, CuePrepare, CueFailed, CueCommit
  <2>2. QED
    BY <2>1 DEF Idle
<1>2. driver = "operator" /\ ~external.attached
  BY <1>1 DEF HoldsInv, InStep
<1>3. control'.op = "idle" => control' = Idle
  <2>1. CASE Launch \/ CueFailed
    BY <2>1 DEF Launch, CueFailed
  <2>2. CASE CuePrepare
    <3>1. control.op = "cue" /\ DOMAIN control = CueFields
      BY <2>2 DEF CuePrepare, ReplaySound, ReplayInv, ControlTyped
    <3>2. control'.op = "cue"
      BY <2>2, <3>1 DEF CuePrepare, CueFields
    <3>3. QED
      BY <3>2
  <2>3. CASE CueCommit
    <3>1. control' = Idle \/ control'.op = "launch"
      BY <2>3 DEF CueCommit, Launching
    <3>2. QED
      BY <3>1
  <2>4. QED
    BY <2>1, <2>2, <2>3 DEF GoOn
<1>4. [ReplayMoves]_replayVars
  BY DEF ReplayMoves
<1>5. external' \in ExternalSet(generation')
  BY <1>4, GenerationGrows, ExternalGrows DEF HoldsInv, ExternalFields
<1>6. FastIsStill' /\ cueFailed' \in BOOLEAN
  BY DEF HoldsInv, ExternalFields, FastIsStill
<1>7. QED
  BY <1>2, <1>3, <1>5, <1>6, UnownedHolds

\* A handler's launch goes on with the request and the tape that are there.
LEMMA HandlerLaunches ==
  ASSUME HoldsInv, ReplaySound, Launch, serving # Free,
         UNCHANGED <<script, external, serving, driver, cueFailed>>
  PROVE  HoldsInv'
<1>1. control.op = "launch" /\ control' = Idle /\ active' = active /\ request' = control.request
      /\ state' = [state |-> "replaying", symbol |-> control.request.symbol,
                   generation |-> generation + 1,
                   position |-> IF control.cursor.valid THEN control.cursor.us ELSE control.from]
      /\ began' = [began EXCEPT ![control.request.symbol] =
           IF control.fresh THEN [how |-> "restart", from |-> control.from, after |-> NoCursor,
                                  mark |-> Len(tape[control.request.symbol])] ELSE @]
  BY DEF Launch, Report
<1>2. control.fresh = FALSE
  BY <1>1 DEF HoldsInv, InStep, ReplaySound, ExactInv, OperationTyped
<1>3. request # NoRequest /\ control.request = request
  BY <1>1, <1>2 DEF ReplaySound, ExactInv, GoroutineFollows
<1>4. DOMAIN began = Symbols /\ request.symbol \in Symbols
  BY <1>3 DEF ReplaySound, ExactInv, BeganTyped, ReplayTypeOK, Request
<1>5. began'[request.symbol] = began[request.symbol]
  BY <1>1, <1>2, <1>3, <1>4
<1>6. request' = request /\ state'.symbol = request.symbol
  BY <1>1, <1>3
<1>7. [ReplayMoves]_replayVars
  BY DEF ReplayMoves, GoOn
<1>8. external' \in ExternalSet(generation')
  BY <1>7, GenerationGrows, ExternalGrows DEF HoldsInv, ExternalFields
<1>9. ExternalFields' /\ ServedIsAsked'
  BY <1>8 DEF HoldsInv, ExternalFields, FastIsStill, ServedIsAsked
<1>10. Served' = Served
  BY DEF Served
<1>11. control # Idle /\ serving.step \notin {"cue", "transport", "resume", "pause", "release"}
  BY <1>1 DEF HoldsInv, InStep, Idle
<1>12. InStep'
  BY <1>1, <1>11 DEF HoldsInv, InStep, Idle
<1>13. ScreenIsOwned'
  BY <1>1, <1>3, <1>5, <1>6, <1>10 DEF HoldsInv, ScreenIsOwned
<1>14. NamesAreCurrent' /\ PlaybackHasDriver'
  BY <1>1 DEF HoldsInv, NamesAreCurrent, PlaybackHasDriver
<1>15. QED
  BY <1>9, <1>12, <1>13, <1>14 DEF HoldsInv

LEMMA ProceedsHolds ==
  ASSUME HoldsInv, ReplaySound, Proceeds
  PROVE  HoldsInv'
<1>1. (Launch \/ CuePrepare) /\ UNCHANGED <<script, external, serving, driver, cueFailed>>
  BY DEF Proceeds
<1>2. CASE serving = Free
  BY <1>1, <1>2, OperatorGoesOn DEF GoOn
<1>3. CASE serving # Free /\ Launch
  BY <1>1, <1>3, HandlerLaunches
<1>4. CASE CuePrepare
  <2>1. control.op = "cue" /\ DOMAIN control = CueFields
    BY <1>4 DEF CuePrepare, ReplaySound, ReplayInv, ControlTyped
  <2>2. control'.op = "cue" /\ control'.request = control.request
    BY <1>4, <2>1 DEF CuePrepare, CueFields
  <2>3. UNCHANGED <<request, active, began, state>>
    BY <1>4 DEF CuePrepare
  <2>4. [ReplayMoves]_replayVars
    BY <1>4 DEF ReplayMoves, GoOn
  <2>5. QED
    BY <1>1, <2>1, <2>2, <2>3, <2>4, RestHolds
<1>5. QED
  BY <1>1, <1>2, <1>3, <1>4

-----------------------------------------------------------------------------
(* A handler's cue ends.                                                     *)

\* The step that belongs to a cue in flight.
LEMMA CueStep ==
  ASSUME HoldsInv, control.op = "cue", serving # Free
  PROVE  serving.step = "cue" /\ control.request.symbol = Served.symbol
<1>1. control # Idle /\ control.op \notin {"idle", "launch"}
  BY DEF Idle
<1>2. serving.step \notin {"attach", "transport", "resume", "pause", "report", "release"}
  BY <1>1 DEF HoldsInv, InStep
<1>3. serving.step = "cue"
  BY <1>2 DEF HoldsInv, ServedIsAsked
<1>4. QED
  BY <1>3 DEF HoldsInv, InStep

\* The handler answers with an error while nothing plays.
LEMMA FailsHolds ==
  ASSUME HoldsInv, ReplaySound, [ReplayMoves]_replayVars, Fails, serving # Free,
         serving.step \in {"cue", "pause"}, control' = Idle,
         UNCHANGED <<request, active, began>>, state'.symbol = state.symbol,
         state'.state # "replaying"
  PROVE  HoldsInv'
<1>1. /\ serving' = Free /\ script' = script /\ driver' = driver
      /\ external' = [external EXCEPT !.state = "error"]
      /\ cueFailed' = (cueFailed \/ serving.step = "cue")
  BY DEF Fails
<1>2. external \in ExternalSet(generation')
  BY GenerationGrows, ExternalGrows DEF HoldsInv, ExternalFields
<1>3. external' \in ExternalSet(generation')
  BY <1>1, <1>2 DEF ExternalSet, ControlStates
<1>4. /\ external'.attached = external.attached /\ external'.fast = external.fast
      /\ external'.playing = external.playing /\ external'.symbol = external.symbol
      /\ external'.state = "error"
  BY <1>1, <1>2 DEF ExternalSet
<1>5. cueFailed' \in BOOLEAN
  BY <1>1
<1>6. ExternalFields'
  BY <1>1, <1>3, <1>4, <1>5 DEF HoldsInv, ExternalFields, FastIsStill
<1>7. ServedIsAsked' /\ InStep'
  BY <1>1 DEF HoldsInv, ServedIsAsked, InStep, Free, Idle
<1>8. ScreenIsOwned'
  BY <1>1, <1>4 DEF HoldsInv, ScreenIsOwned, Free
<1>9. NamesAreCurrent'
  BY <1>1, <1>4 DEF HoldsInv, NamesAreCurrent, Free
<1>10. PlaybackHasDriver'
  BY DEF PlaybackHasDriver
<1>11. QED
  BY <1>6, <1>7, <1>8, <1>9, <1>10 DEF HoldsInv

LEMMA CueAbortsHolds ==
  ASSUME HoldsInv, ReplaySound, CueAborts
  PROVE  HoldsInv'
<1>1. CueFailed
  BY DEF CueAborts
<1>2. CASE serving = Free
  BY <1>1, <1>2, OperatorGoesOn DEF CueAborts, GoOn
<1>3. CASE serving # Free
  <2>1. control.op = "cue" /\ control' = Idle /\ UNCHANGED <<request, active, began>>
    BY <1>1 DEF CueFailed
  <2>2. control.generation = generation
    BY <2>1 DEF ReplaySound, ReplayInv, CueIsQuiet
  <2>3. DOMAIN state = {"state", "symbol", "position", "generation"}
    BY DEF ReplaySound, ReplayInv, PlaysTyped
  <2>4. IF state.state = "replaying"
          THEN state' = [state EXCEPT !.state = "paused", !.generation = control.generation]
        ELSE state' = state
    BY <1>1, <2>2 DEF CueFailed, Report
  <2>5. state'.symbol = state.symbol /\ state'.state # "replaying"
    BY <2>3, <2>4
  <2>6. Fails
    BY <1>3 DEF CueAborts
  <2>7. [ReplayMoves]_replayVars
    BY <1>1 DEF ReplayMoves, GoOn
  <2>8. QED
    BY <1>3, <2>1, <2>5, <2>6, <2>7, CueStep, FailsHolds
<1>4. QED
  BY <1>2, <1>3

LEMMA CuePublishesHolds ==
  ASSUME OwnerInv, HoldsInv, ReplaySound, CuePublishes
  PROVE  HoldsInv'
<1>1. CueCommit
  BY DEF CuePublishes
<1>2. CASE serving = Free
  BY <1>1, <1>2, OperatorGoesOn DEF CuePublishes, GoOn
<1>3. CASE serving # Free
  <2> DEFINE s == control.request.symbol
  <2>1. control.op = "cue" /\ control.step = "read"
    BY <1>1 DEF CueCommit
  <2>2. control.generation = generation /\ control.base = tape[s]
    BY <2>1 DEF ReplaySound, ReplayInv, CueIsQuiet
  <2>3. NextStep("attach")
    BY <1>3, <2>2 DEF CuePublishes
  <2>4. /\ serving' = [serving EXCEPT !.step = "attach"]
        /\ UNCHANGED <<script, external, driver, cueFailed>>
    BY <2>3 DEF NextStep
  <2>5. serving.step = "cue" /\ s = Served.symbol
    BY <1>3, <2>1, CueStep
  <2>6. /\ serving'.step = "attach" /\ serving'.session = serving.session
        /\ serving'.sequence = serving.sequence
    BY <1>3, <2>4 DEF OwnerInv, ExternalTyped
  <2>7. Served' = Served
    BY <2>4, <2>6 DEF Served
  <2>8. /\ control.request \in Request /\ control.request # NoRequest /\ s \in Symbols
    BY <2>1, NoRequestEnds DEF ReplaySound, ExactInv, OperationTyped, Request
  <2>9. DOMAIN began = Symbols
    BY DEF ReplaySound, ExactInv, BeganTyped
  <2>10. active' = s /\ request' = control.request
    BY <1>1, <2>2 DEF CueCommit
  <2>11. state'.symbol = s
    <3>1. state' = [state |-> IF control.playing THEN "replaying" ELSE "paused", symbol |-> s,
                    position |-> control.target, generation |-> control.generation]
      BY <1>1, <2>2 DEF CueCommit, Report
    <3>2. QED
      BY <3>1
  <2>12. began'[s].how = "cue"
    <3>1. began' = [began EXCEPT ![s] =
             [how |-> "cue", from |-> control.warmup, after |-> NoCursor, mark |-> 0]]
      BY <1>1, <2>2 DEF CueCommit
    <3>2. QED
      BY <2>8, <2>9, <3>1
  <2>13. control' = Idle \/ (control'.op = "launch" /\ control'.fresh = FALSE)
    BY <1>1, <2>2 DEF CueCommit, Launching
  <2>14. external' \in ExternalSet(generation')
    <3>1. [ReplayMoves]_replayVars
      BY <1>1 DEF ReplayMoves, GoOn
    <3>2. QED
      BY <2>4, <3>1, GenerationGrows, ExternalGrows DEF HoldsInv, ExternalFields
  <2>15. ExternalFields'
    BY <2>4, <2>14 DEF HoldsInv, ExternalFields, FastIsStill
  <2>16. ServedIsAsked'
    BY <1>3, <2>4, <2>6 DEF HoldsInv, ServedIsAsked
  <2>17. control'.op \in {"idle", "launch"} /\ (control'.op = "idle" => control' = Idle)
         /\ (control'.op = "launch" => ~control'.fresh)
    BY <2>13 DEF Idle
  <2>18. serving' # Free
    BY <2>6 DEF Free
  <2>19. InStep'
    BY <2>6, <2>17, <2>18 DEF InStep
  <2>20. ScreenIsOwned'
    BY <2>5, <2>7, <2>8, <2>10, <2>11, <2>12 DEF ScreenIsOwned
  <2>21. NamesAreCurrent' /\ PlaybackHasDriver'
    BY <2>6, <2>18 DEF NamesAreCurrent, PlaybackHasDriver
  <2>22. QED
    BY <2>15, <2>16, <2>19, <2>20, <2>21 DEF HoldsInv
<1>4. QED
  BY <1>2, <1>3

-----------------------------------------------------------------------------
(* The other steps of a handler.                                             *)

\* The handler has got as far as a step before a transport's report.
LEMMA StepsOn ==
  ASSUME OwnerInv, HoldsInv, NEW step, step # "free", NextStep(step), serving # Free
  PROVE  /\ serving'.step = step /\ serving'.session = serving.session
         /\ serving'.sequence = serving.sequence /\ serving' # Free /\ Served' = Served
         /\ UNCHANGED <<script, external, driver, cueFailed>>
<1>1. serving' = [serving EXCEPT !.step = step] /\ UNCHANGED <<script, external, driver, cueFailed>>
  BY DEF NextStep
<1>2. /\ serving'.step = step /\ serving'.session = serving.session
      /\ serving'.sequence = serving.sequence
  BY <1>1 DEF OwnerInv, ExternalTyped
<1>3. serving' # Free
  BY <1>2 DEF Free
<1>4. QED
  BY <1>1, <1>2, <1>3 DEF Served

\* A transport moves on: the tape and the screen stay, whatever operation it begins is
\* in flight, and the report is still to come.
LEMMA TransportMoves ==
  ASSUME OwnerInv, HoldsInv, ReplaySound, [ReplayMoves]_replayVars,
         serving.step \in {"transport", "resume", "pause"},
         NEW step \in {"resume", "pause", "report"}, NextStep(step),
         UNCHANGED <<request, active, began>>, state'.symbol = state.symbol,
         \/ control' = Idle
         \/ step = "report" /\ control'.op = "launch" /\ control'.fresh = FALSE
  PROVE  HoldsInv'
<1>1. serving # Free /\ step # "free" /\ external.attached
  BY DEF Free, HoldsInv, InStep
<1>2. /\ serving'.step = step /\ serving'.session = serving.session
      /\ serving'.sequence = serving.sequence /\ serving' # Free /\ Served' = Served
      /\ UNCHANGED <<script, external, driver, cueFailed>>
  BY <1>1, StepsOn
<1>3. external' \in ExternalSet(generation')
  BY <1>2, GenerationGrows, ExternalGrows DEF HoldsInv, ExternalFields
<1>4. ExternalFields'
  BY <1>2, <1>3 DEF HoldsInv, ExternalFields, FastIsStill
<1>5. ServedIsAsked'
  BY <1>1, <1>2 DEF HoldsInv, ServedIsAsked
<1>6. /\ control'.op \in {"idle", "launch"} /\ (control'.op = "idle" => control' = Idle)
      /\ (control'.op = "launch" => ~control'.fresh)
      /\ step # "report" => control' = Idle
  BY DEF Idle
<1>7. InStep'
  BY <1>1, <1>2, <1>6 DEF InStep
<1>8. ScreenIsOwned'
  BY <1>1, <1>2 DEF HoldsInv, ScreenIsOwned
<1>9. NamesAreCurrent' /\ PlaybackHasDriver'
  BY <1>1, <1>2 DEF HoldsInv, NamesAreCurrent, PlaybackHasDriver
<1>10. QED
  BY <1>4, <1>5, <1>7, <1>8, <1>9 DEF HoldsInv

LEMMA TransportHolds ==
  ASSUME OwnerInv, HoldsInv, ReplaySound, Transport \/ TransportResumes \/ TransportPauses
  PROVE  HoldsInv'
<1>1. CASE Transport
  <2>1. control = Idle /\ UNCHANGED replayVars /\ serving.step = "transport"
    BY <1>1 DEF Transport, HoldsInv, InStep
  <2>2. \E step \in {"resume", "pause", "report"} : NextStep(step)
    BY <1>1 DEF Transport
  <2>3. QED
    BY <2>1, <2>2, TransportMoves DEF replayVars
<1>2. CASE TransportResumes
  <2>1. Resume /\ NextStep("report") /\ serving.step = "resume"
    BY <1>2 DEF TransportResumes
  <2>2. /\ UNCHANGED <<request, active, began, state>>
        /\ control'.op = "launch" /\ control'.fresh = FALSE
    BY <2>1 DEF Resume, Launching
  <2>3. [ReplayMoves]_replayVars
    BY <2>1 DEF ReplayMoves, Operates
  <2>4. QED
    BY <2>1, <2>2, <2>3, TransportMoves
<1>3. CASE TransportPauses /\ state.state = "replaying"
  <2>1. Pause /\ NextStep("report") /\ serving.step = "pause" /\ control = Idle
    BY <1>3 DEF TransportPauses, HoldsInv, InStep
  <2>2. /\ UNCHANGED <<request, active, began, control>>
        /\ state' = [state EXCEPT !.state = "paused", !.generation = generation']
    BY <2>1 DEF Pause, Report
  <2>3. state'.symbol = state.symbol
    BY <2>2 DEF ReplaySound, ReplayInv, PlaysTyped
  <2>4. [ReplayMoves]_replayVars
    BY <2>1 DEF ReplayMoves, Operates
  <2>5. QED
    BY <2>1, <2>2, <2>3, <2>4, TransportMoves
<1>4. CASE TransportPauses /\ state.state # "replaying"
  <2>1. Fails /\ UNCHANGED replayVars /\ serving.step = "pause" /\ control = Idle
    BY <1>4 DEF TransportPauses, HoldsInv, InStep
  <2>2. QED
    BY <1>4, <2>1, FailsHolds DEF replayVars, Free
<1>5. QED
  BY <1>1, <1>2, <1>3, <1>4

\* A controller that detaches leaves nothing playing.
LEMMA ReleasePausesHolds ==
  ASSUME HoldsInv, ReplaySound, ReleasePauses
  PROVE  HoldsInv'
<1>1. serving.step = "release" /\ serving' = Free
      /\ UNCHANGED <<script, external, driver, cueFailed>>
  BY DEF ReleasePauses, NextStep
<1>2. serving # Free /\ control = Idle /\ ~external.attached
  BY <1>1 DEF HoldsInv, InStep, Free
<1>3. (control' = Idle /\ Pause) \/ UNCHANGED replayVars
  BY <1>2 DEF ReleasePauses, Pause
<1>4. control' = Idle
  BY <1>2, <1>3 DEF replayVars
<1>5. state'.state # "replaying"
  <2>1. CASE state.state = "replaying"
    <3>1. state' = [state EXCEPT !.state = "paused", !.generation = generation']
      BY <2>1 DEF ReleasePauses, Pause, Report
    <3>2. QED
      BY <3>1 DEF ReplaySound, ReplayInv, PlaysTyped
  <2>2. CASE state.state # "replaying"
    BY <2>2 DEF ReleasePauses, replayVars
  <2>3. QED
    BY <2>1, <2>2
<1>6. [ReplayMoves]_replayVars
  BY <1>3 DEF ReplayMoves, Operates
<1>7. external' \in ExternalSet(generation')
  BY <1>1, <1>6, GenerationGrows, ExternalGrows DEF HoldsInv, ExternalFields
<1>8. ExternalFields' /\ ServedIsAsked'
  BY <1>1, <1>7 DEF HoldsInv, ExternalFields, FastIsStill, ServedIsAsked
<1>9. InStep' /\ ScreenIsOwned'
  BY <1>1, <1>2, <1>4 DEF InStep, ScreenIsOwned, Free, Idle
<1>10. NamesAreCurrent' /\ PlaybackHasDriver'
  BY <1>1, <1>2, <1>5 DEF NamesAreCurrent, PlaybackHasDriver
<1>11. QED
  BY <1>8, <1>9, <1>10 DEF HoldsInv

\* What the controller is told of the replay it has attached is what is there.
LEMMA AttachHolds ==
  ASSUME HoldsInv, ReplaySound, Attach
  PROVE  HoldsInv'
<1>1. /\ serving.step = "attach" /\ serving # Free /\ control = Idle /\ serving' = Free
      /\ cueFailed' = FALSE /\ UNCHANGED <<replayVars, script, driver>>
  BY DEF Attach, Free
<1>2. /\ serving.session \in Sessions /\ serving.sequence \in DOMAIN script[serving.session]
      /\ script \in Scripts
  BY <1>1 DEF HoldsInv, ServedIsAsked
<1>3. serving.sequence \in Nat
  <2>1. script \in [Sessions -> Seq(ControlRequest)]
    BY <1>2, ControlAssumption
  <2>2. script[serving.session] \in Seq(ControlRequest)
    BY <1>2, <2>1
  <2>3. QED
    BY <1>2, <2>2
<1>4. /\ Served.symbol \in Symbols /\ Served.target \in Nat /\ Served.speed \in Nat
      /\ Served.playing \in BOOLEAN
  BY <1>2, AskedFields DEF Served, Instants
<1>5. external' =
       [attached |-> TRUE, session |-> serving.session, sequence |-> serving.sequence,
        generation |-> state.generation, symbol |-> Served.symbol, target |-> Served.target,
        speed |-> Served.speed, playing |-> Served.playing /\ ~Fast(Served),
        fast |-> Fast(Served),
        state |-> IF Fast(Served) THEN "fast_follow"
                  ELSE IF Served.playing THEN "following" ELSE "paused"]
  BY DEF Attach
<1>6. /\ external'.attached = TRUE /\ external'.generation = state.generation
      /\ external'.symbol = Served.symbol
  BY <1>5
<1>7. Fast(Served) \in BOOLEAN
  BY DEF Fast
<1>8. external' \in ExternalSet(generation')
  <2>1. state.generation \in 0 .. generation' /\ serving.session \in Sessions \cup {Nobody}
    BY <1>1, <1>2 DEF ReplaySound, Reached, replayVars
  <2> DEFINE name == IF Fast(Served) THEN "fast_follow"
                     ELSE IF Served.playing THEN "following" ELSE "paused"
             still == Served.playing /\ ~Fast(Served)
  <2>2. name \in ControlStates /\ still \in BOOLEAN
    BY DEF ControlStates
  <2>3. external' =
       [attached |-> TRUE, session |-> serving.session, sequence |-> serving.sequence,
        generation |-> state.generation, symbol |-> Served.symbol, target |-> Served.target,
        speed |-> Served.speed, playing |-> still, fast |-> Fast(Served), state |-> name]
    BY <1>5
  <2> HIDE DEF name, still
  <2>4. QED
    BY <1>3, <1>4, <1>7, <2>1, <2>2, <2>3 DEF ExternalSet
<1>9. FastIsStill'
  <2>1. CASE Fast(Served)
    BY <1>5, <2>1 DEF FastIsStill
  <2>2. CASE ~Fast(Served)
    BY <1>5, <2>2 DEF FastIsStill
  <2>3. QED
    BY <2>1, <2>2
<1>10. ExternalFields' /\ ServedIsAsked'
  BY <1>1, <1>2, <1>8, <1>9 DEF HoldsInv, ExternalFields, ServedIsAsked
<1>11. control' = Idle /\ UNCHANGED <<request, active, state, began>>
  BY <1>1 DEF replayVars
<1>12. InStep'
  BY <1>1, <1>11 DEF InStep, Free, Idle
<1>13. ScreenIsOwned'
  BY <1>1, <1>6, <1>11 DEF HoldsInv, ScreenIsOwned, Free
<1>14. Served.symbol = active
  BY <1>1 DEF HoldsInv, ScreenIsOwned
<1>15. NamesAreCurrent' /\ PlaybackHasDriver'
  BY <1>6, <1>11, <1>14 DEF NamesAreCurrent, PlaybackHasDriver
<1>16. QED
  BY <1>10, <1>12, <1>13, <1>15 DEF HoldsInv

LEMMA ReportGenerationHolds ==
  ASSUME HoldsInv, ReplaySound, ReportGeneration
  PROVE  HoldsInv'
<1>1. /\ serving.step = "report" /\ serving # Free /\ control = Idle /\ serving' = Free
      /\ external' = [external EXCEPT !.generation = state.generation]
      /\ UNCHANGED <<replayVars, script, driver, cueFailed>>
  BY DEF ReportGeneration, Free
<1>2. external \in ExternalSet(generation) /\ state.generation \in 0 .. generation
  BY DEF HoldsInv, ExternalFields, ReplaySound, Reached
<1>3. external' \in ExternalSet(generation)
  BY <1>1, <1>2 DEF ExternalSet
<1>4. /\ external'.generation = state.generation /\ external'.attached = external.attached
      /\ external'.fast = external.fast /\ external'.playing = external.playing
      /\ external'.symbol = external.symbol /\ external'.state = external.state
  BY <1>1, <1>2 DEF ExternalSet
<1>5. control' = Idle /\ UNCHANGED <<request, active, state, began, generation>>
  BY <1>1 DEF replayVars
<1>6. ExternalFields' /\ ServedIsAsked'
  BY <1>1, <1>3, <1>4, <1>5 DEF HoldsInv, ExternalFields, FastIsStill, ServedIsAsked
<1>7. external.attached
  BY <1>1 DEF HoldsInv, InStep
<1>8. InStep' /\ ScreenIsOwned'
  BY <1>1, <1>4, <1>5 DEF HoldsInv, InStep, ScreenIsOwned, Free, Idle
<1>9. NamesAreCurrent' /\ PlaybackHasDriver'
  BY <1>1, <1>4, <1>5, <1>7 DEF HoldsInv, NamesAreCurrent, PlaybackHasDriver
<1>10. QED
  BY <1>6, <1>8, <1>9 DEF HoldsInv

LEMMA ContinueHolds ==
  ASSUME OwnerInv, HoldsInv, ReplaySound, Continue
  PROVE  HoldsInv'
BY ProceedsHolds, CueAbortsHolds, CuePublishesHolds, AttachHolds, TransportHolds,
   ReportGenerationHolds, ReleasePausesHolds DEF Continue


-----------------------------------------------------------------------------
(* Requests, and the operator.                                               *)

\* A handler starts when nothing else is in progress.
LEMMA ArrivesFree ==
  ASSUME HoldsInv, NEW c \in Sessions, NEW n, NEW k, Arrives(c, n, k)
  PROVE  /\ serving = Free /\ serving.step = "free" /\ control = Idle
         /\ n \in DOMAIN script[c] /\ script \in Scripts /\ n \in Nat
<1>1. serving = Free /\ control = Idle /\ n \in DOMAIN script[c] /\ script \in Scripts
  BY DEF Arrives, Begins, HoldsInv, ServedIsAsked
<1>2. script[c] \in Seq(ControlRequest)
  BY <1>1, ControlAssumption
<1>3. QED
  BY <1>1, <1>2 DEF Free

LEMMA ServingFields ==
  ASSUME NEW step, step # "free", NEW c, NEW n, serving' = Serving(step, c, n), script' = script
  PROVE  /\ serving'.step = step /\ serving'.session = c /\ serving'.sequence = n
         /\ serving' # Free /\ Served' = script[c][n]
<1>1. serving'.step = step /\ serving'.session = c /\ serving'.sequence = n
  BY DEF Serving
<1>2. QED
  BY <1>1 DEF Free, Served

LEMMA SyncInPlaceHolds ==
  ASSUME HoldsInv, ReplaySound, NEW c \in Sessions, NEW n, SyncInPlace(c, n)
  PROVE  HoldsInv'
<1> DEFINE r == script[c][n]
           name == IF r.playing THEN "following" ELSE "paused"
<1>1. /\ serving = Free /\ serving.step = "free" /\ control = Idle
      /\ n \in DOMAIN script[c] /\ script \in Scripts /\ n \in Nat
  BY ArrivesFree DEF SyncInPlace
<1>2. r.playing \in BOOLEAN /\ r.target \in Nat /\ r.speed \in Nat
  BY <1>1, AskedFields DEF Instants
<1>3. /\ external.attached /\ ~external.fast
      /\ external' = [external EXCEPT !.sequence = n, !.target = r.target, !.speed = r.speed,
                        !.playing = r.playing, !.state = name]
      /\ serving' = Serving("transport", c, n) /\ driver' = "controller"
      /\ UNCHANGED <<replayVars, script, cueFailed>>
  BY DEF SyncInPlace, CorrectedInPlace
<1>4. /\ serving'.step = "transport" /\ serving'.session = c /\ serving'.sequence = n
      /\ serving' # Free
  BY <1>3, ServingFields
<1>5. name \in ControlStates
  BY DEF ControlStates
<1>6. external \in ExternalSet(generation)
  BY DEF HoldsInv, ExternalFields
<1> HIDE DEF r, name
<1>7. external' \in ExternalSet(generation)
  BY <1>1, <1>2, <1>3, <1>5, <1>6 DEF ExternalSet
<1>8. external'.attached = external.attached /\ external'.fast = external.fast
      /\ external'.symbol = external.symbol
  BY <1>3, <1>6 DEF ExternalSet
<1>9. UNCHANGED <<control, request, active, state, began, generation>>
  BY <1>3 DEF replayVars
<1>10. ExternalFields'
  BY <1>3, <1>7, <1>8, <1>9 DEF HoldsInv, ExternalFields, FastIsStill
<1>11. ServedIsAsked'
  BY <1>1, <1>3, <1>4 DEF ServedIsAsked
<1>12. InStep'
  BY <1>1, <1>3, <1>4, <1>8, <1>9 DEF InStep, Idle
<1>13. ScreenIsOwned' /\ NamesAreCurrent' /\ PlaybackHasDriver'
  BY <1>1, <1>3, <1>4, <1>8, <1>9
     DEF HoldsInv, ScreenIsOwned, NamesAreCurrent, PlaybackHasDriver
<1>14. QED
  BY <1>10, <1>11, <1>12, <1>13 DEF HoldsInv

LEMMA FollowHolds ==
  ASSUME HoldsInv, ReplaySound, NEW c \in Sessions, NEW n, Follow(c, n)
  PROVE  HoldsInv'
<1> DEFINE r == script[c][n]
<1>1. /\ serving = Free /\ serving.step = "free" /\ control = Idle
      /\ n \in DOMAIN script[c] /\ script \in Scripts /\ n \in Nat
  BY ArrivesFree DEF Follow
<1>2. r.symbol \in Symbols /\ r.target \in Instants /\ r.target \in Nat /\ r.speed \in Nat
  BY <1>1, AskedFields DEF Instants
<1>3. /\ external.attached /\ external.fast /\ Track(r.symbol, r.target)
      /\ external' = [external EXCEPT !.sequence = n, !.target = r.target, !.speed = r.speed,
                        !.playing = FALSE, !.generation = generation', !.state = "fast_follow"]
      /\ driver' = "controller" /\ UNCHANGED <<script, serving, cueFailed>>
  BY DEF Follow, Followed
<1> HIDE DEF r
<1>4. generation \in Nat /\ generation' \in Nat /\ generation <= generation'
  <2>1. [ReplayMoves]_replayVars
    BY <1>2, <1>3 DEF ReplayMoves, Operates
  <2>2. QED
    BY <2>1, GenerationGrows
<1>5. external \in ExternalSet(generation')
  BY <1>4, ExternalGrows DEF HoldsInv, ExternalFields
<1>6. external' \in ExternalSet(generation')
  <2>1. generation' \in 0 .. generation' /\ "fast_follow" \in ControlStates
    BY <1>4 DEF ControlStates
  <2>2. external' = [external EXCEPT !.sequence = n, !.target = r.target, !.speed = r.speed,
                       !.playing = FALSE, !.generation = generation', !.state = "fast_follow"]
    BY <1>3
  <2>3. QED
    BY <1>1, <1>2, <1>5, <2>1, <2>2 DEF ExternalSet
<1>7. /\ external'.attached = external.attached /\ external'.fast = external.fast
      /\ external'.symbol = external.symbol /\ external'.playing = FALSE
      /\ external'.generation = generation' /\ external'.state = "fast_follow"
  BY <1>3, <1>5 DEF ExternalSet
<1>8. /\ state' = [state EXCEPT !.state = "paused", !.position = r.target, !.generation = generation']
      /\ UNCHANGED <<active, request, control>>
  BY <1>3 DEF Track, Report
<1>9. /\ state'.symbol = state.symbol /\ state'.generation = generation'
      /\ state'.state = "paused"
  BY <1>8 DEF ReplaySound, ReplayInv, PlaysTyped
<1>10. ExternalFields' /\ ServedIsAsked'
  BY <1>1, <1>3, <1>6, <1>7 DEF HoldsInv, ExternalFields, FastIsStill, ServedIsAsked
<1>11. InStep'
  BY <1>1, <1>3, <1>8 DEF InStep, Idle
<1>12. ScreenIsOwned' /\ NamesAreCurrent' /\ PlaybackHasDriver'
  BY <1>1, <1>3, <1>7, <1>8, <1>9
     DEF HoldsInv, ScreenIsOwned, NamesAreCurrent, PlaybackHasDriver
<1>13. QED
  BY <1>10, <1>11, <1>12 DEF HoldsInv

LEMMA IncompleteHolds ==
  ASSUME HoldsInv, ReplaySound, NEW c \in Sessions, NEW n, Incomplete(c, n)
  PROVE  HoldsInv'
<1>1. /\ serving = Free /\ serving.step = "free" /\ control = Idle
  BY ArrivesFree DEF Incomplete
<1>2. /\ external' = [external EXCEPT !.state = "data_incomplete"]
      /\ UNCHANGED <<replayVars, script, serving, driver, cueFailed>>
  BY DEF Incomplete
<1>3. external \in ExternalSet(generation)
  BY DEF HoldsInv, ExternalFields
<1>4. external' \in ExternalSet(generation)
  BY <1>2, <1>3 DEF ExternalSet, ControlStates
<1>5. /\ external'.attached = external.attached /\ external'.fast = external.fast
      /\ external'.symbol = external.symbol /\ external'.playing = external.playing
      /\ external'.state = "data_incomplete"
  BY <1>2, <1>3 DEF ExternalSet
<1>6. UNCHANGED <<control, request, active, state, began, generation>>
  BY <1>2 DEF replayVars
<1>7. ExternalFields' /\ ServedIsAsked'
  BY <1>2, <1>4, <1>5, <1>6 DEF HoldsInv, ExternalFields, FastIsStill, ServedIsAsked
<1>8. InStep'
  BY <1>1, <1>2, <1>6 DEF InStep, Idle
<1>9. ScreenIsOwned' /\ NamesAreCurrent' /\ PlaybackHasDriver'
  BY <1>1, <1>2, <1>5, <1>6
     DEF HoldsInv, ScreenIsOwned, NamesAreCurrent, PlaybackHasDriver
<1>10. QED
  BY <1>7, <1>8, <1>9 DEF HoldsInv

LEMMA RebuildHolds ==
  ASSUME HoldsInv, ReplaySound, NEW c \in Sessions, NEW n, Rebuild(c, n)
  PROVE  HoldsInv'
<1> DEFINE r == script[c][n]
           playing == r.playing /\ ~Fast(r)
<1>1. /\ serving = Free /\ serving.step = "free" /\ control = Idle
      /\ n \in DOMAIN script[c] /\ script \in Scripts /\ n \in Nat
  BY ArrivesFree DEF Rebuild
<1>2. /\ r.symbol \in Symbols /\ r.target \in Instants /\ r.target \in Nat
      /\ r.warmup \in Instants /\ r.end \in Instants /\ playing \in BOOLEAN
  BY <1>1, AskedFields DEF Instants
<1>3. /\ external' = [external EXCEPT !.state = "cueing", !.symbol = r.symbol, !.target = r.target]
      /\ Cue(r.symbol, r.warmup, r.target, r.end, playing, TRUE)
      /\ serving' = Serving("cue", c, n)
      /\ driver' = "controller" /\ UNCHANGED <<script, cueFailed>>
  BY DEF Rebuild
<1>4. /\ serving'.step = "cue" /\ serving'.session = c /\ serving'.sequence = n
      /\ serving' # Free /\ Served' = r
  BY <1>3, ServingFields
<1>5. /\ control'.op = "cue" /\ control'.request.symbol = r.symbol
      /\ UNCHANGED <<active, state, request, began>>
  BY <1>3 DEF Cue
<1> HIDE DEF r, playing
<1>6. generation \in Nat /\ generation' \in Nat /\ generation <= generation'
  <2>1. [ReplayMoves]_replayVars
    BY <1>2, <1>3 DEF ReplayMoves, Operates
  <2>2. QED
    BY <2>1, GenerationGrows
<1>7. external \in ExternalSet(generation')
  BY <1>6, ExternalGrows DEF HoldsInv, ExternalFields
<1>8. external' \in ExternalSet(generation')
  BY <1>2, <1>3, <1>7 DEF ExternalSet, ControlStates
<1>9. /\ external'.attached = external.attached /\ external'.fast = external.fast
      /\ external'.playing = external.playing /\ external'.state = "cueing"
  BY <1>3, <1>7 DEF ExternalSet
<1>10. ExternalFields'
  BY <1>3, <1>8, <1>9 DEF HoldsInv, ExternalFields, FastIsStill
<1>11. ServedIsAsked'
  BY <1>1, <1>3, <1>4 DEF ServedIsAsked
<1>12. InStep'
  BY <1>4, <1>5 DEF InStep
<1>13. ScreenIsOwned' /\ NamesAreCurrent' /\ PlaybackHasDriver'
  BY <1>1, <1>4, <1>5, <1>9
     DEF HoldsInv, ScreenIsOwned, NamesAreCurrent, PlaybackHasDriver
<1>14. QED
  BY <1>10, <1>11, <1>12, <1>13 DEF HoldsInv

LEMMA DetachedFields ==
  ASSUME NEW g \in Nat
  PROVE  /\ Detached \in ExternalSet(g) /\ Detached.attached = FALSE /\ Detached.fast = FALSE
<1>1. 0 \in 0 .. g
  OBVIOUS
<1>2. QED
  BY <1>1 DEF Detached, ExternalSet, ControlStates

LEMMA DetachHolds ==
  ASSUME HoldsInv, ReplaySound, NEW c \in Sessions, NEW n, Detach(c, n)
  PROVE  HoldsInv'
<1>1. /\ serving = Free /\ control = Idle
      /\ n \in DOMAIN script[c] /\ script \in Scripts
  BY ArrivesFree DEF Detach
<1>2. /\ external' = Detached /\ serving' = Serving("release", c, n) /\ driver' = Nobody
      /\ UNCHANGED <<replayVars, script, cueFailed>>
  BY DEF Detach
<1>3. /\ serving'.step = "release" /\ serving'.session = c /\ serving'.sequence = n
      /\ serving' # Free
  BY <1>2, ServingFields
<1>4. generation \in Nat /\ UNCHANGED <<control, generation>>
  BY <1>2 DEF ReplaySound, ReplayInv, PlaysTyped, replayVars
<1>5. /\ external' \in ExternalSet(generation') /\ ~external'.attached /\ ~external'.fast
  BY <1>2, <1>4, DetachedFields
<1>6. ExternalFields'
  BY <1>2, <1>5 DEF HoldsInv, ExternalFields, FastIsStill
<1>7. ServedIsAsked'
  BY <1>1, <1>2, <1>3 DEF ServedIsAsked
<1>8. InStep'
  BY <1>1, <1>3, <1>4, <1>5 DEF InStep, Idle
<1>9. ScreenIsOwned' /\ NamesAreCurrent' /\ PlaybackHasDriver'
  BY <1>3, <1>5 DEF ScreenIsOwned, NamesAreCurrent, PlaybackHasDriver
<1>10. QED
  BY <1>6, <1>7, <1>8, <1>9 DEF HoldsInv

LEMMA RequestedHolds ==
  ASSUME HoldsInv, ReplaySound, Requested
  PROVE  HoldsInv'
<1>1. PICK c \in Sessions : \E n \in DOMAIN script[c] :
        SyncInPlace(c, n) \/ Follow(c, n) \/ Incomplete(c, n) \/ Rebuild(c, n) \/ Detach(c, n)
  BY DEF Requested
<1>2. QED
  BY <1>1, SyncInPlaceHolds, FollowHolds, IncompleteHolds, RebuildHolds, DetachHolds

\* The operator takes over: nobody is attached any more.
LEMMA ManualHolds ==
  ASSUME HoldsInv, ReplaySound, Manual
  PROVE  HoldsInv'
<1>1. /\ serving = Free /\ control = Idle /\ serving' = Free /\ script' = script
      /\ cueFailed' = cueFailed /\ driver' = "operator"
      /\ external' = IF external.attached THEN Detached ELSE external
  BY DEF Manual
<1>2. [ReplayMoves]_replayVars
  BY ManualOperates DEF ReplayMoves
<1>3. generation' \in Nat /\ external \in ExternalSet(generation')
  BY <1>2, GenerationGrows, ExternalGrows DEF HoldsInv, ExternalFields
<1>4. external' \in ExternalSet(generation') /\ ~external'.attached /\ FastIsStill'
  <2>1. CASE external.attached
    BY <1>1, <1>3, <2>1, DetachedFields DEF FastIsStill
  <2>2. CASE ~external.attached
    BY <1>1, <1>3, <2>2 DEF HoldsInv, ExternalFields, FastIsStill
  <2>3. QED
    BY <2>1, <2>2
<1>5. control' = Idle \/ control'.op = "launch" \/ control'.op = "cue"
  <2>1. CASE UNCHANGED replayVars
    BY <1>1, <2>1 DEF replayVars
  <2>2. CASE Operates
    <3>1. CASE \E s \in Symbols, warmup, target, end \in Instants, playing, ext \in BOOLEAN :
                 Cue(s, warmup, target, end, playing, ext)
      <4>1. control'.op = "cue"
        BY <3>1 DEF Cue
      <4>2. QED
        BY <4>1
    <3>2. CASE \/ \E s \in Symbols, start, end \in Instants : Start(s, start, end)
               \/ \E target \in Instants : SeekTo(target)
               \/ Resume
      <4>1. control'.op = "launch"
        BY <3>2 DEF Start, SeekTo, Resume, Launching
      <4>2. QED
        BY <4>1
    <3>3. CASE \/ Pause \/ Stop
               \/ \E s \in Symbols, target \in Instants : Track(s, target)
               \/ \E s \in Symbols : SetSymbol(s)
      BY <1>1, <3>3 DEF Pause, Stop, Track, SetSymbol
    <3>4. QED
      BY <2>2, <3>1, <3>2, <3>3 DEF Operates
  <2>3. QED
    BY <2>1, <2>2, ManualOperates
<1>6. control'.op = "idle" => control' = Idle
  BY <1>5
<1>7. cueFailed' \in BOOLEAN
  BY <1>1 DEF HoldsInv, ExternalFields
<1>8. QED
  BY <1>1, <1>4, <1>6, <1>7, UnownedHolds


-----------------------------------------------------------------------------

ControlInv == OwnerInv /\ ReplaySound /\ HoldsInv

LEMMA HoldsInvInit ==
  ASSUME ControlInit
  PROVE  HoldsInv
<1>1. /\ external = [Detached EXCEPT !.state = "detached"] /\ serving = Free
      /\ driver = "operator" /\ cueFailed = FALSE /\ script \in Scripts
      /\ control = Idle /\ generation = 0
  BY DEF ControlInit, ReplayInit
<1>2. external = Detached
  BY <1>1 DEF Detached
<1>3. external \in ExternalSet(generation) /\ ~external.attached /\ ~external.fast
  BY <1>1, <1>2, DetachedFields
<1>4. ExternalFields /\ ServedIsAsked
  BY <1>1, <1>3 DEF ExternalFields, FastIsStill, ServedIsAsked
<1>5. InStep
  BY <1>1 DEF InStep, Free, Idle
<1>6. ScreenIsOwned /\ NamesAreCurrent /\ PlaybackHasDriver
  BY <1>1, <1>3 DEF ScreenIsOwned, NamesAreCurrent, PlaybackHasDriver, Free
<1>7. QED
  BY <1>4, <1>5, <1>6 DEF HoldsInv

LEMMA HoldsInvStep ==
  ASSUME OwnerInv, HoldsInv, ReplaySound, [ControlNext]_controlVars
  PROVE  HoldsInv'
<1>1. CASE UNCHANGED controlVars
  BY <1>1, RestHolds DEF controlVars, replayVars
<1>2. CASE ControlNext
  BY <1>2, PlaybackHolds, RequestedHolds, ManualHolds, ContinueHolds DEF ControlNext
<1>3. QED
  BY <1>1, <1>2

LEMMA ControlInvInit ==
  ASSUME ControlInit
  PROVE  ControlInv
<1>1. ReplayInit
  BY DEF ControlInit
<1>2. QED
  BY <1>1, OwnerInvInit, ReplaySoundInit, HoldsInvInit DEF ControlInv

LEMMA ControlInvStep ==
  ASSUME ControlInv, [ControlNext]_controlVars
  PROVE  ControlInv'
<1>1. ServedIsAsked
  BY DEF ControlInv, HoldsInv
<1>2. ReplaySound'
  BY <1>1, ControlMoves, ReplaySoundStep DEF ControlInv
<1>3. OwnerInv' /\ HoldsInv'
  BY OwnerInvStep, HoldsInvStep DEF ControlInv
<1>4. QED
  BY <1>2, <1>3 DEF ControlInv

LEMMA ControlInvHolds == ControlSpec => []ControlInv
BY ControlInvInit, ControlInvStep, PTL DEF ControlSpec

LEMMA InvOwns ==
  ASSUME ControlInv
  PROVE  OwnershipHolds
<1>1. ReplayTypeOK /\ HoldsInv
  BY DEF ControlInv, ReplaySound, ExactInv
<1>2. serving.step \in {"free", "cue", "attach", "transport", "resume", "pause", "report",
                        "release"}
  BY <1>1 DEF HoldsInv, ServedIsAsked, Free
<1>3. ControlTypeOK
  BY <1>1, <1>2 DEF ControlTypeOK, HoldsInv, ExternalFields, ExternalSet, FastIsStill
<1>4. AttachedIsShown
  BY <1>1 DEF AttachedIsShown, HoldsInv, ScreenIsOwned, NamesAreCurrent, Free
<1>5. QED
  BY <1>1, <1>3, <1>4 DEF OwnershipHolds, HoldsInv

\* What plays and what is on screen have the owner that the server believes they have:
\* between two requests the controller's symbol is on screen, the generation that it will
\* be compared with is the replay's, and nothing plays that nobody drives; whatever
\* cues fail, whatever the operator does and wherever the goroutines stand.
THEOREM OwnershipStaysTrue == ControlSpec => []OwnershipHolds
BY ControlInvHolds, InvOwns, PTL

-----------------------------------------------------------------------------
(* Drifts.                                                                   *)

\* Everything that was recorded from the warmup to the clock is on the tape when a
\* drift is absorbed.
InPlace ==
  serving = Free /\ serving'.step = "transport" =>
    LET s == state.symbol
        b == began[s]
    IN /\ b.how = "cue"
       /\ \A e \in Recording[s] :
            b.from <= e.us /\ e.us < state.position => ~After(e, cursor)

\* Only the in-place branch starts a transport.
LEMMA TransportStarts ==
  ASSUME [ControlNext]_controlVars, serving = Free, serving'.step = "transport"
  PROVE  \E c \in Sessions : \E n \in DOMAIN script[c] : SyncInPlace(c, n)
<1>1. serving' # serving /\ serving.step = "free"
  BY DEF Free
<1>2. Requested
  <2>1. ~Manual /\ ~Playback /\ ~UNCHANGED controlVars
    BY <1>1 DEF Manual, Playback, controlVars
  <2>2. ~Continue
    BY <1>1 DEF Continue, Proceeds, CueAborts, CuePublishes, Attach, Transport, TransportResumes,
                TransportPauses, ReportGeneration, ReleasePauses
  <2>3. QED
    BY <2>1, <2>2 DEF ControlNext
<1>3. PICK c \in Sessions : \E n \in DOMAIN script[c] :
        SyncInPlace(c, n) \/ Follow(c, n) \/ Incomplete(c, n) \/ Rebuild(c, n) \/ Detach(c, n)
  BY <1>2 DEF Requested
<1>4. PICK n \in DOMAIN script[c] :
        SyncInPlace(c, n) \/ Follow(c, n) \/ Incomplete(c, n) \/ Rebuild(c, n) \/ Detach(c, n)
  BY <1>3
<1>5. ~Follow(c, n) /\ ~Incomplete(c, n)
  BY <1>1 DEF Follow, Incomplete
<1>6. ~Rebuild(c, n)
  <2>1. Serving("cue", c, n).step = "cue"
    BY DEF Serving
  <2>2. QED
    BY <2>1 DEF Rebuild
<1>7. ~Detach(c, n)
  <2>1. Serving("release", c, n).step = "release"
    BY DEF Serving
  <2>2. QED
    BY <2>1 DEF Detach
<1>8. QED
  BY <1>4, <1>5, <1>6, <1>7

LEMMA DriftIsExact ==
  ASSUME ControlInv, [ControlNext]_controlVars
  PROVE  InPlace
<1> SUFFICES ASSUME serving = Free, serving'.step = "transport"
             PROVE  /\ began[state.symbol].how = "cue"
                    /\ \A e \in Recording[state.symbol] :
                         began[state.symbol].from <= e.us /\ e.us < state.position =>
                           ~After(e, cursor)
  BY DEF InPlace
<1>1. PICK c \in Sessions : \E n \in DOMAIN script[c] : SyncInPlace(c, n)
  BY TransportStarts
<1>2. PICK n \in DOMAIN script[c] : SyncInPlace(c, n)
  BY <1>1
<1>3. external.attached /\ ~external.fast /\ control = Idle
  BY <1>2 DEF SyncInPlace, CorrectedInPlace, Arrives, Begins
<1>4. /\ request # NoRequest /\ state.symbol = request.symbol
      /\ began[request.symbol].how = "cue"
  BY <1>3 DEF ControlInv, HoldsInv, ScreenIsOwned
<1>5. Continues(tape[request.symbol], request.symbol, began[request.symbol], cursor, resumeUS)
  BY <1>3, <1>4 DEF ControlInv, ReplaySound, ExactInv, TapeContinues, Idle
<1>6. state.position <= resumeUS /\ state.position \in Nat /\ resumeUS \in Nat
  BY <1>4 DEF ControlInv, ReplaySound, ClockFollows, ExactInv, ReplayTypeOK
<1>7. request.symbol \in Symbols
  BY <1>4 DEF ControlInv, ReplaySound, ExactInv, ReplayTypeOK, Request
<1>8. ASSUME NEW e \in Recording[request.symbol], began[request.symbol].from <= e.us,
             e.us < state.position
      PROVE  ~After(e, cursor)
  <2>1. e.us \in Nat
    BY <1>7, <1>8, RecordedEvents DEF Event
  <2>2. began[request.symbol].from \in Nat
    BY <1>7 DEF ControlInv, ReplaySound, ExactInv, BeganTyped
  <2>3. After(e, cursor) => e.us >= resumeUS
    BY <1>5, <1>8, <2>1, <2>2 DEF Continues
  <2>4. QED
    BY <1>6, <1>8, <2>1, <2>3
<1>9. QED
  BY <1>4, <1>8

\* A drift is only ever absorbed on a tape that continues the controller's cue: everything
\* recorded from its warmup to the clock is there, for every recording, also where rows
\* share a microsecond and after any number of pauses and failed requests.
THEOREM DriftsAbsorbedExactly == ControlSpec => InPlaceIsExact
<1>1. InPlaceIsExact <=> [][InPlace]_controlVars
  BY DEF InPlaceIsExact, InPlace
<1>2. ControlInv /\ [ControlNext]_controlVars => [InPlace]_controlVars
  BY DriftIsExact
<1>3. QED
  BY <1>1, <1>2, ControlInvHolds, PTL DEF ControlSpec


================================================================================
