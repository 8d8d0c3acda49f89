----------------------------- MODULE GexHistory -----------------------------
(***************************************************************************)
(* The archive of measured option exposure and its review: the server       *)
(* appends each measurement of a live session to a file of the day          *)
(* (gex_archive.go), answers a review at a time with the measurement of that  *)
(* time, the timeline of the day and the measurements some minutes earlier    *)
(* (gex_history.go), and the browser accepts of that answer what it can       *)
(* verify (gex-model.js, gex-history-model.js).  Writes fail in the middle,   *)
(* the server restarts, and a later session is a replay that seeks.           *)
(*                                                                         *)
(* One stock; a day is DayTicks ticks of half a minute.  How an answer gets   *)
(* to the dialog that asked for it is Panels' part.                           *)
(***************************************************************************)
EXTENDS Integers, FiniteSets, SequencesExt

CONSTANTS Scopes,      \* expiry windows: 30, 60, 120 days
          Qualities,   \* of a measurement: [covered, lag], lag of the stock's price
          Lookbacks,   \* ticks: 1, 5, 15, 30 minutes
          MaxAge,      \* 90 s
          DayTicks, Open, Close, LastTick,
          MaxWrites    \* bound on appended lines

VARIABLES clock, replaying,
          file,      \* by day: its lines, [whole, record]
          memory     \* a.day and a.last: [day, at], at by scope

vars == <<clock, replaying, file, memory>>

Day(t) == t \div DayTicks
Days == 0 .. Day(LastTick)
gexRTH(t) == t % DayTicks \in Open .. Close - 1
Nothing == [at |-> 0]
Garbage == [at |-> 0, scope |-> 0, covered |-> FALSE, lag |-> 0]

-----------------------------------------------------------------------------
(* The archive *)

\* An append goes on where the file ends: a line that a failed write left without its
\* end takes the next one with it.
Appended(lines, record, torn) ==
  IF lines # <<>> /\ ~Last(lines).whole
  THEN [lines EXCEPT ![Len(lines)] = [whole |-> ~torn, record |-> Garbage]]
  ELSE Append(lines, [whole |-> ~torn, record |-> IF torn THEN Garbage ELSE record])

Remembered(day) == IF memory.day = day THEN memory ELSE [day |-> day, at |-> [s \in Scopes |-> 0]]

\* loadLocked: what can be read of a day, in the order of its times.  The cache is keyed
\* by the file's size and changes nothing.
Loaded(day) ==
  LET lines == SelectSeq(file[day], LAMBDA line : line.record # Garbage)
  IN SortSeq([i \in DOMAIN lines |-> [record |-> lines[i].record, place |-> i]],
             LAMBDA a, b : a.record.at < b.record.at \/ (a.record.at = b.record.at /\ a.place < b.place))

\* replayAt: the last measurement of the scope up to a time.
ReplayAt(scope, t) ==
  LET known == SelectSeq(Loaded(Day(t)), LAMBDA e : e.record.scope = scope /\ e.record.at <= t)
  IN IF known = <<>> THEN Nothing ELSE Last(known).record

-----------------------------------------------------------------------------
(* The review *)

\* usableGEXHistory
Usable(r) == r.covered /\ 0 <= r.lag /\ r.lag <= MaxAge

\* historyAt: measurements of the scope up to the clock; a repeated append is one.
\* Mutant of OfScope: those of every expiry window.
OfScope_Any(r, scope) == TRUE
OfScope(r, scope) == r.scope = scope

Eligible(scope, t) ==
  LET Add(seen, e) ==
        IF ~OfScope(e.record, scope) \/ e.record.at > t \/ ~gexRTH(e.record.at) THEN seen
        ELSE IF seen # <<>> /\ Last(seen).at = e.record.at THEN Append(Front(seen), e.record)
        ELSE Append(seen, e.record)
  IN FoldLeft(Add, <<>>, Loaded(Day(t)))

\* The newest measurement at or before the target, if it is near and usable.
Compared(eligible, target) ==
  LET before == SelectSeq(eligible, LAMBDA r : r.at <= target)
  IN IF before = <<>> \/ target - Last(before).at > MaxAge \/ ~Usable(Last(before)) THEN Nothing
     ELSE Last(before)

\* historyAt, for a review at the clock `t' of the measurement of `anchor'.
HistoryAt(scope, t, anchor) ==
  LET eligible == Eligible(scope, t)
  IN [anchor |-> anchor, day |-> Day(t),
      timeline |-> [i \in DOMAIN eligible |->
                      [at |-> eligible[i].at, known |-> Usable(eligible[i])]],
      comparisons |-> IF anchor > t \/ Day(anchor) # Day(t) \/ file[Day(t)] = <<>> THEN {}
                      ELSE {[back |-> m, target |-> anchor - m, of |-> Compared(eligible, anchor - m)] :
                              m \in Lookbacks}]

\* handleGEXHistory: a review is anchored at the measurement it found.
Review(scope, at) ==
  LET found == ReplayAt(scope, at)
      anchor == IF found = Nothing THEN at ELSE found.at
  IN [shown |-> IF found = Nothing THEN Nothing ELSE ReplayAt(scope, anchor),
      history |-> HistoryAt(scope, clock, anchor)]

-----------------------------------------------------------------------------
(* The browser *)

\* gexView of a recorded measurement at its own time.
ViewUsable(r) == r.covered /\ r.lag >= 0 /\ r.lag <= MaxAge

\* gexComparisons
Accepted(review) ==
  LET r == review.shown  h == review.history
  IN IF r = Nothing \/ ~ViewUsable(r) \/ h.anchor # r.at THEN {}
     ELSE {c \in h.comparisons :
             /\ c.of # Nothing /\ c.target = r.at - c.back
             /\ c.of.at <= c.target /\ c.target - c.of.at <= MaxAge
             /\ c.of.scope = r.scope /\ Day(c.of.at) = Day(r.at) /\ ViewUsable(c.of)}

\* gexHistoryTimeline: by time, the last of those of one time.
TimelineOf(review) ==
  {p \in Range(review.history.timeline) : p.at <= clock /\ Day(p.at) = review.history.day}

-----------------------------------------------------------------------------
Init ==
  /\ clock = Open /\ replaying = FALSE
  /\ file = [day \in Days |-> <<>>]
  /\ memory = [day |-> -1, at |-> [s \in Scopes |-> 0]]

Writes == FoldLeft(+, 0, [i \in 1 .. Cardinality(Days) |-> Len(file[i - 1])])

TimePasses(t) ==
  /\ t > clock /\ clock' = t
  /\ UNCHANGED <<replaying, file, memory>>

\* record: what was measured at the last time of its scope is not appended again.
Record(r) ==
  /\ ~replaying /\ r.at <= clock /\ clock - r.at <= 1 /\ Day(r.at) = Day(clock)
  /\ gexRTH(clock) /\ gexRTH(r.at) /\ r.at >= Remembered(Day(r.at)).at[r.scope]
  /\ memory' = [Remembered(Day(r.at)) EXCEPT !.at[r.scope] = r.at]
  /\ IF Remembered(Day(r.at)).at[r.scope] = r.at THEN UNCHANGED file
     ELSE /\ Writes < MaxWrites
          /\ file' = [file EXCEPT ![Day(r.at)] = Appended(@, r, FALSE)]
  /\ UNCHANGED <<clock, replaying>>

\* The disk is full, or the process dies, after a part of the line.
RecordFails ==
  /\ ~replaying /\ gexRTH(clock) /\ Writes < MaxWrites
  /\ memory' = Remembered(Day(clock))
  /\ file' = [file EXCEPT ![Day(clock)] = Appended(@, Garbage, TRUE)]
  /\ UNCHANGED <<clock, replaying>>

\* The memory of what was appended is lost; the next session may be a replay.
Restart(replay) ==
  /\ ~replaying /\ replaying' = replay
  /\ memory' = [day |-> -1, at |-> [s \in Scopes |-> 0]]
  /\ UNCHANGED <<clock, file>>

Seek(t) ==
  /\ replaying /\ clock' = t
  /\ UNCHANGED <<replaying, file, memory>>

Next ==
  \/ RecordFails
  \/ \E t \in clock .. LastTick : TimePasses(t)
  \/ \E at \in {clock - 1, clock}, scope \in Scopes, q \in Qualities :
       Record([at |-> at, scope |-> scope, covered |-> q.covered, lag |-> q.lag])
  \/ \E replay \in BOOLEAN : Restart(replay)
  \/ \E t \in Open .. LastTick : Seek(t)

Spec == Init /\ [][Next]_vars

-----------------------------------------------------------------------------
Kept(scope, day) == {e.record : e \in {f \in Range(Loaded(day)) : f.record.scope = scope}}

\* gex-history-model.js:9, "Never label a newer snapshot as a prior lookback, carry data
\* across sessions, or zero-fill gaps", gex_history.go:64, "A repeated append after a
\* process restart is one observation": whatever was appended twice, torn or is still
\* ahead of the clock, the timeline has each measured time of the day once, a point of
\* it opens the measurement of that time, and each lookback compares with the newest
\* measurement then known, exactly when that one can be used; what the server offers is
\* never what the browser turns down.
ReviewIsTheRecord ==
  \A scope \in Scopes :
    LET kept == {r \in Kept(scope, Day(clock)) : r.at <= clock}
        points == TimelineOf(Review(scope, clock))
    IN /\ {p.at : p \in points} = {r.at : r \in kept} /\ Cardinality(points) = Cardinality({r.at : r \in kept})
       /\ \A p \in points :
            LET review == Review(scope, p.at)
                Before(m) == {r \in kept : r.at <= p.at - m}
                Newest(m) == CHOOSE t \in {r.at : r \in Before(m)} : \A r \in Before(m) : r.at <= t
                Real(m) == /\ Before(m) # {} /\ p.at - m - Newest(m) <= MaxAge
                           /\ \E q \in points : q.at = Newest(m) /\ q.known
            IN /\ review.shown \in kept /\ review.shown.at = p.at
               /\ ViewUsable(review.shown) <=> p.known
               /\ p.known => /\ {c.back : c \in Accepted(review)} = {m \in Lookbacks : Real(m)}
                             /\ \A c \in Accepted(review) : c.of \in kept /\ c.of.at = Newest(c.back)
=============================================================================
