-------------------------------- MODULE Replay --------------------------------
(***************************************************************************)
(* The replay engine (type Replay in internal/feed/replay.go): playback        *)
(* goroutines that apply recorded events to a tape, and the operator's and the *)
(* external controller's operations that start, pause, seek, cue and follow.   *)
(*                                                                         *)
(* Every critical section of Replay.mu is one step.  An operation that has     *)
(* several of them, or store calls outside them, is several steps, and the     *)
(* playback goroutines run between these; the operations themselves do not     *)
(* overlap, because every caller holds Server.externalControlMu.             *)
(*                                                                         *)
(* A tape is abstracted to the sequence of events on it: how a tape keeps and  *)
(* numbers them, and how Clear and Commit replace them for readers, is in      *)
(* TapeStore.  The recording does not change in replay mode; speed, source     *)
(* and provider choose a recording and a pace and are left out, as is the      *)
(* wall clock: a goroutine may apply its next event at any time.             *)
(***************************************************************************)
EXTENDS Integers, Sequences, FiniteSets

CONSTANTS Symbols,         \* recorded symbols
          DefaultSymbol,   \* the store's active symbol at startup
          Recording,       \* Recording[s]: the events recorded of s
          Times,           \* the instants operators and controllers ask for
          MaxGeneration    \* bound on the replay generations

\* A stored row: trades and quotes have ids of their own.  `eligible` is whether
\* applyEventTo puts it on the tape at all.
Event == [us : Nat \ {0}, kind : {"quote", "trade"}, id : Nat, eligible : BOOLEAN]

ASSUME ReplayAssumption ==
  /\ DefaultSymbol \in Symbols
  /\ Recording \in [Symbols -> SUBSET Event]
  /\ \A s \in Symbols :   \* the primary keys of the tables
       /\ IsFiniteSet(Recording[s])
       /\ \A e, f \in Recording[s] :
            e.us = f.us /\ e.kind = f.kind /\ e.id = f.id => e = f
  /\ Times \subseteq Nat \ {0}
  /\ MaxGeneration \in Nat

VARIABLES tape,        \* tape[s]: the events on the tape of s, oldest first
          active,      \* the symbol on screen
          state,       \* what Status and Position report
          feed,        \* the state the browser is told (setFeedStatus)
          request,     \* r.request, r.cursor, r.resumeUS, r.generation
          cursor,
          resumeUS,
          generation,
          cancel,      \* the generation whose context r.cancel cancels; 0 = nil
          plays,       \* plays[g]: the goroutine launched as generation g
          control,     \* the operation in flight
          began        \* history: what tape[s] should hold

replayVars == <<tape, active, state, feed, request, cursor, resumeUS, generation, cancel,
                plays, control, began>>

NoCursor == [valid |-> FALSE]
CursorAt(e) == [valid |-> TRUE, us |-> e.us, kind |-> e.kind, id |-> e.id]
Cursors == {NoCursor} \cup [valid : {TRUE}, us : Nat, kind : {"quote", "trade"}, id : Nat]

NoRequest == [symbol |-> "", start |-> 0, end |-> 0]
Request == [symbol : Symbols, start : Nat, end : Nat]

States == {"ready", "replaying", "paused", "complete", "stopped", "error"}

NoPlay == [phase |-> "none", cancelled |-> FALSE, symbol |-> "", rows |-> <<>>]
Idle == [op |-> "idle"]

-----------------------------------------------------------------------------
(* The recording.                                                            *)

KindRank(kind) == IF kind = "quote" THEN 0 ELSE 1

\* The ORDER BY of Database.Events.
RowBefore(a, b) ==
  \/ a.us < b.us
  \/ a.us = b.us /\ KindRank(a.kind) < KindRank(b.kind)
  \/ a.us = b.us /\ a.kind = b.kind /\ a.id < b.id

\* The events in that order: the i-th one is the one that i - 1 others come before.
Ordered(events) ==
  [i \in 1 .. Cardinality(events) |->
     CHOOSE e \in events : Cardinality({f \in events : RowBefore(f, e)}) = i - 1]

\* Database.Events for one symbol and window.
Window(s, fromUS, toUS) == {e \in Recording[s] : e.us >= fromUS /\ e.us <= toUS}
Rows(s, fromUS, toUS) == Ordered(Window(s, fromUS, toUS))

\* Mutant of After: events that share the cursor's microsecond are taken for
\* already applied.
After_WholeMicrosecond(e, c) == ~c.valid \/ e.us > c.us

\* compareEvent(e, c) > 0, for every event when there is no cursor.
After(e, c) ==
  \/ ~c.valid
  \/ e.us > c.us
  \/ e.us = c.us /\ KindRank(e.kind) > KindRank(c.kind)
  \/ e.us = c.us /\ e.kind = c.kind /\ e.id > c.id

\* applyEventTo: rows that are not eligible leave no trace on the tape.
Applied(content, e) == IF e.eligible THEN Append(content, e) ELSE content

Eligible(events) == {e \in events : e.eligible}

-----------------------------------------------------------------------------
ReplayTypeOK ==
  /\ tape \in [Symbols -> Seq(Event)]
  /\ active \in Symbols
  /\ state \in [state : States, symbol : Symbols, position : Nat, generation : Nat]
  /\ feed \in States
  /\ request \in Request \cup {NoRequest}
  /\ cursor \in Cursors
  /\ resumeUS \in Nat
  /\ generation \in 0 .. MaxGeneration
  /\ cancel \in 0 .. generation
  /\ \A g \in 1 .. MaxGeneration :
       /\ plays[g].phase \in {"none", "reading", "done"}
       /\ plays[g].phase # "none" => g <= generation /\ plays[g].symbol \in Symbols
       /\ plays[g].rows \in Seq(Event)
  /\ control.op \in {"idle", "launch", "cue"}

ReplayInit ==
  /\ tape = [s \in Symbols |-> <<>>]
  /\ active = DefaultSymbol
  /\ state = [state |-> "ready", symbol |-> DefaultSymbol, position |-> 0, generation |-> 0]
  /\ feed = "ready"
  /\ request = NoRequest /\ cursor = NoCursor /\ resumeUS = 0
  /\ generation = 0 /\ cancel = 0
  /\ plays = [g \in 1 .. MaxGeneration |-> NoPlay]
  /\ control = Idle
  /\ began = [s \in Symbols |-> [how |-> "never", from |-> 0, after |-> NoCursor, mark |-> 0]]

\* r.cancel(), if there is one: the goroutine's context is cancelled.
Cancelled == [g \in DOMAIN plays |->
                IF g = cancel THEN [plays[g] EXCEPT !.cancelled = TRUE] ELSE plays[g]]

\* The state and the browser's copy of it change together.
Report(s) == state' = s /\ feed' = s.state

-----------------------------------------------------------------------------
(* The playback goroutines.                                                  *)

\* Mutant of PlayNext: the generation is not compared, so that an event that was
\* already due when a newer generation took over still goes out.
PlayNext_AnyGeneration(g) ==
  LET p == plays[g]
      e == Head(p.rows)
  IN /\ p.phase = "reading" /\ p.rows # <<>>
     /\ plays' = [plays EXCEPT ![g].rows = Tail(@)]
     /\ tape' = [tape EXCEPT ![p.symbol] = Applied(@, e)]
     /\ cursor' = CursorAt(e) /\ resumeUS' = e.us
     /\ state' = [state EXCEPT !.position = e.us]
     /\ UNCHANGED <<active, feed, request, generation, cancel, control, began>>

\* The goroutine of generation g has waited for its next event and applies it,
\* unless a newer generation has taken over (applyCurrent).
PlayNext(g) ==
  LET p == plays[g]
      e == Head(p.rows)
  IN /\ p.phase = "reading" /\ p.rows # <<>>
     /\ IF g # generation
          THEN /\ plays' = [plays EXCEPT ![g].phase = "done", ![g].rows = <<>>]
               /\ UNCHANGED <<tape, cursor, resumeUS, state>>
        ELSE /\ plays' = [plays EXCEPT ![g].rows = Tail(@)]
             /\ tape' = [tape EXCEPT ![p.symbol] = Applied(@, e)]
             /\ cursor' = CursorAt(e)
             /\ resumeUS' = e.us
             /\ state' = [state EXCEPT !.position = e.us]
     /\ UNCHANGED <<active, feed, request, generation, cancel, control, began>>

\* A cancelled context ends the wait.
PlayAbandoned(g) ==
  /\ plays[g].phase = "reading" /\ plays[g].cancelled
  /\ plays' = [plays EXCEPT ![g].phase = "done", ![g].rows = <<>>]
  /\ UNCHANGED <<tape, active, state, feed, request, cursor, resumeUS, generation, cancel, control, began>>

\* Mutant of Finished: nobody reports.
Finished_Never(g, name) ==
  /\ plays' = [plays EXCEPT ![g].phase = "done", ![g].rows = <<>>]
  /\ UNCHANGED <<tape, active, state, feed, request, cursor, resumeUS, generation, cancel, control, began>>

\* finish: only the current generation may report that it ended.
Finished(g, name) ==
  /\ plays' = [plays EXCEPT ![g].phase = "done", ![g].rows = <<>>]
  /\ IF g = generation
       THEN cancel' = 0 /\ Report([state EXCEPT !.state = name])
     ELSE UNCHANGED <<cancel, state, feed>>
  /\ UNCHANGED <<tape, active, request, cursor, resumeUS, generation, control, began>>

PlayComplete(g) ==
  /\ plays[g].phase = "reading" /\ plays[g].rows = <<>>
  /\ Finished(g, "complete")

\* The query or a row could not be read.
PlayFailed(g) ==
  /\ plays[g].phase = "reading"
  /\ Finished(g, "error")

-----------------------------------------------------------------------------
(* launch, the last step of Start, Resume, SeekTo and a playing Cue.         *)

\* The operation in flight has done its store calls and read what it launches.
Launching(req, from, cur, fresh) ==
  control' = [op |-> "launch", request |-> req, from |-> from, cursor |-> cur, fresh |-> fresh]

\* The goroutine reads its rows once: the recording does not change meanwhile.
Launch ==
  LET c == control
      g == generation + 1
  IN /\ c.op = "launch"
     /\ generation' = g /\ cancel' = g
     /\ plays' = [Cancelled EXCEPT ![g] =
          [phase |-> "reading", cancelled |-> FALSE, symbol |-> c.request.symbol,
           rows |-> Ordered({e \in Window(c.request.symbol, c.from, c.request.end) :
                               After(e, c.cursor)})]]
     /\ request' = c.request /\ cursor' = c.cursor /\ resumeUS' = c.from
     /\ Report([state |-> "replaying", symbol |-> c.request.symbol, generation |-> g,
                position |-> IF c.cursor.valid THEN c.cursor.us ELSE c.from])
     /\ began' = [began EXCEPT ![c.request.symbol] =
          IF c.fresh THEN [how |-> "restart", from |-> c.from, after |-> NoCursor,
                           mark |-> Len(tape[c.request.symbol])] ELSE @]
     /\ control' = Idle
     /\ UNCHANGED <<tape, active>>

-----------------------------------------------------------------------------
(* The operations.                                                           *)

\* An operation begins; `launches` is how many generations it will make.
Begins(launches) == control = Idle /\ generation + launches <= MaxGeneration

\* Start: the symbol comes on screen and its tape is cleared, before launch takes
\* the lock.
Start(s, start, end) ==
  /\ Begins(1)
  /\ end > start
  /\ \E e \in Recording[s] : e.kind = "trade"
  /\ \E e \in Recording[s] : e.kind = "trade" /\ start <= e.us
  /\ \E e \in Recording[s] : e.kind = "trade" /\ end >= e.us
  /\ active' = s
  /\ tape' = [tape EXCEPT ![s] = <<>>]
  /\ Launching([symbol |-> s, start |-> start, end |-> end], start, NoCursor, TRUE)
  /\ UNCHANGED <<state, feed, request, cursor, resumeUS, generation, cancel, plays, began>>

SeekTo(target) ==
  /\ Begins(1)
  /\ request # NoRequest
  /\ target \in request.start .. request.end
  /\ tape' = [tape EXCEPT ![request.symbol] = <<>>]
  /\ Launching(request, target, NoCursor, TRUE)
  /\ UNCHANGED <<active, state, feed, request, cursor, resumeUS, generation, cancel, plays, began>>

Resume ==
  /\ Begins(1)
  /\ state.state = "paused"
  /\ Launching(request, IF resumeUS <= 0 THEN request.start ELSE resumeUS, cursor, FALSE)
  /\ UNCHANGED <<tape, active, state, feed, request, cursor, resumeUS, generation, cancel, plays, began>>

\* The part that Pause, Stop, Track and Cue share: nobody plays any more.
Supersede ==
  /\ generation' = generation + 1
  /\ cancel' = 0
  /\ plays' = Cancelled

Pause ==
  /\ Begins(1)
  /\ state.state = "replaying"
  /\ Supersede
  /\ Report([state EXCEPT !.state = "paused", !.generation = generation'])
  /\ UNCHANGED <<tape, active, request, cursor, resumeUS, control, began>>

Stop ==
  /\ Begins(1)
  /\ Supersede
  /\ Report([state EXCEPT !.state = "stopped", !.generation = generation'])
  /\ UNCHANGED <<tape, active, request, cursor, resumeUS, control, began>>

\* Fast follow: the clock moves, the tape does not, and a later Resume skips what
\* lies between.  The handler only calls it while its controller is attached;
\* here it may come in any state, like the other operations.
Track(s, target) ==
  /\ Begins(1)
  /\ s = state.symbol
  /\ target <= request.end
  /\ Supersede
  /\ resumeUS' = target
  /\ Report([state EXCEPT !.state = "paused", !.position = target, !.generation = generation'])
  /\ began' = [began EXCEPT ![request.symbol] =
       [how |-> "followed", from |-> target, after |-> cursor, mark |-> Len(tape[request.symbol])]]
  /\ UNCHANGED <<tape, active, request, cursor, control>>

\* A ticker change (handleTicker): the store's Activate and the feed's SetSymbol.
\* What is being played goes on.
SetSymbol(s) ==
  /\ control = Idle
  /\ active' = s
  /\ state' = [state EXCEPT !.symbol = s]
  /\ UNCHANGED <<tape, feed, request, cursor, resumeUS, generation, cancel, plays, control, began>>

-----------------------------------------------------------------------------
(* Cue.                                                                      *)

\* First the running generation is superseded.  The replay API leaves the cued
\* request's start unset, the external controller makes it the target.
Cue(s, warmup, target, end, playing, external) ==
  /\ Begins(IF playing THEN 2 ELSE 1)
  /\ warmup <= target /\ target <= end
  /\ playing => external
  /\ Supersede
  /\ control' = [op |-> "cue", step |-> "prepare", generation |-> generation',
                 request |-> [symbol |-> s, start |-> IF external THEN target ELSE 0, end |-> end],
                 warmup |-> warmup, target |-> target, playing |-> playing, base |-> <<>>]
  /\ UNCHANGED <<tape, active, state, feed, request, cursor, resumeUS, began>>

\* PrepareRebuild: what is on the tape now is what Commit will compare with.
CuePrepare ==
  /\ control.op = "cue" /\ control.step = "prepare"
  /\ control' = [control EXCEPT !.step = "read", !.base = tape[control.request.symbol]]
  /\ UNCHANGED <<tape, active, state, feed, request, cursor, resumeUS, generation, cancel, plays, began>>

\* Mutant of CueFailed: the state is left as it was.
CueFailed_LeavesState ==
  /\ control.op = "cue" /\ control.step = "read"
  /\ control' = Idle
  /\ UNCHANGED <<tape, active, state, feed, request, cursor, resumeUS, generation, cancel, plays, began>>

\* abortCue: a read failed or the caller gave up.
CueFailed ==
  /\ control.op = "cue" /\ control.step = "read"
  /\ IF control.generation = generation /\ state.state = "replaying"
       THEN Report([state EXCEPT !.state = "paused", !.generation = control.generation])
     ELSE UNCHANGED <<state, feed>>
  /\ control' = Idle
  /\ UNCHANGED <<tape, active, request, cursor, resumeUS, generation, cancel, plays, began>>

\* The staged tape is complete and swapped in, unless something else happened.
\* (While the operations do not overlap and no superseded goroutine writes,
\* nothing else can: the first branch is then never taken.)
CueCommit ==
  LET c == control
      s == c.request.symbol
      rows == Rows(s, c.warmup, c.target)
      cur == IF rows = <<>> THEN NoCursor ELSE CursorAt(rows[Len(rows)])
  IN /\ c.op = "cue" /\ c.step = "read"
     /\ IF c.generation # generation \/ c.base # tape[s]
          THEN control' = Idle /\ UNCHANGED <<tape, active, state, feed, request, cursor, resumeUS, began>>
        ELSE /\ tape' = [tape EXCEPT ![s] = Ordered(Eligible(Window(s, c.warmup, c.target)))]
             /\ active' = s
             /\ request' = c.request /\ cursor' = cur /\ resumeUS' = c.target
             /\ Report([state |-> IF c.playing THEN "replaying" ELSE "paused", symbol |-> s,
                        position |-> c.target, generation |-> c.generation])
             /\ began' = [began EXCEPT ![s] =
                  [how |-> "cue", from |-> c.warmup, after |-> NoCursor, mark |-> 0]]
             /\ IF c.playing THEN Launching(c.request, c.target, cur, FALSE) ELSE control' = Idle
     /\ UNCHANGED <<generation, cancel, plays>>

-----------------------------------------------------------------------------
Play == \E g \in 1 .. generation :
          PlayNext(g) \/ PlayAbandoned(g) \/ PlayComplete(g) \/ PlayFailed(g)

Operate ==
  \/ \E s \in Symbols, start, end \in Times : Start(s, start, end)
  \/ \E target \in Times : SeekTo(target)
  \/ Resume \/ Pause \/ Stop
  \/ \E s \in Symbols, target \in Times : Track(s, target)
  \/ \E s \in Symbols : SetSymbol(s)
  \/ \E s \in Symbols, warmup, target, end \in Times, playing, external \in BOOLEAN :
       Cue(s, warmup, target, end, playing, external)

\* The steps an operation goes on with once it has begun.
GoOn == Launch \/ CuePrepare \/ CueFailed \/ CueCommit

ReplayNext == Play \/ Operate \/ GoOn

\* The goroutines and the handlers keep running; nobody has to operate.
ReplaySpec ==
  /\ ReplayInit /\ [][ReplayNext]_replayVars
  /\ WF_replayVars(GoOn)
  /\ \A g \in 1 .. MaxGeneration :
       WF_replayVars(PlayNext(g) \/ PlayAbandoned(g) \/ PlayComplete(g) \/ PlayFailed(g))

-----------------------------------------------------------------------------
(* Properties.                                                               *)

\* The eligible events of s from an instant and after a cursor, up to a cursor.
Slice(s, from, after, upto) ==
  IF ~upto.valid THEN <<>>
  ELSE Ordered({e \in Eligible(Recording[s]) : e.us >= from /\ After(e, after)
                                                 /\ ~After(e, upto)})

\* What was replayed since the last clear, cue or fast follow is on the tape
\* exactly: every event once, in order, none missing, across any number of pauses,
\* resumes, failed cues and superseded goroutines, also when events share a
\* microsecond (README: RESUME continues from the exact stored event; a rebuilt
\* tape is identical to one that was replayed print by print); and every variable has
\* its type.
PlayedExactly ==
  LET s == request.symbol
      b == began[s]
  IN /\ ReplayTypeOK
     /\ request # NoRequest /\ control.op # "launch" =>
       SubSeq(tape[s], b.mark + 1, Len(tape[s])) = Slice(s, b.from, b.after, cursor)

Alive(g) == g > 0 /\ plays[g].phase = "reading" /\ ~plays[g].cancelled

\* What Status says is true: "replaying" means that a goroutine of the current
\* generation plays, or that an operation is about to launch one or to report why
\* not; and the browser is told the same (abortCue, finish, setFeedStatus).  Every
\* superseded goroutine has been told to end: none sleeps on until its next event
\* is due.
StatusIsTruthful ==
  /\ feed = state.state
  /\ state.state = "replaying" => Alive(generation) \/ control.op # "idle"
  /\ generation > 0 /\ Alive(generation) => state.state = "replaying"
  /\ \A g \in 1 .. MaxGeneration : Alive(g) => g = generation /\ cancel = g

\* While a cue reads, nothing is written to any tape; it publishes one complete
\* window or nothing (Cue's comment; the control document on cue).
CueIsAtomic ==
  [][control.op = "cue" =>
       \/ tape' = tape
       \/ /\ control'.op # "cue"
          /\ tape' = [tape EXCEPT ![control.request.symbol] =
               Ordered(Eligible(Window(control.request.symbol, control.warmup,
                                       control.target)))]]_replayVars

\* Playback of a generation does not stay "replaying" for ever: it completes,
\* fails, or another generation takes over.
PlaybackSettles ==
  \A g \in 1 .. MaxGeneration :
    (generation = g /\ state.state = "replaying")
      ~> (generation # g \/ state.state # "replaying")
=============================================================================
