----------------------------- MODULE RewindPane -----------------------------
(***************************************************************************)
(* The Live Rewind pane of app.js: the trader reads a few seconds again while   *)
(* prints keep arriving.  A shortcut waits for the holes of its range to be     *)
(* backfilled and then plays; frames move the position; keys pause, step and    *)
(* leave; a pause is held; and an unattended pane goes back to live.            *)
(*                                                                         *)
(* LiveRewind has the buffer and the backfill itself; here the buffer is the   *)
(* set of numbers it holds, and one frame moves the position by `speed`.        *)
(***************************************************************************)
EXTENDS Integers, Sequences, FiniteSetsExt

CONSTANTS BufferSpan,    \* receipt time the buffer retains
          Depths,        \* how far a shortcut goes back
          Lookback,      \* the range behind the target that is backfilled
          Speeds,        \* receipt time of one frame; the least is a quarter
          AutoReturn,    \* auto_return_seconds, in frames
          SnapshotTrades,
          MaxPrints,     \* bound: prints of one run
          Steps,         \* bound: receipt time between two prints
          MaxKeys,       \* bound: keys and clicks
          MaxSnapshots   \* bound: snapshots

VARIABLES printed,   \* receipt time of every print of the run, by number
          held,      \* the numbers the buffer holds
          enabled,   \* rewindEnabled()
          pane,      \* state.rewind
          asks,      \* enterRewind calls that await their backfill
          key,       \* the last key or click of the trader
          keys, snapshots

vars == <<printed, held, enabled, pane, asks, key, keys, snapshots>>

Live == [active |-> FALSE, playing |-> FALSE, hold |-> FALSE, completed |-> FALSE,
         target |-> 0, seq |-> 0, end |-> 0, idle |-> 0, speed |-> Min(Speeds), token |-> 0]

Init ==
  /\ printed = <<>> /\ held = {} /\ enabled = TRUE /\ pane = Live /\ asks = {}
  /\ key = "none" /\ keys = 0 /\ snapshots = 0

-----------------------------------------------------------------------------
(* The buffer as the pane reads it.                                         *)

LastReceived == printed[Max(held)]
FirstReceived == printed[Min(held)]
SeqAtOrBefore(t) == Max({n \in held : printed[n] <= t} \cup {0})
SeqOr(t, seq) == IF SeqAtOrBefore(t) = 0 THEN seq ELSE SeqAtOrBefore(t)

\* gapsBetween: what is missing between two numbers.
Holes(from, to) == (from .. to) \ held

\* evictExpired
Retained(numbers, receipts) ==
  {n \in numbers : receipts[n] >= receipts[Max(numbers)] - BufferSpan}

-----------------------------------------------------------------------------
(* What the pane does with itself.                                          *)

\* returnToLive: the token outlives the pane, so that no answer reopens it.
ReturnedToLive(p) ==
  IF ~p.active THEN p
  ELSE [Live EXCEPT !.idle = p.idle, !.speed = p.speed, !.token = p.token + 1]

\* Mutant of Finished: a held pane closes at the end of its segment.
Finished_Always(p, endpoint) == ReturnedToLive(p)
\* finishRewindSegment
Finished(p, endpoint) ==
  IF p.hold
  THEN [p EXCEPT !.target = endpoint, !.seq = SeqOr(endpoint, p.seq),
                 !.completed = TRUE, !.playing = FALSE]
  ELSE ReturnedToLive(p)

\* advanceRewindPlayback
Advanced(p) ==
  LET to == p.target + p.speed
  IN IF ~p.active \/ ~p.playing THEN p
     ELSE IF to >= p.end
          THEN Finished([p EXCEPT !.target = p.end, !.seq = SeqOr(p.end, p.seq)], p.end)
          ELSE [p EXCEPT !.target = to, !.seq = SeqOr(to, p.seq)]

\* The part of animationLoop that leaves a pane nobody touches.
Attended(p) ==
  IF p.active /\ ~p.playing /\ ~p.hold /\ p.idle > AutoReturn THEN ReturnedToLive(p) ELSE p

-----------------------------------------------------------------------------
(* Keys and clicks of the trader.                                           *)

Presses(k) == /\ keys < MaxKeys /\ keys' = keys + 1 /\ key' = k

\* enterRewind and seekRewind up to their await.  Without a hole in the range
\* there is nothing to wait for and playback starts at once.
EntersRewind ==
  /\ Presses("rewind") /\ enabled /\ held # {}
  /\ \E depth \in Depths :
       LET from == IF pane.active THEN pane.target ELSE LastReceived
           wanted == Max({FirstReceived, from - depth})
           target == Min({wanted, LastReceived})
           seq == SeqAtOrBefore(target)
           first == IF SeqAtOrBefore(target - Lookback) = 0 THEN Min(held)
                    ELSE SeqAtOrBefore(target - Lookback)
           holes == Holes(first, seq)
           hold == pane.active /\ pane.hold
       IN /\ pane' = [active |-> TRUE, playing |-> holes = {}, hold |-> hold,
                      completed |-> FALSE, target |-> target, seq |-> seq, end |-> from,
                      idle |-> 0, speed |-> Min(Speeds), token |-> pane.token + 1]
          /\ asks' = IF holes = {} THEN asks
                     ELSE asks \cup {[token |-> pane.token + 1, holes |-> holes]}
  /\ UNCHANGED <<printed, held, enabled, snapshots>>

\* toggleRewindPlayback; pausing latches the pane.
Toggles ==
  /\ pane.active
  /\ Presses(IF pane.playing THEN "pause" ELSE "play")
  /\ pane' = IF pane.playing
             THEN [pane EXCEPT !.hold = TRUE, !.completed = FALSE, !.playing = FALSE, !.idle = 0]
             ELSE [pane EXCEPT !.playing = TRUE, !.idle = 0]
  /\ UNCHANGED <<printed, held, enabled, asks, snapshots>>

\* stepRewind: a number that is not in the buffer is taken for the edge.
StepsPrint ==
  /\ pane.active /\ Presses("step")
  /\ \E delta \in {-1, 1} :
       LET p == [pane EXCEPT !.hold = TRUE, !.completed = FALSE, !.playing = FALSE]
           next == p.seq + delta
       IN pane' = CASE next \in held ->
                         [p EXCEPT !.seq = next, !.target = printed[next], !.idle = 0]
                    [] next \notin held /\ delta = 1 -> Finished(p, LastReceived)
                    [] OTHER -> p
  /\ UNCHANGED <<printed, held, enabled, asks, snapshots>>

ChoosesSpeed ==
  /\ Presses("speed") /\ pane.active
  /\ \E s \in Speeds : pane' = [pane EXCEPT !.speed = s, !.idle = 0]
  /\ UNCHANGED <<printed, held, enabled, asks, snapshots>>

\* The Escape key, which a held pane ignores.
Escapes ==
  /\ Presses("escape") /\ pane.active /\ ~pane.hold
  /\ pane' = ReturnedToLive(pane)
  /\ UNCHANGED <<printed, held, enabled, asks, snapshots>>

ClicksLive ==
  /\ Presses("live") /\ pane.active
  /\ pane' = ReturnedToLive(pane)
  /\ UNCHANGED <<printed, held, enabled, asks, snapshots>>

\* switchSymbol leaves the pane before it asks the server.
SwitchesSymbol ==
  /\ Presses("symbol") /\ pane.active
  /\ pane' = ReturnedToLive(pane)
  /\ UNCHANGED <<printed, held, enabled, asks, snapshots>>

-----------------------------------------------------------------------------
(* The stream, the backfill and the frames.                                 *)

\* feedRewindBuffer: the next print; a lagging connection skips one before it.
Delivers ==
  /\ \E lost \in {0, 1}, step \in Steps :
       LET n == Len(printed) + 1 + lost
           last == IF printed = <<>> THEN 1 ELSE printed[Len(printed)]
           receipts == printed \o [i \in 1 .. lost + 1 |-> last + step]
       IN /\ n <= MaxPrints
          /\ printed' = receipts
          /\ held' = IF enabled THEN Retained(held \cup {n}, receipts) ELSE held
  /\ UNCHANGED <<enabled, pane, asks, key, keys, snapshots>>

\* A snapshot: of a reconnection, which goes on with the numbers, or of a
\* symbol change, which restarts them; rewind may not be available in it.
HearsSnapshot ==
  /\ snapshots < MaxSnapshots /\ snapshots' = snapshots + 1
  /\ pane' = ReturnedToLive(pane)
  /\ enabled' \in BOOLEAN
  /\ printed' \in {printed, <<>>}
  /\ held' = IF enabled'
             THEN {n \in DOMAIN printed' : n > Len(printed') - SnapshotTrades} ELSE {}
  /\ asks' = {[a EXCEPT !.holes = {}] : a \in asks}
  /\ UNCHANGED <<key, keys>>

\* ensure answers: the holes are filled or reported, and the pane plays if the
\* question is still the last one.
Backfilled ==
  /\ \E a \in asks, filled \in BOOLEAN :
       /\ asks' = asks \ {a}
       /\ held' = IF filled /\ held # {} THEN Retained(held \cup a.holes, printed) ELSE held
       /\ pane' = IF a.token = pane.token /\ pane.active
                  THEN [pane EXCEPT !.playing = TRUE] ELSE pane
  /\ UNCHANGED <<printed, enabled, key, keys, snapshots>>

\* fetchRange rejects: enterRewind ends where it is.
BackfillFails ==
  /\ \E a \in asks : asks' = asks \ {a}
  /\ UNCHANGED <<printed, held, enabled, pane, key, keys, snapshots>>

Frame ==
  /\ pane.active
  /\ pane' = Attended([Advanced(pane) EXCEPT !.idle = Min({@ + 1, AutoReturn + 1})])
  /\ UNCHANGED <<printed, held, enabled, asks, key, keys, snapshots>>

Trader == EntersRewind \/ Toggles \/ StepsPrint \/ ChoosesSpeed \/ Escapes \/ ClicksLive
          \/ SwitchesSymbol
Next == Trader \/ Delivers \/ HearsSnapshot \/ Backfilled \/ BackfillFails \/ Frame

Spec == Init /\ [][Next]_vars

\* requestAnimationFrame calls animationLoop again and again; nothing else is
\* promised: a backfill may hang and no print may come.
FairSpec == Spec /\ WF_vars(Frame)

-----------------------------------------------------------------------------
(* Properties.                                                              *)

\* What every path leads back to: once the trader leaves the pane alone it closes,
\* whatever the backfill does, and stays closed, unless it is held by a pause (returnToLive, "a trader
\* stranded in the past while the market moves is a real financial risk").
LeadsBackToLive == ~pane.active \/ pane.hold

\* A held pane stays until LIVE is clicked, the symbol changes or the stream starts
\* over: no Escape, no end of a segment, no idle time and no late backfill closes it.
HeldUntilLive ==
  pane.active /\ pane.hold /\ ~pane'.active =>
    key' \in {"live", "symbol"} \/ snapshots' # snapshots
=============================================================================
