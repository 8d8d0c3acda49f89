--------------------------- MODULE MCExternalControl ---------------------------
(* Instances of ExternalControl for TLC. *)
EXTENDS ExternalControl

Q(us, id) == [us |-> us, kind |-> "quote", id |-> id, eligible |-> TRUE]
T(us, id) == [us |-> us, kind |-> "trade", id |-> id, eligible |-> TRUE]

\* A quote and a trade share a microsecond; the second symbol has one trade.
Few == [s \in Symbols |-> IF s = DefaultSymbol THEN {T(1, 1), Q(2, 1), T(2, 2)}
                          ELSE {T(2, 1)}]

Ask(action, symbol, target, playing, speed) ==
  [action |-> action, symbol |-> symbol, warmup |-> 1, target |-> target, end |-> 2,
   playing |-> playing, speed |-> speed]

First == CHOOSE c \in Sessions : TRUE

\* One session cues and syncs twice, at two detailed speeds and a fast one.
CueThenSyncs ==
  LET cues == {Ask("cue", DefaultSymbol, 1, playing, speed) :
                 playing \in BOOLEAN, speed \in {1, 4}}
      syncs == {Ask("sync", DefaultSymbol, 2, playing, 1) : playing \in BOOLEAN}
               \cup {Ask("sync", DefaultSymbol, 2, TRUE, speed) : speed \in {2, 4}}
  IN {[c \in Sessions |-> IF c = First THEN <<a, b, d>> ELSE <<>>] :
        a \in cues, b \in syncs, d \in syncs}

\* Two sessions, the second on another symbol, each with a cue, a sync and a detach.
Tenure(symbol, playing) ==
  <<Ask("cue", symbol, 1, playing, 1), Ask("sync", symbol, 2, ~playing, 1),
    Ask("detach", symbol, 1, FALSE, 1)>>
Tenures ==
  {[c \in Sessions |-> Tenure(IF c = First THEN DefaultSymbol ELSE other, playing)] :
     other \in Symbols \ {DefaultSymbol}, playing \in BOOLEAN}

\* One session looks at another symbol in between, and comes back.
Detours ==
  {[c \in Sessions |->
      IF c = First
        THEN <<Ask("cue", DefaultSymbol, 2, FALSE, 1), Ask("cue", other, 2, FALSE, 1),
               Ask("sync", DefaultSymbol, 2, playing, 1)>>
      ELSE <<>>] : other \in Symbols \ {DefaultSymbol}, playing \in BOOLEAN}

Conversations == CueThenSyncs \cup Tenures \cup Detours
================================================================================
