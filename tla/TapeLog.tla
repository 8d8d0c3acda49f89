------------------------------- MODULE TapeLog -------------------------------
(***************************************************************************)
(* What the tape store promises its readers, for every symbol: a window onto  *)
(* an ever-growing numbered log of prints.                                   *)
(*                                                                         *)
(*   - publishing a print appends it under the next number, and may let go   *)
(*     of the oldest print once the window is full;                          *)
(*   - replacing the window (a clear, or a finished reconstruction) happens  *)
(*     in one step, under a later generation, and only with numbers that no   *)
(*     reader has seen before.  A log also comes to exist that way: the first  *)
(*     call for a symbol may be a clear, which makes its generation 2.         *)
(*                                                                         *)
(* Nothing else ever happens to a window.  TapeStore implements this with    *)
(* rings, staged rebuilds and a compare-before-publish.                      *)
(***************************************************************************)
EXTENDS Integers, Sequences

CONSTANTS Symbols,    \* the symbols that have a log
          Capacity    \* the most prints a window retains

VARIABLES window,     \* window[s]: the retained prints, oldest first
          next,       \* next[s]: the number of the next print
          generation  \* generation[s]: 0 until the log exists

logVars == <<window, next, generation>>

\* The newest Capacity elements of a sequence.
Retained(w) ==
  IF Len(w) <= Capacity THEN w ELSE SubSeq(w, Len(w) - Capacity + 1, Len(w))

LogInit ==
  /\ window = [s \in Symbols |-> <<>>]
  /\ next = [s \in Symbols |-> 1]
  /\ generation \in [Symbols -> {0, 1}]

\* Only the log of s changes.
OnlyLogOf(s) ==
  /\ window' = [window EXCEPT ![s] = window'[s]]
  /\ next' = [next EXCEPT ![s] = next'[s]]
  /\ generation' = [generation EXCEPT ![s] = generation'[s]]

Publish(s) ==
  LET print == window'[s][Len(window'[s])]
  IN /\ generation[s] > 0
     /\ window'[s] # <<>>
     /\ print.seq = next[s]
     /\ window'[s] = Retained(Append(window[s], print))
     /\ next'[s] = next[s] + 1
     /\ generation'[s] = generation[s]

Replace(s) ==
  /\ generation'[s] > generation[s]
  /\ next'[s] >= next[s]
  /\ Len(window'[s]) = (IF next'[s] - next[s] < Capacity THEN next'[s] - next[s] ELSE Capacity)
  /\ \A i \in 1 .. Len(window'[s]) :
        window'[s][i].seq = next'[s] - Len(window'[s]) + i - 1

LogNext == \E s \in Symbols : OnlyLogOf(s) /\ (Publish(s) \/ Replace(s))

LogSpec == LogInit /\ [][LogNext]_logVars
=============================================================================
