----------------------------- MODULE MCTapeStream -----------------------------
(***************************************************************************)
(* An instance of TapeStream for TLC, in two scopes that together would be too   *)
(* large: one symbol whose ring of two overruns a slow browser, with clears and  *)
(* rebuilds; and two symbols that are switched, with one print of each and quotes *)
(* that change.  The browser reconnects in both.                             *)
(***************************************************************************)
EXTENDS TapeStream

QuietPrint == {[ms |-> 1, price |-> 1, last |-> FALSE, openClose |-> FALSE]}
None == {}

\* The theorem about the stream speaks of this instance.
ASSUME InstanceInBounds == StreamBounds

-----------------------------------------------------------------------------
VARIABLE scope

scopedVars == <<streamVars, scope>>

\* The ring of the one symbol wraps and is rebuilt; its quote stays.
OfOneSymbol ==
  /\ \A s \in Symbols \ {DefaultSymbol} : object[s] = 0
  /\ \A b \in Builders : stage[b].held => stage[b].symbol = DefaultSymbol
  /\ tapes[DefaultSymbol].quote = NoQuote

\* One live print and the quote of either symbol.
OfTwoSymbols ==
  /\ \A b \in Builders : ~stage[b].held
  /\ \A s \in Symbols : tapes[s].nextSeq <= 2

ScopedInit == StreamInit /\ scope \in {"lag", "switch"}

ScopedNext ==
  /\ StreamNext /\ UNCHANGED scope
  /\ scope = "lag" => OfOneSymbol'
  /\ scope = "switch" => OfTwoSymbols'

\* The fairness of TapeStream: the handler's goroutine goes on.
HandlerGoesOn == Handler /\ UNCHANGED scope

FairSpec == ScopedInit /\ [][ScopedNext]_scopedVars /\ WF_scopedVars(HandlerGoesOn)

-----------------------------------------------------------------------------
\* Once the store comes to rest a connected browser shows the active symbol, its newest print
\* and, after a delta, its quote, whichever switches, clears, rebuilds, overruns and lost
\* connections came before.
CatchesUp == <>[][FALSE]_vars => <>UpToDate
=============================================================================
