---------------------------- MODULE MCTapeStore ----------------------------
(***************************************************************************)
(* An instance of TapeStore for TLC, in two scopes that together would be too    *)
(* large: everything that can happen to one symbol, or a little of everything      *)
(* that can happen to three.                                                 *)
(***************************************************************************)
EXTENDS TapeStore, TLC

OnePrint == {[ms |-> 1, price |-> 1, last |-> TRUE, openClose |-> TRUE]}
OneTag == {<<"ask", 1>>}
OneTop == {<<1, 2>>}
OneLast == {<<1, 1>>}
OneDay == {1}
None == {}

\* The symbols that start without a tape are interchangeable.
Interchangeable == Permutations(Symbols \ {DefaultSymbol})

-----------------------------------------------------------------------------
VARIABLE scope

scopedVars == <<vars, scope>>

\* One symbol: its ring of two wraps, every quote but the day's volume.
OfOneSymbol ==
  /\ \A s \in Symbols \ {DefaultSymbol} : object[s] = 0
  /\ tapes[DefaultSymbol].quote.dayVolumeMS = 0
  /\ \A b \in Builders : stage[b].held => stage[b].symbol = DefaultSymbol

\* Three symbols: one live print and one new generation each; of the quote only what
\* the print sets and, for one symbol, the day's volume.
SmallTape(t) ==
  /\ t.nextSeq <= 2 /\ t.generation <= 2
  /\ \A k \in Slots : t.items[k].class # "ask"
  /\ t.quote.bid = 0 /\ t.quote.ask = 0 /\ (t.quote.lastPrice > 0 => t.count > 0)
OfManySymbols ==
  /\ \A s \in Symbols : SmallTape(tapes[s])
  /\ \A s \in Symbols \ {DefaultSymbol} : tapes[s].quote.dayVolumeMS = 0
  /\ \A b \in Builders : stage[b].held => SmallTape(stage[b].tape)

ScopedInit == Init /\ scope \in {"one", "many"}

ScopedNext ==
  /\ Next /\ UNCHANGED scope
  /\ scope = "one" => OfOneSymbol'
  /\ scope = "many" => OfManySymbols'

ScopedSpec == ScopedInit /\ [][ScopedNext]_scopedVars
============================================================================
