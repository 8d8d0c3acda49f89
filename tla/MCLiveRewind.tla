---------------------------- MODULE MCLiveRewind ----------------------------
(* Instances of LiveRewind for TLC. *)
EXTENDS LiveRewind

\* The specification gives no symbol a part of its own, and no liveness is checked.
AnySymbol == Permutations(Symbols)
=============================================================================
