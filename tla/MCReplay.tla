------------------------------ MODULE MCReplay ------------------------------
(* Instances of Replay for TLC. *)
EXTENDS Replay

Q(us, id) == [us |-> us, kind |-> "quote", id |-> id, eligible |-> TRUE]
T(us, id) == [us |-> us, kind |-> "trade", id |-> id, eligible |-> TRUE]

\* A quote and two trades share a microsecond, after a row that applyEventTo skips;
\* quotes and trades reuse ids.  And a second symbol.
Skips == [s \in Symbols |->
            IF s # DefaultSymbol THEN {T(2, 1)}
            ELSE {[T(1, 1) EXCEPT !.eligible = FALSE], Q(2, 1), T(2, 2), T(2, 3)}]
=============================================================================
