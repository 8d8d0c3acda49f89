---------------------------- MODULE MCDownloads ----------------------------
(* Instances of Downloads for TLC: two nanoseconds in a microsecond. *)
EXTENDS Downloads

R(at, id) == [at |-> at, id |-> id]
Q(start, end, rth, via) == [start |-> start, end |-> end, rth |-> rth, via |-> via]

\* Two trades in one nanosecond, at the end of a request; one after that end in
\* its last microsecond; one before the session.
Ticks == [trades |-> {R(2, 1), R(6, 2), R(6, 3), R(7, 4)}, quotes |-> {R(6, 1), R(9, 2)},
          minute_bars |-> {R(4, 1), R(6, 2)}]

\* Ranges that overlap, touch at an instant and contain one another.
Ranges == {Q(1, 3, FALSE, "direct"), Q(3, 5, FALSE, "direct"), Q(1, 5, TRUE, "direct"),
           Q(2, 4, FALSE, "gateway"), Q(1, 2, FALSE, "bars"), Q(1, 4, FALSE, "bars"),
           Q(2, 3, FALSE, "bars")}

Session == {[open |-> 2, close |-> 4]}
=============================================================================
