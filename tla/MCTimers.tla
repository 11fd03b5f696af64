------------------------------ MODULE MCTimers ------------------------------
(* Instances of Timers for TLC.                                            *)
EXTENDS Timers

CONSTANTS p1, x1, x2, x3

OneProcess == {p1}
ThreeTimers == {x1, x2, x3}
Delays == {1, 2}

=============================================================================
