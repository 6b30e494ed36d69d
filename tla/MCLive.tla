------------------------------- MODULE MCLive -------------------------------
(* The games TLC runs: the host is seat 0, as in the lobby. *)
EXTENDS Live, TLC

CONSTANTS o1, o2
TwoSeats == {0, 1}
ThreeSeats == {0, 1, 2}
=============================================================================
