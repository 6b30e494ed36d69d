------------------------------- MODULE MCMesh -------------------------------
(* The tables of sessions TLC runs: seats 0..n-1, as the lobby numbers them. *)
EXTENDS Mesh, TLC

CONSTANTS o1, o2
TwoSeats == {0, 1}
ThreeSeats == {0, 1, 2}
OrderSymmetry == Permutations(Orders)
=============================================================================
