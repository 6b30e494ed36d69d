---------------------------- MODULE MCTransport ----------------------------
(* The transports TLC runs: how much each program sends, and who gives up on whom. *)
EXTENDS Transport

CONSTANTS j1, j2
Talkative == [n \in Programs |-> IF n = j1 THEN 3 ELSE 1]
HostEnds == {<<Host, j2>>}
=============================================================================
