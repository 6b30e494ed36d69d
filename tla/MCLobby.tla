------------------------------ MODULE MCLobby ------------------------------
(* The rooms TLC runs: who is called what, and which realm each has played. *)
EXTENDS Lobby, TLC

CONSTANTS j1, j2
OneName == [p \in Programs |-> IF p = Host THEN Host ELSE j1]      \* the joiners have one name
OneShield == [p \in Programs |-> 1]
SavedGame == (1 :> Host) @@ (2 :> j1) @@ (3 :> Nobody)
Presses == [p \in Programs |-> IF p = Host THEN 2 ELSE IF p = j1 THEN 1 ELSE 0]
=============================================================================
