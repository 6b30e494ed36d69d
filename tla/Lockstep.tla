------------------------------ MODULE Lockstep ------------------------------
(***************************************************************************)
(* What deterministic lockstep promises (docs/netcode.md section 4): there *)
(* is one log of what every tick runs, it only grows, and every seat's     *)
(* world is a prefix of it.  Nothing is said of packets or of delays; no   *)
(* seat runs a tick before the log has it.                                 *)
(***************************************************************************)
EXTENDS Naturals, Sequences, SequencesExt

CONSTANT Slots       \* the seats of the game

VARIABLES log,       \* what the ticks decided so far run
          world      \* world[s]: what seat s has run

vars == <<log, world>>

Init == log = <<>> /\ world = [s \in Slots |-> <<>>]

\* The next tick's commands are settled, the same for every seat.
Decide == /\ log' # <<>> /\ Front(log') = log
          /\ UNCHANGED world

\* A seat runs the next tick the log has.
Execute(s) == /\ Len(world[s]) < Len(log)
              /\ world' = [world EXCEPT ![s] = Append(@, log[Len(@) + 1])]
              /\ UNCHANGED log

Next == Decide \/ \E s \in Slots : Execute(s)

Spec == Init /\ [][Next]_vars
=============================================================================
