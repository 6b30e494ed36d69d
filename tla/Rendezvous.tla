----------------------------- MODULE Rendezvous -----------------------------
(***************************************************************************)
(* What the relay promises (docs/netcode.md, Join codes and the relay): a  *)
(* few joiners at a time wait for an open game, each is told once whether  *)
(* it is in, it is in only after that game's host answered, and nobody     *)
(* waits for a game that has closed.  Nothing is said of codes, tokens,    *)
(* threads or time.                                                        *)
(***************************************************************************)
EXTENDS FiniteSets, Naturals

CONSTANTS Hosts, Joiners, MaxWaiting, None

VARIABLES open,    \* the hosts whose games are open
          state,   \* what has become of each joiner
          game     \* the host whose game a joiner asked for, once it waits

vars == <<open, state, game>>

States == {"new", "waiting", "answered", "in", "refused"}
WaitFor(h) == {j \in Joiners : state[j] = "waiting" /\ game[j] = h}

Init == open = {} /\ state = [j \in Joiners |-> "new"] /\ game = [j \in Joiners |-> None]

Open(h) == h \notin open /\ open' = open \cup {h} /\ UNCHANGED <<state, game>>

\* A game closes, and whoever waited for it is refused.
Close(h) ==
  /\ h \in open /\ open' = open \ {h}
  /\ state' = [j \in Joiners |-> IF j \in WaitFor(h) THEN "refused" ELSE state[j]]
  /\ UNCHANGED game

Ask(j) ==
  /\ state[j] = "new"
  /\ \E h \in open : /\ Cardinality(WaitFor(h)) < MaxWaiting
                     /\ game' = [game EXCEPT ![j] = h]
  /\ state' = [state EXCEPT ![j] = "waiting"]
  /\ UNCHANGED open

\* The host of the game answers.
Answer(j) == /\ state[j] = "waiting" /\ game[j] \in open
             /\ state' = [state EXCEPT ![j] = "answered"]
             /\ UNCHANGED <<open, game>>

Enter(j) == /\ state[j] = "answered"
            /\ state' = [state EXCEPT ![j] = "in"]
            /\ UNCHANGED <<open, game>>

Refuse(j) == /\ state[j] \in {"new", "waiting", "answered"}
             /\ state' = [state EXCEPT ![j] = "refused"]
             /\ UNCHANGED <<open, game>>

Next == \/ \E h \in Hosts : Open(h) \/ Close(h)
        \/ \E j \in Joiners : Ask(j) \/ Answer(j) \/ Enter(j) \/ Refuse(j)

Spec == Init /\ [][Next]_vars
=============================================================================
