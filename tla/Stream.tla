------------------------------- MODULE Stream -------------------------------
(***************************************************************************)
(* What a connection promises its two ends (crates/l2-net, Transport): the *)
(* messages one end sends reach the other in order and none twice, until   *)
(* that end is told that the connection is over, after which none does.    *)
(* Those not yet delivered are then lost.                                  *)
(***************************************************************************)
EXTENDS Naturals

CONSTANT Ways      \* the directions of the connections

VARIABLES sent,    \* how many messages have been sent on a way
          got,     \* the last one delivered: they are numbered from 1
          over     \* the ways whose receiver has been told

vars == <<sent, got, over>>

Init == sent = [w \in Ways |-> 0] /\ got = [w \in Ways |-> 0] /\ over = {}

Deliver(w) == /\ w \notin over /\ got[w] < sent[w]
              /\ got' = [got EXCEPT ![w] = @ + 1]
              /\ UNCHANGED <<sent, over>>

\* Messages are sent, on several ways when they are broadcast.
Send == /\ \E ws \in SUBSET Ways :
             sent' = [w \in Ways |-> IF w \in ws THEN sent[w] + 1 ELSE sent[w]]
        /\ UNCHANGED <<got, over>>

Finish == /\ \E ws \in SUBSET Ways : over' = over \cup ws
          /\ UNCHANGED <<sent, got>>

Next == Send \/ Finish \/ \E w \in Ways : Deliver(w)
Spec == Init /\ [][Next]_vars
=============================================================================
