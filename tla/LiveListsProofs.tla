--------------------------- MODULE LiveListsProofs ---------------------------
(***************************************************************************)
(* That the seats of a network game wait for the same seats: a seat that   *)
(* has heard all its host has said has the host's list, but for itself.    *)
(*                                                                         *)
(* The list is sent whole only to a seat that comes back.  Otherwise what  *)
(* changes is: a seat dropped, one that is back, one the computer plays.   *)
(* The invariant (ListsOK) follows what is on its way to a seat: the list  *)
(* the seat will have once it has heard it is the host's.  A handler of    *)
(* the host keeps that if what it sends takes the one list to the other    *)
(* (Tells), which a handler that calls others does because each of those   *)
(* does; one that is seated anew is told the list from nothing.  The rest  *)
(* is LiveProofs' invariant, and what that assumes (OneKnock).             *)
(***************************************************************************)
EXTENDS LiveProofs

(***************************************************************************)
(* What a seat will wait for, once it has heard all that is behind message *)
(* r of what its host has said: the last message about a slot decides.     *)
(***************************************************************************)
Speaks(m, x) == m.type \in {"Away", "Back", "Retire"} /\ m.slot = x
WaitsFor(list, q, r, x) ==
  \/ x \in list /\ \A i \in DOMAIN q : i > r => ~Speaks(q[i], x)
  \/ \E i \in DOMAIN q : /\ i > r /\ q[i].type = "Away" /\ q[i].slot = x
                         /\ \A k \in DOMAIN q : k > i => ~Speaks(q[k], x)

\* It is what the host waits for, but for the seat itself.
Told(waits, j, list, q, r) == \A x \in Joiners : WaitsFor(list, q, r, x) <=> x \in waits \ {j}

\* The same of one that has knocked, from the host's answer on.
Answered(waits, j, list, q) ==
  \A r \in DOMAIN q : q[r].type = "Rejoin" => Told(waits, j, list, q, r)

\* Joiner j, in this phase on connection c, with this list.
ListOK(h, j, why, c, list) ==
  /\ why = "knocking" => list = {}
  /\ h.line[c] = "seated" /\ h.session.retired[j] = None /\ ~Closed(h.down[c]) =>
       /\ why = "playing" => Told(h.waiting, j, list, h.down[c], 0)
       /\ why = "knocking" => Answered(h.waiting, j, list, h.down[c])

ListsOK == \A j \in Joiners : ListOK(HostState, j, phase[j], ConnOf(j), waiting[j])

\* More is said behind what was.
LEMMA WaitsBehind ==
  ASSUME NEW q, IsList(q), NEW ms, IsList(ms), NEW r \in 0 .. Len(q), NEW list, NEW x,
         NEW list2, x \in list2 <=> WaitsFor(list, q, r, x), NEW p, p = q \o ms
  PROVE  WaitsFor(list, p, r, x) <=> WaitsFor(list2, ms, 0, x)
<1> DEFINE n == Len(q)
<1>1. /\ n \in Nat /\ DOMAIN q = 1 .. n /\ Len(ms) \in Nat /\ DOMAIN ms = 1 .. Len(ms)
      /\ Len(p) = n + Len(ms) /\ DOMAIN p = 1 .. n + Len(ms)
  BY ListDomain, ListConcat
<1>a. \A i \in DOMAIN q : i \in DOMAIN p /\ p[i] = q[i]
  BY ListConcat
<1>b. \A i \in DOMAIN ms : n + i \in DOMAIN p /\ p[n + i] = ms[i]
  BY ListConcat
<1>c. \A i \in DOMAIN p :
        \/ i \in DOMAIN q /\ p[i] = q[i]
        \/ i > n /\ i - n \in DOMAIN ms /\ p[i] = ms[i - n]
  BY ListConcat
<1>2. /\ \A i \in DOMAIN q : i \in DOMAIN p /\ p[i] = q[i]
      /\ \A i \in DOMAIN ms : n + i \in DOMAIN p /\ p[n + i] = ms[i]
      /\ \A i \in DOMAIN p :
           \/ i \in DOMAIN q /\ p[i] = q[i]
           \/ i > n /\ i - n \in DOMAIN ms /\ p[i] = ms[i - n]
  BY <1>a, <1>b, <1>c
<1> HIDE DEF n
<1>3. r \in 0 .. n
  BY DEF n
<1>4. CASE \E i \in DOMAIN ms : Speaks(ms[i], x)
  <2>1. PICK a \in DOMAIN ms : Speaks(ms[a], x)
    BY <1>4
  <2>2. n + a \in DOMAIN p /\ n + a > r /\ Speaks(p[n + a], x)
    BY <1>1, <1>2, <1>3, <2>1
  <2>3. ~(x \in list /\ \A i \in DOMAIN p : i > r => ~Speaks(p[i], x))
    BY <2>2
  <2>4. ~(x \in list2 /\ \A i \in DOMAIN ms : i > 0 => ~Speaks(ms[i], x))
    BY <1>1, <2>1
  <2>5. ASSUME NEW i \in DOMAIN ms, ms[i].type = "Away", ms[i].slot = x,
               \A k \in DOMAIN ms : k > i => ~Speaks(ms[k], x)
        PROVE  WaitsFor(list, p, r, x)
    <3>1. n + i \in DOMAIN p /\ p[n + i] = ms[i] /\ n + i > r
      BY <1>1, <1>2, <1>3
    <3>2. ASSUME NEW k \in DOMAIN p, k > n + i PROVE ~Speaks(p[k], x)
      <4>1. k - n \in DOMAIN ms /\ p[k] = ms[k - n] /\ k - n > i
        BY <1>1, <1>2, <3>2
      <4>2. QED
        BY <2>5, <4>1
    <3>3. QED
      BY <2>5, <3>1, <3>2 DEF WaitsFor
  <2>6. ASSUME NEW i \in DOMAIN p, i > r, p[i].type = "Away", p[i].slot = x,
               \A k \in DOMAIN p : k > i => ~Speaks(p[k], x)
        PROVE  WaitsFor(list2, ms, 0, x)
    <3>1. ~(n + a > i)
      BY <2>2, <2>6
    <3>2. i - n \in DOMAIN ms /\ p[i] = ms[i - n] /\ i - n > 0
      BY <1>1, <1>2, <2>1, <3>1
    <3>3. ASSUME NEW k \in DOMAIN ms, k > i - n PROVE ~Speaks(ms[k], x)
      <4>1. n + k \in DOMAIN p /\ p[n + k] = ms[k] /\ n + k > i
        BY <1>1, <1>2, <3>3
      <4>2. QED
        BY <2>6, <4>1
    <3>4. QED
      BY <2>6, <3>2, <3>3 DEF WaitsFor
  <2>7. WaitsFor(list2, ms, 0, x) => WaitsFor(list, p, r, x)
    BY <2>4, <2>5 DEF WaitsFor
  <2>8. WaitsFor(list, p, r, x) => WaitsFor(list2, ms, 0, x)
    BY <2>3, <2>6 DEF WaitsFor
  <2>9. QED
    BY <2>7, <2>8
<1>5. CASE \A i \in DOMAIN ms : ~Speaks(ms[i], x)
  <2>1. \A i \in DOMAIN ms : ~(ms[i].type = "Away" /\ ms[i].slot = x)
    BY <1>5 DEF Speaks
  <2>2. WaitsFor(list2, ms, 0, x) <=> x \in list2
    BY <1>5, <2>1 DEF WaitsFor
  <2>3. \A k \in DOMAIN p : k > n => ~Speaks(p[k], x)
    BY <1>1, <1>2, <1>5
  <2>4. ASSUME WaitsFor(list, q, r, x) PROVE WaitsFor(list, p, r, x)
    <3>1. CASE x \in list /\ \A i \in DOMAIN q : i > r => ~Speaks(q[i], x)
      <4>1. \A i \in DOMAIN p : i > r => ~Speaks(p[i], x)
        BY <1>2, <1>5, <3>1
      <4>2. QED
        BY <3>1, <4>1 DEF WaitsFor
    <3>2. CASE \E i \in DOMAIN q : /\ i > r /\ q[i].type = "Away" /\ q[i].slot = x
                                   /\ \A k \in DOMAIN q : k > i => ~Speaks(q[k], x)
      <4>1. PICK i \in DOMAIN q : /\ i > r /\ q[i].type = "Away" /\ q[i].slot = x
                                  /\ \A k \in DOMAIN q : k > i => ~Speaks(q[k], x)
        BY <3>2
      <4>2. i \in DOMAIN p /\ p[i] = q[i] /\ \A k \in DOMAIN p : k > i => ~Speaks(p[k], x)
        BY <1>2, <1>5, <4>1
      <4>3. QED
        BY <4>1, <4>2 DEF WaitsFor
    <3>3. QED
      BY <2>4, <3>1, <3>2 DEF WaitsFor
  <2>5. ASSUME WaitsFor(list, p, r, x) PROVE WaitsFor(list, q, r, x)
    <3>1. CASE x \in list /\ \A i \in DOMAIN p : i > r => ~Speaks(p[i], x)
      <4>1. \A i \in DOMAIN q : i > r => ~Speaks(q[i], x)
        BY <1>2, <3>1
      <4>2. QED
        BY <3>1, <4>1 DEF WaitsFor
    <3>2. CASE \E i \in DOMAIN p : /\ i > r /\ p[i].type = "Away" /\ p[i].slot = x
                                   /\ \A k \in DOMAIN p : k > i => ~Speaks(p[k], x)
      <4>1. PICK i \in DOMAIN p : /\ i > r /\ p[i].type = "Away" /\ p[i].slot = x
                                  /\ \A k \in DOMAIN p : k > i => ~Speaks(p[k], x)
        BY <3>2
      <4>2. i \in DOMAIN q /\ p[i] = q[i]
        BY <1>2, <2>1, <4>1
      <4>3. \A k \in DOMAIN q : k > i => ~Speaks(q[k], x)
        BY <1>2, <4>1
      <4>4. QED
        BY <4>1, <4>2, <4>3 DEF WaitsFor
    <3>3. QED
      BY <2>5, <3>1, <3>2 DEF WaitsFor
  <2>6. QED
    BY <2>2, <2>4, <2>5
<1>6. QED
  BY <1>4, <1>5

\* One message is heard.
LEMMA WaitsRead ==
  ASSUME NEW q, IsList(q), q # <<>>, NEW list, NEW x, NEW list2,
         x \in list2 <=> IF Speaks(Head(q), x) THEN Head(q).type = "Away" ELSE x \in list
  PROVE  WaitsFor(list, q, 0, x) <=> WaitsFor(list2, Tail(q), 0, x)
<1>1. /\ Len(q) \in Nat /\ Len(q) # 0 /\ DOMAIN q = 1 .. Len(q) /\ Head(q) = q[1] /\ 1 \in DOMAIN q
      /\ IsList(Tail(q)) /\ Len(Tail(q)) = Len(q) - 1 /\ DOMAIN Tail(q) = 1 .. Len(q) - 1
      /\ \A i \in DOMAIN Tail(q) : i + 1 \in DOMAIN q /\ Tail(q)[i] = q[i + 1]
  BY ListTail, ListDomain
<1> DEFINE p == Tail(q)
           m == Head(q)
<1>2. ASSUME NEW i \in DOMAIN q, i # 1 PROVE i - 1 \in DOMAIN p /\ q[i] = p[i - 1] /\ i > 1
  BY <1>1, <1>2
<1>3. \A i \in DOMAIN p : i > 0 /\ i + 1 \in DOMAIN q /\ p[i] = q[i + 1] /\ i + 1 > 1
  BY <1>1
<1>4. m = q[1] /\ 1 \in DOMAIN q /\ DOMAIN q \subseteq Nat /\ DOMAIN p \subseteq Nat
  BY <1>1
<1> HIDE DEF p, m
<1>5. ASSUME WaitsFor(list, q, 0, x) PROVE WaitsFor(list2, p, 0, x)
  <2>1. CASE x \in list /\ \A i \in DOMAIN q : i > 0 => ~Speaks(q[i], x)
    <3>1. ~Speaks(m, x) /\ \A i \in DOMAIN p : ~Speaks(p[i], x)
      BY <1>3, <1>4, <2>1
    <3>2. QED
      BY <2>1, <3>1 DEF WaitsFor, m
  <2>2. CASE \E i \in DOMAIN q : /\ i > 0 /\ q[i].type = "Away" /\ q[i].slot = x
                                 /\ \A k \in DOMAIN q : k > i => ~Speaks(q[k], x)
    <3>1. PICK i \in DOMAIN q : /\ i > 0 /\ q[i].type = "Away" /\ q[i].slot = x
                                /\ \A k \in DOMAIN q : k > i => ~Speaks(q[k], x)
      BY <2>2
    <3>2. CASE i = 1
      <4>1. x \in list2
        BY <1>4, <3>1, <3>2 DEF Speaks, m
      <4>2. \A k \in DOMAIN p : ~Speaks(p[k], x)
        BY <1>3, <1>4, <3>1, <3>2
      <4>3. QED
        BY <4>1, <4>2 DEF WaitsFor
    <3>3. CASE i # 1
      <4>1. i - 1 \in DOMAIN p /\ q[i] = p[i - 1] /\ i - 1 > 0
        BY <1>2, <1>4, <3>3
      <4>2. \A k \in DOMAIN p : k > i - 1 => ~Speaks(p[k], x)
        BY <1>3, <1>4, <3>1
      <4>3. QED
        BY <3>1, <4>1, <4>2 DEF WaitsFor
    <3>4. QED
      BY <3>2, <3>3
  <2>3. QED
    BY <1>5, <2>1, <2>2 DEF WaitsFor
<1>6. ASSUME WaitsFor(list2, p, 0, x) PROVE WaitsFor(list, q, 0, x)
  <2>1. CASE x \in list2 /\ \A i \in DOMAIN p : i > 0 => ~Speaks(p[i], x)
    <3>1. \A k \in DOMAIN q : k > 1 => ~Speaks(q[k], x)
      BY <1>2, <1>3, <1>4, <2>1
    <3>2. CASE Speaks(m, x)
      <4>1. m.type = "Away" /\ m.slot = x
        BY <2>1, <3>2 DEF Speaks, m
      <4>2. QED
        BY <1>4, <3>1, <4>1 DEF WaitsFor
    <3>3. CASE ~Speaks(m, x)
      <4>1. x \in list
        BY <2>1, <3>3 DEF m
      <4>2. \A k \in DOMAIN q : ~Speaks(q[k], x)
        BY <1>2, <1>4, <3>1, <3>3
      <4>3. QED
        BY <4>1, <4>2 DEF WaitsFor
    <3>4. QED
      BY <3>2, <3>3
  <2>2. CASE \E i \in DOMAIN p : /\ i > 0 /\ p[i].type = "Away" /\ p[i].slot = x
                                 /\ \A k \in DOMAIN p : k > i => ~Speaks(p[k], x)
    <3>1. PICK i \in DOMAIN p : /\ i > 0 /\ p[i].type = "Away" /\ p[i].slot = x
                                /\ \A k \in DOMAIN p : k > i => ~Speaks(p[k], x)
      BY <2>2
    <3>2. i + 1 \in DOMAIN q /\ p[i] = q[i + 1] /\ i + 1 > 0
      BY <1>3, <1>4
    <3>3. ASSUME NEW k \in DOMAIN q, k > i + 1 PROVE ~Speaks(q[k], x)
      <4>1. k - 1 \in DOMAIN p /\ q[k] = p[k - 1] /\ k - 1 > i
        BY <1>2, <1>4, <3>1, <3>3
      <4>2. QED
        BY <3>1, <4>1
    <3>4. QED
      BY <3>1, <3>2, <3>3 DEF WaitsFor
  <2>3. QED
    BY <1>6, <2>1, <2>2 DEF WaitsFor
<1>7. QED
  BY <1>5, <1>6 DEF p

\* A message before message r is read.
LEMMA WaitsPast ==
  ASSUME NEW q, IsList(q), q # <<>>, NEW list, NEW x, NEW r \in Nat, r >= 1
  PROVE  WaitsFor(list, q, r, x) <=> WaitsFor(list, Tail(q), r - 1, x)
<1>1. /\ Len(q) \in Nat /\ Len(q) # 0 /\ DOMAIN q = 1 .. Len(q)
      /\ DOMAIN Tail(q) = 1 .. Len(q) - 1
      /\ \A i \in DOMAIN Tail(q) : i + 1 \in DOMAIN q /\ Tail(q)[i] = q[i + 1]
  BY ListTail, ListDomain
<1> DEFINE p == Tail(q)
<1>2. \A i \in DOMAIN q : i > r => i - 1 \in DOMAIN p /\ q[i] = p[i - 1] /\ i - 1 > r - 1 /\ i \in Nat
  BY <1>1
<1>3. \A i \in DOMAIN p : i + 1 \in DOMAIN q /\ p[i] = q[i + 1] /\ i \in Nat
  BY <1>1
<1> HIDE DEF p
<1>4. ASSUME WaitsFor(list, q, r, x) PROVE WaitsFor(list, p, r - 1, x)
  <2>1. CASE x \in list /\ \A i \in DOMAIN q : i > r => ~Speaks(q[i], x)
    BY <1>3, <2>1 DEF WaitsFor
  <2>2. CASE \E i \in DOMAIN q : /\ i > r /\ q[i].type = "Away" /\ q[i].slot = x
                                 /\ \A k \in DOMAIN q : k > i => ~Speaks(q[k], x)
    <3>1. PICK i \in DOMAIN q : /\ i > r /\ q[i].type = "Away" /\ q[i].slot = x
                                /\ \A k \in DOMAIN q : k > i => ~Speaks(q[k], x)
      BY <2>2
    <3>2. i - 1 \in DOMAIN p /\ q[i] = p[i - 1] /\ i - 1 > r - 1 /\ i \in Nat
      BY <1>2, <3>1
    <3>3. \A k \in DOMAIN p : k > i - 1 => ~Speaks(p[k], x)
      BY <1>3, <3>1, <3>2
    <3>4. QED
      BY <3>1, <3>2, <3>3 DEF WaitsFor
  <2>3. QED
    BY <1>4, <2>1, <2>2 DEF WaitsFor
<1>5. ASSUME WaitsFor(list, p, r - 1, x) PROVE WaitsFor(list, q, r, x)
  <2>1. CASE x \in list /\ \A i \in DOMAIN p : i > r - 1 => ~Speaks(p[i], x)
    BY <1>2, <2>1 DEF WaitsFor
  <2>2. CASE \E i \in DOMAIN p : /\ i > r - 1 /\ p[i].type = "Away" /\ p[i].slot = x
                                 /\ \A k \in DOMAIN p : k > i => ~Speaks(p[k], x)
    <3>1. PICK i \in DOMAIN p : /\ i > r - 1 /\ p[i].type = "Away" /\ p[i].slot = x
                                /\ \A k \in DOMAIN p : k > i => ~Speaks(p[k], x)
      BY <2>2
    <3>2. i + 1 \in DOMAIN q /\ p[i] = q[i + 1] /\ i + 1 > r /\ i \in Nat
      BY <1>3, <3>1
    <3>3. ASSUME NEW k \in DOMAIN q, k > i + 1 PROVE ~Speaks(q[k], x)
      <4>1. k - 1 \in DOMAIN p /\ q[k] = p[k - 1] /\ k - 1 > i
        BY <1>1, <1>2, <3>2, <3>3
      <4>2. QED
        BY <3>1, <4>1
    <3>4. QED
      BY <3>1, <3>2, <3>3 DEF WaitsFor
  <2>3. QED
    BY <1>5, <2>1, <2>2 DEF WaitsFor
<1>6. QED
  BY <1>4, <1>5 DEF p

(***************************************************************************)
(* What the host's handlers tell the seats: of a connection that is seated *)
(* after, what is sent on it takes the list of the seat from what the host *)
(* waited for to what it waits for.                                        *)
(***************************************************************************)
Hears(waits, waits2, j, ms) ==
  /\ IsList(ms) /\ \A i \in DOMAIN ms : ms[i].type # "Rejoin"
  /\ \A x \in Joiners : WaitsFor(waits \ {j}, ms, 0, x) <=> x \in waits2 \ {j}

Listens(h, j, c) ==
  h.session.retired[j] = None /\ h.line[c] = "seated" /\ ~Closed(h.down[c])

Tells(h, h2) ==
  \A j \in Joiners : \A c \in ConnsOf(j) : Listens(h2, j, c) =>
    /\ Listens(h, j, c)
    /\ \E ms : h2.down[c] = h.down[c] \o ms /\ Hears(h.waiting, h2.waiting, j, ms)

Mute(m) == m.type \notin {"Away", "Back", "Retire", "Rejoin"}

LEMMA MuteHears ==
  ASSUME NEW waits, NEW j, NEW ms, IsList(ms), \A i \in DOMAIN ms : Mute(ms[i])
  PROVE  Hears(waits, waits, j, ms)
<1>1. \A i \in DOMAIN ms : ms[i].type # "Away" /\ ms[i].type # "Rejoin"
  BY DEF Mute
<1>2. ASSUME NEW x \in Joiners PROVE WaitsFor(waits \ {j}, ms, 0, x) <=> x \in waits \ {j}
  <2>1. \A i \in DOMAIN ms : ~Speaks(ms[i], x)
    BY DEF Mute, Speaks
  <2>2. QED
    BY <1>1, <2>1 DEF WaitsFor
<1>3. QED
  BY <1>1, <1>2 DEF Hears

LEMMA NothingSaid ==
  ASSUME NEW q, IsList(q)
  PROVE  q = q \o <<>> /\ IsList(<<>>) /\ DOMAIN <<>> = {}
<1>1. PICK T : q \in Seq(T)
  BY DEF IsList
<1>2. q = q \o <<>>
  BY <1>1, ConcatEmptySeq
<1>3. IsList(<<>>)
  BY EmptySeq DEF IsList
<1>4. QED
  BY <1>2, <1>3

LEMMA TellsTrans ==
  ASSUME NEW h, Lists(h), NEW h2, NEW h3, Tells(h, h2), Tells(h2, h3)
  PROVE  Tells(h, h3)
<1>1. SUFFICES ASSUME NEW j \in Joiners, NEW c \in ConnsOf(j), Listens(h3, j, c)
               PROVE  /\ Listens(h, j, c)
                      /\ \E ms : h3.down[c] = h.down[c] \o ms /\ Hears(h.waiting, h3.waiting, j, ms)
  BY DEF Tells
<1>2. Listens(h2, j, c) /\ \E ms : h3.down[c] = h2.down[c] \o ms /\ Hears(h2.waiting, h3.waiting, j, ms)
  BY <1>1 DEF Tells
<1>3. Listens(h, j, c) /\ \E ms : h2.down[c] = h.down[c] \o ms /\ Hears(h.waiting, h2.waiting, j, ms)
  BY <1>2 DEF Tells
<1>4. PICK b : h3.down[c] = h2.down[c] \o b /\ Hears(h2.waiting, h3.waiting, j, b)
  BY <1>2
<1>5. PICK a : h2.down[c] = h.down[c] \o a /\ Hears(h.waiting, h2.waiting, j, a)
  BY <1>3
<1>6. IsList(a) /\ IsList(b) /\ IsList(h.down[c])
  BY <1>4, <1>5 DEF Hears, Lists, ConnsOf
<1>7. PICK q : q = h.down[c]
  OBVIOUS
<1>8. PICK T, U, V : q \in Seq(T) /\ a \in Seq(U) /\ b \in Seq(V)
  BY <1>6, <1>7 DEF IsList
<1> DEFINE W == T \union U \union V
<1>a. q \in Seq(W) /\ a \in Seq(W) /\ b \in Seq(W)
  BY <1>8, SeqMonotonic
<1> HIDE DEF W
<1>b. h3.down[c] = (q \o a) \o b
  BY <1>4, <1>5, <1>7
<1>9. h3.down[c] = q \o (a \o b)
  BY <1>a, <1>b, ConcatAssociative
<1>10. PICK ab : ab = a \o b
  OBVIOUS
<1>11. /\ IsList(ab)
       /\ \A i \in DOMAIN ab :
            \/ i \in DOMAIN a /\ ab[i] = a[i]
            \/ i > Len(a) /\ i - Len(a) \in DOMAIN b /\ ab[i] = b[i - Len(a)]
  BY <1>6, <1>10, ListConcat
<1>12. \A i \in DOMAIN ab : ab[i].type # "Rejoin"
  BY <1>4, <1>5, <1>11 DEF Hears
<1>13. ASSUME NEW x \in Joiners PROVE WaitsFor(h.waiting \ {j}, ab, 0, x) <=> x \in h3.waiting \ {j}
  <2>1. x \in h2.waiting \ {j} <=> WaitsFor(h.waiting \ {j}, a, 0, x)
    BY <1>5 DEF Hears
  <2>2. 0 \in 0 .. Len(a)
    BY <1>6, ListDomain
  <2>3. PICK v, v2 : v = h.waiting \ {j} /\ v2 = h2.waiting \ {j}
    OBVIOUS
  <2>4. x \in v2 <=> WaitsFor(v, a, 0, x)
    BY <2>1, <2>3
  <2>5. WaitsFor(v, ab, 0, x) <=> WaitsFor(v2, b, 0, x)
    BY <1>6, <1>10, <2>2, <2>4, WaitsBehind
  <2>6. QED
    BY <1>4, <2>3, <2>5 DEF Hears
<1>14. Hears(h.waiting, h3.waiting, j, ab)
  BY <1>11, <1>12, <1>13 DEF Hears
<1>15. QED
  BY <1>3, <1>7, <1>9, <1>10, <1>14

\* A handler that says nothing of the seats, and seats nobody.
LEMMA TellsMute ==
  ASSUME NEW h, Lists(h), NEW h2, h2.waiting = h.waiting,
         \A j \in Joiners : h2.session.retired[j] = None => h.session.retired[j] = None,
         \A c \in Conns : h2.line[c] = "seated" =>
           /\ h.line[c] = "seated"
           /\ \/ h2.down[c] = h.down[c]
              \/ \E ms : /\ IsList(ms) /\ \A i \in DOMAIN ms : Mute(ms[i])
                         /\ h2.down[c] = Put(h.down[c], ms)
  PROVE  Tells(h, h2)
<1>1. SUFFICES ASSUME NEW j \in Joiners, NEW c \in ConnsOf(j), Listens(h2, j, c)
               PROVE  /\ Listens(h, j, c)
                      /\ \E ms : h2.down[c] = h.down[c] \o ms /\ Hears(h.waiting, h2.waiting, j, ms)
  BY DEF Tells
<1>2. c \in Conns /\ IsList(h.down[c])
  BY <1>1 DEF ConnsOf, Lists
<1>3. /\ h.line[c] = "seated" /\ h.session.retired[j] = None /\ ~Closed(h2.down[c])
      /\ \/ h2.down[c] = h.down[c]
         \/ \E ms : /\ IsList(ms) /\ \A i \in DOMAIN ms : Mute(ms[i])
                    /\ h2.down[c] = Put(h.down[c], ms)
  BY <1>1, <1>2 DEF Listens
<1>4. CASE h2.down[c] = h.down[c]
  <2>1. h2.down[c] = h.down[c] \o <<>> /\ Hears(h.waiting, h2.waiting, j, <<>>)
    BY <1>2, <1>4, NothingSaid, MuteHears
  <2>2. QED
    BY <1>3, <1>4, <2>1 DEF Listens
<1>5. CASE \E ms : /\ IsList(ms) /\ \A i \in DOMAIN ms : Mute(ms[i])
                   /\ h2.down[c] = Put(h.down[c], ms)
  <2>1. PICK ms : /\ IsList(ms) /\ \A i \in DOMAIN ms : Mute(ms[i])
                  /\ h2.down[c] = Put(h.down[c], ms)
    BY <1>5
  <2>2. ~Closed(h.down[c]) /\ h2.down[c] = h.down[c] \o ms
    BY <1>3, <2>1 DEF Put
  <2>3. Hears(h.waiting, h2.waiting, j, ms)
    BY <2>1, MuteHears
  <2>4. QED
    BY <1>3, <2>2, <2>3 DEF Listens
<1>6. QED
  BY <1>3, <1>4, <1>5

LEMMA ToldBehind ==
  ASSUME NEW q, IsList(q), NEW r \in 0 .. Len(q), NEW waits, NEW j, NEW list, Told(waits, j, list, q, r),
         NEW waits2, NEW ms, Hears(waits, waits2, j, ms), NEW p, p = q \o ms
  PROVE  Told(waits2, j, list, p, r)
<1>1. SUFFICES ASSUME NEW x \in Joiners PROVE WaitsFor(list, p, r, x) <=> x \in waits2 \ {j}
  BY DEF Told
<1>2. PICK v : v = waits \ {j}
  OBVIOUS
<1>3. x \in v <=> WaitsFor(list, q, r, x)
  BY <1>2 DEF Told
<1>4. IsList(ms)
  BY DEF Hears
<1>5. WaitsFor(list, p, r, x) <=> WaitsFor(v, ms, 0, x)
  BY <1>3, <1>4, WaitsBehind
<1>6. WaitsFor(list, p, r, x) <=> WaitsFor(waits \ {j}, ms, 0, x)
  BY <1>2, <1>5
<1>7. QED
  BY <1>6 DEF Hears

LEMMA AnsweredBehind ==
  ASSUME NEW q, IsList(q), NEW waits, NEW j, NEW list, Answered(waits, j, list, q),
         NEW waits2, NEW ms, Hears(waits, waits2, j, ms), NEW p, p = q \o ms
  PROVE  Answered(waits2, j, list, p)
<1>1. SUFFICES ASSUME NEW r \in DOMAIN p, p[r].type = "Rejoin"
               PROVE  Told(waits2, j, list, p, r)
  BY DEF Answered
<1>2. \/ r \in DOMAIN q /\ p[r] = q[r]
      \/ r > Len(q) /\ r - Len(q) \in DOMAIN ms /\ p[r] = ms[r - Len(q)]
  BY <1>1, ListConcat DEF Hears
<1>3. r \in DOMAIN q /\ q[r].type = "Rejoin"
  BY <1>1, <1>2 DEF Hears
<1>4. Told(waits, j, list, q, r) /\ r \in 0 .. Len(q)
  BY <1>3, ListDomain DEF Answered
<1>5. QED
  BY <1>4, ToldBehind

\* A joiner's list is kept by what the host tells it.
LEMMA ListKept ==
  ASSUME NEW h, NEW h2, NEW j, NEW c, IsList(h.down[c]),
         Listens(h2, j, c) =>
           /\ Listens(h, j, c)
           /\ \E ms : h2.down[c] = h.down[c] \o ms /\ Hears(h.waiting, h2.waiting, j, ms),
         NEW why, NEW list, ListOK(h, j, why, c, list)
  PROVE  ListOK(h2, j, why, c, list)
<1>1. SUFFICES ASSUME Listens(h2, j, c)
               PROVE  /\ why = "playing" => Told(h2.waiting, j, list, h2.down[c], 0)
                      /\ why = "knocking" => Answered(h2.waiting, j, list, h2.down[c])
  BY DEF ListOK, Listens
<1>2. Listens(h, j, c) /\ \E ms : h2.down[c] = h.down[c] \o ms /\ Hears(h.waiting, h2.waiting, j, ms)
  BY <1>1
<1>3. PICK ms : h2.down[c] = h.down[c] \o ms /\ Hears(h.waiting, h2.waiting, j, ms)
  BY <1>2
<1>4. PICK q, p : q = h.down[c] /\ p = h2.down[c]
  OBVIOUS
<1>5. IsList(q) /\ p = q \o ms
  BY <1>3, <1>4
<1>6. /\ why = "playing" => Told(h.waiting, j, list, q, 0)
      /\ why = "knocking" => Answered(h.waiting, j, list, q)
  BY <1>2, <1>4 DEF ListOK, Listens
<1>7. 0 \in 0 .. Len(q)
  BY <1>5, ListDomain
<1>8. why = "playing" => Told(h2.waiting, j, list, p, 0)
  BY <1>3, <1>5, <1>6, <1>7, ToldBehind
<1>9. why = "knocking" => Answered(h2.waiting, j, list, p)
  BY <1>3, <1>5, <1>6, AnsweredBehind
<1>10. QED
  BY <1>4, <1>8, <1>9

LEMMA TellsKept ==
  ASSUME NEW h, Lists(h), NEW h2, Tells(h, h2), NEW j \in Joiners, NEW c \in ConnsOf(j),
         NEW why, NEW list, ListOK(h, j, why, c, list)
  PROVE  ListOK(h2, j, why, c, list)
<1>1. IsList(h.down[c])
  BY DEF Lists, ConnsOf
<1>2. Listens(h2, j, c) =>
        /\ Listens(h, j, c)
        /\ \E ms : h2.down[c] = h.down[c] \o ms /\ Hears(h.waiting, h2.waiting, j, ms)
  BY DEF Tells
<1>3. QED
  BY <1>1, <1>2, ListKept

\* What a handler sends is heard as it stands on a connection that is open after.
LEMMA PutHears ==
  ASSUME NEW h, NEW h2, NEW j, NEW c, NEW ms, h2.down[c] = Put(h.down[c], ms),
         Listens(h2, j, c), h.session.retired[j] = None, h.line[c] = "seated",
         Hears(h.waiting, h2.waiting, j, ms)
  PROVE  /\ Listens(h, j, c)
         /\ \E a : h2.down[c] = h.down[c] \o a /\ Hears(h.waiting, h2.waiting, j, a)
<1>1. ~Closed(h.down[c]) /\ h2.down[c] = h.down[c] \o ms
  BY DEF Put, Listens
<1>2. QED
  BY <1>1 DEF Listens

LEMMA PutMute ==
  ASSUME NEW m, Mute(m)
  PROVE  IsList(<<m>>) /\ \A i \in DOMAIN <<m>> : Mute(<<m>>[i])
BY OneMessage

LEMMA TellsPolled ==
  ASSUME NEW h, Wired(h), Lists(h)
  PROVE  Tells(h, Polled(h))
<1>1. /\ Same(h, Polled(h)) /\ Polled(h).down = h.down
      /\ \A c \in Conns : /\ h.line[c] \notin {"connecting", "accepted"} => Polled(h).line[c] = h.line[c]
                          /\ h.line[c] \in {"connecting", "accepted"} =>
                               Polled(h).line[c] \in {"accepted", "stranger"}
  BY PolledMoves
<1>2. PICK h2 : h2 = Polled(h)
  OBVIOUS
<1>3. \A c \in Conns : h2.line[c] = "seated" => h.line[c] = "seated" /\ h2.down[c] = h.down[c]
  BY <1>1, <1>2
<1>4. Tells(h, h2)
  BY <1>1, <1>2, <1>3, TellsMute DEF Same
<1>5. QED
  BY <1>2, <1>4

LEMMA TellsTake ==
  ASSUME NEW h, Wired(h), Lists(h), NEW c \in Conns
  PROVE  Tells(h, TakeFrom(h, c))
<1>1. PICK h2 : h2 = TakeFrom(h, c)
  OBVIOUS
<1>2. Same(h, h2) /\ h2.line = h.line /\ h2.down = h.down
  BY <1>1, TakeFromIs
<1>3. Tells(h, h2)
  BY <1>2, TellsMute DEF Same
<1>4. QED
  BY <1>1, <1>3

\* The host's session changes, nobody being taken back, and something is sent to the seated.
LEMMA TellsSpeak ==
  ASSUME NEW h, Wired(h), Lists(h), NEW S,
         \A j \in Joiners : S.retired[j] = None => h.session.retired[j] = None,
         NEW except, NEW m, Mute(m)
  PROVE  Tells(h, SendBut([h EXCEPT !.session = S], except, m))
<1> DEFINE h1 == [h EXCEPT !.session = S]
           h2 == SendBut(h1, except, m)
<1>1. h1.session = S /\ h1.waiting = h.waiting /\ h1.line = h.line /\ h1.down = h.down /\ DOMAIN h1 = HostFields
  BY DEF Wired, HostFields
<1> HIDE DEF h1
<1>2. /\ h2.session = S /\ h2.waiting = h.waiting /\ h2.line = h.line
      /\ h2.down = [c \in Conns |-> IF IsSeated(h1, c) /\ c # except THEN Put(h.down[c], <<m>>)
                                    ELSE h.down[c]]
  BY Zenon, <1>1 DEF SendBut, HostFields
<1> HIDE DEF h2
<1>3. PICK ms : ms = <<m>>
  OBVIOUS
<1>4. IsList(ms) /\ \A i \in DOMAIN ms : Mute(ms[i])
  BY <1>3, PutMute
<1>5. \A c \in Conns : h2.down[c] = h.down[c] \/ h2.down[c] = Put(h.down[c], ms)
  BY <1>2, <1>3
<1>6. Tells(h, h2)
  BY <1>2, <1>4, <1>5, TellsMute
<1>7. QED
  BY <1>6 DEF h1, h2

LEMMA TellsDisconnect ==
  ASSUME NEW h, Wired(h), Lists(h), NEW conns
  PROVE  Tells(h, Disconnect(h, conns))
<1>1. PICK h2 : h2 = Disconnect(h, conns)
  OBVIOUS
<1>2. /\ Same(h, h2)
      /\ \A c \in conns \cap Conns : h2.line[c] = "gone"
      /\ \A c \in Conns \ conns : h2.line[c] = h.line[c]
      /\ \A c \in Conns : h2.down[c] = IF c \in conns THEN Put(h.down[c], <<Fin>>) ELSE h.down[c]
  BY <1>1, DisconnectIs
<1>3. \A c \in Conns : h2.line[c] = "seated" => h.line[c] = "seated" /\ h2.down[c] = h.down[c]
  BY <1>2
<1>4. Tells(h, h2)
  BY <1>2, <1>3, TellsMute DEF Same
<1>5. QED
  BY <1>1, <1>4

LEMMA SpeakIs ==
  ASSUME NEW h, Wired(h), Lists(h), NEW S, NEW except, NEW m
  PROVE  /\ Wired(SendBut([h EXCEPT !.session = S], except, m))
         /\ Lists(SendBut([h EXCEPT !.session = S], except, m))
         /\ SendBut([h EXCEPT !.session = S], except, m).line = h.line
         /\ SendBut([h EXCEPT !.session = S], except, m).session = S
<1> DEFINE h1 == [h EXCEPT !.session = S]
           h2 == SendBut(h1, except, m)
<1>1. /\ h1.session = S /\ h1.waiting = h.waiting /\ h1.line = h.line /\ h1.down = h.down
      /\ h1.up = h.up /\ DOMAIN h1 = HostFields
  BY DEF Wired, HostFields
<1> HIDE DEF h1
<1>2. /\ h2.session = S /\ h2.line = h.line /\ h2.up = h.up /\ DOMAIN h2 = HostFields
      /\ h2.down = [c \in Conns |-> IF IsSeated(h1, c) /\ c # except THEN Put(h.down[c], <<m>>)
                                    ELSE h.down[c]]
  BY Zenon, <1>1 DEF SendBut, HostFields
<1> HIDE DEF h2
<1>3. Wired(h2)
  BY <1>2 DEF Wired
<1>4. ASSUME NEW c \in Conns PROVE IsList(h2.down[c])
  <2>1. IsList(h.down[c]) /\ IsList(<<m>>)
    BY OneMessage DEF Lists
  <2>2. IsList(Put(h.down[c], <<m>>))
    BY <2>1, ListConcat DEF Put
  <2>3. h2.down[c] = h.down[c] \/ h2.down[c] = Put(h.down[c], <<m>>)
    BY <1>2
  <2>4. QED
    BY <2>1, <2>2, <2>3
<1>5. QED
  BY <1>2, <1>3, <1>4 DEF Lists, h1, h2

LEMMA TellsStop ==
  ASSUME NEW h, Wired(h), Lists(h), NEW reason
  PROVE  Tells(h, Stop(h, reason))
<1> DEFINE S == Halt(h.session, reason)
           m == HaltMsg(reason)
           h2 == SendBut([h EXCEPT !.session = S], Nobody, m)
           conns == {c \in Conns : h2.line[c] # "none"}
<1>1. Mute(m)
  BY DEF Mute, HaltMsg
<1>2. S.retired = h.session.retired
  BY DEF Halt
<1>3. Wired(h2) /\ Lists(h2) /\ h2.line = h.line
  <2> HIDE DEF S, m
  <2>1. QED
    BY SpeakIs
<1>4. Tells(h, h2)
  <2> HIDE DEF S, m
  <2>1. QED
    BY <1>1, <1>2, TellsSpeak
<1>5. Stop(h, reason) = Disconnect(h2, {c \in Conns : h.line[c] # "none"})
  BY DEF Stop, SendAll
<1> HIDE DEF h2
<1>6. Tells(h2, Disconnect(h2, {c \in Conns : h.line[c] # "none"}))
  BY <1>3, TellsDisconnect
<1>7. QED
  BY <1>4, <1>5, <1>6, TellsTrans

LEMMA TellsDiverged ==
  ASSUME NEW h, Wired(h), Lists(h)
  PROVE  Tells(h, Diverged(h))
<1> DEFINE S == PlanResync(h.session)
           m == [type |-> "ResyncAt", tick |-> ResyncTick(h.session)]
<1>1. CASE ~PlansResync(h.session)
  <2>1. Diverged(h) = h
    BY <1>1 DEF Diverged
  <2>2. Tells(h, h)
    BY TellsMute
  <2>3. QED
    BY <2>1, <2>2
<1>2. CASE PlansResync(h.session)
  <2>1. Diverged(h) = SendBut([h EXCEPT !.session = S], Nobody, m)
    BY <1>2 DEF Diverged, SendAll
  <2>2. Mute(m)
    BY DEF Mute
  <2>3. S.retired = h.session.retired
    BY <1>2 DEF PlanResync, ResyncAnnounced
  <2> HIDE DEF S, m
  <2>4. Tells(h, SendBut([h EXCEPT !.session = S], Nobody, m))
    BY <2>2, <2>3, TellsSpeak
  <2>5. QED
    BY <2>1, <2>4
<1>3. QED
  BY <1>1, <1>2

LEMMA HearsOne ==
  ASSUME NEW waits, NEW waits2, NEW j, NEW m, m.type # "Rejoin",
         \A x \in Joiners : x \in waits2 \ {j} <=> IF Speaks(m, x) THEN m.type = "Away" ELSE x \in waits \ {j}
  PROVE  Hears(waits, waits2, j, <<m>>)
<1>1. PICK ms : ms = <<m>>
  OBVIOUS
<1>2. IsList(ms) /\ DOMAIN ms = {1} /\ ms[1] = m
  BY <1>1, OneMessage
<1>3. ASSUME NEW x \in Joiners PROVE WaitsFor(waits \ {j}, ms, 0, x) <=> x \in waits2 \ {j}
  <2>1. CASE Speaks(m, x)
    <3>1. m.slot = x
      BY <2>1 DEF Speaks
    <3>2. WaitsFor(waits \ {j}, ms, 0, x) <=> m.type = "Away"
      BY <1>2, <2>1, <3>1 DEF WaitsFor
    <3>3. QED
      BY <2>1, <3>2
  <2>2. CASE ~Speaks(m, x)
    <3>1. ~(m.type = "Away" /\ m.slot = x)
      BY <2>2 DEF Speaks
    <3>2. WaitsFor(waits \ {j}, ms, 0, x) <=> x \in waits \ {j}
      BY <1>2, <2>2, <3>1 DEF WaitsFor
    <3>3. QED
      BY <2>2, <3>2
  <2>3. QED
    BY <2>1, <2>2
<1>4. QED
  BY <1>1, <1>2, <1>3 DEF Hears

LEMMA ConnIsOne ==
  ASSUME NEW c \in Conns
  PROVE  c # <<>>
<1>1. PICK a \in Joiners, n \in 0 .. MaxConn : c = <<a, n>>
  BY DEF Conns
<1>2. Len(<<a, n>>) = 2 /\ Len(<<>>) = 0
  OBVIOUS
<1>3. QED
  BY <1>1, <1>2

LEMMA TellsAway ==
  ASSUME NEW h, Wired(h), Lists(h), NEW slot \in Joiners,
         h.session.retired[slot] = None => \A c \in ConnsOf(slot) : h.line[c] # "seated"
  PROVE  Tells(h, Away(h, slot))
<1> DEFINE h1 == [h EXCEPT !.waiting = @ \union {slot}]
           m == SlotMsg("Away", slot)
           h2 == SendBut(h1, Nobody, m)
<1>1. CASE Away(h, slot) = h
  BY <1>1, TellsMute
<1>2. CASE Away(h, slot) = h2
  <2>1. /\ h1.session = h.session /\ h1.waiting = h.waiting \union {slot} /\ h1.line = h.line
        /\ h1.down = h.down /\ DOMAIN h1 = HostFields
    BY DEF Wired, HostFields
  <2> HIDE DEF h1
  <2>2. /\ h2.session = h.session /\ h2.waiting = h.waiting \union {slot} /\ h2.line = h.line
        /\ h2.down = [c \in Conns |-> IF IsSeated(h1, c) /\ c # Nobody THEN Put(h.down[c], <<m>>)
                                      ELSE h.down[c]]
    BY Zenon, <2>1 DEF SendBut, HostFields
  <2> HIDE DEF h2
  <2>3. m.type = "Away" /\ m.slot = slot
    BY DEF SlotMsg
  <2> HIDE DEF m
  <2>4. SUFFICES ASSUME NEW j \in Joiners, NEW c \in ConnsOf(j), Listens(h2, j, c)
                 PROVE  /\ Listens(h, j, c)
                        /\ \E ms : h2.down[c] = h.down[c] \o ms /\ Hears(h.waiting, h2.waiting, j, ms)
    BY <1>2 DEF Tells
  <2>5. h.session.retired[j] = None /\ h.line[c] = "seated" /\ c \in Conns /\ j # slot
    BY <2>2, <2>4 DEF Listens, ConnsOf
  <2>6. IsSeated(h1, c) /\ c # Nobody
    <3>1. IsSeated(h1, c)
      BY <2>1, <2>5 DEF IsSeated
    <3>2. c # <<>>
      BY <2>5, ConnIsOne
    <3>3. QED
      BY <3>1, <3>2 DEF Nobody
  <2>7. h2.down[c] = Put(h.down[c], <<m>>)
    BY <2>2, <2>5, <2>6
  <2>8. \A x \in Joiners : x \in h2.waiting \ {j} <=>
          IF Speaks(m, x) THEN m.type = "Away" ELSE x \in h.waiting \ {j}
    BY <2>2, <2>3, <2>5 DEF Speaks
  <2>9. Hears(h.waiting, h2.waiting, j, <<m>>)
    BY <2>3, <2>8, HearsOne
  <2>10. QED
    BY <2>4, <2>5, <2>7, <2>9, PutHears
<1>3. QED
  BY <1>1, <1>2 DEF Away, SendAll

\* What is said of several slots, each once or all to the same effect.
LEMMA HearsAll ==
  ASSUME NEW waits, NEW waits2, NEW j, NEW slots, IsList(slots), NEW ms, IsList(ms), Len(ms) = Len(slots),
         NEW type \in {"Away", "Back", "Retire"},
         \A i \in DOMAIN slots : ms[i].type = type /\ ms[i].slot = slots[i],
         type = "Away" => \A i, k \in DOMAIN slots : slots[i] = slots[k] => i = k,
         \A x \in Joiners : x \in waits2 \ {j} <=>
           IF x \in Range(slots) THEN type = "Away" ELSE x \in waits \ {j}
  PROVE  Hears(waits, waits2, j, ms)
<1>1. DOMAIN ms = DOMAIN slots /\ DOMAIN ms \subseteq Nat /\ \A i \in DOMAIN ms : i > 0
  BY ListDomain
<1>2. \A i \in DOMAIN ms : ms[i].type # "Rejoin"
  BY <1>1
<1>3. ASSUME NEW x \in Joiners PROVE WaitsFor(waits \ {j}, ms, 0, x) <=> x \in waits2 \ {j}
  <2>1. \A i \in DOMAIN ms : Speaks(ms[i], x) <=> slots[i] = x
    BY <1>1 DEF Speaks
  <2>2. CASE x \in Range(slots)
    <3>1. PICK i \in DOMAIN ms : slots[i] = x
      BY <1>1, <2>2 DEF Range
    <3>2. Speaks(ms[i], x) /\ i > 0
      BY <1>1, <2>1, <3>1
    <3>3. CASE type = "Away"
      <4>1. \A k \in DOMAIN ms : k > i => ~Speaks(ms[k], x)
        BY <1>1, <2>1, <3>1, <3>3
      <4>2. ms[i].type = "Away" /\ ms[i].slot = x
        BY <1>1, <3>1, <3>3
      <4>3. WaitsFor(waits \ {j}, ms, 0, x)
        BY <3>2, <4>1, <4>2 DEF WaitsFor
      <4>4. QED
        BY <2>2, <3>3, <4>3
    <3>4. CASE type # "Away"
      <4>1. ~WaitsFor(waits \ {j}, ms, 0, x)
        BY <1>1, <3>2, <3>4 DEF WaitsFor
      <4>2. QED
        BY <2>2, <3>4, <4>1
    <3>5. QED
      BY <3>3, <3>4
  <2>3. CASE x \notin Range(slots)
    <3>1. \A i \in DOMAIN ms : slots[i] # x /\ ms[i].slot # x
      BY <1>1, <2>3 DEF Range
    <3>2. \A i \in DOMAIN ms : ~Speaks(ms[i], x)
      BY <2>1, <3>1
    <3>3. WaitsFor(waits \ {j}, ms, 0, x) <=> x \in waits \ {j}
      BY <3>1, <3>2 DEF WaitsFor
    <3>4. QED
      BY <2>3, <3>3
  <2>4. QED
    BY <2>2, <2>3
<1>4. QED
  BY <1>2, <1>3 DEF Hears

\* A seat that stays hears of all slots taken in turn.
LEMMA InTurnSays ==
  ASSUME NEW h, Wired(h), NEW slots, NEW last, NEW msg, NEW c \in Conns, h.line[c] = "seated",
         SlotOf(c) \notin Range(slots)
  PROVE  InTurn(h, slots, msg, last).down[c] = Put(h.down[c], [i \in 1 .. Len(slots) |-> msg[slots[i]]])
<1> DEFINE closes == {d \in Conns : h.line[d] = "seated" /\ SlotOf(d) \in Range(slots)}
           turn(d) == Min({i \in DOMAIN slots : slots[i] = SlotOf(d)})
           told(n) == [i \in 1 .. n |-> msg[slots[i]]]
           heard == [h EXCEPT !.down = [d \in Conns |->
                       IF d \in closes THEN Put(@[d], told(turn(d) + last - 1))
                       ELSE IF IsSeated(h, d) THEN Put(@[d], told(Len(slots))) ELSE @[d]]]
<1>1. InTurn(h, slots, msg, last) = Disconnect(heard, closes)
  BY Zenon DEF InTurn
<1>2. Wired(heard)
  BY Zenon DEF Wired, HostFields
<1>3. heard.down = [d \in Conns |->
                       IF d \in closes THEN Put(h.down[d], told(turn(d) + last - 1))
                       ELSE IF IsSeated(h, d) THEN Put(h.down[d], told(Len(slots))) ELSE h.down[d]]
  BY Zenon DEF Wired, HostFields
<1> HIDE DEF heard
<1>4. c \notin closes /\ IsSeated(h, c)
  BY DEF IsSeated
<1> HIDE DEF closes, turn, told
<1>5. heard.down[c] = Put(h.down[c], told(Len(slots)))
  BY <1>3, <1>4
<1>6. Disconnect(heard, closes).down[c] = heard.down[c]
  BY <1>2, <1>4, DisconnectIs
<1>7. QED
  BY <1>1, <1>5, <1>6 DEF told

\* Slots taken in turn, all to the same effect on who is waited for.
LEMMA TellsInTurn ==
  ASSUME NEW h, Wired(h), Lists(h), NEW slots, IsList(slots), NEW last, NEW msg,
         NEW type \in {"Away", "Back", "Retire"},
         \A x \in Range(slots) : msg[x].type = type /\ msg[x].slot = x,
         type = "Away" => \A i, k \in DOMAIN slots : slots[i] = slots[k] => i = k,
         NEW h2, h2.down = InTurn(h, slots, msg, last).down, h2.line = InTurn(h, slots, msg, last).line,
         \A x \in Joiners : x \in h2.waiting <=> IF x \in Range(slots) THEN type = "Away" ELSE x \in h.waiting,
         \A j \in Joiners \ Range(slots) : h2.session.retired[j] = None => h.session.retired[j] = None
  PROVE  Tells(h, h2)
<1>1. SUFFICES ASSUME NEW j \in Joiners, NEW c \in ConnsOf(j), Listens(h2, j, c)
               PROVE  /\ Listens(h, j, c)
                      /\ \E ms : h2.down[c] = h.down[c] \o ms /\ Hears(h.waiting, h2.waiting, j, ms)
  BY DEF Tells
<1>2. c \in Conns /\ SlotOf(c) = j /\ h2.line[c] = "seated" /\ h2.session.retired[j] = None
  BY <1>1 DEF ConnsOf, Listens
<1>3. PICK told : told = InTurn(h, slots, msg, last)
  OBVIOUS
<1>4. /\ \A d \in Conns : h.line[d] = "seated" /\ SlotOf(d) \in Range(slots) => told.line[d] = "gone"
      /\ \A d \in Conns : ~(h.line[d] = "seated" /\ SlotOf(d) \in Range(slots)) => told.line[d] = h.line[d]
  BY <1>3, InTurnIs
<1>5. h.line[c] = "seated" /\ j \notin Range(slots)
  <2>1. told.line[c] = "seated"
    BY <1>2, <1>3
  <2>2. ~(h.line[c] = "seated" /\ SlotOf(c) \in Range(slots))
    BY <1>2, <1>4, <2>1
  <2>3. QED
    BY <1>2, <1>4, <2>1, <2>2
<1>6. PICK ms : ms = [i \in 1 .. Len(slots) |-> msg[slots[i]]]
  OBVIOUS
<1>7. h2.down[c] = Put(h.down[c], ms)
  BY <1>2, <1>5, <1>6, InTurnSays
<1>8. Len(slots) \in Nat /\ DOMAIN slots = 1 .. Len(slots)
  BY ListDomain
<1>9. IsList(ms) /\ Len(ms) = Len(slots)
  BY <1>6, <1>8, ListOf
<1>10. \A i \in DOMAIN slots : ms[i].type = type /\ ms[i].slot = slots[i]
  BY <1>6, <1>8 DEF Range
<1>11. \A x \in Joiners : x \in h2.waiting \ {j} <=>
         IF x \in Range(slots) THEN type = "Away" ELSE x \in h.waiting \ {j}
  BY <1>5
<1>12. Hears(h.waiting, h2.waiting, j, ms)
  BY <1>9, <1>10, <1>11, HearsAll
<1>13. h.session.retired[j] = None
  BY <1>2, <1>5
<1>14. QED
  BY <1>1, <1>5, <1>7, <1>12, <1>13, PutHears

LEMMA TellsToComputer ==
  ASSUME NEW h, Wired(h), Lists(h), Sound(h.session, Host), NEW slots, IsList(slots),
         Range(slots) \subseteq Joiners
  PROVE  Tells(h, ToComputer(h, slots))
<1> DEFINE S == h.session
           X == Range(slots)
           from == [x \in X |-> FirstMissing(S, x)]
           msg == [x \in X |-> [type |-> "Retire", slot |-> x, from |-> from[x]]]
           told == InTurn(h, slots, msg, 1)
           orders == [i \in DOMAIN slots |-> <<"ToComputer", slots[i]>>]
           h2 == [told EXCEPT !.session = RetireEach(@, from), !.waiting = @ \ X, !.quiet = @ \ X,
                              !.outbox = @ \o orders]
<1>1. ToComputer(h, slots) = h2
  BY DEF ToComputer
<1>2. \A x \in X : msg[x].type = "Retire" /\ msg[x].slot = x
  OBVIOUS
<1>3. DOMAIN from = X
  OBVIOUS
<1> HIDE DEF msg, from
<1>4. Wired(told) /\ Same(h, told)
  BY InTurnIs
<1> HIDE DEF told
<1>5. /\ h2.session = RetireEach(S, from) /\ h2.waiting = h.waiting \ X
      /\ h2.line = told.line /\ h2.down = told.down
  BY <1>4 DEF Wired, HostFields, Same
<1> HIDE DEF h2
<1>6. \A j \in Joiners \ X : h2.session.retired[j] = S.retired[j]
  <2>1. \A x \in Slots : h2.session.retired[x] = IF x \in X \ {Host} THEN from[x] ELSE S.retired[x]
    BY <1>3, <1>5, RetireSound
  <2>2. QED
    BY <2>1 DEF Joiners
<1>7. \A x \in Joiners : x \in h2.waiting <=> IF x \in Range(slots) THEN "Retire" = "Away" ELSE x \in h.waiting
  BY <1>5
<1>8. "Retire" # "Away" /\ "Retire" \in {"Away", "Back", "Retire"}
  OBVIOUS
<1>9. PICK type : type = "Retire"
  OBVIOUS
<1>10. /\ type \in {"Away", "Back", "Retire"} /\ type # "Away"
       /\ \A x \in Range(slots) : msg[x].type = type /\ msg[x].slot = x
       /\ \A x \in Joiners : x \in h2.waiting <=> IF x \in Range(slots) THEN type = "Away" ELSE x \in h.waiting
       /\ \A j \in Joiners \ Range(slots) : h2.session.retired[j] = None => S.retired[j] = None
  BY <1>2, <1>6, <1>7, <1>8, <1>9
<1>11. h2.down = InTurn(h, slots, msg, 1).down /\ h2.line = InTurn(h, slots, msg, 1).line
  BY <1>5 DEF told
<1>12. Tells(h, h2)
  BY <1>10, <1>11, TellsInTurn
<1>13. QED
  BY <1>1, <1>12

LEMMA TellsTimedOut ==
  ASSUME NEW h, Wired(h), Lists(h), h.waiting \subseteq Joiners,
         Missing(h.session) \subseteq Joiners, IsFiniteSet(Missing(h.session))
  PROVE  Tells(h, TimedOut(h))
<1> DEFINE S == h.session
           missing == Missing(S)
           others == SetToSeq(missing \ h.waiting)
           closed == UNION {SeatedOn(h, x) : x \in missing \cap h.waiting}
           dropped == Disconnect(h, closed)
           msg == [x \in Range(others) |-> SlotMsg("Away", x)]
           told == InTurn(dropped, others, msg, 0)
           h2 == [told EXCEPT !.waiting = @ \union missing, !.quiet = {}]
<1>1. TimedOut(h) = h2
  BY DEF TimedOut
<1>2. PICK rest : rest = missing \ h.waiting
  OBVIOUS
<1>3. /\ IsList(others) /\ Range(others) = missing \ h.waiting
      /\ \A i, k \in DOMAIN others : others[i] = others[k] => i = k
  <2>1. IsFiniteSet(rest) /\ others = SetToSeq(rest)
    BY <1>2, FS_Subset
  <2>2. QED
    BY <1>2, <2>1, Listed
<1> HIDE DEF others
<1>4. Tells(h, dropped) /\ Wired(dropped) /\ Same(h, dropped)
  <2> HIDE DEF closed
  <2>1. QED
    BY TellsDisconnect, DisconnectIs
<1>5. Lists(dropped)
  <2> HIDE DEF closed
  <2>1. \A c \in Conns : dropped.down[c] = IF c \in closed THEN Put(h.down[c], <<Fin>>) ELSE h.down[c]
    BY DisconnectIs
  <2> HIDE DEF dropped
  <2>2. \A c \in Conns : IsList(h.down[c]) /\ IsList(Put(h.down[c], <<Fin>>))
    BY OneMessage, ListConcat DEF Lists, Put
  <2>3. QED
    BY <2>1, <2>2 DEF Lists
<1> HIDE DEF dropped
<1>6. \A x \in Range(others) : msg[x].type = "Away" /\ msg[x].slot = x
  BY DEF SlotMsg
<1> HIDE DEF msg
<1>7. Wired(told) /\ Same(dropped, told)
  BY <1>4, InTurnIs
<1> HIDE DEF told
<1>8. /\ h2.session = S /\ h2.waiting = h.waiting \union missing
      /\ h2.line = told.line /\ h2.down = told.down
  BY <1>4, <1>7 DEF Wired, HostFields, Same
<1> HIDE DEF h2
<1>9. PICK type : type = "Away"
  OBVIOUS
<1>10. dropped.waiting = h.waiting /\ dropped.session = S
  BY <1>4 DEF Same
<1>11. \A x \in Joiners : x \in h2.waiting <=> IF x \in Range(others) THEN type = "Away" ELSE x \in dropped.waiting
  BY <1>3, <1>8, <1>9, <1>10
<1>12. h2.down = InTurn(dropped, others, msg, 0).down /\ h2.line = InTurn(dropped, others, msg, 0).line
  BY <1>8 DEF told
<1>13. /\ \A x \in Range(others) : msg[x].type = type /\ msg[x].slot = x
       /\ type \in {"Away", "Back", "Retire"}
       /\ \A j \in Joiners \ Range(others) : h2.session.retired[j] = None => dropped.session.retired[j] = None
  BY <1>6, <1>8, <1>9, <1>10
<1>14. Tells(dropped, h2)
  BY <1>3, <1>4, <1>5, <1>11, <1>12, <1>13, TellsInTurn
<1>15. Tells(h, h2)
  BY <1>4, <1>14, TellsTrans
<1>16. QED
  BY <1>1, <1>15

\* Messages for one connection, which is no seat's or says nothing of seats.
LEMMA TellsKnock ==
  ASSUME NEW h, Wired(h), Lists(h), NEW c \in Conns
  PROVE  Tells(h, Knock(h, c))
<1> DEFINE why == IF h.session.retired[SlotOf(c)] # None THEN "Retired" ELSE "Started"
           m == [type |-> "NoSeat", why |-> why]
           h1 == Send(h, c, <<m>>)
           h2 == [h EXCEPT !.line[c] = "rejoining"]
<1>1. CASE Knock(h, c) = h2
  <2>1. h2.line = [h.line EXCEPT ![c] = "rejoining"] /\ h2.waiting = h.waiting /\ h2.down = h.down
        /\ h2.session = h.session
    BY DEF Wired, HostFields
  <2> HIDE DEF h2
  <2>2. \A d \in Conns : h2.line[d] = "seated" => h.line[d] = "seated" /\ h2.down[d] = h.down[d]
    BY <2>1 DEF Wired
  <2>3. \A j \in Joiners : h2.session.retired[j] = None => h.session.retired[j] = None
    BY <2>1
  <2>4. Tells(h, h2)
    BY <2>1, <2>2, <2>3, TellsMute
  <2>5. QED
    BY <1>1, <2>4
<1>2. CASE Knock(h, c) = Disconnect(h1, {c})
  <2>1. Mute(m)
    BY DEF Mute
  <2> HIDE DEF m
  <2>2. PICK ms : ms = <<m>>
    OBVIOUS
  <2>3. IsList(ms) /\ \A i \in DOMAIN ms : Mute(ms[i])
    BY <2>1, <2>2, PutMute
  <2>4. /\ DOMAIN h1 = HostFields /\ h1.down = [h.down EXCEPT ![c] = Put(@, ms)]
        /\ h1.line = h.line /\ h1.up = h.up /\ h1.session = h.session /\ h1.waiting = h.waiting
    BY <2>2 DEF Send, Wired, HostFields
  <2> HIDE DEF h1
  <2>5. /\ DOMAIN h1.down = Conns /\ h1.down[c] = Put(h.down[c], ms)
        /\ \A d \in Conns \ {c} : h1.down[d] = h.down[d]
    BY <2>4 DEF Wired
  <2>6. Wired(h1)
    BY <2>4, <2>5 DEF Wired
  <2>7. Lists(h1)
    <3>1. IsList(h1.down[c])
      BY <2>3, <2>5, ListConcat DEF Lists, Put
    <3>2. QED
      BY <2>5, <3>1 DEF Lists
  <2>8. \A d \in Conns : h1.down[d] = h.down[d] \/ h1.down[d] = Put(h.down[d], ms)
    BY <2>5
  <2>a. \A j \in Joiners : h1.session.retired[j] = None => h.session.retired[j] = None
    BY <2>4
  <2>b. \A d \in Conns : h1.line[d] = "seated" =>
          /\ h.line[d] = "seated"
          /\ \/ h1.down[d] = h.down[d]
             \/ \E ns : /\ IsList(ns) /\ \A i \in DOMAIN ns : Mute(ns[i])
                        /\ h1.down[d] = Put(h.down[d], ns)
    BY <2>3, <2>4, <2>8
  <2>9. Tells(h, h1)
    <3>1. h1.waiting = h.waiting
      BY <2>4
    <3>2. QED
      BY <2>a, <2>b, <3>1, TellsMute
  <2>10. PICK conns : conns = {c}
    OBVIOUS
  <2>11. Tells(h1, Disconnect(h1, conns))
    BY <2>6, <2>7, TellsDisconnect
  <2>12. Tells(h, Disconnect(h1, conns))
    BY <2>9, <2>11, TellsTrans
  <2>13. QED
    BY <1>2, <2>10, <2>12
<1>3. QED
  BY <1>1, <1>2 DEF Knock

LEMMA TellsControl ==
  ASSUME NEW h, Wired(h), Lists(h), Sound(h.session, Host), NEW plays,
         h.waiting \subseteq Joiners, h.quiet \subseteq Joiners
  PROVE  Tells(h, Control(h, plays))
<1>1. CASE ~plays
  <2>1. Control(h, plays) = h
    BY <1>1 DEF Control
  <2>2. Tells(h, h)
    BY TellsMute
  <2>3. QED
    BY <2>1, <2>2
<1>2. CASE plays
  <2>1. PICK a, b : a = SetToSeq(h.waiting) /\ b = SetToSeq(h.quiet)
    OBVIOUS
  <2>2. IsFiniteSet(h.waiting) /\ IsFiniteSet(h.quiet)
    <3>1. IsFiniteSet(Joiners)
      BY SessionAssumption, FS_Subset DEF Joiners
    <3>2. QED
      BY <3>1, FS_Subset
  <2>3. IsList(a) /\ Range(a) = h.waiting /\ IsList(b) /\ Range(b) = h.quiet
    BY <2>1, <2>2, Listed
  <2>4. PICK ab : ab = a \o b
    OBVIOUS
  <2>5. /\ IsList(ab)
        /\ \A i \in DOMAIN ab :
             \/ i \in DOMAIN a /\ ab[i] = a[i]
             \/ i > Len(a) /\ i - Len(a) \in DOMAIN b /\ ab[i] = b[i - Len(a)]
    BY <2>3, <2>4, ListConcat
  <2>6. Range(ab) \subseteq Joiners
    <3>1. ASSUME NEW i \in DOMAIN ab PROVE ab[i] \in Joiners
      <4>1. ab[i] \in Range(a) \union Range(b)
        BY <2>5 DEF Range
      <4>2. QED
        BY <2>3, <4>1
    <3>2. QED
      BY <3>1 DEF Range
  <2>7. Tells(h, ToComputer(h, ab))
    BY <2>5, <2>6, TellsToComputer
  <2>8. Control(h, plays) = ToComputer(h, ab)
    BY <1>2, <2>1, <2>4 DEF Control
  <2>9. QED
    BY <2>7, <2>8
<1>3. QED
  BY <1>1, <1>2

LEMMA TellsStage ==
  ASSUME NEW h, Wired(h), Lists(h), DOMAIN h.session = Fields, NEW orders
  PROVE  Tells(h, Stage(h, orders))
<1> DEFINE S2 == [h.session EXCEPT !.staged = @ \o h.outbox \o orders]
           h2 == [h EXCEPT !.session = S2, !.outbox = <<>>]
<1>1. Stage(h, orders) = h2
  BY DEF Stage
<1>2. S2.retired = h.session.retired
  BY DEF Fields
<1> HIDE DEF S2
<1>3. h2.session = S2 /\ h2.waiting = h.waiting /\ h2.line = h.line /\ h2.down = h.down
  BY DEF Wired, HostFields
<1> HIDE DEF h2
<1>4. Tells(h, h2)
  BY <1>2, <1>3, TellsMute
<1>5. QED
  BY <1>1, <1>4

LEMMA TellsHeard ==
  ASSUME NEW h, Wired(h), Lists(h), Sound(h.session, Host), NEW c, NEW p
  PROVE  Tells(h, FromJoiner(h, c, p))
<1>1. Tells(h, h)
  BY TellsMute
<1>2. PICK why : why = "Protocol"
  OBVIOUS
<1>3. Tells(h, Stop(h, why))
  BY TellsStop
<1> DEFINE S == Receive(h.session, p)
           m == TickMsg(p)
<1>4. S.retired = h.session.retired
  BY ReceiveFields DEF Sound
<1>5. Mute(m)
  BY DEF Mute, TickMsg
<1>6. [h EXCEPT !.session = Receive(@, p)] = [h EXCEPT !.session = S]
  OBVIOUS
<1> HIDE DEF S, m
<1>7. Tells(h, SendBut([h EXCEPT !.session = S], c, m))
  BY <1>4, <1>5, TellsSpeak
<1>8. Tells(h, SendBut([h EXCEPT !.session = Receive(@, p)], c, TickMsg(p)))
  BY <1>6, <1>7 DEF m
<1>9. QED
  BY <1>1, <1>2, <1>3, <1>8 DEF FromJoiner

(***************************************************************************)
(* Whoever has knocked is told whom to wait for.                           *)
(***************************************************************************)
LEMMA ListAssociative ==
  ASSUME NEW p, IsList(p), NEW q, IsList(q), NEW r, IsList(r), NEW pq, pq = p \o q, NEW qr, qr = q \o r
  PROVE  pq \o r = p \o qr
<1>1. PICK T, U, V : p \in Seq(T) /\ q \in Seq(U) /\ r \in Seq(V)
  BY DEF IsList
<1> DEFINE W == T \union U \union V
<1>2. p \in Seq(W) /\ q \in Seq(W) /\ r \in Seq(W)
  BY <1>1, SeqMonotonic
<1> HIDE DEF W
<1>3. QED
  BY <1>2, ConcatAssociative

\* Messages that name one slot each, to the same effect.
LEMMA SlottedHears ==
  ASSUME NEW waits, NEW waits2, NEW j, NEW slots, IsList(slots), NEW type \in {"Away", "Back"},
         type = "Away" => \A i, k \in DOMAIN slots : slots[i] = slots[k] => i = k,
         \A x \in Joiners : x \in waits2 \ {j} <=>
           IF x \in Range(slots) THEN type = "Away" ELSE x \in waits \ {j}
  PROVE  Hears(waits, waits2, j, Slotted(type, slots))
<1>1. PICK ms : ms = Slotted(type, slots)
  OBVIOUS
<1>2. Len(slots) \in Nat /\ DOMAIN slots = 1 .. Len(slots)
  BY ListDomain
<1>3. ms = [i \in 1 .. Len(slots) |-> SlotMsg(type, slots[i])]
  BY <1>1, <1>2 DEF Slotted
<1>4. IsList(ms) /\ Len(ms) = Len(slots)
  BY <1>2, <1>3, ListOf
<1>5. \A i \in DOMAIN slots : ms[i].type = type /\ ms[i].slot = slots[i]
  BY <1>2, <1>3 DEF SlotMsg
<1>6. type \in {"Away", "Back", "Retire"}
  OBVIOUS
<1>7. Hears(waits, waits2, j, ms)
  BY <1>4, <1>5, <1>6, HearsAll
<1>8. QED
  BY <1>1, <1>7

\* The connections seated up to the i-th and after it are all of them.
LEMMA SeatsSplit ==
  ASSUME NEW conns, IsList(conns), NEW i \in DOMAIN conns
  PROVE  /\ IsList(SeatsOf(SubSeq(conns, i + 1, Len(conns))))
         /\ SlotOf(conns[i]) \in Range(SubSeq(SeatsOf(conns), 1, i))
         /\ Range(SubSeq(SeatsOf(conns), 1, i))
              \union Range(SeatsOf(SubSeq(conns, i + 1, Len(conns)))) = Range(SeatsOf(conns))
<1> DEFINE n == Len(conns)
           q == SeatsOf(conns)
           front == SubSeq(q, 1, i)
           rest == SubSeq(conns, i + 1, n)
           back == SeatsOf(rest)
<1>1. n \in Nat /\ DOMAIN conns = 1 .. n /\ i \in 1 .. n
  BY ListDomain
<1>2. q = [k \in 1 .. n |-> SlotOf(conns[k])]
  BY <1>1 DEF SeatsOf
<1> HIDE DEF q
<1>3. front = [k \in 1 .. i |-> q[k]]
  BY <1>1
<1>4. rest = [k \in 1 .. (n - i) |-> conns[k + i]]
  BY <1>1
<1> HIDE DEF front, rest
<1>5. n - i \in Nat /\ DOMAIN rest = 1 .. (n - i)
  BY <1>1, <1>4
<1>6. back = [k \in 1 .. (n - i) |-> SlotOf(conns[k + i])]
  BY <1>4, <1>5 DEF SeatsOf
<1> HIDE DEF back
<1>7. IsList(back)
  <2>1. back = [k \in 1 .. (n - i) |-> back[k]]
    BY <1>6
  <2>2. QED
    BY <1>5, <2>1, ListOf
<1>8. i \in 1 .. i /\ front[i] = SlotOf(conns[i])
  BY <1>1, <1>2, <1>3
<1>9. ASSUME NEW x PROVE x \in Range(front) \union Range(back) <=> x \in Range(q)
  <2>1. ASSUME x \in Range(front) PROVE x \in Range(q)
    BY <1>1, <1>2, <1>3, <2>1 DEF Range
  <2>2. ASSUME x \in Range(back) PROVE x \in Range(q)
    <3>1. PICK k \in 1 .. (n - i) : x = SlotOf(conns[k + i])
      BY <1>6, <2>2 DEF Range
    <3>2. k + i \in 1 .. n
      BY <1>1
    <3>3. QED
      BY <1>2, <3>1, <3>2 DEF Range
  <2>3. ASSUME x \in Range(q) PROVE x \in Range(front) \union Range(back)
    <3>1. PICK k \in 1 .. n : x = SlotOf(conns[k])
      BY <1>2, <2>3 DEF Range
    <3>2. CASE k <= i
      <4>1. k \in 1 .. i /\ front[k] = x
        BY <1>1, <1>2, <1>3, <3>1, <3>2
      <4>2. QED
        BY <1>3, <4>1 DEF Range
    <3>3. CASE k > i
      <4>1. k - i \in 1 .. (n - i) /\ k = (k - i) + i
        BY <1>1, <3>3
      <4>2. back[k - i] = x
        BY <1>6, <3>1, <4>1
      <4>3. QED
        BY <1>6, <4>1, <4>2 DEF Range
    <3>4. QED
      BY <1>1, <3>2, <3>3
  <2>4. QED
    BY <2>1, <2>2, <2>3
<1>10. SlotOf(conns[i]) \in Range(front)
  BY <1>3, <1>8 DEF Range
<1>11. Range(front) \union Range(back) = Range(q)
  BY <1>9
<1>12. QED
  BY <1>7, <1>10, <1>11 DEF q, front, rest, back

LEMMA WelcomeTold ==
  ASSUME NEW h, Sound(h.session, Host), h.waiting \subseteq Joiners,
         NEW conns, IsList(conns), NEW i \in DOMAIN conns, NEW j, j = SlotOf(conns[i]),
         NEW waits2, waits2 = h.waiting \ Range(SeatsOf(conns)),
         NEW q, IsList(q), \A k \in DOMAIN q : q[k].type # "Rejoin",
         NEW p, p = q \o Welcome(h, conns, i)
  PROVE  Answered(waits2, j, {}, p)
<1> DEFINE S == h.session
           m == [type |-> "Rejoin", next |-> S.tick, world |-> world[Host], retired |-> S.retired]
           ticks == Unsimulated(S, SlotOf(conns[i]))
           a == <<m>>
           b == [k \in DOMAIN ticks |-> TickMsg(ticks[k])]
           seated == Range(SubSeq(SeatsOf(conns), 1, i))
           away == SetToSeq(h.waiting \ seated)
           rest == SubSeq(conns, i + 1, Len(conns))
           none == {}
<1>1. Welcome(h, conns, i) = a \o b \o Slotted("Away", away) \o Back(rest)
  BY DEF Welcome
<1>2. IsList(a) /\ DOMAIN a = {1} /\ Len(a) = 1
  <2> HIDE DEF m
  <2>1. QED
    BY OneMessage
<1>3. IsList(b) /\ \A k \in DOMAIN b : Mute(b[k])
  <2>1. IsList(ticks)
    BY UnsimulatedAll
  <2> HIDE DEF ticks
  <2>2. Len(ticks) \in Nat /\ DOMAIN ticks = 1 .. Len(ticks)
    BY <2>1, ListDomain
  <2>3. b = [k \in 1 .. Len(ticks) |-> b[k]] /\ DOMAIN b = DOMAIN ticks
        /\ \A k \in DOMAIN ticks : b[k] = TickMsg(ticks[k])
    BY <2>2
  <2> HIDE DEF b
  <2>4. IsList(b)
    BY <2>2, <2>3, ListOf
  <2>5. ASSUME NEW k \in DOMAIN b PROVE Mute(b[k])
    <3>1. b[k] = TickMsg(ticks[k])
      BY <2>3, Zenon
    <3>2. b[k].type = "Tick"
      BY <3>1 DEF TickMsg
    <3>3. QED
      BY <3>2 DEF Mute
  <2>6. QED
    BY <2>4, <2>5
<1>4. /\ IsList(SeatsOf(rest)) /\ j \in seated
      /\ seated \union Range(SeatsOf(rest)) = Range(SeatsOf(conns))
  BY SeatsSplit
<1> HIDE DEF a, b, rest, seated
<1>5. /\ IsList(away) /\ Range(away) = h.waiting \ seated
      /\ \A k, l \in DOMAIN away : away[k] = away[l] => k = l
  <2>1. PICK X : X = h.waiting \ seated
    OBVIOUS
  <2>2. IsFiniteSet(Joiners)
    BY SessionAssumption, FS_Subset DEF Joiners
  <2>3. IsFiniteSet(X)
    BY <2>1, <2>2, FS_Subset
  <2>4. away = SetToSeq(X)
    BY <2>1
  <2> HIDE DEF away
  <2>5. QED
    BY <2>1, <2>3, <2>4, Listed
<1> HIDE DEF away
<1>6. Hears(none, none, j, b)
  BY <1>3, MuteHears
<1>7. PICK waits1 : waits1 = h.waiting \ seated
  OBVIOUS
<1>8. Hears(none, waits1, j, Slotted("Away", away))
  <2>1. PICK type : type = "Away"
    OBVIOUS
  <2>2. \A x \in Joiners : x \in waits1 \ {j} <=>
          IF x \in Range(away) THEN type = "Away" ELSE x \in none \ {j}
    BY <1>4, <1>5, <1>7, <2>1
  <2> HIDE DEF none
  <2>3. Hears(none, waits1, j, Slotted(type, away))
    BY <1>5, <2>1, <2>2, SlottedHears
  <2>4. QED
    BY <2>1, <2>3
<1>9. Hears(waits1, waits2, j, Back(rest))
  <2>1. PICK type : type = "Back"
    OBVIOUS
  <2>2. \A x \in Joiners : x \in waits2 \ {j} <=>
          IF x \in Range(SeatsOf(rest)) THEN type = "Away" ELSE x \in waits1 \ {j}
    BY <1>4, <1>7, <2>1
  <2>3. type # "Away" /\ type \in {"Away", "Back"}
    BY <2>1
  <2>4. Hears(waits1, waits2, j, Slotted(type, SeatsOf(rest)))
    BY <1>4, <2>2, <2>3, SlottedHears
  <2>5. QED
    BY <2>1, <2>4 DEF Back
<1>10. PICK aw, bk : aw = Slotted("Away", away) /\ bk = Back(rest)
  OBVIOUS
<1>11. IsList(aw) /\ IsList(bk) /\ IsList(b) /\ IsList(a)
  BY <1>2, <1>3, <1>8, <1>9, <1>10 DEF Hears
<1>12. PICK q1 : q1 = q \o a
  OBVIOUS
<1>13. PICK q2 : q2 = q1 \o b
  OBVIOUS
<1>14. PICK q3 : q3 = q2 \o aw
  OBVIOUS
<1>15. IsList(q1) /\ IsList(q2) /\ IsList(q3)
  BY <1>11, <1>12, <1>13, <1>14, ListConcat
<1>16. p = q3 \o bk
  <2>1. PICK ab : ab = a \o b
    OBVIOUS
  <2>2. PICK abc : abc = ab \o aw
    OBVIOUS
  <2>3. IsList(ab) /\ IsList(abc)
    BY <1>11, <2>1, <2>2, ListConcat
  <2>4. PICK wel : wel = abc \o bk
    OBVIOUS
  <2>5. p = q \o wel
    BY <1>1, <1>10, <2>1, <2>2, <2>4
  <2>6. q2 = q \o ab
    BY <1>11, <1>12, <1>13, <2>1, ListAssociative
  <2>7. q3 = q \o abc
    BY <1>11, <1>14, <2>2, <2>3, <2>6, ListAssociative
  <2>8. q3 \o bk = q \o wel
    BY <1>11, <2>3, <2>4, <2>7, ListAssociative
  <2>9. QED
    BY <2>5, <2>8
<1>17. Answered(none, j, none, q1)
  <2>1. SUFFICES ASSUME NEW r \in DOMAIN q1, q1[r].type = "Rejoin" PROVE Told(none, j, none, q1, r)
    BY DEF Answered
  <2>2. \/ r \in DOMAIN q /\ q1[r] = q[r]
        \/ r > Len(q) /\ r - Len(q) \in DOMAIN a /\ q1[r] = a[r - Len(q)]
    BY <1>11, <1>12, <2>1, ListConcat
  <2>3. r - Len(q) = 1 /\ r > Len(q)
    BY <1>2, <2>1, <2>2
  <2>4. Len(q1) = Len(q) + 1 /\ Len(q) \in Nat /\ DOMAIN q1 = 1 .. Len(q1) /\ Len(q1) \in Nat
    BY <1>2, <1>11, <1>12, <1>15, ListConcat, ListDomain
  <2>5. r \in Nat /\ r = Len(q1)
    BY <2>3, <2>4
  <2>6. \A k \in DOMAIN q1 : ~(k > r)
    BY <2>4, <2>5
  <2>7. QED
    BY <2>6 DEF Told, WaitsFor
<1> HIDE DEF none
<1>18. Answered(none, j, none, q2)
  BY <1>6, <1>13, <1>15, <1>17, AnsweredBehind
<1>19. Answered(waits1, j, none, q3)
  BY <1>8, <1>10, <1>14, <1>15, <1>18, AnsweredBehind
<1>20. Answered(waits2, j, none, p)
  BY <1>9, <1>10, <1>15, <1>16, <1>19, AnsweredBehind
<1>21. QED
  BY <1>20 DEF none

LEMMA SeatLists ==
  ASSUME NEW h, NEW w, NEW J, GameOK(h, w, J),
         NEW conns, IsList(conns), Range(conns) \subseteq Conns,
         \A c \in Range(conns) : h.line[c] = "rejoining",
         NEW j \in Joiners, NEW c, c = Cur(j, J[j]), NEW list, ListOK(h, j, J[j].phase, c, list)
  PROVE  ListOK(Seat(h, conns), j, J[j].phase, c, list)
<1> DEFINE h2 == Seat(h, conns)
           slots == SeatsOf(conns)
           why == J[j].phase
<1>1. /\ Wired(h) /\ Lists(h) /\ Sound(h.session, Host) /\ h.waiting \subseteq Joiners
      /\ SeatOK(h, w, j, J[j])
  BY GameLists DEF GameOK
<1>2. c \in ConnsOf(j) /\ c \in Conns /\ SlotOf(c) = j
  <2>1. c \in ConnsOf(j)
    BY <1>1, CurConn DEF SeatOK, AlwaysOK
  <2>2. QED
    BY <2>1 DEF ConnsOf
<1>3. IsList(h.down[c])
  BY <1>1, <1>2 DEF Lists
<1>4. /\ h2.session = h.session /\ h2.waiting = h.waiting \ Range(slots)
      /\ c \in Range(conns) =>
           \E i \in DOMAIN conns : conns[i] = c /\ h2.down[c] = Put(h.down[c], Welcome(h, conns, i))
      /\ c \notin Range(conns) =>
           /\ h2.line[c] = h.line[c]
           /\ h2.down[c] = IF IsSeated(h, c) THEN Put(h.down[c], Back(conns)) ELSE h.down[c]
  BY <1>1, <1>2, SeatIs
<1> HIDE DEF h2
<1>5. ASSUME c \in Range(conns) PROVE ListOK(h2, j, why, c, list)
  <2>1. h.line[c] = "rejoining"
    BY <1>5
  <2>2. ~InPlay(h, j, J[j])
    BY <1>1, <2>1 DEF SeatOK
  <2>3. SUFFICES ASSUME Listens(h2, j, c), why = "knocking"
                 PROVE  Answered(h2.waiting, j, list, h2.down[c])
    BY <2>2 DEF ListOK, InPlay, Listens
  <2>4. \A k \in DOMAIN h.down[c] : h.down[c][k].type # "Rejoin"
    BY <2>2, <2>3 DEF InPlay, Rejoining
  <2>5. PICK i \in DOMAIN conns : conns[i] = c /\ h2.down[c] = Put(h.down[c], Welcome(h, conns, i))
    BY <1>4, <1>5
  <2>6. h2.down[c] = h.down[c] \o Welcome(h, conns, i)
    BY <2>3, <2>5 DEF Put, Listens
  <2>7. PICK q, p : q = h.down[c] /\ p = h2.down[c]
    OBVIOUS
  <2>8. j = SlotOf(conns[i]) /\ h2.waiting = h.waiting \ Range(SeatsOf(conns))
    BY <1>2, <1>4, <2>5
  <2>9. Answered(h2.waiting, j, {}, p)
    BY <1>1, <1>3, <2>4, <2>6, <2>7, <2>8, WelcomeTold
  <2>10. list = {}
    BY <2>3 DEF ListOK
  <2>11. QED
    BY <2>7, <2>9, <2>10
<1>6. ASSUME c \notin Range(conns) PROVE ListOK(h2, j, why, c, list)
  <2>1. PICK type : type = "Back"
    OBVIOUS
  <2>2. IsList(slots)
    BY SeatsAre
  <2> HIDE DEF slots
  <2>3. type \in {"Away", "Back"} /\ type # "Away"
    BY <2>1
  <2>4. \A x \in Joiners : x \in h2.waiting \ {j} <=>
          IF x \in Range(slots) THEN type = "Away" ELSE x \in h.waiting \ {j}
    BY <1>4, <2>1
  <2>5. Hears(h.waiting, h2.waiting, j, Slotted(type, slots))
    BY <2>2, <2>3, <2>4, SlottedHears
  <2>6. Hears(h.waiting, h2.waiting, j, Back(conns))
    BY <2>1, <2>5 DEF Back, slots
  <2>7. ASSUME Listens(h2, j, c)
        PROVE  /\ Listens(h, j, c)
               /\ \E ms : h2.down[c] = h.down[c] \o ms /\ Hears(h.waiting, h2.waiting, j, ms)
    <3>1. h.line[c] = "seated" /\ h.session.retired[j] = None
      BY <1>4, <1>6, <2>7 DEF Listens
    <3>2. h2.down[c] = Put(h.down[c], Back(conns))
      BY <1>4, <1>6, <3>1 DEF IsSeated
    <3>3. QED
      BY <2>6, <2>7, <3>1, <3>2, PutHears
  <2> HIDE DEF why
  <2>8. ListOK(h, j, why, c, list)
    BY DEF why
  <2>9. QED
    BY <1>3, <2>7, <2>8, ListKept
<1>7. QED
  BY <1>5, <1>6 DEF h2, why

LEMMA AdmitLists ==
  ASSUME NEW h, NEW w, NEW J, GameOK(h, w, J),
         NEW j \in Joiners, NEW c, c = Cur(j, J[j]), NEW list, ListOK(h, j, J[j].phase, c, list)
  PROVE  ListOK(Admit(h), j, J[j].phase, c, list)
<1> DEFINE ready == {d \in Conns : /\ h.line[d] = "rejoining"
                                   /\ FirstMissing(h.session, SlotOf(d)) = h.session.tick}
<1>1. CASE h.session.barrier # None
  BY <1>1 DEF Admit
<1>2. CASE h.session.barrier = None
  <2>1. Admit(h) = Seat(h, SetToSeq(ready))
    BY <1>2 DEF Admit
  <2>2. PICK R : R = ready
    OBVIOUS
  <2>3. IsFiniteSet(R) /\ R \subseteq Conns /\ \A d \in R : h.line[d] = "rejoining"
    BY <2>2, ConnsFinite, FS_Subset
  <2>4. PICK conns : conns = SetToSeq(R)
    OBVIOUS
  <2>5. IsList(conns) /\ Range(conns) = R
    BY <2>3, <2>4, Listed
  <2>6. ListOK(Seat(h, conns), j, J[j].phase, c, list)
    BY <2>3, <2>5, SeatLists
  <2>7. QED
    BY <2>1, <2>2, <2>4, <2>6
<1>3. QED
  BY <1>1, <1>2

(***************************************************************************)
(* The lists, and the steps of the host.                                   *)
(***************************************************************************)
LEMMA ListLike ==
  ASSUME NEW h, NEW h2, h2.session = h.session, h2.waiting = h.waiting, h2.line = h.line, h2.down = h.down,
         NEW j, NEW why, NEW c, NEW list, ListOK(h, j, why, c, list)
  PROVE  ListOK(h2, j, why, c, list)
BY DEF ListOK

LEMMA ConnIs ==
  ASSUME Shape, NEW j \in Joiners
  PROVE  ConnOf(j) \in ConnsOf(j) /\ ConnOf(j) \in Conns /\ ConnOf(j) = Cur(j, JoinerStates[j])
<1>1. conn[j] \in 0 .. MaxConn
  BY DEF Shape
<1>2. <<j, conn[j]>> \in Conns /\ SlotOf(<<j, conn[j]>>) = j
  BY <1>1 DEF Conns, SlotOf
<1>3. JoinerStates[j].conn = conn[j]
  BY JoinerStateIs
<1>4. QED
  BY <1>2, <1>3 DEF ConnOf, ConnsOf, Cur

LEMMA HostLists ==
  ASSUME Shape, NEW h, Becomes(h), UNCHANGED <<phase, conn>>,
         \A j \in Joiners : ListOK(h, j, phase[j], ConnOf(j), waiting[j])
  PROVE  ListsOK'
<1>1. Host \in Slots /\ \A j \in Joiners : j \in Slots /\ j # Host
  BY LiveAssumption DEF Joiners
<1>2. /\ session' = [session EXCEPT ![Host] = h.session]
      /\ waiting' = [waiting EXCEPT ![Host] = h.waiting]
      /\ line' = h.line /\ down' = h.down
  BY DEF Becomes
<1>3. /\ session'[Host] = h.session /\ waiting'[Host] = h.waiting
      /\ \A j \in Joiners : waiting'[j] = waiting[j]
  BY <1>1, <1>2 DEF Shape
<1> DEFINE h2 == HostState'
<1>4. h2.session = h.session /\ h2.waiting = h.waiting /\ h2.line = h.line /\ h2.down = h.down
  BY <1>2, <1>3, NextStates
<1> HIDE DEF h2
<1>5. ASSUME NEW j \in Joiners PROVE ListOK(h2, j, phase'[j], ConnOf(j)', waiting'[j])
  <2>1. phase'[j] = phase[j] /\ ConnOf(j)' = ConnOf(j) /\ waiting'[j] = waiting[j]
    BY <1>3 DEF ConnOf
  <2>2. ListOK(h, j, phase[j], ConnOf(j), waiting[j])
    OBVIOUS
  <2>3. PICK why, c, list : why = phase[j] /\ c = ConnOf(j) /\ list = waiting[j]
    OBVIOUS
  <2>4. ListOK(h2, j, why, c, list)
    BY <1>4, <2>2, <2>3, ListLike
  <2>5. QED
    BY <2>1, <2>3, <2>4
<1>6. QED
  BY <1>5 DEF ListsOK, h2

\* A step that tells the seats what changes for them.
LEMMA HostTells ==
  ASSUME LiveInv, ListsOK, NEW h, Becomes(h), Tells(HostState, h), UNCHANGED <<phase, conn>>
  PROVE  ListsOK'
<1>1. Shape /\ Lists(HostState)
  BY GameLists DEF LiveInv
<1>2. ASSUME NEW j \in Joiners PROVE ListOK(h, j, phase[j], ConnOf(j), waiting[j])
  <2>1. ListOK(HostState, j, phase[j], ConnOf(j), waiting[j]) /\ ConnOf(j) \in ConnsOf(j)
    BY <1>1, ConnIs DEF ListsOK
  <2>2. PICK g, why, c, list : g = HostState /\ why = phase[j] /\ c = ConnOf(j) /\ list = waiting[j]
    OBVIOUS
  <2>3. ListOK(h, j, why, c, list)
    BY <1>1, <2>1, <2>2, TellsKept
  <2>4. QED
    BY <2>2, <2>3
<1>3. QED
  BY <1>1, <1>2, HostLists

LEMMA HostIs ==
  ASSUME LiveInv
  PROVE  /\ Shape /\ GameOK(HostState, world[Host], JoinerStates)
         /\ Wired(HostState) /\ Lists(HostState) /\ Sound(HostState.session, Host)
         /\ HostOK(HostState.session, world[Host])
         /\ HostState.waiting \subseteq Joiners /\ HostState.quiet \subseteq Joiners
         /\ HostState.session = session[Host] /\ HostState.line = line
<1>1. GameOK(HostState, world[Host], JoinerStates) /\ Shape
  BY DEF LiveInv
<1>2. QED
  BY <1>1, GameLists, HostStateIs DEF GameOK

LEMMA ListsSeal == LiveInv /\ ListsOK /\ HostSeal => ListsOK'
<1> HAVE LiveInv /\ ListsOK /\ HostSeal
<1> DEFINE h == HostState
           S == Seal(h.session)
           m == TickMsg(Packet(session[Host]))
<1>1. Wired(h) /\ Lists(h) /\ Sound(h.session, Host)
  BY HostIs
<1>2. Becomes(SendAll([h EXCEPT !.session = S], m)) /\ UNCHANGED <<phase, conn>>
  BY DEF HostSeal
<1>3. Mute(m)
  BY DEF Mute, TickMsg
<1> HIDE DEF h
<1>4. S.retired = h.session.retired
  BY <1>1, SealSound
<1> HIDE DEF S, m
<1>5. Tells(h, SendBut([h EXCEPT !.session = S], Nobody, m))
  BY <1>1, <1>3, <1>4, TellsSpeak
<1>6. QED
  BY <1>2, <1>5, HostTells DEF SendAll, h

LEMMA ListsResync == LiveInv /\ ListsOK /\ HostResync => ListsOK'
<1> HAVE LiveInv /\ ListsOK /\ HostResync
<1> DEFINE h == HostState
           S == ResyncSent(h.session)
           m == [type |-> "Resync", tick |-> session[Host].barrier, world |-> world[Host]]
<1>1. Wired(h) /\ Lists(h) /\ Sound(h.session, Host)
  BY HostIs
<1>2. Becomes(SendAll([h EXCEPT !.session = S], m)) /\ UNCHANGED <<phase, conn>>
  BY DEF HostResync
<1>3. Mute(m)
  BY DEF Mute
<1> HIDE DEF h
<1>4. S.retired = h.session.retired
  <2>1. Alike(h.session, S)
    BY <1>1, ResyncFields DEF Sound
  <2>2. QED
    BY <2>1 DEF Alike
<1> HIDE DEF S, m
<1>5. Tells(h, SendBut([h EXCEPT !.session = S], Nobody, m))
  BY <1>1, <1>3, <1>4, TellsSpeak
<1>6. QED
  BY <1>2, <1>5, HostTells DEF SendAll, h

LEMMA ListsAccept == LiveInv /\ ListsOK /\ HostAccept => ListsOK'
<1> HAVE LiveInv /\ ListsOK /\ HostAccept
<1>1. Tells(HostState, Polled(HostState))
  BY HostIs, TellsPolled
<1>2. Becomes(Polled(HostState)) /\ UNCHANGED <<phase, conn>>
  BY DEF HostAccept
<1>3. QED
  BY <1>1, <1>2, HostTells

LEMMA ListsAdvance == LiveInv /\ ListsOK /\ HostAdvance => ListsOK'
<1> HAVE LiveInv /\ ListsOK /\ HostAdvance
<1> DEFINE h == HostState
           a == Advance(session[Host], world[Host])
           h1 == [h EXCEPT !.session = a.session, !.quiet = {}]
<1>1. /\ GameOK(h, world[Host], JoinerStates) /\ h.session = session[Host]
      /\ Wired(h) /\ Lists(h) /\ Sound(h.session, Host)
  BY HostIs
<1>2. Ready(h.session) /\ h.session.tick < MaxTick
  BY <1>1 DEF HostAdvance
<1>3. Becomes(Diverged(h1)) /\ UNCHANGED <<phase, conn>>
  BY DEF HostAdvance
<1> HIDE DEF h
<1>4. a = Advance(h.session, world[Host])
  BY <1>1
<1>5. Missing(h.session) = {}
  BY <1>2 DEF Ready
<1> HIDE DEF a
<1>6. a.session.retired = h.session.retired
  BY <1>1, <1>4, <1>5, AdvanceSound
<1>7. GameOK(h1, a.world, JoinerStates)
  BY <1>1, <1>2, <1>4, HostAdvanceKept
<1>8. h1.session = a.session /\ h1.waiting = h.waiting /\ h1.line = h.line /\ h1.down = h.down
  BY <1>1 DEF Wired, HostFields
<1> HIDE DEF h1
<1>9. Tells(h, h1)
  BY <1>1, <1>6, <1>8, TellsMute
<1>10. Tells(h1, Diverged(h1))
  BY <1>7, GameLists, TellsDiverged
<1>11. Tells(h, Diverged(h1))
  BY <1>1, <1>9, <1>10, TellsTrans
<1>12. QED
  BY <1>3, <1>11, HostTells DEF h

LEMMA ListsQuiet == LiveInv /\ ListsOK /\ HostQuiet => ListsOK'
<1> HAVE LiveInv /\ ListsOK /\ HostQuiet
<1> DEFINE h == HostState
           h2 == HostState'
<1>1. UNCHANGED <<session, waiting, line, down, phase, conn>>
  BY DEF HostQuiet
<1>2. h2.session = h.session /\ h2.waiting = h.waiting /\ h2.line = h.line /\ h2.down = h.down
  BY <1>1, HostStateIs, NextStates
<1>3. \A j \in Joiners : ListOK(h, j, phase[j], ConnOf(j), waiting[j])
  BY DEF ListsOK
<1> HIDE DEF h, h2
<1>4. \A j \in Joiners : ListOK(h2, j, phase[j], ConnOf(j), waiting[j])
  BY <1>2, <1>3 DEF ListOK
<1>5. \A j \in Joiners : phase'[j] = phase[j] /\ ConnOf(j)' = ConnOf(j) /\ waiting'[j] = waiting[j]
  BY <1>1 DEF ConnOf
<1>6. QED
  BY <1>4, <1>5 DEF ListsOK, h2

LEMMA ListsTimeout == LiveInv /\ ListsOK /\ HostTimeout => ListsOK'
<1> HAVE LiveInv /\ ListsOK /\ HostTimeout
<1>1. HostState.session.halt = Running /\ ~CanSeal(HostState.session)
  BY HostIs DEF HostTimeout, Polls, Pumps
<1>2. Missing(HostState.session) \subseteq Joiners /\ IsFiniteSet(Missing(HostState.session))
  BY <1>1, HostIs, MissingAreJoiners
<1>3. Tells(HostState, TimedOut(HostState))
  BY <1>2, HostIs, TellsTimedOut
<1>4. Becomes(TimedOut(HostState)) /\ UNCHANGED <<phase, conn>>
  BY DEF HostTimeout
<1>5. QED
  BY <1>3, <1>4, HostTells

LEMMA ListsLeave == LiveInv /\ ListsOK /\ HostLeaves => ListsOK'
<1> HAVE LiveInv /\ ListsOK /\ HostLeaves
<1>1. Tells(HostState, Stop(HostState, "Ended"))
  BY HostIs, TellsStop
<1>2. Becomes(Stop(HostState, "Ended")) /\ UNCHANGED <<phase, conn>>
  BY DEF HostLeaves
<1>3. QED
  BY <1>1, <1>2, HostTells

\* The host as it has polled and taken a message from a connection.
LEMMA HostReady ==
  ASSUME LiveInv, NEW c \in Conns, NEW h, h = TakeFrom(Polled(HostState), c)
  PROVE  Wired(h) /\ Lists(h) /\ Sound(h.session, Host) /\ Tells(HostState, h)
<1> DEFINE g == Polled(HostState)
<1>1. GameOK(g, world[Host], JoinerStates) /\ Wired(HostState) /\ Lists(HostState)
  BY PolledHost, HostIs
<1>2. Tells(HostState, g)
  BY <1>1, TellsPolled
<1> HIDE DEF g
<1>3. Wired(g) /\ Lists(g) /\ Sound(g.session, Host)
  BY <1>1, GameLists
<1>4. h = TakeFrom(g, c)
  BY DEF g
<1>5. Tells(g, h)
  BY <1>3, <1>4, TellsTake
<1>6. Wired(h) /\ Same(g, h) /\ h.down = g.down
  BY <1>3, <1>4, TakeFromIs
<1>7. Tells(HostState, h)
  BY <1>1, <1>2, <1>5, TellsTrans
<1>8. QED
  BY <1>3, <1>6, <1>7 DEF Lists, Same

LEMMA ListsTick ==
  ASSUME LiveInv, ListsOK, NEW c \in Conns, HostTick(c)
  PROVE  ListsOK'
<1> DEFINE h == TakeFrom(Polled(HostState), c)
           p == Head(up[c]).packet
           h2 == FromJoiner(h, c, p)
<1>1. Becomes(h2) /\ UNCHANGED <<phase, conn>>
  BY DEF HostTick, HostReads, TakeFrom
<1>2. Wired(h) /\ Lists(h) /\ Sound(h.session, Host) /\ Tells(HostState, h) /\ Lists(HostState)
  BY HostReady, HostIs
<1> HIDE DEF h, p
<1>3. Tells(h, h2)
  BY <1>2, TellsHeard
<1> HIDE DEF h2
<1>4. Tells(HostState, h2)
  BY <1>2, <1>3, TellsTrans
<1>5. QED
  BY <1>1, <1>4, HostTells

LEMMA ListsKnock ==
  ASSUME LiveInv, ListsOK, NEW c \in Conns, HostKnock(c)
  PROVE  ListsOK'
<1> DEFINE h == TakeFrom(Polled(HostState), c)
           h2 == Knock(h, c)
<1>1. Becomes(h2) /\ UNCHANGED <<phase, conn>>
  BY DEF HostKnock, HostReads, TakeFrom
<1>2. Wired(h) /\ Lists(h) /\ Tells(HostState, h) /\ Lists(HostState)
  BY HostReady, HostIs
<1> HIDE DEF h
<1>3. Tells(h, h2)
  BY <1>2, TellsKnock
<1> HIDE DEF h2
<1>4. Tells(HostState, h2)
  BY <1>2, <1>3, TellsTrans
<1>5. QED
  BY <1>1, <1>4, HostTells

LEMMA ListsLeaving ==
  ASSUME LiveInv, ListsOK, NEW c \in Conns, HostLeaving(c)
  PROVE  ListsOK'
<1> DEFINE h == TakeFrom(Polled(HostState), c)
           slots == <<SlotOf(c)>>
           h2 == IF line[c] = "seated" THEN ToComputer(h, slots) ELSE h
<1>1. Becomes(h2) /\ UNCHANGED <<phase, conn>>
  BY DEF HostLeaving, HostReads, TakeFrom
<1>2. Wired(h) /\ Lists(h) /\ Sound(h.session, Host) /\ Tells(HostState, h) /\ Lists(HostState)
  BY HostReady, HostIs
<1>3. SlotOf(c) \in Joiners
  BY ConnsAre
<1>4. IsList(slots) /\ Range(slots) \subseteq Joiners
  <2>1. DOMAIN slots = {1} /\ slots[1] = SlotOf(c) /\ slots \in Seq(Joiners)
    BY <1>3
  <2>2. QED
    BY <1>3, <2>1 DEF IsList, Range
<1> HIDE DEF h, slots
<1>5. Tells(h, ToComputer(h, slots))
  BY <1>2, <1>4, TellsToComputer
<1>6. Tells(HostState, ToComputer(h, slots))
  BY <1>2, <1>5, TellsTrans
<1>7. Tells(HostState, h2)
  BY <1>2, <1>6
<1> HIDE DEF h2
<1>8. QED
  BY <1>1, <1>7, HostTells

LEMMA ListsToldHalt ==
  ASSUME LiveInv, ListsOK, NEW c \in Conns, HostToldHalt(c)
  PROVE  ListsOK'
<1> DEFINE h == TakeFrom(Polled(HostState), c)
           h2 == IF Head(up[c]).reason = "Protocol" THEN Stop(h, "Protocol") ELSE h
<1>1. Becomes(h2) /\ UNCHANGED <<phase, conn>>
  BY DEF HostToldHalt, HostReads, TakeFrom
<1>2. Wired(h) /\ Lists(h) /\ Tells(HostState, h) /\ Lists(HostState)
  BY HostReady, HostIs
<1> HIDE DEF h
<1>3. Tells(h, Stop(h, "Protocol"))
  BY <1>2, TellsStop
<1>4. Tells(HostState, Stop(h, "Protocol"))
  BY <1>2, <1>3, TellsTrans
<1>5. Tells(HostState, h2)
  BY <1>2, <1>4
<1> HIDE DEF h2
<1>6. QED
  BY <1>1, <1>5, HostTells

\* What was said on a connection that is closed is a list.
LEMMA ClosedLists ==
  ASSUME NEW h, Wired(h), Lists(h), NEW conns
  PROVE  Lists(Disconnect(h, conns))
<1> DEFINE h2 == Disconnect(h, conns)
<1>1. \A d \in Conns : h2.down[d] = IF d \in conns THEN Put(h.down[d], <<Fin>>) ELSE h.down[d]
  BY DisconnectIs
<1>2. \A d \in Conns : IsList(h.down[d]) /\ IsList(Put(h.down[d], <<Fin>>))
  BY OneMessage, ListConcat DEF Lists, Put
<1> HIDE DEF h2
<1>3. Lists(h2)
  BY <1>1, <1>2 DEF Lists
<1>4. QED
  BY <1>3 DEF h2

LEMMA ListsDropped ==
  ASSUME LiveInv, ListsOK, NEW c \in Conns, HostDropped(c)
  PROVE  ListsOK'
<1> DEFINE g == Polled(HostState)
           h == Disconnect(g, {c})
           h2 == IF line[c] = "seated" THEN Away(h, SlotOf(c)) ELSE h
<1>1. Becomes(h2) /\ UNCHANGED <<phase, conn>>
  BY DEF HostDropped
<1>2. GameOK(HostState, world[Host], JoinerStates) /\ Wired(HostState) /\ Lists(HostState) /\ HostState.line = line
  BY HostIs
<1>3. Tells(HostState, g)
  BY <1>2, TellsPolled
<1>4. GameOK(g, world[Host], JoinerStates)
  BY PolledHost
<1>5. line[c] = "seated" /\ h.session.retired[SlotOf(c)] = None =>
        \A d \in ConnsOf(SlotOf(c)) : h.line[d] # "seated"
  <2>1. h = Disconnect(Polled(HostState), {c})
    OBVIOUS
  <2> HIDE DEF h
  <2>2. QED
    BY <1>2, <2>1, DroppedAlone
<1>6. PICK W : W = {c}
  OBVIOUS
<1> HIDE DEF g
<1>7. Wired(g) /\ Lists(g)
  BY <1>4, GameLists
<1>8. h = Disconnect(g, W)
  BY <1>6
<1> HIDE DEF h
<1>9. Tells(g, h) /\ Wired(h)
  BY <1>7, <1>8, TellsDisconnect, DisconnectIs
<1>10. Tells(HostState, h)
  BY <1>2, <1>3, <1>9, TellsTrans
<1>11. Lists(h)
  BY <1>7, <1>8, ClosedLists
<1>12. SlotOf(c) \in Joiners
  BY ConnsAre
<1>13. line[c] = "seated" => Tells(h, Away(h, SlotOf(c)))
  BY <1>5, <1>9, <1>11, <1>12, TellsAway
<1>14. line[c] = "seated" => Tells(HostState, Away(h, SlotOf(c)))
  BY <1>2, <1>10, <1>13, TellsTrans
<1>15. Tells(HostState, h2)
  BY <1>10, <1>14
<1> HIDE DEF h2
<1>16. QED
  BY <1>1, <1>15, HostTells

LEMMA ListsPump ==
  ASSUME LiveInv, OneKnock, ListsOK, NEW orders \in Ordered, NEW plays \in BOOLEAN, HostPump(orders, plays)
  PROVE  ListsOK'
<1> DEFINE h1 == Diverged(HostState)
           h2 == Admit(h1)
           h3 == Control(h2, plays)
           h4 == Stage(h3, orders)
           w == world[Host]
<1>1. /\ GameOK(HostState, w, JoinerStates) /\ Shape /\ HostState.line = line
      /\ Wired(HostState) /\ Lists(HostState)
  BY HostIs
<1>2. Becomes(h4) /\ UNCHANGED <<phase, conn>>
  BY DEF HostPump
<1>3. w = world[Host]
  OBVIOUS
<1> HIDE DEF w
<1>4. GameOK(h1, w, JoinerStates) /\ h1.line = line
  BY <1>1, DivergedKept
<1>5. Tells(HostState, h1)
  BY <1>1, TellsDiverged
<1> HIDE DEF h1
<1>6. \A c, d \in Conns : SlotOf(c) = SlotOf(d) /\ h1.line[c] = "rejoining"
                            /\ h1.line[d] = "rejoining" => c = d
  BY <1>4 DEF OneKnock
<1>7. GameOK(h2, w, JoinerStates)
  BY <1>3, <1>4, <1>6, AdmitKept
<1>8. \A j \in Joiners : ConnOf(j) \in ConnsOf(j) /\ ConnOf(j) = Cur(j, JoinerStates[j])
                         /\ phase[j] = JoinerStates[j].phase
  BY <1>1, ConnIs, JoinerStateIs
<1>9. ASSUME NEW j \in Joiners PROVE ListOK(h2, j, phase[j], ConnOf(j), waiting[j])
  <2>1. PICK g, why, c, list : g = HostState /\ why = phase[j] /\ c = ConnOf(j) /\ list = waiting[j]
    OBVIOUS
  <2>2. ListOK(g, j, why, c, list)
    BY <2>1 DEF ListsOK
  <2>3. c \in ConnsOf(j) /\ c = Cur(j, JoinerStates[j]) /\ why = JoinerStates[j].phase
    BY <1>8, <2>1
  <2>4. ListOK(h1, j, why, c, list)
    BY <1>1, <1>5, <2>1, <2>2, <2>3, TellsKept
  <2>5. ListOK(h2, j, JoinerStates[j].phase, c, list)
    BY <1>4, <2>3, <2>4, AdmitLists
  <2>6. QED
    BY <1>8, <2>1, <2>5
<1> HIDE DEF h2
<1>10. /\ Wired(h2) /\ Lists(h2) /\ Sound(h2.session, Host)
       /\ h2.waiting \subseteq Joiners /\ h2.quiet \subseteq Joiners
  BY <1>7, GameLists DEF GameOK
<1>11. Tells(h2, h3)
  BY <1>10, TellsControl
<1>12. GameOK(h3, w, JoinerStates)
  BY <1>7, ControlKept
<1> HIDE DEF h3
<1>13. Wired(h3) /\ Lists(h3) /\ DOMAIN h3.session = Fields
  BY <1>12, GameLists DEF Sound
<1>14. Tells(h3, h4)
  BY <1>13, TellsStage
<1> HIDE DEF h4
<1>15. Tells(h2, h4)
  BY <1>10, <1>11, <1>14, TellsTrans
<1>16. ASSUME NEW j \in Joiners PROVE ListOK(h4, j, phase[j], ConnOf(j), waiting[j])
  <2>1. PICK why, c, list : why = phase[j] /\ c = ConnOf(j) /\ list = waiting[j]
    OBVIOUS
  <2>2. ListOK(h2, j, why, c, list) /\ c \in ConnsOf(j)
    BY <1>8, <1>9, <2>1
  <2>3. ListOK(h4, j, why, c, list)
    BY <1>10, <1>15, <2>2, TellsKept
  <2>4. QED
    BY <2>1, <2>3
<1>17. QED
  BY <1>1, <1>2, <1>16, HostLists

(***************************************************************************)
(* A joiner's step: what its host says and thinks is as it was.            *)
(***************************************************************************)
LEMMA ListsJoiner ==
  ASSUME Shape, ListsOK, NEW j \in Joiners,
         session'[Host] = session[Host], waiting'[Host] = waiting[Host],
         \A i \in Joiners \ {j} : waiting'[i] = waiting[i] /\ phase'[i] = phase[i] /\ conn'[i] = conn[i],
         \A c \in Conns : SlotOf(c) # j => line'[c] = line[c] /\ down'[c] = down[c],
         ListOK(HostState', j, phase'[j], ConnOf(j)', waiting'[j])
  PROVE  ListsOK'
<1> DEFINE h == HostState
           h2 == HostState'
<1>1. /\ h2.session = h.session /\ h2.waiting = h.waiting
      /\ h2.line = line' /\ h.line = line /\ h2.down = down' /\ h.down = down
  BY HostStateIs, NextStates
<1>2. \A i \in Joiners : ListOK(h, i, phase[i], ConnOf(i), waiting[i])
  BY DEF ListsOK
<1> HIDE DEF h
<1>3. ASSUME NEW i \in Joiners, i # j PROVE ListOK(h2, i, phase'[i], ConnOf(i)', waiting'[i])
  <2>1. phase'[i] = phase[i] /\ ConnOf(i)' = ConnOf(i) /\ waiting'[i] = waiting[i]
    BY <1>3 DEF ConnOf
  <2>2. ConnOf(i) \in Conns /\ SlotOf(ConnOf(i)) = i
    BY ConnIs DEF ConnsOf
  <2> DEFINE c == ConnOf(i)
  <2> HIDE DEF h2
  <2>3. h2.line[c] = h.line[c] /\ h2.down[c] = h.down[c]
    BY <1>1, <1>3, <2>2
  <2>4. ListOK(h, i, phase[i], c, waiting[i])
    BY <1>2
  <2> HIDE DEF c
  <2>5. ListOK(h2, i, phase[i], c, waiting[i])
    BY <1>1, <2>3, <2>4 DEF ListOK
  <2>6. QED
    BY <2>1, <2>5 DEF c
<1>4. QED
  BY <1>3 DEF ListsOK

\* A joiner that has stopped is no part of it, nor one whose connection is not seated, or is closed.
LEMMA ListStopped ==
  ASSUME NEW h, NEW j, NEW why, why \notin {"playing", "knocking"}, NEW c, NEW list
  PROVE  ListOK(h, j, why, c, list)
BY DEF ListOK

LEMMA ListUnheard ==
  ASSUME NEW h, NEW j, NEW why, NEW c, NEW list, why = "knocking" => list = {},
         h.line[c] # "seated" \/ Closed(h.down[c])
  PROVE  ListOK(h, j, why, c, list)
BY DEF ListOK

LEMMA ReadsTold ==
  ASSUME NEW q, IsList(q), q # <<>>, NEW waits, NEW j, NEW list, Told(waits, j, list, q, 0),
         NEW list2,
         \A x \in Joiners : x \in list2 <=> IF Speaks(Head(q), x) THEN Head(q).type = "Away" ELSE x \in list
  PROVE  Told(waits, j, list2, Tail(q), 0)
<1>1. SUFFICES ASSUME NEW x \in Joiners
               PROVE  WaitsFor(list2, Tail(q), 0, x) <=> x \in waits \ {j}
  BY DEF Told
<1>2. WaitsFor(list, q, 0, x) <=> x \in waits \ {j}
  BY DEF Told
<1>3. x \in list2 <=> IF Speaks(Head(q), x) THEN Head(q).type = "Away" ELSE x \in list
  OBVIOUS
<1>4. WaitsFor(list, q, 0, x) <=> WaitsFor(list2, Tail(q), 0, x)
  BY <1>3, WaitsRead
<1>5. QED
  BY <1>2, <1>4

\* The host's answer is read: what is behind it is told.
LEMMA ReadsAnswer ==
  ASSUME NEW q, IsList(q), q # <<>>, Head(q).type = "Rejoin",
         NEW waits, NEW j, NEW list, Answered(waits, j, list, q)
  PROVE  Told(waits, j, list, Tail(q), 0)
<1>1. 1 \in DOMAIN q /\ q[1].type = "Rejoin"
  BY ListTail
<1>2. Told(waits, j, list, q, 1)
  BY <1>1 DEF Answered
<1>3. ASSUME NEW x \in Joiners PROVE WaitsFor(list, Tail(q), 0, x) <=> x \in waits \ {j}
  <2>1. WaitsFor(list, q, 1, x) <=> x \in waits \ {j}
    BY <1>2 DEF Told
  <2>2. PICK r : r = 1
    OBVIOUS
  <2>3. r \in Nat /\ r >= 1 /\ r - 1 = 0
    BY <2>2
  <2>4. WaitsFor(list, q, r, x) <=> WaitsFor(list, Tail(q), r - 1, x)
    BY <2>3, WaitsPast
  <2>5. QED
    BY <2>1, <2>2, <2>3, <2>4
<1>4. QED
  BY <1>3 DEF Told

\* Something is read before the host's answer.
LEMMA ReadsBefore ==
  ASSUME NEW q, IsList(q), q # <<>>, NEW waits, NEW j, NEW list, Answered(waits, j, list, q)
  PROVE  Answered(waits, j, list, Tail(q))
<1> DEFINE p == Tail(q)
<1>1. IsList(p) /\ \A i \in DOMAIN p : i + 1 \in DOMAIN q /\ p[i] = q[i + 1]
  BY ListTail
<1>2. \A i \in DOMAIN p : i \in Nat
  BY <1>1, ListDomain
<1>3. ASSUME NEW r \in DOMAIN p, p[r].type = "Rejoin" PROVE Told(waits, j, list, p, r)
  <2>1. r \in Nat /\ r + 1 \in DOMAIN q /\ q[r + 1].type = "Rejoin"
    BY <1>1, <1>2, <1>3
  <2>2. Told(waits, j, list, q, r + 1)
    BY <2>1 DEF Answered
  <2>3. PICK n : n = r + 1
    OBVIOUS
  <2>4. n \in Nat /\ n >= 1 /\ n - 1 = r
    BY <2>1, <2>3
  <2>5. ASSUME NEW x \in Joiners PROVE WaitsFor(list, p, r, x) <=> x \in waits \ {j}
    <3>1. WaitsFor(list, q, n, x) <=> x \in waits \ {j}
      BY <2>2, <2>3 DEF Told
    <3>2. WaitsFor(list, q, n, x) <=> WaitsFor(list, Tail(q), n - 1, x)
      BY <2>4, WaitsPast
    <3>3. QED
      BY <2>4, <3>1, <3>2
  <2>6. QED
    BY <2>5 DEF Told
<1>4. QED
  BY <1>3 DEF Answered

\* A step that leaves the host's side alone, and what the joiner has heard.
LEMMA ListsSame ==
  ASSUME LiveInv, ListsOK, NEW j \in Joiners,
         session'[Host] = session[Host], line' = line, down' = down, conn' = conn,
         \A i \in Slots : waiting'[i] = waiting[i],
         \A i \in Joiners \ {j} : phase'[i] = phase[i],
         phase'[j] = phase[j] \/ phase'[j] \notin {"playing", "knocking"}
  PROVE  ListsOK'
<1> DEFINE h == HostState
           h2 == HostState'
<1>1. Shape /\ Host \in Slots /\ \A i \in Joiners : i \in Slots
  BY LiveAssumption DEF LiveInv, Joiners
<1>2. h2.session = h.session /\ h2.waiting = h.waiting /\ h2.line = h.line /\ h2.down = h.down
  BY <1>1, HostStateIs, NextStates
<1>3. ConnOf(j)' = ConnOf(j) /\ waiting'[j] = waiting[j]
  BY <1>1 DEF ConnOf
<1>4. PICK why, c, list : why = phase[j] /\ c = ConnOf(j) /\ list = waiting[j]
  OBVIOUS
<1>5. ListOK(h, j, why, c, list)
  BY <1>4 DEF ListsOK
<1> HIDE DEF h, h2
<1>6. ListOK(h2, j, why, c, list)
  BY <1>2, <1>5, ListLike
<1>7. ListOK(h2, j, phase'[j], ConnOf(j)', waiting'[j])
  <2>1. CASE phase'[j] = phase[j]
    BY <1>3, <1>4, <1>6, <2>1
  <2>2. CASE phase'[j] \notin {"playing", "knocking"}
    <3>1. PICK now : now = phase'[j]
      OBVIOUS
    <3>2. ListOK(h2, j, now, ConnOf(j)', waiting'[j])
      BY <2>2, <3>1, ListStopped
    <3>3. QED
      BY <3>1, <3>2
  <2>3. QED
    BY <2>1, <2>2
<1>8. /\ session'[Host] = session[Host] /\ waiting'[Host] = waiting[Host]
      /\ \A i \in Joiners \ {j} : waiting'[i] = waiting[i] /\ phase'[i] = phase[i] /\ conn'[i] = conn[i]
      /\ \A d \in Conns : SlotOf(d) # j => line'[d] = line[d] /\ down'[d] = down[d]
  BY <1>1
<1>9. QED
  BY <1>1, <1>7, <1>8, ListsJoiner DEF h2

\* The joiner has read a message, and its list is as the message says.
LEMMA ListsReads ==
  ASSUME LiveInv, ListsOK, NEW j \in Joiners, Plays(j), NEW type, type # "Fin", Is(down[ConnOf(j)], type),
         NEW s, JoinerBecomes(j, s), down' = Read(ConnOf(j)), UNCHANGED <<line, conn>>,
         \A x \in Joiners :
           x \in s.waiting <=> IF Speaks(Head(down[ConnOf(j)]), x) THEN type = "Away" ELSE x \in waiting[j]
  PROVE  ListsOK'
<1> DEFINE h == HostState
           h2 == HostState'
           c == ConnOf(j)
           q == down[c]
<1>1. /\ Shape /\ Host \in Slots /\ j \in Slots /\ j # Host /\ c \in Conns /\ SlotOf(c) = j
      /\ DOMAIN down = Conns /\ IsList(q) /\ phase[j] = "playing"
  <2>1. Shape /\ Host \in Slots /\ j \in Slots /\ j # Host /\ phase[j] = "playing"
    BY LiveAssumption DEF LiveInv, Joiners, Plays
  <2>2. c \in Conns /\ SlotOf(c) = j
    BY <2>1, ConnIs DEF ConnsOf
  <2>3. Wired(h) /\ Lists(h) /\ h.down = down
    BY HostIs, HostStateIs
  <2>4. QED
    BY <2>1, <2>2, <2>3 DEF Wired, Lists
<1>2. /\ session'[Host] = session[Host] /\ waiting' = [waiting EXCEPT ![j] = s.waiting]
      /\ \A i \in Joiners \ {j} : phase'[i] = phase[i]
      /\ phase'[j] = "playing" \/ phase'[j] \notin {"playing", "knocking"}
  <2>1. /\ session' = [session EXCEPT ![j] = s.session]
        /\ waiting' = [waiting EXCEPT ![j] = s.waiting]
        /\ phase' = IF s.session.halt = Running THEN phase
                    ELSE [phase EXCEPT ![j] = IF s.session.halt \in {"Left", "Timeout"} THEN "lost" ELSE "over"]
    BY DEF JoinerBecomes
  <2>2. session'[Host] = session[Host]
    BY <1>1, <2>1
  <2>3. /\ \A i \in Joiners \ {j} : phase'[i] = phase[i]
        /\ phase'[j] = "playing" \/ phase'[j] \notin {"playing", "knocking"}
    <3>1. CASE s.session.halt = Running
      BY <1>1, <2>1, <3>1
    <3>2. CASE s.session.halt # Running
      <4>1. PICK now : now \in {"lost", "over"} /\ phase' = [phase EXCEPT ![j] = now]
        BY <2>1, <3>2
      <4>2. QED
        BY <1>1, <4>1 DEF Shape
    <3>3. QED
      BY <3>1, <3>2
  <2>4. QED
    BY <2>1, <2>2, <2>3
<1>3. waiting'[j] = s.waiting /\ \A i \in Slots \ {j} : waiting'[i] = waiting[i]
  BY <1>1, <1>2 DEF Shape
<1>4. down'[c] = Tail(q) /\ \A d \in Conns : d # c => down'[d] = down[d]
  BY <1>1 DEF Read
<1>5. q # <<>> /\ Head(q).type = type
  BY DEF Is
<1>6. Closed(Tail(q)) <=> Closed(q)
  <2>1. Head(q) # Fin
    BY <1>5 DEF Fin, Msg
  <2>2. QED
    BY <1>1, <1>5, <2>1, ClosedTail
<1>7. /\ h2.session = h.session /\ h2.waiting = h.waiting /\ h2.line = h.line
      /\ h2.down[c] = Tail(q) /\ h.down[c] = q
  BY <1>1, <1>2, <1>3, <1>4, HostStateIs, NextStates
<1>8. ListOK(h, j, "playing", c, waiting[j])
  BY <1>1 DEF ListsOK
<1>9. PICK list, list2 : list = waiting[j] /\ list2 = s.waiting
  OBVIOUS
<1>10. \A x \in Joiners : x \in list2 <=> IF Speaks(Head(q), x) THEN Head(q).type = "Away" ELSE x \in list
  BY <1>5, <1>9
<1>11. IsList(q)
  BY <1>1
<1> HIDE DEF h, h2, q
<1>12. ListOK(h2, j, "playing", c, list2)
  <2>1. SUFFICES ASSUME h2.line[c] = "seated", h2.session.retired[j] = None, ~Closed(h2.down[c])
                 PROVE  Told(h2.waiting, j, list2, h2.down[c], 0)
    BY DEF ListOK
  <2>2. Told(h.waiting, j, list, q, 0)
    BY <1>6, <1>7, <1>8, <1>9, <2>1 DEF ListOK
  <2>3. Told(h.waiting, j, list2, Tail(q), 0)
    <3>1. PICK waits : waits = h.waiting
      OBVIOUS
    <3>2. Told(waits, j, list2, Tail(q), 0)
      BY <1>5, <1>10, <1>11, <2>2, <3>1, ReadsTold
    <3>3. QED
      BY <3>1, <3>2
  <2>4. QED
    BY <1>7, <2>3
<1>13. ListOK(h2, j, phase'[j], c, list2)
  <2>1. PICK now : now = phase'[j]
    OBVIOUS
  <2>2. now = "playing" \/ now \notin {"playing", "knocking"}
    BY <1>2, <2>1
  <2>3. ListOK(h2, j, now, c, list2)
    BY <1>12, <2>2, ListStopped
  <2>4. QED
    BY <2>1, <2>3
<1>14. ConnOf(j)' = c
  BY DEF ConnOf
<1>15. ListOK(h2, j, phase'[j], ConnOf(j)', waiting'[j])
  BY <1>3, <1>9, <1>13, <1>14
<1>16. /\ session'[Host] = session[Host] /\ waiting'[Host] = waiting[Host]
       /\ \A i \in Joiners \ {j} : waiting'[i] = waiting[i] /\ phase'[i] = phase[i] /\ conn'[i] = conn[i]
       /\ \A d \in Conns : SlotOf(d) # j => line'[d] = line[d] /\ down'[d] = down[d]
  BY <1>1, <1>2, <1>3, <1>4 DEF Joiners
<1>17. Shape /\ ListOK(HostState', j, phase'[j], ConnOf(j)', waiting'[j])
  BY <1>1, <1>15 DEF h2
<1>18. QED
  BY <1>16, <1>17, ListsJoiner

LEMMA JoinerStateHas ==
  ASSUME NEW j
  PROVE  /\ JoinerState(j).session = session[j] /\ JoinerState(j).waiting = waiting[j]
         /\ DOMAIN JoinerState(j) = {"session", "waiting", "pending"}
BY DEF JoinerState

\* The messages that are not about a seat waited for.
LEMMA ListsHears ==
  ASSUME LiveInv, ListsOK, NEW j \in Joiners,
         JoinerTick(j) \/ JoinerToldHalt(j) \/ JoinerResyncAt(j) \/ JoinerResync(j)
  PROVE  ListsOK'
<1> DEFINE s == JoinerState(j)
           m == Head(down[ConnOf(j)])
<1>1. ASSUME NEW type \in {"Tick", "Halt", "ResyncAt", "Resync"}, Plays(j), Is(down[ConnOf(j)], type),
             NEW s2, s2.waiting = s.waiting, JoinerBecomes(j, s2), down' = Read(ConnOf(j)),
             UNCHANGED <<line, conn>>
      PROVE  ListsOK'
  <2>1. m.type = type
    BY <1>1 DEF Is
  <2>2. \A x : ~Speaks(m, x)
    BY <1>1, <2>1 DEF Speaks
  <2>3. \A x \in Joiners : x \in s2.waiting <=> IF Speaks(m, x) THEN type = "Away" ELSE x \in waiting[j]
    BY <1>1, <2>2, JoinerStateHas
  <2>4. type # "Fin"
    BY <1>1
  <2>5. QED
    BY <1>1, <2>3, <2>4, ListsReads
<1>2. CASE JoinerTick(j)
  <2>1. /\ Plays(j) /\ Is(down[ConnOf(j)], "Tick") /\ JoinerBecomes(j, FromHost(s, m.packet))
        /\ down' = Read(ConnOf(j)) /\ UNCHANGED <<line, conn>>
    BY <1>2 DEF JoinerTick, JoinerReads
  <2>2. FromHost(s, m.packet).waiting = s.waiting
    BY JoinerStateHas DEF FromHost, JoinerHalts
  <2>3. QED
    BY <1>1, <2>1, <2>2
<1>3. CASE JoinerToldHalt(j)
  <2>1. /\ Plays(j) /\ Is(down[ConnOf(j)], "Halt") /\ JoinerBecomes(j, JoinerHalts(s, m.reason))
        /\ down' = Read(ConnOf(j)) /\ UNCHANGED <<line, conn>>
    BY <1>3 DEF JoinerToldHalt, JoinerReads
  <2>2. JoinerHalts(s, m.reason).waiting = s.waiting
    BY JoinerStateHas DEF JoinerHalts
  <2>3. QED
    BY <1>1, <2>1, <2>2
<1>4. CASE JoinerResyncAt(j)
  <2> DEFINE s2 == [s EXCEPT !.session = ResyncAnnounced(@, m.tick)]
  <2>1. /\ Plays(j) /\ Is(down[ConnOf(j)], "ResyncAt") /\ JoinerBecomes(j, s2)
        /\ down' = Read(ConnOf(j)) /\ UNCHANGED <<line, conn>>
    BY <1>4 DEF JoinerResyncAt, JoinerReads
  <2>2. s2.waiting = s.waiting
    BY JoinerStateHas
  <2> HIDE DEF s2
  <2>3. QED
    BY <1>1, <2>1, <2>2
<1>5. CASE JoinerResync(j)
  <2> DEFINE s2 == [s EXCEPT !.pending = [tick |-> m.tick, world |-> m.world]]
  <2>1. /\ Plays(j) /\ Is(down[ConnOf(j)], "Resync") /\ JoinerBecomes(j, s2)
        /\ down' = Read(ConnOf(j)) /\ UNCHANGED <<line, conn>>
    BY <1>5 DEF JoinerResync, JoinerReads
  <2>2. s2.waiting = s.waiting
    BY JoinerStateHas
  <2> HIDE DEF s2
  <2>3. QED
    BY <1>1, <2>1, <2>2
<1>6. QED
  BY <1>2, <1>3, <1>4, <1>5

\* The messages that are.
LEMMA ListsHearsOf ==
  ASSUME LiveInv, ListsOK, NEW j \in Joiners, JoinerRetire(j) \/ JoinerAway(j) \/ JoinerBack(j)
  PROVE  ListsOK'
<1> DEFINE s == JoinerState(j)
           m == Head(down[ConnOf(j)])
<1>1. CASE JoinerAway(j)
  <2> DEFINE s2 == [s EXCEPT !.waiting = @ \union {m.slot}]
  <2>1. /\ Plays(j) /\ Is(down[ConnOf(j)], "Away") /\ JoinerBecomes(j, s2)
        /\ down' = Read(ConnOf(j)) /\ UNCHANGED <<line, conn>>
    BY <1>1 DEF JoinerAway, JoinerReads
  <2>2. s2.waiting = waiting[j] \union {m.slot}
    BY JoinerStateHas
  <2>3. m.type = "Away"
    BY <2>1 DEF Is
  <2>4. \A x \in Joiners : x \in s2.waiting <=> IF Speaks(m, x) THEN "Away" = "Away" ELSE x \in waiting[j]
    BY <2>2, <2>3 DEF Speaks
  <2> HIDE DEF s2
  <2>5. PICK type : type = "Away"
    OBVIOUS
  <2>6. type # "Fin" /\ Is(down[ConnOf(j)], type)
        /\ \A x \in Joiners : x \in s2.waiting <=> IF Speaks(m, x) THEN type = "Away" ELSE x \in waiting[j]
    BY <2>1, <2>4, <2>5
  <2>7. QED
    BY <2>1, <2>6, ListsReads
<1>2. ASSUME NEW type \in {"Retire", "Back"}, Plays(j), Is(down[ConnOf(j)], type),
             NEW s2, s2.waiting = waiting[j] \ {m.slot}, JoinerBecomes(j, s2), down' = Read(ConnOf(j)),
             UNCHANGED <<line, conn>>
      PROVE  ListsOK'
  <2>1. m.type = type
    BY <1>2 DEF Is
  <2>2. \A x \in Joiners : x \in s2.waiting <=> IF Speaks(m, x) THEN type = "Away" ELSE x \in waiting[j]
    BY <1>2, <2>1 DEF Speaks
  <2>3. type # "Fin"
    BY <1>2
  <2>4. QED
    BY <1>2, <2>2, <2>3, ListsReads
<1>3. CASE JoinerRetire(j)
  <2> DEFINE s2 == [s EXCEPT !.session = Retire(@, m.slot, m.from), !.waiting = @ \ {m.slot}]
  <2>1. /\ Plays(j) /\ Is(down[ConnOf(j)], "Retire") /\ JoinerBecomes(j, s2)
        /\ down' = Read(ConnOf(j)) /\ UNCHANGED <<line, conn>>
    BY <1>3 DEF JoinerRetire, JoinerReads
  <2>2. s2.waiting = waiting[j] \ {m.slot}
    BY JoinerStateHas
  <2> HIDE DEF s2
  <2>3. QED
    BY <1>2, <2>1, <2>2
<1>4. CASE JoinerBack(j)
  <2> DEFINE s2 == [s EXCEPT !.waiting = @ \ {m.slot}]
  <2>1. /\ Plays(j) /\ Is(down[ConnOf(j)], "Back") /\ JoinerBecomes(j, s2)
        /\ down' = Read(ConnOf(j)) /\ UNCHANGED <<line, conn>>
    BY <1>4 DEF JoinerBack, JoinerReads
  <2>2. s2.waiting = waiting[j] \ {m.slot}
    BY JoinerStateHas
  <2> HIDE DEF s2
  <2>3. QED
    BY <1>2, <2>1, <2>2
<1>5. QED
  BY <1>1, <1>3, <1>4

\* The joiner runs on, or seals, or stops playing with its connection as it is.
LEMMA ListsRuns ==
  ASSUME LiveInv, ListsOK, NEW j \in Joiners,
         JoinerSeal(j) \/ JoinerDropped(j) \/ JoinerAdvance(j) \/ JoinerAdopt(j) \/ JoinerTimeout(j)
           \/ \E orders \in Ordered : JoinerPump(j, orders)
  PROVE  ListsOK'
<1>1. Shape /\ Host \in Slots /\ j \in Slots /\ j # Host
  BY LiveAssumption DEF LiveInv, Joiners
<1>2. ASSUME NEW s, JoinerBecomes(j, s), s.waiting = waiting[j]
      PROVE  /\ session'[Host] = session[Host] /\ waiting' = waiting
             /\ \A i \in Joiners \ {j} : phase'[i] = phase[i]
             /\ phase'[j] = phase[j] \/ phase'[j] \notin {"playing", "knocking"}
  <2>1. /\ session' = [session EXCEPT ![j] = s.session]
        /\ waiting' = [waiting EXCEPT ![j] = s.waiting]
        /\ phase' = IF s.session.halt = Running THEN phase
                    ELSE [phase EXCEPT ![j] = IF s.session.halt \in {"Left", "Timeout"} THEN "lost" ELSE "over"]
    BY <1>2 DEF JoinerBecomes
  <2>2. session'[Host] = session[Host]
    BY <1>1, <2>1
  <2>3. waiting' = waiting
    BY <1>1, <1>2, <2>1 DEF Shape
  <2>4. /\ \A i \in Joiners \ {j} : phase'[i] = phase[i]
        /\ phase'[j] = phase[j] \/ phase'[j] \notin {"playing", "knocking"}
    <3>1. CASE s.session.halt = Running
      BY <2>1, <3>1
    <3>2. CASE s.session.halt # Running
      <4>1. PICK now : now \in {"lost", "over"} /\ phase' = [phase EXCEPT ![j] = now]
        BY <2>1, <3>2
      <4>2. QED
        BY <1>1, <4>1 DEF Shape
    <3>3. QED
      BY <3>1, <3>2
  <2>5. QED
    BY <2>2, <2>3, <2>4
<1>3. ASSUME NEW s, JoinerBecomes(j, s), s.waiting = waiting[j], UNCHANGED <<line, down, conn>>
      PROVE  ListsOK'
  <2>1. /\ session'[Host] = session[Host] /\ waiting' = waiting
        /\ \A i \in Joiners \ {j} : phase'[i] = phase[i]
        /\ phase'[j] = phase[j] \/ phase'[j] \notin {"playing", "knocking"}
    BY <1>2, <1>3
  <2>2. QED
    BY <1>3, <2>1, ListsSame
<1>4. CASE JoinerSeal(j) \/ \E orders \in Ordered : JoinerPump(j, orders)
  <2>1. UNCHANGED <<waiting, line, down, phase, conn>>
    BY <1>4 DEF JoinerSeal, JoinerPump
  <2>2. session'[Host] = session[Host]
    <3>1. PICK S : session' = [session EXCEPT ![j] = S]
      <4>1. CASE JoinerSeal(j)
        BY <4>1 DEF JoinerSeal
      <4>2. CASE \E orders \in Ordered : JoinerPump(j, orders)
        <5>1. PICK orders \in Ordered : session' = [session EXCEPT ![j].staged = @ \o orders]
          BY <4>2 DEF JoinerPump
        <5>2. PICK S : S = [session[j] EXCEPT !.staged = @ \o orders]
          OBVIOUS
        <5>3. session' = [session EXCEPT ![j] = S]
          BY <5>1, <5>2
        <5>4. QED
          BY <5>3
      <4>3. QED
        BY <1>4, <4>1, <4>2
    <3>2. QED
      BY <1>1, <3>1 DEF Shape
  <2>3. QED
    BY <2>1, <2>2, ListsSame
<1>5. CASE JoinerDropped(j)
  <2> DEFINE s == JoinerHalts(JoinerState(j), "Left")
  <2>1. JoinerBecomes(j, s) /\ UNCHANGED <<line, down, conn>>
    BY <1>5 DEF JoinerDropped
  <2>2. s.waiting = waiting[j]
    BY JoinerStateHas DEF JoinerHalts
  <2> HIDE DEF s
  <2>3. QED
    BY <1>3, <2>1, <2>2
<1>6. CASE JoinerTimeout(j)
  <2> DEFINE s == JoinerHalts(JoinerState(j), "Timeout")
  <2>1. JoinerBecomes(j, s) /\ UNCHANGED <<line, down, conn>>
    BY <1>6 DEF JoinerTimeout
  <2>2. s.waiting = waiting[j]
    BY JoinerStateHas DEF JoinerHalts
  <2> HIDE DEF s
  <2>3. QED
    BY <1>3, <2>1, <2>2
<1>7. CASE JoinerAdvance(j)
  <2> DEFINE s == [JoinerState(j) EXCEPT !.session = Advance(session[j], world[j]).session]
  <2>1. JoinerBecomes(j, s) /\ UNCHANGED <<line, down, conn>>
    BY <1>7 DEF JoinerAdvance
  <2>2. s.waiting = waiting[j]
    BY JoinerStateHas
  <2> HIDE DEF s
  <2>3. QED
    BY <1>3, <2>1, <2>2
<1>8. CASE JoinerAdopt(j)
  <2> DEFINE s == [JoinerState(j) EXCEPT
                     !.session = Resynced(@, pending[j].tick, pending[j].world), !.pending = NoResync]
  <2>1. JoinerBecomes(j, s) /\ UNCHANGED <<line, down, conn>>
    BY <1>8 DEF JoinerAdopt
  <2>2. s.waiting = waiting[j]
    BY JoinerStateHas
  <2> HIDE DEF s
  <2>3. QED
    BY <1>3, <2>1, <2>2
<1>9. QED
  BY <1>4, <1>5, <1>6, <1>7, <1>8

\* The joiner leaves, or its program ends: its connection closes.
LEMMA ListsGoes ==
  ASSUME LiveInv, ListsOK, NEW j \in Joiners, JoinerLeaves(j) \/ Crash(j)
  PROVE  ListsOK'
<1>1. Shape /\ ConnOf(j) \in Conns /\ SlotOf(ConnOf(j)) = j
  BY ConnIs DEF LiveInv, ConnsOf
<1>2. DOMAIN down = Conns
  BY HostIs, HostStateIs DEF Wired
<1>3. UNCHANGED <<session, waiting, line, conn>> /\ down' = [down EXCEPT ![ConnOf(j)] = <<Fin>>]
  BY DEF JoinerLeaves, Crash
<1>4. PICK now : now \in {"over", "lost"} /\ phase' = [phase EXCEPT ![j] = now]
  BY DEF JoinerLeaves, Crash
<1>5. phase'[j] \notin {"playing", "knocking"} /\ \A i \in Joiners \ {j} : phase'[i] = phase[i]
  BY <1>1, <1>4 DEF Shape
<1>6. ListOK(HostState', j, phase'[j], ConnOf(j)', waiting'[j])
  BY <1>5, ListStopped
<1>7. \A c \in Conns : SlotOf(c) # j => line'[c] = line[c] /\ down'[c] = down[c]
  BY <1>1, <1>2, <1>3
<1>8. /\ session'[Host] = session[Host] /\ waiting'[Host] = waiting[Host]
      /\ \A i \in Joiners \ {j} : waiting'[i] = waiting[i] /\ phase'[i] = phase[i] /\ conn'[i] = conn[i]
  BY <1>3, <1>5
<1>9. QED
  BY <1>1, <1>6, <1>7, <1>8, ListsJoiner

\* It knocks on a new connection, and waits for nobody yet.
LEMMA ListsComesBack ==
  ASSUME LiveInv, ListsOK, NEW j \in Joiners, NEW goodbye, JoinerKnocks(j, goodbye)
  PROVE  ListsOK'
<1> DEFINE new == <<j, conn[j] + 1>>
<1>1. /\ Shape /\ ConnOf(j) \in Conns /\ SlotOf(ConnOf(j)) = j /\ j \in Slots /\ Host \in Slots /\ j # Host
      /\ DOMAIN down = Conns /\ DOMAIN line = Conns
  <2>1. Shape /\ ConnOf(j) \in Conns /\ SlotOf(ConnOf(j)) = j
    BY ConnIs DEF LiveInv, ConnsOf
  <2>2. Wired(HostState) /\ HostState.down = down /\ HostState.line = line
    BY HostIs, HostStateIs
  <2>3. DOMAIN down = Conns /\ DOMAIN line = Conns
    BY <2>2 DEF Wired
  <2>4. QED
    BY <2>1, <2>3, LiveAssumption DEF Joiners
<1>2. /\ conn[j] < MaxConn /\ conn' = [conn EXCEPT ![j] = @ + 1]
      /\ line' = [line EXCEPT ![new] = "connecting"]
      /\ down' = [down EXCEPT ![ConnOf(j)] = <<Fin>>]
      /\ phase' = [phase EXCEPT ![j] = "knocking"]
      /\ session' = [session EXCEPT ![j] = NewSession(j, Host)]
      /\ waiting' = [waiting EXCEPT ![j] = {}]
  BY DEF JoinerKnocks
<1>3. conn[j] + 1 \in 0 .. MaxConn /\ conn'[j] = conn[j] + 1
  BY <1>1, <1>2, LiveAssumption DEF Shape
<1>4. new \in Conns /\ SlotOf(new) = j /\ ConnOf(j)' = new
  BY <1>3 DEF Conns, SlotOf, ConnOf
<1> HIDE DEF new
<1>5. line'[new] = "connecting" /\ waiting'[j] = {} /\ HostState'.line = line'
  BY <1>1, <1>2, <1>4, NextStates DEF Shape
<1>6. ListOK(HostState', j, phase'[j], ConnOf(j)', waiting'[j])
  <2>1. PICK h2, why, c, list : h2 = HostState' /\ why = phase'[j] /\ c = ConnOf(j)' /\ list = waiting'[j]
    OBVIOUS
  <2>2. h2.line[c] # "seated" /\ list = {}
    BY <1>4, <1>5, <2>1
  <2>3. ListOK(h2, j, why, c, list)
    BY <2>2, ListUnheard
  <2>4. QED
    BY <2>1, <2>3
<1>7. \A c \in Conns : SlotOf(c) # j => line'[c] = line[c] /\ down'[c] = down[c]
  BY <1>1, <1>2, <1>4
<1>8. /\ session'[Host] = session[Host] /\ waiting'[Host] = waiting[Host]
      /\ \A i \in Joiners \ {j} : waiting'[i] = waiting[i] /\ phase'[i] = phase[i] /\ conn'[i] = conn[i]
  BY <1>1, <1>2 DEF Shape, Joiners
<1>9. QED
  BY <1>1, <1>6, <1>7, <1>8, ListsJoiner

\* More than the close is to be read.
LEMMA MoreToCome ==
  ASSUME NEW q, IsList(q), q # <<>>, q # <<Fin>>
  PROVE  Closed(Tail(q)) <=> Closed(q)
<1>1. CASE Head(q) # Fin
  BY <1>1, ClosedTail
<1>2. CASE Head(q) = Fin
  <2>1. /\ Len(q) \in Nat /\ Len(q) # 0 /\ DOMAIN q = 1 .. Len(q) /\ Head(q) = q[1]
        /\ IsList(Tail(q)) /\ Len(Tail(q)) = Len(q) - 1
        /\ Tail(q) # <<>> => Last(Tail(q)) = Last(q)
    BY ListTail, ListDomain
  <2>2. Tail(q) = <<>> => Len(q) = 1
    BY <2>1, ListDomain
  <2>3. PICK T : q \in Seq(T)
    BY DEF IsList
  <2>4. Len(q) = 1 => q = <<Fin>>
    BY <1>2, <2>1, <2>3
  <2>5. Tail(q) # <<>>
    BY <2>2, <2>4
  <2>6. QED
    BY <2>1, <2>5 DEF Closed
<1>3. QED
  BY <1>1, <1>2

\* It hears the host's answer, or what is before it.
LEMMA ListsAnswer ==
  ASSUME LiveInv, ListsOK, NEW j \in Joiners, JoinerRejoins(j) \/ JoinerHears(j)
  PROVE  ListsOK'
<1> DEFINE h == HostState
           h2 == HostState'
           c == ConnOf(j)
           q == down[c]
<1>1. /\ Shape /\ Host \in Slots /\ j \in Slots /\ j # Host /\ c \in Conns /\ SlotOf(c) = j
      /\ DOMAIN down = Conns /\ IsList(q) /\ phase[j] = "knocking"
  <2>1. Shape /\ Host \in Slots /\ j \in Slots /\ j # Host /\ phase[j] = "knocking"
    BY LiveAssumption DEF LiveInv, Joiners, JoinerRejoins, JoinerHears
  <2>2. c \in Conns /\ SlotOf(c) = j
    BY <2>1, ConnIs DEF ConnsOf
  <2>3. Wired(h) /\ Lists(h) /\ h.down = down
    BY HostIs, HostStateIs
  <2>4. QED
    BY <2>1, <2>2, <2>3 DEF Wired, Lists
<1>2. UNCHANGED <<waiting, line, conn>> /\ session'[Host] = session[Host]
  <2>1. UNCHANGED <<waiting, line, conn>>
    BY DEF JoinerRejoins, JoinerHears
  <2>2. CASE JoinerRejoins(j)
    <3>1. PICK S : session' = [session EXCEPT ![j] = S]
      BY <2>2 DEF JoinerRejoins
    <3>2. QED
      BY <1>1, <2>1, <3>1 DEF Shape
  <2>3. CASE JoinerHears(j)
    BY <2>1, <2>3 DEF JoinerHears
  <2>4. QED
    BY <2>2, <2>3
<1>3. PICK now : phase' = [phase EXCEPT ![j] = now]
  BY DEF JoinerRejoins, JoinerHears
<1>4. phase'[j] = now /\ \A i \in Joiners \ {j} : phase'[i] = phase[i]
  BY <1>1, <1>3 DEF Shape
<1>5. ListOK(h, j, "knocking", c, waiting[j])
  BY <1>1 DEF ListsOK
<1>6. q # <<>> /\ (down' = down \/ down' = Read(c))
  BY DEF JoinerRejoins, JoinerHears, Is
<1>7. \A d \in Conns : d # c => down'[d] = down[d]
  BY <1>1, <1>6 DEF Read
<1>8. JoinerRejoins(j) => Head(q).type = "Rejoin" /\ down'[c] = Tail(q) /\ now = "playing"
  <2>1. ASSUME JoinerRejoins(j) PROVE Is(q, "Rejoin") /\ down' = Read(c) /\ phase'[j] = "playing"
    BY <1>1, <2>1 DEF JoinerRejoins, Shape
  <2>2. QED
    BY <1>1, <1>4, <2>1 DEF Is, Read
<1>9. JoinerHears(j) => now # "playing" /\ (q = <<Fin>> \/ down'[c] = Tail(q))
  <2>1. ASSUME JoinerHears(j) PROVE phase'[j] # "playing"
    <3>1. PICK then : then \in {"over", "lost", "knocking"} /\ phase' = [phase EXCEPT ![j] = then]
      BY <1>1, <2>1 DEF JoinerHears
    <3>2. QED
      BY <1>1, <3>1 DEF Shape
  <2>2. ASSUME JoinerHears(j) PROVE q = <<Fin>> \/ down' = Read(c)
    BY <2>2 DEF JoinerHears
  <2>3. QED
    BY <1>1, <1>4, <2>1, <2>2 DEF Read
<1>10. /\ h2.session = h.session /\ h2.waiting = h.waiting /\ h2.line = h.line
       /\ h2.down = down' /\ h.down[c] = q
  BY <1>2, HostStateIs, NextStates
<1>11. IsList(q)
  BY <1>1
<1>12. PICK list : list = waiting[j]
  OBVIOUS
<1>13. Head(q) # Fin => (Closed(Tail(q)) <=> Closed(q))
  BY <1>6, <1>11, ClosedTail
<1>14. JoinerHears(j) => (now = "knocking" => q # <<Fin>>)
  <2>1. ASSUME JoinerHears(j), q = <<Fin>> PROVE phase'[j] # "knocking"
    <3>1. PICK then : then \in {"over", "lost"} /\ phase' = [phase EXCEPT ![j] = then]
      BY <2>1 DEF JoinerHears
    <3>2. QED
      BY <1>1, <3>1 DEF Shape
  <2>2. QED
    BY <1>4, <2>1
<1>15. ASSUME JoinerRejoins(j) PROVE ListOK(h2, j, now, c, list)
  <2>1. Head(q).type = "Rejoin" /\ h2.down[c] = Tail(q) /\ now = "playing"
    BY <1>8, <1>10, <1>15
  <2>2. Head(q) # Fin
    BY <2>1 DEF Fin, Msg
  <2>3. ListOK(h, j, "knocking", c, list)
    BY <1>5, <1>12
  <2> HIDE DEF h, h2, q
  <2>4. ASSUME h2.line[c] = "seated", h2.session.retired[j] = None, ~Closed(h2.down[c])
        PROVE  Told(h2.waiting, j, list, h2.down[c], 0)
    <3>1. Answered(h.waiting, j, list, q)
      BY <1>10, <1>13, <2>1, <2>2, <2>3, <2>4 DEF ListOK
    <3>2. PICK waits : waits = h.waiting
      OBVIOUS
    <3>3. Answered(waits, j, list, q) /\ q # <<>>
      BY <1>6, <3>1, <3>2
    <3>4. Told(waits, j, list, Tail(q), 0)
      BY <1>11, <2>1, <3>3, ReadsAnswer
    <3>5. QED
      BY <1>10, <2>1, <3>2, <3>4
  <2>5. ListOK(h2, j, now, c, list)
    BY <2>1, <2>4 DEF ListOK
  <2>6. QED
    BY <2>5 DEF h2
<1>16. ASSUME JoinerHears(j) PROVE ListOK(h2, j, now, c, list)
  <2>1. CASE now # "knocking"
    <3>1. now \notin {"playing", "knocking"}
      BY <1>9, <1>16, <2>1
    <3> HIDE DEF h2
    <3>2. QED
      BY <3>1, ListStopped DEF h2
  <2>2. CASE now = "knocking"
    <3>1. q # <<Fin>> /\ h2.down[c] = Tail(q)
      BY <1>9, <1>10, <1>16, <1>14, <2>2
    <3>2. Closed(Tail(q)) <=> Closed(q)
      BY <1>6, <1>11, <3>1, MoreToCome
    <3>3. ListOK(h, j, "knocking", c, list)
      BY <1>5, <1>12
    <3> HIDE DEF h, h2, q
    <3>4. ASSUME h2.line[c] = "seated", h2.session.retired[j] = None, ~Closed(h2.down[c])
          PROVE  Answered(h2.waiting, j, list, h2.down[c])
      <4>1. Answered(h.waiting, j, list, q)
        BY <1>10, <3>1, <3>2, <3>3, <3>4 DEF ListOK
      <4>2. PICK waits : waits = h.waiting
        OBVIOUS
      <4>3. Answered(waits, j, list, q) /\ q # <<>>
        BY <1>6, <4>1, <4>2
      <4>4. Answered(waits, j, list, Tail(q))
        BY <1>11, <4>3, ReadsBefore
      <4>5. QED
        BY <1>10, <3>1, <4>2, <4>4
    <3>5. QED
      <4>1. ListOK(h2, j, now, c, list)
        BY <2>2, <3>3, <3>4 DEF ListOK
      <4>2. QED
        BY <4>1 DEF h2
  <2>3. QED
    BY <2>1, <2>2
<1>17. ListOK(h2, j, now, c, list)
  BY <1>15, <1>16
<1>18. ConnOf(j)' = c /\ waiting'[j] = list
  BY <1>2, <1>12 DEF ConnOf
<1>19. ListOK(HostState', j, phase'[j], ConnOf(j)', waiting'[j])
  BY <1>4, <1>17, <1>18 DEF h2
<1>20. /\ session'[Host] = session[Host] /\ waiting'[Host] = waiting[Host]
       /\ \A i \in Joiners \ {j} : waiting'[i] = waiting[i] /\ phase'[i] = phase[i] /\ conn'[i] = conn[i]
       /\ \A d \in Conns : SlotOf(d) # j => line'[d] = line[d] /\ down'[d] = down[d]
  BY <1>1, <1>2, <1>4, <1>7
<1>21. Shape
  BY <1>1
<1>22. QED
  BY <1>19, <1>20, <1>21, ListsJoiner

(***************************************************************************)
(* What befalls the game.                                                  *)
(***************************************************************************)
LEMMA ListsBreak ==
  ASSUME LiveInv, ListsOK, NEW c \in Conns, Break(c)
  PROVE  ListsOK'
<1> DEFINE h == HostState
           h2 == HostState'
           j == SlotOf(c)
<1>1. Shape /\ j \in Joiners /\ Wired(h) /\ Lists(h) /\ h.down = down
  BY ConnsAre, HostIs, HostStateIs
<1>2. /\ UNCHANGED <<session, waiting, line, phase, conn>>
      /\ \E told \in Lossy(down[c]) : down' = [down EXCEPT ![c] = told]
  BY DEF Break
<1>3. PICK told \in Lossy(down[c]) : down' = [down EXCEPT ![c] = told]
  BY <1>2
<1>4. Closed(told) /\ down'[c] = told /\ \A d \in Conns : d # c => down'[d] = down[d]
  <2>1. IsList(down[c]) /\ DOMAIN down = Conns
    BY <1>1 DEF Lists, Wired
  <2>2. Closed(told)
    BY <2>1, LossyIs
  <2>3. QED
    BY <1>3, <2>1, <2>2
<1>5. /\ h2.session = h.session /\ h2.waiting = h.waiting /\ h2.line = h.line /\ h2.down = down'
  BY <1>2, HostStateIs, NextStates
<1>6. PICK i, why, k, list : i = j /\ why = phase[j] /\ k = ConnOf(j) /\ list = waiting[j]
  OBVIOUS
<1>7. ListOK(h, i, why, k, list) /\ k \in Conns
  BY <1>1, <1>6, ConnIs DEF ListsOK
<1>8. h.down = down
  BY <1>1
<1> HIDE DEF h, h2
<1>9. ListOK(h2, i, why, k, list)
  <2>1. CASE k = c
    <3>1. Closed(h2.down[k]) /\ (why = "knocking" => list = {})
      BY <1>4, <1>5, <1>7, <2>1 DEF ListOK
    <3>2. QED
      BY <3>1, ListUnheard
  <2>2. CASE k # c
    <3>1. h2.down[k] = h.down[k]
      BY <1>4, <1>5, <1>7, <1>8, <2>2
    <3>2. QED
      BY <1>5, <1>7, <3>1 DEF ListOK
  <2>3. QED
    BY <2>1, <2>2
<1>10. j \in Slots /\ phase'[j] = phase[j] /\ ConnOf(j)' = ConnOf(j) /\ waiting'[j] = waiting[j]
  BY <1>1, <1>2 DEF ConnOf, Joiners
<1>11. ListOK(HostState', j, phase'[j], ConnOf(j)', waiting'[j])
  BY <1>6, <1>9, <1>10 DEF h2
<1>12. /\ session'[Host] = session[Host] /\ waiting'[Host] = waiting[Host]
       /\ \A s \in Joiners \ {j} : waiting'[s] = waiting[s] /\ phase'[s] = phase[s] /\ conn'[s] = conn[s]
       /\ \A d \in Conns : SlotOf(d) # j => line'[d] = line[d] /\ down'[d] = down[d]
  BY <1>2, <1>4
<1> HIDE DEF j
<1>13. QED
  BY <1>1, <1>11, <1>12, ListsJoiner

\* Nothing of it changes: a world drifts, or nothing happens.
LEMMA ListsStill ==
  ASSUME ListsOK, UNCHANGED <<session, waiting, line, down, phase, conn>>
  PROVE  ListsOK'
<1> DEFINE h == HostState
           h2 == HostState'
<1>1. h2.session = h.session /\ h2.waiting = h.waiting /\ h2.line = h.line /\ h2.down = h.down
  BY HostStateIs, NextStates
<1>2. \A j \in Joiners : ListOK(h, j, phase[j], ConnOf(j), waiting[j])
  BY DEF ListsOK
<1> HIDE DEF h, h2
<1>3. \A j \in Joiners : ListOK(h2, j, phase[j], ConnOf(j), waiting[j])
  BY <1>1, <1>2 DEF ListOK
<1>4. \A j \in Joiners : phase'[j] = phase[j] /\ ConnOf(j)' = ConnOf(j) /\ waiting'[j] = waiting[j]
  BY DEF ConnOf
<1>5. QED
  BY <1>3, <1>4 DEF ListsOK, h2

LEMMA ListsStart == Init => ListsOK
<1> HAVE Init
<1> DEFINE h == HostState
<1>1. SUFFICES ASSUME NEW j \in Joiners PROVE ListOK(h, j, phase[j], ConnOf(j), waiting[j])
  BY DEF ListsOK
<1>2. Host \in Slots /\ j \in Slots /\ MaxConn \in Nat
  BY LiveAssumption DEF Joiners
<1>3. phase[j] = "playing" /\ waiting[j] = {} /\ waiting[Host] = {} /\ conn[j] = 0
  BY <1>2 DEF Init
<1>4. ConnOf(j) \in Conns
  BY <1>2, <1>3 DEF ConnOf, Conns
<1>5. h.waiting = {} /\ h.down[ConnOf(j)] = <<>>
  BY <1>3, <1>4, HostStateIs DEF Init
<1>6. PICK waits, q, list : waits = h.waiting /\ q = h.down[ConnOf(j)] /\ list = waiting[j]
  OBVIOUS
<1>7. waits = {} /\ list = {} /\ DOMAIN q = {}
  BY <1>3, <1>5, <1>6
<1>8. \A x \in Joiners : ~WaitsFor(list, q, 0, x)
  BY <1>7 DEF WaitsFor
<1>9. Told(waits, j, list, q, 0)
  BY <1>7, <1>8 DEF Told
<1> HIDE DEF h
<1>10. QED
  BY <1>3, <1>6, <1>9 DEF ListOK

LEMMA ListsSteps ==
  ASSUME LiveInv, OneKnock, ListsOK, [Next]_vars
  PROVE  ListsOK'
<1>1. CASE HostRuns \/ HostQuiet \/ HostTimeout \/ HostLeaves
  BY <1>1, ListsSeal, ListsAccept, ListsAdvance, ListsResync, ListsQuiet, ListsTimeout, ListsLeave
  DEF HostRuns
<1>2. CASE \E c \in Conns : HostSteps(c) \/ Break(c)
  BY <1>2, ListsTick, ListsKnock, ListsLeaving, ListsToldHalt, ListsDropped, ListsBreak DEF HostSteps
<1>3. CASE \E orders \in Ordered, plays \in BOOLEAN : HostPump(orders, plays)
  BY <1>3, ListsPump
<1>4. CASE \E j \in Joiners :
             JoinerRuns(j) \/ JoinerTimeout(j) \/ JoinerLeaves(j) \/ JoinerReturns(j) \/ Crash(j)
  <2>1. PICK j \in Joiners :
          JoinerRuns(j) \/ JoinerTimeout(j) \/ JoinerLeaves(j) \/ JoinerReturns(j) \/ Crash(j)
    BY <1>4
  <2>2. CASE JoinerRuns(j) \/ JoinerTimeout(j)
    <3>1. CASE JoinerSeal(j) \/ JoinerDropped(j) \/ JoinerAdvance(j) \/ JoinerAdopt(j) \/ JoinerTimeout(j)
      BY <3>1, ListsRuns
    <3>2. CASE JoinerTick(j) \/ JoinerToldHalt(j) \/ JoinerResyncAt(j) \/ JoinerResync(j)
      BY <3>2, ListsHears
    <3>3. CASE JoinerRetire(j) \/ JoinerAway(j) \/ JoinerBack(j)
      BY <3>3, ListsHearsOf
    <3>4. QED
      BY <2>2, <3>1, <3>2, <3>3 DEF JoinerRuns, JoinerHearsHost
  <2>3. CASE JoinerLeaves(j) \/ Crash(j)
    BY <2>3, ListsGoes
  <2>4. CASE JoinerReturns(j)
    BY <2>4, ListsComesBack, ListsAnswer DEF JoinerReturns
  <2>5. QED
    BY <2>1, <2>2, <2>3, <2>4
<1>5. CASE \E j \in Joiners, orders \in Ordered : JoinerPump(j, orders)
  BY <1>5, ListsRuns
<1>6. CASE \E s \in Slots : Drift(s)
  BY <1>6, ListsStill DEF Drift
<1>7. CASE UNCHANGED vars
  BY <1>7, ListsStill DEF vars
<1>8. QED
  BY <1>1, <1>2, <1>3, <1>4, <1>5, <1>6, <1>7 DEF Next

LEMMA ListsAgree == LiveInv /\ ListsOK => WaitingListsAgree
<1> HAVE LiveInv /\ ListsOK
<1>1. SUFFICES ASSUME NEW j \in InGame \ {Host}, line[ConnOf(j)] = "seated", down[ConnOf(j)] = <<>>
               PROVE  waiting[j] = waiting[Host] \ {j}
  BY DEF WaitingListsAgree
<1>2. j \in Joiners /\ j \in Slots /\ Host \in Slots /\ phase[j] = "playing" /\ session[Host].retired[j] = None
  BY LiveAssumption DEF InGame, Joiners
<1>3. waiting[j] \subseteq Joiners /\ waiting[Host] \subseteq Joiners
  BY <1>2 DEF LiveInv, Shape
<1>4. ListOK(HostState, j, phase[j], ConnOf(j), waiting[j])
  BY <1>2 DEF ListsOK
<1>5. ~Closed(down[ConnOf(j)])
  BY <1>1 DEF Closed
<1>6. Told(waiting[Host], j, waiting[j], down[ConnOf(j)], 0)
  BY <1>1, <1>2, <1>4, <1>5, HostStateIs DEF ListOK
<1>7. PICK waits, q, list : waits = waiting[Host] /\ q = down[ConnOf(j)] /\ list = waiting[j]
  OBVIOUS
<1>8. DOMAIN q = {}
  BY <1>1, <1>7
<1>9. \A x \in Joiners : WaitsFor(list, q, 0, x) <=> x \in list
  BY <1>8 DEF WaitsFor
<1>10. \A x \in Joiners : x \in list <=> x \in waits \ {j}
  BY <1>6, <1>7, <1>9 DEF Told
<1>11. QED
  BY <1>3, <1>7, <1>10

(***************************************************************************)
(* A seat that has heard all its host has said waits for the seats its     *)
(* host waits for, whichever seats were dropped, came back and were        *)
(* retired in the meantime, and in whatever order a seat that came back    *)
(* heard of the others: the list is never sent whole but to one that comes *)
(* back, only what changes (Live::drop_slot, Live::admit, Live::welcome,   *)
(* to_computer, check_timeout).                                            *)
(***************************************************************************)
THEOREM LiveListsAgree == Spec /\ []OneKnock => []WaitingListsAgree
<1>1. Init => LiveInv /\ ListsOK
  BY LiveStarts, ListsStart
<1>2. (LiveInv /\ ListsOK) /\ OneKnock /\ [Next]_vars => (LiveInv /\ ListsOK)'
  BY LiveSteps, ListsSteps
<1>3. LiveInv /\ ListsOK => WaitingListsAgree
  BY ListsAgree
<1>4. QED
  BY <1>1, <1>2, <1>3, PTL DEF Spec

\* The same with nothing assumed but that a player comes back once at most.
THEOREM LiveListsOnOneReturn ==
  ASSUME MaxConn <= 1
  PROVE  Spec => []WaitingListsAgree
<1>1. Init => LiveInv /\ ListsOK
  BY LiveStarts, ListsStart
<1>2. (LiveInv /\ ListsOK) /\ [Next]_vars => (LiveInv /\ ListsOK)'
  BY LiveSteps, ListsSteps, OneReturn
<1>3. LiveInv /\ ListsOK => WaitingListsAgree
  BY ListsAgree
<1>4. QED
  BY <1>1, <1>2, <1>3, PTL DEF Spec
=============================================================================
