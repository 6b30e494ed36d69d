--------------------------- MODULE TransportProofs ---------------------------
(***************************************************************************)
(* That a transport's connections keep the frames they carry in a row,     *)
(* whatever pieces writes and reads cut them into; that its cursor passes  *)
(* nobody over; and that each way of a connection is a Stream.             *)
(***************************************************************************)
EXTENDS Transport, FiniteSetTheorems, SequenceTheorems, TLAPS

(***************************************************************************)
(* Kept: a sequence without some of its members.                           *)
(***************************************************************************)
\* The places a sequence is kept at can be put in ascending order: each has its rank.
LEMMA Ascending ==
  ASSUME NEW n \in Nat, NEW P \in SUBSET (1 .. n)
  PROVE  /\ Cardinality(P) \in Nat
         /\ \E p \in [1 .. Cardinality(P) -> P] :
              \A i, k \in DOMAIN p : i < k => p[i] < p[k]
<1> DEFINE size == Cardinality(P)
           before(c) == {d \in P : d < c}
           place == [c \in P |-> Cardinality(before(c)) + 1]
<1>0. IsFiniteSet(P) /\ size \in Nat
  <2>1. n \in Int /\ 1 \in Int
    OBVIOUS
  <2>2. IsFiniteSet(1 .. n)
    BY <2>1, FS_Interval
  <2>3. QED
    BY <2>2, FS_Subset, FS_CardinalityType
<1>1. \A c \in P : c \in Nat
  OBVIOUS
<1>2. \A c \in P : IsFiniteSet(before(c)) /\ Cardinality(before(c)) \in Nat
  BY <1>0, FS_Subset, FS_CardinalityType
<1>3. ASSUME NEW c \in P PROVE place[c] \in 1 .. size
  <2>1. before(c) \in SUBSET (P \ {c})
    BY <1>1
  <2>2. IsFiniteSet(P \ {c}) /\ Cardinality(P \ {c}) = size - 1
    BY <1>0, FS_RemoveElement
  <2>3. Cardinality(before(c)) <= size - 1
    BY <2>1, <2>2, FS_Subset
  <2>4. QED
    BY <1>0, <1>2, <2>3
<1>4. ASSUME NEW c \in P, NEW d \in P, c < d PROVE place[c] < place[d]
  <2>0. c \in Nat /\ d \in Nat
    BY <1>1
  <2>1. before(c) \subseteq before(d) /\ c \in before(d) /\ c \notin before(c)
    <3>1. ASSUME NEW e \in P, e < c PROVE e < d
      BY <1>1, <1>4, <2>0, <3>1
    <3>2. ~(c < c)
      BY <2>0
    <3>3. QED
      BY <1>4, <3>1, <3>2
  <2>2. before(c) \in SUBSET (before(d) \ {c})
    BY <2>1
  <2> HIDE DEF before
  <2>3. IsFiniteSet(before(d) \ {c}) /\ Cardinality(before(d) \ {c}) = Cardinality(before(d)) - 1
    BY <1>2, <2>1, FS_RemoveElement
  <2>4. Cardinality(before(c)) <= Cardinality(before(d)) - 1
    BY <2>2, <2>3, FS_Subset
  <2>5. QED
    BY <1>2, <2>4
<1> HIDE DEF place
<1>5. place \in [P -> 1 .. size]
  BY <1>3 DEF place
<1>6. \A c, d \in P : place[c] = place[d] => c = d
  <2>1. ASSUME NEW c \in P, NEW d \in P, place[c] = place[d] PROVE c = d
    <3>1. place[c] \in Nat /\ c \in Nat /\ d \in Nat
      BY <1>0, <1>1, <1>5
    <3>2. ~(c < d) /\ ~(d < c)
      BY <1>4, <2>1, <3>1
    <3>3. QED
      BY <3>1, <3>2
  <2>2. QED
    BY <2>1
<1>7. place \in Surjection(P, 1 .. size)
  <2>1. place \in Injection(P, 1 .. size)
    BY <1>5, <1>6 DEF Injection, IsInjective
  <2>2. IsFiniteSet(1 .. size) /\ Cardinality(1 .. size) = size
    <3>1. size \in Int /\ 1 \in Int
      BY <1>0
    <3> HIDE DEF size
    <3>2. IsFiniteSet(1 .. size)
      BY <3>1, FS_Interval
    <3>3. Cardinality(1 .. size) = size
      BY <1>0, <3>1, FS_Interval
    <3>4. QED
      BY <3>2, <3>3
  <2>3. QED
    BY <1>0, <2>1, <2>2, FS_Injection DEF size
<1>8. \A i \in 1 .. size : \E c \in P : place[c] = i
  BY <1>7 DEF Surjection
<1> DEFINE p == [i \in 1 .. size |-> CHOOSE c \in P : place[c] = i]
<1>9. p \in [1 .. size -> P] /\ \A i \in 1 .. size : place[p[i]] = i
  BY <1>8
<1> HIDE DEF p
<1>10. ASSUME NEW i \in DOMAIN p, NEW k \in DOMAIN p, i < k PROVE p[i] < p[k]
  <2>1. /\ p[i] \in P /\ p[k] \in P /\ place[p[i]] = i /\ place[p[k]] = k
        /\ i \in Int /\ k \in Int
    BY <1>0, <1>9
  <2>2. PICK c \in P, d \in P : c = p[i] /\ d = p[k]
    BY <2>1
  <2>3. c \in Nat /\ d \in Nat /\ place[c] < place[d]
    BY <1>1, <1>10, <2>1, <2>2
  <2>4. c # d /\ ~(d < c)
    <3>1. place[c] \in Nat /\ place[d] \in Nat
      BY <2>1, <2>2, <1>9
    <3>2. ASSUME d < c PROVE place[d] < place[c]
      BY <1>4, <3>2
    <3>3. QED
      BY <2>3, <3>1, <3>2
  <2>5. QED
    BY <2>2, <2>3, <2>4
<1>11. QED
  BY <1>0, <1>9, <1>10

\* Places in ascending order are all the places.
LEMMA AllPlaces ==
  ASSUME NEW n \in Nat, NEW P \in SUBSET (1 .. n), NEW p \in [1 .. Cardinality(P) -> P],
         \A i, k \in DOMAIN p : i < k => p[i] < p[k]
  PROVE  /\ \A i, k \in 1 .. Cardinality(P) : p[i] = p[k] => i = k
         /\ \A c \in P : \E i \in 1 .. Cardinality(P) : p[i] = c
<1> DEFINE size == Cardinality(P)
<1>1. IsFiniteSet(P) /\ size \in Nat
  <2>1. n \in Int /\ 1 \in Int
    OBVIOUS
  <2>2. IsFiniteSet(1 .. n)
    BY <2>1, FS_Interval
  <2>3. QED
    BY <2>2, FS_Subset, FS_CardinalityType
<1>2. ASSUME NEW i \in 1 .. size, NEW k \in 1 .. size, p[i] = p[k] PROVE i = k
  <2>0. p[i] \in 1 .. n /\ DOMAIN p = 1 .. size
    OBVIOUS
  <2> HIDE DEF size
  <2>1. i \in Nat /\ k \in Nat /\ p[i] \in Nat
    BY <1>1, <2>0
  <2>2. i < k => p[i] < p[k]
    BY <2>0
  <2>3. k < i => p[k] < p[i]
    BY <2>0
  <2>4. QED
    BY <1>2, <2>1, <2>2, <2>3
<1>3. p \in Injection(1 .. size, P)
  BY <1>2 DEF Injection, IsInjective
<1>4. IsFiniteSet(1 .. size) /\ Cardinality(1 .. size) = size
  <2>1. size \in Int /\ 1 \in Int
    BY <1>1
  <2> HIDE DEF size
  <2>2. IsFiniteSet(1 .. size)
    BY <2>1, FS_Interval
  <2>3. Cardinality(1 .. size) = size
    BY <1>1, <2>1, FS_Interval
  <2>4. QED
    BY <2>2, <2>3
<1>5. p \in Surjection(1 .. size, P)
  BY <1>1, <1>3, <1>4, FS_Injection DEF size
<1>6. QED
  BY <1>2, <1>5 DEF Surjection

\* A set of places has a first one.
LEMMA FirstPlace ==
  ASSUME NEW n \in Nat, NEW P \in SUBSET (1 .. n), P # {}
  PROVE  \E x \in P : \A y \in P : x <= y
<1>1. PICK p \in [1 .. Cardinality(P) -> P] : \A i, k \in DOMAIN p : i < k => p[i] < p[k]
  BY Ascending
<1>2. Cardinality(P) \in Nat /\ \A c \in P : \E i \in 1 .. Cardinality(P) : p[i] = c
  <2>1. Cardinality(P) \in Nat
    BY Ascending
  <2>2. QED
    BY <1>1, <2>1, AllPlaces
<1>3. 1 \in 1 .. Cardinality(P)
  <2>1. PICK c \in P, i \in 1 .. Cardinality(P) : p[i] = c
    BY <1>2
  <2>2. QED
    BY <1>2, <2>1
<1>4. ASSUME NEW y \in P PROVE p[1] <= y
  <2>1. PICK i \in 1 .. Cardinality(P) : p[i] = y
    BY <1>2
  <2>2. p[1] \in Nat /\ y \in Nat
    <3>1. p[1] \in P
      BY <1>3
    <3>2. p[1] \in 1 .. n /\ y \in 1 .. n
      BY <3>1
    <3>3. QED
      BY <3>2
  <2>3. i = 1 \/ 1 < i
    BY <1>2
  <2>4. 1 < i => p[1] < p[i]
    BY <1>1, <1>3
  <2>5. QED
    BY <2>1, <2>2, <2>3, <2>4
<1>5. QED
  BY <1>3, <1>4

\* Those of a sequence that are kept, in an order that repeats none that was not repeated.
LEMMA KeptFacts ==
  ASSUME NEW T, NEW s \in Seq(T), NEW S
  PROVE  /\ Kept(s, S) \in Seq(T)
         /\ Range(Kept(s, S)) = Range(s) \cap S
         /\ IsInjective(s) => IsInjective(Kept(s, S))
         /\ Range(s) \subseteq S => Len(Kept(s, S)) = Len(s)
<1> DEFINE P == {i \in DOMAIN s : s[i] \in S}
           size == Cardinality(P)
           order(p) == \A i, k \in DOMAIN p : i < k => p[i] < p[k]
           place == CHOOSE p \in [1 .. size -> P] : order(p)
<1>1. P \in SUBSET (1 .. Len(s)) /\ Len(s) \in Nat /\ DOMAIN s = 1 .. Len(s)
  OBVIOUS
<1>2. size \in Nat /\ \E p \in [1 .. size -> P] : order(p)
  BY <1>1, Ascending
<1>3. place \in [1 .. size -> P] /\ order(place)
  BY <1>2
<1>4. Kept(s, S) = [i \in 1 .. size |-> s[place[i]]]
  BY DEF Kept
<1>5. \A i \in 1 .. size : place[i] \in 1 .. Len(s) /\ s[place[i]] \in S
  BY <1>1, <1>3
<1>6. /\ \A i, k \in 1 .. size : place[i] = place[k] => i = k
      /\ \A c \in P : \E i \in 1 .. size : place[i] = c
  <2>1. PICK p \in [1 .. size -> P] : p = place /\ order(p)
    BY <1>3
  <2>2. /\ \A i, k \in 1 .. size : p[i] = p[k] => i = k
        /\ \A c \in P : \E i \in 1 .. size : p[i] = c
    <3> HIDE DEF place
    <3>1. \A i, k \in DOMAIN p : i < k => p[i] < p[k]
      BY <2>1
    <3> HIDE DEF P
    <3>2. QED
      BY <1>1, <3>1, AllPlaces, Zenon DEF size
  <2>3. QED
    BY <2>1, <2>2
<1> HIDE DEF place, size
<1>8. Kept(s, S) \in Seq(T) /\ DOMAIN Kept(s, S) = 1 .. size /\ Len(Kept(s, S)) = size
  <2>1. \A i \in 1 .. size : s[place[i]] \in T
    BY <1>1, <1>5
  <2>2. Kept(s, S) \in [1 .. size -> T]
    BY <1>4, <2>1
  <2>3. QED
    BY <1>2, <2>2
<1>9. Range(Kept(s, S)) = Range(s) \cap S
  <2>1. ASSUME NEW x \in Range(Kept(s, S)) PROVE x \in Range(s) \cap S
    BY <1>1, <1>4, <1>5, <1>8, <2>1 DEF Range
  <2>2. ASSUME NEW x \in Range(s) \cap S PROVE x \in Range(Kept(s, S))
    <3>1. PICK c \in P : s[c] = x
      BY <2>2 DEF Range
    <3>2. PICK i \in 1 .. size : place[i] = c
      BY <1>6
    <3>3. QED
      BY <1>4, <1>8, <3>1, <3>2 DEF Range
  <2>3. QED
    BY <2>1, <2>2
<1>10. ASSUME IsInjective(s) PROVE IsInjective(Kept(s, S))
  BY <1>1, <1>4, <1>5, <1>6, <1>8, <1>10 DEF IsInjective
<1>11. ASSUME Range(s) \subseteq S PROVE Len(Kept(s, S)) = Len(s)
  <2>1. P = 1 .. Len(s)
    BY <1>1, <1>11 DEF Range
  <2>2. Cardinality(1 .. Len(s)) = Len(s)
    <3>1. Len(s) \in Int /\ 1 \in Int
      BY <1>1
    <3> DEFINE l == Len(s)
    <3> HIDE DEF l
    <3>2. l \in Int /\ 1 \in Int /\ l >= 0
      BY <1>1 DEF l
    <3>3. Cardinality(1 .. l) = l
      BY <3>2, FS_Interval
    <3>4. QED
      BY <3>3 DEF l
  <2>3. QED
    BY <1>8, <2>1, <2>2 DEF size
<1>12. QED
  BY <1>8, <1>9, <1>10, <1>11

(***************************************************************************)
(* Ways, pieces and connections.                                           *)
(***************************************************************************)
LEMMA WayFacts ==
  ASSUME NEW w \in Ways
  PROVE  /\ w = <<w[1], w[2]>> /\ w[1] \in Programs /\ w[2] \in Programs /\ w[1] # w[2]
         /\ Back(w) \in Ways /\ Back(w)[1] = w[2] /\ Back(w)[2] = w[1]
         /\ Back(Back(w)) = w /\ Back(w) # w
         /\ Joiner(w) \in Joiners /\ Joiner(Back(w)) = Joiner(w)
         /\ Host \in {w[1], w[2]}
<1>1. w = <<w[1], w[2]>> /\ w[1] \in Programs /\ w[2] \in Programs /\ w[1] # w[2] /\ Host \in {w[1], w[2]}
  BY DEF Ways
<1>2. Back(w) = <<w[2], w[1]>> /\ Back(w)[1] = w[2] /\ Back(w)[2] = w[1]
  BY DEF Back
<1>3. Back(w) \in Ways
  BY <1>1, <1>2 DEF Ways
<1>4. Back(Back(w)) = w /\ Back(w) # w
  BY <1>1, <1>2 DEF Back
<1>5. Joiner(w) \in Joiners /\ Joiner(Back(w)) = Joiner(w)
  BY <1>1, <1>2 DEF Joiner, Programs
<1>6. QED
  BY <1>1, <1>2, <1>3, <1>4, <1>5

\* A frame reader takes its pieces two by two.
LEMMA ReaderFacts ==
  ASSUME NEW pieces \in Seq(Piece)
  PROVE  /\ Messages(pieces) \in Seq(Nat) /\ Len(Messages(pieces)) = Len(pieces) \div 2
         /\ Rest(pieces) \in Seq(Piece) /\ Len(Rest(pieces)) = Len(pieces) % 2
<1> DEFINE h == Len(pieces) \div 2
<1>1. Len(pieces) \in Nat /\ h \in Nat /\ 2 * h <= Len(pieces)
  OBVIOUS
<1>2. \A i \in 1 .. h : 2 * i \in 1 .. Len(pieces)
  BY <1>1
<1>3. \A i \in 1 .. h : pieces[2 * i].of \in Nat
  <2>1. \A j \in 1 .. Len(pieces) : pieces[j] \in Piece
    OBVIOUS
  <2>2. \A p \in Piece : p.of \in Nat
    BY DEF Piece
  <2>3. QED
    BY <1>2, <2>1, <2>2, Zenon
<1>4. Messages(pieces) = [i \in 1 .. h |-> pieces[2 * i].of]
  BY DEF Messages
<1> HIDE DEF h
<1>5. Messages(pieces) \in Seq(Nat) /\ Len(Messages(pieces)) = h
  <2>1. Messages(pieces) \in [1 .. h -> Nat]
    BY <1>3, <1>4
  <2>2. QED
    BY <1>1, <2>1
<1>6. Rest(pieces) \in Seq(Piece) /\ Len(Rest(pieces)) = Len(pieces) % 2
  <2>1. CASE Len(pieces) % 2 = 1
    <3>1. Len(pieces) \in 1 .. Len(pieces)
      BY <1>1, <2>1
    <3>2. PICK p \in Piece : p = pieces[Len(pieces)]
      BY <3>1
    <3>3. <<p>> \in Seq(Piece) /\ Len(<<p>>) = 1
      OBVIOUS
    <3>4. QED
      BY <2>1, <3>2, <3>3 DEF Rest
  <2>2. CASE Len(pieces) % 2 # 1
    <3>1. Len(pieces) % 2 = 0
      BY <1>1, <2>2
    <3>2. QED
      BY <2>2, <3>1 DEF Rest
  <2>3. QED
    BY <2>1, <2>2
<1>7. QED
  BY <1>5, <1>6 DEF h

\* flush writes a first part of what waits, no more than the kernel takes, and nothing on
\* a connection that is reset.
LEMMA FlushFacts ==
  ASSUME NEW w \in Ways, NEW c \in Connection, TransportAssumption,
         wire[w] \in Seq(Piece), Len(wire[w]) <= Window
  PROVE  /\ Written(w, c) \in 0 .. Len(c.out)
         /\ Len(wire[w]) + Written(w, c) <= Window
         /\ Broken(w) => Written(w, c) = 0
         /\ Flushed(w, c) \in Connection
         /\ Flushed(w, c).out = SubSeq(c.out, Written(w, c) + 1, Len(c.out))
         /\ Flushed(w, c).reader = c.reader /\ Flushed(w, c).inbox = c.inbox
         /\ WireAfter(w, c) = wire[w] \o SubSeq(c.out, 1, Written(w, c))
         /\ WireAfter(w, c) \in Seq(Piece)
         /\ Len(WireAfter(w, c)) = Len(wire[w]) + Written(w, c)
<1> DEFINE k == Written(w, c)
<1>1. PICK out \in Seq(Piece) : out = c.out
  BY DEF Connection
<1>2. Len(out) \in Nat /\ Len(wire[w]) \in Nat /\ Window \in Nat
  BY DEF TransportAssumption
<1>3. k \in 0 .. Len(out) /\ Len(wire[w]) + k <= Window /\ (Broken(w) => k = 0)
  <2>1. CASE Flushable(w, c) /\ ~Broken(w)
    <3>1. k = IF Len(out) < Window - Len(wire[w]) THEN Len(out) ELSE Window - Len(wire[w])
      BY <1>1, <2>1 DEF Written, Lesser
    <3>2. PICK a \in Nat, b \in Nat : a = Len(out) /\ b = Len(wire[w])
      BY <1>2
    <3> HIDE DEF k
    <3>3. k = (IF a < Window - b THEN a ELSE Window - b) /\ b <= Window
      BY <3>1, <3>2
    <3>4. k \in 0 .. a /\ b + k <= Window
      BY <1>2, <3>3
    <3>5. QED
      BY <2>1, <3>2, <3>4
  <2>2. CASE ~(Flushable(w, c) /\ ~Broken(w))
    <3>1. k = 0
      BY <2>2 DEF Written
    <3> HIDE DEF k
    <3>2. QED
      BY <1>2, <3>1
  <2>3. QED
    BY <2>1, <2>2
<1> HIDE DEF k
<1>4. /\ SubSeq(out, k + 1, Len(out)) \in Seq(Piece)
      /\ SubSeq(out, 1, k) \in Seq(Piece) /\ Len(SubSeq(out, 1, k)) = k
  BY <1>2, <1>3
<1>5. /\ Flushed(w, c) = [c EXCEPT !.out = SubSeq(out, k + 1, Len(out)),
                                   !.dead = @ \/ (Flushable(w, c) /\ Broken(w))]
      /\ WireAfter(w, c) = wire[w] \o SubSeq(out, 1, k)
  BY <1>1 DEF Flushed, WireAfter, k
<1>6. (c.dead \/ (Flushable(w, c) /\ Broken(w))) \in BOOLEAN
  OBVIOUS
<1>7. Flushed(w, c) \in Connection
  BY <1>4, <1>5, <1>6 DEF Connection
<1>8. /\ Flushed(w, c).out = SubSeq(out, k + 1, Len(out))
      /\ Flushed(w, c).reader = c.reader /\ Flushed(w, c).inbox = c.inbox
  BY <1>5 DEF Connection
<1>9. PICK q \in Seq(Piece) : q = SubSeq(out, 1, k)
  BY <1>4
<1>10. WireAfter(w, c) \in Seq(Piece) /\ Len(WireAfter(w, c)) = Len(wire[w]) + k
  BY <1>4, <1>5, <1>9
<1>11. QED
  BY <1>1, <1>3, <1>5, <1>7, <1>8, <1>10 DEF k

\* fill reads a first part of the wire, or leaves a connection as it is.
LEMMA FillFacts ==
  ASSUME NEW w \in Ways, NEW c \in Connection, TransportAssumption,
         NEW come \in Seq(Piece), come = wire[Back(w)]
  PROVE  /\ Read(w, c) \in 0 .. Len(come)
         /\ Filled(w, c) \in Connection
         /\ Filled(w, c).out = c.out
         /\ \/ Filled(w, c) = c /\ Read(w, c) = 0
            \/ /\ c.inbox = <<>>
               /\ Filled(w, c).inbox = Messages(c.reader \o SubSeq(come, 1, Read(w, c)))
               /\ Filled(w, c).reader = Rest(c.reader \o SubSeq(come, 1, Read(w, c)))
<1> DEFINE k == Read(w, c)
<1>1. PICK reader \in Seq(Piece) : reader = c.reader
  BY DEF Connection
<1>2. Len(come) \in Nat /\ ReadBudget \in Nat
  BY DEF TransportAssumption
<1>3. k \in 0 .. Len(come)
  BY <1>2 DEF Read, Lesser
<1>4. CASE ~Fillable(c)
  <2>1. Filled(w, c) = c /\ Read(w, c) = 0
    BY <1>4 DEF Filled, Read
  <2>2. QED
    BY <1>3, <2>1
<1>5. CASE Fillable(c)
  <2> HIDE DEF k
  <2>0. SubSeq(come, 1, k) \in Seq(Piece)
    BY <1>2, <1>3
  <2>1. PICK q \in Seq(Piece) : q = SubSeq(come, 1, k)
    BY <2>0, Zenon
  <2>20. reader \o q \in Seq(Piece)
    OBVIOUS
  <2>2. PICK pieces \in Seq(Piece) : pieces = reader \o q
    BY <2>20, Zenon
  <2> DEFINE ends == k < ReadBudget /\ (closed[Back(w)] \/ Broken(w))
  <2>3. Filled(w, c) = [c EXCEPT !.inbox = Messages(pieces), !.reader = Rest(pieces), !.dead = ends]
    BY <1>1, <1>5, <2>1, <2>2 DEF Filled, k
  <2>4. ends \in BOOLEAN
    OBVIOUS
  <2> HIDE DEF ends
  <2>5. Messages(pieces) \in Seq(Nat) /\ Rest(pieces) \in Seq(Piece)
    BY ReaderFacts
  <2>6. /\ Filled(w, c) \in Connection /\ Filled(w, c).out = c.out
        /\ Filled(w, c).inbox = Messages(pieces) /\ Filled(w, c).reader = Rest(pieces)
    BY <2>3, <2>4, <2>5 DEF Connection
  <2>7. c.inbox = <<>>
    BY <1>5 DEF Fillable
  <2>8. pieces = c.reader \o SubSeq(come, 1, Read(w, c))
    BY <1>1, <2>1, <2>2 DEF k
  <2>9. QED
    BY <1>3, <2>6, <2>7, <2>8 DEF k
<1>6. QED
  BY <1>4, <1>5

(***************************************************************************)
(* What is on a way: messages, then pieces, one after another.             *)
(***************************************************************************)
LEMMA FromParts ==
  ASSUME NEW a \in Seq(Piece), NEW k \in Nat, From(a, k), NEW m \in 0 .. Len(a)
  PROVE  /\ From(SubSeq(a, 1, m), k) /\ From(SubSeq(a, m + 1, Len(a)), k + m)
         /\ SubSeq(a, 1, m) \in Seq(Piece) /\ Len(SubSeq(a, 1, m)) = m
         /\ SubSeq(a, m + 1, Len(a)) \in Seq(Piece) /\ Len(SubSeq(a, m + 1, Len(a))) = Len(a) - m
<1>1. Len(a) \in Nat /\ m \in Nat /\ m <= Len(a)
  OBVIOUS
<1>2. /\ SubSeq(a, 1, m) \in Seq(Piece) /\ Len(SubSeq(a, 1, m)) = m
      /\ \A i \in 1 .. m : SubSeq(a, 1, m)[i] = a[i] /\ i \in 1 .. Len(a)
  BY <1>1
<1>3. /\ SubSeq(a, m + 1, Len(a)) \in Seq(Piece) /\ Len(SubSeq(a, m + 1, Len(a))) = Len(a) - m
      /\ \A i \in 1 .. Len(a) - m : /\ SubSeq(a, m + 1, Len(a))[i] = a[m + i]
                                   /\ m + i \in 1 .. Len(a) /\ k + (m + i) = (k + m) + i
  BY <1>1
<1>4. From(SubSeq(a, 1, m), k)
  BY <1>2 DEF From
<1>5. From(SubSeq(a, m + 1, Len(a)), k + m)
  <2>1. ASSUME NEW i \in 1 .. Len(a) - m PROVE SubSeq(a, m + 1, Len(a))[i] = PieceAt((k + m) + i)
    <3>1. a[m + i] = PieceAt(k + (m + i))
      BY <1>3 DEF From
    <3>2. QED
      BY <1>3, <3>1
  <2>2. QED
    BY <1>3, <2>1 DEF From
<1>6. QED
  BY <1>2, <1>3, <1>4, <1>5

LEMMA FromJoined ==
  ASSUME NEW a \in Seq(Piece), NEW b \in Seq(Piece), NEW k \in Nat
  PROVE  /\ From(a, k) /\ From(b, k + Len(a)) => From(a \o b, k)
         /\ a \o b \in Seq(Piece) /\ Len(a \o b) = Len(a) + Len(b)
<1>1. Len(a) \in Nat /\ Len(b) \in Nat /\ a \o b \in Seq(Piece) /\ Len(a \o b) = Len(a) + Len(b)
  OBVIOUS
<1>2. ASSUME From(a, k), From(b, k + Len(a)), NEW i \in 1 .. Len(a) + Len(b)
      PROVE  (a \o b)[i] = PieceAt(k + i)
  <2>1. CASE i <= Len(a)
    <3>1. (a \o b)[i] = a[i] /\ i \in 1 .. Len(a)
      BY <1>1, <2>1
    <3>2. QED
      BY <1>2, <3>1 DEF From
  <2>2. CASE i > Len(a)
    <3>1. (a \o b)[i] = b[i - Len(a)] /\ i - Len(a) \in 1 .. Len(b)
      BY <1>1, <2>2
    <3>2. b[i - Len(a)] = PieceAt((k + Len(a)) + (i - Len(a)))
      BY <1>2, <3>1 DEF From
    <3>3. (k + Len(a)) + (i - Len(a)) = k + i
      BY <1>1
    <3>4. QED
      BY <3>1, <3>2, <3>3
  <2>3. QED
    BY <1>1, <2>1, <2>2
<1>3. QED
  BY <1>1, <1>2 DEF From

LEMMA FrameNext ==
  ASSUME NEW m \in Nat
  PROVE  Frame(m + 1) \in Seq(Piece) /\ Len(Frame(m + 1)) = 2 /\ From(Frame(m + 1), 2 * m)
<1> DEFINE l == [of |-> m + 1, piece |-> "length"]
           p == [of |-> m + 1, piece |-> "payload"]
<1>1. l \in Piece /\ p \in Piece
  BY DEF Piece
<1>2. (2 * m + 1 + 1) \div 2 = m + 1 /\ (2 * m + 2 + 1) \div 2 = m + 1
  OBVIOUS
<1>3. (2 * m + 1) % 2 = 1 /\ (2 * m + 2) % 2 # 1
  OBVIOUS
<1>4. PieceAt(2 * m + 1) = l /\ PieceAt(2 * m + 2) = p
  BY <1>2, <1>3 DEF PieceAt
<1> HIDE DEF l, p
<1>5. Frame(m + 1) = <<l, p>>
  BY DEF Frame, l, p
<1>6. <<l, p>> \in Seq(Piece) /\ Len(<<l, p>>) = 2 /\ <<l, p>>[1] = l /\ <<l, p>>[2] = p
  BY <1>1
<1>7. \A i \in 1 .. 2 : i = 1 \/ i = 2
  OBVIOUS
<1>8. QED
  BY <1>4, <1>5, <1>6, <1>7 DEF From

\* What a reader makes of frames in a row: their messages in a row, and the half of the next.
LEMMA ReadInARow ==
  ASSUME NEW pieces \in Seq(Piece), NEW f \in Nat, From(pieces, 2 * f)
  PROVE  LET n == Len(Messages(pieces)) IN
         /\ Messages(pieces) = [i \in 1 .. n |-> f + i]
         /\ From(Rest(pieces), 2 * (f + n))
         /\ n \in Nat /\ 2 * (f + n) + Len(Rest(pieces)) = 2 * f + Len(pieces)
<1> DEFINE n == Len(Messages(pieces))
<1>1. /\ n = Len(pieces) \div 2 /\ Len(pieces) \in Nat /\ n \in Nat
      /\ Len(Rest(pieces)) = Len(pieces) % 2 /\ 2 * n + (Len(pieces) % 2) = Len(pieces)
      /\ Len(pieces) % 2 \in 0 .. 1
  <2>1. n = Len(pieces) \div 2 /\ Len(Rest(pieces)) = Len(pieces) % 2
    BY ReaderFacts, Zenon
  <2>2. PICK l \in Nat : l = Len(pieces)
    OBVIOUS
  <2>3. l \div 2 \in Nat /\ 2 * (l \div 2) + (l % 2) = l /\ l % 2 \in 0 .. 1
    OBVIOUS
  <2>4. QED
    BY <2>1, <2>2, <2>3, Zenon
<1>2. Messages(pieces) = [i \in 1 .. n |-> pieces[2 * i].of]
  BY <1>1 DEF Messages
<1> HIDE DEF n
<1>3. ASSUME NEW i \in 1 .. n PROVE pieces[2 * i].of = f + i
  <2>1. 2 * i \in 1 .. Len(pieces)
    BY <1>1
  <2>2. pieces[2 * i] = PieceAt(2 * f + 2 * i)
    BY <2>1 DEF From
  <2>3. (2 * f + 2 * i + 1) \div 2 = f + i
    BY <1>1
  <2>4. QED
    BY <2>2, <2>3 DEF PieceAt
<1>4. Messages(pieces) = [i \in 1 .. n |-> f + i]
  BY <1>2, <1>3
<1>5. From(Rest(pieces), 2 * (f + n))
  <2>1. CASE Len(pieces) % 2 = 1
    <3>1. Len(pieces) \in 1 .. Len(pieces) /\ 2 * f + Len(pieces) = 2 * (f + n) + 1
      BY <1>1, <2>1
    <3>2. pieces[Len(pieces)] = PieceAt(2 * (f + n) + 1)
      BY <3>1 DEF From
    <3> DEFINE p == pieces[Len(pieces)]
    <3>3. Rest(pieces) = <<p>>
      BY <2>1 DEF Rest
    <3> HIDE DEF p
    <3>4. Len(<<p>>) = 1 /\ <<p>>[1] = p /\ \A i \in 1 .. 1 : i = 1
      OBVIOUS
    <3>5. p = PieceAt(2 * (f + n) + 1)
      BY <3>2 DEF p
    <3>6. QED
      BY <3>3, <3>4, <3>5 DEF From
  <2>2. CASE Len(pieces) % 2 # 1
    <3>1. Rest(pieces) = <<>> /\ 1 .. Len(<<>>) = {}
      BY <2>2 DEF Rest
    <3>2. QED
      BY <3>1 DEF From
  <2>3. QED
    BY <2>1, <2>2
<1>6. 2 * (f + n) + Len(Rest(pieces)) = 2 * f + Len(pieces)
  BY <1>1
<1>7. QED
  BY <1>1, <1>4, <1>5, <1>6 DEF n

\* A way with its messages and pieces in a row: g delivered, last the last one sent.
OnWay(g, inbox, reader, on, out, last, shut, broken) ==
  LET read == 2 * (g + Len(inbox))
      held == read + Len(reader)
      sentTo == held + Len(on)
  IN /\ inbox = [i \in 1 .. Len(inbox) |-> g + i]
     /\ From(reader, read) /\ From(on, held) /\ sentTo <= 2 * last
     /\ ~broken => From(out, sentTo) /\ sentTo + Len(out) <= 2 * last
     /\ broken \/ shut \/ sentTo + Len(out) = 2 * last

OnWayTyped(g, inbox, reader, on, out, last) ==
  /\ g \in Nat /\ inbox \in Seq(Nat) /\ last \in Nat
  /\ reader \in Seq(Piece) /\ on \in Seq(Piece) /\ out \in Seq(Piece)

LEMMA OnWayLengths ==
  ASSUME NEW g, NEW inbox, NEW reader, NEW on, NEW out, NEW last,
         OnWayTyped(g, inbox, reader, on, out, last)
  PROVE  /\ Len(inbox) \in Nat /\ Len(reader) \in Nat /\ Len(on) \in Nat /\ Len(out) \in Nat
         /\ 2 * (g + Len(inbox)) \in Nat /\ 2 * (g + Len(inbox)) + Len(reader) \in Nat
         /\ 2 * (g + Len(inbox)) + Len(reader) + Len(on) \in Nat
<1>1. Len(inbox) \in Nat /\ Len(reader) \in Nat /\ Len(on) \in Nat /\ Len(out) \in Nat /\ g \in Nat
  BY DEF OnWayTyped
<1>2. QED
  BY <1>1

\* A flush moves pieces from the queue to the wire.
LEMMA Flushing ==
  ASSUME NEW g, NEW inbox, NEW reader, NEW on, NEW out, NEW last, NEW shut, NEW broken,
         OnWayTyped(g, inbox, reader, on, out, last),
         OnWay(g, inbox, reader, on, out, last, shut, broken),
         NEW k \in 0 .. Len(out), broken => k = 0
  PROVE  OnWay(g, inbox, reader, on \o SubSeq(out, 1, k), SubSeq(out, k + 1, Len(out)),
               last, shut, broken)
<1> DEFINE held == 2 * (g + Len(inbox)) + Len(reader)
           a == SubSeq(out, 1, k)
           b == SubSeq(out, k + 1, Len(out))
<1>1. /\ Len(out) \in Nat /\ Len(on) \in Nat /\ held \in Nat /\ on \in Seq(Piece) /\ out \in Seq(Piece)
      /\ last \in Nat /\ k \in Nat /\ k <= Len(out)
  BY OnWayLengths DEF OnWayTyped
<1>2. /\ inbox = [i \in 1 .. Len(inbox) |-> g + i]
      /\ From(reader, 2 * (g + Len(inbox))) /\ From(on, held) /\ held + Len(on) <= 2 * last
      /\ ~broken => From(out, held + Len(on)) /\ held + Len(on) + Len(out) <= 2 * last
      /\ broken \/ shut \/ held + Len(on) + Len(out) = 2 * last
  BY DEF OnWay
<1>3. /\ a \in Seq(Piece) /\ Len(a) = k /\ b \in Seq(Piece) /\ Len(b) = Len(out) - k
  BY <1>1
<1> HIDE DEF held, a, b
<1>4. CASE broken
  <2>1. k = 0
    BY <1>4
  <2>2. a = <<>> /\ on \o a = on
    BY <1>1, <1>3, <2>1
  <2>3. OnWay(g, inbox, reader, on, b, last, shut, broken)
    BY <1>2, <1>4 DEF OnWay, held
  <2>4. QED
    BY <2>2, <2>3 DEF a, b
<1>5. CASE ~broken
  <2>1. held + Len(on) \in Nat
    BY <1>1
  <2>2. From(a, held + Len(on)) /\ From(b, (held + Len(on)) + k)
    BY <1>1, <1>2, <1>5, <2>1, FromParts DEF a, b
  <2>3. From(on \o a, held) /\ Len(on \o a) = Len(on) + k
    BY <1>1, <1>2, <1>3, <2>2, FromJoined
  <2>4. held + Len(on \o a) = (held + Len(on)) + k
    BY <1>1, <2>3
  <2>5. /\ held + Len(on \o a) <= 2 * last
        /\ From(b, held + Len(on \o a)) /\ held + Len(on \o a) + Len(b) <= 2 * last
        /\ shut \/ held + Len(on \o a) + Len(b) = 2 * last
    <3>0. PICK x \in Nat, y \in Nat, z \in Nat : x = held + Len(on) /\ y = Len(out) /\ z = k
      BY <1>1
    <3>1. held + Len(on \o a) + Len(b) = held + Len(on) + Len(out)
      <4>1. (x + z) + (y - z) = x + y
        BY <3>0
      <4>2. QED
        BY <1>3, <2>4, <3>0, <4>1, Zenon
    <3>2. held + Len(on \o a) <= held + Len(on) + Len(out)
      BY <1>1, <2>4
    <3>3. QED
      BY <1>1, <1>2, <1>5, <2>2, <2>4, <3>1, <3>2
  <2>6. OnWay(g, inbox, reader, on \o a, b, last, shut, broken)
    BY <1>2, <1>5, <2>3, <2>5 DEF OnWay, held
  <2>7. QED
    BY <2>6 DEF a, b
<1>6. QED
  BY <1>4, <1>5

\* send puts the next frame behind the queue.
LEMMA Queueing ==
  ASSUME NEW g, NEW inbox, NEW reader, NEW on, NEW out, NEW last, NEW shut, NEW broken,
         OnWayTyped(g, inbox, reader, on, out, last),
         OnWay(g, inbox, reader, on, out, last, shut, broken), ~shut
  PROVE  OnWay(g, inbox, reader, on, out \o Frame(last + 1), last + 1, shut, broken)
<1> DEFINE sentTo == 2 * (g + Len(inbox)) + Len(reader) + Len(on)
           more == Frame(last + 1)
<1>1. Len(out) \in Nat /\ sentTo \in Nat /\ out \in Seq(Piece) /\ last \in Nat
  BY OnWayLengths DEF OnWayTyped
<1>2. more \in Seq(Piece) /\ Len(more) = 2 /\ From(more, 2 * last)
  BY <1>1, FrameNext
<1>3. /\ inbox = [i \in 1 .. Len(inbox) |-> g + i]
      /\ From(reader, 2 * (g + Len(inbox))) /\ From(on, 2 * (g + Len(inbox)) + Len(reader))
      /\ sentTo <= 2 * last
      /\ ~broken => From(out, sentTo) /\ sentTo + Len(out) = 2 * last
  BY DEF OnWay
<1> HIDE DEF more, sentTo
<1>4. sentTo <= 2 * (last + 1)
  BY <1>1, <1>3
<1>5. ASSUME ~broken
      PROVE  From(out \o more, sentTo) /\ sentTo + Len(out \o more) = 2 * (last + 1)
  <2>1. From(out \o more, sentTo) /\ Len(out \o more) = Len(out) + 2
    <3>1. From(more, sentTo + Len(out))
      BY <1>2, <1>3, <1>5
    <3>2. QED
      BY <1>1, <1>2, <1>3, <1>5, <3>1, FromJoined
  <2>2. QED
    BY <1>1, <1>3, <1>5, <2>1
<1>6. OnWay(g, inbox, reader, on, out \o more, last + 1, shut, broken)
  <2>1. ~broken => sentTo + Len(out \o more) <= 2 * (last + 1)
    BY <1>1, <1>5
  <2>2. QED
    BY <1>3, <1>4, <1>5, <2>1 DEF OnWay, sentTo
<1>7. QED
  BY <1>6 DEF more

\* fill reads a first part of the wire into an empty inbox.
LEMMA Filling ==
  ASSUME NEW g, NEW reader, NEW on, NEW out, NEW last, NEW shut, NEW broken,
         OnWayTyped(g, <<>>, reader, on, out, last),
         OnWay(g, <<>>, reader, on, out, last, shut, broken),
         NEW k \in 0 .. Len(on), NEW pieces, pieces = reader \o SubSeq(on, 1, k)
  PROVE  OnWay(g, Messages(pieces), Rest(pieces), SubSeq(on, k + 1, Len(on)), out, last, shut, broken)
<1> DEFINE a == SubSeq(on, 1, k)
           b == SubSeq(on, k + 1, Len(on))
           n == Len(Messages(pieces))
           held == 2 * g + Len(reader)
<1>1. /\ Len(reader) \in Nat /\ Len(on) \in Nat /\ Len(out) \in Nat /\ g \in Nat /\ last \in Nat
      /\ reader \in Seq(Piece) /\ on \in Seq(Piece) /\ out \in Seq(Piece)
      /\ 2 * g \in Nat /\ held \in Nat /\ k \in Nat
  BY OnWayLengths DEF OnWayTyped
<1>2. /\ From(reader, 2 * g) /\ From(on, held) /\ held + Len(on) <= 2 * last
      /\ ~broken => From(out, held + Len(on)) /\ held + Len(on) + Len(out) <= 2 * last
      /\ broken \/ shut \/ held + Len(on) + Len(out) = 2 * last
  <2>1. Len(<<>>) = 0 /\ 2 * (g + 0) = 2 * g
    BY <1>1
  <2>2. QED
    BY <2>1 DEF OnWay
<1> HIDE DEF held
<1>3. /\ From(a, held) /\ From(b, held + k) /\ a \in Seq(Piece) /\ Len(a) = k
      /\ b \in Seq(Piece) /\ Len(b) = Len(on) - k
  BY <1>1, <1>2, FromParts
<1> HIDE DEF a, b
<1>4. pieces \in Seq(Piece) /\ From(pieces, 2 * g) /\ Len(pieces) = Len(reader) + k
  <2>1. pieces = reader \o a
    BY DEF a
  <2>2. From(a, 2 * g + Len(reader))
    BY <1>3 DEF held
  <2>3. QED
    <3>1. /\ reader \o a \in Seq(Piece) /\ From(reader \o a, 2 * g)
          /\ Len(reader \o a) = Len(reader) + Len(a)
      BY <1>1, <1>2, <1>3, <2>2, FromJoined, Zenon
    <3>2. QED
      BY <1>3, <2>1, <3>1
<1>5. /\ Messages(pieces) = [i \in 1 .. n |-> g + i]
      /\ From(Rest(pieces), 2 * (g + n))
      /\ n \in Nat /\ 2 * (g + n) + Len(Rest(pieces)) = 2 * g + Len(pieces)
  BY <1>1, <1>4, ReadInARow
<1> HIDE DEF n
<1>6. 2 * (g + n) + Len(Rest(pieces)) = held + k
  <2>1. PICK x \in Nat, y \in Nat : x = 2 * g /\ y = Len(reader)
    BY <1>1
  <2>2. x + (y + k) = (x + y) + k
    BY <1>1
  <2>3. QED
    BY <1>4, <1>5, <2>1, <2>2, Zenon DEF held
<1>7. (held + k) + Len(b) = held + Len(on)
  BY <1>1, <1>3
<1>8. OnWay(g, Messages(pieces), Rest(pieces), b, out, last, shut, broken)
  BY <1>2, <1>3, <1>5, <1>6, <1>7 DEF OnWay, n
<1>9. QED
  BY <1>8 DEF b

\* poll takes the first message that came.
LEMMA Taking ==
  ASSUME NEW g, NEW inbox, NEW reader, NEW on, NEW out, NEW last, NEW shut, NEW broken,
         OnWayTyped(g, inbox, reader, on, out, last),
         OnWay(g, inbox, reader, on, out, last, shut, broken), inbox # <<>>
  PROVE  /\ Head(inbox) = g + 1 /\ g + 1 <= last
         /\ OnWay(g + 1, Tail(inbox), reader, on, out, last, shut, broken)
<1> DEFINE l == Len(inbox)
<1>1. /\ inbox \in Seq(Nat) /\ l \in Nat /\ l >= 1 /\ g \in Nat /\ last \in Nat
      /\ Len(reader) \in Nat /\ Len(on) \in Nat
  BY OnWayLengths DEF OnWayTyped
<1>2. \A i \in 1 .. l : inbox[i] = g + i
  BY DEF OnWay
<1>3. Head(inbox) = inbox[1] /\ 1 \in 1 .. l
  BY <1>1
<1>4. /\ Tail(inbox) = [i \in 1 .. l - 1 |-> inbox[i + 1]] /\ Len(Tail(inbox)) = l - 1
      /\ \A i \in 1 .. l - 1 : i + 1 \in 1 .. l
  <2>1. PICK q \in Seq(Nat) : q = inbox
    BY <1>1
  <2>2. Len(q) >= 1 /\ Len(q) \in Nat
    BY <1>1, <2>1
  <2>3. Tail(q) = [i \in 1 .. Len(q) - 1 |-> q[i + 1]] /\ Len(Tail(q)) = Len(q) - 1
    <3>1. /\ Tail(q) \in Seq(Nat) /\ Len(Tail(q)) = Len(q) - 1
          /\ \A i \in 1 .. Len(Tail(q)) : Tail(q)[i] = q[i + 1]
      BY <2>2, HeadTailProperties
    <3>2. PICK t \in Seq(Nat) : t = Tail(q)
      BY <3>1
    <3>3. t = [i \in 1 .. Len(t) |-> t[i]]
      OBVIOUS
    <3>4. \A i \in 1 .. Len(t) : t[i] = q[i + 1]
      BY <3>1, <3>2
    <3>5. t = [i \in 1 .. Len(q) - 1 |-> q[i + 1]]
      BY <3>1, <3>2, <3>3, <3>4
    <3>6. QED
      BY <3>1, <3>2, <3>5
  <2>4. \A i \in 1 .. Len(q) - 1 : i + 1 \in 1 .. Len(q)
    BY <2>2
  <2>5. QED
    BY <2>1, <2>3, <2>4
<1> HIDE DEF l
<1>5. Tail(inbox) = [i \in 1 .. l - 1 |-> (g + 1) + i]
  <2>1. ASSUME NEW i \in 1 .. l - 1 PROVE inbox[i + 1] = (g + 1) + i
    <3>1. inbox[i + 1] = g + (i + 1)
      BY <1>2, <1>4
    <3>2. QED
      BY <1>1, <3>1
  <2>2. QED
    BY <1>4, <2>1
<1>6. 2 * ((g + 1) + (l - 1)) = 2 * (g + l)
  BY <1>1
<1>7. OnWay(g + 1, Tail(inbox), reader, on, out, last, shut, broken)
  BY <1>4, <1>5, <1>6 DEF OnWay, l
<1>8. g + 1 <= last
  <2>1. 2 * (g + l) + Len(reader) + Len(on) <= 2 * last
    BY DEF OnWay, l
  <2>2. QED
    BY <1>1, <2>1
<1>9. QED
  BY <1>2, <1>3, <1>7, <1>8

\* A reset loses the end of what was on the wire, and nothing is written after it.
LEMMA Cutting ==
  ASSUME NEW g, NEW inbox, NEW reader, NEW on, NEW out, NEW last, NEW shut, NEW broken,
         OnWayTyped(g, inbox, reader, on, out, last),
         OnWay(g, inbox, reader, on, out, last, shut, broken), NEW k \in 0 .. Len(on)
  PROVE  OnWay(g, inbox, reader, SubSeq(on, 1, k), out, last, shut, TRUE)
<1> DEFINE held == 2 * (g + Len(inbox)) + Len(reader)
<1>1. Len(on) \in Nat /\ held \in Nat /\ on \in Seq(Piece) /\ last \in Nat
  BY OnWayLengths DEF OnWayTyped
<1>2. /\ inbox = [i \in 1 .. Len(inbox) |-> g + i]
      /\ From(reader, 2 * (g + Len(inbox))) /\ From(on, held) /\ held + Len(on) <= 2 * last
  BY DEF OnWay
<1> HIDE DEF held
<1>3. From(SubSeq(on, 1, k), held) /\ Len(SubSeq(on, 1, k)) = k
  BY <1>1, <1>2, FromParts
<1>4. held + Len(SubSeq(on, 1, k)) <= 2 * last
  BY <1>1, <1>2, <1>3
<1>5. QED
  BY <1>2, <1>3, <1>4 DEF OnWay, held

\* A closed end loses what it had not written.
LEMMA Closing ==
  ASSUME NEW g, NEW inbox, NEW reader, NEW on, NEW out, NEW last, NEW shut, NEW broken,
         OnWayTyped(g, inbox, reader, on, out, last),
         OnWay(g, inbox, reader, on, out, last, shut, broken)
  PROVE  OnWay(g, inbox, reader, on, <<>>, last, TRUE, broken)
<1>1. From(<<>>, 2 * (g + Len(inbox)) + Len(reader) + Len(on))
  BY DEF From
<1>2. 2 * (g + Len(inbox)) + Len(reader) + Len(on) \in Nat /\ Len(<<>>) = 0
  BY OnWayLengths
<1>3. QED
  BY <1>1, <1>2 DEF OnWay

(***************************************************************************)
(* The state's types, way by way.                                          *)
(***************************************************************************)
Frames(w) ==
  OnWay(got[w], conn[Back(w)].inbox, conn[Back(w)].reader, wire[w], conn[w].out, sent[w],
        closed[w], reset[Joiner(w)])

LEMMA FramedWays == Framed <=> \A w \in Ways \ gone : Frames(w)
BY DEF Framed, Frames, OnWay, ReadTo, HeldTo, WireTo, OutTo

LEMMA FramedNext ==
  ASSUME \A w \in Ways \ gone' : Frames(w)'
  PROVE  Framed'
BY DEF Framed, Frames, OnWay, ReadTo, HeldTo, WireTo, OutTo

\* Connections by their parts.
LEMMA ConnectionParts ==
  ASSUME NEW c \in Connection
  PROVE  /\ c.out \in Seq(Piece) /\ c.reader \in Seq(Piece) /\ c.inbox \in Seq(Nat) /\ c.dead \in BOOLEAN
         /\ Len(c.out) \in Nat /\ Len(c.inbox) \in Nat
BY DEF Connection

LEMMA NewTyped == NewConnection \in Connection /\ NewConnection.out = <<>> /\ NewConnection.inbox = <<>>
BY DEF NewConnection, Connection

LEMMA WayTyped ==
  ASSUME TypeOK, NEW w \in Ways
  PROVE  /\ conn[w] \in Connection /\ wire[w] \in Seq(Piece) /\ Len(wire[w]) \in Nat
         /\ Len(wire[w]) <= Window /\ Len(conn[w].out) <= MaxOutbox
         /\ got[w] \in Nat /\ sent[w] \in Nat /\ got[w] <= sent[w] /\ sent[w] <= MaxSent[w[1]]
         /\ passed[w] \in Nat /\ closed[w] \in BOOLEAN /\ reset[Joiner(w)] \in BOOLEAN
         /\ OnWayTyped(got[w], conn[Back(w)].inbox, conn[Back(w)].reader, wire[w], conn[w].out, sent[w])
<1>1. Back(w) \in Ways /\ Joiner(w) \in Joiners
  BY WayFacts
<1>2. conn[w] \in Connection /\ conn[Back(w)] \in Connection
  BY <1>1 DEF TypeOK
<1>3. /\ wire[w] \in Seq(Piece) /\ Len(wire[w]) <= Window /\ Len(conn[w].out) <= MaxOutbox
      /\ got[w] \in Nat /\ sent[w] \in Nat /\ got[w] <= sent[w] /\ sent[w] <= MaxSent[w[1]]
      /\ passed[w] \in Nat /\ closed[w] \in BOOLEAN /\ reset[Joiner(w)] \in BOOLEAN
  BY <1>1 DEF TypeOK
<1>4. /\ conn[w].out \in Seq(Piece) /\ conn[Back(w)].inbox \in Seq(Nat)
      /\ conn[Back(w)].reader \in Seq(Piece)
  BY <1>2, ConnectionParts
<1>5. Len(wire[w]) \in Nat
  BY <1>3
<1>6. QED
  BY <1>2, <1>3, <1>4, <1>5 DEF OnWayTyped

(***************************************************************************)
(* What a poll serves.                                                     *)
(***************************************************************************)
\* The connections a poll finds: the program's, and the host's new ones behind them.
LEMMA ListedFacts ==
  ASSUME TransportAssumption, TypeOK, Placed, NEW n \in Programs
  PROVE  /\ Listed(n) \in Seq(Programs) /\ IsInjective(Listed(n))
         /\ Len(conns[n]) <= Len(Listed(n)) /\ Len(conns[n]) \in Nat /\ Len(Listed(n)) \in Nat
         /\ \A i \in 1 .. Len(conns[n]) : Listed(n)[i] = conns[n][i]
         /\ Range(Listed(n)) = Range(conns[n]) \cup (IF n = Host THEN Range(backlog) ELSE {})
         /\ \A m \in Range(Listed(n)) : <<n, m>> \in Ways /\ ~closed[<<n, m>>]
<1> DEFINE b == IF n = Host THEN backlog ELSE <<>>
           s == conns[n]
<1>1. s \in Seq(Programs) /\ Len(s) \in Nat /\ DOMAIN s = 1 .. Len(s) /\ IsInjective(s)
  BY DEF TypeOK, Placed
<1>2. b \in Seq(Programs) /\ Len(b) \in Nat /\ DOMAIN b = 1 .. Len(b)
  <2>1. backlog \in Seq(Joiners) /\ Joiners \subseteq Programs
    BY DEF TypeOK, Programs
  <2>2. backlog \in Seq(Programs)
    BY <2>1
  <2>3. QED
    BY <2>2
<1>3. Range(b) = IF n = Host THEN Range(backlog) ELSE {}
  <2>1. Range(<<>>) = {}
    BY DEF Range
  <2>2. QED
    BY <2>1
<1>4. IsInjective(b) /\ \A j \in Range(b) : j \notin Range(s)
  <2>1. IsInjective(<<>>)
    BY DEF IsInjective
  <2>2. QED
    BY <1>3, <2>1 DEF Placed
<1>5. Listed(n) = s \o b
  BY DEF Listed
<1> HIDE DEF b, s
<1>6. /\ s \o b \in Seq(Programs) /\ Len(s \o b) = Len(s) + Len(b) /\ DOMAIN (s \o b) = 1 .. Len(s) + Len(b)
      /\ \A i \in 1 .. Len(s) : (s \o b)[i] = s[i]
      /\ \A i \in 1 .. Len(s) + Len(b) : i > Len(s) => (s \o b)[i] = b[i - Len(s)] /\ i - Len(s) \in 1 .. Len(b)
  BY <1>1, <1>2
<1>7. Range(s \o b) = Range(s) \cup Range(b)
  BY <1>1, <1>2, RangeConcatenation
<1>8. IsInjective(s \o b)
  <2>1. ASSUME NEW i \in 1 .. Len(s) + Len(b), NEW k \in 1 .. Len(s) + Len(b),
               (s \o b)[i] = (s \o b)[k], i <= Len(s), k > Len(s)
        PROVE  FALSE
    <3>1. (s \o b)[i] \in Range(s) /\ (s \o b)[k] \in Range(b)
      <4>1. i \in 1 .. Len(s) /\ k - Len(s) \in 1 .. Len(b)
        BY <1>1, <1>2, <1>6, <2>1
      <4>2. (s \o b)[i] = s[i] /\ (s \o b)[k] = b[k - Len(s)]
        BY <1>6, <2>1, <4>1
      <4>3. QED
        BY <1>1, <1>2, <4>1, <4>2 DEF Range
    <3>2. QED
      BY <1>4, <2>1, <3>1
  <2>2. ASSUME NEW i \in 1 .. Len(s) + Len(b), NEW k \in 1 .. Len(s) + Len(b),
               (s \o b)[i] = (s \o b)[k], i <= Len(s), k <= Len(s)
        PROVE  i = k
    <3>1. i \in 1 .. Len(s) /\ k \in 1 .. Len(s)
      BY <1>1, <1>2, <2>2
    <3>2. s[i] = s[k]
      BY <1>6, <2>2, <3>1
    <3>3. QED
      BY <1>1, <3>1, <3>2 DEF IsInjective
  <2>3. ASSUME NEW i \in 1 .. Len(s) + Len(b), NEW k \in 1 .. Len(s) + Len(b),
               (s \o b)[i] = (s \o b)[k], i > Len(s), k > Len(s)
        PROVE  i = k
    <3>1. i - Len(s) \in 1 .. Len(b) /\ k - Len(s) \in 1 .. Len(b) /\ b[i - Len(s)] = b[k - Len(s)]
      BY <1>6, <2>3
    <3>2. i - Len(s) = k - Len(s)
      BY <1>2, <1>4, <3>1 DEF IsInjective
    <3>3. QED
      BY <1>1, <1>2, <3>2
  <2>4. ASSUME NEW i \in 1 .. Len(s) + Len(b), NEW k \in 1 .. Len(s) + Len(b),
               (s \o b)[i] = (s \o b)[k]
        PROVE  i = k
    <3>1. /\ i <= Len(s) \/ i > Len(s)
          /\ k <= Len(s) \/ k > Len(s)
      BY <1>1, <1>2
    <3>2. QED
      BY <2>1, <2>2, <2>3, <2>4, <3>1
  <2>5. QED
    BY <1>6, <2>4 DEF IsInjective
<1>9. ASSUME NEW m \in Range(Listed(n)) PROVE <<n, m>> \in Ways /\ ~closed[<<n, m>>]
  <2>1. CASE m \in Range(s)
    BY <2>1 DEF Placed, s
  <2>2. CASE m \notin Range(s)
    <3>1. n = Host /\ m \in Range(backlog)
      BY <1>3, <1>5, <1>7, <1>9, <2>2
    <3>2. m \in Joiners
      BY <3>1 DEF TypeOK, Range
    <3>3. <<Host, m>> \in Ways
      BY <3>2 DEF Ways, Programs, TransportAssumption
    <3>4. QED
      BY <3>1, <3>3 DEF Placed
  <2>3. QED
    BY <2>1, <2>2
<1>10. Len(s) <= Len(s) + Len(b) /\ Len(s) + Len(b) \in Nat
  BY <1>1, <1>2
<1>11. QED
  BY <1>1, <1>3, <1>5, <1>6, <1>7, <1>8, <1>9, <1>10 DEF s

LEMMA PolledFacts ==
  ASSUME TransportAssumption, TypeOK, Placed, NEW n \in Programs
  PROVE  /\ Polled(n) \subseteq Ways
         /\ \A w \in Polled(n) : /\ w[1] = n /\ w[2] \in Range(Listed(n)) /\ w = <<n, w[2]>>
                                 /\ ~closed[w] /\ Back(w) \notin Polled(n)
         /\ \A w \in Ways \ Polled(n) : w[1] = n => w[2] \notin Range(Listed(n))
<1>1. Polled(n) \subseteq Ways /\ \A w \in Polled(n) : ~closed[w]
  BY ListedFacts DEF Polled
<1>2. \A w \in Polled(n) : w[1] = n /\ w[2] \in Range(Listed(n)) /\ w = <<n, w[2]>>
  BY DEF Polled
<1>3. \A w \in Polled(n) : Back(w) \notin Polled(n)
  <2>1. \A w \in Polled(n) : w[2] # n
    BY <1>1, <1>2, WayFacts
  <2>2. \A w \in Polled(n) : Back(w)[1] = w[2]
    BY <1>1, WayFacts
  <2>3. QED
    BY <1>2, <2>1, <2>2
<1>4. ASSUME NEW w \in Ways, w[1] = n, w[2] \in Range(Listed(n)) PROVE w \in Polled(n)
  <2>1. w = <<n, w[2]>>
    BY <1>4, WayFacts
  <2>2. QED
    BY <1>4, <2>1 DEF Polled
<1>5. QED
  BY <1>1, <1>2, <1>3, <1>4

\* The two ends of a way after a poll of either: flushed if it is the poll's own, read if
\* it comes to it.
LEMMA ServedFacts ==
  ASSUME TransportAssumption, TypeOK, Placed, NEW n \in Programs
  PROVE  /\ Served(n) \in [Ways -> Connection] /\ WireAfterPoll(n) \in [Ways -> Seq(Piece)]
         /\ \A w \in Ways \ Polled(n) : Served(n)[w] = conn[w]
         /\ \A w \in Ways : /\ Len(WireAfterPoll(n)[w]) <= Window
                            /\ Len(Served(n)[w].out) <= MaxOutbox
                            /\ conn[w].inbox # <<>> =>
                                 Served(n)[w].inbox = conn[w].inbox
<1>1. ASSUME NEW w \in Polled(n)
      PROVE  /\ Served(n)[w] = Filled(w, Flushed(w, conn[w])) /\ WireAfterPoll(n)[w] = WireAfter(w, conn[w])
             /\ Served(n)[w] \in Connection /\ WireAfterPoll(n)[w] \in Seq(Piece)
             /\ Len(WireAfterPoll(n)[w]) <= Window /\ Len(Served(n)[w].out) <= MaxOutbox
             /\ conn[w].inbox # <<>> => Served(n)[w].inbox = conn[w].inbox
  <2>1. w \in Ways /\ Back(w) \in Ways
    BY PolledFacts, WayFacts
  <2>2. /\ conn[w] \in Connection /\ wire[w] \in Seq(Piece) /\ Len(wire[w]) <= Window
        /\ Len(wire[w]) \in Nat /\ wire[Back(w)] \in Seq(Piece) /\ Len(conn[w].out) <= MaxOutbox
    BY <2>1, WayTyped
  <2> DEFINE c == Flushed(w, conn[w])
             k == Written(w, conn[w])
  <2>3. /\ k \in 0 .. Len(conn[w].out) /\ Len(wire[w]) + k <= Window
        /\ c \in Connection /\ c.out = SubSeq(conn[w].out, k + 1, Len(conn[w].out))
        /\ c.inbox = conn[w].inbox
        /\ WireAfter(w, conn[w]) \in Seq(Piece) /\ Len(WireAfter(w, conn[w])) = Len(wire[w]) + k
    BY <2>1, <2>2, FlushFacts
  <2>4. Served(n)[w] = Filled(w, c) /\ WireAfterPoll(n)[w] = WireAfter(w, conn[w])
    BY <2>1 DEF Served, WireAfterPoll
  <2> HIDE DEF c, k
  <2>5. /\ Filled(w, c) \in Connection /\ Filled(w, c).out = c.out
        /\ Filled(w, c) = c \/ c.inbox = <<>>
    <3>1. PICK come \in Seq(Piece) : come = wire[Back(w)]
      BY <2>2
    <3>2. QED
      BY <2>1, <2>3, <3>1, FillFacts
  <2>6. Len(c.out) <= MaxOutbox
    <3>1. PICK q \in Seq(Piece) : q = conn[w].out
      BY <2>2, ConnectionParts
    <3>2. Len(SubSeq(q, k + 1, Len(q))) = Len(q) - k /\ k \in Nat /\ Len(q) \in Nat
      BY <2>3, <3>1
    <3>3. MaxOutbox \in Nat
      BY DEF TransportAssumption
    <3>4. QED
      BY <2>2, <2>3, <3>1, <3>2, <3>3
  <2>7. Len(WireAfter(w, conn[w])) <= Window
    BY <2>3
  <2>8. QED
    BY <2>3, <2>4, <2>5, <2>6, <2>7 DEF c
<1>2. ASSUME NEW w \in Ways \ Polled(n)
      PROVE  /\ Served(n)[w] = conn[w] /\ Served(n)[w] \in Connection
             /\ Len(Served(n)[w].out) <= MaxOutbox
             /\ conn[w].inbox # <<>> => Served(n)[w].inbox = conn[w].inbox
  <2>1. Served(n)[w] = conn[w]
    BY <1>2 DEF Served
  <2>2. QED
    BY <1>2, <2>1, WayTyped
<1>3. ASSUME NEW w \in Ways \ Polled(n)
      PROVE  WireAfterPoll(n)[w] \in Seq(Piece) /\ Len(WireAfterPoll(n)[w]) <= Window
  <2>1. wire[w] \in Seq(Piece) /\ Len(wire[w]) <= Window /\ Len(wire[w]) \in Nat /\ Window \in Nat
    BY WayTyped DEF TransportAssumption
  <2>2. CASE Back(w) \in Polled(n)
    <3> DEFINE k == TakenIn(Back(w))
    <3>1. k \in 0 .. Len(wire[w])
      <4>1. Back(w) \in Ways /\ Back(Back(w)) = w
        BY WayFacts
      <4>2. Flushed(Back(w), conn[Back(w)]) \in Connection
        BY <4>1, WayTyped, FlushFacts
      <4>3. PICK come \in Seq(Piece) : come = wire[w]
        BY <2>1
      <4>4. Read(Back(w), Flushed(Back(w), conn[Back(w)])) \in 0 .. Len(come)
        BY <4>1, <4>2, <4>3, FillFacts
      <4>5. QED
        BY <4>3, <4>4 DEF TakenIn
    <3>2. WireAfterPoll(n)[w] = SubSeq(wire[w], k + 1, Len(wire[w]))
      BY <1>3, <2>2 DEF WireAfterPoll
    <3> HIDE DEF k
    <3>3. PICK q \in Seq(Piece) : q = wire[w]
      BY <2>1
    <3>4. /\ SubSeq(q, k + 1, Len(q)) \in Seq(Piece) /\ Len(SubSeq(q, k + 1, Len(q))) = Len(q) - k
          /\ Len(q) - k <= Len(q)
      BY <2>1, <3>1, <3>3
    <3>5. QED
      BY <2>1, <3>1, <3>2, <3>3, <3>4
  <2>3. CASE Back(w) \notin Polled(n)
    <3>1. WireAfterPoll(n)[w] = wire[w]
      BY <1>3, <2>3 DEF WireAfterPoll
    <3>2. QED
      BY <2>1, <3>1
  <2>4. QED
    BY <2>2, <2>3
<1>4. Polled(n) \subseteq Ways
  BY PolledFacts
<1>5. Served(n) = [w \in Ways |-> Served(n)[w]] /\ WireAfterPoll(n) = [w \in Ways |-> WireAfterPoll(n)[w]]
  BY DEF Served, WireAfterPoll
<1>6. \A w \in Ways : Served(n)[w] \in Connection /\ WireAfterPoll(n)[w] \in Seq(Piece)
  BY <1>1, <1>2, <1>3
<1>7. Served(n) \in [Ways -> Connection] /\ WireAfterPoll(n) \in [Ways -> Seq(Piece)]
  BY <1>5, <1>6
<1>8. QED
  BY <1>1, <1>2, <1>3, <1>7

\* A poll keeps a way's messages and pieces in a row.
LEMMA ServedFrames ==
  ASSUME TransportAssumption, TypeOK, Placed, NEW n \in Programs, NEW w \in Ways, Frames(w)
  PROVE  OnWay(got[w], Served(n)[Back(w)].inbox, Served(n)[Back(w)].reader, WireAfterPoll(n)[w],
               Served(n)[w].out, sent[w], closed[w], reset[Joiner(w)])
<1>1. Back(w) \in Ways /\ Back(Back(w)) = w
  BY WayFacts
<1>2. /\ conn[w] \in Connection /\ wire[w] \in Seq(Piece) /\ Len(wire[w]) <= Window
      /\ Len(wire[w]) \in Nat
      /\ OnWayTyped(got[w], conn[Back(w)].inbox, conn[Back(w)].reader, wire[w], conn[w].out, sent[w])
      /\ OnWay(got[w], conn[Back(w)].inbox, conn[Back(w)].reader, wire[w], conn[w].out, sent[w],
               closed[w], reset[Joiner(w)])
  BY WayTyped DEF Frames
<1>3. CASE w \in Polled(n)
  <2>1. Back(w) \notin Polled(n)
    BY <1>3, PolledFacts
  <2>2. Served(n)[Back(w)] = conn[Back(w)]
    BY <1>1, <2>1, ServedFacts
  <2> DEFINE c == Flushed(w, conn[w])
             k == Written(w, conn[w])
  <2>3. /\ k \in 0 .. Len(conn[w].out) /\ (reset[Joiner(w)] => k = 0)
        /\ c \in Connection /\ c.out = SubSeq(conn[w].out, k + 1, Len(conn[w].out))
        /\ WireAfter(w, conn[w]) = wire[w] \o SubSeq(conn[w].out, 1, k)
    BY <1>2, FlushFacts DEF Broken
  <2>4. Served(n)[w] = Filled(w, c) /\ WireAfterPoll(n)[w] = WireAfter(w, conn[w])
    BY <1>3 DEF Served, WireAfterPoll
  <2> HIDE DEF c, k
  <2>5. Filled(w, c).out = c.out
    <3>1. PICK come \in Seq(Piece) : come = wire[Back(w)]
      BY <1>1, WayTyped
    <3>2. QED
      BY <2>3, <3>1, FillFacts
  <2>6. OnWay(got[w], conn[Back(w)].inbox, conn[Back(w)].reader, wire[w] \o SubSeq(conn[w].out, 1, k),
              SubSeq(conn[w].out, k + 1, Len(conn[w].out)), sent[w], closed[w], reset[Joiner(w)])
    BY <1>2, <2>3, Flushing
  <2>7. QED
    BY <2>2, <2>3, <2>4, <2>5, <2>6
<1>4. CASE w \notin Polled(n) /\ Back(w) \in Polled(n)
  <2>1. Served(n)[w] = conn[w]
    BY <1>4, ServedFacts
  <2> DEFINE v == Back(w)
             c == Flushed(v, conn[v])
             k == Read(v, c)
  <2>2. v \in Ways /\ Back(v) = w
    BY <1>1
  <2>3. conn[v] \in Connection /\ wire[v] \in Seq(Piece) /\ Len(wire[v]) <= Window
    BY <2>2, WayTyped
  <2>4. c \in Connection /\ c.reader = conn[v].reader /\ c.inbox = conn[v].inbox
    BY <2>2, <2>3, FlushFacts
  <2>5. Served(n)[v] = Filled(v, c) /\ WireAfterPoll(n)[w] = SubSeq(wire[w], k + 1, Len(wire[w]))
    BY <1>1, <1>4 DEF Served, WireAfterPoll, TakenIn
  <2> HIDE DEF v, c
  <2>6. PICK come \in Seq(Piece) : come = wire[w]
    BY <1>2
  <2>7. /\ k \in 0 .. Len(come)
        /\ \/ Filled(v, c) = c /\ k = 0
           \/ /\ c.inbox = <<>>
              /\ Filled(v, c).inbox = Messages(c.reader \o SubSeq(come, 1, k))
              /\ Filled(v, c).reader = Rest(c.reader \o SubSeq(come, 1, k))
    BY <2>2, <2>4, <2>6, FillFacts
  <2> HIDE DEF k
  <2>8. CASE Filled(v, c) = c /\ k = 0
    <3>1. SubSeq(come, k + 1, Len(come)) = come
      BY <2>8, SubSeqFull
    <3>2. QED
      BY <1>2, <2>1, <2>4, <2>5, <2>6, <2>8, <3>1 DEF v
  <2>9. CASE /\ c.inbox = <<>>
             /\ Filled(v, c).inbox = Messages(c.reader \o SubSeq(come, 1, k))
             /\ Filled(v, c).reader = Rest(c.reader \o SubSeq(come, 1, k))
    <3>1. /\ OnWayTyped(got[w], <<>>, conn[v].reader, come, conn[w].out, sent[w])
          /\ OnWay(got[w], <<>>, conn[v].reader, come, conn[w].out, sent[w], closed[w], reset[Joiner(w)])
      BY <1>2, <2>4, <2>6, <2>9 DEF v
    <3> DEFINE pieces == conn[v].reader \o SubSeq(come, 1, k)
    <3>2. OnWay(got[w], Messages(pieces), Rest(pieces), SubSeq(come, k + 1, Len(come)), conn[w].out,
                sent[w], closed[w], reset[Joiner(w)])
      BY <2>7, <3>1, Filling
    <3>3. QED
      BY <2>1, <2>4, <2>5, <2>6, <2>9, <3>2 DEF v
  <2>10. QED
    BY <2>7, <2>8, <2>9
<1>5. CASE w \notin Polled(n) /\ Back(w) \notin Polled(n)
  <2>1. Served(n)[w] = conn[w] /\ Served(n)[Back(w)] = conn[Back(w)]
    BY <1>1, <1>5, ServedFacts
  <2>2. WireAfterPoll(n)[w] = wire[w]
    BY <1>5 DEF WireAfterPoll
  <2>3. QED
    BY <1>2, <2>1, <2>2
<1>6. QED
  BY <1>3, <1>4, <1>5

(***************************************************************************)
(* Every action keeps the invariant.                                       *)
(***************************************************************************)
LEMMA InvInit ==
  ASSUME TransportAssumption, Init
  PROVE  TransportInv
<1>1. TypeOK
  <2>1. \A w \in Ways : w[1] \in Programs
    BY WayFacts
  <2>2. Len(<<>>) = 0 /\ NewConnection.out = <<>> /\ Window \in Nat /\ MaxOutbox \in Nat
    BY DEF NewConnection, TransportAssumption
  <2>3. \A w \in Ways : MaxSent[w[1]] \in Nat
    BY <2>1 DEF TransportAssumption
  <2>4. [n \in Programs |-> <<>>] \in [Programs -> Seq(Programs)]
    OBVIOUS
  <2>5. [w \in Ways |-> <<>>] \in [Ways -> Seq(Piece)]
    OBVIOUS
  <2>6. \A w \in Ways : /\ Len(wire[w]) <= Window /\ Len(conn[w].out) <= MaxOutbox
                        /\ got[w] <= sent[w] /\ sent[w] <= MaxSent[w[1]]
    BY <2>2, <2>3 DEF Init
  <2>7. QED
    BY <2>4, <2>5, <2>6, NewTyped DEF Init, TypeOK
<1>2. Placed
  <2>1. IsInjective(<<>>) /\ Range(<<>>) = {}
    BY DEF IsInjective, Range
  <2>2. \A n \in Programs : conns[n] = <<>> /\ cursor[n] = 1
    BY DEF Init
  <2>3. Host \in Programs /\ Joiners \subseteq Programs
    BY DEF Programs
  <2>4. \A w \in Ways : w[1] \in Programs /\ Back(w) \in Ways
    BY WayFacts
  <2>5. \A j \in Joiners : <<Host, j>> \in Ways
    BY DEF Ways, Programs, TransportAssumption
  <2>6. \A w \in Ways : conn[w] = NewConnection /\ ~closed[w]
    BY DEF Init
  <2>7. backlog = <<>> /\ gone = {}
    BY DEF Init
  <2>8. QED
    BY <2>1, <2>2, <2>3, <2>4, <2>5, <2>6, <2>7 DEF Placed
<1>3. Framed
  <2>1. ASSUME NEW w \in Ways PROVE Frames(w)
    <3>1. Back(w) \in Ways /\ Joiner(w) \in Joiners
      BY WayFacts
    <3>2. /\ conn[w] = NewConnection /\ conn[Back(w)] = NewConnection /\ wire[w] = <<>>
          /\ got[w] = 0 /\ sent[w] = 0 /\ closed[w] = FALSE /\ reset[Joiner(w)] = FALSE
      BY <3>1 DEF Init
    <3>3. OnWay(0, <<>>, <<>>, <<>>, <<>>, 0, FALSE, FALSE)
      <4>1. Len(<<>>) = 0 /\ <<>> = [i \in 1 .. 0 |-> 0 + i] /\ \A k : From(<<>>, k)
        BY DEF From
      <4>2. QED
        BY <4>1 DEF OnWay
    <3>4. /\ conn[w].out = <<>> /\ conn[Back(w)].inbox = <<>> /\ conn[Back(w)].reader = <<>>
      BY <3>2 DEF NewConnection
    <3>5. QED
      BY <3>2, <3>3, <3>4 DEF Frames
  <2>2. QED
    BY <2>1, FramedWays
<1>4. Passing
  BY DEF Init, Passing
<1>5. QED
  BY <1>1, <1>2, <1>3, <1>4 DEF TransportInv

\* Passing speaks of nothing but the inboxes, the connections, the cursor and passed.
LEMMA PassingKept ==
  ASSUME Passing, UNCHANGED <<conns, cursor, passed>>,
         \A w \in Ways : conn[w].inbox # <<>> => conn'[w].inbox # <<>>
  PROVE  Passing'
BY DEF Passing, Awaited

LEMMA ConnectStep ==
  ASSUME TransportAssumption, TransportInv, NEW j \in Joiners, Connect(j)
  PROVE  TransportInv'
<1> USE DEF TransportInv
<1>1. /\ conns[j] = <<>> /\ ~closed[<<j, Host>>] /\ j \notin Range(backlog)
      /\ conns' = [conns EXCEPT ![j] = <<Host>>] /\ backlog' = Append(backlog, j)
      /\ UNCHANGED <<cursor, conn, wire, closed, reset, sent, got, gone, passed>>
  BY DEF Connect
<1>2. /\ j \in Programs /\ Host \in Programs /\ j # Host /\ <<j, Host>> \in Ways /\ <<Host, j>> \in Ways
      /\ Joiners \subseteq Programs
  BY DEF Programs, Ways, TransportAssumption
<1>3. conns \in [Programs -> Seq(Programs)] /\ backlog \in Seq(Joiners)
  BY DEF TypeOK
<1>4. /\ conns'[j] = <<Host>>
      /\ \A n \in Programs : n # j => conns'[n] = conns[n]
  BY <1>1, <1>2, <1>3
<1>5. Range(<<Host>>) = {Host} /\ IsInjective(<<Host>>) /\ Len(<<Host>>) = 1 /\ <<Host>> \in Seq(Programs)
  <2>1. DOMAIN <<Host>> = 1 .. 1 /\ <<Host>>[1] = Host /\ \A i \in 1 .. 1 : i = 1
    OBVIOUS
  <2>2. Range(<<Host>>) = {Host} /\ IsInjective(<<Host>>)
    BY <2>1 DEF Range, IsInjective
  <2>3. QED
    BY <1>2, <2>2
<1>6. Range(backlog') = Range(backlog) \cup {j} /\ IsInjective(backlog') /\ backlog' \in Seq(Joiners)
  <2>1. PICK q \in Seq(Joiners) : q = backlog
    BY <1>3
  <2>2. /\ Append(q, j) \in Seq(Joiners) /\ DOMAIN Append(q, j) = 1 .. Len(q) + 1
        /\ DOMAIN q = 1 .. Len(q) /\ Len(q) \in Nat
        /\ \A i \in 1 .. Len(q) : Append(q, j)[i] = q[i]
        /\ Append(q, j)[Len(q) + 1] = j
    OBVIOUS
  <2>3. \A i \in 1 .. Len(q) + 1 : i \in 1 .. Len(q) \/ i = Len(q) + 1
    BY <2>2
  <2>4. Len(q) + 1 \in 1 .. Len(q) + 1 /\ 1 .. Len(q) \subseteq 1 .. Len(q) + 1
    BY <2>2
  <2>5. Range(Append(q, j)) = Range(q) \cup {j}
    BY <2>2, <2>3, <2>4, Zenon DEF Range
  <2>6. IsInjective(Append(q, j))
    <3>1. IsInjective(q) /\ \A i \in 1 .. Len(q) : q[i] # j
      BY <1>1, <2>1, <2>2 DEF Placed, Range
    <3>2. QED
      BY <2>2, <2>3, <3>1, Zenon DEF IsInjective
  <2>7. QED
    BY <1>1, <2>1, <2>2, <2>5, <2>6
<1>7. TypeOK'
  <2>1. conns' \in [Programs -> Seq(Programs)]
    BY <1>1, <1>3, <1>5
  <2>2. QED
    BY <1>1, <1>6, <2>1 DEF TypeOK
<1>8. Placed'
  <2>1. Range(conns[j]) = {} /\ Len(conns[j]) = 0
    BY <1>1 DEF Range
  <2>2. ASSUME NEW n \in Programs
        PROVE  /\ IsInjective(conns'[n])
               /\ \/ cursor'[n] = 1
                  \/ cursor'[n] <= Len(conns'[n])
               /\ \A m \in Range(conns'[n]) : <<n, m>> \in Ways /\ ~closed'[<<n, m>>]
    <3>1. CASE n = j
      <4>1. cursor[j] = 1
        <5>1. cursor[j] = 1 \/ cursor[j] <= 0
          BY <1>2, <2>1 DEF Placed
        <5>2. cursor[j] \in Nat \ {0}
          BY <1>2 DEF TypeOK
        <5>3. QED
          BY <5>1, <5>2
      <4>2. QED
        BY <1>1, <1>2, <1>4, <1>5, <3>1, <4>1
    <3>2. CASE n # j
      BY <1>1, <1>4, <3>2 DEF Placed
    <3>3. QED
      BY <3>1, <3>2
  <2>3. conns'[Host] = conns[Host]
    BY <1>2, <1>4
  <2>4. j \notin Range(conns[Host]) /\ ~closed[<<Host, j>>]
    BY <1>1 DEF Placed
  <2>5. \A k \in Range(backlog') : k \notin Range(conns'[Host]) /\ ~closed'[<<Host, k>>]
    BY <1>1, <1>6, <2>3, <2>4 DEF Placed
  <2>6. ASSUME NEW k \in Joiners,
               k \in Range(backlog') \cup Range(conns'[Host]) \/ closed'[<<Host, k>>]
        PROVE  conns'[k] # <<>> \/ closed'[<<k, Host>>]
    <3>1. CASE k = j
      BY <1>4, <1>5, <3>1
    <3>2. CASE k # j
      <4>1. k \in Range(backlog) \cup Range(conns[Host]) \/ closed[<<Host, k>>]
        BY <1>1, <1>6, <2>3, <2>6, <3>2
      <4>2. QED
        BY <1>1, <1>2, <1>4, <3>2, <4>1 DEF Placed
    <3>3. QED
      BY <3>1, <3>2
  <2>7. ASSUME NEW w \in Ways
        PROVE  /\ w[2] \notin Range(conns'[w[1]]) => conn'[w] = NewConnection
               /\ w \in gone' <=> closed'[Back(w)]
    <3>1. w[1] \in Programs
      BY WayFacts
    <3>2. Range(conns[w[1]]) \subseteq Range(conns'[w[1]])
      BY <1>4, <2>1, <3>1
    <3>3. QED
      BY <1>1, <3>2 DEF Placed
  <2>8. QED
    BY <1>6, <2>2, <2>5, <2>6, <2>7 DEF Placed
<1>9. Framed'
  BY <1>1, FramedWays DEF Framed, ReadTo, HeldTo, WireTo, OutTo, Joiner
<1>10. Passing'
  <2>1. ASSUME NEW w \in Ways, passed[w] # 0 PROVE conns'[w[1]] = conns[w[1]]
    <3>1. w[2] \in Range(conns[w[1]]) /\ w[1] \in Programs
      BY <2>1, WayFacts DEF Passing
    <3>2. w[1] # j
      BY <1>1, <3>1 DEF Range
    <3>3. QED
      BY <1>4, <3>1, <3>2
  <2>2. ASSUME NEW w \in Ways, passed[w] # 0 PROVE Awaited(w)' = Awaited(w)
    BY <2>1, <2>2 DEF Awaited
  <2>3. QED
    BY <1>1, <2>1, <2>2 DEF Passing
<1>11. QED
  BY <1>7, <1>8, <1>9, <1>10

\* A program's own, open connections.
OpenWays(ws) == ws \subseteq Ways /\ \A w \in ws : ~closed[w] /\ w[2] \in Range(conns[w[1]])

LEMMA SendStep ==
  ASSUME TransportAssumption, TransportInv, NEW ws, OpenWays(ws), SendAll(ws)
  PROVE  TransportInv'
<1> USE DEF TransportInv
<1>1. /\ \A w \in ws : sent[w] < MaxSent[w[1]]
      /\ conn' = [w \in Ways |-> IF w \notin ws THEN conn[w]
                                ELSE IF Overfull(w) THEN [conn[w] EXCEPT !.dead = TRUE]
                                ELSE Flushed(w, Queued(w))]
      /\ wire' = [w \in Ways |-> IF w \in ws /\ ~Overfull(w) THEN WireAfter(w, Queued(w)) ELSE wire[w]]
      /\ sent' = [w \in Ways |-> IF w \in ws /\ ~Overfull(w) THEN sent[w] + 1 ELSE sent[w]]
      /\ UNCHANGED <<conns, cursor, backlog, closed, reset, got, gone, passed>>
  BY DEF SendAll
<1>2. ASSUME NEW w \in ws, ~Overfull(w)
      PROVE  /\ w \in Ways /\ Queued(w) \in Connection /\ Queued(w).out = conn[w].out \o Frame(sent[w] + 1)
             /\ Queued(w).out \in Seq(Piece) /\ Len(Queued(w).out) <= MaxOutbox
             /\ Queued(w).inbox = conn[w].inbox /\ Queued(w).reader = conn[w].reader
  <2>1. w \in Ways /\ conn[w] \in Connection /\ sent[w] \in Nat
    BY <1>2, WayTyped DEF OpenWays
  <2>2. PICK q \in Seq(Piece), f \in Seq(Piece) : q = conn[w].out /\ f = Frame(sent[w] + 1) /\ Len(f) = 2
    BY <2>1, FrameNext, ConnectionParts
  <2>3. q \o f \in Seq(Piece) /\ Len(q \o f) = Len(q) + 2 /\ Len(q) \in Nat
    <3>1. q \o f \in Seq(Piece) /\ Len(q \o f) = Len(q) + Len(f) /\ Len(q) \in Nat
      OBVIOUS
    <3>2. QED
      BY <2>2, <3>1
  <2>4. Queued(w) = [conn[w] EXCEPT !.out = q \o f]
    BY <2>2 DEF Queued
  <2>5. /\ Queued(w) \in Connection /\ Queued(w).out = q \o f
        /\ Queued(w).inbox = conn[w].inbox /\ Queued(w).reader = conn[w].reader
    BY <2>1, <2>3, <2>4 DEF Connection
  <2>6. Len(q) + 2 <= MaxOutbox
    BY <1>2, <2>2, <2>3 DEF Overfull, TransportAssumption
  <2>7. QED
    BY <2>1, <2>2, <2>3, <2>5, <2>6
<1>3. ASSUME NEW w \in ws, ~Overfull(w)
      PROVE  /\ conn'[w] = Flushed(w, Queued(w)) /\ wire'[w] = WireAfter(w, Queued(w))
             /\ sent'[w] = sent[w] + 1
             /\ conn'[w] \in Connection /\ wire'[w] \in Seq(Piece) /\ Len(wire'[w]) <= Window
             /\ Len(conn'[w].out) <= MaxOutbox
             /\ conn'[w].inbox = conn[w].inbox /\ conn'[w].reader = conn[w].reader
  <2>1. /\ w \in Ways /\ Queued(w) \in Connection /\ Queued(w).out = conn[w].out \o Frame(sent[w] + 1)
        /\ Queued(w).inbox = conn[w].inbox /\ Queued(w).reader = conn[w].reader
        /\ Queued(w).out \in Seq(Piece) /\ Len(Queued(w).out) <= MaxOutbox
    BY <1>2, <1>3
  <2>2. /\ wire[w] \in Seq(Piece) /\ Len(wire[w]) <= Window /\ Len(wire[w]) \in Nat /\ sent[w] \in Nat
        /\ OnWayTyped(got[w], conn[Back(w)].inbox, conn[Back(w)].reader, wire[w], conn[w].out, sent[w])
    BY <2>1, WayTyped
  <2> DEFINE c == Queued(w)
             k == Written(w, c)
  <2>3. /\ k \in 0 .. Len(c.out) /\ Len(wire[w]) + k <= Window /\ (reset[Joiner(w)] => k = 0)
        /\ Flushed(w, c) \in Connection
        /\ Flushed(w, c).out = SubSeq(c.out, k + 1, Len(c.out))
        /\ Flushed(w, c).reader = c.reader /\ Flushed(w, c).inbox = c.inbox
        /\ WireAfter(w, c) = wire[w] \o SubSeq(c.out, 1, k)
        /\ WireAfter(w, c) \in Seq(Piece) /\ Len(WireAfter(w, c)) = Len(wire[w]) + k
    BY <2>1, <2>2, FlushFacts DEF Broken
  <2>4. conn'[w] = Flushed(w, c) /\ wire'[w] = WireAfter(w, c) /\ sent'[w] = sent[w] + 1
    BY <1>1, <1>3, <2>1
  <2> HIDE DEF k, c
  <2>5. Len(Flushed(w, c).out) <= MaxOutbox
    <3>1. PICK q \in Seq(Piece) : q = c.out
      BY <2>1 DEF c
    <3>2. Len(SubSeq(q, k + 1, Len(q))) = Len(q) - k /\ k \in Nat /\ Len(q) \in Nat
      BY <2>3, <3>1
    <3>3. MaxOutbox \in Nat /\ Len(q) <= MaxOutbox
      BY <2>1, <3>1 DEF TransportAssumption, c
    <3>4. QED
      BY <2>3, <3>1, <3>2, <3>3
  <2>6. Len(wire'[w]) <= Window
    BY <2>3, <2>4
  <2>7. QED
    BY <2>1, <2>3, <2>4, <2>5, <2>6 DEF c
<1>4. ASSUME NEW w \in Ways, w \notin ws \/ Overfull(w)
      PROVE  /\ wire'[w] = wire[w] /\ sent'[w] = sent[w] /\ conn'[w] \in Connection
             /\ conn'[w].out = conn[w].out /\ conn'[w].inbox = conn[w].inbox
             /\ conn'[w].reader = conn[w].reader
             /\ w \notin ws => conn'[w] = conn[w]
  <2>1. wire'[w] = wire[w] /\ sent'[w] = sent[w] /\ conn[w] \in Connection
    BY <1>1, <1>4, WayTyped
  <2>2. CASE w \notin ws
    BY <1>1, <2>1, <2>2
  <2>3. CASE w \in ws
    <3>1. conn'[w] = [conn[w] EXCEPT !.dead = TRUE]
      BY <1>1, <1>4, <2>3
    <3>2. QED
      BY <2>1, <2>3, <3>1 DEF Connection
  <2>4. QED
    BY <2>2, <2>3
<1>5. \A w \in Ways : /\ conn'[w] \in Connection /\ conn'[w].inbox = conn[w].inbox
                      /\ conn'[w].reader = conn[w].reader
  BY <1>3, <1>4
<1>6. TypeOK'
  <2>1. ASSUME NEW w \in Ways PROVE wire'[w] \in Seq(Piece) /\ sent'[w] \in Nat
    <3>1. wire[w] \in Seq(Piece) /\ sent[w] \in Nat
      BY WayTyped
    <3>2. CASE w \in ws /\ ~Overfull(w)
      BY <1>3, <3>1, <3>2
    <3>3. CASE ~(w \in ws /\ ~Overfull(w))
      BY <1>4, <3>1, <3>3
    <3>4. QED
      BY <3>2, <3>3
  <2>2. conn' \in [Ways -> Connection] /\ wire' \in [Ways -> Seq(Piece)] /\ sent' \in [Ways -> Nat]
    BY <1>1, <1>5, <2>1
  <2>3. ASSUME NEW w \in Ways
        PROVE  /\ Len(wire'[w]) <= Window /\ Len(conn'[w].out) <= MaxOutbox
               /\ got[w] <= sent'[w] /\ sent'[w] <= MaxSent[w[1]]
    <3>1. CASE w \in ws /\ ~Overfull(w)
      <4>1. /\ got[w] \in Nat /\ sent[w] \in Nat /\ got[w] <= sent[w] /\ sent[w] < MaxSent[w[1]]
            /\ MaxSent[w[1]] \in Nat
        BY <1>1, <3>1, WayTyped, WayFacts DEF TransportAssumption
      <4>2. QED
        BY <1>3, <3>1, <4>1
    <3>2. CASE ~(w \in ws /\ ~Overfull(w))
      BY <1>4, <3>2, WayTyped
    <3>3. QED
      BY <3>1, <3>2
  <2>4. QED
    BY <1>1, <2>2, <2>3 DEF TypeOK
<1>7. Placed'
  <2>1. ASSUME NEW w \in Ways, w[2] \notin Range(conns[w[1]]) PROVE conn'[w] = NewConnection
    <3>1. w \notin ws /\ conn[w] = NewConnection
      BY <2>1 DEF OpenWays, Placed
    <3>2. QED
      BY <1>4, <3>1
  <2>2. QED
    BY <1>1, <2>1 DEF Placed
<1>8. Framed'
  <2>1. ASSUME NEW w \in Ways \ gone PROVE Frames(w)'
    <3>1. Frames(w) /\ Back(w) \in Ways /\ UNCHANGED <<got, closed, reset>>
      BY <1>1, FramedWays, WayFacts
    <3>2. conn'[Back(w)].inbox = conn[Back(w)].inbox /\ conn'[Back(w)].reader = conn[Back(w)].reader
      BY <1>5, <3>1
    <3>3. CASE w \in ws /\ ~Overfull(w)
      <4>1. /\ Queued(w) \in Connection /\ Queued(w).out = conn[w].out \o Frame(sent[w] + 1)
            /\ Queued(w).out \in Seq(Piece) /\ ~closed[w]
        BY <1>2, <3>3 DEF OpenWays
      <4>2. /\ wire[w] \in Seq(Piece) /\ Len(wire[w]) <= Window /\ Len(wire[w]) \in Nat /\ sent[w] \in Nat
            /\ OnWayTyped(got[w], conn[Back(w)].inbox, conn[Back(w)].reader, wire[w], conn[w].out, sent[w])
        BY WayTyped
      <4> DEFINE c == Queued(w)
                 k == Written(w, c)
      <4>3. /\ k \in 0 .. Len(c.out) /\ (reset[Joiner(w)] => k = 0)
            /\ Flushed(w, c).out = SubSeq(c.out, k + 1, Len(c.out))
            /\ WireAfter(w, c) = wire[w] \o SubSeq(c.out, 1, k)
        BY <4>1, <4>2, FlushFacts DEF Broken
      <4>4. conn'[w] = Flushed(w, c) /\ wire'[w] = WireAfter(w, c) /\ sent'[w] = sent[w] + 1
        BY <1>3, <3>3
      <4> HIDE DEF k, c
      <4>5. OnWay(got[w], conn[Back(w)].inbox, conn[Back(w)].reader, wire[w], c.out, sent[w] + 1,
                  closed[w], reset[Joiner(w)])
        BY <3>1, <4>1, <4>2, Queueing DEF Frames, c
      <4>6. OnWayTyped(got[w], conn[Back(w)].inbox, conn[Back(w)].reader, wire[w], c.out, sent[w] + 1)
        BY <4>1, <4>2 DEF OnWayTyped, c
      <4>7. OnWay(got[w], conn[Back(w)].inbox, conn[Back(w)].reader, wire[w] \o SubSeq(c.out, 1, k),
                  SubSeq(c.out, k + 1, Len(c.out)), sent[w] + 1, closed[w], reset[Joiner(w)])
        BY <4>3, <4>5, <4>6, Flushing
      <4>8. QED
        BY <3>1, <3>2, <4>3, <4>4, <4>7 DEF Frames, Joiner
    <3>4. CASE ~(w \in ws /\ ~Overfull(w))
      <4>1. wire'[w] = wire[w] /\ sent'[w] = sent[w] /\ conn'[w].out = conn[w].out
        BY <1>4, <3>4
      <4>2. QED
        BY <3>1, <3>2, <4>1 DEF Frames, Joiner
    <3>5. QED
      BY <3>3, <3>4
  <2>2. QED
    BY <1>1, <2>1, FramedNext
<1>9. Passing'
  BY <1>1, <1>5, PassingKept
<1>10. QED
  BY <1>6, <1>7, <1>8, <1>9

LEMMA DisconnectStep ==
  ASSUME TransportAssumption, TransportInv, NEW n \in Programs, NEW m \in Programs, Disconnect(n, m)
  PROVE  TransportInv'
<1> USE DEF TransportInv
<1> DEFINE v == <<n, m>>
           kept == Kept(conns[n], Programs \ {m})
<1>1. /\ m \in Range(conns[n]) /\ conns' = [conns EXCEPT ![n] = kept]
      /\ conn' = [conn EXCEPT ![v] = NewConnection] /\ closed' = [closed EXCEPT ![v] = TRUE]
      /\ gone' = gone \cup {Back(v)} /\ cursor' = [cursor EXCEPT ![n] = 1]
      /\ passed' = [w \in Ways |-> IF w[1] = n THEN 0 ELSE passed[w]]
      /\ UNCHANGED <<backlog, wire, reset, sent, got>>
  BY DEF Disconnect, Back
<1>2. v \in Ways /\ ~closed[v] /\ v[1] = n /\ v[2] = m /\ Back(v) \in Ways /\ Back(Back(v)) = v
  BY <1>1, WayFacts DEF Placed
<1>3. /\ kept \in Seq(Programs) /\ Range(kept) = Range(conns[n]) \ {m} /\ IsInjective(kept)
  <2>1. conns[n] \in Seq(Programs) /\ IsInjective(conns[n])
    BY DEF TypeOK, Placed
  <2>2. /\ kept \in Seq(Programs) /\ Range(kept) = Range(conns[n]) \cap (Programs \ {m})
        /\ IsInjective(kept)
    BY <2>1, KeptFacts
  <2>3. Range(conns[n]) \subseteq Programs
    BY <2>1 DEF Range
  <2>4. QED
    BY <2>2, <2>3
<1> HIDE DEF v, kept
<1>4. /\ conns'[n] = kept /\ \A k \in Programs : k # n => conns'[k] = conns[k]
      /\ \A k \in Programs : Range(conns'[k]) \subseteq Range(conns[k])
  <2>1. conns'[n] = kept /\ \A k \in Programs : k # n => conns'[k] = conns[k]
    BY <1>1 DEF TypeOK
  <2>2. QED
    BY <1>3, <2>1
<1>5. /\ conn'[v] = NewConnection /\ \A w \in Ways : w # v => conn'[w] = conn[w]
      /\ closed'[v] = TRUE /\ \A w \in Ways : w # v => closed'[w] = closed[w]
  BY <1>1, <1>2 DEF TypeOK
<1>6. /\ cursor'[n] = 1 /\ \A k \in Programs : k # n => cursor'[k] = cursor[k]
  BY <1>1 DEF TypeOK
<1>7. TypeOK'
  <2>1. conns' \in [Programs -> Seq(Programs)] /\ cursor' \in [Programs -> Nat \ {0}]
    BY <1>1, <1>3 DEF TypeOK
  <2>2. /\ conn' \in [Ways -> Connection] /\ closed' \in [Ways -> BOOLEAN] /\ gone' \subseteq Ways
        /\ passed' \in [Ways -> Nat]
    BY <1>1, <1>2, NewTyped DEF TypeOK
  <2>3. ASSUME NEW w \in Ways PROVE Len(conn'[w].out) <= MaxOutbox
    <3>1. Len(<<>>) = 0 /\ MaxOutbox \in Nat
      BY DEF TransportAssumption
    <3>2. CASE w = v
      BY <1>5, <3>1, <3>2, NewTyped
    <3>3. CASE w # v
      BY <1>5, <3>3, WayTyped
    <3>4. QED
      BY <3>2, <3>3
  <2>4. QED
    BY <1>1, <2>1, <2>2, <2>3 DEF TypeOK
<1>8. Placed'
  <2>1. ASSUME NEW k \in Programs
        PROVE  /\ IsInjective(conns'[k])
               /\ \/ cursor'[k] = 1
                  \/ cursor'[k] <= Len(conns'[k])
               /\ \A p \in Range(conns'[k]) : <<k, p>> \in Ways /\ ~closed'[<<k, p>>]
    <3>1. CASE k = n
      <4>1. IsInjective(conns'[k]) /\ cursor'[k] = 1
        BY <1>3, <1>4, <1>6, <3>1
      <4>2. ASSUME NEW p \in Range(conns'[k]) PROVE <<k, p>> \in Ways /\ ~closed'[<<k, p>>]
        <5>1. p \in Range(conns[n]) /\ p # m
          BY <1>3, <1>4, <3>1, <4>2
        <5>2. <<n, p>> \in Ways /\ ~closed[<<n, p>>]
          BY <5>1 DEF Placed
        <5>3. <<n, p>> # v
          BY <5>1 DEF v
        <5>4. QED
          BY <1>5, <3>1, <5>2, <5>3
      <4>3. QED
        BY <4>1, <4>2
    <3>2. CASE k # n
      <4>1. /\ IsInjective(conns[k])
            /\ \/ cursor[k] = 1
               \/ cursor[k] <= Len(conns[k])
            /\ \A p \in Range(conns[k]) : <<k, p>> \in Ways /\ ~closed[<<k, p>>]
        BY DEF Placed
      <4>2. \A p : <<k, p>> # v
        BY <3>2 DEF v
      <4>3. QED
        BY <1>4, <1>5, <1>6, <3>2, <4>1, <4>2
    <3>3. QED
      BY <3>1, <3>2
  <2>2. Host \in Programs /\ Joiners \subseteq Programs
    BY DEF Programs
  <2>3. IsInjective(backlog)' 
    BY <1>1 DEF Placed
  <2>4. ASSUME NEW j \in Range(backlog) PROVE j \notin Range(conns'[Host]) /\ ~closed'[<<Host, j>>]
    <3>1. j \notin Range(conns[Host]) /\ ~closed[<<Host, j>>]
      BY DEF Placed
    <3>2. <<Host, j>> # v /\ <<Host, j>> \in Ways
      <4>1. j \in Joiners
        BY DEF TypeOK, Range
      <4>2. QED
        BY <1>1, <3>1, <4>1 DEF v, Ways, Programs, TransportAssumption
    <3>3. QED
      BY <1>4, <1>5, <2>2, <3>1, <3>2
  <2>5. ASSUME NEW j \in Joiners,
               j \in Range(backlog') \cup Range(conns'[Host]) \/ closed'[<<Host, j>>]
        PROVE  conns'[j] # <<>> \/ closed'[<<j, Host>>]
    <3>1. j \in Programs /\ j # Host /\ <<Host, j>> \in Ways /\ <<j, Host>> \in Ways
      BY <2>2 DEF Ways, TransportAssumption
    <3>2. j \in Range(backlog) \cup Range(conns[Host]) \/ closed[<<Host, j>>]
      <4>1. CASE <<Host, j>> = v
        BY <1>1, <4>1 DEF v
      <4>2. CASE <<Host, j>> # v
        BY <1>1, <1>4, <1>5, <2>2, <2>5, <3>1, <4>2
      <4>3. QED
        BY <4>1, <4>2
    <3>3. conns[j] # <<>> \/ closed[<<j, Host>>]
      BY <3>2 DEF Placed
    <3>4. CASE j = n
      <4>1. m = Host
        <5>1. Host \in {n, m}
          BY <1>2, WayFacts
        <5>2. QED
          BY <3>1, <3>4, <5>1
      <4>2. <<j, Host>> = v
        BY <3>4, <4>1 DEF v
      <4>3. QED
        BY <1>5, <4>2
    <3>5. CASE j # n
      <4>1. <<j, Host>> # v
        BY <3>5 DEF v
      <4>2. QED
        BY <1>4, <1>5, <3>1, <3>3, <3>5, <4>1
    <3>6. QED
      BY <3>4, <3>5
  <2>6. ASSUME NEW w \in Ways
        PROVE  /\ w[2] \notin Range(conns'[w[1]]) => conn'[w] = NewConnection
               /\ w \in gone' <=> closed'[Back(w)]
    <3>1. /\ w[1] \in Programs /\ Back(w) \in Ways /\ Back(Back(w)) = w /\ w = <<w[1], w[2]>>
          /\ w[2] \notin Range(conns[w[1]]) => conn[w] = NewConnection
          /\ w \in gone <=> closed[Back(w)]
      BY WayFacts DEF Placed
    <3>2. ASSUME w[2] \notin Range(conns'[w[1]]) PROVE conn'[w] = NewConnection
      <4>1. CASE w = v
        BY <1>5, <4>1
      <4>2. CASE w # v
        <5>1. CASE w[1] # n
          BY <1>4, <1>5, <3>1, <3>2, <4>2, <5>1
        <5>2. CASE w[1] = n
          <6>1. w[2] # m
            BY <3>1, <4>2, <5>2 DEF v
          <6>2. w[2] \notin Range(conns[w[1]])
            BY <1>3, <1>4, <3>2, <5>2, <6>1
          <6>3. QED
            BY <1>5, <3>1, <4>2, <6>2
        <5>3. QED
          BY <5>1, <5>2
      <4>3. QED
        BY <4>1, <4>2
    <3>3. w \in gone' <=> closed'[Back(w)]
      <4>1. CASE Back(w) = v
        <5>1. w = Back(v)
          BY <3>1, <4>1
        <5>2. QED
          BY <1>1, <1>5, <4>1, <5>1
      <4>2. CASE Back(w) # v
        <5>1. w # Back(v)
          BY <1>2, <4>2
        <5>2. QED
          BY <1>1, <1>5, <3>1, <4>2, <5>1
      <4>3. QED
        BY <4>1, <4>2
    <3>4. QED
      BY <3>2, <3>3
  <2>7. \A j \in Joiners :
          j \in Range(backlog') \cup Range(conns'[Host]) \/ closed'[<<Host, j>>] =>
            conns'[j] # <<>> \/ closed'[<<j, Host>>]
    BY <2>5
  <2>8. QED
    BY <1>1, <2>1, <2>3, <2>4, <2>6, <2>7 DEF Placed
<1>9. Framed'
  <2>1. ASSUME NEW w \in Ways \ gone' PROVE Frames(w)'
    <3>1. w \notin gone /\ Back(w) # v /\ Back(w) \in Ways
      <4>1. w # Back(v)
        BY <1>1, <2>1
      <4>2. Back(w) \in Ways /\ Back(Back(w)) = w
        BY WayFacts
      <4>3. QED
        BY <1>1, <2>1, <4>1, <4>2
    <3>2. Frames(w) /\ conn'[Back(w)] = conn[Back(w)] /\ UNCHANGED <<got, wire, sent, reset>>
      BY <1>1, <1>5, <3>1, FramedWays
    <3>3. CASE w # v
      <4>1. conn'[w] = conn[w] /\ closed'[w] = closed[w]
        BY <1>5, <3>3
      <4>2. QED
        BY <3>2, <4>1 DEF Frames, Joiner
    <3>4. CASE w = v
      <4>1. conn'[w].out = <<>> /\ closed'[w] = TRUE
        BY <1>5, <3>4, NewTyped
      <4>2. OnWay(got[w], conn[Back(w)].inbox, conn[Back(w)].reader, wire[w], <<>>, sent[w], TRUE,
                  reset[Joiner(w)])
        BY <3>2, WayTyped, Closing DEF Frames
      <4>3. QED
        BY <3>2, <4>1, <4>2 DEF Frames, Joiner
    <3>5. QED
      BY <3>3, <3>4
  <2>2. QED
    BY <2>1, FramedNext
<1>10. Passing'
  <2>1. ASSUME NEW w \in Ways, passed'[w] # 0
        PROVE  /\ w[1] # n /\ passed'[w] = passed[w] /\ conn'[w] = conn[w] /\ conns'[w[1]] = conns[w[1]]
               /\ cursor'[w[1]] = cursor[w[1]] /\ Awaited(w)' = Awaited(w)
    <3>1. w[1] # n /\ passed'[w] = passed[w] /\ w[1] \in Programs
      BY <1>1, <2>1, WayFacts
    <3>2. w # v
      BY <1>2, <3>1
    <3>3. conn'[w] = conn[w] /\ conns'[w[1]] = conns[w[1]] /\ cursor'[w[1]] = cursor[w[1]]
      BY <1>4, <1>5, <1>6, <3>1, <3>2
    <3>4. QED
      BY <3>1, <3>3 DEF Awaited
  <2>2. QED
    BY <2>1 DEF Passing
<1>11. QED
  BY <1>7, <1>8, <1>9, <1>10

LEMMA ResetStep ==
  ASSUME TransportAssumption, TransportInv, NEW j \in Joiners, Reset(j)
  PROVE  TransportInv'
<1> USE DEF TransportInv
<1> DEFINE a == <<j, Host>>
           b == <<Host, j>>
<1>1. /\ a \in Ways /\ b \in Ways /\ a # b /\ Joiner(a) = j /\ Joiner(b) = j
  BY DEF Ways, Programs, Joiner, TransportAssumption
<1>2. PICK k \in 0 .. Len(wire[a]), l \in 0 .. Len(wire[b]) :
        /\ wire' = [wire EXCEPT ![a] = SubSeq(@, 1, k), ![b] = SubSeq(@, 1, l)]
        /\ reset' = [reset EXCEPT ![j] = TRUE]
        /\ UNCHANGED <<conns, cursor, backlog, conn, closed, sent, got, gone, passed>>
  BY DEF Reset
<1>3. /\ reset' \in [Joiners -> BOOLEAN] /\ reset'[j] = TRUE
      /\ \A i \in Joiners : i # j => reset'[i] = reset[i]
  BY <1>2 DEF TypeOK
<1> HIDE DEF a, b
<1>4. /\ wire'[a] = SubSeq(wire[a], 1, k) /\ wire'[b] = SubSeq(wire[b], 1, l)
      /\ \A w \in Ways : w # a /\ w # b => wire'[w] = wire[w]
      /\ wire' = [w \in Ways |-> wire'[w]]
  BY <1>1, <1>2 DEF TypeOK
<1>5. ASSUME NEW w \in Ways
      PROVE  /\ wire'[w] \in Seq(Piece) /\ Len(wire'[w]) <= Window
             /\ \E i \in 0 .. Len(wire[w]) : wire'[w] = SubSeq(wire[w], 1, i)
  <2>1. wire[w] \in Seq(Piece) /\ Len(wire[w]) <= Window /\ Len(wire[w]) \in Nat
    BY WayTyped
  <2>2. PICK q \in Seq(Piece) : q = wire[w]
    BY <2>1
  <2>3. PICK i \in 0 .. Len(q) : wire'[w] = SubSeq(q, 1, i)
    <3>1. CASE w = a
      BY <1>4, <2>2, <3>1
    <3>2. CASE w = b
      BY <1>4, <2>2, <3>2
    <3>3. CASE w # a /\ w # b
      <4>1. SubSeq(q, 1, Len(q)) = q /\ Len(q) \in 0 .. Len(q)
        BY SubSeqFull
      <4>2. QED
        BY <1>4, <2>2, <3>3, <4>1
    <3>4. QED
      BY <3>1, <3>2, <3>3
  <2>4. /\ SubSeq(q, 1, i) \in Seq(Piece) /\ Len(SubSeq(q, 1, i)) = i /\ i <= Len(q) /\ i \in Nat
        /\ Window \in Nat /\ Len(q) \in Nat
    BY DEF TransportAssumption
  <2>5. QED
    BY <2>1, <2>2, <2>3, <2>4
<1>6. TypeOK'
  <2>1. wire' \in [Ways -> Seq(Piece)]
    BY <1>4, <1>5
  <2>2. QED
    BY <1>2, <1>3, <1>5, <2>1 DEF TypeOK
<1>7. Placed'
  BY <1>2 DEF Placed
<1>8. Framed'
  <2>1. ASSUME NEW w \in Ways \ gone' PROVE Frames(w)'
    <3>1. Frames(w) /\ UNCHANGED <<conn, closed, sent, got>>
      BY <1>2, <2>1, FramedWays
    <3>2. CASE Joiner(w) = j
      <4>1. PICK i \in 0 .. Len(wire[w]) : wire'[w] = SubSeq(wire[w], 1, i)
        BY <1>5
      <4>2. OnWay(got[w], conn[Back(w)].inbox, conn[Back(w)].reader, SubSeq(wire[w], 1, i), conn[w].out,
                  sent[w], closed[w], TRUE)
        BY <3>1, WayTyped, Cutting DEF Frames
      <4>3. reset'[Joiner(w)] = TRUE
        BY <1>3, <3>2
      <4>4. QED
        BY <3>1, <4>1, <4>2, <4>3 DEF Frames, Joiner
    <3>3. CASE Joiner(w) # j
      <4>1. wire'[w] = wire[w]
        BY <1>1, <1>4, <3>3
      <4>2. reset'[Joiner(w)] = reset[Joiner(w)]
        BY <1>3, <3>3, WayFacts
      <4>3. QED
        BY <3>1, <4>1, <4>2 DEF Frames, Joiner
    <3>4. QED
      BY <3>2, <3>3
  <2>2. QED
    BY <2>1, FramedNext
<1>9. Passing'
  BY <1>2, PassingKept
<1>10. QED
  BY <1>6, <1>7, <1>8, <1>9

(***************************************************************************)
(* The search for a message, and the two ways a poll ends.                 *)
(***************************************************************************)
LEMMA Turned ==
  ASSUME NEW l \in Nat, NEW i \in 1 .. l, NEW c \in 1 .. l
  PROVE  /\ (i + l - c) % l = IF i >= c THEN i - c ELSE i + l - c
         /\ (i % l) + 1 = IF i = l THEN 1 ELSE i + 1
OBVIOUS

\* The cursor is at a connection; from it, no two are equally far.
LEMMA CursorFacts ==
  ASSUME TransportAssumption, TypeOK, Placed, NEW n \in Programs, Listed(n) # <<>>
  PROVE  /\ cursor[n] \in 1 .. Len(Listed(n))
         /\ \A i \in 1 .. Len(Listed(n)) :
              /\ FromCursor(n, i) = IF i >= cursor[n] THEN i - cursor[n]
                                    ELSE i + Len(Listed(n)) - cursor[n]
              /\ FromCursor(n, i) \in 0 .. Len(Listed(n)) - 1
         /\ \A i, k \in 1 .. Len(Listed(n)) : FromCursor(n, i) = FromCursor(n, k) => i = k
<1> DEFINE l == Len(Listed(n))
           c == cursor[n]
<1>1. l \in Nat /\ l >= 1 /\ Len(conns[n]) <= l /\ Len(conns[n]) \in Nat
  <2>1. PICK q \in Seq(Programs) : q = Listed(n)
    BY ListedFacts
  <2>2. Len(q) \in Nat /\ Len(q) >= 1
    BY <2>1
  <2>3. QED
    BY <2>1, <2>2, ListedFacts
<1>2. c \in Nat \ {0} /\ (c = 1 \/ c <= Len(conns[n]))
  BY DEF TypeOK, Placed
<1>3. \A i : FromCursor(n, i) = (i + l - c) % l
  BY DEF FromCursor
<1> HIDE DEF l, c
<1>4. c \in 1 .. l
  BY <1>1, <1>2
<1>5. ASSUME NEW i \in 1 .. l PROVE FromCursor(n, i) = IF i >= c THEN i - c ELSE i + l - c
  BY <1>1, <1>3, <1>4, Turned
<1>6. ASSUME NEW i \in 1 .. l PROVE FromCursor(n, i) \in 0 .. l - 1
  <2>1. (IF i >= c THEN i - c ELSE i + l - c) \in 0 .. l - 1
    BY <1>1, <1>4
  <2>2. QED
    BY <1>5, <2>1
<1>7. ASSUME NEW i \in 1 .. l, NEW k \in 1 .. l, FromCursor(n, i) = FromCursor(n, k) PROVE i = k
  <2>1. (IF i >= c THEN i - c ELSE i + l - c) = (IF k >= c THEN k - c ELSE k + l - c)
    BY <1>5, <1>7
  <2>2. QED
    BY <1>1, <1>4, <2>1
<1>8. QED
  BY <1>4, <1>5, <1>6, <1>7 DEF l, c

\* The message taken is of the first connection from the cursor that has one.
LEMMA FirstReadyFacts ==
  ASSUME TransportAssumption, TypeOK, Placed, NEW n \in Programs, Listed(n) # <<>>,
         NEW ready \in SUBSET (1 .. Len(Listed(n))), ready # {}
  PROVE  /\ FirstReady(n, ready) \in ready
         /\ \A k \in ready : FromCursor(n, FirstReady(n, ready)) <= FromCursor(n, k)
<1> DEFINE l == Len(Listed(n))
           far == {FromCursor(n, k) + 1 : k \in ready}
<1>1. l \in Nat
  BY ListedFacts
<1>2. \A k \in ready : FromCursor(n, k) \in 0 .. l - 1
  BY CursorFacts
<1>3. far \in SUBSET (1 .. l) /\ far # {}
  <2>1. ASSUME NEW k \in ready PROVE FromCursor(n, k) + 1 \in 1 .. l
    <3>1. FromCursor(n, k) \in 0 .. l - 1
      BY <1>2
    <3> HIDE DEF l
    <3>2. QED
      BY <1>1, <3>1
  <2> HIDE DEF l
  <2>2. QED
    BY <2>1
<1>4. PICK x \in far : \A y \in far : x <= y
  <2> HIDE DEF far, l
  <2>1. QED
    BY <1>1, <1>3, FirstPlace
<1>5. PICK i \in ready : x = FromCursor(n, i) + 1
  BY <1>4
<1>6. \A k \in ready : FromCursor(n, i) <= FromCursor(n, k)
  <2>1. ASSUME NEW k \in ready PROVE FromCursor(n, i) <= FromCursor(n, k)
    <3>1. FromCursor(n, i) + 1 <= FromCursor(n, k) + 1
      BY <1>4, <1>5
    <3>2. FromCursor(n, i) \in Nat /\ FromCursor(n, k) \in Nat
      BY <1>2
    <3>3. QED
      BY <3>1, <3>2
  <2>2. QED
    BY <2>1
<1>7. QED
  BY <1>6 DEF FirstReady

\* A poll that takes a message.
PollTakes(n) ==
  /\ Listed(n) # <<>> /\ wire' = WireAfterPoll(n) /\ Ready(n, Served(n)) # {}
  /\ TakeMessage(n, Served(n), FirstReady(n, Ready(n, Served(n))))
  /\ backlog' = IF n = Host THEN <<>> ELSE backlog
  /\ UNCHANGED <<reset, sent>>

PollReaps(n) ==
  /\ Listed(n) # <<>> /\ wire' = WireAfterPoll(n) /\ Ready(n, Served(n)) = {}
  /\ Reap(n, Served(n))
  /\ backlog' = IF n = Host THEN <<>> ELSE backlog
  /\ UNCHANGED <<reset, sent>>

LEMMA PollEnds ==
  ASSUME NEW n \in Programs, Poll(n)
  PROVE  PollTakes(n) \/ PollReaps(n)
BY DEF Poll, PollTakes, PollReaps

\* What is taken is the next message of a way that is not over.
LEMMA TakenFacts ==
  ASSUME TransportAssumption, TransportInv, NEW n \in Programs, PollTakes(n)
  PROVE  \E i \in 1 .. Len(Listed(n)), from \in Polled(n) :
           /\ from = <<n, Listed(n)[i]>> /\ i = FirstReady(n, Ready(n, Served(n)))
           /\ Served(n)[from].inbox # <<>>
           /\ \A k \in 1 .. Len(Listed(n)) : Served(n)[<<n, Listed(n)[k]>>].inbox # <<>> =>
                                              FromCursor(n, i) <= FromCursor(n, k)
           /\ Back(from) \in Ways \ gone
           /\ Head(Served(n)[from].inbox) = got[Back(from)] + 1
           /\ got[Back(from)] + 1 <= sent[Back(from)]
           /\ OnWay(got[Back(from)] + 1, Tail(Served(n)[from].inbox), Served(n)[from].reader,
                    WireAfterPoll(n)[Back(from)], Served(n)[Back(from)].out, sent[Back(from)],
                    closed[Back(from)], reset[Joiner(Back(from))])
<1> USE DEF TransportInv
<1> DEFINE ready == Ready(n, Served(n))
           i == FirstReady(n, ready)
           from == <<n, Listed(n)[i]>>
           v == Back(from)
<1>1. Listed(n) # <<>> /\ ready # {}
  BY DEF PollTakes
<1>2. Listed(n) \in Seq(Programs) /\ DOMAIN Listed(n) = 1 .. Len(Listed(n)) /\ Len(Listed(n)) \in Nat
  BY ListedFacts
<1>3. ready = {k \in 1 .. Len(Listed(n)) : Served(n)[<<n, Listed(n)[k]>>].inbox # <<>>}
  BY <1>2 DEF Ready
<1>4. i \in ready /\ \A k \in ready : FromCursor(n, i) <= FromCursor(n, k)
  <2>1. ready \in SUBSET (1 .. Len(Listed(n)))
    BY <1>3
  <2> HIDE DEF ready
  <2>2. QED
    BY <1>1, <2>1, FirstReadyFacts
<1>5. i \in 1 .. Len(Listed(n)) /\ Served(n)[from].inbox # <<>>
  BY <1>3, <1>4
<1> HIDE DEF i, ready
<1>6. from \in Polled(n)
  BY <1>2, <1>5 DEF Polled, Range
<1> HIDE DEF from
<1>7. /\ from \in Ways /\ v \in Ways /\ Back(v) = from /\ ~closed[from] /\ v \notin gone
  <2>1. from \in Ways /\ ~closed[from]
    BY <1>6, PolledFacts
  <2>2. v \in Ways /\ Back(v) = from
    BY <2>1, WayFacts
  <2>3. QED
    BY <2>1, <2>2 DEF Placed
<1> HIDE DEF v
<1>8. OnWay(got[v], Served(n)[from].inbox, Served(n)[from].reader, WireAfterPoll(n)[v],
            Served(n)[v].out, sent[v], closed[v], reset[Joiner(v)])
  <2>1. Frames(v)
    BY <1>7, FramedWays
  <2>2. QED
    BY <1>7, <2>1, ServedFrames
<1>9. OnWayTyped(got[v], Served(n)[from].inbox, Served(n)[from].reader, WireAfterPoll(n)[v],
                 Served(n)[v].out, sent[v])
  <2>1. Served(n)[from] \in Connection /\ Served(n)[v] \in Connection /\ WireAfterPoll(n)[v] \in Seq(Piece)
    BY <1>7, ServedFacts
  <2>2. got[v] \in Nat /\ sent[v] \in Nat
    BY <1>7, WayTyped
  <2>3. QED
    BY <2>1, <2>2, ConnectionParts DEF OnWayTyped
<1>10. /\ Head(Served(n)[from].inbox) = got[v] + 1 /\ got[v] + 1 <= sent[v]
       /\ OnWay(got[v] + 1, Tail(Served(n)[from].inbox), Served(n)[from].reader, WireAfterPoll(n)[v],
                Served(n)[v].out, sent[v], closed[v], reset[Joiner(v)])
  BY <1>5, <1>8, <1>9, Taking
<1>11. \A k \in 1 .. Len(Listed(n)) : Served(n)[<<n, Listed(n)[k]>>].inbox # <<>> =>
                                        FromCursor(n, i) <= FromCursor(n, k)
  BY <1>3, <1>4
<1>12. from = <<n, Listed(n)[i]>> /\ i = FirstReady(n, Ready(n, Served(n))) /\ v = Back(from)
  BY DEF from, i, ready, v
<1>13. QED
  BY <1>5, <1>6, <1>7, <1>10, <1>11, <1>12

\* A way of the program that no poll of it serves has a connection nothing was done with.
LEMMA UnlistedNew ==
  ASSUME TransportAssumption, TypeOK, Placed, NEW n \in Programs,
         NEW w \in Ways, w[1] = n, w[2] \notin Range(Listed(n))
  PROVE  w \notin Polled(n) /\ Served(n)[w] = NewConnection
<1>1. w[2] \notin Range(conns[n])
  BY ListedFacts
<1>2. conn[w] = NewConnection
  BY <1>1 DEF Placed
<1>3. w \notin Polled(n)
  BY PolledFacts
<1>4. QED
  BY <1>2, <1>3, ServedFacts

\* The host's backlog is empty after a poll of the host, and another's poll leaves it.
LEMMA BacklogPolled ==
  ASSUME TransportAssumption, TypeOK, Placed, NEW n \in Programs,
         backlog' = IF n = Host THEN <<>> ELSE backlog
  PROVE  /\ backlog' \in Seq(Joiners) /\ IsInjective(backlog')
         /\ Range(backlog') = IF n = Host THEN {} ELSE Range(backlog)
<1>1. Range(<<>>) = {} /\ IsInjective(<<>>) /\ <<>> \in Seq(Joiners)
  BY DEF Range, IsInjective
<1>2. backlog \in Seq(Joiners) /\ IsInjective(backlog)
  BY DEF TypeOK, Placed
<1>3. QED
  BY <1>1, <1>2

\* One message taken, whoever is not its sender is that much closer to the cursor.
LEMMA CloserToCursor ==
  ASSUME NEW l \in Nat, NEW c \in 1 .. l, NEW i \in 1 .. l, NEW k \in 1 .. l, NEW p \in Nat, i # k,
         (IF i >= c THEN i - c ELSE i + l - c) <= (IF k >= c THEN k - c ELSE k + l - c),
         p + (IF k >= c THEN k - c ELSE k + l - c) < l,
         NEW d, d = IF i = l THEN 1 ELSE i + 1
  PROVE  p + 1 + (IF k >= d THEN k - d ELSE k + l - d) < l
OBVIOUS

\* The place of an awaited connection among those listed, and how far it may be.
LEMMA AwaitedPlace ==
  ASSUME TransportAssumption, TypeOK, Placed, Passing, NEW n \in Programs, Listed(n) # <<>>,
         NEW w \in Ways, w[1] = n, NEW k \in 1 .. Len(Listed(n)), Listed(n)[k] = w[2]
  PROVE  passed[w] + FromCursor(n, k) < Len(Listed(n))
<1> DEFINE l == Len(Listed(n))
           s == Len(conns[n])
           c == cursor[n]
<1>1. l \in Nat /\ s \in Nat /\ s <= l /\ \A i \in 1 .. s : Listed(n)[i] = conns[n][i]
  BY ListedFacts
<1>2. c \in 1 .. l /\ FromCursor(n, k) \in 0 .. l - 1
      /\ FromCursor(n, k) = IF k >= c THEN k - c ELSE k + l - c
  BY CursorFacts
<1>3. passed[w] \in Nat
  BY WayTyped
<1>4. CASE passed[w] = 0
  BY <1>1, <1>2, <1>4
<1>5. CASE passed[w] # 0
  <2> DEFINE i == Awaited(w)
  <2>1. /\ w[2] \in Range(conns[n])
        /\ passed[w] + (IF i >= c THEN i - c ELSE i + s - c) < s
    BY <1>5 DEF Passing
  <2>2. i \in DOMAIN conns[n] /\ conns[n][i] = w[2]
    BY <2>1 DEF Awaited, Range
  <2>3. DOMAIN conns[n] = 1 .. s
    BY DEF TypeOK
  <2>4. Listed(n)[i] = Listed(n)[k] /\ i \in 1 .. l
    BY <1>1, <2>2, <2>3
  <2>5. i = k
    BY <2>4, ListedFacts DEF IsInjective
  <2>6. i \in 1 .. s
    BY <2>2, <2>3
  <2> HIDE DEF i
  <2>7. passed[w] + (IF k >= c THEN k - c ELSE k + s - c) < s /\ k \in 1 .. s
    BY <2>1, <2>5, <2>6
  <2> HIDE DEF l, s, c
  <2>8. passed[w] + (IF k >= c THEN k - c ELSE k + l - c) < l
    BY <1>1, <1>2, <1>3, <2>7
  <2>9. QED
    BY <1>2, <2>8 DEF l
<1>6. QED
  BY <1>4, <1>5

\* What a message taken leaves behind, by way.
LEMMA TakeStep ==
  ASSUME TransportAssumption, TransportInv, NEW n \in Programs, PollTakes(n)
  PROVE  TransportInv'
<1> USE DEF TransportInv
<1> DEFINE l == Len(Listed(n))
           served == Served(n)
<1>1. PICK i \in 1 .. l, from \in Polled(n) :
        /\ from = <<n, Listed(n)[i]>> /\ i = FirstReady(n, Ready(n, served))
        /\ served[from].inbox # <<>>
        /\ \A k \in 1 .. l : served[<<n, Listed(n)[k]>>].inbox # <<>> =>
                               FromCursor(n, i) <= FromCursor(n, k)
        /\ Back(from) \in Ways \ gone
        /\ Head(served[from].inbox) = got[Back(from)] + 1 /\ got[Back(from)] + 1 <= sent[Back(from)]
        /\ OnWay(got[Back(from)] + 1, Tail(served[from].inbox), served[from].reader,
                 WireAfterPoll(n)[Back(from)], served[Back(from)].out, sent[Back(from)],
                 closed[Back(from)], reset[Joiner(Back(from))])
  BY TakenFacts
<1> DEFINE v == Back(from)
<1>2. /\ Listed(n) # <<>> /\ wire' = WireAfterPoll(n)
      /\ backlog' = IF n = Host THEN <<>> ELSE backlog
      /\ UNCHANGED <<reset, sent, closed, gone>>
      /\ conns' = [conns EXCEPT ![n] = Listed(n)]
      /\ cursor' = [cursor EXCEPT ![n] = (i % l) + 1]
      /\ got' = [got EXCEPT ![v] = got[v] + 1]
      /\ conn' = [served EXCEPT ![from].inbox = Tail(@)]
      /\ passed' = [w \in Ways |-> IF w[1] # n THEN passed[w]
                                   ELSE IF w = from \/ served[w].inbox = <<>> THEN 0
                                   ELSE passed[w] + 1]
  BY <1>1 DEF PollTakes, TakeMessage
<1>3. /\ Listed(n) \in Seq(Programs) /\ IsInjective(Listed(n)) /\ l \in Nat /\ DOMAIN Listed(n) = 1 .. l
      /\ Range(Listed(n)) = Range(conns[n]) \cup (IF n = Host THEN Range(backlog) ELSE {})
      /\ \A m \in Range(Listed(n)) : <<n, m>> \in Ways /\ ~closed[<<n, m>>]
  BY ListedFacts
<1>4. /\ served \in [Ways -> Connection] /\ WireAfterPoll(n) \in [Ways -> Seq(Piece)]
      /\ \A w \in Ways : /\ Len(WireAfterPoll(n)[w]) <= Window /\ Len(served[w].out) <= MaxOutbox
                         /\ conn[w].inbox # <<>> => served[w].inbox = conn[w].inbox
  BY ServedFacts
<1>5. from \in Ways /\ from[1] = n /\ v \in Ways /\ Back(v) = from
  BY <1>1, PolledFacts, WayFacts
<1>6. /\ conns'[n] = Listed(n) /\ \A k \in Programs : k # n => conns'[k] = conns[k]
      /\ \A k \in Programs : Range(conns[k]) \subseteq Range(conns'[k])
  <2>1. conns'[n] = Listed(n) /\ \A k \in Programs : k # n => conns'[k] = conns[k]
    BY <1>2 DEF TypeOK
  <2>2. QED
    BY <1>3, <2>1
<1>7. cursor'[n] = (i % l) + 1 /\ \A k \in Programs : k # n => cursor'[k] = cursor[k]
  BY <1>2 DEF TypeOK
<1> HIDE DEF served, v
<1>8. /\ conn'[from] = [served[from] EXCEPT !.inbox = Tail(@)]
      /\ \A w \in Ways : w # from => conn'[w] = served[w]
      /\ conn' = [w \in Ways |-> conn'[w]]
  BY <1>2, <1>4, <1>5
<1>9. /\ conn'[from] \in Connection /\ conn'[from].inbox = Tail(served[from].inbox)
      /\ conn'[from].reader = served[from].reader /\ conn'[from].out = served[from].out
  <2>1. served[from] \in Connection /\ served[from].inbox \in Seq(Nat)
    BY <1>4, <1>5, ConnectionParts
  <2>2. PICK q \in Seq(Nat) : q = served[from].inbox /\ q # <<>>
    BY <1>1, <2>1 DEF served
  <2>3. Tail(q) \in Seq(Nat)
    BY <2>2
  <2>4. QED
    BY <1>8, <2>1, <2>2, <2>3 DEF Connection
<1>10. /\ got'[v] = got[v] + 1 /\ \A w \in Ways : w # v => got'[w] = got[w]
       /\ got' \in [Ways -> Nat]
  <2>1. got \in [Ways -> Nat]
    BY DEF TypeOK
  <2>2. got[v] + 1 \in Nat
    BY <1>5, <2>1
  <2>3. QED
    BY <1>2, <1>5, <2>1, <2>2
<1>11. (i % l) + 1 = IF i = l THEN 1 ELSE i + 1
  <2>1. l \in Nat /\ i \in 1 .. l
    BY <1>1, <1>3
  <2> HIDE DEF l
  <2>2. QED
    BY <2>1, Turned
<1>12. TypeOK'
  <2>1. conns' \in [Programs -> Seq(Programs)]
    BY <1>2, <1>3 DEF TypeOK
  <2>2. cursor' \in [Programs -> Nat \ {0}]
    <3>1. (i % l) + 1 \in Nat \ {0}
      BY <1>1, <1>3, <1>11
    <3>2. QED
      BY <1>2, <3>1 DEF TypeOK
  <2>3. \A w \in Ways : conn'[w] \in Connection /\ Len(conn'[w].out) <= MaxOutbox
    BY <1>4, <1>8, <1>9, Zenon
  <2>4. conn' \in [Ways -> Connection]
    BY <1>8, <2>3
  <2>5. wire' \in [Ways -> Seq(Piece)] /\ \A w \in Ways : Len(wire'[w]) <= Window
    BY <1>2, <1>4
  <2>6. passed' \in [Ways -> Nat]
    BY <1>2 DEF TypeOK
  <2>7. \A w \in Ways : got'[w] <= sent'[w] /\ sent'[w] <= MaxSent[w[1]]
    BY <1>1, <1>2, <1>10, WayTyped DEF v
  <2>8. backlog' \in Seq(Joiners)
    BY <1>2, BacklogPolled
  <2>9. QED
    BY <1>2, <1>10, <2>1, <2>2, <2>3, <2>4, <2>5, <2>6, <2>7, <2>8 DEF TypeOK
<1>13. Placed'
  <2>1. Host \in Programs /\ Joiners \subseteq Programs
    BY DEF Programs
  <2>2. ASSUME NEW k \in Programs
        PROVE  /\ IsInjective(conns'[k])
               /\ \/ cursor'[k] = 1
                  \/ cursor'[k] <= Len(conns'[k])
               /\ \A m \in Range(conns'[k]) : <<k, m>> \in Ways /\ ~closed'[<<k, m>>]
    <3>1. CASE k = n
      <4>1. (i % l) + 1 = 1 \/ (i % l) + 1 <= l
        BY <1>1, <1>3, <1>11
      <4>2. QED
        BY <1>2, <1>3, <1>6, <1>7, <3>1, <4>1
    <3>2. CASE k # n
      BY <1>2, <1>6, <1>7, <3>2 DEF Placed
    <3>3. QED
      BY <3>1, <3>2
  <2>3. IsInjective(backlog') /\ Range(backlog') = IF n = Host THEN {} ELSE Range(backlog)
    BY <1>2, BacklogPolled
  <2>4. \A j \in Range(backlog') : j \notin Range(conns'[Host]) /\ ~closed'[<<Host, j>>]
    BY <1>2, <1>6, <2>1, <2>3 DEF Placed
  <2>5. ASSUME NEW j \in Joiners,
               j \in Range(backlog') \cup Range(conns'[Host]) \/ closed'[<<Host, j>>]
        PROVE  conns'[j] # <<>> \/ closed'[<<j, Host>>]
    <3>1. j \in Range(backlog) \cup Range(conns[Host]) \/ closed[<<Host, j>>]
      BY <1>2, <1>3, <1>6, <2>1, <2>3, <2>5
    <3>2. conns[j] # <<>> \/ closed[<<j, Host>>]
      BY <3>1 DEF Placed
    <3>3. QED
      BY <1>2, <1>6, <2>1, <3>2
  <2>6. ASSUME NEW w \in Ways, w[2] \notin Range(conns'[w[1]]) PROVE conn'[w] = NewConnection
    <3>1. w[1] \in Programs
      BY WayFacts
    <3>2. CASE w[1] = n
      <4>1. w \notin Polled(n) /\ served[w] = NewConnection
        BY <1>6, <2>6, <3>2, UnlistedNew DEF served
      <4>2. w # from
        BY <1>1, <4>1
      <4>3. QED
        BY <1>8, <4>1, <4>2
    <3>3. CASE w[1] # n
      <4>1. conn[w] = NewConnection
        BY <1>6, <2>6, <3>1, <3>3 DEF Placed
      <4>2. w \notin Polled(n)
        BY <3>3, PolledFacts
      <4>3. served[w] = conn[w] /\ w # from
        BY <1>5, <3>3, <4>2, ServedFacts DEF served
      <4>4. QED
        BY <1>8, <4>1, <4>3
    <3>4. QED
      BY <3>2, <3>3
  <2>7. \A w \in Ways : w \in gone' <=> closed'[Back(w)]
    BY <1>2 DEF Placed
  <2>8. \A j \in Joiners :
          j \in Range(backlog') \cup Range(conns'[Host]) \/ closed'[<<Host, j>>] =>
            conns'[j] # <<>> \/ closed'[<<j, Host>>]
    BY <2>5
  <2>9. QED
    BY <2>2, <2>3, <2>4, <2>6, <2>7, <2>8 DEF Placed
<1>14. Framed'
  <2>1. ASSUME NEW w \in Ways \ gone' PROVE Frames(w)'
    <3>1. /\ w \in Ways \ gone /\ Back(w) \in Ways /\ Back(Back(w)) = w
          /\ wire'[w] = WireAfterPoll(n)[w] /\ UNCHANGED <<reset, sent, closed>>
      BY <1>2, <2>1, WayFacts
    <3>2. \A x \in Ways : conn'[x].out = served[x].out /\ conn'[x].reader = served[x].reader
      BY <1>8, <1>9
    <3>3. CASE w = v
      BY <1>1, <1>5, <1>9, <1>10, <3>1, <3>2, <3>3 DEF Frames, Joiner, v, served
    <3>4. CASE w # v
      <4>1. Back(w) # from
        BY <3>1, <3>4 DEF v
      <4>2. conn'[Back(w)] = served[Back(w)] /\ got'[w] = got[w]
        BY <1>8, <1>10, <3>1, <3>4, <4>1
      <4>3. OnWay(got[w], served[Back(w)].inbox, served[Back(w)].reader, WireAfterPoll(n)[w],
                  served[w].out, sent[w], closed[w], reset[Joiner(w)])
        BY <3>1, FramedWays, ServedFrames DEF served
      <4>4. QED
        BY <3>1, <3>2, <4>2, <4>3 DEF Frames, Joiner
    <3>5. QED
      BY <3>3, <3>4
  <2>2. QED
    BY <2>1, FramedNext
<1>15. Passing'
  <2>1. ASSUME NEW w \in Ways, passed'[w] # 0, w[1] # n
        PROVE  /\ conn'[w].inbox # <<>> /\ passed[w] # 0 /\ passed'[w] = passed[w]
               /\ conns'[w[1]] = conns[w[1]] /\ cursor'[w[1]] = cursor[w[1]] /\ Awaited(w)' = Awaited(w)
    <3>1. passed'[w] = passed[w] /\ w[1] \in Programs /\ w # from
      BY <1>2, <1>5, <2>1, WayFacts
    <3>2. conns'[w[1]] = conns[w[1]] /\ cursor'[w[1]] = cursor[w[1]]
      BY <1>6, <1>7, <2>1, <3>1
    <3>3. conn'[w].inbox # <<>>
      <4>1. conn[w].inbox # <<>>
        BY <2>1, <3>1 DEF Passing
      <4>2. QED
        BY <1>4, <1>8, <3>1, <4>1
    <3>4. QED
      BY <2>1, <3>1, <3>2, <3>3 DEF Awaited
  <2>2. ASSUME NEW w \in Ways, passed'[w] # 0, w[1] = n
        PROVE  /\ conn'[w].inbox # <<>> /\ w[2] \in Range(conns'[n])
               /\ LET k == Awaited(w)'
                  IN passed'[w] + (IF k >= cursor'[n] THEN k - cursor'[n]
                                   ELSE k + Len(conns'[n]) - cursor'[n]) < Len(conns'[n])
    <3>1. w # from /\ served[w].inbox # <<>> /\ passed'[w] = passed[w] + 1
      BY <1>2, <2>2
    <3>2. conn'[w].inbox # <<>>
      BY <1>8, <3>1
    <3>3. w[2] \in Range(Listed(n))
      <4>1. NewConnection.inbox = <<>>
        BY NewTyped
      <4>2. QED
        BY <2>2, <3>1, <4>1, UnlistedNew DEF served
    <3> DEFINE k == Awaited(w)'
    <3>4. k = CHOOSE x \in DOMAIN Listed(n) : Listed(n)[x] = w[2]
      BY <1>6, <2>2 DEF Awaited
    <3>5. k \in 1 .. l /\ Listed(n)[k] = w[2]
      BY <1>3, <3>3, <3>4 DEF Range
    <3> HIDE DEF k
    <3>6. w = <<n, w[2]>>
      BY <2>2, WayFacts
    <3>7. k # i
      BY <1>1, <3>1, <3>5, <3>6
    <3>8. FromCursor(n, i) <= FromCursor(n, k)
      BY <1>1, <3>1, <3>5, <3>6 DEF served
    <3>9. passed[w] + FromCursor(n, k) < l /\ passed[w] \in Nat
      BY <1>2, <2>2, <3>5, AwaitedPlace, WayTyped
    <3>10. /\ cursor[n] \in 1 .. l
           /\ FromCursor(n, i) = IF i >= cursor[n] THEN i - cursor[n] ELSE i + l - cursor[n]
           /\ FromCursor(n, k) = IF k >= cursor[n] THEN k - cursor[n] ELSE k + l - cursor[n]
      BY <1>1, <1>2, <3>5, CursorFacts
    <3>11. cursor'[n] = (IF i = l THEN 1 ELSE i + 1) /\ conns'[n] = Listed(n) /\ l \in Nat /\ i \in 1 .. l
      BY <1>1, <1>3, <1>6, <1>7, <1>11
    <3>12. l = Len(Listed(n))
      OBVIOUS
    <3> HIDE DEF l
    <3>13. passed[w] + 1 + (IF k >= cursor'[n] THEN k - cursor'[n] ELSE k + l - cursor'[n]) < l
      BY <3>5, <3>7, <3>8, <3>9, <3>10, <3>11, CloserToCursor
    <3>14. QED
      BY <3>1, <3>2, <3>3, <3>11, <3>12, <3>13 DEF k
  <2>3. QED
    BY <2>1, <2>2 DEF Passing
<1>16. QED
  BY <1>12, <1>13, <1>14, <1>15

\* What is reaped is over for both: the program's end is closed and the peer's way told.
LEMMA ReapStep ==
  ASSUME TransportAssumption, TransportInv, NEW n \in Programs, PollReaps(n)
  PROVE  TransportInv'
<1> USE DEF TransportInv
<1> DEFINE served == Served(n)
           reaped == {w \in Polled(n) : served[w].dead}
           S == {m \in Programs : <<n, m>> \notin reaped}
           kept == Kept(Listed(n), S)
<1>1. /\ Listed(n) # <<>> /\ wire' = WireAfterPoll(n) /\ Ready(n, served) = {}
      /\ backlog' = IF n = Host THEN <<>> ELSE backlog
      /\ UNCHANGED <<reset, sent, got, passed>>
      /\ gone' = gone \cup {Back(w) : w \in reaped}
      /\ cursor' = (IF reaped # {} THEN [cursor EXCEPT ![n] = 1] ELSE cursor)
      /\ conns' = [conns EXCEPT ![n] = kept]
      /\ conn' = [w \in Ways |-> IF w \in reaped THEN NewConnection ELSE served[w]]
      /\ closed' = [w \in Ways |-> closed[w] \/ w \in reaped]
  BY DEF PollReaps, Reap
<1>2. /\ Listed(n) \in Seq(Programs) /\ IsInjective(Listed(n)) /\ DOMAIN Listed(n) = 1 .. Len(Listed(n))
      /\ Len(conns[n]) <= Len(Listed(n)) /\ Len(conns[n]) \in Nat /\ Len(Listed(n)) \in Nat
      /\ Range(Listed(n)) = Range(conns[n]) \cup (IF n = Host THEN Range(backlog) ELSE {})
      /\ \A m \in Range(Listed(n)) : <<n, m>> \in Ways /\ ~closed[<<n, m>>]
  BY ListedFacts
<1>3. /\ served \in [Ways -> Connection] /\ WireAfterPoll(n) \in [Ways -> Seq(Piece)]
      /\ \A w \in Ways : /\ Len(WireAfterPoll(n)[w]) <= Window /\ Len(served[w].out) <= MaxOutbox
                         /\ conn[w].inbox # <<>> => served[w].inbox = conn[w].inbox
  BY ServedFacts
<1>4. /\ reaped \subseteq Polled(n) /\ reaped \subseteq Ways /\ \A w \in reaped : w[1] = n
      /\ \A w \in reaped : w[2] \in Range(Listed(n)) /\ w = <<n, w[2]>>
  BY PolledFacts
<1>5. /\ kept \in Seq(Programs) /\ Range(kept) = Range(Listed(n)) \cap S /\ IsInjective(kept)
      /\ Range(Listed(n)) \subseteq S => Len(kept) = Len(Listed(n))
  BY <1>2, KeptFacts
<1>6. \A m \in Programs : m \in S <=> <<n, m>> \notin reaped
  OBVIOUS
<1> HIDE DEF served, reaped, S, kept
<1>7. /\ conns'[n] = kept /\ \A k \in Programs : k # n => conns'[k] = conns[k]
  BY <1>1 DEF TypeOK
<1>8. \A k \in Programs : cursor'[k] = 1 \/ (cursor'[k] = cursor[k] /\ (k = n => reaped = {}))
  BY <1>1 DEF TypeOK
<1>9. Range(Listed(n)) \subseteq Programs
  BY <1>2 DEF Range
<1>10. /\ \A w \in reaped : conn'[w] = NewConnection
       /\ \A w \in Ways : w \notin reaped => conn'[w] = served[w]
       /\ \A w \in Ways : closed'[w] <=> closed[w] \/ w \in reaped
       /\ closed' \in [Ways -> BOOLEAN]
       /\ conn' = [w \in Ways |-> conn'[w]]
  <2>1. closed \in [Ways -> BOOLEAN]
    BY DEF TypeOK
  <2>2. QED
    BY <1>1, <1>4, <2>1
<1>11. TypeOK'
  <2>1. conns' \in [Programs -> Seq(Programs)]
    BY <1>1, <1>5 DEF TypeOK
  <2>2. cursor' \in [Programs -> Nat \ {0}]
    BY <1>1 DEF TypeOK
  <2>3. ASSUME NEW w \in Ways PROVE conn'[w] \in Connection /\ Len(conn'[w].out) <= MaxOutbox
    <3>1. CASE w \in reaped
      <4>1. Len(<<>>) = 0 /\ MaxOutbox \in Nat
        BY DEF TransportAssumption
      <4>2. QED
        BY <1>10, <3>1, <4>1, NewTyped
    <3>2. CASE w \notin reaped
      BY <1>3, <1>10, <3>2
    <3>3. QED
      BY <3>1, <3>2
  <2>4. conn' \in [Ways -> Connection]
    BY <1>10, <2>3
  <2>5. wire' \in [Ways -> Seq(Piece)] /\ \A w \in Ways : Len(wire'[w]) <= Window
    BY <1>1, <1>3
  <2>6. gone' \subseteq Ways
    <3>1. \A w \in reaped : Back(w) \in Ways
      BY <1>4, WayFacts
    <3>2. QED
      BY <1>1, <3>1 DEF TypeOK
  <2>7. backlog' \in Seq(Joiners)
    BY <1>1, BacklogPolled
  <2>8. QED
    BY <1>1, <1>10, <2>1, <2>2, <2>3, <2>4, <2>5, <2>6, <2>7 DEF TypeOK
<1>12. Placed'
  <2>1. Host \in Programs /\ Joiners \subseteq Programs
    BY DEF Programs
  <2>2. ASSUME NEW k \in Programs
        PROVE  /\ IsInjective(conns'[k])
               /\ \/ cursor'[k] = 1
                  \/ cursor'[k] <= Len(conns'[k])
               /\ \A m \in Range(conns'[k]) : <<k, m>> \in Ways /\ ~closed'[<<k, m>>]
    <3>1. CASE k = n
      <4>1. cursor'[n] = 1 \/ cursor'[n] <= Len(kept)
        <5>1. CASE reaped = {}
          <6>1. Len(kept) = Len(Listed(n))
            BY <1>5, <1>6, <1>9, <5>1
          <6>2. cursor'[n] = cursor[n] /\ cursor[n] \in Nat /\ (cursor[n] = 1 \/ cursor[n] <= Len(conns[n]))
            BY <1>1, <5>1 DEF TypeOK, Placed
          <6>3. QED
            BY <1>2, <6>1, <6>2
        <5>2. CASE reaped # {}
          BY <1>8, <5>2
        <5>3. QED
          BY <5>1, <5>2
      <4>2. ASSUME NEW m \in Range(kept) PROVE <<n, m>> \in Ways /\ ~closed'[<<n, m>>]
        <5>1. m \in Range(Listed(n)) /\ m \in Programs /\ <<n, m>> \notin reaped
          BY <1>5, <1>6, <1>9
        <5>2. QED
          BY <1>2, <1>10, <5>1
      <4>3. QED
        BY <1>5, <1>7, <3>1, <4>1, <4>2
    <3>2. CASE k # n
      <4>1. \A m : <<k, m>> \notin reaped
        BY <1>4, <3>2
      <4>2. /\ IsInjective(conns[k]) /\ (cursor[k] = 1 \/ cursor[k] <= Len(conns[k]))
            /\ \A m \in Range(conns[k]) : <<k, m>> \in Ways /\ ~closed[<<k, m>>]
        BY DEF Placed
      <4>3. QED
        BY <1>7, <1>8, <1>10, <3>2, <4>1, <4>2
    <3>3. QED
      BY <3>1, <3>2
  <2>3. IsInjective(backlog') /\ Range(backlog') = IF n = Host THEN {} ELSE Range(backlog)
    BY <1>1, BacklogPolled
  <2>4. ASSUME NEW j \in Range(backlog') PROVE j \notin Range(conns'[Host]) /\ ~closed'[<<Host, j>>]
    <3>1. n # Host /\ j \in Range(backlog)
      BY <2>3, <2>4
    <3>2. j \notin Range(conns[Host]) /\ ~closed[<<Host, j>>] /\ j \in Joiners
      BY <3>1 DEF Placed, TypeOK, Range
    <3>3. <<Host, j>> \in Ways /\ <<Host, j>> \notin reaped
      BY <1>4, <2>1, <3>1, <3>2 DEF Ways, TransportAssumption
    <3>4. QED
      BY <1>7, <1>10, <2>1, <3>1, <3>2, <3>3
  <2>5. ASSUME NEW j \in Joiners,
               j \in Range(backlog') \cup Range(conns'[Host]) \/ closed'[<<Host, j>>]
        PROVE  conns'[j] # <<>> \/ closed'[<<j, Host>>]
    <3>1. j \in Programs /\ j # Host /\ <<Host, j>> \in Ways /\ <<j, Host>> \in Ways
      BY <2>1 DEF Ways, TransportAssumption
    <3>2. j \in Range(backlog) \cup Range(conns[Host]) \/ closed[<<Host, j>>]
      <4>1. <<Host, j>> \in reaped => n = Host /\ j \in Range(Listed(Host))
        BY <1>4
      <4>2. n = Host => Range(Listed(Host)) = Range(conns[Host]) \cup Range(backlog)
        BY <1>2
      <4>3. Range(conns'[Host]) \subseteq Range(conns[Host]) \cup Range(backlog)
        BY <1>5, <1>7, <2>1, <4>2
      <4>4. Range(backlog') \subseteq Range(backlog)
        BY <2>3
      <4>5. QED
        BY <1>10, <2>5, <3>1, <4>1, <4>2, <4>3, <4>4
    <3>3. conns[j] # <<>> \/ closed[<<j, Host>>]
      BY <3>2 DEF Placed
    <3>4. CASE j # n
      BY <1>7, <1>10, <3>1, <3>3, <3>4
    <3>5. CASE j = n /\ conns[j] # <<>> /\ <<j, Host>> \notin reaped
      <4>1. Host \in Range(conns[n])
        <5>1. PICK q \in Seq(Programs) : q = conns[n] /\ q # <<>>
          BY <3>1, <3>5 DEF TypeOK
        <5>2. q[1] \in Range(q)
          BY <5>1 DEF Range
        <5>3. <<n, q[1]>> \in Ways
          BY <5>1, <5>2 DEF Placed
        <5>4. q[1] = Host
          BY <3>1, <3>5, <5>3 DEF Ways
        <5>5. QED
          BY <5>1, <5>2, <5>4
      <4>2. Host \in Range(kept)
        BY <1>2, <1>5, <1>6, <2>1, <3>5, <4>1
      <4>3. kept # <<>>
        BY <4>2 DEF Range
      <4>4. QED
        BY <1>7, <3>5, <4>3
    <3>6. CASE closed[<<j, Host>>] \/ <<j, Host>> \in reaped
      BY <1>10, <3>1, <3>6
    <3>7. QED
      BY <3>3, <3>4, <3>5, <3>6
  <2>6. ASSUME NEW w \in Ways, w[2] \notin Range(conns'[w[1]]) PROVE conn'[w] = NewConnection
    <3>1. w[1] \in Programs /\ w[2] \in Programs /\ w = <<w[1], w[2]>>
      BY WayFacts
    <3>2. CASE w \in reaped
      BY <1>10, <3>2
    <3>3. CASE w \notin reaped /\ w[1] = n
      <4>1. w[2] \notin Range(Listed(n))
        BY <1>5, <1>6, <1>7, <2>6, <3>1, <3>3
      <4>2. QED
        BY <1>10, <3>3, <4>1, UnlistedNew DEF served
    <3>4. CASE w \notin reaped /\ w[1] # n
      <4>1. conn[w] = NewConnection
        BY <1>7, <2>6, <3>1, <3>4 DEF Placed
      <4>2. served[w] = conn[w]
        BY <3>4, PolledFacts, ServedFacts DEF served
      <4>3. QED
        BY <1>10, <3>4, <4>1, <4>2
    <3>5. QED
      BY <3>2, <3>3, <3>4
  <2>7. ASSUME NEW w \in Ways PROVE w \in gone' <=> closed'[Back(w)]
    <3>1. Back(w) \in Ways /\ Back(Back(w)) = w /\ (w \in gone <=> closed[Back(w)])
      BY WayFacts DEF Placed
    <3>2. w \in {Back(x) : x \in reaped} <=> Back(w) \in reaped
      BY <1>4, <3>1, WayFacts
    <3>3. QED
      BY <1>1, <1>10, <3>1, <3>2
  <2>8. \A j \in Joiners :
          j \in Range(backlog') \cup Range(conns'[Host]) \/ closed'[<<Host, j>>] =>
            conns'[j] # <<>> \/ closed'[<<j, Host>>]
    BY <2>5
  <2>9. QED
    BY <2>2, <2>3, <2>4, <2>6, <2>7, <2>8 DEF Placed
<1>13. Framed'
  <2>1. ASSUME NEW w \in Ways \ gone' PROVE Frames(w)'
    <3>1. /\ w \in Ways \ gone /\ Back(w) \in Ways /\ Back(Back(w)) = w
          /\ wire'[w] = WireAfterPoll(n)[w] /\ UNCHANGED <<reset, sent, got>>
      BY <1>1, <2>1, WayFacts
    <3>2. Back(w) \notin reaped
      <4>1. Back(w) \in reaped => w \in {Back(x) : x \in reaped}
        BY <3>1
      <4>2. QED
        BY <1>1, <2>1, <4>1
    <3>3. conn'[Back(w)] = served[Back(w)]
      BY <1>10, <3>1, <3>2
    <3>4. OnWay(got[w], served[Back(w)].inbox, served[Back(w)].reader, WireAfterPoll(n)[w],
                served[w].out, sent[w], closed[w], reset[Joiner(w)])
      BY <3>1, FramedWays, ServedFrames DEF served
    <3>5. CASE w \notin reaped
      <4>1. conn'[w] = served[w] /\ closed'[w] = closed[w]
        <5>1. closed[w] \in BOOLEAN /\ closed'[w] \in BOOLEAN
          BY <1>10 DEF TypeOK
        <5>2. QED
          BY <1>10, <3>5, <5>1
      <4>2. QED
        BY <3>1, <3>3, <3>4, <4>1 DEF Frames, Joiner
    <3>6. CASE w \in reaped
      <4>1. conn'[w].out = <<>> /\ closed'[w] = TRUE
        <5>1. closed'[w] \in BOOLEAN
          BY <1>10
        <5>2. QED
          BY <1>10, <3>6, <5>1, NewTyped
      <4>2. OnWayTyped(got[w], served[Back(w)].inbox, served[Back(w)].reader, WireAfterPoll(n)[w],
                       served[w].out, sent[w])
        <5>1. served[w] \in Connection /\ served[Back(w)] \in Connection /\ WireAfterPoll(n)[w] \in Seq(Piece)
          BY <1>3, <3>1
        <5>2. QED
          BY <5>1, ConnectionParts, WayTyped DEF OnWayTyped
      <4>3. OnWay(got[w], served[Back(w)].inbox, served[Back(w)].reader, WireAfterPoll(n)[w], <<>>,
                  sent[w], TRUE, reset[Joiner(w)])
        BY <3>4, <4>2, Closing
      <4>4. QED
        BY <3>1, <3>3, <4>1, <4>3 DEF Frames, Joiner
    <3>7. QED
      BY <3>5, <3>6
  <2>2. QED
    BY <2>1, FramedNext
<1>14. Passing'
  <2>1. ASSUME NEW w \in Ways, passed'[w] # 0
        PROVE  /\ conn'[w].inbox # <<>> /\ passed[w] # 0 /\ passed'[w] = passed[w]
               /\ conns'[w[1]] = conns[w[1]] /\ cursor'[w[1]] = cursor[w[1]] /\ Awaited(w)' = Awaited(w)
    <3>1. /\ passed'[w] = passed[w] /\ w[1] \in Programs /\ w = <<w[1], w[2]>>
          /\ conn[w].inbox # <<>> /\ w[2] \in Range(conns[w[1]])
      BY <1>1, <2>1, WayFacts DEF Passing
    <3>2. served[w].inbox # <<>>
      BY <1>3, <3>1
    <3>3. w[1] # n
      <4>1. ASSUME w[1] = n PROVE FALSE
        <5>1. PICK k \in DOMAIN Listed(n) : Listed(n)[k] = w[2]
          <6>1. w[2] \in Range(Listed(n))
            BY <1>2, <3>1, <4>1
          <6>2. QED
            BY <6>1 DEF Range
        <5>2. k \in Ready(n, served)
          BY <3>1, <3>2, <4>1, <5>1 DEF Ready
        <5>3. QED
          BY <1>1, <5>2
      <4>2. QED
        BY <4>1
    <3>4. conns'[w[1]] = conns[w[1]] /\ cursor'[w[1]] = cursor[w[1]]
      BY <1>1, <1>7, <3>1, <3>3 DEF TypeOK
    <3>5. conn'[w].inbox # <<>>
      BY <1>4, <1>10, <3>2, <3>3
    <3>6. QED
      BY <2>1, <3>1, <3>4, <3>5 DEF Awaited
  <2>2. QED
    BY <2>1 DEF Passing
<1>15. QED
  BY <1>11, <1>12, <1>13, <1>14

(***************************************************************************)
(* The theorems.                                                           *)
(***************************************************************************)
LEMMA OpenFacts ==
  ASSUME TransportAssumption, TransportInv, NEW n \in Programs
  PROVE  /\ OpenWays({<<n, m>> : m \in Peers(n)})
         /\ \A m \in Peers(n) : OpenWays({<<n, m>>})
<1>1. ASSUME NEW m \in Peers(n)
      PROVE  <<n, m>> \in Ways /\ ~closed[<<n, m>>] /\ m \in Range(conns[n])
  <2>1. m \in Range(conns[n])
    BY DEF Peers
  <2>2. QED
    BY <2>1 DEF TransportInv, Placed
<1>2. QED
  BY <1>1 DEF OpenWays

LEMMA InvNext ==
  ASSUME TransportAssumption, TransportInv, [Next]_vars
  PROVE  TransportInv'
<1>1. ASSUME NEW j \in Joiners, Connect(j) PROVE TransportInv'
  BY <1>1, ConnectStep
<1>2. ASSUME NEW j \in Joiners, Reset(j) PROVE TransportInv'
  BY <1>2, ResetStep
<1>3. ASSUME NEW n \in Programs, Poll(n) PROVE TransportInv'
  <2>1. PollTakes(n) \/ PollReaps(n)
    BY <1>3, PollEnds
  <2>2. QED
    BY <2>1, TakeStep, ReapStep
<1>4. ASSUME NEW n \in Programs, Broadcast(n) PROVE TransportInv'
  BY <1>4, OpenFacts, SendStep DEF Broadcast
<1>5. ASSUME NEW n \in Programs, NEW m \in Programs, Send(n, m) PROVE TransportInv'
  BY <1>5, OpenFacts, SendStep DEF Send
<1>6. ASSUME NEW n \in Programs, NEW m \in Programs, Disconnect(n, m) PROVE TransportInv'
  BY <1>6, DisconnectStep
<1>7. CASE UNCHANGED vars
  <2>1. TypeOK'
    BY <1>7 DEF TransportInv, vars, TypeOK
  <2>2. Placed'
    BY <1>7 DEF TransportInv, vars, Placed
  <2>3. Framed'
    BY <1>7 DEF TransportInv, vars, Framed, ReadTo, HeldTo, WireTo, OutTo, Joiner
  <2>4. Passing'
    BY <1>7, PassingKept DEF TransportInv, vars
  <2>5. QED
    BY <2>1, <2>2, <2>3, <2>4 DEF TransportInv
<1>8. QED
  BY <1>1, <1>2, <1>3, <1>4, <1>5, <1>6, <1>7 DEF Next

\* The invariant holds however many programs connect and whatever the limits are: a
\* connection is at its ends what it was made as, the pieces between them are in a row,
\* and whoever is passed over is by as much closer to the cursor (TcpTransport).
THEOREM TransportKept == Spec => []TransportInv
<1>1. TransportAssumption
  BY TransportAssumption
<1>2. Init => TransportInv
  BY <1>1, InvInit
<1>3. TransportInv /\ [Next]_vars => TransportInv'
  BY <1>1, InvNext
<1>4. QED
  BY <1>2, <1>3, PTL DEF Spec

\* The i-th piece after the frames of f messages.
LEMMA FramePiece ==
  ASSUME NEW f \in Nat, NEW i \in Nat \ {0}
  PROVE  PieceAt(2 * f + i) = Frame(f + 1 + (i - 1) \div 2)[1 + ((i - 1) % 2)]
<1>1. (2 * f + i + 1) \div 2 = f + 1 + (i - 1) \div 2
  OBVIOUS
<1>2. CASE (i - 1) % 2 = 0
  <2>1. (2 * f + i) % 2 = 1
    BY <1>2
  <2>2. QED
    BY <1>1, <1>2, <2>1 DEF PieceAt, Frame
<1>3. CASE (i - 1) % 2 = 1
  <2>1. (2 * f + i) % 2 # 1
    BY <1>3
  <2>2. QED
    BY <1>1, <1>3, <2>1 DEF PieceAt, Frame
<1>4. QED
  BY <1>2, <1>3

\* What is between two ends is the frames after the last message taken, in order, with
\* nothing missing or doubled, wherever writes and reads were cut and whatever the queues
\* and the kernels hold (Connection::flush and fill, FrameReader).
THEOREM TransportFramesInARow == Spec => []FramesInARow
<1>1. ASSUME TypeOK, Framed PROVE FramesInARow
  <2>1. ASSUME NEW w \in Ways, ~reset[Joiner(w)], w \notin gone
        PROVE  LET inbox == conn[Back(w)].inbox
                   next == got[w] + Len(inbox) + 1
               IN /\ inbox = [i \in 1 .. Len(inbox) |-> got[w] + i]
                  /\ \A i \in 1 .. Len(Run(w)) :
                       Run(w)[i] = Frame(next + (i - 1) \div 2)[1 + ((i - 1) % 2)]
    <3> DEFINE inbox == conn[Back(w)].inbox
               f == got[w] + Len(inbox)
    <3>1. PICK r \in Seq(Piece), x \in Seq(Piece), o \in Seq(Piece) :
            r = conn[Back(w)].reader /\ x = wire[w] /\ o = conn[w].out
      BY <1>1, WayTyped DEF OnWayTyped
    <3>2. got[w] \in Nat /\ Len(inbox) \in Nat
      BY <1>1, WayTyped, OnWayLengths
    <3>3. f \in Nat /\ 2 * f \in Nat
      <4>1. PICK a \in Nat, b \in Nat : a = got[w] /\ b = Len(inbox)
        BY <3>2
      <4>2. a + b \in Nat /\ 2 * (a + b) \in Nat
        OBVIOUS
      <4>3. QED
        BY <4>1, <4>2
    <3>4. inbox = [i \in 1 .. Len(inbox) |-> got[w] + i]
      BY <1>1, <2>1 DEF Framed
    <3>5. From(r, 2 * f) /\ From(x, 2 * f + Len(r)) /\ From(o, 2 * f + Len(r) + Len(x))
      BY <1>1, <2>1, <3>1 DEF Framed, ReadTo, HeldTo, WireTo
    <3>6. Run(w) = (r \o x) \o o
      BY <3>1 DEF Run
    <3>7. f + 1 = got[w] + Len(inbox) + 1
      OBVIOUS
    <3> HIDE DEF f
    <3>8. /\ From(r \o x, 2 * f) /\ r \o x \in Seq(Piece) /\ Len(r \o x) = Len(r) + Len(x)
          /\ Len(r) \in Nat /\ Len(x) \in Nat
      BY <3>3, <3>5, FromJoined
    <3>9. 2 * f + Len(r \o x) = 2 * f + Len(r) + Len(x)
      BY <3>3, <3>8
    <3>10. From((r \o x) \o o, 2 * f) /\ (r \o x) \o o \in Seq(Piece)
      BY <3>3, <3>5, <3>8, <3>9, FromJoined
    <3>11. PICK run \in Seq(Piece) : run = Run(w) /\ From(run, 2 * f)
      BY <3>6, <3>10
    <3>12. ASSUME NEW i \in 1 .. Len(run)
           PROVE  run[i] = Frame(f + 1 + (i - 1) \div 2)[1 + ((i - 1) % 2)]
      <4>1. run[i] = PieceAt(2 * f + i)
        BY <3>11 DEF From
      <4>2. i \in Nat \ {0}
        BY <3>11
      <4>3. QED
        BY <3>3, <4>1, <4>2, FramePiece
    <3>13. QED
      BY <3>4, <3>7, <3>11, <3>12
  <2>2. QED
    BY <1>1, <2>1 DEF FramesInARow
<1>2. TransportInv => FramesInARow
  BY <1>1 DEF TransportInv
<1>3. QED
  BY <1>2, TransportKept, PTL

\* However many peers a program has, a message that has come waits while at most one is
\* taken from each other of them (TcpTransport::poll, cursor).
THEOREM TransportNobodyPassedOver == Spec => []NobodyPassedOver
<1>1. ASSUME TypeOK, Placed, Passing PROVE NobodyPassedOver
  <2>1. ASSUME NEW w \in Ways, passed[w] # 0 PROVE passed[w] < Len(conns[w[1]])
    <3> DEFINE n == w[1]
               i == Awaited(w)
               s == Len(conns[n])
               c == cursor[n]
    <3>1. /\ w[2] \in Range(conns[n])
          /\ passed[w] + (IF i >= c THEN i - c ELSE i + s - c) < s
      BY <1>1, <2>1 DEF Passing
    <3>2. n \in Programs /\ conns[n] \in Seq(Programs)
      BY <1>1, WayFacts DEF TypeOK
    <3>3. s \in Nat /\ DOMAIN conns[n] = 1 .. s
      BY <3>2
    <3>4. i \in 1 .. s
      BY <3>1, <3>3 DEF Awaited, Range
    <3>5. c \in Nat \ {0} /\ (c = 1 \/ c <= s) /\ passed[w] \in Nat
      BY <1>1, <3>2, WayTyped DEF TypeOK, Placed
    <3> HIDE DEF i, s, c
    <3>6. passed[w] < s
      BY <3>1, <3>3, <3>4, <3>5
    <3>7. QED
      BY <3>6 DEF s
  <2>2. QED
    BY <2>1 DEF NobodyPassedOver
<1>2. TransportInv => NobodyPassedOver
  BY <1>1 DEF TransportInv
<1>3. QED
  BY <1>2, TransportKept, PTL

\* The transport is a stream each way: a message is taken only if it is the next of those
\* sent and its receiver was not told that the connection is over (TcpTransport::send,
\* broadcast, poll and disconnect).
THEOREM TransportImplementsStream == Spec => ImplementsStream
<1>1. TransportAssumption
  BY TransportAssumption
<1>2. Init => Streams!Init
  BY DEF Init, Streams!Init
<1>3. ASSUME TransportInv, [Next]_vars PROVE [Streams!Next]_(Streams!vars)
  <2>1. ASSUME NEW j \in Joiners, Connect(j) \/ Reset(j) PROVE UNCHANGED <<sent, got, gone>>
    BY <2>1 DEF Connect, Reset
  <2>2. ASSUME NEW n \in Programs, PollTakes(n) PROVE \E v \in Ways : Streams!Deliver(v)
    <3>1. PICK i \in 1 .. Len(Listed(n)), from \in Polled(n) :
            /\ from = <<n, Listed(n)[i]>> /\ i = FirstReady(n, Ready(n, Served(n)))
            /\ Back(from) \in Ways \ gone
            /\ Head(Served(n)[from].inbox) = got[Back(from)] + 1
            /\ got[Back(from)] + 1 <= sent[Back(from)]
      BY <1>1, <1>3, <2>2, TakenFacts
    <3>2. got' = [got EXCEPT ![Back(from)] = got[Back(from)] + 1] /\ UNCHANGED <<sent, gone>>
      BY <2>2, <3>1 DEF PollTakes, TakeMessage
    <3>3. got[Back(from)] < sent[Back(from)]
      BY <1>3, <3>1, WayTyped DEF TransportInv
    <3>4. QED
      BY <3>1, <3>2, <3>3 DEF Streams!Deliver
  <2>3. ASSUME NEW n \in Programs, PollReaps(n) PROVE Streams!Finish
    <3> DEFINE told == {Back(w) : w \in {x \in Polled(n) : Served(n)[x].dead}}
    <3>1. told \in SUBSET Ways
      BY <1>1, <1>3, PolledFacts, WayFacts DEF TransportInv
    <3>2. gone' = gone \cup told /\ UNCHANGED <<sent, got>>
      BY <2>3 DEF PollReaps, Reap
    <3>3. QED
      BY <3>1, <3>2 DEF Streams!Finish
  <2>4. ASSUME NEW ws, OpenWays(ws), SendAll(ws) PROVE Streams!Send
    <3> DEFINE put == {w \in ws : ~Overfull(w)}
    <3>1. put \in SUBSET Ways
      BY <2>4 DEF OpenWays
    <3>2. sent' = [w \in Ways |-> IF w \in put THEN sent[w] + 1 ELSE sent[w]] /\ UNCHANGED <<got, gone>>
      BY <2>4 DEF SendAll
    <3>3. QED
      BY <3>1, <3>2 DEF Streams!Send
  <2>5. ASSUME NEW n \in Programs, NEW m \in Programs, Disconnect(n, m) PROVE Streams!Finish
    <3>1. <<n, m>> \in Ways
      BY <1>3, <2>5 DEF Disconnect, TransportInv, Placed
    <3>2. {<<m, n>>} \in SUBSET Ways
      BY <3>1, WayFacts DEF Back
    <3>3. gone' = gone \cup {<<m, n>>} /\ UNCHANGED <<sent, got>>
      BY <2>5 DEF Disconnect
    <3>4. QED
      BY <3>2, <3>3 DEF Streams!Finish
  <2>6. CASE UNCHANGED vars
    BY <2>6 DEF vars, Streams!vars
  <2>7. ASSUME NEW n \in Programs, Broadcast(n) \/ \E m \in Programs : Send(n, m) PROVE Streams!Send
    BY <1>1, <1>3, <2>4, <2>7, OpenFacts DEF Broadcast, Send
  <2>8. QED
    BY <1>3, <2>1, <2>2, <2>3, <2>5, <2>6, <2>7, PollEnds DEF Next, Streams!Next, Streams!vars
<1>4. QED
  BY <1>2, <1>3, TransportKept, PTL DEF Spec, ImplementsStream, Streams!Spec

=============================================================================
