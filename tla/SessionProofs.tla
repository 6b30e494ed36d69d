---------------------------- MODULE SessionProofs ---------------------------
(***************************************************************************)
(* What the operations on one seat's session do, for any session: the      *)
(* lemmas that the proofs about seats playing together (MeshProofs,        *)
(* LiveProofs) rest on.                                                    *)
(***************************************************************************)
EXTENDS Session, FiniteSetTheorems, SequenceTheorems, WellFoundedInduction, TLAPS

(***************************************************************************)
(* What each operation does to the fields the proofs read.                 *)
(***************************************************************************)
\* Sealing (next_packet) adds the packet it returns to the inbox, and nothing else.
LEMMA SealFields ==
  ASSUME NEW s, DOMAIN s = Fields
  PROVE  /\ DOMAIN Seal(s) = Fields
         /\ Seal(s).local = s.local
         /\ Seal(s).tick = s.tick
         /\ Seal(s).nextSeal = s.nextSeal + 1
         /\ Seal(s).simulated = s.simulated
         /\ Seal(s).retired = s.retired
         /\ Seal(s).inbox = s.inbox \union {Held(Packet(s))}
BY Zenon DEF Seal, Fields

\* The fields that sealing changes: the order queue is kept or drained, and drained
\* orders are counted.
LEMMA SealQueue ==
  ASSUME NEW s, DOMAIN s = Fields
  PROVE  \/ Seal(s).staged = s.staged /\ Seal(s).nextSeq = s.nextSeq
         \/ Seal(s).staged = <<>> /\ Seal(s).nextSeq = s.nextSeq + Len(s.staged)
<1>1. Seal(s).staged = IF s.nextSeal = Horizon(s) THEN <<>> ELSE s.staged
  BY Zenon DEF Seal, Fields
<1>2. Seal(s).nextSeq = IF s.nextSeal = Horizon(s) THEN s.nextSeq + Len(s.staged) ELSE s.nextSeq
  BY Zenon DEF Seal, Fields
<1>3. QED
  BY <1>1, <1>2

\* A packet is kept under its own seat and tick, and only carries its seat's commands.
LEMMA OwnCommands ==
  ASSUME NEW s
  PROVE  /\ Packet(s).from = s.local /\ Packet(s).tick = s.nextSeal
         /\ \A c \in Packet(s).commands : c.slot = Packet(s).from
BY DEF Packet, SealedCommands

\* Held keeps a packet's tick, seat and commands.
LEMMA HeldCommands ==
  ASSUME NEW p
  PROVE  Held(p).tick = p.tick /\ Held(p).from = p.from /\ Held(p).commands = p.commands
BY DEF Held

\* check_claims leaves the inbox and the clock alone.
LEMMA CheckClaimsFields ==
  ASSUME NEW s, DOMAIN s = Fields, NEW T
  PROVE  /\ DOMAIN CheckClaims(s, T) = Fields
         /\ CheckClaims(s, T).local = s.local
         /\ CheckClaims(s, T).tick = s.tick
         /\ CheckClaims(s, T).nextSeal = s.nextSeal
         /\ CheckClaims(s, T).simulated = s.simulated
         /\ CheckClaims(s, T).staged = s.staged
         /\ CheckClaims(s, T).nextSeq = s.nextSeq
         /\ CheckClaims(s, T).retired = s.retired
         /\ CheckClaims(s, T).inbox = s.inbox
BY Zenon DEF CheckClaims, Fields

\* receive keeps the packet or leaves the session alone.
LEMMA ReceiveFields ==
  ASSUME NEW s, DOMAIN s = Fields, NEW p
  PROVE  /\ DOMAIN Receive(s, p) = Fields
         /\ Receive(s, p).local = s.local
         /\ Receive(s, p).tick = s.tick
         /\ Receive(s, p).nextSeal = s.nextSeal
         /\ Receive(s, p).simulated = s.simulated
         /\ Receive(s, p).staged = s.staged
         /\ Receive(s, p).nextSeq = s.nextSeq
         /\ Receive(s, p).retired = s.retired
         /\ Receive(s, p).inbox \subseteq s.inbox \union {Held(p)}
<1> DEFINE claimed == [s EXCEPT !.inbox = @ \union {Held(p)},
             !.claims = (@ \ {c \in s.claims : c.slot = p.from /\ c.tick \in AckTicks(p.acks)})
               \union {[tick |-> a.tick, slot |-> p.from, hash |-> a.hash] : a \in p.acks}]
<1>1. /\ DOMAIN claimed = Fields
      /\ claimed.local = s.local /\ claimed.tick = s.tick
      /\ claimed.nextSeal = s.nextSeal /\ claimed.retired = s.retired
      /\ claimed.simulated = s.simulated
      /\ claimed.staged = s.staged /\ claimed.nextSeq = s.nextSeq
      /\ claimed.inbox = s.inbox \union {Held(p)}
  BY Zenon DEF Fields
<1>2. Received(s, p) = CheckClaims(claimed, AckTicks(p.acks))
  BY Zenon DEF Received
<1> HIDE DEF claimed
<1>3. /\ DOMAIN Received(s, p) = Fields
      /\ Received(s, p).local = s.local /\ Received(s, p).tick = s.tick
      /\ Received(s, p).nextSeal = s.nextSeal /\ Received(s, p).retired = s.retired
      /\ Received(s, p).simulated = s.simulated
      /\ Received(s, p).staged = s.staged /\ Received(s, p).nextSeq = s.nextSeq
      /\ Received(s, p).inbox = s.inbox \union {Held(p)}
  BY <1>1, <1>2, CheckClaimsFields
<1>4. CASE Verdict(s, p) = "Accepted"
  BY <1>3, <1>4 DEF Receive
<1>5. CASE Verdict(s, p) # "Accepted"
  BY <1>5 DEF Receive
<1>6. QED
  BY <1>4, <1>5

\* What advance leaves of a session and its world: a tick run, or a halt.  The packets of
\* the tick leave the inbox, the clock moves and the world is given what was in them.
Ticked(s, w, a) ==
  /\ DOMAIN a.session = Fields
  /\ a.session.local = s.local
  /\ a.session.nextSeal = s.nextSeal
  /\ a.session.retired = s.retired
  /\ a.session.staged = s.staged
  /\ a.session.nextSeq = s.nextSeq
  /\ a.session.inbox \subseteq s.inbox
  /\ \/ /\ a.session.tick = s.tick /\ a.world = w
        /\ a.session.simulated = s.simulated
     \/ /\ a.session.tick = s.tick + 1
        /\ a.session.simulated = s.tick
        /\ a.world = Append(w, OrderCommands(s.local, TickCommands(s)))

LEMMA AdvanceFields ==
  ASSUME NEW s, DOMAIN s = Fields, NEW w
  PROVE  Ticked(s, w, Advance(s, w))
<1> USE DEF Ticked
<1> DEFINE next == Append(w, OrderCommands(s.local, TickCommands(s)))
           ran  == [s EXCEPT !.inbox = {p \in @ : p.tick # s.tick},
                             !.history = Push(@, s.tick, next),
                             !.simulated = s.tick,
                             !.tick = @ + 1]
           halted == Halt(s, "Protocol")
<1>1. /\ DOMAIN ran = Fields
      /\ ran.local = s.local /\ ran.tick = s.tick + 1
      /\ ran.nextSeal = s.nextSeal /\ ran.retired = s.retired
      /\ ran.simulated = s.tick
      /\ ran.staged = s.staged /\ ran.nextSeq = s.nextSeq
      /\ ran.inbox = {p \in s.inbox : p.tick # s.tick}
  BY Zenon DEF Fields
<1>2. /\ DOMAIN halted = Fields
      /\ halted.local = s.local /\ halted.tick = s.tick
      /\ halted.nextSeal = s.nextSeal /\ halted.retired = s.retired
      /\ halted.simulated = s.simulated
      /\ halted.staged = s.staged /\ halted.nextSeq = s.nextSeq
      /\ halted.inbox = s.inbox
  BY Zenon DEF Halt, Fields
<1>3. Stepped(s, next) = CheckClaims(ran, {s.tick})
  BY Zenon DEF Stepped
<1> HIDE DEF next, ran, halted
<1>4. /\ DOMAIN Stepped(s, next) = Fields
      /\ Stepped(s, next).local = s.local /\ Stepped(s, next).tick = s.tick + 1
      /\ Stepped(s, next).nextSeal = s.nextSeal /\ Stepped(s, next).retired = s.retired
      /\ Stepped(s, next).simulated = s.tick
      /\ Stepped(s, next).staged = s.staged /\ Stepped(s, next).nextSeq = s.nextSeq
      /\ Stepped(s, next).inbox \subseteq s.inbox
  BY <1>1, <1>3, CheckClaimsFields
<1>5. Advance(s, w) = IF CommandsAreDistinct(TickCommands(s))
                      THEN [session |-> Stepped(s, next), world |-> next]
                      ELSE [session |-> halted, world |-> w]
  BY DEF Advance, next, halted
<1>6. CASE CommandsAreDistinct(TickCommands(s))
  <2>1. /\ Advance(s, w).session = Stepped(s, next)
        /\ Advance(s, w).world = next
    BY <1>5, <1>6
  <2>2. QED
    BY <2>1, <1>4 DEF next
<1>7. CASE ~CommandsAreDistinct(TickCommands(s))
  <2>1. Advance(s, w).session = halted /\ Advance(s, w).world = w
    BY <1>5, <1>7
  <2>2. QED
    BY <2>1, <1>2
<1>8. QED
  BY <1>6, <1>7

\* No session halts at receive or at sealing.
LEMMA HaltKept ==
  ASSUME NEW s, DOMAIN s = Fields
  PROVE  /\ Seal(s).halt = s.halt
         /\ \A T : CheckClaims(s, T).halt = s.halt
         /\ \A o : Issue(s, o).halt = s.halt
         /\ \A p : Receive(s, p).halt = s.halt
         /\ \A w : Stepped(s, w).halt = s.halt
<1>1. \A x, T : DOMAIN x = Fields => CheckClaims(x, T).halt = x.halt
  BY Zenon DEF CheckClaims, Fields
<1>2. Seal(s).halt = s.halt
  BY Zenon DEF Seal, Fields
<1>3. \A o : Issue(s, o).halt = s.halt
  BY Zenon DEF Issue, Fields
<1>4. ASSUME NEW p PROVE Receive(s, p).halt = s.halt
  <2> DEFINE claimed == [s EXCEPT !.inbox = @ \union {Held(p)},
               !.claims = (@ \ {c \in s.claims : c.slot = p.from /\ c.tick \in AckTicks(p.acks)})
                 \union {[tick |-> a.tick, slot |-> p.from, hash |-> a.hash] : a \in p.acks}]
  <2>1. DOMAIN claimed = Fields /\ claimed.halt = s.halt
    BY Zenon DEF Fields
  <2>2. Received(s, p) = CheckClaims(claimed, AckTicks(p.acks))
    BY Zenon DEF Received
  <2> HIDE DEF claimed
  <2>3. Received(s, p).halt = s.halt
    BY <1>1, <2>1, <2>2
  <2>4. QED
    BY <2>3 DEF Receive
<1>5. ASSUME NEW w PROVE Stepped(s, w).halt = s.halt
  <2> DEFINE ran == [s EXCEPT !.inbox = {p \in @ : p.tick # s.tick},
                              !.history = Push(@, s.tick, w),
                              !.simulated = s.tick,
                              !.tick = @ + 1]
  <2>1. DOMAIN ran = Fields /\ ran.halt = s.halt
    BY Zenon DEF Fields
  <2>2. Stepped(s, w) = CheckClaims(ran, {s.tick})
    BY Zenon DEF Stepped
  <2> HIDE DEF ran
  <2>3. QED
    BY <1>1, <2>1, <2>2
<1>6. QED
  BY <1>1, <1>2, <1>3, <1>4, <1>5

(***************************************************************************)
(* Functions, lists and numbers.                                           *)
(***************************************************************************)
\* What a function is after one of its entries is set.
LEMMA Update ==
  ASSUME NEW f, DOMAIN f = Slots, NEW s \in Slots, NEW v
  PROVE  /\ DOMAIN [f EXCEPT ![s] = v] = Slots
         /\ [f EXCEPT ![s] = v][s] = v
         /\ \A r \in Slots : r # s => [f EXCEPT ![s] = v][r] = f[r]
BY Zenon

\* A list of n entries and one more.
LEMMA AppendEntry ==
  ASSUME NEW n \in Nat, NEW S, NEW f \in [1 .. n -> S], NEW g \in [1 .. n + 1 -> S],
         \A t \in 1 .. n : g[t] = f[t]
  PROVE  Append(f, g[n + 1]) = g
<1> DEFINE h == Append(f, g[n + 1])
<1>1. f \in Seq(S) /\ Len(f) = n /\ g[n + 1] \in S
  OBVIOUS
<1>2. h \in Seq(S) /\ Len(h) = n + 1 /\ h[n + 1] = g[n + 1]
      /\ \A t \in 1 .. n : h[t] = f[t]
  BY <1>1
<1> HIDE DEF h
<1>3. h \in [1 .. n + 1 -> S]
  BY <1>2
<1>4. \A t \in 1 .. n + 1 : t \in 1 .. n \/ t = n + 1
  OBVIOUS
<1>5. \A t \in 1 .. n + 1 : h[t] = g[t]
  BY <1>2, <1>4
<1>6. h = g
  BY <1>3, <1>5
<1>7. QED
  BY <1>6 DEF h

\* A set of numbers has a least one.
LEMMA LeastOf ==
  ASSUME NEW S \in SUBSET Nat, S # {}
  PROVE  \E x \in S : \A y \in S : x <= y
<1>1. PICK a \in S : a \in Nat
  OBVIOUS
<1> DEFINE N == 0 .. a
           T == {0 .. x : x \in {y \in S : y <= a}}
<1>2. IsFiniteSet(N)
  BY <1>1, FS_Interval
<1>3. T \subseteq FiniteSubsetsOf(N)
  <2>1. FiniteSubsetsOf(N) = SUBSET N
    BY <1>2, FS_FiniteSubsetsOfFinite
  <2>2. T \subseteq SUBSET N
    BY <1>1
  <2>3. QED
    BY <2>1, <2>2
<1>4. IsWellFoundedOn(StrictSubsetOrdering(N), FiniteSubsetsOf(N))
  BY FS_StrictSubsetOrderingWellFounded
<1>5. T # {}
  BY <1>1
<1> HIDE DEF T
<1>6. PICK X \in T : \A Y \in T : ~(<<Y, X>> \in StrictSubsetOrdering(N))
  BY <1>3, <1>4, <1>5, WFMin
<1> USE DEF T
<1>7. PICK x \in S : x <= a /\ X = 0 .. x
  OBVIOUS
<1>8. ASSUME NEW y \in S, y < x PROVE FALSE
  <2>1. y \in Nat /\ x \in Nat /\ y <= a
    BY <1>1, <1>7, <1>8
  <2>2. 0 .. y \in T /\ 0 .. y \subseteq 0 .. x /\ 0 .. y # 0 .. x /\ 0 .. x \in SUBSET N /\ 0 .. y \in SUBSET N
    BY <1>1, <1>7, <1>8, <2>1
  <2>3. <<0 .. y, 0 .. x>> \in StrictSubsetOrdering(N)
    BY <2>2 DEF StrictSubsetOrdering
  <2>4. QED
    BY <1>6, <1>7, <2>2, <2>3
<1>9. QED
  BY <1>7, <1>8

(***************************************************************************)
(* order_commands: distinct commands have one order, and it has them all.  *)
(***************************************************************************)
\* Commands that are told apart by seat and number can be put in ascending order: each
\* has its place by the number of those that are earlier.
LEMMA OrderExists ==
  ASSUME NEW S, IsFiniteSet(S), CommandsAreDistinct(S),
         \A c \in S : c.slot \in Nat /\ c.seq \in Nat
  PROVE  \E q \in [1 .. Cardinality(S) -> S] :
           \A i, j \in DOMAIN q : i < j => Earlier(q[i], q[j])
<1> DEFINE n == Cardinality(S)
           before(c) == {d \in S : Earlier(d, c)}
           place == [c \in S |-> Cardinality(before(c)) + 1]
<1>1. n \in Nat
  BY FS_CardinalityType
<1>2. \A c \in S : IsFiniteSet(before(c)) /\ Cardinality(before(c)) \in Nat
  BY FS_Subset, FS_CardinalityType
<1>3. ASSUME NEW c \in S PROVE place[c] \in 1 .. n
  <2>1. ~Earlier(c, c)
    BY DEF Earlier
  <2>2. before(c) \in SUBSET (S \ {c})
    BY <2>1
  <2>3. IsFiniteSet(S \ {c}) /\ Cardinality(S \ {c}) = n - 1
    BY FS_RemoveElement
  <2>4. Cardinality(before(c)) <= n - 1
    BY <2>2, <2>3, FS_Subset
  <2>5. Cardinality(before(c)) \in Nat /\ place[c] = Cardinality(before(c)) + 1
    BY <1>2
  <2> HIDE DEF before, place, n
  <2>6. QED
    BY <1>1, <2>4, <2>5
<1>4. ASSUME NEW a \in S, NEW b \in S, Earlier(a, b) PROVE place[a] < place[b]
  <2>1. a \notin before(a) /\ a \in before(b)
    BY <1>4 DEF Earlier
  <2>2. before(a) \union {a} \subseteq before(b)
    BY <1>4, <2>1 DEF Earlier
  <2>3. Cardinality(before(a) \union {a}) = Cardinality(before(a)) + 1
    BY <1>2, <2>1, FS_AddElement
  <2>4. Cardinality(before(a) \union {a}) <= Cardinality(before(b))
    BY <1>2, <2>2, FS_Subset
  <2>5. /\ place[a] = Cardinality(before(a)) + 1 /\ place[b] = Cardinality(before(b)) + 1
        /\ Cardinality(before(a)) \in Nat /\ Cardinality(before(b)) \in Nat
    BY <1>2
  <2> HIDE DEF before, place
  <2>6. QED
    BY <2>3, <2>4, <2>5
<1>5. \A a, b \in S : a = b \/ Earlier(a, b) \/ Earlier(b, a)
  BY DEF CommandsAreDistinct, Earlier
<1> HIDE DEF n, before
<1>6. place \in [S -> 1 .. n]
  BY <1>3
<1>7. \A a, b \in S : place[a] = place[b] => a = b
  <2> HIDE DEF place
  <2>1. SUFFICES ASSUME NEW a \in S, NEW b \in S, place[a] = place[b], a # b PROVE FALSE
    OBVIOUS
  <2>2. place[a] \in 1 .. n /\ place[b] \in 1 .. n
    BY <1>6
  <2>3. QED
    BY <1>1, <1>4, <1>5, <2>1, <2>2
<1> HIDE DEF place
<1>8. place \in Injection(S, 1 .. n)
  BY <1>6, <1>7 DEF Injection, IsInjective
<1>9. place \in Surjection(S, 1 .. n)
  <2>1. IsFiniteSet(1 .. n) /\ Cardinality(1 .. n) = n
    BY <1>1, FS_Interval
  <2>2. QED
    BY <1>8, <2>1, FS_Injection DEF n
<1>10. \A i \in 1 .. n : \E c \in S : place[c] = i
  BY <1>9 DEF Surjection
<1> DEFINE q == [i \in 1 .. n |-> CHOOSE c \in S : place[c] = i]
<1>11. q \in [1 .. n -> S] /\ \A i \in 1 .. n : place[q[i]] = i
  BY <1>10
<1> HIDE DEF q
<1>12. ASSUME NEW i \in DOMAIN q, NEW j \in DOMAIN q, i < j PROVE Earlier(q[i], q[j])
  <2>1. /\ q[i] \in S /\ q[j] \in S /\ place[q[i]] = i /\ place[q[j]] = j
        /\ i \in Nat /\ j \in Nat
    BY <1>1, <1>11
  <2>2. q[i] # q[j]
    BY <2>1, <1>12
  <2>3. ~Earlier(q[j], q[i])
    BY <2>1, <1>4, <1>12
  <2>4. QED
    BY <2>1, <2>2, <2>3, <1>5
<1>13. QED
  BY <1>11, <1>12 DEF n

\* So what a tick runs has each of its commands once.
LEMMA RunsEachOnce ==
  ASSUME NEW me, NEW S, IsFiniteSet(S), CommandsAreDistinct(S),
         \A c \in S : c.slot \in Nat /\ c.seq \in Nat
  PROVE  LET q == OrderCommands(me, S)
         IN  /\ DOMAIN q = 1 .. Cardinality(S)
             /\ \A i \in DOMAIN q : q[i] \in S
             /\ \A i, j \in DOMAIN q : q[i] = q[j] => i = j
             /\ \A c \in S : \E i \in DOMAIN q : q[i] = c
<1> DEFINE q == OrderCommands(me, S)
           n == Cardinality(S)
<1>1. q \in [1 .. n -> S] /\ \A i, j \in DOMAIN q : i < j => Earlier(q[i], q[j])
  BY OrderExists DEF OrderCommands
<1>2. n \in Nat
  BY FS_CardinalityType
<1> HIDE DEF q
<1>3. \A i, j \in DOMAIN q : q[i] = q[j] => i = j
  <2>1. \A c \in S : ~Earlier(c, c)
    BY DEF Earlier
  <2>2. \A i, j \in DOMAIN q : i < j \/ j < i \/ i = j
    BY <1>1, <1>2
  <2>3. \A i \in DOMAIN q : q[i] \in S
    BY <1>1
  <2>4. QED
    BY <1>1, <2>1, <2>2, <2>3
<1>4. q \in Injection(1 .. n, S)
  BY <1>1, <1>3 DEF Injection, IsInjective
<1>5. q \in Surjection(1 .. n, S)
  <2>1. Cardinality(1 .. n) = n
    BY <1>2, FS_Interval
  <2>2. QED
    BY <1>4, <2>1, FS_Injection DEF n
<1>6. \A c \in S : \E i \in DOMAIN q : q[i] = c
  BY <1>5 DEF Surjection
<1>7. QED
  BY <1>1, <1>3, <1>6 DEF q, n

(***************************************************************************)
(* A session that only its own operations have touched.                    *)
(***************************************************************************)
IsList(q) == \E T : q \in Seq(T)

\* A packet with its seat's own commands in it.
PacketOK(p) ==
  /\ p.from \in Slots /\ p.tick \in Nat /\ IsFiniteSet(p.commands)
  /\ \A c \in p.commands : c.slot = p.from /\ c.seq \in Nat

InboxOK(s, me) ==
  /\ IsFiniteSet(s.inbox)
  /\ \A p \in s.inbox : PacketOK(p) /\ s.tick <= p.tick /\ (p.from = me => p.tick < s.nextSeal)
  /\ \A p, q \in s.inbox : p.from = q.from /\ p.tick = q.tick => p = q

Sound(s, me) ==
  /\ DOMAIN s = Fields /\ s.local = me /\ me \in Slots
  /\ s.tick \in Nat /\ s.nextSeal \in Nat /\ s.tick <= s.nextSeal /\ s.simulated = s.tick - 1
  /\ s.nextSeq \in Nat /\ IsList(s.staged)
  /\ s.barrier \in Nat \union {None}
  /\ s.retired[me] = None
  /\ InboxOK(s, me)

\* The fields that resyncs, halts and orders leave alone.
Alike(s, r) ==
  /\ DOMAIN r = Fields
  /\ r.local = s.local /\ r.tick = s.tick /\ r.nextSeal = s.nextSeal
  /\ r.simulated = s.simulated /\ r.nextSeq = s.nextSeq
  /\ r.inbox = s.inbox /\ r.retired = s.retired

LEMMA AlikeSound ==
  ASSUME NEW s, NEW me, Sound(s, me), NEW r, Alike(s, r),
         IsList(r.staged), r.barrier \in Nat \union {None}
  PROVE  Sound(r, me)
BY Zenon DEF Sound, Alike, InboxOK

LEMMA AlikeTrans ==
  ASSUME NEW s, NEW r, Alike(s, r), NEW q, Alike(r, q)
  PROVE  Alike(s, q)
BY Zenon DEF Alike

\* Resyncs and halts touch neither packets nor the clock.
LEMMA ResyncFields ==
  ASSUME NEW s, DOMAIN s = Fields
  PROVE  /\ \A reason : Alike(s, Halt(s, reason)) /\ Halt(s, reason).staged = s.staged
                        /\ Halt(s, reason).barrier = s.barrier
         /\ \A at : Alike(s, ResyncAnnounced(s, at)) /\ ResyncAnnounced(s, at).staged = s.staged
                    /\ ResyncAnnounced(s, at).barrier = at
         /\ Alike(s, ResyncSent(s)) /\ ResyncSent(s).staged = s.staged
         /\ ResyncSent(s).barrier = None
         /\ \A at, world : Alike(s, Resynced(s, at, world)) /\ Resynced(s, at, world).staged = s.staged
                           /\ Resynced(s, at, world).barrier \in {None, s.barrier}
<1>1. \A reason : Alike(s, Halt(s, reason)) /\ Halt(s, reason).staged = s.staged
                  /\ Halt(s, reason).barrier = s.barrier
  BY Zenon DEF Halt, Alike, Fields
<1>2. \A at : Alike(s, ResyncAnnounced(s, at)) /\ ResyncAnnounced(s, at).staged = s.staged
              /\ ResyncAnnounced(s, at).barrier = at
  BY Zenon DEF ResyncAnnounced, Alike, Fields
<1>3. \A at : /\ Alike(s, Settle(s, at)) /\ Settle(s, at).staged = s.staged
              /\ Settle(s, at).barrier = s.barrier
  BY Zenon DEF Settle, Alike, Fields
<1>4. Alike(s, ResyncSent(s)) /\ ResyncSent(s).staged = s.staged /\ ResyncSent(s).barrier = None
  <2> DEFINE z == Settle(s, s.barrier)
  <2>1. Alike(s, z) /\ z.staged = s.staged
    BY <1>3
  <2> HIDE DEF z
  <2>2. /\ Alike(s, [z EXCEPT !.barrier = None]) /\ [z EXCEPT !.barrier = None].staged = s.staged
        /\ [z EXCEPT !.barrier = None].barrier = None
    BY Zenon, <2>1 DEF Alike, Fields
  <2>3. ResyncSent(s) = IF s.barrier # None THEN [z EXCEPT !.barrier = None] ELSE s
    BY Zenon DEF ResyncSent, z
  <2>4. Alike(s, s)
    BY DEF Alike
  <2>5. QED
    BY <2>2, <2>3, <2>4
<1>5. ASSUME NEW at, NEW world
      PROVE  Alike(s, Resynced(s, at, world)) /\ Resynced(s, at, world).staged = s.staged
             /\ Resynced(s, at, world).barrier \in {None, s.barrier}
  <2> DEFINE z == Settle(s, at)
             history == Replace(z.history, at, world)
             r == [z EXCEPT !.history = history, !.barrier = IF @ = at THEN None ELSE @]
  <2>1. Alike(s, z) /\ z.staged = s.staged /\ z.barrier = s.barrier
    BY <1>3
  <2>2. Resynced(s, at, world) = r
    BY Zenon DEF Resynced
  <2> HIDE DEF z, history
  <2>3. Alike(s, r) /\ r.staged = s.staged /\ r.barrier = IF z.barrier = at THEN None ELSE z.barrier
    BY Zenon, <2>1 DEF Alike, Fields
  <2>4. r.barrier \in {None, s.barrier}
    BY <2>1, <2>3
  <2>5. QED
    BY <2>2, <2>3, <2>4
<1>6. QED
  BY <1>1, <1>2, <1>4, <1>5

\* What one's own commands come to in a packet.
LEMMA SealedCommandsOK ==
  ASSUME NEW s, NEW me, Sound(s, me)
  PROVE  PacketOK(Held(Packet(s)))
<1>1. PICK T : s.staged \in Seq(T)
  BY DEF Sound, IsList
<1>2. PICK n \in Nat : DOMAIN s.staged = 1 .. n
  BY <1>1, LenProperties
<1> DEFINE cmd(i) == [slot |-> s.local, seq |-> s.nextSeq + i - 1, payload |-> s.staged[i]]
           C == {cmd(i) : i \in 1 .. n}
<1>3. IsFiniteSet(C)
  <2>1. IsFiniteSet(1 .. n)
    BY <1>2, FS_Interval
  <2> DEFINE f == [i \in 1 .. n |-> cmd(i)]
  <2>2. f \in Surjection(1 .. n, C)
    BY DEF Surjection
  <2>3. QED
    BY <2>1, <2>2, FS_Surjection
<1>4. \A c \in C : c.slot = me /\ c.seq \in Nat
  BY <1>2 DEF Sound
<1>5. SealedCommands(s) \in {C, {}}
  BY <1>2 DEF SealedCommands
<1>6. IsFiniteSet(SealedCommands(s)) /\ \A c \in SealedCommands(s) : c.slot = me /\ c.seq \in Nat
  <2> HIDE DEF C
  <2>1. QED
    BY <1>3, <1>4, <1>5, FS_EmptySet
<1>7. /\ Held(Packet(s)).from = me /\ Held(Packet(s)).tick = s.nextSeal
      /\ Held(Packet(s)).commands = SealedCommands(s)
  BY DEF Held, Packet, Sound
<1>8. QED
  BY <1>6, <1>7 DEF PacketOK, Sound

\* One more packet in hand, for a tick no packet of its seat is in hand for.
LEMMA InboxAdd ==
  ASSUME NEW s, NEW me, Sound(s, me), NEW p, PacketOK(p), s.tick <= p.tick,
         ~HasPacket(s, p.from, p.tick), NEW r,
         r.inbox = s.inbox \union {p}, r.tick = s.tick,
         r.nextSeal \in Nat, s.nextSeal <= r.nextSeal, p.from = me => p.tick < r.nextSeal
  PROVE  InboxOK(r, me)
<1>1. \A q \in s.inbox : ~(q.from = p.from /\ q.tick = p.tick)
  BY DEF HasPacket
<1>2. \A q, q2 \in r.inbox : q.from = q2.from /\ q.tick = q2.tick => q = q2
  <2>1. \A q, q2 \in s.inbox : q.from = q2.from /\ q.tick = q2.tick => q = q2
    BY DEF Sound, InboxOK
  <2>2. QED
    BY <1>1, <2>1
<1>3. ASSUME NEW q \in r.inbox
      PROVE  PacketOK(q) /\ r.tick <= q.tick /\ (q.from = me => q.tick < r.nextSeal)
  <2>1. CASE q = p
    BY <2>1
  <2>2. CASE q \in s.inbox
    <3>1. PacketOK(q) /\ s.tick <= q.tick /\ (q.from = me => q.tick < s.nextSeal)
      BY <2>2 DEF Sound, InboxOK
    <3>2. q.tick \in Nat /\ s.nextSeal \in Nat
      BY <3>1 DEF PacketOK, Sound
    <3>3. QED
      BY <3>1, <3>2
  <2>3. QED
    BY <2>1, <2>2
<1>4. IsFiniteSet(r.inbox)
  BY FS_AddElement DEF Sound, InboxOK
<1>5. QED
  BY <1>2, <1>3, <1>4 DEF InboxOK

\* next_packet.
LEMMA SealSound ==
  ASSUME NEW s, NEW me, Sound(s, me)
  PROVE  /\ Sound(Seal(s), me)
         /\ Seal(s).tick = s.tick /\ Seal(s).nextSeal = s.nextSeal + 1
         /\ Seal(s).retired = s.retired /\ Seal(s).barrier = s.barrier
         /\ Seal(s).inbox = s.inbox \union {Held(Packet(s))}
         /\ Held(Packet(s)).from = me /\ Held(Packet(s)).tick = s.nextSeal
         /\ PacketOK(Held(Packet(s)))
         /\ ~HasPacket(s, me, s.nextSeal)
<1> DEFINE r == Seal(s)
           p == Held(Packet(s))
<1>1. DOMAIN s = Fields
  BY DEF Sound
<1>2. /\ DOMAIN r = Fields /\ r.local = s.local /\ r.tick = s.tick /\ r.nextSeal = s.nextSeal + 1
      /\ r.simulated = s.simulated /\ r.retired = s.retired /\ r.inbox = s.inbox \union {p}
  BY Zenon, <1>1, SealFields
<1>3. r.barrier = s.barrier
  BY Zenon, <1>1 DEF Seal, Fields
<1>4. p.from = me /\ p.tick = s.nextSeal /\ PacketOK(p)
  BY OwnCommands, HeldCommands, SealedCommandsOK DEF Sound
<1>5. ~HasPacket(s, me, s.nextSeal)
  <2>1. \A q \in s.inbox : q.from = me => q.tick < s.nextSeal /\ q.tick \in Nat
    BY DEF Sound, InboxOK, PacketOK
  <2>2. s.nextSeal \in Nat
    BY DEF Sound
  <2>3. QED
    BY <2>1, <2>2 DEF HasPacket
<1>6. r.nextSeq \in Nat /\ IsList(r.staged)
  <2>1. PICK T : s.staged \in Seq(T)
    BY DEF Sound, IsList
  <2>2. s.nextSeq \in Nat /\ Len(s.staged) \in Nat
    BY <2>1, LenProperties DEF Sound
  <2>3. <<>> \in Seq(T)
    BY EmptySeq
  <2>4. \/ r.staged = s.staged /\ r.nextSeq = s.nextSeq
        \/ r.staged = <<>> /\ r.nextSeq = s.nextSeq + Len(s.staged)
    BY Zenon, <1>1, SealQueue
  <2> HIDE DEF r
  <2>5. r.nextSeq \in Nat
    BY <2>2, <2>4
  <2>6. r.staged \in Seq(T)
    BY <2>1, <2>3, <2>4
  <2>7. QED
    BY <2>5, <2>6 DEF IsList
<1> HIDE DEF r, p
<1>7. s.tick \in Nat /\ s.nextSeal \in Nat /\ s.tick <= s.nextSeal
  BY DEF Sound
<1>8. InboxOK(r, me)
  BY <1>2, <1>4, <1>5, <1>7, InboxAdd
<1>9. Sound(r, me)
  BY <1>2, <1>3, <1>6, <1>7, <1>8 DEF Sound
<1>10. QED
  BY <1>2, <1>3, <1>4, <1>5, <1>9 DEF r, p

\* What an accepted packet is to the session that accepts it.
LEMMA AcceptedIsNew ==
  ASSUME NEW s, NEW me, Sound(s, me), NEW p, p.tick \in Nat, Verdict(s, p) = "Accepted"
  PROVE  p.from # me /\ s.tick <= p.tick /\ ~HasPacket(s, p.from, p.tick) /\ p.from \in Slots
<1>1. /\ p.from # s.local /\ p.from \in Slots /\ ~(p.tick <= s.simulated)
      /\ ~HasPacket(s, p.from, p.tick)
  BY DEF Verdict
<1>2. QED
  BY <1>1 DEF Sound

\* receive.
LEMMA ReceiveSound ==
  ASSUME NEW s, NEW me, Sound(s, me), NEW p, PacketOK(p)
  PROVE  /\ Sound(Receive(s, p), me)
         /\ Receive(s, p).tick = s.tick /\ Receive(s, p).nextSeal = s.nextSeal
         /\ Receive(s, p).retired = s.retired /\ Receive(s, p).barrier = s.barrier
         /\ Receive(s, p).halt = s.halt
         /\ Receive(s, p).inbox =
              IF Verdict(s, p) = "Accepted" THEN s.inbox \union {Held(p)} ELSE s.inbox
<1> DEFINE r == Receive(s, p)
           claimed == [s EXCEPT !.inbox = @ \union {Held(p)},
             !.claims = (@ \ {c \in s.claims : c.slot = p.from /\ c.tick \in AckTicks(p.acks)})
               \union {[tick |-> a.tick, slot |-> p.from, hash |-> a.hash] : a \in p.acks}]
<1>1. DOMAIN s = Fields
  BY DEF Sound
<1>2. /\ DOMAIN r = Fields /\ r.local = s.local /\ r.tick = s.tick /\ r.nextSeal = s.nextSeal
      /\ r.simulated = s.simulated /\ r.staged = s.staged /\ r.nextSeq = s.nextSeq
      /\ r.retired = s.retired
  BY Zenon, <1>1, ReceiveFields
<1>3. r.halt = s.halt
  BY Zenon, <1>1, HaltKept
<1>4. /\ DOMAIN claimed = Fields /\ claimed.inbox = s.inbox \union {Held(p)}
      /\ claimed.barrier = s.barrier
  BY Zenon, <1>1 DEF Fields
<1>5. Received(s, p) = CheckClaims(claimed, AckTicks(p.acks))
  BY Zenon DEF Received
<1> HIDE DEF claimed
<1>6. \A x, T : DOMAIN x = Fields => CheckClaims(x, T).barrier = x.barrier
  BY Zenon DEF CheckClaims, Fields
<1>7. Received(s, p).inbox = s.inbox \union {Held(p)} /\ Received(s, p).barrier = s.barrier
  BY <1>4, <1>5, <1>6, CheckClaimsFields
<1>8. r.inbox = IF Verdict(s, p) = "Accepted" THEN s.inbox \union {Held(p)} ELSE s.inbox
  BY <1>7 DEF Receive
<1>9. r.barrier = s.barrier
  BY <1>7 DEF Receive
<1> HIDE DEF r
<1>10. InboxOK(r, me)
  <2>1. CASE Verdict(s, p) = "Accepted"
    <3> DEFINE q == Held(p)
    <3>1. q.from = p.from /\ q.tick = p.tick /\ q.commands = p.commands
      BY HeldCommands
    <3>2. PacketOK(q) /\ p.tick \in Nat
      BY <3>1 DEF PacketOK
    <3>3. p.from # me /\ s.tick <= p.tick /\ ~HasPacket(s, p.from, p.tick)
      BY <2>1, <3>2, AcceptedIsNew
    <3>4. r.inbox = s.inbox \union {q} /\ r.tick = s.tick /\ r.nextSeal = s.nextSeal
      BY <1>2, <1>8, <2>1
    <3>5. s.nextSeal \in Nat
      BY DEF Sound
    <3> HIDE DEF q
    <3>6. QED
      BY <3>1, <3>2, <3>3, <3>4, <3>5, InboxAdd
  <2>2. CASE Verdict(s, p) # "Accepted"
    <3>1. r.inbox = s.inbox /\ r.tick = s.tick /\ r.nextSeal = s.nextSeal
      BY <1>2, <1>8, <2>2
    <3>2. QED
      BY Zenon, <3>1 DEF Sound, InboxOK
  <2>3. QED
    BY <2>1, <2>2
<1>11. Sound(r, me)
  BY Zenon, <1>2, <1>9, <1>10 DEF Sound
<1>12. QED
  BY <1>2, <1>3, <1>8, <1>9, <1>11 DEF r

\* A world: a list of what each of n ticks ran.
WorldOK(w, n) == IsList(w) /\ Len(w) = n /\ \A i \in 1 .. n : IsList(w[i])

\* What a tick runs is a list of its commands, each of them once.
LEMMA TickRun ==
  ASSUME NEW s, NEW me, Sound(s, me), CommandsAreDistinct(TickCommands(s))
  PROVE  /\ IsFiniteSet(TickCommands(s))
         /\ \A c \in TickCommands(s) : c.slot \in Slots /\ c.seq \in Nat
         /\ \A who : /\ OrderCommands(who, TickCommands(s)) \in Seq(TickCommands(s))
                     /\ Range(OrderCommands(who, TickCommands(s))) = TickCommands(s)
<1> DEFINE C == TickCommands(s)
           P == {q \in s.inbox : q.tick = s.tick}
           Cs == {p.commands : p \in P}
<1>1. IsFiniteSet(P)
  BY FS_Subset DEF Sound, InboxOK
<1>2. IsFiniteSet(Cs)
  <2> DEFINE f == [p \in P |-> p.commands]
  <2>1. f \in Surjection(P, Cs)
    BY DEF Surjection
  <2>2. QED
    BY <1>1, <2>1, FS_Surjection
<1>3. \A p \in P : IsFiniteSet(p.commands) /\ \A c \in p.commands : c.slot \in Slots /\ c.seq \in Nat
  BY DEF Sound, InboxOK, PacketOK
<1>4. C = UNION Cs
  BY DEF TickCommands
<1>5. IsFiniteSet(C)
  <2>1. \A x \in Cs : IsFiniteSet(x)
    BY <1>3
  <2> HIDE DEF C, Cs
  <2>2. QED
    BY <1>2, <1>4, <2>1, FS_UNION
<1>6. \A c \in C : c.slot \in Slots /\ c.seq \in Nat
  BY <1>3, <1>4
<1> HIDE DEF C
<1>7. ASSUME NEW who
      PROVE  OrderCommands(who, C) \in Seq(C) /\ Range(OrderCommands(who, C)) = C
  <2> DEFINE q == OrderCommands(who, C)
             n == Cardinality(C)
  <2>1. \A c \in C : c.slot \in Nat /\ c.seq \in Nat
    BY <1>6, SessionAssumption
  <2>2. CommandsAreDistinct(C)
    BY DEF C
  <2>3. /\ DOMAIN q = 1 .. n /\ \A i \in DOMAIN q : q[i] \in C
        /\ \A c \in C : \E i \in DOMAIN q : q[i] = c
    BY <1>5, <2>1, <2>2, RunsEachOnce
  <2>4. q \in [1 .. n -> C]
    <3>1. q \in [1 .. n -> C] /\ \A i, j \in DOMAIN q : i < j => Earlier(q[i], q[j])
      BY <1>5, <2>1, <2>2, OrderExists DEF OrderCommands
    <3>2. QED
      BY <3>1
  <2>5. n \in Nat
    BY <1>5, FS_CardinalityType
  <2> HIDE DEF q, n
  <2>6. q \in Seq(C)
    BY <2>4, <2>5
  <2>7. Range(q) = C
    BY <2>3 DEF Range
  <2>8. QED
    BY <2>6, <2>7 DEF q
<1>8. QED
  BY <1>5, <1>6, <1>7 DEF C

\* A world that has run one more tick.
RunsOnce(w, n, v, q) == WorldOK(v, n + 1) /\ v[n + 1] = q /\ \A i \in 1 .. n : v[i] = w[i]

LEMMA WorldAppend ==
  ASSUME NEW w, NEW n \in Nat, WorldOK(w, n), NEW q, IsList(q)
  PROVE  RunsOnce(w, n, Append(w, q), q)
<1>1. PICK T : w \in Seq(T)
  BY DEF WorldOK, IsList
<1> DEFINE U == T \union {q}
           v == Append(w, q)
<1>2. w \in Seq(U) /\ q \in U /\ Len(w) = n
  BY <1>1 DEF WorldOK
<1> HIDE DEF U
<1>3. v \in Seq(U) /\ Len(v) = n + 1 /\ v[n + 1] = q /\ \A i \in 1 .. n : v[i] = w[i]
  BY <1>2, AppendProperties
<1> HIDE DEF v
<1>4. \A i \in 1 .. n + 1 : i \in 1 .. n \/ i = n + 1
  OBVIOUS
<1>5. \A i \in 1 .. n + 1 : IsList(v[i])
  BY <1>3, <1>4 DEF WorldOK
<1>6. IsList(v)
  BY <1>3 DEF IsList
<1>7. QED
  BY <1>3, <1>5, <1>6 DEF RunsOnce, WorldOK, v

\* advance: a tick run, or a halt that touches neither packets nor the clock.
LEMMA AdvanceSound ==
  ASSUME NEW s, NEW me, Sound(s, me), Missing(s) = {}, NEW w, NEW a, a = Advance(s, w)
  PROVE  /\ Sound(a.session, me)
         /\ a.session.nextSeal = s.nextSeal /\ a.session.retired = s.retired
         /\ a.session.barrier = s.barrier
         /\ \/ /\ a.session.tick = s.tick /\ a.session.inbox = s.inbox /\ a.world = w
            \/ /\ CommandsAreDistinct(TickCommands(s))
               /\ a.session.tick = s.tick + 1
               /\ a.session.inbox = {p \in s.inbox : p.tick # s.tick}
               /\ a.world = Append(w, OrderCommands(me, TickCommands(s)))
<1>1. DOMAIN s = Fields /\ s.local = me
  BY DEF Sound
<1> DEFINE next == Append(w, OrderCommands(s.local, TickCommands(s)))
           halted == Halt(s, "Protocol")
           r == Stepped(s, next)
           ran == [s EXCEPT !.inbox = {p \in @ : p.tick # s.tick},
                            !.history = Push(@, s.tick, next),
                            !.simulated = s.tick,
                            !.tick = @ + 1]
<1>2. a = IF CommandsAreDistinct(TickCommands(s)) THEN [session |-> r, world |-> next]
          ELSE [session |-> halted, world |-> w]
  BY DEF Advance
<1>3. CASE ~CommandsAreDistinct(TickCommands(s))
  <2>1. a.session = halted /\ a.world = w
    BY <1>2, <1>3
  <2>2. Alike(s, halted) /\ halted.staged = s.staged /\ halted.barrier = s.barrier
    BY <1>1, ResyncFields
  <2>3. IsList(s.staged) /\ s.barrier \in Nat \union {None}
    BY DEF Sound
  <2> HIDE DEF halted
  <2>4. Sound(halted, me)
    BY <2>2, <2>3, AlikeSound
  <2>5. QED
    BY <2>1, <2>2, <2>4 DEF Alike
<1>4. CASE CommandsAreDistinct(TickCommands(s))
  <2>1. a.session = r /\ a.world = next
    BY <1>2, <1>4
  <2>2. /\ DOMAIN ran = Fields /\ ran.local = s.local /\ ran.tick = s.tick + 1
        /\ ran.nextSeal = s.nextSeal /\ ran.retired = s.retired /\ ran.simulated = s.tick
        /\ ran.staged = s.staged /\ ran.nextSeq = s.nextSeq /\ ran.barrier = s.barrier
        /\ ran.inbox = {p \in s.inbox : p.tick # s.tick}
    BY Zenon, <1>1 DEF Fields
  <2>3. r = CheckClaims(ran, {s.tick})
    BY Zenon DEF Stepped
  <2> HIDE DEF ran
  <2>4. \A x, T : DOMAIN x = Fields => CheckClaims(x, T).barrier = x.barrier
    BY Zenon DEF CheckClaims, Fields
  <2>5. /\ DOMAIN r = Fields /\ r.local = s.local /\ r.tick = s.tick + 1
        /\ r.nextSeal = s.nextSeal /\ r.retired = s.retired /\ r.simulated = s.tick
        /\ r.staged = s.staged /\ r.nextSeq = s.nextSeq /\ r.barrier = s.barrier
        /\ r.inbox = {p \in s.inbox : p.tick # s.tick}
    BY <2>2, <2>3, <2>4, CheckClaimsFields
  <2> HIDE DEF r, next
  <2>6. s.tick \in Nat /\ s.nextSeal \in Nat
    BY DEF Sound
  <2>7. s.tick + 1 <= s.nextSeal
    <3>1. ~IsRetired(s, me, s.tick) /\ me \in Slots
      BY DEF Sound, IsRetired
    <3>2. HasPacket(s, me, s.tick)
      BY <3>1 DEF Missing
    <3>3. s.tick < s.nextSeal
      BY <3>2 DEF HasPacket, Sound, InboxOK
    <3>4. QED
      BY <2>6, <3>3
  <2>8. InboxOK(r, me)
    <3>1. IsFiniteSet(r.inbox)
      BY <2>5, FS_Subset DEF Sound, InboxOK
    <3>2. ASSUME NEW p \in r.inbox
          PROVE  PacketOK(p) /\ r.tick <= p.tick /\ (p.from = me => p.tick < r.nextSeal)
      <4>1. PacketOK(p) /\ s.tick <= p.tick /\ (p.from = me => p.tick < s.nextSeal) /\ p.tick # s.tick
        BY <2>5 DEF Sound, InboxOK
      <4>2. p.tick \in Nat
        BY <4>1 DEF PacketOK
      <4>3. QED
        BY <2>5, <2>6, <4>1, <4>2
    <3>3. \A p, q \in r.inbox : p.from = q.from /\ p.tick = q.tick => p = q
      BY <2>5 DEF Sound, InboxOK
    <3>4. QED
      BY <3>1, <3>2, <3>3 DEF InboxOK
  <2>9. r.tick \in Nat /\ r.tick <= r.nextSeal /\ r.simulated = r.tick - 1
    BY <2>5, <2>6, <2>7
  <2>10. Sound(r, me)
    BY Zenon, <2>5, <2>8, <2>9 DEF Sound
  <2>11. QED
    BY <1>1, <1>4, <2>1, <2>5, <2>10 DEF next
<1>5. QED
  BY <1>3, <1>4

\* retire, of any of the others.
LEMMA RetireSound ==
  ASSUME NEW s, NEW me, Sound(s, me), NEW from, NEW r, r = RetireEach(s, from)
  PROVE  /\ Sound(r, me)
         /\ r.tick = s.tick /\ r.nextSeal = s.nextSeal /\ r.barrier = s.barrier
         /\ r.halt = s.halt /\ r.divergence = s.divergence
         /\ r.inbox = {p \in s.inbox : p.from \in DOMAIN from \ {me} => p.tick < from[p.from]}
         /\ \A x \in Slots : r.retired[x] = IF x \in DOMAIN from \ {me} THEN from[x] ELSE s.retired[x]
<1>1. DOMAIN s = Fields /\ s.local = me /\ me \in Slots
  BY DEF Sound
<1>2. /\ DOMAIN r = Fields /\ r.local = s.local /\ r.tick = s.tick /\ r.nextSeal = s.nextSeal
      /\ r.simulated = s.simulated /\ r.staged = s.staged /\ r.nextSeq = s.nextSeq
      /\ r.barrier = s.barrier /\ r.halt = s.halt /\ r.divergence = s.divergence
      /\ r.inbox = {p \in s.inbox : p.from \in DOMAIN from \ {me} => p.tick < from[p.from]}
      /\ r.retired = [x \in Slots |-> IF x \in DOMAIN from \ {me} THEN from[x] ELSE s.retired[x]]
  BY Zenon, <1>1 DEF RetireEach, Fields
<1>3. r.retired[me] = None
  BY <1>1, <1>2 DEF Sound
<1>4. InboxOK(r, me)
  <2>1. IsFiniteSet(r.inbox)
    BY <1>2, FS_Subset DEF Sound, InboxOK
  <2>2. r.inbox \subseteq s.inbox
    BY <1>2
  <2>3. QED
    BY Zenon, <1>2, <2>1, <2>2 DEF Sound, InboxOK
<1>5. Sound(r, me)
  BY Zenon, <1>2, <1>3, <1>4 DEF Sound
<1>6. QED
  BY <1>2, <1>5

\* A new session, and one taken back (Live::rejoin).
LEMMA NewSound ==
  ASSUME NEW me \in Slots, NEW authority
  PROVE  Sound(NewSession(me, authority), me)
<1> DEFINE s == NewSession(me, authority)
<1>1. /\ DOMAIN s = Fields /\ s.local = me /\ s.tick = 0 /\ s.nextSeal = 0 /\ s.simulated = None
      /\ s.nextSeq = 0 /\ s.staged = <<>> /\ s.barrier = None /\ s.inbox = {}
      /\ s.retired = [x \in Slots |-> None]
  BY Zenon DEF NewSession, Fields
<1> HIDE DEF s
<1>2. IsList(s.staged)
  BY <1>1, EmptySeq DEF IsList
<1>3. InboxOK(s, me)
  BY <1>1, FS_EmptySet DEF InboxOK
<1>4. QED
  BY <1>1, <1>2, <1>3 DEF Sound, s, None

\* A session taken back.
TakenBack(s, me, retired, next) ==
  /\ Sound(s, me) /\ s.tick = next /\ s.nextSeal = next /\ s.inbox = {} /\ s.barrier = None
  /\ s.retired[me] = None /\ \A x \in Slots \ {me} : s.retired[x] = retired[x]

LEMMA RejoinSound ==
  ASSUME NEW me \in Slots, NEW authority, NEW retired, NEW next \in Nat, NEW world, NEW r,
         r = Rejoin(me, authority, retired, next, world)
  PROVE  TakenBack(r, me, retired, next)
<1> DEFINE s == NewSession(me, authority)
           history == IF next = 0 THEN <<>> ELSE <<[tick |-> next - 1, hash |-> world]>>
           rejoined == [s EXCEPT !.tick = next, !.nextSeal = next,
                          !.simulated = next - 1, !.ackedThrough = next - 1,
                          !.lastAgreed = next - 1, !.floor = next - 1,
                          !.history = history,
                          !.retired = [x \in Slots |-> IF x = me THEN None ELSE retired[x]]]
<1>1. r = rejoined
  BY Zenon DEF Rejoin
<1>2. /\ DOMAIN s = Fields /\ s.local = me /\ s.nextSeq = 0 /\ s.staged = <<>>
      /\ s.barrier = None /\ s.inbox = {}
  BY Zenon DEF NewSession, Fields
<1> HIDE DEF s, history
<1>3. /\ DOMAIN r = Fields /\ r.local = me /\ r.tick = next /\ r.nextSeal = next
      /\ r.simulated = next - 1 /\ r.nextSeq = 0 /\ r.staged = <<>> /\ r.barrier = None
      /\ r.inbox = {} /\ r.retired = [x \in Slots |-> IF x = me THEN None ELSE retired[x]]
  BY Zenon, <1>1, <1>2 DEF Fields
<1>4. IsList(r.staged)
  BY <1>3, EmptySeq DEF IsList
<1>5. InboxOK(r, me)
  BY <1>3, FS_EmptySet DEF InboxOK
<1>6. Sound(r, me)
  BY <1>3, <1>4, <1>5 DEF Sound
<1>7. r.retired[me] = None /\ \A x \in Slots \ {me} : r.retired[x] = retired[x]
  BY <1>3
<1>8. QED
  BY <1>3, <1>6, <1>7 DEF TakenBack

(***************************************************************************)
(* The packets of a slot in hand, up to the first that is not.             *)
(***************************************************************************)
Upto(s, x, n) == n >= s.tick /\ \A t \in Nat : t >= s.tick => (HasPacket(s, x, t) <=> t < n)

LEMMA UptoUnique ==
  ASSUME NEW s, s.tick \in Nat, NEW x, NEW m \in Nat, NEW n \in Nat, Upto(s, x, m), Upto(s, x, n)
  PROVE  m = n
<1>1. HasPacket(s, x, m) <=> m < n
  BY DEF Upto
<1>2. HasPacket(s, x, m) <=> m < m
  BY DEF Upto
<1>3. HasPacket(s, x, n) <=> n < m
  BY DEF Upto
<1>4. HasPacket(s, x, n) <=> n < n
  BY DEF Upto
<1>5. QED
  BY <1>1, <1>2, <1>3, <1>4

\* first_missing finds it, as far as the inbox reaches.
LEMMA FirstMissingIs ==
  ASSUME NEW s, NEW me, Sound(s, me), NEW x, NEW n \in Nat, Upto(s, x, n)
  PROVE  FirstMissing(s, x) = n
<1> DEFINE P == {p \in s.inbox : p.from = x /\ p.tick < n}
           k == Cardinality(s.inbox)
           T == {t \in s.tick .. s.tick + k : ~HasPacket(s, x, t)}
<1>1. s.tick \in Nat /\ IsFiniteSet(s.inbox) /\ k \in Nat
  BY FS_CardinalityType DEF Sound, InboxOK
<1>2. \A p \in s.inbox : p.tick \in Nat /\ s.tick <= p.tick
  BY DEF Sound, InboxOK, PacketOK
<1>3. IsFiniteSet(P) /\ Cardinality(P) <= k
  BY <1>1, FS_Subset
<1>4. [p \in P |-> p.tick] \in Surjection(P, s.tick .. n - 1)
  <2> DEFINE f == [p \in P |-> p.tick]
  <2>1. f \in [P -> s.tick .. n - 1]
    BY <1>1, <1>2
  <2>2. ASSUME NEW t \in s.tick .. n - 1
        PROVE  \E p \in P : p.tick = t
    <3>1. t \in Nat /\ t >= s.tick /\ t < n
      BY <1>1
    <3>2. PICK p \in s.inbox : p.tick = t /\ p.from = x
      BY <3>1 DEF Upto, HasPacket
    <3>3. QED
      BY <3>1, <3>2
  <2>3. QED
    BY <2>1, <2>2 DEF Surjection
<1>5. n <= s.tick + k
  <2>1. Cardinality(s.tick .. n - 1) <= Cardinality(P)
    BY <1>3, <1>4, FS_Surjection
  <2>2. Cardinality(P) \in Nat
    BY <1>3, FS_CardinalityType
  <2>3. CASE s.tick <= n - 1
    <3> HIDE DEF P, k
    <3>1. Cardinality(s.tick .. n - 1) = (n - 1) - s.tick + 1
      <4>1. s.tick \in Int /\ n - 1 \in Int /\ ~(s.tick > n - 1)
        BY <1>1, <2>3
      <4>2. QED
        BY <4>1, FS_Interval
    <3>2. QED
      BY <1>1, <1>3, <2>1, <2>2, <3>1
  <2>4. CASE ~(s.tick <= n - 1)
    <3> HIDE DEF P, k
    <3>1. QED
      BY <1>1, <2>4
  <2>5. QED
    BY <2>3, <2>4
<1> HIDE DEF k
<1>6. n \in T
  BY <1>1, <1>5 DEF Upto
<1>7. \A t \in T : n <= t
  BY <1>1 DEF Upto
<1>8. \A t \in T : t \in Nat
  BY <1>1
<1>9. FirstMissing(s, x) = CHOOSE t \in T : \A u \in T : t <= u
  BY DEF FirstMissing, Min, k
<1> HIDE DEF T
<1> DEFINE c == CHOOSE t \in T : \A u \in T : t <= u
<1>10. c \in T /\ \A u \in T : c <= u
  BY <1>6, <1>7
<1> HIDE DEF c
<1>11. c = n
  BY <1>6, <1>7, <1>8, <1>10
<1>12. QED
  BY <1>9, <1>11 DEF c

(***************************************************************************)
(* Lists.                                                                  *)
(***************************************************************************)
LEMMA ListDomain ==
  ASSUME NEW q, IsList(q)
  PROVE  /\ Len(q) \in Nat /\ DOMAIN q = 1 .. Len(q)
         /\ q = <<>> <=> Len(q) = 0
         /\ \A i \in DOMAIN q : i \in Nat /\ 1 <= i /\ i <= Len(q)
<1>1. PICK T : q \in Seq(T)
  BY DEF IsList
<1>2. Len(q) \in Nat /\ DOMAIN q = 1 .. Len(q)
  BY <1>1, LenProperties
<1>3. q = <<>> <=> Len(q) = 0
  BY <1>1, EmptySeq
<1>4. QED
  BY <1>2, <1>3

LEMMA ListOf ==
  ASSUME NEW n \in Nat, NEW f, f = [i \in 1 .. n |-> f[i]]
  PROVE  IsList(f) /\ Len(f) = n
<1>1. f \in [1 .. n -> {f[i] : i \in 1 .. n}]
  OBVIOUS
<1>2. f \in Seq({f[i] : i \in 1 .. n})
  BY <1>1
<1>3. Len(f) = n
  BY <1>1
<1>4. QED
  BY <1>2, <1>3 DEF IsList

LEMMA ListConcat ==
  ASSUME NEW p, IsList(p), NEW q, IsList(q)
  PROVE  /\ IsList(p \o q) /\ Len(p \o q) = Len(p) + Len(q)
         /\ \A i \in DOMAIN p : i \in DOMAIN (p \o q) /\ (p \o q)[i] = p[i]
         /\ \A i \in DOMAIN q : Len(p) + i \in DOMAIN (p \o q) /\ (p \o q)[Len(p) + i] = q[i]
         /\ \A i \in DOMAIN (p \o q) :
              \/ i \in DOMAIN p /\ (p \o q)[i] = p[i]
              \/ i > Len(p) /\ i - Len(p) \in DOMAIN q /\ (p \o q)[i] = q[i - Len(p)]
<1>1. PICK T, U : p \in Seq(T) /\ q \in Seq(U)
  BY DEF IsList
<1> DEFINE V == T \union U
           r == p \o q
<1>2. p \in Seq(V) /\ q \in Seq(V)
  BY <1>1, SeqMonotonic
<1> HIDE DEF V
<1>3. r \in Seq(V) /\ Len(r) = Len(p) + Len(q)
      /\ \A i \in 1 .. Len(p) + Len(q) : r[i] = IF i <= Len(p) THEN p[i] ELSE q[i - Len(p)]
  BY <1>2, ConcatProperties
<1>4. /\ Len(p) \in Nat /\ DOMAIN p = 1 .. Len(p)
      /\ Len(q) \in Nat /\ DOMAIN q = 1 .. Len(q)
      /\ DOMAIN r = 1 .. Len(r)
  BY <1>2, <1>3, LenProperties
<1> HIDE DEF r
<1>5. \A i \in DOMAIN p : i \in DOMAIN r /\ r[i] = p[i]
  BY <1>3, <1>4
<1>6. \A i \in DOMAIN q : Len(p) + i \in DOMAIN r /\ r[Len(p) + i] = q[i]
  <2>1. TAKE i \in DOMAIN q
  <2>2. PICK n \in Nat : n = Len(p) + i
    BY <1>4
  <2>3. n \in DOMAIN r /\ ~(n <= Len(p)) /\ n - Len(p) = i
    BY <1>3, <1>4, <2>2
  <2>4. QED
    BY <1>3, <1>4, <2>2, <2>3
<1>7. ASSUME NEW i \in DOMAIN r
      PROVE  \/ i \in DOMAIN p /\ r[i] = p[i]
             \/ i > Len(p) /\ i - Len(p) \in DOMAIN q /\ r[i] = q[i - Len(p)]
  BY <1>3, <1>4
<1>8. IsList(r)
  BY <1>3 DEF IsList
<1>9. QED
  BY <1>3, <1>5, <1>6, <1>7, <1>8 DEF r

LEMMA ListTail ==
  ASSUME NEW q, IsList(q), q # <<>>
  PROVE  /\ 1 \in DOMAIN q /\ Head(q) = q[1]
         /\ IsList(Tail(q)) /\ Len(Tail(q)) = Len(q) - 1
         /\ \A i \in DOMAIN Tail(q) : i + 1 \in DOMAIN q /\ Tail(q)[i] = q[i + 1]
         /\ Tail(q) # <<>> => Last(Tail(q)) = Last(q)
<1>1. PICK T : q \in Seq(T)
  BY DEF IsList
<1>2. /\ Head(q) \in T /\ Tail(q) \in Seq(T) /\ Len(Tail(q)) = Len(q) - 1
      /\ \A i \in 1 .. Len(Tail(q)) : Tail(q)[i] = q[i + 1]
  BY <1>1, HeadTailProperties
<1>3. Head(q) = q[1]
  BY <1>1
<1>4. Len(q) \in Nat /\ DOMAIN q = 1 .. Len(q) /\ Len(q) # 0
  BY <1>1, LenProperties, EmptySeq
<1> DEFINE r == Tail(q)
<1>5. Len(r) \in Nat /\ DOMAIN r = 1 .. Len(r) /\ r = <<>> <=> Len(r) = 0
  BY <1>2, LenProperties, EmptySeq
<1>6. Len(r) = Len(q) - 1 /\ \A i \in 1 .. Len(r) : r[i] = q[i + 1]
  BY <1>2
<1> HIDE DEF r
<1>7. ASSUME NEW i \in DOMAIN r PROVE i + 1 \in DOMAIN q /\ r[i] = q[i + 1]
  <2>1. i \in 1 .. Len(r)
    BY <1>5
  <2>2. i + 1 \in 1 .. Len(q)
    BY <1>4, <1>5, <1>6, <2>1
  <2>3. QED
    BY <1>4, <1>6, <2>1, <2>2
<1>8. r # <<>> => Last(r) = Last(q)
  <2>1. HAVE r # <<>>
  <2>2. Len(r) \in DOMAIN r
    BY <1>5, <2>1
  <2>3. r[Len(r)] = q[Len(r) + 1] /\ Len(r) + 1 = Len(q)
    BY <1>4, <1>5, <1>6, <2>2
  <2>4. QED
    BY <2>3 DEF Last
<1>9. IsList(r)
  BY <1>2 DEF IsList, r
<1>10. 1 \in DOMAIN q
  BY <1>4
<1>11. QED
  BY <1>2, <1>3, <1>7, <1>8, <1>9, <1>10 DEF r

LEMMA ListPrefix ==
  ASSUME NEW q, IsList(q), NEW n \in 0 .. Len(q)
  PROVE  /\ IsList(SubSeq(q, 1, n)) /\ Len(SubSeq(q, 1, n)) = n
         /\ \A i \in DOMAIN SubSeq(q, 1, n) : i \in DOMAIN q /\ SubSeq(q, 1, n)[i] = q[i]
<1>1. PICK T : q \in Seq(T)
  BY DEF IsList
<1>2. Len(q) \in Nat /\ DOMAIN q = 1 .. Len(q)
  BY <1>1, LenProperties
<1> DEFINE r == SubSeq(q, 1, n)
<1>3. r = [i \in 1 .. n |-> q[i]]
  BY <1>1, <1>2, SubSeqProperties
<1> HIDE DEF r
<1>4. r = [i \in 1 .. n |-> r[i]]
  BY <1>3
<1>5. IsList(r) /\ Len(r) = n
  BY <1>2, <1>4, ListOf
<1>6. \A i \in DOMAIN r : i \in DOMAIN q /\ r[i] = q[i]
  BY <1>2, <1>3
<1>7. QED
  BY <1>5, <1>6 DEF r

\* The members of a finite set, listed.
LEMMA Listed ==
  ASSUME NEW S, IsFiniteSet(S)
  PROVE  /\ IsList(SetToSeq(S)) /\ Range(SetToSeq(S)) = S
         /\ \A i, k \in DOMAIN SetToSeq(S) : SetToSeq(S)[i] = SetToSeq(S)[k] => i = k
<1> DEFINE n == Cardinality(S)
           q == SetToSeq(S)
<1>1. n \in Nat /\ ExistsBijection(1 .. n, S)
  BY FS_CardinalityType
<1>2. PICK f \in [1 .. n -> S] : IsInjective(f)
  BY <1>1 DEF ExistsBijection, Bijection, Injection
<1>3. q \in [1 .. n -> S] /\ IsInjective(q)
  BY <1>2 DEF SetToSeq
<1> HIDE DEF q
<1>4. q \in Injection(1 .. n, S)
  BY <1>3 DEF Injection
<1>5. Cardinality(1 .. n) = n
  BY <1>1, FS_Interval
<1>6. q \in Surjection(1 .. n, S)
  BY <1>4, <1>5, FS_Injection
<1>7. Range(q) = S
  BY <1>3, <1>6 DEF Range, Surjection
<1>8. IsList(q)
  <2>1. q \in Seq(S)
    BY <1>1, <1>3
  <2>2. QED
    BY <2>1 DEF IsList
<1>9. QED
  BY <1>3, <1>7, <1>8 DEF q, IsInjective

(***************************************************************************)
(* Packets sent again.                                                     *)
(***************************************************************************)
Bare(p) == [tick |-> p.tick, from |-> p.from, commands |-> p.commands, acks |-> {}]

\* Packets told apart by tick and seat have one order, and Resent has them all in it: they
\* are put in order as commands are, the tick in the place of the seat.
LEMMA ResentAll ==
  ASSUME NEW P, IsFiniteSet(P),
         \A p \in P : p.tick \in Nat /\ p.from \in Nat,
         \A p, q \in P : p.from = q.from /\ p.tick = q.tick => p = q
  PROVE  /\ IsList(Resent(P))
         /\ \A i \in DOMAIN Resent(P) : \E p \in P : Resent(P)[i] = Bare(p)
<1> DEFINE B == {Bare(p) : p \in P}
           cmd(b) == [slot |-> b.tick, seq |-> b.from, payload |-> b]
           C == {cmd(b) : b \in B}
           n == Cardinality(B)
<1>1. IsFiniteSet(B)
  <2> DEFINE f == [p \in P |-> Bare(p)]
  <2>1. f \in Surjection(P, B)
    BY DEF Surjection
  <2>2. QED
    BY <2>1, FS_Surjection
<1>2. \A b \in B : b.tick \in Nat /\ b.from \in Nat
  BY DEF Bare
<1>3. \A a, b \in B : a.from = b.from /\ a.tick = b.tick => a = b
  <2>1. TAKE a \in B, b \in B
  <2>2. HAVE a.from = b.from /\ a.tick = b.tick
  <2>3. PICK p \in P : a = Bare(p)
    OBVIOUS
  <2>4. PICK q \in P : b = Bare(q)
    OBVIOUS
  <2>5. p.from = q.from /\ p.tick = q.tick
    BY <2>2, <2>3, <2>4 DEF Bare
  <2>6. QED
    BY <2>3, <2>4, <2>5
<1> HIDE DEF B
<1>4. [b \in B |-> cmd(b)] \in Bijection(B, C)
  <2> DEFINE f == [b \in B |-> cmd(b)]
  <2>1. \A a, b \in B : f[a] = f[b] => a = b
    <3>1. \A b \in B : f[b].payload = b
      OBVIOUS
    <3> HIDE DEF f
    <3>2. QED
      BY <3>1
  <2>2. f \in [B -> C] /\ \A c \in C : \E b \in B : f[b] = c
    OBVIOUS
  <2>3. f \in Injection(B, C)
    BY <2>1, <2>2 DEF Injection, IsInjective
  <2>4. f \in Surjection(B, C)
    BY <2>2 DEF Surjection
  <2>5. QED
    BY <2>3, <2>4 DEF Bijection
<1>5. IsFiniteSet(C) /\ Cardinality(C) = n
  BY <1>1, <1>4, FS_Bijection DEF ExistsBijection
<1>6. /\ \A c \in C : c.slot \in Nat /\ c.seq \in Nat /\ c.payload \in B
                      /\ c.slot = c.payload.tick /\ c.seq = c.payload.from
  BY <1>2
<1>7. CommandsAreDistinct(C)
  <2>1. \A a, b \in B : cmd(a).slot = cmd(b).slot /\ cmd(a).seq = cmd(b).seq => a = b
    BY <1>3
  <2>2. QED
    BY <2>1 DEF CommandsAreDistinct
<1> HIDE DEF C
<1>8. PICK q \in [1 .. n -> C] : \A i, j \in DOMAIN q : i < j => Earlier(q[i], q[j])
  BY <1>5, <1>6, <1>7, OrderExists
<1> DEFINE r == [i \in 1 .. n |-> q[i].payload]
<1>9. r \in [1 .. n -> B] /\ \A i, j \in DOMAIN r : i < j => Sooner(r[i], r[j])
  <2>1. r \in [1 .. n -> B]
    BY <1>6
  <2>2. ASSUME NEW i \in 1 .. n, NEW j \in 1 .. n, i < j PROVE Sooner(r[i], r[j])
    <3>1. Earlier(q[i], q[j])
      BY <1>8, <2>2
    <3>2. q[i].slot = r[i].tick /\ q[i].seq = r[i].from /\ q[j].slot = r[j].tick /\ q[j].seq = r[j].from
      BY <1>6
    <3>3. QED
      BY <3>1, <3>2 DEF Earlier, Sooner
  <2>3. QED
    BY <2>1, <2>2
<1> HIDE DEF r
<1>10. Resent(P) \in [1 .. n -> B]
  BY <1>9 DEF Resent, B, Bare
<1>11. n \in Nat
  BY <1>1, FS_CardinalityType
<1> DEFINE z == Resent(P)
<1> HIDE DEF z, n
<1>12. z \in [1 .. n -> B]
  BY <1>10 DEF z
<1>13. IsList(z)
  <2>1. z \in Seq(B)
    BY <1>11, <1>12
  <2>2. QED
    BY <2>1 DEF IsList
<1>14. \A i \in DOMAIN z : \E p \in P : z[i] = Bare(p)
  BY <1>12 DEF B
<1>15. QED
  BY <1>13, <1>14 DEF z

\* The packets in hand, sent again.
LEMMA UnsimulatedAll ==
  ASSUME NEW s, NEW me, Sound(s, me), NEW except
  PROVE  /\ IsList(Unsimulated(s, except))
         /\ \A i \in DOMAIN Unsimulated(s, except) :
              \E p \in s.inbox : p.from # except /\ Unsimulated(s, except)[i] = Bare(p)
<1> DEFINE P == {p \in s.inbox : p.from # except /\ p.tick >= s.tick}
<1>1. IsFiniteSet(P)
  BY FS_Subset DEF Sound, InboxOK
<1>2. \A p \in P : p.tick \in Nat /\ p.from \in Nat
  BY SessionAssumption DEF Sound, InboxOK, PacketOK
<1>3. \A p, q \in P : p.from = q.from /\ p.tick = q.tick => p = q
  BY DEF Sound, InboxOK
<1>4. Unsimulated(s, except) = Resent(P)
  BY DEF Unsimulated
<1>5. \A p \in P : p \in s.inbox /\ p.from # except
  OBVIOUS
<1> HIDE DEF P
<1>6. /\ IsList(Resent(P))
      /\ \A i \in DOMAIN Resent(P) : \E p \in P : Resent(P)[i] = Bare(p)
  BY <1>1, <1>2, <1>3, ResentAll
<1>7. QED
  BY <1>4, <1>5, <1>6
=============================================================================
