----------------------------- MODULE LiveProofs -----------------------------
(***************************************************************************)
(* That the seats of a network game run the same commands in every tick,   *)
(* for any number of seats, connections, ticks and orders, any input       *)
(* delay, and whatever befalls the game: connections that break, silences, *)
(* programs that end and come back, seats handed to the computer, worlds   *)
(* that drift and are made one again.                                      *)
(*                                                                         *)
(* One thing is assumed of the game (OneKnock): that no player waits to be *)
(* seated on two connections at once.  The host then seats both, and what  *)
(* it hears on the second is not what it would hear next on the first.     *)
(*                                                                         *)
(* The argument turns on what the host knows each seat to have said for a  *)
(* tick: what its world ran of it, or what is in its inbox.  That is never *)
(* taken back, every message in flight from the host is true of it, a      *)
(* joiner has run and holds nothing else of the other seats, and what the  *)
(* host has not heard of a joiner is in order on that joiner's connection. *)
(*                                                                         *)
(* The host's state and each joiner's are values, as its handlers take     *)
(* them in Live: the invariant (GameOK) is a property of such values, and  *)
(* a handler that calls others keeps it because each of those does.        *)
(***************************************************************************)
EXTENDS Live, SessionProofs

(***************************************************************************)
(* What the host, of session S and world w, knows a slot to have said.     *)
(***************************************************************************)
HasSaid(S, x, t) == t < S.tick \/ HasPacket(S, x, t)
Said(S, w, x, t) ==
  IF t < S.tick THEN {c \in Range(w[t + 1]) : c.slot = x}
  ELSE UNION {p.commands : p \in {q \in S.inbox : q.tick = t /\ q.from = x}}

\* A packet as its slot said it.
AsSaid(S, w, p) ==
  PacketOK(p) /\ HasSaid(S, p.from, p.tick) /\ p.commands = Said(S, w, p.from, p.tick)

\* x has said what it will for t, and x says nothing from a tick on.
Settled(S, x, t) == HasSaid(S, x, t) \/ S.retired[x] # None
Ended(S, w, x, from) == S.retired[x] # None /\ \A t \in Nat : t >= from => Said(S, w, x, t) = {}

\* The tick that x's next packet is for.
Due(S, x) == CHOOSE n \in Nat : Upto(S, x, n)

\* What a tick runs, drifts apart: of all the slots, and if slot x said cmds.
OrderOf(cmds) == Commanded(OrderCommands(Host, cmds))
AllSaid(S, w, t) == UNION {Said(S, w, x, t) : x \in Slots}
With(S, w, x, t, cmds) == cmds \union UNION {Said(S, w, y, t) : y \in Slots \ {x}}

\* A world that has run what was said in its first n ticks.
TrueWorld(S, w, v, n) ==
  /\ WorldOK(v, n)
  /\ \A t \in Nat : t < n => Commanded(v[t + 1]) = OrderOf(AllSaid(S, w, t))

HostOK(S, w) ==
  /\ Sound(S, Host) /\ S.tick <= MaxTick
  /\ TrueWorld(S, w, w, S.tick)
  /\ \A x \in Slots : Due(S, x) \in Nat /\ Upto(S, x, Due(S, x))
  /\ Due(S, Host) = S.nextSeal
  /\ S.barrier # None => S.tick <= S.barrier + 1
  /\ \A x \in Slots : S.retired[x] # None =>
       /\ S.retired[x] \in Nat
       /\ Ended(S, w, x, S.retired[x])
       /\ \A t \in Nat : S.tick <= t /\ t < S.retired[x] => HasPacket(S, x, t)

(***************************************************************************)
(* What is in flight.                                                      *)
(***************************************************************************)
DownGood(S, w, m) ==
  /\ m.type = "Tick" => AsSaid(S, w, m.packet)
  /\ m.type = "Retire" => m.slot \in Joiners /\ Ended(S, w, m.slot, m.from)
  /\ m.type = "ResyncAt" => m.tick \in Nat
  /\ m.type = "Resync" => m.tick \in Nat /\ m.tick < S.tick /\ TrueWorld(S, w, m.world, m.tick + 1)
  /\ m.type = "Rejoin" =>
       /\ m.next \in Nat /\ m.next <= S.tick /\ TrueWorld(S, w, m.world, m.next)
       /\ m.retired[Host] = None
       /\ \A x \in Slots : m.retired[x] # None => Ended(S, w, x, m.retired[x])
  /\ m.type \in {"Away", "Back"} => m.slot \in Joiners

\* What may be behind it: a resync announced for tick `at`.
Before(m, at) ==
  /\ m.type = "Tick" /\ m.packet.from = Host => m.packet.tick <= at
  /\ m.type = "Rejoin" => m.next <= at + 1

DownOK(S, w, q) ==
  /\ IsList(q)
  /\ \A i \in DOMAIN q : DownGood(S, w, q[i])
  /\ \A i, k \in DOMAIN q : i < k /\ q[k].type = "ResyncAt" => Before(q[i], q[k].tick)

IsTick(m) == m.type = "Tick"

\* A joiner's packets come first, on a connection it is seated on; and it knocks once.
UpOK(q, j, on) ==
  /\ IsList(q)
  /\ \A i \in DOMAIN q :
       /\ IsTick(q[i]) => /\ on = "seated" /\ PacketOK(q[i].packet) /\ q[i].packet.from = j
                          /\ \A k \in DOMAIN q : k < i => IsTick(q[k])
       /\ q[i].type = "Join" => i = 1 /\ on \notin {"rejoining", "seated"}

ConnsOf(j) == {c \in Conns : SlotOf(c) = j}

ConnOK(h, w, j, v, c) ==
  /\ UpOK(h.up[c], j, h.line[c]) /\ DownOK(h.session, w, h.down[c])
  /\ h.line[c] \in {"none", "connecting", "accepted", "stranger", "rejoining", "seated", "gone"}
  /\ c[2] = 0 => h.line[c] \in {"seated", "gone"}
  /\ c[2] > v.conn <=> h.line[c] = "none"
  /\ h.line[c] = "none" => h.up[c] = <<>> /\ h.down[c] = <<>>
  /\ h.line[c] = "gone" => h.up[c] = <<>>

(***************************************************************************)
(* Joiner j, of state v, and its connections.                              *)
(***************************************************************************)
Cur(j, v) == <<j, v.conn>>

AlwaysOK(S, w, j, v) ==
  /\ Sound(v.session, j) /\ WorldOK(v.world, v.session.tick) /\ v.session.tick <= MaxTick
  /\ v.conn \in 0 .. MaxConn
  /\ v.phase \in {"playing", "knocking", "lost", "over"}
  /\ v.pending.tick # None =>
       /\ v.pending.tick \in Nat /\ v.pending.tick < S.tick
       /\ TrueWorld(S, w, v.pending.world, v.pending.tick + 1)

\* What one that plays has in hand of the others, and how far it has run.
HeardOK(S, w, j, v) ==
  /\ \A p \in v.session.inbox : p.from # j => AsSaid(S, w, p)
  /\ v.session.retired[Host] = None
  /\ \A x \in Slots : v.session.retired[x] # None => Ended(S, w, x, v.session.retired[x])
  /\ \A x \in Slots, t \in Nat : x # j /\ t < v.session.tick => Settled(S, x, t)
  /\ v.session.barrier # None => v.session.tick <= v.session.barrier + 1

\* It has not run past a resync it is still to hear of.
AheadOK(v, q) ==
  \A i \in DOMAIN q : q[i].type = "ResyncAt" =>
    /\ v.session.tick <= q[i].tick + 1
    /\ \A p \in v.session.inbox : p.from = Host => p.tick <= q[i].tick

OnlyTicks(q) == ~Closed(q) => \A i \in DOMAIN q : IsTick(q[i])
OnlyJoins(q) == \A i \in DOMAIN q : q[i].type = "Join" \/ q[i] = Fin

PlayOK(h, w, j, v) ==
  /\ HeardOK(h.session, w, j, v)
  /\ AheadOK(v, h.down[Cur(j, v)])
  /\ OnlyTicks(h.up[Cur(j, v)])

\* It plays, or will when it hears the host's answer.
Rejoining(q) == \E i \in DOMAIN q : q[i].type = "Rejoin"
InPlay(h, j, v) ==
  v.phase = "playing" \/ (v.phase = "knocking" /\ Rejoining(h.down[Cur(j, v)]))

(***************************************************************************)
(* As long as the host has not retired its slot.                           *)
(***************************************************************************)
LinesOK(h, j) ==
  \A c \in ConnsOf(j) :
    /\ h.line[c] = "seated" =>
         j \notin h.waiting /\ \A d \in ConnsOf(j) : h.line[d] = "seated" => d = c
    /\ h.line[c] = "rejoining" => j \in h.waiting

\* What it says next is what the host is to hear next.
AlignedOK(h, j) ==
  \A c \in ConnsOf(j) : \A i \in DOMAIN h.up[c] :
    IsTick(h.up[c][i]) => h.up[c][i].packet.tick = Due(h.session, j) + i - 1

OnlyCur(h, j, v) ==
  \A c \in ConnsOf(j) : c # Cur(j, v) => \A i \in DOMAIN h.up[c] : ~IsTick(h.up[c][i])

KnockedOK(h, j, v) ==
  \A i \in DOMAIN h.down[Cur(j, v)] :
    h.down[Cur(j, v)][i].type = "Rejoin" => h.down[Cur(j, v)][i].next = Due(h.session, j)

\* What it has said for t, by its own account, is cmds.
OwnIs(S, w, j, v, t, cmds) ==
  /\ t < v.session.tick => Commanded(v.world[t + 1]) = OrderOf(With(S, w, j, t, cmds))
  /\ t >= v.session.tick => \A p \in v.session.inbox : p.from = j /\ p.tick = t => p.commands = cmds

SaysOK(S, w, j, v, on, q) ==
  /\ Due(S, j) <= v.session.nextSeal
  /\ on = "seated" /\ ~Closed(q) => v.session.nextSeal = Due(S, j) + Len(q)
  /\ \A t \in Nat : HasSaid(S, j, t) => OwnIs(S, w, j, v, t, Said(S, w, j, t))
  /\ \A i \in DOMAIN q : IsTick(q[i]) =>
       /\ q[i].packet.tick < v.session.nextSeal
       /\ OwnIs(S, w, j, v, q[i].packet.tick, q[i].packet.commands)

FreeOK(h, w, j, v) ==
  /\ LinesOK(h, j) /\ AlignedOK(h, j)
  /\ InPlay(h, j, v) => OnlyCur(h, j, v)
  /\ v.phase = "knocking" => KnockedOK(h, j, v)
  /\ v.phase = "playing" => SaysOK(h.session, w, j, v, h.line[Cur(j, v)], h.up[Cur(j, v)])

SeatOK(h, w, j, v) ==
  /\ AlwaysOK(h.session, w, j, v)
  /\ \A c \in ConnsOf(j) : ConnOK(h, w, j, v, c)
  /\ v.phase = "playing" => PlayOK(h, w, j, v)
  /\ v.phase = "knocking" => OnlyJoins(h.up[Cur(j, v)])
  /\ InPlay(h, j, v) => h.line[Cur(j, v)] \in {"seated", "gone"}
  /\ h.session.retired[j] = None => FreeOK(h, w, j, v)

HostFields == {"session", "waiting", "quiet", "outbox", "line", "up", "down"}

Wired(h) ==
  /\ DOMAIN h = HostFields /\ DOMAIN h.up = Conns /\ DOMAIN h.down = Conns
  /\ h.line = [c \in Conns |-> h.line[c]]

GameOK(h, w, J) ==
  /\ Wired(h)
  /\ HostOK(h.session, w)
  /\ h.waiting \subseteq Joiners /\ h.quiet \subseteq Joiners /\ IsList(h.outbox)
  /\ \A j \in Joiners : SeatOK(h, w, j, J[j])

(***************************************************************************)
(* What the host knows is never taken back: what it comes to know.         *)
(***************************************************************************)
Grows(S, w, S2, w2) ==
  /\ S.tick \in Nat /\ S2.tick \in Nat /\ S.tick <= S2.tick
  /\ \A x \in Slots : S.retired[x] # None => S2.retired[x] # None
  /\ \A x \in Slots, t \in Nat : HasSaid(S, x, t) => HasSaid(S2, x, t)
  /\ \A x \in Slots, t \in Nat : Settled(S, x, t) => Said(S2, w2, x, t) = Said(S, w, x, t)

LEMMA GrowsSelf ==
  ASSUME NEW S, S.tick \in Nat, NEW w
  PROVE  Grows(S, w, S, w)
BY DEF Grows

LEMMA GrowsAll ==
  ASSUME NEW S, NEW w, NEW S2, NEW w2, Grows(S, w, S2, w2), NEW t \in Nat,
         \A x \in Slots : Settled(S, x, t)
  PROVE  AllSaid(S2, w2, t) = AllSaid(S, w, t)
BY DEF Grows, AllSaid

LEMMA GrowsAsSaid ==
  ASSUME NEW S, NEW w, NEW S2, NEW w2, Grows(S, w, S2, w2), NEW p, AsSaid(S, w, p)
  PROVE  AsSaid(S2, w2, p)
<1>1. p.from \in Slots /\ p.tick \in Nat
  BY DEF AsSaid, PacketOK
<1>2. QED
  BY <1>1 DEF Grows, AsSaid, Settled

LEMMA GrowsEnded ==
  ASSUME NEW S, NEW w, NEW S2, NEW w2, Grows(S, w, S2, w2), NEW x \in Slots, NEW from,
         Ended(S, w, x, from)
  PROVE  Ended(S2, w2, x, from)
BY DEF Grows, Ended, Settled

LEMMA GrowsTrueWorld ==
  ASSUME NEW S, NEW w, NEW S2, NEW w2, Grows(S, w, S2, w2), NEW v, NEW n \in Nat, n <= S.tick,
         TrueWorld(S, w, v, n)
  PROVE  TrueWorld(S2, w2, v, n)
<1>1. ASSUME NEW t \in Nat, t < n
      PROVE  AllSaid(S2, w2, t) = AllSaid(S, w, t)
  <2>1. t < S.tick
    BY <1>1 DEF Grows
  <2>2. \A x \in Slots : Settled(S, x, t)
    BY <2>1 DEF Settled, HasSaid
  <2>3. QED
    BY <2>2, GrowsAll
<1>2. QED
  BY <1>1 DEF TrueWorld

LEMMA GrowsDownGood ==
  ASSUME NEW S, NEW w, NEW S2, NEW w2, Grows(S, w, S2, w2), NEW m, DownGood(S, w, m)
  PROVE  DownGood(S2, w2, m)
<1>1. S.tick \in Nat /\ S2.tick \in Nat /\ S.tick <= S2.tick
  BY DEF Grows
<1>2. m.type = "Tick" => AsSaid(S2, w2, m.packet)
  BY GrowsAsSaid DEF DownGood
<1>3. m.type = "Retire" => m.slot \in Joiners /\ Ended(S2, w2, m.slot, m.from)
  <2>1. Joiners \subseteq Slots
    BY DEF Joiners
  <2>2. QED
    BY <2>1, GrowsEnded DEF DownGood
<1>4. m.type = "Resync" => m.tick \in Nat /\ m.tick < S2.tick /\ TrueWorld(S2, w2, m.world, m.tick + 1)
  <2>1. HAVE m.type = "Resync"
  <2>2. m.tick \in Nat /\ m.tick < S.tick /\ TrueWorld(S, w, m.world, m.tick + 1)
    BY <2>1 DEF DownGood
  <2>3. m.tick + 1 \in Nat /\ m.tick + 1 <= S.tick
    BY <1>1, <2>2
  <2>4. TrueWorld(S2, w2, m.world, m.tick + 1)
    BY <2>2, <2>3, GrowsTrueWorld
  <2>5. QED
    BY <1>1, <2>2, <2>4
<1>5. m.type = "Rejoin" =>
        /\ m.next \in Nat /\ m.next <= S2.tick /\ TrueWorld(S2, w2, m.world, m.next)
        /\ m.retired[Host] = None
        /\ \A x \in Slots : m.retired[x] # None => Ended(S2, w2, x, m.retired[x])
  <2>1. HAVE m.type = "Rejoin"
  <2>2. /\ m.next \in Nat /\ m.next <= S.tick /\ TrueWorld(S, w, m.world, m.next)
        /\ m.retired[Host] = None
        /\ \A x \in Slots : m.retired[x] # None => Ended(S, w, x, m.retired[x])
    BY <2>1 DEF DownGood
  <2>3. TrueWorld(S2, w2, m.world, m.next)
    BY <2>2, GrowsTrueWorld
  <2>4. \A x \in Slots : m.retired[x] # None => Ended(S2, w2, x, m.retired[x])
    BY <2>2, GrowsEnded
  <2>5. QED
    BY <1>1, <2>2, <2>3, <2>4
<1>6. QED
  BY <1>2, <1>3, <1>4, <1>5 DEF DownGood

LEMMA GrowsHeard ==
  ASSUME NEW S, NEW w, NEW S2, NEW w2, Grows(S, w, S2, w2), NEW j, NEW v,
         HeardOK(S, w, j, v)
  PROVE  HeardOK(S2, w2, j, v)
<1>1. \A p \in v.session.inbox : p.from # j => AsSaid(S2, w2, p)
  BY GrowsAsSaid DEF HeardOK
<1>2. \A x \in Slots : v.session.retired[x] # None => Ended(S2, w2, x, v.session.retired[x])
  BY GrowsEnded DEF HeardOK
<1>3. \A x \in Slots, t \in Nat : x # j /\ t < v.session.tick => Settled(S2, x, t)
  BY DEF HeardOK, Settled, Grows
<1>4. QED
  BY <1>1, <1>2, <1>3 DEF HeardOK

LEMMA GrowsAlways ==
  ASSUME NEW S, NEW w, NEW S2, NEW w2, Grows(S, w, S2, w2), NEW j, NEW v,
         AlwaysOK(S, w, j, v)
  PROVE  AlwaysOK(S2, w2, j, v)
<1>1. v.pending.tick # None =>
        /\ v.pending.tick \in Nat /\ v.pending.tick < S2.tick
        /\ TrueWorld(S2, w2, v.pending.world, v.pending.tick + 1)
  <2>1. HAVE v.pending.tick # None
  <2>2. /\ v.pending.tick \in Nat /\ v.pending.tick < S.tick
        /\ TrueWorld(S, w, v.pending.world, v.pending.tick + 1)
    BY <2>1 DEF AlwaysOK
  <2>3. S.tick \in Nat /\ S2.tick \in Nat /\ S.tick <= S2.tick
    BY DEF Grows
  <2> DEFINE n == v.pending.tick
  <2> HIDE DEF n
  <2>4. n \in Nat /\ n < S.tick
    BY <2>2 DEF n
  <2>5. n + 1 \in Nat /\ n + 1 <= S.tick /\ n < S2.tick
    BY <2>3, <2>4
  <2>6. TrueWorld(S2, w2, v.pending.world, n + 1)
    BY <2>2, <2>5, GrowsTrueWorld DEF n
  <2>7. QED
    BY <2>4, <2>5, <2>6 DEF n
<1>2. QED
  BY <1>1 DEF AlwaysOK

\* What a joiner has run is settled but for what it said itself.
LEMMA GrowsOwn ==
  ASSUME NEW S, NEW w, NEW S2, NEW w2, Grows(S, w, S2, w2), NEW j, NEW v,
         HeardOK(S, w, j, v), NEW t \in Nat, NEW cmds, OwnIs(S, w, j, v, t, cmds)
  PROVE  OwnIs(S2, w2, j, v, t, cmds)
<1>1. ASSUME t < v.session.tick
      PROVE  With(S2, w2, j, t, cmds) = With(S, w, j, t, cmds)
  <2>1. \A y \in Slots \ {j} : Said(S2, w2, y, t) = Said(S, w, y, t)
    BY <1>1 DEF HeardOK, Grows
  <2>2. QED
    BY <2>1 DEF With
<1>2. QED
  BY <1>1 DEF OwnIs

(***************************************************************************)
(* What the host adds to a connection.                                     *)
(***************************************************************************)
NewDown(S, w, m) ==
  /\ DownGood(S, w, m) /\ m.type # "Rejoin"
  /\ m.type = "ResyncAt" => S.nextSeal <= m.tick + 1

Extends(S, w, q, r) ==
  \E msgs : IsList(msgs) /\ r = q \o msgs /\ \A i \in DOMAIN msgs : NewDown(S, w, msgs[i])

LEMMA ExtendsSelf ==
  ASSUME NEW S, NEW w, NEW q, IsList(q)
  PROVE  Extends(S, w, q, q)
<1>1. PICK T : q \in Seq(T)
  BY DEF IsList
<1>2. q = q \o <<>>
  BY <1>1, ConcatEmptySeq
<1>3. IsList(<<>>)
  BY EmptySeq DEF IsList
<1>4. DOMAIN <<>> = {}
  OBVIOUS
<1>5. QED
  BY <1>2, <1>3, <1>4 DEF Extends

LEMMA ExtendsList ==
  ASSUME NEW S, NEW w, NEW q, IsList(q), NEW r, Extends(S, w, q, r)
  PROVE  IsList(r)
BY ListConcat DEF Extends

LEMMA ExtendsTrans ==
  ASSUME NEW S, NEW w, NEW p, IsList(p), NEW q, NEW r, Extends(S, w, p, q), Extends(S, w, q, r)
  PROVE  Extends(S, w, p, r)
<1>1. PICK a : IsList(a) /\ q = p \o a /\ \A i \in DOMAIN a : NewDown(S, w, a[i])
  BY DEF Extends
<1>2. PICK b : IsList(b) /\ r = q \o b /\ \A i \in DOMAIN b : NewDown(S, w, b[i])
  BY DEF Extends
<1>3. PICK T, U, V : p \in Seq(T) /\ a \in Seq(U) /\ b \in Seq(V)
  BY <1>1, <1>2 DEF IsList
<1> DEFINE W == T \union U \union V
<1>4. p \in Seq(W) /\ a \in Seq(W) /\ b \in Seq(W)
  BY <1>3, SeqMonotonic
<1> HIDE DEF W
<1>5. r = p \o (a \o b)
  BY <1>1, <1>2, <1>4, ConcatAssociative
<1> DEFINE ab == a \o b
<1>6. /\ IsList(ab)
      /\ \A i \in DOMAIN ab : \/ i \in DOMAIN a /\ ab[i] = a[i]
                              \/ i - Len(a) \in DOMAIN b /\ ab[i] = b[i - Len(a)]
  BY <1>1, <1>2, ListConcat
<1> HIDE DEF ab
<1>7. \A i \in DOMAIN ab : NewDown(S, w, ab[i])
  BY <1>1, <1>2, <1>6
<1>8. QED
  BY <1>5, <1>6, <1>7 DEF Extends, ab

LEMMA ExtendsPut ==
  ASSUME NEW S, NEW w, NEW q, IsList(q), NEW msgs, IsList(msgs),
         \A i \in DOMAIN msgs : NewDown(S, w, msgs[i])
  PROVE  Extends(S, w, q, Put(q, msgs))
<1>1. CASE Closed(q)
  <2>1. Put(q, msgs) = q
    BY <1>1 DEF Put
  <2>2. QED
    BY <2>1, ExtendsSelf
<1>2. CASE ~Closed(q)
  <2>1. Put(q, msgs) = q \o msgs
    BY <1>2 DEF Put
  <2>2. QED
    BY <2>1 DEF Extends
<1>3. QED
  BY <1>1, <1>2

\* A list of one message, or of none.
LEMMA OneMessage ==
  ASSUME NEW m
  PROVE  IsList(<<m>>) /\ DOMAIN <<m>> = {1} /\ <<m>>[1] = m /\ Len(<<m>>) = 1 /\ <<m>> # <<>>
<1>1. <<m>> \in Seq({m}) /\ Len(<<m>>) = 1
  OBVIOUS
<1>2. IsList(<<m>>)
  BY <1>1 DEF IsList
<1>3. DOMAIN <<m>> = {1} /\ <<m>>[1] = m
  OBVIOUS
<1>4. <<m>> # <<>>
  BY <1>1
<1>5. QED
  BY <1>1, <1>2, <1>3, <1>4

\* Messages a resync has not to be told from.
Plain(m) == m.type \notin {"Tick", "Retire", "ResyncAt", "Resync", "Rejoin", "Away", "Back"}

LEMMA PlainNew ==
  ASSUME NEW S, NEW w, NEW m, Plain(m)
  PROVE  NewDown(S, w, m)
BY DEF Plain, NewDown, DownGood

\* What a connection carries stays true of what the host knows, and nothing that is to
\* be known before a resync is behind its announcement.
LEMMA DownExtends ==
  ASSUME NEW S, NEW w, NEW S2, NEW w2, Grows(S, w, S2, w2), HostOK(S2, w2),
         NEW q, DownOK(S, w, q), NEW r, Extends(S2, w2, q, r)
  PROVE  DownOK(S2, w2, r)
<1>1. PICK a : IsList(a) /\ r = q \o a /\ \A i \in DOMAIN a : NewDown(S2, w2, a[i])
  BY DEF Extends
<1>2. IsList(q) /\ \A i \in DOMAIN q : DownGood(S2, w2, q[i])
  BY GrowsDownGood DEF DownOK
<1>3. /\ IsList(r)
      /\ \A i \in DOMAIN r : \/ i \in DOMAIN q /\ r[i] = q[i]
                             \/ i > Len(q) /\ i - Len(q) \in DOMAIN a /\ r[i] = a[i - Len(q)]
  BY <1>1, <1>2, ListConcat
<1>4. \A i \in DOMAIN r : DownGood(S2, w2, r[i])
  BY <1>1, <1>2, <1>3 DEF NewDown
<1>5. \A i \in DOMAIN r : i \in Nat
  BY <1>3, ListDomain
<1>6. Len(q) \in Nat /\ \A i \in DOMAIN q : i \in Nat /\ i <= Len(q)
  BY <1>2, ListDomain
<1>7. S2.nextSeal \in Nat /\ S2.tick \in Nat /\ S2.tick <= S2.nextSeal
  BY DEF HostOK, Sound
<1>8. ASSUME NEW m, DownGood(S2, w2, m), NEW at \in Nat, S2.nextSeal <= at + 1
      PROVE  Before(m, at)
  <2>1. ASSUME m.type = "Tick", m.packet.from = Host PROVE m.packet.tick <= at
    <3>1. /\ m.packet.tick \in Nat
          /\ m.packet.tick < S2.tick \/ HasPacket(S2, Host, m.packet.tick)
      BY <2>1, <1>8 DEF DownGood, AsSaid, PacketOK, HasSaid
    <3>2. \A p \in S2.inbox : p.from = Host => p.tick < S2.nextSeal
      BY DEF HostOK, Sound, InboxOK
    <3>3. m.packet.tick < S2.nextSeal
      BY <1>7, <3>1, <3>2 DEF HasPacket
    <3>4. QED
      BY <1>7, <1>8, <3>1, <3>3
  <2>2. ASSUME m.type = "Rejoin" PROVE m.next <= at + 1
    <3>1. m.next \in Nat /\ m.next <= S2.tick
      BY <2>2, <1>8 DEF DownGood
    <3>2. QED
      BY <1>7, <1>8, <3>1
  <2>3. QED
    BY <2>1, <2>2 DEF Before
<1>9. ASSUME NEW i \in DOMAIN r, NEW k \in DOMAIN r, i < k, r[k].type = "ResyncAt"
      PROVE  Before(r[i], r[k].tick)
  <2>1. CASE k \in DOMAIN q /\ r[k] = q[k]
    <3>1. i \in DOMAIN q /\ r[i] = q[i]
      BY <1>3, <1>5, <1>6, <1>9, <2>1
    <3>2. QED
      BY <1>9, <2>1, <3>1 DEF DownOK
  <2>2. CASE k - Len(q) \in DOMAIN a /\ r[k] = a[k - Len(q)]
    <3>1. NewDown(S2, w2, r[k])
      BY <1>1, <2>2
    <3>2. r[k].tick \in Nat /\ S2.nextSeal <= r[k].tick + 1
      BY <1>9, <3>1 DEF NewDown, DownGood
    <3>3. QED
      BY <1>4, <1>8, <3>2
  <2>3. QED
    BY <1>3, <2>1, <2>2
<1>10. QED
  BY <1>3, <1>4, <1>9 DEF DownOK

(***************************************************************************)
(* What the host does to its connections, whatever it is doing.            *)
(***************************************************************************)
\* Its new connections are looked at, some are closed, and good messages go out.
ConnStep(S, w, h, h2, c) ==
  /\ \/ h2.line[c] = h.line[c] /\ h2.up[c] = h.up[c]
     \/ /\ h.line[c] \in {"connecting", "accepted"} /\ h2.line[c] \in {"accepted", "stranger"}
        /\ h2.up[c] = h.up[c]
     \/ h.line[c] # "none" /\ h2.line[c] = "gone" /\ h2.up[c] = <<>>
  /\ h.line[c] = "none" => h2.down[c] = h.down[c]
  /\ Extends(S, w, h.down[c], h2.down[c])

Lists(h) == \A c \in Conns : IsList(h.down[c])

Moves(S, w, h, h2) ==
  Wired(h2) /\ Lists(h2) /\ \A c \in Conns : ConnStep(S, w, h, h2, c)

Same(h, h2) ==
  /\ h2.session = h.session /\ h2.waiting = h.waiting
  /\ h2.quiet = h.quiet /\ h2.outbox = h.outbox

LEMMA MovesSelf ==
  ASSUME NEW S, NEW w, NEW h, Wired(h), Lists(h)
  PROVE  Moves(S, w, h, h)
BY ExtendsSelf DEF Moves, ConnStep, Lists

LEMMA MovesTrans ==
  ASSUME NEW S, NEW w, NEW h, Lists(h), NEW h1, NEW h2, Moves(S, w, h, h1), Moves(S, w, h1, h2)
  PROVE  Moves(S, w, h, h2)
<1>1. ASSUME NEW c \in Conns PROVE ConnStep(S, w, h, h2, c)
  <2>1. ConnStep(S, w, h, h1, c) /\ ConnStep(S, w, h1, h2, c) /\ IsList(h.down[c])
    BY DEF Moves, Lists
  <2>2. Extends(S, w, h.down[c], h2.down[c])
    BY <2>1, ExtendsTrans DEF ConnStep
  <2>3. h.line[c] = "none" => h1.line[c] = "none"
    BY <2>1 DEF ConnStep
  <2>4. h.line[c] = "none" => h2.down[c] = h.down[c]
    BY <2>1, <2>3 DEF ConnStep
  <2>5. \/ h2.line[c] = h.line[c] /\ h2.up[c] = h.up[c]
        \/ /\ h.line[c] \in {"connecting", "accepted"} /\ h2.line[c] \in {"accepted", "stranger"}
           /\ h2.up[c] = h.up[c]
        \/ h.line[c] # "none" /\ h2.line[c] = "gone" /\ h2.up[c] = <<>>
    BY <2>1 DEF ConnStep
  <2>6. QED
    BY <2>2, <2>4, <2>5 DEF ConnStep
<1>2. QED
  BY <1>1 DEF Moves

\* A host's value with other parts than its connections changed.
LEMMA MovesLike ==
  ASSUME NEW S, NEW w, NEW h, NEW h2, Moves(S, w, h, h2), NEW h3, Wired(h3),
         h3.line = h2.line, h3.up = h2.up, h3.down = h2.down
  PROVE  Moves(S, w, h, h3)
BY DEF Moves, ConnStep, Lists

LEMMA MovesFrom ==
  ASSUME NEW S, NEW w, NEW h, NEW h2, Moves(S, w, h, h2), NEW h0,
         h0.line = h.line, h0.up = h.up, h0.down = h.down
  PROVE  Moves(S, w, h0, h2)
BY DEF Moves, ConnStep

LEMMA SendMoves ==
  ASSUME NEW S, NEW w, NEW h, Wired(h), Lists(h), NEW except, NEW m, NewDown(S, w, m)
  PROVE  /\ Moves(S, w, h, SendBut(h, except, m))
         /\ Same(h, SendBut(h, except, m))
         /\ SendBut(h, except, m).line = h.line /\ SendBut(h, except, m).up = h.up
<1> DEFINE h2 == SendBut(h, except, m)
<1>1. /\ DOMAIN h2 = HostFields /\ h2.line = h.line /\ h2.up = h.up
      /\ h2.down = [c \in Conns |-> IF IsSeated(h, c) /\ c # except THEN Put(h.down[c], <<m>>)
                                    ELSE h.down[c]]
      /\ h2.session = h.session /\ h2.waiting = h.waiting
      /\ h2.quiet = h.quiet /\ h2.outbox = h.outbox
  BY Zenon DEF SendBut, Wired, HostFields
<1> HIDE DEF h2
<1>2. Wired(h2)
  BY <1>1 DEF Wired
<1>3. ASSUME NEW c \in Conns PROVE ConnStep(S, w, h, h2, c) /\ IsList(h2.down[c])
  <2>1. Extends(S, w, h.down[c], Put(h.down[c], <<m>>)) /\ Extends(S, w, h.down[c], h.down[c])
    BY OneMessage, ExtendsPut, ExtendsSelf DEF Lists
  <2>2. h2.down[c] = h.down[c] \/ (IsSeated(h, c) /\ h2.down[c] = Put(h.down[c], <<m>>))
    BY <1>1
  <2>3. IsSeated(h, c) => h.line[c] # "none"
    BY DEF IsSeated
  <2>4. ConnStep(S, w, h, h2, c)
    BY <1>1, <2>1, <2>2, <2>3 DEF ConnStep
  <2>5. IsList(h2.down[c])
    BY <2>4, ExtendsList DEF ConnStep, Lists
  <2>6. QED
    BY <2>4, <2>5
<1>4. QED
  BY <1>1, <1>2, <1>3 DEF Moves, Lists, Same, h2

LEMMA FinNew ==
  ASSUME NEW S, NEW w
  PROVE  NewDown(S, w, Fin) /\ Fin.type = "Fin"
<1>1. Fin.type = "Fin"
  BY DEF Fin, Msg
<1>2. QED
  BY <1>1, PlainNew DEF Plain

LEMMA DisconnectIs ==
  ASSUME NEW h, Wired(h), NEW conns
  PROVE  /\ Wired(Disconnect(h, conns)) /\ Same(h, Disconnect(h, conns))
         /\ \A c \in conns \cap Conns :
              Disconnect(h, conns).line[c] = "gone" /\ Disconnect(h, conns).up[c] = <<>>
         /\ \A c \in Conns \ conns :
              Disconnect(h, conns).line[c] = h.line[c] /\ Disconnect(h, conns).up[c] = h.up[c]
         /\ \A c \in Conns : Disconnect(h, conns).down[c] =
              IF c \in conns THEN Put(h.down[c], <<Fin>>) ELSE h.down[c]
<1> DEFINE h2 == Disconnect(h, conns)
<1>1. /\ DOMAIN h2 = HostFields
      /\ h2.line = [c \in Conns |-> IF c \in conns THEN "gone" ELSE h.line[c]]
      /\ h2.up = [c \in Conns |-> IF c \in conns THEN <<>> ELSE h.up[c]]
      /\ h2.down = [c \in Conns |-> IF c \in conns THEN Put(h.down[c], <<Fin>>) ELSE h.down[c]]
      /\ h2.session = h.session /\ h2.waiting = h.waiting
      /\ h2.quiet = h.quiet /\ h2.outbox = h.outbox
  BY Zenon DEF Disconnect, Wired, HostFields
<1> HIDE DEF h2
<1>2. Wired(h2) /\ Same(h, h2)
  BY <1>1 DEF Wired, Same
<1>3. /\ \A c \in conns \cap Conns : h2.line[c] = "gone" /\ h2.up[c] = <<>>
      /\ \A c \in Conns \ conns : h2.line[c] = h.line[c] /\ h2.up[c] = h.up[c]
      /\ \A c \in Conns : h2.down[c] = IF c \in conns THEN Put(h.down[c], <<Fin>>) ELSE h.down[c]
  BY <1>1
<1>4. QED
  BY <1>2, <1>3 DEF h2

LEMMA DisconnectMoves ==
  ASSUME NEW S, NEW w, NEW h, Wired(h), Lists(h), NEW conns, \A c \in conns : h.line[c] # "none"
  PROVE  Moves(S, w, h, Disconnect(h, conns))
<1> DEFINE h2 == Disconnect(h, conns)
<1>1. /\ Wired(h2) /\ Same(h, h2)
      /\ \A c \in conns \cap Conns : h2.line[c] = "gone" /\ h2.up[c] = <<>>
      /\ \A c \in Conns \ conns : h2.line[c] = h.line[c] /\ h2.up[c] = h.up[c]
      /\ \A c \in Conns : h2.down[c] = IF c \in conns THEN Put(h.down[c], <<Fin>>) ELSE h.down[c]
  BY DisconnectIs
<1> HIDE DEF h2
<1>3. ASSUME NEW c \in Conns PROVE ConnStep(S, w, h, h2, c) /\ IsList(h2.down[c])
  <2>1. Extends(S, w, h.down[c], Put(h.down[c], <<Fin>>)) /\ Extends(S, w, h.down[c], h.down[c])
    BY OneMessage, FinNew, ExtendsPut, ExtendsSelf DEF Lists
  <2>2. ConnStep(S, w, h, h2, c)
    BY <1>1, <2>1 DEF ConnStep
  <2>3. IsList(h2.down[c])
    BY <2>2, ExtendsList DEF ConnStep, Lists
  <2>4. QED
    BY <2>2, <2>3
<1>4. QED
  BY <1>1, <1>3 DEF Moves, Lists, h2

LEMMA PolledMoves ==
  ASSUME NEW S, NEW w, NEW h, Wired(h), Lists(h)
  PROVE  /\ Moves(S, w, h, Polled(h)) /\ Same(h, Polled(h))
         /\ Polled(h).up = h.up /\ Polled(h).down = h.down
         /\ \A c \in Conns : /\ h.line[c] \notin {"connecting", "accepted"} => Polled(h).line[c] = h.line[c]
                             /\ h.line[c] \in {"connecting", "accepted"} =>
                                  Polled(h).line[c] \in {"accepted", "stranger"}
<1> DEFINE h2 == Polled(h)
           f(c) == CASE h.line[c] = "accepted" -> "stranger"
                     [] h.line[c] = "connecting" -> "accepted"
                     [] OTHER -> h.line[c]
<1>1. /\ DOMAIN h2 = HostFields /\ h2.up = h.up /\ h2.down = h.down
      /\ h2.line = [c \in Conns |-> f(c)]
      /\ h2.session = h.session /\ h2.waiting = h.waiting
      /\ h2.quiet = h.quiet /\ h2.outbox = h.outbox
  BY Zenon DEF Polled, Wired, HostFields
<1> HIDE DEF h2
<1>2. Wired(h2) /\ Lists(h2)
  BY <1>1 DEF Wired, Lists
<1>3. \A c \in Conns : /\ h.line[c] \notin {"connecting", "accepted"} => h2.line[c] = h.line[c]
                       /\ h.line[c] \in {"connecting", "accepted"} =>
                            h2.line[c] \in {"accepted", "stranger"}
  BY <1>1
<1>4. ASSUME NEW c \in Conns PROVE ConnStep(S, w, h, h2, c)
  <2>1. Extends(S, w, h.down[c], h2.down[c])
    BY <1>1, ExtendsSelf DEF Lists
  <2>2. QED
    BY <1>1, <1>3, <2>1 DEF ConnStep
<1>5. QED
  BY <1>1, <1>2, <1>3, <1>4 DEF Moves, Same, h2

(***************************************************************************)
(* What a joiner's state is to the host, kept by whatever the host does    *)
(* but hear a packet, hear a knock, and seat.                              *)
(***************************************************************************)
LEMMA CurConn ==
  ASSUME NEW j \in Joiners, NEW v, v.conn \in 0 .. MaxConn
  PROVE  Cur(j, v) \in Conns /\ Cur(j, v) \in ConnsOf(j) /\ Cur(j, v)[2] = v.conn
BY DEF Cur, Conns, ConnsOf, SlotOf

LEMMA UpMoves ==
  ASSUME NEW S, NEW w, NEW h, NEW h2, NEW c, ConnStep(S, w, h, h2, c),
         NEW j, UpOK(h.up[c], j, h.line[c])
  PROVE  UpOK(h2.up[c], j, h2.line[c])
<1>1. CASE h2.line[c] = h.line[c] /\ h2.up[c] = h.up[c]
  BY <1>1
<1>2. CASE /\ h.line[c] \in {"connecting", "accepted"} /\ h2.line[c] \in {"accepted", "stranger"}
           /\ h2.up[c] = h.up[c]
  <2>1. h.line[c] # "seated" /\ h2.line[c] \notin {"rejoining", "seated"}
    BY <1>2
  <2>2. QED
    BY <1>2, <2>1 DEF UpOK
<1>3. CASE h2.up[c] = <<>>
  <2>1. IsList(<<>>) /\ DOMAIN <<>> = {}
    BY EmptySeq DEF IsList
  <2>2. QED
    BY <1>3, <2>1 DEF UpOK
<1>4. QED
  BY <1>1, <1>2, <1>3 DEF ConnStep

\* What is not there before is one of the messages put.
LEMMA ExtendsMembers ==
  ASSUME NEW S, NEW w, NEW q, IsList(q), NEW r, Extends(S, w, q, r), NEW i \in DOMAIN r
  PROVE  \/ i \in DOMAIN q /\ r[i] = q[i]
         \/ NewDown(S, w, r[i])
<1>1. PICK a : IsList(a) /\ r = q \o a /\ \A k \in DOMAIN a : NewDown(S, w, a[k])
  BY DEF Extends
<1>2. \/ i \in DOMAIN q /\ r[i] = q[i]
      \/ i - Len(q) \in DOMAIN a /\ r[i] = a[i - Len(q)]
  BY <1>1, ListConcat
<1>3. QED
  BY <1>1, <1>2

\* A joiner has run no tick that the host has not sealed.
LEMMA BehindHost ==
  ASSUME NEW S, NEW w, HostOK(S, w), NEW j \in Joiners, NEW v, Sound(v.session, j),
         HeardOK(S, w, j, v)
  PROVE  /\ v.session.tick <= S.nextSeal
         /\ \A p \in v.session.inbox : p.from = Host => p.tick < S.nextSeal
<1>1. S.nextSeal \in Nat /\ S.tick \in Nat /\ S.tick <= S.nextSeal /\ S.retired[Host] = None
  BY DEF HostOK, Sound
<1>2. Host \in Slots /\ Host # j
  BY LiveAssumption DEF Joiners
<1>3. ASSUME NEW t \in Nat, HasSaid(S, Host, t) PROVE t < S.nextSeal
  <2>1. \A p \in S.inbox : p.from = Host => p.tick < S.nextSeal
    BY DEF HostOK, Sound, InboxOK
  <2>2. QED
    BY <1>1, <1>3, <2>1 DEF HasSaid, HasPacket
<1>4. v.session.tick <= S.nextSeal
  <2>1. v.session.tick \in Nat
    BY DEF Sound
  <2>2. CASE v.session.tick = 0
    BY <1>1, <2>2
  <2>3. CASE v.session.tick # 0
    <3> DEFINE t == v.session.tick - 1
    <3>1. t \in Nat /\ t < v.session.tick
      BY <2>1, <2>3
    <3> HIDE DEF t
    <3>2. HasSaid(S, Host, t)
      BY <1>1, <1>2, <3>1 DEF HeardOK, Settled
    <3>3. t < S.nextSeal
      BY <1>3, <3>1, <3>2
    <3>4. QED
      BY <1>1, <2>1, <3>3 DEF t
  <2>4. QED
    BY <2>2, <2>3
<1>5. ASSUME NEW p \in v.session.inbox, p.from = Host PROVE p.tick < S.nextSeal
  <2>1. AsSaid(S, w, p)
    BY <1>2, <1>5 DEF HeardOK
  <2>2. QED
    BY <1>3, <1>5, <2>1 DEF AsSaid, PacketOK
<1>6. QED
  BY <1>4, <1>5

LEMMA AheadExtends ==
  ASSUME NEW S, NEW w, HostOK(S, w), NEW j \in Joiners, NEW v, Sound(v.session, j),
         HeardOK(S, w, j, v), NEW q, IsList(q), AheadOK(v, q), NEW r, Extends(S, w, q, r)
  PROVE  AheadOK(v, r)
<1>1. ASSUME NEW i \in DOMAIN r, r[i].type = "ResyncAt", NewDown(S, w, r[i])
      PROVE  /\ v.session.tick <= r[i].tick + 1
             /\ \A p \in v.session.inbox : p.from = Host => p.tick <= r[i].tick
  <2>1. r[i].tick \in Nat /\ S.nextSeal <= r[i].tick + 1
    BY <1>1 DEF NewDown, DownGood
  <2>2. S.nextSeal \in Nat /\ v.session.tick \in Nat
    BY DEF HostOK, Sound
  <2>3. v.session.tick <= S.nextSeal
    BY BehindHost
  <2>4. \A p \in v.session.inbox : p.tick \in Nat /\ (p.from = Host => p.tick < S.nextSeal)
    BY BehindHost DEF Sound, InboxOK, PacketOK
  <2>5. QED
    BY <2>1, <2>2, <2>3, <2>4
<1>2. QED
  BY <1>1, ExtendsMembers DEF AheadOK

\* What the host hears next of j is what it was to hear next.
SameDue(S, S2, j) ==
  S2.retired[j] = None =>
    Due(S2, j) = Due(S, j) /\ \A t \in Nat : HasSaid(S2, j, t) => HasSaid(S, j, t)

LEMMA SaysKept ==
  ASSUME NEW S, NEW w, NEW S2, NEW w2, Grows(S, w, S2, w2), NEW j \in Joiners,
         NEW v, HeardOK(S, w, j, v), Due(S2, j) = Due(S, j),
         \A t \in Nat : HasSaid(S2, j, t) => HasSaid(S, j, t),
         NEW on, NEW q, UpOK(q, j, on), SaysOK(S, w, j, v, on, q),
         NEW on2, NEW q2, \/ on2 = on /\ q2 = q
                          \/ on2 # "seated" /\ q2 = <<>>
  PROVE  SaysOK(S2, w2, j, v, on2, q2)
<1>1. j \in Slots
  BY DEF Joiners
<1>2. \A t \in Nat : HasSaid(S2, j, t) => OwnIs(S2, w2, j, v, t, Said(S2, w2, j, t))
  <2>1. TAKE t \in Nat
  <2>2. HAVE HasSaid(S2, j, t)
  <2>3. HasSaid(S, j, t)
    BY <2>2
  <2>4. Said(S2, w2, j, t) = Said(S, w, j, t)
    BY <1>1, <2>3 DEF Grows, Settled
  <2>5. OwnIs(S, w, j, v, t, Said(S2, w2, j, t))
    BY <2>3, <2>4 DEF SaysOK
  <2>6. QED
    BY <2>5, GrowsOwn
<1>3. CASE on2 = on /\ q2 = q
  <2>1. ASSUME NEW i \in DOMAIN q, IsTick(q[i])
        PROVE  /\ q[i].packet.tick < v.session.nextSeal
               /\ OwnIs(S2, w2, j, v, q[i].packet.tick, q[i].packet.commands)
    <3>1. q[i].packet.tick \in Nat
      BY <2>1 DEF UpOK, PacketOK
    <3>2. /\ q[i].packet.tick < v.session.nextSeal
          /\ OwnIs(S, w, j, v, q[i].packet.tick, q[i].packet.commands)
      BY <2>1 DEF SaysOK
    <3>3. QED
      BY <3>1, <3>2, GrowsOwn
  <2>2. QED
    BY <1>2, <1>3, <2>1 DEF SaysOK
<1>4. CASE on2 # "seated" /\ q2 = <<>>
  <2>1. DOMAIN q2 = {}
    BY <1>4
  <2>2. QED
    BY <1>2, <1>4, <2>1 DEF SaysOK
<1>5. QED
  BY <1>3, <1>4

LEMMA SeatKept ==
  ASSUME NEW h, NEW w, NEW h2, NEW w2, HostOK(h2.session, w2),
         Grows(h.session, w, h2.session, w2),
         NEW j \in Joiners, \A c \in ConnsOf(j) : ConnStep(h2.session, w2, h, h2, c),
         NEW v, SeatOK(h, w, j, v),
         SameDue(h.session, h2.session, j),
         h2.session.retired[j] = None => LinesOK(h2, j)
  PROVE  SeatOK(h2, w2, j, v)
<1> DEFINE S == h.session
           S2 == h2.session
           k == Cur(j, v)
<1>1. AlwaysOK(S2, w2, j, v) /\ Sound(v.session, j) /\ v.conn \in 0 .. MaxConn
  BY GrowsAlways DEF SeatOK, AlwaysOK
<1>2. k \in Conns /\ k \in ConnsOf(j)
  BY <1>1, CurConn
<1>3. \A c \in ConnsOf(j) : ConnStep(S2, w2, h, h2, c) /\ ConnOK(h, w, j, v, c)
  BY DEF SeatOK
<1>4. \A c \in ConnsOf(j) : IsList(h.down[c]) /\ IsList(h.up[c])
  BY <1>3 DEF ConnOK, DownOK, UpOK
<1>5. ASSUME NEW c \in ConnsOf(j) PROVE ConnOK(h2, w2, j, v, c)
  <2>1. ConnStep(S2, w2, h, h2, c) /\ ConnOK(h, w, j, v, c)
    BY <1>3
  <2>2. UpOK(h2.up[c], j, h2.line[c])
    BY <2>1, UpMoves DEF ConnOK
  <2>3. DownOK(S2, w2, h2.down[c])
    BY <2>1, DownExtends DEF ConnStep, ConnOK
  <2>4. /\ h2.line[c] \in {"none", "connecting", "accepted", "stranger", "rejoining", "seated", "gone"}
        /\ c[2] = 0 => h2.line[c] \in {"seated", "gone"}
        /\ c[2] > v.conn <=> h2.line[c] = "none"
        /\ h2.line[c] = "none" => h2.up[c] = <<>> /\ h2.down[c] = <<>>
        /\ h2.line[c] = "gone" => h2.up[c] = <<>>
    BY <2>1 DEF ConnStep, ConnOK
  <2>5. QED
    BY <2>2, <2>3, <2>4 DEF ConnOK
<1>6. h2.up[k] = h.up[k] \/ h2.up[k] = <<>>
  BY <1>2, <1>3 DEF ConnStep
<1>7. DOMAIN <<>> = {}
  OBVIOUS
<1>8. ASSUME v.phase = "playing" PROVE PlayOK(h2, w2, j, v) /\ HeardOK(S, w, j, v)
  <2>1. HeardOK(S, w, j, v) /\ AheadOK(v, h.down[k]) /\ OnlyTicks(h.up[k])
    BY <1>8 DEF SeatOK, PlayOK
  <2>2. HeardOK(S2, w2, j, v)
    BY <2>1, GrowsHeard
  <2>3. AheadOK(v, h2.down[k])
    BY <1>1, <1>2, <1>3, <1>4, <2>1, <2>2, AheadExtends DEF ConnStep
  <2>4. OnlyTicks(h2.up[k])
    BY <1>6, <1>7, <2>1 DEF OnlyTicks
  <2>5. QED
    BY <2>1, <2>2, <2>3, <2>4 DEF PlayOK
<1>9. v.phase = "knocking" => OnlyJoins(h2.up[k])
  BY <1>6, <1>7 DEF SeatOK, OnlyJoins
<1>10. \A i \in DOMAIN h2.down[k] : h2.down[k][i].type = "Rejoin" =>
         i \in DOMAIN h.down[k] /\ h2.down[k][i] = h.down[k][i]
  <2>1. Extends(S2, w2, h.down[k], h2.down[k]) /\ IsList(h.down[k])
    BY <1>2, <1>3, <1>4 DEF ConnStep
  <2>2. TAKE i \in DOMAIN h2.down[k]
  <2>3. HAVE h2.down[k][i].type = "Rejoin"
  <2>4. ~NewDown(S2, w2, h2.down[k][i])
    BY <2>3 DEF NewDown
  <2>5. QED
    BY <2>1, <2>4, ExtendsMembers
<1>11. InPlay(h2, j, v) => InPlay(h, j, v)
  BY <1>10 DEF InPlay, Rejoining
<1>12. InPlay(h2, j, v) => h2.line[k] \in {"seated", "gone"}
  <2>1. HAVE InPlay(h2, j, v)
  <2>2. h.line[k] \in {"seated", "gone"}
    BY <1>11, <2>1 DEF SeatOK
  <2>3. ConnStep(S2, w2, h, h2, k)
    BY <1>2, <1>3
  <2>4. QED
    BY <2>2, <2>3 DEF ConnStep
<1>13. ASSUME S2.retired[j] = None PROVE FreeOK(h2, w2, j, v)
  <2>1. S.retired[j] = None
    BY <1>13 DEF Grows, Joiners
  <2>2. FreeOK(h, w, j, v) /\ Due(S2, j) = Due(S, j)
        /\ \A t \in Nat : HasSaid(S2, j, t) => HasSaid(S, j, t)
    BY <1>13, <2>1 DEF SeatOK, SameDue
  <2>3. \A c \in ConnsOf(j) : h2.up[c] = h.up[c] \/ h2.up[c] = <<>>
    BY <1>3 DEF ConnStep
  <2>4. AlignedOK(h2, j)
    BY <1>7, <2>2, <2>3 DEF FreeOK, AlignedOK
  <2>5. InPlay(h2, j, v) => OnlyCur(h2, j, v)
    BY <1>7, <1>11, <2>2, <2>3 DEF FreeOK, OnlyCur
  <2>6. v.phase = "knocking" => KnockedOK(h2, j, v)
    BY <1>10, <2>2 DEF FreeOK, KnockedOK
  <2>7. v.phase = "playing" => SaysOK(S2, w2, j, v, h2.line[k], h2.up[k])
    <3>1. HAVE v.phase = "playing"
    <3>2. HeardOK(S, w, j, v) /\ SaysOK(S, w, j, v, h.line[k], h.up[k])
      BY <1>8, <2>2, <3>1 DEF FreeOK
    <3>3. UpOK(h.up[k], j, h.line[k]) /\ ConnStep(S2, w2, h, h2, k)
      BY <1>2, <1>3 DEF ConnOK
    <3>4. h.line[k] \in {"seated", "gone"}
      BY <3>1 DEF SeatOK, InPlay
    <3>5. \/ h2.line[k] = h.line[k] /\ h2.up[k] = h.up[k]
          \/ h2.line[k] # "seated" /\ h2.up[k] = <<>>
      BY <3>3, <3>4 DEF ConnStep
    <3>6. QED
      BY <2>2, <3>2, <3>3, <3>5, SaysKept
  <2>8. QED
    BY <1>13, <2>4, <2>5, <2>6, <2>7 DEF FreeOK
<1>14. QED
  BY <1>1, <1>5, <1>8, <1>9, <1>12, <1>13 DEF SeatOK

(***************************************************************************)
(* The whole game, kept by a step of the host's that hears nobody's packet *)
(* or knock and seats nobody.                                              *)
(***************************************************************************)
LEMMA ConnsAre ==
  ASSUME NEW c \in Conns
  PROVE  SlotOf(c) \in Joiners /\ c \in ConnsOf(SlotOf(c))
BY DEF Conns, SlotOf, ConnsOf

LEMMA GameLists ==
  ASSUME NEW h, NEW w, NEW J, GameOK(h, w, J)
  PROVE  /\ Wired(h) /\ Lists(h) /\ Sound(h.session, Host) /\ HostOK(h.session, w)
         /\ h.session.tick \in Nat
         /\ \A c \in Conns : IsList(h.up[c]) /\ ConnOK(h, w, SlotOf(c), J[SlotOf(c)], c)
<1>1. ASSUME NEW c \in Conns PROVE ConnOK(h, w, SlotOf(c), J[SlotOf(c)], c)
  <2>1. SlotOf(c) \in Joiners /\ c \in ConnsOf(SlotOf(c))
    BY ConnsAre
  <2>2. SeatOK(h, w, SlotOf(c), J[SlotOf(c)])
    BY <2>1 DEF GameOK
  <2>3. QED
    BY <2>1, <2>2 DEF SeatOK
<1>2. \A c \in Conns : IsList(h.down[c]) /\ IsList(h.up[c])
  BY <1>1 DEF ConnOK, DownOK, UpOK
<1>3. Wired(h) /\ HostOK(h.session, w)
  BY DEF GameOK
<1>4. Sound(h.session, Host) /\ h.session.tick \in Nat
  BY <1>3 DEF HostOK, Sound
<1>5. QED
  BY <1>1, <1>2, <1>3, <1>4 DEF Lists

LEMMA HostKept ==
  ASSUME NEW h, NEW w, NEW J, GameOK(h, w, J),
         NEW h2, NEW w2, HostOK(h2.session, w2), Grows(h.session, w, h2.session, w2),
         Moves(h2.session, w2, h, h2),
         \A j \in Joiners : SameDue(h.session, h2.session, j),
         \A j \in Joiners : h2.session.retired[j] = None => LinesOK(h2, j),
         h2.waiting \subseteq Joiners, h2.quiet \subseteq Joiners, IsList(h2.outbox)
  PROVE  GameOK(h2, w2, J)
<1>1. ASSUME NEW j \in Joiners PROVE SeatOK(h2, w2, j, J[j])
  <2>1. \A c \in ConnsOf(j) : ConnStep(h2.session, w2, h, h2, c)
    BY DEF Moves, ConnsOf
  <2>2. SeatOK(h, w, j, J[j])
    BY DEF GameOK
  <2>3. SameDue(h.session, h2.session, j) /\ (h2.session.retired[j] = None => LinesOK(h2, j))
    OBVIOUS
  <2>4. QED
    BY <2>1, <2>2, <2>3, SeatKept
<1>2. QED
  BY <1>1 DEF GameOK, Moves

\* Lines that only close, or are looked at, keep a seat's.
Closing(h, h2, c) ==
  \/ h2.line[c] = h.line[c]
  \/ h2.line[c] \in {"accepted", "stranger", "gone"}

LEMMA LinesKept ==
  ASSUME NEW h, NEW j, LinesOK(h, j), NEW h2,
         \A c \in ConnsOf(j) : Closing(h, h2, c), j \in h2.waiting <=> j \in h.waiting
  PROVE  LinesOK(h2, j)
BY DEF LinesOK, Closing

LEMMA DueIs ==
  ASSUME NEW S, S.tick \in Nat, NEW x, NEW n \in Nat, Upto(S, x, n)
  PROVE  Due(S, x) = n
<1>1. \E m \in Nat : Upto(S, x, m)
  OBVIOUS
<1>2. Due(S, x) \in Nat /\ Upto(S, x, Due(S, x))
  BY <1>1 DEF Due
<1>3. QED
  BY <1>2, UptoUnique

LEMMA SameSaid ==
  ASSUME NEW S, NEW S2, S2.tick = S.tick, S2.inbox = S.inbox
  PROVE  /\ \A x, t : HasPacket(S2, x, t) <=> HasPacket(S, x, t)
         /\ \A x, t : HasSaid(S2, x, t) <=> HasSaid(S, x, t)
         /\ \A w, x, t : Said(S2, w, x, t) = Said(S, w, x, t)
         /\ \A x, n : Upto(S2, x, n) <=> Upto(S, x, n)
BY DEF HasSaid, HasPacket, Said, Upto

LEMMA LikeHost ==
  ASSUME NEW S, NEW w, HostOK(S, w), NEW S2, Sound(S2, Host),
         S2.tick = S.tick, S2.nextSeal = S.nextSeal, S2.inbox = S.inbox, S2.retired = S.retired,
         S2.barrier # None => S2.tick <= S2.barrier + 1
  PROVE  /\ HostOK(S2, w) /\ Grows(S, w, S2, w)
         /\ \A j \in Joiners : SameDue(S, S2, j)
<1>1. /\ S.tick \in Nat /\ S2.tick = S.tick /\ S2.nextSeal = S.nextSeal /\ S2.retired = S.retired
  BY DEF HostOK, Sound
<1>2. Grows(S, w, S2, w)
  BY <1>1, SameSaid DEF Grows
<1>3. \A x \in Slots : Due(S2, x) = Due(S, x) /\ Due(S2, x) \in Nat /\ Upto(S2, x, Due(S2, x))
  <2>1. TAKE x \in Slots
  <2>2. Due(S, x) \in Nat /\ Upto(S, x, Due(S, x))
    BY DEF HostOK
  <2>3. Upto(S2, x, Due(S, x))
    BY <2>2, SameSaid
  <2>4. QED
    BY <1>1, <2>2, <2>3, DueIs
<1>5. TrueWorld(S2, w, w, S2.tick)
  BY <1>1, <1>2, GrowsTrueWorld DEF HostOK
<1>6. ASSUME NEW x \in Slots, S2.retired[x] # None
      PROVE  /\ S2.retired[x] \in Nat
             /\ Ended(S2, w, x, S2.retired[x])
             /\ \A t \in Nat : S2.tick <= t /\ t < S2.retired[x] => HasPacket(S2, x, t)
  <2>1. S.retired[x] \in Nat /\ Ended(S, w, x, S.retired[x])
    BY <1>1, <1>6 DEF HostOK
  <2>2. Ended(S2, w, x, S2.retired[x])
    BY <1>1, <1>2, <2>1, GrowsEnded
  <2>3. \A t \in Nat : S2.tick <= t /\ t < S2.retired[x] => HasPacket(S2, x, t)
    BY <1>1, <1>6, SameSaid DEF HostOK
  <2>4. QED
    BY <1>1, <2>1, <2>2, <2>3
<1>7. HostOK(S2, w)
  <2>1. Host \in Slots
    BY LiveAssumption
  <2>2. Due(S2, Host) = S2.nextSeal /\ S2.tick <= MaxTick
    BY <1>1, <1>3, <2>1 DEF HostOK
  <2>3. QED
    BY <1>3, <1>5, <1>6, <2>2 DEF HostOK
<1>8. \A j \in Joiners : SameDue(S, S2, j)
  BY <1>3, SameSaid DEF SameDue, Joiners
<1>9. QED
  BY <1>2, <1>7, <1>8

LEMMA AlikeHost ==
  ASSUME NEW S, NEW w, HostOK(S, w), NEW S2, Alike(S, S2), IsList(S2.staged),
         S2.barrier \in Nat \union {None}, S2.barrier # None => S2.tick <= S2.barrier + 1
  PROVE  /\ HostOK(S2, w) /\ Grows(S, w, S2, w)
         /\ \A j \in Joiners : SameDue(S, S2, j)
<1>1. Sound(S2, Host)
  BY AlikeSound DEF HostOK
<1>2. QED
  BY <1>1, LikeHost DEF Alike

LEMMA AlikeMoves ==
  ASSUME NEW S, NEW w, NEW S2, Grows(S, w, S2, w), S2.nextSeal = S.nextSeal,
         NEW h, NEW h2, Moves(S, w, h, h2)
  PROVE  Moves(S2, w, h, h2)
<1>1. ASSUME NEW q, NEW r, Extends(S, w, q, r)
      PROVE  Extends(S2, w, q, r)
  <2>1. PICK a : IsList(a) /\ r = q \o a /\ \A i \in DOMAIN a : NewDown(S, w, a[i])
    BY <1>1 DEF Extends
  <2>2. \A i \in DOMAIN a : NewDown(S2, w, a[i])
    BY <2>1, GrowsDownGood DEF NewDown
  <2>3. QED
    BY <2>1, <2>2 DEF Extends
<1>2. QED
  BY <1>1 DEF Moves, ConnStep

\* Nothing is heard, and who is waited for is the same.
LEMMA AlikeKept ==
  ASSUME NEW h, NEW w, NEW J, GameOK(h, w, J), NEW h2,
         Alike(h.session, h2.session), IsList(h2.session.staged),
         h2.session.barrier \in Nat \union {None},
         h2.session.barrier # None => h2.session.tick <= h2.session.barrier + 1,
         Moves(h.session, w, h, h2),
         h2.waiting = h.waiting, h2.quiet \subseteq Joiners, IsList(h2.outbox)
  PROVE  GameOK(h2, w, J)
<1>1. HostOK(h.session, w) /\ h.waiting \subseteq Joiners
  BY DEF GameOK
<1>2. /\ HostOK(h2.session, w) /\ Grows(h.session, w, h2.session, w)
      /\ \A j \in Joiners : SameDue(h.session, h2.session, j)
  BY <1>1, AlikeHost
<1>3. \A j \in Joiners : h2.session.retired[j] = None => LinesOK(h2, j)
  <2>1. TAKE j \in Joiners
  <2>2. HAVE h2.session.retired[j] = None
  <2>3. LinesOK(h, j)
    BY <2>2 DEF Alike, GameOK, SeatOK, FreeOK
  <2>4. \A c \in ConnsOf(j) : Closing(h, h2, c)
    BY DEF Moves, ConnStep, Closing, ConnsOf
  <2>5. QED
    BY <2>3, <2>4, LinesKept
<1>4. Moves(h2.session, w, h, h2)
  BY <1>2, AlikeMoves DEF Alike
<1>5. QED
  BY <1>1, <1>2, <1>3, <1>4, HostKept

\* Only the connections change.
LEMMA SameKept ==
  ASSUME NEW h, NEW w, NEW J, GameOK(h, w, J), NEW h2, Same(h, h2), Moves(h.session, w, h, h2)
  PROVE  GameOK(h2, w, J)
<1>1. Sound(h.session, Host) /\ (h.session.barrier # None => h.session.tick <= h.session.barrier + 1)
  BY DEF GameOK, HostOK
<1>2. Alike(h.session, h2.session) /\ h2.session = h.session
  BY <1>1 DEF Same, Alike, Sound
<1>3. h2.waiting = h.waiting /\ h2.quiet \subseteq Joiners /\ IsList(h2.outbox)
  BY DEF Same, GameOK
<1>4. IsList(h.session.staged) /\ h.session.barrier \in Nat \union {None}
  BY <1>1 DEF Sound
<1>5. QED
  BY <1>1, <1>2, <1>3, <1>4, AlikeKept

(***************************************************************************)
(* The host's handlers that hear nobody's packet or knock, one by one.     *)
(***************************************************************************)
LEMMA PolledKept ==
  ASSUME NEW h, NEW w, NEW J, GameOK(h, w, J)
  PROVE  GameOK(Polled(h), w, J)
BY GameLists, PolledMoves, SameKept

\* A message for everyone, or for everyone but one.
LEMMA SendKept ==
  ASSUME NEW h, NEW w, NEW J, GameOK(h, w, J), NEW except, NEW m, NewDown(h.session, w, m)
  PROVE  GameOK(SendBut(h, except, m), w, J)
BY GameLists, SendMoves, SameKept

LEMMA DisconnectKept ==
  ASSUME NEW h, NEW w, NEW J, GameOK(h, w, J), NEW conns, \A c \in conns : h.line[c] # "none"
  PROVE  GameOK(Disconnect(h, conns), w, J)
BY GameLists, DisconnectMoves, DisconnectIs, SameKept

\* The game ends, whether or not a message has just been read from a connection.
LEMMA StopKept ==
  ASSUME NEW h, NEW w, NEW J, GameOK(h, w, J), NEW h1, Wired(h1), Same(h, h1),
         h1.line = h.line, h1.down = h.down,
         \A c \in Conns : h.line[c] = "none" => h1.up[c] = h.up[c], NEW reason
  PROVE  GameOK(Stop(h1, reason), w, J)
<1> DEFINE h2 == [h1 EXCEPT !.session = Halt(@, reason)]
           h3 == SendAll(h2, HaltMsg(reason))
           open == {c \in Conns : h1.line[c] # "none"}
           h4 == Disconnect(h3, open)
           S == h.session
<1>1. /\ Wired(h2) /\ h2.line = h.line /\ h2.down = h.down /\ h2.up = h1.up
      /\ h2.session = Halt(S, reason) /\ h2.waiting = h.waiting
      /\ h2.quiet = h.quiet /\ h2.outbox = h.outbox
  BY DEF Wired, HostFields, Same
<1>2. Stop(h1, reason) = h4
  BY DEF Stop
<1> HIDE DEF h2
<1>3. Lists(h) /\ HostOK(S, w) /\ Sound(S, Host)
  BY GameLists
<1>4. Lists(h2)
  BY <1>1, <1>3 DEF Lists
<1>5. NewDown(S, w, HaltMsg(reason))
  BY PlainNew DEF HaltMsg, Plain
<1>6. Moves(S, w, h2, h3) /\ Same(h2, h3) /\ h3.line = h2.line /\ h3.up = h2.up
  BY <1>1, <1>4, <1>5, SendMoves DEF SendAll
<1> HIDE DEF h3
<1>7. Wired(h3) /\ Lists(h3)
  BY <1>6 DEF Moves
<1>8. \A c \in open : h3.line[c] # "none"
  BY <1>1, <1>6
<1>9. /\ Moves(S, w, h3, h4) /\ Same(h3, h4)
      /\ \A c \in open \cap Conns : h4.line[c] = "gone" /\ h4.up[c] = <<>>
      /\ \A c \in Conns \ open : h4.line[c] = h3.line[c] /\ h4.up[c] = h3.up[c]
  <2> HIDE DEF open
  <2>1. Moves(S, w, h3, Disconnect(h3, open))
    BY <1>7, <1>8, DisconnectMoves
  <2>2. QED
    BY <1>7, <2>1, DisconnectIs
<1> HIDE DEF h4
<1>10. Moves(S, w, h2, h4)
  BY <1>4, <1>6, <1>9, MovesTrans
<1>11. ASSUME NEW c \in Conns PROVE ConnStep(S, w, h, h4, c)
  <2>1. ConnStep(S, w, h2, h4, c)
    BY <1>10 DEF Moves
  <2>2. /\ h.line[c] = "none" => h4.down[c] = h.down[c]
        /\ Extends(S, w, h.down[c], h4.down[c])
    BY <1>1, <2>1 DEF ConnStep
  <2>3. CASE h.line[c] = "none"
    <3>1. h4.line[c] = h.line[c] /\ h4.up[c] = h.up[c]
      BY <1>1, <1>6, <1>9, <2>3
    <3>2. QED
      BY <2>2, <3>1 DEF ConnStep
  <2>4. CASE h.line[c] # "none"
    <3>1. h4.line[c] = "gone" /\ h4.up[c] = <<>>
      BY <1>1, <1>9, <2>4
    <3>2. QED
      BY <2>2, <2>4, <3>1 DEF ConnStep
  <2>5. QED
    BY <2>3, <2>4
<1>12. Moves(S, w, h, h4)
  BY <1>10, <1>11 DEF Moves
<1>13. /\ h4.session = Halt(S, reason) /\ h4.waiting = h.waiting
       /\ h4.quiet = h.quiet /\ h4.outbox = h.outbox
  BY <1>1, <1>6, <1>9 DEF Same
<1>14. /\ Alike(S, h4.session) /\ h4.session.staged = S.staged /\ h4.session.barrier = S.barrier
  BY <1>3, <1>13, ResyncFields DEF Sound
<1>15. /\ IsList(S.staged) /\ S.barrier \in Nat \union {None} /\ h4.session.tick = S.tick
       /\ S.barrier # None => S.tick <= S.barrier + 1
  BY <1>3, <1>14 DEF Sound, HostOK, Alike
<1>16. h4.quiet \subseteq Joiners /\ IsList(h4.outbox)
  BY <1>13 DEF GameOK
<1>18. GameOK(h4, w, J)
  <2>1. /\ IsList(h4.session.staged) /\ h4.session.barrier \in Nat \union {None}
        /\ h4.session.barrier # None => h4.session.tick <= h4.session.barrier + 1
    BY <1>14, <1>15
  <2>2. QED
    BY <2>1, <1>12, <1>13, <1>14, <1>16, AlikeKept
<1>19. QED
  BY <1>2, <1>18

\* A seat that no connection is seated for is waited for.
LEMMA AwayKept ==
  ASSUME NEW h, NEW w, NEW J, GameOK(h, w, J), NEW slot \in Joiners,
         h.session.retired[slot] = None => \A c \in ConnsOf(slot) : h.line[c] # "seated"
  PROVE  GameOK(Away(h, slot), w, J)
<1> DEFINE S == h.session
           h1 == [h EXCEPT !.waiting = @ \union {slot}]
           m == SlotMsg("Away", slot)
           h2 == SendAll(h1, m)
<1>1. CASE Away(h, slot) = h
  BY <1>1
<1>2. CASE Away(h, slot) = h2
  <2>1. /\ Wired(h1) /\ h1.session = S /\ h1.waiting = h.waiting \union {slot}
        /\ h1.quiet = h.quiet /\ h1.outbox = h.outbox
        /\ h1.line = h.line /\ h1.up = h.up /\ h1.down = h.down
    BY GameLists DEF Wired, HostFields
  <2> HIDE DEF h1
  <2>2. Lists(h1)
    BY <2>1, GameLists DEF Lists
  <2>3. NewDown(S, w, m)
    BY DEF NewDown, DownGood, SlotMsg
  <2>4. Moves(S, w, h1, h2) /\ Same(h1, h2) /\ h2.line = h1.line /\ h2.up = h1.up
    BY <2>1, <2>2, <2>3, SendMoves DEF SendAll
  <2> HIDE DEF h2, m
  <2>5. Moves(S, w, h, h2)
    BY <2>1, <2>4, MovesFrom
  <2>6. /\ h2.session = S /\ h2.waiting = h.waiting \union {slot}
        /\ h2.quiet = h.quiet /\ h2.outbox = h.outbox /\ h2.line = h.line
    BY <2>1, <2>4 DEF Same
  <2>7. HostOK(h2.session, w) /\ Grows(S, w, h2.session, w)
    BY <2>6, GrowsSelf, GameLists
  <2>8. ASSUME NEW j \in Joiners PROVE SameDue(S, h2.session, j)
    BY <2>6 DEF SameDue
  <2>9. ASSUME NEW j \in Joiners, h2.session.retired[j] = None PROVE LinesOK(h2, j)
    <3>1. LinesOK(h, j)
      BY <2>6, <2>9 DEF GameOK, SeatOK, FreeOK
    <3>2. CASE j = slot
      BY <2>6, <2>9, <3>1, <3>2 DEF LinesOK
    <3>3. CASE j # slot
      BY <2>6, <3>1, <3>3 DEF LinesOK
    <3>4. QED
      BY <3>2, <3>3
  <2>10. h2.waiting \subseteq Joiners /\ h2.quiet \subseteq Joiners /\ IsList(h2.outbox)
    BY <2>6 DEF GameOK
  <2>11. Moves(h2.session, w, h, h2)
    BY <2>5, <2>6
  <2>12. GameOK(h2, w, J)
    BY <2>7, <2>8, <2>9, <2>10, <2>11, HostKept
  <2>13. QED
    BY <1>2, <2>12
<1>3. QED
  BY <1>1, <1>2 DEF Away

LEMMA ResyncTickIs ==
  ASSUME NEW S, Sound(S, Host)
  PROVE  ResyncTick(S) \in Nat /\ S.nextSeal <= ResyncTick(S) + 1 /\ S.tick <= ResyncTick(S) + 1
<1>1. S.nextSeal \in Nat /\ S.tick \in Nat /\ S.simulated = S.tick - 1 /\ S.tick <= S.nextSeal
  BY DEF Sound
<1>2. QED
  BY <1>1 DEF ResyncTick, Max2

LEMMA DivergedKept ==
  ASSUME NEW h, NEW w, NEW J, GameOK(h, w, J)
  PROVE  /\ GameOK(Diverged(h), w, J) /\ Diverged(h).line = h.line
         /\ Diverged(h).waiting = h.waiting /\ Diverged(h).quiet = h.quiet
<1> DEFINE S == h.session
           h1 == [h EXCEPT !.session = PlanResync(@)]
           m == [type |-> "ResyncAt", tick |-> ResyncTick(S)]
           h2 == SendAll(h1, m)
<1>1. CASE ~PlansResync(S)
  BY <1>1 DEF Diverged
<1>2. CASE PlansResync(S)
  <2>1. Diverged(h) = h2
    BY <1>2 DEF Diverged
  <2>2. /\ Wired(h1) /\ h1.session = ResyncAnnounced(S, ResyncTick(S)) /\ h1.waiting = h.waiting
        /\ h1.quiet = h.quiet /\ h1.outbox = h.outbox
        /\ h1.line = h.line /\ h1.up = h.up /\ h1.down = h.down
    BY <1>2, GameLists DEF Wired, HostFields, PlanResync
  <2>3. Lists(h) /\ Sound(S, Host) /\ HostOK(S, w)
    BY GameLists
  <2>4. ResyncTick(S) \in Nat /\ S.nextSeal <= ResyncTick(S) + 1 /\ S.tick <= ResyncTick(S) + 1
    BY <2>3, ResyncTickIs
  <2> HIDE DEF h1
  <2>5. Lists(h1)
    BY <2>2, <2>3 DEF Lists
  <2>6. NewDown(S, w, m)
    BY <2>4 DEF NewDown, DownGood
  <2>7. /\ Alike(S, h1.session) /\ h1.session.staged = S.staged /\ h1.session.barrier = ResyncTick(S)
    BY <2>2, <2>3, ResyncFields DEF Sound
  <2>9. Moves(S, w, h1, h2) /\ Same(h1, h2) /\ h2.line = h1.line /\ h2.up = h1.up
    BY <2>2, <2>5, <2>6, SendMoves DEF SendAll
  <2> HIDE DEF h2, m
  <2>10. Moves(S, w, h, h2)
    BY <2>2, <2>9, MovesFrom
  <2>11. /\ h2.session = h1.session /\ h2.waiting = h.waiting
         /\ h2.quiet = h.quiet /\ h2.outbox = h.outbox /\ h2.line = h.line
    BY <2>2, <2>9 DEF Same
  <2>12. /\ Alike(S, h2.session) /\ IsList(h2.session.staged)
         /\ h2.session.barrier = ResyncTick(S) /\ h2.session.tick = S.tick
    BY <2>3, <2>7, <2>11 DEF Sound, Alike
  <2>13. h2.quiet \subseteq Joiners /\ IsList(h2.outbox)
    BY <2>11 DEF GameOK
  <2>14. GameOK(h2, w, J)
    <3>1. /\ h2.session.barrier \in Nat \union {None}
          /\ h2.session.barrier # None => h2.session.tick <= h2.session.barrier + 1
      BY <2>4, <2>12
    <3>2. QED
      BY <2>10, <2>11, <2>12, <2>13, <3>1, AlikeKept
  <2>15. QED
    BY <2>1, <2>11, <2>14
<1>3. QED
  BY <1>1, <1>2

(***************************************************************************)
(* Seats taken one after the other.                                        *)
(***************************************************************************)
LEMMA TurnIs ==
  ASSUME NEW slots, IsList(slots), NEW x \in Range(slots)
  PROVE  Min({i \in DOMAIN slots : slots[i] = x}) \in DOMAIN slots
<1> DEFINE T == {i \in DOMAIN slots : slots[i] = x}
<1>1. DOMAIN slots \subseteq Nat
  BY ListDomain
<1>2. T \in SUBSET Nat /\ T # {}
  BY <1>1 DEF Range
<1>3. \E i \in T : \A k \in T : i <= k
  BY <1>2, LeastOf
<1> HIDE DEF T
<1>4. Min(T) \in T
  BY <1>3 DEF Min
<1>5. QED
  BY <1>4 DEF T

LEMMA InTurnIs ==
  ASSUME NEW h, Wired(h), NEW slots, NEW last, NEW msg
  PROVE  /\ Wired(InTurn(h, slots, msg, last)) /\ Same(h, InTurn(h, slots, msg, last))
         /\ \A c \in Conns : h.line[c] = "seated" /\ SlotOf(c) \in Range(slots) =>
              InTurn(h, slots, msg, last).line[c] = "gone"
         /\ \A c \in Conns : ~(h.line[c] = "seated" /\ SlotOf(c) \in Range(slots)) =>
              InTurn(h, slots, msg, last).line[c] = h.line[c]
<1> DEFINE closes == {c \in Conns : h.line[c] = "seated" /\ SlotOf(c) \in Range(slots)}
           turn(c) == Min({i \in DOMAIN slots : slots[i] = SlotOf(c)})
           told(n) == [i \in 1 .. n |-> msg[slots[i]]]
           heard == [h EXCEPT !.down = [c \in Conns |->
                       IF c \in closes THEN Put(@[c], told(turn(c) + last - 1))
                       ELSE IF IsSeated(h, c) THEN Put(@[c], told(Len(slots))) ELSE @[c]]]
<1>1. InTurn(h, slots, msg, last) = Disconnect(heard, closes)
  BY Zenon DEF InTurn
<1>2. /\ Wired(heard) /\ heard.session = h.session /\ heard.waiting = h.waiting
      /\ heard.quiet = h.quiet /\ heard.outbox = h.outbox /\ heard.line = h.line
  BY Zenon DEF Wired, HostFields
<1> HIDE DEF heard
<1>3. /\ Wired(Disconnect(heard, closes)) /\ Same(heard, Disconnect(heard, closes))
      /\ \A c \in closes : Disconnect(heard, closes).line[c] = "gone"
      /\ \A c \in Conns \ closes : Disconnect(heard, closes).line[c] = heard.line[c]
  BY <1>2, DisconnectIs
<1>4. Same(h, Disconnect(heard, closes))
  BY <1>2, <1>3 DEF Same
<1>5. QED
  BY <1>1, <1>2, <1>3, <1>4

LEMMA InTurnMoves ==
  ASSUME NEW S, NEW w, NEW h, Wired(h), Lists(h), NEW slots, IsList(slots),
         NEW last \in {0, 1}, NEW msg, \A x \in Range(slots) : NewDown(S, w, msg[x])
  PROVE  Moves(S, w, h, InTurn(h, slots, msg, last))
<1> DEFINE closes == {c \in Conns : h.line[c] = "seated" /\ SlotOf(c) \in Range(slots)}
           turn(c) == Min({i \in DOMAIN slots : slots[i] = SlotOf(c)})
           told(n) == [i \in 1 .. n |-> msg[slots[i]]]
           heard == [h EXCEPT !.down = [c \in Conns |->
                       IF c \in closes THEN Put(@[c], told(turn(c) + last - 1))
                       ELSE IF IsSeated(h, c) THEN Put(@[c], told(Len(slots))) ELSE @[c]]]
<1>1. InTurn(h, slots, msg, last) = Disconnect(heard, closes)
  BY Zenon DEF InTurn
<1>2. Wired(heard) /\ heard.line = h.line /\ heard.up = h.up
  BY Zenon DEF Wired, HostFields
<1>3. heard.down = [c \in Conns |->
                       IF c \in closes THEN Put(h.down[c], told(turn(c) + last - 1))
                       ELSE IF IsSeated(h, c) THEN Put(h.down[c], told(Len(slots))) ELSE h.down[c]]
  BY Zenon DEF Wired, HostFields
<1> HIDE DEF heard
<1>4. Len(slots) \in Nat /\ DOMAIN slots = 1 .. Len(slots)
  BY ListDomain
<1>5. ASSUME NEW n \in 0 .. Len(slots)
      PROVE  IsList(told(n)) /\ \A i \in DOMAIN told(n) : NewDown(S, w, told(n)[i])
  <2>1. n \in Nat /\ n <= Len(slots)
    BY <1>4
  <2>2. IsList(told(n))
    BY <2>1, ListOf
  <2>3. \A i \in 1 .. n : slots[i] \in Range(slots)
    BY <1>4, <2>1 DEF Range
  <2>4. QED
    BY <2>2, <2>3
<1>6. ASSUME NEW c \in closes PROVE turn(c) + last - 1 \in 0 .. Len(slots)
  <2>1. turn(c) \in DOMAIN slots
    BY TurnIs
  <2> HIDE DEF turn
  <2>2. QED
    BY <1>4, <2>1
<1>7. ASSUME NEW c \in Conns PROVE ConnStep(S, w, h, heard, c) /\ IsList(heard.down[c])
  <2>1. IsList(h.down[c])
    BY DEF Lists
  <2>2. Extends(S, w, h.down[c], heard.down[c])
    <3>1. CASE c \in closes
      <4> DEFINE n == turn(c) + last - 1
      <4>1. n \in 0 .. Len(slots)
        BY <1>6, <3>1
      <4> HIDE DEF n
      <4>2. Extends(S, w, h.down[c], Put(h.down[c], told(n)))
        BY <1>5, <2>1, <4>1, ExtendsPut
      <4>3. QED
        BY <1>3, <3>1, <4>2 DEF n
    <3>2. CASE c \notin closes /\ IsSeated(h, c)
      <4> DEFINE n == Len(slots)
      <4>1. n \in 0 .. Len(slots)
        BY <1>4
      <4> HIDE DEF n
      <4>2. Extends(S, w, h.down[c], Put(h.down[c], told(n)))
        BY <1>5, <2>1, <4>1, ExtendsPut
      <4>3. QED
        BY <1>3, <3>2, <4>2 DEF n
    <3>3. CASE c \notin closes /\ ~IsSeated(h, c)
      BY <1>3, <2>1, <3>3, ExtendsSelf
    <3>4. QED
      BY <3>1, <3>2, <3>3
  <2>3. h.line[c] = "none" => heard.down[c] = h.down[c]
    BY <1>3 DEF IsSeated
  <2>4. IsList(heard.down[c])
    BY <2>1, <2>2, ExtendsList
  <2>5. QED
    BY <1>2, <2>2, <2>3, <2>4 DEF ConnStep
<1>8. Moves(S, w, h, heard) /\ Lists(heard)
  BY <1>2, <1>7 DEF Moves, Lists
<1>9. \A c \in closes : heard.line[c] # "none"
  BY <1>2
<1> HIDE DEF closes
<1>10. Moves(S, w, heard, Disconnect(heard, closes))
  BY <1>2, <1>8, <1>9, DisconnectMoves
<1>11. QED
  BY <1>1, <1>8, <1>10, MovesTrans

(***************************************************************************)
(* Seats handed to the computer: each is retired after what it has said.   *)
(***************************************************************************)
LEMMA DueSays ==
  ASSUME NEW S, NEW w, HostOK(S, w), NEW x \in Slots
  PROVE  /\ Due(S, x) \in Nat /\ S.tick <= Due(S, x) /\ S.tick \in Nat
         /\ \A t \in Nat : HasSaid(S, x, t) <=> t < Due(S, x)
         /\ \A t \in Nat : t >= Due(S, x) => Said(S, w, x, t) = {}
<1>1. Due(S, x) \in Nat /\ Upto(S, x, Due(S, x)) /\ S.tick \in Nat
  BY DEF HostOK, Sound
<1>2. /\ S.tick <= Due(S, x)
      /\ \A t \in Nat : t >= S.tick => (HasPacket(S, x, t) <=> t < Due(S, x))
  BY <1>1 DEF Upto
<1> DEFINE n == Due(S, x)
<1> HIDE DEF n
<1>3. \A p \in S.inbox : p.tick \in Nat /\ S.tick <= p.tick
  BY DEF HostOK, Sound, InboxOK, PacketOK
<1>4. n \in Nat /\ S.tick <= n /\ \A t \in Nat : t >= S.tick => (HasPacket(S, x, t) <=> t < n)
  BY <1>1, <1>2 DEF n
<1>5. ASSUME NEW t \in Nat PROVE HasSaid(S, x, t) <=> t < n
  <2>1. CASE t < S.tick
    BY <1>1, <1>4, <2>1 DEF HasSaid
  <2>2. CASE t >= S.tick
    <3>1. ~(t < S.tick)
      BY <1>1, <2>2
    <3>2. QED
      BY <1>4, <2>2, <3>1 DEF HasSaid
  <2>3. QED
    BY <1>1, <2>1, <2>2
<1>6. ASSUME NEW t \in Nat, t >= n PROVE Said(S, w, x, t) = {}
  <2>1. t >= S.tick /\ ~(t < S.tick) /\ ~HasPacket(S, x, t)
    BY <1>1, <1>4, <1>6
  <2>2. {q \in S.inbox : q.tick = t /\ q.from = x} = {}
    BY <2>1 DEF HasPacket
  <2>3. QED
    BY <2>1, <2>2 DEF Said
<1>7. QED
  BY <1>1, <1>4, <1>5, <1>6 DEF n

LEMMA RetireHost ==
  ASSUME NEW S, NEW w, HostOK(S, w), NEW X \in SUBSET Joiners, NEW from, DOMAIN from = X,
         \A x \in X : from[x] = Due(S, x), NEW S2, S2 = RetireEach(S, from)
  PROVE  /\ HostOK(S2, w) /\ Grows(S, w, S2, w) /\ S2.nextSeal = S.nextSeal
         /\ \A j \in Joiners : SameDue(S, S2, j)
         /\ \A x \in X : S2.retired[x] # None /\ Ended(S2, w, x, from[x])
         /\ \A x \in Slots \ X : S2.retired[x] = S.retired[x]
<1>1. /\ Sound(S, Host) /\ S.tick \in Nat /\ Host \notin X /\ X \subseteq Slots /\ Joiners \subseteq Slots
  BY DEF HostOK, Sound, Joiners
<1>2. /\ Sound(S2, Host)
      /\ S2.tick = S.tick /\ S2.nextSeal = S.nextSeal /\ S2.barrier = S.barrier
      /\ S2.inbox = {p \in S.inbox : p.from \in X => p.tick < from[p.from]}
      /\ \A x \in Slots : S2.retired[x] = IF x \in X THEN from[x] ELSE S.retired[x]
  <2>1. DOMAIN from \ {Host} = X
    BY <1>1
  <2>2. QED
    BY <1>1, <2>1, RetireSound
<1>3. S2.inbox = S.inbox
  <2>1. ASSUME NEW p \in S.inbox, p.from \in X PROVE p.tick < from[p.from]
    <3>1. p.tick \in Nat /\ S.tick <= p.tick
      BY <1>1 DEF Sound, InboxOK, PacketOK
    <3>2. HasSaid(S, p.from, p.tick)
      BY DEF HasSaid, HasPacket
    <3>3. p.tick < Due(S, p.from)
      BY <1>1, <2>1, <3>1, <3>2, DueSays
    <3>4. QED
      BY <2>1, <3>3
  <2>2. QED
    BY <1>2, <2>1
<1>4. /\ \A x, t : HasPacket(S2, x, t) <=> HasPacket(S, x, t)
      /\ \A x, t : HasSaid(S2, x, t) <=> HasSaid(S, x, t)
      /\ \A x, t : Said(S2, w, x, t) = Said(S, w, x, t)
      /\ \A x, n : Upto(S2, x, n) <=> Upto(S, x, n)
  BY <1>2, <1>3, SameSaid
<1>5. \A x \in X : from[x] \in Nat /\ from[x] # None
  <2>1. \A n \in Nat : n # None
    BY DEF None
  <2>2. QED
    BY <1>1, <2>1, DueSays
<1>6. Grows(S, w, S2, w)
  <2>1. \A x \in Slots : S.retired[x] # None => S2.retired[x] # None
    BY <1>2, <1>5
  <2>2. QED
    BY <1>1, <1>2, <1>4, <2>1 DEF Grows
<1>7. \A x \in Slots : Due(S2, x) = Due(S, x) /\ Due(S2, x) \in Nat /\ Upto(S2, x, Due(S2, x))
  <2>1. TAKE x \in Slots
  <2>2. Due(S, x) \in Nat /\ Upto(S, x, Due(S, x))
    BY DEF HostOK
  <2>3. Upto(S2, x, Due(S, x))
    BY <1>4, <2>2
  <2>4. QED
    BY <1>1, <1>2, <2>2, <2>3, DueIs
<1>8. \A x \in X : S2.retired[x] # None /\ Ended(S2, w, x, from[x])
  <2>1. TAKE x \in X
  <2>2. S2.retired[x] # None
    BY <1>1, <1>2, <1>5
  <2>3. \A t \in Nat : t >= from[x] => Said(S, w, x, t) = {}
    BY <1>1, DueSays
  <2>4. QED
    BY <1>4, <2>2, <2>3 DEF Ended
<1>9. ASSUME NEW x \in Slots, S2.retired[x] # None
      PROVE  /\ S2.retired[x] \in Nat
             /\ Ended(S2, w, x, S2.retired[x])
             /\ \A t \in Nat : S2.tick <= t /\ t < S2.retired[x] => HasPacket(S2, x, t)
  <2>1. CASE x \in X
    <3>1. S2.retired[x] = from[x] /\ from[x] \in Nat /\ from[x] = Due(S, x)
      BY <1>2, <1>5, <2>1
    <3>2. Ended(S2, w, x, S2.retired[x])
      BY <1>8, <2>1, <3>1
    <3>3. \A t \in Nat : S2.tick <= t /\ t < S2.retired[x] => HasPacket(S2, x, t)
      <4>1. TAKE t \in Nat
      <4>2. HAVE S2.tick <= t /\ t < S2.retired[x]
      <4>3. t < Due(S, x) /\ S.tick <= t
        BY <1>2, <3>1, <4>2
      <4>4. HasSaid(S, x, t)
        BY <4>3, DueSays
      <4>5. QED
        BY <1>1, <1>4, <4>3, <4>4 DEF HasSaid
    <3>4. QED
      BY <3>1, <3>2, <3>3
  <2>2. CASE x \notin X
    <3>1. S2.retired[x] = S.retired[x]
      BY <1>2, <2>2
    <3>2. /\ S.retired[x] \in Nat /\ Ended(S, w, x, S.retired[x])
          /\ \A t \in Nat : S.tick <= t /\ t < S.retired[x] => HasPacket(S, x, t)
      BY <1>9, <3>1 DEF HostOK
    <3>3. Ended(S2, w, x, S2.retired[x])
      BY <1>6, <3>1, <3>2, GrowsEnded
    <3>4. QED
      BY <1>2, <1>4, <3>1, <3>2, <3>3
  <2>3. QED
    BY <2>1, <2>2
<1>10. HostOK(S2, w)
  <2>1. Host \in Slots
    BY LiveAssumption
  <2>2. Due(S2, Host) = S2.nextSeal /\ S2.tick <= MaxTick
    BY <1>2, <1>7, <2>1 DEF HostOK
  <2>3. S2.barrier # None => S2.tick <= S2.barrier + 1
    BY <1>2 DEF HostOK
  <2>4. TrueWorld(S2, w, w, S2.tick)
    BY <1>1, <1>2, <1>6, GrowsTrueWorld DEF HostOK
  <2>5. QED
    BY <1>2, <1>7, <1>9, <2>2, <2>3, <2>4 DEF HostOK
<1>11. \A j \in Joiners : SameDue(S, S2, j)
  BY <1>1, <1>4, <1>7 DEF SameDue
<1>12. QED
  BY <1>2, <1>6, <1>8, <1>10, <1>11

LEMMA ToComputerKept ==
  ASSUME NEW h, NEW w, NEW J, GameOK(h, w, J), NEW slots, IsList(slots), Range(slots) \subseteq Joiners
  PROVE  GameOK(ToComputer(h, slots), w, J)
<1> DEFINE S == h.session
           X == Range(slots)
           from == [x \in X |-> FirstMissing(S, x)]
           S2 == RetireEach(S, from)
           msg == [x \in X |-> [type |-> "Retire", slot |-> x, from |-> from[x]]]
           told == InTurn(h, slots, msg, 1)
           orders == [i \in DOMAIN slots |-> <<"ToComputer", slots[i]>>]
           h2 == [told EXCEPT !.session = RetireEach(@, from), !.waiting = @ \ X, !.quiet = @ \ X,
                              !.outbox = @ \o orders]
<1>1. ToComputer(h, slots) = h2
  BY DEF ToComputer
<1>2. Wired(h) /\ Lists(h) /\ HostOK(S, w) /\ Sound(S, Host)
  BY GameLists
<1>3. X \in SUBSET Joiners /\ Joiners \subseteq Slots
  BY DEF Joiners
<1>4. \A x \in X : from[x] = Due(S, x)
  <2>1. TAKE x \in X
  <2>2. Due(S, x) \in Nat /\ Upto(S, x, Due(S, x))
    BY <1>2, <1>3 DEF HostOK
  <2>3. FirstMissing(S, x) = Due(S, x)
    BY <1>2, <2>2, FirstMissingIs
  <2>4. QED
    BY <2>3
<1>5. DOMAIN from = X
  OBVIOUS
<1> HIDE DEF X, from
<1>6. /\ HostOK(S2, w) /\ Grows(S, w, S2, w)
      /\ \A j \in Joiners : SameDue(S, S2, j)
      /\ \A x \in X : S2.retired[x] # None /\ Ended(S2, w, x, from[x])
      /\ \A x \in Slots \ X : S2.retired[x] = S.retired[x]
  BY <1>2, <1>3, <1>4, <1>5, RetireHost
<1> HIDE DEF S2
<1>7. \A x \in X : NewDown(S2, w, msg[x])
  <2>1. TAKE x \in X
  <2>2. /\ msg[x].type = "Retire" /\ msg[x].slot = x /\ msg[x].from = from[x]
    OBVIOUS
  <2>3. QED
    BY <1>3, <1>6, <2>2 DEF NewDown, DownGood
<1> HIDE DEF msg
<1>8. Moves(S2, w, h, told)
  <2>1. \A x \in Range(slots) : NewDown(S2, w, msg[x])
    BY <1>7 DEF X
  <2>2. 1 \in {0, 1}
    OBVIOUS
  <2>3. QED
    BY <1>2, <2>1, <2>2, InTurnMoves
<1>9. /\ Wired(told) /\ Same(h, told)
      /\ \A c \in Conns : h.line[c] = "seated" /\ SlotOf(c) \in X => told.line[c] = "gone"
      /\ \A c \in Conns : ~(h.line[c] = "seated" /\ SlotOf(c) \in X) => told.line[c] = h.line[c]
  BY <1>2, InTurnIs DEF X
<1> HIDE DEF told
<1>10. /\ Wired(h2) /\ h2.session = S2 /\ h2.waiting = h.waiting \ X /\ h2.quiet = h.quiet \ X
       /\ h2.outbox = h.outbox \o orders
       /\ h2.line = told.line /\ h2.up = told.up /\ h2.down = told.down
  BY <1>9 DEF Wired, HostFields, Same, S2
<1> HIDE DEF h2
<1>11. Moves(h2.session, w, h, h2)
  BY <1>8, <1>10, MovesLike
<1>12. ASSUME NEW j \in Joiners, h2.session.retired[j] = None PROVE LinesOK(h2, j)
  <2>1. j \notin X /\ S.retired[j] = None
    BY <1>3, <1>6, <1>10, <1>12
  <2>2. LinesOK(h, j)
    BY <2>1 DEF GameOK, SeatOK, FreeOK
  <2>3. \A c \in ConnsOf(j) : h2.line[c] = h.line[c]
    BY <1>9, <1>10, <2>1 DEF ConnsOf
  <2>4. QED
    BY <1>10, <2>1, <2>2, <2>3, LinesKept DEF Closing
<1>13. IsList(h2.outbox)
  <2>1. IsList(orders)
    BY ListDomain, ListOf
  <2> HIDE DEF orders
  <2>2. IsList(h.outbox)
    BY DEF GameOK
  <2>3. QED
    BY <1>10, <2>1, <2>2, ListConcat
<1>14. h2.waiting \subseteq Joiners /\ h2.quiet \subseteq Joiners
  BY <1>10 DEF GameOK
<1>15. GameOK(h2, w, J)
  BY <1>6, <1>10, <1>11, <1>12, <1>13, <1>14, HostKept
<1>16. QED
  BY <1>1, <1>15

LEMMA MissingAreJoiners ==
  ASSUME NEW S, NEW w, HostOK(S, w), S.halt = Running, ~CanSeal(S)
  PROVE  Missing(S) \subseteq Joiners /\ IsFiniteSet(Missing(S))
<1>1. Host \in Slots /\ IsFiniteSet(Slots) /\ InputDelay \in Nat
  BY LiveAssumption, SessionAssumption
<1>2. S.tick \in Nat /\ S.nextSeal \in Nat /\ S.tick < S.nextSeal
  BY <1>1 DEF HostOK, Sound, CanSeal, Horizon
<1>3. HasSaid(S, Host, S.tick)
  <2>1. Due(S, Host) = S.nextSeal
    BY DEF HostOK
  <2>2. QED
    BY <1>1, <1>2, <2>1, DueSays
<1>4. Host \notin Missing(S)
  BY <1>2, <1>3 DEF Missing, HasSaid
<1>5. Missing(S) \subseteq Slots
  BY DEF Missing
<1>6. QED
  BY <1>1, <1>4, <1>5, FS_Subset DEF Joiners

LEMMA TimedOutKept ==
  ASSUME NEW h, NEW w, NEW J, GameOK(h, w, J),
         Missing(h.session) \subseteq Joiners, IsFiniteSet(Missing(h.session))
  PROVE  GameOK(TimedOut(h), w, J)
<1> DEFINE S == h.session
           missing == Missing(S)
           others == SetToSeq(missing \ h.waiting)
           closed == UNION {SeatedOn(h, x) : x \in missing \cap h.waiting}
           dropped == Disconnect(h, closed)
           msg == [x \in Range(others) |-> SlotMsg("Away", x)]
           told == InTurn(dropped, others, msg, 0)
           h2 == [told EXCEPT !.waiting = @ \union missing, !.quiet = {}]
<1>1. TimedOut(h) = h2
  BY DEF TimedOut
<1>2. Wired(h) /\ Lists(h) /\ HostOK(S, w) /\ Sound(S, Host)
  BY GameLists
<1>3. IsList(others) /\ Range(others) = missing \ h.waiting
  <2>1. IsFiniteSet(missing \ h.waiting)
    BY FS_Subset
  <2>2. QED
    BY <2>1, Listed
<1> HIDE DEF others
<1>4. \A c \in closed : h.line[c] # "none"
  BY DEF SeatedOn
<1>5. Moves(S, w, h, dropped)
  <2> HIDE DEF closed
  <2>1. QED
    BY <1>2, <1>4, DisconnectMoves
<1>6. /\ Wired(dropped) /\ Same(h, dropped)
      /\ \A c \in closed \cap Conns : dropped.line[c] = "gone"
      /\ \A c \in Conns \ closed : dropped.line[c] = h.line[c]
  <2> HIDE DEF closed
  <2>1. QED
    BY <1>2, DisconnectIs
<1> HIDE DEF dropped
<1>7. Lists(dropped)
  BY <1>5 DEF Moves
<1>8. \A x \in Range(others) : NewDown(S, w, msg[x])
  <2>1. TAKE x \in Range(others)
  <2>2. msg[x].type = "Away" /\ msg[x].slot = x /\ x \in Joiners
    BY <1>3 DEF SlotMsg
  <2>3. QED
    BY <2>2 DEF NewDown, DownGood
<1> HIDE DEF msg
<1>9. Moves(S, w, dropped, told)
  <2>1. 0 \in {0, 1}
    OBVIOUS
  <2>2. QED
    BY <1>3, <1>6, <1>7, <1>8, <2>1, InTurnMoves
<1>10. /\ Wired(told) /\ Same(dropped, told)
       /\ \A c \in Conns : dropped.line[c] = "seated" /\ SlotOf(c) \in Range(others) => told.line[c] = "gone"
       /\ \A c \in Conns : ~(dropped.line[c] = "seated" /\ SlotOf(c) \in Range(others)) =>
            told.line[c] = dropped.line[c]
  BY <1>6, InTurnIs
<1> HIDE DEF told
<1>11. /\ Wired(h2) /\ h2.session = S /\ h2.waiting = h.waiting \union missing /\ h2.quiet = {}
       /\ h2.outbox = h.outbox
       /\ h2.line = told.line /\ h2.up = told.up /\ h2.down = told.down
  BY <1>6, <1>10 DEF Wired, HostFields, Same
<1> HIDE DEF h2
<1>12. Moves(S, w, h, told)
  BY <1>2, <1>5, <1>9, MovesTrans
<1>13. Moves(h2.session, w, h, h2)
  BY <1>11, <1>12, MovesLike
<1>14. ASSUME NEW j \in Joiners, h2.session.retired[j] = None PROVE LinesOK(h2, j)
  <2>1. LinesOK(h, j)
    BY <1>11, <1>14 DEF GameOK, SeatOK, FreeOK
  <2>2. ASSUME NEW c \in ConnsOf(j)
        PROVE  h2.line[c] = h.line[c] \/ h2.line[c] = "gone"
    BY <1>6, <1>10, <1>11 DEF ConnsOf
  <2>3. CASE j \notin missing
    <3>1. j \in h2.waiting <=> j \in h.waiting
      BY <1>11, <2>3
    <3>2. QED
      BY <2>1, <2>2, <3>1, LinesKept DEF Closing
  <2>4. CASE j \in missing
    <3>1. ASSUME NEW c \in ConnsOf(j) PROVE h2.line[c] # "seated"
      <4>1. c \in Conns /\ SlotOf(c) = j
        BY DEF ConnsOf
      <4>2. CASE j \in h.waiting
        <5>1. h.line[c] = "seated" => c \in closed
          BY <2>4, <4>1, <4>2 DEF SeatedOn
        <5>2. dropped.line[c] # "seated"
          BY <1>6, <4>1, <5>1
        <5>3. QED
          BY <1>10, <1>11, <4>1, <5>2
      <4>3. CASE j \notin h.waiting
        <5>1. SlotOf(c) \in Range(others)
          BY <1>3, <2>4, <4>1, <4>3
        <5>2. QED
          BY <1>10, <1>11, <4>1, <5>1
      <4>4. QED
        BY <4>2, <4>3
    <3>2. QED
      BY <1>11, <2>4, <3>1 DEF LinesOK
  <2>5. QED
    BY <2>3, <2>4
<1>15. h2.waiting \subseteq Joiners /\ h2.quiet \subseteq Joiners /\ IsList(h2.outbox)
  BY <1>11 DEF GameOK
<1>16. HostOK(h2.session, w) /\ Grows(S, w, h2.session, w) /\ \A j \in Joiners : SameDue(S, h2.session, j)
  <2>1. S.tick \in Nat
    BY <1>2 DEF Sound
  <2>2. QED
    BY <1>2, <1>11, <2>1, GrowsSelf DEF SameDue
<1>17. GameOK(h2, w, J)
  BY <1>13, <1>14, <1>15, <1>16, HostKept
<1>18. QED
  BY <1>1, <1>17

\* A connection is closed and read to its end: its seat has no other.
LEMMA DroppedAlone ==
  ASSUME NEW h, NEW w, NEW J, GameOK(h, w, J), NEW c \in Conns, NEW h1, h1 = Disconnect(Polled(h), {c})
  PROVE  /\ h1.session = h.session
         /\ h.line[c] = "seated" /\ h1.session.retired[SlotOf(c)] = None =>
              \A d \in ConnsOf(SlotOf(c)) : h1.line[d] # "seated"
<1> DEFINE g == Polled(h)
           conns == {c}
<1>1. /\ \A d \in Conns : h.line[d] \notin {"connecting", "accepted"} => g.line[d] = h.line[d]
      /\ \A d \in Conns : h.line[d] \in {"connecting", "accepted"} => g.line[d] \in {"accepted", "stranger"}
      /\ g.session = h.session
  BY GameLists, PolledMoves DEF Same
<1>2. Wired(g)
  BY PolledKept, GameLists
<1>3. h1 = Disconnect(g, conns)
  OBVIOUS
<1> HIDE DEF g, conns
<1>4. /\ h1.session = g.session /\ h1.line[c] = "gone"
      /\ \A d \in Conns \ {c} : h1.line[d] = g.line[d]
  <2> DEFINE gone == Disconnect(g, conns)
  <2>a. /\ Same(g, gone)
        /\ \A d \in conns \cap Conns : gone.line[d] = "gone"
        /\ \A d \in Conns \ conns : gone.line[d] = g.line[d]
    BY <1>2, DisconnectIs
  <2>b. gone = h1
    BY <1>3
  <2> HIDE DEF gone
  <2>1. /\ Same(g, h1)
        /\ \A d \in conns \cap Conns : h1.line[d] = "gone"
        /\ \A d \in Conns \ conns : h1.line[d] = g.line[d]
    BY <2>a, <2>b
  <2>2. c \in conns /\ \A d \in Conns \ {c} : d \notin conns
    BY DEF conns
  <2>3. QED
    BY <2>1, <2>2 DEF Same
<1>5. ASSUME h.line[c] = "seated", h1.session.retired[SlotOf(c)] = None, NEW d \in ConnsOf(SlotOf(c))
      PROVE  h1.line[d] # "seated"
  <2>1. SlotOf(c) \in Joiners /\ c \in ConnsOf(SlotOf(c))
    BY ConnsAre
  <2>2. LinesOK(h, SlotOf(c)) /\ d \in Conns
    BY <1>1, <1>4, <1>5, <2>1 DEF GameOK, SeatOK, FreeOK, ConnsOf
  <2>3. CASE d = c
    BY <1>4, <2>3
  <2>4. CASE d # c
    <3>1. h.line[d] # "seated"
      BY <1>5, <2>1, <2>2, <2>4 DEF LinesOK
    <3>2. g.line[d] # "seated"
      BY <1>1, <2>2, <3>1
    <3>3. QED
      BY <1>4, <2>2, <2>4, <3>2
  <2>5. QED
    BY <2>3, <2>4
<1>6. QED
  BY <1>1, <1>4, <1>5

LEMMA DroppedKept ==
  ASSUME NEW h, NEW w, NEW J, GameOK(h, w, J), NEW c \in Conns, h.line[c] # "none",
         NEW h1, h1 = Disconnect(Polled(h), {c})
  PROVE  GameOK(IF h.line[c] = "seated" THEN Away(h1, SlotOf(c)) ELSE h1, w, J)
<1> DEFINE g == Polled(h)
           conns == {c}
<1>1. GameOK(g, w, J)
  BY PolledKept
<1>2. \A d \in conns : g.line[d] # "none"
  BY GameLists, PolledMoves
<1>3. h1 = Disconnect(g, conns)
  OBVIOUS
<1> HIDE DEF g, conns
<1>4. GameOK(h1, w, J)
  BY <1>1, <1>2, <1>3, DisconnectKept
<1>5. CASE h.line[c] # "seated"
  BY <1>4, <1>5
<1>6. CASE h.line[c] = "seated"
  <2>1. PICK slot : slot = SlotOf(c)
    OBVIOUS
  <2>2. slot \in Joiners
    BY <2>1, ConnsAre
  <2>3. h1.session.retired[slot] = None => \A d \in ConnsOf(slot) : h1.line[d] # "seated"
    BY <1>6, <2>1, DroppedAlone
  <2>4. GameOK(Away(h1, slot), w, J)
    BY <1>4, <2>2, <2>3, AwayKept
  <2>5. QED
    BY <1>6, <2>1, <2>4
<1>7. QED
  BY <1>5, <1>6

\* The host's session changes but for what is heard, and everyone is told.
LEMMA SpeakKept ==
  ASSUME NEW h, NEW w, NEW J, GameOK(h, w, J),
         NEW S2, Alike(h.session, S2), IsList(S2.staged), S2.barrier \in Nat \union {None},
         S2.barrier # None => S2.tick <= S2.barrier + 1,
         NEW m, NewDown(h.session, w, m)
  PROVE  GameOK(SendAll([h EXCEPT !.session = S2], m), w, J)
<1> DEFINE h1 == [h EXCEPT !.session = S2]
           h2 == SendAll(h1, m)
           S == h.session
<1>1. /\ Wired(h1) /\ h1.session = S2 /\ h1.waiting = h.waiting
      /\ h1.quiet = h.quiet /\ h1.outbox = h.outbox
      /\ h1.line = h.line /\ h1.up = h.up /\ h1.down = h.down
  BY GameLists DEF Wired, HostFields
<1> HIDE DEF h1
<1>2. Lists(h1)
  BY <1>1, GameLists DEF Lists
<1>3. Moves(S, w, h1, h2) /\ Same(h1, h2)
  BY <1>1, <1>2, SendMoves DEF SendAll
<1> HIDE DEF h2
<1>4. Moves(S, w, h, h2)
  BY <1>1, <1>3, MovesFrom
<1>5. /\ h2.session = S2 /\ h2.waiting = h.waiting /\ h2.quiet = h.quiet /\ h2.outbox = h.outbox
  BY <1>1, <1>3 DEF Same
<1>6. h2.quiet \subseteq Joiners /\ IsList(h2.outbox)
  BY <1>5 DEF GameOK
<1>7. GameOK(h2, w, J)
  BY <1>4, <1>5, <1>6, AlikeKept
<1>8. QED
  BY <1>7 DEF h1, h2

\* Held at the barrier: the host has run its tick and no more.
LEMMA ResyncKept ==
  ASSUME NEW h, NEW w, NEW J, GameOK(h, w, J), AtBarrier(h.session),
         NEW m, m = [type |-> "Resync", tick |-> h.session.barrier, world |-> w]
  PROVE  GameOK(SendAll([h EXCEPT !.session = ResyncSent(@)], m), w, J)
<1> DEFINE S == h.session
           S2 == ResyncSent(S)
<1>1. HostOK(S, w) /\ Sound(S, Host) /\ DOMAIN h = HostFields
  BY GameLists DEF Wired
<1>2. S.tick \in Nat /\ S.barrier \in Nat /\ S.tick = S.barrier + 1
  BY <1>1 DEF Sound, HostOK, AtBarrier
<1>3. NewDown(S, w, m)
  <2>1. m.type = "Resync" /\ m.tick = S.barrier /\ m.world = w
    OBVIOUS
  <2>2. TrueWorld(S, w, w, S.barrier + 1)
    BY <1>1, <1>2 DEF HostOK
  <2>3. QED
    BY <1>2, <2>1, <2>2 DEF NewDown, DownGood
<1>4. /\ Alike(S, S2) /\ IsList(S2.staged) /\ S2.barrier \in Nat \union {None}
      /\ S2.barrier = None
  BY <1>1, ResyncFields DEF Sound
<1>5. [h EXCEPT !.session = ResyncSent(@)] = [h EXCEPT !.session = S2]
  OBVIOUS
<1> HIDE DEF S2
<1>6. GameOK(SendAll([h EXCEPT !.session = S2], m), w, J)
  BY <1>3, <1>4, SpeakKept
<1>7. QED
  BY <1>5, <1>6

LEMMA ControlKept ==
  ASSUME NEW h, NEW w, NEW J, GameOK(h, w, J), NEW plays
  PROVE  GameOK(Control(h, plays), w, J)
<1> DEFINE a == SetToSeq(h.waiting)
           b == SetToSeq(h.quiet)
<1>1. h.waiting \subseteq Joiners /\ h.quiet \subseteq Joiners /\ IsFiniteSet(Joiners)
  <2>1. IsFiniteSet(Joiners)
    BY SessionAssumption, FS_Subset DEF Joiners
  <2>2. QED
    BY <2>1 DEF GameOK
<1>2. IsFiniteSet(h.waiting) /\ IsFiniteSet(h.quiet)
  BY <1>1, FS_Subset
<1>3. IsList(a) /\ Range(a) = h.waiting /\ IsList(b) /\ Range(b) = h.quiet
  BY <1>2, Listed
<1> HIDE DEF a, b
<1>4. IsList(a \o b)
  BY <1>3, ListConcat
<1>5. Range(a \o b) \subseteq Joiners
  <2>1. ASSUME NEW i \in DOMAIN (a \o b) PROVE (a \o b)[i] \in Joiners
    <3>1. \/ i \in DOMAIN a /\ (a \o b)[i] = a[i]
          \/ i - Len(a) \in DOMAIN b /\ (a \o b)[i] = b[i - Len(a)]
      BY <1>3, <2>1, ListConcat
    <3>2. (a \o b)[i] \in Range(a) \union Range(b)
      BY <3>1 DEF Range
    <3>3. QED
      BY <1>1, <1>3, <3>2
  <2>2. QED
    BY <2>1 DEF Range
<1>6. GameOK(ToComputer(h, a \o b), w, J)
  BY <1>4, <1>5, ToComputerKept
<1>7. QED
  BY <1>6 DEF Control, a, b

LEMMA StageKept ==
  ASSUME NEW h, NEW w, NEW J, GameOK(h, w, J), NEW orders, IsList(orders)
  PROVE  GameOK(Stage(h, orders), w, J)
<1> DEFINE S == h.session
           S2 == [S EXCEPT !.staged = @ \o h.outbox \o orders]
           h2 == [h EXCEPT !.session = S2, !.outbox = <<>>]
<1>1. Wired(h) /\ Lists(h) /\ HostOK(S, w) /\ Sound(S, Host)
  BY GameLists
<1>2. Stage(h, orders) = h2
  BY DEF Stage
<1>3. /\ Alike(S, S2) /\ S2.staged = S.staged \o h.outbox \o orders /\ S2.barrier = S.barrier
  BY <1>1 DEF Alike, Sound, Fields
<1> HIDE DEF S2
<1>4. IsList(S2.staged)
  <2>1. IsList(S.staged) /\ IsList(h.outbox)
    BY <1>1 DEF Sound, GameOK
  <2>2. IsList(S.staged \o h.outbox)
    BY <2>1, ListConcat
  <2>3. QED
    BY <1>3, <2>2, ListConcat
<1>5. /\ Wired(h2) /\ h2.session = S2 /\ h2.waiting = h.waiting /\ h2.quiet = h.quiet
      /\ h2.outbox = <<>> /\ h2.line = h.line /\ h2.up = h.up /\ h2.down = h.down
  BY <1>1 DEF Wired, HostFields
<1> HIDE DEF h2
<1>6. Moves(S, w, h, h2)
  BY <1>1, <1>5, MovesSelf, MovesLike
<1>7. /\ S2.barrier \in Nat \union {None} /\ S2.tick = S.tick
      /\ S2.barrier # None => S2.tick <= S2.barrier + 1
  BY <1>1, <1>3 DEF Sound, HostOK, Alike
<1>8. h2.quiet \subseteq Joiners /\ IsList(h2.outbox)
  <2>1. IsList(<<>>)
    BY EmptySeq DEF IsList
  <2>2. QED
    BY <1>5, <2>1 DEF GameOK
<1>9. GameOK(h2, w, J)
  BY <1>3, <1>4, <1>5, <1>6, <1>7, <1>8, AlikeKept
<1>10. QED
  BY <1>2, <1>9

(***************************************************************************)
(* A packet heard, or sealed: the next that its slot has to say.           *)
(***************************************************************************)
LEMMA HearsNext ==
  ASSUME NEW S, NEW w, HostOK(S, w), NEW p, PacketOK(p), p.tick = Due(S, p.from),
         S.retired[p.from] = None, NEW S2, Sound(S2, Host), S2.inbox = S.inbox \union {p},
         S2.tick = S.tick, S2.retired = S.retired, S2.barrier = S.barrier,
         S2.nextSeal = IF p.from = Host THEN S.nextSeal + 1 ELSE S.nextSeal
  PROVE  /\ HostOK(S2, w) /\ Grows(S, w, S2, w)
         /\ AsSaid(S2, w, p) /\ Due(S2, p.from) = Due(S, p.from) + 1
         /\ \A t \in Nat : HasSaid(S2, p.from, t) => HasSaid(S, p.from, t) \/ t = Due(S, p.from)
         /\ \A j \in Joiners : j # p.from => SameDue(S, S2, j)
<1> DEFINE x == p.from
           n == Due(S, x)
<1>1. /\ x \in Slots /\ n \in Nat /\ S.tick <= n /\ S.tick \in Nat /\ p.tick = n
      /\ \A t \in Nat : HasSaid(S, x, t) <=> t < n
      /\ Joiners \subseteq Slots
  BY DueSays DEF PacketOK, Joiners
<1>2. S.retired[x] = None /\ n = Due(S, x)
  OBVIOUS
<1> HIDE DEF n
<1>3. ~HasPacket(S, x, n)
  BY <1>1 DEF HasSaid
<1>4. \A y, t : HasPacket(S2, y, t) <=> HasPacket(S, y, t) \/ (y = x /\ t = n)
  BY <1>1 DEF HasPacket
<1>5. \A y, t : HasSaid(S2, y, t) <=> HasSaid(S, y, t) \/ (y = x /\ t = n)
  BY <1>4 DEF HasSaid
<1>6. ASSUME NEW y \in Slots, NEW t \in Nat, Settled(S, y, t)
      PROVE  Said(S2, w, y, t) = Said(S, w, y, t)
  <2>1. ~(y = x /\ t = n)
    BY <1>1, <1>2, <1>6 DEF Settled
  <2>2. {q \in S2.inbox : q.tick = t /\ q.from = y} = {q \in S.inbox : q.tick = t /\ q.from = y}
    BY <1>1, <2>1
  <2>3. QED
    BY <2>2 DEF Said
<1>7. Grows(S, w, S2, w)
  BY <1>1, <1>5, <1>6 DEF Grows
<1>8. AsSaid(S2, w, p)
  <2>1. HasSaid(S2, x, n) /\ ~(n < S2.tick)
    BY <1>1, <1>5
  <2>2. {q \in S2.inbox : q.tick = n /\ q.from = x} = {p}
    BY <1>1, <1>3 DEF HasPacket
  <2>3. Said(S2, w, x, n) = p.commands
    BY <2>1, <2>2 DEF Said
  <2>4. QED
    BY <1>1, <2>1, <2>3 DEF AsSaid
<1>9. \A y \in Slots \ {x} : Upto(S2, y, Due(S, y)) /\ Due(S, y) \in Nat
  <2>1. TAKE y \in Slots \ {x}
  <2>2. Upto(S, y, Due(S, y)) /\ Due(S, y) \in Nat
    BY DEF HostOK
  <2>3. QED
    BY <1>4, <2>2 DEF Upto
<1>10. Upto(S2, x, n + 1)
  <2>1. \A t \in Nat : t >= S.tick => (HasPacket(S, x, t) <=> t < n)
    <3>1. Upto(S, x, Due(S, x))
      BY <1>1 DEF HostOK
    <3>2. QED
      BY <1>2, <3>1 DEF Upto
  <2>2. \A t \in Nat : t < n + 1 <=> t < n \/ t = n
    BY <1>1
  <2>3. n + 1 >= S2.tick
    BY <1>1
  <2>4. \A t \in Nat : t >= S2.tick => (HasPacket(S2, x, t) <=> t < n + 1)
    BY <1>1, <1>4, <2>1, <2>2
  <2>5. QED
    BY <2>3, <2>4 DEF Upto
<1>11. S2.tick \in Nat /\ n + 1 \in Nat
  BY <1>1
<1>12. Due(S2, x) = n + 1 /\ \A y \in Slots \ {x} : Due(S2, y) = Due(S, y)
  BY <1>9, <1>10, <1>11, DueIs
<1>13. \A y \in Slots : Due(S2, y) \in Nat /\ Upto(S2, y, Due(S2, y))
  BY <1>9, <1>10, <1>11, <1>12
<1>14. HostOK(S2, w)
  <2>1. Due(S2, Host) = S2.nextSeal
    <3>1. Due(S, Host) = S.nextSeal /\ Host \in Slots
      BY LiveAssumption DEF HostOK
    <3>2. QED
      BY <1>2, <1>12, <3>1
  <2>2. S2.tick <= MaxTick /\ (S2.barrier # None => S2.tick <= S2.barrier + 1)
    BY DEF HostOK
  <2>3. TrueWorld(S2, w, w, S2.tick)
    BY <1>1, <1>7, GrowsTrueWorld DEF HostOK
  <2>4. ASSUME NEW y \in Slots, S2.retired[y] # None
        PROVE  /\ S2.retired[y] \in Nat
               /\ Ended(S2, w, y, S2.retired[y])
               /\ \A t \in Nat : S2.tick <= t /\ t < S2.retired[y] => HasPacket(S2, y, t)
    <3>1. /\ S.retired[y] \in Nat /\ Ended(S, w, y, S.retired[y])
          /\ \A t \in Nat : S.tick <= t /\ t < S.retired[y] => HasPacket(S, y, t)
      BY <2>4 DEF HostOK
    <3>2. QED
      BY <1>4, <1>7, <3>1, GrowsEnded
  <2>5. QED
    BY <1>13, <2>1, <2>2, <2>3, <2>4 DEF HostOK
<1>15. ASSUME NEW j \in Joiners, j # x PROVE SameDue(S, S2, j)
  BY <1>1, <1>5, <1>12, <1>15 DEF SameDue
<1>16. QED
  BY <1>2, <1>5, <1>7, <1>8, <1>12, <1>14, <1>15

\* A packet the host says: for itself, or of a joiner's.
LEMMA TickGood ==
  ASSUME NEW S, NEW w, NEW p, AsSaid(S, w, p), NEW q,
         q.tick = p.tick, q.from = p.from, q.commands = p.commands
  PROVE  NewDown(S, w, TickMsg(q))
<1>1. AsSaid(S, w, q)
  BY DEF AsSaid, PacketOK
<1>2. TickMsg(q).type = "Tick" /\ TickMsg(q).packet = q
  BY DEF TickMsg
<1>3. QED
  BY <1>1, <1>2 DEF NewDown, DownGood

LEMMA HostSealKept ==
  ASSUME NEW h, NEW w, NEW J, GameOK(h, w, J)
  PROVE  GameOK(SendAll([h EXCEPT !.session = Seal(@)], TickMsg(Packet(h.session))), w, J)
<1> DEFINE S == h.session
           S2 == Seal(S)
           p == Held(Packet(S))
           m == TickMsg(Packet(S))
           h1 == [h EXCEPT !.session = Seal(@)]
           h2 == SendAll(h1, m)
<1>1. Wired(h) /\ Lists(h) /\ HostOK(S, w) /\ Sound(S, Host) /\ Host \in Slots /\ Host \notin Joiners
  BY GameLists, LiveAssumption DEF Joiners
<1>2. /\ Sound(S2, Host)
      /\ S2.tick = S.tick /\ S2.nextSeal = S.nextSeal + 1
      /\ S2.retired = S.retired /\ S2.barrier = S.barrier
      /\ S2.inbox = S.inbox \union {p}
      /\ p.from = Host /\ p.tick = S.nextSeal /\ PacketOK(p)
  BY <1>1, SealSound
<1>3. /\ Packet(S).tick = p.tick /\ Packet(S).from = p.from /\ Packet(S).commands = p.commands
  BY HeldCommands
<1>4. p.tick = Due(S, p.from) /\ S.retired[p.from] = None
  BY <1>1, <1>2 DEF HostOK, Sound
<1>5. /\ Wired(h1) /\ h1.session = S2 /\ h1.waiting = h.waiting /\ h1.quiet = h.quiet
      /\ h1.outbox = h.outbox /\ h1.line = h.line /\ h1.up = h.up /\ h1.down = h.down
  BY <1>1 DEF Wired, HostFields
<1> HIDE DEF S2, p, h1
<1>6. /\ HostOK(S2, w) /\ Grows(S, w, S2, w) /\ AsSaid(S2, w, p)
      /\ \A j \in Joiners : j # p.from => SameDue(S, S2, j)
  BY <1>1, <1>2, <1>4, HearsNext
<1>7. NewDown(S2, w, m)
  BY <1>3, <1>6, TickGood
<1> HIDE DEF m
<1>8. Lists(h1)
  BY <1>1, <1>5 DEF Lists
<1>9. Moves(S2, w, h1, h2) /\ Same(h1, h2) /\ h2.line = h1.line
  BY <1>5, <1>7, <1>8, SendMoves DEF SendAll
<1> HIDE DEF h2
<1>10. Moves(S2, w, h, h2)
  BY <1>5, <1>9, MovesFrom
<1>11. /\ h2.session = S2 /\ h2.waiting = h.waiting /\ h2.quiet = h.quiet
       /\ h2.outbox = h.outbox /\ h2.line = h.line
  BY <1>5, <1>9 DEF Same
<1>12. ASSUME NEW j \in Joiners
       PROVE  SameDue(S, h2.session, j) /\ (h2.session.retired[j] = None => LinesOK(h2, j))
  <2>1. SameDue(S, h2.session, j)
    BY <1>1, <1>2, <1>6, <1>11
  <2>2. ASSUME h2.session.retired[j] = None PROVE LinesOK(h2, j)
    <3>1. LinesOK(h, j)
      BY <1>2, <1>11, <2>2 DEF GameOK, SeatOK, FreeOK
    <3>2. QED
      BY <1>11, <3>1 DEF LinesOK
  <2>3. QED
    BY <2>1, <2>2
<1>13. h2.waiting \subseteq Joiners /\ h2.quiet \subseteq Joiners /\ IsList(h2.outbox)
  BY <1>11 DEF GameOK
<1>14. Moves(h2.session, w, h, h2) /\ HostOK(h2.session, w) /\ Grows(S, w, h2.session, w)
  BY <1>6, <1>10, <1>11
<1>15. GameOK(h2, w, J)
  BY <1>12, <1>13, <1>14, HostKept
<1>16. QED
  BY <1>15 DEF h1, h2, m

(***************************************************************************)
(* A tick run by the host: what was said for it is what its world ran.     *)
(***************************************************************************)
RanTick(S, w, S2, w2) ==
  /\ WorldOK(w2, S2.tick)
  /\ \A x \in Slots, t \in Nat : Said(S2, w2, x, t) = Said(S, w, x, t)
  /\ \A t \in Nat : t < S2.tick => Commanded(w2[t + 1]) = OrderOf(AllSaid(S2, w2, t))

LEMMA TickSaid ==
  ASSUME NEW S, NEW w, HostOK(S, w), CommandsAreDistinct(TickCommands(S)),
         NEW S2, S2.tick = S.tick + 1, S2.inbox = {p \in S.inbox : p.tick # S.tick},
         NEW w2, w2 = Append(w, OrderCommands(Host, TickCommands(S)))
  PROVE  RanTick(S, w, S2, w2)
<1> DEFINE T == S.tick
           C == TickCommands(S)
           q == OrderCommands(Host, C)
<1>1. Sound(S, Host) /\ T \in Nat /\ TrueWorld(S, w, w, T) /\ WorldOK(w, T)
  BY DEF HostOK, Sound, TrueWorld
<1>2. /\ \A c \in C : c.slot \in Slots
      /\ q \in Seq(C) /\ Range(q) = C
  BY <1>1, TickRun
<1>3. IsList(q)
  BY <1>2 DEF IsList
<1>4. \A x \in Slots : {c \in C : c.slot = x} = Said(S, w, x, T)
  <2>1. TAKE x \in Slots
  <2>2. Said(S, w, x, T) = UNION {p.commands : p \in {r \in S.inbox : r.tick = T /\ r.from = x}}
    BY <1>1 DEF Said
  <2>3. \A p \in S.inbox : \A c \in p.commands : c.slot = p.from
    BY <1>1 DEF Sound, InboxOK, PacketOK
  <2>4. C = UNION {p.commands : p \in {r \in S.inbox : r.tick = T}}
    BY DEF TickCommands
  <2> HIDE DEF C
  <2>5. ASSUME NEW c PROVE c \in C /\ c.slot = x <=> c \in Said(S, w, x, T)
    <3>1. c \in C <=> \E p \in S.inbox : p.tick = T /\ c \in p.commands
      BY <2>4
    <3>2. c \in Said(S, w, x, T) <=> \E p \in S.inbox : p.tick = T /\ p.from = x /\ c \in p.commands
      BY <2>2
    <3>3. QED
      BY <2>3, <3>1, <3>2
  <2>6. QED
    BY <2>5
<1> HIDE DEF C, q
<1>0. S.tick = T /\ S2.tick = T + 1 /\ T \in Nat /\ WorldOK(w, T) /\ w2 = Append(w, q)
  BY <1>1 DEF C, q
<1> HIDE DEF T
<1>5. /\ WorldOK(w2, T + 1) /\ w2[T + 1] = q
      /\ \A i \in 1 .. T : w2[i] = w[i]
  <2>0. T \in Nat /\ WorldOK(w, T) /\ IsList(q) /\ w2 = Append(w, q)
    BY <1>0, <1>3
  <2>1. RunsOnce(w, T, w2, q)
    BY <2>0, WorldAppend
  <2>2. QED
    BY <2>1 DEF RunsOnce
<1>6. \A t \in Nat : t < T => w2[t + 1] = w[t + 1]
  <2>1. \A t \in Nat : t < T => t + 1 \in 1 .. T
    BY <1>0
  <2>2. QED
    BY <1>5, <2>1
<1>7. ASSUME NEW x \in Slots, NEW t \in Nat PROVE Said(S2, w2, x, t) = Said(S, w, x, t)
  <2>1. CASE t < T
    <3>1. t < S2.tick /\ t < S.tick
      BY <1>0, <2>1
    <3>2. QED
      BY <1>6, <2>1, <3>1 DEF Said
  <2>2. CASE t = T
    <3>0. t < S2.tick
      BY <1>0, <2>2
    <3>1. Said(S2, w2, x, t) = {c \in Range(w2[T + 1]) : c.slot = x}
      BY <2>2, <3>0 DEF Said
    <3>2. QED
      BY <1>2, <1>4, <1>5, <2>2, <3>1
  <2>3. CASE t > T
    <3>1. ~(t < S2.tick) /\ ~(t < S.tick) /\ t # T
      BY <1>0, <2>3
    <3>2. {r \in S2.inbox : r.tick = t /\ r.from = x} = {r \in S.inbox : r.tick = t /\ r.from = x}
      BY <1>0, <3>1
    <3>3. QED
      BY <3>1, <3>2 DEF Said
  <2>4. QED
    BY <1>0, <2>1, <2>2, <2>3
<1>8. \A t \in Nat : AllSaid(S2, w2, t) = AllSaid(S, w, t)
  BY <1>7 DEF AllSaid
<1>9. AllSaid(S, w, T) = C
  BY <1>2, <1>4 DEF AllSaid
<1>10. ASSUME NEW t \in Nat, t < S2.tick
       PROVE  Commanded(w2[t + 1]) = OrderOf(AllSaid(S2, w2, t))
  <2>1. CASE t < T
    BY <1>0, <1>1, <1>6, <1>8, <2>1 DEF TrueWorld
  <2>2. CASE t = T
    <3>1. AllSaid(S2, w2, t) = C
      BY <1>0, <1>8, <1>9, <2>2
    <3>2. OrderOf(C) = Commanded(q)
      BY DEF OrderOf, q
    <3>3. w2[t + 1] = q
      BY <1>5, <2>2
    <3>4. QED
      BY <3>1, <3>2, <3>3
  <2>3. t < T \/ t = T
    BY <1>0, <1>10
  <2>4. QED
    BY <2>1, <2>2, <2>3
<1>11. WorldOK(w2, S2.tick)
  BY <1>0, <1>5
<1>12. QED
  BY <1>7, <1>10, <1>11 DEF RanTick

LEMMA HostRuns1 ==
  ASSUME NEW S, NEW w, HostOK(S, w), Missing(S) = {}, ~AtBarrier(S), S.tick < MaxTick,
         NEW a, a = Advance(S, w)
  PROVE  /\ HostOK(a.session, a.world) /\ Grows(S, w, a.session, a.world)
         /\ \A j \in Joiners : SameDue(S, a.session, j)
         /\ a.session.retired = S.retired
<1> DEFINE S2 == a.session
           w2 == a.world
           T == S.tick
<1>1. /\ Sound(S, Host) /\ T \in Nat /\ Host \in Slots /\ MaxTick \in Nat
  BY LiveAssumption DEF HostOK, Sound
<1>2. /\ Sound(S2, Host)
      /\ S2.nextSeal = S.nextSeal /\ S2.retired = S.retired
      /\ S2.barrier = S.barrier
      /\ \/ /\ S2.tick = S.tick /\ S2.inbox = S.inbox /\ w2 = w
         \/ /\ CommandsAreDistinct(TickCommands(S))
            /\ S2.tick = S.tick + 1
            /\ S2.inbox = {p \in S.inbox : p.tick # S.tick}
            /\ w2 = Append(w, OrderCommands(Host, TickCommands(S)))
  BY <1>1, AdvanceSound
<1>3. S2.barrier # None => T + 1 <= S2.barrier + 1 /\ T <= S2.barrier + 1
  BY <1>1, <1>2 DEF AtBarrier, Sound
<1> HIDE DEF S2, w2
<1>4. CASE S2.tick = S.tick /\ S2.inbox = S.inbox /\ w2 = w
  <2>1. HostOK(S2, w) /\ Grows(S, w, S2, w) /\ \A j \in Joiners : SameDue(S, S2, j)
    BY <1>2, <1>3, <1>4, LikeHost
  <2>2. QED
    BY <1>2, <1>4, <2>1 DEF S2, w2
<1>5. CASE /\ CommandsAreDistinct(TickCommands(S))
           /\ S2.tick = S.tick + 1
           /\ S2.inbox = {p \in S.inbox : p.tick # S.tick}
           /\ w2 = Append(w, OrderCommands(Host, TickCommands(S)))
  <2>0. RanTick(S, w, S2, w2)
    BY <1>5, TickSaid
  <2>1. /\ WorldOK(w2, S2.tick)
        /\ \A x \in Slots, t \in Nat : Said(S2, w2, x, t) = Said(S, w, x, t)
        /\ \A t \in Nat : t < S2.tick => Commanded(w2[t + 1]) = OrderOf(AllSaid(S2, w2, t))
    BY <2>0 DEF RanTick
  <2>2. \A x, t : HasPacket(S2, x, t) <=> HasPacket(S, x, t) /\ t # T
    BY <1>5 DEF HasPacket
  <2>3. \A x, t : t \in Nat => (HasSaid(S2, x, t) <=> HasSaid(S, x, t) \/ t = T)
    BY <1>1, <1>5, <2>2 DEF HasSaid
  <2>4. Grows(S, w, S2, w2)
    BY <1>1, <1>2, <1>5, <2>1, <2>3 DEF Grows
  <2>5. \A x \in Slots : S.retired[x] = None => HasPacket(S, x, T)
    BY DEF Missing, IsRetired
  <2>6. ASSUME NEW x \in Slots
        PROVE  /\ Due(S2, x) \in Nat /\ Upto(S2, x, Due(S2, x))
               /\ S.retired[x] = None => Due(S2, x) = Due(S, x)
    <3> DEFINE n == Due(S, x)
    <3>1. n \in Nat /\ Upto(S, x, n)
      BY DEF HostOK
    <3> HIDE DEF n
    <3>2. n >= T /\ \A t \in Nat : t >= T => (HasPacket(S, x, t) <=> t < n)
      BY <3>1 DEF Upto
    <3>3. CASE n > T
      <4>1. n >= S2.tick
        BY <1>1, <1>5, <3>1, <3>3
      <4>2. \A t \in Nat : t >= S2.tick => t >= T /\ t # T
        BY <1>1, <1>5
      <4>3. Upto(S2, x, n)
        BY <2>2, <3>2, <4>1, <4>2 DEF Upto
      <4>4. Due(S2, x) = n
        BY <1>1, <1>5, <3>1, <4>3, DueIs
      <4>5. QED
        BY <3>1, <4>3, <4>4 DEF n
    <3>4. CASE n = T
      <4>1. T + 1 >= S2.tick
        BY <1>1, <1>5
      <4>2. \A t \in Nat : t >= S2.tick => t >= T /\ ~(t < n) /\ ~(t < T + 1)
        BY <1>1, <1>5, <3>4
      <4>3. Upto(S2, x, T + 1)
        BY <2>2, <3>2, <4>1, <4>2 DEF Upto
      <4>4. T + 1 \in Nat /\ Due(S2, x) = T + 1
        BY <1>1, <1>5, <4>3, DueIs
      <4>5. S.retired[x] # None
        BY <1>1, <2>5, <3>2, <3>4
      <4>6. QED
        BY <4>3, <4>4, <4>5
    <3>5. QED
      BY <1>1, <3>1, <3>2, <3>3, <3>4
  <2>7. S.retired[Host] = None
    BY <1>1 DEF Sound
  <2>8. TrueWorld(S2, w2, w2, S2.tick)
    BY <2>1 DEF TrueWorld
  <2>9. ASSUME NEW x \in Slots, S2.retired[x] # None
        PROVE  /\ S2.retired[x] \in Nat
               /\ Ended(S2, w2, x, S2.retired[x])
               /\ \A t \in Nat : S2.tick <= t /\ t < S2.retired[x] => HasPacket(S2, x, t)
    <3>1. /\ S.retired[x] \in Nat /\ Ended(S, w, x, S.retired[x])
          /\ \A t \in Nat : S.tick <= t /\ t < S.retired[x] => HasPacket(S, x, t)
      BY <1>2, <2>9 DEF HostOK
    <3>2. Ended(S2, w2, x, S2.retired[x])
      BY <1>2, <2>4, <3>1, GrowsEnded
    <3>3. \A t \in Nat : S2.tick <= t => S.tick <= t /\ t # T
      BY <1>1, <1>5
    <3>4. QED
      BY <1>2, <2>2, <3>1, <3>2, <3>3
  <2>10. HostOK(S2, w2)
    <3>1. Due(S2, Host) = S2.nextSeal
      BY <1>1, <1>2, <2>6, <2>7 DEF HostOK
    <3>2. S2.tick <= MaxTick /\ (S2.barrier # None => S2.tick <= S2.barrier + 1)
      BY <1>1, <1>3, <1>5
    <3>3. QED
      BY <1>2, <2>6, <2>8, <2>9, <3>1, <3>2 DEF HostOK
  <2>11. ASSUME NEW j \in Joiners PROVE SameDue(S, S2, j)
    <3>1. j \in Slots
      BY DEF Joiners
    <3>2. QED
      BY <1>1, <1>2, <2>3, <2>5, <2>6, <3>1 DEF SameDue, HasSaid
  <2>12. QED
    BY <1>2, <2>4, <2>10, <2>11 DEF S2, w2
<1>6. QED
  BY <1>2, <1>4, <1>5

LEMMA HostAdvanceKept ==
  ASSUME NEW h, NEW w, NEW J, GameOK(h, w, J), Ready(h.session), h.session.tick < MaxTick,
         NEW a, a = Advance(h.session, w)
  PROVE  GameOK([h EXCEPT !.session = a.session, !.quiet = {}], a.world, J)
<1> DEFINE S == h.session
           S2 == a.session
           w2 == a.world
           h2 == [h EXCEPT !.session = S2, !.quiet = {}]
<1>1. Wired(h) /\ Lists(h) /\ HostOK(S, w)
  BY GameLists
<1>2. Missing(S) = {} /\ ~AtBarrier(S) /\ S.tick < MaxTick
  BY DEF Ready
<1>3. /\ HostOK(S2, w2) /\ Grows(S, w, S2, w2)
      /\ \A j \in Joiners : SameDue(S, S2, j)
      /\ S2.retired = S.retired
  BY <1>1, <1>2, HostRuns1
<1> HIDE DEF S2, w2
<1>4. /\ Wired(h2) /\ h2.session = S2 /\ h2.waiting = h.waiting /\ h2.quiet = {}
      /\ h2.outbox = h.outbox /\ h2.line = h.line /\ h2.up = h.up /\ h2.down = h.down
  BY <1>1 DEF Wired, HostFields
<1> HIDE DEF h2
<1>5. Moves(S2, w2, h, h2)
  BY <1>1, <1>4, MovesSelf, MovesLike
<1>6. ASSUME NEW j \in Joiners, h2.session.retired[j] = None PROVE LinesOK(h2, j)
  <2>1. LinesOK(h, j)
    BY <1>3, <1>4, <1>6 DEF GameOK, SeatOK, FreeOK
  <2>2. QED
    BY <1>4, <2>1 DEF LinesOK
<1>7. h2.waiting \subseteq Joiners /\ h2.quiet \subseteq Joiners /\ IsList(h2.outbox)
  BY <1>4 DEF GameOK
<1>8. /\ HostOK(h2.session, w2) /\ Grows(S, w, h2.session, w2) /\ Moves(h2.session, w2, h, h2)
      /\ \A j \in Joiners : SameDue(S, h2.session, j)
  BY <1>3, <1>4, <1>5
<1>9. GameOK(h2, w2, J)
  BY <1>6, <1>7, <1>8, HostKept
<1>10. QED
  BY <1>9 DEF h2, S2, w2

(***************************************************************************)
(* A message read from a connection.                                       *)
(***************************************************************************)
LEMMA UpTail ==
  ASSUME NEW q, NEW j, NEW on, UpOK(q, j, on), q # <<>>
  PROVE  /\ UpOK(Tail(q), j, on)
         /\ \A i \in DOMAIN Tail(q) : i \in Nat /\ i + 1 \in DOMAIN q /\ Tail(q)[i] = q[i + 1]
         /\ Len(Tail(q)) = Len(q) - 1 /\ 1 \in DOMAIN q /\ Head(q) = q[1]
         /\ \A i \in DOMAIN Tail(q) : Tail(q)[i].type # "Join"
         /\ ~IsTick(Head(q)) => \A i \in DOMAIN q : ~IsTick(q[i])
<1>1. IsList(q)
  BY DEF UpOK
<1>2. /\ 1 \in DOMAIN q /\ Head(q) = q[1]
      /\ IsList(Tail(q)) /\ Len(Tail(q)) = Len(q) - 1
      /\ \A i \in DOMAIN Tail(q) : i + 1 \in DOMAIN q /\ Tail(q)[i] = q[i + 1]
  BY <1>1, ListTail
<1> DEFINE r == Tail(q)
<1> HIDE DEF r
<1>3. IsList(r) /\ \A i \in DOMAIN r : i \in Nat /\ 1 <= i /\ i + 1 \in DOMAIN q /\ r[i] = q[i + 1]
  BY <1>2, ListDomain DEF r
<1>4. \A i \in DOMAIN q : i \in Nat /\ 1 <= i
  BY <1>1, ListDomain
<1>5. ASSUME NEW i \in DOMAIN r PROVE r[i].type # "Join"
  <2>1. i + 1 # 1
    BY <1>3
  <2>2. QED
    BY <1>3, <2>1 DEF UpOK
<1>6. ASSUME NEW i \in DOMAIN r, IsTick(r[i])
      PROVE  /\ on = "seated" /\ PacketOK(r[i].packet) /\ r[i].packet.from = j
             /\ \A k \in DOMAIN r : k < i => IsTick(r[k])
  <2>1. IsTick(q[i + 1]) /\ i + 1 \in DOMAIN q /\ r[i] = q[i + 1]
    BY <1>3, <1>6
  <2>2. \A k \in DOMAIN r : k < i => k + 1 \in DOMAIN q /\ k + 1 < i + 1 /\ r[k] = q[k + 1]
    BY <1>3
  <2>3. QED
    BY <2>1, <2>2 DEF UpOK
<1>7. UpOK(r, j, on)
  BY <1>3, <1>5, <1>6 DEF UpOK
<1>8. ASSUME ~IsTick(Head(q)), NEW i \in DOMAIN q PROVE ~IsTick(q[i])
  <2>1. i = 1 \/ 1 < i
    BY <1>4
  <2>2. QED
    BY <1>2, <1>8, <2>1 DEF UpOK
<1>9. QED
  BY <1>2, <1>3, <1>5, <1>7, <1>8 DEF r

\* Only its last message closes a connection.
LEMMA ClosedTail ==
  ASSUME NEW q, IsList(q), q # <<>>, Head(q) # Fin
  PROVE  Closed(Tail(q)) <=> Closed(q)
<1>1. /\ Head(q) = q[1] /\ Len(Tail(q)) = Len(q) - 1 /\ IsList(Tail(q))
      /\ Tail(q) # <<>> => Last(Tail(q)) = Last(q)
  BY ListTail
<1>2. CASE Tail(q) # <<>>
  BY <1>1, <1>2 DEF Closed
<1>3. CASE Tail(q) = <<>>
  <2>1. Len(Tail(q)) = 0 /\ Len(q) \in Nat
    BY <1>1, <1>3, ListDomain
  <2> DEFINE m == Len(q)
             n == Len(Tail(q))
  <2>2. m \in Nat /\ n = 0 /\ n = m - 1
    BY <1>1, <2>1
  <2> HIDE DEF m, n
  <2>3. m = 1
    BY <2>2
  <2>5. Last(q) = Head(q)
    BY <1>1, <2>3 DEF Last, m
  <2>6. QED
    BY <1>3, <2>5 DEF Closed
<1>4. QED
  BY <1>2, <1>3

\* What is kept of a seat when one message of its connection c is read, but for what holds
\* as long as it is not retired.
LEMMA SeatRead ==
  ASSUME NEW h, NEW w, NEW h2, HostOK(h2.session, w), Grows(h.session, w, h2.session, w),
         NEW j \in Joiners, NEW c \in ConnsOf(j), NEW v, SeatOK(h, w, j, v),
         h.up[c] # <<>>, Head(h.up[c]) # Fin, h2.up[c] = Tail(h.up[c]),
         \A d \in ConnsOf(j) \ {c} : h2.up[d] = h.up[d],
         \A d \in ConnsOf(j) : /\ h2.line[d] = h.line[d]
                               /\ Extends(h2.session, w, h.down[d], h2.down[d])
                               /\ h.line[d] = "none" => h2.down[d] = h.down[d],
         h2.session.retired[j] = None => FreeOK(h2, w, j, v)
  PROVE  SeatOK(h2, w, j, v)
<1> DEFINE S == h.session
           S2 == h2.session
           k == Cur(j, v)
<1>1. AlwaysOK(S2, w, j, v) /\ Sound(v.session, j) /\ v.conn \in 0 .. MaxConn
  BY GrowsAlways DEF SeatOK, AlwaysOK
<1>2. k \in Conns /\ k \in ConnsOf(j)
  BY <1>1, CurConn
<1>3. \A d \in ConnsOf(j) : ConnOK(h, w, j, v, d)
  BY DEF SeatOK
<1>4. \A d \in ConnsOf(j) : IsList(h.down[d]) /\ IsList(h.up[d])
  BY <1>3 DEF ConnOK, DownOK, UpOK
<1>12. /\ UpOK(Tail(h.up[c]), j, h.line[c]) /\ UpOK(h.up[c], j, h.line[c]) /\ IsList(h.up[c])
       /\ \A i \in DOMAIN Tail(h.up[c]) : i + 1 \in DOMAIN h.up[c] /\ Tail(h.up[c])[i] = h.up[c][i + 1]
  <2> DEFINE q == h.up[c]
             on == h.line[c]
  <2>1. UpOK(q, j, on) /\ q # <<>> /\ IsList(q)
    BY <1>3, <1>4 DEF ConnOK
  <2> HIDE DEF q, on
  <2>2. /\ UpOK(Tail(q), j, on)
        /\ \A i \in DOMAIN Tail(q) : i + 1 \in DOMAIN q /\ Tail(q)[i] = q[i + 1]
    BY <2>1, UpTail
  <2>3. QED
    BY <2>1, <2>2 DEF q, on
<1>5. ASSUME NEW d \in ConnsOf(j) PROVE ConnOK(h2, w, j, v, d)
  <2>1. UpOK(h2.up[d], j, h2.line[d])
    BY <1>3, <1>12 DEF ConnOK
  <2>2. DownOK(S2, w, h2.down[d])
    BY <1>3, DownExtends DEF ConnOK
  <2>3. h2.line[d] \in {"none", "gone"} => h2.up[d] = <<>>
    BY <1>3 DEF ConnOK
  <2>4. QED
    BY <1>3, <2>1, <2>2, <2>3 DEF ConnOK
<1>6. OnlyTicks(h.up[k]) => OnlyTicks(h2.up[k])
  <2>1. CASE k = c
    <3>2. Closed(h2.up[c]) <=> Closed(h.up[c])
      BY <1>12, ClosedTail
    <3>3. \A i \in DOMAIN h2.up[c] : i + 1 \in DOMAIN h.up[c] /\ h2.up[c][i] = h.up[c][i + 1]
      BY <1>12
    <3>4. QED
      BY <2>1, <3>2, <3>3 DEF OnlyTicks
  <2>2. CASE k # c
    BY <1>2, <2>2
  <2>3. QED
    BY <2>1, <2>2
<1>7. OnlyJoins(h.up[k]) => OnlyJoins(h2.up[k])
  <2>1. CASE k = c
    <3>1. \A i \in DOMAIN h2.up[c] : i + 1 \in DOMAIN h.up[c] /\ h2.up[c][i] = h.up[c][i + 1]
      BY <1>12
    <3>2. QED
      BY <2>1, <3>1 DEF OnlyJoins
  <2>2. CASE k # c
    BY <1>2, <2>2
  <2>3. QED
    BY <2>1, <2>2
<1>8. v.phase = "playing" => PlayOK(h2, w, j, v)
  <2>1. HAVE v.phase = "playing"
  <2>2. HeardOK(S, w, j, v) /\ AheadOK(v, h.down[k]) /\ OnlyTicks(h.up[k])
    BY <2>1 DEF SeatOK, PlayOK
  <2>3. HeardOK(S2, w, j, v)
    BY <2>2, GrowsHeard
  <2>4. AheadOK(v, h2.down[k])
    BY <1>1, <1>2, <1>4, <2>2, <2>3, AheadExtends
  <2>5. QED
    BY <1>6, <2>2, <2>3, <2>4 DEF PlayOK
<1>9. Rejoining(h2.down[k]) => Rejoining(h.down[k])
  <2>1. ASSUME NEW i \in DOMAIN h2.down[k], h2.down[k][i].type = "Rejoin"
        PROVE  Rejoining(h.down[k])
    <3>1. ~NewDown(S2, w, h2.down[k][i])
      BY <2>1 DEF NewDown
    <3>2. i \in DOMAIN h.down[k] /\ h2.down[k][i] = h.down[k][i]
      BY <1>2, <1>4, <3>1, ExtendsMembers
    <3>3. QED
      BY <2>1, <3>2 DEF Rejoining
  <2>2. QED
    BY <2>1 DEF Rejoining
<1>10. InPlay(h2, j, v) => h2.line[k] \in {"seated", "gone"}
  BY <1>2, <1>9 DEF InPlay, SeatOK
<1>11. QED
  BY <1>1, <1>5, <1>7, <1>8, <1>10 DEF SeatOK

LEMMA QuietKept ==
  ASSUME NEW h, NEW w, NEW J, GameOK(h, w, J), NEW quiet1 \in SUBSET Joiners
  PROVE  GameOK([h EXCEPT !.quiet = quiet1], w, J)
<1> DEFINE S == h.session
           h2 == [h EXCEPT !.quiet = quiet1]
<1>1. Wired(h) /\ Lists(h) /\ Sound(S, Host) /\ HostOK(S, w)
  BY GameLists
<1>2. /\ Wired(h2) /\ h2.session = S /\ h2.waiting = h.waiting /\ h2.quiet = quiet1
      /\ h2.outbox = h.outbox /\ h2.line = h.line /\ h2.up = h.up /\ h2.down = h.down
  BY <1>1 DEF Wired, HostFields
<1> HIDE DEF h2
<1>3. Moves(S, w, h, h2)
  BY <1>1, <1>2, MovesSelf, MovesLike
<1>4. /\ Alike(S, h2.session) /\ IsList(h2.session.staged)
      /\ h2.session.barrier \in Nat \union {None}
      /\ h2.session.barrier # None => h2.session.tick <= h2.session.barrier + 1
  BY <1>1, <1>2 DEF Alike, Sound, HostOK
<1>5. h2.quiet \subseteq Joiners /\ IsList(h2.outbox)
  BY <1>2 DEF GameOK
<1>6. QED
  BY <1>2, <1>3, <1>4, <1>5, AlikeKept DEF h2

\* Read(h, c): the state with the first message of connection c read.
TakeFrom(h, c) == [h EXCEPT !.up[c] = Tail(@)]

LEMMA TakeFromIs ==
  ASSUME NEW h, Wired(h), NEW c \in Conns
  PROVE  /\ Wired(TakeFrom(h, c)) /\ Same(h, TakeFrom(h, c))
         /\ TakeFrom(h, c).line = h.line /\ TakeFrom(h, c).down = h.down
         /\ TakeFrom(h, c).up[c] = Tail(h.up[c])
         /\ \A d \in Conns \ {c} : TakeFrom(h, c).up[d] = h.up[d]
<1> DEFINE h2 == TakeFrom(h, c)
<1>1. /\ DOMAIN h2 = HostFields /\ h2.up = [h.up EXCEPT ![c] = Tail(@)] /\ h2.down = h.down
      /\ h2.line = h.line /\ h2.session = h.session /\ h2.waiting = h.waiting
      /\ h2.quiet = h.quiet /\ h2.outbox = h.outbox
  BY DEF TakeFrom, Wired, HostFields
<1> HIDE DEF h2
<1>2. DOMAIN h2.up = Conns /\ h2.up[c] = Tail(h.up[c])
      /\ \A d \in Conns \ {c} : h2.up[d] = h.up[d]
  BY <1>1 DEF Wired
<1>3. Wired(h2) /\ Same(h, h2)
  BY <1>1, <1>2 DEF Wired, Same
<1>4. QED
  BY <1>1, <1>2, <1>3 DEF h2

\* The others' seats, when one message is read and the session only hears.
LEMMA OthersKept ==
  ASSUME NEW h, NEW w, NEW h2, HostOK(h2.session, w), Grows(h.session, w, h2.session, w),
         NEW j \in Joiners, NEW v, SeatOK(h, w, j, v),
         SameDue(h.session, h2.session, j), h2.session.retired = h.session.retired,
         h2.waiting = h.waiting,
         \A d \in ConnsOf(j) : /\ h2.line[d] = h.line[d] /\ h2.up[d] = h.up[d]
                               /\ Extends(h2.session, w, h.down[d], h2.down[d])
                               /\ h.line[d] = "none" => h2.down[d] = h.down[d]
  PROVE  SeatOK(h2, w, j, v)
<1>1. \A d \in ConnsOf(j) : ConnStep(h2.session, w, h, h2, d)
  BY DEF ConnStep
<1>2. ASSUME h2.session.retired[j] = None PROVE LinesOK(h2, j)
  <2>1. LinesOK(h, j)
    BY <1>2 DEF SeatOK, FreeOK
  <2>2. QED
    BY <2>1 DEF LinesOK
<1>3. QED
  BY <1>1, <1>2, SeatKept

\* A message is read that is not a packet, or is one of a retired slot.
LEMMA ReadKept ==
  ASSUME NEW h, NEW w, NEW J, GameOK(h, w, J), NEW c \in Conns, h.up[c] # <<>>,
         Head(h.up[c]) # Fin,
         ~IsTick(Head(h.up[c])) \/ h.session.retired[SlotOf(c)] # None
  PROVE  GameOK(TakeFrom(h, c), w, J)
<1> DEFINE S == h.session
           h2 == TakeFrom(h, c)
           s == SlotOf(c)
           q == h.up[c]
<1>1. /\ Wired(h) /\ Lists(h) /\ HostOK(S, w) /\ S.tick \in Nat
      /\ s \in Joiners /\ c \in ConnsOf(s) /\ UpOK(q, s, h.line[c]) /\ IsList(q)
  BY GameLists, ConnsAre DEF ConnOK
<1>2. /\ Wired(h2) /\ Same(h, h2) /\ h2.line = h.line /\ h2.down = h.down
      /\ h2.up[c] = Tail(q) /\ \A d \in Conns \ {c} : h2.up[d] = h.up[d]
  BY <1>1, TakeFromIs
<1> HIDE DEF h2
<1>3. Grows(S, w, h2.session, w) /\ HostOK(h2.session, w) /\ h2.session = S /\ h2.waiting = h.waiting
  BY <1>1, <1>2, GrowsSelf DEF Same
<1>4. \A d \in Conns : Extends(h2.session, w, h.down[d], h2.down[d])
  BY <1>1, <1>2, ExtendsSelf DEF Lists
<1>5. ASSUME NEW j \in Joiners, j # s PROVE SeatOK(h2, w, j, J[j])
  <2>1. \A d \in ConnsOf(j) : d \in Conns /\ d # c
    BY <1>1, <1>5 DEF ConnsOf
  <2>2. SeatOK(h, w, j, J[j])
    BY DEF GameOK
  <2>3. SameDue(S, h2.session, j)
    BY <1>3 DEF SameDue
  <2>4. \A d \in ConnsOf(j) : /\ h2.line[d] = h.line[d] /\ h2.up[d] = h.up[d]
                              /\ Extends(h2.session, w, h.down[d], h2.down[d])
                              /\ h.line[d] = "none" => h2.down[d] = h.down[d]
    BY <1>2, <1>4, <2>1
  <2>5. QED
    BY <1>3, <2>2, <2>3, <2>4, OthersKept
<1> DEFINE v == J[s]
           k == Cur(s, v)
<1>6. SeatOK(h, w, s, v)
  BY <1>1 DEF GameOK
<1> HIDE DEF v
<1>7. /\ \A i \in DOMAIN Tail(q) : i \in Nat /\ i + 1 \in DOMAIN q /\ Tail(q)[i] = q[i + 1]
      /\ ~IsTick(Head(q)) => \A i \in DOMAIN q : ~IsTick(q[i])
  BY <1>1, UpTail
<1>8. ASSUME S.retired[s] = None PROVE FreeOK(h2, w, s, v)
  <2>1. FreeOK(h, w, s, v) /\ ~IsTick(Head(q))
    BY <1>6, <1>8 DEF SeatOK
  <2>2. \A i \in DOMAIN Tail(q) : ~IsTick(Tail(q)[i])
    BY <1>7, <2>1
  <2>3. \A d \in ConnsOf(s) : d \in Conns /\ (h2.up[d] = h.up[d] \/ (d = c /\ h2.up[d] = Tail(q)))
    BY <1>2 DEF ConnsOf
  <2>4. LinesOK(h2, s)
    BY <1>2, <1>3, <2>1 DEF FreeOK, LinesOK
  <2>5. AlignedOK(h2, s)
    BY <1>3, <2>1, <2>2, <2>3 DEF FreeOK, AlignedOK
  <2>6. InPlay(h2, s, v) <=> InPlay(h, s, v)
    BY <1>2 DEF InPlay
  <2>7. InPlay(h2, s, v) => OnlyCur(h2, s, v)
    BY <2>1, <2>2, <2>3, <2>6 DEF FreeOK, OnlyCur
  <2>8. v.phase = "knocking" => KnockedOK(h2, s, v)
    BY <1>2, <1>3, <2>1 DEF FreeOK, KnockedOK
  <2>9. ASSUME v.phase = "playing"
        PROVE  SaysOK(h2.session, w, s, v, h2.line[k], h2.up[k])
    <3>1. SaysOK(S, w, s, v, h.line[k], h.up[k]) /\ OnlyTicks(h.up[k])
      BY <1>6, <2>1, <2>9 DEF FreeOK, SeatOK, PlayOK
    <3>2. k \in ConnsOf(s)
      BY <1>1, <1>6, CurConn DEF SeatOK, AlwaysOK
    <3>3. CASE k # c
      BY <1>2, <1>3, <2>3, <3>1, <3>2, <3>3
    <3>4. CASE k = c
      <4>1. Closed(q)
        BY <1>1, <2>1, <3>1, <3>4, ListTail DEF OnlyTicks
      <4>2. Closed(Tail(q))
        BY <1>1, <4>1, ClosedTail
      <4>3. h2.up[k] = Tail(q) /\ h2.line[k] = h.line[k] /\ h2.session = S
        BY <1>2, <1>3, <3>4
      <4>4. QED
        BY <2>2, <3>1, <4>2, <4>3 DEF SaysOK
    <3>5. QED
      BY <3>3, <3>4
  <2>10. QED
    BY <2>4, <2>5, <2>7, <2>8, <2>9 DEF FreeOK
<1>9. SeatOK(h2, w, s, v)
  <2>1. \A d \in ConnsOf(s) \ {c} : h2.up[d] = h.up[d]
    BY <1>2 DEF ConnsOf
  <2>2. \A d \in ConnsOf(s) : /\ h2.line[d] = h.line[d]
                              /\ Extends(h2.session, w, h.down[d], h2.down[d])
                              /\ h.line[d] = "none" => h2.down[d] = h.down[d]
    BY <1>2, <1>4 DEF ConnsOf
  <2>3. h2.session.retired[s] = None => FreeOK(h2, w, s, v)
    BY <1>3, <1>8
  <2>4. h2.up[c] = Tail(h.up[c])
    BY <1>2
  <2> HIDE DEF s, q
  <2>5. QED
    BY <1>1, <1>3, <1>6, <2>1, <2>2, <2>3, <2>4, SeatRead
<1>10. \A j \in Joiners : SeatOK(h2, w, j, J[j])
  BY <1>5, <1>9 DEF v
<1>11. GameOK(h2, w, J)
  BY <1>2, <1>3, <1>10 DEF GameOK, Same
<1>12. QED
  BY <1>11 DEF h2

\* The next packet of a seat in the game is heard: what is still on its connections, and
\* what it has said by its own account, is what the host is to hear after it.
LEMMA SeatHeard ==
  ASSUME NEW h, NEW w, NEW j \in Joiners, NEW v, SeatOK(h, w, j, v), NEW c \in ConnsOf(j),
         h.session.retired[j] = None, h.up[c] # <<>>, IsTick(Head(h.up[c])),
         NEW p, p = Head(h.up[c]).packet,
         NEW h2, HostOK(h2.session, w), Grows(h.session, w, h2.session, w),
         Said(h2.session, w, j, Due(h.session, j)) = p.commands,
         Due(h.session, j) \in Nat, Due(h2.session, j) = Due(h.session, j) + 1,
         \A t \in Nat : HasSaid(h2.session, j, t) => HasSaid(h.session, j, t) \/ t = Due(h.session, j),
         h2.waiting = h.waiting, h2.up[c] = Tail(h.up[c]),
         \A d \in ConnsOf(j) \ {c} : h2.up[d] = h.up[d],
         \A d \in ConnsOf(j) : /\ h2.line[d] = h.line[d]
                               /\ Extends(h2.session, w, h.down[d], h2.down[d])
                               /\ h.line[d] = "none" => h2.down[d] = h.down[d]
  PROVE  FreeOK(h2, w, j, v)
<1> DEFINE S == h.session
           S2 == h2.session
           k == Cur(j, v)
           q == h.up[c]
           n == Due(S, j)
<1>1. FreeOK(h, w, j, v) /\ LinesOK(h, j) /\ AlignedOK(h, j)
  BY DEF SeatOK, FreeOK
<1>2. \A d \in ConnsOf(j) : ConnOK(h, w, j, v, d) /\ UpOK(h.up[d], j, h.line[d])
                            /\ IsList(h.up[d]) /\ IsList(h.down[d])
  BY DEF SeatOK, ConnOK, UpOK, DownOK
<1>3. UpOK(q, j, h.line[c]) /\ q # <<>> /\ IsList(q)
  BY <1>2
<1>4. k \in ConnsOf(j) /\ j \in Slots
  BY CurConn DEF SeatOK, AlwaysOK, Joiners
<1>5. /\ \A i \in DOMAIN Tail(q) : i \in Nat /\ i + 1 \in DOMAIN q /\ Tail(q)[i] = q[i + 1]
      /\ 1 \in DOMAIN q /\ Head(q) = q[1] /\ Len(Tail(q)) = Len(q) - 1
  <2> HIDE DEF q
  <2>1. QED
    BY <1>3, UpTail
<1>6. IsTick(q[1]) /\ q[1].packet = p
  BY <1>5
<1>7. h.line[c] = "seated"
  BY <1>3, <1>5, <1>6 DEF UpOK
<1>8. p.tick = n /\ n \in Nat /\ Due(S2, j) = n + 1
  BY <1>1, <1>5, <1>6 DEF AlignedOK
<1> HIDE DEF n
<1>9. \A d \in ConnsOf(j) : d # c => \A i \in DOMAIN h.up[d] : ~IsTick(h.up[d][i])
  BY <1>1, <1>2, <1>7 DEF LinesOK, UpOK
<1>10. \A d \in ConnsOf(j) : d = c \/ (d # c /\ h2.up[d] = h.up[d])
  OBVIOUS
<1>11. LinesOK(h2, j)
  BY <1>1 DEF LinesOK
<1>12. AlignedOK(h2, j)
  <2>1. ASSUME NEW i \in DOMAIN Tail(q), IsTick(Tail(q)[i])
        PROVE  Tail(q)[i].packet.tick = Due(S2, j) + i - 1
    <3>1. i \in Nat /\ i + 1 \in DOMAIN q /\ Tail(q)[i] = q[i + 1]
      BY <1>5
    <3>2. Tail(q)[i].packet.tick = n + (i + 1) - 1
      BY <1>1, <2>1, <3>1 DEF AlignedOK, n
    <3>3. QED
      BY <1>8, <3>1, <3>2
  <2>2. QED
    BY <1>9, <1>10, <2>1 DEF AlignedOK
<1>13. \A i \in DOMAIN h2.down[k] : h2.down[k][i].type = "Rejoin" =>
         i \in DOMAIN h.down[k] /\ h2.down[k][i] = h.down[k][i]
  <2>1. TAKE i \in DOMAIN h2.down[k]
  <2>2. HAVE h2.down[k][i].type = "Rejoin"
  <2>3. ~NewDown(S2, w, h2.down[k][i])
    BY <2>2 DEF NewDown
  <2>4. QED
    BY <1>2, <1>4, <2>3, ExtendsMembers
<1>14. InPlay(h2, j, v) => InPlay(h, j, v)
  BY <1>13 DEF InPlay, Rejoining
<1>15. InPlay(h, j, v) => c = k
  BY <1>1, <1>5, <1>6 DEF FreeOK, OnlyCur
<1>16. InPlay(h2, j, v) => OnlyCur(h2, j, v)
  BY <1>9, <1>10, <1>14, <1>15 DEF OnlyCur
<1>17. v.phase = "knocking" => KnockedOK(h2, j, v)
  <2>1. HAVE v.phase = "knocking"
  <2>2. ASSUME NEW i \in DOMAIN h2.down[k], h2.down[k][i].type = "Rejoin" PROVE FALSE
    <3>1. InPlay(h2, j, v)
      BY <2>1, <2>2 DEF InPlay, Rejoining
    <3>2. c = k
      BY <1>14, <1>15, <3>1
    <3>3. q[1].type = "Join" \/ q[1] = Fin
      BY <1>5, <2>1, <3>2 DEF SeatOK, OnlyJoins
    <3>4. QED
      BY <1>6, <3>3 DEF IsTick, Fin, Msg
  <2>3. QED
    BY <2>2 DEF KnockedOK
<1>18. v.phase = "playing" => SaysOK(S2, w, j, v, h2.line[k], h2.up[k])
  <2>1. HAVE v.phase = "playing"
  <2>2. c = k
    BY <1>15, <2>1 DEF InPlay
  <2>3. /\ SaysOK(S, w, j, v, "seated", q) /\ HeardOK(S, w, j, v) /\ Sound(v.session, j)
    BY <1>1, <1>7, <2>1, <2>2 DEF FreeOK, SeatOK, PlayOK, AlwaysOK
  <2>4. v.session.nextSeal \in Nat
    BY <2>3 DEF Sound
  <2>5. n < v.session.nextSeal /\ OwnIs(S, w, j, v, n, p.commands)
    BY <1>5, <1>6, <1>8, <2>3 DEF SaysOK
  <2>6. Due(S2, j) <= v.session.nextSeal
    BY <1>8, <2>4, <2>5
  <2>7. ASSUME ~Closed(Tail(q)) PROVE v.session.nextSeal = Due(S2, j) + Len(Tail(q))
    <3>1. Head(q) # Fin
      BY <1>5, <1>6 DEF IsTick, Fin, Msg
    <3>2. ~Closed(q)
      BY <1>3, <2>7, <3>1, ClosedTail
    <3>3. v.session.nextSeal = n + Len(q) /\ Len(q) \in Nat
      BY <1>3, <2>3, <3>2, ListDomain DEF SaysOK, n
    <3> DEFINE m == Len(q)
    <3> HIDE DEF m
    <3>4. v.session.nextSeal = n + m /\ m \in Nat /\ Len(Tail(q)) = m - 1
      BY <1>5, <3>3 DEF m
    <3>5. QED
      BY <1>8, <3>4
  <2>8. ASSUME NEW t \in Nat, HasSaid(S2, j, t) PROVE OwnIs(S2, w, j, v, t, Said(S2, w, j, t))
    <3>1. CASE HasSaid(S, j, t)
      <4>1. Said(S2, w, j, t) = Said(S, w, j, t)
        BY <1>4, <3>1 DEF Grows, Settled
      <4>2. OwnIs(S, w, j, v, t, Said(S2, w, j, t))
        BY <2>3, <3>1, <4>1 DEF SaysOK
      <4>3. QED
        BY <2>3, <4>2, GrowsOwn
    <3>2. CASE t = n
      <4>1. OwnIs(S, w, j, v, t, Said(S2, w, j, t))
        BY <2>5, <3>2 DEF n
      <4>2. QED
        BY <2>3, <4>1, GrowsOwn
    <3>3. QED
      BY <2>8, <3>1, <3>2 DEF n
  <2>9. ASSUME NEW i \in DOMAIN Tail(q), IsTick(Tail(q)[i])
        PROVE  /\ Tail(q)[i].packet.tick < v.session.nextSeal
               /\ OwnIs(S2, w, j, v, Tail(q)[i].packet.tick, Tail(q)[i].packet.commands)
    <3> DEFINE r == Tail(q)[i].packet
    <3>1. i + 1 \in DOMAIN q /\ Tail(q)[i] = q[i + 1]
      BY <1>5
    <3>2. r.tick < v.session.nextSeal /\ OwnIs(S, w, j, v, r.tick, r.commands) /\ r.tick \in Nat
      BY <1>3, <2>3, <2>9, <3>1 DEF SaysOK, UpOK, PacketOK
    <3> HIDE DEF r
    <3>3. OwnIs(S2, w, j, v, r.tick, r.commands)
      BY <2>3, <3>2, GrowsOwn
    <3>4. QED
      BY <3>2, <3>3 DEF r
  <2>10. h2.up[k] = Tail(q) /\ h2.line[k] = "seated"
    BY <1>4, <1>7, <2>2
  <2>11. QED
    BY <2>6, <2>7, <2>8, <2>9, <2>10 DEF SaysOK
<1>19. QED
  BY <1>11, <1>12, <1>16, <1>17, <1>18 DEF FreeOK

LEMMA AcceptedIs ==
  ASSUME NEW s, NEW me, Sound(s, me), NEW p, PacketOK(p), Verdict(s, p) = "Accepted"
  PROVE  /\ Sound(Receive(s, p), me) /\ Receive(s, p).inbox = s.inbox \union {Held(p)}
         /\ Receive(s, p).tick = s.tick /\ Receive(s, p).retired = s.retired
         /\ Receive(s, p).barrier = s.barrier /\ Receive(s, p).nextSeal = s.nextSeal
BY ReceiveSound

LEMMA FromJoinerKept ==
  ASSUME NEW h, NEW w, NEW J, GameOK(h, w, J), h.session.halt = Running,
         NEW c \in Conns, h.up[c] # <<>>, IsTick(Head(h.up[c])),
         NEW p, p = Head(h.up[c]).packet
  PROVE  GameOK(FromJoiner(TakeFrom(h, c), c, p), w, J)
<1> DEFINE S == h.session
           h1 == TakeFrom(h, c)
           s == SlotOf(c)
           q == h.up[c]
           S2 == Receive(S, p)
           h1r == [h1 EXCEPT !.session = Receive(@, p)]
           h2 == SendBut(h1r, c, TickMsg(p))
<1>1. /\ Wired(h) /\ Lists(h) /\ HostOK(S, w) /\ Sound(S, Host) /\ S.tick \in Nat
      /\ s \in Joiners /\ c \in ConnsOf(s) /\ UpOK(q, s, h.line[c]) /\ IsList(q)
      /\ h.line[c] # "none" /\ s \in Slots
  BY GameLists, ConnsAre DEF ConnOK, Joiners
<1>2. /\ Wired(h1) /\ Same(h, h1) /\ h1.line = h.line /\ h1.down = h.down
      /\ h1.up[c] = Tail(q) /\ \A d \in Conns \ {c} : h1.up[d] = h.up[d]
  BY <1>1, TakeFromIs
<1> HIDE DEF h1
<1>3. 1 \in DOMAIN q /\ Head(q) = q[1]
  BY <1>1, ListTail
<1>4. h.line[c] = "seated" /\ PacketOK(p) /\ p.from = s
  BY <1>1, <1>3 DEF UpOK
<1>5. IsSeated(h1, c)
  BY <1>2, <1>4 DEF IsSeated
<1>6. Head(q) # Fin
  BY DEF IsTick, Fin, Msg
<1>7. CASE IsError(Verdict(h1.session, p))
  <2>1. FromJoiner(h1, c, p) = Stop(h1, "Protocol")
    BY <1>5, <1>7 DEF FromJoiner
  <2>2. \A d \in Conns : h.line[d] = "none" => h1.up[d] = h.up[d]
    BY <1>1, <1>2
  <2>3. GameOK(Stop(h1, "Protocol"), w, J)
    BY <1>2, <2>2, StopKept
  <2>4. QED
    BY <2>1, <2>3 DEF h1
<1>8. CASE ~IsError(Verdict(h1.session, p)) /\ IsRetired(h1.session, p.from, p.tick)
  <2>1. FromJoiner(h1, c, p) = h1
    BY <1>5, <1>8 DEF FromJoiner
  <2>2. S.retired[s] # None
    BY <1>2, <1>4, <1>8 DEF IsRetired, Same
  <2>3. GameOK(h1, w, J)
    BY <1>6, <2>2, ReadKept DEF h1
  <2>4. QED
    BY <2>1, <2>3 DEF h1
<1>9. CASE ~IsError(Verdict(h1.session, p)) /\ ~IsRetired(h1.session, p.from, p.tick)
  <2>1. FromJoiner(h1, c, p) = h2
    BY <1>5, <1>9 DEF FromJoiner
  <2>2. Verdict(S, p) = "Accepted"
    <3>1. Verdict(S, p) \in {"Ignored", "Accepted"} /\ ~IsRetired(S, p.from, p.tick)
      BY <1>2, <1>9 DEF IsError, Same
    <3>2. Verdict(S, p) # "Ignored"
      BY <3>1 DEF Verdict
    <3>3. QED
      BY <3>1, <3>2
  <2>3. S.tick <= p.tick /\ ~HasPacket(S, s, p.tick) /\ p.tick \in Nat
    BY <1>1, <1>4, <2>2, AcceptedIsNew DEF PacketOK
  <2>4. S.retired[s] = None
    <3>1. ASSUME S.retired[s] # None PROVE FALSE
      <4>1. /\ S.retired[s] \in Nat
            /\ \A t \in Nat : S.tick <= t /\ t < S.retired[s] => HasPacket(S, s, t)
        BY <1>1, <3>1 DEF HostOK
      <4>2. ~(p.tick >= S.retired[s])
        BY <1>2, <1>4, <1>9, <3>1 DEF IsRetired, Same
      <4>3. QED
        BY <2>3, <4>1, <4>2
    <3>2. QED
      BY <3>1
  <2>5. SeatOK(h, w, s, J[s])
    BY <1>1 DEF GameOK
  <2>6. Due(S, s) \in Nat /\ p.tick = Due(S, s)
    <3>1. AlignedOK(h, s)
      BY <2>4, <2>5 DEF SeatOK, FreeOK
    <3>2. q[1].packet.tick = Due(S, s) + 1 - 1
      BY <1>1, <1>3, <3>1 DEF AlignedOK
    <3>3. Due(S, s) \in Nat
      BY <1>1 DEF HostOK
    <3>4. QED
      BY <1>3, <3>2, <3>3
  <2> DEFINE r == Held(p)
  <2>7. r.tick = p.tick /\ r.from = p.from /\ r.commands = p.commands /\ PacketOK(r)
    BY <1>4, HeldCommands DEF PacketOK
  <2>8. /\ Sound(S2, Host) /\ S2.inbox = S.inbox \union {r}
        /\ S2.tick = S.tick /\ S2.retired = S.retired /\ S2.barrier = S.barrier
        /\ S2.nextSeal = S.nextSeal
    BY <1>1, <1>4, <2>2, AcceptedIs
  <2> HIDE DEF r, S2
  <2>9. s # Host
    BY <1>1 DEF Joiners
  <2>10. /\ HostOK(S2, w) /\ Grows(S, w, S2, w) /\ AsSaid(S2, w, r)
         /\ Due(S2, s) = Due(S, s) + 1
         /\ \A t \in Nat : HasSaid(S2, s, t) => HasSaid(S, s, t) \/ t = Due(S, s)
         /\ \A j \in Joiners : j # s => SameDue(S, S2, j)
    <3>1. r.tick = Due(S, r.from) /\ S.retired[r.from] = None /\ r.from = s
      BY <1>4, <2>4, <2>6, <2>7
    <3>2. S2.nextSeal = IF r.from = Host THEN S.nextSeal + 1 ELSE S.nextSeal
      BY <2>8, <2>9, <3>1
    <3>3. /\ HostOK(S2, w) /\ Grows(S, w, S2, w) /\ AsSaid(S2, w, r)
          /\ Due(S2, r.from) = Due(S, r.from) + 1
          /\ \A t \in Nat : HasSaid(S2, r.from, t) => HasSaid(S, r.from, t) \/ t = Due(S, r.from)
          /\ \A j \in Joiners : j # r.from => SameDue(S, S2, j)
      BY <1>1, <2>7, <2>8, <3>1, <3>2, HearsNext
    <3>4. QED
      BY <3>1, <3>3
  <2>11. NewDown(S2, w, TickMsg(p))
    BY <2>7, <2>10, TickGood
  <2>12. Said(S2, w, s, Due(S, s)) = p.commands
    BY <1>4, <2>6, <2>7, <2>10 DEF AsSaid
  <2>13. /\ Wired(h1r) /\ h1r.session = S2 /\ h1r.waiting = h.waiting /\ h1r.quiet = h.quiet
         /\ h1r.outbox = h.outbox /\ h1r.line = h.line /\ h1r.up = h1.up /\ h1r.down = h.down
    BY <1>2 DEF Wired, HostFields, Same, S2
  <2> HIDE DEF h1r
  <2>14. Lists(h1r)
    BY <1>1, <2>13 DEF Lists
  <2> DEFINE m == TickMsg(p)
  <2> HIDE DEF m
  <2>15. /\ Moves(S2, w, h1r, SendBut(h1r, c, m)) /\ Same(h1r, SendBut(h1r, c, m))
         /\ SendBut(h1r, c, m).line = h1r.line /\ SendBut(h1r, c, m).up = h1r.up
    BY <2>11, <2>13, <2>14, SendMoves DEF m
  <2>16. h2 = SendBut(h1r, c, m)
    BY DEF m
  <2> HIDE DEF h2
  <2>17. /\ Wired(h2) /\ h2.session = S2 /\ h2.waiting = h.waiting /\ h2.quiet = h.quiet
         /\ h2.outbox = h.outbox /\ h2.line = h.line /\ h2.up = h1.up
         /\ \A d \in Conns : /\ Extends(S2, w, h.down[d], h2.down[d])
                             /\ h.line[d] = "none" => h2.down[d] = h.down[d]
    BY <2>13, <2>15, <2>16 DEF Same, Moves, ConnStep
  <2>18. HostOK(h2.session, w) /\ Grows(S, w, h2.session, w) /\ h2.session.retired = S.retired
    BY <2>8, <2>10, <2>17
  <2>19. ASSUME NEW j \in Joiners, j # s PROVE SeatOK(h2, w, j, J[j])
    <3>1. \A d \in ConnsOf(j) : d \in Conns /\ d # c
      BY <2>19 DEF ConnsOf
    <3>2. SeatOK(h, w, j, J[j])
      BY DEF GameOK
    <3>3. SameDue(S, h2.session, j)
      BY <2>10, <2>17, <2>19
    <3>4. \A d \in ConnsOf(j) : /\ h2.line[d] = h.line[d] /\ h2.up[d] = h.up[d]
                                /\ Extends(h2.session, w, h.down[d], h2.down[d])
                                /\ h.line[d] = "none" => h2.down[d] = h.down[d]
      BY <1>2, <2>17, <3>1
    <3>5. QED
      BY <2>17, <2>18, <3>2, <3>3, <3>4, OthersKept
  <2> DEFINE v == J[s]
  <2> HIDE DEF v
  <2>20. SeatOK(h2, w, s, v)
    <3> HIDE DEF s, q
    <3>1. \A d \in ConnsOf(s) \ {c} : h2.up[d] = h.up[d]
      BY <1>2, <2>17 DEF ConnsOf
    <3>2. \A d \in ConnsOf(s) : /\ h2.line[d] = h.line[d]
                                /\ Extends(h2.session, w, h.down[d], h2.down[d])
                                /\ h.line[d] = "none" => h2.down[d] = h.down[d]
      BY <2>17 DEF ConnsOf
    <3>3. h2.up[c] = Tail(h.up[c]) /\ h2.waiting = h.waiting
      BY <1>2, <2>17 DEF q
    <3>4. /\ Said(h2.session, w, s, Due(h.session, s)) = p.commands
          /\ Due(h.session, s) \in Nat /\ Due(h2.session, s) = Due(h.session, s) + 1
          /\ \A t \in Nat : HasSaid(h2.session, s, t) => HasSaid(h.session, s, t) \/ t = Due(h.session, s)
      BY <2>6, <2>10, <2>12, <2>17
    <3>5. SeatOK(h, w, s, v) /\ c \in ConnsOf(s) /\ s \in Joiners
      BY <1>1, <2>5 DEF v
    <3>6. FreeOK(h2, w, s, v)
      BY <2>4, <2>18, <3>1, <3>2, <3>3, <3>4, <3>5, SeatHeard
    <3>7. QED
      BY <1>6, <2>18, <3>1, <3>2, <3>3, <3>5, <3>6, SeatRead DEF q
  <2>21. \A j \in Joiners : SeatOK(h2, w, j, J[j])
    BY <2>19, <2>20 DEF v
  <2>22. GameOK(h2, w, J)
    BY <2>17, <2>18, <2>21 DEF GameOK
  <2>23. QED
    BY <2>1, <2>22 DEF h1
<1>10. QED
  BY <1>7, <1>8, <1>9

(***************************************************************************)
(* A knock, a goodbye, and a joiner's word that the game is over.          *)
(***************************************************************************)
LEMMA SendOneKept ==
  ASSUME NEW h, NEW w, NEW J, GameOK(h, w, J), NEW c \in Conns, h.line[c] # "none",
         NEW m, NewDown(h.session, w, m)
  PROVE  /\ GameOK(Send(h, c, <<m>>), w, J)
         /\ Send(h, c, <<m>>).line = h.line
<1> DEFINE S == h.session
           h2 == Send(h, c, <<m>>)
<1>1. Wired(h) /\ Lists(h)
  BY GameLists
<1>2. /\ DOMAIN h2 = HostFields /\ h2.down = [h.down EXCEPT ![c] = Put(@, <<m>>)]
      /\ h2.line = h.line /\ h2.up = h.up /\ h2.session = h.session /\ h2.waiting = h.waiting
      /\ h2.quiet = h.quiet /\ h2.outbox = h.outbox
  BY <1>1 DEF Send, Wired, HostFields
<1> HIDE DEF h2
<1>3. /\ DOMAIN h2.down = Conns /\ h2.down[c] = Put(h.down[c], <<m>>)
      /\ \A d \in Conns \ {c} : h2.down[d] = h.down[d]
  BY <1>1, <1>2 DEF Wired
<1>4. Wired(h2) /\ Same(h, h2)
  BY <1>1, <1>2, <1>3 DEF Wired, Same
<1>5. Extends(S, w, h.down[c], Put(h.down[c], <<m>>))
  BY <1>1, OneMessage, ExtendsPut DEF Lists
<1>6. ASSUME NEW d \in Conns PROVE ConnStep(S, w, h, h2, d) /\ IsList(h2.down[d])
  <2>1. Extends(S, w, h.down[d], h.down[d]) /\ IsList(h.down[d])
    BY <1>1, ExtendsSelf DEF Lists
  <2>2. ConnStep(S, w, h, h2, d)
    BY <1>2, <1>3, <1>5, <2>1 DEF ConnStep
  <2>3. QED
    BY <2>1, <2>2, ExtendsList DEF ConnStep
<1>7. Moves(S, w, h, h2)
  BY <1>4, <1>6 DEF Moves, Lists
<1>8. GameOK(h2, w, J)
  BY <1>4, <1>7, SameKept
<1>9. QED
  BY <1>2, <1>8 DEF h2

LEMMA SeatKnocks ==
  ASSUME NEW h, NEW w, HostOK(h.session, w), NEW j \in Joiners, NEW v, SeatOK(h, w, j, v),
         NEW c \in ConnsOf(j), h.line[c] \in {"connecting", "accepted", "stranger"},
         \A i \in DOMAIN h.up[c] : h.up[c][i].type # "Join", j \in h.waiting,
         NEW h2, h2.session = h.session, h2.waiting = h.waiting,
         h2.up = h.up, h2.down = h.down, h2.line[c] = "rejoining",
         \A d \in ConnsOf(j) \ {c} : h2.line[d] = h.line[d]
  PROVE  SeatOK(h2, w, j, v)
<1> DEFINE S == h.session
           k == Cur(j, v)
<1>1. k \in ConnsOf(j)
  BY CurConn DEF SeatOK, AlwaysOK
<1>2. \A d \in ConnsOf(j) : ConnOK(h, w, j, v, d)
  BY DEF SeatOK
<1>3. \A d \in ConnsOf(j) : d = c \/ (d # c /\ h2.line[d] = h.line[d])
  OBVIOUS
<1>4. \A i \in DOMAIN h.up[c] : ~IsTick(h.up[c][i])
  BY <1>2 DEF ConnOK, UpOK
<1>5. UpOK(h.up[c], j, "rejoining")
  BY <1>2, <1>4 DEF ConnOK, UpOK
<1>6. ASSUME NEW d \in ConnsOf(j) PROVE ConnOK(h2, w, j, v, d)
  <2>1. CASE d = c
    BY <1>2, <1>5, <2>1 DEF ConnOK
  <2>2. CASE d # c
    BY <1>2, <1>3, <2>2 DEF ConnOK
  <2>3. QED
    BY <2>1, <2>2
<1>7. InPlay(h2, j, v) <=> InPlay(h, j, v)
  BY DEF InPlay
<1>8. InPlay(h, j, v) => k # c /\ h2.line[k] = h.line[k] /\ h.line[k] \in {"seated", "gone"}
  BY <1>1, <1>3 DEF SeatOK
<1>9. ASSUME S.retired[j] = None PROVE FreeOK(h2, w, j, v)
  <2>1. FreeOK(h, w, j, v)
    BY <1>9 DEF SeatOK
  <2>2. LinesOK(h2, j)
    <3>1. LinesOK(h, j) /\ h2.line[c] # "seated"
      BY <2>1 DEF FreeOK
    <3>2. \A d \in ConnsOf(j) : h2.line[d] = "seated" => h.line[d] = "seated"
      BY <1>3, <3>1
    <3>3. QED
      BY <3>1, <3>2 DEF LinesOK
  <2>3. AlignedOK(h2, j) /\ (InPlay(h2, j, v) => OnlyCur(h2, j, v))
        /\ (v.phase = "knocking" => KnockedOK(h2, j, v))
    BY <1>7, <2>1 DEF FreeOK, AlignedOK, OnlyCur, KnockedOK
  <2>4. v.phase = "playing" => SaysOK(h2.session, w, j, v, h2.line[k], h2.up[k])
    BY <1>8, <2>1 DEF FreeOK, InPlay
  <2>5. QED
    BY <2>2, <2>3, <2>4 DEF FreeOK
<1>10. v.phase = "playing" => PlayOK(h2, w, j, v)
  BY DEF SeatOK, PlayOK
<1>11. QED
  BY <1>6, <1>7, <1>8, <1>9, <1>10 DEF SeatOK

LEMMA KnockKept ==
  ASSUME NEW h, NEW w, NEW J, GameOK(h, w, J), NEW c \in Conns, h.up[c] # <<>>,
         Head(h.up[c]).type = "Join"
  PROVE  GameOK(Knock(TakeFrom(h, c), c), w, J)
<1> DEFINE h1 == TakeFrom(h, c)
           s == SlotOf(c)
           q == h.up[c]
           why == IF h1.session.retired[s] # None THEN "Retired" ELSE "Started"
           m == [type |-> "NoSeat", why |-> why]
           h2 == [h1 EXCEPT !.line[c] = "rejoining"]
           h3 == Send(h1, c, <<m>>)
           conns == {c}
<1>1. /\ Wired(h) /\ UpOK(q, s, h.line[c]) /\ ConnOK(h, w, s, J[s], c)
      /\ s \in Joiners /\ c \in ConnsOf(s)
  BY GameLists, ConnsAre DEF ConnOK
<1>2. /\ 1 \in DOMAIN q /\ Head(q) = q[1]
      /\ \A i \in DOMAIN Tail(q) : Tail(q)[i].type # "Join"
  <2> HIDE DEF q, s
  <2>1. q # <<>>
    BY DEF q
  <2>2. QED
    BY <1>1, <2>1, UpTail
<1>3. h.line[c] \in {"connecting", "accepted", "stranger"}
  BY <1>1, <1>2 DEF UpOK, ConnOK
<1>4. GameOK(h1, w, J)
  <2>1. Head(q) # Fin /\ ~IsTick(Head(q))
    BY DEF Fin, Msg, IsTick
  <2>2. QED
    BY <2>1, ReadKept
<1>5. /\ Wired(h1) /\ h1.line = h.line /\ h1.up[c] = Tail(q)
  BY <1>1, TakeFromIs
<1> HIDE DEF h1
<1>6. CASE s \in h1.waiting
  <2>1. Knock(h1, c) = h2
    BY <1>6 DEF Knock
  <2>2. /\ DOMAIN h2 = HostFields /\ h2.session = h1.session /\ h2.waiting = h1.waiting
        /\ h2.quiet = h1.quiet /\ h2.outbox = h1.outbox /\ h2.up = h1.up /\ h2.down = h1.down
        /\ h2.line = [h1.line EXCEPT ![c] = "rejoining"]
    BY <1>5 DEF Wired, HostFields
  <2> HIDE DEF h2
  <2>3. /\ Wired(h2) /\ h2.line[c] = "rejoining"
        /\ \A d \in Conns \ {c} : h2.line[d] = h1.line[d]
    <3>1. h1.line = [d \in Conns |-> h1.line[d]]
      BY <1>5 DEF Wired
    <3> DEFINE f == h1.line
    <3> HIDE DEF f
    <3>2. f = [d \in Conns |-> f[d]] /\ h2.line = [f EXCEPT ![c] = "rejoining"]
      BY <2>2, <3>1 DEF f
    <3>3. /\ h2.line = [d \in Conns |-> h2.line[d]] /\ h2.line[c] = "rejoining"
          /\ \A d \in Conns \ {c} : h2.line[d] = f[d]
      BY <3>2
    <3>4. QED
      BY <1>5, <2>2, <3>3 DEF Wired, f
  <2>4. HostOK(h2.session, w) /\ Grows(h1.session, w, h2.session, w)
    BY <1>4, <2>2, GameLists, GrowsSelf
  <2>5. ASSUME NEW j \in Joiners, j # s PROVE SeatOK(h2, w, j, J[j])
    <3>1. \A d \in ConnsOf(j) : d \in Conns /\ d # c
      BY <2>5 DEF ConnsOf
    <3>2. SeatOK(h1, w, j, J[j])
      BY <1>4 DEF GameOK
    <3>3. SameDue(h1.session, h2.session, j)
      BY <2>2 DEF SameDue
    <3>4. \A d \in ConnsOf(j) : /\ h2.line[d] = h1.line[d] /\ h2.up[d] = h1.up[d]
                                /\ Extends(h2.session, w, h1.down[d], h2.down[d])
                                /\ h1.line[d] = "none" => h2.down[d] = h1.down[d]
      <4>1. Lists(h1)
        BY <1>4, GameLists
      <4>2. QED
        BY <2>2, <2>3, <3>1, <4>1, ExtendsSelf DEF Lists
    <3>5. QED
      BY <2>2, <2>4, <3>2, <3>3, <3>4, OthersKept
  <2> DEFINE v == J[s]
  <2> HIDE DEF v
  <2>6. SeatOK(h2, w, s, v)
    <3>1. SeatOK(h1, w, s, v)
      BY <1>1, <1>4 DEF GameOK, v
    <3>2. \A d \in ConnsOf(s) \ {c} : h2.line[d] = h1.line[d]
      BY <2>3 DEF ConnsOf
    <3>3. \A i \in DOMAIN h1.up[c] : h1.up[c][i].type # "Join"
      BY <1>2, <1>5
    <3>4. HostOK(h1.session, w) /\ h1.line[c] \in {"connecting", "accepted", "stranger"}
      BY <1>3, <1>4, <1>5, GameLists
    <3> HIDE DEF s, q
    <3>5. /\ s \in Joiners /\ c \in ConnsOf(s) /\ s \in h1.waiting
          /\ h2.session = h1.session /\ h2.waiting = h1.waiting
          /\ h2.up = h1.up /\ h2.down = h1.down /\ h2.line[c] = "rejoining"
      BY <1>1, <1>6, <2>2, <2>3
    <3>6. QED
      BY <3>1, <3>2, <3>3, <3>4, <3>5, SeatKnocks, Zenon
  <2>7. \A j \in Joiners : SeatOK(h2, w, j, J[j])
    BY <2>5, <2>6 DEF v
  <2>8. GameOK(h2, w, J)
    BY <1>4, <2>2, <2>3, <2>4, <2>7 DEF GameOK
  <2>9. QED
    BY <2>1, <2>8 DEF h1
<1>7. CASE s \notin h1.waiting
  <2>1. Knock(h1, c) = Disconnect(h3, conns)
    BY <1>7 DEF Knock
  <2>2. NewDown(h1.session, w, m)
    BY PlainNew DEF Plain
  <2>3. h1.line[c] # "none"
    BY <1>3, <1>5
  <2> HIDE DEF m
  <2>4. GameOK(h3, w, J) /\ h3.line = h1.line
    BY <1>4, <2>2, <2>3, SendOneKept
  <2> HIDE DEF h3
  <2>5. \A d \in conns : h3.line[d] # "none"
    BY <2>3, <2>4
  <2> HIDE DEF conns
  <2>6. GameOK(Disconnect(h3, conns), w, J)
    BY <2>4, <2>5, DisconnectKept
  <2>7. QED
    BY <2>1, <2>6 DEF h1
<1>8. QED
  BY <1>6, <1>7

LEMMA LeavingKept ==
  ASSUME NEW h, NEW w, NEW J, GameOK(h, w, J), NEW c \in Conns, h.up[c] # <<>>,
         Head(h.up[c]).type = "Leaving"
  PROVE  /\ GameOK(TakeFrom(h, c), w, J)
         /\ GameOK(ToComputer(TakeFrom(h, c), <<SlotOf(c)>>), w, J)
<1>1. Head(h.up[c]) # Fin /\ ~IsTick(Head(h.up[c]))
  BY DEF Fin, Msg, IsTick
<1>2. GameOK(TakeFrom(h, c), w, J)
  BY <1>1, ReadKept
<1>3. IsList(<<SlotOf(c)>>) /\ Range(<<SlotOf(c)>>) \subseteq Joiners
  BY ConnsAre, OneMessage DEF Range
<1>4. QED
  BY <1>2, <1>3, ToComputerKept

LEMMA ToldHaltKept ==
  ASSUME NEW h, NEW w, NEW J, GameOK(h, w, J), NEW c \in Conns, h.up[c] # <<>>,
         Head(h.up[c]).type = "Halt"
  PROVE  /\ GameOK(TakeFrom(h, c), w, J)
         /\ \A reason : GameOK(Stop(TakeFrom(h, c), reason), w, J)
<1>1. Head(h.up[c]) # Fin /\ ~IsTick(Head(h.up[c]))
  BY DEF Fin, Msg, IsTick
<1> DEFINE h1 == TakeFrom(h, c)
<1>2. GameOK(h1, w, J)
  BY <1>1, ReadKept
<1> HIDE DEF h1
<1>3. Wired(h1) /\ Same(h1, h1)
  BY <1>2, GameLists DEF Same
<1>4. \A reason : GameOK(Stop(h1, reason), w, J)
  BY <1>2, <1>3, StopKept
<1>5. QED
  BY <1>2, <1>4 DEF h1

(***************************************************************************)
(* Whoever has knocked is seated.                                          *)
(***************************************************************************)
\* A message of a welcome.
Welcoming(S, w, m) ==
  DownGood(S, w, m) /\ m.type # "ResyncAt" /\ (m.type = "Rejoin" => m.next = S.tick)

AllWelcoming(S, w, q) == IsList(q) /\ \A i \in DOMAIN q : Welcoming(S, w, q[i])

LEMMA WelcomeConcat ==
  ASSUME NEW S, NEW w, NEW p, AllWelcoming(S, w, p), NEW q, AllWelcoming(S, w, q)
  PROVE  AllWelcoming(S, w, p \o q)
<1>1. IsList(p) /\ IsList(q)
  BY DEF AllWelcoming
<1> DEFINE r == p \o q
<1>2. /\ IsList(r)
      /\ \A i \in DOMAIN r : \/ i \in DOMAIN p /\ r[i] = p[i]
                             \/ i - Len(p) \in DOMAIN q /\ r[i] = q[i - Len(p)]
  BY <1>1, ListConcat
<1> HIDE DEF r
<1>3. QED
  BY <1>2 DEF AllWelcoming, r

\* The host's inbox is what the slots have said.
LEMMA InboxSaid ==
  ASSUME NEW S, NEW w, Sound(S, Host), NEW p \in S.inbox
  PROVE  AsSaid(S, w, p) /\ AsSaid(S, w, Bare(p))
<1>1. /\ PacketOK(p) /\ S.tick \in Nat /\ S.tick <= p.tick /\ p.tick \in Nat
      /\ \A q \in S.inbox : q.from = p.from /\ q.tick = p.tick => q = p
  BY DEF Sound, InboxOK, PacketOK
<1>2. HasSaid(S, p.from, p.tick)
  BY DEF HasSaid, HasPacket
<1>3. {q \in S.inbox : q.tick = p.tick /\ q.from = p.from} = {p}
  BY <1>1
<1>4. ~(p.tick < S.tick)
  BY <1>1
<1>5. Said(S, w, p.from, p.tick) = p.commands
  BY <1>3, <1>4 DEF Said
<1>6. AsSaid(S, w, p)
  BY <1>1, <1>2, <1>5 DEF AsSaid
<1>7. Bare(p).tick = p.tick /\ Bare(p).from = p.from /\ Bare(p).commands = p.commands
  BY DEF Bare
<1>8. QED
  BY <1>6, <1>7 DEF AsSaid, PacketOK

\* Messages that name one slot each.
LEMMA SlottedWelcoming ==
  ASSUME NEW S, NEW w, NEW type \in {"Away", "Back"}, NEW slots, IsList(slots),
         Range(slots) \subseteq Joiners
  PROVE  /\ AllWelcoming(S, w, Slotted(type, slots))
         /\ \A i \in DOMAIN Slotted(type, slots) : NewDown(S, w, Slotted(type, slots)[i])
<1> DEFINE q == Slotted(type, slots)
<1>1. Len(slots) \in Nat /\ DOMAIN slots = 1 .. Len(slots)
  BY ListDomain
<1>2. q = [i \in 1 .. Len(slots) |-> SlotMsg(type, slots[i])]
  BY <1>1 DEF Slotted
<1> HIDE DEF q
<1>3. q = [i \in 1 .. Len(slots) |-> q[i]] /\ DOMAIN q = DOMAIN slots
  BY <1>1, <1>2
<1>4. IsList(q)
  BY <1>1, <1>3, ListOf
<1>5. ASSUME NEW i \in DOMAIN q PROVE DownGood(S, w, q[i]) /\ q[i].type = type
  <2>1. q[i].type = type /\ q[i].slot \in Joiners
    BY <1>1, <1>2, <1>5 DEF SlotMsg, Range
  <2>2. QED
    BY <2>1 DEF DownGood
<1>6. QED
  BY <1>4, <1>5 DEF AllWelcoming, Welcoming, NewDown, q

LEMMA SeatsAre ==
  ASSUME NEW conns, IsList(conns), Range(conns) \subseteq Conns
  PROVE  /\ IsList(SeatsOf(conns)) /\ Range(SeatsOf(conns)) \subseteq Joiners
         /\ \A c \in Range(conns) : SlotOf(c) \in Range(SeatsOf(conns))
         /\ \A s \in Range(SeatsOf(conns)) : \E c \in Range(conns) : SlotOf(c) = s
<1> DEFINE q == SeatsOf(conns)
<1>1. Len(conns) \in Nat /\ DOMAIN conns = 1 .. Len(conns)
  BY ListDomain
<1>2. q = [i \in 1 .. Len(conns) |-> SlotOf(conns[i])]
  BY <1>1 DEF SeatsOf
<1> HIDE DEF q
<1>3. q = [i \in 1 .. Len(conns) |-> q[i]] /\ DOMAIN q = DOMAIN conns
      /\ \A i \in DOMAIN conns : q[i] = SlotOf(conns[i])
  BY <1>1, <1>2
<1>4. IsList(q)
  BY <1>1, <1>3, ListOf
<1>5. \A i \in DOMAIN conns : conns[i] \in Conns /\ SlotOf(conns[i]) \in Joiners
  BY ConnsAre DEF Range
<1>6. Range(q) \subseteq Joiners
  BY <1>3, <1>5 DEF Range
<1>7. /\ \A c \in Range(conns) : SlotOf(c) \in Range(q)
      /\ \A s \in Range(q) : \E c \in Range(conns) : SlotOf(c) = s
  BY <1>3 DEF Range
<1>8. QED
  BY <1>4, <1>6, <1>7 DEF q

LEMMA ListSuffix ==
  ASSUME NEW q, IsList(q), NEW n \in DOMAIN q
  PROVE  /\ IsList(SubSeq(q, n + 1, Len(q)))
         /\ Range(SubSeq(q, n + 1, Len(q))) \subseteq Range(q)
<1>1. Len(q) \in Nat /\ n \in Nat /\ 1 <= n /\ n <= Len(q) /\ DOMAIN q = 1 .. Len(q)
  BY ListDomain
<1> DEFINE r == SubSeq(q, n + 1, Len(q))
           m == Len(q)
<1>2. r = [i \in 1 .. (m - n) |-> q[i + n]]
  BY <1>1 DEF SubSeq
<1>3. m - n \in Nat /\ DOMAIN r = 1 .. (m - n) /\ r = [i \in 1 .. (m - n) |-> r[i]]
  BY <1>1, <1>2
<1> HIDE DEF r
<1>4. IsList(r)
  BY <1>3, ListOf
<1>5. ASSUME NEW i \in DOMAIN r PROVE r[i] \in Range(q)
  <2>1. i \in Nat /\ 1 <= i /\ i <= m - n /\ r[i] = q[i + n]
    BY <1>1, <1>2, <1>3
  <2>2. i + n \in DOMAIN q
    BY <1>1, <2>1
  <2>3. QED
    BY <2>1, <2>2 DEF Range
<1>6. QED
  BY <1>4, <1>5 DEF r, Range

LEMMA WelcomeGood ==
  ASSUME NEW h, NEW w, w = world[Host], HostOK(h.session, w), h.waiting \subseteq Joiners,
         NEW conns, IsList(conns), Range(conns) \subseteq Conns, NEW i \in DOMAIN conns
  PROVE  AllWelcoming(h.session, w, Welcome(h, conns, i))
<1> DEFINE S == h.session
           m == [type |-> "Rejoin", next |-> S.tick, world |-> world[Host], retired |-> S.retired]
           ticks == Unsimulated(S, SlotOf(conns[i]))
           a == <<m>>
           b == [k \in DOMAIN ticks |-> TickMsg(ticks[k])]
           away == SetToSeq(h.waiting \ Range(SubSeq(SeatsOf(conns), 1, i)))
           rest == SubSeq(conns, i + 1, Len(conns))
<1>1. Sound(S, Host) /\ S.tick \in Nat /\ TrueWorld(S, w, w, S.tick) /\ S.retired[Host] = None
  BY DEF HostOK, Sound
<1>2. AllWelcoming(S, w, a)
  <2>1. m.type = "Rejoin" /\ m.next = S.tick /\ m.world = w /\ m.retired = S.retired
    OBVIOUS
  <2> HIDE DEF m
  <2>2. DownGood(S, w, m)
    <3>1. \A x \in Slots : S.retired[x] # None => Ended(S, w, x, S.retired[x])
      BY DEF HostOK
    <3>2. QED
      BY <1>1, <2>1, <3>1 DEF DownGood
  <2>3. Welcoming(S, w, m)
    BY <2>1, <2>2 DEF Welcoming
  <2>4. QED
    BY <2>3, OneMessage DEF AllWelcoming
<1>3. AllWelcoming(S, w, b)
  <2>1. /\ IsList(ticks)
        /\ \A k \in DOMAIN ticks : \E p \in S.inbox : ticks[k] = Bare(p)
    BY <1>1, UnsimulatedAll
  <2> HIDE DEF ticks
  <2>2. Len(ticks) \in Nat /\ DOMAIN ticks = 1 .. Len(ticks)
    BY <2>1, ListDomain
  <2>3. b = [k \in 1 .. Len(ticks) |-> b[k]] /\ DOMAIN b = DOMAIN ticks
        /\ \A k \in DOMAIN ticks : b[k] = TickMsg(ticks[k])
    BY <2>2
  <2> HIDE DEF b
  <2>4. IsList(b)
    BY <2>2, <2>3, ListOf
  <2>5. ASSUME NEW k \in DOMAIN b PROVE Welcoming(S, w, b[k])
    <3>1. PICK p \in S.inbox : ticks[k] = Bare(p)
      BY <2>1, <2>3
    <3>2. AsSaid(S, w, ticks[k])
      BY <1>1, <3>1, InboxSaid
    <3>5. b[k] = TickMsg(ticks[k])
      BY <2>3, Zenon
    <3>3. b[k].type = "Tick" /\ b[k].packet = ticks[k]
      BY <3>5 DEF TickMsg
    <3>4. QED
      BY <3>2, <3>3 DEF Welcoming, DownGood
  <2>6. QED
    BY <2>4, <2>5 DEF AllWelcoming
<1>4. AllWelcoming(S, w, Slotted("Away", away))
  <2> DEFINE X == h.waiting \ Range(SubSeq(SeatsOf(conns), 1, i))
  <2>1. X \subseteq Joiners /\ IsFiniteSet(Joiners)
    BY SessionAssumption, FS_Subset DEF Joiners
  <2> HIDE DEF X
  <2>2. IsFiniteSet(X)
    BY <2>1, FS_Subset
  <2>3. IsList(SetToSeq(X)) /\ Range(SetToSeq(X)) = X
    BY <2>2, Listed
  <2>4. AllWelcoming(S, w, Slotted("Away", SetToSeq(X)))
    BY <2>1, <2>3, SlottedWelcoming
  <2>5. QED
    BY <2>4 DEF X
<1>5. AllWelcoming(S, w, Back(rest))
  <2>1. IsList(rest) /\ Range(rest) \subseteq Range(conns)
    BY ListSuffix
  <2> HIDE DEF rest
  <2>2. IsList(SeatsOf(rest)) /\ Range(SeatsOf(rest)) \subseteq Joiners
    BY <2>1, SeatsAre
  <2>3. QED
    BY <2>2, SlottedWelcoming DEF Back
<1>6. Welcome(h, conns, i) = a \o b \o Slotted("Away", away) \o Back(rest)
  BY DEF Welcome
<1> HIDE DEF a, b, away, rest
<1>7. AllWelcoming(S, w, a \o b)
  BY <1>2, <1>3, WelcomeConcat
<1>8. AllWelcoming(S, w, a \o b \o Slotted("Away", away))
  BY <1>4, <1>7, WelcomeConcat
<1>9. AllWelcoming(S, w, a \o b \o Slotted("Away", away) \o Back(rest))
  BY <1>5, <1>8, WelcomeConcat
<1>10. QED
  BY <1>6, <1>9

\* The state once the connections listed are seated.
LEMMA SeatIs ==
  ASSUME NEW h, Wired(h), NEW conns, IsList(conns), Range(conns) \subseteq Conns, NEW h2, h2 = Seat(h, conns)
  PROVE  /\ Wired(h2) /\ h2.session = h.session /\ h2.quiet = h.quiet /\ h2.outbox = h.outbox
         /\ h2.waiting = h.waiting \ Range(SeatsOf(conns)) /\ h2.up = h.up
         /\ \A c \in Range(conns) : h2.line[c] = "seated" /\
              \E i \in DOMAIN conns : conns[i] = c /\ h2.down[c] = Put(h.down[c], Welcome(h, conns, i))
         /\ \A c \in Conns \ Range(conns) :
              /\ h2.line[c] = h.line[c]
              /\ h2.down[c] = IF IsSeated(h, c) THEN Put(h.down[c], Back(conns)) ELSE h.down[c]
<1> DEFINE place(c) == CHOOSE i \in DOMAIN conns : conns[i] = c
<1>1. /\ DOMAIN h2 = HostFields
      /\ h2.session = h.session /\ h2.quiet = h.quiet /\ h2.outbox = h.outbox
      /\ h2.waiting = h.waiting \ Range(SeatsOf(conns)) /\ h2.up = h.up
      /\ h2.line = [c \in Conns |-> IF c \in Range(conns) THEN "seated" ELSE h.line[c]]
      /\ h2.down = [c \in Conns |->
                     IF c \in Range(conns) THEN Put(h.down[c], Welcome(h, conns, place(c)))
                     ELSE IF IsSeated(h, c) THEN Put(h.down[c], Back(conns)) ELSE h.down[c]]
  BY Zenon DEF Seat, Wired, HostFields
<1>2. \A c \in Range(conns) : place(c) \in DOMAIN conns /\ conns[place(c)] = c
  BY DEF Range
<1> HIDE DEF place
<1>3. Wired(h2)
  BY <1>1 DEF Wired
<1>4. \A c \in Range(conns) : h2.line[c] = "seated" /\
              \E i \in DOMAIN conns : conns[i] = c /\ h2.down[c] = Put(h.down[c], Welcome(h, conns, i))
  BY <1>1, <1>2
<1>5. \A c \in Conns \ Range(conns) :
              /\ h2.line[c] = h.line[c]
              /\ h2.down[c] = IF IsSeated(h, c) THEN Put(h.down[c], Back(conns)) ELSE h.down[c]
  BY <1>1
<1>6. QED
  BY <1>1, <1>3, <1>4, <1>5

\* A connection's messages with a welcome put behind them.
LEMMA DownWelcome ==
  ASSUME NEW S, NEW w, NEW q, DownOK(S, w, q), NEW a, AllWelcoming(S, w, a)
  PROVE  /\ DownOK(S, w, Put(q, a))
         /\ \A i \in DOMAIN Put(q, a) :
              \/ i \in DOMAIN q /\ Put(q, a)[i] = q[i]
              \/ Welcoming(S, w, Put(q, a)[i])
<1> DEFINE r == Put(q, a)
<1>1. CASE Closed(q)
  <2>1. r = q
    BY <1>1 DEF Put
  <2> HIDE DEF r
  <2>2. QED
    BY <2>1 DEF r
<1>2. CASE ~Closed(q)
  <2>1. r = q \o a /\ IsList(q) /\ IsList(a)
    BY <1>2 DEF Put, DownOK, AllWelcoming
  <2> HIDE DEF r
  <2>2. /\ IsList(r)
        /\ \A i \in DOMAIN r : \/ i \in DOMAIN q /\ r[i] = q[i]
                               \/ i > Len(q) /\ i - Len(q) \in DOMAIN a /\ r[i] = a[i - Len(q)]
    BY <2>1, ListConcat
  <2>3. \A i \in DOMAIN r : (i \in DOMAIN q /\ r[i] = q[i]) \/ (i > Len(q) /\ Welcoming(S, w, r[i]))
    BY <2>2 DEF AllWelcoming
  <2>4. \A i \in DOMAIN r : DownGood(S, w, r[i])
    BY <2>3 DEF DownOK, Welcoming
  <2>5. ASSUME NEW i \in DOMAIN r, NEW k \in DOMAIN r, i < k, r[k].type = "ResyncAt"
        PROVE  Before(r[i], r[k].tick)
    <3>1. k \in DOMAIN q /\ r[k] = q[k]
      BY <2>3, <2>5 DEF Welcoming
    <3>2. i \in Nat /\ k <= Len(q) /\ Len(q) \in Nat /\ k \in Nat
      BY <2>1, <2>2, <3>1, ListDomain
    <3>3. ~(i > Len(q))
      BY <2>5, <3>2
    <3>4. i \in DOMAIN q /\ r[i] = q[i]
      BY <2>3, <3>3
    <3>5. QED
      BY <2>5, <3>1, <3>4 DEF DownOK
  <2>6. DownOK(S, w, r)
    BY <2>2, <2>4, <2>5 DEF DownOK
  <2>7. QED
    BY <2>3, <2>6 DEF r
<1>3. QED
  BY <1>1, <1>2

\* A seat that had knocked on connection c, once it is seated there.
LEMMA SeatSeated ==
  ASSUME NEW h, NEW w, HostOK(h.session, w), NEW j \in Joiners, NEW v, SeatOK(h, w, j, v),
         NEW c \in ConnsOf(j), h.line[c] = "rejoining",
         \A d \in ConnsOf(j) : h.line[d] = "rejoining" => d = c,
         Due(h.session, j) = h.session.tick,
         NEW h2, h2.session = h.session, j \notin h2.waiting, h2.up = h.up, h2.line[c] = "seated",
         NEW a, AllWelcoming(h.session, w, a), h2.down[c] = Put(h.down[c], a),
         \A d \in ConnsOf(j) \ {c} : /\ h2.line[d] = h.line[d]
                                     /\ Extends(h.session, w, h.down[d], h2.down[d])
                                     /\ h.line[d] = "none" => h2.down[d] = h.down[d]
  PROVE  SeatOK(h2, w, j, v)
<1> DEFINE S == h.session
           k == Cur(j, v)
<1>1. k \in ConnsOf(j) /\ Sound(v.session, j)
  BY CurConn DEF SeatOK, AlwaysOK
<1>2. \A d \in ConnsOf(j) : ConnOK(h, w, j, v, d)
  BY DEF SeatOK
<1>3. \A d \in ConnsOf(j) : IsList(h.down[d]) /\ DownOK(S, w, h.down[d]) /\ UpOK(h.up[d], j, h.line[d])
  BY <1>2 DEF ConnOK, DownOK
<1>4. \A d \in ConnsOf(j) : d = c \/ (d # c /\ h2.line[d] = h.line[d])
  OBVIOUS
<1>5. /\ DownOK(S, w, h2.down[c])
      /\ \A i \in DOMAIN h2.down[c] : \/ i \in DOMAIN h.down[c] /\ h2.down[c][i] = h.down[c][i]
                                      \/ Welcoming(S, w, h2.down[c][i])
  <2> DEFINE q == h.down[c]
  <2>1. DownOK(S, w, q) /\ h2.down[c] = Put(q, a)
    BY <1>3
  <2> HIDE DEF q
  <2>2. QED
    BY <2>1, DownWelcome DEF q
<1>6. UpOK(h.up[c], j, "seated")
  BY <1>3 DEF UpOK
<1>7. ASSUME NEW d \in ConnsOf(j) PROVE ConnOK(h2, w, j, v, d)
  <2>1. CASE d = c
    BY <1>2, <1>5, <1>6, <2>1 DEF ConnOK
  <2>2. CASE d # c
    <3>0. S.tick \in Nat
      BY DEF HostOK, Sound
    <3>1. Grows(S, w, S, w)
      BY <3>0, GrowsSelf
    <3>2. DownOK(S, w, h2.down[d])
      BY <1>3, <2>2, <3>1, DownExtends
    <3>3. QED
      BY <1>2, <2>2, <3>2 DEF ConnOK
  <2>3. QED
    BY <2>1, <2>2
<1>8. \A i \in DOMAIN h2.down[k] : h2.down[k][i].type = "Rejoin" =>
        \/ i \in DOMAIN h.down[k] /\ h2.down[k][i] = h.down[k][i]
        \/ k = c /\ h2.down[k][i].next = S.tick
  <2>1. TAKE i \in DOMAIN h2.down[k]
  <2>2. HAVE h2.down[k][i].type = "Rejoin"
  <2>3. CASE k = c
    BY <1>5, <2>2, <2>3 DEF Welcoming
  <2>4. CASE k # c
    <3>1. ~NewDown(S, w, h2.down[k][i])
      BY <2>2 DEF NewDown
    <3>2. IsList(h.down[k]) /\ Extends(S, w, h.down[k], h2.down[k])
      BY <1>1, <1>3, <2>4
    <3>3. QED
      BY <3>1, <3>2, ExtendsMembers
  <2>5. QED
    BY <2>3, <2>4
<1>9. InPlay(h, j, v) => k # c
  BY <1>1 DEF SeatOK
<1>10. InPlay(h2, j, v) => InPlay(h, j, v) \/ k = c
  BY <1>8 DEF InPlay, Rejoining
<1>11. InPlay(h2, j, v) => h2.line[k] \in {"seated", "gone"}
  BY <1>1, <1>4, <1>10 DEF SeatOK
<1>12. v.phase = "playing" => PlayOK(h2, w, j, v) /\ k # c
  <2>1. HAVE v.phase = "playing"
  <2>2. k # c /\ HeardOK(S, w, j, v) /\ AheadOK(v, h.down[k]) /\ OnlyTicks(h.up[k])
    BY <1>9, <2>1 DEF InPlay, SeatOK, PlayOK
  <2>3. IsList(h.down[k]) /\ Extends(S, w, h.down[k], h2.down[k])
    BY <1>1, <1>3, <2>2
  <2>4. AheadOK(v, h2.down[k])
    BY <1>1, <2>2, <2>3, AheadExtends
  <2>5. QED
    BY <2>2, <2>4 DEF PlayOK
<1>13. ASSUME S.retired[j] = None PROVE FreeOK(h2, w, j, v)
  <2>1. FreeOK(h, w, j, v) /\ LinesOK(h, j)
    BY <1>13 DEF SeatOK, FreeOK
  <2>2. \A d \in ConnsOf(j) : h.line[d] # "seated"
    BY <2>1 DEF LinesOK
  <2>3. \A d \in ConnsOf(j) : \A i \in DOMAIN h.up[d] : ~IsTick(h.up[d][i])
    BY <1>3, <2>2 DEF UpOK
  <2>4. LinesOK(h2, j)
    <3>1. \A d \in ConnsOf(j) : h2.line[d] = "seated" => d = c
      BY <1>4, <2>2
    <3>2. \A d \in ConnsOf(j) : h2.line[d] # "rejoining"
      BY <1>4
    <3>3. QED
      BY <3>1, <3>2 DEF LinesOK
  <2>5. AlignedOK(h2, j) /\ OnlyCur(h2, j, v)
    BY <2>3 DEF AlignedOK, OnlyCur
  <2>6. v.phase = "knocking" => KnockedOK(h2, j, v)
    <3>1. HAVE v.phase = "knocking"
    <3>2. KnockedOK(h, j, v)
      BY <2>1, <3>1 DEF FreeOK
    <3>3. QED
      BY <1>8, <3>2 DEF KnockedOK
  <2>7. v.phase = "playing" => SaysOK(h2.session, w, j, v, h2.line[k], h2.up[k])
    BY <1>1, <1>4, <1>12, <2>1 DEF FreeOK
  <2>8. QED
    BY <2>4, <2>5, <2>6, <2>7 DEF FreeOK
<1>14. AlwaysOK(h2.session, w, j, v) /\ (v.phase = "knocking" => OnlyJoins(h2.up[k]))
  BY DEF SeatOK
<1>15. QED
  BY <1>7, <1>11, <1>12, <1>13, <1>14 DEF SeatOK

LEMMA SeatAllKept ==
  ASSUME NEW h, NEW w, NEW J, GameOK(h, w, J), w = world[Host],
         NEW conns, IsList(conns), Range(conns) \subseteq Conns,
         \A c \in Range(conns) : h.line[c] = "rejoining" /\ Due(h.session, SlotOf(c)) = h.session.tick,
         \A c, d \in Conns : SlotOf(c) = SlotOf(d) /\ h.line[c] = "rejoining"
                               /\ h.line[d] = "rejoining" => c = d
  PROVE  GameOK(Seat(h, conns), w, J)
<1> DEFINE S == h.session
           h2 == Seat(h, conns)
           slots == SeatsOf(conns)
<1>1. /\ Wired(h) /\ Lists(h) /\ HostOK(S, w) /\ S.tick \in Nat
      /\ h.waiting \subseteq Joiners /\ h.quiet \subseteq Joiners /\ IsList(h.outbox)
  BY GameLists DEF GameOK
<1>2. /\ Wired(h2) /\ h2.session = S /\ h2.quiet = h.quiet /\ h2.outbox = h.outbox
      /\ h2.waiting = h.waiting \ Range(slots) /\ h2.up = h.up
      /\ \A c \in Range(conns) : h2.line[c] = "seated" /\
           \E i \in DOMAIN conns : h2.down[c] = Put(h.down[c], Welcome(h, conns, i))
      /\ \A c \in Conns \ Range(conns) :
           /\ h2.line[c] = h.line[c]
           /\ \/ h2.down[c] = h.down[c]
              \/ IsSeated(h, c) /\ h2.down[c] = Put(h.down[c], Back(conns))
  BY <1>1, SeatIs
<1> HIDE DEF h2
<1>3. /\ IsList(slots) /\ Range(slots) \subseteq Joiners
      /\ \A c \in Range(conns) : SlotOf(c) \in Range(slots)
      /\ \A s \in Range(slots) : \E c \in Range(conns) : SlotOf(c) = s
  BY SeatsAre
<1>4. IsList(Back(conns)) /\ \A i \in DOMAIN Back(conns) : NewDown(S, w, Back(conns)[i])
  BY <1>3, SlottedWelcoming DEF Back, AllWelcoming
<1> HIDE DEF slots
<1>5. ASSUME NEW c \in Conns, c \notin Range(conns)
      PROVE  /\ h2.line[c] = h.line[c] /\ h2.up[c] = h.up[c]
             /\ Extends(S, w, h.down[c], h2.down[c])
             /\ h.line[c] = "none" => h2.down[c] = h.down[c]
  <2>1. IsList(h.down[c])
    BY <1>1 DEF Lists
  <2>2. Extends(S, w, h.down[c], h.down[c]) /\ Extends(S, w, h.down[c], Put(h.down[c], Back(conns)))
    BY <1>4, <2>1, ExtendsSelf, ExtendsPut
  <2>3. IsSeated(h, c) => h.line[c] # "none"
    BY DEF IsSeated
  <2>4. QED
    BY <1>2, <1>5, <2>2, <2>3
<1>6. Grows(S, w, h2.session, w) /\ HostOK(h2.session, w)
  BY <1>1, <1>2, GrowsSelf
<1>7. ASSUME NEW j \in Joiners, j \notin Range(slots) PROVE SeatOK(h2, w, j, J[j])
  <2>1. \A c \in ConnsOf(j) : c \in Conns /\ c \notin Range(conns)
    BY <1>3, <1>7 DEF ConnsOf
  <2>2. SeatOK(h, w, j, J[j])
    BY DEF GameOK
  <2>3. \A c \in ConnsOf(j) : ConnStep(h2.session, w, h, h2, c)
    BY <1>2, <1>5, <2>1 DEF ConnStep
  <2>4. SameDue(S, h2.session, j)
    BY <1>2 DEF SameDue
  <2>5. h2.session.retired[j] = None => LinesOK(h2, j)
    <3>1. HAVE h2.session.retired[j] = None
    <3>2. LinesOK(h, j)
      BY <1>2, <2>2, <3>1 DEF SeatOK, FreeOK
    <3>3. \A c \in ConnsOf(j) : Closing(h, h2, c)
      BY <1>5, <2>1 DEF Closing
    <3>4. j \in h2.waiting <=> j \in h.waiting
      BY <1>2, <1>7
    <3>5. QED
      BY <3>2, <3>3, <3>4, LinesKept
  <2>6. QED
    BY <1>6, <2>2, <2>3, <2>4, <2>5, SeatKept
<1>8. ASSUME NEW j \in Joiners, j \in Range(slots) PROVE SeatOK(h2, w, j, J[j])
  <2>1. PICK c \in Range(conns) : SlotOf(c) = j
    BY <1>3, <1>8
  <2>2. c \in Conns /\ c \in ConnsOf(j) /\ h.line[c] = "rejoining" /\ Due(S, j) = S.tick
    BY <2>1 DEF ConnsOf
  <2>3. PICK i \in DOMAIN conns : h2.down[c] = Put(h.down[c], Welcome(h, conns, i))
    BY <1>2
  <2> DEFINE a == Welcome(h, conns, i)
  <2>4. AllWelcoming(S, w, a)
    BY <1>1, WelcomeGood
  <2> HIDE DEF a
  <2>5. \A d \in ConnsOf(j) : d \in Conns /\ (h.line[d] = "rejoining" => d = c)
    BY <2>1, <2>2 DEF ConnsOf
  <2>6. ASSUME NEW d \in ConnsOf(j), d # c
        PROVE  /\ h2.line[d] = h.line[d]
               /\ Extends(S, w, h.down[d], h2.down[d])
               /\ h.line[d] = "none" => h2.down[d] = h.down[d]
    <3>1. d \in Conns /\ d \notin Range(conns)
      BY <2>5, <2>6
    <3>2. QED
      BY <1>5, <3>1
  <2>7. SeatOK(h, w, j, J[j])
    BY DEF GameOK
  <2>8. j \notin h2.waiting /\ h2.line[c] = "seated" /\ h2.down[c] = Put(h.down[c], a)
    BY <1>2, <1>8, <2>1, <2>3 DEF a
  <2>9. QED
    BY <1>1, <1>2, <2>2, <2>4, <2>5, <2>6, <2>7, <2>8, SeatSeated
<1>9. \A j \in Joiners : SeatOK(h2, w, j, J[j])
  BY <1>7, <1>8
<1>10. h2.waiting \subseteq Joiners /\ h2.quiet \subseteq Joiners /\ IsList(h2.outbox)
  BY <1>1, <1>2
<1>11. GameOK(h2, w, J)
  BY <1>2, <1>6, <1>9, <1>10 DEF GameOK
<1>12. QED
  BY <1>11 DEF h2

LEMMA ConnsFinite == IsFiniteSet(Conns)
<1>1. IsFiniteSet(Joiners)
  BY SessionAssumption, FS_Subset DEF Joiners
<1>2. IsFiniteSet(0 .. MaxConn)
  BY LiveAssumption, FS_Interval
<1>3. QED
  BY <1>1, <1>2, FS_Product DEF Conns

LEMMA AdmitKept ==
  ASSUME NEW h, NEW w, NEW J, GameOK(h, w, J), w = world[Host],
         \A c, d \in Conns : SlotOf(c) = SlotOf(d) /\ h.line[c] = "rejoining"
                               /\ h.line[d] = "rejoining" => c = d
  PROVE  GameOK(Admit(h), w, J)
<1> DEFINE S == h.session
           ready == {c \in Conns : /\ h.line[c] = "rejoining"
                                   /\ FirstMissing(S, SlotOf(c)) = S.tick}
<1>1. CASE S.barrier # None
  BY <1>1 DEF Admit
<1>2. CASE S.barrier = None
  <2>1. Admit(h) = Seat(h, SetToSeq(ready))
    BY <1>2 DEF Admit
  <2>2. IsFiniteSet(ready)
    BY ConnsFinite, FS_Subset
  <2>3. \A c \in ready : h.line[c] = "rejoining" /\ Due(S, SlotOf(c)) = S.tick
    <3>1. TAKE c \in ready
    <3>2. SlotOf(c) \in Slots
      BY ConnsAre DEF Joiners
    <3>3. Sound(S, Host) /\ Due(S, SlotOf(c)) \in Nat /\ Upto(S, SlotOf(c), Due(S, SlotOf(c)))
      BY <3>2, GameLists DEF HostOK
    <3>4. FirstMissing(S, SlotOf(c)) = Due(S, SlotOf(c))
      BY <3>3, FirstMissingIs
    <3>5. QED
      BY <3>4
  <2>4. ready \subseteq Conns
    OBVIOUS
  <2> HIDE DEF ready
  <2> DEFINE conns == SetToSeq(ready)
  <2>5. IsList(conns) /\ Range(conns) = ready
    BY <2>2, Listed
  <2> HIDE DEF conns
  <2>6. GameOK(Seat(h, conns), w, J)
    BY <2>3, <2>4, <2>5, SeatAllKept
  <2>7. QED
    BY <2>1, <2>6 DEF conns
<1>3. QED
  BY <1>1, <1>2

(***************************************************************************)
(* A joiner's steps leave the host's session and the others' connections.  *)
(***************************************************************************)
LEMMA JoinerKept ==
  ASSUME NEW h, NEW w, NEW J, GameOK(h, w, J), NEW j \in Joiners,
         NEW h2, Wired(h2), Same(h, h2),
         \A c \in Conns : SlotOf(c) # j =>
           h2.line[c] = h.line[c] /\ h2.up[c] = h.up[c] /\ h2.down[c] = h.down[c],
         NEW J2, \A i \in Joiners : i # j => J2[i] = J[i], SeatOK(h2, w, j, J2[j])
  PROVE  GameOK(h2, w, J2)
<1> DEFINE S == h.session
<1>1. /\ Lists(h) /\ HostOK(S, w) /\ S.tick \in Nat
      /\ h.waiting \subseteq Joiners /\ h.quiet \subseteq Joiners /\ IsList(h.outbox)
  BY GameLists DEF GameOK
<1>2. /\ h2.session = S /\ h2.waiting = h.waiting /\ h2.quiet = h.quiet /\ h2.outbox = h.outbox
  BY DEF Same
<1>3. HostOK(h2.session, w) /\ Grows(S, w, h2.session, w)
  BY <1>1, <1>2, GrowsSelf
<1>4. ASSUME NEW i \in Joiners, i # j PROVE SeatOK(h2, w, i, J2[i])
  <2>1. \A c \in ConnsOf(i) : c \in Conns /\ SlotOf(c) # j
    BY <1>4 DEF ConnsOf
  <2>2. SeatOK(h, w, i, J2[i])
    BY <1>4 DEF GameOK
  <2>3. SameDue(S, h2.session, i)
    BY <1>2 DEF SameDue
  <2>4. \A d \in ConnsOf(i) : /\ h2.line[d] = h.line[d] /\ h2.up[d] = h.up[d]
                              /\ Extends(h2.session, w, h.down[d], h2.down[d])
                              /\ h.line[d] = "none" => h2.down[d] = h.down[d]
    BY <1>1, <2>1, ExtendsSelf DEF Lists
  <2>5. QED
    BY <1>2, <1>3, <2>2, <2>3, <2>4, OthersKept
<1>5. \A i \in Joiners : SeatOK(h2, w, i, J2[i])
  BY <1>4
<1>6. QED
  BY <1>1, <1>2, <1>3, <1>5 DEF GameOK

\* What a joiner adds to its connection that is no packet and no knock.
Parting(m) == m.type \notin {"Tick", "Join"}

LEMMA UpParting ==
  ASSUME NEW q, NEW j, NEW on, UpOK(q, j, on), NEW a, IsList(a), \A i \in DOMAIN a : Parting(a[i])
  PROVE  /\ UpOK(Put(q, a), j, on)
         /\ \A i \in DOMAIN Put(q, a) : IsTick(Put(q, a)[i]) => i \in DOMAIN q /\ Put(q, a)[i] = q[i]
<1> DEFINE r == Put(q, a)
<1>1. CASE Closed(q)
  <2>1. r = q
    BY <1>1 DEF Put
  <2> HIDE DEF r
  <2>2. QED
    BY <2>1 DEF r
<1>2. CASE ~Closed(q)
  <2>1. r = q \o a /\ IsList(q)
    BY <1>2 DEF Put, UpOK
  <2> HIDE DEF r
  <2>2. /\ IsList(r)
        /\ \A i \in DOMAIN q : i \in DOMAIN r /\ r[i] = q[i]
        /\ \A i \in DOMAIN r : \/ i \in DOMAIN q /\ r[i] = q[i]
                               \/ i > Len(q) /\ i - Len(q) \in DOMAIN a /\ r[i] = a[i - Len(q)]
    BY <2>1, ListConcat
  <2>3. \A i \in DOMAIN r : (i \in DOMAIN q /\ r[i] = q[i]) \/ (i > Len(q) /\ Parting(r[i]))
    BY <2>2
  <2>4. \A i \in DOMAIN r : IsTick(r[i]) \/ r[i].type = "Join" => i \in DOMAIN q /\ r[i] = q[i]
    BY <2>3 DEF Parting, IsTick
  <2>5. \A i \in DOMAIN q, k \in DOMAIN r : k < i => k \in DOMAIN q /\ r[k] = q[k]
    <3>1. TAKE i \in DOMAIN q, k \in DOMAIN r
    <3>2. HAVE k < i
    <3>3. i <= Len(q) /\ Len(q) \in Nat /\ i \in Nat /\ k \in Nat
      BY <2>1, <2>2, ListDomain
    <3>4. ~(k > Len(q))
      BY <3>2, <3>3
    <3>5. QED
      BY <2>3, <3>4
  <2>6. UpOK(r, j, on)
    BY <2>2, <2>4, <2>5 DEF UpOK
  <2>7. QED
    BY <2>4, <2>6 DEF r
<1>3. QED
  BY <1>1, <1>2

\* A joiner who plays and knocks no more, whatever its connection comes to carry.
LEMMA OutOfPlay ==
  ASSUME NEW h, NEW w, NEW j \in Joiners, NEW v, SeatOK(h, w, j, v), NEW k, k = Cur(j, v),
         NEW v2, v2.session = v.session, v2.world = v.world, v2.pending = v.pending,
         v2.conn = v.conn, v2.phase \in {"lost", "over"},
         NEW h2, h2.session = h.session, h2.waiting = h.waiting, h2.line = h.line,
         \A c \in ConnsOf(j) \ {k} : h2.up[c] = h.up[c] /\ h2.down[c] = h.down[c],
         NEW a, IsList(a), \A i \in DOMAIN a : Parting(a[i]),
         h2.up[k] = h.up[k] \/ (h.line[k] # "gone" /\ h2.up[k] = Put(h.up[k], a)),
         DownOK(h.session, w, h2.down[k])
  PROVE  SeatOK(h2, w, j, v2)
<1> DEFINE S == h.session
<1>1. k \in ConnsOf(j) /\ k[2] = v.conn /\ v.conn \in Nat
  BY CurConn DEF SeatOK, AlwaysOK
<1>2. \A c \in ConnsOf(j) : ConnOK(h, w, j, v, c)
  BY DEF SeatOK
<1>3. /\ UpOK(h2.up[k], j, h.line[k])
      /\ \A i \in DOMAIN h2.up[k] : IsTick(h2.up[k][i]) => i \in DOMAIN h.up[k] /\ h2.up[k][i] = h.up[k][i]
  <2> DEFINE q == h.up[k]
             on == h.line[k]
  <2>1. UpOK(q, j, on)
    BY <1>1, <1>2 DEF ConnOK
  <2> HIDE DEF q, on
  <2>2. /\ UpOK(Put(q, a), j, on)
        /\ \A i \in DOMAIN Put(q, a) : IsTick(Put(q, a)[i]) => i \in DOMAIN q /\ Put(q, a)[i] = q[i]
    BY <2>1, UpParting
  <2>3. h2.up[k] = q \/ h2.up[k] = Put(q, a)
    BY DEF q
  <2>4. QED
    BY <2>1, <2>2, <2>3 DEF q, on
<1>4. ASSUME NEW c \in ConnsOf(j) PROVE ConnOK(h2, w, j, v2, c)
  <2>1. CASE c = k
    <3>1. h.line[k] # "none"
      BY <1>1, <1>2 DEF ConnOK
    <3>2. h.line[k] = "gone" => h2.up[k] = <<>>
      BY <1>1, <1>2 DEF ConnOK
    <3>3. QED
      BY <1>2, <1>3, <2>1, <3>1, <3>2 DEF ConnOK
  <2>2. CASE c # k
    BY <1>2, <2>2 DEF ConnOK
  <2>3. QED
    BY <2>1, <2>2
<1>5. \A c \in ConnsOf(j) : \A i \in DOMAIN h2.up[c] :
        IsTick(h2.up[c][i]) => i \in DOMAIN h.up[c] /\ h2.up[c][i] = h.up[c][i]
  BY <1>3
<1>6. S.retired[j] = None => FreeOK(h2, w, j, v2)
  <2>1. HAVE S.retired[j] = None
  <2>2. FreeOK(h, w, j, v)
    BY <2>1 DEF SeatOK
  <2>3. LinesOK(h2, j) /\ AlignedOK(h2, j)
    BY <1>5, <2>2 DEF FreeOK, LinesOK, AlignedOK
  <2>4. ~InPlay(h2, j, v2) /\ v2.phase # "knocking" /\ v2.phase # "playing"
    BY DEF InPlay
  <2>5. QED
    BY <2>3, <2>4 DEF FreeOK
<1>7. AlwaysOK(h2.session, w, j, v2)
  BY DEF SeatOK, AlwaysOK
<1>8. v2.phase # "knocking" /\ v2.phase # "playing" /\ ~InPlay(h2, j, v2)
  BY DEF InPlay
<1>9. QED
  BY <1>4, <1>6, <1>7, <1>8 DEF SeatOK

\* A joiner that plays on: what it is to know of the others, and what it says.
LEMMA PlaysOn ==
  ASSUME NEW h, NEW w, NEW j \in Joiners, NEW v, SeatOK(h, w, j, v), v.phase = "playing",
         NEW k, k = Cur(j, v),
         NEW v2, v2.conn = v.conn, v2.phase = "playing",
         AlwaysOK(h.session, w, j, v2), HeardOK(h.session, w, j, v2),
         h.session.retired[j] = None => SaysOK(h.session, w, j, v2, h.line[k], h.up[k]),
         NEW h2, h2.session = h.session, h2.waiting = h.waiting, h2.line = h.line, h2.up = h.up,
         \A c \in ConnsOf(j) \ {k} : h2.down[c] = h.down[c],
         DownOK(h.session, w, h2.down[k]), AheadOK(v2, h2.down[k])
  PROVE  SeatOK(h2, w, j, v2)
<1> DEFINE S == h.session
<1>1. k \in ConnsOf(j) /\ k = Cur(j, v2) /\ v.conn \in Nat /\ k[2] = v.conn
  BY CurConn DEF SeatOK, AlwaysOK, Cur
<1>2. \A c \in ConnsOf(j) : ConnOK(h, w, j, v, c)
  BY DEF SeatOK
<1>3. ASSUME NEW c \in ConnsOf(j) PROVE ConnOK(h2, w, j, v2, c)
  <2>1. CASE c = k
    <3>1. h.line[k] # "none"
      BY <1>1, <1>2 DEF ConnOK
    <3>2. QED
      BY <1>2, <2>1, <3>1 DEF ConnOK
  <2>2. CASE c # k
    BY <1>2, <2>2 DEF ConnOK
  <2>3. QED
    BY <2>1, <2>2
<1>4. h.line[k] \in {"seated", "gone"} /\ OnlyTicks(h.up[k])
  BY DEF SeatOK, InPlay, PlayOK
<1>5. S.retired[j] = None => FreeOK(h2, w, j, v2)
  <2>1. HAVE S.retired[j] = None
  <2>2. FreeOK(h, w, j, v)
    BY <2>1 DEF SeatOK
  <2>3. LinesOK(h2, j) /\ AlignedOK(h2, j) /\ OnlyCur(h2, j, v2)
    BY <1>1, <2>2 DEF FreeOK, LinesOK, AlignedOK, OnlyCur, InPlay
  <2>4. SaysOK(h2.session, w, j, v2, h2.line[k], h2.up[k])
    BY <2>1
  <2>5. QED
    BY <1>1, <2>3, <2>4 DEF FreeOK
<1>6. PlayOK(h2, w, j, v2)
  BY <1>1, <1>4 DEF PlayOK
<1>7. QED
  BY <1>1, <1>3, <1>4, <1>5, <1>6 DEF SeatOK

\* What one that plays is to be as it plays on, with r on its way from the host.
Carries(h, w, j, v, v2, r) ==
  /\ v2.conn = v.conn /\ v2.phase = "playing"
  /\ AlwaysOK(h.session, w, j, v2) /\ HeardOK(h.session, w, j, v2)
  /\ h.session.retired[j] = None =>
       SaysOK(h.session, w, j, v2, h.line[Cur(j, v)], h.up[Cur(j, v)])
  /\ AheadOK(v2, r)

LEMMA DownTail ==
  ASSUME NEW S, NEW w, NEW q, DownOK(S, w, q), q # <<>>
  PROVE  /\ DownOK(S, w, Tail(q)) /\ DownGood(S, w, Head(q))
         /\ \A i \in DOMAIN Tail(q) : Tail(q)[i].type = "ResyncAt" => Before(Head(q), Tail(q)[i].tick)
<1> DEFINE r == Tail(q)
<1>1. IsList(q)
  BY DEF DownOK
<1>2. /\ 1 \in DOMAIN q /\ Head(q) = q[1] /\ IsList(r)
      /\ \A i \in DOMAIN r : i + 1 \in DOMAIN q /\ r[i] = q[i + 1]
  BY <1>1, ListTail
<1> HIDE DEF r
<1>3. \A i \in DOMAIN r : i \in Nat /\ 1 <= i
  BY <1>2, ListDomain
<1>4. \A i \in DOMAIN r : DownGood(S, w, r[i])
  BY <1>2 DEF DownOK
<1>5. \A i, k \in DOMAIN r : i < k /\ r[k].type = "ResyncAt" => Before(r[i], r[k].tick)
  <2>1. TAKE i, k \in DOMAIN r
  <2>2. i + 1 \in DOMAIN q /\ k + 1 \in DOMAIN q /\ r[i] = q[i + 1] /\ r[k] = q[k + 1]
    BY <1>2
  <2>3. i < k => i + 1 < k + 1
    BY <1>3
  <2>4. QED
    BY <2>2, <2>3 DEF DownOK
<1>6. \A i \in DOMAIN r : r[i].type = "ResyncAt" => Before(q[1], r[i].tick)
  <2>1. TAKE i \in DOMAIN r
  <2>2. i + 1 \in DOMAIN q /\ r[i] = q[i + 1] /\ 1 < i + 1
    BY <1>2, <1>3
  <2>3. QED
    BY <1>2, <2>2 DEF DownOK
<1>7. DownGood(S, w, q[1])
  BY <1>2 DEF DownOK
<1>8. QED
  BY <1>2, <1>4, <1>5, <1>6, <1>7 DEF DownOK, r

LEMMA AheadTail ==
  ASSUME NEW v, NEW q, IsList(q), q # <<>>, AheadOK(v, q)
  PROVE  /\ AheadOK(v, Tail(q))
         /\ Head(q).type = "ResyncAt" => v.session.tick <= Head(q).tick + 1
<1>1. /\ 1 \in DOMAIN q /\ Head(q) = q[1]
      /\ \A i \in DOMAIN Tail(q) : i + 1 \in DOMAIN q /\ Tail(q)[i] = q[i + 1]
  BY ListTail
<1>2. QED
  BY <1>1 DEF AheadOK

\* Whatever it hears next, as long as its clock and what it has in hand stay as they are.
LEMMA AlikeCarries ==
  ASSUME NEW h, NEW w, NEW j \in Joiners, NEW v, SeatOK(h, w, j, v), v.phase = "playing",
         NEW v2, v2.conn = v.conn, v2.phase = "playing", v2.world = v.world,
         Alike(v.session, v2.session), IsList(v2.session.staged),
         v2.session.barrier \in Nat \union {None},
         v2.session.barrier # None => v2.session.tick <= v2.session.barrier + 1,
         v2.pending.tick # None =>
           /\ v2.pending.tick \in Nat /\ v2.pending.tick < h.session.tick
           /\ TrueWorld(h.session, w, v2.pending.world, v2.pending.tick + 1),
         NEW r, AheadOK(v, r)
  PROVE  Carries(h, w, j, v, v2, r)
<1>1. /\ AlwaysOK(h.session, w, j, v) /\ HeardOK(h.session, w, j, v)
      /\ h.session.retired[j] = None =>
           SaysOK(h.session, w, j, v, h.line[Cur(j, v)], h.up[Cur(j, v)])
  BY DEF SeatOK, PlayOK, FreeOK
<1>2. Sound(v2.session, j)
  BY <1>1, AlikeSound DEF AlwaysOK
<1>3. /\ v2.session.tick = v.session.tick /\ v2.session.inbox = v.session.inbox
      /\ v2.session.retired = v.session.retired /\ v2.session.nextSeal = v.session.nextSeal
  BY DEF Alike
<1>4. AlwaysOK(h.session, w, j, v2)
  BY <1>1, <1>2, <1>3 DEF AlwaysOK
<1>5. HeardOK(h.session, w, j, v2)
  BY <1>1, <1>3 DEF HeardOK
<1>6. h.session.retired[j] = None =>
        SaysOK(h.session, w, j, v2, h.line[Cur(j, v)], h.up[Cur(j, v)])
  BY <1>1, <1>3 DEF SaysOK, OwnIs
<1>7. AheadOK(v2, r)
  BY <1>3 DEF AheadOK
<1>8. QED
  BY <1>4, <1>5, <1>6, <1>7 DEF Carries

\* A packet of another seat is received.
LEMMA TickCarries ==
  ASSUME NEW h, NEW w, NEW j \in Joiners, NEW v, SeatOK(h, w, j, v), v.phase = "playing",
         NEW p, AsSaid(h.session, w, p), Verdict(v.session, p) = "Accepted",
         NEW v2, v2.conn = v.conn, v2.phase = "playing", v2.world = v.world,
         v2.pending = v.pending, v2.session = Receive(v.session, p),
         NEW r, AheadOK(v, r),
         \A i \in DOMAIN r : r[i].type = "ResyncAt" /\ p.from = Host => p.tick <= r[i].tick
  PROVE  Carries(h, w, j, v, v2, r)
<1> DEFINE S == h.session
<1>1. /\ AlwaysOK(S, w, j, v) /\ HeardOK(S, w, j, v)
      /\ S.retired[j] = None => SaysOK(S, w, j, v, h.line[Cur(j, v)], h.up[Cur(j, v)])
  BY DEF SeatOK, PlayOK, FreeOK
<1>2. PacketOK(p) /\ Sound(v.session, j)
  BY <1>1 DEF AsSaid, AlwaysOK
<1>3. /\ Sound(v2.session, j) /\ v2.session.inbox = v.session.inbox \union {Held(p)}
      /\ v2.session.tick = v.session.tick /\ v2.session.retired = v.session.retired
      /\ v2.session.barrier = v.session.barrier /\ v2.session.nextSeal = v.session.nextSeal
  BY <1>2, AcceptedIs
<1>4. p.from # j
  BY <1>2, AcceptedIsNew DEF PacketOK
<1>5. /\ Held(p).from = p.from /\ Held(p).tick = p.tick /\ Held(p).commands = p.commands
  BY HeldCommands
<1>6. AsSaid(S, w, Held(p))
  BY <1>5 DEF AsSaid, PacketOK
<1>7. AlwaysOK(S, w, j, v2)
  BY <1>1, <1>3 DEF AlwaysOK
<1>8. HeardOK(S, w, j, v2)
  BY <1>1, <1>3, <1>6 DEF HeardOK
<1>9. \A q \in v2.session.inbox : q.from = j => q \in v.session.inbox
  BY <1>3, <1>4, <1>5
<1>10. S.retired[j] = None => SaysOK(S, w, j, v2, h.line[Cur(j, v)], h.up[Cur(j, v)])
  BY <1>1, <1>3, <1>9 DEF SaysOK, OwnIs
<1>11. AheadOK(v2, r)
  BY <1>3, <1>5 DEF AheadOK
<1>12. QED
  BY <1>7, <1>8, <1>10, <1>11 DEF Carries

\* A seat is retired.
LEMMA RetireCarries ==
  ASSUME NEW h, NEW w, NEW j \in Joiners, NEW v, SeatOK(h, w, j, v), v.phase = "playing",
         NEW slot \in Joiners, NEW from, Ended(h.session, w, slot, from),
         NEW v2, v2.conn = v.conn, v2.phase = "playing", v2.world = v.world,
         v2.pending = v.pending, v2.session = Retire(v.session, slot, from),
         NEW r, AheadOK(v, r)
  PROVE  Carries(h, w, j, v, v2, r)
<1> DEFINE S == h.session
           f == [x \in {slot} |-> from]
<1>1. /\ AlwaysOK(S, w, j, v) /\ HeardOK(S, w, j, v)
      /\ S.retired[j] = None => SaysOK(S, w, j, v, h.line[Cur(j, v)], h.up[Cur(j, v)])
  BY DEF SeatOK, PlayOK, FreeOK
<1>2. DOMAIN f = {slot} /\ f[slot] = from
  OBVIOUS
<1>3. v2.session = RetireEach(v.session, f)
  BY DEF Retire
<1> HIDE DEF f
<1>4. /\ Sound(v2.session, j)
      /\ v2.session.tick = v.session.tick /\ v2.session.nextSeal = v.session.nextSeal
      /\ v2.session.barrier = v.session.barrier
      /\ v2.session.inbox = {p \in v.session.inbox : p.from \in DOMAIN f \ {j} => p.tick < f[p.from]}
      /\ \A x \in Slots : v2.session.retired[x] =
           IF x \in DOMAIN f \ {j} THEN f[x] ELSE v.session.retired[x]
  BY <1>1, <1>3, RetireSound DEF AlwaysOK
<1>5. /\ \A p \in v2.session.inbox : p \in v.session.inbox
      /\ \A x \in Slots : v2.session.retired[x] = v.session.retired[x]
                          \/ (x = slot /\ v2.session.retired[x] = from)
  BY <1>2, <1>4
<1>6. AlwaysOK(S, w, j, v2)
  BY <1>1, <1>4 DEF AlwaysOK
<1>7. HeardOK(S, w, j, v2)
  <2>1. Host \in Slots /\ slot # Host
    BY LiveAssumption DEF Joiners
  <2>2. v2.session.retired[Host] = None
    BY <1>1, <1>5, <2>1 DEF HeardOK
  <2>3. \A x \in Slots : v2.session.retired[x] # None => Ended(S, w, x, v2.session.retired[x])
    BY <1>1, <1>5 DEF HeardOK
  <2>4. QED
    BY <1>1, <1>4, <1>5, <2>2, <2>3 DEF HeardOK
<1>8. S.retired[j] = None => SaysOK(S, w, j, v2, h.line[Cur(j, v)], h.up[Cur(j, v)])
  BY <1>1, <1>4, <1>5 DEF SaysOK, OwnIs
<1>9. AheadOK(v2, r)
  BY <1>4, <1>5 DEF AheadOK
<1>10. QED
  BY <1>6, <1>7, <1>8, <1>9 DEF Carries

\* What a joiner runs in a tick is what it says itself and what the host knows the others
\* to have said.
LEMMA JoinerRuns1 ==
  ASSUME NEW S, NEW w, NEW j \in Joiners, NEW v, AlwaysOK(S, w, j, v), HeardOK(S, w, j, v),
         Missing(v.session) = {}
  PROVE  /\ \A x \in Slots \ {j} : Settled(S, x, v.session.tick)
         /\ \E p \in v.session.inbox : p.from = Host /\ p.tick = v.session.tick
         /\ \E p \in v.session.inbox :
              /\ p.from = j /\ p.tick = v.session.tick
              /\ TickCommands(v.session) = With(S, w, j, v.session.tick, p.commands)
<1> DEFINE s == v.session
           T == s.tick
<1>1. Sound(s, j) /\ T \in Nat
  BY DEF AlwaysOK, Sound
<1>2. \A x \in Slots : IsRetired(s, x, T) \/ HasPacket(s, x, T)
  BY DEF Missing
<1>3. j \in Slots /\ Host \in Slots /\ j # Host
  BY LiveAssumption DEF Joiners
<1>4. s.retired[j] = None /\ s.retired[Host] = None
  BY <1>1 DEF HeardOK, Sound
<1>5. PICK p0 \in s.inbox : p0.from = j /\ p0.tick = T
  BY <1>2, <1>3, <1>4 DEF IsRetired, HasPacket
<1>6. \E p \in s.inbox : p.from = Host /\ p.tick = T
  BY <1>2, <1>3, <1>4 DEF IsRetired, HasPacket
<1>7. ASSUME NEW x \in Slots, x # j
      PROVE  /\ Settled(S, x, T)
             /\ \A p \in s.inbox : p.from = x /\ p.tick = T => p.commands = Said(S, w, x, T)
             /\ (\A p \in s.inbox : ~(p.from = x /\ p.tick = T)) => Said(S, w, x, T) = {}
  <2>1. \A p \in s.inbox : p.from = x /\ p.tick = T => HasSaid(S, x, T) /\ p.commands = Said(S, w, x, T)
    BY <1>7 DEF HeardOK, AsSaid
  <2>2. CASE IsRetired(s, x, T)
    <3>1. s.retired[x] # None /\ T >= s.retired[x]
      BY <2>2 DEF IsRetired
    <3>2. Ended(S, w, x, s.retired[x])
      BY <3>1 DEF HeardOK
    <3>3. S.retired[x] # None /\ Said(S, w, x, T) = {}
      BY <1>1, <3>1, <3>2 DEF Ended
    <3>4. QED
      BY <2>1, <3>3 DEF Settled
  <2>3. CASE HasPacket(s, x, T)
    <3>1. PICK p \in s.inbox : p.from = x /\ p.tick = T
      BY <2>3 DEF HasPacket
    <3>2. QED
      BY <2>1, <3>1 DEF Settled
  <2>4. QED
    BY <1>2, <2>2, <2>3
<1>8. \A p \in s.inbox : p.from \in Slots /\ (p.from = j /\ p.tick = T => p = p0)
  BY <1>1, <1>5 DEF Sound, InboxOK, PacketOK
<1> HIDE DEF s, T
<1>9. ASSUME NEW c, c \in TickCommands(s) PROVE c \in With(S, w, j, T, p0.commands)
  <2>1. PICK p \in s.inbox : p.tick = T /\ c \in p.commands
    BY <1>9 DEF TickCommands, T
  <2>2. CASE p.from = j
    BY <1>8, <2>1, <2>2 DEF With
  <2>3. CASE p.from # j
    <3>1. c \in Said(S, w, p.from, T) /\ p.from \in Slots \ {j}
      BY <1>7, <1>8, <2>1, <2>3
    <3>2. QED
      BY <3>1 DEF With
  <2>4. QED
    BY <2>2, <2>3
<1>10. ASSUME NEW c, c \in With(S, w, j, T, p0.commands) PROVE c \in TickCommands(s)
  <2>1. CASE c \in p0.commands
    BY <1>5, <2>1 DEF TickCommands, T
  <2>2. CASE c \notin p0.commands
    <3>1. PICK x \in Slots \ {j} : c \in Said(S, w, x, T)
      BY <1>10, <2>2 DEF With
    <3>2. PICK p \in s.inbox : p.from = x /\ p.tick = T
      BY <1>7, <3>1
    <3>3. c \in p.commands
      BY <1>7, <3>1, <3>2
    <3>4. QED
      BY <3>2, <3>3 DEF TickCommands, T
  <2>3. QED
    BY <2>1, <2>2
<1>11. TickCommands(s) = With(S, w, j, T, p0.commands)
  BY <1>9, <1>10
<1>12. \A x \in Slots \ {j} : Settled(S, x, T)
  BY <1>7
<1>13. QED
  BY <1>5, <1>6, <1>11, <1>12 DEF s, T

\* One tick run, or the two commands of one name that stop the game.
LEMMA AdvanceCarries ==
  ASSUME NEW h, NEW w, NEW j \in Joiners, NEW v, SeatOK(h, w, j, v), v.phase = "playing",
         Ready(v.session), v.session.tick < MaxTick,
         NEW a, a = Advance(v.session, v.world),
         NEW v2, v2.conn = v.conn, v2.phase = "playing", v2.pending = v.pending,
         v2.session = a.session, v2.world = a.world,
         NEW r, AheadOK(v, r), \A i \in DOMAIN r : r[i].type = "ResyncAt" => r[i].tick \in Nat
  PROVE  Carries(h, w, j, v, v2, r)
<1> DEFINE S == h.session
           s == v.session
           T == s.tick
           s2 == v2.session
           on == h.line[Cur(j, v)]
           q == h.up[Cur(j, v)]
<1>1. /\ AlwaysOK(S, w, j, v) /\ HeardOK(S, w, j, v)
      /\ S.retired[j] = None => SaysOK(S, w, j, v, on, q)
  BY DEF SeatOK, PlayOK, FreeOK
<1>2. /\ Sound(s, j) /\ WorldOK(v.world, T) /\ T \in Nat
      /\ Missing(s) = {} /\ ~AtBarrier(s)
  BY <1>1 DEF AlwaysOK, Sound, Ready
<1>3. /\ Sound(s2, j) /\ s2.nextSeal = s.nextSeal /\ s2.retired = s.retired /\ s2.barrier = s.barrier
      /\ \/ /\ s2.tick = T /\ s2.inbox = s.inbox /\ v2.world = v.world
         \/ /\ CommandsAreDistinct(TickCommands(s))
            /\ s2.tick = T + 1 /\ s2.inbox = {p \in s.inbox : p.tick # T}
            /\ v2.world = Append(v.world, OrderCommands(j, TickCommands(s)))
  <2>1. /\ Sound(a.session, j)
        /\ a.session.nextSeal = s.nextSeal /\ a.session.retired = s.retired
        /\ a.session.barrier = s.barrier
        /\ \/ /\ a.session.tick = s.tick /\ a.session.inbox = s.inbox /\ a.world = v.world
           \/ /\ CommandsAreDistinct(TickCommands(s))
              /\ a.session.tick = s.tick + 1
              /\ a.session.inbox = {p \in s.inbox : p.tick # s.tick}
              /\ a.world = Append(v.world, OrderCommands(j, TickCommands(s)))
    BY <1>2, AdvanceSound
  <2>2. QED
    BY <2>1
<1>4. CASE s2.tick = T /\ s2.inbox = s.inbox /\ v2.world = v.world
  <2>1. AlwaysOK(S, w, j, v2)
    BY <1>1, <1>3, <1>4 DEF AlwaysOK
  <2>2. HeardOK(S, w, j, v2)
    BY <1>1, <1>3, <1>4 DEF HeardOK
  <2>3. S.retired[j] = None => SaysOK(S, w, j, v2, on, q)
    BY <1>1, <1>3, <1>4 DEF SaysOK, OwnIs
  <2>4. AheadOK(v2, r)
    BY <1>4 DEF AheadOK
  <2>5. QED
    BY <2>1, <2>2, <2>3, <2>4 DEF Carries
<1>5. CASE /\ CommandsAreDistinct(TickCommands(s))
           /\ s2.tick = T + 1 /\ s2.inbox = {p \in s.inbox : p.tick # T}
           /\ v2.world = Append(v.world, OrderCommands(j, TickCommands(s)))
  <2> DEFINE ran == OrderCommands(j, TickCommands(s))
  <2>1. /\ \A x \in Slots \ {j} : Settled(S, x, T)
        /\ \E p \in s.inbox : p.from = Host /\ p.tick = T
        /\ \E p \in s.inbox : /\ p.from = j /\ p.tick = T
                              /\ TickCommands(s) = With(S, w, j, T, p.commands)
    BY <1>1, <1>2, JoinerRuns1
  <2>2. PICK p0 \in s.inbox : /\ p0.from = j /\ p0.tick = T
                              /\ TickCommands(s) = With(S, w, j, T, p0.commands)
    BY <2>1
  <2>3. ran \in Seq(TickCommands(s))
    BY <1>2, <1>5, TickRun
  <2>4. IsList(ran)
    BY <2>3 DEF IsList
  <2>5. Commanded(ran) = OrderOf(With(S, w, j, T, p0.commands))
    BY <2>2 DEF OrderOf, OrderCommands
  <2> HIDE DEF ran
  <2>6. RunsOnce(v.world, T, v2.world, ran)
    BY <1>2, <1>5, <2>4, WorldAppend DEF ran
  <2>7. /\ WorldOK(v2.world, T + 1) /\ v2.world[T + 1] = ran
        /\ \A i \in 1 .. T : v2.world[i] = v.world[i]
    BY <2>6 DEF RunsOnce
  <2>8. \A t \in Nat : t < T + 1 => t < T \/ t = T
    BY <1>2
  <2>9. \A t \in Nat : t < T => v2.world[t + 1] = v.world[t + 1]
    <3>1. TAKE t \in Nat
    <3>2. t < T => t + 1 \in 1 .. T
      BY <1>2
    <3>3. QED
      BY <2>7, <3>2
  <2>10. AlwaysOK(S, w, j, v2)
    <3>1. T + 1 <= MaxTick
      BY <1>2, LiveAssumption
    <3>2. QED
      BY <1>1, <1>3, <1>5, <2>7, <3>1 DEF AlwaysOK
  <2>11. HeardOK(S, w, j, v2)
    <3>1. \A x \in Slots, t \in Nat : x # j /\ t < s2.tick => Settled(S, x, t)
      BY <1>1, <1>5, <2>1, <2>8 DEF HeardOK
    <3>2. s2.barrier # None => s2.tick <= s2.barrier + 1
      BY <1>2, <1>3, <1>5 DEF AtBarrier, Sound
    <3>3. QED
      BY <1>1, <1>3, <1>5, <3>1, <3>2 DEF HeardOK
  <2>12. ASSUME NEW t \in Nat, NEW cmds, OwnIs(S, w, j, v, t, cmds)
         PROVE  OwnIs(S, w, j, v2, t, cmds)
    <3>1. CASE t < T
      <4>1. Commanded(v2.world[t + 1]) = OrderOf(With(S, w, j, t, cmds))
        BY <2>9, <2>12, <3>1 DEF OwnIs
      <4>2. ~(t >= s2.tick)
        BY <1>2, <1>5, <3>1
      <4>3. QED
        BY <4>1, <4>2 DEF OwnIs
    <3>2. CASE t = T
      <4>1. t >= s.tick
        BY <1>2, <3>2
      <4>2. p0.commands = cmds
        BY <2>2, <2>12, <3>2, <4>1 DEF OwnIs
      <4>3. ~(t >= s2.tick)
        BY <1>2, <1>5, <3>2
      <4>4. Commanded(v2.world[t + 1]) = OrderOf(With(S, w, j, t, cmds))
        BY <2>5, <2>7, <3>2, <4>2
      <4>5. QED
        BY <4>3, <4>4 DEF OwnIs
    <3>3. CASE t > T
      <4>1. t >= s.tick /\ ~(t < s2.tick)
        BY <1>2, <1>5, <3>3
      <4>2. QED
        BY <1>5, <2>12, <4>1 DEF OwnIs
    <3>4. QED
      BY <1>2, <3>1, <3>2, <3>3
  <2>13. S.retired[j] = None => SaysOK(S, w, j, v2, on, q)
    <3>1. HAVE S.retired[j] = None
    <3>2. SaysOK(S, w, j, v, on, q)
      BY <1>1, <3>1
    <3>3. \A i \in DOMAIN q : IsTick(q[i]) => q[i].packet.tick \in Nat
      <4> DEFINE k == Cur(j, v)
      <4>1. k \in ConnsOf(j)
        BY <1>1, CurConn DEF AlwaysOK
      <4>2. UpOK(q, j, on)
        BY <4>1 DEF SeatOK, ConnOK
      <4>3. QED
        BY <4>2 DEF UpOK, PacketOK
    <3>4. \A i \in DOMAIN q : IsTick(q[i]) => OwnIs(S, w, j, v2, q[i].packet.tick, q[i].packet.commands)
      BY <2>12, <3>2, <3>3 DEF SaysOK
    <3>5. \A t \in Nat : HasSaid(S, j, t) => OwnIs(S, w, j, v2, t, Said(S, w, j, t))
      BY <2>12, <3>2 DEF SaysOK
    <3>6. QED
      BY <1>3, <3>2, <3>4, <3>5 DEF SaysOK
  <2>14. AheadOK(v2, r)
    <3>1. PICK p1 \in s.inbox : p1.from = Host /\ p1.tick = T
      BY <2>1
    <3>2. \A i \in DOMAIN r : r[i].type = "ResyncAt" => T <= r[i].tick /\ r[i].tick \in Nat
      BY <3>1 DEF AheadOK
    <3>3. \A i \in DOMAIN r : r[i].type = "ResyncAt" => s2.tick <= r[i].tick + 1
      BY <1>2, <1>5, <3>2
    <3>4. QED
      BY <1>5, <3>3 DEF AheadOK
  <2>15. QED
    BY <2>10, <2>11, <2>13, <2>14 DEF Carries
<1>6. QED
  BY <1>3, <1>4, <1>5

\* The host's world after the barrier, whose tick the seat has just run.
LEMMA AdoptCarries ==
  ASSUME NEW h, NEW w, HostOK(h.session, w), NEW j \in Joiners, NEW v, SeatOK(h, w, j, v),
         v.phase = "playing", AtBarrier(v.session), v.pending.tick = v.session.barrier,
         NEW v2, v2.conn = v.conn, v2.phase = "playing", v2.world = v.pending.world,
         v2.pending = NoResync,
         v2.session = Resynced(v.session, v.pending.tick, v.pending.world),
         NEW r, AheadOK(v, r)
  PROVE  Carries(h, w, j, v, v2, r)
<1> DEFINE S == h.session
           s == v.session
           T == s.tick
           s2 == v2.session
           on == h.line[Cur(j, v)]
           q == h.up[Cur(j, v)]
<1>1. /\ AlwaysOK(S, w, j, v) /\ HeardOK(S, w, j, v)
      /\ S.retired[j] = None => SaysOK(S, w, j, v, on, q) /\ AlignedOK(h, j)
  BY DEF SeatOK, PlayOK, FreeOK
<1>2. /\ Sound(s, j) /\ T \in Nat /\ s.barrier \in Nat /\ T = s.barrier + 1
  BY <1>1 DEF AlwaysOK, HeardOK, Sound, AtBarrier
<1>3. /\ Alike(s, s2) /\ s2.staged = s.staged /\ s2.barrier \in {None, s.barrier}
  BY <1>2, ResyncFields DEF Sound
<1>4. IsList(s2.staged) /\ s2.barrier \in Nat \union {None}
  BY <1>2, <1>3 DEF Sound
<1>5. Sound(s2, j)
  BY <1>2, <1>3, <1>4, AlikeSound
<1>6. /\ s2.tick = T /\ s2.inbox = s.inbox /\ s2.retired = s.retired /\ s2.nextSeal = s.nextSeal
  BY <1>3 DEF Alike
<1>7. s.barrier < S.tick /\ TrueWorld(S, w, v2.world, T)
  <2>1. v.pending.tick # None
    BY <1>2 DEF None
  <2>2. QED
    BY <1>1, <1>2, <2>1 DEF AlwaysOK
<1>8. AlwaysOK(S, w, j, v2)
  <2>1. v2.pending.tick = None
    BY DEF NoResync
  <2>2. WorldOK(v2.world, T)
    BY <1>7 DEF TrueWorld
  <2>3. QED
    BY <1>1, <1>5, <1>6, <2>1, <2>2 DEF AlwaysOK
<1>9. HeardOK(S, w, j, v2)
  <2>1. s2.barrier # None => s2.tick <= s2.barrier + 1
    BY <1>2, <1>3, <1>6
  <2>2. QED
    BY <1>1, <1>6, <2>1 DEF HeardOK
<1>10. AheadOK(v2, r)
  BY <1>6 DEF AheadOK
<1>11. S.retired[j] = None => SaysOK(S, w, j, v2, on, q)
  <2>1. HAVE S.retired[j] = None
  <2>2. SaysOK(S, w, j, v, on, q) /\ AlignedOK(h, j)
    BY <1>1, <2>1
  <2>3. j \in Slots
    BY DEF Joiners
  <2>4. Due(S, j) \in Nat /\ S.tick <= Due(S, j) /\ S.tick \in Nat
    BY <2>3, DueSays
  <2>5. T <= S.tick
    BY <1>2, <1>7, <2>4
  <2>6. ASSUME NEW t \in Nat, HasSaid(S, j, t)
        PROVE  OwnIs(S, w, j, v2, t, Said(S, w, j, t))
    <3>1. OwnIs(S, w, j, v, t, Said(S, w, j, t))
      BY <2>2, <2>6 DEF SaysOK
    <3>2. With(S, w, j, t, Said(S, w, j, t)) = AllSaid(S, w, t)
      BY <2>3 DEF With, AllSaid
    <3>3. t < T => Commanded(v2.world[t + 1]) = OrderOf(AllSaid(S, w, t))
      BY <1>7 DEF TrueWorld
    <3>4. QED
      BY <1>6, <3>1, <3>2, <3>3 DEF OwnIs
  <2>7. ASSUME NEW i \in DOMAIN q, IsTick(q[i])
        PROVE  OwnIs(S, w, j, v2, q[i].packet.tick, q[i].packet.commands)
    <3> DEFINE k == Cur(j, v)
    <3>1. k \in ConnsOf(j)
      BY <1>1, CurConn DEF AlwaysOK
    <3>2. IsList(q)
      BY <3>1 DEF SeatOK, ConnOK, UpOK
    <3>3. i \in Nat /\ 1 <= i
      BY <3>2, ListDomain
    <3>4. q[i].packet.tick = Due(S, j) + i - 1
      BY <2>2, <2>7, <3>1 DEF AlignedOK
    <3>5. q[i].packet.tick >= T /\ ~(q[i].packet.tick < T)
      BY <1>2, <2>4, <2>5, <3>3, <3>4
    <3>6. OwnIs(S, w, j, v, q[i].packet.tick, q[i].packet.commands)
      BY <2>2, <2>7 DEF SaysOK
    <3>7. QED
      BY <1>6, <3>5, <3>6 DEF OwnIs
  <2>8. QED
    BY <1>6, <2>2, <2>6, <2>7 DEF SaysOK
<1>12. QED
  BY <1>8, <1>9, <1>10, <1>11 DEF Carries

\* The joiner's own step: it plays on, or halts, reports it and plays no more.
LEMMA CarriesKept ==
  ASSUME NEW h, NEW w, NEW J, GameOK(h, w, J), NEW j \in Joiners, J[j].phase = "playing",
         NEW k, k = Cur(j, J[j]), NEW r, DownOK(h.session, w, r),
         NEW v1, Carries(h, w, j, J[j], v1, r),
         NEW h2, Wired(h2), Same(h, h2), h2.line = h.line, h2.down[k] = r,
         \A c \in Conns \ {k} : h2.up[c] = h.up[c] /\ h2.down[c] = h.down[c],
         NEW a, IsList(a), \A i \in DOMAIN a : Parting(a[i]),
         NEW J2, \A i \in Joiners : i # j => J2[i] = J[i],
         \/ J2[j] = v1 /\ h2.up = h.up
         \/ /\ J2[j].phase \in {"lost", "over"} /\ J2[j].conn = v1.conn
            /\ J2[j].session = v1.session /\ J2[j].world = v1.world /\ J2[j].pending = v1.pending
            /\ h2.up[k] = h.up[k] \/ (h.line[k] # "gone" /\ h2.up[k] = Put(h.up[k], a))
  PROVE  GameOK(h2, w, J2)
<1> DEFINE S == h.session
           v == J[j]
           v2 == J2[j]
<1>1. SeatOK(h, w, j, v) /\ Wired(h) /\ v.phase = "playing"
  BY DEF GameOK
<1>2. k \in ConnsOf(j) /\ k \in Conns /\ SlotOf(k) = j
  BY <1>1, CurConn DEF SeatOK, AlwaysOK, ConnsOf
<1>3. \A c \in ConnsOf(j) : c \in Conns
  BY DEF ConnsOf
<1> DEFINE h1 == [h EXCEPT !.down = [c \in Conns |-> IF c = k THEN r ELSE h.down[c]]]
<1>4. /\ h1.session = S /\ h1.waiting = h.waiting /\ h1.line = h.line /\ h1.up = h.up
      /\ h1.down = [c \in Conns |-> IF c = k THEN r ELSE h.down[c]]
  BY Zenon, <1>1 DEF Wired, HostFields
<1> HIDE DEF h1
<1>5. h1.down[k] = r /\ \A c \in ConnsOf(j) \ {k} : h1.down[c] = h.down[c]
  BY <1>2, <1>3, <1>4
<1>6. /\ v1.conn = v.conn /\ v1.phase = "playing"
      /\ AlwaysOK(S, w, j, v1) /\ HeardOK(S, w, j, v1)
      /\ S.retired[j] = None => SaysOK(S, w, j, v1, h.line[k], h.up[k])
      /\ AheadOK(v1, r)
  BY DEF Carries
<1> HIDE DEF v
<1>7. SeatOK(h1, w, j, v1)
  <2>1. k = Cur(j, v)
    BY DEF v
  <2>2. DownOK(S, w, h1.down[k]) /\ AheadOK(v1, h1.down[k])
    BY <1>5, <1>6
  <2>3. QED
    BY <1>1, <1>4, <1>5, <1>6, <2>1, <2>2, PlaysOn
<1>8. SeatOK(h2, w, j, v2)
  <2>1. CASE v2 = v1 /\ h2.up = h.up
    <3>1. k = Cur(j, v)
      BY DEF v
    <3>2. DownOK(S, w, h2.down[k]) /\ AheadOK(v1, h2.down[k])
      BY <1>6
    <3>3. \A c \in ConnsOf(j) \ {k} : h2.down[c] = h.down[c]
      BY <1>3
    <3>4. h2.session = S /\ h2.waiting = h.waiting
      BY DEF Same
    <3>5. SeatOK(h2, w, j, v1)
      BY <1>1, <1>6, <2>1, <3>1, <3>2, <3>3, <3>4, PlaysOn
    <3>6. QED
      BY <2>1, <3>5
  <2>2. CASE /\ v2.phase \in {"lost", "over"} /\ v2.conn = v1.conn
             /\ v2.session = v1.session /\ v2.world = v1.world /\ v2.pending = v1.pending
             /\ h2.up[k] = h.up[k] \/ (h.line[k] # "gone" /\ h2.up[k] = Put(h.up[k], a))
    <3>1. k = Cur(j, v1)
      BY <1>6 DEF v, Cur
    <3>2. h2.session = h1.session /\ h2.waiting = h1.waiting /\ h2.line = h1.line
      BY <1>4 DEF Same
    <3>3. \A c \in ConnsOf(j) \ {k} : h2.up[c] = h1.up[c] /\ h2.down[c] = h1.down[c]
      BY <1>3, <1>4, <1>5
    <3>4. h2.up[k] = h1.up[k] \/ (h1.line[k] # "gone" /\ h2.up[k] = Put(h1.up[k], a))
      BY <1>4, <2>2
    <3>5. DownOK(h1.session, w, h2.down[k])
      BY <1>4
    <3> HIDE DEF v2
    <3>6. QED
      BY Zenon, <1>7, <2>2, <3>1, <3>2, <3>3, <3>4, <3>5, OutOfPlay
  <2>3. QED
    BY <2>1, <2>2
<1>9. \A c \in Conns : SlotOf(c) # j =>
        h2.line[c] = h.line[c] /\ h2.up[c] = h.up[c] /\ h2.down[c] = h.down[c]
  BY <1>2
<1>10. QED
  BY <1>8, <1>9, JoinerKept

\* A joiner, of any phase, that plays no more.
LEMMA LostKept ==
  ASSUME NEW h, NEW w, NEW J, GameOK(h, w, J), NEW j \in Joiners,
         NEW k, k = Cur(j, J[j]),
         NEW h2, Wired(h2), Same(h, h2), h2.line = h.line, DownOK(h.session, w, h2.down[k]),
         \A c \in Conns \ {k} : h2.up[c] = h.up[c] /\ h2.down[c] = h.down[c],
         NEW a, IsList(a), \A i \in DOMAIN a : Parting(a[i]),
         h2.up[k] = h.up[k] \/ (h.line[k] # "gone" /\ h2.up[k] = Put(h.up[k], a)),
         NEW J2, \A i \in Joiners : i # j => J2[i] = J[i],
         J2[j].phase \in {"lost", "over"}, J2[j].conn = J[j].conn,
         J2[j].session = J[j].session, J2[j].world = J[j].world, J2[j].pending = J[j].pending
  PROVE  GameOK(h2, w, J2)
<1>1. SeatOK(h, w, j, J[j])
  BY DEF GameOK
<1>2. k \in ConnsOf(j) /\ k \in Conns /\ SlotOf(k) = j
  BY <1>1, CurConn DEF SeatOK, AlwaysOK, ConnsOf
<1>3. \A c \in ConnsOf(j) : c \in Conns
  BY DEF ConnsOf
<1>4. h2.session = h.session /\ h2.waiting = h.waiting
  BY DEF Same
<1>5. \A c \in ConnsOf(j) \ {k} : h2.up[c] = h.up[c] /\ h2.down[c] = h.down[c]
  BY <1>3
<1> DEFINE v == J[j]
           v2 == J2[j]
<1>6. /\ SeatOK(h, w, j, v) /\ k = Cur(j, v)
      /\ v2.session = v.session /\ v2.world = v.world /\ v2.pending = v.pending
      /\ v2.conn = v.conn /\ v2.phase \in {"lost", "over"}
  BY <1>1
<1> HIDE DEF v, v2
<1>7. SeatOK(h2, w, j, v2)
  BY Zenon, <1>4, <1>5, <1>6, OutOfPlay
<1>8. \A c \in Conns : SlotOf(c) # j =>
        h2.line[c] = h.line[c] /\ h2.up[c] = h.up[c] /\ h2.down[c] = h.down[c]
  BY <1>2
<1>9. SeatOK(h2, w, j, J2[j])
  BY <1>7 DEF v2
<1>10. QED
  BY <1>8, <1>9, JoinerKept

\* What the host has, part by part.
LEMMA GameLike ==
  ASSUME NEW h, NEW w, NEW J, GameOK(h, w, J), NEW h2, Wired(h2), Same(h, h2),
         h2.line = h.line, h2.up = h.up, h2.down = h.down,
         NEW J2, \A j \in Joiners : J2[j] = J[j]
  PROVE  GameOK(h2, w, J2)
<1>1. ASSUME NEW j \in Joiners PROVE SeatOK(h2, w, j, J2[j])
  <2>1. SeatOK(h, w, j, J2[j])
    BY DEF GameOK
  <2>2. h2.session = h.session /\ h2.waiting = h.waiting
    BY DEF Same
  <2> DEFINE v == J2[j]
  <2> HIDE DEF v
  <2>3. SeatOK(h, w, j, v) => SeatOK(h2, w, j, v)
    BY <2>2 DEF SeatOK, ConnOK, PlayOK, InPlay, FreeOK, LinesOK, AlignedOK, OnlyCur, KnockedOK
  <2>4. QED
    BY <2>1, <2>3 DEF v
<1>2. QED
  BY <1>1 DEF GameOK, Same

\* A joiner's packet goes last on its connection.
LEMMA UpSeals ==
  ASSUME NEW q, NEW j, UpOK(q, j, "seated"), ~Closed(q), OnlyTicks(q),
         NEW m, IsTick(m), PacketOK(m.packet), m.packet.from = j
  PROVE  /\ UpOK(Put(q, <<m>>), j, "seated") /\ ~Closed(Put(q, <<m>>)) /\ OnlyTicks(Put(q, <<m>>))
         /\ Len(Put(q, <<m>>)) = Len(q) + 1 /\ Len(q) \in Nat
         /\ \A i \in DOMAIN Put(q, <<m>>) :
              \/ i \in DOMAIN q /\ Put(q, <<m>>)[i] = q[i]
              \/ i = Len(q) + 1 /\ Put(q, <<m>>)[i] = m
<1> DEFINE r == Put(q, <<m>>)
           n == Len(q)
<1>1. r = q \o <<m>>
  BY DEF Put
<1>2. IsList(q) /\ \A i \in DOMAIN q : IsTick(q[i])
  BY DEF UpOK, OnlyTicks
<1>3. IsList(<<m>>) /\ DOMAIN <<m>> = {1} /\ <<m>>[1] = m /\ Len(<<m>>) = 1
  BY OneMessage
<1> HIDE DEF r
<1>4. /\ IsList(r) /\ Len(r) = n + Len(<<m>>)
      /\ \A i \in DOMAIN r : \/ i \in DOMAIN q /\ r[i] = q[i]
                             \/ i > n /\ i - n \in DOMAIN <<m>> /\ r[i] = <<m>>[i - n]
  BY <1>1, <1>2, <1>3, ListConcat
<1>5. n \in Nat
  BY <1>2, ListDomain
<1>6. \A i \in DOMAIN r : i \in Nat
  BY <1>4, ListDomain
<1>7. \A i \in DOMAIN r : \/ i \in DOMAIN q /\ r[i] = q[i]
                          \/ i = n + 1 /\ r[i] = m
  <2>1. TAKE i \in DOMAIN r
  <2>2. CASE i \in DOMAIN q /\ r[i] = q[i]
    BY <2>2
  <2>3. CASE i > n /\ i - n \in DOMAIN <<m>> /\ r[i] = <<m>>[i - n]
    <3>1. i - n = 1 /\ r[i] = m
      BY <1>3, <2>3
    <3>2. i = n + 1
      BY <1>5, <1>6, <3>1
    <3>3. QED
      BY <3>1, <3>2
  <2>4. QED
    BY <1>4, <2>2, <2>3
<1>8. Len(r) = n + 1
  BY <1>3, <1>4
<1>9. \A i \in DOMAIN r : IsTick(r[i]) /\ PacketOK(r[i].packet) /\ r[i].packet.from = j
  BY <1>2, <1>7 DEF UpOK
<1>10. \A i \in DOMAIN r : r[i].type # "Join"
  BY <1>9 DEF IsTick
<1>11. UpOK(r, j, "seated")
  BY <1>4, <1>9, <1>10 DEF UpOK
<1>12. ~Closed(r)
  <2>1. DOMAIN r = 1 .. Len(r)
    BY <1>4, ListDomain
  <2>2. n + 1 \in DOMAIN r
    BY <1>5, <1>8, <2>1
  <2>3. IsTick(r[Len(r)])
    BY <1>8, <1>9, <2>2
  <2>4. r[Len(r)] # Fin
    BY <2>3 DEF IsTick, Fin, Msg
  <2>5. QED
    BY <2>4 DEF Closed, Last
<1>13. OnlyTicks(r)
  BY <1>9 DEF OnlyTicks
<1>14. QED
  BY <1>5, <1>7, <1>8, <1>11, <1>12, <1>13 DEF r, n

\* A joiner seals its next packet, which goes to the host as long as it is connected.
LEMMA JoinerSealKept ==
  ASSUME NEW h, NEW w, NEW J, GameOK(h, w, J), NEW j \in Joiners, J[j].phase = "playing",
         NEW k, k = Cur(j, J[j]),
         NEW h2, Wired(h2), Same(h, h2), h2.line = h.line, h2.down = h.down,
         \A c \in Conns \ {k} : h2.up[c] = h.up[c],
         h2.up[k] = IF h.line[k] = "gone" THEN h.up[k]
                    ELSE Put(h.up[k], <<TickMsg(Packet(J[j].session))>>),
         NEW J2, \A i \in Joiners : i # j => J2[i] = J[i],
         J2[j].phase = "playing", J2[j].conn = J[j].conn, J2[j].session = Seal(J[j].session),
         J2[j].world = J[j].world, J2[j].pending = J[j].pending
  PROVE  GameOK(h2, w, J2)
<1> DEFINE S == h.session
           v == J[j]
           v2 == J2[j]
           s == v.session
           s2 == v2.session
           q == h.up[k]
           q2 == h2.up[k]
           on == h.line[k]
           p == Held(Packet(s))
           m == TickMsg(Packet(s))
<1>1. SeatOK(h, w, j, v) /\ v.phase = "playing" /\ HostOK(S, w) /\ j \in Slots /\ j # Host
  BY LiveAssumption DEF GameOK, Joiners
<1>2. /\ AlwaysOK(S, w, j, v) /\ HeardOK(S, w, j, v) /\ AheadOK(v, h.down[k]) /\ OnlyTicks(q)
      /\ \A c \in ConnsOf(j) : ConnOK(h, w, j, v, c)
      /\ on \in {"seated", "gone"}
  BY <1>1 DEF SeatOK, PlayOK, InPlay
<1>3. k \in ConnsOf(j) /\ k \in Conns /\ SlotOf(k) = j
  BY <1>2, CurConn DEF AlwaysOK, ConnsOf
<1>4. \A c \in ConnsOf(j) : c \in Conns
  BY DEF ConnsOf
<1>5. h2.session = S /\ h2.waiting = h.waiting /\ k = Cur(j, v2)
  BY DEF Same, Cur
<1>6. Sound(s, j) /\ s.tick \in Nat /\ s.nextSeal \in Nat /\ s.tick <= s.nextSeal
  BY <1>2 DEF AlwaysOK, Sound
<1>7. /\ Sound(s2, j) /\ s2.tick = s.tick /\ s2.nextSeal = s.nextSeal + 1
      /\ s2.retired = s.retired /\ s2.barrier = s.barrier /\ s2.inbox = s.inbox \union {p}
      /\ p.from = j /\ p.tick = s.nextSeal /\ PacketOK(p) /\ ~HasPacket(s, j, s.nextSeal)
  BY <1>6, SealSound
<1>8. /\ IsTick(m) /\ PacketOK(m.packet) /\ m.packet.from = j /\ m.packet.tick = s.nextSeal
      /\ m.packet.commands = p.commands
  <2>1. /\ p.tick = Packet(s).tick /\ p.from = Packet(s).from /\ p.commands = Packet(s).commands
    BY HeldCommands
  <2>2. IsTick(m) /\ m.packet = Packet(s)
    BY DEF TickMsg, IsTick
  <2>3. QED
    BY <1>7, <2>1, <2>2 DEF PacketOK
<1> HIDE DEF S, v, v2, s, s2, q, q2, on, p, m
<1>9. (on = "gone" /\ q2 = q) \/ (on = "seated" /\ q2 = Put(q, <<m>>))
  BY <1>2 DEF on, q, q2, m, s, v
<1>10. UpOK(q, j, on) /\ IsList(q)
  BY <1>2, <1>3 DEF ConnOK, UpOK, q, on
<1>11. \/ q2 = q /\ (on = "gone" \/ Closed(q))
       \/ /\ on = "seated" /\ ~Closed(q)
          /\ UpOK(q2, j, on) /\ ~Closed(q2) /\ OnlyTicks(q2)
          /\ Len(q2) = Len(q) + 1 /\ Len(q) \in Nat
          /\ \A i \in DOMAIN q2 : \/ i \in DOMAIN q /\ q2[i] = q[i]
                                  \/ i = Len(q) + 1 /\ q2[i] = m
  <2>1. CASE Closed(q)
    BY <1>9, <2>1 DEF Put
  <2>2. CASE ~Closed(q) /\ on = "seated"
    <3>1. UpOK(q, j, "seated")
      BY <1>10, <2>2
    <3>2. /\ UpOK(Put(q, <<m>>), j, "seated") /\ ~Closed(Put(q, <<m>>)) /\ OnlyTicks(Put(q, <<m>>))
          /\ Len(Put(q, <<m>>)) = Len(q) + 1 /\ Len(q) \in Nat
          /\ \A i \in DOMAIN Put(q, <<m>>) :
               \/ i \in DOMAIN q /\ Put(q, <<m>>)[i] = q[i]
               \/ i = Len(q) + 1 /\ Put(q, <<m>>)[i] = m
      BY <1>2, <1>8, <2>2, <3>1, UpSeals
    <3>3. QED
      BY Zenon, <1>9, <2>2, <3>2
  <2>3. QED
    BY <1>9, <2>1, <2>2
<1>12. AlwaysOK(S, w, j, v2)
  BY <1>2, <1>7 DEF AlwaysOK, v, v2, s, s2
<1>13. HeardOK(S, w, j, v2)
  BY <1>2, <1>7 DEF HeardOK, v, v2, s, s2
<1>14. AheadOK(v2, h2.down[k])
  BY <1>1, <1>2, <1>7 DEF AheadOK, v, v2, s, s2
<1>15. UpOK(q2, j, on) /\ OnlyTicks(q2)
  BY <1>2, <1>10, <1>11
<1>16. ASSUME NEW c \in ConnsOf(j) PROVE ConnOK(h2, w, j, v2, c)
  <2>1. ConnOK(h, w, j, v, c) /\ v2.conn = v.conn
    BY <1>2, <1>16 DEF v, v2
  <2>2. CASE c # k
    <3>1. h2.up[c] = h.up[c]
      BY <1>4, <2>2
    <3>2. QED
      BY <1>5, <2>1, <3>1 DEF ConnOK, S
  <2>3. CASE c = k
    <3>1. UpOK(h2.up[c], j, h2.line[c]) /\ h2.line[c] # "none"
      BY <1>2, <1>15, <2>3 DEF q2, on
    <3>2. h2.line[c] = "gone" => h2.up[c] = <<>>
      BY <2>1, <2>3 DEF ConnOK
    <3>3. QED
      BY <1>5, <2>1, <3>1, <3>2 DEF ConnOK, S
  <2>4. QED
    BY <2>2, <2>3
<1>17. S.retired[j] = None => FreeOK(h2, w, j, v2)
  <2>1. HAVE S.retired[j] = None
  <2>2. /\ LinesOK(h, j) /\ AlignedOK(h, j) /\ OnlyCur(h, j, v) /\ SaysOK(S, w, j, v, on, q)
    BY <1>1, <2>1 DEF SeatOK, FreeOK, InPlay, S, v, on, q
  <2>3. Due(S, j) \in Nat /\ \A t \in Nat : HasSaid(S, j, t) => t < Due(S, j)
    BY <1>1, DueSays
  <2>4. /\ Due(S, j) <= s.nextSeal
        /\ on = "seated" /\ ~Closed(q) => s.nextSeal = Due(S, j) + Len(q)
    BY <2>2 DEF SaysOK, s
  <2>5. ASSUME NEW t \in Nat, t < s.nextSeal, NEW cmds, OwnIs(S, w, j, v, t, cmds)
        PROVE  OwnIs(S, w, j, v2, t, cmds)
    <3>1. v2.world = v.world /\ v.session = s /\ v2.session = s2
      BY DEF v, v2, s, s2
    <3>2. p.tick # t
      BY <1>6, <1>7, <2>5
    <3>3. QED
      BY <1>7, <2>5, <3>1, <3>2 DEF OwnIs
  <2>6. OwnIs(S, w, j, v2, s.nextSeal, p.commands)
    <3>1. v2.world = v.world /\ v.session = s /\ v2.session = s2
      BY DEF v, v2, s, s2
    <3>2. ~(s.nextSeal < s2.tick)
      BY <1>6, <1>7
    <3>3. \A r \in s2.inbox : r.from = j /\ r.tick = s.nextSeal => r = p
      BY <1>7 DEF HasPacket
    <3>4. QED
      BY <3>1, <3>2, <3>3 DEF OwnIs
  <2>7. \A i \in DOMAIN q : IsTick(q[i]) =>
          /\ q[i].packet.tick < s.nextSeal /\ q[i].packet.tick \in Nat
          /\ OwnIs(S, w, j, v, q[i].packet.tick, q[i].packet.commands)
    BY <1>10, <2>2 DEF SaysOK, UpOK, PacketOK, s
  <2>8. \A i \in DOMAIN q2 : IsTick(q2[i]) =>
          \/ i \in DOMAIN q /\ q2[i] = q[i]
          \/ q2[i] = m /\ i = Len(q) + 1 /\ s.nextSeal = Due(S, j) + Len(q) /\ Len(q) \in Nat
    BY <1>11, <2>4
  <2>9. \A i \in DOMAIN q2 : IsTick(q2[i]) =>
          /\ q2[i].packet.tick < s2.nextSeal
          /\ OwnIs(S, w, j, v2, q2[i].packet.tick, q2[i].packet.commands)
    <3>1. TAKE i \in DOMAIN q2
    <3>2. HAVE IsTick(q2[i])
    <3>3. CASE i \in DOMAIN q /\ q2[i] = q[i]
      <4>1. /\ q2[i].packet.tick < s.nextSeal /\ q2[i].packet.tick \in Nat
            /\ OwnIs(S, w, j, v, q2[i].packet.tick, q2[i].packet.commands)
        BY <2>7, <3>2, <3>3
      <4>2. q2[i].packet.tick < s2.nextSeal
        BY <1>6, <1>7, <4>1
      <4>3. QED
        BY <2>5, <4>1, <4>2
    <3>4. CASE q2[i] = m
      BY <1>6, <1>7, <1>8, <2>6, <3>4
    <3>5. QED
      BY <2>8, <3>2, <3>3, <3>4
  <2>10. \A t \in Nat : HasSaid(S, j, t) => OwnIs(S, w, j, v2, t, Said(S, w, j, t))
    <3>1. TAKE t \in Nat
    <3>2. HAVE HasSaid(S, j, t)
    <3>3. OwnIs(S, w, j, v, t, Said(S, w, j, t))
      BY <2>2, <3>2 DEF SaysOK
    <3>4. t < s.nextSeal
      BY <1>6, <2>3, <2>4, <3>2
    <3>5. QED
      BY <2>5, <3>3, <3>4
  <2>11. SaysOK(S, w, j, v2, on, q2)
    <3>1. Due(S, j) <= s2.nextSeal
      BY <1>6, <1>7, <2>3, <2>4
    <3>2. on = "seated" /\ ~Closed(q2) => s2.nextSeal = Due(S, j) + Len(q2)
      <4>1. HAVE on = "seated" /\ ~Closed(q2)
      <4>2. ~Closed(q) /\ s2.nextSeal = s.nextSeal + 1 /\ Len(q2) = Len(q) + 1 /\ Len(q) \in Nat
        BY <1>7, <1>11, <4>1
      <4>3. s.nextSeal = Due(S, j) + Len(q)
        BY <2>4, <4>1, <4>2
      <4>4. QED
        BY <2>3, <4>2, <4>3
    <3>3. QED
      BY <2>9, <2>10, <3>1, <3>2 DEF SaysOK, s2
  <2>12. AlignedOK(h2, j)
    <3>1. ASSUME NEW c \in ConnsOf(j), NEW i \in DOMAIN h2.up[c], IsTick(h2.up[c][i])
          PROVE  h2.up[c][i].packet.tick = Due(S, j) + i - 1
      <4>1. CASE c # k
        <5>1. h2.up[c] = h.up[c]
          BY <1>4, <4>1
        <5>2. QED
          BY <2>2, <3>1, <5>1 DEF AlignedOK, S
      <4>2. CASE c = k
        <5>1. i \in DOMAIN q2 /\ IsTick(q2[i])
          BY <3>1, <4>2 DEF q2
        <5>2. CASE i \in DOMAIN q /\ q2[i] = q[i]
          <6>1. q[i].packet.tick = Due(S, j) + i - 1
            BY <1>3, <2>2, <5>1, <5>2 DEF AlignedOK, S, q
          <6>2. QED
            BY <4>2, <5>2, <6>1 DEF q2
        <5>3. CASE q2[i] = m /\ i = Len(q) + 1 /\ s.nextSeal = Due(S, j) + Len(q) /\ Len(q) \in Nat
          <6>1. q2[i].packet.tick = Due(S, j) + i - 1
            BY <1>8, <2>3, <5>3
          <6>2. QED
            BY <4>2, <6>1 DEF q2
        <5>4. QED
          BY <2>8, <5>1, <5>2, <5>3
      <4>3. QED
        BY <4>1, <4>2
    <3>2. QED
      BY <1>5, <3>1 DEF AlignedOK
  <2>13. OnlyCur(h2, j, v2)
    <3>1. k = Cur(j, v) /\ k = Cur(j, v2)
      BY <1>5 DEF v
    <3>2. QED
      BY <1>4, <2>2, <3>1 DEF OnlyCur
  <2>14. LinesOK(h2, j)
    BY <1>5, <2>2 DEF LinesOK
  <2>15. v2.phase = "playing"
    BY DEF v2
  <2>16. SaysOK(h2.session, w, j, v2, h2.line[Cur(j, v2)], h2.up[Cur(j, v2)])
    BY <1>5, <2>11 DEF on, q2
  <2>17. QED
    BY <2>12, <2>13, <2>14, <2>15, <2>16 DEF FreeOK
<1>18. SeatOK(h2, w, j, v2)
  <2>1. v2.phase = "playing"
    BY DEF v2
  <2>2. PlayOK(h2, w, j, v2)
    BY <1>5, <1>13, <1>14, <1>15 DEF PlayOK, q2
  <2>3. h2.line[Cur(j, v2)] \in {"seated", "gone"}
    BY <1>2, <1>5 DEF on
  <2>4. QED
    BY <1>5, <1>12, <1>16, <1>17, <2>1, <2>2, <2>3 DEF SeatOK
<1>19. \A c \in Conns : SlotOf(c) # j =>
         h2.line[c] = h.line[c] /\ h2.up[c] = h.up[c] /\ h2.down[c] = h.down[c]
  BY <1>3
<1>20. SeatOK(h2, w, j, J2[j])
  BY <1>18 DEF v2
<1>21. QED
  BY <1>19, <1>20, JoinerKept

\* A joiner that knocks and does not hear its answer yet.
LEMMA HearsKept ==
  ASSUME NEW h, NEW w, NEW J, GameOK(h, w, J), NEW j \in Joiners, J[j].phase = "knocking",
         NEW k, k = Cur(j, J[j]), h.down[k] # <<>>,
         NEW h2, Wired(h2), Same(h, h2), h2.line = h.line, h2.up = h.up,
         h2.down[k] = Tail(h.down[k]), \A c \in Conns \ {k} : h2.down[c] = h.down[c]
  PROVE  GameOK(h2, w, J)
<1> DEFINE S == h.session
           v == J[j]
           q == h.down[k]
           r == h2.down[k]
<1>1. SeatOK(h, w, j, v) /\ v.phase = "knocking"
  BY DEF GameOK
<1>2. k \in ConnsOf(j) /\ k \in Conns /\ SlotOf(k) = j
  BY <1>1, CurConn DEF SeatOK, AlwaysOK, ConnsOf
<1>3. \A c \in ConnsOf(j) : c \in Conns
  BY DEF ConnsOf
<1>4. h2.session = S /\ h2.waiting = h.waiting /\ k = Cur(j, v)
  BY DEF Same
<1> HIDE DEF S, v, q, r
<1>5. DownOK(S, w, q) /\ IsList(q) /\ q # <<>> /\ r = Tail(q)
  BY <1>1, <1>2 DEF SeatOK, ConnOK, DownOK, q, r, S
<1>6. DownOK(S, w, r)
  BY <1>5, DownTail
<1>7. \A i \in DOMAIN r : i + 1 \in DOMAIN q /\ r[i] = q[i + 1]
  BY <1>5, ListTail
<1>8. Rejoining(r) => Rejoining(q)
  BY <1>7 DEF Rejoining
<1>9. InPlay(h2, j, v) => InPlay(h, j, v)
  BY <1>4, <1>8 DEF InPlay, q, r
<1>10. ASSUME NEW c \in ConnsOf(j) PROVE ConnOK(h2, w, j, v, c)
  <2>1. ConnOK(h, w, j, v, c)
    BY <1>1, <1>10 DEF SeatOK
  <2>2. CASE c = k
    <3>1. h.line[k] # "none"
      <4>1. h.line[k] = "none" => q = <<>>
        BY <2>1, <2>2 DEF ConnOK, q
      <4>2. QED
        BY <1>5, <4>1
    <3>2. DownOK(S, w, h2.down[c])
      BY <1>6, <2>2 DEF r
    <3>3. QED
      BY <1>4, <2>1, <2>2, <3>1, <3>2 DEF ConnOK
  <2>3. CASE c # k
    <3>1. h2.down[c] = h.down[c]
      BY <1>3, <2>3
    <3>2. QED
      BY <1>4, <2>1, <3>1 DEF ConnOK, S
  <2>4. QED
    BY <2>2, <2>3
<1>11. S.retired[j] = None => FreeOK(h2, w, j, v)
  <2>1. HAVE S.retired[j] = None
  <2>2. FreeOK(h, w, j, v)
    BY <1>1, <2>1 DEF SeatOK, S
  <2>3. LinesOK(h2, j) /\ AlignedOK(h2, j) /\ (InPlay(h2, j, v) => OnlyCur(h2, j, v))
    BY <1>4, <1>9, <2>2 DEF FreeOK, LinesOK, AlignedOK, OnlyCur, S
  <2>4. KnockedOK(h2, j, v)
    <3>1. \A i \in DOMAIN q : q[i].type = "Rejoin" => q[i].next = Due(S, j)
      BY <1>1, <1>4, <2>2 DEF FreeOK, KnockedOK, q, S
    <3>2. \A i \in DOMAIN r : r[i].type = "Rejoin" => r[i].next = Due(S, j)
      BY <1>7, <3>1
    <3>3. QED
      BY <1>4, <3>2 DEF KnockedOK, r
  <2>5. QED
    BY <1>1, <2>3, <2>4 DEF FreeOK
<1>12. SeatOK(h2, w, j, v)
  BY <1>1, <1>4, <1>9, <1>10, <1>11 DEF SeatOK, S
<1>13. \A c \in Conns : SlotOf(c) # j =>
         h2.line[c] = h.line[c] /\ h2.up[c] = h.up[c] /\ h2.down[c] = h.down[c]
  BY <1>2
<1>14. SeatOK(h2, w, j, J[j])
  BY <1>12 DEF v
<1>15. QED
  BY <1>13, <1>14, JoinerKept

\* What is left on the connection of a joiner that has been seated on it as it knocked.
LEMMA OnlyFin ==
  ASSUME NEW q, NEW j, NEW on \in {"seated", "gone"}, UpOK(q, j, on), on = "gone" => q = <<>>,
         OnlyJoins(q)
  PROVE  /\ \A i \in DOMAIN q : ~IsTick(q[i])
         /\ OnlyTicks(q) /\ (~Closed(q) => Len(q) = 0)
<1>1. IsList(q)
  BY DEF UpOK
<1>2. on = "seated" => \A i \in DOMAIN q : q[i].type # "Join"
  BY DEF UpOK
<1>3. DOMAIN <<>> = {} /\ Len(<<>>) = 0
  OBVIOUS
<1>4. \A i \in DOMAIN q : q[i] = Fin
  BY <1>2, <1>3 DEF OnlyJoins
<1>5. ASSUME q # <<>> PROVE Closed(q)
  <2>1. Len(q) \in DOMAIN q
    BY <1>1, <1>5, ListDomain
  <2>2. q[Len(q)] = Fin
    BY <1>4, <2>1
  <2>3. QED
    BY <1>5, <2>2 DEF Closed, Last
<1>6. \A i \in DOMAIN q : ~IsTick(q[i])
  BY <1>4 DEF IsTick, Fin, Msg
<1>7. ~Closed(q) => Len(q) = 0 /\ \A i \in DOMAIN q : IsTick(q[i])
  BY <1>3, <1>5
<1>8. QED
  BY <1>6, <1>7 DEF OnlyTicks

\* A seat taken back: the joiner plays from where the host is to hear it next.
LEMMA RejoinsKept ==
  ASSUME NEW h, NEW w, NEW J, GameOK(h, w, J), NEW j \in Joiners, J[j].phase = "knocking",
         NEW k, k = Cur(j, J[j]), h.down[k] # <<>>, NEW m, m = Head(h.down[k]), m.type = "Rejoin",
         NEW h2, Wired(h2), Same(h, h2), h2.line = h.line, h2.up = h.up,
         h2.down[k] = Tail(h.down[k]), \A c \in Conns \ {k} : h2.down[c] = h.down[c],
         NEW J2, \A i \in Joiners : i # j => J2[i] = J[i],
         J2[j].phase = "playing", J2[j].conn = J[j].conn, J2[j].pending = J[j].pending,
         J2[j].session = Rejoin(j, Host, m.retired, m.next, m.world), J2[j].world = m.world
  PROVE  GameOK(h2, w, J2)
<1> DEFINE S == h.session
           v == J[j]
           v2 == J2[j]
           s2 == v2.session
           d == h.down[k]
           r == h2.down[k]
           q == h.up[k]
           on == h.line[k]
<1>1. SeatOK(h, w, j, v) /\ HostOK(S, w) /\ v.phase = "knocking" /\ j \in Slots /\ j # Host
      /\ Host \in Slots
  BY LiveAssumption DEF GameOK, Joiners
<1>2. k \in ConnsOf(j) /\ k \in Conns /\ SlotOf(k) = j
  BY <1>1, CurConn DEF SeatOK, AlwaysOK, ConnsOf
<1>3. \A c \in ConnsOf(j) : c \in Conns
  BY DEF ConnsOf
<1>4. h2.session = S /\ h2.waiting = h.waiting /\ k = Cur(j, v) /\ k = Cur(j, v2)
  BY DEF Same, Cur
<1>5. v2.phase = "playing" /\ v2.conn = v.conn /\ v2.pending = v.pending /\ v2.world = m.world
  OBVIOUS
<1>6. s2 = Rejoin(j, Host, m.retired, m.next, m.world)
  OBVIOUS
<1> HIDE DEF S, v, v2, s2, d, r, q, on
<1>7. DownOK(S, w, d) /\ IsList(d) /\ d # <<>> /\ r = Tail(d) /\ m = Head(d)
  BY <1>1, <1>2 DEF SeatOK, ConnOK, DownOK, d, r, S
<1>8. /\ DownOK(S, w, r) /\ DownGood(S, w, m)
      /\ \A i \in DOMAIN r : r[i].type = "ResyncAt" => Before(m, r[i].tick)
  BY <1>7, DownTail
<1>9. 1 \in DOMAIN d /\ d[1] = m
  BY <1>7, ListTail
<1>10. InPlay(h, j, v)
  <2>1. Rejoining(d)
    BY <1>9 DEF Rejoining
  <2>2. QED
    BY <1>1, <1>4, <2>1 DEF InPlay, d
<1>11. on \in {"seated", "gone"} /\ OnlyJoins(q) /\ UpOK(q, j, on) /\ (on = "gone" => q = <<>>)
  BY <1>1, <1>2, <1>4, <1>10 DEF SeatOK, ConnOK, on, q
<1>12. /\ \A i \in DOMAIN q : ~IsTick(q[i])
       /\ OnlyTicks(q) /\ (~Closed(q) => Len(q) = 0)
  BY <1>11, OnlyFin
<1>13. /\ m.next \in Nat /\ m.next <= S.tick /\ TrueWorld(S, w, m.world, m.next)
       /\ m.retired[Host] = None
       /\ \A x \in Slots : m.retired[x] # None => Ended(S, w, x, m.retired[x])
  BY <1>8 DEF DownGood
<1> DEFINE next == m.next
           retired == m.retired
           ran == m.world
<1>25. next \in Nat /\ next <= S.tick /\ s2 = Rejoin(j, Host, retired, next, ran)
  BY <1>6, <1>13
<1>27. j \in Slots
  BY <1>1
<1> HIDE DEF next, retired, ran
<1>28. TakenBack(s2, j, retired, next)
  BY Zenon, <1>25, <1>27, RejoinSound
<1>26. /\ Sound(s2, j) /\ s2.tick = next /\ s2.nextSeal = next /\ s2.inbox = {}
       /\ s2.barrier = None
       /\ s2.retired[j] = None /\ \A x \in Slots \ {j} : s2.retired[x] = retired[x]
  BY Zenon, <1>28 DEF TakenBack
<1>14. /\ Sound(s2, j) /\ s2.tick = m.next /\ s2.nextSeal = m.next /\ s2.inbox = {}
       /\ s2.barrier = None
       /\ s2.retired[j] = None /\ \A x \in Slots \ {j} : s2.retired[x] = m.retired[x]
  BY <1>26 DEF next, retired
<1>15. S.tick \in Nat /\ S.tick <= MaxTick /\ MaxTick \in Nat
  BY <1>1, LiveAssumption DEF HostOK, Sound
<1>16. AlwaysOK(S, w, j, v2)
  <2>1. WorldOK(v2.world, s2.tick)
    BY <1>5, <1>13, <1>14 DEF TrueWorld
  <2>4. s2.tick <= MaxTick
    BY <1>15, <1>25, <1>26
  <2>2. AlwaysOK(S, w, j, v)
    BY <1>1 DEF SeatOK, S
  <2>3. QED
    BY <1>5, <1>14, <2>1, <2>2, <2>4 DEF AlwaysOK, s2
<1>17. HeardOK(S, w, j, v2)
  <2>1. \A p \in s2.inbox : p.from # j => AsSaid(S, w, p)
    BY <1>14
  <2>2. s2.retired[Host] = None
    BY <1>1, <1>13, <1>14
  <2>3. \A x \in Slots : s2.retired[x] # None => Ended(S, w, x, s2.retired[x])
    BY <1>13, <1>14
  <2>4. \A x \in Slots, t \in Nat : x # j /\ t < s2.tick => Settled(S, x, t)
    <3>1. \A t \in Nat : t < s2.tick => t < S.tick
      BY <1>15, <1>25, <1>26
    <3>2. QED
      BY <3>1 DEF Settled, HasSaid
  <2>5. QED
    BY <1>14, <2>1, <2>2, <2>3, <2>4 DEF HeardOK, s2
<1>18. AheadOK(v2, r)
  <2>1. \A i \in DOMAIN r : r[i].type = "ResyncAt" => s2.tick <= r[i].tick + 1
    BY <1>8, <1>14 DEF Before
  <2>2. QED
    BY <1>14, <2>1 DEF AheadOK, s2
<1>19. ASSUME NEW c \in ConnsOf(j) PROVE ConnOK(h2, w, j, v2, c)
  <2>1. ConnOK(h, w, j, v, c)
    BY <1>1, <1>19 DEF SeatOK
  <2>2. CASE c = k
    <3>1. h.line[c] # "none"
      BY <1>11, <2>2 DEF on
    <3>2. DownOK(S, w, h2.down[c])
      BY <1>8, <2>2 DEF r
    <3>3. QED
      BY <1>4, <1>5, <2>1, <3>1, <3>2 DEF ConnOK
  <2>3. CASE c # k
    <3>1. h2.down[c] = h.down[c]
      BY <1>3, <2>3
    <3>2. QED
      BY <1>4, <1>5, <2>1, <3>1 DEF ConnOK, S
  <2>4. QED
    BY <2>2, <2>3
<1>20. S.retired[j] = None => FreeOK(h2, w, j, v2)
  <2>1. HAVE S.retired[j] = None
  <2>2. FreeOK(h, w, j, v)
    BY <1>1, <2>1 DEF SeatOK, S
  <2>3. LinesOK(h2, j) /\ AlignedOK(h2, j) /\ OnlyCur(h2, j, v2)
    BY <1>4, <1>10, <2>2 DEF FreeOK, LinesOK, AlignedOK, OnlyCur, S
  <2>4. m.next = Due(S, j)
    BY <1>1, <1>4, <1>9, <2>2 DEF FreeOK, KnockedOK, d, S
  <2>5. Due(S, j) \in Nat
    BY <1>1, DueSays
  <2>6. ASSUME NEW t \in Nat, HasSaid(S, j, t)
        PROVE  OwnIs(S, w, j, v2, t, Said(S, w, j, t))
    <3>1. With(S, w, j, t, Said(S, w, j, t)) = AllSaid(S, w, t)
      BY <1>1 DEF With, AllSaid
    <3>2. t < m.next => Commanded(v2.world[t + 1]) = OrderOf(AllSaid(S, w, t))
      BY <1>5, <1>13 DEF TrueWorld
    <3>3. QED
      BY <1>14, <3>1, <3>2 DEF OwnIs, s2
  <2>7. SaysOK(S, w, j, v2, on, q)
    <3>1. Due(S, j) <= s2.nextSeal
      BY <1>14, <2>4, <2>5
    <3>2. on = "seated" /\ ~Closed(q) => s2.nextSeal = Due(S, j) + Len(q)
      BY <1>12, <1>14, <2>4, <2>5
    <3>3. QED
      BY <1>12, <2>6, <3>1, <3>2 DEF SaysOK, s2
  <2>8. SaysOK(h2.session, w, j, v2, h2.line[Cur(j, v2)], h2.up[Cur(j, v2)])
    BY <1>4, <2>7 DEF on, q
  <2>9. QED
    BY <1>5, <2>3, <2>8 DEF FreeOK
<1>21. SeatOK(h2, w, j, v2)
  <2>1. PlayOK(h2, w, j, v2)
    BY <1>4, <1>12, <1>17, <1>18 DEF PlayOK, q, r
  <2>2. h2.line[Cur(j, v2)] \in {"seated", "gone"}
    BY <1>4, <1>11 DEF on
  <2>3. QED
    BY <1>4, <1>5, <1>16, <1>19, <1>20, <2>1, <2>2 DEF SeatOK
<1>22. \A c \in Conns : SlotOf(c) # j =>
         h2.line[c] = h.line[c] /\ h2.up[c] = h.up[c] /\ h2.down[c] = h.down[c]
  BY <1>2
<1>23. SeatOK(h2, w, j, J2[j])
  BY <1>21 DEF v2
<1>24. QED
  BY <1>22, <1>23, JoinerKept

\* A joiner that has lost the game knocks, on a connection of its own.
LEMMA KnocksKept ==
  ASSUME NEW h, NEW w, NEW J, GameOK(h, w, J), NEW j \in Joiners, J[j].phase = "lost",
         J[j].conn < MaxConn,
         NEW k, k = Cur(j, J[j]), NEW new, new = <<j, J[j].conn + 1>>,
         NEW a, IsList(a), \A i \in DOMAIN a : Parting(a[i]),
         NEW h2, Wired(h2), Same(h, h2),
         \A c \in Conns \ {k, new} :
           h2.line[c] = h.line[c] /\ h2.up[c] = h.up[c] /\ h2.down[c] = h.down[c],
         h2.line[k] = h.line[k], h2.down[k] = <<Fin>>,
         h2.up[k] = h.up[k] \/ (h.line[k] # "gone" /\ h2.up[k] = Put(h.up[k], a)),
         h2.line[new] = "connecting", h2.up[new] = <<Msg("Join")>>, h2.down[new] = h.down[new],
         NEW J2, \A i \in Joiners : i # j => J2[i] = J[i],
         J2[j].phase = "knocking", J2[j].conn = J[j].conn + 1, J2[j].world = <<>>,
         J2[j].pending = NoResync, J2[j].session = NewSession(j, Host)
  PROVE  GameOK(h2, w, J2)
<1> DEFINE S == h.session
           v == J[j]
           v2 == J2[j]
           n == v.conn
<1>1. SeatOK(h, w, j, v) /\ HostOK(S, w) /\ j \in Slots /\ v.phase = "lost"
  BY DEF GameOK, Joiners
<1>2. /\ n \in Nat /\ n < MaxConn /\ n + 1 \in 0 .. MaxConn /\ MaxTick \in Nat
      /\ v2.conn = n + 1 /\ v2.phase = "knocking"
  BY <1>1, LiveAssumption DEF SeatOK, AlwaysOK
<1>3. /\ k \in ConnsOf(j) /\ k \in Conns /\ SlotOf(k) = j /\ k[2] = n
      /\ new \in ConnsOf(j) /\ new \in Conns /\ SlotOf(new) = j /\ new[2] = n + 1
      /\ new = Cur(j, v2) /\ k # new
  <2>1. k \in ConnsOf(j) /\ k \in Conns /\ k[2] = n
    BY <1>1, CurConn DEF SeatOK, AlwaysOK
  <2>2. new \in Conns /\ new[2] = n + 1 /\ SlotOf(new) = j /\ new = Cur(j, v2)
    BY <1>2 DEF Conns, SlotOf, Cur
  <2>3. QED
    BY <1>2, <2>1, <2>2 DEF ConnsOf
<1>4. \A c \in ConnsOf(j) : c \in Conns /\ c = <<j, c[2]>> /\ c[2] \in Nat
  BY DEF ConnsOf, Conns, SlotOf
<1>5. h2.session = S /\ h2.waiting = h.waiting
  BY DEF Same
<1>6. \A c \in ConnsOf(j) : ConnOK(h, w, j, v, c)
  BY <1>1 DEF SeatOK
<1>7. h.line[new] = "none" /\ h.up[new] = <<>> /\ h.down[new] = <<>>
  BY <1>2, <1>3, <1>6 DEF ConnOK
<1>8. /\ IsList(<<>>) /\ DOMAIN <<>> = {} /\ Len(<<>>) = 0
      /\ \A m : IsList(<<m>>) /\ DOMAIN <<m>> = {1} /\ <<m>>[1] = m
  BY OneMessage, EmptySeq DEF IsList
<1>9. Msg("Join").type = "Join" /\ Fin.type = "Fin"
  BY DEF Msg, Fin
<1>10. UpOK(h2.up[new], j, "connecting") /\ OnlyJoins(h2.up[new])
  BY <1>8, <1>9 DEF UpOK, OnlyJoins, IsTick
<1>11. DownOK(S, w, <<>>)
  BY <1>8 DEF DownOK
<1>12. DownOK(S, w, <<Fin>>)
  BY <1>8, <1>9 DEF DownOK, DownGood
<1>13. /\ UpOK(h2.up[k], j, h.line[k])
       /\ \A i \in DOMAIN h2.up[k] : IsTick(h2.up[k][i]) => i \in DOMAIN h.up[k] /\ h2.up[k][i] = h.up[k][i]
  <2> DEFINE q == h.up[k]
             on == h.line[k]
  <2>1. UpOK(q, j, on)
    BY <1>3, <1>6 DEF ConnOK
  <2> HIDE DEF q, on
  <2>2. /\ UpOK(Put(q, a), j, on)
        /\ \A i \in DOMAIN Put(q, a) : IsTick(Put(q, a)[i]) => i \in DOMAIN q /\ Put(q, a)[i] = q[i]
    BY <2>1, UpParting
  <2>3. h2.up[k] = q \/ h2.up[k] = Put(q, a)
    BY DEF q
  <2>4. QED
    BY <2>1, <2>2, <2>3 DEF q, on
<1> HIDE DEF S, v, v2, n
<1>14. ASSUME NEW c \in ConnsOf(j) PROVE ConnOK(h2, w, j, v2, c)
  <2>1. CASE c = new
    <3>1. UpOK(h2.up[c], j, h2.line[c]) /\ DownOK(S, w, h2.down[c])
      BY <1>7, <1>10, <1>11, <2>1
    <3>2. h2.line[c] = "connecting" /\ c[2] # 0 /\ ~(c[2] > v2.conn)
      BY <1>2, <1>3, <2>1
    <3>3. QED
      BY <1>5, <3>1, <3>2 DEF ConnOK
  <2>2. CASE c = k
    <3>1. ConnOK(h, w, j, v, k) /\ h2.line[k] = h.line[k]
      BY <1>3, <1>6
    <3>2. UpOK(h2.up[k], j, h2.line[k]) /\ DownOK(S, w, h2.down[k])
      BY <1>12, <1>13
    <3>3. h.line[k] # "none" /\ ~(k[2] > v2.conn)
      BY <1>2, <1>3, <3>1 DEF ConnOK, n
    <3>4. h2.line[k] = "gone" => h2.up[k] = <<>>
      BY <3>1 DEF ConnOK
    <3>5. QED
      BY <1>5, <2>2, <3>1, <3>2, <3>3, <3>4 DEF ConnOK
  <2>3. CASE c # new /\ c # k
    <3>1. h2.line[c] = h.line[c] /\ h2.up[c] = h.up[c] /\ h2.down[c] = h.down[c]
      BY <1>4, <2>3
    <3>2. ConnOK(h, w, j, v, c)
      BY <1>6
    <3>3. c[2] \in Nat /\ c[2] # n + 1
      BY <1>3, <1>4, <2>3 DEF Cur
    <3>4. c[2] > n + 1 <=> c[2] > n
      BY <1>2, <3>3
    <3>5. QED
      BY <1>2, <1>5, <3>1, <3>2, <3>4 DEF ConnOK, S, n
  <2>4. QED
    BY <2>1, <2>2, <2>3
<1>15. AlwaysOK(S, w, j, v2)
  <2>1. Sound(v2.session, j) /\ v2.session.tick = 0
    <3>1. v2.session = NewSession(j, Host)
      BY DEF v2
    <3>2. Sound(v2.session, j)
      BY <1>1, <3>1, NewSound
    <3>3. v2.session.tick = 0
      BY <3>1 DEF NewSession
    <3>4. QED
      BY <3>2, <3>3
  <2>2. WorldOK(v2.world, 0)
    BY <1>8 DEF WorldOK, v2
  <2>3. v2.pending.tick = None
    BY DEF v2, NoResync
  <2>4. QED
    BY <1>2, <2>1, <2>2, <2>3 DEF AlwaysOK
<1>16. ~InPlay(h2, j, v2)
  <2>1. ~Rejoining(h2.down[Cur(j, v2)])
    BY <1>3, <1>7, <1>8 DEF Rejoining
  <2>2. QED
    BY <1>2, <2>1 DEF InPlay
<1>17. S.retired[j] = None => FreeOK(h2, w, j, v2)
  <2>1. HAVE S.retired[j] = None
  <2>2. FreeOK(h, w, j, v)
    BY <1>1, <2>1 DEF SeatOK, S
  <2>3. \A c \in ConnsOf(j) : h2.line[c] = h.line[c] \/ h2.line[c] = "connecting"
    BY <1>4
  <2>4. LinesOK(h2, j)
    BY <1>5, <2>2, <2>3 DEF FreeOK, LinesOK
  <2>5. \A c \in ConnsOf(j) : \A i \in DOMAIN h2.up[c] :
          IsTick(h2.up[c][i]) => i \in DOMAIN h.up[c] /\ h2.up[c][i] = h.up[c][i]
    <3>1. TAKE c \in ConnsOf(j)
    <3>2. CASE c = new
      BY <1>8, <1>9, <3>2 DEF IsTick
    <3>3. CASE c = k
      BY <1>13, <3>3
    <3>4. CASE c # new /\ c # k
      BY <1>4, <3>4
    <3>5. QED
      BY <3>2, <3>3, <3>4
  <2>6. AlignedOK(h2, j)
    BY <1>5, <2>2, <2>5 DEF FreeOK, AlignedOK, S
  <2>7. KnockedOK(h2, j, v2)
    BY <1>3, <1>7, <1>8 DEF KnockedOK
  <2>8. QED
    BY <1>2, <1>16, <2>4, <2>6, <2>7 DEF FreeOK
<1>18. SeatOK(h2, w, j, v2)
  BY <1>2, <1>3, <1>5, <1>10, <1>14, <1>15, <1>16, <1>17 DEF SeatOK
<1>19. \A c \in Conns : SlotOf(c) # j =>
         h2.line[c] = h.line[c] /\ h2.up[c] = h.up[c] /\ h2.down[c] = h.down[c]
  BY <1>3
<1>20. SeatOK(h2, w, j, J2[j])
  BY <1>18 DEF v2
<1>21. QED
  BY <1>19, <1>20, JoinerKept

(***************************************************************************)
(* A connection that breaks.                                               *)
(***************************************************************************)
\* What is left of a channel that breaks.
LEMMA LossyIs ==
  ASSUME NEW q, IsList(q), NEW r, r \in Lossy(q)
  PROVE  /\ IsList(r) /\ Closed(r)
         /\ \A i \in DOMAIN r :
              \/ /\ i \in DOMAIN q /\ r[i] = q[i]
                 /\ \A k \in DOMAIN r : k < i => k \in DOMAIN q /\ r[k] = q[k]
              \/ r[i] = Fin
<1>1. Len(q) \in Nat
  BY ListDomain
<1>2. PICK n \in 0 .. Len(q) - (IF Closed(q) THEN 1 ELSE 0) : r = Append(SubSeq(q, 1, n), Fin)
  BY DEF Lossy
<1>3. n \in 0 .. Len(q)
  <2>1. CASE Closed(q)
    BY <1>1, <1>2, <2>1
  <2>2. CASE ~Closed(q)
    BY <1>1, <1>2, <2>2
  <2>3. QED
    BY <2>1, <2>2
<1> DEFINE p == SubSeq(q, 1, n)
<1>4. IsList(p) /\ Len(p) = n /\ \A i \in DOMAIN p : i \in DOMAIN q /\ p[i] = q[i]
  BY <1>3, ListPrefix
<1>5. r = Append(p, Fin)
  BY <1>2
<1> HIDE DEF p
<1>6. PICK T : p \in Seq(T)
  BY <1>4 DEF IsList
<1> DEFINE U == T \union {Fin}
<1>7. p \in Seq(U) /\ Fin \in U
  BY <1>6
<1> HIDE DEF U
<1>8. r \in Seq(U) /\ Len(r) = n + 1 /\ r[n + 1] = Fin /\ \A i \in 1 .. n : r[i] = p[i]
  BY <1>4, <1>5, <1>7, AppendProperties
<1>9. IsList(r)
  BY <1>8 DEF IsList
<1>10. DOMAIN r = 1 .. n + 1 /\ DOMAIN p = 1 .. n /\ n \in Nat
  BY <1>3, <1>4, <1>8, <1>9, ListDomain
<1>11. \A i \in 1 .. n : i \in DOMAIN q /\ r[i] = q[i]
  BY <1>4, <1>8, <1>10
<1>12. Closed(r)
  <2>1. r # <<>>
    BY <1>8, <1>9, <1>10, ListDomain
  <2>2. QED
    BY <1>8, <2>1 DEF Closed, Last
<1>13. ASSUME NEW i \in DOMAIN r
       PROVE  \/ /\ i \in DOMAIN q /\ r[i] = q[i]
                 /\ \A k \in DOMAIN r : k < i => k \in DOMAIN q /\ r[k] = q[k]
              \/ r[i] = Fin
  <2>1. CASE i = n + 1
    BY <1>8, <2>1
  <2>2. CASE i \in 1 .. n
    <3>1. \A k \in DOMAIN r : k < i => k \in 1 .. n
      BY <1>10, <2>2
    <3>2. QED
      BY <1>11, <2>2, <3>1
  <2>3. QED
    BY <1>10, <2>1, <2>2
<1>14. QED
  BY <1>9, <1>12, <1>13

LEMMA BreakKept ==
  ASSUME NEW h, NEW w, NEW J, GameOK(h, w, J), NEW c \in Conns, h.line[c] \notin {"none", "gone"},
         NEW h2, Wired(h2), Same(h, h2), h2.line = h.line,
         h2.up[c] \in Lossy(h.up[c]), h2.down[c] \in Lossy(h.down[c]),
         \A d \in Conns \ {c} : h2.up[d] = h.up[d] /\ h2.down[d] = h.down[d]
  PROVE  GameOK(h2, w, J)
<1> DEFINE S == h.session
           j == SlotOf(c)
           v == J[j]
           q == h.up[c]
           r == h2.up[c]
           d == h.down[c]
           e == h2.down[c]
           on == h.line[c]
<1>1. j \in Joiners /\ c \in ConnsOf(j)
  BY DEF Conns, SlotOf, ConnsOf
<1>2. SeatOK(h, w, j, v)
  BY <1>1 DEF GameOK
<1>3. \A b \in ConnsOf(j) : b \in Conns
  BY DEF ConnsOf
<1>4. h2.session = S /\ h2.waiting = h.waiting
  BY DEF Same
<1>5. ConnOK(h, w, j, v, c)
  BY <1>1, <1>2 DEF SeatOK
<1>6. /\ r \in Lossy(q) /\ e \in Lossy(d) /\ on \notin {"none", "gone"}
      /\ \A b \in Conns \ {c} : h2.up[b] = h.up[b] /\ h2.down[b] = h.down[b]
  OBVIOUS
<1> HIDE DEF S, j, v, q, r, d, e, on
<1>7. UpOK(q, j, on) /\ IsList(q) /\ DownOK(S, w, d) /\ IsList(d)
  BY <1>5 DEF ConnOK, UpOK, DownOK, q, d, on, S
<1>8. /\ IsList(r) /\ Closed(r)
      /\ \A i \in DOMAIN r :
           \/ /\ i \in DOMAIN q /\ r[i] = q[i]
              /\ \A k \in DOMAIN r : k < i => k \in DOMAIN q /\ r[k] = q[k]
           \/ r[i] = Fin
  BY <1>6, <1>7, LossyIs
<1>9. /\ IsList(e)
      /\ \A i \in DOMAIN e :
           \/ /\ i \in DOMAIN d /\ e[i] = d[i]
              /\ \A k \in DOMAIN e : k < i => k \in DOMAIN d /\ e[k] = d[k]
           \/ e[i] = Fin
  BY <1>6, <1>7, LossyIs
<1>10. Fin.type = "Fin" /\ ~IsTick(Fin)
  BY DEF Fin, Msg, IsTick
<1>11. UpOK(r, j, on)
  BY <1>7, <1>8, <1>10 DEF UpOK
<1>12. DownOK(S, w, e)
  <2>1. \A i \in DOMAIN e : DownGood(S, w, e[i])
    BY <1>7, <1>9, <1>10 DEF DownOK, DownGood
  <2>2. \A i, k \in DOMAIN e : i < k /\ e[k].type = "ResyncAt" => Before(e[i], e[k].tick)
    <3>1. TAKE i, k \in DOMAIN e
    <3>2. HAVE i < k /\ e[k].type = "ResyncAt"
    <3>3. e[k] # Fin
      BY <1>10, <3>2
    <3>4. k \in DOMAIN d /\ e[k] = d[k] /\ i \in DOMAIN d /\ e[i] = d[i]
      BY <1>9, <3>2, <3>3
    <3>5. QED
      BY <1>7, <3>2, <3>4 DEF DownOK
  <2>3. QED
    BY <1>9, <2>1, <2>2 DEF DownOK
<1>13. \A i \in DOMAIN r : IsTick(r[i]) => i \in DOMAIN q /\ r[i] = q[i]
  BY <1>8, <1>10
<1>14. \A i \in DOMAIN e : e[i].type \in {"Rejoin", "ResyncAt"} => i \in DOMAIN d /\ e[i] = d[i]
  BY <1>9, <1>10
<1>15. Rejoining(e) => Rejoining(d)
  BY <1>14 DEF Rejoining
<1>16. \A b \in ConnsOf(j) : b # c => h2.up[b] = h.up[b] /\ h2.down[b] = h.down[b]
  BY <1>3, <1>6
<1>17. \A b \in ConnsOf(j) : Rejoining(h2.down[b]) => Rejoining(h.down[b])
  BY <1>15, <1>16 DEF d, e
<1>18. Cur(j, v) \in ConnsOf(j)
  BY <1>1, <1>2, CurConn DEF SeatOK, AlwaysOK
<1>19. InPlay(h2, j, v) => InPlay(h, j, v)
  BY <1>17, <1>18 DEF InPlay
<1>20. ASSUME NEW b \in ConnsOf(j) PROVE ConnOK(h2, w, j, v, b)
  <2>1. ConnOK(h, w, j, v, b)
    BY <1>2 DEF SeatOK
  <2>2. CASE b = c
    <3>1. UpOK(h2.up[b], j, h2.line[b]) /\ DownOK(S, w, h2.down[b])
      BY <1>11, <1>12, <2>2 DEF r, e, on
    <3>2. h.line[b] # "none" /\ h.line[b] # "gone"
      BY <1>6, <2>2 DEF on
    <3>3. QED
      BY <1>4, <2>1, <3>1, <3>2 DEF ConnOK
  <2>3. CASE b # c
    <3>1. h2.up[b] = h.up[b] /\ h2.down[b] = h.down[b]
      BY <1>16, <2>3
    <3>2. QED
      BY <1>4, <2>1, <3>1 DEF ConnOK, S
  <2>4. QED
    BY <2>2, <2>3
<1>21. \A b \in ConnsOf(j) : \A i \in DOMAIN h2.up[b] :
         IsTick(h2.up[b][i]) => i \in DOMAIN h.up[b] /\ h2.up[b][i] = h.up[b][i]
  BY <1>13, <1>16 DEF q, r
<1>22. v.phase = "playing" => PlayOK(h2, w, j, v)
  <2>1. HAVE v.phase = "playing"
  <2> DEFINE k == Cur(j, v)
  <2>2. HeardOK(S, w, j, v) /\ AheadOK(v, h.down[k]) /\ OnlyTicks(h.up[k])
    BY <1>2, <2>1 DEF SeatOK, PlayOK, S
  <2>3. AheadOK(v, h2.down[k]) /\ OnlyTicks(h2.up[k])
    <3>1. CASE k = c
      <4>1. AheadOK(v, e)
        BY <1>14, <2>2, <3>1 DEF AheadOK, d
      <4>2. OnlyTicks(r)
        BY <1>8 DEF OnlyTicks
      <4>3. QED
        BY <3>1, <4>1, <4>2 DEF e, r
    <3>2. CASE k # c
      BY <1>16, <1>18, <2>2, <3>2
    <3>3. QED
      BY <3>1, <3>2
  <2>4. QED
    BY <1>4, <2>2, <2>3 DEF PlayOK
<1>23. v.phase = "knocking" => OnlyJoins(h2.up[Cur(j, v)])
  <2>1. HAVE v.phase = "knocking"
  <2> DEFINE k == Cur(j, v)
  <2>2. OnlyJoins(h.up[k])
    BY <1>2, <2>1 DEF SeatOK
  <2>3. CASE k = c
    <3>1. OnlyJoins(r)
      BY <1>8, <2>2, <2>3 DEF OnlyJoins, q
    <3>2. QED
      BY <2>3, <3>1 DEF r
  <2>4. CASE k # c
    BY <1>16, <1>18, <2>2, <2>4
  <2>5. QED
    BY <2>3, <2>4
<1>24. InPlay(h2, j, v) => h2.line[Cur(j, v)] \in {"seated", "gone"}
  BY <1>2, <1>19 DEF SeatOK
<1>25. S.retired[j] = None => FreeOK(h2, w, j, v)
  <2>1. HAVE S.retired[j] = None
  <2>2. FreeOK(h, w, j, v)
    BY <1>2, <2>1 DEF SeatOK, S
  <2>3. LinesOK(h2, j)
    BY <1>4, <2>2 DEF FreeOK, LinesOK
  <2>4. AlignedOK(h2, j)
    BY <1>4, <1>21, <2>2 DEF FreeOK, AlignedOK, S
  <2>5. InPlay(h2, j, v) => OnlyCur(h2, j, v)
    BY <1>19, <1>21, <2>2 DEF FreeOK, OnlyCur
  <2>6. v.phase = "knocking" => KnockedOK(h2, j, v)
    <3>1. HAVE v.phase = "knocking"
    <3> DEFINE k == Cur(j, v)
    <3>2. \A i \in DOMAIN h.down[k] : h.down[k][i].type = "Rejoin" => h.down[k][i].next = Due(S, j)
      BY <2>2, <3>1 DEF FreeOK, KnockedOK, S
    <3>3. \A i \in DOMAIN h2.down[k] : h2.down[k][i].type = "Rejoin" => h2.down[k][i].next = Due(S, j)
      <4>1. CASE k = c
        BY <1>14, <3>2, <4>1 DEF d, e
      <4>2. CASE k # c
        BY <1>16, <1>18, <3>2, <4>2
      <4>3. QED
        BY <4>1, <4>2
    <3>4. QED
      BY <1>4, <3>3 DEF KnockedOK
  <2>7. v.phase = "playing" => SaysOK(h2.session, w, j, v, h2.line[Cur(j, v)], h2.up[Cur(j, v)])
    <3>1. HAVE v.phase = "playing"
    <3> DEFINE k == Cur(j, v)
    <3>2. SaysOK(S, w, j, v, h.line[k], h.up[k])
      BY <2>2, <3>1 DEF FreeOK, S
    <3>3. CASE k = c
      <4>1. SaysOK(S, w, j, v, on, q)
        BY <3>2, <3>3 DEF on, q
      <4>2. SaysOK(S, w, j, v, on, r)
        BY <1>8, <1>13, <4>1 DEF SaysOK
      <4>3. QED
        BY <1>4, <3>3, <4>2 DEF on, r
    <3>4. CASE k # c
      BY <1>4, <1>16, <1>18, <3>2, <3>4
    <3>5. QED
      BY <3>3, <3>4
  <2>8. QED
    BY <2>3, <2>4, <2>5, <2>6, <2>7 DEF FreeOK
<1>26. SeatOK(h2, w, j, v)
  BY <1>2, <1>4, <1>20, <1>22, <1>23, <1>24, <1>25 DEF SeatOK, S
<1>27. \A b \in Conns : SlotOf(b) # j =>
         h2.line[b] = h.line[b] /\ h2.up[b] = h.up[b] /\ h2.down[b] = h.down[b]
  BY <1>6 DEF j
<1>28. SeatOK(h2, w, j, J[j])
  BY <1>26 DEF v
<1>29. QED
  BY <1>1, <1>27, <1>28, JoinerKept

(***************************************************************************)
(* A world that drifts has run what it had run.                            *)
(***************************************************************************)
Drifted(w, w2, n) ==
  WorldOK(w2, n) /\ \A t \in Nat : t < n =>
    /\ Commanded(w2[t + 1]) = Commanded(w[t + 1])
    /\ \A x \in Slots : {c \in Range(w2[t + 1]) : c.slot = x} = {c \in Range(w[t + 1]) : c.slot = x}

LEMMA GlitchAdds ==
  ASSUME NEW e, IsList(e)
  PROVE  /\ IsList(Append(e, Glitch)) /\ Commanded(Append(e, Glitch)) = Commanded(e)
         /\ \A x \in Slots : {c \in Range(Append(e, Glitch)) : c.slot = x} = {c \in Range(e) : c.slot = x}
<1> DEFINE r == Append(e, Glitch)
           n == Len(e)
<1>1. PICK T : e \in Seq(T)
  BY DEF IsList
<1> DEFINE U == T \union {Glitch}
<1>2. e \in Seq(U) /\ Glitch \in U
  BY <1>1
<1> HIDE DEF U
<1>3. r \in Seq(U) /\ Len(r) = n + 1 /\ r[n + 1] = Glitch /\ \A i \in 1 .. n : r[i] = e[i]
  BY <1>2, AppendProperties
<1>4. n \in Nat /\ DOMAIN e = 1 .. n
  BY ListDomain
<1> HIDE DEF r, n
<1>5. IsList(r)
  BY <1>3 DEF IsList
<1>6. DOMAIN r = 1 .. n + 1
  BY <1>3, <1>5, ListDomain
<1>7. {k \in DOMAIN r : r[k] # Glitch} = {k \in DOMAIN e : e[k] # Glitch}
  BY <1>3, <1>4, <1>6
<1>8. \A k \in DOMAIN e : r[k] = e[k]
  BY <1>3, <1>4
<1>9. Commanded(r) = Commanded(e)
  BY <1>7, <1>8 DEF Commanded
<1>10. \A x \in Slots : x # Glitch.slot
  BY SessionAssumption DEF Glitch, None
<1>11. ASSUME NEW x \in Slots
       PROVE  {c \in Range(r) : c.slot = x} = {c \in Range(e) : c.slot = x}
  <2>1. \A c : c \in Range(r) /\ c.slot = x => c \in Range(e)
    <3>1. TAKE c
    <3>2. HAVE c \in Range(r) /\ c.slot = x
    <3>3. PICK i \in DOMAIN r : r[i] = c
      BY <3>2 DEF Range
    <3>4. i # n + 1
      BY <1>3, <1>10, <3>2, <3>3
    <3>5. i \in 1 .. n
      BY <1>4, <1>6, <3>4
    <3>6. QED
      BY <1>3, <1>4, <3>3, <3>5 DEF Range
  <2>2. \A c : c \in Range(e) => c \in Range(r)
    <3>1. \A k \in DOMAIN e : k \in DOMAIN r /\ r[k] = e[k]
      BY <1>4, <1>6, <1>8
    <3>2. QED
      BY <3>1 DEF Range
  <2>3. QED
    BY <2>1, <2>2
<1>12. QED
  BY <1>5, <1>9, <1>11 DEF r

LEMMA DriftIs ==
  ASSUME NEW w, NEW n \in Nat, WorldOK(w, n), Len(w) \in 1 .. DriftBy,
         NEW w2, w2 = [w EXCEPT ![Len(w)] = Append(@, Glitch)]
  PROVE  Drifted(w, w2, n)
<1>1. IsList(w) /\ Len(w) = n /\ \A i \in 1 .. n : IsList(w[i])
  BY DEF WorldOK
<1>2. n \in 1 .. n /\ DOMAIN w = 1 .. n
  <2>1. n >= 1
    BY <1>1, LiveAssumption
  <2>2. QED
    BY <1>1, <2>1, ListDomain
<1>3. w2 = [i \in 1 .. n |-> IF i = n THEN Append(w[n], Glitch) ELSE w[i]]
  <2>1. PICK T : w \in Seq(T)
    BY <1>1 DEF IsList
  <2>2. w \in [1 .. n -> T]
    BY <1>1, <2>1
  <2>3. QED
    BY <1>1, <1>2, <2>2
<1>4. IsList(Append(w[n], Glitch))
  BY <1>1, <1>2, GlitchAdds
<1>5. \A i \in 1 .. n : w2[i] = IF i = n THEN Append(w[n], Glitch) ELSE w[i]
  BY <1>3
<1>6. IsList(w2) /\ Len(w2) = n
  <2>1. w2 = [i \in 1 .. n |-> w2[i]]
    BY <1>3
  <2>2. QED
    BY <2>1, ListOf
<1>7. WorldOK(w2, n)
  BY <1>1, <1>4, <1>5, <1>6 DEF WorldOK
<1>8. ASSUME NEW t \in Nat, t < n
      PROVE  /\ Commanded(w2[t + 1]) = Commanded(w[t + 1])
             /\ \A x \in Slots : {c \in Range(w2[t + 1]) : c.slot = x} = {c \in Range(w[t + 1]) : c.slot = x}
  <2>1. t + 1 \in 1 .. n
    BY <1>8
  <2> DEFINE e == w[t + 1]
  <2>2. IsList(e) /\ (w2[t + 1] = e \/ w2[t + 1] = Append(e, Glitch))
    BY <1>1, <1>5, <2>1
  <2> HIDE DEF e
  <2>3. QED
    BY <2>2, GlitchAdds DEF e
<1>9. QED
  BY <1>7, <1>8 DEF Drifted

LEMMA HostDrifts ==
  ASSUME NEW h, NEW w, NEW J, GameOK(h, w, J), NEW w2, Drifted(w, w2, h.session.tick)
  PROVE  GameOK(h, w2, J)
<1> DEFINE S == h.session
<1>1. HostOK(S, w) /\ Sound(S, Host) /\ S.tick \in Nat /\ S.tick <= S.tick
  BY DEF GameOK, HostOK, Sound
<1>2. \A x \in Slots, t \in Nat : Said(S, w2, x, t) = Said(S, w, x, t)
  BY DEF Drifted, Said
<1>3. \A t \in Nat : AllSaid(S, w2, t) = AllSaid(S, w, t)
  BY <1>2 DEF AllSaid
<1>4. TrueWorld(S, w2, w2, S.tick)
  BY <1>1, <1>3 DEF HostOK, TrueWorld, Drifted
<1>5. \A x \in Slots : \A from : Ended(S, w, x, from) => Ended(S, w2, x, from)
  BY <1>2 DEF Ended
<1>6. HostOK(S, w2)
  BY <1>1, <1>4, <1>5 DEF HostOK
<1>7. Grows(S, w, S, w2)
  BY <1>1, <1>2 DEF Grows
<1>9. ASSUME NEW j \in Joiners PROVE SeatOK(h, w2, j, J[j])
  <2>1. SeatOK(h, w, j, J[j])
    BY DEF GameOK
  <2> DEFINE v == J[j]
  <2> HIDE DEF v
  <2>2. SeatOK(h, w, j, v)
    BY <2>1 DEF v
  <2>3. SeatOK(h, w2, j, v)
    <3>1. AlwaysOK(S, w2, j, v)
      BY <1>7, <2>2, GrowsAlways DEF SeatOK
    <3>2. \A c \in ConnsOf(j) : ConnOK(h, w2, j, v, c)
      <4>1. TAKE c \in ConnsOf(j)
      <4>2. ConnOK(h, w, j, v, c)
        BY <2>2 DEF SeatOK
      <4>3. DownOK(S, w2, h.down[c])
        BY <1>7, <4>2, GrowsDownGood DEF ConnOK, DownOK
      <4>4. QED
        BY <4>2, <4>3 DEF ConnOK
    <3>3. v.phase = "playing" => PlayOK(h, w2, j, v)
      BY <1>7, <2>2, GrowsHeard DEF SeatOK, PlayOK
    <3>4. S.retired[j] = None => FreeOK(h, w2, j, v)
      <4>1. HAVE S.retired[j] = None
      <4>2. FreeOK(h, w, j, v)
        BY <2>2, <4>1 DEF SeatOK
      <4>3. v.phase = "playing" => SaysOK(S, w2, j, v, h.line[Cur(j, v)], h.up[Cur(j, v)])
        <5>1. HAVE v.phase = "playing"
        <5>2. j \in Slots
          BY DEF Joiners
        <5>3. \A t \in Nat : \A cmds : With(S, w2, j, t, cmds) = With(S, w, j, t, cmds)
          BY <1>2 DEF With
        <5>4. \A t \in Nat : \A cmds : OwnIs(S, w, j, v, t, cmds) => OwnIs(S, w2, j, v, t, cmds)
          BY <5>3 DEF OwnIs
        <5>5. UpOK(h.up[Cur(j, v)], j, h.line[Cur(j, v)])
          BY <2>2, CurConn DEF SeatOK, AlwaysOK, ConnOK
        <5> DEFINE q == h.up[Cur(j, v)]
                   on == h.line[Cur(j, v)]
        <5>6. SaysOK(S, w, j, v, on, q) /\ UpOK(q, j, on)
          BY <4>2, <5>1, <5>5 DEF FreeOK
        <5> HIDE DEF q, on
        <5>7. \A i \in DOMAIN q : IsTick(q[i]) => q[i].packet.tick \in Nat
          BY <5>6 DEF UpOK, PacketOK
        <5>8. \A i \in DOMAIN q : IsTick(q[i]) => OwnIs(S, w2, j, v, q[i].packet.tick, q[i].packet.commands)
          BY <5>4, <5>6, <5>7 DEF SaysOK
        <5>9. \A t \in Nat : HasSaid(S, j, t) => OwnIs(S, w2, j, v, t, Said(S, w2, j, t))
          BY <1>2, <5>2, <5>4, <5>6 DEF SaysOK
        <5>10. SaysOK(S, w2, j, v, on, q)
          BY <5>6, <5>8, <5>9 DEF SaysOK
        <5>11. QED
          BY <5>10 DEF q, on
      <4>4. QED
        BY <4>2, <4>3 DEF FreeOK
    <3>5. QED
      BY <2>2, <3>1, <3>2, <3>3, <3>4 DEF SeatOK
  <2>4. QED
    BY <2>3 DEF v
<1>10. QED
  BY <1>6, <1>9 DEF GameOK

LEMMA JoinerDrifts ==
  ASSUME NEW h, NEW w, NEW J, GameOK(h, w, J), NEW j \in Joiners,
         NEW J2, \A i \in Joiners : i # j => J2[i] = J[i],
         J2[j].session = J[j].session, J2[j].pending = J[j].pending,
         J2[j].phase = J[j].phase, J2[j].conn = J[j].conn,
         Drifted(J[j].world, J2[j].world, J[j].session.tick)
  PROVE  GameOK(h, w, J2)
<1> DEFINE S == h.session
           v == J[j]
           v2 == J2[j]
           k == Cur(j, v)
<1>1. SeatOK(h, w, j, v) /\ Wired(h) /\ Same(h, h)
  BY DEF GameOK, Same
<1>2. /\ v2.session = v.session /\ v2.pending = v.pending /\ v2.phase = v.phase /\ v2.conn = v.conn
      /\ k = Cur(j, v2) /\ Drifted(v.world, v2.world, v.session.tick)
  BY DEF Cur
<1> HIDE DEF v, v2, k
<1>3. v.session.tick \in Nat
  BY <1>1 DEF SeatOK, AlwaysOK, Sound
<1>4. \A t \in Nat : t < v.session.tick => Commanded(v2.world[t + 1]) = Commanded(v.world[t + 1])
  BY <1>2 DEF Drifted
<1>5. \A t \in Nat : \A cmds : OwnIs(S, w, j, v, t, cmds) => OwnIs(S, w, j, v2, t, cmds)
  BY <1>2, <1>4 DEF OwnIs
<1>6. AlwaysOK(S, w, j, v2)
  BY <1>1, <1>2 DEF SeatOK, AlwaysOK, Drifted
<1>7. \A c \in ConnsOf(j) : ConnOK(h, w, j, v2, c)
  BY <1>1, <1>2 DEF SeatOK, ConnOK
<1>8. v2.phase = "playing" => PlayOK(h, w, j, v2)
  BY <1>1, <1>2 DEF SeatOK, PlayOK, HeardOK, AheadOK, k
<1>9. InPlay(h, j, v2) <=> InPlay(h, j, v)
  BY <1>2 DEF InPlay, k
<1>10. S.retired[j] = None => FreeOK(h, w, j, v2)
  <2>1. HAVE S.retired[j] = None
  <2>2. FreeOK(h, w, j, v)
    BY <1>1, <2>1 DEF SeatOK
  <2>3. v2.phase = "playing" => SaysOK(S, w, j, v2, h.line[k], h.up[k])
    <3>1. HAVE v2.phase = "playing"
    <3> DEFINE q == h.up[k]
               on == h.line[k]
    <3>2. UpOK(q, j, on)
      BY <1>1, CurConn DEF SeatOK, AlwaysOK, ConnOK, k
    <3>3. SaysOK(S, w, j, v, on, q)
      BY <1>2, <2>2, <3>1 DEF FreeOK, k
    <3> HIDE DEF q, on
    <3>4. \A i \in DOMAIN q : IsTick(q[i]) => q[i].packet.tick \in Nat
      BY <3>2 DEF UpOK, PacketOK
    <3>5. \A i \in DOMAIN q : IsTick(q[i]) => OwnIs(S, w, j, v2, q[i].packet.tick, q[i].packet.commands)
      BY <1>5, <3>3, <3>4 DEF SaysOK
    <3>6. \A t \in Nat : HasSaid(S, j, t) => OwnIs(S, w, j, v2, t, Said(S, w, j, t))
      BY <1>5, <3>3 DEF SaysOK
    <3>7. SaysOK(S, w, j, v2, on, q)
      BY <1>2, <3>3, <3>5, <3>6 DEF SaysOK
    <3>8. QED
      BY <3>7 DEF q, on
  <2>4. InPlay(h, j, v2) => OnlyCur(h, j, v2)
    BY <1>2, <1>9, <2>2 DEF FreeOK, OnlyCur, k
  <2>5. v2.phase = "knocking" => KnockedOK(h, j, v2)
    BY <1>2, <2>2 DEF FreeOK, KnockedOK, k
  <2>6. SaysOK(S, w, j, v2, h.line[k], h.up[k]) =>
          SaysOK(h.session, w, j, v2, h.line[Cur(j, v2)], h.up[Cur(j, v2)])
    BY <1>2
  <2>7. QED
    BY <2>2, <2>3, <2>4, <2>5, <2>6 DEF FreeOK
<1>11. SeatOK(h, w, j, v2)
  <2>1. /\ v2.phase = "knocking" => OnlyJoins(h.up[Cur(j, v2)])
        /\ InPlay(h, j, v2) => h.line[Cur(j, v2)] \in {"seated", "gone"}
    BY <1>1, <1>2, <1>9 DEF SeatOK, k
  <2>2. QED
    BY <1>6, <1>7, <1>8, <1>10, <2>1 DEF SeatOK
<1>12. SeatOK(h, w, j, J2[j])
  BY <1>11 DEF v2
<1>13. QED
  BY <1>1, <1>12, JoinerKept

(***************************************************************************)
(* The game.                                                               *)
(***************************************************************************)
Joiner(j) == [session |-> session[j], world |-> world[j], pending |-> pending[j],
              phase |-> phase[j], conn |-> conn[j]]
JoinerStates == [j \in Joiners |-> Joiner(j)]

\* The part of TypeOK that is about the variables' shape.
Shape ==
  /\ DOMAIN session = Slots /\ DOMAIN world = Slots /\ DOMAIN pending = Joiners
  /\ waiting \in [Slots -> SUBSET Joiners]
  /\ phase \in [Joiners -> {"playing", "knocking", "lost", "over"}]
  /\ conn \in [Joiners -> 0 .. MaxConn]
  /\ issued \subseteq Orders /\ drifts \in 0 .. MaxDrift

LiveInv == Shape /\ GameOK(HostState, world[Host], JoinerStates)

\* No player waits to be seated on two connections.
OneKnock ==
  \A c, d \in Conns : SlotOf(c) = SlotOf(d) /\ line[c] = "rejoining" /\ line[d] = "rejoining" => c = d

LEMMA HostStateIs ==
  /\ HostState.session = session[Host] /\ HostState.waiting = waiting[Host]
  /\ HostState.quiet = quiet /\ HostState.outbox = outbox
  /\ HostState.line = line /\ HostState.up = up /\ HostState.down = down
  /\ DOMAIN HostState = HostFields
BY Zenon DEF HostState, HostFields

LEMMA JoinerStateIs ==
  \A j \in Joiners :
    /\ JoinerStates[j].session = session[j] /\ JoinerStates[j].world = world[j]
    /\ JoinerStates[j].pending = pending[j] /\ JoinerStates[j].phase = phase[j]
    /\ JoinerStates[j].conn = conn[j] /\ JoinerStates[j] = Joiner(j)
BY DEF JoinerStates, Joiner

\* The game after a step, if the host and the joiners are well then.
LEMMA InvNext ==
  ASSUME Shape', NEW h, NEW J, GameOK(h, world'[Host], J),
         session'[Host] = h.session, waiting'[Host] = h.waiting, quiet' = h.quiet,
         outbox' = h.outbox, line' = h.line, up' = h.up, down' = h.down,
         \A j \in Joiners : Joiner(j)' = J[j]
  PROVE  LiveInv'
<1> DEFINE h2 == HostState'
           J2 == JoinerStates'
           w == world'[Host]
<1>1. /\ h2.session = session'[Host] /\ h2.waiting = waiting'[Host]
      /\ h2.quiet = quiet' /\ h2.outbox = outbox'
      /\ h2.line = line' /\ h2.up = up' /\ h2.down = down' /\ DOMAIN h2 = HostFields
  BY Zenon DEF HostState, HostFields
<1>2. \A j \in Joiners : J2[j] = J[j]
  BY DEF JoinerStates
<1> HIDE DEF h2, J2, w
<1>3. Wired(h)
  BY DEF GameOK
<1>4. Wired(h2)
  BY <1>1, <1>3 DEF Wired
<1>5. Same(h, h2) /\ h2.line = h.line /\ h2.up = h.up /\ h2.down = h.down
  BY <1>1 DEF Same
<1>6. GameOK(h, w, J)
  BY DEF w
<1>7. GameOK(h2, w, J2)
  BY Zenon, <1>2, <1>4, <1>5, <1>6, GameLike
<1>8. QED
  BY <1>7 DEF LiveInv, h2, J2, w

\* A step of the host's handlers.
LEMMA HostMoves ==
  ASSUME Shape, NEW h, Becomes(h), GameOK(h, world'[Host], JoinerStates),
         DOMAIN world' = Slots, \A j \in Joiners : world'[j] = world[j],
         UNCHANGED <<pending, phase, conn, drifts>>, issued' \subseteq Orders
  PROVE  LiveInv'
<1>1. Host \in Slots /\ \A j \in Joiners : j \in Slots /\ j # Host
  BY LiveAssumption DEF Joiners
<1>2. /\ session' = [session EXCEPT ![Host] = h.session]
      /\ waiting' = [waiting EXCEPT ![Host] = h.waiting]
      /\ quiet' = h.quiet /\ outbox' = h.outbox
      /\ line' = h.line /\ up' = h.up /\ down' = h.down
  BY DEF Becomes
<1>3. h.waiting \subseteq Joiners
  BY DEF GameOK
<1>4. /\ DOMAIN session' = Slots /\ session'[Host] = h.session
      /\ \A j \in Joiners : session'[j] = session[j]
  BY <1>1, <1>2 DEF Shape
<1>5. waiting' \in [Slots -> SUBSET Joiners] /\ waiting'[Host] = h.waiting
  BY <1>1, <1>2, <1>3 DEF Shape
<1>6. Shape'
  BY <1>4, <1>5 DEF Shape
<1>7. \A j \in Joiners : Joiner(j)' = JoinerStates[j]
  BY <1>4 DEF Joiner, JoinerStates
<1>8. QED
  BY <1>2, <1>4, <1>5, <1>6, <1>7, InvNext

(***************************************************************************)
(* As the game starts.                                                     *)
(***************************************************************************)
LEMMA HostStarts ==
  HostOK(NewSession(Host, Host), <<>>)
<1> DEFINE S == NewSession(Host, Host)
<1>1. /\ S.tick = 0 /\ S.nextSeal = 0 /\ S.inbox = {} /\ S.barrier = None
      /\ \A x \in Slots : S.retired[x] = None
  BY DEF NewSession
<1>2. Sound(S, Host)
  BY NewSound, LiveAssumption
<1> HIDE DEF S
<1>3. \A x \in Slots : Upto(S, x, 0)
  BY <1>1 DEF Upto, HasPacket
<1>4. \A x \in Slots : Due(S, x) \in Nat /\ Upto(S, x, Due(S, x))
  <2>1. TAKE x \in Slots
  <2>2. \E n \in Nat : Upto(S, x, n)
    BY <1>3
  <2>3. QED
    BY <2>2 DEF Due
<1>5. Due(S, Host) = S.nextSeal
  <2>1. S.tick \in Nat /\ 0 \in Nat /\ Upto(S, Host, 0) /\ Due(S, Host) \in Nat
        /\ Upto(S, Host, Due(S, Host))
    BY <1>1, <1>3, <1>4, LiveAssumption
  <2>2. Due(S, Host) = 0
    BY <2>1, UptoUnique
  <2>3. QED
    BY <1>1, <2>2
<1>6. TrueWorld(S, <<>>, <<>>, S.tick)
  <2>1. IsList(<<>>) /\ Len(<<>>) = 0
    BY EmptySeq DEF IsList
  <2>2. QED
    BY <1>1, <2>1 DEF TrueWorld, WorldOK
<1>7. S.tick <= MaxTick
  BY <1>1, LiveAssumption
<1>8. QED
  BY <1>1, <1>2, <1>4, <1>5, <1>6, <1>7 DEF HostOK, S

LEMMA LiveStarts == Init => LiveInv
<1>1. HAVE Init
<1> DEFINE h == HostState
           S == h.session
           w == world[Host]
<1>2. Host \in Slots /\ \A j \in Joiners : j \in Slots /\ j # Host
  BY LiveAssumption DEF Joiners
<1>3. MaxTick \in Nat /\ MaxConn \in Nat /\ MaxDrift \in Nat
  BY LiveAssumption
<1>4. /\ S = NewSession(Host, Host) /\ w = <<>> /\ h.waiting = {} /\ h.quiet = {} /\ h.outbox = <<>>
      /\ h.line = [c \in Conns |-> IF c[2] = 0 THEN "seated" ELSE "none"]
      /\ h.up = [c \in Conns |-> <<>>] /\ h.down = [c \in Conns |-> <<>>]
      /\ DOMAIN h = HostFields
  BY <1>1, <1>2, HostStateIs DEF Init
<1> HIDE DEF h, w
<1>5. HostOK(S, w)
  BY <1>4, HostStarts
<1>6. \A x \in Slots : S.retired[x] = None
  BY <1>4 DEF NewSession
<1>7. /\ IsList(<<>>) /\ DOMAIN <<>> = {} /\ Len(<<>>) = 0 /\ ~Closed(<<>>)
  BY EmptySeq DEF IsList, Closed
<1>8. Shape
  BY <1>1, <1>3 DEF Shape, Init
<1>9. Wired(h)
  BY <1>4 DEF Wired
<1>10. ASSUME NEW j \in Joiners PROVE SeatOK(h, w, j, JoinerStates[j])
  <2> DEFINE v == JoinerStates[j]
             s == v.session
             k == Cur(j, v)
  <2>1. /\ s = NewSession(j, Host) /\ v.world = <<>> /\ v.pending = NoResync
        /\ v.phase = "playing" /\ v.conn = 0
    BY <1>1, <1>2, <1>10, JoinerStateIs DEF Init
  <2> HIDE DEF v
  <2>2. /\ s.tick = 0 /\ s.nextSeal = 0 /\ s.inbox = {} /\ s.barrier = None
        /\ \A x \in Slots : s.retired[x] = None
    BY <2>1 DEF NewSession
  <2>3. Sound(s, j)
    BY <1>2, <2>1, NewSound
  <2> HIDE DEF s
  <2>4. k \in ConnsOf(j) /\ k \in Conns /\ k[2] = 0
    BY <1>3, <1>10, <2>1, CurConn DEF ConnsOf
  <2>5. \A c \in ConnsOf(j) : c \in Conns /\ c = <<j, c[2]>> /\ c[2] \in Nat
    BY <1>3 DEF ConnsOf, Conns, SlotOf
  <2>6. h.line[k] = "seated" /\ h.up[k] = <<>> /\ h.down[k] = <<>>
    BY <1>4, <2>4
  <2>7. AlwaysOK(S, w, j, v)
    <3>1. v.pending.tick = None
      BY <2>1 DEF NoResync
    <3>2. WorldOK(v.world, 0)
      BY <1>7, <2>1 DEF WorldOK
    <3>3. QED
      BY <1>3, <2>1, <2>2, <2>3, <3>1, <3>2 DEF AlwaysOK, s
  <2>8. ASSUME NEW c \in ConnsOf(j) PROVE ConnOK(h, w, j, v, c)
    <3>1. h.line[c] = (IF c[2] = 0 THEN "seated" ELSE "none") /\ h.up[c] = <<>> /\ h.down[c] = <<>>
      BY <1>4, <2>5
    <3>2. UpOK(<<>>, j, h.line[c]) /\ DownOK(S, w, <<>>)
      BY <1>7 DEF UpOK, DownOK
    <3>3. c[2] > v.conn <=> h.line[c] = "none"
      BY <2>1, <2>5, <3>1
    <3>4. QED
      BY <3>1, <3>2, <3>3 DEF ConnOK
  <2>9. HeardOK(S, w, j, v)
    BY <1>2, <2>2 DEF HeardOK, s
  <2>10. PlayOK(h, w, j, v)
    BY <1>7, <2>6, <2>9 DEF PlayOK, AheadOK, OnlyTicks
  <2>11. FreeOK(h, w, j, v)
    <3>1. LinesOK(h, j)
      <4>1. \A c \in ConnsOf(j) : h.line[c] # "rejoining" /\ (h.line[c] = "seated" => c = <<j, 0>>)
        BY <1>4, <2>5
      <4>2. QED
        BY <1>4, <4>1 DEF LinesOK
    <3>2. \A c \in ConnsOf(j) : h.up[c] = <<>>
      BY <1>4, <2>5
    <3>3. AlignedOK(h, j) /\ OnlyCur(h, j, v)
      BY <1>7, <3>2 DEF AlignedOK, OnlyCur
    <3>4. SaysOK(S, w, j, v, h.line[k], h.up[k])
      <4>1. Due(S, j) = 0
        <5>1. S.tick = 0 /\ S.inbox = {}
          BY <1>4 DEF NewSession
        <5>2. Upto(S, j, 0)
          BY <5>1 DEF Upto, HasPacket
        <5>3. Due(S, j) \in Nat /\ Upto(S, j, Due(S, j))
          BY <1>2, <1>5 DEF HostOK
        <5>4. QED
          BY <5>1, <5>2, <5>3, UptoUnique
      <4>2. \A t \in Nat : \A cmds : OwnIs(S, w, j, v, t, cmds)
        BY <2>2 DEF OwnIs, s
      <4>3. QED
        BY <1>7, <2>2, <2>6, <4>1, <4>2 DEF SaysOK, s
    <3>5. QED
      BY <2>1, <3>1, <3>3, <3>4 DEF FreeOK
  <2>12. SeatOK(h, w, j, v)
    BY <2>1, <2>6, <2>7, <2>8, <2>10, <2>11 DEF SeatOK
  <2>13. QED
    BY <2>12 DEF v
<1>11. GameOK(h, w, JoinerStates)
  BY <1>4, <1>5, <1>7, <1>9, <1>10 DEF GameOK
<1>12. QED
  BY <1>8, <1>11 DEF LiveInv, h, w

(***************************************************************************)
(* The steps of the host.                                                  *)
(***************************************************************************)
LEMMA HostStill ==
  ASSUME LiveInv, NEW h, Becomes(h), GameOK(h, world[Host], JoinerStates),
         UNCHANGED <<world, pending, phase, conn, issued, drifts>>
  PROVE  LiveInv'
<1>1. GameOK(h, world'[Host], JoinerStates)
  OBVIOUS
<1>2. /\ Shape /\ DOMAIN world' = Slots /\ \A j \in Joiners : world'[j] = world[j]
      /\ issued' \subseteq Orders
  BY DEF LiveInv, Shape
<1>3. QED
  BY <1>1, <1>2, HostMoves

LEMMA HostSeals == LiveInv /\ HostSeal => LiveInv'
<1> HAVE LiveInv /\ HostSeal
<1>1. GameOK(HostState, world[Host], JoinerStates)
  BY DEF LiveInv
<1>2. GameOK(SendAll([HostState EXCEPT !.session = Seal(@)], TickMsg(Packet(HostState.session))),
             world[Host], JoinerStates)
  BY <1>1, HostSealKept
<1>3. HostState.session = session[Host]
  BY HostStateIs
<1>4. QED
  BY <1>2, <1>3, HostStill DEF HostSeal

LEMMA HostAccepts == LiveInv /\ HostAccept => LiveInv'
<1> HAVE LiveInv /\ HostAccept
<1>1. GameOK(Polled(HostState), world[Host], JoinerStates)
  BY PolledKept DEF LiveInv
<1>2. QED
  BY <1>1, HostStill DEF HostAccept

LEMMA HostDrops ==
  ASSUME LiveInv, NEW c \in Conns, HostDropped(c)
  PROVE  LiveInv'
<1> DEFINE h == Disconnect(Polled(HostState), {c})
           h2 == IF line[c] = "seated" THEN Away(h, SlotOf(c)) ELSE h
<1>1. GameOK(HostState, world[Host], JoinerStates)
  BY DEF LiveInv
<1>2. HostState.line = line /\ line[c] # "none"
  BY HostStateIs DEF HostDropped
<1>3. GameOK(IF HostState.line[c] = "seated" THEN Away(h, SlotOf(c)) ELSE h, world[Host], JoinerStates)
  <2> HIDE DEF h
  <2>1. h = Disconnect(Polled(HostState), {c})
    BY DEF h
  <2>2. QED
    BY <1>1, <1>2, <2>1, DroppedKept
<1>4. Becomes(h2) /\ UNCHANGED <<world, pending, phase, conn, issued, drifts>>
  BY DEF HostDropped
<1>5. GameOK(h2, world[Host], JoinerStates)
  BY <1>2, <1>3
<1> HIDE DEF h2
<1>6. QED
  BY <1>4, <1>5, HostStill

LEMMA HostResyncs == LiveInv /\ HostResync => LiveInv'
<1> HAVE LiveInv /\ HostResync
<1> DEFINE m == [type |-> "Resync", tick |-> HostState.session.barrier, world |-> world[Host]]
<1>1. GameOK(HostState, world[Host], JoinerStates)
  BY DEF LiveInv
<1>2. HostState.session = session[Host]
  BY HostStateIs
<1>3. AtBarrier(HostState.session)
  BY <1>2 DEF HostResync
<1>4. /\ Becomes(SendAll([HostState EXCEPT !.session = ResyncSent(@)], m))
      /\ UNCHANGED <<world, pending, phase, conn, issued, drifts>>
  BY <1>2 DEF HostResync
<1>5. m = [type |-> "Resync", tick |-> HostState.session.barrier, world |-> world[Host]]
  OBVIOUS
<1> HIDE DEF m
<1>6. GameOK(SendAll([HostState EXCEPT !.session = ResyncSent(@)], m), world[Host], JoinerStates)
  BY <1>1, <1>3, <1>5, ResyncKept
<1>7. QED
  BY <1>4, <1>6, HostStill

LEMMA HostTimesOut == LiveInv /\ HostTimeout => LiveInv'
<1> HAVE LiveInv /\ HostTimeout
<1>1. GameOK(HostState, world[Host], JoinerStates) /\ HostState.session = session[Host]
  BY HostStateIs DEF LiveInv
<1>2. HostState.session.halt = Running /\ ~CanSeal(HostState.session)
  BY <1>1 DEF HostTimeout, Polls, Pumps
<1>3. HostOK(HostState.session, world[Host])
  BY <1>1 DEF GameOK
<1>4. /\ Missing(HostState.session) \subseteq Joiners
      /\ IsFiniteSet(Missing(HostState.session))
  BY <1>2, <1>3, MissingAreJoiners
<1>5. GameOK(TimedOut(HostState), world[Host], JoinerStates)
  BY <1>1, <1>4, TimedOutKept
<1>6. QED
  BY <1>5, HostStill DEF HostTimeout

LEMMA HostGoes == LiveInv /\ HostLeaves => LiveInv'
<1> HAVE LiveInv /\ HostLeaves
<1>1. GameOK(HostState, world[Host], JoinerStates)
  BY DEF LiveInv
<1>2. Wired(HostState) /\ Same(HostState, HostState)
  BY <1>1 DEF GameOK, Same
<1>3. GameOK(Stop(HostState, "Ended"), world[Host], JoinerStates)
  BY <1>1, <1>2, StopKept
<1>4. QED
  BY <1>3, HostStill DEF HostLeaves

LEMMA HostWaits == LiveInv /\ HostQuiet => LiveInv'
<1> HAVE LiveInv /\ HostQuiet
<1> DEFINE h == [HostState EXCEPT !.quiet = Silent]
<1>1. GameOK(HostState, world[Host], JoinerStates) /\ HostState.session = session[Host]
  BY HostStateIs DEF LiveInv
<1>2. HostState.session.halt = Running /\ ~CanSeal(HostState.session)
  BY <1>1 DEF HostQuiet, Polls, Pumps
<1>3. HostOK(HostState.session, world[Host])
  BY <1>1 DEF GameOK
<1>4. Missing(HostState.session) \subseteq Joiners
  BY <1>2, <1>3, MissingAreJoiners
<1>5. Silent \in SUBSET Joiners
  BY <1>1, <1>4 DEF Silent
<1>6. UNCHANGED <<session, world, waiting, pending, outbox, line, up, down, phase, conn, issued, drifts>>
      /\ quiet' = Silent
  BY DEF HostQuiet
<1>7. /\ h.session = session[Host] /\ h.waiting = waiting[Host]
      /\ h.quiet = Silent /\ h.outbox = outbox
      /\ h.line = line /\ h.up = up /\ h.down = down
  BY Zenon DEF HostState
<1>8. GameOK(h, world'[Host], JoinerStates)
  BY <1>1, <1>5, <1>6, QuietKept
<1>9. Shape'
  BY <1>6 DEF LiveInv, Shape
<1>10. \A j \in Joiners : Joiner(j)' = JoinerStates[j]
  BY <1>6 DEF Joiner, JoinerStates
<1> HIDE DEF h
<1>11. QED
  BY <1>6, <1>7, <1>8, <1>9, <1>10, InvNext

\* The host runs a tick, and names a resync if the worlds have drifted apart.
LEMMA HostRunsOn == LiveInv /\ HostAdvance => LiveInv'
<1> HAVE LiveInv /\ HostAdvance
<1> DEFINE a == Advance(session[Host], world[Host])
           h1 == [HostState EXCEPT !.session = a.session, !.quiet = {}]
<1>1. GameOK(HostState, world[Host], JoinerStates) /\ HostState.session = session[Host] /\ Shape
  BY HostStateIs DEF LiveInv
<1>2. Ready(HostState.session) /\ HostState.session.tick < MaxTick
  BY <1>1 DEF HostAdvance
<1>3. /\ Becomes(Diverged(h1)) /\ world' = [world EXCEPT ![Host] = a.world]
      /\ UNCHANGED <<pending, phase, conn, issued, drifts>>
  BY DEF HostAdvance
<1>4. a = Advance(HostState.session, world[Host])
  BY <1>1
<1>5. Host \in Slots /\ \A j \in Joiners : j \in Slots /\ j # Host
  BY LiveAssumption DEF Joiners
<1>6. /\ DOMAIN world' = Slots /\ \A j \in Joiners : world'[j] = world[j]
      /\ world'[Host] = a.world /\ issued' \subseteq Orders
  BY <1>1, <1>3, <1>5 DEF Shape
<1> HIDE DEF a
<1>7. GameOK(h1, a.world, JoinerStates)
  BY <1>1, <1>2, <1>4, HostAdvanceKept
<1> HIDE DEF h1
<1>8. GameOK(Diverged(h1), world'[Host], JoinerStates)
  BY <1>6, <1>7, DivergedKept
<1>9. QED
  BY <1>1, <1>3, <1>6, <1>8, HostMoves

\* The lists of orders a player may give.
LEMMA OrderedIs ==
  ASSUME Shape, NEW orders \in Ordered
  PROVE  IsList(orders) /\ issued \union Range(orders) \subseteq Orders
<1>1. CASE orders = <<>>
  <2>1. IsList(orders) /\ Range(orders) = {}
    BY <1>1, EmptySeq DEF IsList, Range
  <2>2. QED
    BY <2>1 DEF Shape
<1>2. CASE \E o \in Orders \ issued : orders = <<o>>
  <2>1. PICK o \in Orders \ issued : orders = <<o>>
    BY <1>2
  <2>2. orders \in Seq(Orders) /\ DOMAIN orders = {1} /\ orders[1] = o
    BY <2>1
  <2>3. IsList(orders)
    BY <2>2 DEF IsList
  <2>4. Range(orders) = {o}
    BY <2>2 DEF Range
  <2>5. QED
    BY <2>3, <2>4 DEF Shape
<1>3. QED
  BY <1>1, <1>2 DEF Ordered

\* A pump of the host ends: no player waits to be seated twice, when it seats them.
LEMMA HostPumps ==
  ASSUME LiveInv, OneKnock, NEW orders \in Ordered, NEW plays \in BOOLEAN, HostPump(orders, plays)
  PROVE  LiveInv'
<1> DEFINE h1 == Diverged(HostState)
           h2 == Admit(h1)
           h3 == Control(h2, plays)
           h4 == Stage(h3, orders)
           w == world[Host]
<1>1. GameOK(HostState, w, JoinerStates) /\ Shape /\ HostState.line = line
  BY HostStateIs DEF LiveInv
<1>2. IsList(orders) /\ issued \union Range(orders) \subseteq Orders
  BY <1>1, OrderedIs
<1>3. /\ Becomes(h4) /\ issued' = issued \union Range(orders)
      /\ UNCHANGED <<world, pending, phase, conn, drifts>>
  BY DEF HostPump
<1>4. w = world[Host]
  OBVIOUS
<1>5. /\ DOMAIN world' = Slots /\ \A j \in Joiners : world'[j] = world[j]
      /\ world'[Host] = w /\ issued' \subseteq Orders
  BY <1>1, <1>2, <1>3 DEF Shape
<1> HIDE DEF w
<1>6. GameOK(h1, w, JoinerStates) /\ h1.line = line
  BY <1>1, DivergedKept
<1> HIDE DEF h1
<1>7. \A c, d \in Conns : SlotOf(c) = SlotOf(d) /\ h1.line[c] = "rejoining"
                            /\ h1.line[d] = "rejoining" => c = d
  BY <1>6 DEF OneKnock
<1>8. GameOK(h2, w, JoinerStates)
  BY <1>4, <1>6, <1>7, AdmitKept
<1> HIDE DEF h2
<1>9. GameOK(h3, w, JoinerStates)
  BY <1>8, ControlKept
<1> HIDE DEF h3
<1>10. GameOK(h4, w, JoinerStates)
  BY <1>2, <1>9, StageKept
<1> HIDE DEF h4
<1>11. QED
  BY <1>1, <1>3, <1>5, <1>10, HostMoves

\* The host as it has polled, with a message at the head of a connection.
LEMMA PolledHost ==
  ASSUME LiveInv
  PROVE  /\ GameOK(Polled(HostState), world[Host], JoinerStates)
         /\ Polled(HostState).up = up /\ Polled(HostState).session = session[Host]
<1>1. GameOK(Polled(HostState), world[Host], JoinerStates)
  BY PolledKept DEF LiveInv
<1>2. /\ Polled(HostState).up = HostState.up
      /\ Polled(HostState).session = HostState.session
  BY Zenon, HostStateIs DEF Polled, HostFields
<1>3. QED
  BY <1>1, <1>2, HostStateIs

LEMMA HostTicks ==
  ASSUME LiveInv, NEW c \in Conns, HostTick(c)
  PROVE  LiveInv'
<1> DEFINE h == Polled(HostState)
           p == Head(h.up[c]).packet
           h2 == FromJoiner(TakeFrom(h, c), c, p)
<1>1. GameOK(h, world[Host], JoinerStates) /\ h.up = up /\ h.session = session[Host]
  BY PolledHost
<1>2. /\ Polls(Host) /\ Is(up[c], "Tick") /\ Becomes(h2)
      /\ UNCHANGED <<world, pending, phase, conn, issued, drifts>>
  BY <1>1 DEF HostTick, HostReads, TakeFrom
<1>3. h.session.halt = Running
  BY <1>1, <1>2 DEF Polls, Pumps
<1> HIDE DEF h
<1>4. h.up[c] # <<>> /\ IsTick(Head(h.up[c]))
  BY <1>1, <1>2 DEF Is, IsTick
<1>5. p = Head(h.up[c]).packet
  OBVIOUS
<1> HIDE DEF p
<1>6. GameOK(h2, world[Host], JoinerStates)
  BY <1>1, <1>3, <1>4, <1>5, FromJoinerKept
<1> HIDE DEF h2
<1>7. QED
  BY <1>2, <1>6, HostStill

LEMMA HostKnocks ==
  ASSUME LiveInv, NEW c \in Conns, HostKnock(c)
  PROVE  LiveInv'
<1> DEFINE h == Polled(HostState)
           h2 == Knock(TakeFrom(h, c), c)
<1>1. GameOK(h, world[Host], JoinerStates) /\ h.up = up
  BY PolledHost
<1>2. /\ Is(up[c], "Join") /\ Becomes(h2)
      /\ UNCHANGED <<world, pending, phase, conn, issued, drifts>>
  BY DEF HostKnock, HostReads, TakeFrom
<1> HIDE DEF h
<1>3. h.up[c] # <<>> /\ Head(h.up[c]).type = "Join"
  BY <1>1, <1>2 DEF Is
<1>4. GameOK(h2, world[Host], JoinerStates)
  BY <1>1, <1>3, KnockKept
<1> HIDE DEF h2
<1>5. QED
  BY <1>2, <1>4, HostStill

LEMMA HostLosesOne ==
  ASSUME LiveInv, NEW c \in Conns, HostLeaving(c)
  PROVE  LiveInv'
<1> DEFINE h == TakeFrom(Polled(HostState), c)
           h2 == IF line[c] = "seated" THEN ToComputer(h, <<SlotOf(c)>>) ELSE h
<1>1. GameOK(Polled(HostState), world[Host], JoinerStates) /\ Polled(HostState).up = up
  BY PolledHost
<1>2. /\ Is(up[c], "Leaving") /\ Becomes(h2)
      /\ UNCHANGED <<world, pending, phase, conn, issued, drifts>>
  BY DEF HostLeaving, HostReads, TakeFrom
<1>3. Polled(HostState).up[c] # <<>> /\ Head(Polled(HostState).up[c]).type = "Leaving"
  BY <1>1, <1>2 DEF Is
<1>4. /\ GameOK(h, world[Host], JoinerStates)
      /\ GameOK(ToComputer(h, <<SlotOf(c)>>), world[Host], JoinerStates)
  BY <1>1, <1>3, LeavingKept
<1> HIDE DEF h
<1>5. GameOK(h2, world[Host], JoinerStates)
  BY <1>4
<1> HIDE DEF h2
<1>6. QED
  BY <1>2, <1>5, HostStill

LEMMA HostIsTold ==
  ASSUME LiveInv, NEW c \in Conns, HostToldHalt(c)
  PROVE  LiveInv'
<1> DEFINE h == TakeFrom(Polled(HostState), c)
           h2 == IF Head(up[c]).reason = "Protocol" THEN Stop(h, "Protocol") ELSE h
<1>1. GameOK(Polled(HostState), world[Host], JoinerStates) /\ Polled(HostState).up = up
  BY PolledHost
<1>2. /\ Is(up[c], "Halt") /\ Becomes(h2)
      /\ UNCHANGED <<world, pending, phase, conn, issued, drifts>>
  BY DEF HostToldHalt, HostReads, TakeFrom
<1>3. Polled(HostState).up[c] # <<>> /\ Head(Polled(HostState).up[c]).type = "Halt"
  BY <1>1, <1>2 DEF Is
<1>4. /\ GameOK(h, world[Host], JoinerStates)
      /\ GameOK(Stop(h, "Protocol"), world[Host], JoinerStates)
  BY <1>1, <1>3, ToldHaltKept
<1> HIDE DEF h
<1>5. GameOK(h2, world[Host], JoinerStates)
  BY <1>4
<1> HIDE DEF h2
<1>6. QED
  BY <1>2, <1>5, HostStill

(***************************************************************************)
(* The steps of a joiner.                                                  *)
(***************************************************************************)
LEMMA NextStates ==
  /\ HostState'.session = session'[Host] /\ HostState'.waiting = waiting'[Host]
  /\ HostState'.quiet = quiet' /\ HostState'.outbox = outbox'
  /\ HostState'.line = line' /\ HostState'.up = up' /\ HostState'.down = down'
  /\ DOMAIN HostState' = HostFields
  /\ \A j \in Joiners :
       /\ JoinerStates'[j].session = session'[j] /\ JoinerStates'[j].world = world'[j]
       /\ JoinerStates'[j].pending = pending'[j] /\ JoinerStates'[j].phase = phase'[j]
       /\ JoinerStates'[j].conn = conn'[j] /\ JoinerStates'[j] = Joiner(j)'
<1>1. /\ HostState'.session = session'[Host] /\ HostState'.waiting = waiting'[Host]
      /\ HostState'.quiet = quiet' /\ HostState'.outbox = outbox'
      /\ HostState'.line = line' /\ HostState'.up = up' /\ HostState'.down = down'
      /\ DOMAIN HostState' = HostFields
  BY Zenon DEF HostState, HostFields
<1>2. ASSUME NEW j \in Joiners
      PROVE  /\ JoinerStates'[j].session = session'[j] /\ JoinerStates'[j].world = world'[j]
             /\ JoinerStates'[j].pending = pending'[j] /\ JoinerStates'[j].phase = phase'[j]
             /\ JoinerStates'[j].conn = conn'[j] /\ JoinerStates'[j] = Joiner(j)'
  BY DEF JoinerStates, Joiner
<1>3. QED
  BY <1>1, <1>2

\* Only joiner j's state and its connections change, and the state is well of its shape.
Only(j) ==
  /\ DOMAIN session' = Slots /\ DOMAIN world' = Slots /\ DOMAIN pending' = Joiners
  /\ waiting' \in [Slots -> SUBSET Joiners] /\ waiting'[Host] = waiting[Host]
  /\ phase' \in [Joiners -> {"playing", "knocking", "lost", "over"}]
  /\ conn' \in [Joiners -> 0 .. MaxConn]
  /\ issued' \subseteq Orders /\ drifts' \in 0 .. MaxDrift
  /\ quiet' = quiet /\ outbox' = outbox
  /\ DOMAIN up' = Conns /\ DOMAIN down' = Conns /\ line' = [c \in Conns |-> line'[c]]
  /\ \A i \in Slots \ {j} : session'[i] = session[i] /\ world'[i] = world[i]
  /\ \A i \in Joiners \ {j} :
       pending'[i] = pending[i] /\ phase'[i] = phase[i] /\ conn'[i] = conn[i]

LEMMA OnlyIs ==
  ASSUME NEW j \in Joiners, Only(j)
  PROVE  /\ Shape' /\ Wired(HostState') /\ Same(HostState, HostState')
         /\ \A i \in Joiners : i # j => JoinerStates'[i] = JoinerStates[i]
         /\ world'[Host] = world[Host]
<1>1. Host \in Slots /\ j # Host /\ Joiners \subseteq Slots
  BY LiveAssumption DEF Joiners
<1>2. Shape'
  BY DEF Only, Shape
<1>3. Wired(HostState')
  BY NextStates DEF Only, Wired
<1>4. Same(HostState, HostState')
  BY <1>1, NextStates, HostStateIs DEF Only, Same
<1>5. ASSUME NEW i \in Joiners, i # j PROVE JoinerStates'[i] = JoinerStates[i]
  <2>1. i \in Slots \ {j} /\ i \in Joiners \ {j}
    BY <1>1, <1>5
  <2>2. Joiner(i)' = Joiner(i)
    BY <2>1 DEF Only, Joiner
  <2>3. QED
    BY <2>2, NextStates, JoinerStateIs
<1>6. QED
  BY <1>1, <1>2, <1>3, <1>4, <1>5 DEF Only

LEMMA OnlyMoves ==
  ASSUME NEW j \in Joiners, Only(j), GameOK(HostState', world[Host], JoinerStates')
  PROVE  LiveInv'
BY OnlyIs DEF LiveInv

\* How a joiner that plays goes on from what its handlers made of it, with r still to hear.
LEMMA JoinerGoes ==
  ASSUME LiveInv, NEW j \in Joiners, phase[j] = "playing",
         NEW s, JoinerBecomes(j, s), s.waiting \in SUBSET Joiners,
         NEW v1, v1 = [session |-> s.session, world |-> world'[j], pending |-> s.pending,
                       phase |-> "playing", conn |-> conn[j]],
         NEW r, DownOK(session[Host], world[Host], r),
         Carries(HostState, world[Host], j, JoinerStates[j], v1, r),
         DOMAIN world' = Slots, \A i \in Slots \ {j} : world'[i] = world[i],
         DOMAIN down' = Conns, down'[ConnOf(j)] = r,
         \A c \in Conns \ {ConnOf(j)} : down'[c] = down[c],
         UNCHANGED <<quiet, outbox, line, conn, drifts>>, issued' \subseteq Orders
  PROVE  LiveInv'
<1> DEFINE k == ConnOf(j)
           h == HostState
           h2 == HostState'
           w == world[Host]
           halt == s.session.halt
           a == <<HaltMsg(halt)>>
<1>1. /\ Shape /\ GameOK(h, w, JoinerStates) /\ Wired(h)
      /\ Host \in Slots /\ j \in Slots /\ j # Host
  BY LiveAssumption DEF LiveInv, GameOK, Joiners
<1>2. /\ session' = [session EXCEPT ![j] = s.session]
      /\ waiting' = [waiting EXCEPT ![j] = s.waiting]
      /\ pending' = [pending EXCEPT ![j] = s.pending]
      /\ phase' = IF halt = Running THEN phase
                  ELSE [phase EXCEPT ![j] = IF halt \in {"Left", "Timeout"} THEN "lost" ELSE "over"]
      /\ up' = IF halt = Running THEN up ELSE SendUp(k, a)
  BY DEF JoinerBecomes
<1>3. DOMAIN up = Conns /\ DOMAIN down = Conns /\ line = [c \in Conns |-> line[c]]
  BY <1>1, HostStateIs DEF Wired
<1>4. k \in Conns /\ k = Cur(j, JoinerStates[j])
  <2>1. conn[j] \in 0 .. MaxConn
    BY <1>1 DEF Shape
  <2>2. QED
    BY <2>1, JoinerStateIs DEF ConnOf, Cur, Conns
<1>5. DOMAIN up' = Conns /\ \A c \in Conns \ {k} : up'[c] = up[c]
  BY <1>2, <1>3 DEF SendUp
<1>6. /\ session'[j] = s.session /\ pending'[j] = s.pending /\ conn'[j] = conn[j]
      /\ DOMAIN session' = Slots /\ DOMAIN pending' = Joiners
      /\ \A i \in Slots \ {j} : session'[i] = session[i]
      /\ \A i \in Joiners \ {j} : pending'[i] = pending[i]
  BY <1>1, <1>2 DEF Shape
<1>7. /\ phase' \in [Joiners -> {"playing", "knocking", "lost", "over"}]
      /\ \A i \in Joiners \ {j} : phase'[i] = phase[i]
  BY <1>1, <1>2 DEF Shape
<1>8. waiting' \in [Slots -> SUBSET Joiners] /\ waiting'[Host] = waiting[Host]
  BY <1>1, <1>2 DEF Shape
<1>9. Only(j)
  BY <1>1, <1>3, <1>5, <1>6, <1>7, <1>8 DEF Only, Shape
<1>10. /\ Wired(h2) /\ Same(h, h2) /\ h2.line = h.line /\ h2.down[k] = r
       /\ \A c \in Conns \ {k} : h2.up[c] = h.up[c] /\ h2.down[c] = h.down[c]
       /\ \A i \in Joiners : i # j => JoinerStates'[i] = JoinerStates[i]
  BY <1>5, <1>9, OnlyIs, NextStates, HostStateIs
<1>11. IsList(a) /\ \A i \in DOMAIN a : Parting(a[i])
  <2>1. HaltMsg(halt).type = "Halt"
    BY DEF HaltMsg
  <2>2. QED
    BY <2>1, OneMessage DEF Parting
<1>12. JoinerStates[j].phase = "playing" /\ DownOK(h.session, w, r)
  BY JoinerStateIs, HostStateIs
<1>13. \/ JoinerStates'[j] = v1 /\ h2.up = h.up
       \/ /\ JoinerStates'[j].phase \in {"lost", "over"} /\ JoinerStates'[j].conn = v1.conn
          /\ JoinerStates'[j].session = v1.session /\ JoinerStates'[j].world = v1.world
          /\ JoinerStates'[j].pending = v1.pending
          /\ h2.up[k] = h.up[k] \/ (h.line[k] # "gone" /\ h2.up[k] = Put(h.up[k], a))
  <2>1. CASE halt = Running
    <3>1. Joiner(j)' = v1
      BY <1>2, <1>6, <2>1 DEF Joiner
    <3>2. QED
      BY <1>2, <2>1, <3>1, NextStates, HostStateIs
  <2>2. CASE halt # Running
    <3>1. phase'[j] \in {"lost", "over"}
      BY <1>1, <1>2, <2>2 DEF Shape
    <3>2. up'[k] = IF line[k] = "gone" THEN up[k] ELSE Put(up[k], a)
      BY <1>2, <1>3, <1>4, <2>2 DEF SendUp
    <3>3. /\ v1.session = s.session /\ v1.world = world'[j] /\ v1.pending = s.pending
          /\ v1.conn = conn[j]
      OBVIOUS
    <3>4. h2.up[k] = h.up[k] \/ (h.line[k] # "gone" /\ h2.up[k] = Put(h.up[k], a))
      BY <3>2, NextStates, HostStateIs
    <3>5. QED
      BY <1>6, <3>1, <3>3, <3>4, NextStates
  <2>3. QED
    BY <2>1, <2>2
<1> HIDE DEF h, h2, w, k, a
<1>14. GameOK(h2, w, JoinerStates')
  BY <1>1, <1>4, <1>10, <1>11, <1>12, <1>13, CarriesKept DEF h, w
<1>15. QED
  BY <1>9, <1>14, OnlyMoves DEF h2, w

\* A joiner that plays, as the invariant has it.
LEMMA JoinerPlays ==
  ASSUME LiveInv, NEW j \in Joiners, phase[j] = "playing"
  PROVE  /\ GameOK(HostState, world[Host], JoinerStates)
         /\ HostState.session = session[Host] /\ HostState.down = down
         /\ HostOK(session[Host], world[Host])
         /\ SeatOK(HostState, world[Host], j, JoinerStates[j])
         /\ JoinerStates[j].phase = "playing" /\ JoinerStates[j].session = session[j]
         /\ JoinerStates[j].world = world[j] /\ JoinerStates[j].pending = pending[j]
         /\ JoinerStates[j].conn = conn[j]
         /\ Sound(session[j], j) /\ DOMAIN session[j] = Fields /\ IsList(session[j].staged)
         /\ session[j].barrier \in Nat \union {None}
         /\ session[j].barrier # None => session[j].tick <= session[j].barrier + 1
         /\ pending[j].tick # None =>
              /\ pending[j].tick \in Nat /\ pending[j].tick < session[Host].tick
              /\ TrueWorld(session[Host], world[Host], pending[j].world, pending[j].tick + 1)
         /\ ConnOf(j) \in Conns /\ ConnOf(j) = Cur(j, JoinerStates[j])
         /\ DownOK(session[Host], world[Host], down[ConnOf(j)])
         /\ AheadOK(JoinerStates[j], down[ConnOf(j)])
         /\ DOMAIN world = Slots /\ DOMAIN down = Conns /\ waiting[j] \in SUBSET Joiners
         /\ issued \subseteq Orders /\ j \in Slots
<1> DEFINE h == HostState
           w == world[Host]
           v == JoinerStates[j]
           k == ConnOf(j)
<1>1. Shape /\ GameOK(h, w, JoinerStates) /\ j \in Slots
  BY DEF LiveInv, Joiners
<1>2. h.session = session[Host] /\ h.down = down
  BY HostStateIs
<1>3. HostOK(h.session, w) /\ SeatOK(h, w, j, v) /\ Wired(h)
  BY <1>1 DEF GameOK
<1>4. /\ v.phase = "playing" /\ v.session = session[j]
      /\ v.world = world[j] /\ v.pending = pending[j] /\ v.conn = conn[j]
  BY JoinerStateIs
<1>5. conn[j] \in 0 .. MaxConn /\ waiting[j] \in SUBSET Joiners /\ DOMAIN world = Slots
      /\ issued \subseteq Orders
  BY <1>1 DEF Shape
<1>6. k = Cur(j, v) /\ k \in Conns /\ k \in ConnsOf(j)
  BY <1>4, <1>5, CurConn DEF Cur, ConnOf
<1> HIDE DEF h, w, v, k
<1>7. AlwaysOK(h.session, w, j, v) /\ PlayOK(h, w, j, v) /\ ConnOK(h, w, j, v, k)
  BY <1>3, <1>4, <1>6 DEF SeatOK
<1>8. Sound(session[j], j)
  BY <1>4, <1>7 DEF AlwaysOK
<1>9. /\ DOMAIN session[j] = Fields /\ IsList(session[j].staged)
      /\ session[j].barrier \in Nat \union {None}
  BY <1>8 DEF Sound
<1>10. session[j].barrier # None => session[j].tick <= session[j].barrier + 1
  BY <1>4, <1>7 DEF PlayOK, HeardOK
<1>11. pending[j].tick # None =>
         /\ pending[j].tick \in Nat /\ pending[j].tick < session[Host].tick
         /\ TrueWorld(session[Host], w, pending[j].world, pending[j].tick + 1)
  BY <1>2, <1>4, <1>7 DEF AlwaysOK
<1>12. DownOK(session[Host], w, down[k]) /\ AheadOK(v, down[k])
  BY <1>2, <1>6, <1>7 DEF ConnOK, PlayOK
<1>13. DOMAIN down = Conns
  BY <1>2, <1>3 DEF Wired
<1>14. QED
  BY <1>1, <1>2, <1>3, <1>4, <1>5, <1>6, <1>8, <1>9, <1>10, <1>11, <1>12, <1>13 DEF h, w, v, k

\* A joiner's state once its handlers have made s of it.
After(j, s) == [session |-> s.session, world |-> world[j], pending |-> s.pending,
                phase |-> "playing", conn |-> conn[j]]

LEMMA AlikeAfter ==
  ASSUME LiveInv, NEW j \in Joiners, phase[j] = "playing",
         NEW s, Alike(session[j], s.session), s.session.staged = session[j].staged,
         s.session.barrier \in Nat \union {None},
         s.session.barrier # None => session[j].tick <= s.session.barrier + 1,
         s.pending.tick # None =>
           /\ s.pending.tick \in Nat /\ s.pending.tick < session[Host].tick
           /\ TrueWorld(session[Host], world[Host], s.pending.world, s.pending.tick + 1),
         NEW r, AheadOK(JoinerStates[j], r)
  PROVE  Carries(HostState, world[Host], j, JoinerStates[j], After(j, s), r)
<1> DEFINE v2 == After(j, s)
<1>1. /\ v2.session = s.session /\ v2.world = world[j] /\ v2.pending = s.pending
      /\ v2.phase = "playing" /\ v2.conn = conn[j]
  BY DEF After
<1> HIDE DEF v2
<1>2. s.session.tick = session[j].tick
  BY DEF Alike
<1>3. /\ SeatOK(HostState, world[Host], j, JoinerStates[j])
      /\ JoinerStates[j].phase = "playing" /\ v2.conn = JoinerStates[j].conn
      /\ v2.world = JoinerStates[j].world /\ Alike(JoinerStates[j].session, v2.session)
      /\ IsList(v2.session.staged) /\ v2.session.barrier \in Nat \union {None}
      /\ v2.session.barrier # None => v2.session.tick <= v2.session.barrier + 1
      /\ v2.pending.tick # None =>
           /\ v2.pending.tick \in Nat /\ v2.pending.tick < HostState.session.tick
           /\ TrueWorld(HostState.session, world[Host], v2.pending.world, v2.pending.tick + 1)
  BY <1>1, <1>2, JoinerPlays
<1>4. QED
  BY <1>1, <1>3, AlikeCarries DEF v2

\* A joiner halts, with r still to hear.
LEMMA HaltsAfter ==
  ASSUME LiveInv, NEW j \in Joiners, phase[j] = "playing", NEW reason,
         NEW s, s = JoinerHalts(JoinerState(j), reason),
         NEW r, AheadOK(JoinerStates[j], r)
  PROVE  /\ Carries(HostState, world[Host], j, JoinerStates[j], After(j, s), r)
         /\ s.waiting = waiting[j]
<1>1. s.session = Halt(session[j], reason) /\ s.pending = pending[j] /\ s.waiting = waiting[j]
  BY Zenon DEF JoinerHalts, JoinerState
<1>2. DOMAIN session[j] = Fields
  BY JoinerPlays
<1>3. /\ Alike(session[j], s.session) /\ s.session.staged = session[j].staged
      /\ s.session.barrier = session[j].barrier
  BY <1>1, <1>2, ResyncFields
<1>4. /\ s.session.barrier \in Nat \union {None}
      /\ s.session.barrier # None => session[j].tick <= s.session.barrier + 1
      /\ s.pending.tick # None =>
           /\ s.pending.tick \in Nat /\ s.pending.tick < session[Host].tick
           /\ TrueWorld(session[Host], world[Host], s.pending.world, s.pending.tick + 1)
  BY <1>1, <1>3, JoinerPlays
<1>5. QED
  BY <1>1, <1>3, <1>4, AlikeAfter

\* A joiner's world stays as it is: it has heard a message, or it has heard none.
LEMMA JoinerTold ==
  ASSUME LiveInv, NEW j \in Joiners, Plays(j), down[ConnOf(j)] # <<>>,
         NEW s, JoinerBecomes(j, s), s.waiting \in SUBSET Joiners,
         Carries(HostState, world[Host], j, JoinerStates[j], After(j, s), Tail(down[ConnOf(j)])),
         down' = Read(ConnOf(j)),
         UNCHANGED <<world, quiet, outbox, line, conn, issued, drifts>>
  PROVE  LiveInv'
<1> DEFINE r == Tail(down[ConnOf(j)])
           v1 == After(j, s)
<1>1. phase[j] = "playing"
  BY DEF Plays
<1>2. DOMAIN down = Conns /\ ConnOf(j) \in Conns /\ DOMAIN world = Slots
      /\ DownOK(session[Host], world[Host], down[ConnOf(j)]) /\ issued' \subseteq Orders
  BY <1>1, JoinerPlays
<1>3. DownOK(session[Host], world[Host], r)
  BY <1>2, DownTail
<1>4. /\ DOMAIN down' = Conns /\ down'[ConnOf(j)] = r
      /\ \A c \in Conns \ {ConnOf(j)} : down'[c] = down[c]
  BY <1>2 DEF Read
<1>5. v1 = [session |-> s.session, world |-> world'[j], pending |-> s.pending,
            phase |-> "playing", conn |-> conn[j]]
  BY DEF After
<1>6. Carries(HostState, world[Host], j, JoinerStates[j], v1, r)
  OBVIOUS
<1>7. DOMAIN world' = Slots /\ \A i \in Slots \ {j} : world'[i] = world[i]
  BY <1>2
<1>8. UNCHANGED <<quiet, outbox, line, conn, drifts>>
  OBVIOUS
<1> HIDE DEF r, v1
<1>9. QED
  BY <1>1, <1>2, <1>3, <1>4, <1>5, <1>6, <1>7, <1>8, JoinerGoes

LEMMA JoinerStays ==
  ASSUME LiveInv, NEW j \in Joiners, Plays(j),
         NEW s, JoinerBecomes(j, s), s.waiting \in SUBSET Joiners,
         Carries(HostState, world[Host], j, JoinerStates[j], After(j, s), down[ConnOf(j)]),
         UNCHANGED <<world, quiet, outbox, line, down, conn, issued, drifts>>
  PROVE  LiveInv'
<1> DEFINE r == down[ConnOf(j)]
           v1 == After(j, s)
<1>1. phase[j] = "playing"
  BY DEF Plays
<1>2. DOMAIN down = Conns /\ ConnOf(j) \in Conns /\ DOMAIN world = Slots
      /\ DownOK(session[Host], world[Host], r) /\ issued' \subseteq Orders
  BY <1>1, JoinerPlays
<1>3. /\ DOMAIN down' = Conns /\ down'[ConnOf(j)] = r
      /\ \A c \in Conns \ {ConnOf(j)} : down'[c] = down[c]
      /\ DOMAIN world' = Slots /\ \A i \in Slots \ {j} : world'[i] = world[i]
  BY <1>2
<1>4. v1 = [session |-> s.session, world |-> world'[j], pending |-> s.pending,
            phase |-> "playing", conn |-> conn[j]]
  BY DEF After
<1>5. Carries(HostState, world[Host], j, JoinerStates[j], v1, r)
  OBVIOUS
<1>6. UNCHANGED <<quiet, outbox, line, conn, drifts>>
  OBVIOUS
<1> HIDE DEF r, v1
<1>7. QED
  BY <1>1, <1>2, <1>3, <1>4, <1>5, <1>6, JoinerGoes

(***************************************************************************)
(* What a joiner hears of its host.                                        *)
(***************************************************************************)
LEMMA MessageHeard ==
  ASSUME LiveInv, NEW j \in Joiners, Plays(j), NEW type, Is(down[ConnOf(j)], type)
  PROVE  LET q == down[ConnOf(j)] IN
         /\ phase[j] = "playing" /\ q # <<>> /\ Head(q).type = type
         /\ DownGood(session[Host], world[Host], Head(q))
         /\ AheadOK(JoinerStates[j], Tail(q))
         /\ Head(q).type = "ResyncAt" => session[j].tick <= Head(q).tick + 1
         /\ \A i \in DOMAIN Tail(q) : Tail(q)[i].type = "ResyncAt" => Before(Head(q), Tail(q)[i].tick)
<1> DEFINE q == down[ConnOf(j)]
<1>1. phase[j] = "playing" /\ q # <<>> /\ Head(q).type = type
  BY DEF Plays, Is
<1>2. /\ DownOK(session[Host], world[Host], q) /\ AheadOK(JoinerStates[j], q)
      /\ JoinerStates[j].session = session[j]
  BY <1>1, JoinerPlays
<1> HIDE DEF q
<1>3. IsList(q)
  BY <1>2 DEF DownOK
<1>4. /\ DownGood(session[Host], world[Host], Head(q))
      /\ \A i \in DOMAIN Tail(q) : Tail(q)[i].type = "ResyncAt" => Before(Head(q), Tail(q)[i].tick)
  BY <1>1, <1>2, DownTail
<1>5. /\ AheadOK(JoinerStates[j], Tail(q))
      /\ Head(q).type = "ResyncAt" => session[j].tick <= Head(q).tick + 1
  BY <1>1, <1>2, <1>3, AheadTail
<1>6. QED
  BY <1>1, <1>4, <1>5 DEF q

\* What it makes of a packet.
LEMMA PacketAfter ==
  ASSUME LiveInv, NEW j \in Joiners, phase[j] = "playing",
         NEW p, AsSaid(session[Host], world[Host], p),
         NEW s, s = FromHost(JoinerState(j), p),
         NEW r, AheadOK(JoinerStates[j], r),
         \A i \in DOMAIN r : r[i].type = "ResyncAt" /\ p.from = Host => p.tick <= r[i].tick
  PROVE  /\ Carries(HostState, world[Host], j, JoinerStates[j], After(j, s), r)
         /\ s.waiting = waiting[j]
<1>1. CASE IsError(Verdict(session[j], p))
  <2>1. s = JoinerHalts(JoinerState(j), "Protocol")
    BY <1>1 DEF FromHost, JoinerState
  <2>2. QED
    BY <2>1, HaltsAfter
<1>2. CASE ~IsError(Verdict(session[j], p))
  <2>1. s.session = Receive(session[j], p) /\ s.pending = pending[j] /\ s.waiting = waiting[j]
    BY <1>2 DEF FromHost, JoinerState
  <2>2. Verdict(session[j], p) \in {"Ignored", "Accepted"}
    BY <1>2 DEF IsError
  <2>3. CASE Verdict(session[j], p) = "Accepted"
    <3> DEFINE v2 == After(j, s)
    <3>1. /\ v2.session = s.session /\ v2.world = world[j] /\ v2.pending = s.pending
          /\ v2.phase = "playing" /\ v2.conn = conn[j]
      BY DEF After
    <3> HIDE DEF v2
    <3>2. /\ SeatOK(HostState, world[Host], j, JoinerStates[j])
          /\ JoinerStates[j].phase = "playing" /\ v2.conn = JoinerStates[j].conn
          /\ v2.world = JoinerStates[j].world /\ v2.pending = JoinerStates[j].pending
          /\ v2.session = Receive(JoinerStates[j].session, p)
          /\ Verdict(JoinerStates[j].session, p) = "Accepted"
          /\ AsSaid(HostState.session, world[Host], p)
      BY <2>1, <2>3, <3>1, JoinerPlays
    <3>3. Carries(HostState, world[Host], j, JoinerStates[j], v2, r)
      BY <3>1, <3>2, TickCarries
    <3>4. QED
      BY <2>1, <3>3 DEF v2
  <2>4. CASE Verdict(session[j], p) = "Ignored"
    <3>1. s.session = session[j]
      BY <2>1, <2>4 DEF Receive
    <3>2. DOMAIN session[j] = Fields
      BY JoinerPlays
    <3>3. Alike(session[j], s.session)
      BY <3>1, <3>2 DEF Alike
    <3>4. /\ s.session.barrier \in Nat \union {None}
          /\ s.session.barrier # None => session[j].tick <= s.session.barrier + 1
          /\ s.pending.tick # None =>
               /\ s.pending.tick \in Nat /\ s.pending.tick < session[Host].tick
               /\ TrueWorld(session[Host], world[Host], s.pending.world, s.pending.tick + 1)
      BY <2>1, <3>1, JoinerPlays
    <3>5. QED
      BY <2>1, <3>1, <3>3, <3>4, AlikeAfter
  <2>5. QED
    BY <2>2, <2>3, <2>4
<1>3. QED
  BY <1>1, <1>2

LEMMA HearsTick ==
  ASSUME LiveInv, NEW j \in Joiners, JoinerTick(j)
  PROVE  LiveInv'
<1> DEFINE q == down[ConnOf(j)]
           p == Head(q).packet
           s == FromHost(JoinerState(j), p)
<1>1. /\ Plays(j) /\ Is(q, "Tick") /\ JoinerBecomes(j, s) /\ down' = Read(ConnOf(j))
      /\ UNCHANGED <<world, quiet, outbox, line, conn, issued, drifts>>
  BY DEF JoinerTick, JoinerReads
<1>2. /\ phase[j] = "playing" /\ q # <<>> /\ Head(q).type = "Tick"
      /\ DownGood(session[Host], world[Host], Head(q)) /\ AheadOK(JoinerStates[j], Tail(q))
      /\ \A i \in DOMAIN Tail(q) : Tail(q)[i].type = "ResyncAt" => Before(Head(q), Tail(q)[i].tick)
  BY <1>1, MessageHeard
<1>3. AsSaid(session[Host], world[Host], p)
  BY <1>2 DEF DownGood
<1>4. \A i \in DOMAIN Tail(q) : Tail(q)[i].type = "ResyncAt" /\ p.from = Host => p.tick <= Tail(q)[i].tick
  BY <1>2 DEF Before
<1>5. s = FromHost(JoinerState(j), p) /\ q = down[ConnOf(j)]
  OBVIOUS
<1> HIDE DEF p, s, q
<1>6. /\ Carries(HostState, world[Host], j, JoinerStates[j], After(j, s), Tail(q))
      /\ s.waiting = waiting[j]
  BY <1>2, <1>3, <1>4, <1>5, PacketAfter
<1>7. s.waiting \in SUBSET Joiners
  BY <1>2, <1>6, JoinerPlays
<1>8. QED
  BY <1>1, <1>2, <1>5, <1>6, <1>7, JoinerTold

LEMMA HearsHalt ==
  ASSUME LiveInv, NEW j \in Joiners, JoinerToldHalt(j)
  PROVE  LiveInv'
<1> DEFINE q == down[ConnOf(j)]
           s == JoinerHalts(JoinerState(j), Head(q).reason)
<1>1. /\ Plays(j) /\ Is(q, "Halt") /\ JoinerBecomes(j, s) /\ down' = Read(ConnOf(j))
      /\ UNCHANGED <<world, quiet, outbox, line, conn, issued, drifts>>
  BY DEF JoinerToldHalt, JoinerReads
<1>2. phase[j] = "playing" /\ q # <<>> /\ AheadOK(JoinerStates[j], Tail(q))
  BY <1>1, MessageHeard
<1>3. s = JoinerHalts(JoinerState(j), Head(q).reason) /\ q = down[ConnOf(j)]
  OBVIOUS
<1> HIDE DEF s, q
<1>4. /\ Carries(HostState, world[Host], j, JoinerStates[j], After(j, s), Tail(q))
      /\ s.waiting = waiting[j]
  BY <1>2, <1>3, HaltsAfter
<1>5. s.waiting \in SUBSET Joiners
  BY <1>2, <1>4, JoinerPlays
<1>6. QED
  BY <1>1, <1>2, <1>3, <1>4, <1>5, JoinerTold

LEMMA HearsResyncAt ==
  ASSUME LiveInv, NEW j \in Joiners, JoinerResyncAt(j)
  PROVE  LiveInv'
<1> DEFINE q == down[ConnOf(j)]
           m == Head(q)
           s == [JoinerState(j) EXCEPT !.session = ResyncAnnounced(@, m.tick)]
<1>1. /\ Plays(j) /\ Is(q, "ResyncAt") /\ JoinerBecomes(j, s) /\ down' = Read(ConnOf(j))
      /\ UNCHANGED <<world, quiet, outbox, line, conn, issued, drifts>>
  BY DEF JoinerResyncAt, JoinerReads
<1>2. /\ phase[j] = "playing" /\ q # <<>> /\ m.type = "ResyncAt"
      /\ DownGood(session[Host], world[Host], m) /\ AheadOK(JoinerStates[j], Tail(q))
      /\ session[j].tick <= m.tick + 1
  BY <1>1, MessageHeard
<1>3. m.tick \in Nat
  BY <1>2 DEF DownGood
<1>4. /\ s.session = ResyncAnnounced(session[j], m.tick) /\ s.pending = pending[j]
      /\ s.waiting = waiting[j]
  BY DEF JoinerState
<1> HIDE DEF s, m
<1>5. /\ Alike(session[j], s.session) /\ s.session.staged = session[j].staged
      /\ s.session.barrier = m.tick
  <2>1. DOMAIN session[j] = Fields
    BY <1>2, JoinerPlays
  <2>2. QED
    BY <1>4, <2>1, ResyncFields
<1>6. /\ s.session.barrier \in Nat \union {None}
      /\ s.session.barrier # None => session[j].tick <= s.session.barrier + 1
  BY <1>2, <1>3, <1>5
<1>7. /\ s.pending.tick # None =>
           /\ s.pending.tick \in Nat /\ s.pending.tick < session[Host].tick
           /\ TrueWorld(session[Host], world[Host], s.pending.world, s.pending.tick + 1)
      /\ s.waiting \in SUBSET Joiners
  BY <1>2, <1>4, JoinerPlays
<1>8. q = down[ConnOf(j)]
  OBVIOUS
<1> HIDE DEF q
<1>9. Carries(HostState, world[Host], j, JoinerStates[j], After(j, s), Tail(q))
  BY <1>2, <1>5, <1>6, <1>7, AlikeAfter
<1>10. QED
  BY <1>1, <1>2, <1>7, <1>8, <1>9, JoinerTold

LEMMA HearsResync ==
  ASSUME LiveInv, NEW j \in Joiners, JoinerResync(j)
  PROVE  LiveInv'
<1> DEFINE q == down[ConnOf(j)]
           m == Head(q)
           s == [JoinerState(j) EXCEPT !.pending = [tick |-> m.tick, world |-> m.world]]
<1>1. /\ Plays(j) /\ Is(q, "Resync") /\ JoinerBecomes(j, s) /\ down' = Read(ConnOf(j))
      /\ UNCHANGED <<world, quiet, outbox, line, conn, issued, drifts>>
  BY DEF JoinerResync, JoinerReads
<1>2. /\ phase[j] = "playing" /\ q # <<>> /\ m.type = "Resync"
      /\ DownGood(session[Host], world[Host], m) /\ AheadOK(JoinerStates[j], Tail(q))
  BY <1>1, MessageHeard
<1>3. /\ m.tick \in Nat /\ m.tick < session[Host].tick
      /\ TrueWorld(session[Host], world[Host], m.world, m.tick + 1)
  BY <1>2 DEF DownGood
<1>4. /\ s.session = session[j] /\ s.pending.tick = m.tick /\ s.pending.world = m.world
      /\ s.waiting = waiting[j]
  BY DEF JoinerState
<1> HIDE DEF s, m
<1>5. /\ DOMAIN session[j] = Fields /\ session[j].barrier \in Nat \union {None}
      /\ session[j].barrier # None => session[j].tick <= session[j].barrier + 1
      /\ s.waiting \in SUBSET Joiners
  BY <1>2, <1>4, JoinerPlays
<1>6. Alike(session[j], s.session)
  BY <1>4, <1>5 DEF Alike
<1>7. q = down[ConnOf(j)]
  OBVIOUS
<1> HIDE DEF q
<1>8. Carries(HostState, world[Host], j, JoinerStates[j], After(j, s), Tail(q))
  BY <1>2, <1>3, <1>4, <1>5, <1>6, AlikeAfter
<1>9. QED
  BY <1>1, <1>2, <1>5, <1>7, <1>8, JoinerTold

LEMMA HearsRetire ==
  ASSUME LiveInv, NEW j \in Joiners, JoinerRetire(j)
  PROVE  LiveInv'
<1> DEFINE q == down[ConnOf(j)]
           slot == Head(q).slot
           from == Head(q).from
           s == [JoinerState(j) EXCEPT !.session = Retire(@, slot, from), !.waiting = @ \ {slot}]
           v2 == After(j, s)
<1>1. /\ Plays(j) /\ Is(q, "Retire") /\ JoinerBecomes(j, s) /\ down' = Read(ConnOf(j))
      /\ UNCHANGED <<world, quiet, outbox, line, conn, issued, drifts>>
  BY DEF JoinerRetire, JoinerReads
<1>2. /\ phase[j] = "playing" /\ q # <<>> /\ Head(q).type = "Retire"
      /\ DownGood(session[Host], world[Host], Head(q)) /\ AheadOK(JoinerStates[j], Tail(q))
  BY <1>1, MessageHeard
<1>3. slot \in Joiners /\ Ended(session[Host], world[Host], slot, from)
  BY <1>2 DEF DownGood
<1>4. /\ s.session = Retire(session[j], slot, from) /\ s.pending = pending[j]
      /\ s.waiting = waiting[j] \ {slot}
  BY DEF JoinerState
<1>5. /\ v2.session = s.session /\ v2.world = world[j] /\ v2.pending = s.pending
      /\ v2.phase = "playing" /\ v2.conn = conn[j]
  BY DEF After
<1>6. q = down[ConnOf(j)] /\ v2 = After(j, s)
  OBVIOUS
<1> HIDE DEF s, slot, from, q, v2
<1>7. /\ SeatOK(HostState, world[Host], j, JoinerStates[j])
      /\ JoinerStates[j].phase = "playing" /\ v2.conn = JoinerStates[j].conn
      /\ v2.world = JoinerStates[j].world /\ v2.pending = JoinerStates[j].pending
      /\ v2.session = Retire(JoinerStates[j].session, slot, from)
      /\ Ended(HostState.session, world[Host], slot, from)
      /\ waiting[j] \in SUBSET Joiners
  BY <1>2, <1>3, <1>4, <1>5, JoinerPlays
<1>8. Carries(HostState, world[Host], j, JoinerStates[j], v2, Tail(q))
  BY <1>2, <1>3, <1>5, <1>7, RetireCarries
<1>9. s.waiting \in SUBSET Joiners
  BY <1>4, <1>7
<1>10. QED
  BY <1>1, <1>2, <1>6, <1>8, <1>9, JoinerTold

\* Who is waited for has nothing to do with what the seats run.
LEMMA HearsWaiting ==
  ASSUME LiveInv, NEW j \in Joiners, Plays(j), NEW type, Is(down[ConnOf(j)], type),
         NEW s, s.session = session[j], s.pending = pending[j], s.waiting \in SUBSET Joiners,
         JoinerBecomes(j, s), down' = Read(ConnOf(j)),
         UNCHANGED <<world, quiet, outbox, line, conn, issued, drifts>>
  PROVE  LiveInv'
<1> DEFINE q == down[ConnOf(j)]
<1>1. phase[j] = "playing" /\ q # <<>> /\ AheadOK(JoinerStates[j], Tail(q))
  BY MessageHeard
<1>2. /\ DOMAIN session[j] = Fields /\ session[j].barrier \in Nat \union {None}
      /\ session[j].barrier # None => session[j].tick <= session[j].barrier + 1
      /\ pending[j].tick # None =>
           /\ pending[j].tick \in Nat /\ pending[j].tick < session[Host].tick
           /\ TrueWorld(session[Host], world[Host], pending[j].world, pending[j].tick + 1)
  BY <1>1, JoinerPlays
<1>3. Alike(session[j], s.session)
  BY <1>2 DEF Alike
<1>4. q = down[ConnOf(j)]
  OBVIOUS
<1> HIDE DEF q
<1>5. Carries(HostState, world[Host], j, JoinerStates[j], After(j, s), Tail(q))
  BY <1>1, <1>2, <1>3, AlikeAfter
<1>6. QED
  BY <1>1, <1>4, <1>5, JoinerTold

LEMMA HearsAway ==
  ASSUME LiveInv, NEW j \in Joiners, JoinerAway(j)
  PROVE  LiveInv'
<1> DEFINE m == Head(down[ConnOf(j)])
           s == [JoinerState(j) EXCEPT !.waiting = @ \union {m.slot}]
<1>1. /\ Plays(j) /\ Is(down[ConnOf(j)], "Away") /\ JoinerBecomes(j, s) /\ down' = Read(ConnOf(j))
      /\ UNCHANGED <<world, quiet, outbox, line, conn, issued, drifts>>
  BY DEF JoinerAway, JoinerReads
<1>2. phase[j] = "playing" /\ m.type = "Away" /\ DownGood(session[Host], world[Host], m)
  BY <1>1, MessageHeard
<1>3. m.slot \in Joiners
  BY <1>2 DEF DownGood
<1>4. /\ s.session = session[j] /\ s.pending = pending[j]
      /\ s.waiting = waiting[j] \union {m.slot}
  BY DEF JoinerState
<1> HIDE DEF s, m
<1>5. waiting[j] \in SUBSET Joiners
  BY <1>2, JoinerPlays
<1>6. s.waiting \in SUBSET Joiners
  BY <1>3, <1>4, <1>5
<1>7. QED
  BY <1>1, <1>4, <1>6, HearsWaiting

LEMMA HearsBack ==
  ASSUME LiveInv, NEW j \in Joiners, JoinerBack(j)
  PROVE  LiveInv'
<1> DEFINE m == Head(down[ConnOf(j)])
           s == [JoinerState(j) EXCEPT !.waiting = @ \ {m.slot}]
<1>1. /\ Plays(j) /\ Is(down[ConnOf(j)], "Back") /\ JoinerBecomes(j, s) /\ down' = Read(ConnOf(j))
      /\ UNCHANGED <<world, quiet, outbox, line, conn, issued, drifts>>
  BY DEF JoinerBack, JoinerReads
<1>2. /\ s.session = session[j] /\ s.pending = pending[j]
      /\ s.waiting = waiting[j] \ {m.slot}
  BY DEF JoinerState
<1> HIDE DEF s, m
<1>3. phase[j] = "playing"
  BY <1>1 DEF Plays
<1>4. waiting[j] \in SUBSET Joiners
  BY <1>3, JoinerPlays
<1>5. s.waiting \in SUBSET Joiners
  BY <1>2, <1>4
<1>6. QED
  BY <1>1, <1>2, <1>5, HearsWaiting

\* It gives the game up: its host is gone, or silent for too long.
LEMMA GivesUp ==
  ASSUME LiveInv, NEW j \in Joiners, Plays(j), NEW reason,
         JoinerBecomes(j, JoinerHalts(JoinerState(j), reason)),
         UNCHANGED <<world, quiet, outbox, line, down, conn, issued, drifts>>
  PROVE  LiveInv'
<1> DEFINE s == JoinerHalts(JoinerState(j), reason)
<1>1. phase[j] = "playing" /\ s = JoinerHalts(JoinerState(j), reason) /\ JoinerBecomes(j, s)
  BY DEF Plays
<1> HIDE DEF s
<1>2. AheadOK(JoinerStates[j], down[ConnOf(j)]) /\ waiting[j] \in SUBSET Joiners
  BY <1>1, JoinerPlays
<1>3. /\ Carries(HostState, world[Host], j, JoinerStates[j], After(j, s), down[ConnOf(j)])
      /\ s.waiting = waiting[j]
  BY <1>1, <1>2, HaltsAfter
<1>4. QED
  BY <1>1, <1>2, <1>3, JoinerStays

LEMMA JoinerLosesHost ==
  ASSUME LiveInv, NEW j \in Joiners, JoinerDropped(j)
  PROVE  LiveInv'
BY GivesUp DEF JoinerDropped

LEMMA JoinerTimesOut ==
  ASSUME LiveInv, NEW j \in Joiners, JoinerTimeout(j)
  PROVE  LiveInv'
BY GivesUp DEF JoinerTimeout

(***************************************************************************)
(* A joiner runs on.                                                       *)
(***************************************************************************)
\* What it is to hear of, it hears in whole ticks.
LEMMA AheadTicks ==
  ASSUME NEW S, NEW w, NEW r, DownOK(S, w, r)
  PROVE  \A i \in DOMAIN r : r[i].type = "ResyncAt" => r[i].tick \in Nat
BY DEF DownOK, DownGood

LEMMA JoinerRunsOn ==
  ASSUME LiveInv, NEW j \in Joiners, JoinerAdvance(j)
  PROVE  LiveInv'
<1> DEFINE a == Advance(session[j], world[j])
           s == [JoinerState(j) EXCEPT !.session = a.session]
           r == down[ConnOf(j)]
           v1 == [session |-> s.session, world |-> world'[j], pending |-> s.pending,
                  phase |-> "playing", conn |-> conn[j]]
<1>1. /\ Plays(j) /\ Ready(session[j]) /\ session[j].tick < MaxTick /\ JoinerBecomes(j, s)
      /\ world' = [world EXCEPT ![j] = a.world]
      /\ UNCHANGED <<quiet, outbox, line, down, conn, issued, drifts>>
  BY DEF JoinerAdvance
<1>2. phase[j] = "playing"
  BY <1>1 DEF Plays
<1>3. s.session = a.session /\ s.pending = pending[j] /\ s.waiting = waiting[j]
  BY DEF JoinerState
<1>4. /\ DOMAIN world = Slots /\ DOMAIN down = Conns /\ issued \subseteq Orders /\ j \in Slots
      /\ waiting[j] \in SUBSET Joiners
      /\ DownOK(session[Host], world[Host], r) /\ AheadOK(JoinerStates[j], r)
  BY <1>2, JoinerPlays
<1>5. /\ DOMAIN world' = Slots /\ world'[j] = a.world
      /\ \A i \in Slots \ {j} : world'[i] = world[i]
  BY <1>1, <1>4
<1>6. /\ v1.session = a.session /\ v1.world = a.world /\ v1.pending = pending[j]
      /\ v1.phase = "playing" /\ v1.conn = conn[j]
  BY <1>3, <1>5
<1>7. a = Advance(session[j], world[j])
  OBVIOUS
<1>8. v1 = [session |-> s.session, world |-> world'[j], pending |-> s.pending,
            phase |-> "playing", conn |-> conn[j]]
  OBVIOUS
<1>9. /\ DOMAIN down' = Conns /\ down'[ConnOf(j)] = r
      /\ \A c \in Conns \ {ConnOf(j)} : down'[c] = down[c]
      /\ issued' \subseteq Orders /\ s.waiting \in SUBSET Joiners
      /\ UNCHANGED <<quiet, outbox, line, conn, drifts>>
  BY <1>1, <1>3, <1>4
<1> HIDE DEF a, s, r, v1
<1>10. \A i \in DOMAIN r : r[i].type = "ResyncAt" => r[i].tick \in Nat
  BY <1>4, AheadTicks
<1>11. /\ SeatOK(HostState, world[Host], j, JoinerStates[j])
       /\ JoinerStates[j].phase = "playing" /\ v1.conn = JoinerStates[j].conn
       /\ v1.pending = JoinerStates[j].pending
       /\ Ready(JoinerStates[j].session) /\ JoinerStates[j].session.tick < MaxTick
       /\ a = Advance(JoinerStates[j].session, JoinerStates[j].world)
  BY <1>1, <1>2, <1>6, <1>7, JoinerPlays
<1>12. Carries(HostState, world[Host], j, JoinerStates[j], v1, r)
  BY <1>4, <1>6, <1>10, <1>11, AdvanceCarries
<1>13. QED
  BY <1>1, <1>2, <1>4, <1>5, <1>8, <1>9, <1>12, JoinerGoes

LEMMA JoinerAdopts ==
  ASSUME LiveInv, NEW j \in Joiners, JoinerAdopt(j)
  PROVE  LiveInv'
<1> DEFINE s == [JoinerState(j) EXCEPT
                   !.session = Resynced(@, pending[j].tick, pending[j].world),
                   !.pending = NoResync]
           r == down[ConnOf(j)]
           v1 == [session |-> s.session, world |-> world'[j], pending |-> s.pending,
                  phase |-> "playing", conn |-> conn[j]]
<1>1. /\ Plays(j) /\ AtBarrier(session[j]) /\ pending[j].tick = session[j].barrier
      /\ JoinerBecomes(j, s) /\ world' = [world EXCEPT ![j] = pending[j].world]
      /\ UNCHANGED <<quiet, outbox, line, down, conn, issued, drifts>>
  BY DEF JoinerAdopt
<1>2. phase[j] = "playing"
  BY <1>1 DEF Plays
<1>3. /\ s.session = Resynced(session[j], pending[j].tick, pending[j].world)
      /\ s.pending = NoResync /\ s.waiting = waiting[j]
  BY DEF JoinerState
<1>4. /\ DOMAIN world = Slots /\ DOMAIN down = Conns /\ issued \subseteq Orders /\ j \in Slots
      /\ waiting[j] \in SUBSET Joiners
      /\ DownOK(session[Host], world[Host], r) /\ AheadOK(JoinerStates[j], r)
  BY <1>2, JoinerPlays
<1>5. /\ DOMAIN world' = Slots /\ world'[j] = pending[j].world
      /\ \A i \in Slots \ {j} : world'[i] = world[i]
  BY <1>1, <1>4
<1>6. /\ v1.session = s.session /\ v1.world = pending[j].world /\ v1.pending = NoResync
      /\ v1.phase = "playing" /\ v1.conn = conn[j]
  BY <1>3, <1>5
<1>7. v1 = [session |-> s.session, world |-> world'[j], pending |-> s.pending,
            phase |-> "playing", conn |-> conn[j]]
  OBVIOUS
<1>8. /\ DOMAIN down' = Conns /\ down'[ConnOf(j)] = r
      /\ \A c \in Conns \ {ConnOf(j)} : down'[c] = down[c]
      /\ issued' \subseteq Orders /\ s.waiting \in SUBSET Joiners
      /\ UNCHANGED <<quiet, outbox, line, conn, drifts>>
  BY <1>1, <1>3, <1>4
<1> HIDE DEF s, r, v1
<1>9. /\ SeatOK(HostState, world[Host], j, JoinerStates[j])
      /\ HostOK(HostState.session, world[Host])
      /\ JoinerStates[j].phase = "playing" /\ v1.conn = JoinerStates[j].conn
      /\ AtBarrier(JoinerStates[j].session)
      /\ JoinerStates[j].pending.tick = JoinerStates[j].session.barrier
      /\ v1.world = JoinerStates[j].pending.world
      /\ v1.session = Resynced(JoinerStates[j].session, JoinerStates[j].pending.tick,
                               JoinerStates[j].pending.world)
  BY <1>1, <1>2, <1>3, <1>6, JoinerPlays
<1>10. Carries(HostState, world[Host], j, JoinerStates[j], v1, r)
  BY <1>4, <1>6, <1>9, AdoptCarries
<1>11. QED
  BY <1>1, <1>2, <1>4, <1>5, <1>7, <1>8, <1>10, JoinerGoes

\* A joiner's player gives orders.
LEMMA JoinerPumps ==
  ASSUME LiveInv, NEW j \in Joiners, NEW orders \in Ordered, JoinerPump(j, orders)
  PROVE  LiveInv'
<1> DEFINE h == HostState
           h2 == HostState'
           w == world[Host]
           k == ConnOf(j)
           r == down[k]
           v1 == JoinerStates'[j]
<1>1. /\ Plays(j) /\ session' = [session EXCEPT ![j].staged = @ \o orders]
      /\ issued' = issued \union Range(orders)
      /\ UNCHANGED <<world, waiting, pending, quiet, outbox, line, up, down, phase, conn, drifts>>
  BY DEF JoinerPump
<1>2. phase[j] = "playing" /\ Shape /\ j \in Slots
  BY <1>1 DEF Plays, LiveInv, Joiners
<1>3. IsList(orders) /\ issued' \subseteq Orders
  BY <1>1, <1>2, OrderedIs
<1>4. DOMAIN session[j] = Fields /\ IsList(session[j].staged)
  BY <1>2, JoinerPlays
<1>5. /\ DOMAIN session' = Slots /\ \A i \in Slots \ {j} : session'[i] = session[i]
      /\ session'[j] = [session[j] EXCEPT !.staged = @ \o orders]
  BY <1>1, <1>2 DEF Shape
<1>6. /\ Alike(session[j], session'[j]) /\ session'[j].barrier = session[j].barrier
      /\ session'[j].staged = session[j].staged \o orders
  BY Zenon, <1>4, <1>5 DEF Alike, Fields
<1>7. IsList(session[j].staged \o orders)
  BY <1>3, <1>4, ListConcat
<1>8. Only(j)
  <2>1. DOMAIN up = Conns /\ DOMAIN down = Conns /\ line = [c \in Conns |-> line[c]]
    BY HostStateIs DEF LiveInv, GameOK, Wired
  <2>2. /\ DOMAIN session' = Slots /\ DOMAIN world' = Slots /\ DOMAIN pending' = Joiners
        /\ waiting' \in [Slots -> SUBSET Joiners] /\ waiting'[Host] = waiting[Host]
        /\ phase' \in [Joiners -> {"playing", "knocking", "lost", "over"}]
        /\ conn' \in [Joiners -> 0 .. MaxConn]
        /\ issued' \subseteq Orders /\ drifts' \in 0 .. MaxDrift
    BY <1>1, <1>2, <1>3, <1>5 DEF Shape
  <2>3. QED
    BY <1>1, <1>5, <2>1, <2>2 DEF Only
<1>9. /\ Wired(h2) /\ Same(h, h2) /\ h2.line = h.line /\ h2.up = h.up /\ h2.down = h.down
      /\ \A i \in Joiners : i # j => JoinerStates'[i] = JoinerStates[i]
  BY <1>1, <1>8, OnlyIs, NextStates, HostStateIs
<1>10. /\ v1.session = session'[j] /\ v1.world = world[j] /\ v1.pending = pending[j]
       /\ v1.phase = "playing" /\ v1.conn = conn[j]
  BY <1>1, <1>2, NextStates
<1>11. /\ h.session = session[Host] /\ h2.down[k] = r /\ v1 = JoinerStates'[j]
  BY <1>9, HostStateIs
<1> HIDE DEF v1
<1>12. /\ GameOK(h, w, JoinerStates) /\ k = Cur(j, JoinerStates[j])
       /\ SeatOK(h, w, j, JoinerStates[j])
       /\ JoinerStates[j].phase = "playing" /\ v1.conn = JoinerStates[j].conn
       /\ v1.world = JoinerStates[j].world /\ Alike(JoinerStates[j].session, v1.session)
       /\ IsList(v1.session.staged) /\ v1.session.barrier \in Nat \union {None}
       /\ v1.session.barrier # None => v1.session.tick <= v1.session.barrier + 1
       /\ v1.pending.tick # None =>
            /\ v1.pending.tick \in Nat /\ v1.pending.tick < h.session.tick
            /\ TrueWorld(h.session, w, v1.pending.world, v1.pending.tick + 1)
       /\ AheadOK(JoinerStates[j], r) /\ DownOK(h.session, w, r)
  <2>1. session'[j].tick = session[j].tick
    BY <1>6 DEF Alike
  <2>2. QED
    BY <1>2, <1>6, <1>7, <1>10, <1>11, <2>1, JoinerPlays
<1> HIDE DEF h, h2, w, k, r
<1>13. Carries(h, w, j, JoinerStates[j], v1, r)
  BY <1>10, <1>12, AlikeCarries
<1>14. IsList(<<>>) /\ \A i \in DOMAIN <<>> : Parting(<<>>[i])
  BY EmptySeq DEF IsList
<1>15. /\ \A c \in Conns \ {k} : h2.up[c] = h.up[c] /\ h2.down[c] = h.down[c]
       /\ JoinerStates'[j] = v1
  BY <1>9, <1>11
<1>16. GameOK(h2, w, JoinerStates')
  BY <1>9, <1>11, <1>12, <1>13, <1>14, <1>15, CarriesKept
<1>17. QED
  BY <1>8, <1>16, OnlyMoves DEF h2, w

\* A joiner's next packet, sealed and sent.
LEMMA JoinerSeals ==
  ASSUME LiveInv, NEW j \in Joiners, JoinerSeal(j)
  PROVE  LiveInv'
<1> DEFINE h == HostState
           h2 == HostState'
           w == world[Host]
           k == ConnOf(j)
           m == TickMsg(Packet(session[j]))
<1>1. /\ phase[j] = "playing" /\ session' = [session EXCEPT ![j] = Seal(@)]
      /\ up' = SendUp(k, <<m>>)
      /\ UNCHANGED <<world, waiting, pending, quiet, outbox, line, down, phase, conn, issued, drifts>>
  BY DEF JoinerSeal
<1>2. Shape /\ j \in Slots
  BY DEF LiveInv, Joiners
<1>3. DOMAIN up = Conns /\ DOMAIN down = Conns /\ line = [c \in Conns |-> line[c]]
  BY HostStateIs DEF LiveInv, GameOK, Wired
<1>4. k \in Conns /\ k = Cur(j, JoinerStates[j]) /\ GameOK(h, w, JoinerStates)
      /\ JoinerStates[j].phase = "playing"
  BY <1>1, JoinerPlays
<1>5. /\ DOMAIN session' = Slots /\ \A i \in Slots \ {j} : session'[i] = session[i]
      /\ session'[j] = Seal(session[j])
  BY <1>1, <1>2 DEF Shape
<1>6. /\ DOMAIN up' = Conns /\ \A c \in Conns \ {k} : up'[c] = up[c]
      /\ up'[k] = IF line[k] = "gone" THEN up[k] ELSE Put(up[k], <<m>>)
  BY <1>1, <1>3, <1>4 DEF SendUp
<1>7. Only(j)
  BY <1>1, <1>2, <1>3, <1>5, <1>6 DEF Only, Shape
<1>8. /\ Wired(h2) /\ Same(h, h2) /\ h2.line = h.line /\ h2.down = h.down
      /\ \A c \in Conns \ {k} : h2.up[c] = h.up[c]
      /\ \A i \in Joiners : i # j => JoinerStates'[i] = JoinerStates[i]
  BY <1>1, <1>6, <1>7, OnlyIs, NextStates, HostStateIs
<1>9. h2.up[k] = IF h.line[k] = "gone" THEN h.up[k]
                 ELSE Put(h.up[k], <<TickMsg(Packet(JoinerStates[j].session))>>)
  BY <1>6, NextStates, HostStateIs, JoinerStateIs
<1>10. /\ JoinerStates'[j].phase = "playing" /\ JoinerStates'[j].conn = JoinerStates[j].conn
       /\ JoinerStates'[j].session = Seal(JoinerStates[j].session)
       /\ JoinerStates'[j].world = JoinerStates[j].world
       /\ JoinerStates'[j].pending = JoinerStates[j].pending
  BY <1>1, <1>5, NextStates, JoinerStateIs
<1> HIDE DEF h, h2, w, k, m
<1>11. GameOK(h2, w, JoinerStates')
  BY <1>4, <1>8, <1>9, <1>10, JoinerSealKept
<1>12. QED
  BY <1>7, <1>11, OnlyMoves DEF h2, w

(***************************************************************************)
(* A joiner stops playing, and comes back.                                 *)
(***************************************************************************)
\* Its connections, of the game as it is.
LEMMA JoinerLine ==
  ASSUME LiveInv, NEW j \in Joiners
  PROVE  /\ Shape /\ GameOK(HostState, world[Host], JoinerStates) /\ j \in Slots /\ j # Host
         /\ ConnOf(j) \in Conns /\ ConnOf(j) = Cur(j, JoinerStates[j])
         /\ DOMAIN up = Conns /\ DOMAIN down = Conns /\ line = [c \in Conns |-> line[c]]
         /\ DownOK(session[Host], world[Host], down[ConnOf(j)])
<1>1. Shape /\ GameOK(HostState, world[Host], JoinerStates) /\ j \in Slots /\ j # Host
  BY DEF LiveInv, Joiners
<1>2. conn[j] \in 0 .. MaxConn /\ JoinerStates[j].conn = conn[j]
  BY <1>1, JoinerStateIs DEF Shape
<1>3. /\ ConnOf(j) \in Conns /\ ConnOf(j) \in ConnsOf(j) /\ ConnOf(j) = Cur(j, JoinerStates[j])
  BY <1>2, CurConn DEF ConnOf, Cur
<1>4. DOMAIN up = Conns /\ DOMAIN down = Conns /\ line = [c \in Conns |-> line[c]]
  BY <1>1, HostStateIs DEF GameOK, Wired
<1>5. SeatOK(HostState, world[Host], j, JoinerStates[j])
  BY <1>1 DEF GameOK
<1>6. DownOK(session[Host], world[Host], down[ConnOf(j)])
  BY <1>3, <1>5, HostStateIs DEF SeatOK, ConnOK
<1>7. QED
  BY <1>1, <1>3, <1>4, <1>6

\* However it stops playing, and whatever it says as it does.
LEMMA Loses ==
  ASSUME LiveInv, NEW j \in Joiners, NEW why \in {"lost", "over"}, phase' = [phase EXCEPT ![j] = why],
         NEW a, IsList(a), \A i \in DOMAIN a : Parting(a[i]),
         up' = up \/ up' = SendUp(ConnOf(j), a),
         DOMAIN down' = Conns, \A c \in Conns \ {ConnOf(j)} : down'[c] = down[c],
         DownOK(session[Host], world[Host], down'[ConnOf(j)]),
         UNCHANGED <<session, world, waiting, pending, quiet, outbox, line, conn, issued, drifts>>
  PROVE  LiveInv'
<1> DEFINE h == HostState
           h2 == HostState'
           w == world[Host]
           k == ConnOf(j)
<1>1. /\ Shape /\ GameOK(h, w, JoinerStates) /\ j \in Slots /\ j # Host
      /\ k \in Conns /\ k = Cur(j, JoinerStates[j])
      /\ DOMAIN up = Conns /\ DOMAIN down = Conns /\ line = [c \in Conns |-> line[c]]
  BY JoinerLine
<1>2. /\ phase' \in [Joiners -> {"playing", "knocking", "lost", "over"}]
      /\ phase'[j] \in {"lost", "over"} /\ \A i \in Joiners \ {j} : phase'[i] = phase[i]
  BY <1>1 DEF Shape
<1>3. /\ DOMAIN up' = Conns /\ \A c \in Conns \ {k} : up'[c] = up[c]
      /\ up'[k] = up[k] \/ (line[k] # "gone" /\ up'[k] = Put(up[k], a))
  BY <1>1 DEF SendUp
<1>4. Only(j)
  BY <1>1, <1>2, <1>3 DEF Only, Shape
<1>5. /\ Wired(h2) /\ Same(h, h2) /\ h2.line = h.line
      /\ \A c \in Conns \ {k} : h2.up[c] = h.up[c] /\ h2.down[c] = h.down[c]
      /\ h2.up[k] = h.up[k] \/ (h.line[k] # "gone" /\ h2.up[k] = Put(h.up[k], a))
      /\ \A i \in Joiners : i # j => JoinerStates'[i] = JoinerStates[i]
      /\ DownOK(h.session, w, h2.down[k])
  BY <1>3, <1>4, OnlyIs, NextStates, HostStateIs
<1>6. /\ JoinerStates'[j].phase \in {"lost", "over"} /\ JoinerStates'[j].conn = JoinerStates[j].conn
      /\ JoinerStates'[j].session = JoinerStates[j].session
      /\ JoinerStates'[j].world = JoinerStates[j].world
      /\ JoinerStates'[j].pending = JoinerStates[j].pending
  BY <1>2, NextStates, JoinerStateIs
<1> HIDE DEF h, h2, w, k
<1>7. GameOK(h2, w, JoinerStates')
  BY <1>1, <1>5, <1>6, LostKept
<1>8. QED
  BY <1>4, <1>7, OnlyMoves DEF h2, w

\* What it says last, and a connection that is closed.
LEMMA Goodbyes ==
  /\ IsList(<<Fin>>) /\ \A i \in DOMAIN <<Fin>> : Parting(<<Fin>>[i])
  /\ IsList(<<Msg("Leaving"), Fin>>)
  /\ \A i \in DOMAIN <<Msg("Leaving"), Fin>> : Parting(<<Msg("Leaving"), Fin>>[i])
<1> DEFINE m == Msg("Leaving")
<1>1. Parting(Fin) /\ Parting(m)
  BY DEF Parting, Fin, Msg
<1> HIDE DEF m
<1>2. IsList(<<Fin>>) /\ \A i \in DOMAIN <<Fin>> : Parting(<<Fin>>[i])
  BY <1>1, OneMessage
<1>3. <<m, Fin>> \in Seq({m, Fin}) /\ \A i \in DOMAIN <<m, Fin>> : <<m, Fin>>[i] \in {m, Fin}
  OBVIOUS
<1>4. IsList(<<m, Fin>>)
  BY <1>3 DEF IsList
<1>5. QED
  BY <1>1, <1>2, <1>3, <1>4 DEF m

LEMMA FinDown ==
  ASSUME NEW S, NEW w
  PROVE  DownOK(S, w, <<Fin>>)
<1>1. IsList(<<Fin>>) /\ DOMAIN <<Fin>> = {1} /\ <<Fin>>[1] = Fin /\ Fin.type = "Fin"
  BY OneMessage DEF Fin, Msg
<1>2. DownGood(S, w, Fin)
  BY <1>1 DEF DownGood
<1>3. QED
  BY <1>1, <1>2 DEF DownOK

LEMMA JoinerGoesAway ==
  ASSUME LiveInv, NEW j \in Joiners, JoinerLeaves(j) \/ Crash(j)
  PROVE  LiveInv'
<1>1. DOMAIN down = Conns /\ ConnOf(j) \in Conns
  BY JoinerLine
<1>2. DownOK(session[Host], world[Host], <<Fin>>)
  BY FinDown
<1>3. CASE JoinerLeaves(j)
  <2>1. /\ phase' = [phase EXCEPT ![j] = "over"]
        /\ up' = SendUp(ConnOf(j), <<Msg("Leaving"), Fin>>)
        /\ down' = [down EXCEPT ![ConnOf(j)] = <<Fin>>]
        /\ UNCHANGED <<session, world, waiting, pending, quiet, outbox, line, conn, issued, drifts>>
    BY <1>3 DEF JoinerLeaves
  <2>2. /\ DOMAIN down' = Conns /\ \A c \in Conns \ {ConnOf(j)} : down'[c] = down[c]
        /\ down'[ConnOf(j)] = <<Fin>>
    BY <1>1, <2>1
  <2>3. "over" \in {"lost", "over"} /\ DownOK(session[Host], world[Host], down'[ConnOf(j)])
    BY <1>2, <2>2
  <2>4. QED
    BY <2>1, <2>2, <2>3, Goodbyes, Loses
<1>4. CASE Crash(j)
  <2>1. /\ phase' = [phase EXCEPT ![j] = "lost"]
        /\ up' = SendUp(ConnOf(j), <<Fin>>)
        /\ down' = [down EXCEPT ![ConnOf(j)] = <<Fin>>]
        /\ UNCHANGED <<session, world, waiting, pending, quiet, outbox, line, conn, issued, drifts>>
    BY <1>4 DEF Crash
  <2>2. /\ DOMAIN down' = Conns /\ \A c \in Conns \ {ConnOf(j)} : down'[c] = down[c]
        /\ down'[ConnOf(j)] = <<Fin>>
    BY <1>1, <2>1
  <2>3. "lost" \in {"lost", "over"} /\ DownOK(session[Host], world[Host], down'[ConnOf(j)])
    BY <1>2, <2>2
  <2>4. QED
    BY <2>1, <2>2, <2>3, Goodbyes, Loses
<1>5. QED
  BY <1>3, <1>4

\* A joiner that knocks hears the host, but for its answer.
LEMMA JoinerListens ==
  ASSUME LiveInv, NEW j \in Joiners, JoinerHears(j)
  PROVE  LiveInv'
<1> DEFINE q == down[ConnOf(j)]
           refused == Is(q, "NoSeat")
<1>1. /\ phase[j] = "knocking" /\ q # <<>>
      /\ phase' = [phase EXCEPT ![j] =
                     IF Is(q, "NoSeat") /\ Head(q).why = "Retired" THEN "over"
                     ELSE IF Is(q, "NoSeat") \/ q = <<Fin>> THEN "lost" ELSE @]
      /\ up' = IF refused THEN SendUp(ConnOf(j), <<Fin>>) ELSE up
      /\ down' = IF q = <<Fin>> THEN down ELSE Read(ConnOf(j))
      /\ UNCHANGED <<session, world, waiting, pending, quiet, outbox, line, conn, issued, drifts>>
  BY DEF JoinerHears
<1>2. /\ Shape /\ GameOK(HostState, world[Host], JoinerStates) /\ j \in Slots /\ j # Host
      /\ ConnOf(j) \in Conns /\ ConnOf(j) = Cur(j, JoinerStates[j])
      /\ DOMAIN up = Conns /\ DOMAIN down = Conns /\ line = [c \in Conns |-> line[c]]
      /\ DownOK(session[Host], world[Host], q)
  BY JoinerLine
<1>3. DownOK(session[Host], world[Host], Tail(q))
  BY <1>1, <1>2, DownTail
<1>4. /\ DOMAIN down' = Conns /\ \A c \in Conns \ {ConnOf(j)} : down'[c] = down[c]
      /\ down'[ConnOf(j)] = IF q = <<Fin>> THEN q ELSE Tail(q)
  BY <1>1, <1>2 DEF Read
<1>5. DownOK(session[Host], world[Host], down'[ConnOf(j)])
  BY <1>2, <1>3, <1>4
<1>6. CASE refused \/ q = <<Fin>>
  <2> DEFINE why == IF refused /\ Head(q).why = "Retired" THEN "over" ELSE "lost"
  <2>1. why \in {"lost", "over"} /\ phase' = [phase EXCEPT ![j] = why]
    BY <1>1, <1>6
  <2>2. up' = up \/ up' = SendUp(ConnOf(j), <<Fin>>)
    BY <1>1
  <2> HIDE DEF why, q
  <2>3. QED
    BY <1>1, <1>4, <1>5, <2>1, <2>2, Goodbyes, Loses
<1>7. CASE ~refused /\ q # <<Fin>>
  <2> DEFINE h == HostState
             h2 == HostState'
             w == world[Host]
  <2>1. up' = up /\ \A i \in Joiners : phase'[i] = phase[i]
    BY <1>1, <1>2, <1>7 DEF Shape
  <2>2. phase' \in [Joiners -> {"playing", "knocking", "lost", "over"}]
    BY <1>1, <1>2, <1>7, <2>1 DEF Shape
  <2>3. Only(j)
    BY <1>1, <1>2, <1>4, <2>1, <2>2 DEF Only, Shape
  <2>4. /\ Wired(h2) /\ Same(h, h2) /\ h2.line = h.line /\ h2.up = h.up
        /\ \A c \in Conns \ {ConnOf(j)} : h2.down[c] = h.down[c]
        /\ h2.down[ConnOf(j)] = Tail(h.down[ConnOf(j)]) /\ h.down[ConnOf(j)] # <<>>
    BY <1>1, <1>4, <1>7, <2>1, <2>3, OnlyIs, NextStates, HostStateIs
  <2>5. JoinerStates[j].phase = "knocking"
    BY <1>1, JoinerStateIs
  <2>6. /\ session'[Host] = h2.session /\ waiting'[Host] = h2.waiting /\ quiet' = h2.quiet
        /\ outbox' = h2.outbox /\ line' = h2.line /\ up' = h2.up /\ down' = h2.down
    BY NextStates
  <2>7. \A i \in Joiners : Joiner(i)' = JoinerStates[i]
    BY <1>1, <2>1, JoinerStateIs DEF Joiner
  <2>8. world'[Host] = w /\ Shape'
    BY <2>3, OnlyIs
  <2> HIDE DEF h, h2, w
  <2>9. GameOK(h, w, JoinerStates)
    BY <1>2 DEF h, w
  <2> DEFINE k == ConnOf(j)
  <2>10. /\ k = Cur(j, JoinerStates[j]) /\ h.down[k] # <<>> /\ h2.down[k] = Tail(h.down[k])
         /\ \A c \in Conns \ {k} : h2.down[c] = h.down[c]
    BY <1>2, <2>4
  <2> HIDE DEF k
  <2>11. GameOK(h2, w, JoinerStates)
    BY <2>4, <2>5, <2>9, <2>10, HearsKept
  <2>12. QED
    BY <2>6, <2>7, <2>8, <2>11, InvNext
<1>8. QED
  BY <1>6, <1>7

\* A joiner knocks on a new connection, with nothing of the game it had.
LEMMA JoinerComesBack ==
  ASSUME LiveInv, NEW j \in Joiners, NEW a \in {<<Fin>>, <<Msg("Leaving"), Fin>>}, JoinerKnocks(j, a)
  PROVE  LiveInv'
<1> DEFINE h == HostState
           h2 == HostState'
           w == world[Host]
           k == ConnOf(j)
           new == <<j, conn[j] + 1>>
<1>1. /\ phase[j] = "lost" /\ conn[j] < MaxConn
      /\ conn' = [conn EXCEPT ![j] = @ + 1]
      /\ line' = [line EXCEPT ![new] = "connecting"]
      /\ up' = [SendUp(k, a) EXCEPT ![new] = <<Msg("Join")>>]
      /\ down' = [down EXCEPT ![k] = <<Fin>>]
      /\ phase' = [phase EXCEPT ![j] = "knocking"]
      /\ session' = [session EXCEPT ![j] = NewSession(j, Host)]
      /\ world' = [world EXCEPT ![j] = <<>>]
      /\ waiting' = [waiting EXCEPT ![j] = {}]
      /\ pending' = [pending EXCEPT ![j] = NoResync]
      /\ UNCHANGED <<quiet, outbox, issued, drifts>>
  BY DEF JoinerKnocks
<1>2. /\ Shape /\ GameOK(h, w, JoinerStates) /\ j \in Slots /\ j # Host
      /\ k \in Conns /\ k = Cur(j, JoinerStates[j])
      /\ DOMAIN up = Conns /\ DOMAIN down = Conns /\ line = [c \in Conns |-> line[c]]
  BY JoinerLine
<1>3. conn[j] \in 0 .. MaxConn /\ conn[j] + 1 \in 0 .. MaxConn /\ MaxConn \in Nat
  BY <1>1, <1>2, LiveAssumption DEF Shape
<1>4. new \in Conns /\ new # k
  <2>1. new \in Conns
    BY <1>3 DEF Conns
  <2>2. new[2] = conn[j] + 1 /\ k[2] = conn[j]
    BY DEF ConnOf
  <2>3. QED
    BY <1>3, <2>1, <2>2
<1>5. /\ conn' \in [Joiners -> 0 .. MaxConn] /\ conn'[j] = conn[j] + 1
      /\ \A i \in Joiners \ {j} : conn'[i] = conn[i]
  BY <1>1, <1>2, <1>3 DEF Shape
<1>6. /\ phase' \in [Joiners -> {"playing", "knocking", "lost", "over"}] /\ phase'[j] = "knocking"
      /\ \A i \in Joiners \ {j} : phase'[i] = phase[i]
  BY <1>1, <1>2 DEF Shape
<1>7. /\ DOMAIN session' = Slots /\ session'[j] = NewSession(j, Host)
      /\ \A i \in Slots \ {j} : session'[i] = session[i]
      /\ DOMAIN world' = Slots /\ world'[j] = <<>> /\ \A i \in Slots \ {j} : world'[i] = world[i]
      /\ DOMAIN pending' = Joiners /\ pending'[j] = NoResync
      /\ \A i \in Joiners \ {j} : pending'[i] = pending[i]
  BY <1>1, <1>2 DEF Shape
<1>8. waiting' \in [Slots -> SUBSET Joiners] /\ waiting'[Host] = waiting[Host]
  <2>1. Host \in Slots
    BY LiveAssumption
  <2>2. QED
    BY <1>1, <1>2, <2>1 DEF Shape
<1> HIDE DEF k, new
<1>9. /\ line' = [c \in Conns |-> line'[c]] /\ line'[new] = "connecting"
      /\ \A c \in Conns \ {new} : line'[c] = line[c]
  BY <1>1, <1>2, <1>4
<1>10. /\ DOMAIN down' = Conns /\ down'[k] = <<Fin>>
       /\ \A c \in Conns \ {k} : down'[c] = down[c]
  BY <1>1, <1>2
<1>11. /\ DOMAIN up' = Conns /\ up'[new] = <<Msg("Join")>>
       /\ \A c \in Conns \ {k, new} : up'[c] = up[c]
       /\ up'[k] = up[k] \/ (line[k] # "gone" /\ up'[k] = Put(up[k], a))
  <2> DEFINE sent == SendUp(k, a)
  <2>1. /\ DOMAIN sent = Conns /\ \A c \in Conns \ {k} : sent[c] = up[c]
        /\ sent[k] = up[k] \/ (line[k] # "gone" /\ sent[k] = Put(up[k], a))
    BY <1>2 DEF SendUp
  <2>2. up' = [sent EXCEPT ![new] = <<Msg("Join")>>]
    BY <1>1
  <2> HIDE DEF sent
  <2>3. QED
    BY <1>2, <1>4, <2>1, <2>2
<1>12. issued' \subseteq Orders /\ drifts' \in 0 .. MaxDrift /\ quiet' = quiet /\ outbox' = outbox
  BY <1>1, <1>2 DEF Shape
<1>13. Only(j)
  BY <1>5, <1>6, <1>7, <1>8, <1>9, <1>10, <1>11, <1>12 DEF Only
<1>14. /\ Wired(h2) /\ Same(h, h2)
       /\ \A i \in Joiners : i # j => JoinerStates'[i] = JoinerStates[i]
  BY <1>13, OnlyIs
<1>15. /\ \A c \in Conns \ {k, new} :
            h2.line[c] = h.line[c] /\ h2.up[c] = h.up[c] /\ h2.down[c] = h.down[c]
       /\ h2.line[k] = h.line[k] /\ h2.down[k] = <<Fin>>
       /\ h2.up[k] = h.up[k] \/ (h.line[k] # "gone" /\ h2.up[k] = Put(h.up[k], a))
       /\ h2.line[new] = "connecting" /\ h2.up[new] = <<Msg("Join")>> /\ h2.down[new] = h.down[new]
  BY <1>2, <1>4, <1>9, <1>10, <1>11, NextStates, HostStateIs
<1>16. /\ JoinerStates[j].phase = "lost" /\ JoinerStates[j].conn < MaxConn
       /\ new = <<j, JoinerStates[j].conn + 1>>
       /\ JoinerStates'[j].phase = "knocking"
       /\ JoinerStates'[j].conn = JoinerStates[j].conn + 1
       /\ JoinerStates'[j].world = <<>> /\ JoinerStates'[j].pending = NoResync
       /\ JoinerStates'[j].session = NewSession(j, Host)
  BY <1>1, <1>5, <1>6, <1>7, NextStates, JoinerStateIs DEF new
<1>17. IsList(a) /\ \A i \in DOMAIN a : Parting(a[i])
  BY Goodbyes
<1> DEFINE J == JoinerStates
           J2 == JoinerStates'
<1>18. /\ GameOK(h, w, J) /\ J[j].phase = "lost" /\ J[j].conn < MaxConn
       /\ k = Cur(j, J[j]) /\ new = <<j, J[j].conn + 1>>
       /\ \A i \in Joiners : i # j => J2[i] = J[i]
       /\ J2[j].phase = "knocking" /\ J2[j].conn = J[j].conn + 1 /\ J2[j].world = <<>>
       /\ J2[j].pending = NoResync /\ J2[j].session = NewSession(j, Host)
  BY <1>2, <1>14, <1>16
<1> HIDE DEF h, h2, w, J, J2
<1>19. GameOK(h2, w, J2)
  BY SMTT(60), <1>14, <1>15, <1>17, <1>18, KnocksKept
<1>20. QED
  BY <1>13, <1>19, OnlyMoves DEF h2, w, J2

\* The host's answer: the game as the host has run it.
LEMMA JoinerIsSeated ==
  ASSUME LiveInv, NEW j \in Joiners, JoinerRejoins(j)
  PROVE  LiveInv'
<1> DEFINE h == HostState
           h2 == HostState'
           w == world[Host]
           k == ConnOf(j)
           m == Head(down[k])
<1>1. /\ phase[j] = "knocking" /\ down[k] # <<>> /\ m.type = "Rejoin"
      /\ session' = [session EXCEPT ![j] = Rejoin(j, Host, m.retired, m.next, m.world)]
      /\ world' = [world EXCEPT ![j] = m.world]
      /\ phase' = [phase EXCEPT ![j] = "playing"] /\ down' = Read(k)
      /\ UNCHANGED <<waiting, pending, quiet, outbox, line, up, conn, issued, drifts>>
  BY DEF JoinerRejoins, Is
<1>2. /\ Shape /\ GameOK(h, w, JoinerStates) /\ j \in Slots /\ j # Host
      /\ k \in Conns /\ k = Cur(j, JoinerStates[j])
      /\ DOMAIN up = Conns /\ DOMAIN down = Conns /\ line = [c \in Conns |-> line[c]]
  BY JoinerLine
<1> DEFINE s1 == Rejoin(j, Host, m.retired, m.next, m.world)
<1>3. s1 = Rejoin(j, Host, m.retired, m.next, m.world) /\ m = Head(down[k])
      /\ session' = [session EXCEPT ![j] = s1]
  BY <1>1
<1> HIDE DEF s1, m
<1>4. /\ DOMAIN session' = Slots /\ session'[j] = s1
      /\ \A i \in Slots \ {j} : session'[i] = session[i]
      /\ DOMAIN world' = Slots /\ world'[j] = m.world /\ \A i \in Slots \ {j} : world'[i] = world[i]
  BY <1>1, <1>2, <1>3 DEF Shape
<1>5. /\ phase' \in [Joiners -> {"playing", "knocking", "lost", "over"}] /\ phase'[j] = "playing"
      /\ \A i \in Joiners \ {j} : phase'[i] = phase[i]
  BY <1>1, <1>2 DEF Shape
<1>6. /\ DOMAIN down' = Conns /\ down'[k] = Tail(down[k])
      /\ \A c \in Conns \ {k} : down'[c] = down[c]
  BY <1>1, <1>2 DEF Read
<1>7. Only(j)
  BY <1>1, <1>2, <1>4, <1>5, <1>6 DEF Only, Shape
<1>8. /\ Wired(h2) /\ Same(h, h2) /\ h2.line = h.line /\ h2.up = h.up
      /\ \A i \in Joiners : i # j => JoinerStates'[i] = JoinerStates[i]
      /\ h.down[k] # <<>> /\ m = Head(h.down[k]) /\ h2.down[k] = Tail(h.down[k])
      /\ \A c \in Conns \ {k} : h2.down[c] = h.down[c]
  BY <1>1, <1>3, <1>6, <1>7, OnlyIs, NextStates, HostStateIs
<1>9. /\ JoinerStates[j].phase = "knocking"
      /\ JoinerStates'[j].phase = "playing" /\ JoinerStates'[j].conn = JoinerStates[j].conn
      /\ JoinerStates'[j].pending = JoinerStates[j].pending
      /\ JoinerStates'[j].session = Rejoin(j, Host, m.retired, m.next, m.world)
      /\ JoinerStates'[j].world = m.world
  BY <1>1, <1>3, <1>4, <1>5, NextStates, JoinerStateIs
<1> HIDE DEF h, h2, w, k
<1>10. GameOK(h2, w, JoinerStates')
  BY <1>1, <1>2, <1>8, <1>9, RejoinsKept
<1>11. QED
  BY <1>7, <1>10, OnlyMoves DEF h2, w

(***************************************************************************)
(* What befalls the game.                                                  *)
(***************************************************************************)
LEMMA ConnBreaks ==
  ASSUME LiveInv, NEW c \in Conns, Break(c)
  PROVE  LiveInv'
<1> DEFINE h == HostState
           h2 == HostState'
           w == world[Host]
<1>1. /\ line[c] \notin {"none", "gone"}
      /\ UNCHANGED <<session, world, waiting, pending, quiet, outbox, line, phase, conn, issued, drifts>>
  BY DEF Break
<1>2. PICK heard \in Lossy(up[c]), told \in Lossy(down[c]) :
        up' = [up EXCEPT ![c] = heard] /\ down' = [down EXCEPT ![c] = told]
  BY DEF Break
<1>3. Shape /\ GameOK(h, w, JoinerStates) /\ Wired(h)
  BY DEF LiveInv, GameOK
<1>4. DOMAIN up = Conns /\ DOMAIN down = Conns /\ line = [d \in Conns |-> line[d]]
  BY <1>3, HostStateIs DEF Wired
<1>5. /\ up'[c] = heard /\ down'[c] = told /\ DOMAIN up' = Conns /\ DOMAIN down' = Conns
      /\ \A d \in Conns \ {c} : up'[d] = up[d] /\ down'[d] = down[d]
  BY <1>2, <1>4
<1>6. Wired(h2)
  BY <1>1, <1>4, <1>5, NextStates DEF Wired
<1>7. Same(h, h2) /\ h2.line = h.line
  BY <1>1, NextStates, HostStateIs DEF Same
<1>8. /\ h2.up[c] \in Lossy(h.up[c]) /\ h2.down[c] \in Lossy(h.down[c])
      /\ \A d \in Conns \ {c} : h2.up[d] = h.up[d] /\ h2.down[d] = h.down[d]
      /\ h.line[c] \notin {"none", "gone"}
  BY <1>1, <1>2, <1>5, NextStates, HostStateIs
<1>9. /\ session'[Host] = h2.session /\ waiting'[Host] = h2.waiting /\ quiet' = h2.quiet
      /\ outbox' = h2.outbox /\ line' = h2.line /\ up' = h2.up /\ down' = h2.down
  BY NextStates
<1>10. Shape' /\ world'[Host] = w
  BY <1>1, <1>3 DEF Shape
<1>11. \A i \in Joiners : Joiner(i)' = JoinerStates[i]
  BY <1>1, JoinerStateIs DEF Joiner
<1> HIDE DEF h, h2, w
<1>12. GameOK(h2, w, JoinerStates)
  BY <1>3, <1>6, <1>7, <1>8, BreakKept
<1>13. QED
  BY <1>9, <1>10, <1>11, <1>12, InvNext

LEMMA WorldDrifts ==
  ASSUME LiveInv, NEW s \in Slots, Drift(s)
  PROVE  LiveInv'
<1> DEFINE h == HostState
           h2 == HostState'
           w == world[Host]
           w2 == [world[s] EXCEPT ![Len(world[s])] = Append(@, Glitch)]
<1>1. /\ drifts < MaxDrift /\ Len(world[s]) \in 1 .. DriftBy
      /\ world' = [world EXCEPT ![s] = w2] /\ drifts' = drifts + 1
      /\ UNCHANGED <<session, waiting, pending, quiet, outbox, line, up, down, phase, conn, issued>>
  BY DEF Drift
<1>2. Shape /\ GameOK(h, w, JoinerStates) /\ Wired(h) /\ Host \in Slots
  BY LiveAssumption DEF LiveInv, GameOK
<1>3. /\ DOMAIN world' = Slots /\ world'[s] = w2 /\ \A i \in Slots \ {s} : world'[i] = world[i]
  BY <1>1, <1>2 DEF Shape
<1>4. Shape'
  <2>1. drifts' \in 0 .. MaxDrift
    BY <1>1, <1>2, LiveAssumption DEF Shape
  <2>2. QED
    BY <1>1, <1>2, <1>3, <2>1 DEF Shape
<1>5. w2 = [world[s] EXCEPT ![Len(world[s])] = Append(@, Glitch)]
  OBVIOUS
<1> HIDE DEF w2
<1>6. HostOK(h.session, w) /\ h.session = session[Host]
  BY <1>2, HostStateIs DEF GameOK
<1>7. CASE s = Host
  <2>1. session[Host].tick \in Nat /\ WorldOK(w, session[Host].tick)
    BY <1>6 DEF HostOK, TrueWorld, Sound
  <2>2. Drifted(w, w2, h.session.tick)
    BY <1>1, <1>5, <1>6, <1>7, <2>1, DriftIs
  <2>3. GameOK(h, w2, JoinerStates)
    BY <1>2, <2>2, HostDrifts
  <2>4. world'[Host] = w2
    BY <1>3, <1>7
  <2>5. /\ session'[Host] = h.session /\ waiting'[Host] = h.waiting /\ quiet' = h.quiet
        /\ outbox' = h.outbox /\ line' = h.line /\ up' = h.up /\ down' = h.down
    BY <1>1, HostStateIs
  <2>6. \A i \in Joiners : Joiner(i)' = JoinerStates[i]
    <3>1. \A i \in Joiners : i \in Slots \ {s}
      BY <1>7 DEF Joiners
    <3>2. QED
      BY <1>1, <1>3, <3>1, JoinerStateIs DEF Joiner
  <2> HIDE DEF h
  <2>7. GameOK(h, world'[Host], JoinerStates)
    BY <2>3, <2>4
  <2>8. QED
    BY <1>4, <2>5, <2>6, <2>7, InvNext
<1>8. CASE s # Host
  <2>1. s \in Joiners
    BY <1>8 DEF Joiners
  <2> DEFINE v == JoinerStates[s]
  <2>2. v.session = session[s] /\ v.world = world[s] /\ SeatOK(h, w, s, v)
    BY <1>2, <2>1, JoinerStateIs DEF GameOK
  <2>3. session[s].tick \in Nat /\ WorldOK(world[s], session[s].tick)
    BY <2>2 DEF SeatOK, AlwaysOK, Sound
  <2>4. Drifted(world[s], w2, session[s].tick)
    BY <1>1, <1>5, <2>3, DriftIs
  <2>5. \A i \in Joiners : i # s => JoinerStates'[i] = JoinerStates[i]
    <3>1. \A i \in Joiners : i # s => i \in Slots \ {s}
      BY DEF Joiners
    <3>2. QED
      BY <1>1, <1>3, <3>1, JoinerStateIs, NextStates DEF Joiner
  <2>6. /\ JoinerStates'[s].session = JoinerStates[s].session
        /\ JoinerStates'[s].pending = JoinerStates[s].pending
        /\ JoinerStates'[s].phase = JoinerStates[s].phase
        /\ JoinerStates'[s].conn = JoinerStates[s].conn
        /\ JoinerStates'[s].world = w2 /\ JoinerStates[s].world = world[s]
        /\ JoinerStates[s].session = session[s]
    BY <1>1, <1>3, <2>1, NextStates, JoinerStateIs
  <2>7. Drifted(JoinerStates[s].world, JoinerStates'[s].world, JoinerStates[s].session.tick)
    BY <2>4, <2>6
  <2>8. GameOK(h, w, JoinerStates')
    BY <1>2, <2>1, <2>5, <2>6, <2>7, JoinerDrifts
  <2>9. world'[Host] = w
    BY <1>2, <1>3, <1>8
  <2>10. /\ session'[Host] = h.session /\ waiting'[Host] = h.waiting /\ quiet' = h.quiet
         /\ outbox' = h.outbox /\ line' = h.line /\ up' = h.up /\ down' = h.down
    BY <1>1, HostStateIs
  <2>11. \A i \in Joiners : Joiner(i)' = JoinerStates'[i]
    BY NextStates
  <2> HIDE DEF h, w
  <2>12. GameOK(h, world'[Host], JoinerStates')
    BY <2>8, <2>9
  <2>13. QED
    BY <1>4, <2>10, <2>11, <2>12, InvNext
<1>9. QED
  BY <1>7, <1>8

(***************************************************************************)
(* Every step of the game.                                                 *)
(***************************************************************************)
LEMMA LiveStutters ==
  ASSUME LiveInv, UNCHANGED vars
  PROVE  LiveInv'
<1>1. UNCHANGED <<session, world, waiting, pending, quiet, outbox, line, up, down, phase, conn,
                  issued, drifts>>
  BY DEF vars
<1>2. Shape' /\ GameOK(HostState, world'[Host], JoinerStates)
  BY <1>1 DEF LiveInv, Shape
<1>3. /\ session'[Host] = HostState.session /\ waiting'[Host] = HostState.waiting
      /\ quiet' = HostState.quiet /\ outbox' = HostState.outbox
      /\ line' = HostState.line /\ up' = HostState.up /\ down' = HostState.down
  BY <1>1, HostStateIs
<1>4. \A j \in Joiners : Joiner(j)' = JoinerStates[j]
  BY <1>1 DEF Joiner, JoinerStates
<1>5. QED
  BY <1>2, <1>3, <1>4, InvNext

LEMMA ConnSteps ==
  ASSUME LiveInv, NEW c \in Conns, HostSteps(c) \/ Break(c)
  PROVE  LiveInv'
BY HostTicks, HostKnocks, HostLosesOne, HostIsTold, HostDrops, ConnBreaks DEF HostSteps

LEMMA JoinerSteps ==
  ASSUME LiveInv, NEW j \in Joiners,
         JoinerRuns(j) \/ JoinerTimeout(j) \/ JoinerLeaves(j) \/ JoinerReturns(j) \/ Crash(j)
  PROVE  LiveInv'
<1>1. CASE JoinerRuns(j)
  BY <1>1, JoinerSeals, HearsTick, HearsHalt, HearsResyncAt, HearsResync, HearsRetire, HearsAway,
     HearsBack, JoinerLosesHost, JoinerRunsOn, JoinerAdopts DEF JoinerRuns, JoinerHearsHost
<1>2. CASE JoinerReturns(j)
  BY <1>2, JoinerComesBack, JoinerIsSeated, JoinerListens DEF JoinerReturns
<1>3. QED
  BY <1>1, <1>2, JoinerTimesOut, JoinerGoesAway

LEMMA LiveSteps ==
  ASSUME LiveInv, OneKnock, [Next]_vars
  PROVE  LiveInv'
<1>1. CASE HostRuns \/ HostQuiet \/ HostTimeout \/ HostLeaves
  BY <1>1, HostSeals, HostAccepts, HostRunsOn, HostResyncs, HostWaits, HostTimesOut, HostGoes
  DEF HostRuns
<1>2. CASE \E c \in Conns : HostSteps(c) \/ Break(c)
  BY <1>2, ConnSteps
<1>3. CASE \E orders \in Ordered, plays \in BOOLEAN : HostPump(orders, plays)
  BY <1>3, HostPumps
<1>4. CASE \E j \in Joiners :
             JoinerRuns(j) \/ JoinerTimeout(j) \/ JoinerLeaves(j) \/ JoinerReturns(j) \/ Crash(j)
  BY <1>4, JoinerSteps
<1>5. CASE \E j \in Joiners, orders \in Ordered : JoinerPump(j, orders)
  BY <1>5, JoinerPumps
<1>6. CASE \E s \in Slots : Drift(s)
  BY <1>6, WorldDrifts
<1>7. CASE UNCHANGED vars
  BY <1>7, LiveStutters
<1>8. QED
  BY <1>1, <1>2, <1>3, <1>4, <1>5, <1>6, <1>7 DEF Next

(***************************************************************************)
(* What the invariant shows.                                               *)
(***************************************************************************)
LEMMA LiveTypes == LiveInv => TypeOK
<1> HAVE LiveInv
<1> DEFINE h == HostState
<1>1. Shape /\ GameOK(h, world[Host], JoinerStates) /\ h.session = session[Host] /\ h.line = line
      /\ h.quiet = quiet
  BY HostStateIs DEF LiveInv
<1>2. Host \in Slots /\ Joiners \subseteq Slots /\ \A s \in Slots : s = Host \/ s \in Joiners
  BY LiveAssumption DEF Joiners
<1> HIDE DEF h
<1>3. ASSUME NEW s \in Slots
      PROVE  session[s].tick \in 0 .. MaxTick /\ Len(world[s]) = session[s].tick
  <2>1. CASE s = Host
    <3>1. HostOK(session[Host], world[Host])
      BY <1>1 DEF GameOK
    <3>2. /\ session[Host].tick \in Nat /\ session[Host].tick <= MaxTick
          /\ Len(world[Host]) = session[Host].tick
      BY <3>1 DEF HostOK, Sound, TrueWorld, WorldOK
    <3>3. QED
      BY <2>1, <3>2, LiveAssumption
  <2>2. CASE s \in Joiners
    <3>1. AlwaysOK(h.session, world[Host], s, JoinerStates[s])
      BY <1>1, <2>2 DEF GameOK, SeatOK
    <3>2. /\ session[s].tick \in Nat /\ session[s].tick <= MaxTick
          /\ Len(world[s]) = session[s].tick
      BY <2>2, <3>1, JoinerStateIs DEF AlwaysOK, Sound, WorldOK
    <3>3. QED
      BY <3>2, LiveAssumption
  <2>3. QED
    BY <1>2, <2>1, <2>2
<1>4. line \in [Conns -> {"none", "connecting", "accepted", "stranger", "rejoining",
                          "seated", "gone"}]
  <2>1. line = [c \in Conns |-> line[c]]
    BY <1>1 DEF GameOK, Wired
  <2>2. ASSUME NEW c \in Conns
        PROVE  line[c] \in {"none", "connecting", "accepted", "stranger", "rejoining",
                            "seated", "gone"}
    <3>1. SlotOf(c) \in Joiners /\ c \in ConnsOf(SlotOf(c))
      BY DEF Conns, ConnsOf, SlotOf
    <3>2. ConnOK(h, world[Host], SlotOf(c), JoinerStates[SlotOf(c)], c)
      BY <1>1, <3>1 DEF GameOK, SeatOK
    <3>3. QED
      BY <1>1, <3>2 DEF ConnOK
  <2>3. QED
    BY <2>1, <2>2
<1>5. quiet \subseteq Slots
  BY <1>1, <1>2 DEF GameOK
<1>6. waiting \in [Slots -> SUBSET Joiners]
  BY <1>1 DEF Shape
<1>7. QED
  BY <1>1, <1>3, <1>4, <1>5, <1>6 DEF TypeOK, Shape

\* What a joiner in the game has run of a tick, once the host knows what it said for it.
LEMMA JoinerRan ==
  ASSUME LiveInv, NEW j \in Joiners, j \in InGame, NEW t \in Nat, t < session[j].tick,
         HasSaid(session[Host], j, t)
  PROVE  Commanded(world[j][t + 1]) = OrderOf(AllSaid(session[Host], world[Host], t))
<1> DEFINE S == session[Host]
           w == world[Host]
           v == JoinerStates[j]
           k == ConnOf(j)
<1>1. phase[j] = "playing" /\ S.retired[j] = None /\ j \in Slots
  BY LiveAssumption DEF InGame, Joiners
<1>2. /\ SeatOK(HostState, w, j, v) /\ HostState.session = S
      /\ v.phase = "playing" /\ v.session = session[j] /\ v.world = world[j]
  BY <1>1, JoinerPlays
<1>3. SaysOK(S, w, j, v, HostState.line[Cur(j, v)], HostState.up[Cur(j, v)])
  BY <1>1, <1>2 DEF SeatOK, FreeOK
<1>4. OwnIs(S, w, j, v, t, Said(S, w, j, t))
  BY <1>3 DEF SaysOK
<1>5. Commanded(world[j][t + 1]) = OrderOf(With(S, w, j, t, Said(S, w, j, t)))
  BY <1>2, <1>4 DEF OwnIs
<1>6. With(S, w, j, t, Said(S, w, j, t)) = AllSaid(S, w, t)
  BY <1>1 DEF With, AllSaid
<1>7. QED
  BY <1>5, <1>6

LEMMA LiveAgrees == LiveInv => CommandsAgree
<1> HAVE LiveInv
<1> DEFINE S == session[Host]
           w == world[Host]
<1>1. TypeOK
  BY LiveTypes
<1>2. HostOK(S, w)
  BY HostStateIs DEF LiveInv, GameOK
<1>3. S.tick \in Nat /\ WorldOK(w, S.tick)
      /\ \A t \in Nat : t < S.tick => Commanded(w[t + 1]) = OrderOf(AllSaid(S, w, t))
  BY <1>2 DEF HostOK, Sound, TrueWorld
<1>4. \A s \in Slots : s = Host \/ s \in Joiners
  BY DEF Joiners
<1>5. ASSUME NEW j \in Joiners, j \in InGame
      PROVE  /\ session[j].tick \in Nat /\ WorldOK(world[j], session[j].tick)
             /\ S.retired[j] = None
             /\ \A x \in Slots, t \in Nat : x # j /\ t < session[j].tick => Settled(S, x, t)
  <2>1. phase[j] = "playing" /\ S.retired[j] = None
    BY <1>5, LiveAssumption DEF InGame, Joiners
  <2>2. /\ SeatOK(HostState, w, j, JoinerStates[j]) /\ HostState.session = S
        /\ JoinerStates[j].phase = "playing" /\ JoinerStates[j].session = session[j]
        /\ JoinerStates[j].world = world[j]
    BY <2>1, JoinerPlays
  <2>3. /\ AlwaysOK(S, w, j, JoinerStates[j]) /\ HeardOK(S, w, j, JoinerStates[j])
    BY <2>2 DEF SeatOK, PlayOK
  <2>4. QED
    BY <2>1, <2>2, <2>3 DEF AlwaysOK, HeardOK, Sound
<1>6. ASSUME NEW j \in Joiners, j \in InGame, NEW i \in DOMAIN world[j] \cap DOMAIN w
      PROVE  Commanded(world[j][i]) = Commanded(w[i])
  <2> DEFINE t == i - 1
  <2>1. i \in 1 .. session[j].tick /\ i \in 1 .. S.tick
    BY <1>3, <1>5, <1>6, ListDomain DEF WorldOK
  <2>2. t \in Nat /\ t < session[j].tick /\ t < S.tick /\ t + 1 = i
    BY <1>3, <1>5, <1>6, <2>1
  <2> HIDE DEF t
  <2>3. HasSaid(S, j, t)
    BY <2>2 DEF HasSaid
  <2>4. Commanded(world[j][t + 1]) = OrderOf(AllSaid(S, w, t))
    BY <1>6, <2>2, <2>3, JoinerRan
  <2>5. Commanded(w[t + 1]) = OrderOf(AllSaid(S, w, t))
    BY <1>3, <2>2
  <2>6. QED
    BY <2>2, <2>4, <2>5
<1>7. ASSUME NEW a \in Joiners, a \in InGame, NEW b \in Joiners, b \in InGame, a # b,
             NEW i \in DOMAIN world[a] \cap DOMAIN world[b]
      PROVE  Commanded(world[a][i]) = Commanded(world[b][i])
  <2> DEFINE t == i - 1
  <2>1. i \in 1 .. session[a].tick /\ i \in 1 .. session[b].tick
    BY <1>5, <1>7, ListDomain DEF WorldOK
  <2>2. t \in Nat /\ t < session[a].tick /\ t < session[b].tick /\ t + 1 = i
    BY <1>5, <1>7, <2>1
  <2> HIDE DEF t
  <2>3. a \in Slots /\ b \in Slots
    BY DEF Joiners
  <2>4. HasSaid(S, a, t) /\ HasSaid(S, b, t)
    BY <1>5, <1>7, <2>2, <2>3 DEF Settled
  <2>5. Commanded(world[a][t + 1]) = OrderOf(AllSaid(S, w, t))
    BY <1>7, <2>2, <2>4, JoinerRan
  <2>6. Commanded(world[b][t + 1]) = OrderOf(AllSaid(S, w, t))
    BY <1>7, <2>2, <2>4, JoinerRan
  <2>7. QED
    BY <2>2, <2>5, <2>6
<1>8. ASSUME NEW a \in InGame, NEW b \in InGame, NEW i \in DOMAIN world[a] \cap DOMAIN world[b]
      PROVE  Commanded(world[a][i]) = Commanded(world[b][i])
  <2>1. a \in Slots /\ b \in Slots
    BY DEF InGame
  <2>2. CASE a = b
    BY <2>2
  <2>3. CASE a # b /\ a \in Joiners /\ b \in Joiners
    BY <1>7, <1>8, <2>3
  <2>4. CASE a = Host /\ b \in Joiners
    BY <1>6, <1>8, <2>4
  <2>5. CASE b = Host /\ a \in Joiners
    BY <1>6, <1>8, <2>5
  <2>6. QED
    BY <1>4, <2>1, <2>2, <2>3, <2>4, <2>5
<1>9. QED
  BY <1>1, <1>8 DEF CommandsAgree

(***************************************************************************)
(* The seats of a game run the same commands in every tick: those playing  *)
(* it, whatever befalls it (Live::on_packet, Session::advance, Live::admit,*)
(* Live::resync).  Every constant is free: the seats, the connections, the *)
(* ticks, the orders, the input delay, what may happen and how often.      *)
(* That no player knocks on a second connection before the first is        *)
(* answered (Live::knock keeps both) is a hypothesis.                      *)
(***************************************************************************)
THEOREM LiveCommandsAgree == Spec /\ []OneKnock => []CommandsAgree
<1>1. Init => LiveInv
  BY LiveStarts
<1>2. LiveInv /\ OneKnock /\ [Next]_vars => LiveInv'
  BY LiveSteps
<1>3. LiveInv => CommandsAgree
  BY LiveAgrees
<1>4. QED
  BY <1>1, <1>2, <1>3, PTL DEF Spec

\* A player who comes back once at most knocks once at most.
LEMMA OneReturn ==
  ASSUME MaxConn <= 1
  PROVE  LiveInv => OneKnock
<1> HAVE LiveInv
<1>1. SUFFICES ASSUME NEW c \in Conns, NEW d \in Conns, SlotOf(c) = SlotOf(d),
                      line[c] = "rejoining", line[d] = "rejoining"
               PROVE  c = d
  BY DEF OneKnock
<1>2. MaxConn \in Nat
  BY LiveAssumption
<1>3. ASSUME NEW e \in Conns, line[e] = "rejoining"
      PROVE  e = <<SlotOf(e), 1>>
  <2>1. SlotOf(e) \in Joiners /\ e \in ConnsOf(SlotOf(e)) /\ e = <<SlotOf(e), e[2]>>
        /\ e[2] \in 0 .. MaxConn
    BY DEF Conns, ConnsOf, SlotOf
  <2>2. ConnOK(HostState, world[Host], SlotOf(e), JoinerStates[SlotOf(e)], e)
    BY <2>1 DEF LiveInv, GameOK, SeatOK
  <2>3. e[2] # 0
    BY <1>3, <2>2, HostStateIs DEF ConnOK
  <2>4. e[2] = 1
    BY <1>2, <2>1, <2>3
  <2>5. QED
    BY <2>1, <2>4
<1>4. QED
  BY <1>1, <1>3

\* The seats of a game run the same commands in every tick, with nothing assumed but that a
\* player comes back once at most (a game's first knock, Live::admit).
THEOREM LiveAgreesOnOneReturn ==
  ASSUME MaxConn <= 1
  PROVE  Spec => []CommandsAgree
<1>1. Init => LiveInv
  BY LiveStarts
<1>2. LiveInv /\ [Next]_vars => LiveInv'
  BY LiveSteps, OneReturn
<1>3. LiveInv => CommandsAgree
  BY LiveAgrees
<1>4. QED
  BY <1>1, <1>2, <1>3, PTL DEF Spec

\* A joiner that plays has not run past a resync on its way to it: it will be held at the
\* barrier the host announced (Live::diverged, Session::announce_resync).
AnnouncedInTime ==
  \A j \in Joiners : phase[j] = "playing" =>
    \A m \in InFlight(j, "ResyncAt") : session[j].tick <= m.tick + 1

LEMMA LiveAnnounces == LiveInv => AnnouncedInTime
<1> HAVE LiveInv
<1>1. SUFFICES ASSUME NEW j \in Joiners, phase[j] = "playing", NEW m \in InFlight(j, "ResyncAt")
               PROVE  session[j].tick <= m.tick + 1
  BY DEF AnnouncedInTime
<1>2. AheadOK(JoinerStates[j], down[ConnOf(j)]) /\ JoinerStates[j].session = session[j]
  BY <1>1, JoinerPlays
<1>3. PICK i \in DOMAIN down[ConnOf(j)] : m = down[ConnOf(j)][i] /\ m.type = "ResyncAt"
  BY <1>1 DEF InFlight, Range
<1>4. QED
  BY <1>2, <1>3 DEF AheadOK

\* A resync is announced before any seat that plays has run past its tick, whatever the
\* input delay and however many worlds drift (Live::diverged names the last tick the host
\* has sealed or simulated, and says so before it seals the next).
THEOREM LiveAnnouncedInTime == Spec /\ []OneKnock => []AnnouncedInTime
<1>1. Init => LiveInv
  BY LiveStarts
<1>2. LiveInv /\ OneKnock /\ [Next]_vars => LiveInv'
  BY LiveSteps
<1>3. LiveInv => AnnouncedInTime
  BY LiveAnnounces
<1>4. QED
  BY <1>1, <1>2, <1>3, PTL DEF Spec

=============================================================================
