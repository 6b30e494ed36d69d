----------------------------- MODULE MeshProofs -----------------------------
(***************************************************************************)
(* That the sessions of a mesh never disagree, for any set of seats, any   *)
(* input delay, ring, slack and order of delivery; that they implement     *)
(* Lockstep, run each order once and never halt; and that delay and        *)
(* reordering alone make none of them refuse a packet or see a divergence  *)
(* that is not there.                                                      *)
(***************************************************************************)
EXTENDS Mesh, SessionProofs

(***************************************************************************)
(* The invariant, from the start and through every action.                 *)
(***************************************************************************)
\* Before the first tick nothing is sealed and nothing has run.
LEMMA AgreementInit == Init => AgreementInv
<1> SUFFICES ASSUME Init PROVE AgreementInv
  OBVIOUS
<1> USE DEF Init
<1>1. \A s \in Slots :
        /\ session[s] = NewSession(s, Authority)
        /\ DOMAIN session[s] = Fields
        /\ session[s].local = s /\ session[s].tick = 0 /\ session[s].nextSeal = 0
        /\ session[s].retired = [x \in Slots |-> None] /\ session[s].inbox = {}
  BY DEF NewSession, Fields
<1>2. SeatsSound
  BY <1>1 DEF SeatsSound
<1>3. SealedOnce /\ OnlySealed
  BY <1>1 DEF SealedOnce, OnlySealed
<1>4. RanWhatWasSealed
  BY <1>1 DEF RanWhatWasSealed
<1>5. QED
  BY <1>2, <1>3, <1>4 DEF AgreementInv

\* A step that leaves the clocks, what was sealed and the worlds alone, and puts
\* nothing in hand or in flight but what was sealed, keeps the invariant.
LEMMA QuietStep ==
  ASSUME AgreementInv, UNCHANGED <<sealed, world>>,
         DOMAIN session' = Slots,
         \A s \in Slots :
           /\ DOMAIN session'[s] = Fields
           /\ session'[s].local = session[s].local
           /\ session'[s].tick = session[s].tick
           /\ session'[s].nextSeal = session[s].nextSeal
           /\ session'[s].retired = session[s].retired
           /\ session'[s].inbox \subseteq sealed,
         network' \subseteq network
  PROVE  AgreementInv'
<1> USE DEF AgreementInv
<1>1. SeatsSound'
  BY DEF SeatsSound
<1>2. SealedOnce'
  BY DEF SealedOnce
<1>3. OnlySealed'
  BY DEF OnlySealed
<1>4. \A t : CommandsAt(t)' = CommandsAt(t)
  BY DEF CommandsAt
<1>5. RanWhatWasSealed'
  BY <1>4 DEF RanWhatWasSealed
<1>6. QED
  BY <1>1, <1>2, <1>3, <1>5

\* Staging an order (issue) touches neither packets nor the clock.
LEMMA IssueOrderStep ==
  ASSUME AgreementInv, NEW s \in Slots, NEW o \in Orders, IssueOrder(s, o)
  PROVE  AgreementInv'
<1>1. DOMAIN session = Slots /\ DOMAIN session[s] = Fields
  BY DEF AgreementInv, SeatsSound
<1>2. /\ DOMAIN Issue(session[s], o) = Fields
      /\ Issue(session[s], o).local = session[s].local
      /\ Issue(session[s], o).tick = session[s].tick
      /\ Issue(session[s], o).nextSeal = session[s].nextSeal
      /\ Issue(session[s], o).retired = session[s].retired
      /\ Issue(session[s], o).inbox = session[s].inbox
  BY Zenon, <1>1 DEF Issue, Fields
<1>3. /\ DOMAIN session' = Slots
      /\ session'[s] = Issue(session[s], o)
      /\ \A r \in Slots : r # s => session'[r] = session[r]
  BY Zenon, <1>1, Update DEF IssueOrder
<1>4. UNCHANGED <<sealed, world, network>>
  BY DEF IssueOrder
<1>5. QED
  BY <1>2, <1>3, <1>4, QuietStep DEF AgreementInv, SeatsSound, OnlySealed

\* Receiving a packet puts nothing in hand but a packet that was sealed.
LEMMA DeliverStep ==
  ASSUME AgreementInv, NEW m \in network, Deliver(m)
  PROVE  AgreementInv'
<1> DEFINE s == m.to
<1>1. s \in Slots /\ DOMAIN session = Slots /\ DOMAIN session[s] = Fields
  BY DEF AgreementInv, SeatsSound, OnlySealed
<1>2. /\ DOMAIN session' = Slots
      /\ session'[s] = Receive(session[s], m.packet)
      /\ \A r \in Slots : r # s => session'[r] = session[r]
  BY Zenon, <1>1, Update DEF Deliver
<1>3. /\ session'[s].inbox \subseteq session[s].inbox \union {Held(m.packet)}
      /\ DOMAIN session'[s] = Fields
      /\ session'[s].local = session[s].local
      /\ session'[s].tick = session[s].tick
      /\ session'[s].nextSeal = session[s].nextSeal
      /\ session'[s].retired = session[s].retired
  BY <1>1, <1>2, ReceiveFields
<1>4. UNCHANGED <<sealed, world>> /\ network' \subseteq network
  BY DEF Deliver
<1>5. Held(m.packet) \in sealed /\ \A r \in Slots : session[r].inbox \subseteq sealed
  BY DEF AgreementInv, OnlySealed
<1>6. QED
  BY <1>2, <1>3, <1>4, <1>5, QuietStep DEF AgreementInv, SeatsSound

\* The packet a seat seals is for its own next tick.
LEMMA PacketFields ==
  ASSUME NEW s
  PROVE  Held(Packet(s)).tick = s.nextSeal /\ Held(Packet(s)).from = s.local
BY DEF Held, Packet

\* Sealing adds one packet, for a tick its seat has sealed none for.
LEMMA SealPacketStep ==
  ASSUME AgreementInv, NEW s \in Slots, SealPacket(s)
  PROVE  AgreementInv'
<1> DEFINE p == Held(Packet(session[s]))
<1>1. /\ DOMAIN session = Slots /\ DOMAIN session[s] = Fields
      /\ session[s].local = s /\ session[s].nextSeal \in Nat
  BY DEF AgreementInv, SeatsSound
<1>2. p.tick = session[s].nextSeal /\ p.from = s
  BY <1>1, PacketFields
<1>3. /\ DOMAIN session' = Slots
      /\ session'[s] = Seal(session[s])
      /\ \A r \in Slots : r # s => session'[r] = session[r]
  BY Zenon, <1>1, Update DEF SealPacket
<1>4. /\ DOMAIN session'[s] = Fields
      /\ session'[s].local = session[s].local
      /\ session'[s].tick = session[s].tick
      /\ session'[s].nextSeal = session[s].nextSeal + 1
      /\ session'[s].retired = session[s].retired
      /\ session'[s].inbox = session[s].inbox \union {p}
  BY <1>1, <1>3, SealFields
<1>5. sealed' = sealed \union {p} /\ UNCHANGED world
  BY DEF SealPacket
<1> HIDE DEF p
<1>6. SeatsSound'
  BY <1>3, <1>4 DEF AgreementInv, SeatsSound
<1>7. SealedOnce'
  <2>1. \A r \in Slots : 
          /\ session[r].nextSeal \in Nat /\ session'[r].nextSeal \in Nat
          /\ session'[r].nextSeal >= session[r].nextSeal
    BY <1>3, <1>4 DEF AgreementInv, SeatsSound
  <2>2. \A q \in sealed : q.from = s => q.tick < p.tick
    BY <1>2 DEF AgreementInv, SealedOnce
  <2>3. \A q \in sealed' :
          q.from \in Slots /\ q.tick \in Nat /\ q.tick < session'[q.from].nextSeal
    <3>1. ASSUME NEW q \in sealed
          PROVE  q.from \in Slots /\ q.tick \in Nat /\ q.tick < session'[q.from].nextSeal
      <4>1. q.from \in Slots /\ q.tick \in Nat /\ q.tick < session[q.from].nextSeal
        BY DEF AgreementInv, SealedOnce
      <4>2. QED
        BY <2>1, <4>1
    <3>2. p.from \in Slots /\ p.tick \in Nat /\ p.tick < session'[p.from].nextSeal
      BY <1>1, <1>2, <1>4
    <3>3. QED
      BY <1>5, <3>1, <3>2
  <2>4. \A q, r \in sealed' : q.from = r.from /\ q.tick = r.tick => q = r
    BY <2>2, <1>1, <1>2, <1>5 DEF AgreementInv, SealedOnce
  <2>5. QED
    BY <2>3, <2>4 DEF SealedOnce
<1>8. OnlySealed'
  <2>1. \A r \in Slots : session'[r].inbox \subseteq sealed'
    BY <1>3, <1>4, <1>5 DEF AgreementInv, OnlySealed
  <2>2. \A m \in network' : m.to \in Slots /\ Held(m.packet) \in sealed'
    BY <1>5 DEF AgreementInv, OnlySealed, SealPacket, p
  <2>3. QED
    BY <2>1, <2>2 DEF OnlySealed
<1>9. RanWhatWasSealed'
  <2>1. \A r \in Slots : session'[r].tick = session[r].tick /\ session[r].tick \in Nat
    BY <1>3, <1>4 DEF AgreementInv, SeatsSound
  <2>2. \A r \in Slots : \A t \in 0 .. session[r].tick - 1 : t # p.tick
    BY <1>1, <1>2 DEF AgreementInv, RanWhatWasSealed, SealedOnce
  <2>3. \A t : t # p.tick => CommandsAt(t)' = CommandsAt(t)
    BY <1>5 DEF CommandsAt
  <2>4. ASSUME NEW r \in Slots
        PROVE  world'[r] = [t \in 1 .. session'[r].tick |-> OrderCommands(r, CommandsAt(t - 1)')]
    <3>1. \A t \in 1 .. session[r].tick : CommandsAt(t - 1)' = CommandsAt(t - 1)
      BY <2>1, <2>2, <2>3
    <3>2. QED
      BY <1>5, <2>1, <3>1 DEF AgreementInv, RanWhatWasSealed
  <2>5. QED
    BY <1>5, <2>1, <2>4 DEF AgreementInv, RanWhatWasSealed
<1>10. QED
  BY <1>6, <1>7, <1>8, <1>9 DEF AgreementInv

\* A seat that is ready for a tick has everyone's packet for it, and they are all there is.
LEMMA TickInHand ==
  ASSUME AgreementInv, NEW s \in Slots, Ready(session[s])
  PROVE  /\ \A x \in Slots : \E p \in session[s].inbox : p.from = x /\ p.tick = session[s].tick
         /\ TickCommands(session[s]) = CommandsAt(session[s].tick)
<1> DEFINE n == session[s].tick
<1>1. n \in Nat /\ session[s].retired = [x \in Slots |-> None]
  BY DEF AgreementInv, SeatsSound
<1>2. \A x \in Slots : \E p \in session[s].inbox : p.from = x /\ p.tick = n
  <2>1. \A x \in Slots : ~IsRetired(session[s], x, n)
    BY <1>1 DEF IsRetired
  <2>2. Missing(session[s]) = {}
    BY DEF Ready
  <2>3. QED
    BY <2>1, <2>2 DEF Missing, HasPacket
<1>3. {q \in session[s].inbox : q.tick = n} = {q \in sealed : q.tick = n}
  BY <1>2 DEF AgreementInv, OnlySealed, SealedOnce
<1>4. QED
  BY <1>2, <1>3 DEF TickCommands, CommandsAt

\* A tick runs only with every seat's packet for it in hand, so it runs all of them.
LEMMA AdvanceTickStep ==
  ASSUME AgreementInv, NEW s \in Slots, AdvanceTick(s)
  PROVE  AgreementInv'
<1> DEFINE a == Advance(session[s], world[s])
           n == session[s].tick
<1>1. /\ DOMAIN session = Slots /\ DOMAIN session[s] = Fields /\ DOMAIN world = Slots
      /\ session[s].local = s /\ n \in Nat
      /\ session[s].retired = [x \in Slots |-> None]
  BY DEF AgreementInv, SeatsSound, RanWhatWasSealed
<1>2. /\ DOMAIN session' = Slots /\ DOMAIN world' = Slots
      /\ session'[s] = a.session /\ world'[s] = a.world
      /\ \A r \in Slots : r # s => session'[r] = session[r] /\ world'[r] = world[r]
  BY Zenon, <1>1, Update DEF AdvanceTick
<1>3. /\ DOMAIN a.session = Fields
      /\ a.session.local = session[s].local
      /\ a.session.nextSeal = session[s].nextSeal
      /\ a.session.retired = session[s].retired
      /\ a.session.inbox \subseteq session[s].inbox
      /\ \/ a.session.tick = n /\ a.world = world[s]
         \/ /\ a.session.tick = n + 1
            /\ a.world = Append(world[s], OrderCommands(s, TickCommands(session[s])))
  <2>1. Ticked(session[s], world[s], a)
    BY <1>1, AdvanceFields
  <2> HIDE DEF a
  <2>2. QED
    BY <1>1, <2>1 DEF Ticked
<1> HIDE DEF a
<1>4. UNCHANGED <<network, sealed>>
  BY DEF AdvanceTick
<1>5. SeatsSound'
  BY <1>1, <1>2, <1>3 DEF AgreementInv, SeatsSound
<1>6. SealedOnce'
  BY <1>2, <1>3, <1>4 DEF AgreementInv, SealedOnce
<1>7. OnlySealed'
  BY <1>2, <1>3, <1>4 DEF AgreementInv, OnlySealed
<1>8. \A x \in Slots : \E p \in session[s].inbox : p.from = x /\ p.tick = n
  BY TickInHand DEF AdvanceTick
<1>9. TickCommands(session[s]) = CommandsAt(n)
  BY TickInHand DEF AdvanceTick
<1>10. \A t : CommandsAt(t)' = CommandsAt(t)
  BY <1>4 DEF CommandsAt
<1>11. RanWhatWasSealed'
  <2>1. CASE a.session.tick = n /\ a.world = world[s]
    BY <2>1, <1>2, <1>4, <1>10 DEF AgreementInv, RanWhatWasSealed
  <2>2. CASE /\ a.session.tick = n + 1
             /\ a.world = Append(world[s], OrderCommands(s, TickCommands(session[s])))
    <3> DEFINE f == [t \in 1 .. n |-> OrderCommands(s, CommandsAt(t - 1))]
               g == [t \in 1 .. n + 1 |-> OrderCommands(s, CommandsAt(t - 1))]
               S == {g[t] : t \in 1 .. n + 1}
    <3>1. world[s] = f
      BY DEF AgreementInv, RanWhatWasSealed
    <3>2. g[n + 1] = OrderCommands(s, CommandsAt(n))
      BY <1>1
    <3>3. /\ f \in [1 .. n -> S] /\ g \in [1 .. n + 1 -> S]
          /\ \A t \in 1 .. n : g[t] = f[t]
      BY <1>1
    <3> HIDE DEF f, g, S
    <3>4. world'[s] = g
      <4>1. world'[s] = Append(f, g[n + 1])
        BY <1>2, <1>9, <2>2, <3>1, <3>2
      <4>2. Append(f, g[n + 1]) = g
        BY <1>1, <3>3, AppendEntry
      <4>3. QED
        BY <4>1, <4>2
    <3>5. world'[s] = [t \in 1 .. session'[s].tick |-> OrderCommands(s, CommandsAt(t - 1)')]
      BY <1>2, <1>10, <2>2, <3>4 DEF g
    <3>6. \A t \in 0 .. session'[s].tick - 1 : \A x \in Slots :
            \E p \in sealed' : p.from = x /\ p.tick = t
      <4>1. \A t \in 0 .. n - 1 : \A x \in Slots : \E p \in sealed : p.from = x /\ p.tick = t
        BY DEF AgreementInv, RanWhatWasSealed
      <4>2. \A x \in Slots : \E p \in sealed : p.from = x /\ p.tick = n
        BY <1>8 DEF AgreementInv, OnlySealed
      <4>3. session'[s].tick = n + 1 /\ sealed' = sealed
        BY <1>2, <1>4, <2>2
      <4>4. \A t \in 0 .. n : t = n \/ t \in 0 .. n - 1
        BY <1>1
      <4>5. (n + 1) - 1 = n
        BY <1>1
      <4>6. QED
        BY <4>1, <4>2, <4>3, <4>4, <4>5
    <3>7. \A r \in Slots : r # s =>
            /\ world'[r] = [t \in 1 .. session'[r].tick |-> OrderCommands(r, CommandsAt(t - 1)')]
            /\ \A t \in 0 .. session'[r].tick - 1 : \A x \in Slots :
                 \E p \in sealed' : p.from = x /\ p.tick = t
      BY <1>2, <1>4, <1>10 DEF AgreementInv, RanWhatWasSealed
    <3>8. QED
      BY <1>2, <3>5, <3>6, <3>7 DEF RanWhatWasSealed
  <2>3. QED
    BY <1>3, <2>1, <2>2
<1>12. QED
  BY <1>5, <1>6, <1>7, <1>11 DEF AgreementInv

\* Every step of the mesh keeps the invariant.
LEMMA AgreementNext == AgreementInv /\ [Next]_vars => AgreementInv'
<1> SUFFICES ASSUME AgreementInv, [Next]_vars PROVE AgreementInv'
  OBVIOUS
<1>1. ASSUME NEW s \in Slots, NEW o \in Orders, IssueOrder(s, o) PROVE AgreementInv'
  BY <1>1, IssueOrderStep
<1>2. ASSUME NEW s \in Slots, SealPacket(s) PROVE AgreementInv'
  BY <1>2, SealPacketStep
<1>3. ASSUME NEW m \in network, Deliver(m) PROVE AgreementInv'
  BY <1>3, DeliverStep
<1>4. ASSUME NEW s \in Slots, AdvanceTick(s) PROVE AgreementInv'
  BY <1>4, AdvanceTickStep
<1>5. CASE UNCHANGED vars
  BY <1>5, QuietStep DEF vars, AgreementInv, SeatsSound, OnlySealed
<1>6. QED
  BY <1>1, <1>2, <1>3, <1>4, <1>5 DEF Next

\* The invariant implies agreement: two worlds' entries for a tick are the same list.
LEMMA AgreementImplies == AgreementInv => WorldsAgree
<1> SUFFICES ASSUME AgreementInv, NEW r \in Slots, NEW s \in Slots,
                    NEW t \in DOMAIN world[r] \cap DOMAIN world[s]
             PROVE  world[r][t] = world[s][t]
  BY DEF WorldsAgree
<1>1. /\ world[r][t] = OrderCommands(r, CommandsAt(t - 1))
      /\ world[s][t] = OrderCommands(s, CommandsAt(t - 1))
  <2>1. ASSUME NEW x \in Slots, t \in DOMAIN world[x]
        PROVE  world[x][t] = OrderCommands(x, CommandsAt(t - 1))
    <3>1. world[x] = [u \in 1 .. session[x].tick |-> OrderCommands(x, CommandsAt(u - 1))]
      BY DEF AgreementInv, RanWhatWasSealed
    <3>2. QED
      BY <2>1, <3>1, Zenon
  <2>2. QED
    BY <2>1
<1>2. QED
  BY <1>1 DEF OrderCommands

\* In every state of every mesh, what is in hand or in flight is what was sealed, and
\* what has run is what every seat sealed.
THEOREM MeshInvariant == Spec => []AgreementInv
BY AgreementInit, AgreementNext, PTL DEF Spec

\* Every seat of every mesh of sessions runs the same commands in the same order.
THEOREM MeshAgreement == Spec => []WorldsAgree
BY MeshInvariant, AgreementImplies, PTL

(***************************************************************************)
(* The type invariant of a mesh: what is staged, sealed, in flight and in  *)
(* hand stays of its type.  The sequence numbers next_packet gives are the *)
(* part that takes an argument: they count up from nextSeq.                *)
(***************************************************************************)
TypeInv == SeatsSound /\ TypeOK

\* The commands of a packet are the staged orders, numbered from nextSeq.
LEMMA SealedCommandsType ==
  ASSUME NEW s, s.local \in Slots, s.nextSeq \in Nat, s.staged \in Seq(Orders)
  PROVE  Packet(s).commands \subseteq Command
<1>1. ASSUME NEW i \in DOMAIN s.staged
      PROVE  s.nextSeq + i - 1 \in Nat /\ s.staged[i] \in Orders
  <2>1. i \in 1 .. Len(s.staged)
    OBVIOUS
  <2>2. QED
    BY <2>1
<1>2. SealedCommands(s) \subseteq Command
  BY <1>1 DEF SealedCommands, Command
<1>3. QED
  BY <1>2 DEF Packet

\* A new mesh is of its type.
LEMMA TypeInit == Init => TypeInv
<1> SUFFICES ASSUME Init PROVE TypeInv
  OBVIOUS
<1>1. SeatsSound
  BY AgreementInit DEF AgreementInv
<1>2. \A s \in Slots :
        /\ session[s].local = s /\ session[s].tick = 0 /\ session[s].nextSeal = 0
        /\ session[s].nextSeq = 0 /\ session[s].staged = <<>> /\ session[s].inbox = {}
  BY DEF Init, NewSession
<1>3. issued = {} /\ network = {}
  BY DEF Init
<1>4. TypeOK
  <2>1. <<>> \in Seq(Orders) /\ 0 \in Nat
    OBVIOUS
  <2>2. ASSUME NEW s \in Slots
        PROVE  /\ session[s].local = s /\ session[s].tick \in Nat
               /\ session[s].nextSeal \in Nat /\ session[s].nextSeq \in Nat
               /\ session[s].staged \in Seq(Orders)
               /\ session[s].inbox = {}
    BY Zenon, <1>2, <2>1
  <2>3. QED
    BY <1>3, <2>2 DEF TypeOK
<1>5. QED
  BY <1>1, <1>4 DEF TypeInv

\* A step of one seat keeps the types if the seat's session and the network keep theirs.
LEMMA OneSeatTypes ==
  ASSUME TypeInv, NEW s \in Slots,
         DOMAIN session' = Slots, DOMAIN session'[s] = Fields,
         session'[s].local = s,
         session'[s].retired = session[s].retired,
         session'[s].tick \in Nat, session'[s].nextSeal \in Nat, session'[s].nextSeq \in Nat,
         session'[s].staged \in Seq(Orders),
         \A p \in session'[s].inbox :
           p.tick \in Nat /\ p.from \in Slots /\ p.commands \subseteq Command,
         \A r \in Slots : r # s => session'[r] = session[r],
         issued' \subseteq Orders,
         \A m \in network' :
           /\ m.to \in Slots /\ m.packet.from \in Slots /\ m.packet.tick \in Nat
           /\ m.packet.commands \subseteq Command
  PROVE  TypeInv'
<1>1. SeatsSound'
  BY DEF TypeInv, SeatsSound
<1>2. TypeOK'
  BY DEF TypeInv, TypeOK
<1>3. QED
  BY <1>1, <1>2 DEF TypeInv

\* The order staged is an order.
LEMMA IssueTypes ==
  ASSUME TypeInv, NEW s \in Slots, NEW o \in Orders, IssueOrder(s, o)
  PROVE  TypeInv'
<1>1. DOMAIN session = Slots /\ DOMAIN session[s] = Fields
  BY DEF TypeInv, SeatsSound
<1>2. /\ DOMAIN Issue(session[s], o) = Fields
      /\ Issue(session[s], o).local = session[s].local
      /\ Issue(session[s], o).tick = session[s].tick
      /\ Issue(session[s], o).nextSeal = session[s].nextSeal
      /\ Issue(session[s], o).nextSeq = session[s].nextSeq
      /\ Issue(session[s], o).retired = session[s].retired
      /\ Issue(session[s], o).inbox = session[s].inbox
      /\ Issue(session[s], o).staged = Append(session[s].staged, o)
  BY Zenon, <1>1 DEF Issue, Fields
<1>3. /\ DOMAIN session' = Slots
      /\ session'[s] = Issue(session[s], o)
      /\ \A r \in Slots : r # s => session'[r] = session[r]
  BY Zenon, <1>1, Update DEF IssueOrder
<1>4. network' = network /\ issued' = issued \union {o}
  BY DEF IssueOrder
<1>5. /\ session[s].local = s
      /\ session[s].tick \in Nat /\ session[s].nextSeal \in Nat /\ session[s].nextSeq \in Nat
      /\ session[s].staged \in Seq(Orders)
      /\ \A q \in session[s].inbox : q.tick \in Nat /\ q.from \in Slots /\ q.commands \subseteq Command
  BY Zenon DEF TypeInv, TypeOK
<1>6. Append(session[s].staged, o) \in Seq(Orders)
  BY <1>5
<1>7. /\ session'[s].local = s
      /\ session'[s].retired = session[s].retired
      /\ DOMAIN session'[s] = Fields
      /\ session'[s].tick \in Nat /\ session'[s].nextSeal \in Nat /\ session'[s].nextSeq \in Nat
      /\ session'[s].staged \in Seq(Orders)
      /\ \A q \in session'[s].inbox : q.tick \in Nat /\ q.from \in Slots /\ q.commands \subseteq Command
  BY Zenon, <1>2, <1>3, <1>5, <1>6
<1>8. /\ issued' \subseteq Orders
      /\ \A m \in network' :
           /\ m.to \in Slots /\ m.packet.from \in Slots /\ m.packet.tick \in Nat
           /\ m.packet.commands \subseteq Command
  BY <1>4 DEF TypeInv, TypeOK
<1>9. QED
  BY <1>3, <1>7, <1>8, OneSeatTypes

\* The packet sealed is typed, in hand and in flight.
LEMMA SealTypes ==
  ASSUME TypeInv, NEW s \in Slots, SealPacket(s)
  PROVE  TypeInv'
<1> DEFINE p == Packet(session[s])
<1>1. /\ DOMAIN session = Slots /\ DOMAIN session[s] = Fields /\ session[s].local = s
      /\ session[s].tick \in Nat /\ session[s].nextSeal \in Nat /\ session[s].nextSeq \in Nat
      /\ session[s].staged \in Seq(Orders)
  BY DEF TypeInv, SeatsSound, TypeOK
<1>2. p.tick = session[s].nextSeal /\ p.from = s /\ p.commands \subseteq Command
  BY <1>1, SealedCommandsType DEF Packet
<1>3. /\ DOMAIN session' = Slots
      /\ session'[s] = Seal(session[s])
      /\ \A r \in Slots : r # s => session'[r] = session[r]
  BY Zenon, <1>1, Update DEF SealPacket
<1>4. /\ DOMAIN session'[s] = Fields
      /\ session'[s].local = s
      /\ session'[s].tick = session[s].tick
      /\ session'[s].nextSeal = session[s].nextSeal + 1
      /\ session'[s].retired = session[s].retired
      /\ session'[s].inbox = session[s].inbox \union {Held(p)}
  BY <1>1, <1>3, SealFields
<1>5. session'[s].staged \in Seq(Orders) /\ session'[s].nextSeq \in Nat
  <2>1. Len(session[s].staged) \in Nat /\ <<>> \in Seq(Orders)
    BY <1>1
  <2>2. \/ session'[s].staged = session[s].staged /\ session'[s].nextSeq = session[s].nextSeq
        \/ /\ session'[s].staged = <<>>
           /\ session'[s].nextSeq = session[s].nextSeq + Len(session[s].staged)
    BY Zenon, <1>1, <1>3, SealQueue
  <2>3. CASE session'[s].staged = session[s].staged /\ session'[s].nextSeq = session[s].nextSeq
    BY Zenon, <2>3, <1>1
  <2>4. CASE /\ session'[s].staged = <<>>
             /\ session'[s].nextSeq = session[s].nextSeq + Len(session[s].staged)
    <3>1. session[s].nextSeq + Len(session[s].staged) \in Nat
      BY <1>1, <2>1
    <3>2. QED
      BY Zenon, <3>1, <2>1, <2>4
  <2>5. QED
    BY <2>2, <2>3, <2>4
<1>6. /\ network' = network \union {[to |-> r, packet |-> p] : r \in Slots \ {s}}
      /\ issued' = issued
  BY DEF SealPacket
<1>7. Held(p).tick \in Nat /\ Held(p).from \in Slots /\ Held(p).commands \subseteq Command
  BY <1>1, <1>2, HeldCommands
<1> HIDE DEF p
<1>8. \A q \in session'[s].inbox : q.tick \in Nat /\ q.from \in Slots /\ q.commands \subseteq Command
  BY <1>4, <1>7 DEF TypeInv, TypeOK
<1>9. \A m \in network' :
        /\ m.to \in Slots /\ m.packet.from \in Slots /\ m.packet.tick \in Nat
        /\ m.packet.commands \subseteq Command
  <2>1. \A m \in network' \ network : m.to \in Slots /\ m.packet = p
    BY <1>6
  <2>2. QED
    BY <1>1, <1>2, <2>1 DEF TypeInv, TypeOK
<1>10. issued' \subseteq Orders /\ session'[s].nextSeal \in Nat
  BY <1>1, <1>4, <1>6 DEF TypeInv, TypeOK
<1>11. QED
  BY <1>1, <1>3, <1>4, <1>5, <1>8, <1>9, <1>10, OneSeatTypes

\* What is received was typed in flight.
LEMMA DeliverTypes ==
  ASSUME TypeInv, NEW m \in network, Deliver(m)
  PROVE  TypeInv'
<1> DEFINE s == m.to
<1>1. /\ s \in Slots /\ DOMAIN session = Slots /\ DOMAIN session[s] = Fields
      /\ session[s].local = s
      /\ session[s].tick \in Nat /\ session[s].nextSeal \in Nat /\ session[s].nextSeq \in Nat
      /\ session[s].staged \in Seq(Orders)
  BY DEF TypeInv, SeatsSound, TypeOK
<1>2. /\ DOMAIN session' = Slots
      /\ session'[s] = Receive(session[s], m.packet)
      /\ \A r \in Slots : r # s => session'[r] = session[r]
  BY Zenon, <1>1, Update DEF Deliver
<1>3. /\ DOMAIN session'[s] = Fields
      /\ session'[s].local = session[s].local
      /\ session'[s].tick = session[s].tick
      /\ session'[s].nextSeal = session[s].nextSeal
      /\ session'[s].nextSeq = session[s].nextSeq
      /\ session'[s].staged = session[s].staged
      /\ session'[s].retired = session[s].retired
      /\ session'[s].inbox \subseteq session[s].inbox \union {Held(m.packet)}
  BY <1>1, <1>2, ReceiveFields
<1>4. network' \subseteq network /\ issued' = issued
  BY DEF Deliver
<1>5. \A q \in session'[s].inbox : q.tick \in Nat /\ q.from \in Slots /\ q.commands \subseteq Command
  BY <1>1, <1>3, HeldCommands DEF TypeInv, TypeOK
<1>6. /\ issued' \subseteq Orders
      /\ \A k \in network' :
           /\ k.to \in Slots /\ k.packet.from \in Slots /\ k.packet.tick \in Nat
           /\ k.packet.commands \subseteq Command
  BY <1>4 DEF TypeInv, TypeOK
<1>7. QED
  BY <1>1, <1>2, <1>3, <1>5, <1>6, OneSeatTypes

\* A tick takes packets out of hand and moves the clock by one.
LEMMA AdvanceTypes ==
  ASSUME TypeInv, NEW s \in Slots, AdvanceTick(s)
  PROVE  TypeInv'
<1> DEFINE a == Advance(session[s], world[s])
<1>1. /\ DOMAIN session = Slots /\ DOMAIN session[s] = Fields /\ session[s].local = s
      /\ session[s].tick \in Nat /\ session[s].nextSeal \in Nat /\ session[s].nextSeq \in Nat
      /\ session[s].staged \in Seq(Orders)
  BY DEF TypeInv, SeatsSound, TypeOK
<1>2. /\ DOMAIN session' = Slots
      /\ session'[s] = a.session
      /\ \A r \in Slots : r # s => session'[r] = session[r]
  BY Zenon, <1>1, Update DEF AdvanceTick
<1>3. /\ DOMAIN a.session = Fields
      /\ a.session.local = session[s].local
      /\ a.session.nextSeal = session[s].nextSeal
      /\ a.session.nextSeq = session[s].nextSeq
      /\ a.session.staged = session[s].staged
      /\ a.session.retired = session[s].retired
      /\ a.session.inbox \subseteq session[s].inbox
      /\ a.session.tick = session[s].tick \/ a.session.tick = session[s].tick + 1
  <2>1. Ticked(session[s], world[s], a)
    BY <1>1, AdvanceFields
  <2> HIDE DEF a
  <2>2. QED
    BY <1>1, <2>1 DEF Ticked
<1> HIDE DEF a
<1>4. /\ network' = network /\ issued' = issued
  BY DEF AdvanceTick
<1>5. /\ \A q \in session'[s].inbox : q.tick \in Nat /\ q.from \in Slots /\ q.commands \subseteq Command
      /\ session'[s].tick \in Nat
  BY <1>1, <1>2, <1>3 DEF TypeInv, TypeOK
<1>6. /\ issued' \subseteq Orders
      /\ \A k \in network' :
           /\ k.to \in Slots /\ k.packet.from \in Slots /\ k.packet.tick \in Nat
           /\ k.packet.commands \subseteq Command
  BY <1>4 DEF TypeInv, TypeOK
<1>7. QED
  BY <1>1, <1>2, <1>3, <1>5, <1>6, OneSeatTypes

\* Every step of the mesh keeps the types.
LEMMA TypeNext == TypeInv /\ [Next]_vars => TypeInv'
<1> SUFFICES ASSUME TypeInv, [Next]_vars PROVE TypeInv'
  OBVIOUS
<1>1. ASSUME NEW s \in Slots, NEW o \in Orders, IssueOrder(s, o) PROVE TypeInv'
  BY <1>1, IssueTypes
<1>2. ASSUME NEW s \in Slots, SealPacket(s) PROVE TypeInv'
  BY <1>2, SealTypes
<1>3. ASSUME NEW m \in network, Deliver(m) PROVE TypeInv'
  BY <1>3, DeliverTypes
<1>4. ASSUME NEW s \in Slots, AdvanceTick(s) PROVE TypeInv'
  BY <1>4, AdvanceTypes
<1>5. CASE UNCHANGED vars
  BY <1>5 DEF vars, TypeInv, SeatsSound, TypeOK
<1>6. QED
  BY <1>1, <1>2, <1>3, <1>4, <1>5 DEF Next

\* Every state of every mesh is of its type: staged orders, the numbers they are given,
\* the packets in hand and those in flight.
THEOREM MeshTypeCorrect == Spec => []TypeOK
<1>1. TypeInv => TypeOK
  BY DEF TypeInv
<1>2. QED
  BY <1>1, TypeInit, TypeNext, PTL DEF Spec

(***************************************************************************)
(* What is sealed.  The packets sealed by every seat make one log that     *)
(* only grows, a tick at a time, and a seat runs no tick before the log    *)
(* has it: the sessions of a mesh implement Lockstep.                      *)
(***************************************************************************)
\* What the slowest seat seals next, of any seats' sessions.
LEMMA SlowestSeals ==
  ASSUME NEW f, \A s \in Slots : f[s].nextSeal \in Nat
  PROVE  LET d == CHOOSE n \in {f[s].nextSeal : s \in Slots} : \A s \in Slots : n <= f[s].nextSeal
         IN  d \in Nat /\ (\A s \in Slots : d <= f[s].nextSeal) /\ \E s \in Slots : d = f[s].nextSeal
<1> DEFINE S == {f[s].nextSeal : s \in Slots}
<1>1. S \in SUBSET Nat /\ S # {}
  BY SessionAssumption
<1>2. \E x \in S : \A y \in S : x <= y
  <2> HIDE DEF S
  <2>1. QED
    BY <1>1, LeastOf
<1>3. \E n \in S : \A s \in Slots : n <= f[s].nextSeal
  BY <1>2
<1>4. QED
  BY <1>3

\* A log that keeps its entries and gains one.
LEMMA LogGrows ==
  ASSUME NEW n \in Nat, NEW E, NEW F \in [1 .. n -> E], NEW G \in [1 .. n + 1 -> E],
         \A t \in 1 .. n : G[t] = F[t]
  PROVE  Len(G) = n + 1 /\ SubSeq(G, 1, n) = F
<1>1. G \in Seq(E) /\ Len(G) = n + 1
  OBVIOUS
<1>2. \A i \in 1 .. n : G[i] \in E
  OBVIOUS
<1>3. /\ SubSeq(G, 1, n) \in Seq(E)
      /\ Len(SubSeq(G, 1, n)) = IF 1 <= n THEN n - 1 + 1 ELSE 0
      /\ \A i \in 1 .. n - 1 + 1 : SubSeq(G, 1, n)[i] = G[1 + i - 1]
  BY <1>2, SubSeqProperties
<1> DEFINE H == SubSeq(G, 1, n)
<1>4. n - 1 + 1 = n /\ (IF 1 <= n THEN n - 1 + 1 ELSE 0) = n /\ \A i \in 1 .. n : 1 + i - 1 = i
  OBVIOUS
<1>5. H \in Seq(E) /\ Len(H) = n /\ \A i \in 1 .. n : H[i] = G[i]
  BY <1>3, <1>4
<1> HIDE DEF H
<1>6. H \in [1 .. n -> E]
  BY <1>5
<1>7. H = F
  BY <1>5, <1>6
<1>8. QED
  BY <1>1, <1>7 DEF H

\* At every moment, the log is as long as what the slowest seat has sealed.
LEMMA DecidedLeast ==
  ASSUME SeatsSound
  PROVE  /\ Decided \in Nat
         /\ \A s \in Slots : Decided <= session[s].nextSeal
         /\ \E s \in Slots : Decided = session[s].nextSeal
BY SlowestSeals DEF SeatsSound, Decided

LEMMA DecidedLeastNext ==
  ASSUME SeatsSound'
  PROVE  /\ Decided' \in Nat
         /\ \A s \in Slots : Decided' <= session'[s].nextSeal
         /\ \E s \in Slots : Decided' = session'[s].nextSeal
BY SlowestSeals DEF SeatsSound, Decided

\* A step that seals nothing leaves the log alone.
LEMMA LogKept ==
  ASSUME UNCHANGED sealed, \A s \in Slots : session'[s].nextSeal = session[s].nextSeal
  PROVE  Log' = Log
<1>1. Decided' = Decided
  BY DEF Decided
<1>2. \A t : CommandsAt(t)' = CommandsAt(t)
  BY DEF CommandsAt
<1>3. QED
  BY <1>1, <1>2 DEF Log

\* The log has what a seat runs, before it runs it.
LEMMA LogHasTick ==
  ASSUME AgreementInv, NEW s \in Slots, Ready(session[s])
  PROVE  session[s].tick + 1 <= Decided
<1>1. Decided \in Nat /\ \E x \in Slots : Decided = session[x].nextSeal
  BY DecidedLeast DEF AgreementInv
<1>2. PICK x \in Slots : Decided = session[x].nextSeal
  BY <1>1
<1>3. PICK p \in session[s].inbox : p.from = x /\ p.tick = session[s].tick
  BY TickInHand
<1>4. session[s].tick \in Nat /\ p.tick < session[x].nextSeal
  BY <1>3 DEF AgreementInv, SeatsSound, OnlySealed, SealedOnce
<1>5. QED
  BY <1>1, <1>2, <1>3, <1>4

\* Sealing settles the next tick for everybody, or waits for a slower seat to do so.
LEMMA SealDecides ==
  ASSUME AgreementInv, AgreementInv', NEW s \in Slots, SealPacket(s)
  PROVE  UNCHANGED world /\ (Log' = Log \/ (Log' # <<>> /\ Front(Log') = Log))
<1> DEFINE p == Held(Packet(session[s]))
<1>1. /\ DOMAIN session = Slots /\ DOMAIN session[s] = Fields /\ session[s].local = s
      /\ \A r \in Slots : session[r].nextSeal \in Nat
  BY DEF AgreementInv, SeatsSound
<1>2. p.tick = session[s].nextSeal
  BY PacketFields
<1>3. /\ session'[s].nextSeal = session[s].nextSeal + 1
      /\ \A r \in Slots : r # s => session'[r].nextSeal = session[r].nextSeal
  <2>1. /\ session'[s] = Seal(session[s])
        /\ \A r \in Slots : r # s => session'[r] = session[r]
    BY Zenon, <1>1, Update DEF SealPacket
  <2>2. QED
    BY <1>1, <2>1, SealFields
<1>4. sealed' = sealed \union {p} /\ UNCHANGED world
  BY DEF SealPacket
<1> HIDE DEF p
<1>5. /\ Decided \in Nat /\ Decided <= session[s].nextSeal
      /\ \A r \in Slots : Decided <= session[r].nextSeal
      /\ \E r \in Slots : Decided = session[r].nextSeal
  BY DecidedLeast DEF AgreementInv
<1>6. /\ Decided' \in Nat
      /\ \A r \in Slots : Decided' <= session'[r].nextSeal
      /\ \E r \in Slots : Decided' = session'[r].nextSeal
  BY DecidedLeastNext DEF AgreementInv
<1>7. Decided' = Decided \/ Decided' = Decided + 1
  BY <1>1, <1>3, <1>5, <1>6
<1>8. \A t \in 1 .. Decided : CommandsAt(t - 1)' = CommandsAt(t - 1)
  BY <1>2, <1>4, <1>5 DEF CommandsAt
<1> DEFINE E == {Log[t] : t \in 1 .. Decided} \union {Log'[t] : t \in 1 .. Decided'}
<1>9. /\ Log \in [1 .. Decided -> E] /\ Log' \in [1 .. Decided' -> E]
      /\ \A t \in 1 .. Decided : Log'[t] = Log[t]
  BY <1>5, <1>6, <1>7, <1>8 DEF Log
<1> HIDE DEF E
<1>10. Log' = Log \/ (Log' # <<>> /\ Front(Log') = Log)
  <2> DEFINE F == Log
             G == Log'
             n == Decided
  <2>1. CASE Decided' = n
    BY <1>5, <1>8, <2>1 DEF Log
  <2>2. CASE Decided' = n + 1
    <3>1. n \in Nat /\ F \in [1 .. n -> E] /\ G \in [1 .. n + 1 -> E]
      BY <1>5, <1>9, <2>2
    <3>2. \A t \in 1 .. n : G[t] = F[t]
      BY <1>9
    <3> HIDE DEF F, G, n
    <3>3. Len(G) = n + 1 /\ SubSeq(G, 1, n) = F
      BY <3>1, <3>2, LogGrows
    <3>4. G # <<>> /\ Front(G) = F
      BY <3>1, <3>3 DEF Front
    <3>5. QED
      BY <3>4 DEF F, G
  <2>3. QED
    BY <1>7, <2>1, <2>2
<1>11. QED
  BY <1>4, <1>10

\* There is a world for each seat, and nothing else.
WorldsKeyed == world = [s \in Slots |-> world[s]]

LEMMA KeyedStep == AgreementInv /\ WorldsKeyed /\ [Next]_vars => WorldsKeyed'
<1> SUFFICES ASSUME AgreementInv, WorldsKeyed, [Next]_vars PROVE WorldsKeyed'
  OBVIOUS
<1>1. CASE UNCHANGED world
  BY <1>1 DEF WorldsKeyed
<1>2. ASSUME NEW s \in Slots, AdvanceTick(s) PROVE WorldsKeyed'
  <2>1. DOMAIN world = Slots
    BY DEF AgreementInv, RanWhatWasSealed
  <2>2. PICK v : world' = [world EXCEPT ![s] = v]
    BY <1>2 DEF AdvanceTick
  <2>3. QED
    BY <2>1, <2>2 DEF WorldsKeyed
<1>3. QED
  BY <1>1, <1>2 DEF Next, IssueOrder, SealPacket, Deliver, vars

\* A tick that is run is the log's next.
LEMMA AdvanceExecutes ==
  ASSUME AgreementInv, WorldsKeyed, NEW s \in Slots, AdvanceTick(s)
  PROVE  Log' = Log /\ (Abstract!Execute(s) \/ UNCHANGED world)
<1> DEFINE a == Advance(session[s], world[s])
           n == session[s].tick
<1>1. /\ DOMAIN session = Slots /\ DOMAIN session[s] = Fields /\ session[s].local = s /\ n \in Nat
      /\ DOMAIN world = Slots /\ world[s] = [t \in 1 .. n |-> OrderCommands(s, CommandsAt(t - 1))]
  BY DEF AgreementInv, SeatsSound, RanWhatWasSealed
<1>2. /\ session' = [session EXCEPT ![s] = a.session] /\ world' = [world EXCEPT ![s] = a.world]
      /\ UNCHANGED sealed
  BY DEF AdvanceTick
<1>3. /\ a.session.nextSeal = session[s].nextSeal
      /\ \/ a.world = world[s]
         \/ a.world = Append(world[s], OrderCommands(s, TickCommands(session[s])))
  <2>1. Ticked(session[s], world[s], a)
    BY <1>1, AdvanceFields
  <2> HIDE DEF a
  <2>2. QED
    BY <1>1, <2>1 DEF Ticked
<1> HIDE DEF a
<1>4. Log' = Log
  BY <1>1, <1>2, <1>3, LogKept
<1>5. Ready(session[s])
  BY DEF AdvanceTick
<1>6. Len(world[s]) = n /\ n + 1 \in 1 .. Decided
  <2>1. Decided \in Nat
    BY DecidedLeast DEF AgreementInv
  <2>2. n + 1 <= Decided
    BY <1>5, LogHasTick
  <2>3. Len(world[s]) = n
    BY <1>1
  <2>4. QED
    BY <1>1, <2>1, <2>2, <2>3
<1>7. Len(Log) = Decided /\ Log[n + 1] = OrderCommands(s, TickCommands(session[s]))
  <2>1. Decided \in Nat
    BY DecidedLeast DEF AgreementInv
  <2>2. TickCommands(session[s]) = CommandsAt(n)
    BY <1>5, TickInHand
  <2>3. Len(Log) = Decided
    BY <2>1 DEF Log
  <2>4. Log[n + 1] = OrderCommands(Authority, CommandsAt(n))
    BY <1>1, <1>6 DEF Log
  <2>5. QED
    BY <2>2, <2>3, <2>4 DEF OrderCommands
<1>8. CASE a.world = world[s]
  <2>1. world' = world
    BY Zenon, <1>1, <1>2, <1>8 DEF WorldsKeyed
  <2>2. QED
    BY <1>4, <2>1
<1>9. CASE a.world = Append(world[s], OrderCommands(s, TickCommands(session[s])))
  <2>1. Len(world[s]) < Len(Log)
    BY <1>1, <1>6, <1>7
  <2>2. a.world = Append(world[s], Log[Len(world[s]) + 1])
    BY <1>6, <1>7, <1>9
  <2>3. Abstract!Execute(s)
    BY <1>2, <1>4, <2>1, <2>2 DEF Abstract!Execute
  <2>4. QED
    BY <1>4, <2>3
<1>10. QED
  BY <1>3, <1>8, <1>9

\* At the start nothing is decided and nothing has run.
LEMMA LockstepInit == Init => Abstract!Init
<1> SUFFICES ASSUME Init PROVE Abstract!Init
  OBVIOUS
<1>1. \A s \in Slots : session[s].nextSeal = 0
  BY DEF Init, NewSession
<1>2. Decided = 0
  <2>1. SeatsSound
    BY AgreementInit DEF AgreementInv
  <2>2. QED
    BY <1>1, <2>1, DecidedLeast
<1>3. Log = <<>>
  BY <1>2 DEF Log
<1>4. QED
  BY <1>3 DEF Init, Abstract!Init

\* Every step is one of Lockstep's, or none.
LEMMA LockstepStep ==
  AgreementInv /\ AgreementInv' /\ WorldsKeyed /\ [Next]_vars => [Abstract!Next]_(Abstract!vars)
<1> SUFFICES ASSUME AgreementInv, AgreementInv', WorldsKeyed, [Next]_vars
             PROVE  [Abstract!Next]_(Abstract!vars)
  OBVIOUS
<1> USE DEF Abstract!vars
<1>1. ASSUME NEW s \in Slots, NEW o \in Orders, IssueOrder(s, o) PROVE UNCHANGED <<Log, world>>
  <2>1. DOMAIN session = Slots /\ session' = [session EXCEPT ![s] = Issue(session[s], o)]
    BY <1>1 DEF IssueOrder, AgreementInv, SeatsSound
  <2>2. DOMAIN session[s] = Fields
    BY DEF AgreementInv, SeatsSound
  <2>3. Issue(session[s], o).nextSeal = session[s].nextSeal
    BY Zenon, <2>2 DEF Issue, Fields
  <2>4. UNCHANGED <<sealed, world>>
    BY <1>1 DEF IssueOrder
  <2>5. QED
    BY <2>1, <2>3, <2>4, LogKept
<1>2. ASSUME NEW s \in Slots, SealPacket(s) PROVE [Abstract!Next]_(Abstract!vars)
  BY <1>2, SealDecides DEF Abstract!Next, Abstract!Decide, Abstract!Front, Front
<1>3. ASSUME NEW m \in network, Deliver(m) PROVE UNCHANGED <<Log, world>>
  <2>1. /\ m.to \in Slots /\ DOMAIN session = Slots /\ DOMAIN session[m.to] = Fields
    BY DEF AgreementInv, SeatsSound, OnlySealed
  <2>2. session' = [session EXCEPT ![m.to] = Receive(session[m.to], m.packet)]
    BY <1>3 DEF Deliver
  <2>3. Receive(session[m.to], m.packet).nextSeal = session[m.to].nextSeal
    BY <2>1, ReceiveFields
  <2>4. UNCHANGED <<sealed, world>>
    BY <1>3 DEF Deliver
  <2>5. QED
    BY <2>1, <2>2, <2>3, <2>4, LogKept
<1>4. ASSUME NEW s \in Slots, AdvanceTick(s) PROVE [Abstract!Next]_(Abstract!vars)
  BY <1>4, AdvanceExecutes DEF Abstract!Next
<1>5. CASE UNCHANGED vars
  BY <1>5, LogKept DEF vars
<1>6. QED
  BY <1>1, <1>2, <1>3, <1>4, <1>5 DEF Next

\* Any number of sessions, with any delay and any order of delivery, are one log that every
\* seat runs a prefix of (lib.rs: what next_packet, receive and advance together promise).
THEOREM MeshImplementsLockstep == Spec => ImplementsLockstep
<1>1. Spec => []AgreementInv
  BY MeshInvariant
<1>2. Init => WorldsKeyed
  BY DEF Init, WorldsKeyed
<1>3. QED
  BY <1>1, <1>2, KeyedStep, LockstepInit, LockstepStep, PTL DEF Spec, ImplementsLockstep, Abstract!Spec

(***************************************************************************)
(* An order runs at most once on a seat, and no seat ever halts: an order  *)
(* is staged on one seat until it is sealed, then it is one command of one *)
(* packet, and a tick runs each command of its packets once.               *)
(***************************************************************************)
\* Before the first order there is none anywhere.
LEMMA OrdersInit == Init => OrdersInv
BY DEF Init, NewSession, OrdersInv, SealedOrders, StagedOrders

\* A step that stages, seals and issues nothing keeps the invariant.
LEMMA OrdersStill ==
  ASSUME OrdersInv, UNCHANGED <<sealed, issued>>,
         \A s \in Slots : session'[s].staged = session[s].staged
  PROVE  OrdersInv'
<1>1. SealedOrders'
  BY DEF OrdersInv, SealedOrders
<1>2. StagedOrders'
  BY DEF OrdersInv, StagedOrders
<1>3. QED
  BY <1>1, <1>2 DEF OrdersInv

\* An order is issued once, so it is nowhere yet when it is staged.
LEMMA IssueKeepsOrders ==
  ASSUME TypeInv, OrdersInv, NEW s \in Slots, NEW o \in Orders, IssueOrder(s, o)
  PROVE  OrdersInv'
<1> DEFINE x == session[s].staged
<1>1. DOMAIN session = Slots /\ DOMAIN session[s] = Fields /\ x \in Seq(Orders)
  BY DEF TypeInv, SeatsSound, TypeOK
<1>2. /\ session'[s] = Issue(session[s], o)
      /\ \A r \in Slots : r # s => session'[r] = session[r]
  BY Zenon, <1>1, Update DEF IssueOrder
<1>3. session'[s].staged = Append(x, o)
  BY Zenon, <1>1, <1>2 DEF Issue, Fields
<1>4. /\ sealed' = sealed /\ issued' = issued \union {o} /\ o \notin issued
  BY DEF IssueOrder
<1>5. \A i \in DOMAIN Append(x, o) :
        \/ i \in DOMAIN x /\ Append(x, o)[i] = x[i]
        \/ i = Len(x) + 1 /\ Append(x, o)[i] = o
  BY <1>1
<1> HIDE DEF x
<1>6. \A r \in Slots : \A i \in DOMAIN session'[r].staged :
        \/ i \in DOMAIN session[r].staged /\ session'[r].staged[i] = session[r].staged[i]
        \/ r = s /\ i = Len(x) + 1 /\ session'[r].staged[i] = o
  BY <1>2, <1>3, <1>5 DEF x
<1>7. SealedOrders'
  <2>1. \A p \in sealed : \A c \in p.commands : c.payload # o
    BY <1>4 DEF OrdersInv, SealedOrders
  <2>2. QED
    BY <1>4, <1>6, <2>1 DEF OrdersInv, SealedOrders
<1>8. StagedOrders'
  <2>1. \A r \in Slots : \A i \in DOMAIN session[r].staged : session[r].staged[i] # o
    BY <1>4 DEF OrdersInv, StagedOrders
  <2>2. ASSUME NEW r \in Slots, NEW i \in DOMAIN session'[r].staged
        PROVE  /\ session'[r].staged[i] \in issued'
               /\ \A q \in Slots : \A j \in DOMAIN session'[q].staged :
                    session'[r].staged[i] = session'[q].staged[j] => q = r /\ i = j
    BY <1>4, <1>6, <2>1 DEF OrdersInv, StagedOrders
  <2>3. QED
    BY <2>2 DEF StagedOrders
<1>9. QED
  BY <1>7, <1>8 DEF OrdersInv

\* A packet at the horizon takes all that is staged, one command each; another takes none.
LEMMA SealTakesStaged ==
  ASSUME NEW s, DOMAIN s = Fields, s.nextSeq \in Nat, s.staged \in Seq(Orders)
  PROVE  LET cmds == Held(Packet(s)).commands
         IN  \/ cmds = {} /\ Seal(s).staged = s.staged
             \/ /\ Seal(s).staged = <<>>
                /\ IsFiniteSet(cmds)
                /\ \A c \in cmds : /\ c.slot = s.local /\ c.seq \in Nat
                                   /\ \E i \in DOMAIN s.staged : c.payload = s.staged[i]
                /\ \A c, d \in cmds : c.seq = d.seq => c = d
                /\ (\A i, j \in DOMAIN s.staged : s.staged[i] = s.staged[j] => i = j)
                     => \A c, d \in cmds : c.payload = d.payload => c = d
<1> DEFINE C(i) == [slot |-> s.local, seq |-> s.nextSeq + i - 1, payload |-> s.staged[i]]
           cmds == {C(i) : i \in DOMAIN s.staged}
<1>1. Seal(s).staged = IF s.nextSeal = Horizon(s) THEN <<>> ELSE s.staged
  BY Zenon DEF Seal, Fields
<1>2. Held(Packet(s)).commands = IF s.nextSeal = Horizon(s) THEN cmds ELSE {}
  BY DEF Held, Packet, SealedCommands
<1>3. IsFiniteSet(cmds)
  <2> DEFINE f == [i \in 1 .. Len(s.staged) |-> C(i)]
  <2>1. DOMAIN s.staged = 1 .. Len(s.staged) /\ Len(s.staged) \in Nat
    OBVIOUS
  <2>2. f \in Surjection(1 .. Len(s.staged), cmds)
    BY <2>1 DEF Surjection
  <2>3. IsFiniteSet(1 .. Len(s.staged))
    <3> DEFINE n == Len(s.staged)
    <3>1. n \in Int /\ 1 \in Int
      BY <2>1
    <3> HIDE DEF n
    <3>2. IsFiniteSet(1 .. n)
      BY <3>1, FS_Interval
    <3>3. QED
      BY <3>2 DEF n
  <2>4. QED
    BY <2>2, <2>3, FS_Surjection
<1>4. \A i \in DOMAIN s.staged : i \in Nat /\ i >= 1
  OBVIOUS
<1>5. \A c \in cmds : /\ c.slot = s.local /\ c.seq \in Nat
                      /\ \E i \in DOMAIN s.staged : c.payload = s.staged[i]
  BY <1>4
<1>6. \A c, d \in cmds : c.seq = d.seq => c = d
  BY <1>4
<1>7. ASSUME \A i, j \in DOMAIN s.staged : s.staged[i] = s.staged[j] => i = j
      PROVE  \A c, d \in cmds : c.payload = d.payload => c = d
  <2>1. \A i, j \in DOMAIN s.staged : C(i).payload = C(j).payload => i = j
    BY <1>7
  <2> HIDE DEF C
  <2>2. QED
    BY <2>1
<1> HIDE DEF cmds
<1>8. QED
  BY <1>1, <1>2, <1>3, <1>5, <1>6, <1>7

\* What is sealed is staged no longer, and what was sealed before was not staged.
LEMMA SealKeepsOrders ==
  ASSUME TypeInv, OrdersInv, NEW s \in Slots, SealPacket(s)
  PROVE  OrdersInv'
<1> DEFINE x == session[s].staged
           p == Held(Packet(session[s]))
<1>1. /\ DOMAIN session = Slots /\ DOMAIN session[s] = Fields /\ session[s].local = s
      /\ x \in Seq(Orders) /\ session[s].nextSeq \in Nat
  BY DEF TypeInv, SeatsSound, TypeOK
<1>2. /\ session'[s] = Seal(session[s])
      /\ \A r \in Slots : r # s => session'[r] = session[r]
  BY Zenon, <1>1, Update DEF SealPacket
<1>3. sealed' = sealed \union {p} /\ issued' = issued
  BY DEF SealPacket
<1>4. p.from = s
  BY <1>1, PacketFields
<1>5. \A i \in DOMAIN x : /\ x[i] \in issued
                          /\ \A q \in sealed : \A d \in q.commands : d.payload # x[i]
                          /\ \A r \in Slots : r # s =>
                               \A j \in DOMAIN session[r].staged : session[r].staged[j] # x[i]
  BY DEF OrdersInv, SealedOrders, StagedOrders
<1>6. \A i, j \in DOMAIN x : x[i] = x[j] => i = j
  BY DEF OrdersInv, StagedOrders
<1>7. \/ p.commands = {} /\ session'[s].staged = x
      \/ /\ session'[s].staged = <<>>
         /\ IsFiniteSet(p.commands)
         /\ \A c \in p.commands : /\ c.slot = s /\ c.seq \in Nat
                                  /\ \E i \in DOMAIN x : c.payload = x[i]
         /\ \A c, d \in p.commands : c.seq = d.seq => c = d
         /\ \A c, d \in p.commands : c.payload = d.payload => c = d
  BY <1>1, <1>2, <1>6, SealTakesStaged
<1> HIDE DEF p, x
<1>8. \A r \in Slots : \A i \in DOMAIN session'[r].staged :
        i \in DOMAIN session[r].staged /\ session'[r].staged[i] = session[r].staged[i]
  <2>1. \A i \in DOMAIN session'[s].staged :
          i \in DOMAIN session[s].staged /\ session'[s].staged[i] = session[s].staged[i]
    BY <1>7 DEF x
  <2>2. QED
    BY <1>2, <2>1
<1>9. StagedOrders'
  BY <1>3, <1>8 DEF OrdersInv, StagedOrders
<1>10. SealedOrders'
  <2>1. /\ IsFiniteSet(p.commands)
        /\ \A c \in p.commands :
             /\ c.slot = p.from /\ c.seq \in Nat /\ c.payload \in issued
             /\ \A d \in p.commands : c.seq = d.seq => c = d
             /\ \A d \in p.commands : c.payload = d.payload => c = d
             /\ \A q \in sealed : \A d \in q.commands : c.payload # d.payload
    <3>1. CASE p.commands = {}
      BY <3>1, FS_EmptySet
    <3>2. CASE p.commands # {}
      BY <1>4, <1>5, <1>7, <3>2
    <3>3. QED
      BY <3>1, <3>2
  <2>2. \A c \in p.commands : \A r \in Slots : \A i \in DOMAIN session'[r].staged :
          session'[r].staged[i] # c.payload
    <3>1. CASE p.commands = {}
      BY <3>1
    <3>2. CASE session'[s].staged = <<>> /\ \A c \in p.commands : \E i \in DOMAIN x : c.payload = x[i]
      BY <1>2, <1>5, <3>2
    <3>3. QED
      BY <1>7, <3>1, <3>2
  <2>3. ASSUME NEW q \in sealed, NEW c \in q.commands
        PROVE  /\ c.slot = q.from /\ c.seq \in Nat /\ c.payload \in issued
               /\ \A d \in q.commands : c.seq = d.seq => c = d
               /\ \A o \in sealed : \A d \in o.commands : c.payload = d.payload => q = o /\ c = d
               /\ \A d \in p.commands : c.payload # d.payload
               /\ \A r \in Slots : \A i \in DOMAIN session'[r].staged :
                    session'[r].staged[i] # c.payload
    BY <1>8, <2>1 DEF OrdersInv, SealedOrders
  <2>4. \A q \in sealed : IsFiniteSet(q.commands)
    BY DEF OrdersInv, SealedOrders
  <2>5. QED
    BY <1>3, <2>1, <2>2, <2>3, <2>4 DEF SealedOrders
<1>11. QED
  BY <1>9, <1>10 DEF OrdersInv

\* Receiving and running stage, seal and issue nothing.
LEMMA OthersKeepOrders ==
  ASSUME TypeInv, OrdersInv, AgreementInv,
         \/ \E m \in network : Deliver(m)
         \/ \E s \in Slots : AdvanceTick(s)
  PROVE  OrdersInv'
<1>1. DOMAIN session = Slots /\ \A s \in Slots : DOMAIN session[s] = Fields
  BY DEF TypeInv, SeatsSound
<1>2. ASSUME NEW m \in network, Deliver(m) PROVE OrdersInv'
  <2>1. m.to \in Slots
    BY DEF AgreementInv, OnlySealed
  <2>2. /\ session'[m.to] = Receive(session[m.to], m.packet)
        /\ \A r \in Slots : r # m.to => session'[r] = session[r]
    BY Zenon, <1>1, <1>2, <2>1, Update DEF Deliver
  <2>3. session'[m.to].staged = session[m.to].staged
    BY <1>1, <2>1, <2>2, ReceiveFields
  <2>4. UNCHANGED <<sealed, issued>>
    BY <1>2 DEF Deliver
  <2>5. QED
    BY <2>2, <2>3, <2>4, OrdersStill
<1>3. ASSUME NEW s \in Slots, AdvanceTick(s) PROVE OrdersInv'
  <2> DEFINE a == Advance(session[s], world[s])
  <2>1. /\ session'[s] = a.session
        /\ \A r \in Slots : r # s => session'[r] = session[r]
    BY Zenon, <1>1, <1>3, Update DEF AdvanceTick
  <2>2. Ticked(session[s], world[s], a)
    BY <1>1, AdvanceFields
  <2> HIDE DEF a
  <2>3. session'[s].staged = session[s].staged
    BY <2>1, <2>2 DEF Ticked
  <2>4. UNCHANGED <<sealed, issued>>
    BY <1>3 DEF AdvanceTick
  <2>5. QED
    BY <2>1, <2>3, <2>4, OrdersStill
<1>4. QED
  BY <1>2, <1>3

(***************************************************************************)
(* What a tick is to run, and the halt that never comes.                   *)
(***************************************************************************)
\* What the seats sealed for a tick is finite, and its commands are told apart.
LEMMA TickSound ==
  ASSUME AgreementInv, OrdersInv, NEW t
  PROVE  /\ IsFiniteSet(CommandsAt(t)) /\ CommandsAreDistinct(CommandsAt(t))
         /\ \A c \in CommandsAt(t) : c.slot \in Nat /\ c.seq \in Nat
<1> DEFINE Q == {q \in sealed : q.tick = t}
           C == {q.commands : q \in Q}
           from == [q \in Q |-> q.from]
           cmds == [q \in Q |-> q.commands]
<1>1. /\ \A q \in Q : q.from \in Slots /\ IsFiniteSet(q.commands)
      /\ \A p, q \in Q : p.from = q.from => p = q
      /\ \A q \in Q : \A c \in q.commands : /\ c.slot = q.from /\ c.seq \in Nat
                                            /\ \A d \in q.commands : c.seq = d.seq => c = d
  BY DEF AgreementInv, SealedOnce, OrdersInv, SealedOrders
<1>2. CommandsAt(t) = UNION C
  BY DEF CommandsAt
<1> HIDE DEF Q
<1>3. IsFiniteSet(Q)
  <2>1. from \in Injection(Q, Slots)
    BY <1>1 DEF Injection, IsInjective
  <2>2. QED
    BY <2>1, FS_Injection, SessionAssumption
<1>4. IsFiniteSet(C)
  <2>1. cmds \in Surjection(Q, C)
    BY DEF Surjection
  <2>2. QED
    BY <1>3, <2>1, FS_Surjection
<1>5. IsFiniteSet(UNION C)
  <2>1. \A T \in C : IsFiniteSet(T)
    BY <1>1
  <2> HIDE DEF C
  <2>2. QED
    BY <1>4, <2>1, FS_UNION
<1>6. ASSUME NEW a \in UNION C, NEW b \in UNION C, a.slot = b.slot, a.seq = b.seq
      PROVE  a = b
  <2>1. PICK p \in Q, q \in Q : a \in p.commands /\ b \in q.commands
    OBVIOUS
  <2>2. p.from = q.from
    BY <1>1, <1>6, <2>1
  <2>3. QED
    BY <1>1, <1>6, <2>1, <2>2
<1>7. ASSUME NEW c \in UNION C PROVE c.slot \in Nat /\ c.seq \in Nat
  <2>1. PICK q \in Q : c \in q.commands
    OBVIOUS
  <2>2. q.from \in Slots /\ c.slot = q.from /\ c.seq \in Nat
    BY <1>1, <2>1
  <2>3. QED
    BY <2>2, SessionAssumption
<1>8. QED
  BY <1>2, <1>5, <1>6, <1>7 DEF CommandsAreDistinct

\* advance never meets two commands of one seat and number, so no session halts.
LEMMA HaltStep ==
  ASSUME AgreementInv, OrdersInv, NeverHalted, [Next]_vars
  PROVE  NeverHalted'
<1>1. DOMAIN session = Slots /\ \A s \in Slots : DOMAIN session[s] = Fields
  BY DEF AgreementInv, SeatsSound
<1>2. ASSUME NEW s \in Slots, NEW o \in Orders, IssueOrder(s, o) PROVE NeverHalted'
  <2>1. \A r \in Slots : session'[r] = session[r] \/ session'[r] = Issue(session[r], o)
    BY Zenon, <1>1, <1>2, Update DEF IssueOrder
  <2>2. QED
    BY <1>1, <2>1, HaltKept DEF NeverHalted
<1>3. ASSUME NEW s \in Slots, SealPacket(s) PROVE NeverHalted'
  <2>1. \A r \in Slots : session'[r] = session[r] \/ session'[r] = Seal(session[r])
    BY Zenon, <1>1, <1>3, Update DEF SealPacket
  <2>2. QED
    BY <1>1, <2>1, HaltKept DEF NeverHalted
<1>4. ASSUME NEW m \in network, Deliver(m) PROVE NeverHalted'
  <2>1. m.to \in Slots
    BY DEF AgreementInv, OnlySealed
  <2>2. \A r \in Slots : session'[r] = session[r] \/ session'[r] = Receive(session[r], m.packet)
    BY Zenon, <1>1, <1>4, <2>1, Update DEF Deliver
  <2>3. QED
    BY <1>1, <2>2, HaltKept DEF NeverHalted
<1>5. ASSUME NEW s \in Slots, AdvanceTick(s) PROVE NeverHalted'
  <2> DEFINE a == Advance(session[s], world[s])
             next == Append(world[s], OrderCommands(session[s].local, TickCommands(session[s])))
  <2>1. /\ session'[s] = a.session
        /\ \A r \in Slots : r # s => session'[r] = session[r]
    BY Zenon, <1>1, <1>5, Update DEF AdvanceTick
  <2>2. CommandsAreDistinct(TickCommands(session[s]))
    BY <1>5, TickInHand, TickSound DEF AdvanceTick
  <2>3. a.session = Stepped(session[s], next)
    BY <2>2 DEF Advance
  <2> HIDE DEF a, next
  <2>4. QED
    BY <1>1, <2>1, <2>3, HaltKept DEF NeverHalted
<1>6. CASE UNCHANGED vars
  BY <1>6 DEF vars, NeverHalted
<1>7. QED
  BY <1>2, <1>3, <1>4, <1>5, <1>6 DEF Next

(***************************************************************************)
(* The theorems.                                                           *)
(***************************************************************************)
OrderlyInv == AgreementInv /\ TypeInv /\ OrdersInv /\ NeverHalted

\* Every step keeps the bookkeeping of the orders.
LEMMA OrdersNext ==
  ASSUME AgreementInv, TypeInv, OrdersInv, NeverHalted, [Next]_vars
  PROVE  OrdersInv'
<1>2. ASSUME NEW s \in Slots, NEW o \in Orders, IssueOrder(s, o) PROVE OrdersInv'
  BY <1>2, IssueKeepsOrders
<1>3. ASSUME NEW s \in Slots, SealPacket(s) PROVE OrdersInv'
  BY <1>3, SealKeepsOrders
<1>4. ASSUME NEW m \in network, Deliver(m) PROVE OrdersInv'
  BY <1>4, OthersKeepOrders
<1>5. ASSUME NEW s \in Slots, AdvanceTick(s) PROVE OrdersInv'
  BY <1>5, OthersKeepOrders
<1>6. CASE UNCHANGED vars
  BY <1>6, OrdersStill DEF vars
<1>7. QED
  BY <1>2, <1>3, <1>4, <1>5, <1>6 DEF Next

\* In every state of every mesh an order is in one place, staged or sealed.
THEOREM MeshOrderly == Spec => []OrderlyInv
<1>1. Init => OrderlyInv
  <2>1. Init => NeverHalted
    BY DEF Init, NewSession, NeverHalted
  <2>2. QED
    BY <2>1, AgreementInit, TypeInit, OrdersInit DEF OrderlyInv
<1>2. OrderlyInv /\ [Next]_vars => OrderlyInv'
  BY AgreementNext, TypeNext, HaltStep, OrdersNext DEF OrderlyInv
<1>3. QED
  BY <1>1, <1>2, PTL DEF Spec

\* A seat that has run a tick has run each command sealed for it once, and nothing else.
LEMMA TickRuns ==
  ASSUME OrderlyInv, NEW s \in Slots, NEW t \in DOMAIN world[s]
  PROVE  /\ t \in Nat
         /\ \A i \in DOMAIN world[s][t] : world[s][t][i] \in CommandsAt(t - 1)
         /\ \A i, j \in DOMAIN world[s][t] : world[s][t][i] = world[s][t][j] => i = j
         /\ \A c \in CommandsAt(t - 1) : \E i \in DOMAIN world[s][t] : world[s][t][i] = c
<1>1. /\ world[s] = [u \in 1 .. session[s].tick |-> OrderCommands(s, CommandsAt(u - 1))]
      /\ session[s].tick \in Nat
  BY DEF OrderlyInv, AgreementInv, SeatsSound, RanWhatWasSealed
<1>2. t \in 1 .. session[s].tick
  BY <1>1
<1>3. world[s][t] = OrderCommands(s, CommandsAt(t - 1))
  BY Zenon, <1>1, <1>2
<1>4. /\ IsFiniteSet(CommandsAt(t - 1)) /\ CommandsAreDistinct(CommandsAt(t - 1))
      /\ \A c \in CommandsAt(t - 1) : c.slot \in Nat /\ c.seq \in Nat
  BY TickSound DEF OrderlyInv
<1>5. /\ \A i \in DOMAIN world[s][t] : world[s][t][i] \in CommandsAt(t - 1)
      /\ \A i, j \in DOMAIN world[s][t] : world[s][t][i] = world[s][t][j] => i = j
      /\ \A c \in CommandsAt(t - 1) : \E i \in DOMAIN world[s][t] : world[s][t][i] = c
  BY <1>3, <1>4, RunsEachOnce
<1>6. QED
  BY <1>1, <1>2, <1>5

\* An order is in one command of one tick, so it is run in that tick and once.
LEMMA OrderlyImplies == OrderlyInv => OnceEach
<1> SUFFICES ASSUME OrderlyInv, NEW s \in Slots, NEW o \in Orders
             PROVE  /\ Cardinality(RunsAt(s, o)) <= 1
                    /\ \A t \in RunsAt(s, o) : \A i, j \in DOMAIN world[s][t] :
                         world[s][t][i].payload = o /\ world[s][t][j].payload = o => i = j
  BY DEF OnceEach
<1>1. ASSUME NEW t, NEW u, NEW c \in CommandsAt(t), NEW d \in CommandsAt(u),
             c.payload = d.payload
      PROVE  t = u /\ c = d
  <2>1. PICK p \in sealed : p.tick = t /\ c \in p.commands
    BY DEF CommandsAt
  <2>2. PICK q \in sealed : q.tick = u /\ d \in q.commands
    BY DEF CommandsAt
  <2>3. p = q /\ c = d
    BY <1>1, <2>1, <2>2 DEF OrderlyInv, OrdersInv, SealedOrders
  <2>4. QED
    BY <2>1, <2>2, <2>3
<1>2. ASSUME NEW t \in RunsAt(s, o), NEW u \in RunsAt(s, o) PROVE t = u
  <2>1. PICK i \in DOMAIN world[s][t] : world[s][t][i].payload = o
    BY DEF RunsAt
  <2>2. PICK j \in DOMAIN world[s][u] : world[s][u][j].payload = o
    BY DEF RunsAt
  <2>3. /\ t \in Nat /\ world[s][t][i] \in CommandsAt(t - 1)
        /\ u \in Nat /\ world[s][u][j] \in CommandsAt(u - 1)
    BY TickRuns DEF RunsAt
  <2>4. t - 1 = u - 1
    BY <1>1, <2>1, <2>2, <2>3
  <2>5. QED
    BY <2>3, <2>4
<1>3. Cardinality(RunsAt(s, o)) <= 1
  <2>1. CASE RunsAt(s, o) = {}
    BY <2>1, FS_EmptySet
  <2>2. CASE RunsAt(s, o) # {}
    <3>1. PICK t : RunsAt(s, o) = {t}
      BY <1>2, <2>2
    <3>2. Cardinality({t}) = 1
      BY FS_Singleton
    <3>3. QED
      BY <3>1, <3>2
  <2>3. QED
    BY <2>1, <2>2
<1>4. ASSUME NEW t \in RunsAt(s, o), NEW i \in DOMAIN world[s][t], NEW j \in DOMAIN world[s][t],
             world[s][t][i].payload = o, world[s][t][j].payload = o
      PROVE  i = j
  <2>1. t \in DOMAIN world[s]
    BY DEF RunsAt
  <2>2. world[s][t][i] \in CommandsAt(t - 1) /\ world[s][t][j] \in CommandsAt(t - 1)
    BY <2>1, TickRuns
  <2>3. world[s][t][i] = world[s][t][j]
    BY <1>1, <1>4, <2>2
  <2>4. QED
    BY <2>1, <2>3, TickRuns
<1>5. QED
  BY <1>3, <1>4

\* No seat of any mesh runs an order twice, however its packets are delayed, sealed in a
\* burst or put in order.
THEOREM MeshOnceEach == Spec => []OnceEach
BY MeshOrderly, OrderlyImplies, PTL

\* No session of a mesh ever halts: advance meets no two commands of one seat and number.
THEOREM MeshNeverHalts == Spec => []NeverHalted
<1>1. OrderlyInv => NeverHalted
  BY DEF OrderlyInv
<1>2. QED
  BY <1>1, MeshOrderly, PTL

(***************************************************************************)
(* How far the sessions of a mesh drift apart, and that delay and          *)
(* reordering alone never make receive refuse a packet.  Both rest on the  *)
(* agreement invariant: a seat has run a tick only if every other seat has *)
(* sealed it.  From them, what the hashes that travel with the packets     *)
(* are: true, so that no divergence is ever seen that is not there, and    *)
(* never too late to be compared.                                          *)
(***************************************************************************)
Inv == AgreementInv /\ DeliveryInv

\* What a seat has run, every seat has sealed: no seat seals what another has run.
LEMMA SealedBeforeRun ==
  ASSUME AgreementInv, NEW r \in Slots, NEW s \in Slots
  PROVE  session[r].tick <= session[s].nextSeal
<1>1. session[r].tick \in Nat /\ session[s].nextSeal \in Nat
  BY DEF AgreementInv, SeatsSound
<1>2. CASE session[r].tick = 0
  BY <1>1, <1>2
<1>3. CASE session[r].tick # 0
  <2> DEFINE t == session[r].tick - 1
  <2>1. t \in 0 .. session[r].tick - 1
    BY <1>1, <1>3
  <2>2. PICK p \in sealed : p.from = s /\ p.tick = t
    BY <2>1 DEF AgreementInv, RanWhatWasSealed
  <2>3. t < session[s].nextSeal
    BY <2>2 DEF AgreementInv, SealedOnce
  <2>4. QED
    BY <1>1, <2>3
<1>4. QED
  BY <1>2, <1>3

\* In a fresh mesh no seat has sealed anything and nothing is in flight.
LEMMA DeliveryInit == Init => DeliveryInv
<1> SUFFICES ASSUME Init PROVE DeliveryInv
  OBVIOUS
<1>1. \A s \in Slots : /\ session[s].tick = 0 /\ session[s].nextSeal = 0
                       /\ session[s].simulated = -1
  BY DEF Init, NewSession, None
<1>2. WithinHorizon
  BY <1>1, SessionAssumption DEF WithinHorizon
<1>3. StillAwaited
  BY DEF Init, StillAwaited
<1>4. QED
  BY <1>2, <1>3 DEF DeliveryInv

\* A step that sends nothing, seals nothing, runs nothing and puts no packet in hand
\* that is still in flight keeps the invariant.
LEMMA StillStep ==
  ASSUME Inv,
         \A s \in Slots :
           /\ session'[s].tick = session[s].tick
           /\ session'[s].nextSeal = session[s].nextSeal
           /\ session'[s].simulated = session[s].simulated,
         network' \subseteq network,
         \A m \in network' : \A q \in session'[m.to].inbox \ session[m.to].inbox :
           ~(q.from = m.packet.from /\ q.tick = m.packet.tick)
  PROVE  DeliveryInv'
<1>1. WithinHorizon'
  BY DEF Inv, DeliveryInv, WithinHorizon
<1>2. ASSUME NEW m \in network'
      PROVE  /\ m.packet.from # m.to
             /\ m.packet.tick >= session'[m.to].tick
             /\ \A q \in session'[m.to].inbox : ~(q.tick = m.packet.tick /\ q.from = m.packet.from)
             /\ \A c \in m.packet.commands : c.slot = m.packet.from
  <2>1. m \in network /\ m.to \in Slots
    BY DEF Inv, AgreementInv, OnlySealed
  <2>2. \A q \in session[m.to].inbox : ~(q.tick = m.packet.tick /\ q.from = m.packet.from)
    BY <2>1 DEF Inv, DeliveryInv, StillAwaited, HasPacket
  <2>3. QED
    BY <2>1, <2>2 DEF Inv, DeliveryInv, StillAwaited
<1>3. \A m, k \in network' :
        k.to = m.to /\ k.packet.from = m.packet.from /\ k.packet.tick = m.packet.tick
          => k = m
  BY DEF Inv, DeliveryInv, StillAwaited
<1>4. StillAwaited'
  BY <1>2, <1>3 DEF StillAwaited, HasPacket
<1>5. QED
  BY <1>1, <1>4 DEF DeliveryInv

\* Staging an order sends nothing.
LEMMA IssueKeepsDelivery ==
  ASSUME Inv, NEW s \in Slots, NEW o \in Orders, IssueOrder(s, o)
  PROVE  DeliveryInv'
<1>1. DOMAIN session = Slots /\ DOMAIN session[s] = Fields
  BY DEF Inv, AgreementInv, SeatsSound
<1>2. /\ Issue(session[s], o).tick = session[s].tick
      /\ Issue(session[s], o).nextSeal = session[s].nextSeal
      /\ Issue(session[s], o).simulated = session[s].simulated
      /\ Issue(session[s], o).inbox = session[s].inbox
  BY Zenon, <1>1 DEF Issue, Fields
<1>3. /\ session'[s] = Issue(session[s], o)
      /\ \A r \in Slots : r # s => session'[r] = session[r]
  BY Zenon, <1>1, Update DEF IssueOrder
<1>4. network' = network
  BY DEF IssueOrder
<1>5. \A m \in network' : m.to \in Slots
  BY <1>4 DEF Inv, AgreementInv, OnlySealed
<1>6. \A r \in Slots : session'[r].inbox = session[r].inbox
  BY <1>2, <1>3
<1>7. QED
  BY <1>2, <1>3, <1>4, <1>5, <1>6, StillStep

\* The packet delivered was the only one in flight for its recipient, seat and tick.
LEMMA DeliverKeepsDelivery ==
  ASSUME Inv, NEW m \in network, Deliver(m)
  PROVE  DeliveryInv'
<1> DEFINE s == m.to
<1>1. s \in Slots /\ DOMAIN session = Slots /\ DOMAIN session[s] = Fields
  BY DEF Inv, AgreementInv, SeatsSound, OnlySealed
<1>2. /\ session'[s] = Receive(session[s], m.packet)
      /\ \A r \in Slots : r # s => session'[r] = session[r]
  BY Zenon, <1>1, Update DEF Deliver
<1>3. /\ session'[s].inbox \subseteq session[s].inbox \union {Held(m.packet)}
      /\ session'[s].tick = session[s].tick
      /\ session'[s].nextSeal = session[s].nextSeal
      /\ session'[s].simulated = session[s].simulated
  BY <1>1, <1>2, ReceiveFields
<1>4. network' = network \ {m}
  BY DEF Deliver
<1>5. ASSUME NEW k \in network', NEW q \in session'[k.to].inbox \ session[k.to].inbox
      PROVE  ~(q.from = k.packet.from /\ q.tick = k.packet.tick)
  <2>1. k \in network /\ k # m /\ k.to \in Slots
    BY <1>4 DEF Inv, AgreementInv, OnlySealed
  <2>2. k.to = s /\ q = Held(m.packet)
    BY <1>2, <1>3, <2>1
  <2>3. ~(k.packet.from = m.packet.from /\ k.packet.tick = m.packet.tick)
    BY <2>1, <2>2 DEF Inv, DeliveryInv, StillAwaited
  <2>4. QED
    BY <2>2, <2>3, HeldCommands
<1>6. QED
  BY <1>2, <1>3, <1>4, <1>5, StillStep

\* A packet just sealed is for a tick no seat has run and no seat has it of.
LEMMA SealKeepsDelivery ==
  ASSUME Inv, NEW s \in Slots, SealPacket(s)
  PROVE  DeliveryInv'
<1> DEFINE p == Packet(session[s])
           n == session[s].nextSeal
<1>1. /\ DOMAIN session = Slots /\ DOMAIN session[s] = Fields /\ session[s].local = s
      /\ \A r \in Slots : session[r].tick \in Nat /\ session[r].nextSeal \in Nat
  BY DEF Inv, AgreementInv, SeatsSound
<1>2. p.from = s /\ p.tick = n /\ \A c \in p.commands : c.slot = p.from
  BY <1>1, OwnCommands
<1>3. /\ session'[s] = Seal(session[s])
      /\ \A r \in Slots : r # s => session'[r] = session[r]
  BY Zenon, <1>1, Update DEF SealPacket
<1>4. /\ session'[s].tick = session[s].tick
      /\ session'[s].nextSeal = n + 1
      /\ session'[s].simulated = session[s].simulated
      /\ session'[s].inbox = session[s].inbox \union {Held(p)}
  BY <1>1, <1>3, SealFields
<1>5. network' = network \union {[to |-> r, packet |-> p] : r \in Slots \ {s}}
  BY DEF SealPacket
<1>6. Held(p).tick = n /\ Held(p).from = s
  BY <1>2, HeldCommands
<1>7. n <= session[s].tick + InputDelay
  BY DEF SealPacket, CanSeal, Horizon
<1> HIDE DEF p
<1>8. WithinHorizon'
  <2>1. session'[s].nextSeal <= session'[s].tick + InputDelay + 1
    BY <1>1, <1>4, <1>7, SessionAssumption
  <2>2. \A r \in Slots : session'[r].simulated = session'[r].tick - 1
    BY <1>3, <1>4 DEF Inv, DeliveryInv, WithinHorizon
  <2>3. \A r \in Slots : r # s => session'[r].nextSeal <= session'[r].tick + InputDelay + 1
    BY <1>3 DEF Inv, DeliveryInv, WithinHorizon
  <2>4. QED
    BY <2>1, <2>2, <2>3 DEF WithinHorizon
\* What was sealed before is for earlier ticks of s.
<1>9. \A q \in sealed : q.from = s => q.tick < n
  BY DEF Inv, AgreementInv, SealedOnce
<1>10. \A k \in network : /\ k.to \in Slots
                          /\ k.packet.from = s => k.packet.tick < n
  BY <1>9, HeldCommands DEF Inv, AgreementInv, OnlySealed
<1>11. \A r \in Slots : session'[r].tick = session[r].tick
  BY <1>3, <1>4
<1>12. ASSUME NEW m \in network
       PROVE  /\ m.packet.from # m.to
              /\ m.packet.tick >= session'[m.to].tick
              /\ ~HasPacket(session'[m.to], m.packet.from, m.packet.tick)
              /\ \A c \in m.packet.commands : c.slot = m.packet.from
  <2>1. /\ m.packet.from # m.to
        /\ m.packet.tick >= session[m.to].tick
        /\ ~HasPacket(session[m.to], m.packet.from, m.packet.tick)
        /\ \A c \in m.packet.commands : c.slot = m.packet.from
    BY DEF Inv, DeliveryInv, StillAwaited
  <2>2. m.to \in Slots
    BY <1>10
  <2>3. CASE m.to # s
    BY <2>1, <2>2, <2>3, <1>3
  <2>4. CASE m.to = s
    BY <2>1, <2>4, <1>4, <1>6 DEF HasPacket
  <2>5. QED
    BY <2>3, <2>4
<1>13. ASSUME NEW r \in Slots \ {s}
       PROVE  p.tick >= session'[r].tick /\ ~HasPacket(session'[r], s, n)
  <2>1. session'[r] = session[r]
    BY <1>3
  <2>2. session[r].tick <= n
    BY SealedBeforeRun DEF Inv
  <2>3. \A q \in session[r].inbox : q \in sealed
    BY DEF Inv, AgreementInv, OnlySealed
  <2>4. ~HasPacket(session[r], s, n)
    BY <1>1, <1>9, <2>3 DEF HasPacket
  <2>5. QED
    BY <1>1, <1>2, <2>1, <2>2, <2>4
<1>14. ASSUME NEW m \in network', NEW k \in network',
              k.to = m.to, k.packet.from = m.packet.from, k.packet.tick = m.packet.tick
       PROVE  k = m
  <2>1. CASE m \in network /\ k \in network
    BY <2>1, <1>14 DEF Inv, DeliveryInv, StillAwaited
  <2>2. \A x \in network' \ network : x = [to |-> x.to, packet |-> p]
    BY <1>5
  <2>3. \A x \in network' \ network : x.packet.from = s /\ x.packet.tick = n
    BY <1>2, <2>2
  <2>4. \A x \in network : ~(x.packet.from = s /\ x.packet.tick = n)
    BY <1>1, <1>10
  <2>5. CASE m \notin network /\ k \notin network
    BY <2>2, <2>5, <1>14
  <2>6. QED
    BY <2>1, <2>3, <2>4, <2>5, <1>14
<1>15. ASSUME NEW m \in network' \ network
       PROVE  /\ m.packet.from # m.to
              /\ m.packet.tick >= session'[m.to].tick
              /\ ~HasPacket(session'[m.to], m.packet.from, m.packet.tick)
              /\ \A c \in m.packet.commands : c.slot = m.packet.from
  <2>1. m.packet = p /\ m.to \in Slots \ {s}
    BY <1>5
  <2>2. QED
    BY <2>1, <1>2, <1>13
<1>16. StillAwaited'
  BY <1>12, <1>14, <1>15 DEF StillAwaited
<1>17. QED
  BY <1>8, <1>16 DEF DeliveryInv

\* A tick that runs had every packet for it in hand: none is left in flight.
LEMMA AdvanceKeepsDelivery ==
  ASSUME Inv, NEW s \in Slots, AdvanceTick(s)
  PROVE  DeliveryInv'
<1> DEFINE a == Advance(session[s], world[s])
           n == session[s].tick
<1>1. /\ DOMAIN session = Slots /\ DOMAIN session[s] = Fields
      /\ n \in Nat /\ session[s].nextSeal \in Nat
      /\ session[s].retired = [x \in Slots |-> None]
  BY DEF Inv, AgreementInv, SeatsSound
<1>2. /\ session'[s] = a.session
      /\ \A r \in Slots : r # s => session'[r] = session[r]
  BY Zenon, <1>1, Update DEF AdvanceTick
<1>3. /\ a.session.nextSeal = session[s].nextSeal
      /\ a.session.inbox \subseteq session[s].inbox
      /\ \/ a.session.tick = n /\ a.session.simulated = session[s].simulated
         \/ a.session.tick = n + 1 /\ a.session.simulated = n
  <2>1. Ticked(session[s], world[s], a)
    BY <1>1, AdvanceFields
  <2> HIDE DEF a
  <2>2. QED
    BY <1>1, <2>1 DEF Ticked
<1> HIDE DEF a
<1>4. network' = network
  BY DEF AdvanceTick
<1>5. \A x \in Slots : HasPacket(session[s], x, n)
  <2>1. \A x \in Slots : ~IsRetired(session[s], x, n)
    BY <1>1 DEF IsRetired
  <2>2. Missing(session[s]) = {}
    BY DEF AdvanceTick, Ready
  <2>3. QED
    BY <2>1, <2>2 DEF Missing
<1>6. WithinHorizon'
  <2>1. /\ session'[s].nextSeal <= session'[s].tick + InputDelay + 1
        /\ session'[s].simulated = session'[s].tick - 1
    BY <1>1, <1>2, <1>3, SessionAssumption DEF Inv, DeliveryInv, WithinHorizon
  <2>2. QED
    BY <1>2, <2>1 DEF Inv, DeliveryInv, WithinHorizon
<1>7. ASSUME NEW m \in network
      PROVE  /\ m.packet.tick >= session'[m.to].tick
             /\ ~HasPacket(session'[m.to], m.packet.from, m.packet.tick)
  <2>1. /\ m.packet.tick >= session[m.to].tick
        /\ ~HasPacket(session[m.to], m.packet.from, m.packet.tick)
        /\ m.to \in Slots /\ m.packet.from \in Slots /\ m.packet.tick \in Nat
    BY HeldCommands DEF Inv, DeliveryInv, StillAwaited, AgreementInv, OnlySealed, SealedOnce
  <2>2. CASE m.to # s
    BY <1>2, <2>1, <2>2
  <2>3. CASE m.to = s
    <3>1. m.packet.tick # n
      BY <1>5, <2>1, <2>3
    <3>2. m.packet.tick >= n + 1
      BY <1>1, <2>1, <2>3, <3>1
    <3>3. ~HasPacket(session'[s], m.packet.from, m.packet.tick)
      BY <1>2, <1>3, <2>1, <2>3 DEF HasPacket
    <3>4. session'[s].tick = n \/ session'[s].tick = n + 1
      BY <1>2, <1>3
    <3>5. QED
      BY <1>1, <2>1, <2>3, <3>2, <3>3, <3>4
  <2>4. QED
    BY <2>2, <2>3
<1>8. StillAwaited'
  BY <1>4, <1>7 DEF Inv, DeliveryInv, StillAwaited
<1>9. QED
  BY <1>6, <1>8 DEF DeliveryInv

\* Every step of the mesh keeps the invariant.
LEMMA DeliveryNext == Inv /\ [Next]_vars => DeliveryInv'
<1> SUFFICES ASSUME Inv, [Next]_vars PROVE DeliveryInv'
  OBVIOUS
<1>1. ASSUME NEW s \in Slots, NEW o \in Orders, IssueOrder(s, o) PROVE DeliveryInv'
  BY <1>1, IssueKeepsDelivery
<1>2. ASSUME NEW s \in Slots, SealPacket(s) PROVE DeliveryInv'
  BY <1>2, SealKeepsDelivery
<1>3. ASSUME NEW m \in network, Deliver(m) PROVE DeliveryInv'
  BY <1>3, DeliverKeepsDelivery
<1>4. ASSUME NEW s \in Slots, AdvanceTick(s) PROVE DeliveryInv'
  BY <1>4, AdvanceKeepsDelivery
<1>5. CASE UNCHANGED vars
  BY <1>5, StillStep DEF vars
<1>6. QED
  BY <1>1, <1>2, <1>3, <1>4, <1>5 DEF Next

\* In every state of every mesh, a packet in flight is one its recipient still awaits.
THEOREM MeshDeliveryInvariant == Spec => []DeliveryInv
<1>1. Init => Inv
  BY AgreementInit, DeliveryInit DEF Inv
<1>2. Inv /\ [Next]_vars => Inv'
  BY AgreementNext, DeliveryNext DEF Inv
<1>3. Spec => []Inv
  BY <1>1, <1>2, PTL DEF Spec
<1>4. Inv => DeliveryInv
  BY DEF Inv
<1>5. QED
  BY <1>3, <1>4, PTL

\* The invariants bound the lead: whoever has run a tick has every seat's packet for
\* it, and a seat seals no more than the input delay past its own tick.
LEMMA LeadIsBounded == AgreementInv /\ DeliveryInv => BoundedLead
<1> SUFFICES ASSUME AgreementInv, DeliveryInv, NEW r \in Slots, NEW s \in Slots
             PROVE  session[r].tick <= session[s].tick + InputDelay + 1
  BY DEF BoundedLead
<1>1. session[r].tick <= session[s].nextSeal
  BY SealedBeforeRun
<1>2. session[s].nextSeal <= session[s].tick + InputDelay + 1
  BY DEF DeliveryInv, WithinHorizon
<1>3. session[r].tick \in Nat /\ session[s].tick \in Nat /\ session[s].nextSeal \in Nat
  BY DEF AgreementInv, SeatsSound
<1>4. QED
  BY <1>1, <1>2, <1>3, SessionAssumption

\* No seat of any mesh runs more than the input delay and a tick ahead of another,
\* however the packets are delayed (advance waits for every seat's packet).
THEOREM MeshLead == Spec => []BoundedLead
BY MeshInvariant, MeshDeliveryInvariant, LeadIsBounded, PTL

\* A packet in flight falls within the slack of its recipient's horizon.
LEMMA NothingRefused ==
  ASSUME LeadSlack > InputDelay, AgreementInv, DeliveryInv
  PROVE  NeverRefused
<1> SUFFICES ASSUME NEW m \in network
             PROVE  ~IsError(Verdict(session[m.to], m.packet))
  BY DEF NeverRefused
<1> DEFINE s == session[m.to]
           p == m.packet
           x == session[p.from]
<1>1. m.to \in Slots /\ p.from \in Slots /\ p.tick \in Nat /\ p.tick < x.nextSeal
  BY HeldCommands DEF AgreementInv, OnlySealed, SealedOnce
<1>2. s.local = m.to /\ s.tick \in Nat /\ x.tick \in Nat /\ x.nextSeal \in Nat
  BY <1>1 DEF AgreementInv, SeatsSound
<1>3. /\ p.from # s.local
      /\ \A c \in p.commands : c.slot = p.from
      /\ ~HasPacket(s, p.from, p.tick)
      /\ p.tick >= s.tick
  BY <1>2 DEF DeliveryInv, StillAwaited
<1>4. s.simulated = s.tick - 1 /\ x.nextSeal <= x.tick + InputDelay + 1
  BY <1>1 DEF DeliveryInv, WithinHorizon
<1>5. ~(p.tick <= s.simulated)
  BY <1>1, <1>2, <1>3, <1>4
<1>6. x.tick <= s.tick + InputDelay + 1
  BY <1>1, LeadIsBounded DEF BoundedLead
<1>7. ~(p.tick > Horizon(s) + LeadSlack)
  <2>1. p.tick <= s.tick + InputDelay + (InputDelay + 1)
    BY <1>1, <1>2, <1>4, <1>6, SessionAssumption
  <2>2. QED
    BY <1>1, <1>2, <2>1, SessionAssumption DEF Horizon
<1>8. Verdict(s, p) \in {"Ignored", "Accepted"}
  BY <1>1, <1>3, <1>5, <1>7 DEF Verdict
<1>9. QED
  BY <1>8 DEF IsError

\* With more slack than input delay (every configuration the game makes), receive
\* refuses no packet of an honest seat, however late or out of order.
THEOREM MeshRefusesNothing ==
  ASSUME LeadSlack > InputDelay
  PROVE  Spec => []NeverRefused
<1>1. AgreementInv /\ DeliveryInv => NeverRefused
  BY NothingRefused
<1>2. QED
  BY <1>1, MeshInvariant, MeshDeliveryInvariant, PTL

(***************************************************************************)
(* The ring of hashes.                                                     *)
(***************************************************************************)
\* A ring of n ticks has the hashes of those from the oldest on.
LEMMA RingHash ==
  ASSUME NEW s, NEW n \in Nat, s.history = Ring(n), NEW t \in Nat
  PROVE  /\ HasHash(s, t) <=> Oldest(n) <= t /\ t < n
         /\ HasHash(s, t) => HashAt(s, t) = WorldAfter(t)
<1>1. Oldest(n) \in 0 .. n
  BY SessionAssumption DEF Oldest
<1>2. /\ DOMAIN s.history = 1 .. n - Oldest(n)
      /\ \A i \in 1 .. n - Oldest(n) : /\ s.history[i].tick = Oldest(n) + i - 1
                                      /\ s.history[i].hash = WorldAfter(Oldest(n) + i - 1)
  BY DEF Ring
<1>3. HasHash(s, t) <=> \E i \in 1 .. n - Oldest(n) : Oldest(n) + i - 1 = t
  BY <1>2 DEF HasHash
<1>4. HasHash(s, t) <=> Oldest(n) <= t /\ t < n
  <2>1. ASSUME Oldest(n) <= t, t < n PROVE HasHash(s, t)
    <3>1. t - Oldest(n) + 1 \in 1 .. n - Oldest(n)
      BY <1>1, <2>1
    <3>2. Oldest(n) + (t - Oldest(n) + 1) - 1 = t
      BY <1>1
    <3>3. QED
      BY <1>3, <3>1, <3>2
  <2>2. ASSUME HasHash(s, t) PROVE Oldest(n) <= t /\ t < n
    BY <1>1, <1>3, <2>2
  <2>3. QED
    BY <2>1, <2>2
<1>5. ASSUME HasHash(s, t) PROVE HashAt(s, t) = WorldAfter(t)
  <2> DEFINE i == CHOOSE j \in DOMAIN s.history : s.history[j].tick = t
  <2>1. i \in DOMAIN s.history /\ s.history[i].tick = t
    BY <1>5 DEF HasHash
  <2>2. HashAt(s, t) = s.history[i].hash
    BY DEF HashAt
  <2> HIDE DEF i
  <2>3. Oldest(n) + i - 1 = t
    BY <1>2, <2>1
  <2>4. QED
    BY <1>2, <2>1, <2>2, <2>3
<1>6. QED
  BY <1>4, <1>5

\* Pushing the next tick's hash keeps the ring: the oldest goes when it is full.
LEMMA RingPush ==
  ASSUME NEW n \in Nat
  PROVE  Push(Ring(n), n, WorldAfter(n)) = Ring(n + 1)
<1> DEFINE old == Oldest(n)
           new == Oldest(n + 1)
           E(t) == [tick |-> t, hash |-> WorldAfter(t)]
           S == {E(t) : t \in 0 .. n}
           f == IF Len(Ring(n)) = HistoryLength THEN Tail(Ring(n)) ELSE Ring(n)
           m == n - new
<1>1. /\ old \in 0 .. n /\ new \in 0 .. n
      /\ n - old = HistoryLength => new = old + 1
      /\ n - old # HistoryLength => new = old
  BY SessionAssumption DEF Oldest
<1>2. Ring(n) \in [1 .. n - old -> S]
  <2>1. \A i \in 1 .. n - old : old + i - 1 \in 0 .. n
    BY <1>1
  <2>2. QED
    BY <2>1 DEF Ring
<1>3. Ring(n + 1) \in [1 .. m + 1 -> S]
  <2>1. \A i \in 1 .. m + 1 : new + i - 1 \in 0 .. n
    BY <1>1
  <2>2. \A i \in 1 .. m + 1 : E(new + i - 1) \in S
    BY <2>1
  <2>3. (n + 1) - new = m + 1
    BY <1>1
  <2>4. Ring(n + 1) = [i \in 1 .. m + 1 |-> E(new + i - 1)]
    BY <2>3 DEF Ring
  <2> HIDE DEF E, S, m, new
  <2>5. QED
    BY <2>2, <2>4
<1>4. Ring(n) \in Seq(S) /\ Len(Ring(n)) = n - old
  BY <1>1, <1>2
<1>5. \A i \in 1 .. n - old : Ring(n)[i] = E(old + i - 1)
  BY DEF Ring
<1>6. \A i \in 1 .. m + 1 : Ring(n + 1)[i] = E(new + i - 1)
  BY <1>1 DEF Ring
<1> HIDE DEF E, S, old, new
<1>7. f \in [1 .. m -> S] /\ \A i \in 1 .. m : Ring(n + 1)[i] = f[i]
  <2>1. CASE n - old = HistoryLength
    <3>1. f = Tail(Ring(n)) /\ n - old >= 1
      BY <1>4, <2>1, SessionAssumption
    <3>2. /\ Tail(Ring(n)) \in Seq(S) /\ Len(Tail(Ring(n))) = n - old - 1
          /\ \A i \in 1 .. n - old - 1 : Tail(Ring(n))[i] = Ring(n)[i + 1]
      BY <1>1, <1>4, <3>1
    <3>3. m = n - old - 1
      BY <1>1, <2>1
    <3>4. f \in [1 .. m -> S]
      <4>1. \A g \in Seq(S) : g \in [1 .. Len(g) -> S]
        OBVIOUS
      <4>2. Tail(Ring(n)) \in [1 .. n - old - 1 -> S]
        BY <3>2, <4>1
      <4>3. QED
        BY <3>1, <3>3, <4>2
    <3>5. ASSUME NEW i \in 1 .. m PROVE Ring(n + 1)[i] = f[i]
      <4>1. f[i] = E(old + (i + 1) - 1)
        BY <1>1, <1>5, <3>1, <3>2, <3>3
      <4>2. Ring(n + 1)[i] = E(new + i - 1)
        BY <1>1, <1>6
      <4>3. old + (i + 1) - 1 = new + i - 1
        BY <1>1, <2>1
      <4>4. QED
        BY <4>1, <4>2, <4>3
    <3>6. QED
      BY <3>4, <3>5
  <2>2. CASE n - old # HistoryLength
    <3>1. f = Ring(n) /\ m = n - old /\ new = old
      BY <1>1, <1>4, <2>2
    <3>2. QED
      BY <1>1, <1>2, <1>5, <1>6, <3>1
  <2>3. QED
    BY <2>1, <2>2
<1>8. Ring(n + 1)[m + 1] = E(n)
  BY <1>1, <1>6
<1>9. Push(Ring(n), n, WorldAfter(n)) = Append(f, E(n))
  BY DEF Push, E
<1> HIDE DEF f
<1>10. m \in Nat
  BY <1>1
<1>11. Append(f, Ring(n + 1)[m + 1]) = Ring(n + 1)
  <2> HIDE DEF m
  <2>1. QED
    BY <1>3, <1>7, <1>10, AppendEntry
<1>12. QED
  BY <1>8, <1>9, <1>11

(***************************************************************************)
(* What each operation does to the hashes a session keeps.                 *)
(***************************************************************************)
\* A hash that is one's own, where one still has it.
Agrees(s, c) == c.tick \in Nat /\ (HasHash(s, c.tick) => c.hash = HashAt(s, c.tick))

\* The hashes and claims of a session that next_packet does not touch.
LEMMA SealHashes ==
  ASSUME NEW s, DOMAIN s = Fields
  PROVE  /\ Seal(s).claims = s.claims /\ Seal(s).history = s.history
         /\ Seal(s).divergence = s.divergence /\ Seal(s).floor = s.floor
         /\ Seal(s).ackedThrough =
              IF SealedAcks(s) = {} THEN s.ackedThrough ELSE Max(AckTicks(SealedAcks(s)))
BY Zenon DEF Seal, Fields

\* check_claims finds nothing wrong with claims that agree, and drops those it compared.
LEMMA ClaimsSettled ==
  ASSUME NEW s, DOMAIN s = Fields, NEW T,
         s.divergence = None, s.floor = None,
         \A c \in s.claims : Agrees(s, c)
  PROVE  /\ CheckClaims(s, T).divergence = None /\ CheckClaims(s, T).floor = None
         /\ CheckClaims(s, T).history = s.history
         /\ CheckClaims(s, T).ackedThrough = s.ackedThrough
         /\ CheckClaims(s, T).claims =
              {c \in s.claims : ~(c.tick \in T /\ HasHash(s, c.tick))}
<1> DEFINE compared == {t \in T : /\ HasHash(s, t) /\ t > s.floor
                                 /\ \E c \in s.claims : c.tick = t}
           wrong == {t \in compared :
                       \E c \in s.claims : c.tick = t /\ c.hash # HashAt(s, t)}
<1>1. /\ CheckClaims(s, T).floor = s.floor
      /\ CheckClaims(s, T).history = s.history
      /\ CheckClaims(s, T).ackedThrough = s.ackedThrough
      /\ CheckClaims(s, T).claims = {c \in s.claims : c.tick \notin compared}
      /\ CheckClaims(s, T).divergence =
           IF s.divergence = None /\ wrong # {} THEN Min(wrong) ELSE s.divergence
  BY Zenon DEF CheckClaims, Fields
<1>2. wrong = {}
  BY DEF Agrees
<1>3. \A c \in s.claims : c.tick \in compared <=> c.tick \in T /\ HasHash(s, c.tick)
  <2>1. \A c \in s.claims : c.tick > s.floor
    BY DEF Agrees, None
  <2>2. QED
    BY <2>1
<1> HIDE DEF compared, wrong
<1>4. QED
  BY <1>1, <1>2, <1>3

\* The claims left after receive are those it had, and a packet's hashes for ticks the
\* session has no hash of.
LEMMA ReceiveClaims ==
  ASSUME NEW s, DOMAIN s = Fields, NEW p,
         s.divergence = None, s.floor = None,
         \A c \in s.claims : Agrees(s, c),
         \A a \in p.acks : Agrees(s, a)
  PROVE  /\ Receive(s, p).divergence = None /\ Receive(s, p).floor = None
         /\ Receive(s, p).history = s.history
         /\ Receive(s, p).ackedThrough = s.ackedThrough
         /\ \A c \in Receive(s, p).claims :
              \/ c \in s.claims
              \/ /\ ~HasHash(s, c.tick)
                 /\ \E a \in p.acks : c = [tick |-> a.tick, slot |-> p.from, hash |-> a.hash]
<1> DEFINE mine == {[tick |-> a.tick, slot |-> p.from, hash |-> a.hash] : a \in p.acks}
           kept == s.claims \ {c \in s.claims : c.slot = p.from /\ c.tick \in AckTicks(p.acks)}
           claimed == [s EXCEPT !.inbox = @ \union {Held(p)}, !.claims = kept \union mine]
<1>1. /\ DOMAIN claimed = Fields
      /\ claimed.divergence = s.divergence /\ claimed.floor = s.floor
      /\ claimed.history = s.history /\ claimed.ackedThrough = s.ackedThrough
      /\ claimed.claims = kept \union mine
  BY Zenon DEF Fields
<1>2. Received(s, p) = CheckClaims(claimed, AckTicks(p.acks))
  BY Zenon DEF Received
<1>3. \A c \in mine : c.tick \in AckTicks(p.acks)
  BY DEF AckTicks
<1>4. \A t : HasHash(claimed, t) = HasHash(s, t) /\ HashAt(claimed, t) = HashAt(s, t)
  BY <1>1 DEF HasHash, HashAt
<1>5. \A c \in kept \union mine : Agrees(claimed, c)
  <2>1. \A c \in kept \union mine : Agrees(s, c)
    <3>1. \A c \in kept : c \in s.claims
      OBVIOUS
    <3>2. \A c \in mine : \E a \in p.acks : c.tick = a.tick /\ c.hash = a.hash
      OBVIOUS
    <3>3. QED
      BY <3>1, <3>2 DEF Agrees
  <2>2. QED
    BY <1>4, <2>1 DEF Agrees
<1> HIDE DEF claimed
<1>6. /\ Received(s, p).divergence = None /\ Received(s, p).floor = None
      /\ Received(s, p).history = s.history
      /\ Received(s, p).ackedThrough = s.ackedThrough
      /\ Received(s, p).claims =
           {c \in kept \union mine : ~(c.tick \in AckTicks(p.acks) /\ HasHash(claimed, c.tick))}
  BY <1>1, <1>2, <1>5, ClaimsSettled
<1>7. CASE Verdict(s, p) = "Accepted"
  <2>1. Receive(s, p) = Received(s, p)
    BY <1>7 DEF Receive
  <2>2. \A c \in Received(s, p).claims :
          \/ c \in s.claims
          \/ /\ ~HasHash(s, c.tick)
             /\ \E a \in p.acks : c = [tick |-> a.tick, slot |-> p.from, hash |-> a.hash]
    BY <1>3, <1>4, <1>6
  <2>3. QED
    BY <1>6, <2>1, <2>2
<1>8. CASE Verdict(s, p) # "Accepted"
  BY <1>8 DEF Receive
<1>9. QED
  BY <1>7, <1>8

\* A tick run puts its hash in the ring, and settles the claims about it.
LEMMA SteppedClaims ==
  ASSUME NEW s, DOMAIN s = Fields, NEW n \in Nat, s.tick = n,
         s.divergence = None, s.floor = None, s.history = Ring(n),
         \A c \in s.claims : c.tick \in Nat /\ c.hash = WorldAfter(c.tick)
  PROVE  LET ran == Stepped(s, WorldAfter(n))
         IN  /\ ran.divergence = None /\ ran.floor = None
             /\ ran.history = Ring(n + 1)
             /\ ran.ackedThrough = s.ackedThrough
             /\ ran.claims = {c \in s.claims : c.tick # n}
<1> DEFINE w == WorldAfter(n)
           ran == [s EXCEPT !.inbox = {p \in @ : p.tick # s.tick},
                            !.history = Push(@, s.tick, w),
                            !.simulated = s.tick,
                            !.tick = @ + 1]
<1>1. Push(s.history, s.tick, w) = Ring(n + 1)
  BY RingPush
<1>2. Stepped(s, w) = CheckClaims(ran, {s.tick})
  BY Zenon DEF Stepped
<1> HIDE DEF w
<1>3. /\ DOMAIN ran = Fields
      /\ ran.divergence = s.divergence /\ ran.floor = s.floor
      /\ ran.ackedThrough = s.ackedThrough /\ ran.claims = s.claims
      /\ ran.history = Push(s.history, s.tick, w)
  BY Zenon DEF Fields
<1> HIDE DEF ran
<1>4. \A t \in Nat : /\ HasHash(ran, t) <=> Oldest(n + 1) <= t /\ t < n + 1
                     /\ HasHash(ran, t) => HashAt(ran, t) = WorldAfter(t)
  BY <1>1, <1>3, RingHash
<1>5. HasHash(ran, n)
  <2>1. Oldest(n + 1) <= n
    BY SessionAssumption DEF Oldest
  <2>2. QED
    BY <1>4, <2>1
<1>6. \A c \in ran.claims : Agrees(ran, c)
  BY <1>3, <1>4 DEF Agrees
<1>7. /\ Stepped(s, w).divergence = None /\ Stepped(s, w).floor = None
      /\ Stepped(s, w).history = Ring(n + 1)
      /\ Stepped(s, w).ackedThrough = s.ackedThrough
      /\ Stepped(s, w).claims = {c \in s.claims : ~(c.tick \in {n} /\ HasHash(ran, c.tick))}
  BY <1>1, <1>2, <1>3, <1>6, ClaimsSettled
<1>8. \A c \in s.claims : ~(c.tick \in {n} /\ HasHash(ran, c.tick)) <=> c.tick # n
  BY <1>5
<1>9. QED
  BY <1>7, <1>8 DEF w

\* advance either runs a tick, or leaves all but the halt of a session as it was.
RanOrHalted(s, w, a) ==
  \/ /\ a.world = Append(w, OrderCommands(s.local, TickCommands(s)))
     /\ a.session = Stepped(s, a.world)
     /\ CommandsAreDistinct(TickCommands(s))
  \/ /\ a.world = w
     /\ ~CommandsAreDistinct(TickCommands(s))
     /\ \A f \in Fields \ {"halt"} : a.session[f] = s[f]

LEMMA AdvanceCases ==
  ASSUME NEW s, DOMAIN s = Fields, NEW w
  PROVE  RanOrHalted(s, w, Advance(s, w))
<1> USE DEF RanOrHalted
<1>1. \A f \in Fields \ {"halt"} : Halt(s, "Protocol")[f] = s[f]
  BY Zenon DEF Halt, Fields
<1>2. CASE CommandsAreDistinct(TickCommands(s))
  BY <1>2 DEF Advance
<1>3. CASE ~CommandsAreDistinct(TickCommands(s))
  BY <1>1, <1>3 DEF Advance
<1>4. QED
  BY <1>2, <1>3

(***************************************************************************)
(* The hashes, from the start and through every action.                    *)
(***************************************************************************)
\* Before the first tick there is nothing to claim.
LEMMA HashInit == Init => HashInv
<1> SUFFICES ASSUME Init PROVE HashInv
  OBVIOUS
<1>1. \A s \in Slots : /\ session[s].tick = 0 /\ session[s].history = <<>>
                       /\ session[s].claims = {} /\ session[s].divergence = None
                       /\ session[s].floor = None
  BY DEF Init, NewSession
<1>2. Ring(0) = <<>>
  BY SessionAssumption DEF Ring, Oldest
<1>3. QED
  BY <1>1, <1>2 DEF Init, HashInv, HistoryIsRing, HashesTrue, NoFalseDivergence

\* A step keeps the hashes true if no world that has been run changes, and what it puts
\* in the rings, the claims and the network is true.
LEMMA HashStep ==
  ASSUME HashInv,
         \A r \in Slots : /\ session[r].tick \in Nat /\ session'[r].tick \in Nat
                          /\ session'[r].tick >= session[r].tick,
         \A r \in Slots : \A t \in Nat : t < session[r].tick => WorldAfter(t)' = WorldAfter(t),
         \A r \in Slots : session'[r].history = Ring(session[r].tick)',
         \A r \in Slots :
           /\ session'[r].divergence = None /\ session'[r].floor = None
           /\ \A c \in session'[r].claims : TrueHash(c.slot, c),
         \A m \in network' : \A a \in m.packet.acks : TrueHash(m.packet.from, a)
  PROVE  HashInv'
<1>1. ASSUME NEW x, NEW a, TrueHash(x, a) PROVE TrueHash(x, a)'
  BY <1>1 DEF TrueHash
<1>2. HashesTrue'
  BY <1>1 DEF HashesTrue
<1>3. HistoryIsRing' /\ NoFalseDivergence'
  BY DEF HistoryIsRing, NoFalseDivergence
<1>4. QED
  BY <1>2, <1>3 DEF HashInv

\* A ring of ticks whose worlds stay as they were stays as it was.
LEMMA RingKept ==
  ASSUME NEW n \in Nat, \A t \in Nat : t < n => WorldAfter(t)' = WorldAfter(t)
  PROVE  Ring(n)' = Ring(n)
<1>1. Oldest(n) \in 0 .. n
  BY SessionAssumption DEF Oldest
<1>2. \A i \in 1 .. n - Oldest(n) : Oldest(n) + i - 1 \in Nat /\ Oldest(n) + i - 1 < n
  BY <1>1
<1>3. QED
  BY <1>2 DEF Ring

\* Only sealing changes what a world is to be.
LEMMA WorldAfterKept ==
  ASSUME UNCHANGED sealed
  PROVE  \A t : WorldAfter(t)' = WorldAfter(t) /\ Ring(t)' = Ring(t)
<1>1. \A t : CommandsAt(t)' = CommandsAt(t)
  BY DEF CommandsAt
<1>2. \A t : WorldAfter(t)' = WorldAfter(t)
  BY <1>1 DEF WorldAfter
<1>3. QED
  BY <1>2 DEF Ring

\* A hash that is true agrees with one's own.
LEMMA TrueAgrees ==
  ASSUME AgreementInv, HashInv, NEW s \in Slots, NEW x, NEW a, TrueHash(x, a)
  PROVE  Agrees(session[s], a)
<1>1. session[s].tick \in Nat /\ session[s].history = Ring(session[s].tick)
  BY DEF AgreementInv, SeatsSound, HashInv, HistoryIsRing
<1>2. a.tick \in Nat /\ a.hash = WorldAfter(a.tick)
  BY DEF TrueHash
<1>3. QED
  BY <1>1, <1>2, RingHash DEF Agrees

\* A step of one seat that seals nothing.
LEMMA OneSeatHashes ==
  ASSUME AgreementInv, HashInv, NEW s \in Slots, UNCHANGED sealed, network' \subseteq network,
         \A r \in Slots : r # s => session'[r] = session[r],
         session'[s].tick \in Nat, session'[s].tick >= session[s].tick,
         session'[s].history = Ring(session'[s].tick),
         session'[s].divergence = None, session'[s].floor = None,
         \A c \in session'[s].claims : TrueHash(c.slot, c)
  PROVE  HashInv'
<1>1. \A r \in Slots : /\ session[r].tick \in Nat /\ session'[r].tick \in Nat
                       /\ session'[r].tick >= session[r].tick
  BY DEF AgreementInv, SeatsSound
<1>2. \A t : WorldAfter(t)' = WorldAfter(t) /\ Ring(t)' = Ring(t)
  BY WorldAfterKept
<1>3. \A r \in Slots : session'[r].history = Ring(session[r].tick)'
  <2>1. \A r \in Slots : session'[r].history = Ring(session'[r].tick)
    BY DEF HashInv, HistoryIsRing
  <2>2. \A r \in Slots : \A t : Ring(t)' = Ring(t)
    BY <1>2
  <2>3. \A r \in Slots : Ring(session[r].tick)' = Ring(session'[r].tick)
    BY <1>2 DEF Ring
  <2>4. QED
    BY <2>1, <2>3
<1>4. \A r \in Slots :
        /\ session'[r].divergence = None /\ session'[r].floor = None
        /\ \A c \in session'[r].claims : TrueHash(c.slot, c)
  BY DEF HashInv, HashesTrue, NoFalseDivergence
<1>5. \A m \in network' : \A a \in m.packet.acks : TrueHash(m.packet.from, a)
  BY DEF HashInv, HashesTrue
<1>6. QED
  BY <1>1, <1>2, <1>3, <1>4, <1>5, HashStep

\* Staging an order touches no hash.
LEMMA IssueKeepsHashes ==
  ASSUME Inv, HashInv, NEW s \in Slots, NEW o \in Orders, IssueOrder(s, o)
  PROVE  HashInv'
<1>1. DOMAIN session = Slots /\ DOMAIN session[s] = Fields /\ session[s].tick \in Nat
  BY DEF Inv, AgreementInv, SeatsSound
<1>2. \A f \in Fields \ {"staged"} : Issue(session[s], o)[f] = session[s][f]
  BY Zenon, <1>1 DEF Issue, Fields
<1>3. /\ session'[s] = Issue(session[s], o)
      /\ \A r \in Slots : r # s => session'[r] = session[r]
  BY Zenon, <1>1, Update DEF IssueOrder
<1>4. UNCHANGED <<sealed, network>>
  BY DEF IssueOrder
<1>5. /\ session'[s].tick = session[s].tick /\ session'[s].history = session[s].history
      /\ session'[s].divergence = session[s].divergence
      /\ session'[s].floor = session[s].floor /\ session'[s].claims = session[s].claims
  BY <1>2, <1>3 DEF Fields
<1>6. QED
  BY <1>1, <1>3, <1>4, <1>5, OneSeatHashes
     DEF Inv, HashInv, HistoryIsRing, HashesTrue, NoFalseDivergence

\* What receive leaves of a packet's hashes and of the claims it had, in a mesh.
LEMMA DeliverClaims ==
  ASSUME AgreementInv, HashInv, NEW m \in network, Deliver(m)
  PROVE  /\ m.to \in Slots /\ m.packet.from \in Slots
         /\ \A r \in Slots : r # m.to => session'[r] = session[r]
         /\ session'[m.to].tick = session[m.to].tick
         /\ session'[m.to].nextSeal = session[m.to].nextSeal
         /\ session'[m.to].simulated = session[m.to].simulated
         /\ session'[m.to].history = session[m.to].history
         /\ session'[m.to].ackedThrough = session[m.to].ackedThrough
         /\ session'[m.to].divergence = None /\ session'[m.to].floor = None
         /\ \A c \in session'[m.to].claims :
              \/ c \in session[m.to].claims
              \/ /\ ~HasHash(session[m.to], c.tick)
                 /\ \E a \in m.packet.acks :
                      c = [tick |-> a.tick, slot |-> m.packet.from, hash |-> a.hash]
<1> DEFINE s == m.to
<1>1. /\ s \in Slots /\ m.packet.from \in Slots
      /\ DOMAIN session = Slots /\ DOMAIN session[s] = Fields
  BY HeldCommands DEF AgreementInv, SeatsSound, OnlySealed, SealedOnce
<1>2. /\ session'[s] = Receive(session[s], m.packet)
      /\ \A r \in Slots : r # s => session'[r] = session[r]
  BY Zenon, <1>1, Update DEF Deliver
<1>3. /\ session'[s].tick = session[s].tick
      /\ session'[s].nextSeal = session[s].nextSeal
      /\ session'[s].simulated = session[s].simulated
  BY <1>1, <1>2, ReceiveFields
<1>4. /\ session[s].divergence = None /\ session[s].floor = None
      /\ \A c \in session[s].claims : Agrees(session[s], c)
      /\ \A a \in m.packet.acks : Agrees(session[s], a)
  BY <1>1, TrueAgrees DEF HashInv, NoFalseDivergence, HashesTrue
<1>5. QED
  BY <1>1, <1>2, <1>3, <1>4, ReceiveClaims

\* What a packet claims is what its recipient has for those ticks, or will have.
LEMMA DeliverKeepsHashes ==
  ASSUME Inv, HashInv, NEW m \in network, Deliver(m)
  PROVE  HashInv'
<1> DEFINE s == m.to
<1>1. s \in Slots /\ AgreementInv /\ session[s].tick \in Nat
  BY DeliverClaims DEF Inv, AgreementInv, SeatsSound
<1>2. UNCHANGED sealed /\ network' \subseteq network
  BY DEF Deliver
<1>3. \A c \in session'[s].claims : TrueHash(c.slot, c)
  <2>1. ASSUME NEW a \in m.packet.acks
        PROVE  LET c == [tick |-> a.tick, slot |-> m.packet.from, hash |-> a.hash]
               IN  TrueHash(c.slot, c)
    BY DEF HashInv, HashesTrue, TrueHash
  <2>2. \A c \in session[s].claims : TrueHash(c.slot, c)
    BY <1>1 DEF HashInv, HashesTrue
  <2>3. QED
    BY <1>1, <2>1, <2>2, DeliverClaims
<1>4. session'[s].history = Ring(session'[s].tick)
  BY <1>1, DeliverClaims DEF HashInv, HistoryIsRing
<1>5. QED
  BY <1>1, <1>2, <1>3, <1>4, DeliverClaims, OneSeatHashes

\* What advance leaves of a seat's hashes: a halt leaves them alone, a tick run puts its
\* hash in the ring and takes the claims about it away.
LEMMA AdvanceClaims ==
  ASSUME Inv, HashInv, NEW s \in Slots, AdvanceTick(s)
  PROVE  LET n == session[s].tick
         IN  /\ n \in Nat
             /\ session'[s].nextSeal = session[s].nextSeal
             /\ \A r \in Slots : r # s => session'[r] = session[r]
             /\ session'[s].divergence = None /\ session'[s].floor = None
             /\ session'[s].ackedThrough = session[s].ackedThrough
             /\ \/ /\ session'[s].tick = n /\ session'[s].simulated = session[s].simulated
                   /\ session'[s].history = Ring(n)
                   /\ session'[s].claims = session[s].claims
                \/ /\ session'[s].tick = n + 1 /\ session'[s].simulated = n
                   /\ session'[s].history = Ring(n + 1)
                   /\ session'[s].claims = {c \in session[s].claims : c.tick # n}
<1> DEFINE n == session[s].tick
           a == Advance(session[s], world[s])
           next == Append(world[s], OrderCommands(session[s].local, TickCommands(session[s])))
<1>1. /\ DOMAIN session = Slots /\ DOMAIN session[s] = Fields /\ n \in Nat
      /\ session[s].local = s /\ DOMAIN world = Slots
  BY DEF Inv, AgreementInv, SeatsSound, RanWhatWasSealed
<1>2. /\ session'[s] = a.session
      /\ \A r \in Slots : r # s => session'[r] = session[r]
  BY Zenon, <1>1, Update DEF AdvanceTick
<1>3. /\ session[s].divergence = None /\ session[s].floor = None
      /\ session[s].history = Ring(n)
      /\ \A c \in session[s].claims : c.tick \in Nat /\ c.hash = WorldAfter(c.tick)
  BY DEF HashInv, HashesTrue, HistoryIsRing, NoFalseDivergence, TrueHash
<1>4. \/ a.world = next /\ a.session = Stepped(session[s], a.world)
      \/ \A f \in Fields \ {"halt"} : a.session[f] = session[s][f]
  <2>1. RanOrHalted(session[s], world[s], a)
    BY <1>1, AdvanceCases
  <2> HIDE DEF a
  <2>2. QED
    BY <2>1 DEF RanOrHalted
<1>5. Ticked(session[s], world[s], a)
  BY <1>1, AdvanceFields
<1>6. world'[s] = a.world
  BY Zenon, <1>1, Update DEF AdvanceTick
<1> HIDE DEF a
<1>7. CASE a.world = next /\ a.session = Stepped(session[s], a.world)
  <2>1. next = WorldAfter(n)
    <3> DEFINE f == [t \in 1 .. n |-> OrderCommands(Authority, CommandsAt(t - 1))]
               g == WorldAfter(n)
               S == {g[t] : t \in 1 .. n + 1}
    <3>1. world[s] = f
      BY DEF Inv, AgreementInv, RanWhatWasSealed, OrderCommands
    <3>2. TickCommands(session[s]) = CommandsAt(n)
      BY TickInHand DEF AdvanceTick, Inv
    <3>3. /\ g[n + 1] = OrderCommands(session[s].local, CommandsAt(n))
          /\ \A t \in 1 .. n : t \in 1 .. n + 1 /\ g[t] = f[t]
      <4>1. n + 1 \in 1 .. n + 1 /\ (n + 1) - 1 = n /\ \A t \in 1 .. n : t \in 1 .. n + 1
        BY <1>1
      <4>2. g[n + 1] = OrderCommands(Authority, CommandsAt(n))
        BY <4>1 DEF WorldAfter
      <4>3. QED
        BY <4>1, <4>2 DEF WorldAfter, OrderCommands
    <3>4. g \in [1 .. n + 1 -> S]
      BY DEF WorldAfter
    <3>5. f \in [1 .. n -> S]
      BY <3>3
    <3> HIDE DEF f, g, S
    <3>6. Append(f, g[n + 1]) = g
      BY <1>1, <3>3, <3>4, <3>5, AppendEntry
    <3>7. QED
      BY <3>1, <3>2, <3>3, <3>6 DEF g
  <2>2. session'[s] = Stepped(session[s], WorldAfter(n))
    BY <1>2, <1>7, <2>1
  <2>3. /\ session'[s].divergence = None /\ session'[s].floor = None
        /\ session'[s].history = Ring(n + 1)
        /\ session'[s].ackedThrough = session[s].ackedThrough
        /\ session'[s].claims = {c \in session[s].claims : c.tick # n}
    BY <1>1, <1>3, <2>2, SteppedClaims
  <2>4. session'[s].tick = n + 1 /\ session'[s].simulated = n
        /\ session'[s].nextSeal = session[s].nextSeal
    <3> DEFINE ran == [session[s] EXCEPT !.inbox = {p \in @ : p.tick # session[s].tick},
                             !.history = Push(@, session[s].tick, a.world),
                             !.simulated = session[s].tick,
                             !.tick = @ + 1]
    <3>1. /\ DOMAIN ran = Fields /\ ran.tick = n + 1 /\ ran.simulated = n
          /\ ran.nextSeal = session[s].nextSeal
      BY Zenon, <1>1 DEF Fields
    <3>2. session'[s] = CheckClaims(ran, {n})
      BY Zenon, <1>2, <1>7 DEF Stepped
    <3> HIDE DEF ran
    <3>3. QED
      BY <3>1, <3>2, CheckClaimsFields
  <2>5. QED
    BY <1>1, <1>2, <2>3, <2>4
<1>8. CASE \A f \in Fields \ {"halt"} : a.session[f] = session[s][f]
  BY <1>1, <1>2, <1>3, <1>8 DEF Fields
<1>9. QED
  BY <1>4, <1>7, <1>8

\* The hash of the tick that has run is that of what every seat sealed for it.
LEMMA AdvanceKeepsHashes ==
  ASSUME Inv, HashInv, NEW s \in Slots, AdvanceTick(s)
  PROVE  HashInv'
<1>1. UNCHANGED <<sealed, network>>
  BY DEF AdvanceTick
<1>2. \A c \in session'[s].claims : TrueHash(c.slot, c)
  BY AdvanceClaims DEF HashInv, HashesTrue
<1>3. /\ session'[s].history = Ring(session'[s].tick)
      /\ session'[s].tick \in Nat /\ session'[s].tick >= session[s].tick
      /\ session'[s].divergence = None /\ session'[s].floor = None
      /\ \A r \in Slots : r # s => session'[r] = session[r]
  BY AdvanceClaims
<1>4. QED
  BY <1>1, <1>2, <1>3, OneSeatHashes DEF Inv

\* A world that a seat has run is not changed by what is sealed after.
LEMMA SealKeepsWorlds ==
  ASSUME AgreementInv, NEW s \in Slots, SealPacket(s), NEW r \in Slots,
         NEW t \in Nat, t < session[r].tick
  PROVE  WorldAfter(t)' = WorldAfter(t)
<1> DEFINE p == Held(Packet(session[s]))
<1>1. p.tick = session[s].nextSeal
  BY PacketFields
<1>2. /\ session[r].tick <= session[s].nextSeal
      /\ session[r].tick \in Nat /\ session[s].nextSeal \in Nat
  BY SealedBeforeRun DEF AgreementInv, SeatsSound
<1>3. sealed' = sealed \union {p}
  BY DEF SealPacket
<1> HIDE DEF p
<1>4. \A u \in 1 .. t + 1 : CommandsAt(u - 1)' = CommandsAt(u - 1)
  <2>1. \A u \in 1 .. t + 1 : u - 1 # p.tick
    BY <1>1, <1>2
  <2>2. \A u : u # p.tick => CommandsAt(u)' = CommandsAt(u)
    BY <1>3 DEF CommandsAt
  <2>3. QED
    BY <2>1, <2>2
<1>5. QED
  BY <1>4 DEF WorldAfter

\* The hashes a packet is sealed with are in its seat's ring.
LEMMA SealedHashes ==
  ASSUME AgreementInv, DeliveryInv, HashInv, NEW s \in Slots,
         session[s].ackedThrough \in Int, session[s].ackedThrough >= -1,
         NEW a \in Packet(session[s]).acks
  PROVE  /\ TrueHash(Packet(session[s]).from, a)
         /\ a.tick \in session[s].ackedThrough + 1 .. session[s].simulated
         /\ a.tick % ExchangeEvery = 0
<1>1. /\ a \in SealedAcks(session[s]) /\ Packet(session[s]).from = s
      /\ session[s].tick \in Nat /\ session[s].simulated = session[s].tick - 1
      /\ session[s].history = Ring(session[s].tick)
  BY DEF Packet, AgreementInv, SeatsSound, DeliveryInv, WithinHorizon, HashInv, HistoryIsRing
<1>2. PICK t \in session[s].ackedThrough + 1 .. session[s].simulated :
        /\ t % ExchangeEvery = 0 /\ HasHash(session[s], t)
        /\ a = [tick |-> t, hash |-> HashAt(session[s], t)]
  BY <1>1 DEF SealedAcks
<1>3. t \in Nat /\ t < session[s].tick
  BY <1>1, <1>2
<1>4. HashAt(session[s], t) = WorldAfter(t)
  BY <1>1, <1>2, <1>3, RingHash
<1>5. QED
  BY <1>1, <1>2, <1>3, <1>4 DEF TrueHash

\* A packet just sealed carries true hashes, and changes no world that has been run.
LEMMA SealKeepsHashes ==
  ASSUME Inv, HashInv, PromptInv, NEW s \in Slots, SealPacket(s)
  PROVE  HashInv'
<1> DEFINE p == Packet(session[s])
<1>1. /\ DOMAIN session = Slots /\ DOMAIN session[s] = Fields
      /\ \A r \in Slots : session[r].tick \in Nat
  BY DEF Inv, AgreementInv, SeatsSound
<1>2. /\ session'[s] = Seal(session[s])
      /\ \A r \in Slots : r # s => session'[r] = session[r]
  BY Zenon, <1>1, Update DEF SealPacket
<1>3. /\ session'[s].tick = session[s].tick
      /\ session'[s].history = session[s].history
      /\ session'[s].claims = session[s].claims
      /\ session'[s].divergence = session[s].divergence
      /\ session'[s].floor = session[s].floor
  BY <1>1, <1>2, SealFields, SealHashes
<1>4. \A r \in Slots : \A t \in Nat : t < session[r].tick => WorldAfter(t)' = WorldAfter(t)
  BY SealKeepsWorlds DEF Inv
<1>5. \A r \in Slots : Ring(session[r].tick)' = Ring(session[r].tick)
  <2>1. \A r \in Slots : session'[r].tick = session[r].tick
    BY <1>2, <1>3
  <2>2. ASSUME NEW r \in Slots PROVE Ring(session[r].tick)' = Ring(session[r].tick)
    <3> DEFINE n == session[r].tick
    <3>1. Oldest(n) \in 0 .. n
      BY <1>1, SessionAssumption DEF Oldest
    <3>2. \A i \in 1 .. n - Oldest(n) : Oldest(n) + i - 1 \in Nat /\ Oldest(n) + i - 1 < n
      BY <1>1, <3>1
    <3>3. n' = n /\ Oldest(n)' = Oldest(n)
      BY <2>1 DEF Oldest
    <3>4. QED
      BY <1>4, <3>2, <3>3 DEF Ring
  <2>3. QED
    BY <2>2
<1>6. \A r \in Slots : session'[r].history = Ring(session[r].tick)'
  BY <1>2, <1>3, <1>5 DEF HashInv, HistoryIsRing
<1>7. \A r \in Slots :
        /\ session'[r].divergence = None /\ session'[r].floor = None
        /\ \A c \in session'[r].claims : TrueHash(c.slot, c)
  BY <1>2, <1>3 DEF HashInv, HashesTrue, NoFalseDivergence
<1>8. \A m \in network' : \A a \in m.packet.acks : TrueHash(m.packet.from, a)
  <2>1. network' = network \union {[to |-> r, packet |-> p] : r \in Slots \ {s}}
    BY DEF SealPacket
  <2>2. \A a \in p.acks : TrueHash(p.from, a)
    BY SealedHashes DEF Inv, PromptInv, AcksPrompt
  <2> HIDE DEF p
  <2>3. QED
    BY <2>1, <2>2 DEF HashInv, HashesTrue
<1>9. \A r \in Slots : /\ session[r].tick \in Nat /\ session'[r].tick \in Nat
                       /\ session'[r].tick >= session[r].tick
  BY <1>1, <1>2, <1>3
<1>10. QED
  BY <1>4, <1>6, <1>7, <1>8, <1>9, HashStep

(***************************************************************************)
(* The hashes are sent with the packet sealed after the tick has run.      *)
(***************************************************************************)
LEMMA PromptInit == Init => PromptInv
<1> SUFFICES ASSUME Init PROVE PromptInv
  OBVIOUS
<1>1. \A s \in Slots : session[s].ackedThrough = -1 /\ session[s].tick = 0 /\ session[s].simulated = -1
  BY DEF Init, NewSession, None
<1>2. QED
  BY <1>1 DEF Init, PromptInv, AcksPrompt, AcksRecent

\* One seat's part of it.
Prompt(s) ==
  /\ s.ackedThrough \in Int /\ s.ackedThrough >= -1
  /\ s.tick = 0 \/ s.nextSeal >= s.tick + InputDelay
  /\ \A t \in s.ackedThrough + 1 .. s.simulated :
       t % ExchangeEvery = 0 =>
         t = s.simulated /\ s.nextSeal = s.tick + InputDelay

\* Sealing sends the hash of the tick just run, if it is one to exchange, and no other.
LEMMA SealPrompt ==
  ASSUME Inv, HashInv, PromptInv, NEW s \in Slots, SealPacket(s)
  PROVE  /\ Prompt(session'[s])
         /\ \A a \in Packet(session[s]).acks :
              a.tick = Packet(session[s]).tick - InputDelay - 1
<1> DEFINE x == session[s]
           n == x.tick
           k == x.nextSeal
           due == {t \in x.ackedThrough + 1 .. x.simulated :
                     t % ExchangeEvery = 0 /\ HasHash(x, t)}
<1>1. /\ DOMAIN session = Slots /\ DOMAIN x = Fields /\ n \in Nat /\ k \in Nat
      /\ x.simulated = n - 1 /\ k <= n + InputDelay
      /\ x.history = Ring(n)
  BY DEF Inv, AgreementInv, SeatsSound, DeliveryInv, WithinHorizon, HashInv, HistoryIsRing,
         SealPacket, CanSeal, Horizon
<1>2. Prompt(x)
  BY DEF PromptInv, AcksPrompt, Prompt
<1>3. /\ session'[s].tick = n /\ session'[s].nextSeal = k + 1
      /\ session'[s].simulated = x.simulated
      /\ session'[s].ackedThrough =
           IF SealedAcks(x) = {} THEN x.ackedThrough ELSE Max(AckTicks(SealedAcks(x)))
  <2>1. session'[s] = Seal(x)
    BY Zenon, <1>1, Update DEF SealPacket
  <2>2. QED
    BY <1>1, <2>1, SealFields, SealHashes
<1>4. InputDelay \in Nat /\ ExchangeEvery \in Nat \ {0} /\ MaxAcks \in Nat \ {0}
  BY SessionAssumption
<1>5. \A t \in due : t = n - 1 /\ k = n + InputDelay /\ n >= 1
  BY <1>1, <1>2, <1>4 DEF Prompt
<1>6. \A a \in SealedAcks(x) : a.tick \in due
  <2>1. SealedAcks(x) = {[tick |-> t, hash |-> HashAt(x, t)] :
                           t \in {u \in due : Cardinality({v \in due : v < u}) < MaxAcks}}
    BY Zenon DEF SealedAcks
  <2> HIDE DEF due
  <2>2. ASSUME NEW a \in SealedAcks(x) PROVE a.tick \in due
    <3>1. PICK t \in due : a = [tick |-> t, hash |-> HashAt(x, t)]
      BY Zenon, <2>1
    <3>2. QED
      BY <3>1
  <2>3. QED
    BY <2>2
<1>7. Packet(x).tick = k /\ Packet(x).acks = SealedAcks(x)
  BY DEF Packet
<1>8. \A a \in Packet(x).acks : a.tick = Packet(x).tick - InputDelay - 1
  BY <1>1, <1>4, <1>5, <1>6, <1>7
<1>9. SealedAcks(x) = {} => due = {}
  <2>1. SUFFICES ASSUME NEW u \in due PROVE SealedAcks(x) # {}
    OBVIOUS
  <2>2. {v \in due : v < u} = {}
    BY <1>1, <1>5
  <2>3. Cardinality({v \in due : v < u}) < MaxAcks
    BY <1>4, <2>2, FS_EmptySet
  <2>4. [tick |-> u, hash |-> HashAt(x, u)] \in SealedAcks(x)
    BY <2>1, <2>3 DEF SealedAcks
  <2>5. QED
    BY <2>4
<1>10. CASE SealedAcks(x) = {}
  <2>1. session'[s].ackedThrough = x.ackedThrough
    BY <1>3, <1>10
  <2>2. \A t \in x.ackedThrough + 1 .. x.simulated : t % ExchangeEvery # 0
    <3>1. SUFFICES ASSUME NEW t \in x.ackedThrough + 1 .. x.simulated, t % ExchangeEvery = 0
                   PROVE  FALSE
      OBVIOUS
    <3>2. t = n - 1 /\ t \in Nat
      BY <1>1, <1>2, <3>1 DEF Prompt
    <3>3. HasHash(x, t)
      <4>1. Oldest(n) <= t
        BY <1>1, <3>2, SessionAssumption DEF Oldest
      <4>2. QED
        BY <1>1, <3>2, <4>1, RingHash
    <3>4. QED
      BY <1>9, <1>10, <3>1, <3>3
  <2>3. QED
    BY <1>1, <1>2, <1>3, <1>4, <1>8, <2>1, <2>2 DEF Prompt
<1>11. CASE SealedAcks(x) # {}
  <2>1. PICK a \in SealedAcks(x) : TRUE
    BY <1>11
  <2>2. AckTicks(SealedAcks(x)) = {n - 1} /\ k = n + InputDelay /\ n >= 1
    BY <1>5, <1>6, <2>1 DEF AckTicks
  <2>3. Max({n - 1}) = n - 1
    BY <1>1 DEF Max
  <2>4. session'[s].ackedThrough = n - 1
    BY <1>3, <1>11, <2>2, <2>3
  <2>5. session'[s].ackedThrough + 1 .. session'[s].simulated = {}
    BY <1>1, <1>3, <2>4
  <2>6. Prompt(session'[s])
    <3>1. session'[s].ackedThrough \in Int /\ session'[s].ackedThrough >= -1
      BY <1>1, <2>4
    <3>2. session'[s].nextSeal >= session'[s].tick + InputDelay
      BY <1>1, <1>3, <1>4, <2>2
    <3>3. QED
      BY <2>5, <3>1, <3>2 DEF Prompt
  <2>7. QED
    BY <1>8, <2>6
<1>12. QED
  BY <1>10, <1>11

\* A step that touches one seat, keeps it prompt and sends nothing new keeps the rest.
LEMMA PromptStep ==
  ASSUME PromptInv, NEW s \in Slots, Prompt(session'[s]), network' \subseteq network,
         \A r \in Slots : r # s => session'[r] = session[r]
  PROVE  PromptInv'
<1>1. \A r \in Slots : Prompt(session'[r])
  BY DEF PromptInv, AcksPrompt, Prompt
<1>2. AcksPrompt'
  BY <1>1 DEF AcksPrompt, Prompt
<1>3. AcksRecent'
  BY DEF PromptInv, AcksRecent
<1>4. QED
  BY <1>2, <1>3 DEF PromptInv

LEMMA IssueKeepsPrompt ==
  ASSUME Inv, PromptInv, NEW s \in Slots, NEW o \in Orders, IssueOrder(s, o)
  PROVE  PromptInv' /\ (ClaimsCompared => ClaimsCompared')
<1>1. DOMAIN session = Slots /\ DOMAIN session[s] = Fields
  BY DEF Inv, AgreementInv, SeatsSound
<1>2. \A f \in Fields \ {"staged"} : Issue(session[s], o)[f] = session[s][f]
  BY Zenon, <1>1 DEF Issue, Fields
<1>3. /\ session'[s] = Issue(session[s], o)
      /\ \A r \in Slots : r # s => session'[r] = session[r]
  BY Zenon, <1>1, Update DEF IssueOrder
<1>4. network' = network
  BY DEF IssueOrder
<1>5. /\ session'[s].tick = session[s].tick /\ session'[s].nextSeal = session[s].nextSeal
      /\ session'[s].simulated = session[s].simulated
      /\ session'[s].ackedThrough = session[s].ackedThrough
      /\ session'[s].claims = session[s].claims
  BY <1>2, <1>3 DEF Fields
<1>6. Prompt(session'[s])
  BY <1>5 DEF Prompt, PromptInv, AcksPrompt
<1>7. ClaimsCompared => ClaimsCompared'
  BY <1>3, <1>5 DEF ClaimsCompared
<1>8. QED
  BY <1>3, <1>4, <1>6, <1>7, PromptStep

LEMMA SealKeepsPrompt ==
  ASSUME Inv, HashInv, PromptInv, NEW s \in Slots, SealPacket(s)
  PROVE  PromptInv' /\ (ClaimsCompared => ClaimsCompared')
<1> DEFINE p == Packet(session[s])
<1>1. DOMAIN session = Slots /\ DOMAIN session[s] = Fields
  BY DEF Inv, AgreementInv, SeatsSound
<1>2. /\ session'[s] = Seal(session[s])
      /\ \A r \in Slots : r # s => session'[r] = session[r]
  BY Zenon, <1>1, Update DEF SealPacket
<1>3. \A r \in Slots : Prompt(session'[r])
  BY <1>2, SealPrompt DEF PromptInv, AcksPrompt, Prompt
<1>4. AcksPrompt'
  BY <1>3 DEF AcksPrompt, Prompt
<1>5. network' = network \union {[to |-> r, packet |-> p] : r \in Slots \ {s}}
  BY DEF SealPacket
<1>6. \A a \in p.acks : a.tick = p.tick - InputDelay - 1
  BY SealPrompt
<1> HIDE DEF p
<1>7. AcksRecent'
  BY <1>5, <1>6 DEF PromptInv, AcksRecent
<1>8. session'[s].claims = session[s].claims /\ session'[s].simulated = session[s].simulated
  BY <1>1, <1>2, SealFields, SealHashes
<1>9. ClaimsCompared => ClaimsCompared'
  BY <1>2, <1>8 DEF ClaimsCompared
<1>10. QED
  BY <1>4, <1>7, <1>9 DEF PromptInv

\* A hash that arrives for a tick run is compared: the ring still has that tick, because
\* the packet is for a tick not run, and its hashes are an input delay behind it.
LEMMA DeliverKeepsPrompt ==
  ASSUME Inv, HashInv, PromptInv, NEW m \in network, Deliver(m)
  PROVE  /\ PromptInv'
         /\ HistoryLength > InputDelay /\ ClaimsCompared => ClaimsCompared'
<1> DEFINE s == m.to
           n == session[s].tick
<1>1. /\ s \in Slots /\ n \in Nat
      /\ session[s].simulated = n - 1 /\ session[s].history = Ring(n)
  BY DeliverClaims DEF Inv, AgreementInv, SeatsSound, DeliveryInv, WithinHorizon,
                       HashInv, HistoryIsRing
<1>2. PromptInv'
  <2>1. Prompt(session'[s])
    BY <1>1, DeliverClaims DEF Inv, PromptInv, AcksPrompt, Prompt
  <2>2. network' \subseteq network
    BY DEF Deliver
  <2>3. QED
    BY <1>1, <2>1, <2>2, DeliverClaims, PromptStep DEF Inv
<1>3. ASSUME HistoryLength > InputDelay, ClaimsCompared PROVE ClaimsCompared'
  <2>1. ASSUME NEW c \in session'[s].claims PROVE c.tick > session'[s].simulated
    <3>1. session'[s].simulated = n - 1
      BY <1>1, DeliverClaims DEF Inv
    <3>2. CASE c \in session[s].claims
      BY <1>1, <1>3, <3>1, <3>2 DEF ClaimsCompared
    <3>3. CASE c \notin session[s].claims
      <4>1. PICK a \in m.packet.acks :
              c = [tick |-> a.tick, slot |-> m.packet.from, hash |-> a.hash]
        BY <3>3, DeliverClaims DEF Inv
      <4>2. ~HasHash(session[s], c.tick) /\ c.tick = a.tick
        BY <3>3, <4>1, DeliverClaims DEF Inv
      <4>3. a.tick \in Nat /\ a.tick = m.packet.tick - InputDelay - 1
        BY DEF HashInv, HashesTrue, TrueHash, PromptInv, AcksRecent
      <4>4. m.packet.tick \in Nat /\ m.packet.tick >= n
        BY HeldCommands DEF Inv, AgreementInv, OnlySealed, SealedOnce, DeliveryInv, StillAwaited
      <4>5. Oldest(n) <= a.tick
        BY <1>1, <1>3, <4>3, <4>4, SessionAssumption DEF Oldest
      <4>6. ~(a.tick < n)
        BY <1>1, <4>2, <4>3, <4>5, RingHash
      <4>7. QED
        BY <1>1, <3>1, <4>2, <4>3, <4>6
    <3>4. QED
      BY <3>2, <3>3
  <2>2. \A r \in Slots : r # s => session'[r] = session[r]
    BY DeliverClaims DEF Inv
  <2>3. QED
    BY <1>3, <2>1, <2>2 DEF ClaimsCompared
<1>4. QED
  BY <1>2, <1>3

\* A tick runs only once the seat has sealed up to its horizon, so the hash of the tick
\* before has been sent.
LEMMA AdvanceKeepsPrompt ==
  ASSUME Inv, HashInv, PromptInv, NEW s \in Slots, AdvanceTick(s)
  PROVE  PromptInv' /\ (ClaimsCompared => ClaimsCompared')
<1> DEFINE n == session[s].tick
<1>1. /\ n \in Nat /\ session[s].nextSeal \in Nat
      /\ session[s].nextSeal <= n + InputDelay + 1
      /\ session[s].simulated = n - 1
      /\ InputDelay \in Nat
  BY SessionAssumption DEF Inv, AgreementInv, SeatsSound, DeliveryInv, WithinHorizon
<1>2. session[s].nextSeal = n + InputDelay + 1
  BY <1>1 DEF AdvanceTick, CanSeal, Ready, Horizon
<1>3. Prompt(session[s])
  BY DEF PromptInv, AcksPrompt, Prompt
<1>4. \A t \in session[s].ackedThrough + 1 .. n - 1 : t % ExchangeEvery # 0
  BY <1>1, <1>2, <1>3 DEF Prompt
<1>5. network' = network
  BY DEF AdvanceTick
<1>6. \A c \in session[s].claims : c.tick \in Nat
  BY DEF HashInv, HashesTrue, TrueHash
<1>7. CASE session'[s].tick = n /\ session'[s].simulated = session[s].simulated
           /\ session'[s].claims = session[s].claims
  <2>1. Prompt(session'[s])
    BY <1>3, <1>7, AdvanceClaims DEF Prompt
  <2>2. ClaimsCompared => ClaimsCompared'
    BY <1>7, AdvanceClaims DEF ClaimsCompared
  <2>3. QED
    BY <1>5, <2>1, <2>2, AdvanceClaims, PromptStep
<1>8. CASE session'[s].tick = n + 1 /\ session'[s].simulated = n
           /\ session'[s].claims = {c \in session[s].claims : c.tick # n}
  <2>1. /\ session'[s].ackedThrough = session[s].ackedThrough
        /\ session'[s].nextSeal = (n + 1) + InputDelay
    BY <1>1, <1>2, AdvanceClaims
  <2>2. \A t \in session[s].ackedThrough + 1 .. n : t % ExchangeEvery = 0 => t = n
    <3>1. \A t \in session[s].ackedThrough + 1 .. n :
            t = n \/ t \in session[s].ackedThrough + 1 .. n - 1
      BY <1>1, <1>3 DEF Prompt
    <3>2. QED
      BY <1>4, <3>1
  <2>3. Prompt(session'[s])
    BY <1>1, <1>3, <1>8, <2>1, <2>2 DEF Prompt
  <2>4. ClaimsCompared => ClaimsCompared'
    <3>1. SUFFICES ASSUME ClaimsCompared PROVE ClaimsCompared'
      OBVIOUS
    <3>2. \A c \in session'[s].claims : c.tick > session'[s].simulated
      BY <1>1, <1>6, <1>8, <3>1 DEF ClaimsCompared
    <3>3. QED
      BY <3>1, <3>2, AdvanceClaims DEF ClaimsCompared
  <2>5. QED
    BY <1>5, <2>3, <2>4, AdvanceClaims, PromptStep
<1>9. QED
  BY <1>7, <1>8, AdvanceClaims

(***************************************************************************)
(* The theorems.                                                           *)
(***************************************************************************)
ClaimsInv == Inv /\ HashInv /\ PromptInv

\* Every step of the mesh keeps the invariant.
LEMMA ClaimsNext == ClaimsInv /\ [Next]_vars => HashInv' /\ PromptInv'
<1> SUFFICES ASSUME Inv, HashInv, PromptInv, [Next]_vars PROVE HashInv' /\ PromptInv'
  BY DEF ClaimsInv
<1>1. ASSUME NEW s \in Slots, NEW o \in Orders, IssueOrder(s, o)
      PROVE  HashInv' /\ PromptInv'
  BY <1>1, IssueKeepsHashes, IssueKeepsPrompt
<1>2. ASSUME NEW s \in Slots, SealPacket(s) PROVE HashInv' /\ PromptInv'
  BY <1>2, SealKeepsHashes, SealKeepsPrompt
<1>3. ASSUME NEW m \in network, Deliver(m) PROVE HashInv' /\ PromptInv'
  BY <1>3, DeliverKeepsHashes, DeliverKeepsPrompt
<1>4. ASSUME NEW s \in Slots, AdvanceTick(s) PROVE HashInv' /\ PromptInv'
  BY <1>4, AdvanceKeepsHashes, AdvanceKeepsPrompt
<1>5. CASE UNCHANGED vars
  <2>1. UNCHANGED <<session, network, sealed>>
    BY <1>5 DEF vars
  <2>2. \A t : WorldAfter(t)' = WorldAfter(t) /\ Ring(t)' = Ring(t)
    BY <2>1, WorldAfterKept
  <2>3. \A x, a : TrueHash(x, a)' = TrueHash(x, a)
    BY <2>1, <2>2 DEF TrueHash
  <2>4. \A s \in Slots : Ring(session[s].tick)' = Ring(session[s].tick)
    BY <2>1, <2>2 DEF Ring
  <2>5. HashInv'
    BY <2>1, <2>3, <2>4 DEF HashInv, HistoryIsRing, HashesTrue, NoFalseDivergence
  <2>6. PromptInv'
    BY <2>1 DEF PromptInv, AcksPrompt, AcksRecent
  <2>7. QED
    BY <2>5, <2>6
<1>6. QED
  BY <1>1, <1>2, <1>3, <1>4, <1>5 DEF Next

\* In every state of every mesh the rings hold the hashes of the last ticks run, and what
\* a seat claims of a tick is what every seat that has run it has.
THEOREM MeshHashes == Spec => []ClaimsInv
<1>1. Init => ClaimsInv
  BY AgreementInit, DeliveryInit, HashInit, PromptInit DEF ClaimsInv, Inv
<1>2. ClaimsInv /\ [Next]_vars => ClaimsInv'
  BY AgreementNext, DeliveryNext, ClaimsNext DEF ClaimsInv, Inv
<1>3. QED
  BY <1>1, <1>2, PTL DEF Spec

\* No seat of a mesh ever sees a divergence: check_claims only reports one if the seats'
\* worlds differ, which they never do, however stale the hash is it compares.
THEOREM MeshNoFalseDivergence == Spec => []NoFalseDivergence
<1>1. ClaimsInv => NoFalseDivergence
  BY DEF ClaimsInv, HashInv
<1>2. QED
  BY <1>1, MeshHashes, PTL

\* With a ring longer than the input delay (every configuration the game makes), no
\* hash comes after the tick it is of has left the ring.
THEOREM MeshClaimsCompared ==
  ASSUME HistoryLength > InputDelay
  PROVE  Spec => []ClaimsCompared
<1>1. Init => ClaimsCompared
  BY DEF Init, NewSession, ClaimsCompared
<1>2. ClaimsInv /\ ClaimsCompared /\ [Next]_vars => ClaimsCompared'
  <2> SUFFICES ASSUME Inv, HashInv, PromptInv, ClaimsCompared, [Next]_vars
               PROVE  ClaimsCompared'
    BY DEF ClaimsInv
  <2>1. ASSUME NEW s \in Slots, NEW o \in Orders, IssueOrder(s, o) PROVE ClaimsCompared'
    BY <2>1, IssueKeepsPrompt
  <2>2. ASSUME NEW s \in Slots, SealPacket(s) PROVE ClaimsCompared'
    BY <2>2, SealKeepsPrompt
  <2>3. ASSUME NEW m \in network, Deliver(m) PROVE ClaimsCompared'
    BY <2>3, DeliverKeepsPrompt
  <2>4. ASSUME NEW s \in Slots, AdvanceTick(s) PROVE ClaimsCompared'
    BY <2>4, AdvanceKeepsPrompt
  <2>5. CASE UNCHANGED vars
    BY <2>5 DEF vars, ClaimsCompared
  <2>6. QED
    BY <2>1, <2>2, <2>3, <2>4, <2>5 DEF Next
<1>3. QED
  BY <1>1, <1>2, MeshHashes, PTL DEF Spec
=============================================================================
