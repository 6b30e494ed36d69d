-------------------------------- MODULE Mesh --------------------------------
(***************************************************************************)
(* Sessions joined each to each: the loop of l2-net's crate documentation  *)
(* (seal until next_packet has nothing more, receive, advance), every seat *)
(* at its own pace.  Each packet goes to every other seat; the network     *)
(* (transport/loopback.rs: latency, reorder, hold) delivers in any order.  *)
(***************************************************************************)
EXTENDS Session

CONSTANTS Orders,    \* the payloads the seats' players issue, each once
          MaxTick    \* bound: no seat runs this tick

ASSUME MeshAssumption == MaxTick \in Nat

VARIABLES
  session,   \* session[s]: seat s's Session
  world,     \* world[s]: seat s's simulated world
  network,   \* packets in flight, one per recipient
  issued,    \* the orders issued so far
  sealed     \* history: every packet next_packet has returned, without its acks

vars == <<session, world, network, issued, sealed>>

Authority == CHOOSE x \in Slots : \A y \in Slots : x <= y

Init ==
  /\ session = [s \in Slots |-> NewSession(s, Authority)]
  /\ world = [s \in Slots |-> <<>>]
  /\ network = {}
  /\ issued = {}
  /\ sealed = {}

\* A player's order is staged.  The bound leaves time for it to run.
IssueOrder(s, o) ==
  /\ o \notin issued
  /\ session[s].tick + InputDelay + 1 < MaxTick
  /\ session' = [session EXCEPT ![s] = Issue(@, o)]
  /\ issued' = issued \union {o}
  /\ UNCHANGED <<world, network, sealed>>

\* next_packet returns a packet, which goes to every other seat.
SealPacket(s) ==
  /\ CanSeal(session[s])
  /\ session' = [session EXCEPT ![s] = Seal(@)]
  /\ network' = network \union
       {[to |-> r, packet |-> Packet(session[s])] : r \in Slots \ {s}}
  /\ sealed' = sealed \union {Held(Packet(session[s]))}
  /\ UNCHANGED <<world, issued>>

\* A packet arrives, in whatever order, and is received.  The loop that receives comes
\* after the one that seals until next_packet returns None.
Deliver(m) ==
  /\ ~CanSeal(session[m.to])
  /\ session' = [session EXCEPT ![m.to] = Receive(@, m.packet)]
  /\ network' = network \ {m}
  /\ UNCHANGED <<world, issued, sealed>>

\* advance runs a tick.  It leaves everything alone while a seat is waited for.
AdvanceTick(s) ==
  /\ session[s].tick < MaxTick
  /\ ~CanSeal(session[s])
  /\ Ready(session[s])
  /\ LET a == Advance(session[s], world[s])
     IN  /\ session' = [session EXCEPT ![s] = a.session]
         /\ world' = [world EXCEPT ![s] = a.world]
  /\ UNCHANGED <<network, issued, sealed>>

Next ==
  \/ \E s \in Slots, o \in Orders : IssueOrder(s, o)
  \/ \E s \in Slots : SealPacket(s)
  \/ \E m \in network : Deliver(m)
  \/ \E s \in Slots : AdvanceTick(s)

Spec == Init /\ [][Next]_vars

\* The pump seals, advances and empties its mailbox every pass; nobody has to play.
Fairness ==
  /\ \A s \in Slots : WF_vars(SealPacket(s)) /\ WF_vars(AdvanceTick(s))
  /\ WF_vars(\E m \in network : Deliver(m))

FairSpec == Spec /\ Fairness

(***************************************************************************)
(* Properties.                                                             *)
(***************************************************************************)
Command == [slot : Slots, seq : Nat, payload : Orders]

\* The shape of the state: what every variable holds.
TypeOK ==
  /\ \A s \in Slots :
       /\ session[s].local = s
       /\ session[s].tick \in Nat /\ session[s].nextSeal \in Nat
       /\ session[s].nextSeq \in Nat
       /\ session[s].staged \in Seq(Orders)
       /\ \A p \in session[s].inbox :
            /\ p.tick \in Nat /\ p.from \in Slots /\ p.commands \subseteq Command
  /\ issued \subseteq Orders
  /\ \A m \in network :
       /\ m.to \in Slots /\ m.packet.from \in Slots /\ m.packet.tick \in Nat
       /\ m.packet.commands \subseteq Command

\* Any two seats have run the same commands in the same order, tick by tick, as far
\* as both have got (lib.rs: "the property the whole design rests on").
WorldsAgree ==
  \A r, s \in Slots : \A t \in DOMAIN world[r] \cap DOMAIN world[s] :
    world[r][t] = world[s][t]

\* An order runs at most once on a seat, whatever the packets did.
RunsAt(s, o) ==
  {t \in DOMAIN world[s] : \E i \in DOMAIN world[s][t] : world[s][t][i].payload = o}

OnceEach ==
  \A s \in Slots : \A o \in Orders :
    /\ Cardinality(RunsAt(s, o)) <= 1
    /\ \A t \in RunsAt(s, o) : \A i, j \in DOMAIN world[s][t] :
         world[s][t][i].payload = o /\ world[s][t][j].payload = o => i = j

\* No seat runs more than the input delay and a tick ahead of the slowest.
BoundedLead ==
  \A r, s \in Slots : session[r].tick <= session[s].tick + InputDelay + 1

\* Delivered now, no packet in flight would be refused: receive's errors are for
\* other seats' faults, never for delay or reordering.
NeverRefused ==
  \A m \in network : ~IsError(Verdict(session[m.to], m.packet))

\* Seats that run the same commands never see a divergence in each other's hashes.
NoFalseDivergence == \A s \in Slots : session[s].divergence = None

\* Every hash received for a tick this seat has run has been compared: none came
\* after the history ring had dropped the tick.
ClaimsCompared ==
  \A s \in Slots : \A c \in session[s].claims : c.tick > session[s].simulated

(***************************************************************************)
(* Why the worlds agree: a seat seals one packet for a tick, what any seat *)
(* has in hand or on its way is what was sealed, and a world is what all   *)
(* seats sealed for the ticks it has run.                                  *)
(***************************************************************************)
CommandsAt(t) == UNION {p.commands : p \in {q \in sealed : q.tick = t}}

\* A seat's session is its own, nobody is retired from a mesh.
SeatsSound ==
  /\ DOMAIN session = Slots
  /\ \A s \in Slots :
       /\ DOMAIN session[s] = Fields
       /\ session[s].local = s
       /\ session[s].tick \in Nat
       /\ session[s].nextSeal \in Nat
       /\ session[s].retired = [x \in Slots |-> None]

\* One packet for a seat and a tick, for the ticks before the next it seals.
SealedOnce ==
  \A p \in sealed :
    /\ p.from \in Slots /\ p.tick \in Nat
    /\ p.tick < session[p.from].nextSeal
    /\ \A q \in sealed : p.from = q.from /\ p.tick = q.tick => p = q

\* Nothing in hand or in flight but what was sealed.
OnlySealed ==
  /\ \A s \in Slots : session[s].inbox \subseteq sealed
  /\ \A m \in network : m.to \in Slots /\ Held(m.packet) \in sealed

\* A world has run, tick by tick, what every seat sealed for it.
RanWhatWasSealed ==
  /\ DOMAIN world = Slots
  /\ \A s \in Slots :
       /\ world[s] = [t \in 1 .. session[s].tick |-> OrderCommands(s, CommandsAt(t - 1))]
       /\ \A t \in 0 .. session[s].tick - 1 : \A x \in Slots :
            \E p \in sealed : p.from = x /\ p.tick = t

AgreementInv == SeatsSound /\ SealedOnce /\ OnlySealed /\ RanWhatWasSealed

(***************************************************************************)
(* Why no packet is refused: a seat seals no further than its horizon, and *)
(* a packet in flight is for a tick its recipient has neither run nor has  *)
(* the packet of.                                                          *)
(***************************************************************************)
WithinHorizon ==
  \A s \in Slots :
    /\ session[s].nextSeal <= session[s].tick + InputDelay + 1
    /\ session[s].simulated = session[s].tick - 1

StillAwaited ==
  \A m \in network :
    /\ m.packet.from # m.to
    /\ m.packet.tick >= session[m.to].tick
    /\ ~HasPacket(session[m.to], m.packet.from, m.packet.tick)
    /\ \A c \in m.packet.commands : c.slot = m.packet.from
    /\ \A k \in network :
         k.to = m.to /\ k.packet.from = m.packet.from /\ k.packet.tick = m.packet.tick
           => k = m

DeliveryInv == WithinHorizon /\ StillAwaited

(***************************************************************************)
(* Why the hashes agree: a seat's history is the ring of the last worlds   *)
(* it has run, and a hash claimed or on its way is that of a world its     *)
(* sender has run, which is what every seat sealed.                        *)
(***************************************************************************)
WorldAfter(t) == [u \in 1 .. t + 1 |-> OrderCommands(Authority, CommandsAt(u - 1))]

\* The oldest tick whose hash a seat that has run n of them still has.
Oldest(n) == IF n <= HistoryLength THEN 0 ELSE n - HistoryLength

Ring(n) ==
  [i \in 1 .. n - Oldest(n) |->
     [tick |-> Oldest(n) + i - 1, hash |-> WorldAfter(Oldest(n) + i - 1)]]

HistoryIsRing == \A s \in Slots : session[s].history = Ring(session[s].tick)

\* `a` is the hash of a world that seat x has run.
TrueHash(x, a) ==
  /\ x \in Slots /\ a.tick \in Nat
  /\ a.tick < session[x].tick
  /\ a.hash = WorldAfter(a.tick)

HashesTrue ==
  /\ \A s \in Slots :
       /\ session[s].floor = None
       /\ \A c \in session[s].claims : TrueHash(c.slot, c)
  /\ \A m \in network : \A a \in m.packet.acks : TrueHash(m.packet.from, a)

HashInv == HistoryIsRing /\ HashesTrue /\ NoFalseDivergence

(***************************************************************************)
(* Why no hash comes too late: a seat seals one packet for each tick it    *)
(* runs, an input delay ahead of it, and the packet carries that tick's    *)
(* hash.  Whoever has not run the packet's tick still has the hash's.      *)
(***************************************************************************)
AcksPrompt ==
  \A s \in Slots :
    /\ session[s].ackedThrough \in Int
    /\ session[s].ackedThrough >= -1
    /\ session[s].tick = 0 \/ session[s].nextSeal >= session[s].tick + InputDelay
    /\ \A t \in session[s].ackedThrough + 1 .. session[s].simulated :
         t % ExchangeEvery = 0 =>
           /\ t = session[s].simulated
           /\ session[s].nextSeal = session[s].tick + InputDelay

AcksRecent ==
  \A m \in network : \A a \in m.packet.acks : a.tick = m.packet.tick - InputDelay - 1

PromptInv == AcksPrompt /\ AcksRecent

(***************************************************************************)
(* Why an order runs once: it is staged on one seat until it is sealed,    *)
(* and then it is in one command of one packet.                            *)
(***************************************************************************)
\* A packet's commands are its seat's, told apart by their numbers, and what one of them
\* orders is neither ordered by another nor staged any more.
SealedOrders ==
  \A p \in sealed :
    /\ IsFiniteSet(p.commands)
    /\ \A c \in p.commands :
         /\ c.slot = p.from /\ c.seq \in Nat /\ c.payload \in issued
         /\ \A d \in p.commands : c.seq = d.seq => c = d
         /\ \A q \in sealed : \A d \in q.commands : c.payload = d.payload => p = q /\ c = d
         /\ \A s \in Slots : \A i \in DOMAIN session[s].staged :
              session[s].staged[i] # c.payload

StagedOrders ==
  \A s \in Slots : \A i \in DOMAIN session[s].staged :
    /\ session[s].staged[i] \in issued
    /\ \A r \in Slots : \A j \in DOMAIN session[r].staged :
         session[s].staged[i] = session[r].staged[j] => r = s /\ i = j

\* Commands told apart never stop a session.
NeverHalted == \A s \in Slots : session[s].halt = Running

OrdersInv == SealedOrders /\ StagedOrders

Decided == CHOOSE n \in {session[s].nextSeal : s \in Slots} :
             \A s \in Slots : n <= session[s].nextSeal

\* The log of Lockstep: a tick is decided once every seat has sealed its packet for it.
Log == [t \in 1 .. Decided |-> OrderCommands(Authority, CommandsAt(t - 1))]

Abstract == INSTANCE Lockstep WITH log <- Log

\* The sessions implement one growing log that every seat's world is a prefix of.
ImplementsLockstep == Abstract!Spec

\* An order issued is run by every seat.
OrdersRun ==
  \A o \in Orders : o \in issued ~>
    \A s \in Slots : RunsAt(s, o) # {}
=============================================================================
