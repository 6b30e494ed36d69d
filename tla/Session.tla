------------------------------ MODULE Session ------------------------------
(***************************************************************************)
(* One seat's lockstep session (crates/l2-net/src/lockstep/session.rs and  *)
(* session/seats.rs): a value, and the operations on it.  The modules that *)
(* run several seats (Mesh, Live) keep a session per seat and decide when  *)
(* each operation is called.                                               *)
(*                                                                         *)
(* An Option<Tick> of the code is a tick or None (-1): every comparison    *)
(* the code makes on one comes out the same with None below every tick.    *)
(* A command's payload is a value of its own; the simulated world is the   *)
(* list of what it has run, and its hash is the world itself, which takes  *)
(* the 64-bit hash to be free of collisions.                               *)
(***************************************************************************)
EXTENDS Integers, Sequences, FiniteSets, SequencesExt

CONSTANTS Slots,          \* Session.slots: the seats of the game, ordered
          InputDelay,     \* Config.input_delay
          ExchangeEvery,  \* Config.exchange_every
          HistoryLength,  \* Config.history
          LeadSlack,      \* Config.lead_slack
          MaxAcks         \* packet::MAX_ACKS

ASSUME SessionAssumption ==
  /\ Slots \subseteq Nat /\ Slots # {} /\ IsFiniteSet(Slots)
  /\ InputDelay \in Nat
  /\ ExchangeEvery \in Nat \ {0}
  /\ HistoryLength \in Nat \ {0}
  /\ LeadSlack \in Nat
  /\ MaxAcks \in Nat \ {0}

None == -1
Running == "Running"      \* Session.halt = None

(***************************************************************************)
(* Commands and the world they are run on.                                 *)
(***************************************************************************)
Earlier(a, b) == a.slot < b.slot \/ (a.slot = b.slot /\ a.seq < b.seq)

OrderCommandsUnsorted(me, cmds) ==      \* mutant: one's own commands first
  LET mine == {c \in cmds : c.slot = me}
  IN  SetToSortSeq(mine, Earlier) \o SetToSortSeq(cmds \ mine, Earlier)

\* What a tick runs: every seat's commands, in one order on every seat.
OrderCommands(me, cmds) ==
  CHOOSE q \in [1 .. Cardinality(cmds) -> cmds] :
    \A i, j \in DOMAIN q : i < j => Earlier(q[i], q[j])

CommandsAreDistinct(cmds) ==
  \A a, b \in cmds : (a.slot = b.slot /\ a.seq = b.seq) => a = b

(***************************************************************************)
(* History: the hashes of the last HistoryLength ticks.                    *)
(***************************************************************************)
PushShort(history, tick, hash) ==      \* mutant: the oldest tick is dropped one early
  Append(IF Len(history) = HistoryLength - 1 THEN Tail(history) ELSE history,
         [tick |-> tick, hash |-> hash])

Push(history, tick, hash) ==
  Append(IF Len(history) = HistoryLength THEN Tail(history) ELSE history,
         [tick |-> tick, hash |-> hash])

Replace(history, tick, hash) ==
  IF \E i \in DOMAIN history : history[i].tick = tick
  THEN [i \in DOMAIN history |->
          IF history[i].tick = tick THEN [tick |-> tick, hash |-> hash] ELSE history[i]]
  ELSE Push(history, tick, hash)

HasHash(s, tick) == \E i \in DOMAIN s.history : s.history[i].tick = tick
HashAtLast(s, tick) == Last(s.history).hash      \* mutant: whatever the tick
HashAt(s, tick) ==
  s.history[CHOOSE i \in DOMAIN s.history : s.history[i].tick = tick].hash

(***************************************************************************)
(* A new session, and the queries on one.                                  *)
(***************************************************************************)
Fields == {"local", "authority", "tick", "nextSeal", "simulated", "ackedThrough",
           "staged", "nextSeq", "inbox", "claims", "history", "halt", "divergence",
           "lastAgreed", "barrier", "floor", "retired"}

NewSession(me, authority) ==
  [local |-> me, authority |-> authority, tick |-> 0, nextSeal |-> 0,
   simulated |-> None, ackedThrough |-> None, staged |-> <<>>, nextSeq |-> 0,
   inbox |-> {}, claims |-> {}, history |-> <<>>, halt |-> Running,
   divergence |-> None, lastAgreed |-> None, barrier |-> None, floor |-> None,
   retired |-> [x \in Slots |-> None]]

IsRetired(s, slot, tick) == s.retired[slot] # None /\ tick >= s.retired[slot]

HasPacketAnyTick(s, slot, tick) == \E p \in s.inbox : p.from = slot      \* mutant
HasPacket(s, slot, tick) == \E p \in s.inbox : p.tick = tick /\ p.from = slot

Missing(s) ==
  {x \in Slots : ~IsRetired(s, x, s.tick) /\ ~HasPacket(s, x, s.tick)}

Max2(a, b) == IF a >= b THEN a ELSE b

Halt(s, reason) == [s EXCEPT !.halt = IF @ = Running THEN reason ELSE @]

Issue(s, payload) == [s EXCEPT !.staged = Append(@, payload)]

(***************************************************************************)
(* next_packet: the commands staged so far go into the packet of the tick  *)
(* at the horizon only, with the hashes the others have not been sent.     *)
(***************************************************************************)
Horizon(s) == s.tick + InputDelay
CanSealTwoAhead(s) == s.halt = Running /\ s.nextSeal <= Horizon(s) + 1      \* mutant
CanSeal(s) == s.halt = Running /\ s.nextSeal <= Horizon(s)

SealedCommands(s) ==
  IF s.nextSeal = Horizon(s)
  THEN {[slot |-> s.local, seq |-> s.nextSeq + i - 1, payload |-> s.staged[i]]
          : i \in DOMAIN s.staged}
  ELSE {}

SealedAcks(s) ==
  LET due == {t \in s.ackedThrough + 1 .. s.simulated :
                t % ExchangeEvery = 0 /\ HasHash(s, t)}
  IN  {[tick |-> t, hash |-> HashAt(s, t)] :
         t \in {u \in due : Cardinality({v \in due : v < u}) < MaxAcks}}

AckTicks(acks) == {a.tick : a \in acks}

Packet(s) ==
  [tick |-> s.nextSeal, from |-> s.local,
   commands |-> SealedCommands(s), acks |-> SealedAcks(s)]

Held(p) == [tick |-> p.tick, from |-> p.from, commands |-> p.commands]

SealStagedKept(s) ==      \* mutant: the staged commands are sealed but not drained
  [s EXCEPT !.nextSeal = @ + 1,
            !.ackedThrough = IF SealedAcks(s) = {} THEN @ ELSE Max(AckTicks(SealedAcks(s))),
            !.inbox = @ \union {Held(Packet(s))},
            !.nextSeq = @ + Cardinality(SealedCommands(s))]

SealDropsStaged(s) ==      \* mutant: any packet drains what is staged
  [s EXCEPT !.nextSeal = @ + 1,
            !.staged = <<>>,
            !.nextSeq = @ + Cardinality(SealedCommands(s)),
            !.ackedThrough = IF SealedAcks(s) = {} THEN @ ELSE Max(AckTicks(SealedAcks(s))),
            !.inbox = @ \union {Held(Packet(s))}]

\* The session after next_packet has returned Packet(s).
Seal(s) ==
  LET horizon == s.nextSeal = Horizon(s)
  IN  [s EXCEPT !.nextSeal = @ + 1,
                !.staged = IF horizon THEN <<>> ELSE @,
                !.nextSeq = IF horizon THEN @ + Len(s.staged) ELSE @,
                !.ackedThrough = IF SealedAcks(s) = {} THEN @ ELSE Max(AckTicks(SealedAcks(s))),
                !.inbox = @ \union {Held(Packet(s))}]

(***************************************************************************)
(* check_claims, for each of a set of ticks in ascending order: the other  *)
(* seats' hashes against one's own.  Ticks do not touch each other's       *)
(* claims, and the first tick to differ is the divergence.                 *)
(***************************************************************************)
CheckClaims(s, ticks) ==
  LET compared == {t \in ticks : /\ HasHash(s, t) /\ t > s.floor
                                 /\ \E c \in s.claims : c.tick = t}
      wrong == {t \in compared :
                  \E c \in s.claims : c.tick = t /\ c.hash # HashAt(s, t)}
  IN  [s EXCEPT
         !.claims = {c \in @ : c.tick \notin compared},
         !.divergence = IF @ = None /\ wrong # {} THEN Min(wrong) ELSE @,
         !.lastAgreed = Max({@} \union (compared \ wrong))]

(***************************************************************************)
(* receive: the early returns in their order, then the insert and the      *)
(* acks.  "Ignored" is an early Ok.                                        *)
(***************************************************************************)
Verdict(s, p) ==
  IF s.halt # Running THEN "Ignored"
  ELSE IF p.from = s.local THEN "OwnSlot"
  ELSE IF p.from \notin Slots THEN "UnknownSlot"
  ELSE IF IsRetired(s, p.from, p.tick) THEN "Ignored"
  ELSE IF \E c \in p.commands : c.slot # p.from THEN "ForgedCommand"
  ELSE IF p.tick <= s.simulated THEN "AlreadySimulated"
  ELSE IF p.tick > Horizon(s) + LeadSlack THEN "TooFarAhead"
  ELSE IF HasPacket(s, p.from, p.tick) THEN "Duplicate"
  ELSE "Accepted"

IsError(verdict) == verdict \notin {"Ignored", "Accepted"}

Received(s, p) ==
  LET replaced == {c \in s.claims : c.slot = p.from /\ c.tick \in AckTicks(p.acks)}
      claimed  == {[tick |-> a.tick, slot |-> p.from, hash |-> a.hash] : a \in p.acks}
  IN  CheckClaims([s EXCEPT !.inbox = @ \union {Held(p)},
                            !.claims = (@ \ replaced) \union claimed],
                  AckTicks(p.acks))

Receive(s, p) == IF Verdict(s, p) = "Accepted" THEN Received(s, p) ELSE s

(***************************************************************************)
(* advance: held at the barrier, waiting for a seat, or one tick run.      *)
(***************************************************************************)
AtBarrier(s) == s.barrier # None /\ s.tick > s.barrier
Waiting(s) == s.halt = Running /\ ~AtBarrier(s) /\ Missing(s) # {}
ReadyUnchecked(s) == s.halt = Running /\ ~AtBarrier(s)      \* mutant: waits for nobody
Ready(s) == s.halt = Running /\ ~AtBarrier(s) /\ Missing(s) = {}

TickCommands(s) == UNION {p.commands : p \in {q \in s.inbox : q.tick = s.tick}}

\* The session once the tick has been run and left `world`.
Stepped(s, world) ==
  CheckClaims([s EXCEPT !.inbox = {p \in @ : p.tick # s.tick},
                        !.history = Push(@, s.tick, world),
                        !.simulated = s.tick,
                        !.tick = @ + 1], {s.tick})

\* Both halves of a Ready session's advance: Simulation::step and the session's own.
Advance(s, world) ==
  LET cmds == TickCommands(s)
      next == Append(world, OrderCommands(s.local, cmds))
  IN  IF CommandsAreDistinct(cmds)
      THEN [session |-> Stepped(s, next), world |-> next]
      ELSE [session |-> Halt(s, "Protocol"), world |-> world]

(***************************************************************************)
(* Resync (C256): the host names a tick, no seat steps past it until the   *)
(* host's world after it is in.                                            *)
(***************************************************************************)
Settle(s, at) ==
  [s EXCEPT !.divergence = None,
            !.claims = {c \in @ : c.tick > at},
            !.lastAgreed = at]

ResyncAnnounced(s, at) == [s EXCEPT !.barrier = at, !.floor = Max2(@, at)]

PlansResync(s) == s.local = s.authority /\ s.divergence # None /\ s.barrier = None

ResyncTickBehind(s) == Max2(s.simulated, 0)      \* mutant: the last tick run

\* The last tick the host has sealed, so that no seat can have run past it.
ResyncTick(s) == Max2(Max2(s.nextSeal - 1, 0), Max2(s.simulated, 0))

PlanResync(s) == IF PlansResync(s) THEN ResyncAnnounced(s, ResyncTick(s)) ELSE s

ResyncSent(s) == IF s.barrier # None THEN [Settle(s, s.barrier) EXCEPT !.barrier = None] ELSE s

Resynced(s, at, world) ==
  [Settle(s, at) EXCEPT !.history = Replace(@, at, world),
                        !.barrier = IF @ = at THEN None ELSE @]

(***************************************************************************)
(* Seats that go and come back (C260).                                     *)
(***************************************************************************)
\* Each of some slots is retired from the tick `from` gives it, but one's own never.
RetireEach(s, from) ==
  LET gone == DOMAIN from \ {s.local}
  IN  [s EXCEPT !.retired = [x \in Slots |-> IF x \in gone THEN from[x] ELSE @[x]],
                !.inbox = {p \in @ : p.from \in gone => p.tick < from[p.from]}]

Retire(s, slot, from) == RetireEach(s, [x \in {slot} |-> from])

FirstMissingNow(s, slot) == s.tick      \* mutant: the packets in hand are forgotten

FirstMissing(s, slot) ==
  Min({t \in s.tick .. s.tick + Cardinality(s.inbox) : ~HasPacket(s, slot, t)})

Sooner(a, b) == a.tick < b.tick \/ (a.tick = b.tick /\ a.from < b.from)

\* Packets as they are sent again: in the order of their ticks and seats, without acks.
Resent(packets) ==
  LET bare == {[tick |-> p.tick, from |-> p.from, commands |-> p.commands, acks |-> {}]
                 : p \in packets}
  IN  CHOOSE q \in [1 .. Cardinality(bare) -> bare] :
        \A i, j \in DOMAIN q : i < j => Sooner(q[i], q[j])

UnsimulatedLater(s, except) ==      \* mutant: without the tick about to run
  Resent({p \in s.inbox : p.from # except /\ p.tick > s.tick})

\* The packets in hand for ticks not run yet, but `except`'s, in the order they are sent.
Unsimulated(s, except) ==
  Resent({p \in s.inbox : p.from # except /\ p.tick >= s.tick})

RejoinSealsBehind(me, authority, retired, next, world) ==      \* mutant: seals from a tick run
  [NewSession(me, authority) EXCEPT !.tick = next, !.nextSeal = next - 1,
     !.simulated = next - 1, !.ackedThrough = next - 1, !.lastAgreed = next - 1,
     !.floor = next - 1]

\* A seat taken back: `world` is the host's after next - 1, and it seals from next.
Rejoin(me, authority, retired, next, world) ==
  [NewSession(me, authority) EXCEPT
     !.tick = next, !.nextSeal = next,
     !.simulated = next - 1, !.ackedThrough = next - 1,
     !.lastAgreed = next - 1, !.floor = next - 1,
     !.history = IF next = 0 THEN <<>> ELSE <<[tick |-> next - 1, hash |-> world]>>,
     !.retired = [x \in Slots |-> IF x = me THEN None ELSE retired[x]]]
=============================================================================
