-------------------------------- MODULE Live --------------------------------
(***************************************************************************)
(* A network game under way (crates/l2-game/src/net/live.rs, live/seats.rs)*)
(* over the ordered connections of l2-net's TcpTransport: a star with the  *)
(* host at its centre, who forwards every joiner's packets to the others.  *)
(*                                                                         *)
(* A pump of the app loop is cut where another seat's pump can matter:     *)
(* sealing a packet, receiving one message, one advance, and the end of a  *)
(* pump with the start of the next.  A seat that has packets to seal does  *)
(* that first, as exchange does.  How long a pump reads is left open, and  *)
(* so is how many of the CATCH_UP ticks it runs.                           *)
(*                                                                         *)
(* The host's handlers are operators on a record of its own state (Host):  *)
(* a handler that calls others is their composition.                       *)
(***************************************************************************)
EXTENDS Session

CONSTANTS Host,        \* the authority: the seat that hosts
          Orders,      \* what players order, each at most once
          MaxTick,     \* bound: no seat runs this tick
          MaxConn,     \* bound: the connections a joiner opens after its first
          MaxDrift,    \* bound: worlds that drift apart
          DriftBy,     \* bound: the ticks run by a world that drifts
          Happens      \* what may befall the game

ASSUME LiveAssumption ==
  /\ Host \in Slots
  /\ MaxTick \in Nat /\ MaxConn \in Nat /\ MaxDrift \in Nat /\ DriftBy \in Nat
  /\ Happens \subseteq {"Break",     \* a connection breaks
                        "Crash",     \* a joiner's program ends
                        "Timeout",   \* a silence outlasts TIMEOUT
                        "Leave",     \* a joiner leaves on purpose
                        "Computer",  \* the host lets the computer play
                        "End"}       \* the host leaves

Joiners == Slots \ {Host}
Conns == Joiners \X (0 .. MaxConn)
SlotOf(c) == c[1]

VARIABLES
  session, world,  \* each seat's Session and simulated world
  waiting,         \* Live.waiting: the dropped seats each seat says it waits for
  pending,         \* Live.pending: the host's state for a barrier not reached yet
  quiet,           \* Live.quiet at the host: silent seats with an open connection
  outbox,          \* Game.net.outbox at the host: handovers not staged yet
  line,            \* what a connection is to the host
  up, down,        \* each connection's messages, to the host and from it
  phase,           \* whether a joiner plays, knocks, or has lost the game
  conn,            \* the connection a joiner is on
  issued, drifts   \* the orders given and the drifts so far

vars == <<session, world, waiting, pending, quiet, outbox, line, up, down,
          phase, conn, issued, drifts>>

NoResync == [tick |-> None, world |-> <<>>]

Init ==
  /\ session = [s \in Slots |-> NewSession(s, Host)]
  /\ world = [s \in Slots |-> <<>>]
  /\ waiting = [s \in Slots |-> {}]
  /\ pending = [j \in Joiners |-> NoResync]
  /\ quiet = {} /\ outbox = <<>>
  /\ line = [c \in Conns |-> IF c[2] = 0 THEN "seated" ELSE "none"]
  /\ up = [c \in Conns |-> <<>>] /\ down = [c \in Conns |-> <<>>]
  /\ phase = [j \in Joiners |-> "playing"]
  /\ conn = [j \in Joiners |-> 0]
  /\ issued = {} /\ drifts = 0

(***************************************************************************)
(* Connections.  A closed one carries Fin last, and nothing after it.      *)
(***************************************************************************)
Msg(type) == [type |-> type]
Fin == Msg("Fin")
Closed(channel) == channel # <<>> /\ Last(channel) = Fin
Put(channel, msgs) == IF Closed(channel) THEN channel ELSE channel \o msgs
Lossy(channel) == {Append(SubSeq(channel, 1, n), Fin) :
                     n \in 0 .. Len(channel) - (IF Closed(channel) THEN 1 ELSE 0)}

TickMsg(p) == [type |-> "Tick", packet |-> p]
SlotMsg(type, slot) == [type |-> type, slot |-> slot]
HaltMsg(reason) == [type |-> "Halt", reason |-> reason]
Is(channel, type) == channel # <<>> /\ Head(channel).type = type

ConnOf(j) == <<j, conn[j]>>
SendUp(c, msgs) == [up EXCEPT ![c] = IF line[c] = "gone" THEN @ ELSE Put(@, msgs)]
Read(c) == [down EXCEPT ![c] = Tail(@)]

(***************************************************************************)
(* The host's state as one value, and its handlers on it.                  *)
(***************************************************************************)
HostState == [session |-> session[Host], waiting |-> waiting[Host], quiet |-> quiet,
              outbox |-> outbox, line |-> line, up |-> up, down |-> down]

\* The step the host's handlers made of its state.
Becomes(next) ==
  \E h \in {next} :
    /\ session' = [session EXCEPT ![Host] = h.session]
    /\ waiting' = [waiting EXCEPT ![Host] = h.waiting]
    /\ quiet' = h.quiet /\ outbox' = h.outbox
    /\ line' = h.line /\ up' = h.up /\ down' = h.down

\* is_seated is true of a connection poll has accepted that note_strangers has not seen.
IsSeated(h, c) == h.line[c] \in {"seated", "accepted"}

SendBut(h, except, m) ==
  [h EXCEPT !.down = [c \in Conns |->
     IF IsSeated(h, c) /\ c # except THEN Put(@[c], <<m>>) ELSE @[c]]]

Nobody == <<>>
SendAll(h, m) == SendBut(h, Nobody, m)
Send(h, c, msgs) == [h EXCEPT !.down[c] = Put(@, msgs)]

DisconnectSilently(h, conns) ==      \* mutant: the peer is not told
  [h EXCEPT !.line = [c \in Conns |-> IF c \in conns THEN "gone" ELSE @[c]],
            !.up = [c \in Conns |-> IF c \in conns THEN <<>> ELSE @[c]]]

\* TcpTransport::disconnect: what was not read from the peer is lost.
Disconnect(h, conns) ==
  [h EXCEPT !.line = [c \in Conns |-> IF c \in conns THEN "gone" ELSE @[c]],
            !.up = [c \in Conns |-> IF c \in conns THEN <<>> ELSE @[c]],
            !.down = [c \in Conns |-> IF c \in conns THEN Put(@[c], <<Fin>>) ELSE @[c]]]

\* Live.peers: the connections the host has seated a slot on.
SeatedOn(h, slot) == {c \in Conns : SlotOf(c) = slot /\ h.line[c] = "seated"}

Away(h, slot) ==
  IF slot \in h.waiting \/ IsRetired(h.session, slot, h.session.tick) THEN h
  ELSE SendAll([h EXCEPT !.waiting = @ \union {slot}], SlotMsg("Away", slot))

\* Slots taken one after the other: everyone seated hears of each in turn, up to the turn
\* of its own slot, when its connection is closed.  `last` is 1 if it hears of that too.
InTurn(h, slots, msg, last) ==
  LET closes == {c \in Conns : h.line[c] = "seated" /\ SlotOf(c) \in Range(slots)}
      turn(c) == Min({i \in DOMAIN slots : slots[i] = SlotOf(c)})
      told(n) == [i \in 1 .. n |-> msg[slots[i]]]
      heard == [h EXCEPT !.down = [c \in Conns |->
                  IF c \in closes THEN Put(@[c], told(turn(c) + last - 1))
                  ELSE IF IsSeated(h, c) THEN Put(@[c], told(Len(slots))) ELSE @[c]]]
  IN  Disconnect(heard, closes)

\* to_computer, for each of some slots: it is retired after what it has sent, and its
\* realm ordered to the computer.
ToComputer(h, slots) ==
  LET from == [x \in Range(slots) |-> FirstMissing(h.session, x)]
      told == InTurn(h, slots,
                     [x \in Range(slots) |-> [type |-> "Retire", slot |-> x, from |-> from[x]]], 1)
  IN  [told EXCEPT !.session = RetireEach(@, from),
                   !.waiting = @ \ Range(slots), !.quiet = @ \ Range(slots),
                   !.outbox = @ \o [i \in DOMAIN slots |-> <<"ToComputer", slots[i]>>]]

\* diverged: the host names the tick its state will be sent for.
Diverged(h) ==
  IF ~PlansResync(h.session) THEN h
  ELSE SendAll([h EXCEPT !.session = PlanResync(@)],
               [type |-> "ResyncAt", tick |-> ResyncTick(h.session)])

\* A halted host tells every seat why (report, leave), and its connections close.
Stop(h, reason) ==
  Disconnect(SendAll([h EXCEPT !.session = Halt(@, reason)], HaltMsg(reason)),
             {c \in Conns : h.line[c] # "none"})

\* note_strangers, then poll: it accepts whoever has connected.
Polled(h) ==
  [h EXCEPT !.line = [c \in Conns |->
     CASE @[c] = "accepted" -> "stranger"
       [] @[c] = "connecting" -> "accepted"
       [] OTHER -> @[c]]]

\* knock: a dropped seat's install waits to be seated, anyone else is told why not.
Knock(h, c) ==
  IF SlotOf(c) \in h.waiting THEN [h EXCEPT !.line[c] = "rejoining"]
  ELSE LET why == IF h.session.retired[SlotOf(c)] # None THEN "Retired" ELSE "Started"
       IN  Disconnect(Send(h, c, <<[type |-> "NoSeat", why |-> why]>>), {c})

Slotted(type, slots) == [i \in DOMAIN slots |-> SlotMsg(type, slots[i])]
SeatsOf(conns) == [i \in DOMAIN conns |-> SlotOf(conns[i])]

BackUntold(conns) == <<>>      \* mutant: the other seats do not hear of it
Back(conns) == Slotted("Back", SeatsOf(conns))

\* What the i-th of the connections to be seated hears: the host's world after the last
\* tick it ran, the packets in hand from there, who is still waited for, and who is
\* seated after it.
Welcome(h, conns, i) ==
  LET s == h.session
      ticks == Unsimulated(s, SlotOf(conns[i]))
      seated == Range(SubSeq(SeatsOf(conns), 1, i))
  IN  <<[type |-> "Rejoin", next |-> s.tick, world |-> world[Host], retired |-> s.retired]>>
        \o [k \in DOMAIN ticks |-> TickMsg(ticks[k])]
        \o Slotted("Away", SetToSeq(h.waiting \ seated))
        \o Back(SubSeq(conns, i + 1, Len(conns)))

Seat(h, conns) ==
  LET place(c) == CHOOSE i \in DOMAIN conns : conns[i] = c
  IN  [h EXCEPT
         !.line = [c \in Conns |-> IF c \in Range(conns) THEN "seated" ELSE @[c]],
         !.waiting = @ \ Range(SeatsOf(conns)),
         !.down = [c \in Conns |->
                     IF c \in Range(conns) THEN Put(@[c], Welcome(h, conns, place(c)))
                     ELSE IF IsSeated(h, c) THEN Put(@[c], Back(conns)) ELSE @[c]]]

AdmitAtOnce(h) ==      \* mutant: without running what the seat had sent
  Seat(h, SetToSeq({c \in Conns : h.line[c] = "rejoining"}))

\* admit: whoever has knocked is seated, once the host has run all its seat had sent.
Admit(h) ==
  IF h.session.barrier # None THEN h
  ELSE Seat(h, SetToSeq({c \in Conns : /\ h.line[c] = "rejoining"
                                       /\ FirstMissing(h.session, SlotOf(c)) = h.session.tick}))

\* control: "Let the computer play" takes every waited-for and then every silent seat.
Control(h, plays) ==
  IF plays THEN ToComputer(h, SetToSeq(h.waiting) \o SetToSeq(h.quiet)) ELSE h

\* stage: the handovers and the players' orders since the last pump, to the session.
Stage(h, orders) ==
  [h EXCEPT !.session.staged = @ \o h.outbox \o orders, !.outbox = <<>>]

(***************************************************************************)
(* The host's steps.                                                       *)
(***************************************************************************)
Pumps(s) == session[s].halt = Running
Polls(s) == Pumps(s) /\ ~CanSeal(session[s])

HostSeal ==
  /\ CanSeal(session[Host])
  /\ Becomes(SendAll([HostState EXCEPT !.session = Seal(@)], TickMsg(Packet(session[Host]))))
  /\ UNCHANGED <<world, pending, phase, conn, issued, drifts>>

\* One message of a connection, read and handed to its handler.
HostReads(c, type, Handled(_)) ==
  /\ Polls(Host)
  /\ Is(up[c], type)
  /\ Becomes(Handled([Polled(HostState) EXCEPT !.up[c] = Tail(@)]))
  /\ UNCHANGED <<world, pending, phase, conn, issued, drifts>>

\* A seated joiner's packet is received, and forwarded unless its slot is retired.
FromJoiner(h, c, p) ==
  IF ~IsSeated(h, c) THEN h
  ELSE IF IsError(Verdict(h.session, p)) THEN Stop(h, "Protocol")
  ELSE IF IsRetired(h.session, p.from, p.tick) THEN h
  ELSE SendBut([h EXCEPT !.session = Receive(@, p)], c, TickMsg(p))

HostTick(c) == HostReads(c, "Tick", LAMBDA h : FromJoiner(h, c, Head(up[c]).packet))
HostKnock(c) == HostReads(c, "Join", LAMBDA h : Knock(h, c))
HostLeaving(c) ==
  HostReads(c, "Leaving", LAMBDA h : IF line[c] = "seated" THEN ToComputer(h, <<SlotOf(c)>>) ELSE h)
HostToldHalt(c) ==
  HostReads(c, "Halt", LAMBDA h : IF Head(up[c]).reason = "Protocol" THEN Stop(h, "Protocol") ELSE h)

\* poll with nothing to read.
HostAccept ==
  /\ Polls(Host)
  /\ \E c \in Conns : line[c] \in {"connecting", "accepted"}
  /\ Becomes(Polled(HostState))
  /\ UNCHANGED <<world, pending, phase, conn, issued, drifts>>

\* dropped: a connection is closed and read to its end.  Its seat is waited for.
HostDropped(c) ==
  /\ Polls(Host)
  /\ line[c] \notin {"none", "connecting", "gone"} /\ up[c] = <<Fin>>
  /\ LET h == Disconnect(Polled(HostState), {c})
     IN  Becomes(IF line[c] = "seated" THEN Away(h, SlotOf(c)) ELSE h)
  /\ UNCHANGED <<world, pending, phase, conn, issued, drifts>>

\* advance runs a tick; the next exchange starts with diverged.
HostAdvance ==
  /\ Polls(Host) /\ Ready(session[Host]) /\ session[Host].tick < MaxTick
  /\ LET a == Advance(session[Host], world[Host])
     IN  /\ Becomes(Diverged([HostState EXCEPT !.session = a.session, !.quiet = {}]))
         /\ world' = [world EXCEPT ![Host] = a.world]
  /\ UNCHANGED <<pending, phase, conn, issued, drifts>>

HostResyncNext ==      \* mutant: the state goes out for the tick it runs next
  /\ Polls(Host) /\ AtBarrier(session[Host])
  /\ Becomes(SendAll([HostState EXCEPT !.session = ResyncSent(@)],
                     [type |-> "Resync", tick |-> session[Host].tick, world |-> world[Host]]))
  /\ UNCHANGED <<world, pending, phase, conn, issued, drifts>>

\* advance is held at the barrier: the host's state goes out.
HostResync ==
  /\ Polls(Host) /\ AtBarrier(session[Host])
  /\ Becomes(SendAll([HostState EXCEPT !.session = ResyncSent(@)],
                     [type |-> "Resync", tick |-> session[Host].barrier, world |-> world[Host]]))
  /\ UNCHANGED <<world, pending, phase, conn, issued, drifts>>

\* silent, past QUIET: the seats missing that are not waited for are named.
Silent == Missing(session[Host]) \ waiting[Host]

HostQuiet ==
  /\ "Computer" \in Happens
  /\ Polls(Host) /\ Waiting(session[Host])
  /\ quiet # Silent
  /\ quiet' = Silent
  /\ UNCHANGED <<session, world, waiting, pending, outbox, line, up, down, phase, conn, issued, drifts>>

\* silent, past TIMEOUT: every seat missing is dropped, and waited for if it was not.
TimedOut(h) ==
  LET missing == Missing(h.session)
      others == SetToSeq(missing \ h.waiting)
      dropped == Disconnect(h, UNION {SeatedOn(h, x) : x \in missing \cap h.waiting})
  IN  [InTurn(dropped, others, [x \in Range(others) |-> SlotMsg("Away", x)], 0)
         EXCEPT !.waiting = @ \union missing, !.quiet = {}]

HostTimeout ==
  /\ "Timeout" \in Happens
  /\ Polls(Host) /\ Waiting(session[Host]) /\ Silent # {}
  /\ Becomes(TimedOut(HostState))
  /\ UNCHANGED <<world, pending, phase, conn, issued, drifts>>

\* The end of a pump and the start of the next, with what the player did in between.  To let
\* the computer play when nobody is missing comes to nothing.
HostPump(orders, plays) ==
  /\ Polls(Host) /\ (plays => "Computer" \in Happens /\ waiting[Host] \union quiet # {})
  /\ Becomes(Stage(Control(Admit(Diverged(HostState)), plays), orders))
  /\ issued' = issued \union Range(orders)
  /\ UNCHANGED <<world, pending, phase, conn, drifts>>

\* leave: the host goes, and the game ends for everyone.
HostLeaves ==
  /\ "End" \in Happens /\ Pumps(Host)
  /\ Becomes(Stop(HostState, "Ended"))
  /\ UNCHANGED <<world, pending, phase, conn, issued, drifts>>

(***************************************************************************)
(* A joiner's steps.  One that halts reports it and plays no more; it has  *)
(* lost the game when its host went silent or its connection was closed.   *)
(***************************************************************************)
Plays(j) == phase[j] = "playing" /\ ~CanSeal(session[j])

JoinerState(j) == [session |-> session[j], waiting |-> waiting[j], pending |-> pending[j]]

JoinerBecomes(j, next) ==
  \E s \in {next} : LET halt == s.session.halt IN
      /\ session' = [session EXCEPT ![j] = s.session]
      /\ waiting' = [waiting EXCEPT ![j] = s.waiting]
      /\ pending' = [pending EXCEPT ![j] = s.pending]
      /\ phase' = IF halt = Running THEN phase
                  ELSE [phase EXCEPT ![j] = IF halt \in {"Left", "Timeout"} THEN "lost" ELSE "over"]
      /\ up' = IF halt = Running THEN up ELSE SendUp(ConnOf(j), <<HaltMsg(halt)>>)

JoinerHalts(s, reason) == [s EXCEPT !.session = Halt(@, reason)]

JoinerSeal(j) ==
  /\ phase[j] = "playing" /\ CanSeal(session[j])
  /\ session' = [session EXCEPT ![j] = Seal(@)]
  /\ up' = SendUp(ConnOf(j), <<TickMsg(Packet(session[j]))>>)
  /\ UNCHANGED <<world, waiting, pending, quiet, outbox, line, down, phase, conn, issued, drifts>>

\* from_host, for one message.
JoinerReads(j, type, Handled(_, _)) ==
  /\ Plays(j)
  /\ Is(down[ConnOf(j)], type)
  /\ JoinerBecomes(j, Handled(JoinerState(j), Head(down[ConnOf(j)])))
  /\ down' = Read(ConnOf(j))
  /\ UNCHANGED <<world, quiet, outbox, line, conn, issued, drifts>>

FromHost(s, p) ==
  IF IsError(Verdict(s.session, p)) THEN JoinerHalts(s, "Protocol")
  ELSE [s EXCEPT !.session = Receive(@, p)]

JoinerTick(j) == JoinerReads(j, "Tick", LAMBDA s, m : FromHost(s, m.packet))
JoinerToldHalt(j) == JoinerReads(j, "Halt", LAMBDA s, m : JoinerHalts(s, m.reason))
JoinerResyncAt(j) ==
  JoinerReads(j, "ResyncAt", LAMBDA s, m : [s EXCEPT !.session = ResyncAnnounced(@, m.tick)])
JoinerResync(j) ==
  JoinerReads(j, "Resync",
              LAMBDA s, m : [s EXCEPT !.pending = [tick |-> m.tick, world |-> m.world]])
JoinerRetire(j) ==
  JoinerReads(j, "Retire",
              LAMBDA s, m : [s EXCEPT !.session = Retire(@, m.slot, m.from),
                                      !.waiting = @ \ {m.slot}])
JoinerAway(j) ==
  JoinerReads(j, "Away", LAMBDA s, m : [s EXCEPT !.waiting = @ \union {m.slot}])
JoinerBack(j) ==
  JoinerReads(j, "Back", LAMBDA s, m : [s EXCEPT !.waiting = @ \ {m.slot}])

\* dropped: its host's connection is closed and read to its end.
JoinerDropped(j) ==
  /\ Plays(j) /\ down[ConnOf(j)] = <<Fin>>
  /\ JoinerBecomes(j, JoinerHalts(JoinerState(j), "Left"))
  /\ UNCHANGED <<world, quiet, outbox, line, down, conn, issued, drifts>>

JoinerAdvance(j) ==
  /\ Plays(j) /\ Ready(session[j]) /\ session[j].tick < MaxTick
  /\ LET a == Advance(session[j], world[j])
     IN  /\ JoinerBecomes(j, [JoinerState(j) EXCEPT !.session = a.session])
         /\ world' = [world EXCEPT ![j] = a.world]
  /\ UNCHANGED <<quiet, outbox, line, down, conn, issued, drifts>>

\* advance is held at the barrier and the host's state for it is in: resync adopts it.
JoinerAdopt(j) ==
  /\ Plays(j) /\ AtBarrier(session[j]) /\ pending[j].tick = session[j].barrier
  /\ JoinerBecomes(j, [JoinerState(j) EXCEPT
                         !.session = Resynced(@, pending[j].tick, pending[j].world),
                         !.pending = NoResync])
  /\ world' = [world EXCEPT ![j] = pending[j].world]
  /\ UNCHANGED <<quiet, outbox, line, down, conn, issued, drifts>>

\* Past TIMEOUT, held at the barrier or with its host's packet the one missing.
JoinerTimeout(j) ==
  /\ "Timeout" \in Happens /\ Plays(j)
  /\ \/ AtBarrier(session[j]) /\ pending[j].tick # session[j].barrier
     \/ Waiting(session[j]) /\ Host \in Missing(session[j])
  /\ JoinerBecomes(j, JoinerHalts(JoinerState(j), "Timeout"))
  /\ UNCHANGED <<world, quiet, outbox, line, down, conn, issued, drifts>>

JoinerPump(j, orders) ==
  /\ Plays(j)
  /\ session' = [session EXCEPT ![j].staged = @ \o orders]
  /\ issued' = issued \union Range(orders)
  /\ UNCHANGED <<world, waiting, pending, quiet, outbox, line, up, down, phase, conn, drifts>>

\* leave, from a game under way.
JoinerLeaves(j) ==
  /\ "Leave" \in Happens /\ phase[j] = "playing"
  /\ phase' = [phase EXCEPT ![j] = "over"]
  /\ up' = SendUp(ConnOf(j), <<Msg("Leaving"), Fin>>)
  /\ down' = [down EXCEPT ![ConnOf(j)] = <<Fin>>]
  /\ UNCHANGED <<session, world, waiting, pending, quiet, outbox, line, conn, issued, drifts>>

(***************************************************************************)
(* A joiner who has lost the game joins again on the same install.  The    *)
(* halt box is answered Leave game (a goodbye, if the connection is still  *)
(* open) or Continue alone; then the lobby's driver knocks, and hears only *)
(* the host's answer.                                                      *)
(***************************************************************************)
JoinerKnocks(j, goodbye) ==
  /\ phase[j] = "lost" /\ conn[j] < MaxConn /\ Pumps(Host)
  /\ LET new == <<j, conn[j] + 1>>
     IN  /\ conn' = [conn EXCEPT ![j] = @ + 1]
         /\ line' = [line EXCEPT ![new] = "connecting"]
         /\ up' = [SendUp(ConnOf(j), goodbye) EXCEPT ![new] = <<Msg("Join")>>]
         /\ down' = [down EXCEPT ![ConnOf(j)] = <<Fin>>]
  /\ phase' = [phase EXCEPT ![j] = "knocking"]
  /\ session' = [session EXCEPT ![j] = NewSession(j, Host)]
  /\ world' = [world EXCEPT ![j] = <<>>]
  /\ waiting' = [waiting EXCEPT ![j] = {}]
  /\ pending' = [pending EXCEPT ![j] = NoResync]
  /\ UNCHANGED <<quiet, outbox, issued, drifts>>

\* Live::rejoin, from the host's Rejoin.  What is behind it stays queued.
JoinerRejoins(j) ==
  /\ phase[j] = "knocking" /\ Is(down[ConnOf(j)], "Rejoin")
  /\ LET m == Head(down[ConnOf(j)])
     IN  /\ session' = [session EXCEPT ![j] = Rejoin(j, Host, m.retired, m.next, m.world)]
         /\ world' = [world EXCEPT ![j] = m.world]
  /\ phase' = [phase EXCEPT ![j] = "playing"]
  /\ down' = Read(ConnOf(j))
  /\ UNCHANGED <<waiting, pending, quiet, outbox, line, up, conn, issued, drifts>>

\* The driver fails on a refusal or a lost host, and ignores everything else.  A player
\* whose seat the computer has not taken may try again.
JoinerHears(j) ==
  LET channel == down[ConnOf(j)]
  IN  /\ phase[j] = "knocking" /\ channel # <<>> /\ ~Is(channel, "Rejoin")
      /\ phase' = [phase EXCEPT ![j] =
                     IF Is(channel, "NoSeat") /\ Head(channel).why = "Retired" THEN "over"
                     ELSE IF Is(channel, "NoSeat") \/ channel = <<Fin>> THEN "lost" ELSE @]
      /\ up' = IF Is(channel, "NoSeat") THEN SendUp(ConnOf(j), <<Fin>>) ELSE up
      /\ down' = IF channel = <<Fin>> THEN down ELSE Read(ConnOf(j))
      /\ UNCHANGED <<session, world, waiting, pending, quiet, outbox, line, conn, issued, drifts>>

(***************************************************************************)
(* What befalls the game: a connection breaks, losing what was in flight   *)
(* each way from some point on, and a world drifts from the others.        *)
(***************************************************************************)
Break(c) ==
  /\ "Break" \in Happens
  /\ line[c] \notin {"none", "gone"} /\ ~Closed(down[c])
  /\ \E heard \in Lossy(up[c]), told \in Lossy(down[c]) :
       up' = [up EXCEPT ![c] = heard] /\ down' = [down EXCEPT ![c] = told]
  /\ UNCHANGED <<session, world, waiting, pending, quiet, outbox, line, phase, conn, issued, drifts>>

\* A joiner's program ends, and is started again: its install stays the same.
Crash(j) ==
  /\ "Crash" \in Happens
  /\ phase[j] \in {"playing", "knocking"}
  /\ phase' = [phase EXCEPT ![j] = "lost"]
  /\ up' = SendUp(ConnOf(j), <<Fin>>)
  /\ down' = [down EXCEPT ![ConnOf(j)] = <<Fin>>]
  /\ UNCHANGED <<session, world, waiting, pending, quiet, outbox, line, conn, issued, drifts>>

Glitch == [slot |-> None, seq |-> 0, payload |-> <<"Glitch", None>>]
Drift(s) ==
  /\ drifts < MaxDrift
  /\ Len(world[s]) \in 1 .. DriftBy
  /\ world' = [world EXCEPT ![s][Len(world[s])] = Append(@, Glitch)]
  /\ drifts' = drifts + 1
  /\ UNCHANGED <<session, waiting, pending, quiet, outbox, line, up, down, phase, conn, issued>>

(***************************************************************************)
(* The game.                                                               *)
(***************************************************************************)
Ordered == {<<>>} \union {<<o>> : o \in Orders \ issued}

HostSteps(c) == HostTick(c) \/ HostKnock(c) \/ HostLeaving(c) \/ HostToldHalt(c) \/ HostDropped(c)
HostRuns == HostSeal \/ HostAccept \/ HostAdvance \/ HostResync
JoinerHearsHost(j) ==
  \/ JoinerTick(j) \/ JoinerToldHalt(j) \/ JoinerResyncAt(j) \/ JoinerResync(j)
  \/ JoinerRetire(j) \/ JoinerAway(j) \/ JoinerBack(j) \/ JoinerDropped(j)
JoinerRuns(j) == JoinerSeal(j) \/ JoinerHearsHost(j) \/ JoinerAdvance(j) \/ JoinerAdopt(j)
JoinerReturns(j) ==
  \/ \E goodbye \in {<<Fin>>, <<Msg("Leaving"), Fin>>} : JoinerKnocks(j, goodbye)
  \/ JoinerRejoins(j) \/ JoinerHears(j)

Next ==
  \/ HostRuns \/ HostQuiet \/ HostTimeout \/ HostLeaves
  \/ \E c \in Conns : HostSteps(c) \/ Break(c)
  \/ \E orders \in Ordered, plays \in BOOLEAN : HostPump(orders, plays)
  \/ \E j \in Joiners : JoinerRuns(j) \/ JoinerTimeout(j) \/ JoinerLeaves(j) \/ JoinerReturns(j) \/ Crash(j)
  \/ \E j \in Joiners, orders \in Ordered : JoinerPump(j, orders)
  \/ \E s \in Slots : Drift(s)

Spec == Init /\ [][Next]_vars

(***************************************************************************)
(* The app loop of every seat keeps pumping, and a player who has lost the *)
(* game keeps coming back.  Nothing that befalls the game is forced.  No   *)
(* behaviour of the bounded game changes state for ever, so that fairness  *)
(* to a seat's steps together is fairness to each.                         *)
(***************************************************************************)
HostLoop == HostRuns \/ HostPump(<<>>, FALSE) \/ \E c \in Conns : HostSteps(c)
JoinerLoop(j) == JoinerRuns(j) \/ JoinerReturns(j)
Fairness == WF_vars(HostLoop) /\ \A j \in Joiners : WF_vars(JoinerLoop(j))

FairSpec == Spec /\ Fairness

(***************************************************************************)
(* Properties.                                                             *)
(***************************************************************************)
\* The seats whose game is one: under way, and not played by the computer.
InGame == {s \in Slots : /\ s = Host => Pumps(Host)
                         /\ s # Host => phase[s] = "playing" /\ session[Host].retired[s] = None}

\* What a tick ran but for the drifts, each command in its place.
Commanded(entry) == [i \in {k \in DOMAIN entry : entry[k] # Glitch} |-> entry[i]]
InFlight(j, type) == {m \in Range(down[ConnOf(j)]) : m.type = type}

\* Every part of the state is of its type.
TypeOK ==
  /\ \A s \in Slots : session[s].tick \in 0 .. MaxTick /\ Len(world[s]) = session[s].tick
  /\ waiting \in [Slots -> SUBSET Joiners] /\ quiet \subseteq Slots
  /\ line \in [Conns -> {"none", "connecting", "accepted", "stranger", "rejoining",
                         "seated", "gone"}]
  /\ phase \in [Joiners -> {"playing", "knocking", "lost", "over"}]
  /\ conn \in [Joiners -> 0 .. MaxConn]
  /\ issued \subseteq Orders /\ drifts \in 0 .. MaxDrift

\* Whatever befalls the game, the state is well formed and the seats playing it run the
\* same commands in every tick.
CommandsAgree ==
  /\ TypeOK
  /\ \A a, b \in InGame : \A i \in DOMAIN world[a] \cap DOMAIN world[b] :
       Commanded(world[a][i]) = Commanded(world[b][i])

\* No seat is ever sent what its session refuses: no game stops on a protocol error.
NoProtocolHalt == \A s \in Slots : session[s].halt # "Protocol"

\* A resync is announced before any seat has run past its tick, and its world arrives
\* before the seat runs on.
BarrierInTime ==
  \A j \in InGame \ {Host} :
    /\ \A m \in InFlight(j, "ResyncAt") \union InFlight(j, "Resync") : session[j].tick <= m.tick + 1
    /\ pending[j].tick # None => pending[j].tick = session[j].barrier

\* A seat that has heard all its host has said waits for the same seats.
WaitingListsAgree ==
  \A j \in InGame \ {Host} :
    line[ConnOf(j)] = "seated" /\ down[ConnOf(j)] = <<>> /\ Pumps(Host)
      => waiting[j] = waiting[Host] \ {j}

\* A game whose players keep coming back goes on.
GaveUp(j) == phase[j] \in {"lost", "over"} /\ conn[j] = MaxConn
GameGoesOn == <>(session[Host].tick = MaxTick \/ \E j \in Joiners : GaveUp(j))

\* A game its host ends stops for every seat.
EndReachesAll == ~Pumps(Host) ~> \A j \in Joiners : phase[j] \in {"lost", "over"}

\* Worlds that drifted apart are made one again.
DriftHeals == <>[](\A j \in Joiners : world[j] = world[Host])
=============================================================================
