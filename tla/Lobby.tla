------------------------------- MODULE Lobby -------------------------------
(***************************************************************************)
(* The room before a network game (crates/l2-net/src/lobby), with the      *)
(* Driver that pumps it and the Link of its screen (crates/l2-game/src/    *)
(* net): a host, the joiners that connect to it, what their players press, *)
(* and Start, on which every program leaves the room for the session.      *)
(*                                                                         *)
(* A pass of the host's application loop is what was pressed, in order;    *)
(* everything the transport has to read; the connections found closed; and *)
(* the answers.  The others run between its steps.  A way of a connection  *)
(* is a sequence of messages that ends in "End", which Stream promises; one  *)
(* that breaks ends at any of them.                                        *)
(***************************************************************************)
EXTENDS Integers, FiniteSets, Sequences

CONSTANTS Host, Joiners,
          NameOf,      \* the name of each program's player
          ShieldOf,    \* the shield each asks for
          Foreign,     \* the joiners of another build, which Hello::check tells
          Saved,       \* Roster.saved: the install that played each realm; <<>> if a new game
          MaxPlayers, MaxShields,
          Nobody,
          MaxPresses,  \* bound: how much each program's player presses
          MaxClicks,   \* bound: how many of the host's presses may come before a realm's
          MayBreak,    \* bound: the joiners whose connection may break
          MayLeave     \* bound: the programs whose player may leave

Programs == Joiners \cup {Host}
HostSlot == 0
Slots == 0 .. MaxPlayers - 1
Realms == DOMAIN Saved

ASSUME LobbyAssumption ==
  /\ Host \notin Joiners /\ Foreign \subseteq Joiners /\ Nobody \notin Programs
  /\ MaxPlayers \in Nat \ {0} /\ MaxShields \in Nat /\ MaxShields >= MaxPlayers
  /\ Realms \subseteq Nat \ {0}
  /\ MaxPresses \in [Programs -> Nat]

VARIABLES
  at,        \* where the host's loop is: "ui", "pass"; "live", "over"
  asked,     \* Link.requests of the host
  presses,   \* how much the host's player has pressed, and each joiner's
  roster,    \* Lobby.roster of the host: the player in each slot taken
  seats,     \* Lobby.seats: the slot of each connection that joined
  installs,  \* Driver.installs: the install in each slot
  outbox,    \* what Lobby.outbox of the host has for each connection
  started,   \* Lobby.started of the host: the roster in Start, or Nobody
  backlog,   \* the connections the host has yet to accept
  conns,     \* those it has
  gone,      \* those it has found closed in this pass
  toHost, toJoiner,  \* each way of each connection
  broken,    \* the connections the network broke
  phase,     \* where each joiner is: "idle", "room", "started", "failed", "left"
  view       \* Lobby.roster of each joiner

net == <<backlog, conns, gone, toHost, toJoiner, broken>>
room == <<roster, seats, installs, outbox, started>>
vars == <<at, asked, presses, room, net, phase, view>>

(***************************************************************************)
(* The roster.                                                             *)
(***************************************************************************)
Taken(r) == DOMAIN r
PlayerNamed(r, n) == {s \in Taken(r) : r[s].name = n}
Holder(r, realm) == {s \in Taken(r) : r[s].realm = realm}
Unseated(r) == IF Realms = {} THEN {} ELSE Holder(r, 0)
AllReady(r) == Cardinality(Taken(r)) >= 2 /\ \A s \in Taken(r) : r[s].ready

Least(S) == CHOOSE x \in S : \A y \in S : x <= y

FreeShieldAsked(r, wanted) == wanted      \* mutant: whoever holds it

FreeShield(r, wanted) ==
  LET free == (1 .. MaxShields) \ {r[s].shield : s \in Taken(r)}
  IN  IF wanted \in free THEN wanted ELSE IF free = {} THEN 0 ELSE Least(free)

FreeSlot(r) == Least(Slots \ Taken(r))

With(r, s, p) == [x \in Taken(r) \cup {s} |-> IF x = s THEN p ELSE r[x]]
Without(f, S) == [x \in DOMAIN f \ S |-> f[x]]

\* claim: the realm its install played, if nobody holds it.
ClaimOf(r, p) ==
  LET mine == {k \in Realms : Saved[k] = p /\ Holder(r, k) = {}}
  IN  IF mine = {} THEN 0 ELSE Least(mine)

NewPlayer(r, p) ==
  [name |-> NameOf[p], ready |-> p = Host, shield |-> FreeShield(r, ShieldOf[p]), realm |-> ClaimOf(r, p)]

\* Where a player finds itself: the host in its own slot, a joiner by its name.
Me(r, j) == IF PlayerNamed(r, NameOf[j]) = {} THEN Nobody ELSE Least(PlayerNamed(r, NameOf[j]))
SeatOf(j) == Me(view[j], j)

Nothing == [j \in Joiners |-> <<>>]

Init ==
  /\ at = "ui" /\ asked = <<>> /\ presses = [p \in Programs |-> 0]
  /\ roster = With(<<>>, HostSlot, NewPlayer(<<>>, Host))
  /\ seats = <<>> /\ installs = With(<<>>, HostSlot, Host)
  /\ outbox = Nothing /\ started = Nobody
  /\ backlog = {} /\ conns = {} /\ gone = {} /\ broken = {}
  /\ toHost = [j \in Joiners |-> <<>>] /\ toJoiner = [j \in Joiners |-> <<>>]
  /\ phase = [j \in Joiners |-> "idle"] /\ view = [j \in Joiners |-> <<>>]

(***************************************************************************)
(* Sending.                                                                *)
(***************************************************************************)
Message(type, r) == [type |-> type, roster |-> r]
\* What is for everyone goes to every open connection, joined or not.
Everyone == Joiners
Out(out, to, message) == [j \in Joiners |-> IF j \in to THEN Append(out[j], message) ELSE out[j]]

Reaches(j) == j \in conns /\ phase[j] = "room" /\ j \notin broken
Flush(out) == toJoiner' = [j \in Joiners |-> IF Reaches(j) THEN toJoiner[j] \o out[j] ELSE toJoiner[j]]
\* A joiner drops its driver: its end of the connection closes, and its roster goes.
Dropped(j, to) ==
  /\ phase' = [phase EXCEPT ![j] = to] /\ view' = [view EXCEPT ![j] = <<>>]
  /\ toHost' = [toHost EXCEPT ![j] = IF j \in broken THEN @ ELSE Append(@, "End")]
\* The host drops its own, the connections it has not accepted, and what their out queues
\* hold or a closed socket gives up: of what is on the way the last may be lost.
Unsent == {n \in [Joiners -> UNION {0 .. Len(toJoiner[j]) : j \in Joiners}] :
             \A j \in Joiners : n[j] <= Len(toJoiner[j])}
CloseRoom ==
  /\ at' = "over" /\ asked' = <<>>
  /\ roster' = <<>> /\ seats' = <<>> /\ installs' = <<>> /\ outbox' = Nothing /\ started' = Nobody
  /\ backlog' = {} /\ conns' = {} /\ gone' = {} /\ toHost' = [j \in Joiners |-> <<>>]
  /\ \E sent \in Unsent :
       toJoiner' = [j \in Joiners |-> IF phase[j] = "room" /\ j \notin broken
                                      THEN Append(SubSeq(toJoiner[j], 1, sent[j]), Message("End", <<>>))
                                      ELSE toJoiner[j]]

(***************************************************************************)
(* The host's player.  The screen shows the roster of the last pass, which *)
(* nothing changes before the next one.                                    *)
(***************************************************************************)
Press(request) ==
  /\ at = "ui" /\ presses[Host] < MaxPresses[Host]
  /\ presses' = [presses EXCEPT ![Host] = @ + 1]
  /\ asked' = Append(asked, request)
  /\ UNCHANGED <<at, room, net, phase, view>>

Blocked == Unseated(roster) # {} \/ \E s \in Taken(roster) \ {HostSlot} : ~roster[s].ready
PressStart == ~Blocked /\ Press([kind |-> "Start"])
PressLeave == Host \in MayLeave /\ Press([kind |-> "Leave"])

\* next_holder: the realm goes to the next player without one, in slot order after its
\* holder, or from its holder to the computer.
PressRealm ==
  /\ presses[Host] < MaxClicks
  /\ \E realm \in Realms :
       LET holder == Holder(roster, realm)
           waiting == Holder(roster, 0)
           after == {s \in waiting : holder # {} /\ s > Least(holder)}
       IN  \/ /\ waiting # {}
              /\ Press([kind |-> "Assign", realm |-> realm,
                        slot |-> Least(IF after # {} THEN after ELSE waiting)])
           \/ /\ waiting = {} /\ holder # {}
              /\ Press([kind |-> "Assign", realm |-> 0, slot |-> Least(holder)])

\* A pass that finds nothing to do changes nothing.
BeginPass ==
  /\ at = "ui" /\ (asked # <<>> \/ backlog # {} \/ \E j \in conns : toHost[j] # <<>> \/ j \in broken)
  /\ at' = "pass" /\ UNCHANGED <<asked, presses, room, net, phase, view>>

(***************************************************************************)
(* link::lobby's requests.  One that fails ends the room, as Leave does.   *)
(***************************************************************************)
MayServe(request) ==
  /\ started = Nobody
  /\ request.kind = "Start" => AllReady(roster) /\ Unseated(roster) = {}
  /\ request.kind = "Assign" => request.realm \in Realms \cup {0} /\ request.slot \in Taken(roster)
  /\ request.kind # "Leave"

Serve(kind) == at = "pass" /\ asked # <<>> /\ Head(asked).kind = kind /\ MayServe(Head(asked)) /\ asked' = Tail(asked)

ServeStartUnsent ==      \* mutant: nobody is told
  /\ Serve("Start") /\ started' = roster
  /\ UNCHANGED <<at, presses, roster, seats, installs, outbox, net, phase, view>>

ServeStart ==
  /\ Serve("Start") /\ started' = roster
  /\ Flush(Out(outbox, Everyone, Message("Start", roster))) /\ outbox' = Nothing
  /\ UNCHANGED <<at, presses, roster, seats, installs, backlog, conns, gone, toHost, broken, phase, view>>

\* Whoever held the realm is unseated.
Assigned(r, slot, realm) ==
  [s \in Taken(r) |-> IF s = slot THEN [r[s] EXCEPT !.realm = realm]
                      ELSE IF r[s].realm = realm THEN [r[s] EXCEPT !.realm = 0]
                      ELSE r[s]]

ServeAssignStale ==      \* mutant: the roster is sent as it was before
  /\ Serve("Assign")
  /\ LET new == Assigned(roster, Head(asked).slot, Head(asked).realm)
     IN  roster' = new /\ Flush(Out(outbox, Everyone, Message("Roster", roster))) /\ outbox' = Nothing
  /\ UNCHANGED <<at, presses, seats, installs, started, backlog, conns, gone, toHost, broken, phase, view>>

ServeAssign ==
  /\ Serve("Assign")
  /\ LET new == Assigned(roster, Head(asked).slot, Head(asked).realm)
     IN  roster' = new /\ Flush(Out(outbox, Everyone, Message("Roster", new))) /\ outbox' = Nothing
  /\ UNCHANGED <<at, presses, seats, installs, started, backlog, conns, gone, toHost, broken, phase, view>>

ServeFails ==
  /\ at = "pass" /\ asked # <<>> /\ ~MayServe(Head(asked))
  /\ CloseRoom
  /\ UNCHANGED <<presses, broken, phase, view>>

(***************************************************************************)
(* Driver::pump.                                                           *)
(***************************************************************************)
Polls == at = "pass" /\ asked = <<>>

Accept(j) ==
  /\ Polls /\ j \in backlog
  /\ backlog' = backlog \ {j} /\ conns' = conns \cup {j}
  /\ UNCHANGED <<at, asked, presses, room, gone, toHost, toJoiner, broken, phase, view>>

Reads(j, message) ==
  /\ Polls /\ j \in conns /\ toHost[j] # <<>> /\ Head(toHost[j]) = message
  /\ toHost' = [toHost EXCEPT ![j] = Tail(@)]
  /\ UNCHANGED <<at, asked, presses, backlog, toJoiner, broken, started, phase, view>>

RefusesNoName(j) == j \in Foreign \/ Taken(roster) = Slots      \* mutant: names are not compared

Refuses(j) == j \in Foreign \/ PlayerNamed(roster, NameOf[j]) # {} \/ Taken(roster) = Slots

\* A join read after Start is answered by nobody.
JoinLost(j) == started # Nobody /\ Reads(j, "Join") /\ UNCHANGED <<roster, seats, installs, outbox, conns, gone>>

JoinRefusedSilently(j) ==      \* mutant: the host carries on, and says nothing
  /\ started = Nobody /\ Refuses(j) /\ Reads(j, "Join")
  /\ UNCHANGED <<roster, seats, installs, outbox, conns, gone>>

JoinRefused(j) ==
  /\ started = Nobody /\ Refuses(j) /\ Reads(j, "Join")
  /\ outbox' = Out(outbox, {j}, Message("Refused", <<>>))
  /\ UNCHANGED <<roster, seats, installs, conns, gone>>

\* A joiner asks for the host's slot and gets the first that is free.
JoinSeated(j) ==
  /\ started = Nobody /\ ~Refuses(j) /\ Reads(j, "Join")
  /\ LET slot == FreeSlot(roster)
         new == With(roster, slot, NewPlayer(roster, j))
     IN  /\ roster' = new /\ outbox' = Out(outbox, Everyone, Message("Roster", new))
         /\ seats' = With(seats, j, slot)
         /\ installs' = With(installs, slot, j)
  /\ UNCHANGED <<conns, gone>>

\* on_ready asks whether this connection has a seat, not whether the game has started.
ReadyRead(j, ready) ==
  /\ Reads(j, IF ready THEN "Ready" ELSE "NotReady")
  /\ IF j \in DOMAIN seats
     THEN LET new == [roster EXCEPT ![seats[j]].ready = ready]
          IN  roster' = new /\ outbox' = Out(outbox, Everyone, Message("Roster", new))
     ELSE UNCHANGED <<roster, outbox>>
  /\ UNCHANGED <<seats, installs, conns, gone>>

\* A connection ends where its peer closed it; a broken one, at any message.
EndRead(j) ==
  /\ Polls /\ j \in conns /\ (j \in broken \/ (toHost[j] # <<>> /\ Head(toHost[j]) = "End"))
  /\ conns' = conns \ {j} /\ gone' = gone \cup {j} /\ toHost' = [toHost EXCEPT ![j] = <<>>]
  /\ UNCHANGED <<at, asked, presses, room, backlog, toJoiner, broken, phase, view>>

HostReads(j) == JoinLost(j) \/ JoinRefused(j) \/ JoinSeated(j) \/ EndRead(j)
                \/ \E ready \in BOOLEAN : ReadyRead(j, ready)

\* Nothing more has arrived.  Those who left lose their seats, one after another; then
\* the outbox is sent.  On Start the session takes the transport, and the seats as they
\* are now.
InSomeOrder(S) == {q \in [1 .. Cardinality(S) -> S] : \A i, k \in DOMAIN q : q[i] = q[k] => i = k}
Departed(S) == Without(roster, {seats[j] : j \in S})
Departures(order) == [i \in DOMAIN order |-> Message("Roster", Departed({order[k] : k \in 1 .. i}))]

PassEnds ==
  /\ Polls /\ at' = IF started = Nobody THEN "ui" ELSE "live"
  /\ LET left == gone \cap DOMAIN seats
     IN  /\ \E order \in InSomeOrder(left) : Flush([j \in Joiners |-> outbox[j] \o Departures(order)])
         /\ roster' = Departed(left)
         /\ seats' = Without(seats, left)
         /\ installs' = Without(installs, {seats[j] : j \in left})
  /\ outbox' = Nothing /\ gone' = {}
  /\ UNCHANGED <<asked, presses, started, backlog, conns, toHost, broken, phase, view>>

\* The session answers a join that comes to it (Live::knock), and closes.
LiveHears(j) ==
  /\ at = "live" /\ toHost[j] # <<>>
  /\ toHost' = [toHost EXCEPT ![j] = Tail(@)]
  /\ IF Head(toHost[j]) = "Join" /\ j \notin broken
     THEN toJoiner' = [toJoiner EXCEPT ![j] = @ \o <<Message("NoSeat", <<>>), Message("End", <<>>)>>]
     ELSE UNCHANGED toJoiner
  /\ UNCHANGED <<at, asked, presses, room, backlog, conns, gone, broken, phase, view>>

(***************************************************************************)
(* A joiner.                                                               *)
(***************************************************************************)
\* The connect's thread has the connection, and pump greets the host.
Connect(j) ==
  /\ phase[j] = "idle" /\ at # "over"
  /\ phase' = [phase EXCEPT ![j] = "room"]
  /\ backlog' = backlog \cup {j} /\ toHost' = [toHost EXCEPT ![j] = <<"Join">>]
  /\ UNCHANGED <<at, asked, presses, room, conns, gone, toJoiner, broken, view>>

\* The room's button says what the roster does not.
Ready(j) ==
  /\ phase[j] = "room" /\ presses[j] < MaxPresses[j] /\ j \notin broken
  /\ presses' = [presses EXCEPT ![j] = @ + 1]
  /\ LET isReady == SeatOf(j) # Nobody /\ view[j][SeatOf(j)].ready
     IN  toHost' = [toHost EXCEPT ![j] = Append(@, IF isReady THEN "NotReady" ELSE "Ready")]
  /\ UNCHANGED <<at, asked, room, backlog, conns, gone, toJoiner, broken, phase, view>>

Leave(j) ==
  /\ phase[j] = "room" /\ j \in MayLeave
  /\ Dropped(j, "left") /\ toJoiner' = [toJoiner EXCEPT ![j] = <<>>]
  /\ UNCHANGED <<at, asked, presses, room, backlog, conns, gone, broken>>

Hears(j, types) ==
  /\ phase[j] = "room" /\ toJoiner[j] # <<>> /\ Head(toJoiner[j]).type \in types
Rest(j) == toJoiner' = [toJoiner EXCEPT ![j] = Tail(@)]
Ends(j) == Dropped(j, "failed") /\ toJoiner' = [toJoiner EXCEPT ![j] = <<>>]

RosterHeard(j) ==
  /\ Hears(j, {"Roster"}) /\ Rest(j)
  /\ view' = [view EXCEPT ![j] = Head(toJoiner[j]).roster]
  /\ UNCHANGED <<toHost, phase>>

\* It builds its world, if it finds its seat in Start.
StartHeard(j) ==
  /\ Hears(j, {"Start"})
  /\ LET start == Head(toJoiner[j]).roster
     IN  IF Me(start, j) = Nobody THEN Ends(j)
         ELSE /\ phase' = [phase EXCEPT ![j] = "started"] /\ view' = [view EXCEPT ![j] = start]
              /\ Rest(j) /\ UNCHANGED toHost

NoHeard(j) == (Hears(j, {"Refused", "NoSeat", "End"}) \/ (phase[j] = "room" /\ j \in broken)) /\ Ends(j)

JoinerHears(j) ==
  /\ RosterHeard(j) \/ StartHeard(j) \/ NoHeard(j)
  /\ UNCHANGED <<at, asked, presses, room, backlog, conns, gone, broken>>

Break(j) ==
  /\ j \in MayBreak \ broken /\ phase[j] = "room" /\ broken' = broken \cup {j}
  /\ UNCHANGED <<at, asked, presses, room, backlog, conns, gone, toHost, toJoiner, phase, view>>

HostNext == PressStart \/ PressLeave \/ PressRealm \/ BeginPass \/ ServeStart \/ ServeAssign
            \/ ServeFails \/ PassEnds
PeerNext(j) == Accept(j) \/ HostReads(j) \/ LiveHears(j)
JoinerNext(j) == Connect(j) \/ Ready(j) \/ Leave(j) \/ JoinerHears(j) \/ Break(j)

Next == HostNext \/ \E j \in Joiners : PeerNext(j) \/ JoinerNext(j)
Spec == Init /\ [][Next]_vars

\* The host's loop goes round, what is on the way arrives in some pass, and so does it
\* at the joiner, whose loop goes round too.
FairSpec ==
  /\ Spec
  /\ WF_vars(BeginPass \/ ServeStart \/ ServeAssign \/ ServeFails \/ PassEnds)
  /\ \A j \in Joiners : /\ SF_vars(Accept(j)) /\ SF_vars(HostReads(j))
                        /\ WF_vars(LiveHears(j)) /\ WF_vars(JoinerHears(j))

(***************************************************************************)
(* Properties.                                                             *)
(***************************************************************************)
Places == {"ui", "pass", "live", "over"}
Phases == {"idle", "room", "started", "failed", "left"}
Player == [name : {NameOf[p] : p \in Programs}, ready : BOOLEAN, shield : 0 .. MaxShields, realm : Realms \cup {0}]
\* An Option that is None is no roster.
ASSUME NobodyAssumption == \A S \in SUBSET Slots : Nobody \notin [S -> Player]

IsRoster(r) == Taken(r) \subseteq Slots /\ r \in [Taken(r) -> Player]

TypeOK ==
  /\ at \in Places /\ \A i \in DOMAIN asked : asked[i].kind \in {"Start", "Assign", "Leave"}
  /\ \A p \in Programs : presses[p] \in 0 .. MaxPresses[p]
  /\ IsRoster(roster) /\ (started = Nobody \/ IsRoster(started)) /\ \A j \in Joiners : IsRoster(view[j])
  /\ DOMAIN seats \subseteq Joiners /\ DOMAIN installs \subseteq Slots
  /\ backlog \subseteq Joiners /\ conns \subseteq Joiners /\ gone \subseteq Joiners /\ broken \subseteq Joiners
  /\ \A j \in Joiners : \A i \in DOMAIN toHost[j] : toHost[j][i] \in {"Join", "Ready", "NotReady", "End"}
  /\ \A j \in Joiners : \A i \in DOMAIN toJoiner[j] : IsRoster(toJoiner[j][i].roster)
  /\ phase \in [Joiners -> Phases]

\* The state is well formed.  The roster, the seats and the installs, which Lobby and Driver keep apart, are about
\* the same slots, through joins, refusals and leaves; no shield and no realm is held
\* twice, and no player stays on the roster whose connection is over.
RoomAgrees ==
  /\ TypeOK
  /\ DOMAIN installs = Taken(roster)
  /\ {seats[j] : j \in DOMAIN seats} = Taken(roster) \ {HostSlot}
  /\ \A j \in DOMAIN seats : installs[seats[j]] = j /\ roster[seats[j]].name = NameOf[j]
  /\ \A s, t \in Taken(roster) : s # t =>
       roster[s].shield # roster[t].shield /\ (roster[s].realm = 0 \/ roster[s].realm # roster[t].realm)
  /\ at = "ui" => DOMAIN seats \subseteq conns

\* What a screen with a roster on it shows once it has taken what is on the way.
Shows(way, shown, r) ==
  \/ shown = r /\ \A i \in DOMAIN way : way[i].type # "Roster"
  \/ \E i \in DOMAIN way : /\ way[i].type = "Roster" /\ way[i].roster = r
                          /\ \A k \in DOMAIN way : k > i => way[k].type # "Roster"

\* Between two passes, the last roster sent to a seated joiner is the host's, whatever
\* changed it: once it has arrived both screens show the same room.
RosterCurrent ==
  at = "ui" => \A j \in DOMAIN seats : phase[j] = "room" /\ j \notin broken =>
                 Shows(toJoiner[j], view[j], roster)

\* A program looks for its seat by its player's name.  One that has a seat finds that one
\* in Start, and in the roster it is shown once it has heard all, whoever of its name
\* came, was refused or left before it (check_name, Driver::me).
OwnSeatFound ==
  \A j \in DOMAIN seats :
    phase[j] = "started" \/ (phase[j] = "room" /\ at = "ui" /\ j \notin broken /\ toJoiner[j] = <<>>)
      => SeatOf(j) = seats[j]

(***************************************************************************)
(* Why they hold.                                                          *)
(***************************************************************************)
\* A connection is known once it is made, and a player who has not left has not ended it.
ConnectionsKept ==
  /\ DOMAIN seats \subseteq conns \cup gone
  /\ at = "ui" => gone = {}
  /\ \A j \in Joiners :
       /\ phase[j] = "idle" => j \notin backlog \cup conns \cup gone \cup DOMAIN seats
       /\ phase[j] = "room" /\ j \notin broken => j \notin gone /\ \A i \in DOMAIN toHost[j] : toHost[j][i] # "End"

\* The host keeps its slot for as long as there is a room.
HostSeated(r) == HostSlot \in Taken(r) /\ r[HostSlot].name = NameOf[Host]
HostStays == at # "over" => HostSeated(roster)

\* What has been sent to a seated player and what is about to be end in the roster as it is.
LatestPosted ==
  /\ at = "ui" => outbox = Nothing
  /\ at \in {"ui", "pass"} => \A j \in DOMAIN seats : phase[j] = "room" /\ j \notin broken =>
       Shows(toJoiner[j] \o outbox[j], view[j], roster)

\* There is one Start, also once the host has left: every program that has it, or has it
\* on its way, has the same one, with the host on it.
Starts(j) == {toJoiner[j][i].roster : i \in {k \in DOMAIN toJoiner[j] : toJoiner[j][k].type = "Start"}}
               \cup (IF phase[j] = "started" THEN {view[j]} ELSE {})
OneStart ==
  /\ \A j \in Joiners : \A r \in Starts(j) :
       /\ HostSeated(r)
       /\ started = Nobody => at = "over"
       /\ started # Nobody => r = started
       /\ \A k \in Joiners : \A q \in Starts(k) : q = r
  /\ \A j \in Joiners : \A i \in DOMAIN outbox[j] : outbox[j][i].type # "Start"
  /\ \A j \in Joiners : phase[j] = "started" => PlayerNamed(view[j], NameOf[j]) # {}

\* Names are told apart in the roster, and in Start, which has all who are seated since.
NamesApart(r) == \A s, t \in Taken(r) : r[s].name = r[t].name => s = t
SeatedUnder(r) == \A j \in DOMAIN seats : seats[j] \in Taken(r) /\ r[seats[j]].name = NameOf[j]
NamesKept ==
  /\ NamesApart(roster)
  /\ started # Nobody => NamesApart(started) /\ SeatedUnder(started)
  /\ at = "over" => DOMAIN seats = {}

RoomInv == NamesKept /\ RoomAgrees /\ ConnectionsKept /\ HostStays /\ LatestPosted /\ OneStart

\* A player who was seated when the host started plays, if it stays, and its connection
\* and the host do.
StartReachesSeated ==
  \A j \in Joiners : (started # Nobody /\ j \in DOMAIN seats)
                       ~> (phase[j] \in {"started", "left"} \/ j \in broken \/ at = "over")

\* Whoever joins is shown the seat it has or told why not, unless the game starts without it.
JoinsAnswered ==
  \A j \in Joiners : (phase[j] = "room") ~>
                       (\/ j \in DOMAIN seats /\ SeatOf(j) = seats[j]
                        \/ phase[j] # "room" \/ started # Nobody)
=============================================================================
