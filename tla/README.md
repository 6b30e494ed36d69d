# Open Lords 2: TLA+ models of the network game

open-lords2 is a reimplementation in Rust of a turn-based strategy game. Its
network game is deterministic lockstep: every player's program simulates the
whole game, only the players' commands travel, and the programs stay the same
because they run the same commands at the same ticks in the same order. This
directory holds TLA+ modules of that part of the program, of what surrounds it (the
room before a game, the relay that brings players together, the transport) and of
two things every game does (the turn, the saves); the TLC runs that check them; and
theorems about them checked by TLAPS.

```
tlc -workers 2 -config Mesh2.cfg MCMesh       # MCMesh, MCLive, MCTransport, MCLobby; Relay, Saves, Turn
tlapm LiveProofs.tla                          # SessionProofs, MeshProofs, LiveListsProofs, TransportProofs,
                                              # LobbyProofs, RelayProofs, SeasonProofs
```

## 1. The system

| Part | Code | State | Operations | Hard because |
|---|---|---|---|---|
| Lockstep session | `l2-net/src/lockstep` | next tick, next tick to seal, staged orders, packets in hand, hashes claimed by others, own hash ring, resync barrier, retired seats, halt | `issue`, `next_packet`, `receive`, `advance`, `plan_resync`, `resync_announced`, `resync_sent`, `resynced`, `retire`, `rejoin`, `halt` | any order of packets; a seat may run ahead; off-by-ones at the horizon |
| Command order, desync history | `l2-net/src/command.rs`, `desync.rs` | ring of tick hashes | sort, push, replace, look up | a hash may come after the ring dropped the tick |
| TCP transport | `l2-net/src/tcp` | connections, out queues, readers, inboxes, cursor | accept, send, broadcast, poll, disconnect | writes and reads stop inside a frame; a connection dies with part of its data read; a peer that does not read |
| Running game | `l2-game/src/net/live.rs`, `live/seats.rs` | session, seated peers, strangers, rejoining, waiting and quiet lists, pending resync | `pump` (stage, exchange, advance, resync, silence, admit), `leave`, `rejoin` | drops, timeouts, returns, handovers and resyncs overlap |
| Lobby, driver, link | `l2-net/src/lobby`, `l2-game/src/net/driver.rs`, `link.rs` | roster, seats, installs, outbox, started, the screen's requests | join, ready, assign, start, leave, pump | stale rosters; a start and a departure in one pass |
| Relay | `l2-relay`, `l2-game/src/net/relay.rs` | codes, waiting counts, tokens | issue, enlist, claim, retire, pair | a thread for each connection around one mutex; timeouts against late answers |
| Turn | `l2-kingdom/src/phase`, `l2-game/src/turn`, `command/turn.rs` | phase, step, cursor, the wind-on in flight, battles asked about, fought and reported | advance's rounds, a frame, the seats' orders | a turn suspended in the middle of a phase, entered again from frames, orders and the clock |
| Saves | `l2-game/src/saves.rs` | the files, the requests for them | rotate, write, take | the program may end between any two file calls |
| Kingdom rules, units, sieges, battle | `l2-kingdom`, `l2-sim` | realms, counties, units, figures | the season's passes, unit ticks | mostly arithmetic |
| Screens, messages, sound, film | `l2-game` | screen stack, message queue | events, drawing | shown to one player |
| Formats, scenario, mods, view, tools, native, Ghidra | the other crates and directories | none that the game shares | decode, validate, inspect | not concurrent |

How they interact. The application's loop does one pass a frame: it pumps the room
(`link::lobby`) or the running game (`Live::pump`), runs a frame of the world, and
writes the saves that were asked for. In a room the host collects joins and presses
and sends rosters; *Start* turns the room's transport and seats into a session on
every program. From then on a pump stages the orders the player gave, seals packets
while the session has any to seal, reads every message of every connection, and
runs up to four ticks, and it is only in a tick that the world and its turn move. The host is the
centre of a star: it forwards a joiner's packets to the other joiners, tells them who
is away, back or retired, and sends its own world when the hashes show that one has
drifted. A joiner that is not on the host's network reaches it through the relay,
which pairs two connections and copies bytes between them. Programs share nothing but messages.

What makes each part correct:

* **Session**: same commands at the same tick on every seat; each order once; no
  honest packet refused, however late; every hash compared and none wrongly; nobody
  waits for ever.
* **Transport**: the messages of a connection in order and once, whatever pieces they
  travel in; every peer served; an end that is told, after the last message.
* **Running game**: the session's promise while seats drop, return, leave and are handed over;
  lists of missing seats that agree; a drifted world is healed; a dropped player can
  come back unless the computer took the seat; the host's end reaches everyone.
* **Lobby**: roster, seats and installs about the same players; the last roster sent
  is the current one; whoever is seated when the host starts, plays; one seat each.
* **Relay**: a code's count is of the joiners who wait; every token has a thread that
  will take it out; no host plays with a joiner that was refused; everybody is answered.
* **Turn**: every battle decided once; no phase left before what it waits for; the
  computer's realms prepared once a turn; the seasons go on.
* **Saves**: a crash or a failed call leaves whole files, in order, and the last save kept.

The hazards, each at its line, are in `PROJECT.json` with the properties that
cover them.

## 2. The modules

| Module | Models | Correspondence |
|---|---|---|
| `Session` | `lockstep/session.rs`, `session/seats.rs`, `desync.rs`, `command.rs` | a session is a record with the struct's fields; one operator per operation; `Verdict` is the order of `receive`'s early returns |
| `Lockstep` | the promise of a session | one log of what ticks run that only grows; each world a prefix |
| `Mesh` | several sessions joined each to each (the loop of l2-net's crate documentation, and its loopback transport) | `IssueOrder`, `SealPacket`, `Deliver`, `AdvanceTick`, over a network that is a set |
| `Live` | `live.rs`, `live/seats.rs`, the driver's knock, `end.rs`, `resync.rs`, over ordered connections | the host's handlers as operators on a record of its state, composed as the code composes them; one action per message kind, per advance, per end of pump |
| `Transport` | `tcp/transport`, `tcp/framing` | one action per call: `Connect`, `Send`, `Broadcast`, `Poll` (accept, flush, fill, take from the cursor or reap), `Disconnect`; and what the kernel does, `Reset` |
| `Stream` | the promise of a connection | three counters for each direction; what `Live` and `Lobby` take a connection for |
| `Lobby` | `lobby/`, `driver.rs`, `link.rs` | the host's pass cut at each request, message and end (`BeginPass` to `PassEnds`); what a pass sends is kept by connection until it ends; the connections found closed are taken in any order; the joiner's pump a message at a time |
| `Relay` | `server.rs`, `session.rs`, `pipe.rs`, `client.rs` of l2-relay; `net/relay.rs` | one action per critical section, write or wait of each thread; the programs at both ends |
| `Rendezvous` | the promise of the relay | joiners wait, are answered, are in or refused; games open and close |
| `Turn` | `phase/mod.rs`, `turn/`, `command/turn.rs`, `net` frame | one action per round of `advance`, per kind of frame, per order run |
| `Saves` | `saves.rs`, the requests in `Machine` and `Game` | one action per call to the file system |
| `MCMesh`, `MCLive`, `MCTransport`, `MCLobby` | | the sets and functions TLC uses |
| `SessionProofs` | | lemmas about a session's operations, for `MeshProofs` and `LiveProofs` |
| `MeshProofs`, `LiveProofs`, `LiveListsProofs`, `TransportProofs`, `LobbyProofs`, `RelayProofs`, `SeasonProofs` | | the theorems; `SeasonProofs` has those of `Turn` and `Saves` |

`Session` says nothing of who calls what. `Mesh` and `Live` each keep a session per
seat and decide that. `Mesh` is the general case of delivery (any order, no
host); `Live` is the real one (ordered connections through the host) with everything that
goes wrong in it. `Turn` is one world, since every seat runs the same one: that is
what `Mesh` and `Live` show. It keeps from the lockstep only that an order is given on what
a screen shows and runs some ticks later. `Live` and `Lobby` use a connection as `Stream`
promises it, and `Transport` is shown to keep that promise.

Choices of the models:

* **Data.** A command is its seat, sequence number and a payload; a world is the
  list of what it has run and its own hash, so two different worlds never have the
  same hash. An `Option<Tick>` is a tick or `None` = -1. A save is the number of its encoding. A relay's line is a
  record. A joiner's token is the joiner: no join is given a token another had.
* **Steps of `Live`.** A pump is cut at each message read, each packet sealed, each
  tick run and at its end, so pumps of different seats interleave at any of these. A seat
  with packets to seal seals them before anything else, as `exchange` does. How
  many messages and how many of the `CATCH_UP` ticks a pump takes is left open.
* **Timers.** `QUIET` and `TIMEOUT` may elapse whenever a seat is waiting for
  another, and the relay's limits whenever it waits. Counting `stalled` is left out.
* **Connections.** In `Live` a connection is a sequence each way. `Fin` is its end, after which
  nothing is put. A break keeps any prefix of each, and so does a host that closes its room (`Unsent`): the socket may take its queue or not, which is why
  `StartReachesSeated` excuses a room that is over. A connection the host accepts passes from
  `connecting` to `accepted` (poll has it, `note_strangers` does not) to `stranger`,
  and to `rejoining` by a knock. In `Transport` it is what it is made of: queues, the kernels' window, a reader with
  half a frame in it, which takes a length and its payload, two pieces at a time.
* **Halts.** A joiner's `halt` and the `report` at the end of the pump are one step;
  a halted host stops every connection in the same step as the halt.
* **A player who lost the game** answers the halt box with *Leave game* or *Continue alone* and knocks again.
  A player who never would is not modelled: `MaxConn` bounds how often.
* **The world of `Turn`.** Units are counted by the sweeps they still need; which armies meet, which sieges
  assault and who is wiped out is left open. `MaxMarches` bounds how many set out.
* **Left out**: notices, boxes, the replay file, dumps, the encoding of states and messages, the view
  kept over a resync. In `Turn`: the cap on a turn's ticks, the headless path, the question to combine
  armies, a fight that cannot begin.

## 3. What TLC checks

Each passing run checks named properties, and each property has in `PROJECT.json` a mutant
of a modelled definition that violates it. The mutated forms stand in the modules beside what they
mutate. Deadlock is off in every run but Turn's two: a bounded game, room or series of saves ends; a turn never does.

| Run | Instance | Shows |
|---|---|---|
| `Mesh2` | 2 seats, delay 1, ring 2, slack 2, 2 orders, 4 ticks | `WorldsAgree`, `OnceEach`, `BoundedLead`, `NeverRefused`, `NoFalseDivergence`, `ClaimsCompared`; `ImplementsLockstep` (refinement); liveness `OrdersRun` |
| `LiveDrop` | 2 seats, delay 1, 1 order, breaks, one reconnection, 3 ticks | `CommandsAgree`, `NoProtocolHalt`, and `GameGoesOn` under fairness |
| `LiveReturn` | 3 seats, both joiners may crash and return | `WaitingListsAgree` |
| `LiveHandover` | 3 seats, *Let the computer play*, 1 order | `CommandsAgree` over seats retired with packets in flight |
| `LiveResync` | 3 seats, one drift, 3 ticks | `BarrierInTime`, and `DriftHeals` under fairness |
| `LiveEnd` | 2 seats, leaving, breaks, timeouts, a drift, a reconnection | `EndReachesAll` under fairness |
| `Relay` | 2 hosts, 2 joiners, 1 code, 1 place; a host and a joiner may go | `WaitingCounts`, `TokensAttended`, `NoHalfPair`; `EverybodyAnswered` under fairness; `ImplementsRendezvous` (refinement) |
| `Transport` | a host, 2 joiners, a window and a read of 3 pieces, a queue of 2; one connection may break, one the host ends | `FramesInARow`, `NobodyPassedOver`; `EndsAreTold`, `SentArrives` under fairness; `ImplementsStream` (refinement) |
| `Saves` | any call fails, any is the last before a crash; the game becomes a network's and ends; 5 saves | `NamesHoldWholeSaves`, `NewestFirst`, `LastSaveKept`, `PlayersSaveKept`, `KindsApart` |
| `Lobby` | a saved game of 3 realms, 2 joiners of one name, 3 places; one connection may break, its player or the host leave | `RoomAgrees`, `RosterCurrent`, `OwnSeatFound`; `StartReachesSeated`, `JoinsAnswered` under fairness |
| `Turn` | 3 realms, 2 of them people's, orders a tick late, 2 marches, 2 realms that can be wiped out, a seat that can be handed over | `BattlesDecidedOnce`, `PrologueFirst`, `PhasesFinish`; `SeasonsGoOn` under fairness |
| `TurnTaken` | the same, smaller | that `SeatsEndTheTurn` does not hold (a finding) |

Each module's type invariant `TypeOK` is checked with one of these (`CommandsAgree`, `FramesInARow`, `RoomAgrees`,
`PhasesFinish` begin with it), and proved.

Why the bounds are enough.

* *Session.* The game's configurations are input delay 2 with slack 64 and
  delay 0 with slack 8, and a ring of 256. A session looks only at differences between
  ticks: with delay *d* no seat is more than *d* + 1 ticks from another (`BoundedLead`, proved), so
  a handful of ticks meets every relative position, and rings and slacks are chosen *smaller*
  than the real ones, at the limit where the property still holds: one entry fewer, one tick
  less slack or one more sealed ahead is what the mutants do. The invariants that `Mesh2` checks
  with two seats are proved for any number.
* *Live.* A drift is only possible after the first tick (`DriftBy` = 1); the resync it causes is the same
  at any tick. Two drifts are not checked.
* *Relay.* One code and one place make every collision: a code drawn again while joiners of its last host
  are still told, a second joiner at the limit. The proofs are for any number of each.
* *Transport.* A window and a read of 3 pieces end inside every second frame; a queue of one frame is full as soon as the
  window is. The joiner that talks sends three messages, so the other can be passed over.
  The invariants and the refinement are proved for any number of joiners and any sizes.
* *Saves.* `LastSaveKept` speaks of three attempts after a success; five saves are a success, three failures and one more. The
  proof is for any number.
* *Lobby.* The two joiners have one name, so the second is refused while the first is seated, takes its seat when
  it has gone, and may start on a join that nobody answered. Two players seated together, and a full room, are in the proofs. Two presses of the host are a realm and a start; three saved realms leave one for the computer.
  The invariants are proved for any of these.
* *Turn.* A unit that walks two sweeps outlives the phase's first; a delay of one tick lets two seats order on the same sight.
  Two marches make two battles, one in the tail of the other's round. Realms are three so that the cursor wraps over a dead one.

### The finding

`SeatsEndTheTurn` is what `docs/netcode.md` says of the end of a turn, and TLC finds the code do
otherwise (`TurnTaken`). Two people are shown one report of a battle and both dismiss it. The first order ends the
wind-on. The second runs when no turn is in flight, and `command/turn.rs:79-85` calls `advance` all the same, which makes a new turn
in flight: the season winds on though no seat has ended its turn.

### Known departures

What follows the code does as well, against what its documents or comments say. The models allow all
of it; each was met in a behaviour of a model or in reading for it.
Properties that would forbid it are not claimed, and those that are claimed are stated around it.

| Where | What happens | Said |
|---|---|---|
| `live/seats.rs:175` | A player knocks and waits in `rejoining`; the host chooses *Let the computer play*; `to_computer` leaves the knock there and `admit` seats a retired seat. | `docs/netcode.md:1323`: such a player gets `NoSeat::Retired` |
| `live/seats.rs:219` | With an input delay, a joiner drops after a resync was announced and before its tick. `admit` waits for the barrier, the barrier's tick for the joiner's packets. The game stands until the host lets the computer play. `GameGoesOn` holds in `LiveDrop`, where nothing drifts. | `seats.rs:2`: a dropped joiner is waited for and taken back |
| `live/seats.rs:205` | A second knock before the first is answered seats a slot on two connections, and the end of the first makes everybody wait for a seat that plays. `MaxConn` = 1 keeps it out of the runs. | `live.rs:72`: dropped seats the game waits for |
| `live/seats.rs:84` | A connection accepted by `poll` after `note_strangers` is sent what is sent in the rest of the pass. | `seats.rs:78`: a stranger hears nothing until it is seated |
| `live/seats.rs:40` | A host falls silent past the timeout and comes back. The joiner follows the box (*leave and join it again*); leaving says `Leaving`, the seat goes to the computer, and the joiner is refused. | the box, `live.rs:348` |
| `l2-relay/session.rs:112` | The relay's half of a control connection is shared with each joiner enlisted through it. A host dropped for silence sees it end only when the last pair made through it does, and shows a code that is dead. `ControlShut` models it. | `server.rs:72`: the code lives exactly as long as the control connection |
| `live/seats.rs:166` | A realm is handed to the computer while a battle it chooses for is asked about or fought. The order that answers must come from that seat, and nobody can end it (`Stranded`). | `docs/netcode.md:1299`: everyone else plays on |
| `room.rs:80`, `link.rs:225` | *Start* with nobody else in the room fails, and a failed request closes the room. | |
| `link.rs:184` | Two presses served in one pass: a second *Start*, or a realm given after *Start*, is an error and closes the host's room, whose joiners have begun. | |
| `link.rs:96`, `lobby.rs:224` | In the pass that starts, a seat may still be lost to a departure after *Start* named it, and a join that is read then is answered by nobody. | |
| `driver.rs:213` | A joiner finds its seat by name. A roster refuses a name it has, but a join that is unread when the host starts is never compared: such a program hears *Start* all the same, and if a player in it has its name, plays that player's seat. `OwnSeatFound` speaks of those that have a seat. | |
| `saves.rs:115` | A player may save under `lastturn` or `net-lastturn`: `is_valid_name` lets them, and the next rotation moves that save on as a season's. The models take the player's name to be another. | `saves.rs:242`: the host's three are apart from single player's |

### Fairness

The application's loop runs a pass a frame, and that is where all fairness comes from.

* `Mesh`: each seat's sealing and advancing, and delivery, are weakly fair: the pump runs every
  tick and empties its mailbox. Orders are never forced.
* `Live`: each seat's loop is weakly fair as a whole (`HostLoop`, `JoinerLoop`), since one thread runs it
  every tick. A joiner's loop includes coming back to a game it lost: the premise of `GameGoesOn` is a player
  who keeps trying, and `GaveUp` excuses the game when the model's reconnections are used up. Breaks, crashes,
  timeouts, leaving and what the host's player decides are never forced. Every action of the
  bounded game uses something up (ticks, connections, messages), so no seat can be
  busy for ever with one kind of step, and fairness to the loop is fairness to each.
* `Relay`: each thread of the relay, and each host's pump, is weakly fair. The time a joiner is given runs out:
  `AnswerTimeout` is a step of its thread, taken at any moment. No program has to leave or to fall silent.
* `Transport`: each program polls. Sends, ends and breaks are never forced.
* `Lobby`: the host's pass and the joiners' pumps are weakly fair. Accepting and reading are strongly fair, because they
  can only happen within a pass: what is on the way arrives in some pass.
* `Turn`: frames, `advance` and orders that are due are weakly fair, and a seat whose screen offers orders gives one
  some time: a person who is asked answers. The clock is on (`Timed`) and may end a players' turn.

## 4. What TLAPS proves

### Mesh: `MeshProofs`

For every finite set of seats, input delay, ring, slack, ack limit and set of orders:

* `MeshInvariant`: `AgreementInv` always holds. Its parts: `SealedOnce` (a seat
  seals one packet for a tick, below its next), `OnlySealed` (nothing is in hand or in flight but what was sealed),
  `RanWhatWasSealed` (a world is, tick by tick, what all seats sealed for it) and `SeatsSound`
  (each seat's session is its own). `WorldsAgree` alone is not inductive: that two worlds agree now says
  nothing of the packets that make their next tick. The history variable `sealed` ties them: a
  seat advances only with everyone's packet in hand, each is the one packet sealed, so all run the same set, and
  the order of a set is a function of the set.
* `MeshAgreement`: `WorldsAgree`, from it.
* `MeshDeliveryInvariant`: `DeliveryInv` always holds: no seat seals past its horizon (`WithinHorizon`), and a
  packet in flight is the only one of its seat and tick for its recipient, which has not run that tick
  (`StillAwaited`). Its induction uses `AgreementInv`: who has run a tick has everyone's packet for it.
* `MeshLead`: `BoundedLead`: a seat that ran tick *t* had every seat's packet for it, and a seat seals at most the delay past its own tick.
* `MeshRefusesNothing`: if the slack exceeds the input delay, as in every configuration of the game, `NeverRefused`.
  `Mesh2` sits exactly on that bound.
* `MeshTypeCorrect`: `TypeOK`, by the invariant `TypeInv` (`SeatsSound` and `TypeOK`: the update of a seat needs the
  session to have its fields). What a packet carries is typed because sequence numbers count up from `nextSeq`,
  which sealing moves on by as many orders as it takes.
* `MeshImplementsLockstep`: `ImplementsLockstep`, the refinement. The log of `Lockstep` is what all seats have
  sealed, up to the tick the slowest seals next. Sealing adds an entry when the slowest seals and none otherwise, and
  changes none, since a packet is for a tick at or past the log's end (`SealDecides`); a tick that runs has everyone's packet, so the log
  has it (`LogHasTick`), and its commands are the log's entry (`AdvanceExecutes`).

* `MeshHashes`, and from it `MeshNoFalseDivergence`. `NoFalseDivergence` speaks of what a session has found; the induction needs what it compares.
  `HistoryIsRing`: a seat's ring is the hashes of the last ticks of the world that all seats run (by `AgreementInv` there is one). `HashesTrue`: a hash
  claimed, or carried by a packet in flight, is of a tick its sender has run and is that world's, so two hashes that meet are one hash.
* `MeshClaimsCompared`: if the history is longer than the input delay, as in every configuration of the game (256 against at most 2), `ClaimsCompared`.
  `AcksPrompt`: a seat has at most the hash of its last tick still to send, because it seals one packet for each tick it runs, an input delay past it.
  `AcksRecent`: a packet carries the hash of the tick an input delay and one before its own. Its recipient has not run the packet's tick
  (`StillAwaited`), so its ring still has the hash's tick.
* `MeshOrderly`, and from it `MeshOnceEach` and `MeshNeverHalts`. An order is in one place: staged on one seat (`StagedOrders`), then in one command of one packet
  (`SealedOrders`), where commands of a packet have numbers of their own. So the commands of a tick are told apart by seat and number, which is what
  `order_commands` needs: it sorts by both, and halts the session on two alike. That a set of commands so told apart has one ascending
  sequence is proved without induction over its size: a command's place is the number of those before it.

Assumptions: `SessionAssumption` and `MeshAssumption`, which the runs evaluate. The bound `MaxTick`
only limits actions and takes any value. Each action has a lemma of its own; what an operation does to
the session's fields is stated once (`SealFields`, `ReceiveFields`, `AdvanceFields`).

### Live: `LiveProofs`

For any finite set of seats, any host among them, any input delay, ring, slack, orders, ticks, connections, drifts, and whatever of breaks,
crashes, timeouts, leaving, handovers and ends may happen (`SessionAssumption`, `LiveAssumption`):

* `LiveCommandsAgree`: `CommandsAgree` always holds, the types with it, as long as `OneKnock` does: no player waits in `rejoining` on two
  connections. `LiveAgreesOnOneReturn` is the same without that hypothesis, for games whose players come back at most once, as in every run.
* `LiveAnnouncedInTime`: no seat that plays has run past a resync that is on its way to it, with any number of drifts (under the same hypothesis).

What holds between the seats is not symmetric, as it is in `Mesh`: only the host has heard everybody, and a seat that is retired or comes
back with the host's session has not sealed what it is taken to have said. The invariant (`LiveInv`) therefore speaks of what the *host* knows a slot
to have said for a tick (`Said`): what its world ran of it, or what is in its inbox. Its parts:

* `HostOK`: the host's session and world. Each slot has been heard up to a tick (`Due`) without a gap; one that is retired has said nothing from
  its tick on, and all of what is before it is run or in hand.
* `DownOK`: what is on its way from the host is true of it: packets are as their slots said them, a `Retire` names a tick after which nothing was
  said, a state for a resync or a return is a world that ran what was said. Before an announced resync there is no packet of the host for a later tick.
* `HeardOK`, `AheadOK`: what a joiner has in hand of the *others* is what the host knows they said, and what it has run is settled for all others.
* `AlignedOK`, `SaysOK`: what the host has not heard of a joiner is in order on the joiner's connection, starts at `Due`, and is what the joiner's own
  inbox and world have of it. This is where a second seated connection would break the argument, and it is only claimed of slots that are not retired.
* `ConnOK`, `LinesOK`, `KnockedOK`: a slot is seated on one connection at most, a knock is kept only for a slot that is waited for, and the answer
  that is on its way names the tick the host is to hear next.

That `Said` is never taken back (`Grows`) carries every part over the steps of the host that do not touch it. `CommandsAgree` follows: two
worlds that have run a tick ran what the host knows to be said for it, ordered in the one way there is. The world of a seat that drifted is compared
without its `Glitch`es.

The host's state and a joiner's are values in `Live`, and the handlers operators on them, so the invariant (`GameOK`) is a property of values: each
operator the host's handlers are made of has a lemma that it keeps `GameOK` (`PolledKept`, `SendKept`, `DisconnectKept`, `AwayKept`,
`DivergedKept`, `AdmitKept`, ...), a handler is proved by composing them as the code does, and each action of `Live` is a lemma on top (`HostStill`, `JoinerGoes`).

`OneKnock` is needed. With two connections seated for one slot, the end of the first puts the slot on the waiting list while it plays on the second; a third
knock is then admitted while packets are still to be read on the second, and the slot says two things for one tick (`live/seats.rs:205`, Known departures).

### Live's waiting lists: `LiveListsProofs`

`LiveListsAgree`: `WaitingListsAgree` always holds, as long as `OneKnock` does; `LiveListsOnOneReturn` is the same without that hypothesis, for games
whose players come back at most once. The list is sent whole only to a seat that comes back, in its state; to the others go changes:
`Away`, `Back`, `Retire`, each handled where it meets the others in that seat's connection. The invariant `ListsOK`, kept beside `LiveInv`, says of each
seat on a connection of its own that the list it has, changed by what is still on its way to it, is its host's (`Told`), and of
one that has knocked that this holds from its answer on (`Answered`). A handler of the host keeps it if what it sends to everyone takes its
old list to its new one (`Tells`). That composes, so `disconnect`, `away`, `admit`, `to_computer` and the end of a pump, which call each other, are
each proved from what they call. `OneKnock` is needed: a slot seated on two connections is put on the list by the end of the first
while it plays on the second.

### Transport: `TransportProofs`

For any joiners, any window, queue limit and read budget, any number of messages, any ends and breaks (`TransportAssumption`): `TransportKept`, that
`TransportInv` always holds, and from it `TransportFramesInARow`, `TransportNobodyPassedOver` and the refinement `TransportImplementsStream`. Its parts:

* `Placed`: a connection is made once. It is listed once by each end, or waits in the backlog, until that end closes it; a way is over
  for its receiver exactly when its other end is closed; the cursor is at a connection that is listed, or at the first.
* `Framed`: what is on a way is a row of pieces cut in four: the messages read, the reader's half frame, the wire, the queue. Each part
  begins where the one before ends (`ReadTo`, `HeldTo`, `WireTo`, `OutTo`), so a flush, a read and a `poll` that takes only move the cuts. `FramesInARow` speaks
  of connections that are whole; the induction must say what stays true of one that was reset or closed: its queue may not join on, what is before it does.
  A reader that ends inside a frame has an odd number of pieces and keeps the last one.
* `Passing`: a message that was passed over *k* times is at least *k* connections nearer to the cursor. `NobodyPassedOver` is not inductive, since
  it does not know where the cursor is. That connections listed are never forgotten in between, and that a reap
  only comes when nobody has a message, is in the proof of `ReapStep`.

In the refinement a taken message is the next of its way (`TakenFacts`), sends and broadcasts are `Send`, and a reap or a disconnect is `Finish`.

### Lobby: `LobbyProofs`

For any joiners, names, shields and builds, any saved game, any number of places, presses and departures (`LobbyAssumption`,
`NobodyAssumption`): `LobbyKept`, that `LobbyInv` always holds, and from it `LobbyRoomAgrees`, `LobbyRosterCurrent` and `LobbyOwnSeatFound`.
`RoomAgrees` and the rest hold between the steps of a pass for reasons that the state between passes does not show:

* `ConnectionsKept`: a seat's connection is open, or was found closed in this very pass, which will remove the seat before it ends.
* `LatestPosted`: what is on the way to a seated player *and then what the pass has put out for it* ends in the roster as it is. Every change of the
  roster is posted to every seat in the step that makes it; `RosterCurrent` is the case where nothing is left to put out.
* That no shield is held twice needs one to be free when one is given: there are as many shields as places, and no more players than places
  (a count over finite sets).
* `OneStart`: there is one Start. Whoever has it, or has it on its way, has the same roster with the host on it, also once the host has left.

* `NamesKept`: the names on a roster differ, since one that it has is refused, and so do the names in Start; whoever is seated once there is a
  Start is in it, in the slot it has, since nobody is seated after.

From the last two follows `LobbyOwnSeatFound`, with no hypothesis on the players' names: a joiner that has a seat finds it by name, in the one Start or in a
roster that is up to date. It says nothing of a joiner that has none, whose join was unread when the host started; that one may find another's
(*Known departures*). `NobodyAssumption` only says that the model's `None` is no roster.

### Relay: `RelayProofs`

For any hosts, any finite sets of joiners and codes, and any limits (`RelayAssumption`): `RelaySound`, that `RelayInv` always holds, and
from it `WaitingCountsAlways`, `TokensAttendedAlways` and `NoHalfPairAlways`. None of the three is inductive alone.
A count goes down when a token is taken out, so it is the tokens in the table that must be counted, for every
code, live or not: a code that is retired must take its tokens along or its next host inherits them.
That a token is attended needs to know where its joiner's thread can be when an ACCEPT has claimed it. `Traced` says
that: an ACCEPT that has claimed, sent or paired has the token out of the table; one that is paired has
its joiner paired; a host hears of a joiner only after the joiner has enlisted. The invariant is split into
what the table says (`TableInv`) and what the threads say (`ThreadInv`): an action that changes one leaves
the other, so each step is proved from the half it touches. What `Claim`, `Enlist` and `Retire` do to the
counts is stated once, over cardinalities of finite sets.

`RelayImplementsRendezvous` is the refinement, `ImplementsRendezvous`. It needs two facts more. `Owned`: a token is for a code of
the host its joiner was enlisted with, and a host has one code, so that the joiners who wait for a host are those a code counts, and
retiring the code refuses exactly them. `Entered`: only a joiner whose thread has paired was told OK. Most steps of the
threads are about one joiner (`OneMoves`) or about none that `Rendezvous` sees (`NoneMoves`).

### Saves: `SeasonProofs`

For any faults and any number of saves (`SavesAssumption`): `NamesHoldWholeSavesAlways`, `NewestFirstAlways`, `LastSaveKeptAlways`,
`PlayersSaveKeptAlways`, the types (`SavesTypeCorrect`) and the action property `KindsApart` (`KindsApartAlways`): no kind of game touches another's saves, in either direction, though the game may have changed since the request was raised (`GameChanges`). Behind them is one invariant. It adds to the properties that every
save there is has a number that has been given out; that the number of the save under way, or of the one the host has encoded and
not yet written, is above every number in its set; that the file `.part` is the whole save when the call that renames it is
next; that a game that is not a network's never has a job of the network's; and, for `LastSaveKept`, how far the last save can have been moved, which
depends on the call the job has come to: a job that has not yet moved it has not used its turn. A crash between two renames leaves a gap in the names, never a save in the wrong place.

### Turn: `SeasonProofs`

For any number of realms, any seats among them, any realms that can be wiped out or handed over, any number of marches, and any
delay, threshold and length of a walk (`TurnAssumption`): `TurnInvariant`, that `TurnInv` always holds, and from it
`EveryBattleDecidedOnce`, `PrologueComesFirst` and `NoPhaseCutShort` (`PhasesFinish`), three state invariants. None of them is inductive alone:

* That a battle is decided once needs to know what orders are under way. `Attended`: a battle is fought only
  while it is asked about; of the seats that play, one at most has sent an order that decides it, and none once it is being fought. That
  is why an answer that runs late cannot decide a battle that is no longer asked about.
* That a realm is prepared once needs the ways phase 4 is come to, opened beforehand or begun by the machine. `Opened`: once it was opened or has begun,
  every computer's realm that lives is prepared, and before that nobody is.
* That a phase is left in time needs what later phases may take for granted. `Finished`: units walk and sieges go on in the phases
  that wait for them only, and after phase 4 every computer's realm has played.
* `Suspended` says what a wind-on in flight looks like at each stage, so that what is entered again is what was left. The
  search from the cursor finds a living realm (`ServedLives`), with any number of realms.

### Only model-checked

Liveness and fairness (out of this prover's reach). Of `Live`, one safety invariant and half of another. `NoProtocolHalt` needs, beyond
`LiveInv`, that each packet comes to each joiner once and how far the seats can be apart. The second half of `BarrierInTime` holds within the runs' bounds
only: it fails once two resyncs are in flight to three seats (`live.rs:290`).

## 5. What is left

1. *Done*: `Session`, `Lockstep`, `Mesh`, `Live`; `Transport` and `Stream`; `Relay` and `Rendezvous`; `Lobby`; `Turn`; `Saves`; the theorems above.
2. Proofs: `NoProtocolHalt`.
3. `Live` with two drifts in flight between three seats, once its state is small enough for it.
4. The message queue, the life of a siege, the end conditions of a battle.

## 6. Not modelled, and why

Kingdom rules, battle arithmetic and path finding are functions over large tables, checked in the repository against the original
program, and have few interleavings; most of the repository's lines are these, and drawing.
Codecs, file formats, film and sound decoders, drawing and input
are pure or I/O. Developer tools, proxies and scripts are not part of the game.
Port mapping asks a router and shares no state with the game. Replays are the session's log run again by the
same session. Listing saves changes nothing. `saves::remove` takes any name that is
valid, a rotation's too, but nothing in the game calls it. Power that is lost before the system has written a file to the disk is outside `Saves`: a call
that has returned has happened.
