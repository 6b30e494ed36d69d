----------------------------- MODULE Transport -----------------------------
(***************************************************************************)
(* The TCP transport (crates/l2-net/src/tcp): a host that listens, and the *)
(* joiners that connect to it.  Every program has the same TcpTransport;   *)
(* a joiner's has one connection.                                          *)
(*                                                                         *)
(* Messages are numbered on each way of a connection.  A frame is its      *)
(* length and its payload, two pieces of bytes, and the kernel takes and   *)
(* gives any number of pieces: a write may stop in the middle of a frame   *)
(* and a read end there.  A TCP connection carries at most Window pieces a *)
(* way.  When it is reset, both ends lose some suffix of what was on it.   *)
(***************************************************************************)
EXTENDS Integers, FiniteSets, Sequences, Functions

CONSTANTS Host,        \* the program that listens
          Joiners,     \* the programs that connect
          Window,      \* the pieces the kernels hold for a way of a connection
          MaxOutbox,   \* MAX_OUTBOX, in pieces
          ReadBudget,  \* READ_BUDGET, in pieces
          MaxSent,     \* bound: the messages a program sends on a way
          MayEnd,      \* bound: who may disconnect from whom
          MayBreak     \* bound: the joiners whose connection the network may break

Programs == Joiners \cup {Host}

ASSUME TransportAssumption ==
  /\ Host \notin Joiners
  /\ Window \in Nat \ {0} /\ MaxOutbox \in Nat /\ ReadBudget \in Nat \ {0}
  /\ MaxSent \in [Programs -> Nat]

Ways == {w \in Programs \X Programs : w[1] # w[2] /\ Host \in {w[1], w[2]}}
Back(w) == <<w[2], w[1]>>

VARIABLES
  conns,     \* TcpTransport.conns of each program, by whom they lead to
  cursor,    \* TcpTransport.cursor
  backlog,   \* connections the kernel has made and the host has not accepted
  conn,      \* conn[w]: the Connection of w[1] to w[2]
  wire,      \* wire[w]: the pieces w[1] has written and w[2] has not read
  closed,    \* closed[w]: w[1] has closed its socket to w[2]
  reset,     \* reset[j]: the connection of j and the host is reset
  sent,      \* sent[w]: the last message w[1] sent to w[2]
  got,       \* got[w]: the last of them that w[2] took from poll
  gone,      \* the ways w[2] was told are over, or ended itself
  passed     \* the messages poll took from others since it had one of this way to take

vars == <<conns, cursor, backlog, conn, wire, closed, reset, sent, got, gone, passed>>

NewConnection == [out |-> <<>>, reader |-> <<>>, inbox |-> <<>>, dead |-> FALSE]

Init ==
  /\ conns = [n \in Programs |-> <<>>] /\ cursor = [n \in Programs |-> 1]
  /\ backlog = <<>>
  /\ conn = [w \in Ways |-> NewConnection]
  /\ wire = [w \in Ways |-> <<>>] /\ closed = [w \in Ways |-> FALSE]
  /\ reset = [j \in Joiners |-> FALSE]
  /\ sent = [w \in Ways |-> 0] /\ got = [w \in Ways |-> 0]
  /\ gone = {} /\ passed = [w \in Ways |-> 0]

Joiner(w) == IF w[1] = Host THEN w[2] ELSE w[1]
Lesser(a, b) == IF a < b THEN a ELSE b
Frame(m) == <<[of |-> m, piece |-> "length"], [of |-> m, piece |-> "payload"]>>

(***************************************************************************)
(* A Connection.  What flush and fill do is told by its pieces and by the  *)
(* state of the TCP connection, both of which one pass sees unchanged.     *)
(***************************************************************************)
Broken(w) == reset[Joiner(w)]

Flushable(w, c) == ~c.dead /\ c.out # <<>>
Written(w, c) == IF Flushable(w, c) /\ ~Broken(w) THEN Lesser(Len(c.out), Window - Len(wire[w])) ELSE 0
Flushed(w, c) ==
  [c EXCEPT !.out = SubSeq(@, Written(w, c) + 1, Len(@)),
            !.dead = @ \/ (Flushable(w, c) /\ Broken(w))]
WireAfter(w, c) == wire[w] \o SubSeq(c.out, 1, Written(w, c))

\* FrameReader: every message whose length and payload are both there, and what is left.
Messages(pieces) == [i \in 1 .. Len(pieces) \div 2 |-> pieces[2 * i].of]

RestDropped(pieces) == <<>>      \* mutant: half a frame is not kept for the next pass

Rest(pieces) == IF Len(pieces) % 2 = 1 THEN <<pieces[Len(pieces)]>> ELSE <<>>

FillableAlways(c) == ~c.dead      \* mutant: reads over the messages that wait

Fillable(c) == ~c.dead /\ c.inbox = <<>>
Read(w, c) == IF Fillable(c) THEN Lesser(Len(wire[Back(w)]), ReadBudget) ELSE 0

FilledPastEnd(w, c) ==      \* mutant: a peer's close is not noticed
  IF ~Fillable(c) THEN c
  ELSE [c EXCEPT !.inbox = Messages(c.reader \o SubSeq(wire[Back(w)], 1, Read(w, c))),
                 !.reader = Rest(c.reader \o SubSeq(wire[Back(w)], 1, Read(w, c))),
                 !.dead = Read(w, c) < ReadBudget /\ Broken(w)]

Filled(w, c) ==
  LET pieces == c.reader \o SubSeq(wire[Back(w)], 1, Read(w, c))
      ends == Read(w, c) < ReadBudget /\ (closed[Back(w)] \/ Broken(w))
  IN IF ~Fillable(c) THEN c
     ELSE [c EXCEPT !.inbox = Messages(pieces), !.reader = Rest(pieces), !.dead = ends]

(***************************************************************************)
(* TcpTransport.                                                           *)
(***************************************************************************)
Peers(n) == {m \in Range(conns[n]) : ~conn[<<n, m>>].dead}

\* The members of s that are in S, in their order (retain, remove).
Kept(s, S) ==
  LET places == {i \in DOMAIN s : s[i] \in S}
      place == CHOOSE p \in [1 .. Cardinality(places) -> places] :
                 \A i, k \in DOMAIN p : i < k => p[i] < p[k]
  IN [i \in 1 .. Cardinality(places) |-> s[place[i]]]

\* A joiner connects; the host has the connection once it polls.
Connect(j) ==
  /\ conns[j] = <<>> /\ ~closed[<<j, Host>>] /\ j \notin Range(backlog)
  /\ conns' = [conns EXCEPT ![j] = <<Host>>]
  /\ backlog' = Append(backlog, j)
  /\ UNCHANGED <<cursor, conn, wire, closed, reset, sent, got, gone, passed>>

\* send on each of some connections: past MAX_OUTBOX the peer is treated as gone,
\* otherwise the frame is put out and as much written as the kernel takes.
Overfull(w) == Len(conn[w].out) + 2 > MaxOutbox
Queued(w) == [conn[w] EXCEPT !.out = @ \o Frame(sent[w] + 1)]
SendAll(ws) ==
  /\ \A w \in ws : sent[w] < MaxSent[w[1]]
  /\ conn' = [w \in Ways |-> IF w \notin ws THEN conn[w]
                             ELSE IF Overfull(w) THEN [conn[w] EXCEPT !.dead = TRUE]
                             ELSE Flushed(w, Queued(w))]
  /\ wire' = [w \in Ways |-> IF w \in ws /\ ~Overfull(w) THEN WireAfter(w, Queued(w)) ELSE wire[w]]
  /\ sent' = [w \in Ways |-> IF w \in ws /\ ~Overfull(w) THEN sent[w] + 1 ELSE sent[w]]
  /\ UNCHANGED <<conns, cursor, backlog, closed, reset, got, gone, passed>>

Send(n, m) == m \in Peers(n) /\ SendAll({<<n, m>>})
Broadcast(n) == Peers(n) # {} /\ SendAll({<<n, m>> : m \in Peers(n)})

\* One poll: accept, flush every live connection, read every live one whose inbox is
\* empty, then take a message, starting from the cursor, or else drop the dead.
Listed(n) == conns[n] \o (IF n = Host THEN backlog ELSE <<>>)

\* What a poll makes of the connections, and takes from the wire, before it looks for a
\* message.
Polled(n) == {<<n, m>> : m \in Range(Listed(n))}

Served(n) == [w \in Ways |-> IF w \in Polled(n) THEN Filled(w, Flushed(w, conn[w])) ELSE conn[w]]

TakenIn(w) == Read(w, Flushed(w, conn[w]))
WireAfterPoll(n) ==
  [w \in Ways |-> IF w \in Polled(n) THEN WireAfter(w, conn[w])
                  ELSE IF Back(w) \in Polled(n)
                  THEN SubSeq(wire[w], TakenIn(Back(w)) + 1, Len(wire[w]))
                  ELSE wire[w]]

FromFirst(n, i) == i      \* mutant: every search starts at the first connection

\* Where the search for a message that starts at the cursor ends.
FromCursor(n, i) == (i + Len(Listed(n)) - cursor[n]) % Len(Listed(n))
FirstReady(n, ready) == CHOOSE i \in ready : \A k \in ready : FromCursor(n, i) <= FromCursor(n, k)

Ready(n, served) == {i \in DOMAIN Listed(n) : served[<<n, Listed(n)[i]>>].inbox # <<>>}

TakeMessageOnly(n, served, i) ==      \* mutant: what came with the message is dropped
  LET from == <<n, Listed(n)[i]>> IN
  /\ conns' = [conns EXCEPT ![n] = Listed(n)]
  /\ conn' = [served EXCEPT ![from].inbox = <<>>]
  /\ cursor' = [cursor EXCEPT ![n] = (i % Len(Listed(n))) + 1]
  /\ got' = [got EXCEPT ![Back(from)] = Head(served[from].inbox)]
  /\ UNCHANGED <<closed, gone, passed>>

TakeMessage(n, served, i) ==
  LET from == <<n, Listed(n)[i]>> IN
  /\ UNCHANGED <<closed, gone>>
  /\ conns' = [conns EXCEPT ![n] = Listed(n)]
  /\ cursor' = [cursor EXCEPT ![n] = (i % Len(Listed(n))) + 1]
  /\ got' = [got EXCEPT ![Back(from)] = Head(served[from].inbox)]
  /\ conn' = [served EXCEPT ![from].inbox = Tail(@)]
  /\ passed' = [w \in Ways |-> IF w[1] # n THEN passed[w]
                               ELSE IF w = from \/ served[w].inbox = <<>> THEN 0
                               ELSE passed[w] + 1]

Reap(n, served) ==
  LET reaped == {w \in Polled(n) : served[w].dead} IN
  /\ UNCHANGED <<got, passed>>
  /\ gone' = gone \cup {Back(w) : w \in reaped}
  /\ cursor' = IF reaped # {} THEN [cursor EXCEPT ![n] = 1] ELSE cursor
  /\ conns' = [conns EXCEPT ![n] = Kept(Listed(n), {m \in Programs : <<n, m>> \notin reaped})]
  /\ conn' = [w \in Ways |-> IF w \in reaped THEN NewConnection ELSE served[w]]
  /\ closed' = [w \in Ways |-> closed[w] \/ w \in reaped]

Poll(n) ==
  /\ Listed(n) # <<>>
  /\ UNCHANGED <<reset, sent>>
  /\ backlog' = IF n = Host THEN <<>> ELSE backlog
  /\ wire' = WireAfterPoll(n)
  /\ \E served \in {f \in {Served(n)} : f = f} :      \* f = f has TLC compute it once
       \/ Ready(n, served) # {} /\ TakeMessage(n, served, FirstReady(n, Ready(n, served)))
       \/ Ready(n, served) = {} /\ Reap(n, served)

\* disconnect, or the program's end: the peer is dropped at once and not reported.
Disconnect(n, m) ==
  /\ <<n, m>> \in MayEnd /\ m \in Range(conns[n])
  /\ conns' = [conns EXCEPT ![n] = Kept(@, Programs \ {m})]
  /\ conn' = [conn EXCEPT ![<<n, m>>] = NewConnection]
  /\ closed' = [closed EXCEPT ![<<n, m>>] = TRUE]
  /\ gone' = gone \cup {<<m, n>>}
  /\ cursor' = [cursor EXCEPT ![n] = 1]
  /\ passed' = [w \in Ways |-> IF w[1] = n THEN 0 ELSE passed[w]]
  /\ UNCHANGED <<backlog, wire, reset, sent, got>>

(***************************************************************************)
(* The network.  A socket closed with pieces unread, or written to once    *)
(* closed, resets its connection; so does a break.                         *)
(***************************************************************************)
Reset(j) ==
  /\ ~reset[j]
  /\ conns[j] # <<>> \/ closed[<<j, Host>>]
  /\ \/ \E w \in {<<j, Host>>, <<Host, j>>} : closed[w] /\ wire[Back(w)] # <<>>
     \/ j \in MayBreak
  /\ reset' = [reset EXCEPT ![j] = TRUE]
  /\ \E k \in 0 .. Len(wire[<<j, Host>>]), l \in 0 .. Len(wire[<<Host, j>>]) :
       wire' = [wire EXCEPT ![<<j, Host>>] = SubSeq(@, 1, k), ![<<Host, j>>] = SubSeq(@, 1, l)]
  /\ UNCHANGED <<conns, cursor, backlog, conn, closed, sent, got, gone, passed>>

Next ==
  \/ \E j \in Joiners : Connect(j) \/ Reset(j)
  \/ \E n \in Programs : Poll(n) \/ Broadcast(n) \/ \E m \in Programs : Send(n, m) \/ Disconnect(n, m)

Spec == Init /\ [][Next]_vars

\* Every program polls: the lobby's pump and Live's, once a frame.
FairSpec == Spec /\ \A n \in Programs : WF_vars(Poll(n))

(***************************************************************************)
(* Properties.                                                             *)
(***************************************************************************)
Piece == [of : Nat, piece : {"length", "payload"}]
Connection == [out : Seq(Piece), reader : Seq(Piece), inbox : Seq(Nat), dead : BOOLEAN]

TypeOK ==
  /\ conns \in [Programs -> Seq(Programs)] /\ cursor \in [Programs -> Nat \ {0}]
  /\ backlog \in Seq(Joiners)
  /\ conn \in [Ways -> Connection] /\ wire \in [Ways -> Seq(Piece)]
  /\ closed \in [Ways -> BOOLEAN] /\ reset \in [Joiners -> BOOLEAN]
  /\ sent \in [Ways -> Nat] /\ got \in [Ways -> Nat]
  /\ gone \subseteq Ways /\ passed \in [Ways -> Nat]
  /\ \A w \in Ways : /\ Len(wire[w]) <= Window /\ Len(conn[w].out) <= MaxOutbox
                     /\ got[w] <= sent[w] /\ sent[w] <= MaxSent[w[1]]

\* The queues keep within their limits, and what is between two ends, from the messages read and the reader's half-read frame
\* back to the sender's queue, is the frames after the last one delivered with nothing
\* missing or doubled, however writes and reads were cut (Connection::flush and fill,
\* FrameReader).
Run(w) == conn[Back(w)].reader \o wire[w] \o conn[w].out
FramesInARow ==
  /\ TypeOK
  /\ \A w \in Ways : ~reset[Joiner(w)] /\ w \notin gone =>
       LET inbox == conn[Back(w)].inbox
           next == got[w] + Len(inbox) + 1
       IN /\ inbox = [i \in 1 .. Len(inbox) |-> got[w] + i]
          /\ \A i \in 1 .. Len(Run(w)) : Run(w)[i] = Frame(next + (i - 1) \div 2)[1 + ((i - 1) % 2)]

\* A message that has come waits while at most one is taken from each other peer,
\* though a message is taken from whoever has one: a talkative peer starves nobody
\* (TcpTransport::poll, cursor).
NobodyPassedOver == \A w \in Ways : passed[w] < Len(conns[w[1]]) \/ passed[w] = 0

\* Why these hold, for the proofs.  A connection is made once, listed at its ends until
\* it is closed there, and the cursor is among those listed.
Placed ==
  /\ \A n \in Programs : /\ IsInjective(conns[n])
                          /\ \/ cursor[n] = 1
                             \/ cursor[n] <= Len(conns[n])
                          /\ \A m \in Range(conns[n]) : <<n, m>> \in Ways /\ ~closed[<<n, m>>]
  /\ IsInjective(backlog)
  /\ \A j \in Range(backlog) : j \notin Range(conns[Host]) /\ ~closed[<<Host, j>>]
  /\ \A j \in Joiners :
       j \in Range(backlog) \cup Range(conns[Host]) \/ closed[<<Host, j>>] =>
         conns[j] # <<>> \/ closed[<<j, Host>>]
  /\ \A w \in Ways : /\ w[2] \notin Range(conns[w[1]]) => conn[w] = NewConnection
                     /\ w \in gone <=> closed[Back(w)]

\* The k-th of all the pieces sent on a way, and where those on their way are among them.
PieceAt(k) == [of |-> (k + 1) \div 2, piece |-> IF k % 2 = 1 THEN "length" ELSE "payload"]
From(pieces, k) == \A i \in 1 .. Len(pieces) : pieces[i] = PieceAt(k + i)
ReadTo(w) == 2 * (got[w] + Len(conn[Back(w)].inbox))
HeldTo(w) == ReadTo(w) + Len(conn[Back(w)].reader)
WireTo(w) == HeldTo(w) + Len(wire[w])
OutTo(w) == WireTo(w) + Len(conn[w].out)
Framed ==
  \A w \in Ways \ gone :
    /\ conn[Back(w)].inbox = [i \in 1 .. Len(conn[Back(w)].inbox) |-> got[w] + i]
    /\ From(conn[Back(w)].reader, ReadTo(w)) /\ From(wire[w], HeldTo(w))
    /\ WireTo(w) <= 2 * sent[w]
    /\ ~reset[Joiner(w)] => From(conn[w].out, WireTo(w)) /\ OutTo(w) <= 2 * sent[w]
    /\ reset[Joiner(w)] \/ closed[w] \/ OutTo(w) = 2 * sent[w]

\* What has been passed over so often is that much closer to the cursor.
Awaited(w) == CHOOSE i \in DOMAIN conns[w[1]] : conns[w[1]][i] = w[2]
Passing ==
  \A w \in Ways : passed[w] # 0 =>
    /\ conn[w].inbox # <<>> /\ w[2] \in Range(conns[w[1]])
    /\ LET i == Awaited(w)
           n == w[1]
       IN passed[w] + (IF i >= cursor[n] THEN i - cursor[n] ELSE i + Len(conns[n]) - cursor[n])
            < Len(conns[n])

TransportInv == TypeOK /\ Placed /\ Framed /\ Passing

\* Once nobody sends or ends anything any more, a connection that one end closed, or
\* gave up for dead because its peer does not read, is over for both ends
\* (TcpTransport::reap, the limit in send).
EndsAreTold ==
  <>[](\A w \in Ways : closed[w] \/ conn[w].dead => w \in gone /\ Back(w) \in gone)

\* What was sent has then arrived, unless its receiver learned that the connection is
\* over.
SentArrives == <>[](\A w \in Ways : got[w] = sent[w] \/ w \in gone)

\* Each way of each connection is a stream that ends at most once (Transport).
Streams == INSTANCE Stream WITH over <- gone
ImplementsStream == Streams!Spec
=============================================================================
