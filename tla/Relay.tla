------------------------------- MODULE Relay -------------------------------
(***************************************************************************)
(* The join-code relay (crates/l2-relay) and the game's end of it          *)
(* (crates/l2-game/src/net/relay.rs).  A host keeps a control connection   *)
(* and has a code; a joiner says the code; the relay draws a token, sends  *)
(* it down the control connection, and pairs the joiner with the           *)
(* connection on which the host says the token back.                       *)
(*                                                                         *)
(* The relay runs a thread for each connection around one mutex: a step is *)
(* what a thread does under the mutex, or one write, or one wait.  A join  *)
(* draws a token that no join has had (8 of 32 symbols at random), so its  *)
(* joiner names it: tokens[j] is the entry of j's token, and accept[j] the *)
(* connection on which it is said back.  Codes are drawn again: only two   *)
(* live ones must differ.                                                  *)
(***************************************************************************)
EXTENDS FiniteSets, Integers, Sequences

CONSTANTS Hosts,       \* programs that open a game
          Joiners,     \* programs that join one
          Codes,       \* the codes that can be drawn
          MaxCodes,    \* MAX_CODES
          MaxWaiting,  \* MAX_WAITING
          Leaving,     \* bound: the hosts and joiners that may go, or give up waiting
          None         \* no code, no host

ASSUME RelayAssumption ==
  /\ IsFiniteSet(Joiners) /\ IsFiniteSet(Codes)
  /\ MaxCodes \in Nat /\ MaxWaiting \in Nat
  /\ None \notin Codes /\ None \notin Hosts /\ None \notin Joiners

VARIABLES
  codes,     \* State.codes: the host of a live code
  waiting,   \* HostEntry.waiting, 0 for a code that is not live
  tokens,    \* State.tokens: the code of a joiner's token, while it is in the table
  hosting,   \* the relay's thread of a host's control connection
  join,      \* the relay's thread of a joiner
  told,      \* Enlisted.ctl: the host of a joiner's code when it was enlisted
  accept,    \* the relay's thread of a host's ACCEPT of a joiner's token, and then the stream
  ctl,       \* what the relay wrote on a control connection and the host has not read
  program,   \* the host's program: its Host
  ended,     \* joiners and ACCEPTs whose program has given up or gone
  heard      \* joiners and ACCEPTs whose program was told OK

vars == <<codes, waiting, tokens, hosting, join, told, accept, ctl, program, ended, heard>>
table == <<codes, waiting, tokens>>
programs == <<program, ended, heard>>

CodeLine(c) == [say |-> "CODE", of |-> c]
JoinLine(j) == [say |-> "JOIN", of |-> j]
Join(j) == [end |-> "JOIN", of |-> j]
Accept(j) == [end |-> "ACCEPT", of |-> j]

Init ==
  /\ codes = [c \in Codes |-> None] /\ waiting = [c \in Codes |-> 0]
  /\ tokens = [j \in Joiners |-> None]
  /\ hosting = [h \in Hosts |-> "new"]
  /\ join = [j \in Joiners |-> "new"] /\ told = [j \in Joiners |-> None]
  /\ accept = [j \in Joiners |-> "none"]
  /\ ctl = [h \in Hosts |-> <<>>]
  /\ program = [h \in Hosts |-> "opening"]
  /\ ended = {} /\ heard = {}

(***************************************************************************)
(* The table, under its mutex.                                             *)
(***************************************************************************)
Live == {c \in Codes : codes[c] # None}
CodeOf(h) == {c \in Codes : codes[c] = h}

IssueCode(h, c) ==
  /\ Cardinality(Live) < MaxCodes /\ c \notin Live
  /\ codes' = [codes EXCEPT ![c] = h]
  /\ UNCHANGED <<waiting, tokens>>

RetireKeepsTokens(h) ==      \* mutant: the code alone goes
  /\ codes' = [c \in Codes |-> IF c \in CodeOf(h) THEN None ELSE codes[c]]
  /\ waiting' = [c \in Codes |-> IF c \in CodeOf(h) THEN 0 ELSE waiting[c]]
  /\ UNCHANGED tokens

\* The code's entry goes, and with it every token of its joiners.
Retire(h) ==
  /\ codes' = [c \in Codes |-> IF c \in CodeOf(h) THEN None ELSE codes[c]]
  /\ waiting' = [c \in Codes |-> IF c \in CodeOf(h) THEN 0 ELSE waiting[c]]
  /\ tokens' = [j \in Joiners |-> IF tokens[j] \in CodeOf(h) THEN None ELSE tokens[j]]

EnlistOneMore(j, c) ==      \* mutant: the limit is passed by one
  /\ c \in Live /\ waiting[c] <= MaxWaiting
  /\ waiting' = [waiting EXCEPT ![c] = @ + 1]
  /\ tokens' = [tokens EXCEPT ![j] = c]
  /\ UNCHANGED codes

Enlist(j, c) ==
  /\ c \in Live /\ waiting[c] < MaxWaiting
  /\ waiting' = [waiting EXCEPT ![c] = @ + 1]
  /\ tokens' = [tokens EXCEPT ![j] = c]
  /\ UNCHANGED codes

\* Whoever takes a token out counts its joiner down, if the code still lives.
Claim(j) ==
  /\ tokens' = [tokens EXCEPT ![j] = None]
  /\ waiting' = [c \in Codes |-> IF c = tokens[j] /\ c \in Live /\ waiting[c] > 0
                                 THEN waiting[c] - 1 ELSE waiting[c]]
  /\ UNCHANGED codes

(***************************************************************************)
(* The thread of a control connection.                                     *)
(***************************************************************************)
HostAsks(h) ==
  /\ hosting[h] = "new"
  /\ \/ \E c \in Codes : IssueCode(h, c) /\ hosting' = [hosting EXCEPT ![h] = "issued"]
     \/ /\ Cardinality(Live) >= MaxCodes /\ UNCHANGED table
        /\ hosting' = [hosting EXCEPT ![h] = "refused"]
  /\ UNCHANGED <<join, told, accept, ctl, programs>>

\* A write reaches a host that has the connection open; on one its host has closed
\* it may fail or go nowhere.
Connected(h) == program[h] \in {"opening", "open"}
Write(h, l) == ctl' = [ctl EXCEPT ![h] = IF Connected(h) THEN Append(@, l) ELSE @]

\* The code is live before its host is told of it.
SayCode(h) ==
  /\ hosting[h] = "issued"
  /\ \/ /\ \E c \in CodeOf(h) : Write(h, CodeLine(c))
        /\ hosting' = [hosting EXCEPT ![h] = "listening"]
        /\ UNCHANGED table
     \/ /\ ~Connected(h)
        /\ Retire(h) /\ hosting' = [hosting EXCEPT ![h] = "over"] /\ UNCHANGED ctl
  /\ UNCHANGED <<join, told, accept, programs>>

\* The loop of a control connection ends: its host closed it, or was silent too long.
HostOver(h) ==
  /\ hosting[h] = "listening"
  /\ Retire(h) /\ hosting' = [hosting EXCEPT ![h] = "over"]
  /\ UNCHANGED <<join, told, accept, ctl, programs>>
ControlEnds(h) == ~Connected(h) /\ HostOver(h)
Silence(h) == Connected(h) /\ HostOver(h)

\* The relay's half of a control connection is a descriptor the thread shares with
\* every joiner enlisted through it, until the joiner's thread ends: only then does
\* the host see the connection end.
Holding(h) == {j \in Joiners : told[j] = h /\ join[j] \notin {"refused", "over"}}
ControlShut(h) == hosting[h] \in {"refused", "over"} /\ Holding(h) = {}

(***************************************************************************)
(* The thread of a joiner.                                                 *)
(***************************************************************************)
JoinerAsks(j) ==
  /\ join[j] = "new"
  /\ \E c \in Codes :
       \/ /\ Enlist(j, c) /\ join' = [join EXCEPT ![j] = "enlisted"]
          /\ told' = [told EXCEPT ![j] = codes[c]]
       \/ /\ c \notin Live \/ waiting[c] >= MaxWaiting
          /\ join' = [join EXCEPT ![j] = "refused"] /\ UNCHANGED <<table, told>>
  /\ UNCHANGED <<hosting, accept, ctl, programs>>

TellHost(j) ==
  /\ join[j] = "enlisted"
  /\ \/ /\ Write(told[j], JoinLine(j))
        /\ join' = [join EXCEPT ![j] = "waiting"]
     \/ /\ ~Connected(told[j])
        /\ join' = [join EXCEPT ![j] = "claiming"] /\ UNCHANGED ctl
  /\ UNCHANGED <<table, hosting, told, accept, programs>>

\* recv_timeout: the stream, or nobody is left who could send one, or the time is up.
TakeStream(j) ==
  /\ join[j] = "waiting" /\ accept[j] = "sent"
  /\ join' = [join EXCEPT ![j] = "matched"]
  /\ UNCHANGED <<table, hosting, told, accept, ctl, programs>>

HostLeft(j) ==
  /\ join[j] = "waiting" /\ tokens[j] = None /\ accept[j] \notin {"claimed", "sent"}
  /\ join' = [join EXCEPT ![j] = "refused"]
  /\ UNCHANGED <<table, hosting, told, accept, ctl, programs>>

AnswerTimeout(j) ==
  /\ join[j] = "waiting" /\ accept[j] # "sent"
  /\ join' = [join EXCEPT ![j] = "claiming"]
  /\ UNCHANGED <<table, hosting, told, accept, ctl, programs>>

GiveUpKeepsStream(j) ==      \* mutant: the receiver outlives the joiner's thread
  /\ join[j] = "claiming"
  /\ Claim(j)
  /\ join' = [join EXCEPT ![j] = "refused"]
  /\ UNCHANGED <<hosting, told, accept, ctl, programs>>
GiveUpIfFirst(j) ==      \* mutant: refuses only the joiner whose token it took out itself
  /\ join[j] = "claiming" /\ tokens[j] # None
  /\ Claim(j)
  /\ join' = [join EXCEPT ![j] = "refused"]
  /\ accept' = [accept EXCEPT ![j] = IF @ = "sent" THEN "closed" ELSE @]
  /\ UNCHANGED <<hosting, told, ctl, programs>>

\* The token is taken out, the joiner refused, and the receiver dropped with
\* whatever stream came into it since the time was up.
GiveUp(j) ==
  /\ join[j] = "claiming"
  /\ Claim(j)
  /\ join' = [join EXCEPT ![j] = "refused"]
  /\ accept' = [accept EXCEPT ![j] = IF @ = "sent" THEN "closed" ELSE @]
  /\ UNCHANGED <<hosting, told, ctl, programs>>

\* pipe::pair says OK to the joiner, then to the host.  A write to a closed
\* connection may fail, and then both streams are dropped.
Pair(j) ==
  /\ join[j] = "matched"
  /\ \/ /\ heard' = heard \cup ({Join(j), Accept(j)} \ ended)
        /\ join' = [join EXCEPT ![j] = "paired"] /\ accept' = [accept EXCEPT ![j] = "paired"]
     \/ /\ {Join(j), Accept(j)} \cap ended # {}
        /\ heard' = IF Join(j) \in ended THEN heard ELSE heard \cup {Join(j)}
        /\ join' = [join EXCEPT ![j] = "over"] /\ accept' = [accept EXCEPT ![j] = "closed"]
  /\ UNCHANGED <<table, hosting, told, ctl, program, ended>>

\* pipe::copy ends when either side closes, and shuts both down.
PipeEnds(j) ==
  /\ join[j] = "paired" /\ {Join(j), Accept(j)} \cap ended # {}
  /\ join' = [join EXCEPT ![j] = "over"] /\ accept' = [accept EXCEPT ![j] = "closed"]
  /\ UNCHANGED <<table, hosting, told, ctl, programs>>

(***************************************************************************)
(* The thread of an ACCEPT.                                                *)
(***************************************************************************)
AcceptClaimsAny(j) ==      \* mutant: a token that was taken out is good too
  /\ accept[j] = "asking"
  /\ Claim(j) /\ accept' = [accept EXCEPT ![j] = "claimed"]
  /\ UNCHANGED <<hosting, join, told, ctl, programs>>

AcceptClaims(j) ==
  /\ accept[j] = "asking"
  /\ \/ /\ tokens[j] # None /\ Claim(j) /\ accept' = [accept EXCEPT ![j] = "claimed"]
     \/ /\ tokens[j] = None /\ UNCHANGED table /\ accept' = [accept EXCEPT ![j] = "refused"]
  /\ UNCHANGED <<hosting, join, told, ctl, programs>>

\* The send fails, and the stream is dropped, once the joiner's thread has ended.
HandOver(j) ==
  /\ accept[j] = "claimed"
  /\ accept' = [accept EXCEPT ![j] = IF join[j] = "refused" THEN "closed" ELSE "sent"]
  /\ UNCHANGED <<table, hosting, join, told, ctl, programs>>

(***************************************************************************)
(* The programs: the host's Host, and the joiner's client::join.           *)
(***************************************************************************)
\* collect_opening: the first line must be the code.
HostOpens(h) ==
  /\ program[h] = "opening" /\ ctl[h] # <<>> /\ Head(ctl[h]).say = "CODE"
  /\ program' = [program EXCEPT ![h] = "open"]
  /\ ctl' = [ctl EXCEPT ![h] = Tail(@)]
  /\ UNCHANGED <<table, hosting, join, told, accept, ended, heard>>

\* It was refused, or read some other line first, or read no line in time.
HostFails(h) ==
  /\ program[h] = "opening"
  /\ \/ h \in Leaving \/ hosting[h] = "refused"
     \/ ctl[h] # <<>> /\ Head(ctl[h]).say # "CODE"
  /\ program' = [program EXCEPT ![h] = "lost"] /\ ctl' = [ctl EXCEPT ![h] = <<>>]
  /\ UNCHANGED <<table, hosting, join, told, accept, ended, heard>>

\* service_control: a token is said back on a connection of its own.
HostHears(h) ==
  /\ program[h] = "open" /\ ctl[h] # <<>>
  /\ Head(ctl[h]).say = "JOIN"
  /\ accept' = [accept EXCEPT ![Head(ctl[h]).of] = "asking"]
  /\ ctl' = [ctl EXCEPT ![h] = Tail(@)]
  /\ UNCHANGED <<table, hosting, join, told, programs>>

\* closed: the lines read in the pass that meets the end are not looked at.
ControlClosed(h) ==
  /\ program[h] = "open" /\ ControlShut(h)
  /\ program' = [program EXCEPT ![h] = "lost"]
  /\ ctl' = [ctl EXCEPT ![h] = <<>>]
  /\ UNCHANGED <<table, hosting, join, told, accept, ended, heard>>

\* A program waits for its answer, or holds a stream that is open.
Unanswered(e) ==
  IF e.end = "JOIN" THEN join[e.of] \in {"enlisted", "waiting", "claiming", "matched"}
  ELSE accept[e.of] \in {"asking", "claimed", "sent"}
Streaming(e) == e \in heard /\ join[e.of] = "paired"

\* The host's program drops its Host, and with it the streams of its ACCEPTs.
HostGoes(h) ==
  /\ h \in Leaving /\ program[h] # "gone"
  /\ program' = [program EXCEPT ![h] = "gone"] /\ ctl' = [ctl EXCEPT ![h] = <<>>]
  /\ ended' = ended \cup {e \in {Accept(j) : j \in {k \in Joiners : told[k] = h}} :
                            Unanswered(e) \/ Streaming(e)}
  /\ UNCHANGED <<table, hosting, join, told, accept, heard>>

\* A program that is not answered in time gives up (CONNECT, JOIN_WAIT); one that
\* plays closes its stream some day.
EndCloses(e) ==
  /\ e.of \in Leaving /\ e \notin ended
  /\ Unanswered(e) \/ Streaming(e)
  /\ ended' = ended \cup {e}
  /\ UNCHANGED <<table, hosting, join, told, accept, ctl, program, heard>>

RelayHosting(h) == HostAsks(h) \/ SayCode(h) \/ ControlEnds(h)
RelayJoining(j) == JoinerAsks(j) \/ TellHost(j) \/ TakeStream(j) \/ HostLeft(j)
                   \/ AnswerTimeout(j) \/ GiveUp(j) \/ Pair(j) \/ PipeEnds(j)
RelayAccepting(j) == AcceptClaims(j) \/ HandOver(j)
HostPumps(h) == HostOpens(h) \/ HostFails(h) \/ HostHears(h) \/ ControlClosed(h)
Ends == {Join(j) : j \in Joiners} \cup {Accept(j) : j \in Joiners}

Next ==
  \/ \E h \in Hosts : RelayHosting(h) \/ Silence(h) \/ HostPumps(h) \/ HostGoes(h)
  \/ \E j \in Joiners : RelayJoining(j) \/ RelayAccepting(j)
  \/ \E e \in Ends : EndCloses(e)

Spec == Init /\ [][Next]_vars

\* The relay's threads run, the time a joiner is given runs out, and a host's
\* program pumps once a frame.  No program has to leave or to fall silent.
FairSpec ==
  /\ Spec
  /\ \A h \in Hosts : WF_vars(RelayHosting(h)) /\ WF_vars(HostPumps(h))
  /\ \A j \in Joiners : WF_vars(RelayJoining(j)) /\ WF_vars(RelayAccepting(j))

(***************************************************************************)
(* Properties.                                                             *)
(***************************************************************************)
Lines == {CodeLine(c) : c \in Codes} \cup {JoinLine(j) : j \in Joiners}

TypeOK ==
  /\ codes \in [Codes -> Hosts \cup {None}] /\ waiting \in [Codes -> Nat]
  /\ tokens \in [Joiners -> Codes \cup {None}]
  /\ hosting \in [Hosts -> {"new", "issued", "listening", "refused", "over"}]
  /\ join \in [Joiners -> {"new", "enlisted", "waiting", "claiming", "matched", "paired",
                           "refused", "over"}]
  /\ told \in [Joiners -> Hosts \cup {None}]
  /\ accept \in [Joiners -> {"none", "asking", "claimed", "sent", "paired", "refused", "closed"}]
  /\ ctl \in [Hosts -> Seq(Lines)]
  /\ program \in [Hosts -> {"opening", "open", "lost", "gone"}]
  /\ ended \subseteq Ends /\ heard \subseteq Ends

\* The joiners whose tokens for a code are in the table.
Awaiting(c) == {j \in Joiners : tokens[j] = c}

\* A live code counts as waiting exactly the joiners whose tokens are in the table,
\* whichever of two threads took a token out, and even if an earlier host had the
\* same code (State::enlist, claim, retire_code).
WaitingCounts ==
  \A c \in Live : waiting[c] = Cardinality(Awaiting(c)) /\ waiting[c] <= MaxWaiting

\* A token in the table is one of a live code whose joiner's thread still runs and
\* will take it out if nobody else does: no entry, and no place in a code's count,
\* is left behind (session::join).
TokensAttended ==
  \A j \in Joiners :
    tokens[j] # None => tokens[j] \in Live /\ join[j] \in {"enlisted", "waiting", "claiming"}

\* A host plays with a stream only if the joiner at its other end was let in, and a
\* joiner that was refused is never at the end of a stream its host holds: an ACCEPT
\* that crosses the joiner's timeout comes to nothing (session::accept, pipe::pair).
NoHalfPair ==
  \A j \in Joiners :
    /\ Accept(j) \in heard => Join(j) \in heard \cup ended
    /\ join[j] = "refused" => accept[j] \notin {"sent", "paired"} /\ Accept(j) \notin heard

\* What the three rest on: where a joiner's thread and the ACCEPT of its token can be
\* at once, and where its token then is.
Traced ==
  \A j \in Joiners :
    /\ join[j] = "new" => accept[j] = "none"
    /\ accept[j] \in {"claimed", "sent", "paired"} => tokens[j] = None
    /\ accept[j] = "paired" => join[j] = "paired"
    /\ Accept(j) \in heard => join[j] \in {"paired", "over"}
    /\ \A h \in Hosts : \A i \in DOMAIN ctl[h] :
         ctl[h][i] = JoinLine(j) => join[j] # "new"

RelayInv ==
  /\ TypeOK /\ TokensAttended /\ NoHalfPair /\ Traced
  /\ \A c \in Codes : waiting[c] = Cardinality(Awaiting(c)) /\ waiting[c] <= MaxWaiting

\* Every joiner is answered, whatever its host does (session::join, recv_timeout), and
\* every ACCEPT is told OK or NO, or its stream is closed: none is left in a channel
\* nobody reads (session::accept).
EverybodyAnswered ==
  \A j \in Joiners :
    /\ join[j] # "new" ~> join[j] \in {"paired", "refused", "over"}
    /\ accept[j] # "none" ~> accept[j] \in {"paired", "refused", "closed"}

\* The relay keeps the promise of Rendezvous: a joiner waits while its token is in the
\* table, is answered when an ACCEPT takes it out, and is in once it is told OK.
JoinerState(j) ==
  IF join[j] = "new" THEN "new"
  ELSE IF tokens[j] # None THEN "waiting"
  ELSE IF Join(j) \in heard THEN "in"
  ELSE IF \/ join[j] = "matched"
          \/ join[j] \in {"enlisted", "waiting", "claiming"} /\ accept[j] \in {"claimed", "sent"}
       THEN "answered"
  ELSE "refused"
Promise == INSTANCE Rendezvous WITH
  open <- {h \in Hosts : CodeOf(h) # {}},
  state <- [j \in Joiners |-> JoinerState(j)],
  game <- told
ImplementsRendezvous == Promise!Spec
=============================================================================
