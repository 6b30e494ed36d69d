---------------------------- MODULE LobbyProofs ----------------------------
(***************************************************************************)
(* The room before a game, for any number of joiners: its host's records   *)
(* of who sits where agree, every seated player is shown the roster, and   *)
(* whatever the players are called, each finds the seat it has.            *)
(***************************************************************************)
EXTENDS Lobby, FiniteSetTheorems, SequenceTheorems, WellFoundedInduction, TLAPS

(***************************************************************************)
(* Types.                                                                  *)
(***************************************************************************)
Rosters == UNION {[S -> Player] : S \in SUBSET Slots}
Types == {"Roster", "Refused", "Start", "NoSeat", "End"}
Messages == [type : Types, roster : Rosters]
Words == {"Join", "Ready", "NotReady", "End"}
Kinds == {"Start", "Assign", "Leave"}

\* A stronger TypeOK: what the sequences and functions are of, the room's own apart.
Requests == {[kind |-> "Start"], [kind |-> "Leave"]}
              \cup [kind : {"Assign"}, realm : Realms \cup {0}, slot : Slots]

TypeInv ==
  /\ at \in Places /\ asked \in Seq(Requests)
  /\ presses \in [Programs -> Nat] /\ \A p \in Programs : presses[p] <= MaxPresses[p]
  /\ (started = Nobody \/ started \in Rosters) /\ view \in [Joiners -> Rosters]
  /\ toHost \in [Joiners -> Seq(Words)]
  /\ toJoiner \in [Joiners -> Seq(Messages)] /\ outbox \in [Joiners -> Seq(Messages)]
  /\ backlog \subseteq Joiners /\ conns \subseteq Joiners /\ gone \subseteq Joiners /\ broken \subseteq Joiners
  /\ phase \in [Joiners -> Phases]

(***************************************************************************)
(* What the operators give.                                                *)
(***************************************************************************)
\* A set of numbers has a least one.
LEMMA LeastOf ==
  ASSUME NEW S \in SUBSET Nat, S # {}
  PROVE  \E x \in S : \A y \in S : x <= y
<1>1. PICK a \in S : a \in Nat
  OBVIOUS
<1> DEFINE N == 0 .. a
           T == {0 .. x : x \in {y \in S : y <= a}}
<1>2. IsFiniteSet(N)
  BY <1>1, FS_Interval
<1>3. T \subseteq FiniteSubsetsOf(N)
  <2>1. FiniteSubsetsOf(N) = SUBSET N
    BY <1>2, FS_FiniteSubsetsOfFinite
  <2>2. T \subseteq SUBSET N
    BY <1>1
  <2>3. QED
    BY <2>1, <2>2
<1>4. IsWellFoundedOn(StrictSubsetOrdering(N), FiniteSubsetsOf(N))
  BY FS_StrictSubsetOrderingWellFounded
<1>5. T # {}
  BY <1>1
<1> HIDE DEF T
<1>6. PICK X \in T : \A Y \in T : ~(<<Y, X>> \in StrictSubsetOrdering(N))
  BY <1>3, <1>4, <1>5, WFMin
<1> USE DEF T
<1>7. PICK x \in S : x <= a /\ X = 0 .. x
  OBVIOUS
<1>8. ASSUME NEW y \in S, y < x PROVE FALSE
  <2>1. y \in Nat /\ x \in Nat /\ y <= a
    BY <1>1, <1>7, <1>8
  <2>2. 0 .. y \in T /\ 0 .. y \subseteq 0 .. x /\ 0 .. y # 0 .. x /\ 0 .. x \in SUBSET N /\ 0 .. y \in SUBSET N
    BY <1>1, <1>7, <1>8, <2>1
  <2>3. <<0 .. y, 0 .. x>> \in StrictSubsetOrdering(N)
    BY <2>2 DEF StrictSubsetOrdering
  <2>4. QED
    BY <1>6, <1>7, <2>2, <2>3
<1>9. QED
  BY <1>7, <1>8

LEMMA LeastIn ==
  ASSUME NEW S \in SUBSET Nat, S # {}
  PROVE  Least(S) \in S
BY LeastOf DEF Least

LEMMA RosterParts ==
  /\ \A r : r \in Rosters <=> r \in [Taken(r) -> Player] /\ Taken(r) \subseteq Slots
  /\ \A r : IsRoster(r) <=> r \in Rosters
  /\ <<>> \in Rosters /\ Taken(<<>>) = {}
<1>1. <<>> = [x \in {} |-> x] /\ DOMAIN <<>> = {}
  OBVIOUS
<1>2. [x \in {} |-> x] \in [{} -> Player]
  OBVIOUS
<1>3. <<>> \in Rosters /\ Taken(<<>>) = {}
  BY <1>1, <1>2 DEF Rosters, Taken
<1>4. ASSUME NEW r, r \in Rosters PROVE r \in [Taken(r) -> Player] /\ Taken(r) \subseteq Slots
  BY <1>4 DEF Rosters, Taken
<1>5. ASSUME NEW r, r \in [Taken(r) -> Player], Taken(r) \subseteq Slots PROVE r \in Rosters
  BY <1>5 DEF Rosters
<1>6. QED
  BY <1>3, <1>4, <1>5 DEF IsRoster

LEMMA WithRoster ==
  ASSUME NEW r \in Rosters, NEW s \in Slots, NEW p \in Player
  PROVE  /\ With(r, s, p) \in Rosters /\ Taken(With(r, s, p)) = Taken(r) \cup {s}
         /\ \A x \in Taken(r) \cup {s} : With(r, s, p)[x] = IF x = s THEN p ELSE r[x]
<1>1. Taken(r) \subseteq Slots /\ r \in [Taken(r) -> Player]
  BY RosterParts
<1>2. With(r, s, p) \in [Taken(r) \cup {s} -> Player]
  BY <1>1 DEF With, Taken
<1>3. QED
  BY <1>1, <1>2 DEF With, Taken, Rosters

LEMMA WithoutRoster ==
  ASSUME NEW r \in Rosters, NEW S
  PROVE  /\ Without(r, S) \in Rosters /\ Taken(Without(r, S)) = Taken(r) \ S
         /\ \A x \in Taken(r) \ S : Without(r, S)[x] = r[x]
<1>1. Taken(r) \subseteq Slots /\ r \in [Taken(r) -> Player]
  BY RosterParts
<1>2. Without(r, S) \in [Taken(r) \ S -> Player]
  BY <1>1 DEF Without, Taken
<1>3. QED
  BY <1>1, <1>2 DEF Without, Taken, Rosters

LEMMA OutMessages ==
  ASSUME NEW out \in [Joiners -> Seq(Messages)], NEW to, NEW m \in Messages
  PROVE  Out(out, to, m) \in [Joiners -> Seq(Messages)]
BY DEF Out

LEMMA RosterMessage ==
  ASSUME NEW t \in Types, NEW r \in Rosters
  PROVE  Message(t, r) \in Messages
BY DEF Message, Messages

\* There is a shield left for whoever takes a free slot: there are as many as players.
LEMMA ShieldLeft ==
  ASSUME NEW r \in Rosters, Taken(r) # Slots, NEW w
  PROVE  FreeShield(r, w) \in (1 .. MaxShields) \ {r[s].shield : s \in Taken(r)}
<1> DEFINE Held == {r[s].shield : s \in Taken(r)}
           free == (1 .. MaxShields) \ Held
           f == [s \in Taken(r) |-> r[s].shield]
<1>1. MaxPlayers \in Nat /\ MaxShields \in Nat /\ MaxShields >= MaxPlayers
  BY LobbyAssumption
<1>2. IsFiniteSet(Slots) /\ Cardinality(Slots) = MaxPlayers
  <2>1. 0 \in Int /\ MaxPlayers - 1 \in Int
    BY <1>1
  <2>2. IsFiniteSet(0 .. MaxPlayers - 1)
        /\ Cardinality(0 .. MaxPlayers - 1) = IF 0 > MaxPlayers - 1 THEN 0 ELSE MaxPlayers - 1 - 0 + 1
    BY <2>1, FS_Interval
  <2>3. QED
    BY <1>1, <2>2, LobbyAssumption DEF Slots
<1>3. IsFiniteSet(Taken(r)) /\ Cardinality(Taken(r)) < MaxPlayers /\ Cardinality(Taken(r)) \in Nat
  <2>1. Taken(r) \in SUBSET Slots
    BY RosterParts
  <2>2. QED
    BY <1>1, <1>2, <2>1, FS_Subset, FS_CardinalityType
<1>4. IsFiniteSet(Held) /\ Cardinality(Held) <= Cardinality(Taken(r)) /\ Cardinality(Held) \in Nat
  <2>1. f \in Surjection(Taken(r), Held)
    BY DEF Surjection
  <2> HIDE DEF f, Held
  <2>2. QED
    BY <1>3, <2>1, FS_Surjection, FS_CardinalityType
<1>5. IsFiniteSet(1 .. MaxShields) /\ Cardinality(1 .. MaxShields) = MaxShields
  <2>1. 1 \in Int /\ MaxShields \in Int
    BY <1>1
  <2>2. IsFiniteSet(1 .. MaxShields)
        /\ Cardinality(1 .. MaxShields) = IF 1 > MaxShields THEN 0 ELSE MaxShields - 1 + 1
    BY <2>1, FS_Interval
  <2>3. QED
    BY <1>1, <2>2
<1>6. free # {}
  <2> SUFFICES ASSUME free = {} PROVE FALSE
    OBVIOUS
  <2>1. 1 .. MaxShields \in SUBSET Held
    OBVIOUS
  <2> HIDE DEF free, Held
  <2>2. Cardinality(1 .. MaxShields) <= Cardinality(Held)
    BY <1>4, <2>1, FS_Subset
  <2>3. QED
    BY <1>1, <1>3, <1>4, <1>5, <2>2
<1>7. free \in SUBSET Nat
  OBVIOUS
<1>8. Least(free) \in free
  <2> HIDE DEF free
  <2>1. QED
    BY <1>6, <1>7, LeastIn
<1>9. FreeShield(r, w) = IF w \in free THEN w ELSE Least(free)
  BY <1>6 DEF FreeShield
<1>10. QED
  <2> HIDE DEF free
  <2>1. FreeShield(r, w) \in free
    BY <1>8, <1>9
  <2>2. QED
    BY <2>1 DEF free

LEMMA RealmClaimed ==
  ASSUME NEW r, NEW p
  PROVE  /\ ClaimOf(r, p) \in Realms \cup {0}
         /\ ClaimOf(r, p) = 0 \/ Holder(r, ClaimOf(r, p)) = {}
<1> DEFINE mine == {k \in Realms : Saved[k] = p /\ Holder(r, k) = {}}
<1>1. mine \in SUBSET Nat
  BY LobbyAssumption
<1>2. ASSUME mine # {} PROVE Least(mine) \in mine
  <2> HIDE DEF mine
  <2>1. QED
    BY <1>1, <1>2, LeastIn
<1>3. ClaimOf(r, p) = IF mine = {} THEN 0 ELSE Least(mine)
  BY DEF ClaimOf
<1>4. QED
  BY <1>2, <1>3

LEMMA PlayerJoins ==
  ASSUME NEW r \in Rosters, Taken(r) # Slots, NEW p \in Programs
  PROVE  NewPlayer(r, p) \in Player
<1>1. FreeShield(r, ShieldOf[p]) \in 0 .. MaxShields
  BY ShieldLeft, LobbyAssumption
<1>2. QED
  BY <1>1, RealmClaimed DEF NewPlayer, Player

LEMMA SlotLeft ==
  ASSUME NEW r \in Rosters, Taken(r) # Slots
  PROVE  FreeSlot(r) \in Slots \ Taken(r)
<1>0. Slots \in SUBSET Nat
  BY LobbyAssumption DEF Slots
<1>1. Slots \ Taken(r) \in SUBSET Nat /\ Slots \ Taken(r) # {}
  <2>1. Taken(r) \subseteq Slots
    BY RosterParts
  <2> HIDE DEF Slots
  <2>2. QED
    BY <1>0, <2>1
<1>2. QED
  BY <1>1, LeastIn DEF FreeSlot

(***************************************************************************)
(* The room: the roster, the seats and the installs.                       *)
(***************************************************************************)
\* RoomAgrees without TypeOK, as a relation of what the host keeps.
Agrees(r, held, played) ==
  /\ DOMAIN played = Taken(r)
  /\ {held[j] : j \in DOMAIN held} = Taken(r) \ {HostSlot}
  /\ \A j \in DOMAIN held : played[held[j]] = j /\ r[held[j]].name = NameOf[j]
  /\ \A s, t \in Taken(r) : s # t =>
       r[s].shield # r[t].shield /\ (r[s].realm = 0 \/ r[s].realm # r[t].realm)

Keeps(r, held, played) ==
  /\ r \in Rosters
  /\ held \in [DOMAIN held -> Slots] /\ DOMAIN held \subseteq Joiners
  /\ played \in [DOMAIN played -> Programs] /\ DOMAIN played \subseteq Slots
  /\ Agrees(r, held, played)

LEMMA EmptyRoom == Keeps(<<>>, <<>>, <<>>)
BY RosterParts DEF Keeps, Agrees

\* A program takes a free slot.
LEMMA Seated ==
  ASSUME NEW r, NEW held, NEW played, Keeps(r, held, played), Taken(r) # Slots,
         NEW p \in Joiners, p \notin DOMAIN held, HostSeated(r)
  PROVE  LET slot == FreeSlot(r)
             new == With(r, slot, NewPlayer(r, p))
         IN  /\ Keeps(new, With(held, p, slot), With(played, slot, p))
             /\ HostSeated(new)
<1> DEFINE slot == FreeSlot(r)
           player == NewPlayer(r, p)
           new == With(r, slot, player)
           heldNew == With(held, p, slot)
           playedNew == With(played, slot, p)
<1>1. slot \in Slots \ Taken(r) /\ player \in Player /\ r \in Rosters
  BY SlotLeft, PlayerJoins DEF Keeps, Programs
<1>2. player.shield \notin {r[s].shield : s \in Taken(r)}
  <2>1. player.shield = FreeShield(r, ShieldOf[p])
    BY DEF NewPlayer
  <2> HIDE DEF player
  <2>2. QED
    BY <1>1, <2>1, ShieldLeft
<1>3. player.realm = 0 \/ \A s \in Taken(r) : r[s].realm # player.realm
  <2>1. player.realm = ClaimOf(r, p)
    BY DEF NewPlayer
  <2> HIDE DEF player
  <2>2. QED
    BY <2>1, RealmClaimed DEF Holder
<1>4. player.name = NameOf[p]
  BY DEF NewPlayer
<1> HIDE DEF slot, player
<1>5. /\ new \in Rosters /\ Taken(new) = Taken(r) \cup {slot}
      /\ \A x \in Taken(r) : new[x] = r[x]
      /\ new[slot] = player
  BY <1>1, WithRoster
<1>6. /\ heldNew = [x \in DOMAIN held \cup {p} |-> IF x = p THEN slot ELSE held[x]]
      /\ playedNew = [x \in DOMAIN played \cup {slot} |-> IF x = slot THEN p ELSE played[x]]
  BY DEF With, Taken
<1>7. /\ heldNew \in [DOMAIN heldNew -> Slots] /\ DOMAIN heldNew \subseteq Joiners
      /\ playedNew \in [DOMAIN playedNew -> Programs] /\ DOMAIN playedNew \subseteq Slots
  <2> HIDE DEF new, heldNew, playedNew
  <2>1. QED
    BY <1>1, <1>6 DEF Keeps, Programs
<1>8. Agrees(new, heldNew, playedNew)
  <2> HIDE DEF new, heldNew, playedNew
  <2>1. DOMAIN playedNew = Taken(new) /\ DOMAIN heldNew = DOMAIN held \cup {p}
    BY <1>5, <1>6 DEF Keeps, Agrees
  <2>2. \A j \in DOMAIN held : held[j] \in Taken(r) /\ held[j] # HostSlot /\ held[j] # slot
    BY <1>1 DEF Keeps, Agrees
  <2>3. {heldNew[j] : j \in DOMAIN heldNew} = Taken(new) \ {HostSlot}
    <3>1. ASSUME NEW s \in Taken(new) \ {HostSlot} PROVE \E j \in DOMAIN heldNew : s = heldNew[j]
      <4>1. CASE s = slot
        BY <1>6, <2>1, <4>1
      <4>2. CASE s # slot
        <5>1. s \in Taken(r) \ {HostSlot}
          BY <1>5, <4>2
        <5>2. PICK j \in DOMAIN held : s = held[j]
          BY <5>1 DEF Keeps, Agrees
        <5>3. QED
          BY <1>6, <2>1, <5>2
      <4>3. QED
        BY <4>1, <4>2
    <3>2. ASSUME NEW j \in DOMAIN heldNew PROVE heldNew[j] \in Taken(new) \ {HostSlot}
      BY <1>1, <1>5, <1>6, <2>1, <2>2 DEF HostSeated
    <3>3. QED
      BY <3>1, <3>2
  <2>4. ASSUME NEW j \in DOMAIN heldNew PROVE playedNew[heldNew[j]] = j /\ new[heldNew[j]].name = NameOf[j]
    <3>1. CASE j = p
      BY <1>4, <1>5, <1>6, <3>1
    <3>2. CASE j # p
      <4>1. j \in DOMAIN held /\ heldNew[j] = held[j] /\ held[j] \in DOMAIN played
        BY <1>6, <2>1, <2>2, <3>2 DEF Keeps, Agrees
      <4>2. QED
        BY <1>5, <1>6, <2>2, <4>1 DEF Keeps, Agrees
    <3>3. QED
      BY <3>1, <3>2
  <2>5. ASSUME NEW s \in Taken(new), NEW t \in Taken(new), s # t
        PROVE  new[s].shield # new[t].shield /\ (new[s].realm = 0 \/ new[s].realm # new[t].realm)
    BY <1>1, <1>2, <1>3, <1>5, <2>5 DEF Keeps, Agrees
  <2>6. QED
    BY <2>1, <2>3, <2>4, <2>5 DEF Agrees
<1>9. HostSeated(new)
  BY <1>1, <1>5 DEF HostSeated
<1>10. QED
  BY <1>5, <1>7, <1>8, <1>9 DEF Keeps, slot, player

\* Players leave.
LEMMA Unseats ==
  ASSUME NEW r, NEW held, NEW played, Keeps(r, held, played), NEW S, S \subseteq DOMAIN held
  PROVE  LET slots == {held[j] : j \in S}
         IN  /\ Keeps(Without(r, slots), Without(held, S), Without(played, slots))
             /\ HostSeated(r) => HostSeated(Without(r, slots))
<1> DEFINE slots == {held[j] : j \in S}
           new == Without(r, slots)
           heldNew == Without(held, S)
           playedNew == Without(played, slots)
<1>1. /\ new \in Rosters /\ Taken(new) = Taken(r) \ slots
      /\ \A x \in Taken(r) \ slots : new[x] = r[x]
  BY WithoutRoster DEF Keeps
<1>2. /\ heldNew = [x \in DOMAIN held \ S |-> held[x]]
      /\ playedNew = [x \in DOMAIN played \ slots |-> played[x]]
  BY DEF Without
<1>3. \A j \in DOMAIN held : held[j] \in Taken(r) \ {HostSlot} /\ played[held[j]] = j
  BY DEF Keeps, Agrees
<1>4. \A j \in DOMAIN held : held[j] \in slots => j \in S
  BY <1>3
<1>5. HostSlot \notin slots
  BY <1>3
<1>6. \A s \in Taken(r) \ {HostSlot} : \E j \in DOMAIN held : s = held[j]
  BY DEF Keeps, Agrees
<1> HIDE DEF new, heldNew, playedNew
<1>7. /\ heldNew \in [DOMAIN heldNew -> Slots] /\ DOMAIN heldNew \subseteq Joiners
      /\ playedNew \in [DOMAIN playedNew -> Programs] /\ DOMAIN playedNew \subseteq Slots
  BY <1>2 DEF Keeps
<1>8. Agrees(new, heldNew, playedNew)
  <2>1. DOMAIN playedNew = Taken(new)
    BY <1>1, <1>2 DEF Keeps, Agrees
  <2>2. ASSUME NEW s \in Taken(new) \ {HostSlot} PROVE s \in {heldNew[j] : j \in DOMAIN heldNew}
    <3>1. PICK j \in DOMAIN held : s = held[j]
      BY <1>1, <1>6
    <3>2. j \in DOMAIN heldNew /\ heldNew[j] = s
      BY <1>1, <1>2, <3>1
    <3>3. QED
      BY <3>2
  <2>3. ASSUME NEW j \in DOMAIN heldNew PROVE heldNew[j] \in Taken(new) \ {HostSlot}
    BY <1>1, <1>2, <1>3, <1>4
  <2>4. \A j \in DOMAIN heldNew : playedNew[heldNew[j]] = j /\ new[heldNew[j]].name = NameOf[j]
    <3> HIDE DEF slots
    <3>1. QED
      BY <1>1, <1>2, <1>3, <1>4 DEF Keeps, Agrees
  <2>5. \A s, t \in Taken(new) : s # t =>
           new[s].shield # new[t].shield /\ (new[s].realm = 0 \/ new[s].realm # new[t].realm)
    <3> HIDE DEF slots
    <3>1. QED
      BY <1>1 DEF Keeps, Agrees
  <2>6. QED
    BY <2>1, <2>2, <2>3, <2>4, <2>5 DEF Agrees
<1>9. HostSeated(r) => HostSeated(new)
  BY <1>1, <1>5 DEF HostSeated
<1>10. QED
  BY <1>1, <1>7, <1>8, <1>9 DEF Keeps, new, heldNew, playedNew

\* A player says it is ready, or is not.
LEMMA Readied ==
  ASSUME NEW r, NEW held, NEW played, Keeps(r, held, played), NEW s \in Taken(r), NEW b \in BOOLEAN
  PROVE  LET new == [r EXCEPT ![s].ready = b]
         IN  Keeps(new, held, played) /\ (HostSeated(r) => HostSeated(new))
<1> DEFINE new == [r EXCEPT ![s].ready = b]
<1>1. r \in [Taken(r) -> Player] /\ Taken(r) \subseteq Slots
  BY RosterParts DEF Keeps
<1>2. new = [x \in Taken(r) |-> IF x = s THEN [r[s] EXCEPT !.ready = b] ELSE r[x]]
  BY <1>1 DEF Taken
<1>3. /\ [r[s] EXCEPT !.ready = b] \in Player
      /\ [r[s] EXCEPT !.ready = b].name = r[s].name
      /\ [r[s] EXCEPT !.ready = b].shield = r[s].shield
      /\ [r[s] EXCEPT !.ready = b].realm = r[s].realm
  BY <1>1 DEF Player
<1> HIDE DEF new
<1>4. /\ new \in [Taken(r) -> Player] /\ Taken(new) = Taken(r)
      /\ \A x \in Taken(r) : new[x].name = r[x].name /\ new[x].shield = r[x].shield /\ new[x].realm = r[x].realm
  BY <1>1, <1>2, <1>3 DEF Taken
<1>5. new \in Rosters
  BY <1>1, <1>4, RosterParts
<1>6. Agrees(new, held, played)
  <2>1. \A j \in DOMAIN held : held[j] \in Taken(r)
    BY DEF Keeps, Agrees
  <2>2. QED
    BY <1>4, <2>1 DEF Keeps, Agrees
<1>7. HostSeated(r) => HostSeated(new)
  BY <1>4 DEF HostSeated
<1>8. QED
  BY <1>5, <1>6, <1>7 DEF Keeps, new

\* The host gives a realm to a player, and whoever held it has none.
LEMMA AssignKeeps ==
  ASSUME NEW r, NEW held, NEW played, Keeps(r, held, played),
         NEW slot, NEW realm \in Realms \cup {0}
  PROVE  /\ Keeps(Assigned(r, slot, realm), held, played)
         /\ HostSeated(r) => HostSeated(Assigned(r, slot, realm))
<1> DEFINE give(p) == [p EXCEPT !.realm = realm]
           take(p) == [p EXCEPT !.realm = 0]
           new == [s \in Taken(r) |->
                     IF s = slot THEN give(r[s]) ELSE IF r[s].realm = realm THEN take(r[s]) ELSE r[s]]
<1>1. r \in [Taken(r) -> Player] /\ Taken(r) \subseteq Slots
  BY RosterParts DEF Keeps
<1>2. \A p \in Player : /\ give(p) \in Player /\ give(p).realm = realm
                        /\ give(p).name = p.name /\ give(p).shield = p.shield
                        /\ take(p) \in Player /\ take(p).realm = 0
                        /\ take(p).name = p.name /\ take(p).shield = p.shield
  BY DEF Player
<1> HIDE DEF give, take
<1>3. /\ new \in [Taken(r) -> Player] /\ Taken(new) = Taken(r)
      /\ \A x \in Taken(r) : new[x].name = r[x].name /\ new[x].shield = r[x].shield
      /\ \A x \in Taken(r) : new[x].realm = IF x = slot THEN realm
                                            ELSE IF r[x].realm = realm THEN 0 ELSE r[x].realm
  BY <1>1, <1>2 DEF Taken
<1> HIDE DEF new
<1>4. new \in Rosters
  BY <1>1, <1>3, RosterParts
<1>5. Agrees(new, held, played)
  <2>1. \A j \in DOMAIN held : held[j] \in Taken(r)
    BY DEF Keeps, Agrees
  <2>2. ASSUME NEW s \in Taken(r), NEW t \in Taken(r), s # t
        PROVE  new[s].shield # new[t].shield /\ (new[s].realm = 0 \/ new[s].realm # new[t].realm)
    BY <1>3, <2>2 DEF Keeps, Agrees
  <2>3. QED
    BY <1>3, <2>1, <2>2 DEF Keeps, Agrees
<1>6. HostSeated(r) => HostSeated(new)
  BY <1>3 DEF HostSeated
<1>7. QED
  BY <1>4, <1>5, <1>6 DEF Keeps, Assigned, new, give, take

KeepInv == Keeps(roster, seats, installs) /\ HostStays

(***************************************************************************)
(* Every step keeps the types.                                             *)
(***************************************************************************)
LEMMA NothingTyped == Nothing \in [Joiners -> Seq(Messages)] /\ \A j \in Joiners : Nothing[j] = <<>>
BY DEF Nothing

LEMMA EndMessage == Message("End", <<>>) \in Messages /\ Message("NoSeat", <<>>) \in Messages
                    /\ Message("Refused", <<>>) \in Messages
BY RosterParts DEF Message, Messages, Types

LEMMA FlushTyped ==
  ASSUME TypeInv, NEW out \in [Joiners -> Seq(Messages)], Flush(out)
  PROVE  toJoiner' \in [Joiners -> Seq(Messages)]
BY DEF TypeInv, Flush

LEMMA DroppedTyped ==
  ASSUME TypeInv, NEW j \in Joiners, NEW to \in Phases, Dropped(j, to)
  PROVE  phase' \in [Joiners -> Phases] /\ view' \in [Joiners -> Rosters] /\ toHost' \in [Joiners -> Seq(Words)]
BY RosterParts DEF TypeInv, Dropped, Words

LEMMA DeparturesTyped ==
  ASSUME roster \in Rosters, NEW n \in Nat, NEW q, DOMAIN q = 1 .. n
  PROVE  Departures(q) \in Seq(Messages)
<1>1. \A S : Departed(S) \in Rosters
  BY WithoutRoster DEF Departed
<1>2. \A S : Message("Roster", Departed(S)) \in Messages
  BY <1>1, RosterMessage DEF Types
<1>3. Departures(q) = [i \in 1 .. n |-> Message("Roster", Departed({q[k] : k \in 1 .. i}))]
  BY DEF Departures
<1>4. Departures(q) \in [1 .. n -> Messages]
  BY <1>2, <1>3
<1>5. QED
  BY <1>4 DEF Seq

LEMMA InitTyped == Init => TypeInv /\ KeepInv
<1> SUFFICES ASSUME Init PROVE TypeInv /\ KeepInv
  OBVIOUS
<1>1. HostSlot \in Slots /\ Host \in Programs /\ Taken(<<>>) # Slots /\ <<>> \in Rosters
  BY LobbyAssumption, RosterParts DEF HostSlot, Slots, Programs
<1>2. NewPlayer(<<>>, Host) \in Player
  BY <1>1, PlayerJoins
<1> DEFINE new == With(<<>>, HostSlot, NewPlayer(<<>>, Host))
<1>3. /\ new \in Rosters /\ Taken(new) = {HostSlot}
      /\ new[HostSlot].name = NameOf[Host]
  <2>1. new \in Rosters /\ Taken(new) = Taken(<<>>) \cup {HostSlot} /\ new[HostSlot] = NewPlayer(<<>>, Host)
    BY <1>1, <1>2, WithRoster
  <2>2. Taken(new) = {HostSlot}
    BY <2>1, RosterParts
  <2>3. QED
    BY <2>1, <2>2 DEF NewPlayer
<1> HIDE DEF new
<1>4. roster = new /\ seats = <<>> /\ installs = [x \in {HostSlot} |-> Host]
  <2>1. With(<<>>, HostSlot, Host) = [x \in {HostSlot} |-> Host]
    BY RosterParts DEF With, Taken
  <2>2. QED
    BY <2>1 DEF Init, new
<1>5. KeepInv
  BY <1>1, <1>3, <1>4 DEF KeepInv, Keeps, Agrees, HostStays, HostSeated
<1>6. TypeInv
  BY NothingTyped, RosterParts, LobbyAssumption DEF Init, TypeInv, Places, Phases
<1>7. QED
  BY <1>5, <1>6

\* What stays on the way when the host closes: the first of it, and then the end.
LEMMA RoomClosed ==
  ASSUME TypeInv, CloseRoom
  PROVE  /\ toJoiner' \in [Joiners -> Seq(Messages)]
         /\ \A j \in Joiners :
              \/ toJoiner'[j] = toJoiner[j]
              \/ \E q \in Seq(Messages) :
                   /\ toJoiner'[j] = Append(q, Message("End", <<>>))
                   /\ \A i \in DOMAIN q : i \in DOMAIN toJoiner[j] /\ q[i] = toJoiner[j][i]
<1> DEFINE m == Message("End", <<>>)
<1>1. PICK sent \in Unsent :
        toJoiner' = [j \in Joiners |-> IF phase[j] = "room" /\ j \notin broken
                                       THEN Append(SubSeq(toJoiner[j], 1, sent[j]), m)
                                       ELSE toJoiner[j]]
  BY DEF CloseRoom
<1>2. m \in Messages
  BY EndMessage
<1> HIDE DEF m
<1>3. ASSUME NEW j \in Joiners
      PROVE  \E q \in Seq(Messages) :
               /\ q = SubSeq(toJoiner[j], 1, sent[j])
               /\ \A i \in DOMAIN q : i \in DOMAIN toJoiner[j] /\ q[i] = toJoiner[j][i]
  <2>1. PICK way, n : way = toJoiner[j] /\ n = sent[j]
    OBVIOUS
  <2>2. way \in Seq(Messages)
    BY <2>1 DEF TypeInv
  <2>3. n \in 0 .. Len(way)
    <3>1. /\ sent \in [Joiners -> UNION {0 .. Len(toJoiner[k]) : k \in Joiners}]
          /\ \A k \in Joiners : sent[k] <= Len(toJoiner[k])
      BY DEF Unsent
    <3>2. PICK k \in Joiners : n \in 0 .. Len(toJoiner[k])
      BY <2>1, <3>1
    <3>3. Len(toJoiner[k]) \in Nat
      BY DEF TypeInv
    <3>4. n \in Nat /\ n <= Len(way)
      BY <2>1, <3>1, <3>2, <3>3
    <3>5. QED
      BY <2>2, <3>4
  <2>4. /\ SubSeq(way, 1, n) \in Seq(Messages) /\ Len(SubSeq(way, 1, n)) = n
        /\ \A i \in 1 .. n : SubSeq(way, 1, n)[i] = way[i]
    BY <2>2, <2>3
  <2>5. \A i \in DOMAIN SubSeq(way, 1, n) : i \in DOMAIN way /\ SubSeq(way, 1, n)[i] = way[i]
    BY <2>2, <2>3, <2>4
  <2>6. QED
    BY <2>1, <2>4, <2>5
<1>4. toJoiner' \in [Joiners -> Seq(Messages)]
  <2>1. ASSUME NEW j \in Joiners
        PROVE  toJoiner[j] \in Seq(Messages) /\ Append(SubSeq(toJoiner[j], 1, sent[j]), m) \in Seq(Messages)
    <3>1. PICK q \in Seq(Messages) : q = SubSeq(toJoiner[j], 1, sent[j])
      BY <1>3
    <3>2. Append(q, m) \in Seq(Messages)
      BY <1>2
    <3>3. QED
      BY <3>1, <3>2 DEF TypeInv
  <2>2. QED
    BY <1>1, <2>1
<1>5. ASSUME NEW j \in Joiners
      PROVE  \/ toJoiner'[j] = toJoiner[j]
             \/ \E q \in Seq(Messages) :
                  /\ toJoiner'[j] = Append(q, m)
                  /\ \A i \in DOMAIN q : i \in DOMAIN toJoiner[j] /\ q[i] = toJoiner[j][i]
  BY <1>1, <1>3
<1>6. QED
  BY <1>4, <1>5 DEF m

LEMMA HostTyped ==
  ASSUME TypeInv, KeepInv, HostNext
  PROVE  TypeInv'
<1>1. roster \in Rosters /\ Host \in Programs
  BY DEF KeepInv, Keeps, Programs
<1>2. ASSUME NEW request \in Requests, Press(request) PROVE TypeInv'
  <2>1. presses' \in [Programs -> Nat] /\ \A p \in Programs : presses'[p] <= MaxPresses[p]
    <3>1. MaxPresses[Host] \in Nat
      BY <1>1, LobbyAssumption
    <3>2. presses' = [presses EXCEPT ![Host] = presses[Host] + 1] /\ presses[Host] < MaxPresses[Host]
      BY <1>2 DEF Press
    <3>3. QED
      BY <1>1, <3>1, <3>2 DEF TypeInv
  <2>2. asked' \in Seq(Requests)
    BY <1>2 DEF TypeInv, Press
  <2>3. QED
    BY <1>2, <2>1, <2>2 DEF TypeInv, Press, room, net
<1>3. CASE PressStart
  BY <1>2, <1>3 DEF PressStart, Requests
<1>4. CASE PressLeave
  BY <1>2, <1>4 DEF PressLeave, Requests
<1>5. CASE PressRealm
  <2>1. PICK realm \in Realms :
          LET holder == Holder(roster, realm)
              waiting == Holder(roster, 0)
              after == {s \in waiting : holder # {} /\ s > Least(holder)}
          IN  \/ /\ waiting # {}
                 /\ Press([kind |-> "Assign", realm |-> realm,
                           slot |-> Least(IF after # {} THEN after ELSE waiting)])
              \/ /\ waiting = {} /\ holder # {}
                 /\ Press([kind |-> "Assign", realm |-> 0, slot |-> Least(holder)])
    BY <1>5 DEF PressRealm
  <2> DEFINE holder == Holder(roster, realm)
             waiting == Holder(roster, 0)
             after == {s \in waiting : holder # {} /\ s > Least(holder)}
  <2>2. holder \in SUBSET Slots /\ waiting \in SUBSET Slots /\ after \in SUBSET Slots /\ Slots \in SUBSET Nat
    BY <1>1, RosterParts, LobbyAssumption DEF Holder, Slots
  <2> HIDE DEF holder, waiting, after
  <2>3. /\ holder # {} => Least(holder) \in Slots
        /\ waiting # {} => Least(IF after # {} THEN after ELSE waiting) \in Slots
    BY <2>2, LeastIn
  <2>4. \/ /\ waiting # {}
           /\ Press([kind |-> "Assign", realm |-> realm, slot |-> Least(IF after # {} THEN after ELSE waiting)])
        \/ /\ waiting = {} /\ holder # {}
           /\ Press([kind |-> "Assign", realm |-> 0, slot |-> Least(holder)])
    BY <2>1 DEF holder, waiting, after
  <2>5. \A a \in Slots, k \in Realms \cup {0} : [kind |-> "Assign", realm |-> k, slot |-> a] \in Requests
    BY DEF Requests
  <2>6. QED
    BY <1>2, <2>3, <2>4, <2>5
<1>6. CASE BeginPass
  BY <1>6 DEF TypeInv, BeginPass, room, net, Places
<1>7. CASE ServeStart
  <2>1. Out(outbox, Everyone, Message("Start", roster)) \in [Joiners -> Seq(Messages)]
    BY <1>1, RosterMessage, OutMessages DEF TypeInv, Types
  <2>2. toJoiner' \in [Joiners -> Seq(Messages)]
    BY <1>7, <2>1, FlushTyped DEF ServeStart
  <2>3. asked' \in Seq(Requests)
    BY <1>7 DEF TypeInv, ServeStart, Serve
  <2>4. QED
    BY <1>1, <1>7, <2>2, <2>3, NothingTyped DEF TypeInv, ServeStart
<1>8. CASE ServeAssign
  <2> DEFINE new == Assigned(roster, Head(asked).slot, Head(asked).realm)
  <2>1. Head(asked).realm \in Realms \cup {0} /\ asked' \in Seq(Requests)
    BY <1>8 DEF TypeInv, ServeAssign, Serve, MayServe
  <2>2. Flush(Out(outbox, Everyone, Message("Roster", new)))
    BY <1>8 DEF ServeAssign
  <2>3. new \in Rosters
    BY <2>1, AssignKeeps DEF KeepInv, Keeps
  <2> HIDE DEF new
  <2>4. Out(outbox, Everyone, Message("Roster", new)) \in [Joiners -> Seq(Messages)]
    BY <2>3, RosterMessage, OutMessages DEF TypeInv, Types
  <2>5. toJoiner' \in [Joiners -> Seq(Messages)]
    BY <2>2, <2>4, FlushTyped
  <2>6. QED
    BY <1>8, <2>1, <2>5, NothingTyped DEF TypeInv, ServeAssign
<1>9. CASE ServeFails
  <2>1. toJoiner' \in [Joiners -> Seq(Messages)]
    BY <1>9, RoomClosed DEF ServeFails
  <2>2. QED
    BY <1>9, <2>1, NothingTyped, RosterParts DEF TypeInv, ServeFails, CloseRoom, Places, Words
<1>10. CASE PassEnds
  <2> DEFINE left == gone \cap DOMAIN seats
  <2>1. PICK order \in InSomeOrder(left) : Flush([j \in Joiners |-> outbox[j] \o Departures(order)])
    BY <1>10 DEF PassEnds
  <2>2. Departures(order) \in Seq(Messages)
    BY <1>1, DeparturesTyped DEF InSomeOrder
  <2>3. [j \in Joiners |-> outbox[j] \o Departures(order)] \in [Joiners -> Seq(Messages)]
    BY <2>2 DEF TypeInv
  <2>4. toJoiner' \in [Joiners -> Seq(Messages)]
    BY <2>1, <2>3, FlushTyped
  <2>5. QED
    BY <1>10, <2>4, NothingTyped DEF TypeInv, PassEnds, Places
<1>11. QED
  BY <1>3, <1>4, <1>5, <1>6, <1>7, <1>8, <1>9, <1>10 DEF HostNext

LEMMA PeerTyped ==
  ASSUME TypeInv, KeepInv, NEW j \in Joiners, PeerNext(j)
  PROVE  TypeInv'
<1>1. Keeps(roster, seats, installs) /\ roster \in Rosters
  BY DEF KeepInv, Keeps
<1>2. CASE Accept(j)
  BY <1>2 DEF TypeInv, Accept, room
<1>3. ASSUME NEW w, Reads(j, w), outbox' \in [Joiners -> Seq(Messages)],
             UNCHANGED <<conns, gone>>
      PROVE  TypeInv'
  <2>1. toHost' \in [Joiners -> Seq(Words)]
    BY <1>3 DEF TypeInv, Reads
  <2>2. QED
    BY <1>3, <2>1 DEF TypeInv, Reads
<1>4. CASE JoinLost(j)
  BY <1>3, <1>4 DEF JoinLost, TypeInv
<1>5. CASE JoinRefused(j)
  <2>1. outbox' \in [Joiners -> Seq(Messages)]
    BY <1>5, EndMessage, OutMessages DEF JoinRefused, TypeInv
  <2>2. QED
    BY <1>3, <1>5, <2>1 DEF JoinRefused
<1>6. CASE JoinSeated(j)
  <2> DEFINE new == With(roster, FreeSlot(roster), NewPlayer(roster, j))
  <2>1. Taken(roster) # Slots
    BY <1>6 DEF JoinSeated, Refuses
  <2>2. new \in Rosters
    BY <1>1, <2>1, SlotLeft, PlayerJoins, WithRoster DEF Programs
  <2>3. outbox' = Out(outbox, Everyone, Message("Roster", new))
    BY <1>6 DEF JoinSeated
  <2> HIDE DEF new
  <2>4. outbox' \in [Joiners -> Seq(Messages)]
    BY <2>2, <2>3, RosterMessage, OutMessages DEF Types, TypeInv
  <2>5. QED
    BY <1>3, <1>6, <2>4 DEF JoinSeated
<1>7. CASE EndRead(j)
  BY <1>7 DEF TypeInv, EndRead, room
<1>8. ASSUME NEW ready \in BOOLEAN, ReadyRead(j, ready) PROVE TypeInv'
  <2>1. CASE j \in DOMAIN seats
    <3> DEFINE new == [roster EXCEPT ![seats[j]].ready = ready]
    <3>1. seats[j] \in Taken(roster)
      BY <1>1, <2>1 DEF Keeps, Agrees
    <3>2. new \in Rosters
      <4>1. Keeps(new, seats, installs)
        BY <1>1, <3>1, Readied
      <4>2. QED
        BY <4>1 DEF Keeps
    <3>3. outbox' = Out(outbox, Everyone, Message("Roster", new))
      BY <1>8, <2>1 DEF ReadyRead
    <3> HIDE DEF new
    <3>4. outbox' \in [Joiners -> Seq(Messages)]
      BY <3>2, <3>3, RosterMessage, OutMessages DEF Types, TypeInv
    <3>5. QED
      BY <1>3, <1>8, <3>4 DEF ReadyRead
  <2>2. CASE j \notin DOMAIN seats
    BY <1>3, <1>8, <2>2 DEF ReadyRead, TypeInv
  <2>3. QED
    BY <2>1, <2>2
<1>9. CASE LiveHears(j)
  <2>1. toHost' \in [Joiners -> Seq(Words)]
    BY <1>9 DEF TypeInv, LiveHears
  <2>2. <<Message("NoSeat", <<>>), Message("End", <<>>)>> \in Seq(Messages)
    BY EndMessage
  <2>3. toJoiner' \in [Joiners -> Seq(Messages)]
    <3> DEFINE bye == <<Message("NoSeat", <<>>), Message("End", <<>>)>>
    <3>1. toJoiner' = [toJoiner EXCEPT ![j] = @ \o bye] \/ toJoiner' = toJoiner
      BY <1>9 DEF LiveHears
    <3>2. bye \in Seq(Messages)
      BY <2>2
    <3> HIDE DEF bye
    <3>3. toJoiner[j] \in Seq(Messages) /\ toJoiner[j] \o bye \in Seq(Messages)
      BY <3>2 DEF TypeInv
    <3>4. QED
      BY <3>1, <3>3 DEF TypeInv
  <2>4. QED
    BY <1>9, <2>1, <2>3 DEF TypeInv, LiveHears, room
<1>10. QED
  BY <1>2, <1>4, <1>5, <1>6, <1>7, <1>8, <1>9 DEF PeerNext, HostReads

LEMMA JoinerTyped ==
  ASSUME TypeInv, NEW j \in Joiners, JoinerNext(j)
  PROVE  TypeInv'
<1>1. j \in Programs /\ MaxPresses[j] \in Nat
  BY LobbyAssumption DEF Programs
<1>2. CASE Connect(j)
  <2>1. <<"Join">> \in Seq(Words)
    BY DEF Words
  <2>2. toHost' = [toHost EXCEPT ![j] = <<"Join">>]
    BY <1>2 DEF Connect
  <2>3. toHost' \in [Joiners -> Seq(Words)]
    BY <2>1, <2>2 DEF TypeInv
  <2>4. QED
    BY <1>2, <2>3 DEF TypeInv, Connect, room, Phases
<1>3. CASE Ready(j)
  <2>1. presses' \in [Programs -> Nat] /\ \A p \in Programs : presses'[p] <= MaxPresses[p]
    BY <1>1, <1>3 DEF TypeInv, Ready
  <2>2. PICK w \in Words : toHost' = [toHost EXCEPT ![j] = Append(@, w)]
    BY <1>3 DEF Ready, Words
  <2>3. toHost' \in [Joiners -> Seq(Words)]
    BY <2>2 DEF TypeInv
  <2>4. QED
    BY <1>3, <2>1, <2>3 DEF TypeInv, Ready, room
<1>4. CASE Leave(j)
  <2>1. phase' \in [Joiners -> Phases] /\ view' \in [Joiners -> Rosters] /\ toHost' \in [Joiners -> Seq(Words)]
    BY <1>4, DroppedTyped DEF Leave, Phases
  <2>2. toJoiner' \in [Joiners -> Seq(Messages)]
    BY <1>4 DEF TypeInv, Leave
  <2>3. QED
    BY <1>4, <2>1, <2>2 DEF TypeInv, Leave, room
<1>5. CASE JoinerHears(j)
  <2> SUFFICES /\ phase' \in [Joiners -> Phases] /\ view' \in [Joiners -> Rosters]
               /\ toHost' \in [Joiners -> Seq(Words)] /\ toJoiner' \in [Joiners -> Seq(Messages)]
    BY <1>5 DEF TypeInv, JoinerHears, room
  <2>1. ASSUME Rest(j), toJoiner[j] # <<>> PROVE toJoiner' \in [Joiners -> Seq(Messages)] /\ Head(toJoiner[j]).roster \in Rosters
    <3>1. toJoiner[j] \in Seq(Messages)
      BY DEF TypeInv
    <3>2. Head(toJoiner[j]) \in Messages /\ Tail(toJoiner[j]) \in Seq(Messages)
      BY <2>1, <3>1
    <3>3. Head(toJoiner[j]).roster \in Rosters
      BY <3>2 DEF Messages
    <3>4. QED
      BY <2>1, <3>2, <3>3 DEF TypeInv, Rest
  <2>2. ASSUME Ends(j) PROVE /\ phase' \in [Joiners -> Phases] /\ view' \in [Joiners -> Rosters]
                             /\ toHost' \in [Joiners -> Seq(Words)] /\ toJoiner' \in [Joiners -> Seq(Messages)]
    <3>1. toJoiner' \in [Joiners -> Seq(Messages)]
      BY <2>2 DEF TypeInv, Ends
    <3>2. QED
      BY <2>2, <3>1, DroppedTyped DEF Ends, Phases
  <2>3. CASE RosterHeard(j)
    BY <2>1, <2>3 DEF TypeInv, RosterHeard, Hears
  <2>4. CASE StartHeard(j)
    BY <2>1, <2>2, <2>4 DEF TypeInv, StartHeard, Hears, Phases
  <2>5. CASE NoHeard(j)
    BY <2>2, <2>5 DEF NoHeard
  <2>6. QED
    BY <1>5, <2>3, <2>4, <2>5 DEF JoinerHears
<1>6. CASE Break(j)
  BY <1>6 DEF TypeInv, Break, room
<1>7. QED
  BY <1>2, <1>3, <1>4, <1>5, <1>6 DEF JoinerNext

LEMMA TypeNext == TypeInv /\ KeepInv /\ [Next]_vars => TypeInv'
<1> SUFFICES ASSUME TypeInv, KeepInv, [Next]_vars PROVE TypeInv'
  OBVIOUS
<1>1. CASE UNCHANGED vars
  BY <1>1 DEF TypeInv, vars, room, net
<1>2. QED
  BY <1>1, HostTyped, PeerTyped, JoinerTyped DEF Next

(***************************************************************************)
(* Every step keeps the room.                                              *)
(***************************************************************************)
\* The steps that change who sits where.
Moves ==
  \/ ServeAssign \/ ServeFails \/ PassEnds
  \/ \E j \in Joiners : JoinSeated(j) \/ (j \in DOMAIN seats /\ \E ready \in BOOLEAN : ReadyRead(j, ready))

LEMMA OthersMoveNobody ==
  ASSUME [Next]_vars, ~Moves
  PROVE  /\ UNCHANGED <<roster, seats, installs>>
         /\ at = "over" => at' = "over"
<1>1. CASE UNCHANGED vars
  BY <1>1 DEF vars, room
<1>2. CASE HostNext
  BY <1>2 DEF HostNext, Moves, PressStart, PressLeave, PressRealm, Press, BeginPass, ServeStart, room
<1>3. ASSUME NEW j \in Joiners, PeerNext(j) PROVE UNCHANGED <<roster, seats, installs, at>>
  BY <1>3 DEF PeerNext, Moves, Accept, HostReads, JoinLost, JoinRefused, EndRead, ReadyRead, Reads, LiveHears, room
<1>4. ASSUME NEW j \in Joiners, JoinerNext(j) PROVE UNCHANGED <<roster, seats, installs, at>>
  BY <1>4 DEF JoinerNext, Connect, Ready, Leave, JoinerHears, Break, room
<1>5. QED
  BY <1>1, <1>2, <1>3, <1>4 DEF Next

LEMMA KeepNext == TypeInv /\ KeepInv /\ [Next]_vars => KeepInv'
<1> SUFFICES ASSUME TypeInv, KeepInv, [Next]_vars PROVE KeepInv'
  OBVIOUS
<1>1. Keeps(roster, seats, installs) /\ (at # "over" => HostSeated(roster)) /\ DOMAIN roster = Taken(roster)
  BY DEF KeepInv, HostStays, Taken
<1>2. CASE ~Moves
  <2>1. UNCHANGED <<roster, seats, installs>> /\ (at = "over" => at' = "over")
    BY <1>2, OthersMoveNobody
  <2>2. Keeps(roster, seats, installs)' /\ (HostSeated(roster) => HostSeated(roster)')
    BY <1>1, <2>1 DEF Keeps, Agrees, HostSeated, Taken
  <2>3. QED
    BY <1>1, <2>1, <2>2 DEF KeepInv, HostStays
<1>3. CASE ServeAssign
  <2>1. /\ roster' = Assigned(roster, Head(asked).slot, Head(asked).realm)
        /\ UNCHANGED <<seats, installs, at>> /\ at = "pass"
    BY <1>3 DEF ServeAssign, Serve
  <2>2. Head(asked).realm \in Realms \cup {0}
    BY <1>3 DEF ServeAssign, Serve, MayServe
  <2>3. Keeps(roster', seats, installs) /\ HostSeated(roster')
    BY <1>1, <2>1, <2>2, AssignKeeps
  <2>4. QED
    BY <2>1, <2>3 DEF KeepInv, HostStays
<1>4. CASE ServeFails
  <2>1. roster' = <<>> /\ seats' = <<>> /\ installs' = <<>> /\ at' = "over"
    BY <1>4 DEF ServeFails, CloseRoom
  <2>2. QED
    BY <2>1, EmptyRoom DEF KeepInv, HostStays
<1>5. CASE PassEnds
  <2> DEFINE left == gone \cap DOMAIN seats
             slots == {seats[j] : j \in left}
  <2>1. /\ roster' = Without(roster, slots) /\ seats' = Without(seats, left)
        /\ installs' = Without(installs, slots) /\ at = "pass"
    BY <1>5 DEF PassEnds, Departed, Polls
  <2>2. Keeps(roster', seats', installs') /\ HostSeated(roster')
    BY <1>1, <2>1, Unseats
  <2>3. QED
    BY <2>2 DEF KeepInv, HostStays
<1>6. ASSUME NEW j \in Joiners, JoinSeated(j) PROVE KeepInv'
  <2> DEFINE slot == FreeSlot(roster)
             player == NewPlayer(roster, j)
  <2>1. /\ roster' = With(roster, slot, player) /\ seats' = With(seats, j, slot)
        /\ installs' = With(installs, slot, j) /\ at = "pass" /\ at' = at
    BY <1>6 DEF JoinSeated, Reads, Polls
  <2>2. Taken(roster) # Slots /\ j \notin DOMAIN seats
    <3>1. Taken(roster) # Slots /\ PlayerNamed(roster, NameOf[j]) = {}
      BY <1>6 DEF JoinSeated, Refuses
    <3>2. ASSUME j \in DOMAIN seats PROVE FALSE
      <4>1. seats[j] \in Taken(roster) /\ roster[seats[j]].name = NameOf[j]
        BY <1>1, <3>2 DEF Keeps, Agrees
      <4>2. QED
        BY <3>1, <4>1 DEF PlayerNamed
    <3>3. QED
      BY <3>1, <3>2
  <2>3. Keeps(roster', seats', installs') /\ HostSeated(roster')
    BY <1>1, <2>1, <2>2, Seated
  <2>4. QED
    BY <2>3 DEF KeepInv, HostStays
<1>7. ASSUME NEW j \in Joiners, j \in DOMAIN seats, NEW ready \in BOOLEAN, ReadyRead(j, ready) PROVE KeepInv'
  <2>1. /\ roster' = [roster EXCEPT ![seats[j]].ready = ready]
        /\ UNCHANGED <<seats, installs, at>> /\ at = "pass"
    BY <1>7 DEF ReadyRead, Reads, Polls
  <2>2. seats[j] \in Taken(roster)
    BY <1>1, <1>7 DEF Keeps, Agrees
  <2>3. Keeps(roster', seats, installs) /\ HostSeated(roster')
    BY <1>1, <2>1, <2>2, Readied
  <2>4. QED
    BY <2>1, <2>3 DEF KeepInv, HostStays
<1>8. QED
  BY <1>2, <1>3, <1>4, <1>5, <1>6, <1>7 DEF Moves

(***************************************************************************)
(* Every step keeps the connections.                                       *)
(***************************************************************************)
LEMMA ConnectionsInit == Init => ConnectionsKept
BY RosterParts DEF Init, ConnectionsKept, Taken

LEMMA DroppedEnds ==
  ASSUME TypeInv, ConnectionsKept, NEW j \in Joiners, NEW to \in {"failed", "left"}, Dropped(j, to),
         UNCHANGED <<at, seats, backlog, conns, gone, broken>>
  PROVE  ConnectionsKept'
<1>1. /\ phase' = [phase EXCEPT ![j] = to]
      /\ \A k \in Joiners : k # j => toHost'[k] = toHost[k]
  BY DEF Dropped, TypeInv
<1>2. QED
  BY <1>1 DEF ConnectionsKept, TypeInv

LEMMA ConnectionsNext ==
  ASSUME TypeInv, KeepInv, ConnectionsKept, [Next]_vars
  PROVE  ConnectionsKept'
<1>0. DOMAIN seats \subseteq Joiners
  BY DEF KeepInv, Keeps
<1>1. CASE UNCHANGED vars
  BY <1>1 DEF ConnectionsKept, vars, room, net
<1>2. CASE PressStart \/ PressLeave \/ PressRealm \/ BeginPass
  BY <1>2 DEF ConnectionsKept, PressStart, PressLeave, PressRealm, Press, BeginPass, room, net
<1>3. CASE ServeStart \/ ServeAssign
  BY <1>3 DEF ConnectionsKept, ServeStart, ServeAssign, Serve
<1>4. CASE ServeFails
  BY <1>4, RosterParts DEF ConnectionsKept, ServeFails, CloseRoom, Taken
<1>5. CASE PassEnds
  <2>1. DOMAIN seats' = DOMAIN seats \ gone
    BY <1>5 DEF PassEnds, Without
  <2>2. QED
    BY <1>5, <2>1 DEF ConnectionsKept, PassEnds
<1>6. ASSUME NEW j \in Joiners, Accept(j) \/ EndRead(j) PROVE ConnectionsKept'
  <2>1. CASE Accept(j)
    BY <2>1 DEF ConnectionsKept, Accept, room, Polls
  <2>2. CASE EndRead(j)
    <3>1. /\ conns' = conns \ {j} /\ gone' = gone \cup {j} /\ at = "pass"
          /\ UNCHANGED <<at, seats, backlog, broken, phase>>
          /\ toHost' = [toHost EXCEPT ![j] = <<>>]
      BY <2>2 DEF EndRead, Polls, room
    <3>2. phase[j] # "room" \/ j \in broken
      <4>1. CASE toHost[j] # <<>> /\ Head(toHost[j]) = "End"
        <5>1. toHost[j] \in Seq(Words)
          BY DEF TypeInv
        <5>2. 1 \in DOMAIN toHost[j] /\ toHost[j][1] = "End"
          BY <4>1, <5>1
        <5>3. QED
          BY <5>2 DEF ConnectionsKept
      <4>2. QED
        BY <2>2, <4>1 DEF EndRead
    <3>3. phase[j] # "idle"
      BY <2>2 DEF EndRead, ConnectionsKept
    <3>4. QED
      BY <3>1, <3>2, <3>3 DEF ConnectionsKept, TypeInv
  <2>3. QED
    BY <1>6, <2>1, <2>2
<1>7. ASSUME NEW j \in Joiners, NEW w, Reads(j, w), UNCHANGED <<conns, gone>>,
             DOMAIN seats' \subseteq DOMAIN seats \cup {j}
      PROVE  ConnectionsKept'
  <2>1. /\ toHost' = [toHost EXCEPT ![j] = Tail(@)] /\ toHost[j] # <<>> /\ j \in conns /\ at = "pass"
        /\ UNCHANGED <<at, backlog, broken, phase>>
    BY <1>7 DEF Reads, Polls
  <2>2. toHost[j] \in Seq(Words)
    BY DEF TypeInv
  <2>3. \A i \in DOMAIN Tail(toHost[j]) : i + 1 \in DOMAIN toHost[j] /\ Tail(toHost[j])[i] = toHost[j][i + 1]
    BY <2>1, <2>2
  <2>4. QED
    BY <1>7, <2>1, <2>3 DEF ConnectionsKept, TypeInv
<1>8. ASSUME NEW j \in Joiners, HostReads(j) PROVE ConnectionsKept'
  <2>1. CASE JoinLost(j)
    BY <1>7, <2>1 DEF JoinLost
  <2>2. CASE JoinRefused(j)
    BY <1>7, <2>2 DEF JoinRefused
  <2>3. CASE JoinSeated(j)
    <3>1. DOMAIN seats' = DOMAIN seats \cup {j}
      BY <2>3 DEF JoinSeated, With, Taken
    <3>2. QED
      BY <1>7, <2>3, <3>1 DEF JoinSeated
  <2>4. ASSUME NEW ready \in BOOLEAN, ReadyRead(j, ready) PROVE ConnectionsKept'
    BY <1>7, <2>4 DEF ReadyRead
  <2>5. QED
    BY <1>6, <1>8, <2>1, <2>2, <2>3, <2>4 DEF HostReads
<1>9. ASSUME NEW j \in Joiners, LiveHears(j) PROVE ConnectionsKept'
  <2>1. /\ toHost' = [toHost EXCEPT ![j] = Tail(@)] /\ toHost[j] # <<>>
        /\ UNCHANGED <<at, seats, conns, gone, backlog, broken, phase>>
    BY <1>9 DEF LiveHears, room
  <2>2. toHost[j] \in Seq(Words)
    BY DEF TypeInv
  <2>3. \A i \in DOMAIN Tail(toHost[j]) : i + 1 \in DOMAIN toHost[j] /\ Tail(toHost[j])[i] = toHost[j][i + 1]
    BY <2>1, <2>2
  <2>4. QED
    BY <2>1, <2>3 DEF ConnectionsKept, TypeInv
<1>10. ASSUME NEW j \in Joiners, Connect(j) PROVE ConnectionsKept'
  <2>1. /\ phase' = [phase EXCEPT ![j] = "room"] /\ phase[j] = "idle"
        /\ toHost' = [toHost EXCEPT ![j] = <<"Join">>] /\ backlog' = backlog \cup {j}
        /\ UNCHANGED <<at, seats, conns, gone, broken>>
    BY <1>10 DEF Connect, room
  <2>2. \A i \in DOMAIN <<"Join">> : <<"Join">>[i] # "End"
    OBVIOUS
  <2>3. QED
    BY <2>1, <2>2 DEF ConnectionsKept, TypeInv
<1>11. ASSUME NEW j \in Joiners, Ready(j) PROVE ConnectionsKept'
  <2>1. PICK w \in {"Ready", "NotReady"} : toHost' = [toHost EXCEPT ![j] = Append(@, w)]
    BY <1>11 DEF Ready
  <2>2. UNCHANGED <<at, seats, backlog, conns, gone, broken, phase>>
    BY <1>11 DEF Ready, room
  <2>3. toHost[j] \in Seq(Words)
    BY DEF TypeInv
  <2>4. \A i \in DOMAIN Append(toHost[j], w) : Append(toHost[j], w)[i] = "End" =>
          i \in DOMAIN toHost[j] /\ toHost[j][i] = "End"
    BY <2>3
  <2>5. QED
    BY <2>1, <2>2, <2>4 DEF ConnectionsKept, TypeInv
<1>12. ASSUME NEW j \in Joiners, Leave(j) \/ JoinerHears(j) PROVE ConnectionsKept'
  <2>1. UNCHANGED <<at, seats, backlog, conns, gone, broken>>
    BY <1>12 DEF Leave, JoinerHears, room
  <2>2. CASE Leave(j) \/ Ends(j)
    BY <2>1, <2>2, DroppedEnds DEF Leave, Ends
  <2>3. CASE ~Leave(j) /\ ~Ends(j)
    <3>1. UNCHANGED toHost /\ (UNCHANGED phase \/ phase' = [phase EXCEPT ![j] = "started"])
      BY <1>12, <2>3 DEF JoinerHears, RosterHeard, StartHeard, NoHeard
    <3>2. QED
      BY <2>1, <3>1 DEF ConnectionsKept, TypeInv
  <2>4. QED
    BY <2>2, <2>3
<1>13. ASSUME NEW j \in Joiners, Break(j) PROVE ConnectionsKept'
  BY <1>13 DEF ConnectionsKept, Break, room
<1>14. QED
  BY <1>1, <1>2, <1>3, <1>4, <1>5, <1>6, <1>8, <1>9, <1>10, <1>11, <1>12, <1>13
  DEF Next, HostNext, PeerNext, JoinerNext

(***************************************************************************)
(* What a screen will show.                                                *)
(***************************************************************************)
LEMMA ShowsLast ==
  ASSUME NEW q \in Seq(Messages), NEW o \in Seq(Messages), NEW r \in Rosters, NEW v
  PROVE  Shows(q \o Append(o, Message("Roster", r)), v, r)
<1> DEFINE m == Message("Roster", r)
           way == q \o Append(o, m)
<1>1. m \in Messages /\ m.type = "Roster" /\ m.roster = r
  BY RosterMessage DEF Types, Message
<1> HIDE DEF m
<1>2. Len(way) = Len(q) + Len(o) + 1 /\ way \in Seq(Messages) /\ way[Len(way)] = m
  BY <1>1
<1> HIDE DEF way
<1>3. Len(way) \in DOMAIN way /\ \A k \in DOMAIN way : ~(k > Len(way))
  BY <1>2
<1>4. Shows(way, v, r)
  BY <1>1, <1>2, <1>3 DEF Shows
<1>5. QED
  BY <1>4 DEF way, m

LEMMA ShowsOther ==
  ASSUME NEW q \in Seq(Messages), NEW o \in Seq(Messages), NEW m \in Messages, m.type # "Roster",
         NEW v, NEW r, Shows(q \o o, v, r)
  PROVE  Shows(q \o Append(o, m), v, r)
<1> DEFINE old == q \o o
           way == q \o Append(o, m)
<1>1. /\ old \in Seq(Messages) /\ way \in Seq(Messages) /\ Len(way) = Len(old) + 1
      /\ way[Len(way)] = m /\ \A i \in DOMAIN old : way[i] = old[i]
  OBVIOUS
<1> HIDE DEF old, way
<1>2. DOMAIN way = DOMAIN old \cup {Len(way)} /\ \A i \in DOMAIN old : i \in Nat /\ i < Len(way)
  BY <1>1
<1>3. CASE v = r /\ \A i \in DOMAIN old : old[i].type # "Roster"
  BY <1>1, <1>2, <1>3 DEF Shows, way
<1>4. CASE \E i \in DOMAIN old : /\ old[i].type = "Roster" /\ old[i].roster = r
                                /\ \A k \in DOMAIN old : k > i => old[k].type # "Roster"
  BY <1>1, <1>2, <1>4 DEF Shows, way
<1>5. QED
  BY <1>3, <1>4 DEF Shows, old

LEMMA ShowsTaken ==
  ASSUME NEW q \in Seq(Messages), NEW o \in Seq(Messages), q # <<>>, Head(q).type = "Roster",
         NEW v, NEW r, Shows(q \o o, v, r)
  PROVE  Shows(Tail(q) \o o, Head(q).roster, r)
<1> DEFINE old == q \o o
           way == Tail(q) \o o
<1>1. /\ old \in Seq(Messages) /\ way \in Seq(Messages) /\ Len(old) = Len(way) + 1
      /\ DOMAIN old = 1 .. Len(old) /\ DOMAIN way = 1 .. Len(way) /\ Len(way) \in Nat
      /\ old[1] = Head(q) /\ \A i \in DOMAIN way : way[i] = old[i + 1]
  OBVIOUS
<1> HIDE DEF old, way
<1>2. PICK i \in DOMAIN old : /\ old[i].type = "Roster" /\ old[i].roster = r
                              /\ \A k \in DOMAIN old : k > i => old[k].type # "Roster"
  <2>1. 1 \in DOMAIN old
    BY <1>1
  <2>2. QED
    BY <1>1, <2>1 DEF Shows, old
<1>3. \A k \in DOMAIN way : k + 1 > i => way[k].type # "Roster"
  <2> SUFFICES ASSUME NEW k \in DOMAIN way, k + 1 > i PROVE way[k].type # "Roster"
    OBVIOUS
  <2>1. k + 1 \in DOMAIN old /\ way[k] = old[k + 1]
    BY <1>1
  <2>2. QED
    BY <1>2, <2>1
<1>4. i \in Nat /\ i >= 1 /\ i <= Len(way) + 1
  BY <1>1
<1>5. CASE i = 1
  <2>1. \A k \in DOMAIN way : k \in Nat /\ k >= 1
    BY <1>1
  <2>2. \A k \in DOMAIN way : way[k].type # "Roster"
    BY <1>3, <1>5, <2>1
  <2>3. QED
    BY <1>1, <1>2, <1>5, <2>2 DEF Shows, way
<1>6. CASE i # 1
  <2>1. i - 1 \in DOMAIN way /\ (i - 1) + 1 = i
    BY <1>1, <1>4, <1>6
  <2>2. way[i - 1] = old[i]
    BY <1>1, <2>1
  <2>3. \A k \in DOMAIN way : k > i - 1 => way[k].type # "Roster"
    BY <1>1, <1>3, <1>4
  <2>4. QED
    BY <1>2, <2>1, <2>2, <2>3 DEF Shows, way
<1>7. QED
  BY <1>5, <1>6

LEMMA AppendCat ==
  ASSUME NEW S, NEW o \in Seq(S), NEW p \in Seq(S), NEW m \in S
  PROVE  o \o Append(p, m) = Append(o \o p, m)
OBVIOUS

\* Whoever left has left once the last of them has.
LEMMA AllDepart ==
  ASSUME KeepInv, NEW S, S \subseteq DOMAIN seats, NEW order \in InSomeOrder(S)
  PROVE  /\ Cardinality(S) \in Nat /\ DOMAIN order = 1 .. Cardinality(S)
         /\ {order[k] : k \in 1 .. Cardinality(S)} = S
<1>1. IsFiniteSet(DOMAIN seats)
  <2>1. seats \in Injection(DOMAIN seats, Slots)
    BY DEF KeepInv, Keeps, Agrees, Injection, IsInjective
  <2>2. IsFiniteSet(Slots)
    BY LobbyAssumption, FS_Interval DEF Slots
  <2>3. QED
    BY <2>1, <2>2, FS_Injection
<1>2. IsFiniteSet(S) /\ Cardinality(S) \in Nat
  BY <1>1, FS_Subset, FS_CardinalityType
<1> DEFINE n == Cardinality(S)
<1> HIDE DEF n
<1>3. n \in Nat /\ order \in Injection(1 .. n, S)
  BY <1>2 DEF n, InSomeOrder, Injection, IsInjective
<1>4. IsFiniteSet(1 .. n) /\ Cardinality(1 .. n) = n
  <2>1. 1 \in Int /\ n \in Int
    BY <1>3
  <2>2. IsFiniteSet(1 .. n) /\ Cardinality(1 .. n) = IF 1 > n THEN 0 ELSE n - 1 + 1
    BY <2>1, FS_Interval
  <2>3. QED
    BY <1>3, <2>2
<1>5. order \in Surjection(1 .. n, S)
  BY <1>2, <1>3, <1>4, FS_Injection DEF n
<1>6. {order[k] : k \in 1 .. n} = S
  BY <1>5 DEF Surjection
<1>7. QED
  BY <1>3, <1>6 DEF n, Injection

(***************************************************************************)
(* Every step keeps what the seated players will see.                      *)
(***************************************************************************)
\* Who hears of the next roster: a seated player who has not left.
Listens(j) == j \in DOMAIN seats /\ phase[j] = "room" /\ j \notin broken

LEMMA ListenersReached ==
  ASSUME ConnectionsKept, KeepInv, NEW j, Listens(j)
  PROVE  j \in Joiners /\ Reaches(j) /\ j \notin gone
BY DEF ConnectionsKept, KeepInv, Keeps, Listens, Reaches

LEMMA Posts ==
  ASSUME TypeInv, NEW to, NEW m \in Messages, NEW j \in Joiners
  PROVE  Out(outbox, to, m)[j] = IF j \in to THEN Append(outbox[j], m) ELSE outbox[j]
BY DEF Out

LEMMA FlushSends ==
  ASSUME TypeInv, NEW out \in [Joiners -> Seq(Messages)], Flush(out), outbox' = Nothing,
         NEW j \in Joiners, Reaches(j)
  PROVE  toJoiner'[j] \o outbox'[j] = toJoiner[j] \o out[j]
<1>1. toJoiner'[j] = toJoiner[j] \o out[j]
  BY DEF Flush
<1>2. outbox'[j] = <<>>
  BY NothingTyped
<1>3. toJoiner[j] \o out[j] \in Seq(Messages)
  BY DEF TypeInv
<1>4. QED
  BY <1>1, <1>2, <1>3

LEMMA LatestInit == Init => LatestPosted
BY RosterParts DEF Init, LatestPosted, Taken

\* Steps that neither tell anybody anything nor change the roster.
LEMMA LatestQuiet ==
  ASSUME TypeInv, KeepInv, ConnectionsKept, LatestPosted,
         UNCHANGED <<roster, seats, outbox>>,
         at' = "ui" => at = "ui", at' = "pass" => at \in {"ui", "pass"},
         \A j \in DOMAIN seats : phase'[j] = "room" /\ j \notin broken' =>
           /\ phase[j] = "room" /\ j \notin broken
           /\ Shows(toJoiner[j] \o outbox[j], view[j], roster) =>
                Shows(toJoiner'[j] \o outbox[j], view'[j], roster)
  PROVE  LatestPosted'
BY DEF LatestPosted

LEMMA LatestHost ==
  ASSUME TypeInv, KeepInv, ConnectionsKept, LatestPosted, HostNext
  PROVE  LatestPosted'
<1>1. roster \in Rosters /\ seats \in [DOMAIN seats -> Slots] /\ DOMAIN seats \subseteq Joiners
  BY DEF KeepInv, Keeps
<1>2. CASE PressStart \/ PressLeave \/ PressRealm \/ BeginPass
  <2>1. /\ UNCHANGED <<roster, seats, outbox, toJoiner, phase, broken, view>>
        /\ at = "ui" /\ at' \in {"ui", "pass"}
    BY <1>2 DEF PressStart, PressLeave, PressRealm, Press, BeginPass, room, net
  <2>2. QED
    BY <2>1, LatestQuiet
<1>3. CASE ServeStart
  <2> DEFINE out == Out(outbox, Everyone, Message("Start", roster))
  <2>1. Message("Start", roster) \in Messages /\ Message("Start", roster).type = "Start"
    BY <1>1, RosterMessage DEF Types, Message
  <2>2. /\ Flush(out) /\ outbox' = Nothing /\ at = "pass" /\ at' = "pass"
        /\ UNCHANGED <<roster, seats, phase, broken, view>>
    BY <1>3 DEF ServeStart, Serve
  <2>3. out \in [Joiners -> Seq(Messages)]
    BY <2>1, OutMessages DEF TypeInv
  <2>4. ASSUME NEW j \in DOMAIN seats, Listens(j) PROVE Shows(toJoiner'[j] \o outbox'[j], view[j], roster)
    <3>1. j \in Joiners /\ Reaches(j)
      BY <2>4, ListenersReached
    <3>2. out[j] = Append(outbox[j], Message("Start", roster))
      BY <2>1, <3>1, Posts DEF Everyone
    <3> HIDE DEF out
    <3>3. toJoiner'[j] \o outbox'[j] = toJoiner[j] \o out[j]
      BY <2>2, <2>3, <3>1, FlushSends
    <3>4. Shows(toJoiner[j] \o outbox[j], view[j], roster)
      BY <2>2, <2>4 DEF LatestPosted, Listens
    <3>5. toJoiner[j] \in Seq(Messages) /\ outbox[j] \in Seq(Messages)
      BY <3>1 DEF TypeInv
    <3>6. QED
      BY <2>1, <3>2, <3>3, <3>4, <3>5, ShowsOther
  <2>5. QED
    BY <2>2, <2>4 DEF LatestPosted, Listens
<1>4. CASE ServeAssign
  <2> DEFINE new == Assigned(roster, Head(asked).slot, Head(asked).realm)
             out == Out(outbox, Everyone, Message("Roster", new))
  <2>1. Head(asked).realm \in Realms \cup {0}
    BY <1>4 DEF ServeAssign, Serve, MayServe
  <2>2. new \in Rosters
    BY <2>1, AssignKeeps DEF KeepInv, Keeps
  <2>3. /\ Flush(out) /\ outbox' = Nothing /\ at = "pass" /\ at' = "pass" /\ roster' = new
        /\ UNCHANGED <<seats, phase, broken, view>>
    BY <1>4 DEF ServeAssign, Serve
  <2> HIDE DEF new
  <2>4. out \in [Joiners -> Seq(Messages)] /\ Message("Roster", new) \in Messages
    BY <2>2, RosterMessage, OutMessages DEF TypeInv, Types
  <2>5. ASSUME NEW j \in DOMAIN seats, Listens(j) PROVE Shows(toJoiner'[j] \o outbox'[j], view[j], new)
    <3>1. j \in Joiners /\ Reaches(j)
      BY <2>5, ListenersReached
    <3>2. out[j] = Append(outbox[j], Message("Roster", new))
      BY <2>4, <3>1, Posts DEF Everyone
    <3> HIDE DEF out
    <3>3. toJoiner'[j] \o outbox'[j] = toJoiner[j] \o out[j]
      BY <2>3, <2>4, <3>1, FlushSends
    <3>4. toJoiner[j] \in Seq(Messages) /\ outbox[j] \in Seq(Messages)
      BY <3>1 DEF TypeInv
    <3>5. QED
      BY <2>2, <3>2, <3>3, <3>4, ShowsLast
  <2>6. QED
    BY <2>3, <2>5 DEF LatestPosted, Listens
<1>5. CASE ServeFails
  BY <1>5 DEF ServeFails, CloseRoom, LatestPosted
<1>6. CASE PassEnds
  <2> DEFINE left == gone \cap DOMAIN seats
             n == Cardinality(left)
  <2>1. PICK order \in InSomeOrder(left) : Flush([j \in Joiners |-> outbox[j] \o Departures(order)])
    BY <1>6 DEF PassEnds
  <2> DEFINE out == [j \in Joiners |-> outbox[j] \o Departures(order)]
  <2>2. /\ roster' = Departed(left) /\ seats' = Without(seats, left) /\ outbox' = Nothing
        /\ UNCHANGED <<phase, broken, view>> /\ at = "pass"
    BY <1>6 DEF PassEnds, Polls
  <2>3. DOMAIN seats' = DOMAIN seats \ gone
    BY <2>2 DEF Without
  <2>4. n \in Nat /\ DOMAIN order = 1 .. n /\ {order[k] : k \in 1 .. n} = left
    BY <2>1, AllDepart
  <2> HIDE DEF n
  <2>5. Departures(order) \in Seq(Messages)
    BY <1>1, <2>4, DeparturesTyped
  <2>6. out \in [Joiners -> Seq(Messages)] /\ Flush(out)
    BY <2>1, <2>5 DEF TypeInv
  <2>7. ASSUME NEW j \in DOMAIN seats', phase[j] = "room", j \notin broken
        PROVE  Shows(toJoiner'[j] \o outbox'[j], view[j], roster')
    <3>1. Listens(j) /\ j \in Joiners /\ Reaches(j)
      BY <2>3, <2>7, ListenersReached DEF Listens
    <3>2. out[j] = outbox[j] \o Departures(order)
      BY <3>1
    <3>3. toJoiner'[j] \o outbox'[j] = toJoiner[j] \o out[j]
      <4> HIDE DEF out
      <4>1. QED
        BY <2>2, <2>6, <3>1, FlushSends
    <3>4. toJoiner[j] \in Seq(Messages) /\ outbox[j] \in Seq(Messages)
      BY <3>1 DEF TypeInv
    <3> HIDE DEF out, left
    <3>5. CASE n = 0
      <4>1. left = {} /\ Departures(order) = <<>>
        <5>1. left = {}
          BY <2>4, <3>5
        <5>2. Len(Departures(order)) = 0
          BY <2>4, <2>5, <3>5 DEF Departures
        <5>3. QED
          BY <2>5, <5>1, <5>2
      <4>2. roster' = roster
        <5>1. roster' = [x \in DOMAIN roster |-> roster[x]]
          BY <2>2, <4>1 DEF Departed, Without
        <5>2. QED
          BY <1>1, <5>1, RosterParts
      <4>3. toJoiner'[j] \o outbox'[j] = toJoiner[j] \o outbox[j]
        BY <3>2, <3>3, <3>4, <4>1
      <4>4. QED
        BY <2>2, <3>1, <4>2, <4>3 DEF LatestPosted, Listens
    <3>6. CASE n # 0
      <4> DEFINE most == SubSeq(Departures(order), 1, n - 1)
                 rest == outbox[j] \o most
      <4>1. Departures(order) = [i \in 1 .. n |-> Message("Roster", Departed({order[k] : k \in 1 .. i}))]
        BY <2>4 DEF Departures
      <4>2. Len(Departures(order)) = n /\ Departures(order)[n] = Message("Roster", Departed(left))
        <5>1. DOMAIN Departures(order) = 1 .. n
          BY <4>1
        <5>2. Departures(order)[n] = Message("Roster", Departed({order[k] : k \in 1 .. n}))
          <6>1. n \in 1 .. n
            BY <2>4, <3>6
          <6>2. QED
            BY Zenon, <4>1, <6>1
        <5>3. Departures(order)[n] = Message("Roster", Departed(left))
          BY Zenon, <2>4, <5>2
        <5>4. Len(Departures(order)) = n
          BY <2>4, <2>5, <5>1
        <5>5. QED
          BY <5>3, <5>4
      <4>3. Departed(left) \in Rosters
        BY <1>1, WithoutRoster DEF Departed
      <4>4. most \in Seq(Messages) /\ Departures(order) = Append(most, Message("Roster", Departed(left)))
        <5> HIDE DEF rest
        <5>1. QED
          BY <2>4, <2>5, <3>6, <4>2
      <4> HIDE DEF most
      <4>5. /\ rest \in Seq(Messages)
            /\ outbox[j] \o Departures(order) = Append(rest, Message("Roster", Departed(left)))
        <5>1. Message("Roster", Departed(left)) \in Messages
          BY <4>3, RosterMessage DEF Types
        <5>2. rest \in Seq(Messages)
          BY <3>4, <4>4
        <5>3. outbox[j] \o Append(most, Message("Roster", Departed(left))) = Append(rest, Message("Roster", Departed(left)))
          <6> DEFINE m == Message("Roster", Departed(left))
          <6>1. m \in Messages
            BY <5>1
          <6> HIDE DEF m
          <6>2. outbox[j] \o Append(most, m) = Append(outbox[j] \o most, m)
            <7>1. PICK q : q = outbox[j]
              OBVIOUS
            <7>2. q \in Seq(Messages) /\ most \in Seq(Messages)
              BY <3>4, <4>4, <7>1
            <7>3. q \o Append(most, m) = Append(q \o most, m)
              BY <6>1, <7>2
            <7>4. QED
              BY <7>1, <7>3
          <6>3. QED
            BY <6>2 DEF m
        <5>4. QED
          BY Zenon, <4>4, <5>2, <5>3
      <4> HIDE DEF rest
      <4>6. QED
        BY <2>2, <3>2, <3>3, <3>4, <4>3, <4>5, ShowsLast
    <3>7. QED
      BY <3>5, <3>6
  <2>8. QED
    BY <1>6, <2>2, <2>7 DEF LatestPosted, PassEnds
<1>7. QED
  BY <1>2, <1>3, <1>4, <1>5, <1>6 DEF HostNext

LEMMA LatestPeer ==
  ASSUME TypeInv, KeepInv, ConnectionsKept, LatestPosted, NEW j \in Joiners, PeerNext(j)
  PROVE  LatestPosted'
<1>1. roster \in Rosters /\ DOMAIN seats \subseteq Joiners
  BY DEF KeepInv, Keeps
<1>2. ASSUME UNCHANGED <<at, roster, seats, outbox, toJoiner, phase, broken, view>> PROVE LatestPosted'
  BY <1>2, LatestQuiet
<1>3. ASSUME NEW r \in Rosters, roster' = r, outbox' = Out(outbox, Everyone, Message("Roster", r)), at = "pass",
             UNCHANGED <<at, toJoiner, phase, broken, view>>, DOMAIN seats' \subseteq Joiners
      PROVE  LatestPosted'
  <2>1. Message("Roster", r) \in Messages
    BY RosterMessage DEF Types
  <2>2. ASSUME NEW k \in DOMAIN seats' PROVE Shows(toJoiner[k] \o outbox'[k], view[k], r)
    <3>1. k \in Joiners /\ toJoiner[k] \in Seq(Messages) /\ outbox[k] \in Seq(Messages)
      BY <1>3 DEF TypeInv
    <3>2. outbox'[k] = Append(outbox[k], Message("Roster", r))
      BY <1>3, <2>1, <3>1, Posts DEF Everyone
    <3>3. QED
      BY <3>1, <3>2, ShowsLast
  <2>3. QED
    BY <1>3, <2>2 DEF LatestPosted
<1>4. CASE Accept(j)
  BY <1>2, <1>4 DEF Accept, room
<1>5. CASE JoinLost(j)
  BY <1>2, <1>5 DEF JoinLost, Reads
<1>6. CASE JoinRefused(j)
  <2> DEFINE m == Message("Refused", <<>>)
  <2>1. m \in Messages /\ m.type # "Roster"
    BY EndMessage DEF Message
  <2>2. /\ outbox' = Out(outbox, {j}, m) /\ at = "pass"
        /\ UNCHANGED <<at, roster, seats, toJoiner, phase, broken, view>>
    BY <1>6 DEF JoinRefused, Reads, Polls
  <2> HIDE DEF m
  <2>3. ASSUME NEW k \in DOMAIN seats, phase[k] = "room", k \notin broken
        PROVE  Shows(toJoiner[k] \o outbox'[k], view[k], roster)
    <3>1. k \in Joiners /\ toJoiner[k] \in Seq(Messages) /\ outbox[k] \in Seq(Messages)
      BY <1>1 DEF TypeInv
    <3>2. outbox'[k] = Append(outbox[k], m) \/ outbox'[k] = outbox[k]
      <4>1. Out(outbox, {j}, m)[k] = IF k \in {j} THEN Append(outbox[k], m) ELSE outbox[k]
        BY <2>1, <3>1, Posts
      <4>2. QED
        BY <2>2, <4>1
    <3>3. Shows(toJoiner[k] \o outbox[k], view[k], roster)
      BY <2>2, <2>3 DEF LatestPosted
    <3>4. QED
      BY <2>1, <3>1, <3>2, <3>3, ShowsOther
  <2>4. QED
    BY <2>2, <2>3 DEF LatestPosted
<1>7. CASE JoinSeated(j)
  <2> DEFINE new == With(roster, FreeSlot(roster), NewPlayer(roster, j))
  <2>1. Taken(roster) # Slots
    BY <1>7 DEF JoinSeated, Refuses
  <2>2. new \in Rosters
    BY <1>1, <2>1, SlotLeft, PlayerJoins, WithRoster DEF Programs
  <2>3. /\ roster' = new /\ outbox' = Out(outbox, Everyone, Message("Roster", new)) /\ at = "pass"
        /\ UNCHANGED <<at, toJoiner, phase, broken, view>>
    BY <1>7 DEF JoinSeated, Reads, Polls
  <2>4. DOMAIN seats' = DOMAIN seats \cup {j}
    BY <1>7 DEF JoinSeated, With, Taken
  <2> HIDE DEF new
  <2>5. QED
    BY <1>1, <1>3, <2>2, <2>3, <2>4
<1>8. CASE EndRead(j)
  BY <1>2, <1>8 DEF EndRead, room
<1>9. ASSUME NEW ready \in BOOLEAN, ReadyRead(j, ready) PROVE LatestPosted'
  <2>1. CASE j \in DOMAIN seats
    <3> DEFINE new == [roster EXCEPT ![seats[j]].ready = ready]
    <3>1. seats[j] \in Taken(roster)
      BY <2>1 DEF KeepInv, Keeps, Agrees
    <3>2. new \in Rosters
      <4>1. Keeps(new, seats, installs)
        BY <3>1, Readied DEF KeepInv
      <4>2. QED
        BY <4>1 DEF Keeps
    <3>3. /\ roster' = new /\ outbox' = Out(outbox, Everyone, Message("Roster", new)) /\ at = "pass"
          /\ UNCHANGED <<at, toJoiner, phase, broken, view, seats>>
      BY <1>9, <2>1 DEF ReadyRead, Reads, Polls
    <3> HIDE DEF new
    <3>4. QED
      BY <1>1, <1>3, <3>2, <3>3
  <2>2. CASE j \notin DOMAIN seats
    BY <1>2, <1>9, <2>2 DEF ReadyRead, Reads
  <2>3. QED
    BY <2>1, <2>2
<1>10. CASE LiveHears(j)
  BY <1>10 DEF LiveHears, LatestPosted
<1>11. QED
  BY <1>4, <1>5, <1>6, <1>7, <1>8, <1>9, <1>10 DEF PeerNext, HostReads

LEMMA LatestJoiner ==
  ASSUME TypeInv, KeepInv, ConnectionsKept, LatestPosted, NEW j \in Joiners, JoinerNext(j)
  PROVE  LatestPosted'
<1>0. UNCHANGED <<at, roster, seats, outbox>>
  BY DEF JoinerNext, Connect, Ready, Leave, JoinerHears, Break, room
<1>1. DOMAIN seats \subseteq Joiners
  BY DEF KeepInv, Keeps
<1>2. CASE Connect(j)
  <2>1. /\ j \notin DOMAIN seats /\ phase' = [phase EXCEPT ![j] = "room"]
        /\ UNCHANGED <<toJoiner, broken, view>>
    BY <1>2 DEF Connect, ConnectionsKept
  <2>2. QED
    BY <1>0, <1>1, <2>1, LatestQuiet DEF TypeInv
<1>3. CASE Ready(j)
  BY <1>0, <1>3, LatestQuiet DEF Ready
<1>4. ASSUME NEW to, to # "room", phase' = [phase EXCEPT ![j] = to], UNCHANGED broken,
             \A k \in Joiners \ {j} : toJoiner'[k] = toJoiner[k] /\ view'[k] = view[k]
      PROVE  LatestPosted'
  BY <1>0, <1>1, <1>4, LatestQuiet DEF TypeInv
<1>5. ASSUME NEW to \in {"failed", "left"}, Dropped(j, to), toJoiner' = [toJoiner EXCEPT ![j] = <<>>], UNCHANGED broken
      PROVE  LatestPosted'
  BY <1>4, <1>5 DEF Dropped, TypeInv
<1>6. CASE Leave(j)
  BY <1>5, <1>6 DEF Leave
<1>7. CASE JoinerHears(j)
  <2>1. UNCHANGED broken
    BY <1>7 DEF JoinerHears
  <2>2. CASE Ends(j)
    BY <1>5, <2>1, <2>2 DEF Ends
  <2>3. CASE StartHeard(j) /\ ~Ends(j)
    <3>1. /\ phase' = [phase EXCEPT ![j] = "started"] /\ Rest(j)
          /\ view' = [view EXCEPT ![j] = Head(toJoiner[j]).roster]
      BY <2>3 DEF StartHeard
    <3>2. QED
      BY <1>4, <2>1, <3>1 DEF Rest, TypeInv
  <2>4. CASE RosterHeard(j)
    <3>1. /\ toJoiner[j] # <<>> /\ Head(toJoiner[j]).type = "Roster"
          /\ toJoiner' = [toJoiner EXCEPT ![j] = Tail(toJoiner[j])]
          /\ view' = [view EXCEPT ![j] = Head(toJoiner[j]).roster]
          /\ UNCHANGED phase
      BY <2>4 DEF RosterHeard, Hears, Rest
    <3>2. toJoiner[j] \in Seq(Messages) /\ outbox[j] \in Seq(Messages)
      BY DEF TypeInv
    <3>3. Shows(toJoiner[j] \o outbox[j], view[j], roster) =>
            Shows(Tail(toJoiner[j]) \o outbox[j], Head(toJoiner[j]).roster, roster)
      BY <3>1, <3>2, ShowsTaken
    <3>4. ASSUME NEW k \in DOMAIN seats, Shows(toJoiner[k] \o outbox[k], view[k], roster)
          PROVE  Shows(toJoiner'[k] \o outbox[k], view'[k], roster)
      <4>1. CASE k = j
        <5>1. toJoiner'[k] = Tail(toJoiner[j]) /\ view'[k] = Head(toJoiner[j]).roster
          BY <3>1, <4>1 DEF TypeInv
        <5>2. QED
          BY <3>3, <3>4, <4>1, <5>1
      <4>2. CASE k # j
        <5>1. toJoiner'[k] = toJoiner[k] /\ view'[k] = view[k]
          BY <1>1, <3>1, <4>2 DEF TypeInv
        <5>2. QED
          BY <3>4, <5>1
      <4>3. QED
        BY <4>1, <4>2
    <3>5. QED
      BY <1>0, <2>1, <3>1, <3>4, LatestQuiet
  <2>5. QED
    BY <1>7, <2>2, <2>3, <2>4 DEF JoinerHears, NoHeard
<1>8. CASE Break(j)
  BY <1>0, <1>8, LatestQuiet DEF Break
<1>9. QED
  BY <1>2, <1>3, <1>6, <1>7, <1>8 DEF JoinerNext

LEMMA LatestNext ==
  ASSUME TypeInv, KeepInv, ConnectionsKept, LatestPosted, [Next]_vars
  PROVE  LatestPosted'
<1>1. CASE UNCHANGED vars
  BY <1>1 DEF LatestPosted, vars, room, net
<1>2. QED
  BY <1>1, LatestHost, LatestPeer, LatestJoiner DEF Next

(***************************************************************************)
(* Every step keeps the one Start.                                         *)
(***************************************************************************)
LEMMA StartsAre ==
  ASSUME NEW j, NEW r
  PROVE  r \in Starts(j) <=>
           \/ \E i \in DOMAIN toJoiner[j] : toJoiner[j][i].type = "Start" /\ toJoiner[j][i].roster = r
           \/ phase[j] = "started" /\ view[j] = r
BY DEF Starts

LEMMA StartsAreNext ==
  ASSUME NEW j, NEW r
  PROVE  r \in Starts(j)' <=>
           \/ \E i \in DOMAIN toJoiner'[j] : toJoiner'[j][i].type = "Start" /\ toJoiner'[j][i].roster = r
           \/ phase'[j] = "started" /\ view'[j] = r
BY DEF Starts

\* Sending no Start makes none.
LEMMA StartsKept ==
  ASSUME NEW j, NEW out \in Seq(Messages), toJoiner[j] \in Seq(Messages), toJoiner'[j] = toJoiner[j] \o out,
         \A i \in DOMAIN out : out[i].type # "Start",
         phase'[j] = "started" => phase[j] = "started" /\ view'[j] = view[j]
  PROVE  Starts(j)' \subseteq Starts(j)
<1> SUFFICES ASSUME NEW r, r \in Starts(j)' PROVE r \in Starts(j)
  OBVIOUS
<1>1. CASE phase'[j] = "started" /\ view'[j] = r
  <2>1. phase[j] = "started" /\ view[j] = r
    BY <1>1
  <2>2. QED
    BY Zenon, <2>1, StartsAre
<1>2. ASSUME NEW i \in DOMAIN toJoiner'[j], toJoiner'[j][i].type = "Start", toJoiner'[j][i].roster = r
      PROVE  r \in Starts(j)
  <2>1. PICK q, new : q = toJoiner[j] /\ new = toJoiner'[j]
    OBVIOUS
  <2>2. q \in Seq(Messages) /\ new = q \o out /\ i \in DOMAIN new
    BY <1>2, <2>1
  <2>3. CASE i \in DOMAIN q
    <3>1. new[i] = q[i]
      BY <2>2, <2>3
    <3>2. QED
      BY <1>2, <2>1, <2>3, <3>1, StartsAre
  <2>4. CASE i \notin DOMAIN q
    <3>1. i - Len(q) \in DOMAIN out /\ new[i] = out[i - Len(q)]
      BY <2>2, <2>4
    <3>2. QED
      BY <1>2, <2>1, <3>1
  <2>5. QED
    BY <2>3, <2>4
<1>3. \/ \E i \in DOMAIN toJoiner'[j] : toJoiner'[j][i].type = "Start" /\ toJoiner'[j][i].roster = r
      \/ phase'[j] = "started" /\ view'[j] = r
  BY Zenon, StartsAreNext
<1>4. QED
  BY Zenon, <1>1, <1>2, <1>3

LEMMA StartsFewer ==
  ASSUME OneStart, at = "over" => at' = "over",
         started' = started \/ (started' = Nobody /\ at' = "over"),
         \A j \in Joiners : Starts(j)' \subseteq Starts(j),
         \A j \in Joiners : \A i \in DOMAIN outbox'[j] : outbox'[j][i].type # "Start",
         \A j \in Joiners : phase'[j] = "started" => PlayerNamed(view'[j], NameOf[j]) # {}
  PROVE  OneStart'
<1>1. \A j \in Joiners : \A r \in Starts(j)' :
        /\ HostSeated(r)
        /\ started' = Nobody => at' = "over"
        /\ started' # Nobody => r = started'
        /\ \A k \in Joiners : \A q \in Starts(k)' : q = r
  BY DEF OneStart
<1>2. QED
  BY <1>1 DEF OneStart

LEMMA OneStartInit == Init => OneStart
BY StartsAre, NothingTyped DEF Init, OneStart, Nothing

LEMMA OutKeeps ==
  ASSUME TypeInv, NEW to, NEW m \in Messages, m.type # "Start",
         \A j \in Joiners : \A i \in DOMAIN outbox[j] : outbox[j][i].type # "Start"
  PROVE  \A j \in Joiners : \A i \in DOMAIN Out(outbox, to, m)[j] : Out(outbox, to, m)[j][i].type # "Start"
<1> SUFFICES ASSUME NEW j \in Joiners, NEW i \in DOMAIN Out(outbox, to, m)[j]
             PROVE  Out(outbox, to, m)[j][i].type # "Start"
  OBVIOUS
<1>1. PICK q : q = outbox[j]
  OBVIOUS
<1>2. q \in Seq(Messages) /\ \A k \in DOMAIN q : q[k].type # "Start"
  BY <1>1 DEF TypeInv
<1>3. Out(outbox, to, m)[j] = Append(q, m) \/ Out(outbox, to, m)[j] = q
  <2>1. Out(outbox, to, m)[j] = IF j \in to THEN Append(outbox[j], m) ELSE outbox[j]
    BY Posts
  <2>2. QED
    BY <1>1, <2>1
<1>4. \A k \in DOMAIN Append(q, m) : Append(q, m)[k] = m \/ (k \in DOMAIN q /\ Append(q, m)[k] = q[k])
  BY <1>2
<1>5. QED
  BY <1>2, <1>3, <1>4

\* A pass that sends no Start.
LEMMA FlushKeepsStarts ==
  ASSUME TypeInv, NEW out \in [Joiners -> Seq(Messages)], Flush(out), UNCHANGED <<phase, view>>,
         \A j \in Joiners : \A i \in DOMAIN out[j] : out[j][i].type # "Start"
  PROVE  \A j \in Joiners : Starts(j)' \subseteq Starts(j)
<1> SUFFICES ASSUME NEW j \in Joiners PROVE Starts(j)' \subseteq Starts(j)
  OBVIOUS
<1>1. toJoiner[j] \in Seq(Messages) /\ out[j] \in Seq(Messages)
  BY DEF TypeInv
<1>2. toJoiner'[j] = IF Reaches(j) THEN toJoiner[j] \o out[j] ELSE toJoiner[j]
  BY DEF Flush
<1>3. CASE Reaches(j)
  BY <1>1, <1>2, <1>3, StartsKept
<1>4. CASE ~Reaches(j)
  BY <1>2, <1>4, StartsAre, StartsAreNext
<1>5. QED
  BY <1>3, <1>4

LEMMA HostOneStart ==
  ASSUME TypeInv, KeepInv, OneStart, HostNext
  PROVE  OneStart'
<1>1. roster \in Rosters /\ (at # "over" => HostSeated(roster))
  BY DEF KeepInv, Keeps, HostStays
<1>2. /\ \A j \in Joiners : \A i \in DOMAIN outbox[j] : outbox[j][i].type # "Start"
      /\ \A j \in Joiners : phase[j] = "started" => PlayerNamed(view[j], NameOf[j]) # {}
  BY DEF OneStart
<1>3. \A j \in Joiners : \A i \in DOMAIN Nothing[j] : Nothing[j][i].type # "Start"
  BY NothingTyped
<1>4. CASE PressStart \/ PressLeave \/ PressRealm \/ BeginPass
  <2>1. UNCHANGED <<toJoiner, phase, view, started, outbox>> /\ (at = "over" => at' = "over")
    BY <1>4 DEF PressStart, PressLeave, PressRealm, Press, BeginPass, room, net
  <2>2. \A j \in Joiners : Starts(j)' \subseteq Starts(j)
    BY <2>1, StartsAre, StartsAreNext
  <2>3. QED
    BY <1>2, <2>1, <2>2, StartsFewer
<1>5. CASE ServeStart
  <2> DEFINE m == Message("Start", roster)
             out == Out(outbox, Everyone, m)
  <2>1. m \in Messages /\ m.roster = roster
    BY <1>1, RosterMessage DEF Types, Message
  <2>2. /\ started = Nobody /\ at = "pass" /\ at' = at /\ started' = roster /\ Flush(out)
        /\ outbox' = Nothing /\ UNCHANGED <<phase, view>>
    BY <1>5 DEF ServeStart, Serve, MayServe
  <2>3. \A j \in Joiners : Starts(j) = {}
    BY <2>2 DEF OneStart
  <2> HIDE DEF m
  <2>4. ASSUME NEW j \in Joiners, NEW r, r \in Starts(j)' PROVE r = roster
    <3>1. phase'[j] # "started"
      BY <2>2, <2>3, StartsAre
    <3>2. PICK i \in DOMAIN toJoiner'[j] : toJoiner'[j][i].type = "Start" /\ toJoiner'[j][i].roster = r
      BY <2>4, <3>1, StartsAreNext
    <3>3. PICK q, o, new : q = toJoiner[j] /\ o = outbox[j] /\ new = toJoiner'[j]
      OBVIOUS
    <3>4. q \in Seq(Messages) /\ o \in Seq(Messages)
      BY <3>3 DEF TypeInv
    <3>5. /\ \A k \in DOMAIN q : q[k].type # "Start"
          /\ \A k \in DOMAIN o : o[k].type # "Start"
      BY <1>2, <2>3, <3>3, StartsAre
    <3>6. out[j] = Append(o, m)
      BY <2>1, <3>3, Posts DEF Everyone
    <3> HIDE DEF out
    <3>7. new = q \o Append(o, m) \/ new = q
      BY <2>2, <3>3, <3>6 DEF Flush
    <3>8. CASE new = q
      BY <3>2, <3>3, <3>5, <3>8
    <3>9. CASE new = q \o Append(o, m)
      <4>1. i \in DOMAIN q \/ (i - Len(q) \in DOMAIN o /\ new[i] = o[i - Len(q)]) \/ new[i] = m
        <5>1. PICK k, p : k = i /\ p = m
          OBVIOUS
        <5>2. p \in Messages /\ k \in DOMAIN (q \o Append(o, p)) /\ new = q \o Append(o, p)
          BY <2>1, <3>2, <3>3, <3>9, <5>1
        <5>3. k \in DOMAIN q \/ (k - Len(q) \in DOMAIN o /\ (q \o Append(o, p))[k] = o[k - Len(q)])
                \/ (q \o Append(o, p))[k] = p
          BY <3>4, <5>2
        <5>4. QED
          BY <5>1, <5>2, <5>3
      <4>2. i \in DOMAIN q => new[i] = q[i]
        BY <2>1, <3>2, <3>3, <3>4, <3>9
      <4>3. new[i] = m
        BY <3>2, <3>3, <3>5, <4>1, <4>2
      <4>4. QED
        BY <2>1, <3>2, <3>3, <4>3
    <3>10. QED
      BY <3>7, <3>8, <3>9
  <2>5. started' # Nobody
    BY <1>1, <2>2, RosterParts, NobodyAssumption
  <2>6. \A j \in Joiners : \A r \in Starts(j)' :
          /\ HostSeated(r)
          /\ started' = Nobody => at' = "over"
          /\ started' # Nobody => r = started'
          /\ \A k \in Joiners : \A q \in Starts(k)' : q = r
    BY <1>1, <2>2, <2>4, <2>5
  <2>7. QED
    BY <1>2, <1>3, <2>2, <2>6 DEF OneStart
<1>6. CASE ServeAssign
  <2> DEFINE new == Assigned(roster, Head(asked).slot, Head(asked).realm)
             m == Message("Roster", new)
             out == Out(outbox, Everyone, m)
  <2>1. Head(asked).realm \in Realms \cup {0}
    BY <1>6 DEF ServeAssign, Serve, MayServe
  <2>2. new \in Rosters
    BY <2>1, AssignKeeps DEF KeepInv, Keeps
  <2>3. /\ Flush(out) /\ outbox' = Nothing /\ at = "pass" /\ UNCHANGED <<started, phase, view>>
    BY <1>6 DEF ServeAssign, Serve
  <2> HIDE DEF new
  <2>4. m \in Messages /\ m.type # "Start"
    BY <2>2, RosterMessage DEF Types, Message
  <2> HIDE DEF m
  <2>5. out \in [Joiners -> Seq(Messages)] /\ \A j \in Joiners : \A i \in DOMAIN out[j] : out[j][i].type # "Start"
    BY <1>2, <2>4, OutMessages, OutKeeps DEF TypeInv
  <2> HIDE DEF out
  <2>6. \A j \in Joiners : Starts(j)' \subseteq Starts(j)
    BY <2>3, <2>5, FlushKeepsStarts
  <2>7. QED
    BY <1>2, <1>3, <2>3, <2>6, StartsFewer
<1>7. CASE ServeFails
  <2> DEFINE m == Message("End", <<>>)
  <2>1. CloseRoom /\ outbox' = Nothing /\ started' = Nobody /\ at' = "over" /\ UNCHANGED <<phase, view>>
    BY <1>7 DEF ServeFails, CloseRoom
  <2>2. m \in Messages /\ m.type # "Start"
    BY EndMessage DEF Message
  <2> HIDE DEF m
  <2>3. ASSUME NEW j \in Joiners, NEW r, r \in Starts(j)' PROVE r \in Starts(j)
    <3>1. CASE phase'[j] = "started" /\ view'[j] = r
      BY <2>1, <3>1, StartsAre
    <3>2. ASSUME NEW i \in DOMAIN toJoiner'[j], toJoiner'[j][i].type = "Start", toJoiner'[j][i].roster = r
          PROVE  r \in Starts(j)
      <4>1. \/ toJoiner'[j] = toJoiner[j]
            \/ \E q \in Seq(Messages) :
                 /\ toJoiner'[j] = Append(q, m)
                 /\ \A k \in DOMAIN q : k \in DOMAIN toJoiner[j] /\ q[k] = toJoiner[j][k]
        BY <2>1, RoomClosed DEF m
      <4>2. CASE toJoiner'[j] = toJoiner[j]
        BY <3>2, <4>2, StartsAre
      <4>3. ASSUME NEW q \in Seq(Messages), toJoiner'[j] = Append(q, m),
                   \A k \in DOMAIN q : k \in DOMAIN toJoiner[j] /\ q[k] = toJoiner[j][k]
            PROVE  r \in Starts(j)
        <5>1. PICK new, k : new = toJoiner'[j] /\ k = i
          OBVIOUS
        <5>2. new = Append(q, m) /\ k \in DOMAIN new /\ new[k].type = "Start" /\ new[k].roster = r
          BY <3>2, <4>3, <5>1
        <5>3. k \in DOMAIN q /\ new[k] = q[k]
          BY <2>2, <5>2
        <5>4. k \in DOMAIN toJoiner[j] /\ toJoiner[j][k].type = "Start" /\ toJoiner[j][k].roster = r
          BY <4>3, <5>2, <5>3
        <5>5. QED
          BY <5>4, StartsAre
      <4>4. QED
        BY <4>1, <4>2, <4>3
    <3>3. \/ \E i \in DOMAIN toJoiner'[j] : toJoiner'[j][i].type = "Start" /\ toJoiner'[j][i].roster = r
          \/ phase'[j] = "started" /\ view'[j] = r
      BY <2>3, StartsAreNext
    <3>4. QED
      BY Zenon, <3>1, <3>2, <3>3
  <2>4. QED
    BY <1>2, <1>3, <2>1, <2>3, StartsFewer
<1>8. CASE PassEnds
  <2> DEFINE left == gone \cap DOMAIN seats
  <2>1. PICK order \in InSomeOrder(left) : Flush([j \in Joiners |-> outbox[j] \o Departures(order)])
    BY <1>8 DEF PassEnds
  <2> DEFINE out == [j \in Joiners |-> outbox[j] \o Departures(order)]
  <2>2. DOMAIN order = 1 .. Cardinality(left) /\ Cardinality(left) \in Nat
    BY <2>1, AllDepart
  <2>3. Departures(order) \in Seq(Messages)
    BY <1>1, <2>2, DeparturesTyped
  <2>4. \A i \in DOMAIN Departures(order) : Departures(order)[i].type # "Start"
    BY DEF Departures, Message
  <2>5. out \in [Joiners -> Seq(Messages)] /\ Flush(out)
    BY <2>1, <2>3 DEF TypeInv
  <2>6. ASSUME NEW j \in Joiners, NEW i \in DOMAIN out[j] PROVE out[j][i].type # "Start"
    <3>1. PICK o, d : o = outbox[j] /\ d = Departures(order)
      OBVIOUS
    <3>2. out[j] = o \o d
      BY <3>1
    <3>3. o \in Seq(Messages) /\ d \in Seq(Messages)
      BY <2>3, <3>1 DEF TypeInv
    <3>4. (i \in DOMAIN o /\ out[j][i] = o[i]) \/ (i - Len(o) \in DOMAIN d /\ out[j][i] = d[i - Len(o)])
      <4> HIDE DEF out
      <4>1. QED
        BY <3>2, <3>3
    <3>5. QED
      BY <1>2, <2>4, <3>1, <3>4
  <2>7. UNCHANGED <<phase, view, started>> /\ outbox' = Nothing /\ at = "pass"
    BY <1>8 DEF PassEnds, Polls
  <2> HIDE DEF out
  <2>8. \A j \in Joiners : Starts(j)' \subseteq Starts(j)
    BY <2>5, <2>6, <2>7, FlushKeepsStarts
  <2>9. QED
    BY <1>2, <1>3, <2>7, <2>8, StartsFewer
<1>9. QED
  BY <1>4, <1>5, <1>6, <1>7, <1>8 DEF HostNext

LEMMA PeerOneStart ==
  ASSUME TypeInv, KeepInv, OneStart, NEW j \in Joiners, PeerNext(j)
  PROVE  OneStart'
<1>1. roster \in Rosters
  BY DEF KeepInv, Keeps
<1>2. /\ \A k \in Joiners : \A i \in DOMAIN outbox[k] : outbox[k][i].type # "Start"
      /\ \A k \in Joiners : phase[k] = "started" => PlayerNamed(view[k], NameOf[k]) # {}
  BY DEF OneStart
<1>3. ASSUME UNCHANGED <<at, started, toJoiner, phase, view>>,
             \A k \in Joiners : \A i \in DOMAIN outbox'[k] : outbox'[k][i].type # "Start"
      PROVE  OneStart'
  <2>1. \A k \in Joiners : Starts(k)' \subseteq Starts(k)
    BY <1>3, StartsAre, StartsAreNext
  <2>2. QED
    BY <1>2, <1>3, <2>1, StartsFewer
<1>4. CASE Accept(j) \/ EndRead(j)
  BY <1>2, <1>3, <1>4 DEF Accept, EndRead, room
<1>5. CASE JoinLost(j)
  BY <1>2, <1>3, <1>5 DEF JoinLost, Reads
<1>6. ASSUME NEW to, NEW m \in Messages, m.type # "Start", outbox' = Out(outbox, to, m),
             UNCHANGED <<at, started, toJoiner, phase, view>>
      PROVE  OneStart'
  <2>1. \A k \in Joiners : \A i \in DOMAIN outbox'[k] : outbox'[k][i].type # "Start"
    BY <1>2, <1>6, OutKeeps
  <2>2. QED
    BY <1>3, <1>6, <2>1
<1>7. ASSUME NEW r \in Rosters, outbox' = Out(outbox, Everyone, Message("Roster", r)),
             UNCHANGED <<at, started, toJoiner, phase, view>>
      PROVE  OneStart'
  <2>1. Message("Roster", r) \in Messages /\ Message("Roster", r).type # "Start"
    BY RosterMessage DEF Types, Message
  <2>2. QED
    BY <1>6, <1>7, <2>1
<1>8. CASE JoinRefused(j)
  <2>1. Message("Refused", <<>>) \in Messages /\ Message("Refused", <<>>).type # "Start"
    BY EndMessage DEF Message
  <2>2. QED
    BY <1>6, <1>8, <2>1 DEF JoinRefused, Reads
<1>9. CASE JoinSeated(j)
  <2> DEFINE new == With(roster, FreeSlot(roster), NewPlayer(roster, j))
  <2>1. Taken(roster) # Slots
    BY <1>9 DEF JoinSeated, Refuses
  <2>2. new \in Rosters
    BY <1>1, <2>1, SlotLeft, PlayerJoins, WithRoster DEF Programs
  <2>3. outbox' = Out(outbox, Everyone, Message("Roster", new)) /\ UNCHANGED <<at, started, toJoiner, phase, view>>
    BY <1>9 DEF JoinSeated, Reads
  <2> HIDE DEF new
  <2>4. QED
    BY <1>7, <2>2, <2>3
<1>10. ASSUME NEW ready \in BOOLEAN, ReadyRead(j, ready) PROVE OneStart'
  <2>1. CASE j \in DOMAIN seats
    <3> DEFINE new == [roster EXCEPT ![seats[j]].ready = ready]
    <3>1. seats[j] \in Taken(roster)
      BY <2>1 DEF KeepInv, Keeps, Agrees
    <3>2. new \in Rosters
      <4>1. Keeps(new, seats, installs)
        BY <3>1, Readied DEF KeepInv
      <4>2. QED
        BY <4>1 DEF Keeps
    <3>3. outbox' = Out(outbox, Everyone, Message("Roster", new)) /\ UNCHANGED <<at, started, toJoiner, phase, view>>
      BY <1>10, <2>1 DEF ReadyRead, Reads
    <3> HIDE DEF new
    <3>4. QED
      BY <1>7, <3>2, <3>3
  <2>2. CASE j \notin DOMAIN seats
    BY <1>2, <1>3, <1>10, <2>2 DEF ReadyRead, Reads
  <2>3. QED
    BY <2>1, <2>2
<1>11. CASE LiveHears(j)
  <2> DEFINE bye == <<Message("NoSeat", <<>>), Message("End", <<>>)>>
  <2>1. bye \in Seq(Messages) /\ \A i \in DOMAIN bye : bye[i].type # "Start"
    BY EndMessage DEF Message
  <2>2. /\ toJoiner' = [toJoiner EXCEPT ![j] = @ \o bye] \/ toJoiner' = toJoiner
        /\ UNCHANGED <<at, started, outbox, phase, view>>
    BY <1>11 DEF LiveHears, room
  <2> HIDE DEF bye
  <2>3. ASSUME NEW k \in Joiners PROVE Starts(k)' \subseteq Starts(k)
    <3>1. toJoiner[k] \in Seq(Messages)
      BY DEF TypeInv
    <3>2. toJoiner'[k] = toJoiner[k] \o bye \/ toJoiner'[k] = toJoiner[k]
      BY <2>2 DEF TypeInv
    <3>3. CASE toJoiner'[k] = toJoiner[k] \o bye
      BY <2>1, <2>2, <3>1, <3>3, StartsKept
    <3>4. CASE toJoiner'[k] = toJoiner[k]
      BY <2>2, <3>4, StartsAre, StartsAreNext
    <3>5. QED
      BY <3>2, <3>3, <3>4
  <2>4. QED
    BY <1>2, <2>2, <2>3, StartsFewer
<1>12. QED
  BY <1>4, <1>5, <1>8, <1>9, <1>10, <1>11 DEF PeerNext, HostReads

LEMMA JoinerOneStart ==
  ASSUME TypeInv, KeepInv, OneStart, NEW j \in Joiners, JoinerNext(j)
  PROVE  OneStart'
<1>1. UNCHANGED <<at, started, outbox>>
  BY DEF JoinerNext, Connect, Ready, Leave, JoinerHears, Break, room
<1>2. /\ \A k \in Joiners : \A i \in DOMAIN outbox[k] : outbox[k][i].type # "Start"
      /\ \A k \in Joiners : phase[k] = "started" => PlayerNamed(view[k], NameOf[k]) # {}
  BY DEF OneStart
<1>3. ASSUME Starts(j)' \subseteq Starts(j),
             phase'[j] = "started" => PlayerNamed(view'[j], NameOf[j]) # {},
             \A k \in Joiners \ {j} : toJoiner'[k] = toJoiner[k] /\ view'[k] = view[k] /\ phase'[k] = phase[k]
      PROVE  OneStart'
  <2>1. ASSUME NEW k \in Joiners PROVE Starts(k)' \subseteq Starts(k)
    <3>1. CASE k = j
      BY <1>3, <3>1
    <3>2. CASE k # j
      BY <1>3, <3>2, StartsAre, StartsAreNext
    <3>3. QED
      BY <3>1, <3>2
  <2>2. \A k \in Joiners : phase'[k] = "started" => PlayerNamed(view'[k], NameOf[k]) # {}
    BY <1>2, <1>3
  <2>3. QED
    BY <1>1, <1>2, <2>1, <2>2, StartsFewer
<1>4. ASSUME UNCHANGED <<toJoiner, view>>, phase' = phase \/ phase' = [phase EXCEPT ![j] = "room"] PROVE OneStart'
  <2>1. \A k \in Joiners : phase'[k] = "started" => phase[k] = "started"
    BY <1>4 DEF TypeInv
  <2>2. \A k \in Joiners : Starts(k)' \subseteq Starts(k)
    BY <1>4, <2>1, StartsAre, StartsAreNext
  <2>3. QED
    BY <1>1, <1>2, <1>4, <2>1, <2>2, StartsFewer
<1>5. CASE Connect(j) \/ Ready(j) \/ Break(j)
  BY <1>4, <1>5 DEF Connect, Ready, Break
<1>6. ASSUME NEW to \in {"failed", "left"}, Dropped(j, to), toJoiner' = [toJoiner EXCEPT ![j] = <<>>]
      PROVE  OneStart'
  <2>1. /\ toJoiner'[j] = <<>> /\ phase'[j] # "started"
        /\ \A k \in Joiners \ {j} : toJoiner'[k] = toJoiner[k] /\ view'[k] = view[k] /\ phase'[k] = phase[k]
    BY <1>6 DEF Dropped, TypeInv
  <2>2. Starts(j)' \subseteq Starts(j)
    BY <2>1, StartsAreNext
  <2>3. QED
    BY <1>3, <2>1, <2>2
<1>7. CASE Leave(j) \/ Ends(j)
  BY <1>6, <1>7 DEF Leave, Ends
<1>8. ASSUME toJoiner[j] # <<>>, Rest(j), view' = [view EXCEPT ![j] = Head(toJoiner[j]).roster],
             \/ phase' = phase /\ phase[j] = "room"
             \/ /\ phase' = [phase EXCEPT ![j] = "started"] /\ Head(toJoiner[j]).type = "Start"
                /\ PlayerNamed(view'[j], NameOf[j]) # {}
      PROVE  OneStart'
  <2>1. PICK q : q = toJoiner[j]
    OBVIOUS
  <2>2. q \in Seq(Messages) /\ q # <<>>
    BY <1>8, <2>1 DEF TypeInv
  <2>3. /\ toJoiner'[j] = Tail(q) /\ view'[j] = Head(q).roster
        /\ \A k \in Joiners \ {j} : toJoiner'[k] = toJoiner[k] /\ view'[k] = view[k] /\ phase'[k] = phase[k]
    BY <1>8, <2>1 DEF Rest, TypeInv
  <2>4. /\ \A i \in DOMAIN Tail(q) : i + 1 \in DOMAIN q /\ Tail(q)[i] = q[i + 1]
        /\ 1 \in DOMAIN q /\ Head(q) = q[1]
    BY <2>2
  <2>5. phase'[j] = "started" => Head(q).type = "Start" /\ PlayerNamed(view'[j], NameOf[j]) # {}
    BY <1>8, <2>1
  <2>6. ASSUME NEW r, r \in Starts(j)' PROVE r \in Starts(j)
    <3>1. CASE phase'[j] = "started" /\ view'[j] = r
      BY <2>1, <2>3, <2>4, <2>5, <3>1, StartsAre
    <3>2. ASSUME NEW i \in DOMAIN toJoiner'[j], toJoiner'[j][i].type = "Start", toJoiner'[j][i].roster = r
          PROVE  r \in Starts(j)
      BY <2>1, <2>3, <2>4, <3>2, StartsAre
    <3>3. \/ \E i \in DOMAIN toJoiner'[j] : toJoiner'[j][i].type = "Start" /\ toJoiner'[j][i].roster = r
          \/ phase'[j] = "started" /\ view'[j] = r
      BY <2>6 DEF Starts
    <3>4. QED
      BY Zenon, <3>1, <3>2, <3>3
  <2>7. QED
    BY <1>3, <2>3, <2>5, <2>6
<1>9. CASE JoinerHears(j) /\ ~Ends(j)
  <2>1. CASE RosterHeard(j)
    BY <1>8, <2>1 DEF RosterHeard, Hears
  <2>2. CASE StartHeard(j)
    <3>1. /\ toJoiner[j] # <<>> /\ Head(toJoiner[j]).type = "Start" /\ Rest(j)
          /\ phase' = [phase EXCEPT ![j] = "started"] /\ view' = [view EXCEPT ![j] = Head(toJoiner[j]).roster]
          /\ Me(Head(toJoiner[j]).roster, j) # Nobody
      BY <1>9, <2>2 DEF StartHeard, Hears
    <3>2. PlayerNamed(view'[j], NameOf[j]) # {}
      BY <3>1 DEF Me, TypeInv
    <3>3. QED
      BY <1>8, <3>1, <3>2
  <2>3. QED
    BY <1>9, <2>1, <2>2 DEF JoinerHears, NoHeard
<1>10. QED
  BY <1>5, <1>7, <1>9 DEF JoinerNext

LEMMA OneStartNext ==
  ASSUME TypeInv, KeepInv, OneStart, [Next]_vars
  PROVE  OneStart'
<1>1. CASE UNCHANGED vars
  <2>1. UNCHANGED <<at, started, outbox, toJoiner, view, phase>>
    BY <1>1 DEF vars, room, net
  <2>2. \A j \in Joiners : Starts(j)' \subseteq Starts(j)
    BY <2>1, StartsAre, StartsAreNext
  <2>3. /\ \A j \in Joiners : \A i \in DOMAIN outbox[j] : outbox[j][i].type # "Start"
        /\ \A j \in Joiners : phase[j] = "started" => PlayerNamed(view[j], NameOf[j]) # {}
    BY DEF OneStart
  <2>4. QED
    BY <2>1, <2>2, <2>3, StartsFewer
<1>2. QED
  BY <1>1, HostOneStart, PeerOneStart, JoinerOneStart DEF Next

(***************************************************************************)
(* Every step keeps names apart.                                           *)
(***************************************************************************)
LEMMA NamesInit == Init => NamesKept
<1> SUFFICES ASSUME Init PROVE NamesKept
  OBVIOUS
<1>1. Taken(roster) = {HostSlot}
  BY RosterParts DEF Init, With, Taken
<1>2. QED
  BY <1>1 DEF Init, NamesKept, NamesApart

\* A roster that names the same players as before, or fewer.
LEMMA NamesFewer ==
  ASSUME NEW r, NEW q, NamesApart(r), Taken(q) \subseteq Taken(r), \A s \in Taken(q) : q[s].name = r[s].name
  PROVE  NamesApart(q)
BY DEF NamesApart

\* Nobody is seated once there is a Start, and those who leave it are in it still.
LEMMA StartKeepsNames ==
  ASSUME NamesKept, started' = started, DOMAIN seats' \subseteq DOMAIN seats,
         \A j \in DOMAIN seats' : seats'[j] = seats[j]
  PROVE  started' # Nobody => NamesApart(started') /\ SeatedUnder(started)'
BY DEF NamesKept, SeatedUnder

LEMMA NamesNext ==
  ASSUME TypeInv, KeepInv, NamesKept, [Next]_vars
  PROVE  NamesKept'
<1>1. /\ Keeps(roster, seats, installs) /\ NamesApart(roster) /\ DOMAIN roster = Taken(roster)
      /\ roster \in Rosters /\ \A j \in DOMAIN seats : seats[j] \in Taken(roster) /\ roster[seats[j]].name = NameOf[j]
  BY DEF KeepInv, Keeps, Agrees, NamesKept, Taken
<1>2. ASSUME NamesApart(roster'), started' = started, at' = "over" => at = "over",
             DOMAIN seats' \subseteq DOMAIN seats, \A j \in DOMAIN seats' : seats'[j] = seats[j]
      PROVE  NamesKept'
  <2>1. NamesApart(roster)' /\ (started # Nobody => NamesApart(started) /\ SeatedUnder(started))'
    BY <1>2, StartKeepsNames DEF NamesApart
  <2>2. (at = "over" => DOMAIN seats = {})'
    BY <1>2 DEF NamesKept
  <2>3. QED
    BY <2>1, <2>2 DEF NamesKept
<1>3. CASE ServeStart
  <2>1. started' = roster /\ UNCHANGED <<at, roster, seats>> /\ at = "pass"
    BY <1>3 DEF ServeStart, Serve
  <2>2. NamesApart(roster)' /\ NamesApart(started)' /\ SeatedUnder(started)'
    BY <1>1, <2>1 DEF NamesApart, SeatedUnder
  <2>3. QED
    BY <2>1, <2>2 DEF NamesKept
<1>4. CASE ServeAssign
  <2> DEFINE new == Assigned(roster, Head(asked).slot, Head(asked).realm)
  <2>1. roster' = new /\ UNCHANGED <<seats, at, started>>
    BY <1>4 DEF ServeAssign, Serve
  <2>2. Taken(new) = Taken(roster) /\ \A s \in Taken(roster) : new[s].name = roster[s].name
    <3>1. roster \in [Taken(roster) -> Player]
      BY <1>1, RosterParts
    <3>2. \A k : \A p \in Player : [p EXCEPT !.realm = k].name = p.name
      BY DEF Player
    <3>3. QED
      BY <3>1, <3>2 DEF Assigned, Taken
  <2> HIDE DEF new
  <2>3. NamesApart(roster')
    BY <1>1, <2>1, <2>2, NamesFewer
  <2>4. QED
    BY <1>2, <2>1, <2>3
<1>5. CASE ServeFails
  <2>1. roster' = <<>> /\ seats' = <<>> /\ started' = Nobody
    BY <1>5 DEF ServeFails, CloseRoom
  <2>2. Taken(<<>>) = {} /\ DOMAIN seats' = {}
    BY <2>1, RosterParts DEF Taken
  <2>3. QED
    BY <2>1, <2>2 DEF NamesKept, NamesApart
<1>6. CASE PassEnds
  <2> DEFINE left == gone \cap DOMAIN seats
             slots == {seats[j] : j \in left}
  <2>1. /\ roster' = Without(roster, slots) /\ seats' = Without(seats, left)
        /\ started' = started /\ at' # "over"
    BY <1>6 DEF PassEnds, Departed
  <2>2. NamesApart(roster')
    BY <1>1, <2>1, NamesFewer, WithoutRoster
  <2>3. DOMAIN seats' \subseteq DOMAIN seats /\ \A j \in DOMAIN seats' : seats'[j] = seats[j]
    BY <2>1 DEF Without
  <2>4. QED
    BY <1>2, <2>1, <2>2, <2>3
<1>7. ASSUME NEW j \in Joiners, JoinSeated(j) PROVE NamesKept'
  <2> DEFINE slot == FreeSlot(roster)
             player == NewPlayer(roster, j)
             new == With(roster, slot, player)
  <2>1. roster' = new /\ started' = Nobody /\ at = "pass" /\ at' = at
    BY <1>7 DEF JoinSeated, Reads, Polls
  <2>2. Taken(roster) # Slots /\ \A s \in Taken(roster) : roster[s].name # NameOf[j]
    BY <1>7 DEF JoinSeated, Refuses, PlayerNamed
  <2>3. slot \in Slots /\ player \in Player /\ player.name = NameOf[j]
    BY <1>1, <2>2, SlotLeft, PlayerJoins DEF Programs, NewPlayer
  <2> HIDE DEF slot, player
  <2>4. /\ Taken(new) = Taken(roster) \cup {slot}
        /\ \A s \in Taken(new) : new[s] = IF s = slot THEN player ELSE roster[s]
    BY <1>1, <2>3, WithRoster
  <2> HIDE DEF new
  <2>5. NamesApart(new)
    BY <1>1, <2>2, <2>3, <2>4 DEF NamesApart
  <2>6. QED
    BY <2>1, <2>5 DEF NamesKept, NamesApart
<1>8. ASSUME NEW j \in Joiners, j \in DOMAIN seats, NEW ready \in BOOLEAN, ReadyRead(j, ready) PROVE NamesKept'
  <2> DEFINE new == [roster EXCEPT ![seats[j]].ready = ready]
  <2>1. roster' = new /\ UNCHANGED <<seats, at, started>>
    BY <1>8 DEF ReadyRead, Reads
  <2>2. Taken(new) = Taken(roster) /\ \A s \in Taken(roster) : new[s].name = roster[s].name
    <3>1. roster \in [Taken(roster) -> Player]
      BY <1>1, RosterParts
    <3>2. \A p \in Player : [p EXCEPT !.ready = ready].name = p.name
      BY DEF Player
    <3>3. QED
      BY <3>1, <3>2 DEF Taken
  <2> HIDE DEF new
  <2>3. NamesApart(roster')
    BY <1>1, <2>1, <2>2, NamesFewer
  <2>4. QED
    BY <1>2, <2>1, <2>3
<1>9. CASE ~Moves /\ ~ServeStart
  <2>1. UNCHANGED <<roster, seats>>
    BY <1>9, OthersMoveNobody
  <2>2. UNCHANGED started /\ (at' = "over" => at = "over")
    <3>1. CASE UNCHANGED vars
      BY <3>1 DEF vars, room
    <3>2. CASE HostNext
      BY <1>9, <3>2 DEF HostNext, Moves, PressStart, PressLeave, PressRealm, Press, BeginPass, room
    <3>3. ASSUME NEW j \in Joiners, PeerNext(j) PROVE UNCHANGED <<at, started>>
      BY <3>3 DEF PeerNext, Accept, HostReads, JoinLost, JoinRefused, JoinSeated, EndRead, ReadyRead, Reads, LiveHears, room
    <3>4. ASSUME NEW j \in Joiners, JoinerNext(j) PROVE UNCHANGED <<at, started>>
      BY <3>4 DEF JoinerNext, Connect, Ready, Leave, JoinerHears, Break, room
    <3>5. QED
      BY <3>1, <3>2, <3>3, <3>4 DEF Next
  <2>3. NamesApart(roster')
    BY <1>1, <2>1
  <2>4. QED
    BY <1>2, <2>1, <2>2, <2>3
<1>10. QED
  BY <1>3, <1>4, <1>5, <1>6, <1>7, <1>8, <1>9 DEF Moves

(***************************************************************************)
(* The theorems.                                                           *)
(***************************************************************************)
LobbyInv == TypeInv /\ KeepInv /\ NamesKept /\ ConnectionsKept /\ LatestPosted /\ OneStart

\* The room's bookkeeping, in every state of every lobby: RoomInv, and the types it needs.
THEOREM LobbyKept == Spec => []LobbyInv
<1>1. Init => LobbyInv
  BY InitTyped, NamesInit, ConnectionsInit, LatestInit, OneStartInit DEF LobbyInv
<1>2. LobbyInv /\ [Next]_vars => LobbyInv'
  BY TypeNext, KeepNext, NamesNext, ConnectionsNext, LatestNext, OneStartNext DEF LobbyInv
<1>3. QED
  BY <1>1, <1>2, PTL DEF Spec

LEMMA LobbyTypes == LobbyInv => TypeOK
<1> SUFFICES ASSUME LobbyInv PROVE TypeOK
  OBVIOUS
<1>1. TypeInv /\ roster \in Rosters /\ DOMAIN seats \subseteq Joiners /\ DOMAIN installs \subseteq Slots
  BY DEF LobbyInv, KeepInv, Keeps
<1>2. \A i \in DOMAIN asked : asked[i].kind \in {"Start", "Assign", "Leave"}
  <2>1. \A i \in DOMAIN asked : asked[i] \in Requests
    BY <1>1 DEF TypeInv
  <2>2. QED
    BY <2>1 DEF Requests
<1>3. \A p \in Programs : presses[p] \in 0 .. MaxPresses[p]
  BY <1>1, LobbyAssumption DEF TypeInv
<1>4. \A j \in Joiners : \A i \in DOMAIN toHost[j] : toHost[j][i] \in {"Join", "Ready", "NotReady", "End"}
  BY <1>1 DEF TypeInv, Words
<1>5. \A j \in Joiners : \A i \in DOMAIN toJoiner[j] : toJoiner[j][i].roster \in Rosters
  <2>1. \A j \in Joiners : \A i \in DOMAIN toJoiner[j] : toJoiner[j][i] \in Messages
    BY <1>1 DEF TypeInv
  <2>2. QED
    BY <2>1 DEF Messages
<1>6. QED
  BY <1>1, <1>2, <1>3, <1>4, <1>5, RosterParts DEF TypeInv, TypeOK

\* RoomAgrees: the roster, the seats and the installs of the host are about the same
\* slots, no shield and no realm is held twice, and between two passes every seat's
\* connection is open, however joins, refusals, assignments and departures come.
THEOREM LobbyRoomAgrees == Spec => []RoomAgrees
<1>1. LobbyInv => RoomAgrees
  <2> SUFFICES ASSUME LobbyInv PROVE RoomAgrees
    OBVIOUS
  <2>1. Agrees(roster, seats, installs)
    BY DEF LobbyInv, KeepInv, Keeps
  <2>2. at = "ui" => DOMAIN seats \subseteq conns
    BY DEF LobbyInv, ConnectionsKept
  <2>3. QED
    BY <2>1, <2>2, LobbyTypes DEF RoomAgrees, Agrees
<1>2. QED
  BY <1>1, LobbyKept, PTL

\* RosterCurrent: between two passes whatever a seated joiner has yet to hear ends in the
\* roster the host has.
THEOREM LobbyRosterCurrent == Spec => []RosterCurrent
<1>1. LobbyInv => RosterCurrent
  <2> SUFFICES ASSUME LobbyInv, at = "ui", NEW j \in DOMAIN seats, phase[j] = "room", j \notin broken
               PROVE  Shows(toJoiner[j], view[j], roster)
    BY DEF RosterCurrent
  <2>1. Shows(toJoiner[j] \o outbox[j], view[j], roster) /\ outbox = Nothing
    BY DEF LobbyInv, LatestPosted
  <2>2. j \in Joiners /\ toJoiner[j] \in Seq(Messages)
    BY DEF LobbyInv, KeepInv, Keeps, TypeInv
  <2>3. toJoiner[j] \o outbox[j] = toJoiner[j]
    BY <2>1, <2>2, NothingTyped
  <2>4. QED
    BY <2>1, <2>3
<1>2. QED
  BY <1>1, LobbyKept, PTL

\* A roster with names apart gives whoever is on it under its name its own slot.
LEMMA OwnSlot ==
  ASSUME NEW r \in Rosters, NamesApart(r), NEW j, NEW s \in Taken(r), r[s].name = NameOf[j]
  PROVE  Me(r, j) = s
<1>1. PlayerNamed(r, NameOf[j]) = {s}
  BY DEF PlayerNamed, NamesApart
<1>2. s \in Nat
  BY RosterParts, LobbyAssumption DEF Slots
<1>3. Least({s}) = s
  BY <1>2, LeastIn
<1>4. QED
  BY <1>1, <1>3 DEF Me

\* OwnSeatFound: a program that has a seat finds that one by its player's name, in Start
\* and in a roster that is up to date.  Nothing is assumed of the names: the host refuses
\* a name that its roster has, and Start has everyone who is seated.
THEOREM LobbyOwnSeatFound == Spec => []OwnSeatFound
<1>1. LobbyInv => OwnSeatFound
  <2> SUFFICES ASSUME LobbyInv, NEW j \in DOMAIN seats,
                      phase[j] = "started" \/ (phase[j] = "room" /\ at = "ui" /\ j \notin broken /\ toJoiner[j] = <<>>)
               PROVE  Me(view[j], j) = seats[j]
    BY DEF OwnSeatFound, SeatOf
  <2>1. /\ j \in Joiners /\ roster \in Rosters /\ NamesApart(roster)
        /\ seats[j] \in Taken(roster) /\ roster[seats[j]].name = NameOf[j]
        /\ view[j] \in Rosters /\ toJoiner[j] \in Seq(Messages)
    BY DEF LobbyInv, KeepInv, Keeps, Agrees, NamesKept, TypeInv
  <2>2. CASE phase[j] = "started"
    <3>1. view[j] \in Starts(j)
      BY <2>2, StartsAre
    <3>2. at # "over"
      BY DEF LobbyInv, NamesKept
    <3>3. started # Nobody /\ view[j] = started
      BY <2>1, <3>1, <3>2 DEF LobbyInv, OneStart
    <3>4. NamesApart(view[j]) /\ seats[j] \in Taken(view[j]) /\ view[j][seats[j]].name = NameOf[j]
      BY <3>3 DEF LobbyInv, NamesKept, SeatedUnder
    <3>5. QED
      BY <2>1, <3>4, OwnSlot
  <2>3. CASE phase[j] = "room" /\ at = "ui" /\ j \notin broken /\ toJoiner[j] = <<>>
    <3>1. Shows(toJoiner[j] \o outbox[j], view[j], roster) /\ outbox[j] = <<>>
      BY <2>1, <2>3, NothingTyped DEF LobbyInv, LatestPosted
    <3>2. toJoiner[j] \o outbox[j] = <<>>
      BY <2>3, <3>1
    <3>3. Shows(<<>>, view[j], roster) /\ DOMAIN <<>> = {}
      BY <3>1, <3>2
    <3>4. view[j] = roster
      BY <3>3 DEF Shows
    <3>5. QED
      BY <2>1, <3>4, OwnSlot
  <2>4. QED
    BY <2>2, <2>3
<1>2. QED
  BY <1>1, LobbyKept, PTL
=============================================================================
