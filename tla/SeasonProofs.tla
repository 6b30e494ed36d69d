---------------------------- MODULE SeasonProofs ----------------------------
(***************************************************************************)
(* Of what every game does, season by season.                              *)
(*                                                                         *)
(* That a turn suspended for battles loses and doubles none, prepares the  *)
(* computer's realms once, and leaves no phase before what it waits for,   *)
(* with any number of seats, realms and marches and any delay of orders.   *)
(*                                                                         *)
(* That a rotation of season saves that stops or fails anywhere keeps them *)
(* in order and the last of them on the disk, for any number of saves.     *)
(***************************************************************************)
EXTENDS Turn, Saves, FiniteSetTheorems, WellFoundedInduction, TLAPS

-----------------------------------------------------------------------------
(***************************************************************************)
(* The turn.                                                               *)
(***************************************************************************)
\* The wind-on in flight, at each of its stages, and where there is none.
Suspended ==
  /\ InFlight =>
       /\ turn.stage = "Tail" <=> turn.tail # None
       /\ turn.siege => turn.stage = "Phase"
       /\ turn.idle => phase = 4 /\ turn.stage = "Begin" /\ ~turn.opening
       /\ turn.opening /\ phase = 4 => turn.stage = "Tail" /\ step = 0
       /\ turn.tail # None /\ turn.tail.season => phase = 1
  /\ ~InFlight => phase \in {1, 4}

\* A seat has sent an order that decides the battle it is asked about.
Deciding(s) == posted[s] # None /\ posted[s].kind \in {"Answer", "TakeTheField"}

\* A battle is fought only while it is asked about, and one seat at most is deciding it.
Attended ==
  /\ fight => Asked
  /\ input = "Answer" => ~fight /\ \A s \in seats : ~Deciding(s)
  /\ \A s \in seats : Deciding(s) =>
       Asked /\ ~fight /\ turn.question.choice = 1 /\ (Seated => s = Chooser(turn.question))
  /\ \A s \in Humans : posted[s] # None /\ posted[s].kind = "ToComputer" => posted[s].realm \in Leaving

\* The computer's realms are prepared when phase 4 is opened or begun, and nobody before.
Begun == phase = 4 /\ (step > 0 \/ (InFlight /\ ~turn.idle /\ turn.stage = "Phase"))
Prepared == \A r \in Computers \intersect alive : prologue[r] = 1
Fresh == \A r \in Realms : prologue[r] = 0
Opened ==
  /\ opened \/ Begun => Prepared
  /\ ~opened /\ ~Begun /\ phase \in 1 .. 4 => Fresh
  /\ phase \in {5, 6, 7} => ~opened
  /\ phase = 4 /\ (~InFlight \/ turn.idle) => opened

\* A phase is left when what it waits for is over.
Finished ==
  /\ moving > 0 => phase \in {3, 5, 6}
  /\ InFlight /\ turn.siege => phase = 2
  /\ phase \in {5, 6, 7} => \A r \in Computers \intersect alive : aiStep[r] = Done

TurnInv == TypeOK /\ Suspended /\ Attended /\ Opened /\ Finished /\ BattlesDecidedOnce /\ PrologueFirst

(***************************************************************************)
(* The operators.                                                          *)
(***************************************************************************)
LEMMA MinOfTwo ==
  ASSUME NEW a \in Int, NEW b \in Int
  PROVE  Min({a, b}) \in {a, b} /\ Min({a, b}) <= a /\ Min({a, b}) <= b
<1>1. \E x \in {a, b} : \A y \in {a, b} : x <= y
  OBVIOUS
<1>2. QED
  BY <1>1 DEF Min

LEMMA Cursor ==
  ASSUME NEW r \in Realms PROVE (r % NumRealms) + 1 \in Realms
<1>1. r \in Nat /\ NumRealms \in Nat /\ NumRealms > 0
  BY TurnAssumption DEF Realms
<1>2. r % NumRealms \in 0 .. NumRealms - 1
  BY <1>1
<1>3. QED
  BY <1>1, <1>2 DEF Realms

\* The search from the cursor finds a living realm if there is one.
LEMMA ServedLives ==
  ASSUME cursor \in Realms, alive \subseteq Realms, alive # {}
  PROVE  Served \in alive
<1> DEFINE S == {k \in 0 .. NumRealms - 1 : Ahead(k) \in alive}
<1>1. NumRealms \in Nat /\ NumRealms > 0
  BY TurnAssumption DEF Realms
<1>2. PICK a \in alive : a \in 1 .. NumRealms
  BY DEF Realms
<1>3. S # {}
  <2>1. CASE a >= cursor
    <3>1. a - cursor \in 0 .. NumRealms - 1 /\ cursor - 1 + (a - cursor) = a - 1
      BY <1>1, <1>2, <2>1 DEF Realms
    <3>2. (a - 1) % NumRealms = a - 1
      BY <1>1, <1>2
    <3>3. QED
      BY <1>2, <3>1, <3>2 DEF Ahead
  <2>2. CASE a < cursor
    <3>1. /\ a - cursor + NumRealms \in 0 .. NumRealms - 1
          /\ cursor - 1 + (a - cursor + NumRealms) = a - 1 + NumRealms
      BY <1>1, <1>2, <2>2 DEF Realms
    <3>2. (a - 1 + NumRealms) % NumRealms = a - 1
      BY <1>1, <1>2
    <3>3. QED
      BY <1>2, <3>1, <3>2 DEF Ahead
  <2>3. QED
    BY <1>2, <2>1, <2>2 DEF Realms
<1>4. \E x \in S : \A y \in S : x <= y
  <2> DEFINE N == 0 .. NumRealms - 1
             T == {0 .. x : x \in S}
  <2>1. IsFiniteSet(N)
    BY <1>1, FS_Interval
  <2>2. T \subseteq FiniteSubsetsOf(N)
    <3>1. FiniteSubsetsOf(N) = SUBSET N
      BY <2>1, FS_FiniteSubsetsOfFinite
    <3>2. T \subseteq SUBSET N
      BY <1>1
    <3>3. QED
      BY <3>1, <3>2
  <2>3. IsWellFoundedOn(StrictSubsetOrdering(N), FiniteSubsetsOf(N))
    BY FS_StrictSubsetOrderingWellFounded
  <2>4. T # {}
    BY <1>3
  <2> HIDE DEF T
  <2>5. PICK X \in T : \A Y \in T : ~(<<Y, X>> \in StrictSubsetOrdering(N))
    BY <2>2, <2>3, <2>4, WFMin
  <2> USE DEF T
  <2>6. PICK x \in S : X = 0 .. x
    OBVIOUS
  <2>7. ASSUME NEW y \in S, y < x PROVE FALSE
    <3>1. 0 .. y \in T /\ 0 .. y \subseteq 0 .. x /\ 0 .. y # 0 .. x /\ 0 .. x \in SUBSET N /\ 0 .. y \in SUBSET N
      BY <1>1, <2>7
    <3>2. <<0 .. y, 0 .. x>> \in StrictSubsetOrdering(N)
      BY <3>1 DEF StrictSubsetOrdering
    <3>3. QED
      BY <2>5, <2>6, <3>1, <3>2
  <2>8. QED
    BY <2>7
<1>5. Min(S) \in S
  BY <1>4 DEF Min
<1>6. QED
  BY <1>5 DEF Served

\* The fields a wind-on keeps whichever battle is decided in it.
Kept(t, u) ==
  /\ u \in Turns
  /\ u.idle = t.idle /\ u.opening = t.opening /\ u.stage = t.stage /\ u.siege = t.siege
  /\ u.question = t.question /\ u.tail = t.tail

LEMMA Decided ==
  ASSUME TypeOK, NEW b, b.a \in Realms, b.d \in Realms, NEW t \in {None} \union Turns,
         t = None => Settlement(b) = "Silently", Decide(b, t)
  PROVE  /\ settled' = settled + 1 /\ alive' \subseteq alive
         /\ t = None => turn' = None
         /\ t # None => Kept(t, turn')
<1>1. settled' = settled + 1 /\ alive' \subseteq alive
  BY DEF Decide
<1>2. t = None => turn' = None
  BY DEF Decide
<1>3. ASSUME t # None PROVE Kept(t, turn')
  <2>1. t \in Turns /\ [a |-> b.a, d |-> b.d] \in Sides
    BY <1>3 DEF Sides
  <2>2. turn' = t \/ turn' = [t EXCEPT !.unseen = [a |-> b.a, d |-> b.d]]
    BY DEF Decide
  <2>3. QED
    BY <2>1, <2>2 DEF Kept, Turns
<1>4. QED
  BY <1>1, <1>2, <1>3

\* Serving a realm keeps the state well formed.
LEMMA DrivenTyped ==
  ASSUME TypeOK, NEW served \in Driven
  PROVE  /\ served.cursor \in Realms /\ served.aiStep \in [Realms -> 0 .. Done]
         /\ served.march \in [Realms -> 0 .. MaxPath] /\ served.left \in 0 .. MaxMarches
<1>1. CASE alive = {}
  BY <1>1 DEF Driven, Undriven, TypeOK
<1>2. CASE alive # {}
  <2> DEFINE r == Served
             now == IF aiStep[r] = 0 THEN 1 ELSE aiStep[r]
             plays == r \notin seats /\ now < Done
             next == IF ~plays THEN now
                     ELSE IF now >= Threshold /\ march[r] = 0 THEN Done
                     ELSE Min({now + 1, Threshold})
             one(walks, orders) ==
               [cursor |-> (r % NumRealms) + 1, aiStep |-> [aiStep EXCEPT ![r] = next], march |-> walks, left |-> orders]
             sends == plays /\ now < Threshold /\ left > 0 /\ march[r] = 0
  <2>1. r \in alive /\ r \in Realms
    BY <1>2, ServedLives DEF TypeOK
  <2>2. (r % NumRealms) + 1 \in Realms
    BY <2>1, Cursor
  <2>3. now \in 1 .. Done /\ Threshold \in Nat \ {0} /\ Done = Threshold + 1
    BY <2>1, TurnAssumption DEF TypeOK, Done
  <2>4. next \in 0 .. Done
    <3> DEFINE least == Min({now + 1, Threshold})
    <3>1. now + 1 \in Int /\ Threshold \in Int
      BY <2>3
    <3>2. least \in {now + 1, Threshold} /\ least <= Threshold
      <4> HIDE DEF now
      <4>1. QED
        BY <3>1, MinOfTwo, Zenon
    <3>3. least \in 0 .. Done
      <4> HIDE DEF now, least
      <4>1. QED
        BY <2>3, <3>2
    <3>4. next \in {now, Done, least}
      <4> HIDE DEF now
      <4>1. QED
        BY Zenon
    <3>5. QED
      <4> HIDE DEF now, least, next
      <4>1. QED
        BY <2>3, <3>3, <3>4
  <2>5. served = one(march, left) \/ (sends /\ served = one([march EXCEPT ![r] = MaxPath], left - 1))
    BY <1>2 DEF Driven
  <2>6. /\ march \in [Realms -> 0 .. MaxPath] /\ left \in 0 .. MaxMarches
        /\ aiStep \in [Realms -> 0 .. Done] /\ MaxPath \in Nat /\ MaxMarches \in Nat
    BY TurnAssumption DEF TypeOK
  <2> HIDE DEF r, next
  <2>7. CASE served = one(march, left)
    BY <2>1, <2>2, <2>4, <2>6, <2>7
  <2>8. CASE sends /\ served = one([march EXCEPT ![r] = MaxPath], left - 1)
    BY <2>1, <2>2, <2>4, <2>6, <2>8
  <2>9. QED
    BY <2>5, <2>7, <2>8
<1>3. QED
  BY <1>1, <1>2

\* So does the march of the armies, and a meeting is of two realms.
LEMMA WalkedTyped ==
  ASSUME NEW walks \in [Realms -> 0 .. MaxPath], NEW b
  PROVE  Walked(walks, b) \in [Realms -> 0 .. MaxPath]
<1>1. MaxPath \in Nat
  BY TurnAssumption
<1>2. QED
  BY <1>1 DEF Walked

LEMMA EncountersOfTwo ==
  ASSUME TypeOK PROVE Encounters \subseteq Sides /\ None \notin Encounters
<1>1. Encounters \subseteq Sides
  BY DEF Encounters, Sides, TypeOK
<1>2. QED
  BY <1>1, TurnAssumption

\* The prologues of realms none of which has had one prepare the computer's.
LEMMA PrologueOnce ==
  ASSUME TypeOK, PrologueFirst, Fresh
  PROVE  /\ Prologue \in [Realms -> Nat] /\ \A r \in Realms : Prologue[r] <= 1
         /\ \A r \in Computers \intersect alive : Prologue[r] = 1
BY DEF TypeOK, PrologueFirst, Fresh, Prologue, Computers

LEMMA TwoSeats ==
  ASSUME TypeOK, NEW s \in seats, NEW z \in seats, s # z
  PROVE  Seated
<1>1. IsFiniteSet(seats)
  <2>1. IsFiniteSet(Realms)
    BY TurnAssumption, FS_Interval DEF Realms
  <2>2. QED
    BY <2>1, FS_Subset, TurnAssumption DEF TypeOK
<1>2. Cardinality({s, z}) = 2
  <2>1. IsFiniteSet({s}) /\ Cardinality({s}) = 1 /\ z \notin {s} /\ {s, z} = {s} \union {z}
    BY FS_Singleton
  <2>2. Cardinality({s} \union {z}) = IF z \in {s} THEN Cardinality({s}) ELSE Cardinality({s}) + 1
    BY <2>1, FS_AddElement
  <2>3. QED
    BY <2>1, <2>2
<1>3. Cardinality({s, z}) <= Cardinality(seats) /\ Cardinality(seats) \in Nat
  BY <1>1, FS_Subset, FS_CardinalityType, {s, z} \subseteq seats
<1>4. QED
  BY <1>2, <1>3 DEF Seated

LEMMA OneDecides ==
  ASSUME TypeOK, Attended, NEW s \in seats, NEW z \in seats, Deciding(s), Deciding(z)
  PROVE  s = z
BY TwoSeats DEF Attended

(***************************************************************************)
(* The invariant.                                                          *)
(***************************************************************************)
LEMMA InitHolds == Init => TurnInv
<1> SUFFICES ASSUME Init PROVE TurnInv
  OBVIOUS
<1>1. TypeOK
  <2>1. 1 \in Realms /\ 0 \in 0 .. Done /\ 0 \in 0 .. MaxPath /\ MaxMarches \in 0 .. MaxMarches
    BY TurnAssumption DEF Realms, Done
  <2>2. /\ aiStep \in [Realms -> 0 .. Done] /\ march \in [Realms -> 0 .. MaxPath]
        /\ prologue \in [Realms -> Nat] /\ posted \in [Humans -> {None} \union Orders]
    BY <2>1 DEF Init
  <2>3. phase \in 1 .. 7 /\ step \in 0 .. 2 /\ moving \in 0 .. MaxPath /\ raised \in Nat /\ settled \in Nat
    BY <2>1 DEF Init
  <2>4. /\ opened \in BOOLEAN /\ fight \in BOOLEAN /\ cursor \in Realms /\ alive \subseteq Realms
        /\ seats \subseteq Humans /\ Host \in seats /\ left \in 0 .. MaxMarches
        /\ input \in {"Out", "Start", "Answer", "Dismiss"} /\ turn \in {None} \union Turns /\ input = "Out"
    BY <2>1, TurnAssumption DEF Init
  <2>5. QED
    BY <2>2, <2>3, <2>4 DEF TypeOK
<1>2. Suspended /\ Attended
  BY DEF Init, Suspended, Attended, InFlight, Deciding
<1>3. Opened /\ PrologueFirst
  BY DEF Init, Opened, Begun, Fresh, PrologueFirst
<1>4. BattlesDecidedOnce
  BY DEF Init, BattlesDecidedOnce, Undecided, Asked, InFlight
<1>5. Finished
  <2>1. moving = 0 /\ phase = 1 /\ ~InFlight
    BY DEF Init, InFlight
  <2>2. QED
    BY <2>1 DEF Finished
<1>6. QED
  BY <1>1, <1>2, <1>3, <1>4, <1>5 DEF TurnInv

LEMMA UnseenKeeps == ASSUME TurnInv, RoundUnseen PROVE TurnInv'
<1>1. TypeOK /\ InFlight /\ turn \in Turns /\ turn # None
  BY DEF TurnInv, TypeOK, RoundUnseen, Reporting, InFlight
<1>2. Kept(turn, turn') /\ InFlight' /\ turn' # None
  BY <1>1, TurnAssumption DEF RoundUnseen, Kept, Turns, InFlight
<1>3. /\ UNCHANGED <<phase, step, opened, cursor, aiStep, alive, seats, prologue, march, moving, left, fight, raised, settled, posted>>
      /\ input' \in {"Out", "Start"}
  BY DEF RoundUnseen, machine, realms, units, battles, Return
<1>4. TypeOK'
  BY <1>1, <1>2, <1>3 DEF RoundUnseen, TypeOK, Kept, Return
<1>5. Suspended' /\ Opened' /\ PrologueFirst'
  BY <1>1, <1>2, <1>3 DEF TurnInv, Suspended, Opened, Begun, Prepared, Fresh, PrologueFirst, Kept, InFlight
<1>6. Attended'
  BY <1>1, <1>2, <1>3 DEF TurnInv, Attended, Asked, Deciding, Chooser, Seated, RoundUnseen, Kept, Return
<1>7. BattlesDecidedOnce'
  BY <1>1, <1>2, <1>3 DEF TurnInv, BattlesDecidedOnce, Undecided, Asked, Kept
<1>8. Finished'
  BY <1>1, <1>2, <1>3 DEF TurnInv, Finished, Kept
<1>9. QED
  BY <1>4, <1>5, <1>6, <1>7, <1>8 DEF TurnInv

LEMMA QuestionKeeps == ASSUME TurnInv, RoundQuestion PROVE TurnInv'
<1>1. /\ InFlight /\ turn \in Turns /\ turn # None
      /\ turn.question \in Questions /\ turn.question # None
  BY DEF TurnInv, TypeOK, RoundQuestion, Asked, InFlight, Turns
<1>2. UNCHANGED <<phase, step, opened, cursor, aiStep, seats, prologue, march, moving, left, fight, raised, posted>>
  BY DEF RoundQuestion, machine, units
<1>3. CASE input # "Answer"
  <2>1. UNCHANGED <<turn, alive, settled>> /\ input' = "Out"
    BY <1>3 DEF RoundQuestion, Return
  <2>2. TypeOK'
    BY <1>2, <2>1 DEF TurnInv, TypeOK
  <2>3. Suspended' /\ Opened' /\ PrologueFirst' /\ BattlesDecidedOnce'
    BY <1>2, <2>1 DEF TurnInv, Suspended, Opened, Begun, Prepared, Fresh, PrologueFirst,
       BattlesDecidedOnce, Undecided, Asked, InFlight
  <2>4. Attended' /\ Finished'
    BY <1>2, <2>1 DEF TurnInv, Attended, Finished, Asked, Deciding, Chooser, Seated, InFlight
  <2>5. QED
    BY <2>2, <2>3, <2>4 DEF TurnInv
<1>4. CASE input = "Answer"
  <2> DEFINE t == [turn EXCEPT !.question = None, !.assault = FALSE]
             b == turn.question
  <2>1. /\ t \in Turns /\ t # None /\ t.question = None /\ t.idle = turn.idle
        /\ t.opening = turn.opening /\ t.stage = turn.stage /\ t.siege = turn.siege
        /\ t.tail = turn.tail
    BY <1>1, TurnAssumption DEF Turns
  <2>2. b.a \in Realms /\ b.d \in Realms /\ Decide(b, t) /\ input' = "Start"
    BY <1>1, <1>4 DEF Questions, RoundQuestion
  <2> HIDE DEF t, b
  <2>3. settled' = settled + 1 /\ alive' \subseteq alive /\ Kept(t, turn') /\ turn' # None /\ InFlight'
    BY <2>1, <2>2, Decided, TurnAssumption DEF Kept, TurnInv, InFlight
  <2>4. TypeOK'
    BY <1>2, <2>2, <2>3 DEF TurnInv, TypeOK, Kept
  <2>5. Suspended'
    BY <1>1, <1>2, <2>1, <2>3 DEF TurnInv, Suspended, Kept
  <2>6. Opened' /\ PrologueFirst'
    BY <1>1, <1>2, <2>1, <2>3 DEF TurnInv, Opened, Begun, Prepared, Fresh, PrologueFirst, Kept
  <2>7. Attended'
    BY <1>2, <1>4, <2>2 DEF TurnInv, Attended, Deciding
  <2>8. Finished'
    BY <1>1, <1>2, <2>1, <2>3 DEF TurnInv, Finished, Kept
  <2>9. BattlesDecidedOnce'
    BY <1>1, <1>2, <2>1, <2>3 DEF TurnInv, BattlesDecidedOnce, Undecided, Asked, Kept, TypeOK
  <2>10. QED
    BY <2>4, <2>5, <2>6, <2>7, <2>8, <2>9 DEF TurnInv
<1>5. QED
  BY <1>3, <1>4

LEMMA IdleKeeps == ASSUME TurnInv, RoundIdle PROVE TurnInv'
<1>1. /\ UNCHANGED <<phase, step, opened, cursor, aiStep, alive, seats, prologue, march, moving, left, fight, raised, settled, posted>>
      /\ turn' = None /\ input' = "Out" /\ ~InFlight' /\ ~Asked'
  BY DEF RoundIdle, machine, realms, units, battles, Return, InFlight, Asked
<1>2. InFlight /\ ~Asked /\ turn.idle /\ phase = 4 /\ turn.tail = None /\ opened /\ turn.stage = "Begin"
  BY DEF TurnInv, RoundIdle, Clear, Suspended, Opened
<1>3. TypeOK'
  BY <1>1 DEF TurnInv, TypeOK
<1>4. Suspended'
  BY <1>1, <1>2 DEF Suspended
<1>5. Opened' /\ PrologueFirst'
  BY <1>1, <1>2 DEF TurnInv, Opened, Begun, Prepared, Fresh, PrologueFirst
<1>6. Attended'
  BY <1>1, <1>2 DEF TurnInv, Attended, Deciding
<1>7. Finished'
  BY <1>1, <1>2 DEF TurnInv, Finished
<1>8. BattlesDecidedOnce'
  BY <1>1, <1>2 DEF TurnInv, BattlesDecidedOnce, Undecided, TypeOK
<1>9. QED
  BY <1>3, <1>4, <1>5, <1>6, <1>7, <1>8 DEF TurnInv

LEMMA BeginKeeps == ASSUME TurnInv, RoundBegin PROVE TurnInv'
<1>1. /\ InFlight /\ ~Asked /\ turn \in Turns /\ turn # None
      /\ ~turn.idle /\ turn.stage = "Begin" /\ turn.tail = None
  BY DEF TurnInv, TypeOK, RoundBegin, Clear, InFlight, Suspended
<1>2. UNCHANGED <<phase, step, opened, cursor, aiStep, alive, seats, march, left, fight, raised, settled, posted, input>>
  BY DEF RoundBegin, machine, battles
<1>3. /\ turn' \in Turns /\ turn' # None /\ InFlight' /\ ~Asked'
      /\ turn'.stage = "Phase" /\ turn'.tail = None /\ turn'.question = None
      /\ turn'.idle = turn.idle /\ turn'.opening = turn.opening
  <2> DEFINE first == step = 0 /\ phase = 2
  <2>1. first \in BOOLEAN /\ turn' = [turn EXCEPT !.stage = "Phase", !.siege = first]
    BY DEF RoundBegin
  <2> HIDE DEF first
  <2>2. /\ turn' \in Turns /\ turn'.stage = "Phase" /\ turn'.tail = None /\ turn'.question = turn.question
        /\ turn'.idle = turn.idle /\ turn'.opening = turn.opening
    BY <1>1, <2>1 DEF Turns
  <2>3. QED
    BY <1>1, <2>2, TurnAssumption DEF InFlight, Asked
<1>4. turn'.siege => phase = 2
  BY <1>1 DEF RoundBegin, Turns
<1>5. moving' \in 0 .. MaxPath /\ (moving' = moving \/ phase \in {3, 5, 6})
  BY DEF RoundBegin, TurnInv, TypeOK
<1>6. /\ prologue' \in [Realms -> Nat] /\ PrologueFirst'
      /\ phase = 4 => \A r \in Computers \intersect alive : prologue'[r] = 1
      /\ phase # 4 => prologue' = prologue
  <2>1. CASE step = 0 /\ phase = 4 /\ ~opened
    <3>1. Fresh /\ prologue' = Prologue
      BY <1>1, <2>1 DEF TurnInv, Opened, Begun, RoundBegin
    <3>2. QED
      BY <1>2, <2>1, <3>1, PrologueOnce DEF TurnInv, PrologueFirst
  <2>2. CASE ~(step = 0 /\ phase = 4 /\ ~opened)
    <3>1. prologue' = prologue
      BY <2>2 DEF RoundBegin
    <3>2. phase = 4 => Prepared
      BY <2>2 DEF TurnInv, TypeOK, Opened, Begun
    <3>3. QED
      BY <1>2, <3>1, <3>2 DEF TurnInv, TypeOK, PrologueFirst, Prepared
  <2>3. QED
    BY <2>1, <2>2
<1>7. TypeOK'
  BY <1>2, <1>3, <1>5, <1>6 DEF TurnInv, TypeOK
<1>8. Suspended'
  BY <1>1, <1>2, <1>3, <1>4 DEF TurnInv, Suspended
<1>9. Opened'
  BY <1>1, <1>2, <1>3, <1>6 DEF TurnInv, Opened, Begun, Prepared, Fresh
<1>10. Attended'
  BY <1>1, <1>2, <1>3 DEF TurnInv, Attended, Deciding
<1>11. Finished'
  BY <1>2, <1>4, <1>5 DEF TurnInv, Finished
<1>12. BattlesDecidedOnce'
  BY <1>1, <1>2, <1>3 DEF TurnInv, BattlesDecidedOnce, Undecided
<1>13. QED
  BY <1>6, <1>7, <1>8, <1>9, <1>10, <1>11, <1>12 DEF TurnInv

\* What a question asks is of the battle it is about.
LEMMA QuestionTyped ==
  ASSUME TypeOK, NEW b \in Sides
  PROVE  QuestionFor(b) \in Questions /\ QuestionFor(b) # None
<1>1. QuestionFor(b) \in Questions
  BY DEF QuestionFor, Questions, Sides
<1>2. QED
  BY <1>1, TurnAssumption

LEMMA SiegeKeeps == ASSUME TurnInv, RoundSiege PROVE TurnInv'
<1>1. /\ InFlight /\ ~Asked /\ turn \in Turns /\ turn # None /\ turn.siege
      /\ ~turn.idle /\ turn.stage = "Phase" /\ turn.tail = None /\ phase = 2
  BY DEF TurnInv, TypeOK, RoundSiege, Clear, InFlight, Suspended, Finished
<1>2. UNCHANGED <<phase, step, opened, cursor, aiStep, seats, prologue, march, moving, fight, posted, input>>
  BY DEF RoundSiege, machine
<1>3. ~fight /\ \A s \in seats : ~Deciding(s)
  BY <1>1 DEF TurnInv, Attended
<1>4. /\ left' \in 0 .. MaxMarches /\ alive' \subseteq alive
      /\ turn' \in Turns /\ turn'.stage = "Phase" /\ turn'.tail = None
      /\ turn'.idle = turn.idle /\ turn'.opening = turn.opening
      /\ raised' \in Nat /\ settled' \in Nat
      /\ turn'.question = None => raised' = settled' + 0
      /\ turn'.question # None => raised' = settled' + 1
  <2>1. raised = settled /\ raised \in Nat /\ settled \in Nat /\ left \in 0 .. MaxMarches /\ turn.question = None
    BY <1>1 DEF TurnInv, TypeOK, BattlesDecidedOnce, Undecided, Asked
  <2>2. CASE turn' = [turn EXCEPT !.siege = FALSE] /\ UNCHANGED <<alive, left, raised, settled>>
    <3>1. turn' \in Turns /\ turn'.stage = "Phase" /\ turn'.tail = None /\ turn'.question = None
          /\ turn'.idle = turn.idle /\ turn'.opening = turn.opening
      BY <1>1, <2>1, <2>2 DEF Turns
    <3>2. QED
      BY <2>1, <2>2, <3>1
  <2>3. CASE left > 0 /\ left' = left - 1 /\ raised' = raised + 1
             /\ \E b \in Encounters :
                  IF Settlement(b) = "Prompt"
                  THEN turn' = [turn EXCEPT !.question = QuestionFor(b), !.assault = TRUE]
                       /\ UNCHANGED <<alive, settled>>
                  ELSE Decide(b, turn)
    <3>1. PICK b \in Encounters :
            IF Settlement(b) = "Prompt"
            THEN turn' = [turn EXCEPT !.question = QuestionFor(b), !.assault = TRUE]
                 /\ UNCHANGED <<alive, settled>>
            ELSE Decide(b, turn)
      BY <2>3
    <3>2. b \in Sides /\ b.a \in Realms /\ b.d \in Realms
      BY EncountersOfTwo DEF TurnInv, Sides
    <3>3. left' \in 0 .. MaxMarches
      BY <2>1, <2>3, TurnAssumption
    <3>4. CASE Settlement(b) = "Prompt"
      <4>1. QuestionFor(b) \in Questions /\ QuestionFor(b) # None
        BY <3>2, QuestionTyped DEF TurnInv
      <4>2. turn' = [turn EXCEPT !.question = QuestionFor(b), !.assault = TRUE] /\ UNCHANGED <<alive, settled>>
        BY <3>1, <3>4
      <4>3. turn' \in Turns /\ turn'.stage = "Phase" /\ turn'.tail = None /\ turn'.question = QuestionFor(b)
            /\ turn'.idle = turn.idle /\ turn'.opening = turn.opening
        BY <1>1, <4>1, <4>2 DEF Turns
      <4>4. QED
        BY <2>1, <2>3, <3>3, <4>1, <4>2, <4>3
    <3>5. CASE Settlement(b) # "Prompt"
      <4>1. settled' = settled + 1 /\ alive' \subseteq alive /\ Kept(turn, turn')
        BY <1>1, <3>1, <3>2, <3>5, Decided DEF TurnInv
      <4>2. QED
        BY <1>1, <2>1, <2>3, <3>3, <4>1 DEF Kept
    <3>6. QED
      BY <3>4, <3>5
  <2>4. QED
    BY <2>2, <2>3 DEF RoundSiege
<1>5. InFlight' /\ turn' # None
  BY <1>4, TurnAssumption DEF InFlight
<1>6. TypeOK'
  BY <1>2, <1>4, <1>5 DEF TurnInv, TypeOK
<1>7. Suspended'
  BY <1>1, <1>2, <1>4, <1>5 DEF TurnInv, Suspended
<1>8. Opened' /\ PrologueFirst'
  BY <1>1, <1>2, <1>4, <1>5 DEF TurnInv, Opened, Begun, Prepared, Fresh, PrologueFirst
<1>9. Attended'
  BY <1>2, <1>3 DEF TurnInv, Attended, Deciding
<1>10. Finished'
  BY <1>1, <1>2 DEF TurnInv, Finished
<1>11. BattlesDecidedOnce'
  <2>1. CASE turn'.question = None
    <3>1. Undecided' = 0
      BY <1>4, <2>1 DEF Undecided, Asked
    <3>2. QED
      BY <1>4, <2>1, <3>1 DEF BattlesDecidedOnce
  <2>2. CASE turn'.question # None
    <3>1. Undecided' = 1
      BY <1>4, <1>5, <2>2 DEF Undecided, Asked
    <3>2. QED
      BY <1>4, <2>2, <3>1 DEF BattlesDecidedOnce
  <2>3. QED
    BY <2>1, <2>2
<1>12. QED
  BY <1>6, <1>7, <1>8, <1>9, <1>10, <1>11 DEF TurnInv

\* A meeting is nobody's, or of two realms.
LEMMA MeetingTyped ==
  ASSUME TypeOK, NEW walks, NEW b \in Meetings(walks)
  PROVE  b \in {None} \union Sides
BY EncountersOfTwo DEF Meetings

LEMMA UndrivenTyped ==
  ASSUME TypeOK
  PROVE  /\ Undriven.cursor \in Realms /\ Undriven.aiStep = aiStep
         /\ Undriven.march \in [Realms -> 0 .. MaxPath] /\ Undriven.left \in 0 .. MaxMarches
         /\ Undriven.aiStep \in [Realms -> 0 .. Done]
BY DEF Undriven, TypeOK

LEMMA PhaseKeeps == ASSUME TurnInv, RoundPhase PROVE TurnInv'
<1>1. /\ InFlight /\ ~Asked /\ turn \in Turns /\ turn # None /\ ~turn.siege /\ turn.question = None
      /\ ~turn.idle /\ turn.stage = "Phase" /\ turn.tail = None /\ ~(turn.opening /\ phase = 4)
  BY DEF TurnInv, TypeOK, RoundPhase, Clear, InFlight, Asked, Suspended
<1>2. UNCHANGED <<alive, seats, fight, settled, input, posted>>
  BY DEF RoundPhase
<1>3. PICK served \in (IF phase = 4 THEN Driven ELSE {Undriven}) : \E b \in Meetings(served.march) :
        LET over == Over(served.aiStep) IN
        /\ phase' = IF over THEN (phase % 7) + 1 ELSE phase
        /\ step' = IF over THEN 0 ELSE Min({step + 1, 2})
        /\ cursor' = IF over THEN 1 ELSE served.cursor
        /\ opened' = (opened /\ ~(over /\ phase = 4))
        /\ aiStep' = IF phase = 7 THEN [r \in Realms |-> IF r \in alive THEN 0 ELSE Done]
                     ELSE served.aiStep
        /\ prologue' = IF phase = 7 THEN [r \in Realms |-> 0] ELSE prologue
        /\ march' = Walked(served.march, b) /\ left' = served.left
        /\ moving' = IF moving = 0 THEN 0 ELSE moving - 1
        /\ raised' = Met(b)
        /\ turn' = [turn EXCEPT !.stage = "Tail", !.tail = [battle |-> b, season |-> phase = 7]]
  BY Zenon DEF RoundPhase
<1> DEFINE over == Over(served.aiStep)
<1>4. PICK b \in Meetings(served.march) :
        /\ phase' = IF over THEN (phase % 7) + 1 ELSE phase
        /\ step' = IF over THEN 0 ELSE Min({step + 1, 2})
        /\ cursor' = IF over THEN 1 ELSE served.cursor
        /\ opened' = (opened /\ ~(over /\ phase = 4))
        /\ aiStep' = IF phase = 7 THEN [r \in Realms |-> IF r \in alive THEN 0 ELSE Done]
                     ELSE served.aiStep
        /\ prologue' = IF phase = 7 THEN [r \in Realms |-> 0] ELSE prologue
        /\ march' = Walked(served.march, b) /\ left' = served.left
        /\ moving' = IF moving = 0 THEN 0 ELSE moving - 1
        /\ raised' = Met(b)
        /\ turn' = [turn EXCEPT !.stage = "Tail", !.tail = [battle |-> b, season |-> phase = 7]]
  BY <1>3, Zenon
<1>5. /\ served.cursor \in Realms /\ served.aiStep \in [Realms -> 0 .. Done]
      /\ served.march \in [Realms -> 0 .. MaxPath] /\ served.left \in 0 .. MaxMarches
      /\ phase # 4 => served.aiStep = aiStep
  BY DrivenTyped, UndrivenTyped DEF TurnInv
<1>6. b \in {None} \union Sides
  BY MeetingTyped DEF TurnInv
<1>7. /\ turn' \in Turns /\ turn' # None /\ InFlight'
      /\ turn'.stage = "Tail" /\ turn'.tail # None /\ turn'.siege = FALSE /\ turn'.idle = FALSE
      /\ turn'.question = None /\ turn'.opening = turn.opening
      /\ turn'.tail.battle = b /\ (turn'.tail.season => phase = 7)
  <2> DEFINE ends == phase = 7
             tail == [battle |-> b, season |-> ends]
  <2>1. ends \in BOOLEAN /\ turn' = [turn EXCEPT !.stage = "Tail", !.tail = tail]
    BY <1>4
  <2> HIDE DEF ends
  <2>2. tail \in Tails /\ tail # None /\ tail.battle = b /\ tail.season = ends
    BY <1>6, <2>1, TurnAssumption DEF Tails
  <2> HIDE DEF tail
  <2>3. /\ turn' \in Turns /\ turn'.stage = "Tail" /\ turn'.tail = tail /\ turn'.siege = turn.siege
        /\ turn'.idle = turn.idle /\ turn'.question = turn.question /\ turn'.opening = turn.opening
    BY <1>1, <2>1, <2>2 DEF Turns
  <2>4. turn.siege = FALSE /\ turn.idle = FALSE
    BY <1>1 DEF Turns
  <2>5. QED
    BY <1>1, <2>2, <2>3, <2>4, TurnAssumption DEF InFlight, ends
<1>8. /\ phase \in 1 .. 7 /\ step \in 0 .. 2 /\ moving \in 0 .. MaxPath /\ MaxPath \in Nat
      /\ raised \in Nat /\ settled \in Nat /\ raised = settled
  BY <1>1, TurnAssumption DEF TurnInv, TypeOK, BattlesDecidedOnce, Undecided, Asked
<1>9. /\ over /\ phase \in {3, 5, 6} => moving = 0
      /\ over /\ phase = 4 => \A r \in alive \ seats : served.aiStep[r] = Done
      /\ phase = 7 => over
  BY DEF Over
<1> HIDE DEF over
<1>10. /\ phase' \in 1 .. 7 /\ step' \in 0 .. 2 /\ (over => step' = 0)
       /\ ~over => phase' = phase /\ step' > 0
       /\ over => phase' = IF phase = 7 THEN 1 ELSE phase + 1
  <2>1. Min({step + 1, 2}) \in 1 .. 2
    <3>1. step + 1 \in Int /\ 2 \in Int /\ step + 1 \in 1 .. 3
      BY <1>8
    <3>2. Min({step + 1, 2}) \in {step + 1, 2} /\ Min({step + 1, 2}) <= 2
      BY <3>1, MinOfTwo, Zenon
    <3>3. QED
      BY <3>1, <3>2
  <2>2. (phase % 7) + 1 = IF phase = 7 THEN 1 ELSE phase + 1
    BY <1>8
  <2>3. QED
    BY <1>4, <1>8, <2>1, <2>2
<1>11. moving' \in 0 .. MaxPath /\ (moving = 0 => moving' = 0)
  BY <1>4, <1>8
<1>12. aiStep' \in [Realms -> 0 .. Done]
  BY <1>4, <1>5, TurnAssumption DEF Done
<1>13. TypeOK'
  <2>1. cursor' \in Realms
    BY <1>4, <1>5, TurnAssumption DEF Realms
  <2>2. march' \in [Realms -> 0 .. MaxPath] /\ left' \in 0 .. MaxMarches /\ prologue' \in [Realms -> Nat]
    BY <1>4, <1>5, WalkedTyped DEF TurnInv, TypeOK
  <2>3. raised' \in Nat /\ settled' \in Nat
    BY <1>2, <1>4, <1>8 DEF Met
  <2>4. opened' \in BOOLEAN
    BY <1>4
  <2>5. QED
    BY <1>2, <1>7, <1>10, <1>11, <1>12, <2>1, <2>2, <2>3, <2>4 DEF TurnInv, TypeOK
<1>14. Suspended'
  <2>1. turn'.opening /\ phase' = 4 => step' = 0
    BY <1>1, <1>7, <1>8, <1>10
  <2>2. phase = 7 => phase' = 1
    BY <1>9, <1>10
  <2>3. QED
    BY <1>7, <2>1, <2>2 DEF Suspended
<1>15. Opened' /\ PrologueFirst'
  <2>1. CASE phase = 7
    <3>1. phase' = 1 /\ ~opened
      BY <1>9, <1>10, <2>1 DEF TurnInv, Opened
    <3>2. /\ prologue' = [r \in Realms |-> 0]
          /\ aiStep' = [r \in Realms |-> IF r \in alive THEN 0 ELSE Done] /\ ~opened'
      BY <1>4, <2>1, <3>1
    <3>3. Fresh' /\ PrologueFirst'
      BY <1>2, <3>2 DEF Fresh, PrologueFirst
    <3>4. ~Begun' /\ phase' # 4 /\ phase' \notin {5, 6, 7}
      BY <3>1 DEF Begun
    <3>5. QED
      BY <3>2, <3>3, <3>4 DEF Opened
  <2>2. CASE phase # 7
    <3>1. prologue' = prologue /\ aiStep' = served.aiStep
      BY <1>4, <2>2
    <3>2. PrologueFirst'
      <4>1. CASE phase = 4
        <5>1. Prepared
          BY <1>1, <4>1 DEF TurnInv, Opened, Begun
        <5>2. QED
          BY <1>2, <3>1, <5>1 DEF TurnInv, PrologueFirst, Prepared
      <4>2. CASE phase # 4
        BY <1>2, <1>5, <3>1, <4>2 DEF TurnInv, PrologueFirst
      <4>3. QED
        BY <4>1, <4>2
    <3>3. Begun' => Begun
      BY <1>1, <1>7, <1>8, <1>10 DEF Begun
    <3>4. (opened' => opened) /\ (phase' = 5 /\ over => ~opened')
      <4>1. phase' = 5 /\ over => phase = 4
        BY <1>8, <1>10
      <4>2. QED
        BY <1>4, <4>1
    <3>5. Prepared' = Prepared /\ Fresh' = Fresh
      BY <1>2, <3>1 DEF Prepared, Fresh
    <3>6. opened' \/ Begun' => Prepared'
      BY <3>3, <3>4, <3>5 DEF TurnInv, Opened
    <3>7. ~opened' /\ ~Begun' /\ phase' \in 1 .. 4 => Fresh'
      <4> SUFFICES ASSUME ~opened', ~Begun', phase' \in 1 .. 4 PROVE Fresh
        BY <3>5
      <4>1. CASE phase = 4
        BY <1>8, <1>10, <4>1 DEF Begun
      <4>2. CASE phase # 4
        <5>1. phase \in 1 .. 4 /\ ~Begun
          BY <1>8, <1>10, <2>2, <4>2 DEF Begun
        <5>2. ~opened
          BY <1>4, <4>2
        <5>3. QED
          BY <5>1, <5>2 DEF TurnInv, Opened
      <4>3. QED
        BY <4>1, <4>2
    <3>8. phase' \in {5, 6, 7} => ~opened'
      BY <1>8, <1>10, <2>2, <3>4 DEF TurnInv, Opened
    <3>9. QED
      BY <1>7, <3>2, <3>6, <3>7, <3>8 DEF Opened
  <2>3. QED
    BY <2>1, <2>2
<1>16. Attended'
  BY <1>1, <1>2 DEF TurnInv, Attended, Deciding
<1>17. Finished'
  <2>1. moving' > 0 => phase' \in {3, 5, 6}
    BY <1>8, <1>9, <1>10, <1>11 DEF TurnInv, Finished
  <2>2. phase' \in {5, 6, 7} => \A r \in Computers \intersect alive : aiStep'[r] = Done
    <3> SUFFICES ASSUME phase' \in {5, 6, 7} PROVE \A r \in Computers \intersect alive : aiStep'[r] = Done
      OBVIOUS
    <3>1. phase # 7 /\ aiStep' = served.aiStep
      BY <1>4, <1>8, <1>9, <1>10
    <3>2. CASE phase = 4
      BY <1>9, <1>10, <3>1, <3>2 DEF TurnInv, TypeOK, Computers
    <3>3. CASE phase # 4
      BY <1>5, <1>8, <1>10, <3>1, <3>3 DEF TurnInv, Finished
    <3>4. QED
      BY <3>2, <3>3
  <2>3. QED
    BY <1>2, <1>7, <2>1, <2>2 DEF Finished
<1>18. BattlesDecidedOnce'
  <2>1. CASE b = None
    <3>1. Undecided' = 0
      BY <1>7, <2>1 DEF Undecided, Asked
    <3>2. QED
      BY <1>2, <1>4, <1>8, <2>1, <3>1 DEF BattlesDecidedOnce, Met
  <2>2. CASE b # None
    <3>1. Undecided' = 1
      BY <1>7, <2>2 DEF Undecided, Asked
    <3>2. QED
      BY <1>2, <1>4, <1>8, <2>2, <3>1 DEF BattlesDecidedOnce, Met
  <2>3. QED
    BY <2>1, <2>2
<1>19. QED
  BY <1>13, <1>14, <1>15, <1>16, <1>17, <1>18 DEF TurnInv

LEMMA TailKeeps == ASSUME TurnInv, RoundTail PROVE TurnInv'
<1> DEFINE b == turn.tail.battle
           after == [turn EXCEPT !.tail.battle = None]
           opens == turn.opening /\ phase = 4
<1>1. /\ InFlight /\ ~Asked /\ turn \in Turns /\ turn # None /\ turn.question = None
      /\ ~turn.idle /\ turn.stage = "Tail" /\ turn.tail \in Tails /\ turn.tail # None /\ ~turn.siege
  BY DEF TurnInv, TypeOK, RoundTail, Clear, InFlight, Asked, Suspended, Turns
<1>2. UNCHANGED <<phase, step, cursor, aiStep, seats, march, moving, left, fight, raised, posted>>
  BY DEF RoundTail, units
<1>3. /\ b \in {None} \union Sides /\ (turn.tail.season => phase = 1)
      /\ (opens => step = 0) /\ ~fight /\ \A s \in seats : ~Deciding(s)
  BY <1>1 DEF Tails, TurnInv, Suspended, Attended
<1>4. /\ raised \in Nat /\ settled \in Nat
      /\ b = None => raised = settled
      /\ b # None => raised = settled + 1
  <2>1. Undecided = IF b # None THEN 1 ELSE 0
    BY <1>1 DEF Undecided
  <2>2. CASE b = None
    BY <2>1, <2>2 DEF TurnInv, TypeOK, BattlesDecidedOnce
  <2>3. CASE b # None
    BY <2>1, <2>3 DEF TurnInv, TypeOK, BattlesDecidedOnce
  <2>4. QED
    BY <2>2, <2>3 DEF TurnInv, TypeOK
<1>5. /\ after \in Turns /\ after # None /\ after.tail # None /\ after.tail \in Tails
      /\ after.tail.battle = None /\ after.tail.season = turn.tail.season
      /\ after.idle = turn.idle /\ after.opening = turn.opening /\ after.stage = turn.stage
      /\ after.siege = turn.siege /\ after.question = None
  <2> DEFINE tail == [turn.tail EXCEPT !.battle = None]
  <2>1. tail \in Tails /\ tail # None /\ tail.battle = None /\ tail.season = turn.tail.season
    BY <1>1, TurnAssumption DEF Tails
  <2>2. after = [turn EXCEPT !.tail = tail]
    OBVIOUS
  <2> HIDE DEF tail, after
  <2>3. QED
    BY <1>1, <2>1, <2>2, TurnAssumption DEF Turns
<1>6. ASSUME b # None, UNCHANGED <<opened, prologue, input>>,
             \/ /\ turn' = [after EXCEPT !.question = QuestionFor(b)]
                /\ UNCHANGED <<alive, settled>>
             \/ Settlement(b) # "Prompt" /\ Decide(b, after)
      PROVE  TurnInv'
  <2>1. b \in Sides /\ b.a \in Realms /\ b.d \in Realms
    BY <1>3, <1>6 DEF Sides
  <2> HIDE DEF b, after
  <2>2. /\ turn' \in Turns /\ turn'.tail = after.tail /\ turn'.idle = turn.idle /\ turn'.opening = turn.opening
        /\ turn'.stage = turn.stage /\ turn'.siege = turn.siege /\ alive' \subseteq alive /\ settled' \in Nat
        /\ turn'.question = None => raised = settled' + 0
        /\ turn'.question # None => raised = settled' + 1
    <3>1. CASE turn' = [after EXCEPT !.question = QuestionFor(b)] /\ UNCHANGED <<alive, settled>>
      <4>1. QuestionFor(b) \in Questions /\ QuestionFor(b) # None
        BY <2>1, QuestionTyped DEF TurnInv
      <4>2. /\ turn' \in Turns /\ turn'.tail = after.tail /\ turn'.idle = turn.idle /\ turn'.opening = turn.opening
            /\ turn'.stage = turn.stage /\ turn'.siege = turn.siege /\ turn'.question = QuestionFor(b)
        BY <1>5, <3>1, <4>1 DEF Turns
      <4>3. QED
        BY <1>4, <1>6, <3>1, <4>1, <4>2
    <3>2. CASE Decide(b, after)
      <4>1. settled' = settled + 1 /\ alive' \subseteq alive /\ Kept(after, turn')
        BY <1>5, <2>1, <3>2, Decided DEF TurnInv
      <4>2. QED
        BY <1>4, <1>5, <1>6, <4>1 DEF Kept
    <3>3. QED
      BY <1>6, <3>1, <3>2
  <2>3. turn' # None /\ InFlight'
    BY <2>2, TurnAssumption DEF InFlight
  <2>4. TypeOK'
    BY <1>2, <1>6, <2>2, <2>3 DEF TurnInv, TypeOK
  <2>5. Suspended'
    BY <1>1, <1>2, <1>3, <1>5, <2>2, <2>3 DEF Suspended
  <2>6. Opened' /\ PrologueFirst'
    BY <1>1, <1>2, <1>6, <2>2, <2>3 DEF TurnInv, Opened, Begun, Prepared, Fresh, PrologueFirst
  <2>7. Attended'
    BY <1>2, <1>3, <1>6 DEF TurnInv, Attended, Deciding
  <2>8. Finished'
    BY <1>1, <1>2, <2>2 DEF TurnInv, Finished
  <2>9. BattlesDecidedOnce'
    <3>1. CASE turn'.question = None
      <4>1. Undecided' = 0
        BY <1>5, <2>2, <3>1 DEF Undecided, Asked
      <4>2. QED
        BY <1>2, <2>2, <3>1, <4>1 DEF BattlesDecidedOnce
    <3>2. CASE turn'.question # None
      <4>1. Undecided' = 1
        BY <1>5, <2>2, <2>3, <3>2 DEF Undecided, Asked
      <4>2. QED
        BY <1>2, <2>2, <3>2, <4>1 DEF BattlesDecidedOnce
    <3>3. QED
      BY <3>1, <3>2
  <2>10. QED
    BY <2>4, <2>5, <2>6, <2>7, <2>8, <2>9 DEF TurnInv
<1>7. ASSUME b = None, input' = "Out", UNCHANGED <<alive, settled>>,
             turn' = IF turn.tail.season \/ opens THEN None ELSE [turn EXCEPT !.stage = "Begin", !.tail = None],
             IF opens /\ ~turn.tail.season THEN OpenPlayersTurn ELSE UNCHANGED <<opened, prologue>>
      PROVE  TurnInv'
  <2>1. \/ turn' = None /\ (phase = 1 \/ opens)
        \/ /\ turn' \in Turns /\ turn' # None /\ turn'.stage = "Begin" /\ turn'.tail = None /\ ~opens
           /\ turn'.idle = turn.idle /\ turn'.opening = turn.opening /\ turn'.siege = turn.siege
           /\ turn'.question = None
    <3>1. CASE turn.tail.season \/ opens
      BY <1>3, <1>7, <3>1
    <3>2. CASE ~(turn.tail.season \/ opens)
      <4>1. turn' = [turn EXCEPT !.stage = "Begin", !.tail = None] /\ ~opens
        BY <1>7, <3>2
      <4> HIDE DEF opens
      <4>2. turn' \in Turns /\ turn'.question = turn.question
        BY <1>1, <4>1 DEF Turns
      <4>3. /\ turn'.stage = "Begin" /\ turn'.tail = None /\ turn'.siege = turn.siege
            /\ turn'.idle = turn.idle /\ turn'.opening = turn.opening
        BY <1>1, <4>1 DEF Turns
      <4>4. QED
        BY <1>1, <4>1, <4>2, <4>3, TurnAssumption
    <3>3. QED
      BY <3>1, <3>2
  <2>2. /\ prologue' \in [Realms -> Nat] /\ opened' \in BOOLEAN /\ PrologueFirst'
        /\ opens => opened' /\ Prepared'
        /\ ~opens => UNCHANGED <<opened, prologue>>
    <3>1. CASE opens /\ ~turn.tail.season /\ ~opened
      <4>1. Fresh
        BY <1>1, <1>3, <3>1 DEF TurnInv, Opened, Begun
      <4>2. prologue' = Prologue /\ opened' = TRUE
        BY <1>7, <3>1 DEF OpenPlayersTurn
      <4>3. QED
        BY <1>2, <1>7, <3>1, <4>1, <4>2, PrologueOnce DEF TurnInv, PrologueFirst, Prepared
    <3>2. CASE opens /\ ~turn.tail.season /\ opened
      <4>1. prologue' = prologue /\ opened' = TRUE /\ Prepared
        BY <1>7, <3>2 DEF OpenPlayersTurn, TurnInv, Opened
      <4>2. QED
        BY <1>2, <1>7, <3>2, <4>1 DEF TurnInv, TypeOK, PrologueFirst, Prepared
    <3>3. CASE ~(opens /\ ~turn.tail.season)
      <4>1. ~opens
        BY <1>3, <3>3
      <4>2. UNCHANGED <<opened, prologue>>
        BY <1>7, <3>3
      <4>3. QED
        BY <1>2, <1>7, <4>1, <4>2 DEF TurnInv, TypeOK, PrologueFirst
    <3>4. QED
      BY <3>1, <3>2, <3>3
  <2>3. TypeOK'
    BY <1>2, <1>7, <2>1, <2>2 DEF TurnInv, TypeOK
  <2>4. Suspended'
    BY <1>1, <1>2, <2>1 DEF TurnInv, Suspended, InFlight
  <2>5. Opened'
    <3>1. CASE opens
      BY <1>2, <2>1, <2>2, <3>1 DEF Opened
    <3>2. CASE ~opens
      BY <1>1, <1>2, <1>7, <2>1, <2>2, <3>2 DEF TurnInv, Opened, Begun, Prepared, Fresh, InFlight
    <3>3. QED
      BY <3>1, <3>2
  <2>6. Attended'
    BY <1>2, <1>3, <1>7 DEF TurnInv, Attended, Deciding
  <2>7. Finished'
    BY <1>1, <1>2, <1>7, <2>1 DEF TurnInv, Finished, InFlight
  <2>8. BattlesDecidedOnce'
    <3>1. Undecided' = 0
      BY <2>1 DEF Undecided, Asked, InFlight
    <3>2. QED
      BY <1>2, <1>4, <1>7, <3>1 DEF BattlesDecidedOnce
  <2>9. QED
    BY <2>2, <2>3, <2>4, <2>5, <2>6, <2>7, <2>8 DEF TurnInv
<1>8. \/ /\ b # None /\ UNCHANGED <<opened, prologue, input>>
         /\ turn' = [after EXCEPT !.question = QuestionFor(b)] /\ UNCHANGED <<alive, settled>>
      \/ /\ b # None /\ UNCHANGED <<opened, prologue, input>> /\ Settlement(b) # "Prompt" /\ Decide(b, after)
      \/ /\ b = None /\ input' = "Out" /\ UNCHANGED <<alive, settled>>
         /\ turn' = IF turn.tail.season \/ opens THEN None ELSE [turn EXCEPT !.stage = "Begin", !.tail = None]
         /\ IF opens /\ ~turn.tail.season THEN OpenPlayersTurn ELSE UNCHANGED <<opened, prologue>>
  BY Zenon DEF RoundTail, Return
<1>9. QED
  BY <1>6, <1>7, <1>8

(***************************************************************************)
(* A tick of the world.                                                    *)
(***************************************************************************)
LEMMA ProgressTyped ==
  ASSUME NEW idle \in BOOLEAN, NEW opening \in BOOLEAN
  PROVE  LET t == Progress(idle, opening) IN
         /\ t \in Turns /\ t # None /\ t.idle = idle /\ t.opening = opening /\ t.stage = "Begin"
         /\ t.siege = FALSE /\ t.question = None /\ t.tail = None
<1> DEFINE t == Progress(idle, opening)
<1>1. /\ t \in Turns /\ t.idle = idle /\ t.opening = opening /\ t.stage = "Begin"
      /\ t.siege = FALSE /\ t.question = None /\ t.tail = None
  BY DEF Progress, Turns
<1>2. QED
  BY <1>1, TurnAssumption

\* The orders on their way come nearer and stay what they are.
LEMMA TickKeepsOrders ==
  ASSUME TypeOK, NoneDue, posted' = NextTick
  PROVE  /\ posted' \in [Humans -> {None} \union Orders]
         /\ \A s \in Humans : posted[s] = None => posted'[s] = None
         /\ \A s \in Humans : posted[s] # None =>
              /\ posted'[s] # None
              /\ posted'[s].kind = posted[s].kind /\ posted'[s].realm = posted[s].realm
<1>1. ASSUME NEW s \in Humans
      PROVE  /\ posted'[s] \in {None} \union Orders
             /\ posted[s] = None => posted'[s] = None
             /\ posted[s] # None =>
                  /\ posted'[s] # None
                  /\ posted'[s].kind = posted[s].kind /\ posted'[s].realm = posted[s].realm
  <2>1. posted'[s] = IF posted[s] = None THEN None ELSE [posted[s] EXCEPT !.due = @ - 1]
    BY DEF NextTick
  <2>2. CASE posted[s] = None
    BY <2>1, <2>2
  <2>3. CASE posted[s] # None
    <3> DEFINE o == posted[s]
               soon == o.due - 1
    <3>1. o \in Orders /\ o.due > 0
      BY <2>3 DEF TypeOK, NoneDue
    <3>2. soon \in 0 .. Delay
      BY <3>1, TurnAssumption DEF Orders
    <3>3. posted'[s] = [o EXCEPT !.due = soon]
      BY <2>1, <2>3
    <3> HIDE DEF o, soon
    <3>4. posted'[s] \in Orders /\ posted'[s].kind = o.kind /\ posted'[s].realm = o.realm
      BY <3>1, <3>2, <3>3 DEF Orders
    <3> USE DEF o
    <3>5. QED
      BY <2>3, <3>4, TurnAssumption
  <2>4. QED
    BY <2>2, <2>3
<1>2. posted' = [s \in Humans |-> posted'[s]]
  BY DEF NextTick
<1>3. QED
  BY <1>1, <1>2

\* An order a seat has on its way after a tick it had before it.
LEMMA TickDecides ==
  ASSUME TypeOK, NoneDue, posted' = NextTick, NEW s \in Humans
  PROVE  /\ Deciding(s)' => Deciding(s)
         /\ posted'[s] # None /\ posted'[s].kind = "ToComputer" =>
              posted[s] # None /\ posted[s].kind = "ToComputer" /\ posted'[s].realm = posted[s].realm
BY TickKeepsOrders DEF Deciding

LEMMA HoldsKeeps ==
  ASSUME TurnInv, NoneDue, posted' = NextTick, FrameHolds
  PROVE  TurnInv'
<1>1. UNCHANGED <<phase, step, opened, cursor, aiStep, alive, seats, prologue, march, moving, left, fight, raised, settled, turn, input>>
  BY DEF FrameHolds, machine, realms, units, battles
<1>2. TypeOK'
  BY <1>1, TickKeepsOrders DEF TurnInv, TypeOK, InFlight
<1>3. Suspended' /\ Opened' /\ PrologueFirst'
  BY <1>1 DEF TurnInv, Suspended, Opened, Begun, Prepared, Fresh, PrologueFirst, InFlight
<1>4. Attended'
  <2>1. seats \subseteq Humans
    BY DEF TurnInv, TypeOK
  <2>2. \A s \in Humans : Deciding(s)' => Deciding(s)
    BY TickDecides DEF TurnInv
  <2>3. \A s \in Humans : posted'[s] # None /\ posted'[s].kind = "ToComputer" => posted'[s].realm \in Leaving
    BY TickDecides DEF TurnInv, Attended
  <2>4. Asked' = Asked /\ Seated' = Seated
    BY <1>1 DEF Asked, InFlight, Seated
  <2>5. \A s \in seats : Deciding(s)' =>
          Asked' /\ ~fight' /\ turn'.question.choice = 1 /\ (Seated' => s = Chooser(turn.question)')
    BY <1>1, <2>1, <2>2, <2>4 DEF TurnInv, Attended, Chooser
  <2>6. QED
    BY <1>1, <2>1, <2>2, <2>3, <2>4, <2>5 DEF TurnInv, Attended
<1>5. Finished' /\ BattlesDecidedOnce'
  BY <1>1 DEF TurnInv, Finished, BattlesDecidedOnce, Undecided, Asked, InFlight
<1>6. QED
  BY <1>2, <1>3, <1>4, <1>5 DEF TurnInv

\* Fewer seats: the one that decides a battle is still the one.
LEMMA ChooserStays ==
  ASSUME TypeOK, seats' \subseteq seats, NEW q, NEW s \in seats', Seated => s = Chooser(q)
  PROVE  Seated' => s = IF q.a \in seats' THEN q.a ELSE q.d
<1>1. IsFiniteSet(seats)
  <2>1. IsFiniteSet(Realms)
    BY TurnAssumption, FS_Interval DEF Realms
  <2>2. QED
    BY <2>1, FS_Subset, TurnAssumption DEF TypeOK
<1>2. /\ Cardinality(seats') <= Cardinality(seats)
      /\ Cardinality(seats') \in Nat /\ Cardinality(seats) \in Nat
  BY <1>1, FS_Subset, FS_CardinalityType
<1>3. Seated' => Seated
  BY <1>2 DEF Seated
<1>4. QED
  BY <1>3 DEF Chooser

\* The orders of the seats are as they were, or fewer.
FewerOrders ==
  \A s \in Humans :
    /\ Deciding(s)' => Deciding(s)
    /\ posted'[s] # None /\ posted'[s].kind = "ToComputer" => posted'[s].realm \in Leaving

\* A battle that is asked about goes on being one seat's.
LEMMA AttendedStays ==
  ASSUME TurnInv, seats' \subseteq seats, turn' = turn, FewerOrders, fight' => Asked,
         input' = "Answer" => ~fight' /\ \A s \in seats' : ~Deciding(s)',
         \A s \in seats' : Deciding(s)' => ~fight'
  PROVE  Attended'
<1>1. Asked' = Asked /\ seats' \subseteq Humans
  BY DEF Asked, InFlight, TurnInv, TypeOK
<1>2. ASSUME NEW s \in seats', Deciding(s)'
      PROVE  /\ Asked' /\ ~fight' /\ turn'.question.choice = 1
             /\ Seated' => s = Chooser(turn.question)'
  <2>1. s \in seats /\ Deciding(s)
    BY <1>1, <1>2 DEF FewerOrders
  <2>2. Asked /\ turn.question.choice = 1 /\ (Seated => s = Chooser(turn.question))
    BY <2>1 DEF TurnInv, Attended
  <2>3. Seated' => s = IF turn.question.a \in seats' THEN turn.question.a ELSE turn.question.d
    BY <2>2, ChooserStays DEF TurnInv
  <2>4. Chooser(turn.question)' = IF turn.question.a \in seats' THEN turn.question.a ELSE turn.question.d
    BY DEF Chooser
  <2>5. QED
    BY <1>1, <1>2, <2>2, <2>3, <2>4
<1>3. QED
  BY <1>1, <1>2 DEF Attended, FewerOrders

\* Opening the players' turn, or leaving it as it is, while no phase is wound on.
LEMMA OpeningKeeps ==
  ASSUME TurnInv, ~InFlight, OpenPlayersTurn \/ UNCHANGED <<opened, prologue>>,
         UNCHANGED <<phase, step, alive>>, \A r \in Computers : aiStep'[r] = aiStep[r]
  PROVE  /\ opened' \in BOOLEAN /\ prologue' \in [Realms -> Nat] /\ PrologueFirst'
         /\ phase \in {1, 4} /\ (opened' => Prepared') /\ (opened => opened')
         /\ ~opened' => Fresh'
<1>1. phase \in {1, 4} /\ (phase = 4 => opened) /\ (opened => Prepared) /\ (~opened => Fresh)
  BY DEF TurnInv, Suspended, Opened, Begun
<1>2. CASE UNCHANGED <<opened, prologue>>
  BY <1>1, <1>2 DEF TurnInv, TypeOK, PrologueFirst, Prepared, Fresh
<1>3. CASE OpenPlayersTurn /\ ~opened
  <2>1. Fresh /\ prologue' = Prologue /\ opened' = TRUE
    BY <1>1, <1>3 DEF OpenPlayersTurn
  <2>2. QED
    BY <1>1, <2>1, PrologueOnce DEF TurnInv, PrologueFirst, Prepared
<1>4. CASE OpenPlayersTurn /\ opened
  BY <1>1, <1>4 DEF OpenPlayersTurn, TurnInv, TypeOK, PrologueFirst, Prepared
<1>5. QED
  BY <1>2, <1>3, <1>4

LEMMA NothingPending ==
  ASSUME turn'.question = None, turn'.tail = None PROVE Undecided' = 0
BY DEF Undecided, Asked

\* A wind-on that is begun where there is none.
LEMMA EnteringKeeps ==
  ASSUME TurnInv, ~InFlight, NEW opening \in BOOLEAN, opening => phase # 4,
         turn' = Progress(FALSE, opening), input' \in {"Start", "Dismiss"},
         UNCHANGED <<phase, step, alive, fight, moving, raised, settled>>, seats' \subseteq seats, FewerOrders,
         OpenPlayersTurn \/ UNCHANGED <<opened, prologue>>, \A r \in Computers : aiStep'[r] = aiStep[r]
  PROVE  /\ Suspended' /\ Attended' /\ Opened' /\ Finished' /\ BattlesDecidedOnce' /\ PrologueFirst'
         /\ turn' \in Turns /\ InFlight' /\ opened' \in BOOLEAN /\ prologue' \in [Realms -> Nat]
<1>1. /\ turn' \in Turns /\ turn' # None /\ turn'.idle = FALSE /\ turn'.opening = opening
      /\ turn'.stage = "Begin" /\ turn'.siege = FALSE /\ turn'.question = None /\ turn'.tail = None
      /\ InFlight' /\ ~Asked'
  BY ProgressTyped DEF InFlight, Asked
<1>2. /\ opened' \in BOOLEAN /\ prologue' \in [Realms -> Nat] /\ PrologueFirst'
      /\ phase \in {1, 4} /\ (opened' => Prepared') /\ (opened => opened') /\ (~opened' => Fresh')
  BY OpeningKeeps
<1>3. phase = 4 => opened
  BY DEF TurnInv, Opened
<1>4. Suspended'
  BY <1>1 DEF Suspended
<1>5. Attended'
  <2>1. ~fight /\ (\A s \in seats : ~Deciding(s)) /\ seats \subseteq Humans
    BY DEF TurnInv, TypeOK, Attended, Asked
  <2>2. \A s \in seats' : ~Deciding(s)'
    BY <2>1 DEF FewerOrders
  <2>3. QED
    BY <2>1, <2>2 DEF Attended, FewerOrders
<1>6. Opened'
  <2>1. phase' = 4 => opened'
    BY <1>2, <1>3
  <2>2. Begun' => phase' = 4
    BY DEF Begun
  <2>3. phase' \notin {5, 6, 7}
    BY <1>2
  <2>4. QED
    BY <1>2, <2>1, <2>2, <2>3 DEF Opened
<1>7. Finished'
  BY <1>1, <1>2 DEF TurnInv, Finished
<1>8. BattlesDecidedOnce'
  <2>1. Undecided = 0 /\ Undecided' = 0
    <3>1. Undecided = 0
      BY DEF Undecided, Asked
    <3>2. Undecided' = 0
      BY <1>1, NothingPending, Zenon
    <3>3. QED
      BY <3>1, <3>2
  <2>2. raised \in Nat /\ settled \in Nat /\ raised = settled
    BY <2>1 DEF TurnInv, TypeOK, BattlesDecidedOnce
  <2>3. QED
    BY <2>1, <2>2 DEF BattlesDecidedOnce
<1>9. QED
  BY <1>1, <1>2, <1>4, <1>5, <1>6, <1>7, <1>8

\* A wind-on, or its want, that an order leaves as it is.
LEMMA StayingKeeps ==
  ASSUME TurnInv, UNCHANGED <<phase, step, alive, moving, raised, settled, turn>>,
         \/ UNCHANGED <<opened, prologue>>
         \/ ~InFlight /\ OpenPlayersTurn,
         \A r \in Computers : aiStep'[r] = aiStep[r]
  PROVE  /\ Suspended' /\ Opened' /\ Finished' /\ BattlesDecidedOnce' /\ PrologueFirst'
         /\ opened' \in BOOLEAN /\ prologue' \in [Realms -> Nat]
<1>1. Suspended' /\ InFlight' = InFlight
  BY DEF TurnInv, Suspended, InFlight
<1>2. Finished'
  BY DEF TurnInv, Finished, InFlight
<1>3. BattlesDecidedOnce'
  BY DEF TurnInv, BattlesDecidedOnce, Undecided, Asked, InFlight
<1>4. CASE UNCHANGED <<opened, prologue>>
  <2>1. Opened' /\ PrologueFirst'
    BY <1>4 DEF TurnInv, Opened, Begun, Prepared, Fresh, PrologueFirst, InFlight
  <2>2. QED
    BY <1>1, <1>2, <1>3, <1>4, <2>1 DEF TurnInv, TypeOK
<1>5. CASE ~InFlight /\ OpenPlayersTurn
  <2>1. /\ opened' \in BOOLEAN /\ prologue' \in [Realms -> Nat] /\ PrologueFirst'
        /\ phase \in {1, 4} /\ (opened' => Prepared')
    BY <1>5, OpeningKeeps
  <2>2. opened' = TRUE
    BY <1>5 DEF OpenPlayersTurn
  <2>3. Opened'
    BY <2>1, <2>2 DEF Opened
  <2>4. QED
    BY <1>1, <1>2, <1>3, <2>1, <2>3
<1>6. QED
  BY <1>4, <1>5

LEMMA TickFewer ==
  ASSUME TurnInv, NoneDue, posted' = NextTick PROVE FewerOrders
BY TickDecides DEF FewerOrders, TurnInv, Attended

LEMMA WindsKeeps ==
  ASSUME TurnInv, NoneDue, posted' = NextTick, FrameWinds, input = "Out"
  PROVE  TurnInv'
<1>1. /\ UNCHANGED <<phase, step, opened, cursor, aiStep, alive, seats, prologue, march, moving, left, fight, raised, settled>>
      /\ input' = "Start" /\ ~fight /\ ~Asked
  BY DEF FrameWinds, machine, realms, units, battles, Enter
<1>2. FewerOrders /\ posted' \in [Humans -> {None} \union Orders]
  BY TickFewer, TickKeepsOrders DEF TurnInv
<1>3. CASE InFlight
  <2>1. turn' = turn
    BY <1>3 DEF FrameWinds, Enter, InFlight
  <2>2. /\ Suspended' /\ Opened' /\ Finished' /\ BattlesDecidedOnce' /\ PrologueFirst'
        /\ opened' \in BOOLEAN /\ prologue' \in [Realms -> Nat]
    BY <1>1, <2>1, StayingKeeps
  <2>3. Attended'
    BY <1>1, <1>2, <2>1, AttendedStays
  <2>4. TypeOK'
    BY <1>1, <1>2, <1>3, <2>1 DEF TurnInv, TypeOK, InFlight
  <2>5. QED
    BY <2>2, <2>3, <2>4 DEF TurnInv
<1>4. CASE ~InFlight
  <2>1. turn' = Progress(FALSE, TRUE) /\ phase # 4
    <3>1. Progress(FALSE, TRUE) # None
      BY ProgressTyped
    <3>2. QED
      BY <1>4, <3>1 DEF FrameWinds, Enter
  <2>2. /\ Suspended' /\ Attended' /\ Opened' /\ Finished' /\ BattlesDecidedOnce' /\ PrologueFirst'
        /\ turn' \in Turns /\ InFlight' /\ opened' \in BOOLEAN /\ prologue' \in [Realms -> Nat]
    BY <1>1, <1>2, <1>4, <2>1, EnteringKeeps
  <2>3. TypeOK'
    BY <1>1, <1>2, <2>2 DEF TurnInv, TypeOK
  <2>4. QED
    BY <2>2, <2>3 DEF TurnInv
<1>5. QED
  BY <1>3, <1>4

LEMMA TimesOutKeeps ==
  ASSUME TurnInv, NoneDue, posted' = NextTick, FrameTimesOut, input = "Out"
  PROVE  TurnInv'
<1>1. /\ UNCHANGED <<phase, step, opened, cursor, alive, seats, prologue, march, moving, left, fight, raised, settled>>
      /\ input' = "Start" /\ ~InFlight /\ turn' = Progress(FALSE, FALSE)
      /\ aiStep' = [r \in Realms |-> IF r \in seats THEN Done ELSE aiStep[r]]
  BY DEF FrameTimesOut, machine, units, battles, Enter, InFlight
<1>2. FewerOrders /\ posted' \in [Humans -> {None} \union Orders]
  BY TickFewer, TickKeepsOrders DEF TurnInv
<1>3. aiStep' \in [Realms -> 0 .. Done] /\ \A r \in Computers : aiStep'[r] = aiStep[r]
  <2>1. Done \in 0 .. Done /\ seats \subseteq Humans
    BY TurnAssumption DEF Done, TurnInv, TypeOK
  <2>2. QED
    BY <1>1, <2>1 DEF TurnInv, TypeOK, Computers
<1>4. /\ Suspended' /\ Attended' /\ Opened' /\ Finished' /\ BattlesDecidedOnce' /\ PrologueFirst'
      /\ turn' \in Turns /\ InFlight' /\ opened' \in BOOLEAN /\ prologue' \in [Realms -> Nat]
  BY <1>1, <1>2, <1>3, EnteringKeeps
<1>5. TypeOK'
  BY <1>1, <1>2, <1>3, <1>4 DEF TurnInv, TypeOK
<1>6. QED
  BY <1>4, <1>5 DEF TurnInv

LEMMA IdlesKeeps ==
  ASSUME TurnInv, NoneDue, posted' = NextTick, FrameIdles, input = "Out"
  PROVE  TurnInv'
<1> DEFINE idle == Progress(TRUE, FALSE)
<1>1. /\ UNCHANGED <<phase, step, seats, moving, fight, input>>
      /\ ~fight /\ ~InFlight /\ phase = 4 /\ turn = None /\ ~Asked
  BY DEF FrameIdles, InFlight, Asked
<1>2. opened /\ Prepared /\ opened' = TRUE /\ prologue' = prologue
  BY <1>1 DEF TurnInv, Opened, FrameIdles, OpenPlayersTurn
<1>2a. PICK served \in Driven : \E b \in Meetings(served.march) :
         /\ cursor' = served.cursor /\ aiStep' = served.aiStep
         /\ march' = Walked(served.march, b) /\ left' = served.left
         /\ raised' = Met(b)
         /\ CASE b = None -> UNCHANGED <<turn, alive, settled>>
             [] b # None /\ Settlement(b) = "Prompt" ->
                  turn' = [idle EXCEPT !.question = QuestionFor(b)] /\ UNCHANGED <<alive, settled>>
             [] b # None /\ Settlement(b) = "Reported" -> Decide(b, idle)
             [] b # None /\ Settlement(b) = "Silently" -> Decide(b, None)
  BY Zenon DEF FrameIdles
<1>3. PICK b \in Meetings(served.march) :
        /\ cursor' = served.cursor /\ aiStep' = served.aiStep
        /\ march' = Walked(served.march, b) /\ left' = served.left
        /\ raised' = Met(b)
        /\ CASE b = None -> UNCHANGED <<turn, alive, settled>>
            [] b # None /\ Settlement(b) = "Prompt" ->
                 turn' = [idle EXCEPT !.question = QuestionFor(b)] /\ UNCHANGED <<alive, settled>>
            [] b # None /\ Settlement(b) = "Reported" -> Decide(b, idle)
            [] b # None /\ Settlement(b) = "Silently" -> Decide(b, None)
  BY <1>2a
<1>4. /\ b \in {None} \union Sides
      /\ b # None => b \in Sides /\ b.a \in Realms /\ b.d \in Realms
  BY MeetingTyped DEF TurnInv, Sides
<1>5. Settlement(b) \in {"Prompt", "Reported", "Silently"}
  BY DEF Settlement
<1>6. /\ idle \in Turns /\ idle # None /\ idle.idle = TRUE /\ idle.opening = FALSE /\ idle.stage = "Begin"
      /\ idle.siege = FALSE /\ idle.question = None /\ idle.tail = None
  BY ProgressTyped
<1> HIDE DEF idle
<1>7. raised \in Nat /\ settled \in Nat /\ raised = settled
  BY <1>1 DEF TurnInv, TypeOK, BattlesDecidedOnce, Undecided, InFlight
<1>8. /\ alive' \subseteq alive /\ settled' \in Nat
      /\ \/ turn' = None /\ raised' = settled' + 0
         \/ /\ turn' \in Turns /\ turn'.idle = TRUE /\ turn'.opening = FALSE /\ turn'.stage = "Begin"
            /\ turn'.siege = FALSE /\ turn'.tail = None
            /\ turn'.question = None => raised' = settled' + 0
            /\ turn'.question # None => raised' = settled' + 1
  <2>1. CASE b = None
    BY <1>1, <1>3, <1>7, <2>1 DEF Met
  <2>2. CASE b # None /\ Settlement(b) = "Prompt"
    <3>1. turn' = [idle EXCEPT !.question = QuestionFor(b)] /\ UNCHANGED <<alive, settled>> /\ raised' = raised + 1
      BY <1>3, <2>2 DEF Met
    <3>2. QuestionFor(b) \in Questions /\ QuestionFor(b) # None
      BY <1>4, <2>2, QuestionTyped DEF TurnInv
    <3>3. /\ turn' \in Turns /\ turn'.idle = TRUE /\ turn'.opening = FALSE /\ turn'.stage = "Begin"
          /\ turn'.siege = FALSE /\ turn'.tail = None /\ turn'.question = QuestionFor(b)
      BY <1>6, <3>1, <3>2 DEF Turns
    <3>4. QED
      BY <1>7, <3>1, <3>2, <3>3
  <2>3. CASE b # None /\ Settlement(b) = "Reported"
    <3>1. Decide(b, idle) /\ raised' = raised + 1
      BY <1>3, <2>3 DEF Met
    <3>2. settled' = settled + 1 /\ alive' \subseteq alive /\ Kept(idle, turn')
      BY <1>4, <1>6, <2>3, <3>1, Decided DEF TurnInv
    <3>3. QED
      BY <1>6, <1>7, <3>1, <3>2 DEF Kept
  <2>4. CASE b # None /\ Settlement(b) = "Silently"
    <3>1. Decide(b, None) /\ raised' = raised + 1
      BY <1>3, <2>4 DEF Met
    <3>2. settled' = settled + 1 /\ alive' \subseteq alive /\ turn' = None
      BY <1>4, <2>4, <3>1, Decided DEF TurnInv
    <3>3. QED
      BY <1>7, <3>1, <3>2
  <2>5. QED
    BY <1>5, <2>1, <2>2, <2>3, <2>4
<1>9. TypeOK'
  <2>1. /\ cursor' \in Realms /\ aiStep' \in [Realms -> 0 .. Done] /\ left' \in 0 .. MaxMarches
        /\ march' \in [Realms -> 0 .. MaxPath]
    BY <1>3, DrivenTyped, WalkedTyped DEF TurnInv
  <2>2. posted' \in [Humans -> {None} \union Orders]
    BY TickKeepsOrders DEF TurnInv
  <2>3. raised' \in Nat
    BY <1>3, <1>7 DEF Met
  <2>4. turn' \in {None} \union Turns
    BY <1>8
  <2>5. QED
    BY <1>1, <1>2, <1>8, <2>1, <2>2, <2>3, <2>4 DEF TurnInv, TypeOK
<1>10. Suspended'
  BY <1>1, <1>8 DEF Suspended, InFlight
<1>11. Opened' /\ PrologueFirst'
  <2>1. Prepared'
    BY <1>2, <1>8 DEF Prepared
  <2>2. PrologueFirst'
    BY <1>2, <1>8, <2>1 DEF TurnInv, PrologueFirst, Prepared
  <2>3. QED
    BY <1>1, <1>2, <2>1, <2>2 DEF Opened
<1>12. Attended'
  <2>1. \A s \in seats : ~Deciding(s)'
    BY <1>1, TickFewer DEF TurnInv, TypeOK, Attended, FewerOrders
  <2>2. FewerOrders
    BY TickFewer
  <2>3. QED
    BY <1>1, <2>1, <2>2 DEF Attended, FewerOrders
<1>13. Finished'
  <2>1. moving' = 0
    BY <1>1 DEF TurnInv, TypeOK, Finished
  <2>2. ~(InFlight' /\ turn'.siege)
    BY <1>8 DEF InFlight
  <2>3. QED
    BY <1>1, <2>1, <2>2 DEF Finished
<1>14. BattlesDecidedOnce'
  <2>1. CASE turn' = None
    <3>1. Undecided' = 0
      BY <2>1 DEF Undecided, Asked, InFlight
    <3>2. raised' = settled' + 0
      BY <1>8, <2>1, TurnAssumption
    <3>3. QED
      BY <3>1, <3>2 DEF BattlesDecidedOnce
  <2>2. CASE turn' # None /\ turn'.question = None
    <3>1. turn'.tail = None /\ raised' = settled' + 0
      BY <1>8, <2>2
    <3>2. Undecided' = 0
      BY <2>2, <3>1, NothingPending
    <3>3. QED
      BY <3>1, <3>2 DEF BattlesDecidedOnce
  <2>3. CASE turn' # None /\ turn'.question # None
    <3>1. turn'.tail = None /\ raised' = settled' + 1
      BY <1>8, <2>3
    <3>2. Undecided' = 1
      BY <2>3, <3>1 DEF Undecided, Asked, InFlight
    <3>3. QED
      BY <3>1, <3>2 DEF BattlesDecidedOnce
  <2>4. QED
    BY <2>1, <2>2, <2>3
<1>15. QED
  BY <1>9, <1>10, <1>11, <1>12, <1>13, <1>14 DEF TurnInv

LEMMA FrameKeeps == ASSUME TurnInv, Frame PROVE TurnInv'
<1>1. input = "Out" /\ NoneDue /\ posted' = NextTick
  BY DEF Frame
<1>2. FrameHolds \/ FrameWinds \/ FrameIdles \/ FrameTimesOut
  BY DEF Frame
<1>3. QED
  BY <1>1, <1>2, HoldsKeeps, WindsKeeps, IdlesKeeps, TimesOutKeeps

(***************************************************************************)
(* The orders of the seats.                                                *)
(***************************************************************************)

\* What running any order of a seat does and leaves alone.
Running(s) ==
  /\ input = "Out" /\ s \in seats /\ posted[s] # None
  /\ posted' = [posted EXCEPT ![s] = None]
  /\ UNCHANGED <<phase, step, cursor, moving, raised>>

LEMMA RunFewer ==
  ASSUME TurnInv, NEW s \in Humans, posted' = [posted EXCEPT ![s] = None]
  PROVE  /\ FewerOrders /\ ~Deciding(s)' /\ posted' \in [Humans -> {None} \union Orders]
         /\ \A z \in Humans : z # s => posted'[z] = posted[z]
<1>1. posted \in [Humans -> {None} \union Orders]
  BY DEF TurnInv, TypeOK
<1>2. posted' \in [Humans -> {None} \union Orders] /\ posted'[s] = None
  BY <1>1
<1>3. \A z \in Humans : z # s => posted'[z] = posted[z]
  BY <1>1
<1>4. FewerOrders
  BY <1>2, <1>3 DEF FewerOrders, Deciding, TurnInv, Attended
<1>5. QED
  BY <1>2, <1>3, <1>4 DEF Deciding

\* An order that begins no wind-on and decides nothing.
LEMMA RunStays ==
  ASSUME TurnInv, NEW s \in Humans, Running(s), seats' \subseteq seats, Host \in seats',
         UNCHANGED <<alive, settled, turn, input, fight>>,
         UNCHANGED <<opened, prologue>> \/ (~InFlight /\ OpenPlayersTurn),
         aiStep' \in [Realms -> 0 .. Done], \A r \in Computers : aiStep'[r] = aiStep[r],
         march' \in [Realms -> 0 .. MaxPath], left' \in 0 .. MaxMarches
  PROVE  TurnInv'
<1>1. UNCHANGED <<phase, step, cursor, moving, raised>> /\ posted' = [posted EXCEPT ![s] = None] /\ input' = "Out"
  BY DEF Running
<1>2. FewerOrders /\ posted' \in [Humans -> {None} \union Orders]
  BY <1>1, RunFewer
<1>3. /\ Suspended' /\ Opened' /\ Finished' /\ BattlesDecidedOnce' /\ PrologueFirst'
      /\ opened' \in BOOLEAN /\ prologue' \in [Realms -> Nat]
  BY <1>1, StayingKeeps
<1>4. Attended'
  <2>1. (fight' => Asked) /\ \A z \in seats' : Deciding(z)' => ~fight'
    BY <1>2 DEF TurnInv, TypeOK, Attended, FewerOrders
  <2>2. QED
    BY <1>1, <1>2, <2>1, AttendedStays
<1>5. TypeOK'
  BY <1>1, <1>2, <1>3 DEF TurnInv, TypeOK
<1>6. QED
  BY <1>3, <1>4, <1>5 DEF TurnInv

\* An order that begins a wind-on.
LEMMA RunEnters ==
  ASSUME TurnInv, NEW s \in Humans, Running(s), seats' \subseteq seats, Host \in seats', ~InFlight,
         turn' = Progress(FALSE, FALSE), input' \in {"Start", "Dismiss"},
         UNCHANGED <<alive, settled, fight, march, left>>,
         OpenPlayersTurn \/ UNCHANGED <<opened, prologue>>,
         aiStep' \in [Realms -> 0 .. Done], \A r \in Computers : aiStep'[r] = aiStep[r]
  PROVE  TurnInv'
<1>1. UNCHANGED <<phase, step, cursor, moving, raised>> /\ posted' = [posted EXCEPT ![s] = None]
  BY DEF Running
<1>2. FewerOrders /\ posted' \in [Humans -> {None} \union Orders]
  BY <1>1, RunFewer
<1>3. /\ Suspended' /\ Attended' /\ Opened' /\ Finished' /\ BattlesDecidedOnce' /\ PrologueFirst'
      /\ turn' \in Turns /\ InFlight' /\ opened' \in BOOLEAN /\ prologue' \in [Realms -> Nat]
  BY <1>1, <1>2, EnteringKeeps
<1>4. TypeOK'
  BY <1>1, <1>2, <1>3 DEF TurnInv, TypeOK
<1>5. QED
  BY <1>3, <1>4 DEF TurnInv

\* Ending turns touches no computer's realm.
LEMMA EndsTyped ==
  ASSUME TypeOK, seats' \subseteq seats, NEW ai \in [Realms -> 0 .. Done]
  PROVE  EndAll(ai) \in [Realms -> 0 .. Done] /\ \A r \in Computers : EndAll(ai)[r] = ai[r]
<1>1. Done \in 0 .. Done /\ seats' \subseteq Humans
  BY TurnAssumption DEF Done, TypeOK
<1>2. QED
  BY <1>1 DEF EndAll, Computers

LEMMA EndTurnKeeps ==
  ASSUME TurnInv, NEW s \in Humans, Running(s), RunEndTurn(s) PROVE TurnInv'
<1>1. /\ seats' = seats /\ UNCHANGED <<alive, fight, settled, march, left>> /\ input = "Out"
      /\ Host \in seats' /\ march' \in [Realms -> 0 .. MaxPath] /\ left' \in 0 .. MaxMarches
      /\ aiStep \in [Realms -> 0 .. Done]
  BY DEF RunEndTurn, Running, TurnInv, TypeOK
<1>2. CASE InFlight
  <2>1. UNCHANGED <<turn, input, opened, prologue, aiStep>>
    BY <1>2 DEF RunEndTurn
  <2>2. QED
    BY <1>1, <2>1, RunStays
<1>3. CASE ~InFlight
  <2> DEFINE ready == IF Seated THEN [aiStep EXCEPT ![s] = Done] ELSE aiStep
  <2>1. ready \in [Realms -> 0 .. Done] /\ \A r \in Computers : ready[r] = aiStep[r]
    <3>1. Done \in 0 .. Done /\ s \notin Computers
      BY TurnAssumption DEF Done, Computers
    <3>2. QED
      BY <1>1, <3>1 DEF Computers
  <2>2. /\ IF Seated THEN OpenPlayersTurn ELSE UNCHANGED <<opened, prologue>>
        /\ IF Seated /\ ~EverySeatReady(ready)
           THEN aiStep' = ready /\ UNCHANGED <<turn, input>>
           ELSE aiStep' = EndAll(ready) /\ Enter("Start", None)
    BY <1>3, Zenon DEF RunEndTurn
  <2> HIDE DEF ready
  <2>3. OpenPlayersTurn \/ UNCHANGED <<opened, prologue>>
    BY <2>2
  <2>4. CASE aiStep' = ready /\ UNCHANGED <<turn, input>>
    BY <1>1, <1>3, <2>1, <2>3, <2>4, RunStays
  <2>5. CASE aiStep' = EndAll(ready) /\ Enter("Start", None)
    <3>1. turn' = Progress(FALSE, FALSE) /\ input' = "Start"
      BY <2>5 DEF Enter
    <3>2. aiStep' \in [Realms -> 0 .. Done] /\ \A r \in Computers : aiStep'[r] = aiStep[r]
      BY <1>1, <2>1, <2>5, EndsTyped DEF TurnInv
    <3>3. QED
      BY <1>1, <1>3, <2>3, <3>1, <3>2, RunEnters
  <2>6. QED
    BY <2>2, <2>4, <2>5
<1>4. QED
  BY <1>2, <1>3

LEMMA MoveKeeps ==
  ASSUME TurnInv, NEW s \in Humans, Running(s), RunMove(s) PROVE TurnInv'
<1>1. /\ UNCHANGED <<opened, prologue, aiStep, seats, alive, turn, input, fight, settled>>
      /\ Host \in seats' /\ aiStep' \in [Realms -> 0 .. Done]
  BY DEF RunMove, TurnInv, TypeOK
<1>2. march' \in [Realms -> 0 .. MaxPath] /\ left' \in 0 .. MaxMarches
  BY TurnAssumption DEF RunMove, TurnInv, TypeOK
<1>3. QED
  BY <1>1, <1>2, RunStays

LEMMA ToComputerKeeps ==
  ASSUME TurnInv, NEW s \in Humans, Running(s), NEW r \in Leaving, RunToComputer(r) PROVE TurnInv'
<1>1. /\ seats' \subseteq seats /\ Host \in seats' /\ input = "Out"
      /\ UNCHANGED <<opened, prologue, alive, fight, settled, march, left>>
      /\ march' \in [Realms -> 0 .. MaxPath] /\ left' \in 0 .. MaxMarches
      /\ aiStep \in [Realms -> 0 .. Done]
  BY TurnAssumption DEF RunToComputer, Running, TurnInv, TypeOK
<1>2. CASE UNCHANGED <<aiStep, turn, input>>
  BY <1>1, <1>2, RunStays
<1>3. CASE ~InFlight /\ aiStep' = EndAll(aiStep) /\ Enter("Start", None)
  <2>1. turn' = Progress(FALSE, FALSE) /\ input' = "Start"
    BY <1>3 DEF Enter
  <2>2. aiStep' \in [Realms -> 0 .. Done] /\ \A z \in Computers : aiStep'[z] = aiStep[z]
    BY <1>1, <1>3, EndsTyped DEF TurnInv
  <2>3. QED
    BY <1>1, <1>3, <2>1, <2>2, RunEnters
<1>4. QED
  BY <1>2, <1>3 DEF RunToComputer

\* An order about a battle that leaves it to be decided.
LEMMA RunResumes ==
  ASSUME TurnInv, NEW s \in Humans, Running(s), turn' = turn, input' \in {"Out", "Answer", "Dismiss"},
         UNCHANGED <<opened, prologue, aiStep, seats, alive, settled, march, left>>,
         input' # "Out" => InFlight, fight' \in BOOLEAN, fight' => Asked,
         input' = "Answer" => ~fight' /\ \A z \in seats' : ~Deciding(z)',
         \A z \in seats' : Deciding(z)' => ~fight'
  PROVE  TurnInv'
<1>1. UNCHANGED <<phase, step, cursor, moving, raised>> /\ posted' = [posted EXCEPT ![s] = None]
  BY DEF Running
<1>2. FewerOrders /\ posted' \in [Humans -> {None} \union Orders]
  BY <1>1, RunFewer
<1>3. /\ Suspended' /\ Opened' /\ Finished' /\ BattlesDecidedOnce' /\ PrologueFirst'
      /\ opened' \in BOOLEAN /\ prologue' \in [Realms -> Nat]
  BY <1>1, StayingKeeps
<1>4. Attended'
  BY <1>2, AttendedStays
<1>5. TypeOK'
  BY <1>1, <1>2 DEF TurnInv, TypeOK, InFlight
<1>6. QED
  BY <1>3, <1>4, <1>5 DEF TurnInv

\* When one seat's decision runs no other is on its way.
LEMMA NoOtherDecides ==
  ASSUME TurnInv, NEW s \in Humans, Running(s), Deciding(s), seats' = seats
  PROVE  ~fight /\ \A z \in seats' : ~Deciding(z)'
<1>1. s \in seats /\ posted' = [posted EXCEPT ![s] = None] /\ seats \subseteq Humans
  BY DEF Running, TurnInv, TypeOK
<1>2. ~Deciding(s)' /\ FewerOrders
  BY <1>1, RunFewer
<1>3. ASSUME NEW z \in seats, Deciding(z)' PROVE FALSE
  <2>1. Deciding(z)
    BY <1>1, <1>2, <1>3 DEF FewerOrders
  <2>2. z = s
    BY <1>1, <2>1, OneDecides DEF TurnInv
  <2>3. QED
    BY <1>2, <1>3, <2>2
<1>4. ~fight
  BY <1>1 DEF TurnInv, Attended
<1>5. QED
  BY <1>3, <1>4

LEMMA AnswerKeeps ==
  ASSUME TurnInv, NEW s \in Humans, Running(s), Deciding(s), RunAnswer(s) PROVE TurnInv'
<1>1. /\ UNCHANGED <<opened, prologue, aiStep, seats, alive, fight, settled, march, left>>
      /\ input = "Out" /\ fight \in BOOLEAN /\ Asked /\ InFlight
  BY DEF RunAnswer, Running, TurnInv, TypeOK, Attended, Asked
<1>2. turn' = turn /\ input' \in {"Out", "Answer"}
  BY <1>1 DEF RunAnswer, Enter, InFlight
<1>3. ~fight /\ \A z \in seats' : ~Deciding(z)'
  BY <1>1, NoOtherDecides
<1>4. QED
  BY <1>1, <1>2, <1>3, RunResumes

LEMMA TakeTheFieldKeeps ==
  ASSUME TurnInv, NEW s \in Humans, Running(s), Deciding(s), RunTakeTheField(s) PROVE TurnInv'
<1>1. /\ UNCHANGED <<opened, prologue, aiStep, seats, alive, turn, input, settled, march, left>>
      /\ input = "Out" /\ fight' \in BOOLEAN /\ (fight' => Asked)
  BY DEF RunTakeTheField, Running, TurnInv, TypeOK, Attended
<1>2. \A z \in seats' : ~Deciding(z)'
  BY <1>1, NoOtherDecides
<1>3. QED
  BY <1>1, <1>2, RunResumes

LEMMA DismissKeeps ==
  ASSUME TurnInv, NEW s \in Humans, Running(s), RunDismiss(s) PROVE TurnInv'
<1>1. /\ UNCHANGED <<opened, prologue, aiStep, seats, alive, fight, settled, march, left>>
      /\ input = "Out" /\ fight \in BOOLEAN /\ Host \in seats /\ aiStep \in [Realms -> 0 .. Done]
      /\ fight => Asked
  BY DEF RunDismiss, Running, TurnInv, TypeOK, Attended
<1>2. CASE turn' = turn /\ input' \in {"Out", "Dismiss"} /\ (input' # "Out" => InFlight)
  <2>1. \A z \in seats' : Deciding(z)' => ~fight'
    <3>1. FewerOrders /\ seats \subseteq Humans
      BY RunFewer DEF Running, TurnInv, TypeOK
    <3>2. QED
      BY <1>1, <3>1 DEF FewerOrders, TurnInv, Attended
  <2>2. QED
    BY <1>1, <1>2, <2>1, RunResumes
<1>3. CASE turn' = Progress(FALSE, FALSE) /\ ~InFlight /\ input' = "Dismiss"
  BY <1>1, <1>3, RunEnters
<1>4. QED
  BY <1>1, <1>2, <1>3 DEF RunDismiss, Enter, InFlight

LEMMA FinishKeeps ==
  ASSUME TurnInv, NEW s \in Humans, Running(s), RunFinish(s) PROVE TurnInv'
<1>1. /\ UNCHANGED <<opened, prologue, aiStep, seats, march, left>> /\ input = "Out" /\ seats \subseteq Humans
      /\ UNCHANGED <<phase, step, cursor, moving, raised>> /\ posted' = [posted EXCEPT ![s] = None]
  BY DEF RunFinish, Running, TurnInv, TypeOK
<1>2. FewerOrders /\ posted' \in [Humans -> {None} \union Orders]
  BY <1>1, RunFewer
<1>3. CASE UNCHANGED <<fight, turn, input, alive, settled>>
  <2>1. /\ Host \in seats' /\ aiStep' \in [Realms -> 0 .. Done]
        /\ march' \in [Realms -> 0 .. MaxPath] /\ left' \in 0 .. MaxMarches
    BY <1>1 DEF TurnInv, TypeOK
  <2>2. QED
    BY <1>1, <1>3, <2>1, RunStays
<1>4. CASE fight /\ InFlight /\ fight' = FALSE /\ Enter("Answer", turn) /\ UNCHANGED <<alive, settled>>
  <2>1. turn' = turn /\ input' = "Answer"
    BY <1>4 DEF Enter, InFlight
  <2>2. \A z \in seats' : ~Deciding(z)'
    BY <1>1, <1>2, <1>4 DEF FewerOrders, TurnInv, Attended
  <2>3. QED
    BY <1>1, <1>4, <2>1, <2>2, RunResumes
<1>5. CASE /\ fight /\ InFlight /\ fight' = FALSE /\ input' = "Start"
           /\ Decide(turn.question, [turn EXCEPT !.question = None, !.assault = FALSE])
  <2> DEFINE t == [turn EXCEPT !.question = None, !.assault = FALSE]
             b == turn.question
  <2>1. /\ Asked /\ turn \in Turns /\ turn # None /\ b \in Questions /\ b # None
        /\ b.a \in Realms /\ b.d \in Realms /\ \A z \in seats : ~Deciding(z)
    BY <1>5 DEF TurnInv, TypeOK, Attended, Asked, InFlight, Turns, Questions
  <2>2. /\ t \in Turns /\ t # None /\ t.question = None /\ t.idle = turn.idle
        /\ t.opening = turn.opening /\ t.stage = turn.stage /\ t.siege = turn.siege
        /\ t.tail = turn.tail
    BY <2>1, TurnAssumption DEF Turns
  <2>3. Decide(b, t)
    BY <1>5
  <2> HIDE DEF t, b
  <2>4. settled' = settled + 1 /\ alive' \subseteq alive /\ Kept(t, turn')
    BY <2>1, <2>2, <2>3, Decided DEF TurnInv
  <2>5. turn' \in Turns /\ turn' # None /\ InFlight'
    BY <2>4, TurnAssumption DEF Kept, InFlight
  <2>6. TypeOK'
    <3>1. fight' \in BOOLEAN /\ input' \in {"Out", "Start", "Answer", "Dismiss"}
      BY <1>5
    <3>2. settled' \in Nat /\ alive' \subseteq Realms
      BY <2>4 DEF TurnInv, TypeOK
    <3>3. QED
      BY <1>1, <1>2, <2>5, <3>1, <3>2 DEF TurnInv, TypeOK
  <2>7. Suspended'
    BY <1>1, <1>5, <2>2, <2>4, <2>5 DEF TurnInv, Suspended, Kept
  <2>8. Opened' /\ PrologueFirst'
    BY <1>1, <1>5, <2>2, <2>4, <2>5 DEF TurnInv, Opened, Begun, Prepared, Fresh, PrologueFirst, Kept
  <2>9. Attended'
    BY <1>1, <1>2, <1>5, <2>1 DEF Attended, FewerOrders
  <2>10. Finished'
    BY <1>1, <1>5, <2>2, <2>4, <2>5 DEF TurnInv, Finished, Kept
  <2>11. BattlesDecidedOnce'
    <3>1. b = turn.question
      BY DEF b
    <3>2. QED
      BY <1>1, <1>5, <2>1, <2>2, <2>4, <2>5, <3>1
         DEF TurnInv, BattlesDecidedOnce, Undecided, Asked, Kept, TypeOK
  <2>12. QED
    BY <2>6, <2>7, <2>8, <2>9, <2>10, <2>11 DEF TurnInv
<1>6. QED
  BY <1>1, <1>3, <1>4, <1>5 DEF RunFinish

LEMMA RunKeeps == ASSUME TurnInv, NEW s \in Humans, Run(s) PROVE TurnInv'
<1>1. /\ input = "Out" /\ posted[s] # None /\ posted' = [posted EXCEPT ![s] = None]
      /\ UNCHANGED <<phase, step, cursor, moving, raised>> /\ posted[s] \in Orders
  BY DEF Run, TurnInv, TypeOK
<1>2. CASE s \notin seats
  <2>1. UNCHANGED <<opened, prologue, aiStep, seats, alive, turn, input, fight, settled, march, left>>
    BY <1>2 DEF Run
  <2>2. FewerOrders /\ posted' \in [Humans -> {None} \union Orders]
    BY <1>1, RunFewer
  <2>3. /\ Suspended' /\ Opened' /\ Finished' /\ BattlesDecidedOnce' /\ PrologueFirst'
        /\ opened' \in BOOLEAN /\ prologue' \in [Realms -> Nat]
    BY <1>1, <2>1, StayingKeeps
  <2>4. Attended'
    <3>1. (fight' => Asked) /\ \A z \in seats' : Deciding(z)' => ~fight'
      BY <2>1, <2>2 DEF TurnInv, TypeOK, Attended, FewerOrders
    <3>2. QED
      BY <1>1, <2>1, <2>2, <3>1, AttendedStays
  <2>5. TypeOK'
    BY <1>1, <2>1, <2>2 DEF TurnInv, TypeOK, InFlight
  <2>6. QED
    BY <2>3, <2>4, <2>5 DEF TurnInv
<1>3. CASE s \in seats
  <2>1. Running(s)
    BY <1>1, <1>3 DEF Running
  <2>2. \/ RunEndTurn(s) \/ RunDismiss(s) \/ RunFinish(s) \/ RunMove(s)
        \/ posted[s].kind \in {"Answer", "TakeTheField"} /\ (RunAnswer(s) \/ RunTakeTheField(s))
        \/ posted[s].kind = "ToComputer" /\ RunToComputer(posted[s].realm)
    BY <1>3 DEF Run
  <2>3. posted[s].kind \in {"Answer", "TakeTheField"} => Deciding(s)
    BY <1>1 DEF Deciding
  <2>4. posted[s].kind = "ToComputer" => posted[s].realm \in Leaving
    BY <1>1 DEF TurnInv, Attended
  <2>5. QED
    BY <2>1, <2>2, <2>3, <2>4, EndTurnKeeps, DismissKeeps, FinishKeeps, MoveKeeps, AnswerKeeps,
       TakeTheFieldKeeps, ToComputerKeeps
<1>4. QED
  BY <1>2, <1>3

\* Only the seat whose answer counts is shown the question.
LEMMA PostKeeps == ASSUME TurnInv, NEW s \in Humans, PostAny(s) PROVE TurnInv'
<1>1. PICK order \in Offered(s) \union Handovers(s) : posted' = [posted EXCEPT ![s] = order]
  BY DEF PostAny, Post
<1>2. /\ UNCHANGED <<phase, step, opened, cursor, aiStep, alive, seats, prologue, march, moving, left, fight, raised, settled, turn, input>>
      /\ input = "Out" /\ s \in seats /\ seats \subseteq Humans
  BY DEF PostAny, Post, machine, realms, units, battles, TurnInv, TypeOK
<1>3. /\ order \in Orders /\ order # None
      /\ order.kind = "ToComputer" => order.realm \in Leaving
      /\ order.kind \in {"Answer", "TakeTheField"} =>
           Asked /\ ~fight /\ ChoiceFor(turn.question, s) = 1
  <2>1. s \in Realms /\ Leaving \subseteq Realms /\ Delay \in 0 .. Delay
    BY TurnAssumption
  <2>2. CASE order \in Offered(s)
    BY <2>1, <2>2, TurnAssumption DEF Offered, Orders, Kinds
  <2>3. CASE order \in Handovers(s)
    BY <2>1, <2>3, TurnAssumption DEF Handovers, Orders, Kinds
  <2>4. QED
    BY <1>1, <2>2, <2>3
<1>4. /\ posted' \in [Humans -> {None} \union Orders] /\ posted'[s] = order
      /\ \A z \in Humans : z # s => posted'[z] = posted[z]
  BY <1>1, <1>3 DEF TurnInv, TypeOK
<1>5. TypeOK'
  BY <1>2, <1>4 DEF TurnInv, TypeOK, InFlight
<1>6. Suspended' /\ Opened' /\ PrologueFirst'
  BY <1>2 DEF TurnInv, Suspended, Opened, Begun, Prepared, Fresh, PrologueFirst, InFlight
<1>7. Finished' /\ BattlesDecidedOnce'
  BY <1>2 DEF TurnInv, Finished, BattlesDecidedOnce, Undecided, Asked, InFlight
<1>8. Attended'
  <2>1. Asked' = Asked /\ Seated' = Seated
    BY <1>2 DEF Asked, InFlight, Seated
  <2>2. ASSUME NEW z \in seats, Deciding(z)'
        PROVE  Asked /\ ~fight /\ turn.question.choice = 1 /\ (Seated => z = Chooser(turn.question))
    <3>1. CASE z # s
      <4>1. Deciding(z)
        BY <1>2, <1>4, <2>2, <3>1 DEF Deciding
      <4>2. QED
        BY <4>1 DEF TurnInv, Attended
    <3>2. CASE z = s
      <4>1. order.kind \in {"Answer", "TakeTheField"}
        BY <1>4, <2>2, <3>2 DEF Deciding
      <4>2. Asked /\ ~fight /\ ChoiceFor(turn.question, s) = 1
        BY <1>3, <4>1
      <4>3. turn.question.choice = 1 /\ (Seated => s = Chooser(turn.question))
        BY <4>2 DEF ChoiceFor
      <4>4. QED
        BY <3>2, <4>2, <4>3
    <3>3. QED
      BY <3>1, <3>2
  <2>3. \A z \in Humans : posted'[z] # None /\ posted'[z].kind = "ToComputer" => posted'[z].realm \in Leaving
    BY <1>3, <1>4 DEF TurnInv, Attended
  <2>4. fight' => Asked'
    BY <1>2, <2>1 DEF TurnInv, Attended
  <2>5. QED
    BY <1>2, <2>1, <2>2, <2>3, <2>4 DEF Attended, Chooser
<1>9. QED
  BY <1>5, <1>6, <1>7, <1>8 DEF TurnInv

LEMMA NextKeeps == TurnInv /\ [Next]_vars => TurnInv'
<1> SUFFICES ASSUME TurnInv, [Next]_vars PROVE TurnInv'
  OBVIOUS
<1>1. CASE Advance
  BY <1>1, UnseenKeeps, QuestionKeeps, IdleKeeps, BeginKeeps, SiegeKeeps, PhaseKeeps, TailKeeps DEF Advance
<1>2. CASE Frame
  BY <1>2, FrameKeeps
<1>3. CASE \E s \in Humans : PostAny(s) \/ Run(s)
  BY <1>3, PostKeeps, RunKeeps
<1>4. CASE UNCHANGED vars
  <2>1. UNCHANGED <<phase, step, opened, cursor, aiStep, alive, seats, turn, fight, march, moving, left,
                    input, posted, prologue, raised, settled>>
    BY <1>4 DEF vars
  <2>2. TypeOK' /\ Suspended' /\ Finished'
    BY <2>1 DEF TurnInv, TypeOK, Suspended, Finished, InFlight
  <2>3. Attended'
    BY <2>1 DEF TurnInv, Attended, Asked, InFlight, Deciding, Seated, Chooser
  <2>4. Opened' /\ PrologueFirst' /\ BattlesDecidedOnce'
    BY <2>1 DEF TurnInv, Opened, Begun, Prepared, Fresh, PrologueFirst, BattlesDecidedOnce, Undecided, Asked, InFlight
  <2>5. QED
    BY <2>2, <2>3, <2>4 DEF TurnInv
<1>5. QED
  BY <1>1, <1>2, <1>3, <1>4 DEF Next

(***************************************************************************)
(* The theorems.                                                           *)
(***************************************************************************)

\* The inductive invariant of a turn that is suspended for battles.
THEOREM TurnInvariant == Spec => []TurnInv
BY InitHolds, NextKeeps, PTL DEF Spec

\* Every battle two armies meet in is decided exactly once (settle_question, finish_tick and
\* pump_siege), however long its answer is on its way and whatever the other seats order.
THEOREM EveryBattleDecidedOnce == Spec => []BattlesDecidedOnce
<1>1. TurnInv => BattlesDecidedOnce
  BY DEF TurnInv
<1>2. QED
  BY <1>1, TurnInvariant, PTL

\* No realm has the prologue of phase 4 twice, nor does a computer's play before it
\* (open_players_turn and step_zero).
THEOREM PrologueComesFirst == Spec => []PrologueFirst
<1>1. TurnInv => PrologueFirst
  BY DEF TurnInv
<1>2. QED
  BY <1>1, TurnInvariant, PTL

\* The state is well formed and no phase is left before what it waits for (TurnMachine::tick).
THEOREM NoPhaseCutShort == Spec => []PhasesFinish
<1>1. TurnInv => PhasesFinish
  BY DEF TurnInv, PhasesFinish, Finished
<1>2. QED
  BY <1>1, TurnInvariant, PTL

-----------------------------------------------------------------------------
(***************************************************************************)
(* The saves.  All rests on their numbers: a save under way is later than  *)
(* every save of its set on the disk, and the last that succeeded is the   *)
(* latest there, so the names before its own are free.                     *)
(***************************************************************************)
Slot == 1 .. 3
Saved == Nat \cup {Nothing}

\* The contents of every file, the save under way, and whose it is.
Sound ==
  /\ DOMAIN file = Names /\ \A n \in Names : file[n] \in Saved
  /\ part \in [Sets -> Contents]
  /\ mode \in Modes /\ autosave \in BOOLEAN /\ season \in Saved /\ encoded \in Nat
  /\ last \in [Sets -> Saved] /\ cut \in [Sets -> Nat]
  /\ job.call \in Calls /\ job.save \in Nat /\ job = [set |-> job.set, call |-> job.call, save |-> job.save]
  /\ \/ job.set = "none" /\ job.call = "none" /\ job = Idle
     \/ job.set = "single" /\ job.call # "none" /\ mode = "single"
     \/ job.set = "net" /\ job.call # "none" /\ mode = "host"
     \/ job.set = "player" /\ job.call \in {"write", "fill", "rename"} /\ mode # "joiner"
  /\ season # Nothing => mode = "host" /\ job.set # "net"
  /\ job.call = "rename" => part[job.set] = job.save

\* A save to come is later than those on the disk, and the last is the latest of them.
Numbered ==
  /\ job.save <= encoded /\ (season # Nothing => season <= encoded)
  /\ \A t \in Triples, a \in Slot :
       file[<<t, a>>] # Nothing =>
         /\ file[<<t, a>>] <= encoded
         /\ last[t] # Nothing /\ file[<<t, a>>] <= last[t]
         /\ job.set = t => file[<<t, a>>] < job.save
         /\ t = "net" /\ season # Nothing => file[<<t, a>>] < season

\* Where the last save is, a rotation being under way.
Within(t) == IF job.set = t /\ job.call \in {"remove", "shift"} THEN cut[t] ELSE cut[t] + 1
SavesKept ==
  /\ \A t \in Triples : job.set = t => cut[t] >= 1
  /\ \A t \in Triples :
       last[t] # Nothing /\ cut[t] < 3 =>
         \E a \in Slot : a <= Within(t) /\ file[<<t, a>>] = last[t]

SavesInv == Sound /\ Numbered /\ NewestFirst /\ SavesKept /\ PlayersSaveKept

LEMMA Distinct ==
  /\ \A t \in Triples : t \in Sets /\ t # "player" /\ t # "none"
  /\ \A t \in Triples, a \in Slot : <<t, a>> \in Names /\ <<t, a>> # <<"player", 1>>
BY DEF Triples, Slot, Names, Sets

\* A name that is taken moves to the next: what it held is there, its own is free, and
\* no other is touched.
LEMMA MovedFiles ==
  ASSUME DOMAIN file = Names, NEW t \in Triples, NEW a \in {1, 2},
         file' = Moved(<<t, a>>, <<t, a + 1>>)
  PROVE  /\ DOMAIN file' = Names
         /\ file'[<<t, a + 1>>] = file[<<t, a>>] /\ file'[<<t, a>>] = Nothing
         /\ \A n \in Names : n # <<t, a>> /\ n # <<t, a + 1>> => file'[n] = file[n]
<1>1. <<t, a>> \in Names /\ <<t, a + 1>> \in Names /\ <<t, a>> # <<t, a + 1>>
  BY DEF Triples, Names
<1>2. QED
  BY <1>1 DEF Moved

LEMMA SavesStart == SavesInit => SavesInv
<1> SUFFICES ASSUME SavesInit PROVE SavesInv
  OBVIOUS
<1>1. /\ job.set = "none" /\ job.call = "none" /\ job.save = 0
      /\ \A n \in Names : file[n] = Nothing
      /\ \A s \in Sets : last[s] = Nothing
  BY DEF SavesInit, Idle
<1>2. Sound
  BY <1>1, SavesAssumption DEF SavesInit, Sound, Idle, Saved, Contents, Calls, Modes
<1>3. Numbered
  BY <1>1, Distinct, SavesAssumption DEF SavesInit, Numbered
<1>4. NewestFirst
  BY <1>1, Distinct, SavesAssumption DEF NewestFirst, Slot
<1>5. SavesKept
  BY <1>1, Distinct DEF SavesKept
<1>6. PlayersSaveKept
  BY <1>1 DEF PlayersSaveKept, Sets
<1>7. QED
  BY <1>2, <1>3, <1>4, <1>5, <1>6 DEF SavesInv

\* A step that leaves the files alone and begins no save.
LEMMA Begins ==
  ASSUME SavesInv, job = Idle, NEW s \in Sets, NEW c \in {"remove", "write"}, NEW v \in Nat,
         s \in Triples <=> c = "remove", Begin(s, c, v),
         season' \in {season, Nothing}, autosave' \in BOOLEAN, encoded' \in Nat, encoded' >= encoded,
         v <= encoded',
         s = "single" => mode = "single" /\ v > encoded,
         s = "net" => mode = "host" /\ v = season /\ season' = Nothing,
         s = "player" => mode # "joiner"
  PROVE  SavesInv'
<1>1. /\ job' = [set |-> s, call |-> c, save |-> v]
      /\ cut' = [cut EXCEPT ![s] = @ + 1] /\ UNCHANGED <<file, part, mode, last>>
  BY DEF Begin
<1>2. job'.set = s /\ job'.call = c /\ job'.save = v
  BY <1>1
<1>3. Sound'
  BY <1>1, <1>2, SavesAssumption DEF SavesInv, Sound, Sets, Triples, Calls, Modes, Saved, Idle
<1>4. Numbered'
  BY <1>1, <1>2, SavesAssumption DEF SavesInv, Sound, Numbered, Sets, Triples, Saved, Idle, Names, Slot
<1>5. NewestFirst'
  BY <1>1 DEF SavesInv, NewestFirst, Triples
<1>6. SavesKept'
  BY <1>1, <1>2 DEF SavesInv, Sound, SavesKept, Within, Sets, Triples, Idle, Slot
<1>7. PlayersSaveKept'
  BY <1>1 DEF SavesInv, PlayersSaveKept
<1>8. QED
  BY <1>3, <1>4, <1>5, <1>6, <1>7 DEF SavesInv

LEMMA BeginSteps ==
  ASSUME SavesInv, SeasonEnds \/ RunPending \/ WriteSeason \/ PlayerSaves \/ GameChanges \/ Crash
  PROVE  SavesInv'
<1>1. CASE SeasonEnds
  <2>1. UNCHANGED <<file, part, job, mode, last, cut>> /\ job = Idle
    BY <1>1 DEF SeasonEnds
  <2>2. Sound'
    BY <1>1, <2>1, SavesAssumption DEF SavesInv, Sound, SeasonEnds, Saved, Idle
  <2>3. Numbered'
    BY <1>1, <2>1, Distinct, SavesAssumption DEF SavesInv, Sound, Numbered, SeasonEnds, Saved
  <2>4. NewestFirst' /\ SavesKept' /\ PlayersSaveKept'
    BY <2>1 DEF SavesInv, NewestFirst, SavesKept, Within, PlayersSaveKept
  <2>5. QED
    BY <2>2, <2>3, <2>4 DEF SavesInv
<1>2. CASE RunPending
  <2>1. encoded \in Nat /\ autosave' \in BOOLEAN /\ season' = season /\ job = Idle
    BY <1>2 DEF RunPending, SavesInv, Sound
  <2>2. CASE mode = "single"
    BY <1>2, <2>1, <2>2, Begins DEF RunPending, Sets, Triples
  <2>3. CASE mode # "single"
    <3>1. UNCHANGED <<file, part, job, mode, season, encoded, last, cut>>
      BY <1>2, <2>3 DEF RunPending
    <3>2. QED
      BY <2>1, <3>1 DEF SavesInv, Sound, Numbered, NewestFirst, SavesKept, Within, PlayersSaveKept
  <2>4. QED
    BY <2>2, <2>3
<1>3. CASE WriteSeason
  <2>1. /\ season \in Nat /\ season <= encoded /\ mode = "host" /\ encoded \in Nat
        /\ autosave \in BOOLEAN
    BY <1>3, SavesAssumption DEF WriteSeason, SavesInv, Sound, Numbered, Saved
  <2>2. QED
    BY <1>3, <2>1, Begins DEF WriteSeason, Sets, Triples
<1>4. CASE PlayerSaves
  <2>1. encoded \in Nat /\ autosave \in BOOLEAN
    BY DEF SavesInv, Sound
  <2>2. QED
    BY <1>4, <2>1, Begins DEF PlayerSaves, Sets, Triples
<1>5. CASE Crash
  <2>1. /\ job'.set = "none" /\ job'.call = "none" /\ job'.save = 0
        /\ job' = Idle /\ season' = Nothing
        /\ UNCHANGED <<file, part, encoded, last, cut>>
    BY <1>5 DEF Crash, Idle
  <2>2. Sound'
    <3>1. /\ DOMAIN file' = Names /\ \A n \in Names : file'[n] \in Saved
          /\ part' \in [Sets -> Contents] /\ encoded' \in Nat
          /\ last' \in [Sets -> Saved] /\ cut' \in [Sets -> Nat]
      BY <2>1 DEF SavesInv, Sound
    <3>2. mode' \in Modes /\ autosave' \in BOOLEAN /\ season' \in Saved
      BY <1>5, <2>1 DEF Crash, Saved
    <3>3. /\ job'.call \in Calls /\ job'.save \in Nat
          /\ job' = [set |-> job'.set, call |-> job'.call, save |-> job'.save]
      BY <2>1 DEF Calls, Idle
    <3>4. QED
      BY <2>1, <3>1, <3>2, <3>3 DEF Sound
  <2>3. Numbered'
    BY <2>1, Distinct DEF SavesInv, Sound, Numbered
  <2>4. SavesKept'
    <3>1. \A t \in Triples : Within(t)' = cut[t] + 1 /\ cut[t] \in Nat /\ Within(t) \in Nat
      BY <2>1, Distinct DEF Within, SavesInv, Sound
    <3>2. \A t \in Triples : Within(t) <= cut[t] + 1
      BY Distinct DEF Within, SavesInv, Sound
    <3>3. QED
      BY <2>1, <3>1, <3>2, Distinct DEF SavesInv, SavesKept, Slot
  <2>5. NewestFirst' /\ PlayersSaveKept'
    BY <2>1 DEF SavesInv, NewestFirst, PlayersSaveKept
  <2>6. QED
    BY <2>2, <2>3, <2>4, <2>5 DEF SavesInv
<1>6. CASE GameChanges
  <2>1. /\ UNCHANGED <<file, part, job, autosave, season, encoded, last, cut>>
        /\ job = Idle /\ job.set = "none" /\ season = Nothing /\ mode' \in Modes
    BY <1>6 DEF GameChanges, Idle, Modes
  <2>2. Sound'
    BY <2>1 DEF SavesInv, Sound
  <2>3. Numbered' /\ NewestFirst' /\ SavesKept' /\ PlayersSaveKept'
    BY <2>1 DEF SavesInv, Numbered, NewestFirst, SavesKept, Within, PlayersSaveKept
  <2>4. QED
    BY <2>2, <2>3 DEF SavesInv
<1>7. QED
  BY <1>1, <1>2, <1>3, <1>4, <1>5, <1>6

(***************************************************************************)
(* The calls.                                                              *)
(***************************************************************************)

LEMMA NextCall ==
  ASSUME SavesInv, NEW c, Then(c)
  PROVE  job'.set = job.set /\ job'.call = c /\ job'.save = job.save
         /\ job' = [set |-> job'.set, call |-> job'.call, save |-> job'.save]
BY DEF Then, SavesInv, Sound

\* The rotation's three calls: what is on the disk of other sets stays, and no part is
\* touched.
LEMMA Rotates ==
  ASSUME SavesInv, NEW t \in Triples, job.set = t,
         NEW c \in {"shift", "rotate", "write"}, Then(c), job.call # "rename", Unchanged,
         UNCHANGED <<part, last, cut>>,
         DOMAIN file' = Names, \A n \in Names : file'[n] \in Saved,
         \A u \in Triples, a \in Slot : u # t => file'[<<u, a>>] = file[<<u, a>>],
         file'[<<"player", 1>>] = file[<<"player", 1>>],
         \A a \in Slot : file'[<<t, a>>] # Nothing =>
           \E b \in Slot : file'[<<t, a>>] = file[<<t, b>>],
         NewestFirst', SavesKept'
  PROVE  SavesInv'
<1>1. /\ job'.set = t /\ job'.call = c /\ job'.save = job.save
      /\ job' = [set |-> job'.set, call |-> job'.call, save |-> job'.save]
  BY NextCall
<1>2. UNCHANGED <<part, last, cut, mode, autosave, season, encoded>>
  BY DEF Unchanged
<1>3. Sound'
  BY <1>1, <1>2 DEF SavesInv, Sound, Triples, Calls, Idle
<1>4. Numbered'
  <2>1. ASSUME NEW u \in Triples, NEW a \in Slot, file'[<<u, a>>] # Nothing
        PROVE  \E b \in Slot : file'[<<u, a>>] = file[<<u, b>>]
    BY <2>1
  <2>2. ASSUME NEW u \in Triples, NEW a \in Slot, file'[<<u, a>>] # Nothing
        PROVE  /\ file'[<<u, a>>] <= encoded'
               /\ last'[u] # Nothing /\ file'[<<u, a>>] <= last'[u]
               /\ job'.set = u => file'[<<u, a>>] < job'.save
               /\ u = "net" /\ season' # Nothing => file'[<<u, a>>] < season'
    <3>1. PICK b \in Slot : file'[<<u, a>>] = file[<<u, b>>]
      BY <2>1, <2>2
    <3>2. QED
      BY <1>1, <1>2, <2>2, <3>1 DEF SavesInv, Numbered
  <2>3. QED
    BY <1>1, <1>2, <2>2 DEF SavesInv, Numbered
<1>5. PlayersSaveKept'
  BY <1>2 DEF SavesInv, PlayersSaveKept
<1>6. QED
  BY <1>3, <1>4, <1>5 DEF SavesInv

\* Only a rotation asks for its calls.
LEMMA RotatingSet ==
  ASSUME SavesInv, job.call \in {"remove", "shift", "rotate"}
  PROVE  job.set \in Triples /\ cut[job.set] \in Nat /\ cut[job.set] >= 1
BY DEF SavesInv, Sound, SavesKept, Triples, Sets, Idle

\* The oldest is never the last that succeeded while less than three have failed since.
LEMMA RemoveStep ==
  ASSUME SavesInv, RemoveOldest PROVE SavesInv'
<1>1. PICK t \in Triples : job.set = t /\ cut[t] \in Nat /\ cut[t] >= 1
  BY RotatingSet DEF RemoveOldest
<1>2. /\ Then("shift") /\ Unchanged /\ UNCHANGED <<part, last, cut>> /\ job.call = "remove"
      /\ file' = [file EXCEPT ![<<t, 3>>] = Nothing] \/ file' = file
  BY <1>1 DEF RemoveOldest, At
<1>3. /\ DOMAIN file' = Names
      /\ \A n \in Names : n # <<t, 3>> => file'[n] = file[n]
      /\ file'[<<t, 3>>] \in {file[<<t, 3>>], Nothing}
  <2>1. <<t, 3>> \in Names
    BY DEF Triples, Names
  <2>2. QED
    BY <1>2, <2>1 DEF SavesInv, Sound
<1>4. ASSUME NEW u \in Triples, NEW a \in Slot
      PROVE  /\ u # t \/ a # 3 => file'[<<u, a>>] = file[<<u, a>>]
             /\ file'[<<u, a>>] # Nothing => file'[<<u, a>>] = file[<<u, a>>]
  BY <1>3, Distinct
<1>5. NewestFirst'
  BY <1>4, SavesAssumption DEF SavesInv, NewestFirst, Slot
<1>6. SavesKept'
  <2>1. job'.set = t /\ job'.call = "shift"
    BY <1>1, <1>2, NextCall
  <2>2. \A u \in Triples : Within(u)' = Within(u) /\ (u = t => Within(u) = cut[u])
    BY <1>1, <1>2, <2>1 DEF Within
  <2>3. ASSUME NEW u \in Triples, last[u] # Nothing, cut[u] < 3
        PROVE  \E a \in Slot : a <= Within(u)' /\ file'[<<u, a>>] = last[u]
    <3>1. PICK a \in Slot : a <= Within(u) /\ file[<<u, a>>] = last[u]
      BY <2>3 DEF SavesInv, SavesKept
    <3>2. u = t => a # 3
      BY <1>1, <2>2, <2>3, <3>1 DEF Slot
    <3>3. QED
      BY <1>4, <2>2, <3>1, <3>2
  <2>4. QED
    BY <1>1, <1>2, <2>1, <2>3 DEF SavesKept
<1>7. /\ \A n \in Names : file'[n] \in Saved
      /\ file'[<<"player", 1>>] = file[<<"player", 1>>]
  <2>1. <<"player", 1>> \in Names /\ <<"player", 1>> # <<t, 3>>
    BY Distinct DEF Names, Slot
  <2>2. QED
    BY <1>3, <2>1 DEF SavesInv, Sound, Saved
<1>8. QED
  BY <1>1, <1>2, <1>3, <1>4, <1>5, <1>6, <1>7, Rotates

\* A name's save moves to the next name: the order stays, for the next is the older,
\* and the last save is moved from its place only if nothing is before it.
LEMMA MoveStep ==
  ASSUME SavesInv, NEW t \in Triples, job.set = t, NEW a \in {1, 2},
         job.call = (IF a = 2 THEN "shift" ELSE "rotate"),
         Then(IF a = 2 THEN "rotate" ELSE "write"), Unchanged, UNCHANGED <<part, last, cut>>,
         file' = file \/ (file[<<t, a>>] # Nothing /\ file' = Moved(<<t, a>>, <<t, a + 1>>))
  PROVE  SavesInv'
<1>1. cut[t] \in Nat /\ cut[t] >= 1
  BY RotatingSet
<1>2. /\ job'.set = t /\ job'.call = (IF a = 2 THEN "rotate" ELSE "write")
      /\ job'.call \notin {"remove", "shift"}
  BY NextCall
<1>3. \A u \in Triples : Within(u) <= Within(u)' /\ Within(u) \in Nat /\ Within(u)' \in Nat
                         /\ (u = t => Within(u)' = cut[u] + 1) /\ (a = 2 => Within(t) = cut[t])
  BY <1>1, <1>2, Distinct DEF Within, SavesInv, Sound
<1>4. CASE file' = file
  <2>1. NewestFirst'
    BY <1>4 DEF SavesInv, NewestFirst
  <2>2. SavesKept'
    BY <1>1, <1>2, <1>3, <1>4 DEF SavesInv, SavesKept, Slot
  <2>3. QED
    BY <1>4, <2>1, <2>2, Rotates DEF SavesInv, Sound
<1>5. CASE file[<<t, a>>] # Nothing /\ file' = Moved(<<t, a>>, <<t, a + 1>>)
  <2>1. /\ DOMAIN file' = Names
        /\ file'[<<t, a + 1>>] = file[<<t, a>>] /\ file'[<<t, a>>] = Nothing
        /\ \A n \in Names : n # <<t, a>> /\ n # <<t, a + 1>> => file'[n] = file[n]
    BY <1>5, MovedFiles DEF SavesInv, Sound
  <2>2. ASSUME NEW u \in Triples, NEW b \in Slot, u # t \/ (b # a /\ b # a + 1)
        PROVE  file'[<<u, b>>] = file[<<u, b>>]
    BY <2>1, <2>2, Distinct
  <2>3. a \in Slot /\ a + 1 \in Slot /\ <<t, a>> \in Names /\ <<t, a + 1>> \in Names
    <3>1. a \in Slot /\ a + 1 \in Slot
      BY DEF Slot
    <3>2. QED
      BY <3>1, Distinct
  <2>4. \A n \in Names : file'[n] \in Saved
    BY <2>1, <2>3 DEF SavesInv, Sound, Saved
  <2>5. NewestFirst'
    <3>1. ASSUME NEW u \in Triples, NEW b \in Slot, NEW d \in Slot, b < d,
                 file'[<<u, b>>] \in Nat, file'[<<u, d>>] \in Nat
          PROVE  file'[<<u, b>>] > file'[<<u, d>>]
      <4>1. CASE u # t
        BY <2>2, <3>1, <4>1 DEF SavesInv, NewestFirst, Slot
      <4>2. CASE u = t
        <5>1. b # a /\ d # a
          BY <2>1, <3>1, <4>2, SavesAssumption
        <5>2. CASE b # a + 1 /\ d # a + 1
          BY <2>2, <3>1, <5>1, <5>2 DEF SavesInv, NewestFirst, Slot
        <5>3. CASE b = a + 1
          BY <2>1, <2>2, <2>3, <3>1, <4>2, <5>1, <5>3 DEF SavesInv, NewestFirst, Slot
        <5>4. CASE d = a + 1
          BY <2>1, <2>2, <2>3, <3>1, <4>2, <5>1, <5>4 DEF SavesInv, NewestFirst, Slot
        <5>5. QED
          BY <5>2, <5>3, <5>4
      <4>3. QED
        BY <4>1, <4>2
    <3>2. QED
      BY <3>1 DEF NewestFirst, Slot
  <2>6. SavesKept'
    <3>1. ASSUME NEW u \in Triples, last[u] # Nothing, cut[u] < 3
          PROVE  \E b \in Slot : b <= Within(u)' /\ file'[<<u, b>>] = last[u]
      <4>1. PICK b \in Slot : b <= Within(u) /\ file[<<u, b>>] = last[u]
        BY <3>1 DEF SavesInv, SavesKept
      <4>2. CASE u # t
        BY <1>3, <2>2, <4>1, <4>2 DEF Slot
      <4>3. CASE u = t /\ b = a
        BY <1>1, <1>3, <2>1, <2>3, <3>1, <4>1, <4>3 DEF Slot
      <4>4. CASE u = t /\ b # a
        <5>1. b # a + 1
          <6>1. SUFFICES ASSUME b = a + 1 PROVE FALSE
            OBVIOUS
          <6>2. file[<<t, a>>] \in Nat /\ file[<<t, b>>] \in Nat
            BY <1>5, <2>3, <3>1, <4>1, <4>4, <6>1, Distinct DEF SavesInv, Sound, Saved
          <6>3. file[<<t, a>>] > file[<<t, b>>]
            <7>1. t \in Triples /\ a \in 1 .. 3 /\ b \in 1 .. 3 /\ a < b
              BY <6>1 DEF Slot
            <7>2. QED
              BY <6>2, <7>1 DEF SavesInv, NewestFirst
          <6>4. file[<<t, a>>] <= last[t]
            BY <1>5, <2>3 DEF SavesInv, Numbered
          <6>5. QED
            BY <4>1, <4>4, <6>2, <6>3, <6>4
        <5>2. QED
          BY <1>3, <2>2, <4>1, <4>4, <5>1 DEF Slot
      <4>5. QED
        BY <4>2, <4>3, <4>4
    <3>2. QED
      BY <1>1, <1>2, <3>1 DEF SavesKept
  <2>7. file'[<<"player", 1>>] = file[<<"player", 1>>]
    <3>1. <<"player", 1>> \in Names
      BY DEF Names
    <3>2. QED
      BY <2>1, <2>3, <3>1, Distinct
  <2>8. \A b \in Slot : file'[<<t, b>>] # Nothing =>
          \E d \in Slot : file'[<<t, b>>] = file[<<t, d>>]
    BY <2>1, <2>2, <2>3
  <2>9. job.call # "rename" /\ (IF a = 2 THEN "rotate" ELSE "write") \in {"shift", "rotate", "write"}
    OBVIOUS
  <2>10. QED
    BY <2>1, <2>2, <2>4, <2>5, <2>6, <2>7, <2>8, <2>9, Rotates
<1>6. QED
  BY <1>4, <1>5

LEMMA RotationSteps ==
  ASSUME SavesInv, RenameMiddle \/ RenameNewest PROVE SavesInv'
<1>1. CASE RenameMiddle
  <2>1. job.set \in Triples
    BY <1>1, RotatingSet DEF RenameMiddle
  <2>2. /\ job.call = "shift" /\ Then("rotate") /\ Unchanged /\ UNCHANGED <<part, last, cut>>
        /\ \/ file' = file
           \/ file[<<job.set, 2>>] # Nothing /\ file' = Moved(<<job.set, 2>>, <<job.set, 3>>)
    BY <1>1 DEF RenameMiddle, At
  <2>3. QED
    BY <2>1, <2>2, MoveStep
<1>2. CASE RenameNewest
  <2>1. job.set \in Triples
    BY <1>2, RotatingSet DEF RenameNewest
  <2>2. /\ job.call = "rotate" /\ Then("write") /\ Unchanged /\ UNCHANGED <<part, last, cut>>
        /\ \/ file' = file
           \/ file[<<job.set, 1>>] # Nothing /\ file' = Moved(<<job.set, 1>>, <<job.set, 2>>)
    BY <1>2 DEF RenameNewest, At
  <2>3. QED
    BY <2>1, <2>2, MoveStep
<1>3. QED
  BY <1>1, <1>2

\* A step that touches no file but the part.
LEMMA PartStep ==
  ASSUME SavesInv, UNCHANGED <<file, last, cut>>, Unchanged,
         job.call \in {"write", "fill", "rename"},
         part' \in [Sets -> Contents],
         job' = Idle \/ \E c \in {"fill", "rename"} :
                          Then(c) /\ (c = "rename" => part'[job.set] = job.save)
  PROVE  SavesInv'
<1>1. UNCHANGED <<file, last, cut, mode, autosave, season, encoded>>
  BY DEF Unchanged
<1>2. job.set # "none"
  BY DEF SavesInv, Sound, Idle
<1>3. /\ job' = [set |-> job'.set, call |-> job'.call, save |-> job'.save]
      /\ \/ job' = Idle /\ job'.set = "none" /\ job'.call = "none" /\ job'.save = 0
         \/ /\ job'.set = job.set /\ job'.save = job.save /\ job'.call \in {"fill", "rename"}
            /\ job'.call = "rename" => part'[job.set] = job.save
  <2>1. CASE job' = Idle
    BY <2>1 DEF Idle
  <2>2. CASE job' # Idle
    <3>1. PICK c \in {"fill", "rename"} :
             Then(c) /\ (c = "rename" => part'[job.set] = job.save)
      BY <2>2
    <3>2. QED
      BY <3>1, NextCall
  <2>3. QED
    BY <2>1, <2>2
<1>4. Sound'
  <2>1. /\ DOMAIN file' = Names /\ \A n \in Names : file'[n] \in Saved
        /\ mode' \in Modes /\ autosave' \in BOOLEAN /\ season' \in Saved /\ encoded' \in Nat
        /\ last' \in [Sets -> Saved] /\ cut' \in [Sets -> Nat]
    BY <1>1 DEF SavesInv, Sound
  <2>2. job'.call \in Calls /\ job'.save \in Nat
    BY <1>3 DEF SavesInv, Sound, Calls
  <2>3. /\ \/ job'.set = "none" /\ job'.call = "none" /\ job' = Idle
           \/ job'.set = "single" /\ job'.call # "none" /\ mode' = "single"
           \/ job'.set = "net" /\ job'.call # "none" /\ mode' = "host"
           \/ /\ job'.set = "player" /\ job'.call \in {"write", "fill", "rename"}
              /\ mode' # "joiner"
        /\ season' # Nothing => mode' = "host" /\ job'.set # "net"
        /\ job'.call = "rename" => part'[job'.set] = job'.save
    BY <1>1, <1>3, <1>2 DEF SavesInv, Sound
  <2>4. QED
    BY <1>3, <2>1, <2>2, <2>3 DEF Sound, Idle
<1>5. Numbered'
  BY <1>1, <1>3, Distinct DEF SavesInv, Sound, Numbered
<1>6. NewestFirst' /\ PlayersSaveKept'
  BY <1>1 DEF SavesInv, NewestFirst, PlayersSaveKept
<1>7. SavesKept'
  <2>1. \A u \in Triples : Within(u)' = Within(u)
    BY <1>1, <1>3, Distinct DEF Within
  <2>2. \A u \in Triples : job'.set = u => job.set = u
    BY <1>3, Distinct
  <2>3. QED
    BY <1>1, <2>1, <2>2 DEF SavesInv, SavesKept
<1>8. QED
  BY <1>4, <1>5, <1>6, <1>7 DEF SavesInv

LEMMA WriteSteps ==
  ASSUME SavesInv, StartWrite \/ FinishWrite PROVE SavesInv'
<1>1. part \in [Sets -> Contents] /\ job.save \in Nat
  BY DEF SavesInv, Sound
<1>2. CASE StartWrite
  <2>1. part' \in [Sets -> Contents]
    BY <1>1, <1>2 DEF StartWrite, Contents
  <2>2. QED
    BY <1>2, <2>1, PartStep DEF StartWrite
<1>3. CASE FinishWrite
  <2>1. part' \in [Sets -> Contents]
    BY <1>1, <1>3 DEF FinishWrite, Contents
  <2>2. job.set \in Sets
    BY <1>3 DEF FinishWrite, SavesInv, Sound, Sets, Idle
  <2>3. job' = Idle \/ (Then("rename") /\ part'[job.set] = job.save)
    BY <1>1, <1>3, <2>2 DEF FinishWrite
  <2>4. QED
    BY <1>3, <2>1, <2>3, PartStep DEF FinishWrite
<1>4. QED
  BY <1>2, <1>3

\* The part takes the newest name: it is later than every save of the set, and is the
\* last that succeeded.
LEMMA RenamePartStep ==
  ASSUME SavesInv, RenamePart PROVE SavesInv'
<1>1. /\ job.call = "rename" /\ job' = Idle /\ Unchanged
      /\ part' = [part EXCEPT ![job.set] = Nothing]
  BY DEF RenamePart
<1>2. /\ job.set \in Sets /\ job.save \in Nat /\ part[job.set] = job.save
      /\ job.save <= encoded /\ encoded \in Nat
  BY <1>1 DEF SavesInv, Sound, Numbered, Sets, Idle
<1>3. part' \in [Sets -> Contents]
  BY <1>1 DEF SavesInv, Sound, Contents
<1>4. CASE UNCHANGED <<file, last, cut>>
  BY <1>1, <1>3, <1>4, PartStep
<1>5. CASE /\ file' = [file EXCEPT ![At(1)] = part[job.set]]
           /\ last' = [last EXCEPT ![job.set] = job.save]
           /\ cut' = [cut EXCEPT ![job.set] = 0]
  <2>1. <<job.set, 1>> \in Names /\ DOMAIN file = Names
    BY <1>2 DEF Sets, Names, SavesInv, Sound
  <2>2. /\ DOMAIN file' = Names /\ file'[<<job.set, 1>>] = job.save
        /\ \A n \in Names : n # <<job.set, 1>> => file'[n] = file[n]
    BY <1>2, <1>5, <2>1 DEF At
  <2>3. /\ last'[job.set] = job.save /\ cut'[job.set] = 0
        /\ last' \in [Sets -> Saved] /\ cut' \in [Sets -> Nat]
        /\ \A s \in Sets : s # job.set => last'[s] = last[s] /\ cut'[s] = cut[s]
    BY <1>2, <1>5 DEF SavesInv, Sound, Saved
  <2>4. /\ job'.set = "none" /\ job'.call = "none" /\ job'.save = 0
        /\ job' = [set |-> job'.set, call |-> job'.call, save |-> job'.save]
        /\ UNCHANGED <<mode, autosave, season, encoded>>
    BY <1>1 DEF Idle, Unchanged
  <2>5. Sound'
    <3>1. \A n \in Names : file'[n] \in Saved
      BY <1>2, <2>2 DEF SavesInv, Sound, Saved
    <3>2. /\ mode' \in Modes /\ autosave' \in BOOLEAN /\ season' \in Saved /\ encoded' \in Nat
          /\ season' # Nothing => mode' = "host"
      BY <2>4 DEF SavesInv, Sound
    <3>3. QED
      BY <1>1, <1>3, <2>2, <2>3, <2>4, <3>1, <3>2 DEF Sound, Calls
  <2>6. ASSUME NEW t \in Triples, NEW a \in Slot
        PROVE  /\ t # job.set \/ a # 1 => file'[<<t, a>>] = file[<<t, a>>]
               /\ t = job.set /\ a = 1 => file'[<<t, a>>] = job.save
    BY <2>2, Distinct
  <2>7. ASSUME NEW t \in Triples
        PROVE  /\ t = job.set => last'[t] = job.save /\ cut'[t] = 0
               /\ t # job.set => last'[t] = last[t] /\ cut'[t] = cut[t]
    BY <2>3, Distinct
  <2>8. Numbered'
    <3>1. ASSUME NEW t \in Triples, NEW a \in Slot, file'[<<t, a>>] # Nothing
          PROVE  /\ file'[<<t, a>>] <= encoded
                 /\ last'[t] # Nothing /\ file'[<<t, a>>] <= last'[t]
                 /\ t = "net" /\ season # Nothing => file'[<<t, a>>] < season
      <4>1. CASE t = job.set
        <5>1. season # Nothing => t # "net"
          BY <4>1 DEF SavesInv, Sound
        <5>2. CASE a = 1
          BY <1>2, <2>6, <2>7, <4>1, <5>1, <5>2, SavesAssumption
        <5>3. CASE a # 1
          <6>1. file[<<t, a>>] # Nothing /\ file'[<<t, a>>] = file[<<t, a>>]
            BY <2>6, <3>1, <5>3
          <6>2. file[<<t, a>>] <= encoded /\ file[<<t, a>>] < job.save /\ file[<<t, a>>] \in Nat
            BY <4>1, <6>1, Distinct DEF SavesInv, Sound, Numbered, Saved
          <6>3. QED
            BY <1>2, <2>7, <4>1, <5>1, <6>1, <6>2, SavesAssumption
        <5>4. QED
          BY <5>2, <5>3
      <4>2. CASE t # job.set
        BY <2>6, <2>7, <3>1, <4>2 DEF SavesInv, Numbered
      <4>3. QED
        BY <4>1, <4>2
    <3>2. season # Nothing => season <= encoded
      BY DEF SavesInv, Numbered
    <3>3. QED
      BY <1>2, <2>4, <3>1, <3>2, Distinct DEF Numbered
  <2>9. NewestFirst'
    <3>1. ASSUME NEW t \in Triples, NEW a \in Slot, NEW b \in Slot, a < b,
                 file'[<<t, a>>] \in Nat, file'[<<t, b>>] \in Nat
          PROVE  file'[<<t, a>>] > file'[<<t, b>>]
      <4>1. b # 1 /\ file'[<<t, b>>] = file[<<t, b>>]
        <5>1. b # 1
          BY <3>1 DEF Slot
        <5>2. QED
          BY <2>6, <5>1
      <4>2. CASE t = job.set /\ a = 1
        <5>1. file[<<t, b>>] < job.save
          BY <3>1, <4>1, <4>2, SavesAssumption DEF SavesInv, Numbered
        <5>2. QED
          BY <1>2, <2>6, <3>1, <4>1, <4>2, <5>1
      <4>3. CASE t # job.set \/ a # 1
        BY <2>6, <3>1, <4>1, <4>3 DEF SavesInv, NewestFirst, Slot
      <4>4. QED
        BY <4>2, <4>3
    <3>2. QED
      BY <3>1 DEF NewestFirst, Slot
  <2>10. SavesKept'
    <3>1. ASSUME NEW t \in Triples, last'[t] # Nothing, cut'[t] < 3
          PROVE  \E a \in Slot : a <= Within(t)' /\ file'[<<t, a>>] = last'[t]
      <4>1. Within(t)' = cut'[t] + 1
        BY <2>4, Distinct DEF Within
      <4>2. CASE t = job.set
        <5>1. 1 \in Slot /\ 1 <= Within(t)'
          BY <2>7, <4>1, <4>2 DEF Slot
        <5>2. QED
          BY <2>6, <2>7, <4>2, <5>1
      <4>3. CASE t # job.set
        <5>1. PICK a \in Slot : a <= Within(t) /\ file[<<t, a>>] = last[t]
          BY <2>7, <3>1, <4>3 DEF SavesInv, SavesKept
        <5>2. Within(t) = cut[t] + 1
          BY <4>3 DEF Within
        <5>3. QED
          BY <2>6, <2>7, <4>1, <4>3, <5>1, <5>2
      <4>4. QED
        BY <4>2, <4>3
    <3>2. QED
      BY <2>4, <3>1, Distinct DEF SavesKept
  <2>11. PlayersSaveKept'
    BY <2>2, <2>3 DEF SavesInv, PlayersSaveKept, Names, Sets
  <2>12. QED
    BY <2>5, <2>8, <2>9, <2>10, <2>11 DEF SavesInv
<1>6. QED
  BY <1>4, <1>5 DEF RenamePart

(***************************************************************************)
(* The theorems.                                                           *)
(***************************************************************************)

LEMMA SavesInvNext == SavesInv /\ [SavesNext]_savesVars => SavesInv'
<1> SUFFICES ASSUME SavesInv, [SavesNext]_savesVars PROVE SavesInv'
  OBVIOUS
<1>1. CASE SavesNext
  BY <1>1, BeginSteps, RemoveStep, RotationSteps, WriteSteps, RenamePartStep DEF SavesNext
<1>2. CASE UNCHANGED savesVars
  BY <1>2 DEF savesVars, SavesInv, Sound, Numbered, NewestFirst, SavesKept, Within, PlayersSaveKept
<1>3. QED
  BY <1>1, <1>2

LEMMA SavesSound == SavesSpec => []SavesInv
BY SavesStart, SavesInvNext, PTL DEF SavesSpec

\* Files, jobs, requests and counts keep their types (saves.rs).
THEOREM SavesTypeCorrect == SavesSpec => []SavesTypeOK
<1> DEFINE Files == file \in [Names -> Contents]
<1>1. SavesInit => Files
  BY DEF SavesInit, Contents
<1>2. ASSUME SavesInv, Files, [SavesNext]_savesVars PROVE Files'
  <2>1. /\ part \in [Sets -> Contents] /\ Nothing \in Contents
        /\ job.call = "rename" => job.set \in Sets
    BY <1>2 DEF SavesInv, Sound, Contents, Sets, Idle
  <2>2. CASE UNCHANGED file
    BY <1>2, <2>2
  <2>3. CASE RemoveOldest \/ RenamePart
    BY <1>2, <2>1, <2>3 DEF RemoveOldest, RenamePart
  <2>4. CASE RenameMiddle \/ RenameNewest
    <3>1. job.set \in Triples
      BY <1>2, <2>4, RotatingSet DEF RenameMiddle, RenameNewest
    <3>2. At(1) \in Names /\ At(2) \in Names
      BY <3>1 DEF At, Names, Triples
    <3>3. QED
      BY <1>2, <2>1, <2>4, <3>2 DEF RenameMiddle, RenameNewest, Moved
  <2>5. QED
    BY <1>2, <2>2, <2>3, <2>4 DEF SavesNext, savesVars, SeasonEnds, RunPending, WriteSeason, PlayerSaves,
       GameChanges, Begin, StartWrite, FinishWrite, Crash
<1>3. SavesInv /\ Files => SavesTypeOK
  <2>1. ASSUME SavesInv, Files PROVE SavesTypeOK
    <3>1. job.set \in Sets \cup {"none"}
      BY <2>1 DEF SavesInv, Sound, Sets
    <3>2. job \in [set : Sets \cup {"none"}, call : Calls, save : Nat]
      BY <2>1, <3>1 DEF SavesInv, Sound
    <3>3. QED
      BY <2>1, <3>2 DEF SavesTypeOK, SavesInv, Sound, Saved
  <2>2. QED
    BY <2>1
<1>4. QED
  BY <1>1, <1>2, <1>3, SavesSound, PTL DEF SavesSpec

\* A name always holds a whole save or none (write_bytes).
THEOREM NamesHoldWholeSavesAlways == SavesSpec => []NamesHoldWholeSaves
<1>1. SavesInv => NamesHoldWholeSaves
  BY SavesAssumption DEF SavesInv, Sound, Saved, NamesHoldWholeSaves
<1>2. QED
  BY <1>1, SavesSound, PTL

\* The season saves stay in order of age, wherever a rotation stops or fails
\* (rotate_and_write_as).
THEOREM NewestFirstAlways == SavesSpec => []NewestFirst
<1>1. SavesInv => NewestFirst
  BY DEF SavesInv
<1>2. QED
  BY <1>1, SavesSound, PTL

\* The last season save that succeeded survives two that do not (AUTOSAVES).
THEOREM LastSaveKeptAlways == SavesSpec => []LastSaveKept
<1>1. ASSUME SavesInv, NEW t \in Triples, last[t] # Nothing, cut[t] < 3
      PROVE  \E a \in 1 .. cut[t] + 1 : file[<<t, a>>] = last[t]
  <2>1. cut[t] \in Nat
    BY <1>1, Distinct DEF SavesInv, Sound
  <2>2. PICK a \in Slot : a <= Within(t) /\ file[<<t, a>>] = last[t]
    BY <1>1 DEF SavesInv, SavesKept
  <2>3. a \in 1 .. cut[t] + 1
    BY <2>1, <2>2 DEF Within, Slot
  <2>4. QED
    BY <2>2, <2>3
<1>2. SavesInv => LastSaveKept
  BY <1>1 DEF LastSaveKept
<1>3. QED
  BY <1>2, SavesSound, PTL

\* What the player saved under a name stays until the next is whole (write_bytes).
THEOREM PlayersSaveKeptAlways == SavesSpec => []PlayersSaveKept
<1>1. SavesInv => PlayersSaveKept
  BY DEF SavesInv
<1>2. QED
  BY <1>1, SavesSound, PTL

\* KindsApart: a game of each kind touches only its own season saves and the player's,
\* and a joiner's none, through any changes of game (run_pending, write_season).
THEOREM KindsApartAlways == SavesSpec => KindsApart
<1>1. ASSUME SavesInv, SavesNext, NEW n \in Names, file'[n] # file[n]
      PROVE  n[1] \in SetsOf[mode]
  <2>1. \/ RemoveOldest \/ RenameMiddle \/ RenameNewest \/ RenamePart
    BY <1>1 DEF SavesNext, SeasonEnds, RunPending, WriteSeason, PlayerSaves, GameChanges, Begin,
       StartWrite, FinishWrite, Crash
  <2>2. /\ job.call # "none"
        /\ \/ file' = file
           \/ \E v : \E a \in 1 .. 3 : file' = [file EXCEPT ![At(a)] = v]
           \/ \E a, b \in 1 .. 3 : file' = Moved(At(a), At(b))
    BY <2>1 DEF RemoveOldest, RenameMiddle, RenameNewest, RenamePart
  <2>3. PICK a \in 1 .. 3 : n = At(a)
    <3>1. DOMAIN file = Names
      BY <1>1 DEF SavesInv, Sound
    <3>2. QED
      BY <1>1, <2>2, <3>1 DEF Moved
  <2>4. n[1] = job.set
    BY <2>3 DEF At
  <2>5. \/ job.set = "single" /\ mode = "single"
        \/ job.set = "net" /\ mode = "host"
        \/ job.set = "player" /\ mode \in {"single", "host"}
    BY <1>1, <2>2 DEF SavesInv, Sound, Modes
  <2>6. QED
    BY <2>4, <2>5 DEF SetsOf
<1>2. SavesInv /\ [SavesNext]_savesVars =>
        [\A n \in Names : file'[n] # file[n] => n[1] \in SetsOf[mode]]_savesVars
  BY <1>1
<1>3. QED
  BY <1>2, SavesSound, PTL DEF SavesSpec, KindsApart

=============================================================================
