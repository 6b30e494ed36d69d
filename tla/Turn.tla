-------------------------------- MODULE Turn --------------------------------
(***************************************************************************)
(* The turn of a game several people share: the phase machine of           *)
(* l2-kingdom (phase/mod.rs), the wind-on of l2-game that suspends it for  *)
(* battles (turn/), and the orders the seats send it (command/turn.rs).    *)
(* Every seat runs the same orders and frames (Lockstep), so there is one  *)
(* world here; an order is posted by what a seat sees and runs ticks later.*)
(*                                                                         *)
(* advance's loop is cut into its rounds: while `input` is not "Out" the   *)
(* program is inside it and nothing else happens.  Units are counted by    *)
(* the sweeps they still need; who wins a battle is left open.             *)
(***************************************************************************)
EXTENDS Integers, FiniteSets, FiniteSetsExt

CONSTANTS NumRealms,    \* realms are 1 .. NumRealms
          Humans,       \* the realms people play, a seat each
          Host,         \* the realm of the host's seat
          Threshold,    \* ai::done_threshold: where a computer realm has no step left
          Delay,        \* SessionConfig.input_delay: the ticks before an order runs
          MaxPath,      \* bound: the sweeps a unit walks
          MaxMarches,   \* bound: the marches and assaults of a game
          Mortal,       \* bound: the realms a battle may wipe out
          Leaving,      \* bound: the seats that may be handed to the computer
          PromptAny,    \* Options.fight_humans_only_byte # 0
          Timed,        \* Options.time_limit > 0
          None

Realms == 1 .. NumRealms
Computers == Realms \ Humans
Done == Threshold + 1  \* AI_STEP_DONE

Sides == [a : Realms, d : Realms]                    \* BattleSides
Questions == [a : Realms, d : Realms, choice : 0 .. 2]
Tails == [battle : {None} \union Sides, season : BOOLEAN]
Turns == [idle : BOOLEAN, opening : BOOLEAN, stage : {"Begin", "Phase", "Tail"}, siege : BOOLEAN,
          question : {None} \union Questions, assault : BOOLEAN, tail : {None} \union Tails,
          unseen : {None} \union Sides]
Kinds == {"EndTurn", "Answer", "Dismiss", "TakeTheField", "Finish", "Move", "ToComputer"}
Orders == [kind : Kinds, realm : Realms, due : 0 .. Delay]

ASSUME TurnAssumption ==
  /\ NumRealms \in Nat /\ Delay \in Nat /\ Threshold \in Nat \ {0} /\ MaxPath \in Nat \ {0} /\ MaxMarches \in Nat
  /\ Host \in Humans /\ Humans \subseteq Realms /\ Mortal \subseteq Realms
  /\ Leaving \subseteq Humans \ {Host}
  /\ PromptAny \in BOOLEAN /\ Timed \in BOOLEAN
  /\ None \notin Sides /\ None \notin Questions /\ None \notin Tails
  /\ None \notin Turns /\ None \notin Orders

VARIABLES
  phase, step,     \* TurnMachine: g_turnPhase and its step (counted to 2)
  opened,          \* TurnMachine.players_turn_open
  cursor,          \* TurnMachine.ai_cursor
  aiStep,          \* Realm.ai_step, counted to Done
  alive,           \* the realms with strength # 0
  seats,           \* Game.seats: the realms people play now
  turn,            \* Game.turn: the wind-on in flight
  fight,           \* Game.battle: a battle is fought on the field
  march, moving,   \* sweeps left to each realm's army, and to the units a phase waits for
  left,            \* marches and assaults left
  input,           \* advance's Resume while it runs
  posted,          \* the order a seat has sent, and the ticks before it runs
  prologue,        \* the step-0 prologues each realm has had this turn
  raised, settled  \* battles met and battles decided

vars == <<phase, step, opened, cursor, aiStep, alive, seats, turn, fight, march,
          moving, left, input, posted, prologue, raised, settled>>
machine == <<phase, step, opened, cursor>>
realms == <<aiStep, alive, seats, prologue>>
units == <<march, moving, left>>
battles == <<fight, raised, settled>>

Progress(idle, opening) ==
  [idle |-> idle, opening |-> opening, stage |-> "Begin", siege |-> FALSE,
   question |-> None, assault |-> FALSE, tail |-> None, unseen |-> None]

Init ==
  /\ phase = 1 /\ step = 0 /\ opened = FALSE /\ cursor = 1
  /\ aiStep = [r \in Realms |-> 0] /\ alive = Realms /\ seats = Humans
  /\ turn = None /\ fight = FALSE /\ input = "Out"
  /\ march = [r \in Realms |-> 0] /\ moving = 0 /\ left = MaxMarches
  /\ posted = [s \in Humans |-> None]
  /\ prologue = [r \in Realms |-> 0] /\ raised = 0 /\ settled = 0

Seated == Cardinality(seats) > 1
InFlight == turn # None
Asked == InFlight /\ turn.question # None
Reporting == InFlight /\ turn.unseen # None

(***************************************************************************)
(* Battles: which are asked about, by whom they are decided, and the end.  *)
(***************************************************************************)
Encounters == {[a |-> a, d |-> d] : a \in alive, d \in alive} \ {[a |-> r, d |-> r] : r \in Realms}

Settlement(b) ==
  CASE {b.a, b.d} \intersect seats = {} -> "Silently"
    [] {b.a, b.d} \intersect seats # {} /\ ~PromptAny /\ ~({b.a, b.d} \subseteq seats) -> "Reported"
    [] OTHER -> "Prompt"

Chooser(b) == IF b.a \in seats THEN b.a ELSE b.d

QuestionFor(b) ==
  LET me == IF Seated THEN Chooser(b) ELSE Host IN
  [a |-> b.a, d |-> b.d,
   choice |-> IF me = b.d THEN (IF b.a \in seats THEN 2 ELSE 1) ELSE IF me = b.a THEN 1 ELSE 0]

ChoiceForAttacker(q, s) ==      \* mutant: the choice is the attacker's, whoever plays it
  IF Seated /\ s # q.a THEN 0 ELSE q.choice

\* the thumbs are drawn for the seat that reads 1.
ChoiceFor(q, s) ==
  CASE ~Seated \/ s = Chooser(q) -> q.choice
    [] Seated /\ s # Chooser(q) /\ s \in {q.a, q.d} -> IF q.choice = 1 THEN 2 ELSE q.choice
    [] OTHER -> 0

\* Seated, a battle is its sides' seats' alone; no battle, or none of theirs, is anyone's.
Concerns(b, s) ==
  b = None \/ ~Seated \/ s \in {b.a, b.d} \/ {b.a, b.d} \intersect seats = {}

\* resolve and record: a side may be wiped out, and a person who was in it is told.
Decide(b, t) ==
  /\ settled' = settled + 1
  /\ \E lost \in {{}} \union {{r} : r \in {b.a, b.d} \intersect Mortal} : alive' = alive \ lost
  /\ turn' = IF Settlement(b) = "Silently" THEN t ELSE [t EXCEPT !.unseen = [a |-> b.a, d |-> b.d]]

(***************************************************************************)
(* The computer's realms: one is served a frame, in turn.                  *)
(***************************************************************************)
Ahead(k) == ((cursor - 1 + k) % NumRealms) + 1
Served == Ahead(Min({k \in 0 .. NumRealms - 1 : Ahead(k) \in alive}))

\* step_zero for every realm that has not begun.
Prologue == [r \in Realms |-> IF r \in alive /\ aiStep[r] = 0 THEN prologue[r] + 1 ELSE prologue[r]]

OpenPlayersTurnAgain ==      \* mutant: whether or not it is open
  /\ opened' = TRUE
  /\ prologue' = Prologue

OpenPlayersTurn ==
  /\ opened' = TRUE
  /\ prologue' = IF opened THEN prologue ELSE Prologue

\* drive_ai: run_step, and a handler that may set an army walking.
Undriven == [cursor |-> cursor, aiStep |-> aiStep, march |-> march, left |-> left]
Driven ==
  IF alive = {} THEN {Undriven}
  ELSE LET r == Served
           now == IF aiStep[r] = 0 THEN 1 ELSE aiStep[r]
           plays == r \notin seats /\ now < Done
           next == IF ~plays THEN now
                   ELSE IF now >= Threshold /\ march[r] = 0 THEN Done
                   ELSE Min({now + 1, Threshold})
           served(walks, orders) ==
             [cursor |-> (r % NumRealms) + 1, aiStep |-> [aiStep EXCEPT ![r] = next], march |-> walks, left |-> orders]
           sends == plays /\ now < Threshold /\ left > 0 /\ march[r] = 0
       IN  {served(march, left)}
           \union (IF sends THEN {served([march EXCEPT ![r] = MaxPath], left - 1)} ELSE {})

\* Units_Tick: every army walks on; the first to meet another starts a battle.
Walked(walks, b) ==
  [r \in Realms |-> IF walks[r] = 0 \/ (b # None /\ r = b.a) THEN 0 ELSE walks[r] - 1]
Meetings(walks) == {None} \union {b \in Encounters : walks[b.a] > 0}
Met(b) == IF b = None THEN raised ELSE raised + 1

(***************************************************************************)
(* advance: the rounds of its loop, in the order it tries them.            *)
(***************************************************************************)
Return == input' = "Out"

RoundUnseen ==
  /\ input # "Out" /\ Reporting
  /\ IF input = "Dismiss" THEN turn' = [turn EXCEPT !.unseen = None] /\ input' = "Start"
     ELSE Return /\ UNCHANGED turn
  /\ UNCHANGED <<machine, realms, units, battles, posted>>

\* settle_question; a siege goes on with its next army.
RoundQuestion ==
  /\ input # "Out" /\ ~Reporting /\ Asked
  /\ IF input = "Answer"
     THEN Decide(turn.question, [turn EXCEPT !.question = None, !.assault = FALSE]) /\ input' = "Start"
     ELSE Return /\ UNCHANGED <<turn, alive, settled>>
  /\ UNCHANGED <<machine, aiStep, seats, prologue, units, fight, raised, posted>>

Clear == input # "Out" /\ InFlight /\ ~Reporting /\ ~Asked

RoundIdle ==
  /\ Clear /\ turn.idle
  /\ turn' = None /\ Return
  /\ UNCHANGED <<machine, realms, units, battles, posted>>

\* begin_phase at the first step.
RoundBegin ==
  /\ Clear /\ ~turn.idle /\ turn.stage = "Begin"
  /\ turn' = [turn EXCEPT !.stage = "Phase", !.siege = step = 0 /\ phase = 2]
  /\ IF step = 0 /\ phase \in {3, 5, 6} THEN moving' \in 0 .. MaxPath ELSE UNCHANGED moving
  /\ prologue' = IF step = 0 /\ phase = 4 /\ ~opened THEN Prologue ELSE prologue
  /\ UNCHANGED <<machine, aiStep, alive, seats, march, left, input, battles, posted>>

\* pump_siege: the next army whose engines are ready assaults, until there is none.
RoundSiege ==
  /\ Clear /\ ~turn.idle /\ turn.stage = "Phase" /\ turn.siege
  /\ \/ turn' = [turn EXCEPT !.siege = FALSE] /\ UNCHANGED <<alive, left, raised, settled>>
     \/ /\ left > 0 /\ left' = left - 1 /\ raised' = raised + 1
        /\ \E b \in Encounters :
             IF Settlement(b) = "Prompt"
             THEN turn' = [turn EXCEPT !.question = QuestionFor(b), !.assault = TRUE]
                  /\ UNCHANGED <<alive, settled>>
             ELSE Decide(b, turn)
  /\ UNCHANGED <<machine, aiStep, seats, prologue, march, moving, input, fight, posted>>

OverUnplayed(ai) ==      \* mutant: phase 4 ends whether or not the computer's realms have played
  IF phase = 1 THEN step >= 2
  ELSE IF phase \in {2, 4} THEN step # 0
  ELSE phase = 7 \/ moving = 0

\* TurnMachine::tick, with Kingdom::tick's answer for phase 4: whether the phase is over.
Over(ai) ==
  /\ phase = 1 => step >= 2
  /\ phase = 2 => step # 0
  /\ phase \in {3, 5, 6} => moving = 0
  /\ phase = 4 => step # 0 /\ \A r \in alive \ seats : ai[r] = Done

\* run_phase_tick, and ai::begin_turn when the season ends.
RoundPhase ==
  /\ Clear /\ ~turn.idle /\ turn.stage = "Phase" /\ ~turn.siege
  /\ \E served \in IF phase = 4 THEN Driven ELSE {Undriven} :
     \E b \in Meetings(served.march) :
       LET over == Over(served.aiStep) IN
       /\ phase' = IF over THEN (phase % 7) + 1 ELSE phase
       /\ step' = IF over THEN 0 ELSE Min({step + 1, 2})
       /\ cursor' = IF over THEN 1 ELSE served.cursor
       /\ opened' = (opened /\ ~(over /\ phase = 4))
       /\ aiStep' = IF phase = 7 THEN [r \in Realms |-> IF r \in alive THEN 0 ELSE Done]
                    ELSE served.aiStep
       /\ prologue' = IF phase = 7 THEN [r \in Realms |-> 0] ELSE prologue
       /\ march' = Walked(served.march, b) /\ left' = served.left
       /\ moving' = IF moving = 0 THEN 0 ELSE moving - 1
       /\ raised' = Met(b)
       /\ turn' = [turn EXCEPT !.stage = "Tail", !.tail = [battle |-> b, season |-> phase = 7]]
  /\ UNCHANGED <<alive, seats, fight, settled, input, posted>>

\* finish_tick and raise_battle: the battle the armies met, then the season's report,
\* and the players' turn when the wind-on that opened it has brought it.
RoundTail ==
  /\ Clear /\ ~turn.idle /\ turn.stage = "Tail"
  /\ LET b == turn.tail.battle
         after == [turn EXCEPT !.tail.battle = None]
         opens == turn.opening /\ phase = 4
     IN
     \/ /\ b # None /\ Settlement(b) = "Prompt"
        /\ turn' = [after EXCEPT !.question = QuestionFor(b)]
        /\ UNCHANGED <<opened, prologue, input, alive, settled>>
     \/ /\ b # None /\ Settlement(b) # "Prompt"
        /\ Decide(b, after)
        /\ UNCHANGED <<opened, prologue, input>>
     \/ /\ b = None /\ Return
        /\ turn' = IF turn.tail.season \/ opens THEN None ELSE [turn EXCEPT !.stage = "Begin", !.tail = None]
        /\ IF opens /\ ~turn.tail.season THEN OpenPlayersTurn ELSE UNCHANGED <<opened, prologue>>
        /\ UNCHANGED <<alive, settled>>
  /\ UNCHANGED <<phase, step, cursor, aiStep, seats, units, fight, raised, posted>>

Advance == RoundUnseen \/ RoundQuestion \/ RoundIdle \/ RoundBegin \/ RoundSiege \/ RoundPhase \/ RoundTail

EnterAfresh(resume, t) ==      \* mutant: a new one even when one is in flight
  input' = resume /\ turn' = Progress(FALSE, FALSE)

\* advance makes a turn in flight when there is none, whoever calls it.
Enter(resume, t) ==
  /\ input' = resume
  /\ turn' = IF t = None THEN Progress(FALSE, FALSE) ELSE t

(***************************************************************************)
(* net::frame: one tick of the world, once the tick's orders have run.     *)
(***************************************************************************)
NoneDue == \A s \in Humans : posted[s] # None => posted[s].due > 0
NextTick == [s \in Humans |-> IF posted[s] = None THEN None ELSE [posted[s] EXCEPT !.due = @ - 1]]

\* A fight's own passes, or a screen that waits for its answer.
FrameHolds ==
  /\ fight \/ Asked \/ Reporting
  /\ UNCHANGED <<machine, realms, units, battles, turn, input>>

FrameWinds ==
  /\ ~fight /\ ~Asked /\ ~Reporting
  /\ \/ InFlight /\ Enter("Start", turn)
     \/ ~InFlight /\ phase # 4 /\ Enter("Start", Progress(FALSE, TRUE))
  /\ UNCHANGED <<machine, realms, units, battles>>

\* The players' turn: tick_ai_frame and tick_units_only.
FrameIdles ==
  /\ ~fight /\ ~InFlight /\ phase = 4
  /\ OpenPlayersTurn
  /\ \E served \in Driven : \E b \in Meetings(served.march) :
       /\ cursor' = served.cursor /\ aiStep' = served.aiStep
       /\ march' = Walked(served.march, b) /\ left' = served.left
       /\ raised' = Met(b)
       /\ LET idle == Progress(TRUE, FALSE) IN
          CASE b = None -> UNCHANGED <<turn, alive, settled>>
            [] b # None /\ Settlement(b) = "Prompt" ->
                 turn' = [idle EXCEPT !.question = QuestionFor(b)] /\ UNCHANGED <<alive, settled>>
            [] b # None /\ Settlement(b) = "Reported" -> Decide(b, idle)
            [] b # None /\ Settlement(b) = "Silently" -> Decide(b, None)
  /\ UNCHANGED <<phase, step, seats, moving, fight, input>>

\* The clock runs out: every seat's turn ends at once.
FrameTimesOut ==
  /\ Timed /\ ~fight /\ ~InFlight
  /\ aiStep' = [r \in Realms |-> IF r \in seats THEN Done ELSE aiStep[r]]
  /\ Enter("Start", None)
  /\ UNCHANGED <<machine, alive, seats, prologue, units, battles>>

Frame ==
  /\ input = "Out" /\ NoneDue /\ posted' = NextTick
  /\ FrameHolds \/ FrameWinds \/ FrameIdles \/ FrameTimesOut

(***************************************************************************)
(* The orders of the seats.                                                *)
(***************************************************************************)
EverySeatReady(ai) == \A s \in seats' : s \in alive => ai[s] = Done
EndAll(ai) == [r \in Realms |-> IF r \in seats' THEN Done ELSE ai[r]]

RunEndTurn(s) ==
  /\ UNCHANGED seats
  /\ IF InFlight THEN UNCHANGED <<turn, input, opened, prologue, aiStep>>
     ELSE LET ready == IF Seated THEN [aiStep EXCEPT ![s] = Done] ELSE aiStep IN
       /\ IF Seated THEN OpenPlayersTurn ELSE UNCHANGED <<opened, prologue>>
       /\ IF Seated /\ ~EverySeatReady(ready)
          THEN aiStep' = ready /\ UNCHANGED <<turn, input>>
          ELSE aiStep' = EndAll(ready) /\ Enter("Start", None)
  /\ UNCHANGED <<alive, fight, settled, march, left>>

RunAnswer(s) ==
  /\ IF Concerns(IF Asked THEN turn.question ELSE None, s) THEN Enter("Answer", turn)
     ELSE UNCHANGED <<turn, input>>
  /\ UNCHANGED <<opened, prologue, aiStep, seats, alive, fight, settled, march, left>>

RunDismiss(s) ==
  /\ IF Concerns(IF Reporting THEN turn.unseen ELSE None, s) THEN Enter("Dismiss", turn)
     ELSE UNCHANGED <<turn, input>>
  /\ UNCHANGED <<opened, prologue, aiStep, seats, alive, fight, settled, march, left>>

RunTakeTheField(s) ==
  /\ fight' = (fight \/ (Asked /\ (Seated => ChoiceFor(turn.question, s) = 1)))
  /\ UNCHANGED <<opened, prologue, aiStep, seats, alive, turn, input, settled, march, left>>

\* FinishBattle: given up it is decided as if declined, fought out it is written back.
RunFinish(s) ==
  /\ IF fight /\ InFlight /\ Concerns(turn.question, s)
     THEN /\ fight' = FALSE
          /\ \/ Enter("Answer", turn) /\ UNCHANGED <<alive, settled>>
             \/ Decide(turn.question, [turn EXCEPT !.question = None, !.assault = FALSE]) /\ input' = "Start"
     ELSE UNCHANGED <<fight, turn, input, alive, settled>>
  /\ UNCHANGED <<opened, prologue, aiStep, seats, march, left>>

RunMove(s) ==
  /\ IF s \in alive /\ left > 0 /\ march[s] = 0
     THEN march' = [march EXCEPT ![s] = MaxPath] /\ left' = left - 1 ELSE UNCHANGED <<march, left>>
  /\ UNCHANGED <<opened, prologue, aiStep, seats, alive, turn, input, fight, settled>>

\* ToComputer, the host's alone: a seat's realm goes to the computer.
RunToComputer(r) ==
  /\ seats' = seats \ {r}
  /\ IF r \in seats /\ opened /\ ~InFlight /\ EverySeatReady(aiStep)
     THEN aiStep' = EndAll(aiStep) /\ Enter("Start", None)
     ELSE UNCHANGED <<aiStep, turn, input>>
  /\ UNCHANGED <<opened, prologue, alive, fight, settled, march, left>>

\* A seat's order runs at its tick; a seat that is gone has no realm to order.
Run(s) ==
  /\ input = "Out" /\ posted[s] # None /\ posted[s].due = 0
  /\ posted' = [posted EXCEPT ![s] = None]
  /\ LET order == posted[s] IN
     IF s \notin seats
     THEN UNCHANGED <<opened, prologue, aiStep, seats, alive, turn, input, fight, settled, march, left>>
     ELSE \/ order.kind = "EndTurn" /\ RunEndTurn(s)
          \/ order.kind = "Answer" /\ RunAnswer(s)
          \/ order.kind = "Dismiss" /\ RunDismiss(s)
          \/ order.kind = "TakeTheField" /\ RunTakeTheField(s)
          \/ order.kind = "Finish" /\ RunFinish(s)
          \/ order.kind = "Move" /\ RunMove(s)
          \/ order.kind = "ToComputer" /\ RunToComputer(order.realm)
  /\ UNCHANGED <<phase, step, cursor, moving, raised>>

\* What the screens of a seat let it order, seeing the world as it is now.
Offered(s) ==
  {[kind |-> k, realm |-> s, due |-> Delay] : k \in
     (IF s \in alive /\ left > 0 /\ (~InFlight \/ turn.opening) THEN {"Move"} ELSE {})
     \union (IF ~InFlight /\ ~fight THEN {"EndTurn"} ELSE {})
     \union (IF Asked /\ ~Reporting /\ ~fight /\ ChoiceFor(turn.question, s) = 1
             THEN {"Answer", "TakeTheField"} ELSE {})
     \union (IF Reporting THEN {"Dismiss"} ELSE {})
     \union (IF fight /\ Asked /\ s \in {turn.question.a, turn.question.d} THEN {"Finish"} ELSE {})}

\* The host may hand a seat that left or is waited for to the computer.
Handovers(s) ==
  {[kind |-> "ToComputer", realm |-> r, due |-> Delay] : r \in IF s = Host THEN Leaving \intersect seats ELSE {}}

Post(s, orders) ==
  /\ input = "Out" /\ s \in seats /\ posted[s] = None
  /\ \E order \in orders : posted' = [posted EXCEPT ![s] = order]
  /\ UNCHANGED <<machine, realms, units, battles, turn, input>>

PostAny(s) == Post(s, Offered(s) \union Handovers(s))
Next == Advance \/ Frame \/ \E s \in Humans : PostAny(s) \/ Run(s)
Spec == Init /\ [][Next]_vars

\* The frames go on, an order reaches its tick, and a person who is asked answers.
FairSpec ==
  /\ Spec /\ WF_vars(Advance) /\ WF_vars(Frame)
  /\ \A s \in Humans : WF_vars(Run(s)) /\ WF_vars(Post(s, Offered(s)))

(***************************************************************************)
(* Properties.                                                             *)
(***************************************************************************)
TypeOK ==
  /\ phase \in 1 .. 7 /\ step \in 0 .. 2 /\ opened \in BOOLEAN /\ cursor \in Realms
  /\ aiStep \in [Realms -> 0 .. Done] /\ alive \subseteq Realms
  /\ Host \in seats /\ seats \subseteq Humans
  /\ fight \in BOOLEAN /\ march \in [Realms -> 0 .. MaxPath] /\ moving \in 0 .. MaxPath
  /\ left \in 0 .. MaxMarches /\ input \in {"Out", "Start", "Answer", "Dismiss"}
  /\ posted \in [Humans -> {None} \union Orders] /\ turn \in {None} \union Turns
  /\ prologue \in [Realms -> Nat] /\ raised \in Nat /\ settled \in Nat
  /\ input # "Out" => InFlight

\* Every battle two armies meet in is decided once, however its question is answered and
\* whatever is ordered meanwhile: none is lost when a wind-on is suspended, none fought twice.
Undecided ==
  (IF Asked THEN 1 ELSE 0)
  + (IF InFlight /\ turn.tail # None /\ turn.tail.battle # None THEN 1 ELSE 0)
BattlesDecidedOnce == raised = settled + Undecided

\* No realm has its prologue twice in a turn, however its phase 4 came to be opened, and no
\* computer's realm plays a step of a turn before it.
PrologueFirst ==
  \A r \in Realms :
    /\ prologue[r] <= 1
    /\ r \in Computers /\ r \in alive /\ aiStep[r] > 0 => prologue[r] = 1

\* The state is well formed, and a phase is left only when what it waits for is over: no unit a
\* phase launched still walks in another, no siege goes on, and every computer's realm has
\* played when the turn moves on.
PhasesFinish ==
  /\ TypeOK
  /\ moving > 0 => phase \in {3, 5, 6}
  /\ InFlight /\ turn.siege => phase = 2
  /\ phase \in {5, 6, 7} => \A r \in Computers \intersect alive : aiStep[r] = Done

\* A battle nobody can bring to its end: no seat is offered the answer and heeded, or none
\* is on the field to see it out.
Stranded ==
  \/ Asked /\ ~fight /\ ~\E s \in seats : ChoiceFor(turn.question, s) = 1 /\ Concerns(turn.question, s)
  \/ fight /\ {turn.question.a, turn.question.d} \intersect seats = {}

\* Seasons go on ending: no battle, siege, unit or realm holds the turn up for ever, and
\* a battle is stranded only where a seat has been handed to the computer.
SeasonsGoOn == <>(Stranded /\ seats # Humans) \/ []<>(phase = 7)

\* The players' turn ends when every seat still in play has ended its own.
SeatsEndTheTurn ==
  [][phase = 4 /\ phase' = 5 => \A s \in seats \intersect alive : aiStep[s] = Done]_vars
=============================================================================
