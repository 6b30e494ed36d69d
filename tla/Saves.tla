------------------------------- MODULE Saves -------------------------------
(***************************************************************************)
(* Save files (crates/l2-game/src/saves.rs): the three season saves of a   *)
(* single player's game, the three of a network game's host, and a save    *)
(* the player names.  A step is one call to the file system, and the       *)
(* program may end, or the call fail, at each.                             *)
(*                                                                         *)
(* A save is the number of its encoding, counted since the first: a later  *)
(* one has a higher number, whatever game it is of.                        *)
(***************************************************************************)
EXTENDS Integers

CONSTANTS Nothing,   \* no file, no save
          Torn,      \* a file with a part of a save in it
          Faults,    \* what may befall a save: "Crash", "Error"
          MaxSaves   \* bound: the saves encoded

ASSUME SavesAssumption ==
  /\ MaxSaves \in Nat /\ Faults \subseteq {"Crash", "Error"}
  /\ Nothing \notin Nat /\ Torn \notin Nat /\ Nothing # Torn

Sets == {"single", "net", "player"}     \* AUTOSAVES, NET_AUTOSAVES, the player's own
Modes == {"single", "host", "joiner"}   \* Link.lockstep and Link.hosting
Names == {"single", "net"} \X (1 .. 3) \cup {<<"player", 1>>}

VARIABLES
  file,      \* what is under each name
  part,      \* the newest name's file with the extension .part, of each set
  job,       \* the save under way: its set, its next call, its number
  mode,      \* the game that is played
  autosave,  \* Machine.autosave
  season,    \* Game.season_save
  encoded,   \* the saves encoded so far
  last,      \* the last save of a set whose writing has succeeded
  cut        \* how many savings of a set have begun since then

savesVars == <<file, part, job, mode, autosave, season, encoded, last, cut>>

Idle == [set |-> "none", call |-> "none", save |-> 0]

SavesInit ==
  /\ file = [n \in Names |-> Nothing] /\ part = [s \in Sets |-> Nothing]
  /\ job = Idle /\ mode \in Modes
  /\ autosave = FALSE /\ season = Nothing /\ encoded = 0
  /\ last = [s \in Sets |-> Nothing] /\ cut = [s \in Sets |-> 0]

\* The season turns: a single player's map asks for a save as it fades, on every seat;
\* the host of a network game encodes the world at that tick (net::frame).
SeasonEnds ==
  /\ job = Idle /\ encoded < MaxSaves
  /\ autosave' = TRUE
  /\ IF mode = "host" THEN season' = encoded + 1 /\ encoded' = encoded + 1
     ELSE UNCHANGED <<season, encoded>>
  /\ UNCHANGED <<file, part, job, mode, last, cut>>

Begin(set, call, save) ==
  /\ job' = [set |-> set, call |-> call, save |-> save]
  /\ cut' = [cut EXCEPT ![set] = @ + 1]
  /\ UNCHANGED <<file, part, mode, last>>

RunPendingAnywhere ==      \* mutant: in a network game too
  /\ job = Idle /\ autosave /\ autosave' = FALSE
  /\ encoded < MaxSaves /\ encoded' = encoded + 1
  /\ Begin("single", "remove", encoded + 1)
  /\ UNCHANGED season

\* run_pending: the request is spent, and carried out unless the game is a network's.
RunPending ==
  /\ job = Idle /\ autosave /\ autosave' = FALSE
  /\ IF mode = "single"
     THEN /\ encoded < MaxSaves /\ encoded' = encoded + 1
          /\ Begin("single", "remove", encoded + 1)
     ELSE UNCHANGED <<file, part, job, mode, encoded, last, cut>>
  /\ UNCHANGED season

WriteSeasonAgain ==      \* mutant: it is not taken, and written again
  /\ job = Idle /\ season # Nothing
  /\ Begin("net", "remove", season)
  /\ UNCHANGED <<season, autosave, encoded>>
\* write_season: nobody but the host has one to take.
WriteSeason ==
  /\ job = Idle /\ season # Nothing /\ season' = Nothing
  /\ Begin("net", "remove", season)
  /\ UNCHANGED <<autosave, encoded>>

\* write: the player saves the game, in a network game only the host.  Its name is taken
\* to be none of the rotations', which is_valid_name would let the player type.
PlayerSaves ==
  /\ job = Idle /\ mode # "joiner" /\ encoded < MaxSaves
  /\ encoded' = encoded + 1
  /\ Begin("player", "write", encoded + 1)
  /\ UNCHANGED <<autosave, season>>

\* The world of a Start or a Rejoin replaces the game (App::pump_net), a request for a
\* save or not; a network game ends, or goes on for one (end_session, continue_alone),
\* after the tick that spent the request and the season's save.
GameChanges ==
  /\ job = Idle /\ season = Nothing
  /\ \/ mode = "single" /\ mode' \in {"host", "joiner"}
     \/ mode # "single" /\ ~autosave /\ mode' = "single"
  /\ UNCHANGED <<file, part, job, autosave, season, encoded, last, cut>>

(***************************************************************************)
(* The calls of rotate_and_write_as and write_bytes.                       *)
(***************************************************************************)
At(place) == <<job.set, place>>
Unchanged == UNCHANGED <<mode, autosave, season, encoded>>
Then(call) == job' = [job EXCEPT !.call = call]

\* The rotation looks at no result: a call that fails changes nothing, and the next
\* is made all the same.
Moved(from, to) == [file EXCEPT ![to] = file[from], ![from] = Nothing]

RemoveMiddle ==      \* mutant: the second is removed, not the third
  /\ job.call = "remove" /\ Then("shift")
  /\ \/ file' = [file EXCEPT ![At(2)] = Nothing]
     \/ "Error" \in Faults /\ UNCHANGED file
  /\ UNCHANGED <<part, last, cut>> /\ Unchanged

RemoveOldest ==
  /\ job.call = "remove" /\ Then("shift")
  /\ \/ file' = [file EXCEPT ![At(3)] = Nothing]
     \/ "Error" \in Faults /\ UNCHANGED file
  /\ UNCHANGED <<part, last, cut>> /\ Unchanged

RenameMiddle ==
  /\ job.call = "shift" /\ Then("rotate")
  /\ \/ file[At(2)] # Nothing /\ file' = Moved(At(2), At(3))
     \/ (file[At(2)] = Nothing \/ "Error" \in Faults) /\ UNCHANGED file
  /\ UNCHANGED <<part, last, cut>> /\ Unchanged

RenameNewest ==
  /\ job.call = "rotate" /\ Then("write")
  /\ \/ file[At(1)] # Nothing /\ file' = Moved(At(1), At(2))
     \/ (file[At(1)] = Nothing \/ "Error" \in Faults) /\ UNCHANGED file
  /\ UNCHANGED <<part, last, cut>> /\ Unchanged

StartWriteInPlace ==      \* mutant: the file itself is made and filled
  /\ job.call = "write" /\ Then("fill")
  /\ file' = [file EXCEPT ![At(1)] = Torn] /\ part' = [part EXCEPT ![job.set] = Torn]
  /\ UNCHANGED <<last, cut>> /\ Unchanged

\* fs::write makes the file first and fills it after; a failure leaves what there is.
StartWrite ==
  /\ job.call = "write" /\ Then("fill")
  /\ part' = [part EXCEPT ![job.set] = Torn]
  /\ UNCHANGED <<file, last, cut>> /\ Unchanged

FinishWrite ==
  /\ job.call = "fill"
  /\ \/ part' = [part EXCEPT ![job.set] = job.save] /\ Then("rename")
     \/ "Error" \in Faults /\ job' = Idle /\ UNCHANGED part
  /\ UNCHANGED <<file, last, cut>> /\ Unchanged

RenamePartFirst ==      \* mutant: the old file is removed before
  /\ job.call = "rename" /\ job' = Idle
  /\ part' = [part EXCEPT ![job.set] = Nothing]
  /\ \/ /\ file' = [file EXCEPT ![At(1)] = part[job.set]]
        /\ last' = [last EXCEPT ![job.set] = job.save]
        /\ cut' = [cut EXCEPT ![job.set] = 0]
     \/ "Error" \in Faults /\ file' = [file EXCEPT ![At(1)] = Nothing] /\ UNCHANGED <<last, cut>>
  /\ Unchanged

RenamePart ==
  /\ job.call = "rename" /\ job' = Idle
  /\ part' = [part EXCEPT ![job.set] = Nothing]
  /\ \/ /\ file' = [file EXCEPT ![At(1)] = part[job.set]]
        /\ last' = [last EXCEPT ![job.set] = job.save]
        /\ cut' = [cut EXCEPT ![job.set] = 0]
     \/ "Error" \in Faults /\ UNCHANGED <<file, last, cut>>
  /\ Unchanged

\* The program ends and is started again, on any game.
Crash ==
  /\ "Crash" \in Faults
  /\ job' = Idle /\ autosave' = FALSE /\ season' = Nothing /\ mode' \in Modes
  /\ UNCHANGED <<file, part, encoded, last, cut>>

SavesNext == \/ SeasonEnds \/ RunPending \/ WriteSeason \/ PlayerSaves \/ GameChanges
        \/ RemoveOldest \/ RenameMiddle \/ RenameNewest
        \/ StartWrite \/ FinishWrite \/ RenamePart \/ Crash

SavesSpec == SavesInit /\ [][SavesNext]_savesVars

(***************************************************************************)
(* Properties.                                                             *)
(***************************************************************************)
Contents == Nat \cup {Nothing, Torn}
Calls == {"none", "remove", "shift", "rotate", "write", "fill", "rename"}

SavesTypeOK ==
  /\ file \in [Names -> Contents] /\ part \in [Sets -> Contents]
  /\ job \in [set : Sets \cup {"none"}, call : Calls, save : Nat]
  /\ mode \in Modes /\ autosave \in BOOLEAN /\ season \in Nat \cup {Nothing}
  /\ encoded \in Nat /\ last \in [Sets -> Nat \cup {Nothing}] /\ cut \in [Sets -> Nat]

Triples == {"single", "net"}

\* No name a player can load from ever holds part of a save, wherever the program
\* ended (write_bytes).
NamesHoldWholeSaves == \A n \in Names : file[n] # Torn

\* Of two season saves, the one under the newer name is the newer, though calls fail
\* and programs end between the renames (rotate_and_write_as).
NewestFirst ==
  \A t \in Triples, a, b \in 1 .. 3 :
    a < b /\ file[<<t, a>>] \in Nat /\ file[<<t, b>>] \in Nat => file[<<t, a>>] > file[<<t, b>>]

\* The last save that succeeded is there, whole, until three more have been begun and
\* none of them has succeeded: each moves it down one name at most (AUTOSAVES).
LastSaveKept ==
  \A t \in Triples :
    last[t] # Nothing /\ cut[t] < 3 => \E a \in 1 .. cut[t] + 1 : file[<<t, a>>] = last[t]

\* What the player saved under a name stays until all of the new save is there.
PlayersSaveKept == last["player"] # Nothing => file[<<"player", 1>>] = last["player"]

\* Each kind of game touches its own season saves and what the player saves: a network
\* game none of a single player's, a single player's none of the host's, and a joiner no
\* save at all, whichever game a request was raised in (run_pending, write_season).
SetsOf == [single |-> {"single", "player"}, host |-> {"net", "player"}, joiner |-> {}]
KindsApart == [][\A n \in Names : file'[n] # file[n] => n[1] \in SetsOf[mode]]_savesVars
=============================================================================
