CONSTANTS
  Host = host
  j1 = j1
  j2 = j2
  Joiners = {j1, j2}
  NameOf <- OneName
  ShieldOf <- OneShield
  Foreign = {}
  Saved <- SavedGame
  MaxPlayers = 3
  MaxShields = 3
  Nobody = Nobody
  MaxPresses <- Presses
  MaxClicks = 1
  MayBreak = {j1}
  MayLeave = {host, j1}
SPECIFICATION FairSpec
INVARIANTS RoomAgrees RosterCurrent OwnSeatFound
PROPERTIES StartReachesSeated JoinsAnswered
CHECK_DEADLOCK FALSE
