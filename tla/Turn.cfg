CONSTANTS
  NumRealms = 3
  Humans = {1, 2}
  Host = 1
  Threshold = 2
  Delay = 1
  MaxPath = 2
  MaxMarches = 2
  Mortal = {2, 3}
  Leaving = {2}
  PromptAny = TRUE
  Timed = TRUE
  None = None
SPECIFICATION FairSpec
INVARIANTS BattlesDecidedOnce PrologueFirst PhasesFinish
PROPERTY SeasonsGoOn
