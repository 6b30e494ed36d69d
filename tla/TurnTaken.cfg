CONSTANTS
  NumRealms = 3
  Humans = {1, 2}
  Host = 1
  Threshold = 2
  Delay = 1
  MaxPath = 1
  MaxMarches = 1
  Mortal = {2, 3}
  Leaving = {}
  PromptAny = TRUE
  Timed = FALSE
  None = None
SPECIFICATION Spec
PROPERTY SeatsEndTheTurn
