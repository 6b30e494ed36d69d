CONSTANTS
  Hosts = {h1, h2}
  Joiners = {j1, j2}
  Codes = {c1}
  MaxCodes = 1
  MaxWaiting = 1
  Leaving = {h1, j1}
  None = None
SPECIFICATION FairSpec
INVARIANTS WaitingCounts TokensAttended NoHalfPair
PROPERTIES EverybodyAnswered ImplementsRendezvous
CHECK_DEADLOCK FALSE
