CONSTANTS
  Host = host
  j1 = j1
  j2 = j2
  Joiners = {j1, j2}
  Window = 3
  MaxOutbox = 2
  ReadBudget = 3
  MaxSent <- Talkative
  MayEnd <- HostEnds
  MayBreak = {j1}
SPECIFICATION FairSpec
INVARIANTS FramesInARow NobodyPassedOver
PROPERTIES EndsAreTold SentArrives ImplementsStream
CHECK_DEADLOCK FALSE
