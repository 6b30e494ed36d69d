CONSTANTS
  Slots <- ThreeSeats
  Host = 0
  o1 = o1
  o2 = o2
  Orders = {}
  InputDelay = 0
  ExchangeEvery = 1
  HistoryLength = 2
  LeadSlack = 1
  MaxAcks = 2
  MaxTick = 2
  MaxConn = 1
  MaxDrift = 0
  DriftBy = 1
  Happens = {"Crash"}
SPECIFICATION Spec
INVARIANT WaitingListsAgree
CHECK_DEADLOCK FALSE
