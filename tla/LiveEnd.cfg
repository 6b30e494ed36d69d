CONSTANTS
  Slots <- TwoSeats
  Host = 0
  o1 = o1
  o2 = o2
  Orders = {}
  InputDelay = 0
  ExchangeEvery = 1
  HistoryLength = 2
  LeadSlack = 1
  MaxAcks = 2
  MaxTick = 2
  MaxConn = 1
  MaxDrift = 1
  DriftBy = 1
  Happens = {"Timeout", "End", "Break", "Leave"}
SPECIFICATION FairSpec
PROPERTY EndReachesAll
CHECK_DEADLOCK FALSE
