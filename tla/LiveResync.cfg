CONSTANTS
  Slots <- ThreeSeats
  Host = 0
  o1 = o1
  o2 = o2
  Orders = {}
  InputDelay = 0
  ExchangeEvery = 1
  HistoryLength = 2
  LeadSlack = 1
  MaxAcks = 2
  MaxTick = 3
  MaxConn = 0
  MaxDrift = 1
  DriftBy = 1
  Happens = {}
SPECIFICATION FairSpec
INVARIANT BarrierInTime
PROPERTY DriftHeals
CHECK_DEADLOCK FALSE
