CONSTANTS
  Slots <- TwoSeats
  Host = 0
  o1 = o1
  o2 = o2
  Orders = {o1}
  InputDelay = 1
  ExchangeEvery = 1
  HistoryLength = 3
  LeadSlack = 2
  MaxAcks = 2
  MaxTick = 3
  MaxConn = 1
  MaxDrift = 0
  DriftBy = 1
  Happens = {"Break"}
SPECIFICATION FairSpec
INVARIANTS CommandsAgree NoProtocolHalt
PROPERTY GameGoesOn
CHECK_DEADLOCK FALSE
