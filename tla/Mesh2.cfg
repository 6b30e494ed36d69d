CONSTANTS
  Slots <- TwoSeats
  o1 = o1
  o2 = o2
  Orders = {o1, o2}
  InputDelay = 1
  ExchangeEvery = 1
  HistoryLength = 2
  LeadSlack = 2
  MaxAcks = 2
  MaxTick = 4
SPECIFICATION FairSpec
INVARIANTS WorldsAgree OnceEach BoundedLead NeverRefused NoFalseDivergence ClaimsCompared
PROPERTIES ImplementsLockstep OrdersRun
CHECK_DEADLOCK FALSE
