SPECIFICATION FairSpec
CONSTANTS
  c1 = c1
  c2 = c2
  Conns <- TwoConns
  Creator = c1
  Agent = agent
  Capacity = 1
  MaxEvents = 1
INVARIANTS
  TypeOK
  NoDuplicate
  LossIsExcused
  EmitterOrder
PROPERTIES
  FeedSpec
  ClientSeesEnd
CHECK_DEADLOCK FALSE
