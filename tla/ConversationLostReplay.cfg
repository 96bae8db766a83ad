SPECIFICATION Spec
CONSTANTS
  c1 = c1
  c2 = c2
  Conns <- OneConn
  Says <- TwoTexts
  MaxMessages = 2
  MaxConnects = 3
  MaxActions = 0
  Expiry = FALSE
PROPERTIES
  EveryFollowUpKeepsContext
CHECK_DEADLOCK FALSE
