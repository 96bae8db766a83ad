SPECIFICATION Spec
CONSTANTS
  c1 = c1
  c2 = c2
  Conns <- TwoConns
  Says <- TwoTexts
  MaxMessages = 2
  MaxConnects = 2
  MaxActions = 0
  Expiry = FALSE
INVARIANTS OneTaskRuns
CHECK_DEADLOCK FALSE
