SPECIFICATION Spec
CONSTANTS
  c1 = c1
  c2 = c2
  Conns <- OneConn
  Says <- ThreeTexts
  MaxMessages = 3
  MaxConnects = 3
  MaxActions = 0
  Expiry = FALSE
INVARIANTS
  OneTaskRuns
  OneFutureWorks
PROPERTIES
  AdoptionForgetsNothing
  FollowUpKeepsContext
  ResumesOwnTask
CHECK_DEADLOCK FALSE
