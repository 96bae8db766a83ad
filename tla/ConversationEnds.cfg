SPECIFICATION FairSpec
CONSTANTS
  c1 = c1
  c2 = c2
  Conns <- OneConn
  Says <- TwoTexts
  MaxMessages = 2
  MaxConnects = 2
  MaxActions = 1
  Expiry = TRUE
INVARIANTS
  AnswersFollowQuestions
PROPERTIES
  TaskResolved
  ClientIsAnswered
CHECK_DEADLOCK FALSE
