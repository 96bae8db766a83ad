SPECIFICATION Spec
CONSTANTS
  i1 = i1
  i2 = i2
  CallIds <- TwoIds
  MaxRounds = 2
  MaxTurns = 2
INVARIANTS
  TypeOK
  RequestsArePaired
  ResultsAreOfTheirCalls
  LastRoundRunsNothing
  OneDonePerTurn
PROPERTIES
  TurnEnds
CHECK_DEADLOCK FALSE
