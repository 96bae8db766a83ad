SPECIFICATION Spec
CONSTANTS
  t1 = t1
  t2 = t2
  r1 = r1
  r2 = r2
  r3 = r3
  r4 = r4
  NoCode = NoCode
  Targets <- OneTarget
  Requests <- ThreeRequests
  Cap = 2
  Daily = 1
  MaxAttempts = 1
  Cooldown = 2
  TTL = 3
  Lock = 3
  DayLen = 4
  SendTime = 1
  MaxTime = 9
SYMMETRY Symmetry
INVARIANTS
  TypeOK
  BudgetHonest
  CooldownHolds
  CodeWorks
  DailyHolds
CHECK_DEADLOCK FALSE
