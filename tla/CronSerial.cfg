SPECIFICATION Spec
CONSTANTS
  j1 = j1
  j2 = j2
  a = a
  b = b
  Jobs <- OneJob
  Callers <- OneCaller
  Slots <- ThreeSlots
  MaxEdits = 3
  MaxFires = 2
  MaxCrashes = 1
  Capacity = 1
SYMMETRY Symmetry
INVARIANTS
  OneLoopPerJob
  StoreMatchesMemory
  RemovedStaysRemoved
CHECK_DEADLOCK FALSE
