SPECIFICATION Spec
CONSTANTS
    plain = plain
    active = active
    Reminders <- TwoReminders
    WithAction <- OneAction
    Removers = {request, tool}
    Requests = {request}
    Conns = {c1, c2}
    Other = other
    None = none
    Capacity = 1
    MaxOthers = 1
    MaxRemovals = 1
    MaxConnects = 2
    MaxCrashes = 1
INVARIANTS
    ListMatchesTimers
    RemovedIsSilent
    OnlyTheOvertakenAreMissed
PROPERTIES
    ListedRings
CHECK_DEADLOCK FALSE
