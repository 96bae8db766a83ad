SPECIFICATION Spec
CONSTANTS
    Conn = {c1}
    Handlers = {h1, h2}
    api = api
    old = old
    new = new
    t1 = t1
    t2 = t2
    Tools = {t1}
    ApiConfigs <- ApiValues
    McpConfigs <- McpValues
    Offers <- OffersValue
    None = None
    MaxRequests = 3
    MaxDrops = 1
INVARIANTS
    Reconciled
    StaleOnlyIfOvertaken
    DisabledNeverRuns
PROPERTY
    HandlersFinish
CHECK_DEADLOCK FALSE
