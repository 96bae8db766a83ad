SPECIFICATION Spec
CONSTANTS
    Handlers = {h1, h2}
    a = a
    b = b
    d = d
    blank = blank
    short = short
    long = long
    Paths = {a, b}
    Dirs = {d}
    Inside <- InsideValue
    Matches <- MatchesValue
    Versions = {blank, short, long}
    Pieces <- PiecesValue
    None = None
    MaxOps = 3
    MaxFaults = 1
INVARIANT EveryChunkIsFindable
CHECK_DEADLOCK FALSE
