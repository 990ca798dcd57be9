CONSTANTS
    Requests = {r1, r2}
    Cancellable = {r2}
    Asks = {q}
    InCap = 2
    OutCap = 1
    None = None
    Scans = {s1, s2}
    Analyses = {}
    SharedScan = SharedScan
    Overriding = {}
    Pkgs = {p1, p2}
    MaxEdits = 2
    Reverting = FALSE
    Unreadable = {}
    NoReport = NoReport
SPECIFICATION EitherSpec
SYMMETRY Symmetry
INVARIANTS AnswersOwnRequest FramesWhole ScanFresh
CHECK_DEADLOCK FALSE
