CONSTANTS
    Scans = {s1, s2}
    Analyses = {a}
    SharedScan = SharedScan
    Overriding = {s2}
    Pkgs = {p1}
    MaxEdits = 1
    Reverting = FALSE
    Unreadable = {s1}
    NoReport = NoReport
    Askers = {"any", "scan"}
    Projects = {"w", "d"}
    Workspace = "w"
    Cwd = "d"
    Empty = ""
    Asked <- MCAsked
    WorkedOn = {"w"}
    None = None
SPECIFICATION MCSpec
INVARIANT ScannerKept 
