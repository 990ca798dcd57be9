CONSTANTS
    Scans = {s1}
    Analyses = {a}
    SharedScan = SharedScan
    Overriding = {}
    Pkgs = {p1}
    MaxEdits = 1
    Reverting = FALSE
    Unreadable = {}
    NoReport = NoReport
SPECIFICATION Spec
PROPERTY DirtyValidated
