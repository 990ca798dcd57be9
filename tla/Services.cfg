SPECIFICATION MCSpec
CONSTANTS
    Calls = {c1, c2}
    Files = {1, 2}
    MaxEdits = 1
    NoGraph = NoGraph
    Pkgs = {1, 2}
    Tip <- MCTip
    Log <- MCLog
    Compared <- MCCompared
    Ranges <- MCRanges
    Start = "main"
    Scans = {s1, s2, s3}
    Shas = {"a", "b"}
    Versions = {1, 2}
    Accepts = {a1, a2, a3}
    Sets = {d1}
    Timeout = 9
    FirstChange = 5
    Settle = 3
    PollSlow = 2
    PollFast = 1
    MaxSets = 4
    Chars = {"a", "b", "c", "d", "x", "y", "z", "nl"}
    Texts <- MCTexts
    Answers <- MCAnswers
    Newline = "nl"
    None = None
CHECK_DEADLOCK FALSE
INVARIANTS
    
    CachePristine
    ReportOfCommit
    TreeRestored
    HistoryReadable
    AcceptedKept
    WaitSettled
    EditsAtOnce
