CONSTANTS
    a1 = a1
    a2 = a2
    Races = {r1, r2}
    Attempts = {a1, a2}
    Quality <- MCQuality
    Thresholds = {2, 3}
    None = None
    Symbols = {1, 2, 3, 4}
    External = {4}
    Tasks <- MCTasks
    Concurrency = 2
SPECIFICATION MCSpec
INVARIANTS ServedQualified DegradedIsBest AskedOnce
PROPERTIES OnlyWinnersDowngrade RacesEnd WalkComplete
