CONSTANTS
    Callers = {c1, c2, c3}
    Flights = {f1, f2, f3}
    Builds = {b1, b2}
    NoFlight = NoFlight
    NoBuild = NoBuild
SPECIFICATION Spec
PROPERTY OthersKeepBuild
