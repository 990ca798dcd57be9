CONSTANTS
    c1 = c1
    c2 = c2
    g1 = g1
    C = C
    Go = Go
    Callers = {a, b}
    Keys = {c1, c2, g1}
    Langs = {C, Go}
    LangOf <- MCLangOf3
    Limited = {C}
    LimitOf <- MCLimitOf
    MaxActive = 2
    Servers = {s1, s2, s3}
    NoServer = NoServer
    NoKey = NoKey
SPECIFICATION Spec
SYMMETRY MCSymmetry
INVARIANTS IndInv LangWithinLimit
PROPERTY SlotsSpec
