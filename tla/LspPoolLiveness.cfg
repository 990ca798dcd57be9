CONSTANTS
    c1 = c1
    c2 = c2
    g1 = g1
    C = C
    Go = Go
    Callers = {a, b}
    Keys = {c1, g1}
    Langs = {C, Go}
    LangOf <- MCLangOf2
    Limited = {C}
    LimitOf <- MCLimitOf
    MaxActive = 2
    Servers = {s1, s2}
    NoServer = NoServer
    NoKey = NoKey
SPECIFICATION FairSpec
PROPERTIES GetReturns MutexReleased
