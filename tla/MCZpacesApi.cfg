CONSTANTS
    w1 = w1
    w2 = w2
    z1 = z1
    z2 = z2
    z3 = z3
    AllSurfaces = AllSurfaces
    Window <- MCWindow
    Zpace <- MCZpace
    Widths <- MCWidths
    MaxCalls = 2

SPECIFICATION ApiSpec

INVARIANT NeverLost

PROPERTY NeverOverfilled

CHECK_DEADLOCK FALSE
