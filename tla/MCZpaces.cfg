CONSTANTS
    w1 = w1
    w2 = w2
    w3 = w3
    z1 = z1
    z2 = z2
    z3 = z3
    AllSurfaces = AllSurfaces
    Window <- MCWindow
    Zpace <- MCZpace
    Widths <- MCWidths

SPECIFICATION Spec

INVARIANTS
    TypeOK
    Placement
    OrdersAgree
    LimitsFollowMode
    NullZpaceNeedsTouch

PROPERTIES
    WindowsKeepTheirHome
    NewWindowShown

CHECK_DEADLOCK FALSE
