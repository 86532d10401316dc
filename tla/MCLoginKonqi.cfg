SPECIFICATION LoginFairSpec
CHECK_DEADLOCK FALSE
CONSTANTS
    Sequence <- MCSequence
    ServiceIds = {"CaskServer", "MauiManServer"}
    OtherMoves = 1
    Server = "CaskServer"
    Konqi = {"drkonqi"}
    NamesOf <- MCNamesOf
    IsKonqiName = {"org.kde.drkonqi-77", "org.kde.drkonqi-"}
    KonqiPrefix = "org.kde.drkonqi-"
    KonqiTimeout = 2
PROPERTY KonqisAreAwaited
