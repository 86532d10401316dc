SPECIFICATION LoginFairSpec
CHECK_DEADLOCK FALSE
CONSTANTS
    Sequence <- MCSequence
    ServiceIds = {"CaskServer", "MauiManServer"}
    OtherMoves = 1
    Server = "CaskServer"
    Konqi = {"prefix"}
    NamesOf <- MCNamesOf
    IsKonqiName = {"org.kde.drkonqi-77", "org.kde.drkonqi-"}
    KonqiPrefix = "org.kde.drkonqi-"
    KonqiTimeout = 2
INVARIANTS
    LoginTypeOK
    StartedOnce
    EndsCleanly
PROPERTIES
    StartupFinishes
    LogoutEndsStarter
