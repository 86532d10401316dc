SPECIFICATION PartsSpec
CHECK_DEADLOCK FALSE
CONSTANTS
    Moving = {"polkit"}
    Var = {"display", "lang", "shlvl", "cask"}
    SessionVar = {"display"}
    ShellVar = {"shlvl"}
    ConfigVar = {"lang"}
    CaskVar = {"cask"}
    EnvValue = {"a", "b", "odd"}
    Odd = {"odd"}
    Marker = "a"
    OwnAtLogin <- MCOwnAtLogin
    SystemdAtLogin <- MCSystemdAtLogin
    ForeignWrites = 1
    Service = {"a", "b"}
    SystemFiles <- MCSystemFiles
    Setting <- MCSetting
    BlackListed = {}
    Edits = 1
    PlayerChanges = 1
    PositionReads = 1
    PlayerNames = {"mpv", "vlc"}
    OddNames = {"odd"}
    Connections = {"c1", "c2"}
    MaxOwnerMoves = 3
    Identity = {"root", "user"}
    Authentications = 2
    Window = {w1, w2}
    MaxEvents = 5
    CursorSurface = {c1, c2}
    CursorSeat = {s1, s2}
    Processes = 3
    Signal = {"segv", "abrt"}
    RecentShell = {s1, s2}
    RecentApp = {a, b}
    Launches = 4
INVARIANT
    DialogHeld
