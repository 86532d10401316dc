SPECIFICATION Spec
CONSTANTS
    Window = {w1, w2}
    Task = {t1, t2, t3}
    path = path
    app = app
    unknown = unknown
    run = run
    AppId = {app, unknown}
    File = {path}
    Exec <- MCExec
    NoExec = NoExec
    Present <- MCPresent
    NoWindow = NoWindow
    NoId = NoId
INVARIANT EmptyTasksArePinned
