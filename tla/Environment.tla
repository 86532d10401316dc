----------------------------- MODULE Environment -----------------------------
(***************************************************************************)
(* The environment of a session, from the first qputenv of the main() of   *)
(* startcask-wayland.cpp to the cleanup after logout: the process's own    *)
(* variables, those of the systemd user manager, what goes over the        *)
(* session bus between them, and other programs that write to the manager  *)
(* meanwhile.  What the session itself does is the module Login.           *)
(***************************************************************************)
EXTENDS Integers

CONSTANTS Var,             \* names of environment variables
          SessionVar,      \* DISPLAY, XAUTHORITY, WAYLAND_*, XDG_*
          ShellVar,        \* _ and SHLVL*
          ConfigVar,       \* what the settings give: cursor, keyboard, LANG, LC_*
          CaskVar,         \* the CASK_* markers
          EnvValue,
          Odd,             \* values with control characters
          Marker,          \* the value of the markers
          OwnAtLogin, SystemdAtLogin,   \* the environments login starts from
          ForeignWrites    \* bound: writes of other programs

Env == [Var -> EnvValue \cup {"unset"}]

ASSUME EnvironmentAssumption ==
    /\ SessionVar \cup ShellVar \cup ConfigVar \cup CaskVar \subseteq Var
    /\ Odd \subseteq EnvValue /\ Marker \in EnvValue \ Odd
    /\ "unset" \notin EnvValue
    /\ OwnAtLogin \cup SystemdAtLogin \subseteq Env
    /\ ForeignWrites \in Nat

Keys(e) == { n \in Var : e[n] # "unset" }

(* e overwritten by the variables of f: qputenv, SetEnvironment. *)
Put(e, f) == [n \in Var |-> IF n \in DOMAIN f THEN f[n] ELSE e[n]]
DropVars(e, names) == [n \in Var |-> IF n \in names THEN "unset" ELSE e[n]]
Part(e, names) == [n \in names |-> e[n]]

VARIABLES main,       \* the call main() has come to
          own,        \* the environment of startcask
          systemd,    \* the environment of the systemd user manager
          old,        \* oldSystemdEnvironment: the set of it, {} for std::nullopt
          listed,     \* the names of the last environment read
          sent,       \* UpdateLaunchEnvJob::Private::environment
          calls,      \* SetEnvironment calls systemd has yet to handle
          unreplied,  \* UpdateLaunchEnvJob::Private::pendingReplies
          quitNow,    \* SIGTERM was received: no event loop starts any more
          writes,     \* how often others wrote to systemd
          foreign,    \* history: names others wrote after startcask did
          callFailed  \* history: a call was answered with an error

envVars == <<main, own, systemd, old, listed, sent, calls, unreplied, quitNow,
             writes, foreign, callFailed>>

EnvTypeOK ==
    /\ main \in {"config", "scripts", "setup", "old", "drop", "unset", "sync", "exec",
                 "import", "session", "cleanup", "restore", "restored", "left"}
    /\ own \in Env /\ systemd \in Env /\ sent \in Env
    /\ old \in {{}} \cup { {e} : e \in Env }
    /\ listed \subseteq Var /\ foreign \subseteq Var
    /\ calls \in 0..2 /\ unreplied \in 0..4
    /\ writes \in 0..ForeignWrites
    /\ quitNow \in BOOLEAN /\ callFailed \in BOOLEAN

EnvInit ==
    /\ main = "config"
    /\ own \in OwnAtLogin /\ systemd \in SystemdAtLogin
    /\ old = {} /\ listed = {} /\ sent = [n \in Var |-> "unset"]
    /\ calls = 0 /\ unreplied = 0
    /\ quitNow = FALSE /\ writes = 0 /\ foreign = {} /\ callFailed = FALSE

-----------------------------------------------------------------------------
(* main(): setupCursor, the font and the keyboard settings: what is        *)
(* configured is put, what is not is left as it was.                       *)
SetupCursor ==
    /\ main = "config" /\ main' = "scripts"
    /\ \E names \in SUBSET ConfigVar : \E v \in EnvValue \ Odd :
          own' = Put(own, [n \in names |-> v])
    /\ UNCHANGED <<systemd, old, listed, sent, calls, unreplied, quitNow, writes, foreign, callFailed>>

(* runEnvironmentScripts: the variables that the sourced scripts leave     *)
(* behind are taken over, one that they unset stays.  Without a session    *)
(* bus main() returns.                                                     *)
SourceFiles ==
    /\ main = "scripts"
    /\ \E n \in Var \ CaskVar : \E v \in EnvValue :
          own' = IF n \in ShellVar THEN own ELSE Put(own, [m \in {n} |-> v])
    /\ main' \in {"setup", "left"}
    /\ UNCHANGED <<systemd, old, listed, sent, calls, unreplied, quitNow, writes, foreign, callFailed>>

(* setupCaskEnvironment and runStartupConfig, which puts LANG and LC_*. *)
SetupCaskEnvironment ==
    /\ main = "setup" /\ main' = "old"
    /\ \E names \in SUBSET ConfigVar : \E v \in EnvValue \ Odd :
          own' = Put(Put(own, [n \in CaskVar |-> Marker]), [n \in names |-> v])
    /\ UNCHANGED <<systemd, old, listed, sent, calls, unreplied, quitNow, writes, foreign, callFailed>>

-----------------------------------------------------------------------------
(* getSystemdEnvironment: a blocking call, answered after all that this    *)
(* process sent to systemd before; the set of what it returns, {} for      *)
(* std::nullopt.                                                           *)
Get(answer) ==
    /\ calls = 0
    /\ callFailed' = (callFailed \/ answer = {})

ReadOld ==
    /\ main = "old" /\ main' = "drop"
    /\ \E answer \in {{systemd}, {}} : Get(answer) /\ old' = answer
    /\ UNCHANGED <<own, systemd, listed, sent, calls, unreplied, quitNow, writes, foreign>>

(* Mutant: the leftovers of an earlier session are kept. *)
KeepAll(e) == {}

(* Session variables of an earlier session, unless this one has its own. *)
VarsToDrop(e) == { n \in Keys(e) : n \in SessionVar /\ own[n] = "unset" }

(* dropSessionVarsFromSystemdEnvironment, the first call ... *)
ListVarsToDrop ==
    /\ main = "drop"
    /\ \/ /\ Get({systemd}) /\ main' = "unset"
          /\ listed' = VarsToDrop(systemd) /\ foreign' = {}
       \/ /\ Get({}) /\ main' = "sync"
          /\ UNCHANGED <<listed, foreign>>
    /\ UNCHANGED <<own, systemd, old, sent, calls, unreplied, quitNow, writes>>

(* ... and the second: UnsetEnvironment, whose error is only logged. *)
UnsetEnvironment ==
    /\ main = "unset" /\ main' = "sync"
    /\ \/ systemd' = DropVars(systemd, listed) /\ foreign' = foreign \ listed /\ UNCHANGED callFailed
       \/ callFailed' = TRUE /\ UNCHANGED <<systemd, foreign>>
    /\ UNCHANGED <<own, old, listed, sent, calls, unreplied, quitNow, writes>>

(* UpdateLaunchEnvJob starts in its constructor and again in exec(): two   *)
(* calls to the bus and two to systemd, with a reply awaited for each.     *)
SyncDBusEnvironment ==
    /\ main = "sync" /\ main' = "exec"
    /\ sent' = own
    /\ calls' = 2 /\ unreplied' = 4
    /\ UNCHANGED <<own, systemd, old, listed, quitNow, writes, foreign, callFailed>>

(* Mutant: values are sent as they are. *)
AllValues(e) == Keys(e)

(* The variables start() sends to systemd: all names are plain ones here. *)
Approved(e) == { n \in Keys(e) : e[n] \notin Odd }

(* systemd handles a SetEnvironment: it refuses the call as a whole when   *)
(* it would refuse one value.                                              *)
SetEnvironment ==
    /\ calls > 0 /\ calls' = calls - 1
    /\ LET names == Approved(sent)
           refused == \E n \in names : sent[n] \in Odd
       IN  \/ /\ systemd' = IF refused THEN systemd ELSE Put(systemd, Part(sent, names))
              /\ foreign' = IF refused THEN foreign ELSE foreign \ names
              /\ UNCHANGED callFailed
           \/ /\ callFailed' = TRUE
              /\ UNCHANGED <<systemd, foreign>>
    /\ UNCHANGED <<main, own, old, listed, sent, unreplied, quitNow, writes>>

(* A reply is delivered, by the event loop of exec() or of the session;    *)
(* the last one ends exec().                                               *)
ReplyArrives ==
    /\ main \in {"exec", "session"}
    /\ unreplied > calls
    /\ unreplied' = unreplied - 1
    /\ main' = IF main = "exec" /\ unreplied' = 0 THEN "import" ELSE main
    /\ UNCHANGED <<own, systemd, old, listed, sent, calls, quitNow, writes, foreign, callFailed>>

(* importSystemdEnvrionment *)
Imported(e) == Part(e, Keys(e) \ (ShellVar \cup SessionVar))

ImportSystemdEnvironment ==
    /\ main = "import" /\ main' = "session"
    /\ \/ Get({systemd}) /\ own' = Put(own, Imported(systemd))
       \/ Get({}) /\ UNCHANGED own
    /\ UNCHANGED <<systemd, old, listed, sent, calls, unreplied, quitNow, writes, foreign>>

-----------------------------------------------------------------------------
(* The session is over, after the last drkonqi: cleanupPlasmaEnvironment.  *)
SessionOver ==
    /\ main = "session"
    /\ own' = DropVars(own, CaskVar)
    /\ main' = IF old = {} THEN "left" ELSE "cleanup"
    /\ UNCHANGED <<systemd, old, listed, sent, calls, unreplied, quitNow, writes, foreign, callFailed>>

ReadCurrent ==
    /\ main = "cleanup"
    /\ \/ /\ Get({systemd}) /\ main' = "restore"
          /\ listed' = Keys(systemd) /\ foreign' = {}
       \/ /\ Get({}) /\ main' = "left"
          /\ UNCHANGED <<listed, foreign>>
    /\ UNCHANGED <<own, systemd, old, sent, calls, unreplied, quitNow, writes>>

(* Mutant: the names of the environment before login are unset. *)
NamesOfOld(e) == Keys(e)

(* The names to unset are the current ones, those to set those of before. *)
ToUnset(e) == listed

(* systemd: the set list overrides the unset list. *)
UnsetAndSet(e, unset, set) == Put(DropVars(e, unset), Part(set, Keys(set)))

UnsetAndSetEnvironment ==
    /\ main = "restore"
    /\ \/ \E e \in old :
          /\ systemd' = UnsetAndSet(systemd, ToUnset(e), e)
          /\ foreign' = foreign \ (ToUnset(e) \cup Keys(e))
          /\ main' = "restored"
          /\ UNCHANGED callFailed
       \/ /\ main' = "left" /\ callFailed' = TRUE
          /\ UNCHANGED <<systemd, foreign>>
    /\ UNCHANGED <<own, old, listed, sent, calls, unreplied, quitNow, writes>>

(* SIGTERM: QCoreApplication::exit ends the event loop that runs and any   *)
(* that would be started later.                                            *)
Terminated ==
    /\ main \notin {"restored", "left"}
    /\ ~quitNow /\ quitNow' = TRUE
    /\ main' = IF main = "exec" THEN "import" ELSE main
    /\ UNCHANGED <<own, systemd, old, listed, sent, calls, unreplied, writes, foreign, callFailed>>

(* exec() of a job whose event loop does not start. *)
ExecReturns ==
    /\ main = "exec" /\ quitNow /\ main' = "import"
    /\ UNCHANGED <<own, systemd, old, listed, sent, calls, unreplied, quitNow, writes, foreign, callFailed>>

(* Another program of the user writes to the manager's environment. *)
ForeignWrite(n, v) ==
    /\ writes < ForeignWrites /\ writes' = writes + 1
    /\ systemd' = Put(systemd, [m \in {n} |-> v])
    /\ foreign' = foreign \cup {n}
    /\ UNCHANGED <<main, own, old, listed, sent, calls, unreplied, quitNow, callFailed>>

EnvNext ==
    \/ SetupCursor \/ SourceFiles \/ SetupCaskEnvironment
    \/ ReadOld \/ ListVarsToDrop \/ UnsetEnvironment
    \/ SyncDBusEnvironment \/ SetEnvironment \/ ReplyArrives
    \/ ImportSystemdEnvironment \/ SessionOver \/ ReadCurrent \/ UnsetAndSetEnvironment
    \/ Terminated \/ ExecReturns
    \/ \E n \in Var : \E v \in EnvValue \ Odd : ForeignWrite(n, v)

EnvSpec == EnvInit /\ [][EnvNext]_envVars

-----------------------------------------------------------------------------
(* From the import on, once what was sent is handled and if no call failed,*)
(* a session variable of the manager is the one of this session, or unset  *)
(* where it has none: no leftover of an earlier session, but for what      *)
(* another program wrote or values that systemd does not take              *)
(* (startcask.cpp:404-406).                                                *)
SessionVarsFresh ==
    main \in {"import", "session"} /\ calls = 0 /\ ~callFailed =>
        \A n \in SessionVar : \/ systemd[n] = sent[n]
                              \/ sent[n] \in Odd
                              \/ n \in foreign

(* If no call failed, what startcask and its scripts have set wins over    *)
(* what systemd had: the import comes after the sync                       *)
(* (startcask-wayland.cpp:89-92), and also when SIGTERM ended the wait for *)
(* the replies.  Values that systemd does not take, and names that another *)
(* program wrote meanwhile, are not covered: the import may change them.   *)
ImportKeepsOwn ==
    main = "session" /\ ~callFailed =>
        \A n \in Keys(sent) : \/ own[n] = sent[n]
                              \/ sent[n] \in Odd
                              \/ n \in foreign

(* After logout the manager has the environment it had before login, name  *)
(* by name, but for what others wrote after the current one was read       *)
(* (startcask.cpp:390-392).                                                *)
SystemdRestored ==
    main = "restored" =>
        \A e \in old : \A n \in Var : systemd[n] = e[n] \/ n \in foreign
=============================================================================
