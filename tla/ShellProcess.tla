---------------------------- MODULE ShellProcess ----------------------------
(***************************************************************************)
(* The cask process: main() of src/main.cpp, CaskApp (caskapp.cpp), and    *)
(* what --respawn does about crashes: the signal handler forks, the child  *)
(* kills the crashed process and executes the program again.               *)
(*                                                                         *)
(* Process 1 is started by the session, the others are such children.  A   *)
(* process has the environment of its parent, of which QT_QPA_PLATFORM and *)
(* QT_SCALE_FACTOR are kept here.  While one thread of a process is in the *)
(* handler, all that the others do is to raise a signal of their own.      *)
(***************************************************************************)
EXTENDS Naturals

CONSTANTS Signal,      \* signalsToHandle
          Processes    \* bound: one more than the forks there can be

ASSUME ProcessesAssumption == Processes \in Nat \ {0}

ShellId == 1 .. Processes

\* Where a process is: in main() or the event loop; in signalHandler() or
\* waiting there for its child; such a child before and after its kill();
\* killed but not gone yet.
Program == {"main", "posted", "loading", "shown", "reloading", "errorScreen"}
InHandler == {"handler", "waiting", "forked", "alone"}
Where == Program \cup InHandler \cup {"none", "dying", "gone"}

VARIABLES
    at,          \* by process: where it is
    parent,      \* by process: who forked it, or 0
    caskPID,     \* by process: the process its caskPID names
    option,      \* processes started with --respawn
    handled,     \* by process: the signals whose handler is installed
    restarts,    \* history, by process: times the program was executed again
    failSafe,    \* processes with m_failSafe
    platform,    \* by process: QT_QPA_PLATFORM, the session's or "wayland"
    scale        \* processes with QT_SCALE_FACTOR

shellVars == <<at, parent, caskPID, option, handled, restarts, failSafe, platform, scale>>

ShellTypeOK ==
    /\ at \in [ShellId -> Where]
    /\ parent \in [ShellId -> 0 .. Processes] /\ caskPID \in [ShellId -> ShellId]
    /\ handled \in [ShellId -> SUBSET Signal] /\ restarts \in [ShellId -> Nat]
    /\ option \cup failSafe \cup scale \subseteq ShellId
    /\ platform \in [ShellId -> {"session", "wayland"}]

ShellInit ==
    /\ at = [p \in ShellId |-> IF p = 1 THEN "main" ELSE "none"]
    /\ parent = [p \in ShellId |-> 0] /\ caskPID = [p \in ShellId |-> p]
    /\ option \in {{}, {1}}
    /\ handled = [p \in ShellId |-> {}] /\ restarts = [p \in ShellId |-> 0]
    /\ failSafe = {} /\ scale = {}
    /\ platform = [p \in ShellId |-> "session"]

Moves(p, from, to) == at[p] \in from /\ at' = [at EXCEPT ![p] = to]

\* main: setupEnviroment, the options, and the startup event is posted.
Main(p) ==
    /\ Moves(p, {"main"}, "posted")
    /\ caskPID' = [caskPID EXCEPT ![p] = p]
    /\ handled' = [handled EXCEPT ![p] = IF p \in option THEN Signal ELSE @]
    /\ scale' = scale \cup {p}
    /\ UNCHANGED <<parent, option, restarts, failSafe, platform>>

\* CaskApp::startup: what is set for child processes, and main.qml is loaded.
Startup(p) ==
    /\ Moves(p, {"posted"}, "loading")
    /\ scale' = scale \ {p}
    /\ platform' = [platform EXCEPT ![p] = "wayland"]
    /\ UNCHANGED <<parent, caskPID, option, handled, restarts, failSafe>>

\* objectCreated with an object.
Loaded(p) ==
    /\ \/ Moves(p, {"loading"}, "shown")
       \/ Moves(p, {"reloading"}, "errorScreen")
    /\ UNCHANGED <<parent, caskPID, option, handled, restarts, failSafe, platform, scale>>

\* objectCreated without: the error screen is loaded, or given up as well.
NotLoaded(p) ==
    /\ IF p \in failSafe THEN Moves(p, {"loading", "reloading"}, "gone")
                         ELSE Moves(p, {"loading", "reloading"}, "reloading")
    /\ failSafe' = failSafe \cup {p}
    /\ UNCHANGED <<parent, caskPID, option, handled, restarts, platform, scale>>

Quit(p) ==
    /\ Moves(p, {"shown", "errorScreen"}, "gone")
    /\ UNCHANGED <<parent, caskPID, option, handled, restarts, failSafe, platform, scale>>

\* A fault of the program, of another of its threads, or of the child in the
\* handler.  SA_RESETHAND takes back the handler of that one signal.
Crash(p, signal) ==
    /\ Moves(p, Program \cup {"waiting", "forked", "alone"},
             IF signal \in handled[p] THEN "handler" ELSE "gone")
    /\ handled' = [handled EXCEPT ![p] = @ \ {signal}]
    /\ UNCHANGED <<parent, caskPID, option, restarts, failSafe, platform, scale>>

\* signalHandler: fork() and, in the parent, waitpid(); or its error, after
\* which the fault strikes again with the default action.
Fork(p) ==
    /\ at[p] = "handler"
    /\ \/ \E q \in ShellId :
             /\ at[q] = "none" /\ \A r \in 1 .. q - 1 : at[r] # "none"
             /\ at' = [at EXCEPT ![p] = "waiting", ![q] = "forked"]
             /\ parent' = [parent EXCEPT ![q] = p]
             /\ caskPID' = [caskPID EXCEPT ![q] = caskPID[p]]
             /\ handled' = [handled EXCEPT ![q] = handled[p]]
             /\ restarts' = [restarts EXCEPT ![q] = restarts[p]]
             /\ platform' = [platform EXCEPT ![q] = platform[p]]
             /\ scale' = IF p \in scale THEN scale \cup {q} ELSE scale
       \/ /\ at' = [at EXCEPT ![p] = "gone"]
          /\ UNCHANGED <<parent, caskPID, handled, restarts, platform, scale>>
    /\ UNCHANGED <<option, failSafe>>

\* kill(caskPID, 9) in the child, which does not wait for what it does.
Kill(p) ==
    /\ at[p] = "forked"
    /\ at' = [at EXCEPT ![p] = "alone",
                        ![caskPID[p]] = IF @ = "gone" THEN "gone" ELSE "dying"]
    /\ UNCHANGED <<parent, caskPID, option, handled, restarts, failSafe, platform, scale>>

\* A killed process is gone, or one whose waitpid() returns.
Ends(p) ==
    /\ \/ Moves(p, {"dying"}, "gone")
       \/ /\ \E q \in ShellId : parent[q] = p /\ at[q] = "gone"
          /\ Moves(p, {"waiting"}, "gone")
    /\ UNCHANGED <<parent, caskPID, option, handled, restarts, failSafe, platform, scale>>

\* Mutant: the program is executed with the arguments it had.
SameOption(p) == option \cup {p}

\* The program is executed without an argument.
NoOption(p) == option \ {p}

\* execl in the child; where it fails, the child exits.
Execute(p) ==
    /\ \/ /\ Moves(p, {"alone"}, "main")
          /\ option' = NoOption(p)
          /\ handled' = [handled EXCEPT ![p] = {}]
          /\ restarts' = [restarts EXCEPT ![p] = @ + 1]
       \/ /\ Moves(p, {"alone"}, "gone")
          /\ UNCHANGED <<option, handled, restarts>>
    /\ UNCHANGED <<parent, caskPID, failSafe, platform, scale>>

ShellNext ==
    \E p \in ShellId :
       \/ Main(p) \/ Startup(p) \/ Loaded(p) \/ NotLoaded(p) \/ Quit(p)
       \/ \E signal \in Signal : Crash(p, signal)
       \/ Fork(p) \/ Kill(p) \/ Ends(p) \/ Execute(p)

ShellSpec == ShellInit /\ [][ShellNext]_shellVars

(***************************************************************************)
(* A crash at every start does not go on for ever: a cask that was started *)
(* again is not started once more, whichever of its threads and children   *)
(* crash as well, and without --respawn none is started again.  (It is not *)
(* promised that there is one compositor at a time: the new one may run    *)
(* before the killed one is gone, and two threads that crash start two.)   *)
(***************************************************************************)
RespawnsOnce ==
    \A p \in ShellId : restarts[p] <= 1 /\ (restarts[p] = 1 => 1 \in option)
=============================================================================
