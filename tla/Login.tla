-------------------------------- MODULE Login --------------------------------
(***************************************************************************)
(* The starter, startcask, from startCaskSession on: the event loop around *)
(* the QProcess of cask_session, the logout request that CaskServer relays,*)
(* SIGTERM, and the wait for drkonqi before it cleans up.  It runs beside  *)
(* the Session it has started.                                             *)
(***************************************************************************)
EXTENDS Session

CONSTANTS Server,       \* the program that relays logout requests
          Konqi,        \* connections to the bus that drkonqi instances may have
          NamesOf,      \* the names of a connection, as the bus lists them
          IsKonqiName,  \* the names that begin with org.kde.drkonqi-
          KonqiPrefix,  \* the name org.kde.drkonqi- itself
          KonqiTimeout  \* bound: polls of five seconds before the timeout

ASSUME LoginAssumption ==
    /\ Server \in ServiceIds
    /\ KonqiPrefix \in IsKonqiName
    /\ KonqiTimeout \in Nat \ {0}

VARIABLES starter,   \* where startcask is
          quitNow,   \* SIGTERM was received: no event loop starts any more
          logout,    \* a logout request was sent: logoutRequested is on its way
          konqis,    \* the drkonqi instances that run
          services,  \* the list waitForKonqi last got
          polls      \* how often it has slept

starterVars == <<starter, quitNow, logout, konqis, services, polls>>
loginVars   == <<sessionVars, starterVars>>

LoginTypeOK ==
    /\ SessionTypeOK
    /\ starter \in {"start", "loop", "konqi", "waiting", "cleanup"}
    /\ quitNow \in BOOLEAN /\ logout \in BOOLEAN
    /\ konqis \subseteq Konqi /\ services \subseteq Konqi
    /\ polls \in 0..KonqiTimeout

LoginInit ==
    /\ SessionInit
    /\ starter = "start" /\ quitNow \in BOOLEAN /\ logout = FALSE
    /\ konqis = {} /\ services = {} /\ polls = 0

-----------------------------------------------------------------------------
(* startCaskSession up to e.exec(): cask_session starts ... *)
CaskSessionStarts ==
    /\ starter = "start" /\ starter' = "loop"
    /\ SessionStarts
    /\ UNCHANGED <<quitNow, logout, konqis, services, polls>>

(* ... or cannot be started: QProcess tells of an error, which nothing is  *)
(* connected to, and never of having finished.                             *)
CaskSessionFailsToStart ==
    /\ starter = "start" /\ starter' = "loop"
    /\ session' = "failed"
    /\ UNCHANGED <<job, starting, queue, owner, process, processes, tracking, asked, closing, moves, late, starts>>
    /\ UNCHANGED <<quitNow, logout, konqis, services, polls>>

(* A user of the session asks CaskServer to log out. *)
LogoutAsked ==
    /\ session = "running" /\ owner[Server] # "nobody"
    /\ ~logout /\ logout' = TRUE
    /\ UNCHANGED <<sessionVars, starter, quitNow, konqis, services, polls>>

(* logoutRequested: terminate() sends SIGTERM to cask_session. *)
LogoutRequested ==
    /\ starter = "loop" /\ ~quitNow
    /\ logout /\ logout' = FALSE
    /\ Terminate
    /\ UNCHANGED <<job, starting, queue, owner, process, processes, tracking, closing, moves, late, starts>>
    /\ UNCHANGED <<starter, quitNow, konqis, services, polls>>

(* Mutant: only an exit code tells that the session has ended. *)
OnlyExited == session = "ended"

(* The programs that have crashed by the time the session is over. *)
Crashed == konqis' \in SUBSET Konqi

(* QProcess::finished: cask_session exited or was killed.  Its exit code   *)
(* is never 255, which would end startcask here.                           *)
HasFinished == session \in {"ended", "killed"}

SessionFinished ==
    /\ starter = "loop" /\ HasFinished
    /\ starter' = "konqi" /\ Crashed
    /\ UNCHANGED <<sessionVars, quitNow, logout, services, polls>>

(* After SIGTERM the loop returns, or does not start; leaving              *)
(* startCaskSession destroys the QProcess, which kills a running process.  *)
LoopReturns ==
    /\ starter = "loop" /\ quitNow
    /\ starter' = "konqi" /\ Crashed
    /\ session' = IF session \in {"running", "quitting"} THEN "killed" ELSE session
    /\ UNCHANGED <<job, starting, queue, owner, process, processes, tracking, asked, closing, moves, late, starts>>
    /\ UNCHANGED <<quitNow, logout, services, polls>>

(* sigtermHandler *)
SigTerm ==
    /\ starter # "cleanup" /\ ~quitNow /\ quitNow' = TRUE
    /\ UNCHANGED <<sessionVars, starter, logout, konqis, services, polls>>

-----------------------------------------------------------------------------
(* allServices(prefix): a connection is listed when the first of its names *)
(* is the prefix, QStringList::startsWith being about the first element.   *)
AllServices == { k \in konqis : NamesOf[k] # <<>> /\ Head(NamesOf[k]) = KonqiPrefix }

(* waitForKonqi, when the settings do not turn it off. *)
WaitForKonqi ==
    /\ starter = "konqi"
    /\ \/ starter' = "cleanup" /\ UNCHANGED services
       \/ /\ services' = AllServices
          /\ starter' = "waiting"
    /\ UNCHANGED <<sessionVars, quitNow, logout, konqis, polls>>

NoMoreKonqis ==
    /\ starter = "waiting" /\ services = {}
    /\ starter' = "cleanup"
    /\ UNCHANGED <<sessionVars, quitNow, logout, konqis, services, polls>>

(* Mutant: the time that has passed is not looked at. *)
NeverTimesOut(n) == FALSE

TimedOut(n) == n >= KonqiTimeout

(* Five seconds later; at the timeout the instances are asked to quit. *)
Poll ==
    /\ starter = "waiting" /\ services # {}
    /\ polls' = polls + 1
    /\ services' = AllServices
    /\ starter' = IF TimedOut(polls') THEN "cleanup" ELSE "waiting"
    /\ UNCHANGED <<sessionVars, quitNow, logout, konqis>>

(* A drkonqi instance is closed. *)
KonqiQuits(k) ==
    /\ k \in konqis /\ konqis' = konqis \ {k}
    /\ UNCHANGED <<sessionVars, starter, quitNow, logout, services, polls>>

StarterStep ==
    \/ CaskSessionStarts \/ CaskSessionFailsToStart
    \/ LogoutRequested \/ SessionFinished \/ LoopReturns
    \/ WaitForKonqi \/ NoMoreKonqis \/ Poll

LoginNext ==
    \/ StarterStep \/ LogoutAsked \/ SigTerm
    \/ SessionStep /\ UNCHANGED starterVars
    \/ SessionEnvironment /\ UNCHANGED starterVars
    \/ \E k \in Konqi : KonqiQuits(k)

(* startcask and cask_session are event loops of their own; a program that *)
(* announces a service does so if it lives.                                *)
LoginSpec == LoginInit /\ [][LoginNext]_loginVars
LoginFairSpec ==
    /\ LoginSpec
    /\ WF_loginVars(StarterStep)
    /\ WF_loginVars(SessionStep /\ UNCHANGED starterVars)
    /\ \A p \in Program : WF_loginVars(Register(p) /\ UNCHANGED starterVars)

-----------------------------------------------------------------------------
(* A logout that reaches startcask ends it: cask_session dies of SIGTERM   *)
(* or ends its programs first, whether they react or not, and no drkonqi   *)
(* is waited for longer than the timeout (startcask.cpp:571-575, 613-637). *)
LogoutEndsStarter ==
    logout /\ starter = "loop" ~> starter = "cleanup"

(* A cask_session that cannot be started is noticed: startcask does not    *)
(* stay in its loop (startcask.cpp:534, "We only check for 255 which means *)
(* that the ksmserver process could not be started", and the message of    *)
(* line 589).                                                              *)
FailureToStartEnds == session = "failed" ~> starter # "loop"

(* While a drkonqi instance is on the bus and the timeout has not passed,  *)
(* an enabled waitForKonqi goes on waiting (startcask.cpp:619).            *)
KonqiRuns == \E k \in konqis : \E i \in DOMAIN NamesOf[k] : NamesOf[k][i] \in IsKonqiName
KonqisAreAwaited ==
    [][starter = "waiting" /\ starter' = "cleanup" => TimedOut(polls') \/ ~KonqiRuns]_loginVars
=============================================================================
