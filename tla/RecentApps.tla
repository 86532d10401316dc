----------------------------- MODULE RecentApps -----------------------------
(***************************************************************************)
(* The launch history: AppsDB keeps the programs that were launched in a   *)
(* SQLite file and shows them with a RecentAppsModel that is read from the *)
(* file once, when a shell starts.  Several shells of a user share the     *)
(* file, and a shell may die at any time.                                  *)
(***************************************************************************)
EXTENDS Integers, SequencesExt

CONSTANTS RecentShell,   \* shells that come and go
          RecentApp,     \* desktop files
          Launches       \* bound: launches, and starts of a shell

ASSUME RecentAssumption == Launches \in Nat /\ IsFiniteSet(RecentApp)

Unstored == -1

VARIABLES
    dbFile,      \* "absent", "bare" (no table yet) or "ready"
    count,       \* RECENT_APPS: by name its count, or Unstored
    state,       \* by shell: "off", "preparing", "opened" or "on"
    closed,      \* shells whose m_db could not be opened: their queries fail
    recent,      \* by shell: m_list of its RecentAppsModel
    unread,      \* history, by shell: rows it failed to read when it started,
                 \* and those that others have stored since
    launches, starts

recentVars == <<dbFile, count, state, closed, recent, unread, launches, starts>>

Table == {app \in RecentApp : count[app] # Unstored}

RecentAppsTypeOK ==
    /\ dbFile \in {"absent", "bare", "ready"}
    /\ count \in [RecentApp -> Unstored .. Launches]
    /\ dbFile # "ready" => Table = {}
    /\ state \in [RecentShell -> {"off", "preparing", "opened", "on"}]
    /\ closed \subseteq RecentShell
    /\ \A s \in RecentShell : Range(recent[s]) \cup unread[s] \subseteq RecentApp
    /\ launches \in 0 .. Launches /\ starts \in 0 .. Launches

RecentInit ==
    /\ dbFile = "absent"
    /\ count = [app \in RecentApp |-> Unstored]
    /\ state = [s \in RecentShell |-> "off"]
    /\ closed = {}
    /\ recent = [s \in RecentShell |-> <<>>]
    /\ unread = [s \in RecentShell |-> {}]
    /\ launches = 0 /\ starts = 0

(***************************************************************************)
(* The DB constructor opens the file, which creates it, and prepares the   *)
(* tables if it was not there before.  A shell that fails to open it goes  *)
(* on without.                                                             *)
(***************************************************************************)
OpenDB(s) ==
    /\ state[s] = "off"
    /\ starts < Launches
    /\ starts' = starts + 1
    /\ state' = [state EXCEPT ![s] = IF dbFile = "absent" THEN "preparing" ELSE "opened"]
    /\ \/ /\ dbFile' = IF dbFile = "absent" THEN "bare" ELSE dbFile
          /\ UNCHANGED closed
       \/ /\ closed' = closed \cup {s}
          /\ UNCHANGED dbFile
    /\ UNCHANGED <<count, recent, unread, launches>>

\* A CREATE that fails is only logged.
PrepareCollectionDB(s) ==
    /\ state[s] = "preparing"
    /\ state' = [state EXCEPT ![s] = "opened"]
    /\ dbFile' \in IF s \in closed THEN {dbFile} ELSE {dbFile, "ready"}
    /\ UNCHANGED <<count, closed, recent, unread, launches, starts>>

\* recentAppsList, "order by count DESC"; nothing when the SELECT fails.
ByCount == {list \in SetToSeqs(Table) :
                \A i, j \in DOMAIN list : i < j => count[list[i]] >= count[list[j]]}

Lists(s) == IF s \in closed THEN {<<>>} ELSE ByCount \cup {<<>>}

\* RecentAppsModel::setList
SetList(s) ==
    /\ state[s] = "opened"
    /\ state' = [state EXCEPT ![s] = "on"]
    /\ \E list \in Lists(s) : /\ recent' = [recent EXCEPT ![s] = list]
                             /\ unread' = [unread EXCEPT ![s] = Table \ Range(list)]
    /\ UNCHANGED <<dbFile, count, closed, launches, starts>>

\* What must be so for an INSERT to succeed; it may fail all the same.
CanInsert(s, app) == s \notin closed /\ dbFile = "ready" /\ count[app] = Unstored

\* Mutant: the row is inserted though the database did not take it.
InsertAnyway(s, app, stored) == [recent EXCEPT ![s] = <<app>> \o @]

\* RecentAppsModel::insert(app, 0)
InsertRow(s, app, stored) == IF stored THEN [recent EXCEPT ![s] = <<app>> \o @]
                             ELSE recent

\* countUpApp, whose UPDATE may find no row or fail.
CountUp(s, app) ==
    \/ UNCHANGED count
    \/ /\ s \notin closed /\ app \in Table
       /\ count' = [count EXCEPT ![app] = @ + 1]

(***************************************************************************)
(* launchApp: addRecentApp inserts the app with count 0, or counts it up,  *)
(* whatever the insertion failed for.                                      *)
(***************************************************************************)
LaunchRecent(s, app) ==
    /\ state[s] = "on"
    /\ launches < Launches
    /\ launches' = launches + 1
    /\ \E stored \in BOOLEAN :
          /\ stored => CanInsert(s, app)
          /\ IF stored THEN count' = [count EXCEPT ![app] = 0] ELSE CountUp(s, app)
          /\ recent' = InsertRow(s, app, stored)
          /\ unread' = [o \in RecentShell |->
                           IF o # s /\ stored THEN unread[o] \cup {app} ELSE unread[o]]
    /\ UNCHANGED <<dbFile, state, closed, starts>>

\* The shell ends or dies.
QuitShell(s) ==
    /\ state[s] # "off"
    /\ state' = [state EXCEPT ![s] = "off"]
    /\ closed' = closed \ {s}
    /\ recent' = [recent EXCEPT ![s] = <<>>]
    /\ UNCHANGED <<dbFile, count, unread, launches, starts>>

RecentNext ==
    \E s \in RecentShell :
       \/ OpenDB(s) \/ PrepareCollectionDB(s) \/ SetList(s) \/ QuitShell(s)
       \/ \E app \in RecentApp : LaunchRecent(s, app)

RecentSpec == RecentInit /\ [][RecentNext]_recentVars

(***************************************************************************)
(* A running shell shows what is stored, each program once: all of the     *)
(* table but what it could not read when it started and what other shells  *)
(* have added since, however launches of several shells, files that do not *)
(* open, queries that fail and restarts follow each other.                 *)
(***************************************************************************)
RecentAreStored ==
    \A s \in RecentShell : state[s] = "on" =>
        /\ IsInjective(recent[s])
        /\ Range(recent[s]) = Table \ unread[s]
=============================================================================
