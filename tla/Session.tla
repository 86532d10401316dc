------------------------------- MODULE Session -------------------------------
(***************************************************************************)
(* cask_session: the chain of jobs that starts the servers and cask, the   *)
(* processes they start, and SessionTrack, which takes them along when     *)
(* the session ends.  A job that waits for a service hears of it through   *)
(* a queued call; it is finished when it hears of it, whoever registered   *)
(* the name and whether the job has been started or not.                   *)
(***************************************************************************)
EXTENDS Integers, SequencesExt

CONSTANTS Sequence,    \* the programs of Startup's jobs, in order
          ServiceIds,  \* those that announce a service on the session bus
          OtherMoves   \* bound: registrations by others

ASSUME SessionAssumption ==
    /\ Sequence \in Seq(ToSet(Sequence)) /\ IsInjective(Sequence) /\ Sequence # <<>>
    /\ ServiceIds \subseteq ToSet(Sequence)
    /\ "none" \notin ToSet(Sequence)
    /\ OtherMoves \in Nat

Program == ToSet(Sequence)

VARIABLES session,    \* the life of cask_session
          job,        \* the StartServiceJob of a program
          starting,   \* the job whose start() is to run next, in this same turn
          queue,      \* posted events: registrations and deferred deletes
          owner,      \* who has the service's name on the bus
          process,    \* the process started for a program
          processes,  \* Startup::m_processes, then SessionTrack::m_processes
          tracking,   \* SessionTrack exists
          asked,      \* a SIGTERM waits for SignalHandler
          closing,    \* what is left of processesCopy in ~SessionTrack
          moves,      \* how often others registered a service
          late,       \* history: programs started beside a SessionTrack
          starts      \* history: how often a program was started

sessionVars == <<session, job, starting, queue, owner, process, processes, tracking,
                 asked, closing, moves, late, starts>>

Registered(p) == [kind |-> "registered", of |-> p]
Delete(p)     == [kind |-> "delete", of |-> p]

SessionTypeOK ==
    /\ session \in {"none", "failed", "running", "quitting", "ended", "killed"}
    /\ job \in [Program -> {"waiting", "finished", "deleted"}]
    /\ starting \in Program \cup {"none"}
    /\ queue \in Seq({ Registered(p) : p \in Program } \cup { Delete(p) : p \in Program })
    /\ owner \in [Program -> {"nobody", "ours", "other"}]
    /\ process \in [Program -> {"none", "running", "asked", "dead"}]
    /\ processes \in Seq(Program) /\ closing \in Seq(Program)
    /\ tracking \in BOOLEAN /\ asked \in BOOLEAN
    /\ moves \in 0..OtherMoves
    /\ late \subseteq Program
    /\ starts \in [Program -> Nat]

SessionInit ==
    /\ session = "none"
    /\ job = [p \in Program |-> "waiting"]
    /\ starting = "none" /\ queue = <<>>
    /\ owner \in { o \in [Program -> {"nobody", "other"}] :
                     \A p \in Program \ ServiceIds : o[p] = "nobody" }
    /\ process = [p \in Program |-> "none"]
    /\ processes = <<>> /\ tracking = FALSE
    /\ asked = FALSE /\ closing = <<>> /\ moves = 0
    /\ late = {} /\ starts = [p \in Program |-> 0]

-----------------------------------------------------------------------------
IsLastJob(p) == p = Last(Sequence)
Successor(p) == CHOOSE q \in Program :
                    \E i \in 1..Len(Sequence) - 1 : Sequence[i] = p /\ Sequence[i + 1] = q

(* Emitting finished starts the successor, if that is still there, or      *)
(* calls finishStartup, which hands the processes to a SessionTrack.       *)
Finish(p, posted) ==
    /\ job' = [job EXCEPT ![p] = "finished"]
    /\ tracking' = (tracking \/ IsLastJob(p))
    /\ starting' = IF ~IsLastJob(p) /\ job[Successor(p)] # "deleted"
                   THEN Successor(p) ELSE "none"
    /\ queue' = Append(posted, Delete(p))

(* KJob::emitResult, which does nothing when the job is finished already;  *)
(* posted are the events still in the queue.                               *)
EmitResult(p, posted) ==
    IF job[p] = "waiting" THEN Finish(p, posted)
    ELSE starting' = "none" /\ queue' = posted /\ UNCHANGED <<job, tracking>>

(* main and Startup::Startup: the watchers of all the jobs, the first job. *)
SessionStarts ==
    /\ session = "none" /\ session' = "running"
    /\ starting' = Head(Sequence)
    /\ UNCHANGED <<job, queue, owner, process, processes, tracking, asked, closing, moves, late, starts>>

(* StartServiceJob::start: the service is there already ... *)
AlreadyRunning(p) ==
    /\ session = "running" /\ starting = p
    /\ p \in ServiceIds /\ owner[p] # "nobody"
    /\ EmitResult(p, queue)
    /\ UNCHANGED <<session, owner, process, processes, asked, closing, moves, late, starts>>

(* Mutant: a process that cannot be started leaves its job as it is. *)
StallWhenFailed(p, posted) == starting' = "none" /\ queue' = posted /\ UNCHANGED <<job, tracking>>

AfterFailure(p, posted) == EmitResult(p, posted)

(* ... or its process cannot be started, which ends the job ... *)
StartFails(p) ==
    /\ session = "running" /\ starting = p
    /\ p \in ServiceIds => owner[p] = "nobody"
    /\ AfterFailure(p, queue)
    /\ UNCHANGED <<session, owner, process, processes, asked, closing, moves, late, starts>>

(* ... or Startup::startDetached starts it and the job waits for its       *)
(* service, if it has one.  A SessionTrack that exists by then has its own *)
(* list and does not hear of the process.                                  *)
StartDetached(p) ==
    /\ session = "running" /\ starting = p
    /\ p \in ServiceIds => owner[p] = "nobody"
    /\ process' = [process EXCEPT ![p] = "running"]
    /\ starts' = [starts EXCEPT ![p] = @ + 1]
    /\ processes' = IF tracking THEN processes ELSE Append(processes, p)
    /\ late' = IF tracking THEN late \cup {p} ELSE late
    /\ IF p \in ServiceIds
       THEN starting' = "none" /\ UNCHANGED <<job, tracking, queue>>
       ELSE EmitResult(p, queue)
    /\ UNCHANGED <<session, owner, asked, closing, moves>>

StartJob == \E p \in Program : AlreadyRunning(p) \/ StartFails(p) \/ StartDetached(p)

-----------------------------------------------------------------------------
(* The event loop of cask_session. *)
InLoop == session = "running" /\ starting = "none"

(* Mutant: the watcher is connected to start() of its job. *)
StartsWhenRegistered(p) ==
    /\ InLoop /\ queue # <<>> /\ Head(queue) = Registered(p)
    /\ queue' = Tail(queue)
    /\ starting' = IF job[p] = "deleted" THEN "none" ELSE p
    /\ UNCHANGED <<session, job, owner, process, processes, tracking, asked, closing, moves, late, starts>>

(* A job that still exists hears that its service was registered. *)
ServiceRegistered(p) ==
    /\ InLoop /\ queue # <<>> /\ Head(queue) = Registered(p)
    /\ IF job[p] = "deleted"
       THEN queue' = Tail(queue) /\ UNCHANGED <<job, tracking, starting>>
       ELSE EmitResult(p, Tail(queue))
    /\ UNCHANGED <<session, owner, process, processes, asked, closing, moves, late, starts>>

(* The deferred delete of a finished job. *)
JobDeleted(p) ==
    /\ InLoop /\ queue # <<>> /\ Head(queue) = Delete(p)
    /\ job' = [job EXCEPT ![p] = "deleted"]
    /\ queue' = Tail(queue)
    /\ UNCHANGED <<session, starting, owner, process, processes, tracking, asked, closing, moves, late, starts>>

(* SessionTrack hears that one of its processes finished.  removeAll, as   *)
(* no process stands in the vector twice, removes the first occurrence.    *)
ProcessFinished(p) ==
    /\ InLoop /\ tracking
    /\ process[p] = "dead" /\ p \in ToSet(processes)
    /\ processes' = RemoveFirst(processes, p)
    /\ UNCHANGED <<session, job, starting, queue, owner, process, tracking, asked, closing, moves, late, starts>>

(* SIGTERM: SessionTrack has SignalHandler catch it; before there is one   *)
(* it kills cask_session and leaves the processes alone.                   *)
Terminate ==
    /\ asked' = (asked \/ (session = "running" /\ tracking))
    /\ session' = IF session = "running" /\ ~tracking THEN "killed" ELSE session

(* signalReceived: exit(0), aboutToQuit, and ~SessionTrack sends SIGTERM   *)
(* to every process it has.                                                *)
Quit ==
    /\ InLoop /\ asked
    /\ session' = "quitting" /\ closing' = processes
    /\ process' = [p \in Program |-> IF p \in ToSet(processes) /\ process[p] = "running"
                                     THEN "asked" ELSE process[p]]
    /\ UNCHANGED <<job, starting, queue, owner, processes, tracking, asked, moves, late, starts>>

(* Mutant: the loop runs over the vector that the finished processes are   *)
(* removed from, and misses the one that moves up.                         *)
SkipsOne(list) == IF Len(list) > 1 THEN Tail(Tail(list)) ELSE <<>>

Rest(list) == Tail(list)

(* ~SessionTrack, its second loop: a process has finished by itself ...    *)
WaitForFinished ==
    /\ session = "quitting" /\ closing # <<>>
    /\ process[Head(closing)] \notin {"running", "asked"}
    /\ processes' = RemoveFirst(processes, Head(closing))
    /\ closing' = Rest(closing)
    /\ UNCHANGED <<session, job, starting, queue, owner, process, tracking, asked, moves, late, starts>>

(* ... or has not after 500 ms, and is killed.                             *)
Kill ==
    /\ session = "quitting" /\ closing # <<>>
    /\ LET p == Head(closing)
       IN  /\ process[p] \in {"running", "asked"}
           /\ process' = [process EXCEPT ![p] = "dead"]
           /\ owner' = [owner EXCEPT ![p] = IF @ = "ours" THEN "nobody" ELSE @]
    /\ closing' = Rest(closing)
    /\ UNCHANGED <<session, job, starting, queue, processes, tracking, asked, moves, late, starts>>

SessionEnds ==
    /\ session = "quitting" /\ closing = <<>>
    /\ session' = "ended"
    /\ UNCHANGED <<job, starting, queue, owner, process, processes, tracking, asked, closing, moves, late, starts>>

SessionStep ==
    \/ StartJob \/ Quit \/ WaitForFinished \/ Kill \/ SessionEnds
    \/ \E p \in Program : ServiceRegistered(p) \/ JobDeleted(p) \/ ProcessFinished(p)

-----------------------------------------------------------------------------
(* What the bus tells the watchers of cask_session, as long as it runs. *)
Announce(p) == queue' = IF session = "running" THEN Append(queue, Registered(p)) ELSE queue

(* A program takes its name on the bus, if nobody has it. *)
Register(p) ==
    /\ p \in ServiceIds /\ owner[p] = "nobody" /\ process[p] \in {"running", "asked"}
    /\ owner' = [owner EXCEPT ![p] = "ours"]
    /\ Announce(p)
    /\ UNCHANGED <<session, job, starting, process, processes, tracking, asked, closing, moves, late, starts>>

(* A program of the session exits or crashes, sooner or later after a SIGTERM. *)
Dies(p) ==
    /\ process[p] \in {"running", "asked"}
    /\ process' = [process EXCEPT ![p] = "dead"]
    /\ owner' = [owner EXCEPT ![p] = IF @ = "ours" THEN "nobody" ELSE @]
    /\ UNCHANGED <<session, job, starting, queue, processes, tracking, asked, closing, moves, late, starts>>

(* The same service of an earlier or another session comes or goes. *)
OtherRegisters(p) ==
    /\ p \in ServiceIds /\ owner[p] = "nobody"
    /\ moves < OtherMoves /\ moves' = moves + 1
    /\ owner' = [owner EXCEPT ![p] = "other"]
    /\ Announce(p)
    /\ UNCHANGED <<session, job, starting, process, processes, tracking, asked, closing, late, starts>>

OtherLeaves(p) ==
    /\ owner[p] = "other"
    /\ owner' = [owner EXCEPT ![p] = "nobody"]
    /\ UNCHANGED <<session, job, starting, queue, process, processes, tracking, asked, closing, moves, late, starts>>

(* cask_session crashes. *)
SessionCrashes ==
    /\ session = "running" /\ session' = "killed"
    /\ UNCHANGED <<job, starting, queue, owner, process, processes, tracking, asked, closing, moves, late, starts>>

SessionEnvironment ==
    \/ SessionCrashes
    \/ \E p \in Program : Register(p) \/ Dies(p) \/ OtherRegisters(p) \/ OtherLeaves(p)

-----------------------------------------------------------------------------
(* Whichever jobs are ended twice - already running and announced, failed  *)
(* and without a service, announced out of their turn - no program of the  *)
(* session is started a second time (startup.cpp:312-350).                 *)
StartedOnce == \A p \in Program : starts[p] <= 1

(* A session that ended by itself leaves no program behind: ~SessionTrack  *)
(* has ended or killed each, though it loses finished ones from the vector *)
(* while it waits (sessiontrack.cpp:41-57).  The one exception is a server *)
(* whose job was finished out of its turn, so that a SessionTrack may      *)
(* exist by the time the job before it ends and has the server started.    *)
EndsCleanly ==
    session = "ended" => \A p \in Program : process[p] \in {"running", "asked"} => p \in late

(* cask_session comes to its SessionTrack, whatever services were there    *)
(* and whichever programs could not be started, unless it is ended before  *)
(* or a program died before its job was finished (startup.cpp:322).        *)
DiedEarly == \E p \in ServiceIds : process[p] = "dead" /\ job[p] = "waiting"
StartupFinishes ==
    session = "running" ~> (tracking \/ session # "running" \/ DiedEarly)
=============================================================================
