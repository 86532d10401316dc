---------------------------- MODULE LoginProofs ----------------------------
(***************************************************************************)
(* Theorems about cask_session under its starter, for every sequence of    *)
(* programs, whichever of them announce a service, and every behaviour of  *)
(* the bus, of the programs and of the user.                               *)
(***************************************************************************)
EXTENDS Login, SequenceLemmas, FiniteSetTheorems, TLAPS

(* A program has its one turn: it comes when the job before it is finished *)
(* or, for the first, when cask_session starts, neither of which happens   *)
(* twice.  Until then the program was not started.                         *)
NotYet(p) == starts[p] = 0 /\ starting # p

TurnsToCome ==
    /\ session = "none" => NotYet(Head(Sequence))
    /\ \A p \in Program : ~IsLastJob(p) /\ job[p] = "waiting" => NotYet(Successor(p))

FirstTurn == starting \in Program => starts[starting] = 0

OnceInv == StartedOnce /\ FirstTurn /\ TurnsToCome

(* Each process is once in the vector at most, which RemoveFirst and       *)
(* removeAll need to be the same.                                          *)
ListedOnce ==
    /\ IsInjective(processes)
    /\ \A p \in ToSet(processes) : starts[p] # 0

Alive(p) == process[p] \in {"running", "asked"}

(* Who is there to end the programs: the vector as long as cask_session    *)
(* runs, the copy of it while ~SessionTrack waits.                         *)
Tracked ==
    \A p \in Program : Alive(p) /\ p \notin late =>
        /\ session \in {"none", "failed", "running"} => p \in ToSet(processes)
        /\ session = "quitting" => p \in ToSet(closing)
        /\ session # "ended"

(* waitForKonqi has not come to its timeout before it gives up.            *)
PollsLeft == starter # "cleanup" => polls < KonqiTimeout

(* The starter starts the session once. *)
Begun == starter = "start" => session = "none"

SInv == SessionTypeOK /\ OnceInv /\ ListedOnce /\ Tracked
Inv  == LoginTypeOK /\ SInv /\ PollsLeft /\ Begun

-----------------------------------------------------------------------------
(* The order of the jobs: every job but the last has a successor, which is *)
(* not the first one and the successor of no other.                        *)
LEMMA SequenceIsList ==
    /\ Sequence \in Seq(Program) /\ Len(Sequence) \in Nat \ {0}
    /\ \A i, j \in 1 .. Len(Sequence) : Sequence[i] = Sequence[j] => i = j
    /\ \A p \in Program : \E i \in 1 .. Len(Sequence) : Sequence[i] = p
    /\ Head(Sequence) = Sequence[1] /\ Sequence[1] \in Program
    /\ "none" \notin Program
  <1>1. Sequence \in Seq(Program) /\ Len(Sequence) \in Nat \ {0}
    BY SessionAssumption DEF Program
  <1>2. DOMAIN Sequence = 1 .. Len(Sequence)
    BY <1>1
  <1>3. Head(Sequence) = Sequence[1] /\ Sequence[1] \in Program
    BY <1>1
  <1> QED BY <1>1, <1>2, <1>3, SessionAssumption DEF Program, ToSet, IsInjective

LEMMA Successors ==
    /\ \A p \in Program : ~IsLastJob(p) =>
          Successor(p) \in Program /\ Successor(p) # p /\ Successor(p) # Head(Sequence)
    /\ \A p, q \in Program :
          ~IsLastJob(p) /\ ~IsLastJob(q) /\ Successor(p) = Successor(q) => p = q
  <1> DEFINE n == Len(Sequence)
             Follows(p, q) == \E i \in 1 .. n - 1 : Sequence[i] = p /\ Sequence[i + 1] = q
  <1>1. ASSUME NEW p \in Program, ~IsLastJob(p)
        PROVE  /\ Successor(p) \in Program
               /\ \E i, k \in 1 .. n :
                     k = i + 1 /\ Sequence[i] = p /\ Sequence[k] = Successor(p)
    <2>1. PICK i \in 1 .. n : Sequence[i] = p
      BY SequenceIsList
    <2>2. i \in 1 .. n - 1 /\ i + 1 \in 1 .. n
      BY <1>1, <2>1, SequenceIsList DEF IsLastJob, Last
    <2>3. Sequence[i + 1] \in Program
      BY <2>2, SequenceIsList
    <2>4. \E q \in Program : Follows(p, q)
      BY <2>1, <2>2, <2>3
    <2>5. Successor(p) \in Program /\ Follows(p, Successor(p))
      BY <2>4 DEF Successor
    <2>6. PICK j \in 1 .. n - 1 : Sequence[j] = p /\ Sequence[j + 1] = Successor(p)
      BY <2>5
    <2>7. j \in 1 .. n /\ j + 1 \in 1 .. n
      BY SequenceIsList
    <2> QED BY <2>5, <2>6, <2>7
  <1>2. ASSUME NEW p \in Program, ~IsLastJob(p)
        PROVE  Successor(p) \in Program /\ Successor(p) # p /\ Successor(p) # Head(Sequence)
    <2>1. PICK i, k \in 1 .. n : k = i + 1 /\ Sequence[i] = p /\ Sequence[k] = Successor(p)
      BY <1>1, <1>2
    <2>2. 1 \in 1 .. n /\ k # i /\ k # 1
      <3>1. n \in Nat
        BY SequenceIsList
      <3>2. \A a \in Nat : \A b, c \in 1 .. a :
              c = b + 1 => 1 \in 1 .. a /\ c # b /\ c # 1
        OBVIOUS
      <3> QED BY <2>1, <3>1, <3>2, Zenon
    <2>3. Sequence[k] # Sequence[i] /\ Sequence[k] # Sequence[1]
      BY <2>2, SequenceIsList
    <2> QED BY <1>1, <1>2, <2>1, <2>3, SequenceIsList
  <1>3. ASSUME NEW p \in Program, NEW q \in Program,
               ~IsLastJob(p), ~IsLastJob(q), Successor(p) = Successor(q)
        PROVE  p = q
    <2>1. PICK i, k \in 1 .. n : k = i + 1 /\ Sequence[i] = p /\ Sequence[k] = Successor(p)
      BY <1>1, <1>3
    <2>2. PICK j, m \in 1 .. n : m = j + 1 /\ Sequence[j] = q /\ Sequence[m] = Successor(q)
      BY <1>1, <1>3
    <2>3. k = m
      <3>1. Sequence[k] = Sequence[m]
        BY <1>3, <2>1, <2>2
      <3> QED BY <3>1, SequenceIsList
    <2>4. i = j
      BY <2>1, <2>2, <2>3
    <2> QED BY <2>1, <2>2, <2>4
  <1> QED BY <1>2, <1>3

-----------------------------------------------------------------------------
Events == { Registered(p) : p \in Program } \cup { Delete(p) : p \in Program }

(* The end of a job, of which the rest of its action may start the job's   *)
(* own program: the turn it gives is the first.                            *)
LEMMA JobEnds ==
    ASSUME SInv, session = "running", NEW p \in Program, NEW posted \in Seq(Events),
           EmitResult(p, posted), session' = session,
           starts' \in [Program -> Nat], \A q \in Program \ {p} : starts'[q] = starts[q],
           starting = p \/ starts'[p] = starts[p]
    PROVE  /\ job' \in [Program -> {"waiting", "finished", "deleted"}]
           /\ tracking' \in BOOLEAN
           /\ starting' \in Program \cup {"none"}
           /\ queue' \in Seq(Events)
           /\ FirstTurn' /\ TurnsToCome'
  <1>0. /\ job \in [Program -> {"waiting", "finished", "deleted"}]
        /\ tracking \in BOOLEAN
        /\ \A q \in Program : ~IsLastJob(q) /\ job[q] = "waiting" =>
              starts[Successor(q)] = 0 /\ starting # Successor(q)
    BY DEF SInv, SessionTypeOK, OnceInv, TurnsToCome, NotYet
  <1>1. \A q \in Program : job'[q] = "waiting" => job[q] = "waiting"
    BY <1>0 DEF EmitResult, Finish
  <1> DEFINE Typed == /\ job' \in [Program -> {"waiting", "finished", "deleted"}]
                      /\ tracking' \in BOOLEAN
                      /\ starting' \in Program \cup {"none"}
                      /\ queue' \in Seq(Events)
             Turned == \A q \in Program :
                          ~IsLastJob(q) /\ job'[q] = "waiting" => starting' # Successor(q)
  <1>2. ASSUME job[p] = "waiting" PROVE Typed /\ FirstTurn' /\ Turned
    <2>0. Finish(p, posted)
      BY <1>2 DEF EmitResult
    <2>1. /\ job' \in [Program -> {"waiting", "finished", "deleted"}]
          /\ tracking' \in BOOLEAN
          /\ \A q \in Program : job'[q] = "waiting" => q # p
      BY <1>0, <2>0 DEF Finish
    <2>2. \/ starting' = "none"
          \/ ~IsLastJob(p) /\ starting' = Successor(p)
      BY <2>0 DEF Finish
    <2>3. queue' \in Seq(Events)
      <3>1. Delete(p) \in Events
        BY DEF Events
      <3> QED BY <3>1, <2>0, AppendProperties DEF Finish
    <2>4. FirstTurn'
      <3>1. CASE starting' = "none"
        BY <3>1, SequenceIsList DEF FirstTurn
      <3>2. CASE ~IsLastJob(p) /\ starting' = Successor(p)
        <4>1. Successor(p) \in Program \ {p} /\ starts[Successor(p)] = 0
          BY <3>2, <1>0, <1>2, Successors
        <4> QED BY <4>1, <3>2 DEF FirstTurn
      <3> QED BY <2>2, <3>1, <3>2
    <2>5. \A q \in Program : ~IsLastJob(q) /\ job'[q] = "waiting" => starting' # Successor(q)
      <3>1. ASSUME NEW q \in Program, ~IsLastJob(q), job'[q] = "waiting"
            PROVE  starting' # Successor(q)
        <4>1. CASE starting' = "none"
          BY <3>1, <4>1, Successors, SequenceIsList
        <4>2. CASE ~IsLastJob(p) /\ starting' = Successor(p)
          <5>1. q # p
            BY <2>1, <3>1
          <5> QED BY <5>1, <3>1, <4>2, Successors
        <4> QED BY <2>2, <4>1, <4>2
      <3> QED BY <3>1
    <2>6. starting' \in Program \cup {"none"}
      BY <2>2, Successors
    <2> QED BY <2>1, <2>3, <2>4, <2>5, <2>6
  <1>3. ASSUME job[p] # "waiting" PROVE Typed /\ FirstTurn' /\ Turned
    <2>1. starting' = "none" /\ queue' = posted /\ UNCHANGED <<job, tracking>>
      BY <1>3 DEF EmitResult
    <2>2. FirstTurn'
      BY <2>1, SequenceIsList DEF FirstTurn
    <2>3. \A q \in Program : ~IsLastJob(q) => starting' # Successor(q)
      BY <2>1, Successors, SequenceIsList
    <2> QED BY <1>0, <2>1, <2>2, <2>3
  <1>4. TurnsToCome'
    <2>1. ASSUME NEW q \in Program, ~IsLastJob(q), job'[q] = "waiting"
          PROVE  starts'[Successor(q)] = 0 /\ starting' # Successor(q)
      <3>1. /\ starts[Successor(q)] = 0 /\ starting # Successor(q)
            /\ Successor(q) \in Program
        BY <2>1, <1>0, <1>1, Successors
      <3>2. starts'[Successor(q)] = starts[Successor(q)]
        BY <3>1
      <3> QED BY <2>1, <3>1, <3>2, <1>2, <1>3
    <2> QED BY <2>1 DEF TurnsToCome, NotYet, IsLastJob, Successor
  <1> QED BY <1>2, <1>3, <1>4

-----------------------------------------------------------------------------
(* What is left of the invariant when an action changes little. *)
LEMMA OnceKept ==
    ASSUME SInv, session' # "none", UNCHANGED <<starts, starting>>,
           \A p \in Program : job'[p] = "waiting" => job[p] = "waiting"
    PROVE  OnceInv'
  <1>1. StartedOnce' /\ FirstTurn'
    BY DEF SInv, OnceInv, StartedOnce, FirstTurn
  <1>2. TurnsToCome'
    BY DEF SInv, OnceInv, TurnsToCome, NotYet, IsLastJob, Successor
  <1> QED BY <1>1, <1>2 DEF OnceInv

LEMMA OnceStutters ==
    ASSUME SInv, UNCHANGED <<session, starts, starting, job>>
    PROVE  OnceInv'
  <1>1. StartedOnce' /\ FirstTurn'
    BY DEF SInv, OnceInv, StartedOnce, FirstTurn
  <1>2. TurnsToCome'
    BY DEF SInv, OnceInv, TurnsToCome, NotYet, IsLastJob, Successor
  <1> QED BY <1>1, <1>2 DEF OnceInv

LEMMA ListedKept ==
    ASSUME SInv, UNCHANGED <<starts, processes>>
    PROVE  ListedOnce'
  BY DEF SInv, ListedOnce

LEMMA TrackedKept ==
    ASSUME SInv, UNCHANGED <<session, processes, closing, late>>,
           \A p \in Program : process'[p] \in {"running", "asked"} => Alive(p)
    PROVE  Tracked'
  BY DEF SInv, Tracked, Alive

LEMMA SessionStutters == SInv /\ UNCHANGED sessionVars => SInv'
  <1> SUFFICES ASSUME SInv, UNCHANGED sessionVars PROVE SInv'
    OBVIOUS
  <1>1. OnceInv' /\ ListedOnce'
    BY OnceStutters, ListedKept DEF sessionVars
  <1>2. Tracked'
    BY DEF SInv, Tracked, Alive, sessionVars
  <1>3. SessionTypeOK'
    BY DEF SInv, SessionTypeOK, sessionVars
  <1> QED BY <1>1, <1>2, <1>3 DEF SInv

(* The session is over, one way or another. *)
LEMMA SessionOver ==
    ASSUME SInv, session' \in {"failed", "killed", "ended"}, asked' \in BOOLEAN,
           session' = "failed" => session = "none",
           session' = "ended"  => session = "quitting" /\ closing = <<>>,
           UNCHANGED <<job, starting, queue, owner, process, processes, tracking,
                       closing, moves, late, starts>>
    PROVE  SInv'
  <1>1. OnceInv' /\ ListedOnce'
    BY OnceKept, ListedKept
  <1>2. Tracked'
    <2>1. closing = <<>> => ToSet(closing) = {}
      BY DEF ToSet
    <2> QED BY <2>1 DEF SInv, Tracked, Alive
  <1>3. SessionTypeOK'
    BY DEF SInv, SessionTypeOK
  <1> QED BY <1>1, <1>2, <1>3 DEF SInv

LEMMA SessionStartsStep == SInv /\ SessionStarts => SInv'
  <1> SUFFICES ASSUME SInv, SessionStarts PROVE SInv'
    OBVIOUS
  <1> USE DEF SessionStarts
  <1>1. Head(Sequence) \in Program
    BY SequenceIsList
  <1>2. StartedOnce' /\ FirstTurn'
    BY DEF SInv, OnceInv, StartedOnce, FirstTurn, TurnsToCome, NotYet
  <1>3. TurnsToCome'
    <2>1. ASSUME NEW p \in Program, ~IsLastJob(p), job'[p] = "waiting"
          PROVE  starts'[Successor(p)] = 0 /\ starting' # Successor(p)
      <3>1. starts[Successor(p)] = 0
        BY <2>1 DEF SInv, OnceInv, TurnsToCome, NotYet
      <3>2. Successor(p) # Head(Sequence)
        BY <2>1, Successors
      <3> QED BY <3>1, <3>2
    <2> QED BY <2>1 DEF TurnsToCome, NotYet, IsLastJob, Successor
  <1>4. ListedOnce'
    BY ListedKept
  <1>5. Tracked'
    BY DEF SInv, Tracked, Alive
  <1>6. SessionTypeOK'
    BY <1>1 DEF SInv, SessionTypeOK
  <1> QED BY <1>2, <1>3, <1>4, <1>5, <1>6 DEF SInv, OnceInv

-----------------------------------------------------------------------------
(* The turn of a job. *)
LEMMA QueueTyped == SInv => queue \in Seq(Events)
  BY DEF SInv, SessionTypeOK, Events

LEMMA JobEndsUnstarted ==
    ASSUME SInv, session = "running", NEW p \in Program, NEW posted \in Seq(Events),
           EmitResult(p, posted),
           UNCHANGED <<session, owner, process, processes, asked, closing, moves, late, starts>>
    PROVE  SInv'
  <1>1. starts' \in [Program -> Nat]
    BY DEF SInv, SessionTypeOK
  <1>2. /\ job' \in [Program -> {"waiting", "finished", "deleted"}]
        /\ tracking' \in BOOLEAN
        /\ starting' \in Program \cup {"none"}
        /\ queue' \in Seq(Events)
        /\ FirstTurn' /\ TurnsToCome'
    BY <1>1, JobEnds
  <1>3. StartedOnce'
    BY DEF SInv, OnceInv, StartedOnce
  <1>4. ListedOnce' /\ Tracked'
    BY ListedKept, TrackedKept DEF Alive
  <1>5. SessionTypeOK'
    BY <1>2 DEF SInv, SessionTypeOK, Events
  <1> QED BY <1>2, <1>3, <1>4, <1>5 DEF SInv, OnceInv

LEMMA StartDetachedStep == ASSUME NEW p \in Program, SInv, StartDetached(p) PROVE SInv'
  <1> USE DEF StartDetached
  <1>1. /\ starts' \in [Program -> Nat]
        /\ starts[p] = 0 /\ starts'[p] = 1
        /\ \A q \in Program \ {p} : starts'[q] = starts[q]
    BY DEF SInv, SessionTypeOK, OnceInv, FirstTurn
  <1>2. /\ job' \in [Program -> {"waiting", "finished", "deleted"}]
        /\ tracking' \in BOOLEAN
        /\ starting' \in Program \cup {"none"}
        /\ queue' \in Seq(Events)
        /\ FirstTurn' /\ TurnsToCome'
    <2>1. CASE p \in ServiceIds
      <3>1. starting' = "none" /\ UNCHANGED <<job, tracking, queue>>
        BY <2>1
      <3>2. FirstTurn'
        BY <3>1, SequenceIsList DEF FirstTurn
      <3>3. ASSUME NEW q \in Program, ~IsLastJob(q), job'[q] = "waiting"
            PROVE  starts'[Successor(q)] = 0 /\ starting' # Successor(q)
        <4>1. starts[Successor(q)] = 0 /\ Successor(q) # p
          BY <3>1, <3>3 DEF SInv, OnceInv, TurnsToCome, NotYet
        <4>2. Successor(q) \in Program
          BY <3>3, Successors
        <4> QED BY <4>1, <4>2, <3>1, <1>1, SequenceIsList
      <3>4. TurnsToCome'
        BY <3>3 DEF TurnsToCome, NotYet, IsLastJob, Successor
      <3> QED BY <3>1, <3>2, <3>4, QueueTyped DEF SInv, SessionTypeOK
    <2>2. CASE p \notin ServiceIds
      <3>1. EmitResult(p, queue)
        BY <2>2
      <3> QED BY <3>1, <1>1, JobEnds, QueueTyped
    <2> QED BY <2>1, <2>2
  <1>3. StartedOnce'
    BY <1>1 DEF SInv, OnceInv, StartedOnce
  <1>4. p \notin ToSet(processes)
    BY <1>1 DEF SInv, ListedOnce
  <1>5. /\ processes' \in Seq(Program) /\ IsInjective(processes')
        /\ ToSet(processes') = IF tracking THEN ToSet(processes) ELSE ToSet(processes) \cup {p}
    <2>1. processes \in Seq(Program) /\ IsInjective(processes)
      BY DEF SInv, SessionTypeOK, ListedOnce
    <2>2. /\ Append(processes, p) \in Seq(Program) /\ IsInjective(Append(processes, p))
          /\ ToSet(Append(processes, p)) = ToSet(processes) \cup {p}
      BY <2>1, <1>4, AppendSet
    <2>3. processes' = IF tracking THEN processes ELSE Append(processes, p)
      OBVIOUS
    <2>4. CASE tracking
      BY <2>1, <2>3, <2>4
    <2>5. CASE ~tracking
      BY <2>2, <2>3, <2>5
    <2> QED BY <2>4, <2>5
  <1>6. ToSet(processes) \subseteq Program
    BY ToSetOfSeq DEF SInv, SessionTypeOK
  <1>7. ListedOnce'
    BY <1>1, <1>5, <1>6 DEF SInv, ListedOnce
  <1>8. /\ process' \in [Program -> {"none", "running", "asked", "dead"}]
        /\ \A q \in Program \ {p} : process'[q] = process[q]
    BY DEF SInv, SessionTypeOK
  <1>9. Tracked'
    <2>1. ASSUME NEW q \in Program, Alive(q)', q \notin late'
          PROVE  q \in ToSet(processes')
      <3>1. CASE q = p
        BY <2>1, <3>1, <1>5
      <3>2. CASE q # p
        BY <2>1, <3>2, <1>5, <1>8 DEF SInv, Tracked, Alive
      <3> QED BY <3>1, <3>2
    <2> QED BY <2>1 DEF Tracked, Alive
  <1>10. SessionTypeOK'
    BY <1>1, <1>2, <1>5, <1>8 DEF SInv, SessionTypeOK, Events
  <1> QED BY <1>2, <1>3, <1>7, <1>9, <1>10 DEF SInv, OnceInv

LEMMA StartJobStep == SInv /\ StartJob => SInv'
  <1> SUFFICES ASSUME SInv, NEW p \in Program,
                      AlreadyRunning(p) \/ StartFails(p) \/ StartDetached(p)
               PROVE  SInv'
    BY DEF StartJob
  <1>1. CASE AlreadyRunning(p)
    BY <1>1, QueueTyped, JobEndsUnstarted DEF AlreadyRunning
  <1>2. CASE StartFails(p)
    BY <1>2, QueueTyped, JobEndsUnstarted DEF StartFails, AfterFailure
  <1>3. CASE StartDetached(p)
    BY <1>3, StartDetachedStep
  <1> QED BY <1>1, <1>2, <1>3

-----------------------------------------------------------------------------
(* The event loop of cask_session. *)
LEMMA ServiceRegisteredStep ==
    ASSUME NEW p \in Program, SInv, ServiceRegistered(p) PROVE SInv'
  <1> USE DEF ServiceRegistered
  <1>1. Tail(queue) \in Seq(Events)
    BY QueueTyped
  <1>2. CASE job[p] = "deleted"
    <2>1. queue' = Tail(queue) /\ UNCHANGED <<job, tracking, starting>>
      BY <1>2
    <2>2. OnceInv' /\ ListedOnce' /\ Tracked'
      BY <2>1, OnceStutters, ListedKept, TrackedKept DEF Alive
    <2>3. SessionTypeOK'
      BY <1>1, <2>1 DEF SInv, SessionTypeOK, Events
    <2> QED BY <2>2, <2>3 DEF SInv
  <1>3. CASE job[p] # "deleted"
    BY <1>1, <1>3, JobEndsUnstarted DEF InLoop
  <1> QED BY <1>2, <1>3

LEMMA JobDeletedStep ==
    ASSUME NEW p \in Program, SInv, JobDeleted(p) PROVE SInv'
  <1> USE DEF JobDeleted
  <1>1. Tail(queue) \in Seq(Events)
    BY QueueTyped
  <1>2. /\ job' \in [Program -> {"waiting", "finished", "deleted"}]
        /\ \A q \in Program : job'[q] = "waiting" => job[q] = "waiting"
    BY DEF SInv, SessionTypeOK
  <1>3. OnceInv' /\ ListedOnce' /\ Tracked'
    BY <1>2, OnceKept, ListedKept, TrackedKept DEF InLoop, Alive
  <1>4. SessionTypeOK'
    BY <1>1, <1>2 DEF SInv, SessionTypeOK, Events
  <1> QED BY <1>3, <1>4 DEF SInv

(* A process that has died leaves the vector. *)
LEMMA Unlisted ==
    ASSUME SInv, NEW p, processes' = RemoveFirst(processes, p), UNCHANGED starts
    PROVE  /\ processes' \in Seq(Program) /\ ToSet(processes') = ToSet(processes) \ {p}
           /\ ListedOnce'
  <1>1. processes \in Seq(Program) /\ IsInjective(processes)
    BY DEF SInv, SessionTypeOK, ListedOnce
  <1>2. /\ RemoveFirst(processes, p) \in Seq(Program)
        /\ IsInjective(RemoveFirst(processes, p))
        /\ ToSet(RemoveFirst(processes, p)) = ToSet(processes) \ {p}
    BY <1>1, RemoveFirstSet
  <1> QED BY <1>2 DEF SInv, ListedOnce

LEMMA ProcessFinishedStep ==
    ASSUME NEW p \in Program, SInv, ProcessFinished(p) PROVE SInv'
  <1> USE DEF ProcessFinished
  <1>1. /\ processes' \in Seq(Program) /\ ToSet(processes') = ToSet(processes) \ {p}
        /\ ListedOnce'
    BY Unlisted
  <1>2. OnceInv'
    BY OnceStutters
  <1>3. Tracked'
    BY <1>1 DEF SInv, Tracked, Alive
  <1>4. SessionTypeOK'
    BY <1>1 DEF SInv, SessionTypeOK
  <1> QED BY <1>1, <1>2, <1>3, <1>4 DEF SInv

LEMMA QuitStep == SInv /\ Quit => SInv'
  <1> SUFFICES ASSUME SInv, Quit PROVE SInv'
    OBVIOUS
  <1> USE DEF Quit
  <1>1. OnceInv' /\ ListedOnce'
    BY OnceKept, ListedKept
  <1>2. /\ process' \in [Program -> {"none", "running", "asked", "dead"}]
        /\ \A p \in Program : process'[p] \in {"running", "asked"} => Alive(p)
    BY DEF SInv, SessionTypeOK, Alive
  <1>3. Tracked'
    BY <1>2 DEF SInv, Tracked, Alive, InLoop
  <1>4. SessionTypeOK'
    BY <1>2 DEF SInv, SessionTypeOK
  <1> QED BY <1>1, <1>3, <1>4 DEF SInv

(* ~SessionTrack goes on to the next process when this one has ended. *)
LEMMA NextToClose ==
    ASSUME SInv, session = "quitting", closing # <<>>, closing' = Rest(closing),
           process'[Head(closing)] \notin {"running", "asked"},
           \A p \in Program : process'[p] \in {"running", "asked"} => Alive(p),
           UNCHANGED <<session, late>>
    PROVE  closing' \in Seq(Program) /\ Tracked'
  <1>1. closing \in Seq(Program)
    BY DEF SInv, SessionTypeOK
  <1>2. closing' \in Seq(Program) /\ ToSet(closing) = {Head(closing)} \cup ToSet(closing')
    BY <1>1, TailSet DEF Rest
  <1>3. Tracked'
    BY <1>2 DEF SInv, Tracked, Alive
  <1> QED BY <1>2, <1>3

LEMMA WaitForFinishedStep == SInv /\ WaitForFinished => SInv'
  <1> SUFFICES ASSUME SInv, WaitForFinished PROVE SInv'
    OBVIOUS
  <1> USE DEF WaitForFinished
  <1>1. OnceInv'
    BY OnceStutters
  <1>2. processes' \in Seq(Program) /\ ListedOnce'
    BY Unlisted
  <1>3. closing' \in Seq(Program) /\ Tracked'
    BY NextToClose DEF Alive
  <1>4. SessionTypeOK'
    BY <1>2, <1>3 DEF SInv, SessionTypeOK
  <1> QED BY <1>1, <1>2, <1>3, <1>4 DEF SInv

LEMMA KillStep == SInv /\ Kill => SInv'
  <1> SUFFICES ASSUME SInv, Kill PROVE SInv'
    OBVIOUS
  <1> USE DEF Kill
  <1>1. OnceInv' /\ ListedOnce'
    BY OnceStutters, ListedKept
  <1>2. Head(closing) \in Program
    BY DEF SInv, SessionTypeOK
  <1>3. /\ process' \in [Program -> {"none", "running", "asked", "dead"}]
        /\ owner' \in [Program -> {"nobody", "ours", "other"}]
        /\ process'[Head(closing)] = "dead"
        /\ \A p \in Program \ {Head(closing)} : process'[p] = process[p]
    BY <1>2 DEF SInv, SessionTypeOK
  <1>4. closing' \in Seq(Program) /\ Tracked'
    BY <1>3, NextToClose DEF Alive
  <1>5. SessionTypeOK'
    BY <1>3, <1>4 DEF SInv, SessionTypeOK
  <1> QED BY <1>1, <1>4, <1>5 DEF SInv

-----------------------------------------------------------------------------
(* The bus and the programs: no process comes to life. *)
LEMMA BusChanges ==
    ASSUME SInv,
           owner' \in [Program -> {"nobody", "ours", "other"}],
           process' \in [Program -> {"none", "running", "asked", "dead"}],
           \A p \in Program : process'[p] \in {"running", "asked"} => Alive(p),
           queue' \in Seq(Events), moves' \in 0 .. OtherMoves,
           UNCHANGED <<session, job, starting, processes, tracking, asked, closing, late, starts>>
    PROVE  SInv'
  <1>1. OnceInv' /\ ListedOnce' /\ Tracked'
    BY OnceStutters, ListedKept, TrackedKept
  <1>2. SessionTypeOK'
    BY DEF SInv, SessionTypeOK, Events
  <1> QED BY <1>1, <1>2 DEF SInv

LEMMA Announced ==
    ASSUME SInv, NEW p \in Program, Announce(p)
    PROVE  queue' \in Seq(Events)
  <1>1. Registered(p) \in Events
    BY DEF Events
  <1> QED BY <1>1, QueueTyped, AppendProperties DEF Announce

LEMMA EnvironmentStep == SInv /\ SessionEnvironment => SInv'
  <1> SUFFICES ASSUME SInv, SessionEnvironment PROVE SInv'
    OBVIOUS
  <1> DEFINE Typed == /\ owner \in [Program -> {"nobody", "ours", "other"}]
                      /\ process \in [Program -> {"none", "running", "asked", "dead"}]
                      /\ moves \in 0 .. OtherMoves /\ asked \in BOOLEAN
                      /\ OtherMoves \in Nat
  <1>0. Typed
    BY SessionAssumption DEF SInv, SessionTypeOK
  <1>1. CASE SessionCrashes
    BY <1>0, <1>1, SessionOver DEF SessionCrashes
  <1>2. ASSUME NEW p \in Program, Register(p) PROVE SInv'
    BY <1>0, <1>2, Announced, BusChanges DEF Register, Alive
  <1>3. ASSUME NEW p \in Program, Dies(p) PROVE SInv'
    BY <1>0, <1>3, QueueTyped, BusChanges DEF Dies, Alive
  <1>4. ASSUME NEW p \in Program, OtherRegisters(p) PROVE SInv'
    <2>1. moves' \in 0 .. OtherMoves
      BY <1>0, <1>4 DEF OtherRegisters
    <2> QED BY <1>0, <1>4, <2>1, Announced, BusChanges DEF OtherRegisters, Alive
  <1>5. ASSUME NEW p \in Program, OtherLeaves(p) PROVE SInv'
    BY <1>0, <1>5, QueueTyped, BusChanges DEF OtherLeaves, Alive
  <1> QED BY <1>1, <1>2, <1>3, <1>4, <1>5 DEF SessionEnvironment

LEMMA SessionStepKeeps ==
    SInv /\ SessionStep => SInv' /\ session \in {"running", "quitting"}
  <1> SUFFICES ASSUME SInv, SessionStep
               PROVE  SInv' /\ session \in {"running", "quitting"}
    OBVIOUS
  <1>1. session \in {"running", "quitting"}
    BY DEF SessionStep, StartJob, AlreadyRunning, StartFails, StartDetached, Quit,
           WaitForFinished, Kill, SessionEnds, ServiceRegistered, JobDeleted,
           ProcessFinished, InLoop
  <1>2. CASE StartJob
    BY <1>1, <1>2, StartJobStep
  <1>3. CASE Quit
    BY <1>1, <1>3, QuitStep
  <1>4. CASE WaitForFinished
    BY <1>1, <1>4, WaitForFinishedStep
  <1>5. CASE Kill
    BY <1>1, <1>5, KillStep
  <1>6. CASE SessionEnds
    <2>1. asked \in BOOLEAN
      BY DEF SInv, SessionTypeOK
    <2> QED BY <1>1, <1>6, <2>1, SessionOver DEF SessionEnds
  <1>7. ASSUME NEW p \in Program, ServiceRegistered(p) PROVE SInv'
    BY <1>7, ServiceRegisteredStep
  <1>8. ASSUME NEW p \in Program, JobDeleted(p) PROVE SInv'
    BY <1>8, JobDeletedStep
  <1>9. ASSUME NEW p \in Program, ProcessFinished(p) PROVE SInv'
    BY <1>9, ProcessFinishedStep
  <1> QED BY <1>1, <1>2, <1>3, <1>4, <1>5, <1>6, <1>7, <1>8, <1>9 DEF SessionStep

-----------------------------------------------------------------------------
(* The starter. *)
StarterTyped ==
    /\ starter \in {"start", "loop", "konqi", "waiting", "cleanup"}
    /\ quitNow \in BOOLEAN /\ logout \in BOOLEAN
    /\ konqis \subseteq Konqi /\ services \subseteq Konqi
    /\ polls \in 0 .. KonqiTimeout
    /\ PollsLeft /\ Begun

LEMMA LoginStarts == LoginInit => Inv
  <1> SUFFICES ASSUME LoginInit PROVE SInv /\ StarterTyped
    BY DEF Inv, LoginTypeOK, SInv, StarterTyped
  <1>0. SessionInit
    BY DEF LoginInit
  <1>1. StarterTyped
    <2>1. KonqiTimeout \in Nat /\ 0 < KonqiTimeout
      BY LoginAssumption
    <2>2. session = "none"
      BY <1>0 DEF SessionInit
    <2>3. quitNow \in BOOLEAN /\ logout \in BOOLEAN
      BY Zenon DEF LoginInit
    <2>4. starter = "start" /\ konqis = {} /\ services = {} /\ polls = 0
      BY DEF LoginInit
    <2> QED BY <2>1, <2>2, <2>3, <2>4 DEF StarterTyped, PollsLeft, Begun
  <1>2. \A p \in Program : ~IsLastJob(p) => Successor(p) \in Program
    BY Successors
  <1>3. OnceInv
    BY <1>0, <1>2, SequenceIsList
    DEF SessionInit, OnceInv, StartedOnce, FirstTurn, TurnsToCome, NotYet
  <1>4. ListedOnce /\ Tracked
    BY <1>0 DEF SessionInit, ListedOnce, Tracked, Alive, ToSet, IsInjective
  <1>5. SessionTypeOK
    <2>1. queue = <<>> /\ processes = <<>> /\ closing = <<>> /\ moves = 0 /\ OtherMoves \in Nat
      BY <1>0, SessionAssumption DEF SessionInit
    <2>2. owner \in [Program -> {"nobody", "ours", "other"}]
      BY <1>0 DEF SessionInit
    <2>3. /\ process \in [Program -> {"none", "running", "asked", "dead"}]
          /\ job \in [Program -> {"waiting", "finished", "deleted"}]
          /\ starts \in [Program -> Nat]
      BY <1>0 DEF SessionInit
    <2>4. tracking \in BOOLEAN /\ asked \in BOOLEAN
      BY <1>0, Zenon DEF SessionInit
    <2>5. session = "none" /\ starting = "none" /\ late = {}
      BY <1>0 DEF SessionInit
    <2> QED BY <2>1, <2>2, <2>3, <2>4, <2>5 DEF SessionTypeOK
  <1> QED BY <1>1, <1>3, <1>4, <1>5 DEF SInv

LEMMA StarterStepKeeps == SInv /\ StarterTyped /\ StarterStep => SInv' /\ StarterTyped'
  <1> SUFFICES ASSUME SInv, StarterTyped, StarterStep PROVE SInv' /\ StarterTyped'
    OBVIOUS
  <1> USE LoginAssumption DEF StarterTyped, PollsLeft, Begun
  <1>0. asked \in BOOLEAN /\ AllServices \subseteq Konqi
    BY DEF SInv, SessionTypeOK, AllServices
  <1>1. CASE CaskSessionStarts
    BY <1>1, SessionStartsStep DEF CaskSessionStarts
  <1>2. CASE CaskSessionFailsToStart
    BY <1>0, <1>2, SessionOver DEF CaskSessionFailsToStart
  <1>3. CASE LogoutRequested
    <2>1. StarterTyped'
      BY <1>3 DEF LogoutRequested
    <2>2. CASE session = "running" /\ ~tracking
      BY <1>0, <1>3, <2>1, <2>2, SessionOver DEF LogoutRequested, Terminate
    <2>3. CASE ~(session = "running" /\ ~tracking)
      <3>1. /\ asked' \in BOOLEAN
            /\ UNCHANGED <<session, job, starting, queue, owner, process, processes, tracking,
                           closing, moves, late, starts>>
        BY <1>0, <1>3, <2>3 DEF LogoutRequested, Terminate
      <3>2. OnceInv' /\ ListedOnce' /\ Tracked'
        BY <3>1, OnceStutters, ListedKept, TrackedKept DEF Alive
      <3>3. SessionTypeOK'
        BY <3>1 DEF SInv, SessionTypeOK
      <3> QED BY <2>1, <3>2, <3>3 DEF SInv
    <2> QED BY <2>2, <2>3
  <1>4. CASE SessionFinished
    BY <1>4, SessionStutters DEF SessionFinished, Crashed
  <1>5. CASE LoopReturns
    <2>1. StarterTyped'
      BY <1>5 DEF LoopReturns, Crashed
    <2>2. CASE session \in {"running", "quitting"}
      BY <1>0, <1>5, <2>1, <2>2, SessionOver DEF LoopReturns
    <2>3. CASE session \notin {"running", "quitting"}
      BY <1>5, <2>1, <2>3, SessionStutters DEF LoopReturns, sessionVars
    <2> QED BY <2>2, <2>3
  <1>6. CASE WaitForKonqi
    BY <1>0, <1>6, SessionStutters DEF WaitForKonqi
  <1>7. CASE NoMoreKonqis
    BY <1>7, SessionStutters DEF NoMoreKonqis
  <1>8. CASE Poll
    BY <1>0, <1>8, SessionStutters DEF Poll, TimedOut
  <1> QED BY <1>1, <1>2, <1>3, <1>4, <1>5, <1>6, <1>7, <1>8 DEF StarterStep

LEMMA LoginSteps == Inv /\ [LoginNext]_loginVars => Inv'
  <1> SUFFICES ASSUME SInv, StarterTyped, [LoginNext]_loginVars PROVE SInv' /\ StarterTyped'
    BY DEF Inv, LoginTypeOK, SInv, StarterTyped
  <1> USE DEF StarterTyped, PollsLeft, Begun
  <1>1. CASE StarterStep
    BY <1>1, StarterStepKeeps
  <1>2. CASE LogoutAsked
    BY <1>2, SessionStutters DEF LogoutAsked, sessionVars
  <1>3. CASE SigTerm
    BY <1>3, SessionStutters DEF SigTerm, sessionVars
  <1>4. CASE SessionStep /\ UNCHANGED starterVars
    BY <1>4, SessionStepKeeps DEF starterVars
  <1>5. CASE SessionEnvironment /\ UNCHANGED starterVars
    <2>1. session = "none" => session' = "none"
      BY <1>5 DEF SessionEnvironment, SessionCrashes, Register, Dies, OtherRegisters, OtherLeaves
    <2> QED BY <1>5, <2>1, EnvironmentStep DEF starterVars
  <1>6. ASSUME NEW k \in Konqi, KonqiQuits(k) PROVE SInv' /\ StarterTyped'
    BY <1>6, SessionStutters DEF KonqiQuits, sessionVars
  <1>7. CASE UNCHANGED loginVars
    BY <1>7, SessionStutters DEF loginVars, starterVars, sessionVars
  <1> QED BY <1>1, <1>2, <1>3, <1>4, <1>5, <1>6, <1>7 DEF LoginNext

-----------------------------------------------------------------------------
(* The variables of startcask and cask_session keep their types: the       *)
(* vectors of SessionTrack are of the session's own programs, and          *)
(* waitForKonqi does not poll beyond its timeout (startcask.cpp:613-637).  *)
THEOREM LoginTypeCorrect == LoginSpec => []LoginTypeOK
  <1>1. Inv => LoginTypeOK
    BY DEF Inv
  <1> QED BY <1>1, LoginStarts, LoginSteps, PTL DEF LoginSpec

(* No program of the session is started twice, whatever the order in which *)
(* services are there, registered or given up (startup.cpp:312-350).       *)
THEOREM AlwaysStartedOnce == LoginSpec => []StartedOnce
  <1>1. Inv => StartedOnce
    BY DEF Inv, SInv, OnceInv
  <1> QED BY <1>1, LoginStarts, LoginSteps, PTL DEF LoginSpec

(* A session that ended by itself leaves no program behind but those that  *)
(* its SessionTrack was never told of (sessiontrack.cpp:41-57).            *)
THEOREM AlwaysEndsCleanly == LoginSpec => []EndsCleanly
  <1>1. Inv => EndsCleanly
    BY DEF Inv, SInv, Tracked, Alive, EndsCleanly
  <1> QED BY <1>1, LoginStarts, LoginSteps, PTL DEF LoginSpec
=============================================================================
