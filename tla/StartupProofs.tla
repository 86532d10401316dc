---------------------------- MODULE StartupProofs ----------------------------
(***************************************************************************)
(* The start of a session: the environment it hands to systemd, the order  *)
(* the autostart files are started in, and the processes of the            *)
(* compositor; for every value of the constants.                           *)
(***************************************************************************)
EXTENDS Environment, Autostart, ShellProcess, SequenceLemmas

-----------------------------------------------------------------------------
(* The environments of a session, for every set of variables, values and   *)
(* environments before login, and any number of writes of other programs.  *)

(* The two SetEnvironment calls are handled before anything else is asked  *)
(* of systemd: main() goes on when a blocking call is answered.            *)
CallsInTime ==
    /\ calls # 0 => main \in {"exec", "import"}
    /\ main \in {"exec", "import"} => own = sent

(* What an earlier session left of the session variables this one does not *)
(* have: it is listed to be unset, then unset, unless others write it.     *)
LeftoversGo ==
    ~callFailed =>
        /\ main = "unset" => \A n \in SessionVar :
              own[n] = "unset" => systemd[n] = "unset" \/ n \in listed \cup foreign
        /\ main = "sync" => \A n \in SessionVar :
              own[n] = "unset" => systemd[n] = "unset" \/ n \in foreign
        /\ main \in {"exec", "import", "session"} => \A n \in SessionVar :
              sent[n] = "unset" => systemd[n] = "unset" \/ n \in foreign

(* One of the two calls is enough for systemd to have what was sent.       *)
SentIsSet ==
    ~callFailed /\ main \in {"exec", "import", "session"} /\ calls < 2 =>
        \A n \in Keys(sent) : sent[n] \in Odd \/ systemd[n] = sent[n] \/ n \in foreign

(* Before the last call, what is not listed was written since. *)
NothingElse ==
    main = "restore" => \A n \in Var : systemd[n] # "unset" => n \in listed \cup foreign

EnvInductive ==
    /\ EnvTypeOK
    /\ CallsInTime
    /\ LeftoversGo /\ SentIsSet /\ ImportKeepsOwn
    /\ NothingElse /\ SystemdRestored

-----------------------------------------------------------------------------
(* One environment put over another. *)
LEMMA PutShape ==
    ASSUME NEW e \in Env, NEW names \in SUBSET Var,
           NEW f \in [names -> EnvValue \cup {"unset"}]
    PROVE  /\ Put(e, f) \in Env
           /\ \A n \in Var : Put(e, f)[n] = IF n \in names THEN f[n] ELSE e[n]
  BY DEF Put, Env

LEMMA DropShape ==
    ASSUME NEW e \in Env, NEW names
    PROVE  /\ DropVars(e, names) \in Env
           /\ \A n \in Var : DropVars(e, names)[n] = IF n \in names THEN "unset" ELSE e[n]
  BY DEF DropVars, Env

LEMMA PartShape ==
    ASSUME NEW e \in Env, NEW names \in SUBSET Var
    PROVE  /\ Part(e, names) \in [names -> EnvValue \cup {"unset"}]
           /\ \A n \in names : Part(e, names)[n] = e[n]
  BY DEF Part, Env

-----------------------------------------------------------------------------
LEMMA EnvStarts == EnvInit => EnvInductive
  <1> SUFFICES ASSUME EnvInit PROVE EnvInductive
    OBVIOUS
  <1>1. EnvTypeOK
    <2>1. own \in Env /\ systemd \in Env /\ ForeignWrites \in Nat
      BY EnvironmentAssumption DEF EnvInit
    <2>2. sent \in Env
      BY DEF EnvInit, Env
    <2>3. /\ main = "config" /\ old = {} /\ listed = {} /\ foreign = {}
          /\ calls = 0 /\ unreplied = 0 /\ writes = 0
          /\ quitNow = FALSE /\ callFailed = FALSE
      BY DEF EnvInit
    <2>4. old \in {{}} \cup { {e} : e \in Env } /\ listed \subseteq Var /\ foreign \subseteq Var
      BY <2>3
    <2>5. calls \in 0..2 /\ unreplied \in 0..4 /\ writes \in 0..ForeignWrites
      BY <2>1, <2>3
    <2>6. quitNow \in BOOLEAN /\ callFailed \in BOOLEAN
      BY <2>3
    <2> QED BY <2>1, <2>2, <2>3, <2>4, <2>5, <2>6 DEF EnvTypeOK
  <1>2. CallsInTime /\ LeftoversGo /\ SentIsSet /\ ImportKeepsOwn
    BY DEF EnvInit, CallsInTime, LeftoversGo, SentIsSet, ImportKeepsOwn
  <1>3. NothingElse /\ SystemdRestored
    BY DEF EnvInit, NothingElse, SystemdRestored
  <1> QED BY <1>1, <1>2, <1>3 DEF EnvInductive

(* Where main() is not yet, or no longer, at one of the calls that the     *)
(* invariant is about, it says nothing but types.                          *)
LEMMA Elsewhere ==
    ASSUME EnvTypeOK', calls' = 0,
           main' \in {"config", "scripts", "setup", "old", "drop", "cleanup", "left"}
    PROVE  EnvInductive'
  BY DEF EnvInductive, CallsInTime, LeftoversGo, SentIsSet, ImportKeepsOwn, NothingElse,
     SystemdRestored

(* main() before it reads systemd's environment. *)
LEMMA EarlySteps ==
    ASSUME EnvInductive, SetupCursor \/ SourceFiles \/ SetupCaskEnvironment \/ ReadOld
    PROVE  EnvInductive'
  <1> USE DEF EnvInductive
  <1>1. calls' = 0 /\ main' \in {"scripts", "setup", "left", "old", "drop"}
    BY DEF CallsInTime, SetupCursor, SourceFiles, SetupCaskEnvironment, ReadOld, Get
  <1>2. own' \in Env
    <2>1. CASE SetupCursor
      <3> PICK names \in SUBSET ConfigVar, v \in EnvValue \ Odd :
             own' = Put(own, [n \in names |-> v])
        BY <2>1 DEF SetupCursor
      <3>1. names \in SUBSET Var
        BY EnvironmentAssumption
      <3> QED BY <3>1, PutShape DEF EnvTypeOK
    <2>2. CASE SourceFiles
      BY <2>2, PutShape DEF SourceFiles, EnvTypeOK
    <2>3. CASE SetupCaskEnvironment
      <3> PICK names \in SUBSET ConfigVar, v \in EnvValue \ Odd :
             own' = Put(Put(own, [n \in CaskVar |-> Marker]), [n \in names |-> v])
        BY <2>3 DEF SetupCaskEnvironment
      <3>1. names \in SUBSET Var /\ CaskVar \in SUBSET Var /\ Marker \in EnvValue
        BY EnvironmentAssumption
      <3>2. Put(own, [n \in CaskVar |-> Marker]) \in Env
        BY <3>1, PutShape DEF EnvTypeOK
      <3> QED BY <3>1, <3>2, PutShape
    <2>4. CASE ReadOld
      BY <2>4 DEF ReadOld, EnvTypeOK
    <2> QED BY <2>1, <2>2, <2>3, <2>4
  <1>3. old' \in {{}} \cup { {e} : e \in Env }
    BY DEF SetupCursor, SourceFiles, SetupCaskEnvironment, ReadOld, EnvTypeOK
  <1>4. callFailed' \in BOOLEAN
    BY DEF SetupCursor, SourceFiles, SetupCaskEnvironment, ReadOld, Get, EnvTypeOK
  <1>5. EnvTypeOK'
    BY <1>1, <1>2, <1>3, <1>4
    DEF SetupCursor, SourceFiles, SetupCaskEnvironment, ReadOld, EnvTypeOK
  <1> QED BY <1>1, <1>5, Elsewhere

(* The session variables of earlier sessions are dropped. *)
LEMMA DropSteps ==
    ASSUME EnvInductive, ListVarsToDrop \/ UnsetEnvironment
    PROVE  EnvInductive'
  <1> USE DEF EnvInductive
  <1>1. calls' = 0 /\ calls = 0 /\ main' \in {"unset", "sync"}
    BY DEF CallsInTime, ListVarsToDrop, UnsetEnvironment, Get
  <1>2. systemd' \in Env
    BY DropShape DEF ListVarsToDrop, UnsetEnvironment, EnvTypeOK
  <1>3. listed' \subseteq Var /\ foreign' \subseteq Var /\ callFailed' \in BOOLEAN
    BY DEF ListVarsToDrop, UnsetEnvironment, EnvTypeOK, VarsToDrop, Keys, Get
  <1>4. EnvTypeOK'
    BY <1>1, <1>2, <1>3 DEF ListVarsToDrop, UnsetEnvironment, EnvTypeOK
  <1>5. LeftoversGo'
    <2>1. CASE ListVarsToDrop
      <3>1. CASE callFailed'
        BY <3>1 DEF LeftoversGo
      <3>2. CASE ~callFailed'
        <4>1. main' = "unset" /\ listed' = VarsToDrop(systemd) /\ systemd' = systemd /\ own' = own
          BY <2>1, <3>2 DEF ListVarsToDrop, Get
        <4> QED BY <4>1, EnvironmentAssumption DEF LeftoversGo, VarsToDrop, Keys
      <3> QED BY <3>1, <3>2
    <2>2. CASE UnsetEnvironment
      <3>1. CASE callFailed'
        BY <3>1 DEF LeftoversGo
      <3>2. CASE ~callFailed'
        <4>1. /\ ~callFailed /\ main = "unset" /\ main' = "sync" /\ own' = own
              /\ systemd' = DropVars(systemd, listed) /\ foreign' = foreign \ listed
          BY <2>2, <3>2 DEF UnsetEnvironment
        <4>2. \A n \in Var : systemd'[n] = IF n \in listed THEN "unset" ELSE systemd[n]
          BY <4>1, DropShape DEF EnvTypeOK
        <4> QED BY <4>1, <4>2, EnvironmentAssumption DEF LeftoversGo
      <3> QED BY <3>1, <3>2
    <2> QED BY <2>1, <2>2
  <1> QED BY <1>1, <1>4, <1>5
          DEF CallsInTime, SentIsSet, ImportKeepsOwn, NothingElse, SystemdRestored

(* The job is made: from here on, sent is what the session has. *)
LEMMA SyncSteps ==
    ASSUME EnvInductive, SyncDBusEnvironment
    PROVE  EnvInductive'
  <1> USE DEF EnvInductive
  <1>1. /\ main = "sync" /\ main' = "exec" /\ sent' = own /\ own' = own
        /\ calls' = 2 /\ unreplied' = 4
        /\ UNCHANGED <<systemd, old, listed, quitNow, writes, foreign, callFailed>>
    BY DEF SyncDBusEnvironment
  <1>2. EnvTypeOK'
    BY <1>1 DEF EnvTypeOK
  <1>3. LeftoversGo'
    BY <1>1 DEF LeftoversGo
  <1> QED BY <1>1, <1>2, <1>3
          DEF CallsInTime, SentIsSet, ImportKeepsOwn, NothingElse, SystemdRestored

(* systemd handles one of the two calls. *)
LEMMA SetSteps ==
    ASSUME EnvInductive, SetEnvironment
    PROVE  EnvInductive'
  <1> USE DEF EnvInductive
  <1>1. /\ main \in {"exec", "import"} /\ calls' \in {0, 1} /\ calls' = calls - 1
        /\ UNCHANGED <<main, own, old, listed, sent, unreplied, quitNow, writes>>
    BY DEF SetEnvironment, CallsInTime, EnvTypeOK
  <1>2. CASE callFailed' /\ UNCHANGED <<systemd, foreign>>
    BY <1>1, <1>2 DEF EnvTypeOK, CallsInTime, LeftoversGo, SentIsSet, ImportKeepsOwn,
       NothingElse, SystemdRestored
  <1>3. CASE /\ systemd' = Put(systemd, Part(sent, Approved(sent)))
             /\ foreign' = foreign \ Approved(sent)
             /\ UNCHANGED callFailed
    <2>1. Approved(sent) \in SUBSET Var /\ sent \in Env /\ systemd \in Env
      BY DEF Approved, Keys, EnvTypeOK
    <2>2. /\ systemd' \in Env
          /\ \A n \in Var : systemd'[n] = IF n \in Approved(sent) THEN sent[n] ELSE systemd[n]
      <3>1. /\ Part(sent, Approved(sent)) \in [Approved(sent) -> EnvValue \cup {"unset"}]
            /\ \A n \in Approved(sent) : Part(sent, Approved(sent))[n] = sent[n]
        BY <2>1, PartShape
      <3> QED BY <1>3, <2>1, <3>1, PutShape
    <2>3. EnvTypeOK'
      BY <1>1, <1>3, <2>2 DEF EnvTypeOK
    <2>4. \A n \in SessionVar : n \in Var
      BY EnvironmentAssumption
    <2>5. LeftoversGo'
      BY <1>1, <1>3, <2>2, <2>4 DEF LeftoversGo, Approved, Keys
    <2>6. SentIsSet'
      BY <1>1, <1>3, <2>2 DEF SentIsSet, Approved, Keys
    <2> QED BY <1>1, <2>3, <2>5, <2>6
            DEF CallsInTime, ImportKeepsOwn, NothingElse, SystemdRestored
  <1>4. ~ \E n \in Approved(sent) : sent[n] \in Odd
    BY DEF Approved
  <1> QED BY <1>2, <1>3, <1>4 DEF SetEnvironment

(* The wait for the replies, and its end. *)
LEMMA WaitSteps ==
    ASSUME EnvInductive, ReplyArrives \/ Terminated \/ ExecReturns
    PROVE  EnvInductive'
  <1> USE DEF EnvInductive
  <1>1. UNCHANGED <<own, systemd, old, listed, sent, calls, writes, foreign, callFailed>>
    BY DEF ReplyArrives, Terminated, ExecReturns
  <1>2. main' = main \/ (main = "exec" /\ main' = "import")
    BY DEF ReplyArrives, Terminated, ExecReturns
  <1>3. unreplied' \in 0..4 /\ quitNow' \in BOOLEAN
    <2>1. unreplied' \in 0..4
      BY DEF ReplyArrives, Terminated, ExecReturns, EnvTypeOK
    <2>2. quitNow' \in {quitNow, TRUE}
      BY DEF ReplyArrives, Terminated, ExecReturns
    <2> QED BY <2>1, <2>2 DEF EnvTypeOK
  <1>4. EnvTypeOK'
    BY <1>1, <1>2, <1>3 DEF EnvTypeOK
  <1> QED BY <1>1, <1>2, <1>4 DEF CallsInTime, LeftoversGo, SentIsSet, ImportKeepsOwn,
          NothingElse, SystemdRestored, Keys

(* What systemd has is imported, over what is sent where others wrote it. *)
LEMMA ImportSteps ==
    ASSUME EnvInductive, ImportSystemdEnvironment
    PROVE  EnvInductive'
  <1> USE DEF EnvInductive
  <1>1. /\ main = "import" /\ main' = "session" /\ calls = 0 /\ calls' = 0 /\ own = sent
        /\ UNCHANGED <<systemd, old, listed, sent, unreplied, quitNow, writes, foreign>>
    BY DEF ImportSystemdEnvironment, Get, CallsInTime
  <1> DEFINE names == Keys(systemd) \ (ShellVar \cup SessionVar)
  <1>2. ~callFailed' => ~callFailed /\ own' = Put(own, Imported(systemd))
    BY DEF ImportSystemdEnvironment, Get
  <1>3. /\ Put(own, Imported(systemd)) \in Env
        /\ \A n \in Var : Put(own, Imported(systemd))[n] =
              IF n \in names THEN systemd[n] ELSE own[n]
    <2>1. names \in SUBSET Var
      BY DEF Keys
    <2>2. /\ Imported(systemd) \in [names -> EnvValue \cup {"unset"}]
          /\ \A n \in names : Imported(systemd)[n] = systemd[n]
      BY <2>1, PartShape DEF Imported, EnvTypeOK
    <2> QED BY <2>1, <2>2, PutShape DEF EnvTypeOK
  <1> HIDE DEF names
  <1>4. EnvTypeOK'
    <2>1. own' \in Env
      BY <1>3 DEF ImportSystemdEnvironment, EnvTypeOK
    <2>2. callFailed' \in BOOLEAN
      BY DEF ImportSystemdEnvironment, Get, EnvTypeOK
    <2> QED BY <1>1, <2>1, <2>2 DEF EnvTypeOK
  <1>5. ImportKeepsOwn'
    <2> SUFFICES ASSUME ~callFailed', NEW n \in Keys(sent)
                 PROVE  own'[n] = sent[n] \/ sent[n] \in Odd \/ n \in foreign
      BY <1>1 DEF ImportKeepsOwn
    <2>1. sent[n] \in Odd \/ systemd[n] = sent[n] \/ n \in foreign
      BY <1>1, <1>2 DEF SentIsSet
    <2>2. own'[n] = systemd[n] \/ own'[n] = sent[n]
      BY <1>1, <1>2, <1>3 DEF Keys
    <2> QED BY <2>1, <2>2
  <1>6. LeftoversGo' /\ SentIsSet'
    BY <1>1, <1>2 DEF LeftoversGo, SentIsSet, Keys
  <1> QED BY <1>1, <1>4, <1>5, <1>6 DEF CallsInTime, NothingElse, SystemdRestored

(* The session is over, and what systemd has now is read. *)
LEMMA CleanupSteps ==
    ASSUME EnvInductive, SessionOver \/ ReadCurrent
    PROVE  EnvInductive'
  <1> USE DEF EnvInductive
  <1>1. calls' = 0 /\ calls = 0 /\ main' \in {"left", "cleanup", "restore"}
    BY DEF SessionOver, ReadCurrent, Get, CallsInTime
  <1>2. EnvTypeOK'
    <2>1. CASE SessionOver
      BY <1>1, <2>1, DropShape DEF SessionOver, EnvTypeOK
    <2>2. CASE ReadCurrent
      <3>1. listed' \subseteq Var /\ foreign' \subseteq Var
        BY <2>2 DEF ReadCurrent, EnvTypeOK, Keys
      <3>2. callFailed' \in BOOLEAN
        BY <2>2 DEF ReadCurrent, Get, EnvTypeOK
      <3> QED BY <1>1, <2>2, <3>1, <3>2 DEF ReadCurrent, EnvTypeOK
    <2> QED BY <2>1, <2>2
  <1>3. NothingElse'
    BY DEF NothingElse, SessionOver, ReadCurrent, Keys
  <1> QED BY <1>1, <1>2, <1>3
          DEF CallsInTime, LeftoversGo, SentIsSet, ImportKeepsOwn, SystemdRestored

(* The last call: what is listed is unset, what was there before is set. *)
LEMMA RestoreSteps ==
    ASSUME EnvInductive, UnsetAndSetEnvironment
    PROVE  EnvInductive'
  <1> USE DEF EnvInductive
  <1>1. /\ main = "restore" /\ calls = 0 /\ calls' = 0
        /\ UNCHANGED <<own, old, listed, sent, unreplied, quitNow, writes>>
    BY DEF UnsetAndSetEnvironment, CallsInTime
  <1>2. CASE main' = "left" /\ callFailed' = TRUE /\ UNCHANGED <<systemd, foreign>>
    <2>1. EnvTypeOK'
      BY <1>1, <1>2 DEF EnvTypeOK
    <2> QED BY <1>1, <1>2, <2>1, Elsewhere
  <1>3. ASSUME NEW e \in old,
               systemd' = UnsetAndSet(systemd, ToUnset(e), e),
               foreign' = foreign \ (ToUnset(e) \cup Keys(e)),
               main' = "restored", UNCHANGED callFailed
        PROVE  EnvInductive'
    <2>1. e \in Env /\ old = {e} /\ Keys(e) \in SUBSET Var
      BY DEF EnvTypeOK, Keys
    <2>2. DropVars(systemd, listed) \in Env
      BY DropShape DEF EnvTypeOK
    <2>3. \A n \in Var : DropVars(systemd, listed)[n] =
                            IF n \in listed THEN "unset" ELSE systemd[n]
      BY DropShape DEF EnvTypeOK
    <2>4. /\ Part(e, Keys(e)) \in [Keys(e) -> EnvValue \cup {"unset"}]
          /\ \A n \in Keys(e) : Part(e, Keys(e))[n] = e[n]
      BY <2>1, PartShape
    <2>5. systemd' \in Env
      BY <1>3, <2>1, <2>2, <2>4, PutShape DEF UnsetAndSet, ToUnset
    <2>6. \A n \in Var : systemd'[n] = IF n \in Keys(e) THEN e[n]
                                       ELSE IF n \in listed THEN "unset" ELSE systemd[n]
      BY <1>3, <2>1, <2>2, <2>3, <2>4, PutShape DEF UnsetAndSet, ToUnset
    <2>7. SystemdRestored'
      <3> SUFFICES ASSUME NEW n \in Var PROVE systemd'[n] = e[n] \/ n \in foreign'
        BY <1>1, <2>1 DEF SystemdRestored
      <3>1. CASE n \in Keys(e)
        BY <2>6, <3>1
      <3>2. CASE n \notin Keys(e)
        <4>1. e[n] = "unset"
          BY <3>2 DEF Keys
        <4>2. systemd[n] # "unset" => n \in listed \cup foreign
          BY <1>1 DEF NothingElse
        <4> QED BY <1>3, <2>6, <3>2, <4>1, <4>2 DEF ToUnset
      <3> QED BY <3>1, <3>2
    <2>8. EnvTypeOK'
      BY <1>1, <1>3, <2>5 DEF EnvTypeOK
    <2> QED BY <1>1, <1>3, <2>7, <2>8
            DEF CallsInTime, LeftoversGo, SentIsSet, ImportKeepsOwn, NothingElse
  <1> QED BY <1>2, <1>3 DEF UnsetAndSetEnvironment

(* Another program writes a variable. *)
LEMMA ForeignSteps ==
    ASSUME EnvInductive, NEW n \in Var, NEW v \in EnvValue, ForeignWrite(n, v)
    PROVE  EnvInductive'
  <1> USE DEF EnvInductive
  <1>1. /\ foreign' = foreign \cup {n} /\ systemd' = Put(systemd, [m \in {n} |-> v])
        /\ UNCHANGED <<main, own, old, listed, sent, calls, unreplied, quitNow, callFailed>>
        /\ writes < ForeignWrites /\ writes' = writes + 1
    BY DEF ForeignWrite
  <1>2. systemd' \in Env /\ \A m \in Var : systemd'[m] = IF m = n THEN v ELSE systemd[m]
    <2>1. {n} \in SUBSET Var
      OBVIOUS
    <2>2. PICK one : one = [m \in {n} |-> v]
      OBVIOUS
    <2>3. one \in [{n} -> EnvValue \cup {"unset"}] /\ \A m \in {n} : one[m] = v
      BY <2>2
    <2>4. systemd \in Env
      BY DEF EnvTypeOK
    <2>5. /\ Put(systemd, one) \in Env
          /\ \A m \in Var : Put(systemd, one)[m] = IF m \in {n} THEN one[m] ELSE systemd[m]
      BY <2>1, <2>3, <2>4, PutShape
    <2> QED BY <1>1, <2>2, <2>3, <2>5
  <1>3. EnvTypeOK'
    <2>1. writes' \in 0..ForeignWrites
      BY <1>1, EnvironmentAssumption DEF EnvTypeOK
    <2> QED BY <1>1, <1>2, <2>1 DEF EnvTypeOK
  <1>4. SessionVar \subseteq Var /\ Keys(sent) \subseteq Var
    BY EnvironmentAssumption DEF Keys
  <1>5. LeftoversGo' /\ SentIsSet'
    BY <1>1, <1>2, <1>4 DEF LeftoversGo, SentIsSet
  <1>6. ImportKeepsOwn' /\ NothingElse' /\ CallsInTime'
    BY <1>1, <1>2, <1>4 DEF ImportKeepsOwn, NothingElse, CallsInTime
  <1>7. SystemdRestored'
    BY <1>1, <1>2 DEF SystemdRestored
  <1> QED BY <1>3, <1>5, <1>6, <1>7

LEMMA EnvSteps == EnvInductive /\ [EnvNext]_envVars => EnvInductive'
  <1> SUFFICES ASSUME EnvInductive, [EnvNext]_envVars PROVE EnvInductive'
    OBVIOUS
  <1>1. CASE UNCHANGED envVars
    BY <1>1 DEF envVars, EnvInductive, EnvTypeOK, CallsInTime, LeftoversGo, SentIsSet,
       ImportKeepsOwn, NothingElse, SystemdRestored, Keys
  <1> QED BY <1>1, EarlySteps, DropSteps, SyncSteps, SetSteps, WaitSteps, ImportSteps,
          CleanupSteps, RestoreSteps, ForeignSteps
      DEF EnvNext

-----------------------------------------------------------------------------
(* The environments are functions of the names they are made of. *)
THEOREM EnvTypeCorrect == EnvSpec => []EnvTypeOK
  <1>1. EnvInductive => EnvTypeOK
    BY DEF EnvInductive
  <1> QED BY EnvStarts, EnvSteps, <1>1, PTL DEF EnvSpec

(* From the import on, if no call failed and all that was sent is handled, *)
(* the manager has no session variable of an earlier session, but for odd  *)
(* values and what another program wrote (startcask.cpp:404-406).          *)
THEOREM SessionVarsAlwaysFresh == EnvSpec => []SessionVarsFresh
  <1>1. EnvInductive => SessionVarsFresh
    <2> SUFFICES ASSUME EnvInductive, main \in {"import", "session"}, calls = 0, ~callFailed,
                        NEW n \in SessionVar
                 PROVE  systemd[n] = sent[n] \/ sent[n] \in Odd \/ n \in foreign
      BY DEF SessionVarsFresh
    <2>1. n \in Var
      BY EnvironmentAssumption
    <2>2. CASE sent[n] = "unset"
      BY <2>2 DEF EnvInductive, LeftoversGo
    <2>3. CASE sent[n] # "unset"
      BY <2>1, <2>3 DEF EnvInductive, SentIsSet, Keys
    <2> QED BY <2>2, <2>3
  <1> QED BY EnvStarts, EnvSteps, <1>1, PTL DEF EnvSpec

(* If no call failed, what the session has set wins over what systemd had, *)
(* but for values systemd does not take and names that another program     *)
(* wrote (startcask-wayland.cpp:89-92).                                    *)
THEOREM ImportAlwaysKeepsOwn == EnvSpec => []ImportKeepsOwn
  <1>1. EnvInductive => ImportKeepsOwn
    BY DEF EnvInductive
  <1> QED BY EnvStarts, EnvSteps, <1>1, PTL DEF EnvSpec

(* After logout the manager has the environment it had before login        *)
(* (startcask.cpp:390-392).                                                *)
THEOREM SystemdAlwaysRestored == EnvSpec => []SystemdRestored
  <1>1. EnvInductive => SystemdRestored
    BY DEF EnvInductive
  <1> QED BY EnvStarts, EnvSteps, <1>1, PTL DEF EnvSpec

-----------------------------------------------------------------------------
(* The autostart files, for every set of them: what a job launches, and    *)
(* what it has to remember of it.                                          *)

(* The files, before AutoStart reads them; what was turned off has a file  *)
(* of the user's that says so.                                             *)
FilesWhole ==
    /\ \A n \in Service : local[n] = {} \/ \E e \in Entry : local[n] = {e}
    /\ local \in [Service -> SUBSET Entry]
    /\ system \in SystemFiles
    /\ edits \in 0..Edits
    /\ wanted \in [Service -> {"unset", "on", "off"}]
    /\ \A n \in Service : wanted[n] = "off" => local[n] # {} /\ \A e \in local[n] : e.hidden

(* What was loaded, and what of it was launched: what is not on the job's  *)
(* list any more, which is of its phase.                                   *)
LoadedOnce ==
    /\ startList \in Seq(Item) /\ loaded \in Seq(Item)
    /\ IsInjective(startList) /\ IsInjective(loaded)
    /\ ToSet(startList) \subseteq ToSet(loaded)
    /\ \A a, b \in ToSet(loaded) : a.name = b.name => a = b
    /\ \A item \in ToSet(loaded) : wanted[item.name] # "off"

Launching ==
    /\ \A item \in ToSet(loaded) \ ToSet(startList) : item.phase = phase
    /\ \A item \in ToSet(loaded) :
          item.name \in ToSet(launched) <=> item \notin ToSet(startList)
    /\ \A n \in ToSet(launched) : \E item \in ToSet(loaded) : item.name = n

(* m_started may forget what nothing waits for, and no more.               *)
WaitedFor ==
    /\ ToSet(started) \subseteq ToSet(launched)
    /\ \A before \in ToSet(loaded) \ ToSet(startList) : \A item \in ToSet(startList) :
          DependsOn(item, before.name) => before.name \in ToSet(started)

AutostartInductive ==
    /\ FilesWhole /\ LoadedOnce
    /\ phase \in -1..2 /\ job \in {"none", "loaded", "running", "done"}
    /\ started \in Seq(Service) /\ launched \in Seq(Service) /\ IsInjective(launched)
    /\ job = "none" => loaded = <<>>
    /\ job \in {"none", "loaded"} => launched = <<>> /\ startList = loaded
    /\ job \in {"running", "done"} => phase \in Phase
    /\ job = "done" => \A item \in ToSet(startList) : item.phase # phase
    /\ Launching /\ WaitedFor /\ StartsAfter

LEMMA AutostartInitially == AutostartInit => AutostartInductive
  <1> SUFFICES ASSUME AutostartInit PROVE AutostartInductive
    OBVIOUS
  <1> USE DEF AutostartInit
  <1>1. FilesWhole
    BY AutostartAssumption DEF FilesWhole, Absent
  <1>2. LoadedOnce /\ Launching /\ WaitedFor
    BY EmptyList DEF LoadedOnce, Launching, WaitedFor
  <1>3. StartsAfter
    BY EmptyList DEF StartsAfter
  <1>4. /\ phase \in -1..2 /\ job = "none"
        /\ loaded = <<>> /\ startList = <<>> /\ launched = <<>> /\ started = <<>>
    OBVIOUS
  <1> HIDE DEF AutostartInit
  <1> QED BY <1>1, <1>2, <1>3, <1>4, EmptyList DEF AutostartInductive

LEMMA SetKeeps ==
    ASSUME AutostartInductive, NEW n \in Service, NEW on \in BOOLEAN, SetAutostarts(n, on)
    PROVE  AutostartInductive'
  <1>1. /\ job = "none" /\ edits' \in 0..Edits /\ system' = system
        /\ UNCHANGED <<startList, loaded, started, phase, job, launched>>
        /\ ToSet(loaded) = {} /\ loaded = <<>> /\ launched = <<>>
    BY EmptyList, AutostartAssumption DEF SetAutostarts, AutostartInductive, FilesWhole
  <1>2. \A e \in File(n) : e \in Entry
    BY AutostartAssumption DEF File, AutostartInductive, FilesWhole
  <1>3. \/ UNCHANGED <<local, wanted>>
        \/ \E e \in Entry : /\ local' = [local EXCEPT ![n] = {e}]
                            /\ \/ e.hidden /\ wanted' = [wanted EXCEPT ![n] = "off"]
                               \/ wanted' = [wanted EXCEPT ![n] = "on"]
    <2>1. CASE File(n) = Absent /\ ~on /\ local' = [local EXCEPT ![n] = {NewEntry(TRUE)}]
               /\ wanted' = [wanted EXCEPT ![n] = "off"]
      <3>1. <<>> \in Seq(STRING)
        BY EmptySeq
      <3>2. NewEntry(TRUE) \in Entry /\ NewEntry(TRUE).hidden
        BY <3>1 DEF NewEntry, Entry, Phase, BaseDesktop
      <3> QED BY <2>1, <3>2
    <2>2. ASSUME NEW e \in File(n), e.hidden = on,
                 local' = [local EXCEPT ![n] = {[e EXCEPT !.hidden = ~on]}],
                 wanted' = [wanted EXCEPT ![n] = IF on THEN "on" ELSE "off"]
          PROVE  \E f \in Entry : /\ local' = [local EXCEPT ![n] = {f}]
                                  /\ \/ f.hidden /\ wanted' = [wanted EXCEPT ![n] = "off"]
                                     \/ wanted' = [wanted EXCEPT ![n] = "on"]
      <3> DEFINE f == [e EXCEPT !.hidden = ~on]
      <3>1. f \in Entry /\ f.hidden = ~on
        BY <1>2 DEF Entry
      <3>2. local' = [local EXCEPT ![n] = {f}]
        BY <2>2
      <3> HIDE DEF f
      <3> QED BY <2>2, <3>1, <3>2
    <2> QED BY <2>1, <2>2 DEF SetAutostarts
  <1>4. FilesWhole'
    <2>1. CASE UNCHANGED <<local, wanted>>
      BY <1>1, <2>1 DEF AutostartInductive, FilesWhole
    <2>2. ASSUME NEW e \in Entry, local' = [local EXCEPT ![n] = {e}],
                 \/ e.hidden /\ wanted' = [wanted EXCEPT ![n] = "off"]
                 \/ wanted' = [wanted EXCEPT ![n] = "on"]
          PROVE  FilesWhole'
      <3>1. /\ local \in [Service -> SUBSET Entry]
            /\ \A m \in Service : local[m] = {} \/ \E f \in Entry : local[m] = {f}
            /\ wanted \in [Service -> {"unset", "on", "off"}]
            /\ \A m \in Service : wanted[m] = "off" => local[m] # {} /\ \A f \in local[m] : f.hidden
            /\ system \in SystemFiles
        BY DEF AutostartInductive, FilesWhole
      <3>2. /\ local' \in [Service -> SUBSET Entry]
            /\ \A m \in Service : local'[m] = IF m = n THEN {e} ELSE local[m]
        BY <2>2, <3>1
      <3>3. /\ wanted' \in [Service -> {"unset", "on", "off"}]
            /\ \A m \in Service : m # n => wanted'[m] = wanted[m]
            /\ wanted'[n] = "off" => e.hidden
        BY <2>2, <3>1
      <3>4. \A m \in Service : local'[m] = {} \/ \E f \in Entry : local'[m] = {f}
        BY <3>1, <3>2
      <3>5. \A m \in Service : wanted'[m] = "off" => local'[m] # {} /\ \A f \in local'[m] : f.hidden
        BY <3>1, <3>2, <3>3
      <3> QED BY <1>1, <3>1, <3>2, <3>3, <3>4, <3>5 DEF FilesWhole
    <2> QED BY <1>3, <2>1, <2>2
  <1>5. LoadedOnce' /\ Launching' /\ WaitedFor'
    BY <1>1 DEF AutostartInductive, LoadedOnce, Launching, WaitedFor, DependsOn
  <1>6. StartsAfter'
    BY <1>1, EmptyList DEF StartsAfter
  <1> QED BY <1>1, <1>4, <1>5, <1>6 DEF AutostartInductive

(* The items of what is to start: one for each name. *)
LEMMA ItemsAreNamed ==
    ASSUME FilesWhole
    PROVE  /\ IsFiniteSet(Items) /\ Items \subseteq Item
           /\ \A a, b \in Items : a.name = b.name => a = b
           /\ \A item \in Items : wanted[item.name] # "off"
  <1>1. ASSUME NEW n \in Service, Starts(n)
        PROVE  ItemOf(n) \in Item /\ ItemOf(n).name = n /\ wanted[n] # "off"
    <2>1. \A e \in File(n) : e \in Entry
      BY AutostartAssumption DEF File, FilesWhole
    <2>2. PICK e \in File(n) : ~e.hidden
      BY <1>1 DEF Starts, Autostarts
    <2>3. PICK f \in File(n) : ItemOf(n) = [name |-> n, after |-> f.after, phase |-> f.phase]
      BY <2>2 DEF ItemOf
    <2>6. f \in Entry
      BY <2>1
    <2>7. f.after \in Service \cup {""} /\ f.phase \in Phase
      BY <2>6 DEF Entry
    <2> DEFINE item == [name |-> n, after |-> f.after, phase |-> f.phase]
    <2>8. item \in [name : Service, after : Service \cup {""}, phase : Phase] /\ item.name = n
      BY <2>7
    <2> HIDE DEF item
    <2>9. ItemOf(n) = item
      BY <2>3 DEF item
    <2>4. ItemOf(n) \in Item /\ ItemOf(n).name = n
      BY <2>8, <2>9 DEF Item
    <2>5. wanted[n] # "off"
      BY <2>2 DEF FilesWhole, File, Absent
    <2> QED BY <2>4, <2>5
  <1>2. IsFiniteSet({ m \in Service : Starts(m) })
    BY AutostartAssumption, FS_Subset
  <1>3. IsFiniteSet(Items)
    <2> DEFINE S == { m \in Service : Starts(m) }
               item == [m \in S |-> ItemOf(m)]
    <2>1. Items = { item[m] : m \in S }
      BY DEF Items
    <2> HIDE DEF S
    <2>2. item \in [S -> Items] /\ \A i \in Items : \E m \in S : item[m] = i
      BY <2>1
    <2>3. item \in Surjection(S, Items)
      BY <2>2 DEF Surjection
    <2> QED BY <1>2, <2>3, FS_Surjection DEF S
  <1> QED BY <1>1, <1>3 DEF Items

LEMMA LoadKeeps ==
    ASSUME AutostartInductive, LoadAutoStartList
    PROVE  AutostartInductive'
  <1>1. PICK list \in SetToSeqs(Items) : startList' = list /\ loaded' = list
    BY DEF LoadAutoStartList
  <1>2. /\ IsFiniteSet(Items) /\ Items \subseteq Item
        /\ \A a, b \in Items : a.name = b.name => a = b
        /\ \A item \in Items : wanted[item.name] # "off"
    BY ItemsAreNamed DEF AutostartInductive
  <1>3. list \in Seq(Items) /\ IsInjective(list) /\ ToSet(list) = Items
    BY <1>2, ListOfAll, RangeIsToSet
  <1>4. list \in Seq(Item)
    <2>1. list \in [1..Len(list) -> Items] /\ Len(list) \in Nat
      BY <1>3
    <2>2. list \in [1..Len(list) -> Item]
      BY <1>2, <2>1
    <2> QED BY <2>1, <2>2, FunctionIsSeq
  <1>5. /\ job' = "loaded" /\ UNCHANGED <<local, system, edits, wanted, started, phase, launched>>
        /\ launched = <<>> /\ ToSet(launched) = {} /\ DOMAIN launched = {}
    BY EmptyList DEF LoadAutoStartList, AutostartInductive
  <1>6. FilesWhole'
    BY <1>5 DEF AutostartInductive, FilesWhole
  <1>7. LoadedOnce'
    BY <1>1, <1>2, <1>3, <1>4, <1>5 DEF LoadedOnce
  <1>8. Launching'
    <2>2. ToSet(launched') = {} /\ ToSet(loaded') = Items /\ ToSet(startList') = Items
      BY <1>1, <1>3, <1>5
    <2> QED BY <2>2 DEF Launching
  <1>9. WaitedFor'
    BY <1>1, <1>3, <1>5 DEF WaitedFor, AutostartInductive
  <1>10. StartsAfter'
    BY <1>5 DEF StartsAfter
  <1> QED BY <1>1, <1>5, <1>6, <1>7, <1>8, <1>9, <1>10 DEF AutostartInductive

(* What startService picks: of the phase, if there is one; one that waits  *)
(* for what was started, or one that names none, or no other is there.     *)
LEMMA FirstOf ==
    ASSUME NEW list \in Seq(Item), NEW I \in SUBSET (1..Len(list)), I # {}
    PROVE  Min(I) \in I
  <1>1. I \subseteq Nat
    OBVIOUS
  <1>2. \E m \in I : \A y \in I : m <= y
    BY <1>1, LeastIndex
  <1> QED BY <1>2 DEF Min

LEMMA FirstLeadingIs ==
    ASSUME started \in Seq(Service), Leading # {}
    PROVE  /\ FirstLeading \in Leading /\ FirstLeading \in 1..Len(started)
           /\ \A j \in Leading : FirstLeading <= j
  <1>1. Leading \subseteq 1..Len(started) /\ Leading \subseteq Nat
    BY DEF Leading
  <1>2. \E k \in Leading : \A j \in Leading : k <= j
    BY <1>1, LeastIndex
  <1> QED BY <1>1, <1>2 DEF FirstLeading

LEMMA ChoiceIs ==
    ASSUME startList \in Seq(Item), started \in Seq(Service), phase \in Int
    PROVE  /\ Choice \in 0..Len(startList)
           /\ Choice = 0 => \A i \in 1..Len(startList) : startList[i].phase # phase
           /\ Choice # 0 =>
                /\ startList[Choice].phase = phase
                /\ Leading # {} => startList[Choice].after = started[FirstLeading]
                /\ Leading = {} /\ startList[Choice].after # "" =>
                      \A i \in 1..Len(startList) : ~IsRoot(startList[i])
  <1> DEFINE n == Len(startList)
             Waiting == { i \in 1..n : DependsOn(startList[i], started[FirstLeading]) }
             Roots == { i \in 1..n : IsRoot(startList[i]) }
             Others == { i \in 1..n : startList[i].phase = phase }
  <1>1. Choice = IF Leading # {} THEN (IF Waiting # {} THEN Min(Waiting) ELSE 0)
                 ELSE IF (IF Roots # {} THEN Min(Roots) ELSE 0) > 0
                      THEN (IF Roots # {} THEN Min(Roots) ELSE 0)
                 ELSE IF Others # {} THEN Min(Others) ELSE 0
    BY DEF Choice, SelectInSeq
  <1>2. n \in Nat /\ DOMAIN startList = 1..n
    OBVIOUS
  <1>6. Waiting # {} => Min(Waiting) \in Waiting
    <2>1. Waiting \in SUBSET (1..n)
      OBVIOUS
    <2> QED BY <2>1, FirstOf
  <1>7. Roots # {} => Min(Roots) \in Roots
    <2>1. Roots \in SUBSET (1..n)
      OBVIOUS
    <2> QED BY <2>1, FirstOf
  <1>8. Others # {} => Min(Others) \in Others
    <2>1. Others \in SUBSET (1..n)
      OBVIOUS
    <2> QED BY <2>1, FirstOf
  <1>9. \A i \in 1..n : i \in 0..n /\ i # 0 /\ i > 0
    BY <1>2
  <1>10. 0 \in 0..n /\ ~(0 > 0)
    BY <1>2
  <1>3. CASE Leading # {}
    <2>1. FirstLeading \in Leading
      BY <1>3, FirstLeadingIs
    <2>2. PICK i \in 1..n : DependsOn(startList[i], started[FirstLeading])
      BY <1>2, <2>1 DEF Leading
    <2>3. Waiting # {} /\ Choice = Min(Waiting)
      BY <1>1, <1>3, <2>2
    <2>4. Choice \in 1..n /\ DependsOn(startList[Choice], started[FirstLeading])
      BY <1>6, <2>3
    <2> HIDE DEF n
    <2>5. Choice \in 0..n /\ Choice # 0
      BY <1>9, <2>4
    <2>6. startList[Choice].phase = phase /\ startList[Choice].after = started[FirstLeading]
      BY <2>4 DEF DependsOn
    <2> QED BY <1>3, <2>5, <2>6 DEF n
  <1>4. CASE Leading = {} /\ Roots # {}
    <2>1. Min(Roots) \in 1..n /\ IsRoot(startList[Min(Roots)])
      BY <1>4, <1>7
    <2>2. Choice = Min(Roots)
      BY <1>1, <1>4, <1>9, <2>1
    <2>3. Choice \in 0..n /\ Choice # 0
      BY <1>9, <2>1, <2>2
    <2>4. startList[Choice].phase = phase /\ startList[Choice].after = ""
      BY <2>1, <2>2 DEF IsRoot
    <2> HIDE DEF n, Roots
    <2> QED BY <1>4, <2>3, <2>4 DEF n
  <1>5. CASE Leading = {} /\ Roots = {}
    <2>1. Choice = IF Others # {} THEN Min(Others) ELSE 0
      BY <1>1, <1>5, <1>10
    <2>2. \A i \in 1..n : ~IsRoot(startList[i])
      BY <1>5
    <2>3. CASE Others # {}
      <3>1. Choice = Min(Others)
        BY <2>1, <2>3
      <3>2. Choice \in 1..n /\ startList[Choice].phase = phase
        BY <1>8, <2>3, <3>1
      <3>3. Choice \in 0..n /\ Choice # 0
        BY <1>9, <3>2
      <3> HIDE DEF n, Roots, Others
      <3> QED BY <1>5, <2>2, <3>2, <3>3 DEF n
    <2>4. CASE Others = {}
      <3>1. Choice = 0 /\ Choice \in 0..n
        BY <1>10, <2>1, <2>4
      <3>2. \A i \in 1..n : startList[i].phase # phase
        BY <2>4
      <3> HIDE DEF n, Roots, Others
      <3> QED BY <3>1, <3>2 DEF n
    <2> QED BY <2>3, <2>4
  <1> HIDE DEF n, Roots, Others, Waiting
  <1> QED BY <1>3, <1>4, <1>5

(* What waits for a started service waits for one that is still known. *)
LEMMA BehindKeeps ==
    ASSUME startList \in Seq(Item), started \in Seq(Service),
           NEW n \in ToSet(started), NEW item \in ToSet(startList), DependsOn(item, n)
    PROVE  Leading # {} /\ n \in ToSet(Behind)
  <1>1. PICK k \in 1..Len(started) : started[k] = n
    BY DEF ToSet
  <1>2. PICK i \in 1..Len(startList) : startList[i] = item
    BY DEF ToSet
  <1>3. k \in Leading
    BY <1>1, <1>2 DEF Leading
  <1>4. FirstLeading \in 1..Len(started) /\ FirstLeading <= k
    BY <1>3, FirstLeadingIs
  <1> DEFINE f == FirstLeading
             behind == SubSeq(started, f, Len(started))
  <1>5. Behind = behind
    BY <1>3 DEF Behind
  <1> HIDE DEF f
  <1>6. /\ behind \in Seq(Service) /\ Len(behind) = Len(started) - f + 1
        /\ \A j \in 1..(Len(started) - f + 1) : behind[j] = started[f + j - 1]
    BY <1>4, SubSeqProperties DEF f
  <1> HIDE DEF behind
  <1>7. /\ f \in Nat /\ k \in Nat /\ Len(started) \in Nat /\ f <= k /\ k <= Len(started)
    BY <1>4 DEF f
  <1>8. k - f + 1 \in 1..(Len(started) - f + 1) /\ f + (k - f + 1) - 1 = k
    BY <1>7
  <1>9. behind[k - f + 1] = n
    BY <1>1, <1>6, <1>8
  <1>10. k - f + 1 \in DOMAIN behind
    BY <1>6, <1>8
  <1>11. n \in ToSet(behind)
    BY <1>9, <1>10 DEF ToSet
  <1> QED BY <1>3, <1>5, <1>11

LEMMA BehindIs ==
    ASSUME started \in Seq(Service)
    PROVE  Behind \in Seq(Service) /\ ToSet(Behind) \subseteq ToSet(started)
  <1>1. CASE Leading = {}
    BY <1>1, EmptyList DEF Behind
  <1>2. CASE Leading # {}
    <2>1. FirstLeading \in 1..Len(started)
      BY <1>2, FirstLeadingIs
    <2> DEFINE f == FirstLeading
               behind == SubSeq(started, f, Len(started))
    <2> HIDE DEF f
    <2>2. /\ behind \in Seq(Service) /\ Len(behind) = Len(started) - f + 1
          /\ \A j \in 1..(Len(started) - f + 1) : behind[j] = started[f + j - 1]
      BY <2>1, SubSeqProperties DEF f
    <2>3. \A j \in 1..(Len(started) - f + 1) : f + j - 1 \in 1..Len(started)
      BY <2>1 DEF f
    <2> HIDE DEF behind
    <2>4. ToSet(behind) \subseteq ToSet(started)
      BY <2>2, <2>3 DEF ToSet
    <2> QED BY <1>2, <2>2, <2>4 DEF Behind, behind, f
  <1> QED BY <1>1, <1>2

(* An item whose chain begins in the phase is only left when one of its    *)
(* chain waits for what was started, or names none.                        *)
LEMMA ChainIsFollowed ==
    ASSUME AutostartInductive, NEW item \in ToSet(startList), item.phase = phase,
           Rooted(item), \A i \in 1..Len(startList) : ~IsRoot(startList[i])
    PROVE  Leading # {}
  <1>1. PICK n \in 0..Cardinality(Service) : \E chain \in [0..n -> ItemsOf(phase)] :
            /\ chain[0] = item /\ chain[n].after = ""
            /\ \A i \in 1..n : chain[i].name = chain[i - 1].after
    BY DEF Rooted
  <1>2. PICK chain \in [0..n -> ItemsOf(phase)] :
            /\ chain[0] = item /\ chain[n].after = ""
            /\ \A i \in 1..n : chain[i].name = chain[i - 1].after
    BY <1>1
  <1>3. n \in Nat
    BY AutostartAssumption, FS_CardinalityType
  <1>4. \A i \in 0..n : chain[i] \in ToSet(loaded) /\ chain[i].phase = phase
    BY <1>2 DEF ItemsOf
  <1>5. \A other \in ToSet(startList) : ~IsRoot(other)
    BY DEF ToSet
  <1> DEFINE I == { i \in 0..n : chain[i] \notin ToSet(startList) }
  <1>6. n \in I
    <2>1. n \in 0..n
      BY <1>3
    <2>2. IsRoot(chain[n])
      BY <1>2, <1>4, <2>1 DEF IsRoot
    <2> QED BY <1>5, <2>1, <2>2
  <1>7. I \subseteq Nat
    BY <1>3
  <1>8. PICK m \in I : \A i \in I : m <= i
    BY <1>6, <1>7, LeastIndex
  <1>9. m \in 0..n /\ chain[m] \notin ToSet(startList) /\ m # 0
    BY <1>2, <1>8
  <1>10. m - 1 \in 0..n /\ m \in 1..n /\ ~(m <= m - 1)
    BY <1>3, <1>9
  <1>11. chain[m - 1] \in ToSet(startList)
    BY <1>8, <1>10
  <1>12. /\ chain[m] \in ToSet(loaded) \ ToSet(startList)
         /\ chain[m - 1].phase = phase /\ chain[m].name = chain[m - 1].after
    BY <1>2, <1>4, <1>9, <1>10
  <1>13. DependsOn(chain[m - 1], chain[m].name)
    BY <1>12 DEF DependsOn
  <1>14. chain[m].name \in ToSet(started)
    BY <1>11, <1>12, <1>13 DEF AutostartInductive, WaitedFor
  <1>15. startList \in Seq(Item) /\ started \in Seq(Service)
    BY DEF AutostartInductive, LoadedOnce
  <1> QED BY <1>11, <1>13, <1>14, <1>15, BehindKeeps

LEMMA StartKeeps ==
    ASSUME AutostartInductive, StartService
    PROVE  AutostartInductive'
  <1>1. /\ job = "running" /\ phase \in Phase /\ phase \in -1..2 /\ phase \in Int
        /\ UNCHANGED <<local, system, edits, wanted, loaded, phase, job>>
        /\ startList \in Seq(Item) /\ loaded \in Seq(Item) /\ started \in Seq(Service)
        /\ launched \in Seq(Service) /\ IsInjective(launched) /\ IsInjective(startList)
        /\ Len(startList) \in Nat
    BY DEF StartService, AutostartInductive, LoadedOnce, Phase, BaseDesktop
  <1>2. Choice \in 1..Len(startList)
    <2>1. Choice \in 0..Len(startList)
      BY <1>1, ChoiceIs
    <2>2. Choice > 0
      BY DEF StartService
    <2> QED BY <1>1, <2>1, <2>2
  <1>3. PICK item : item = startList[Choice]
    OBVIOUS
  <1>4. /\ item \in ToSet(startList) /\ item \in ToSet(loaded) /\ item \in Item
        /\ item.name \in Service
    <2>1. item \in ToSet(startList)
      BY <1>1, <1>2, <1>3 DEF ToSet
    <2>2. item \in ToSet(loaded) /\ item \in Item
      BY <1>1, <2>1, ToSetOfSeq DEF AutostartInductive, LoadedOnce
    <2> QED BY <2>1, <2>2 DEF Item
  <1>5. /\ item.phase = phase
        /\ Leading # {} => item.after = started[FirstLeading]
        /\ Leading = {} /\ item.after # "" =>
              \A i \in 1..Len(startList) : ~IsRoot(startList[i])
    <2>1. Choice # 0
      BY <1>1, <1>2
    <2> QED BY <1>1, <1>3, <2>1, ChoiceIs
  <1>6. item.name \notin ToSet(launched)
    BY <1>4 DEF AutostartInductive, Launching
  <1>7. /\ startList' \in Seq(Item) /\ IsInjective(startList')
        /\ ToSet(startList') = ToSet(startList) \ {item}
    <2>1. startList' = RemoveAt(startList, Choice)
      BY DEF StartService, Taken
    <2> QED BY <1>1, <1>2, <1>3, <2>1, RemoveAtShape, RemoveAtSet
  <1>8. /\ launched' = Append(launched, item.name)
        /\ launched' \in Seq(Service) /\ IsInjective(launched')
        /\ ToSet(launched') = ToSet(launched) \cup {item.name}
    <2>1. launched' = Append(launched, item.name)
      BY <1>3 DEF StartService
    <2> QED BY <1>1, <1>4, <1>6, <2>1, AppendSet
  <1>9. /\ started' \in Seq(Service) /\ ToSet(started') = {item.name} \cup ToSet(Behind)
        /\ ToSet(Behind) \subseteq ToSet(started)
    <2>1. started' = <<item.name>> \o Behind
      BY <1>3 DEF StartService
    <2>2. Behind \in Seq(Service) /\ ToSet(Behind) \subseteq ToSet(started)
      BY <1>1, BehindIs
    <2>3. PICK behind : behind = Behind
      OBVIOUS
    <2>4. started' \in Seq(Service) /\ ToSet(started') = ToSet(behind) \cup {item.name}
      BY <1>4, <2>1, <2>2, <2>3, PrependSet
    <2> QED BY <2>2, <2>3, <2>4
  <1>10. FilesWhole'
    BY <1>1 DEF AutostartInductive, FilesWhole
  <1>11. LoadedOnce'
    BY <1>1, <1>7 DEF AutostartInductive, LoadedOnce
  <1>12. Launching'
    <2>1. \A i \in ToSet(loaded) \ ToSet(startList') : i.phase = phase
      BY <1>5, <1>7 DEF AutostartInductive, Launching
    <2>2. \A i \in ToSet(loaded) :
             i.name \in ToSet(launched') <=> i \notin ToSet(startList')
      BY <1>4, <1>7, <1>8 DEF AutostartInductive, Launching, LoadedOnce
    <2>3. \A n \in ToSet(launched') : \E i \in ToSet(loaded) : i.name = n
      BY <1>4, <1>8 DEF AutostartInductive, Launching
    <2> QED BY <1>1, <2>1, <2>2, <2>3 DEF Launching
  <1>13. WaitedFor'
    <2>1. ToSet(started') \subseteq ToSet(launched')
      BY <1>8, <1>9 DEF AutostartInductive, WaitedFor
    <2>2. ASSUME NEW before \in ToSet(loaded) \ ToSet(startList'), NEW y \in ToSet(startList'),
                 DependsOn(y, before.name)
          PROVE  before.name \in ToSet(started')
      <3>1. CASE before = item
        BY <1>9, <3>1
      <3>2. CASE before # item
        <4>1. before \notin ToSet(startList) /\ y \in ToSet(startList)
          BY <1>7, <3>2
        <4>2. before.name \in ToSet(started)
          BY <2>2, <4>1 DEF AutostartInductive, WaitedFor
        <4>3. before.name \in ToSet(Behind)
          BY <1>1, <2>2, <4>1, <4>2, BehindKeeps
        <4> QED BY <1>9, <4>3
      <3> QED BY <3>1, <3>2
    <2>3. \A y, n : DependsOn(y, n)' <=> DependsOn(y, n)
      BY <1>1 DEF DependsOn
    <2> QED BY <1>1, <2>1, <2>2, <2>3 DEF WaitedFor
  <1>14. StartsAfter'
    <2>1. /\ Len(launched) \in Nat /\ Len(launched') = Len(launched) + 1
          /\ DOMAIN launched' = 1..(Len(launched) + 1) /\ DOMAIN launched = 1..Len(launched)
          /\ \A i \in 1..Len(launched) : launched'[i] = launched[i]
          /\ launched'[Len(launched) + 1] = item.name
      BY <1>1, <1>4, <1>8
    <2>2. ASSUME NEW i \in DOMAIN launched', NEW y \in ToSet(loaded),
                 y.name = launched'[i], y.after # "", Rooted(y)
          PROVE  \E j \in 1..i - 1 : launched'[j] = y.after
      <3>1. CASE i \in 1..Len(launched)
        <4>1. PICK j \in 1..i - 1 : launched[j] = y.after
          BY <2>1, <2>2, <3>1 DEF AutostartInductive, StartsAfter
        <4>2. j \in 1..Len(launched)
          BY <2>1, <3>1
        <4> QED BY <2>1, <4>1, <4>2
      <3>2. CASE i = Len(launched) + 1
        <4>1. y = item
          BY <1>4, <2>1, <2>2, <3>2 DEF AutostartInductive, LoadedOnce
        <4>2. Leading # {}
          BY <1>4, <1>5, <2>2, <4>1, ChainIsFollowed
        <4>3. y.after = started[FirstLeading] /\ FirstLeading \in 1..Len(started)
          BY <1>1, <1>5, <4>1, <4>2, FirstLeadingIs
        <4>4. y.after \in ToSet(launched)
          <5>1. y.after \in ToSet(started)
            BY <1>1, <4>3 DEF ToSet
          <5> QED BY <5>1 DEF AutostartInductive, WaitedFor
        <4>5. PICK j \in 1..Len(launched) : launched[j] = y.after
          BY <2>1, <4>4 DEF ToSet
        <4>6. i - 1 = Len(launched)
          BY <2>1, <3>2
        <4> QED BY <2>1, <4>5, <4>6
      <3> QED BY <2>1, <3>1, <3>2
    <2>3. \A y : Rooted(y)' <=> Rooted(y)
      BY <1>1 DEF Rooted, ItemsOf
    <2> QED BY <1>1, <2>2, <2>3 DEF StartsAfter
  <1> QED BY <1>1, <1>8, <1>9, <1>10, <1>11, <1>12, <1>13, <1>14 DEF AutostartInductive

(* A job is made for a phase; nothing was launched yet.                    *)
LEMMA JobMadeKeeps ==
    ASSUME AutostartInductive, NEW p \in Phase, JobMade(p)
    PROVE  AutostartInductive'
  <1>1. /\ job' = "running" /\ phase' = p /\ startList = loaded /\ launched = <<>>
        /\ UNCHANGED <<local, system, edits, wanted, startList, loaded, started, launched>>
        /\ DOMAIN launched = {}
    BY EmptyList DEF JobMade, AutostartInductive
  <1>2. p \in -1..2
    BY DEF Phase, BaseDesktop
  <1>3. FilesWhole' /\ LoadedOnce'
    BY <1>1 DEF AutostartInductive, FilesWhole, LoadedOnce
  <1>4. Launching' /\ WaitedFor'
    BY <1>1 DEF AutostartInductive, Launching, WaitedFor
  <1>5. StartsAfter'
    BY <1>1 DEF StartsAfter
  <1> QED BY <1>1, <1>2, <1>3, <1>4, <1>5 DEF AutostartInductive

LEMMA JobDoneKeeps ==
    ASSUME AutostartInductive, JobDone
    PROVE  AutostartInductive'
  <1>1. /\ job = "running" /\ job' = "done" /\ Choice = 0 /\ phase \in Phase /\ phase \in Int
        /\ UNCHANGED <<local, system, edits, wanted, startList, loaded, started, phase, launched>>
        /\ startList \in Seq(Item) /\ started \in Seq(Service)
    BY DEF JobDone, AutostartInductive, LoadedOnce, Phase, BaseDesktop
  <1>2. \A item \in ToSet(startList) : item.phase # phase
    BY <1>1, ChoiceIs DEF ToSet
  <1>3. FilesWhole' /\ LoadedOnce'
    BY <1>1 DEF AutostartInductive, FilesWhole, LoadedOnce
  <1>4. Launching' /\ WaitedFor'
    BY <1>1 DEF AutostartInductive, Launching, WaitedFor, DependsOn
  <1>5. \A y : Rooted(y)' <=> Rooted(y)
    BY <1>1 DEF Rooted, ItemsOf
  <1>6. StartsAfter'
    BY <1>1, <1>5 DEF AutostartInductive, StartsAfter
  <1> QED BY <1>1, <1>2, <1>3, <1>4, <1>6 DEF AutostartInductive

LEMMA AutostartStep == AutostartInductive /\ [AutostartNext]_autostartVars => AutostartInductive'
  <1> SUFFICES ASSUME AutostartInductive, [AutostartNext]_autostartVars
               PROVE  AutostartInductive'
    OBVIOUS
  <1>1. CASE UNCHANGED autostartVars
    <2>1. UNCHANGED <<local, system, edits, wanted, startList, loaded, started, phase, job,
                      launched>>
      BY <1>1 DEF autostartVars
    <2>2. FilesWhole'
      BY <2>1 DEF AutostartInductive, FilesWhole
    <2>3. LoadedOnce' /\ Launching'
      BY <2>1 DEF AutostartInductive, LoadedOnce, Launching
    <2>4. WaitedFor'
      BY <2>1 DEF AutostartInductive, WaitedFor, DependsOn
    <2>5. \A y : Rooted(y)' <=> Rooted(y)
      BY <2>1 DEF Rooted, ItemsOf
    <2>6. StartsAfter'
      BY <2>1, <2>5 DEF AutostartInductive, StartsAfter
    <2> QED BY <2>1, <2>2, <2>3, <2>4, <2>6 DEF AutostartInductive
  <1>2. CASE AutostartNext
    BY <1>2, SetKeeps, LoadKeeps, StartKeeps, JobMadeKeeps, JobDoneKeeps
    DEF AutostartNext
  <1> QED BY <1>1, <1>2

LEMMA AutostartInvariant == AutostartSpec => []AutostartInductive
  BY AutostartInitially, AutostartStep, PTL DEF AutostartSpec

(* The files and the lists of AutoStart keep their types.                  *)
THEOREM AutostartTypeCorrect == AutostartSpec => []AutostartTypeOK
  <1>1. AutostartInductive => AutostartTypeOK
    <2> SUFFICES ASSUME AutostartInductive PROVE AutostartTypeOK
      OBVIOUS
    <2>1. ASSUME NEW n \in Service PROVE Cardinality(local[n]) <= 1
      <3>1. local[n] = {} \/ \E e \in Entry : local[n] = {e}
        BY DEF AutostartInductive, FilesWhole
      <3>2. Cardinality(local[n]) \in {0, 1}
        BY <3>1, FS_EmptySet, FS_Singleton
      <3> QED BY <3>2
    <2> QED BY <2>1 DEF AutostartInductive, FilesWhole, LoadedOnce, AutostartTypeOK
  <1> QED BY <1>1, AutostartInvariant, PTL

(* A job that is done has started each service of its phase once, no other *)
(* one, and none that the user has turned off, for every set of autostart  *)
(* files, every phase and every order of the hash (autostart.cpp:66-160).  *)
THEOREM AlwaysStartsEachOnce == AutostartSpec => []StartsEachOnce
  <1>1. AutostartInductive => StartsEachOnce
    <2> SUFFICES ASSUME AutostartInductive, job = "done" PROVE
            /\ ToSet(launched) = { item.name : item \in ItemsOf(phase) }
            /\ \A n \in ToSet(launched) : wanted[n] # "off"
      BY DEF StartsEachOnce, AutostartInductive
    <2>1. \A item \in ToSet(loaded) : item.phase = phase <=> item \notin ToSet(startList)
      BY DEF AutostartInductive, Launching
    <2>2. \A item \in ToSet(loaded) : item.phase = phase <=> item.name \in ToSet(launched)
      BY <2>1 DEF AutostartInductive, Launching
    <2>3. \A n \in ToSet(launched) : \E item \in ToSet(loaded) : item.name = n
      BY DEF AutostartInductive, Launching
    <2>4. \A n \in ToSet(launched) : \E item \in ItemsOf(phase) : item.name = n
      BY <2>2, <2>3 DEF ItemsOf
    <2>5. \A item \in ItemsOf(phase) : item.name \in ToSet(launched)
      BY <2>2 DEF ItemsOf
    <2>6. \A n \in ToSet(launched) : wanted[n] # "off"
      BY <2>3 DEF AutostartInductive, LoadedOnce
    <2> QED BY <2>4, <2>5, <2>6
  <1> QED BY <1>1, AutostartInvariant, PTL

(* A service is started after the one it names, if the chain of names      *)
(* begins in its phase, however long the chain (autostart.cpp:113-160).    *)
THEOREM AlwaysStartsAfter == AutostartSpec => []StartsAfter
  <1>1. AutostartInductive => StartsAfter
    BY DEF AutostartInductive
  <1> QED BY <1>1, AutostartInvariant, PTL

-----------------------------------------------------------------------------
(* One restart after a crash, for any number of forks and of threads that  *)
(* crash: only the process that the session starts has the option, and     *)
(* only it and the children forked in its handler have handlers.           *)

ShellInductive ==
    /\ ShellTypeOK
    /\ option \subseteq {1}
    /\ \A p \in ShellId :
          /\ restarts[p] \in {0, 1}
          /\ restarts[p] = 1 => 1 \in option /\ p # 1
          /\ handled[p] # {} \/ at[p] \in InHandler => restarts[p] = 0 /\ 1 \in option
          /\ at[p] \in {"none", "forked", "alone"} => p # 1

LEMMA FirstIsAShell == 1 \in ShellId /\ ShellId \subseteq Nat
  BY ProcessesAssumption DEF ShellId

LEMMA ShellStarts == ShellInit => ShellInductive
  <1> SUFFICES ASSUME ShellInit PROVE ShellInductive
    OBVIOUS
  <1> USE FirstIsAShell
  <1>1. ShellTypeOK
    <2>1. {"main", "none"} \subseteq Where
      BY DEF Where, Program
    <2>2. at \in [ShellId -> Where] /\ caskPID \in [ShellId -> ShellId]
      BY <2>1 DEF ShellInit
    <2>3. 0 \in 0 .. Processes
      BY ProcessesAssumption
    <2>4. parent \in [ShellId -> 0 .. Processes] /\ restarts \in [ShellId -> Nat]
      BY <2>3 DEF ShellInit
    <2>5. option \cup failSafe \cup scale \subseteq ShellId
      BY DEF ShellInit
    <2>6. handled \in [ShellId -> SUBSET Signal] /\ platform \in [ShellId -> {"session", "wayland"}]
      BY DEF ShellInit
    <2> QED BY <2>2, <2>4, <2>5, <2>6 DEF ShellTypeOK
  <1> QED BY <1>1 DEF ShellInit, ShellInductive, InHandler

(* A process that goes on within the program, or out of it, with no        *)
(* handler but those it had or, with the option, may install.              *)
LEMMA ProgramMoves ==
    ASSUME ShellInductive, ShellTypeOK', NEW p \in ShellId,
           NEW to \in Where \ (InHandler \cup {"none"}), at' = [at EXCEPT ![p] = to],
           \A q \in ShellId : handled'[q] # {} => handled[q] # {} \/ q \in option,
           UNCHANGED <<option, restarts>>
    PROVE  ShellInductive'
  <1>1. at \in [ShellId -> Where]
    BY DEF ShellInductive, ShellTypeOK
  <1>2. ASSUME NEW q \in ShellId
        PROVE  at'[q] = at[q] \/ at'[q] \notin InHandler \cup {"none"}
    BY <1>1
  <1>3. ASSUME NEW q \in ShellId, q \in option
        PROVE  q = 1 /\ restarts[q] = 0 /\ 1 \in option
    BY <1>3 DEF ShellInductive
  <1>4. {"none", "forked", "alone"} \subseteq InHandler \cup {"none"}
    BY DEF InHandler
  <1> QED BY <1>2, <1>3, <1>4 DEF ShellInductive

LEMMA CrashKeeps ==
    ASSUME ShellInductive, NEW p \in ShellId, NEW signal \in Signal, Crash(p, signal)
    PROVE  ShellInductive'
  <1> USE DEF ShellInductive
  <1>1. ShellTypeOK'
    BY DEF Crash, Moves, ShellTypeOK, Where, InHandler
  <1>2. /\ UNCHANGED <<option, restarts>>
        /\ \A q \in ShellId : handled'[q] \subseteq handled[q]
    BY DEF Crash, ShellTypeOK
  <1>3. CASE signal \in handled[p]
    <2>1. \A q \in ShellId : at'[q] = IF q = p THEN "handler" ELSE at[q]
      BY <1>3 DEF Crash, Moves, ShellTypeOK
    <2>2. restarts[p] = 0 /\ 1 \in option
      BY <1>3
    <2>3. ASSUME NEW q \in ShellId
          PROVE  /\ restarts'[q] \in {0, 1}
                 /\ restarts'[q] = 1 => 1 \in option' /\ q # 1
                 /\ handled'[q] # {} \/ at'[q] \in InHandler => restarts'[q] = 0 /\ 1 \in option'
                 /\ at'[q] \in {"none", "forked", "alone"} => q # 1
      BY <1>2, <2>1, <2>2
    <2> QED BY <1>1, <1>2, <2>3
  <1>4. CASE signal \notin handled[p]
    <2>1. at' = [at EXCEPT ![p] = "gone"]
      BY <1>4 DEF Crash, Moves
    <2>2. "gone" \in Where \ (InHandler \cup {"none"})
      BY DEF Where, InHandler
    <2> QED BY <1>1, <1>2, <2>1, <2>2, ProgramMoves
  <1> QED BY <1>3, <1>4

LEMMA ForkKeeps ==
    ASSUME ShellInductive, NEW p \in ShellId, Fork(p)
    PROVE  ShellInductive'
  <1> USE DEF ShellInductive
  <1>1. at[p] = "handler" /\ restarts[p] = 0 /\ 1 \in option /\ option' = option
    BY DEF Fork, InHandler
  <1>2. ASSUME NEW q \in ShellId, at[q] = "none",
               at' = [at EXCEPT ![p] = "waiting", ![q] = "forked"],
               parent' = [parent EXCEPT ![q] = p],
               caskPID' = [caskPID EXCEPT ![q] = caskPID[p]],
               handled' = [handled EXCEPT ![q] = handled[p]],
               restarts' = [restarts EXCEPT ![q] = restarts[p]],
               platform' = [platform EXCEPT ![q] = platform[p]],
               scale' = IF p \in scale THEN scale \cup {q} ELSE scale
        PROVE  ShellInductive'
    <2>1. q # 1 /\ q # p
      BY <1>1, <1>2
    <2>2. ShellTypeOK'
      <3>1. /\ at' \in [ShellId -> Where] /\ parent' \in [ShellId -> 0 .. Processes]
            /\ caskPID' \in [ShellId -> ShellId]
        <4>1. {"waiting", "forked"} \subseteq Where
          BY DEF Where, InHandler
        <4>2. ShellId \subseteq 0 .. Processes
          BY ProcessesAssumption DEF ShellId
        <4>3. at' \in [ShellId -> Where]
          BY <1>2, <4>1 DEF ShellTypeOK
        <4>4. parent' \in [ShellId -> 0 .. Processes]
          BY <1>2, <4>2 DEF ShellTypeOK
        <4>5. caskPID' \in [ShellId -> ShellId]
          BY <1>2 DEF ShellTypeOK
        <4> QED BY <4>3, <4>4, <4>5
      <3>2. /\ handled' \in [ShellId -> SUBSET Signal] /\ restarts' \in [ShellId -> Nat]
            /\ platform' \in [ShellId -> {"session", "wayland"}]
        BY <1>2 DEF ShellTypeOK
      <3>3. option' \cup failSafe' \cup scale' \subseteq ShellId
        BY <1>2 DEF ShellTypeOK, Fork
      <3> QED BY <3>1, <3>2, <3>3 DEF ShellTypeOK
    <2>3. \A r \in ShellId :
             /\ at'[r] = IF r = q THEN "forked" ELSE IF r = p THEN "waiting" ELSE at[r]
             /\ restarts'[r] = IF r = q THEN 0 ELSE restarts[r]
             /\ handled'[r] = IF r = q THEN handled[p] ELSE handled[r]
      BY <1>1, <1>2, <2>1 DEF ShellTypeOK
    <2>4. ASSUME NEW r \in ShellId
          PROVE  /\ restarts'[r] \in {0, 1}
                 /\ restarts'[r] = 1 => 1 \in option' /\ r # 1
                 /\ handled'[r] # {} \/ at'[r] \in InHandler => restarts'[r] = 0 /\ 1 \in option'
                 /\ at'[r] \in {"none", "forked", "alone"} => r # 1
      BY <1>1, <2>1, <2>3
    <2> QED BY <1>1, <2>2, <2>4
  <1>3. CASE /\ at' = [at EXCEPT ![p] = "gone"]
             /\ UNCHANGED <<parent, caskPID, handled, restarts, platform, scale>>
    <2>1. "gone" \in Where \ (InHandler \cup {"none"})
      BY DEF Where, InHandler
    <2>2. ShellTypeOK'
      BY <1>1, <1>3, <2>1 DEF Fork, ShellTypeOK
    <2> QED BY <1>1, <1>3, <2>1, <2>2, ProgramMoves
  <1> QED BY <1>2, <1>3 DEF Fork

LEMMA KillKeeps ==
    ASSUME ShellInductive, NEW p \in ShellId, Kill(p)
    PROVE  ShellInductive'
  <1> USE DEF ShellInductive
  <1>1. /\ at[p] = "forked" /\ caskPID[p] \in ShellId /\ at \in [ShellId -> Where]
        /\ UNCHANGED <<parent, caskPID, option, handled, restarts, failSafe, platform, scale>>
    BY DEF Kill, ShellTypeOK
  <1>2. ASSUME NEW q \in ShellId
        PROVE  \/ at'[q] = at[q] \/ at'[q] \in {"dying", "gone"}
               \/ q = p /\ at'[q] = "alone"
    BY <1>1 DEF Kill
  <1>3. ShellTypeOK'
    BY <1>1 DEF Kill, ShellTypeOK, Where, InHandler
  <1>4. restarts[p] = 0 /\ 1 \in option /\ p # 1
    BY <1>1 DEF InHandler
  <1>5. ASSUME NEW q \in ShellId
        PROVE  /\ at'[q] \in InHandler => at[q] \in InHandler \/ q = p
               /\ at'[q] \in {"none", "forked", "alone"} =>
                     at[q] \in {"none", "forked", "alone"} \/ q = p
    BY <1>2 DEF InHandler
  <1> QED BY <1>1, <1>3, <1>4, <1>5

LEMMA ExecuteKeeps ==
    ASSUME ShellInductive, NEW p \in ShellId, Execute(p)
    PROVE  ShellInductive'
  <1> USE DEF ShellInductive
  <1>1. at[p] = "alone" /\ p # 1 /\ restarts[p] = 0 /\ 1 \in option
    BY DEF Execute, Moves, InHandler
  <1>2. /\ "main" \in Where \ (InHandler \cup {"none"})
        /\ "gone" \in Where \ (InHandler \cup {"none"})
    BY DEF Where, InHandler, Program
  <1>3. CASE /\ Moves(p, {"alone"}, "main") /\ option' = NoOption(p)
             /\ handled' = [handled EXCEPT ![p] = {}]
             /\ restarts' = [restarts EXCEPT ![p] = @ + 1]
    <2>1. option' = option
      BY <1>1, <1>3 DEF NoOption
    <2>2. ShellTypeOK'
      BY <1>2, <1>3, <2>1 DEF Execute, Moves, ShellTypeOK
    <2>3. \A q \in ShellId :
             /\ at'[q] = IF q = p THEN "main" ELSE at[q]
             /\ restarts'[q] = IF q = p THEN 1 ELSE restarts[q]
             /\ handled'[q] = IF q = p THEN {} ELSE handled[q]
      BY <1>1, <1>3 DEF Moves, ShellTypeOK
    <2>4. ASSUME NEW q \in ShellId
          PROVE  /\ restarts'[q] \in {0, 1}
                 /\ restarts'[q] = 1 => 1 \in option' /\ q # 1
                 /\ handled'[q] # {} \/ at'[q] \in InHandler => restarts'[q] = 0 /\ 1 \in option'
                 /\ at'[q] \in {"none", "forked", "alone"} => q # 1
      BY <1>1, <1>2, <2>1, <2>3
    <2> QED BY <2>1, <2>2, <2>4
  <1>4. CASE Moves(p, {"alone"}, "gone") /\ UNCHANGED <<option, handled, restarts>>
    <2>1. at' = [at EXCEPT ![p] = "gone"]
      BY <1>4 DEF Moves
    <2>2. ShellTypeOK'
      BY <1>2, <1>4, <2>1 DEF Execute, ShellTypeOK
    <2> QED BY <1>2, <1>4, <2>1, <2>2, ProgramMoves
  <1> QED BY <1>3, <1>4 DEF Execute

LEMMA ShellSteps == ShellInductive /\ [ShellNext]_shellVars => ShellInductive'
  <1> SUFFICES ASSUME ShellInductive, [ShellNext]_shellVars PROVE ShellInductive'
    OBVIOUS
  <1>1. ASSUME NEW p \in ShellId,
               Main(p) \/ Startup(p) \/ Loaded(p) \/ NotLoaded(p) \/ Quit(p) \/ Ends(p)
        PROVE  ShellInductive'
    <2>1. \E to \in Where \ (InHandler \cup {"none"}) : at' = [at EXCEPT ![p] = to]
      BY <1>1 DEF Main, Startup, Loaded, NotLoaded, Quit, Ends, Moves, Where, Program, InHandler
    <2>2. UNCHANGED <<option, restarts>>
      BY <1>1 DEF Main, Startup, Loaded, NotLoaded, Quit, Ends
    <2>3. ShellTypeOK'
      <3>1. at' \in [ShellId -> Where]
        BY <2>1 DEF ShellInductive, ShellTypeOK
      <3>2. /\ handled' \in [ShellId -> SUBSET Signal] /\ caskPID' \in [ShellId -> ShellId]
            /\ platform' \in [ShellId -> {"session", "wayland"}] /\ parent' = parent
            /\ failSafe' \cup scale' \subseteq ShellId
        BY <1>1 DEF Main, Startup, Loaded, NotLoaded, Quit, Ends, ShellInductive, ShellTypeOK
      <3> QED BY <2>2, <3>1, <3>2 DEF ShellInductive, ShellTypeOK
    <2>4. \A q \in ShellId : handled'[q] # {} => handled[q] # {} \/ q \in option
      BY <1>1 DEF Main, Startup, Loaded, NotLoaded, Quit, Ends, ShellInductive, ShellTypeOK
    <2> QED BY <2>1, <2>2, <2>3, <2>4, ProgramMoves
  <1>2. CASE UNCHANGED shellVars
    BY <1>2 DEF shellVars, ShellInductive, ShellTypeOK
  <1> QED BY <1>1, <1>2, CrashKeeps, ForkKeeps, KillKeeps, ExecuteKeeps DEF ShellNext

(* The table of the processes keeps its type.                              *)
THEOREM ShellTypeCorrect == ShellSpec => []ShellTypeOK
  <1>1. ShellInductive => ShellTypeOK
    BY DEF ShellInductive
  <1> QED BY ShellStarts, ShellSteps, <1>1, PTL DEF ShellSpec

(* A cask that was started again is not started once more, and without     *)
(* --respawn none is, whatever crashes in whichever order and however      *)
(* often it forks (main.cpp).                                              *)
THEOREM AlwaysRespawnsOnce == ShellSpec => []RespawnsOnce
  <1>1. ShellInductive => RespawnsOnce
    <2>1. \A r \in {0, 1} : r <= 1
      OBVIOUS
    <2> QED BY <2>1 DEF ShellInductive, RespawnsOnce
  <1> QED BY ShellStarts, ShellSteps, <1>1, PTL DEF ShellSpec
=============================================================================
