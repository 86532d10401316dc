------------------------------ MODULE Autostart ------------------------------
(***************************************************************************)
(* The autostart files and the order they are started in: CaskAutostart    *)
(* reads and changes an entry, AutoStart lists the entries that count, and *)
(* an AutoStartAppsJob, made for one phase, works on its copy of the list. *)
(* At this commit nothing makes a job: startup.cpp:87, :104 and :146 are   *)
(* commented out and nothing makes a StartupPhase0, 1 or 2.  The module is *)
(* about the classes as they stand, one job of any phase at a time.        *)
(***************************************************************************)
EXTENDS Integers, SequencesExt

CONSTANTS Service,      \* names of autostart files, without .desktop
          SystemFiles,  \* what the system's autostart directory may hold
          Setting,      \* <<file, group, key>> -> value, in the configuration
          BlackListed,  \* names of m_blackListed
          Edits         \* bound: changes of entries before login

BaseDesktop == 0
Phase == BaseDesktop..2

(* The keys of a desktop file; after is "" and condition <<>> when absent. *)
Entry == [hidden : BOOLEAN, allowed : SUBSET {"Cask", "KDE"}, excluded : SUBSET {"Cask", "KDE"},
          tryExec : BOOLEAN, condition : Seq(STRING), after : Service \cup {""}, phase : Phase]
Absent == {}   \* a file is the set of its entry

ASSUME AutostartAssumption ==
    /\ IsFiniteSet(Service) /\ BlackListed \subseteq Service
    /\ \A files \in SystemFiles : \A n \in Service :
          Cardinality(files[n]) <= 1 /\ \A e \in files[n] : e \in Entry
    /\ Edits \in Nat

VARIABLES local,      \* the files of the user's autostart directory
          system,     \* those of the system's, which the user cannot write
          edits,      \* how often an entry was changed
          wanted,     \* history: what an object that copied the file set last
          startList,  \* AutoStart::m_startList of the job's copy
          loaded,     \* the list as AutoStart loaded it
          started,    \* m_started of the job's copy
          phase,      \* m_phase of the job's copy, -1 before it is made
          job,        \* what became of the list: "none", "loaded", a job that
                      \* is "running", or is "done"
          launched    \* history: the services handed to startDetached

autostartVars == <<local, system, edits, wanted, startList, loaded, started, phase,
                   job, launched>>

Item == [name : Service, after : Service \cup {""}, phase : Phase]

AutostartTypeOK ==
    /\ \A n \in Service : Cardinality(local[n]) <= 1
    /\ edits \in 0..Edits
    /\ wanted \in [Service -> {"unset", "on", "off"}]
    /\ startList \in Seq(Item) /\ loaded \in Seq(Item)
    /\ started \in Seq(Service) /\ launched \in Seq(Service)
    /\ phase \in -1..2 /\ job \in {"none", "loaded", "running", "done"}

AutostartInit ==
    /\ local = [n \in Service |-> Absent] /\ system \in SystemFiles
    /\ edits = 0 /\ wanted = [n \in Service |-> "unset"]
    /\ startList = <<>> /\ loaded = <<>> /\ started = <<>>
    /\ phase = -1 /\ job = "none" /\ launched = <<>>

-----------------------------------------------------------------------------
(* Mutant: the system's file counts before the user's. *)
SystemFirst(n) == IF system[n] # Absent THEN system[n] ELSE local[n]

(* The file that is used under a name, the user's directory coming first:  *)
(* locate() in the constructor and the map of loadAutoStartList.           *)
File(n) == IF local[n] # Absent THEN local[n] ELSE system[n]

(* A desktop file that CaskAutostart makes anew, Hidden being written. *)
NewEntry(hidden) == [hidden |-> hidden, allowed |-> {}, excluded |-> {}, tryExec |-> TRUE,
                     condition |-> <<>>, after |-> "", phase |-> 2]

(* setAutostarts(on) of a new CaskAutostart(n).  copyIfNeededChecked is    *)
(* initialized for a name without a file only: where it happens to be set, *)
(* nothing is copied and the write is lost on the system's file.           *)
SetAutostarts(n, on) ==
    /\ job = "none" /\ edits < Edits /\ edits' = edits + 1
    /\ \/ /\ File(n) = Absent /\ ~on
          /\ local' = [local EXCEPT ![n] = {NewEntry(TRUE)}]
          /\ wanted' = [wanted EXCEPT ![n] = "off"]
       \/ \E e \in File(n) :
          /\ e.hidden = on
          /\ \/ /\ local' = [local EXCEPT ![n] = {[e EXCEPT !.hidden = ~on]}]
                /\ wanted' = [wanted EXCEPT ![n] = IF on THEN "on" ELSE "off"]
             \/ /\ local[n] = Absent
                /\ UNCHANGED <<local, wanted>>
    /\ UNCHANGED <<system, startList, loaded, started, phase, job, launched>>

-----------------------------------------------------------------------------
(* isStartConditionMet *)
ReadSetting(c) == IF <<c[1], c[2], c[3]>> \in DOMAIN Setting
                  THEN Setting[<<c[1], c[2], c[3]>>] ELSE c[4] = "true"
IsStartConditionMet(c) == Len(c) < 4 \/ c[1] = "" \/ c[3] = "" \/ ReadSetting(c)

(* checkAllowedEnvironment *)
AllowedIn(e, environment) ==
    IF e.allowed # {} THEN environment \in e.allowed ELSE environment \notin e.excluded

(* autostarts("Cask", CheckAll) *)
Autostarts(e) == ~e.hidden /\ AllowedIn(e, "Cask") /\ e.tryExec /\ IsStartConditionMet(e.condition)

Starts(n) == n \notin BlackListed /\ \E e \in File(n) : Autostarts(e)

(* loadAutoStartList: the items come in the order of a hash. *)
ItemOf(n) == LET e == CHOOSE e \in File(n) : TRUE
             IN  [name |-> n, after |-> e.after, phase |-> e.phase]
Items == { ItemOf(n) : n \in { m \in Service : Starts(m) } }

LoadAutoStartList ==
    /\ job = "none" /\ job' = "loaded"
    /\ \E list \in SetToSeqs(Items) : startList' = list /\ loaded' = list
    /\ UNCHANGED <<local, system, edits, wanted, started, phase, launched>>

(* AutoStartAppsJob(autostart, p): the copy is set to its phase.           *)
JobMade(p) ==
    /\ job = "loaded" /\ job' = "running" /\ phase' = p
    /\ UNCHANGED <<local, system, edits, wanted, startList, loaded, started, launched>>

-----------------------------------------------------------------------------
(* Mutant: any item of the phase is taken for one that depends on nothing. *)
AnyOfPhase(item) == item.phase = phase

IsRoot(item) == item.phase = phase /\ item.after = ""
DependsOn(item, name) == item.phase = phase /\ item.after = name

(* The positions of m_started from which a service can be started next. *)
Leading == { k \in DOMAIN started : \E i \in DOMAIN startList : DependsOn(startList[i], started[k]) }
FirstLeading == CHOOSE k \in Leading : \A j \in Leading : k <= j

(* startService: what depends on what was started last, going back; then   *)
(* what depends on nothing; then anything of the phase.  The index in the  *)
(* list, 0 for none, and what is left of m_started.                        *)
Choice ==
    LET Dependent(item) == DependsOn(item, started[FirstLeading])
        Root(item) == IsRoot(item)
        OfPhase(item) == item.phase = phase
        roots == SelectInSeq(startList, Root)
    IN  IF Leading # {} THEN SelectInSeq(startList, Dependent)
        ELSE IF roots > 0 THEN roots ELSE SelectInSeq(startList, OfPhase)
Behind == IF Leading = {} THEN <<>> ELSE SubSeq(started, FirstLeading, Len(started))

(* Mutant: the item stays on the list when another one follows it. *)
KeepItem(list, i) == IF i < Len(list) THEN list ELSE RemoveAt(list, i)

Taken(list, i) == RemoveAt(list, i)

(* AutoStartAppsJob: the service goes to startDetached; whether it can be  *)
(* parsed and started makes no difference to the loop.                     *)
StartService ==
    /\ job = "running" /\ Choice > 0
    /\ launched' = Append(launched, startList[Choice].name)
    /\ started' = <<startList[Choice].name>> \o Behind
    /\ startList' = Taken(startList, Choice)
    /\ UNCHANGED <<local, system, edits, wanted, loaded, phase, job>>

(* startService has nothing more: setPhaseDone of the copy, emitResult.    *)
JobDone ==
    /\ job = "running" /\ Choice = 0 /\ job' = "done"
    /\ UNCHANGED <<local, system, edits, wanted, startList, loaded, started, phase, launched>>

AutostartNext ==
    \/ \E n \in Service : \E on \in BOOLEAN : SetAutostarts(n, on)
    \/ LoadAutoStartList \/ StartService \/ JobDone
    \/ \E p \in Phase : JobMade(p)

AutostartSpec == AutostartInit /\ [][AutostartNext]_autostartVars

-----------------------------------------------------------------------------
(* The items that are of a phase.                                          *)
ItemsOf(p) == { item \in ToSet(loaded) : item.phase = p }

(* A job that is done has started each service of its phase once and none  *)
(* of another phase, whatever the chains and the order of the hash; none   *)
(* of them is one the user has turned off before, though the entry may be  *)
(* a file of the system (autostart.cpp:66-160, startup.cpp:277-314).       *)
StartsEachOnce ==
    job = "done" => /\ IsInjective(launched)
                    /\ ToSet(launched) = { item.name : item \in ItemsOf(phase) }
                    /\ \A n \in ToSet(launched) : wanted[n] # "off"

(* The chain of an item's predecessors begins within its phase, with an    *)
(* item that names none.                                                   *)
Rooted(item) ==
    \E n \in 0..Cardinality(Service) : \E chain \in [0..n -> ItemsOf(item.phase)] :
        /\ chain[0] = item /\ chain[n].after = ""
        /\ \A i \in 1..n : chain[i].name = chain[i - 1].after

(* An item is started after the one it names, when the chain of names it   *)
(* belongs to begins in its phase; the fallback of startService upsets     *)
(* only those whose chain does not (caskautostart.h:157-161).              *)
StartsAfter ==
    \A i \in DOMAIN launched : \A item \in ToSet(loaded) :
        /\ item.name = launched[i] /\ item.after # "" /\ Rooted(item)
        => \E j \in 1..i - 1 : launched[j] = item.after
=============================================================================
