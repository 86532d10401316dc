---------------------------- MODULE PowerManager ----------------------------
(***************************************************************************)
(* What the machine can do: PowerManager asks login1 (or, where it is not  *)
(* there, ConsoleKit) once, and emits its signals when all the answers are *)
(* in.  Of the session dialog only the Shutdown button listens: a binding  *)
(* of its enabled reads canShutdown when it is made and at each signal.    *)
(***************************************************************************)
EXTENDS Integers

PowerOperation == {"shutdown", "reboot", "suspend", "hybridSuspend", "hibernate"}

VARIABLES
    provider,      \* s_mode of login1_manager_interface.cpp
    unanswered,    \* calls on their way
    can,           \* the operations whose m_can... is true
    pendingJobs,   \* m_pendingJobs
    made,          \* the Shutdown button exists
    enabled        \* and is enabled

powerVars == <<provider, unanswered, can, pendingJobs, made, enabled>>

PowerTypeOK ==
    /\ provider \in {"Logind1", "ConsoleKit2", "None"}
    /\ unanswered \subseteq PowerOperation
    /\ can \subseteq PowerOperation \ unanswered
    /\ made \in BOOLEAN /\ enabled \in BOOLEAN
    /\ pendingJobs \in 0 .. 5

\* Mutant: one of the five calls is not counted.
FourJobs == 4

Jobs == 5

\* The constructor asks for all of them.
PowerInit ==
    /\ provider \in {"Logind1", "ConsoleKit2", "None"}
    /\ unanswered = PowerOperation
    /\ can = {}
    /\ pendingJobs = Jobs
    /\ made = FALSE /\ enabled = FALSE

\* The button is made while the answers come in, or before, or after.
ButtonMade ==
    /\ ~made
    /\ made' = TRUE
    /\ enabled' = ("shutdown" \in can)
    /\ UNCHANGED <<provider, unanswered, can, pendingJobs>>

\* propLoaded; "yes" and "challenge" will show up in the UI, "no" and an
\* error, which is all there is without a provider, will not.
PropLoaded(op, answer) ==
    /\ op \in unanswered
    /\ provider = "None" => answer = "error"
    /\ unanswered' = unanswered \ {op}
    /\ pendingJobs' = pendingJobs - 1
    /\ can' = IF answer \in {"yes", "challenge"} THEN can \cup {op} ELSE can
    /\ enabled' = IF made /\ pendingJobs' = 0 THEN "shutdown" \in can' ELSE enabled
    /\ UNCHANGED <<provider, made>>

PowerNext ==
    \/ ButtonMade
    \/ \E op \in PowerOperation, answer \in {"yes", "challenge", "no", "error"} :
          PropLoaded(op, answer)

PowerSpec == PowerInit /\ [][PowerNext]_powerVars

(***************************************************************************)
(* Once every call is answered, in whichever order, the Shutdown button is *)
(* enabled if and only if the service said that the machine can be shut    *)
(* down, whenever the button was made; a signal emitted too early would    *)
(* leave what it read then.                                                *)
(***************************************************************************)
ShutdownFollowsAnswer ==
    unanswered = {} /\ made => (enabled <=> "shutdown" \in can)
=============================================================================
