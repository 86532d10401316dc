------------------------------- MODULE Tasks -------------------------------
(***************************************************************************)
(* The tasks of the task bar: TasksModel, the Task objects, the windows    *)
(* they follow and the list of pinned ids that QSettings keeps across      *)
(* restarts.  A task learns that its window closed through a queued call,  *)
(* which stands in the event queue before the window's deferred delete.    *)
(***************************************************************************)
EXTENDS Integers, SequencesExt

CONSTANTS Window,   \* AbstractWindow objects (an address is used again once freed)
          Task,     \* Task objects on the bar at the same time: the bound on it
          AppId,    \* app ids that clients announce
          File,     \* desktop files that are dropped on the bar, by their path
          Exec,     \* KService::exec of an id's desktop file
          NoExec,   \* the empty string: no desktop file, or one without a command
          Present,  \* ids that are, as they are, the name of an existing file
          NoWindow, NoId

ASSUME TasksAssumption ==
    /\ IsFiniteSet(Task)
    /\ DOMAIN Exec = AppId \cup File
    /\ Present \subseteq AppId \cup File
    /\ NoWindow \notin Window
    /\ NoId \notin AppId \cup File

Id == AppId \cup File   \* a task goes by either

VARIABLES bar,       \* TasksModel::m_tasks
          id,        \* Task::m_id
          window,    \* Task::m_window
          pinned,    \* Task::m_isPinned
          settings,  \* TaskBar/Pinned in QSettings
          life,      \* life of a window object
          appId,     \* app id the client of a window has set
          posted     \* the event queue: queued calls and deferred deletes

taskVars   == <<bar, id, window, pinned>>
windowVars == <<life, appId>>
vars       == <<taskVars, settings, windowVars, posted>>

Closed(t) == [kind |-> "closed", task |-> t]
Delete(w) == [kind |-> "delete", window |-> w]
Event     == { Closed(t) : t \in Task } \cup { Delete(w) : w \in Window }

OnBar == ToSet(bar)

TypeOK ==
    /\ bar \in Seq(Task) /\ IsInjective(bar)
    /\ id \in [Task -> Id \cup {NoId}]
    /\ window \in [Task -> Window \cup {NoWindow}]
    /\ pinned \in [Task -> BOOLEAN]
    /\ settings \in Seq(Id) /\ IsInjective(settings)
    /\ life \in [Window -> {"none", "open", "closing"}]
    /\ appId \in [Window -> AppId \cup {NoId}]
    /\ posted \in Seq(Event)

-----------------------------------------------------------------------------
(* The positions on the bar of the tasks that run the command of app id a. *)
SameExec(a) == { k \in DOMAIN bar : Exec[a] # NoExec /\ Exec[id[bar[k]]] = Exec[a] }

(* Mutant: a task that runs the command is used, has it a window or not.   *)
VacantOrNot(a) == { bar[k] : k \in { i \in SameExec(a) : \A j \in SameExec(a) : i <= j } }

(* TasksModel::findTask: the first of them; addTask(window) uses it when   *)
(* it has no window.                                                       *)
Vacant(a) == { bar[k] : k \in { i \in SameExec(a) :
                                  /\ \A j \in SameExec(a) : i <= j
                                  /\ window[bar[i]] = NoWindow } }

(* TasksModel::containsTask *)
ContainsTask(i) == \E t \in OnBar : id[t] = i

(* Mutant: pinTask does not look whether the id is stored already.         *)
PinTwice(i) == settings' = Append(settings, i)

(* Task::pinTask, from whichever id the task has by then.                  *)
PinTask(i) == settings' = IF i \in ToSet(settings) THEN settings
                                                   ELSE Append(settings, i)

(* A task that left the bar is leaked, but nothing calls it any more: it   *)
(* stands for free memory here, and which one is taken is no matter.       *)
Unused  == Task \ OnBar
NewTask == CHOOSE t \in Unused : TRUE

(* new Task(i, w) that is pinned or not, and TasksModel::addTask(Task).    *)
AddTask(i, w, pin) ==
    /\ Unused # {}
    /\ bar' = Append(bar, NewTask)
    /\ id' = [id EXCEPT ![NewTask] = i]
    /\ window' = [window EXCEPT ![NewTask] = w]
    /\ pinned' = [pinned EXCEPT ![NewTask] = pin]

(* TasksModel::removeTask(indexOf(t)) *)
RemoveTask(t) ==
    /\ bar' = RemoveFirst(bar, t)
    /\ id' = [id EXCEPT ![t] = NoId]
    /\ window' = [window EXCEPT ![t] = NoWindow]
    /\ pinned' = [pinned EXCEPT ![t] = FALSE]

-----------------------------------------------------------------------------
(* The first run of the shell: no id is stored. *)
Init ==
    /\ bar = <<>>
    /\ id = [t \in Task |-> NoId]
    /\ window = [t \in Task |-> NoWindow]
    /\ pinned = [t \in Task |-> FALSE]
    /\ settings = <<>>
    /\ life = [w \in Window |-> "none"]
    /\ appId = [w \in Window |-> NoId]
    /\ posted = <<>>

(* A toplevel is created; addWindow waits for its app id.                  *)
WindowCreated(w) ==
    /\ life[w] = "none"
    /\ life' = [life EXCEPT ![w] = "open"]
    /\ UNCHANGED <<taskVars, settings, appId, posted>>

(* The first app id: TasksModel::addTask(window).  The new task is pinned  *)
(* or not as it happens: m_isPinned is never initialized.                  *)
AppIdAnnounced(w, a) ==
    /\ life[w] = "open" /\ appId[w] = NoId
    /\ appId' = [appId EXCEPT ![w] = a]
    /\ \/ \E t \in Vacant(a) :
             /\ window' = [window EXCEPT ![t] = w]
             /\ UNCHANGED <<bar, id, pinned>>
       \/ /\ Vacant(a) = {}
          /\ \E garbage \in BOOLEAN : AddTask(a, w, garbage)
    /\ UNCHANGED <<settings, life, posted>>

(* A later one: Task::setId of the task that follows the window. *)
AppIdChanged(w, a) ==
    /\ life[w] = "open" /\ appId[w] \notin {NoId, a}
    /\ appId' = [appId EXCEPT ![w] = a]
    /\ id' = [t \in Task |-> IF t \in OnBar /\ window[t] = w THEN a ELSE id[t]]
    /\ UNCHANGED <<bar, window, pinned, settings, life, posted>>

(* Mutant: the window is marked for deletion before closed() is emitted.   *)
PostDeleteFirst(w) ==
    \E calls \in SetToSeqs({ Closed(t) : t \in { u \in OnBar : window[u] = w } }) :
        posted' = posted \o <<Delete(w)>> \o calls

(* closed() reaches its task through the event queue, then deleteLater().  *)
PostClosed(w) ==
    \E calls \in SetToSeqs({ Closed(t) : t \in { u \in OnBar : window[u] = w } }) :
        posted' = posted \o calls \o <<Delete(w)>>

(* The toplevel, and with it the app id, goes with the shell surface.      *)
ShellSurfaceDestroyed(w) ==
    /\ life[w] = "open"
    /\ life' = [life EXCEPT ![w] = "closing"]
    /\ appId' = [appId EXCEPT ![w] = NoId]
    /\ PostClosed(w)
    /\ UNCHANGED <<taskVars, settings>>

(* Mutant: a task that is pinned takes no notice of its window.            *)
PinnedStays(t) == IF pinned[t] THEN UNCHANGED taskVars ELSE RemoveTask(t)

(* Task's closed handler: a pinned task stays as a launcher, another one   *)
(* leaves the bar (TasksModel::removeTask).                                *)
TaskClosed(t) ==
    \/ /\ pinned[t]
       /\ window' = [window EXCEPT ![t] = NoWindow]
       /\ UNCHANGED <<bar, id, pinned>>
    \/ /\ ~pinned[t]
       /\ RemoveTask(t)

WindowDeleted(w) == life' = [life EXCEPT ![w] = "none"] /\ UNCHANGED appId

(* The event loop takes the oldest event. *)
RunPosted ==
    /\ posted # <<>>
    /\ posted' = Tail(posted)
    /\ \/ \E t \in Task : /\ Head(posted) = Closed(t)
                         /\ TaskClosed(t)
                         /\ UNCHANGED windowVars
       \/ \E w \in Window : /\ Head(posted) = Delete(w)
                           /\ WindowDeleted(w)
                           /\ UNCHANGED taskVars
    /\ UNCHANGED settings

(* A desktop file is dropped: addTask(id, true) on a task whose m_isPinned *)
(* may read true already, and then setIsPinned does not store the id.      *)
Dropped(i) ==
    /\ ~ContainsTask(i)
    /\ AddTask(i, NoWindow, TRUE)
    /\ \/ PinTask(i)
       \/ UNCHANGED settings
    /\ UNCHANGED <<windowVars, posted>>

Pin(t) ==
    /\ t \in OnBar /\ ~pinned[t]
    /\ pinned' = [pinned EXCEPT ![t] = TRUE]
    /\ PinTask(id[t])
    /\ UNCHANGED <<bar, id, window, windowVars, posted>>

SetUnPinned(t) ==
    /\ pinned' = [pinned EXCEPT ![t] = FALSE]
    /\ UNCHANGED <<bar, id, window>>

(* Task::unPinTask stops when the id it has by now is not a stored one.    *)
UnPin(t) ==
    /\ t \in OnBar /\ pinned[t]
    /\ \/ /\ id[t] \notin ToSet(settings)
          /\ SetUnPinned(t)
          /\ UNCHANGED settings
       \/ /\ id[t] \in ToSet(settings)
          /\ settings' = RemoveFirst(settings, id[t])
          /\ IF window[t] = NoWindow THEN RemoveTask(t) ELSE SetUnPinned(t)
    /\ UNCHANGED <<windowVars, posted>>

InStoredOrder(ids) ==
    \A m, n \in DOMAIN ids : m < n =>
        \E i, j \in DOMAIN settings : i < j /\ settings[i] = ids[m] /\ settings[j] = ids[n]

(* The list of ids setPinnedTasks puts on the bar: those whose desktop     *)
(* file exists under the name that was stored.                             *)
Restorable == { ids \in SetToSeqs(ToSet(settings) \cap Present) : InStoredOrder(ids) }

(* The shell stops, or dies, and starts again. *)
Restart ==
    /\ \E ids \in Restorable :
          /\ Len(ids) <= Cardinality(Task)
          /\ bar' = SubSeq(SetToSeq(Task), 1, Len(ids))
          /\ id' = [t \in Task |-> IF t \in ToSet(bar')
                                   THEN ids[CHOOSE k \in DOMAIN bar' : bar'[k] = t]
                                   ELSE NoId]
    /\ window' = [t \in Task |-> NoWindow]
    /\ pinned' = [t \in Task |-> t \in ToSet(bar')]
    /\ life' = [w \in Window |-> "none"]
    /\ appId' = [w \in Window |-> NoId]
    /\ posted' = <<>>
    /\ UNCHANGED settings

Next ==
    \/ \E w \in Window : WindowCreated(w) \/ ShellSurfaceDestroyed(w)
    \/ \E w \in Window, a \in AppId : AppIdAnnounced(w, a) \/ AppIdChanged(w, a)
    \/ RunPosted
    \/ \E i \in File : Dropped(i)
    \/ \E t \in Task : Pin(t) \/ UnPin(t)
    \/ Restart

Spec == Init /\ [][Next]_vars

(* Qt's event loop takes what is posted. *)
FairSpec == Spec /\ WF_vars(RunPosted)

-----------------------------------------------------------------------------
(* An open window whose app id is known is followed by exactly one task of *)
(* the bar, however its opening meets the queued closing of other windows, *)
(* pinning, unpinning and changes of ids: no program loses its icon.       *)
OneTaskPerWindow ==
    \A w \in Window : life[w] = "open" /\ appId[w] # NoId =>
        /\ \E t \in OnBar : window[t] = w
        /\ \A t, u \in OnBar : window[t] = w /\ window[u] = w => t = u

(* A task of the bar, whose window the dock reads at every click, never    *)
(* follows a window object that was deleted: the queued closed() is taken  *)
(* before the deferred delete, whatever else the queue holds.              *)
NoDeletedWindow ==
    \A t \in OnBar : window[t] # NoWindow => life[window[t]] # "none"

(* A window that closed is let go by every task in the end, so that its    *)
(* icon leaves the bar or becomes a launcher again.                        *)
ClosedWindowsLetGo ==
    \A w \in Window :
        life[w] = "closing" ~> life[w] # "closing" /\ \A t \in OnBar :
                                   window[t] = w => life[w] = "open"

(* What the comment in unPinTask promises: an unpinned task that has no    *)
(* window does not stay on the bar.                                        *)
EmptyTasksArePinned == \A t \in OnBar : window[t] = NoWindow => pinned[t]
=============================================================================
