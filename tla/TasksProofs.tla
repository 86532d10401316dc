---------------------------- MODULE TasksProofs ----------------------------
(***************************************************************************)
(* Theorems about the task bar, for every set of windows, tasks and ids    *)
(* and whatever desktop files name which program.                          *)
(***************************************************************************)
EXTENDS Tasks, SequenceLemmas, FiniteSetTheorems, TLAPS

(* Every d in the list s stands before every e. *)
Before(s, d, e) == \A i, j \in DOMAIN s : s[i] = d /\ s[j] = e => i < j

(* No event is posted twice; a window is closing as long as its deferred   *)
(* delete is posted; a closed() is under way only to a task of the bar     *)
(* that still follows the closing window, and comes before the delete.     *)
PostedOnce == IsInjective(posted)

DeletesClosing == \A w \in Window : Delete(w) \in ToSet(posted) <=> life[w] = "closing"

ClosedIsTrue ==
    \A t \in Task : Closed(t) \in ToSet(posted) =>
        /\ t \in OnBar
        /\ window[t] \in Window
        /\ life[window[t]] = "closing"
        /\ Before(posted, Closed(t), Delete(window[t]))

(* A task follows an open window, or one whose closed() is on its way to   *)
(* it; no two tasks follow the same window.                                *)
FollowsOrTold ==
    \A t \in OnBar : window[t] \in Window =>
        \/ life[window[t]] = "open"
        \/ life[window[t]] = "closing" /\ Closed(t) \in ToSet(posted)

OneFollower ==
    \A t, u \in OnBar : window[t] \in Window /\ window[t] = window[u] => t = u

(* An open window has a task from its first app id on, and not before.     *)
NamedIsFollowed ==
    \A w \in Window :
        /\ life[w] # "open" => appId[w] = NoId
        /\ life[w] = "open" => (appId[w] # NoId <=> \E t \in OnBar : window[t] = w)

(* A task of the bar goes by an id, which is what pinning it stores.       *)
HasId == \A t \in OnBar : id[t] \in Id

QueueInv == PostedOnce /\ DeletesClosing /\ ClosedIsTrue
TaskInv  == FollowsOrTold /\ OneFollower /\ NamedIsFollowed

Inv == TypeOK /\ HasId /\ QueueInv /\ TaskInv

-----------------------------------------------------------------------------
LEMMA EventsDiffer ==
    /\ \A t, u \in Task : Closed(t) = Closed(u) => t = u
    /\ \A v, w \in Window : Delete(v) = Delete(w) => v = w
    /\ \A t \in Task, w \in Window : Closed(t) # Delete(w)
    /\ \A t \in Task : Closed(t) \in Event
    /\ \A w \in Window : Delete(w) \in Event
  <1>1. \A t, u \in Task : Closed(t) = Closed(u) => t = u
    BY DEF Closed
  <1>2. \A v, w \in Window : Delete(v) = Delete(w) => v = w
    BY DEF Delete
  <1>3. \A t \in Task, w \in Window : Closed(t) # Delete(w)
    BY DEF Closed, Delete
  <1> QED BY <1>1, <1>2, <1>3 DEF Event

LEMMA BeforeAppend ==
    ASSUME NEW S, NEW s \in Seq(S), NEW x \in S, NEW d, NEW e, Before(s, d, e),
           x # d \/ (d # e /\ e \notin ToSet(s))
    PROVE  Before(Append(s, x), d, e)
  <1> SUFFICES ASSUME NEW i \in 1 .. Len(s) + 1, NEW j \in 1 .. Len(s) + 1,
                      Append(s, x)[i] = d, Append(s, x)[j] = e
               PROVE  i < j
    <2>1. DOMAIN Append(s, x) = 1 .. Len(s) + 1
      OBVIOUS
    <2> QED BY <2>1 DEF Before
  <1>1. /\ \A k \in 1 .. Len(s) : Append(s, x)[k] = s[k]
        /\ Append(s, x)[Len(s) + 1] = x
        /\ DOMAIN s = 1 .. Len(s)
    OBVIOUS
  <1>2. CASE x # d
    BY <1>1, <1>2 DEF Before
  <1>3. CASE d # e /\ e \notin ToSet(s) /\ x = d
    BY <1>1, <1>3 DEF ToSet
  <1> QED BY <1>2, <1>3

LEMMA BeforeTail ==
    ASSUME NEW S, NEW s \in Seq(S), s # <<>>, NEW d, NEW e, Before(s, d, e)
    PROVE  /\ Before(Tail(s), d, e)
           /\ d \in ToSet(s) => Head(s) # e
  <1>1. /\ DOMAIN s = 1 .. Len(s) /\ DOMAIN Tail(s) = 1 .. Len(s) - 1
        /\ Len(s) \in Nat \ {0}
        /\ Head(s) = s[1] /\ \A i \in 1 .. Len(s) - 1 : Tail(s)[i] = s[i + 1]
    OBVIOUS
  <1>2. Before(Tail(s), d, e)
    <2> SUFFICES ASSUME NEW i \in 1 .. Len(s) - 1, NEW j \in 1 .. Len(s) - 1,
                        Tail(s)[i] = d, Tail(s)[j] = e
                 PROVE  i < j
      BY <1>1 DEF Before
    <2>1. s[i + 1] = d /\ s[j + 1] = e /\ i + 1 \in 1 .. Len(s) /\ j + 1 \in 1 .. Len(s)
      BY <1>1
    <2>2. i + 1 < j + 1
      BY <1>1, <2>1 DEF Before
    <2> QED BY <2>2
  <1>3. ASSUME d \in ToSet(s), Head(s) = e PROVE FALSE
    <2>1. PICK i \in 1 .. Len(s) : s[i] = d
      BY <1>1, <1>3 DEF ToSet
    <2> QED BY <1>1, <1>3, <2>1 DEF Before
  <1> QED BY <1>2, <1>3

-----------------------------------------------------------------------------
LEMMA InitInv == Init => Inv
  <1> SUFFICES ASSUME Init PROVE Inv
    OBVIOUS
  <1> USE DEF Init
  <1>1. /\ bar \in Seq(Task) /\ settings \in Seq(Id) /\ posted \in Seq(Event)
        /\ IsInjective(bar) /\ IsInjective(settings) /\ IsInjective(posted)
    BY DEF IsInjective
  <1>2. OnBar = {} /\ ToSet(posted) = {}
    BY DEF OnBar, ToSet
  <1>3. TypeOK
    BY <1>1 DEF TypeOK
  <1>4. QueueInv
    BY <1>1, <1>2 DEF QueueInv, PostedOnce, DeletesClosing, ClosedIsTrue
  <1>5. TaskInv
    BY <1>2 DEF TaskInv, FollowsOrTold, OneFollower, NamedIsFollowed
  <1> QED BY <1>2, <1>3, <1>4, <1>5 DEF Inv, HasId

-----------------------------------------------------------------------------
(* What the helpers do to the bar. *)
LEMMA AddTaskEffect ==
    ASSUME TypeOK, NEW i \in Id, NEW w \in Window \cup {NoWindow},
           NEW pin \in BOOLEAN, AddTask(i, w, pin)
    PROVE  /\ bar' \in Seq(Task) /\ IsInjective(bar')
           /\ id' \in [Task -> Id \cup {NoId}]
           /\ window' \in [Task -> Window \cup {NoWindow}]
           /\ pinned' \in [Task -> BOOLEAN]
           /\ NewTask \in Task \ OnBar
           /\ OnBar' = OnBar \cup {NewTask}
           /\ \A t \in Task : window'[t] = IF t = NewTask THEN w ELSE window[t]
           /\ HasId => HasId'
  <1>1. NewTask \in Task /\ NewTask \notin OnBar
    BY DEF AddTask, NewTask, Unused
  <1> HIDE DEF NewTask
  <1>2. bar' = Append(bar, NewTask)
    BY DEF AddTask
  <1>3. bar' \in Seq(Task) /\ IsInjective(bar') /\ OnBar' = OnBar \cup {NewTask}
    BY <1>1, <1>2, AppendSet DEF TypeOK, OnBar
  <1>4. /\ id' \in [Task -> Id \cup {NoId}]
        /\ window' \in [Task -> Window \cup {NoWindow}]
        /\ pinned' \in [Task -> BOOLEAN]
    BY <1>1 DEF AddTask, TypeOK
  <1>5. \A t \in Task : window'[t] = IF t = NewTask THEN w ELSE window[t]
    BY <1>1 DEF AddTask, TypeOK
  <1>6. OnBar \subseteq Task
    BY ToSetOfSeq DEF TypeOK, OnBar
  <1>7. \A t \in Task : id'[t] = IF t = NewTask THEN i ELSE id[t]
    BY <1>1 DEF AddTask, TypeOK
  <1>8. HasId => HasId'
    BY <1>1, <1>3, <1>6, <1>7 DEF HasId
  <1> QED BY <1>1, <1>3, <1>4, <1>5, <1>8

LEMMA RemoveTaskEffect ==
    ASSUME TypeOK, NEW r \in Task, RemoveTask(r)
    PROVE  /\ bar' \in Seq(Task) /\ IsInjective(bar')
           /\ id' \in [Task -> Id \cup {NoId}]
           /\ window' \in [Task -> Window \cup {NoWindow}]
           /\ pinned' \in [Task -> BOOLEAN]
           /\ OnBar' = OnBar \ {r}
           /\ \A t \in Task : window'[t] = IF t = r THEN NoWindow ELSE window[t]
           /\ HasId => HasId'
  <1>1. bar' = RemoveFirst(bar, r)
    BY DEF RemoveTask
  <1>2. bar' \in Seq(Task) /\ IsInjective(bar') /\ OnBar' = OnBar \ {r}
    BY <1>1, RemoveFirstSet DEF TypeOK, OnBar
  <1>3. /\ id' \in [Task -> Id \cup {NoId}]
        /\ window' \in [Task -> Window \cup {NoWindow}]
        /\ pinned' \in [Task -> BOOLEAN]
    BY DEF RemoveTask, TypeOK
  <1>4. \A t \in Task : window'[t] = IF t = r THEN NoWindow ELSE window[t]
    BY DEF RemoveTask, TypeOK
  <1>5. OnBar \subseteq Task
    BY ToSetOfSeq DEF TypeOK, OnBar
  <1>6. \A t \in Task \ {r} : id'[t] = id[t]
    BY DEF RemoveTask, TypeOK
  <1>7. HasId => HasId'
    BY <1>2, <1>5, <1>6 DEF HasId
  <1> QED BY <1>2, <1>3, <1>4, <1>7

LEMMA OnBarIsTasks == ASSUME TypeOK PROVE OnBar \subseteq Task
  BY ToSetOfSeq DEF TypeOK, OnBar

LEMMA PinTaskEffect ==
    ASSUME TypeOK, NEW i \in Id, PinTask(i)
    PROVE  settings' \in Seq(Id) /\ IsInjective(settings')
  <1>1. CASE i \in ToSet(settings)
    BY <1>1 DEF PinTask, TypeOK
  <1>2. CASE i \notin ToSet(settings)
    <2>1. settings' = Append(settings, i)
      BY <1>2 DEF PinTask
    <2> QED BY <1>2, <2>1, AppendSet DEF TypeOK
  <1> QED BY <1>1, <1>2

(* Whatever leaves every window with the task it had leaves the rest of    *)
(* the invariant as it was.                                                *)
LEMMA SameFollowers ==
    ASSUME Inv, UNCHANGED <<windowVars, posted>>,
           \A t \in Task, w \in Window :
               t \in OnBar /\ window[t] = w <=> t \in OnBar' /\ window'[t] = w,
           OnBar' \subseteq Task
    PROVE  QueueInv' /\ TaskInv'
  <1>1. UNCHANGED <<life, appId, posted>>
    BY DEF windowVars
  <1>2. OnBar \subseteq Task
    BY OnBarIsTasks DEF Inv
  <1>3. QueueInv'
    BY <1>1 DEF Inv, QueueInv, PostedOnce, DeletesClosing, ClosedIsTrue
  <1>4. FollowsOrTold'
    BY <1>1, <1>2 DEF Inv, TaskInv, FollowsOrTold
  <1>5. OneFollower'
    BY <1>2 DEF Inv, TaskInv, OneFollower
  <1>6. NamedIsFollowed'
    BY <1>1, <1>2 DEF Inv, TaskInv, NamedIsFollowed
  <1> QED BY <1>3, <1>4, <1>5, <1>6 DEF TaskInv

-----------------------------------------------------------------------------
(* One lemma for each action. *)
LEMMA WindowCreatedInv ==
    ASSUME Inv, NEW v \in Window, WindowCreated(v)
    PROVE  Inv'
  <1> USE DEF WindowCreated, taskVars
  <1>1. TypeOK' /\ HasId'
    BY DEF Inv, TypeOK, HasId, OnBar
  <1>2. /\ UNCHANGED <<bar, window, appId, posted>> /\ OnBar' = OnBar
        /\ life[v] = "none"
        /\ \A w \in Window : life'[w] = IF w = v THEN "open" ELSE life[w]
    BY DEF Inv, TypeOK, OnBar
  <1>3. QueueInv'
    BY <1>2 DEF Inv, QueueInv, PostedOnce, DeletesClosing, ClosedIsTrue
  <1>4. \A t \in OnBar : window[t] # v
    BY <1>2 DEF Inv, TaskInv, FollowsOrTold
  <1>5. TaskInv'
    BY <1>2, <1>4 DEF Inv, TaskInv, FollowsOrTold, OneFollower, NamedIsFollowed
  <1> QED BY <1>1, <1>3, <1>5 DEF Inv

LEMMA AppIdAnnouncedInv ==
    ASSUME Inv, NEW v \in Window, NEW a \in AppId, AppIdAnnounced(v, a)
    PROVE  Inv'
  <1> USE TasksAssumption
  <1>1. /\ UNCHANGED <<settings, life, posted>>
        /\ life[v] = "open" /\ appId[v] = NoId
        /\ appId' \in [Window -> AppId \cup {NoId}]
        /\ \A w \in Window : appId'[w] = IF w = v THEN a ELSE appId[w]
        /\ a # NoId
    BY DEF Inv, TypeOK, AppIdAnnounced
  <1>2. PICK n \in Task :
            /\ n \in OnBar' /\ OnBar' = OnBar \cup {n}
            /\ n \in OnBar => window[n] = NoWindow
            /\ \A t \in Task : window'[t] = IF t = n THEN v ELSE window[t]
            /\ TypeOK' /\ HasId'
    <2>1. CASE Vacant(a) = {}
      <3>1. PICK garbage \in BOOLEAN : AddTask(a, v, garbage)
        BY <2>1 DEF AppIdAnnounced
      <3>2. a \in Id
        BY DEF Id
      <3>3. TypeOK' /\ HasId' /\ NewTask \in Task /\ NewTask \notin OnBar
            /\ OnBar' = OnBar \cup {NewTask}
            /\ \A t \in Task : window'[t] = IF t = NewTask THEN v ELSE window[t]
        BY <1>1, <3>1, <3>2, AddTaskEffect DEF Inv, TypeOK
      <3> QED BY <3>3
    <2>2. CASE Vacant(a) # {}
      <3>1. PICK t \in Vacant(a) : /\ window' = [window EXCEPT ![t] = v]
                                   /\ UNCHANGED <<bar, id, pinned>>
        BY <2>2 DEF AppIdAnnounced
      <3>2. t \in OnBar /\ window[t] = NoWindow /\ t \in Task
        BY <3>1, OnBarIsTasks DEF Vacant, SameExec, OnBar, ToSet, Inv
      <3>3. TypeOK' /\ HasId' /\ OnBar' = OnBar
        BY <1>1, <3>1, <3>2 DEF Inv, TypeOK, OnBar, HasId
      <3>4. \A u \in Task : window'[u] = IF u = t THEN v ELSE window[u]
        BY <3>1, <3>2 DEF Inv, TypeOK
      <3> QED BY <3>2, <3>3, <3>4
    <2> QED BY <2>1, <2>2
  <1>3. OnBar \subseteq Task
    BY OnBarIsTasks DEF Inv
  <1>4. \A t \in OnBar : window[t] # v
    BY <1>1 DEF Inv, TaskInv, NamedIsFollowed
  <1>5. QueueInv'
    <2>1. \A t \in Task : Closed(t) \in ToSet(posted) => t # n
      BY <1>2 DEF Inv, QueueInv, ClosedIsTrue
    <2> QED BY <1>1, <1>2, <2>1
            DEF Inv, QueueInv, PostedOnce, DeletesClosing, ClosedIsTrue
  <1>6. FollowsOrTold'
    BY <1>1, <1>2, <1>3 DEF Inv, TaskInv, FollowsOrTold
  <1>7. OneFollower'
    BY <1>2, <1>3, <1>4 DEF Inv, TaskInv, OneFollower
  <1>8. NamedIsFollowed'
    <2> SUFFICES ASSUME NEW w \in Window
                 PROVE  /\ life'[w] # "open" => appId'[w] = NoId
                        /\ life'[w] = "open" => (appId'[w] # NoId <=>
                               \E t \in OnBar' : window'[t] = w)
      BY DEF NamedIsFollowed
    <2>1. CASE w = v
      BY <1>1, <1>2, <2>1
    <2>2. CASE w # v
      <3>1. (\E t \in OnBar' : window'[t] = w) <=> (\E t \in OnBar : window[t] = w)
        BY <1>2, <1>3, <2>2
      <3> QED BY <1>1, <2>2, <3>1 DEF Inv, TaskInv, NamedIsFollowed
    <2> QED BY <2>1, <2>2
  <1> QED BY <1>2, <1>5, <1>6, <1>7, <1>8 DEF Inv, TaskInv

LEMMA AppIdChangedInv ==
    ASSUME Inv, NEW v \in Window, NEW a \in AppId, AppIdChanged(v, a)
    PROVE  Inv'
  <1> USE TasksAssumption
  <1>1. /\ UNCHANGED <<bar, window, life, posted>> /\ OnBar' = OnBar
        /\ life[v] = "open" /\ appId[v] # NoId
        /\ \A w \in Window : appId'[w] = IF w = v THEN a ELSE appId[w]
        /\ a # NoId
    BY DEF Inv, TypeOK, AppIdChanged, OnBar
  <1>2. TypeOK'
    <2>1. id' \in [Task -> Id \cup {NoId}]
      BY DEF AppIdChanged, Inv, TypeOK, Id
    <2> QED BY <2>1 DEF AppIdChanged, Inv, TypeOK
  <1>3. HasId'
    <2>1. OnBar \subseteq Task
      BY OnBarIsTasks DEF Inv
    <2>2. \A t \in Task : id'[t] = a \/ id'[t] = id[t]
      BY DEF AppIdChanged
    <2> QED BY <1>1, <2>1, <2>2 DEF Inv, HasId, Id
  <1>4. QueueInv' /\ FollowsOrTold' /\ OneFollower'
    BY <1>1 DEF Inv, QueueInv, PostedOnce, DeletesClosing, ClosedIsTrue,
                TaskInv, FollowsOrTold, OneFollower
  <1>5. NamedIsFollowed'
    BY <1>1 DEF Inv, TaskInv, NamedIsFollowed
  <1> QED BY <1>2, <1>3, <1>4, <1>5 DEF Inv, TaskInv

(* What closed() and deleteLater() post. *)
LEMMA PostClosedEffect ==
    ASSUME Inv, NEW v \in Window, PostClosed(v)
    PROVE  \/ /\ \A t \in OnBar : window[t] # v
              /\ posted' = Append(posted, Delete(v))
           \/ \E t \in OnBar : /\ window[t] = v
                               /\ posted' = Append(Append(posted, Closed(t)), Delete(v))
  <1> DEFINE F == { u \in OnBar : window[u] = v }
             C == { Closed(t) : t \in F }
  <1>1. PICK calls \in SetToSeqs(C) : posted' = posted \o calls \o <<Delete(v)>>
    BY DEF PostClosed
  <1>2. posted \in Seq(Event) /\ OnBar \subseteq Task /\ Delete(v) \in Event
    BY OnBarIsTasks, EventsDiffer DEF Inv, TypeOK
  <1>3. calls \in [1 .. Cardinality(C) -> C]
    BY DEF SetToSeqs
  <1>4. CASE F = {}
    <2>1. C = {}
      BY <1>4
    <2>2. Cardinality(C) = 0
      BY <2>1, FS_EmptySet
    <2>3. calls = <<>>
      BY <1>3, <2>1, <2>2
    <2>4. posted' = Append(posted, Delete(v))
      BY <1>1, <1>2, <2>3
    <2> QED BY <1>4, <2>4
  <1>5. CASE F # {}
    <2>1. PICK t \in OnBar : window[t] = v
      BY <1>5
    <2>2. F = {t}
      BY <2>1 DEF Inv, TaskInv, OneFollower
    <2>3. C = {Closed(t)}
      BY <2>2
    <2>4. Cardinality(C) = 1
      BY <2>3, FS_Singleton
    <2>5. calls = <<Closed(t)>>
      <3> HIDE DEF C
      <3>1. calls \in [1 .. 1 -> {Closed(t)}]
        BY <1>3, <2>3, <2>4
      <3>2. calls \in Seq({Closed(t)}) /\ Len(calls) = 1
        BY <3>1, FunctionIsSeq
      <3>3. calls[1] = Closed(t)
        BY <3>1
      <3> QED BY <3>2, <3>3
    <2>6. Closed(t) \in Event
      BY <1>2, <2>1, EventsDiffer
    <2>7. posted' = Append(Append(posted, Closed(t)), Delete(v))
      BY <1>1, <1>2, <2>5, <2>6
    <2> QED BY <2>1, <2>7
  <1> QED BY <1>4, <1>5

LEMMA ShellSurfaceDestroyedInv ==
    ASSUME Inv, NEW v \in Window, ShellSurfaceDestroyed(v)
    PROVE  Inv'
  <1>1. /\ UNCHANGED <<bar, id, window, pinned, settings>> /\ OnBar' = OnBar
        /\ life[v] = "open"
        /\ life' \in [Window -> {"none", "open", "closing"}]
        /\ appId' \in [Window -> AppId \cup {NoId}]
        /\ \A w \in Window : life'[w] = IF w = v THEN "closing" ELSE life[w]
        /\ \A w \in Window : appId'[w] = IF w = v THEN NoId ELSE appId[w]
    BY DEF Inv, TypeOK, ShellSurfaceDestroyed, taskVars, OnBar
  <1>2. /\ posted \in Seq(Event) /\ OnBar \subseteq Task
        /\ \A t \in Task : Closed(t) \in Event /\ Closed(t) # Delete(v)
        /\ Delete(v) \in Event
    BY OnBarIsTasks, EventsDiffer DEF Inv, TypeOK
  <1>3. Delete(v) \notin ToSet(posted)
    BY <1>1 DEF Inv, QueueInv, DeletesClosing
  <1>4. \A t \in Task : Closed(t) \in ToSet(posted) => window[t] # v
    BY <1>1 DEF Inv, QueueInv, ClosedIsTrue
  <1>5. PICK q \in Seq(Event) :
          /\ posted' = Append(q, Delete(v))
          /\ IsInjective(q) /\ Delete(v) \notin ToSet(q)
          /\ ToSet(q) = ToSet(posted) \cup { Closed(t) : t \in { u \in OnBar : window[u] = v } }
          /\ \A t \in Task, w \in Window \ {v} :
                Before(posted, Closed(t), Delete(w)) /\ window[t] # v
                   => Before(q, Closed(t), Delete(w))
    <2>1. PostClosed(v)
      BY DEF ShellSurfaceDestroyed
    <2>2. CASE /\ \A t \in OnBar : window[t] # v
               /\ posted' = Append(posted, Delete(v))
      BY <1>2, <1>3, <2>2 DEF Inv, QueueInv, PostedOnce
    <2>3. ASSUME NEW t \in OnBar, window[t] = v,
                 posted' = Append(Append(posted, Closed(t)), Delete(v))
          PROVE  \E q \in Seq(Event) :
            /\ posted' = Append(q, Delete(v))
            /\ IsInjective(q) /\ Delete(v) \notin ToSet(q)
            /\ ToSet(q) = ToSet(posted) \cup { Closed(u) : u \in { u \in OnBar : window[u] = v } }
            /\ \A u \in Task, w \in Window \ {v} :
                  Before(posted, Closed(u), Delete(w)) /\ window[u] # v
                     => Before(q, Closed(u), Delete(w))
      <3> DEFINE q == Append(posted, Closed(t))
      <3>1. t \in Task /\ Closed(t) \notin ToSet(posted) /\ Closed(t) \in Event
        BY <1>2, <1>4, <2>3
      <3>2. /\ q \in Seq(Event) /\ IsInjective(q)
            /\ ToSet(q) = ToSet(posted) \cup {Closed(t)}
        BY <1>2, <3>1, AppendSet DEF Inv, QueueInv, PostedOnce
      <3>3. Delete(v) \notin ToSet(q)
        BY <1>2, <1>3, <3>1, <3>2
      <3>4. { u \in OnBar : window[u] = v } = {t}
        BY <2>3 DEF Inv, TaskInv, OneFollower
      <3>5. ASSUME NEW u \in Task, NEW w \in Window \ {v},
                   Before(posted, Closed(u), Delete(w)), window[u] # v
            PROVE  Before(q, Closed(u), Delete(w))
        <4>1. Closed(t) # Closed(u)
          BY <2>3, <3>1, <3>5, EventsDiffer
        <4> QED BY <1>2, <3>1, <3>5, <4>1, BeforeAppend
      <3> QED BY <2>3, <3>2, <3>3, <3>4, <3>5
    <2> QED BY <2>1, <2>2, <2>3, PostClosedEffect
  <1>6. /\ posted' \in Seq(Event) /\ IsInjective(posted')
        /\ ToSet(posted') = ToSet(q) \cup {Delete(v)}
    BY <1>2, <1>5, AppendSet
  <1>7. TypeOK' /\ HasId'
    BY <1>1, <1>6 DEF Inv, TypeOK, HasId
  <1>8. DeletesClosing'
    <2> SUFFICES ASSUME NEW w \in Window
                 PROVE  Delete(w) \in ToSet(posted') <=> life'[w] = "closing"
      BY DEF DeletesClosing
    <2>1. Delete(w) \in ToSet(posted') <=> w = v \/ Delete(w) \in ToSet(posted)
      BY <1>2, <1>5, <1>6, EventsDiffer
    <2> QED BY <1>1, <2>1 DEF Inv, QueueInv, DeletesClosing
  <1>9. ClosedIsTrue'
    <2> SUFFICES ASSUME NEW t \in Task, Closed(t) \in ToSet(posted')
                 PROVE  /\ t \in OnBar /\ window[t] \in Window
                        /\ life'[window[t]] = "closing"
                        /\ Before(posted', Closed(t), Delete(window[t]))
      BY <1>1 DEF ClosedIsTrue
    <2>1. CASE Closed(t) \in ToSet(posted)
      <3>1. /\ t \in OnBar /\ window[t] \in Window /\ life[window[t]] = "closing"
            /\ Before(posted, Closed(t), Delete(window[t]))
        BY <2>1 DEF Inv, QueueInv, ClosedIsTrue
      <3>2. window[t] # v
        BY <1>4, <2>1
      <3>3. Before(q, Closed(t), Delete(window[t]))
        BY <1>5, <3>1, <3>2
      <3>4. Before(posted', Closed(t), Delete(window[t]))
        BY <1>2, <1>5, <3>3, BeforeAppend
      <3> QED BY <1>1, <3>1, <3>4
    <2>2. CASE Closed(t) \notin ToSet(posted)
      <3>1. Closed(t) \in { Closed(u) : u \in { u \in OnBar : window[u] = v } }
        BY <1>2, <1>5, <1>6, <2>2
      <3>2. t \in OnBar /\ window[t] = v
        BY <1>2, <3>1, EventsDiffer
      <3>3. Before(q, Closed(t), Delete(v))
        <4>1. DOMAIN q = 1 .. Len(q) /\ \A j \in 1 .. Len(q) : q[j] # Delete(v)
          BY <1>5 DEF ToSet
        <4> QED BY <4>1 DEF Before
      <3>4. Before(posted', Closed(t), Delete(v))
        BY <1>2, <1>5, <3>3, BeforeAppend
      <3> QED BY <1>1, <3>2, <3>4
    <2> QED BY <2>1, <2>2
  <1>10. FollowsOrTold'
    <2> SUFFICES ASSUME NEW t \in OnBar, window[t] \in Window
                 PROVE  \/ life'[window[t]] = "open"
                        \/ life'[window[t]] = "closing" /\ Closed(t) \in ToSet(posted')
      BY <1>1 DEF FollowsOrTold
    <2>1. CASE window[t] = v
      BY <1>1, <1>5, <1>6, <2>1
    <2>2. CASE window[t] # v
      BY <1>1, <1>5, <1>6, <2>2 DEF Inv, TaskInv, FollowsOrTold
    <2> QED BY <2>1, <2>2
  <1>11. OneFollower' /\ NamedIsFollowed'
    BY <1>1 DEF Inv, TaskInv, OneFollower, NamedIsFollowed
  <1> QED BY <1>6, <1>7, <1>8, <1>9, <1>10, <1>11 DEF Inv, QueueInv, TaskInv, PostedOnce

LEMMA RunPostedInv ==
    ASSUME Inv, RunPosted
    PROVE  Inv'
  <1> USE TasksAssumption
  <1>1. /\ posted # <<>> /\ posted' = Tail(posted) /\ UNCHANGED settings
        /\ posted \in Seq(Event) /\ OnBar \subseteq Task
    BY OnBarIsTasks DEF RunPosted, Inv, TypeOK
  <1>2. /\ posted' \in Seq(Event) /\ IsInjective(posted')
        /\ ToSet(posted) = {Head(posted)} \cup ToSet(posted')
        /\ Head(posted) \notin ToSet(posted')
    BY <1>1, TailSet DEF Inv, QueueInv, PostedOnce
  <1>3. \A t \in Task, w \in Window : Before(posted, Closed(t), Delete(w)) =>
            /\ Before(posted', Closed(t), Delete(w))
            /\ Closed(t) \in ToSet(posted) => Head(posted) # Delete(w)
    BY <1>1, BeforeTail
  <1>4. ASSUME NEW r \in Task, Head(posted) = Closed(r), TaskClosed(r),
               UNCHANGED windowVars
        PROVE  Inv'
    <2>1. /\ r \in OnBar /\ window[r] \in Window /\ life[window[r]] = "closing"
      BY <1>2, <1>4 DEF Inv, QueueInv, ClosedIsTrue
    <2>2. UNCHANGED <<life, appId>>
      BY <1>4 DEF windowVars
    <2>3. /\ TypeOK' /\ HasId'
          /\ OnBar' = OnBar \/ OnBar' = OnBar \ {r}
          /\ \A t \in Task : window'[t] = IF t = r THEN NoWindow ELSE window[t]
      <3>1. CASE pinned[r]
        <4>1. /\ window' = [window EXCEPT ![r] = NoWindow]
              /\ UNCHANGED <<bar, id, pinned>>
          BY <1>4, <3>1 DEF TaskClosed
        <4>2. TypeOK' /\ HasId' /\ OnBar' = OnBar
          BY <1>1, <1>2, <2>2, <4>1 DEF Inv, TypeOK, OnBar, HasId
        <4>3. \A t \in Task : window'[t] = IF t = r THEN NoWindow ELSE window[t]
          BY <4>1 DEF Inv, TypeOK
        <4> QED BY <4>2, <4>3
      <3>2. CASE ~pinned[r]
        <4>1. RemoveTask(r)
          BY <1>4, <3>2 DEF TaskClosed
        <4> QED BY <1>1, <1>2, <2>2, <4>1, RemoveTaskEffect DEF Inv, TypeOK
      <3> QED BY <3>1, <3>2
    <2>4. DeletesClosing'
      <3>1. \A w \in Window : Delete(w) \in ToSet(posted') <=> Delete(w) \in ToSet(posted)
        BY <1>2, <1>4, EventsDiffer
      <3> QED BY <2>2, <3>1 DEF Inv, QueueInv, DeletesClosing
    <2>5. ClosedIsTrue'
      <3> SUFFICES ASSUME NEW t \in Task, Closed(t) \in ToSet(posted')
                   PROVE  /\ t \in OnBar' /\ window'[t] \in Window
                          /\ life'[window'[t]] = "closing"
                          /\ Before(posted', Closed(t), Delete(window'[t]))
        BY DEF ClosedIsTrue
      <3>1. t # r /\ Closed(t) \in ToSet(posted)
        BY <1>2, <1>4
      <3>2. t \in OnBar' /\ window'[t] = window[t]
        BY <2>3, <3>1 DEF Inv, QueueInv, ClosedIsTrue
      <3> QED BY <1>3, <2>2, <3>1, <3>2 DEF Inv, QueueInv, ClosedIsTrue
    <2>6. FollowsOrTold'
      <3> SUFFICES ASSUME NEW t \in OnBar', window'[t] \in Window
                   PROVE  \/ life'[window'[t]] = "open"
                          \/ life'[window'[t]] = "closing" /\ Closed(t) \in ToSet(posted')
        BY DEF FollowsOrTold
      <3>1. t \in OnBar /\ t \in Task /\ t # r /\ window'[t] = window[t]
        BY <1>1, <2>3
      <3>2. Closed(t) # Head(posted)
        BY <1>4, <3>1, EventsDiffer
      <3> QED BY <1>2, <2>2, <3>1, <3>2 DEF Inv, TaskInv, FollowsOrTold
    <2>7. OneFollower'
      BY <1>1, <2>3 DEF Inv, TaskInv, OneFollower
    <2>8. NamedIsFollowed'
      <3> SUFFICES ASSUME NEW w \in Window
                   PROVE  /\ life'[w] # "open" => appId'[w] = NoId
                          /\ life'[w] = "open" => (appId'[w] # NoId <=>
                                 \E t \in OnBar' : window'[t] = w)
        BY DEF NamedIsFollowed
      <3>1. CASE life[w] # "open"
        BY <2>2, <3>1 DEF Inv, TaskInv, NamedIsFollowed
      <3>2. CASE life[w] = "open"
        <4>1. (\E t \in OnBar' : window'[t] = w) <=> (\E t \in OnBar : window[t] = w)
          BY <1>1, <2>1, <2>3, <3>2
        <4> QED BY <2>2, <3>2, <4>1 DEF Inv, TaskInv, NamedIsFollowed
      <3> QED BY <3>1, <3>2
    <2> QED BY <1>2, <2>3, <2>4, <2>5, <2>6, <2>7, <2>8
            DEF Inv, QueueInv, TaskInv, PostedOnce
  <1>5. ASSUME NEW v \in Window, Head(posted) = Delete(v), WindowDeleted(v),
               UNCHANGED taskVars
        PROVE  Inv'
    <2>1. /\ UNCHANGED <<bar, id, window, pinned, appId>> /\ OnBar' = OnBar
          /\ life' \in [Window -> {"none", "open", "closing"}]
          /\ \A w \in Window : life'[w] = IF w = v THEN "none" ELSE life[w]
      BY <1>5 DEF WindowDeleted, taskVars, OnBar, Inv, TypeOK
    <2>2. life[v] = "closing"
      BY <1>2, <1>5 DEF Inv, QueueInv, DeletesClosing
    <2>3. TypeOK' /\ HasId'
      BY <1>1, <1>2, <2>1 DEF Inv, TypeOK, HasId
    <2>4. \A t \in Task : Closed(t) \in ToSet(posted) => window[t] # v
      BY <1>3, <1>5 DEF Inv, QueueInv, ClosedIsTrue
    <2>5. \A t \in OnBar : window[t] # v
      BY <1>1, <2>2, <2>4 DEF Inv, TaskInv, FollowsOrTold
    <2>6. DeletesClosing'
      <3>1. \A w \in Window : Delete(w) \in ToSet(posted') <=>
                                  w # v /\ Delete(w) \in ToSet(posted)
        BY <1>2, <1>5, EventsDiffer
      <3> QED BY <2>1, <3>1 DEF Inv, QueueInv, DeletesClosing
    <2>7. \A t \in Task : Closed(t) \in ToSet(posted') <=> Closed(t) \in ToSet(posted)
      BY <1>2, <1>5, EventsDiffer
    <2>8. ClosedIsTrue'
      BY <1>3, <2>1, <2>4, <2>7 DEF Inv, QueueInv, ClosedIsTrue
    <2>9. FollowsOrTold'
      BY <1>1, <2>1, <2>5, <2>7 DEF Inv, TaskInv, FollowsOrTold
    <2>10. OneFollower' /\ NamedIsFollowed'
      BY <2>1, <2>2 DEF Inv, TaskInv, OneFollower, NamedIsFollowed
    <2> QED BY <1>2, <2>3, <2>6, <2>8, <2>9, <2>10
            DEF Inv, QueueInv, TaskInv, PostedOnce
  <1> QED BY <1>4, <1>5 DEF RunPosted

LEMMA DroppedInv ==
    ASSUME Inv, NEW i \in File, Dropped(i)
    PROVE  Inv'
  <1>1. i \in Id /\ AddTask(i, NoWindow, TRUE) /\ UNCHANGED <<windowVars, posted>>
    BY DEF Dropped, Id
  <1>2. settings' \in Seq(Id) /\ IsInjective(settings')
    BY <1>1, PinTaskEffect DEF Dropped, Inv, TypeOK
  <1>3. /\ bar' \in Seq(Task) /\ IsInjective(bar')
        /\ id' \in [Task -> Id \cup {NoId}]
        /\ window' \in [Task -> Window \cup {NoWindow}]
        /\ pinned' \in [Task -> BOOLEAN]
        /\ NewTask \in Task \ OnBar
        /\ OnBar' = OnBar \cup {NewTask}
        /\ \A t \in Task : window'[t] = IF t = NewTask THEN NoWindow ELSE window[t]
        /\ HasId'
    BY <1>1, AddTaskEffect DEF Inv
  <1>4. TypeOK'
    BY <1>1, <1>2, <1>3 DEF Inv, TypeOK, windowVars
  <1>5. \A t \in Task, w \in Window :
            t \in OnBar /\ window[t] = w <=> t \in OnBar' /\ window'[t] = w
    BY <1>3, TasksAssumption
  <1>6. OnBar' \subseteq Task
    BY <1>3, OnBarIsTasks DEF Inv
  <1> QED BY <1>1, <1>3, <1>4, <1>5, <1>6, SameFollowers DEF Inv

(* Pinning a task, and unpinning one that stays. *)
LEMMA PinInv ==
    ASSUME Inv, NEW r \in Task, Pin(r)
    PROVE  Inv'
  <1>1. /\ UNCHANGED <<bar, id, window, windowVars, posted>> /\ OnBar' = OnBar
        /\ pinned' \in [Task -> BOOLEAN]
    BY DEF Pin, OnBar, Inv, TypeOK
  <1>2. settings' \in Seq(Id) /\ IsInjective(settings')
    <2>1. id[r] \in Id
      BY DEF Pin, Inv, HasId
    <2> QED BY <2>1, PinTaskEffect DEF Pin, Inv
  <1>3. TypeOK' /\ HasId'
    BY <1>1, <1>2 DEF Inv, TypeOK, windowVars, HasId
  <1>4. OnBar' \subseteq Task
    BY <1>1, OnBarIsTasks DEF Inv
  <1> QED BY <1>1, <1>3, <1>4, SameFollowers DEF Inv

LEMMA UnPinInv ==
    ASSUME Inv, NEW r \in Task, UnPin(r)
    PROVE  Inv'
  <1>1. UNCHANGED <<windowVars, posted>>
    BY DEF UnPin
  <1>2. CASE SetUnPinned(r) /\ settings' \in Seq(Id) /\ IsInjective(settings')
    <2>1. UNCHANGED <<bar, id, window>> /\ OnBar' = OnBar /\ pinned' \in [Task -> BOOLEAN]
      BY <1>2 DEF SetUnPinned, OnBar, Inv, TypeOK
    <2>2. TypeOK' /\ HasId'
      BY <1>1, <1>2, <2>1 DEF Inv, TypeOK, windowVars, HasId
    <2>3. OnBar' \subseteq Task
      BY <2>1, OnBarIsTasks DEF Inv
    <2> QED BY <1>1, <2>1, <2>2, <2>3, SameFollowers DEF Inv
  <1>3. CASE /\ window[r] = NoWindow /\ RemoveTask(r)
             /\ settings' \in Seq(Id) /\ IsInjective(settings')
    <2>1. /\ bar' \in Seq(Task) /\ IsInjective(bar')
          /\ id' \in [Task -> Id \cup {NoId}]
          /\ window' \in [Task -> Window \cup {NoWindow}]
          /\ pinned' \in [Task -> BOOLEAN]
          /\ OnBar' = OnBar \ {r}
          /\ \A t \in Task : window'[t] = IF t = r THEN NoWindow ELSE window[t]
          /\ HasId'
      BY <1>3, RemoveTaskEffect DEF Inv
    <2>2. TypeOK'
      BY <1>1, <1>3, <2>1 DEF Inv, TypeOK, windowVars
    <2>3. \A t \in Task, w \in Window :
              t \in OnBar /\ window[t] = w <=> t \in OnBar' /\ window'[t] = w
      BY <1>3, <2>1, TasksAssumption
    <2>4. OnBar' \subseteq Task
      BY <2>1, OnBarIsTasks DEF Inv
    <2> QED BY <1>1, <2>1, <2>2, <2>3, <2>4, SameFollowers DEF Inv
  <1>4. settings' \in Seq(Id) /\ IsInjective(settings')
    <2>1. settings' = settings \/ settings' = RemoveFirst(settings, id[r])
      BY DEF UnPin
    <2> QED BY <2>1, RemoveFirstSet DEF Inv, TypeOK
  <1> QED BY <1>2, <1>3, <1>4 DEF UnPin

LEMMA RestartInv ==
    ASSUME Inv, Restart
    PROVE  Inv'
  <1> USE TasksAssumption
  <1>1. PICK ids \in Restorable :
          /\ Len(ids) <= Cardinality(Task)
          /\ bar' = SubSeq(SetToSeq(Task), 1, Len(ids))
          /\ id' = [t \in Task |-> IF t \in ToSet(bar')
                                   THEN ids[CHOOSE k \in DOMAIN bar' : bar'[k] = t]
                                   ELSE NoId]
    BY DEF Restart
  <1>2. /\ window' = [t \in Task |-> NoWindow]
        /\ pinned' = [t \in Task |-> t \in ToSet(bar')]
        /\ life' = [w \in Window |-> "none"]
        /\ appId' = [w \in Window |-> NoId]
        /\ posted' = <<>> /\ UNCHANGED settings
    BY DEF Restart
  <1>3. ids \in Seq(Id) /\ Len(ids) \in Nat
    <2> DEFINE S == ToSet(settings) \cap Present
    <2>1. ToSet(settings) \subseteq Id /\ IsFiniteSet(ToSet(settings))
      BY ToSetOfSeq, ToSetFinite DEF Inv, TypeOK
    <2>2. IsFiniteSet(S) /\ S \subseteq Id
      BY <2>1, FS_Subset
    <2>3. ids \in SetToSeqs(S)
      BY DEF Restorable
    <2> HIDE DEF S
    <2>4. ids \in Seq(S)
      BY <2>2, <2>3, SetToSeqsOfSet
    <2> QED BY <2>2, <2>4, SeqMonotonic
  <1>4. bar' \in Seq(Task) /\ IsInjective(bar') /\ Len(bar') = Len(ids)
    <2>1. /\ SetToSeq(Task) \in Seq(Task) /\ IsInjective(SetToSeq(Task))
          /\ Len(SetToSeq(Task)) = Cardinality(Task)
      BY SetToSeqOfSet
    <2>2. Len(ids) \in 0 .. Len(SetToSeq(Task))
      BY <1>1, <1>3, <2>1
    <2> QED BY <1>1, <2>1, <2>2, PrefixSet
  <1>5. id' \in [Task -> Id \cup {NoId}] /\ HasId'
    <2> SUFFICES ASSUME NEW t \in Task, t \in ToSet(bar')
                 PROVE  ids[CHOOSE k \in DOMAIN bar' : bar'[k] = t] \in Id
      <3>1. ToSet(bar') \subseteq Task
        BY <1>4, ToSetOfSeq
      <3> QED BY <1>1, <3>1 DEF HasId, OnBar
    <2>1. \E k \in DOMAIN bar' : bar'[k] = t
      BY DEF ToSet
    <2>2. (CHOOSE k \in DOMAIN bar' : bar'[k] = t) \in DOMAIN bar'
      BY <2>1
    <2>3. DOMAIN bar' = 1 .. Len(ids)
      BY <1>4
    <2> QED BY <1>3, <2>2, <2>3, ElementOfSeq
  <1>6. TypeOK'
    <2>1. /\ window' \in [Task -> Window \cup {NoWindow}]
          /\ life' \in [Window -> {"none", "open", "closing"}]
          /\ appId' \in [Window -> AppId \cup {NoId}]
          /\ posted' \in Seq(Event)
      BY <1>2
    <2>2. pinned' \in [Task -> BOOLEAN]
      BY <1>2
    <2>3. settings' \in Seq(Id) /\ IsInjective(settings')
      BY <1>2 DEF Inv, TypeOK
    <2> QED BY <1>4, <1>5, <2>1, <2>2, <2>3 DEF TypeOK
  <1>7. ToSet(posted') = {} /\ IsInjective(posted')
    BY <1>2 DEF ToSet, IsInjective
  <1>8. QueueInv'
    BY <1>2, <1>7 DEF QueueInv, PostedOnce, DeletesClosing, ClosedIsTrue
  <1>9. OnBar' \subseteq Task
    BY <1>4, ToSetOfSeq DEF OnBar
  <1>10. TaskInv'
    BY <1>2, <1>9 DEF TaskInv, FollowsOrTold, OneFollower, NamedIsFollowed
  <1> QED BY <1>5, <1>6, <1>8, <1>10 DEF Inv

-----------------------------------------------------------------------------
LEMMA StepInv == Inv /\ [Next]_vars => Inv'
  <1> SUFFICES ASSUME Inv, [Next]_vars PROVE Inv'
    OBVIOUS
  <1>1. ASSUME NEW w \in Window, WindowCreated(w) PROVE Inv'
    BY <1>1, WindowCreatedInv
  <1>2. ASSUME NEW w \in Window, ShellSurfaceDestroyed(w) PROVE Inv'
    BY <1>2, ShellSurfaceDestroyedInv
  <1>3. ASSUME NEW w \in Window, NEW a \in AppId, AppIdAnnounced(w, a) PROVE Inv'
    BY <1>3, AppIdAnnouncedInv
  <1>4. ASSUME NEW w \in Window, NEW a \in AppId, AppIdChanged(w, a) PROVE Inv'
    BY <1>4, AppIdChangedInv
  <1>5. CASE RunPosted
    BY <1>5, RunPostedInv
  <1>6. ASSUME NEW i \in File, Dropped(i) PROVE Inv'
    BY <1>6, DroppedInv
  <1>7. ASSUME NEW t \in Task, Pin(t) PROVE Inv'
    BY <1>7, PinInv
  <1>8. ASSUME NEW t \in Task, UnPin(t) PROVE Inv'
    BY <1>8, UnPinInv
  <1>9. CASE Restart
    BY <1>9, RestartInv
  <1>10. CASE UNCHANGED vars
    BY <1>10 DEF vars, taskVars, windowVars, Inv, TypeOK, HasId, OnBar, QueueInv,
                 PostedOnce, DeletesClosing, ClosedIsTrue, TaskInv, FollowsOrTold,
                 OneFollower, NamedIsFollowed
  <1> QED BY <1>1, <1>2, <1>3, <1>4, <1>5, <1>6, <1>7, <1>8, <1>9, <1>10 DEF Next

LEMMA InvHolds == Spec => []Inv
  BY InitInv, StepInv, PTL DEF Spec

(* The variables keep their types: no task is twice on the bar and no id   *)
(* is stored twice (TasksModel::addTask, Task::pinTask).                   *)
THEOREM TasksTypeCorrect == Spec => []TypeOK
  <1>1. Inv => TypeOK
    BY DEF Inv
  <1> QED BY <1>1, InvHolds, PTL

(* An open window whose app id is known always has exactly one task        *)
(* (TasksModel::addTask and findTask, the closed() handler of Task).       *)
THEOREM AlwaysOneTaskPerWindow == Spec => []OneTaskPerWindow
  <1>1. Inv => OneTaskPerWindow
    BY DEF Inv, TaskInv, OneFollower, NamedIsFollowed, OneTaskPerWindow
  <1> QED BY <1>1, InvHolds, PTL

(* No task of the bar follows a window that was deleted: the closed() that *)
(* AbstractWindow emits reaches it before the deferred delete is run.      *)
THEOREM NeverADeletedWindow == Spec => []NoDeletedWindow
  <1>1. Inv => NoDeletedWindow
    <2> SUFFICES ASSUME Inv, NEW t \in OnBar, window[t] # NoWindow
                 PROVE  life[window[t]] # "none"
      BY DEF NoDeletedWindow
    <2>1. window[t] \in Window
      BY OnBarIsTasks DEF Inv, TypeOK
    <2> QED BY <2>1 DEF Inv, TaskInv, FollowsOrTold
  <1> QED BY <1>1, InvHolds, PTL
=============================================================================
