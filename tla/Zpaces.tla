------------------------------- MODULE Zpaces -------------------------------
(***************************************************************************)
(* The workspaces of the shell: the list of Zpaces, the surface models     *)
(* that hold the windows, the window objects themselves and the index of   *)
(* the workspace on screen.                                                *)
(*                                                                         *)
(* One SurfacesModel exists per Zpace and one more, m_allSurfaces, holds   *)
(* every window of the screen.  A window is a QObject: its shell surface   *)
(* goes away first, the object is deleted by a later turn of the event     *)
(* loop, and its destroyed() signal takes it out of the models it is still *)
(* connected to.                                                           *)
(***************************************************************************)
EXTENDS Integers, SequencesExt

CONSTANTS Window,       \* XdgWindow objects (an address is used again once freed)
          Zpace,        \* Zpace objects alive at the same time: the bound on the list
          AllSurfaces,  \* the SurfacesModel m_allSurfaces
          Widths        \* widths of the output geometry, in pixels

ASSUME ZpacesAssumption ==
    /\ Zpace # {} /\ AllSurfaces \notin Zpace
    /\ Widths \subseteq Nat

Model == Zpace \cup {AllSurfaces}

VARIABLES zmode,         \* Zpaces::m_zmode
          configured,    \* the output has announced a geometry
          zpaces,        \* ZpacesModel::m_zpacesList
          limit,         \* Zpace::m_limit
          windows,       \* SurfacesModel::m_windows of every model
          linked,        \* windows whose destroyed() reaches the model
          wstate,        \* life of a window object
          currentIndex,  \* WorkZpace.currentIndex, counted from 0
          nextIndex,     \* the index the view takes when it is next laid out
          isTouch,       \* Maui.Handy.isTouch: the switcher is on screen
          overview,      \* WorkZpace.overviewMode
          crashed        \* the compositor dereferenced a null Zpace

modelVars == <<zmode, configured, zpaces, limit, windows, linked, wstate>>
viewVars  == <<currentIndex, nextIndex>>
vars      == <<modelVars, viewVars, isTouch, overview, crashed>>

ZMode == {"TVMode", "DesktopMode", "TabletMode", "PhoneMode"}

TypeOK ==
    /\ zmode \in ZMode
    /\ configured \in BOOLEAN
    /\ zpaces \in Seq(Zpace)
    /\ limit \in [Zpace -> {1, 2, 20}]
    /\ windows \in [Model -> Seq(Window)]
    /\ linked \in [Model -> SUBSET Window]
    /\ wstate \in [Window -> {"none", "open", "closing"}]
    /\ currentIndex \in Nat \cup {-1}
    /\ nextIndex \in Nat \cup {-1}
    /\ isTouch \in BOOLEAN
    /\ overview \in BOOLEAN
    /\ crashed \in BOOLEAN

-----------------------------------------------------------------------------
(* Mutant: the tablet takes one window more. *)
ModeLimitOff(mode) == CASE mode = "DesktopMode" -> 20
                        [] mode = "TabletMode"  -> 3
                        [] OTHER                -> 1

(* Zpace::setConstrains: how many windows a workspace takes in a mode.     *)
ModeLimit(mode) == CASE mode = "DesktopMode" -> 20
                     [] mode = "TabletMode"  -> 2
                     [] OTHER                -> 1

(* The mode an output width stands for. *)
ModeOf(width) == CASE width > 1500 -> "DesktopMode"
                   [] width > 500  -> "TabletMode"
                   [] OTHER        -> "PhoneMode"

Listed == ToSet(zpaces)

ZpaceAt(i) == zpaces[i + 1]                \* the source counts from 0

AcceptsWindow(z) == Len(windows[z]) < limit[z]

(* The indices from the given one on at which addWindow finds room.        *)
Accepting(from) == { i \in from .. Len(zpaces) - 1 : AcceptsWindow(ZpaceAt(i)) }

(* A Zpace that is neither listed nor keeps a window is free memory here   *)
(* (a removed one is leaked, but nothing refers to it any more), and so is *)
(* a window object that does not exist; which one is taken is no matter.   *)
Unused    == { z \in Zpace \ Listed : windows[z] = <<>> }
NewZpace  == CHOOSE z \in Unused : TRUE
NewWindow == CHOOSE w \in Window : wstate[w] = "none"

FirstOf(S) == CHOOSE i \in S : \A j \in S : i <= j

PositionOf(s, e) == CHOOSE i \in 1 .. Len(s) : s[i] = e

(* SurfacesModel::removeWindow(indexOf(w)): nothing when w is not there.   *)
Without(s, w) == IF w \in ToSet(s) THEN RemoveAt(s, PositionOf(s, w)) ELSE s

(* Zpaces::indexOfZpace *)
IndexOfZpace(w) ==
    LET at == { i \in 0 .. Len(zpaces) - 1 : w \in ToSet(windows[ZpaceAt(i)]) }
    IN  IF at = {} THEN -1 ELSE FirstOf(at)

(* The ListView takes an index at once, after the changes it had pending.  *)
SetCurrentIndex(i) ==
    /\ currentIndex' = i
    /\ nextIndex' = i

(* What the ListView will make of its index after row r of n rows is gone. *)
IndexAfterRemoval(i, r, n) ==
    CASE i > r  -> i - 1
      [] i = r  -> IF r <= n - 2 THEN r ELSE n - 2
      [] OTHER  -> i

-----------------------------------------------------------------------------
(* Zpaces::Zpaces.  The list gets its first Zpace while m_zmode is still   *)
(* uninitialized: that Zpace keeps the limit of whatever mode was read, or *)
(* the default 20 when it was none.                                        *)
Init ==
    /\ zmode = "DesktopMode"
    /\ configured = FALSE
    /\ zpaces = <<CHOOSE z \in Zpace : TRUE>>
    /\ \E n \in {1, 2, 20} :
          limit = [z \in Zpace |-> IF z = zpaces[1] THEN n ELSE 20]
    /\ windows = [m \in Model |-> <<>>]
    /\ linked = [m \in Model |-> {}]
    /\ wstate = [w \in Window |-> "none"]
    /\ currentIndex = 0
    /\ nextIndex = 0
    /\ isTouch \in BOOLEAN
    /\ overview = FALSE
    /\ crashed = FALSE

(* Mutants: the Zpace's model is not connected to the window, neither is   *)
(* m_allSurfaces; the Zpace puts new windows first.                        *)
AddUnconnected(w, z) ==
    /\ windows' = [windows EXCEPT ![AllSurfaces] = Append(@, w),
                                  ![z] = Append(@, w)]
    /\ linked' = [linked EXCEPT ![AllSurfaces] = @ \cup {w}]

AddNowhereConnected(w, z) ==
    /\ windows' = [windows EXCEPT ![AllSurfaces] = Append(@, w),
                                  ![z] = Append(@, w)]
    /\ UNCHANGED linked

AddFirst(w, z) ==
    /\ windows' = [windows EXCEPT ![AllSurfaces] = Append(@, w),
                                  ![z] = <<w>> \o @]
    /\ linked' = [linked EXCEPT ![AllSurfaces] = @ \cup {w},
                                ![z] = @ \cup {w}]

(* SurfacesModel::addWindow on m_allSurfaces and on the Zpace z. *)
AddToModels(w, z) ==
    /\ windows' = [windows EXCEPT ![AllSurfaces] = Append(@, w),
                                  ![z] = Append(@, w)]
    /\ linked' = [linked EXCEPT ![AllSurfaces] = @ \cup {w},
                                ![z] = @ \cup {w}]

(* Mutant: the index returned is the one the search began at. *)
AddReturnsFrom(w) ==
    /\ currentIndex >= 0
    /\ \E i \in Accepting(currentIndex) :
          /\ \A j \in Accepting(currentIndex) : i <= j
          /\ AddToModels(w, ZpaceAt(i))
    /\ SetCurrentIndex(currentIndex)
    /\ UNCHANGED <<zpaces, limit, crashed>>

(* handleShellSurfaceCreated: Zpaces::addWindow from the index on screen.  *)
AddToListed(w) ==
    /\ currentIndex >= 0
    /\ \E i \in Accepting(currentIndex) :
          /\ \A j \in Accepting(currentIndex) : i <= j
          /\ AddToModels(w, ZpaceAt(i))
          /\ SetCurrentIndex(i)
    /\ UNCHANGED <<zpaces, limit, crashed>>

(* Mutant: the constructor of Zpace does not call setConstrains. *)
AddToUnconstrained(w) ==
    /\ currentIndex >= 0
    /\ Accepting(currentIndex) = {}
    /\ Unused # {}
    /\ zpaces' = Append(zpaces, NewZpace)
    /\ limit' = [limit EXCEPT ![NewZpace] = 20]
    /\ AddToModels(w, NewZpace)
    /\ SetCurrentIndex(Len(zpaces))
    /\ UNCHANGED crashed

AddToNew(w) ==
    /\ currentIndex >= 0
    /\ Accepting(currentIndex) = {}
    /\ Unused # {}
    /\ zpaces' = Append(zpaces, NewZpace)
    /\ limit' = [limit EXCEPT ![NewZpace] = ModeLimit(zmode)]
    /\ AddToModels(w, NewZpace)
    /\ SetCurrentIndex(Len(zpaces))
    /\ UNCHANGED crashed

(* zpace(-1) is a null pointer and addWindow calls acceptsWindow on it.    *)
AddToNull(w) ==
    /\ currentIndex < 0
    /\ windows' = [windows EXCEPT ![AllSurfaces] = Append(@, w)]
    /\ linked' = [linked EXCEPT ![AllSurfaces] = @ \cup {w}]
    /\ crashed' = TRUE
    /\ UNCHANGED <<zpaces, limit, viewVars>>

ToplevelCreated(w) ==
    /\ wstate[w] = "none" /\ w = NewWindow
    /\ wstate' = [wstate EXCEPT ![w] = "open"]
    /\ AddToListed(w) \/ AddToNew(w) \/ AddToNull(w)
    /\ UNCHANGED <<zmode, configured, overview>>

(* The client destroys the shell surface or dies: closed(), deleteLater(). *)
ShellSurfaceDestroyed(w) ==
    /\ wstate[w] = "open"
    /\ wstate' = [wstate EXCEPT ![w] = "closing"]
    /\ UNCHANGED <<zmode, configured, zpaces, limit, windows, linked,
                   viewVars, overview, crashed>>

(* Mutant: closed() is emitted for the only Zpace too. *)
CloseAnyEmpty(z) ==
    IF windows'[z] = <<>> /\ z \in Listed
    THEN LET r == PositionOf(zpaces, z)
         IN  /\ zpaces' = RemoveAt(zpaces, r)
             /\ nextIndex' = IndexAfterRemoval(nextIndex, r - 1, Len(zpaces))
    ELSE UNCHANGED <<zpaces, nextIndex>>

(* Zpace's countChanged handler, closed() and ZpacesModel::removeZpace:    *)
(* the emptied Zpace z leaves the list unless it is the only one.          *)
CloseIfEmpty(z) ==
    IF windows'[z] = <<>> /\ z \in Listed /\ Len(zpaces) > 1
    THEN LET r == PositionOf(zpaces, z)
         IN  /\ zpaces' = RemoveAt(zpaces, r)
             /\ nextIndex' = IndexAfterRemoval(nextIndex, r - 1, Len(zpaces))
    ELSE UNCHANGED <<zpaces, nextIndex>>

(* The deferred delete: destroyed() reaches every model linked to w.       *)
DeleteWindow(w) ==
    /\ wstate[w] = "closing"
    /\ wstate' = [wstate EXCEPT ![w] = "none"]
    /\ windows' = [m \in Model |-> IF w \in linked[m] THEN Without(windows[m], w)
                                                      ELSE windows[m]]
    /\ linked' = [m \in Model |-> linked[m] \ {w}]
    /\ LET emptied == { z \in Zpace : windows[z] # <<>> /\ windows'[z] = <<>> }
       IN  IF emptied = {}
           THEN UNCHANGED <<zpaces, nextIndex>>
           ELSE \E z \in emptied : CloseIfEmpty(z)
    /\ UNCHANGED <<zmode, configured, limit, currentIndex, overview, crashed>>

(* Zpaces::setZpacesMode on geometryChanged; every Zpace is connected.     *)
GeometryChanged(width) ==
    /\ zmode' = ModeOf(width)
    /\ configured' = TRUE
    /\ limit' = [z \in Zpace |-> ModeLimit(zmode')]
    /\ UNCHANGED <<zpaces, windows, linked, wstate, viewVars, overview, crashed>>

(* The list-add button of the task bar, shown in the overview.             *)
InsertZpace ==
    /\ overview
    /\ Unused # {}
    /\ zpaces' = <<NewZpace>> \o zpaces
    /\ limit' = [limit EXCEPT ![NewZpace] = ModeLimit(zmode)]
    /\ SetCurrentIndex(0)
    /\ UNCHANGED <<zmode, configured, windows, linked, wstate, overview, crashed>>

(* The switcher is let go: far up it opens the overview, otherwise it      *)
(* shows the workspace under the view: indexAt gives -1 between two and    *)
(* outside, and the index of one just removed until the view is polished.  *)
SwitcherReleased ==
    /\ isTouch
    /\ \/ /\ overview' = TRUE
          /\ UNCHANGED viewVars
       \/ /\ overview' = FALSE
          /\ \E i \in (-1 .. Len(zpaces) - 1) \cup {currentIndex} : SetCurrentIndex(i)
    /\ UNCHANGED <<modelVars, crashed>>

(* A workspace is tapped in the overview. *)
ZpaceTapped(i) ==
    /\ overview
    /\ UNCHANGED <<modelVars, crashed>>
    /\ SetCurrentIndex(i)
    /\ overview' = FALSE

(* A window is picked from the task bar or from the apps overview.         *)
WindowPicked(w) ==
    /\ w \in ToSet(windows[AllSurfaces])
    /\ UNCHANGED <<modelVars, overview, crashed>>
    /\ SetCurrentIndex(IndexOfZpace(w))

(* The ListView lays itself out and applies the removals it had pending.   *)
ViewPolished ==
    /\ currentIndex # nextIndex
    /\ currentIndex' = nextIndex
    /\ UNCHANGED <<modelVars, nextIndex, overview, crashed>>

Next ==
    /\ ~crashed
    /\ UNCHANGED isTouch
    /\ \/ \E w \in Window : \/ ToplevelCreated(w)
                            \/ ShellSurfaceDestroyed(w)
                            \/ DeleteWindow(w)
                            \/ WindowPicked(w)
       \/ \E width \in Widths : GeometryChanged(width)
       \/ InsertZpace
       \/ SwitcherReleased
       \/ \E i \in 0 .. Len(zpaces) - 1 : ZpaceTapped(i)
       \/ ViewPolished

Spec == Init /\ [][Next]_vars

(* Qt's event loop delivers posted deletes and polishes a dirty item.      *)
Fairness ==
    /\ \A w \in Window : WF_vars(~crashed /\ DeleteWindow(w) /\ UNCHANGED isTouch)
    /\ WF_vars(~crashed /\ ViewPolished /\ UNCHANGED isTouch)

FairSpec == Spec /\ Fairness

-----------------------------------------------------------------------------
NoDuplicates ==
    /\ IsInjective(zpaces)
    /\ \A m \in Model : IsInjective(windows[m])

AllSurfacesHoldsAll ==
    ToSet(windows[AllSurfaces]) = { w \in Window : wstate[w] # "none" }

OnlyListedHold ==
    \A z \in Zpace : ToSet(windows[z]) \subseteq
                          IF z \in Listed THEN ToSet(windows[AllSurfaces]) ELSE {}

EachIsHeld ==
    ~crashed => \A w \in ToSet(windows[AllSurfaces]) :
                   \E z \in Listed : w \in ToSet(windows[z])

HeldOnce ==
    \A y, z \in Zpace : y # z => ToSet(windows[y]) \cap ToSet(windows[z]) = {}

(* Every window of the screen is in exactly one workspace of the list, and *)
(* the workspaces hold nothing else: m_allSurfaces and the models of the   *)
(* Zpaces, filled and emptied by independent signal handlers, agree.       *)
Placement ==
    NoDuplicates /\ AllSurfacesHoldsAll /\ OnlyListedHold /\ EachIsHeld /\ HeldOnce

(* What zpaces.h says of addWindow: a fitting workspace is found for every *)
(* window, an existing one or a new one.                                   *)
EveryWindowPlaced ==
    \A w \in Window : wstate[w] # "none" =>
        \E z \in Listed : w \in ToSet(windows[z])

(* Two windows of a workspace stand in its model in the order they have in *)
(* m_allSurfaces, the order in which activateNextWindow walks them.        *)
OrdersAgree ==
    \A z \in Listed : \A i, j \in 1 .. Len(windows[z]) :
        i < j => PositionOf(windows[AllSurfaces], windows[z][i])
                   < PositionOf(windows[AllSurfaces], windows[z][j])

(* Once the output has announced its geometry every workspace on the list, *)
(* the one built before m_zmode was initialized too, has the limit of the  *)
(* current mode.                                                           *)
LimitsFollowMode == configured => \A z \in Listed : limit[z] = ModeLimit(zmode)

(* Without a touch screen the index handed to addWindow is never negative, *)
(* whatever windows close before the view is laid out again: addWindow     *)
(* dereferences zpace(fromIndex) unchecked.  With one, the view may show   *)
(* no workspace, but only the switcher brings that about.                  *)
NullZpaceNeedsTouch ==
    /\ crashed => isTouch
    /\ ~isTouch => currentIndex >= 0 /\ nextIndex \in 0 .. Len(zpaces) - 1

(* The room of a window: the workspace of the list that holds it.          *)
Nowhere == AllSurfaces
Home == [w \in Window |->
            IF \E z \in Listed : w \in ToSet(windows[z])
            THEN CHOOSE z \in Listed : w \in ToSet(windows[z]) ELSE Nowhere]

Homes == INSTANCE WindowHomes
    WITH Capacities <- {1, 2, 20}, rooms <- Listed, home <- Home,
         life <- wstate, capacity <- limit, down <- crashed

(* Lists, indices, signal handlers and deferred deletes implement the      *)
(* promise: a window is never moved, opens where there is a place, and its *)
(* workspace goes with its last window and with no other event.            *)
WindowsKeepTheirHome == Homes!Spec

(* A new window is on screen: the index addWindow returns, and the view    *)
(* takes, is that of the workspace the window was put in, also when the    *)
(* workspace was created for it and when the view was out of date.         *)
NewWindowShown ==
    [][\A w \in Window :
          wstate[w] = "none" /\ wstate'[w] = "open" /\ ~crashed' =>
              /\ currentIndex' \in 0 .. Len(zpaces') - 1
              /\ w \in ToSet(windows'[zpaces'[currentIndex' + 1]])]_vars

(* Without a touch screen the view never stays on an index no workspace    *)
(* has, however the removals it has pending interleave with what the user  *)
(* picks: the next layout puts it on the list again.                       *)
ViewCatchesUp == isTouch \/ []<>(currentIndex \in 0 .. Len(zpaces) - 1)

(* A window whose shell surface is gone leaves every model in the end,     *)
(* unless the compositor itself goes down before.                          *)
ClosedWindowsLeave ==
    \A w \in Window :
        wstate[w] = "closing" ~>
            crashed \/ \A m \in Model : w \notin ToSet(windows[m])
=============================================================================
