-------------------------------- MODULE Focus --------------------------------
(***************************************************************************)
(* Which window is active.  Three places say so: the keyboard focus of the *)
(* scene (Chrome.qml), the Activated state each client has acknowledged    *)
(* (XdgWindow over QWaylandXdgToplevel), and m_activeWindow of the         *)
(* SurfacesModel of all windows, which the window switcher starts from.    *)
(* Configures reach a client in order; it may acknowledge any of them and  *)
(* by that skips the ones before.  sendMaximized and sendResizing repeat   *)
(* the Activated of the configure before and are left out; the             *)
(* currentWindow that CaskScreen.qml:294 activates is defined nowhere.     *)
(*                                                                         *)
(* A Window is the address of an XdgWindow, which a later one may get      *)
(* again.  One workspace; windows that move between workspaces are those   *)
(* of Zpaces.                                                              *)
(***************************************************************************)
EXTENDS Naturals, SequencesExt

CONSTANTS Window,        \* addresses of windows
          MaxEvents      \* bound: what the user and the clients do

Nobody == "nobody"    \* nullptr

ASSUME FocusAssumption == Window # {} /\ Nobody \notin Window /\ MaxEvents \in Nat

VARIABLES
    windows,        \* m_windows of the SurfacesModel
    stack,          \* the chromes of the workspace, the top one last
    focus,          \* whose surfaceItem has the active focus
    hidden,         \* windows whose chrome is not visible
    acked,          \* windows whose last acknowledged states say Activated
    isActive,       \* windows whose m_isActive is true
    aside,          \* history: activated beside setIsActive and the focus
    astray,         \* history: some window was, or was told to step back and,
                    \* beside activate(), to be active
    configures,     \* by window: configures sent, TRUE with Activated
    activeWindow,   \* m_activeWindow: maybe the address of a deleted window
    events

focusVars == <<windows, stack, focus, hidden, acked, isActive, aside, astray,
               configures, activeWindow, events>>

FocusTypeOK ==
    /\ IsInjective(windows) /\ IsInjective(stack)
    /\ Range(windows) \subseteq Window /\ Range(stack) = Range(windows)
    /\ focus \in Range(windows) \cup {Nobody}
    /\ hidden \subseteq Range(windows) /\ acked \subseteq Range(windows)
    /\ isActive \subseteq Range(windows) /\ aside \subseteq acked
    /\ astray \in BOOLEAN
    /\ \A w \in Window : Range(configures[w]) \subseteq BOOLEAN
    /\ activeWindow \in Window \cup {Nobody}
    /\ events \in 0 .. MaxEvents

FocusInit ==
    /\ windows = <<>> /\ stack = <<>>
    /\ focus = Nobody
    /\ hidden = {} /\ acked = {} /\ isActive = {} /\ aside = {} /\ astray = FALSE
    /\ configures = [w \in Window |-> <<>>]
    /\ activeWindow = Nobody
    /\ events = 0

-----------------------------------------------------------------------------
(* The handlers work on a scene: what they have changed so far.            *)
Scene == [stack |-> stack, focus |-> focus, acked |-> acked,
          configures |-> configures]

Becomes(scene) ==
    /\ stack' = scene.stack
    /\ focus' = scene.focus
    /\ acked' = scene.acked
    /\ configures' = scene.configures

\* XdgWindow::activate and deactivate: both start from what was acknowledged.
Activate(scene, w) ==
    IF w \in scene.acked THEN scene
    ELSE [scene EXCEPT !.configures[w] = Append(@, TRUE)]

Deactivate(scene, w) == [scene EXCEPT !.configures[w] = Append(@, FALSE)]

\* Mutant: the client is not told.
LoseQuietly(scene) == [scene EXCEPT !.focus = Nobody]

\* surfaceItem.onActiveFocusChanged of the item that had the focus.
LoseFocus(scene) ==
    IF scene.focus = Nobody THEN scene
    ELSE Deactivate([scene EXCEPT !.focus = Nobody], scene.focus)

\* QQuickItem::forceActiveFocus, and onActiveFocusChanged of both items.
ForceActiveFocus(scene, w) ==
    IF scene.focus = w THEN scene
    ELSE Activate([LoseFocus(scene) EXCEPT
                      !.focus = w,
                      !.stack = Append(RemoveFirst(@, w), w)], w)

\* onUnsetMinimized
ShowAgain(scene, w) == Activate(ForceActiveFocus(scene, w), w)

\* focusTopWindow(1); with one window there is nothing to activate.
FocusSecond(scene) ==
    IF Len(scene.stack) < 2 THEN scene
    ELSE Activate(scene, scene.stack[Len(scene.stack) - 1])

\* onItemRemoved of the Repeater, when the chrome that goes is still among
\* the others but has no window any more.
FocusSecondOf(scene, w) ==
    IF Len(scene.stack) > 1 /\ scene.stack[Len(scene.stack) - 1] = w THEN scene
    ELSE FocusSecond(scene)

Event == events < MaxEvents /\ events' = events + 1

-----------------------------------------------------------------------------
(* handleShellSurfaceCreated: the window joins the model, its chrome takes *)
(* the focus when complete, and the window is activated once more.         *)
(* m_isActive of an AbstractWindow is not initialized.                     *)
Created(w) ==
    /\ Event
    /\ w \notin Range(windows)
    /\ windows' = Append(windows, w)
    /\ Becomes(Activate(ForceActiveFocus([Scene EXCEPT !.stack = Append(@, w)], w),
                        w))
    /\ isActive' \in {isActive, isActive \cup {w}}
    /\ UNCHANGED <<hidden, aside, astray, activeWindow>>

\* A click into the surface.
Clicked(w) ==
    /\ Event
    /\ w \in Range(windows) \ hidden
    /\ Becomes(ForceActiveFocus(Scene, w))
    /\ UNCHANGED <<windows, hidden, isActive, aside, astray, activeWindow>>

\* A tap on the title bar.
TitleTapped(w) ==
    /\ Event
    /\ w \in Range(windows) \ hidden
    /\ Becomes(Activate(Scene, w))
    /\ UNCHANGED <<windows, hidden, isActive, aside, astray, activeWindow>>

\* The focus goes to an item of the shell.
FocusTaken ==
    /\ Event
    /\ focus # Nobody
    /\ Becomes(LoseFocus(Scene))
    /\ UNCHANGED <<windows, hidden, isActive, aside, astray, activeWindow>>

\* onSetMinimized.  An item keeps the focus when it is not visible any more.
Minimized(w) ==
    /\ Event
    /\ w \in Range(windows)
    /\ hidden' = hidden \cup {w}
    /\ Becomes(FocusSecond(Deactivate(Scene, w)))
    /\ UNCHANGED <<windows, isActive, aside, astray, activeWindow>>

\* AbstractWindow::unminimize, from the task bar.
Unminimized(w) ==
    /\ Event
    /\ w \in Range(windows)
    /\ hidden' = hidden \ {w}
    /\ Becomes(ShowAgain(Scene, w))
    /\ UNCHANGED <<windows, isActive, aside, astray, activeWindow>>

(***************************************************************************)
(* activateNextWindow: nothing happens when m_activeWindow is the address  *)
(* of no window of the model.                                              *)
(***************************************************************************)
IndexOf(w) == CHOOSE i \in DOMAIN windows : windows[i] = w

NextWindow ==
    IF activeWindow = Nobody \/ IndexOf(activeWindow) = Len(windows)
    THEN windows[1] ELSE windows[IndexOf(activeWindow) + 1]

ActivateNextWindow ==
    /\ Event
    /\ windows # <<>>
    /\ activeWindow \in Range(windows) \cup {Nobody}
    /\ hidden' = hidden \ {NextWindow}
    /\ Becomes(ShowAgain(Scene, NextWindow))
    /\ UNCHANGED <<windows, isActive, aside, astray, activeWindow>>

(***************************************************************************)
(* onFormFactorChanged, to Desktop: every chrome sends Activated, and does *)
(* not look at what the client has acknowledged, as activate() does.  Who  *)
(* was told to step back may then stay active.                             *)
(***************************************************************************)
SteppingBack == {w \in acked : configures[w] # <<>> /\ ~Last(configures[w])}

FormFactorChanged ==
    /\ Event
    /\ configures' = [w \in Window |-> IF w \in Range(windows)
                                      THEN Append(configures[w], TRUE)
                                      ELSE configures[w]]
    /\ aside' = aside \cup (SteppingBack \ {focus})
    /\ astray' = (astray \/ SteppingBack # {})
    /\ UNCHANGED <<windows, stack, focus, hidden, acked, isActive, activeWindow>>

\* The end of a pinch sends the one state it names, and Activated is not it.
Pinched(w) ==
    /\ Event
    /\ w \in Range(windows) \ hidden
    /\ Becomes(Deactivate(Scene, w))
    /\ UNCHANGED <<windows, hidden, isActive, aside, astray, activeWindow>>

\* The client destroys its surface: the window and its chrome go with it, and
\* SurfacesModel::removeWindow leaves m_activeWindow alone.
Destroyed(w) ==
    /\ Event
    /\ w \in Range(windows)
    /\ windows' = RemoveFirst(windows, w)
    /\ Becomes([FocusSecondOf(Scene, w) EXCEPT
                    !.stack = RemoveFirst(@, w),
                    !.focus = IF @ = w THEN Nobody ELSE @,
                    !.acked = @ \ {w},
                    !.configures[w] = <<>>])
    /\ hidden' = hidden \ {w}
    /\ isActive' = isActive \ {w}
    /\ aside' = aside \ {w}
    /\ UNCHANGED <<astray, activeWindow>>

\* Mutant: the value of the signal is not looked at.
SetActiveAnyway(w, activated) == w

\* SurfacesModel's slot for activatedChanged.
SetActive(w, activated) == IF activated THEN w ELSE activeWindow

(***************************************************************************)
(* The client acknowledges its k-th configure.  A change of Activated goes *)
(* through AbstractWindow::setIsActive, which drops what m_isActive says   *)
(* already; its signal reaches the models first and then the chrome, which *)
(* takes the focus, visible or not.                                        *)
(***************************************************************************)
With(w, flag, set) == IF flag THEN set \cup {w} ELSE set \ {w}

Acknowledged(w, k) ==
    LET activated == configures[w][k]
        scene == [Scene EXCEPT !.configures[w] = SubSeq(@, k + 1, Len(@)),
                               !.acked = With(w, activated, @)]
        signal == activated # (w \in acked) /\ activated # (w \in isActive)
    IN  /\ Becomes(IF signal /\ activated THEN ForceActiveFocus(scene, w) ELSE scene)
        /\ activeWindow' = IF signal THEN SetActive(w, activated) ELSE activeWindow
        /\ isActive' = IF signal THEN With(w, activated, isActive) ELSE isActive
        /\ aside' = With(w, activated /\ IF w \in acked THEN w \in aside ELSE ~signal,
                         aside)
        /\ astray' = (astray \/ aside' # {})
        /\ UNCHANGED <<windows, hidden, events>>

FocusNext ==
    \/ \E w \in Window :
          \/ Created(w) \/ Clicked(w) \/ TitleTapped(w) \/ Minimized(w)
          \/ Unminimized(w) \/ Pinched(w) \/ Destroyed(w)
          \/ \E k \in DOMAIN configures[w] : Acknowledged(w, k)
    \/ FocusTaken
    \/ ActivateNextWindow
    \/ FormFactorChanged

FocusSpec == FocusInit /\ [][FocusNext]_focusVars

-----------------------------------------------------------------------------
Settled == \A w \in Window : configures[w] = <<>>

(***************************************************************************)
(* When the clients have acknowledged everything, a window that shows      *)
(* itself as active is the one that gets the keys, so that there is at     *)
(* most one, however the focus moved while acknowledgements were on their  *)
(* way: Chrome.qml hands the focus to whoever acknowledges late, and tells *)
(* the other to step back.  Two flaws of the code put windows beside the   *)
(* promise, until they acknowledge a configure without Activated: one      *)
(* whose m_isActive, which nothing initializes, is true from the start;    *)
(* and one that has lost the focus but not acknowledged it when a change   *)
(* of the form factor activates all windows.  The converse does not hold:  *)
(* activate() compares with the acknowledged states, so that the window    *)
(* with the focus may end up inactive.                                     *)
(***************************************************************************)
ActivatedHasFocus == Settled => \A w \in acked \ aside : focus = w

(***************************************************************************)
(* The window switcher starts from the active window: once all is          *)
(* acknowledged, m_activeWindow is the window that shows itself as active  *)
(* if any does, though the pointer is left alone when its window is        *)
(* deleted and the address may be used again.  It ends with the first      *)
(* window that the flaws named above have put aside.                       *)
(***************************************************************************)
SwitcherFollowsFocus ==
    Settled /\ ~astray => \A w \in acked : activeWindow = w
==============================================================================
