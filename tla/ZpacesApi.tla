----------------------------- MODULE ZpacesApi -----------------------------
(***************************************************************************)
(* The workspaces together with the calls that their interface offers and  *)
(* the shell's own QML does not make: moving a window to another           *)
(* workspace, moving a workspace and removing one.  popWindow disconnects  *)
(* the window from everything, the models that still hold it included, so  *)
(* that no deferred delete of it reaches them any more.                    *)
(***************************************************************************)
EXTENDS Zpaces

CONSTANTS MaxCalls   \* bound on the calls made through the interface

ASSUME MaxCallsAssumption == MaxCalls \in Nat

VARIABLES calls,     \* calls made so far
          lastMove   \* moveWindow's arguments and result, in the state it returns to

apiVars == <<vars, calls, lastMove>>

NoMove == [window |-> "none", from |-> "none", to |-> "none", index |-> -1]

(* ZpacesModel::indexOf *)
IndexOf(s, z) == IF z \in ToSet(s) THEN PositionOf(s, z) - 1 ELSE -1

ApiInit == Init /\ calls = 0 /\ lastMove = NoMove

(* Mutant: the target is full again by the time it is asked to add. *)
PopAndLose(w, from, to) ==
    /\ windows' = [windows EXCEPT ![from] = Without(@, w)]
    /\ linked' = [m \in Model |-> linked[m] \ {w}]
    /\ UNCHANGED <<zpaces, nextIndex>>

(* SurfacesModel::popWindow: the window goes from the model, an emptied    *)
(* Zpace from the list, and window->disconnect() cuts every connection.    *)
(* Zpace::addWindow of the target then connects it to that model alone.    *)
PopAndAdd(w, from, to) ==
    LET popped  == [windows EXCEPT ![from] = Without(@, w)]
        leaving == popped[from] = <<>> /\ Len(zpaces) > 1
        r       == PositionOf(zpaces, from)
    IN  /\ windows' = [popped EXCEPT ![to] = Append(@, w)]
        /\ linked' = [m \in Model |-> IF m = to THEN linked[m] \cup {w}
                                                ELSE linked[m] \ {w}]
        /\ IF leaving
           THEN /\ zpaces' = RemoveAt(zpaces, r)
                /\ nextIndex' = IndexAfterRemoval(nextIndex, r - 1, Len(zpaces))
           ELSE UNCHANGED <<zpaces, nextIndex>>

(* Mutant: the target is not asked whether it accepts the window. *)
MovesAnyway(w, from, to) == w \in ToSet(windows[from])

(* The move is done: the target accepts and the source holds the window.   *)
Moves(w, from, to) == AcceptsWindow(to) /\ w \in ToSet(windows[from])

(* Zpaces::moveWindow between two Zpaces; one that was removed from the    *)
(* list is still an object, because nothing deletes it.                    *)
MoveWindow(w, from, to) ==
    /\ wstate[w] # "none" /\ w \in ToSet(windows[AllSurfaces])
    /\ IF from \in Listed /\ to \in Listed /\ Moves(w, from, to)
       THEN /\ PopAndAdd(w, from, to)
            /\ lastMove' = [window |-> w, from |-> from, to |-> to,
                            index |-> IndexOf(zpaces', to)]
       ELSE /\ lastMove' = [window |-> w, from |-> from, to |-> to,
                            index |-> IndexOf(zpaces, from)]
            /\ UNCHANGED <<windows, linked, zpaces, nextIndex>>
    /\ UNCHANGED <<zmode, configured, limit, wstate, currentIndex, overview,
                   crashed>>

(* ZpacesModel::removeZpace: the list forgets the Zpace, nothing else.     *)
RemoveZpace(i) ==
    /\ zpaces' = RemoveAt(zpaces, i + 1)
    /\ nextIndex' = IndexAfterRemoval(nextIndex, i, Len(zpaces))
    /\ UNCHANGED <<zmode, configured, limit, windows, linked, wstate,
                   currentIndex, overview, crashed>>
    /\ lastMove' = NoMove

(* ZpacesModel::moveZpace; the view keeps the workspace it shows.          *)
MoveZpace(i, j) ==
    /\ zpaces' = InsertAt(RemoveAt(zpaces, i + 1), j + 1, ZpaceAt(i))
    /\ nextIndex' = CASE nextIndex = i                    -> j
                      [] i < nextIndex /\ nextIndex <= j  -> nextIndex - 1
                      [] j <= nextIndex /\ nextIndex < i  -> nextIndex + 1
                      [] OTHER                            -> nextIndex
    /\ UNCHANGED <<zmode, configured, limit, windows, linked, wstate,
                   currentIndex, overview, crashed>>
    /\ lastMove' = NoMove

ApiCall ==
    /\ ~crashed
    /\ calls < MaxCalls
    /\ calls' = calls + 1
    /\ UNCHANGED isTouch
    /\ \/ \E w \in Window : \E from, to \in Zpace : MoveWindow(w, from, to)
       \/ \E i \in 0 .. Len(zpaces) - 1 : RemoveZpace(i)
       \/ \E i, j \in 0 .. Len(zpaces) - 1 : i # j /\ MoveZpace(i, j)

(* An address is only used again while no list still holds it: what the    *)
(* program does after that is undefined.                                   *)
ShellStep ==
    /\ Next
    /\ \A w \in Window : wstate[w] = "none" /\ wstate'[w] = "open" =>
          w \notin ToSet(windows[AllSurfaces])
    /\ lastMove' = NoMove
    /\ UNCHANGED calls

ApiSpec == ApiInit /\ [][ShellStep \/ ApiCall]_apiVars

-----------------------------------------------------------------------------
(* Whatever is moved or removed meanwhile, a window of the screen is in    *)
(* the model of at most one Zpace, and of exactly one while the compositor *)
(* is up, on the list or not.                                              *)
NeverLost ==
    \A w \in Window :
        LET holders == { z \in Zpace : w \in ToSet(windows[z]) }
        IN  /\ \A y, z \in holders : y = z
            /\ wstate[w] # "none" /\ ~crashed => holders # {}

(* No call and no arrival puts one window too many in a workspace, as seen *)
(* before the step.                                                        *)
NeverOverfilled ==
    [][\A z \in Listed : Len(windows'[z]) > Len(windows[z]) =>
          Len(windows[z]) < limit[z]]_apiVars

(* What zpaces.h says of moveWindow: the index of the new Zpace when the   *)
(* window was moved, that of the initial Zpace otherwise; for a window in  *)
(* a workspace of the list the index is that of the workspace it is in.    *)
MoveWindowTellsWhere ==
    [][\A w \in Window : \A from, to \in Listed :
          /\ calls' > calls
          /\ lastMove'.window = w /\ lastMove'.from = from /\ lastMove'.to = to
          /\ w \in ToSet(windows[from])
          => lastMove'.index = IndexOfZpace(w)' /\ lastMove'.index >= 0]_apiVars
=============================================================================
