---------------------------- MODULE CursorGrabber ----------------------------
(***************************************************************************)
(* WaylandCursorGrabber: the QML type that turns the cursor surface of a   *)
(* client, or the icon of a drag, into the cursor of the output.  A grab   *)
(* takes a while, and its success() comes from the render thread, queued;  *)
(* m_grabbing keeps a second one from being started.  The type is          *)
(* registered by caskapp.cpp:69; no QML file of this commit makes one.     *)
(***************************************************************************)
EXTENDS FiniteSets

CONSTANTS CursorSurface,   \* surfaces clients use as cursor
          CursorSeat       \* seats the item may be given

\* A grab is of a cursor surface or of the drag icon of a seat.
Grabbable == CursorSurface \cup CursorSeat
Nothing == "nothing"

ASSUME CursorAssumption ==
    CursorSurface \cap CursorSeat = {} /\ Nothing \notin Grabbable

VARIABLES
    seat,        \* m_seat, and with it m_dragIconGrabber
    drags,       \* the seats whose drag icon is visible
    surface,     \* surface() of the item
    redraws,     \* the surface whose redraw() is connected
    grabber,     \* the surface m_grabber was made for
    grab,        \* m_grab
    grabbing,    \* m_grabbing
    flying,      \* what is being grabbed by a grabber that is connected
    posted,      \* whose image is in a success() that is queued
    cursor       \* the image the cursor of the output was made from

cursorVars == <<seat, drags, surface, redraws, grabber, grab, grabbing, flying,
                posted, cursor>>

CursorTypeOK ==
    /\ seat \in CursorSeat \cup {Nothing} /\ drags \subseteq CursorSeat
    /\ {surface, redraws, grabber} \subseteq CursorSurface \cup {Nothing}
    /\ {flying, posted, cursor} \subseteq Grabbable \cup {Nothing}
    /\ grab \in BOOLEAN /\ grabbing \in BOOLEAN

CursorInit ==
    /\ seat = Nothing /\ surface = Nothing /\ redraws = Nothing /\ grabber = Nothing
    /\ flying = Nothing /\ posted = Nothing /\ cursor = Nothing
    /\ drags = {}
    /\ grab = FALSE /\ grabbing = FALSE

\* Mutant: disconnect is forgotten when a grabber is replaced.
StillConnected(source) == flying

\* After disconnect(grabber of source, success): the grab goes on, for nobody,
\* and m_grabbing stays as it is.
Disconnected(source) == IF flying = source THEN Nothing ELSE flying

SetSeat(s) ==
    /\ s # seat
    /\ seat' = s
    /\ flying' = Disconnected(seat)
    /\ UNCHANGED <<drags, surface, redraws, grabber, grab, grabbing, posted, cursor>>

SetGrab(value) ==
    /\ grab' = value
    /\ UNCHANGED <<seat, drags, surface, redraws, grabber, grabbing, flying, posted,
                   cursor>>

\* handleCursorSurfaceRequest; no surface at all leaves surface() as it was.
CursorSurfaceRequest(s) ==
    /\ seat # Nothing
    /\ IF s = surface
       THEN UNCHANGED <<surface, redraws, grabber, flying>>
       ELSE /\ flying' = Disconnected(grabber)
            /\ grabber' = s
            /\ redraws' = s
            /\ surface' = IF s = Nothing THEN surface ELSE s
    /\ UNCHANGED <<seat, drags, grab, grabbing, posted, cursor>>

\* A client destroys its cursor surface.  Its redraw() goes with it, but the
\* item owns m_grabber, and a grab that is under way stays connected.
SurfaceDestroyed ==
    /\ surface # Nothing
    /\ surface' = Nothing
    /\ redraws' = Nothing
    /\ UNCHANGED <<seat, drags, grabber, grab, grabbing, flying, posted, cursor>>

\* Mutant: m_grabbing is not looked at.
MayGrabAgain == grab

MayGrab == grab /\ ~grabbing

\* m_grabbing is set and the surface of a grabber grabbed.  An image in shared
\* memory reaches handleGrab at once; without a buffer the grab fails at once.
Grab(source) ==
    \/ grabbing' = TRUE /\ flying' = source /\ UNCHANGED cursor
    \/ cursor' = source /\ grabbing' = FALSE /\ UNCHANGED flying
    \/ grabbing' = TRUE /\ UNCHANGED <<flying, cursor>>

\* The drag icon of a seat appears or goes; handleDragIconChanged if it is ours.
DragIconChanged(s) ==
    /\ drags' = IF s \in drags THEN drags \ {s} ELSE drags \cup {s}
    /\ IF s = seat /\ s \in drags' /\ MayGrab
       THEN Grab(s)
       ELSE UNCHANGED <<grabbing, flying, cursor>>
    /\ UNCHANGED <<seat, surface, redraws, grabber, grab, posted>>

\* handleRedraw of a cursor surface with content.
Redraw ==
    /\ redraws # Nothing
    /\ surface # Nothing /\ seat \notin drags
    /\ MayGrab /\ grabber # Nothing
    /\ Grab(grabber)
    /\ UNCHANGED <<seat, drags, surface, redraws, grabber, grab, posted>>

\* The render thread has the image, and nothing can call its success() back.
Success ==
    /\ flying # Nothing
    /\ posted' = flying
    /\ flying' = Nothing
    /\ UNCHANGED <<seat, drags, surface, redraws, grabber, grab, grabbing, cursor>>

\* handleGrab
Grabbed ==
    /\ posted # Nothing
    /\ cursor' = IF grab THEN posted ELSE cursor
    /\ grabbing' = FALSE
    /\ posted' = Nothing
    /\ UNCHANGED <<seat, drags, surface, redraws, grabber, grab, flying>>

\* Nothing is connected to failed().
GrabFailed ==
    /\ flying # Nothing
    /\ flying' = Nothing
    /\ UNCHANGED <<seat, drags, surface, redraws, grabber, grab, grabbing, posted,
                   cursor>>

CursorNext ==
    \/ \E s \in CursorSeat : SetSeat(s) \/ DragIconChanged(s)
    \/ \E value \in BOOLEAN : SetGrab(value)
    \/ \E s \in CursorSurface \cup {Nothing} : CursorSurfaceRequest(s)
    \/ SurfaceDestroyed \/ Redraw \/ Success \/ Grabbed \/ GrabFailed

CursorSpec == CursorInit /\ [][CursorNext]_cursorVars

(***************************************************************************)
(* An image is taken over, on its way to the cursor, only from a grabber   *)
(* the item has at that moment, m_grabber or that of the drag icon of its  *)
(* seat, though cursor surfaces and seats change while a grab is under     *)
(* way.  It is not promised that the cursor is the one asked for last: an  *)
(* image that is queued already still replaces it, and so does that of a   *)
(* surface that is gone, whose grabber nothing disconnects.                *)
(***************************************************************************)
OnlyOwnImages ==
    [][posted' # posted /\ posted' # Nothing => posted' \in {grabber, seat}]_cursorVars

(***************************************************************************)
(* One grab at a time: while an image is being made or queued m_grabbing   *)
(* is set and no other is, so that images cannot overtake each other,      *)
(* through every change of surface, seat and m_grab.  (It may also be set  *)
(* with no grab under way, after one that failed or was cut off, and then  *)
(* no image is ever grabbed again.)                                        *)
(***************************************************************************)
OneGrab ==
    flying # Nothing \/ posted # Nothing => grabbing /\ Nothing \in {flying, posted}
=============================================================================
