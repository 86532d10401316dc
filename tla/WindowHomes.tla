---------------------------- MODULE WindowHomes ----------------------------
(***************************************************************************)
(* What the workspaces promise, without lists, indices or signals: a       *)
(* window opens in one room that has a place left, or in a new room, stays *)
(* in that room whatever happens to the screen until its object is         *)
(* deleted, and the last window to leave a room takes the room with it     *)
(* unless it is the only one.                                              *)
(***************************************************************************)
EXTENDS Naturals, FiniteSets

CONSTANTS Window, Zpace,
          Nowhere,    \* the home of a window that has none
          Capacities  \* how many places a room may have

VARIABLES rooms,     \* the workspaces that exist
          home,      \* the room of each window, or Nowhere
          life,      \* "none", "open" or "closing"
          capacity,  \* places of each room
          down       \* the compositor is gone

homeVars == <<rooms, home, life, capacity, down>>

Occupants(z) == { w \in Window : home[w] = z }

Init ==
    /\ \E z \in Zpace : rooms = {z}
    /\ home = [w \in Window |-> Nowhere]
    /\ life = [w \in Window |-> "none"]
    /\ capacity \in [Zpace -> Capacities]
    /\ down = FALSE

NewRoom(z) ==
    /\ z \in Zpace \ rooms
    /\ rooms' = rooms \cup {z}
    /\ \E n \in Capacities : capacity' = [capacity EXCEPT ![z] = n]

OpenIn(w, z) ==
    /\ home' = [home EXCEPT ![w] = z]
    /\ life' = [life EXCEPT ![w] = "open"]
    /\ UNCHANGED down

Open(w) ==
    /\ life[w] = "none"
    /\ \E z \in Zpace :
          /\ OpenIn(w, z)
          /\ \/ /\ z \in rooms /\ Cardinality(Occupants(z)) < capacity[z]
                /\ UNCHANGED <<rooms, capacity>>
             \/ NewRoom(z)

Build ==
    /\ \E z \in Zpace : NewRoom(z)
    /\ UNCHANGED <<home, life, down>>

Close(w) ==
    /\ life[w] = "open"
    /\ life' = [life EXCEPT ![w] = "closing"]
    /\ UNCHANGED <<rooms, home, capacity, down>>

Leave(w) ==
    /\ life[w] = "closing"
    /\ life' = [life EXCEPT ![w] = "none"]
    /\ home' = [home EXCEPT ![w] = Nowhere]
    /\ rooms' = IF Occupants(home[w]) = {w} /\ rooms # {home[w]}
                THEN rooms \ {home[w]} ELSE rooms
    /\ UNCHANGED <<capacity, down>>

(* The screen changes: no window is moved, however many no longer fit.     *)
Adapt ==
    /\ \E n \in Capacities : capacity' = [z \in Zpace |-> n]
    /\ UNCHANGED <<rooms, home, life, down>>

(* A window arrives while no room is shown, and the compositor goes down.  *)
Fail(w) ==
    /\ life[w] = "none"
    /\ life' = [life EXCEPT ![w] = "open"]
    /\ down' = TRUE
    /\ UNCHANGED <<rooms, home, capacity>>

Next ==
    /\ ~down
    /\ \/ \E w \in Window : Open(w) \/ Close(w) \/ Leave(w) \/ Fail(w)
       \/ Build
       \/ Adapt

Spec == Init /\ [][Next]_homeVars
=============================================================================
