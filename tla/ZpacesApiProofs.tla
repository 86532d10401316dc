-------------------------- MODULE ZpacesApiProofs --------------------------
(***************************************************************************)
(* Theorems about the workspaces together with the calls their interface   *)
(* offers, for every number of windows, workspaces, widths and calls.      *)
(***************************************************************************)
EXTENDS ZpacesApi, ZpacesProofs

-----------------------------------------------------------------------------
(* The inductive invariant.  What Zpaces keeps is lost here: m_allSurfaces *)
(* is no longer linked to a window that was popped, and a workspace off    *)
(* the list may hold windows.  What is left is that a model is linked at   *)
(* least to what it holds, so that a deleted window leaves every Zpace.    *)
ApiTypes ==
    /\ zpaces \in Seq(Zpace)
    /\ windows \in [Model -> Seq(Window)]
    /\ linked \in [Model -> SUBSET Window]
    /\ wstate \in [Window -> {"none", "open", "closing"}]
    /\ currentIndex \in Int /\ nextIndex \in Int

Kept ==
    \A z \in Zpace : /\ IsInjective(windows[z])
                     /\ ToSet(windows[z]) \subseteq linked[z]
                     /\ \A w \in ToSet(windows[z]) : wstate[w] # "none"

Once == \A y, z \in Zpace : \A w \in Window :
           w \in ToSet(windows[y]) /\ w \in ToSet(windows[z]) => y = z

Held == ~crashed => \A w \in Window : wstate[w] # "none" =>
                       \E z \in Zpace : w \in ToSet(windows[z])

ApiInv == ApiTypes /\ Kept /\ Once /\ Held

LEMMA ApiListed == ApiTypes => Listed \subseteq Zpace
  BY ToSetOfSeq DEF ApiTypes, Listed

LEMMA InitApiInv == ApiInit => ApiInv
  <1> SUFFICES ASSUME ApiInit PROVE ApiInv
    OBVIOUS
  <1> USE ZpacesAssumption DEF Model
  <1>1. /\ windows = [m \in Model |-> <<>>] /\ linked = [m \in Model |-> {}]
        /\ wstate = [w \in Window |-> "none"]
        /\ currentIndex = 0 /\ nextIndex = 0
        /\ zpaces = <<CHOOSE z \in Zpace : TRUE>>
    BY DEF ApiInit, Init
  <1>2. zpaces \in Seq(Zpace)
    BY <1>1
  <1>3. ApiTypes
    BY <1>1, <1>2 DEF ApiTypes
  <1>4. \A z \in Zpace : ToSet(windows[z]) = {} /\ IsInjective(windows[z])
    BY <1>1 DEF ToSet, IsInjective
  <1> QED BY <1>1, <1>3, <1>4 DEF ApiInv, Kept, Once, Held

-----------------------------------------------------------------------------
(* What the steps do to the models. *)

(* A window that no Zpace holds is added to one. *)
LEMMA AddedIsHeld ==
    ASSUME ApiInv, NEW w \in Window, NEW z \in Zpace, AddToModels(w, z),
           wstate[w] = "none", wstate' = [wstate EXCEPT ![w] = "open"],
           UNCHANGED crashed
    PROVE  /\ windows' \in [Model -> Seq(Window)]
           /\ linked' \in [Model -> SUBSET Window]
           /\ wstate' \in [Window -> {"none", "open", "closing"}]
           /\ Kept' /\ Once' /\ Held'
           /\ \A y \in Zpace \ {z} : windows'[y] = windows[y]
  <1> USE ZpacesAssumption DEF Model
  <1>1. /\ windows \in [Model -> Seq(Window)] /\ linked \in [Model -> SUBSET Window]
        /\ wstate \in [Window -> {"none", "open", "closing"}]
        /\ \A y \in Zpace : w \notin ToSet(windows[y])
        /\ Kept /\ Once /\ Held
    BY DEF ApiInv, ApiTypes, Kept
  <1>2. \A m \in Model : /\ windows'[m] = IF m \in {AllSurfaces, z}
                                          THEN Append(windows[m], w) ELSE windows[m]
                         /\ linked'[m] = IF m \in {AllSurfaces, z}
                                         THEN linked[m] \cup {w} ELSE linked[m]
    BY <1>1 DEF AddToModels
  <1>3. windows' \in [Model -> Seq(Window)] /\ linked' \in [Model -> SUBSET Window]
    <2>1. \A m \in Model : Append(windows[m], w) \in Seq(Window)
      BY <1>1, AppendSet
    <2> QED BY <1>1, <2>1 DEF AddToModels
  <1>4. /\ ToSet(windows'[z]) = ToSet(windows[z]) \cup {w} /\ IsInjective(windows'[z])
        /\ linked'[z] = linked[z] \cup {w}
        /\ \A y \in Zpace \ {z} : windows'[y] = windows[y] /\ linked'[y] = linked[y]
    <2>1. windows[z] \in Seq(Window) /\ IsInjective(windows[z])
      BY <1>1 DEF Kept
    <2>2. /\ windows'[z] = Append(windows[z], w) /\ linked'[z] = linked[z] \cup {w}
          /\ \A y \in Zpace \ {z} : windows'[y] = windows[y] /\ linked'[y] = linked[y]
      BY <1>2
    <2>3. /\ ToSet(Append(windows[z], w)) = ToSet(windows[z]) \cup {w}
          /\ IsInjective(Append(windows[z], w))
      BY <1>1, <2>1, AppendSet
    <2> QED BY <2>2, <2>3
  <1>5. /\ wstate'[w] = "open" /\ \A v \in Window \ {w} : wstate'[v] = wstate[v]
        /\ wstate' \in [Window -> {"none", "open", "closing"}]
    BY <1>1
  <1>6. \A y \in Zpace : ToSet(windows[y]) \subseteq Window
    BY <1>1, ToSetOfSeq
  <1>7. Kept'
    <2> SUFFICES ASSUME NEW y \in Zpace
                 PROVE  /\ IsInjective(windows'[y])
                        /\ ToSet(windows'[y]) \subseteq linked'[y]
                        /\ \A v \in ToSet(windows'[y]) : wstate'[v] # "none"
      BY DEF Kept
    <2>1. CASE y = z
      <3>1. ToSet(windows[z]) \cup {w} \subseteq linked[z] \cup {w}
        BY <1>1 DEF Kept
      <3>2. \A v \in ToSet(windows[z]) \cup {w} : wstate'[v] # "none"
        BY <1>1, <1>5, <1>6 DEF Kept
      <3> QED BY <1>4, <2>1, <3>1, <3>2
    <2>2. CASE y # z
      <3>1. \A v \in ToSet(windows[y]) : wstate'[v] # "none"
        BY <1>1, <1>5, <1>6 DEF Kept
      <3>2. windows'[y] = windows[y] /\ linked'[y] = linked[y]
        BY <1>4, <2>2
      <3>3. IsInjective(windows[y]) /\ ToSet(windows[y]) \subseteq linked[y]
        BY <1>1 DEF Kept
      <3> QED BY <3>1, <3>2, <3>3
    <2> QED BY <2>1, <2>2
  <1>8. Once'
    <2>1. \A y \in Zpace \ {z} : ToSet(windows'[y]) = ToSet(windows[y])
      BY <1>4
    <2>2. ASSUME NEW v \in Window, NEW y \in Zpace
          PROVE  v \in ToSet(windows'[y]) <=> v \in ToSet(windows[y]) \/ (v = w /\ y = z)
      <3>1. CASE y = z
        BY <1>4, <3>1, Zenon
      <3>2. CASE y # z
        BY <2>1, <3>2, Zenon
      <3> QED BY <3>1, <3>2
    <2>3. ASSUME NEW x \in Zpace, NEW y \in Zpace, NEW v \in Window,
                 v \in ToSet(windows'[x]), v \in ToSet(windows'[y])
          PROVE  x = y
      <3>1. CASE v = w
        BY <1>1, <2>2, <2>3, <3>1, Zenon
      <3>2. CASE v # w
        <4>1. v \in ToSet(windows[x]) /\ v \in ToSet(windows[y])
          BY <2>2, <2>3, <3>2, Zenon
        <4> QED BY <1>1, <4>1, Zenon DEF Once
      <3> QED BY <3>1, <3>2
    <2> QED BY <2>3, Zenon DEF Once
  <1>9. Held'
    BY <1>1, <1>4, <1>5 DEF Held
  <1> QED BY <1>3, <1>4, <1>5, <1>7, <1>8, <1>9

(* The deferred delete takes the window out of the Zpace that holds it.    *)
LEMMA DeletedIsGone ==
    ASSUME ApiInv, NEW w \in Window, DeleteWindow(w)
    PROVE  /\ windows' \in [Model -> Seq(Window)]
           /\ linked' \in [Model -> SUBSET Window]
           /\ wstate' \in [Window -> {"none", "open", "closing"}]
           /\ Kept' /\ Once' /\ Held'
           /\ \A z \in Zpace : Len(windows'[z]) <= Len(windows[z])
  <1> USE ZpacesAssumption DEF Model
  <1>1. /\ windows \in [Model -> Seq(Window)] /\ linked \in [Model -> SUBSET Window]
        /\ wstate \in [Window -> {"none", "open", "closing"}]
        /\ Kept /\ Once /\ Held
    BY DEF ApiInv, ApiTypes
  <1>2. /\ wstate' = [wstate EXCEPT ![w] = "none"]
        /\ windows' = [m \in Model |-> IF w \in linked[m] THEN Without(windows[m], w)
                                                          ELSE windows[m]]
        /\ linked' = [m \in Model |-> linked[m] \ {w}]
        /\ UNCHANGED crashed
    BY DEF DeleteWindow
  <1>3. ASSUME NEW m \in Model
        PROVE  /\ Without(windows[m], w) \in Seq(Window)
               /\ Len(Without(windows[m], w)) <= Len(windows[m])
    <2>1. windows[m] \in Seq(Window)
      BY <1>1
    <2>2. CASE w \in ToSet(windows[m])
      <3>1. PositionOf(windows[m], w) \in 1 .. Len(windows[m])
        BY <2>1, <2>2, PositionOfElement
      <3> QED BY <2>1, <2>2, <3>1, RemoveAtShape DEF Without
    <2>3. CASE w \notin ToSet(windows[m])
      BY <2>1, <2>3 DEF Without
    <2> QED BY <2>2, <2>3
  <1>4. ASSUME NEW z \in Zpace
        PROVE  /\ ToSet(windows'[z]) = ToSet(windows[z]) \ {w}
               /\ IsInjective(windows'[z])
               /\ Len(windows'[z]) <= Len(windows[z])
    <2>1. /\ windows[z] \in Seq(Window) /\ IsInjective(windows[z])
          /\ ToSet(windows[z]) \subseteq linked[z]
      BY <1>1 DEF Kept
    <2>2. /\ ToSet(Without(windows[z], w)) = ToSet(windows[z]) \ {w}
          /\ IsInjective(Without(windows[z], w))
      BY <2>1, WithoutSet
    <2> QED BY <1>2, <1>3, <2>1, <2>2
  <1>5. windows' \in [Model -> Seq(Window)] /\ linked' \in [Model -> SUBSET Window]
    BY <1>1, <1>2, <1>3
  <1>6. /\ wstate' \in [Window -> {"none", "open", "closing"}] /\ wstate'[w] = "none"
        /\ \A v \in Window \ {w} : wstate'[v] = wstate[v]
    BY <1>1, <1>2
  <1>7. Kept'
    <2> SUFFICES ASSUME NEW z \in Zpace
                 PROVE  /\ IsInjective(windows'[z])
                        /\ ToSet(windows'[z]) \subseteq linked'[z]
                        /\ \A v \in ToSet(windows'[z]) : wstate'[v] # "none"
      BY DEF Kept
    <2>1. ToSet(windows[z]) \subseteq Window
      BY <1>1, ToSetOfSeq
    <2>2. linked'[z] = linked[z] \ {w}
      BY <1>2
    <2> QED BY <1>1, <1>4, <1>6, <2>1, <2>2 DEF Kept
  <1>8. Once'
    BY <1>1, <1>4 DEF Once
  <1>9. Held'
    BY <1>1, <1>2, <1>4, <1>6 DEF Held
  <1> QED BY <1>4, <1>5, <1>6, <1>7, <1>8, <1>9

(* popWindow and addWindow take the window from one Zpace to the other.    *)
LEMMA MovedIsHeld ==
    ASSUME ApiInv, NEW w \in Window, NEW from \in Zpace, NEW to \in Zpace,
           w \in ToSet(windows[from]), PopAndAdd(w, from, to),
           UNCHANGED <<wstate, crashed>>
    PROVE  /\ windows' \in [Model -> Seq(Window)]
           /\ linked' \in [Model -> SUBSET Window]
           /\ Kept' /\ Once' /\ Held'
           /\ \A z \in Zpace \ {to} : Len(windows'[z]) <= Len(windows[z])
  <1> USE ZpacesAssumption DEF Model
  <1> DEFINE popped == [windows EXCEPT ![from] = Without(@, w)]
  <1>1. /\ windows \in [Model -> Seq(Window)] /\ linked \in [Model -> SUBSET Window]
        /\ wstate[w] # "none"
        /\ Kept /\ Once /\ Held
    BY DEF ApiInv, ApiTypes, Kept
  <1>2. /\ windows' = [popped EXCEPT ![to] = Append(@, w)]
        /\ linked' = [m \in Model |-> IF m = to THEN linked[m] \cup {w}
                                                ELSE linked[m] \ {w}]
    BY DEF PopAndAdd
  <1>3. /\ windows[from] \in Seq(Window) /\ IsInjective(windows[from])
        /\ Without(windows[from], w) \in Seq(Window)
        /\ IsInjective(Without(windows[from], w))
        /\ ToSet(Without(windows[from], w)) = ToSet(windows[from]) \ {w}
        /\ Len(Without(windows[from], w)) <= Len(windows[from])
    <2>1. windows[from] \in Seq(Window) /\ IsInjective(windows[from])
      BY <1>1 DEF Kept
    <2>2. PositionOf(windows[from], w) \in 1 .. Len(windows[from])
      BY <2>1, PositionOfElement
    <2>3. Len(Without(windows[from], w)) <= Len(windows[from])
      BY <2>1, <2>2, RemoveAtShape DEF Without
    <2> QED BY <2>1, <2>3, WithoutSet
  <1>4. /\ popped \in [Model -> Seq(Window)]
        /\ popped[from] = Without(windows[from], w)
        /\ \A m \in Model \ {from} : popped[m] = windows[m]
    BY <1>1, <1>3
  <1>5. \A z \in Zpace : /\ popped[z] \in Seq(Window) /\ IsInjective(popped[z])
                         /\ ToSet(popped[z]) = ToSet(windows[z]) \ {w}
                         /\ Len(popped[z]) <= Len(windows[z])
    <2> SUFFICES ASSUME NEW z \in Zpace
                 PROVE  /\ popped[z] \in Seq(Window) /\ IsInjective(popped[z])
                        /\ ToSet(popped[z]) = ToSet(windows[z]) \ {w}
                        /\ Len(popped[z]) <= Len(windows[z])
      OBVIOUS
    <2>1. CASE z = from
      BY <1>3, <1>4, <2>1
    <2>2. CASE z # from
      <3>1. windows[z] \in Seq(Window) /\ IsInjective(windows[z]) /\ popped[z] = windows[z]
        BY <1>1, <1>4, <2>2 DEF Kept
      <3>2. w \notin ToSet(windows[z])
        BY <1>1, <2>2 DEF Once
      <3> QED BY <3>1, <3>2
    <2> QED BY <2>1, <2>2
  <1> HIDE DEF popped
  <1>6. /\ windows' \in [Model -> Seq(Window)]
        /\ \A z \in Zpace \ {to} : windows'[z] = popped[z]
        /\ ToSet(windows'[to]) = ToSet(windows[to]) \cup {w}
        /\ IsInjective(windows'[to])
    <2>1. /\ Append(popped[to], w) \in Seq(Window) /\ IsInjective(Append(popped[to], w))
          /\ ToSet(Append(popped[to], w)) = ToSet(popped[to]) \cup {w}
      BY <1>5, AppendSet
    <2>2. windows'[to] = Append(popped[to], w)
      BY <1>2, <1>4
    <2>3. windows' \in [Model -> Seq(Window)] /\ \A z \in Zpace \ {to} : windows'[z] = popped[z]
      BY <1>2, <1>4, <2>1
    <2> QED BY <1>5, <2>1, <2>2, <2>3
  <1>7. linked' \in [Model -> SUBSET Window]
    BY <1>1, <1>2
  <1>8. Kept'
    <2> SUFFICES ASSUME NEW z \in Zpace
                 PROVE  /\ IsInjective(windows'[z])
                        /\ ToSet(windows'[z]) \subseteq linked'[z]
                        /\ \A v \in ToSet(windows'[z]) : wstate'[v] # "none"
      BY DEF Kept
    <2>1. linked'[z] = IF z = to THEN linked[z] \cup {w} ELSE linked[z] \ {w}
      BY <1>2
    <2>2. CASE z = to
      BY <1>1, <1>6, <2>1, <2>2 DEF Kept
    <2>3. CASE z # to
      BY <1>1, <1>5, <1>6, <2>1, <2>3 DEF Kept
    <2> QED BY <2>2, <2>3
  <1>9. \A z \in Zpace : ToSet(windows'[z]) = IF z = to THEN ToSet(windows[z]) \cup {w}
                                                        ELSE ToSet(windows[z]) \ {w}
    BY <1>5, <1>6
  <1>10. Once'
    BY <1>1, <1>9 DEF Once
  <1>11. Held'
    BY <1>1, <1>9 DEF Held
  <1> QED BY <1>5, <1>6, <1>7, <1>8, <1>10, <1>11

(* Nothing changes in the models, and no window begins or ends its life.   *)
LEMMA ModelsStay ==
    ASSUME ApiInv, UNCHANGED <<windows, linked, crashed>>,
           \A w \in Window : wstate[w] = "none" <=> wstate'[w] = "none"
    PROVE  Kept' /\ Once' /\ Held'
  <1>1. \A z \in Zpace : ToSet(windows[z]) \subseteq Window
    BY ToSetOfSeq DEF ApiInv, ApiTypes, Model
  <1>2. Kept'
    BY <1>1 DEF ApiInv, Kept
  <1>3. Once' /\ Held'
    BY DEF ApiInv, Once, Held
  <1> QED BY <1>2, <1>3

-----------------------------------------------------------------------------
(* The list and the view. *)

LEMMA ApiIndexOfZpace ==
    ASSUME ApiTypes, NEW w
    PROVE  IndexOfZpace(w) \in Int
  <1> DEFINE at == { i \in 0 .. Len(zpaces) - 1 : w \in ToSet(windows[ZpaceAt(i)]) }
  <1>1. at \in SUBSET Nat /\ Len(zpaces) \in Nat
    BY DEF ApiTypes
  <1>2. CASE at = {}
    BY <1>2 DEF IndexOfZpace
  <1>3. CASE at # {}
    <2>1. FirstOf(at) \in at
      BY <1>1, <1>3, LeastIndex DEF FirstOf
    <2>2. IndexOfZpace(w) = FirstOf(at)
      BY <1>3 DEF IndexOfZpace
    <2> QED BY <1>1, <2>1, <2>2
  <1> QED BY <1>2, <1>3

(* An emptied workspace goes or stays. *)
LEMMA RowRemoved ==
    ASSUME ApiTypes, NEW z \in Listed,
           zpaces' = RemoveAt(zpaces, PositionOf(zpaces, z)),
           nextIndex' = IndexAfterRemoval(nextIndex, PositionOf(zpaces, z) - 1, Len(zpaces))
    PROVE  zpaces' \in Seq(Zpace) /\ nextIndex' \in Int
  <1>1. zpaces \in Seq(Zpace) /\ nextIndex \in Int /\ Len(zpaces) \in Nat
    BY DEF ApiTypes
  <1>2. PositionOf(zpaces, z) \in 1 .. Len(zpaces)
    BY <1>1, PositionOfElement DEF Listed
  <1>3. zpaces' \in Seq(Zpace)
    BY <1>1, <1>2, RemoveAtShape
  <1>4. nextIndex' \in Int
    BY <1>1, <1>2 DEF IndexAfterRemoval
  <1> QED BY <1>3, <1>4

(* moveZpace takes a workspace out and puts it in again. *)
LEMMA MoveZpaceTypes ==
    ASSUME ApiTypes, NEW i \in 0 .. Len(zpaces) - 1, NEW j \in 0 .. Len(zpaces) - 1,
           MoveZpace(i, j)
    PROVE  zpaces' \in Seq(Zpace) /\ nextIndex' \in Int
  <1> DEFINE rest == RemoveAt(zpaces, i + 1)
  <1>1. zpaces \in Seq(Zpace) /\ nextIndex \in Int /\ Len(zpaces) \in Nat
    BY DEF ApiTypes
  <1>2. /\ zpaces' = InsertAt(rest, j + 1, ZpaceAt(i))
        /\ nextIndex' \in {j, nextIndex - 1, nextIndex + 1, nextIndex}
    BY DEF MoveZpace
  <1>3. rest \in Seq(Zpace) /\ Len(rest) = Len(zpaces) - 1 /\ ZpaceAt(i) \in Zpace
    BY <1>1, RemoveAtShape DEF ZpaceAt
  <1> HIDE DEF rest
  <1>4. SubSeq(rest, 1, j + 1 - 1) \in Seq(Zpace) /\ SubSeq(rest, j + 1, Len(rest)) \in Seq(Zpace)
    <2>1. /\ \A k \in 1 .. j + 1 - 1 : rest[k] \in Zpace
          /\ \A k \in j + 1 .. Len(rest) : rest[k] \in Zpace
      BY <1>1, <1>3
    <2>2. j + 1 - 1 \in Int /\ j + 1 \in Int /\ Len(rest) \in Int
      BY <1>1, <1>3
    <2> QED BY <2>1, <2>2, SubSeqProperties
  <1>5. zpaces' \in Seq(Zpace)
    BY <1>2, <1>3, <1>4 DEF InsertAt
  <1> QED BY <1>1, <1>2, <1>5

-----------------------------------------------------------------------------
(* The steps. *)

(* What NeverOverfilled says of a step. *)
Room == \A z \in Listed : Len(windows'[z]) > Len(windows[z]) => Len(windows[z]) < limit[z]

LEMMA ToplevelCreatedApi ==
    ASSUME ApiInv, ~crashed, NEW w \in Window, ToplevelCreated(w)
    PROVE  ApiInv' /\ Room
  <1> USE ZpacesAssumption DEF Model
  <1>1. /\ wstate[w] = "none" /\ wstate' = [wstate EXCEPT ![w] = "open"]
        /\ AddToListed(w) \/ AddToNew(w) \/ AddToNull(w)
    BY DEF ToplevelCreated
  <1>2. /\ zpaces \in Seq(Zpace) /\ Len(zpaces) \in Nat
        /\ windows \in [Model -> Seq(Window)] /\ linked \in [Model -> SUBSET Window]
        /\ wstate \in [Window -> {"none", "open", "closing"}]
        /\ currentIndex \in Int /\ nextIndex \in Int
        /\ Listed \subseteq Zpace
    BY ApiListed DEF ApiInv, ApiTypes
  <1>3. CASE AddToListed(w)
    <2>1. PICK i \in Accepting(currentIndex) :
             /\ AddToModels(w, ZpaceAt(i)) /\ SetCurrentIndex(i)
             /\ UNCHANGED <<zpaces, limit, crashed>> /\ currentIndex >= 0
      BY <1>3 DEF AddToListed
    <2>2. i \in 0 .. Len(zpaces) - 1 /\ Len(windows[ZpaceAt(i)]) < limit[ZpaceAt(i)]
      BY <1>2, <2>1 DEF Accepting, AcceptsWindow
    <2>3. ZpaceAt(i) \in Zpace
      BY <1>2, <2>2 DEF ZpaceAt
    <2>4. /\ windows' \in [Model -> Seq(Window)] /\ linked' \in [Model -> SUBSET Window]
          /\ wstate' \in [Window -> {"none", "open", "closing"}]
          /\ Kept' /\ Once' /\ Held'
          /\ \A y \in Zpace \ {ZpaceAt(i)} : windows'[y] = windows[y]
      BY <1>1, <2>1, <2>3, AddedIsHeld
    <2>5. ApiTypes'
      BY <1>2, <2>1, <2>2, <2>4 DEF ApiTypes, SetCurrentIndex
    <2>6. Room
      <3> SUFFICES ASSUME NEW z \in Listed, Len(windows'[z]) > Len(windows[z])
                   PROVE  Len(windows[z]) < limit[z]
        BY DEF Room
      <3>1. Len(windows[z]) \in Nat
        BY <1>2
      <3>2. CASE z = ZpaceAt(i)
        BY <2>2, <3>2
      <3>3. CASE z # ZpaceAt(i)
        <4>1. windows'[z] = windows[z]
          BY <1>2, <2>4, <3>3
        <4> QED BY <3>1, <4>1
      <3> QED BY <3>2, <3>3
    <2> QED BY <2>4, <2>5, <2>6 DEF ApiInv
  <1>4. CASE AddToNew(w)
    <2>1. /\ AddToModels(w, NewZpace) /\ SetCurrentIndex(Len(zpaces))
          /\ zpaces' = Append(zpaces, NewZpace) /\ UNCHANGED crashed
          /\ NewZpace \in Zpace /\ NewZpace \notin Listed
      BY <1>4, NewZpaceUnused DEF AddToNew
    <2>2. /\ windows' \in [Model -> Seq(Window)] /\ linked' \in [Model -> SUBSET Window]
          /\ wstate' \in [Window -> {"none", "open", "closing"}]
          /\ Kept' /\ Once' /\ Held'
          /\ \A y \in Zpace \ {NewZpace} : windows'[y] = windows[y]
      BY <1>1, <2>1, AddedIsHeld
    <2>3. ApiTypes'
      BY <1>2, <2>1, <2>2 DEF ApiTypes, SetCurrentIndex
    <2>4. \A z \in Listed : windows'[z] = windows[z] /\ Len(windows[z]) \in Nat
      BY <1>2, <2>1, <2>2
    <2>5. Room
      BY <2>4 DEF Room
    <2> QED BY <2>2, <2>3, <2>5 DEF ApiInv
  <1>5. CASE AddToNull(w)
    <2>1. /\ windows' = [windows EXCEPT ![AllSurfaces] = Append(@, w)]
          /\ linked' = [linked EXCEPT ![AllSurfaces] = @ \cup {w}]
          /\ crashed' = TRUE /\ UNCHANGED <<zpaces, viewVars>>
      BY <1>5 DEF AddToNull
    <2>2. \A z \in Zpace : windows'[z] = windows[z] /\ linked'[z] = linked[z]
      BY <1>2, <2>1
    <2>3. windows' \in [Model -> Seq(Window)] /\ linked' \in [Model -> SUBSET Window]
      <3>1. Append(windows[AllSurfaces], w) \in Seq(Window)
        BY <1>2, AppendSet
      <3> QED BY <1>2, <2>1, <3>1
    <2>4. ApiTypes'
      BY <1>1, <1>2, <2>1, <2>3 DEF ApiTypes, viewVars
    <2>5. \A z \in Zpace : ToSet(windows[z]) \subseteq Window /\ Len(windows[z]) \in Nat
      BY <1>2, ToSetOfSeq
    <2>6. Kept'
      BY <1>1, <1>2, <2>2, <2>5 DEF ApiInv, Kept
    <2>7. Once' /\ Held'
      BY <2>1, <2>2 DEF ApiInv, Once, Held
    <2>8. Room
      BY <1>2, <2>2, <2>5 DEF Room
    <2> QED BY <2>4, <2>6, <2>7, <2>8 DEF ApiInv
  <1> QED BY <1>1, <1>3, <1>4, <1>5

LEMMA DeleteWindowApi ==
    ASSUME ApiInv, NEW w \in Window, DeleteWindow(w)
    PROVE  ApiInv' /\ Room
  <1>1. /\ windows' \in [Model -> Seq(Window)] /\ linked' \in [Model -> SUBSET Window]
        /\ wstate' \in [Window -> {"none", "open", "closing"}]
        /\ Kept' /\ Once' /\ Held'
        /\ \A z \in Zpace : Len(windows'[z]) <= Len(windows[z])
    BY DeletedIsGone
  <1>2. ApiTypes /\ Listed \subseteq Zpace
    BY ApiListed DEF ApiInv
  <1>3. UNCHANGED currentIndex /\ (\/ UNCHANGED <<zpaces, nextIndex>>
                                   \/ \E z \in Zpace : CloseIfEmpty(z))
    BY DEF DeleteWindow
  <1>4. zpaces' \in Seq(Zpace) /\ nextIndex' \in Int
    <2>1. CASE UNCHANGED <<zpaces, nextIndex>>
      BY <1>2, <2>1 DEF ApiTypes
    <2>2. ASSUME NEW z \in Zpace, CloseIfEmpty(z)
          PROVE  zpaces' \in Seq(Zpace) /\ nextIndex' \in Int
      <3>1. CASE windows'[z] = <<>> /\ z \in Listed /\ Len(zpaces) > 1
        <4>1. /\ zpaces' = RemoveAt(zpaces, PositionOf(zpaces, z))
              /\ nextIndex' = IndexAfterRemoval(nextIndex, PositionOf(zpaces, z) - 1, Len(zpaces))
          BY <2>2, <3>1 DEF CloseIfEmpty
        <4> QED BY <1>2, <3>1, <4>1, RowRemoved
      <3>2. CASE ~ (windows'[z] = <<>> /\ z \in Listed /\ Len(zpaces) > 1)
        <4>1. UNCHANGED <<zpaces, nextIndex>>
          BY <2>2, <3>2 DEF CloseIfEmpty
        <4> QED BY <1>2, <4>1 DEF ApiTypes
      <3> QED BY <3>1, <3>2
    <2> QED BY <1>3, <2>1, <2>2
  <1>5. ApiTypes'
    BY <1>1, <1>2, <1>3, <1>4 DEF ApiTypes
  <1>6. Room
    <2> SUFFICES ASSUME NEW z \in Listed PROVE ~ (Len(windows'[z]) > Len(windows[z]))
      BY DEF Room
    <2>1. Len(windows'[z]) <= Len(windows[z]) /\ Len(windows[z]) \in Nat /\ Len(windows'[z]) \in Nat
      BY <1>1, <1>2 DEF ApiTypes, Model
    <2> QED BY <2>1
  <1> QED BY <1>1, <1>5, <1>6 DEF ApiInv

(* A step that leaves the models alone. *)
LEMMA QuietApi ==
    ASSUME ApiInv, UNCHANGED <<windows, linked, crashed>>,
           \A w \in Window : wstate[w] = "none" <=> wstate'[w] = "none",
           wstate' \in [Window -> {"none", "open", "closing"}],
           zpaces' \in Seq(Zpace), currentIndex' \in Int, nextIndex' \in Int
    PROVE  ApiInv' /\ Room
  <1>1. Kept' /\ Once' /\ Held'
    BY ModelsStay
  <1>2. ApiTypes'
    BY DEF ApiInv, ApiTypes
  <1>3. \A z \in Listed : Len(windows[z]) \in Nat
    BY ApiListed DEF ApiInv, ApiTypes, Model
  <1> QED BY <1>1, <1>2, <1>3 DEF ApiInv, Room

LEMMA ShellStepApi == ApiInv /\ ShellStep => ApiInv' /\ Room
  <1> SUFFICES ASSUME ApiInv, ShellStep PROVE ApiInv' /\ Room
    OBVIOUS
  <1>1. /\ zpaces \in Seq(Zpace) /\ Len(zpaces) \in Nat
        /\ windows \in [Model -> Seq(Window)]
        /\ wstate \in [Window -> {"none", "open", "closing"}]
        /\ currentIndex \in Int /\ nextIndex \in Int /\ ApiTypes
    BY DEF ApiInv, ApiTypes
  <1>2. ~crashed /\ Next
    BY DEF ShellStep, Next
  <1>3. ASSUME NEW w \in Window, ToplevelCreated(w) PROVE ApiInv' /\ Room
    BY <1>2, <1>3, ToplevelCreatedApi
  <1>4. ASSUME NEW w \in Window, ShellSurfaceDestroyed(w) PROVE ApiInv' /\ Room
    <2>1. /\ UNCHANGED <<zpaces, windows, linked, crashed, currentIndex, nextIndex>>
          /\ wstate[w] = "open" /\ wstate' = [wstate EXCEPT ![w] = "closing"]
      BY <1>4 DEF ShellSurfaceDestroyed, viewVars
    <2>2. /\ \A v \in Window : wstate[v] = "none" <=> wstate'[v] = "none"
          /\ wstate' \in [Window -> {"none", "open", "closing"}]
      BY <1>1, <2>1
    <2> QED BY <1>1, <2>1, <2>2, QuietApi
  <1>5. ASSUME NEW w \in Window, DeleteWindow(w) PROVE ApiInv' /\ Room
    BY <1>5, DeleteWindowApi
  <1>6. ASSUME NEW w \in Window, WindowPicked(w) PROVE ApiInv' /\ Room
    <2>1. IndexOfZpace(w) \in Int
      BY <1>1, ApiIndexOfZpace
    <2>2. /\ UNCHANGED <<zpaces, windows, linked, wstate, crashed>>
          /\ currentIndex' \in Int /\ nextIndex' \in Int
      BY <1>6, <2>1 DEF WindowPicked, SetCurrentIndex, modelVars
    <2> QED BY <1>1, <2>2, QuietApi
  <1>7. ASSUME NEW width \in Widths, GeometryChanged(width) PROVE ApiInv' /\ Room
    BY <1>1, <1>7, QuietApi DEF GeometryChanged, viewVars
  <1>8. CASE InsertZpace
    <2>1. /\ zpaces' = <<NewZpace>> \o zpaces /\ NewZpace \in Zpace
          /\ UNCHANGED <<windows, linked, wstate, crashed>>
          /\ currentIndex' = 0 /\ nextIndex' = 0
      BY <1>8, NewZpaceUnused DEF InsertZpace, SetCurrentIndex
    <2>2. zpaces' \in Seq(Zpace)
      BY <1>1, <2>1, PrependSet
    <2> QED BY <1>1, <2>1, <2>2, QuietApi
  <1>9. CASE SwitcherReleased
    <2>1. /\ UNCHANGED <<zpaces, windows, linked, wstate, crashed>>
          /\ currentIndex' \in Int /\ nextIndex' \in Int
      BY <1>1, <1>9 DEF SwitcherReleased, SetCurrentIndex, modelVars, viewVars
    <2> QED BY <1>1, <2>1, QuietApi
  <1>10. ASSUME NEW i \in 0 .. Len(zpaces) - 1, ZpaceTapped(i) PROVE ApiInv' /\ Room
    <2>1. /\ UNCHANGED <<zpaces, windows, linked, wstate, crashed>>
          /\ currentIndex' \in Int /\ nextIndex' \in Int
      BY <1>1, <1>10 DEF ZpaceTapped, SetCurrentIndex, modelVars
    <2> QED BY <1>1, <2>1, QuietApi
  <1>11. CASE ViewPolished
    <2>1. /\ UNCHANGED <<zpaces, windows, linked, wstate, crashed>>
          /\ currentIndex' \in Int /\ nextIndex' \in Int
      BY <1>1, <1>11 DEF ViewPolished, modelVars
    <2> QED BY <1>1, <2>1, QuietApi
  <1> QED BY <1>2, <1>3, <1>4, <1>5, <1>6, <1>7, <1>8, <1>9, <1>10, <1>11 DEF Next

LEMMA MoveWindowApi ==
    ASSUME ApiInv, NEW w \in Window, NEW from \in Zpace, NEW to \in Zpace,
           MoveWindow(w, from, to)
    PROVE  ApiInv' /\ Room
  <1>1. /\ ApiTypes /\ zpaces \in Seq(Zpace) /\ Listed \subseteq Zpace
        /\ wstate \in [Window -> {"none", "open", "closing"}]
        /\ currentIndex \in Int /\ nextIndex \in Int
        /\ UNCHANGED <<wstate, currentIndex, crashed>>
    BY ApiListed DEF ApiInv, ApiTypes, MoveWindow
  <1>2. CASE from \in Listed /\ to \in Listed /\ Moves(w, from, to)
    <2>1. PopAndAdd(w, from, to) /\ w \in ToSet(windows[from]) /\ Len(windows[to]) < limit[to]
      BY <1>2 DEF MoveWindow, Moves, AcceptsWindow
    <2>2. /\ windows' \in [Model -> Seq(Window)] /\ linked' \in [Model -> SUBSET Window]
          /\ Kept' /\ Once' /\ Held'
          /\ \A z \in Zpace \ {to} : Len(windows'[z]) <= Len(windows[z])
      BY <1>1, <2>1, MovedIsHeld
    <2>3. zpaces' \in Seq(Zpace) /\ nextIndex' \in Int
      <3>1. \/ UNCHANGED <<zpaces, nextIndex>>
            \/ /\ zpaces' = RemoveAt(zpaces, PositionOf(zpaces, from))
               /\ nextIndex' = IndexAfterRemoval(nextIndex, PositionOf(zpaces, from) - 1, Len(zpaces))
        BY <2>1 DEF PopAndAdd
      <3> QED BY <1>1, <1>2, <3>1, RowRemoved
    <2>4. ApiTypes'
      BY <1>1, <2>2, <2>3 DEF ApiTypes
    <2>5. Room
      <3> SUFFICES ASSUME NEW z \in Listed, Len(windows'[z]) > Len(windows[z])
                   PROVE  Len(windows[z]) < limit[z]
        BY DEF Room
      <3>1. CASE z = to
        BY <2>1, <3>1
      <3>2. CASE z # to
        <4>1. Len(windows'[z]) <= Len(windows[z]) /\ Len(windows[z]) \in Nat /\ Len(windows'[z]) \in Nat
          BY <1>1, <2>2, <3>2 DEF ApiTypes, Model
        <4> QED BY <4>1
      <3> QED BY <3>1, <3>2
    <2> QED BY <2>2, <2>4, <2>5 DEF ApiInv
  <1>3. CASE ~ (from \in Listed /\ to \in Listed /\ Moves(w, from, to))
    <2>1. UNCHANGED <<windows, linked, zpaces, nextIndex>>
      BY <1>3 DEF MoveWindow
    <2> QED BY <1>1, <2>1, QuietApi
  <1> QED BY <1>2, <1>3

LEMMA ApiCallApi == ApiInv /\ ApiCall => ApiInv' /\ Room
  <1> SUFFICES ASSUME ApiInv, ApiCall PROVE ApiInv' /\ Room
    OBVIOUS
  <1>1. /\ ApiTypes /\ zpaces \in Seq(Zpace) /\ Len(zpaces) \in Nat
        /\ wstate \in [Window -> {"none", "open", "closing"}]
        /\ currentIndex \in Int /\ nextIndex \in Int
    BY DEF ApiInv, ApiTypes
  <1>2. ASSUME NEW i \in 0 .. Len(zpaces) - 1, RemoveZpace(i) PROVE ApiInv' /\ Room
    <2>1. /\ UNCHANGED <<windows, linked, wstate, crashed, currentIndex>>
          /\ zpaces' = RemoveAt(zpaces, i + 1)
          /\ nextIndex' = IndexAfterRemoval(nextIndex, i, Len(zpaces))
      BY <1>2 DEF RemoveZpace
    <2>2. zpaces' \in Seq(Zpace) /\ nextIndex' \in Int
      BY <1>1, <2>1, RemoveAtShape DEF IndexAfterRemoval
    <2> QED BY <1>1, <2>1, <2>2, QuietApi
  <1>3. ASSUME NEW i \in 0 .. Len(zpaces) - 1, NEW j \in 0 .. Len(zpaces) - 1,
               MoveZpace(i, j)
        PROVE  ApiInv' /\ Room
    <2>1. UNCHANGED <<windows, linked, wstate, crashed, currentIndex>>
      BY <1>3 DEF MoveZpace
    <2>2. zpaces' \in Seq(Zpace) /\ nextIndex' \in Int
      BY <1>1, <1>3, MoveZpaceTypes
    <2> QED BY <1>1, <2>1, <2>2, QuietApi
  <1> QED BY <1>2, <1>3, MoveWindowApi DEF ApiCall

LEMMA StepApi == ApiInv /\ [ShellStep \/ ApiCall]_apiVars => ApiInv' /\ (UNCHANGED windows \/ Room)
  <1> SUFFICES ASSUME ApiInv, [ShellStep \/ ApiCall]_apiVars
               PROVE  ApiInv' /\ (UNCHANGED windows \/ Room)
    OBVIOUS
  <1>1. CASE ShellStep
    BY <1>1, ShellStepApi
  <1>2. CASE ApiCall
    BY <1>2, ApiCallApi
  <1>3. CASE UNCHANGED apiVars
    <2>1. UNCHANGED <<windows, linked, crashed, wstate, zpaces, currentIndex, nextIndex>>
      BY <1>3 DEF apiVars, vars, modelVars, viewVars
    <2> QED BY <2>1, QuietApi DEF ApiInv, ApiTypes
  <1> QED BY <1>1, <1>2, <1>3

-----------------------------------------------------------------------------
(* Whatever is moved or removed, by however many calls and at whatever     *)
(* moment of the shell's own work, a window of the screen is in the model  *)
(* of one Zpace and of no other (surfacesmodel.cpp:57-108).                *)
THEOREM ApiNeverLoses == ApiSpec => []NeverLost
  <1>1. ApiInv => NeverLost
    <2> SUFFICES ASSUME ApiInv, NEW w \in Window
                 PROVE  LET holders == { z \in Zpace : w \in ToSet(windows[z]) }
                        IN  /\ \A y, z \in holders : y = z
                            /\ wstate[w] # "none" /\ ~crashed => holders # {}
      BY DEF NeverLost
    <2> QED BY DEF ApiInv, Once, Held
  <1> QED BY <1>1, InitApiInv, StepApi, PTL DEF ApiSpec

(* No arrival and no call puts a window into a full workspace of the list  *)
(* (zpace.cpp:43, zpaces.cpp:72 and :109).                                 *)
THEOREM ApiNeverOverfills == ApiSpec => NeverOverfilled
  <1> DEFINE Step == \A z \in Listed : Len(windows'[z]) > Len(windows[z]) =>
                        Len(windows[z]) < limit[z]
  <1>1. ApiInv /\ [ShellStep \/ ApiCall]_apiVars => [Step]_apiVars
    <2> SUFFICES ASSUME ApiInv, [ShellStep \/ ApiCall]_apiVars, ~ UNCHANGED apiVars
                 PROVE  Step
      OBVIOUS
    <2>1. CASE Room
      BY <2>1 DEF Room
    <2>2. CASE UNCHANGED windows
      <3>1. \A z \in Listed : Len(windows[z]) \in Nat
        BY ApiListed DEF ApiInv, ApiTypes, Model
      <3> QED BY <2>2, <3>1
    <2> QED BY <2>1, <2>2, StepApi
  <1> QED BY <1>1, InitApiInv, StepApi, PTL DEF ApiSpec, NeverOverfilled
=============================================================================
