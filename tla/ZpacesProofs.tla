---------------------------- MODULE ZpacesProofs ----------------------------
(***************************************************************************)
(* Theorems about the workspaces, for every number of windows, workspaces  *)
(* and output widths.                                                      *)
(***************************************************************************)
EXTENDS Zpaces, SequenceLemmas, FiniteSetTheorems, TLAPS

-----------------------------------------------------------------------------
(* The lists of the models. *)

(* PositionOf finds an element that is there. *)
LEMMA PositionOfElement ==
    ASSUME NEW S, NEW s \in Seq(S), NEW e \in ToSet(s)
    PROVE  PositionOf(s, e) \in 1 .. Len(s) /\ s[PositionOf(s, e)] = e
  <1>1. \E i \in 1 .. Len(s) : s[i] = e
    BY DEF ToSet
  <1> QED BY <1>1 DEF PositionOf

(* removeWindow(indexOf(w)) takes w out and keeps the others.              *)
LEMMA WithoutSet ==
    ASSUME NEW S, NEW s \in Seq(S), NEW e, IsInjective(s)
    PROVE  /\ Without(s, e) \in Seq(S)
           /\ IsInjective(Without(s, e))
           /\ ToSet(Without(s, e)) = ToSet(s) \ {e}
  <1>1. CASE e \in ToSet(s)
    <2> DEFINE r == PositionOf(s, e)
    <2>1. r \in 1 .. Len(s) /\ s[r] = e
      BY <1>1, PositionOfElement
    <2> HIDE DEF r
    <2>2. RemoveAt(s, r) \in Seq(S)
      BY <2>1, RemoveAtShape
    <2>3. IsInjective(RemoveAt(s, r)) /\ ToSet(RemoveAt(s, r)) = ToSet(s) \ {s[r]}
      BY <2>1, RemoveAtSet
    <2> QED BY <1>1, <2>1, <2>2, <2>3 DEF Without, r
  <1>2. CASE e \notin ToSet(s)
    BY <1>2 DEF Without
  <1> QED BY <1>1, <1>2

-----------------------------------------------------------------------------
(* The inductive invariant: the models of a window are those its           *)
(* destroyed() signal reaches, so that the delete takes it out of all.     *)
Linked == \A m \in Model : linked[m] = ToSet(windows[m])

Inv == TypeOK /\ Placement /\ Linked

LEMMA ListedZpaces == TypeOK => Listed \subseteq Zpace
  BY ToSetOfSeq DEF TypeOK, Listed

(* addWindow of m_allSurfaces and of one Zpace, for a window in no model.  *)
LEMMA AddToModelsEffect ==
    ASSUME Inv, NEW w \in Window, NEW z \in Zpace, AddToModels(w, z),
           wstate[w] = "none"
    PROVE  /\ windows' \in [Model -> Seq(Window)]
           /\ linked' \in [Model -> SUBSET Window]
           /\ \A m \in Model : IsInjective(windows'[m])
           /\ \A m \in Model : ToSet(windows'[m]) =
                 IF m \in {AllSurfaces, z} THEN ToSet(windows[m]) \cup {w}
                                           ELSE ToSet(windows[m])
           /\ Linked'
  <1> USE ZpacesAssumption DEF Model
  <1>1. \A m \in Model : w \notin ToSet(windows[m])
    BY ListedZpaces DEF Inv, Placement, AllSurfacesHoldsAll, OnlyListedHold
  <1>2. windows \in [Model -> Seq(Window)] /\ linked \in [Model -> SUBSET Window]
    BY DEF Inv, TypeOK
  <1>3. \A m \in Model : windows'[m] = IF m \in {AllSurfaces, z}
                                       THEN Append(windows[m], w) ELSE windows[m]
    BY <1>2 DEF AddToModels
  <1>4. \A m \in Model : linked'[m] = IF m \in {AllSurfaces, z}
                                      THEN linked[m] \cup {w} ELSE linked[m]
    BY <1>2 DEF AddToModels
  <1>5. windows' \in [Model -> Seq(Window)] /\ linked' \in [Model -> SUBSET Window]
    <2>1. \A m \in Model : Append(windows[m], w) \in Seq(Window)
      BY <1>2, AppendSet
    <2> QED BY <1>2, <2>1 DEF AddToModels
  <1>6. ASSUME NEW m \in Model
        PROVE  /\ IsInjective(windows'[m])
               /\ ToSet(windows'[m]) = IF m \in {AllSurfaces, z}
                                       THEN ToSet(windows[m]) \cup {w}
                                       ELSE ToSet(windows[m])
    <2>1. IsInjective(windows[m]) /\ windows[m] \in Seq(Window)
      BY <1>2 DEF Inv, Placement, NoDuplicates
    <2>2. CASE m \in {AllSurfaces, z}
      BY <1>1, <1>3, <2>1, <2>2, AppendSet
    <2>3. CASE m \notin {AllSurfaces, z}
      BY <1>3, <2>1, <2>3
    <2> QED BY <2>2, <2>3
  <1>7. Linked'
    <2> SUFFICES ASSUME NEW m \in Model PROVE linked'[m] = ToSet(windows'[m])
      BY DEF Linked
    <2> QED BY <1>4, <1>6 DEF Inv, Linked
  <1> QED BY <1>5, <1>6, <1>7

LEMMA AddToModelsTypes ==
    ASSUME Inv, NEW w \in Window, NEW z \in Zpace, AddToModels(w, z),
           wstate[w] = "none"
    PROVE  windows' \in [Model -> Seq(Window)] /\ linked' \in [Model -> SUBSET Window]
  BY AddToModelsEffect

LEMMA AddToModelsHolds ==
    ASSUME Inv, NEW w \in Window, NEW z \in Zpace, AddToModels(w, z),
           wstate[w] = "none"
    PROVE  w \in ToSet(windows'[z])
  <1>1. z \in Model
    BY DEF Model
  <1>2. ToSet(windows'[z]) = ToSet(windows[z]) \cup {w}
    BY <1>1, AddToModelsEffect
  <1> QED BY <1>2

(* The deferred delete takes the window out of every model.                *)
LEMMA DeleteWindowEffect ==
    ASSUME Inv, NEW w \in Window, DeleteWindow(w)
    PROVE  /\ windows' \in [Model -> Seq(Window)]
           /\ linked' \in [Model -> SUBSET Window]
           /\ \A m \in Model : /\ IsInjective(windows'[m])
                               /\ ToSet(windows'[m]) = ToSet(windows[m]) \ {w}
           /\ Linked'
  <1>1. windows \in [Model -> Seq(Window)] /\ linked \in [Model -> SUBSET Window]
    BY DEF Inv, TypeOK
  <1>2. \A m \in Model : windows'[m] = IF w \in linked[m] THEN Without(windows[m], w)
                                                         ELSE windows[m]
    BY DEF DeleteWindow
  <1>3. linked' = [m \in Model |-> linked[m] \ {w}]
    BY DEF DeleteWindow
  <1>4. ASSUME NEW m \in Model
        PROVE  /\ windows'[m] \in Seq(Window)
               /\ IsInjective(windows'[m])
               /\ ToSet(windows'[m]) = ToSet(windows[m]) \ {w}
    <2>1. IsInjective(windows[m]) /\ windows[m] \in Seq(Window)
      BY <1>1 DEF Inv, Placement, NoDuplicates
    <2>2. linked[m] = ToSet(windows[m])
      BY DEF Inv, Linked
    <2> QED BY <1>2, <2>1, <2>2, WithoutSet
  <1>5. windows' \in [Model -> Seq(Window)]
    BY <1>4 DEF DeleteWindow
  <1>6. Linked'
    BY <1>3, <1>4 DEF Inv, Linked
  <1> QED BY <1>1, <1>3, <1>4, <1>5, <1>6

-----------------------------------------------------------------------------
(* Each action preserves the invariant. *)

LEMMA InitInv == Init => Inv
  <1> SUFFICES ASSUME Init PROVE Inv
    OBVIOUS
  <1> USE ZpacesAssumption DEF Model
  <1>1. PICK z \in Zpace : zpaces = <<z>>
    BY DEF Init
  <1>2. TypeOK
    <2>1. limit \in [Zpace -> {1, 2, 20}]
      BY DEF Init
    <2>2. \A m \in Model : <<>> \in Seq(Window) /\ {} \in SUBSET Window
      OBVIOUS
    <2>3. /\ windows \in [Model -> Seq(Window)]
          /\ linked \in [Model -> SUBSET Window]
      BY <2>2 DEF Init
    <2>4. zpaces \in Seq(Zpace)
      BY <1>1
    <2>5. /\ zmode \in ZMode /\ configured \in BOOLEAN
          /\ wstate \in [Window -> {"none", "open", "closing"}]
          /\ currentIndex \in Nat \cup {-1} /\ nextIndex \in Nat \cup {-1}
          /\ isTouch \in BOOLEAN /\ overview \in BOOLEAN /\ crashed \in BOOLEAN
      BY DEF Init, ZMode
    <2> QED BY <2>1, <2>3, <2>4, <2>5 DEF TypeOK
  <1>3. IsInjective(zpaces) /\ Listed = {z}
    BY <1>1 DEF IsInjective, Listed, ToSet
  <1>4. \A m \in Model : windows[m] = <<>> /\ linked[m] = {}
    BY DEF Init
  <1>5. \A m \in Model : ToSet(windows[m]) = {} /\ IsInjective(windows[m])
    BY <1>4 DEF ToSet, IsInjective
  <1>6. \A w \in Window : wstate[w] = "none"
    BY DEF Init
  <1>7. Linked
    BY <1>4, <1>5 DEF Linked
  <1>8. Placement
    BY <1>3, <1>5, <1>6
       DEF Placement, NoDuplicates, AllSurfacesHoldsAll, OnlyListedHold,
           EachIsHeld, HeldOnce
  <1> QED BY <1>2, <1>7, <1>8 DEF Inv

(* A window put in the workspace z of the list, new or not.                *)
LEMMA PlacedInv ==
    ASSUME Inv, ~crashed, NEW w \in Window, NEW z \in Zpace,
           wstate[w] = "none", wstate' = [wstate EXCEPT ![w] = "open"],
           AddToModels(w, z), UNCHANGED crashed,
           zpaces' \in Seq(Zpace), IsInjective(zpaces'),
           Listed' = Listed \cup {z}
    PROVE  Placement' /\ Linked'
  <1> USE ZpacesAssumption DEF Model
  <1>1. /\ \A m \in Model : IsInjective(windows'[m])
        /\ \A m \in Model : ToSet(windows'[m]) =
              IF m \in {AllSurfaces, z} THEN ToSet(windows[m]) \cup {w}
                                        ELSE ToSet(windows[m])
        /\ Linked'
    BY AddToModelsEffect
  <1>2. /\ NoDuplicates /\ AllSurfacesHoldsAll /\ OnlyListedHold
        /\ EachIsHeld /\ HeldOnce /\ wstate \in [Window -> {"none", "open", "closing"}]
    BY DEF Inv, Placement, TypeOK
  <1>3. \A m \in Model : w \notin ToSet(windows[m])
    BY <1>2 DEF AllSurfacesHoldsAll, OnlyListedHold
  <1>4. NoDuplicates'
    BY <1>1 DEF NoDuplicates
  <1>5. AllSurfacesHoldsAll'
    BY <1>1, <1>2 DEF AllSurfacesHoldsAll
  <1>6. OnlyListedHold'
    BY <1>1, <1>2 DEF OnlyListedHold
  <1>7. EachIsHeld'
    <2>1. \A y \in Listed : y \in Zpace
      BY ListedZpaces DEF Inv
    <2> QED BY <1>1, <1>2, <2>1 DEF EachIsHeld
  <1>8. HeldOnce'
    <2> SUFFICES ASSUME NEW x \in Zpace, NEW y \in Zpace, x # y,
                        NEW v \in ToSet(windows'[x]), v \in ToSet(windows'[y])
                 PROVE  FALSE
      BY DEF HeldOnce
    <2>1. \A u \in Zpace : u # AllSurfaces
      OBVIOUS
    <2>2. \A u \in Zpace : v \in ToSet(windows'[u]) =>
              v \in ToSet(windows[u]) \/ (u = z /\ v = w)
      BY <1>1, <2>1
    <2>3. ~ (v \in ToSet(windows[x]) /\ v \in ToSet(windows[y]))
      BY <1>2 DEF HeldOnce
    <2> QED BY <1>3, <2>2, <2>3
  <1> QED BY <1>1, <1>4, <1>5, <1>6, <1>7, <1>8 DEF Placement

(* A free Zpace is not on the list, and is one of the Zpaces.              *)
LEMMA NewZpaceUnused == Unused # {} => NewZpace \in Zpace /\ NewZpace \notin Listed
  BY DEF Unused, NewZpace

LEMMA ToplevelCreatedInv ==
    ASSUME Inv, ~crashed, isTouch' = isTouch, NEW w \in Window, ToplevelCreated(w)
    PROVE  Inv'
  <1> USE ZpacesAssumption DEF Model
  <1>1. /\ wstate[w] = "none" /\ wstate' = [wstate EXCEPT ![w] = "open"]
        /\ UNCHANGED <<zmode, configured, overview>>
        /\ AddToListed(w) \/ AddToNew(w) \/ AddToNull(w)
    BY DEF ToplevelCreated
  <1>2. /\ wstate' \in [Window -> {"none", "open", "closing"}]
        /\ zpaces \in Seq(Zpace) /\ limit \in [Zpace -> {1, 2, 20}]
        /\ zmode' \in ZMode /\ configured' \in BOOLEAN
        /\ isTouch' \in BOOLEAN /\ overview' \in BOOLEAN /\ crashed \in BOOLEAN
        /\ currentIndex \in Nat \cup {-1} /\ nextIndex \in Nat \cup {-1}
        /\ windows \in [Model -> Seq(Window)] /\ linked \in [Model -> SUBSET Window]
        /\ IsInjective(zpaces)
    BY <1>1 DEF Inv, TypeOK, Placement, NoDuplicates
  <1>3. CASE AddToListed(w)
    <2>1. PICK i \in Accepting(currentIndex) :
              AddToModels(w, ZpaceAt(i)) /\ SetCurrentIndex(i)
      BY <1>3 DEF AddToListed
    <2>2. i \in Nat /\ i + 1 \in 1 .. Len(zpaces)
      BY <1>2, <1>3 DEF Accepting, AddToListed
    <2>3. ZpaceAt(i) \in Zpace /\ ZpaceAt(i) \in Listed
      BY <1>2, <2>2 DEF ZpaceAt, Listed, ToSet
    <2>4. UNCHANGED <<zpaces, limit, crashed>> /\ Listed' = Listed
      BY <1>3 DEF AddToListed, Listed
    <2>5. Placement' /\ Linked'
      <3>1. /\ zpaces' \in Seq(Zpace) /\ IsInjective(zpaces')
            /\ Listed' = Listed \cup {ZpaceAt(i)}
        BY <1>2, <2>3, <2>4
      <3>2. AddToModels(w, ZpaceAt(i)) /\ UNCHANGED crashed
        BY <2>1, <2>4
      <3> HIDE DEF Model
      <3> QED BY <1>1, <2>3, <3>1, <3>2, PlacedInv
    <2>6. windows' \in [Model -> Seq(Window)] /\ linked' \in [Model -> SUBSET Window]
      BY <1>1, <2>1, <2>3, AddToModelsTypes
    <2>7. TypeOK'
      BY <1>2, <2>1, <2>2, <2>4, <2>6 DEF TypeOK, SetCurrentIndex
    <2> QED BY <2>5, <2>7 DEF Inv
  <1>4. CASE AddToNew(w)
    <2>1. /\ zpaces' = Append(zpaces, NewZpace)
          /\ limit' = [limit EXCEPT ![NewZpace] = ModeLimit(zmode)]
          /\ AddToModels(w, NewZpace)
          /\ SetCurrentIndex(Len(zpaces))
          /\ UNCHANGED crashed
          /\ NewZpace \in Zpace /\ NewZpace \notin Listed
      BY <1>4, NewZpaceUnused DEF AddToNew
    <2>2. /\ zpaces' \in Seq(Zpace) /\ IsInjective(zpaces')
          /\ Listed' = Listed \cup {NewZpace}
      BY <1>2, <2>1, AppendSet DEF Listed
    <2>3. Placement' /\ Linked'
      BY <1>1, <2>1, <2>2, PlacedInv
    <2>4. windows' \in [Model -> Seq(Window)] /\ linked' \in [Model -> SUBSET Window]
      BY <1>1, <2>1, AddToModelsEffect
    <2>5. limit' \in [Zpace -> {1, 2, 20}]
      BY <1>2, <2>1 DEF ModeLimit
    <2>6. TypeOK'
      BY <1>2, <2>1, <2>2, <2>4, <2>5 DEF TypeOK, SetCurrentIndex
    <2> QED BY <2>3, <2>6 DEF Inv
  <1>5. CASE AddToNull(w)
    <2>1. /\ windows' = [windows EXCEPT ![AllSurfaces] = Append(@, w)]
          /\ linked' = [linked EXCEPT ![AllSurfaces] = @ \cup {w}]
          /\ crashed' = TRUE
          /\ UNCHANGED <<zpaces, limit, currentIndex, nextIndex>>
      BY <1>5 DEF AddToNull, viewVars
    <2>2. \A m \in Model : w \notin ToSet(windows[m])
      BY <1>1, ListedZpaces DEF Inv, Placement, AllSurfacesHoldsAll, OnlyListedHold
    <2>3. /\ windows[AllSurfaces] \in Seq(Window) /\ IsInjective(windows[AllSurfaces])
      BY <1>2 DEF Inv, Placement, NoDuplicates
    <2>4. /\ windows'[AllSurfaces] \in Seq(Window) /\ IsInjective(windows'[AllSurfaces])
          /\ ToSet(windows'[AllSurfaces]) = ToSet(windows[AllSurfaces]) \cup {w}
      BY <1>2, <2>1, <2>2, <2>3, AppendSet
    <2>5. \A z \in Zpace : windows'[z] = windows[z] /\ linked'[z] = linked[z]
      BY <1>2, <2>1
    <2>6. TypeOK'
      BY <1>2, <2>1, <2>4 DEF TypeOK
    <2>7. Linked'
      BY <1>2, <2>1, <2>4, <2>5 DEF Inv, Linked
    <2>8. Listed' = Listed
      BY <2>1 DEF Listed
    <2>9. Placement'
      BY <1>1, <1>2, <2>1, <2>4, <2>5, <2>8
         DEF Inv, TypeOK, Placement, NoDuplicates, AllSurfacesHoldsAll,
             OnlyListedHold, EachIsHeld, HeldOnce
    <2> QED BY <2>6, <2>7, <2>9 DEF Inv
  <1> QED BY <1>1, <1>3, <1>4, <1>5

(* The window w is deleted: the Zpace it leaves empty may leave the list.  *)
LEMMA DeleteWindowInv ==
    ASSUME Inv, ~crashed, isTouch' = isTouch, NEW w \in Window, DeleteWindow(w)
    PROVE  Inv'
  <1> USE ZpacesAssumption DEF Model
  <1> DEFINE emptied == { z \in Zpace : windows[z] # <<>> /\ windows'[z] = <<>> }
  <1>1. /\ wstate[w] = "closing" /\ wstate' = [wstate EXCEPT ![w] = "none"]
        /\ UNCHANGED <<zmode, configured, limit, currentIndex, overview, crashed>>
        /\ \/ UNCHANGED <<zpaces, nextIndex>>
           \/ \E z \in emptied : CloseIfEmpty(z)
    BY DEF DeleteWindow
  <1>2. /\ windows' \in [Model -> Seq(Window)]
        /\ linked' \in [Model -> SUBSET Window]
        /\ \A m \in Model : /\ IsInjective(windows'[m])
                            /\ ToSet(windows'[m]) = ToSet(windows[m]) \ {w}
        /\ Linked'
    BY DeleteWindowEffect
  <1>3. /\ TypeOK /\ NoDuplicates /\ AllSurfacesHoldsAll /\ OnlyListedHold
        /\ EachIsHeld /\ HeldOnce /\ Listed \subseteq Zpace
    BY ListedZpaces DEF Inv, Placement
  <1>4. /\ zpaces' \in Seq(Zpace) /\ IsInjective(zpaces')
        /\ Listed' \subseteq Listed
        /\ \A z \in Listed : z \in Listed' \/ windows'[z] = <<>>
        /\ nextIndex' \in Nat \cup {-1}
    <2>1. CASE UNCHANGED <<zpaces, nextIndex>>
      BY <1>3, <2>1 DEF NoDuplicates, TypeOK, Listed
    <2>2. ASSUME NEW z \in emptied, CloseIfEmpty(z), zpaces' # zpaces \/ nextIndex' # nextIndex
          PROVE  <1>4!:
      <3> DEFINE r == PositionOf(zpaces, z)
      <3>1. /\ windows'[z] = <<>> /\ z \in Listed /\ Len(zpaces) > 1
            /\ zpaces' = RemoveAt(zpaces, r)
            /\ nextIndex' = IndexAfterRemoval(nextIndex, r - 1, Len(zpaces))
        BY <2>2 DEF CloseIfEmpty
      <3>2. zpaces \in Seq(Zpace) /\ IsInjective(zpaces)
        BY <1>3 DEF TypeOK, NoDuplicates
      <3>3. r \in 1 .. Len(zpaces) /\ zpaces[r] = z
        BY <3>1, <3>2, PositionOfElement DEF Listed
      <3> HIDE DEF r
      <3>4. zpaces' \in Seq(Zpace) /\ IsInjective(zpaces') /\ Listed' = Listed \ {z}
        BY <3>1, <3>2, <3>3, RemoveAtShape, RemoveAtSet DEF Listed
      <3>5. nextIndex' \in Nat \cup {-1}
        <4>1. /\ nextIndex \in Nat \cup {-1} /\ r - 1 \in Nat
              /\ Len(zpaces) \in Nat /\ r - 1 <= Len(zpaces) - 1
          BY <1>3, <3>2, <3>3 DEF TypeOK
        <4> QED BY <3>1, <4>1 DEF IndexAfterRemoval
      <3> QED BY <3>1, <3>4, <3>5
    <2> QED BY <1>1, <2>1, <2>2
  <1>5. TypeOK'
    BY <1>1, <1>2, <1>3, <1>4 DEF TypeOK
  <1>6. NoDuplicates'
    BY <1>2, <1>4 DEF NoDuplicates
  <1>7. AllSurfacesHoldsAll'
    <2>1. ToSet(windows'[AllSurfaces]) = ToSet(windows[AllSurfaces]) \ {w}
      BY <1>2
    <2>2. \A v \in Window : wstate'[v] = IF v = w THEN "none" ELSE wstate[v]
      BY <1>1, <1>3 DEF TypeOK
    <2> QED BY <1>3, <2>1, <2>2 DEF AllSurfacesHoldsAll
  <1>8. OnlyListedHold'
    <2>1. \A z \in Zpace : windows'[z] = <<>> => ToSet(windows'[z]) = {}
      BY <1>2, ToSetOfSeq
    <2> QED BY <1>2, <1>3, <1>4, <2>1 DEF OnlyListedHold
  <1>9. EachIsHeld'
    <2> SUFFICES ASSUME NEW v \in ToSet(windows'[AllSurfaces])
                 PROVE  \E z \in Listed' : v \in ToSet(windows'[z])
      BY DEF EachIsHeld
    <2>1. v \in ToSet(windows[AllSurfaces]) /\ v # w
      BY <1>2
    <2>2. PICK z \in Listed : v \in ToSet(windows[z])
      BY <1>3, <2>1 DEF EachIsHeld
    <2>3. v \in ToSet(windows'[z])
      BY <1>2, <1>3, <2>1, <2>2
    <2>4. windows'[z] # <<>>
      BY <1>2, <1>3, <2>3, ToSetOfSeq
    <2> QED BY <1>4, <2>3, <2>4
  <1>10. HeldOnce'
    <2>1. \A z \in Zpace : ToSet(windows'[z]) \subseteq ToSet(windows[z])
      BY <1>2
    <2>2. ASSUME NEW y \in Zpace, NEW z \in Zpace, y # z
          PROVE  ToSet(windows'[y]) \cap ToSet(windows'[z]) = {}
      BY <1>3, <2>1, <2>2 DEF HeldOnce
    <2> QED BY <2>2 DEF HeldOnce
  <1> QED BY <1>2, <1>5, <1>6, <1>7, <1>8, <1>9, <1>10 DEF Inv, Placement

(* The actions that leave the models alone. *)
LEMMA ModelsKept ==
    ASSUME Inv, UNCHANGED <<zpaces, windows, linked>>, UNCHANGED crashed,
           \A w \in Window : wstate[w] = "none" <=> wstate'[w] = "none"
    PROVE  Placement' /\ Linked'
  <1>1. Listed' = Listed
    BY DEF Listed
  <1> QED BY <1>1 DEF Inv, Linked, Placement, NoDuplicates, AllSurfacesHoldsAll,
                      OnlyListedHold, EachIsHeld, HeldOnce

(* Zpaces::insertZpace puts an empty workspace first. *)
LEMMA InsertZpaceInv ==
    ASSUME Inv, ~crashed, isTouch' = isTouch, InsertZpace
    PROVE  Inv'
  <1> USE ZpacesAssumption DEF Model
  <1>1. /\ zpaces' = <<NewZpace>> \o zpaces
        /\ limit' = [limit EXCEPT ![NewZpace] = ModeLimit(zmode)]
        /\ currentIndex' = 0 /\ nextIndex' = 0
        /\ UNCHANGED <<zmode, configured, windows, linked, wstate, overview, crashed>>
        /\ NewZpace \in Zpace /\ NewZpace \notin Listed /\ windows[NewZpace] = <<>>
    BY NewZpaceUnused DEF InsertZpace, SetCurrentIndex, NewZpace, Unused
  <1>2. /\ TypeOK /\ NoDuplicates /\ AllSurfacesHoldsAll /\ OnlyListedHold
        /\ EachIsHeld /\ HeldOnce /\ Linked
    BY DEF Inv, Placement
  <1>3. /\ zpaces' \in Seq(Zpace) /\ IsInjective(zpaces')
        /\ Listed' = Listed \cup {NewZpace}
    BY <1>1, <1>2, PrependSet DEF TypeOK, NoDuplicates, Listed
  <1>4. limit' \in [Zpace -> {1, 2, 20}]
    BY <1>1, <1>2 DEF TypeOK, ModeLimit
  <1>5. TypeOK'
    BY <1>1, <1>2, <1>3, <1>4 DEF TypeOK
  <1>6. NoDuplicates' /\ AllSurfacesHoldsAll' /\ HeldOnce' /\ Linked'
    BY <1>1, <1>2, <1>3 DEF NoDuplicates, AllSurfacesHoldsAll, HeldOnce, Linked
  <1>7. OnlyListedHold'
    <2>1. ToSet(<<>>) = {}
      BY DEF ToSet
    <2> QED BY <1>1, <1>2, <1>3, <2>1 DEF OnlyListedHold
  <1>8. EachIsHeld'
    BY <1>1, <1>2, <1>3 DEF EachIsHeld
  <1> QED BY <1>5, <1>6, <1>7, <1>8 DEF Inv, Placement

(* A window is in one workspace of the list, so that indexOfZpace is its   *)
(* index, never -1, while the compositor is up.                            *)
LEMMA IndexOfZpaceFound ==
    ASSUME Inv, ~crashed, NEW w \in ToSet(windows[AllSurfaces])
    PROVE  IndexOfZpace(w) \in 0 .. Len(zpaces) - 1
  <1>1. /\ zpaces \in Seq(Zpace) /\ IsInjective(zpaces) /\ EachIsHeld /\ HeldOnce
    BY DEF Inv, TypeOK, Placement, NoDuplicates
  <1>2. PICK z \in Listed : w \in ToSet(windows[z])
    BY <1>1 DEF EachIsHeld
  <1>3. PICK k \in 1 .. Len(zpaces) : zpaces[k] = z
    BY <1>1, <1>2 DEF Listed, ToSet
  <1> DEFINE at == { i \in 0 .. Len(zpaces) - 1 : w \in ToSet(windows[ZpaceAt(i)]) }
  <1>4. k - 1 \in at
    BY <1>1, <1>2, <1>3 DEF ZpaceAt
  <1>5. ASSUME NEW i \in at PROVE i = k - 1
    <2>1. i + 1 \in 1 .. Len(zpaces) /\ w \in ToSet(windows[zpaces[i + 1]])
      BY <1>1 DEF ZpaceAt
    <2>2. zpaces[i + 1] = z
      <3>1. zpaces[i + 1] \in Zpace /\ z \in Zpace
        BY <1>1, <1>3, <2>1
      <3> QED BY <1>1, <1>2, <2>1, <3>1 DEF HeldOnce
    <2> QED BY <1>1, <1>3, <2>1, <2>2 DEF IsInjective
  <1>6. at = {k - 1}
    BY <1>4, <1>5
  <1>7. FirstOf(at) = k - 1
    BY <1>1, <1>3, <1>6 DEF FirstOf
  <1>8. IndexOfZpace(w) = FirstOf(at)
    BY <1>6 DEF IndexOfZpace
  <1> QED BY <1>1, <1>3, <1>7, <1>8

LEMMA StepInv == Inv /\ [Next]_vars => Inv'
  <1> SUFFICES ASSUME Inv, [Next]_vars PROVE Inv'
    OBVIOUS
  <1> USE ZpacesAssumption
  <1>1. CASE UNCHANGED vars
    BY <1>1 DEF vars, modelVars, viewVars, Inv, Linked, TypeOK, Placement, NoDuplicates,
                AllSurfacesHoldsAll, OnlyListedHold, EachIsHeld, HeldOnce, Listed
  <1>2. CASE Next
    <2>1. ~crashed /\ isTouch' = isTouch
      BY <1>2 DEF Next
    <2>2. ASSUME NEW w \in Window, ToplevelCreated(w) PROVE Inv'
      BY <2>1, <2>2, ToplevelCreatedInv
    <2>3. ASSUME NEW w \in Window, ShellSurfaceDestroyed(w) PROVE Inv'
      <3>1. /\ wstate[w] = "open" /\ wstate' = [wstate EXCEPT ![w] = "closing"]
            /\ UNCHANGED <<zmode, configured, zpaces, limit, windows, linked,
                           viewVars, overview, crashed>>
        BY <2>3 DEF ShellSurfaceDestroyed
      <3>2. wstate \in [Window -> {"none", "open", "closing"}]
        BY DEF Inv, TypeOK
      <3>3. Placement' /\ Linked'
        <4>1. \A v \in Window : wstate[v] = "none" <=> wstate'[v] = "none"
          BY <3>1, <3>2
        <4> QED BY <3>1, <4>1, ModelsKept
      <3>4. TypeOK'
        BY <2>1, <3>1, <3>2 DEF Inv, TypeOK, viewVars
      <3> QED BY <3>3, <3>4 DEF Inv
    <2>4. ASSUME NEW w \in Window, DeleteWindow(w) PROVE Inv'
      BY <2>1, <2>4, DeleteWindowInv
    <2>5. ASSUME NEW w \in Window, WindowPicked(w) PROVE Inv'
      <3>1. /\ UNCHANGED <<modelVars, overview, crashed>>
            /\ currentIndex' = IndexOfZpace(w) /\ nextIndex' = IndexOfZpace(w)
            /\ IndexOfZpace(w) \in 0 .. Len(zpaces) - 1
        BY <2>1, <2>5, IndexOfZpaceFound DEF WindowPicked, SetCurrentIndex
      <3>2. TypeOK'
        BY <2>1, <3>1 DEF Inv, TypeOK, modelVars
      <3> QED BY <3>1, <3>2, ModelsKept DEF Inv, modelVars
    <2>6. ASSUME NEW width \in Widths, GeometryChanged(width) PROVE Inv'
      <3>1. TypeOK'
        BY <2>1, <2>6 DEF GeometryChanged, Inv, TypeOK, ModeLimit, ModeOf, ZMode, viewVars
      <3> QED BY <2>6, <3>1, ModelsKept DEF Inv, GeometryChanged
    <2>7. ASSUME InsertZpace PROVE Inv'
      BY <2>1, <2>7, InsertZpaceInv
    <2>8. ASSUME SwitcherReleased PROVE Inv'
      <3>1. /\ currentIndex' \in Nat \cup {-1} /\ nextIndex' \in Nat \cup {-1}
            /\ overview' \in BOOLEAN
        <4>1. currentIndex \in Nat \cup {-1} /\ nextIndex \in Nat \cup {-1}
          BY DEF Inv, TypeOK
        <4>2. \A i \in -1 .. Len(zpaces) - 1 : i \in Nat \cup {-1}
          OBVIOUS
        <4> QED BY <2>8, <4>1, <4>2 DEF SwitcherReleased, viewVars, SetCurrentIndex
      <3>2. TypeOK'
        BY <2>1, <2>8, <3>1 DEF SwitcherReleased, Inv, TypeOK, modelVars
      <3> QED BY <2>8, <3>2, ModelsKept DEF Inv, SwitcherReleased, modelVars
    <2>9. ASSUME NEW i \in 0 .. Len(zpaces) - 1, ZpaceTapped(i) PROVE Inv'
      <3>1. i \in Nat
        OBVIOUS
      <3>2. TypeOK'
        BY <2>1, <2>9, <3>1 DEF ZpaceTapped, Inv, TypeOK, modelVars, SetCurrentIndex
      <3> QED BY <2>9, <3>2, ModelsKept DEF Inv, ZpaceTapped, modelVars
    <2>10. ASSUME ViewPolished PROVE Inv'
      <3>1. TypeOK'
        BY <2>1, <2>10 DEF ViewPolished, Inv, TypeOK, modelVars
      <3> QED BY <2>10, <3>1, ModelsKept DEF Inv, ViewPolished, modelVars
    <2> QED BY <1>2, <2>2, <2>3, <2>4, <2>5, <2>6, <2>7, <2>8, <2>9, <2>10 DEF Next
  <1> QED BY <1>1, <1>2

(* The variables keep their types; indexOfZpace never leaves the indices.  *)
THEOREM TypeCorrect == Spec => []TypeOK
  <1>1. Inv => TypeOK
    BY DEF Inv
  <1> QED BY <1>1, InitInv, StepInv, PTL DEF Spec

(* Every window of the screen is in exactly one workspace of the list and  *)
(* in m_allSurfaces, and no model holds anything else.                     *)
THEOREM PlacementHolds == Spec => []Placement
  <1>1. Inv => Placement
    BY DEF Inv
  <1> QED BY <1>1, InitInv, StepInv, PTL DEF Spec

-----------------------------------------------------------------------------
(* The order of the windows.  InOrder compares two lists by what they hold *)
(* and not through PositionOf, which is what makes it inductive.           *)
InOrder(s, u) ==
    \A i, j \in 1 .. Len(s), k, l \in 1 .. Len(u) :
        i < j /\ u[k] = s[i] /\ u[l] = s[j] => k < l

Ordered == \A z \in Zpace : InOrder(windows[z], windows[AllSurfaces])

LEMMA InOrderAppend ==
    ASSUME NEW S, NEW s \in Seq(S), NEW u \in Seq(S), NEW e \in S,
           e \notin ToSet(u), e \notin ToSet(s), InOrder(s, u)
    PROVE  /\ InOrder(s, Append(u, e))
           /\ InOrder(Append(s, e), Append(u, e))
  <1>1. /\ \A i \in 1 .. Len(s) : s[i] # e
        /\ \A k \in 1 .. Len(u) : u[k] # e
    BY DEF ToSet
  <1>2. /\ Len(Append(u, e)) = Len(u) + 1 /\ Append(u, e)[Len(u) + 1] = e
        /\ \A k \in 1 .. Len(u) : Append(u, e)[k] = u[k]
        /\ Len(Append(s, e)) = Len(s) + 1 /\ Append(s, e)[Len(s) + 1] = e
        /\ \A i \in 1 .. Len(s) : Append(s, e)[i] = s[i]
        /\ Len(s) \in Nat /\ Len(u) \in Nat
    OBVIOUS
  <1>3. InOrder(s, Append(u, e))
    <2> SUFFICES ASSUME NEW i \in 1 .. Len(s), NEW j \in 1 .. Len(s), i < j,
                        NEW k \in 1 .. Len(u) + 1, NEW l \in 1 .. Len(u) + 1,
                        Append(u, e)[k] = s[i], Append(u, e)[l] = s[j]
                 PROVE  k < l
      BY <1>2 DEF InOrder
    <2>1. k \in 1 .. Len(u) /\ l \in 1 .. Len(u)
      BY <1>1, <1>2
    <2> QED BY <1>2, <2>1 DEF InOrder
  <1>4. InOrder(Append(s, e), Append(u, e))
    <2> SUFFICES ASSUME NEW i \in 1 .. Len(s) + 1, NEW j \in 1 .. Len(s) + 1, i < j,
                        NEW k \in 1 .. Len(u) + 1, NEW l \in 1 .. Len(u) + 1,
                        Append(u, e)[k] = Append(s, e)[i],
                        Append(u, e)[l] = Append(s, e)[j]
                 PROVE  k < l
      BY <1>2 DEF InOrder
    <2>1. i \in 1 .. Len(s) /\ Append(s, e)[i] = s[i]
      BY <1>2
    <2>2. k \in 1 .. Len(u)
      BY <1>1, <1>2, <2>1
    <2>3. CASE j = Len(s) + 1
      BY <1>1, <1>2, <2>2, <2>3
    <2>4. CASE j # Len(s) + 1
      BY <1>2, <1>3, <2>1, <2>4 DEF InOrder
    <2> QED BY <2>3, <2>4
  <1> QED BY <1>3, <1>4

LEMMA InOrderRemoveLeft ==
    ASSUME NEW S, NEW s \in Seq(S), NEW u \in Seq(S), InOrder(s, u),
           NEW r \in 1 .. Len(s)
    PROVE  InOrder(RemoveAt(s, r), u)
  <1> DEFINE t == RemoveAt(s, r)
  <1>1. /\ Len(t) = Len(s) - 1
        /\ \A j \in 1 .. Len(s) - 1 : t[j] = IF j < r THEN s[j] ELSE s[j + 1]
    BY RemoveAtShape
  <1> HIDE DEF t
  <1>2. InOrder(t, u)
    <2> SUFFICES ASSUME NEW i \in 1 .. Len(s) - 1, NEW j \in 1 .. Len(s) - 1, i < j,
                        NEW k \in 1 .. Len(u), NEW l \in 1 .. Len(u),
                        u[k] = t[i], u[l] = t[j]
                 PROVE  k < l
      BY <1>1 DEF InOrder
    <2>1. PICK a \in 1 .. Len(s) : t[i] = s[a] /\ a = IF i < r THEN i ELSE i + 1
      BY <1>1
    <2>2. PICK b \in 1 .. Len(s) : t[j] = s[b] /\ b = IF j < r THEN j ELSE j + 1
      BY <1>1
    <2>3. a < b
      BY <2>1, <2>2
    <2> QED BY <2>1, <2>2, <2>3 DEF InOrder
  <1> QED BY <1>2 DEF t

LEMMA InOrderRemoveRight ==
    ASSUME NEW S, NEW s \in Seq(S), NEW u \in Seq(S), InOrder(s, u),
           NEW r \in 1 .. Len(u)
    PROVE  InOrder(s, RemoveAt(u, r))
  <1> DEFINE t == RemoveAt(u, r)
  <1>1. /\ Len(t) = Len(u) - 1
        /\ \A j \in 1 .. Len(u) - 1 : t[j] = IF j < r THEN u[j] ELSE u[j + 1]
    BY RemoveAtShape
  <1> HIDE DEF t
  <1>2. InOrder(s, t)
    <2> SUFFICES ASSUME NEW i \in 1 .. Len(s), NEW j \in 1 .. Len(s), i < j,
                        NEW k \in 1 .. Len(u) - 1, NEW l \in 1 .. Len(u) - 1,
                        t[k] = s[i], t[l] = s[j]
                 PROVE  k < l
      BY <1>1 DEF InOrder
    <2>1. PICK a \in 1 .. Len(u) : t[k] = u[a] /\ a = IF k < r THEN k ELSE k + 1
      BY <1>1
    <2>2. PICK b \in 1 .. Len(u) : t[l] = u[b] /\ b = IF l < r THEN l ELSE l + 1
      BY <1>1
    <2>3. a < b
      BY <2>1, <2>2 DEF InOrder
    <2> QED BY <2>1, <2>2, <2>3
  <1> QED BY <1>2 DEF t

LEMMA InOrderWithout ==
    ASSUME NEW S, NEW s \in Seq(S), NEW u \in Seq(S), NEW e, IsInjective(s),
           InOrder(s, u)
    PROVE  InOrder(Without(s, e), Without(u, e))
  <1>1. /\ Without(s, e) \in Seq(S)
        /\ InOrder(Without(s, e), u)
    <2>1. CASE e \in ToSet(s)
      <3>1. PositionOf(s, e) \in 1 .. Len(s)
        BY <2>1, PositionOfElement
      <3>2. Without(s, e) = RemoveAt(s, PositionOf(s, e))
        BY <2>1 DEF Without
      <3> QED BY <3>1, <3>2, WithoutSet, InOrderRemoveLeft
    <2>2. CASE e \notin ToSet(s)
      BY <2>2 DEF Without
    <2> QED BY <2>1, <2>2
  <1>2. CASE e \in ToSet(u)
    <2>1. PositionOf(u, e) \in 1 .. Len(u)
      BY <1>2, PositionOfElement
    <2>2. Without(u, e) = RemoveAt(u, PositionOf(u, e))
      BY <1>2 DEF Without
    <2> QED BY <1>1, <2>1, <2>2, InOrderRemoveRight
  <1>3. CASE e \notin ToSet(u)
    BY <1>1, <1>3 DEF Without
  <1> QED BY <1>2, <1>3

(* What an action that changes the models does to them. *)
LEMMA ModelsChange ==
    ASSUME Inv, [Next]_vars
    PROVE  \/ UNCHANGED windows
           \/ \E w \in Window : /\ wstate[w] = "none"
                                /\ windows' = [windows EXCEPT ![AllSurfaces] = Append(@, w)]
           \/ \E w \in Window, z \in Zpace : wstate[w] = "none" /\ AddToModels(w, z)
           \/ \E w \in Window : DeleteWindow(w)
  <1>1. ASSUME NEW w \in Window, ToplevelCreated(w)
        PROVE  \/ windows' = [windows EXCEPT ![AllSurfaces] = Append(@, w)]
               \/ \E z \in Zpace : AddToModels(w, z)
    <2>1. CASE AddToListed(w)
      <3>1. currentIndex \in Int /\ currentIndex >= 0 /\ Len(zpaces) \in Nat
        BY <2>1 DEF AddToListed, Inv, TypeOK
      <3>2. PICK i \in Accepting(currentIndex) : AddToModels(w, ZpaceAt(i))
        BY <2>1 DEF AddToListed
      <3>3. ZpaceAt(i) \in Zpace
        BY <3>1, <3>2 DEF Accepting, ZpaceAt, Inv, TypeOK
      <3> QED BY <3>2, <3>3
    <2>2. CASE AddToNew(w)
      BY <2>2, NewZpaceUnused DEF AddToNew
    <2>3. CASE AddToNull(w)
      BY <2>3 DEF AddToNull
    <2> QED BY <1>1, <2>1, <2>2, <2>3 DEF ToplevelCreated
  <1>2. ASSUME NEW w \in Window, ToplevelCreated(w) PROVE wstate[w] = "none"
    BY <1>2 DEF ToplevelCreated
  <1>3. ASSUME \/ \E w \in Window : ShellSurfaceDestroyed(w) \/ WindowPicked(w)
               \/ \E width \in Widths : GeometryChanged(width)
               \/ InsertZpace \/ SwitcherReleased
               \/ \E i \in 0 .. Len(zpaces) - 1 : ZpaceTapped(i)
               \/ ViewPolished
               \/ UNCHANGED vars
        PROVE  UNCHANGED windows
    BY <1>3 DEF ShellSurfaceDestroyed, WindowPicked, GeometryChanged, InsertZpace,
                SwitcherReleased, ZpaceTapped, ViewPolished, modelVars, vars
  <1> QED BY <1>1, <1>2, <1>3 DEF Next

(* The windows of a workspace always stand in the order they have in       *)
(* m_allSurfaces: both models add at the end and take out in place         *)
(* (SurfacesModel::addWindow and removeWindow).                            *)
THEOREM OrdersAlwaysAgree == Spec => []OrdersAgree
  <1>1. Init => Ordered
    BY ZpacesAssumption DEF Init, Ordered, InOrder, Model
  <1>2. ASSUME Inv, Ordered, [Next]_vars PROVE Ordered'
    <2> USE ZpacesAssumption DEF Model
    <2>1. /\ windows \in [Model -> Seq(Window)]
          /\ \A m \in Model : IsInjective(windows[m])
          /\ AllSurfaces \notin Zpace
      BY <1>2 DEF Inv, TypeOK, Placement, NoDuplicates
    <2>2. \A w \in Window : wstate[w] = "none" =>
              \A m \in Model : w \notin ToSet(windows[m])
      BY <1>2 DEF Inv, Placement, AllSurfacesHoldsAll, OnlyListedHold
    <2>3. CASE UNCHANGED windows
      BY <1>2, <2>3 DEF Ordered
    <2>4. ASSUME NEW w \in Window, wstate[w] = "none",
                 windows' = [windows EXCEPT ![AllSurfaces] = Append(@, w)]
          PROVE  Ordered'
      <3> SUFFICES ASSUME NEW z \in Zpace
                   PROVE  InOrder(windows'[z], windows'[AllSurfaces])
        BY DEF Ordered
      <3>1. windows'[z] = windows[z] /\ windows'[AllSurfaces] = Append(windows[AllSurfaces], w)
        BY <2>1, <2>4
      <3>2. InOrder(windows[z], windows[AllSurfaces])
        BY <1>2 DEF Ordered
      <3> QED BY <2>1, <2>2, <2>4, <3>1, <3>2, InOrderAppend
    <2>5. ASSUME NEW w \in Window, NEW y \in Zpace, wstate[w] = "none", AddToModels(w, y)
          PROVE  Ordered'
      <3> SUFFICES ASSUME NEW z \in Zpace
                   PROVE  InOrder(windows'[z], windows'[AllSurfaces])
        BY DEF Ordered
      <3>1. /\ windows'[z] = IF z = y THEN Append(windows[z], w) ELSE windows[z]
            /\ windows'[AllSurfaces] = Append(windows[AllSurfaces], w)
        BY <2>1, <2>5 DEF AddToModels
      <3>2. InOrder(windows[z], windows[AllSurfaces])
        BY <1>2 DEF Ordered
      <3>3. /\ InOrder(windows[z], Append(windows[AllSurfaces], w))
            /\ InOrder(Append(windows[z], w), Append(windows[AllSurfaces], w))
        BY <2>1, <2>2, <2>5, <3>2, InOrderAppend
      <3> QED BY <3>1, <3>3
    <2>6. ASSUME NEW w \in Window, DeleteWindow(w) PROVE Ordered'
      <3> SUFFICES ASSUME NEW z \in Zpace
                   PROVE  InOrder(windows'[z], windows'[AllSurfaces])
        BY DEF Ordered
      <3>1. \A m \in Model : windows'[m] = Without(windows[m], w)
        <4> SUFFICES ASSUME NEW m \in Model PROVE windows'[m] = Without(windows[m], w)
          OBVIOUS
        <4>1. windows'[m] = IF w \in linked[m] THEN Without(windows[m], w) ELSE windows[m]
          BY <2>6 DEF DeleteWindow
        <4>2. linked[m] = ToSet(windows[m])
          BY <1>2 DEF Inv, Linked
        <4>3. w \notin ToSet(windows[m]) => Without(windows[m], w) = windows[m]
          BY DEF Without
        <4> QED BY <4>1, <4>2, <4>3
      <3>2. InOrder(windows[z], windows[AllSurfaces])
        BY <1>2 DEF Ordered
      <3>3. InOrder(Without(windows[z], w), Without(windows[AllSurfaces], w))
        BY <2>1, <3>2, InOrderWithout
      <3> QED BY <3>1, <3>3
    <2> QED BY <1>2, <2>3, <2>4, <2>5, <2>6, ModelsChange
  <1>3. ASSUME Inv, Ordered PROVE OrdersAgree
    <2> SUFFICES ASSUME NEW z \in Listed,
                        NEW i \in 1 .. Len(windows[z]), NEW j \in 1 .. Len(windows[z]), i < j
                 PROVE  PositionOf(windows[AllSurfaces], windows[z][i])
                          < PositionOf(windows[AllSurfaces], windows[z][j])
      BY DEF OrdersAgree
    <2> USE ZpacesAssumption DEF Model
    <2>1. /\ z \in Zpace /\ windows[z] \in Seq(Window)
          /\ windows[AllSurfaces] \in Seq(Window)
          /\ ToSet(windows[z]) \subseteq ToSet(windows[AllSurfaces])
      BY <1>3, ListedZpaces DEF Inv, TypeOK, Placement, OnlyListedHold
    <2>2. /\ windows[z][i] \in ToSet(windows[AllSurfaces])
          /\ windows[z][j] \in ToSet(windows[AllSurfaces])
      <3>1. ToSet(windows[z]) = { windows[z][k] : k \in 1 .. Len(windows[z]) }
        BY <2>1, ToSetOfSeq
      <3> QED BY <2>1, <3>1
    <2> DEFINE k == PositionOf(windows[AllSurfaces], windows[z][i])
               l == PositionOf(windows[AllSurfaces], windows[z][j])
    <2>3. /\ k \in 1 .. Len(windows[AllSurfaces]) /\ windows[AllSurfaces][k] = windows[z][i]
          /\ l \in 1 .. Len(windows[AllSurfaces]) /\ windows[AllSurfaces][l] = windows[z][j]
      BY <2>1, <2>2, PositionOfElement
    <2> HIDE DEF k, l
    <2>4. k < l
      BY <1>3, <2>1, <2>3 DEF Ordered, InOrder
    <2> QED BY <2>4 DEF k, l
  <1> QED BY <1>1, <1>2, <1>3, InitInv, StepInv, PTL DEF Spec

-----------------------------------------------------------------------------
(* What an action that changes the list does to it and to the limits.      *)
LEMMA ListChange ==
    ASSUME Inv, Next
    PROVE  \/ UNCHANGED <<zpaces, limit, zmode, configured>>
           \/ /\ zmode' \in ZMode /\ UNCHANGED zpaces
              /\ \A z \in Zpace : limit'[z] = ModeLimit(zmode')
           \/ /\ UNCHANGED <<zmode, configured>>
              /\ NewZpace \in Zpace \ Listed
              /\ zpaces' = Append(zpaces, NewZpace) \/ zpaces' = <<NewZpace>> \o zpaces
              /\ limit' = [limit EXCEPT ![NewZpace] = ModeLimit(zmode)]
           \/ /\ UNCHANGED <<zmode, configured, limit>>
              /\ \E r \in 1 .. Len(zpaces) : zpaces' = RemoveAt(zpaces, r)
  <1> USE ZpacesAssumption
  <1>1. ASSUME NEW w \in Window, ToplevelCreated(w)
        PROVE  \/ UNCHANGED <<zpaces, limit, zmode, configured>>
               \/ /\ UNCHANGED <<zmode, configured>>
                  /\ NewZpace \in Zpace \ Listed
                  /\ zpaces' = Append(zpaces, NewZpace)
                  /\ limit' = [limit EXCEPT ![NewZpace] = ModeLimit(zmode)]
    BY <1>1, NewZpaceUnused DEF ToplevelCreated, AddToListed, AddToNew, AddToNull
  <1>2. ASSUME NEW w \in Window, DeleteWindow(w)
        PROVE  /\ UNCHANGED <<zmode, configured, limit>>
               /\ \/ UNCHANGED zpaces
                  \/ \E r \in 1 .. Len(zpaces) : zpaces' = RemoveAt(zpaces, r)
    <2>1. ASSUME NEW z \in Listed, zpaces' = RemoveAt(zpaces, PositionOf(zpaces, z))
          PROVE  \E r \in 1 .. Len(zpaces) : zpaces' = RemoveAt(zpaces, r)
      BY <2>1, PositionOfElement DEF Inv, TypeOK, Listed
    <2> QED BY <1>2, <2>1 DEF DeleteWindow, CloseIfEmpty
  <1>3. ASSUME InsertZpace
        PROVE  /\ UNCHANGED <<zmode, configured>>
               /\ NewZpace \in Zpace \ Listed
               /\ zpaces' = <<NewZpace>> \o zpaces
               /\ limit' = [limit EXCEPT ![NewZpace] = ModeLimit(zmode)]
    BY <1>3, NewZpaceUnused DEF InsertZpace
  <1>4. ASSUME NEW width \in Widths, GeometryChanged(width)
        PROVE  /\ zmode' \in ZMode /\ UNCHANGED zpaces
               /\ \A z \in Zpace : limit'[z] = ModeLimit(zmode')
    BY <1>4 DEF GeometryChanged, ModeOf, ZMode
  <1>5. ASSUME \/ \E w \in Window : ShellSurfaceDestroyed(w) \/ WindowPicked(w)
               \/ SwitcherReleased
               \/ \E i \in 0 .. Len(zpaces) - 1 : ZpaceTapped(i)
               \/ ViewPolished
        PROVE  UNCHANGED <<zpaces, limit, zmode, configured>>
    BY <1>5 DEF ShellSurfaceDestroyed, WindowPicked, SwitcherReleased, ZpaceTapped,
                ViewPolished, modelVars
  <1> QED BY <1>1, <1>2, <1>3, <1>4, <1>5 DEF Next

(* Every workspace of the list has the limit of the mode once the output   *)
(* has announced its geometry, whatever was read from m_zmode before.      *)
THEOREM LimitsAlwaysFollowMode == Spec => []LimitsFollowMode
  <1>1. Init => LimitsFollowMode
    BY DEF Init, LimitsFollowMode
  <1>2. ASSUME Inv, LimitsFollowMode, [Next]_vars PROVE LimitsFollowMode'
    <2> USE ZpacesAssumption
    <2>1. CASE UNCHANGED <<zpaces, limit, zmode, configured>>
      BY <1>2, <2>1 DEF LimitsFollowMode, Listed
    <2>2. CASE /\ UNCHANGED zpaces
               /\ \A z \in Zpace : limit'[z] = ModeLimit(zmode')
      BY <1>2, <2>2, ListedZpaces DEF LimitsFollowMode, Listed, Inv
    <2>3. CASE /\ UNCHANGED <<zmode, configured>>
               /\ NewZpace \in Zpace \ Listed
               /\ zpaces' = Append(zpaces, NewZpace) \/ zpaces' = <<NewZpace>> \o zpaces
               /\ limit' = [limit EXCEPT ![NewZpace] = ModeLimit(zmode)]
      <3>1. Listed' = Listed \cup {NewZpace}
        <4>1. zpaces \in Seq(Zpace) /\ NewZpace \in Zpace
          BY <1>2, <2>3 DEF Inv, TypeOK
        <4>2. /\ ToSet(Append(zpaces, NewZpace)) = ToSet(zpaces) \cup {NewZpace}
              /\ ToSet(<<NewZpace>> \o zpaces) = ToSet(zpaces) \cup {NewZpace}
          BY <4>1, AppendSet, PrependSet
        <4> QED BY <2>3, <4>2 DEF Listed
      <3>2. \A z \in Listed' : limit'[z] = IF z = NewZpace THEN ModeLimit(zmode)
                                                          ELSE limit[z]
        BY <1>2, <2>3, <3>1, ListedZpaces DEF Inv, TypeOK
      <3> QED BY <1>2, <2>3, <3>1, <3>2 DEF LimitsFollowMode
    <2>4. CASE /\ UNCHANGED <<zmode, configured, limit>>
               /\ \E r \in 1 .. Len(zpaces) : zpaces' = RemoveAt(zpaces, r)
      <3>1. Listed' \subseteq Listed
        BY <1>2, <2>4, RemoveAtSet DEF Listed, Inv, TypeOK, Placement, NoDuplicates
      <3> QED BY <1>2, <2>4, <3>1 DEF LimitsFollowMode
    <2>5. CASE UNCHANGED vars
      BY <1>2, <2>1, <2>5 DEF vars, modelVars
    <2> QED BY <1>2, <2>1, <2>2, <2>3, <2>4, <2>5, ListChange
  <1> QED BY <1>1, <1>2, InitInv, StepInv, PTL DEF Spec

(* Without a touch screen zpace(fromIndex) is never null in addWindow: the *)
(* view's index is never negative and the next one is on the list.         *)
THEOREM NullZpaceOnlyWithTouch == Spec => []NullZpaceNeedsTouch
  <1>1. Init => NullZpaceNeedsTouch
    BY DEF Init, NullZpaceNeedsTouch
  <1>2. ASSUME Inv, NullZpaceNeedsTouch, [Next]_vars PROVE NullZpaceNeedsTouch'
    <2> SUFFICES ASSUME isTouch = FALSE, Next
                 PROVE  NullZpaceNeedsTouch'
      <3>1. CASE UNCHANGED vars
        BY <1>2, <3>1 DEF NullZpaceNeedsTouch, vars, modelVars, viewVars
      <3>2. CASE Next /\ isTouch = TRUE
        BY <3>2 DEF Next, NullZpaceNeedsTouch
      <3> QED BY <1>2, <3>1, <3>2 DEF Inv, TypeOK
    <2>1. /\ ~crashed /\ isTouch' = FALSE
          /\ currentIndex \in Nat /\ currentIndex >= 0
          /\ nextIndex \in 0 .. Len(zpaces) - 1
          /\ zpaces \in Seq(Zpace) /\ Len(zpaces) \in Nat
      BY <1>2 DEF Next, NullZpaceNeedsTouch, Inv, TypeOK
    <2>2. ASSUME NEW i \in 0 .. Len(zpaces') - 1, SetCurrentIndex(i), UNCHANGED crashed
          PROVE  NullZpaceNeedsTouch'
      BY <2>1, <2>2 DEF NullZpaceNeedsTouch, SetCurrentIndex
    <2>3. ASSUME NEW w \in Window, ToplevelCreated(w) PROVE NullZpaceNeedsTouch'
      <3>1. CASE AddToListed(w)
        <4>1. PICK i \in Accepting(currentIndex) : SetCurrentIndex(i)
          BY <3>1 DEF AddToListed
        <4>2. i \in 0 .. Len(zpaces) - 1
          BY <2>1, <4>1 DEF Accepting
        <4> QED BY <2>2, <3>1, <4>1, <4>2 DEF AddToListed
      <3>2. CASE AddToNew(w)
        <4>1. /\ zpaces' = Append(zpaces, NewZpace) /\ NewZpace \in Zpace
              /\ SetCurrentIndex(Len(zpaces)) /\ UNCHANGED crashed
          BY <3>2, NewZpaceUnused DEF AddToNew
        <4>2. Len(zpaces) \in 0 .. Len(zpaces') - 1
          BY <2>1, <4>1
        <4> QED BY <2>2, <4>1, <4>2
      <3>3. ~AddToNull(w)
        BY <2>1 DEF AddToNull
      <3> QED BY <2>3, <3>1, <3>2, <3>3 DEF ToplevelCreated
    <2>4. ASSUME NEW w \in Window, DeleteWindow(w) PROVE NullZpaceNeedsTouch'
      <3>1. UNCHANGED <<currentIndex, crashed>>
        BY <2>4 DEF DeleteWindow
      <3>2. nextIndex' \in 0 .. Len(zpaces') - 1
        <4>1. CASE UNCHANGED <<zpaces, nextIndex>>
          BY <2>1, <4>1
        <4>2. ASSUME NEW z \in Listed, Len(zpaces) > 1,
                     zpaces' = RemoveAt(zpaces, PositionOf(zpaces, z)),
                     nextIndex' = IndexAfterRemoval(nextIndex,
                                      PositionOf(zpaces, z) - 1, Len(zpaces))
              PROVE  nextIndex' \in 0 .. Len(zpaces') - 1
          <5> DEFINE r == PositionOf(zpaces, z)
          <5>1. r \in 1 .. Len(zpaces)
            BY <2>1, PositionOfElement DEF Listed
          <5> HIDE DEF r
          <5>2. Len(RemoveAt(zpaces, r)) = Len(zpaces) - 1
            BY <2>1, <5>1, RemoveAtShape
          <5>3. IndexAfterRemoval(nextIndex, r - 1, Len(zpaces)) \in 0 .. Len(zpaces) - 2
            BY <2>1, <4>2, <5>1 DEF IndexAfterRemoval
          <5> QED BY <4>2, <5>2, <5>3 DEF r
        <4> QED BY <2>4, <4>1, <4>2 DEF DeleteWindow, CloseIfEmpty
      <3> QED BY <2>1, <3>1, <3>2 DEF NullZpaceNeedsTouch
    <2>5. ASSUME NEW w \in Window, WindowPicked(w) PROVE NullZpaceNeedsTouch'
      <3>1. IndexOfZpace(w) \in 0 .. Len(zpaces') - 1
        BY <1>2, <2>1, <2>5, IndexOfZpaceFound DEF WindowPicked, modelVars
      <3> QED BY <2>2, <2>5, <3>1 DEF WindowPicked
    <2>6. ASSUME InsertZpace PROVE NullZpaceNeedsTouch'
      <3>1. /\ zpaces' = <<NewZpace>> \o zpaces /\ NewZpace \in Zpace
            /\ SetCurrentIndex(0) /\ UNCHANGED crashed
        BY <2>6, NewZpaceUnused DEF InsertZpace
      <3>2. 0 \in 0 .. Len(zpaces') - 1
        BY <2>1, <3>1
      <3> QED BY <2>2, <3>1, <3>2
    <2>7. ASSUME NEW i \in 0 .. Len(zpaces) - 1, ZpaceTapped(i)
          PROVE  NullZpaceNeedsTouch'
      BY <2>2, <2>7 DEF ZpaceTapped, modelVars
    <2>8. ASSUME ViewPolished PROVE NullZpaceNeedsTouch'
      BY <2>1, <2>8 DEF ViewPolished, NullZpaceNeedsTouch, modelVars
    <2>9. ASSUME NEW width \in Widths, GeometryChanged(width) PROVE NullZpaceNeedsTouch'
      BY <2>1, <2>9 DEF GeometryChanged, NullZpaceNeedsTouch, viewVars
    <2>10. ASSUME NEW w \in Window, ShellSurfaceDestroyed(w) PROVE NullZpaceNeedsTouch'
      BY <2>1, <2>10 DEF ShellSurfaceDestroyed, NullZpaceNeedsTouch, viewVars
    <2>11. ~SwitcherReleased
      BY DEF SwitcherReleased
    <2> QED BY <2>3, <2>4, <2>5, <2>6, <2>7, <2>8, <2>9, <2>10, <2>11 DEF Next
  <1> QED BY <1>1, <1>2, InitInv, StepInv, PTL DEF Spec

(* The index addWindow returns, and the view takes, is that of the         *)
(* workspace the new window is in.                                         *)
THEOREM NewWindowAlwaysShown == Spec => NewWindowShown
  <1> DEFINE Shown(w) == /\ currentIndex' \in 0 .. Len(zpaces') - 1
                         /\ w \in ToSet(windows'[zpaces'[currentIndex' + 1]])
             Step == \A w \in Window :
                        wstate[w] = "none" /\ wstate'[w] = "open" /\ ~crashed' => Shown(w)
  <1>1. ASSUME Inv, [Next]_vars PROVE [Step]_vars
    <2> SUFFICES ASSUME Next, NEW w \in Window, wstate[w] = "none", wstate'[w] = "open",
                        ~crashed'
                 PROVE  Shown(w)
      BY <1>1
    <2> USE ZpacesAssumption
    <2>1. wstate \in [Window -> {"none", "open", "closing"}] /\ zpaces \in Seq(Zpace)
      BY <1>1 DEF Inv, TypeOK
    <2>2. ToplevelCreated(w)
      <3>1. ~\E v \in Window : ShellSurfaceDestroyed(v) \/ DeleteWindow(v) \/ WindowPicked(v)
        BY <2>1 DEF ShellSurfaceDestroyed, DeleteWindow, WindowPicked, modelVars
      <3>2. ~\/ \E width \in Widths : GeometryChanged(width)
             \/ InsertZpace
             \/ SwitcherReleased
             \/ \E i \in 0 .. Len(zpaces) - 1 : ZpaceTapped(i)
             \/ ViewPolished
        BY <2>1 DEF GeometryChanged, InsertZpace, SwitcherReleased, ZpaceTapped,
                    ViewPolished, modelVars
      <3>3. PICK v \in Window : ToplevelCreated(v)
        BY <3>1, <3>2 DEF Next
      <3>4. v = w
        BY <2>1, <3>3 DEF ToplevelCreated
      <3> QED BY <3>3, <3>4
    <2>3. ASSUME NEW z \in Zpace, NEW i \in 0 .. Len(zpaces') - 1,
                 AddToModels(w, z), zpaces'[i + 1] = z, currentIndex' = i
          PROVE  Shown(w)
      <3>1. w \in ToSet(windows'[z])
        BY <1>1, <2>3, AddToModelsHolds
      <3> QED BY <2>3, <3>1
    <2>4. CASE AddToListed(w)
      <3>1. PICK i \in Accepting(currentIndex) :
                AddToModels(w, ZpaceAt(i)) /\ SetCurrentIndex(i) /\ zpaces' = zpaces
        BY <2>4 DEF AddToListed
      <3>2. i \in 0 .. Len(zpaces) - 1 /\ i + 1 \in 1 .. Len(zpaces)
        BY <1>1, <2>1, <2>4 DEF Accepting, AddToListed, Inv, TypeOK
      <3>3. ZpaceAt(i) \in Zpace /\ ZpaceAt(i) = zpaces[i + 1]
        BY <2>1, <3>2 DEF ZpaceAt
      <3> QED BY <2>3, <3>1, <3>2, <3>3 DEF SetCurrentIndex
    <2>5. CASE AddToNew(w)
      <3>1. /\ zpaces' = Append(zpaces, NewZpace) /\ NewZpace \in Zpace
            /\ AddToModels(w, NewZpace) /\ SetCurrentIndex(Len(zpaces))
        BY <2>5, NewZpaceUnused DEF AddToNew
      <3>2. /\ Len(zpaces) \in 0 .. Len(zpaces') - 1
            /\ zpaces'[Len(zpaces) + 1] = NewZpace
        BY <2>1, <3>1
      <3> QED BY <2>3, <3>1, <3>2 DEF SetCurrentIndex
    <2>6. ~AddToNull(w)
      BY DEF AddToNull
    <2> QED BY <2>2, <2>4, <2>5, <2>6 DEF ToplevelCreated
  <1>2. NewWindowShown <=> [][Step]_vars
    BY DEF NewWindowShown
  <1> QED BY <1>1, <1>2, InitInv, StepInv, PTL DEF Spec

-----------------------------------------------------------------------------
(* The refinement: what Home says of the models. *)
HomeFacts ==
    /\ Home \in [Window -> Zpace \cup {AllSurfaces}]
    /\ \A w \in Window : \A z \in Zpace :
          Home[w] = z <=> z \in Listed /\ w \in ToSet(windows[z])

LEMMA HomeIsWhereItIsHeld == Inv => HomeFacts
  <1> SUFFICES ASSUME Inv PROVE HomeFacts
    OBVIOUS
  <1> USE ZpacesAssumption
  <1>1. Listed \subseteq Zpace /\ HeldOnce
    BY ListedZpaces DEF Inv, Placement
  <1>2. ASSUME NEW w \in Window
        PROVE  /\ Home[w] \in Zpace \cup {AllSurfaces}
               /\ \A z \in Zpace : Home[w] = z <=> z \in Listed /\ w \in ToSet(windows[z])
    <2>1. CASE \E z \in Listed : w \in ToSet(windows[z])
      <3>1. Home[w] \in Listed /\ w \in ToSet(windows[Home[w]])
        BY <2>1 DEF Home
      <3> QED BY <1>1, <3>1 DEF HeldOnce
    <2>2. CASE ~\E z \in Listed : w \in ToSet(windows[z])
      BY <2>2 DEF Home, Nowhere
    <2> QED BY <2>1, <2>2
  <1>3. Home \in [Window -> Zpace \cup {AllSurfaces}]
    BY <1>2 DEF Home
  <1> QED BY <1>2, <1>3 DEF HomeFacts

LEMMA HomeFactsNext == Inv' => HomeFacts'
  BY HomeIsWhereItIsHeld, PTL

(* A model holds as many windows as it has places taken. *)
LEMMA CardinalityOfModel ==
    ASSUME NEW S, NEW s \in Seq(S), IsInjective(s)
    PROVE  Cardinality(ToSet(s)) = Len(s)
  <1>1. IsFiniteSet(1 .. Len(s)) /\ Cardinality(1 .. Len(s)) = Len(s)
    <2>1. Len(s) \in Nat /\ 1 \in Int /\ Len(s) \in Int
      OBVIOUS
    <2>2. /\ IsFiniteSet(1 .. Len(s))
          /\ Cardinality(1 .. Len(s)) = IF 1 > Len(s) THEN 0 ELSE Len(s) - 1 + 1
      BY <2>1, FS_Interval
    <2> QED BY <2>1, <2>2
  <1>2. s \in Bijection(1 .. Len(s), ToSet(s))
    BY DEF Bijection, Injection, Surjection, IsInjective, ToSet
  <1> QED BY <1>1, <1>2, FS_Bijection DEF ExistsBijection

(* The room of every other window is where it was, when w comes or goes.   *)
LEMMA HomeOfOthers ==
    ASSUME Inv, Inv', NEW w \in Window, NEW h \in Zpace \cup {AllSurfaces},
           \A v \in Window \ {w} : \A z \in Zpace :
               z \in Listed /\ v \in ToSet(windows[z])
                   <=> z \in Listed' /\ v \in ToSet(windows'[z]),
           \A z \in Zpace : h = z <=> z \in Listed' /\ w \in ToSet(windows'[z])
    PROVE  Home' = [Home EXCEPT ![w] = h]
  <1>1. HomeFacts /\ HomeFacts'
    BY HomeIsWhereItIsHeld, HomeFactsNext
  <1>2. ASSUME NEW v \in Window PROVE Home'[v] = IF v = w THEN h ELSE Home[v]
    BY <1>1, <1>2, ZpacesAssumption DEF HomeFacts
  <1> QED BY <1>1, <1>2 DEF HomeFacts

LEMMA HomeKept ==
    ASSUME Inv, Inv', UNCHANGED windows,
           \A z \in Zpace : \A v \in ToSet(windows[z]) : z \in Listed <=> z \in Listed'
    PROVE  Home' = Home
  <1>1. HomeFacts /\ HomeFacts'
    BY HomeIsWhereItIsHeld, HomeFactsNext
  <1>2. ASSUME NEW v \in Window PROVE Home'[v] = Home[v]
    <2>1. \A z \in Zpace : Home'[v] = z <=> Home[v] = z
      BY <1>1 DEF HomeFacts
    <2> QED BY <1>1, <2>1 DEF HomeFacts
  <1> QED BY <1>1, <1>2 DEF HomeFacts

(* WindowHomes counts with the same operator. *)
LEMMA SameCardinality == \A S : Homes!Cardinality(S) = Cardinality(S)
  BY DEF Homes!Cardinality, Cardinality

LEMMA OpensInRoom ==
    ASSUME Inv, Inv', NEW w \in Window, ToplevelCreated(w), ~crashed
    PROVE  Homes!Open(w) \/ Homes!Fail(w)
  <1> USE ZpacesAssumption DEF Model
  <1>1. /\ wstate[w] = "none" /\ wstate' = [wstate EXCEPT ![w] = "open"]
        /\ AddToListed(w) \/ AddToNew(w) \/ AddToNull(w)
    BY DEF ToplevelCreated
  <1>2. /\ zpaces \in Seq(Zpace) /\ windows \in [Model -> Seq(Window)]
        /\ limit \in [Zpace -> {1, 2, 20}] /\ IsInjective(zpaces)
        /\ \A m \in Model : IsInjective(windows[m]) /\ w \notin ToSet(windows[m])
        /\ Listed \subseteq Zpace
    BY <1>1, ListedZpaces
       DEF Inv, TypeOK, Placement, NoDuplicates, AllSurfacesHoldsAll, OnlyListedHold
  <1>3. ASSUME NEW z \in Zpace, AddToModels(w, z), Listed' = Listed \cup {z},
               z \in Listed \/ windows[z] = <<>>
        PROVE  Home' = [Home EXCEPT ![w] = z]
    <2>1. \A m \in Zpace : ToSet(windows'[m]) = IF m = z THEN ToSet(windows[m]) \cup {w}
                                                        ELSE ToSet(windows[m])
      BY <1>1, <1>3, AddToModelsEffect
    <2>2. windows[z] = <<>> => ToSet(windows[z]) = {}
      BY <1>2, ToSetOfSeq
    <2>3. \A v \in Window \ {w} : \A m \in Zpace :
               m \in Listed /\ v \in ToSet(windows[m])
                   <=> m \in Listed' /\ v \in ToSet(windows'[m])
      BY <1>3, <2>1, <2>2
    <2>4. \A m \in Zpace : z = m <=> m \in Listed' /\ w \in ToSet(windows'[m])
      BY <1>2, <1>3, <2>1
    <2> QED BY <2>3, <2>4, HomeOfOthers
  <1>4. CASE AddToListed(w)
    <2>1. PICK i \in Accepting(currentIndex) : AddToModels(w, ZpaceAt(i))
      BY <1>4 DEF AddToListed
    <2>2. i \in Nat /\ i + 1 \in 1 .. Len(zpaces) /\ AcceptsWindow(ZpaceAt(i))
      BY <1>2, <1>4 DEF Accepting, AddToListed, Inv, TypeOK
    <2> DEFINE z == ZpaceAt(i)
    <2>3. z \in Zpace /\ z \in Listed
      BY <1>2, <2>2 DEF ZpaceAt, Listed, ToSet
    <2> HIDE DEF z
    <2>4. UNCHANGED <<zpaces, limit, crashed>> /\ Listed' = Listed
      BY <1>4 DEF AddToListed, Listed
    <2>5. Home' = [Home EXCEPT ![w] = z]
      BY <1>3, <2>1, <2>3, <2>4 DEF z
    <2>6. Cardinality(Homes!Occupants(z)) < limit[z]
      <3>1. Homes!Occupants(z) = ToSet(windows[z])
        <4>1. HomeFacts /\ ToSet(windows[z]) \subseteq Window
          BY <1>2, <2>3, HomeIsWhereItIsHeld, ToSetOfSeq
        <4> QED BY <2>3, <4>1 DEF HomeFacts, Homes!Occupants
      <3>2. Cardinality(ToSet(windows[z])) = Len(windows[z])
        BY <1>2, <2>3, CardinalityOfModel
      <3> QED BY <2>2, <3>1, <3>2 DEF AcceptsWindow, z
    <2> QED BY <1>1, <2>3, <2>4, <2>5, <2>6, SameCardinality DEF Homes!Open, Homes!OpenIn
  <1>5. CASE AddToNew(w)
    <2>1. /\ zpaces' = Append(zpaces, NewZpace)
          /\ limit' = [limit EXCEPT ![NewZpace] = ModeLimit(zmode)]
          /\ AddToModels(w, NewZpace)
          /\ UNCHANGED crashed
          /\ NewZpace \in Zpace /\ NewZpace \notin Listed /\ windows[NewZpace] = <<>>
      BY <1>5, NewZpaceUnused DEF AddToNew, NewZpace, Unused
    <2>2. Listed' = Listed \cup {NewZpace}
      BY <1>2, <2>1, AppendSet DEF Listed
    <2>3. Home' = [Home EXCEPT ![w] = NewZpace]
      BY <1>3, <2>1, <2>2
    <2>4. ModeLimit(zmode) \in {1, 2, 20}
      BY DEF ModeLimit
    <2> QED BY <1>1, <2>1, <2>2, <2>3, <2>4 DEF Homes!Open, Homes!OpenIn, Homes!NewRoom
  <1>6. CASE AddToNull(w)
    <2>1. /\ windows' = [windows EXCEPT ![AllSurfaces] = Append(@, w)]
          /\ crashed' = TRUE /\ UNCHANGED <<zpaces, limit>> /\ Listed' = Listed
      BY <1>6 DEF AddToNull, Listed
    <2>2. \A z \in Zpace : windows'[z] = windows[z]
      BY <1>2, <2>1
    <2>3. HomeFacts /\ HomeFacts'
      BY HomeIsWhereItIsHeld, HomeFactsNext
    <2>4. Home' = Home
      <3>1. ASSUME NEW v \in Window PROVE Home'[v] = Home[v]
        <4>1. \A z \in Zpace : Home'[v] = z <=> Home[v] = z
          BY <2>1, <2>2, <2>3 DEF HomeFacts
        <4> QED BY <2>3, <4>1 DEF HomeFacts
      <3> QED BY <2>3, <3>1 DEF HomeFacts
    <2> QED BY <1>1, <2>1, <2>4 DEF Homes!Fail
  <1> QED BY <1>1, <1>4, <1>5, <1>6

LEMMA LeavesRoom ==
    ASSUME Inv, Inv', NEW w \in Window, DeleteWindow(w), ~crashed
    PROVE  Homes!Leave(w)
  <1> USE ZpacesAssumption DEF Model
  <1> DEFINE emptied == { z \in Zpace : windows[z] # <<>> /\ windows'[z] = <<>> }
  <1>1. /\ wstate[w] = "closing" /\ wstate' = [wstate EXCEPT ![w] = "none"]
        /\ UNCHANGED <<limit, crashed>>
        /\ IF emptied = {} THEN UNCHANGED <<zpaces, nextIndex>>
                           ELSE \E z \in emptied : CloseIfEmpty(z)
    BY DEF DeleteWindow
  <1>2. /\ zpaces \in Seq(Zpace) /\ windows \in [Model -> Seq(Window)]
        /\ windows' \in [Model -> Seq(Window)]
        /\ IsInjective(zpaces) /\ Listed \subseteq Zpace /\ HeldOnce
        /\ w \in ToSet(windows[AllSurfaces])
    BY <1>1, ListedZpaces
       DEF Inv, TypeOK, Placement, NoDuplicates, AllSurfacesHoldsAll
  <1>3. \A m \in Zpace : ToSet(windows'[m]) = ToSet(windows[m]) \ {w}
    BY DeleteWindowEffect
  <1>4. PICK h \in Listed : w \in ToSet(windows[h])
    BY <1>2 DEF Inv, Placement, EachIsHeld
  <1>5. HomeFacts /\ HomeFacts' /\ Home[w] = h /\ h \in Zpace
    BY <1>2, <1>4, HomeIsWhereItIsHeld, HomeFactsNext DEF HomeFacts
  <1>6. \A m \in Zpace : windows[m] = <<>> <=> ToSet(windows[m]) = {}
    BY <1>2, ToSetOfSeq
  <1>7. \A m \in Zpace : windows'[m] = <<>> <=> ToSet(windows'[m]) = {}
    BY <1>2, ToSetOfSeq
  <1>8. emptied = IF ToSet(windows[h]) = {w} THEN {h} ELSE {}
    <2>1. \A m \in Zpace : m # h => w \notin ToSet(windows[m])
      BY <1>2, <1>4, <1>5 DEF HeldOnce
    <2>2. ASSUME NEW m \in Zpace, m # h PROVE m \notin emptied
      <3>1. ToSet(windows'[m]) = ToSet(windows[m])
        BY <1>3, <2>1, <2>2
      <3> QED BY <1>6, <1>7, <3>1
    <2>3. h \in emptied <=> ToSet(windows[h]) = {w}
      <3>1. ToSet(windows'[h]) = ToSet(windows[h]) \ {w} /\ ToSet(windows[h]) # {}
        BY <1>3, <1>4, <1>5
      <3>2. h \in emptied <=> ToSet(windows'[h]) = {}
        BY <1>5, <1>6, <1>7, <3>1
      <3> QED BY <1>4, <3>1, <3>2
    <2>4. emptied \subseteq Zpace
      OBVIOUS
    <2> HIDE DEF emptied
    <2> QED BY <2>2, <2>3, <2>4
  <1>9. Homes!Occupants(h) = ToSet(windows[h])
    <2>1. ToSet(windows[h]) \subseteq Window
      BY <1>2, <1>5, ToSetOfSeq
    <2> QED BY <1>4, <1>5, <2>1 DEF HomeFacts, Homes!Occupants
  <1> DEFINE r == PositionOf(zpaces, h)
  <1>10. r \in 1 .. Len(zpaces) /\ zpaces[r] = h /\ Len(zpaces) \in Nat
    BY <1>2, <1>4, PositionOfElement DEF Listed
  <1> HIDE DEF r
  <1>11. Len(zpaces) > 1 <=> Listed # {h}
    <2>1. ASSUME Len(zpaces) > 1 PROVE Listed # {h}
      <3>1. PICK k \in 1 .. Len(zpaces) : k # r
        BY <1>10, <2>1
      <3>2. zpaces[k] # h /\ zpaces[k] \in Listed
        <4>1. DOMAIN zpaces = 1 .. Len(zpaces)
          BY <1>2
        <4>2. zpaces[k] # zpaces[r]
          BY <1>2, <1>10, <3>1, <4>1 DEF IsInjective
        <4>3. zpaces[k] \in Listed
          BY <3>1, <4>1 DEF Listed, ToSet
        <4> QED BY <1>10, <4>2, <4>3
      <3> QED BY <3>2
    <2>2. ASSUME ~ Len(zpaces) > 1 PROVE Listed = {h}
      <3>1. \A k \in 1 .. Len(zpaces) : k = r
        BY <1>10, <2>2
      <3>2. Listed = { zpaces[k] : k \in 1 .. Len(zpaces) }
        BY <1>2 DEF Listed, ToSet
      <3>3. h \in Listed
        BY <1>4
      <3> QED BY <1>10, <3>1, <3>2, <3>3
    <2> QED BY <2>1, <2>2
  <1>12. Listed' = IF Homes!Occupants(h) = {w} /\ Listed # {h}
                   THEN Listed \ {h} ELSE Listed
    <2>1. CASE emptied = {}
      BY <1>1, <1>8, <1>9, <2>1 DEF Listed
    <2>2. CASE emptied # {}
      <3>1. ToSet(windows[h]) = {w} /\ CloseIfEmpty(h) /\ windows'[h] = <<>>
        BY <1>1, <1>8, <2>2
      <3>2. CASE Len(zpaces) > 1
        <4>1. zpaces' = RemoveAt(zpaces, r)
          BY <1>4, <3>1, <3>2 DEF CloseIfEmpty, r
        <4> QED BY <1>2, <1>9, <1>10, <1>11, <3>1, <3>2, <4>1, RemoveAtSet DEF Listed
      <3>3. CASE ~ Len(zpaces) > 1
        BY <1>9, <1>11, <3>1, <3>3 DEF CloseIfEmpty, Listed
      <3> QED BY <3>2, <3>3
    <2> QED BY <2>1, <2>2
  <1>13. Home' = [Home EXCEPT ![w] = AllSurfaces]
    <2>1. ASSUME NEW v \in Window \ {w}, NEW m \in Zpace
          PROVE  m \in Listed /\ v \in ToSet(windows[m])
                     <=> m \in Listed' /\ v \in ToSet(windows'[m])
      BY <1>3, <1>9, <1>12
    <2>2. \A m \in Zpace : w \notin ToSet(windows'[m]) /\ m # AllSurfaces
      BY <1>3
    <2> QED BY <2>1, <2>2, HomeOfOthers
  <1> QED BY <1>1, <1>5, <1>12, <1>13 DEF Homes!Leave, Nowhere

LEMMA StepRefines ==
    ASSUME Inv, Inv', [Next]_vars
    PROVE  [Homes!Next]_(Homes!homeVars)
  <1> USE ZpacesAssumption DEF Model
  <1>1. CASE UNCHANGED vars
    BY <1>1 DEF vars, modelVars, Homes!homeVars, Home, Listed
  <1>2. CASE Next
    <2>1. ~crashed
      BY <1>2 DEF Next
    <2>2. ASSUME UNCHANGED <<zpaces, windows, wstate, limit, crashed>>
          PROVE  UNCHANGED Homes!homeVars
      BY <2>2 DEF Homes!homeVars, Home, Listed
    <2>3. ASSUME NEW w \in Window, ToplevelCreated(w) PROVE Homes!Next
      BY <2>1, <2>3, OpensInRoom DEF Homes!Next
    <2>4. ASSUME NEW w \in Window, ShellSurfaceDestroyed(w) PROVE Homes!Next
      BY <2>1, <2>4 DEF Homes!Next, Homes!Close, ShellSurfaceDestroyed, Home, Listed
    <2>5. ASSUME NEW w \in Window, DeleteWindow(w) PROVE Homes!Next
      BY <2>1, <2>5, LeavesRoom DEF Homes!Next
    <2>6. ASSUME NEW width \in Widths, GeometryChanged(width) PROVE Homes!Next
      <3>1. /\ limit' = [z \in Zpace |-> ModeLimit(zmode')]
            /\ UNCHANGED <<zpaces, windows, wstate, crashed>>
        BY <2>6 DEF GeometryChanged
      <3>2. ModeLimit(zmode') \in {1, 2, 20}
        BY DEF ModeLimit
      <3> QED BY <2>1, <3>1, <3>2 DEF Homes!Next, Homes!Adapt, Home, Listed
    <2>7. ASSUME InsertZpace PROVE Homes!Next
      <3>1. /\ zpaces' = <<NewZpace>> \o zpaces
            /\ limit' = [limit EXCEPT ![NewZpace] = ModeLimit(zmode)]
            /\ UNCHANGED <<windows, wstate, crashed>>
            /\ NewZpace \in Zpace /\ NewZpace \notin Listed /\ windows[NewZpace] = <<>>
        BY <2>7, NewZpaceUnused DEF InsertZpace, NewZpace, Unused
      <3>2. Listed' = Listed \cup {NewZpace}
        <4>1. zpaces \in Seq(Zpace)
          BY DEF Inv, TypeOK
        <4> QED BY <3>1, <4>1, PrependSet DEF Listed
      <3>3. Home' = Home
        <4>1. \A z \in Zpace : \A v \in ToSet(windows[z]) : z \in Listed <=> z \in Listed'
          BY <3>1, <3>2 DEF ToSet
        <4> QED BY <3>1, <4>1, HomeKept
      <3>4. ModeLimit(zmode) \in {1, 2, 20}
        BY DEF ModeLimit
      <3>5. Homes!Build
        BY <3>1, <3>2, <3>3, <3>4 DEF Homes!Build, Homes!NewRoom
      <3> QED BY <2>1, <3>5 DEF Homes!Next
    <2>8. ASSUME \/ \E w \in Window : WindowPicked(w)
                 \/ SwitcherReleased
                 \/ \E i \in 0 .. Len(zpaces) - 1 : ZpaceTapped(i)
                 \/ ViewPolished
          PROVE  UNCHANGED Homes!homeVars
      BY <2>2, <2>8 DEF WindowPicked, SwitcherReleased, ZpaceTapped, ViewPolished, modelVars
    <2> QED BY <1>2, <2>3, <2>4, <2>5, <2>6, <2>7, <2>8 DEF Next
  <1> QED BY <1>1, <1>2

LEMMA InitRefines == Init => Homes!Init
  <1> SUFFICES ASSUME Init PROVE Homes!Init
    OBVIOUS
  <1> USE ZpacesAssumption DEF Model
  <1>1. PICK z \in Zpace : zpaces = <<z>>
    BY DEF Init
  <1>2. Listed = {z}
    BY <1>1 DEF Listed, ToSet
  <1>3. Home = [w \in Window |-> AllSurfaces]
    <2>1. \A m \in Model : ToSet(windows[m]) = {}
      BY DEF Init, ToSet
    <2> QED BY <1>2, <2>1 DEF Home, Nowhere
  <1>4. limit \in [Zpace -> {1, 2, 20}]
    BY DEF Init
  <1> QED BY <1>2, <1>3, <1>4 DEF Homes!Init, Init, Nowhere

(* The workspaces implement the promise of WindowHomes.                    *)
THEOREM WorkspacesImplementHomes == Spec => WindowsKeepTheirHome
  <1>1. Inv /\ Inv' /\ [Next]_vars => [Homes!Next]_(Homes!homeVars)
    BY StepRefines
  <1> QED BY <1>1, InitRefines, InitInv, StepInv, PTL
         DEF Spec, WindowsKeepTheirHome, Homes!Spec
=============================================================================
