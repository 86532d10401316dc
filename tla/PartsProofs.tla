----------------------------- MODULE PartsProofs -----------------------------
(***************************************************************************)
(* Theorems about the parts of Parts, each from an inductive invariant of  *)
(* its own and for every value of its constants: the active window, the    *)
(* Polkit agent, the launch history, the cursor grabber, the power         *)
(* manager; and, with StartupProofs and MediaProofs, about all together.   *)
(***************************************************************************)
EXTENDS Parts, StartupProofs, MediaProofs

-----------------------------------------------------------------------------
(* The active window: a window that shows itself as active and loses the   *)
(* focus is told to step back, by the configure that it acknowledges last. *)

(* What a client is told last is that it is not active. *)
EndsInactive(told) == told # <<>> /\ told[Len(told)] = FALSE

(* The scene of a handler, with the windows of a set W.                    *)
Scenes == [stack : Seq(Window), focus : Window \cup {Nobody}, acked : SUBSET Window,
           configures : [Window -> Seq(BOOLEAN)]]

Whole(scene, W) ==
    /\ scene \in Scenes
    /\ IsInjective(scene.stack) /\ ToSet(scene.stack) = W
    /\ scene.focus \in W \cup {Nobody} /\ scene.acked \subseteq W
    /\ \A u \in Window \ W : scene.configures[u] = <<>>

(* Between two scenes of a handler nothing is acknowledged, and a window   *)
(* that shows itself as active is told to step back when it loses the      *)
(* focus; once it was told, it is not told otherwise.                      *)
StepsBack(scene, next) ==
    /\ next.acked = scene.acked
    /\ \A u \in scene.acked :
          \/ EndsInactive(scene.configures[u])
          \/ scene.focus = u /\ next.focus # u
          => EndsInactive(next.configures[u])

FocusInductive ==
    /\ windows \in Seq(Window) /\ IsInjective(windows)
    /\ Whole(Scene, ToSet(windows))
    /\ hidden \subseteq ToSet(windows) /\ isActive \subseteq ToSet(windows)
    /\ aside \subseteq acked /\ astray \in BOOLEAN
    /\ activeWindow \in Window \cup {Nobody} /\ events \in 0..MaxEvents
    /\ \A u \in acked \ aside : focus = u \/ EndsInactive(configures[u])
    /\ ~astray => /\ aside = {}
                  /\ \A u \in acked : activeWindow = u \/ EndsInactive(configures[u])

LEMMA EndsWith ==
    ASSUME NEW told \in Seq(BOOLEAN), NEW value \in BOOLEAN
    PROVE  /\ Append(told, value) \in Seq(BOOLEAN)
           /\ EndsInactive(Append(told, value)) <=> value = FALSE
  <1>1. /\ Append(told, value) \in Seq(BOOLEAN) /\ Append(told, value) # <<>>
        /\ Append(told, value)[Len(Append(told, value))] = value
    OBVIOUS
  <1> QED BY <1>1 DEF EndsInactive

LEMMA StepsBackTwice ==
    ASSUME NEW r, NEW s, NEW t, StepsBack(r, s), StepsBack(s, t)
    PROVE  StepsBack(r, t)
  BY DEF StepsBack

-----------------------------------------------------------------------------
(* The handlers' operations on a scene. *)
LEMMA ActivateScene ==
    ASSUME NEW W, NEW scene, Whole(scene, W), NEW w \in W
    PROVE  /\ Whole(Activate(scene, w), W) /\ StepsBack(scene, Activate(scene, w))
           /\ Activate(scene, w).focus = scene.focus
           /\ Activate(scene, w).acked = scene.acked
           /\ Activate(scene, w).stack = scene.stack
  <1>1. w \in Window
    BY ToSetOfSeq DEF Whole, Scenes
  <1>2. CASE w \in scene.acked
    BY <1>2 DEF Activate, StepsBack
  <1>3. CASE w \notin scene.acked
    <2> DEFINE next == Activate(scene, w)
    <2>1. next = [scene EXCEPT !.configures[w] = Append(@, TRUE)]
      BY <1>3 DEF Activate
    <2>2. Append(scene.configures[w], TRUE) \in Seq(BOOLEAN)
      BY <1>1, EndsWith DEF Whole, Scenes
    <2>3. /\ next \in Scenes /\ next.stack = scene.stack /\ next.focus = scene.focus
          /\ next.acked = scene.acked
          /\ \A u \in Window : u # w => next.configures[u] = scene.configures[u]
      BY <1>1, <2>1, <2>2 DEF Whole, Scenes
    <2> HIDE DEF next
    <2>4. Whole(next, W)
      BY <2>3 DEF Whole
    <2>5. StepsBack(scene, next)
      BY <1>3, <2>3 DEF StepsBack, Whole, Scenes
    <2> QED BY <2>3, <2>4, <2>5 DEF next
  <1> QED BY <1>2, <1>3

LEMMA DeactivateScene ==
    ASSUME NEW W, NEW scene, Whole(scene, W), NEW w \in W
    PROVE  LET next == Deactivate(scene, w)
           IN  /\ Whole(next, W) /\ StepsBack(scene, next) /\ EndsInactive(next.configures[w])
               /\ next.focus = scene.focus /\ next.acked = scene.acked /\ next.stack = scene.stack
               /\ \A u \in Window : u # w => next.configures[u] = scene.configures[u]
  <1>1. w \in Window
    BY ToSetOfSeq DEF Whole, Scenes
  <1> DEFINE next == Deactivate(scene, w)
  <1>2. next = [scene EXCEPT !.configures[w] = Append(@, FALSE)]
    BY DEF Deactivate
  <1>3. /\ Append(scene.configures[w], FALSE) \in Seq(BOOLEAN)
        /\ EndsInactive(Append(scene.configures[w], FALSE))
    BY <1>1, EndsWith DEF Whole, Scenes
  <1>4. /\ next \in Scenes /\ next.stack = scene.stack /\ next.focus = scene.focus
        /\ next.acked = scene.acked /\ EndsInactive(next.configures[w])
        /\ \A u \in Window : u # w => next.configures[u] = scene.configures[u]
    BY <1>1, <1>2, <1>3 DEF Whole, Scenes
  <1> HIDE DEF next
  <1>5. Whole(next, W)
    BY <1>4 DEF Whole
  <1>6. StepsBack(scene, next)
    BY <1>4 DEF StepsBack, Whole, Scenes
  <1> QED BY <1>4, <1>5, <1>6 DEF next

LEMMA LoseFocusScene ==
    ASSUME NEW W, NEW scene, Whole(scene, W)
    PROVE  LET next == LoseFocus(scene)
           IN  /\ Whole(next, W) /\ StepsBack(scene, next)
               /\ next.focus = Nobody /\ next.acked = scene.acked /\ next.stack = scene.stack
  <1>1. CASE scene.focus = Nobody
    BY <1>1 DEF LoseFocus, StepsBack
  <1>2. CASE scene.focus # Nobody
    <2> DEFINE without == [scene EXCEPT !.focus = Nobody]
               next == Deactivate(without, scene.focus)
    <2>1. /\ without.stack = scene.stack /\ without.focus = Nobody
          /\ without.acked = scene.acked /\ without.configures = scene.configures
          /\ Whole(without, W)
      BY DEF Whole, Scenes
    <2>2. scene.focus \in W
      BY <1>2 DEF Whole
    <2> HIDE DEF without
    <2>3. /\ Whole(next, W) /\ StepsBack(without, next)
          /\ EndsInactive(next.configures[scene.focus])
          /\ next.focus = Nobody /\ next.acked = scene.acked /\ next.stack = scene.stack
      BY <2>1, <2>2, DeactivateScene
    <2> HIDE DEF next
    <2>4. StepsBack(scene, next)
      BY <2>1, <2>3 DEF StepsBack
    <2>5. LoseFocus(scene) = next
      BY <1>2 DEF LoseFocus, next, without
    <2> QED BY <2>3, <2>4, <2>5
  <1> QED BY <1>1, <1>2

LEMMA ForceActiveFocusScene ==
    ASSUME NEW W, NEW scene, Whole(scene, W), NEW w \in W, Nobody \notin W
    PROVE  LET next == ForceActiveFocus(scene, w)
           IN  /\ Whole(next, W) /\ StepsBack(scene, next)
               /\ next.focus = w /\ next.acked = scene.acked
  <1>1. CASE scene.focus = w
    BY <1>1 DEF ForceActiveFocus, StepsBack
  <1>2. CASE scene.focus # w
    <2> DEFINE lost == LoseFocus(scene)
               raised == Append(RemoveFirst(scene.stack, w), w)
               taken == [lost EXCEPT !.focus = w, !.stack = raised]
               next == Activate(taken, w)
    <2>1. /\ Whole(lost, W) /\ StepsBack(scene, lost)
          /\ lost.focus = Nobody /\ lost.acked = scene.acked /\ lost.stack = scene.stack
      BY LoseFocusScene
    <2>2. w \in Window /\ scene.stack \in Seq(Window) /\ IsInjective(scene.stack)
          /\ ToSet(scene.stack) = W
      BY ToSetOfSeq DEF Whole, Scenes
    <2>3. raised \in Seq(Window) /\ IsInjective(raised) /\ ToSet(raised) = W
      BY <2>2, MovedToEnd
    <2> HIDE DEF lost, raised
    <2>4. /\ taken.focus = w /\ taken.stack = raised /\ taken.acked = lost.acked
          /\ taken.configures = lost.configures /\ taken \in Scenes
      BY <2>1, <2>2, <2>3 DEF Whole, Scenes
    <2> HIDE DEF taken
    <2>5. Whole(taken, W)
      BY <2>1, <2>3, <2>4 DEF Whole
    <2>6. StepsBack(lost, taken)
      BY <2>1, <2>4 DEF StepsBack, Whole
    <2>7. /\ Whole(next, W) /\ StepsBack(taken, next) /\ next.focus = w
          /\ next.acked = scene.acked
      BY <2>1, <2>4, <2>5, ActivateScene
    <2> HIDE DEF next
    <2>8. StepsBack(scene, next)
      BY <2>1, <2>6, <2>7, StepsBackTwice
    <2>9. ForceActiveFocus(scene, w) = next
      BY <1>2, <2>1 DEF ForceActiveFocus, lost, taken, next, raised
    <2> QED BY <2>7, <2>8, <2>9
  <1> QED BY <1>1, <1>2

LEMMA ShowAgainScene ==
    ASSUME NEW W, NEW scene, Whole(scene, W), NEW w \in W, Nobody \notin W
    PROVE  Whole(ShowAgain(scene, w), W) /\ StepsBack(scene, ShowAgain(scene, w))
  <1> DEFINE next == ForceActiveFocus(scene, w)
  <1>1. Whole(next, W) /\ StepsBack(scene, next)
    BY ForceActiveFocusScene
  <1> HIDE DEF next
  <1>2. Whole(Activate(next, w), W) /\ StepsBack(next, Activate(next, w))
    BY <1>1, ActivateScene
  <1>3. ShowAgain(scene, w) = Activate(next, w)
    BY DEF ShowAgain, next
  <1> QED BY <1>1, <1>2, <1>3, StepsBackTwice

LEMMA FocusSecondScene ==
    ASSUME NEW W, NEW scene, Whole(scene, W)
    PROVE  LET next == FocusSecond(scene)
           IN  /\ Whole(next, W) /\ StepsBack(scene, next)
               /\ next.focus = scene.focus /\ next.acked = scene.acked /\ next.stack = scene.stack
  <1>1. CASE Len(scene.stack) < 2
    BY <1>1 DEF FocusSecond, StepsBack
  <1>2. CASE ~(Len(scene.stack) < 2)
    <2>1. scene.stack \in Seq(Window) /\ ToSet(scene.stack) = W
      BY DEF Whole, Scenes
    <2>2. Len(scene.stack) - 1 \in 1..Len(scene.stack)
      BY <1>2, <2>1
    <2>3. scene.stack[Len(scene.stack) - 1] \in W
      BY <2>1, <2>2 DEF ToSet
    <2> QED BY <1>2, <2>3, ActivateScene DEF FocusSecond
  <1> QED BY <1>1, <1>2

-----------------------------------------------------------------------------
(* What a handler keeps that ends in such a scene. *)
LEMMA HandlerKeeps ==
    ASSUME FocusInductive, NEW next, NEW W,
           Whole(next, W), StepsBack(Scene, next), Becomes(next),
           windows' \in Seq(Window), IsInjective(windows'), ToSet(windows') = W,
           hidden' \subseteq W, isActive' \subseteq W,
           aside' = aside, astray' = astray, activeWindow' = activeWindow,
           events' \in 0..MaxEvents
    PROVE  FocusInductive'
  <1>1. /\ Scene.focus = focus /\ Scene.acked = acked /\ Scene.configures = configures
        /\ Scene'.stack = stack' /\ Scene'.focus = focus' /\ Scene'.acked = acked'
        /\ Scene'.configures = configures'
    BY DEF Scene
  <1>2. /\ stack' = next.stack /\ focus' = next.focus /\ acked' = next.acked
        /\ configures' = next.configures
    BY DEF Becomes
  <1>3. Scene' \in Scenes
    BY <1>2 DEF Scene, Scenes, Whole
  <1>4. Whole(Scene', W)
    BY <1>1, <1>2, <1>3 DEF Whole
  <1>5. /\ acked' = acked
        /\ \A u \in acked : EndsInactive(configures[u]) \/ (focus = u /\ focus' # u)
                             => EndsInactive(configures'[u])
    BY <1>1, <1>2 DEF StepsBack
  <1>6. Whole(Scene, ToSet(windows))' 
    BY <1>4
  <1>7. \A u \in acked' \ aside' : focus' = u \/ EndsInactive(configures'[u])
    BY <1>5 DEF FocusInductive
  <1>8. ~astray' => /\ aside' = {}
                    /\ \A u \in acked' : activeWindow' = u \/ EndsInactive(configures'[u])
    <2>1. SUFFICES ASSUME ~astray
                   PROVE  /\ aside = {}
                          /\ \A u \in acked : activeWindow = u \/ EndsInactive(configures'[u])
      BY <1>5
    <2>2. /\ aside = {}
          /\ \A u \in acked : activeWindow = u \/ EndsInactive(configures[u])
      BY <2>1 DEF FocusInductive
    <2>3. ASSUME NEW u \in acked
          PROVE  activeWindow = u \/ EndsInactive(configures'[u])
      <3>1. EndsInactive(configures[u]) => EndsInactive(configures'[u])
        BY <1>5
      <3> QED BY <2>2, <3>1
    <2>4. aside = {}
      BY <2>2
    <2> QED BY <2>3, <2>4
  <1>9. aside' \subseteq acked' /\ astray' \in BOOLEAN /\ activeWindow' \in Window \cup {Nobody}
    BY <1>5 DEF FocusInductive
  <1> QED BY <1>6, <1>7, <1>8, <1>9 DEF FocusInductive, EndsInactive

LEMMA SceneIsWhole ==
    ASSUME FocusInductive
    PROVE  /\ Whole(Scene, ToSet(windows)) /\ windows \in Seq(Window) /\ IsInjective(windows)
           /\ ToSet(windows) \subseteq Window /\ Nobody \notin ToSet(windows)
           /\ Range(windows) = ToSet(windows)
           /\ Scene.focus = focus /\ Scene.stack = stack /\ Scene.acked = acked
           /\ Scene.configures = configures
  BY ToSetOfSeq, RangeIsToSet, FocusAssumption DEF FocusInductive, Scene

LEMMA OnlySceneKeeps ==
    ASSUME FocusInductive, NEW next,
           Whole(next, ToSet(windows)), StepsBack(Scene, next), Becomes(next),
           hidden' \subseteq ToSet(windows), Event,
           UNCHANGED <<windows, isActive, aside, astray, activeWindow>>
    PROVE  FocusInductive'
  <1>1. events' \in 0..MaxEvents
    BY FocusAssumption DEF FocusInductive, Event
  <1>2. /\ windows' \in Seq(Window) /\ IsInjective(windows') /\ ToSet(windows') = ToSet(windows)
        /\ isActive' \subseteq ToSet(windows)
        /\ aside' = aside /\ astray' = astray /\ activeWindow' = activeWindow
    BY DEF FocusInductive
  <1> QED BY <1>1, <1>2, HandlerKeeps

LEMMA NextIsWindow ==
    ASSUME windows \in Seq(Window), windows # <<>>,
           activeWindow \in ToSet(windows) \cup {Nobody}
    PROVE  NextWindow \in ToSet(windows)
  <1>1. Len(windows) \in Nat /\ 1 \in 1..Len(windows) /\ DOMAIN windows = 1..Len(windows)
    OBVIOUS
  <1>2. \A i \in 1..Len(windows) : windows[i] \in ToSet(windows)
    BY DEF ToSet
  <1>3. CASE activeWindow = Nobody \/ IndexOf(activeWindow) = Len(windows)
    BY <1>1, <1>2, <1>3 DEF NextWindow
  <1>4. CASE ~(activeWindow = Nobody \/ IndexOf(activeWindow) = Len(windows))
    <2>1. \E i \in DOMAIN windows : windows[i] = activeWindow
      BY <1>4 DEF ToSet
    <2>2. IndexOf(activeWindow) \in DOMAIN windows
      BY <2>1 DEF IndexOf
    <2>3. IndexOf(activeWindow) + 1 \in 1..Len(windows)
      BY <1>1, <1>4, <2>2
    <2> QED BY <1>2, <1>4, <2>3 DEF NextWindow
  <1> QED BY <1>3, <1>4

LEMMA DestroyedKeeps ==
    ASSUME FocusInductive, NEW w \in Window, Destroyed(w)
    PROVE  FocusInductive'
  <1> DEFINE W == ToSet(windows) \ {w}
  <1>1. /\ Whole(Scene, ToSet(windows)) /\ windows \in Seq(Window) /\ IsInjective(windows)
        /\ Scene.focus = focus /\ Scene.acked = acked /\ Scene.configures = configures
    BY SceneIsWhole
  <1>2. /\ windows' \in Seq(Window) /\ IsInjective(windows') /\ ToSet(windows') = W
    BY <1>1, RemoveFirstSet DEF Destroyed
  <1>3. PICK mid : mid = FocusSecondOf(Scene, w)
    OBVIOUS
  <1>4. /\ Whole(mid, ToSet(windows)) /\ StepsBack(Scene, mid)
        /\ mid.focus = focus /\ mid.acked = acked
    <2>1. mid = Scene \/ mid = FocusSecond(Scene)
      BY <1>3 DEF FocusSecondOf
    <2> QED BY <1>1, <2>1, FocusSecondScene DEF StepsBack
  <1>5. /\ mid.stack \in Seq(Window) /\ IsInjective(mid.stack)
        /\ ToSet(mid.stack) = ToSet(windows)
        /\ focus \in ToSet(windows) \cup {Nobody} /\ acked \subseteq ToSet(windows)
        /\ acked \subseteq Window /\ focus \in Window \cup {Nobody}
        /\ mid.configures \in [Window -> Seq(BOOLEAN)]
    BY <1>4 DEF Whole, Scenes
  <1>6. /\ stack' = RemoveFirst(mid.stack, w) /\ focus' = (IF focus = w THEN Nobody ELSE focus)
        /\ acked' = acked \ {w} /\ aside' = aside \ {w}
        /\ configures' = [mid.configures EXCEPT ![w] = <<>>]
    <2> DEFINE next == [mid EXCEPT !.stack = RemoveFirst(@, w),
                                   !.focus = IF @ = w THEN Nobody ELSE @,
                                   !.acked = @ \ {w}, !.configures[w] = <<>>]
    <2>1. Becomes(next)
      BY <1>3 DEF Destroyed
    <2>2. /\ next.stack = RemoveFirst(mid.stack, w) /\ next.acked = mid.acked \ {w}
          /\ next.focus = (IF mid.focus = w THEN Nobody ELSE mid.focus)
          /\ next.configures = [mid.configures EXCEPT ![w] = <<>>]
      BY <1>4 DEF Whole, Scenes
    <2> HIDE DEF next
    <2> QED BY <1>4, <2>1, <2>2 DEF Becomes, Destroyed
  <1>7. /\ stack' \in Seq(Window) /\ IsInjective(stack') /\ ToSet(stack') = W
    BY <1>5, <1>6, RemoveFirstSet
  <1>8. /\ focus' \in W \cup {Nobody} /\ focus' \in Window \cup {Nobody}
        /\ acked' \subseteq W /\ acked' \subseteq Window
    BY <1>5, <1>6
  <1>9. /\ configures' \in [Window -> Seq(BOOLEAN)] /\ configures'[w] = <<>>
        /\ \A u \in Window \ {w} : configures'[u] = mid.configures[u]
    <2>1. <<>> \in Seq(BOOLEAN)
      BY EmptySeq
    <2> QED BY <1>5, <1>6, <2>1
  <1>10. \A u \in Window \ W : configures'[u] = <<>>
    <2>1. \A u \in Window \ ToSet(windows) : mid.configures[u] = <<>>
      BY <1>4 DEF Whole
    <2> QED BY <1>9, <2>1
  <1> HIDE DEF W
  <1>11. Whole(Scene, ToSet(windows))'
    <2>1. Scene' \in Scenes
      BY <1>7, <1>8, <1>9 DEF Scenes, Scene
    <2>2. /\ Scene'.stack = stack' /\ Scene'.focus = focus' /\ Scene'.acked = acked'
          /\ Scene'.configures = configures'
      BY DEF Scene
    <2> QED BY <1>2, <1>7, <1>8, <1>10, <2>1, <2>2 DEF Whole
  <1>12. ASSUME NEW u \in acked'
         PROVE  /\ u \in acked /\ u # w /\ (focus = u => focus' = u)
                /\ EndsInactive(configures[u]) => EndsInactive(configures'[u])
    <2>1. u \in acked /\ u # w /\ configures'[u] = mid.configures[u]
      BY <1>5, <1>6, <1>9
    <2>2. EndsInactive(configures[u]) => EndsInactive(mid.configures[u])
      BY <1>1, <1>4, <2>1 DEF StepsBack
    <2> QED BY <1>6, <2>1, <2>2
  <1>13. ASSUME NEW u \in acked' \ aside'
         PROVE  focus' = u \/ EndsInactive(configures'[u])
    <2>1. u \in acked \ aside
      BY <1>6, <1>12
    <2>2. focus = u \/ EndsInactive(configures[u])
      BY <2>1 DEF FocusInductive
    <2> QED BY <1>12, <2>2
  <1>14. ASSUME ~astray'
         PROVE  /\ aside' = {}
                /\ \A u \in acked' : activeWindow' = u \/ EndsInactive(configures'[u])
    <2>1. ~astray /\ activeWindow' = activeWindow
      BY <1>14 DEF Destroyed
    <2>2. aside = {} /\ \A u \in acked : activeWindow = u \/ EndsInactive(configures[u])
      BY <2>1 DEF FocusInductive
    <2>3. ASSUME NEW u \in acked'
          PROVE  activeWindow' = u \/ EndsInactive(configures'[u])
      BY <1>12, <2>1, <2>2
    <2> QED BY <1>6, <2>2, <2>3
  <1>15. hidden' \subseteq W /\ isActive' \subseteq W
    BY DEF Destroyed, FocusInductive, W
  <1>16. /\ aside' \subseteq acked' /\ astray' \in BOOLEAN
         /\ activeWindow' \in Window \cup {Nobody} /\ events' \in 0..MaxEvents
    <2>1. aside \subseteq acked /\ UNCHANGED <<astray, activeWindow>> /\ Event
      BY DEF Destroyed, FocusInductive
    <2> QED BY <1>6, <2>1, FocusAssumption DEF FocusInductive, Event
  <1> QED BY <1>2, <1>11, <1>13, <1>14, <1>15, <1>16 DEF FocusInductive, EndsInactive

(* Who has acknowledged Activated and is not stepping back was not told to *)
(* step back last, and is told Activated once more.                        *)
LEMMA FormFactorKeeps ==
    ASSUME FocusInductive, FormFactorChanged
    PROVE  FocusInductive'
  <1> DEFINE W == ToSet(windows)
  <1>1. /\ Whole(Scene, W) /\ windows \in Seq(Window) /\ IsInjective(windows)
        /\ Range(windows) = W
        /\ Scene.focus = focus /\ Scene.stack = stack /\ Scene.acked = acked
        /\ Scene.configures = configures
    BY SceneIsWhole
  <1>2. /\ acked \subseteq W /\ acked \subseteq Window /\ configures \in [Window -> Seq(BOOLEAN)]
        /\ stack \in Seq(Window) /\ focus \in Window \cup {Nobody}
    BY <1>1 DEF Whole, Scenes
  <1>3. /\ UNCHANGED <<windows, stack, focus, hidden, acked, isActive, activeWindow>>
        /\ aside' = aside \cup (SteppingBack \ {focus})
        /\ astray' = (astray \/ SteppingBack # {}) /\ events' \in 0..MaxEvents
    BY FocusAssumption DEF FormFactorChanged, FocusInductive, Event
  <1>4. /\ configures' = [w \in Window |-> IF w \in W THEN Append(configures[w], TRUE)
                                            ELSE configures[w]]
    BY <1>1 DEF FormFactorChanged
  <1>5. /\ configures' \in [Window -> Seq(BOOLEAN)]
        /\ \A u \in Window \ W : configures'[u] = configures[u]
    BY <1>2, <1>4, EndsWith
  <1>6. Whole(Scene, ToSet(windows))'
    <2>1. Scene' \in Scenes
      BY <1>2, <1>3, <1>5 DEF Scene, Scenes
    <2>2. /\ Scene'.stack = stack /\ Scene'.focus = focus /\ Scene'.acked = acked
          /\ Scene'.configures = configures'
      BY <1>3 DEF Scene
    <2> QED BY <1>1, <1>3, <1>5, <2>1, <2>2 DEF Whole
  <1>7. SteppingBack = {u \in acked : EndsInactive(configures[u])}
    <2>1. \A u \in acked : EndsInactive(configures[u]) <=> configures[u] # <<>> /\ ~Last(configures[u])
      <3> SUFFICES ASSUME NEW u \in acked
                   PROVE  EndsInactive(configures[u]) <=> configures[u] # <<>> /\ ~Last(configures[u])
        OBVIOUS
      <3>1. configures[u] \in Seq(BOOLEAN)
        BY <1>2
      <3>2. configures[u] # <<>> => configures[u][Len(configures[u])] \in BOOLEAN
        BY <3>1
      <3> QED BY <3>2 DEF EndsInactive, Last
    <2> QED BY <2>1 DEF SteppingBack
  <1>8. ASSUME NEW u \in acked' \ aside' PROVE focus' = u
    BY <1>3, <1>7 DEF FocusInductive
  <1>9. ASSUME ~astray' PROVE aside' = {} /\ \A u \in acked' : activeWindow' = u
    BY <1>3, <1>7, <1>9 DEF FocusInductive
  <1>10. aside' \subseteq acked' /\ astray' \in BOOLEAN
    BY <1>3, <1>7 DEF FocusInductive
  <1>11. hidden' \subseteq ToSet(windows') /\ isActive' \subseteq ToSet(windows')
         /\ activeWindow' \in Window \cup {Nobody}
    BY <1>3 DEF FocusInductive
  <1> QED BY <1>1, <1>3, <1>6, <1>8, <1>9, <1>10, <1>11 DEF FocusInductive, EndsInactive

(* What a client has not acknowledged yet ends as it did. *)
LEMMA RestEnds ==
    ASSUME NEW told \in Seq(BOOLEAN), NEW k \in 1..Len(told)
    PROVE  /\ SubSeq(told, k + 1, Len(told)) \in Seq(BOOLEAN)
           /\ EndsInactive(told) => \/ EndsInactive(SubSeq(told, k + 1, Len(told)))
                                    \/ told[k] = FALSE
  <1> DEFINE rest == SubSeq(told, k + 1, Len(told))
  <1>1. Len(told) \in Nat /\ k \in Nat /\ k <= Len(told) /\ 1 <= k
    OBVIOUS
  <1>2. /\ rest \in Seq(BOOLEAN) /\ Len(rest) = Len(told) - k
        /\ \A i \in 1..(Len(told) - k) : rest[i] = told[k + i]
    BY SubSeqProperties
  <1> HIDE DEF rest
  <1>3. CASE k = Len(told)
    BY <1>2, <1>3 DEF EndsInactive, rest
  <1>4. CASE k # Len(told)
    <2>1. Len(told) - k \in 1..(Len(told) - k) /\ rest # <<>>
      BY <1>1, <1>2, <1>4
    <2>2. rest[Len(rest)] = told[k + (Len(told) - k)]
      BY <1>2, <2>1
    <2>3. k + (Len(told) - k) = Len(told)
      BY <1>1
    <2>4. EndsInactive(told) => EndsInactive(rest)
      BY <2>1, <2>2, <2>3 DEF EndsInactive
    <2> QED BY <1>2, <2>4 DEF rest
  <1> QED BY <1>3, <1>4

LEMMA AcknowledgedKeeps ==
    ASSUME FocusInductive, NEW w \in Window, NEW k \in DOMAIN configures[w], Acknowledged(w, k)
    PROVE  FocusInductive'
  <1> DEFINE W == ToSet(windows)
             rest == SubSeq(configures[w], k + 1, Len(configures[w]))
  <1>1. PICK activated : activated = configures[w][k]
    OBVIOUS
  <1>2. PICK signal : signal = (activated # (w \in acked) /\ activated # (w \in isActive))
    OBVIOUS
  <1>3. /\ Whole(Scene, W) /\ windows \in Seq(Window) /\ IsInjective(windows)
        /\ Nobody \notin W
        /\ Scene.focus = focus /\ Scene.stack = stack /\ Scene.acked = acked
        /\ Scene.configures = configures
    BY SceneIsWhole
  <1>4. /\ acked \subseteq W /\ acked \subseteq Window
        /\ configures \in [Window -> Seq(BOOLEAN)] /\ configures[w] \in Seq(BOOLEAN)
    BY <1>3 DEF Whole, Scenes
  <1>5. k \in 1..Len(configures[w]) /\ configures[w] # <<>> /\ activated \in BOOLEAN
    BY <1>1, <1>4
  <1>6. w \in W
    BY <1>3, <1>5 DEF Whole
  <1>7. rest \in Seq(BOOLEAN) /\ (EndsInactive(configures[w]) => EndsInactive(rest) \/ activated = FALSE)
    BY <1>1, <1>4, <1>5, RestEnds
  <1>8. PICK scene : scene = [Scene EXCEPT !.configures[w] = SubSeq(@, k + 1, Len(@)),
                                          !.acked = With(w, activated, @)]
    OBVIOUS
  <1>9. scene = [Scene EXCEPT !.configures[w] = rest, !.acked = With(w, activated, acked)]
    BY <1>3, <1>8
  <1>10. /\ With(w, activated, acked) \subseteq W /\ With(w, activated, acked) \subseteq Window
    BY <1>4, <1>6 DEF With
  <1> HIDE DEF rest
  <1>11. /\ scene \in Scenes /\ scene.stack = stack /\ scene.focus = focus
         /\ scene.acked = With(w, activated, acked) /\ scene.configures[w] = rest
         /\ \A u \in Window : u # w => scene.configures[u] = configures[u]
    BY <1>3, <1>7, <1>9, <1>10 DEF Whole, Scenes
  <1>12. Whole(scene, W)
    BY <1>3, <1>6, <1>10, <1>11 DEF Whole
  <1>13. PICK next : /\ Becomes(next)
                     /\ next = IF signal /\ activated THEN ForceActiveFocus(scene, w) ELSE scene
    BY <1>1, <1>2, <1>8 DEF Acknowledged
  <1>14. /\ Whole(next, W) /\ StepsBack(scene, next)
         /\ signal /\ activated => next.focus = w
    BY <1>3, <1>6, <1>12, <1>13, ForceActiveFocusScene DEF StepsBack
  <1>15. /\ stack' = next.stack /\ focus' = next.focus /\ acked' = next.acked
         /\ configures' = next.configures
    BY <1>13 DEF Becomes
  <1>16. /\ acked' = With(w, activated, acked)
         /\ \A u \in acked' : \/ EndsInactive(scene.configures[u])
                              \/ focus = u /\ focus' # u
                              => EndsInactive(configures'[u])
    BY <1>11, <1>14, <1>15 DEF StepsBack
  <1>17. /\ signal => activeWindow' = SetActive(w, activated) /\ isActive' = With(w, activated, isActive)
         /\ ~signal => activeWindow' = activeWindow /\ isActive' = isActive
         /\ aside' = With(w, activated /\ IF w \in acked THEN w \in aside ELSE ~signal, aside)
         /\ astray' = (astray \/ aside' # {})
         /\ windows' = windows /\ hidden' = hidden /\ events' = events
    BY <1>1, <1>2 DEF Acknowledged
  <1>18. \A u \in acked' : u # w => /\ u \in acked /\ (u \in aside' <=> u \in aside)
                                    /\ scene.configures[u] = configures[u]
    BY <1>4, <1>11, <1>16, <1>17 DEF With
  <1>19. w \in acked' => activated
    BY <1>16 DEF With
  <1>20. ASSUME NEW u \in acked' \ aside'
         PROVE  focus' = u \/ EndsInactive(configures'[u])
    <2>1. CASE u # w
      <3>1. focus = u \/ EndsInactive(configures[u])
        BY <1>18, <2>1 DEF FocusInductive
      <3> QED BY <1>16, <1>18, <2>1, <3>1
    <2>2. CASE u = w
      <3>1. activated /\ ((w \in acked /\ w \notin aside) \/ focus' = w)
        BY <1>14, <1>15, <1>17, <1>19, <2>2 DEF With
      <3>2. CASE w \in acked /\ w \notin aside
        <4>1. focus = w \/ EndsInactive(configures[w])
          BY <3>2 DEF FocusInductive
        <4>2. focus = w \/ EndsInactive(scene.configures[w])
          BY <1>7, <1>11, <3>1, <4>1
        <4> QED BY <1>16, <2>2, <4>2
      <3> QED BY <2>2, <3>1, <3>2
    <2> QED BY <2>1, <2>2
  <1>21. ASSUME ~astray'
         PROVE  /\ aside' = {}
                /\ \A u \in acked' : activeWindow' = u \/ EndsInactive(configures'[u])
    <2>1. ~astray /\ aside' = {}
      BY <1>17, <1>21
    <2>2. \A u \in acked : activeWindow = u \/ EndsInactive(configures[u])
      BY <2>1 DEF FocusInductive
    <2>3. ASSUME NEW u \in acked', u # w
          PROVE  activeWindow' = u \/ EndsInactive(configures'[u])
      <3>1. CASE activeWindow' = activeWindow
        BY <1>16, <1>18, <2>2, <2>3, <3>1
      <3>2. CASE activeWindow' # activeWindow
        <4>1. signal /\ activated
          BY <1>17, <3>2 DEF SetActive
        <4>2. w \notin acked
          BY <1>2, <4>1
        <4>3. focus' = w
          BY <1>14, <1>15, <4>1
        <4> QED BY <1>20, <2>1, <2>3, <4>3
      <3> QED BY <3>1, <3>2
    <2>4. ASSUME w \in acked'
          PROVE  activeWindow' = w \/ EndsInactive(configures'[w])
      <3>1. CASE signal
        BY <1>17, <1>19, <2>4, <3>1 DEF SetActive
      <3>2. CASE ~signal
        <4>1. w \in acked
          BY <1>17, <1>19, <2>1, <2>4, <3>2 DEF With
        <4>2. activeWindow = w \/ EndsInactive(scene.configures[w])
          BY <1>7, <1>11, <1>19, <2>2, <2>4, <4>1
        <4> QED BY <1>16, <1>17, <2>4, <3>2, <4>2
      <3> QED BY <3>1, <3>2
    <2> QED BY <2>1, <2>3, <2>4
  <1>22. Whole(Scene, ToSet(windows))'
    BY <1>14, <1>15, <1>17 DEF Whole, Scenes, Scene
  <1>23. hidden' \subseteq W /\ isActive' \subseteq W
    BY <1>6, <1>17 DEF FocusInductive, With
  <1>24. aside' \subseteq acked'
    BY <1>16, <1>17 DEF FocusInductive, With
  <1>25. astray' \in BOOLEAN
    BY <1>17
  <1>26. activeWindow' \in Window \cup {Nobody} /\ events' \in 0..MaxEvents
    BY <1>17 DEF FocusInductive, SetActive
  <1> QED BY <1>3, <1>17, <1>20, <1>21, <1>22, <1>23, <1>24, <1>25, <1>26
          DEF FocusInductive, EndsInactive

LEMMA CreatedKeeps ==
    ASSUME FocusInductive, NEW w \in Window, Created(w)
    PROVE  FocusInductive'
  <1> DEFINE W == ToSet(windows) \cup {w}
             grown == [Scene EXCEPT !.stack = Append(@, w)]
             next == Activate(ForceActiveFocus(grown, w), w)
  <1>1. Whole(Scene, ToSet(windows)) /\ w \notin ToSet(windows) /\ Nobody \notin W /\ w \in W
    BY SceneIsWhole, FocusAssumption DEF Created
  <1>2. /\ Append(Scene.stack, w) \in Seq(Window) /\ IsInjective(Append(Scene.stack, w))
        /\ ToSet(Append(Scene.stack, w)) = W
    BY <1>1, AppendSet DEF Whole, Scenes
  <1>3. /\ grown \in Scenes /\ grown.stack = Append(Scene.stack, w)
        /\ grown.focus = Scene.focus /\ grown.acked = Scene.acked
        /\ grown.configures = Scene.configures
    BY <1>1, <1>2 DEF Whole, Scenes
  <1>4. Becomes(next) /\ windows' = Append(windows, w)
    BY DEF Created
  <1> HIDE DEF grown
  <1>5. Whole(grown, W)
    BY <1>1, <1>2, <1>3 DEF Whole
  <1>6. StepsBack(Scene, grown)
    BY <1>3 DEF StepsBack
  <1>7. Whole(ShowAgain(grown, w), W) /\ StepsBack(grown, ShowAgain(grown, w))
    BY <1>1, <1>5, ShowAgainScene
  <1>8. next = ShowAgain(grown, w)
    BY DEF ShowAgain
  <1> HIDE DEF next
  <1>9. Whole(next, W) /\ StepsBack(Scene, next)
    BY <1>6, <1>7, <1>8, StepsBackTwice
  <1>10. windows' \in Seq(Window) /\ IsInjective(windows') /\ ToSet(windows') = W
    BY <1>1, <1>4, SceneIsWhole, AppendSet
  <1>11. /\ hidden' \subseteq W /\ isActive' \subseteq W /\ events' \in 0..MaxEvents
         /\ aside' = aside /\ astray' = astray /\ activeWindow' = activeWindow
    BY FocusAssumption DEF Created, FocusInductive, Event
  <1> HIDE DEF W
  <1> QED BY <1>4, <1>9, <1>10, <1>11, HandlerKeeps

LEMMA FocusMoves ==
    ASSUME FocusInductive, NEW w \in Window,
           Clicked(w) \/ TitleTapped(w) \/ FocusTaken \/ Minimized(w) \/ Unminimized(w)
           \/ ActivateNextWindow \/ Pinched(w)
    PROVE  FocusInductive'
  <1> DEFINE W == ToSet(windows)
  <1>1. /\ Whole(Scene, W) /\ Nobody \notin W /\ Range(windows) = W
        /\ windows \in Seq(Window) /\ hidden \subseteq W /\ Scene.focus = focus
    BY SceneIsWhole DEF FocusInductive
  <1>2. CASE Clicked(w)
    <2>1. w \in W
      BY <1>1, <1>2 DEF Clicked
    <2> DEFINE next == ForceActiveFocus(Scene, w)
    <2>2. /\ Becomes(next) /\ Event /\ hidden' \subseteq W
          /\ UNCHANGED <<windows, isActive, aside, astray, activeWindow>>
      BY <1>1, <1>2 DEF Clicked
    <2>3. Whole(next, W) /\ StepsBack(Scene, next)
      BY <1>1, <2>1, ForceActiveFocusScene
    <2> HIDE DEF next
    <2> QED BY <2>2, <2>3, OnlySceneKeeps
  <1>3. CASE TitleTapped(w)
    <2>1. w \in W
      BY <1>1, <1>3 DEF TitleTapped
    <2> DEFINE next == Activate(Scene, w)
    <2>2. /\ Becomes(next) /\ Event /\ hidden' \subseteq W
          /\ UNCHANGED <<windows, isActive, aside, astray, activeWindow>>
      BY <1>1, <1>3 DEF TitleTapped
    <2>3. Whole(next, W) /\ StepsBack(Scene, next)
      BY <1>1, <2>1, ActivateScene
    <2> HIDE DEF next
    <2> QED BY <2>2, <2>3, OnlySceneKeeps
  <1>4. CASE FocusTaken
    <2> DEFINE next == LoseFocus(Scene)
    <2>2. /\ Becomes(next) /\ Event /\ hidden' \subseteq W
          /\ UNCHANGED <<windows, isActive, aside, astray, activeWindow>>
      BY <1>1, <1>4 DEF FocusTaken
    <2>3. Whole(next, W) /\ StepsBack(Scene, next)
      BY <1>1, LoseFocusScene
    <2> HIDE DEF next
    <2> QED BY <2>2, <2>3, OnlySceneKeeps
  <1>5. CASE Minimized(w)
    <2>1. w \in W
      BY <1>1, <1>5 DEF Minimized
    <2> DEFINE told == Deactivate(Scene, w)
               next == FocusSecond(told)
    <2>2. /\ Becomes(next) /\ Event /\ hidden' \subseteq W
          /\ UNCHANGED <<windows, isActive, aside, astray, activeWindow>>
      BY <1>1, <1>5, <2>1 DEF Minimized
    <2>4. Whole(told, W) /\ StepsBack(Scene, told)
      BY <1>1, <2>1, DeactivateScene
    <2> HIDE DEF told
    <2>5. Whole(next, W) /\ StepsBack(told, next)
      BY <2>4, FocusSecondScene
    <2> HIDE DEF next
    <2>6. StepsBack(Scene, next)
      BY <2>4, <2>5, StepsBackTwice
    <2> QED BY <2>2, <2>5, <2>6, OnlySceneKeeps
  <1>6. CASE Unminimized(w)
    <2>1. w \in W
      BY <1>1, <1>6 DEF Unminimized
    <2> DEFINE next == ShowAgain(Scene, w)
    <2>2. /\ Becomes(next) /\ Event /\ hidden' \subseteq W
          /\ UNCHANGED <<windows, isActive, aside, astray, activeWindow>>
      BY <1>1, <1>6 DEF Unminimized
    <2>3. Whole(next, W) /\ StepsBack(Scene, next)
      BY <1>1, <2>1, ShowAgainScene
    <2> HIDE DEF next
    <2> QED BY <2>2, <2>3, OnlySceneKeeps
  <1>7. CASE ActivateNextWindow
    <2>1. NextWindow \in W
      BY <1>1, <1>7, NextIsWindow DEF ActivateNextWindow
    <2> DEFINE next == ShowAgain(Scene, NextWindow)
    <2>2. /\ Becomes(next) /\ Event /\ hidden' \subseteq W
          /\ UNCHANGED <<windows, isActive, aside, astray, activeWindow>>
      BY <1>1, <1>7 DEF ActivateNextWindow
    <2>3. Whole(next, W) /\ StepsBack(Scene, next)
      BY <1>1, <2>1, ShowAgainScene
    <2> HIDE DEF next
    <2> QED BY <2>2, <2>3, OnlySceneKeeps
  <1>8. CASE Pinched(w)
    <2>1. w \in W
      BY <1>1, <1>8 DEF Pinched
    <2> DEFINE next == Deactivate(Scene, w)
    <2>2. /\ Becomes(next) /\ Event /\ hidden' \subseteq W
          /\ UNCHANGED <<windows, isActive, aside, astray, activeWindow>>
      BY <1>1, <1>8 DEF Pinched
    <2>3. Whole(next, W) /\ StepsBack(Scene, next)
      BY <1>1, <2>1, DeactivateScene
    <2> HIDE DEF next
    <2> QED BY <2>2, <2>3, OnlySceneKeeps
  <1> QED BY <1>2, <1>3, <1>4, <1>5, <1>6, <1>7, <1>8

-----------------------------------------------------------------------------
LEMMA FocusInitially == FocusInit => FocusInductive
  <1> SUFFICES ASSUME FocusInit PROVE FocusInductive
    OBVIOUS
  <1>1. <<>> \in Seq(Window) /\ IsInjective(<<>>) /\ ToSet(<<>>) = {} /\ <<>> \in Seq(BOOLEAN)
    <2>1. <<>> \in Seq(Window) /\ <<>> \in Seq(BOOLEAN)
      BY EmptySeq
    <2>2. DOMAIN <<>> = {}
      OBVIOUS
    <2>3. IsInjective(<<>>)
      BY <2>2 DEF IsInjective
    <2>4. ToSet(<<>>) = {}
      BY <2>2 DEF ToSet
    <2> QED BY <2>1, <2>3, <2>4
  <1>2. Whole(Scene, {})
    BY <1>1 DEF FocusInit, Scene, Whole, Scenes
  <1>3. /\ windows = <<>> /\ acked = {} /\ hidden = {} /\ isActive = {} /\ aside = {}
        /\ astray = FALSE /\ activeWindow = Nobody /\ events = 0
    BY DEF FocusInit
  <1>4. 0 \in 0..MaxEvents
    BY FocusAssumption
  <1>5. /\ windows \in Seq(Window) /\ IsInjective(windows) /\ Whole(Scene, ToSet(windows))
    BY <1>1, <1>2, <1>3
  <1> QED BY <1>3, <1>4, <1>5 DEF FocusInductive

LEMMA FocusStep == FocusInductive /\ [FocusNext]_focusVars => FocusInductive'
  <1> SUFFICES ASSUME FocusInductive, [FocusNext]_focusVars
               PROVE  FocusInductive'
    OBVIOUS
  <1>1. CASE UNCHANGED focusVars
    BY <1>1 DEF focusVars, FocusInductive, Scene, Whole, Scenes, EndsInactive
  <1>2. CASE FocusNext
    <2>1. ASSUME NEW w \in Window,
                 \/ Created(w) \/ Clicked(w) \/ TitleTapped(w) \/ Minimized(w)
                 \/ Unminimized(w) \/ Pinched(w) \/ Destroyed(w)
                 \/ \E k \in DOMAIN configures[w] : Acknowledged(w, k)
          PROVE  FocusInductive'
      BY <2>1, CreatedKeeps, DestroyedKeeps, AcknowledgedKeeps, FocusMoves
    <2>2. ASSUME FocusTaken \/ ActivateNextWindow \/ FormFactorChanged
          PROVE  FocusInductive'
      BY <2>2, FocusMoves, FormFactorKeeps, FocusAssumption
    <2> QED BY <1>2, <2>1, <2>2 DEF FocusNext
  <1> QED BY <1>1, <1>2

LEMMA FocusInvariant == FocusSpec => []FocusInductive
  BY FocusInitially, FocusStep, PTL DEF FocusSpec

(* The windows, the chromes and what is on its way to the clients keep     *)
(* their types; the chromes are those of the windows, each once.           *)
THEOREM FocusTypeCorrect == FocusSpec => []FocusTypeOK
  <1>1. FocusInductive => FocusTypeOK
    <2> SUFFICES ASSUME FocusInductive PROVE FocusTypeOK
      OBVIOUS
    <2>1. /\ Whole(Scene, ToSet(windows)) /\ Range(windows) = ToSet(windows)
          /\ ToSet(windows) \subseteq Window
          /\ Scene.focus = focus /\ Scene.stack = stack /\ Scene.acked = acked
          /\ Scene.configures = configures
      BY SceneIsWhole
    <2>2. ASSUME NEW w \in Window PROVE Range(configures[w]) \subseteq BOOLEAN
      <3>1. configures[w] \in Seq(BOOLEAN)
        BY <2>1 DEF Whole, Scenes
      <3> QED BY <3>1, ToSetOfSeq, RangeIsToSet
    <2>3. Range(stack) = Range(windows) /\ IsInjective(stack)
      BY <2>1, RangeIsToSet DEF Whole
    <2> QED BY <2>1, <2>2, <2>3 DEF FocusInductive, FocusTypeOK, Whole
  <1> QED BY <1>1, FocusInvariant, PTL

LEMMA NoneWaits ==
    ASSUME Settled, NEW u \in Window
    PROVE  ~EndsInactive(configures[u])
  BY DEF Settled, EndsInactive

(* Once the clients have acknowledged everything, a window that shows      *)
(* itself as active has the focus, unless it was put aside, for every set  *)
(* of windows and any number of events (Chrome.qml, xdgwindow.cpp).        *)
THEOREM ActivatedAlwaysHasFocus == FocusSpec => []ActivatedHasFocus
  <1>1. FocusInductive => ActivatedHasFocus
    <2> SUFFICES ASSUME FocusInductive, Settled, NEW w \in acked \ aside
                 PROVE  focus = w
      BY DEF ActivatedHasFocus
    <2>1. w \in Window
      BY SceneIsWhole DEF Whole
    <2> QED BY <2>1, NoneWaits DEF FocusInductive
  <1> QED BY <1>1, FocusInvariant, PTL

(* Until a window is put aside, m_activeWindow is the window that shows    *)
(* itself as active when all is acknowledged (surfacesmodel.cpp).          *)
THEOREM SwitcherAlwaysFollowsFocus == FocusSpec => []SwitcherFollowsFocus
  <1>1. FocusInductive => SwitcherFollowsFocus
    <2> SUFFICES ASSUME FocusInductive, Settled, ~astray, NEW w \in acked
                 PROVE  activeWindow = w
      BY DEF SwitcherFollowsFocus
    <2>1. w \in Window
      BY SceneIsWhole DEF Whole
    <2> QED BY <2>1, NoneWaits DEF FocusInductive
  <1> QED BY <1>1, FocusInvariant, PTL

-----------------------------------------------------------------------------
(* The Polkit agent.  The sessions that a dialog is connected to are       *)
(* answered in the order of a list: the function that FoldLeft is defined  *)
(* by is built here by a least counterexample.                             *)

(* The turns of the first n sessions of a list, from a state now. *)
Turns(now, sessions, n, f) ==
    f = [S \in SUBSET (1..n) |->
            IF S = {} THEN now ELSE AfterAnswer(f[S \ {Max(S)}], sessions[Max(S)])]

LEMMA TurnsAreTaken ==
    ASSUME NEW now, NEW sessions \in Seq(PolkitSession)
    PROVE  FoldLeft(AfterAnswer, now, sessions)
               = (CHOOSE f : Turns(now, sessions, Len(sessions), f))[1..Len(sessions)]
  <1>1. DOMAIN sessions = 1..Len(sessions)
    OBVIOUS
  <1> HIDE DEF AfterAnswer
  <1> QED BY <1>1 DEF FoldLeft, MapThenFoldSet, Turns

LEMMA TurnsExist ==
    ASSUME NEW now, NEW sessions
    PROVE  \A n \in Nat : \E f : Turns(now, sessions, n, f)
  <1> HIDE DEF AfterAnswer
  <1> DEFINE I == { n \in Nat : ~ \E f : Turns(now, sessions, n, f) }
  <1> SUFFICES ASSUME I # {} PROVE FALSE
    OBVIOUS
  <1>1. PICK n \in I : \A m \in I : n <= m
    BY LeastIndex
  <1>2. n # 0
    <2> SUFFICES Turns(now, sessions, 0, [S \in SUBSET (1..0) |-> now])
      OBVIOUS
    <2>1. 1..0 = {}
      OBVIOUS
    <2> QED BY <2>1 DEF Turns
  <1>3. n \in Nat \ {0} /\ n - 1 \in Nat /\ n - 1 \notin I
    BY <1>1, <1>2
  <1>4. PICK f : Turns(now, sessions, n - 1, f)
    BY <1>3
  <1> DEFINE g == [S \in SUBSET (1..n) |->
                     IF n \in S THEN AfterAnswer(f[S \ {n}], sessions[n]) ELSE f[S]]
  <1>5. ASSUME NEW S \in SUBSET (1..n)
        PROVE  g[S] = IF S = {} THEN now ELSE AfterAnswer(g[S \ {Max(S)}], sessions[Max(S)])
    <2>1. CASE n \in S
      <3>1. Max(S) = n
        <4>1. S \subseteq Int /\ \A y \in S : y <= n
          BY <1>3
        <4> QED BY <2>1, <4>1, MaxIs
      <3>2. S # {} /\ S \ {n} \in SUBSET (1..n) /\ n \notin S \ {n}
        BY <2>1
      <3>3. g[S \ {n}] = f[S \ {n}]
        BY <3>2
      <3> QED BY <2>1, <3>1, <3>2, <3>3
    <2>2. CASE n \notin S
      <3>1. S \in SUBSET (1..n - 1)
        BY <1>3, <2>2
      <3>2. g[S] = f[S] /\ f[S] = IF S = {} THEN now
                                  ELSE AfterAnswer(f[S \ {Max(S)}], sessions[Max(S)])
        BY <1>4, <2>2, <3>1 DEF Turns
      <3>3. n \notin S \ {Max(S)} /\ S \ {Max(S)} \in SUBSET (1..n)
        BY <2>2
      <3>4. g[S \ {Max(S)}] = f[S \ {Max(S)}]
        BY <3>3
      <3> QED BY <3>2, <3>4
    <2> QED BY <2>1, <2>2
  <1>6. Turns(now, sessions, n, g)
    <2>1. g = [S \in SUBSET (1..n) |-> g[S]]
      OBVIOUS
    <2> HIDE DEF g
    <2> QED BY <1>5, <2>1 DEF Turns
  <1> QED BY <1>1, <1>6

(* What is true of the state before and kept by each turn is true after. *)
LEMMA TurnsKeep ==
    ASSUME NEW V, NEW now \in V, NEW sessions \in Seq(PolkitSession),
           \A v \in V, s \in PolkitSession : AfterAnswer(v, s) \in V
    PROVE  FoldLeft(AfterAnswer, now, sessions) \in V
  <1> HIDE DEF AfterAnswer
  <1> DEFINE N == Len(sessions)
             f == CHOOSE f : Turns(now, sessions, N, f)
             I == { m \in 0..N : f[1..m] \notin V }
  <1>1. Turns(now, sessions, N, f)
    BY TurnsExist
  <1>2. FoldLeft(AfterAnswer, now, sessions) = f[1..N]
    BY TurnsAreTaken
  <1> HIDE DEF f
  <1>3. ASSUME NEW m \in I, \A k \in I : m <= k PROVE FALSE
    <2>1. CASE m = 0
      <3>1. 1..m = {} /\ {} \in SUBSET (1..N)
        BY <2>1
      <3> QED BY <1>1, <1>3, <3>1 DEF Turns
    <2>2. CASE m # 0
      <3>1. m \in 1..N /\ 1..m \in SUBSET (1..N) /\ m \in 1..m
        BY <2>2
      <3>2. Max(1..m) = m
        <4>1. 1..m \subseteq Int /\ \A y \in 1..m : y <= m
          BY <3>1
        <4> QED BY <3>1, <4>1, MaxIs
      <3>3. (1..m) \ {m} = 1..m - 1
        BY <3>1
      <3>4. f[1..m] = AfterAnswer(f[1..m - 1], sessions[m])
        BY <1>1, <3>1, <3>2, <3>3 DEF Turns
      <3>5. f[1..m - 1] \in V
        BY <1>3, <3>1
      <3> QED BY <1>3, <3>1, <3>4, <3>5
    <2> QED BY <2>1, <2>2
  <1>4. I = {}
    <2>1. I \in SUBSET Nat
      OBVIOUS
    <2> HIDE DEF I
    <2> QED BY <1>3, <2>1, LeastIndex
  <1>5. f[1..N] \in V
    <2>1. N \in 0..N
      OBVIOUS
    <2> QED BY <1>4, <2>1
  <1> QED BY <1>2, <1>5

LEMMA OneTurn ==
    ASSUME NEW now, NEW s \in PolkitSession
    PROVE  FoldLeft(AfterAnswer, now, <<s>>) = AfterAnswer(now, s)
  <1> HIDE DEF AfterAnswer
  <1> DEFINE f == CHOOSE f : Turns(now, <<s>>, 1, f)
  <1>1. Turns(now, <<s>>, 1, f)
    BY TurnsExist
  <1>2. <<s>> \in Seq(PolkitSession) /\ Len(<<s>>) = 1
    OBVIOUS
  <1>3. FoldLeft(AfterAnswer, now, <<s>>) = f[1..1]
    BY <1>2, TurnsAreTaken
  <1> HIDE DEF f
  <1>4. 1..1 = {1} /\ Max({1}) = 1 /\ {1} \ {1} = {}
    BY MaxIs
  <1>5. f[{1}] = AfterAnswer(f[{}], <<s>>[1]) /\ f[{}] = now
    BY <1>1, <1>4 DEF Turns
  <1> QED BY <1>3, <1>4, <1>5

-----------------------------------------------------------------------------
(* Authentications one after the other: each session is the one that its   *)
(* authentication was asked for, a session that still runs has the dialog, *)
(* it is connected to the dialog of its own authentication, once, and no   *)
(* dialog that is not marked for deletion outlives its session.            *)
Running == {"running", "asking", "answered"}

InTurn ==
    /\ \A s \in PolkitSession :
          /\ helper[s] # "none" => asked[s.auth] = <<s.identity>>
          /\ helper[s] \in Running => mDialog = s.auth
          /\ helper[s] = "ended" => mDialog # s.auth
    /\ \A a \in Auth : \A i \in 1..Len(finished[a]) :
          /\ i = 1 /\ finished[a][i].auth = a
          /\ helper[finished[a][i]] \notin {"none", "running"}
    /\ fell \in {"none", "late"}
    /\ \A answer \in answers : answer[1].auth = answer[2]

(* What a handler may have changed so far has these types. *)
AgentStates ==
    [mDialog : dialogs \cup {NoDialog}, typed : [Auth -> {"", "password"}],
     helper : [PolkitSession -> {"none", "running", "asking", "answered", "ended"}],
     answers : SUBSET (PolkitSession \X Auth),
     fell : {"none", "request", "completed", "answer", "late"}]

PolkitInductive ==
    /\ asked \in [Auth -> Seq(Identity)]
    /\ finished \in [Auth -> Seq(PolkitSession)]
    /\ dialogs \subseteq Auth
    /\ Now \in AgentStates
    /\ overlapped \in BOOLEAN
    /\ ~overlapped => InTurn

LEMMA NoDialogForNone == NoDialog \notin Auth /\ Auth \subseteq Nat
  BY PolkitAssumption DEF NoDialog, Auth

LEMMA AgentTypes ==
    ASSUME PolkitInductive
    PROVE  /\ \A a \in Auth : asked[a] \in Seq(Identity) /\ finished[a] \in Seq(PolkitSession)
           /\ mDialog \in dialogs \cup {NoDialog} /\ mDialog \in Auth \cup {NoDialog}
           /\ typed \in [Auth -> {"", "password"}]
           /\ helper \in [PolkitSession -> {"none", "running", "asking", "answered", "ended"}]
           /\ answers \subseteq PolkitSession \X Auth
           /\ fell \in {"none", "request", "completed", "answer", "late"}
           /\ \A s \in PolkitSession : s.auth \in Auth /\ s.identity \in Identity
  BY DEF PolkitInductive, Now, AgentStates, PolkitSession

LEMMA PolkitStarts == PolkitInit => PolkitInductive
  <1> SUFFICES ASSUME PolkitInit PROVE PolkitInductive
    OBVIOUS
  <1>1. Now \in AgentStates
    BY DEF PolkitInit, Now, AgentStates
  <1>2. /\ asked \in [Auth -> Seq(Identity)] /\ finished \in [Auth -> Seq(PolkitSession)]
        /\ dialogs \subseteq Auth
    <2>1. <<>> \in Seq(Identity) /\ <<>> \in Seq(PolkitSession)
      OBVIOUS
    <2> QED BY <2>1 DEF PolkitInit
  <1>3. overlapped \in BOOLEAN
    BY Zenon DEF PolkitInit
  <1>4. InTurn
    <2>1. \A a \in Auth : finished[a] = <<>>
      BY DEF PolkitInit
    <2>2. \A a \in Auth : 1..Len(finished[a]) = {}
      <3>1. 1..Len(<<>>) = {}
        OBVIOUS
      <3> QED BY <2>1, <3>1, Zenon
    <2>3. \A s \in PolkitSession : helper[s] = "none" /\ "none" \notin Running
      BY DEF PolkitInit, Running
    <2> QED BY <2>2, <2>3 DEF PolkitInit, InTurn
  <1> QED BY <1>1, <1>2, <1>3, <1>4 DEF PolkitInductive

(* The types of what the handlers change. *)
LEMMA TurnTyped ==
    ASSUME dialogs \subseteq Auth
    PROVE  \A now \in AgentStates, s \in PolkitSession :
              /\ AfterCompleted(now, s) \in AgentStates
              /\ AfterAnswer(now, s) \in AgentStates
  <1> SUFFICES ASSUME NEW now \in AgentStates, NEW s \in PolkitSession
               PROVE  /\ AfterCompleted(now, s) \in AgentStates
                      /\ AfterAnswer(now, s) \in AgentStates
    OBVIOUS
  <1>1. AfterCompleted(now, s) \in AgentStates
    BY DEF AfterCompleted, AgentStates
  <1>2. CASE now.fell # "none"
    BY <1>1, <1>2 DEF AfterAnswer
  <1>3. CASE now.fell = "none" /\ (now.mDialog = NoDialog \/ now.helper[s] = "ended")
    <2>1. AfterAnswer(now, s) = [now EXCEPT !.fell = "answer"]
      BY <1>3 DEF AfterAnswer
    <2> QED BY <1>1, <2>1 DEF AgentStates
  <1>4. CASE now.fell = "none" /\ now.mDialog # NoDialog /\ now.helper[s] # "ended"
    <2>1. AfterAnswer(now, s) =
              IF ShownFor(now.mDialog, s) /\ now.typed[now.mDialog] # ""
              THEN [now EXCEPT !.helper[s] = "answered", !.answers = @ \cup {<<s, now.mDialog>>}]
              ELSE AfterCompleted(now, s)
      BY <1>4 DEF AfterAnswer
    <2>2. now.mDialog \in Auth
      BY <1>4 DEF AgentStates
    <2>3. [now EXCEPT !.helper[s] = "answered", !.answers = @ \cup {<<s, now.mDialog>>}]
              \in AgentStates
      <3>1. <<s, now.mDialog>> \in PolkitSession \X Auth
        BY <2>2
      <3>2. now.answers \cup {<<s, now.mDialog>>} \in SUBSET (PolkitSession \X Auth)
        BY <3>1 DEF AgentStates
      <3>3. [now.helper EXCEPT ![s] = "answered"]
                \in [PolkitSession -> {"none", "running", "asking", "answered", "ended"}]
        BY DEF AgentStates
      <3> QED BY <3>2, <3>3 DEF AgentStates
    <2> QED BY <1>1, <2>1, <2>3
  <1> QED BY <1>2, <1>3, <1>4

LEMMA BeginsInTurn ==
    ASSUME PolkitInductive, NEW a \in Auth, NEW identities \in IdentityLists,
           InitiateAuthentication(a, identities)
    PROVE  PolkitInductive'
  <1>1. identities \in Seq(Identity) /\ Len(identities) \in {1, 2}
    <2>1. PICK n \in 1..2 : identities \in [1..n -> Identity]
      BY DEF IdentityLists
    <2> QED BY <2>1, FunctionIsSeq
  <1>2. /\ asked' \in [Auth -> Seq(Identity)] /\ dialogs' \subseteq Auth
        /\ finished' \in [Auth -> Seq(PolkitSession)] /\ Now' \in AgentStates'
    BY <1>1 DEF PolkitInductive, InitiateAuthentication, Now, AgentStates
  <1>3. overlapped' \in BOOLEAN
    BY Zenon DEF InitiateAuthentication
  <1>4. ASSUME ~overlapped' PROVE InTurn'
    <2>1. /\ ~overlapped /\ Len(identities) = 1
          /\ \A s \in PolkitSession : helper[s] \in {"none", "ended"}
      BY <1>1, <1>4 DEF InitiateAuthentication
    <2>2. InTurn
      BY <2>1 DEF PolkitInductive
    <2>3. /\ Range(identities) = {identities[1]} /\ identities = <<identities[1]>>
      BY <1>1, <2>1 DEF Range
    <2>4. /\ asked[a] = <<>> /\ mDialog' = a /\ UNCHANGED <<finished, answers, fell>>
          /\ \A b \in Auth : asked'[b] = IF b = a THEN identities ELSE asked[b]
          /\ \A s \in PolkitSession :
                helper'[s] = IF s.auth = a /\ s.identity = identities[1] THEN "running"
                             ELSE helper[s]
      BY <2>3 DEF InitiateAuthentication, PolkitInductive
    <2>5. \A s \in PolkitSession : s.auth = a => helper[s] = "none"
      BY <2>2, <2>4 DEF InTurn
    <2>6. \A s \in PolkitSession : /\ s.auth \in Auth
                                   /\ helper'[s] # "none" => asked'[s.auth] = <<s.identity>>
                                   /\ helper'[s] \in Running => mDialog' = s.auth
                                   /\ helper'[s] = "ended" => mDialog' # s.auth
      BY <2>1, <2>2, <2>3, <2>4, <2>5 DEF InTurn, Running, PolkitSession
    <2>7. ASSUME NEW b \in Auth, NEW i \in 1..Len(finished[b])
          PROVE  /\ i = 1 /\ finished[b][i].auth = b
                 /\ helper'[finished[b][i]] \notin {"none", "running"}
      <3>1. /\ i = 1 /\ finished[b][i].auth = b /\ finished[b][i] \in PolkitSession
            /\ helper[finished[b][i]] \notin {"none", "running"}
        BY <2>2, <2>7 DEF InTurn, PolkitInductive
      <3> QED BY <2>4, <2>5, <3>1
    <2>8. fell' \in {"none", "late"} /\ \A answer \in answers' : answer[1].auth = answer[2]
      BY <2>2, <2>4 DEF InTurn
    <2> QED BY <2>4, <2>6, <2>7, <2>8 DEF InTurn
  <1> QED BY <1>2, <1>3, <1>4 DEF PolkitInductive

(* Of sessions in turn, only one can be running. *)
LEMMA OneRunning ==
    ASSUME InTurn, NEW s \in PolkitSession, NEW t \in PolkitSession,
           helper[s] \in Running, t.auth = s.auth, helper[t] # "none"
    PROVE  s = t
  <1>1. asked[s.auth] = <<s.identity>> /\ asked[t.auth] = <<t.identity>>
    BY DEF InTurn, Running
  <1>2. s.identity = t.identity
    BY <1>1
  <1> QED BY <1>2 DEF PolkitSession

LEMMA RequestInTurn ==
    ASSUME PolkitInductive, NEW s \in PolkitSession, Request(s)
    PROVE  PolkitInductive'
  <1>1. /\ asked' \in [Auth -> Seq(Identity)] /\ dialogs' \subseteq Auth
        /\ overlapped' \in BOOLEAN
    BY DEF PolkitInductive, Request
  <1>2. finished' \in [Auth -> Seq(PolkitSession)] /\ Now' \in AgentStates'
    <2>1. CASE mDialog = NoDialog
      BY <2>1, AgentTypes DEF PolkitInductive, Request, Now, AgentStates
    <2>2. CASE mDialog # NoDialog
      <3>1. /\ mDialog \in Auth /\ finished' = [finished EXCEPT ![mDialog] = Append(@, s)]
            /\ helper' = [helper EXCEPT ![s] = "asking"]
            /\ UNCHANGED <<mDialog, typed, answers, dialogs, fell>>
        BY <2>2, AgentTypes DEF Request
      <3>2. Append(finished[mDialog], s) \in Seq(PolkitSession)
        <4>1. finished[mDialog] \in Seq(PolkitSession)
          BY <3>1, AgentTypes
        <4> QED BY <4>1
      <3>3. finished' \in [Auth -> Seq(PolkitSession)]
        BY <3>1, <3>2 DEF PolkitInductive
      <3>4. Now' \in AgentStates'
        BY <3>1, AgentTypes DEF Now, AgentStates
      <3> QED BY <3>3, <3>4
    <2> QED BY <2>1, <2>2
  <1>3. ASSUME ~overlapped' PROVE InTurn'
    <2>1. InTurn /\ helper[s] = "running" /\ s.auth \in Auth
      BY <1>3 DEF PolkitInductive, Request, PolkitSession
    <2>2. mDialog = s.auth /\ mDialog # NoDialog
      BY <2>1, NoDialogForNone DEF InTurn, Running
    <2>3. /\ finished' = [finished EXCEPT ![s.auth] = Append(@, s)]
          /\ helper' = [helper EXCEPT ![s] = "asking"]
          /\ UNCHANGED <<asked, mDialog, fell, answers>>
      BY <2>2 DEF Request
    <2>4. finished[s.auth] = <<>>
      <3> SUFFICES ASSUME finished[s.auth] # <<>> PROVE FALSE
        OBVIOUS
      <3>1. finished[s.auth] \in Seq(PolkitSession) /\ 1 \in 1..Len(finished[s.auth])
        BY <2>1 DEF PolkitInductive
      <3> DEFINE t == finished[s.auth][1]
      <3>2. t \in PolkitSession /\ t.auth = s.auth /\ helper[t] \notin {"none", "running"}
        BY <2>1, <3>1 DEF InTurn
      <3> HIDE DEF t
      <3>3. s = t
        BY <2>1, <3>2, OneRunning DEF Running
      <3> QED BY <2>1, <3>2, <3>3
    <2>5. /\ finished'[s.auth] = <<s>>
          /\ \A b \in Auth \ {s.auth} : finished'[b] = finished[b]
          /\ \A t \in PolkitSession : helper'[t] = IF t = s THEN "asking" ELSE helper[t]
      <3>1. Append(finished[s.auth], s) = <<s>>
        BY <2>4
      <3> QED BY <2>1, <2>3, <3>1, AgentTypes DEF PolkitInductive
    <2>6. \A t \in PolkitSession : /\ helper'[t] # "none" => asked[t.auth] = <<t.identity>>
                                   /\ helper'[t] \in Running => mDialog = t.auth
                                   /\ helper'[t] = "ended" => mDialog # t.auth
      BY <2>1, <2>5 DEF InTurn, Running
    <2>7. ASSUME NEW b \in Auth, NEW i \in 1..Len(finished'[b])
          PROVE  /\ i = 1 /\ finished'[b][i].auth = b
                 /\ helper'[finished'[b][i]] \notin {"none", "running"}
      <3>1. CASE b = s.auth
        BY <2>5, <3>1
      <3>2. CASE b # s.auth
        <4>1. /\ i = 1 /\ finished[b][i].auth = b /\ finished[b][i] \in PolkitSession
              /\ helper[finished[b][i]] \notin {"none", "running"} /\ finished'[b] = finished[b]
          BY <2>1, <2>5, <2>7, <3>2 DEF InTurn, PolkitInductive
        <4> QED BY <2>5, <4>1
      <3> QED BY <3>1, <3>2
    <2> QED BY <2>1, <2>3, <2>6, <2>7 DEF InTurn
  <1> QED BY <1>1, <1>2, <1>3 DEF PolkitInductive

(* A session that runs in turn ends, and takes the dialog with it; or it   *)
(* is given what was typed into the dialog of its own authentication.      *)
LEMMA EndsInTurn ==
    ASSUME PolkitInductive, InTurn, NEW s \in PolkitSession, helper[s] \in Running,
           UNCHANGED <<asked, finished>>,
           NEW now, now.helper = helper, now.mDialog = mDialog, now.fell = fell,
           now.answers = answers, now \in AgentStates,
           AgentBecomes(AfterCompleted(now, s))
    PROVE  InTurn'
  <1>1. mDialog = s.auth /\ mDialog # NoDialog /\ asked[mDialog] = <<s.identity>>
    <2>1. s.auth \in Auth /\ mDialog = s.auth
      BY AgentTypes DEF InTurn
    <2>2. helper[s] # "none"
      BY DEF Running
    <2> QED BY <2>1, <2>2, NoDialogForNone DEF InTurn
  <1>2. AfterCompleted(now, s) = [now EXCEPT !.helper[s] = "ended", !.mDialog = NoDialog]
    <2>1. ShownFor(now.mDialog, s) /\ now.mDialog # NoDialog
      BY <1>1 DEF ShownFor
    <2> QED BY <2>1 DEF AfterCompleted, AgentStates
  <1>3. /\ \A t \in PolkitSession : helper'[t] = IF t = s THEN "ended" ELSE helper[t]
        /\ mDialog' = NoDialog /\ UNCHANGED <<fell, answers>>
    BY <1>2 DEF AgentBecomes, AgentStates
  <1>4. \A t \in PolkitSession : helper[t] \in Running => t = s
    BY <1>1, OneRunning DEF InTurn, Running
  <1>5. \A t \in PolkitSession : /\ helper'[t] # "none" => asked[t.auth] = <<t.identity>>
                                 /\ helper'[t] \notin Running /\ mDialog' # t.auth
    <2> SUFFICES ASSUME NEW t \in PolkitSession
                 PROVE  /\ helper'[t] # "none" => asked[t.auth] = <<t.identity>>
                        /\ helper'[t] \notin Running /\ mDialog' # t.auth
      OBVIOUS
    <2>1. t.auth \in Auth /\ mDialog' # t.auth
      BY <1>3, NoDialogForNone DEF PolkitSession
    <2>2. helper[t] # "none" => asked[t.auth] = <<t.identity>>
      BY DEF InTurn
    <2>3. CASE t = s
      BY <1>1, <1>3, <2>1, <2>3 DEF InTurn, Running
    <2>4. CASE t # s
      BY <1>3, <1>4, <2>1, <2>2, <2>4
    <2> QED BY <2>3, <2>4
  <1>6. ASSUME NEW b \in Auth, NEW i \in 1..Len(finished[b])
        PROVE  /\ i = 1 /\ finished[b][i].auth = b
               /\ helper'[finished[b][i]] \notin {"none", "running"}
    <2>1. /\ i = 1 /\ finished[b][i].auth = b /\ finished[b][i] \in PolkitSession
          /\ helper[finished[b][i]] \notin {"none", "running"}
      BY <1>6 DEF InTurn, PolkitInductive
    <2> QED BY <1>3, <2>1
  <1> QED BY <1>3, <1>5, <1>6 DEF InTurn

LEMMA CompletedInTurn ==
    ASSUME PolkitInductive, NEW s \in PolkitSession, Completed(s)
    PROVE  PolkitInductive'
  <1>1. /\ helper[s] \in Running /\ AgentBecomes(AfterCompleted(Now, s))
        /\ UNCHANGED <<asked, dialogs, finished, overlapped>>
    BY DEF Completed, Running
  <1>2. AfterCompleted(Now, s) \in AgentStates
    BY TurnTyped DEF PolkitInductive
  <1>3. Now' \in AgentStates'
    <2> DEFINE after == AfterCompleted(Now, s)
    <2>1. after \in AgentStates /\ AgentBecomes(after)
      BY <1>1, <1>2
    <2> HIDE DEF after
    <2> QED BY <1>1, <2>1 DEF AgentBecomes, Now, AgentStates
  <1>4. ASSUME ~overlapped PROVE InTurn'
    <2>1. InTurn /\ Now \in AgentStates
      BY <1>4 DEF PolkitInductive
    <2>2. Now.helper = helper /\ Now.mDialog = mDialog /\ Now.fell = fell /\ Now.answers = answers
      BY DEF Now
    <2> QED BY <1>1, <2>1, <2>2, EndsInTurn
  <1> QED BY <1>1, <1>3, <1>4 DEF PolkitInductive

(* The answer to a dialog that one session of its own is connected to: it  *)
(* finds that session, unless the dialog is not m_dialog any more.         *)
LEMMA AnswerInTurn ==
    ASSUME PolkitInductive, InTurn, fell = "none",
           NEW d \in Auth, NEW s \in PolkitSession, s.auth = d,
           helper[s] \notin {"none", "running"},
           UNCHANGED <<asked, finished>>,
           NEW now \in AgentStates, now.helper = helper, now.mDialog = mDialog,
           now.fell = fell, now.answers = answers,
           NEW after, after = AfterAnswer(now, s),
           AgentBecomes(IF after.fell = "answer" /\ d # mDialog
                        THEN [after EXCEPT !.fell = "late"] ELSE after)
    PROVE  InTurn'
  <1>1. CASE mDialog = NoDialog \/ helper[s] = "ended"
    <2>1. after = [now EXCEPT !.fell = "answer"]
      BY <1>1 DEF AfterAnswer
    <2>2. after \in AgentStates /\ after.fell = "answer"
      BY <2>1 DEF AgentStates
    <2>3. d # mDialog
      BY <1>1, NoDialogForNone DEF InTurn
    <2>4. AgentBecomes([after EXCEPT !.fell = "late"])
      BY <2>2, <2>3
    <2>5. UNCHANGED <<helper, mDialog, answers>> /\ fell' = "late"
      BY <2>1, <2>4 DEF AgentBecomes, AgentStates
    <2> QED BY <2>5 DEF InTurn
  <1>2. CASE mDialog # NoDialog /\ helper[s] # "ended"
    <2>1. helper[s] \in Running
      BY <1>2, AgentTypes DEF Running
    <2>2. mDialog = d
      BY <2>1 DEF InTurn
    <2>3. AgentBecomes(after)
      BY <2>2
    <2>4. after = IF ShownFor(d, s) /\ now.typed[d] # ""
                  THEN [now EXCEPT !.helper[s] = "answered", !.answers = @ \cup {<<s, d>>}]
                  ELSE AfterCompleted(now, s)
      BY <1>2, <2>2 DEF AfterAnswer
    <2>5. CASE after = AfterCompleted(now, s)
      BY <2>1, <2>3, <2>5, EndsInTurn
    <2>6. CASE after = [now EXCEPT !.helper[s] = "answered", !.answers = @ \cup {<<s, d>>}]
      <3>1. /\ \A t \in PolkitSession : helper'[t] = IF t = s THEN "answered" ELSE helper[t]
            /\ answers' = answers \cup {<<s, d>>} /\ UNCHANGED <<mDialog, fell>>
        <4>1. /\ after.helper = [now.helper EXCEPT ![s] = "answered"]
              /\ after.answers = now.answers \cup {<<s, d>>}
              /\ after.mDialog = now.mDialog /\ after.fell = now.fell
          BY <2>6 DEF AgentStates
        <4>2. helper' = [helper EXCEPT ![s] = "answered"]
          BY <2>3, <4>1 DEF AgentBecomes
        <4>3. /\ answers' = answers \cup {<<s, d>>} /\ UNCHANGED <<mDialog, fell>>
          BY <2>3, <4>1 DEF AgentBecomes
        <4>4. helper \in [PolkitSession -> {"none", "running", "asking", "answered", "ended"}]
          BY AgentTypes
        <4> QED BY <4>2, <4>3, <4>4
      <3>2. \A t \in PolkitSession : /\ helper'[t] # "none" => asked[t.auth] = <<t.identity>>
                                     /\ helper'[t] \in Running => mDialog = t.auth
                                     /\ helper'[t] = "ended" => mDialog # t.auth
        BY <2>2, <3>1 DEF InTurn, Running
      <3>3. ASSUME NEW b \in Auth, NEW i \in 1..Len(finished[b])
            PROVE  /\ i = 1 /\ finished[b][i].auth = b
                   /\ helper'[finished[b][i]] \notin {"none", "running"}
        <4>1. /\ i = 1 /\ finished[b][i].auth = b /\ finished[b][i] \in PolkitSession
              /\ helper[finished[b][i]] \notin {"none", "running"}
          BY <3>3 DEF InTurn, PolkitInductive
        <4> QED BY <3>1, <4>1
      <3>4. <<s, d>>[1].auth = <<s, d>>[2]
        OBVIOUS
      <3>5. \A answer \in answers' : answer[1].auth = answer[2]
        BY <3>1, <3>4 DEF InTurn
      <3>6. fell' \in {"none", "late"}
        BY <3>1 DEF InTurn
      <3>7. UNCHANGED <<asked, finished, mDialog>>
        BY <3>1
      <3> QED BY <3>2, <3>3, <3>5, <3>6, <3>7 DEF InTurn
    <2> QED BY <2>4, <2>5, <2>6
  <1> QED BY <1>1, <1>2

LEMMA AnsweredInTurn ==
    ASSUME PolkitInductive, NEW d \in Auth, NEW password \in {"", "password"},
           SetConfirmationResult(d, password)
    PROVE  PolkitInductive'
  <1> DEFINE now == [Now EXCEPT !.typed[d] = password]
             after == FoldLeft(AfterAnswer, now, finished[d])
             marked == IF after.fell = "answer" /\ d # mDialog
                       THEN [after EXCEPT !.fell = "late"] ELSE after
  <1>1. /\ finished[d] # <<>> /\ finished[d] \in Seq(PolkitSession) /\ fell = "none"
        /\ AgentBecomes(marked) /\ UNCHANGED <<asked, dialogs, finished, overlapped>>
    BY DEF SetConfirmationResult, Answered, PolkitInductive
  <1>2. now \in AgentStates
    BY DEF PolkitInductive, AgentStates, Now
  <1>3. /\ now.helper = helper /\ now.mDialog = mDialog /\ now.fell = fell
        /\ now.answers = answers
    BY DEF Now
  <1> HIDE DEF now
  <1>4. after \in AgentStates
    BY <1>1, <1>2, TurnsKeep, TurnTyped DEF PolkitInductive
  <1>5. \A s \in PolkitSession : finished[d] = <<s>> => after = AfterAnswer(now, s)
    BY OneTurn
  <1> HIDE DEF after
  <1>6. marked \in AgentStates
    BY <1>4 DEF AgentStates
  <1>7. Now' \in AgentStates'
    <2> HIDE DEF marked
    <2> QED BY <1>1, <1>6 DEF AgentBecomes, Now, AgentStates
  <1>8. ASSUME ~overlapped PROVE InTurn'
    <2>1. InTurn /\ \A i \in 1..Len(finished[d]) : i = 1
      BY <1>8 DEF PolkitInductive, InTurn
    <2>2. PICK s \in PolkitSession : finished[d] = <<s>> /\ s = finished[d][1] /\ 1 \in 1..Len(finished[d])
      BY <1>1, <2>1, OneElement
    <2>3. s.auth = d /\ helper[s] \notin {"none", "running"}
      BY <2>1, <2>2 DEF InTurn
    <2>4. after = AfterAnswer(now, s)
      BY <1>5, <2>2
    <2> QED BY <1>1, <1>2, <1>3, <2>1, <2>3, <2>4, AnswerInTurn
  <1> QED BY <1>1, <1>7, <1>8 DEF PolkitInductive

LEMMA PolkitSteps == PolkitInductive /\ [PolkitNext]_polkitVars => PolkitInductive'
  <1> SUFFICES ASSUME PolkitInductive, [PolkitNext]_polkitVars PROVE PolkitInductive'
    OBVIOUS
  <1>1. CASE UNCHANGED polkitVars
    BY <1>1 DEF polkitVars, PolkitInductive, InTurn, Now, AgentStates
  <1>2. ASSUME NEW d \in Auth, DeleteDialog(d) PROVE PolkitInductive'
    <2>1. Now' \in AgentStates'
      BY <1>2 DEF DeleteDialog, PolkitInductive, Now, AgentStates
    <2> QED BY <1>2, <2>1 DEF DeleteDialog, PolkitInductive, InTurn
  <1> QED BY <1>1, <1>2, BeginsInTurn, RequestInTurn, CompletedInTurn, AnsweredInTurn
          DEF PolkitNext

(* The listener's state has its types, with any number of sessions at once. *)
THEOREM PolkitTypeCorrect == PolkitSpec => []PolkitTypeOK
  <1>1. PolkitInductive => PolkitTypeOK
    <2> SUFFICES ASSUME PolkitInductive PROVE PolkitTypeOK
      OBVIOUS
    <2>1. /\ \A a \in Auth : Range(asked[a]) \subseteq Identity
          /\ \A a \in Auth : Range(finished[a]) \subseteq PolkitSession
      BY DEF PolkitInductive, Range
    <2> QED BY <2>1 DEF PolkitInductive, Now, AgentStates, PolkitTypeOK
  <1> QED BY PolkitStarts, PolkitSteps, <1>1, PTL DEF PolkitSpec

(* Authentications that come one after the other bring the shell down by a *)
(* late answer to a dialog marked for deletion only, and no password goes  *)
(* to the helper of another one, for every set of identities, any number   *)
(* of authentications and every order of requests, answers and failures.   *)
THEOREM AlwaysSafeInTurn == PolkitSpec => []SafeInTurn
  <1>1. PolkitInductive => SafeInTurn
    BY DEF PolkitInductive, InTurn, SafeInTurn
  <1> QED BY PolkitStarts, PolkitSteps, <1>1, PTL DEF PolkitSpec

-----------------------------------------------------------------------------
(* The launch history.  What a shell has not read is in the table, and a   *)
(* count stays behind the number of launches.                              *)
RecentInductive ==
    /\ RecentAppsTypeOK
    /\ recent \in [RecentShell -> Seq(RecentApp)]
    /\ unread \in [RecentShell -> SUBSET RecentApp]
    /\ \A s \in RecentShell : unread[s] \subseteq Table
    /\ \A app \in RecentApp : count[app] = Unstored \/ count[app] < launches
    /\ RecentAreStored

LEMMA RecentStarts == RecentInit => RecentInductive
  <1> SUFFICES ASSUME RecentInit PROVE RecentInductive
    OBVIOUS
  <1>1. /\ count \in [RecentApp -> Unstored .. Launches]
        /\ launches \in 0 .. Launches /\ starts \in 0 .. Launches
    BY RecentAssumption DEF RecentInit, Unstored
  <1>2. Table = {}
    BY DEF RecentInit, Table
  <1>3. RecentAppsTypeOK
    BY <1>1, <1>2 DEF RecentInit, RecentAppsTypeOK, Range
  <1> QED BY <1>2, <1>3 DEF RecentInit, RecentInductive, RecentAreStored

(* What a shell does that changes the table of no program. *)
LEMMA TableKept ==
    ASSUME RecentInductive, UNCHANGED <<count, launches>>,
           dbFile' \in {"absent", "bare", "ready"}, dbFile' # "ready" => dbFile # "ready",
           closed' \subseteq RecentShell,
           starts' \in 0 .. Launches,
           NEW t \in RecentShell, NEW what \in {"off", "preparing", "opened", "on"},
           state' = [state EXCEPT ![t] = what],
           NEW list \in Seq(RecentApp), NEW seen \in SUBSET Table,
           recent' = [recent EXCEPT ![t] = list], unread' = [unread EXCEPT ![t] = seen],
           what = "on" => IsInjective(list) /\ Range(list) = Table \ seen
    PROVE  RecentInductive'
  <1> USE DEF RecentInductive, RecentAppsTypeOK
  <1>1. Table' = Table /\ Table \subseteq RecentApp
    BY DEF Table
  <1>2. /\ state' \in [RecentShell -> {"off", "preparing", "opened", "on"}]
        /\ recent' \in [RecentShell -> Seq(RecentApp)]
        /\ unread' \in [RecentShell -> SUBSET RecentApp]
    BY <1>1
  <1>3. \A s \in RecentShell : unread'[s] \subseteq Table'
    BY <1>1
  <1>4. \A s \in RecentShell : Range(recent'[s]) \subseteq RecentApp
    BY <1>2, RangeIsToSet, ToSetOfSeq
  <1>5. RecentAreStored'
    BY <1>1, <1>2 DEF RecentAreStored
  <1>6. RecentAppsTypeOK'
    BY <1>1, <1>2, <1>4
  <1> QED BY <1>1, <1>2, <1>3, <1>5, <1>6

(* A shell that read a list of stored programs, all or none of them. *)
LEMMA ListRead ==
    ASSUME RecentInductive, NEW s \in RecentShell, SetList(s),
           NEW list \in Seq(Table), IsInjective(list),
           recent' = [recent EXCEPT ![s] = list],
           unread' = [unread EXCEPT ![s] = Table \ Range(list)]
    PROVE  RecentInductive'
  <1>1. list \in Seq(RecentApp) /\ Range(list) \subseteq Table
    <2>1. Table \subseteq RecentApp
      BY DEF Table
    <2>2. Range(list) \subseteq Table
      BY RangeIsToSet, ToSetOfSeq
    <2>3. list \in [1..Len(list) -> RecentApp] /\ Len(list) \in Nat
      BY <2>1
    <2> QED BY <2>2, <2>3, FunctionIsSeq
  <1>2. /\ state' = [state EXCEPT ![s] = "on"]
        /\ UNCHANGED <<dbFile, count, closed, launches, starts>>
    BY DEF SetList
  <1>3. /\ dbFile \in {"absent", "bare", "ready"} /\ starts \in 0 .. Launches
        /\ closed \subseteq RecentShell
    BY DEF RecentInductive, RecentAppsTypeOK
  <1>4. Range(list) = Table \ (Table \ Range(list)) /\ Table \ Range(list) \in SUBSET Table
    BY <1>1
  <1> QED BY <1>1, <1>2, <1>3, <1>4, TableKept

LEMMA LaunchStep ==
    ASSUME RecentInductive, NEW s \in RecentShell, NEW app \in RecentApp, LaunchRecent(s, app)
    PROVE  RecentInductive'
  <1> USE RecentAssumption DEF RecentInductive, RecentAppsTypeOK
  <1>1. /\ launches \in Nat /\ launches' = launches + 1 /\ launches' \in 0 .. Launches
        /\ UNCHANGED <<dbFile, state, closed, starts>>
    BY DEF LaunchRecent
  <1>2. ASSUME CanInsert(s, app), count' = [count EXCEPT ![app] = 0],
               recent' = [recent EXCEPT ![s] = <<app>> \o @],
               unread' = [o \in RecentShell |-> IF o # s THEN unread[o] \cup {app} ELSE unread[o]]
        PROVE  RecentInductive'
    <2>1. /\ \A o \in RecentShell : unread'[o] = IF o # s THEN unread[o] \cup {app} ELSE unread[o]
          /\ unread' \in [RecentShell -> SUBSET RecentApp]
      BY <1>2
    <2>2. app \notin Table /\ dbFile = "ready" /\ Table \subseteq RecentApp
      BY <1>2 DEF CanInsert, Table
    <2>3. Table' = Table \cup {app}
      BY <1>2 DEF Table, Unstored
    <2>4. /\ count' \in [RecentApp -> Unstored .. Launches]
          /\ \A a \in RecentApp : count'[a] = Unstored \/ count'[a] < launches'
      BY <1>1, <1>2 DEF Unstored
    <2>5. recent[s] \in Seq(RecentApp) /\ <<app>> \o recent[s] \in Seq(RecentApp)
      BY PrependSet
    <2>6. recent' \in [RecentShell -> Seq(RecentApp)]
      BY <1>2, <2>5
    <2>7. \A o \in RecentShell : Range(recent'[o]) \subseteq RecentApp
      BY <2>6, RangeIsToSet, ToSetOfSeq
    <2>8. RecentAreStored'
      <3> SUFFICES ASSUME NEW o \in RecentShell, state[o] = "on"
                   PROVE  IsInjective(recent'[o]) /\ Range(recent'[o]) = Table' \ unread'[o]
        BY <1>1 DEF RecentAreStored
      <3>1. IsInjective(recent[o]) /\ Range(recent[o]) = Table \ unread[o]
        BY DEF RecentAreStored
      <3>2. CASE o = s
        <4>1. app \notin ToSet(recent[s])
          BY <3>1, <3>2, <2>2, RangeIsToSet
        <4>2. /\ ToSet(<<app>> \o recent[s]) = ToSet(recent[s]) \cup {app}
              /\ IsInjective(<<app>> \o recent[s])
          BY <2>5, <3>1, <3>2, <4>1, PrependSet
        <4>3. recent'[o] = <<app>> \o recent[s] /\ unread'[o] = unread[o]
          BY <1>2, <2>1, <3>2
        <4>4. app \notin unread[o]
          BY <2>2
        <4> QED BY <2>3, <3>1, <3>2, <4>2, <4>3, <4>4, RangeIsToSet
      <3>3. CASE o # s
        <4>1. recent'[o] = recent[o] /\ unread'[o] = unread[o] \cup {app}
          BY <1>2, <2>1, <3>3
        <4> QED BY <2>2, <2>3, <3>1, <4>1
      <3> QED BY <3>2, <3>3
    <2>9. \A o \in RecentShell : unread'[o] \subseteq Table'
      BY <2>1, <2>3
    <2> QED BY <1>1, <2>1, <2>2, <2>4, <2>6, <2>7, <2>8, <2>9
  <1>3. ASSUME CountUp(s, app), UNCHANGED <<recent, unread>> PROVE RecentInductive'
    <2>1. count' = count \/ (app \in Table /\ count' = [count EXCEPT ![app] = @ + 1])
      BY <1>3 DEF CountUp
    <2>2. \A a \in RecentApp : count[a] \in Unstored .. Launches
      OBVIOUS
    <2>3. app \in Table => count[app] \in 0 .. launches - 1
      BY <1>1, <2>2 DEF Table, Unstored
    <2>4. /\ count' \in [RecentApp -> Unstored .. Launches]
          /\ \A a \in RecentApp : count'[a] = Unstored \/ count'[a] < launches'
      <3>1. CASE count' = count
        BY <1>1, <3>1
      <3>2. CASE app \in Table /\ count' = [count EXCEPT ![app] = @ + 1]
        <4>1. \A a \in RecentApp : count'[a] = IF a = app THEN count[a] + 1 ELSE count[a]
          BY <3>2
        <4>2. count'[app] \in 1 .. launches /\ count'[app] \in Unstored .. Launches
          BY <1>1, <2>3, <3>2, <4>1 DEF Unstored
        <4>3. count' \in [RecentApp -> Unstored .. Launches]
          BY <2>2, <3>2, <4>1, <4>2
        <4>4. \A a \in RecentApp : count'[a] = Unstored \/ count'[a] < launches'
          BY <1>1, <4>1, <4>2 DEF Unstored
        <4> QED BY <4>3, <4>4
      <3> QED BY <2>1, <3>1, <3>2
    <2>5. Table' = Table
      BY <2>1, <2>3 DEF Table, Unstored
    <2>6. RecentAreStored'
      BY <1>1, <1>3, <2>5 DEF RecentAreStored
    <2> QED BY <1>1, <1>3, <2>4, <2>5, <2>6
  <1>4. PICK stored \in BOOLEAN :
            /\ stored => CanInsert(s, app)
            /\ IF stored THEN count' = [count EXCEPT ![app] = 0] ELSE CountUp(s, app)
            /\ recent' = InsertRow(s, app, stored)
            /\ unread' = [o \in RecentShell |->
                             IF o # s /\ stored THEN unread[o] \cup {app} ELSE unread[o]]
    BY DEF LaunchRecent
  <1>5. CASE stored
    BY <1>2, <1>4, <1>5 DEF InsertRow
  <1>6. CASE ~stored
    <2>1. unread = [o \in RecentShell |-> unread[o]]
      OBVIOUS
    <2>2. UNCHANGED <<recent, unread>> /\ CountUp(s, app)
      BY <1>4, <1>6, <2>1 DEF InsertRow
    <2> QED BY <1>3, <2>2
  <1> QED BY <1>5, <1>6

LEMMA RecentSteps == RecentInductive /\ [RecentNext]_recentVars => RecentInductive'
  <1> SUFFICES ASSUME RecentInductive, [RecentNext]_recentVars PROVE RecentInductive'
    OBVIOUS
  <1>0. /\ IsFiniteSet(Table) /\ <<>> \in Seq(RecentApp)
        /\ \A s \in RecentShell : unread[s] \in SUBSET Table /\ recent[s] \in Seq(RecentApp)
        /\ starts \in 0 .. Launches /\ dbFile \in {"absent", "bare", "ready"}
        /\ closed \subseteq RecentShell
    BY RecentAssumption, FS_Subset DEF Table, RecentInductive, RecentAppsTypeOK
  <1> DEFINE Same(s) == /\ recent = [recent EXCEPT ![s] = recent[s]]
                        /\ unread = [unread EXCEPT ![s] = unread[s]]
  <1>1. \A s \in RecentShell : Same(s)
    BY DEF RecentInductive
  <1>2. ASSUME NEW s \in RecentShell, OpenDB(s) PROVE RecentInductive'
    <2>1. PICK what \in {"preparing", "opened"} : state' = [state EXCEPT ![s] = what]
      BY <1>2 DEF OpenDB
    <2>2. dbFile' \in {"absent", "bare", "ready"} /\ (dbFile' # "ready" => dbFile # "ready")
      BY <1>0, <1>2 DEF OpenDB
    <2>3. starts' \in 0 .. Launches /\ closed' \subseteq RecentShell
      BY <1>0, <1>2, RecentAssumption DEF OpenDB
    <2>4. UNCHANGED <<count, recent, unread, launches>> /\ what # "on"
      BY <1>2, <2>1 DEF OpenDB
    <2>5. recent' = [recent EXCEPT ![s] = recent[s]] /\ unread' = [unread EXCEPT ![s] = unread[s]]
      BY <1>1, <2>4
    <2> QED BY <1>0, <2>1, <2>2, <2>3, <2>4, <2>5, TableKept
  <1>3. ASSUME NEW s \in RecentShell, PrepareCollectionDB(s) PROVE RecentInductive'
    <2>1. /\ state' = [state EXCEPT ![s] = "opened"]
          /\ dbFile' \in {dbFile, "ready"}
          /\ UNCHANGED <<count, closed, recent, unread, launches, starts>>
      BY <1>3 DEF PrepareCollectionDB
    <2>2. dbFile' \in {"absent", "bare", "ready"} /\ (dbFile' # "ready" => dbFile # "ready")
      BY <1>0, <2>1
    <2>3. recent' = [recent EXCEPT ![s] = recent[s]] /\ unread' = [unread EXCEPT ![s] = unread[s]]
      BY <1>1, <2>1
    <2> QED BY <1>0, <2>1, <2>2, <2>3, TableKept
  <1>4. ASSUME NEW s \in RecentShell, SetList(s) PROVE RecentInductive'
    <2>1. PICK list \in Lists(s) : /\ recent' = [recent EXCEPT ![s] = list]
                                   /\ unread' = [unread EXCEPT ![s] = Table \ Range(list)]
      BY <1>4 DEF SetList
    <2>2. CASE list = <<>>
      <3>1. list \in Seq(Table) /\ IsInjective(list) /\ ToSet(list) = {} /\ Range(list) = ToSet(list)
        BY <2>2, EmptyList, EmptySeq, RangeIsToSet
      <3> QED BY <1>4, <2>1, <3>1, ListRead
    <2>3. CASE list \in ByCount
      <3>1. list \in Seq(Table) /\ IsInjective(list)
        BY <1>0, <2>3, ListOfAll DEF ByCount
      <3> QED BY <1>4, <2>1, <3>1, ListRead
    <2> QED BY <2>1, <2>2, <2>3 DEF Lists
  <1>5. ASSUME NEW s \in RecentShell, QuitShell(s) PROVE RecentInductive'
    <2>1. /\ state' = [state EXCEPT ![s] = "off"] /\ recent' = [recent EXCEPT ![s] = <<>>]
          /\ unread' = [unread EXCEPT ![s] = unread[s]]
          /\ UNCHANGED <<dbFile, count, launches, starts>> /\ closed' \subseteq RecentShell
      BY <1>0, <1>1, <1>5 DEF QuitShell
    <2> QED BY <1>0, <2>1, TableKept
  <1>6. ASSUME NEW s \in RecentShell, NEW app \in RecentApp, LaunchRecent(s, app)
        PROVE  RecentInductive'
    BY <1>6, LaunchStep
  <1>7. CASE UNCHANGED recentVars
    BY <1>7 DEF recentVars, RecentInductive, RecentAppsTypeOK, RecentAreStored, Table
  <1> QED BY <1>2, <1>3, <1>4, <1>5, <1>6, <1>7 DEF RecentNext

(* The file and the shells' copies of it keep their types.                 *)
THEOREM RecentTypeCorrect == RecentSpec => []RecentAppsTypeOK
  <1>1. RecentInductive => RecentAppsTypeOK
    BY DEF RecentInductive
  <1> QED BY RecentStarts, RecentSteps, <1>1, PTL DEF RecentSpec

(* However launches of any number of shells, files that do not open,       *)
(* queries that fail and restarts follow each other, a shell shows all     *)
(* that is stored, each program once, but what it failed to read and what  *)
(* others have added since (appsdb.cpp, recentappsmodel.cpp).              *)
THEOREM RecentAlwaysStored == RecentSpec => []RecentAreStored
  <1>1. RecentInductive => RecentAreStored
    BY DEF RecentInductive
  <1> QED BY RecentStarts, RecentSteps, <1>1, PTL DEF RecentSpec

-----------------------------------------------------------------------------
(* The cursor grabber: whose images it takes over, one at a time, for      *)
(* every set of surfaces and seats.                                        *)

(* What is connected to success() is of the seat the item has or of the    *)
(* surface m_grabber was made for.                                         *)
FlyingIsCurrent ==
    /\ flying \in CursorSeat => flying = seat
    /\ flying \in CursorSurface => flying = grabber

CursorInductive == CursorTypeOK /\ FlyingIsCurrent /\ OneGrab

LEMMA CursorStarts == CursorInit => CursorInductive
  BY CursorAssumption
  DEF CursorInit, CursorInductive, CursorTypeOK, FlyingIsCurrent, OneGrab, Grabbable

(* A grab is started for the seat or for m_grabber, and none is under way. *)
LEMMA GrabKeeps ==
    ASSUME CursorInductive, NEW source \in {seat, grabber} \ {Nothing}, MayGrab, Grab(source),
           UNCHANGED <<seat, surface, redraws, grabber, grab, posted>>,
           drags' \subseteq CursorSeat
    PROVE  CursorInductive'
  <1> USE CursorAssumption DEF CursorInductive, CursorTypeOK, Grabbable
  <1>1. flying = Nothing /\ posted = Nothing
    BY DEF OneGrab, MayGrab
  <1>2. \/ source = seat /\ source \in CursorSeat
        \/ source = grabber /\ source \in CursorSurface
    OBVIOUS
  <1>3. CursorTypeOK'
    BY <1>2 DEF Grab
  <1>4. FlyingIsCurrent'
    BY <1>1, <1>2 DEF Grab, FlyingIsCurrent
  <1>5. OneGrab'
    BY <1>1 DEF Grab, OneGrab
  <1> QED BY <1>3, <1>4, <1>5

LEMMA CursorSteps == CursorInductive /\ [CursorNext]_cursorVars => CursorInductive'
  <1> SUFFICES ASSUME CursorInductive, [CursorNext]_cursorVars PROVE CursorInductive'
    OBVIOUS
  <1> USE CursorAssumption
      DEF CursorInductive, CursorTypeOK, FlyingIsCurrent, OneGrab, Grabbable
  <1>1. ASSUME NEW s \in CursorSeat, SetSeat(s) PROVE CursorInductive'
    BY <1>1 DEF SetSeat, Disconnected
  <1>2. ASSUME NEW s \in CursorSeat, DragIconChanged(s) PROVE CursorInductive'
    <2>1. /\ drags' \subseteq CursorSeat
          /\ UNCHANGED <<seat, surface, redraws, grabber, grab, posted>>
      BY <1>2 DEF DragIconChanged
    <2>2. \/ s = seat /\ MayGrab /\ Grab(s)
          \/ UNCHANGED <<grabbing, flying, cursor>>
      BY <1>2 DEF DragIconChanged
    <2>3. CASE s = seat /\ MayGrab /\ Grab(s)
      BY <2>1, <2>3, GrabKeeps
    <2>4. CASE UNCHANGED <<grabbing, flying, cursor>>
      BY <2>1, <2>4
    <2> QED BY <2>2, <2>3, <2>4
  <1>3. ASSUME NEW value \in BOOLEAN, SetGrab(value) PROVE CursorInductive'
    BY <1>3 DEF SetGrab
  <1>4. ASSUME NEW s \in CursorSurface \cup {Nothing}, CursorSurfaceRequest(s)
        PROVE  CursorInductive'
    <2>1. CASE s = surface
      BY <1>4, <2>1 DEF CursorSurfaceRequest
    <2>2. CASE s # surface
      <3>1. flying' \notin CursorSurface /\ flying' \in {flying, Nothing}
        BY <1>4, <2>2 DEF CursorSurfaceRequest, Disconnected
      <3>2. /\ grabber' = s /\ redraws' = s /\ surface' \in {s, surface}
            /\ UNCHANGED <<seat, drags, grab, grabbing, posted, cursor>>
        BY <1>4, <2>2 DEF CursorSurfaceRequest
      <3> QED BY <3>1, <3>2
    <2> QED BY <2>1, <2>2
  <1>5. CASE SurfaceDestroyed
    BY <1>5 DEF SurfaceDestroyed
  <1>6. CASE Redraw
    BY <1>6, GrabKeeps DEF Redraw
  <1>7. CASE Success
    BY <1>7 DEF Success
  <1>8. CASE Grabbed
    BY <1>8 DEF Grabbed
  <1>9. CASE GrabFailed
    BY <1>9 DEF GrabFailed
  <1>10. CASE UNCHANGED cursorVars
    BY <1>10 DEF cursorVars
  <1> QED BY <1>1, <1>2, <1>3, <1>4, <1>5, <1>6, <1>7, <1>8, <1>9, <1>10 DEF CursorNext

(* Only success() queues an image, and only what is still connected. *)
LEMMA PostedFromFlying ==
    ASSUME CursorInductive, [CursorNext]_cursorVars, posted' # posted, posted' # Nothing
    PROVE  posted' \in {grabber, seat}
  <1>1. Success
    BY DEF CursorNext, cursorVars, SetSeat, DragIconChanged, SetGrab, CursorSurfaceRequest,
           SurfaceDestroyed, Redraw, Grabbed, GrabFailed
  <1>2. posted' = flying /\ flying \in CursorSeat \cup CursorSurface
    BY <1>1 DEF Success, CursorInductive, CursorTypeOK, Grabbable
  <1> QED BY <1>2 DEF CursorInductive, FlyingIsCurrent

(* The variables of the grabber keep their types.                          *)
THEOREM CursorTypeCorrect == CursorSpec => []CursorTypeOK
  <1>1. CursorInductive => CursorTypeOK
    BY DEF CursorInductive
  <1> QED BY CursorStarts, CursorSteps, <1>1, PTL DEF CursorSpec

(* An image is taken over only from a grabber the item has at that moment, *)
(* whatever grabs were disconnected (waylandcursorgrabber.cpp).            *)
THEOREM AlwaysOnlyOwnImages == CursorSpec => OnlyOwnImages
  <1>1. CursorInductive /\ [CursorNext]_cursorVars
            => [posted' # posted /\ posted' # Nothing => posted' \in {grabber, seat}]_cursorVars
    BY PostedFromFlying
  <1> QED BY CursorStarts, CursorSteps, <1>1, PTL DEF CursorSpec, OnlyOwnImages

(* There is never more than one grab under way or queued, and m_grabbing   *)
(* says so (waylandcursorgrabber.cpp:160-200).                             *)
THEOREM AlwaysOneGrab == CursorSpec => []OneGrab
  <1>1. CursorInductive => OneGrab
    BY DEF CursorInductive
  <1> QED BY CursorStarts, CursorSteps, <1>1, PTL DEF CursorSpec

-----------------------------------------------------------------------------
(* The power manager: what the Shutdown button shows once every call is    *)
(* answered, for every order of the answers and whenever it was made.      *)

(* The counter is the number of calls on their way: the code has nothing   *)
(* but it to tell that the last answer is in.                              *)
PowerInductive ==
    /\ PowerTypeOK
    /\ pendingJobs = Cardinality(unanswered)
    /\ ShutdownFollowsAnswer

LEMMA FiveOperations == IsFiniteSet(PowerOperation) /\ Cardinality(PowerOperation) = 5
  <1> DEFINE A == {"shutdown"}
             B == A \cup {"reboot"}
             C == B \cup {"suspend"}
             D == C \cup {"hybridSuspend"}
  <1>1. PowerOperation = D \cup {"hibernate"} /\ "hibernate" \notin D
    BY DEF PowerOperation
  <1>2. IsFiniteSet(A) /\ Cardinality(A) = 1
    BY FS_Singleton
  <1>3. IsFiniteSet(B) /\ Cardinality(B) = 2
    BY <1>2, FS_AddElement
  <1>4. IsFiniteSet(C) /\ Cardinality(C) = 3
    BY <1>3, FS_AddElement
  <1>5. IsFiniteSet(D) /\ Cardinality(D) = 4
    <2>1. "hybridSuspend" \notin C
      OBVIOUS
    <2> HIDE DEF C
    <2> QED BY <1>4, <2>1, FS_AddElement
  <1> HIDE DEF D
  <1> QED BY <1>1, <1>5, FS_AddElement

(* Taking one call out of those on their way, as propLoaded does. *)
LEMMA OneAnswered ==
    ASSUME NEW S \in SUBSET PowerOperation, NEW op \in S
    PROVE  /\ Cardinality(S) \in 1..5
           /\ Cardinality(S \ {op}) = Cardinality(S) - 1
           /\ Cardinality(S \ {op}) = 0 <=> S \ {op} = {}
  <1>1. IsFiniteSet(S) /\ Cardinality(S) <= 5
    BY FiveOperations, FS_Subset
  <1>2. IsFiniteSet(S \ {op}) /\ Cardinality(S \ {op}) = Cardinality(S) - 1
    BY <1>1, FS_RemoveElement
  <1>3. Cardinality(S) \in Nat /\ Cardinality(S \ {op}) \in Nat
    BY <1>1, <1>2, FS_CardinalityType
  <1>4. Cardinality(S \ {op}) = 0 <=> S \ {op} = {}
    BY <1>2, FS_EmptySet
  <1> QED BY <1>1, <1>2, <1>3, <1>4

LEMMA PowerStarts == PowerInit => PowerInductive
  <1> SUFFICES ASSUME PowerInit PROVE PowerInductive
    OBVIOUS
  <1>1. PowerTypeOK
    <2>1. made \in BOOLEAN /\ enabled \in BOOLEAN
      BY DEF PowerInit
    <2>2. pendingJobs \in 0 .. 5
      BY DEF PowerInit, Jobs
    <2> QED BY <2>1, <2>2 DEF PowerInit, PowerTypeOK
  <1>2. ShutdownFollowsAnswer
    BY DEF PowerInit, ShutdownFollowsAnswer
  <1>3. pendingJobs = Cardinality(unanswered)
    BY FiveOperations DEF PowerInit, Jobs
  <1> QED BY <1>1, <1>2, <1>3 DEF PowerInductive

LEMMA PowerSteps == PowerInductive /\ [PowerNext]_powerVars => PowerInductive'
  <1> SUFFICES ASSUME PowerInductive, [PowerNext]_powerVars PROVE PowerInductive'
    OBVIOUS
  <1> USE DEF PowerInductive
  <1>1. CASE ButtonMade
    <2>1. UNCHANGED <<provider, unanswered, can, pendingJobs>>
      BY <1>1 DEF ButtonMade
    <2>2. made' \in BOOLEAN /\ enabled' \in BOOLEAN
      <3>1. ("shutdown" \in can) \in BOOLEAN
        OBVIOUS
      <3>2. made' = TRUE /\ enabled' = ("shutdown" \in can)
        BY <1>1 DEF ButtonMade
      <3> QED BY <3>1, <3>2, Zenon
    <2>3. ShutdownFollowsAnswer'
      BY <1>1 DEF ButtonMade, ShutdownFollowsAnswer
    <2> QED BY <2>1, <2>2, <2>3 DEF PowerTypeOK
  <1>2. ASSUME NEW op \in PowerOperation, NEW answer, PropLoaded(op, answer)
        PROVE  PowerInductive'
    <2>1. /\ Cardinality(unanswered) \in 1..5
          /\ pendingJobs' = Cardinality(unanswered')
          /\ pendingJobs' = 0 <=> unanswered' = {}
      BY <1>2, OneAnswered DEF PropLoaded, PowerTypeOK
    <2>2. PowerTypeOK'
      <3>1. /\ can' \subseteq PowerOperation \ unanswered'
            /\ unanswered' \subseteq PowerOperation
        BY <1>2 DEF PropLoaded, PowerTypeOK
      <3>2. made' \in BOOLEAN /\ enabled' \in BOOLEAN
        <4>1. made \in BOOLEAN /\ enabled \in BOOLEAN
          BY DEF PowerTypeOK
        <4>2. ("shutdown" \in can') \in BOOLEAN
          OBVIOUS
        <4>3. made' = made /\ (enabled' = enabled \/ enabled' = ("shutdown" \in can'))
          BY <1>2 DEF PropLoaded
        <4> QED BY <4>1, <4>2, <4>3, Zenon
      <3>3. pendingJobs' \in 0..5
        BY <1>2, <2>1 DEF PropLoaded
      <3> QED BY <1>2, <3>1, <3>2, <3>3 DEF PropLoaded, PowerTypeOK
    <2>3. ShutdownFollowsAnswer'
      <3>1. CASE pendingJobs' = 0
        BY <1>2, <3>1 DEF PropLoaded, ShutdownFollowsAnswer
      <3>2. CASE pendingJobs' # 0
        BY <2>1, <3>2 DEF ShutdownFollowsAnswer
      <3> QED BY <3>1, <3>2
    <2> QED BY <2>1, <2>2, <2>3
  <1>3. CASE UNCHANGED powerVars
    BY <1>3 DEF powerVars, PowerTypeOK, ShutdownFollowsAnswer
  <1> QED BY <1>1, <1>2, <1>3 DEF PowerNext

(* The counter of propLoaded and the values it announces keep their types. *)
THEOREM PowerTypeCorrect == PowerSpec => []PowerTypeOK
  <1>1. PowerInductive => PowerTypeOK
    BY DEF PowerInductive
  <1> QED BY PowerStarts, PowerSteps, <1>1, PTL DEF PowerSpec

(* Once every call is answered, in whichever order, the Shutdown button is *)
(* enabled if and only if the service said yes or challenge, whenever the  *)
(* button was made (powermanager.cpp:20-66, SessionItem.qml:219).          *)
THEOREM ShutdownAlwaysFollowsAnswer == PowerSpec => []ShutdownFollowsAnswer
  <1>1. PowerInductive => ShutdownFollowsAnswer
    BY DEF PowerInductive
  <1> QED BY PowerStarts, PowerSteps, <1>1, PTL DEF PowerSpec

-----------------------------------------------------------------------------
(* All parts together: what Parts does is, for each of them, what its own  *)
(* module says, so that what is proved of a part holds here.               *)

(* Every behaviour of Parts is one of each part: the part that moves takes *)
(* its steps, and the others stutter.                                      *)
THEOREM PartsAreTheirOwn ==
    PartsSpec => /\ EnvSpec /\ AutostartSpec /\ PlayerSpec /\ PlayersSpec /\ PolkitSpec
                 /\ FocusSpec /\ CursorSpec /\ ShellSpec /\ RecentSpec /\ PowerSpec
  <1>1. PartsInit => /\ EnvInit /\ AutostartInit /\ PlayerInit /\ PlayersInit /\ PolkitInit
                     /\ FocusInit /\ CursorInit /\ ShellInit /\ RecentInit /\ PowerInit
    BY DEF PartsInit
  <1>2. ASSUME [PartsNext]_partsVars
        PROVE  /\ [EnvNext]_envVars /\ [AutostartNext]_autostartVars
               /\ [PlayerNext]_playerVars /\ [PlayersNext]_playersVars
               /\ [PolkitNext]_polkitVars /\ [FocusNext]_focusVars
               /\ [CursorNext]_cursorVars /\ [ShellNext]_shellVars
               /\ [RecentNext]_recentVars /\ [PowerNext]_powerVars
    <2>1. CASE UNCHANGED partsVars
      BY <2>1 DEF partsVars
    <2>2. CASE PartsNext
      BY <2>2, Zenon DEF PartsNext, OthersStill, Still
    <2> QED BY <1>2, <2>1, <2>2
  <1> QED BY <1>1, <1>2, PTL
          DEF PartsSpec, EnvSpec, AutostartSpec, PlayerSpec, PlayersSpec, PolkitSpec, FocusSpec,
              CursorSpec, ShellSpec, RecentSpec, PowerSpec

LEMMA PartStays == PartsSpec => [](part \in Moving)
  <1>1. PartsInit => part \in Moving
    BY DEF PartsInit
  <1>2. part \in Moving /\ [PartsNext]_partsVars => (part \in Moving)'
    BY DEF PartsNext, OthersStill, partsVars
  <1> QED BY <1>1, <1>2, PTL DEF PartsSpec

(* Every variable of every part has its type, whichever part moves. *)
THEOREM PartsTypeCorrect == PartsSpec => []PartsTypeOK
  <1>1. PartsTypeOK <=>
            /\ part \in Moving
            /\ EnvTypeOK /\ AutostartTypeOK /\ PlayerTypeOK /\ PlayersTypeOK /\ PolkitTypeOK
            /\ FocusTypeOK /\ CursorTypeOK /\ ShellTypeOK /\ RecentAppsTypeOK /\ PowerTypeOK
    BY DEF PartsTypeOK
  <1> QED BY <1>1, PartsAreTheirOwn, PartStays, EnvTypeCorrect, AutostartTypeCorrect,
             PlayerTypeCorrect, PlayersTypeCorrect, PolkitTypeCorrect, FocusTypeCorrect,
             CursorTypeCorrect, ShellTypeCorrect, RecentTypeCorrect, PowerTypeCorrect, PTL

(* What the run MCParts checks on a small instance, for every instance:    *)
(* the invariants of the parts and their two action properties.            *)
THEOREM PartsKeepTheirPromises ==
    PartsSpec => /\ [](SessionVarsFresh /\ ImportKeepsOwn /\ SystemdRestored)
                 /\ [](StartsEachOnce /\ StartsAfter)
                 /\ [](CopyAgrees /\ PlayingCanBeStopped) /\ CopyFollowsPlayer
                 /\ []RowsFollowBus /\ []SafeInTurn
                 /\ [](ActivatedHasFocus /\ SwitcherFollowsFocus)
                 /\ OnlyOwnImages /\ []OneGrab /\ []RespawnsOnce
                 /\ []RecentAreStored /\ []ShutdownFollowsAnswer
  BY PartsAreTheirOwn, SessionVarsAlwaysFresh, ImportAlwaysKeepsOwn, SystemdAlwaysRestored,
     AlwaysStartsEachOnce, AlwaysStartsAfter, CopyAlwaysAgrees, PlayingCanAlwaysBeStopped,
     PlayerIsReplicated, RowsAlwaysFollowBus, AlwaysSafeInTurn, ActivatedAlwaysHasFocus,
     SwitcherAlwaysFollowsFocus, AlwaysOnlyOwnImages, AlwaysOneGrab, AlwaysRespawnsOnce,
     RecentAlwaysStored, ShutdownAlwaysFollowsAnswer, PTL
==============================================================================
