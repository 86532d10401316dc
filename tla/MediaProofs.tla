----------------------------- MODULE MediaProofs -----------------------------
(***************************************************************************)
(* The media players of the status bar: what the shell knows of one, and   *)
(* which of them it lists; for every value of the constants.               *)
(***************************************************************************)
EXTENDS Mpris2Player, Players, SequenceLemmas

-----------------------------------------------------------------------------
(* What the shell knows of a media player, for every number of changes and *)
(* of position reads: its copy never goes back to an older value, and the  *)
(* capability it fakes follows what it is computed from.                   *)

(* Messages from the player; the maps of two kinds have properties.        *)
AnyValue == UNION { PropertyValues[p] : p \in Property }
Maps     == UNION { [D -> AnyValue] : D \in SUBSET Property }
Message  == [kind : {"changed"}, shown : BOOLEAN, map : Maps]
            \cup [kind : {"all"}, map : Maps]
            \cup [kind : {"position"}, at : {"zero", "later"}]
            \cup [kind : {"error"}]

Tells(message, p) == message.kind \in {"changed", "all"} /\ p \in DOMAIN message.map

(* The player and the copy have values of their types, and the values of a *)
(* player have no higher number than it has changed.                       *)
ValuesTyped ==
    /\ DOMAIN player = Property
    /\ \A p \in Property : player[p] \in PropertyValues[p]
    /\ \A p \in Stored : player[p] <= changes + 1
    /\ changes \in 0..PlayerChanges
    /\ copy \in Copy
    /\ incoming \in Seq(Message)

(* Everything on its way is a value of its type, lies between what is      *)
(* shown and what the player has, and comes in the order it was taken:     *)
(* whatever is handled next, the copy does not become older.               *)
IncomingTyped ==
    \A i \in 1..Len(incoming) : \A p \in Property :
        Tells(incoming[i], p) => incoming[i].map[p] \in PropertyValues[p]

IncomingBetween ==
    \A p \in Stored :
        /\ copy[p] <= player[p]
        /\ \A i \in 1..Len(incoming) :
              Tells(incoming[i], p) => /\ copy[p] <= incoming[i].map[p]
                                       /\ incoming[i].map[p] <= player[p]

IncomingInOrder ==
    \A i, j \in 1..Len(incoming) : \A p \in Stored :
        i < j /\ Tells(incoming[i], p) /\ Tells(incoming[j], p)
            => incoming[i].map[p] <= incoming[j].map[p]

PlayerInductive ==
    /\ ValuesTyped
    /\ IncomingTyped /\ IncomingBetween /\ IncomingInOrder
    /\ PlayingCanBeStopped

-----------------------------------------------------------------------------
(* The types of the properties. *)
LEMMA Types ==
    /\ Stored \subseteq Property
    /\ \A p \in Stored : PropertyValues[p] = 1..PlayerChanges + 1
    /\ PropertyValues["CanControl"] = {"yes", "no", "bogus"}
    /\ PropertyValues["Metadata"] = {"none", "track"}
    /\ PropertyValues["PlaybackStatus"] = Status \cup {"bogus"}
    /\ PropertyValues["Rate"] = {0, 1}
    /\ Property = {"Identity", "CanControl", "Metadata", "PlaybackStatus", "Rate", "Volume"}
  BY DEF Stored, Property, RootProperty, PlayerProperty, PropertyValues

(* What a map with values of their types makes of the copy. *)
LEMMA UpdatedShape ==
    ASSUME NEW c \in Copy, NEW map \in Maps,
           \A p \in DOMAIN map : map[p] \in PropertyValues[p]
    PROVE  /\ Updated(c, map) \in Copy
           /\ \A p \in Stored \cup {"CanControl", "Metadata", "PlaybackStatus"} :
                 Updated(c, map)[p] = Known(c, map, p)
           /\ Updated(c, map).CanStop = CanStopAfter(c, map)
  <1> DEFINE u == Updated(c, map)
  <1>1. DOMAIN c = {"Identity", "Volume", "CanControl", "Metadata", "PlaybackStatus",
                    "Rate", "CanStop", "Position"}
    BY DEF Copy
  <1>2. /\ DOMAIN u = DOMAIN c
        /\ u["Identity"] = Known(c, map, "Identity")
        /\ u["Volume"] = Known(c, map, "Volume")
        /\ u["CanControl"] = Known(c, map, "CanControl")
        /\ u["Metadata"] = Known(c, map, "Metadata")
        /\ u["PlaybackStatus"] = Known(c, map, "PlaybackStatus")
        /\ u["Rate"] = RateAfter(c, map)
        /\ u["CanStop"] = CanStopAfter(c, map)
        /\ u["Position"] = PositionAfter(c, map)
    BY <1>1 DEF Updated
  <1>3. /\ Known(c, map, "Identity") \in Nat
        /\ Known(c, map, "Volume") \in Nat
    BY Types, PlayerAssumption DEF Known, Copy, Stored
  <1>4. /\ Known(c, map, "CanControl") \in {"yes", "no"}
        /\ Known(c, map, "PlaybackStatus") \in Status
    BY Types DEF Known, Converts, Copy
  <1>5. /\ Known(c, map, "Metadata") \in {"none", "track"}
        /\ RateAfter(c, map) \in {0, 1}
    BY Types DEF Known, Converts, Copy, RateAfter
  <1>6. PositionAfter(c, map) \in {"zero", "later"}
    BY DEF PositionAfter, Copy
  <1>7. CanStopAfter(c, map) \in BOOLEAN
    BY DEF CanStopAfter, Copy
  <1>8. u = [Identity |-> u["Identity"], Volume |-> u["Volume"],
             CanControl |-> u["CanControl"], Metadata |-> u["Metadata"],
             PlaybackStatus |-> u["PlaybackStatus"], Rate |-> u["Rate"],
             CanStop |-> u["CanStop"], Position |-> u["Position"]]
    BY <1>1 DEF Updated
  <1>9. u \in Copy
    <2> HIDE DEF u
    <2> QED BY <1>2, <1>3, <1>4, <1>5, <1>6, <1>7, <1>8 DEF Copy
  <1> QED BY <1>2, <1>9 DEF Stored

(* PlayingCanBeStopped, of any copy. *)
FakedRight(c) ==
    /\ c.CanStop => c.CanControl = "yes"
    /\ c.CanControl = "yes" /\ c.PlaybackStatus # "Stopped" => c.CanStop

(* The faked capability of what a map makes of a copy that is right. *)
LEMMA UpdatedCanStop ==
    ASSUME NEW c \in Copy, NEW map \in Maps,
           \A p \in DOMAIN map : map[p] \in PropertyValues[p],
           FakedRight(c)
    PROVE  FakedRight(Updated(c, map))
  <1> DEFINE u == Updated(c, map)
  <1>1. /\ u.CanControl = Known(c, map, "CanControl")
        /\ u.PlaybackStatus = Known(c, map, "PlaybackStatus")
        /\ u.CanStop = CanStopAfter(c, map)
    BY UpdatedShape
  <1> SUFFICES FakedRight(u)
    OBVIOUS
  <1> HIDE DEF u
  <1>2. CASE HasStatus(map)
    <2>1. u.CanStop <=> u.CanControl = "yes" /\ map["PlaybackStatus"] # "Stopped"
      BY <1>1, <1>2 DEF CanStopAfter
    <2>2. u.PlaybackStatus # "Stopped" => map["PlaybackStatus"] # "Stopped"
      BY <1>1, <1>2 DEF Known, HasStatus, Converts
    <2> QED BY <2>1, <2>2 DEF FakedRight
  <1>3. CASE ~HasStatus(map) /\ "CanControl" \in DOMAIN map
    <2>1. u.CanStop <=> u.CanControl = "yes"
      BY <1>1, <1>3 DEF CanStopAfter
    <2> QED BY <2>1 DEF FakedRight
  <1>4. CASE ~HasStatus(map) /\ "CanControl" \notin DOMAIN map
    <2>1. /\ u.CanStop = c.CanStop /\ u.CanControl = c.CanControl
          /\ u.PlaybackStatus = c.PlaybackStatus
      BY <1>1, <1>4 DEF CanStopAfter, Known, HasStatus
    <2> QED BY <2>1 DEF FakedRight
  <1> QED BY <1>2, <1>3, <1>4

-----------------------------------------------------------------------------
(* A message is sent: it comes last. *)
LEMMA Sent ==
    ASSUME PlayerInductive, NEW message \in Message,
           incoming' = Append(incoming, message), copy' = copy,
           ValuesTyped', \A p \in Stored : player[p] <= player'[p],
           \A p \in Property : Tells(message, p) =>
               /\ message.map[p] \in PropertyValues[p]
               /\ message.map[p] = player'[p]
    PROVE  PlayerInductive'
  <1> USE DEF PlayerInductive
  <1>1. /\ Len(incoming') = Len(incoming) + 1
        /\ \A i \in 1..Len(incoming') :
              incoming'[i] = IF i = Len(incoming) + 1 THEN message ELSE incoming[i]
    BY DEF ValuesTyped
  <1>2. /\ Len(incoming) \in Nat
        /\ \A p \in Stored : copy[p] \in Nat /\ player[p] \in Nat /\ player'[p] \in Nat
    <2>1. Len(incoming) \in Nat /\ copy \in Copy
      BY DEF ValuesTyped
    <2>2. \A p \in Stored : p \in Property /\ \A v \in PropertyValues[p] : v \in Nat
      BY Types, PlayerAssumption
    <2>3. \A p \in Stored : player[p] \in Nat /\ player'[p] \in Nat
      BY <2>2 DEF ValuesTyped
    <2>4. \A p \in Stored : copy[p] \in Nat
      BY <2>1 DEF Copy, Stored
    <2> QED BY <2>1, <2>3, <2>4
  <1>3. \A i \in 1..Len(incoming) : \A p \in Stored :
            Tells(incoming[i], p) => incoming[i].map[p] \in Nat
    BY Types, PlayerAssumption DEF IncomingTyped
  <1>4. IncomingTyped'
    BY <1>1, <1>2 DEF IncomingTyped, Tells
  <1>5. \A p \in Stored : copy[p] <= player[p]
    BY DEF IncomingBetween
  <1>6. IncomingBetween'
    BY <1>1, <1>2, <1>3, <1>5, Types DEF IncomingBetween, Tells
  <1>7. IncomingInOrder'
    <2> SUFFICES ASSUME NEW i \in 1..Len(incoming'), NEW j \in 1..Len(incoming'),
                        NEW p \in Stored, i < j, Tells(incoming'[i], p), Tells(incoming'[j], p)
                 PROVE  incoming'[i].map[p] <= incoming'[j].map[p]
      BY DEF IncomingInOrder, Tells
    <2>1. i \in 1..Len(incoming) /\ incoming'[i] = incoming[i]
      BY <1>1, <1>2
    <2>2. CASE j = Len(incoming) + 1
      <3>1. incoming'[j] = message
        BY <1>1, <2>2
      <3>2. message.map[p] = player'[p]
        BY <3>1, Types
      <3>3. incoming[i].map[p] <= player[p] /\ incoming[i].map[p] \in Nat
        BY <1>3, <2>1 DEF IncomingBetween
      <3>4. player[p] <= player'[p]
        OBVIOUS
      <3> QED BY <1>2, <2>1, <3>1, <3>2, <3>3, <3>4
    <2>3. CASE j # Len(incoming) + 1
      <3>1. j \in 1..Len(incoming) /\ incoming'[j] = incoming[j]
        BY <1>1, <1>2, <2>3
      <3> QED BY <2>1, <3>1 DEF IncomingInOrder
    <2> QED BY <2>2, <2>3
  <1>8. PlayingCanBeStopped'
    BY DEF PlayingCanBeStopped
  <1> QED BY <1>4, <1>6, <1>7, <1>8

(* Whatever comes first is handled, or dropped. *)
LEMMA Handled ==
    ASSUME PlayerInductive, incoming # <<>>, incoming' = Tail(incoming),
           player' = player, changes' = changes, copy' \in Copy, PlayingCanBeStopped',
           \A p \in Stored : \/ copy'[p] = copy[p]
                             \/ /\ Tells(Head(incoming), p)
                                /\ copy'[p] = Head(incoming).map[p]
    PROVE  PlayerInductive'
  <1> USE DEF PlayerInductive
  <1>1. /\ incoming' \in Seq(Message) /\ Len(incoming) \in Nat \ {0}
        /\ Len(incoming') = Len(incoming) - 1
        /\ \A i \in 1..Len(incoming') : incoming'[i] = incoming[i + 1]
        /\ Head(incoming) = incoming[1]
    BY DEF ValuesTyped
  <1>2. \A p \in Stored : copy[p] \in Nat /\ player[p] \in Nat /\ copy'[p] \in Nat
    <2>1. \A p \in Stored : p \in Property /\ \A v \in PropertyValues[p] : v \in Nat
      BY Types, PlayerAssumption
    <2>2. \A p \in Stored : player[p] \in Nat
      BY <2>1 DEF ValuesTyped
    <2>3. copy \in Copy /\ copy' \in Copy
      BY DEF ValuesTyped
    <2>4. \A p \in Stored : copy[p] \in Nat /\ copy'[p] \in Nat
      BY <2>3 DEF Copy, Stored
    <2> QED BY <2>2, <2>4
  <1>3. \A i \in 1..Len(incoming) : \A p \in Stored :
            Tells(incoming[i], p) => incoming[i].map[p] \in Nat
    BY Types, PlayerAssumption DEF IncomingTyped
  <1>4. ValuesTyped'
    BY <1>1 DEF ValuesTyped
  <1>5. IncomingTyped'
    BY <1>1 DEF IncomingTyped, Tells
  <1>6. IncomingBetween'
    <2> SUFFICES ASSUME NEW p \in Stored
                 PROVE  /\ copy'[p] <= player[p]
                        /\ \A i \in 1..Len(incoming') :
                              Tells(incoming'[i], p) =>
                                  /\ copy'[p] <= incoming'[i].map[p]
                                  /\ incoming'[i].map[p] <= player[p]
      BY DEF IncomingBetween, Tells
    <2>1. CASE copy'[p] = copy[p]
      BY <1>1, <1>2, <2>1 DEF IncomingBetween
    <2>2. CASE Tells(incoming[1], p) /\ copy'[p] = incoming[1].map[p]
      BY <1>1, <1>2, <1>3, <2>2 DEF IncomingBetween, IncomingInOrder
    <2> QED BY <1>1, <2>1, <2>2
  <1>7. IncomingInOrder'
    BY <1>1 DEF IncomingInOrder, Tells
  <1> QED BY <1>4, <1>5, <1>6, <1>7

-----------------------------------------------------------------------------
LEMMA PlayerStarts == PlayerInit => PlayerInductive
  <1> SUFFICES ASSUME PlayerInit PROVE PlayerInductive
    OBVIOUS
  <1>1. ValuesTyped
    <2>1. DOMAIN player = Property /\ \A p \in Property : player[p] \in PropertyValues[p]
      BY Types, PlayerAssumption DEF PlayerInit, Stored, Status
    <2>2. copy \in Copy
      BY DEF PlayerInit, Copy, Status
    <2> QED BY <2>1, <2>2, PlayerAssumption DEF PlayerInit, ValuesTyped, Stored
  <1>2. IncomingTyped /\ IncomingBetween /\ IncomingInOrder
    BY DEF PlayerInit, IncomingTyped, IncomingBetween, IncomingInOrder, Stored
  <1>3. PlayingCanBeStopped
    BY DEF PlayerInit, PlayingCanBeStopped
  <1> QED BY <1>1, <1>2, <1>3 DEF PlayerInductive

(* What a map that came first, or none, makes of the copy. *)
LEMMA CopyUpdated ==
    ASSUME PlayerInductive, incoming # <<>>, incoming' = Tail(incoming),
           Head(incoming).kind \in {"changed", "all"},
           player' = player, changes' = changes,
           copy' \in {copy, Updated(copy, Head(incoming).map)}
    PROVE  PlayerInductive'
  <1> USE DEF PlayerInductive
  <1> DEFINE map == Head(incoming).map
  <1>1. Head(incoming) \in Message /\ Head(incoming) = incoming[1] /\ 1 \in 1..Len(incoming)
    BY DEF ValuesTyped
  <1>2. map \in Maps
    BY <1>1 DEF Message
  <1>3. \A p \in DOMAIN map : map[p] \in PropertyValues[p]
    BY <1>1, <1>2 DEF IncomingTyped, Tells, Maps
  <1> HIDE DEF map
  <1>4. CASE copy' = copy
    BY <1>4, Handled DEF PlayingCanBeStopped, ValuesTyped
  <1>5. CASE copy' = Updated(copy, map)
    <2>1. copy \in Copy
      BY DEF ValuesTyped
    <2>2. copy' \in Copy /\ \A p \in Stored : copy'[p] = Known(copy, map, p)
      BY <1>2, <1>3, <1>5, <2>1, UpdatedShape
    <2>3. PlayingCanBeStopped'
      <3>1. FakedRight(copy)
        BY DEF PlayingCanBeStopped, FakedRight
      <3>2. FakedRight(copy')
        BY <1>2, <1>3, <1>5, <2>1, <3>1, UpdatedCanStop
      <3> QED BY <3>2 DEF PlayingCanBeStopped, FakedRight
    <2>4. \A p \in Stored : \/ copy'[p] = copy[p]
                            \/ Tells(Head(incoming), p) /\ copy'[p] = Head(incoming).map[p]
      BY <2>2 DEF Known, Tells, map
    <2> QED BY <2>2, <2>3, <2>4, Handled
  <1> QED BY <1>4, <1>5 DEF map

LEMMA PlayerSteps == PlayerInductive /\ [PlayerNext]_playerVars => PlayerInductive'
  <1> SUFFICES ASSUME PlayerInductive, [PlayerNext]_playerVars PROVE PlayerInductive'
    OBVIOUS
  <1>1. ASSUME NEW p \in Property, PlayerChanged(p) PROVE PlayerInductive'
    <2>0. PICK v \in NewValue(p), shown \in BOOLEAN :
           /\ player' = [player EXCEPT ![p] = v]
           /\ incoming' = Append(incoming, [kind |-> "changed", shown |-> shown,
                                            map |-> [q \in IF shown THEN {p} ELSE {} |-> v]])
      BY <1>1 DEF PlayerChanged
    <2> DEFINE map == [q \in IF shown THEN {p} ELSE {} |-> v]
               message == [kind |-> "changed", shown |-> shown, map |-> map]
    <2>1. changes + 1 \in 0..PlayerChanges /\ changes' = changes + 1 /\ copy' = copy
      BY <1>1, PlayerAssumption DEF PlayerChanged, PlayerInductive, ValuesTyped
    <2>2. v \in PropertyValues[p] /\ (p \in Stored => v = player[p] + 1)
      <3>1. CASE p \in Stored
        BY <2>1, <3>1, Types, PlayerAssumption DEF NewValue, PlayerInductive, ValuesTyped
      <3>2. CASE p \notin Stored
        BY <3>2 DEF NewValue
      <3> QED BY <3>1, <3>2
    <2>3. /\ DOMAIN player' = Property
          /\ \A q \in Property : player'[q] = IF q = p THEN v ELSE player[q]
      BY <2>0 DEF PlayerInductive, ValuesTyped
    <2>4. map \in Maps
      <3>1. v \in AnyValue
        BY <2>2 DEF AnyValue
      <3>2. map \in [IF shown THEN {p} ELSE {} -> AnyValue]
        BY <3>1
      <3> HIDE DEF map
      <3> QED BY <3>2 DEF Maps
    <2>5. message \in Message
      <3> HIDE DEF map
      <3> QED BY <2>4 DEF Message
    <2>6. \A q \in Property : Tells(message, q) => q = p /\ message.map[q] = v
      BY DEF Tells
    <2>7. \A q \in Stored : player[q] \in 1..changes + 1 /\ player[q] <= player'[q]
                            /\ player'[q] <= changes' + 1
      BY <2>1, <2>2, <2>3, Types, PlayerAssumption DEF PlayerInductive, ValuesTyped
    <2>8. incoming' = Append(incoming, message) /\ incoming' \in Seq(Message)
      <3>1. incoming' = Append(incoming, message)
        BY <2>0
      <3> HIDE DEF message
      <3> QED BY <2>5, <3>1 DEF PlayerInductive, ValuesTyped
    <2> HIDE DEF message
    <2>9. ValuesTyped'
      BY <2>1, <2>2, <2>3, <2>7, <2>8 DEF PlayerInductive, ValuesTyped
    <2> QED BY <2>1, <2>2, <2>3, <2>5, <2>6, <2>7, <2>8, <2>9, Sent
  <1>2. CASE PlayerSeeked
    <2> PICK position \in {"zero", "later"} :
           incoming' = Append(incoming, [kind |-> "position", at |-> position])
      BY <1>2 DEF PlayerSeeked
    <2> DEFINE message == [kind |-> "position", at |-> position]
    <2>1. message \in Message /\ \A q \in Property : ~Tells(message, q)
      BY DEF Message, Tells
    <2>2. incoming' = Append(incoming, message)
      OBVIOUS
    <2> HIDE DEF message
    <2>3. /\ UNCHANGED <<player, copy>> /\ changes' \in 0..PlayerChanges
          /\ changes \in Nat /\ changes' = changes + 1
      BY <1>2, PlayerAssumption DEF PlayerSeeked, PlayerInductive, ValuesTyped
    <2>4. \A q \in Stored : player[q] \in Nat
      BY Types, PlayerAssumption DEF PlayerInductive, ValuesTyped
    <2>5. ValuesTyped'
      BY <2>1, <2>2, <2>3, <2>4 DEF PlayerInductive, ValuesTyped
    <2> QED BY <2>1, <2>2, <2>3, <2>4, <2>5, Sent
  <1>3. CASE Answer
    <2> PICK message \in Message :
           /\ incoming' = Append(incoming, message)
           /\ \A q \in Property : Tells(message, q) => message.map[q] = player[q]
      <3>1. ASSUME NEW position \in {"zero", "later"}
            PROVE  LET m == [kind |-> "position", at |-> position]
                   IN  m \in Message /\ \A q \in Property : ~Tells(m, q)
        BY DEF Message, Tells
      <3>2. LET m == [kind |-> "error"]
            IN  m \in Message /\ \A q \in Property : ~Tells(m, q)
        BY DEF Message, Tells
      <3>3. ASSUME NEW names \in {RootProperty, PlayerProperty}
            PROVE  LET m == [kind |-> "all", map |-> [q \in names |-> player[q]]]
                   IN  /\ m \in Message
                       /\ \A q \in Property : Tells(m, q) => m.map[q] = player[q]
        <4> DEFINE map == [q \in names |-> player[q]]
                   m == [kind |-> "all", map |-> map]
        <4>1. names \in SUBSET Property
          BY DEF Property
        <4>2. map \in Maps
          BY <4>1 DEF Maps, AnyValue, PlayerInductive, ValuesTyped
        <4>3. m \in Message
          <5> HIDE DEF map
          <5> QED BY <4>2 DEF Message
        <4>4. \A q \in Property : Tells(m, q) => m.map[q] = player[q]
          BY DEF Tells
        <4> QED BY <4>3, <4>4
      <3> QED BY <1>3, <3>1, <3>2, <3>3 DEF Answer
    <2>1. UNCHANGED <<player, changes, copy>>
      BY <1>3 DEF Answer
    <2>2. ValuesTyped'
      BY <2>1 DEF PlayerInductive, ValuesTyped
    <2>3. \A q \in Stored : player[q] \in Nat
      BY Types, PlayerAssumption DEF PlayerInductive, ValuesTyped
    <2> QED BY <2>1, <2>2, <2>3, Sent DEF PlayerInductive, ValuesTyped
  <1>4. CASE PropertiesChanged
    BY <1>4, CopyUpdated DEF PropertiesChanged, Arrives, FromSignal
  <1>5. CASE PropertiesFinished
    BY <1>5, CopyUpdated DEF PropertiesFinished, Arrives
  <1>6. CASE PropertiesFailed
    BY <1>6, Handled DEF PropertiesFailed, Arrives, PlayerInductive, ValuesTyped,
       PlayingCanBeStopped
  <1>7. CASE PositionArrives
    <2>1. Head(incoming) \in Message /\ Head(incoming).kind = "position"
      BY <1>7 DEF PositionArrives, Arrives, PlayerInductive, ValuesTyped
    <2>2. Head(incoming).at \in {"zero", "later"}
      BY <2>1 DEF Message
    <2>3. copy' \in Copy /\ \A p \in Stored : copy'[p] = copy[p]
      BY <1>7, <2>2 DEF PositionArrives, PlayerInductive, ValuesTyped, Copy, Stored
    <2>4. PlayingCanBeStopped'
      BY <1>7 DEF PositionArrives, PlayerInductive, ValuesTyped, Copy, PlayingCanBeStopped
    <2> QED BY <1>7, <2>3, <2>4, Handled DEF PositionArrives, Arrives
  <1>8. CASE UpdatePosition \/ UNCHANGED playerVars
    BY <1>8 DEF UpdatePosition, playerVars, PlayerInductive, ValuesTyped, IncomingTyped,
       IncomingBetween, IncomingInOrder, PlayingCanBeStopped, Tells
  <1> QED BY <1>1, <1>2, <1>3, <1>4, <1>5, <1>6, <1>7, <1>8 DEF PlayerNext

-----------------------------------------------------------------------------
(* The refinement: what is sent and handled, as Replica sees it.           *)
LEMMA ReplicaStarts == PlayerInit => Shown!Init
  BY DEF PlayerInit, Shown!Init, Stored

LEMMA ReplicaPublishes ==
    ASSUME PlayerInductive, NEW p \in Property, PlayerChanged(p)
    PROVE  [Shown!Next]_(Shown!replicaVars)
  <1> PICK v \in NewValue(p) : player' = [player EXCEPT ![p] = v]
    BY DEF PlayerChanged
  <1>1. copy' = copy
    BY DEF PlayerChanged
  <1>2. \A q \in Property : player'[q] = IF q = p THEN v ELSE player[q]
    BY DEF PlayerInductive, ValuesTyped
  <1>3. CASE p \in Stored
    <2>1. v = player[p] + 1
      BY <1>3 DEF NewValue
    <2>2. [q \in Stored |-> player'[q]] = [[q \in Stored |-> player[q]] EXCEPT ![p] = @ + 1]
      BY <1>2, <1>3, <2>1, Types
    <2> QED BY <1>1, <1>3, <2>2 DEF Shown!Next, Shown!Publish
  <1>4. CASE p \notin Stored
    <2>1. [q \in Stored |-> player'[q]] = [q \in Stored |-> player[q]]
      BY <1>2, <1>4, Types
    <2> QED BY <1>1, <2>1 DEF Shown!replicaVars
  <1> QED BY <1>3, <1>4

(* A handler takes the copy forward, never beyond the player. *)
LEMMA ReplicaLearns ==
    ASSUME PlayerInductive, player' = player,
           \A p \in Stored : copy'[p] \in copy[p]..player[p]
    PROVE  Shown!Next
  BY DEF Shown!Next, Shown!Learn

LEMMA StoredForward ==
    ASSUME PlayerInductive, incoming # <<>>, Head(incoming).kind \in {"changed", "all"},
           copy' \in {copy, Updated(copy, Head(incoming).map)}
    PROVE  \A p \in Stored : copy'[p] \in copy[p]..player[p]
  <1> USE DEF PlayerInductive
  <1> DEFINE map == Head(incoming).map
  <1>1. Head(incoming) \in Message /\ Head(incoming) = incoming[1] /\ 1 \in 1..Len(incoming)
    BY DEF ValuesTyped
  <1>2. map \in Maps
    BY <1>1 DEF Message
  <1>3. \A p \in DOMAIN map : map[p] \in PropertyValues[p]
    BY <1>1, <1>2 DEF IncomingTyped, Tells, Maps
  <1>4. copy \in Copy
    BY DEF ValuesTyped
  <1>5. \A p \in Stored : /\ copy[p] \in Nat /\ player[p] \in Nat /\ copy[p] <= player[p]
                          /\ p \in DOMAIN map => map[p] \in copy[p]..player[p]
    <2>1. \A p \in Stored : copy[p] \in Nat /\ player[p] \in Nat /\ copy[p] <= player[p]
      BY Types, PlayerAssumption DEF ValuesTyped, Copy, Stored, IncomingBetween
    <2>2. ASSUME NEW p \in Stored, p \in DOMAIN map
          PROVE  map[p] \in Nat /\ copy[p] <= map[p] /\ map[p] <= player[p]
      BY <1>1, <1>3, <2>2, Types, PlayerAssumption DEF IncomingBetween, Tells
    <2> QED BY <2>1, <2>2
  <1> HIDE DEF map
  <1>6. CASE copy' = copy
    BY <1>5, <1>6
  <1>7. CASE copy' = Updated(copy, map)
    <2>1. \A p \in Stored : copy'[p] = Known(copy, map, p)
      BY <1>2, <1>3, <1>4, <1>7, UpdatedShape
    <2> QED BY <1>5, <2>1 DEF Known
  <1> QED BY <1>6, <1>7 DEF map

LEMMA ReplicaSteps ==
    ASSUME PlayerInductive, [PlayerNext]_playerVars
    PROVE  [Shown!Next]_(Shown!replicaVars)
  <1>1. ASSUME UNCHANGED <<player, copy>>
        PROVE  UNCHANGED Shown!replicaVars
    BY <1>1 DEF Shown!replicaVars
  <1>2. CASE PlayerSeeked \/ Answer \/ PropertiesFailed \/ UpdatePosition \/ UNCHANGED playerVars
    BY <1>1, <1>2
    DEF PlayerSeeked, Answer, PropertiesFailed, UpdatePosition, playerVars
  <1>3. CASE \E p \in Property : PlayerChanged(p)
    BY <1>3, ReplicaPublishes
  <1>4. CASE PropertiesChanged \/ PropertiesFinished
    <2>1. /\ incoming # <<>> /\ Head(incoming).kind \in {"changed", "all"}
          /\ copy' \in {copy, Updated(copy, Head(incoming).map)} /\ player' = player
      BY <1>4 DEF PropertiesChanged, PropertiesFinished, Arrives, FromSignal
    <2> QED BY <2>1, StoredForward, ReplicaLearns
  <1>5. CASE PositionArrives
    <2>1. \A p \in Stored : copy'[p] = copy[p]
      BY <1>5 DEF PositionArrives, PlayerInductive, ValuesTyped, Copy, Stored
    <2> QED BY <1>5, <2>1 DEF PositionArrives, Shown!replicaVars
  <1> QED BY <1>2, <1>3, <1>4, <1>5 DEF PlayerNext

(* No reply, in whichever order fetches, signals and errors overlap,       *)
(* overwrites a newer value (mpris2player.cpp:282-284).                    *)
THEOREM PlayerIsReplicated == PlayerSpec => CopyFollowsPlayer
  <1>1. PlayerInductive /\ [PlayerNext]_playerVars
            => [Shown!Next]_(Shown!replicaVars)
    BY ReplicaSteps
  <1> QED BY PlayerStarts, PlayerSteps, ReplicaStarts, <1>1, PTL
          DEF PlayerSpec, CopyFollowsPlayer, Shown!Spec

(* A player that plays and can be controlled can be stopped, whichever of  *)
(* the two came last (mpris2player.cpp:387-396).                           *)
THEOREM PlayingCanAlwaysBeStopped == PlayerSpec => []PlayingCanBeStopped
  <1>1. PlayerInductive => PlayingCanBeStopped
    BY DEF PlayerInductive
  <1> QED BY PlayerStarts, PlayerSteps, <1>1, PTL DEF PlayerSpec

-----------------------------------------------------------------------------
(* The fetches.  As long as none has failed, m_fetchesPending is the       *)
(* number of GetAll calls and replies that are on their way; an            *)
(* invalidation that is on its way will start two more.                    *)
RequestKinds  == {"root", "player", "position"}
FetchCalls    == {"root", "player"}
Replies       == { m \in Message : m.kind = "all" }
Invalidations == { m \in Message : m.kind = "changed" /\ ~m.shown }

FetchesCounted ==
    /\ requests \in Seq(RequestKinds) /\ reads \in 0..PositionReads /\ failed \in BOOLEAN
    /\ pending \in Nat
    /\ pending + 2 * CountIn(incoming, Invalidations) <= 2 * (changes + 1)
    /\ ~failed => /\ pending = CountIn(requests, FetchCalls) + CountIn(incoming, Replies)
                  /\ \A i \in 1..Len(incoming) : incoming[i].kind # "error"

(* A property that the copy may not have yet is still to be fetched, or    *)
(* the last that is on its way about it is what the player has; about one  *)
(* that nothing is on its way about, the copy agrees already.              *)
Interface(p) == IF p \in RootProperty THEN "root" ELSE "player"

Requested(p)   == \E i \in 1..Len(requests) : requests[i] = Interface(p)
Invalidated    == \E i \in 1..Len(incoming) : incoming[i] \in Invalidations
CarriedLast(p) == \E i \in 1..Len(incoming) :
                      /\ Tells(incoming[i], p) /\ incoming[i].map[p] = player[p]
                      /\ \A j \in i + 1..Len(incoming) : ~Tells(incoming[j], p)
UpToDate(p)    == /\ \A i \in 1..Len(incoming) : ~Tells(incoming[i], p)
                  /\ Converts(player, p) => copy[p] = player[p]

Settles(p) == Requested(p) \/ Invalidated \/ CarriedLast(p) \/ UpToDate(p)

CopySettles == ~failed => \A p \in Property \ {"Rate"} : Settles(p)

FetchInductive == PlayerInductive /\ FetchesCounted /\ CopySettles

(* Two calls are made. *)
LEMMA FetchesAppended ==
    ASSUME NEW s \in Seq(RequestKinds)
    PROVE  /\ s \o Fetches \in Seq(RequestKinds)
           /\ CountIn(s \o Fetches, FetchCalls) = CountIn(s, FetchCalls) + 2
           /\ \A p \in Property : \E i \in 1..Len(s \o Fetches) : (s \o Fetches)[i] = Interface(p)
  <1> DEFINE once == Append(s, "root")
  <1>1. s \o Fetches = Append(once, "player")
    BY DEF Fetches
  <1>2. once \in Seq(RequestKinds) /\ CountIn(once, FetchCalls) = CountIn(s, FetchCalls) + 1
    BY CountAppended DEF RequestKinds, FetchCalls
  <1>3. /\ Len(s) \in Nat /\ Len(once) = Len(s) + 1 /\ once[Len(s) + 1] = "root"
    OBVIOUS
  <1> HIDE DEF once
  <1>4. /\ Append(once, "player") \in Seq(RequestKinds)
        /\ CountIn(Append(once, "player"), FetchCalls) = CountIn(s, FetchCalls) + 2
    <2>1. CountIn(s, FetchCalls) \in Nat
      BY CountIsNat
    <2>2. "player" \in RequestKinds /\ "player" \in FetchCalls
      BY DEF RequestKinds, FetchCalls
    <2> QED BY <1>2, <2>1, <2>2, CountAppended
  <1>5. /\ Len(Append(once, "player")) = Len(s) + 2
        /\ Append(once, "player")[Len(s) + 1] = "root"
        /\ Append(once, "player")[Len(s) + 2] = "player"
    BY <1>2, <1>3
  <1>6. \A p \in Property : Interface(p) \in {"root", "player"}
    BY DEF Interface
  <1>7. Len(s) + 1 \in 1..Len(s) + 2 /\ Len(s) + 2 \in 1..Len(s) + 2
    BY <1>3
  <1> QED BY <1>1, <1>4, <1>5, <1>6, <1>7

(* The player announces a change, or answers a fetch. *)
Announcement(p, v, shown) == [kind |-> "changed", shown |-> shown,
                              map |-> [q \in IF shown THEN {p} ELSE {} |-> v]]
AnswerOf(names) == [kind |-> "all", map |-> [q \in names |-> player[q]]]

LEMMA AnnouncementShape ==
    ASSUME NEW p \in Property, NEW v \in PropertyValues[p], NEW shown \in BOOLEAN,
           NEW message, message = Announcement(p, v, shown)
    PROVE  /\ message \in Message /\ message.kind = "changed" /\ message.shown = shown
           /\ shown => Tells(message, p) /\ message.map[p] = v
           /\ \A q \in Property : Tells(message, q) => shown /\ q = p
  <1> DEFINE map == [q \in IF shown THEN {p} ELSE {} |-> v]
  <1>1. map \in Maps
    <2>1. v \in AnyValue
      BY DEF AnyValue
    <2>2. map \in [IF shown THEN {p} ELSE {} -> AnyValue]
      BY <2>1
    <2> HIDE DEF map
    <2> QED BY <2>2 DEF Maps
  <1>2. message \in Message
    <2> HIDE DEF map
    <2> QED BY <1>1 DEF Message, map, Announcement
  <1>3. \A q \in Property : Tells(message, q) => shown /\ q = p
    BY DEF Tells, Announcement
  <1>4. shown => Tells(message, p) /\ message.map[p] = v
    BY DEF Tells, Announcement
  <1> QED BY <1>2, <1>3, <1>4 DEF Announcement

LEMMA AnswerShape ==
    ASSUME ValuesTyped, NEW names \in {RootProperty, PlayerProperty}, NEW message,
           message = AnswerOf(names)
    PROVE  /\ message \in Message /\ message.kind = "all"
           /\ \A q \in Property : /\ Tells(message, q) <=> q \in names
                                  /\ q \in names => message.map[q] = player[q]
  <1> DEFINE map == [q \in names |-> player[q]]
  <1>1. names \in SUBSET Property
    BY DEF Property
  <1>2. map \in Maps
    BY <1>1 DEF Maps, AnyValue, ValuesTyped
  <1>3. message \in Message
    <2> HIDE DEF map
    <2> QED BY <1>2 DEF Message, map, AnswerOf
  <1>4. \A q \in Property : /\ Tells(message, q) <=> q \in names
                            /\ q \in names => message.map[q] = player[q]
    BY DEF Tells, AnswerOf
  <1> QED BY <1>3, <1>4 DEF AnswerOf

(* What was said of a property stays true when a message is sent that      *)
(* announces or fetches it, or that is not about it.                       *)
LEMMA SettlesSent ==
    ASSUME incoming \in Seq(Message), NEW message \in Message,
           incoming' = Append(incoming, message),
           NEW p \in Property, Settles(p),
           \/ message \in Invalidations
           \/ Tells(message, p) /\ message.map[p] = player'[p]
           \/ /\ ~Tells(message, p) /\ player'[p] = player[p] /\ copy' = copy
              /\ Requested(p) => Requested(p)'
    PROVE  Settles(p)'
  <1>1. /\ Len(incoming) \in Nat /\ Len(incoming') = Len(incoming) + 1
        /\ \A i \in 1..Len(incoming) : incoming'[i] = incoming[i]
        /\ incoming'[Len(incoming')] = message
        /\ Len(incoming') \in 1..Len(incoming')
    OBVIOUS
  <1>2. CASE message \in Invalidations
    BY <1>1, <1>2 DEF Settles, Invalidated
  <1>3. CASE Tells(message, p) /\ message.map[p] = player'[p]
    <2>1. CarriedLast(p)'
      BY <1>1, <1>3 DEF CarriedLast, Tells
    <2> QED BY <2>1 DEF Settles
  <1>4. CASE /\ ~Tells(message, p) /\ player'[p] = player[p] /\ copy' = copy
             /\ Requested(p) => Requested(p)'
    <2>1. Requested(p) => Requested(p)'
      BY <1>4
    <2>2. Invalidated => Invalidated'
      BY <1>1 DEF Invalidated
    <2>3. CarriedLast(p) => CarriedLast(p)'
      <3> SUFFICES ASSUME NEW i \in 1..Len(incoming),
                          Tells(incoming[i], p), incoming[i].map[p] = player[p],
                          \A j \in i + 1..Len(incoming) : ~Tells(incoming[j], p)
                   PROVE  CarriedLast(p)'
        BY DEF CarriedLast
      <3>1. i \in 1..Len(incoming')
        BY <1>1
      <3>2. \A j \in i + 1..Len(incoming') : ~Tells(incoming'[j], p)
        BY <1>1, <1>4
      <3> QED BY <1>1, <1>4, <3>1, <3>2 DEF CarriedLast, Tells
    <2>4. UpToDate(p) => UpToDate(p)'
      BY <1>1, <1>4 DEF UpToDate, Converts, Tells
    <2> QED BY <2>1, <2>2, <2>3, <2>4 DEF Settles
  <1> QED BY <1>2, <1>3, <1>4

(* And when the first message is handled, if what it says reaches the copy *)
(* and what it invalidates is asked for.                                   *)
LEMMA SettlesHandled ==
    ASSUME incoming \in Seq(Message), incoming # <<>>, incoming' = Tail(incoming),
           player' = player, NEW p \in Property, Settles(p),
           Requested(p) \/ Head(incoming) \in Invalidations => Requested(p)',
           Tells(Head(incoming), p) /\ Converts(Head(incoming).map, p)
               => copy'[p] = Head(incoming).map[p],
           ~Tells(Head(incoming), p) => copy'[p] = copy[p]
    PROVE  Settles(p)'
  <1>1. /\ Len(incoming) \in Nat \ {0} /\ Len(incoming') = Len(incoming) - 1
        /\ \A i \in 1..Len(incoming') : incoming'[i] = incoming[i + 1]
        /\ Head(incoming) = incoming[1]
    OBVIOUS
  <1>2. Requested(p) => Requested(p)'
    OBVIOUS
  <1>3. Invalidated => Invalidated' \/ Requested(p)'
    <2> SUFFICES ASSUME NEW i \in 1..Len(incoming), incoming[i] \in Invalidations, i # 1
                 PROVE  Invalidated'
      BY <1>1 DEF Invalidated
    <2>1. i - 1 \in 1..Len(incoming') /\ incoming'[i - 1] = incoming[i]
      BY <1>1
    <2> QED BY <2>1 DEF Invalidated
  <1>4. UpToDate(p) => UpToDate(p)'
    BY <1>1 DEF UpToDate, Converts, Tells
  <1>5. ASSUME CarriedLast(p) PROVE CarriedLast(p)' \/ UpToDate(p)'
    <2> PICK i \in 1..Len(incoming) :
            /\ Tells(incoming[i], p) /\ incoming[i].map[p] = player[p]
            /\ \A j \in i + 1..Len(incoming) : ~Tells(incoming[j], p)
      BY <1>5 DEF CarriedLast
    <2>1. CASE i = 1
      <3>1. \A j \in 1..Len(incoming') : ~Tells(incoming'[j], p)
        BY <1>1, <2>1
      <3>2. Converts(player, p) => copy'[p] = player[p]
        BY <1>1, <2>1 DEF Converts
      <3> QED BY <3>1, <3>2 DEF UpToDate, Tells
    <2>2. CASE i # 1
      <3>1. i - 1 \in 1..Len(incoming') /\ incoming'[i - 1] = incoming[i]
        BY <1>1, <2>2
      <3>2. \A j \in i..Len(incoming') : ~Tells(incoming'[j], p)
        BY <1>1
      <3> QED BY <3>1, <3>2 DEF CarriedLast, Tells
    <2> QED BY <2>1, <2>2
  <1> QED BY <1>2, <1>3, <1>4, <1>5 DEF Settles

LEMMA FetchStarts == PlayerInit => FetchInductive
  <1> SUFFICES ASSUME PlayerInit PROVE FetchInductive
    OBVIOUS
  <1>1. /\ <<>> \o Fetches \in Seq(RequestKinds)
        /\ CountIn(<<>> \o Fetches, FetchCalls) = 2
        /\ \A p \in Property : \E i \in 1..Len(<<>> \o Fetches) :
              (<<>> \o Fetches)[i] = Interface(p)
    <2>1. <<>> \in Seq(RequestKinds) /\ CountIn(<<>>, FetchCalls) = 0
      BY CountOfNone
    <2>2. /\ <<>> \o Fetches \in Seq(RequestKinds)
          /\ CountIn(<<>> \o Fetches, FetchCalls) = CountIn(<<>>, FetchCalls) + 2
          /\ \A p \in Property : \E i \in 1..Len(<<>> \o Fetches) :
                (<<>> \o Fetches)[i] = Interface(p)
      BY <2>1, FetchesAppended, Zenon
    <2>3. CountIn(<<>>, FetchCalls) + 2 = 2
      BY <2>1
    <2> QED BY <2>2, <2>3, Zenon
  <1>2. requests = <<>> \o Fetches
    BY DEF PlayerInit, Fetches
  <1>3. CountIn(incoming, Replies) = 0 /\ CountIn(incoming, Invalidations) = 0
    BY CountOfNone DEF PlayerInit
  <1>4. FetchesCounted
    <2>1. requests \in Seq(RequestKinds) /\ CountIn(requests, FetchCalls) = 2
      BY <1>1, <1>2
    <2>2. /\ reads \in 0..PositionReads /\ failed = FALSE /\ pending = 2 /\ changes = 0
          /\ \A i \in 1..Len(incoming) : incoming[i].kind # "error"
      BY PlayerAssumption DEF PlayerInit
    <2>3. failed \in BOOLEAN
      BY <2>2, Zenon
    <2> QED BY <1>3, <2>1, <2>2, <2>3 DEF FetchesCounted
  <1>5. CopySettles
    BY <1>1, <1>2 DEF CopySettles, Settles, Requested
  <1> QED BY <1>4, <1>5, PlayerStarts DEF FetchInductive

LEMMA ChangedFetches ==
    ASSUME FetchInductive, NEW p \in Property, PlayerChanged(p)
    PROVE  FetchesCounted' /\ CopySettles'
  <1> PICK v \in NewValue(p), shown \in BOOLEAN :
         /\ player' = [player EXCEPT ![p] = v]
         /\ incoming' = Append(incoming, Announcement(p, v, shown))
    BY DEF PlayerChanged, Announcement
  <1> DEFINE message == Announcement(p, v, shown)
  <1>1. /\ ValuesTyped /\ incoming \in Seq(Message) /\ changes \in Nat /\ changes' = changes + 1
        /\ UNCHANGED <<requests, copy, pending, reads, failed>>
    BY DEF FetchInductive, PlayerInductive, ValuesTyped, PlayerChanged
  <1>2. v \in PropertyValues[p]
    <2>1. CASE p \in Stored
      BY <2>1, Types, PlayerAssumption DEF NewValue, PlayerChanged, FetchInductive,
         PlayerInductive, ValuesTyped
    <2>2. CASE p \notin Stored
      BY <2>2 DEF NewValue
    <2> QED BY <2>1, <2>2
  <1>3. /\ message \in Message /\ message.kind = "changed" /\ message.shown = shown
        /\ shown => Tells(message, p) /\ message.map[p] = v
        /\ \A q \in Property : Tells(message, q) => shown /\ q = p
    BY <1>2, AnnouncementShape
  <1>4. incoming' = Append(incoming, message)
    OBVIOUS
  <1> HIDE DEF message
  <1>5. message \notin Replies /\ (message \in Invalidations <=> ~shown)
    BY <1>3 DEF Replies, Invalidations
  <1>6. /\ CountIn(incoming', Replies) = CountIn(incoming, Replies)
        /\ CountIn(incoming', Invalidations) <= CountIn(incoming, Invalidations) + 1
        /\ CountIn(incoming', Invalidations) \in Nat
        /\ CountIn(incoming, Replies) \in Nat /\ CountIn(incoming, Invalidations) \in Nat
    <2>1. CountIn(incoming, Replies) \in Nat /\ CountIn(incoming, Invalidations) \in Nat
      BY <1>1, CountIsNat
    <2> QED BY <1>1, <1>3, <1>4, <1>5, <2>1, CountAppended
  <1>7. /\ Len(incoming) \in Nat /\ Len(incoming') = Len(incoming) + 1
        /\ \A i \in 1..Len(incoming') :
              incoming'[i] = IF i = Len(incoming) + 1 THEN message ELSE incoming[i]
    BY <1>1, <1>3, <1>4
  <1>8. FetchesCounted'
    BY <1>1, <1>3, <1>6, <1>7 DEF FetchInductive, FetchesCounted
  <1>9. ASSUME ~failed, NEW q \in Property \ {"Rate"} PROVE Settles(q)'
    <2>1. Settles(q)
      BY <1>9 DEF FetchInductive, CopySettles
    <2>2. Requested(q) => Requested(q)'
      BY <1>1 DEF Requested
    <2>3. player'[q] = IF q = p THEN v ELSE player[q]
      BY <1>1 DEF ValuesTyped
    <2> QED BY <1>1, <1>3, <1>4, <1>5, <2>1, <2>2, <2>3, SettlesSent
  <1> QED BY <1>1, <1>8, <1>9 DEF CopySettles

(* The player seeks, or is asked for its position: no property is told. *)
LEMMA PositionFetches ==
    ASSUME FetchInductive, PlayerSeeked \/ UpdatePosition
    PROVE  FetchesCounted' /\ CopySettles'
  <1>1. /\ ValuesTyped /\ incoming \in Seq(Message) /\ changes \in Nat
        /\ requests \in Seq(RequestKinds)
        /\ UNCHANGED <<player, copy, pending, failed>>
    BY DEF FetchInductive, PlayerInductive, ValuesTyped, FetchesCounted, PlayerSeeked,
       UpdatePosition
  <1>2. CASE PlayerSeeked
    <2> PICK position \in {"zero", "later"} :
           incoming' = Append(incoming, [kind |-> "position", at |-> position])
      BY <1>2 DEF PlayerSeeked
    <2> DEFINE message == [kind |-> "position", at |-> position]
    <2>1. /\ message \in Message /\ message.kind = "position"
          /\ message \notin Replies \cup Invalidations
          /\ \A q \in Property : ~Tells(message, q)
      BY DEF Message, Tells, Replies, Invalidations
    <2>2. incoming' = Append(incoming, message)
      OBVIOUS
    <2> HIDE DEF message
    <2>3. /\ CountIn(incoming', Replies) = CountIn(incoming, Replies)
          /\ CountIn(incoming', Invalidations) = CountIn(incoming, Invalidations)
      <3>1. CountIn(incoming, Replies) \in Nat /\ CountIn(incoming, Invalidations) \in Nat
        BY <1>1, CountIsNat
      <3> QED BY <1>1, <2>1, <2>2, <3>1, CountAppended
    <2>4. /\ Len(incoming) \in Nat /\ Len(incoming') = Len(incoming) + 1
          /\ \A i \in 1..Len(incoming') :
                incoming'[i] = IF i = Len(incoming) + 1 THEN message ELSE incoming[i]
          /\ CountIn(incoming, Invalidations) \in Nat
      BY <1>1, <2>1, <2>2, CountIsNat
    <2>5. FetchesCounted'
      BY <1>1, <1>2, <2>1, <2>3, <2>4 DEF FetchInductive, FetchesCounted, PlayerSeeked
    <2>6. ASSUME ~failed, NEW q \in Property \ {"Rate"} PROVE Settles(q)'
      <3>1. Settles(q)
        BY <2>6 DEF FetchInductive, CopySettles
      <3>2. Requested(q) => Requested(q)'
        BY <1>2 DEF Requested, PlayerSeeked
      <3> QED BY <1>1, <2>1, <2>2, <3>1, <3>2, SettlesSent
    <2> QED BY <1>1, <2>5, <2>6 DEF CopySettles
  <1>3. CASE UpdatePosition
    <2>1. /\ requests' = Append(requests, "position") /\ UNCHANGED <<incoming, changes>>
          /\ reads' \in 0..PositionReads
      BY <1>3, PlayerAssumption DEF UpdatePosition, FetchInductive, FetchesCounted
    <2>2. "position" \in RequestKinds /\ "position" \notin FetchCalls
      BY DEF RequestKinds, FetchCalls
    <2>3. CountIn(requests', FetchCalls) = CountIn(requests, FetchCalls)
      <3>1. CountIn(requests, FetchCalls) \in Nat
        BY <1>1, CountIsNat
      <3> QED BY <1>1, <2>1, <2>2, <3>1, CountAppended
    <2>4. FetchesCounted'
      BY <1>1, <2>1, <2>2, <2>3 DEF FetchInductive, FetchesCounted
    <2>5. \A q \in Property : Requested(q) => Requested(q)'
      BY <1>1, <2>1 DEF Requested
    <2>6. CopySettles'
      BY <1>1, <2>1, <2>5 DEF FetchInductive, CopySettles, Settles, Invalidated, CarriedLast,
         UpToDate, Tells
    <2> QED BY <2>4, <2>6
  <1> QED BY <1>2, <1>3

(* A call is answered: what is asked for is told, or the fetch fails. *)
LEMMA AnswerFetches ==
    ASSUME FetchInductive, Answer
    PROVE  FetchesCounted' /\ CopySettles'
  <1> DEFINE names == IF Head(requests) = "root" THEN RootProperty ELSE PlayerProperty
             all == AnswerOf(names)
  <1>1. /\ ValuesTyped /\ incoming \in Seq(Message) /\ changes \in Nat
        /\ requests \in Seq(RequestKinds) /\ requests # <<>> /\ requests' = Tail(requests)
        /\ UNCHANGED <<player, changes, copy, pending, reads>>
    BY DEF FetchInductive, PlayerInductive, ValuesTyped, FetchesCounted, Answer
  <1>2. /\ requests' \in Seq(RequestKinds)
        /\ CountIn(requests, FetchCalls)
              = CountIn(requests', FetchCalls) + (IF Head(requests) \in FetchCalls THEN 1 ELSE 0)
        /\ CountIn(requests', FetchCalls) \in Nat
    <2>1. Tail(requests) \in Seq(RequestKinds)
      BY <1>1
    <2>2. CountIn(Tail(requests), FetchCalls) \in Nat
      BY <2>1, CountIsNat
    <2>3. CountIn(requests, FetchCalls)
              = CountIn(Tail(requests), FetchCalls) + (IF Head(requests) \in FetchCalls THEN 1 ELSE 0)
      BY <1>1, CountOfTail
    <2> QED BY <1>1, <2>1, <2>2, <2>3
  <1>3. /\ CountIn(incoming, Replies) \in Nat /\ CountIn(incoming, Invalidations) \in Nat
        /\ Head(requests) \in RequestKinds
    BY <1>1, CountIsNat
  <1>4. ASSUME NEW q \in Property, Requested(q), Interface(q) # Head(requests)
        PROVE  Requested(q)'
    <2>1. PICK i \in 1..Len(requests) : requests[i] = Interface(q)
      BY <1>4 DEF Requested
    <2>2. i # 1
      BY <1>1, <1>4, <2>1
    <2>3. i - 1 \in 1..Len(Tail(requests)) /\ Tail(requests)[i - 1] = requests[i]
      BY <1>1, <2>2
    <2> QED BY <1>1, <2>1, <2>3 DEF Requested, Interface
  <1>5. CASE Head(requests) = "position"
    <2> PICK position \in {"zero", "later"} :
           incoming' = Append(incoming, [kind |-> "position", at |-> position])
      BY <1>5 DEF Answer
    <2> DEFINE message == [kind |-> "position", at |-> position]
    <2>1. /\ message \in Message /\ message.kind = "position"
          /\ message \notin Replies \cup Invalidations
          /\ \A q \in Property : ~Tells(message, q)
      BY DEF Message, Tells, Replies, Invalidations
    <2>2. incoming' = Append(incoming, message) /\ failed' = failed
      BY <1>5 DEF Answer
    <2> HIDE DEF message
    <2>3. /\ CountIn(incoming', Replies) = CountIn(incoming, Replies)
          /\ CountIn(incoming', Invalidations) = CountIn(incoming, Invalidations)
          /\ CountIn(requests', FetchCalls) = CountIn(requests, FetchCalls)
      BY <1>1, <1>2, <1>3, <1>5, <2>1, <2>2, CountAppended DEF FetchCalls
    <2>4. /\ Len(incoming) \in Nat /\ Len(incoming') = Len(incoming) + 1
          /\ \A i \in 1..Len(incoming') :
                incoming'[i] = IF i = Len(incoming) + 1 THEN message ELSE incoming[i]
      BY <1>1, <2>1, <2>2
    <2>5. FetchesCounted'
      BY <1>1, <1>2, <2>1, <2>2, <2>3, <2>4 DEF FetchInductive, FetchesCounted
    <2>6. ASSUME ~failed, NEW q \in Property \ {"Rate"} PROVE Settles(q)'
      <3>1. Settles(q)
        BY <2>6 DEF FetchInductive, CopySettles
      <3>2. Requested(q) => Requested(q)'
        BY <1>4, <1>5 DEF Interface
      <3> QED BY <1>1, <2>1, <2>2, <3>1, <3>2, SettlesSent
    <2> QED BY <2>2, <2>5, <2>6 DEF CopySettles
  <1>6. CASE Head(requests) # "position" /\ incoming' = Append(incoming, all) /\ failed' = failed
    <2>1. names \in {RootProperty, PlayerProperty}
      OBVIOUS
    <2>2. /\ all \in Message /\ all.kind = "all"
          /\ \A q \in Property : /\ Tells(all, q) <=> q \in names
                                 /\ q \in names => all.map[q] = player[q]
      <3> HIDE DEF names
      <3> QED BY <1>1, <2>1, AnswerShape
    <2>3. \A q \in Property : q \in names <=> Interface(q) = Head(requests)
      BY <1>3, <1>6 DEF Interface, RequestKinds, Property, RootProperty, PlayerProperty
    <2>4. all \in Replies /\ all \notin Invalidations
      BY <2>2 DEF Replies, Invalidations
    <2> HIDE DEF all, names
    <2>5. Head(requests) \in FetchCalls
      BY <1>3, <1>6 DEF RequestKinds, FetchCalls
    <2>6. /\ CountIn(incoming', Replies) = CountIn(incoming, Replies) + 1
          /\ CountIn(incoming', Invalidations) = CountIn(incoming, Invalidations)
          /\ CountIn(requests, FetchCalls) = CountIn(requests', FetchCalls) + 1
      BY <1>1, <1>2, <1>3, <1>6, <2>2, <2>4, <2>5, CountAppended
    <2>7. /\ Len(incoming) \in Nat /\ Len(incoming') = Len(incoming) + 1
          /\ \A i \in 1..Len(incoming') :
                incoming'[i] = IF i = Len(incoming) + 1 THEN all ELSE incoming[i]
      BY <1>1, <1>6, <2>2
    <2>8. FetchesCounted'
      <3>1. FetchesCounted
        BY DEF FetchInductive
      <3>2. ASSUME ~failed PROVE pending = CountIn(requests', FetchCalls) + CountIn(incoming', Replies)
        BY <1>2, <1>3, <2>6, <3>1, <3>2 DEF FetchesCounted
      <3>3. ASSUME ~failed PROVE \A i \in 1..Len(incoming') : incoming'[i].kind # "error"
        BY <2>2, <2>7, <3>1, <3>3 DEF FetchesCounted
      <3>4. pending + 2 * CountIn(incoming', Invalidations) <= 2 * (changes + 1)
        BY <2>6, <3>1 DEF FetchesCounted
      <3>5. reads \in 0..PositionReads /\ failed \in BOOLEAN /\ pending \in Nat
        BY <3>1 DEF FetchesCounted
      <3> QED BY <1>1, <1>2, <1>6, <3>2, <3>3, <3>4, <3>5 DEF FetchesCounted
    <2>9. ASSUME ~failed, NEW q \in Property \ {"Rate"} PROVE Settles(q)'
      <3>1. Settles(q)
        BY <2>9 DEF FetchInductive, CopySettles
      <3>2. CASE q \in names
        BY <1>1, <1>6, <2>2, <3>1, <3>2, SettlesSent
      <3>3. CASE q \notin names
        <4>1. Requested(q) => Requested(q)'
          BY <1>4, <2>3, <3>3
        <4> QED BY <1>1, <1>6, <2>2, <3>1, <3>3, <4>1, SettlesSent
      <3> QED BY <3>2, <3>3
    <2> QED BY <1>6, <2>8, <2>9 DEF CopySettles
  <1>7. CASE incoming' = Append(incoming, [kind |-> "error"]) /\ failed' = TRUE
    <2> DEFINE message == [kind |-> "error"]
    <2>1. message \in Message /\ message \notin Invalidations
      BY DEF Message, Invalidations
    <2>2. incoming' = Append(incoming, message)
      BY <1>7
    <2> HIDE DEF message
    <2>3. CountIn(incoming', Invalidations) = CountIn(incoming, Invalidations)
      BY <1>1, <1>3, <2>1, <2>2, CountAppended
    <2>4. FetchesCounted'
      BY <1>1, <1>2, <1>7, <2>3 DEF FetchInductive, FetchesCounted
    <2> QED BY <1>7, <2>4 DEF CopySettles
  <1> QED BY <1>5, <1>6, <1>7 DEF Answer, AnswerOf

(* A message is handled that is no reply nor invalidation; or it is one.   *)
LEMMA ArrivedFetches ==
    ASSUME FetchInductive, incoming # <<>>, incoming' = Tail(incoming)
    PROVE  /\ incoming \in Seq(Message) /\ incoming' \in Seq(Message)
           /\ Head(incoming) \in Message /\ Head(incoming) = incoming[1]
           /\ 1 \in 1..Len(incoming)
           /\ CountIn(incoming, Replies)
                 = CountIn(incoming', Replies) + (IF Head(incoming) \in Replies THEN 1 ELSE 0)
           /\ CountIn(incoming, Invalidations)
                 = CountIn(incoming', Invalidations)
                       + (IF Head(incoming) \in Invalidations THEN 1 ELSE 0)
           /\ CountIn(incoming', Replies) \in Nat /\ CountIn(incoming', Invalidations) \in Nat
           /\ ~failed => /\ Head(incoming).kind # "error"
                         /\ \A i \in 1..Len(incoming') : incoming'[i].kind # "error"
  <1>1. incoming \in Seq(Message)
    BY DEF FetchInductive, PlayerInductive, ValuesTyped
  <1>2. /\ Tail(incoming) \in Seq(Message) /\ Head(incoming) \in Message
        /\ Head(incoming) = incoming[1] /\ Len(incoming) \in Nat \ {0}
        /\ Len(Tail(incoming)) = Len(incoming) - 1
        /\ \A i \in 1..Len(Tail(incoming)) : Tail(incoming)[i] = incoming[i + 1]
    BY <1>1
  <1>3. /\ CountIn(Tail(incoming), Replies) \in Nat
        /\ CountIn(Tail(incoming), Invalidations) \in Nat
    BY <1>2, CountIsNat
  <1>4. /\ CountIn(incoming, Replies)
              = CountIn(Tail(incoming), Replies) + (IF Head(incoming) \in Replies THEN 1 ELSE 0)
        /\ CountIn(incoming, Invalidations)
              = CountIn(Tail(incoming), Invalidations)
                    + (IF Head(incoming) \in Invalidations THEN 1 ELSE 0)
    BY <1>1, CountOfTail
  <1>5. ASSUME ~failed
        PROVE  /\ Head(incoming).kind # "error"
               /\ \A i \in 1..Len(Tail(incoming)) : Tail(incoming)[i].kind # "error"
    <2>1. \A i \in 1..Len(incoming) : incoming[i].kind # "error"
      BY <1>5 DEF FetchInductive, FetchesCounted
    <2>2. \A i \in 1..Len(Tail(incoming)) : i + 1 \in 1..Len(incoming)
      BY <1>2
    <2> QED BY <1>2, <2>1, <2>2
  <1> QED BY <1>1, <1>2, <1>3, <1>4, <1>5

(* What updateFromMap makes of a property that the copy has of the player. *)
LEMMA CopyTakes ==
    ASSUME FetchInductive, incoming # <<>>, Head(incoming).kind \in {"changed", "all"},
           NEW p \in Property \ {"Rate"}
    PROVE  Updated(copy, Head(incoming).map)[p] = Known(copy, Head(incoming).map, p)
  <1> DEFINE map == Head(incoming).map
  <1>1. Head(incoming) \in Message /\ Head(incoming) = incoming[1] /\ 1 \in 1..Len(incoming)
    BY DEF FetchInductive, PlayerInductive, ValuesTyped
  <1>2. map \in Maps
    BY <1>1 DEF Message
  <1>3. \A q \in DOMAIN map : map[q] \in PropertyValues[q]
    BY <1>1, <1>2 DEF FetchInductive, PlayerInductive, IncomingTyped, Tells, Maps
  <1>4. copy \in Copy /\ p \in Stored \cup {"CanControl", "Metadata", "PlaybackStatus"}
    BY Types DEF FetchInductive, PlayerInductive, ValuesTyped, Stored
  <1> HIDE DEF map
  <1>5. Updated(copy, map)[p] = Known(copy, map, p)
    BY <1>2, <1>3, <1>4, UpdatedShape
  <1> QED BY <1>5 DEF map

LEMMA PropertiesChangedFetches ==
    ASSUME FetchInductive, PropertiesChanged
    PROVE  FetchesCounted' /\ CopySettles'
  <1> DEFINE head == Head(incoming)
             shown == head.shown
  <1>1. /\ incoming # <<>> /\ incoming' = Tail(incoming) /\ head.kind = "changed"
        /\ copy' = Updated(copy, head.map)
        /\ IF shown THEN UNCHANGED <<requests, pending>>
           ELSE requests' = requests \o Fetches /\ pending' = pending + 2
        /\ UNCHANGED <<player, changes, reads, failed>>
    BY DEF PropertiesChanged, Arrives, FromSignal, Refetches
  <1>2. /\ requests \in Seq(RequestKinds) /\ pending \in Nat /\ changes \in Nat
        /\ CountIn(requests, FetchCalls) \in Nat
    <2>1. requests \in Seq(RequestKinds)
      BY DEF FetchInductive, FetchesCounted
    <2> QED BY <2>1, CountIsNat DEF FetchInductive, FetchesCounted, PlayerInductive, ValuesTyped
  <1>3. /\ head \in Message /\ head \notin Replies
        /\ (head \in Invalidations <=> ~shown)
    BY <1>1, ArrivedFetches DEF Replies, Invalidations
  <1> HIDE DEF head, shown
  <1>4. /\ CountIn(incoming, Replies) = CountIn(incoming', Replies)
        /\ CountIn(incoming, Invalidations)
              = CountIn(incoming', Invalidations) + (IF shown THEN 0 ELSE 1)
        /\ CountIn(incoming', Replies) \in Nat /\ CountIn(incoming', Invalidations) \in Nat
        /\ ~failed => \A i \in 1..Len(incoming') : incoming'[i].kind # "error"
    BY <1>1, <1>3, ArrivedFetches DEF head
  <1>5. /\ requests' \in Seq(RequestKinds)
        /\ CountIn(requests', FetchCalls) = CountIn(requests, FetchCalls) + (IF shown THEN 0 ELSE 2)
        /\ ~shown => \A p \in Property : Requested(p)'
    <2>1. CASE shown
      BY <1>1, <1>2, <2>1
    <2>2. CASE ~shown
      BY <1>1, <1>2, <2>2, FetchesAppended DEF Requested, Interface
    <2> QED BY <2>1, <2>2
  <1>6. FetchesCounted'
    <2>1. FetchesCounted
      BY DEF FetchInductive
    <2>2. ASSUME ~failed PROVE pending' = CountIn(requests', FetchCalls) + CountIn(incoming', Replies)
      BY <1>1, <1>2, <1>4, <1>5, <2>1, <2>2 DEF FetchesCounted
    <2>3. pending' \in Nat /\ pending' + 2 * CountIn(incoming', Invalidations) <= 2 * (changes + 1)
      BY <1>1, <1>2, <1>4, <2>1 DEF FetchesCounted
    <2>4. reads \in 0..PositionReads /\ failed \in BOOLEAN
      BY <2>1 DEF FetchesCounted
    <2> QED BY <1>1, <1>4, <1>5, <2>2, <2>3, <2>4 DEF FetchesCounted
  <1>7. ASSUME ~failed, NEW p \in Property \ {"Rate"} PROVE Settles(p)'
    <2>1. Settles(p) /\ incoming \in Seq(Message)
      BY <1>7 DEF FetchInductive, CopySettles, PlayerInductive, ValuesTyped
    <2>2. copy'[p] = Known(copy, head.map, p)
      BY <1>1, CopyTakes DEF head
    <2>3. Tells(head, p) <=> p \in DOMAIN head.map
      BY <1>1 DEF Tells
    <2>4. Requested(p) \/ head \in Invalidations => Requested(p)'
      BY <1>1, <1>3, <1>5 DEF Requested
    <2> QED BY <1>1, <2>1, <2>2, <2>3, <2>4, SettlesHandled DEF head, Known
  <1> QED BY <1>1, <1>6, <1>7 DEF CopySettles

LEMMA PropertiesFinishedFetches ==
    ASSUME FetchInductive, PropertiesFinished
    PROVE  FetchesCounted' /\ CopySettles'
  <1> DEFINE head == Head(incoming)
  <1>1. /\ incoming # <<>> /\ incoming' = Tail(incoming) /\ head.kind = "all"
        /\ IF pending >= 1 THEN copy' = Updated(copy, head.map) /\ pending' = pending - 1
           ELSE UNCHANGED <<copy, pending>>
        /\ UNCHANGED <<player, changes, requests, reads, failed>>
    BY DEF PropertiesFinished, Arrives, Expected
  <1>2. /\ requests \in Seq(RequestKinds) /\ pending \in Nat /\ changes \in Nat
        /\ CountIn(requests, FetchCalls) \in Nat
    <2>1. requests \in Seq(RequestKinds)
      BY DEF FetchInductive, FetchesCounted
    <2> QED BY <2>1, CountIsNat DEF FetchInductive, FetchesCounted, PlayerInductive, ValuesTyped
  <1>3. head \in Replies /\ head \notin Invalidations
    BY <1>1, ArrivedFetches DEF Replies, Invalidations
  <1> HIDE DEF head
  <1>4. /\ CountIn(incoming, Replies) = CountIn(incoming', Replies) + 1
        /\ CountIn(incoming, Invalidations) = CountIn(incoming', Invalidations)
        /\ CountIn(incoming', Replies) \in Nat /\ CountIn(incoming', Invalidations) \in Nat
        /\ ~failed => \A i \in 1..Len(incoming') : incoming'[i].kind # "error"
    BY <1>1, <1>3, ArrivedFetches DEF head
  <1>5. ~failed => pending >= 1
    BY <1>2, <1>4 DEF FetchInductive, FetchesCounted
  <1>6. FetchesCounted'
    <2>1. FetchesCounted
      BY DEF FetchInductive
    <2>2. ASSUME ~failed PROVE pending' = CountIn(requests, FetchCalls) + CountIn(incoming', Replies)
      BY <1>1, <1>2, <1>4, <1>5, <2>1, <2>2 DEF FetchesCounted
    <2>3. pending' \in Nat /\ pending' + 2 * CountIn(incoming', Invalidations) <= 2 * (changes + 1)
      BY <1>1, <1>2, <1>4, <2>1 DEF FetchesCounted
    <2>4. reads \in 0..PositionReads /\ failed \in BOOLEAN
      BY <2>1 DEF FetchesCounted
    <2> QED BY <1>1, <1>2, <1>4, <2>2, <2>3, <2>4 DEF FetchesCounted
  <1>7. ASSUME ~failed, NEW p \in Property \ {"Rate"} PROVE Settles(p)'
    <2>1. Settles(p) /\ incoming \in Seq(Message)
      BY <1>7 DEF FetchInductive, CopySettles, PlayerInductive, ValuesTyped
    <2>2. copy'[p] = Known(copy, head.map, p)
      BY <1>1, <1>5, <1>7, CopyTakes DEF head
    <2>3. Tells(head, p) <=> p \in DOMAIN head.map
      BY <1>1 DEF Tells
    <2>4. Requested(p) => Requested(p)'
      BY <1>1 DEF Requested
    <2> QED BY <1>1, <1>3, <2>1, <2>2, <2>3, <2>4, SettlesHandled DEF head, Known
  <1> QED BY <1>1, <1>6, <1>7 DEF CopySettles

(* An error, or a position. *)
LEMMA OtherFetches ==
    ASSUME FetchInductive, PropertiesFailed \/ PositionArrives
    PROVE  FetchesCounted' /\ CopySettles'
  <1> DEFINE head == Head(incoming)
  <1>1. /\ incoming # <<>> /\ incoming' = Tail(incoming) /\ head.kind \in {"error", "position"}
        /\ head.kind = "error" => pending' = 0
        /\ head.kind = "position" => pending' = pending
        /\ \A p \in Property : copy'[p] = copy[p]
        /\ UNCHANGED <<player, changes, requests, reads, failed>>
    BY Types DEF PropertiesFailed, PositionArrives, Arrives, FetchInductive, PlayerInductive,
       ValuesTyped, Copy
  <1>2. /\ head \in Message /\ head \notin Replies \cup Invalidations
        /\ \A p \in Property : ~Tells(head, p)
    BY <1>1, ArrivedFetches DEF Replies, Invalidations, Tells
  <1> HIDE DEF head
  <1>3. /\ CountIn(incoming, Replies) = CountIn(incoming', Replies)
        /\ CountIn(incoming, Invalidations) = CountIn(incoming', Invalidations)
        /\ CountIn(incoming', Replies) \in Nat /\ CountIn(incoming', Invalidations) \in Nat
        /\ ~failed => head.kind = "position"
        /\ ~failed => \A i \in 1..Len(incoming') : incoming'[i].kind # "error"
    BY <1>1, <1>2, ArrivedFetches DEF head
  <1>4. FetchesCounted'
    <2>1. FetchesCounted /\ changes \in Nat
      BY DEF FetchInductive, PlayerInductive, ValuesTyped
    <2>2. pending' \in Nat /\ pending' + 2 * CountIn(incoming', Invalidations) <= 2 * (changes + 1)
      BY <1>1, <1>3, <2>1 DEF FetchesCounted
    <2> QED BY <1>1, <1>3, <2>1, <2>2 DEF FetchesCounted
  <1>5. ASSUME ~failed, NEW p \in Property \ {"Rate"} PROVE Settles(p)'
    <2>1. Settles(p) /\ incoming \in Seq(Message)
      BY <1>5 DEF FetchInductive, CopySettles, PlayerInductive, ValuesTyped
    <2>2. Requested(p) => Requested(p)'
      BY <1>1 DEF Requested
    <2> QED BY <1>1, <1>2, <2>1, <2>2, SettlesHandled DEF head
  <1> QED BY <1>1, <1>4, <1>5 DEF CopySettles

LEMMA FetchSteps == FetchInductive /\ [PlayerNext]_playerVars => FetchInductive'
  <1> SUFFICES ASSUME FetchInductive, [PlayerNext]_playerVars
               PROVE  FetchesCounted' /\ CopySettles'
    BY PlayerSteps DEF FetchInductive
  <1>1. CASE UNCHANGED playerVars
    BY <1>1 DEF playerVars, FetchInductive, FetchesCounted, CopySettles, Settles, Requested,
       Invalidated, CarriedLast, UpToDate, Tells
  <1>2. CASE PlayerNext
    BY <1>2, ChangedFetches, PositionFetches, AnswerFetches, PropertiesChangedFetches,
       PropertiesFinishedFetches, OtherFetches DEF PlayerNext
  <1> QED BY <1>1, <1>2

(* The player, the copy and the number of fetches that are waited for have *)
(* their types: m_fetchesPending never falls below zero, and never counts  *)
(* more than two for the start and for each change.                        *)
THEOREM PlayerTypeCorrect == PlayerSpec => []PlayerTypeOK
  <1>1. FetchInductive => PlayerTypeOK
    <2> SUFFICES ASSUME FetchInductive PROVE PlayerTypeOK
      OBVIOUS
    <2>1. CountIn(incoming, Invalidations) \in Nat
      BY CountIsNat DEF FetchInductive, PlayerInductive, ValuesTyped
    <2>2. pending \in 0..2 * (PlayerChanges + 1)
      BY <2>1, PlayerAssumption DEF FetchInductive, FetchesCounted, PlayerInductive, ValuesTyped
    <2> QED BY <2>2 DEF FetchInductive, FetchesCounted, PlayerInductive, ValuesTyped, PlayerTypeOK
  <1> QED BY FetchStarts, FetchSteps, <1>1, PTL DEF PlayerSpec

(* When nothing is on its way and no fetch failed, what is shown is what   *)
(* the player has, whatever changed, was invalidated and was fetched       *)
(* before, and no fetch is waited for (mpris2player.cpp:280-347).          *)
THEOREM CopyAlwaysAgrees == PlayerSpec => []CopyAgrees
  <1>1. FetchInductive => CopyAgrees
    <2> SUFFICES ASSUME FetchInductive, requests = <<>>, incoming = <<>>, ~failed
                 PROVE  /\ pending = 0
                        /\ \A p \in Property \ {"Rate"} :
                              Converts(player, p) => player[p] = copy[p]
      BY DEF CopyAgrees
    <2>1. CountIn(requests, FetchCalls) = 0 /\ CountIn(incoming, Replies) = 0
      BY CountOfNone
    <2>2. pending = 0
      BY <2>1 DEF FetchInductive, FetchesCounted
    <2>3. ASSUME NEW p \in Property \ {"Rate"} PROVE UpToDate(p)
      BY DEF FetchInductive, CopySettles, Settles, Requested, Invalidated, CarriedLast
    <2> QED BY <2>2, <2>3 DEF UpToDate
  <1> QED BY FetchStarts, FetchSteps, <1>1, PTL DEF PlayerSpec

-----------------------------------------------------------------------------
(* The media players.  For a name that did not change unheard there is a   *)
(* history h of its owners, from what the rows show to what the bus has,   *)
(* with a change for each of its signals that are on their way.            *)
Owners == Connections \cup {NoOwner}

OneRow(name) == \A i, j \in 1 .. Len(players) : players[i] = name /\ players[j] = name => i = j

Step(change, name, old, new) ==
    IF change.name = name
    THEN change.oldOwner = old /\ change.newOwner = new /\ old # new
    ELSE old = new

Traces(h, name) ==
    /\ name \in ToSet(players) <=> h[0] # NoOwner
    /\ h[Len(announced)] = nameOwner[name]
    /\ \A i \in 1 .. Len(announced) : Step(announced[i], name, h[i - 1], h[i])

Followed(name) ==
    OneRow(name) /\ \E h \in [0 .. Len(announced) -> Owners] : Traces(h, name)

PlayersInductive ==
    /\ PlayersTypeOK
    /\ players \in Seq(BusNames) /\ announced \in Seq(OwnerChanges)
    /\ watcherState = "listing" => announced = <<>>
    /\ \A name \in PlayerNames \ missed : Followed(name)

LEMMA PlayersStarts == PlayersInit => PlayersInductive
  <1> SUFFICES ASSUME PlayersInit PROVE PlayersInductive
    OBVIOUS
  <1> USE DEF PlayersInit
  <1>1. IsFiniteSet(ListedNames) /\ ListedNames \subseteq BusNames
    BY PlayersConstants, FS_Subset DEF ListedNames, BusNames
  <1>2. players \in Seq(ListedNames) /\ IsInjective(players) /\ Range(players) = ListedNames
    BY <1>1, ListOfAll
  <1>3. players \in Seq(BusNames) /\ announced \in Seq(OwnerChanges)
    BY <1>1, <1>2
  <1>4. PlayersTypeOK
    BY <1>1, <1>2, PlayersConstants DEF PlayersTypeOK, Range
  <1>5. ASSUME NEW name \in PlayerNames PROVE Followed(name)
    <2> DEFINE h == [i \in 0 .. 0 |-> nameOwner[name]]
    <2>1. name \in BusNames /\ Len(announced) = 0
      BY DEF BusNames
    <2>2. OneRow(name)
      BY <1>3, <1>2 DEF OneRow, IsInjective
    <2>3. h \in [0 .. Len(announced) -> Owners]
      BY <2>1 DEF Owners
    <2>4. name \in ToSet(players) <=> nameOwner[name] # NoOwner
      BY <1>2, <2>1, RangeIsToSet DEF ListedNames
    <2>5. Traces(h, name)
      BY <2>1, <2>4 DEF Traces
    <2> QED BY <2>2, <2>3, <2>5 DEF Followed
  <1> QED BY <1>3, <1>4, <1>5 DEF PlayersInductive

(* indexOf finds a row of the name. *)
LEMMA SomeRow ==
    ASSUME players \in Seq(BusNames), NEW name \in ToSet(players)
    PROVE  IndexOfRow(name) \in 1 .. Len(players) /\ players[IndexOfRow(name)] = name
  <1> DEFINE I == {i \in 1 .. Len(players) : players[i] = name}
  <1>1. I \subseteq Nat /\ I # {}
    BY DEF ToSet
  <1>3. \E m \in I : \A y \in I : m <= y
    BY <1>1, LeastIndex
  <1>4. Min(I) \in I
    BY <1>3 DEF Min
  <1>5. IndexOfRow(name) = Min(I)
    BY <1>1, RangeIsToSet DEF IndexOfRow, SelectInSeq
  <1> QED BY <1>4, <1>5

(* Taking a row out leaves those of other names, and none of a name that   *)
(* had one.                                                                *)
LEMMA RowRemoved ==
    ASSUME players \in Seq(BusNames), NEW name \in ToSet(players),
           players' = RemoveRow(name)
    PROVE  /\ players' \in Seq(BusNames)
           /\ OneRow(name) => OneRow(name)' /\ name \notin ToSet(players')
           /\ \A other \in BusNames \ {name} :
                 /\ other \in ToSet(players') <=> other \in ToSet(players)
                 /\ OneRow(other) => OneRow(other)'
  <1> DEFINE r == IndexOfRow(name)
             n == Len(players)
  <1>1. r \in 1 .. n /\ players[r] = name /\ n \in Nat
    BY SomeRow
  <1>2. players' = RemoveAt(players, r)
    BY <1>1 DEF RemoveRow
  <1> HIDE DEF r
  <1>3. /\ players' \in Seq(BusNames) /\ Len(players') = n - 1
        /\ \A j \in 1 .. n - 1 : players'[j] = IF j < r THEN players[j] ELSE players[j + 1]
    BY <1>1, <1>2, RemoveAtShape
  <1>4. DOMAIN players' = 1 .. n - 1 /\ DOMAIN players = 1 .. n
    BY <1>3
  <1>5. \A j \in 1 .. n - 1 : \E i \in 1 .. n : i # r /\ players'[j] = players[i]
                                               /\ i = IF j < r THEN j ELSE j + 1
    <2> SUFFICES ASSUME NEW j \in 1 .. n - 1
                 PROVE  \E i \in 1 .. n : i # r /\ players'[j] = players[i]
                                          /\ i = IF j < r THEN j ELSE j + 1
      OBVIOUS
    <2>1. CASE j < r
      <3>1. j \in 1 .. n /\ j # r
        BY <1>1, <2>1
      <3> QED BY <1>3, <2>1, <3>1
    <2>2. CASE ~(j < r)
      <3>1. j + 1 \in 1 .. n /\ j + 1 # r
        BY <1>1, <2>2
      <3> QED BY <1>3, <2>2, <3>1
    <2> QED BY <2>1, <2>2
  <1>6. \A i \in 1 .. n : i # r => \E j \in 1 .. n - 1 : players'[j] = players[i]
    <2> SUFFICES ASSUME NEW i \in 1 .. n, i # r
                 PROVE  \E j \in 1 .. n - 1 : players'[j] = players[i]
      OBVIOUS
    <2>1. CASE i < r
      <3>1. i \in 1 .. n - 1
        BY <1>1, <2>1
      <3> QED BY <1>3, <2>1, <3>1
    <2>2. CASE i > r
      <3>1. i - 1 \in 1 .. n - 1 /\ ~(i - 1 < r) /\ (i - 1) + 1 = i
        BY <1>1, <2>2
      <3> QED BY <1>3, <3>1
    <2> QED BY <1>1, <2>1, <2>2
  <1>7. ASSUME NEW other, OneRow(other) PROVE OneRow(other)'
    <2> SUFFICES ASSUME NEW j \in 1 .. n - 1, NEW k \in 1 .. n - 1,
                        players'[j] = other, players'[k] = other
                 PROVE  j = k
      BY <1>3 DEF OneRow
    <2>1. PICK a \in 1 .. n : players'[j] = players[a] /\ a = IF j < r THEN j ELSE j + 1
      BY <1>5
    <2>2. PICK b \in 1 .. n : players'[k] = players[b] /\ b = IF k < r THEN k ELSE k + 1
      BY <1>5
    <2>3. a = b
      BY <1>7, <2>1, <2>2 DEF OneRow
    <2> QED BY <1>1, <2>1, <2>2, <2>3
  <1>8. OneRow(name) => name \notin ToSet(players')
    BY <1>1, <1>4, <1>5 DEF OneRow, ToSet
  <1>9. \A other \in BusNames \ {name} : other \in ToSet(players') <=> other \in ToSet(players)
    <2>1. \A x : x \in ToSet(players') <=> \E j \in 1 .. n - 1 : players'[j] = x
      BY <1>4 DEF ToSet
    <2>2. \A x : x \in ToSet(players) <=> \E i \in 1 .. n : players[i] = x
      BY <1>4 DEF ToSet
    <2> QED BY <1>1, <1>5, <1>6, <2>1, <2>2
  <1> QED BY <1>3, <1>7, <1>8, <1>9

LEMMA RowAppended ==
    ASSUME players \in Seq(BusNames), NEW name \in BusNames, players' = Append(players, name)
    PROVE  /\ players' \in Seq(BusNames)
           /\ name \in ToSet(players')
           /\ name \notin ToSet(players) => OneRow(name)'
           /\ \A other \in BusNames \ {name} :
                 /\ other \in ToSet(players') <=> other \in ToSet(players)
                 /\ OneRow(other) => OneRow(other)'
  <1>1. ToSet(players') = ToSet(players) \cup {name} /\ players' \in Seq(BusNames)
    BY AppendSet
  <1>2. /\ Len(players') = Len(players) + 1 /\ Len(players) \in Nat
        /\ \A i \in 1 .. Len(players) : players'[i] = players[i]
        /\ players'[Len(players) + 1] = name
    OBVIOUS
  <1>3. \A i \in 1 .. Len(players') : i \in 1 .. Len(players) \/ i = Len(players) + 1
    BY <1>2
  <1>4. \A i \in 1 .. Len(players) : players[i] \in ToSet(players)
    BY DEF ToSet
  <1>5. name \notin ToSet(players) => OneRow(name)'
    BY <1>2, <1>3, <1>4 DEF OneRow
  <1>6. \A other \in BusNames \ {name} : OneRow(other) => OneRow(other)'
    BY <1>2, <1>3 DEF OneRow
  <1> QED BY <1>1, <1>5, <1>6

(* The bus announces a change, to the end of what is on its way. *)
LEMMA OwnerChangeStep ==
    ASSUME PlayersInductive, NEW name \in BusNames, NEW new \in Owners, OwnerChange(name, new)
    PROVE  PlayersInductive'
  <1> DEFINE change == [name |-> name, newOwner |-> new, oldOwner |-> nameOwner[name]]
             n == Len(announced)
  <1>1. /\ nameOwner \in [BusNames -> Owners] /\ nameOwner' \in [BusNames -> Owners]
        /\ nameOwner'[name] = new /\ new # nameOwner[name]
        /\ \A other \in BusNames \ {name} : nameOwner'[other] = nameOwner[other]
        /\ players' = players /\ watcherState' = watcherState
        /\ players \in Seq(BusNames) /\ announced \in Seq(OwnerChanges) /\ n \in Nat
    BY DEF OwnerChange, PlayersInductive, PlayersTypeOK, Owners
  <1>2. ownerMoves' \in 0 .. MaxOwnerMoves
    BY PlayersConstants DEF OwnerChange, PlayersInductive, PlayersTypeOK
  <1>3. change \in OwnerChanges
    BY <1>1 DEF OwnerChanges, Owners
  <1>4. CASE watcherState = "watching"
    <2>1. announced' = Append(announced, change) /\ missed' = missed
      BY <1>4 DEF OwnerChange
    <2> HIDE DEF change
    <2>2. /\ announced' \in Seq(OwnerChanges)
          /\ ToSet(announced') = ToSet(announced) \cup {change}
      BY <1>1, <1>3, <2>1, AppendSet
    <2>3. /\ Len(announced') = n + 1 /\ announced'[n + 1] = change
          /\ \A i \in 1 .. n : announced'[i] = announced[i]
      BY <1>1, <1>3, <2>1
    <2>4. ASSUME NEW other \in PlayerNames \ missed PROVE Followed(other)'
      <3>1. OneRow(other)'
        BY <1>1, <2>4 DEF PlayersInductive, Followed, OneRow
      <3>2. PICK h \in [0 .. n -> Owners] : Traces(h, other)
        BY <2>4 DEF PlayersInductive, Followed
      <3> DEFINE last == nameOwner'[other]
      <3>3. other \in BusNames
        BY DEF BusNames
      <3>4. last \in Owners
        BY <1>1, <3>3
      <3>5. h[n] = nameOwner[other]
        BY <3>2 DEF Traces
      <3>6. Step(change, other, h[n], last)
        BY <1>1, <3>3, <3>5 DEF Step, change
      <3> HIDE DEF last
      <3>7. PICK g \in [0 .. n + 1 -> Owners] :
                    g = [i \in 0 .. n + 1 |-> IF i <= n THEN h[i] ELSE last]
        BY <1>1, <3>4
      <3>8. g[n + 1] = last /\ \A i \in 0 .. n : g[i] = h[i]
        BY <1>1, <3>7
      <3>9. \A i \in 1 .. n + 1 : Step(announced'[i], other, g[i - 1], g[i])
        <4> SUFFICES ASSUME NEW i \in 1 .. n + 1
                     PROVE  Step(announced'[i], other, g[i - 1], g[i])
          OBVIOUS
        <4>1. CASE i \in 1 .. n
          <5>1. i - 1 \in 0 .. n /\ i \in 0 .. n
            BY <1>1, <4>1
          <5>2. Step(announced[i], other, h[i - 1], h[i])
            BY <4>1, <3>2 DEF Traces
          <5> QED BY <2>3, <3>8, <4>1, <5>1, <5>2
        <4>2. CASE i = n + 1
          <5>1. i - 1 = n /\ n \in 0 .. n
            BY <1>1, <4>2
          <5> QED BY <2>3, <3>6, <3>8, <4>2, <5>1
        <4> QED BY <1>1, <4>1, <4>2
      <3>10. 0 \in 0 .. n
        BY <1>1
      <3>11. other \in ToSet(players') <=> g[0] # NoOwner
        BY <1>1, <3>2, <3>8, <3>10 DEF Traces
      <3>12. Traces(g, other)'
        BY <2>3, <3>8, <3>9, <3>11 DEF Traces, Step, last
      <3> QED BY <2>3, <3>1, <3>7, <3>12 DEF Followed, Owners
    <2>5. PlayersTypeOK'
      BY <1>1, <1>2, <2>1, <2>2, RangeIsToSet DEF PlayersInductive, PlayersTypeOK, Owners
    <2> QED BY <1>1, <1>4, <2>1, <2>2, <2>4, <2>5 DEF PlayersInductive
  <1>5. CASE watcherState # "watching"
    <2>1. announced' = announced /\ missed' = missed \cup {name}
      BY <1>5 DEF OwnerChange
    <2>2. ASSUME NEW other \in PlayerNames \ missed' PROVE Followed(other)'
      <3>1. other \in BusNames \ {name} /\ other \in PlayerNames \ missed
        BY <2>1 DEF BusNames
      <3> QED BY <1>1, <2>1, <3>1
              DEF PlayersInductive, Followed, OneRow, Traces, Step, Owners
    <2>3. PlayersTypeOK'
      BY <1>1, <1>2, <2>1 DEF PlayersInductive, PlayersTypeOK, Owners
    <2> QED BY <1>1, <2>1, <2>2, <2>3 DEF PlayersInductive
  <1> QED BY <1>4, <1>5

(* The handler takes the first signal on its way. *)
LEMMA ServiceOwnerChangedStep ==
    ASSUME PlayersInductive, ServiceOwnerChanged PROVE PlayersInductive'
  <1> DEFINE change == announced[1]
             n == Len(announced)
  <1>1. /\ announced \in Seq(OwnerChanges) /\ announced # <<>> /\ players \in Seq(BusNames)
        /\ announced' = Tail(announced) /\ players' = RowsAfter(Head(announced))
        /\ UNCHANGED <<nameOwner, watcherState, missed, ownerMoves>>
    BY DEF PlayersInductive, ServiceOwnerChanged
  <1>2. /\ n \in Nat \ {0} /\ Head(announced) = change /\ change \in OwnerChanges
        /\ announced' \in Seq(OwnerChanges) /\ Len(announced') = n - 1
        /\ \A i \in 1 .. n - 1 : announced'[i] = announced[i + 1]
    BY <1>1
  <1>3. ToSet(announced') \subseteq ToSet(announced)
    BY <1>1, TailSet
  <1>4. players' = RowsAfter(change) /\ change.name \in BusNames
    BY <1>1, <1>2 DEF OwnerChanges
  <1> HIDE DEF change
  <1>5. \/ change.name \in PlayerNames /\ Arrived(change) /\ players' = Append(players, change.name)
        \/ /\ ~(change.name \in PlayerNames /\ Arrived(change))
           /\ change.name \in PlayerNames /\ Departed(change)
           /\ players' = RemoveRow(change.name)
        \/ /\ ~(change.name \in PlayerNames /\ (Arrived(change) \/ Departed(change)))
           /\ players' = players
    BY <1>4 DEF RowsAfter, AppendRow
  <1>6. change.name \notin ToSet(players) => RemoveRow(change.name) = players
    BY RangeIsToSet DEF RemoveRow, IndexOfRow
  <1>7. players' \in Seq(BusNames)
    BY <1>1, <1>4, <1>5, <1>6, RowAppended, RowRemoved
  <1>8. ASSUME NEW other \in BusNames, other # change.name
        PROVE  /\ other \in ToSet(players') <=> other \in ToSet(players)
               /\ OneRow(other) => OneRow(other)'
    <2>1. CASE players' = players
      BY <2>1 DEF OneRow
    <2>2. CASE players' = Append(players, change.name)
      BY <1>1, <1>4, <1>8, <2>2, RowAppended
    <2>3. CASE players' = RemoveRow(change.name) /\ change.name \in ToSet(players)
      BY <1>1, <1>8, <2>3, RowRemoved
    <2> QED BY <1>5, <1>6, <2>1, <2>2, <2>3
  <1>9. ASSUME NEW name \in PlayerNames, change.name = name, OneRow(name), NEW h,
               name \in ToSet(players) <=> h[0] # NoOwner, Step(change, name, h[0], h[1])
        PROVE  /\ name \in ToSet(players') <=> h[1] # NoOwner
               /\ OneRow(name)'
    <2>1. change.oldOwner = h[0] /\ change.newOwner = h[1] /\ h[0] # h[1]
      BY <1>9 DEF Step
    <2>2. CASE Arrived(change)
      <3>1. players' = Append(players, name)
        BY <1>5, <1>9, <2>2
      <3> QED BY <1>1, <1>4, <1>9, <2>1, <2>2, <3>1, RowAppended DEF Arrived
    <2>3. CASE ~Arrived(change) /\ Departed(change)
      <3>1. players' = RemoveRow(name) /\ name \in ToSet(players)
        BY <1>5, <1>9, <2>1, <2>3 DEF Arrived
      <3> QED BY <1>1, <1>9, <2>1, <2>3, <3>1, RowRemoved DEF Departed
    <2>4. CASE ~Arrived(change) /\ ~Departed(change)
      <3>1. players' = players
        BY <1>5, <2>4
      <3> QED BY <1>9, <2>1, <2>4, <3>1 DEF Arrived, Departed, OneRow
    <2> QED BY <2>2, <2>3, <2>4
  <1>10. ASSUME NEW other \in PlayerNames \ missed PROVE Followed(other)'
    <2>1. PICK h \in [0 .. n -> Owners] : Traces(h, other)
      BY <1>10 DEF PlayersInductive, Followed
    <2>2. OneRow(other) /\ other \in BusNames
      BY <1>10 DEF PlayersInductive, Followed, BusNames
    <2>3. 1 \in 1 .. n /\ 0 \in 0 .. n - 1 /\ 1 - 1 = 0 /\ 0 + 1 = 1
      BY <1>2
    <2>4. /\ Step(change, other, h[0], h[1])
          /\ other \in ToSet(players) <=> h[0] # NoOwner
      BY <2>1, <2>3 DEF Traces, change
    <2>5. (other \in ToSet(players') <=> h[1] # NoOwner) /\ OneRow(other)'
      <3>1. CASE other = change.name
        BY <1>9, <2>2, <2>4, <3>1
      <3>2. CASE other # change.name
        BY <1>8, <2>2, <2>4, <3>2 DEF Step
      <3> QED BY <3>1, <3>2
    <2>6. PICK g \in [0 .. n - 1 -> Owners] : g = [i \in 0 .. n - 1 |-> h[i + 1]]
      BY <1>2
    <2>7. \A i \in 0 .. n - 1 : g[i] = h[i + 1]
      BY <2>6
    <2>8. \A i \in 1 .. n - 1 : Step(announced'[i], other, g[i - 1], g[i])
      <3> SUFFICES ASSUME NEW i \in 1 .. n - 1 PROVE Step(announced'[i], other, g[i - 1], g[i])
        OBVIOUS
      <3>1. i + 1 \in 1 .. n /\ (i + 1) - 1 = i /\ i - 1 \in 0 .. n - 1 /\ (i - 1) + 1 = i
            /\ i \in 0 .. n - 1
        BY <1>2
      <3>2. Step(announced[i + 1], other, h[i], h[i + 1])
        <4>1. \A k \in 1 .. n : Step(announced[k], other, h[k - 1], h[k])
          BY <2>1 DEF Traces
        <4> QED BY <3>1, <4>1
      <3>3. g[i - 1] = h[i] /\ g[i] = h[i + 1]
        BY <2>7, <3>1
      <3> QED BY <1>2, <3>2, <3>3
    <2>9. g[n - 1] = nameOwner'[other]
      <3>1. n - 1 \in 0 .. n - 1 /\ (n - 1) + 1 = n
        BY <1>2
      <3> QED BY <1>1, <2>1, <2>7, <3>1 DEF Traces
    <2>10. g[0] = h[1]
      BY <2>3, <2>7
    <2>11. Traces(g, other)'
      BY <1>2, <2>5, <2>8, <2>9, <2>10 DEF Traces, Step
    <2> QED BY <1>2, <2>5, <2>6, <2>11 DEF Followed, Owners
  <1>11. PlayersTypeOK'
    <2>1. Range(players') \subseteq BusNames
      BY <1>7, RangeIsToSet, ToSetOfSeq
    <2>2. Range(announced') \subseteq OwnerChanges
      BY <1>2, RangeIsToSet, ToSetOfSeq
    <2> QED BY <1>1, <2>1, <2>2 DEF PlayersInductive, PlayersTypeOK
  <1>12. watcherState' = "listing" => announced' = <<>>
    BY <1>1 DEF PlayersInductive
  <1> QED BY <1>1, <1>2, <1>7, <1>10, <1>11, <1>12 DEF PlayersInductive

LEMMA PlayersSteps == PlayersInductive /\ [PlayersNext]_playersVars => PlayersInductive'
  <1> SUFFICES ASSUME PlayersInductive, [PlayersNext]_playersVars PROVE PlayersInductive'
    OBVIOUS
  <1>1. ASSUME NEW name \in BusNames, NEW new \in Owners, OwnerChange(name, new)
        PROVE  PlayersInductive'
    BY <1>1, OwnerChangeStep
  <1>2. CASE ServiceOwnerChanged
    BY <1>2, ServiceOwnerChangedStep
  <1>3. ASSUME UNCHANGED <<nameOwner, announced, players, missed, ownerMoves>>,
               watcherState' \in {watcherState, "watching"}
        PROVE  PlayersInductive'
    <2>1. PlayersTypeOK' /\ (watcherState' = "listing" => announced' = <<>>)
      BY <1>3 DEF PlayersInductive, PlayersTypeOK
    <2>2. ASSUME NEW name \in PlayerNames \ missed PROVE Followed(name)'
      BY <1>3, <2>2 DEF PlayersInductive, Followed, OneRow, Traces, Step, Owners
    <2> QED BY <1>3, <2>1, <2>2 DEF PlayersInductive
  <1>4. CASE WatchNames
    BY <1>3, <1>4 DEF WatchNames
  <1>5. CASE UNCHANGED playersVars
    BY <1>3, <1>5 DEF playersVars
  <1> QED BY <1>1, <1>2, <1>4, <1>5 DEF PlayersNext, Owners

LEMMA RowsAreCounted == PlayersInductive => RowsFollowBus
  <1> SUFFICES ASSUME PlayersInductive, announced = <<>>, NEW name \in PlayerNames \ missed
               PROVE  Cardinality({i \in DOMAIN players : players[i] = name})
                          = (IF nameOwner[name] = NoOwner THEN 0 ELSE 1)
    BY DEF RowsFollowBus
  <1> DEFINE I == {i \in DOMAIN players : players[i] = name}
  <1>1. PICK h \in [0 .. Len(announced) -> Owners] : Traces(h, name)
    BY DEF PlayersInductive, Followed
  <1>2. name \in ToSet(players) <=> nameOwner[name] # NoOwner
    BY <1>1 DEF Traces
  <1>3. OneRow(name) /\ DOMAIN players = 1 .. Len(players)
    BY DEF PlayersInductive, Followed
  <1>4. CASE nameOwner[name] = NoOwner
    <2>1. I = {}
      BY <1>2, <1>4 DEF ToSet
    <2> QED BY <1>4, <2>1, FS_EmptySet
  <1>5. CASE nameOwner[name] # NoOwner
    <2>1. PICK r \in DOMAIN players : players[r] = name
      BY <1>2, <1>5 DEF ToSet
    <2>2. I = {r}
      BY <1>3, <2>1 DEF OneRow
    <2> QED BY <1>5, <2>2, FS_Singleton
  <1> QED BY <1>4, <1>5

(* The rows, the names and the signals on their way keep their types.      *)
THEOREM PlayersTypeCorrect == PlayersSpec => []PlayersTypeOK
  <1>1. PlayersInductive => PlayersTypeOK
    BY DEF PlayersInductive
  <1> QED BY PlayersStarts, PlayersSteps, <1>1, PTL DEF PlayersSpec

(* Once the bus has nothing on its way, every player it has is shown once  *)
(* and no other, but for names that changed before the watcher was there   *)
(* and those its handler does not take for players (mpris2engine.cpp).     *)
THEOREM RowsAlwaysFollowBus == PlayersSpec => []RowsFollowBus
  <1> QED BY PlayersStarts, PlayersSteps, RowsAreCounted, PTL DEF PlayersSpec
=============================================================================
