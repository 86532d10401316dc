---------------------------- MODULE Mpris2Player ----------------------------
(***************************************************************************)
(* What the shell knows of a media player: Mpris2Player keeps a copy of    *)
(* the player's properties from GetAll replies and PropertiesChanged       *)
(* signals, all of which come over one connection in the order they were   *)
(* sent.  The player announces each change with the new value or as        *)
(* invalidated.                                                            *)
(***************************************************************************)
EXTENDS Integers, Sequences

CONSTANTS PlayerChanges,   \* bound: how often the player's properties change
          PositionReads    \* bound: calls of updatePosition

ASSUME PlayerAssumption == PlayerChanges \in Nat /\ PositionReads \in Nat

(* The properties of the two interfaces, in the order of a QVariantMap.    *)
(* Identity and Volume stand for those that are only stored: their values  *)
(* are numbered as the player takes them, 0 is what the constructor of     *)
(* Mpris2Player gives the copy.  bogus is a value of a type that QVariant  *)
(* does not convert.                                                       *)
RootProperty   == {"Identity"}
PlayerProperty == {"CanControl", "Metadata", "PlaybackStatus", "Rate", "Volume"}
Property       == RootProperty \cup PlayerProperty
Stored         == {"Identity", "Volume"}
Status         == {"Playing", "Paused", "Stopped"}
PropertyValues == [Identity |-> 1..PlayerChanges + 1, Volume |-> 1..PlayerChanges + 1,
           CanControl |-> {"yes", "no", "bogus"}, Metadata |-> {"none", "track"},
           PlaybackStatus |-> Status \cup {"bogus"}, Rate |-> {0, 1}]

VARIABLES player,     \* the player's properties
          changes,    \* how often they changed
          requests,   \* calls on their way to the player
          incoming,   \* replies and signals on their way from it
          copy,       \* m_identity, m_volume, ... of Mpris2Player
          pending,    \* m_fetchesPending
          reads,      \* calls of updatePosition
          failed      \* history: a GetAll was answered with an error

playerVars == <<player, changes, requests, incoming, copy, pending, reads, failed>>

Copy == [Identity : Nat, Volume : Nat, CanControl : {"yes", "no"}, Metadata : {"none", "track"},
         PlaybackStatus : Status, Rate : {0, 1}, CanStop : BOOLEAN, Position : {"zero", "later"}]

PlayerTypeOK ==
    /\ \A p \in Property : player[p] \in PropertyValues[p]
    /\ copy \in Copy
    /\ changes \in 0..PlayerChanges /\ reads \in 0..PositionReads
    /\ pending \in 0..2 * (PlayerChanges + 1)
    /\ failed \in BOOLEAN

-----------------------------------------------------------------------------
(* What follows in copyProperty from the values of a map, which comes in   *)
(* the order of its keys.                                                  *)
Converts(map, p) == p \in {"CanControl", "PlaybackStatus"} => map[p] # "bogus"
Known(c, map, p) == IF p \in DOMAIN map /\ Converts(map, p) THEN map[p] ELSE c[p]
HasStatus(map) == "PlaybackStatus" \in DOMAIN map
StatusConverts(map) == HasStatus(map) /\ Converts(map, "PlaybackStatus")

(* Reset if it is not playing, unless Rate comes after. *)
RateAfter(c, map) ==
    IF "Rate" \in DOMAIN map THEN map["Rate"]
    ELSE IF StatusConverts(map) /\ map["PlaybackStatus"] # "Playing" THEN 0 ELSE c.Rate

(* calculatePosition, if the status that was just stored is Playing; zero  *)
(* for a new track and for a stopped player.                               *)
PositionAfter(c, map) ==
    IF "Rate" \in DOMAIN map /\ Known(c, map, "PlaybackStatus") = "Playing" THEN "later"
    ELSE IF \/ StatusConverts(map) /\ map["PlaybackStatus"] = "Stopped"
            \/ Known(c, map, "Metadata") # c.Metadata
         THEN "zero" ELSE c.Position

(* Mutant: the capability follows the status alone. *)
StopWhilePlaying(c, map) ==
    IF HasStatus(map) THEN map["PlaybackStatus"] # "Stopped" ELSE c.CanStop

(* The faked CanStop, computed for CanControl and then for PlaybackStatus. *)
CanStopAfter(c, map) ==
    IF HasStatus(map)
    THEN Known(c, map, "CanControl") = "yes" /\ map["PlaybackStatus"] # "Stopped"
    ELSE IF "CanControl" \in DOMAIN map THEN Known(c, map, "CanControl") = "yes" ELSE c.CanStop

(* updateFromMap *)
Updated(c, map) ==
    [p \in DOMAIN c |->
        CASE p = "CanStop"  -> CanStopAfter(c, map)
          [] p = "Rate"     -> RateAfter(c, map)
          [] p = "Position" -> PositionAfter(c, map)
          [] OTHER          -> Known(c, map, p)]

(* retrieveData: a GetAll for each of the two interfaces. *)
Fetches == <<"root", "player">>

PlayerInit ==
    /\ player = [Identity |-> 1, Volume |-> 1, CanControl |-> "no", Metadata |-> "none",
                 PlaybackStatus |-> "Stopped", Rate |-> 0]
    /\ copy = [Identity |-> 0, Volume |-> 0, CanControl |-> "no", Metadata |-> "none",
               PlaybackStatus |-> "Stopped", Rate |-> 0, CanStop |-> FALSE, Position |-> "zero"]
    /\ changes = 0 /\ reads = 0 /\ failed = FALSE
    /\ requests = Fetches /\ pending = 2 /\ incoming = <<>>

-----------------------------------------------------------------------------
(* The player (external) takes new values and announces them, or only that *)
(* the old ones are invalid; it seeks; it answers what it is asked.        *)
NewValue(p) == IF p \in Stored THEN {player[p] + 1} ELSE PropertyValues[p] \ {player[p]}

PlayerChanged(p) ==
    /\ changes < PlayerChanges /\ changes' = changes + 1
    /\ \E v \in NewValue(p) :
          /\ player' = [player EXCEPT ![p] = v]
          /\ \E shown \in BOOLEAN :
                incoming' = Append(incoming, [kind |-> "changed", shown |-> shown,
                                              map |-> [q \in IF shown THEN {p} ELSE {} |-> v]])
    /\ UNCHANGED <<requests, copy, pending, reads, failed>>

PlayerSeeked ==
    /\ changes < PlayerChanges /\ changes' = changes + 1
    /\ \E position \in {"zero", "later"} :
          incoming' = Append(incoming, [kind |-> "position", at |-> position])
    /\ UNCHANGED <<player, requests, copy, pending, reads, failed>>

Answer ==
    /\ requests # <<>> /\ requests' = Tail(requests)
    /\ IF Head(requests) = "position"
       THEN /\ \E position \in {"zero", "later"} :
                  incoming' = Append(incoming, [kind |-> "position", at |-> position])
            /\ UNCHANGED failed
       ELSE LET names == IF Head(requests) = "root" THEN RootProperty ELSE PlayerProperty
            IN  \/ /\ incoming' = Append(incoming, [kind |-> "all", map |-> [p \in names |-> player[p]]])
                   /\ UNCHANGED failed
                \/ incoming' = Append(incoming, [kind |-> "error"]) /\ failed' = TRUE
    /\ UNCHANGED <<player, changes, copy, pending, reads>>

Arrives(kind) == incoming # <<>> /\ Head(incoming).kind = kind /\ incoming' = Tail(incoming)

(* Mutant: what is invalid is forgotten, before it is fetched anew. *)
Forgotten(c, message) ==
    IF message.shown THEN Updated(c, message.map) ELSE [c EXCEPT !.Volume = 0, !.Identity = 0]

FromSignal(c, message) == Updated(c, message.map)

(* Mutant: invalidated properties are not fetched. *)
NeverRefetches(message) == FALSE

Refetches(message) == ~message.shown

(* The handler of PropertiesChanged. *)
PropertiesChanged ==
    /\ Arrives("changed")
    /\ copy' = FromSignal(copy, Head(incoming))
    /\ requests' = IF Refetches(Head(incoming)) THEN requests \o Fetches ELSE requests
    /\ pending' = IF Refetches(Head(incoming)) THEN pending + 2 ELSE pending
    /\ UNCHANGED <<player, changes, reads, failed>>

(* Mutant: every reply counts. *)
AlwaysExpected == TRUE

(* propertiesFinished: a reply that nothing is pending for is dropped. *)
Expected == pending >= 1

PropertiesFinished ==
    /\ Arrives("all")
    /\ copy' = IF Expected THEN Updated(copy, Head(incoming).map) ELSE copy
    /\ pending' = IF Expected THEN pending - 1 ELSE pending
    /\ UNCHANGED <<player, changes, requests, reads, failed>>

(* An error ends the fetch: whatever is on its way counts for nothing. *)
PropertiesFailed ==
    /\ Arrives("error")
    /\ pending' = 0
    /\ UNCHANGED <<player, changes, requests, copy, reads, failed>>

(* Seeked, or getPositionFinished. *)
PositionArrives ==
    /\ Arrives("position")
    /\ copy' = [copy EXCEPT !.Position = Head(incoming).at]
    /\ UNCHANGED <<player, changes, requests, pending, reads, failed>>

UpdatePosition ==
    /\ reads < PositionReads /\ reads' = reads + 1
    /\ requests' = Append(requests, "position")
    /\ UNCHANGED <<player, changes, incoming, copy, pending, failed>>

PlayerNext ==
    \/ \E p \in Property : PlayerChanged(p)
    \/ PlayerSeeked \/ Answer
    \/ PropertiesChanged \/ PropertiesFinished \/ PropertiesFailed \/ PositionArrives
    \/ UpdatePosition

PlayerSpec == PlayerInit /\ [][PlayerNext]_playerVars

-----------------------------------------------------------------------------
(* The copy follows the player: no reply overwrites a newer value, however *)
(* fetches, signals and errors overlap (mpris2player.cpp:282-284).         *)
Shown == INSTANCE Replica WITH
    Name  <- Stored,
    truth <- [p \in Stored |-> player[p]],
    copy  <- [p \in Stored |-> copy[p]]
CopyFollowsPlayer == Shown!Spec

(* When nothing is on its way and no fetch failed, what is shown is what   *)
(* the player has, and no fetch is waited for.  Only a rate of zero may be *)
(* the shell's own, and a value that could not be converted is kept.       *)
CopyAgrees ==
    requests = <<>> /\ incoming = <<>> /\ ~failed =>
        /\ pending = 0
        /\ \A p \in Property \ {"Rate"} : Converts(player, p) => player[p] = copy[p]

(* A player that plays and can be controlled can be stopped, and none that *)
(* cannot be controlled can be, whichever of the two came last             *)
(* (mpris2player.cpp:387-396).                                             *)
PlayingCanBeStopped ==
    /\ copy.CanStop => copy.CanControl = "yes"
    /\ copy.CanControl = "yes" /\ copy.PlaybackStatus # "Stopped" => copy.CanStop
=============================================================================
