------------------------------- MODULE Players --------------------------------
(***************************************************************************)
(* The list of media players of the shell: Mpris2Engine                    *)
(* (caskcore mpris2engine.cpp) asks the session bus for the names that are *)
(* registered, makes a Mpris2Player for each that looks like a player and  *)
(* only then starts a service watcher; its handler keeps PlayersModel in   *)
(* step with the owner changes the bus announces.                          *)
(*                                                                         *)
(* A bus name has an owner or NoOwner.  What happens between the reply to  *)
(* registeredServiceNames and the match rule of the watcher is announced   *)
(* to nobody; "missed" is a history variable that remembers those names.   *)
(***************************************************************************)
EXTENDS Naturals, SequencesExt

CONSTANTS
    PlayerNames,   \* names that start with mprisPrefix
    OddNames,      \* names that only contain mprisInterface: the filter takes
                   \* them, the handler of the watcher does not
    Connections,   \* the unique names that may own a name
    MaxOwnerMoves  \* bound: owner changes after the list was read

ASSUME PlayersConstants == /\ PlayerNames \cap OddNames = {}
                           /\ IsFiniteSet(PlayerNames \cup OddNames)
                           /\ Connections # {}
                           /\ MaxOwnerMoves \in Nat

BusNames == PlayerNames \cup OddNames
NoOwner == "no_owner"

VARIABLES
    nameOwner,     \* the bus: the owner of each name
    watcherState,  \* "listing" until the match rule is in place, "watching"
    announced,     \* NameOwnerChanged signals on their way, in order
    players,       \* PlayersModel::m_players, each by the name it was made with
    missed,        \* history: the names that changed while nobody listened
    ownerMoves     \* how many changes there were

playersVars == <<nameOwner, watcherState, announced, players, missed, ownerMoves>>

OwnerChanges == [name : BusNames, oldOwner : Connections \cup {NoOwner},
                 newOwner : Connections \cup {NoOwner}]

PlayersTypeOK ==
    /\ nameOwner \in [BusNames -> Connections \cup {NoOwner}]
    /\ watcherState \in {"listing", "watching"}
    /\ Range(announced) \subseteq OwnerChanges
    /\ Range(players) \subseteq BusNames
    /\ missed \subseteq BusNames
    /\ ownerMoves \in 0 .. MaxOwnerMoves

(***************************************************************************)
(* PlayersModel: append takes whatever it is given, indexOf finds the      *)
(* first row with the name, and remove ignores an index that is not valid. *)
(***************************************************************************)
AppendRow(name) == Append(players, name)

IndexOfRow(name) == IF name \in Range(players)
                    THEN SelectInSeq(players, LAMBDA row : row = name)
                    ELSE 0

RemoveRow(name) == IF IndexOfRow(name) = 0 THEN players
                   ELSE RemoveAt(players, IndexOfRow(name))

\* The bus lists its names in an order of its own.
ListedNames == {name \in BusNames : nameOwner[name] # NoOwner}

PlayersInit ==
    /\ nameOwner \in [BusNames -> Connections \cup {NoOwner}]
    /\ watcherState = "listing"
    /\ announced = <<>>
    /\ players \in SetToSeqs(ListedNames)
    /\ missed = {}
    /\ ownerMoves = 0

\* The bus: a client takes a name, gives it up or takes it over from another.
\* The watcher gets the signal if its match rule is in place.
OwnerChange(name, new) ==
    /\ ownerMoves < MaxOwnerMoves
    /\ new # nameOwner[name]
    /\ nameOwner' = [nameOwner EXCEPT ![name] = new]
    /\ ownerMoves' = ownerMoves + 1
    /\ IF watcherState = "watching"
       THEN /\ announced' = Append(announced, [name |-> name, newOwner |-> new,
                                           oldOwner |-> nameOwner[name]])
            /\ UNCHANGED missed
       ELSE /\ missed' = missed \cup {name}
            /\ UNCHANGED announced
    /\ UNCHANGED <<watcherState, players>>

\* new QDBusServiceWatcher, and the match rule reaches the bus.
WatchNames ==
    /\ watcherState = "listing"
    /\ watcherState' = "watching"
    /\ UNCHANGED <<nameOwner, announced, players, missed, ownerMoves>>

\* Mutant: the new owner is asked for, so that a takeover is an arrival too.
NewOwnerArrived(change) == change.newOwner # NoOwner

Arrived(change) == change.oldOwner = NoOwner
Departed(change) == change.newOwner = NoOwner

\* What the handler of serviceOwnerChanged makes of the players.
RowsAfter(change) ==
    IF change.name \in PlayerNames /\ Arrived(change)
    THEN AppendRow(change.name)
    ELSE IF change.name \in PlayerNames /\ Departed(change)
         THEN RemoveRow(change.name)
         ELSE players

ServiceOwnerChanged ==
    /\ announced # <<>>
    /\ players' = RowsAfter(Head(announced))
    /\ announced' = Tail(announced)
    /\ UNCHANGED <<nameOwner, watcherState, missed, ownerMoves>>

PlayersNext ==
    \/ \E name \in BusNames, new \in Connections \cup {NoOwner} :
          OwnerChange(name, new)
    \/ WatchNames
    \/ ServiceOwnerChanged

PlayersSpec == PlayersInit /\ [][PlayersNext]_playersVars

(***************************************************************************)
(* The widget shows the players that are there: with no signal on its way, *)
(* every player on the bus has exactly one row and a player that left has  *)
(* none, whatever names were taken over meanwhile.  Two kinds of names are *)
(* left out because the code does not keep the promise for them: those     *)
(* that changed between the list and the match rule, and those the filter  *)
(* of the list takes and the handler of the watcher does not.              *)
(***************************************************************************)
RowsFollowBus ==
    watcherState = "watching" /\ announced = <<>> =>
        \A name \in PlayerNames \ missed :
            Cardinality({i \in DOMAIN players : players[i] = name})
                = (IF nameOwner[name] = NoOwner THEN 0 ELSE 1)
==============================================================================
