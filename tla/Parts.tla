-------------------------------- MODULE Parts --------------------------------
(***************************************************************************)
(* The parts of the shell and of its session that share no state with each *)
(* other, in one state space: part is the one that moves, chosen at the    *)
(* start, and the others stay in one of their initial states.  What a part *)
(* does and promises is in its own module.                                 *)
(***************************************************************************)
EXTENDS Environment, Autostart, Mpris2Player, Players, PolkitAgent, Focus,
        CursorGrabber, ShellProcess, RecentApps, PowerManager

CONSTANT Moving    \* names of the parts that may move

VARIABLE part

partsVars == <<part, envVars, autostartVars, playerVars, playersVars, polkitVars,
               focusVars, cursorVars, shellVars, recentVars, powerVars>>

PartsTypeOK ==
    /\ part \in Moving
    /\ EnvTypeOK /\ AutostartTypeOK /\ PlayerTypeOK /\ PlayersTypeOK /\ PolkitTypeOK
    /\ FocusTypeOK /\ CursorTypeOK /\ ShellTypeOK /\ RecentAppsTypeOK /\ PowerTypeOK

(* The part that moves may start in any of its initial states.             *)
PartsInit ==
    /\ part \in Moving
    /\ EnvInit /\ (part # "environment" => own = CHOOSE e \in OwnAtLogin : TRUE)
               /\ (part # "environment" => systemd = CHOOSE e \in SystemdAtLogin : TRUE)
    /\ AutostartInit /\ (part # "autostart" => system = CHOOSE f \in SystemFiles : TRUE)
    /\ PlayerInit
    /\ PlayersInit /\ (part # "players" => players = <<>>)
    /\ PolkitInit
    /\ FocusInit
    /\ CursorInit
    /\ ShellInit /\ (part # "shell" => option = {})
    /\ RecentInit
    /\ PowerInit /\ (part # "power" => provider = "None")

Still(p, vars) == IF part = p THEN TRUE ELSE UNCHANGED vars

OthersStill ==
    /\ Still("environment", envVars) /\ Still("autostart", autostartVars)
    /\ Still("player", playerVars) /\ Still("players", playersVars)
    /\ Still("polkit", polkitVars) /\ Still("focus", focusVars)
    /\ Still("cursor", cursorVars) /\ Still("shell", shellVars)
    /\ Still("recent", recentVars) /\ Still("power", powerVars)
    /\ UNCHANGED part

PartsNext ==
    /\ \/ part = "environment" /\ EnvNext
       \/ part = "autostart" /\ AutostartNext
       \/ part = "player" /\ PlayerNext
       \/ part = "players" /\ PlayersNext
       \/ part = "polkit" /\ PolkitNext
       \/ part = "focus" /\ FocusNext
       \/ part = "cursor" /\ CursorNext
       \/ part = "shell" /\ ShellNext
       \/ part = "recent" /\ RecentNext
       \/ part = "power" /\ PowerNext
    /\ OthersStill

PartsSpec == PartsInit /\ [][PartsNext]_partsVars
==============================================================================
