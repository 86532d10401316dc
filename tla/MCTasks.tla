------------------------------ MODULE MCTasks ------------------------------
(***************************************************************************)
(* Two windows, three tasks and three ids: a desktop file by its path and  *)
(* by the app id of the same program, and an app id without desktop file.  *)
(***************************************************************************)
EXTENDS Tasks

CONSTANTS path, app, unknown, run

MCExec    == path :> run @@ app :> run @@ unknown :> NoExec
MCPresent == {path}
=============================================================================
