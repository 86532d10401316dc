------------------------------- MODULE MCLogin -------------------------------
(***************************************************************************)
(* The three jobs of Startup, CaskServer and MauiManServer possibly there  *)
(* already, and two connections to the bus: a drkonqi with the names it    *)
(* has, its unique name first, and one whose only name is the prefix.      *)
(***************************************************************************)
EXTENDS Login, TLC

MCSequence == <<"CaskServer", "MauiManServer", "cask">>
MCNamesOf  == "drkonqi" :> <<":1.7", "org.kde.drkonqi-77">> @@ "prefix" :> <<"org.kde.drkonqi-">>
=============================================================================
