------------------------------- MODULE MCParts -------------------------------
(***************************************************************************)
(* Each part on a small instance of its own, see MCParts.cfg.              *)
(***************************************************************************)
EXTENDS Parts

(* Of an earlier session systemd may have a display; this one may have a   *)
(* display and a language.                                                 *)
MCOwnAtLogin ==
    { [n \in Var |-> IF n = "shlvl" THEN "a" ELSE IF n = "cask" THEN "unset"
                     ELSE IF n = "display" THEN d ELSE l] : d, l \in {"unset", "a"} }
MCSystemdAtLogin ==
    { [n \in Var |-> IF n = "lang" THEN "b" ELSE IF n = "display" THEN d ELSE "unset"]
        : d \in {"unset", "b"} }

(* Desktop files: each service after any other or none and in phase 0 or   *)
(* 1; or one of them with a key that keeps it from starting, or no file.   *)
MCFile(service, number) ==
    [hidden |-> FALSE, allowed |-> {}, excluded |-> {}, tryExec |-> TRUE,
     condition |-> <<>>, after |-> service, phase |-> number]
MCPlain == { MCFile(s, n) : s \in Service \cup {""}, n \in {0, 1} }
MCSkipped == { [MCFile("", 0) EXCEPT !.hidden = TRUE],
               [MCFile("", 0) EXCEPT !.excluded = {"Cask"}],
               [MCFile("", 1) EXCEPT !.allowed = {"KDE"}],
               [MCFile("", 1) EXCEPT !.tryExec = FALSE],
               [MCFile("", 1) EXCEPT !.condition = <<"rc", "g", "k", "true">>],
               [MCFile("", 1) EXCEPT !.condition = <<"rc", "g", "other", "false">>] }
MCSystemFiles ==
    { [n \in Service |-> {f[n]}] : f \in [Service -> MCPlain] }
        \cup { [n \in Service |-> IF n = "b" THEN file ELSE {MCFile("", 0)}]
                  : file \in { {e} : e \in MCSkipped } \cup {Absent} }
MCSetting == <<"rc", "g", "k">> :> FALSE
==============================================================================
