---------------------------- MODULE MCZpacesApi ----------------------------
(* The workspaces and their interface on a small instance. *)
EXTENDS ZpacesApi

CONSTANTS w1, w2, z1, z2, z3

MCWindow == {w1, w2}
MCZpace  == {z1, z2, z3}

\* A phone: the workspaces are full soonest.
MCWidths == {500}
=============================================================================
