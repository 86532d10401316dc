------------------------------ MODULE MCZpaces ------------------------------
(* The workspaces on a small instance: see MCZpaces.cfg. *)
EXTENDS Zpaces

CONSTANTS w1, w2, w3, z1, z2, z3

MCWindow == {w1, w2, w3}
MCZpace  == {z1, z2, z3}
MCTwoWindows == {w1, w2}

(* A width of every mode, at the thresholds of setZpacesMode. *)
MCWidths == {500, 1500, 1501}
=============================================================================
