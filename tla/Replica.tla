------------------------------- MODULE Replica -------------------------------
(***************************************************************************)
(* What a client that shows a service's values promises: each value shown  *)
(* is one that the service has had, and never an older one than before.    *)
(* Values are numbered in the order the service takes them, 0 is no value. *)
(***************************************************************************)
EXTENDS Naturals

CONSTANT Name
VARIABLES truth, copy

replicaVars == <<truth, copy>>

Init == truth = [n \in Name |-> 1] /\ copy = [n \in Name |-> 0]

Publish(n) == truth' = [truth EXCEPT ![n] = @ + 1] /\ UNCHANGED copy

Learn ==
    /\ UNCHANGED truth
    /\ DOMAIN copy' = Name
    /\ \A n \in Name : copy'[n] \in copy[n]..truth[n]

Next == Learn \/ \E n \in Name : Publish(n)
Spec == Init /\ [][Next]_replicaVars
=============================================================================
