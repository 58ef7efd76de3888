------------------------------- MODULE MCKoj -------------------------------
(* Koj on small instances: all submissions belong to one user. *)
EXTENDS Koj

OneOwner == [r \in Requests |-> CHOOSE u \in Users : TRUE]
=============================================================================
