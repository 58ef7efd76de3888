------------------------------- MODULE MCLedger ------------------------------
(* Koj with its ledger on small instances: all submissions belong to one user,  *)
(* whose windows may overlap.                                                   *)
EXTENDS PriorityLedger

OneOwner == [r \in Requests |-> CHOOSE u \in Users : TRUE]
=============================================================================
