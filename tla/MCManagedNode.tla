----------------------------- MODULE MCManagedNode -----------------------------
(* Radios and ids for the run of ManagedNode; an info that could not be    *)
(* read has the id "none".                                                 *)
EXTENDS ManagedNode

Radios2 == {"r1", "r2"}
First == [id |-> "r1", fw |-> "2.1"]
Ids == Radios2 \cup {"none"}
=============================================================================
