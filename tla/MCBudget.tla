------------------------------ MODULE MCBudget ------------------------------
(* Instances of Budget for TLC: everyone acts for one person. *)
EXTENDS Budget

CONSTANT alice

AllAlice == [c \in Clients |-> alice]
=============================================================================
