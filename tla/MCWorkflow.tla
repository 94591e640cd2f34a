----------------------------- MODULE MCWorkflow -----------------------------
(* Instances of Workflow for TLC: which processes there are and whose. *)
EXTENDS Workflow, TLC

CONSTANTS alice, bob, sales, ops

\* Everyone acts for alice.
AllAlice == [a \in Actors |-> alice]

\* One workspace; or the agent's server was started for another.
AllSales == [a \in Actors |-> sales]
AgentsInOps == [a \in Actors |-> IF a \in Agents THEN ops ELSE sales]
=============================================================================
