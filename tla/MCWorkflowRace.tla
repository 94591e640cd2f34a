--------------------------- MODULE MCWorkflowRace ---------------------------
(* Two agents of one person, beside the page and the agent of another. *)
EXTENDS MCWorkflow

CONSTANTS agent1, agent2, other

RacersAreAlices ==
  [a \in Actors |-> IF a \in Flows \cup {agent1, agent2} THEN alice ELSE bob]

\* Alice's two agents are interchangeable.
RacerSymmetry == Permutations({agent1, agent2})
=============================================================================
