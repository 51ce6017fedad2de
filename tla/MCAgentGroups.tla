--------------------------- MODULE MCAgentGroups ---------------------------
(* AgentGroups for TLC.                                                    *)
EXTENDS AgentGroups, TLC

Symmetry == Permutations(Agent) \cup Permutations(Group)
=============================================================================
