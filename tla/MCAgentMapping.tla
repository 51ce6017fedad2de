--------------------------- MODULE MCAgentMapping ---------------------------
(* Instances of AgentMapping for TLC.                                        *)
EXTENDS AgentMapping

MCRequests ==
  {[width |-> 2, height |-> 2, agent_count |-> k, max_agent_by_cell |-> m] :
     k \in 1 .. 5, m \in 1 .. 2}
=============================================================================
