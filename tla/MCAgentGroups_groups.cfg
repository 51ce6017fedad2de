\* Two agents and two groups on three processes.
CONSTANTS
  N = 3
  Agent = {a, b}
  Group = {g, h}
  ClearGhosts = FALSE
SYMMETRY Symmetry
SPECIFICATION Spec
INVARIANTS GroupsAgree ExecutedByOwner GhostGroups AgentsKept
