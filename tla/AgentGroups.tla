---------------------------- MODULE AgentGroups ----------------------------
(***************************************************************************)
(* Agents and groups of a Model (model/detail/model.cpp) on top of the     *)
(* DistributedGraph in GhostMode: AgentGroupBase, the callbacks that bind  *)
(* agents to groups and jobs when their nodes are inserted, erased, set    *)
(* LOCAL or DISTANT, and AgentBase::moveAssign() (model/model.h), which    *)
(* updates the groups of an agent that is received from another process.   *)
(*                                                                         *)
(* The graph is abstracted to what GhostGraph shows of it: a node has one  *)
(* owner, DISTANT nodes are updated from it when a collective call         *)
(* returns, a DISTANT node may come and go with the edges of the process,  *)
(* and a removed node is erased everywhere by synchronize().               *)
(***************************************************************************)
EXTENDS Integers, FiniteSets

CONSTANTS N,           \* number of processes
          Agent, Group,
          ClearGhosts  \* clear() may take a DISTANT agent out of its last group

Rank == 0 .. N-1

ASSUME AgentGroupsAssumption ==
  /\ N \in Nat \ {0}
  /\ ClearGhosts \in BOOLEAN

VARIABLES
  rep,      \* the representation of each agent on each process
  fresh,    \* agents that have not been created
  removed,  \* agents whose node removeNode() has been called for
  synced    \* whether a collective call has just returned

vars == <<rep, fresh, removed, synced>>

(* A representation: the state of the node, groupIds(), groups() and the    *)
(* keys of tasks() of the agent, the groups that have it in agents(), and   *)
(* how many times its task is in the job of each group.                     *)
Representation ==
  [state : {"ABSENT", "LOCAL", "DISTANT"}, ids : SUBSET Group, groups : SUBSET Group,
   tasks : SUBSET Group, members : SUBSET Group, jobs : [Group -> Nat]]

Absent == [state |-> "ABSENT", ids |-> {}, groups |-> {}, tasks |-> {}, members |-> {},
           jobs |-> [g \in Group |-> 0]]

TypeOK ==
  /\ rep \in [Rank -> [Agent -> Representation]]
  /\ fresh \subseteq Agent
  /\ removed \subseteq Agent
  /\ synced \in BOOLEAN

Init ==
  /\ rep = [p \in Rank |-> [a \in Agent |-> Absent]]
  /\ fresh = Agent
  /\ removed = {}
  /\ synced = FALSE

-----------------------------------------------------------------------------
(* Jobs and groups: each operator applies a loop over the groups G *)

WithState(r, state) == [r EXCEPT !.state = state]

WithIds(r, ids) == [r EXCEPT !.ids = ids]

\* Job::add() of the tasks of the groups.
Schedule(r, G) ==
  [r EXCEPT !.jobs = [g \in Group |-> IF g \in G THEN r.jobs[g] + 1 ELSE r.jobs[g]]]

\* Job::remove(): nothing happens if the task is not there.  It erases one element,
\* which is the task as long as it is there once, as ExecutedByOwner says.
Unschedule(r, G) ==
  [r EXCEPT !.jobs = [g \in Group |->
     IF g \in G /\ r.jobs[g] > 0 THEN r.jobs[g] - 1 ELSE r.jobs[g]]]

\* AgentGroupBase::insert()
Insert(r, G) ==
  [r EXCEPT !.members = @ \cup G, !.groups = @ \cup G, !.tasks = @ \cup G]

\* AgentGroupBase::erase()
Erase(r, G) ==
  [r EXCEPT !.members = @ \ G, !.groups = @ \ G, !.tasks = @ \ G, !.ids = @ \ G]

\* AgentGroupBase::add(): for an agent without group, buildNode() makes a LOCAL
\* node, and its callbacks schedule the agent.
AddTo(r, G) ==
  LET s == Insert(WithIds(r, r.ids \cup G), G)
  IN  IF r.state = "LOCAL" \/ r.groups = {} THEN Schedule(s, G) ELSE s

\* AgentGroupBase::remove() but for removeNode()
RemoveFrom(r, G) ==
  Erase(IF r.state = "LOCAL" THEN Unschedule(r, G) ELSE r, G)

\* Mutant of MoveAssign: groupIds() is moved and groups() is not updated.
MoveIds(r, ids) == WithIds(r, ids)

\* Mutant of MoveAssign: the agent is added to new groups only.
MoveAdditions(r, ids) == IF ids \subseteq r.ids THEN r ELSE AddTo(r, ids \ r.ids)

\* AgentBase::moveAssign(): ids are the groupIds() of the agent received.
MoveAssign(r, ids) ==
  LET s == IF ids \subseteq r.ids THEN r ELSE AddTo(r, ids \ r.ids)
  IN  RemoveFrom(s, r.ids \ ids)

-----------------------------------------------------------------------------
(* Callbacks of the graph *)

\* InsertAgentNodeCallback, for the insertion of a node.
InsertNode(ids) == Insert(WithIds(Absent, ids), ids)

\* SetAgentLocalCallback
SetLocal(r) == Schedule(WithState(r, "LOCAL"), r.groups)

\* Mutant of SetDistant: tasks are not unscheduled.
SetDistantOnly(r) == WithState(r, "DISTANT")

\* SetAgentDistantCallback
SetDistant(r) == Unschedule(WithState(r, "DISTANT"), r.groups)

\* EraseAgentNodeCallback; then the node and its agent are deleted.
EraseNode(r) == WithState(WithIds(RemoveFrom(r, r.groups), {}), "ABSENT")

\* importNode()
ImportNode(r, ids) ==
  IF r.state = "ABSENT" THEN SetLocal(InsertNode(ids)) ELSE SetLocal(MoveAssign(r, ids))

-----------------------------------------------------------------------------
(* Operations *)

Is(p, a, s) == rep[p][a].state = s

\* A new agent is added to a first group.
Create(p) ==
  /\ \E a \in fresh, g \in Group :
       /\ rep' = [rep EXCEPT ![p][a] = SetLocal(InsertNode({g}))]
       /\ fresh' = fresh \ {a}
  /\ synced' = FALSE
  /\ UNCHANGED removed

\* add() of an agent that belongs to other groups.
Add(p) ==
  /\ \E a \in Agent, g \in Group :
       /\ Is(p, a, "LOCAL") /\ rep[p][a].groups # {} /\ g \notin rep[p][a].groups
       /\ rep' = [rep EXCEPT ![p][a] = AddTo(@, {g})]
  /\ synced' = FALSE
  /\ UNCHANGED <<fresh, removed>>

\* Mutant of RemoveNodes: the agents stay in the graph.
RemoveNoNodes(p, A) == removed' = removed

\* LOCAL agents of A that are in no group any more are removed from the graph.
RemoveNodes(p, A) ==
  removed' = removed \cup {a \in A : rep'[p][a].state = "LOCAL" /\ rep'[p][a].groups = {}}

\* remove() of a LOCAL agent
Remove(p) ==
  /\ \E a \in Agent, g \in Group :
       /\ Is(p, a, "LOCAL") /\ g \in rep[p][a].groups
       /\ rep' = [rep EXCEPT ![p][a] = RemoveFrom(@, {g})]
       /\ RemoveNodes(p, {a})
  /\ synced' = FALSE
  /\ UNCHANGED fresh

\* clear(): every agent of agents() is removed, LOCAL or DISTANT.
Clear(p) ==
  /\ \E g \in Group :
       LET A == {a \in Agent : g \in rep[p][a].members}
       IN  /\ A # {}
           /\ ClearGhosts \/ \A a \in A : Is(p, a, "DISTANT") => rep[p][a].groups # {g}
           /\ rep' = [rep EXCEPT ![p] = [a \in Agent |->
                IF a \in A THEN RemoveFrom(rep[p][a], {g}) ELSE rep[p][a]]]
           /\ RemoveNodes(p, A)
  /\ synced' = FALSE
  /\ UNCHANGED fresh

\* A DISTANT node is inserted, serialized by a process that has the agent.
ImportGhost(p) ==
  /\ \E q \in Rank : \E a \in Agent \ removed :
       /\ Is(p, a, "ABSENT") /\ ~Is(q, a, "ABSENT")
       /\ rep[q][a].ids # {}
       /\ rep' = [rep EXCEPT ![p][a] = SetDistant(InsertNode(rep[q][a].ids))]
  /\ synced' = FALSE
  /\ UNCHANGED <<fresh, removed>>

Owner(a) == CHOOSE p \in Rank : Is(p, a, "LOCAL")

\* synchronize(): removed agents are erased everywhere, any other DISTANT agent
\* may be cleared, and those that stay are updated from their owner.
Synchronize ==
  /\ \E cleared \in [Rank -> SUBSET Agent] :
       rep' = [p \in Rank |-> [a \in Agent |->
         LET r == rep[p][a]
         IN  IF r.state = "ABSENT" THEN r
             ELSE IF a \in removed THEN EraseNode(r)
             ELSE IF r.state = "LOCAL" THEN r
             ELSE IF a \in cleared[p] THEN EraseNode(r)
             ELSE MoveAssign(r, rep[Owner(a)][a].ids)]]
  /\ synced' = TRUE
  /\ UNCHANGED <<fresh, removed>>

\* distribute() and balance(), once removals are committed: each agent goes to the
\* process the partition gives; the process it leaves keeps it as DISTANT or clears
\* it; then DISTANT agents are updated from their new owner, which has the ids of
\* the old one.
Distribute ==
  /\ \A p \in Rank, a \in removed : Is(p, a, "ABSENT")
  /\ \E part \in [Agent \ fresh -> Rank], cleared \in SUBSET (Agent \ fresh) :
       rep' = [p \in Rank |-> [a \in Agent |->
         LET r == rep[p][a]
             ids == rep[Owner(a)][a].ids
         IN  IF \A q \in Rank : Is(q, a, "ABSENT") THEN r
             ELSE IF part[a] = p THEN IF r.state = "LOCAL" THEN r ELSE ImportNode(r, ids)
             ELSE IF r.state = "LOCAL" THEN
               IF a \in cleared THEN EraseNode(SetDistant(r))
                                ELSE MoveAssign(SetDistant(r), ids)
             ELSE IF r.state = "DISTANT" THEN MoveAssign(r, ids)
             ELSE r]]
  /\ synced' = TRUE
  /\ UNCHANGED <<fresh, removed>>

Next ==
  \/ \E p \in Rank : Create(p) \/ Add(p) \/ Remove(p) \/ Clear(p) \/ ImportGhost(p)
  \/ Synchronize
  \/ Distribute

Spec == Init /\ [][Next]_vars

-----------------------------------------------------------------------------
(* Properties *)

(* Groups, ids, tasks and members agree: whatever sequence of additions,     *)
(* removals, imports and updates a process goes through, groupIds() of an    *)
(* agent lists the groups it is in, each of them has it in agents() and has  *)
(* a task for it, and nothing of an erased agent is left.                    *)
GroupsAgree ==
  \A p \in Rank, a \in Agent :
    LET r == rep[p][a]
    IN  /\ r.groups = r.ids /\ r.tasks = r.ids /\ r.members = r.ids
        /\ r.state = "ABSENT" => r.ids = {}

(* Agents are executed by their owner, once: the job of a group holds the    *)
(* task of an agent exactly once if the agent is LOCAL and in the group, and *)
(* not at all otherwise.  A task left in a job after its group has deleted   *)
(* it would be executed after it was freed; a ghost in a job would act on    *)
(* two processes.                                                            *)
ExecutedByOwner ==
  \A p \in Rank, a \in Agent, g \in Group :
    rep[p][a].jobs[g] =
      IF rep[p][a].state = "LOCAL" /\ g \in rep[p][a].groups THEN 1 ELSE 0

(* Ghosts follow their owner: when a collective call returns, a DISTANT      *)
(* agent is in the groups of its owner, also if these have changed while it  *)
(* was moving.                                                               *)
GhostGroups ==
  synced => \A p, q \in Rank, a \in Agent :
    Is(p, a, "DISTANT") /\ Is(q, a, "LOCAL") => rep[p][a].groups = rep[q][a].groups

(* Agents do not vanish: one that has been created and is not removed has    *)
(* exactly one owner and belongs to a group there.                           *)
AgentsKept ==
  \A a \in Agent \ (fresh \cup removed) :
    \E p \in Rank : /\ Is(p, a, "LOCAL") /\ rep[p][a].groups # {}
                    /\ \A q \in Rank \ {p} : ~Is(q, a, "LOCAL")
=============================================================================
