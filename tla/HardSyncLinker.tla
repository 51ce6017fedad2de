--------------------------- MODULE HardSyncLinker ---------------------------
(***************************************************************************)
(* link(), unlink() and removeNode() of a DistributedGraph in hard mode:   *)
(* HardSyncLinker, LinkClient and LinkServer                               *)
(* (synchro/hard/hard_sync_linker.h) on the graphs of the processes.       *)
(*                                                                         *)
(* A process is one thread.  Whenever an operation waits for the reception *)
(* of its requests (ServerPack::waitSendRequest) it serves the requests of *)
(* the others, and serving a REMOVE_NODE is an operation that waits, too:  *)
(* each process has a stack of operations, and only the last one goes on.  *)
(* Tasks serve requests as well, in the mutex operations they perform: the *)
(* shared locks that link() and removeNode() take wait for nobody as long  *)
(* as nothing is locked exclusively, and are left out.                     *)
(*                                                                         *)
(* terminate() is the barrier that Termination implements when a process   *)
(* only removes its own nodes and those of processes of lower rank.  Two   *)
(* barriers follow each other in synchronize(), with only local work       *)
(* between them: one step does the work of all the processes.              *)
(***************************************************************************)
EXTENDS Integers, Sequences, FiniteSets

CONSTANTS N,               \* number of processes
          Node, Edge,      \* ids of nodes and edges
          Host,            \* location of each node: nothing is distributed here
          Source, Target,  \* end nodes of each edge
          First,           \* edges linked before the first period
          MaxOps,          \* bound: operations of each process in a period
          Allow            \* usages the tasks may fall into, see below

Rank == 0 .. N-1

(* "LINK_RACE": an edge is unlinked, or one of its ends removed, while the *)
(*   process that links it is still waiting;                               *)
(* "LINK_REMOVED": a node is linked after another task removed it;         *)
(* "REMOVE_TWICE": two processes remove a node in one period;              *)
(* "REMOVE_NESTED": a node is removed while its host unlinks an edge of    *)
(*   it, or removes another of its nodes that is linked to it;             *)
(* "UNLINK_GHOST": a process unlinks an edge between two DISTANT nodes     *)
(*   that it linked in the same period.                                    *)
Usage == {"LINK_RACE", "LINK_REMOVED", "REMOVE_TWICE", "REMOVE_NESTED",
          "UNLINK_GHOST"}

ASSUME LinkerAssumption ==
  /\ N \in Nat \ {0}
  /\ Host \in [Node -> Rank]
  /\ Source \in [Edge -> Node] /\ Target \in [Edge -> Node]
  /\ First \subseteq Edge
  /\ MaxOps \in [Rank -> Nat]
  /\ Allow \subseteq Usage

VARIABLES
  pc,          \* "working" (tasks) or "terminating" (in terminate())
  left,        \* operations each process may still start in its period
  stack,       \* operations of each process, the last one running
  sent,        \* requests posted (Issend) and not received yet
  nodes,       \* nodes of the graph of each process
  edges,       \* edges of the graph of each process
  ghostEdges,  \* ghost_edges of each HardSyncLinker
  toRemove,    \* nodes_to_remove of each HardSyncLinker
  failed,      \* a process has used an object that it had deleted
  fresh,       \* edges that do not exist yet
  live,        \* the nodes of the graph, as the operations define it
  linked       \* the edges of the graph, as the operations define it

linkerVars == <<ghostEdges, toRemove>>
idealVars == <<fresh, live, linked>>
vars == <<pc, left, stack, sent, nodes, edges, linkerVars, failed, idealVars>>

Ends(e) == {Source[e], Target[e]}
Hosts(e) == {Host[n] : n \in Ends(e)}

\* The edge is LOCAL on p, or both its ends are DISTANT.
IsLocal(p, e) == Hosts(e) = {p}
IsGhost(p, e) == p \notin Hosts(e)

\* An operation: on an edge for link() and unlink(), on a node for removeNode().
\* Removing a LOCAL node, todo are the edges of the current loop still to unlink.
Frame(op, id, loop, todo) == [op |-> op, id |-> id, loop |-> loop, todo |-> todo]

Request == [from: Rank, to: Rank, tag: {"LINK", "UNLINK", "REMOVE_NODE"},
            id: Edge \cup Node]

TypeOK ==
  /\ pc \in [Rank -> {"working", "terminating"}]
  /\ \A p \in Rank : left[p] \in 0 .. MaxOps[p]
  /\ \A p \in Rank : \A i \in DOMAIN stack[p] :
       stack[p][i] \in
         [op: {"LINK", "UNLINK"}, id: Edge, loop: {"none"}, todo: {{}}] \cup
         [op: {"REMOVE_NODE"}, id: Node, loop: {"none"}, todo: {{}}] \cup
         [op: {"REMOVE_LOCAL"}, id: Node, loop: {"out", "in"}, todo: SUBSET Edge]
  /\ sent \subseteq Request
  /\ nodes \in [Rank -> SUBSET Node] /\ edges \in [Rank -> SUBSET Edge]
  /\ ghostEdges \in [Rank -> SUBSET Edge]
  /\ \A p \in Rank : \A i \in DOMAIN toRemove[p] : toRemove[p][i] \in Node
  /\ failed \in BOOLEAN
  /\ fresh \subseteq Edge /\ live \subseteq Node /\ linked \subseteq Edge

Init ==
  /\ pc = [p \in Rank |-> "working"]
  /\ left = MaxOps
  /\ stack = [p \in Rank |-> <<>>]
  /\ sent = {}
  /\ edges = [p \in Rank |-> {e \in First : p \in Hosts(e)}]
  /\ nodes = [p \in Rank |->
       {n \in Node : Host[n] = p \/ \E e \in edges[p] : n \in Ends(e)}]
  /\ ghostEdges = [p \in Rank |-> {}]
  /\ toRemove = [p \in Rank |-> <<>>]
  /\ failed = FALSE
  /\ fresh = Edge \ First /\ live = Node /\ linked = First

-----------------------------------------------------------------------------
(* The stack of a process *)

Frames(p) == {stack[p][i] : i \in DOMAIN stack[p]}
Top(p) == stack[p][Len(stack[p])]
Below(p) == SubSeq(stack[p], 1, Len(stack[p]) - 1)

\* Edges p is linking: already in the lists of their ends, not in the graph yet.
Linking(p) == {f.id : f \in {g \in Frames(p) : g.op = "LINK"}}

\* locked_unlink_edges and locked_remove_nodes of the LinkServer of p.
LockedUnlink(p) == {f.id : f \in {g \in Frames(p) : g.op = "UNLINK"}}
LockedRemoveNode(p) == {f.id : f \in {g \in Frames(p) : g.op = "REMOVE_LOCAL"}}

\* p runs operation op, and the requests it posted have been received.
Runs(p, op) ==
  /\ ~failed
  /\ stack[p] # <<>>
  /\ Top(p).op = op
  /\ \A m \in sent : ~(m.from = p /\ m.tag = op /\ m.id = Top(p).id)

\* Mutant of Posts: one request, though the ends are on two other processes.
PostsOnce(p, tag, id, T) ==
  {[from |-> p, to |-> CHOOSE q \in T : TRUE, tag |-> tag, id |-> id]}

\* The requests that p posts to the processes T.
Posts(p, tag, id, T) ==
  {[from |-> p, to |-> q, tag |-> tag, id |-> id] : q \in T}

\* Graph::erase(EdgeType*): p had better have the edge, and not be linking it.
Erase(p, e) ==
  /\ edges' = [edges EXCEPT ![p] = @ \ {e}]
  /\ failed' = (e \notin edges[p])

OutEdges(p, n) == {e \in edges[p] \cup Linking(p) : Source[e] = n}
InEdges(p, n) == {e \in edges[p] \cup Linking(p) : Target[e] = n}

\* Mutant of RemoveLocal: one loop on a list of all the edges.
RemoveLocalAtOnce(p, n) ==
  Frame("REMOVE_LOCAL", n, "none", OutEdges(p, n) \cup InEdges(p, n))

\* HardSyncLinker::removeNode() on a LOCAL node n: lockRemoveNode(), and the
\* list of the outgoing edges.
RemoveLocal(p, n) == Frame("REMOVE_LOCAL", n, "out", OutEdges(p, n))

-----------------------------------------------------------------------------
(* The tasks call link(), unlink() and removeNode() *)

Task(p) ==
  /\ ~failed
  /\ pc[p] = "working"
  /\ stack[p] = <<>>
  /\ left[p] > 0
  /\ left' = [left EXCEPT ![p] = @ - 1]

\* Edges that some process is still linking.
InProgress == UNION {Linking(p) : p \in Rank}

\* Nodes of p that are being removed, or that p is asked to remove.
Removing(p) ==
  LockedRemoveNode(p) \cup
  {m.id : m \in {r \in sent : r.to = p /\ r.tag = "REMOVE_NODE"}}

\* DistributedGraph::link(), up to the wait.
Link(p) ==
  /\ Task(p)
  /\ \E e \in fresh :
       /\ Ends(e) \subseteq nodes[p]
       /\ "LINK_REMOVED" \in Allow \/ Ends(e) \subseteq live
       /\ fresh' = fresh \ {e}
       /\ linked' = IF Ends(e) \subseteq live THEN linked \cup {e} ELSE linked
       /\ IF IsLocal(p, e)
            THEN /\ edges' = [edges EXCEPT ![p] = @ \cup {e}]
                 /\ UNCHANGED <<stack, sent>>
            ELSE /\ stack' = [stack EXCEPT ![p] = <<Frame("LINK", e, "none", {})>>]
                 /\ sent' = sent \cup Posts(p, "LINK", e, Hosts(e) \ {p})
                 /\ UNCHANGED edges
  /\ UNCHANGED <<pc, nodes, linkerVars, failed, live>>

\* DistributedGraph::unlink(), up to the wait.
Unlink(p) ==
  /\ Task(p)
  /\ \E e \in edges[p] :
       /\ "LINK_RACE" \in Allow \/ e \notin InProgress
       /\ "UNLINK_GHOST" \in Allow \/ e \notin ghostEdges[p]
       /\ "REMOVE_NESTED" \in Allow \/ Ends(e) \cap Removing(p) = {}
       /\ linked' = linked \ {e}
       /\ IF IsLocal(p, e)
            THEN /\ edges' = [edges EXCEPT ![p] = @ \ {e}]
                 /\ UNCHANGED <<stack, sent>>
            ELSE /\ stack' = [stack EXCEPT ![p] = <<Frame("UNLINK", e, "none", {})>>]
                 /\ sent' = sent \cup Posts(p, "UNLINK", e, Hosts(e) \ {p})
                 /\ UNCHANGED edges
  /\ UNCHANGED <<pc, nodes, linkerVars, failed, fresh, live>>

\* DistributedGraph::removeNode(), up to the first wait.
RemoveNode(p) ==
  /\ Task(p)
  /\ \E n \in nodes[p] :
       /\ p >= Host[n]
       /\ "REMOVE_TWICE" \in Allow \/ n \in live
       /\ "LINK_RACE" \in Allow \/ \A e \in InProgress : n \notin Ends(e)
       /\ "REMOVE_NESTED" \in Allow \/
            LET h == Host[n]
            IN  /\ \A e \in LockedUnlink(h) : n \notin Ends(e)
                /\ \A e \in edges[h] : n \in Ends(e) =>
                     Ends(e) \cap Removing(h) = {}
       /\ live' = live \ {n}
       /\ linked' = {e \in linked : n \notin Ends(e)}
       /\ IF Host[n] = p
            THEN /\ stack' = [stack EXCEPT ![p] = <<RemoveLocal(p, n)>>]
                 /\ UNCHANGED sent
            ELSE /\ stack' = [stack EXCEPT ![p] = <<Frame("REMOVE_NODE", n, "none", {})>>]
                 /\ sent' = sent \cup Posts(p, "REMOVE_NODE", n, {Host[n]})
  /\ UNCHANGED <<pc, nodes, edges, linkerVars, failed, fresh>>

-----------------------------------------------------------------------------
(* The last operation goes on *)

\* HardSyncLinker::link() returns and the edge is inserted.
EndLink(p) ==
  /\ Runs(p, "LINK")
  /\ LET e == Top(p).id
     IN  /\ edges' = [edges EXCEPT ![p] = @ \cup {e}]
         /\ ghostEdges' = IF IsGhost(p, e)
                            THEN [ghostEdges EXCEPT ![p] = @ \cup {e}] ELSE ghostEdges
  /\ stack' = [stack EXCEPT ![p] = Below(p)]
  /\ UNCHANGED <<pc, left, sent, nodes, toRemove, failed, idealVars>>

\* HardSyncLinker::unlink() returns and the edge is erased.
EndUnlink(p) ==
  /\ Runs(p, "UNLINK")
  /\ Erase(p, Top(p).id)
  /\ stack' = [stack EXCEPT ![p] = Below(p)]
  /\ UNCHANGED <<pc, left, sent, nodes, linkerVars, idealVars>>

\* registerNodeToRemove()
Register(p, n) == toRemove' = [toRemove EXCEPT ![p] = Append(@, n)]

\* LinkClient::removeNode() returns.
EndRemoveNode(p) ==
  /\ Runs(p, "REMOVE_NODE")
  /\ Register(p, Top(p).id)
  /\ stack' = [stack EXCEPT ![p] = Below(p)]
  /\ UNCHANGED <<pc, left, sent, nodes, edges, ghostEdges, failed, idealVars>>

\* The loops of HardSyncLinker::removeNode() unlink the next edge.
UnlinkNext(p) ==
  /\ Runs(p, "REMOVE_LOCAL")
  /\ \E e \in Top(p).todo :
       LET rest == [Top(p) EXCEPT !.todo = @ \ {e}]
       IN  IF e \notin edges[p] \cup Linking(p) \/ IsLocal(p, e)
             THEN /\ Erase(p, e)
                  /\ stack' = [stack EXCEPT ![p] = Append(Below(p), rest)]
                  /\ UNCHANGED sent
             ELSE /\ stack' = [stack EXCEPT ![p] =
                       Below(p) \o <<rest, Frame("UNLINK", e, "none", {})>>]
                  /\ sent' = sent \cup Posts(p, "UNLINK", e, Hosts(e) \ {p})
                  /\ UNCHANGED <<edges, failed>>
  /\ UNCHANGED <<pc, left, nodes, linkerVars, idealVars>>

\* They go on with the incoming edges, then unlockRemoveNode().
EndLoop(p) ==
  /\ Runs(p, "REMOVE_LOCAL")
  /\ Top(p).todo = {}
  /\ LET n == Top(p).id
     IN  IF Top(p).loop = "out"
           THEN /\ stack' = [stack EXCEPT ![p] = Append(Below(p),
                     Frame("REMOVE_LOCAL", n, "in", InEdges(p, n)))]
                /\ UNCHANGED toRemove
           ELSE /\ stack' = [stack EXCEPT ![p] = Below(p)]
                /\ Register(p, n)
  /\ UNCHANGED <<pc, left, sent, nodes, edges, ghostEdges, failed, idealVars>>

-----------------------------------------------------------------------------
(* LinkServer::handleIncomingRequests() *)

\* Mutant of Receives: requests are served in terminate() only.
ReceivesInTermination(p, tag, m) ==
  /\ ~failed
  /\ pc[p] = "terminating"
  /\ m.to = p
  /\ m.tag = tag
  /\ sent' = sent \ {m}

\* The LinkServer of p receives request m: its sender has waited for that.
Receives(p, tag, m) ==
  /\ ~failed
  /\ m.to = p
  /\ m.tag = tag
  /\ sent' = sent \ {m}

\* DistributedGraph::importEdge(): missing ends are inserted as DISTANT nodes.
HandleLink(p) ==
  /\ \E m \in sent :
       /\ Receives(p, "LINK", m)
       /\ edges' = [edges EXCEPT ![p] = @ \cup {m.id}]
       /\ nodes' = [nodes EXCEPT ![p] = @ \cup Ends(m.id)]
  /\ UNCHANGED <<pc, left, stack, linkerVars, failed, idealVars>>

\* Mutant of MayUnlink: the edges of a node being removed are erased, too.
MayUnlinkRemoved(p, e) ==
  /\ e \notin LockedUnlink(p)
  /\ e \in edges[p]

\* The request is for an edge that is not the business of an operation of p.
MayUnlink(p, e) ==
  /\ e \notin LockedUnlink(p)
  /\ e \in edges[p]
  /\ Ends(e) \cap LockedRemoveNode(p) = {}

HandleUnlink(p) ==
  /\ \E m \in sent :
       /\ Receives(p, "UNLINK", m)
       /\ edges' = IF MayUnlink(p, m.id)
                     THEN [edges EXCEPT ![p] = @ \ {m.id}] ELSE edges
  /\ UNCHANGED <<pc, left, stack, nodes, linkerVars, failed, idealVars>>

\* graph.removeNode(graph.getNode(id)): getNode() throws if p has not the node.
HandleRemoveNode(p) ==
  /\ \E m \in sent :
       /\ Receives(p, "REMOVE_NODE", m)
       /\ failed' = (m.id \notin nodes[p])
       /\ stack' = [stack EXCEPT ![p] = Append(@, RemoveLocal(p, m.id))]
  /\ UNCHANGED <<pc, left, nodes, edges, linkerVars, idealVars>>

-----------------------------------------------------------------------------
(* DistributedGraph::synchronize() *)

\* HardSyncLinker::synchronize() erases the ghost edges, then terminate().
EnterTermination(p) ==
  /\ ~failed
  /\ pc[p] = "working"
  /\ stack[p] = <<>>
  /\ pc' = [pc EXCEPT ![p] = "terminating"]
  /\ edges' = [edges EXCEPT ![p] = @ \ ghostEdges[p]]
  /\ failed' = ~(ghostEdges[p] \subseteq edges[p])
  /\ ghostEdges' = [ghostEdges EXCEPT ![p] = {}]
  /\ UNCHANGED <<left, stack, sent, nodes, toRemove, idealVars>>

\* Mutant of Clear: DISTANT nodes stay.
ClearNothing(p, V, E) == V

\* clearDistantNodes(): the DISTANT nodes among V that the edges E do not link
\* to a node of p go, and so do the edges between DISTANT nodes.
Clear(p, V, E) ==
  {n \in V : \/ Host[n] = p
             \/ \E e \in E : n \in Ends(e) /\ ~IsGhost(p, e)}

\* terminate() returns: the registered nodes are erased with their edges, the
\* same one twice if it was registered twice, and DISTANT nodes are cleared.
Synchronize ==
  /\ ~failed
  /\ sent = {}
  /\ \A p \in Rank : pc[p] = "terminating" /\ stack[p] = <<>>
  /\ LET gone(p) == {toRemove[p][i] : i \in DOMAIN toRemove[p]}
         E(p) == {e \in edges[p] : Ends(e) \cap gone(p) = {}}
     IN  /\ nodes' = [p \in Rank |-> Clear(p, nodes[p] \ gone(p), E(p))]
         /\ edges' = [p \in Rank |-> {e \in E(p) : ~IsGhost(p, e)}]
         /\ failed' = \E p \in Rank : \E i, j \in DOMAIN toRemove[p] :
                        i # j /\ toRemove[p][i] = toRemove[p][j]
  /\ toRemove' = [p \in Rank |-> <<>>]
  /\ pc' = [p \in Rank |-> "working"]
  /\ left' = MaxOps
  /\ UNCHANGED <<stack, sent, ghostEdges, idealVars>>

-----------------------------------------------------------------------------
Continue(p) ==
  \/ EndLink(p) \/ EndUnlink(p) \/ EndRemoveNode(p) \/ UnlinkNext(p) \/ EndLoop(p)

Serve(p) == HandleLink(p) \/ HandleUnlink(p) \/ HandleRemoveNode(p)

Next ==
  \/ Synchronize
  \/ \E p \in Rank :
       \/ Link(p) \/ Unlink(p) \/ RemoveNode(p)
       \/ Continue(p) \/ Serve(p) \/ EnterTermination(p)

(* Each process keeps running: it serves requests while it waits, goes on  *)
(* when it need not wait any more, and its tasks end.                      *)
Fairness ==
  /\ WF_vars(Synchronize)
  /\ \A p \in Rank : /\ WF_vars(Continue(p) \/ EnterTermination(p))
                     /\ WF_vars(Serve(p))

Spec == Init /\ [][Next]_vars
FairSpec == Spec /\ Fairness

-----------------------------------------------------------------------------
(* Properties *)

(* Locks and lists protect the operations from each other: no edge is      *)
(* erased by a request that p serves while an operation of p waits with a  *)
(* pointer to it, no node is erased twice and none is looked up where it   *)
(* is not.                                                                 *)
NoFailure == ~failed

(* Links are global as soon as they return: when no operation is in        *)
(* progress, the hosts of the ends of an edge have it exactly if it was    *)
(* linked, and neither it nor an end of it has been removed since;         *)
(* elsewhere there are only the ghost edges of the current period.         *)
LinksAgree ==
  sent = {} /\ (\A p \in Rank : stack[p] = <<>>) =>
    \A p \in Rank :
      /\ \A e \in Edge : p \in Hosts(e) => (e \in edges[p] <=> e \in linked)
      /\ \A e \in edges[p] : p \in Hosts(e) \/ e \in ghostEdges[p]

(* A removed node is gone everywhere when synchronize() returns, and a     *)
(* process that has a LOCAL neighbour of a node has the node.              *)
NodesAgree ==
  (\A p \in Rank : pc[p] = "working" /\ left[p] = MaxOps[p]) =>
    \A p \in Rank :
      nodes[p] = {n \in live : \/ Host[n] = p
                               \/ \E e \in linked : p \in Hosts(e) /\ n \in Ends(e)}

(* No deadlock among operations that wait for each other's processes, and  *)
(* synchronize() returns: every process starts a new period again and      *)
(* again.                                                                  *)
PeriodsComplete ==
  \A p \in Rank : []<>(pc[p] = "working") /\ []<>(pc[p] = "terminating")
=============================================================================
