----------------------------- MODULE GhostGraph -----------------------------
(***************************************************************************)
(* DistributedGraph in GhostMode: the graph of each process                *)
(* (graph/distributed_graph.h, graph/graph.h), its LocationManager         *)
(* (graph/location_manager.h) and the GhostSyncLinker and GhostDataSync    *)
(* that synchronise it with the others (synchro/ghost/ghost_mode.h).       *)
(*                                                                         *)
(* Between two collective calls, synchronize() or distribute(), a process  *)
(* changes only its own graph and buffers.  A collective call is cut at    *)
(* each of its migrate() operations, which every process enters before any *)
(* leaves: between two of them the processes work on their own state, so   *)
(* one step of the model does the work of all of them.                     *)
(*                                                                         *)
(* Node and edge ids are used once (node_id++, edge_id++).  Data is the    *)
(* number of times the process hosting the node has written it.            *)
(***************************************************************************)
EXTENDS Integers, FiniteSets

CONSTANTS N,               \* number of processes
          Node, Edge,      \* ids of nodes and edges
          Origin,          \* process that builds each node, DistributedId::rank()
          Source, Target,  \* end nodes of each edge
          MaxOps,          \* bound: operations between two collective calls
          MaxData,         \* bound: writes of one node
          Allow            \* usages the operations may fall into, see below

Rank == 0 .. N-1

(* "REMOVE_TWICE": two processes remove a node in one period;              *)
(* "LINK_REMOVED": a link, not committed yet, to a node its host removes;  *)
(* "DISTRIBUTE_REMOVED": distribute() while node removals are pending;     *)
(* "DISTANT_ENTRIES": partitions with entries for DISTANT nodes;           *)
(* "DUMP_PENDING": a breakpoint while links or removals are pending;       *)
(* "MOVE_LOADED": the first distribute() after a breakpoint is loaded      *)
(*   moves a node away from a process that is not its origin.              *)
Usage == {"REMOVE_TWICE", "LINK_REMOVED", "DISTRIBUTE_REMOVED", "DISTANT_ENTRIES",
          "DUMP_PENDING", "MOVE_LOADED"}

ASSUME GhostAssumption ==
  /\ N \in Nat \ {0}
  /\ Origin \in [Node -> Rank]
  /\ Source \in [Edge -> Node] /\ Target \in [Edge -> Node]
  /\ MaxOps \in Nat /\ MaxData \in Nat
  /\ Allow \subseteq Usage

VARIABLES
  phase,      \* where all the processes are in the collective call
  call,       \* the last collective call
  ops,        \* operations since the last collective call
  fresh,      \* nodes and edges that do not exist yet
  state,      \* state of each node in the graph of each process
  location,   \* DistributedNode::location(), meaningful if the node is there
  edgeState,  \* state of each edge in the graph of each process
  data,       \* data of each node on each process
  managed,    \* managed_nodes_locations: location known by the node's origin
  newLocal,   \* new_local_nodes of each LocationManager
  linkBuffer, unlinkMigration, \* buffers of each GhostSyncLinker
  toClear,    \* edges_to_clear of each GhostSyncLinker
  toRemove,   \* nodes each process has called removeNode() for
  exported,   \* exported_nodes of each _distribute()
  live,       \* the nodes of the graph, as the operations define it
  linked      \* the edges of the graph, as the operations define it

graphVars == <<state, location, edgeState, data>>
locationVars == <<managed, newLocal>>
linkerVars == <<linkBuffer, unlinkMigration, toClear, toRemove>>
idealVars == <<fresh, live, linked>>
vars == <<phase, call, ops, graphVars, locationVars, linkerVars, exported, idealVars>>

TypeOK ==
  /\ phase \in {"working", "links", "removals", "unlinks", "clear", "export",
                "locations", "data", "failed"}
  /\ call \in {"none", "synchronize", "distribute"}
  /\ ops \in 0 .. MaxOps
  /\ fresh \subseteq Node \cup Edge
  /\ state \in [Rank -> [Node -> {"ABSENT", "LOCAL", "DISTANT"}]]
  /\ location \in [Rank -> [Node -> Rank]]
  /\ edgeState \in [Rank -> [Edge -> {"ABSENT", "LOCAL", "DISTANT"}]]
  /\ data \in [Rank -> [Node -> 0 .. MaxData]]
  /\ managed \in [Node -> Rank]
  /\ newLocal \in [Rank -> SUBSET Node]
  /\ linkBuffer \in [Rank -> SUBSET Edge]
  /\ unlinkMigration \in [Rank -> SUBSET (Rank \X Edge)]
  /\ toClear \in [Rank -> SUBSET Edge]
  /\ toRemove \in [Rank -> SUBSET Node]
  /\ exported \in [Rank -> SUBSET Node]
  /\ live \subseteq Node /\ linked \subseteq Edge

Init ==
  /\ phase = "working" /\ call = "none" /\ ops = 0
  /\ fresh = Node \cup Edge
  /\ state = [p \in Rank |-> [n \in Node |-> "ABSENT"]]
  /\ location = [p \in Rank |-> [n \in Node |-> p]]
  /\ edgeState = [p \in Rank |-> [e \in Edge |-> "ABSENT"]]
  /\ data = [p \in Rank |-> [n \in Node |-> 0]]
  /\ managed = Origin
  /\ newLocal = [p \in Rank |-> {}]
  /\ linkBuffer = [p \in Rank |-> {}]
  /\ unlinkMigration = [p \in Rank |-> {}]
  /\ toClear = [p \in Rank |-> {}]
  /\ toRemove = [p \in Rank |-> {}]
  /\ exported = [p \in Rank |-> {}]
  /\ live = {} /\ linked = {}

Ends(e) == {Source[e], Target[e]}
EdgesOf(S) == {e \in Edge : Ends(e) \cap S # {}}
In(p, s) == {n \in Node : state[p][n] = s}
Graph(p) == {n \in Node : state[p][n] # "ABSENT"}
GraphEdges(p) == {e \in Edge : edgeState[p][e] # "ABSENT"}

-----------------------------------------------------------------------------
(* Operations of one process *)

Operation ==
  /\ phase = "working"
  /\ ops < MaxOps
  /\ ops' = ops + 1
  /\ UNCHANGED <<phase, call, managed, toClear, exported>>

\* Usage "LINK_REMOVED": an edge of buffers B has an end that its host removes.
LinksRemoved(B, R) ==
  \E p, q \in Rank : \E e \in B[p] : \E n \in Ends(e) :
    state[q][n] = "LOCAL" /\ n \in R[q]

\* buildNode()
BuildNode(p) ==
  /\ Operation
  /\ \E n \in Node \cap fresh :
       /\ Origin[n] = p
       /\ state' = [state EXCEPT ![p][n] = "LOCAL"]
       /\ location' = [location EXCEPT ![p][n] = p]
       /\ newLocal' = [newLocal EXCEPT ![p] = @ \cup {n}]
       /\ fresh' = fresh \ {n}
       /\ live' = live \cup {n}
  /\ UNCHANGED <<edgeState, data, linkBuffer, unlinkMigration, toRemove, linked>>

\* Mutant of InsertDistant: the location is left uninitialised.
InsertDistantNowhere(p) ==
  /\ Operation
  /\ \E n \in live \ Graph(p) :
       /\ state' = [state EXCEPT ![p][n] = "DISTANT"]
       /\ location' = [location EXCEPT ![p][n] = -1]
  /\ UNCHANGED <<edgeState, data, newLocal, linkBuffer, unlinkMigration, toRemove, idealVars>>

\* insertDistant() of a temporary node that the caller knows the location of.
InsertDistant(p) ==
  /\ Operation
  /\ \E q \in Rank \ {p} : \E n \in In(q, "LOCAL") :
       /\ state[p][n] = "ABSENT"
       /\ \A r \in Rank : n \notin toRemove[r]
       /\ state' = [state EXCEPT ![p][n] = "DISTANT"]
       /\ location' = [location EXCEPT ![p][n] = q]
       /\ data' = [data EXCEPT ![p][n] = 0]
  /\ UNCHANGED <<edgeState, newLocal, linkBuffer, unlinkMigration, toRemove, idealVars>>

\* link()
Link(p) ==
  /\ Operation
  /\ \E e \in Edge \cap fresh :
       /\ Ends(e) \subseteq Graph(p)
       /\ fresh' = fresh \ {e}
       /\ linked' = IF Ends(e) \subseteq live THEN linked \cup {e} ELSE linked
       /\ IF Ends(e) \subseteq In(p, "LOCAL")
            THEN /\ edgeState' = [edgeState EXCEPT ![p][e] = "LOCAL"]
                 /\ UNCHANGED linkBuffer
            ELSE /\ edgeState' = [edgeState EXCEPT ![p][e] = "DISTANT"]
                 /\ linkBuffer' = [linkBuffer EXCEPT ![p] = @ \cup {e}]
  /\ "LINK_REMOVED" \in Allow \/ ~LinksRemoved(linkBuffer', toRemove)
  /\ UNCHANGED <<state, location, data, newLocal, unlinkMigration, toRemove, live>>

\* Mutant of UnlinkMessages: only the host of the source is told.
UnlinkMessagesToSource(p, E) ==
  {<<location[p][Source[e]], e>> : e \in
     {d \in E : state[p][Source[d]] = "DISTANT"}}

\* GhostSyncLinker::unlink() of the edges E of process p: what is added to its
\* unlink_migration.
UnlinkMessages(p, E) ==
  {m \in Rank \X E : /\ edgeState[p][m[2]] = "DISTANT"
                     /\ \E n \in Ends(m[2]) : state[p][n] = "DISTANT" /\ location[p][n] = m[1]}

EraseEdges(p, E) ==
  [e \in Edge |-> IF e \in E THEN "ABSENT" ELSE edgeState[p][e]]

\* Mutant of Unlink: the edge stays in the link buffer.
UnlinkBuffered(p) ==
  /\ Operation
  /\ \E e \in GraphEdges(p) :
       /\ edgeState' = [edgeState EXCEPT ![p] = EraseEdges(p, {e})]
       /\ unlinkMigration' =
            [unlinkMigration EXCEPT ![p] = @ \cup UnlinkMessages(p, {e})]
       /\ linked' = linked \ {e}
  /\ UNCHANGED <<state, location, data, newLocal, linkBuffer, toRemove, fresh, live>>

\* unlink()
Unlink(p) ==
  /\ Operation
  /\ \E e \in GraphEdges(p) :
       /\ edgeState' = [edgeState EXCEPT ![p] = EraseEdges(p, {e})]
       /\ linkBuffer' = [linkBuffer EXCEPT ![p] = @ \ {e}]
       /\ unlinkMigration' =
            [unlinkMigration EXCEPT ![p] = @ \cup UnlinkMessages(p, {e})]
       /\ linked' = linked \ {e}
  /\ UNCHANGED <<state, location, data, newLocal, toRemove, fresh, live>>

\* removeNode()
RemoveNode(p) ==
  /\ Operation
  /\ \E n \in Graph(p) \ toRemove[p] :
       LET E == IF state[p][n] = "LOCAL" THEN GraphEdges(p) \cap EdgesOf({n})
                                         ELSE {}
       IN  /\ "REMOVE_TWICE" \in Allow \/ \A r \in Rank : n \notin toRemove[r]
           /\ toRemove' = [toRemove EXCEPT ![p] = @ \cup {n}]
           /\ edgeState' = [edgeState EXCEPT ![p] = EraseEdges(p, E)]
           /\ linkBuffer' = [linkBuffer EXCEPT ![p] = @ \ E]
           /\ unlinkMigration' =
                [unlinkMigration EXCEPT ![p] = @ \cup UnlinkMessages(p, E)]
           /\ live' = live \ {n}
           /\ linked' = linked \ EdgesOf({n})
  /\ "LINK_REMOVED" \in Allow \/ ~LinksRemoved(linkBuffer', toRemove')
  /\ UNCHANGED <<state, location, data, newLocal, fresh>>

\* The tasks of a process write the data of its LOCAL nodes.
Write(p) ==
  /\ Operation
  /\ \E n \in In(p, "LOCAL") :
       /\ data[p][n] < MaxData
       /\ data' = [data EXCEPT ![p][n] = @ + 1]
  /\ UNCHANGED <<state, location, edgeState, newLocal, linkBuffer,
                 unlinkMigration, toRemove, idealVars>>

-----------------------------------------------------------------------------
(* importEdge() and clearNode(), on every process *)

\* importEdge(): the state of an edge that was in state old, and whether both
\* its ends are LOCAL now.
ImportedState(old, bothLocal) ==
  IF bothLocal THEN "LOCAL" ELSE IF old = "ABSENT" THEN "DISTANT" ELSE old

\* Mutant of SetDistant: exported nodes stay as they are.
SetDistantNot(isExported, s) == s

\* setDistant() of the exported nodes, for them and their edges.
SetDistant(isExported, s) == IF isExported THEN "DISTANT" ELSE s

\* Process q imports the edges imp[q][r] of each sender r, once it has the nodes
\* st[q] at locations loc[q], then sets the nodes exp[q] DISTANT.
\* An end node that is missing is inserted as DISTANT, with the location the
\* sender knows and default data.
ImportEdges(st, loc, dat, imp, exp) ==
  LET imported(q, e) == \E r \in Rank : e \in imp[q][r]
      from(q, n) == {r \in Rank : \E e \in imp[q][r] \ GraphEdges(q) : n \in Ends(e)}
      missing(q) == {n \in Node : st[q][n] = "ABSENT" /\ from(q, n) # {}}
      bothLocal(q, e) == \A n \in Ends(e) : st[q][n] = "LOCAL"
  IN  /\ state' = [q \in Rank |-> [n \in Node |->
           IF n \in missing(q) THEN "DISTANT"
                               ELSE SetDistant(n \in exp[q], st[q][n])]]
      /\ location' = [q \in Rank |-> [n \in Node |->
           IF n \in missing(q) THEN location[CHOOSE r \in from(q, n) : TRUE][n]
                               ELSE loc[q][n]]]
      /\ data' = [q \in Rank |-> [n \in Node |->
           IF n \in missing(q) THEN 0 ELSE dat[q][n]]]
      /\ edgeState' = [q \in Rank |-> [e \in Edge |->
           IF imported(q, e)
             THEN SetDistant(Ends(e) \cap exp[q] # {},
                             ImportedState(edgeState[q][e], bothLocal(q, e)))
           ELSE IF e \in GraphEdges(q)
             THEN SetDistant(Ends(e) \cap exp[q] # {}, edgeState[q][e])
           ELSE "ABSENT"]]

\* clearNode() on the DISTANT nodes C[p] of each process p: a node that has no
\* LOCAL neighbour is erased, an edge between DISTANT nodes too.
ClearNodes(C) ==
  LET kept(p, n) == \E e \in GraphEdges(p) :
                      n \in Ends(e) /\ Ends(e) \cap In(p, "LOCAL") # {}
      obsolete(p) == {e \in EdgesOf(C[p]) : Ends(e) \cap In(p, "LOCAL") = {}}
  IN  /\ state' = [p \in Rank |-> [n \in Node |->
           IF n \in C[p] /\ ~kept(p, n) THEN "ABSENT" ELSE state[p][n]]]
      /\ edgeState' = [p \in Rank |-> EraseEdges(p, obsolete(p))]

-----------------------------------------------------------------------------
(* Collective calls *)

Synchronize ==
  /\ phase = "working"
  /\ phase' = "links" /\ call' = "synchronize" /\ ops' = 0
  /\ UNCHANGED <<graphVars, locationVars, linkerVars, exported, idealVars>>

\* distribute() and balance()
Distribute ==
  /\ phase = "working"
  /\ "DISTRIBUTE_REMOVED" \in Allow \/ \A p \in Rank : toRemove[p] = {}
  /\ phase' = "links" /\ call' = "distribute" /\ ops' = 0
  /\ UNCHANGED <<graphVars, locationVars, linkerVars, exported, idealVars>>

\* GhostSyncLinker::synchronize(), links: an edge is sent to the hosts of its
\* DISTANT ends.
MigrateLinks ==
  /\ phase = "links"
  /\ phase' = "removals"
  /\ ImportEdges(state, location, data, [q \in Rank |-> [r \in Rank |->
       {e \in linkBuffer[r] :
          \E n \in Ends(e) : state[r][n] = "DISTANT" /\ location[r][n] = q}]],
       [q \in Rank |-> {}])
  /\ toClear' = [p \in Rank |->
       {e \in linkBuffer[p] : Ends(e) \subseteq In(p, "DISTANT")}]
  /\ linkBuffer' = [p \in Rank |-> {}]
  /\ UNCHANGED <<call, ops, locationVars, unlinkMigration, toRemove, exported, idealVars>>

\* Processes that ask q to remove its node n.
Removers(q, n) ==
  {r \in Rank : n \in toRemove[r] /\ state[r][n] = "DISTANT" /\ location[r][n] = q}

\* Removals: the host unlinks the edges of the nodes it is asked to remove.  A
\* node it does not have makes getNode() throw.
MigrateRemovals ==
  /\ phase = "removals"
  /\ LET asked(q) == {n \in Node : Removers(q, n) # {}}
         E(q) == GraphEdges(q) \cap EdgesOf(asked(q))
     IN  /\ phase' = IF \A q \in Rank : asked(q) \subseteq Graph(q)
                       THEN "unlinks" ELSE "failed"
         /\ edgeState' = [q \in Rank |-> EraseEdges(q, E(q))]
         /\ unlinkMigration' = [q \in Rank |->
              unlinkMigration[q] \cup UnlinkMessages(q, E(q))]
  /\ UNCHANGED <<call, ops, state, location, data, locationVars, linkBuffer,
                 toClear, toRemove, exported, idealVars>>

\* Unlinks, then the edges to clear and the nodes to remove are erased.  Erasing
\* what has been erased already is a use after free.
MigrateUnlinks ==
  /\ phase = "unlinks"
  /\ LET unlinked(q) == {e \in Edge : \E r \in Rank : <<q, e>> \in unlinkMigration[r]}
         calls(q, n) == Removers(q, n) \cup {r \in {q} : n \in toRemove[q]}
         twice(q, n) == \E r, s \in calls(q, n) : r # s
         gone(q) == {n \in Node : calls(q, n) # {}}
     IN  /\ state' = [q \in Rank |-> [n \in Node |->
              IF n \in gone(q) THEN "ABSENT" ELSE state[q][n]]]
         /\ edgeState' = [q \in Rank |->
              EraseEdges(q, unlinked(q) \cup toClear[q] \cup EdgesOf(gone(q)))]
         /\ phase' =
              IF \E q \in Rank :
                   \/ \E n \in Node : twice(q, n)
                   \/ ~(toClear[q] \subseteq GraphEdges(q) \ unlinked(q))
                THEN "failed"
              ELSE IF call = "synchronize" THEN "clear" ELSE "export"
  /\ unlinkMigration' = [q \in Rank |-> {}]
  /\ toClear' = [q \in Rank |-> {}]
  /\ toRemove' = [q \in Rank |-> {}]
  /\ UNCHANGED <<call, ops, location, data, locationVars, linkBuffer, exported, idealVars>>

\* Mutant of ClearDistantNodes: nothing is cleared.
ClearNothing ==
  /\ phase = "clear"
  /\ phase' = "data"
  /\ UNCHANGED <<call, ops, graphVars, locationVars, linkerVars, exported, idealVars>>

\* clearDistantNodes()
ClearDistantNodes ==
  /\ phase = "clear"
  /\ phase' = "data"
  /\ ClearNodes([p \in Rank |-> In(p, "DISTANT")])
  /\ UNCHANGED <<call, ops, location, data, locationVars, linkerVars, exported, idealVars>>

\* Mutant of MigratedData: a node that is already there keeps its data.
MigratedDataKept(p, q, n) ==
  IF state[q][n] = "ABSENT" THEN data[p][n] ELSE data[q][n]

\* importNode() on q: the data of a node sent by p replaces what q has.
MigratedData(p, q, n) == data[p][n]

\* _distribute() up to setDistant(): the nodes of the partition that go to other
\* processes are exported, with their edges.  A process that imports a node from
\* several others keeps the data of the last one.
Export ==
  /\ phase = "export"
  /\ phase' = "locations"
  /\ \E part \in [Node -> Rank] :
       LET entries(p) == IF "DISTANT_ENTRIES" \in Allow THEN Graph(p)
                                                        ELSE In(p, "LOCAL")
           exports(p) == {n \in entries(p) : part[n] # p}
           senders(n) == {p \in Rank : n \in exports(p)}
           imports(q) == {n \in Node : senders(n) # {} /\ part[n] = q}
           imp == [q \in Rank |-> [p \in Rank |->
             {e \in GraphEdges(p) : Ends(e) \cap exports(p) \cap imports(q) # {}}]]
           st == [q \in Rank |-> [n \in Node |->
             IF n \in imports(q) THEN "LOCAL" ELSE state[q][n]]]
           loc == [q \in Rank |-> [n \in Node |->
             IF n \in imports(q) THEN q ELSE location[q][n]]]
           dat(last) == [q \in Rank |-> [n \in Node |->
             IF n \in imports(q) THEN MigratedData(last[n], q, n) ELSE data[q][n]]]
       IN  /\ "MOVE_LOADED" \in Allow
              \/ \A p \in Rank : \A n \in exports(p) \cap newLocal[p] : Origin[n] = p
           /\ \E last \in [UNION {exports(p) : p \in Rank} -> Rank] :
                /\ \A n \in DOMAIN last : last[n] \in senders(n)
                /\ ImportEdges(st, loc, dat(last), imp, [p \in Rank |-> exports(p)])
           /\ newLocal' = [q \in Rank |-> newLocal[q] \cup imports(q)]
           /\ exported' = [p \in Rank |-> exports(p)]
  /\ UNCHANGED <<call, ops, managed, linkerVars, idealVars>>

\* Mutant of Located: the origins are not asked.
LocatedByOrigin(p, n) == IF Origin[n] = p THEN managed'[n] ELSE location[p][n]

\* The location that process p is told for its DISTANT node n.
Located(p, n) == managed'[n]

\* The location of n its origin may know once the processes have reported the
\* nodes of their new_local_nodes: a report of another process comes after its
\* own, and reports of several processes in any order.
NewLocation(n) ==
  LET hosts == {q \in Rank : n \in newLocal[q]}
      others == hosts \ {Origin[n]}
  IN  IF others # {} THEN others
      ELSE IF hosts # {} THEN {Origin[n]} ELSE {managed[n]}

\* updateLocations(): the origin of each node learns where it is LOCAL now, and
\* tells it to the processes where it is DISTANT; then the exported nodes are
\* cleared.
UpdateLocations ==
  /\ phase = "locations"
  /\ phase' = "data"
  /\ managed' \in {m \in [Node -> Rank] : \A n \in Node : m[n] \in NewLocation(n)}
  /\ location' = [p \in Rank |-> [n \in Node |->
       IF state[p][n] = "DISTANT" THEN Located(p, n) ELSE location[p][n]]]
  /\ newLocal' = [p \in Rank |-> {}]
  /\ ClearNodes(exported)
  /\ exported' = [p \in Rank |-> {}]
  /\ UNCHANGED <<call, ops, data, linkerVars, idealVars>>

\* Mutant of SynchronizeData: data is fetched in distribute() only.
SynchronizeInDistribute ==
  /\ phase = "data"
  /\ phase' = "working"
  /\ data' = [p \in Rank |-> [n \in Node |->
       IF state[p][n] = "DISTANT" /\ call = "distribute"
         THEN data[location[p][n]][n] ELSE data[p][n]]]
  /\ UNCHANGED <<call, ops, state, location, edgeState, locationVars, linkerVars,
                 exported, idealVars>>

\* GhostDataSync::synchronize(): the data of DISTANT nodes is requested from their
\* locations, where getNode() throws if the node is not there.
SynchronizeData ==
  /\ phase = "data"
  /\ phase' = IF \A p \in Rank : \A n \in In(p, "DISTANT") : n \in Graph(location[p][n])
                THEN "working" ELSE "failed"
  /\ data' = [p \in Rank |-> [n \in Node |->
       IF state[p][n] = "DISTANT" THEN data[location[p][n]][n] ELSE data[p][n]]]
  /\ UNCHANGED <<call, ops, state, location, edgeState, locationVars, linkerVars,
                 exported, idealVars>>

-----------------------------------------------------------------------------
(* Breakpoints *)

\* Processes that have dumped their graphs are stopped, and load them into empty
\* graphs.  What happened after the dump is lost, so that dump and load are one
\* step: nodes are inserted with the location that was saved, LOCAL where it is
\* the rank of the process, and edges are imported; the buffers of the linker are
\* not saved.
Restart ==
  /\ phase = "working"
  /\ "DUMP_PENDING" \in Allow \/ ops = 0
  /\ ops' = 0
  /\ state' = [p \in Rank |-> [n \in Node |->
       IF n \notin Graph(p) THEN "ABSENT"
       ELSE IF location[p][n] = p THEN "LOCAL" ELSE "DISTANT"]]
  /\ edgeState' = [p \in Rank |-> [e \in Edge |->
       IF e \notin GraphEdges(p) THEN "ABSENT"
       ELSE ImportedState("ABSENT", \A n \in Ends(e) : state'[p][n] = "LOCAL")]]
  /\ newLocal' = [p \in Rank |-> {n \in Node : state'[p][n] = "LOCAL"}]
  /\ linkBuffer' = [p \in Rank |-> {}]
  /\ unlinkMigration' = [p \in Rank |-> {}]
  /\ toRemove' = [p \in Rank |-> {}]
  /\ UNCHANGED <<phase, call, location, data, managed, toClear, exported, idealVars>>

-----------------------------------------------------------------------------
Process(p) ==
  BuildNode(p) \/ InsertDistant(p) \/ Link(p) \/ Unlink(p) \/ RemoveNode(p) \/ Write(p)

Collective ==
  \/ MigrateLinks \/ MigrateRemovals \/ MigrateUnlinks \/ ClearDistantNodes
  \/ Export \/ UpdateLocations \/ SynchronizeData

Next ==
  (\E p \in Rank : Process(p)) \/ Synchronize \/ Distribute \/ Collective \/ Restart

Spec == Init /\ [][Next]_vars

-----------------------------------------------------------------------------
(* Properties *)

\* A collective call has just returned.
Returned == phase = "working" /\ ops = 0

(* Every node has one owner: a live node is LOCAL on exactly one process at  *)
(* each point where processes can observe it, however imports, exports and   *)
(* removals cross (importNode, setDistant).                                  *)
OneOwner ==
  \A n \in live : \E p \in Rank :
    state[p][n] = "LOCAL" /\ \A q \in Rank \ {p} : state[q][n] # "LOCAL"

(* Nodes are looked for where they are: the location that a process knows   *)
(* for a DISTANT node, and the one its origin has in managed_nodes_locations, *)
(* is the process that owns the node, except between the exports of         *)
(* _distribute() and updateLocations().                                     *)
LocationsCorrect ==
  phase # "locations" => \A n \in live :
    /\ state[managed[n]][n] = "LOCAL"
    /\ \A p \in Rank : state[p][n] = "DISTANT" => state[location[p][n]][n] = "LOCAL"

(* All processes agree on the edges: when a collective call returns, each   *)
(* process has exactly the edges of the graph that one of its LOCAL nodes   *)
(* is an end of, whatever was linked, unlinked and removed concurrently;    *)
(* and at any time an edge is LOCAL exactly if both its ends are, which     *)
(* link(), importEdge() and setDistant() maintain and which decides what is *)
(* sent to others.                                                          *)
EdgesAgree ==
  /\ Returned => \A p \in Rank :
       GraphEdges(p) = linked \cap EdgesOf(In(p, "LOCAL"))
  /\ \A p \in Rank : \A e \in GraphEdges(p) :
       /\ Ends(e) \subseteq Graph(p)
       /\ edgeState[p][e] = "LOCAL" <=> Ends(e) \subseteq In(p, "LOCAL")

(* Removed nodes are gone and nothing useless is kept: once synchronize()    *)
(* has cleared the graph, a DISTANT node of a process is live and linked to  *)
(* one of its LOCAL nodes, and a LOCAL node is live.                         *)
RemovedEverywhere ==
  call = "synchronize" /\ (phase = "data" \/ Returned) =>
    \A p \in Rank :
      /\ Graph(p) \subseteq live
      /\ \A n \in In(p, "DISTANT") : \E e \in GraphEdges(p) :
           n \in Ends(e) /\ Ends(e) \cap In(p, "LOCAL") # {}

(* Ghosts are up to date: when a collective call returns, the data of a     *)
(* DISTANT node is the data of its owner.                                    *)
GhostsFresh ==
  Returned => \A p, q \in Rank : \A n \in In(p, "DISTANT") \cap In(q, "LOCAL") :
    data[p][n] = data[q][n]

(* No write is lost: the data of a node on its owner never goes back to an   *)
(* older value, in particular not when the node moves (importNode).         *)
DataNeverRegresses ==
  [][\A n \in live \cap live' : \A p, q \in Rank :
       state[p][n] = "LOCAL" /\ state'[q][n] = "LOCAL" => data'[q][n] >= data[p][n]]_vars

(* No process looks up a node that is not there or erases one twice in a    *)
(* collective call.                                                          *)
NoFailure == phase # "failed"
=============================================================================
