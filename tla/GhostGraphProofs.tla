-------------------------- MODULE GhostGraphProofs --------------------------
(***************************************************************************)
(* Proofs about GhostGraph, for any number of processes, any nodes and     *)
(* edges and any bounds, as long as the operations keep out of the usages  *)
(* that Allow may add.                                                     *)
(*                                                                         *)
(* A node is known from buildNode() until the removal that removeNode()    *)
(* asked for is done. A known node has one host, where it is LOCAL, and    *)
(* the others find it there. An edge is on the process that linked it,     *)
(* then on the hosts of its ends; when it is unlinked on one of them,      *)
(* or an end is removed, a message tells the other.                        *)
(***************************************************************************)
EXTENDS GhostGraph, TLAPS

-----------------------------------------------------------------------------
(* The inductive invariant: nodes *)

IsPending(n) == \E p \in Rank : n \in toRemove[p]
IsKnown(n) == n \in live \/ IsPending(n)

IsLocal(p, n) == state[p][n] = "LOCAL"
IsDistant(p, n) == state[p][n] = "DISTANT"
Present(p, n) == state[p][n] # "ABSENT"

FreshNodes ==
  \A n \in Node \cap fresh :
    /\ ~IsKnown(n) /\ managed[n] = Origin[n]
    /\ \A p \in Rank : ~Present(p, n) /\ n \notin newLocal[p]

\* One host at most, that knows it is.
LocalOnce ==
  /\ \A n \in Node : \A p, q \in Rank : IsLocal(p, n) /\ IsLocal(q, n) => p = q
  /\ \A n \in Node : \A p \in Rank : IsLocal(p, n) => location[p][n] = p

KnownHosted == \A n \in Node : IsKnown(n) => \E p \in Rank : IsLocal(p, n)

\* Nodes that have been removed are gone once DISTANT nodes have been cleared.
PresentKnown ==
  \A p \in Rank : \A n \in Node :
    Present(p, n) /\ (phase # "clear" \/ IsLocal(p, n)) => IsKnown(n)

Removals ==
  /\ \A n \in live : ~IsPending(n)
  /\ \A p \in Rank : \A n \in toRemove[p] : Present(p, n)
  /\ \A p, q \in Rank : \A n \in Node : n \in toRemove[p] /\ n \in toRemove[q] => p = q

DistantLocated ==
  phase # "locations" =>
    \A n \in Node : \A p \in Rank :
      IsKnown(n) /\ IsDistant(p, n) => IsLocal(location[p][n], n)

\* What the origins know: the nodes of new_local_nodes are LOCAL there, or were,
\* on their origin, until they went to a process that has them there, too.
OriginsKnow ==
  \A n \in live :
    /\ phase # "locations" => IsLocal(managed[n], n)
    /\ \A q \in Rank : n \in newLocal[q] =>
         \/ IsLocal(q, n)
         \/ /\ phase = "locations" /\ q = Origin[n]
            /\ \E p \in Rank : IsLocal(p, n) /\ n \in newLocal[p]
    /\ phase = "locations" /\ (\A q \in Rank : n \notin newLocal[q]) => IsLocal(managed[n], n)

ExportedDistant ==
  \A p \in Rank : \A n \in exported[p] : IsDistant(p, n)

NodesInv ==
  /\ FreshNodes /\ LocalOnce /\ KnownHosted /\ PresentKnown
  /\ Removals /\ DistantLocated /\ OriginsKnow /\ ExportedDistant

\* When the buffers are empty, and what the phases are about.
Buffers ==
  /\ phase # "failed"
  /\ phase \notin {"working", "links"} \/ Returned => \A p \in Rank : linkBuffer[p] = {}
  /\ phase \notin {"working", "links", "removals", "unlinks"} \/ Returned =>
       \A p \in Rank : unlinkMigration[p] = {} /\ toRemove[p] = {}
  /\ phase \notin {"removals", "unlinks"} => \A p \in Rank : toClear[p] = {}
  /\ phase # "locations" => \A p \in Rank : exported[p] = {}
  /\ phase # "working" /\ call = "distribute" => \A p \in Rank : toRemove[p] = {}
  /\ phase # "working" => call # "none"
  /\ phase = "clear" => call = "synchronize"
  /\ phase \in {"export", "locations"} => call = "distribute"

-----------------------------------------------------------------------------
(* The inductive invariant: edges *)

HasEdge(p, e) == edgeState[p][e] # "ABSENT"

\* p hosts an end of e.
HostsEnd(p, e) == \E n \in Ends(e) : IsLocal(p, n)

Told(p, e) == \E r \in Rank : <<p, e>> \in unlinkMigration[r]

EdgeStates ==
  \A p \in Rank : \A e \in Edge : HasEdge(p, e) =>
    /\ \A n \in Ends(e) : Present(p, n)
    /\ edgeState[p][e] = "LOCAL" <=> \A n \in Ends(e) : IsLocal(p, n)

FreshEdges ==
  \A e \in Edge \cap fresh :
    /\ e \notin linked
    /\ \A p \in Rank : ~HasEdge(p, e) /\ e \notin linkBuffer[p] /\ ~Told(p, e)

\* An edge to commit is only on the process that links it.
Buffered ==
  \A p \in Rank : \A e \in linkBuffer[p] :
    /\ HasEdge(p, e) /\ \A q \in Rank \ {p} : ~HasEdge(q, e)
    /\ \A q \in Rank : ~Told(q, e)

LinkedLive == \A e \in linked : \A n \in Ends(e) : n \in live

\* Only edges to erase, on hosts of their ends, are in the unlink messages.
Messages ==
  \A p \in Rank : \A e \in Edge : Told(p, e) => e \notin linked /\ HostsEnd(p, e)

\* An edge is on the hosts of its ends, except ...
OnHosts ==
  \A p \in Rank : \A e \in Edge : HasEdge(p, e) =>
    \/ HostsEnd(p, e)
    \/ e \in linkBuffer[p] \cup toClear[p]
    \/ \E n \in Ends(e) : n \in exported[p]

LinkedOnHosts ==
  \A e \in linked : \A q \in Rank : HostsEnd(q, e) =>
    HasEdge(q, e) \/ \E p \in Rank : e \in linkBuffer[p]

\* An edge that is not linked any more is about to be erased.
UnlinkedErased ==
  \A p \in Rank : \A e \in Edge \ linked : HasEdge(p, e) =>
    Told(p, e) \/ \E n \in Ends(e) : IsPending(n)

\* A host that has no more an edge has told the other host.
HostsTold ==
  \A p, q \in Rank : \A e \in Edge :
    /\ p # q /\ HasEdge(p, e) /\ e \notin linkBuffer[p]
    /\ HostsEnd(p, e)
    => /\ phase # "unlinks" /\ HostsEnd(q, e) =>
            HasEdge(q, e) \/ <<p, e>> \in unlinkMigration[q]
       /\ phase = "unlinks" /\ (\E n \in Ends(e) : IsPending(n) /\ IsLocal(q, n)) =>
            <<p, e>> \in unlinkMigration[q]

\* A process keeps no edge to others of a node of its own that it removes.
RemovedUnlinked ==
  /\ \A p \in Rank : \A n \in toRemove[p] : IsLocal(p, n) =>
       \A e \in Edge : HasEdge(p, e) /\ n \in Ends(e) => \A m \in Ends(e) : IsLocal(p, m)
  /\ \A p, q \in Rank : \A e \in linkBuffer[p] : \A n \in Ends(e) :
       ~(IsLocal(q, n) /\ n \in toRemove[q])

ToClearInv ==
  \A p \in Rank : \A e \in toClear[p] : HasEdge(p, e) /\ ~HostsEnd(p, e)

\* A DISTANT node is kept for an edge.
DistantLinked ==
  call = "synchronize" /\ (phase = "data" \/ Returned) =>
    \A p \in Rank : \A n \in Node : IsDistant(p, n) =>
      \E e \in Edge : HasEdge(p, e) /\ n \in Ends(e) /\ HostsEnd(p, e)

EdgesInv ==
  /\ EdgeStates /\ FreshEdges /\ Buffered /\ LinkedLive /\ Messages /\ OnHosts
  /\ LinkedOnHosts /\ UnlinkedErased /\ HostsTold /\ RemovedUnlinked
  /\ ToClearInv /\ DistantLinked

IInv == TypeOK /\ NodesInv /\ Buffers /\ EdgesInv /\ GhostsFresh


-----------------------------------------------------------------------------
(* Lemmas about the definitions *)

\* The ends of an edge are nodes.
LEMMA EndsAreNodes == \A e \in Edge : \A n \in Ends(e) : n \in Node
BY GhostAssumption DEF Ends

\* A node is ABSENT, LOCAL or DISTANT.
LEMMA NodeStates ==
  ASSUME TypeOK, NEW p \in Rank, NEW n \in Node, Present(p, n), ~IsLocal(p, n)
  PROVE IsDistant(p, n)
BY DEF TypeOK, Present, IsLocal, IsDistant

\* The parts of the invariant.
LEMMA Parts ==
  ASSUME IInv
  PROVE /\ TypeOK /\ FreshNodes /\ LocalOnce /\ KnownHosted /\ PresentKnown /\ Removals
        /\ DistantLocated /\ OriginsKnow /\ ExportedDistant /\ Buffers /\ EdgeStates
        /\ FreshEdges /\ Buffered /\ LinkedLive /\ Messages /\ OnHosts /\ LinkedOnHosts
        /\ UnlinkedErased /\ HostsTold /\ RemovedUnlinked /\ ToClearInv /\ DistantLinked
        /\ GhostsFresh
BY DEF IInv, NodesInv, EdgesInv

\* NodesInv is about the nodes, and two of the phases.
LEMMA NodesUnchanged ==
  ASSUME NodesInv,
         UNCHANGED <<fresh, state, location, managed, newLocal, toRemove, exported, live>>,
         (phase' = "clear") <=> (phase = "clear"),
         (phase' = "locations") <=> (phase = "locations")
  PROVE NodesInv'
<1>1. /\ FreshNodes /\ LocalOnce /\ KnownHosted /\ PresentKnown
      /\ Removals /\ DistantLocated /\ OriginsKnow /\ ExportedDistant
  BY DEF NodesInv
<1>2. FreshNodes'
  BY <1>1 DEF FreshNodes, IsKnown, IsPending, Present
<1>3. LocalOnce'
  BY <1>1 DEF LocalOnce, IsLocal
<1>4. KnownHosted'
  BY <1>1 DEF KnownHosted, IsKnown, IsPending, IsLocal
<1>5. PresentKnown'
  BY <1>1 DEF PresentKnown, IsKnown, IsPending, IsLocal, Present
<1>6. Removals'
  BY <1>1 DEF Removals, IsPending, Present
<1>7. DistantLocated'
  BY <1>1 DEF DistantLocated, IsKnown, IsPending, IsLocal, IsDistant
<1>8. OriginsKnow'
  BY <1>1 DEF OriginsKnow, IsLocal
<1>9. ExportedDistant'
  BY <1>1 DEF ExportedDistant, IsDistant
<1> QED
  BY <1>2, <1>3, <1>4, <1>5, <1>6, <1>7, <1>8, <1>9 DEF NodesInv

\* EdgesInv is about the graphs, the buffers, and one of the phases.
LEMMA EdgesUnchanged ==
  ASSUME TypeOK, EdgesInv, DistantLinked',
         UNCHANGED <<fresh, state, edgeState, linkBuffer, unlinkMigration, toClear,
                     toRemove, exported, live, linked>>,
         (phase' = "unlinks") <=> (phase = "unlinks")
  PROVE EdgesInv'
<1>1. /\ EdgeStates /\ FreshEdges /\ Buffered /\ LinkedLive /\ Messages /\ OnHosts
      /\ LinkedOnHosts /\ UnlinkedErased /\ HostsTold /\ RemovedUnlinked
      /\ ToClearInv
  BY DEF EdgesInv
<1>2. \A p \in Rank, e \in Edge :
               /\ HasEdge(p, e)' <=> HasEdge(p, e)
               /\ HostsEnd(p, e)' <=> HostsEnd(p, e)
               /\ Told(p, e)' <=> Told(p, e)
  BY DEF HasEdge, HostsEnd, Told, IsLocal
<1>3. \A p \in Rank, n \in Node :
               /\ IsLocal(p, n)' <=> IsLocal(p, n)
               /\ Present(p, n)' <=> Present(p, n)
               /\ IsPending(n)' <=> IsPending(n)
  BY DEF IsLocal, Present, IsPending
<1>4. EdgeStates'
  BY <1>1, <1>2, <1>3, EndsAreNodes DEF EdgeStates, TypeOK
<1>5. FreshEdges'
  BY <1>1, <1>2 DEF FreshEdges
<1>6. Buffered'
  BY <1>1, <1>2, EndsAreNodes DEF Buffered, TypeOK
<1>7. LinkedLive'
  BY <1>1 DEF LinkedLive
<1>8. Messages'
  BY <1>1, <1>2 DEF Messages
<1>9. OnHosts'
  BY <1>1, <1>2 DEF OnHosts
<1>10. LinkedOnHosts'
  BY <1>1, <1>2, EndsAreNodes DEF LinkedOnHosts, TypeOK
<1>11. UnlinkedErased'
  BY <1>1, <1>2, <1>3, EndsAreNodes DEF UnlinkedErased, TypeOK
<1>12. HostsTold'
  BY <1>1, <1>2, <1>3, EndsAreNodes DEF HostsTold, TypeOK
<1>13. RemovedUnlinked'
  BY <1>1, <1>2, <1>3, EndsAreNodes DEF RemovedUnlinked, TypeOK
<1>14. ToClearInv'
  BY <1>1, <1>2, EndsAreNodes DEF ToClearInv, TypeOK
<1> QED
  BY <1>4, <1>5, <1>6, <1>7, <1>8, <1>9, <1>10, <1>11, <1>12, <1>13, <1>14 DEF EdgesInv

-----------------------------------------------------------------------------
(* buildNode() *)

\* A node that is built is hosted where it is built, and its origin knows it.
LEMMA BuildNodeStep ==
  ASSUME IInv, NEW p \in Rank, BuildNode(p), Allow = {}
  PROVE IInv'
<1>1. PICK n \in Node \cap fresh :
        /\ Origin[n] = p
        /\ state' = [state EXCEPT ![p][n] = "LOCAL"]
        /\ location' = [location EXCEPT ![p][n] = p]
        /\ newLocal' = [newLocal EXCEPT ![p] = @ \cup {n}]
        /\ fresh' = fresh \ {n}
        /\ live' = live \cup {n}
  BY DEF BuildNode
<1>2. /\ Operation
      /\ UNCHANGED <<edgeState, data, linkBuffer, unlinkMigration, toRemove, linked>>
  BY DEF BuildNode
<1>3. /\ phase = "working" /\ ops < MaxOps /\ ops' = ops + 1 /\ phase' = phase
      /\ UNCHANGED <<call, managed, toClear, exported>>
  BY <1>2 DEF Operation
<1>4. TypeOK /\ NodesInv /\ Buffers /\ EdgesInv
  BY DEF IInv
<1>5. TypeOK'
  <2>1. /\ state' \in [Rank -> [Node -> {"ABSENT", "LOCAL", "DISTANT"}]]
        /\ location' \in [Rank -> [Node -> Rank]]
        /\ newLocal' \in [Rank -> SUBSET Node]
    BY <1>1, <1>4 DEF TypeOK
  <2>2. /\ fresh' \subseteq Node \cup Edge /\ live' \subseteq Node
        /\ ops' \in 0 .. MaxOps
    BY <1>1, <1>3, <1>4, GhostAssumption DEF TypeOK
  <2> QED
    BY <2>1, <2>2, <1>2, <1>3, <1>4 DEF TypeOK
<1>6. Buffers'
  BY <1>2, <1>3, <1>4, GhostAssumption DEF Buffers, Returned, TypeOK
<1>7. ~Returned'
  BY <1>3, <1>4, GhostAssumption DEF Returned, TypeOK
<1>8. GhostsFresh'
  BY <1>7 DEF GhostsFresh
<1>9. /\ FreshNodes /\ LocalOnce /\ KnownHosted /\ PresentKnown /\ Removals
      /\ DistantLocated /\ OriginsKnow /\ ExportedDistant
  BY <1>4 DEF NodesInv
<1>10. /\ IsLocal(p, n)' /\ Present(p, n)' /\ ~IsDistant(p, n)'
       /\ location'[p][n] = p
       /\ \A q \in Rank, m \in Node : ~(q = p /\ m = n) =>
            /\ IsLocal(q, m)' <=> IsLocal(q, m)
            /\ Present(q, m)' <=> Present(q, m)
            /\ IsDistant(q, m)' <=> IsDistant(q, m)
            /\ location'[q][m] = location[q][m]
  BY <1>1, <1>4 DEF TypeOK, IsLocal, IsDistant, Present
<1>11. /\ \A m \in Node : IsPending(m)' <=> IsPending(m)
       /\ \A m \in Node : IsKnown(m)' <=> IsKnown(m) \/ m = n
  BY <1>1, <1>2 DEF IsPending, IsKnown
<1>12. /\ ~IsKnown(n) /\ managed[n] = Origin[n]
       /\ \A q \in Rank : ~Present(q, n) /\ ~IsLocal(q, n) /\ ~IsDistant(q, n) /\ n \notin newLocal[q]
  BY <1>1, <1>9 DEF FreshNodes, IsLocal, IsDistant, Present
<1>13. /\ \A q \in Rank : ~(q = p) => newLocal'[q] = newLocal[q]
       /\ newLocal'[p] = newLocal[p] \cup {n}
  BY <1>1, <1>4 DEF TypeOK
<1>14. NodesInv'
  <2>1. FreshNodes'
    BY <1>1, <1>3, <1>9, <1>10, <1>11, <1>13 DEF FreshNodes
  <2>2. LocalOnce'
    BY <1>9, <1>10, <1>12 DEF LocalOnce
  <2>3. KnownHosted'
    BY <1>9, <1>10, <1>11 DEF KnownHosted
  <2>4. PresentKnown'
    BY <1>3, <1>9, <1>10, <1>11 DEF PresentKnown
  <2>5. Removals'
    BY <1>1, <1>2, <1>9, <1>10, <1>11, <1>12, <1>4 DEF Removals, TypeOK, IsKnown
  <2>6. DistantLocated'
    <3>1. SUFFICES ASSUME NEW m \in Node, NEW q \in Rank, IsKnown(m)', IsDistant(q, m)'
                   PROVE IsLocal(location[q][m], m)'
      BY DEF DistantLocated
    <3>2. m # n /\ IsKnown(m) /\ IsDistant(q, m)
      BY <3>1, <1>10, <1>11, <1>12
    <3>3. IsLocal(location[q][m], m) /\ location[q][m] \in Rank /\ location'[q][m] = location[q][m]
      BY <3>2, <1>3, <1>4, <1>9, <1>10 DEF DistantLocated, TypeOK
    <3> QED
      BY <3>2, <3>3, <1>1, <1>4 DEF IsLocal, TypeOK
  <2>7. OriginsKnow'
    BY <1>1, <1>3, <1>9, <1>10, <1>12, <1>13, <1>4, GhostAssumption DEF OriginsKnow, TypeOK
  <2>8. ExportedDistant'
    BY <1>3, <1>9, <1>10, <1>4 DEF ExportedDistant, TypeOK, Buffers
  <2> QED
    BY <2>1, <2>2, <2>3, <2>4, <2>5, <2>6, <2>7, <2>8 DEF NodesInv
<1>15. /\ EdgeStates /\ FreshEdges /\ Buffered /\ LinkedLive /\ Messages /\ OnHosts
       /\ LinkedOnHosts /\ UnlinkedErased /\ HostsTold /\ RemovedUnlinked
       /\ ToClearInv /\ DistantLinked
  BY <1>4 DEF EdgesInv
<1>16. \A e \in Edge, q \in Rank :
         /\ HasEdge(q, e)' <=> HasEdge(q, e)
         /\ Told(q, e)' <=> Told(q, e)
  BY <1>2 DEF HasEdge, Told
<1>17. \A e \in Edge : (\E q \in Rank : HasEdge(q, e)) \/ e \in linked => n \notin Ends(e)
  BY <1>12, <1>15, EndsAreNodes DEF EdgeStates, LinkedLive, IsKnown
<1>18. \A e \in Edge, q \in Rank :
         n \notin Ends(e) \/ HostsEnd(q, e) => (HostsEnd(q, e)' <=> HostsEnd(q, e))
  BY <1>10, EndsAreNodes DEF HostsEnd
<1>19. EdgesInv'
  <2>1. EdgeStates'
    BY <1>2, <1>10, <1>15, <1>16, <1>17, EndsAreNodes DEF EdgeStates
  <2>2. FreshEdges'
    BY <1>1, <1>2, <1>15, <1>16 DEF FreshEdges
  <2>3. Buffered'
    BY <1>2, <1>15, <1>16, <1>4 DEF Buffered, TypeOK
  <2>4. LinkedLive'
    BY <1>1, <1>2, <1>15 DEF LinkedLive
  <2>5. Messages'
    BY <1>2, <1>15, <1>16, <1>18 DEF Messages
  <2>6. OnHosts'
    BY <1>2, <1>3, <1>15, <1>16, <1>18 DEF OnHosts
  <2>7. LinkedOnHosts'
    BY <1>2, <1>15, <1>16, <1>17, <1>18, <1>4 DEF LinkedOnHosts, TypeOK
  <2>8. UnlinkedErased'
    BY <1>2, <1>11, <1>15, <1>16, EndsAreNodes DEF UnlinkedErased
  <2>9. HostsTold'
    BY <1>2, <1>3, <1>15, <1>16, <1>17, <1>18 DEF HostsTold
  <2>10. RemovedUnlinked'
    <3>1. \A q \in Rank : \A m \in toRemove[q] : m \in Node /\ m # n
      BY <1>4, <1>9, <1>12 DEF Removals, TypeOK
    <3>2. \A q \in Rank : \A e \in linkBuffer[q] : e \in Edge /\ n \notin Ends(e)
      BY <1>4, <1>15, <1>17 DEF Buffered, TypeOK
    <3>3. \A q \in Rank : \A m \in toRemove[q] : IsLocal(q, m)' <=> IsLocal(q, m)
      BY <3>1, <1>10
    <3>4. \A q \in Rank, e \in Edge : HasEdge(q, e)' =>
            \A m \in Ends(e) : IsLocal(q, m)' <=> IsLocal(q, m)
      BY <1>10, <1>16, <1>17, EndsAreNodes
    <3> QED
      BY <3>1, <3>2, <3>3, <3>4, <1>2, <1>15, <1>16 DEF RemovedUnlinked
  <2>11. ToClearInv'
    BY <1>2, <1>3, <1>15, <1>16, <1>17, <1>18, <1>4 DEF ToClearInv, TypeOK
  <2>12. DistantLinked'
    BY <1>3, <1>7 DEF DistantLinked
  <2> QED
    BY <2>1, <2>2, <2>3, <2>4, <2>5, <2>6, <2>7, <2>8, <2>9, <2>10, <2>11, <2>12 DEF EdgesInv
<1> QED
  BY <1>5, <1>6, <1>8, <1>14, <1>19 DEF IInv

-----------------------------------------------------------------------------
(* Steps that leave the graphs and the buffers alone *)

\* Between two collective calls, neither ghosts nor DISTANT nodes are promised
\* anything.
LEMMA OperationEnds ==
  ASSUME TypeOK, Operation
  PROVE /\ ~Returned' /\ GhostsFresh' /\ DistantLinked'
        /\ phase = "working" /\ phase' = "working" /\ ops' \in 0 .. MaxOps
<1>1. /\ ~Returned' /\ ops' \in 0 .. MaxOps /\ phase = "working" /\ phase' = "working"
  BY GhostAssumption DEF Operation, Returned, TypeOK
<1> QED
  BY <1>1 DEF GhostsFresh, DistantLinked

\* The ghosts of a node that is written are out of date until the next call.
LEMMA WriteStep ==
  ASSUME IInv, NEW p \in Rank, Write(p), Allow = {}
  PROVE IInv'
<1>1. /\ Operation
      /\ UNCHANGED <<state, location, edgeState, newLocal, linkBuffer, unlinkMigration,
                     toRemove, fresh, live, linked>>
      /\ UNCHANGED <<call, managed, toClear, exported>>
  BY DEF Write, Operation, idealVars
<1>2. TypeOK /\ Buffers
  BY DEF IInv
<1>3. data' \in [Rank -> [Node -> 0 .. MaxData]]
  <2>1. PICK n \in In(p, "LOCAL") :
          data[p][n] < MaxData /\ data' = [data EXCEPT ![p][n] = @ + 1]
    BY DEF Write
  <2>2. n \in Node /\ data[p][n] \in 0 .. MaxData /\ data[p][n] + 1 \in 0 .. MaxData
    BY <2>1, <1>2, GhostAssumption DEF TypeOK, In
  <2> QED
    BY <2>1, <2>2, <1>2 DEF TypeOK
<1>4. /\ ~Returned' /\ GhostsFresh' /\ DistantLinked'
      /\ phase = "working" /\ phase' = "working" /\ ops' \in 0 .. MaxOps
  BY <1>1, <1>2, OperationEnds
<1>5. TypeOK'
  BY <1>1, <1>2, <1>3, <1>4 DEF TypeOK
<1>6. Buffers'
  BY <1>1, <1>2, <1>4 DEF Buffers
<1>7. NodesInv'
  BY <1>1, <1>4, NodesUnchanged DEF IInv
<1>8. EdgesInv'
  BY <1>1, <1>4, EdgesUnchanged DEF IInv
<1> QED
  BY <1>4, <1>5, <1>6, <1>7, <1>8 DEF IInv

\* synchronize() and distribute()
LEMMA CallStep ==
  ASSUME IInv, Synchronize \/ Distribute, Allow = {}
  PROVE IInv'
<1>1. /\ phase = "working" /\ phase' = "links" /\ ops' = 0
      /\ call' \in {"synchronize", "distribute"}
      /\ call' = "distribute" => \A p \in Rank : toRemove[p] = {}
      /\ UNCHANGED <<state, location, edgeState, data, managed, newLocal, linkBuffer,
                     unlinkMigration, toClear, toRemove, exported, fresh, live, linked>>
  BY DEF Synchronize, Distribute, graphVars, locationVars, linkerVars, idealVars
<1>2. TypeOK /\ Buffers
  BY DEF IInv
<1>3. TypeOK'
  <2>1. 0 \in 0 .. MaxOps
    BY GhostAssumption
  <2> QED
    BY <2>1, <1>1, <1>2 DEF TypeOK
<1>4. Buffers'
  BY <1>1, <1>2 DEF Buffers, Returned
<1>5. NodesInv'
  BY <1>1, NodesUnchanged DEF IInv
<1>6. DistantLinked' /\ GhostsFresh'
  BY <1>1 DEF DistantLinked, GhostsFresh, Returned
<1>7. EdgesInv'
  BY <1>1, <1>6, EdgesUnchanged DEF IInv
<1> QED
  BY <1>3, <1>4, <1>5, <1>6, <1>7 DEF IInv

\* Nothing happens.
LEMMA Stutter ==
  ASSUME IInv, UNCHANGED vars
  PROVE IInv'
<1>1. UNCHANGED <<phase, call, ops, fresh, state, location, edgeState, data, managed, newLocal,
                  linkBuffer, unlinkMigration, toClear, toRemove, exported, live, linked>>
  BY DEF vars, graphVars, locationVars, linkerVars, idealVars
<1>2. TypeOK /\ Buffers /\ DistantLinked /\ GhostsFresh
  BY Parts
<1>3. TypeOK'
  BY <1>1, <1>2 DEF TypeOK
<1>4. Buffers'
  BY <1>1, <1>2 DEF Buffers, Returned
<1>5. NodesInv'
  BY <1>1, NodesUnchanged DEF IInv
<1>6. DistantLinked'
  BY <1>1, <1>2 DEF DistantLinked, Returned, IsDistant, HasEdge, HostsEnd, IsLocal
<1>7. GhostsFresh'
  BY <1>1, <1>2 DEF GhostsFresh, Returned, In
<1>8. EdgesInv'
  BY <1>1, <1>6, EdgesUnchanged DEF IInv
<1> QED
  BY <1>3, <1>4, <1>5, <1>6, <1>7, <1>8 DEF IInv

-----------------------------------------------------------------------------
(* insertDistant() *)

\* A temporary node is located on its host.
LEMMA InsertDistantStep ==
  ASSUME IInv, NEW p \in Rank, InsertDistant(p), Allow = {}
  PROVE IInv'
<1>1. PICK q \in Rank \ {p}, n \in Node :
        /\ state[q][n] = "LOCAL" /\ state[p][n] = "ABSENT"
        /\ state' = [state EXCEPT ![p][n] = "DISTANT"]
        /\ location' = [location EXCEPT ![p][n] = q]
        /\ data' = [data EXCEPT ![p][n] = 0]
  BY DEF InsertDistant, In
<1>2. /\ Operation
      /\ UNCHANGED <<edgeState, newLocal, linkBuffer, unlinkMigration, toRemove,
                     fresh, live, linked>>
      /\ UNCHANGED <<call, managed, toClear, exported>>
  BY DEF InsertDistant, Operation, idealVars
<1>3. /\ TypeOK /\ FreshNodes /\ LocalOnce /\ KnownHosted /\ PresentKnown /\ Removals
      /\ DistantLocated /\ OriginsKnow /\ ExportedDistant /\ Buffers /\ EdgeStates
      /\ FreshEdges /\ Buffered /\ LinkedLive /\ Messages /\ OnHosts /\ LinkedOnHosts
      /\ UnlinkedErased /\ HostsTold /\ RemovedUnlinked /\ ToClearInv
  BY Parts
<1>4. /\ ~Returned' /\ GhostsFresh' /\ DistantLinked'
      /\ phase = "working" /\ phase' = "working" /\ ops' \in 0 .. MaxOps
  BY <1>2, <1>3, OperationEnds
<1>5. n \in Node /\ IsLocal(q, n) /\ q # p
  BY <1>1 DEF IsLocal
<1>6. TypeOK'
  <2>1. /\ state' \in [Rank -> [Node -> {"ABSENT", "LOCAL", "DISTANT"}]]
        /\ location' \in [Rank -> [Node -> Rank]]
    BY <1>1, <1>3, <1>5 DEF TypeOK
  <2>2. data' \in [Rank -> [Node -> 0 .. MaxData]]
    <3>1. 0 \in 0 .. MaxData
      BY GhostAssumption
    <3> QED
      BY <3>1, <1>1, <1>3, <1>5 DEF TypeOK
  <2> QED
    BY <2>1, <2>2, <1>2, <1>3, <1>4 DEF TypeOK
<1>7. Buffers'
  BY <1>2, <1>3, <1>4 DEF Buffers
<1>8. /\ ~IsLocal(p, n)' /\ Present(p, n)' /\ IsDistant(p, n)'
      /\ ~IsLocal(p, n) /\ location'[p][n] = q
      /\ \A r \in Rank, m \in Node : ~(r = p /\ m = n) =>
           /\ IsLocal(r, m)' <=> IsLocal(r, m)
           /\ Present(r, m)' <=> Present(r, m)
           /\ IsDistant(r, m)' <=> IsDistant(r, m)
           /\ location'[r][m] = location[r][m]
  BY <1>1, <1>3, <1>5 DEF TypeOK, IsLocal, IsDistant, Present
<1>9. \A r \in Rank, m \in Node :
        /\ IsLocal(r, m)' <=> IsLocal(r, m)
        /\ Present(r, m) => Present(r, m)'
        /\ IsDistant(r, m) => IsDistant(r, m)'
  BY <1>5, <1>8, <1>1 DEF Present, IsDistant
<1>10. \A m \in Node : /\ IsPending(m)' <=> IsPending(m)
                       /\ IsKnown(m)' <=> IsKnown(m)
  BY <1>2 DEF IsPending, IsKnown
<1>11. IsKnown(n)
  BY <1>3, <1>4, <1>5 DEF PresentKnown, Present, IsLocal
<1>12. NodesInv'
  <2>1. FreshNodes'
    BY <1>2, <1>3, <1>8, <1>10, <1>11 DEF FreshNodes
  <2>2. LocalOnce'
    BY <1>3, <1>8, <1>9 DEF LocalOnce
  <2>3. KnownHosted'
    BY <1>3, <1>9, <1>10 DEF KnownHosted
  <2>4. PresentKnown'
    BY <1>3, <1>4, <1>8, <1>10, <1>11 DEF PresentKnown
  <2>5. Removals'
    BY <1>2, <1>3, <1>9, <1>10 DEF Removals, TypeOK
  <2>6. DistantLocated'
    <3>1. SUFFICES ASSUME NEW m \in Node, NEW r \in Rank, IsKnown(m)', IsDistant(r, m)'
                   PROVE IsLocal(location[r][m], m)'
      BY DEF DistantLocated
    <3>2. CASE r = p /\ m = n
      BY <3>2, <1>5, <1>8, <1>9 DEF IsLocal
    <3>3. CASE ~(r = p /\ m = n)
      <4>1. IsKnown(m) /\ IsDistant(r, m) /\ location'[r][m] = location[r][m]
        BY <3>1, <3>3, <1>8, <1>10
      <4>2. IsLocal(location[r][m], m) /\ location[r][m] \in Rank
        BY <4>1, <1>3, <1>4 DEF DistantLocated, TypeOK
      <4> QED
        BY <4>1, <4>2, <1>9 DEF IsLocal
    <3> QED
      BY <3>2, <3>3
  <2>7. OriginsKnow'
    BY <1>2, <1>3, <1>4, <1>9, GhostAssumption DEF OriginsKnow, TypeOK
  <2>8. ExportedDistant'
    BY <1>2, <1>3, <1>9 DEF ExportedDistant, TypeOK
  <2> QED
    BY <2>1, <2>2, <2>3, <2>4, <2>5, <2>6, <2>7, <2>8 DEF NodesInv
<1>13. \A e \in Edge, r \in Rank :
         /\ HasEdge(r, e)' <=> HasEdge(r, e)
         /\ Told(r, e)' <=> Told(r, e)
         /\ HostsEnd(r, e)' <=> HostsEnd(r, e)
  BY <1>2, <1>9, EndsAreNodes DEF HasEdge, Told, HostsEnd
<1>14. EdgesInv'
  <2>1. EdgeStates'
    BY <1>2, <1>3, <1>9, <1>13, EndsAreNodes DEF EdgeStates
  <2>2. FreshEdges'
    BY <1>2, <1>3, <1>13 DEF FreshEdges
  <2>3. Buffered'
    BY <1>2, <1>3, <1>13 DEF Buffered, TypeOK
  <2>4. LinkedLive'
    BY <1>2, <1>3 DEF LinkedLive
  <2>5. Messages'
    BY <1>2, <1>3, <1>13 DEF Messages
  <2>6. OnHosts'
    BY <1>2, <1>3, <1>13 DEF OnHosts
  <2>7. LinkedOnHosts'
    BY <1>2, <1>3, <1>13 DEF LinkedOnHosts, TypeOK
  <2>8. UnlinkedErased'
    BY <1>2, <1>3, <1>10, <1>13, EndsAreNodes DEF UnlinkedErased
  <2>9. HostsTold'
    BY <1>2, <1>3, <1>4, <1>13 DEF HostsTold
  <2>10. RemovedUnlinked'
    BY <1>2, <1>3, <1>9, <1>13, EndsAreNodes DEF RemovedUnlinked, TypeOK
  <2>11. ToClearInv'
    BY <1>2, <1>3, <1>13 DEF ToClearInv, TypeOK
  <2> QED
    BY <2>1, <2>2, <2>3, <2>4, <2>5, <2>6, <2>7, <2>8, <2>9, <2>10, <2>11, <1>4 DEF EdgesInv
<1> QED
  BY <1>4, <1>6, <1>7, <1>12, <1>14 DEF IInv

-----------------------------------------------------------------------------
(* link() *)

\* A new edge is on no other process and no message is about it.
LEMMA LinkStep ==
  ASSUME IInv, NEW p \in Rank, Link(p), Allow = {}
  PROVE IInv'
<1>1. PICK e \in Edge \cap fresh :
        /\ Ends(e) \subseteq Graph(p)
        /\ fresh' = fresh \ {e}
        /\ linked' = IF Ends(e) \subseteq live THEN linked \cup {e} ELSE linked
        /\ IF Ends(e) \subseteq In(p, "LOCAL")
             THEN /\ edgeState' = [edgeState EXCEPT ![p][e] = "LOCAL"]
                  /\ UNCHANGED linkBuffer
             ELSE /\ edgeState' = [edgeState EXCEPT ![p][e] = "DISTANT"]
                  /\ linkBuffer' = [linkBuffer EXCEPT ![p] = @ \cup {e}]
  BY DEF Link
<1>2. /\ Operation /\ ~LinksRemoved(linkBuffer', toRemove)
      /\ UNCHANGED <<state, location, data, newLocal, unlinkMigration, toRemove, live>>
      /\ UNCHANGED <<call, managed, toClear, exported>>
  BY DEF Link, Operation
<1>3. /\ TypeOK /\ FreshNodes /\ LocalOnce /\ KnownHosted /\ PresentKnown /\ Removals
      /\ DistantLocated /\ OriginsKnow /\ ExportedDistant /\ Buffers /\ EdgeStates
      /\ FreshEdges /\ Buffered /\ LinkedLive /\ Messages /\ OnHosts /\ LinkedOnHosts
      /\ UnlinkedErased /\ HostsTold /\ RemovedUnlinked /\ ToClearInv
  BY Parts
<1>4. /\ ~Returned' /\ GhostsFresh' /\ DistantLinked'
      /\ phase = "working" /\ phase' = "working" /\ ops' \in 0 .. MaxOps
  BY <1>2, <1>3, OperationEnds
<1>5. TypeOK'
  <2>1. /\ edgeState' \in [Rank -> [Edge -> {"ABSENT", "LOCAL", "DISTANT"}]]
        /\ linkBuffer' \in [Rank -> SUBSET Edge]
    <3>1. CASE Ends(e) \subseteq In(p, "LOCAL")
      <4>1. /\ edgeState' = [edgeState EXCEPT ![p][e] = "LOCAL"]
            /\ linkBuffer' = linkBuffer
        BY <3>1, <1>1
      <4> QED
        BY <4>1, <1>3 DEF TypeOK
    <3>2. CASE ~(Ends(e) \subseteq In(p, "LOCAL"))
      <4>1. /\ edgeState' = [edgeState EXCEPT ![p][e] = "DISTANT"]
            /\ linkBuffer' = [linkBuffer EXCEPT ![p] = @ \cup {e}]
        BY <3>2, <1>1
      <4> QED
        BY <4>1, <1>3 DEF TypeOK
    <3> QED
      BY <3>1, <3>2
  <2>2. /\ fresh' \subseteq Node \cup Edge
        /\ linked' \subseteq Edge
    BY <1>1, <1>3 DEF TypeOK
  <2> QED
    BY <2>1, <2>2, <1>2, <1>3, <1>4 DEF TypeOK
<1>6. Buffers'
  BY <1>2, <1>3, <1>4 DEF Buffers
<1>7. NodesInv'
  <2>1. FreshNodes'
    BY <1>1, <1>2, <1>3 DEF FreshNodes, IsKnown, IsPending, Present
  <2>2. LocalOnce'
    BY <1>2, <1>3 DEF LocalOnce, IsLocal
  <2>3. KnownHosted'
    BY <1>2, <1>3 DEF KnownHosted, IsKnown, IsPending, IsLocal
  <2>4. PresentKnown'
    BY <1>2, <1>3, <1>4 DEF PresentKnown, IsKnown, IsPending, IsLocal, Present
  <2>5. Removals'
    BY <1>2, <1>3 DEF Removals, IsPending, Present
  <2>6. DistantLocated'
    BY <1>2, <1>3, <1>4 DEF DistantLocated, IsKnown, IsPending, IsLocal, IsDistant
  <2>7. OriginsKnow'
    BY <1>2, <1>3, <1>4 DEF OriginsKnow, IsLocal
  <2>8. ExportedDistant'
    BY <1>2, <1>3 DEF ExportedDistant, IsDistant
  <2> QED
    BY <2>1, <2>2, <2>3, <2>4, <2>5, <2>6, <2>7, <2>8 DEF NodesInv
<1>8. /\ \A n \in Ends(e) : n \in Node /\ Present(p, n) /\ IsKnown(n)
      /\ e \notin linked
      /\ \A q \in Rank : ~HasEdge(q, e) /\ e \notin linkBuffer[q] /\ ~Told(q, e)
  BY <1>1, <1>3, <1>4, EndsAreNodes DEF Graph, Present, PresentKnown, FreshEdges
<1>9. \A q \in Rank, n \in Node :
        /\ IsLocal(q, n)' <=> IsLocal(q, n)
        /\ Present(q, n)' <=> Present(q, n)
        /\ IsPending(n)' <=> IsPending(n)
  BY <1>2 DEF IsLocal, Present, IsPending
<1>10. \A q \in Rank, d \in Edge :
         /\ HostsEnd(q, d)' <=> HostsEnd(q, d)
         /\ Told(q, d)' <=> Told(q, d)
  BY <1>2, <1>9, EndsAreNodes DEF HostsEnd, Told
<1>11. /\ HasEdge(p, e)'
       /\ edgeState'[p][e] = "LOCAL" <=> \A n \in Ends(e) : IsLocal(p, n)
       /\ \A q \in Rank, d \in Edge : ~(q = p /\ d = e) =>
            /\ HasEdge(q, d)' <=> HasEdge(q, d)
            /\ edgeState'[q][d] = edgeState[q][d]
  BY <1>1, <1>3, <1>8 DEF TypeOK, HasEdge, IsLocal, In
<1>12. /\ \A q \in Rank : \A d \in Edge : d # e => (d \in linkBuffer'[q] <=> d \in linkBuffer[q])
       /\ \A q \in Rank : e \in linkBuffer'[q] <=>
            q = p /\ ~(\A n \in Ends(e) : IsLocal(p, n))
       /\ \A q \in Rank : linkBuffer'[q] \subseteq Edge
  <2>1. CASE Ends(e) \subseteq In(p, "LOCAL")
    BY <2>1, <1>1, <1>3, <1>8 DEF TypeOK, IsLocal, In
  <2>2. CASE ~(Ends(e) \subseteq In(p, "LOCAL"))
    <3>1. linkBuffer' = [linkBuffer EXCEPT ![p] = @ \cup {e}]
      BY <2>2, <1>1
    <3>2. ~(\A n \in Ends(e) : IsLocal(p, n))
      BY <2>2, <1>8 DEF IsLocal, In
    <3>3. linkBuffer'[p] = linkBuffer[p] \cup {e}
      BY <3>1, <1>3 DEF TypeOK
    <3>4. \A q \in Rank : q # p => linkBuffer'[q] = linkBuffer[q]
      BY <3>1, <1>3 DEF TypeOK
    <3> QED
      BY <3>2, <3>3, <3>4, <1>3, <1>8 DEF TypeOK
  <2> QED
    BY <2>1, <2>2
<1>13. /\ \A d \in Edge : d # e => (d \in linked' <=> d \in linked)
       /\ e \in linked' <=> \A n \in Ends(e) : n \in live
       /\ linked' \subseteq Edge
  BY <1>1, <1>3, <1>8 DEF TypeOK
<1>14. EdgesInv'
  <2>1. EdgeStates'
    BY <1>3, <1>8, <1>9, <1>11, EndsAreNodes DEF EdgeStates
  <2>2. FreshEdges'
    BY <1>1, <1>3, <1>10, <1>11, <1>12, <1>13 DEF FreshEdges
  <2>3. Buffered'
    <3>1. SUFFICES ASSUME NEW q \in Rank, NEW d \in linkBuffer'[q]
                   PROVE /\ HasEdge(q, d)' /\ \A r \in Rank \ {q} : ~HasEdge(r, d)'
                         /\ \A r \in Rank : ~Told(r, d)'
      BY DEF Buffered
    <3>2. d \in Edge
      BY <1>12
    <3>3. CASE d = e
      BY <3>3, <1>8, <1>10, <1>11, <1>12
    <3>4. CASE d # e
      BY <3>2, <3>4, <1>3, <1>10, <1>11, <1>12 DEF Buffered
    <3> QED
      BY <3>3, <3>4
  <2>4. LinkedLive'
    BY <1>2, <1>3, <1>13 DEF LinkedLive, TypeOK
  <2>5. Messages'
    BY <1>3, <1>8, <1>10, <1>13 DEF Messages
  <2>6. OnHosts'
    <3>1. \A q \in Rank : ~HasEdge(q, e)' \/ HostsEnd(q, e)' \/ e \in linkBuffer'[q]
      <4>1. \A n : n \in Ends(e) => HostsEnd(p, e)' \/ ~IsLocal(p, n)
        BY <1>10 DEF HostsEnd
      <4>2. \E n : n \in Ends(e)
        BY DEF Ends
      <4> QED
        BY <4>1, <4>2, <1>8, <1>11, <1>12
    <3> QED
      BY <3>1, <1>2, <1>3, <1>10, <1>11, <1>12 DEF OnHosts
  <2>7. LinkedOnHosts'
    <3>1. \A q \in Rank : HostsEnd(q, e) /\ (\A n \in Ends(e) : IsLocal(p, n)) => q = p
      BY <1>3, <1>8 DEF HostsEnd, LocalOnce
    <3>2. \A q \in Rank : HostsEnd(q, e) => HasEdge(q, e)' \/ e \in linkBuffer'[p]
      BY <3>1, <1>11, <1>12
    <3>3. \A d \in linked' : d \in Edge /\ (d = e \/ d \in linked)
      BY <1>13
    <3> QED
      BY <3>2, <3>3, <1>3, <1>10, <1>11, <1>12 DEF LinkedOnHosts
  <2>8. UnlinkedErased'
    <3>1. e \in linked' \/ \E n \in Ends(e) : IsPending(n)
      BY <1>8, <1>13 DEF IsKnown
    <3> QED
      BY <3>1, <1>3, <1>9, <1>10, <1>11, <1>13, EndsAreNodes DEF UnlinkedErased
  <2>9. HostsTold'
    <3>1. \A q \in Rank : HostsEnd(q, e) /\ (\A n \in Ends(e) : IsLocal(p, n)) => q = p
      BY <1>3, <1>8 DEF HostsEnd, LocalOnce
    <3>2. \A q, r \in Rank : HasEdge(q, e)' /\ HostsEnd(r, e) /\ e \notin linkBuffer'[q] => q = r
      BY <3>1, <1>8, <1>11, <1>12
    <3>3. SUFFICES ASSUME NEW q \in Rank, NEW r \in Rank, NEW d \in Edge,
                          q # r, HasEdge(q, d)', d \notin linkBuffer'[q],
                          HostsEnd(q, d)', HostsEnd(r, d)'
                   PROVE (HasEdge(r, d) \/ <<q, d>> \in unlinkMigration[r])'
      BY <1>4 DEF HostsTold
    <3>4. d # e
      BY <3>2, <3>3, <1>10
    <3> QED
      BY <3>3, <3>4, <1>2, <1>3, <1>4, <1>10, <1>11, <1>12 DEF HostsTold
  <2>10. RemovedUnlinked'
    <3>1. \A q, r \in Rank : \A d \in linkBuffer'[q] : \A n \in Ends(d) :
            ~(IsLocal(r, n)' /\ n \in toRemove'[r])
      BY <1>2, <1>9, <1>12, EndsAreNodes DEF LinksRemoved, IsLocal
    <3>2. ASSUME NEW q \in Rank, NEW n \in toRemove[q], IsLocal(q, n),
                 NEW d \in Edge, HasEdge(q, d)', n \in Ends(d)
          PROVE \A m \in Ends(d) : IsLocal(q, m)
      BY <3>1, <3>2, <1>2, <1>3, <1>8, <1>9, <1>11, <1>12 DEF RemovedUnlinked
    <3> QED
      BY <3>1, <3>2, <1>2, <1>3, <1>9, EndsAreNodes DEF RemovedUnlinked, TypeOK
  <2>11. ToClearInv'
    BY <1>2, <1>3, <1>4, <1>10, <1>11, <1>12 DEF ToClearInv, TypeOK, Buffers
  <2> QED
    BY <2>1, <2>2, <2>3, <2>4, <2>5, <2>6, <2>7, <2>8, <2>9, <2>10, <2>11, <1>4 DEF EdgesInv
<1> QED
  BY <1>4, <1>5, <1>6, <1>7, <1>14 DEF IInv

-----------------------------------------------------------------------------
(* unlink() and removeNode() *)

\* GhostSyncLinker::unlink() of the edges E of p tells the other hosts of their
\* ends, and nobody else.
LEMMA MessagesToHosts ==
  ASSUME TypeOK, LocalOnce, PresentKnown, DistantLocated, EdgeStates,
         phase \notin {"clear", "locations"},
         NEW p \in Rank, NEW E \in SUBSET Edge
  PROVE /\ \A q \in Rank, e \in Edge :
             <<q, e>> \in UnlinkMessages(p, E) => e \in E /\ HostsEnd(q, e)
        /\ \A q \in Rank, e \in E :
             q # p /\ HasEdge(p, e) /\ HostsEnd(q, e) => <<q, e>> \in UnlinkMessages(p, E)
        /\ UnlinkMessages(p, E) \subseteq Rank \X Edge
<1>1. \A q \in Rank, e \in Edge :
        <<q, e>> \in UnlinkMessages(p, E) <=>
          /\ e \in E
          /\ edgeState[p][e] = "DISTANT"
          /\ \E n \in Ends(e) : state[p][n] = "DISTANT" /\ location[p][n] = q
  BY DEF UnlinkMessages
<1>2. ASSUME NEW q \in Rank, NEW e \in Edge, <<q, e>> \in UnlinkMessages(p, E)
      PROVE e \in E /\ HostsEnd(q, e)
  <2>1. PICK n \in Ends(e) : state[p][n] = "DISTANT" /\ location[p][n] = q
    BY <1>1, <1>2
  <2>2. n \in Node /\ IsDistant(p, n) /\ Present(p, n)
    BY <2>1, EndsAreNodes DEF IsDistant, Present
  <2>3. IsLocal(q, n)
    BY <2>1, <2>2 DEF PresentKnown, DistantLocated
  <2> QED
    BY <2>3, <1>1, <1>2 DEF HostsEnd
<1>3. ASSUME NEW q \in Rank, NEW e \in E, q # p, HasEdge(p, e), HostsEnd(q, e)
      PROVE <<q, e>> \in UnlinkMessages(p, E)
  <2>1. PICK n \in Ends(e) : IsLocal(q, n)
    BY <1>3 DEF HostsEnd
  <2>2. n \in Node /\ ~IsLocal(p, n) /\ Present(p, n)
    BY <1>3, <2>1, EndsAreNodes DEF LocalOnce, EdgeStates
  <2>3. IsDistant(p, n) /\ IsKnown(n)
    BY <2>2, NodeStates DEF PresentKnown
  <2>4. IsLocal(location[p][n], n) /\ location[p][n] \in Rank
    BY <2>2, <2>3 DEF DistantLocated, TypeOK
  <2>5. location[p][n] = q
    BY <2>1, <2>2, <2>4 DEF LocalOnce
  <2>6. edgeState[p][e] # "LOCAL" /\ edgeState[p][e] # "ABSENT" /\ edgeState[p][e] \in {"ABSENT", "LOCAL", "DISTANT"}
    BY <1>3, <2>1, <2>2 DEF EdgeStates, HasEdge, TypeOK
  <2> QED
    BY <1>1, <2>1, <2>3, <2>5, <2>6 DEF IsDistant
<1> QED
  BY <1>2, <1>3 DEF UnlinkMessages

\* A process erases edges E, which are not linked any more, from its graph and
\* its link buffer, and tells the other hosts.
LEMMA EraseStep ==
  ASSUME IInv, NEW p \in Rank, Operation,
         NEW E \in SUBSET GraphEdges(p),
         edgeState' = [edgeState EXCEPT ![p] = EraseEdges(p, E)],
         linkBuffer' = [linkBuffer EXCEPT ![p] = @ \ E],
         unlinkMigration' = [unlinkMigration EXCEPT ![p] = @ \cup UnlinkMessages(p, E)],
         linked' \subseteq linked, \A e \in E : e \notin linked',
         UNCHANGED <<state, location, fresh>>
  PROVE /\ edgeState' \in [Rank -> [Edge -> {"ABSENT", "LOCAL", "DISTANT"}]]
        /\ linkBuffer' \in [Rank -> SUBSET Edge]
        /\ unlinkMigration' \in [Rank -> SUBSET (Rank \X Edge)]
        /\ \A q \in Rank, e \in Edge : HasEdge(q, e)' <=> HasEdge(q, e) /\ ~(q = p /\ e \in E)
        /\ \A q \in Rank : linkBuffer'[q] \subseteq linkBuffer[q]
        /\ \A q \in Rank, e \in E : HasEdge(q, e)' => Told(q, e)'
        /\ \A q \in Rank, e \in Edge : Told(q, e) => Told(q, e)'
        /\ EdgeStates' /\ FreshEdges' /\ Buffered' /\ Messages' /\ OnHosts'
        /\ LinkedOnHosts' /\ HostsTold' /\ ToClearInv'
<1>1. /\ TypeOK /\ FreshNodes /\ LocalOnce /\ KnownHosted /\ PresentKnown /\ Removals
      /\ DistantLocated /\ OriginsKnow /\ ExportedDistant /\ Buffers /\ EdgeStates
      /\ FreshEdges /\ Buffered /\ LinkedLive /\ Messages /\ OnHosts /\ LinkedOnHosts
      /\ UnlinkedErased /\ HostsTold /\ RemovedUnlinked /\ ToClearInv
  BY Parts
<1>2. phase = "working" /\ phase' = "working" /\ UNCHANGED <<toClear, exported>>
  BY DEF Operation
<1>3. /\ E \in SUBSET Edge
      /\ \A e \in E : HasEdge(p, e)
  BY DEF GraphEdges, HasEdge
<1>4. /\ \A q \in Rank, e \in Edge :
           <<q, e>> \in UnlinkMessages(p, E) => e \in E /\ HostsEnd(q, e)
      /\ \A q \in Rank, e \in E :
           q # p /\ HostsEnd(q, e) => <<q, e>> \in UnlinkMessages(p, E)
      /\ UnlinkMessages(p, E) \subseteq Rank \X Edge
  BY <1>1, <1>2, <1>3, MessagesToHosts
<1>5. /\ edgeState' \in [Rank -> [Edge -> {"ABSENT", "LOCAL", "DISTANT"}]]
      /\ \A q \in Rank, e \in Edge : q = p /\ e \in E => edgeState'[q][e] = "ABSENT"
      /\ \A q \in Rank, e \in Edge : ~(q = p /\ e \in E) => edgeState'[q][e] = edgeState[q][e]
  <2>1. /\ EraseEdges(p, E) \in [Edge -> {"ABSENT", "LOCAL", "DISTANT"}]
        /\ \A e \in Edge : e \in E => EraseEdges(p, E)[e] = "ABSENT"
        /\ \A e \in Edge : e \notin E => EraseEdges(p, E)[e] = edgeState[p][e]
    BY <1>1 DEF EraseEdges, TypeOK
  <2> QED
    BY <2>1, <1>1 DEF TypeOK
<1>6. /\ linkBuffer' \in [Rank -> SUBSET Edge]
      /\ \A q \in Rank, e \in Edge : e \in linkBuffer'[q] <=> e \in linkBuffer[q] /\ ~(q = p /\ e \in E)
      /\ \A q \in Rank : linkBuffer'[q] \subseteq linkBuffer[q]
  BY <1>1 DEF TypeOK
<1>7. /\ unlinkMigration' \in [Rank -> SUBSET (Rank \X Edge)]
      /\ unlinkMigration'[p] = unlinkMigration[p] \cup UnlinkMessages(p, E)
      /\ \A q \in Rank : q # p => unlinkMigration'[q] = unlinkMigration[q]
  BY <1>1, <1>4 DEF TypeOK
<1>8. \A q \in Rank, e \in Edge :
        /\ HasEdge(q, e)' <=> HasEdge(q, e) /\ ~(q = p /\ e \in E)
        /\ Told(q, e)' <=> Told(q, e) \/ <<q, e>> \in UnlinkMessages(p, E)
  <2>1. \A q \in Rank, e \in Edge : HasEdge(q, e)' <=> HasEdge(q, e) /\ ~(q = p /\ e \in E)
    BY <1>5 DEF HasEdge
  <2>2. \A q \in Rank, e \in Edge : Told(q, e)' <=> Told(q, e) \/ <<q, e>> \in UnlinkMessages(p, E)
    BY <1>7 DEF Told
  <2> QED
    BY <2>1, <2>2
<1>9. \A q \in Rank, n \in Node :
        /\ IsLocal(q, n)' <=> IsLocal(q, n)
        /\ Present(q, n)' <=> Present(q, n)
  BY DEF IsLocal, Present
<1>10. \A q \in Rank, e \in Edge : HostsEnd(q, e)' <=> HostsEnd(q, e)
  BY <1>9, EndsAreNodes DEF HostsEnd
\* Another process that has one of the edges is a host, and is told.
<1>11. \A q \in Rank, e \in E :
         q # p /\ HasEdge(q, e) => HostsEnd(q, e) /\ <<q, e>> \in unlinkMigration'[p]
  <2>1. \A q \in Rank, e \in E : q # p /\ HasEdge(q, e) => e \notin linkBuffer[q]
    BY <1>1, <1>3 DEF Buffered
  <2>2. \A q \in Rank : toClear[q] = {} /\ exported[q] = {}
    BY <1>1, <1>2 DEF Buffers
  <2>3. \A q \in Rank, e \in E : q # p /\ HasEdge(q, e) => HostsEnd(q, e)
    BY <2>1, <2>2, <1>1, <1>3 DEF OnHosts
  <2> QED
    BY <2>3, <1>4, <1>7
<1>12. \A q \in Rank, e \in E : HasEdge(q, e)' => Told(q, e)'
  BY <1>3, <1>7, <1>8, <1>11 DEF Told
<1>13. EdgeStates'
  <2>1. \A q \in Rank, e \in Edge : HasEdge(q, e)' =>
          HasEdge(q, e) /\ edgeState'[q][e] = edgeState[q][e]
    BY <1>5, <1>8
  <2> QED
    BY <2>1, <1>1, <1>9, EndsAreNodes DEF EdgeStates
<1>14. FreshEdges'
  BY <1>1, <1>3, <1>4, <1>6, <1>8 DEF FreshEdges
<1>15. Buffered'
  <2>1. SUFFICES ASSUME NEW q \in Rank, NEW d \in linkBuffer'[q]
                 PROVE /\ HasEdge(q, d)' /\ \A r \in Rank \ {q} : ~HasEdge(r, d)'
                       /\ \A r \in Rank : ~Told(r, d)'
    BY DEF Buffered
  <2>2. d \in Edge /\ d \in linkBuffer[q] /\ ~(q = p /\ d \in E)
    BY <1>6
  <2>3. d \notin E
    BY <2>2, <1>1, <1>3 DEF Buffered
  <2> QED
    BY <2>2, <2>3, <1>1, <1>4, <1>8 DEF Buffered
<1>16. Messages'
  BY <1>1, <1>4, <1>8, <1>10 DEF Messages
<1>17. OnHosts'
  BY <1>1, <1>2, <1>6, <1>8, <1>10 DEF OnHosts
<1>18. LinkedOnHosts'
  <2>1. \A d \in linked' : d \in linked /\ d \in Edge /\ d \notin E
    BY <1>1 DEF TypeOK
  <2> QED
    BY <2>1, <1>1, <1>6, <1>8, <1>10 DEF LinkedOnHosts
<1>19. HostsTold'
  <2>1. SUFFICES ASSUME NEW q \in Rank, NEW r \in Rank, NEW d \in Edge,
                        q # r, HasEdge(q, d)', d \notin linkBuffer'[q],
                        HostsEnd(q, d)', HostsEnd(r, d)'
                 PROVE (HasEdge(r, d) \/ <<q, d>> \in unlinkMigration[r])'
    BY <1>2 DEF HostsTold
  <2>2. HasEdge(q, d) /\ d \notin linkBuffer[q] /\ ~(q = p /\ d \in E)
    BY <2>1, <1>6, <1>8
  <2>3. HasEdge(r, d) \/ <<q, d>> \in unlinkMigration[r]
    BY <2>1, <2>2, <1>1, <1>2, <1>10 DEF HostsTold
  <2>4. CASE r = p /\ d \in E
    BY <2>1, <2>2, <2>4, <1>11
  <2>5. CASE ~(r = p /\ d \in E)
    BY <2>3, <2>5, <1>7, <1>8
  <2> QED
    BY <2>4, <2>5
<1>20. ToClearInv'
  BY <1>1, <1>2 DEF ToClearInv, Buffers
<1> QED
  BY <1>5, <1>6, <1>7, <1>8, <1>12, <1>13, <1>14, <1>15, <1>16, <1>17, <1>18, <1>19, <1>20

\* unlink() erases one edge.
LEMMA UnlinkStep ==
  ASSUME IInv, NEW p \in Rank, Unlink(p), Allow = {}
  PROVE IInv'
<1>1. PICK e \in GraphEdges(p) :
        /\ edgeState' = [edgeState EXCEPT ![p] = EraseEdges(p, {e})]
        /\ linkBuffer' = [linkBuffer EXCEPT ![p] = @ \ {e}]
        /\ unlinkMigration' = [unlinkMigration EXCEPT ![p] = @ \cup UnlinkMessages(p, {e})]
        /\ linked' = linked \ {e}
  BY DEF Unlink
<1>2. /\ Operation
      /\ UNCHANGED <<state, location, data, newLocal, toRemove, fresh, live>>
      /\ UNCHANGED <<call, managed, toClear, exported>>
  BY DEF Unlink, Operation
<1>3. /\ TypeOK /\ Buffers /\ LinkedLive /\ UnlinkedErased /\ RemovedUnlinked
  BY Parts
<1>4. /\ ~Returned' /\ GhostsFresh' /\ DistantLinked'
      /\ phase = "working" /\ phase' = "working" /\ ops' \in 0 .. MaxOps
  BY <1>2, <1>3, OperationEnds
<1>5. /\ edgeState' \in [Rank -> [Edge -> {"ABSENT", "LOCAL", "DISTANT"}]]
      /\ linkBuffer' \in [Rank -> SUBSET Edge]
      /\ unlinkMigration' \in [Rank -> SUBSET (Rank \X Edge)]
      /\ \A q \in Rank, d \in Edge : HasEdge(q, d)' <=> HasEdge(q, d) /\ ~(q = p /\ d \in {e})
      /\ \A q \in Rank : linkBuffer'[q] \subseteq linkBuffer[q]
      /\ \A q \in Rank, d \in {e} : HasEdge(q, d)' => Told(q, d)'
      /\ \A q \in Rank, d \in Edge : Told(q, d) => Told(q, d)'
      /\ EdgeStates' /\ FreshEdges' /\ Buffered' /\ Messages' /\ OnHosts'
      /\ LinkedOnHosts' /\ HostsTold' /\ ToClearInv'
  <2>1. /\ {e} \in SUBSET GraphEdges(p)
        /\ linked' \subseteq linked
        /\ \A d \in {e} : d \notin linked'
        /\ UNCHANGED <<state, location, fresh>>
    BY <1>1, <1>2
  <2> QED
    BY <2>1, <1>1, <1>2, EraseStep
<1>6. TypeOK'
  BY <1>1, <1>2, <1>3, <1>4, <1>5 DEF TypeOK
<1>7. Buffers'
  BY <1>2, <1>3, <1>4 DEF Buffers
<1>8. NodesInv'
  BY <1>2, <1>4, NodesUnchanged DEF IInv
<1>9. \A q \in Rank, n \in Node :
        /\ IsLocal(q, n)' <=> IsLocal(q, n)
        /\ IsPending(n)' <=> IsPending(n)
  BY <1>2 DEF IsLocal, IsPending
<1>10. LinkedLive'
  BY <1>1, <1>2, <1>3 DEF LinkedLive
<1>11. UnlinkedErased'
  BY <1>1, <1>3, <1>5, <1>9, EndsAreNodes DEF UnlinkedErased
<1>12. RemovedUnlinked'
  BY <1>2, <1>3, <1>5, <1>9, EndsAreNodes DEF RemovedUnlinked, TypeOK
<1>13. EdgesInv'
  BY <1>4, <1>5, <1>10, <1>11, <1>12 DEF EdgesInv
<1> QED
  BY <1>4, <1>6, <1>7, <1>8, <1>13 DEF IInv

\* A host that removes its node erases its edges, as unlink() does; another process
\* only records the removal.
LEMMA RemoveNodeStep ==
  ASSUME IInv, NEW p \in Rank, RemoveNode(p), Allow = {}
  PROVE IInv'
<1> DEFINE EE(n) == IF state[p][n] = "LOCAL" THEN GraphEdges(p) \cap EdgesOf({n}) ELSE {}
<1>1. PICK n \in Graph(p) \ toRemove[p] :
        /\ \A r \in Rank : n \notin toRemove[r]
        /\ toRemove' = [toRemove EXCEPT ![p] = @ \cup {n}]
        /\ edgeState' = [edgeState EXCEPT ![p] = EraseEdges(p, EE(n))]
        /\ linkBuffer' = [linkBuffer EXCEPT ![p] = @ \ EE(n)]
        /\ unlinkMigration' = [unlinkMigration EXCEPT ![p] = @ \cup UnlinkMessages(p, EE(n))]
        /\ live' = live \ {n}
        /\ linked' = linked \ EdgesOf({n})
  BY DEF RemoveNode
<1> DEFINE E == EE(n)
<1>2. /\ Operation
      /\ ~LinksRemoved(linkBuffer', toRemove')
      /\ UNCHANGED <<state, location, data, newLocal, fresh>>
      /\ UNCHANGED <<call, managed, toClear, exported>>
  BY DEF RemoveNode, Operation
<1>3. /\ TypeOK /\ FreshNodes /\ LocalOnce /\ KnownHosted /\ PresentKnown /\ Removals
      /\ DistantLocated /\ OriginsKnow /\ ExportedDistant /\ Buffers /\ LinkedLive
      /\ UnlinkedErased /\ RemovedUnlinked
  BY Parts
<1>4. /\ ~Returned' /\ GhostsFresh' /\ DistantLinked'
      /\ phase = "working" /\ phase' = "working" /\ ops' \in 0 .. MaxOps
  BY <1>2, <1>3, OperationEnds
<1>5. n \in Node /\ Present(p, n)
  BY <1>1 DEF Graph, Present
<1>6. /\ E \in SUBSET GraphEdges(p)
      /\ \A e \in E : e \in Edge /\ n \in Ends(e)
      /\ IsLocal(p, n) => \A e \in Edge : HasEdge(p, e) /\ n \in Ends(e) => e \in E
      /\ linked' \subseteq linked
      /\ \A e \in E : e \notin linked'
      /\ \A e \in Edge : e \in linked /\ e \notin linked' => n \in Ends(e)
      /\ \A e \in linked' : n \notin Ends(e)
  BY <1>1, <1>3 DEF EdgesOf, GraphEdges, IsLocal, HasEdge, TypeOK
<1> HIDE DEF E
<1>7. /\ edgeState' = [edgeState EXCEPT ![p] = EraseEdges(p, E)]
      /\ linkBuffer' = [linkBuffer EXCEPT ![p] = @ \ E]
      /\ unlinkMigration' = [unlinkMigration EXCEPT ![p] = @ \cup UnlinkMessages(p, E)]
      /\ UNCHANGED <<state, location, fresh>>
  BY <1>1, <1>2 DEF E
<1>8. /\ edgeState' \in [Rank -> [Edge -> {"ABSENT", "LOCAL", "DISTANT"}]]
      /\ linkBuffer' \in [Rank -> SUBSET Edge]
      /\ unlinkMigration' \in [Rank -> SUBSET (Rank \X Edge)]
      /\ \A q \in Rank, d \in Edge : HasEdge(q, d)' <=> HasEdge(q, d) /\ ~(q = p /\ d \in E)
      /\ \A q \in Rank : linkBuffer'[q] \subseteq linkBuffer[q]
      /\ \A q \in Rank, d \in E : HasEdge(q, d)' => Told(q, d)'
      /\ \A q \in Rank, d \in Edge : Told(q, d) => Told(q, d)'
      /\ EdgeStates' /\ FreshEdges' /\ Buffered' /\ Messages' /\ OnHosts'
      /\ LinkedOnHosts' /\ HostsTold' /\ ToClearInv'
  BY <1>2, <1>6, <1>7, EraseStep
<1>9. /\ toRemove' \in [Rank -> SUBSET Node]
      /\ \A q \in Rank, m \in Node : m \in toRemove'[q] <=> m \in toRemove[q] \/ (q = p /\ m = n)
      /\ live' \subseteq Node /\ linked' \subseteq Edge
  BY <1>1, <1>3, <1>5, <1>6 DEF TypeOK
<1>10. TypeOK'
  BY <1>2, <1>3, <1>4, <1>8, <1>9 DEF TypeOK
<1>11. Buffers'
  BY <1>2, <1>3, <1>4 DEF Buffers
\* The node was live.
<1>12. IsKnown(n) /\ ~IsPending(n) /\ n \in live
  BY <1>1, <1>3, <1>4, <1>5 DEF PresentKnown, IsKnown, IsPending
<1>13. \A m \in Node :
         /\ IsPending(m)' <=> IsPending(m) \/ m = n
         /\ m \in live' <=> m \in live /\ m # n
         /\ IsKnown(m)' <=> IsKnown(m)
  <2>1. \A m \in Node : IsPending(m)' <=> IsPending(m) \/ m = n
    BY <1>9 DEF IsPending
  <2> QED
    BY <2>1, <1>1, <1>12 DEF IsKnown
<1>14. \A q \in Rank, m \in Node :
        /\ IsLocal(q, m)' <=> IsLocal(q, m)
        /\ Present(q, m)' <=> Present(q, m)
        /\ IsDistant(q, m)' <=> IsDistant(q, m)
  BY <1>2 DEF IsLocal, Present, IsDistant
<1>15. NodesInv'
  <2>1. FreshNodes'
    BY <1>2, <1>3, <1>13, <1>14 DEF FreshNodes
  <2>2. LocalOnce'
    BY <1>2, <1>3, <1>14 DEF LocalOnce
  <2>3. KnownHosted'
    BY <1>3, <1>13, <1>14 DEF KnownHosted
  <2>4. PresentKnown'
    BY <1>3, <1>4, <1>13, <1>14 DEF PresentKnown
  <2>5. Removals'
    <3>1. \A m \in live' : ~IsPending(m)'
      BY <1>3, <1>9, <1>13 DEF Removals, TypeOK
    <3>2. \A q \in Rank : \A m \in toRemove'[q] : Present(q, m)'
      BY <1>3, <1>5, <1>9, <1>14 DEF Removals, TypeOK
    <3>3. \A q, r \in Rank : \A m \in Node : m \in toRemove'[q] /\ m \in toRemove'[r] => q = r
      BY <1>1, <1>3, <1>9 DEF Removals
    <3> QED
      BY <3>1, <3>2, <3>3 DEF Removals
  <2>6. DistantLocated'
    <3>1. SUFFICES ASSUME NEW m \in Node, NEW r \in Rank, IsKnown(m)', IsDistant(r, m)'
                   PROVE IsLocal(location[r][m], m)'
      BY DEF DistantLocated
    <3>2. IsLocal(location[r][m], m)
      BY <3>1, <1>3, <1>4, <1>13, <1>14 DEF DistantLocated
    <3> QED
      BY <3>2, <1>2 DEF IsLocal
  <2>7. OriginsKnow'
    BY <1>1, <1>2, <1>3, <1>4 DEF OriginsKnow, IsLocal
  <2>8. ExportedDistant'
    BY <1>2, <1>3 DEF ExportedDistant, IsDistant
  <2> QED
    BY <2>1, <2>2, <2>3, <2>4, <2>5, <2>6, <2>7, <2>8 DEF NodesInv
<1>16. LinkedLive'
  BY <1>1, <1>3, <1>6, <1>9 DEF LinkedLive
<1>17. UnlinkedErased'
  <2>1. SUFFICES ASSUME NEW q \in Rank, NEW e \in Edge, e \notin linked', HasEdge(q, e)'
                 PROVE Told(q, e)' \/ \E m \in Ends(e) : IsPending(m)'
    BY DEF UnlinkedErased
  <2>2. CASE e \in linked
    BY <2>1, <2>2, <1>5, <1>6, <1>13
  <2>3. CASE e \notin linked
    <3>1. Told(q, e) \/ \E m \in Ends(e) : IsPending(m)
      BY <2>1, <2>3, <1>3, <1>8 DEF UnlinkedErased
    <3> QED
      BY <3>1, <1>8, <1>13, EndsAreNodes
  <2> QED
    BY <2>2, <2>3
<1>18. RemovedUnlinked'
  <2>1. \A q, r \in Rank : \A d \in linkBuffer'[q] : \A m \in Ends(d) :
          ~(IsLocal(r, m)' /\ m \in toRemove'[r])
    BY <1>2 DEF LinksRemoved, IsLocal
  <2>2. ASSUME NEW q \in Rank, NEW m \in Node, m \in toRemove'[q], IsLocal(q, m),
               NEW d \in Edge, HasEdge(q, d)', m \in Ends(d)
        PROVE \A k \in Ends(d) : IsLocal(q, k)
    <3>1. CASE q = p /\ m = n
      BY <3>1, <2>2, <1>6, <1>8
    <3>2. CASE ~(q = p /\ m = n)
      BY <3>2, <2>2, <1>3, <1>8, <1>9 DEF RemovedUnlinked
    <3> QED
      BY <3>1, <3>2
  <2>3. \A q \in Rank : \A m \in toRemove'[q] : m \in Node
    BY <1>9
  <2>4. \A q \in Rank : \A m \in toRemove'[q] : IsLocal(q, m)' =>
          \A e \in Edge : HasEdge(q, e)' /\ m \in Ends(e) => \A k \in Ends(e) : IsLocal(q, k)'
    BY <2>2, <2>3, <1>14, EndsAreNodes
  <2> QED
    BY <2>1, <2>4 DEF RemovedUnlinked
<1>19. EdgesInv'
  BY <1>4, <1>8, <1>16, <1>17, <1>18 DEF EdgesInv
<1> QED
  BY <1>4, <1>10, <1>11, <1>15, <1>19 DEF IInv

-----------------------------------------------------------------------------
(* importEdge() *)

\* The processes that send edges with end n that q does not have.
Senders(imp, q, n) ==
  {r \in Rank : \E e \in imp[q][r] \ GraphEdges(q) : n \in Ends(e)}
Missing(st, imp, q, n) == st[q][n] = "ABSENT" /\ Senders(imp, q, n) # {}
Imported(imp, q, e) == \E r \in Rank : e \in imp[q][r]
BothLocal(st, q, e) == \A n \in Ends(e) : st[q][n] = "LOCAL"
Exports(exp, q, e) == Ends(e) \cap exp[q] # {}

\* What ImportEdges does to each node and each edge of each process.
NodesAndEdgesImported(st, loc, dat, imp, exp) ==
  /\ state' \in [Rank -> [Node -> {"ABSENT", "LOCAL", "DISTANT"}]]
  /\ location' \in [Rank -> [Node -> Rank]]
  /\ data' \in [Rank -> [Node -> 0 .. MaxData]]
  /\ edgeState' \in [Rank -> [Edge -> {"ABSENT", "LOCAL", "DISTANT"}]]
  /\ \A q \in Rank, n \in Node : Missing(st, imp, q, n) =>
       /\ state'[q][n] = "DISTANT"
       /\ \E r \in Senders(imp, q, n) : location'[q][n] = location[r][n]
  /\ \A q \in Rank, n \in Node : ~Missing(st, imp, q, n) =>
       /\ state'[q][n] = SetDistant(n \in exp[q], st[q][n])
       /\ location'[q][n] = loc[q][n]
       /\ data'[q][n] = dat[q][n]
  /\ \A q \in Rank, e \in Edge : Imported(imp, q, e) =>
       edgeState'[q][e] = SetDistant(Exports(exp, q, e),
                            ImportedState(edgeState[q][e], BothLocal(st, q, e)))
  /\ \A q \in Rank, e \in Edge : ~Imported(imp, q, e) /\ HasEdge(q, e) =>
       edgeState'[q][e] = SetDistant(Exports(exp, q, e), edgeState[q][e])
  /\ \A q \in Rank, e \in Edge : ~Imported(imp, q, e) /\ ~HasEdge(q, e) =>
       edgeState'[q][e] = "ABSENT"

\* ImportEdges, at each node and each edge.
LEMMA ImportEdgesAt ==
  ASSUME TypeOK,
         NEW st \in [Rank -> [Node -> {"ABSENT", "LOCAL", "DISTANT"}]],
         NEW loc \in [Rank -> [Node -> Rank]],
         NEW dat \in [Rank -> [Node -> 0 .. MaxData]],
         NEW imp \in [Rank -> [Rank -> SUBSET Edge]],
         NEW exp \in [Rank -> SUBSET Node],
         ImportEdges(st, loc, dat, imp, exp)
  PROVE NodesAndEdgesImported(st, loc, dat, imp, exp)
<1> DEFINE M(q) == {n \in Node : st[q][n] = "ABSENT" /\ Senders(imp, q, n) # {}}
<1>1. /\ state' = [q \in Rank |-> [n \in Node |->
           IF n \in M(q) THEN "DISTANT" ELSE SetDistant(n \in exp[q], st[q][n])]]
      /\ location' = [q \in Rank |-> [n \in Node |->
           IF n \in M(q) THEN location[CHOOSE r \in Senders(imp, q, n) : TRUE][n]
                         ELSE loc[q][n]]]
      /\ data' = [q \in Rank |-> [n \in Node |->
           IF n \in M(q) THEN 0 ELSE dat[q][n]]]
      /\ edgeState' = [q \in Rank |-> [e \in Edge |->
           IF Imported(imp, q, e)
             THEN SetDistant(Exports(exp, q, e),
                             ImportedState(edgeState[q][e], BothLocal(st, q, e)))
           ELSE IF e \in GraphEdges(q)
             THEN SetDistant(Exports(exp, q, e), edgeState[q][e])
           ELSE "ABSENT"]]
  BY DEF ImportEdges, Senders, Imported, BothLocal, Exports
<1>2. \A q \in Rank, n \in Node : n \in M(q) <=> Missing(st, imp, q, n)
  BY DEF Missing
<1> HIDE DEF M
<1>3. ASSUME NEW q \in Rank, NEW n \in Node
      PROVE /\ Missing(st, imp, q, n) =>
                 /\ state'[q][n] = "DISTANT" /\ data'[q][n] = 0
                 /\ \E r \in Senders(imp, q, n) : location'[q][n] = location[r][n]
            /\ ~Missing(st, imp, q, n) =>
                 /\ state'[q][n] = SetDistant(n \in exp[q], st[q][n])
                 /\ location'[q][n] = loc[q][n]
                 /\ data'[q][n] = dat[q][n]
  <2>1. CASE Missing(st, imp, q, n)
    <3>1. PICK s : s = CHOOSE r \in Senders(imp, q, n) : TRUE
      OBVIOUS
    <3>2. s \in Senders(imp, q, n)
      BY <2>1, <3>1 DEF Missing
    <3>3. n \in M(q)
      BY <2>1, <1>2
    <3>4. location'[q][n] = location[s][n] /\ state'[q][n] = "DISTANT" /\ data'[q][n] = 0
      BY <1>1, <3>1, <3>3
    <3> QED
      BY <2>1, <3>2, <3>4
  <2>2. CASE ~Missing(st, imp, q, n)
    <3>1. n \notin M(q)
      BY <2>2, <1>2
    <3> QED
      BY <1>1, <2>2, <3>1
  <2> QED
    BY <2>1, <2>2
<1>4. ASSUME NEW q \in Rank, NEW n \in Node
      PROVE /\ state'[q][n] \in {"ABSENT", "LOCAL", "DISTANT"}
            /\ location'[q][n] \in Rank
            /\ data'[q][n] \in 0 .. MaxData
  <2>1. CASE Missing(st, imp, q, n)
    <3>1. PICK r \in Senders(imp, q, n) : location'[q][n] = location[r][n]
      BY <2>1, <1>3
    <3>2. location'[q][n] \in Rank
      BY <3>1 DEF Senders, TypeOK
    <3>3. 0 \in 0 .. MaxData
      BY GhostAssumption
    <3> QED
      BY <2>1, <3>2, <3>3, <1>3
  <2>2. CASE ~Missing(st, imp, q, n)
    BY <2>2, <1>3 DEF SetDistant
  <2> QED
    BY <2>1, <2>2
<1>5. /\ state' \in [Rank -> [Node -> {"ABSENT", "LOCAL", "DISTANT"}]]
      /\ location' \in [Rank -> [Node -> Rank]]
      /\ data' \in [Rank -> [Node -> 0 .. MaxData]]
  BY <1>1, <1>4
<1>6. \A q \in Rank, e \in Edge : e \in GraphEdges(q) <=> HasEdge(q, e)
  BY DEF GraphEdges, HasEdge
<1>7. \A q \in Rank, e \in Edge :
        /\ Imported(imp, q, e) =>
             edgeState'[q][e] = SetDistant(Exports(exp, q, e),
                                  ImportedState(edgeState[q][e], BothLocal(st, q, e)))
        /\ ~Imported(imp, q, e) /\ HasEdge(q, e) =>
             edgeState'[q][e] = SetDistant(Exports(exp, q, e), edgeState[q][e])
        /\ ~Imported(imp, q, e) /\ ~HasEdge(q, e) => edgeState'[q][e] = "ABSENT"
  BY <1>1, <1>6
<1>8. \A q \in Rank, e \in Edge : edgeState'[q][e] \in {"ABSENT", "LOCAL", "DISTANT"}
  <2>1. ASSUME NEW q \in Rank, NEW e \in Edge
        PROVE edgeState'[q][e] \in {"ABSENT", "LOCAL", "DISTANT"}
    <3>1. edgeState[q][e] \in {"ABSENT", "LOCAL", "DISTANT"}
      BY DEF TypeOK
    <3>2. ImportedState(edgeState[q][e], BothLocal(st, q, e)) \in {"ABSENT", "LOCAL", "DISTANT"}
      BY <3>1 DEF ImportedState
    <3>3. CASE Imported(imp, q, e)
      BY <3>2, <3>3, <1>7 DEF SetDistant
    <3>4. CASE ~Imported(imp, q, e)
      BY <3>1, <3>4, <1>7 DEF SetDistant
    <3> QED
      BY <3>3, <3>4
  <2> QED
    BY <2>1
<1>9. edgeState' \in [Rank -> [Edge -> {"ABSENT", "LOCAL", "DISTANT"}]]
  BY <1>1, <1>8
<1>10. \A q \in Rank, e \in Edge : Imported(imp, q, e) =>
         edgeState'[q][e] = SetDistant(Exports(exp, q, e),
                              ImportedState(edgeState[q][e], BothLocal(st, q, e)))
  BY <1>7
<1>11. \A q \in Rank, e \in Edge : ~Imported(imp, q, e) /\ HasEdge(q, e) =>
         edgeState'[q][e] = SetDistant(Exports(exp, q, e), edgeState[q][e])
  BY <1>7
<1>12. \A q \in Rank, e \in Edge : ~Imported(imp, q, e) /\ ~HasEdge(q, e) =>
         edgeState'[q][e] = "ABSENT"
  BY <1>7
<1>13. /\ \A q \in Rank, n \in Node : Missing(st, imp, q, n) =>
            /\ state'[q][n] = "DISTANT"
            /\ \E r \in Senders(imp, q, n) : location'[q][n] = location[r][n]
       /\ \A q \in Rank, n \in Node : ~Missing(st, imp, q, n) =>
            /\ state'[q][n] = SetDistant(n \in exp[q], st[q][n])
            /\ location'[q][n] = loc[q][n]
            /\ data'[q][n] = dat[q][n]
  BY <1>3
<1> QED
  BY <1>5, <1>9, <1>10, <1>11, <1>12, <1>13, ZenonT(60) DEF NodesAndEdgesImported

-----------------------------------------------------------------------------
(* GhostSyncLinker::synchronize() *)

\* The hosts of the ends of the buffered edges have them now; nodes keep their host
\* and its data.
LEMMA MigrateLinksStep ==
  ASSUME IInv, MigrateLinks, Allow = {}
  PROVE /\ IInv'
        /\ \A n \in Node, q \in Rank : IsLocal(q, n)' <=> IsLocal(q, n)
        /\ \A n \in Node, q \in Rank : IsLocal(q, n) => data'[q][n] = data[q][n]
<1>1. PICK st, loc, dat, imp, exp :
        /\ st = state /\ loc = location /\ dat = data
        /\ imp = [q \in Rank |-> [r \in Rank |->
             {e \in linkBuffer[r] :
                \E n \in Ends(e) : state[r][n] = "DISTANT" /\ location[r][n] = q}]]
        /\ exp = [q \in Rank |-> {}]
  OBVIOUS
<1>2. /\ phase = "links" /\ phase' = "removals"
      /\ ImportEdges(st, loc, dat, imp, exp)
      /\ toClear' = [p \in Rank |-> {e \in linkBuffer[p] : Ends(e) \subseteq In(p, "DISTANT")}]
      /\ linkBuffer' = [p \in Rank |-> {}]
      /\ UNCHANGED <<call, ops, managed, newLocal, unlinkMigration, toRemove, exported,
                     fresh, live, linked>>
  BY <1>1 DEF MigrateLinks, locationVars, idealVars
<1>3. /\ TypeOK /\ FreshNodes /\ LocalOnce /\ KnownHosted /\ PresentKnown /\ Removals
      /\ DistantLocated /\ OriginsKnow /\ ExportedDistant /\ Buffers /\ EdgeStates
      /\ FreshEdges /\ Buffered /\ LinkedLive /\ Messages /\ OnHosts /\ LinkedOnHosts
      /\ UnlinkedErased /\ HostsTold /\ RemovedUnlinked /\ ToClearInv
  BY Parts
<1>4. /\ st \in [Rank -> [Node -> {"ABSENT", "LOCAL", "DISTANT"}]]
      /\ loc \in [Rank -> [Node -> Rank]]
      /\ dat \in [Rank -> [Node -> 0 .. MaxData]]
      /\ imp \in [Rank -> [Rank -> SUBSET Edge]]
      /\ exp \in [Rank -> SUBSET Node]
  BY <1>1, <1>3 DEF TypeOK
<1>5. \A q, r \in Rank, e \in Edge :
        e \in imp[q][r] <=>
          /\ e \in linkBuffer[r]
          /\ \E n \in Ends(e) : IsDistant(r, n) /\ location[r][n] = q
  BY <1>1 DEF IsDistant
\* An edge that is sent to q from r: r alone has it, and finds a host of one of its
\* ends on q.
<1>6. \A q, r \in Rank, e \in Edge :
        e \in imp[q][r] =>
          /\ e \in linkBuffer[r] /\ HasEdge(r, e) /\ ~HasEdge(q, e) /\ HostsEnd(q, e)
          /\ \A n \in Ends(e) : n \in Node /\ Present(r, n) /\ IsKnown(n)
          /\ \A s \in Rank : ~Told(s, e)
  <2>1. SUFFICES ASSUME NEW q \in Rank, NEW r \in Rank, NEW e \in Edge, e \in imp[q][r]
                 PROVE /\ e \in linkBuffer[r] /\ HasEdge(r, e) /\ ~HasEdge(q, e) /\ HostsEnd(q, e)
                       /\ \A n \in Ends(e) : n \in Node /\ Present(r, n) /\ IsKnown(n)
                       /\ \A s \in Rank : ~Told(s, e)
    OBVIOUS
  <2>2. PICK n \in Ends(e) : IsDistant(r, n) /\ location[r][n] = q
    BY <2>1, <1>5
  <2>3. e \in linkBuffer[r] /\ HasEdge(r, e)
    BY <2>1, <1>3, <1>5 DEF Buffered
  <2>4. \A m \in Ends(e) : m \in Node /\ Present(r, m) /\ IsKnown(m)
    BY <2>3, <1>2, <1>3, EndsAreNodes DEF EdgeStates, PresentKnown
  <2>5. IsLocal(q, n)
    BY <2>2, <2>4, <1>2, <1>3 DEF DistantLocated
  <2>6. q # r
    BY <2>2, <2>5 DEF IsLocal, IsDistant
  <2> QED
    BY <2>3, <2>4, <2>5, <2>6, <1>3 DEF Buffered, HostsEnd
\* Conversely, the hosts of the ends of an edge that r commits get it.
<1>7. \A q, r \in Rank, e \in Edge :
        e \in linkBuffer[r] /\ HostsEnd(q, e) /\ q # r => e \in imp[q][r]
  <2>1. SUFFICES ASSUME NEW q \in Rank, NEW r \in Rank, NEW e \in Edge,
                        e \in linkBuffer[r], HostsEnd(q, e), q # r
                 PROVE e \in imp[q][r]
    OBVIOUS
  <2>2. PICK n \in Ends(e) : IsLocal(q, n)
    BY <2>1 DEF HostsEnd
  <2>3. n \in Node /\ Present(r, n) /\ ~IsLocal(r, n)
    BY <2>1, <2>2, <1>3, EndsAreNodes DEF LocalOnce, Buffered, EdgeStates
  <2>4. IsDistant(r, n) /\ IsKnown(n)
    BY <2>3, <1>2, <1>3, NodeStates DEF PresentKnown
  <2>5. IsLocal(location[r][n], n) /\ location[r][n] \in Rank
    BY <2>3, <2>4, <1>2, <1>3 DEF DistantLocated, TypeOK
  <2>6. location[r][n] = q
    BY <2>2, <2>3, <2>5, <1>3 DEF LocalOnce
  <2> QED
    BY <2>1, <2>4, <2>6, <1>5
<1>8. /\ state' \in [Rank -> [Node -> {"ABSENT", "LOCAL", "DISTANT"}]]
      /\ location' \in [Rank -> [Node -> Rank]]
      /\ data' \in [Rank -> [Node -> 0 .. MaxData]]
      /\ edgeState' \in [Rank -> [Edge -> {"ABSENT", "LOCAL", "DISTANT"}]]
      /\ \A q \in Rank, n \in Node : Missing(st, imp, q, n) =>
           /\ state'[q][n] = "DISTANT"
           /\ \E r \in Senders(imp, q, n) : location'[q][n] = location[r][n]
      /\ \A q \in Rank, n \in Node : ~Missing(st, imp, q, n) =>
           /\ state'[q][n] = SetDistant(n \in exp[q], st[q][n])
           /\ location'[q][n] = loc[q][n]
           /\ data'[q][n] = dat[q][n]
      /\ \A q \in Rank, e \in Edge : Imported(imp, q, e) =>
           edgeState'[q][e] = SetDistant(Exports(exp, q, e),
                                ImportedState(edgeState[q][e], BothLocal(st, q, e)))
      /\ \A q \in Rank, e \in Edge : ~Imported(imp, q, e) /\ HasEdge(q, e) =>
           edgeState'[q][e] = SetDistant(Exports(exp, q, e), edgeState[q][e])
      /\ \A q \in Rank, e \in Edge : ~Imported(imp, q, e) /\ ~HasEdge(q, e) =>
           edgeState'[q][e] = "ABSENT"
  <2>1. TypeOK
    BY <1>3
  <2>2. ImportEdges(st, loc, dat, imp, exp)
    BY <1>2
  <2>3. NodesAndEdgesImported(st, loc, dat, imp, exp)
    BY <2>1, <2>2, <1>4, ImportEdgesAt
  <2> QED
    BY <2>3 DEF NodesAndEdgesImported
\* The nodes that are missing are known by the sender.
<1>9. \A q \in Rank, n \in Node : Missing(st, imp, q, n) =>
        /\ ~Present(q, n) /\ IsDistant(q, n)'
        /\ IsKnown(n) /\ \E r \in Rank : Present(r, n) /\ location'[q][n] = location[r][n]
  <2>1. SUFFICES ASSUME NEW q \in Rank, NEW n \in Node, Missing(st, imp, q, n)
                 PROVE /\ ~Present(q, n) /\ IsDistant(q, n)'
                       /\ IsKnown(n) /\ \E r \in Rank : Present(r, n) /\ location'[q][n] = location[r][n]
    OBVIOUS
  <2>2. PICK r \in Senders(imp, q, n) : location'[q][n] = location[r][n]
    BY <2>1, <1>8
  <2>3. r \in Rank /\ \E e \in imp[q][r] : n \in Ends(e)
    BY DEF Senders
  <2>4. Present(r, n) /\ IsKnown(n)
    BY <2>3, <1>4, <1>6
  <2> QED
    BY <2>1, <2>2, <2>3, <2>4, <1>1, <1>8 DEF Missing, Present, IsDistant
<1>10. \A q \in Rank, n \in Node : ~Missing(st, imp, q, n) =>
         /\ IsLocal(q, n)' <=> IsLocal(q, n)
         /\ Present(q, n)' <=> Present(q, n)
         /\ IsDistant(q, n)' <=> IsDistant(q, n)
         /\ location'[q][n] = location[q][n]
  <2>1. \A q \in Rank, n \in Node : ~Missing(st, imp, q, n) =>
          state'[q][n] = state[q][n] /\ location'[q][n] = location[q][n]
    <3>1. \A q \in Rank : exp[q] = {}
      BY <1>1
    <3>2. st = state /\ loc = location
      BY <1>1
    <3>3. ASSUME NEW q \in Rank, NEW n \in Node, ~Missing(st, imp, q, n)
          PROVE state'[q][n] = state[q][n] /\ location'[q][n] = location[q][n]
      <4>1. state'[q][n] = SetDistant(n \in exp[q], st[q][n]) /\ location'[q][n] = loc[q][n]
        BY <3>3, <1>8
      <4> QED
        BY <4>1, <3>1, <3>2 DEF SetDistant
    <3> QED
      BY <3>3
  <2> QED
    BY <2>1 DEF IsLocal, Present, IsDistant
<1>11. \A q \in Rank, n \in Node :
         /\ IsLocal(q, n)' <=> IsLocal(q, n)
         /\ Present(q, n) => Present(q, n)'
         /\ IsDistant(q, n) => IsDistant(q, n)'
  <2>1. \A q \in Rank, n \in Node : Missing(st, imp, q, n) =>
          ~IsLocal(q, n) /\ ~IsLocal(q, n)' /\ ~IsDistant(q, n)
    BY <1>9 DEF IsLocal, IsDistant, Present
  <2> QED
    BY <2>1, <1>9, <1>10
<1>12. \A n \in Node : (IsPending(n)' <=> IsPending(n)) /\ (IsKnown(n)' <=> IsKnown(n))
  BY <1>2 DEF IsPending, IsKnown
<1>13. NodesInv'
  <2>1. FreshNodes'
    BY <1>2, <1>3, <1>9, <1>10, <1>11, <1>12 DEF FreshNodes
  <2>2. LocalOnce'
    <3>1. \A n \in Node : \A q \in Rank : IsLocal(q, n)' => location'[q][n] = q
      BY <1>3, <1>9, <1>10, <1>11, <1>12 DEF LocalOnce, IsLocal, Present
    <3> QED
      BY <3>1, <1>3, <1>11, <1>12 DEF LocalOnce
  <2>3. KnownHosted'
    BY <1>3, <1>11, <1>12 DEF KnownHosted
  <2>4. PresentKnown'
    BY <1>2, <1>3, <1>9, <1>10, <1>11, <1>12 DEF PresentKnown
  <2>5. Removals'
    BY <1>2, <1>3, <1>11, <1>12 DEF Removals, TypeOK
  <2>6. DistantLocated'
    <3>1. SUFFICES ASSUME NEW m \in Node, NEW q \in Rank, IsKnown(m)', IsDistant(q, m)'
                   PROVE IsLocal(location[q][m], m)'
      BY DEF DistantLocated
    <3>2. \A r \in Rank : Present(r, m) => IsLocal(location[r][m], m) /\ location[r][m] \in Rank
      BY <3>1, <1>2, <1>3, <1>11, <1>12, NodeStates DEF DistantLocated, LocalOnce, TypeOK
    <3>3. PICK r \in Rank : Present(r, m) /\ location'[q][m] = location[r][m]
      <4>1. CASE Missing(st, imp, q, m)
        BY <4>1, <1>9
      <4>2. CASE ~Missing(st, imp, q, m)
        BY <3>1, <4>2, <1>10 DEF Present, IsDistant
      <4> QED
        BY <4>1, <4>2
    <3> QED
      BY <3>2, <3>3, <1>11, <1>12 DEF IsLocal
  <2>7. OriginsKnow'
    BY <1>2, <1>3, <1>11, <1>12, GhostAssumption DEF OriginsKnow, TypeOK
  <2>8. ExportedDistant'
    BY <1>2, <1>3, <1>11, <1>12 DEF ExportedDistant, TypeOK
  <2> QED
    BY <2>1, <2>2, <2>3, <2>4, <2>5, <2>6, <2>7, <2>8 DEF NodesInv
<1>14. \A q \in Rank, e \in Edge :
         /\ HasEdge(q, e)' <=> HasEdge(q, e) \/ Imported(imp, q, e)
         /\ ~Imported(imp, q, e) => edgeState'[q][e] = edgeState[q][e]
         /\ Imported(imp, q, e) => (edgeState'[q][e] = "LOCAL" <=> BothLocal(st, q, e))
  <2>1. SUFFICES ASSUME NEW q \in Rank, NEW e \in Edge
                 PROVE /\ HasEdge(q, e)' <=> HasEdge(q, e) \/ Imported(imp, q, e)
                       /\ ~Imported(imp, q, e) => edgeState'[q][e] = edgeState[q][e]
                       /\ Imported(imp, q, e) => (edgeState'[q][e] = "LOCAL" <=> BothLocal(st, q, e))
    OBVIOUS
  <2>2. ~Exports(exp, q, e)
    BY <1>1 DEF Exports
  <2>3. CASE Imported(imp, q, e)
    <3>1. edgeState[q][e] = "ABSENT"
      BY <2>3, <1>6 DEF Imported, HasEdge
    <3>2. edgeState'[q][e] = ImportedState("ABSENT", BothLocal(st, q, e))
      BY <2>2, <2>3, <3>1, <1>8 DEF SetDistant
    <3> QED
      BY <2>3, <3>2 DEF ImportedState, HasEdge
  <2>4. CASE ~Imported(imp, q, e)
    BY <2>2, <2>4, <1>8 DEF SetDistant, HasEdge
  <2> QED
    BY <2>3, <2>4
<1>15. \A q \in Rank, e \in Edge :
         /\ HostsEnd(q, e)' <=> HostsEnd(q, e)
         /\ Told(q, e)' <=> Told(q, e)
         /\ BothLocal(st, q, e) <=> \A n \in Ends(e) : IsLocal(q, n)
  BY <1>1, <1>2, <1>11, <1>12, EndsAreNodes DEF HostsEnd, Told, BothLocal, IsLocal
<1>16. /\ linkBuffer' \in [Rank -> SUBSET Edge] /\ toClear' \in [Rank -> SUBSET Edge]
       /\ \A q \in Rank : linkBuffer'[q] = {}
       /\ \A q \in Rank, e \in Edge :
            e \in toClear'[q] <=> e \in linkBuffer[q] /\ \A n \in Ends(e) : IsDistant(q, n)
  BY <1>2, <1>3, EndsAreNodes DEF TypeOK, In, IsDistant
<1>17. TypeOK'
  BY <1>2, <1>3, <1>8, <1>16 DEF TypeOK
<1>18. Buffers'
  BY <1>2, <1>3, <1>16 DEF Buffers, Returned
<1>19. GhostsFresh' /\ DistantLinked'
  BY <1>2 DEF GhostsFresh, DistantLinked, Returned
\* The hosts of the ends of an edge that is committed have it now.
<1>20. \A p, q \in Rank, e \in Edge : e \in linkBuffer[p] /\ HostsEnd(q, e) => HasEdge(q, e)'
  BY <1>3, <1>7, <1>14 DEF Imported, Buffered
<1>21. EdgesInv'
  <2>1. EdgeStates'
    <3>1. SUFFICES ASSUME NEW q \in Rank, NEW e \in Edge, HasEdge(q, e)'
                   PROVE /\ \A n \in Ends(e) : Present(q, n)'
                         /\ edgeState'[q][e] = "LOCAL" <=> \A n \in Ends(e) : IsLocal(q, n)'
      BY DEF EdgeStates
    <3>2. CASE Imported(imp, q, e)
      <4>1. ASSUME NEW n \in Ends(e) PROVE Present(q, n)'
        <5>1. PICK r \in Rank : e \in imp[q][r]
          BY <3>2 DEF Imported
        <5>2. r \in Senders(imp, q, n)
          BY <5>1, <1>6 DEF Senders, GraphEdges, HasEdge
        <5> QED
          BY <5>2, <1>1, <1>9, <1>10, EndsAreNodes DEF Missing, Present, IsDistant
      <4> QED
        BY <3>2, <4>1, <1>11, <1>12, <1>14, <1>15, EndsAreNodes
    <3>3. CASE ~Imported(imp, q, e)
      BY <3>1, <3>3, <1>3, <1>11, <1>12, <1>14, EndsAreNodes DEF EdgeStates
    <3> QED
      BY <3>2, <3>3
  <2>2. FreshEdges'
    BY <1>2, <1>3, <1>5, <1>14, <1>15, <1>16 DEF FreshEdges, Imported
  <2>3. Buffered'
    BY <1>16 DEF Buffered
  <2>4. LinkedLive'
    BY <1>2, <1>3 DEF LinkedLive
  <2>5. Messages'
    BY <1>2, <1>3, <1>15 DEF Messages
  <2>6. OnHosts'
    <3>1. SUFFICES ASSUME NEW q \in Rank, NEW e \in Edge, HasEdge(q, e)', ~HostsEnd(q, e)
                   PROVE e \in toClear'[q]
      BY <1>15 DEF OnHosts
    <3>2. HasEdge(q, e)
      BY <3>1, <1>6, <1>14 DEF Imported
    <3>3. toClear[q] = {} /\ exported[q] = {}
      BY <1>2, <1>3 DEF Buffers
    <3>4. e \in linkBuffer[q]
      BY <3>1, <3>2, <3>3, <1>3 DEF OnHosts
    <3>5. \A n \in Ends(e) : IsDistant(q, n)
      BY <3>1, <3>2, <1>3, NodeStates, EndsAreNodes DEF EdgeStates, HostsEnd
    <3> QED
      BY <3>4, <3>5, <1>16
  <2>7. LinkedOnHosts'
    BY <1>2, <1>3, <1>14, <1>15, <1>20 DEF LinkedOnHosts, TypeOK
  <2>8. UnlinkedErased'
    <3>1. SUFFICES ASSUME NEW q \in Rank, NEW e \in Edge, e \notin linked, HasEdge(q, e)'
                   PROVE Told(q, e) \/ \E n \in Ends(e) : IsPending(n)
      BY <1>2, <1>11, <1>12, <1>15, EndsAreNodes DEF UnlinkedErased
    <3>2. CASE HasEdge(q, e)
      BY <3>1, <3>2, <1>3 DEF UnlinkedErased
    <3>3. CASE Imported(imp, q, e)
      BY <3>1, <3>3, <1>3, <1>6 DEF UnlinkedErased, Imported
    <3> QED
      BY <3>1, <3>2, <3>3, <1>14
  <2>9. HostsTold'
    <3>1. SUFFICES ASSUME NEW p \in Rank, NEW q \in Rank, NEW e \in Edge,
                          p # q, HasEdge(p, e)', HostsEnd(p, e), HostsEnd(q, e)
                   PROVE HasEdge(q, e)' \/ <<p, e>> \in unlinkMigration[q]
      BY <1>2, <1>15 DEF HostsTold
    <3>2. CASE \E r \in Rank : e \in linkBuffer[r]
      BY <3>1, <3>2, <1>20
    <3>3. CASE ~ \E r \in Rank : e \in linkBuffer[r]
      <4>1. HasEdge(p, e)
        BY <3>1, <3>3, <1>5, <1>14 DEF Imported
      <4> QED
        BY <3>1, <3>3, <4>1, <1>2, <1>3, <1>14 DEF HostsTold
    <3> QED
      BY <3>2, <3>3
  <2>10. RemovedUnlinked'
    <3>1. ASSUME NEW q \in Rank, NEW n \in toRemove[q], IsLocal(q, n),
                 NEW e \in Edge, HasEdge(q, e)', n \in Ends(e)
          PROVE \A m \in Ends(e) : IsLocal(q, m)
      <4>1. ~Imported(imp, q, e)
        BY <3>1, <1>3, <1>5 DEF RemovedUnlinked, Imported
      <4> QED
        BY <3>1, <4>1, <1>3, <1>14 DEF RemovedUnlinked
    <3>2. \A q \in Rank : \A n \in toRemove[q] : n \in Node
      BY <1>3 DEF TypeOK
    <3> QED
      BY <3>1, <3>2, <1>2, <1>11, <1>12, <1>16, EndsAreNodes DEF RemovedUnlinked
  <2>11. ToClearInv'
    <3>1. \A q \in Rank : \A e \in toClear'[q] : e \in Edge
      BY <1>16
    <3>2. \A q \in Rank, e \in Edge : (\A n \in Ends(e) : IsDistant(q, n)) => ~HostsEnd(q, e)
      BY DEF HostsEnd, IsLocal, IsDistant
    <3> QED
      BY <3>1, <3>2, <1>3, <1>14, <1>15, <1>16 DEF ToClearInv, Buffered
  <2> QED
    BY <2>1, <2>2, <2>3, <2>4, <2>5, <2>6, <2>7, <2>8, <2>9, <2>10, <2>11, <1>19 DEF EdgesInv
<1>22. \A n \in Node, q \in Rank : IsLocal(q, n) => data'[q][n] = data[q][n]
  <2>1. \A n \in Node, q \in Rank : IsLocal(q, n) => ~Missing(st, imp, q, n)
    BY <1>9 DEF IsLocal, Present
  <2>2. \A n \in Node, q \in Rank : ~Missing(st, imp, q, n) => data'[q][n] = dat[q][n]
    BY <1>8
  <2>3. dat = data
    BY <1>1
  <2> QED
    BY <2>1, <2>2, <2>3
<1> QED
  BY <1>11, <1>13, <1>17, <1>18, <1>19, <1>21, <1>22 DEF IInv

\* The host of a node to remove tells the other hosts of its edges.
LEMMA MigrateRemovalsStep ==
  ASSUME IInv, MigrateRemovals, Allow = {}
  PROVE IInv'
<1> DEFINE asked(q) == {n \in Node : Removers(q, n) # {}}
           E(q) == GraphEdges(q) \cap EdgesOf(asked(q))
<1>1. /\ phase = "removals"
      /\ phase' = IF \A q \in Rank : asked(q) \subseteq Graph(q) THEN "unlinks" ELSE "failed"
      /\ edgeState' = [q \in Rank |-> EraseEdges(q, E(q))]
      /\ unlinkMigration' = [q \in Rank |-> unlinkMigration[q] \cup UnlinkMessages(q, E(q))]
      /\ UNCHANGED <<call, ops, state, location, data, managed, newLocal, linkBuffer,
                     toClear, toRemove, exported, fresh, live, linked>>
  BY DEF MigrateRemovals, locationVars, idealVars
<1>2. /\ TypeOK /\ FreshNodes /\ LocalOnce /\ KnownHosted /\ PresentKnown /\ Removals
      /\ DistantLocated /\ OriginsKnow /\ ExportedDistant /\ Buffers /\ EdgeStates
      /\ FreshEdges /\ Buffered /\ LinkedLive /\ Messages /\ OnHosts /\ LinkedOnHosts
      /\ UnlinkedErased /\ HostsTold /\ RemovedUnlinked /\ ToClearInv
  BY Parts
\* A host is asked for the nodes that the others remove.
<1>3. \A q \in Rank, n \in Node : n \in asked(q) <=>
        \E r \in Rank : n \in toRemove[r] /\ IsDistant(r, n) /\ location[r][n] = q
  BY DEF Removers, IsDistant
<1>4. \A q \in Rank, e \in Edge :
        e \in E(q) <=> HasEdge(q, e) /\ \E n \in Ends(e) : n \in asked(q)
  BY EndsAreNodes DEF GraphEdges, HasEdge, EdgesOf
<1>5. \A q \in Rank : E(q) \subseteq Edge
  BY DEF EdgesOf
<1> HIDE DEF asked, E
<1>6. \A q \in Rank, n \in Node : n \in asked(q) => IsPending(n) /\ IsLocal(q, n)
  BY <1>1, <1>2, <1>3 DEF IsPending, DistantLocated, IsKnown
<1>7. \A n \in Node, q \in Rank : IsLocal(q, n) =>
        \A r \in Rank : n \in toRemove[r] /\ r # q => n \in asked(q)
  <2>1. SUFFICES ASSUME NEW n \in Node, NEW q \in Rank, IsLocal(q, n),
                        NEW r \in Rank, n \in toRemove[r], r # q
                 PROVE n \in asked(q)
    OBVIOUS
  <2>2. Present(r, n) /\ ~IsLocal(r, n) /\ IsKnown(n)
    BY <2>1, <1>2 DEF Removals, LocalOnce, IsKnown, IsPending
  <2>3. IsDistant(r, n)
    BY <2>2, <1>2, NodeStates
  <2>4. IsLocal(location[r][n], n) /\ location[r][n] \in Rank
    BY <2>2, <2>3, <1>1, <1>2 DEF DistantLocated, TypeOK
  <2>5. location[r][n] = q
    BY <2>1, <2>4, <1>2 DEF LocalOnce
  <2> QED
    BY <2>1, <2>3, <2>5, <1>3
<1>8. phase' = "unlinks"
  <2>1. \A q \in Rank : asked(q) \subseteq Node
    BY DEF asked
  <2>2. \A q \in Rank : asked(q) \subseteq Graph(q)
    BY <2>1, <1>6 DEF Graph, IsLocal
  <2> QED
    BY <2>2, <1>1
<1>9. \A p \in Rank :
        /\ \A q \in Rank, e \in Edge :
             <<q, e>> \in UnlinkMessages(p, E(p)) => e \in E(p) /\ HostsEnd(q, e)
        /\ \A q \in Rank, e \in E(p) :
             q # p /\ HasEdge(p, e) /\ HostsEnd(q, e) => <<q, e>> \in UnlinkMessages(p, E(p))
        /\ UnlinkMessages(p, E(p)) \subseteq Rank \X Edge
  <2>1. TypeOK /\ LocalOnce /\ PresentKnown /\ DistantLocated /\ EdgeStates
        /\ phase \notin {"clear", "locations"}
    BY <1>1, <1>2
  <2>2. TAKE p \in Rank
  <2>3. PICK S \in SUBSET Edge : S = E(p)
    BY <1>5
  <2>4. /\ \A q \in Rank, e \in Edge :
             <<q, e>> \in UnlinkMessages(p, S) => e \in S /\ HostsEnd(q, e)
        /\ \A q \in Rank, e \in S :
             q # p /\ HasEdge(p, e) /\ HostsEnd(q, e) => <<q, e>> \in UnlinkMessages(p, S)
        /\ UnlinkMessages(p, S) \subseteq Rank \X Edge
    BY <2>1, MessagesToHosts
  <2> QED
    BY <2>3, <2>4
<1>10. /\ edgeState' \in [Rank -> [Edge -> {"ABSENT", "LOCAL", "DISTANT"}]]
       /\ \A q \in Rank, e \in Edge : e \in E(q) => edgeState'[q][e] = "ABSENT"
       /\ \A q \in Rank, e \in Edge : e \notin E(q) => edgeState'[q][e] = edgeState[q][e]
  <2>1. \A q \in Rank :
          /\ EraseEdges(q, E(q)) \in [Edge -> {"ABSENT", "LOCAL", "DISTANT"}]
          /\ \A e \in Edge : e \in E(q) => EraseEdges(q, E(q))[e] = "ABSENT"
          /\ \A e \in Edge : e \notin E(q) => EraseEdges(q, E(q))[e] = edgeState[q][e]
    BY <1>2 DEF EraseEdges, TypeOK
  <2> QED
    BY <2>1, <1>1
<1>11. /\ unlinkMigration' \in [Rank -> SUBSET (Rank \X Edge)]
       /\ \A q \in Rank : unlinkMigration'[q] = unlinkMigration[q] \cup UnlinkMessages(q, E(q))
  BY <1>1, <1>2, <1>9 DEF TypeOK
<1>12. \A q \in Rank, e \in Edge :
         /\ HasEdge(q, e)' <=> HasEdge(q, e) /\ e \notin E(q)
         /\ Told(q, e)' <=> Told(q, e) \/ \E r \in Rank : <<q, e>> \in UnlinkMessages(r, E(r))
  <2>1. \A q \in Rank, e \in Edge : HasEdge(q, e)' <=> HasEdge(q, e) /\ e \notin E(q)
    BY <1>10 DEF HasEdge
  <2>2. \A q \in Rank, e \in Edge :
          Told(q, e)' <=> Told(q, e) \/ \E r \in Rank : <<q, e>> \in UnlinkMessages(r, E(r))
    BY <1>11 DEF Told
  <2> QED
    BY <2>1, <2>2
<1>13. \A q \in Rank, n \in Node :
         /\ IsLocal(q, n)' <=> IsLocal(q, n)
         /\ Present(q, n)' <=> Present(q, n)
  BY <1>1 DEF IsLocal, Present
<1>14. \A n \in Node : IsPending(n)' <=> IsPending(n)
  BY <1>1 DEF IsPending
<1>15. \A q \in Rank, e \in Edge : HostsEnd(q, e)' <=> HostsEnd(q, e)
  BY <1>13, EndsAreNodes DEF HostsEnd
<1>16. \A q \in Rank : linkBuffer[q] = {} /\ linkBuffer'[q] = {}
  BY <1>1, <1>2 DEF Buffers
<1>17. TypeOK'
  BY <1>1, <1>2, <1>8, <1>10, <1>11 DEF TypeOK
<1>18. Buffers'
  BY <1>1, <1>2, <1>8 DEF Buffers, Returned
<1>19. NodesInv'
  BY <1>1, <1>8, NodesUnchanged DEF IInv
<1>20. GhostsFresh' /\ DistantLinked'
  BY <1>8 DEF GhostsFresh, DistantLinked, Returned
\* The edges that are erased have an end to remove.
<1>21. \A q \in Rank, e \in Edge : e \in E(q) => e \notin linked
  BY <1>2, <1>4, <1>6, EndsAreNodes DEF LinkedLive, Removals
<1>22. EdgesInv'
  <2>1. EdgeStates'
    <3>1. \A q \in Rank, e \in Edge : HasEdge(q, e)' =>
            HasEdge(q, e) /\ edgeState'[q][e] = edgeState[q][e]
      BY <1>10, <1>12
    <3> QED
      BY <3>1, <1>2, <1>13, EndsAreNodes DEF EdgeStates
  <2>2. FreshEdges'
    BY <1>1, <1>2, <1>4, <1>9, <1>12 DEF FreshEdges
  <2>3. Buffered'
    BY <1>16 DEF Buffered
  <2>4. LinkedLive'
    BY <1>1, <1>2 DEF LinkedLive
  <2>5. Messages'
    BY <1>1, <1>2, <1>9, <1>12, <1>15, <1>21 DEF Messages
  <2>6. OnHosts'
    BY <1>1, <1>2, <1>12, <1>15 DEF OnHosts
  <2>7. LinkedOnHosts'
    BY <1>1, <1>2, <1>12, <1>15, <1>21 DEF LinkedOnHosts, TypeOK
  <2>8. UnlinkedErased'
    BY <1>1, <1>2, <1>12, <1>14, EndsAreNodes DEF UnlinkedErased
  <2>9. HostsTold'
    <3>1. SUFFICES ASSUME NEW p \in Rank, NEW q \in Rank, NEW e \in Edge,
                          p # q, HasEdge(p, e)', HostsEnd(p, e),
                          NEW n \in Ends(e), IsPending(n), IsLocal(q, n)
                   PROVE <<p, e>> \in unlinkMigration'[q]
      BY <1>8, <1>13, <1>14, <1>15, EndsAreNodes DEF HostsTold
    <3>2. n \in Node /\ HostsEnd(q, e) /\ HasEdge(p, e)
      BY <3>1, <1>12, EndsAreNodes DEF HostsEnd
    <3>3. PICK r \in Rank : n \in toRemove[r]
      BY <3>1 DEF IsPending
    <3>4. CASE HasEdge(q, e)
      <4>1. r # q
        BY <3>1, <3>2, <3>3, <3>4, <1>2, EndsAreNodes DEF RemovedUnlinked, LocalOnce, HostsEnd
      <4>2. e \in E(q)
        BY <3>1, <3>2, <3>3, <3>4, <4>1, <1>4, <1>7
      <4> QED
        BY <3>1, <3>4, <4>2, <1>9, <1>11
    <3>5. CASE ~HasEdge(q, e)
      <4>1. <<p, e>> \in unlinkMigration[q]
        BY <3>1, <3>2, <3>5, <1>1, <1>2, <1>16 DEF HostsTold
      <4> QED
        BY <4>1, <1>11
    <3> QED
      BY <3>4, <3>5
  <2>10. RemovedUnlinked'
    BY <1>1, <1>2, <1>12, <1>13, <1>16, EndsAreNodes DEF RemovedUnlinked, TypeOK
  <2>11. ToClearInv'
    <3>1. \A q \in Rank : \A e \in toClear[q] : e \in Edge /\ e \notin E(q)
      BY <1>2, <1>4, <1>6, EndsAreNodes DEF ToClearInv, HostsEnd, TypeOK
    <3> QED
      BY <3>1, <1>1, <1>2, <1>12, <1>15 DEF ToClearInv
  <2> QED
    BY <2>1, <2>2, <2>3, <2>4, <2>5, <2>6, <2>7, <2>8, <2>9, <2>10, <2>11, <1>20 DEF EdgesInv
<1> QED
  BY <1>17, <1>18, <1>19, <1>20, <1>22 DEF IInv

\* Messages, edges to clear and nodes to remove are about what is there, once.
LEMMA MigrateUnlinksStep ==
  ASSUME IInv, MigrateUnlinks, Allow = {}
  PROVE IInv'
<1> DEFINE unlinked(q) == {e \in Edge : \E r \in Rank : <<q, e>> \in unlinkMigration[r]}
           calls(q, n) == Removers(q, n) \cup {r \in {q} : n \in toRemove[q]}
           twice(q, n) == \E r, s \in calls(q, n) : r # s
           gone(q) == {n \in Node : calls(q, n) # {}}
           erased(q) == unlinked(q) \cup toClear[q] \cup EdgesOf(gone(q))
<1>1. /\ phase = "unlinks"
      /\ state' = [q \in Rank |-> [n \in Node |->
              IF n \in gone(q) THEN "ABSENT" ELSE state[q][n]]]
      /\ edgeState' = [q \in Rank |-> EraseEdges(q, erased(q))]
      /\ phase' = IF \E q \in Rank :
                       \/ \E n \in Node : twice(q, n)
                       \/ ~(toClear[q] \subseteq GraphEdges(q) \ unlinked(q))
                    THEN "failed"
                  ELSE IF call = "synchronize" THEN "clear" ELSE "export"
      /\ unlinkMigration' = [q \in Rank |-> {}]
      /\ toClear' = [q \in Rank |-> {}]
      /\ toRemove' = [q \in Rank |-> {}]
      /\ UNCHANGED <<call, ops, location, data, managed, newLocal, linkBuffer, exported,
                     fresh, live, linked>>
  BY DEF MigrateUnlinks, locationVars, idealVars
<1>2. /\ TypeOK /\ FreshNodes /\ LocalOnce /\ KnownHosted /\ PresentKnown /\ Removals
      /\ DistantLocated /\ OriginsKnow /\ ExportedDistant /\ Buffers /\ EdgeStates
      /\ FreshEdges /\ Buffered /\ LinkedLive /\ Messages /\ OnHosts /\ LinkedOnHosts
      /\ UnlinkedErased /\ HostsTold /\ RemovedUnlinked /\ ToClearInv
  BY Parts
<1>3. \A q \in Rank : linkBuffer[q] = {} /\ exported[q] = {}
  BY <1>1, <1>2 DEF Buffers
<1>4. \A q \in Rank, n \in Node : calls(q, n) \subseteq {r \in Rank : n \in toRemove[r]}
  BY DEF Removers
<1>5. ~ \E q \in Rank, n \in Node : twice(q, n)
  BY <1>2, <1>4 DEF Removals
\* A node to remove goes from its host.
<1>6. \A q \in Rank, n \in Node :
        /\ n \in gone(q) => IsPending(n)
        /\ IsPending(n) /\ IsLocal(q, n) => n \in gone(q)
  <2>1. SUFFICES ASSUME NEW q \in Rank, NEW n \in Node
                 PROVE /\ n \in gone(q) => IsPending(n)
                       /\ IsPending(n) /\ IsLocal(q, n) => n \in gone(q)
    OBVIOUS
  <2>2. n \in gone(q) => IsPending(n)
    BY <1>4 DEF IsPending
  <2>3. ASSUME IsPending(n), IsLocal(q, n)
        PROVE n \in gone(q)
    <3>1. PICK r \in Rank : n \in toRemove[r]
      BY <2>3 DEF IsPending
    <3>2. CASE r = q
      BY <3>1, <3>2
    <3>3. CASE r # q
      <4>1. Present(r, n) /\ ~IsLocal(r, n) /\ IsKnown(n)
        BY <2>3, <3>1, <3>3, <1>2 DEF Removals, LocalOnce, IsKnown
      <4>2. IsDistant(r, n)
        BY <4>1, <1>2, NodeStates
      <4>3. IsLocal(location[r][n], n) /\ location[r][n] \in Rank
        BY <4>1, <4>2, <1>1, <1>2 DEF DistantLocated, TypeOK
      <4>4. location[r][n] = q
        BY <2>3, <4>3, <1>2 DEF LocalOnce
      <4>5. r \in Removers(q, n)
        BY <3>1, <4>2, <4>4 DEF Removers, IsDistant
      <4> QED
        BY <4>5
    <3> QED
      BY <3>2, <3>3
  <2> QED
    BY <2>2, <2>3
<1>7. \A q \in Rank, e \in Edge : e \in unlinked(q) <=> Told(q, e)
  BY DEF Told
<1>8. \A q \in Rank, e \in Edge :
        e \in erased(q) <=> \/ Told(q, e) \/ e \in toClear[q]
                            \/ \E n \in Ends(e) : n \in gone(q)
  BY <1>7, EndsAreNodes DEF EdgesOf
<1>9. \A q \in Rank : toClear[q] \subseteq GraphEdges(q) \ unlinked(q)
  BY <1>2, <1>7 DEF ToClearInv, Messages, GraphEdges, HasEdge, TypeOK
<1>10. phase' = IF call = "synchronize" THEN "clear" ELSE "export"
  BY <1>1, <1>5, <1>9
<1> HIDE DEF unlinked, calls, twice, gone, erased
<1>11. /\ phase' \in {"clear", "export"}
       /\ phase' = "clear" => call = "synchronize"
       /\ phase' = "export" => call = "distribute" /\ \A q \in Rank : toRemove[q] = {}
  BY <1>1, <1>2, <1>10 DEF Buffers, TypeOK
<1>12. /\ state' \in [Rank -> [Node -> {"ABSENT", "LOCAL", "DISTANT"}]]
       /\ \A q \in Rank, n \in Node : n \in gone(q) => state'[q][n] = "ABSENT"
       /\ \A q \in Rank, n \in Node : n \notin gone(q) => state'[q][n] = state[q][n]
  BY <1>1, <1>2 DEF TypeOK
<1>13. /\ edgeState' \in [Rank -> [Edge -> {"ABSENT", "LOCAL", "DISTANT"}]]
       /\ \A q \in Rank, e \in Edge : e \in erased(q) => edgeState'[q][e] = "ABSENT"
       /\ \A q \in Rank, e \in Edge : e \notin erased(q) => edgeState'[q][e] = edgeState[q][e]
  <2>1. \A q \in Rank :
          /\ EraseEdges(q, erased(q)) \in [Edge -> {"ABSENT", "LOCAL", "DISTANT"}]
          /\ \A e \in Edge : e \in erased(q) => EraseEdges(q, erased(q))[e] = "ABSENT"
          /\ \A e \in Edge : e \notin erased(q) => EraseEdges(q, erased(q))[e] = edgeState[q][e]
    BY <1>2 DEF EraseEdges, TypeOK
  <2> QED
    BY <2>1, <1>1
<1>14. \A q \in Rank : unlinkMigration'[q] = {} /\ toClear'[q] = {} /\ toRemove'[q] = {}
  BY <1>1
<1>15. TypeOK'
  BY <1>1, <1>2, <1>11, <1>12, <1>13 DEF TypeOK
<1>16. Buffers'
  BY <1>1, <1>2, <1>3, <1>11, <1>14 DEF Buffers, Returned
<1>17. GhostsFresh' /\ DistantLinked'
  BY <1>11 DEF GhostsFresh, DistantLinked, Returned
<1>18. \A q \in Rank, n \in Node :
         /\ Present(q, n)' <=> Present(q, n) /\ n \notin gone(q)
         /\ IsDistant(q, n)' => IsDistant(q, n) /\ n \notin gone(q)
         /\ IsLocal(q, n)' <=> IsLocal(q, n) /\ n \notin gone(q)
  BY <1>12 DEF Present, IsLocal, IsDistant
<1>19. \A q \in Rank, n \in Node : IsLocal(q, n)' <=> IsLocal(q, n) /\ ~IsPending(n)
  BY <1>6, <1>18
<1>20. \A n \in Node : ~IsPending(n)' /\ (IsKnown(n)' <=> n \in live)
  BY <1>1, <1>14 DEF IsPending, IsKnown
<1>21. \A n \in live : n \in Node /\ ~IsPending(n)
  BY <1>2 DEF Removals, TypeOK
<1>22. NodesInv'
  <2>1. FreshNodes'
    BY <1>1, <1>2, <1>18, <1>20 DEF FreshNodes, IsKnown
  <2>2. LocalOnce'
    BY <1>1, <1>2, <1>18 DEF LocalOnce
  <2>3. KnownHosted'
    BY <1>2, <1>19, <1>20, <1>21 DEF KnownHosted, IsKnown
  <2>4. PresentKnown'
    <3>1. SUFFICES ASSUME NEW q \in Rank, NEW n \in Node, Present(q, n)',
                          phase' # "clear" \/ IsLocal(q, n)'
                   PROVE n \in live
      BY <1>20 DEF PresentKnown
    <3>2. IsKnown(n)
      BY <3>1, <1>1, <1>2, <1>18 DEF PresentKnown
    <3>3. ~IsPending(n)
      BY <3>1, <1>11, <1>19 DEF IsPending
    <3> QED
      BY <3>2, <3>3 DEF IsKnown
  <2>5. Removals'
    BY <1>14, <1>20, <1>21, <1>1 DEF Removals
  <2>6. DistantLocated'
    <3>1. SUFFICES ASSUME NEW m \in Node, NEW q \in Rank, IsKnown(m)', IsDistant(q, m)'
                   PROVE IsLocal(location[q][m], m)'
      BY DEF DistantLocated
    <3>2. m \in live /\ ~IsPending(m) /\ IsKnown(m) /\ IsDistant(q, m)
      BY <3>1, <1>18, <1>20, <1>21 DEF IsKnown
    <3>3. IsLocal(location[q][m], m) /\ location[q][m] \in Rank
      BY <3>2, <1>1, <1>2 DEF DistantLocated, TypeOK
    <3> QED
      BY <3>2, <3>3, <1>1, <1>19 DEF IsLocal
  <2>7. OriginsKnow'
    <3>1. \A n \in live, q \in Rank : IsLocal(q, n) => IsLocal(q, n)'
      BY <1>19, <1>21
    <3>2. \A n \in live : managed[n] \in Rank /\ managed'[n] = managed[n]
      BY <1>1, <1>2, <1>21 DEF TypeOK
    <3> QED
      BY <3>1, <3>2, <1>1, <1>2, <1>11 DEF OriginsKnow, IsLocal
  <2>8. ExportedDistant'
    BY <1>1, <1>3 DEF ExportedDistant
  <2> QED
    BY <2>1, <2>2, <2>3, <2>4, <2>5, <2>6, <2>7, <2>8 DEF NodesInv
<1>23. \A q \in Rank, e \in Edge :
         /\ HasEdge(q, e)' <=> /\ HasEdge(q, e) /\ ~Told(q, e) /\ e \notin toClear[q]
                               /\ \A n \in Ends(e) : n \notin gone(q)
         /\ HasEdge(q, e)' => edgeState'[q][e] = edgeState[q][e]
  BY <1>8, <1>13 DEF HasEdge
<1>24. \A q \in Rank, e \in Edge :
         /\ HostsEnd(q, e)' => HostsEnd(q, e)
         /\ HasEdge(q, e)' => (HostsEnd(q, e)' <=> HostsEnd(q, e))
         /\ ~Told(q, e)'
  <2>1. \A q \in Rank, e \in Edge : HostsEnd(q, e)' => HostsEnd(q, e)
    BY <1>18, EndsAreNodes DEF HostsEnd
  <2>2. \A q \in Rank, e \in Edge : HasEdge(q, e)' /\ HostsEnd(q, e) => HostsEnd(q, e)'
    BY <1>18, <1>23, EndsAreNodes DEF HostsEnd
  <2>3. \A q \in Rank, e \in Edge : ~Told(q, e)'
    BY <1>14 DEF Told
  <2> QED
    BY <2>1, <2>2, <2>3
<1>25. \A q \in Rank, e \in Edge : HasEdge(q, e)' => HostsEnd(q, e) /\ HostsEnd(q, e)'
  <2>1. \A q \in Rank, e \in Edge : HasEdge(q, e)' => HostsEnd(q, e)
    BY <1>2, <1>3, <1>23 DEF OnHosts
  <2> QED
    BY <2>1, <1>24
\* What remains is linked: the host of an end that is removed has told the other.
<1>26. \A q \in Rank, e \in Edge : HasEdge(q, e)' => e \in linked
  <2>1. SUFFICES ASSUME NEW q \in Rank, NEW e \in Edge, HasEdge(q, e)', e \notin linked
                 PROVE FALSE
    OBVIOUS
  <2>2. HasEdge(q, e) /\ ~Told(q, e) /\ \A n \in Ends(e) : n \notin gone(q)
    BY <2>1, <1>23
  <2>3. PICK n \in Ends(e) : IsPending(n)
    BY <2>1, <2>2, <1>2 DEF UnlinkedErased
  <2>4. n \in Node /\ IsKnown(n)
    BY <2>3, EndsAreNodes DEF IsKnown
  <2>5. PICK r \in Rank : IsLocal(r, n)
    BY <2>4, <1>2 DEF KnownHosted
  <2>6. r # q
    BY <2>2, <2>3, <2>4, <2>5, <1>6
  <2>7. <<q, e>> \in unlinkMigration[r]
    BY <2>1, <2>2, <2>3, <2>5, <2>6, <1>1, <1>2, <1>3, <1>25 DEF HostsTold
  <2> QED
    BY <2>2, <2>7 DEF Told
<1>27. \A q \in Rank : \A e \in linked : HostsEnd(q, e)' => HasEdge(q, e)'
  <2>1. SUFFICES ASSUME NEW q \in Rank, NEW e \in linked, HostsEnd(q, e)'
                 PROVE HasEdge(q, e)'
    OBVIOUS
  <2>2. e \in Edge
    BY <1>2 DEF TypeOK
  <2>3. HostsEnd(q, e)
    BY <2>1, <2>2, <1>24
  <2>4. HasEdge(q, e)
    BY <2>3, <1>2, <1>3 DEF LinkedOnHosts
  <2>5. ~Told(q, e) /\ e \notin toClear[q]
    BY <2>2, <2>3, <1>2 DEF Messages, ToClearInv
  <2>6. \A n \in Ends(e) : n \notin gone(q)
    BY <2>2, <1>2, <1>6, <1>21, EndsAreNodes DEF LinkedLive
  <2> QED
    BY <2>2, <2>4, <2>5, <2>6, <1>23
<1>28. EdgesInv'
  <2>1. EdgeStates'
    <3>1. SUFFICES ASSUME NEW q \in Rank, NEW e \in Edge, HasEdge(q, e)'
                   PROVE /\ \A n \in Ends(e) : Present(q, n)'
                         /\ edgeState'[q][e] = "LOCAL" <=> \A n \in Ends(e) : IsLocal(q, n)'
      BY DEF EdgeStates
    <3>2. /\ \A n \in Ends(e) : Present(q, n)
          /\ edgeState[q][e] = "LOCAL" <=> \A n \in Ends(e) : IsLocal(q, n)
      BY <3>1, <1>2, <1>23 DEF EdgeStates
    <3>3. \A n \in Ends(e) : n \in Node /\ n \notin gone(q)
      BY <3>1, <1>23, EndsAreNodes
    <3> QED
      BY <3>1, <3>2, <3>3, <1>18, <1>23
  <2>2. FreshEdges'
    BY <1>1, <1>2, <1>23, <1>24 DEF FreshEdges
  <2>3. Buffered'
    BY <1>1, <1>3 DEF Buffered
  <2>4. LinkedLive'
    BY <1>1, <1>2 DEF LinkedLive
  <2>5. Messages'
    BY <1>24 DEF Messages
  <2>6. OnHosts'
    BY <1>25 DEF OnHosts
  <2>7. LinkedOnHosts'
    BY <1>1, <1>27 DEF LinkedOnHosts
  <2>8. UnlinkedErased'
    BY <1>1, <1>26 DEF UnlinkedErased
  <2>9. HostsTold'
    BY <1>11, <1>26, <1>27 DEF HostsTold
  <2>10. RemovedUnlinked'
    BY <1>1, <1>3, <1>14 DEF RemovedUnlinked
  <2>11. ToClearInv'
    BY <1>14 DEF ToClearInv
  <2> QED
    BY <2>1, <2>2, <2>3, <2>4, <2>5, <2>6, <2>7, <2>8, <2>9, <2>10, <2>11, <1>17 DEF EdgesInv
<1> QED
  BY <1>15, <1>16, <1>17, <1>22, <1>28 DEF IInv

-----------------------------------------------------------------------------
(* clearNode() *)

\* n is an end of an edge of p to a node of p.
Kept(p, n) == \E e \in Edge : HasEdge(p, e) /\ n \in Ends(e) /\ HostsEnd(p, e)

\* What is left of the graphs: LOCAL nodes, DISTANT nodes that are kept, and edges
\* with a LOCAL end.
NodesCleared(C) ==
  /\ state' \in [Rank -> [Node -> {"ABSENT", "LOCAL", "DISTANT"}]]
  /\ edgeState' \in [Rank -> [Edge -> {"ABSENT", "LOCAL", "DISTANT"}]]
  /\ \A p \in Rank, n \in Node :
       /\ IsLocal(p, n)' <=> IsLocal(p, n)
       /\ IsDistant(p, n)' <=> IsDistant(p, n) /\ (n \in C[p] => Kept(p, n))
       /\ Present(p, n)' <=> Present(p, n) /\ (n \in C[p] => Kept(p, n))
  /\ \A p \in Rank, e \in Edge :
       /\ HasEdge(p, e)' <=> HasEdge(p, e) /\ HostsEnd(p, e)
       /\ HasEdge(p, e)' => edgeState'[p][e] = edgeState[p][e]

\* ClearNodes, at each node and each edge, when the DISTANT ends of edges without a
\* LOCAL one are among the nodes to clear.
LEMMA ClearNodesAt ==
  ASSUME TypeOK, NEW C \in [Rank -> SUBSET Node], ClearNodes(C),
         \A p \in Rank : \A n \in C[p] : IsDistant(p, n),
         \A p \in Rank, e \in Edge : HasEdge(p, e) /\ ~HostsEnd(p, e) =>
           \E n \in Ends(e) : n \in C[p]
  PROVE NodesCleared(C)
<1> DEFINE kept(p, n) == \E e \in GraphEdges(p) :
                           n \in Ends(e) /\ Ends(e) \cap In(p, "LOCAL") # {}
           obsolete(p) == {e \in EdgesOf(C[p]) : Ends(e) \cap In(p, "LOCAL") = {}}
<1>1. /\ state' = [p \in Rank |-> [n \in Node |->
           IF n \in C[p] /\ ~kept(p, n) THEN "ABSENT" ELSE state[p][n]]]
      /\ edgeState' = [p \in Rank |-> EraseEdges(p, obsolete(p))]
  BY DEF ClearNodes
<1>2. \A p \in Rank, e \in Edge : Ends(e) \cap In(p, "LOCAL") # {} <=> HostsEnd(p, e)
  BY EndsAreNodes DEF In, HostsEnd, IsLocal
<1>3. \A p \in Rank, n \in Node : kept(p, n) <=> Kept(p, n)
  BY <1>2 DEF Kept, GraphEdges, HasEdge
<1>4. \A p \in Rank, e \in Edge :
        e \in obsolete(p) <=> (\E n \in Ends(e) : n \in C[p]) /\ ~HostsEnd(p, e)
  BY <1>2 DEF EdgesOf
<1> HIDE DEF kept, obsolete
<1>5. /\ state' \in [Rank -> [Node -> {"ABSENT", "LOCAL", "DISTANT"}]]
      /\ \A p \in Rank, n \in Node : n \in C[p] /\ ~Kept(p, n) => state'[p][n] = "ABSENT"
      /\ \A p \in Rank, n \in Node : ~(n \in C[p] /\ ~Kept(p, n)) => state'[p][n] = state[p][n]
  BY <1>1, <1>3 DEF TypeOK
<1>6. /\ edgeState' \in [Rank -> [Edge -> {"ABSENT", "LOCAL", "DISTANT"}]]
      /\ \A p \in Rank, e \in Edge : e \in obsolete(p) => edgeState'[p][e] = "ABSENT"
      /\ \A p \in Rank, e \in Edge : e \notin obsolete(p) => edgeState'[p][e] = edgeState[p][e]
  <2>1. \A p \in Rank :
          /\ EraseEdges(p, obsolete(p)) \in [Edge -> {"ABSENT", "LOCAL", "DISTANT"}]
          /\ \A e \in Edge : e \in obsolete(p) => EraseEdges(p, obsolete(p))[e] = "ABSENT"
          /\ \A e \in Edge : e \notin obsolete(p) => EraseEdges(p, obsolete(p))[e] = edgeState[p][e]
    BY DEF EraseEdges, TypeOK
  <2> QED
    BY <2>1, <1>1
<1>7. \A p \in Rank, n \in Node :
        /\ IsLocal(p, n)' <=> IsLocal(p, n)
        /\ IsDistant(p, n)' <=> IsDistant(p, n) /\ (n \in C[p] => Kept(p, n))
        /\ Present(p, n)' <=> Present(p, n) /\ (n \in C[p] => Kept(p, n))
  BY <1>5 DEF IsLocal, IsDistant, Present
<1>8. \A p \in Rank, e \in Edge :
        /\ HasEdge(p, e)' <=> HasEdge(p, e) /\ HostsEnd(p, e)
        /\ HasEdge(p, e)' => edgeState'[p][e] = edgeState[p][e]
  BY <1>4, <1>6 DEF HasEdge
<1> QED
  BY <1>5, <1>6, <1>7, <1>8 DEF NodesCleared

\* When nothing is about to be committed or erased, EdgesInv says that processes
\* have the edges of the nodes they host.
LEMMA EdgesSettled ==
  ASSUME IInv, phase \in {"clear", "export", "locations", "data"}
  PROVE /\ \A p \in Rank, e \in Edge : HasEdge(p, e) => e \in linked
        /\ \A p \in Rank : \A e \in linked : HostsEnd(p, e) => HasEdge(p, e)
        /\ \A p \in Rank : /\ linkBuffer[p] = {} /\ unlinkMigration[p] = {}
                           /\ toClear[p] = {} /\ toRemove[p] = {}
        /\ \A p \in Rank, e \in Edge : ~Told(p, e)
        /\ \A n \in Node : ~IsPending(n) /\ (IsKnown(n) <=> n \in live)
<1>1. \A p \in Rank : /\ linkBuffer[p] = {} /\ unlinkMigration[p] = {}
                      /\ toClear[p] = {} /\ toRemove[p] = {}
  BY Parts DEF Buffers
<1>2. \A p \in Rank, e \in Edge : ~Told(p, e)
  BY <1>1 DEF Told
<1>3. \A n \in Node : ~IsPending(n) /\ (IsKnown(n) <=> n \in live)
  BY <1>1 DEF IsPending, IsKnown
<1>4. \A p \in Rank, e \in Edge : HasEdge(p, e) => e \in linked
  BY <1>2, <1>3, Parts, EndsAreNodes DEF UnlinkedErased
<1>5. \A p \in Rank : \A e \in linked : HostsEnd(p, e) => HasEdge(p, e)
  BY <1>1, Parts DEF LinkedOnHosts
<1> QED
  BY <1>1, <1>2, <1>3, <1>4, <1>5

\* Clearing keeps the edges as they should be.
LEMMA ClearStep ==
  ASSUME IInv, phase \in {"clear", "locations"}, phase' = "data",
         NEW C, NodesCleared(C),
         UNCHANGED <<linkBuffer, unlinkMigration, toClear, toRemove, fresh, live, linked>>
  PROVE /\ EdgeStates' /\ FreshEdges' /\ Buffered' /\ LinkedLive' /\ Messages' /\ OnHosts'
        /\ LinkedOnHosts' /\ UnlinkedErased' /\ HostsTold' /\ RemovedUnlinked' /\ ToClearInv'
<1>1. /\ TypeOK /\ EdgeStates /\ FreshEdges /\ LinkedLive
  BY Parts
<1>2. /\ \A p \in Rank, e \in Edge : HasEdge(p, e) => e \in linked
      /\ \A p \in Rank : \A e \in linked : HostsEnd(p, e) => HasEdge(p, e)
      /\ \A p \in Rank : /\ linkBuffer[p] = {} /\ unlinkMigration[p] = {}
                         /\ toClear[p] = {} /\ toRemove[p] = {}
      /\ \A p \in Rank, e \in Edge : ~Told(p, e)
  BY EdgesSettled
<1>3. \A p \in Rank, n \in Node :
        /\ IsLocal(p, n)' <=> IsLocal(p, n)
        /\ Present(p, n) /\ (n \in C[p] => Kept(p, n)) => Present(p, n)'
  BY DEF NodesCleared
<1>4. \A p \in Rank, e \in Edge :
        /\ HasEdge(p, e)' <=> HasEdge(p, e) /\ HostsEnd(p, e)
        /\ HasEdge(p, e)' => edgeState'[p][e] = edgeState[p][e]
  BY DEF NodesCleared
<1>5. \A p \in Rank, e \in Edge :
        /\ HostsEnd(p, e)' <=> HostsEnd(p, e)
        /\ ~Told(p, e)'
  <2>1. \A p \in Rank, e \in Edge : HostsEnd(p, e)' <=> HostsEnd(p, e)
    BY <1>3, EndsAreNodes DEF HostsEnd
  <2>2. \A p \in Rank, e \in Edge : ~Told(p, e)'
    BY <1>2 DEF Told
  <2> QED
    BY <2>1, <2>2
<1>6. EdgeStates'
  <2>1. SUFFICES ASSUME NEW p \in Rank, NEW e \in Edge, HasEdge(p, e)'
                 PROVE /\ \A n \in Ends(e) : Present(p, n)'
                       /\ edgeState'[p][e] = "LOCAL" <=> \A n \in Ends(e) : IsLocal(p, n)'
    BY DEF EdgeStates
  <2>2. HasEdge(p, e) /\ HostsEnd(p, e) /\ edgeState'[p][e] = edgeState[p][e]
    BY <2>1, <1>4
  <2>3. \A n \in Ends(e) : Kept(p, n) /\ n \in Node
    BY <2>2, EndsAreNodes DEF Kept
  <2> QED
    BY <2>2, <2>3, <1>1, <1>3 DEF EdgeStates
<1>7. FreshEdges'
  BY <1>1, <1>2, <1>4, <1>5 DEF FreshEdges
<1>8. Buffered' /\ ToClearInv' /\ RemovedUnlinked'
  BY <1>2 DEF Buffered, ToClearInv, RemovedUnlinked
<1>9. LinkedLive'
  BY <1>1 DEF LinkedLive
<1>10. Messages'
  BY <1>5 DEF Messages
<1>11. OnHosts'
  BY <1>4, <1>5 DEF OnHosts
<1>12. LinkedOnHosts'
  BY <1>1, <1>2, <1>4, <1>5 DEF LinkedOnHosts, TypeOK
<1>13. UnlinkedErased'
  BY <1>2, <1>4 DEF UnlinkedErased
<1>14. HostsTold'
  BY <1>2, <1>4, <1>5 DEF HostsTold
<1> QED
  BY <1>6, <1>7, <1>8, <1>9, <1>10, <1>11, <1>12, <1>13, <1>14

\* clearDistantNodes() leaves the DISTANT nodes that an edge needs.
LEMMA ClearDistantNodesStep ==
  ASSUME IInv, ClearDistantNodes, Allow = {}
  PROVE IInv'
<1>1. PICK C : C = [p \in Rank |-> In(p, "DISTANT")]
  OBVIOUS
<1>2. /\ phase = "clear" /\ phase' = "data"
      /\ ClearNodes(C)
      /\ UNCHANGED <<call, ops, location, data, managed, newLocal, linkBuffer, unlinkMigration,
                     toClear, toRemove, exported, fresh, live, linked>>
  BY <1>1 DEF ClearDistantNodes, locationVars, linkerVars, idealVars
<1>3. /\ TypeOK /\ FreshNodes /\ LocalOnce /\ KnownHosted /\ PresentKnown /\ Removals
      /\ DistantLocated /\ OriginsKnow /\ ExportedDistant /\ Buffers /\ EdgeStates
      /\ LinkedLive /\ OnHosts
  BY Parts
<1>4. /\ \A p \in Rank, e \in Edge : HasEdge(p, e) => e \in linked
      /\ \A p \in Rank : /\ linkBuffer[p] = {} /\ unlinkMigration[p] = {}
                         /\ toClear[p] = {} /\ toRemove[p] = {}
      /\ \A n \in Node : IsKnown(n) <=> n \in live
  BY <1>2, EdgesSettled
<1>5. /\ C \in [Rank -> SUBSET Node]
      /\ \A p \in Rank, n \in Node : n \in C[p] <=> IsDistant(p, n)
  BY <1>1 DEF In, IsDistant
<1>6. \A p \in Rank, e \in Edge : HasEdge(p, e) => HostsEnd(p, e)
  <2>1. \A p \in Rank : exported[p] = {}
    BY <1>2, <1>3 DEF Buffers
  <2> QED
    BY <2>1, <1>3, <1>4 DEF OnHosts
<1>7. NodesCleared(C)
  <2>1. \A p \in Rank : \A n \in C[p] : IsDistant(p, n)
    BY <1>5
  <2> QED
    BY <2>1, <1>2, <1>3, <1>5, <1>6, ClearNodesAt
<1>8. \A p \in Rank, n \in Node :
        /\ IsLocal(p, n)' <=> IsLocal(p, n)
        /\ IsDistant(p, n)' <=> IsDistant(p, n) /\ Kept(p, n)
        /\ Present(p, n)' => Present(p, n)
  BY <1>5, <1>7 DEF NodesCleared
<1>9. \A n \in Node : ~IsPending(n)' /\ (IsKnown(n)' <=> IsKnown(n))
  <2>1. \A n \in Node : ~IsPending(n)' /\ ~IsPending(n)
    BY <1>2, <1>4 DEF IsPending
  <2> QED
    BY <2>1, <1>2 DEF IsKnown
\* A DISTANT node that is kept is live.
<1>10. \A p \in Rank, n \in Node : IsDistant(p, n)' => n \in live
  BY <1>3, <1>4, <1>8 DEF Kept, LinkedLive
<1>11. TypeOK'
  BY <1>2, <1>3, <1>7 DEF TypeOK, NodesCleared
<1>12. Buffers'
  BY <1>2, <1>3 DEF Buffers, Returned
<1>13. GhostsFresh'
  BY <1>2 DEF GhostsFresh, Returned
<1>14. NodesInv'
  <2>1. FreshNodes'
    BY <1>2, <1>3, <1>8, <1>9 DEF FreshNodes
  <2>2. LocalOnce'
    BY <1>2, <1>3, <1>8 DEF LocalOnce
  <2>3. KnownHosted'
    BY <1>3, <1>8, <1>9 DEF KnownHosted
  <2>4. PresentKnown'
    <3>1. SUFFICES ASSUME NEW p \in Rank, NEW n \in Node, Present(p, n)'
                   PROVE IsKnown(n)
      BY <1>9 DEF PresentKnown
    <3>2. CASE IsLocal(p, n)
      BY <3>1, <3>2, <1>3, <1>8 DEF PresentKnown
    <3>3. CASE ~IsLocal(p, n)
      <4>1. ~IsLocal(p, n)'
        BY <3>3, <1>8
      <4>2. IsDistant(p, n)'
        BY <3>1, <4>1, <1>11 DEF TypeOK, IsDistant, Present, IsLocal
      <4> QED
        BY <4>2, <1>10 DEF IsKnown
    <3> QED
      BY <3>2, <3>3
  <2>5. Removals'
    BY <1>2, <1>3, <1>4, <1>9 DEF Removals, TypeOK
  <2>6. DistantLocated'
    <3>1. SUFFICES ASSUME NEW m \in Node, NEW q \in Rank, IsKnown(m)', IsDistant(q, m)'
                   PROVE IsLocal(location[q][m], m)'
      BY DEF DistantLocated
    <3>2. IsLocal(location[q][m], m) /\ location[q][m] \in Rank
      BY <3>1, <1>2, <1>3, <1>8, <1>9 DEF DistantLocated, TypeOK
    <3> QED
      BY <3>2, <1>2, <1>8 DEF IsLocal
  <2>7. OriginsKnow'
    <3>1. \A n \in live : n \in Node /\ managed[n] \in Rank
      BY <1>3 DEF TypeOK
    <3> QED
      BY <3>1, <1>2, <1>3, <1>8 DEF OriginsKnow
  <2>8. ExportedDistant'
    BY <1>2, <1>3 DEF ExportedDistant, Buffers
  <2> QED
    BY <2>1, <2>2, <2>3, <2>4, <2>5, <2>6, <2>7, <2>8 DEF NodesInv
<1>15. DistantLinked'
  <2>1. SUFFICES ASSUME NEW p \in Rank, NEW n \in Node, IsDistant(p, n)'
                 PROVE \E e \in Edge : HasEdge(p, e)' /\ n \in Ends(e) /\ HostsEnd(p, e)'
    BY DEF DistantLinked
  <2>2. PICK e \in Edge : HasEdge(p, e) /\ n \in Ends(e) /\ HostsEnd(p, e)
    BY <2>1, <1>8 DEF Kept
  <2>3. HasEdge(p, e)'
    BY <2>2, <1>7 DEF NodesCleared
  <2>4. HostsEnd(p, e)'
    BY <2>2, <1>8, EndsAreNodes DEF HostsEnd
  <2> QED
    BY <2>2, <2>3, <2>4
<1>16. EdgesInv'
  <2>1. /\ EdgeStates' /\ FreshEdges' /\ Buffered' /\ LinkedLive' /\ Messages' /\ OnHosts'
        /\ LinkedOnHosts' /\ UnlinkedErased' /\ HostsTold' /\ RemovedUnlinked' /\ ToClearInv'
    BY <1>2, <1>7, ClearStep
  <2> QED
    BY <2>1, <1>15 DEF EdgesInv
<1> QED
  BY <1>11, <1>12, <1>13, <1>14, <1>16 DEF IInv

-----------------------------------------------------------------------------
(* distribute() *)

\* What the export of the nodes of a partition does to each node: its host is the
\* process that the partition says, and has the data of the last one.
NodesMoved(part) ==
  /\ \A n \in Node, q \in Rank : IsLocal(q, n)' <=> part[n] = q /\ \E o \in Rank : IsLocal(o, n)
  /\ \A n \in Node, o, q \in Rank : IsLocal(o, n) /\ IsLocal(q, n)' => data'[q][n] = data[o][n]

\* A partition leaves each node with one host, and each edge on the hosts of its ends.
LEMMA ExportStep ==
  ASSUME IInv, Export, Allow = {}
  PROVE /\ IInv'
        /\ \E part \in [Node -> Rank] : NodesMoved(part)
<1> DEFINE entries(p) == IF "DISTANT_ENTRIES" \in Allow THEN Graph(p) ELSE In(p, "LOCAL")
           exportsOf(part, p) == {n \in entries(p) : part[n] # p}
           sendersOf(part, n) == {p \in Rank : n \in exportsOf(part, p)}
           importsOf(part, q) == {n \in Node : sendersOf(part, n) # {} /\ part[n] = q}
           impOf(part) == [q \in Rank |-> [p \in Rank |->
             {e \in GraphEdges(p) : Ends(e) \cap exportsOf(part, p) \cap importsOf(part, q) # {}}]]
           stOf(part) == [q \in Rank |-> [n \in Node |->
             IF n \in importsOf(part, q) THEN "LOCAL" ELSE state[q][n]]]
           locOf(part) == [q \in Rank |-> [n \in Node |->
             IF n \in importsOf(part, q) THEN q ELSE location[q][n]]]
           datOf(part, last) == [q \in Rank |-> [n \in Node |->
             IF n \in importsOf(part, q) THEN MigratedData(last[n], q, n) ELSE data[q][n]]]
           expOf(part) == [p \in Rank |-> exportsOf(part, p)]
<1>1. PICK part \in [Node -> Rank] :
        /\ "MOVE_LOADED" \in Allow
             \/ \A p \in Rank : \A n \in exportsOf(part, p) \cap newLocal[p] : Origin[n] = p
        /\ \E last \in [UNION {exportsOf(part, p) : p \in Rank} -> Rank] :
             /\ \A n \in DOMAIN last : last[n] \in sendersOf(part, n)
             /\ ImportEdges(stOf(part), locOf(part), datOf(part, last), impOf(part), expOf(part))
        /\ newLocal' = [q \in Rank |-> newLocal[q] \cup importsOf(part, q)]
        /\ exported' = [p \in Rank |-> exportsOf(part, p)]
  BY DEF Export
<1>2. /\ phase = "export" /\ phase' = "locations"
      /\ UNCHANGED <<call, ops, managed, linkBuffer, unlinkMigration, toClear, toRemove,
                     fresh, live, linked>>
  BY DEF Export, linkerVars, idealVars
<1>3. PICK last \in [UNION {exportsOf(part, p) : p \in Rank} -> Rank] :
        /\ \A n \in DOMAIN last : last[n] \in sendersOf(part, n)
        /\ ImportEdges(stOf(part), locOf(part), datOf(part, last), impOf(part), expOf(part))
  BY <1>1
<1> DEFINE exports(p) == exportsOf(part, p)
           imports(q) == importsOf(part, q)
<1>4. PICK st, loc, dat, imp, exp :
        /\ st = stOf(part) /\ loc = locOf(part) /\ dat = datOf(part, last)
        /\ imp = impOf(part) /\ exp = expOf(part)
  OBVIOUS
<1>5. ImportEdges(st, loc, dat, imp, exp)
  BY <1>3, <1>4
<1>6. /\ TypeOK /\ FreshNodes /\ LocalOnce /\ KnownHosted /\ PresentKnown /\ Removals
      /\ DistantLocated /\ OriginsKnow /\ ExportedDistant /\ Buffers /\ EdgeStates
      /\ FreshEdges /\ LinkedLive /\ OnHosts
  BY Parts
<1>7. /\ \A p \in Rank, e \in Edge : HasEdge(p, e) => e \in linked
      /\ \A p \in Rank : \A e \in linked : HostsEnd(p, e) => HasEdge(p, e)
      /\ \A p \in Rank : /\ linkBuffer[p] = {} /\ unlinkMigration[p] = {}
                         /\ toClear[p] = {} /\ toRemove[p] = {}
      /\ \A p \in Rank, e \in Edge : ~Told(p, e)
      /\ \A n \in Node : ~IsPending(n) /\ (IsKnown(n) <=> n \in live)
  BY <1>2, EdgesSettled
\* Nodes go from their host to the process that the partition says.
<1>8. /\ \A p \in Rank : exports(p) \subseteq Node
      /\ \A p \in Rank, n \in Node : n \in exports(p) <=> IsLocal(p, n) /\ part[n] # p
  BY DEF In, IsLocal
<1>9. \A q \in Rank, n \in Node :
        n \in imports(q) <=> part[n] = q /\ ~IsLocal(q, n) /\ \E o \in Rank : IsLocal(o, n)
  <2>1. \A q \in Rank, n \in Node :
          n \in imports(q) <=> part[n] = q /\ \E o \in Rank : n \in exports(o)
    OBVIOUS
  <2> QED
    BY <2>1, <1>6, <1>8 DEF LocalOnce
<1>10. \A q \in Rank, n \in Node :
         /\ n \in imports(q) => st[q][n] = "LOCAL" /\ loc[q][n] = q
         /\ n \notin imports(q) => /\ st[q][n] = state[q][n] /\ loc[q][n] = location[q][n]
                                   /\ dat[q][n] = data[q][n]
  BY <1>4
<1>11. \A o, q \in Rank, n \in Node : n \in imports(q) /\ IsLocal(o, n) => dat[q][n] = data[o][n]
  <2>1. SUFFICES ASSUME NEW o \in Rank, NEW q \in Rank, NEW n \in Node,
                        n \in imports(q), IsLocal(o, n)
                 PROVE dat[q][n] = data[o][n]
    OBVIOUS
  <2>2. n \in exports(o)
    BY <2>1, <1>8, <1>9
  <2>3. last[n] \in Rank /\ n \in exports(last[n])
    BY <2>2, <1>3
  <2>4. last[n] = o
    BY <2>1, <2>3, <1>6, <1>8 DEF LocalOnce
  <2> QED
    BY <2>1, <2>4, <1>4 DEF MigratedData
<1>12. \A q, r \in Rank, e \in Edge :
         e \in imp[q][r] <=> HasEdge(r, e) /\ \E n \in Ends(e) : n \in exports(r) /\ part[n] = q
  <2>1. \A q, r \in Rank, e \in Edge :
          e \in imp[q][r] <=>
            HasEdge(r, e) /\ \E n \in Ends(e) : n \in exports(r) /\ n \in imports(q)
    BY <1>4 DEF GraphEdges, HasEdge
  <2>2. \A q, r \in Rank, n \in Node : n \in exports(r) => (n \in imports(q) <=> part[n] = q)
    BY <1>6, <1>8, <1>9 DEF LocalOnce
  <2> QED
    BY <2>1, <2>2, EndsAreNodes
<1>13. /\ \A q \in Rank : exp[q] = exports(q) /\ exported'[q] = exports(q)
       /\ \A q \in Rank : newLocal'[q] = newLocal[q] \cup imports(q)
  BY <1>1, <1>4
<1>14. \A p \in Rank, n \in Node : n \in exports(p) /\ n \in newLocal[p] => Origin[n] = p
  BY <1>1
<1>15. /\ st \in [Rank -> [Node -> {"ABSENT", "LOCAL", "DISTANT"}]]
       /\ loc \in [Rank -> [Node -> Rank]]
       /\ imp \in [Rank -> [Rank -> SUBSET Edge]]
       /\ exp \in [Rank -> SUBSET Node]
       /\ exported' \in [Rank -> SUBSET Node]
       /\ newLocal' \in [Rank -> SUBSET Node]
  <2>1. /\ st \in [Rank -> [Node -> {"ABSENT", "LOCAL", "DISTANT"}]]
        /\ loc \in [Rank -> [Node -> Rank]]
    BY <1>4, <1>6, ZenonT(60) DEF TypeOK
  <2>2. imp \in [Rank -> [Rank -> SUBSET Edge]]
    BY <1>4 DEF GraphEdges
  <2>3. exp \in [Rank -> SUBSET Node] /\ exported' \in [Rank -> SUBSET Node]
    BY <1>1, <1>4, <1>8
  <2>4. newLocal' \in [Rank -> SUBSET Node]
    BY <1>1, <1>6 DEF TypeOK
  <2> QED
    BY <2>1, <2>2, <2>3, <2>4
<1>16. dat \in [Rank -> [Node -> 0 .. MaxData]]
  <2>1. ASSUME NEW q \in Rank, NEW n \in Node PROVE dat[q][n] \in 0 .. MaxData
    <3>1. \A o \in Rank : data[o][n] \in 0 .. MaxData
      BY <1>6 DEF TypeOK
    <3>2. \E o \in Rank : dat[q][n] = data[o][n]
      BY <1>9, <1>10, <1>11
    <3> QED
      BY <3>1, <3>2
  <2> QED
    BY <2>1, <1>4
<1> HIDE DEF entries, exportsOf, sendersOf, importsOf, impOf, stOf, locOf, datOf, expOf, exports, imports
<1>17. NodesAndEdgesImported(st, loc, dat, imp, exp)
  BY <1>5, <1>6, <1>15, <1>16, ImportEdgesAt
<1>18. \A q \in Rank, n \in Node :
         st[q][n] = "LOCAL" <=> IsLocal(q, n) \/ n \in imports(q)
  BY <1>10 DEF IsLocal
\* A node that is missing is known by the sender.
<1>19. \A q \in Rank, n \in Node : Missing(st, imp, q, n) =>
         /\ ~Present(q, n) /\ n \notin imports(q) /\ n \notin exports(q) /\ IsDistant(q, n)'
         /\ \E r \in Rank : Present(r, n)
  <2>1. SUFFICES ASSUME NEW q \in Rank, NEW n \in Node, Missing(st, imp, q, n)
                 PROVE /\ ~Present(q, n) /\ n \notin imports(q) /\ n \notin exports(q)
                       /\ IsDistant(q, n)' /\ \E r \in Rank : Present(r, n)
    OBVIOUS
  <2>2. ~Present(q, n) /\ n \notin imports(q)
    BY <2>1, <1>10 DEF Missing, Present
  <2>3. n \notin exports(q)
    BY <2>2, <1>8 DEF Present, IsLocal
  <2>4. IsDistant(q, n)'
    BY <2>1, <1>17 DEF NodesAndEdgesImported, IsDistant
  <2>5. PICK r \in Rank : \E e \in imp[q][r] : n \in Ends(e)
    BY <2>1 DEF Missing, Senders
  <2>6. Present(r, n)
    BY <2>5, <1>6, <1>12, <1>15 DEF EdgeStates
  <2> QED
    BY <2>2, <2>3, <2>4, <2>6
<1>20. \A q \in Rank, n \in Node :
         /\ IsLocal(q, n)' <=> part[n] = q /\ \E o \in Rank : IsLocal(o, n)
         /\ n \in exports(q) => IsDistant(q, n)'
         /\ Present(q, n) \/ st[q][n] = "LOCAL" => Present(q, n)'
         /\ Present(q, n)' => \E r \in Rank : Present(r, n)
         /\ IsLocal(q, n)' => location'[q][n] = q /\ data'[q][n] = dat[q][n]
  <2>1. SUFFICES ASSUME NEW q \in Rank, NEW n \in Node
                 PROVE /\ IsLocal(q, n)' <=> part[n] = q /\ \E o \in Rank : IsLocal(o, n)
                       /\ n \in exports(q) => IsDistant(q, n)'
                       /\ Present(q, n) \/ st[q][n] = "LOCAL" => Present(q, n)'
                       /\ Present(q, n)' => \E r \in Rank : Present(r, n)
                       /\ IsLocal(q, n)' => location'[q][n] = q /\ data'[q][n] = dat[q][n]
    OBVIOUS
  <2>2. CASE Missing(st, imp, q, n)
    <3>1. ~IsLocal(q, n)' /\ Present(q, n)' /\ ~Present(q, n) /\ ~IsLocal(q, n) /\ st[q][n] # "LOCAL"
      BY <2>2, <1>19 DEF IsLocal, IsDistant, Present, Missing
    <3>2. ~(part[n] = q /\ \E o \in Rank : IsLocal(o, n))
      BY <2>2, <3>1, <1>9, <1>19
    <3> QED
      BY <2>2, <3>1, <3>2, <1>19
  <2>3. CASE ~Missing(st, imp, q, n)
    <3>1. /\ state'[q][n] = SetDistant(n \in exp[q], st[q][n])
          /\ location'[q][n] = loc[q][n]
          /\ data'[q][n] = dat[q][n]
      BY <2>3, <1>17 DEF NodesAndEdgesImported
    <3>2. CASE n \in exports(q)
      <4>1. IsDistant(q, n)' /\ ~IsLocal(q, n)' /\ Present(q, n)'
        BY <3>1, <3>2, <1>13 DEF SetDistant, IsDistant, IsLocal, Present
      <4>2. part[n] # q /\ Present(q, n)
        BY <3>2, <1>8 DEF IsLocal, Present
      <4> QED
        BY <4>1, <4>2
    <3>3. CASE n \notin exports(q)
      <4>1. state'[q][n] = st[q][n]
        BY <3>1, <3>3, <1>13 DEF SetDistant
      <4>2. IsLocal(q, n)' <=> IsLocal(q, n) \/ n \in imports(q)
        BY <4>1, <1>18 DEF IsLocal
      <4>3. IsLocal(q, n)' <=> part[n] = q /\ \E o \in Rank : IsLocal(o, n)
        BY <4>2, <3>3, <1>8, <1>9
      <4>4. IsLocal(q, n)' => location'[q][n] = q
        BY <4>2, <3>1, <1>6, <1>10 DEF LocalOnce
      <4>5. Present(q, n) \/ st[q][n] = "LOCAL" => Present(q, n)'
        BY <4>1, <1>10, <1>18 DEF Present, IsLocal
      <4>6. Present(q, n)' => \E r \in Rank : Present(r, n)
        <5>1. CASE n \in imports(q)
          BY <5>1, <1>9 DEF IsLocal, Present
        <5>2. CASE n \notin imports(q)
          BY <5>2, <4>1, <1>10 DEF Present
        <5> QED
          BY <5>1, <5>2
      <4> QED
        BY <4>3, <4>4, <4>5, <4>6, <3>1, <3>3
    <3> QED
      BY <3>2, <3>3
  <2> QED
    BY <2>2, <2>3
<1>21. \A n \in Node : ~IsPending(n)' /\ (IsKnown(n)' <=> IsKnown(n))
  <2>1. \A n \in Node : ~IsPending(n)' /\ ~IsPending(n)
    BY <1>2, <1>7 DEF IsPending
  <2> QED
    BY <2>1, <1>2 DEF IsKnown
<1>22. NodesMoved(part)
  <2>1. ASSUME NEW n \in Node, NEW o \in Rank, NEW q \in Rank, IsLocal(o, n), IsLocal(q, n)'
        PROVE data'[q][n] = data[o][n]
    <3>1. CASE n \in imports(q)
      BY <2>1, <3>1, <1>11, <1>20
    <3>2. CASE n \notin imports(q)
      <4>1. IsLocal(q, n)
        BY <2>1, <3>2, <1>9, <1>20
      <4>2. o = q
        BY <2>1, <4>1, <1>6 DEF LocalOnce
      <4> QED
        BY <2>1, <3>2, <4>2, <1>10, <1>20
    <3> QED
      BY <3>1, <3>2
  <2> QED
    BY <2>1, <1>20 DEF NodesMoved
<1>23. TypeOK'
  BY <1>2, <1>6, <1>15, <1>17 DEF TypeOK, NodesAndEdgesImported
<1>24. Buffers'
  BY <1>2, <1>6 DEF Buffers, Returned
<1>25. GhostsFresh' /\ DistantLinked'
  BY <1>2 DEF GhostsFresh, DistantLinked, Returned
<1>26. NodesInv'
  <2>1. FreshNodes'
    <3>1. \A n \in Node \cap fresh : \A q \in Rank :
            ~Present(q, n)' /\ n \notin imports(q)
      BY <1>6, <1>9, <1>20 DEF FreshNodes, Present, IsLocal
    <3> QED
      BY <3>1, <1>2, <1>6, <1>13, <1>21 DEF FreshNodes
  <2>2. LocalOnce'
    BY <1>20 DEF LocalOnce
  <2>3. KnownHosted'
    BY <1>6, <1>20, <1>21 DEF KnownHosted
  <2>4. PresentKnown'
    BY <1>2, <1>6, <1>20, <1>21 DEF PresentKnown
  <2>5. Removals'
    BY <1>2, <1>6, <1>7, <1>21 DEF Removals, TypeOK
  <2>6. DistantLocated'
    BY <1>2 DEF DistantLocated
  <2>7. OriginsKnow'
    <3>1. SUFFICES ASSUME NEW n \in live
                   PROVE /\ \A q \in Rank : n \in newLocal'[q] =>
                              \/ IsLocal(q, n)'
                              \/ /\ q = Origin[n]
                                 /\ \E p \in Rank : IsLocal(p, n)' /\ n \in newLocal'[p]
                         /\ (\A q \in Rank : n \notin newLocal'[q]) => IsLocal(managed[n], n)'
      BY <1>2 DEF OriginsKnow
    <3>2. n \in Node /\ managed[n] \in Rank /\ part[n] \in Rank /\ \E o \in Rank : IsLocal(o, n)
      BY <1>6 DEF TypeOK, KnownHosted, IsKnown
    <3>3. ASSUME NEW q \in Rank, n \in newLocal'[q], ~IsLocal(q, n)'
          PROVE /\ q = Origin[n]
                /\ \E p \in Rank : IsLocal(p, n)' /\ n \in newLocal'[p]
      <4>1. part[n] # q /\ n \notin imports(q)
        BY <3>2, <3>3, <1>9, <1>20
      <4>2. n \in newLocal[q]
        BY <3>3, <4>1, <1>13
      <4>3. IsLocal(q, n)
        BY <4>2, <1>2, <1>6 DEF OriginsKnow
      <4>4. q = Origin[n]
        BY <3>2, <4>1, <4>2, <4>3, <1>8, <1>14
      <4>5. ~IsLocal(part[n], n)
        BY <3>2, <4>1, <4>3, <1>6 DEF LocalOnce
      <4>6. n \in imports(part[n]) /\ IsLocal(part[n], n)'
        BY <3>2, <4>3, <4>5, <1>9, <1>20
      <4> QED
        BY <3>2, <4>4, <4>6, <1>13
    <3>4. ASSUME \A q \in Rank : n \notin newLocal'[q]
          PROVE IsLocal(managed[n], n)'
      <4>1. \A q \in Rank : n \notin imports(q)
        BY <3>4, <1>13
      <4>2. IsLocal(managed[n], n)
        BY <1>2, <1>6 DEF OriginsKnow
      <4>3. IsLocal(part[n], n)
        BY <3>2, <4>1, <1>9
      <4>4. managed[n] = part[n]
        BY <3>2, <4>2, <4>3, <1>6 DEF LocalOnce
      <4>5. IsLocal(part[n], n)'
        BY <3>2, <1>20
      <4> QED
        BY <4>4, <4>5, <1>2 DEF IsLocal
    <3>5. managed'[n] = managed[n]
      BY <1>2
    <3> QED
      BY <3>3, <3>4
  <2>8. ExportedDistant'
    BY <1>8, <1>13, <1>20 DEF ExportedDistant
  <2> QED
    BY <2>1, <2>2, <2>3, <2>4, <2>5, <2>6, <2>7, <2>8 DEF NodesInv
<1>27. \A q \in Rank, e \in Edge :
         /\ Exports(exp, q, e) <=> \E n \in Ends(e) : n \in exports(q)
         /\ BothLocal(st, q, e) <=> \A n \in Ends(e) : st[q][n] = "LOCAL"
  BY <1>13 DEF Exports, BothLocal
<1>28. \A q \in Rank, e \in Edge : HasEdge(q, e)' <=> HasEdge(q, e) \/ Imported(imp, q, e)
  <2>1. SUFFICES ASSUME NEW q \in Rank, NEW e \in Edge
                 PROVE HasEdge(q, e)' <=> HasEdge(q, e) \/ Imported(imp, q, e)
    OBVIOUS
  <2>2. CASE Imported(imp, q, e)
    <3>1. edgeState'[q][e] = SetDistant(Exports(exp, q, e),
                                ImportedState(edgeState[q][e], BothLocal(st, q, e)))
      BY <2>2, <1>17 DEF NodesAndEdgesImported
    <3> QED
      BY <2>2, <3>1 DEF SetDistant, ImportedState, HasEdge
  <2>3. CASE ~Imported(imp, q, e) /\ HasEdge(q, e)
    <3>1. edgeState'[q][e] = SetDistant(Exports(exp, q, e), edgeState[q][e])
      BY <2>3, <1>17 DEF NodesAndEdgesImported
    <3> QED
      BY <2>3, <3>1 DEF SetDistant, HasEdge
  <2>4. CASE ~Imported(imp, q, e) /\ ~HasEdge(q, e)
    BY <2>4, <1>17 DEF NodesAndEdgesImported, HasEdge
  <2> QED
    BY <2>2, <2>3, <2>4
\* The new host of an end of an edge has the edge.
<1>29. \A q \in Rank : \A e \in linked : HostsEnd(q, e)' => HasEdge(q, e)'
  <2>1. SUFFICES ASSUME NEW q \in Rank, NEW e \in linked, HostsEnd(q, e)'
                 PROVE HasEdge(q, e) \/ Imported(imp, q, e)
    BY <1>6, <1>28 DEF TypeOK
  <2>2. e \in Edge
    BY <1>6 DEF TypeOK
  <2>3. PICK n \in Ends(e) : IsLocal(q, n)'
    BY <2>1 DEF HostsEnd
  <2>4. n \in Node
    BY <2>2, EndsAreNodes
  <2>5. PICK o \in Rank : part[n] = q /\ IsLocal(o, n)
    BY <2>3, <2>4, <1>20
  <2>6. HasEdge(o, e)
    BY <2>5, <1>7 DEF HostsEnd
  <2>7. CASE o = q
    BY <2>6, <2>7
  <2>8. CASE o # q
    <3>1. n \in exports(o)
      BY <2>4, <2>5, <2>8, <1>8
    <3> QED
      BY <2>2, <2>5, <2>6, <3>1, <1>12 DEF Imported
  <2> QED
    BY <2>7, <2>8
<1>30. \A q \in Rank, e \in Edge : HasEdge(q, e)' => e \in linked
  BY <1>7, <1>12, <1>28 DEF Imported
<1>31. EdgeStates'
  <2>1. SUFFICES ASSUME NEW q \in Rank, NEW e \in Edge, HasEdge(q, e)'
                 PROVE /\ \A n \in Ends(e) : Present(q, n)'
                       /\ edgeState'[q][e] = "LOCAL" <=> \A n \in Ends(e) : IsLocal(q, n)'
    BY DEF EdgeStates
  <2>2. ASSUME NEW n \in Ends(e) PROVE Present(q, n)'
    <3>1. n \in Node
      BY EndsAreNodes
    <3>2. CASE HasEdge(q, e)
      BY <3>1, <3>2, <1>6, <1>20 DEF EdgeStates
    <3>3. CASE ~HasEdge(q, e)
      <4>1. PICK r \in Rank : e \in imp[q][r]
        BY <2>1, <3>3, <1>28 DEF Imported
      <4>2. r \in Senders(imp, q, n)
        BY <3>3, <4>1 DEF Senders, GraphEdges, HasEdge
      <4>3. CASE Missing(st, imp, q, n)
        BY <3>1, <4>3, <1>19 DEF Present, IsDistant
      <4>4. CASE ~Missing(st, imp, q, n)
        <5>1. st[q][n] # "ABSENT"
          BY <4>2, <4>4 DEF Missing
        <5>2. Present(q, n) \/ st[q][n] = "LOCAL"
          BY <3>1, <5>1, <1>10 DEF Present
        <5> QED
          BY <3>1, <5>2, <1>20
      <4> QED
        BY <4>3, <4>4
    <3> QED
      BY <3>2, <3>3
  \* The ends are LOCAL if they are once the nodes are imported, and stay.
  <2>3. (\A n \in Ends(e) : IsLocal(q, n)') <=> BothLocal(st, q, e) /\ ~Exports(exp, q, e)
    <3>1. \A n \in Ends(e) : n \in Node /\ (IsLocal(q, n)' <=> st[q][n] = "LOCAL" /\ n \notin exports(q))
      BY EndsAreNodes, <1>8, <1>9, <1>18, <1>20
    <3> QED
      BY <3>1, <1>27
  <2>4. CASE Imported(imp, q, e)
    <3>1. edgeState'[q][e] = SetDistant(Exports(exp, q, e),
                                ImportedState(edgeState[q][e], BothLocal(st, q, e)))
      BY <2>4, <1>17 DEF NodesAndEdgesImported
    <3>2. edgeState[q][e] = "LOCAL" => BothLocal(st, q, e)
      BY <1>6, <1>18, <1>27, EndsAreNodes DEF EdgeStates, HasEdge
    <3>3. edgeState'[q][e] = "LOCAL" <=> BothLocal(st, q, e) /\ ~Exports(exp, q, e)
      BY <3>1, <3>2 DEF SetDistant, ImportedState
    <3> QED
      BY <2>2, <2>3, <3>3
  <2>5. CASE ~Imported(imp, q, e)
    <3>1. HasEdge(q, e) /\ edgeState'[q][e] = SetDistant(Exports(exp, q, e), edgeState[q][e])
      BY <2>1, <2>5, <1>17, <1>28 DEF NodesAndEdgesImported
    \* None of its ends is imported: its host would have sent the edge.
    <3>2. \A n \in Ends(e) : n \notin imports(q)
      <4>1. ASSUME NEW n \in Ends(e), n \in imports(q) PROVE FALSE
        <5>1. n \in Node
          BY EndsAreNodes
        <5>2. PICK o \in Rank : part[n] = q /\ ~IsLocal(q, n) /\ IsLocal(o, n)
          BY <4>1, <5>1, <1>9
        <5>3. HasEdge(o, e)
          BY <3>1, <5>2, <1>7 DEF HostsEnd
        <5>4. n \in exports(o)
          BY <5>1, <5>2, <1>8
        <5> QED
          BY <2>5, <5>2, <5>3, <5>4, <1>12 DEF Imported
      <4> QED
        BY <4>1
    <3>3. edgeState[q][e] = "LOCAL" <=> BothLocal(st, q, e)
      BY <3>1, <3>2, <1>6, <1>18, <1>27, EndsAreNodes DEF EdgeStates
    <3>4. edgeState'[q][e] = "LOCAL" <=> BothLocal(st, q, e) /\ ~Exports(exp, q, e)
      BY <3>1, <3>3 DEF SetDistant
    <3> QED
      BY <2>2, <2>3, <3>4
  <2> QED
    BY <2>4, <2>5
<1>32. EdgesInv'
  <2>1. FreshEdges'
    <3>1. \A q \in Rank, e \in Edge : ~Told(q, e)'
      BY <1>2, <1>7 DEF Told
    <3> QED
      BY <3>1, <1>2, <1>6, <1>30 DEF FreshEdges
  <2>2. Buffered' /\ ToClearInv' /\ RemovedUnlinked'
    BY <1>2, <1>7 DEF Buffered, ToClearInv, RemovedUnlinked
  <2>3. LinkedLive'
    BY <1>2, <1>6 DEF LinkedLive
  <2>4. Messages'
    BY <1>2, <1>7 DEF Messages, Told
  <2>5. OnHosts'
    <3>1. SUFFICES ASSUME NEW q \in Rank, NEW e \in Edge, HasEdge(q, e)'
                   PROVE HostsEnd(q, e)' \/ \E n \in Ends(e) : n \in exports(q)
      BY <1>13 DEF OnHosts
    <3>2. CASE Imported(imp, q, e)
      <4>1. PICK r \in Rank, n \in Ends(e) : n \in exports(r) /\ part[n] = q
        BY <3>2, <1>12 DEF Imported
      <4>2. n \in Node /\ IsLocal(r, n)
        BY <4>1, <1>8, EndsAreNodes
      <4> QED
        BY <4>1, <4>2, <1>20 DEF HostsEnd
    <3>3. CASE HasEdge(q, e)
      <4>1. exported[q] = {}
        BY <1>2, <1>6 DEF Buffers
      <4>2. HostsEnd(q, e)
        BY <3>3, <4>1, <1>6, <1>7 DEF OnHosts
      <4>3. PICK n \in Ends(e) : IsLocal(q, n)
        BY <4>2 DEF HostsEnd
      <4>4. n \in Node
        BY EndsAreNodes
      <4> QED
        BY <4>3, <4>4, <1>8, <1>20 DEF HostsEnd
    <3> QED
      BY <3>1, <3>2, <3>3, <1>28
  <2>6. LinkedOnHosts'
    BY <1>2, <1>29 DEF LinkedOnHosts
  <2>7. UnlinkedErased'
    BY <1>2, <1>30 DEF UnlinkedErased
  <2>8. HostsTold'
    BY <1>2, <1>29, <1>30 DEF HostsTold
  <2> QED
    BY <2>1, <2>2, <2>3, <2>4, <2>5, <2>6, <2>7, <2>8, <1>25, <1>31 DEF EdgesInv
<1>33. IInv'
  BY <1>23, <1>24, <1>25, <1>26, <1>32 DEF IInv
<1> QED
  BY <1>22, <1>33

\* Origins learn where nodes are and tell the others.
LEMMA UpdateLocationsStep ==
  ASSUME IInv, UpdateLocations, Allow = {}
  PROVE IInv'
<1>1. PICK C : C = exported
  OBVIOUS
<1>2. /\ phase = "locations" /\ phase' = "data"
      /\ managed' \in [Node -> Rank]
      /\ \A n \in Node : managed'[n] \in NewLocation(n)
      /\ location' = [p \in Rank |-> [n \in Node |->
           IF state[p][n] = "DISTANT" THEN Located(p, n) ELSE location[p][n]]]
      /\ newLocal' = [p \in Rank |-> {}]
      /\ exported' = [p \in Rank |-> {}]
      /\ ClearNodes(C)
      /\ UNCHANGED <<call, ops, data, linkBuffer, unlinkMigration, toClear, toRemove,
                     fresh, live, linked>>
  BY <1>1 DEF UpdateLocations, linkerVars, idealVars
<1>3. /\ TypeOK /\ FreshNodes /\ LocalOnce /\ KnownHosted /\ PresentKnown /\ Removals
      /\ OriginsKnow /\ ExportedDistant /\ Buffers /\ OnHosts
  BY Parts
<1>4. /\ \A p \in Rank : /\ linkBuffer[p] = {} /\ unlinkMigration[p] = {}
                         /\ toClear[p] = {} /\ toRemove[p] = {}
      /\ \A n \in Node : ~IsPending(n) /\ (IsKnown(n) <=> n \in live)
  BY <1>2, EdgesSettled
<1>5. NodesCleared(C)
  <2>1. /\ C \in [Rank -> SUBSET Node]
        /\ \A p \in Rank : \A n \in C[p] : IsDistant(p, n)
    BY <1>1, <1>3 DEF TypeOK, ExportedDistant
  <2>2. \A p \in Rank, e \in Edge : HasEdge(p, e) /\ ~HostsEnd(p, e) => \E n \in Ends(e) : n \in C[p]
    BY <1>1, <1>3, <1>4 DEF OnHosts
  <2> QED
    BY <2>1, <2>2, <1>2, <1>3, ClearNodesAt
<1>6. \A p \in Rank, n \in Node :
        /\ IsLocal(p, n)' <=> IsLocal(p, n)
        /\ IsDistant(p, n)' => IsDistant(p, n)
        /\ Present(p, n)' => Present(p, n)
  BY <1>5 DEF NodesCleared
<1>7. \A n \in Node : ~IsPending(n)' /\ (IsKnown(n)' <=> IsKnown(n))
  <2>1. \A n \in Node : ~IsPending(n)' /\ ~IsPending(n)
    BY <1>2, <1>4 DEF IsPending
  <2> QED
    BY <2>1, <1>2 DEF IsKnown
\* The origin of a node learns where it is.
<1>8. \A n \in live : n \in Node /\ managed'[n] \in Rank /\ IsLocal(managed'[n], n)
  <2>1. SUFFICES ASSUME NEW n \in live
                 PROVE n \in Node /\ managed'[n] \in Rank /\ IsLocal(managed'[n], n)
    OBVIOUS
  <2>2. n \in Node /\ managed'[n] \in Rank /\ Origin[n] \in Rank
    BY <1>2, <1>3, GhostAssumption DEF TypeOK
  <2> DEFINE m == managed'[n]
             reports(q) == n \in newLocal[q]
             hosts(q) == state[q][n] = "LOCAL"
  <2>3. m \in Rank
    BY <2>2
  <2>4. /\ (\E q \in Rank \ {Origin[n]} : reports(q)) => m # Origin[n] /\ reports(m)
        /\ ~(\E q \in Rank \ {Origin[n]} : reports(q)) /\ reports(Origin[n]) => m = Origin[n]
        /\ ~(\E q \in Rank : reports(q)) => m = managed[n]
    <3>1. m \in NewLocation(n)
      BY <1>2, <2>2
    <3> QED
      BY <3>1, <2>2 DEF NewLocation
  <2>5. /\ \A q \in Rank : reports(q) =>
              hosts(q) \/ (q = Origin[n] /\ \E p \in Rank : hosts(p) /\ reports(p))
        /\ ~(\E q \in Rank : reports(q)) => hosts(managed[n])
    BY <1>2, <1>3 DEF OriginsKnow, IsLocal
  <2> HIDE DEF m, reports, hosts
  <2> SUFFICES hosts(m)
    BY <2>2, <2>3 DEF m, hosts, IsLocal
  <2>6. CASE \E q \in Rank \ {Origin[n]} : reports(q)
    BY <2>3, <2>4, <2>5, <2>6
  <2>7. CASE ~(\E q \in Rank \ {Origin[n]} : reports(q)) /\ reports(Origin[n])
    <3>1. m = Origin[n]
      BY <2>4, <2>7
    <3>2. \A p \in Rank : reports(p) => p = m
      BY <3>1, <2>7
    <3> QED
      BY <2>3, <2>7, <3>1, <3>2, <2>5
  <2>8. CASE ~(\E q \in Rank : reports(q))
    BY <2>4, <2>5, <2>8
  <2> QED
    BY <2>2, <2>6, <2>7, <2>8
<1>9. /\ location' \in [Rank -> [Node -> Rank]]
      /\ \A p \in Rank, n \in Node : IsDistant(p, n) => location'[p][n] = managed'[n]
      /\ \A p \in Rank, n \in Node : ~IsDistant(p, n) => location'[p][n] = location[p][n]
  <2>1. \A p \in Rank, n \in Node : managed'[n] \in Rank /\ location[p][n] \in Rank
    BY <1>2, <1>3 DEF TypeOK
  <2> QED
    BY <2>1, <1>2 DEF Located, IsDistant
<1>10. \A p \in Rank : newLocal'[p] = {} /\ exported'[p] = {}
  BY <1>2
<1>11. TypeOK'
  BY <1>2, <1>3, <1>5, <1>9 DEF TypeOK, NodesCleared
<1>12. Buffers'
  BY <1>2, <1>3, <1>10 DEF Buffers, Returned
<1>13. GhostsFresh'
  BY <1>2 DEF GhostsFresh, Returned
<1>14. NodesInv'
  <2>1. FreshNodes'
    <3>1. SUFFICES ASSUME NEW n \in Node, n \in fresh
                   PROVE /\ ~IsKnown(n)' /\ managed'[n] = Origin[n]
                         /\ \A p \in Rank : ~Present(p, n)' /\ n \notin newLocal'[p]
      BY <1>2 DEF FreshNodes
    <3>2. /\ ~IsKnown(n) /\ managed[n] = Origin[n]
          /\ \A p \in Rank : ~Present(p, n) /\ n \notin newLocal[p]
      BY <3>1, <1>3 DEF FreshNodes
    <3>3. NewLocation(n) = {managed[n]}
      BY <3>2 DEF NewLocation
    <3> QED
      BY <3>2, <3>3, <1>2, <1>6, <1>7, <1>10
  <2>2. LocalOnce'
    <3>1. \A p \in Rank, n \in Node : IsLocal(p, n) => location'[p][n] = p
      BY <1>3, <1>9 DEF LocalOnce, IsLocal, IsDistant
    <3> QED
      BY <3>1, <1>3, <1>6 DEF LocalOnce
  <2>3. KnownHosted'
    BY <1>3, <1>6, <1>7 DEF KnownHosted
  <2>4. PresentKnown'
    BY <1>2, <1>3, <1>6, <1>7 DEF PresentKnown
  <2>5. Removals'
    BY <1>2, <1>3, <1>4, <1>7 DEF Removals, TypeOK
  <2>6. DistantLocated'
    <3>1. SUFFICES ASSUME NEW m \in Node, NEW q \in Rank, IsKnown(m)', IsDistant(q, m)'
                   PROVE IsLocal(location[q][m], m)'
      BY DEF DistantLocated
    <3>2. m \in live /\ location'[q][m] = managed'[m]
      BY <3>1, <1>4, <1>6, <1>7, <1>9
    <3>3. IsLocal(managed'[m], m) /\ managed'[m] \in Rank
      BY <3>2, <1>8
    <3> QED
      BY <3>2, <3>3, <1>6, <1>8 DEF IsLocal
  <2>7. OriginsKnow'
    <3>1. \A n \in live : IsLocal(managed[n], n)'
      BY <1>6, <1>8 DEF IsLocal
    <3> QED
      BY <3>1, <1>2, <1>10 DEF OriginsKnow
  <2>8. ExportedDistant'
    BY <1>10 DEF ExportedDistant
  <2> QED
    BY <2>1, <2>2, <2>3, <2>4, <2>5, <2>6, <2>7, <2>8 DEF NodesInv
<1>15. DistantLinked'
  BY <1>2, <1>3 DEF DistantLinked, Buffers
<1>16. EdgesInv'
  <2>1. /\ EdgeStates' /\ FreshEdges' /\ Buffered' /\ LinkedLive' /\ Messages' /\ OnHosts'
        /\ LinkedOnHosts' /\ UnlinkedErased' /\ HostsTold' /\ RemovedUnlinked' /\ ToClearInv'
    BY <1>2, <1>5, ClearStep
  <2> QED
    BY <2>1, <1>15 DEF EdgesInv
<1> QED
  BY <1>11, <1>12, <1>13, <1>14, <1>16 DEF IInv

-----------------------------------------------------------------------------
(* GhostDataSync::synchronize() *)

\* A process finds the data of a DISTANT node at its location, and keeps its own.
LEMMA SynchronizeDataStep ==
  ASSUME IInv, SynchronizeData, Allow = {}
  PROVE IInv'
<1>1. /\ phase = "data"
      /\ phase' = IF \A p \in Rank : \A n \in In(p, "DISTANT") : n \in Graph(location[p][n])
                    THEN "working" ELSE "failed"
      /\ data' = [p \in Rank |-> [n \in Node |->
           IF state[p][n] = "DISTANT" THEN data[location[p][n]][n] ELSE data[p][n]]]
      /\ UNCHANGED <<call, ops, state, location, edgeState, managed, newLocal, linkBuffer,
                     unlinkMigration, toClear, toRemove, exported, fresh, live, linked>>
  BY DEF SynchronizeData, locationVars, linkerVars, idealVars
<1>2. TypeOK /\ LocalOnce /\ PresentKnown /\ DistantLocated /\ Buffers /\ DistantLinked
  BY Parts
<1>3. \A p \in Rank, n \in Node : IsDistant(p, n) =>
        IsLocal(location[p][n], n) /\ location[p][n] \in Rank
  <2>1. \A p \in Rank, n \in Node : IsDistant(p, n) => Present(p, n)
    BY DEF IsDistant, Present
  <2> QED
    BY <2>1, <1>1, <1>2 DEF PresentKnown, DistantLocated, TypeOK
<1>4. phase' = "working"
  <2>1. \A p \in Rank : \A n \in In(p, "DISTANT") : n \in Graph(location[p][n])
    BY <1>3 DEF In, Graph, IsDistant, IsLocal
  <2> QED
    BY <2>1, <1>1
<1>5. /\ data' \in [Rank -> [Node -> 0 .. MaxData]]
      /\ \A p \in Rank, n \in Node : IsDistant(p, n) => data'[p][n] = data[location[p][n]][n]
      /\ \A p \in Rank, n \in Node : ~IsDistant(p, n) => data'[p][n] = data[p][n]
  <2>1. \A p \in Rank, n \in Node : data[p][n] \in 0 .. MaxData /\ data[location[p][n]][n] \in 0 .. MaxData
    BY <1>2 DEF TypeOK
  <2> QED
    BY <2>1, <1>1 DEF IsDistant
<1>6. TypeOK'
  BY <1>1, <1>2, <1>4, <1>5 DEF TypeOK
<1>7. Buffers'
  BY <1>1, <1>2, <1>4 DEF Buffers
<1>8. NodesInv'
  BY <1>1, <1>4, NodesUnchanged DEF IInv
<1>9. DistantLinked'
  BY <1>1, <1>2 DEF DistantLinked, IsDistant, HasEdge, HostsEnd, IsLocal
<1>10. EdgesInv'
  BY <1>1, <1>4, <1>9, EdgesUnchanged DEF IInv
<1>11. GhostsFresh'
  <2>1. SUFFICES ASSUME NEW p \in Rank, NEW q \in Rank, NEW n \in Node, IsDistant(p, n), IsLocal(q, n)
                 PROVE data'[p][n] = data'[q][n]
    BY <1>1 DEF GhostsFresh, In, IsDistant, IsLocal
  <2>2. location[p][n] = q /\ ~IsDistant(q, n)
    BY <2>1, <1>2, <1>3 DEF LocalOnce, IsLocal, IsDistant
  <2> QED
    BY <2>1, <2>2, <1>5
<1> QED
  BY <1>6, <1>7, <1>8, <1>10, <1>11 DEF IInv

-----------------------------------------------------------------------------
(* Breakpoints *)

\* A breakpoint that is taken when a collective call has returned loses nothing.
LEMMA RestartStep ==
  ASSUME IInv, Restart, Allow = {}
  PROVE /\ IInv'
        /\ UNCHANGED <<state, data>>
<1>1. /\ phase = "working" /\ ops = 0 /\ ops' = 0
      /\ state' = [p \in Rank |-> [n \in Node |->
           IF n \notin Graph(p) THEN "ABSENT"
           ELSE IF location[p][n] = p THEN "LOCAL" ELSE "DISTANT"]]
      /\ edgeState' = [p \in Rank |-> [e \in Edge |->
           IF e \notin GraphEdges(p) THEN "ABSENT"
           ELSE ImportedState("ABSENT", \A n \in Ends(e) : state'[p][n] = "LOCAL")]]
      /\ newLocal' = [p \in Rank |-> {n \in Node : state'[p][n] = "LOCAL"}]
      /\ linkBuffer' = [p \in Rank |-> {}]
      /\ unlinkMigration' = [p \in Rank |-> {}]
      /\ toRemove' = [p \in Rank |-> {}]
      /\ UNCHANGED <<phase, call, location, data, managed, toClear, exported, fresh, live, linked>>
  BY DEF Restart, idealVars
<1>2. /\ TypeOK /\ FreshNodes /\ LocalOnce /\ PresentKnown /\ DistantLocated /\ OriginsKnow
      /\ Buffers /\ EdgeStates /\ DistantLinked /\ GhostsFresh
  BY Parts
<1>3. \A p \in Rank : linkBuffer[p] = {} /\ unlinkMigration[p] = {} /\ toRemove[p] = {}
  BY <1>1, <1>2 DEF Buffers, Returned
<1>4. /\ linkBuffer' = linkBuffer
      /\ unlinkMigration' = unlinkMigration
      /\ toRemove' = toRemove
  BY <1>1, <1>2, <1>3 DEF TypeOK
\* A node is LOCAL where its location is the process itself.
<1>5. state' = state
  <2>1. ASSUME NEW p \in Rank, NEW n \in Node
        PROVE state'[p][n] = state[p][n]
    <3>1. state'[p][n] = IF ~Present(p, n) THEN "ABSENT"
                         ELSE IF location[p][n] = p THEN "LOCAL" ELSE "DISTANT"
      BY <1>1 DEF Graph, Present
    <3>2. CASE ~Present(p, n)
      BY <3>1, <3>2 DEF Present
    <3>3. CASE IsLocal(p, n)
      BY <3>1, <3>3, <1>2 DEF LocalOnce, IsLocal, Present
    <3>4. CASE Present(p, n) /\ ~IsLocal(p, n)
      <4>1. IsDistant(p, n) /\ IsKnown(n)
        BY <3>4, <1>1, <1>2, NodeStates DEF PresentKnown
      <4>2. IsLocal(location[p][n], n)
        BY <4>1, <1>1, <1>2 DEF DistantLocated
      <4>3. location[p][n] # p
        BY <3>4, <4>2
      <4> QED
        BY <3>1, <3>4, <4>1, <4>3 DEF IsDistant
    <3> QED
      BY <3>2, <3>3, <3>4
  <2> QED
    BY <2>1, <1>1, <1>2 DEF TypeOK
<1>6. edgeState' = edgeState
  <2>1. ASSUME NEW p \in Rank, NEW e \in Edge
        PROVE edgeState'[p][e] = edgeState[p][e]
    <3>1. edgeState[p][e] \in {"ABSENT", "LOCAL", "DISTANT"}
      BY <1>2 DEF TypeOK
    <3>2. CASE ~HasEdge(p, e)
      BY <3>2, <1>1 DEF HasEdge, GraphEdges
    <3>3. CASE HasEdge(p, e)
      <4>1. edgeState'[p][e] =
              ImportedState("ABSENT", \A n \in Ends(e) : state[p][n] = "LOCAL")
        BY <3>3, <1>1, <1>5 DEF HasEdge, GraphEdges
      <4>2. edgeState[p][e] = "LOCAL" <=> \A n \in Ends(e) : state[p][n] = "LOCAL"
        BY <3>3, <1>2 DEF EdgeStates, IsLocal
      <4> QED
        BY <3>1, <3>3, <4>1, <4>2 DEF ImportedState, HasEdge
    <3> QED
      BY <3>2, <3>3
  <2>2. edgeState' = [p \in Rank |-> [e \in Edge |-> edgeState'[p][e]]]
    BY <1>1
  <2>3. edgeState = [p \in Rank |-> [e \in Edge |-> edgeState[p][e]]]
    BY <1>2 DEF TypeOK
  <2> QED
    BY <2>1, <2>2, <2>3
<1>7. /\ newLocal' \in [Rank -> SUBSET Node]
      /\ \A p \in Rank, n \in Node : n \in newLocal'[p] <=> IsLocal(p, n)
  BY <1>1, <1>5 DEF IsLocal
<1>8. TypeOK'
  BY <1>1, <1>2, <1>4, <1>5, <1>6, <1>7, GhostAssumption DEF TypeOK
<1>9. Buffers'
  BY <1>1, <1>2, <1>4 DEF Buffers, Returned
<1>10. NodesInv'
  <2>1. /\ LocalOnce /\ KnownHosted /\ PresentKnown /\ Removals /\ DistantLocated
        /\ ExportedDistant
    BY Parts
  <2>2. FreshNodes'
    <3>1. \A n \in Node \cap fresh : \A p \in Rank : n \notin newLocal'[p]
      BY <1>2, <1>7 DEF FreshNodes, IsLocal, Present
    <3> QED
      BY <3>1, <1>1, <1>2, <1>4, <1>5 DEF FreshNodes, IsKnown, IsPending, Present
  <2>3. LocalOnce'
    BY <2>1, <1>1, <1>5 DEF LocalOnce, IsLocal
  <2>4. KnownHosted'
    BY <2>1, <1>1, <1>4, <1>5 DEF KnownHosted, IsKnown, IsPending, IsLocal
  <2>5. PresentKnown'
    BY <2>1, <1>1, <1>4, <1>5 DEF PresentKnown, IsKnown, IsPending, IsLocal, Present
  <2>6. Removals'
    BY <2>1, <1>1, <1>4, <1>5 DEF Removals, IsPending, Present
  <2>7. DistantLocated'
    BY <2>1, <1>1, <1>4, <1>5 DEF DistantLocated, IsKnown, IsPending, IsLocal, IsDistant
  <2>8. OriginsKnow'
    <3>1. \A n \in live, p \in Rank : n \in newLocal'[p] => IsLocal(p, n)
      BY <1>2, <1>7 DEF TypeOK
    <3> QED
      BY <3>1, <1>1, <1>2, <1>5 DEF OriginsKnow, IsLocal
  <2>9. ExportedDistant'
    BY <2>1, <1>1, <1>5 DEF ExportedDistant, IsDistant
  <2> QED
    BY <2>2, <2>3, <2>4, <2>5, <2>6, <2>7, <2>8, <2>9 DEF NodesInv
<1>11. DistantLinked'
  <2>1. call' = "synchronize" => call = "synchronize" /\ Returned
    BY <1>1 DEF Returned
  <2> QED
    BY <2>1, <1>2, <1>5, <1>6 DEF DistantLinked, IsDistant, HasEdge, HostsEnd, IsLocal
<1>12. EdgesInv'
  BY <1>1, <1>4, <1>5, <1>6, <1>11, EdgesUnchanged DEF IInv
<1>13. GhostsFresh'
  BY <1>1, <1>2, <1>5 DEF GhostsFresh, Returned, In
<1> QED
  BY <1>1, <1>5, <1>8, <1>9, <1>10, <1>12, <1>13 DEF IInv

-----------------------------------------------------------------------------
(* The inductive invariant *)

\* There are no nodes and no edges at first.
LEMMA InitIInv == Init => IInv
<1> SUFFICES ASSUME Init PROVE IInv
  OBVIOUS
<1>1. TypeOK
  BY GhostAssumption DEF Init, TypeOK
<1>2. /\ \A p \in Rank, n \in Node : ~Present(p, n) /\ ~IsLocal(p, n) /\ ~IsDistant(p, n)
      /\ \A p \in Rank, e \in Edge : ~HasEdge(p, e)
      /\ \A n \in Node : ~IsPending(n) /\ ~IsKnown(n)
      /\ \A p \in Rank, e \in Edge : ~Told(p, e)
  BY DEF Init, Present, IsLocal, IsDistant, HasEdge, IsPending, IsKnown, Told
<1>3. NodesInv
  BY <1>2 DEF Init, NodesInv, FreshNodes, LocalOnce, KnownHosted, PresentKnown, Removals,
              DistantLocated, OriginsKnow, ExportedDistant
<1>4. Buffers
  BY DEF Init, Buffers
<1>5. EdgesInv
  BY <1>2 DEF Init, EdgesInv, EdgeStates, FreshEdges, Buffered, LinkedLive, Messages, OnHosts,
              LinkedOnHosts, UnlinkedErased, HostsTold, RemovedUnlinked, ToClearInv,
              DistantLinked
<1>6. GhostsFresh
  BY DEF Init, GhostsFresh, In
<1> QED
  BY <1>1, <1>3, <1>4, <1>5, <1>6 DEF IInv

\* Every step keeps the invariant.
LEMMA NextIInv == Allow = {} /\ IInv /\ [Next]_vars => IInv'
<1> SUFFICES ASSUME Allow = {}, IInv, [Next]_vars PROVE IInv'
  OBVIOUS
<1>1. ASSUME NEW p \in Rank, Process(p) PROVE IInv'
  BY <1>1, BuildNodeStep, InsertDistantStep, LinkStep, UnlinkStep, RemoveNodeStep, WriteStep
     DEF Process
<1>2. CASE Synchronize \/ Distribute
  BY <1>2, CallStep
<1>3. CASE Collective
  BY <1>3, MigrateLinksStep, MigrateRemovalsStep, MigrateUnlinksStep, ClearDistantNodesStep,
     ExportStep, UpdateLocationsStep, SynchronizeDataStep DEF Collective
<1>4. CASE Restart
  BY <1>4, RestartStep
<1>5. CASE UNCHANGED vars
  BY <1>5, Stutter
<1> QED
  BY <1>1, <1>2, <1>3, <1>4, <1>5 DEF Next

(* The invariant of the nodes, the edges and the buffers of all processes   *)
(* always holds.                                                            *)
THEOREM Inductive == Allow = {} /\ Spec => []IInv
<1> SUFFICES ASSUME Allow = {} PROVE Spec => []IInv
  OBVIOUS
<1>1. Init => IInv
  BY InitIInv
<1>2. IInv /\ [Next]_vars => IInv'
  BY NextIInv
<1> QED
  BY <1>1, <1>2, PTL DEF Spec

-----------------------------------------------------------------------------
(* What it says of the graph *)

(* Graphs, buffers and locations keep their types.                          *)
THEOREM TypeCorrect == Allow = {} /\ Spec => []TypeOK
<1>1. IInv => TypeOK
  BY DEF IInv
<1> QED
  BY <1>1, Inductive, PTL

(* synchronize() and distribute() look up no node that is not there, and    *)
(* erase none twice.                                                        *)
THEOREM NoFailureHolds == Allow = {} /\ Spec => []NoFailure
<1>1. IInv => NoFailure
  BY DEF IInv, Buffers, NoFailure
<1> QED
  BY <1>1, Inductive, PTL

(* A live node is LOCAL on one process, however often it has moved.         *)
THEOREM OneOwnerHolds == Allow = {} /\ Spec => []OneOwner
<1>1. IInv => OneOwner
  <2>1. SUFFICES ASSUME IInv, NEW n \in live
                 PROVE \E p \in Rank :
                         /\ state[p][n] = "LOCAL"
                         /\ \A q \in Rank \ {p} : state[q][n] # "LOCAL"
    BY DEF OneOwner
  <2>2. n \in Node /\ IsKnown(n)
    BY <2>1, Parts DEF TypeOK, IsKnown
  <2>3. PICK p \in Rank : IsLocal(p, n)
    BY <2>1, <2>2, Parts DEF KnownHosted
  <2>4. \A q \in Rank : IsLocal(q, n) => q = p
    BY <2>1, <2>2, <2>3, Parts DEF LocalOnce
  <2> QED
    BY <2>3, <2>4 DEF IsLocal
<1> QED
  BY <1>1, Inductive, PTL

(* The origin of a live node, and the processes where it is DISTANT, know   *)
(* where it is LOCAL, except while a partition is being applied.            *)
THEOREM LocationsCorrectHolds == Allow = {} /\ Spec => []LocationsCorrect
<1>1. IInv => LocationsCorrect
  <2>1. SUFFICES ASSUME IInv, phase # "locations", NEW n \in live
                 PROVE /\ state[managed[n]][n] = "LOCAL"
                       /\ \A p \in Rank : state[p][n] = "DISTANT" =>
                            state[location[p][n]][n] = "LOCAL"
    BY DEF LocationsCorrect
  <2>2. n \in Node /\ IsKnown(n)
    BY <2>1, Parts DEF TypeOK, IsKnown
  <2>3. state[managed[n]][n] = "LOCAL"
    BY <2>1, Parts DEF OriginsKnow, IsLocal
  <2>4. \A p \in Rank : state[p][n] = "DISTANT" => state[location[p][n]][n] = "LOCAL"
    BY <2>1, <2>2, Parts DEF DistantLocated, IsLocal, IsDistant
  <2> QED
    BY <2>3, <2>4
<1> QED
  BY <1>1, Inductive, PTL

(* When a collective call returns, a process has exactly the edges of the   *)
(* nodes it hosts; and an edge is LOCAL exactly if both its ends are.       *)
THEOREM EdgesAgreeHolds == Allow = {} /\ Spec => []EdgesAgree
<1>1. IInv => EdgesAgree
  <2> SUFFICES ASSUME IInv PROVE EdgesAgree
    OBVIOUS
  <2>1. ASSUME Returned, NEW p \in Rank
        PROVE GraphEdges(p) = linked \cap EdgesOf(In(p, "LOCAL"))
    <3>1. /\ \A q \in Rank : /\ linkBuffer[q] = {} /\ unlinkMigration[q] = {}
                             /\ toClear[q] = {} /\ toRemove[q] = {} /\ exported[q] = {}
      BY <2>1, Parts DEF Buffers, Returned
    <3>2. \A e \in Edge : HostsEnd(p, e) <=> e \in EdgesOf(In(p, "LOCAL"))
      BY EndsAreNodes DEF HostsEnd, EdgesOf, In, IsLocal
    <3>3. \A e \in Edge : HasEdge(p, e) => HostsEnd(p, e) /\ e \in linked
      BY <3>1, Parts DEF OnHosts, UnlinkedErased, Told, IsPending
    <3>4. \A e \in linked : HostsEnd(p, e) => HasEdge(p, e)
      BY <3>1, Parts DEF LinkedOnHosts
    <3>5. linked \subseteq Edge
      BY Parts DEF TypeOK
    <3> QED
      BY <3>2, <3>3, <3>4, <3>5 DEF GraphEdges, HasEdge
  <2>2. ASSUME NEW p \in Rank, NEW e \in GraphEdges(p)
        PROVE /\ Ends(e) \subseteq Graph(p)
              /\ edgeState[p][e] = "LOCAL" <=> Ends(e) \subseteq In(p, "LOCAL")
    <3>1. /\ \A n \in Ends(e) : Present(p, n)
          /\ edgeState[p][e] = "LOCAL" <=> \A n \in Ends(e) : IsLocal(p, n)
      BY <2>2, Parts DEF EdgeStates, GraphEdges, HasEdge
    <3> QED
      BY <2>2, <3>1, EndsAreNodes DEF Graph, GraphEdges, In, Present, IsLocal
  <2> QED
    BY <2>1, <2>2 DEF EdgesAgree
<1> QED
  BY <1>1, Inductive, PTL

(* Once synchronize() has cleared the graph, what is left of it is live, and *)
(* DISTANT nodes are there for an edge to a LOCAL one.                      *)
THEOREM RemovedEverywhereHolds == Allow = {} /\ Spec => []RemovedEverywhere
<1>1. IInv => RemovedEverywhere
  <2>1. SUFFICES ASSUME IInv, call = "synchronize", phase = "data" \/ Returned, NEW p \in Rank
                 PROVE /\ Graph(p) \subseteq live
                       /\ \A n \in In(p, "DISTANT") : \E e \in GraphEdges(p) :
                            n \in Ends(e) /\ Ends(e) \cap In(p, "LOCAL") # {}
    BY DEF RemovedEverywhere
  <2>2. \A n \in Node : ~IsPending(n)
    BY <2>1, Parts DEF Buffers, Returned, IsPending
  <2>3. \A n \in Node : Present(p, n) => n \in live
    BY <2>1, <2>2, Parts DEF PresentKnown, IsKnown, Returned
  <2>4. \A n \in Node : IsDistant(p, n) =>
          \E e \in Edge : HasEdge(p, e) /\ n \in Ends(e) /\ HostsEnd(p, e)
    BY <2>1, Parts DEF DistantLinked
  <2>5. \A e \in Edge : HasEdge(p, e) /\ HostsEnd(p, e) =>
          e \in GraphEdges(p) /\ Ends(e) \cap In(p, "LOCAL") # {}
    BY EndsAreNodes DEF HasEdge, HostsEnd, GraphEdges, In, IsLocal
  <2> QED
    BY <2>3, <2>4, <2>5 DEF Graph, Present, In, IsDistant
<1> QED
  BY <1>1, Inductive, PTL

(* When a collective call returns, ghosts have the data of their owners.    *)
THEOREM GhostsFreshHolds == Allow = {} /\ Spec => []GhostsFresh
<1>1. IInv => GhostsFresh
  BY DEF IInv
<1> QED
  BY <1>1, Inductive, PTL

-----------------------------------------------------------------------------
(* The data of a node on its host *)

\* Nodes that have a host keep it, and do not lose data.
HostsKept ==
  /\ \A n \in live, q \in Rank : IsLocal(q, n)' => IsLocal(q, n)
  /\ \A n \in live, q \in Rank : IsLocal(q, n) => data'[q][n] >= data[q][n]

DataKept ==
  \A n \in live \cap live' : \A p, q \in Rank :
    state[p][n] = "LOCAL" /\ state'[q][n] = "LOCAL" => data'[q][n] >= data[p][n]

\* The host is the only one.
LEMMA HostsKeptEnough ==
  ASSUME IInv, HostsKept
  PROVE DataKept
<1>1. SUFFICES ASSUME NEW n \in live, NEW p \in Rank, NEW q \in Rank,
                      IsLocal(p, n), IsLocal(q, n)'
               PROVE data'[q][n] >= data[p][n]
  BY DEF DataKept, IsLocal
<1>2. IsLocal(q, n) /\ n \in Node
  BY <1>1, Parts DEF HostsKept, TypeOK
<1>3. p = q
  BY <1>1, <1>2, Parts DEF LocalOnce
<1> QED
  BY <1>1, <1>3 DEF HostsKept

\* The operations and the collective calls keep hosts, except for Export.
LEMMA StepKeepsHosts ==
  ASSUME IInv, Allow = {},
         \/ \E p \in Rank : Process(p)
         \/ Synchronize \/ Distribute \/ Restart
         \/ MigrateLinks \/ MigrateRemovals \/ MigrateUnlinks \/ ClearDistantNodes
         \/ UpdateLocations \/ SynchronizeData
         \/ UNCHANGED vars
  PROVE HostsKept
<1>1. TypeOK /\ FreshNodes /\ LocalOnce
  BY Parts
<1>2. \A n \in live, q \in Rank : n \in Node /\ data[q][n] \in Nat
  BY <1>1, GhostAssumption DEF TypeOK
<1>3. ASSUME UNCHANGED <<state, data>> PROVE HostsKept
  BY <1>2, <1>3 DEF HostsKept, IsLocal
<1>4. ASSUME NEW p \in Rank, BuildNode(p) PROVE HostsKept
  <2>1. PICK n \in Node \cap fresh : state' = [state EXCEPT ![p][n] = "LOCAL"]
    BY <1>4 DEF BuildNode
  <2>2. n \notin live
    BY <1>1 DEF FreshNodes, IsKnown
  <2>3. \A m \in live, q \in Rank : state'[q][m] = state[q][m]
    BY <2>1, <2>2, <1>1, <1>2 DEF TypeOK
  <2>4. data' = data
    BY <1>4 DEF BuildNode
  <2> QED
    BY <2>3, <2>4, <1>2 DEF HostsKept, IsLocal
<1>5. ASSUME NEW p \in Rank, InsertDistant(p) PROVE HostsKept
  <2>1. PICK n \in Node : /\ state[p][n] = "ABSENT"
                          /\ state' = [state EXCEPT ![p][n] = "DISTANT"]
                          /\ data' = [data EXCEPT ![p][n] = 0]
    BY <1>5 DEF InsertDistant, In
  <2>2. ASSUME NEW m \in live, NEW q \in Rank
        PROVE /\ IsLocal(q, m)' => IsLocal(q, m)
              /\ IsLocal(q, m) => data'[q][m] = data[q][m]
    <3>1. CASE q = p /\ m = n
      BY <3>1, <2>1, <1>1 DEF TypeOK, IsLocal
    <3>2. CASE ~(q = p /\ m = n)
      <4>1. state'[q][m] = state[q][m] /\ data'[q][m] = data[q][m]
        BY <3>2, <2>1, <1>1, <1>2 DEF TypeOK
      <4> QED
        BY <4>1 DEF IsLocal
    <3> QED
      BY <3>1, <3>2
  <2> QED
    BY <2>2, <1>2 DEF HostsKept
<1>6. ASSUME NEW p \in Rank, Write(p) PROVE HostsKept
  <2>1. PICK n \in Node : data' = [data EXCEPT ![p][n] = @ + 1]
    BY <1>6 DEF Write, In
  <2>2. state' = state
    BY <1>6 DEF Write
  <2>3. ASSUME NEW m \in live, NEW q \in Rank
        PROVE data'[q][m] >= data[q][m]
    <3>1. CASE q = p /\ m = n
      <4>1. data'[q][m] = data[q][m] + 1
        BY <3>1, <2>1, <1>1 DEF TypeOK
      <4> QED
        BY <4>1, <1>2
    <3>2. CASE ~(q = p /\ m = n)
      <4>1. data'[q][m] = data[q][m]
        BY <3>2, <2>1, <1>1, <1>2 DEF TypeOK
      <4> QED
        BY <4>1, <1>2
    <3> QED
      BY <3>1, <3>2
  <2> QED
    BY <2>2, <2>3 DEF HostsKept, IsLocal
<1>7. ASSUME NEW p \in Rank, Process(p) PROVE HostsKept
  <2>1. CASE Link(p) \/ Unlink(p) \/ RemoveNode(p)
    <3>1. UNCHANGED <<state, data>>
      BY <2>1 DEF Link, Unlink, RemoveNode
    <3> QED
      BY <3>1, <1>3
  <2> QED
    BY <2>1, <1>4, <1>5, <1>6, <1>7 DEF Process
<1>8. CASE MigrateLinks
  <2>1. \A n \in Node, q \in Rank : IsLocal(q, n)' => IsLocal(q, n)
    BY <1>8, MigrateLinksStep
  <2>2. \A n \in Node, q \in Rank : IsLocal(q, n) => data'[q][n] = data[q][n]
    BY <1>8, MigrateLinksStep
  <2> QED
    BY <2>1, <2>2, <1>2 DEF HostsKept
<1>9. ASSUME NEW C, ClearNodes(C), data' = data PROVE HostsKept
  <2>1. \A n \in Node, q \in Rank : state'[q][n] \in {"ABSENT", state[q][n]}
    BY <1>9 DEF ClearNodes
  <2> QED
    BY <2>1, <1>2, <1>9 DEF HostsKept, IsLocal
<1>10. CASE ClearDistantNodes \/ UpdateLocations
  BY <1>9, <1>10 DEF ClearDistantNodes, UpdateLocations
<1>11. CASE MigrateUnlinks
  <2>1. \A n \in Node, q \in Rank : state'[q][n] \in {"ABSENT", state[q][n]}
    BY <1>11 DEF MigrateUnlinks
  <2>2. data' = data
    BY <1>11 DEF MigrateUnlinks
  <2> QED
    BY <2>1, <2>2, <1>2 DEF HostsKept, IsLocal
<1>12. CASE SynchronizeData
  <2>1. state' = state
    BY <1>12 DEF SynchronizeData
  <2>2. \A n \in Node, q \in Rank : IsLocal(q, n) => data'[q][n] = data[q][n]
    BY <1>12 DEF SynchronizeData, IsLocal
  <2> QED
    BY <2>1, <2>2, <1>2 DEF HostsKept, IsLocal
<1>13. CASE Synchronize \/ Distribute \/ MigrateRemovals \/ UNCHANGED vars
  <2>1. UNCHANGED <<state, data>>
    BY <1>13 DEF Synchronize, Distribute, MigrateRemovals, graphVars, vars
  <2> QED
    BY <2>1, <1>3
<1>14. CASE Restart
  BY <1>14, <1>3, RestartStep
<1> QED
  BY <1>7, <1>8, <1>10, <1>11, <1>12, <1>13, <1>14

(* The data of a node on its host never goes back to an older value, not    *)
(* when the node moves either: its new host has the data of the last one.   *)
THEOREM DataKeptAlways == Allow = {} /\ Spec => DataNeverRegresses
<1> SUFFICES ASSUME Allow = {} PROVE Spec => DataNeverRegresses
  OBVIOUS
<1>1. IInv /\ [Next]_vars => DataKept
  <2> SUFFICES ASSUME IInv, [Next]_vars PROVE DataKept
    OBVIOUS
  <2>1. CASE Export
    <3>1. \A n \in Node, o, q \in Rank : IsLocal(o, n) /\ IsLocal(q, n)' => data'[q][n] = data[o][n]
      BY <2>1, ExportStep DEF NodesMoved
    <3>2. \A n \in live, o \in Rank : n \in Node /\ data[o][n] \in Nat
      BY Parts, GhostAssumption DEF TypeOK
    <3> QED
      BY <3>1, <3>2 DEF DataKept, IsLocal
  <2>2. CASE ~Export
    <3>1. HostsKept
      BY <2>2, StepKeepsHosts DEF Next, Collective
    <3> QED
      BY <3>1, HostsKeptEnough
  <2> QED
    BY <2>1, <2>2
<1>2. Spec => []IInv
  BY Inductive
<1> QED
  BY <1>1, <1>2, PTL DEF Spec, DataNeverRegresses, DataKept
=============================================================================
