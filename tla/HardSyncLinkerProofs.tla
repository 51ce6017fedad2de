------------------------ MODULE HardSyncLinkerProofs ------------------------
(***************************************************************************)
(* Proofs about HardSyncLinker, for any number of processes, any nodes,    *)
(* edges and hosts, and any number of operations of each process, as long  *)
(* as the tasks keep out of the usages that Allow may add.                 *)
(*                                                                         *)
(* An operation that waits is protected from the requests that its process *)
(* serves: an edge that is being unlinked is left alone, and so are the    *)
(* edges of a node that is being removed, which its host unlinks one by    *)
(* one.  Whoever erases an edge has told the other host of it, or is told  *)
(* by it.                                                                  *)
(***************************************************************************)
EXTENDS HardSyncLinker, SequenceTheorems, TLAPS

-----------------------------------------------------------------------------
(* The inductive invariant: operations and requests *)

FrameSet ==
  [op: {"LINK", "UNLINK"}, id: Edge, loop: {"none"}, todo: {{}}] \cup
  [op: {"REMOVE_NODE"}, id: Node, loop: {"none"}, todo: {{}}] \cup
  [op: {"REMOVE_LOCAL"}, id: Node, loop: {"out", "in"}, todo: SUBSET Edge]

Types ==
  /\ TypeOK
  /\ left \in [Rank -> Nat]
  /\ stack \in [Rank -> Seq(FrameSet)]
  /\ toRemove \in [Rank -> Seq(Node)]

\* Process p is in operation op on id.
InOp(p, op, id) ==
  \E i \in 1 .. Len(stack[p]) : stack[p][i].op = op /\ stack[p][i].id = id

Sent(p, tag, id) == \E m \in sent : m.to = p /\ m.tag = tag /\ m.id = id

\* Host p removes n, or is asked to.
Removes(p, n) == InOp(p, "REMOVE_LOCAL", n) \/ Sent(p, "REMOVE_NODE", n)

Registered(p, n) == \E i \in 1 .. Len(toRemove[p]) : toRemove[p][i] = n

\* Only a request to remove a node is served by an operation, and it unlinks edges
\* of that node.
StackShape ==
  \A p \in Rank : \A i \in 1 .. Len(stack[p]) :
    LET f == stack[p][i]
    IN  /\ f.op \in {"LINK", "REMOVE_NODE"} => i = 1
        /\ f.op = "UNLINK" =>
             \/ i = 1 /\ \A n \in Ends(f.id) : ~Removes(p, n)
             \/ /\ i > 1 /\ stack[p][i-1].op = "REMOVE_LOCAL"
                /\ stack[p][i-1].id \in Ends(f.id)
        /\ \A j \in 1 .. Len(stack[p]) :
             stack[p][j].op = f.op /\ stack[p][j].id = f.id => i = j

\* Operations are on what exists, on a process they concern.
OpsHosted ==
  \A p \in Rank :
    /\ \A e \in Edge : InOp(p, "LINK", e) =>
         /\ e \in linked /\ pc[p] = "working"
         /\ \A n \in Ends(e) : n \in nodes[p]
    /\ \A e \in Edge : InOp(p, "UNLINK", e) =>
         e \notin linked /\ p \in Hosts(e) /\ e \in edges[p]
    /\ \A n \in Node : InOp(p, "REMOVE_NODE", n) =>
         n \notin live /\ p # Host[n] /\ ~Registered(p, n)
    /\ \A n \in Node : InOp(p, "REMOVE_LOCAL", n) =>
         n \notin live /\ p = Host[n] /\ ~Registered(p, n)

\* The sender of a request for an edge waits for its reception.
RequestsAwaited ==
  \A m \in sent :
    /\ m.tag = "LINK" => /\ m.id \in Edge /\ m.to \in Hosts(m.id) \ {m.from}
                         /\ InOp(m.from, "LINK", m.id)
    /\ m.tag = "UNLINK" => /\ m.id \in Edge /\ m.to \in Hosts(m.id) \ {m.from}
                           /\ InOp(m.from, "UNLINK", m.id)
    /\ m.tag = "REMOVE_NODE" =>
         /\ m.id \in Node /\ m.to = Host[m.id] /\ m.id \notin live
         /\ ~InOp(m.to, "REMOVE_LOCAL", m.id) /\ ~Registered(m.to, m.id)
         /\ \A r \in sent : r.tag = "REMOVE_NODE" /\ r.id = m.id => r = m

RegisteredOnce ==
  \A p \in Rank : \A i, j \in 1 .. Len(toRemove[p]) :
    /\ toRemove[p][i] \notin live
    /\ toRemove[p][i] = toRemove[p][j] => i = j

-----------------------------------------------------------------------------
(* The inductive invariant: edges and nodes *)

FreshEdges ==
  \A e \in fresh :
    /\ e \notin linked
    /\ \A p \in Rank : e \notin edges[p] /\ ~InOp(p, "LINK", e)

LinkedLive == \A e \in linked : \A n \in Ends(e) : n \in live

\* An edge is on the hosts of its ends, ghost edges aside.
EdgesHosted ==
  /\ \A p \in Rank : \A e \in edges[p] : p \in Hosts(e) \/ e \in ghostEdges[p]
  /\ \A p \in Rank : \A e \in ghostEdges[p] : e \in edges[p] /\ p \notin Hosts(e)
  /\ \A p \in Rank : pc[p] = "terminating" => ghostEdges[p] = {}

\* The hosts have an edge that is linked, or are about to.
LinkedOnHosts ==
  \A p \in Rank : \A e \in linked : p \in Hosts(e) =>
    e \in edges[p] \/ InOp(p, "LINK", e) \/ Sent(p, "LINK", e)

\* What a host has still to unlink: in the list of the current loop, or in the
\* one to come.
ToUnlink(p, n, e) ==
  \E i \in 1 .. Len(stack[p]) :
    /\ stack[p][i].op = "REMOVE_LOCAL" /\ stack[p][i].id = n
    /\ e \in stack[p][i].todo \/ (stack[p][i].loop = "out" /\ Source[e] # n)

\* A host erases all the edges of a node it removes, and nobody else does.
Loops ==
  \A p \in Rank :
    /\ \A n \in Node : InOp(p, "REMOVE_LOCAL", n) =>
         \A e \in edges[p] : n \in Ends(e) => InOp(p, "UNLINK", e) \/ ToUnlink(p, n, e)
    /\ \A i \in 1 .. Len(stack[p]) : stack[p][i].op = "REMOVE_LOCAL" =>
         \A e \in stack[p][i].todo :
           e \in edges[p] /\ stack[p][i].id \in Ends(e) /\ ~InOp(p, "UNLINK", e)

\* The ends of an edge on one host are not removed together.
RemovedApart ==
  \A p \in Rank : \A e \in edges[p] : \A m, n \in Ends(e) :
    Removes(p, m) /\ Removes(p, n) => m = n

\* An edge that is not linked any more will be erased: its host does it, or is told
\* to, or removes an end, or another host does that and will tell.
UnlinkedErased ==
  \A p \in Rank : \A e \in edges[p] : p \in Hosts(e) /\ e \notin linked =>
    \/ InOp(p, "UNLINK", e) \/ Sent(p, "UNLINK", e)
    \/ \E n \in Ends(e) : Removes(p, n)
    \/ \E q \in Rank \ {p} : /\ e \in edges[q] /\ ~InOp(q, "UNLINK", e)
                             /\ \E n \in Ends(e) : Removes(q, n)

NodesKept ==
  /\ \A n \in live : n \in nodes[Host[n]]
  /\ \A m \in sent : m.tag = "REMOVE_NODE" => m.id \in nodes[m.to]
  /\ \A p \in Rank : \A e \in edges[p] : \A n \in Ends(e) : n \in nodes[p]
  /\ \A p \in Rank : \A n \in nodes[p] :
       p = Host[n] => n \in live \/ Removes(p, n) \/ Registered(p, n)

\* Nothing has happened yet in the period.
Unchanged ==
  (\A p \in Rank : left[p] = MaxOps[p]) =>
    /\ sent = {}
    /\ \A p \in Rank :
         /\ stack[p] = <<>>
         /\ nodes[p] = {n \in live : \/ Host[n] = p
                                     \/ \E e \in linked : p \in Hosts(e) /\ n \in Ends(e)}

OpsInv == StackShape /\ OpsHosted /\ RequestsAwaited /\ RegisteredOnce

GraphInv ==
  /\ FreshEdges /\ LinkedLive /\ EdgesHosted /\ LinkedOnHosts /\ Loops /\ RemovedApart
  /\ UnlinkedErased /\ NodesKept /\ Unchanged

IInv == Types /\ OpsInv /\ GraphInv /\ NoFailure

-----------------------------------------------------------------------------
(* Lemmas about stacks *)

Op == {"LINK", "UNLINK", "REMOVE_NODE", "REMOVE_LOCAL"}
Id == Edge \cup Node

\* Frames of the four operations.
LEMMA FrameParts ==
  ASSUME NEW f \in FrameSet
  PROVE /\ f.op \in Op /\ f.id \in Id
        /\ f.op \in {"LINK", "UNLINK"} => f.id \in Edge /\ f.todo = {}
        /\ f.op \in {"REMOVE_NODE", "REMOVE_LOCAL"} => f.id \in Node
        /\ f.op = "REMOVE_LOCAL" => f.loop \in {"out", "in"} /\ f.todo \in SUBSET Edge
BY DEF FrameSet, Op, Id

LEMMA FrameTyped ==
  /\ \A e \in Edge : /\ Frame("LINK", e, "none", {}) \in FrameSet
                     /\ Frame("UNLINK", e, "none", {}) \in FrameSet
  /\ \A n \in Node : /\ Frame("REMOVE_NODE", n, "none", {}) \in FrameSet
                     /\ \A loop \in {"out", "in"}, todo \in SUBSET Edge :
                          Frame("REMOVE_LOCAL", n, loop, todo) \in FrameSet
BY DEF Frame, FrameSet

\* Stacks are sequences of frames.
LEMMA StackTyped ==
  ASSUME Types, NEW p \in Rank
  PROVE /\ stack[p] \in Seq(FrameSet) /\ Len(stack[p]) \in Nat
        /\ DOMAIN stack[p] = 1 .. Len(stack[p])
        /\ \A i \in 1 .. Len(stack[p]) : stack[p][i] \in FrameSet
        /\ stack[p] # <<>> <=> Len(stack[p]) > 0
BY LenProperties, ElementOfSeq, EmptySeq DEF Types

\* The ends of an edge are nodes, its hosts are processes, two at most.
LEMMA EndsAreNodes ==
  \A e \in Edge :
    /\ \A n \in Ends(e) : n \in Node /\ Host[n] \in Rank /\ Host[n] \in Hosts(e)
    /\ \A p \in Hosts(e) : p \in Rank /\ \E n \in Ends(e) : Host[n] = p
    /\ \A p, q, r \in Hosts(e) : p # q => r \in {p, q}
BY LinkerAssumption DEF Ends, Hosts

\* Process p keeps its first k frames, and the others keep theirs.
Kept(p, k) ==
  /\ stack' \in [Rank -> Seq(FrameSet)]
  /\ \A q \in Rank \ {p} : stack'[q] = stack[q]
  /\ k \in 0 .. Len(stack[p])
  /\ \A i \in 1 .. k : stack'[p][i] = stack[p][i]

LEMMA FramePushed ==
  ASSUME Types, NEW p \in Rank, NEW f \in FrameSet,
         stack' = [stack EXCEPT ![p] = Append(@, f)]
  PROVE /\ Kept(p, Len(stack[p]))
        /\ Len(stack'[p]) = Len(stack[p]) + 1
        /\ stack'[p][Len(stack[p]) + 1] = f
<1>1. stack[p] \in Seq(FrameSet) /\ Len(stack[p]) \in Nat
  BY StackTyped
<1>2. stack'[p] = Append(stack[p], f)
  BY DEF Types
<1>3. /\ Append(stack[p], f) \in Seq(FrameSet)
      /\ Len(Append(stack[p], f)) = Len(stack[p]) + 1
      /\ \A i \in 1 .. Len(stack[p]) : Append(stack[p], f)[i] = stack[p][i]
      /\ Append(stack[p], f)[Len(stack[p]) + 1] = f
  BY <1>1, AppendProperties
<1>4. stack' \in [Rank -> Seq(FrameSet)] /\ \A q \in Rank \ {p} : stack'[q] = stack[q]
  BY <1>3 DEF Types
<1> QED
  BY <1>1, <1>2, <1>3, <1>4 DEF Kept

LEMMA FrameStarted ==
  ASSUME Types, NEW p \in Rank, NEW f \in FrameSet, stack[p] = <<>>,
         stack' = [stack EXCEPT ![p] = <<f>>]
  PROVE /\ Kept(p, Len(stack[p]))
        /\ Len(stack'[p]) = Len(stack[p]) + 1
        /\ stack'[p][Len(stack[p]) + 1] = f
<1>1. Append(stack[p], f) = <<f>>
  OBVIOUS
<1>2. stack' = [stack EXCEPT ![p] = Append(@, f)]
  BY <1>1
<1> QED
  BY <1>2, FramePushed

\* What is below the last frame.
LEMMA BelowParts ==
  ASSUME Types, NEW p \in Rank, stack[p] # <<>>
  PROVE /\ Below(p) \in Seq(FrameSet)
        /\ Len(stack[p]) \in Nat \ {0} /\ Len(Below(p)) = Len(stack[p]) - 1
        /\ \A i \in 1 .. Len(stack[p]) - 1 : Below(p)[i] = stack[p][i]
        /\ Top(p) = stack[p][Len(stack[p])] /\ Top(p) \in FrameSet
<1>1. /\ stack[p] \in Seq(FrameSet) /\ Len(stack[p]) \in Nat /\ Len(stack[p]) > 0
      /\ \A i \in 1 .. Len(stack[p]) : stack[p][i] \in FrameSet
  BY StackTyped
<1>2. PICK s : s = stack[p]
  OBVIOUS
<1>3. /\ SubSeq(s, 1, Len(s) - 1) \in Seq(FrameSet)
      /\ Len(SubSeq(s, 1, Len(s) - 1)) = Len(s) - 1
      /\ \A i \in 1 .. Len(s) - 1 : SubSeq(s, 1, Len(s) - 1)[i] = s[i]
  <2>1. \A i \in 1 .. Len(s) - 1 : s[i] \in FrameSet
    BY <1>1, <1>2
  <2> QED
    BY <2>1, <1>1, <1>2, SubSeqProperties
<1> QED
  BY <1>1, <1>2, <1>3 DEF Below, Top

LEMMA FramePopped ==
  ASSUME Types, NEW p \in Rank, stack[p] # <<>>,
         stack' = [stack EXCEPT ![p] = Below(p)]
  PROVE /\ Kept(p, Len(stack[p]) - 1)
        /\ Len(stack'[p]) = Len(stack[p]) - 1
<1>1. stack'[p] = Below(p)
  BY DEF Types
<1>2. stack' \in [Rank -> Seq(FrameSet)] /\ \A q \in Rank \ {p} : stack'[q] = stack[q]
  BY BelowParts DEF Types
<1> QED
  BY <1>1, <1>2, BelowParts DEF Kept

LEMMA FrameReplaced ==
  ASSUME Types, NEW p \in Rank, stack[p] # <<>>, NEW r \in FrameSet,
         stack' = [stack EXCEPT ![p] = Append(Below(p), r)]
  PROVE /\ Kept(p, Len(stack[p]) - 1)
        /\ Len(stack'[p]) = Len(stack[p])
        /\ stack'[p][Len(stack[p])] = r
<1>1. stack'[p] = Append(Below(p), r)
  BY DEF Types
<1>2. PICK s : s = Below(p)
  OBVIOUS
<1>3. /\ Append(s, r) \in Seq(FrameSet) /\ Len(Append(s, r)) = Len(s) + 1
      /\ \A i \in 1 .. Len(s) : Append(s, r)[i] = s[i]
      /\ Append(s, r)[Len(s) + 1] = r
  BY <1>2, BelowParts, AppendProperties
<1>4. stack' \in [Rank -> Seq(FrameSet)] /\ \A q \in Rank \ {p} : stack'[q] = stack[q]
  BY <1>2, <1>3 DEF Types
<1> QED
  BY <1>1, <1>2, <1>3, <1>4, BelowParts DEF Kept

LEMMA FrameCalled ==
  ASSUME Types, NEW p \in Rank, stack[p] # <<>>, NEW r \in FrameSet, NEW f \in FrameSet,
         stack' = [stack EXCEPT ![p] = Below(p) \o <<r, f>>]
  PROVE /\ Kept(p, Len(stack[p]) - 1)
        /\ Len(stack'[p]) = Len(stack[p]) + 1
        /\ stack'[p][Len(stack[p])] = r /\ stack'[p][Len(stack[p]) + 1] = f
<1>1. stack'[p] = Below(p) \o <<r, f>>
  BY DEF Types
<1>2. PICK s : s = Below(p)
  OBVIOUS
<1>3. /\ <<r, f>> \in Seq(FrameSet) /\ Len(<<r, f>>) = 2
      /\ <<r, f>>[1] = r /\ <<r, f>>[2] = f
  OBVIOUS
<1>4. PICK t : t = <<r, f>>
  OBVIOUS
<1>5. /\ s \o t \in Seq(FrameSet) /\ Len(s \o t) = Len(s) + 2
      /\ \A i \in 1 .. Len(s) + 2 : (s \o t)[i] = IF i <= Len(s) THEN s[i] ELSE t[i - Len(s)]
  BY <1>2, <1>3, <1>4, BelowParts, ConcatProperties
<1>6. stack' \in [Rank -> Seq(FrameSet)] /\ \A q \in Rank \ {p} : stack'[q] = stack[q]
  BY <1>2, <1>4, <1>5 DEF Types
<1>7. Len(s) \in Nat /\ Len(s) = Len(stack[p]) - 1
  BY <1>2, BelowParts
<1>8. (s \o t)[Len(s) + 1] = r /\ (s \o t)[Len(s) + 2] = f
  BY <1>3, <1>4, <1>5, <1>7
<1> QED
  BY <1>1, <1>2, <1>4, <1>5, <1>6, <1>7, <1>8, BelowParts DEF Kept

-----------------------------------------------------------------------------
(* Lemmas about operations *)

\* The locks of the code, and operations.
LEMMA Locks ==
  ASSUME Types, NEW p \in Rank
  PROVE /\ \A e \in Edge : e \in Linking(p) <=> InOp(p, "LINK", e)
        /\ \A e \in Edge : e \in LockedUnlink(p) <=> InOp(p, "UNLINK", e)
        /\ \A n \in Node : n \in LockedRemoveNode(p) <=> InOp(p, "REMOVE_LOCAL", n)
        /\ \A n \in Node : n \in Removing(p) <=> Removes(p, n)
        /\ Linking(p) \subseteq Edge
<1>1. /\ DOMAIN stack[p] = 1 .. Len(stack[p])
      /\ \A i \in 1 .. Len(stack[p]) : stack[p][i] \in FrameSet
  BY StackTyped
<1>2. \A f : f \in Frames(p) <=> \E i \in 1 .. Len(stack[p]) : stack[p][i] = f
  BY <1>1 DEF Frames
<1>3. \A n \in Node : n \in LockedRemoveNode(p) <=> InOp(p, "REMOVE_LOCAL", n)
  BY <1>2 DEF LockedRemoveNode, InOp
<1>4. \A e \in Edge : e \in Linking(p) <=> InOp(p, "LINK", e)
  BY <1>2 DEF Linking, InOp
<1>5. \A e \in Edge : e \in LockedUnlink(p) <=> InOp(p, "UNLINK", e)
  BY <1>2 DEF LockedUnlink, InOp
<1>6. Linking(p) \subseteq Edge
  BY <1>1, <1>2, FrameParts DEF Linking
<1>7. \A n \in Node : n \in {m.id : m \in {r \in sent : r.to = p /\ r.tag = "REMOVE_NODE"}}
                       <=> Sent(p, "REMOVE_NODE", n)
  BY DEF Sent
<1> QED
  BY <1>3, <1>4, <1>5, <1>6, <1>7 DEF Removing, Removes

\* A process without operation is in none.
LEMMA NoOp ==
  ASSUME Types, NEW p \in Rank, stack[p] = <<>>
  PROVE \A op \in Op, id \in Id : ~InOp(p, op, id)
BY StackTyped DEF InOp

\* An operation is in a stack once.
LEMMA OpsDistinct ==
  ASSUME StackShape, NEW p \in Rank,
         NEW i \in 1 .. Len(stack[p]), NEW j \in 1 .. Len(stack[p]),
         stack[p][i].op = stack[p][j].op, stack[p][i].id = stack[p][j].id
  PROVE i = j
BY DEF StackShape

\* What the changes of a stack make of the operations of the processes.
LEMMA OpPushed ==
  ASSUME Types, NEW p \in Rank, NEW f \in FrameSet,
         Kept(p, Len(stack[p])), Len(stack'[p]) = Len(stack[p]) + 1,
         stack'[p][Len(stack[p]) + 1] = f
  PROVE \A q \in Rank, op \in Op, id \in Id :
          InOp(q, op, id)' <=> InOp(q, op, id) \/ (q = p /\ op = f.op /\ id = f.id)
<1>1. SUFFICES ASSUME NEW q \in Rank, NEW op \in Op, NEW id \in Id
               PROVE InOp(q, op, id)' <=> InOp(q, op, id) \/ (q = p /\ op = f.op /\ id = f.id)
  OBVIOUS
<1>2. CASE q # p
  BY <1>2 DEF Kept, InOp
<1>3. CASE q = p
  <2>1. Len(stack[p]) \in Nat
    BY StackTyped
  <2>2. ASSUME InOp(p, op, id)' PROVE InOp(p, op, id) \/ (op = f.op /\ id = f.id)
    <3>1. PICK i \in 1 .. Len(stack[p]) + 1 : stack'[p][i].op = op /\ stack'[p][i].id = id
      BY <2>2 DEF InOp
    <3>2. CASE i \in 1 .. Len(stack[p])
      BY <3>1, <3>2 DEF Kept, InOp
    <3>3. CASE i = Len(stack[p]) + 1
      BY <3>1, <3>3
    <3> QED
      BY <2>1, <3>2, <3>3
  <2>3. InOp(p, op, id) => InOp(p, op, id)'
    BY <2>1, SMTT(30) DEF Kept, InOp
  <2>4. op = f.op /\ id = f.id => InOp(p, op, id)'
    BY <2>1 DEF InOp
  <2> QED
    BY <1>3, <2>2, <2>3, <2>4
<1> QED
  BY <1>2, <1>3

LEMMA OpPopped ==
  ASSUME Types, StackShape, NEW p \in Rank, stack[p] # <<>>,
         Kept(p, Len(stack[p]) - 1), Len(stack'[p]) = Len(stack[p]) - 1
  PROVE \A q \in Rank, op \in Op, id \in Id :
          InOp(q, op, id)' <=> InOp(q, op, id) /\ ~(q = p /\ op = Top(p).op /\ id = Top(p).id)
<1>1. SUFFICES ASSUME NEW q \in Rank, NEW op \in Op, NEW id \in Id
               PROVE InOp(q, op, id)' <=>
                       InOp(q, op, id) /\ ~(q = p /\ op = Top(p).op /\ id = Top(p).id)
  OBVIOUS
<1>2. CASE q # p
  BY <1>2 DEF Kept, InOp
<1>3. CASE q = p
  <2>1. Len(stack[p]) \in Nat \ {0} /\ Top(p) = stack[p][Len(stack[p])]
    BY BelowParts
  <2>2. ASSUME InOp(p, op, id)' PROVE InOp(p, op, id) /\ ~(op = Top(p).op /\ id = Top(p).id)
    <3>1. PICK i \in 1 .. Len(stack[p]) - 1 : stack'[p][i].op = op /\ stack'[p][i].id = id
      BY <2>2 DEF InOp
    <3>2. stack[p][i].op = op /\ stack[p][i].id = id
      BY <3>1, <2>1 DEF Kept
    <3>3. ~(op = Top(p).op /\ id = Top(p).id)
      BY <3>2, <2>1, OpsDistinct, SMTT(30)
    <3> QED
      BY <3>2, <3>3, <2>1 DEF InOp
  <2>3. ASSUME InOp(p, op, id), ~(op = Top(p).op /\ id = Top(p).id) PROVE InOp(p, op, id)'
    <3>1. PICK i \in 1 .. Len(stack[p]) : stack[p][i].op = op /\ stack[p][i].id = id
      BY <2>3 DEF InOp
    <3>2. i \in 1 .. Len(stack[p]) - 1
      BY <3>1, <2>1, <2>3
    <3> QED
      BY <3>1, <3>2, <2>1 DEF Kept, InOp
  <2> QED
    BY <1>3, <2>2, <2>3
<1> QED
  BY <1>2, <1>3

LEMMA OpReplaced ==
  ASSUME Types, NEW p \in Rank, stack[p] # <<>>, NEW r \in FrameSet,
         r.op = Top(p).op, r.id = Top(p).id,
         Kept(p, Len(stack[p]) - 1), Len(stack'[p]) = Len(stack[p]),
         stack'[p][Len(stack[p])] = r
  PROVE \A q \in Rank, op \in Op, id \in Id : InOp(q, op, id)' <=> InOp(q, op, id)
<1>1. SUFFICES ASSUME NEW q \in Rank, NEW op \in Op, NEW id \in Id
               PROVE InOp(q, op, id)' <=> InOp(q, op, id)
  OBVIOUS
<1>2. CASE q # p
  BY <1>2 DEF Kept, InOp
<1>3. CASE q = p
  <2>1. Len(stack[p]) \in Nat \ {0} /\ Top(p) = stack[p][Len(stack[p])]
    BY BelowParts
  <2>2. \A i \in 1 .. Len(stack[p]) :
          stack'[p][i].op = stack[p][i].op /\ stack'[p][i].id = stack[p][i].id
    BY <2>1 DEF Kept
  <2> QED
    BY <1>3, <2>2 DEF InOp
<1> QED
  BY <1>2, <1>3

LEMMA OpCalled ==
  ASSUME Types, NEW p \in Rank, stack[p] # <<>>, NEW r \in FrameSet, NEW f \in FrameSet,
         r.op = Top(p).op, r.id = Top(p).id,
         Kept(p, Len(stack[p]) - 1), Len(stack'[p]) = Len(stack[p]) + 1,
         stack'[p][Len(stack[p])] = r, stack'[p][Len(stack[p]) + 1] = f
  PROVE \A q \in Rank, op \in Op, id \in Id :
          InOp(q, op, id)' <=> InOp(q, op, id) \/ (q = p /\ op = f.op /\ id = f.id)
<1>1. SUFFICES ASSUME NEW q \in Rank, NEW op \in Op, NEW id \in Id
               PROVE InOp(q, op, id)' <=> InOp(q, op, id) \/ (q = p /\ op = f.op /\ id = f.id)
  OBVIOUS
<1>2. CASE q # p
  BY <1>2 DEF Kept, InOp
<1>3. CASE q = p
  <2>1. Len(stack[p]) \in Nat \ {0} /\ Top(p) = stack[p][Len(stack[p])]
    BY BelowParts
  <2>2. \A i \in 1 .. Len(stack[p]) :
          stack'[p][i].op = stack[p][i].op /\ stack'[p][i].id = stack[p][i].id
    BY <2>1 DEF Kept
  <2>3. ASSUME InOp(p, op, id)' PROVE InOp(p, op, id) \/ (op = f.op /\ id = f.id)
    <3>1. PICK i \in 1 .. Len(stack[p]) + 1 : stack'[p][i].op = op /\ stack'[p][i].id = id
      BY <2>3 DEF InOp
    <3>2. i \in 1 .. Len(stack[p]) \/ i = Len(stack[p]) + 1
      BY <2>1
    <3> QED
      BY <3>1, <3>2, <2>2 DEF InOp
  <2>4. ASSUME InOp(p, op, id) PROVE InOp(p, op, id)'
    <3>1. PICK i \in 1 .. Len(stack[p]) : stack[p][i].op = op /\ stack[p][i].id = id
      BY <2>4 DEF InOp
    <3>2. stack'[p][i].op = op /\ stack'[p][i].id = id /\ i \in 1 .. Len(stack'[p])
      BY <3>1, <2>1, <2>2, SMTT(30)
    <3> QED
      BY <3>2 DEF InOp
  <2>5. op = f.op /\ id = f.id => InOp(p, op, id)'
    BY <2>1 DEF InOp
  <2> QED
    BY <1>3, <2>3, <2>4, <2>5
<1> QED
  BY <1>2, <1>3

\* The last operation is one.
LEMMA TopInOp ==
  ASSUME Types, NEW p \in Rank, stack[p] # <<>>
  PROVE InOp(p, Top(p).op, Top(p).id) /\ Top(p).op \in Op /\ Top(p).id \in Id
BY BelowParts, FrameParts DEF InOp

\* The frames that a process keeps have the shape of a stack, if the new ones have it.
LEMMA ShapeKept ==
  ASSUME Types, StackShape, NEW p \in Rank, NEW k \in Nat, Kept(p, k),
         \A q \in Rank, e \in Edge : InOp(q, "UNLINK", e) =>
           \A n \in Ends(e) : Removes(q, n)' => Removes(q, n),
         \A i \in k + 1 .. Len(stack'[p]) :
           /\ stack'[p][i].op \in {"LINK", "REMOVE_NODE"} => i = 1
           /\ stack'[p][i].op = "UNLINK" =>
                \/ i = 1 /\ \A n \in Ends(stack'[p][i].id) : ~Removes(p, n)'
                \/ /\ i > 1 /\ stack'[p][i-1].op = "REMOVE_LOCAL"
                   /\ stack'[p][i-1].id \in Ends(stack'[p][i].id)
           /\ \A j \in 1 .. i - 1 :
                ~(stack'[p][j].op = stack'[p][i].op /\ stack'[p][j].id = stack'[p][i].id)
  PROVE StackShape'
<1>1. ASSUME NEW q \in Rank, NEW i \in 1 .. Len(stack[q]), stack[q][i].op = "UNLINK"
      PROVE \A n \in Ends(stack[q][i].id) : Removes(q, n)' => Removes(q, n)
  <2>1. stack[q][i].id \in Edge
    BY <1>1, StackTyped, FrameParts
  <2>2. InOp(q, "UNLINK", stack[q][i].id)
    BY <1>1 DEF InOp
  <2> QED
    BY <2>1, <2>2
\* The frames of a process that keeps them all, and those that p keeps.
<1>2. ASSUME NEW q \in Rank, NEW i \in 1 .. Len(stack[q]),
             q = p => i \in 1 .. k
      PROVE /\ stack'[q][i] = stack[q][i]
            /\ stack[q][i].op \in {"LINK", "REMOVE_NODE"} => i = 1
            /\ stack[q][i].op = "UNLINK" =>
                 \/ i = 1 /\ \A n \in Ends(stack[q][i].id) : ~Removes(q, n)'
                 \/ /\ i > 1 /\ stack'[q][i-1].op = "REMOVE_LOCAL"
                    /\ stack'[q][i-1].id \in Ends(stack[q][i].id)
  <2>1. stack'[q][i] = stack[q][i] /\ (i > 1 => stack'[q][i-1] = stack[q][i-1])
    BY <1>2, StackTyped DEF Kept
  <2>2. /\ stack[q][i].op \in {"LINK", "REMOVE_NODE"} => i = 1
        /\ stack[q][i].op = "UNLINK" =>
             \/ i = 1 /\ \A n \in Ends(stack[q][i].id) : ~Removes(q, n)
             \/ /\ i > 1 /\ stack[q][i-1].op = "REMOVE_LOCAL"
                /\ stack[q][i-1].id \in Ends(stack[q][i].id)
    BY DEF StackShape
  <2> QED
    BY <2>1, <2>2, <1>1
<1>3. ASSUME NEW q \in Rank, NEW i \in 1 .. Len(stack'[q]), NEW j \in 1 .. Len(stack'[q]),
             stack'[q][j].op = stack'[q][i].op, stack'[q][j].id = stack'[q][i].id
      PROVE i = j
  <2>1. CASE q # p
    <3>1. stack'[q] = stack[q]
      BY <2>1 DEF Kept
    <3> QED
      BY <1>3, <3>1, OpsDistinct
  <2>2. CASE q = p /\ i <= k /\ j <= k
    <3>1. /\ i \in 1 .. Len(stack[p]) /\ j \in 1 .. Len(stack[p])
          /\ stack'[p][i] = stack[p][i] /\ stack'[p][j] = stack[p][j]
      BY <2>2, StackTyped DEF Kept
    <3> QED
      BY <1>3, <2>2, <3>1, OpsDistinct
  <2>3. CASE q = p /\ i > k /\ i > j
    BY <1>3, <2>3
  <2>4. CASE q = p /\ j > k /\ j > i
    BY <1>3, <2>4
  <2> QED
    BY <2>1, <2>2, <2>3, <2>4
<1>4. SUFFICES ASSUME NEW q \in Rank, NEW i \in 1 .. Len(stack'[q])
               PROVE LET f == stack'[q][i]
                     IN  /\ f.op \in {"LINK", "REMOVE_NODE"} => i = 1
                         /\ f.op = "UNLINK" =>
                              \/ i = 1 /\ \A n \in Ends(f.id) : ~Removes(q, n)'
                              \/ /\ i > 1 /\ stack'[q][i-1].op = "REMOVE_LOCAL"
                                 /\ stack'[q][i-1].id \in Ends(f.id)
  BY <1>3 DEF StackShape
<1>5. CASE q # p
  <2>1. stack'[q] = stack[q]
    BY <1>5 DEF Kept
  <2> QED
    BY <1>2, <1>5, <2>1
<1>6. CASE q = p /\ i <= k
  <2>1. i \in 1 .. Len(stack[p])
    BY <1>6, StackTyped DEF Kept
  <2> QED
    BY <1>2, <1>6, <2>1
<1>7. CASE q = p /\ i > k
  BY <1>7
<1> QED
  BY <1>5, <1>6, <1>7

\* Stacks that do not change keep their shape.
LEMMA ShapeUnchanged ==
  ASSUME Types, StackShape, stack' = stack,
         \A q \in Rank, e \in Edge : InOp(q, "UNLINK", e) =>
           \A n \in Ends(e) : Removes(q, n)' => Removes(q, n)
  PROVE StackShape'
<1>1. ASSUME NEW q \in Rank, NEW i \in 1 .. Len(stack[q]), stack[q][i].op = "UNLINK"
      PROVE \A n \in Ends(stack[q][i].id) : Removes(q, n)' => Removes(q, n)
  <2>1. stack[q][i].id \in Edge
    BY <1>1, StackTyped, FrameParts
  <2>2. InOp(q, "UNLINK", stack[q][i].id)
    BY <1>1 DEF InOp
  <2> QED
    BY <2>1, <2>2
<1>2. SUFFICES ASSUME NEW q \in Rank, NEW i \in 1 .. Len(stack[q])
               PROVE stack[q][i].op = "UNLINK" =>
                        \/ i = 1 /\ \A n \in Ends(stack[q][i].id) : ~Removes(q, n)'
                        \/ /\ i > 1 /\ stack[q][i-1].op = "REMOVE_LOCAL"
                           /\ stack[q][i-1].id \in Ends(stack[q][i].id)
  BY DEF StackShape
<1>3. stack[q][i].op = "UNLINK" =>
        \/ i = 1 /\ \A n \in Ends(stack[q][i].id) : ~Removes(q, n)
        \/ /\ i > 1 /\ stack[q][i-1].op = "REMOVE_LOCAL"
           /\ stack[q][i-1].id \in Ends(stack[q][i].id)
  BY DEF StackShape
<1> QED
  BY <1>1, <1>3

\* A host that goes on removing a node is not unlinking one of its edges.
LEMMA TopFree ==
  ASSUME Types, StackShape, OpsHosted, RemovedApart, NEW p \in Rank, stack[p] # <<>>,
         Top(p).op = "REMOVE_LOCAL", NEW e \in Edge, Top(p).id \in Ends(e)
  PROVE ~InOp(p, "UNLINK", e)
<1>1. SUFFICES ASSUME InOp(p, "UNLINK", e) PROVE FALSE
  OBVIOUS
<1>2. PICK i \in 1 .. Len(stack[p]) : stack[p][i].op = "UNLINK" /\ stack[p][i].id = e
  BY <1>1 DEF InOp
<1>3. /\ Len(stack[p]) \in Nat \ {0} /\ Top(p) = stack[p][Len(stack[p])]
      /\ Removes(p, Top(p).id) /\ i # Len(stack[p])
  BY <1>2, BelowParts, TopInOp DEF Removes
<1>4. /\ i > 1 /\ stack[p][i-1].op = "REMOVE_LOCAL" /\ stack[p][i-1].id \in Ends(e)
  BY <1>2, <1>3 DEF StackShape
<1>5. Removes(p, stack[p][i-1].id)
  <2>1. i - 1 \in 1 .. Len(stack[p])
    BY <1>3, <1>4
  <2> QED
    BY <2>1, <1>4 DEF Removes, InOp
<1>6. e \in edges[p]
  BY <1>1 DEF OpsHosted
<1>7. stack[p][i-1].id = Top(p).id
  BY <1>3, <1>4, <1>5, <1>6 DEF RemovedApart
<1>8. i - 1 = Len(stack[p])
  BY <1>3, <1>4, <1>7, OpsDistinct
<1> QED
  BY <1>3, <1>8

\* An edge that a host is unlinking has no end that it is only asked to remove.
LEMMA AskedFree ==
  ASSUME Types, StackShape, OpsHosted, RemovedApart, NEW p \in Rank,
         NEW e \in Edge, InOp(p, "UNLINK", e), NEW n \in Ends(e), Removes(p, n)
  PROVE InOp(p, "REMOVE_LOCAL", n)
<1>1. PICK i \in 1 .. Len(stack[p]) : stack[p][i].op = "UNLINK" /\ stack[p][i].id = e
  BY DEF InOp
<1>2. /\ i > 1 /\ stack[p][i-1].op = "REMOVE_LOCAL" /\ stack[p][i-1].id \in Ends(e)
  BY <1>1 DEF StackShape
<1>3. InOp(p, "REMOVE_LOCAL", stack[p][i-1].id)
  <2>1. i - 1 \in 1 .. Len(stack[p])
    BY <1>2, StackTyped
  <2> QED
    BY <2>1, <1>2 DEF InOp
<1>4. stack[p][i-1].id = n
  BY <1>2, <1>3 DEF RemovedApart, OpsHosted, Removes
<1> QED
  BY <1>3, <1>4

-----------------------------------------------------------------------------
(* Lemmas about the invariant *)

LEMMA Parts ==
  ASSUME IInv
  PROVE /\ Types /\ StackShape /\ OpsHosted /\ RequestsAwaited /\ RegisteredOnce /\ FreshEdges
        /\ LinkedLive /\ EdgesHosted /\ LinkedOnHosts /\ Loops /\ RemovedApart
        /\ UnlinkedErased /\ NodesKept /\ Unchanged /\ NoFailure
BY DEF IInv, OpsInv, GraphInv

\* What the variables hold.
LEMMA Sets ==
  ASSUME Types
  PROVE /\ \A p \in Rank : /\ edges[p] \subseteq Edge /\ nodes[p] \subseteq Node
                           /\ ghostEdges[p] \subseteq Edge
        /\ \A m \in sent : /\ m.from \in Rank /\ m.to \in Rank /\ m.id \in Edge \cup Node
                           /\ m.tag \in {"LINK", "UNLINK", "REMOVE_NODE"}
        /\ live \subseteq Node /\ linked \subseteq Edge /\ fresh \subseteq Edge
BY DEF Types, TypeOK, Request

\* A node that is removed is not in the graph any more, and it is its host that
\* removes it.
LEMMA RemovedDead ==
  ASSUME Types, OpsHosted, RequestsAwaited, NEW p \in Rank, NEW n \in Node, Removes(p, n)
  PROVE n \notin live /\ p = Host[n]
<1>1. CASE InOp(p, "REMOVE_LOCAL", n)
  BY <1>1 DEF OpsHosted
<1>2. CASE Sent(p, "REMOVE_NODE", n)
  BY <1>2 DEF RequestsAwaited, Sent
<1> QED
  BY <1>1, <1>2 DEF Removes

\* What is linked has no end that is removed.
LEMMA LinkedNotRemoved ==
  ASSUME IInv, NEW e \in linked, NEW p \in Rank, NEW n \in Ends(e)
  PROVE ~Removes(p, n)
<1>1. n \in live /\ n \in Node
  BY Parts, Sets DEF LinkedLive
<1> QED
  BY <1>1, Parts, RemovedDead

\* The edges of an operation that does not return are what the lists say, when no
\* frame of a removal goes.
LEMMA ToUnlinkKept ==
  ASSUME Types, NEW p \in Rank, NEW k \in Nat, Kept(p, k), Len(stack'[p]) \in Nat,
         Len(stack'[p]) >= k,
         \A i \in k + 1 .. Len(stack[p]) : stack[p][i].op # "REMOVE_LOCAL"
  PROVE \A q \in Rank, n \in Node, e \in Edge : ToUnlink(q, n, e) => ToUnlink(q, n, e)'
<1>1. SUFFICES ASSUME NEW q \in Rank, NEW n \in Node, NEW e \in Edge, ToUnlink(q, n, e)
               PROVE ToUnlink(q, n, e)'
  OBVIOUS
<1>2. PICK i \in 1 .. Len(stack[q]) :
        /\ stack[q][i].op = "REMOVE_LOCAL" /\ stack[q][i].id = n
        /\ e \in stack[q][i].todo \/ (stack[q][i].loop = "out" /\ Source[e] # n)
  BY <1>1 DEF ToUnlink
<1>3. stack'[q][i] = stack[q][i] /\ i \in 1 .. Len(stack'[q])
  <2>1. CASE q # p
    BY <2>1 DEF Kept
  <2>2. CASE q = p
    <3>1. i \in 1 .. k
      BY <1>2, <2>2, StackTyped
    <3> QED
      BY <2>2, <3>1 DEF Kept
  <2> QED
    BY <2>1, <2>2
<1> QED
  BY <1>2, <1>3 DEF ToUnlink

\* Nothing that the invariant says of operations and requests changes.
SameOps ==
  /\ \A q \in Rank, e \in Edge : /\ InOp(q, "LINK", e)' <=> InOp(q, "LINK", e)
                                 /\ InOp(q, "UNLINK", e)' <=> InOp(q, "UNLINK", e)
  /\ \A q \in Rank, n \in Node : /\ InOp(q, "REMOVE_NODE", n)' <=> InOp(q, "REMOVE_NODE", n)
                                 /\ InOp(q, "REMOVE_LOCAL", n)' <=> InOp(q, "REMOVE_LOCAL", n)

LEMMA SameStack ==
  ASSUME stack' = stack
  PROVE SameOps
BY DEF SameOps, InOp

\* LinkServer receives a LINK request.
LEMMA HandleLinkStep ==
  ASSUME IInv, NEW p \in Rank, HandleLink(p), Allow = {}
  PROVE IInv'
<1>1. PICK m \in sent : /\ ~failed /\ m.to = p /\ m.tag = "LINK" /\ sent' = sent \ {m}
                        /\ edges' = [edges EXCEPT ![p] = @ \cup {m.id}]
                        /\ nodes' = [nodes EXCEPT ![p] = @ \cup Ends(m.id)]
  BY DEF HandleLink, Receives
<1>2. UNCHANGED <<pc, left, stack, ghostEdges, toRemove, failed, fresh, live, linked>>
  BY DEF HandleLink, linkerVars, idealVars
<1>3. /\ Types /\ StackShape /\ OpsHosted /\ RequestsAwaited /\ RegisteredOnce /\ FreshEdges
      /\ LinkedLive /\ EdgesHosted /\ LinkedOnHosts /\ Loops /\ RemovedApart
      /\ UnlinkedErased /\ NodesKept /\ Unchanged /\ NoFailure
  BY Parts
<1>4. PICK e \in Edge : e = m.id /\ e \in linked /\ p \in Hosts(e)
  BY <1>1, <1>3, Sets DEF RequestsAwaited, OpsHosted
<1>5. /\ \A n \in Ends(e) : n \in Node /\ n \in live
      /\ \A q \in Rank : \A n \in Ends(e) : ~Removes(q, n)
  BY <1>3, <1>4, LinkedNotRemoved, EndsAreNodes DEF LinkedLive
<1>6. /\ \A q \in Rank, x \in Edge : x \in edges'[q] <=> x \in edges[q] \/ (q = p /\ x = e)
      /\ \A q \in Rank, n \in Node : n \in nodes'[q] <=> n \in nodes[q] \/ (q = p /\ n \in Ends(e))
      /\ edges' \in [Rank -> SUBSET Edge] /\ nodes' \in [Rank -> SUBSET Node]
  BY <1>1, <1>3, <1>4, <1>5 DEF Types, TypeOK
<1>7. SameOps
  BY <1>2, SameStack
<1>8. /\ \A q \in Rank, x \in Edge : Sent(q, "UNLINK", x)' <=> Sent(q, "UNLINK", x)
      /\ \A q \in Rank, n \in Node : Sent(q, "REMOVE_NODE", n)' <=> Sent(q, "REMOVE_NODE", n)
      /\ \A q \in Rank, x \in Edge : Sent(q, "LINK", x) => Sent(q, "LINK", x)' \/ (q = p /\ x = e)
  BY <1>1, <1>4 DEF Sent
<1>9. /\ \A q \in Rank, n \in Node : Removes(q, n)' <=> Removes(q, n)
      /\ \A q \in Rank, n \in Node : Registered(q, n)' <=> Registered(q, n)
  BY <1>2, <1>7, <1>8 DEF Removes, SameOps, Registered
<1>10. Types'
  BY <1>1, <1>2, <1>3, <1>6 DEF Types, TypeOK
<1>11. StackShape'
  BY <1>2, <1>3, <1>9, ShapeUnchanged, EndsAreNodes
<1>12. OpsHosted'
  BY <1>2, <1>3, <1>6, <1>7, <1>9, EndsAreNodes DEF OpsHosted, SameOps
<1>13. RequestsAwaited'
  BY <1>1, <1>2, <1>3, <1>7, <1>9, Sets DEF RequestsAwaited, SameOps
<1>14. RegisteredOnce' /\ LinkedLive'
  BY <1>2, <1>3 DEF RegisteredOnce, LinkedLive
<1>15. FreshEdges'
  BY <1>2, <1>3, <1>4, <1>6, <1>7, Sets DEF FreshEdges, SameOps
<1>16. EdgesHosted'
  BY <1>2, <1>3, <1>4, <1>6, <1>10, Sets DEF EdgesHosted
<1>17. LinkedOnHosts'
  BY <1>2, <1>3, <1>6, <1>7, <1>8, Sets DEF LinkedOnHosts, SameOps
<1>18. Loops'
  BY <1>2, <1>3, <1>5, <1>6, <1>7, <1>10, StackTyped, FrameParts, Sets
     DEF Loops, SameOps, ToUnlink, Removes
<1>19. RemovedApart'
  BY <1>3, <1>5, <1>6, <1>9, <1>10, Sets, EndsAreNodes DEF RemovedApart
<1>20. UnlinkedErased'
  BY <1>2, <1>3, <1>4, <1>6, <1>7, <1>8, <1>9, <1>10, Sets, EndsAreNodes
     DEF UnlinkedErased, SameOps
<1>21. NodesKept'
  <2>1. \A n \in live : n \in nodes'[Host[n]]
    BY <1>3, <1>6, Sets, LinkerAssumption DEF NodesKept
  <2>2. \A r \in sent' : r.tag = "REMOVE_NODE" => r.id \in nodes'[r.to]
    BY <1>1, <1>3, <1>6, Sets DEF NodesKept
  <2>3. \A q \in Rank : \A x \in edges'[q] : \A n \in Ends(x) : n \in nodes'[q]
    BY <1>3, <1>6, EndsAreNodes DEF NodesKept
  <2>4. \A q \in Rank : \A n \in nodes'[q] :
          q = Host[n] => n \in live \/ Removes(q, n)' \/ Registered(q, n)'
    BY <1>3, <1>5, <1>6, <1>9 DEF NodesKept
  <2> QED
    BY <2>1, <2>2, <2>3, <2>4, <1>2 DEF NodesKept
<1>22. Unchanged'
  BY <1>1, <1>2, <1>3 DEF Unchanged
<1> QED
  BY <1>2, <1>3, <1>10, <1>11, <1>12, <1>13, <1>14, <1>15, <1>16, <1>17, <1>18, <1>19, <1>20,
     <1>21, <1>22 DEF IInv, OpsInv, GraphInv, NoFailure

\* LinkServer receives an UNLINK request.
LEMMA HandleUnlinkStep ==
  ASSUME IInv, NEW p \in Rank, HandleUnlink(p), Allow = {}
  PROVE IInv'
<1>1. PICK m \in sent : /\ ~failed /\ m.to = p /\ m.tag = "UNLINK" /\ sent' = sent \ {m}
                        /\ edges' = IF MayUnlink(p, m.id)
                                      THEN [edges EXCEPT ![p] = @ \ {m.id}] ELSE edges
  BY DEF HandleUnlink, Receives
<1>2. UNCHANGED <<pc, left, stack, nodes, ghostEdges, toRemove, failed, fresh, live, linked>>
  BY DEF HandleUnlink, linkerVars, idealVars
<1>3. /\ Types /\ StackShape /\ OpsHosted /\ RequestsAwaited /\ RegisteredOnce /\ FreshEdges
      /\ LinkedLive /\ EdgesHosted /\ LinkedOnHosts /\ Loops /\ RemovedApart
      /\ UnlinkedErased /\ NodesKept /\ Unchanged /\ NoFailure
  BY Parts
\* The sender has the edge, and waits to erase it.
<1>4. PICK e \in Edge : /\ e = m.id /\ e \notin linked /\ p \in Hosts(e) /\ p # m.from
                        /\ m.from \in Rank /\ m.from \in Hosts(e) /\ InOp(m.from, "UNLINK", e)
  BY <1>1, <1>3, Sets DEF RequestsAwaited, OpsHosted
<1>5. /\ edges' \in [Rank -> SUBSET Edge]
      /\ \A q \in Rank, x \in Edge : x \in edges'[q] => x \in edges[q]
      /\ \A q \in Rank, x \in Edge : x \in edges[q] => x \in edges'[q] \/ (q = p /\ x = e)
      /\ e \notin edges'[p] /\ e \in edges[p] =>
           ~InOp(p, "UNLINK", e) /\ \A n \in Ends(e) : ~InOp(p, "REMOVE_LOCAL", n)
      /\ e \in edges'[p] => InOp(p, "UNLINK", e) \/ \E n \in Ends(e) : InOp(p, "REMOVE_LOCAL", n)
  <2>1. MayUnlink(p, e) <=> /\ e \in edges[p] /\ ~InOp(p, "UNLINK", e)
                            /\ \A n \in Ends(e) : ~InOp(p, "REMOVE_LOCAL", n)
    BY <1>3, Locks, EndsAreNodes DEF MayUnlink
  <2>2. CASE MayUnlink(p, e)
    BY <2>1, <2>2, <1>1, <1>3, <1>4 DEF Types, TypeOK
  <2>3. CASE ~MayUnlink(p, e)
    BY <2>1, <2>3, <1>1, <1>3, <1>4 DEF Types, TypeOK
  <2> QED
    BY <2>2, <2>3
<1>6. SameOps
  BY <1>2, SameStack
<1>7. /\ \A q \in Rank, x \in Edge : Sent(q, "LINK", x)' <=> Sent(q, "LINK", x)
      /\ \A q \in Rank, n \in Node : Sent(q, "REMOVE_NODE", n)' <=> Sent(q, "REMOVE_NODE", n)
      /\ \A q \in Rank, x \in Edge : Sent(q, "UNLINK", x) => Sent(q, "UNLINK", x)' \/ (q = p /\ x = e)
  BY <1>1, <1>4 DEF Sent
<1>8. /\ \A q \in Rank, n \in Node : Removes(q, n)' <=> Removes(q, n)
      /\ \A q \in Rank, n \in Node : Registered(q, n)' <=> Registered(q, n)
  BY <1>2, <1>6, <1>7 DEF Removes, SameOps, Registered
<1>9. Types'
  BY <1>1, <1>2, <1>3, <1>5 DEF Types, TypeOK
<1>10. StackShape'
  BY <1>2, <1>3, <1>8, ShapeUnchanged, EndsAreNodes
<1>11. OpsHosted'
  BY <1>2, <1>3, <1>4, <1>5, <1>6, <1>8, EndsAreNodes DEF OpsHosted, SameOps
<1>12. RequestsAwaited'
  BY <1>1, <1>2, <1>3, <1>6, <1>8, Sets DEF RequestsAwaited, SameOps
<1>13. RegisteredOnce' /\ LinkedLive'
  BY <1>2, <1>3 DEF RegisteredOnce, LinkedLive
<1>14. FreshEdges'
  BY <1>2, <1>3, <1>5, <1>6, Sets DEF FreshEdges, SameOps
<1>15. EdgesHosted'
  <2>1. \A q \in Rank : \A x \in ghostEdges[q] : x \in edges'[q]
    BY <1>3, <1>4, <1>5, Sets DEF EdgesHosted
  <2> QED
    BY <2>1, <1>2, <1>3, <1>5, Sets DEF EdgesHosted
<1>16. LinkedOnHosts'
  BY <1>2, <1>3, <1>4, <1>5, <1>6, <1>7, Sets DEF LinkedOnHosts, SameOps
<1>17. Loops'
  <2>1. \A q \in Rank, n \in Node, x \in Edge : ToUnlink(q, n, x)' <=> ToUnlink(q, n, x)
    BY <1>2 DEF ToUnlink
  <2>2. ASSUME NEW q \in Rank, NEW i \in 1 .. Len(stack[q]), stack[q][i].op = "REMOVE_LOCAL",
               NEW x \in stack[q][i].todo
        PROVE x \in edges'[q] /\ stack[q][i].id \in Ends(x) /\ ~InOp(q, "UNLINK", x)'
    <3>1. x \in Edge
      BY <2>2, <1>3, StackTyped, FrameParts
    <3>2. x \in edges[q] /\ stack[q][i].id \in Ends(x) /\ ~InOp(q, "UNLINK", x)
      BY <2>2, <1>3 DEF Loops
    <3>3. InOp(q, "REMOVE_LOCAL", stack[q][i].id)
      BY <2>2 DEF InOp
    <3> QED
      BY <3>1, <3>2, <3>3, <1>5, <1>6 DEF SameOps
  <2> QED
    BY <2>1, <2>2, <1>2, <1>3, <1>5, <1>6 DEF Loops, SameOps
<1>18. RemovedApart'
  BY <1>3, <1>5, <1>8, EndsAreNodes DEF RemovedApart
<1>19. UnlinkedErased'
  <2>1. SUFFICES ASSUME NEW q \in Rank, NEW x \in edges'[q], q \in Hosts(x), x \notin linked
                 PROVE \/ InOp(q, "UNLINK", x) \/ Sent(q, "UNLINK", x)'
                       \/ \E n \in Ends(x) : Removes(q, n)
                       \/ \E r \in Rank \ {q} : /\ x \in edges'[r] /\ ~InOp(r, "UNLINK", x)
                                                /\ \E n \in Ends(x) : Removes(r, n)
    BY <1>2, <1>5, <1>6, <1>8, EndsAreNodes DEF UnlinkedErased, SameOps
  <2>2. x \in Edge /\ x \in edges[q]
    BY <2>1, <1>5
  <2>3. \/ InOp(q, "UNLINK", x) \/ Sent(q, "UNLINK", x)
        \/ \E n \in Ends(x) : Removes(q, n)
        \/ \E r \in Rank \ {q} : /\ x \in edges[r] /\ ~InOp(r, "UNLINK", x)
                                 /\ \E n \in Ends(x) : Removes(r, n)
    BY <2>1, <2>2, <1>3 DEF UnlinkedErased
  <2>4. CASE x # e
    BY <2>2, <2>3, <2>4, <1>5, <1>7
  <2>5. CASE x = e /\ q = p
    BY <2>1, <2>5, <1>5 DEF Removes
  <2>6. CASE x = e /\ q # p
    <3>1. q = m.from
      BY <2>1, <2>6, <1>4, EndsAreNodes
    <3> QED
      BY <3>1, <2>6, <1>4
  <2> QED
    BY <2>4, <2>5, <2>6
<1>20. NodesKept'
  BY <1>1, <1>2, <1>3, <1>5, <1>8, Sets DEF NodesKept
<1>21. Unchanged'
  BY <1>1, <1>2, <1>3 DEF Unchanged
<1> QED
  BY <1>2, <1>3, <1>9, <1>10, <1>11, <1>12, <1>13, <1>14, <1>15, <1>16, <1>17, <1>18, <1>19,
     <1>20, <1>21 DEF IInv, OpsInv, GraphInv, NoFailure

\* The lists of edges to unlink are as they should, if they are for the edges there
\* are, and for the new frames.
LEMMA LoopsKept ==
  ASSUME Types, Loops, NEW p \in Rank, NEW k \in Nat, Kept(p, k),
         edges' \in [Rank -> SUBSET Edge],
         \A q \in Rank, n \in Node, e \in Edge :
           InOp(q, "REMOVE_LOCAL", n)' /\ e \in edges'[q] /\ n \in Ends(e) =>
             InOp(q, "UNLINK", e)' \/ ToUnlink(q, n, e)',
         \A q \in Rank : \A i \in 1 .. Len(stack[q]) :
           stack[q][i].op = "REMOVE_LOCAL" /\ (q = p => i <= k) =>
             \A e \in stack[q][i].todo : e \in edges'[q] /\ ~InOp(q, "UNLINK", e)',
         \A i \in k + 1 .. Len(stack'[p]) : stack'[p][i].op = "REMOVE_LOCAL" =>
           \A e \in stack'[p][i].todo :
             e \in edges'[p] /\ stack'[p][i].id \in Ends(e) /\ ~InOp(p, "UNLINK", e)'
  PROVE Loops'
<1>1. ASSUME NEW q \in Rank, NEW i \in 1 .. Len(stack'[q]), stack'[q][i].op = "REMOVE_LOCAL",
             NEW e \in stack'[q][i].todo
      PROVE e \in edges'[q] /\ stack'[q][i].id \in Ends(e) /\ ~InOp(q, "UNLINK", e)'
  <2>1. CASE q = p /\ i > k
    BY <1>1, <2>1
  <2>2. CASE q # p \/ i <= k
    <3>1. stack'[q][i] = stack[q][i] /\ i \in 1 .. Len(stack[q])
      BY <2>2, StackTyped DEF Kept
    <3>2. stack[q][i].id \in Ends(e)
      BY <1>1, <3>1 DEF Loops
    <3> QED
      BY <1>1, <2>2, <3>1, <3>2
  <2> QED
    BY <2>1, <2>2
<1>2. \A q \in Rank : \A n \in Node : InOp(q, "REMOVE_LOCAL", n)' =>
        \A e \in edges'[q] : n \in Ends(e) => InOp(q, "UNLINK", e)' \/ ToUnlink(q, n, e)'
  OBVIOUS
<1> QED
  BY <1>1, <1>2 DEF Loops

\* The lists of edges that removeNode() goes through.
LEMMA LoopEdges ==
  ASSUME Types, NEW p \in Rank, NEW n \in Node,
         \A e \in Edge : InOp(p, "LINK", e) => n \notin Ends(e)
  PROVE /\ \A e \in Edge : e \in OutEdges(p, n) <=> e \in edges[p] /\ Source[e] = n
        /\ \A e \in Edge : e \in InEdges(p, n) <=> e \in edges[p] /\ Target[e] = n
        /\ OutEdges(p, n) \subseteq Edge /\ InEdges(p, n) \subseteq Edge
        /\ RemoveLocal(p, n) \in FrameSet
<1>1. /\ \A e \in Edge : e \in Linking(p) => Source[e] # n /\ Target[e] # n
      /\ Linking(p) \subseteq Edge /\ edges[p] \subseteq Edge
  BY Locks, Sets DEF Ends
<1>2. OutEdges(p, n) \subseteq Edge /\ InEdges(p, n) \subseteq Edge
  BY <1>1 DEF OutEdges, InEdges
<1> QED
  BY <1>1, <1>2, FrameTyped DEF OutEdges, InEdges, RemoveLocal

\* A host starts to remove n: its list is in the new frame.
LEMMA LoopsStarted ==
  ASSUME Types, Loops, NEW p \in Rank, NEW n \in Node, edges' = edges,
         Kept(p, Len(stack[p])), Len(stack'[p]) = Len(stack[p]) + 1,
         stack'[p][Len(stack[p]) + 1] = RemoveLocal(p, n),
         \A e \in Edge : InOp(p, "LINK", e) => n \notin Ends(e),
         \A e \in Edge : InOp(p, "UNLINK", e) => n \notin Ends(e)
  PROVE Loops'
<1>1. PICK f \in FrameSet : /\ f = RemoveLocal(p, n) /\ f.op = "REMOVE_LOCAL" /\ f.id = n
                            /\ f.loop = "out" /\ f.todo = OutEdges(p, n)
  BY LoopEdges DEF RemoveLocal, Frame
<1>2. \A q \in Rank, op \in Op, id \in Id :
        InOp(q, op, id)' <=> InOp(q, op, id) \/ (q = p /\ op = "REMOVE_LOCAL" /\ id = n)
  BY <1>1, OpPushed
<1>3. /\ \A q \in Rank, e \in Edge : InOp(q, "UNLINK", e)' <=> InOp(q, "UNLINK", e)
      /\ \A q \in Rank, m \in Node :
           InOp(q, "REMOVE_LOCAL", m)' <=> InOp(q, "REMOVE_LOCAL", m) \/ (q = p /\ m = n)
  BY <1>2 DEF Op, Id
<1>4. Len(stack[p]) \in Nat /\ edges \in [Rank -> SUBSET Edge]
  BY StackTyped DEF Types, TypeOK
<1>5. \A q \in Rank, m \in Node, e \in Edge : ToUnlink(q, m, e) => ToUnlink(q, m, e)'
  BY <1>4, ToUnlinkKept
<1>6. ASSUME NEW e \in Edge, e \in edges[p], n \in Ends(e)
      PROVE ToUnlink(p, n, e)'
  <2>1. e \in f.todo \/ (f.loop = "out" /\ Source[e] # n)
    BY <1>1, <1>6, LoopEdges DEF Ends
  <2>2. Len(stack[p]) + 1 \in 1 .. Len(stack'[p]) /\ stack'[p][Len(stack[p]) + 1] = f
    BY <1>1, <1>4
  <2> QED
    BY <1>1, <2>1, <2>2 DEF ToUnlink
<1>7. \A q \in Rank, m \in Node, e \in Edge :
        InOp(q, "REMOVE_LOCAL", m)' /\ e \in edges'[q] /\ m \in Ends(e) =>
          InOp(q, "UNLINK", e)' \/ ToUnlink(q, m, e)'
  BY <1>3, <1>5, <1>6 DEF Loops
<1>8. \A q \in Rank : \A i \in 1 .. Len(stack[q]) : stack[q][i].op = "REMOVE_LOCAL" =>
        \A e \in stack[q][i].todo : e \in edges'[q] /\ ~InOp(q, "UNLINK", e)'
  BY <1>3, StackTyped, FrameParts DEF Loops
<1>9. \A e \in f.todo : e \in edges'[p] /\ n \in Ends(e) /\ ~InOp(p, "UNLINK", e)'
  BY <1>1, <1>3, LoopEdges DEF Ends
<1>10. \A i \in Len(stack[p]) + 1 .. Len(stack'[p]) : stack'[p][i] = f
  BY <1>1, <1>4
<1> QED
  BY <1>1, <1>4, <1>7, <1>8, <1>9, <1>10, LoopsKept

\* LinkServer receives a REMOVE_NODE request.
LEMMA HandleRemoveNodeStep ==
  ASSUME IInv, NEW p \in Rank, HandleRemoveNode(p), Allow = {}
  PROVE IInv'
<1>1. PICK m \in sent :
        /\ ~failed /\ m.to = p /\ m.tag = "REMOVE_NODE" /\ sent' = sent \ {m}
        /\ failed' = (m.id \notin nodes[p])
        /\ stack' = [stack EXCEPT ![p] = Append(@, RemoveLocal(p, m.id))]
  BY DEF HandleRemoveNode, Receives
<1>2. UNCHANGED <<pc, left, nodes, edges, ghostEdges, toRemove, fresh, live, linked>>
  BY DEF HandleRemoveNode, linkerVars, idealVars
<1>3. /\ Types /\ StackShape /\ OpsHosted /\ RequestsAwaited /\ RegisteredOnce /\ FreshEdges
      /\ LinkedLive /\ EdgesHosted /\ LinkedOnHosts /\ Loops /\ RemovedApart
      /\ UnlinkedErased /\ NodesKept /\ Unchanged /\ NoFailure
  BY Parts
<1>4. PICK n \in Node : n = m.id /\ p = Host[n] /\ n \notin live /\ n \in nodes[p]
                        /\ ~InOp(p, "REMOVE_LOCAL", n) /\ ~Registered(p, n)
  BY <1>1, <1>3 DEF RequestsAwaited, NodesKept
<1>5. Removes(p, n)
  BY <1>1, <1>4 DEF Removes, Sent
<1>6. /\ \A e \in Edge : InOp(p, "LINK", e) => n \notin Ends(e)
      /\ \A e \in Edge : InOp(p, "UNLINK", e) => n \notin Ends(e)
  <2>1. \A e \in Edge : InOp(p, "LINK", e) => n \notin Ends(e)
    BY <1>3, <1>4 DEF OpsHosted, LinkedLive
  <2>2. \A e \in Edge : InOp(p, "UNLINK", e) => n \notin Ends(e)
    BY <1>3, <1>4, <1>5, AskedFree
  <2> QED
    BY <2>1, <2>2
<1>7. PICK f \in FrameSet : f = RemoveLocal(p, n) /\ f.op = "REMOVE_LOCAL" /\ f.id = n
  <2>1. RemoveLocal(p, n) \in FrameSet
    BY <1>3, <1>6, LoopEdges
  <2>2. RemoveLocal(p, n).op = "REMOVE_LOCAL" /\ RemoveLocal(p, n).id = n
    BY DEF RemoveLocal, Frame
  <2> QED
    BY <2>1, <2>2
<1>8. /\ Kept(p, Len(stack[p])) /\ Len(stack'[p]) = Len(stack[p]) + 1
      /\ stack'[p][Len(stack[p]) + 1] = f
  BY <1>1, <1>3, <1>4, <1>7, FramePushed
<1>9. \A q \in Rank, op \in Op, id \in Id :
        InOp(q, op, id)' <=> InOp(q, op, id) \/ (q = p /\ op = "REMOVE_LOCAL" /\ id = n)
  BY <1>3, <1>7, <1>8, OpPushed
<1>10. /\ \A q \in Rank, e \in Edge : /\ InOp(q, "LINK", e)' <=> InOp(q, "LINK", e)
                                      /\ InOp(q, "UNLINK", e)' <=> InOp(q, "UNLINK", e)
       /\ \A q \in Rank, x \in Node :
            /\ InOp(q, "REMOVE_NODE", x)' <=> InOp(q, "REMOVE_NODE", x)
            /\ InOp(q, "REMOVE_LOCAL", x)' <=> InOp(q, "REMOVE_LOCAL", x) \/ (q = p /\ x = n)
  BY <1>9 DEF Op, Id
<1>11. /\ \A q \in Rank, e \in Edge : /\ Sent(q, "LINK", e)' <=> Sent(q, "LINK", e)
                                      /\ Sent(q, "UNLINK", e)' <=> Sent(q, "UNLINK", e)
       /\ \A q \in Rank, x \in Node :
            Sent(q, "REMOVE_NODE", x)' <=> Sent(q, "REMOVE_NODE", x) /\ ~(q = p /\ x = n)
  <2>1. \A r \in sent : r.tag = "REMOVE_NODE" /\ r.id = n => r = m
    BY <1>1, <1>3, <1>4 DEF RequestsAwaited
  <2> QED
    BY <2>1, <1>1, <1>4 DEF Sent
<1>12. /\ \A q \in Rank, x \in Node : Removes(q, x)' <=> Removes(q, x)
       /\ \A q \in Rank, x \in Node : Registered(q, x)' <=> Registered(q, x)
  BY <1>2, <1>5, <1>10, <1>11 DEF Removes, Registered
<1>13. Types' /\ NoFailure'
  <2>1. failed' = FALSE
    BY <1>1, <1>4
  <2>2. stack' \in [Rank -> Seq(FrameSet)]
    BY <1>8 DEF Kept
  <2>3. \A q \in Rank : \A i \in DOMAIN stack'[q] : stack'[q][i] \in FrameSet
    BY <2>2, LenProperties, ElementOfSeq
  <2> QED
    BY <1>1, <1>2, <1>3, <2>1, <2>2, <2>3 DEF Types, TypeOK, FrameSet, NoFailure
<1>14. StackShape'
  <2>1. \A q \in Rank, e \in Edge : InOp(q, "UNLINK", e) =>
          \A x \in Ends(e) : Removes(q, x)' => Removes(q, x)
    BY <1>12, EndsAreNodes
  <2>2. /\ Len(stack[p]) \in Nat
        /\ \A i \in Len(stack[p]) + 1 .. Len(stack'[p]) :
             i - 1 = Len(stack[p]) /\ stack'[p][i].op = "REMOVE_LOCAL" /\ stack'[p][i].id = n
    BY <1>3, <1>7, <1>8, StackTyped
  <2>3. \A j \in 1 .. Len(stack[p]) :
          ~(stack'[p][j].op = "REMOVE_LOCAL" /\ stack'[p][j].id = n)
    BY <1>4, <1>8, SMTT(30) DEF Kept, InOp
  <2> QED
    BY <1>3, <1>8, <2>1, <2>2, <2>3, ShapeKept
<1>15. OpsHosted'
  BY <1>2, <1>3, <1>4, <1>10, <1>12 DEF OpsHosted
<1>16. RequestsAwaited'
  <2>1. SUFFICES ASSUME NEW r \in sent'
                 PROVE /\ r.tag = "LINK" => /\ r.id \in Edge /\ r.to \in Hosts(r.id) \ {r.from}
                                            /\ InOp(r.from, "LINK", r.id)'
                       /\ r.tag = "UNLINK" => /\ r.id \in Edge /\ r.to \in Hosts(r.id) \ {r.from}
                                              /\ InOp(r.from, "UNLINK", r.id)'
                       /\ r.tag = "REMOVE_NODE" =>
                            /\ r.id \in Node /\ r.to = Host[r.id] /\ r.id \notin live
                            /\ ~InOp(r.to, "REMOVE_LOCAL", r.id)' /\ ~Registered(r.to, r.id)'
                            /\ \A s \in sent' : s.tag = "REMOVE_NODE" /\ s.id = r.id => s = r
    BY <1>2 DEF RequestsAwaited
  <2>2. r \in sent /\ r # m /\ r.from \in Rank /\ r.to \in Rank /\ \A s \in sent' : s \in sent
    BY <1>1, <1>3, Sets
  <2>3. r.tag = "REMOVE_NODE" => r.id # n
    BY <1>1, <1>3, <1>4, <2>2 DEF RequestsAwaited
  <2> QED
    BY <2>2, <2>3, <1>3, <1>10, <1>12 DEF RequestsAwaited
<1>17. RegisteredOnce' /\ LinkedLive'
  BY <1>2, <1>3 DEF RegisteredOnce, LinkedLive
<1>18. FreshEdges' /\ EdgesHosted'
  BY <1>2, <1>3, <1>10, Sets DEF FreshEdges, EdgesHosted
<1>19. LinkedOnHosts'
  BY <1>2, <1>3, <1>10, <1>11, Sets DEF LinkedOnHosts
<1>20. Loops'
  BY <1>2, <1>3, <1>6, <1>7, <1>8, LoopsStarted
<1>21. RemovedApart'
  BY <1>2, <1>3, <1>12, Sets, EndsAreNodes DEF RemovedApart
<1>22. UnlinkedErased'
  BY <1>2, <1>3, <1>10, <1>11, <1>12, Sets, EndsAreNodes DEF UnlinkedErased
<1>23. NodesKept'
  BY <1>1, <1>2, <1>3, <1>12, Sets DEF NodesKept
<1>24. Unchanged'
  BY <1>1, <1>2, <1>3 DEF Unchanged
<1> QED
  BY <1>13, <1>14, <1>15, <1>16, <1>17, <1>18, <1>19, <1>20, <1>21, <1>22, <1>23, <1>24
     DEF IInv, OpsInv, GraphInv

-----------------------------------------------------------------------------
(* The tasks *)

\* A task starts an operation f, or does it at once.
LEMMA TaskFrame ==
  ASSUME Types, NEW p \in Rank, stack[p] = <<>>, NEW f \in FrameSet, NEW once \in BOOLEAN,
         once => stack' = stack,
         ~once => stack' = [stack EXCEPT ![p] = <<f>>]
  PROVE /\ Kept(p, 0) /\ Len(stack[p]) = 0 /\ Len(stack'[p]) \in 0 .. 1
        /\ \A i \in 1 .. Len(stack'[p]) : i = 1 /\ stack'[p][i] = f
        /\ \A q \in Rank, op \in Op, id \in Id :
             InOp(q, op, id)' <=> InOp(q, op, id) \/ (~once /\ q = p /\ op = f.op /\ id = f.id)
<1>1. Len(stack[p]) = 0
  BY StackTyped
<1>2. CASE once
  <2>1. stack' = stack /\ Kept(p, 0)
    BY <1>1, <1>2 DEF Types, Kept
  <2> QED
    BY <2>1, <1>1, <1>2 DEF InOp
<1>3. CASE ~once
  <2>1. stack' = [stack EXCEPT ![p] = <<f>>]
    BY <1>3
  <2>2. /\ Kept(p, Len(stack[p])) /\ Len(stack'[p]) = Len(stack[p]) + 1
        /\ stack'[p][Len(stack[p]) + 1] = f
    BY <2>1, FrameStarted
  <2>3. \A q \in Rank, op \in Op, id \in Id :
          InOp(q, op, id)' <=> InOp(q, op, id) \/ (q = p /\ op = f.op /\ id = f.id)
    BY <2>2, OpPushed, ZenonT(60)
  <2>4. Kept(p, 0) /\ Len(stack'[p]) = 1 /\ stack'[p][1] = f
    BY <2>2, <1>1
  <2> QED
    BY <2>3, <2>4, <1>1, <1>3
<1> QED
  BY <1>2, <1>3

\* Requests go to where they are posted.
LEMMA PostsSent ==
  ASSUME NEW p \in Rank, NEW tag, NEW id, NEW T, sent' = sent \cup Posts(p, tag, id, T)
  PROVE /\ \A q \in Rank, e \in Edge :
             /\ Sent(q, "LINK", e)' <=>
                  Sent(q, "LINK", e) \/ (tag = "LINK" /\ e = id /\ q \in T)
             /\ Sent(q, "UNLINK", e)' <=>
                  Sent(q, "UNLINK", e) \/ (tag = "UNLINK" /\ e = id /\ q \in T)
        /\ \A q \in Rank, n \in Node : Sent(q, "REMOVE_NODE", n)' <=>
             Sent(q, "REMOVE_NODE", n) \/ (tag = "REMOVE_NODE" /\ n = id /\ q \in T)
        /\ \A m \in sent' : m \in sent \/ (m.from = p /\ m.to \in T /\ m.tag = tag /\ m.id = id)
<1>1. \A m : m \in Posts(p, tag, id, T) <=>
              \E q \in T : m = [from |-> p, to |-> q, tag |-> tag, id |-> id]
  BY DEF Posts
<1>2. \A m : m \in sent' <=>
              m \in sent \/ \E q \in T : m = [from |-> p, to |-> q, tag |-> tag, id |-> id]
  BY <1>1
<1>3. \A q, x, y : Sent(q, x, y)' <=> Sent(q, x, y) \/ (x = tag /\ y = id /\ q \in T)
  <2>1. SUFFICES ASSUME NEW q, NEW x, NEW y
                 PROVE Sent(q, x, y)' <=> Sent(q, x, y) \/ (x = tag /\ y = id /\ q \in T)
    OBVIOUS
  <2>2. Sent(q, x, y)' => Sent(q, x, y) \/ (x = tag /\ y = id /\ q \in T)
    BY <1>2 DEF Sent
  <2>3. Sent(q, x, y) => Sent(q, x, y)'
    BY <1>2 DEF Sent
  <2>4. ASSUME x = tag, y = id, q \in T PROVE Sent(q, x, y)'
    <3>1. [from |-> p, to |-> q, tag |-> tag, id |-> id] \in sent'
      BY <2>4, <1>2
    <3> QED
      BY <3>1, <2>4 DEF Sent
  <2> QED
    BY <2>2, <2>3, <2>4
<1>4. \A m \in sent' : m \in sent \/ (m.from = p /\ m.to \in T /\ m.tag = tag /\ m.id = id)
  BY <1>2
<1> QED
  BY <1>3, <1>4

\* An operation counts, and is one that the period has seen.
LEMMA TaskCounts ==
  ASSUME Types, NEW p \in Rank, Task(p)
  PROVE /\ left' \in [Rank -> Nat] /\ \A q \in Rank : left'[q] \in 0 .. MaxOps[q]
        /\ Unchanged'
        /\ ~failed /\ pc[p] = "working" /\ stack[p] = <<>>
<1>1. /\ left' = [left EXCEPT ![p] = @ - 1] /\ left[p] > 0
      /\ ~failed /\ pc[p] = "working" /\ stack[p] = <<>>
  BY DEF Task
<1>2. /\ left \in [Rank -> Nat] /\ MaxOps \in [Rank -> Nat]
      /\ \A q \in Rank : left[q] \in 0 .. MaxOps[q]
  BY LinkerAssumption DEF Types, TypeOK
<1>3. left'[p] = left[p] - 1 /\ \A q \in Rank \ {p} : left'[q] = left[q]
  BY <1>1, <1>2
<1>4. left' \in [Rank -> Nat] /\ \A q \in Rank : left'[q] \in 0 .. MaxOps[q]
  BY <1>1, <1>2, <1>3
<1>5. left'[p] # MaxOps[p]
  BY <1>1, <1>2, <1>3
<1> QED
  BY <1>1, <1>4, <1>5 DEF Unchanged

\* The edge of link() is in the graph, or on its way to the hosts of its ends.
LEMMA LinkStep ==
  ASSUME IInv, NEW p \in Rank, Link(p), Allow = {}
  PROVE IInv'
<1>1. PICK e \in fresh :
        /\ Ends(e) \subseteq nodes[p] /\ Ends(e) \subseteq live
        /\ fresh' = fresh \ {e} /\ linked' = linked \cup {e}
        /\ IsLocal(p, e) => /\ edges' = [edges EXCEPT ![p] = @ \cup {e}]
                            /\ UNCHANGED <<stack, sent>>
        /\ ~IsLocal(p, e) =>
             /\ stack' = [stack EXCEPT ![p] = <<Frame("LINK", e, "none", {})>>]
             /\ sent' = sent \cup Posts(p, "LINK", e, Hosts(e) \ {p})
             /\ edges' = edges
  BY DEF Link
<1>2. UNCHANGED <<pc, nodes, ghostEdges, toRemove, failed, live>>
  BY DEF Link, linkerVars
<1>3. /\ Types /\ StackShape /\ OpsHosted /\ RequestsAwaited /\ RegisteredOnce /\ FreshEdges
      /\ LinkedLive /\ EdgesHosted /\ LinkedOnHosts /\ Loops /\ RemovedApart
      /\ UnlinkedErased /\ NodesKept /\ NoFailure
  BY Parts
<1>4. Task(p)
  BY DEF Link
<1>5. /\ left' \in [Rank -> Nat] /\ \A q \in Rank : left'[q] \in 0 .. MaxOps[q]
      /\ Unchanged' /\ ~failed /\ pc[p] = "working" /\ stack[p] = <<>>
  BY <1>3, <1>4, TaskCounts
<1>6. /\ e \in Edge /\ e \notin linked /\ \A n \in Ends(e) : n \in Node /\ n \in nodes[p] /\ n \in live
      /\ \A q \in Rank : e \notin edges[q] /\ ~InOp(q, "LINK", e)
  BY <1>1, <1>3, Sets DEF FreshEdges
<1>7. \A q \in Rank, n \in Node : n \in Ends(e) => ~Removes(q, n)
  BY <1>3, <1>6, RemovedDead
<1>8. PICK f \in FrameSet : f = Frame("LINK", e, "none", {}) /\ f.op = "LINK" /\ f.id = e
  <2>1. Frame("LINK", e, "none", {}).op = "LINK" /\ Frame("LINK", e, "none", {}).id = e
    BY DEF Frame
  <2> QED
    BY <2>1, <1>6, FrameTyped
<1>9. /\ Kept(p, 0) /\ Len(stack[p]) = 0 /\ Len(stack'[p]) \in 0 .. 1
      /\ \A i \in 1 .. Len(stack'[p]) : i = 1 /\ stack'[p][i] = f
      /\ \A q \in Rank, op \in Op, id \in Id : InOp(q, op, id)' <=>
           InOp(q, op, id) \/ (~IsLocal(p, e) /\ q = p /\ op = "LINK" /\ id = e)
  <2>1. PICK once \in BOOLEAN : once <=> IsLocal(p, e)
    OBVIOUS
  <2>2. /\ once => stack' = stack
        /\ ~once => stack' = [stack EXCEPT ![p] = <<f>>]
    BY <2>1, <1>1, <1>8
  <2> QED
    BY <2>1, <2>2, <1>3, <1>5, <1>8, TaskFrame
<1>10. /\ \A q \in Rank, x \in Edge :
            /\ InOp(q, "LINK", x)' <=>
                 InOp(q, "LINK", x) \/ (~IsLocal(p, e) /\ q = p /\ x = e)
            /\ InOp(q, "UNLINK", x)' <=> InOp(q, "UNLINK", x)
       /\ \A q \in Rank, n \in Node :
            /\ InOp(q, "REMOVE_NODE", n)' <=> InOp(q, "REMOVE_NODE", n)
            /\ InOp(q, "REMOVE_LOCAL", n)' <=> InOp(q, "REMOVE_LOCAL", n)
  BY <1>9 DEF Op, Id
<1>11. /\ \A q \in Rank, x \in Edge :
            /\ Sent(q, "LINK", x)' <=> Sent(q, "LINK", x) \/ (x = e /\ q \in Hosts(e) \ {p})
            /\ Sent(q, "UNLINK", x)' <=> Sent(q, "UNLINK", x)
       /\ \A q \in Rank, n \in Node : Sent(q, "REMOVE_NODE", n)' <=> Sent(q, "REMOVE_NODE", n)
       /\ \A m \in sent' : \/ m \in sent
                           \/ /\ m.from = p /\ m.to \in Hosts(e) \ {p} /\ m.tag = "LINK"
                              /\ m.id = e /\ ~IsLocal(p, e)
  <2>1. CASE IsLocal(p, e)
    <3>1. Hosts(e) \ {p} = {} /\ sent' = sent
      BY <2>1, <1>1 DEF IsLocal
    <3> QED
      BY <3>1 DEF Sent
  <2>2. CASE ~IsLocal(p, e)
    <3>1. sent' = sent \cup Posts(p, "LINK", e, Hosts(e) \ {p})
      BY <2>2, <1>1
    <3> QED
      BY <3>1, <2>2, PostsSent
  <2> QED
    BY <2>1, <2>2
<1>12. /\ edges' \in [Rank -> SUBSET Edge]
       /\ \A q \in Rank, x \in Edge :
            x \in edges'[q] <=> x \in edges[q] \/ (IsLocal(p, e) /\ q = p /\ x = e)
  <2>1. CASE IsLocal(p, e)
    <3>1. edges \in [Rank -> SUBSET Edge] /\ edges' = [edges EXCEPT ![p] = @ \cup {e}]
      BY <2>1, <1>1, <1>3 DEF Types, TypeOK
    <3> QED
      BY <3>1, <2>1, <1>6
  <2>2. CASE ~IsLocal(p, e)
    BY <2>2, <1>1, <1>3 DEF Types, TypeOK
  <2> QED
    BY <2>1, <2>2
<1>13. /\ \A q \in Rank, n \in Node : Removes(q, n)' <=> Removes(q, n)
       /\ \A q \in Rank, n \in Node : Registered(q, n)' <=> Registered(q, n)
  BY <1>2, <1>10, <1>11 DEF Removes, Registered
<1>14. Types'
  <2>1. stack' \in [Rank -> Seq(FrameSet)]
    BY <1>9 DEF Kept
  <2>2. \A q \in Rank : \A i \in DOMAIN stack'[q] : stack'[q][i] \in FrameSet
    BY <2>1, LenProperties, ElementOfSeq
  <2>3. sent' \subseteq Request
    <3>1. \A q \in Hosts(e) : q \in Rank
      BY <1>6, EndsAreNodes
    <3>2. Posts(p, "LINK", e, Hosts(e) \ {p}) \subseteq Request
      BY <3>1, <1>6 DEF Posts, Request
    <3> QED
      BY <3>2, <1>1, <1>3 DEF Types, TypeOK
  <2>4. fresh' \subseteq Edge /\ linked' \subseteq Edge
    BY <1>1, <1>3, <1>6, Sets
  <2> QED
    BY <1>2, <1>3, <1>5, <1>12, <2>1, <2>2, <2>3, <2>4 DEF Types, TypeOK, FrameSet
<1>15. StackShape'
  <2>1. \A q \in Rank, x \in Edge : InOp(q, "UNLINK", x) =>
          \A n \in Ends(x) : Removes(q, n)' => Removes(q, n)
    BY <1>13, EndsAreNodes
  <2>2. \A i \in 0 + 1 .. Len(stack'[p]) : stack'[p][i].op = "LINK" /\ i = 1
    BY <1>8, <1>9
  <2> QED
    BY <1>3, <1>9, <2>1, <2>2, ShapeKept
<1>16. OpsHosted'
  BY <1>1, <1>2, <1>3, <1>5, <1>6, <1>10, <1>12, <1>13 DEF OpsHosted
<1>17. RequestsAwaited'
  <2>1. SUFFICES ASSUME NEW m \in sent'
                 PROVE /\ m.tag = "LINK" => /\ m.id \in Edge /\ m.to \in Hosts(m.id) \ {m.from}
                                            /\ InOp(m.from, "LINK", m.id)'
                       /\ m.tag = "UNLINK" => /\ m.id \in Edge /\ m.to \in Hosts(m.id) \ {m.from}
                                              /\ InOp(m.from, "UNLINK", m.id)'
                       /\ m.tag = "REMOVE_NODE" =>
                            /\ m.id \in Node /\ m.to = Host[m.id] /\ m.id \notin live
                            /\ ~InOp(m.to, "REMOVE_LOCAL", m.id)' /\ ~Registered(m.to, m.id)'
                            /\ \A s \in sent' : s.tag = "REMOVE_NODE" /\ s.id = m.id => s = m
    BY <1>2 DEF RequestsAwaited
  <2>2. CASE m \in sent
    <3>1. m.from \in Rank /\ m.to \in Rank /\ \A s \in sent' : s.tag = "REMOVE_NODE" => s \in sent
      BY <2>2, <1>3, <1>11, Sets
    <3> QED
      BY <3>1, <2>2, <1>3, <1>10, <1>13 DEF RequestsAwaited
  <2>3. CASE m \notin sent
    BY <2>3, <1>6, <1>10, <1>11
  <2> QED
    BY <2>2, <2>3
<1>18. RegisteredOnce' /\ LinkedLive'
  BY <1>1, <1>2, <1>3, <1>6 DEF RegisteredOnce, LinkedLive
<1>19. FreshEdges'
  BY <1>1, <1>3, <1>6, <1>10, <1>12, Sets DEF FreshEdges
<1>20. EdgesHosted'
  BY <1>2, <1>3, <1>6, <1>12, Sets DEF EdgesHosted, IsLocal
<1>21. LinkedOnHosts'
  <2>1. ASSUME NEW q \in Rank, q \in Hosts(e)
        PROVE e \in edges'[q] \/ InOp(q, "LINK", e)' \/ Sent(q, "LINK", e)'
    BY <2>1, <1>6, <1>10, <1>11, <1>12
  <2> QED
    BY <2>1, <1>1, <1>3, <1>10, <1>11, <1>12, Sets DEF LinkedOnHosts
<1>22. Loops'
  <2>1. \A q \in Rank, n \in Node, x \in Edge : ToUnlink(q, n, x) => ToUnlink(q, n, x)'
    BY <1>3, <1>9, ToUnlinkKept
  <2>2. \A q \in Rank, n \in Node, x \in Edge :
          InOp(q, "REMOVE_LOCAL", n)' /\ x \in edges'[q] /\ n \in Ends(x) =>
            InOp(q, "UNLINK", x)' \/ ToUnlink(q, n, x)'
    BY <2>1, <1>3, <1>7, <1>10, <1>12 DEF Loops, Removes
  <2>3. \A q \in Rank : \A i \in 1 .. Len(stack[q]) :
          stack[q][i].op = "REMOVE_LOCAL" /\ (q = p => i <= 0) =>
            \A x \in stack[q][i].todo : x \in edges'[q] /\ ~InOp(q, "UNLINK", x)'
    BY <1>3, <1>10, <1>12, StackTyped, FrameParts DEF Loops
  <2>4. \A i \in 0 + 1 .. Len(stack'[p]) : stack'[p][i].op # "REMOVE_LOCAL"
    BY <1>8, <1>9
  <2> QED
    BY <1>3, <1>9, <1>12, <2>2, <2>3, <2>4, LoopsKept
<1>23. RemovedApart'
  BY <1>3, <1>7, <1>12, <1>13, EndsAreNodes DEF RemovedApart
<1>24. UnlinkedErased'
  BY <1>1, <1>3, <1>6, <1>10, <1>11, <1>12, <1>13, EndsAreNodes DEF UnlinkedErased
<1>25. NodesKept'
  <2>1. \A m \in sent' : m.tag = "REMOVE_NODE" => m \in sent
    BY <1>11
  <2>2. \A q \in Rank : \A x \in edges'[q] : \A n \in Ends(x) : n \in nodes[q]
    BY <1>3, <1>6, <1>12 DEF NodesKept
  <2> QED
    BY <2>1, <2>2, <1>2, <1>3, <1>13, Sets DEF NodesKept
<1> QED
  BY <1>2, <1>3, <1>5, <1>14, <1>15, <1>16, <1>17, <1>18, <1>19, <1>20, <1>21, <1>22, <1>23,
     <1>24, <1>25 DEF IInv, OpsInv, GraphInv, NoFailure

\* What a task starts to unlink has no end that its process removes, and its
\* other host is told.
LEMMA UnlinkStep ==
  ASSUME IInv, NEW p \in Rank, Unlink(p), Allow = {}
  PROVE IInv'
<1>1. PICK e \in edges[p] :
        /\ e \notin InProgress /\ e \notin ghostEdges[p] /\ Ends(e) \cap Removing(p) = {}
        /\ linked' = linked \ {e}
        /\ IsLocal(p, e) => /\ edges' = [edges EXCEPT ![p] = @ \ {e}]
                            /\ UNCHANGED <<stack, sent>>
        /\ ~IsLocal(p, e) =>
             /\ stack' = [stack EXCEPT ![p] = <<Frame("UNLINK", e, "none", {})>>]
             /\ sent' = sent \cup Posts(p, "UNLINK", e, Hosts(e) \ {p})
             /\ edges' = edges
  BY DEF Unlink
<1>2. UNCHANGED <<pc, nodes, ghostEdges, toRemove, failed, fresh, live>>
  BY DEF Unlink, linkerVars
<1>3. /\ Types /\ StackShape /\ OpsHosted /\ RequestsAwaited /\ RegisteredOnce /\ FreshEdges
      /\ LinkedLive /\ EdgesHosted /\ LinkedOnHosts /\ Loops /\ RemovedApart
      /\ UnlinkedErased /\ NodesKept /\ NoFailure
  BY Parts
<1>4. Task(p)
  BY DEF Unlink
<1>5. /\ left' \in [Rank -> Nat] /\ \A q \in Rank : left'[q] \in 0 .. MaxOps[q]
      /\ Unchanged' /\ ~failed /\ pc[p] = "working" /\ stack[p] = <<>>
  BY <1>3, <1>4, TaskCounts
<1>6. /\ e \in Edge /\ p \in Hosts(e)
      /\ \A q \in Rank : ~InOp(q, "LINK", e)
      /\ \A n \in Ends(e) : n \in Node /\ ~Removes(p, n)
  <2>1. e \in Edge /\ p \in Hosts(e)
    BY <1>1, <1>3, Sets DEF EdgesHosted
  <2>2. \A q \in Rank : ~InOp(q, "LINK", e)
    BY <1>1, <1>3, <2>1, Locks DEF InProgress
  <2>3. \A n \in Ends(e) : n \in Node /\ ~Removes(p, n)
    BY <1>1, <1>3, <2>1, Locks, EndsAreNodes
  <2> QED
    BY <2>1, <2>2, <2>3
<1>7. \A op \in Op, id \in Id : ~InOp(p, op, id)
  BY <1>3, <1>5, NoOp
<1>8. PICK f \in FrameSet : f = Frame("UNLINK", e, "none", {}) /\ f.op = "UNLINK" /\ f.id = e
  <2>1. Frame("UNLINK", e, "none", {}).op = "UNLINK" /\ Frame("UNLINK", e, "none", {}).id = e
    BY DEF Frame
  <2> QED
    BY <2>1, <1>6, FrameTyped
<1>9. /\ Kept(p, 0) /\ Len(stack[p]) = 0 /\ Len(stack'[p]) \in 0 .. 1
      /\ \A i \in 1 .. Len(stack'[p]) : i = 1 /\ stack'[p][i] = f
      /\ \A q \in Rank, op \in Op, id \in Id : InOp(q, op, id)' <=>
           InOp(q, op, id) \/ (~IsLocal(p, e) /\ q = p /\ op = "UNLINK" /\ id = e)
  <2>1. PICK once \in BOOLEAN : once <=> IsLocal(p, e)
    OBVIOUS
  <2>2. /\ once => stack' = stack
        /\ ~once => stack' = [stack EXCEPT ![p] = <<f>>]
    BY <2>1, <1>1, <1>8
  <2> QED
    BY <2>1, <2>2, <1>3, <1>5, <1>8, TaskFrame
<1>10. /\ \A q \in Rank, x \in Edge :
            /\ InOp(q, "LINK", x)' <=> InOp(q, "LINK", x)
            /\ InOp(q, "UNLINK", x)' <=>
                 InOp(q, "UNLINK", x) \/ (~IsLocal(p, e) /\ q = p /\ x = e)
       /\ \A q \in Rank, n \in Node :
            /\ InOp(q, "REMOVE_NODE", n)' <=> InOp(q, "REMOVE_NODE", n)
            /\ InOp(q, "REMOVE_LOCAL", n)' <=> InOp(q, "REMOVE_LOCAL", n)
  BY <1>9 DEF Op, Id
<1>11. /\ \A q \in Rank, x \in Edge :
            /\ Sent(q, "LINK", x)' <=> Sent(q, "LINK", x)
            /\ Sent(q, "UNLINK", x)' <=> Sent(q, "UNLINK", x) \/ (x = e /\ q \in Hosts(e) \ {p})
       /\ \A q \in Rank, n \in Node : Sent(q, "REMOVE_NODE", n)' <=> Sent(q, "REMOVE_NODE", n)
       /\ \A m \in sent' : \/ m \in sent
                           \/ /\ m.from = p /\ m.to \in Hosts(e) \ {p} /\ m.tag = "UNLINK"
                              /\ m.id = e /\ ~IsLocal(p, e)
  <2>1. CASE IsLocal(p, e)
    <3>1. Hosts(e) \ {p} = {} /\ sent' = sent
      BY <2>1, <1>1 DEF IsLocal
    <3> QED
      BY <3>1 DEF Sent
  <2>2. CASE ~IsLocal(p, e)
    <3>1. sent' = sent \cup Posts(p, "UNLINK", e, Hosts(e) \ {p})
      BY <2>2, <1>1
    <3> QED
      BY <3>1, <2>2, PostsSent
  <2> QED
    BY <2>1, <2>2
<1>12. /\ edges' \in [Rank -> SUBSET Edge]
       /\ \A q \in Rank, x \in Edge :
            x \in edges'[q] <=> x \in edges[q] /\ ~(IsLocal(p, e) /\ q = p /\ x = e)
  <2>1. CASE IsLocal(p, e)
    <3>1. edges \in [Rank -> SUBSET Edge] /\ edges' = [edges EXCEPT ![p] = @ \ {e}]
      BY <2>1, <1>1, <1>3 DEF Types, TypeOK
    <3> QED
      BY <3>1, <2>1, <1>6
  <2>2. CASE ~IsLocal(p, e)
    BY <2>2, <1>1, <1>3 DEF Types, TypeOK
  <2> QED
    BY <2>1, <2>2
<1>13. /\ \A q \in Rank, n \in Node : Removes(q, n)' <=> Removes(q, n)
       /\ \A q \in Rank, n \in Node : Registered(q, n)' <=> Registered(q, n)
  BY <1>2, <1>10, <1>11 DEF Removes, Registered
<1>14. Types'
  <2>1. stack' \in [Rank -> Seq(FrameSet)]
    BY <1>9 DEF Kept
  <2>2. \A q \in Rank : \A i \in DOMAIN stack'[q] : stack'[q][i] \in FrameSet
    BY <2>1, LenProperties, ElementOfSeq
  <2>3. sent' \subseteq Request
    <3>1. \A q \in Hosts(e) : q \in Rank
      BY <1>6, EndsAreNodes
    <3>2. Posts(p, "UNLINK", e, Hosts(e) \ {p}) \subseteq Request
      BY <3>1, <1>6 DEF Posts, Request
    <3> QED
      BY <3>2, <1>1, <1>3 DEF Types, TypeOK
  <2>4. linked' \subseteq Edge
    BY <1>1, <1>3, Sets
  <2> QED
    BY <1>2, <1>3, <1>5, <1>12, <2>1, <2>2, <2>3, <2>4 DEF Types, TypeOK, FrameSet
<1>15. StackShape'
  <2>1. \A q \in Rank, x \in Edge : InOp(q, "UNLINK", x) =>
          \A n \in Ends(x) : Removes(q, n)' => Removes(q, n)
    BY <1>13, EndsAreNodes
  <2>2. \A i \in 0 + 1 .. Len(stack'[p]) :
          /\ stack'[p][i].op = "UNLINK" /\ stack'[p][i].id = e /\ i = 1
          /\ \A n \in Ends(stack'[p][i].id) : ~Removes(p, n)'
    BY <1>6, <1>8, <1>9, <1>13
  <2> QED
    BY <1>3, <1>9, <2>1, <2>2, ShapeKept
<1>16. OpsHosted'
  <2>1. \A q \in Rank, x \in Edge : InOp(q, "UNLINK", x)' => x \notin linked' /\ q \in Hosts(x) /\ x \in edges'[q]
    BY <1>1, <1>3, <1>6, <1>7, <1>10, <1>12 DEF OpsHosted, Op, Id
  <2>2. \A q \in Rank, x \in Edge : InOp(q, "LINK", x)' =>
          x \in linked' /\ pc'[q] = "working" /\ \A n \in Ends(x) : n \in nodes'[q]
    BY <1>1, <1>2, <1>3, <1>6, <1>10 DEF OpsHosted
  <2> QED
    BY <1>2, <1>3, <1>10, <1>13, <2>1, <2>2 DEF OpsHosted
<1>17. RequestsAwaited'
  <2>1. SUFFICES ASSUME NEW m \in sent'
                 PROVE /\ m.tag = "LINK" => /\ m.id \in Edge /\ m.to \in Hosts(m.id) \ {m.from}
                                            /\ InOp(m.from, "LINK", m.id)'
                       /\ m.tag = "UNLINK" => /\ m.id \in Edge /\ m.to \in Hosts(m.id) \ {m.from}
                                              /\ InOp(m.from, "UNLINK", m.id)'
                       /\ m.tag = "REMOVE_NODE" =>
                            /\ m.id \in Node /\ m.to = Host[m.id] /\ m.id \notin live
                            /\ ~InOp(m.to, "REMOVE_LOCAL", m.id)' /\ ~Registered(m.to, m.id)'
                            /\ \A s \in sent' : s.tag = "REMOVE_NODE" /\ s.id = m.id => s = m
    BY <1>2 DEF RequestsAwaited
  <2>2. CASE m \in sent
    <3>1. m.from \in Rank /\ m.to \in Rank /\ \A s \in sent' : s.tag = "REMOVE_NODE" => s \in sent
      BY <2>2, <1>3, <1>11, Sets
    <3> QED
      BY <3>1, <2>2, <1>3, <1>10, <1>13 DEF RequestsAwaited
  <2>3. CASE m \notin sent
    BY <2>3, <1>6, <1>10, <1>11
  <2> QED
    BY <2>2, <2>3
<1>18. RegisteredOnce' /\ LinkedLive'
  BY <1>1, <1>2, <1>3 DEF RegisteredOnce, LinkedLive
<1>19. FreshEdges'
  BY <1>1, <1>2, <1>3, <1>10, <1>12, Sets DEF FreshEdges
<1>20. EdgesHosted'
  BY <1>1, <1>2, <1>3, <1>12, Sets DEF EdgesHosted
<1>21. LinkedOnHosts'
  BY <1>1, <1>3, <1>10, <1>11, <1>12, Sets DEF LinkedOnHosts
<1>22. Loops'
  <2>1. \A q \in Rank, n \in Node, x \in Edge : ToUnlink(q, n, x) => ToUnlink(q, n, x)'
    BY <1>3, <1>9, ToUnlinkKept
  <2>2. \A q \in Rank, n \in Node, x \in Edge :
          InOp(q, "REMOVE_LOCAL", n)' /\ x \in edges'[q] /\ n \in Ends(x) =>
            InOp(q, "UNLINK", x)' \/ ToUnlink(q, n, x)'
    BY <2>1, <1>3, <1>10, <1>12 DEF Loops
  <2>3. \A q \in Rank : \A i \in 1 .. Len(stack[q]) :
          stack[q][i].op = "REMOVE_LOCAL" /\ (q = p => i <= 0) =>
            \A x \in stack[q][i].todo : x \in edges'[q] /\ ~InOp(q, "UNLINK", x)'
    BY <1>3, <1>10, <1>12, StackTyped, FrameParts DEF Loops
  <2>4. \A i \in 0 + 1 .. Len(stack'[p]) : stack'[p][i].op # "REMOVE_LOCAL"
    BY <1>8, <1>9
  <2> QED
    BY <1>3, <1>9, <1>12, <2>2, <2>3, <2>4, LoopsKept
<1>23. RemovedApart'
  BY <1>3, <1>12, <1>13, EndsAreNodes DEF RemovedApart
<1>24. UnlinkedErased'
  <2>1. SUFFICES ASSUME NEW q \in Rank, NEW x \in edges'[q], q \in Hosts(x), x \notin linked'
                 PROVE \/ InOp(q, "UNLINK", x)' \/ Sent(q, "UNLINK", x)'
                       \/ \E n \in Ends(x) : Removes(q, n)'
                       \/ \E r \in Rank \ {q} : /\ x \in edges'[r] /\ ~InOp(r, "UNLINK", x)'
                                                /\ \E n \in Ends(x) : Removes(r, n)'
    BY DEF UnlinkedErased
  <2>2. x \in Edge /\ x \in edges[q] /\ \A n \in Ends(x) : n \in Node
    BY <2>1, <1>12, EndsAreNodes
  <2>3. CASE x = e
    BY <2>1, <2>2, <2>3, <1>10, <1>11, <1>12 DEF IsLocal
  <2>4. CASE x # e
    <3>1. \/ InOp(q, "UNLINK", x) \/ Sent(q, "UNLINK", x)
          \/ \E n \in Ends(x) : Removes(q, n)
          \/ \E r \in Rank \ {q} : /\ x \in edges[r] /\ ~InOp(r, "UNLINK", x)
                                   /\ \E n \in Ends(x) : Removes(r, n)
      BY <2>1, <2>2, <2>4, <1>1, <1>3 DEF UnlinkedErased
    <3> QED
      BY <3>1, <2>2, <2>4, <1>10, <1>11, <1>12, <1>13
  <2> QED
    BY <2>3, <2>4
<1>25. NodesKept'
  <2>1. \A m \in sent' : m.tag = "REMOVE_NODE" => m \in sent
    BY <1>11
  <2> QED
    BY <2>1, <1>2, <1>3, <1>12, <1>13, Sets DEF NodesKept
<1> QED
  BY <1>2, <1>3, <1>5, <1>14, <1>15, <1>16, <1>17, <1>18, <1>19, <1>20, <1>21, <1>22, <1>23,
     <1>24, <1>25 DEF IInv, OpsInv, GraphInv, NoFailure

\* The host removes the node, or is asked to: nobody else does, and no edge of it
\* is being linked, or unlinked by its host.
LEMMA RemoveNodeStep ==
  ASSUME IInv, NEW p \in Rank, RemoveNode(p), Allow = {}
  PROVE IInv'
<1>1. PICK n \in nodes[p] :
        /\ n \in live
        /\ \A e \in InProgress : n \notin Ends(e)
        /\ \A e \in LockedUnlink(Host[n]) : n \notin Ends(e)
        /\ \A e \in edges[Host[n]] : n \in Ends(e) => Ends(e) \cap Removing(Host[n]) = {}
        /\ live' = live \ {n} /\ linked' = {e \in linked : n \notin Ends(e)}
        /\ Host[n] = p => /\ stack' = [stack EXCEPT ![p] = <<RemoveLocal(p, n)>>]
                          /\ sent' = sent
        /\ Host[n] # p =>
             /\ stack' = [stack EXCEPT ![p] = <<Frame("REMOVE_NODE", n, "none", {})>>]
             /\ sent' = sent \cup Posts(p, "REMOVE_NODE", n, {Host[n]})
  BY DEF RemoveNode
<1>2. UNCHANGED <<pc, nodes, edges, ghostEdges, toRemove, failed, fresh>>
  BY DEF RemoveNode, linkerVars
<1>3. /\ Types /\ StackShape /\ OpsHosted /\ RequestsAwaited /\ RegisteredOnce /\ FreshEdges
      /\ LinkedLive /\ EdgesHosted /\ LinkedOnHosts /\ Loops /\ RemovedApart
      /\ UnlinkedErased /\ NodesKept /\ NoFailure
  BY Parts
<1>4. Task(p)
  BY DEF RemoveNode
<1>5. /\ left' \in [Rank -> Nat] /\ \A q \in Rank : left'[q] \in 0 .. MaxOps[q]
      /\ Unchanged' /\ ~failed /\ pc[p] = "working" /\ stack[p] = <<>>
  BY <1>3, <1>4, TaskCounts
<1>6. PICK h \in Rank : h = Host[n]
  BY <1>1, <1>3, Sets, LinkerAssumption
<1>7. /\ n \in Node /\ n \in nodes[h]
      /\ \A q \in Rank : ~Removes(q, n) /\ ~Registered(q, n)
      /\ \A q \in Rank : ~InOp(q, "REMOVE_NODE", n)
  <2>1. n \in Node /\ n \in nodes[h]
    BY <1>1, <1>3, <1>6, Sets DEF NodesKept
  <2>2. \A q \in Rank : ~Removes(q, n)
    BY <1>1, <1>3, <2>1, RemovedDead
  <2>3. \A q \in Rank : ~Registered(q, n) /\ ~InOp(q, "REMOVE_NODE", n)
    BY <1>1, <1>3, <2>1 DEF RegisteredOnce, Registered, OpsHosted
  <2> QED
    BY <2>1, <2>2, <2>3
\* What the guards of the tasks say.
<1>8. /\ \A q \in Rank, e \in Edge : n \in Ends(e) => ~InOp(q, "LINK", e) /\ ~Sent(q, "LINK", e)
      /\ \A e \in Edge : n \in Ends(e) => ~InOp(h, "UNLINK", e)
      /\ \A e \in edges[h] : n \in Ends(e) => \A x \in Ends(e) : ~Removes(h, x)
  <2>1. \A q \in Rank, e \in Edge : n \in Ends(e) => ~InOp(q, "LINK", e)
    BY <1>1, <1>3, Locks DEF InProgress
  <2>2. \A q \in Rank, e \in Edge : n \in Ends(e) => ~Sent(q, "LINK", e)
    BY <1>3, <2>1, Sets DEF RequestsAwaited, Sent
  <2>3. \A e \in Edge : n \in Ends(e) => ~InOp(h, "UNLINK", e)
    BY <1>1, <1>3, <1>6, Locks
  <2>4. ASSUME NEW e \in edges[h], n \in Ends(e), NEW x \in Ends(e) PROVE ~Removes(h, x)
    <3>1. e \in Edge /\ x \in Node
      BY <2>4, <1>3, Sets, EndsAreNodes
    <3>2. x \notin Removing(h)
      BY <2>4, <1>1, <1>6
    <3> QED
      BY <3>1, <3>2, <1>3, Locks
  <2> QED
    BY <2>1, <2>2, <2>3, <2>4
<1>9. PICK f \in FrameSet :
        /\ f.id = n
        /\ h = p => f = RemoveLocal(p, n) /\ f.op = "REMOVE_LOCAL"
        /\ h # p => f = Frame("REMOVE_NODE", n, "none", {}) /\ f.op = "REMOVE_NODE"
  <2>1. CASE h = p
    <3>1. RemoveLocal(p, n) \in FrameSet
      BY <1>3, <1>7, <1>8, LoopEdges
    <3>2. RemoveLocal(p, n).op = "REMOVE_LOCAL" /\ RemoveLocal(p, n).id = n
      BY DEF RemoveLocal, Frame
    <3> QED
      BY <2>1, <3>1, <3>2
  <2>2. CASE h # p
    <3>1. /\ Frame("REMOVE_NODE", n, "none", {}) \in FrameSet
          /\ Frame("REMOVE_NODE", n, "none", {}).op = "REMOVE_NODE"
          /\ Frame("REMOVE_NODE", n, "none", {}).id = n
      BY <1>7, FrameTyped DEF Frame
    <3> QED
      BY <2>2, <3>1
  <2> QED
    BY <2>1, <2>2
<1>10. /\ Kept(p, 0) /\ Len(stack[p]) = 0 /\ Len(stack'[p]) = 1 /\ stack'[p][1] = f
       /\ \A q \in Rank, op \in Op, id \in Id : InOp(q, op, id)' <=>
            InOp(q, op, id) \/ (q = p /\ op = f.op /\ id = n)
  <2>1. stack' = [stack EXCEPT ![p] = <<f>>]
    BY <1>1, <1>6, <1>9
  <2>2. /\ Kept(p, Len(stack[p])) /\ Len(stack'[p]) = Len(stack[p]) + 1
        /\ stack'[p][Len(stack[p]) + 1] = f
    BY <1>3, <1>5, <2>1, FrameStarted
  <2>3. \A q \in Rank, op \in Op, id \in Id :
          InOp(q, op, id)' <=> InOp(q, op, id) \/ (q = p /\ op = f.op /\ id = f.id)
    BY <1>3, <2>2, OpPushed
  <2>4. Len(stack[p]) = 0
    BY <1>3, <1>5, StackTyped
  <2>5. Kept(p, 0) /\ Len(stack'[p]) = 1 /\ stack'[p][1] = f
    BY <2>2, <2>4
  <2> QED
    BY <2>3, <2>4, <2>5, <1>9
<1>11. /\ \A q \in Rank, x \in Edge : /\ InOp(q, "LINK", x)' <=> InOp(q, "LINK", x)
                                      /\ InOp(q, "UNLINK", x)' <=> InOp(q, "UNLINK", x)
       /\ \A q \in Rank, x \in Node :
            /\ InOp(q, "REMOVE_NODE", x)' <=>
                 InOp(q, "REMOVE_NODE", x) \/ (q = p /\ h # p /\ x = n)
            /\ InOp(q, "REMOVE_LOCAL", x)' <=>
                 InOp(q, "REMOVE_LOCAL", x) \/ (q = p /\ h = p /\ x = n)
  <2>1. CASE h = p
    BY <2>1, <1>9, <1>10 DEF Op, Id
  <2>2. CASE h # p
    BY <2>2, <1>9, <1>10 DEF Op, Id
  <2> QED
    BY <2>1, <2>2
<1>12. PICK m : /\ m = [from |-> p, to |-> h, tag |-> "REMOVE_NODE", id |-> n]
                /\ m.from = p /\ m.to = h /\ m.tag = "REMOVE_NODE" /\ m.id = n
                /\ sent' = IF h = p THEN sent ELSE sent \cup {m}
  <2>1. Posts(p, "REMOVE_NODE", n, {h}) = {[from |-> p, to |-> h, tag |-> "REMOVE_NODE", id |-> n]}
    BY DEF Posts
  <2>2. sent' = IF h = p THEN sent
                ELSE sent \cup {[from |-> p, to |-> h, tag |-> "REMOVE_NODE", id |-> n]}
    BY <2>1, <1>1, <1>6
  <2> QED
    BY <2>2
<1>13. /\ \A q \in Rank, x \in Edge : /\ Sent(q, "LINK", x)' <=> Sent(q, "LINK", x)
                                      /\ Sent(q, "UNLINK", x)' <=> Sent(q, "UNLINK", x)
       /\ \A q \in Rank, x \in Node : Sent(q, "REMOVE_NODE", x)' <=>
            Sent(q, "REMOVE_NODE", x) \/ (q = h /\ h # p /\ x = n)
  <2>1. CASE h = p
    BY <2>1, <1>12 DEF Sent
  <2>2. CASE h # p
    <3>1. \A r : r \in sent' <=> r \in sent \/ r = m
      BY <2>2, <1>12
    <3> QED
      BY <2>2, <3>1, <1>12 DEF Sent
  <2> QED
    BY <2>1, <2>2
<1>14. /\ \A q \in Rank, x \in Node : Removes(q, x)' <=> Removes(q, x) \/ (q = h /\ x = n)
       /\ \A q \in Rank, x \in Node : Registered(q, x)' <=> Registered(q, x)
  BY <1>2, <1>11, <1>13 DEF Removes, Registered
<1>15. Types'
  <2>1. stack' \in [Rank -> Seq(FrameSet)]
    BY <1>10 DEF Kept
  <2>2. \A q \in Rank : \A i \in DOMAIN stack'[q] : stack'[q][i] \in FrameSet
    BY <2>1, LenProperties, ElementOfSeq
  <2>3. m \in Request
    BY <1>7, <1>12 DEF Request
  <2>4. sent' \subseteq Request
    BY <2>3, <1>12, <1>3 DEF Types, TypeOK
  <2>5. live' \subseteq Node /\ linked' \subseteq Edge
    BY <1>1, <1>3, Sets
  <2> QED
    BY <1>2, <1>3, <1>5, <2>1, <2>2, <2>4, <2>5 DEF Types, TypeOK, FrameSet
<1>16. StackShape'
  <2>1. ASSUME NEW q \in Rank, NEW x \in Edge, InOp(q, "UNLINK", x), NEW y \in Ends(x), Removes(q, y)'
        PROVE Removes(q, y)
    BY <2>1, <1>8, <1>14, EndsAreNodes
  <2>2. \A i \in 0 + 1 .. Len(stack'[p]) : stack'[p][i].op # "UNLINK" /\ i = 1
    BY <1>9, <1>10
  <2> QED
    BY <1>3, <1>10, <2>1, <2>2, ShapeKept
<1>17. OpsHosted'
  <2>1. \A q \in Rank, x \in Edge : InOp(q, "LINK", x)' =>
          x \in linked' /\ pc'[q] = "working" /\ \A y \in Ends(x) : y \in nodes'[q]
    BY <1>1, <1>2, <1>3, <1>8, <1>11 DEF OpsHosted
  <2>2. \A q \in Rank, x \in Edge : InOp(q, "UNLINK", x)' =>
          x \notin linked' /\ q \in Hosts(x) /\ x \in edges'[q]
    BY <1>1, <1>2, <1>3, <1>11 DEF OpsHosted
  <2>3. \A q \in Rank, x \in Node : InOp(q, "REMOVE_NODE", x)' =>
          x \notin live' /\ q # Host[x] /\ ~Registered(q, x)'
    BY <1>1, <1>3, <1>6, <1>7, <1>11, <1>14 DEF OpsHosted
  <2>4. \A q \in Rank, x \in Node : InOp(q, "REMOVE_LOCAL", x)' =>
          x \notin live' /\ q = Host[x] /\ ~Registered(q, x)'
    BY <1>1, <1>3, <1>6, <1>7, <1>11, <1>14 DEF OpsHosted
  <2> QED
    BY <2>1, <2>2, <2>3, <2>4 DEF OpsHosted
<1>18. RequestsAwaited'
  <2>1. SUFFICES ASSUME NEW r \in sent'
                 PROVE /\ r.tag = "LINK" => /\ r.id \in Edge /\ r.to \in Hosts(r.id) \ {r.from}
                                            /\ InOp(r.from, "LINK", r.id)'
                       /\ r.tag = "UNLINK" => /\ r.id \in Edge /\ r.to \in Hosts(r.id) \ {r.from}
                                              /\ InOp(r.from, "UNLINK", r.id)'
                       /\ r.tag = "REMOVE_NODE" =>
                            /\ r.id \in Node /\ r.to = Host[r.id] /\ r.id \notin live'
                            /\ ~InOp(r.to, "REMOVE_LOCAL", r.id)' /\ ~Registered(r.to, r.id)'
                            /\ \A s \in sent' : s.tag = "REMOVE_NODE" /\ s.id = r.id => s = r
    BY DEF RequestsAwaited
  <2>2. \A s \in sent' : s \in sent \/ (s = m /\ h # p)
    BY <1>12
  <2>3. \A s \in sent : s.tag = "REMOVE_NODE" => s.id # n
    BY <1>1, <1>3 DEF RequestsAwaited
  <2>4. CASE r \in sent
    <3>1. r.from \in Rank /\ r.to \in Rank
      BY <2>4, <1>3, Sets
    <3>2. r.tag = "LINK" => r.id \in Edge /\ r.to \in Hosts(r.id) \ {r.from} /\ InOp(r.from, "LINK", r.id)'
      BY <2>4, <3>1, <1>3, <1>11 DEF RequestsAwaited
    <3>3. r.tag = "UNLINK" => r.id \in Edge /\ r.to \in Hosts(r.id) \ {r.from} /\ InOp(r.from, "UNLINK", r.id)'
      BY <2>4, <3>1, <1>3, <1>11 DEF RequestsAwaited
    <3>4. ASSUME r.tag = "REMOVE_NODE"
          PROVE /\ r.id \in Node /\ r.to = Host[r.id] /\ r.id \notin live'
                /\ ~InOp(r.to, "REMOVE_LOCAL", r.id)' /\ ~Registered(r.to, r.id)'
                /\ \A s \in sent' : s.tag = "REMOVE_NODE" /\ s.id = r.id => s = r
      BY <2>2, <2>3, <2>4, <3>1, <3>4, <1>1, <1>3, <1>11, <1>12, <1>14 DEF RequestsAwaited
    <3> QED
      BY <3>2, <3>3, <3>4
  <2>5. CASE r = m /\ h # p
    BY <2>2, <2>3, <2>5, <1>1, <1>6, <1>7, <1>11, <1>12, <1>14 DEF Removes
  <2> QED
    BY <2>2, <2>4, <2>5
<1>19. RegisteredOnce' /\ LinkedLive'
  BY <1>1, <1>2, <1>3 DEF RegisteredOnce, LinkedLive
<1>20. FreshEdges' /\ EdgesHosted'
  BY <1>1, <1>2, <1>3, <1>11, Sets DEF FreshEdges, EdgesHosted
<1>21. LinkedOnHosts'
  BY <1>1, <1>2, <1>3, <1>11, <1>13, Sets DEF LinkedOnHosts
<1>22. Loops'
  <2>1. CASE h = p
    <3>1. /\ Kept(p, Len(stack[p])) /\ Len(stack'[p]) = Len(stack[p]) + 1
          /\ stack'[p][Len(stack[p]) + 1] = RemoveLocal(p, n)
      BY <2>1, <1>9, <1>10
    <3> QED
      BY <2>1, <3>1, <1>2, <1>3, <1>7, <1>8, LoopsStarted
  <2>2. CASE h # p
    <3>1. \A q \in Rank, x \in Node, e \in Edge : ToUnlink(q, x, e) => ToUnlink(q, x, e)'
      BY <1>3, <1>10, ToUnlinkKept
    <3>2. \A q \in Rank, x \in Node, e \in Edge :
            InOp(q, "REMOVE_LOCAL", x)' /\ e \in edges'[q] /\ x \in Ends(e) =>
              InOp(q, "UNLINK", e)' \/ ToUnlink(q, x, e)'
      BY <2>2, <3>1, <1>2, <1>3, <1>11, Sets DEF Loops
    <3>3. \A q \in Rank : \A i \in 1 .. Len(stack[q]) :
            stack[q][i].op = "REMOVE_LOCAL" /\ (q = p => i <= 0) =>
              \A e \in stack[q][i].todo : e \in edges'[q] /\ ~InOp(q, "UNLINK", e)'
      BY <1>2, <1>3, <1>11, StackTyped, FrameParts DEF Loops
    <3>4. \A i \in 0 + 1 .. Len(stack'[p]) : stack'[p][i].op # "REMOVE_LOCAL"
      BY <2>2, <1>9, <1>10
    <3>5. edges' \in [Rank -> SUBSET Edge]
      BY <1>15 DEF Types, TypeOK
    <3> QED
      BY <1>3, <1>10, <3>2, <3>3, <3>4, <3>5, LoopsKept
  <2> QED
    BY <2>1, <2>2
<1>23. RemovedApart'
  BY <1>2, <1>3, <1>8, <1>14, Sets, EndsAreNodes DEF RemovedApart
<1>24. UnlinkedErased'
  <2>1. SUFFICES ASSUME NEW q \in Rank, NEW x \in edges[q], q \in Hosts(x), x \notin linked'
                 PROVE \/ InOp(q, "UNLINK", x)' \/ Sent(q, "UNLINK", x)'
                       \/ \E y \in Ends(x) : Removes(q, y)'
                       \/ \E r \in Rank \ {q} : /\ x \in edges[r] /\ ~InOp(r, "UNLINK", x)'
                                                /\ \E y \in Ends(x) : Removes(r, y)'
    BY <1>2 DEF UnlinkedErased
  <2>2. x \in Edge /\ \A y \in Ends(x) : y \in Node /\ Host[y] \in Hosts(x)
    BY <2>1, <1>3, Sets, EndsAreNodes
  <2>3. CASE x \notin linked
    <3>1. \/ InOp(q, "UNLINK", x) \/ Sent(q, "UNLINK", x)
          \/ \E y \in Ends(x) : Removes(q, y)
          \/ \E r \in Rank \ {q} : /\ x \in edges[r] /\ ~InOp(r, "UNLINK", x)
                                   /\ \E y \in Ends(x) : Removes(r, y)
      BY <2>1, <2>3, <1>3 DEF UnlinkedErased
    <3> QED
      BY <3>1, <2>2, <1>11, <1>13, <1>14
  <2>4. CASE x \in linked
    <3>1. n \in Ends(x)
      BY <2>1, <2>4, <1>1
    <3>2. h \in Hosts(x) /\ x \in edges[h]
      BY <2>2, <2>4, <3>1, <1>3, <1>6, <1>8 DEF LinkedOnHosts
    <3>3. ~InOp(h, "UNLINK", x)' /\ Removes(h, n)'
      BY <2>2, <3>1, <1>7, <1>8, <1>11, <1>14
    <3> QED
      BY <3>1, <3>2, <3>3
  <2> QED
    BY <2>3, <2>4
<1>25. NodesKept'
  <2>1. \A r \in sent' : r.tag = "REMOVE_NODE" => r.id \in nodes[r.to]
    BY <1>3, <1>7, <1>12 DEF NodesKept
  <2>2. \A q \in Rank : \A x \in nodes[q] :
          q = Host[x] => x \in live' \/ Removes(q, x)' \/ Registered(q, x)'
    <3>1. SUFFICES ASSUME NEW q \in Rank, NEW x \in nodes[q], q = Host[x]
                   PROVE x \in live' \/ Removes(q, x)' \/ Registered(q, x)'
      OBVIOUS
    <3>2. x \in Node /\ (x \in live \/ Removes(q, x) \/ Registered(q, x))
      BY <3>1, <1>3, Sets DEF NodesKept
    <3> QED
      BY <3>1, <3>2, <1>1, <1>6, <1>14
  <2> QED
    BY <2>1, <2>2, <1>1, <1>2, <1>3 DEF NodesKept
<1> QED
  BY <1>2, <1>3, <1>5, <1>15, <1>16, <1>17, <1>18, <1>19, <1>20, <1>21, <1>22, <1>23,
     <1>24, <1>25 DEF IInv, OpsInv, GraphInv, NoFailure

-----------------------------------------------------------------------------
(* The operations go on *)

\* The last operation returns.
LEMMA Returns ==
  ASSUME Types, StackShape, NEW p \in Rank, stack[p] # <<>>,
         NEW o, NEW x, o = Top(p).op, x = Top(p).id,
         stack' = [stack EXCEPT ![p] = Below(p)]
  PROVE \E k \in Nat :
          /\ k = Len(stack[p]) - 1 /\ Kept(p, k) /\ Len(stack'[p]) = k
          /\ stack' \in [Rank -> Seq(FrameSet)]
          /\ \A q \in Rank : \A i \in DOMAIN stack'[q] : stack'[q][i] \in FrameSet
          /\ \A q \in Rank, op \in Op, id \in Id : InOp(q, op, id)' <=>
               InOp(q, op, id) /\ ~(q = p /\ op = o /\ id = x)
          /\ (\A q \in Rank, e \in Edge : InOp(q, "UNLINK", e) =>
                \A n \in Ends(e) : Removes(q, n)' => Removes(q, n)) => StackShape'
<1>1. Len(stack[p]) - 1 \in Nat
  BY BelowParts
<1>2. Kept(p, Len(stack[p]) - 1) /\ Len(stack'[p]) = Len(stack[p]) - 1
  BY FramePopped
<1>3. stack' \in [Rank -> Seq(FrameSet)]
  BY <1>2 DEF Kept
<1>4. \A q \in Rank : \A i \in DOMAIN stack'[q] : stack'[q][i] \in FrameSet
  BY <1>3, LenProperties, ElementOfSeq
<1>5. ASSUME \A q \in Rank, e \in Edge : InOp(q, "UNLINK", e) =>
               \A n \in Ends(e) : Removes(q, n)' => Removes(q, n)
      PROVE StackShape'
  <2>1. \A i \in (Len(stack[p]) - 1) + 1 .. Len(stack'[p]) : FALSE
    BY <1>1, <1>2
  <2> QED
    BY <1>1, <1>2, <1>5, <2>1, ShapeKept
<1>6. \A q \in Rank, op \in Op, id \in Id : InOp(q, op, id)' <=>
        InOp(q, op, id) /\ ~(q = p /\ op = o /\ id = x)
  BY <1>2, OpPopped
<1> QED
  BY <1>1, <1>2, <1>3, <1>4, <1>5, <1>6

\* A period in which an operation runs has started.
LEMMA Busy ==
  ASSUME Unchanged, left' = left, NEW p \in Rank, stack[p] # <<>>
  PROVE Unchanged'
BY DEF Unchanged

\* link() returns.
LEMMA EndLinkStep ==
  ASSUME IInv, NEW p \in Rank, EndLink(p), Allow = {}
  PROVE IInv'
<1>1. PICK e : /\ e = Top(p).id
               /\ ~failed /\ stack[p] # <<>> /\ Top(p).op = "LINK"
               /\ \A m \in sent : ~(m.from = p /\ m.tag = "LINK" /\ m.id = e)
               /\ edges' = [edges EXCEPT ![p] = @ \cup {e}]
               /\ ghostEdges' = IF IsGhost(p, e)
                                  THEN [ghostEdges EXCEPT ![p] = @ \cup {e}] ELSE ghostEdges
               /\ stack' = [stack EXCEPT ![p] = Below(p)]
  BY DEF EndLink, Runs
<1>2. UNCHANGED <<pc, left, sent, nodes, toRemove, failed, fresh, live, linked>>
  BY DEF EndLink, idealVars
<1>3. /\ Types /\ StackShape /\ OpsHosted /\ RequestsAwaited /\ RegisteredOnce /\ FreshEdges
      /\ LinkedLive /\ EdgesHosted /\ LinkedOnHosts /\ Loops /\ RemovedApart
      /\ UnlinkedErased /\ NodesKept /\ Unchanged /\ NoFailure
  BY Parts
<1>4. PICK k \in Nat :
        /\ k = Len(stack[p]) - 1 /\ Kept(p, k) /\ Len(stack'[p]) = k
        /\ stack' \in [Rank -> Seq(FrameSet)]
        /\ \A q \in Rank : \A i \in DOMAIN stack'[q] : stack'[q][i] \in FrameSet
        /\ \A q \in Rank, op \in Op, id \in Id : InOp(q, op, id)' <=>
             InOp(q, op, id) /\ ~(q = p /\ op = "LINK" /\ id = e)
        /\ (\A q \in Rank, x \in Edge : InOp(q, "UNLINK", x) =>
              \A n \in Ends(x) : Removes(q, n)' => Removes(q, n)) => StackShape'
  BY <1>1, <1>3, Returns
<1>5. /\ e \in Edge /\ InOp(p, "LINK", e)
  BY <1>1, <1>3, BelowParts, FrameParts, TopInOp
<1>6. /\ e \in linked /\ pc[p] = "working" /\ \A n \in Ends(e) : n \in Node /\ n \in nodes[p]
      /\ \A q \in Rank : \A n \in Ends(e) : ~Removes(q, n)
  BY <1>3, <1>5, LinkedNotRemoved, EndsAreNodes DEF OpsHosted
<1>7. /\ \A q \in Rank, x \in Edge :
           /\ InOp(q, "LINK", x)' <=> InOp(q, "LINK", x) /\ ~(q = p /\ x = e)
           /\ InOp(q, "UNLINK", x)' <=> InOp(q, "UNLINK", x)
      /\ \A q \in Rank, n \in Node :
           /\ InOp(q, "REMOVE_NODE", n)' <=> InOp(q, "REMOVE_NODE", n)
           /\ InOp(q, "REMOVE_LOCAL", n)' <=> InOp(q, "REMOVE_LOCAL", n)
  BY <1>4 DEF Op, Id
<1>8. /\ edges' \in [Rank -> SUBSET Edge]
      /\ \A q \in Rank, x \in Edge : x \in edges'[q] <=> x \in edges[q] \/ (q = p /\ x = e)
  BY <1>1, <1>3, <1>5 DEF Types, TypeOK
<1>9. /\ ghostEdges' \in [Rank -> SUBSET Edge]
      /\ \A q \in Rank, x \in Edge : x \in ghostEdges'[q] <=>
           x \in ghostEdges[q] \/ (q = p /\ x = e /\ p \notin Hosts(e))
  <2>1. ghostEdges \in [Rank -> SUBSET Edge]
    BY <1>3 DEF Types, TypeOK
  <2>2. CASE IsGhost(p, e)
    BY <2>1, <2>2, <1>1, <1>5 DEF IsGhost
  <2>3. CASE ~IsGhost(p, e)
    BY <2>1, <2>3, <1>1, <1>5 DEF IsGhost
  <2> QED
    BY <2>2, <2>3
<1>10. /\ \A q \in Rank, x \in Edge : /\ Sent(q, "LINK", x)' <=> Sent(q, "LINK", x)
                                      /\ Sent(q, "UNLINK", x)' <=> Sent(q, "UNLINK", x)
       /\ \A q \in Rank, n \in Node : Removes(q, n)' <=> Removes(q, n)
       /\ \A q \in Rank, n \in Node : Registered(q, n)' <=> Registered(q, n)
  BY <1>2, <1>7 DEF Sent, Removes, Registered
<1>11. Types'
  BY <1>2, <1>3, <1>4, <1>8, <1>9 DEF Types, TypeOK, FrameSet
<1>12. StackShape'
  BY <1>4, <1>10, EndsAreNodes
<1>13. OpsHosted'
  BY <1>2, <1>3, <1>7, <1>8, <1>10 DEF OpsHosted
<1>14. RequestsAwaited'
  <2>1. \A m \in sent : m.tag = "LINK" => InOp(m.from, "LINK", m.id)'
    BY <1>1, <1>3, <1>7, Sets DEF RequestsAwaited
  <2> QED
    BY <2>1, <1>2, <1>3, <1>7, <1>10, Sets DEF RequestsAwaited
<1>15. RegisteredOnce' /\ LinkedLive'
  BY <1>2, <1>3 DEF RegisteredOnce, LinkedLive
<1>16. FreshEdges'
  BY <1>2, <1>3, <1>6, <1>7, <1>8, Sets DEF FreshEdges
<1>17. EdgesHosted'
  <2>1. \A q \in Rank : \A x \in edges'[q] : q \in Hosts(x) \/ x \in ghostEdges'[q]
    BY <1>3, <1>5, <1>8, <1>9 DEF EdgesHosted
  <2>2. \A q \in Rank : \A x \in ghostEdges'[q] : x \in edges'[q] /\ q \notin Hosts(x)
    BY <1>3, <1>5, <1>8, <1>9 DEF EdgesHosted
  <2>3. \A q \in Rank : pc'[q] = "terminating" => ghostEdges'[q] = {}
    BY <1>1, <1>2, <1>3, <1>6 DEF EdgesHosted, Types, TypeOK
  <2> QED
    BY <2>1, <2>2, <2>3 DEF EdgesHosted
<1>18. LinkedOnHosts'
  BY <1>2, <1>3, <1>7, <1>8, <1>10, Sets DEF LinkedOnHosts
<1>19. Loops'
  <2>1. \A i \in k + 1 .. Len(stack[p]) : stack[p][i].op # "REMOVE_LOCAL"
    BY <1>1, <1>3, <1>4, BelowParts
  <2>2. \A q \in Rank, n \in Node, x \in Edge : ToUnlink(q, n, x) => ToUnlink(q, n, x)'
    BY <1>3, <1>4, <2>1, ToUnlinkKept
  <2>3. \A q \in Rank, n \in Node, x \in Edge :
          InOp(q, "REMOVE_LOCAL", n)' /\ x \in edges'[q] /\ n \in Ends(x) =>
            InOp(q, "UNLINK", x)' \/ ToUnlink(q, n, x)'
    BY <2>2, <1>3, <1>6, <1>7, <1>8 DEF Loops, Removes
  <2>4. \A q \in Rank : \A i \in 1 .. Len(stack[q]) :
          stack[q][i].op = "REMOVE_LOCAL" /\ (q = p => i <= k) =>
            \A x \in stack[q][i].todo : x \in edges'[q] /\ ~InOp(q, "UNLINK", x)'
    BY <1>3, <1>7, <1>8, StackTyped, FrameParts DEF Loops
  <2>5. \A i \in k + 1 .. Len(stack'[p]) : FALSE
    BY <1>4
  <2> QED
    BY <1>3, <1>4, <1>8, <2>3, <2>4, <2>5, LoopsKept
<1>20. RemovedApart'
  BY <1>3, <1>6, <1>8, <1>10, EndsAreNodes DEF RemovedApart
<1>21. UnlinkedErased'
  BY <1>2, <1>3, <1>6, <1>7, <1>8, <1>10, EndsAreNodes DEF UnlinkedErased
<1>22. NodesKept'
  BY <1>2, <1>3, <1>6, <1>8, <1>10, Sets DEF NodesKept
<1>23. Unchanged'
  BY <1>1, <1>2, <1>3, Busy
<1> QED
  BY <1>2, <1>3, <1>11, <1>12, <1>13, <1>14, <1>15, <1>16, <1>17, <1>18, <1>19, <1>20, <1>21,
     <1>22, <1>23 DEF IInv, OpsInv, GraphInv, NoFailure

\* unlink() returns: the edge is still there.
LEMMA EndUnlinkStep ==
  ASSUME IInv, NEW p \in Rank, EndUnlink(p), Allow = {}
  PROVE IInv'
<1>1. PICK e : /\ e = Top(p).id
               /\ ~failed /\ stack[p] # <<>> /\ Top(p).op = "UNLINK"
               /\ \A m \in sent : ~(m.from = p /\ m.tag = "UNLINK" /\ m.id = e)
               /\ edges' = [edges EXCEPT ![p] = @ \ {e}]
               /\ failed' = (e \notin edges[p])
               /\ stack' = [stack EXCEPT ![p] = Below(p)]
  BY DEF EndUnlink, Runs, Erase
<1>2. UNCHANGED <<pc, left, sent, nodes, ghostEdges, toRemove, fresh, live, linked>>
  BY DEF EndUnlink, linkerVars, idealVars
<1>3. /\ Types /\ StackShape /\ OpsHosted /\ RequestsAwaited /\ RegisteredOnce /\ FreshEdges
      /\ LinkedLive /\ EdgesHosted /\ LinkedOnHosts /\ Loops /\ RemovedApart
      /\ UnlinkedErased /\ NodesKept /\ Unchanged /\ NoFailure
  BY Parts
<1>4. PICK k \in Nat :
        /\ k = Len(stack[p]) - 1 /\ Kept(p, k) /\ Len(stack'[p]) = k
        /\ stack' \in [Rank -> Seq(FrameSet)]
        /\ \A q \in Rank : \A i \in DOMAIN stack'[q] : stack'[q][i] \in FrameSet
        /\ \A q \in Rank, op \in Op, id \in Id : InOp(q, op, id)' <=>
             InOp(q, op, id) /\ ~(q = p /\ op = "UNLINK" /\ id = e)
        /\ (\A q \in Rank, x \in Edge : InOp(q, "UNLINK", x) =>
              \A n \in Ends(x) : Removes(q, n)' => Removes(q, n)) => StackShape'
  BY <1>1, <1>3, Returns
<1>5. /\ e \in Edge /\ InOp(p, "UNLINK", e)
      /\ e \notin linked /\ p \in Hosts(e) /\ e \in edges[p]
  <2>1. e \in Edge /\ InOp(p, "UNLINK", e)
    BY <1>1, <1>3, BelowParts, FrameParts, TopInOp
  <2> QED
    BY <2>1, <1>3 DEF OpsHosted
<1>6. /\ \A q \in Rank, x \in Edge :
           /\ InOp(q, "LINK", x)' <=> InOp(q, "LINK", x)
           /\ InOp(q, "UNLINK", x)' <=> InOp(q, "UNLINK", x) /\ ~(q = p /\ x = e)
      /\ \A q \in Rank, n \in Node :
           /\ InOp(q, "REMOVE_NODE", n)' <=> InOp(q, "REMOVE_NODE", n)
           /\ InOp(q, "REMOVE_LOCAL", n)' <=> InOp(q, "REMOVE_LOCAL", n)
  BY <1>4 DEF Op, Id
<1>7. /\ edges' \in [Rank -> SUBSET Edge]
      /\ \A q \in Rank, x \in Edge : x \in edges'[q] <=> x \in edges[q] /\ ~(q = p /\ x = e)
  BY <1>1, <1>3, <1>5 DEF Types, TypeOK
<1>8. /\ \A q \in Rank, x \in Edge : /\ Sent(q, "LINK", x)' <=> Sent(q, "LINK", x)
                                     /\ Sent(q, "UNLINK", x)' <=> Sent(q, "UNLINK", x)
      /\ \A q \in Rank, n \in Node : Removes(q, n)' <=> Removes(q, n)
      /\ \A q \in Rank, n \in Node : Registered(q, n)' <=> Registered(q, n)
  BY <1>2, <1>6 DEF Sent, Removes, Registered
<1>9. Types' /\ NoFailure'
  <2>1. failed' = FALSE
    BY <1>1, <1>5
  <2> QED
    BY <2>1, <1>2, <1>3, <1>4, <1>7 DEF Types, TypeOK, FrameSet, NoFailure
<1>10. StackShape'
  BY <1>4, <1>8, EndsAreNodes
<1>11. OpsHosted'
  BY <1>2, <1>3, <1>6, <1>7, <1>8 DEF OpsHosted
<1>12. RequestsAwaited'
  <2>1. \A m \in sent : m.tag = "UNLINK" => InOp(m.from, "UNLINK", m.id)'
    BY <1>1, <1>3, <1>6, Sets DEF RequestsAwaited
  <2> QED
    BY <2>1, <1>2, <1>3, <1>6, <1>8, Sets DEF RequestsAwaited
<1>13. RegisteredOnce' /\ LinkedLive'
  BY <1>2, <1>3 DEF RegisteredOnce, LinkedLive
<1>14. FreshEdges'
  BY <1>2, <1>3, <1>6, <1>7, Sets DEF FreshEdges
<1>15. EdgesHosted'
  BY <1>2, <1>3, <1>5, <1>7, Sets DEF EdgesHosted
<1>16. LinkedOnHosts'
  BY <1>2, <1>3, <1>5, <1>6, <1>7, <1>8, Sets DEF LinkedOnHosts
<1>17. Loops'
  <2>1. \A i \in k + 1 .. Len(stack[p]) : stack[p][i].op # "REMOVE_LOCAL"
    BY <1>1, <1>3, <1>4, BelowParts
  <2>2. \A q \in Rank, n \in Node, x \in Edge : ToUnlink(q, n, x) => ToUnlink(q, n, x)'
    BY <1>3, <1>4, <2>1, ToUnlinkKept
  <2>3. \A q \in Rank, n \in Node, x \in Edge :
          InOp(q, "REMOVE_LOCAL", n)' /\ x \in edges'[q] /\ n \in Ends(x) =>
            InOp(q, "UNLINK", x)' \/ ToUnlink(q, n, x)'
    BY <2>2, <1>3, <1>6, <1>7 DEF Loops
  <2>4. \A q \in Rank : \A i \in 1 .. Len(stack[q]) :
          stack[q][i].op = "REMOVE_LOCAL" /\ (q = p => i <= k) =>
            \A x \in stack[q][i].todo : x \in edges'[q] /\ ~InOp(q, "UNLINK", x)'
    BY <1>3, <1>5, <1>6, <1>7, StackTyped, FrameParts DEF Loops
  <2>5. \A i \in k + 1 .. Len(stack'[p]) : FALSE
    BY <1>4
  <2> QED
    BY <1>3, <1>4, <1>7, <2>3, <2>4, <2>5, LoopsKept
<1>18. RemovedApart'
  BY <1>3, <1>7, <1>8, EndsAreNodes DEF RemovedApart
<1>19. UnlinkedErased'
  <2>1. SUFFICES ASSUME NEW q \in Rank, NEW x \in edges'[q], q \in Hosts(x), x \notin linked
                 PROVE \/ InOp(q, "UNLINK", x)' \/ Sent(q, "UNLINK", x)'
                       \/ \E n \in Ends(x) : Removes(q, n)'
                       \/ \E r \in Rank \ {q} : /\ x \in edges'[r] /\ ~InOp(r, "UNLINK", x)'
                                                /\ \E n \in Ends(x) : Removes(r, n)'
    BY <1>2 DEF UnlinkedErased
  <2>2. x \in Edge /\ x \in edges[q] /\ ~(q = p /\ x = e) /\ \A n \in Ends(x) : n \in Node
    BY <2>1, <1>7, EndsAreNodes
  <2>3. \/ InOp(q, "UNLINK", x) \/ Sent(q, "UNLINK", x)
        \/ \E n \in Ends(x) : Removes(q, n)
        \/ \E r \in Rank \ {q} : /\ x \in edges[r] /\ ~InOp(r, "UNLINK", x)
                                 /\ \E n \in Ends(x) : Removes(r, n)
    BY <2>1, <2>2, <1>3 DEF UnlinkedErased
  <2> QED
    BY <2>2, <2>3, <1>5, <1>6, <1>7, <1>8
<1>20. NodesKept'
  BY <1>2, <1>3, <1>7, <1>8, Sets DEF NodesKept
<1>21. Unchanged'
  BY <1>1, <1>2, <1>3, Busy
<1> QED
  BY <1>9, <1>10, <1>11, <1>12, <1>13, <1>14, <1>15, <1>16, <1>17, <1>18, <1>19, <1>20, <1>21
     DEF IInv, OpsInv, GraphInv

\* A process registers a node.
LEMMA Registers ==
  ASSUME Types, RegisteredOnce, NEW p \in Rank, NEW n \in Node, n \notin live, live' = live,
         ~Registered(p, n), Register(p, n)
  PROVE /\ RegisteredOnce' /\ toRemove' \in [Rank -> Seq(Node)]
        /\ \A q \in Rank : \A i \in DOMAIN toRemove'[q] : toRemove'[q][i] \in Node
        /\ \A q \in Rank, x \in Node : Registered(q, x)' <=> Registered(q, x) \/ (q = p /\ x = n)
<1>1. toRemove \in [Rank -> Seq(Node)] /\ toRemove' = [toRemove EXCEPT ![p] = Append(@, n)]
  BY DEF Types, Register
<1>2. PICK s \in Seq(Node) : s = toRemove[p]
  BY <1>1
<1>3. /\ Append(s, n) \in Seq(Node) /\ Len(s) \in Nat /\ Len(Append(s, n)) = Len(s) + 1
      /\ \A i \in 1 .. Len(s) : Append(s, n)[i] = s[i]
      /\ Append(s, n)[Len(s) + 1] = n
  BY <1>2, AppendProperties, LenProperties
<1>4. /\ toRemove' \in [Rank -> Seq(Node)] /\ toRemove'[p] = Append(s, n)
      /\ \A q \in Rank \ {p} : toRemove'[q] = toRemove[q]
  BY <1>1, <1>2, <1>3
<1>5. \A q \in Rank : \A i \in DOMAIN toRemove'[q] : toRemove'[q][i] \in Node
  BY <1>4, LenProperties, ElementOfSeq
<1>6. ASSUME NEW q \in Rank, NEW x \in Node
      PROVE Registered(q, x)' <=> Registered(q, x) \/ (q = p /\ x = n)
  <2>1. CASE q # p
    BY <2>1, <1>4 DEF Registered
  <2>2. CASE q = p
    <3>1. Registered(p, x)' => Registered(p, x) \/ x = n
      BY <1>2, <1>3, <1>4 DEF Registered
    <3>2. Registered(p, x) => Registered(p, x)'
      BY <1>2, <1>3, <1>4 DEF Registered
    <3>3. x = n => Registered(p, x)'
      BY <1>3, <1>4 DEF Registered
    <3> QED
      BY <2>2, <3>1, <3>2, <3>3
  <2> QED
    BY <2>1, <2>2
<1>7. RegisteredOnce'
  <2>1. SUFFICES ASSUME NEW q \in Rank, NEW i \in 1 .. Len(toRemove'[q]), NEW j \in 1 .. Len(toRemove'[q])
                 PROVE /\ toRemove'[q][i] \notin live
                       /\ toRemove'[q][i] = toRemove'[q][j] => i = j
    BY DEF RegisteredOnce
  <2>2. CASE q # p
    BY <2>2, <1>4 DEF RegisteredOnce
  <2>3. CASE q = p
    <3>1. \A a, b \in 1 .. Len(s) : s[a] \notin live /\ s[a] # n /\ (s[a] = s[b] => a = b)
      BY <1>2 DEF RegisteredOnce, Registered
    <3> QED
      BY <2>3, <3>1, <1>3, <1>4
  <2> QED
    BY <2>2, <2>3
<1> QED
  BY <1>4, <1>5, <1>6, <1>7

\* removeNode() of a DISTANT node returns: it is registered.
LEMMA EndRemoveNodeStep ==
  ASSUME IInv, NEW p \in Rank, EndRemoveNode(p), Allow = {}
  PROVE IInv'
<1>1. PICK n : /\ n = Top(p).id
               /\ ~failed /\ stack[p] # <<>> /\ Top(p).op = "REMOVE_NODE"
               /\ Register(p, n) /\ stack' = [stack EXCEPT ![p] = Below(p)]
  BY DEF EndRemoveNode, Runs
<1>2. UNCHANGED <<pc, left, sent, nodes, edges, ghostEdges, failed, fresh, live, linked>>
  BY DEF EndRemoveNode, idealVars
<1>3. /\ Types /\ StackShape /\ OpsHosted /\ RequestsAwaited /\ RegisteredOnce /\ FreshEdges
      /\ LinkedLive /\ EdgesHosted /\ LinkedOnHosts /\ Loops /\ RemovedApart
      /\ UnlinkedErased /\ NodesKept /\ Unchanged /\ NoFailure
  BY Parts
<1>4. PICK k \in Nat :
        /\ k = Len(stack[p]) - 1 /\ Kept(p, k) /\ Len(stack'[p]) = k
        /\ stack' \in [Rank -> Seq(FrameSet)]
        /\ \A q \in Rank : \A i \in DOMAIN stack'[q] : stack'[q][i] \in FrameSet
        /\ \A q \in Rank, op \in Op, id \in Id : InOp(q, op, id)' <=>
             InOp(q, op, id) /\ ~(q = p /\ op = "REMOVE_NODE" /\ id = n)
        /\ (\A q \in Rank, x \in Edge : InOp(q, "UNLINK", x) =>
              \A y \in Ends(x) : Removes(q, y)' => Removes(q, y)) => StackShape'
  BY <1>1, <1>3, Returns
<1>5. /\ n \in Node /\ InOp(p, "REMOVE_NODE", n)
      /\ n \notin live /\ p # Host[n] /\ ~Registered(p, n)
  <2>1. n \in Node /\ InOp(p, "REMOVE_NODE", n)
    BY <1>1, <1>3, BelowParts, FrameParts, TopInOp
  <2> QED
    BY <2>1, <1>3 DEF OpsHosted
<1>6. /\ \A q \in Rank, x \in Edge :
           /\ InOp(q, "LINK", x)' <=> InOp(q, "LINK", x)
           /\ InOp(q, "UNLINK", x)' <=> InOp(q, "UNLINK", x)
      /\ \A q \in Rank, x \in Node :
           /\ InOp(q, "REMOVE_NODE", x)' <=> InOp(q, "REMOVE_NODE", x) /\ ~(q = p /\ x = n)
           /\ InOp(q, "REMOVE_LOCAL", x)' <=> InOp(q, "REMOVE_LOCAL", x)
  BY <1>4 DEF Op, Id
<1>7. /\ RegisteredOnce' /\ toRemove' \in [Rank -> Seq(Node)]
      /\ \A q \in Rank : \A i \in DOMAIN toRemove'[q] : toRemove'[q][i] \in Node
      /\ \A q \in Rank, x \in Node : Registered(q, x)' <=> Registered(q, x) \/ (q = p /\ x = n)
  BY <1>1, <1>2, <1>3, <1>5, Registers
<1>8. /\ \A q \in Rank, x \in Edge : /\ Sent(q, "LINK", x)' <=> Sent(q, "LINK", x)
                                     /\ Sent(q, "UNLINK", x)' <=> Sent(q, "UNLINK", x)
      /\ \A q \in Rank, x \in Node : Removes(q, x)' <=> Removes(q, x)
  BY <1>2, <1>6 DEF Sent, Removes
<1>9. Types'
  BY <1>2, <1>3, <1>4, <1>7 DEF Types, TypeOK, FrameSet
<1>10. StackShape'
  BY <1>4, <1>8, EndsAreNodes
<1>11. OpsHosted'
  BY <1>2, <1>3, <1>5, <1>6, <1>7 DEF OpsHosted
<1>12. RequestsAwaited'
  <2>1. \A m \in sent : m.tag = "REMOVE_NODE" => ~Registered(m.to, m.id)'
    BY <1>3, <1>5, <1>7, Sets DEF RequestsAwaited
  <2> QED
    BY <2>1, <1>2, <1>3, <1>6, Sets DEF RequestsAwaited
<1>13. LinkedLive'
  BY <1>2, <1>3 DEF LinkedLive
<1>14. FreshEdges' /\ EdgesHosted'
  BY <1>2, <1>3, <1>6, Sets DEF FreshEdges, EdgesHosted
<1>15. LinkedOnHosts'
  BY <1>2, <1>3, <1>6, <1>8, Sets DEF LinkedOnHosts
<1>16. Loops'
  <2>1. \A i \in k + 1 .. Len(stack[p]) : stack[p][i].op # "REMOVE_LOCAL"
    BY <1>1, <1>3, <1>4, BelowParts
  <2>2. \A q \in Rank, x \in Node, e \in Edge : ToUnlink(q, x, e) => ToUnlink(q, x, e)'
    <3>1. Kept(p, k) /\ Len(stack'[p]) \in Nat /\ Len(stack'[p]) >= k
      BY <1>4
    <3> QED
      BY <1>3, <2>1, <3>1, ToUnlinkKept
  <2>3. \A q \in Rank, x \in Node, e \in Edge :
          InOp(q, "REMOVE_LOCAL", x)' /\ e \in edges'[q] /\ x \in Ends(e) =>
            InOp(q, "UNLINK", e)' \/ ToUnlink(q, x, e)'
    BY <2>2, <1>2, <1>3, <1>6 DEF Loops
  <2>4. \A q \in Rank : \A i \in 1 .. Len(stack[q]) :
          stack[q][i].op = "REMOVE_LOCAL" /\ (q = p => i <= k) =>
            \A e \in stack[q][i].todo : e \in edges'[q] /\ ~InOp(q, "UNLINK", e)'
    BY <1>2, <1>3, <1>6, StackTyped, FrameParts DEF Loops
  <2>5. \A i \in k + 1 .. Len(stack'[p]) : FALSE
    BY <1>4
  <2>6. edges' \in [Rank -> SUBSET Edge]
    BY <1>9 DEF Types, TypeOK
  <2> QED
    BY <1>3, <1>4, <2>3, <2>4, <2>5, <2>6, LoopsKept
<1>17. RemovedApart'
  BY <1>2, <1>3, <1>8, Sets, EndsAreNodes DEF RemovedApart
<1>18. UnlinkedErased'
  BY <1>2, <1>3, <1>6, <1>8, Sets, EndsAreNodes DEF UnlinkedErased
<1>19. NodesKept'
  BY <1>2, <1>3, <1>7, <1>8, Sets DEF NodesKept
<1>20. Unchanged'
  BY <1>1, <1>2, <1>3, Busy
<1> QED
  BY <1>2, <1>3, <1>7, <1>9, <1>10, <1>11, <1>12, <1>13, <1>14, <1>15, <1>16, <1>17, <1>18, <1>19,
     <1>20 DEF IInv, OpsInv, GraphInv, NoFailure

\* The lists of the removals below the last frame stay.
LEMMA ToUnlinkBelow ==
  ASSUME Types, NEW p \in Rank, stack[p] # <<>>, NEW k \in Nat, k = Len(stack[p]) - 1,
         Kept(p, k), Len(stack'[p]) \in Nat, Len(stack'[p]) >= k
  PROVE \A q \in Rank, n \in Node, e \in Edge :
          ToUnlink(q, n, e) /\ ~(q = p /\ n = Top(p).id) => ToUnlink(q, n, e)'
<1>1. SUFFICES ASSUME NEW q \in Rank, NEW n \in Node, NEW e \in Edge, ToUnlink(q, n, e),
                      ~(q = p /\ n = Top(p).id)
               PROVE ToUnlink(q, n, e)'
  OBVIOUS
<1>2. PICK i \in 1 .. Len(stack[q]) :
        /\ stack[q][i].op = "REMOVE_LOCAL" /\ stack[q][i].id = n
        /\ e \in stack[q][i].todo \/ (stack[q][i].loop = "out" /\ Source[e] # n)
  BY <1>1 DEF ToUnlink
<1>3. stack'[q][i] = stack[q][i] /\ i \in 1 .. Len(stack'[q])
  <2>1. CASE q # p
    BY <2>1 DEF Kept
  <2>2. CASE q = p
    <3>1. i # Len(stack[p])
      BY <1>1, <1>2, <2>2, BelowParts
    <3>2. i \in 1 .. k
      BY <1>2, <2>2, <3>1, BelowParts
    <3> QED
      BY <2>2, <3>2 DEF Kept
  <2> QED
    BY <2>1, <2>2
<1> QED
  BY <1>2, <1>3 DEF ToUnlink

\* The edges of a node that its host goes on removing.
LEMMA TopLoop ==
  ASSUME Types, StackShape, OpsHosted, RemovedApart, Loops, NEW p \in Rank, stack[p] # <<>>,
         Top(p).op = "REMOVE_LOCAL", NEW e \in edges[p], Top(p).id \in Ends(e)
  PROVE e \in Top(p).todo \/ (Top(p).loop = "out" /\ Source[e] # Top(p).id)
<1>1. e \in Edge /\ Top(p).id \in Node /\ InOp(p, "REMOVE_LOCAL", Top(p).id)
  BY Sets, BelowParts, FrameParts, TopInOp
<1>2. ToUnlink(p, Top(p).id, e)
  BY <1>1, TopFree DEF Loops
<1>3. PICK i \in 1 .. Len(stack[p]) :
        /\ stack[p][i].op = "REMOVE_LOCAL" /\ stack[p][i].id = Top(p).id
        /\ e \in stack[p][i].todo \/ (stack[p][i].loop = "out" /\ Source[e] # Top(p).id)
  BY <1>2 DEF ToUnlink
<1>4. Len(stack[p]) \in 1 .. Len(stack[p]) /\ Top(p) = stack[p][Len(stack[p])]
  BY BelowParts
<1>5. i = Len(stack[p])
  BY <1>3, <1>4, OpsDistinct
<1> QED
  BY <1>3, <1>4, <1>5

\* removeNode() of a LOCAL node goes on with the incoming edges.
LEMMA EndOutLoopStep ==
  ASSUME IInv, NEW p \in Rank, EndLoop(p), Top(p).loop = "out", Allow = {}
  PROVE IInv'
<1>1. PICK n : /\ n = Top(p).id
               /\ ~failed /\ stack[p] # <<>> /\ Top(p).op = "REMOVE_LOCAL" /\ Top(p).todo = {}
               /\ stack' = [stack EXCEPT ![p] = Append(Below(p),
                    Frame("REMOVE_LOCAL", n, "in", InEdges(p, n)))]
  BY DEF EndLoop, Runs
<1>2. UNCHANGED <<pc, left, sent, nodes, edges, ghostEdges, toRemove, failed, fresh, live, linked>>
  BY DEF EndLoop, idealVars
<1>3. /\ Types /\ StackShape /\ OpsHosted /\ RequestsAwaited /\ RegisteredOnce /\ FreshEdges
      /\ LinkedLive /\ EdgesHosted /\ LinkedOnHosts /\ Loops /\ RemovedApart
      /\ UnlinkedErased /\ NodesKept /\ Unchanged /\ NoFailure
  BY Parts
<1>4. /\ n \in Node /\ InOp(p, "REMOVE_LOCAL", n) /\ n \notin live
      /\ \A e \in Edge : n \in Ends(e) => ~InOp(p, "UNLINK", e)
      /\ \A e \in Edge : InOp(p, "LINK", e) => n \notin Ends(e)
  <2>1. n \in Node /\ InOp(p, "REMOVE_LOCAL", n)
    BY <1>1, <1>3, BelowParts, FrameParts, TopInOp
  <2>2. \A e \in Edge : n \in Ends(e) => ~InOp(p, "UNLINK", e)
    BY <1>1, <1>3, TopFree
  <2> QED
    BY <2>1, <2>2, <1>3 DEF OpsHosted, LinkedLive
<1>5. PICK r \in FrameSet : /\ r = Frame("REMOVE_LOCAL", n, "in", InEdges(p, n))
                            /\ r.op = "REMOVE_LOCAL" /\ r.id = n /\ r.todo = InEdges(p, n)
  <2>1. Frame("REMOVE_LOCAL", n, "in", InEdges(p, n)) \in FrameSet
    BY <1>3, <1>4, LoopEdges, FrameTyped
  <2> QED
    BY <2>1 DEF Frame
<1>6. PICK k \in Nat :
        /\ k = Len(stack[p]) - 1 /\ Kept(p, k) /\ Len(stack'[p]) = k + 1
        /\ stack'[p][k + 1] = r /\ stack' \in [Rank -> Seq(FrameSet)]
  <2>1. stack' = [stack EXCEPT ![p] = Append(Below(p), r)]
    BY <1>1, <1>5
  <2>2. /\ Kept(p, Len(stack[p]) - 1) /\ Len(stack'[p]) = Len(stack[p])
        /\ stack'[p][Len(stack[p])] = r
    BY <2>1, <1>1, <1>3, FrameReplaced
  <2>3. Len(stack[p]) \in Nat \ {0}
    BY <1>1, <1>3, BelowParts
  <2>4. stack' \in [Rank -> Seq(FrameSet)]
    BY <2>2 DEF Kept
  <2> QED
    BY <2>2, <2>3, <2>4
<1>7. \A q \in Rank, op \in Op, id \in Id : InOp(q, op, id)' <=> InOp(q, op, id)
  <2>1. /\ Kept(p, Len(stack[p]) - 1) /\ Len(stack'[p]) = Len(stack[p])
        /\ stack'[p][Len(stack[p])] = r
    BY <1>1, <1>3, <1>6, BelowParts
  <2>2. r.op = Top(p).op /\ r.id = Top(p).id
    BY <1>1, <1>5
  <2> QED
    BY <2>1, <2>2, <1>1, <1>3, OpReplaced
<1>8. /\ \A q \in Rank, x \in Edge : /\ InOp(q, "LINK", x)' <=> InOp(q, "LINK", x)
                                     /\ InOp(q, "UNLINK", x)' <=> InOp(q, "UNLINK", x)
      /\ \A q \in Rank, x \in Node :
           /\ InOp(q, "REMOVE_NODE", x)' <=> InOp(q, "REMOVE_NODE", x)
           /\ InOp(q, "REMOVE_LOCAL", x)' <=> InOp(q, "REMOVE_LOCAL", x)
  BY <1>7 DEF Op, Id
<1>9. /\ \A q \in Rank, x \in Edge : /\ Sent(q, "LINK", x)' <=> Sent(q, "LINK", x)
                                     /\ Sent(q, "UNLINK", x)' <=> Sent(q, "UNLINK", x)
      /\ \A q \in Rank, x \in Node : Removes(q, x)' <=> Removes(q, x)
      /\ \A q \in Rank, x \in Node : Registered(q, x)' <=> Registered(q, x)
  BY <1>2, <1>8 DEF Sent, Removes, Registered
<1>10. Types'
  <2>1. \A q \in Rank : \A i \in DOMAIN stack'[q] : stack'[q][i] \in FrameSet
    BY <1>6, LenProperties, ElementOfSeq
  <2> QED
    BY <2>1, <1>2, <1>3, <1>6 DEF Types, TypeOK, FrameSet
<1>11. StackShape'
  <2>1. \A q \in Rank, x \in Edge : InOp(q, "UNLINK", x) =>
          \A y \in Ends(x) : Removes(q, y)' => Removes(q, y)
    BY <1>9, EndsAreNodes
  <2>2. \A i \in k + 1 .. Len(stack'[p]) :
          i - 1 = k /\ stack'[p][i].op = "REMOVE_LOCAL" /\ stack'[p][i].id = n
    BY <1>5, <1>6
  <2>3. ASSUME NEW j \in 1 .. k, stack'[p][j].op = "REMOVE_LOCAL", stack'[p][j].id = n
        PROVE FALSE
    <3>1. stack'[p][j] = stack[p][j] /\ j \in 1 .. Len(stack[p]) /\ Len(stack[p]) \in 1 .. Len(stack[p])
      BY <2>3, <1>1, <1>3, <1>6, BelowParts DEF Kept
    <3>2. Top(p) = stack[p][Len(stack[p])]
      BY <1>1, <1>3, BelowParts
    <3>3. j = Len(stack[p])
      BY <2>3, <3>1, <3>2, <1>1, <1>3, OpsDistinct
    <3> QED
      BY <2>3, <3>3, <1>6
  <2> QED
    BY <1>3, <1>6, <2>1, <2>2, <2>3, ShapeKept
<1>12. OpsHosted'
  BY <1>2, <1>3, <1>8, <1>9 DEF OpsHosted
<1>13. RequestsAwaited'
  BY <1>2, <1>3, <1>8, <1>9, Sets DEF RequestsAwaited
<1>14. RegisteredOnce' /\ LinkedLive'
  BY <1>2, <1>3 DEF RegisteredOnce, LinkedLive
<1>15. FreshEdges' /\ EdgesHosted'
  BY <1>2, <1>3, <1>8, Sets DEF FreshEdges, EdgesHosted
<1>16. LinkedOnHosts'
  BY <1>2, <1>3, <1>8, <1>9, Sets DEF LinkedOnHosts
<1>17. Loops'
  <2>1. \A q \in Rank, x \in Node, e \in Edge :
          ToUnlink(q, x, e) /\ ~(q = p /\ x = n) => ToUnlink(q, x, e)'
    <3>1. Kept(p, k) /\ Len(stack'[p]) \in Nat /\ Len(stack'[p]) >= k
      BY <1>6
    <3> QED
      BY <1>1, <1>3, <1>6, <3>1, ToUnlinkBelow
  <2>2. ASSUME NEW e \in edges[p], n \in Ends(e) PROVE ToUnlink(p, n, e)'
    <3>1. e \in Edge /\ e \in InEdges(p, n)
      <4>1. Source[e] # n
        BY <2>2, <1>1, <1>3, TopLoop
      <4> QED
        BY <4>1, <2>2, <1>3, <1>4, LoopEdges, Sets DEF Ends
    <3>2. k + 1 \in 1 .. Len(stack'[p])
      BY <1>6
    <3> QED
      BY <3>1, <3>2, <1>5, <1>6 DEF ToUnlink
  <2>3. \A q \in Rank, x \in Node, e \in Edge :
          InOp(q, "REMOVE_LOCAL", x)' /\ e \in edges'[q] /\ x \in Ends(e) =>
            InOp(q, "UNLINK", e)' \/ ToUnlink(q, x, e)'
    BY <2>1, <2>2, <1>2, <1>3, <1>8 DEF Loops
  <2>4. \A q \in Rank : \A i \in 1 .. Len(stack[q]) :
          stack[q][i].op = "REMOVE_LOCAL" /\ (q = p => i <= k) =>
            \A e \in stack[q][i].todo : e \in edges'[q] /\ ~InOp(q, "UNLINK", e)'
    BY <1>2, <1>3, <1>8, StackTyped, FrameParts DEF Loops
  <2>5. \A e \in r.todo : e \in edges'[p] /\ n \in Ends(e) /\ ~InOp(p, "UNLINK", e)'
    BY <1>2, <1>3, <1>4, <1>5, <1>8, LoopEdges DEF Ends
  <2>6. \A i \in k + 1 .. Len(stack'[p]) : stack'[p][i].op = "REMOVE_LOCAL" =>
          \A e \in stack'[p][i].todo :
            e \in edges'[p] /\ stack'[p][i].id \in Ends(e) /\ ~InOp(p, "UNLINK", e)'
    <3>1. \A i \in k + 1 .. Len(stack'[p]) : stack'[p][i] = r
      BY <1>6
    <3> QED
      BY <2>5, <3>1, <1>5
  <2>7. edges' \in [Rank -> SUBSET Edge]
    BY <1>10 DEF Types, TypeOK
  <2> QED
    BY <1>3, <1>6, <2>3, <2>4, <2>6, <2>7, LoopsKept
<1>18. RemovedApart'
  BY <1>2, <1>3, <1>9, Sets, EndsAreNodes DEF RemovedApart
<1>19. UnlinkedErased'
  BY <1>2, <1>3, <1>8, <1>9, Sets, EndsAreNodes DEF UnlinkedErased
<1>20. NodesKept'
  BY <1>2, <1>3, <1>9, Sets DEF NodesKept
<1>21. Unchanged'
  BY <1>1, <1>2, <1>3, Busy
<1> QED
  BY <1>2, <1>3, <1>10, <1>11, <1>12, <1>13, <1>14, <1>15, <1>16, <1>17, <1>18, <1>19, <1>20,
     <1>21 DEF IInv, OpsInv, GraphInv, NoFailure

\* removeNode() of a LOCAL node returns: it has no edge any more, and is registered.
LEMMA EndInLoopStep ==
  ASSUME IInv, NEW p \in Rank, EndLoop(p), Top(p).loop # "out", Allow = {}
  PROVE IInv'
<1>1. PICK n : /\ n = Top(p).id
               /\ ~failed /\ stack[p] # <<>> /\ Top(p).op = "REMOVE_LOCAL" /\ Top(p).todo = {}
               /\ Register(p, n) /\ stack' = [stack EXCEPT ![p] = Below(p)]
  BY DEF EndLoop, Runs
<1>2. UNCHANGED <<pc, left, sent, nodes, edges, ghostEdges, failed, fresh, live, linked>>
  BY DEF EndLoop, idealVars
<1>3. /\ Types /\ StackShape /\ OpsHosted /\ RequestsAwaited /\ RegisteredOnce /\ FreshEdges
      /\ LinkedLive /\ EdgesHosted /\ LinkedOnHosts /\ Loops /\ RemovedApart
      /\ UnlinkedErased /\ NodesKept /\ Unchanged /\ NoFailure
  BY Parts
<1>4. PICK k \in Nat :
        /\ k = Len(stack[p]) - 1 /\ Kept(p, k) /\ Len(stack'[p]) = k
        /\ stack' \in [Rank -> Seq(FrameSet)]
        /\ \A q \in Rank : \A i \in DOMAIN stack'[q] : stack'[q][i] \in FrameSet
        /\ \A q \in Rank, op \in Op, id \in Id : InOp(q, op, id)' <=>
             InOp(q, op, id) /\ ~(q = p /\ op = "REMOVE_LOCAL" /\ id = n)
        /\ (\A q \in Rank, x \in Edge : InOp(q, "UNLINK", x) =>
              \A y \in Ends(x) : Removes(q, y)' => Removes(q, y)) => StackShape'
  <2>1. /\ Types /\ StackShape /\ stack[p] # <<>>
        /\ "REMOVE_LOCAL" = Top(p).op /\ n = Top(p).id
        /\ stack' = [stack EXCEPT ![p] = Below(p)]
    BY <1>1, <1>3
  <2> QED
    BY <2>1, Returns, ZenonT(60)
<1>5. /\ n \in Node /\ InOp(p, "REMOVE_LOCAL", n)
      /\ n \notin live /\ p = Host[n] /\ ~Registered(p, n)
  <2>1. n \in Node /\ InOp(p, "REMOVE_LOCAL", n)
    BY <1>1, <1>3, BelowParts, FrameParts, TopInOp
  <2> QED
    BY <2>1, <1>3 DEF OpsHosted
<1>6. \A e \in edges[p] : n \notin Ends(e)
  BY <1>1, <1>3, TopLoop
<1>7. /\ \A q \in Rank, x \in Edge :
           /\ InOp(q, "LINK", x)' <=> InOp(q, "LINK", x)
           /\ InOp(q, "UNLINK", x)' <=> InOp(q, "UNLINK", x)
      /\ \A q \in Rank, x \in Node :
           /\ InOp(q, "REMOVE_NODE", x)' <=> InOp(q, "REMOVE_NODE", x)
           /\ InOp(q, "REMOVE_LOCAL", x)' <=> InOp(q, "REMOVE_LOCAL", x) /\ ~(q = p /\ x = n)
  BY <1>4 DEF Op, Id
<1>8. /\ RegisteredOnce' /\ toRemove' \in [Rank -> Seq(Node)]
      /\ \A q \in Rank : \A i \in DOMAIN toRemove'[q] : toRemove'[q][i] \in Node
      /\ \A q \in Rank, x \in Node : Registered(q, x)' <=> Registered(q, x) \/ (q = p /\ x = n)
  BY <1>1, <1>2, <1>3, <1>5, Registers
<1>9. /\ \A q \in Rank, x \in Edge : /\ Sent(q, "LINK", x)' <=> Sent(q, "LINK", x)
                                     /\ Sent(q, "UNLINK", x)' <=> Sent(q, "UNLINK", x)
      /\ \A q \in Rank, x \in Node : Removes(q, x)' => Removes(q, x)
      /\ \A q \in Rank, x \in Node : Removes(q, x) => Removes(q, x)' \/ (q = p /\ x = n)
  BY <1>2, <1>7 DEF Sent, Removes
<1>10. Types'
  BY <1>2, <1>3, <1>4, <1>8 DEF Types, TypeOK, FrameSet
<1>11. StackShape'
  BY <1>4, <1>9, EndsAreNodes
<1>12. OpsHosted'
  BY <1>2, <1>3, <1>5, <1>7, <1>8 DEF OpsHosted
<1>13. RequestsAwaited'
  <2>1. \A m \in sent : m.tag = "REMOVE_NODE" => ~Registered(m.to, m.id)'
    BY <1>3, <1>5, <1>8, Sets DEF RequestsAwaited
  <2> QED
    BY <2>1, <1>2, <1>3, <1>7, Sets DEF RequestsAwaited
<1>14. LinkedLive'
  BY <1>2, <1>3 DEF LinkedLive
<1>15. FreshEdges' /\ EdgesHosted'
  BY <1>2, <1>3, <1>7, Sets DEF FreshEdges, EdgesHosted
<1>16. LinkedOnHosts'
  BY <1>2, <1>3, <1>7, <1>9, Sets DEF LinkedOnHosts
<1>17. Loops'
  <2>1. \A q \in Rank, x \in Node, e \in Edge :
          ToUnlink(q, x, e) /\ ~(q = p /\ x = n) => ToUnlink(q, x, e)'
    <3>1. Kept(p, k) /\ Len(stack'[p]) \in Nat /\ Len(stack'[p]) >= k
      BY <1>4
    <3> QED
      BY <1>1, <1>3, <1>4, <3>1, ToUnlinkBelow
  <2>2. \A q \in Rank, x \in Node, e \in Edge :
          InOp(q, "REMOVE_LOCAL", x)' /\ e \in edges'[q] /\ x \in Ends(e) =>
            InOp(q, "UNLINK", e)' \/ ToUnlink(q, x, e)'
    BY <2>1, <1>2, <1>3, <1>7 DEF Loops
  <2>3. \A q \in Rank : \A i \in 1 .. Len(stack[q]) :
          stack[q][i].op = "REMOVE_LOCAL" /\ (q = p => i <= k) =>
            \A e \in stack[q][i].todo : e \in edges'[q] /\ ~InOp(q, "UNLINK", e)'
    BY <1>2, <1>3, <1>7, StackTyped, FrameParts DEF Loops
  <2>4. \A i \in k + 1 .. Len(stack'[p]) : FALSE
    BY <1>4
  <2>5. edges' \in [Rank -> SUBSET Edge]
    BY <1>10 DEF Types, TypeOK
  <2> QED
    BY <1>3, <1>4, <2>2, <2>3, <2>4, <2>5, LoopsKept
<1>18. RemovedApart'
  BY <1>2, <1>3, <1>9, Sets, EndsAreNodes DEF RemovedApart
<1>19. UnlinkedErased'
  BY <1>2, <1>3, <1>6, <1>7, <1>9, Sets, EndsAreNodes DEF UnlinkedErased
<1>20. NodesKept'
  BY <1>2, <1>3, <1>8, <1>9, Sets DEF NodesKept
<1>21. Unchanged'
  BY <1>1, <1>2, <1>3, Busy
<1> QED
  BY <1>2, <1>3, <1>8, <1>10, <1>11, <1>12, <1>13, <1>14, <1>15, <1>16, <1>17, <1>18, <1>19,
     <1>20, <1>21 DEF IInv, OpsInv, GraphInv, NoFailure

\* The next edge of the loop.
LEMMA NextEdge ==
  ASSUME IInv, NEW p \in Rank, stack[p] # <<>>, Top(p).op = "REMOVE_LOCAL",
         NEW n, n = Top(p).id, NEW e \in Top(p).todo
  PROVE /\ n \in Node /\ InOp(p, "REMOVE_LOCAL", n) /\ p = Host[n] /\ n \in Ends(e)
        /\ e \in Edge /\ e \in edges[p] /\ p \in Hosts(e) /\ e \notin linked
        /\ ~InOp(p, "UNLINK", e)
        /\ \A i \in 1 .. Len(stack[p]) - 1 : stack[p][i].op = "REMOVE_LOCAL" =>
             stack[p][i].id # n /\ e \notin stack[p][i].todo
        /\ \E r \in FrameSet :
             /\ r = [Top(p) EXCEPT !.todo = @ \ {e}]
             /\ r.op = "REMOVE_LOCAL" /\ r.id = n /\ r.loop = Top(p).loop
             /\ r.todo = Top(p).todo \ {e}
<1>1. /\ Types /\ StackShape /\ OpsHosted /\ LinkedLive /\ Loops /\ RemovedApart
  BY Parts
<1>2. /\ Len(stack[p]) \in 1 .. Len(stack[p]) /\ Len(stack[p]) \in Nat
      /\ Top(p) = stack[p][Len(stack[p])] /\ Top(p) \in FrameSet
      /\ n \in Node /\ InOp(p, "REMOVE_LOCAL", n)
      /\ Top(p).loop \in {"out", "in"} /\ Top(p).todo \in SUBSET Edge
  BY <1>1, BelowParts, FrameParts, TopInOp
<1>3. n \notin live /\ p = Host[n]
  BY <1>1, <1>2 DEF OpsHosted
<1>4. e \in Edge /\ e \in edges[p] /\ n \in Ends(e) /\ ~InOp(p, "UNLINK", e)
  BY <1>1, <1>2 DEF Loops
<1>5. e \notin linked /\ p \in Hosts(e)
  BY <1>1, <1>3, <1>4, EndsAreNodes DEF LinkedLive
<1>6. ASSUME NEW i \in 1 .. Len(stack[p]) - 1, stack[p][i].op = "REMOVE_LOCAL"
      PROVE stack[p][i].id # n /\ e \notin stack[p][i].todo
  <2>1. i \in 1 .. Len(stack[p]) /\ i # Len(stack[p])
    BY <1>2
  <2>2. stack[p][i].id # n
    BY <1>1, <1>2, <1>6, <2>1, OpsDistinct
  <2>3. ASSUME e \in stack[p][i].todo PROVE FALSE
    <3>1. stack[p][i].id \in Ends(e)
      BY <1>1, <1>6, <2>1, <2>3 DEF Loops
    <3>2. Removes(p, stack[p][i].id) /\ Removes(p, n)
      BY <1>2, <1>6, <2>1 DEF Removes, InOp
    <3> QED
      BY <3>1, <3>2, <2>2, <1>1, <1>4 DEF RemovedApart
  <2> QED
    BY <2>2, <2>3
<1>7. PICK t : t = Top(p)
  OBVIOUS
<1>8. /\ [t EXCEPT !.todo = @ \ {e}] \in FrameSet
      /\ [t EXCEPT !.todo = @ \ {e}].op = "REMOVE_LOCAL" /\ [t EXCEPT !.todo = @ \ {e}].id = n
      /\ [t EXCEPT !.todo = @ \ {e}].loop = t.loop
      /\ [t EXCEPT !.todo = @ \ {e}].todo = t.todo \ {e}
  <2>1. t \in [op: {"REMOVE_LOCAL"}, id: Node, loop: {"out", "in"}, todo: SUBSET Edge]
    BY <1>2, <1>7 DEF FrameSet
  <2> QED
    BY <2>1, <1>7 DEF FrameSet
<1> QED
  BY <1>2, <1>3, <1>4, <1>5, <1>6, <1>7, <1>8

\* The loop of p on the edges of n goes on without e: r replaces the last frame.
GoesOn(p, n, e, k, r) ==
  /\ n = Top(p).id /\ Top(p).op = "REMOVE_LOCAL" /\ e \in Top(p).todo
  /\ k = Len(stack[p]) - 1 /\ Kept(p, k)
  /\ Len(stack'[p]) \in Nat /\ Len(stack'[p]) >= k + 1 /\ stack'[p][k + 1] = r
  /\ r.op = "REMOVE_LOCAL" /\ r.id = n /\ r.loop = Top(p).loop /\ r.todo = Top(p).todo \ {e}

\* The other edges of the node stay in the lists of the loop.
LEMMA LoopRest ==
  ASSUME IInv, NEW p \in Rank, stack[p] # <<>>,
         NEW n, NEW e, NEW k \in Nat, NEW r, GoesOn(p, n, e, k, r)
  PROVE \A q \in Rank, m \in Node, x \in Edge :
          InOp(q, "REMOVE_LOCAL", m) /\ x \in edges[q] /\ m \in Ends(x) /\ ~(q = p /\ x = e) =>
            InOp(q, "UNLINK", x) \/ ToUnlink(q, m, x)'
<1>1. /\ Types /\ StackShape /\ OpsHosted /\ Loops /\ RemovedApart
  BY Parts
<1>2. \A q \in Rank, m \in Node, x \in Edge :
        ToUnlink(q, m, x) /\ ~(q = p /\ m = n) => ToUnlink(q, m, x)'
  <2>1. /\ n = Top(p).id /\ k = Len(stack[p]) - 1 /\ Kept(p, k)
        /\ Len(stack'[p]) \in Nat /\ Len(stack'[p]) >= k
    BY DEF GoesOn
  <2> QED
    BY <1>1, <2>1, ToUnlinkBelow
<1>3. ASSUME NEW x \in edges[p], n \in Ends(x), x # e PROVE ToUnlink(p, n, x)'
  <2>1. x \in r.todo \/ (r.loop = "out" /\ Source[x] # n)
    BY <1>1, <1>3, TopLoop DEF GoesOn
  <2>2. k + 1 \in 1 .. Len(stack'[p])
    BY DEF GoesOn
  <2> QED
    BY <2>1, <2>2 DEF GoesOn, ToUnlink
<1> QED
  BY <1>1, <1>2, <1>3 DEF Loops

\* removeNode() of a LOCAL node erases an edge that is LOCAL, too.
LEMMA EraseNextStep ==
  ASSUME IInv, NEW p \in Rank, UnlinkNext(p), Allow = {},
         NEW e \in Top(p).todo, ~failed, stack[p] # <<>>, Top(p).op = "REMOVE_LOCAL",
         IsLocal(p, e), Erase(p, e), sent' = sent,
         stack' = [stack EXCEPT ![p] = Append(Below(p), [Top(p) EXCEPT !.todo = @ \ {e}])]
  PROVE IInv'
<1>1. PICK n : n = Top(p).id
  OBVIOUS
<1>2. UNCHANGED <<pc, left, nodes, ghostEdges, toRemove, fresh, live, linked>>
  BY DEF UnlinkNext, linkerVars, idealVars
<1>3. /\ Types /\ StackShape /\ OpsHosted /\ RequestsAwaited /\ RegisteredOnce /\ FreshEdges
      /\ LinkedLive /\ EdgesHosted /\ LinkedOnHosts /\ Loops /\ RemovedApart
      /\ UnlinkedErased /\ NodesKept /\ Unchanged /\ NoFailure
  BY Parts
<1>4. /\ n \in Node /\ InOp(p, "REMOVE_LOCAL", n) /\ p = Host[n] /\ n \in Ends(e)
      /\ e \in Edge /\ e \in edges[p] /\ p \in Hosts(e) /\ e \notin linked
      /\ ~InOp(p, "UNLINK", e)
      /\ \A i \in 1 .. Len(stack[p]) - 1 : stack[p][i].op = "REMOVE_LOCAL" =>
           stack[p][i].id # n /\ e \notin stack[p][i].todo
  BY <1>1, NextEdge
<1>5. PICK r \in FrameSet :
        /\ r = [Top(p) EXCEPT !.todo = @ \ {e}]
        /\ r.op = "REMOVE_LOCAL" /\ r.id = n /\ r.loop = Top(p).loop
        /\ r.todo = Top(p).todo \ {e}
  BY <1>1, NextEdge
<1>6. PICK k \in Nat :
        /\ k = Len(stack[p]) - 1 /\ Kept(p, k) /\ Len(stack'[p]) = k + 1
        /\ stack'[p][k + 1] = r /\ stack' \in [Rank -> Seq(FrameSet)]
  <2>1. stack' = [stack EXCEPT ![p] = Append(Below(p), r)]
    BY <1>5
  <2>2. /\ Kept(p, Len(stack[p]) - 1) /\ Len(stack'[p]) = Len(stack[p])
        /\ stack'[p][Len(stack[p])] = r
    BY <2>1, <1>3, FrameReplaced
  <2>3. Len(stack[p]) \in Nat \ {0}
    BY <1>3, BelowParts
  <2>4. stack' \in [Rank -> Seq(FrameSet)]
    BY <2>2 DEF Kept
  <2> QED
    BY <2>2, <2>3, <2>4
<1>7. \A q \in Rank, op \in Op, id \in Id : InOp(q, op, id)' <=> InOp(q, op, id)
  <2>1. /\ Kept(p, Len(stack[p]) - 1) /\ Len(stack'[p]) = Len(stack[p])
        /\ stack'[p][Len(stack[p])] = r
    BY <1>3, <1>6, BelowParts
  <2>2. r.op = Top(p).op /\ r.id = Top(p).id
    BY <1>1, <1>5
  <2> QED
    BY <2>1, <2>2, <1>3, OpReplaced
<1>8. /\ \A q \in Rank, x \in Edge : /\ InOp(q, "LINK", x)' <=> InOp(q, "LINK", x)
                                     /\ InOp(q, "UNLINK", x)' <=> InOp(q, "UNLINK", x)
      /\ \A q \in Rank, x \in Node :
           /\ InOp(q, "REMOVE_NODE", x)' <=> InOp(q, "REMOVE_NODE", x)
           /\ InOp(q, "REMOVE_LOCAL", x)' <=> InOp(q, "REMOVE_LOCAL", x)
  BY <1>7 DEF Op, Id
<1>9. /\ \A q \in Rank, x \in Edge : /\ Sent(q, "LINK", x)' <=> Sent(q, "LINK", x)
                                     /\ Sent(q, "UNLINK", x)' <=> Sent(q, "UNLINK", x)
      /\ \A q \in Rank, x \in Node : Removes(q, x)' <=> Removes(q, x)
      /\ \A q \in Rank, x \in Node : Registered(q, x)' <=> Registered(q, x)
  BY <1>2, <1>8 DEF Sent, Removes, Registered
<1>10. /\ edges' \in [Rank -> SUBSET Edge] /\ failed' = FALSE
       /\ \A q \in Rank, x \in Edge : x \in edges'[q] <=> x \in edges[q] /\ ~(q = p /\ x = e)
  <2>1. edges \in [Rank -> SUBSET Edge] /\ edges' = [edges EXCEPT ![p] = @ \ {e}]
    BY <1>3 DEF Erase, Types, TypeOK
  <2>2. failed' = FALSE
    BY <1>4 DEF Erase
  <2> QED
    BY <2>1, <2>2, <1>4
<1>11. Types' /\ NoFailure'
  <2>1. \A q \in Rank : \A i \in DOMAIN stack'[q] : stack'[q][i] \in FrameSet
    BY <1>6, LenProperties, ElementOfSeq
  <2> QED
    BY <2>1, <1>2, <1>3, <1>6, <1>10 DEF Types, TypeOK, FrameSet, NoFailure
<1>12. StackShape'
  <2>1. \A q \in Rank, x \in Edge : InOp(q, "UNLINK", x) =>
          \A y \in Ends(x) : Removes(q, y)' => Removes(q, y)
    BY <1>9, EndsAreNodes
  <2>2. \A i \in k + 1 .. Len(stack'[p]) :
          i - 1 = k /\ stack'[p][i].op = "REMOVE_LOCAL" /\ stack'[p][i].id = n
    BY <1>5, <1>6
  <2>3. ASSUME NEW j \in 1 .. k, stack'[p][j].op = "REMOVE_LOCAL", stack'[p][j].id = n
        PROVE FALSE
    BY <2>3, <1>4, <1>6 DEF Kept
  <2>4. \A i \in k + 1 .. Len(stack'[p]) :
          /\ stack'[p][i].op \notin {"LINK", "REMOVE_NODE", "UNLINK"}
          /\ \A j \in 1 .. i - 1 :
               ~(stack'[p][j].op = stack'[p][i].op /\ stack'[p][j].id = stack'[p][i].id)
    BY <2>2, <2>3
  <2> QED
    BY <1>3, <1>6, <2>1, <2>4, ShapeKept
<1>13. OpsHosted'
  BY <1>2, <1>3, <1>4, <1>8, <1>9, <1>10 DEF OpsHosted
<1>14. RequestsAwaited'
  BY <1>2, <1>3, <1>8, <1>9, Sets DEF RequestsAwaited
<1>15. RegisteredOnce' /\ LinkedLive'
  BY <1>2, <1>3 DEF RegisteredOnce, LinkedLive
<1>16. FreshEdges'
  BY <1>2, <1>3, <1>8, <1>10, Sets DEF FreshEdges
<1>17. EdgesHosted'
  BY <1>2, <1>3, <1>4, <1>10, Sets DEF EdgesHosted
<1>18. LinkedOnHosts'
  BY <1>2, <1>3, <1>4, <1>8, <1>9, <1>10, Sets DEF LinkedOnHosts
<1>19. Loops'
  <2>1. \A q \in Rank, m \in Node, x \in Edge :
          InOp(q, "REMOVE_LOCAL", m) /\ x \in edges[q] /\ m \in Ends(x) /\ ~(q = p /\ x = e) =>
            InOp(q, "UNLINK", x) \/ ToUnlink(q, m, x)'
    <3>1. GoesOn(p, n, e, k, r)
      BY <1>1, <1>5, <1>6 DEF GoesOn
    <3> QED
      BY <3>1, LoopRest
  <2>2. \A q \in Rank, m \in Node, x \in Edge :
          InOp(q, "REMOVE_LOCAL", m)' /\ x \in edges'[q] /\ m \in Ends(x) =>
            InOp(q, "UNLINK", x)' \/ ToUnlink(q, m, x)'
    BY <2>1, <1>8, <1>10
  <2>3. \A q \in Rank : \A i \in 1 .. Len(stack[q]) :
          stack[q][i].op = "REMOVE_LOCAL" /\ (q = p => i <= k) =>
            \A x \in stack[q][i].todo : x \in edges'[q] /\ ~InOp(q, "UNLINK", x)'
    BY <1>3, <1>4, <1>6, <1>8, <1>10, StackTyped, FrameParts DEF Loops
  <2>4. \A x \in r.todo : x \in edges'[p] /\ n \in Ends(x) /\ ~InOp(p, "UNLINK", x)'
    <3>1. Len(stack[p]) \in 1 .. Len(stack[p]) /\ Top(p) = stack[p][Len(stack[p])]
      BY <1>3, BelowParts
    <3>2. \A x \in Top(p).todo : x \in Edge /\ x \in edges[p] /\ n \in Ends(x) /\ ~InOp(p, "UNLINK", x)
      BY <3>1, <1>1, <1>3, StackTyped, FrameParts DEF Loops
    <3> QED
      BY <3>2, <1>5, <1>8, <1>10
  <2>5. \A i \in k + 1 .. Len(stack'[p]) : stack'[p][i].op = "REMOVE_LOCAL" =>
          \A x \in stack'[p][i].todo :
            x \in edges'[p] /\ stack'[p][i].id \in Ends(x) /\ ~InOp(p, "UNLINK", x)'
    <3>1. \A i \in k + 1 .. Len(stack'[p]) : stack'[p][i] = r
      BY <1>6
    <3> QED
      BY <2>4, <3>1, <1>5
  <2> QED
    BY <1>3, <1>6, <1>10, <2>2, <2>3, <2>5, LoopsKept
<1>20. RemovedApart'
  BY <1>3, <1>9, <1>10, EndsAreNodes DEF RemovedApart
\* No other process has the edge.
<1>21. UnlinkedErased'
  <2>1. SUFFICES ASSUME NEW q \in Rank, NEW x \in edges'[q], q \in Hosts(x), x \notin linked
                 PROVE \/ InOp(q, "UNLINK", x)' \/ Sent(q, "UNLINK", x)'
                       \/ \E y \in Ends(x) : Removes(q, y)'
                       \/ \E s \in Rank \ {q} : /\ x \in edges'[s] /\ ~InOp(s, "UNLINK", x)'
                                                /\ \E y \in Ends(x) : Removes(s, y)'
    BY <1>2 DEF UnlinkedErased
  <2>2. x \in Edge /\ x \in edges[q] /\ x # e /\ \A y \in Ends(x) : y \in Node
    BY <2>1, <1>10, EndsAreNodes DEF IsLocal
  <2>3. \/ InOp(q, "UNLINK", x) \/ Sent(q, "UNLINK", x)
        \/ \E y \in Ends(x) : Removes(q, y)
        \/ \E s \in Rank \ {q} : /\ x \in edges[s] /\ ~InOp(s, "UNLINK", x)
                                 /\ \E y \in Ends(x) : Removes(s, y)
    BY <2>1, <2>2, <1>3 DEF UnlinkedErased
  <2> QED
    BY <2>2, <2>3, <1>8, <1>9, <1>10
<1>22. NodesKept'
  BY <1>2, <1>3, <1>9, <1>10, Sets DEF NodesKept
<1>23. Unchanged'
  BY <1>2, <1>3, Busy
<1> QED
  BY <1>11, <1>12, <1>13, <1>14, <1>15, <1>16, <1>17, <1>18, <1>19, <1>20, <1>21, <1>22, <1>23
     DEF IInv, OpsInv, GraphInv

\* The next edge is unlinked as unlink() does.
CallsUnlink(p, e) ==
  /\ edges' = edges /\ failed' = failed
  /\ sent' = sent \cup Posts(p, "UNLINK", e, Hosts(e) \ {p})
  /\ stack' = [stack EXCEPT ![p] = Below(p) \o
                 <<[Top(p) EXCEPT !.todo = @ \ {e}], Frame("UNLINK", e, "none", {})>>]

\* removeNode() of a LOCAL node unlinks a DISTANT edge, which tells its other host.
LEMMA CallUnlinkStep ==
  ASSUME IInv, NEW p \in Rank, UnlinkNext(p), Allow = {},
         NEW e \in Top(p).todo, ~failed, stack[p] # <<>>, Top(p).op = "REMOVE_LOCAL",
         CallsUnlink(p, e)
  PROVE IInv'
<1>1. PICK n : n = Top(p).id
  OBVIOUS
<1>2. UNCHANGED <<pc, left, nodes, edges, ghostEdges, toRemove, failed, fresh, live, linked>>
  BY DEF UnlinkNext, CallsUnlink, linkerVars, idealVars
<1>3. /\ Types /\ StackShape /\ OpsHosted /\ RequestsAwaited /\ RegisteredOnce /\ FreshEdges
      /\ LinkedLive /\ EdgesHosted /\ LinkedOnHosts /\ Loops /\ RemovedApart
      /\ UnlinkedErased /\ NodesKept /\ Unchanged /\ NoFailure
  BY Parts
<1>4. /\ n \in Node /\ InOp(p, "REMOVE_LOCAL", n) /\ p = Host[n] /\ n \in Ends(e)
      /\ e \in Edge /\ e \in edges[p] /\ p \in Hosts(e) /\ e \notin linked
      /\ ~InOp(p, "UNLINK", e)
      /\ \A i \in 1 .. Len(stack[p]) - 1 : stack[p][i].op = "REMOVE_LOCAL" =>
           stack[p][i].id # n /\ e \notin stack[p][i].todo
  BY <1>1, NextEdge
<1>5. PICK r \in FrameSet :
        /\ r = [Top(p) EXCEPT !.todo = @ \ {e}]
        /\ r.op = "REMOVE_LOCAL" /\ r.id = n /\ r.loop = Top(p).loop
        /\ r.todo = Top(p).todo \ {e}
  BY <1>1, NextEdge
<1>6. PICK f \in FrameSet : f = Frame("UNLINK", e, "none", {}) /\ f.op = "UNLINK" /\ f.id = e
  <2>1. Frame("UNLINK", e, "none", {}).op = "UNLINK" /\ Frame("UNLINK", e, "none", {}).id = e
    BY DEF Frame
  <2> QED
    BY <2>1, <1>4, FrameTyped
<1>7. /\ Kept(p, Len(stack[p]) - 1) /\ Len(stack'[p]) = Len(stack[p]) + 1
      /\ stack'[p][Len(stack[p])] = r /\ stack'[p][Len(stack[p]) + 1] = f
      /\ Len(stack[p]) \in Nat \ {0}
  <2>1. stack' = [stack EXCEPT ![p] = Below(p) \o <<r, f>>]
    BY <1>5, <1>6 DEF CallsUnlink
  <2>2. Len(stack[p]) \in Nat \ {0}
    BY <1>3, BelowParts
  <2> QED
    BY <2>1, <2>2, <1>3, FrameCalled
<1>8. PICK k \in Nat :
        /\ k = Len(stack[p]) - 1 /\ Kept(p, k) /\ Len(stack'[p]) = k + 2
        /\ stack'[p][k + 1] = r /\ stack'[p][k + 2] = f /\ stack' \in [Rank -> Seq(FrameSet)]
  <2>1. stack' \in [Rank -> Seq(FrameSet)]
    BY <1>7 DEF Kept
  <2> QED
    BY <2>1, <1>7
<1>9. \A q \in Rank, op \in Op, id \in Id :
        InOp(q, op, id)' <=> InOp(q, op, id) \/ (q = p /\ op = f.op /\ id = f.id)
  <2>1. r.op = Top(p).op /\ r.id = Top(p).id
    BY <1>1, <1>5
  <2> QED
    BY <2>1, <1>3, <1>7, OpCalled
<1>10. /\ \A q \in Rank, x \in Edge :
            /\ InOp(q, "LINK", x)' <=> InOp(q, "LINK", x)
            /\ InOp(q, "UNLINK", x)' <=> InOp(q, "UNLINK", x) \/ (q = p /\ x = e)
       /\ \A q \in Rank, x \in Node :
            /\ InOp(q, "REMOVE_NODE", x)' <=> InOp(q, "REMOVE_NODE", x)
            /\ InOp(q, "REMOVE_LOCAL", x)' <=> InOp(q, "REMOVE_LOCAL", x)
  BY <1>6, <1>9 DEF Op, Id
<1>11. /\ \A q \in Rank, x \in Edge :
            /\ Sent(q, "LINK", x)' <=> Sent(q, "LINK", x)
            /\ Sent(q, "UNLINK", x)' <=> Sent(q, "UNLINK", x) \/ (x = e /\ q \in Hosts(e) \ {p})
       /\ \A q \in Rank, x \in Node : Sent(q, "REMOVE_NODE", x)' <=> Sent(q, "REMOVE_NODE", x)
       /\ \A m \in sent' : \/ m \in sent
                           \/ /\ m.from = p /\ m.to \in Hosts(e) \ {p} /\ m.tag = "UNLINK"
                              /\ m.id = e
  <2>1. sent' = sent \cup Posts(p, "UNLINK", e, Hosts(e) \ {p})
    BY DEF CallsUnlink
  <2>2. PICK T : T = Hosts(e) \ {p}
    OBVIOUS
  <2>3. sent' = sent \cup Posts(p, "UNLINK", e, T)
    BY <2>1, <2>2
  <2>4. /\ \A q \in Rank, x \in Edge :
             /\ Sent(q, "LINK", x)' <=> Sent(q, "LINK", x)
             /\ Sent(q, "UNLINK", x)' <=> Sent(q, "UNLINK", x) \/ (x = e /\ q \in T)
        /\ \A q \in Rank, x \in Node : Sent(q, "REMOVE_NODE", x)' <=> Sent(q, "REMOVE_NODE", x)
        /\ \A m \in sent' : \/ m \in sent
                            \/ m.from = p /\ m.to \in T /\ m.tag = "UNLINK" /\ m.id = e
    BY <2>3, PostsSent
  <2> QED
    BY <2>2, <2>4
<1>12. /\ \A q \in Rank, x \in Node : Removes(q, x)' <=> Removes(q, x)
       /\ \A q \in Rank, x \in Node : Registered(q, x)' <=> Registered(q, x)
  BY <1>2, <1>10, <1>11 DEF Removes, Registered
<1>13. Types'
  <2>1. \A q \in Rank : \A i \in DOMAIN stack'[q] : stack'[q][i] \in FrameSet
    BY <1>8, LenProperties, ElementOfSeq
  <2>2. sent' \subseteq Request
    <3>1. \A q \in Hosts(e) : q \in Rank
      BY <1>4, EndsAreNodes
    <3>2. Posts(p, "UNLINK", e, Hosts(e) \ {p}) \subseteq Request
      BY <3>1, <1>4 DEF Posts, Request
    <3> QED
      BY <3>2, <1>3 DEF CallsUnlink, Types, TypeOK
  <2> QED
    BY <2>1, <2>2, <1>2, <1>3, <1>8 DEF Types, TypeOK, FrameSet
<1>14. StackShape'
  <2>1. \A q \in Rank, x \in Edge : InOp(q, "UNLINK", x) =>
          \A y \in Ends(x) : Removes(q, y)' => Removes(q, y)
    BY <1>12, EndsAreNodes
  <2>2. \A j \in 1 .. k :
          /\ ~(stack'[p][j].op = "REMOVE_LOCAL" /\ stack'[p][j].id = n)
          /\ ~(stack'[p][j].op = "UNLINK" /\ stack'[p][j].id = e)
    <3>1. \A j \in 1 .. k : stack'[p][j] = stack[p][j] /\ j \in 1 .. Len(stack[p])
      BY <1>7, <1>8 DEF Kept
    <3>2. ASSUME NEW j \in 1 .. k, stack[p][j].op = "REMOVE_LOCAL", stack[p][j].id = n
          PROVE FALSE
      BY <3>2, <1>4, <1>8
    <3>3. ASSUME NEW j \in 1 .. k, stack[p][j].op = "UNLINK", stack[p][j].id = e
          PROVE FALSE
      BY <3>1, <3>3, <1>4 DEF InOp
    <3> QED
      BY <3>1, <3>2, <3>3
  <2>3. \A i \in k + 1 .. Len(stack'[p]) :
          /\ stack'[p][i].op \in {"LINK", "REMOVE_NODE"} => i = 1
          /\ stack'[p][i].op = "UNLINK" =>
               \/ i = 1 /\ \A y \in Ends(stack'[p][i].id) : ~Removes(p, y)'
               \/ /\ i > 1 /\ stack'[p][i-1].op = "REMOVE_LOCAL"
                  /\ stack'[p][i-1].id \in Ends(stack'[p][i].id)
          /\ \A j \in 1 .. i - 1 :
               ~(stack'[p][j].op = stack'[p][i].op /\ stack'[p][j].id = stack'[p][i].id)
    <3>1. SUFFICES ASSUME NEW i \in k + 1 .. Len(stack'[p])
                   PROVE /\ stack'[p][i].op \in {"LINK", "REMOVE_NODE"} => i = 1
                         /\ stack'[p][i].op = "UNLINK" =>
                              \/ i = 1 /\ \A y \in Ends(stack'[p][i].id) : ~Removes(p, y)'
                              \/ /\ i > 1 /\ stack'[p][i-1].op = "REMOVE_LOCAL"
                                 /\ stack'[p][i-1].id \in Ends(stack'[p][i].id)
                         /\ \A j \in 1 .. i - 1 :
                              ~(/\ stack'[p][j].op = stack'[p][i].op
                                /\ stack'[p][j].id = stack'[p][i].id)
      OBVIOUS
    <3>2. CASE i = k + 1
      BY <3>2, <2>2, <1>5, <1>8
    <3>3. CASE i = k + 2
      <4>1. \A j \in 1 .. i - 1 : j \in 1 .. k \/ j = k + 1
        BY <3>3
      <4>2. /\ i > 1 /\ i - 1 = k + 1 /\ stack'[p][k + 1] = r /\ stack'[p][i] = f
        BY <3>3, <1>8
      <4>3. stack'[p][i].op = "UNLINK" /\ stack'[p][i].id = e
        BY <4>2, <1>6
      <4>4. stack'[p][i-1].op = "REMOVE_LOCAL" /\ stack'[p][i-1].id \in Ends(e)
        BY <4>2, <1>4, <1>5
      <4>5. \A j \in 1 .. i - 1 : ~(stack'[p][j].op = "UNLINK" /\ stack'[p][j].id = e)
        BY <4>1, <4>2, <2>2, <1>5
      <4> QED
        BY <4>2, <4>3, <4>4, <4>5
    <3> QED
      BY <3>2, <3>3, <1>8
  <2> QED
    BY <1>3, <1>8, <2>1, <2>3, ShapeKept
<1>15. OpsHosted'
  BY <1>2, <1>3, <1>4, <1>10, <1>12 DEF OpsHosted
<1>16. RequestsAwaited'
  <2>1. SUFFICES ASSUME NEW m \in sent'
                 PROVE /\ m.tag = "LINK" => /\ m.id \in Edge /\ m.to \in Hosts(m.id) \ {m.from}
                                            /\ InOp(m.from, "LINK", m.id)'
                       /\ m.tag = "UNLINK" => /\ m.id \in Edge /\ m.to \in Hosts(m.id) \ {m.from}
                                              /\ InOp(m.from, "UNLINK", m.id)'
                       /\ m.tag = "REMOVE_NODE" =>
                            /\ m.id \in Node /\ m.to = Host[m.id] /\ m.id \notin live
                            /\ ~InOp(m.to, "REMOVE_LOCAL", m.id)' /\ ~Registered(m.to, m.id)'
                            /\ \A s \in sent' : s.tag = "REMOVE_NODE" /\ s.id = m.id => s = m
    BY <1>2 DEF RequestsAwaited
  <2>2. CASE m \in sent
    <3>1. m.from \in Rank /\ m.to \in Rank /\ \A s \in sent' : s.tag = "REMOVE_NODE" => s \in sent
      BY <2>2, <1>3, <1>11, Sets
    <3> QED
      BY <3>1, <2>2, <1>3, <1>10, <1>12 DEF RequestsAwaited
  <2>3. CASE m \notin sent
    BY <2>3, <1>4, <1>10, <1>11
  <2> QED
    BY <2>2, <2>3
<1>17. RegisteredOnce' /\ LinkedLive'
  BY <1>2, <1>3 DEF RegisteredOnce, LinkedLive
<1>18. FreshEdges' /\ EdgesHosted'
  BY <1>2, <1>3, <1>10, Sets DEF FreshEdges, EdgesHosted
<1>19. LinkedOnHosts'
  BY <1>2, <1>3, <1>10, <1>11, Sets DEF LinkedOnHosts
<1>20. Loops'
  <2>1. \A q \in Rank, m \in Node, x \in Edge :
          InOp(q, "REMOVE_LOCAL", m) /\ x \in edges[q] /\ m \in Ends(x) /\ ~(q = p /\ x = e) =>
            InOp(q, "UNLINK", x) \/ ToUnlink(q, m, x)'
    <3>1. GoesOn(p, n, e, k, r)
      BY <1>1, <1>5, <1>8 DEF GoesOn
    <3> QED
      BY <3>1, LoopRest
  <2>2. \A q \in Rank, m \in Node, x \in Edge :
          InOp(q, "REMOVE_LOCAL", m)' /\ x \in edges'[q] /\ m \in Ends(x) =>
            InOp(q, "UNLINK", x)' \/ ToUnlink(q, m, x)'
    BY <2>1, <1>2, <1>10
  <2>3. \A q \in Rank : \A i \in 1 .. Len(stack[q]) :
          stack[q][i].op = "REMOVE_LOCAL" /\ (q = p => i <= k) =>
            \A x \in stack[q][i].todo : x \in edges'[q] /\ ~InOp(q, "UNLINK", x)'
    BY <1>2, <1>3, <1>4, <1>8, <1>10, StackTyped, FrameParts DEF Loops
  <2>4. \A x \in r.todo : x \in edges'[p] /\ n \in Ends(x) /\ ~InOp(p, "UNLINK", x)'
    <3>1. Len(stack[p]) \in 1 .. Len(stack[p]) /\ Top(p) = stack[p][Len(stack[p])]
      BY <1>3, BelowParts
    <3>2. \A x \in Top(p).todo : x \in Edge /\ x \in edges[p] /\ n \in Ends(x) /\ ~InOp(p, "UNLINK", x)
      BY <3>1, <1>1, <1>3, StackTyped, FrameParts DEF Loops
    <3> QED
      BY <3>2, <1>2, <1>5, <1>10
  <2>5. \A i \in k + 1 .. Len(stack'[p]) : stack'[p][i].op = "REMOVE_LOCAL" =>
          \A x \in stack'[p][i].todo :
            x \in edges'[p] /\ stack'[p][i].id \in Ends(x) /\ ~InOp(p, "UNLINK", x)'
    <3>1. \A i \in k + 1 .. Len(stack'[p]) : stack'[p][i] = r \/ stack'[p][i] = f
      BY <1>8
    <3> QED
      BY <2>4, <3>1, <1>5, <1>6
  <2>6. edges' \in [Rank -> SUBSET Edge]
    BY <1>13 DEF Types, TypeOK
  <2> QED
    BY <1>3, <1>8, <2>2, <2>3, <2>5, <2>6, LoopsKept
<1>21. RemovedApart'
  BY <1>2, <1>3, <1>12, Sets, EndsAreNodes DEF RemovedApart
\* The other host is told.
<1>22. UnlinkedErased'
  <2>1. SUFFICES ASSUME NEW q \in Rank, NEW x \in edges[q], q \in Hosts(x), x \notin linked
                 PROVE \/ InOp(q, "UNLINK", x)' \/ Sent(q, "UNLINK", x)'
                       \/ \E y \in Ends(x) : Removes(q, y)'
                       \/ \E s \in Rank \ {q} : /\ x \in edges[s] /\ ~InOp(s, "UNLINK", x)'
                                                /\ \E y \in Ends(x) : Removes(s, y)'
    BY <1>2 DEF UnlinkedErased
  <2>2. x \in Edge /\ \A y \in Ends(x) : y \in Node
    BY <2>1, <1>3, Sets, EndsAreNodes
  <2>3. CASE x = e
    BY <2>1, <2>3, <1>4, <1>10, <1>11
  <2>4. CASE x # e
    <3>1. \/ InOp(q, "UNLINK", x) \/ Sent(q, "UNLINK", x)
          \/ \E y \in Ends(x) : Removes(q, y)
          \/ \E s \in Rank \ {q} : /\ x \in edges[s] /\ ~InOp(s, "UNLINK", x)
                                   /\ \E y \in Ends(x) : Removes(s, y)
      BY <2>1, <1>3 DEF UnlinkedErased
    <3> QED
      BY <3>1, <2>2, <2>4, <1>10, <1>11, <1>12
  <2> QED
    BY <2>3, <2>4
<1>23. NodesKept'
  <2>1. \A m \in sent' : m.tag = "REMOVE_NODE" => m \in sent
    BY <1>11
  <2> QED
    BY <2>1, <1>2, <1>3, <1>12, Sets DEF NodesKept
<1>24. Unchanged'
  BY <1>2, <1>3, Busy
<1> QED
  BY <1>2, <1>3, <1>13, <1>14, <1>15, <1>16, <1>17, <1>18, <1>19, <1>20, <1>21, <1>22, <1>23, <1>24
     DEF IInv, OpsInv, GraphInv, NoFailure

\* The loops unlink the next edge.
LEMMA UnlinkNextStep ==
  ASSUME IInv, NEW p \in Rank, UnlinkNext(p), Allow = {}
  PROVE IInv'
<1>1. PICK e \in Top(p).todo :
        /\ ~failed /\ stack[p] # <<>> /\ Top(p).op = "REMOVE_LOCAL"
        /\ IF e \notin edges[p] \cup Linking(p) \/ IsLocal(p, e)
             THEN /\ Erase(p, e) /\ sent' = sent
                  /\ stack' = [stack EXCEPT ![p] =
                       Append(Below(p), [Top(p) EXCEPT !.todo = @ \ {e}])]
             ELSE CallsUnlink(p, e)
  BY DEF UnlinkNext, Runs, CallsUnlink
<1>2. e \in edges[p]
  BY <1>1, NextEdge
<1>3. CASE IsLocal(p, e)
  BY <1>1, <1>3, EraseNextStep
<1>4. CASE ~IsLocal(p, e)
  BY <1>1, <1>2, <1>4, CallUnlinkStep
<1> QED
  BY <1>3, <1>4

\* removeNode() of a LOCAL node ends a loop.
LEMMA EndLoopStep ==
  ASSUME IInv, NEW p \in Rank, EndLoop(p), Allow = {}
  PROVE IInv'
<1>1. CASE Top(p).loop = "out"
  BY <1>1, EndOutLoopStep
<1>2. CASE Top(p).loop # "out"
  BY <1>2, EndInLoopStep
<1> QED
  BY <1>1, <1>2

-----------------------------------------------------------------------------
(* synchronize() *)

\* The ghost edges are erased: a process has no host of their ends to tell.
LEMMA EnterTerminationStep ==
  ASSUME IInv, NEW p \in Rank, EnterTermination(p), Allow = {}
  PROVE IInv'
<1>1. /\ pc[p] = "working" /\ stack[p] = <<>>
      /\ pc' = [pc EXCEPT ![p] = "terminating"]
      /\ edges' = [edges EXCEPT ![p] = @ \ ghostEdges[p]]
      /\ failed' = ~(ghostEdges[p] \subseteq edges[p])
      /\ ghostEdges' = [ghostEdges EXCEPT ![p] = {}]
  BY DEF EnterTermination
<1>2. UNCHANGED <<left, stack, sent, nodes, toRemove, fresh, live, linked>>
  BY DEF EnterTermination, idealVars
<1>3. /\ Types /\ StackShape /\ OpsHosted /\ RequestsAwaited /\ RegisteredOnce /\ FreshEdges
      /\ LinkedLive /\ EdgesHosted /\ LinkedOnHosts /\ Loops /\ RemovedApart
      /\ UnlinkedErased /\ NodesKept /\ Unchanged /\ NoFailure
  BY Parts
<1>4. /\ \A e \in Edge : ~InOp(p, "LINK", e) /\ ~InOp(p, "UNLINK", e)
      /\ \A n \in Node : ~InOp(p, "REMOVE_LOCAL", n)
  BY <1>1, <1>3, NoOp DEF Op, Id
<1>5. /\ edges' \in [Rank -> SUBSET Edge]
      /\ \A q \in Rank, x \in Edge :
           x \in edges'[q] <=> x \in edges[q] /\ ~(q = p /\ x \in ghostEdges[p])
  BY <1>1, <1>3 DEF Types, TypeOK
<1>6. /\ ghostEdges' \in [Rank -> SUBSET Edge]
      /\ ghostEdges'[p] = {} /\ \A q \in Rank \ {p} : ghostEdges'[q] = ghostEdges[q]
  BY <1>1, <1>3 DEF Types, TypeOK
<1>7. /\ pc' \in [Rank -> {"working", "terminating"}]
      /\ \A q \in Rank \ {p} : pc'[q] = pc[q]
  BY <1>1, <1>3 DEF Types, TypeOK
<1>8. \A x \in ghostEdges[p] : x \in Edge /\ p \notin Hosts(x) /\ x \in edges[p]
  BY <1>3, Sets DEF EdgesHosted
<1>9. SameOps
  BY <1>2, SameStack
<1>10. /\ \A q \in Rank, x \in Edge : /\ Sent(q, "LINK", x)' <=> Sent(q, "LINK", x)
                                      /\ Sent(q, "UNLINK", x)' <=> Sent(q, "UNLINK", x)
       /\ \A q \in Rank, n \in Node : Removes(q, n)' <=> Removes(q, n)
       /\ \A q \in Rank, n \in Node : Registered(q, n)' <=> Registered(q, n)
  BY <1>2, <1>9 DEF Sent, Removes, SameOps, Registered
<1>11. Types' /\ NoFailure'
  <2>1. failed' = FALSE
    BY <1>1, <1>8
  <2> QED
    BY <2>1, <1>2, <1>3, <1>5, <1>6, <1>7 DEF Types, TypeOK, NoFailure
<1>12. StackShape'
  BY <1>2, <1>3, <1>10, ShapeUnchanged, EndsAreNodes
<1>13. OpsHosted'
  BY <1>2, <1>3, <1>4, <1>5, <1>7, <1>9, <1>10 DEF OpsHosted, SameOps
<1>14. RequestsAwaited'
  BY <1>2, <1>3, <1>9, <1>10, Sets DEF RequestsAwaited, SameOps
<1>15. RegisteredOnce' /\ LinkedLive'
  BY <1>2, <1>3 DEF RegisteredOnce, LinkedLive
<1>16. FreshEdges'
  BY <1>2, <1>3, <1>5, <1>9, Sets DEF FreshEdges, SameOps
<1>17. EdgesHosted'
  <2>1. \A q \in Rank : \A x \in edges'[q] : q \in Hosts(x) \/ x \in ghostEdges'[q]
    BY <1>3, <1>5, <1>6 DEF EdgesHosted
  <2>2. \A q \in Rank : \A x \in ghostEdges'[q] : x \in edges'[q] /\ q \notin Hosts(x)
    BY <1>3, <1>5, <1>6, Sets DEF EdgesHosted
  <2>3. \A q \in Rank : pc'[q] = "terminating" => ghostEdges'[q] = {}
    BY <1>3, <1>6, <1>7 DEF EdgesHosted
  <2> QED
    BY <2>1, <2>2, <2>3 DEF EdgesHosted
<1>18. LinkedOnHosts'
  BY <1>2, <1>3, <1>5, <1>8, <1>9, <1>10, Sets DEF LinkedOnHosts, SameOps
<1>19. Loops'
  <2>1. \A q \in Rank, n \in Node, x \in Edge : ToUnlink(q, n, x)' <=> ToUnlink(q, n, x)
    BY <1>2 DEF ToUnlink
  <2>2. ASSUME NEW q \in Rank, NEW i \in 1 .. Len(stack[q]), stack[q][i].op = "REMOVE_LOCAL",
               NEW x \in stack[q][i].todo
        PROVE x \in edges'[q] /\ stack[q][i].id \in Ends(x) /\ ~InOp(q, "UNLINK", x)'
    <3>1. x \in Edge /\ stack[q][i].id \in Node
      BY <2>2, <1>3, StackTyped, FrameParts
    <3>2. x \in edges[q] /\ stack[q][i].id \in Ends(x) /\ ~InOp(q, "UNLINK", x)
      BY <2>2, <1>3 DEF Loops
    <3>3. InOp(q, "REMOVE_LOCAL", stack[q][i].id)
      BY <2>2 DEF InOp
    <3> QED
      BY <3>1, <3>2, <3>3, <1>4, <1>5, <1>9 DEF SameOps
  <2>3. \A q \in Rank : \A n \in Node : InOp(q, "REMOVE_LOCAL", n)' =>
          \A x \in edges'[q] : n \in Ends(x) => InOp(q, "UNLINK", x)' \/ ToUnlink(q, n, x)'
    BY <2>1, <1>3, <1>5, <1>9 DEF Loops, SameOps
  <2> QED
    BY <2>2, <2>3, <1>2 DEF Loops
<1>20. RemovedApart'
  BY <1>3, <1>5, <1>10, EndsAreNodes DEF RemovedApart
<1>21. UnlinkedErased'
  <2>1. SUFFICES ASSUME NEW q \in Rank, NEW x \in edges'[q], q \in Hosts(x), x \notin linked
                 PROVE \/ InOp(q, "UNLINK", x)' \/ Sent(q, "UNLINK", x)'
                       \/ \E n \in Ends(x) : Removes(q, n)'
                       \/ \E r \in Rank \ {q} : /\ x \in edges'[r] /\ ~InOp(r, "UNLINK", x)'
                                                /\ \E n \in Ends(x) : Removes(r, n)'
    BY <1>2 DEF UnlinkedErased
  <2>2. x \in Edge /\ x \in edges[q] /\ \A n \in Ends(x) : n \in Node /\ Host[n] \in Hosts(x)
    BY <2>1, <1>5, EndsAreNodes
  <2>3. \/ InOp(q, "UNLINK", x) \/ Sent(q, "UNLINK", x)
        \/ \E n \in Ends(x) : Removes(q, n)
        \/ \E r \in Rank \ {q} : /\ x \in edges[r] /\ ~InOp(r, "UNLINK", x)
                                 /\ \E n \in Ends(x) : Removes(r, n)
    BY <2>1, <2>2, <1>3 DEF UnlinkedErased
\* A process that removes an end of an edge does not have it as a ghost.
  <2>4. \A r \in Rank : (\E n \in Ends(x) : Removes(r, n)) => r \in Hosts(x)
    BY <2>2, <1>3, RemovedDead
  <2> QED
    BY <2>2, <2>3, <2>4, <1>5, <1>8, <1>9, <1>10 DEF SameOps
<1>22. NodesKept'
  BY <1>2, <1>3, <1>5, <1>10, Sets DEF NodesKept
<1>23. Unchanged'
  BY <1>2, <1>3 DEF Unchanged
<1> QED
  BY <1>11, <1>12, <1>13, <1>14, <1>15, <1>16, <1>17, <1>18, <1>19, <1>20, <1>21, <1>22, <1>23
     DEF IInv, OpsInv, GraphInv

\* When nothing is in progress, the hosts have what is linked.
LEMMA Quiet ==
  ASSUME IInv, sent = {}, \A p \in Rank : stack[p] = <<>>
  PROVE /\ \A q \in Rank, x \in Edge : ~InOp(q, "LINK", x) /\ ~InOp(q, "UNLINK", x)
        /\ \A q \in Rank, n \in Node : /\ ~InOp(q, "REMOVE_NODE", n)
                                       /\ ~InOp(q, "REMOVE_LOCAL", n) /\ ~Removes(q, n)
        /\ \A q \in Rank, e \in Edge : q \in Hosts(e) => (e \in edges[q] <=> e \in linked)
<1>1. Types /\ LinkedOnHosts /\ UnlinkedErased
  BY Parts
<1>2. /\ \A q \in Rank, x \in Edge : ~InOp(q, "LINK", x) /\ ~InOp(q, "UNLINK", x)
      /\ \A q \in Rank, n \in Node : ~InOp(q, "REMOVE_NODE", n) /\ ~InOp(q, "REMOVE_LOCAL", n)
  BY <1>1, NoOp DEF Op, Id
<1>3. \A q, tag, x : ~Sent(q, tag, x)
  BY DEF Sent
<1>4. \A q \in Rank, n \in Node : ~Removes(q, n)
  BY <1>2, <1>3 DEF Removes
<1>5. \A q \in Rank, e \in Edge : q \in Hosts(e) => (e \in edges[q] <=> e \in linked)
  BY <1>1, <1>2, <1>3, <1>4, EndsAreNodes DEF LinkedOnHosts, UnlinkedErased
<1> QED
  BY <1>2, <1>4, <1>5

\* The nodes that p erases, and the edges that it keeps.
Gone(p) == {toRemove[p][i] : i \in DOMAIN toRemove[p]}
Staying(p) == {e \in edges[p] : Ends(e) \cap Gone(p) = {}}

\* What the processes have is what was linked, and is not removed.
LEMMA SynchronizeStep ==
  ASSUME IInv, Synchronize, Allow = {}
  PROVE IInv'
<1>1. /\ sent = {} /\ \A p \in Rank : pc[p] = "terminating" /\ stack[p] = <<>>
      /\ nodes' = [p \in Rank |-> Clear(p, nodes[p] \ Gone(p), Staying(p))]
      /\ edges' = [p \in Rank |-> {e \in Staying(p) : ~IsGhost(p, e)}]
      /\ failed' = \E p \in Rank : \E i, j \in DOMAIN toRemove[p] :
                     i # j /\ toRemove[p][i] = toRemove[p][j]
      /\ toRemove' = [p \in Rank |-> <<>>]
      /\ pc' = [p \in Rank |-> "working"]
      /\ left' = MaxOps
  BY DEF Synchronize, Gone, Staying
<1>2. UNCHANGED <<stack, sent, ghostEdges, fresh, live, linked>>
  BY DEF Synchronize, idealVars
<1>3. /\ Types /\ StackShape /\ OpsHosted /\ RequestsAwaited /\ RegisteredOnce /\ FreshEdges
      /\ LinkedLive /\ EdgesHosted /\ LinkedOnHosts /\ Loops /\ RemovedApart
      /\ UnlinkedErased /\ NodesKept /\ Unchanged /\ NoFailure
  BY Parts
<1>4. /\ \A q \in Rank, x \in Edge : ~InOp(q, "LINK", x) /\ ~InOp(q, "UNLINK", x)
      /\ \A q \in Rank, n \in Node : /\ ~InOp(q, "REMOVE_NODE", n)
                                     /\ ~InOp(q, "REMOVE_LOCAL", n) /\ ~Removes(q, n)
      /\ \A q \in Rank, e \in Edge : q \in Hosts(e) => (e \in edges[q] <=> e \in linked)
  BY <1>1, Quiet
<1>5. \A q \in Rank : \A e \in edges[q] : e \in Edge /\ q \in Hosts(e) /\ e \in linked
  BY <1>1, <1>3, <1>4, Sets DEF EdgesHosted
<1>6. \A q \in Rank, n \in Node : n \in Gone(q) <=> Registered(q, n)
  <2>1. \A q \in Rank : DOMAIN toRemove[q] = 1 .. Len(toRemove[q])
    BY <1>3, LenProperties DEF Types
  <2> QED
    BY <2>1 DEF Registered, Gone
<1>7. \A q \in Rank, n \in live : n \notin Gone(q)
  <2>1. \A q \in Rank, n \in live : ~Registered(q, n)
    BY <1>3 DEF RegisteredOnce, Registered
  <2> QED
    BY <2>1, <1>3, <1>6, Sets
<1>8. \A q \in Rank : Staying(q) = edges[q]
  BY <1>3, <1>5, <1>7 DEF LinkedLive, Staying
<1>9. edges' = edges
  <2>1. \A q \in Rank : {e \in edges[q] : ~IsGhost(q, e)} = edges[q]
    BY <1>5 DEF IsGhost
  <2>2. edges \in [Rank -> SUBSET Edge]
    BY <1>3 DEF Types, TypeOK
  <2> QED
    BY <1>1, <1>8, <2>1, <2>2
<1>10. ASSUME NEW q \in Rank
       PROVE nodes'[q] = {n \in live : \/ Host[n] = q
                                       \/ \E e \in linked : q \in Hosts(e) /\ n \in Ends(e)}
  <2>1. nodes'[q] = {n \in nodes[q] \ Gone(q) : \/ Host[n] = q
                                               \/ \E e \in edges[q] : n \in Ends(e) /\ ~IsGhost(q, e)}
    BY <1>1, <1>8 DEF Clear
  <2>2. ASSUME NEW n \in nodes'[q]
        PROVE n \in live /\ (Host[n] = q \/ \E e \in linked : q \in Hosts(e) /\ n \in Ends(e))
    <3>1. n \in nodes[q] /\ n \notin Gone(q) /\ n \in Node
      BY <2>1, <2>2, <1>3, Sets
    <3>2. CASE Host[n] = q
      BY <3>1, <3>2, <1>3, <1>4, <1>6 DEF NodesKept
    <3>3. CASE \E e \in edges[q] : n \in Ends(e)
      BY <3>3, <1>3, <1>5 DEF LinkedLive
    <3> QED
      BY <2>1, <2>2, <3>2, <3>3
  <2>3. ASSUME NEW n \in live, Host[n] = q \/ \E e \in linked : q \in Hosts(e) /\ n \in Ends(e)
        PROVE n \in nodes'[q]
    <3>1. n \notin Gone(q)
      BY <2>3, <1>7
    <3>2. CASE Host[n] = q
      BY <3>1, <3>2, <2>1, <2>3, <1>3 DEF NodesKept
    <3>3. CASE \E e \in linked : q \in Hosts(e) /\ n \in Ends(e)
      <4>1. PICK e \in linked : q \in Hosts(e) /\ n \in Ends(e)
        BY <3>3
      <4>2. e \in edges[q] /\ ~IsGhost(q, e)
        BY <4>1, <1>3, <1>4, Sets DEF IsGhost
      <4>3. n \in nodes[q]
        BY <4>1, <4>2, <1>3 DEF NodesKept
      <4> QED
        BY <4>1, <4>2, <4>3, <3>1, <2>1
    <3> QED
      BY <2>3, <3>2, <3>3
  <2> QED
    BY <2>2, <2>3
<1>11. SameOps
  BY <1>2, SameStack
<1>12. /\ \A q \in Rank, x \in Edge : ~InOp(q, "LINK", x)' /\ ~InOp(q, "UNLINK", x)'
       /\ \A q \in Rank, n \in Node : /\ ~InOp(q, "REMOVE_NODE", n)'
                                      /\ ~InOp(q, "REMOVE_LOCAL", n)' /\ ~Removes(q, n)'
  BY <1>1, <1>2, <1>4, <1>11 DEF SameOps, Removes, Sent
<1>13. /\ nodes' \in [Rank -> SUBSET Node] /\ failed' = FALSE
       /\ toRemove' \in [Rank -> Seq(Node)] /\ \A q \in Rank : toRemove'[q] = <<>>
  <2>1. nodes' \in [Rank -> SUBSET Node]
    <3>1. \A q \in Rank : nodes'[q] \in SUBSET Node
      BY <1>3, <1>10, Sets
    <3> QED
      BY <1>1, <3>1
  <2>2. failed' = FALSE
    <3>1. \A p \in Rank : DOMAIN toRemove[p] = 1 .. Len(toRemove[p])
      BY <1>3, LenProperties DEF Types
    <3> QED
      BY <1>1, <1>3, <3>1 DEF RegisteredOnce
  <2>3. \A q \in Rank : toRemove'[q] = <<>>
    BY <1>1
  <2>4. toRemove' \in [Rank -> Seq(Node)]
    <3>1. <<>> \in Seq(Node)
      OBVIOUS
    <3> QED
      BY <1>1, <3>1
  <2> QED
    BY <2>1, <2>2, <2>3, <2>4
<1>14. Types' /\ NoFailure'
  <2>1. /\ MaxOps \in [Rank -> Nat] /\ left' = MaxOps
        /\ \A q \in Rank : left'[q] \in 0 .. MaxOps[q]
    BY <1>1, LinkerAssumption
  <2>2. pc' \in [Rank -> {"working", "terminating"}]
    BY <1>1
  <2>3. \A q \in Rank : \A i \in DOMAIN toRemove'[q] : toRemove'[q][i] \in Node
    BY <1>13
  <2> QED
    BY <2>1, <2>2, <2>3, <1>2, <1>3, <1>9, <1>13 DEF Types, TypeOK, NoFailure
<1>15. StackShape'
  <2>1. \A q \in Rank : Len(stack'[q]) = 0
    BY <1>1, <1>2, <1>3, StackTyped
  <2> QED
    BY <2>1 DEF StackShape
<1>16. OpsHosted' /\ RequestsAwaited'
  BY <1>1, <1>2, <1>12 DEF OpsHosted, RequestsAwaited
<1>17. RegisteredOnce'
  BY <1>13 DEF RegisteredOnce
<1>18. FreshEdges' /\ LinkedLive'
  BY <1>2, <1>3, <1>9, <1>12, Sets DEF FreshEdges, LinkedLive
<1>19. EdgesHosted'
  BY <1>1, <1>2, <1>3, <1>9 DEF EdgesHosted
<1>20. LinkedOnHosts'
  BY <1>2, <1>3, <1>4, <1>9, Sets DEF LinkedOnHosts
<1>21. Loops'
  <2>1. \A q \in Rank : Len(stack'[q]) = 0
    BY <1>1, <1>2, <1>3, StackTyped
  <2> QED
    BY <2>1, <1>12 DEF Loops
<1>22. RemovedApart' /\ UnlinkedErased'
  <2>1. RemovedApart'
    BY <1>3, <1>9, <1>12, Sets, EndsAreNodes DEF RemovedApart
  <2>2. UnlinkedErased'
    BY <1>2, <1>5, <1>9 DEF UnlinkedErased
  <2> QED
    BY <2>1, <2>2
<1>23. NodesKept'
  <2>1. \A n \in live : n \in nodes'[Host[n]]
    <3>1. \A n \in live : Host[n] \in Rank
      BY <1>3, Sets, LinkerAssumption
    <3> QED
      BY <3>1, <1>10
  <2>2. \A q \in Rank : \A e \in edges[q] : \A n \in Ends(e) : n \in nodes'[q]
    BY <1>3, <1>5, <1>10 DEF LinkedLive
  <2>3. \A q \in Rank : \A n \in nodes'[q] : n \in live
    BY <1>10
  <2> QED
    BY <2>1, <2>2, <2>3, <1>1, <1>2, <1>9 DEF NodesKept
<1>24. Unchanged'
  BY <1>1, <1>2, <1>10 DEF Unchanged
<1> QED
  BY <1>14, <1>15, <1>16, <1>17, <1>18, <1>19, <1>20, <1>21, <1>22, <1>23, <1>24
     DEF IInv, OpsInv, GraphInv

-----------------------------------------------------------------------------
(* The theorems *)

LEMMA InitIInv ==
  ASSUME Init
  PROVE IInv
<1>1. /\ pc = [p \in Rank |-> "working"] /\ left = MaxOps
      /\ stack = [p \in Rank |-> <<>>] /\ sent = {}
      /\ ghostEdges = [p \in Rank |-> {}] /\ toRemove = [p \in Rank |-> <<>>]
      /\ failed = FALSE /\ fresh = Edge \ First /\ live = Node /\ linked = First
  BY DEF Init
<1>2. \A p \in Rank : edges[p] = {e \in First : p \in Hosts(e)}
  BY DEF Init
<1>3. \A p \in Rank : nodes[p] = {n \in Node : Host[n] = p \/ \E e \in edges[p] : n \in Ends(e)}
  BY DEF Init
<1>4. /\ First \subseteq Edge /\ MaxOps \in [Rank -> Nat]
      /\ \A n \in Node : Host[n] \in Rank
  BY LinkerAssumption
<1>5. /\ edges \in [Rank -> SUBSET Edge] /\ nodes \in [Rank -> SUBSET Node]
  BY <1>4 DEF Init
<1>6. \A p \in Rank : stack[p] = <<>> /\ toRemove[p] = <<>> /\ Len(stack[p]) = 0 /\ Len(toRemove[p]) = 0
  <2>1. Len(<<>>) = 0
    OBVIOUS
  <2> QED
    BY <2>1, <1>1
<1>7. /\ \A p \in Rank : \A op, id : ~InOp(p, op, id)
      /\ \A p \in Rank : \A n : ~Registered(p, n)
      /\ \A p, tag, id : ~Sent(p, tag, id)
      /\ \A p \in Rank : \A n : ~Removes(p, n)
  BY <1>1, <1>6 DEF InOp, Registered, Sent, Removes
<1>8. Types
  <2>1. <<>> \in Seq(FrameSet) /\ <<>> \in Seq(Node)
    OBVIOUS
  <2>2. stack \in [Rank -> Seq(FrameSet)] /\ toRemove \in [Rank -> Seq(Node)]
    BY <2>1, <1>1
  <2>3. /\ \A p \in Rank : \A i \in DOMAIN stack[p] : stack[p][i] \in FrameSet
        /\ \A p \in Rank : \A i \in DOMAIN toRemove[p] : toRemove[p][i] \in Node
    BY <1>6
  <2>4. \A p \in Rank : left[p] \in 0 .. MaxOps[p]
    BY <1>1, <1>4
  <2> QED
    BY <2>2, <2>3, <2>4, <1>1, <1>4, <1>5 DEF Types, TypeOK, FrameSet
<1>9. OpsInv
  BY <1>1, <1>6, <1>7 DEF OpsInv, StackShape, OpsHosted, RequestsAwaited, RegisteredOnce
<1>10. FreshEdges /\ EdgesHosted /\ LinkedOnHosts /\ Loops /\ RemovedApart
  BY <1>1, <1>2, <1>6, <1>7 DEF FreshEdges, EdgesHosted, LinkedOnHosts, Loops, RemovedApart
<1>11. LinkedLive
  BY <1>1, <1>4, EndsAreNodes DEF LinkedLive
<1>12. UnlinkedErased
  BY <1>1, <1>2 DEF UnlinkedErased
<1>13. NodesKept
  <2>1. \A p \in Rank : \A e \in edges[p] : \A n \in Ends(e) : n \in nodes[p]
    BY <1>2, <1>3, <1>4, EndsAreNodes
  <2> QED
    BY <2>1, <1>1, <1>3, <1>4 DEF NodesKept
<1>14. Unchanged
  <2>1. ASSUME NEW p \in Rank
        PROVE nodes[p] = {n \in live : \/ Host[n] = p
                                       \/ \E e \in linked : p \in Hosts(e) /\ n \in Ends(e)}
    BY <1>1, <1>2, <1>3
  <2> QED
    BY <2>1, <1>1, <1>6 DEF Unchanged
<1> QED
  BY <1>1, <1>8, <1>9, <1>10, <1>11, <1>12, <1>13, <1>14 DEF IInv, GraphInv, NoFailure

LEMMA Stutter ==
  ASSUME IInv, UNCHANGED vars
  PROVE IInv'
<1>1. /\ UNCHANGED <<pc, left, stack, sent, nodes, edges, ghostEdges, toRemove, failed>>
      /\ UNCHANGED <<fresh, live, linked>>
  BY DEF vars, linkerVars, idealVars
<1>2. /\ \A p, op, id : InOp(p, op, id)' <=> InOp(p, op, id)
      /\ \A p, tag, id : Sent(p, tag, id)' <=> Sent(p, tag, id)
      /\ \A p, n : Registered(p, n)' <=> Registered(p, n)
      /\ \A p, n, e : ToUnlink(p, n, e)' <=> ToUnlink(p, n, e)
  BY <1>1 DEF InOp, Sent, Registered, ToUnlink
<1>3. \A p, n : Removes(p, n)' <=> Removes(p, n)
  BY <1>2 DEF Removes
<1>4. Types' /\ NoFailure' /\ RegisteredOnce' /\ LinkedLive' /\ EdgesHosted' /\ Unchanged'
  <2>1. Types'
    BY <1>1, Parts DEF Types, TypeOK
  <2>2. NoFailure' /\ LinkedLive'
    BY <1>1, Parts DEF NoFailure, LinkedLive
  <2>3. RegisteredOnce'
    BY <1>1, Parts DEF RegisteredOnce
  <2>4. EdgesHosted'
    BY <1>1, Parts DEF EdgesHosted
  <2>5. Unchanged'
    BY <1>1, Parts DEF Unchanged
  <2> QED
    BY <2>1, <2>2, <2>3, <2>4, <2>5
<1>5. StackShape' /\ OpsHosted' /\ RequestsAwaited'
  BY <1>1, <1>2, <1>3, Parts DEF StackShape, OpsHosted, RequestsAwaited
<1>6. FreshEdges' /\ LinkedOnHosts' /\ Loops'
  BY <1>1, <1>2, Parts DEF FreshEdges, LinkedOnHosts, Loops
<1>7. RemovedApart' /\ UnlinkedErased' /\ NodesKept'
  BY <1>1, <1>2, <1>3, Parts DEF RemovedApart, UnlinkedErased, NodesKept
<1> QED
  BY <1>4, <1>5, <1>6, <1>7 DEF IInv, OpsInv, GraphInv

LEMMA NextIInv ==
  ASSUME IInv, [Next]_vars, Allow = {}
  PROVE IInv'
<1>1. CASE Synchronize
  BY <1>1, SynchronizeStep
<1>2. ASSUME NEW p \in Rank, Link(p) \/ Unlink(p) \/ RemoveNode(p)
      PROVE IInv'
  BY <1>2, LinkStep, UnlinkStep, RemoveNodeStep
<1>3. ASSUME NEW p \in Rank, Continue(p)
      PROVE IInv'
  BY <1>3, EndLinkStep, EndUnlinkStep, EndRemoveNodeStep, UnlinkNextStep, EndLoopStep DEF Continue
<1>4. ASSUME NEW p \in Rank, Serve(p)
      PROVE IInv'
  BY <1>4, HandleLinkStep, HandleUnlinkStep, HandleRemoveNodeStep DEF Serve
<1>5. ASSUME NEW p \in Rank, EnterTermination(p)
      PROVE IInv'
  BY <1>5, EnterTerminationStep
<1>6. CASE UNCHANGED vars
  BY <1>6, Stutter
<1> QED
  BY <1>1, <1>2, <1>3, <1>4, <1>5, <1>6 DEF Next

(* The invariant holds as long as the tasks keep out of the usages above:  *)
(* operations that wait for each other leave each other's objects alone.   *)
THEOREM Inductive == Allow = {} /\ Spec => []IInv
<1> SUFFICES ASSUME Allow = {} PROVE Spec => []IInv
  OBVIOUS
<1>1. Init => IInv
  BY InitIInv
<1>2. IInv /\ [Next]_vars => IInv'
  BY NextIInv
<1> QED
  BY <1>1, <1>2, PTL DEF Spec

(* The variables of the model, and the frames of the stacks, have their    *)
(* types: link(), unlink() and removeNode() on what they are about.        *)
THEOREM TypeCorrect == Allow = {} /\ Spec => []TypeOK
<1>1. IInv => TypeOK
  BY Parts DEF Types
<1> QED
  BY <1>1, Inductive, PTL

(* No request that a process serves erases the object of an operation that *)
(* it waits in, no node is registered twice, and getNode() finds the node  *)
(* of every REMOVE_NODE request.                                           *)
THEOREM NoFailureHolds == Allow = {} /\ Spec => []NoFailure
<1>1. IInv => NoFailure
  BY Parts
<1> QED
  BY <1>1, Inductive, PTL

(* link(), unlink() and removeNode() are global when they return: the      *)
(* hosts of the ends of an edge agree on it.                               *)
THEOREM LinksAgreeHolds == Allow = {} /\ Spec => []LinksAgree
<1>1. IInv => LinksAgree
  BY Quiet, Parts DEF LinksAgree, EdgesHosted
<1> QED
  BY <1>1, Inductive, PTL

(* After synchronize(), every process has the nodes of the graph that it   *)
(* hosts, those that they are linked to, and no other.                     *)
THEOREM NodesAgreeHolds == Allow = {} /\ Spec => []NodesAgree
<1>1. IInv => NodesAgree
  BY Parts DEF NodesAgree, Unchanged
<1> QED
  BY <1>1, Inductive, PTL
=============================================================================
