------------------------ MODULE HardSyncMutexProofs ------------------------
(***************************************************************************)
(* Proofs about HardSyncMutex, for any number of processes, any nodes and  *)
(* hosts, and any number of operations in a period.                        *)
(*                                                                         *)
(* A node is seen through four sets of processes: those that own a shared  *)
(* or an exclusive lock on it (Owners), and those whose request for one is *)
(* pending (Pending).  The queues are sequences whose sources are the      *)
(* pending processes; what a release grants is a prefix of them.           *)
(***************************************************************************)
EXTENDS HardSyncMutex, TLAPS, FiniteSetTheorems, SequenceTheorems

-----------------------------------------------------------------------------
(* The inductive invariant *)

\* The request of p has reached the host and has not been granted.
Waits(p) ==
  \/ pc[p] = "waiting"
  \/ pc[p] = "awaiting" /\ response[p] = NoResponse

Pending(n, types) ==
  {p \in Rank : Waits(p) /\ op[p].node = n /\ op[p].type \in types}

\* What a process does tells where the node of its operation is, and whether a
\* response may be on its way.
ClientInv ==
  \A p \in Rank :
    /\ op[p] = NoOp <=> pc[p] \in {"idle", "terminating"}
    /\ pc[p] \in {"sending", "awaiting", "releasing"} => Host[op[p].node] # p
    /\ pc[p] = "waiting" => Host[op[p].node] = p
    /\ response[p] # NoResponse => pc[p] = "awaiting"
    /\ p \in leaving => pc[p] = "terminating"

Sources(q) == {q[i].source : i \in DOMAIN q}

First(q, k) == {q[i].source : i \in 1 .. k}

Distinct(q) == \A i, j \in DOMAIN q : q[i].source = q[j].source => i = j

\* Queue q has one request for each of the processes P, of the type of its
\* operation in o.
Queues(q, P, o) ==
  /\ Distinct(q)
  /\ Sources(q) = P
  /\ \A i \in DOMAIN q : q[i].type = o[q[i].source].type

QueueInv ==
  \A n \in Node :
    /\ Queues(lockRequests[n], Pending(n, ExclusiveType), op)
    /\ Queues(lockSharedRequests[n], Pending(n, SharedType), op)

IInv ==
  /\ TypeOK
  /\ ClientInv
  /\ QueueInv
  /\ LocksCounted
  /\ SomebodyWillWake
  /\ NoLostUpdate

-----------------------------------------------------------------------------
(* Queues *)

(* Append() adds a request of a process that had none.                      *)
LEMMA AppendLemma ==
  ASSUME NEW q \in Seq(Request), NEW r \in Request,
         Distinct(q), r.source \notin Sources(q)
  PROVE  /\ Append(q, r) \in Seq(Request)
         /\ Distinct(Append(q, r))
         /\ Sources(Append(q, r)) = Sources(q) \cup {r.source}
         /\ \A i \in DOMAIN Append(q, r) :
              Append(q, r)[i] = r \/ \E j \in DOMAIN q : Append(q, r)[i] = q[j]
<1> DEFINE s == Append(q, r)
<1>1. /\ s \in Seq(Request)
      /\ Len(q) \in Nat
      /\ DOMAIN q = 1 .. Len(q)
      /\ DOMAIN s = 1 .. Len(q) + 1
      /\ \A i \in 1 .. Len(q) : s[i] = q[i]
      /\ s[Len(q) + 1] = r
  BY AppendProperties, LenProperties
<1> HIDE DEF s
<1>2. Distinct(s)
  BY <1>1 DEF Distinct, Sources
<1>3. Sources(s) = Sources(q) \cup {r.source}
  BY <1>1 DEF Sources
<1>4. \A i \in DOMAIN s : s[i] = r \/ \E j \in DOMAIN q : s[i] = q[j]
  BY <1>1
<1> QED BY <1>1, <1>2, <1>3, <1>4 DEF s

(* The first k requests of a queue are from k processes, and the rest of    *)
(* the queue has the requests of the others.                                *)
LEMMA PrefixLemma ==
  ASSUME NEW q \in Seq(Request), Distinct(q), NEW k \in 0 .. Len(q)
  PROVE  LET s == SubSeq(q, k + 1, Len(q))
             T == {q[i].source : i \in 1 .. k}
         IN  /\ s \in Seq(Request)
             /\ Distinct(s)
             /\ Sources(s) = Sources(q) \ T
             /\ \A i \in DOMAIN s : \E j \in DOMAIN q : s[i] = q[j]
             /\ T \subseteq Sources(q)
             /\ IsFiniteSet(T)
             /\ Cardinality(T) = k
<1> DEFINE s == SubSeq(q, k + 1, Len(q))
           T == {q[i].source : i \in 1 .. k}
<1>0. /\ Len(q) \in Nat /\ k \in Nat /\ k <= Len(q)
      /\ DOMAIN q = 1 .. Len(q)
      /\ \A i \in 1 .. Len(q) : q[i] \in Request
  BY LenProperties
<1>1. /\ s \in Seq(Request)
      /\ Len(s) = Len(q) - k
      /\ \A i \in 1 .. Len(q) - k : s[i] = q[k + i]
  <2>1. \A i \in k + 1 .. Len(q) : q[i] \in Request
    BY <1>0
  <2>2. k + 1 \in Int /\ Len(q) \in Int
    BY <1>0
  <2>3. PICK r : r = s
    OBVIOUS
  <2>4. /\ r \in Seq(Request)
        /\ Len(r) = IF k + 1 <= Len(q) THEN Len(q) - (k + 1) + 1 ELSE 0
        /\ \A i \in 1 .. Len(q) - (k + 1) + 1 : r[i] = q[(k + 1) + i - 1]
    BY <2>1, <2>2, <2>3, SubSeqProperties
  <2> HIDE DEF s
  <2>5. Len(r) = Len(q) - k
    <3>1. Len(r) = IF k + 1 <= Len(q) THEN Len(q) - (k + 1) + 1 ELSE 0
      BY <2>4
    <3>2. k \in Nat /\ Len(q) \in Nat /\ k <= Len(q)
      BY <1>0
    <3>3. CASE k + 1 <= Len(q)
      BY <3>1, <3>2, <3>3
    <3>4. CASE ~(k + 1 <= Len(q))
      BY <3>1, <3>2, <3>4
    <3> QED BY <3>3, <3>4
  <2>6. ASSUME NEW i \in 1 .. Len(q) - k PROVE r[i] = q[k + i]
    <3>1. i \in 1 .. Len(q) - (k + 1) + 1 /\ (k + 1) + i - 1 = k + i
      BY <1>0
    <3>2. r[i] = q[(k + 1) + i - 1]
      BY <2>4, <3>1
    <3> QED BY <3>1, <3>2
  <2> QED BY <2>3, <2>4, <2>5, <2>6
<1>2. DOMAIN s = 1 .. Len(q) - k
  BY <1>1, LenProperties
<1> HIDE DEF s
<1>3. Distinct(s)
  <2>1. ASSUME NEW i \in DOMAIN s, NEW j \in DOMAIN s, s[i].source = s[j].source
        PROVE  i = j
    <3>1. /\ i \in Int /\ j \in Int
          /\ k + i \in DOMAIN q /\ k + j \in DOMAIN q
      BY <1>0, <1>2
    <3>2. q[k + i].source = q[k + j].source
      BY <1>1, <1>2, <2>1
    <3>3. k + i = k + j
      BY <3>1, <3>2 DEF Distinct
    <3> QED BY <3>1, <3>3, <1>0
  <2> QED BY <2>1 DEF Distinct
<1>4. Sources(s) = Sources(q) \ T
  <2>1. ASSUME NEW x \in Sources(s) PROVE x \in Sources(q) \ T
    <3>1. PICK i \in 1 .. Len(q) - k : x = q[k + i].source
      BY <1>1, <1>2 DEF Sources
    <3>2. k + i \in DOMAIN q /\ k + i \notin 1 .. k
      BY <1>0
    <3> QED BY <1>0, <3>1, <3>2 DEF Sources, Distinct
  <2>2. ASSUME NEW x \in Sources(q) \ T PROVE x \in Sources(s)
    <3>1. PICK i \in 1 .. Len(q) : x = q[i].source
      BY <1>0 DEF Sources
    <3>2. i > k
      BY <1>0, <3>1
    <3>3. i - k \in 1 .. Len(q) - k /\ k + (i - k) = i
      BY <1>0, <3>2
    <3> QED BY <1>1, <1>2, <3>1, <3>3 DEF Sources
  <2> QED BY <2>1, <2>2
<1>5. \A i \in DOMAIN s : \E j \in DOMAIN q : s[i] = q[j]
  <2>1. \A i \in 1 .. Len(q) - k : k + i \in DOMAIN q
    BY <1>0
  <2> QED BY <1>1, <1>2, <2>1
<1>6. T \subseteq Sources(q)
  BY <1>0 DEF Sources
<1>7. IsFiniteSet(T) /\ Cardinality(T) = k
  <2> DEFINE f == [i \in 1 .. k |-> q[i].source]
  <2>1. f \in Bijection(1 .. k, T)
    BY <1>0 DEF Bijection, Injection, Surjection, IsInjective, Distinct
  <2>2. ExistsBijection(1 .. k, T)
    BY <2>1 DEF ExistsBijection
  <2> QED BY <1>0, <2>2, FS_CountingElements, FS_NatBijection
<1> QED BY <1>1, <1>3, <1>4, <1>5, <1>6, <1>7 DEF s

(* A queue without sources is empty.                                        *)
LEMMA EmptySources ==
  ASSUME NEW q \in Seq(Request), Sources(q) = {}
  PROVE  q = <<>>
<1>1. DOMAIN q = 1 .. Len(q) /\ Len(q) \in Nat
  BY LenProperties
<1>2. ASSUME q # <<>> PROVE FALSE
  <2>1. 1 \in DOMAIN q
    BY <1>1, <1>2, EmptySeq
  <2> QED BY <2>1 DEF Sources
<1> QED BY <1>2

(* A queue of the requests of P when some operations of other processes      *)
(* change, when a process joins it, and when the first k leave it.           *)
LEMMA SameQueue ==
  ASSUME NEW q, NEW P, NEW o, NEW o2, Queues(q, P, o), \A x \in P : o2[x] = o[x]
  PROVE  Queues(q, P, o2)
BY DEF Queues, Sources

LEMMA JoinQueue ==
  ASSUME NEW q \in Seq(Request), NEW P, NEW o, NEW o2, Queues(q, P, o),
         \A x \in P : o2[x] = o[x],
         NEW r \in Request, r.source \notin P, o2[r.source].type = r.type
  PROVE  /\ Append(q, r) \in Seq(Request)
         /\ Queues(Append(q, r), P \cup {r.source}, o2)
<1>1. Distinct(q) /\ Sources(q) = P
  BY DEF Queues
<1>2. PICK s : s = Append(q, r)
  OBVIOUS
<1>3. /\ s \in Seq(Request)
      /\ Distinct(s)
      /\ Sources(s) = P \cup {r.source}
      /\ \A i \in DOMAIN s : s[i] = r \/ \E j \in DOMAIN q : s[i] = q[j]
  BY <1>1, <1>2, AppendLemma
<1>4. \A j \in DOMAIN q : q[j].type = o2[q[j].source].type
  BY DEF Queues, Sources
<1>5. \A i \in DOMAIN s : s[i].type = o2[s[i].source].type
  BY <1>3, <1>4
<1> QED BY <1>2, <1>3, <1>5 DEF Queues

LEMMA LeaveQueue ==
  ASSUME NEW q \in Seq(Request), NEW P, NEW o, Queues(q, P, o),
         NEW k \in 0 .. Len(q)
  PROVE  /\ SubSeq(q, k + 1, Len(q)) \in Seq(Request)
         /\ Queues(SubSeq(q, k + 1, Len(q)), P \ First(q, k), o)
         /\ First(q, k) \subseteq P
         /\ Cardinality(First(q, k)) = k
<1>1. Distinct(q) /\ Sources(q) = P
  BY DEF Queues
<1>2. PICK s : s = SubSeq(q, k + 1, Len(q))
  OBVIOUS
<1>3. /\ s \in Seq(Request)
      /\ Distinct(s)
      /\ Sources(s) = P \ First(q, k)
      /\ \A i \in DOMAIN s : \E j \in DOMAIN q : s[i] = q[j]
      /\ First(q, k) \subseteq P
      /\ Cardinality(First(q, k)) = k
  BY <1>1, <1>2, PrefixLemma DEF First
<1>4. \A i \in DOMAIN s : s[i].type = o[s[i].source].type
  BY <1>3 DEF Queues
<1> QED BY <1>2, <1>3, <1>4 DEF Queues

LEMMA HeadLeaves ==
  ASSUME NEW q \in Seq(Request), NEW P, NEW o, Queues(q, P, o), q # <<>>
  PROVE  /\ Tail(q) \in Seq(Request)
         /\ Queues(Tail(q), P \ {Head(q).source}, o)
         /\ Head(q).source \in P
<1>1. Len(q) \in Nat /\ Len(q) # 0
  BY EmptySeq, LenProperties
<1>2. PICK k : k = 1
  OBVIOUS
<1>3. k \in 0 .. Len(q)
  BY <1>1, <1>2
<1>4. First(q, k) = {Head(q).source}
  <2>1. 1 .. k = {1}
    BY <1>2
  <2>2. Head(q) = q[1]
    OBVIOUS
  <2> QED BY <2>1, <2>2 DEF First
<1>5. Tail(q) = SubSeq(q, k + 1, Len(q))
  <2>1. k + 1 = 2
    BY <1>2
  <2> QED BY <2>1, TailIsSubSeq
<1>6. /\ SubSeq(q, k + 1, Len(q)) \in Seq(Request)
      /\ Queues(SubSeq(q, k + 1, Len(q)), P \ First(q, k), o)
      /\ First(q, k) \subseteq P
  BY <1>3, LeaveQueue
<1> QED BY <1>4, <1>5, <1>6

-----------------------------------------------------------------------------
(* Sets of processes *)

LEMMA SetLemma ==
  ASSUME NEW S \in SUBSET Rank
  PROVE  /\ IsFiniteSet(S)
         /\ Cardinality(S) \in Nat
         /\ S # {} <=> Cardinality(S) # 0
         /\ \A x \in S : Cardinality(S \ {x}) = Cardinality(S) - 1
         /\ \A x \in Rank \ S : Cardinality(S \cup {x}) = Cardinality(S) + 1
<1>1. IsFiniteSet(Rank)
  <2>1. 0 \in Int /\ N - 1 \in Int
    BY MutexAssumption
  <2> QED BY <2>1, FS_Interval DEF Rank
<1>2. IsFiniteSet(S)
  BY <1>1, FS_Subset
<1>3. Cardinality(S) \in Nat
  BY <1>2, FS_CardinalityType
<1> QED BY <1>2, <1>3, FS_EmptySet, FS_RemoveElement, FS_AddElement

LEMMA DisjointLemma ==
  ASSUME NEW S \in SUBSET Rank, NEW T \in SUBSET Rank, S \cap T = {}
  PROVE  Cardinality(S \cup T) = Cardinality(S) + Cardinality(T)
<1>1. /\ IsFiniteSet(S) /\ IsFiniteSet(T)
      /\ Cardinality(S) \in Nat /\ Cardinality(T) \in Nat
  BY SetLemma
<1>2. Cardinality(S \cup T) =
        Cardinality(S) + Cardinality(T) - Cardinality(S \cap T)
  BY <1>1, FS_Union
<1>3. Cardinality(S \cap T) = 0
  BY FS_EmptySet
<1> QED BY <1>1, <1>2, <1>3

LEMMA TypeSets ==
  /\ ExclusiveType \subseteq Type /\ SharedType \subseteq Type
  /\ ExclusiveType \cap SharedType = {}
  /\ ExclusiveType \cup SharedType = Type
  /\ NoOp.type \notin Type
  /\ NoOp \notin Op
BY DEF ExclusiveType, SharedType, Type, NoOp, Op

-----------------------------------------------------------------------------
(* What a step does to the locks and the queues *)

(* A step that leaves the mutexes alone, the locks to their owners and the  *)
(* pending requests pending.                                                *)
LEMMA FrameLemma ==
  ASSUME IInv, UNCHANGED mutexVars,
         \A q \in Rank : /\ Owns(q)' <=> Owns(q)
                         /\ Waits(q)' <=> Waits(q)
                         /\ Owns(q) \/ Waits(q) => op'[q] = op[q]
  PROVE  QueueInv' /\ LocksCounted' /\ SomebodyWillWake'
<1>1. ASSUME NEW n \in Node, NEW T \in SUBSET Type
      PROVE  Owners(n, T)' = Owners(n, T) /\ Pending(n, T)' = Pending(n, T)
  BY DEF Owners, Pending
<1>2. QueueInv'
  <2> SUFFICES ASSUME NEW n \in Node
               PROVE  /\ Queues(lockRequests[n], Pending(n, ExclusiveType), op)'
                      /\ Queues(lockSharedRequests[n], Pending(n, SharedType), op)'
    BY DEF QueueInv
  <2>1. /\ Pending(n, ExclusiveType)' = Pending(n, ExclusiveType)
        /\ Pending(n, SharedType)' = Pending(n, SharedType)
    BY <1>1, TypeSets
  <2>2. /\ Queues(lockRequests[n], Pending(n, ExclusiveType), op)
        /\ Queues(lockSharedRequests[n], Pending(n, SharedType), op)
    BY DEF IInv, QueueInv
  <2>3. \A q \in Pending(n, ExclusiveType) \cup Pending(n, SharedType) :
          op'[q] = op[q]
    BY DEF Pending
  <2>4. lockRequests' = lockRequests /\ lockSharedRequests' = lockSharedRequests
    BY DEF mutexVars
  <2>5. Queues(lockRequests[n], Pending(n, ExclusiveType), op)'
    BY <2>1, <2>2, <2>3, <2>4, SameQueue
  <2>6. Queues(lockSharedRequests[n], Pending(n, SharedType), op)'
    BY <2>1, <2>2, <2>3, <2>4, SameQueue
  <2> QED BY <2>5, <2>6
<1>3. LocksCounted'
  BY <1>1, TypeSets DEF IInv, LocksCounted, mutexVars
<1>4. SomebodyWillWake'
  BY <1>1 DEF IInv, SomebodyWillWake, mutexVars
<1> QED BY <1>2, <1>3, <1>4

(* A request granted at once: its process p becomes an owner.               *)
LEMMA TakeLemma ==
  ASSUME IInv, NEW p \in Rank, NEW n \in Node, NEW type \in Type,
         ~MustWait(n, type), TakeLock(n, type),
         ~Owns(p), ~Waits(p), Owns(p)', ~Waits(p)',
         op'[p] = [node |-> n, type |-> type],
         \A q \in Rank \ {p} : /\ Owns(q)' <=> Owns(q)
                               /\ Waits(q)' <=> Waits(q)
                               /\ op'[q] = op[q]
  PROVE  QueueInv' /\ LocksCounted' /\ SomebodyWillWake'
<1>1. ASSUME NEW m \in Node, NEW T \in SUBSET Type
      PROVE  /\ Pending(m, T)' = Pending(m, T)
             /\ Owners(m, T)' = IF m = n /\ type \in T
                                  THEN Owners(m, T) \cup {p} ELSE Owners(m, T)
             /\ p \notin Owners(m, T)
             /\ p \notin Pending(m, T)
  BY DEF Owners, Pending
<1>2. UNCHANGED <<lockRequests, lockSharedRequests>>
  BY DEF TakeLock
<1>3. QueueInv'
  <2> SUFFICES ASSUME NEW m \in Node
               PROVE  /\ Queues(lockRequests[m], Pending(m, ExclusiveType), op)'
                      /\ Queues(lockSharedRequests[m], Pending(m, SharedType), op)'
    BY DEF QueueInv
  <2>1. /\ Queues(lockRequests[m], Pending(m, ExclusiveType), op)
        /\ Queues(lockSharedRequests[m], Pending(m, SharedType), op)
    BY DEF IInv, QueueInv
  <2>2. \A q \in Pending(m, ExclusiveType) \cup Pending(m, SharedType) :
          op'[q] = op[q]
    BY <1>1, TypeSets DEF Pending
  <2>3. /\ Pending(m, ExclusiveType)' = Pending(m, ExclusiveType)
        /\ Pending(m, SharedType)' = Pending(m, SharedType)
    BY <1>1, TypeSets
  <2>4. Queues(lockRequests[m], Pending(m, ExclusiveType), op)'
    BY <1>2, <2>1, <2>2, <2>3, SameQueue
  <2>5. Queues(lockSharedRequests[m], Pending(m, SharedType), op)'
    BY <1>2, <2>1, <2>2, <2>3, SameQueue
  <2> QED BY <2>4, <2>5
<1>4. LocksCounted'
  <2> SUFFICES ASSUME NEW m \in Node
               PROVE  /\ locked'[m] <=> Owners(m, ExclusiveType)' # {}
                      /\ \A q, r \in Owners(m, ExclusiveType)' : q = r
                      /\ shared'[m] = Cardinality(Owners(m, SharedType)')
    BY DEF LocksCounted
  <2>1. /\ locked[m] <=> Owners(m, ExclusiveType) # {}
        /\ \A q, r \in Owners(m, ExclusiveType) : q = r
        /\ shared[m] = Cardinality(Owners(m, SharedType))
    BY DEF IInv, LocksCounted
  <2>2. /\ locked \in [Node -> BOOLEAN] /\ shared \in [Node -> Nat]
    BY DEF IInv, TypeOK
  <2>3. CASE m # n
    BY <1>1, <2>1, <2>2, <2>3, TypeSets DEF TakeLock
  <2>4. CASE m = n /\ type \in SharedType
    <3>1. shared'[m] = shared[m] + 1 /\ locked' = locked
      BY <2>2, <2>4 DEF TakeLock
    <3>2. /\ Owners(m, SharedType)' = Owners(m, SharedType) \cup {p}
          /\ Owners(m, ExclusiveType)' = Owners(m, ExclusiveType)
          /\ p \in Rank \ Owners(m, SharedType)
      BY <1>1, <2>4, TypeSets
    <3>3. Owners(m, SharedType) \in SUBSET Rank
      BY DEF Owners
    <3>4. Cardinality(Owners(m, SharedType) \cup {p}) = shared[m] + 1
      BY <2>1, <3>2, <3>3, SetLemma
    <3> QED BY <2>1, <3>1, <3>2, <3>4
  <2>5. CASE m = n /\ type \in ExclusiveType
    <3>1. locked'[m] /\ shared' = shared
      BY <2>2, <2>5, TypeSets DEF TakeLock
    <3>2. /\ Owners(m, SharedType)' = Owners(m, SharedType)
          /\ Owners(m, ExclusiveType)' = Owners(m, ExclusiveType) \cup {p}
      BY <1>1, <2>5, TypeSets
    <3>3. Owners(m, ExclusiveType) = {}
      BY <2>1, <2>5 DEF MustWait
    <3> QED BY <2>1, <3>1, <3>2, <3>3
  <2> QED BY <2>3, <2>4, <2>5, TypeSets
<1>5. SomebodyWillWake'
  BY <1>1, <1>2 DEF IInv, SomebodyWillWake
<1> QED BY <1>3, <1>4, <1>5

(* A request that must wait: its process p becomes pending, while another   *)
(* owns a lock.                                                             *)
LEMMA PushLemma ==
  ASSUME IInv, NEW p \in Rank, NEW n \in Node, NEW type \in Type,
         MustWait(n, type), PushRequest(n, [source |-> p, type |-> type]),
         ~Owns(p), ~Waits(p), ~Owns(p)', Waits(p)',
         op'[p] = [node |-> n, type |-> type],
         \A q \in Rank \ {p} : /\ Owns(q)' <=> Owns(q)
                               /\ Waits(q)' <=> Waits(q)
                               /\ op'[q] = op[q]
  PROVE  QueueInv' /\ LocksCounted' /\ SomebodyWillWake'
<1> DEFINE r == [source |-> p, type |-> type]
<1>1. ASSUME NEW m \in Node, NEW T \in SUBSET Type
      PROVE  /\ Owners(m, T)' = Owners(m, T)
             /\ Pending(m, T)' = IF m = n /\ type \in T
                                  THEN Pending(m, T) \cup {p} ELSE Pending(m, T)
             /\ p \notin Pending(m, T)
             /\ Pending(m, T) \in SUBSET Rank
             /\ \A q \in Pending(m, T) : op'[q] = op[q]
  BY DEF Owners, Pending
<1>2. UNCHANGED <<locked, shared>>
  BY DEF PushRequest
<1>3. r \in Request /\ r.source = p /\ r.type = type
  BY DEF Request
<1>4. /\ lockRequests \in [Node -> Seq(Request)]
      /\ lockSharedRequests \in [Node -> Seq(Request)]
  BY DEF IInv, TypeOK
<1>5. /\ lockSharedRequests' = IF type \in SharedType
           THEN [lockSharedRequests EXCEPT ![n] = Append(@, r)]
           ELSE lockSharedRequests
      /\ lockRequests' = IF type \in SharedType THEN lockRequests
           ELSE [lockRequests EXCEPT ![n] = Append(@, r)]
  BY <1>3 DEF PushRequest
<1> HIDE DEF r
<1>6. QueueInv'
  <2> SUFFICES ASSUME NEW m \in Node
               PROVE  /\ Queues(lockRequests[m], Pending(m, ExclusiveType), op)'
                      /\ Queues(lockSharedRequests[m], Pending(m, SharedType), op)'
    BY DEF QueueInv
  <2>1. /\ Queues(lockRequests[m], Pending(m, ExclusiveType), op)
        /\ Queues(lockSharedRequests[m], Pending(m, SharedType), op)
    BY DEF IInv, QueueInv
  <2>2. Queues(lockRequests[m], Pending(m, ExclusiveType), op)'
    <3>1. CASE m = n /\ type \in ExclusiveType
      <4>1. lockRequests'[m] = Append(lockRequests[m], r)
        BY <1>4, <1>5, <3>1, TypeSets
      <4>2. Pending(m, ExclusiveType)' = Pending(m, ExclusiveType) \cup {p}
        BY <1>1, <3>1, TypeSets
      <4>3. /\ p \notin Pending(m, ExclusiveType)
            /\ Pending(m, ExclusiveType) \in SUBSET Rank
            /\ \A q \in Pending(m, ExclusiveType) : op'[q] = op[q]
        BY <1>1, TypeSets
      <4>4. lockRequests[m] \in Seq(Request) /\ op'[r.source].type = r.type
        BY <1>3, <1>4
      <4>5. Queues(Append(lockRequests[m], r), Pending(m, ExclusiveType) \cup {p}, op')
        BY <1>3, <2>1, <4>3, <4>4, JoinQueue
      <4> QED BY <4>1, <4>2, <4>5
    <3>2. CASE ~(m = n /\ type \in ExclusiveType)
      <4>1. lockRequests'[m] = lockRequests[m]
        BY <1>4, <1>5, <3>2, TypeSets
      <4>2. Pending(m, ExclusiveType)' = Pending(m, ExclusiveType)
        BY <1>1, <3>2, TypeSets
      <4> QED BY <1>1, <2>1, <4>1, <4>2, TypeSets, SameQueue
    <3> QED BY <3>1, <3>2
  <2>3. Queues(lockSharedRequests[m], Pending(m, SharedType), op)'
    <3>1. CASE m = n /\ type \in SharedType
      <4>1. lockSharedRequests'[m] = Append(lockSharedRequests[m], r)
        BY <1>4, <1>5, <3>1, TypeSets
      <4>2. Pending(m, SharedType)' = Pending(m, SharedType) \cup {p}
        BY <1>1, <3>1, TypeSets
      <4>3. /\ p \notin Pending(m, SharedType)
            /\ Pending(m, SharedType) \in SUBSET Rank
            /\ \A q \in Pending(m, SharedType) : op'[q] = op[q]
        BY <1>1, TypeSets
      <4>4. lockSharedRequests[m] \in Seq(Request) /\ op'[r.source].type = r.type
        BY <1>3, <1>4
      <4>5. Queues(Append(lockSharedRequests[m], r), Pending(m, SharedType) \cup {p}, op')
        BY <1>3, <2>1, <4>3, <4>4, JoinQueue
      <4> QED BY <4>1, <4>2, <4>5
    <3>2. CASE ~(m = n /\ type \in SharedType)
      <4>1. lockSharedRequests'[m] = lockSharedRequests[m]
        BY <1>4, <1>5, <3>2, TypeSets
      <4>2. Pending(m, SharedType)' = Pending(m, SharedType)
        BY <1>1, <3>2, TypeSets
      <4> QED BY <1>1, <2>1, <4>1, <4>2, TypeSets, SameQueue
    <3> QED BY <3>1, <3>2
  <2> QED BY <2>2, <2>3
<1>7. LocksCounted'
  BY <1>1, <1>2, TypeSets DEF IInv, LocksCounted
<1>8. SomebodyWillWake'
  <2>1. Owners(n, Type) # {}
    <3>1. CASE locked[n]
      <4>1. Owners(n, ExclusiveType) # {}
        BY <3>1 DEF IInv, LocksCounted
      <4> QED BY <4>1, TypeSets DEF Owners
    <3>2. CASE shared[n] > 0
      <4>1. shared[n] = Cardinality(Owners(n, SharedType)) /\ shared[n] # 0
        BY <3>2 DEF IInv, LocksCounted, TypeOK
      <4>2. Owners(n, SharedType) # {}
        BY <4>1, SetLemma DEF Owners
      <4> QED BY <4>2, TypeSets DEF Owners
    <3> QED BY <3>1, <3>2 DEF MustWait
  <2>2. ASSUME NEW m \in Node, m # n
        PROVE  lockRequests'[m] = lockRequests[m]
                 /\ lockSharedRequests'[m] = lockSharedRequests[m]
    BY <1>4, <1>5, <2>2
  <2> QED BY <1>1, <2>1, <2>2 DEF IInv, SomebodyWillWake
<1> QED BY <1>6, <1>7, <1>8

(* A release the host does not look at the queues for: another process      *)
(* still owns a shared lock.                                                *)
LEMMA QuietLemma ==
  ASSUME IInv, NEW p \in Rank, NEW n \in Node,
         op[p].node = n, op[p].type \in SharedType, shared[n] # 1,
         locked' = locked, shared' = [shared EXCEPT ![n] = @ - 1],
         UNCHANGED <<lockRequests, lockSharedRequests>>,
         Owns(p), ~Owns(p)', ~Waits(p), ~Waits(p)',
         \A q \in Rank \ {p} : /\ Owns(q)' <=> Owns(q)
                               /\ Waits(q)' <=> Waits(q)
                               /\ op'[q] = op[q]
  PROVE  QueueInv' /\ LocksCounted' /\ SomebodyWillWake'
<1>1. ASSUME NEW m \in Node, NEW T \in SUBSET Type
      PROVE  /\ Pending(m, T)' = Pending(m, T)
             /\ Owners(m, T)' = IF m = n /\ op[p].type \in T
                                  THEN Owners(m, T) \ {p} ELSE Owners(m, T)
             /\ m = n /\ op[p].type \in T => p \in Owners(m, T)
             /\ \A q \in Pending(m, T) : op'[q] = op[q]
  BY DEF Owners, Pending
<1>2. QueueInv'
  <2> SUFFICES ASSUME NEW m \in Node
               PROVE  /\ Queues(lockRequests[m], Pending(m, ExclusiveType), op)'
                      /\ Queues(lockSharedRequests[m], Pending(m, SharedType), op)'
    BY DEF QueueInv
  <2>1. /\ Queues(lockRequests[m], Pending(m, ExclusiveType), op)
        /\ Queues(lockSharedRequests[m], Pending(m, SharedType), op)
    BY DEF IInv, QueueInv
  <2>2. Queues(lockRequests[m], Pending(m, ExclusiveType), op)'
    BY <1>1, <2>1, TypeSets, SameQueue
  <2>3. Queues(lockSharedRequests[m], Pending(m, SharedType), op)'
    BY <1>1, <2>1, TypeSets, SameQueue
  <2> QED BY <2>2, <2>3
<1>3. /\ shared \in [Node -> Nat]
      /\ shared[n] = Cardinality(Owners(n, SharedType))
      /\ p \in Owners(n, SharedType)
      /\ Owners(n, SharedType) \in SUBSET Rank
  BY <1>1, TypeSets DEF IInv, TypeOK, LocksCounted, Owners
<1>4. Cardinality(Owners(n, SharedType) \ {p}) = shared[n] - 1
  BY <1>3, SetLemma
<1>5. LocksCounted'
  <2> SUFFICES ASSUME NEW m \in Node
               PROVE  /\ locked'[m] <=> Owners(m, ExclusiveType)' # {}
                      /\ \A q, r \in Owners(m, ExclusiveType)' : q = r
                      /\ shared'[m] = Cardinality(Owners(m, SharedType)')
    BY DEF LocksCounted
  <2>1. /\ locked[m] <=> Owners(m, ExclusiveType) # {}
        /\ \A q, r \in Owners(m, ExclusiveType) : q = r
        /\ shared[m] = Cardinality(Owners(m, SharedType))
    BY DEF IInv, LocksCounted
  <2>2. Owners(m, ExclusiveType)' = Owners(m, ExclusiveType)
    BY <1>1, TypeSets
  <2>3. shared'[m] = Cardinality(Owners(m, SharedType)')
    <3>1. CASE m = n
      BY <1>1, <1>3, <1>4, <3>1, TypeSets
    <3>2. CASE m # n
      BY <1>1, <1>3, <2>1, <3>2, TypeSets
    <3> QED BY <3>1, <3>2
  <2> QED BY <2>1, <2>2, <2>3
<1>6. SomebodyWillWake'
  <2>1. Owners(n, SharedType) \ {p} # {}
    <3>1. shared[n] - 1 # 0
      BY <1>3
    <3>2. Owners(n, SharedType) \ {p} \in SUBSET Rank
      BY <1>3
    <3> QED BY <1>4, <3>1, <3>2, SetLemma
  <2>2. Owners(n, Type)' # {}
    <3>1. Owners(n, SharedType) \subseteq Owners(n, Type)
      BY TypeSets DEF Owners
    <3> QED BY <1>1, <2>1, <3>1, TypeSets
  <2>3. ASSUME NEW m \in Node, m # n PROVE Owners(m, Type)' = Owners(m, Type)
    BY <1>1, <2>3
  <2> QED BY <2>2, <2>3 DEF IInv, SomebodyWillWake
<1> QED BY <1>2, <1>5, <1>6

-----------------------------------------------------------------------------
(* Grants *)

\* The processes whose requests respondToRequests() takes.
Readers(n) == First(lockSharedRequests[n], SharedToProcess(n))
Writers(n) == IF LockToProcess(n) THEN {Head(lockRequests[n]).source} ELSE {}

(* requestsToProcess() takes a prefix of each queue, and something if there *)
(* is something: a LOCAL request stops it, but is itself taken.             *)
LEMMA Taken ==
  ASSUME IInv, NEW n \in Node
  PROVE  LET k == SharedToProcess(n)
             rest == SubSeq(lockSharedRequests[n], k + 1, Len(lockSharedRequests[n]))
         IN  /\ k \in Nat
             /\ rest \in Seq(Request)
             /\ Queues(rest, Pending(n, SharedType) \ Readers(n), op)
             /\ Readers(n) \subseteq Pending(n, SharedType)
             /\ Cardinality(Readers(n)) = k
             /\ Writers(n) \subseteq Pending(n, ExclusiveType)
             /\ \A x, y \in Writers(n) : x = y
             /\ LockToProcess(n) <=> Writers(n) # {}
             /\ LockToProcess(n) =>
                  /\ Tail(lockRequests[n]) \in Seq(Request)
                  /\ Queues(Tail(lockRequests[n]),
                            Pending(n, ExclusiveType) \ Writers(n), op)
             /\ lockRequests[n] # <<>> \/ lockSharedRequests[n] # <<>> =>
                  Readers(n) \cup Writers(n) # {}
<1> DEFINE qe == lockRequests[n]
           qs == lockSharedRequests[n]
           k == SharedToProcess(n)
<1>1. /\ qe \in Seq(Request) /\ qs \in Seq(Request)
      /\ Queues(qe, Pending(n, ExclusiveType), op)
      /\ Queues(qs, Pending(n, SharedType), op)
  BY DEF IInv, TypeOK, QueueInv
<1>2. /\ Len(qs) \in Nat /\ DOMAIN qs = 1 .. Len(qs)
      /\ qs # <<>> => Len(qs) # 0
  BY <1>1, LenProperties, EmptySeq
<1>3. /\ k \in 0 .. Len(qs)
      /\ LocalShared(n) = {} => k = Len(qs)
      /\ LocalShared(n) # {} => k # 0
  <2>1. CASE LocalShared(n) = {}
    BY <1>2, <2>1 DEF SharedToProcess
  <2>2. CASE LocalShared(n) # {}
    <3>1. \A i, j \in LocalShared(n) : i = j
      BY <1>1 DEF LocalShared, Queues, Distinct
    <3>2. LocalShared(n) \subseteq 1 .. Len(qs)
      BY <1>2 DEF LocalShared
    <3>3. \E i \in LocalShared(n) : \A j \in LocalShared(n) : i <= j
      BY <2>2, <3>1, <3>2, <1>2
    <3>4. k \in LocalShared(n)
      BY <2>2, <3>3 DEF SharedToProcess
    <3> QED BY <2>2, <3>2, <3>4, <1>2
  <2> QED BY <2>1, <2>2
<1> HIDE DEF k
<1>4. /\ SubSeq(qs, k + 1, Len(qs)) \in Seq(Request)
      /\ Queues(SubSeq(qs, k + 1, Len(qs)), Pending(n, SharedType) \ First(qs, k), op)
      /\ First(qs, k) \subseteq Pending(n, SharedType)
      /\ Cardinality(First(qs, k)) = k
  BY <1>1, <1>3, LeaveQueue
<1>5. Readers(n) = First(qs, k)
  BY DEF Readers, k
<1>6. /\ Writers(n) \subseteq Pending(n, ExclusiveType)
      /\ LockToProcess(n) =>
           /\ Tail(qe) \in Seq(Request)
           /\ Queues(Tail(qe), Pending(n, ExclusiveType) \ Writers(n), op)
  <2>1. CASE LockToProcess(n)
    <3>1. qe # <<>> /\ Writers(n) = {Head(qe).source}
      BY <2>1 DEF LockToProcess, Writers
    <3>2. /\ Tail(qe) \in Seq(Request)
          /\ Queues(Tail(qe), Pending(n, ExclusiveType) \ {Head(qe).source}, op)
          /\ Head(qe).source \in Pending(n, ExclusiveType)
      <4> HIDE DEF qe
      <4> QED BY <1>1, <3>1, HeadLeaves
    <3> QED BY <3>1, <3>2
  <2>2. CASE ~LockToProcess(n)
    BY <2>2 DEF Writers
  <2> QED BY <2>1, <2>2
<1>7. qe # <<>> \/ qs # <<>> => Readers(n) \cup Writers(n) # {}
  <2>1. CASE k # 0
    <3>1. Readers(n) \in SUBSET Rank
      BY <1>4, <1>5 DEF Pending
    <3> QED BY <1>4, <1>5, <2>1, <3>1, SetLemma
  <2>2. CASE k = 0
    <3>1. LocalShared(n) = {} /\ qs = <<>>
      BY <1>2, <1>3, <2>2
    <3>2. ASSUME qe # <<>> PROVE Writers(n) # {}
      BY <3>1, <3>2 DEF Writers, LockToProcess
    <3> QED BY <3>1, <3>2
  <2> QED BY <2>1, <2>2
<1>8. k \in Nat
  BY <1>2, <1>3
<1>9. /\ \A x, y \in Writers(n) : x = y
      /\ LockToProcess(n) <=> Writers(n) # {}
  BY DEF Writers
<1> QED BY <1>4, <1>5, <1>6, <1>7, <1>8, <1>9 DEF k

\* The lock state that p's release leaves on node n, and what is granted then.
StillLocked(n, p) == locked[n] /\ op[p].type \in SharedType
StillShared(n, p) ==
  IF op[p].type \in SharedType THEN shared[n] - 1 ELSE shared[n]
Granted(n, p) == IF StillLocked(n, p) THEN {} ELSE Readers(n) \cup Writers(n)

(* What a release of p with a look at the queues does to the processes: a   *)
(* LOCAL grant wakes the host up, a DISTANT one is a response.              *)
LEMMA GrantStatus ==
  ASSUME IInv, NEW p \in Rank, NEW n \in Node, NEW d \in Value,
         pc[p] \in {"holding", "releasing"},
         RespondToRequests(n, StillLocked(n, p), StillShared(n, p), d, p)
  PROVE  /\ pc' \in [Rank -> {"idle", "sending", "awaiting", "waiting", "holding",
                              "releasing", "terminating"}]
         /\ response' \in [Rank -> Value \cup {NoResponse}]
         /\ p \notin Granted(n, p)
         /\ pc'[p] = "idle" /\ response'[p] = NoResponse
         /\ \A q \in Granted(n, p) :
              /\ q \in Rank \ {p} /\ op[q].node = n /\ Waits(q)
              /\ response[q] = NoResponse
              /\ IF q = Host[n]
                   THEN /\ pc[q] = "waiting" /\ pc'[q] = "holding"
                        /\ response'[q] = NoResponse
                   ELSE /\ pc[q] = "awaiting" /\ pc'[q] = "awaiting"
                        /\ response'[q] = d
         /\ \A q \in Rank \ {p} : q \notin Granted(n, p) =>
              pc'[q] = pc[q] /\ response'[q] = response[q]
<1> DEFINE G == Granted(n, p)
<1>1. /\ response' = [q \in Rank |-> IF q \in G \ {Host[n]} THEN d ELSE response[q]]
      /\ pc' = [q \in Rank |->
           IF q = p THEN "idle"
           ELSE IF q = Host[n] /\ q \in G THEN "holding" ELSE pc[q]]
  BY DEF RespondToRequests, Granted, Readers, Writers, First
<1>2. \A q \in G : q \in Rank /\ Waits(q) /\ op[q].node = n
  BY Taken DEF Granted, Pending
<1> HIDE DEF G
<1>3. /\ pc \in [Rank -> {"idle", "sending", "awaiting", "waiting", "holding",
                          "releasing", "terminating"}]
      /\ response \in [Rank -> Value \cup {NoResponse}]
  BY DEF IInv, TypeOK
<1>4. \A q \in Rank : /\ response[q] # NoResponse => pc[q] = "awaiting"
                      /\ pc[q] = "awaiting" => Host[op[q].node] # q
                      /\ pc[q] = "waiting" => Host[op[q].node] = q
  BY DEF IInv, ClientInv
<1>5. p \notin G
  BY <1>2 DEF Waits
<1>6. pc'[p] = "idle" /\ response'[p] = NoResponse
  BY <1>1, <1>4, <1>5
<1>7. ASSUME NEW q \in G
      PROVE  /\ q \in Rank \ {p} /\ op[q].node = n /\ Waits(q)
             /\ response[q] = NoResponse
             /\ IF q = Host[n]
                  THEN /\ pc[q] = "waiting" /\ pc'[q] = "holding"
                       /\ response'[q] = NoResponse
                  ELSE /\ pc[q] = "awaiting" /\ pc'[q] = "awaiting"
                       /\ response'[q] = d
  <2>1. q \in Rank \ {p} /\ op[q].node = n /\ Waits(q)
    BY <1>2, <1>5
  <2>2. response[q] = NoResponse
    BY <1>4, <2>1 DEF Waits
  <2>3. CASE q = Host[n]
    BY <1>1, <1>4, <2>1, <2>2, <2>3 DEF Waits
  <2>4. CASE q # Host[n]
    BY <1>1, <1>4, <2>1, <2>2, <2>4 DEF Waits
  <2> QED BY <2>1, <2>2, <2>3, <2>4
<1>8. \A q \in Rank \ {p} : q \notin G =>
        pc'[q] = pc[q] /\ response'[q] = response[q]
  BY <1>1
<1>9. /\ pc' \in [Rank -> {"idle", "sending", "awaiting", "waiting", "holding",
                           "releasing", "terminating"}]
      /\ response' \in [Rank -> Value \cup {NoResponse}]
  BY <1>1, <1>3
<1> QED BY <1>5, <1>6, <1>7, <1>8, <1>9 DEF G

(* A release of p with a look at the queues: p is no owner any more, the    *)
(* granted processes are.                                                   *)
LEMMA GrantLemma ==
  ASSUME IInv, NEW p \in Rank, NEW n \in Node, NEW d \in Value,
         pc[p] \in {"holding", "releasing"},
         op[p].node = n, op[p].type \in Type,
         RespondToRequests(n, StillLocked(n, p), StillShared(n, p), d, p),
         op' = [op EXCEPT ![p] = NoOp]
  PROVE  /\ QueueInv' /\ LocksCounted' /\ SomebodyWillWake'
         /\ locked' \in [Node -> BOOLEAN] /\ shared' \in [Node -> Nat]
         /\ lockRequests' \in [Node -> Seq(Request)]
         /\ lockSharedRequests' \in [Node -> Seq(Request)]
<1> DEFINE G == Granted(n, p)
           lk == StillLocked(n, p)
           k == SharedToProcess(n)
           R == IF lk THEN {} ELSE Readers(n)
           W == IF lk THEN {} ELSE Writers(n)
<1>1. /\ op \in [Rank -> Op \cup {NoOp}]
      /\ locked \in [Node -> BOOLEAN] /\ shared \in [Node -> Nat]
      /\ lockRequests \in [Node -> Seq(Request)]
      /\ lockSharedRequests \in [Node -> Seq(Request)]
  BY DEF IInv, TypeOK
<1>2. /\ locked' = [locked EXCEPT ![n] = lk \/ Writers(n) # {}]
      /\ shared' = [shared EXCEPT ![n] = IF lk THEN StillShared(n, p)
                                               ELSE StillShared(n, p) + k]
      /\ lockSharedRequests' = [lockSharedRequests EXCEPT ![n] =
           IF lk THEN @ ELSE SubSeq(@, k + 1, Len(@))]
      /\ lockRequests' = [lockRequests EXCEPT ![n] =
           IF ~lk /\ LockToProcess(n) THEN Tail(@) ELSE @]
  BY DEF RespondToRequests, Writers
<1>3. /\ G = R \cup W
      /\ R \subseteq Pending(n, SharedType)
      /\ W \subseteq Pending(n, ExclusiveType)
      /\ \A x, y \in W : x = y
  BY Taken DEF Granted
<1>4. /\ Owns(p) /\ ~Owns(p)' /\ ~Waits(p) /\ ~Waits(p)'
      /\ p \notin G
      /\ \A q \in G : /\ q \in Rank \ {p} /\ op[q].node = n
                      /\ Waits(q) /\ ~Owns(q) /\ ~Waits(q)' /\ Owns(q)'
      /\ \A q \in Rank \ {p} : q \notin G =>
           (Owns(q)' <=> Owns(q)) /\ (Waits(q)' <=> Waits(q))
      /\ \A q \in Rank \ {p} : op'[q] = op[q]
  <2>1. d # NoResponse
    BY MutexAssumption DEF Value, NoResponse, Rank
  <2> QED BY <1>1, <2>1, GrantStatus DEF Owns, Waits
<1>5. ASSUME NEW m \in Node, NEW T \in SUBSET Type
      PROVE  /\ Pending(m, T)' = Pending(m, T) \ G
             /\ m # n => /\ Owners(m, T)' = Owners(m, T)
                         /\ Pending(m, T)' = Pending(m, T)
             /\ Owners(n, T)' = (Owners(n, T) \ {p}) \cup {q \in G : op[q].type \in T}
             /\ \A q \in Pending(m, T) : op'[q] = op[q]
             /\ Owners(n, T) \cap Pending(n, T) = {}
  <2> HIDE DEF G
  <2>1. Pending(m, T)' = Pending(m, T) \ G
    BY <1>4 DEF Pending
  <2>2. ASSUME m # n
        PROVE  Owners(m, T)' = Owners(m, T) /\ Pending(m, T)' = Pending(m, T)
    <3>1. \A q \in G \cup {p} : q \notin Owners(m, T)' \cup Owners(m, T)
      BY <1>4, <2>2 DEF Owners
    <3>2. \A q \in Rank \ (G \cup {p}) : q \in Owners(m, T)' <=> q \in Owners(m, T)
      BY <1>4 DEF Owners
    <3>3. Owners(m, T)' \subseteq Rank /\ Owners(m, T) \subseteq Rank
      BY DEF Owners
    <3>4. Pending(m, T) \cap G = {}
      BY <1>4, <2>2 DEF Pending
    <3> QED BY <2>1, <3>1, <3>2, <3>3, <3>4
  <2>3. Owners(n, T)' = (Owners(n, T) \ {p}) \cup {q \in G : op[q].type \in T}
    <3>1. p \notin Owners(n, T)'
      BY <1>4 DEF Owners
    <3>2. \A q \in G : q \in Owners(n, T)' <=> op[q].type \in T
      BY <1>4 DEF Owners
    <3>3. \A q \in Rank \ (G \cup {p}) : q \in Owners(n, T)' <=> q \in Owners(n, T)
      BY <1>4 DEF Owners
    <3>4. \A q \in G : q \notin Owners(n, T)
      BY <1>4 DEF Owners
    <3>5. Owners(n, T)' \subseteq Rank /\ Owners(n, T) \subseteq Rank
      BY DEF Owners
    <3> QED BY <1>4, <3>1, <3>2, <3>3, <3>4, <3>5
  <2>4. \A q \in Pending(m, T) : op'[q] = op[q]
    BY <1>4 DEF Pending
  <2>5. Owners(n, T) \cap Pending(n, T) = {}
    BY DEF Owners, Pending, Owns, Waits
  <2> QED BY <2>1, <2>2, <2>3, <2>4, <2>5
<1>6. /\ {q \in G : op[q].type \in SharedType} = R
      /\ {q \in G : op[q].type \in ExclusiveType} = W
      /\ Pending(n, SharedType) \ G = Pending(n, SharedType) \ R
      /\ Pending(n, ExclusiveType) \ G = Pending(n, ExclusiveType) \ W
  BY <1>3, TypeSets DEF Pending
<1> HIDE DEF G
<1>7. /\ lockRequests'[n] \in Seq(Request)
      /\ Queues(lockRequests'[n], Pending(n, ExclusiveType) \ W, op)
      /\ lockSharedRequests'[n] \in Seq(Request)
      /\ Queues(lockSharedRequests'[n], Pending(n, SharedType) \ R, op)
  <2>1. /\ Queues(lockRequests[n], Pending(n, ExclusiveType), op)
        /\ Queues(lockSharedRequests[n], Pending(n, SharedType), op)
    BY DEF IInv, QueueInv
  <2>2. CASE lk
    <3>1. lockRequests'[n] = lockRequests[n]
            /\ lockSharedRequests'[n] = lockSharedRequests[n]
      BY <1>1, <1>2, <2>2
    <3>2. /\ Pending(n, ExclusiveType) \ W = Pending(n, ExclusiveType)
          /\ Pending(n, SharedType) \ R = Pending(n, SharedType)
      BY <2>2
    <3> QED BY <1>1, <2>1, <3>1, <3>2
  <2>3. CASE ~lk
    <3>1. lockSharedRequests'[n] =
            SubSeq(lockSharedRequests[n], k + 1, Len(lockSharedRequests[n]))
      BY <1>1, <1>2, <2>3
    <3>2. lockRequests'[n] = IF LockToProcess(n) THEN Tail(lockRequests[n])
                                                 ELSE lockRequests[n]
      BY <1>1, <1>2, <2>3
    <3>3. R = Readers(n) /\ W = Writers(n)
      BY <2>3
    <3>4. /\ lockSharedRequests'[n] \in Seq(Request)
          /\ Queues(lockSharedRequests'[n], Pending(n, SharedType) \ R, op)
      <4> HIDE DEF R
      <4> QED BY <3>1, <3>3, Taken
    <3>5. CASE LockToProcess(n)
      <4>1. /\ Tail(lockRequests[n]) \in Seq(Request)
            /\ Queues(Tail(lockRequests[n]), Pending(n, ExclusiveType) \ Writers(n), op)
        BY <3>5, Taken
      <4> QED BY <3>2, <3>3, <3>4, <3>5, <4>1
    <3>6. CASE ~LockToProcess(n)
      <4>1. Pending(n, ExclusiveType) \ W = Pending(n, ExclusiveType)
        BY <3>3, <3>6 DEF Writers
      <4>2. lockRequests'[n] = lockRequests[n]
        BY <3>2, <3>6
      <4> QED BY <1>1, <2>1, <3>4, <4>1, <4>2
    <3> QED BY <3>5, <3>6
  <2> QED BY <2>2, <2>3
<1>8. QueueInv'
  <2> SUFFICES ASSUME NEW m \in Node
               PROVE  /\ Queues(lockRequests[m], Pending(m, ExclusiveType), op)'
                      /\ Queues(lockSharedRequests[m], Pending(m, SharedType), op)'
    BY DEF QueueInv
  <2>1. CASE m = n
    <3>1. /\ Pending(m, ExclusiveType)' = Pending(n, ExclusiveType) \ W
          /\ Pending(m, SharedType)' = Pending(n, SharedType) \ R
          /\ \A q \in Pending(n, ExclusiveType) \ W : op'[q] = op[q]
          /\ \A q \in Pending(n, SharedType) \ R : op'[q] = op[q]
      BY <1>5, <1>6, <2>1, TypeSets
    <3>2. /\ Queues(lockRequests'[n], Pending(n, ExclusiveType) \ W, op')
          /\ Queues(lockSharedRequests'[n], Pending(n, SharedType) \ R, op')
      <4> DEFINE PE == Pending(n, ExclusiveType) \ W
                 PS == Pending(n, SharedType) \ R
      <4>1. Queues(lockRequests'[n], PE, op) /\ \A q \in PE : op'[q] = op[q]
        BY <1>7, <3>1
      <4>2. Queues(lockSharedRequests'[n], PS, op) /\ \A q \in PS : op'[q] = op[q]
        BY <1>7, <3>1
      <4> HIDE DEF PE, PS
      <4>3. Queues(lockRequests'[n], PE, op')
        BY <4>1, SameQueue, ZenonT(60)
      <4>4. Queues(lockSharedRequests'[n], PS, op')
        BY <4>2, SameQueue, ZenonT(60)
      <4> QED BY <4>3, <4>4 DEF PE, PS
    <3> QED BY <2>1, <3>1, <3>2
  <2>2. CASE m # n
    <3>1. lockRequests'[m] = lockRequests[m]
            /\ lockSharedRequests'[m] = lockSharedRequests[m]
      BY <1>1, <1>2, <2>2
    <3>2. /\ Pending(m, ExclusiveType)' = Pending(m, ExclusiveType)
          /\ Pending(m, SharedType)' = Pending(m, SharedType)
          /\ \A q \in Pending(m, ExclusiveType) : op'[q] = op[q]
          /\ \A q \in Pending(m, SharedType) : op'[q] = op[q]
      BY <1>5, <2>2, TypeSets
    <3>3. /\ Queues(lockRequests[m], Pending(m, ExclusiveType), op)
          /\ Queues(lockSharedRequests[m], Pending(m, SharedType), op)
      BY DEF IInv, QueueInv
    <3>4. /\ Queues(lockRequests[m], Pending(m, ExclusiveType), op')
          /\ Queues(lockSharedRequests[m], Pending(m, SharedType), op')
      BY <3>2, <3>3, SameQueue
    <3> QED BY <3>1, <3>2, <3>4
  <2> QED BY <2>1, <2>2
<1>9. /\ lockRequests' \in [Node -> Seq(Request)]
      /\ lockSharedRequests' \in [Node -> Seq(Request)]
  <2>1. /\ lockRequests' = [lockRequests EXCEPT ![n] = lockRequests'[n]]
        /\ lockSharedRequests' = [lockSharedRequests EXCEPT ![n] = lockSharedRequests'[n]]
    BY <1>1, <1>2
  <2> QED BY <1>1, <1>7, <2>1
<1>10. /\ locked[n] <=> Owners(n, ExclusiveType) # {}
       /\ \A x, y \in Owners(n, ExclusiveType) : x = y
       /\ shared[n] = Cardinality(Owners(n, SharedType))
  BY DEF IInv, LocksCounted
<1>11. /\ op[p].type \in SharedType => /\ p \in Owners(n, SharedType)
                                       /\ p \notin Owners(n, ExclusiveType)
       /\ op[p].type \notin SharedType => /\ p \notin Owners(n, SharedType)
                                          /\ p \in Owners(n, ExclusiveType)
  BY <1>4, TypeSets DEF Owners
<1>12. /\ locked'[n] <=> Owners(n, ExclusiveType)' # {}
       /\ \A x, y \in Owners(n, ExclusiveType)' : x = y
  <2>1. Owners(n, ExclusiveType)' = (Owners(n, ExclusiveType) \ {p}) \cup W
    BY <1>5, <1>6, TypeSets
  <2>2. locked'[n] <=> lk \/ Writers(n) # {}
    BY <1>1, <1>2
  <2>3. CASE lk
    <3>1. locked[n] /\ op[p].type \in SharedType
      BY <2>3 DEF StillLocked
    <3>2. Owners(n, ExclusiveType)' = Owners(n, ExclusiveType)
      BY <1>11, <2>1, <2>3, <3>1
    <3> QED BY <1>10, <2>2, <2>3, <3>1, <3>2
  <2>4. CASE ~lk
    <3>1. Owners(n, ExclusiveType) \ {p} = {}
      BY <1>10, <1>11, <2>4 DEF StillLocked
    <3>2. Owners(n, ExclusiveType)' = Writers(n)
      BY <2>1, <2>4, <3>1
    <3> QED BY <1>3, <2>2, <2>4, <3>2
  <2> QED BY <2>3, <2>4
<1>13. shared'[n] \in Nat /\ shared'[n] = Cardinality(Owners(n, SharedType)')
  <2>1. Owners(n, SharedType)' = (Owners(n, SharedType) \ {p}) \cup R
    BY <1>5, <1>6, TypeSets
  <2>2. /\ Owners(n, SharedType) \in SUBSET Rank
        /\ Owners(n, SharedType) \ {p} \in SUBSET Rank
        /\ R \in SUBSET Rank
        /\ (Owners(n, SharedType) \ {p}) \cap R = {}
    BY <1>3, <1>5, TypeSets DEF Owners, Pending
  <2>3. Cardinality(Owners(n, SharedType)') =
          Cardinality(Owners(n, SharedType) \ {p}) + Cardinality(R)
    BY <2>1, <2>2, DisjointLemma
  <2>4. Cardinality(Owners(n, SharedType) \ {p}) = StillShared(n, p)
    <3>1. CASE op[p].type \in SharedType
      <4>1. Cardinality(Owners(n, SharedType) \ {p}) = shared[n] - 1
        BY <1>10, <1>11, <2>2, <3>1, SetLemma
      <4> QED BY <3>1, <4>1 DEF StillShared
    <3>2. CASE op[p].type \notin SharedType
      <4>1. Owners(n, SharedType) \ {p} = Owners(n, SharedType)
        BY <1>11, <3>2
      <4> QED BY <1>10, <3>2, <4>1 DEF StillShared
    <3> QED BY <3>1, <3>2
  <2>5. /\ Cardinality(Owners(n, SharedType) \ {p}) \in Nat
        /\ Cardinality(R) \in Nat
    BY <2>2, SetLemma
  <2>6. CASE lk
    <3>1. Cardinality(R) = 0
      BY <2>6, FS_EmptySet
    <3>2. shared'[n] = StillShared(n, p)
      BY <1>1, <1>2, <2>6
    <3> QED BY <2>3, <2>4, <2>5, <3>1, <3>2
  <2>7. CASE ~lk
    <3>1. Cardinality(R) = k
      BY <2>7, Taken
    <3>2. shared'[n] = StillShared(n, p) + k
      BY <1>1, <1>2, <2>7
    <3> HIDE DEF R, k
    <3> QED BY <2>3, <2>4, <2>5, <3>1, <3>2
  <2> QED BY <2>6, <2>7
<1>14. LocksCounted'
  <2> SUFFICES ASSUME NEW m \in Node
               PROVE  /\ locked'[m] <=> Owners(m, ExclusiveType)' # {}
                      /\ \A x, y \in Owners(m, ExclusiveType)' : x = y
                      /\ shared'[m] = Cardinality(Owners(m, SharedType)')
    BY DEF LocksCounted
  <2>1. CASE m = n
    BY <1>12, <1>13, <2>1
  <2>2. CASE m # n
    <3>1. locked'[m] = locked[m] /\ shared'[m] = shared[m]
      BY <1>1, <1>2, <2>2
    <3>2. /\ Owners(m, ExclusiveType)' = Owners(m, ExclusiveType)
          /\ Owners(m, SharedType)' = Owners(m, SharedType)
      BY <1>5, <2>2, TypeSets
    <3> QED BY <3>1, <3>2 DEF IInv, LocksCounted
  <2> QED BY <2>1, <2>2
<1>15. SomebodyWillWake'
  <2> SUFFICES ASSUME NEW m \in Node,
                      lockRequests'[m] # <<>> \/ lockSharedRequests'[m] # <<>>
               PROVE  Owners(m, Type)' # {}
    BY DEF SomebodyWillWake
  <2>1. CASE m # n
    <3>1. lockRequests'[m] = lockRequests[m]
            /\ lockSharedRequests'[m] = lockSharedRequests[m]
      BY <1>1, <1>2, <2>1
    <3> QED BY <1>5, <2>1, <3>1 DEF IInv, SomebodyWillWake
  <2>2. CASE m = n /\ lk
    <3>1. Owners(n, ExclusiveType)' # {}
      <4>1. locked'[n]
        BY <1>1, <1>2, <2>2
      <4> QED BY <1>12, <4>1
    <3> QED BY <2>2, <3>1, TypeSets DEF Owners
  <2>3. CASE m = n /\ ~lk
    <3>1. G # {}
      <4>1. CASE lockRequests[n] # <<>> \/ lockSharedRequests[n] # <<>>
        BY <1>3, <2>3, <4>1, Taken
      <4>2. CASE lockRequests[n] = <<>> /\ lockSharedRequests[n] = <<>>
        <5>1. Pending(n, ExclusiveType) = {} /\ Pending(n, SharedType) = {}
          BY <4>2 DEF IInv, QueueInv, Queues, Sources
        <5>2. Sources(lockRequests'[n]) = {} /\ Sources(lockSharedRequests'[n]) = {}
          BY <1>7, <5>1 DEF Queues
        <5>3. lockRequests'[n] = <<>> /\ lockSharedRequests'[n] = <<>>
          BY <1>7, <5>2, EmptySources
        <5> QED BY <2>3, <5>3
      <4> QED BY <4>1, <4>2
    <3>2. {q \in G : op[q].type \in Type} = G
      BY <1>3, TypeSets DEF Pending
    <3> QED BY <1>5, <2>3, <3>1, <3>2
  <2> QED BY <2>1, <2>2, <2>3
<1>16. locked' \in [Node -> BOOLEAN] /\ shared' \in [Node -> Nat]
  <2>1. locked' \in [Node -> BOOLEAN]
    BY <1>1, <1>2
  <2>2. shared' = [shared EXCEPT ![n] = shared'[n]]
    BY <1>1, <1>2
  <2> QED BY <1>1, <1>13, <2>1, <2>2
<1> QED BY <1>8, <1>9, <1>14, <1>15, <1>16

-----------------------------------------------------------------------------
(* Every step preserves the invariant *)

LEMMA ActiveOp ==
  ASSUME IInv, NEW p \in Rank, pc[p] \notin {"idle", "terminating"}
  PROVE  /\ op[p] \in Op /\ op[p] # NoOp
         /\ op[p].node \in Node /\ op[p].type \in Type
         /\ p \notin leaving
<1>1. op[p] # NoOp /\ p \notin leaving
  BY DEF IInv, ClientInv
<1>2. op[p] \in Op
  BY <1>1 DEF IInv, TypeOK
<1> QED BY <1>1, <1>2 DEF Op

(* A process that acquired the data of a node and may have a copy of it or  *)
(* the response with it owns the exclusive lock.                            *)
LEMMA AcquirerOwns ==
  ASSUME IInv, NEW q \in Rank, op[q].type = "ACQUIRE",
         response[q] # NoResponse \/ pc[q] \in {"holding", "releasing"}
  PROVE  q \in Owners(op[q].node, ExclusiveType)
<1>1. response[q] # NoResponse => pc[q] = "awaiting"
  BY DEF IInv, ClientInv
<1> QED BY <1>1 DEF Owners, Owns, ExclusiveType

LEMMA ReleaseInv ==
  ASSUME IInv, NEW p \in Rank, NEW n \in Node, NEW d \in Value,
         NEW notifies \in BOOLEAN,
         pc[p] \in {"holding", "releasing"}, op[p].node = n,
         op[p].type \in SharedType => d = data[n],
         ~notifies => op[p].type \in SharedType /\ shared[n] # 1,
         ReleaseLock(n, p, notifies, d)
  PROVE  IInv'
<1>1. op[p].type \in Type /\ op[p] \in Op /\ p \notin leaving
  BY ActiveOp
<1>2. /\ data' = [data EXCEPT ![n] = d]
      /\ op' = [op EXCEPT ![p] = NoOp]
      /\ copy' = [copy EXCEPT ![p] = -1]
      /\ UNCHANGED <<left, leaving>>
  BY DEF ReleaseLock
<1>3. TypeOK
  BY DEF IInv
<1> DEFINE G == IF notifies THEN Granted(n, p) ELSE {}
<1>4. /\ QueueInv' /\ LocksCounted' /\ SomebodyWillWake'
      /\ locked' \in [Node -> BOOLEAN] /\ shared' \in [Node -> Nat]
      /\ lockRequests' \in [Node -> Seq(Request)]
      /\ lockSharedRequests' \in [Node -> Seq(Request)]
      /\ pc' \in [Rank -> {"idle", "sending", "awaiting", "waiting", "holding",
                           "releasing", "terminating"}]
      /\ response' \in [Rank -> Value \cup {NoResponse}]
      /\ p \notin G
      /\ pc'[p] = "idle" /\ response'[p] = NoResponse
      /\ \A q \in G :
           /\ q \in Rank \ {p} /\ op[q].node = n /\ Waits(q)
           /\ response[q] = NoResponse
           /\ IF q = Host[n]
                THEN /\ pc[q] = "waiting" /\ pc'[q] = "holding"
                     /\ response'[q] = NoResponse
                ELSE /\ pc[q] = "awaiting" /\ pc'[q] = "awaiting"
                     /\ response'[q] = d
      /\ \A q \in Rank \ {p} : q \notin G =>
           pc'[q] = pc[q] /\ response'[q] = response[q]
  <2>1. CASE notifies
    <3>1. RespondToRequests(n, StillLocked(n, p), StillShared(n, p), d, p)
      BY <2>1 DEF ReleaseLock, StillLocked, StillShared
    <3>2. /\ QueueInv' /\ LocksCounted' /\ SomebodyWillWake'
          /\ locked' \in [Node -> BOOLEAN] /\ shared' \in [Node -> Nat]
          /\ lockRequests' \in [Node -> Seq(Request)]
          /\ lockSharedRequests' \in [Node -> Seq(Request)]
      BY <1>1, <1>2, <3>1, GrantLemma
    <3>3. G = Granted(n, p)
      BY <2>1
    <3> HIDE DEF G
    <3> QED BY <3>1, <3>2, <3>3, GrantStatus
  <2>2. CASE ~notifies
    <3>1. op[p].type \in SharedType /\ shared[n] # 1
      BY <2>2
    <3>2. /\ locked' = [locked EXCEPT ![n] = locked[n] /\ op[p].type \in SharedType]
          /\ shared' = [shared EXCEPT ![n] = shared[n] - 1]
          /\ pc' = [pc EXCEPT ![p] = "idle"]
          /\ UNCHANGED <<lockRequests, lockSharedRequests, response>>
      BY <2>2, <3>1 DEF ReleaseLock
    <3>3. locked' = locked
      <4>1. (locked[n] /\ op[p].type \in SharedType) = locked[n]
        BY <1>3, <3>1 DEF TypeOK
      <4>2. locked' = [locked EXCEPT ![n] = locked[n]]
        BY <3>2, <4>1
      <4> QED BY <1>3, <4>2 DEF TypeOK
    <3>4. pc \in [Rank -> {"idle", "sending", "awaiting", "waiting", "holding",
                           "releasing", "terminating"}]
      BY <1>3 DEF TypeOK
    <3>5. /\ pc'[p] = "idle"
          /\ \A q \in Rank \ {p} : pc'[q] = pc[q]
          /\ pc' \in [Rank -> {"idle", "sending", "awaiting", "waiting", "holding",
                               "releasing", "terminating"}]
      BY <3>2, <3>4
    <3>6. /\ Owns(p) /\ ~Owns(p)' /\ ~Waits(p) /\ ~Waits(p)'
          /\ \A q \in Rank \ {p} : /\ Owns(q)' <=> Owns(q)
                                   /\ Waits(q)' <=> Waits(q)
                                   /\ op'[q] = op[q]
      BY <1>2, <1>3, <3>2, <3>5 DEF Owns, Waits, TypeOK
    <3>7. QueueInv' /\ LocksCounted' /\ SomebodyWillWake'
      BY <3>1, <3>2, <3>3, <3>6, QuietLemma
    <3>8. shared' \in [Node -> Nat]
      <4>1. /\ p \in Owners(n, SharedType)
            /\ Owners(n, SharedType) \in SUBSET Rank
            /\ shared[n] = Cardinality(Owners(n, SharedType))
        BY <3>1, <3>6 DEF Owners, IInv, LocksCounted
      <4>2. shared[n] - 1 \in Nat
        <5>1. Cardinality(Owners(n, SharedType)) # 0
          BY <4>1, SetLemma
        <5>2. shared[n] \in Nat
          BY <1>3 DEF TypeOK
        <5> QED BY <4>1, <5>1, <5>2
      <4> QED BY <1>3, <3>2, <4>2 DEF TypeOK
    <3>9. response'[p] = NoResponse
      BY <3>2 DEF IInv, ClientInv
    <3>10. G = {}
      BY <2>2
    <3> HIDE DEF G
    <3> QED BY <1>3, <3>2, <3>3, <3>5, <3>7, <3>8, <3>9, <3>10 DEF TypeOK
  <2> QED BY <2>1, <2>2
<1> HIDE DEF G
<1>5. TypeOK'
  <2>1. data' \in [Node -> Value] /\ copy' \in [Rank -> Value]
    BY <1>2, <1>3 DEF TypeOK, Value
  <2>2. op' \in [Rank -> Op \cup {NoOp}]
    BY <1>2, <1>3 DEF TypeOK
  <2> QED BY <1>2, <1>3, <1>4, <2>1, <2>2 DEF TypeOK
<1>6. /\ op'[p] = NoOp
      /\ \A q \in Rank \ {p} : op'[q] = op[q] /\ copy'[q] = copy[q]
      /\ data'[n] = d
      /\ \A m \in Node \ {n} : data'[m] = data[m]
  BY <1>2, <1>3 DEF TypeOK
<1>7. ClientInv'
  <2> SUFFICES ASSUME NEW q \in Rank
               PROVE  /\ op'[q] = NoOp <=> pc'[q] \in {"idle", "terminating"}
                      /\ pc'[q] \in {"sending", "awaiting", "releasing"} =>
                           Host[op'[q].node] # q
                      /\ pc'[q] = "waiting" => Host[op'[q].node] = q
                      /\ response'[q] # NoResponse => pc'[q] = "awaiting"
                      /\ q \in leaving' => pc'[q] = "terminating"
    BY DEF ClientInv
  <2>1. CASE q = p
    BY <1>1, <1>2, <1>4, <1>6, <2>1
  <2>2. /\ op[q] = NoOp <=> pc[q] \in {"idle", "terminating"}
        /\ pc[q] \in {"sending", "awaiting", "releasing"} => Host[op[q].node] # q
        /\ pc[q] = "waiting" => Host[op[q].node] = q
        /\ response[q] # NoResponse => pc[q] = "awaiting"
        /\ q \in leaving => pc[q] = "terminating"
    BY DEF IInv, ClientInv
  <2>3. CASE q # p /\ q \in G
    BY <1>2, <1>4, <1>6, <2>2, <2>3
  <2>4. CASE q # p /\ q \notin G
    BY <1>2, <1>4, <1>6, <2>2, <2>4
  <2> QED BY <2>1, <2>3, <2>4
<1>8. NoLostUpdate'
  <2> SUFFICES ASSUME NEW q \in Rank, op'[q].type = "ACQUIRE"
               PROVE  /\ response'[q] \in {NoResponse, data'[op'[q].node]}
                      /\ pc'[q] \in {"holding", "releasing"} /\ ~Hosts(q, q)' =>
                           copy'[q] \in {q, data'[op'[q].node]}
    BY DEF NoLostUpdate
  <2>1. q # p
    BY <1>6 DEF NoOp
  <2>2. /\ op'[q] = op[q] /\ copy'[q] = copy[q]
        /\ op[q].type = "ACQUIRE" /\ op[q] # NoOp
    BY <1>6, <2>1 DEF NoOp
  <2>3. /\ op[q].node \in Node
        /\ Hosts(q, q)' <=> Host[op[q].node] = q
        /\ Hosts(q, q) <=> Host[op[q].node] = q
    BY <1>3, <2>2 DEF TypeOK, Op, Hosts
  <2>4. /\ response[q] \in {NoResponse, data[op[q].node]}
        /\ pc[q] \in {"holding", "releasing"} /\ ~Hosts(q, q) =>
             copy[q] \in {q, data[op[q].node]}
    BY <2>2 DEF IInv, NoLostUpdate
  <2>5. CASE q \in G
    BY <1>4, <1>6, <2>2, <2>3, <2>5
  <2>6. CASE q \notin G
    <3>1. pc'[q] = pc[q] /\ response'[q] = response[q]
      BY <1>4, <2>1, <2>6
    <3>2. CASE data'[op[q].node] = data[op[q].node]
      BY <2>2, <2>3, <2>4, <3>1, <3>2
    <3>3. CASE data'[op[q].node] # data[op[q].node]
      <4>1. op[q].node = n /\ d # data[n]
        BY <1>6, <2>3, <3>3
      <4>2. op[p].type \in ExclusiveType
        BY <1>1, <4>1, TypeSets
      <4>3. p \in Owners(n, ExclusiveType)
        BY <4>2 DEF Owners, Owns
      <4>4. q \notin Owners(n, ExclusiveType)
        BY <2>1, <4>3 DEF IInv, LocksCounted
      <4>5. response[q] = NoResponse /\ pc[q] \notin {"holding", "releasing"}
        BY <2>2, <4>1, <4>4, AcquirerOwns
      <4> QED BY <3>1, <4>5
    <3> QED BY <3>2, <3>3
  <2> QED BY <2>5, <2>6
<1> QED BY <1>4, <1>5, <1>7, <1>8 DEF IInv

\* The types of what the requests change outside of the mutex.
ClientTypeOK ==
  /\ pc \in [Rank -> {"idle", "sending", "awaiting", "waiting", "holding",
                      "releasing", "terminating"}]
  /\ op \in [Rank -> Op \cup {NoOp}]
  /\ left \in [Rank -> Nat]
  /\ response \in [Rank -> Value \cup {NoResponse}]

LEMMA PushTypeOK ==
  ASSUME TypeOK, NEW n \in Node, NEW r \in Request, PushRequest(n, r),
         ClientTypeOK', UNCHANGED <<leaving, data, copy>>
  PROVE  TypeOK'
<1>1. /\ lockRequests[n] \in Seq(Request) /\ lockSharedRequests[n] \in Seq(Request)
      /\ lockRequests \in [Node -> Seq(Request)]
      /\ lockSharedRequests \in [Node -> Seq(Request)]
  BY DEF TypeOK
<1>2. /\ Append(lockRequests[n], r) \in Seq(Request)
      /\ Append(lockSharedRequests[n], r) \in Seq(Request)
  BY <1>1, AppendProperties
<1>3. /\ lockRequests' \in [Node -> Seq(Request)]
      /\ lockSharedRequests' \in [Node -> Seq(Request)]
  BY <1>1, <1>2 DEF PushRequest
<1> QED BY <1>3 DEF TypeOK, ClientTypeOK, PushRequest

LEMMA TakeTypeOK ==
  ASSUME TypeOK, NEW n \in Node, NEW type \in Type, TakeLock(n, type),
         ClientTypeOK', UNCHANGED <<leaving, data, copy>>
  PROVE  TypeOK'
<1>1. shared' \in [Node -> Nat] /\ locked' \in [Node -> BOOLEAN]
  <2>1. /\ shared \in [Node -> Nat] /\ locked \in [Node -> BOOLEAN]
        /\ shared[n] + 1 \in Nat
    BY DEF TypeOK
  <2>2. CASE type \in SharedType
    BY <2>1, <2>2 DEF TakeLock
  <2>3. CASE type \notin SharedType
    BY <2>1, <2>3 DEF TakeLock
  <2> QED BY <2>2, <2>3
<1> QED BY <1>1 DEF TypeOK, ClientTypeOK, TakeLock

\* What ClientInv and NoLostUpdate say of process p.
ClientOK(p) ==
  /\ op[p] = NoOp <=> pc[p] \in {"idle", "terminating"}
  /\ pc[p] \in {"sending", "awaiting", "releasing"} => Host[op[p].node] # p
  /\ pc[p] = "waiting" => Host[op[p].node] = p
  /\ response[p] # NoResponse => pc[p] = "awaiting"
  /\ p \in leaving => pc[p] = "terminating"

CopyOK(p) ==
  op[p].type = "ACQUIRE" =>
    /\ response[p] \in {NoResponse, data[op[p].node]}
    /\ pc[p] \in {"holding", "releasing"} /\ ~Hosts(p, p) =>
         copy[p] \in {p, data[op[p].node]}

(* A step that changes what one process does, and no data.                  *)
LEMMA OneClient ==
  ASSUME IInv, NEW p \in Rank, data' = data, leaving' = leaving,
         \A q \in Rank \ {p} : /\ pc'[q] = pc[q] /\ op'[q] = op[q]
                               /\ response'[q] = response[q] /\ copy'[q] = copy[q],
         ClientOK(p)', CopyOK(p)'
  PROVE  ClientInv' /\ NoLostUpdate'
<1>1. ASSUME NEW q \in Rank, q # p PROVE ClientOK(q)' /\ CopyOK(q)'
  <2>1. ClientOK(q) /\ CopyOK(q)
    BY DEF IInv, ClientInv, NoLostUpdate, ClientOK, CopyOK
  <2> QED BY <1>1, <2>1 DEF ClientOK, CopyOK, Hosts
<1>2. \A q \in Rank : ClientOK(q)' /\ CopyOK(q)'
  BY <1>1
<1> QED BY <1>2 DEF ClientOK, CopyOK, ClientInv, NoLostUpdate

LEMMA RequestLocalInv ==
  ASSUME IInv, NEW p \in Rank, RequestLocal(p)
  PROVE  IInv'
<1>1. PICK n \in Node, type \in Uses :
        /\ Host[n] = p
        /\ op' = [op EXCEPT ![p] = [node |-> n, type |-> type]]
        /\ IF MustWait(n, type)
             THEN /\ PushRequest(n, [source |-> p, type |-> type])
                  /\ pc' = [pc EXCEPT ![p] = "waiting"]
             ELSE /\ TakeLock(n, type)
                  /\ pc' = [pc EXCEPT ![p] = "holding"]
  BY DEF RequestLocal
<1>2. /\ pc[p] = "idle" /\ left[p] > 0
      /\ left' = [left EXCEPT ![p] = @ - 1]
      /\ UNCHANGED <<leaving, data, copy, response>>
  BY DEF RequestLocal
<1>3. TypeOK /\ type \in Type /\ response[p] = NoResponse /\ p \notin leaving
  BY <1>2, MutexAssumption DEF IInv, ClientInv
<1>4. /\ op'[p] = [node |-> n, type |-> type]
      /\ \A q \in Rank \ {p} : op'[q] = op[q]
      /\ op' \in [Rank -> Op \cup {NoOp}]
      /\ left' \in [Rank -> Nat]
  BY <1>1, <1>2, <1>3 DEF TypeOK, Op
<1>5. /\ pc'[p] \in {"waiting", "holding"}
      /\ \A q \in Rank \ {p} : pc'[q] = pc[q]
      /\ pc' \in [Rank -> {"idle", "sending", "awaiting", "waiting", "holding",
                           "releasing", "terminating"}]
  <2>1. pc' = [pc EXCEPT ![p] = "waiting"] \/ pc' = [pc EXCEPT ![p] = "holding"]
    BY <1>1
  <2> QED BY <1>3, <2>1 DEF TypeOK
<1>6. /\ ~Owns(p) /\ ~Waits(p)
      /\ \A q \in Rank \ {p} : (Owns(q)' <=> Owns(q)) /\ (Waits(q)' <=> Waits(q))
  BY <1>2, <1>5 DEF Owns, Waits
<1>7. ClientInv' /\ NoLostUpdate'
  <2>1. ClientOK(p)' /\ CopyOK(p)'
    <3>1. op'[p] # NoOp /\ op'[p].node = n
      BY <1>3, <1>4, TypeSets
    <3> QED BY <1>1, <1>2, <1>3, <1>5, <3>1 DEF ClientOK, CopyOK, Hosts
  <2> QED BY <1>2, <1>4, <1>5, <2>1, OneClient
<1>8. CASE MustWait(n, type)
  <2>1. PushRequest(n, [source |-> p, type |-> type])
    BY <1>1, <1>8
  <2>2. pc'[p] = "waiting"
    BY <1>1, <1>3, <1>8 DEF TypeOK
  <2>3. ~Owns(p)' /\ Waits(p)'
    BY <2>2 DEF Owns, Waits
  <2>4. QueueInv' /\ LocksCounted' /\ SomebodyWillWake'
    BY <1>3, <1>4, <1>6, <1>8, <2>1, <2>3, PushLemma
  <2>5. TypeOK'
    <3>1. [source |-> p, type |-> type] \in Request
      BY <1>3 DEF Request
    <3> QED BY <1>2, <1>3, <1>4, <1>5, <2>1, <3>1, PushTypeOK DEF ClientTypeOK, TypeOK
  <2> QED BY <1>7, <2>4, <2>5 DEF IInv
<1>9. CASE ~MustWait(n, type)
  <2>1. TakeLock(n, type)
    BY <1>1, <1>9
  <2>2. pc'[p] = "holding"
    BY <1>1, <1>3, <1>9 DEF TypeOK
  <2>3. Owns(p)' /\ ~Waits(p)'
    BY <2>2 DEF Owns, Waits
  <2>4. QueueInv' /\ LocksCounted' /\ SomebodyWillWake'
    BY <1>3, <1>4, <1>6, <1>9, <2>1, <2>3, TakeLemma
  <2>5. TypeOK'
    BY <1>2, <1>3, <1>4, <1>5, <2>1, TakeTypeOK DEF ClientTypeOK, TypeOK
  <2> QED BY <1>7, <2>4, <2>5 DEF IInv
<1> QED BY <1>8, <1>9

LEMMA HandleRequestInv ==
  ASSUME IInv, NEW h \in Rank, HandleRequest(h)
  PROVE  IInv'
<1>1. PICK p \in Rank \ {h} :
        /\ pc[p] = "sending"
        /\ Hosts(h, p)
        /\ IF MustWait(op[p].node, op[p].type)
             THEN /\ PushRequest(op[p].node, [source |-> p, type |-> op[p].type])
                  /\ UNCHANGED response
             ELSE /\ TakeLock(op[p].node, op[p].type)
                  /\ response' = [response EXCEPT ![p] = data[op[p].node]]
        /\ pc' = [pc EXCEPT ![p] = "awaiting"]
  BY DEF HandleRequest
<1>2. UNCHANGED <<op, left, leaving, copy, data>>
  BY DEF HandleRequest, clientVars
<1>3. PICK n \in Node, type \in Type : n = op[p].node /\ type = op[p].type
  BY <1>1, ActiveOp
<1>4. /\ op[p] \in Op /\ op[p] # NoOp
      /\ op[p] = [node |-> n, type |-> type]
      /\ p \notin leaving
  BY <1>1, <1>3, ActiveOp DEF Op
<1>5. TypeOK /\ response[p] = NoResponse
  BY <1>1 DEF IInv, ClientInv
<1>6. /\ pc'[p] = "awaiting"
      /\ \A q \in Rank \ {p} : pc'[q] = pc[q] /\ response'[q] = response[q]
      /\ response'[p] \in {NoResponse, data[n]}
      /\ pc' \in [Rank -> {"idle", "sending", "awaiting", "waiting", "holding",
                           "releasing", "terminating"}]
      /\ response' \in [Rank -> Value \cup {NoResponse}]
  BY <1>1, <1>3, <1>5 DEF TypeOK
<1>7. /\ ~Owns(p) /\ ~Waits(p)
      /\ \A q \in Rank \ {p} : (Owns(q)' <=> Owns(q)) /\ (Waits(q)' <=> Waits(q))
  BY <1>1, <1>6 DEF Owns, Waits
<1>8. ClientInv' /\ NoLostUpdate'
  <2>1. Host[n] = h
    BY <1>1, <1>3 DEF Hosts
  <2>2. ClientOK(p)' /\ CopyOK(p)'
    BY <1>1, <1>2, <1>3, <1>4, <1>6, <2>1 DEF ClientOK, CopyOK
  <2> QED BY <1>2, <1>6, <2>2, OneClient
<1>9. CASE MustWait(n, type)
  <2>1. PushRequest(n, [source |-> p, type |-> type]) /\ response'[p] = NoResponse
    BY <1>1, <1>3, <1>5, <1>9
  <2>2. ~Owns(p)' /\ Waits(p)'
    BY <1>6, <2>1 DEF Owns, Waits
  <2>3. QueueInv' /\ LocksCounted' /\ SomebodyWillWake'
    BY <1>2, <1>4, <1>7, <1>9, <2>1, <2>2, PushLemma
  <2>4. TypeOK'
    <3>1. [source |-> p, type |-> type] \in Request
      BY DEF Request
    <3>2. op' \in [Rank -> Op \cup {NoOp}] /\ left' \in [Rank -> Nat]
      BY <1>2, <1>5 DEF TypeOK
    <3> QED BY <1>2, <1>5, <1>6, <2>1, <3>1, <3>2, PushTypeOK DEF ClientTypeOK
  <2> QED BY <1>8, <2>3, <2>4 DEF IInv
<1>10. CASE ~MustWait(n, type)
  <2>1. TakeLock(n, type) /\ response'[p] = data[n]
    BY <1>1, <1>3, <1>5, <1>10 DEF TypeOK
  <2>2. response'[p] # NoResponse
    <3>1. data[n] \in Value
      BY <1>5 DEF TypeOK
    <3>2. \A d \in Value : d # NoResponse
      BY MutexAssumption DEF Value, NoResponse, Rank
    <3> QED BY <2>1, <3>1, <3>2
  <2>3. Owns(p)' /\ ~Waits(p)'
    BY <1>6, <2>2 DEF Owns, Waits
  <2>4. QueueInv' /\ LocksCounted' /\ SomebodyWillWake'
    BY <1>2, <1>4, <1>7, <1>10, <2>1, <2>3, TakeLemma
  <2>5. TypeOK'
    <3>1. op' \in [Rank -> Op \cup {NoOp}] /\ left' \in [Rank -> Nat]
      BY <1>2, <1>5 DEF TypeOK
    <3> QED BY <1>2, <1>5, <1>6, <2>1, <3>1, TakeTypeOK DEF ClientTypeOK
  <2> QED BY <1>8, <2>4, <2>5 DEF IInv
<1> QED BY <1>9, <1>10

LEMMA RequestDistantInv ==
  ASSUME IInv, NEW p \in Rank, RequestDistant(p)
  PROVE  IInv'
<1>1. PICK n \in Node, type \in Uses :
        Host[n] # p /\ op' = [op EXCEPT ![p] = [node |-> n, type |-> type]]
  BY DEF RequestDistant
<1>2. /\ pc[p] = "idle" /\ left[p] > 0
      /\ pc' = [pc EXCEPT ![p] = "sending"]
      /\ left' = [left EXCEPT ![p] = @ - 1]
      /\ UNCHANGED <<leaving, mutexVars, data, copy, response>>
  BY DEF RequestDistant
<1>3. TypeOK /\ type \in Type /\ response[p] = NoResponse /\ p \notin leaving
  BY <1>2, MutexAssumption DEF IInv, ClientInv
<1>4. /\ op'[p] = [node |-> n, type |-> type] /\ op'[p] # NoOp
      /\ pc'[p] = "sending"
      /\ \A q \in Rank \ {p} : op'[q] = op[q] /\ pc'[q] = pc[q]
  BY <1>1, <1>2, <1>3, TypeSets DEF TypeOK
<1>5. TypeOK'
  BY <1>1, <1>2, <1>3 DEF TypeOK, Op, mutexVars
<1>6. ClientInv' /\ NoLostUpdate'
  <2>1. ClientOK(p)' /\ CopyOK(p)'
    BY <1>1, <1>2, <1>3, <1>4 DEF ClientOK, CopyOK
  <2> QED BY <1>2, <1>4, <2>1, OneClient
<1>7. QueueInv' /\ LocksCounted' /\ SomebodyWillWake'
  <2>1. \A q \in Rank : /\ Owns(q)' <=> Owns(q)
                        /\ Waits(q)' <=> Waits(q)
                        /\ Owns(q) \/ Waits(q) => op'[q] = op[q]
    BY <1>2, <1>4 DEF Owns, Waits
  <2> QED BY <1>2, <2>1, FrameLemma
<1> QED BY <1>5, <1>6, <1>7 DEF IInv

LEMMA ReceiveResponseInv ==
  ASSUME IInv, NEW p \in Rank, ReceiveResponse(p)
  PROVE  IInv'
<1>1. /\ pc[p] = "awaiting" /\ response[p] # NoResponse
      /\ pc' = [pc EXCEPT ![p] = "holding"]
      /\ copy' = IF op[p].type \in {"READ", "ACQUIRE"}
                   THEN [copy EXCEPT ![p] = response[p]] ELSE copy
      /\ response' = [response EXCEPT ![p] = NoResponse]
      /\ UNCHANGED <<op, left, leaving, mutexVars, data>>
  BY DEF ReceiveResponse
<1>2. TypeOK /\ op[p] # NoOp /\ p \notin leaving
  BY <1>1, ActiveOp DEF IInv
<1>3. response[p] \in Value
  BY <1>1, <1>2 DEF TypeOK
<1>4. /\ pc'[p] = "holding" /\ response'[p] = NoResponse
      /\ op[p].type \in {"READ", "ACQUIRE"} => copy'[p] = response[p]
      /\ \A q \in Rank \ {p} : /\ pc'[q] = pc[q] /\ response'[q] = response[q]
                               /\ copy'[q] = copy[q]
  BY <1>1, <1>2 DEF TypeOK
<1>5. TypeOK'
  BY <1>1, <1>2, <1>3 DEF TypeOK, mutexVars
<1>6. ClientInv' /\ NoLostUpdate'
  <2>1. CopyOK(p)
    BY DEF IInv, NoLostUpdate, CopyOK
  <2>2. ClientOK(p)' /\ CopyOK(p)'
    BY <1>1, <1>2, <1>4, <2>1 DEF ClientOK, CopyOK
  <2> QED BY <1>1, <1>4, <2>2, OneClient
<1>7. QueueInv' /\ LocksCounted' /\ SomebodyWillWake'
  <2>1. \A q \in Rank : /\ Owns(q)' <=> Owns(q)
                        /\ Waits(q)' <=> Waits(q)
                        /\ Owns(q) \/ Waits(q) => op'[q] = op[q]
    BY <1>1, <1>4 DEF Owns, Waits
  <2> QED BY <1>1, <2>1, FrameLemma
<1> QED BY <1>5, <1>6, <1>7 DEF IInv

LEMMA WriteInv ==
  ASSUME IInv, NEW p \in Rank, Write(p)
  PROVE  IInv'
<1>1. /\ pc[p] = "holding" /\ op[p].type = "ACQUIRE"
      /\ IF Hosts(p, p)
           THEN data' = [data EXCEPT ![op[p].node] = p] /\ UNCHANGED copy
           ELSE copy' = [copy EXCEPT ![p] = p] /\ UNCHANGED data
      /\ UNCHANGED <<pc, op, left, leaving, mutexVars, response>>
  BY DEF Write
<1>2. TypeOK /\ op[p] # NoOp /\ op[p].node \in Node /\ p \notin leaving
  BY <1>1, ActiveOp DEF IInv
<1>3. TypeOK'
  <2>1. p \in Value
    BY DEF Value
  <2>2. data' \in [Node -> Value] /\ copy' \in [Rank -> Value]
    BY <1>1, <1>2, <2>1, ZenonT(60) DEF TypeOK
  <2> QED BY <1>1, <1>2, <2>2 DEF TypeOK, mutexVars
<1>4. QueueInv' /\ LocksCounted' /\ SomebodyWillWake'
  BY <1>1, FrameLemma DEF Owns, Waits
<1>5. ClientInv'
  BY <1>1 DEF IInv, ClientInv
<1>6. NoLostUpdate'
  <2>1. CASE Hosts(p, p)
    <3>1. data' = [data EXCEPT ![op[p].node] = p] /\ UNCHANGED copy
      BY <1>1, <2>1
    <3> SUFFICES ASSUME NEW q \in Rank, op[q].type = "ACQUIRE"
                 PROVE  /\ response[q] \in {NoResponse, data'[op[q].node]}
                        /\ pc[q] \in {"holding", "releasing"} /\ ~Hosts(q, q) =>
                             copy[q] \in {q, data'[op[q].node]}
      BY <1>1, <3>1 DEF NoLostUpdate, Hosts
    <3>2. /\ response[q] \in {NoResponse, data[op[q].node]}
          /\ pc[q] \in {"holding", "releasing"} /\ ~Hosts(q, q) =>
               copy[q] \in {q, data[op[q].node]}
      BY DEF IInv, NoLostUpdate
    <3>3. op[q].node \in Node
      BY <1>2 DEF TypeOK, Op, NoOp
    <3>4. CASE op[q].node # op[p].node
      BY <1>2, <3>1, <3>2, <3>3, <3>4 DEF TypeOK
    <3>5. CASE op[q].node = op[p].node
      <4>1. p \in Owners(op[p].node, ExclusiveType)
        BY <1>1, AcquirerOwns
      <4>2. CASE q = p
        <5>1. response[q] = NoResponse
          BY <1>1, <4>2 DEF IInv, ClientInv
        <5> QED BY <2>1, <4>2, <5>1
      <4>3. CASE q # p
        <5>1. q \notin Owners(op[p].node, ExclusiveType)
          BY <1>2, <4>1, <4>3 DEF IInv, LocksCounted
        <5>2. response[q] = NoResponse /\ pc[q] \notin {"holding", "releasing"}
          BY <3>5, <5>1, AcquirerOwns
        <5> QED BY <5>2
      <4> QED BY <4>2, <4>3
    <3> QED BY <3>4, <3>5
  <2>2. CASE ~Hosts(p, p)
    <3>1. copy' = [copy EXCEPT ![p] = p] /\ UNCHANGED data
      BY <1>1, <2>2
    <3>2. copy'[p] = p /\ \A q \in Rank \ {p} : copy'[q] = copy[q]
      BY <1>2, <3>1 DEF TypeOK
    <3>3. ClientOK(p) /\ CopyOK(p)
      BY DEF IInv, ClientInv, NoLostUpdate, ClientOK, CopyOK
    <3>4. ClientOK(p)' /\ CopyOK(p)'
      BY <1>1, <3>1, <3>2, <3>3 DEF ClientOK, CopyOK, Hosts
    <3> QED BY <1>1, <3>1, <3>2, <3>4, OneClient
  <2> QED BY <2>1, <2>2
<1> QED BY <1>3, <1>4, <1>5, <1>6 DEF IInv

LEMMA ReleaseLocalInv ==
  ASSUME IInv, NEW p \in Rank, ReleaseLocal(p)
  PROVE  IInv'
<1>1. PICK n, notifies :
        /\ n = op[p].node
        /\ notifies = (op[p].type \in ExclusiveType \/ shared[n] = 1)
  OBVIOUS
<1>2. pc[p] = "holding" /\ ReleaseLock(n, p, notifies, data[n])
  BY <1>1 DEF ReleaseLocal
<1>3. n \in Node /\ op[p].type \in Type
  BY <1>1, <1>2, ActiveOp
<1>4. data[n] \in Value
  BY <1>3 DEF IInv, TypeOK
<1>5. /\ notifies \in BOOLEAN
      /\ ~notifies => op[p].type \in SharedType /\ shared[n] # 1
  BY <1>1, <1>3, TypeSets
<1> QED BY <1>1, <1>2, <1>3, <1>4, <1>5, ReleaseInv

LEMMA HandleReleaseInv ==
  ASSUME IInv, NEW h \in Rank, HandleRelease(h)
  PROVE  IInv'
<1>1. PICK p \in Rank \ {h} :
        /\ pc[p] = "releasing"
        /\ LET n == op[p].node
               d == IF op[p].type = "ACQUIRE" THEN copy[p] ELSE data[n]
           IN  ReleaseLock(n, p, TRUE, d)
  BY DEF HandleRelease
<1>2. PICK n, d : /\ n = op[p].node
                  /\ d = IF op[p].type = "ACQUIRE" THEN copy[p] ELSE data[n]
                  /\ ReleaseLock(n, p, TRUE, d)
  BY <1>1
<1>3. n \in Node
  BY <1>1, <1>2, ActiveOp
<1>4. d \in Value
  BY <1>2, <1>3 DEF IInv, TypeOK
<1>5. op[p].type \in SharedType => d = data[n]
  BY <1>2 DEF SharedType
<1> QED BY <1>1, <1>2, <1>3, <1>4, <1>5, ReleaseInv

LEMMA ReleaseDistantInv ==
  ASSUME IInv, NEW p \in Rank, ReleaseDistant(p)
  PROVE  IInv'
<1>1. /\ pc[p] = "holding" /\ ~Hosts(p, p)
      /\ pc' = [pc EXCEPT ![p] = "releasing"]
      /\ UNCHANGED <<op, left, leaving, copy, mutexVars, data, response>>
  BY DEF ReleaseDistant, clientVars
<1>2. TypeOK /\ op[p] # NoOp /\ p \notin leaving
  BY <1>1, ActiveOp DEF IInv
<1>3. pc'[p] = "releasing" /\ \A q \in Rank \ {p} : pc'[q] = pc[q]
  BY <1>1, <1>2 DEF TypeOK
<1>4. TypeOK'
  BY <1>1, <1>2 DEF TypeOK, mutexVars
<1>5. ClientInv' /\ NoLostUpdate'
  <2>1. ClientOK(p) /\ CopyOK(p)
    BY DEF IInv, ClientInv, NoLostUpdate, ClientOK, CopyOK
  <2>2. ClientOK(p)' /\ CopyOK(p)'
    BY <1>1, <1>2, <1>3, <2>1 DEF ClientOK, CopyOK, Hosts
  <2> QED BY <1>1, <1>3, <2>2, OneClient
<1>6. QueueInv' /\ LocksCounted' /\ SomebodyWillWake'
  <2>1. \A q \in Rank : (Owns(q)' <=> Owns(q)) /\ (Waits(q)' <=> Waits(q))
    BY <1>1, <1>3 DEF Owns, Waits
  <2> QED BY <1>1, <2>1, FrameLemma
<1> QED BY <1>4, <1>5, <1>6 DEF IInv

LEMMA EnterTerminationInv ==
  ASSUME IInv, NEW p \in Rank, EnterTermination(p)
  PROVE  IInv'
<1>1. /\ pc[p] = "idle"
      /\ pc' = [pc EXCEPT ![p] = "terminating"]
      /\ UNCHANGED <<op, left, leaving, copy, mutexVars, data, response>>
  BY DEF EnterTermination, clientVars
<1>2. TypeOK
  BY DEF IInv
<1>3. pc'[p] = "terminating" /\ \A q \in Rank \ {p} : pc'[q] = pc[q]
  BY <1>1, <1>2 DEF TypeOK
<1>4. TypeOK'
  BY <1>1, <1>2 DEF TypeOK, mutexVars
<1>5. ClientInv' /\ NoLostUpdate'
  <2>1. ClientOK(p) /\ CopyOK(p)
    BY DEF IInv, ClientInv, NoLostUpdate, ClientOK, CopyOK
  <2>2. ClientOK(p)' /\ CopyOK(p)'
    BY <1>1, <1>3, <2>1 DEF ClientOK, CopyOK, NoOp
  <2> QED BY <1>1, <1>3, <2>2, OneClient
<1>6. QueueInv' /\ LocksCounted' /\ SomebodyWillWake'
  <2>1. \A q \in Rank : (Owns(q)' <=> Owns(q)) /\ (Waits(q)' <=> Waits(q))
    BY <1>1, <1>3 DEF Owns, Waits
  <2> QED BY <1>1, <2>1, FrameLemma
<1> QED BY <1>4, <1>5, <1>6 DEF IInv

LEMMA ConcludeInv ==
  ASSUME IInv, Conclude
  PROVE  IInv'
<1>1. /\ \A p \in Rank : pc[p] = "terminating"
      /\ leaving' = Rank
      /\ UNCHANGED <<pc, op, left, mutexVars, data, copy, response>>
  BY DEF Conclude
<1>2. TypeOK' /\ ClientInv' /\ NoLostUpdate'
  BY <1>1 DEF IInv, TypeOK, ClientInv, NoLostUpdate, Hosts, mutexVars
<1>3. QueueInv' /\ LocksCounted' /\ SomebodyWillWake'
  BY <1>1, FrameLemma DEF Owns, Waits
<1> QED BY <1>2, <1>3 DEF IInv

LEMMA LeavePeriodInv ==
  ASSUME IInv, NEW p \in Rank, LeavePeriod(p)
  PROVE  IInv'
<1>1. /\ p \in leaving
      /\ leaving' = leaving \ {p}
      /\ pc' = [pc EXCEPT ![p] = "idle"]
      /\ left' = [left EXCEPT ![p] = MaxOps[p]]
      /\ UNCHANGED <<op, mutexVars, data, copy, response>>
  BY DEF LeavePeriod
<1>2. TypeOK /\ pc[p] = "terminating"
  BY <1>1 DEF IInv, ClientInv
<1>3. pc'[p] = "idle" /\ \A q \in Rank \ {p} : pc'[q] = pc[q]
  BY <1>1, <1>2 DEF TypeOK
<1>4. TypeOK'
  BY <1>1, <1>2, MutexAssumption DEF TypeOK, mutexVars
<1>5. ClientInv'
  BY <1>1, <1>2, <1>3 DEF IInv, ClientInv
<1>6. NoLostUpdate'
  BY <1>1, <1>3 DEF IInv, NoLostUpdate, Hosts
<1>7. QueueInv' /\ LocksCounted' /\ SomebodyWillWake'
  <2>1. \A q \in Rank : (Owns(q)' <=> Owns(q)) /\ (Waits(q)' <=> Waits(q))
    BY <1>1, <1>2, <1>3 DEF Owns, Waits
  <2> QED BY <1>1, <2>1, FrameLemma
<1> QED BY <1>4, <1>5, <1>6, <1>7 DEF IInv

-----------------------------------------------------------------------------
(* Theorems *)

(* At the start, nothing is requested, locked or queued.                    *)
LEMMA InitInv == Init => IInv
<1> SUFFICES ASSUME Init PROVE IInv
  OBVIOUS
<1>1. \A n \in Node, T \in SUBSET Type : Owners(n, T) = {} /\ Pending(n, T) = {}
  BY DEF Init, Owners, Pending, Owns, Waits
<1>2. <<>> \in Seq(Request) /\ DOMAIN <<>> = {}
  OBVIOUS
<1>3. TypeOK
  BY <1>2, MutexAssumption DEF Init, TypeOK, Value
<1>4. ClientInv
  BY DEF Init, ClientInv
<1>5. QueueInv
  <2>1. Queues(<<>>, {}, op)
    BY <1>2 DEF Queues, Distinct, Sources
  <2> QED BY <1>1, <2>1, TypeSets DEF Init, QueueInv
<1>6. LocksCounted
  <2>1. \A n \in Node : ~locked[n] /\ shared[n] = 0
    BY DEF Init
  <2> QED BY <1>1, <2>1, TypeSets, FS_EmptySet DEF LocksCounted
<1>7. SomebodyWillWake
  BY DEF Init, SomebodyWillWake
<1>8. NoLostUpdate
  BY DEF Init, NoLostUpdate, NoOp
<1> QED BY <1>3, <1>4, <1>5, <1>6, <1>7, <1>8 DEF IInv

(* No operation of a task, no message handled and no end of period breaks   *)
(* the invariant.                                                           *)
LEMMA StepInv == IInv /\ [Next]_vars => IInv'
<1> SUFFICES ASSUME IInv, [Next]_vars PROVE IInv'
  OBVIOUS
<1>1. ASSUME NEW p \in Rank, Process(p) \/ Write(p) PROVE IInv'
  <2>1. CASE RequestLocal(p)
    BY <2>1, RequestLocalInv
  <2>2. CASE RequestDistant(p)
    BY <2>2, RequestDistantInv
  <2>3. CASE ReceiveResponse(p)
    BY <2>3, ReceiveResponseInv
  <2>4. CASE ReleaseLocal(p)
    BY <2>4, ReleaseLocalInv
  <2>5. CASE ReleaseDistant(p)
    BY <2>5, ReleaseDistantInv
  <2>6. CASE HandleRequest(p)
    BY <2>6, HandleRequestInv
  <2>7. CASE HandleRelease(p)
    BY <2>7, HandleReleaseInv
  <2>8. CASE EnterTermination(p)
    BY <2>8, EnterTerminationInv
  <2>9. CASE LeavePeriod(p)
    BY <2>9, LeavePeriodInv
  <2>10. CASE Write(p)
    BY <2>10, WriteInv
  <2> QED BY <1>1, <2>1, <2>2, <2>3, <2>4, <2>5, <2>6, <2>7, <2>8, <2>9, <2>10
          DEF Process
<1>2. CASE Conclude
  BY <1>2, ConcludeInv
<1>3. CASE UNCHANGED vars
  <2>1. UNCHANGED <<pc, op, left, leaving, copy, mutexVars, data, response>>
    BY <1>3 DEF vars, clientVars
  <2>2. TypeOK' /\ ClientInv' /\ NoLostUpdate'
    BY <2>1 DEF IInv, TypeOK, ClientInv, NoLostUpdate, Hosts, mutexVars
  <2>3. QueueInv' /\ LocksCounted' /\ SomebodyWillWake'
    BY <2>1, FrameLemma DEF Owns, Waits
  <2> QED BY <2>2, <2>3 DEF IInv
<1> QED BY <1>1, <1>2, <1>3 DEF Next

(* The inductive invariant holds, of the mutexes, the queues, the messages  *)
(* on their way and the processes that wait for them.                       *)
THEOREM Inductive == Spec => []IInv
BY InitInv, StepInv, PTL DEF Spec

(* Every variable keeps its type; _locked_shared never goes below zero.     *)
THEOREM TypeCorrect == Spec => []TypeOK
<1>1. IInv => TypeOK
  BY DEF IInv
<1> QED BY <1>1, Inductive, PTL

(* lock(), unlock() and the answers to pending requests count the locks     *)
(* exactly: an exclusive lock never has two owners, and _locked_shared is   *)
(* the number of processes that own a shared one.                           *)
THEOREM LocksCountedHolds == Spec => []LocksCounted
<1>1. IInv => LocksCounted
  BY DEF IInv
<1> QED BY <1>1, Inductive, PTL

(* The queues of the mutex hold one request for each process that waits for *)
(* a grant, and no other.                                                   *)
THEOREM RequestsQueuedOnceHolds == Spec => []RequestsQueuedOnce
<1>1. IInv => RequestsQueuedOnce
  <2> SUFFICES ASSUME IInv, NEW n \in Node
               PROVE  /\ Distinct(lockRequests[n])
                      /\ Distinct(lockSharedRequests[n])
                      /\ \A type \in Type, p \in Rank :
                           LET q == IF type \in SharedType THEN lockSharedRequests[n]
                                                           ELSE lockRequests[n]
                           IN  (\E i \in DOMAIN q :
                                  q[i] = [source |-> p, type |-> type]) <=>
                                 /\ op[p] = [node |-> n, type |-> type]
                                 /\ pc[p] = IF p = Host[n] THEN "waiting" ELSE "awaiting"
                                 /\ response[p] = NoResponse
    BY DEF RequestsQueuedOnce, Distinct
  <2>1. /\ Queues(lockRequests[n], Pending(n, ExclusiveType), op)
        /\ Queues(lockSharedRequests[n], Pending(n, SharedType), op)
    BY DEF IInv, QueueInv
  <2>2. ASSUME NEW type \in Type, NEW p \in Rank,
               NEW q, NEW T, q \in Seq(Request), T \in {ExclusiveType, SharedType},
               type \in T, Queues(q, Pending(n, T), op)
        PROVE  (\E i \in DOMAIN q : q[i] = [source |-> p, type |-> type]) <=>
                 /\ op[p] = [node |-> n, type |-> type]
                 /\ pc[p] = IF p = Host[n] THEN "waiting" ELSE "awaiting"
                 /\ response[p] = NoResponse
    <3>1. Waits(p) /\ op[p].node = n <=>
            /\ op[p].node = n
            /\ pc[p] = IF p = Host[n] THEN "waiting" ELSE "awaiting"
            /\ response[p] = NoResponse
      BY DEF IInv, ClientInv, Waits
    <3>2. Waits(p) => op[p] \in Op
      BY ActiveOp DEF Waits
    <3>3. \A i \in DOMAIN q : q[i] \in Request
      BY <2>2, LenProperties, ElementOfSeq
    <3>4. ASSUME NEW i \in DOMAIN q, q[i] = [source |-> p, type |-> type]
          PROVE  Waits(p) /\ op[p] = [node |-> n, type |-> type]
      <4>1. p \in Pending(n, T) /\ op[p].type = type
        BY <2>2, <3>4 DEF Queues, Sources
      <4>2. Waits(p) /\ op[p].node = n
        BY <4>1 DEF Pending
      <4> QED BY <3>2, <4>1, <4>2 DEF Op
    <3>5. ASSUME Waits(p), op[p] = [node |-> n, type |-> type]
          PROVE  \E i \in DOMAIN q : q[i] = [source |-> p, type |-> type]
      <4>1. p \in Pending(n, T)
        BY <2>2, <3>5 DEF Pending
      <4>2. PICK i \in DOMAIN q : q[i].source = p /\ q[i].type = op[p].type
        BY <2>2, <4>1 DEF Queues, Sources
      <4>3. q[i] = [source |-> p, type |-> type]
        BY <3>3, <3>5, <4>2 DEF Request
      <4> QED BY <4>3
    <3> QED BY <3>1, <3>4, <3>5
  <2>3. /\ lockRequests[n] \in Seq(Request)
        /\ lockSharedRequests[n] \in Seq(Request)
    BY DEF IInv, TypeOK
  <2>4. ASSUME NEW type \in Type, NEW p \in Rank
        PROVE  LET q == IF type \in SharedType THEN lockSharedRequests[n]
                                               ELSE lockRequests[n]
               IN  (\E i \in DOMAIN q : q[i] = [source |-> p, type |-> type]) <=>
                     /\ op[p] = [node |-> n, type |-> type]
                     /\ pc[p] = IF p = Host[n] THEN "waiting" ELSE "awaiting"
                     /\ response[p] = NoResponse
    <3>1. CASE type \in SharedType
      BY <2>1, <2>2, <2>3, <3>1
    <3>2. CASE type \notin SharedType
      BY <2>1, <2>2, <2>3, <3>2, TypeSets
    <3> QED BY <3>1, <3>2
  <2> QED BY <2>1, <2>4 DEF Queues
<1> QED BY <1>1, Inductive, PTL

(* No wake-up is lost: while a request waits in a queue, some process owns  *)
(* a lock of the node, and its release looks at the queues.                 *)
THEOREM SomebodyWillWakeHolds == Spec => []SomebodyWillWake
<1>1. IInv => SomebodyWillWake
  BY DEF IInv
<1> QED BY <1>1, Inductive, PTL

(* No update is lost: what acquire() got from a distant node is the last    *)
(* data released until the process gives it back.                           *)
THEOREM NoLostUpdateHolds == Spec => []NoLostUpdate
<1>1. IInv => NoLostUpdate
  BY DEF IInv
<1> QED BY <1>1, Inductive, PTL
=============================================================================
