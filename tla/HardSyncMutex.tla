--------------------------- MODULE HardSyncMutex ---------------------------
(***************************************************************************)
(* Mutual exclusion on the data of distributed nodes in HardSyncMode: the  *)
(* HardSyncMutex of each node on the process that hosts it                 *)
(* (synchro/hard/hard_sync_mutex.h), the MutexServer of that process       *)
(* (mutex_server.h), the MutexClient of the others (mutex_client.h) and    *)
(* the waiting loops of the ServerPack (server_pack.h).                    *)
(*                                                                         *)
(* A process is one thread: it serves incoming requests only while it      *)
(* waits (for a reception, a response, a local request or the end of the   *)
(* period), never while its tasks compute.  Its tasks perform one          *)
(* operation at a time, request, use, release.  The end of a period is     *)
(* the barrier of PeriodBarrier, which Termination implements.             *)
(*                                                                         *)
(* The data of a node is abstracted to the last process that wrote it.     *)
(***************************************************************************)
EXTENDS Integers, Sequences, FiniteSets

CONSTANTS N,      \* number of processes
          Node,   \* nodes of the graph
          Host,   \* process where each node is LOCAL
          Uses,   \* types of locks the tasks ask for
          MaxOps  \* bound: operations of each process in one period

Rank == 0 .. N-1
SharedType == {"READ", "LOCK_SHARED"}
ExclusiveType == {"ACQUIRE", "LOCK"}
Type == SharedType \cup ExclusiveType

ASSUME MutexAssumption ==
  /\ N \in Nat \ {0}
  /\ Host \in [Node -> Rank]
  /\ Uses \subseteq Type
  /\ MaxOps \in [Rank -> Nat]

Op == [node: Node, type: Type]
NoOp == [node |-> "none", type |-> "none"]

\* MutexRequest.  The source of a LOCAL request is the host of the node.
Request == [source: Rank, type: Type]

Value == Rank \cup {-1}    \* last writer of the data, -1 if there is none
NoResponse == -2

VARIABLES
  pc,        \* what each process is doing
  op,        \* operation each process performs
  left,      \* operations each process may still start in the period
  leaving,   \* processes that have not left the last period yet
  locked,    \* HardSyncMutex::_locked
  shared,    \* HardSyncMutex::_locked_shared
  lockRequests, lockSharedRequests,  \* the queues of the HardSyncMutex
  data,      \* data of each node on its host
  copy,      \* data of the DISTANT node each process operates on, while it does
  response   \* response in flight to each process

clientVars == <<op, left, leaving, copy>>
mutexVars == <<locked, shared, lockRequests, lockSharedRequests>>
vars == <<pc, clientVars, mutexVars, data, response>>

TypeOK ==
  /\ pc \in [Rank -> {"idle", "sending", "awaiting", "waiting", "holding",
                      "releasing", "terminating"}]
  /\ op \in [Rank -> Op \cup {NoOp}]
  /\ left \in [Rank -> Nat]
  /\ leaving \subseteq Rank
  /\ locked \in [Node -> BOOLEAN]
  /\ shared \in [Node -> Nat]
  /\ lockRequests \in [Node -> Seq(Request)]
  /\ lockSharedRequests \in [Node -> Seq(Request)]
  /\ data \in [Node -> Value]
  /\ copy \in [Rank -> Value]
  /\ response \in [Rank -> Value \cup {NoResponse}]

Init ==
  /\ pc = [p \in Rank |-> "idle"]
  /\ op = [p \in Rank |-> NoOp]
  /\ left = MaxOps
  /\ leaving = {}
  /\ locked = [n \in Node |-> FALSE]
  /\ shared = [n \in Node |-> 0]
  /\ lockRequests = [n \in Node |-> <<>>]
  /\ lockSharedRequests = [n \in Node |-> <<>>]
  /\ data = [n \in Node |-> -1]
  /\ copy = [p \in Rank |-> -1]
  /\ response = [p \in Rank |-> NoResponse]

\* The processes in a loop that calls handleIncomingRequests(), in the epoch
\* the requests are tagged with.
Serving(p) ==
  /\ pc[p] \in {"sending", "awaiting", "waiting", "releasing", "terminating"}
  /\ p \notin leaving

\* p's operation is on a node that h hosts.
Hosts(h, p) == op[p] # NoOp /\ Host[op[p].node] = h

-----------------------------------------------------------------------------
(* The mutex *)

\* Mutant of MustWait: only the shared locks are tested.
MustWaitForShared(n, type) == type \in ExclusiveType /\ shared[n] > 0

\* A request of this type on node n cannot be granted at once.
MustWait(n, type) ==
  locked[n] \/ (type \in ExclusiveType /\ shared[n] > 0)

\* Mutant of PushRequest: every request goes to the queue of exclusive ones.
PushExclusive(n, req) ==
  /\ lockRequests' = [lockRequests EXCEPT ![n] = Append(@, req)]
  /\ UNCHANGED <<lockSharedRequests, locked, shared>>

\* pushRequest()
PushRequest(n, req) ==
  /\ IF req.type \in SharedType
       THEN /\ lockSharedRequests' =
                 [lockSharedRequests EXCEPT ![n] = Append(@, req)]
            /\ UNCHANGED lockRequests
       ELSE /\ lockRequests' = [lockRequests EXCEPT ![n] = Append(@, req)]
            /\ UNCHANGED lockSharedRequests
  /\ UNCHANGED <<locked, shared>>

\* _lock() or _lockShared(), according to the type of the request.
TakeLock(n, type) ==
  /\ IF type \in SharedType
       THEN /\ shared' = [shared EXCEPT ![n] = @ + 1]
            /\ UNCHANGED locked
       ELSE /\ locked' = [locked EXCEPT ![n] = TRUE]
            /\ UNCHANGED shared
  /\ UNCHANGED <<lockRequests, lockSharedRequests>>

\* requestsToProcess(): how many of the shared requests it takes (all, or up to
\* a LOCAL one, which it returns last) ...
LocalShared(n) ==
  {i \in DOMAIN lockSharedRequests[n] : lockSharedRequests[n][i].source = Host[n]}

SharedToProcess(n) ==
  IF LocalShared(n) = {} THEN Len(lockSharedRequests[n])
  ELSE CHOOSE i \in LocalShared(n) : \A j \in LocalShared(n) : i <= j

\* ... and whether it takes an exclusive one after them.
LockToProcess(n) == LocalShared(n) = {} /\ lockRequests[n] # <<>>

\* respondToRequests(), once the release has left node n with lock state lk and
\* sh shared locks and data d, and process p with nothing to do: the requests
\* taken are responded to, a LOCAL one by the return of wait().
RespondToRequests(n, lk, sh, d, p) ==
  LET k == SharedToProcess(n)
      readers == {lockSharedRequests[n][i].source : i \in 1 .. k}
      writers == IF LockToProcess(n) THEN {Head(lockRequests[n]).source} ELSE {}
      granted == IF lk THEN {} ELSE readers \cup writers
  IN  /\ locked' = [locked EXCEPT ![n] = lk \/ writers # {}]
      /\ shared' = [shared EXCEPT ![n] = IF lk THEN sh ELSE sh + k]
      /\ lockSharedRequests' = [lockSharedRequests EXCEPT ![n] =
           IF lk THEN @ ELSE SubSeq(@, k + 1, Len(@))]
      /\ lockRequests' = [lockRequests EXCEPT ![n] =
           IF ~lk /\ LockToProcess(n) THEN Tail(@) ELSE @]
      /\ response' = [q \in Rank |->
           IF q \in granted \ {Host[n]} THEN d ELSE response[q]]
      /\ pc' = [q \in Rank |->
           IF q = p THEN "idle"
           ELSE IF q = Host[n] /\ q \in granted THEN "holding" ELSE pc[q]]

\* Mutant of ReleaseLock: pending requests are answered before the update.
ReleaseThenUpdate(n, p, notifies, d) ==
  LET shd == op[p].type \in SharedType
  IN  /\ data' = [data EXCEPT ![n] = d]
      /\ op' = [op EXCEPT ![p] = NoOp]
      /\ RespondToRequests(n, locked[n] /\ shd,
                           IF shd THEN shared[n] - 1 ELSE shared[n], data[n], p)
      /\ copy' = [copy EXCEPT ![p] = -1]
      /\ UNCHANGED <<left, leaving>>

\* A release by p of its lock on node n: unlock(), or unlockShared(), then the
\* pending requests.  notifies tells when the host looks at the queues.
ReleaseLock(n, p, notifies, d) ==
  LET type == op[p].type
      lk == locked[n] /\ type \in SharedType
      sh == IF type \in SharedType THEN shared[n] - 1 ELSE shared[n]
  IN  /\ data' = [data EXCEPT ![n] = d]
      /\ op' = [op EXCEPT ![p] = NoOp]
      /\ IF notifies
           THEN RespondToRequests(n, lk, sh, d, p)
           ELSE /\ locked' = [locked EXCEPT ![n] = lk]
                /\ shared' = [shared EXCEPT ![n] = sh]
                /\ pc' = [pc EXCEPT ![p] = "idle"]
                /\ UNCHANGED <<lockRequests, lockSharedRequests, response>>
      /\ copy' = [copy EXCEPT ![p] = -1]
      /\ UNCHANGED <<left, leaving>>

-----------------------------------------------------------------------------
(* HardSyncMutex operations of the tasks of p *)

\* read(), acquire(), lock(), lockShared() on a LOCAL node.
RequestLocal(p) ==
  /\ pc[p] = "idle"
  /\ left[p] > 0
  /\ \E n \in Node, type \in Uses :
       /\ Host[n] = p
       /\ op' = [op EXCEPT ![p] = [node |-> n, type |-> type]]
       /\ IF MustWait(n, type)
            THEN /\ PushRequest(n, [source |-> p, type |-> type])
                 /\ pc' = [pc EXCEPT ![p] = "waiting"]
            ELSE /\ TakeLock(n, type)
                 /\ pc' = [pc EXCEPT ![p] = "holding"]
  /\ left' = [left EXCEPT ![p] = @ - 1]
  /\ UNCHANGED <<leaving, data, copy, response>>

\* The same on a DISTANT node: MutexClient posts the request (Issend).
RequestDistant(p) ==
  /\ pc[p] = "idle"
  /\ left[p] > 0
  /\ \E n \in Node, type \in Uses :
       /\ Host[n] # p
       /\ op' = [op EXCEPT ![p] = [node |-> n, type |-> type]]
  /\ pc' = [pc EXCEPT ![p] = "sending"]
  /\ left' = [left EXCEPT ![p] = @ - 1]
  /\ UNCHANGED <<leaving, mutexVars, data, copy, response>>

\* Mutant of ReceiveResponse: the response is not waited for.
ReceiveNoResponse(p) ==
  /\ pc[p] = "awaiting"
  /\ pc' = [pc EXCEPT ![p] = "holding"]
  /\ copy' = [copy EXCEPT ![p] = response[p]]
  /\ response' = [response EXCEPT ![p] = NoResponse]
  /\ UNCHANGED <<op, left, leaving, mutexVars, data>>

\* waitResponse() returns; read() and acquire() store the data received.
ReceiveResponse(p) ==
  /\ pc[p] = "awaiting"
  /\ response[p] # NoResponse
  /\ pc' = [pc EXCEPT ![p] = "holding"]
  /\ copy' = IF op[p].type \in {"READ", "ACQUIRE"}
               THEN [copy EXCEPT ![p] = response[p]] ELSE copy
  /\ response' = [response EXCEPT ![p] = NoResponse]
  /\ UNCHANGED <<op, left, leaving, mutexVars, data>>

\* The task writes the data it acquired: in place if the node is LOCAL.
Write(p) ==
  /\ pc[p] = "holding"
  /\ op[p].type = "ACQUIRE"
  /\ IF Hosts(p, p)
       THEN data' = [data EXCEPT ![op[p].node] = p] /\ UNCHANGED copy
       ELSE copy' = [copy EXCEPT ![p] = p] /\ UNCHANGED data
  /\ UNCHANGED <<pc, op, left, leaving, mutexVars, response>>

\* Mutant of ReleaseLocal: the server is not notified.
ReleaseUnnotified(p) ==
  /\ pc[p] = "holding"
  /\ Hosts(p, p)
  /\ ReleaseLock(op[p].node, p, FALSE, data[op[p].node])

\* releaseRead(), releaseAcquire(), unlock(), unlockShared() on a LOCAL node:
\* the last shared lock, or the exclusive one, notifies the server.
ReleaseLocal(p) ==
  /\ pc[p] = "holding"
  /\ Hosts(p, p)
  /\ LET n == op[p].node
     IN  ReleaseLock(n, p, op[p].type \in ExclusiveType \/ shared[n] = 1, data[n])

\* The same on a DISTANT node: MutexClient posts the release (Issend).
ReleaseDistant(p) ==
  /\ pc[p] = "holding"
  /\ ~Hosts(p, p)
  /\ pc' = [pc EXCEPT ![p] = "releasing"]
  /\ UNCHANGED <<clientVars, mutexVars, data, response>>

-----------------------------------------------------------------------------
(* MutexServer of h *)

\* handleRead(), handleAcquire(), handleLock(), handleLockShared().
HandleRequest(h) ==
  /\ Serving(h)
  /\ \E p \in Rank \ {h} :
       /\ pc[p] = "sending"
       /\ Hosts(h, p)
       /\ LET n == op[p].node  type == op[p].type
          IN  IF MustWait(n, type)
                THEN /\ PushRequest(n, [source |-> p, type |-> type])
                     /\ UNCHANGED response
                ELSE /\ TakeLock(n, type)
                     /\ response' = [response EXCEPT ![p] = data[n]]
       /\ pc' = [pc EXCEPT ![p] = "awaiting"]
  /\ UNCHANGED <<clientVars, data>>

\* handleReleaseAcquire(), handleUnlock(), handleUnlockShared(), in the plain
\* and in the wait() variant.
HandleRelease(h) ==
  /\ Serving(h)
  /\ \E p \in Rank \ {h} :
       /\ pc[p] = "releasing"
       /\ Hosts(h, p)
       /\ LET n == op[p].node
              d == IF op[p].type = "ACQUIRE" THEN copy[p] ELSE data[n]
          IN  ReleaseLock(n, p, TRUE, d)

-----------------------------------------------------------------------------
(* Periods *)

\* The tasks are over: HardDataSync::synchronize().
EnterTermination(p) ==
  /\ pc[p] = "idle"
  /\ pc' = [pc EXCEPT ![p] = "terminating"]
  /\ UNCHANGED <<clientVars, mutexVars, data, response>>

\* Mutant of Conclude: rank 0 does not wait for the others.
ConcludeAlone ==
  /\ pc[0] = "terminating"
  /\ leaving = {}
  /\ leaving' = {p \in Rank : pc[p] = "terminating"}
  /\ UNCHANGED <<pc, op, left, mutexVars, data, copy, response>>

\* Rank 0 finds the period over.
Conclude ==
  /\ \A p \in Rank : pc[p] = "terminating"
  /\ leaving = {}
  /\ leaving' = Rank
  /\ UNCHANGED <<pc, op, left, mutexVars, data, copy, response>>

\* terminate() returns.
LeavePeriod(p) ==
  /\ p \in leaving
  /\ leaving' = leaving \ {p}
  /\ pc' = [pc EXCEPT ![p] = "idle"]
  /\ left' = [left EXCEPT ![p] = MaxOps[p]]
  /\ UNCHANGED <<op, mutexVars, data, copy, response>>

Process(p) ==
  \/ RequestLocal(p) \/ RequestDistant(p)
  \/ ReceiveResponse(p)
  \/ ReleaseLocal(p) \/ ReleaseDistant(p)
  \/ HandleRequest(p) \/ HandleRelease(p)
  \/ EnterTermination(p) \/ LeavePeriod(p)

Next == Conclude \/ \E p \in Rank : Process(p) \/ Write(p)

(* Each process keeps running, its tasks release what they hold, and the   *)
(* termination algorithm concludes.                                        *)
Fairness == WF_vars(Conclude) /\ \A p \in Rank : WF_vars(Process(p))

Spec == Init /\ [][Next]_vars
FairSpec == Spec /\ Fairness

-----------------------------------------------------------------------------
(* Properties *)

\* p has been granted the lock its operation asks for, and the host has not
\* handled its release yet.
Owns(p) ==
  \/ pc[p] \in {"holding", "releasing"}
  \/ pc[p] = "awaiting" /\ response[p] # NoResponse

Owners(n, types) ==
  {p \in Rank : Owns(p) /\ op[p].node = n /\ op[p].type \in types}

(* The mutex counts its locks exactly, wherever a grant or a release is on *)
(* its way: it is locked while one process, and no more, owns a LOCK or    *)
(* ACQUIRE, and _locked_shared is the number of processes that own a READ  *)
(* or LOCK_SHARED, none counted twice or forgotten.                        *)
LocksCounted ==
  \A n \in Node :
    /\ locked[n] <=> Owners(n, ExclusiveType) # {}
    /\ \A p, q \in Owners(n, ExclusiveType) : p = q
    /\ shared[n] = Cardinality(Owners(n, SharedType))

(* No request is lost or served twice: the requests in the queues are the  *)
(* ones whose senders still wait for a grant, each queued once, in the     *)
(* queue of its node and type; a LOCAL request is queued only while its    *)
(* process is in MutexServer::wait(), the only place that can grant it.    *)
RequestsQueuedOnce ==
  \A n \in Node :
    /\ \A q \in {lockRequests[n], lockSharedRequests[n]} :
         \A i, j \in DOMAIN q : q[i].source = q[j].source => i = j
    /\ \A type \in Type : \A p \in Rank :
         LET q == IF type \in SharedType THEN lockSharedRequests[n]
                                         ELSE lockRequests[n]
         IN  (\E i \in DOMAIN q : q[i] = [source |-> p, type |-> type]) <=>
               /\ op[p] = [node |-> n, type |-> type]
               /\ pc[p] = IF p = Host[n] THEN "waiting" ELSE "awaiting"
               /\ response[p] = NoResponse

(* No lost wake-up: a request waits in a queue only while some process     *)
(* owns a lock whose release will look at the queues.                      *)
SomebodyWillWake ==
  \A n \in Node :
    lockRequests[n] # <<>> \/ lockSharedRequests[n] # <<>> =>
      Owners(n, Type) # {}

(* No lost update: what a process acquired from a distant node stays the   *)
(* last released data until the process writes it and gives it back.       *)
NoLostUpdate ==
  \A p \in Rank :
    op[p].type = "ACQUIRE" =>
      /\ response[p] \in {NoResponse, data[op[p].node]}
      /\ pc[p] \in {"holding", "releasing"} /\ ~Hosts(p, p) =>
           copy[p] \in {p, data[op[p].node]}

(* Every operation completes: requests are granted, releases are received  *)
(* and periods end, though processes wait for each other.                  *)
OperationsComplete == \A p \in Rank : pc[p] # "idle" ~> pc[p] = "idle"

(* Exclusive access excludes shared access too.                            *)
ReaderWriterExclusion ==
  \A n \in Node : ~(locked[n] /\ shared[n] > 0)
=============================================================================
