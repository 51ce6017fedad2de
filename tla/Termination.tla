---------------------------- MODULE Termination ----------------------------
(***************************************************************************)
(* Termination of a period of hard synchronisation: TerminationAlgorithm   *)
(* (synchro/hard/termination.cpp) run by every process on its ServerPack   *)
(* (synchro/hard/server_pack.h), with the Server epochs that keep the      *)
(* messages of two successive periods apart.                               *)
(*                                                                         *)
(* A period is: each process runs its tasks, which post synchronous        *)
(* requests (MPI_Issend) to other processes and wait for their reception   *)
(* while serving incoming requests; then it enters terminate(), where it   *)
(* serves requests and passes the token around the ring until rank 0       *)
(* declares the end.  The cycle is unbounded.                              *)
(*                                                                         *)
(* What a request does to its receiver is abstracted to what matters here: *)
(* handling a "REQUEST" (READ, LOCK, LINK, UNLINK...) posts nothing,       *)
(* handling a "REMOVE_NODE" may post one UNLINK to a third process.        *)
(***************************************************************************)
EXTENDS Integers, FiniteSets

CONSTANTS N,            \* number of processes, comm.getSize()
          MaxRequests,  \* bound: posts of one process in one period
          Removes       \* <<r, t>>: r asks t to remove nodes that t hosts

ASSUME NAssumption == N \in Nat \ {0}
ASSUME MaxRequestsAssumption == MaxRequests \in Nat
ASSUME RemovesAssumption == Removes \subseteq (0 .. N-1) \X (0 .. N-1)

Rank == 0 .. N-1
Epoch == {"EVEN", "ODD"}
Color == {"WHITE", "BLACK"}

VARIABLES
  pc,      \* "working" (tasks) or "terminating" (in terminate())
  epoch,   \* ServerPack::epoch of each process
  color,   \* TerminationAlgorithm::color of each process
  left,    \* posts each process may still make in its period
  sent,    \* synchronous sends posted and not received yet
  tokens,  \* TOKEN messages in flight
  ends     \* END messages in flight

vars == <<pc, epoch, color, left, sent, tokens, ends>>

Kind == {"REQUEST", "REMOVE_NODE", "UNLINK"}
Request == [from: Rank, to: Rank, kind: Kind, epoch: Epoch]
Token == [to: Rank, epoch: Epoch, color: Color]
End == [to: Rank, epoch: Epoch]

TypeOK ==
  /\ pc \in [Rank -> {"working", "terminating"}]
  /\ epoch \in [Rank -> Epoch]
  /\ color \in [Rank -> Color]
  /\ left \in [Rank -> 0 .. MaxRequests]
  /\ sent \subseteq Request
  /\ tokens \subseteq Token
  /\ ends \subseteq End

Init ==
  /\ pc = [r \in Rank |-> "working"]
  /\ epoch = [r \in Rank |-> "EVEN"]
  /\ color = [r \in Rank |-> "WHITE"]
  /\ left = [r \in Rank |-> MaxRequests]
  /\ sent = {}
  /\ tokens = {}
  /\ ends = {}

Toggle(e) == IF e = "EVEN" THEN "ODD" ELSE "EVEN"

\* r is in waitSendRequest(): its own code does not run until every send it
\* posted has been received.
Blocked(r) == \E m \in sent : m.from = r

\* r is looking for TOKEN and END messages in the loop of terminate(), not in
\* a waitSendRequest() nested in the handling of a request.
InTerminateLoop(r) == pc[r] = "terminating" /\ ~Blocked(r)

\* The processes that call Server::handleIncomingRequests().
Serving(r) == pc[r] = "terminating" \/ Blocked(r)

\* Mutant of Receivable: the tag is not combined with the epoch.
ReceivableInAnyEpoch(r, m) == m.to = r

\* Iprobe(MPI_ANY_SOURCE, epoch | tag): only the current epoch is seen.
Receivable(r, m) == m.to = r /\ m.epoch = epoch[r]

-----------------------------------------------------------------------------
(* The tasks.  LinkClient::link() and unlink() post to the processes of    *)
(* both end nodes, the other clients to one process.                       *)
Posted(r, k, T) ==
  {[from |-> r, to |-> q, kind |-> k, epoch |-> epoch[r]] : q \in T}

Post(r) ==
  /\ pc[r] = "working"
  /\ ~Blocked(r)
  /\ left[r] > 0
  /\ left' = [left EXCEPT ![r] = @ - 1]
  /\ \E t, u \in Rank \ {r} :
       \/ sent' = sent \cup Posted(r, "REQUEST", {t, u})
       \/ <<r, t>> \in Removes /\ sent' = sent \cup Posted(r, "REMOVE_NODE", {t})
  /\ UNCHANGED <<pc, epoch, color, tokens, ends>>

\* A request whose handler posts nothing.
HandleRequest(r) ==
  /\ Serving(r)
  /\ \E m \in sent :
       /\ Receivable(r, m)
       /\ m.kind # "REMOVE_NODE"
       /\ sent' = sent \ {m}
  /\ UNCHANGED <<pc, epoch, color, left, tokens, ends>>

\* LinkServer receives REMOVE_NODE: DistributedGraph::removeNode() unlinks the
\* edges of the node, posting UNLINK for a distant one, if any.
HandleRemoveNode(r) ==
  /\ Serving(r)
  /\ \E m \in sent :
       /\ Receivable(r, m)
       /\ m.kind = "REMOVE_NODE"
       /\ \E T \in {{}} \cup {{t} : t \in Rank \ {r}} :
            sent' = (sent \ {m}) \cup Posted(r, "UNLINK", T)
  /\ UNCHANGED <<pc, epoch, color, left, tokens, ends>>

-----------------------------------------------------------------------------
(* terminate() *)

\* Entering terminate(): rank 0 starts a probe.
EnterTermination(r) ==
  /\ pc[r] = "working"
  /\ ~Blocked(r)
  /\ pc' = [pc EXCEPT ![r] = "terminating"]
  /\ IF r = 0
       THEN /\ color' = [color EXCEPT ![0] = "WHITE"]
            /\ tokens' = tokens \cup
                 {[to |-> N-1, epoch |-> epoch[0], color |-> "WHITE"]}
       ELSE UNCHANGED <<color, tokens>>
  /\ UNCHANGED <<epoch, left, sent, ends>>

\* toggleEpoch() and return from terminate(): the tasks of the next period run.
Leave(r) ==
  /\ epoch' = [epoch EXCEPT ![r] = Toggle(@)]
  /\ pc' = [pc EXCEPT ![r] = "working"]
  /\ left' = [left EXCEPT ![r] = MaxRequests]

\* The token comes back to rank 0.
TokenAtRoot ==
  /\ InTerminateLoop(0)
  /\ \E t \in tokens :
       /\ t.to = 0
       /\ t.epoch = epoch[0]
       /\ IF t.color = "WHITE" /\ color[0] = "WHITE"
            THEN /\ tokens' = tokens \ {t}
                 /\ ends' = ends \cup
                      {[to |-> i, epoch |-> epoch[0]] : i \in 1 .. N-1}
                 /\ Leave(0)
                 /\ UNCHANGED color
            ELSE /\ color' = [color EXCEPT ![0] = "WHITE"]
                 /\ tokens' = (tokens \ {t}) \cup
                      {[to |-> N-1, epoch |-> epoch[0], color |-> "WHITE"]}
                 /\ UNCHANGED <<pc, epoch, left, ends>>
  /\ UNCHANGED sent

\* Mutants of PassToken: passed on from waitSendRequest() and by the tasks, too;
PassTokenWhileWorking(r) ==
  /\ r # 0
  /\ \E t \in tokens :
       /\ t.to = r
       /\ t.epoch = epoch[r]
       /\ tokens' = (tokens \ {t}) \cup
            {[to |-> r - 1, epoch |-> epoch[r], color |-> t.color]}
  /\ color' = [color EXCEPT ![r] = "WHITE"]
  /\ UNCHANGED <<pc, epoch, left, sent, ends>>

\* rank 0 passes it on as the others do;
PassTokenFromRoot(r) ==
  /\ InTerminateLoop(r)
  /\ \E t \in tokens :
       /\ t.to = r
       /\ t.epoch = epoch[r]
       /\ tokens' = (tokens \ {t}) \cup
            {[to |-> r - 1, epoch |-> epoch[r], color |-> t.color]}
  /\ color' = [color EXCEPT ![r] = "WHITE"]
  /\ UNCHANGED <<pc, epoch, left, sent, ends>>

\* the test of the colour is inverted.
PassTokenInverted(r) ==
  /\ r # 0
  /\ InTerminateLoop(r)
  /\ \E t \in tokens :
       /\ t.to = r
       /\ t.epoch = epoch[r]
       /\ tokens' = (tokens \ {t}) \cup
            {[to |-> r - 1, epoch |-> epoch[r],
              color |-> IF color[r] = "WHITE" THEN "BLACK" ELSE t.color]}
  /\ color' = [color EXCEPT ![r] = "WHITE"]
  /\ UNCHANGED <<pc, epoch, left, sent, ends>>

\* Another process passes the token to its predecessor in the ring.
PassToken(r) ==
  /\ r # 0
  /\ InTerminateLoop(r)
  /\ \E t \in tokens :
       /\ t.to = r
       /\ t.epoch = epoch[r]
       /\ tokens' = (tokens \ {t}) \cup
            {[to |-> r - 1, epoch |-> epoch[r],
              color |-> IF color[r] = "BLACK" THEN "BLACK" ELSE t.color]}
  /\ color' = [color EXCEPT ![r] = "WHITE"]
  /\ UNCHANGED <<pc, epoch, left, sent, ends>>

\* Another process receives END.
ReceiveEnd(r) ==
  /\ r # 0
  /\ InTerminateLoop(r)
  /\ \E e \in ends :
       /\ e.to = r
       /\ e.epoch = epoch[r]
       /\ ends' = ends \ {e}
  /\ Leave(r)
  /\ UNCHANGED <<color, sent, tokens>>

-----------------------------------------------------------------------------
Process(r) ==
  \/ Post(r)
  \/ HandleRequest(r)
  \/ HandleRemoveNode(r)
  \/ EnterTermination(r)
  \/ PassToken(r)
  \/ ReceiveEnd(r)

Next == TokenAtRoot \/ \E r \in Rank : Process(r)

(* Every process is one thread that keeps running: it takes a step as long *)
(* as it can, and its tasks end.                                           *)
Fairness == WF_vars(TokenAtRoot) /\ \A r \in Rank : WF_vars(Process(r))

Spec == Init /\ [][Next]_vars
FairSpec == Spec /\ Fairness

-----------------------------------------------------------------------------
(* Properties *)

\* The processes that have not left yet the period that rank 0 declared ended.
Late == {r \in Rank : \E e \in ends : e.to = r}

(* Termination is sound: as long as an END message of a period is in        *)
(* flight, no request of that period is pending and each process to leave  *)
(* it is idle in terminate().  (TerminationAlgorithm::terminate, which     *)
(* client_server.h promises to conclude only when all the processes have   *)
(* entered it and no more request is pending.)                             *)
TerminationSound ==
  \A e \in ends :
    /\ InTerminateLoop(e.to)
    /\ \A m \in sent : m.epoch # e.epoch

(* A request is received in the period it was posted in (the odd/even Epoch *)
(* of the Server interface): whenever a serving process can receive a      *)
(* message, neither or both of the sender and the receiver still have the  *)
(* END of the previous period to receive.                                  *)
PeriodsDoNotMix ==
  \A m \in sent :
    Serving(m.to) /\ Receivable(m.to, m) => (m.from \in Late <=> m.to \in Late)

(* Where the token has been, nobody works any more: each process that      *)
(* forwarded the token of the current probe is still idle in terminate(),  *)
(* in the same period as rank 0.  (The reason why terminate() may conclude *)
(* from one round of the token.)                                           *)
TokenSweep ==
  \A t \in tokens : \A r \in Rank :
    r > t.to => InTerminateLoop(r) /\ epoch[r] = epoch[0]

(* The algorithm implements the barrier that client_server.h promises.     *)
Barrier == INSTANCE PeriodBarrier
             WITH Proc <- Rank, phase <- epoch,
                  inside <- {r \in Rank : pc[r] = "terminating"},
                  busy <- {r \in Rank : Blocked(r)},
                  released <- Late

(* Each step of the ring is a step of the barrier or invisible to it: the  *)
(* barrier opens (Conclude) only at the token of rank 0, and a process     *)
(* leaves it only with its END message.                                    *)
ImplementsBarrier == Barrier!Spec

(* Every process completes terminate() again and again: no deadlock between *)
(* the processes that wait for the reception of a request, the token and   *)
(* the END messages.                                                       *)
PeriodsComplete ==
  \A r \in Rank : \A e \in Epoch : []<>(epoch[r] = e /\ pc[r] = "working")
=============================================================================
