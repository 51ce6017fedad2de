------------------------- MODULE TerminationProofs -------------------------
(***************************************************************************)
(* Proofs about Termination, for any number of processes and of requests.  *)
(* They hold when a process only asks processes of lower rank to remove    *)
(* nodes (RemovesGoDown): the token then meets the process that asks before *)
(* the one that answers.  The other way round the algorithm is not sound,  *)
(* see the run termination_removals.                                       *)
(***************************************************************************)
EXTENDS Termination, TLAPS

RemovesGoDown == \A r, t \in Rank : <<r, t>> \in Removes => r > t

\* Who waits for the reception of a request is in the period the request is
\* tagged with and has no END to receive.
SendersInPeriod ==
  \A m \in sent : m.epoch = epoch[m.from] /\ m.from \notin Late

\* The tasks, not a handler, post REMOVE_NODE, down the ring.
RemoversWork ==
  \A m \in sent : m.kind = "REMOVE_NODE" => m.from > m.to /\ pc[m.from] = "working"

\* Who has an END to receive is in terminate(), one period behind rank 0.
EndsAwaited ==
  \A e \in ends :
    /\ e.to # 0
    /\ pc[e.to] = "terminating"
    /\ e.epoch = epoch[e.to]
    /\ epoch[e.to] # epoch[0]

\* Everybody else is in the period of rank 0.
OthersCaughtUp == \A r \in Rank : r \in Late \/ epoch[r] = epoch[0]

(* There is at most one TOKEN in the ring, and it is there exactly while   *)
(* rank 0 is in terminate(): the Iprobe of a process never meets the token *)
(* of another probe.                                                       *)
OneToken ==
  /\ pc[0] = "terminating" <=> tokens # {}
  /\ \A s, t \in tokens : s = t
  /\ \A t \in tokens : t.epoch = epoch[0]

IInv ==
  /\ TypeOK
  /\ SendersInPeriod
  /\ RemoversWork
  /\ EndsAwaited
  /\ OthersCaughtUp
  /\ OneToken
  /\ TokenSweep

-----------------------------------------------------------------------------
(* Rank 0 and rank N-1 are ranks. *)
LEMMA RankBounds == 0 \in Rank /\ N-1 \in Rank /\ \A r \in Rank : r \in Int
  BY NAssumption DEF Rank

(* toggleEpoch() changes the epoch and stays in Epoch; there are only two. *)
LEMMA ToggleLemma ==
  /\ \A e \in Epoch : Toggle(e) \in Epoch /\ Toggle(e) # e
  /\ \A d, e, f \in Epoch : d # e /\ f # e => d = f
  BY DEF Epoch, Toggle

(* A process that has an END to receive waits for no reception.            *)
LEMMA LateIdle ==
  ASSUME IInv, NEW r \in Late
  PROVE  ~Blocked(r) /\ InTerminateLoop(r)
  BY DEF IInv, SendersInPeriod, EndsAwaited, Blocked, InTerminateLoop, Late

(* When the token is back at rank 0 and rank 0 waits for no reception,     *)
(* everybody is idle in terminate(), in the period of rank 0: nothing is   *)
(* pending.                                                                *)
LEMMA TokenBack ==
  ASSUME IInv, NEW t \in tokens, t.to = 0, InTerminateLoop(0)
  PROVE  /\ \A r \in Rank : InTerminateLoop(r) /\ epoch[r] = epoch[0]
         /\ sent = {}
         /\ ends = {}
         /\ Late = {}
<1>1. \A r \in Rank : InTerminateLoop(r) /\ epoch[r] = epoch[0]
  <2>1. \A r \in Rank : r = 0 \/ r > 0
    BY NAssumption DEF Rank
  <2> QED BY <2>1 DEF IInv, TokenSweep
<1>2. sent = {}
  BY <1>1 DEF IInv, TypeOK, Request, InTerminateLoop, Blocked
<1>3. ends = {}
  BY <1>1 DEF IInv, EndsAwaited, TypeOK, End
<1> QED BY <1>1, <1>2, <1>3 DEF Late

(* The initial states satisfy the inductive invariant.                     *)
LEMMA InitIInv == Init => IInv
<1> SUFFICES ASSUME Init PROVE IInv
  OBVIOUS
<1> USE RankBounds, MaxRequestsAssumption DEF Init
<1>1. TypeOK
  BY DEF TypeOK, Epoch, Color
<1>2. SendersInPeriod /\ RemoversWork /\ EndsAwaited /\ OneToken /\ TokenSweep
  BY DEF SendersInPeriod, RemoversWork, EndsAwaited, OneToken, TokenSweep
<1>3. OthersCaughtUp
  BY DEF OthersCaughtUp
<1> QED BY <1>1, <1>2, <1>3 DEF IInv

-----------------------------------------------------------------------------
(* Each action preserves the inductive invariant. *)

(* What a process posts has its rank and its epoch.                        *)
LEMMA PostedLemma ==
  ASSUME NEW r \in Rank, NEW k \in Kind, NEW T \in SUBSET Rank, TypeOK
  PROVE  /\ Posted(r, k, T) \subseteq Request
         /\ \A m \in Posted(r, k, T) :
              /\ m.from = r /\ m.kind = k /\ m.epoch = epoch[r] /\ m.to \in T
         /\ T # {} => \E m \in Posted(r, k, T) : m.from = r
<1>1. \A m \in Posted(r, k, T) :
        /\ m.from = r /\ m.kind = k /\ m.epoch = epoch[r] /\ m.to \in T
  BY DEF Posted
<1>2. Posted(r, k, T) \subseteq Request
  BY DEF Posted, Request, TypeOK
<1>3. T # {} => \E m \in Posted(r, k, T) : m.from = r
  <2>1. \A t \in T : [from |-> r, to |-> t, kind |-> k, epoch |-> epoch[r]]
                     \in Posted(r, k, T)
    BY DEF Posted
  <2> QED BY <2>1
<1> QED BY <1>1, <1>2, <1>3

(* Post adds requests of r, of one kind, to other processes.               *)
LEMMA PostAdds ==
  ASSUME NEW r \in Rank, Post(r)
  PROVE  \E k \in Kind, T \in SUBSET Rank :
           /\ T # {}
           /\ sent' = sent \cup Posted(r, k, T)
           /\ k = "REMOVE_NODE" => \A t \in T : <<r, t>> \in Removes
<1>1. PICK t \in Rank, u \in Rank :
        \/ sent' = sent \cup Posted(r, "REQUEST", {t, u})
        \/ <<r, t>> \in Removes /\ sent' = sent \cup Posted(r, "REMOVE_NODE", {t})
  BY DEF Post
<1>2. CASE sent' = sent \cup Posted(r, "REQUEST", {t, u})
  <2>1. {t, u} \in SUBSET Rank /\ "REQUEST" \in Kind /\ "REQUEST" # "REMOVE_NODE"
    BY DEF Kind
  <2> QED BY <1>2, <2>1
<1>3. CASE /\ <<r, t>> \in Removes
           /\ sent' = sent \cup Posted(r, "REMOVE_NODE", {t})
  <2>1. {t} \in SUBSET Rank /\ "REMOVE_NODE" \in Kind
    BY DEF Kind
  <2> QED BY <1>3, <2>1
<1> QED BY <1>1, <1>2, <1>3

(* Post: the new requests are those of a working process, in its epoch.    *)
LEMMA PostIInv ==
  ASSUME IInv, RemovesGoDown, NEW r \in Rank, Post(r)
  PROVE  IInv'
<1> USE DEF IInv
<1>1. PICK k \in Kind, T \in SUBSET Rank :
        /\ sent' = sent \cup Posted(r, k, T)
        /\ k = "REMOVE_NODE" => \A t \in T : <<r, t>> \in Removes
  BY PostAdds
<1>2. /\ pc[r] = "working"
      /\ UNCHANGED <<pc, epoch, color, tokens, ends>>
  BY DEF Post
<1>3. \A m \in sent' : m \in sent \/ m \in Posted(r, k, T)
  BY <1>1
<1>4. TypeOK'
  <2>1. sent' \subseteq Request
    BY <1>1, PostedLemma DEF TypeOK
  <2>2. left' \in [Rank -> 0 .. MaxRequests]
    BY MaxRequestsAssumption DEF Post, TypeOK
  <2> QED BY <1>2, <2>1, <2>2 DEF TypeOK
<1>5. r \notin Late
  BY <1>2 DEF EndsAwaited, Late
<1>6. SendersInPeriod'
  BY <1>2, <1>3, <1>5, PostedLemma DEF SendersInPeriod, Late
<1>7. RemoversWork'
  <2>1. \A m \in Posted(r, k, T) :
          m.from = r /\ m.kind = k /\ m.to \in T
    BY PostedLemma
  <2>2. k = "REMOVE_NODE" => \A t \in T : r > t
    BY <1>1 DEF RemovesGoDown
  <2>3. ASSUME NEW m \in sent', m.kind = "REMOVE_NODE"
        PROVE  m.from > m.to /\ pc[m.from] = "working"
    <3>1. CASE m \in sent
      BY <2>3, <3>1 DEF RemoversWork
    <3>2. CASE m \in Posted(r, k, T)
      BY <1>2, <2>1, <2>2, <2>3, <3>2
    <3> QED BY <1>3, <3>1, <3>2
  <2> QED BY <1>2, <2>3 DEF RemoversWork
<1>8. EndsAwaited' /\ OthersCaughtUp' /\ OneToken'
  BY <1>2 DEF EndsAwaited, OthersCaughtUp, Late, OneToken
<1>9. TokenSweep'
  <2>1. \A q \in Rank : InTerminateLoop(q) => InTerminateLoop(q)'
    BY <1>2, <1>3, PostedLemma DEF InTerminateLoop, Blocked
  <2> QED BY <1>2, <2>1 DEF TokenSweep
<1> QED BY <1>4, <1>6, <1>7, <1>8, <1>9

(* HandleRequest only removes a pending request.                           *)
LEMMA HandleRequestIInv ==
  ASSUME IInv, NEW r \in Rank, HandleRequest(r)
  PROVE  IInv'
<1> USE DEF IInv, HandleRequest
<1>1. sent' \subseteq sent
  OBVIOUS
<1>2. TypeOK' /\ RemoversWork'
  BY <1>1 DEF TypeOK, RemoversWork
<1>3. SendersInPeriod' /\ EndsAwaited' /\ OthersCaughtUp' /\ OneToken'
  BY <1>1 DEF SendersInPeriod, EndsAwaited, OthersCaughtUp, Late, OneToken
<1>4. TokenSweep'
  <2>1. \A q \in Rank : InTerminateLoop(q) => InTerminateLoop(q)'
    BY <1>1 DEF InTerminateLoop, Blocked
  <2> QED BY <2>1 DEF TokenSweep
<1> QED BY <1>2, <1>3, <1>4

(* HandleRemoveNode: who asked is still working, so the token has not yet  *)
(* passed it, and even less the process below it that answers.             *)
LEMMA HandleRemoveNodeIInv ==
  ASSUME IInv, NEW r \in Rank, HandleRemoveNode(r)
  PROVE  IInv'
<1>1. PICK m \in sent, T \in SUBSET Rank :
        /\ Receivable(r, m)
        /\ m.kind = "REMOVE_NODE"
        /\ sent' = (sent \ {m}) \cup Posted(r, "UNLINK", T)
  <2>1. \A T \in {{}} \cup {{t} : t \in Rank \ {r}} : T \in SUBSET Rank
    OBVIOUS
  <2> QED BY <2>1 DEF HandleRemoveNode
<1>2. UNCHANGED <<pc, epoch, color, left, tokens, ends>>
  BY DEF HandleRemoveNode
<1>3. "UNLINK" \in Kind /\ "UNLINK" # "REMOVE_NODE"
  BY DEF Kind
<1>4. \A n \in sent' : n \in sent \/ n \in Posted(r, "UNLINK", T)
  BY <1>1
<1>5. /\ m.from \in Rank /\ m.to = r /\ m.from > r
      /\ pc[m.from] = "working" /\ m.from \notin Late
      /\ epoch[r] = epoch[m.from]
  BY <1>1 DEF IInv, TypeOK, Request, RemoversWork, SendersInPeriod, Receivable
<1>6. r \notin Late
  BY <1>5 DEF IInv, EndsAwaited, OthersCaughtUp, Late
<1>7. TypeOK'
  BY <1>1, <1>2, <1>3, PostedLemma DEF IInv, TypeOK
<1>8. SendersInPeriod'
  BY <1>2, <1>3, <1>4, <1>6, PostedLemma DEF IInv, SendersInPeriod, Late
<1>9. RemoversWork'
  BY <1>2, <1>3, <1>4, PostedLemma DEF IInv, RemoversWork
<1>10. EndsAwaited' /\ OthersCaughtUp' /\ OneToken'
  BY <1>2 DEF IInv, EndsAwaited, OthersCaughtUp, Late, OneToken
<1>11. TokenSweep'
  <2>1. \A q \in Rank : q # r /\ InTerminateLoop(q) => InTerminateLoop(q)'
    BY <1>2, <1>3, <1>4, PostedLemma DEF IInv, InTerminateLoop, Blocked
  <2>2. \A t \in tokens : t.to \in Rank /\ ~(m.from > t.to)
    BY <1>5 DEF IInv, TypeOK, Token, TokenSweep, InTerminateLoop
  <2>3. \A t \in tokens : ~(r > t.to)
    BY <1>5, <2>2, RankBounds
  <2> QED BY <1>2, <2>1, <2>3 DEF IInv, TokenSweep
<1> QED BY <1>7, <1>8, <1>9, <1>10, <1>11 DEF IInv

(* EnterTermination: only rank 0 brings a token, to the last process.      *)
LEMMA EnterIInv ==
  ASSUME IInv, NEW r \in Rank, EnterTermination(r)
  PROVE  IInv'
<1> USE DEF IInv
<1>1. pc' = [pc EXCEPT ![r] = "terminating"] /\ pc[r] = "working"
  BY DEF EnterTermination
<1>2. UNCHANGED <<epoch, left, sent, ends>>
  BY DEF EnterTermination
<1>3. SendersInPeriod' /\ RemoversWork'
  BY <1>1, <1>2 DEF SendersInPeriod, RemoversWork, Late, TypeOK, Request,
                    EnterTermination, Blocked
<1>4. EndsAwaited' /\ OthersCaughtUp'
  BY <1>1, <1>2 DEF EndsAwaited, OthersCaughtUp, Late, TypeOK, End
<1>5. CASE r = 0
  <2>1. tokens = {}
    BY <1>1, <1>5 DEF OneToken
  <2>2. tokens' = {[to |-> N-1, epoch |-> epoch[0], color |-> "WHITE"]}
    BY <1>5, <2>1 DEF EnterTermination
  <2>3. TypeOK'
    <3>1. tokens' \subseteq Token
      BY <2>2, RankBounds DEF TypeOK, Token, Color
    <3>2. color' \in [Rank -> Color]
      BY <1>5 DEF EnterTermination, TypeOK, Color
    <3> QED BY <1>1, <1>2, <3>1, <3>2 DEF TypeOK
  <2>4. OneToken'
    BY <1>1, <1>2, <1>5, <2>2, RankBounds DEF OneToken, TypeOK
  <2>5. TokenSweep'
    BY <2>2, NAssumption DEF TokenSweep, Rank
  <2> QED BY <1>3, <1>4, <2>3, <2>4, <2>5
<1>6. CASE r # 0
  <2>1. UNCHANGED <<color, tokens>>
    BY <1>6 DEF EnterTermination
  <2>2. TypeOK' /\ OneToken'
    BY <1>1, <1>2, <1>6, <2>1, RankBounds DEF TypeOK, OneToken
  <2>3. TokenSweep'
    <3>1. \A q \in Rank : InTerminateLoop(q) => InTerminateLoop(q)'
      BY <1>1, <1>2 DEF InTerminateLoop, Blocked, TypeOK
    <3> QED BY <1>2, <2>1, <3>1 DEF TokenSweep
  <2> QED BY <1>3, <1>4, <2>2, <2>3
<1> QED BY <1>5, <1>6

(* TokenAtRoot: by TokenBack nothing is pending and everybody is idle.     *)
LEMMA TokenAtRootIInv ==
  ASSUME IInv, TokenAtRoot
  PROVE  IInv'
<1>1. PICK t \in tokens :
        /\ t.to = 0
        /\ t.epoch = epoch[0]
        /\ IF t.color = "WHITE" /\ color[0] = "WHITE"
             THEN /\ tokens' = tokens \ {t}
                  /\ ends' = ends \cup
                       {[to |-> i, epoch |-> epoch[0]] : i \in 1 .. N-1}
                  /\ Leave(0)
                  /\ UNCHANGED color
             ELSE /\ color' = [color EXCEPT ![0] = "WHITE"]
                  /\ tokens' = (tokens \ {t}) \cup
                       {[to |-> N-1, epoch |-> epoch[0], color |-> "WHITE"]}
                  /\ UNCHANGED <<pc, epoch, left, ends>>
  BY DEF TokenAtRoot
<1>2. /\ \A r \in Rank : pc[r] = "terminating" /\ epoch[r] = epoch[0]
      /\ sent = {} /\ ends = {} /\ tokens = {t}
  BY <1>1, TokenBack DEF TokenAtRoot, InTerminateLoop, IInv, OneToken
<1>3. sent' = {}
  BY <1>2 DEF TokenAtRoot
<1>4. CASE t.color = "WHITE" /\ color[0] = "WHITE"
  <2>1. /\ tokens' = {} /\ color' = color
        /\ ends' = {[to |-> i, epoch |-> epoch[0]] : i \in 1 .. N-1}
    BY <1>1, <1>2, <1>4
  <2>2. /\ epoch' = [epoch EXCEPT ![0] = Toggle(@)]
        /\ pc' = [pc EXCEPT ![0] = "working"]
        /\ left' = [left EXCEPT ![0] = MaxRequests]
    BY <1>1, <1>4 DEF Leave
  <2>3. /\ epoch'[0] # epoch[0] /\ pc'[0] = "working"
        /\ \A r \in Rank \ {0} : epoch'[r] = epoch[r] /\ pc'[r] = pc[r]
    BY <2>2, RankBounds, ToggleLemma DEF IInv, TypeOK
  <2>4. TypeOK'
    <3>1. epoch' \in [Rank -> Epoch]
      BY <2>2, RankBounds, ToggleLemma DEF IInv, TypeOK
    <3>2. ends' \subseteq End
      BY <2>1, RankBounds DEF IInv, TypeOK, End, Rank
    <3>3. pc' \in [Rank -> {"working", "terminating"}]
      BY <2>2 DEF IInv, TypeOK
    <3>4. left' \in [Rank -> 0 .. MaxRequests]
      <4>1. MaxRequests \in 0 .. MaxRequests
        BY MaxRequestsAssumption
      <4> QED BY <2>2, <4>1 DEF IInv, TypeOK
    <3> QED BY <1>3, <2>1, <3>1, <3>2, <3>3, <3>4 DEF IInv, TypeOK
  <2>5. SendersInPeriod' /\ RemoversWork' /\ OneToken' /\ TokenSweep'
    BY <1>3, <2>1, <2>3 DEF SendersInPeriod, RemoversWork, OneToken, TokenSweep
  <2>6. 1 .. N-1 = Rank \ {0}
    BY NAssumption DEF Rank
  <2>7. EndsAwaited'
    BY <1>2, <2>1, <2>3, <2>6 DEF EndsAwaited
  <2>8. OthersCaughtUp'
    <3>1. \A r \in Rank \ {0} : [to |-> r, epoch |-> epoch[0]] \in ends'
      BY <2>1, <2>6
    <3>2. \A r \in Rank \ {0} : r \in Late'
      BY <3>1 DEF Late
    <3> QED BY <3>2 DEF OthersCaughtUp
  <2> QED BY <2>4, <2>5, <2>7, <2>8 DEF IInv
<1>5. CASE ~(t.color = "WHITE" /\ color[0] = "WHITE")
  <2>1. /\ tokens' = {[to |-> N-1, epoch |-> epoch[0], color |-> "WHITE"]}
        /\ color' = [color EXCEPT ![0] = "WHITE"]
        /\ UNCHANGED <<pc, epoch, left, ends>>
    BY <1>1, <1>2, <1>5
  <2>2. TypeOK'
    <3>1. color' \in [Rank -> Color] /\ tokens' \subseteq Token
      BY <2>1, RankBounds DEF IInv, TypeOK, Color, Token
    <3> QED BY <1>3, <2>1, <3>1 DEF IInv, TypeOK
  <2>3. SendersInPeriod' /\ RemoversWork' /\ EndsAwaited' /\ OthersCaughtUp'
    BY <1>2, <1>3, <2>1 DEF SendersInPeriod, RemoversWork, EndsAwaited,
                            OthersCaughtUp, Late
  <2>4. OneToken'
    BY <1>2, <2>1, RankBounds DEF OneToken
  <2>5. TokenSweep'
    BY <2>1, NAssumption DEF TokenSweep, Rank
  <2> QED BY <2>2, <2>3, <2>4, <2>5 DEF IInv
<1> QED BY <1>4, <1>5

(* PassToken: the process that passes the token is idle in terminate() and *)
(* in the period of rank 0, as the token is.                               *)
LEMMA PassTokenIInv ==
  ASSUME IInv, NEW r \in Rank, PassToken(r)
  PROVE  IInv'
<1> DEFINE c(t) == IF color[r] = "BLACK" THEN "BLACK" ELSE t.color
<1>1. PICK t \in tokens :
        /\ t.to = r
        /\ t.epoch = epoch[r]
        /\ tokens' = (tokens \ {t}) \cup
             {[to |-> r - 1, epoch |-> epoch[r], color |-> c(t)]}
  BY DEF PassToken
<1>2. /\ tokens = {t} /\ epoch[r] = epoch[0] /\ pc[0] = "terminating"
      /\ pc[r] = "terminating"
  BY <1>1 DEF IInv, OneToken, PassToken, InTerminateLoop
<1>3. tokens' = {[to |-> r - 1, epoch |-> epoch[r], color |-> c(t)]}
  BY <1>1, <1>2
<1>4. /\ UNCHANGED <<pc, epoch, left, sent, ends>>
      /\ color' = [color EXCEPT ![r] = "WHITE"]
  BY DEF PassToken
<1>5. TypeOK'
  <2>1. r - 1 \in Rank
    BY NAssumption DEF Rank, PassToken
  <2>2. c(t) \in Color /\ color' \in [Rank -> Color]
    BY <1>4 DEF IInv, TypeOK, Token, Color
  <2>3. tokens' \subseteq Token
    BY <1>3, <2>1, <2>2 DEF IInv, TypeOK, Token
  <2> QED BY <1>4, <2>2, <2>3 DEF IInv, TypeOK
<1>6. SendersInPeriod' /\ RemoversWork' /\ EndsAwaited' /\ OthersCaughtUp'
  BY <1>4 DEF IInv, SendersInPeriod, RemoversWork, EndsAwaited, OthersCaughtUp,
              Late
<1>7. OneToken'
  BY <1>2, <1>3, <1>4 DEF OneToken
<1>8. TokenSweep'
  <2>1. \A q \in Rank : q > r - 1 => q = r \/ q > r
    BY RankBounds
  <2>2. \A q \in Rank : InTerminateLoop(q) => InTerminateLoop(q)'
    BY <1>4 DEF InTerminateLoop, Blocked
  <2>3. InTerminateLoop(r)
    BY DEF PassToken
  <2> QED BY <1>1, <1>2, <1>3, <1>4, <2>1, <2>2, <2>3 DEF IInv, TokenSweep
<1> QED BY <1>5, <1>6, <1>7, <1>8 DEF IInv

(* ReceiveEnd: the process catches up with rank 0, which has no token out  *)
(* that this process forwarded.                                            *)
LEMMA ReceiveEndIInv ==
  ASSUME IInv, NEW r \in Rank, ReceiveEnd(r)
  PROVE  IInv'
<1>1. PICK e \in ends : e.to = r /\ e.epoch = epoch[r] /\ ends' = ends \ {e}
  BY DEF ReceiveEnd
<1>2. /\ epoch' = [epoch EXCEPT ![r] = Toggle(@)]
      /\ pc' = [pc EXCEPT ![r] = "working"]
      /\ left' = [left EXCEPT ![r] = MaxRequests]
      /\ UNCHANGED <<color, sent, tokens>>
  BY DEF ReceiveEnd, Leave
<1>3. r # 0 /\ epoch[r] # epoch[0] /\ pc[r] = "terminating"
  BY <1>1 DEF IInv, EndsAwaited
<1>4. \A f \in ends' : f.to # r
  BY <1>1 DEF IInv, EndsAwaited, TypeOK, End
<1>5. /\ epoch'[r] = epoch[0] /\ pc'[r] = "working"
      /\ \A q \in Rank \ {r} : epoch'[q] = epoch[q] /\ pc'[q] = pc[q]
  BY <1>2, <1>3, RankBounds, ToggleLemma DEF IInv, TypeOK
<1>6. TypeOK'
  <2>1. epoch' \in [Rank -> Epoch]
    BY <1>2, ToggleLemma DEF IInv, TypeOK
  <2>2. pc' \in [Rank -> {"working", "terminating"}]
    BY <1>2 DEF IInv, TypeOK
  <2>3. left' \in [Rank -> 0 .. MaxRequests]
    BY <1>2, MaxRequestsAssumption DEF IInv, TypeOK
  <2> QED BY <1>1, <1>2, <2>1, <2>2, <2>3 DEF IInv, TypeOK
<1>7. SendersInPeriod' /\ RemoversWork'
  <2>1. r \in Late /\ Late' \subseteq Late
    BY <1>1 DEF Late
  <2> QED BY <1>2, <1>3, <1>5, <2>1
          DEF IInv, SendersInPeriod, RemoversWork, TypeOK, Request
<1>8. EndsAwaited'
  BY <1>1, <1>3, <1>4, <1>5, RankBounds DEF IInv, EndsAwaited, TypeOK, End
<1>9. OthersCaughtUp'
  BY <1>1, <1>3, <1>5, RankBounds DEF IInv, OthersCaughtUp, Late
<1>10. OneToken'
  BY <1>2, <1>3, <1>5, RankBounds DEF IInv, OneToken
<1>11. TokenSweep'
  BY <1>2, <1>3, <1>5, RankBounds
     DEF IInv, TokenSweep, InTerminateLoop, Blocked
<1> QED BY <1>6, <1>7, <1>8, <1>9, <1>10, <1>11 DEF IInv

(* Every step preserves the inductive invariant.                           *)
LEMMA NextIInv == RemovesGoDown /\ IInv /\ [Next]_vars => IInv'
<1> SUFFICES ASSUME RemovesGoDown, IInv, [Next]_vars PROVE IInv'
  OBVIOUS
<1>1. ASSUME NEW r \in Rank, Process(r) PROVE IInv'
  BY <1>1, PostIInv, HandleRequestIInv, HandleRemoveNodeIInv, EnterIInv,
     PassTokenIInv, ReceiveEndIInv DEF Process
<1>2. CASE TokenAtRoot
  BY <1>2, TokenAtRootIInv
<1>3. CASE UNCHANGED vars
  BY <1>3 DEF vars, IInv, TypeOK, SendersInPeriod, RemoversWork, EndsAwaited,
              OthersCaughtUp, Late, OneToken, TokenSweep, InTerminateLoop, Blocked
<1> QED BY <1>1, <1>2, <1>3 DEF Next

(* The inductive invariant always holds.                                   *)
THEOREM IInvHolds == RemovesGoDown /\ Spec => []IInv
<1> SUFFICES ASSUME RemovesGoDown PROVE Spec => []IInv
  OBVIOUS
<1>1. Init => IInv
  BY InitIInv
<1>2. IInv /\ [Next]_vars => IInv'
  BY NextIInv
<1> QED BY <1>1, <1>2, PTL DEF Spec

-----------------------------------------------------------------------------
(* Every variable of terminate() and of the requests keeps its type.       *)
THEOREM TypeCorrect == RemovesGoDown /\ Spec => []TypeOK
<1>1. IInv => TypeOK
  BY DEF IInv
<1> QED BY <1>1, IInvHolds, PTL

(* Where the token has been nobody works any more (TokenSweep), for any    *)
(* number of processes: why one round of the token is enough.              *)
THEOREM Sweep == RemovesGoDown /\ Spec => []TokenSweep
<1>1. IInv => TokenSweep
  BY DEF IInv
<1> QED BY <1>1, IInvHolds, PTL

(* Soundness of termination detection, for any number of processes: while  *)
(* the END of a period is in flight, no request of it is pending and its   *)
(* receivers are idle in terminate().                                      *)
THEOREM Soundness == RemovesGoDown /\ Spec => []TerminationSound
<1>1. IInv => TerminationSound
  <2> SUFFICES ASSUME IInv, NEW e \in ends
               PROVE  InTerminateLoop(e.to) /\ \A m \in sent : m.epoch # e.epoch
    BY DEF TerminationSound
  <2>1. e.to \in Rank /\ pc[e.to] = "terminating" /\ e.epoch # epoch[0]
    BY DEF IInv, EndsAwaited, TypeOK, End
  <2>2. ASSUME NEW m \in sent PROVE m.epoch # e.epoch
    <3>1. /\ m.from \in Rank /\ m.from \notin Late
          /\ m.epoch = epoch[m.from]
      BY DEF IInv, SendersInPeriod, TypeOK, Request
    <3> QED BY <2>1, <3>1 DEF IInv, OthersCaughtUp
  <2>3. e.to \in Late
    BY <2>1 DEF Late
  <2> QED BY <2>2, <2>3, LateIdle
<1> QED BY <1>1, IInvHolds, PTL

(* The two epochs are enough to keep the requests of successive periods    *)
(* apart (PeriodsDoNotMix), for any number of processes.                   *)
THEOREM EpochIsolation == RemovesGoDown /\ Spec => []PeriodsDoNotMix
<1>1. IInv => PeriodsDoNotMix
  <2> SUFFICES ASSUME IInv, NEW m \in sent, m.epoch = epoch[m.to]
               PROVE  m.from \in Late <=> m.to \in Late
    BY DEF PeriodsDoNotMix, Receivable
  <2>1. /\ m.from \in Rank /\ m.to \in Rank
        /\ m.epoch = epoch[m.from]
    BY DEF IInv, SendersInPeriod, TypeOK, Request
  <2>2. \A r \in Rank : r \in Late <=> epoch[r] # epoch[0]
    BY DEF IInv, EndsAwaited, OthersCaughtUp, Late
  <2> QED BY <2>1, <2>2
<1> QED BY <1>1, IInvHolds, PTL

(* Nobody starts a new period while another process still works in the     *)
(* previous one: a process toggles its epoch (toggleEpoch) only when each   *)
(* process is either idle in terminate() in the same period, or has        *)
(* already left it.                                                        *)
LeaveTogether ==
  [][\A r \in Rank : epoch'[r] # epoch[r] =>
       \A q \in Rank :
         \/ epoch[q] = epoch[r] /\ InTerminateLoop(q)
         \/ epoch[q] # epoch[r] /\ Late # {} /\ q \notin Late]_vars

(* Nobody starts a new period while another process works in the previous  *)
(* one (LeaveTogether), for any number of processes.                       *)
THEOREM BarrierStep == RemovesGoDown /\ Spec => LeaveTogether
<1> DEFINE Together ==
      \A r \in Rank : epoch'[r] # epoch[r] =>
        \A q \in Rank :
          \/ epoch[q] = epoch[r] /\ InTerminateLoop(q)
          \/ epoch[q] # epoch[r] /\ Late # {} /\ q \notin Late
<1>1. IInv /\ [Next]_vars => [Together]_vars
  <2> SUFFICES ASSUME IInv, Next PROVE Together
    BY DEF vars
  <2>1. CASE TokenAtRoot
    <3>1. PICK t \in tokens : t.to = 0
      BY <2>1 DEF TokenAtRoot
    <3>2. \A q \in Rank : InTerminateLoop(q) /\ epoch[q] = epoch[0]
      BY <2>1, <3>1, TokenBack DEF TokenAtRoot
    <3> QED BY <3>2
  <2>2. ASSUME NEW r \in Rank, ReceiveEnd(r) PROVE Together
    <3>1. epoch' = [epoch EXCEPT ![r] = Toggle(@)]
      BY <2>2 DEF ReceiveEnd, Leave
    <3>2. r \in Late
      BY <2>2 DEF ReceiveEnd, Late
    <3>3. \A q \in Rank : q \in Late =>
            /\ pc[q] = "terminating"
            /\ epoch[q] # epoch[0]
      BY DEF IInv, EndsAwaited, Late
    <3>4. \A q \in Rank : q \in Late => epoch[q] = epoch[r]
      BY <3>2, <3>3, RankBounds, ToggleLemma DEF IInv, TypeOK
    <3>5. \A q \in Rank : q \notin Late => epoch[q] # epoch[r]
      BY <3>2, <3>3 DEF IInv, OthersCaughtUp
    <3>6. \A q \in Rank : q # r => epoch'[q] = epoch[q]
      BY <3>1 DEF IInv, TypeOK
    <3> QED BY <3>2, <3>3, <3>4, <3>5, <3>6, LateIdle
  <2>3. ASSUME NEW r \in Rank, Process(r), ~ReceiveEnd(r) PROVE Together
    BY <2>3 DEF Process, Post, HandleRequest, HandleRemoveNode,
                EnterTermination, PassToken
  <2> QED BY <2>1, <2>2, <2>3 DEF Next
<1> QED BY <1>1, IInvHolds, PTL DEF Spec, LeaveTogether

-----------------------------------------------------------------------------
(* A step of the algorithm is a step of the barrier or leaves it unchanged. *)
LEMMA StepRefines ==
  ASSUME RemovesGoDown, IInv, [Next]_vars
  PROVE  [Barrier!Next]_(Barrier!bvars)
<1> DEFINE Inside == {r \in Rank : pc[r] = "terminating"}
           Busy == {r \in Rank : Blocked(r)}
<1>1. ASSUME NEW r \in Rank, Post(r) PROVE Barrier!Post(r)
  <2>1. /\ UNCHANGED <<pc, epoch, ends>>
        /\ pc[r] = "working" /\ ~Blocked(r)
    BY <1>1 DEF Post
  <2>2. PICK k \in Kind, T \in SUBSET Rank :
          T # {} /\ sent' = sent \cup Posted(r, k, T)
    BY <1>1, PostAdds
  <2>3. Busy' = Busy \cup {r}
    <3>1. \A m \in sent' : m \in sent \/ m.from = r
      BY <2>2, PostedLemma DEF IInv
    <3>2. sent \subseteq sent' /\ \E m \in sent' : m.from = r
      BY <2>2, PostedLemma DEF IInv
    <3> QED BY <3>1, <3>2 DEF Blocked
  <2>4. UNCHANGED Late
    BY <2>1 DEF Late
  <2> QED BY <2>1, <2>3, <2>4 DEF Barrier!Post
<1>2. ASSUME NEW r \in Rank, HandleRequest(r)
      PROVE  Barrier!Next \/ UNCHANGED Barrier!bvars
  <2>1. PICK m \in sent : sent' = sent \ {m}
    BY <1>2 DEF HandleRequest
  <2>2. m.from \in Rank
    BY DEF IInv, TypeOK, Request
  <2>3. UNCHANGED <<pc, epoch, Late>>
    BY <1>2 DEF HandleRequest, Late
  <2>4. Busy' = Busy \/ Busy' = Busy \ {m.from}
    BY <2>1 DEF Blocked
  <2>5. m.from \in Busy
    BY <2>2 DEF Blocked
  <2>6. CASE Busy' = Busy
    BY <2>3, <2>6 DEF Barrier!bvars
  <2>7. CASE Busy' = Busy \ {m.from}
    <3>1. Barrier!Received(m.from)
      BY <2>3, <2>5, <2>7 DEF Barrier!Received
    <3> QED BY <2>2, <3>1 DEF Barrier!Next
  <2> QED BY <2>4, <2>6, <2>7
<1>8. ASSUME NEW r \in Rank, HandleRemoveNode(r)
      PROVE  Barrier!Next \/ UNCHANGED Barrier!bvars
  <2>1. PICK m \in sent, T \in SUBSET Rank :
          /\ Receivable(r, m) /\ m.kind = "REMOVE_NODE"
          /\ sent' = (sent \ {m}) \cup Posted(r, "UNLINK", T)
    <3>1. \A T \in {{}} \cup {{t} : t \in Rank \ {r}} : T \in SUBSET Rank
      OBVIOUS
    <3> QED BY <1>8, <3>1 DEF HandleRemoveNode
  <2>2. /\ m.from \in Rank /\ m.to = r /\ m.from # r
        /\ pc[m.from] = "working" /\ m.from \notin Late
        /\ epoch[r] = epoch[m.from]
    BY <2>1, RankBounds
       DEF IInv, TypeOK, Request, RemoversWork, SendersInPeriod, Receivable
  <2>3. r \notin Late
    BY <2>2 DEF IInv, EndsAwaited, OthersCaughtUp, Late
  <2>4. UNCHANGED <<pc, epoch, Late>>
    BY <1>8 DEF HandleRemoveNode, Late
  <2>5. m.from \in Busy /\ m.from \notin Inside
    BY <2>2 DEF Blocked
  <2>6. "UNLINK" \in Kind
    BY DEF Kind
  <2>7. CASE T = {}
    <3>1. sent' = sent \ {m}
      BY <2>1, <2>6, <2>7, PostedLemma DEF Posted
    <3>2. Busy' = Busy \/ Busy' = Busy \ {m.from}
      BY <3>1 DEF Blocked
    <3>3. CASE Busy' = Busy
      BY <2>4, <3>3 DEF Barrier!bvars
    <3>4. CASE Busy' = Busy \ {m.from}
      <4>1. Barrier!Received(m.from)
        BY <2>4, <2>5, <3>4 DEF Barrier!Received
      <4> QED BY <2>2, <4>1 DEF Barrier!Next
    <3> QED BY <3>2, <3>3, <3>4
  <2>8. CASE T # {}
    <3>1. /\ \A n \in sent' : n \in sent \/ n.from = r
          /\ \E n \in sent' : n.from = r
          /\ \A n \in sent : n = m \/ n \in sent'
      BY <2>1, <2>6, <2>8, PostedLemma DEF IInv
    <3>2. Busy' \in {Busy \cup {r}, (Busy \ {m.from}) \cup {r}}
      <4>1. \A q \in Rank : q # m.from /\ q # r => (Blocked(q)' <=> Blocked(q))
        BY <3>1 DEF Blocked
      <4>2. Blocked(r)'
        BY <3>1 DEF Blocked
      <4>3. Busy' = {q \in Rank : Blocked(q)'}
        OBVIOUS
      <4>4. CASE Blocked(m.from)'
        <5>1. Busy' = Busy \cup {r}
          BY <2>5, <4>1, <4>2, <4>3, <4>4
        <5> QED BY <5>1
      <4>5. CASE ~Blocked(m.from)'
        <5>1. Busy' = (Busy \ {m.from}) \cup {r}
          BY <2>2, <2>5, <4>1, <4>2, <4>3, <4>5
        <5> QED BY <5>1
      <4> QED BY <4>4, <4>5
    <3>3. Barrier!Forward(r, m.from)
      BY <2>3, <2>4, <2>5, <3>2 DEF Barrier!Forward
    <3> QED BY <2>2, <3>3 DEF Barrier!Next
  <2> QED BY <2>7, <2>8
<1>3. ASSUME NEW r \in Rank, EnterTermination(r) PROVE Barrier!Enter(r)
  <2>1. /\ pc' = [pc EXCEPT ![r] = "terminating"]
        /\ pc[r] = "working" /\ ~Blocked(r)
        /\ UNCHANGED <<epoch, sent, ends>>
    BY <1>3 DEF EnterTermination
  <2>2. Inside' = Inside \cup {r}
    BY <2>1 DEF IInv, TypeOK
  <2>3. Busy' = Busy /\ Late' = Late
    BY <2>1 DEF Blocked, Late
  <2> QED BY <2>1, <2>2, <2>3 DEF Barrier!Enter
<1>4. ASSUME TokenAtRoot PROVE Barrier!Next \/ UNCHANGED Barrier!bvars
  <2>1. PICK t \in tokens :
          /\ t.to = 0
          /\ \/ /\ ends' = ends \cup
                     {[to |-> i, epoch |-> epoch[0]] : i \in 1 .. N-1}
                /\ Leave(0)
             \/ UNCHANGED <<pc, epoch, ends>>
    BY <1>4 DEF TokenAtRoot
  <2>2. /\ \A r \in Rank : InTerminateLoop(r) /\ epoch[r] = epoch[0]
        /\ sent = {} /\ ends = {} /\ Late = {}
    BY <1>4, <2>1, TokenBack DEF TokenAtRoot
  <2>3. Inside = Rank /\ Busy = {} /\ Busy' = {}
    BY <1>4, <2>2 DEF InTerminateLoop, Blocked, TokenAtRoot
  <2>4. CASE UNCHANGED <<pc, epoch, ends>>
    BY <2>3, <2>4 DEF Barrier!bvars, Late
  <2>5. CASE /\ ends' = ends \cup
                  {[to |-> i, epoch |-> epoch[0]] : i \in 1 .. N-1}
             /\ Leave(0)
    <3>1. Late' = Rank \ {0}
      <4>1. 1 .. N-1 = Rank \ {0}
        BY NAssumption DEF Rank
      <4>2. \A r \in Rank \ {0} : [to |-> r, epoch |-> epoch[0]] \in ends'
        BY <2>5, <4>1
      <4>3. \A e \in ends' : e.to \in Rank \ {0}
        BY <2>2, <2>5, <4>1
      <4> QED BY <4>2, <4>3 DEF Late
    <3>2. Inside' = Inside \ {0}
      BY <2>5, RankBounds DEF Leave, IInv, TypeOK
    <3>3. epoch' = [epoch EXCEPT ![0] = Barrier!Flip(@)]
      BY <2>5 DEF Leave, Toggle, Barrier!Flip
    <3>4. Barrier!Conclude(0)
      BY <2>2, <2>3, <3>1, <3>2, <3>3 DEF Barrier!Conclude
    <3> QED BY <3>4, RankBounds DEF Barrier!Next
  <2> QED BY <2>1, <2>4, <2>5
<1>5. ASSUME NEW r \in Rank, ReceiveEnd(r) PROVE Barrier!Leave(r)
  <2>1. PICK e \in ends : e.to = r /\ e.epoch = epoch[r] /\ ends' = ends \ {e}
    BY <1>5 DEF ReceiveEnd
  <2>2. /\ epoch' = [epoch EXCEPT ![r] = Toggle(@)]
        /\ pc' = [pc EXCEPT ![r] = "working"]
        /\ UNCHANGED sent
        /\ pc[r] = "terminating"
    BY <1>5 DEF ReceiveEnd, Leave, InTerminateLoop
  <2>3. r \in Late
    BY <2>1 DEF Late
  <2>4. Late' = Late \ {r}
    <3>1. \A f \in ends : f.to = r => f = e
      BY <2>1 DEF IInv, EndsAwaited, TypeOK, End
    <3> QED BY <2>1, <3>1 DEF Late
  <2>5. Inside' = Inside \ {r}
    BY <2>2 DEF IInv, TypeOK
  <2>6. Busy' = Busy
    BY <2>2 DEF Blocked
  <2>7. epoch' = [epoch EXCEPT ![r] = Barrier!Flip(@)]
    BY <2>2 DEF Toggle, Barrier!Flip
  <2> QED BY <2>2, <2>3, <2>4, <2>5, <2>6, <2>7 DEF Barrier!Leave
<1>6. ASSUME NEW r \in Rank, PassToken(r) PROVE UNCHANGED Barrier!bvars
  BY <1>6 DEF PassToken, Barrier!bvars, Late, Blocked
<1>7. CASE UNCHANGED vars
  BY <1>7 DEF vars, Barrier!bvars, Late, Blocked
<1> QED BY <1>1, <1>2, <1>3, <1>4, <1>5, <1>6, <1>7, <1>8
        DEF Next, Process, Barrier!Next

(* The algorithm implements the barrier of PeriodBarrier, for any number   *)
(* of processes: only TokenAtRoot opens it, only ReceiveEnd lets the       *)
(* others out, and passing the token is invisible.                         *)
THEOREM Refinement == RemovesGoDown /\ Spec => ImplementsBarrier
<1> SUFFICES ASSUME RemovesGoDown PROVE Spec => ImplementsBarrier
  OBVIOUS
<1>1. Init => Barrier!Init
  BY DEF Init, Barrier!Init, Late, Blocked
<1>2. IInv /\ [Next]_vars => [Barrier!Next]_(Barrier!bvars)
  BY StepRefines
<1>3. Spec => []IInv
  BY IInvHolds
<1> QED BY <1>1, <1>2, <1>3, PTL DEF Spec, ImplementsBarrier, Barrier!Spec
=============================================================================
