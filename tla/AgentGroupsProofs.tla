------------------------- MODULE AgentGroupsProofs -------------------------
(***************************************************************************)
(* Proofs about AgentGroups, for any number of processes, agents and       *)
(* groups, when clear() does not take a DISTANT agent out of its last      *)
(* group.                                                                  *)
(***************************************************************************)
EXTENDS AgentGroups, TLAPS

(* A representation in a good state.  GroupsAgree and ExecutedByOwner say    *)
(* this of every representation, but for the last conjunct: a DISTANT agent  *)
(* is in a group.  It is what keeps add() from building a second node for an *)
(* agent that moveAssign() updates.                                          *)
Good(r) ==
  /\ r \in Representation
  /\ r.groups = r.ids /\ r.tasks = r.ids /\ r.members = r.ids
  /\ r.state = "ABSENT" => r.ids = {}
  /\ \A g \in Group : r.jobs[g] = IF r.state = "LOCAL" /\ g \in r.ids THEN 1 ELSE 0
  /\ r.state = "DISTANT" => r.ids # {}

(* The absent representation is good.                                        *)
LEMMA AbsentGood == Good(Absent)
BY DEF Good, Absent, Representation

(* The sets of a representation, but for its jobs.                           *)
Has(r, state, ids, G) ==
  /\ r \in Representation
  /\ r.state = state /\ r.ids = ids
  /\ r.groups = G /\ r.tasks = G /\ r.members = G

(* What each operator on representations does, field by field.               *)
LEMMA StateField ==
  ASSUME NEW r, NEW s, NEW ids, NEW H, Has(r, s, ids, H),
         NEW t \in {"ABSENT", "LOCAL", "DISTANT"}
  PROVE  Has(WithState(r, t), t, ids, H) /\ WithState(r, t).jobs = r.jobs
BY DEF Has, WithState, Representation

LEMMA IdsField ==
  ASSUME NEW r, NEW s, NEW ids, NEW H, Has(r, s, ids, H), NEW G \in SUBSET Group
  PROVE  Has(WithIds(r, G), s, G, H) /\ WithIds(r, G).jobs = r.jobs
BY DEF Has, WithIds, Representation

LEMMA InsertFields ==
  ASSUME NEW r, NEW s, NEW ids, NEW H, Has(r, s, ids, H), NEW G \in SUBSET Group
  PROVE  Has(Insert(r, G), s, ids, H \cup G) /\ Insert(r, G).jobs = r.jobs
BY DEF Has, Insert, Representation

LEMMA EraseFields ==
  ASSUME NEW r, NEW s, NEW ids, NEW H, Has(r, s, ids, H), NEW G \in SUBSET Group
  PROVE  Has(Erase(r, G), s, ids \ G, H \ G) /\ Erase(r, G).jobs = r.jobs
BY DEF Has, Erase, Representation

LEMMA ScheduleFields ==
  ASSUME NEW r, NEW s, NEW ids, NEW H, Has(r, s, ids, H), NEW G \in SUBSET Group
  PROVE  /\ Has(Schedule(r, G), s, ids, H)
         /\ \A g \in Group :
              Schedule(r, G).jobs[g] = IF g \in G THEN r.jobs[g] + 1 ELSE r.jobs[g]
<1> DEFINE J == [g \in Group |-> IF g \in G THEN r.jobs[g] + 1 ELSE r.jobs[g]]
<1>1. J \in [Group -> Nat]
  BY DEF Has, Representation
<1>2. Schedule(r, G) = [r EXCEPT !.jobs = J]
  BY DEF Schedule
<1> HIDE DEF J
<1>3. Has(Schedule(r, G), s, ids, H) /\ Schedule(r, G).jobs = J
  BY <1>1, <1>2 DEF Has, Representation
<1> QED BY <1>3 DEF J

LEMMA UnscheduleFields ==
  ASSUME NEW r, NEW s, NEW ids, NEW H, Has(r, s, ids, H), NEW G \in SUBSET Group
  PROVE  /\ Has(Unschedule(r, G), s, ids, H)
         /\ \A g \in Group :
              Unschedule(r, G).jobs[g] =
                IF g \in G /\ r.jobs[g] > 0 THEN r.jobs[g] - 1 ELSE r.jobs[g]
<1> DEFINE J == [g \in Group |->
                   IF g \in G /\ r.jobs[g] > 0 THEN r.jobs[g] - 1 ELSE r.jobs[g]]
<1>1. J \in [Group -> Nat]
  BY DEF Has, Representation
<1>2. Unschedule(r, G) = [r EXCEPT !.jobs = J]
  BY DEF Unschedule
<1> HIDE DEF J
<1>3. Has(Unschedule(r, G), s, ids, H) /\ Unschedule(r, G).jobs = J
  BY <1>1, <1>2 DEF Has, Representation
<1> QED BY <1>3 DEF J

(* The agent of an inserted node is in the groups of its ids and in no job   *)
(* yet (InsertAgentNodeCallback).                                            *)
LEMMA Inserted ==
  ASSUME NEW ids \in SUBSET Group
  PROVE  /\ Has(InsertNode(ids), "ABSENT", ids, ids)
         /\ \A g \in Group : InsertNode(ids).jobs[g] = 0
<1>1. Has(Absent, "ABSENT", {}, {}) /\ \A g \in Group : Absent.jobs[g] = 0
  BY DEF Absent, Has, Representation
<1>2. /\ Has(WithIds(Absent, ids), "ABSENT", ids, {})
      /\ WithIds(Absent, ids).jobs = Absent.jobs
  BY <1>1, IdsField
<1>3. /\ Has(InsertNode(ids), "ABSENT", ids, {} \cup ids)
      /\ InsertNode(ids).jobs = Absent.jobs
  BY <1>2, InsertFields DEF InsertNode
<1>4. {} \cup ids = ids
  OBVIOUS
<1> QED BY <1>1, <1>3, <1>4

(* An inserted node that is set LOCAL is good (SetAgentLocalCallback).       *)
LEMMA InsertedLocal ==
  ASSUME NEW ids \in SUBSET Group
  PROVE  /\ Good(SetLocal(InsertNode(ids)))
         /\ SetLocal(InsertNode(ids)).state = "LOCAL"
         /\ SetLocal(InsertNode(ids)).ids = ids
<1> DEFINE r == InsertNode(ids)
<1>1. Has(r, "ABSENT", ids, ids) /\ \A g \in Group : r.jobs[g] = 0
  BY Inserted
<1> HIDE DEF r
<1>2. Has(WithState(r, "LOCAL"), "LOCAL", ids, ids) /\ WithState(r, "LOCAL").jobs = r.jobs
  BY <1>1, StateField
<1>3. r.groups = ids
  BY <1>1 DEF Has
<1>4. /\ Has(SetLocal(r), "LOCAL", ids, ids)
      /\ \A g \in Group : SetLocal(r).jobs[g] = IF g \in ids THEN r.jobs[g] + 1 ELSE r.jobs[g]
  BY <1>2, <1>3, ScheduleFields DEF SetLocal
<1>5. Good(SetLocal(r)) /\ SetLocal(r).state = "LOCAL" /\ SetLocal(r).ids = ids
  BY <1>1, <1>4 DEF Good, Has
<1> QED BY <1>5 DEF r

(* An inserted node that is set DISTANT is good if its agent has groups.     *)
LEMMA InsertedDistant ==
  ASSUME NEW ids \in SUBSET Group, ids # {}
  PROVE  /\ Good(SetDistant(InsertNode(ids)))
         /\ SetDistant(InsertNode(ids)).state = "DISTANT"
         /\ SetDistant(InsertNode(ids)).ids = ids
<1> DEFINE r == InsertNode(ids)
<1>1. Has(r, "ABSENT", ids, ids) /\ \A g \in Group : r.jobs[g] = 0
  BY Inserted
<1> HIDE DEF r
<1>2. /\ Has(WithState(r, "DISTANT"), "DISTANT", ids, ids)
      /\ WithState(r, "DISTANT").jobs = r.jobs
  BY <1>1, StateField
<1>3. r.groups = ids
  BY <1>1 DEF Has
<1>4. /\ Has(SetDistant(r), "DISTANT", ids, ids)
      /\ \A g \in Group : SetDistant(r).jobs[g] =
           IF g \in ids /\ r.jobs[g] > 0 THEN r.jobs[g] - 1 ELSE r.jobs[g]
  BY <1>2, <1>3, UnscheduleFields DEF SetDistant
<1>5. Good(SetDistant(r)) /\ SetDistant(r).state = "DISTANT" /\ SetDistant(r).ids = ids
  BY <1>1, <1>4 DEF Good, Has
<1> QED BY <1>5 DEF r

(* A good representation has one set of groups.                              *)
LEMMA GoodHas ==
  ASSUME NEW r, Good(r)
  PROVE  /\ Has(r, r.state, r.ids, r.ids) /\ r.ids \in SUBSET Group
         /\ r.state \in {"ABSENT", "LOCAL", "DISTANT"}
BY DEF Good, Has, Representation

(* add() of an agent that is already in a group keeps its state and adds     *)
(* the groups.                                                               *)
LEMMA AddToGood ==
  ASSUME NEW r, Good(r), r.state # "ABSENT", r.ids # {},
         NEW G \in SUBSET Group, G \cap r.ids = {}
  PROVE  Good(AddTo(r, G)) /\ AddTo(r, G).state = r.state /\ AddTo(r, G).ids = r.ids \cup G
<1> DEFINE I == r.ids \cup G
           s == Insert(WithIds(r, I), G)
<1>1. Has(WithIds(r, I), r.state, I, r.ids) /\ WithIds(r, I).jobs = r.jobs
  BY GoodHas, IdsField
<1>2. Has(s, r.state, I, I) /\ s.jobs = r.jobs
  BY <1>1, InsertFields
<1>3. AddTo(r, G) = IF r.state = "LOCAL" THEN Schedule(s, G) ELSE s
  BY DEF AddTo, Good
<1> HIDE DEF s
<1>4. CASE r.state = "LOCAL"
  <2>1. /\ Has(Schedule(s, G), r.state, I, I)
        /\ \A g \in Group : Schedule(s, G).jobs[g] = IF g \in G THEN s.jobs[g] + 1 ELSE s.jobs[g]
    BY <1>2, ScheduleFields
  <2>2. AddTo(r, G) = Schedule(s, G)
    BY <1>3, <1>4
  <2>3. \A g \in Group : AddTo(r, G).jobs[g] = IF g \in I THEN 1 ELSE 0
    <3>1. \A g \in Group : r.jobs[g] = IF g \in r.ids THEN 1 ELSE 0
      BY <1>4 DEF Good
    <3> QED BY <1>2, <2>1, <2>2, <3>1
  <2>4. Has(AddTo(r, G), "LOCAL", I, I)
    BY <1>4, <2>1, <2>2
  <2> HIDE DEF I
  <2>5. Good(AddTo(r, G)) /\ AddTo(r, G).state = "LOCAL" /\ AddTo(r, G).ids = I
    BY <2>3, <2>4 DEF Good, Has
  <2> QED BY <1>4, <2>5 DEF I
<1>5. CASE r.state = "DISTANT"
  BY <1>2, <1>3, <1>5 DEF Good, Has
<1> QED BY <1>4, <1>5, GoodHas

(* remove() keeps a representation good, but for a DISTANT agent that would  *)
(* be left without a group.                                                  *)
LEMMA RemoveFromGood ==
  ASSUME NEW r, Good(r), NEW G \in SUBSET Group,
         r.state = "DISTANT" => r.ids \ G # {}
  PROVE  /\ Good(RemoveFrom(r, G))
         /\ RemoveFrom(r, G).state = r.state /\ RemoveFrom(r, G).ids = r.ids \ G
<1>1. CASE r.state = "LOCAL"
  <2> DEFINE s == Unschedule(r, G)
  <2>1. /\ Has(s, r.state, r.ids, r.ids)
        /\ \A g \in Group :
             s.jobs[g] = IF g \in G /\ r.jobs[g] > 0 THEN r.jobs[g] - 1 ELSE r.jobs[g]
    BY GoodHas, UnscheduleFields
  <2>2. RemoveFrom(r, G) = Erase(s, G)
    BY <1>1 DEF RemoveFrom
  <2> HIDE DEF s
  <2>3. Has(Erase(s, G), r.state, r.ids \ G, r.ids \ G) /\ Erase(s, G).jobs = s.jobs
    BY <2>1, EraseFields
  <2> QED BY <1>1, <2>1, <2>2, <2>3 DEF Good, Has
<1>2. CASE r.state # "LOCAL"
  <2>1. RemoveFrom(r, G) = Erase(r, G)
    BY <1>2 DEF RemoveFrom
  <2>2. Has(Erase(r, G), r.state, r.ids \ G, r.ids \ G) /\ Erase(r, G).jobs = r.jobs
    BY GoodHas, EraseFields
  <2> QED BY <1>2, <2>1, <2>2 DEF Good, Has
<1> QED BY <1>1, <1>2

(* moveAssign() gives an agent exactly the groups of the agent it receives.  *)
LEMMA MoveAssignGood ==
  ASSUME NEW r, Good(r), r.state = "DISTANT",
         NEW ids \in SUBSET Group, ids # {}
  PROVE  /\ Good(MoveAssign(r, ids))
         /\ MoveAssign(r, ids).state = "DISTANT" /\ MoveAssign(r, ids).ids = ids
<1> DEFINE s == IF ids \subseteq r.ids THEN r ELSE AddTo(r, ids \ r.ids)
<1>1. /\ r.ids # {} /\ r.ids \in SUBSET Group
  BY DEF Good, Representation
<1>2. Good(s) /\ s.state = "DISTANT" /\ s.ids = r.ids \cup ids
  <2>1. CASE ids \subseteq r.ids
    BY <2>1
  <2>2. CASE ~(ids \subseteq r.ids)
    <3>1. ids \ r.ids \in SUBSET Group /\ (ids \ r.ids) \cap r.ids = {}
      OBVIOUS
    <3>2. /\ Good(AddTo(r, ids \ r.ids)) /\ AddTo(r, ids \ r.ids).state = r.state
          /\ AddTo(r, ids \ r.ids).ids = r.ids \cup (ids \ r.ids)
      BY <1>1, <3>1, AddToGood
    <3> QED BY <2>2, <3>2
  <2> QED BY <2>1, <2>2
<1>3. s.ids \ (r.ids \ ids) = ids
  BY <1>2
<1>4. r.ids \ ids \in SUBSET Group
  BY <1>1
<1> HIDE DEF s
<1>5. /\ Good(RemoveFrom(s, r.ids \ ids))
      /\ RemoveFrom(s, r.ids \ ids).state = s.state
      /\ RemoveFrom(s, r.ids \ ids).ids = s.ids \ (r.ids \ ids)
  BY <1>2, <1>3, <1>4, RemoveFromGood
<1>6. MoveAssign(r, ids) = RemoveFrom(s, r.ids \ ids)
  BY DEF MoveAssign, s
<1> QED BY <1>2, <1>3, <1>5, <1>6

(* A node that is set DISTANT leaves every job (SetAgentDistantCallback).    *)
LEMMA SetDistantGood ==
  ASSUME NEW r, Good(r), r.state = "LOCAL", r.ids # {}
  PROVE  Good(SetDistant(r)) /\ SetDistant(r).state = "DISTANT" /\ SetDistant(r).ids = r.ids
<1>1. /\ Has(WithState(r, "DISTANT"), "DISTANT", r.ids, r.ids)
      /\ WithState(r, "DISTANT").jobs = r.jobs
  BY GoodHas, StateField
<1>2. r.groups = r.ids /\ r.ids \in SUBSET Group
  BY GoodHas DEF Has
<1>3. /\ Has(SetDistant(r), "DISTANT", r.ids, r.ids)
      /\ \A g \in Group : SetDistant(r).jobs[g] =
           IF g \in r.ids /\ r.jobs[g] > 0 THEN r.jobs[g] - 1 ELSE r.jobs[g]
  BY <1>1, <1>2, UnscheduleFields DEF SetDistant
<1> QED BY <1>3 DEF Good, Has

(* A DISTANT node that is set LOCAL enters every job of its groups           *)
(* (SetAgentLocalCallback).                                                  *)
LEMMA SetLocalGood ==
  ASSUME NEW r, Good(r), r.state = "DISTANT"
  PROVE  Good(SetLocal(r)) /\ SetLocal(r).state = "LOCAL" /\ SetLocal(r).ids = r.ids
<1>1. Has(WithState(r, "LOCAL"), "LOCAL", r.ids, r.ids) /\ WithState(r, "LOCAL").jobs = r.jobs
  BY GoodHas, StateField
<1>2. r.groups = r.ids /\ r.ids \in SUBSET Group
  BY GoodHas DEF Has
<1>3. /\ Has(SetLocal(r), "LOCAL", r.ids, r.ids)
      /\ \A g \in Group :
           SetLocal(r).jobs[g] = IF g \in r.ids THEN r.jobs[g] + 1 ELSE r.jobs[g]
  BY <1>1, <1>2, ScheduleFields DEF SetLocal
<1> QED BY <1>3 DEF Good, Has

(* Nothing is left of an erased node (EraseAgentNodeCallback).               *)
LEMMA EraseNodeGood ==
  ASSUME NEW r, Good(r)
  PROVE  Good(EraseNode(r)) /\ EraseNode(r).state = "ABSENT"
<1> DEFINE s == RemoveFrom(r, r.ids)
<1>1. /\ Has(s, r.state, {}, {})
      /\ \A g \in Group : s.jobs[g] = 0
  <2>1. CASE r.state = "LOCAL"
    <3> DEFINE u == Unschedule(r, r.ids)
    <3>1. /\ Has(u, r.state, r.ids, r.ids)
          /\ \A g \in Group :
               u.jobs[g] = IF g \in r.ids /\ r.jobs[g] > 0 THEN r.jobs[g] - 1 ELSE r.jobs[g]
      BY GoodHas, UnscheduleFields
    <3>2. s = Erase(u, r.ids)
      BY <2>1 DEF RemoveFrom
    <3> HIDE DEF u, s
    <3>3. Has(s, r.state, r.ids \ r.ids, r.ids \ r.ids) /\ s.jobs = u.jobs
      <4>1. r.ids \in SUBSET Group
        BY GoodHas
      <4>2. /\ Has(Erase(u, r.ids), r.state, r.ids \ r.ids, r.ids \ r.ids)
            /\ Erase(u, r.ids).jobs = u.jobs
        BY <3>1, <4>1, EraseFields
      <4> QED BY <3>2, <4>2
    <3>4. r.ids \ r.ids = {}
      OBVIOUS
    <3> QED BY <2>1, <3>1, <3>3, <3>4 DEF Good
  <2>2. CASE r.state # "LOCAL"
    <3>1. Has(s, r.state, r.ids \ r.ids, r.ids \ r.ids) /\ s.jobs = r.jobs
      BY <2>2, GoodHas, EraseFields DEF RemoveFrom
    <3>2. r.ids \ r.ids = {}
      OBVIOUS
    <3> QED BY <2>2, <3>1, <3>2 DEF Good
  <2> QED BY <2>1, <2>2
<1>2. EraseNode(r) = WithState(WithIds(s, {}), "ABSENT")
  BY DEF EraseNode, Good
<1> HIDE DEF s
<1>3. Has(WithIds(s, {}), r.state, {}, {}) /\ WithIds(s, {}).jobs = s.jobs
  BY <1>1, IdsField
<1>4. Has(EraseNode(r), "ABSENT", {}, {}) /\ EraseNode(r).jobs = s.jobs
  BY <1>2, <1>3, StateField
<1> QED BY <1>1, <1>4 DEF Good, Has

(* An imported node is LOCAL, in the groups it was sent with (importNode).   *)
LEMMA ImportNodeGood ==
  ASSUME NEW r, Good(r), r.state # "LOCAL", NEW ids \in SUBSET Group, ids # {}
  PROVE  /\ Good(ImportNode(r, ids))
         /\ ImportNode(r, ids).state = "LOCAL" /\ ImportNode(r, ids).ids = ids
<1>1. CASE r.state = "ABSENT"
  BY <1>1, InsertedLocal DEF ImportNode
<1>2. CASE r.state = "DISTANT"
  <2>1. /\ Good(MoveAssign(r, ids))
        /\ MoveAssign(r, ids).state = "DISTANT" /\ MoveAssign(r, ids).ids = ids
    BY <1>2, MoveAssignGood
  <2>2. /\ Good(SetLocal(MoveAssign(r, ids)))
        /\ SetLocal(MoveAssign(r, ids)).state = "LOCAL"
        /\ SetLocal(MoveAssign(r, ids)).ids = ids
    BY <2>1, SetLocalGood
  <2> QED BY <1>2, <2>2 DEF ImportNode
<1> QED BY <1>1, <1>2 DEF Good, Representation

(* The inductive invariant: every representation is good, an agent that has  *)
(* not been created is nowhere, one that has been and is not removed has one *)
(* owner, and ghosts have the groups of their owner when a collective call   *)
(* has returned.                                                             *)
Inv ==
  /\ TypeOK
  /\ fresh \cap removed = {}
  /\ \A p \in Rank, a \in Agent : Good(rep[p][a])
  /\ \A p \in Rank, a \in fresh : Is(p, a, "ABSENT")
  /\ AgentsKept
  /\ GhostGroups

(* The first states satisfy the invariant.                                   *)
LEMMA InitInv == Init => Inv
<1> SUFFICES ASSUME Init PROVE Inv
  OBVIOUS
<1>1. \A p \in Rank, a \in Agent : rep[p][a] = Absent
  BY DEF Init
<1>2. Absent \in Representation /\ Absent.state = "ABSENT"
  BY AbsentGood DEF Good, Absent
<1>3. TypeOK
  BY <1>2 DEF Init, TypeOK
<1>4. fresh \cap removed = {} /\ AgentsKept /\ GhostGroups
  BY DEF Init, AgentsKept, GhostGroups
<1>5. \A p \in Rank, a \in Agent : Good(rep[p][a]) /\ Is(p, a, "ABSENT")
  BY <1>1, <1>2, AbsentGood DEF Is
<1> QED BY <1>3, <1>4, <1>5 DEF Inv, Init

(* A step that changes the representation of one agent on one process to a   *)
(* good one keeps the invariant, if the agent is still owned, or removed.    *)
LEMMA OneChange ==
  ASSUME Inv, NEW p \in Rank, NEW a \in Agent, NEW r, Good(r),
         rep' = [rep EXCEPT ![p][a] = r],
         fresh' \subseteq fresh, fresh \subseteq fresh' \cup {a},
         removed \subseteq removed', removed' \subseteq removed \cup {a},
         a \notin fresh', synced' = FALSE,
         a \notin removed' =>
           \E q \in Rank : /\ Is(q, a, "LOCAL")' /\ rep'[q][a].groups # {}
                           /\ \A o \in Rank \ {q} : ~Is(o, a, "LOCAL")'
  PROVE  Inv'
<1>1. /\ rep \in [Rank -> [Agent -> Representation]]
      /\ fresh \subseteq Agent /\ removed \subseteq Agent
  BY DEF Inv, TypeOK
<1>2. r \in Representation
  BY DEF Good
<1>3. \A q \in Rank, b \in Agent : rep'[q][b] = IF q = p /\ b = a THEN r ELSE rep[q][b]
  BY <1>1
<1>4. TypeOK'
  BY <1>1, <1>2 DEF TypeOK
<1>5. (fresh \cap removed = {})'
  BY DEF Inv
<1>6. \A q \in Rank, b \in Agent : Good(rep'[q][b])
  BY <1>3 DEF Inv
<1>7. \A q \in Rank, b \in fresh' : Is(q, b, "ABSENT")'
  BY <1>1, <1>3 DEF Inv, Is
<1>8. AgentsKept'
  <2> SUFFICES ASSUME NEW b \in Agent, b \notin fresh', b \notin removed'
               PROVE  \E q \in Rank : /\ Is(q, b, "LOCAL")' /\ rep'[q][b].groups # {}
                                      /\ \A o \in Rank \ {q} : ~Is(o, b, "LOCAL")'
    BY DEF AgentsKept
  <2>1. CASE b = a
    BY <2>1
  <2>2. CASE b # a
    <3>1. b \in Agent \ (fresh \cup removed)
      BY <2>2
    <3>2. PICK q \in Rank : /\ Is(q, b, "LOCAL") /\ rep[q][b].groups # {}
                            /\ \A o \in Rank \ {q} : ~Is(o, b, "LOCAL")
      BY <3>1 DEF Inv, AgentsKept
    <3> QED BY <1>3, <2>2, <3>2 DEF Is
  <2> QED BY <2>1, <2>2
<1>9. GhostGroups'
  BY DEF GhostGroups
<1> QED BY <1>4, <1>5, <1>6, <1>7, <1>8, <1>9 DEF Inv

(* What the invariant says of the owner of an agent.                         *)
LEMMA OwnerOf ==
  ASSUME Inv, NEW a \in Agent, a \notin fresh, a \notin removed
  PROVE  /\ Owner(a) \in Rank /\ Is(Owner(a), a, "LOCAL")
         /\ rep[Owner(a)][a].ids # {} /\ rep[Owner(a)][a].ids \in SUBSET Group
         /\ \A q \in Rank : Is(q, a, "LOCAL") => q = Owner(a)
<1>1. PICK p \in Rank : /\ Is(p, a, "LOCAL") /\ rep[p][a].groups # {}
                        /\ \A q \in Rank \ {p} : ~Is(q, a, "LOCAL")
  BY DEF Inv, AgentsKept
<1>2. Owner(a) \in Rank /\ Is(Owner(a), a, "LOCAL")
  BY <1>1 DEF Owner
<1>3. Owner(a) = p
  BY <1>1, <1>2
<1>4. Good(rep[p][a])
  BY DEF Inv
<1>5. rep[p][a].groups = rep[p][a].ids /\ rep[p][a].ids \in SUBSET Group
  BY <1>4, GoodHas DEF Has
<1> QED BY <1>1, <1>2, <1>3, <1>5

(* Creation puts a new agent in a first group of its creator.                *)
LEMMA CreateInv ==
  ASSUME Inv, NEW p \in Rank, Create(p)
  PROVE  Inv'
<1>1. PICK a \in fresh, g \in Group :
        rep' = [rep EXCEPT ![p][a] = SetLocal(InsertNode({g}))] /\ fresh' = fresh \ {a}
  BY DEF Create
<1> DEFINE r == SetLocal(InsertNode({g}))
<1>2. Good(r) /\ r.state = "LOCAL" /\ r.ids = {g}
  BY InsertedLocal
<1>3. r.groups # {}
  BY <1>2 DEF Good
<1>4. rep' = [rep EXCEPT ![p][a] = r]
  BY <1>1
<1> HIDE DEF r
<1>5. a \in Agent /\ rep \in [Rank -> [Agent -> Representation]]
  BY DEF Inv, TypeOK
<1>6. \A q \in Rank : rep'[q][a] = IF q = p THEN r ELSE rep[q][a]
  BY <1>4, <1>5
<1>7. \A q \in Rank : Is(q, a, "ABSENT")
  BY DEF Inv
<1>8. /\ Is(p, a, "LOCAL")' /\ rep'[p][a].groups # {}
      /\ \A o \in Rank \ {p} : ~Is(o, a, "LOCAL")'
  BY <1>2, <1>3, <1>6, <1>7 DEF Is
<1>9. removed' = removed /\ synced' = FALSE
  BY DEF Create
<1> QED BY <1>1, <1>2, <1>4, <1>5, <1>8, <1>9, OneChange

(* Additions to a group concern an agent that has others.                    *)
LEMMA AddInv ==
  ASSUME Inv, NEW p \in Rank, Add(p)
  PROVE  Inv'
<1>1. PICK a \in Agent, g \in Group :
        /\ Is(p, a, "LOCAL") /\ rep[p][a].groups # {} /\ g \notin rep[p][a].groups
        /\ rep' = [rep EXCEPT ![p][a] = AddTo(@, {g})]
  BY DEF Add
<1> DEFINE r == AddTo(rep[p][a], {g})
<1>2. rep \in [Rank -> [Agent -> Representation]] /\ Good(rep[p][a])
  BY DEF Inv, TypeOK
<1>3. rep' = [rep EXCEPT ![p][a] = r]
  BY <1>1, <1>2
<1>4. rep[p][a].groups = rep[p][a].ids /\ rep[p][a].state = "LOCAL"
  BY <1>1, <1>2 DEF Good, Is
<1>5. Good(r) /\ r.state = "LOCAL" /\ r.ids = rep[p][a].ids \cup {g}
  BY <1>1, <1>2, <1>4, AddToGood
<1>6. r.groups # {}
  BY <1>5 DEF Good
<1> HIDE DEF r
<1>7. \A q \in Rank : rep'[q][a] = IF q = p THEN r ELSE rep[q][a]
  BY <1>2, <1>3
<1>8. a \notin fresh
  BY <1>4 DEF Inv, Is
<1>9. fresh' = fresh /\ removed' = removed /\ synced' = FALSE
  BY DEF Add
<1>10. ASSUME a \notin removed'
       PROVE  /\ Is(p, a, "LOCAL")' /\ rep'[p][a].groups # {}
              /\ \A o \in Rank \ {p} : ~Is(o, a, "LOCAL")'
  BY <1>1, <1>5, <1>6, <1>7, <1>8, <1>9, <1>10, OwnerOf DEF Is
<1> QED BY <1>2, <1>3, <1>5, <1>8, <1>9, <1>10, OneChange

(* An agent that leaves its last group is removed.                           *)
LEMMA RemoveInv ==
  ASSUME Inv, NEW p \in Rank, Remove(p)
  PROVE  Inv'
<1>1. PICK a \in Agent, g \in Group :
        /\ Is(p, a, "LOCAL") /\ g \in rep[p][a].groups
        /\ rep' = [rep EXCEPT ![p][a] = RemoveFrom(@, {g})]
        /\ RemoveNodes(p, {a})
  BY DEF Remove
<1> DEFINE r == RemoveFrom(rep[p][a], {g})
<1>2. rep \in [Rank -> [Agent -> Representation]] /\ Good(rep[p][a])
  BY DEF Inv, TypeOK
<1>3. rep' = [rep EXCEPT ![p][a] = r]
  BY <1>1, <1>2
<1>4. Good(r) /\ r.state = "LOCAL"
  BY <1>1, <1>2, RemoveFromGood DEF Is
<1> HIDE DEF r
<1>5. \A q \in Rank : rep'[q][a] = IF q = p THEN r ELSE rep[q][a]
  BY <1>2, <1>3
<1>6. /\ removed \subseteq removed' /\ removed' \subseteq removed \cup {a}
      /\ r.groups = {} => a \in removed'
  BY <1>1, <1>4, <1>5 DEF RemoveNodes
<1>7. a \notin fresh /\ fresh' = fresh /\ synced' = FALSE
  BY <1>1 DEF Inv, Is, Remove
<1>8. ASSUME a \notin removed'
      PROVE  /\ Is(p, a, "LOCAL")' /\ rep'[p][a].groups # {}
             /\ \A o \in Rank \ {p} : ~Is(o, a, "LOCAL")'
  BY <1>1, <1>4, <1>5, <1>6, <1>7, <1>8, OwnerOf DEF Is
<1> QED BY <1>2, <1>3, <1>4, <1>6, <1>7, <1>8, OneChange

(* A ghost is inserted in the groups it was sent with.                       *)
LEMMA ImportGhostInv ==
  ASSUME Inv, NEW p \in Rank, ImportGhost(p)
  PROVE  Inv'
<1>1. PICK q \in Rank, a \in Agent \ removed :
        /\ Is(p, a, "ABSENT") /\ ~Is(q, a, "ABSENT") /\ rep[q][a].ids # {}
        /\ rep' = [rep EXCEPT ![p][a] = SetDistant(InsertNode(rep[q][a].ids))]
  BY DEF ImportGhost
<1> DEFINE r == SetDistant(InsertNode(rep[q][a].ids))
<1>2. rep \in [Rank -> [Agent -> Representation]] /\ Good(rep[q][a])
  BY DEF Inv, TypeOK
<1>3. rep[q][a].ids \in SUBSET Group
  BY <1>2, GoodHas
<1>4. Good(r) /\ r.state = "DISTANT"
  BY <1>1, <1>3, InsertedDistant
<1>5. rep' = [rep EXCEPT ![p][a] = r]
  BY <1>1
<1> HIDE DEF r
<1>6. \A o \in Rank : rep'[o][a] = IF o = p THEN r ELSE rep[o][a]
  BY <1>2, <1>5
<1>7. /\ a \notin fresh /\ fresh' = fresh /\ removed' = removed /\ synced' = FALSE
  BY <1>1 DEF Inv, Is, ImportGhost
<1>8. PICK o \in Rank : /\ Is(o, a, "LOCAL") /\ rep[o][a].groups # {}
                        /\ \A x \in Rank \ {o} : ~Is(x, a, "LOCAL")
  BY <1>7 DEF Inv, AgentsKept
<1>9. /\ Is(o, a, "LOCAL")' /\ rep'[o][a].groups # {}
      /\ \A x \in Rank \ {o} : ~Is(x, a, "LOCAL")'
  BY <1>1, <1>4, <1>6, <1>8 DEF Is
<1> QED BY <1>4, <1>5, <1>7, <1>9, OneChange

(* Steps that change many representations: the parts of the invariant that   *)
(* remain to be shown of the new ones.                                       *)
LEMMA ManyChanges ==
  ASSUME Inv, rep' \in [Rank -> [Agent -> Representation]],
         \A p \in Rank, a \in Agent : Good(rep'[p][a]),
         \A p \in Rank, a \in fresh : rep'[p][a].state = "ABSENT",
         fresh' = fresh, removed' \in SUBSET Agent, fresh \cap removed' = {},
         synced' \in BOOLEAN, AgentsKept', GhostGroups'
  PROVE  Inv'
<1>1. TypeOK'
  BY DEF Inv, TypeOK
<1>2. \A p \in Rank, a \in fresh' : Is(p, a, "ABSENT")'
  BY DEF Is
<1> QED BY <1>1, <1>2 DEF Inv

(* clear() empties a group of its agents.  That no ghost loses its last      *)
(* group is the assumption on its use.                                       *)
LEMMA ClearInv ==
  ASSUME ~ClearGhosts, Inv, NEW p \in Rank, Clear(p)
  PROVE  Inv'
<1>1. PICK g \in Group :
        LET A == {a \in Agent : g \in rep[p][a].members}
        IN  /\ \A a \in A : Is(p, a, "DISTANT") => rep[p][a].groups # {g}
            /\ rep' = [rep EXCEPT ![p] = [a \in Agent |->
                 IF a \in A THEN RemoveFrom(rep[p][a], {g}) ELSE rep[p][a]]]
            /\ RemoveNodes(p, A)
  BY DEF Clear
<1> DEFINE A == {a \in Agent : g \in rep[p][a].members}
           f(q, a) == IF q = p /\ a \in A THEN RemoveFrom(rep[p][a], {g}) ELSE rep[q][a]
<1>2. /\ rep \in [Rank -> [Agent -> Representation]]
      /\ \A q \in Rank, a \in Agent : Good(rep[q][a])
  BY DEF Inv, TypeOK
<1>3. ASSUME NEW a \in A
      PROVE  /\ Good(RemoveFrom(rep[p][a], {g}))
             /\ RemoveFrom(rep[p][a], {g}).state = rep[p][a].state
  <2>1. Good(rep[p][a]) /\ rep[p][a].groups = rep[p][a].ids /\ g \in rep[p][a].ids
    BY <1>2, <1>3 DEF Good
  <2>2. rep[p][a].state = "DISTANT" => rep[p][a].ids \ {g} # {}
    BY <1>1, <1>3, <2>1 DEF Is
  <2> QED BY <2>1, <2>2, RemoveFromGood
<1>4. rep' = [q \in Rank |-> [a \in Agent |-> f(q, a)]]
  BY <1>1, <1>2
<1>5. \A q \in Rank, a \in Agent : Good(f(q, a)) /\ f(q, a).state = rep[q][a].state
  BY <1>2, <1>3
<1>6. \A q \in Rank, a \in Agent : (a \in A /\ q = p) \/ f(q, a) = rep[q][a]
  OBVIOUS
<1>7. \A a \in A : rep[p][a].state # "ABSENT"
  BY <1>2 DEF Good
<1>8. removed' = removed \cup {a \in A : rep'[p][a].state = "LOCAL" /\ rep'[p][a].groups = {}}
  BY <1>1 DEF RemoveNodes
<1>9. /\ removed \subseteq removed' /\ removed' \in SUBSET Agent /\ fresh \cap removed' = {}
  BY <1>7, <1>8 DEF Inv, TypeOK, Is
<1>10. fresh' = fresh /\ synced' = FALSE
  BY DEF Clear
<1> HIDE DEF f
<1>11. \A q \in Rank, a \in Agent : rep'[q][a] = f(q, a)
  BY <1>4
<1>12. AgentsKept'
  <2> SUFFICES ASSUME NEW a \in Agent, a \notin fresh, a \notin removed'
               PROVE  \E q \in Rank : /\ Is(q, a, "LOCAL")' /\ rep'[q][a].groups # {}
                                      /\ \A o \in Rank \ {q} : ~Is(o, a, "LOCAL")'
    BY <1>10 DEF AgentsKept
  <2>1. PICK q \in Rank : /\ Is(q, a, "LOCAL") /\ rep[q][a].groups # {}
                          /\ \A o \in Rank \ {q} : ~Is(o, a, "LOCAL")
    BY <1>9 DEF Inv, AgentsKept
  <2>2. \A o \in Rank : rep'[o][a].state = rep[o][a].state
    BY <1>5, <1>11
  <2>3. rep'[q][a].groups # {}
    BY <1>6, <1>8, <1>11, <2>1, <2>2 DEF Is
  <2> QED BY <2>1, <2>2, <2>3 DEF Is
<1>13. GhostGroups'
  BY <1>10 DEF GhostGroups
<1>14. rep' \in [Rank -> [Agent -> Representation]]
  BY <1>4, <1>5 DEF Good
<1>15. \A q \in Rank, a \in fresh : rep'[q][a].state = "ABSENT"
  BY <1>5, <1>11 DEF Inv, TypeOK, Is
<1> QED BY <1>5, <1>9, <1>10, <1>11, <1>12, <1>13, <1>14, <1>15, ManyChanges

(* synchronize() erases what is removed and updates the ghosts that stay.    *)
LEMMA SynchronizeInv ==
  ASSUME Inv, Synchronize
  PROVE  Inv'
<1> DEFINE f(c, p, a) ==
             LET r == rep[p][a]
             IN  IF r.state = "ABSENT" THEN r
                 ELSE IF a \in removed THEN EraseNode(r)
                 ELSE IF r.state = "LOCAL" THEN r
                 ELSE IF a \in c[p] THEN EraseNode(r)
                 ELSE MoveAssign(r, rep[Owner(a)][a].ids)
<1>1. PICK c \in [Rank -> SUBSET Agent] : rep' = [p \in Rank |-> [a \in Agent |-> f(c, p, a)]]
  BY DEF Synchronize
<1>2. fresh' = fresh /\ removed' = removed /\ synced' = TRUE
  BY DEF Synchronize
<1>3. ASSUME NEW p \in Rank, NEW a \in Agent
      PROVE  /\ Good(f(c, p, a))
             /\ a \in fresh => f(c, p, a).state = "ABSENT"
             /\ a \notin removed => (f(c, p, a).state = "LOCAL" <=> Is(p, a, "LOCAL"))
             /\ f(c, p, a).state = "LOCAL" => f(c, p, a) = rep[p][a]
             /\ f(c, p, a).state = "DISTANT" => /\ a \notin removed /\ a \notin fresh
                                               /\ f(c, p, a).ids = rep[Owner(a)][a].ids
  <2>1. Good(rep[p][a]) /\ (a \in fresh => Is(p, a, "ABSENT"))
    BY DEF Inv
  <2>2. Good(EraseNode(rep[p][a])) /\ EraseNode(rep[p][a]).state = "ABSENT"
    BY <2>1, EraseNodeGood
  <2>3. CASE rep[p][a].state = "DISTANT" /\ a \notin removed
    <3>1. /\ Owner(a) \in Rank
          /\ rep[Owner(a)][a].ids # {} /\ rep[Owner(a)][a].ids \in SUBSET Group
      BY <2>1, <2>3, OwnerOf DEF Is
    <3>2. LET m == MoveAssign(rep[p][a], rep[Owner(a)][a].ids)
          IN  Good(m) /\ m.state = "DISTANT" /\ m.ids = rep[Owner(a)][a].ids
      BY <2>1, <2>3, <3>1, MoveAssignGood
    <3> QED BY <2>1, <2>2, <2>3, <3>2 DEF Is
  <2>4. CASE rep[p][a].state \in {"ABSENT", "LOCAL"} \/ a \in removed
    BY <2>1, <2>2, <2>4 DEF Is
  <2> QED BY <2>1, <2>3, <2>4, GoodHas
<1>4. \A p \in Rank, a \in Agent : rep'[p][a] = f(c, p, a)
  BY <1>1
<1> HIDE DEF f
<1>5. rep' \in [Rank -> [Agent -> Representation]]
  BY <1>1, <1>3 DEF Good
<1>6. AgentsKept'
  BY <1>2, <1>3, <1>4 DEF Inv, AgentsKept, Is
<1>7. GhostGroups'
  <2> SUFFICES ASSUME NEW p \in Rank, NEW q \in Rank, NEW a \in Agent,
                      Is(p, a, "DISTANT")', Is(q, a, "LOCAL")'
               PROVE  rep'[p][a].groups = rep'[q][a].groups
    BY DEF GhostGroups
  <2>1. a \notin removed /\ a \notin fresh /\ rep'[p][a].ids = rep[Owner(a)][a].ids
    BY <1>3, <1>4 DEF Is
  <2>2. q = Owner(a) /\ rep'[q][a] = rep[q][a]
    BY <1>3, <1>4, <2>1, OwnerOf DEF Is
  <2>3. Good(rep'[p][a]) /\ Good(rep'[q][a])
    BY <1>3, <1>4
  <2> QED BY <2>1, <2>2, <2>3 DEF Good
<1>8. /\ \A p \in Rank, a \in Agent : Good(rep'[p][a])
      /\ \A p \in Rank, a \in fresh : rep'[p][a].state = "ABSENT"
  BY <1>3, <1>4 DEF Inv, TypeOK
<1>9. removed' \in SUBSET Agent /\ fresh \cap removed' = {} /\ synced' \in BOOLEAN
  BY <1>2 DEF Inv, TypeOK
<1> QED BY <1>2, <1>5, <1>6, <1>7, <1>8, <1>9, ManyChanges

(* distribute() moves agents: the process the partition gives becomes the    *)
(* owner, and nobody else is.                                                *)
LEMMA DistributeInv ==
  ASSUME Inv, Distribute
  PROVE  Inv'
<1> DEFINE ids(a) == rep[Owner(a)][a].ids
           f(t, c, p, a) ==
             LET r == rep[p][a]
             IN  IF \A q \in Rank : Is(q, a, "ABSENT") THEN r
                 ELSE IF t[a] = p THEN IF r.state = "LOCAL" THEN r ELSE ImportNode(r, ids(a))
                 ELSE IF r.state = "LOCAL" THEN
                   IF a \in c THEN EraseNode(SetDistant(r))
                              ELSE MoveAssign(SetDistant(r), ids(a))
                 ELSE IF r.state = "DISTANT" THEN MoveAssign(r, ids(a))
                 ELSE r
<1>1. PICK t \in [Agent \ fresh -> Rank], c \in SUBSET (Agent \ fresh) :
        rep' = [p \in Rank |-> [a \in Agent |-> f(t, c, p, a)]]
  BY DEF Distribute
<1>2. fresh' = fresh /\ removed' = removed /\ synced' = TRUE
  BY DEF Distribute
<1>3. \A p \in Rank, a \in Agent : a \in fresh \cup removed => Is(p, a, "ABSENT")
  BY DEF Distribute, Inv
<1>4. \A p \in Rank, a \in Agent : rep'[p][a] = f(t, c, p, a)
  BY <1>1
<1>5. \A p \in Rank, a \in fresh \cup removed : rep'[p][a] = rep[p][a] /\ Is(p, a, "ABSENT")
  BY <1>3, <1>4 DEF Inv, TypeOK
<1>6. ASSUME NEW a \in Agent, a \notin fresh, a \notin removed, NEW p \in Rank
      PROVE  /\ Good(rep'[p][a])
             /\ rep'[p][a].state = "LOCAL" <=> p = t[a]
             /\ rep'[p][a].state # "ABSENT" => rep'[p][a].ids = ids(a)
  <2> DEFINE r == rep[p][a]
  <2>1. /\ Owner(a) \in Rank /\ Is(Owner(a), a, "LOCAL")
        /\ ids(a) # {} /\ ids(a) \in SUBSET Group
        /\ \A q \in Rank : Is(q, a, "LOCAL") => q = Owner(a)
    BY <1>6, OwnerOf
  <2>2. Good(r)
    BY DEF Inv
  <2>3. ~ \A q \in Rank : Is(q, a, "ABSENT")
    BY <2>1 DEF Is
  <2>4. r.state = "LOCAL" => r.ids = ids(a)
    BY <2>1 DEF Is
  <2>5. r.state \in {"ABSENT", "LOCAL", "DISTANT"}
    BY <2>2, GoodHas
  <2> HIDE DEF ids, r
  <2>6. CASE t[a] = p
    <3>1. CASE r.state = "LOCAL"
      BY <1>4, <2>2, <2>3, <2>4, <2>6, <3>1 DEF r
    <3>2. CASE r.state # "LOCAL"
      <4>1. LET i == ImportNode(r, ids(a))
            IN  Good(i) /\ i.state = "LOCAL" /\ i.ids = ids(a)
        BY <2>1, <2>2, <3>2, ImportNodeGood
      <4>2. rep'[p][a] = ImportNode(r, ids(a))
        BY <1>4, <2>3, <2>6, <3>2 DEF r
      <4> QED BY <2>6, <4>1, <4>2
    <3> QED BY <3>1, <3>2
  <2>7. CASE t[a] # p /\ r.state = "LOCAL"
    <3> DEFINE d == SetDistant(r)
    <3>1. Good(d) /\ d.state = "DISTANT" /\ d.ids = r.ids
      BY <2>1, <2>2, <2>4, <2>7, SetDistantGood
    <3> HIDE DEF d
    <3>2. Good(EraseNode(d)) /\ EraseNode(d).state = "ABSENT"
      BY <3>1, EraseNodeGood
    <3>3. LET m == MoveAssign(d, ids(a))
          IN  Good(m) /\ m.state = "DISTANT" /\ m.ids = ids(a)
      BY <2>1, <3>1, MoveAssignGood
    <3>4. rep'[p][a] = IF a \in c THEN EraseNode(d) ELSE MoveAssign(d, ids(a))
      BY <1>4, <2>3, <2>7 DEF r, d
    <3> QED BY <2>7, <3>2, <3>3, <3>4
  <2>8. CASE t[a] # p /\ r.state = "DISTANT"
    <3>1. LET m == MoveAssign(r, ids(a))
          IN  Good(m) /\ m.state = "DISTANT" /\ m.ids = ids(a)
      BY <2>1, <2>2, <2>8, MoveAssignGood
    <3>2. rep'[p][a] = MoveAssign(r, ids(a))
      BY <1>4, <2>3, <2>8 DEF r
    <3> QED BY <2>8, <3>1, <3>2
  <2>9. CASE t[a] # p /\ r.state = "ABSENT"
    <3>1. rep'[p][a] = r
      BY <1>4, <2>3, <2>9 DEF r
    <3> QED BY <2>2, <2>9, <3>1
  <2> QED BY <2>5, <2>6, <2>7, <2>8, <2>9
<1> HIDE DEF f, ids
<1>7. \A p \in Rank, a \in Agent : Good(rep'[p][a])
  BY <1>5, <1>6 DEF Inv, TypeOK
<1>8. rep' \in [Rank -> [Agent -> Representation]]
  <2>1. \A p \in Rank, a \in Agent : f(t, c, p, a) \in Representation
    BY <1>4, <1>7 DEF Good
  <2> QED BY <1>1, <2>1
<1>9. AgentsKept'
  <2> SUFFICES ASSUME NEW a \in Agent, a \notin fresh, a \notin removed
               PROVE  \E p \in Rank : /\ Is(p, a, "LOCAL")' /\ rep'[p][a].groups # {}
                                      /\ \A q \in Rank \ {p} : ~Is(q, a, "LOCAL")'
    BY <1>2 DEF AgentsKept
  <2>1. t[a] \in Rank
    OBVIOUS
  <2>2. rep'[t[a]][a].state = "LOCAL" /\ rep'[t[a]][a].ids = ids(a)
    BY <1>6, <2>1
  <2>3. rep'[t[a]][a].groups # {}
    BY <1>7, <2>1, <2>2, OwnerOf DEF Good, ids
  <2> QED BY <1>6, <2>1, <2>2, <2>3 DEF Is
<1>10. GhostGroups'
  <2> SUFFICES ASSUME NEW p \in Rank, NEW q \in Rank, NEW a \in Agent,
                      Is(p, a, "DISTANT")', Is(q, a, "LOCAL")'
               PROVE  rep'[p][a].groups = rep'[q][a].groups
    BY DEF GhostGroups
  <2>1. a \notin fresh /\ a \notin removed
    BY <1>5 DEF Is
  <2>2. rep'[p][a].ids = ids(a) /\ rep'[q][a].ids = ids(a)
    BY <1>6, <2>1 DEF Is
  <2> QED BY <1>7, <2>2 DEF Good
<1>11. \A p \in Rank, a \in fresh : rep'[p][a].state = "ABSENT"
  BY <1>5 DEF Is
<1>12. removed' \in SUBSET Agent /\ fresh \cap removed' = {} /\ synced' \in BOOLEAN
  BY <1>2 DEF Inv, TypeOK
<1> QED BY <1>2, <1>7, <1>8, <1>9, <1>10, <1>11, <1>12, ManyChanges

(* The invariant holds in every state, if clear() is not called on a group   *)
(* that is the last one of a ghost.                                          *)
THEOREM Invariance ==
  ASSUME ~ClearGhosts
  PROVE  Spec => []Inv
<1>1. Inv /\ [Next]_vars => Inv'
  <2> SUFFICES ASSUME Inv, [Next]_vars PROVE Inv'
    OBVIOUS
  <2>1. ASSUME NEW p \in Rank, Create(p) PROVE Inv'
    BY <2>1, CreateInv
  <2>2. ASSUME NEW p \in Rank, Add(p) PROVE Inv'
    BY <2>2, AddInv
  <2>3. ASSUME NEW p \in Rank, Remove(p) PROVE Inv'
    BY <2>3, RemoveInv
  <2>4. ASSUME NEW p \in Rank, Clear(p) PROVE Inv'
    BY <2>4, ClearInv
  <2>5. ASSUME NEW p \in Rank, ImportGhost(p) PROVE Inv'
    BY <2>5, ImportGhostInv
  <2>6. CASE Synchronize
    BY <2>6, SynchronizeInv
  <2>7. CASE Distribute
    BY <2>7, DistributeInv
  <2>8. CASE UNCHANGED vars
    BY <2>8 DEF Inv, TypeOK, AgentsKept, GhostGroups, Is, vars
  <2> QED BY <2>1, <2>2, <2>3, <2>4, <2>5, <2>6, <2>7, <2>8 DEF Next
<1> QED BY <1>1, InitInv, PTL DEF Spec

(* groupIds(), groups(), tasks() of an agent and agents() of its groups      *)
(* always agree (AgentGroupBase, moveAssign()).                              *)
THEOREM Agreement ==
  ASSUME ~ClearGhosts
  PROVE  Spec => []GroupsAgree
<1>1. Inv => GroupsAgree
  BY DEF Inv, GroupsAgree, Good
<1> QED BY <1>1, Invariance, PTL

(* An agent is in the jobs of its groups once on the process that owns it,   *)
(* and in no job elsewhere (the callbacks of model.cpp).                     *)
THEOREM ExecutedOnce ==
  ASSUME ~ClearGhosts
  PROVE  Spec => []ExecutedByOwner
<1>1. Inv => ExecutedByOwner
  BY DEF Inv, ExecutedByOwner, Good
<1> QED BY <1>1, Invariance, PTL

(* Agents have one owner until they are removed (importNode(), setDistant(), *)
(* removeNode() and their callbacks).                                        *)
THEOREM OwnersKept ==
  ASSUME ~ClearGhosts
  PROVE  Spec => []AgentsKept
<1>1. Inv => AgentsKept
  BY DEF Inv
<1> QED BY <1>1, Invariance, PTL

(* Ghosts are in the groups of their owner when synchronize() or             *)
(* distribute() returns (moveAssign()).                                      *)
THEOREM GhostsFollow ==
  ASSUME ~ClearGhosts
  PROVE  Spec => []GhostGroups
<1>1. Inv => GhostGroups
  BY DEF Inv
<1> QED BY <1>1, Invariance, PTL
=============================================================================
