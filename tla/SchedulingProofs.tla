-------------------------- MODULE SchedulingProofs --------------------------
(***************************************************************************)
(* Proofs about Scheduling, for any dates, periods, jobs, tasks and lists  *)
(* of jobs, and any number of calls and runs.                              *)
(*                                                                         *)
(* An epoch is built by loops over the items; what the loops compute is    *)
(* shown by taking the first round that contradicts it, which stands for   *)
(* induction.                                                              *)
(***************************************************************************)
EXTENDS Scheduling, TLAPS, SequenceTheorems, WellFoundedInduction

-----------------------------------------------------------------------------
(* Numbers *)

LEMMA LeastOf ==
  ASSUME NEW S \in SUBSET Nat, S # {}
  PROVE  \E m \in S : \A n \in S : m <= n
<1> DEFINE R == OpToRel(<, Nat)
<1>1. IsWellFoundedOn(R, Nat)
  BY NatLessThanWellFounded
<1>2. \A n, m \in Nat : n < m => <<n, m>> \in R
  BY DEF OpToRel
<1> HIDE DEF R
<1>3. PICK m \in S : \A n \in S : ~(<<n, m>> \in R)
  BY <1>1, WFMin
<1>4. ASSUME NEW n \in S PROVE m <= n
  <2>1. n \in Nat /\ m \in Nat
    OBVIOUS
  <2>2. ~(n < m)
    BY <1>2, <1>3, <2>1
  <2> QED
    BY <2>1, <2>2
<1> QED
  BY <1>4

\* A bounded set of integers has a maximum.
LEMMA MaxOf ==
  ASSUME NEW S \in SUBSET Int, S # {}, NEW b \in Int, \A x \in S : x <= b
  PROVE  Max(S) \in S /\ \A x \in S : x <= Max(S)
<1> DEFINE T == {b - x : x \in S}
<1>1. T \in SUBSET Nat /\ T # {}
  <2>1. \A x \in S : b - x \in Nat
    OBVIOUS
  <2> QED
    BY <2>1
<1>2. PICK m \in T : \A n \in T : m <= n
  <2> HIDE DEF T
  <2> QED
    BY <1>1, LeastOf
<1>3. PICK x \in S : m = b - x
  BY <1>2
<1>4. ASSUME NEW y \in S PROVE x >= y
  <2>1. b - y \in T
    OBVIOUS
  <2>2. x \in Int /\ y \in Int /\ b - x <= b - y
    BY <1>2, <1>3, <2>1
  <2> HIDE DEF T
  <2> QED
    BY <2>2
<1>5. \E z \in S : \A y \in S : z >= y
  BY <1>4
<1>6. Max(S) \in S /\ \A y \in S : Max(S) >= y
  BY <1>5 DEF Max
<1>7. \A y \in S : y \in Int
  OBVIOUS
<1> HIDE DEF T
<1> QED
  BY <1>6, <1>7

LEMMA MinOf ==
  ASSUME NEW S \in SUBSET Nat, S # {}
  PROVE  Min(S) \in S /\ \A x \in S : Min(S) <= x
<1>1. \E z \in S : \A y \in S : z <= y
  BY LeastOf
<1> QED
  BY <1>1 DEF Min

\* Division with remainder is unique.
LEMMA Divided ==
  ASSUME NEW n \in Nat \ {0}, NEW q \in Int, NEW r \in 0 .. n - 1
  PROVE  (q * n + r) \div n = q /\ (q * n + r) % n = r
<1> DEFINE x == q * n + r
<1>1. q * n \in Int /\ x \in Int
  OBVIOUS
<1>2. x \div n \in Int /\ x % n \in 0 .. n - 1 /\ x = n * (x \div n) + (x % n)
  <2> HIDE DEF x
  <2> QED
    BY <1>1
<1> DEFINE p == x \div n
           s == x % n
<1>3. n * p + s = q * n + r /\ p \in Int /\ s \in 0 .. n - 1
  BY <1>2
<1>4. p = q
  <2> HIDE DEF p, s, x
  <2>1. CASE p < q
    <3>1. n * (p + 1) <= n * q
      BY <1>3, <2>1
    <3> QED
      BY <1>3, <3>1
  <2>2. CASE p > q
    <3>1. n * (q + 1) <= n * p
      BY <1>3, <2>2
    <3> QED
      BY <1>3, <3>1
  <2> QED
    BY <1>3, <2>1, <2>2
<1>5. s = r
  <2> HIDE DEF p, s, x
  <2> QED
    BY <1>3, <1>4
<1> QED
  BY <1>4, <1>5

\* The parts of a date.
LEMMA DateParts ==
  ASSUME NEW d \in Nat
  PROVE  /\ TimeStep(d) \in Nat /\ SubTimeStep(d) \in 0 .. Sub - 1
         /\ d = TimeStep(d) * Sub + SubTimeStep(d)
<1>1. d \div Sub \in Int /\ d % Sub \in 0 .. Sub - 1 /\ d = Sub * (d \div Sub) + (d % Sub)
  BY SchedulingAssumption
<1>2. d \div Sub >= 0
  BY SchedulingAssumption
<1>3. Sub * (d \div Sub) = (d \div Sub) * Sub
  BY SchedulingAssumption, <1>1
<1> QED
  BY <1>1, <1>2, <1>3 DEF TimeStep, SubTimeStep

LEMMA ExactParts ==
  Exact \in Nat /\ 0 < Exact /\ Exact \div 2 = 8388608 /\ Exact % 2 = 0 /\ 8388608 * 2 = Exact
<1>1. Exact \in Nat /\ 0 < Exact
  BY SMT DEF Exact
<1>2. 8388608 * 2 = Exact
  BY SMT DEF Exact
<1>3. Exact \div 2 = 8388608
  BY SMT DEF Exact
<1>4. Exact % 2 = 0
  BY SMT DEF Exact
<1> QED
  BY <1>1, <1>2, <1>3, <1>4

\* Dates of at most 2^24 units are exact.
LEMMA ExactRound ==
  ASSUME NEW d \in 0 .. Exact
  PROVE  Round(d) = d
<1>0. Exact \in Nat /\ 0 < Exact /\ Exact \div 2 = 8388608 /\ Exact % 2 = 0 /\ 8388608 * 2 = Exact
  BY ExactParts
<1>1. CASE d < Exact
  <2>1. d \div 1 = d /\ d % 1 = 0
    OBVIOUS
  <2>2. 2 * 0 < 1 /\ d * 1 = d
    OBVIOUS
  <2>3. Round(d) = d * 1
    BY <1>1, <2>1, <2>2 DEF Round
  <2> QED
    BY <2>2, <2>3
<1>2. CASE d = Exact
  <2>1. ~(Exact < Exact) /\ Exact < 2 * Exact /\ 2 * 0 < 2
    BY <1>0
  <2>2. Round(Exact) = 8388608 * 2
    BY <1>0, <2>1 DEF Round
  <2> QED
    BY <1>0, <1>2, <2>2
<1> QED
  BY <1>0, <1>1, <1>2

LEMMA Product ==
  ASSUME NEW a \in Int, NEW b \in Int
  PROVE  a * b \in Int
OBVIOUS

-----------------------------------------------------------------------------
(* Epochs *)

\* The jobs of item i are in an epoch in one piece, and nowhere else.
Placed(jobs, i) ==
  \E m \in 0 .. Len(jobs) - Len(i.jobs) : \A n \in 1 .. Len(jobs) :
    IF n \in m + 1 .. m + Len(i.jobs)
    THEN jobs[n] = Entries(i)[n - m] ELSE jobs[n].id # i.id

Sorted(jobs) ==
  \A m, n \in 1 .. Len(jobs) : m < n => jobs[m].sub <= jobs[n].sub

\* jobs is an epoch of the items C.
EpochOf(jobs, C) ==
  /\ jobs \in Seq(Entry)
  /\ Sorted(jobs)
  /\ \A n \in 1 .. Len(jobs) : \E i \in C : jobs[n].id = i.id
  /\ \A i \in C : Placed(jobs, i)

\* Items with the same start are in the order of the list they come from.
Ordered(jobs, items) ==
  \A a, b \in Range(items) : a.id < b.id /\ a.start = b.start =>
    \A m, n \in 1 .. Len(jobs) : jobs[m].id = a.id /\ jobs[n].id = b.id => m < n

LEMMA ItemParts ==
  ASSUME NEW i \in Item
  PROVE  /\ i.id \in 1 .. MaxCalls /\ i.start \in Nat /\ i.period \in Nat /\ i.end \in Int
         /\ i.jobs \in Seq(Job) /\ Len(i.jobs) \in Nat
         /\ SubTimeStep(i.start) \in 0 .. Sub - 1 /\ TimeStep(i.start) \in Nat
<1>1. i.id \in 1 .. MaxCalls /\ i.start \in Nat /\ i.period \in Nat /\ i.end \in Int
  <2>1. i.id \in 1 .. MaxCalls /\ i.start \in Dates /\ i.period \in Periods \cup {0}
        /\ i.end \in Dates \cup {NoEnd}
    BY DEF Item
  <2>2. (\A d \in Dates : d \in Nat) /\ (\A d \in Periods : d \in Nat) /\ NoEnd \in Int
    BY SchedulingAssumption DEF NoEnd
  <2>3. i.start \in Nat
    BY <2>1, <2>2
  <2>4. i.period \in Nat
    BY <2>1, <2>2
  <2>5. i.end \in Int
    BY <2>1, <2>2
  <2> QED
    BY <2>1, <2>3, <2>4, <2>5
<1>2. i.jobs \in Seq(Job)
  BY SchedulingAssumption DEF Item
<1>3. Len(i.jobs) \in Nat
  BY <1>2
<1>4. SubTimeStep(i.start) \in 0 .. Sub - 1 /\ TimeStep(i.start) \in Nat
  BY <1>1, DateParts
<1> QED
  BY <1>1, <1>2, <1>3, <1>4

LEMMA EntriesParts ==
  ASSUME NEW i \in Item
  PROVE  /\ Entries(i) \in Seq(Entry) /\ Len(Entries(i)) = Len(i.jobs)
         /\ \A n \in 1 .. Len(i.jobs) :
              /\ Entries(i)[n] \in Entry
              /\ Entries(i)[n].id = i.id /\ Entries(i)[n].sub = SubTimeStep(i.start)
<1>1. i.id \in 1 .. MaxCalls /\ SubTimeStep(i.start) \in 0 .. Sub - 1 /\ i.jobs \in Seq(Job)
      /\ Len(i.jobs) \in Nat
  BY ItemParts
<1>2. \A n \in 1 .. Len(i.jobs) : i.jobs[n] \in Job
  BY <1>1
<1>3. \A n \in 1 .. Len(i.jobs) :
        [id |-> i.id, sub |-> SubTimeStep(i.start), job |-> i.jobs[n]] \in Entry
  BY <1>1, <1>2 DEF Entry
<1>4. Entries(i) \in [1 .. Len(i.jobs) -> Entry]
  BY <1>3 DEF Entries
<1>5. Entries(i) \in Seq(Entry) /\ Len(Entries(i)) = Len(i.jobs)
  BY <1>1, <1>4
<1>6. \A n \in 1 .. Len(i.jobs) :
        Entries(i)[n] = [id |-> i.id, sub |-> SubTimeStep(i.start), job |-> i.jobs[n]]
  BY DEF Entries
<1>7. ASSUME NEW n \in 1 .. Len(i.jobs)
      PROVE  /\ Entries(i)[n] \in Entry
             /\ Entries(i)[n].id = i.id /\ Entries(i)[n].sub = SubTimeStep(i.start)
  <2> DEFINE e == [id |-> i.id, sub |-> SubTimeStep(i.start), job |-> i.jobs[n]]
  <2>1. Entries(i)[n] = e
    BY <1>6
  <2>2. e \in Entry
    BY <1>3
  <2>3. e.id = i.id /\ e.sub = SubTimeStep(i.start)
    OBVIOUS
  <2> HIDE DEF e
  <2> QED
    BY <2>1, <2>2, <2>3
<1> QED
  BY <1>5, <1>7

\* new is jobs with the entries l after the k first ones.
Inserted(new, jobs, l, k) ==
  /\ new \in Seq(Entry) /\ Len(new) = Len(jobs) + Len(l)
  /\ \A n \in 1 .. k : new[n] = jobs[n]
  /\ \A n \in 1 .. Len(l) : new[k + n] = l[n]
  /\ \A n \in k + 1 .. Len(jobs) : new[Len(l) + n] = jobs[n]

LEMMA InsertedParts ==
  ASSUME NEW jobs \in Seq(Entry), NEW l \in Seq(Entry), NEW k \in 0 .. Len(jobs)
  PROVE  Inserted(SubSeq(jobs, 1, k) \o l \o SubSeq(jobs, k + 1, Len(jobs)), jobs, l, k)
<1> DEFINE a == SubSeq(jobs, 1, k)
           b == SubSeq(jobs, k + 1, Len(jobs))
           c == a \o l
           new == c \o b
<1>0. Len(jobs) \in Nat /\ Len(l) \in Nat /\ k \in Int /\ Len(jobs) \in Int /\ k + 1 \in Int
      /\ \A n \in 1 .. Len(jobs) : jobs[n] \in Entry
  OBVIOUS
<1>1. a \in Seq(Entry) /\ Len(a) = k /\ \A n \in 1 .. k : a[n] = jobs[n]
  <2>1. \A n \in 1 .. k : jobs[n] \in Entry
    BY <1>0
  <2>2. /\ SubSeq(jobs, 1, k) \in Seq(Entry)
        /\ Len(SubSeq(jobs, 1, k)) = IF 1 <= k THEN k - 1 + 1 ELSE 0
        /\ \A n \in 1 .. k - 1 + 1 : SubSeq(jobs, 1, k)[n] = jobs[1 + n - 1]
    BY <1>0, <2>1, SubSeqProperties
  <2> QED
    BY <1>0, <2>2
<1>2. b \in Seq(Entry) /\ Len(b) = Len(jobs) - k
      /\ \A n \in 1 .. Len(jobs) - k : b[n] = jobs[k + n]
  <2>1. \A n \in k + 1 .. Len(jobs) : jobs[n] \in Entry
    BY <1>0
  <2>2. /\ b \in Seq(Entry)
        /\ Len(b) = IF k + 1 <= Len(jobs) THEN Len(jobs) - (k + 1) + 1 ELSE 0
        /\ \A n \in 1 .. Len(jobs) - (k + 1) + 1 : b[n] = jobs[(k + 1) + n - 1]
    BY <1>0, <2>1, SubSeqProperties
  <2> QED
    BY <1>0, <2>2
<1> HIDE DEF a, b
<1>3. c \in Seq(Entry) /\ Len(c) = k + Len(l)
      /\ \A n \in 1 .. k + Len(l) : c[n] = IF n <= k THEN a[n] ELSE l[n - k]
  BY <1>1, ConcatProperties
<1> HIDE DEF c
<1>4. new \in Seq(Entry) /\ Len(new) = Len(c) + Len(b)
      /\ \A n \in 1 .. Len(c) + Len(b) : new[n] = IF n <= Len(c) THEN c[n] ELSE b[n - Len(c)]
  BY <1>2, <1>3, ConcatProperties
<1> HIDE DEF new
<1>5. Len(new) = Len(jobs) + Len(l)
  BY <1>0, <1>2, <1>3, <1>4
<1>6. ASSUME NEW n \in 1 .. k PROVE new[n] = jobs[n]
  <2>1. n \in 1 .. k + Len(l) /\ n <= k
    BY <1>0
  <2>2. n \in 1 .. Len(c) + Len(b) /\ n <= Len(c)
    BY <1>0, <1>2, <1>3, <2>1
  <2>3. c[n] = a[n] /\ a[n] = jobs[n]
    BY <1>1, <1>3, <2>1
  <2> QED
    BY <1>4, <2>2, <2>3
<1>7. ASSUME NEW n \in 1 .. Len(l) PROVE new[k + n] = l[n]
  <2>1. k + n \in 1 .. k + Len(l) /\ ~(k + n <= k) /\ k + n - k = n
    BY <1>0
  <2>2. c[k + n] = l[n]
    BY <1>3, <2>1
  <2>3. k + n \in 1 .. Len(c) + Len(b) /\ k + n <= Len(c)
    BY <1>0, <1>2, <1>3, <2>1
  <2> QED
    BY <1>4, <2>2, <2>3
<1>8. ASSUME NEW n \in k + 1 .. Len(jobs) PROVE new[Len(l) + n] = jobs[n]
  <2>0. /\ Len(c) = k + Len(l) /\ Len(b) = Len(jobs) - k
        /\ n \in Int /\ k + 1 <= n /\ n <= Len(jobs)
    BY <1>0, <1>2, <1>3
  <2>1. /\ Len(l) + n \in 1 .. Len(c) + Len(b) /\ ~(Len(l) + n <= Len(c))
        /\ Len(l) + n - Len(c) = n - k /\ n - k \in 1 .. Len(jobs) - k /\ k + (n - k) = n
    <3> DEFINE x == Len(l)
               y == Len(jobs)
    <3>1. x \in Nat /\ y \in Nat /\ k \in Nat /\ Len(c) = k + x /\ Len(b) = y - k
      BY <1>0, <2>0
    <3>2. n <= y
      BY <2>0
    <3> HIDE DEF x, y
    <3>3. x + n \in 1 .. (k + x) + (y - k)
      BY <2>0, <3>1, <3>2
    <3>4. ~(x + n <= k + x) /\ x + n - (k + x) = n - k
      BY <2>0, <3>1
    <3>5. n - k \in 1 .. y - k /\ k + (n - k) = n
      BY <2>0, <3>1, <3>2
    <3> QED
      BY <3>1, <3>3, <3>4, <3>5 DEF x, y
  <2>2. new[Len(l) + n] = b[n - k]
    <3> DEFINE q == Len(l) + n
    <3>1. q \in 1 .. Len(c) + Len(b) /\ ~(q <= Len(c)) /\ q - Len(c) = n - k
      BY <2>1
    <3> HIDE DEF q
    <3>2. new[q] = b[q - Len(c)]
      BY <1>4, <3>1
    <3> QED
      BY <3>1, <3>2 DEF q
  <2>3. b[n - k] = jobs[k + (n - k)]
    BY <1>2, <2>1
  <2> QED
    BY <2>1, <2>2, <2>3
<1>9. Inserted(new, jobs, l, k)
  BY <1>4, <1>5, <1>6, <1>7, <1>8 DEF Inserted
<1> QED
  BY <1>9 DEF new, c, a, b

LEMMA SubmitInserts ==
  ASSUME NEW jobs \in Seq(Entry), NEW item \in Item
  PROVE  \E k \in 0 .. Len(jobs) :
           /\ Inserted(Submit(jobs, item), jobs, Entries(item), k)
           /\ \A n \in 1 .. k : jobs[n].sub <= SubTimeStep(item.start)
           /\ k < Len(jobs) => SubTimeStep(item.start) < jobs[k + 1].sub
<1> DEFINE s == SubTimeStep(item.start)
           I == {n \in 1 .. Len(jobs) : s < jobs[n].sub}
           later == IF I # {} THEN Min(I) ELSE 0
           k == IF later = 0 THEN Len(jobs) ELSE later - 1
<1>0. Len(jobs) \in Nat /\ s \in Int /\ \A n \in 1 .. Len(jobs) : jobs[n].sub \in Int
  <2>1. \A n \in 1 .. Len(jobs) : jobs[n] \in Entry
    OBVIOUS
  <2> QED
    BY <2>1, ItemParts DEF Entry
<1>1. Submit(jobs, item) = SubSeq(jobs, 1, k) \o Entries(item) \o SubSeq(jobs, k + 1, Len(jobs))
  BY DEF Submit, SelectInSeq
<1>2. k \in 0 .. Len(jobs) /\ (\A n \in 1 .. k : jobs[n].sub <= s)
      /\ (k < Len(jobs) => s < jobs[k + 1].sub)
  <2>1. CASE I = {}
    <3>1. k = Len(jobs)
      BY <2>1
    <3>2. \A n \in 1 .. Len(jobs) : jobs[n].sub <= s
      BY <1>0, <2>1
    <3> QED
      BY <1>0, <3>1, <3>2
  <2>2. CASE I # {}
    <3>1. Min(I) \in I /\ \A x \in I : Min(I) <= x
      <4>1. I \in SUBSET Nat
        BY <1>0
      <4> HIDE DEF I
      <4> QED
        BY <2>2, <4>1, MinOf
    <3>2. k = Min(I) - 1 /\ Min(I) \in 1 .. Len(jobs) /\ s < jobs[Min(I)].sub
      BY <1>0, <2>2, <3>1
    <3>3. ASSUME NEW n \in 1 .. Min(I) - 1 PROVE jobs[n].sub <= s
      <4>1. n \in 1 .. Len(jobs) /\ ~(Min(I) <= n)
        BY <1>0, <3>2
      <4>2. n \notin I
        BY <3>1, <4>1
      <4> QED
        BY <1>0, <4>1, <4>2
    <3>4. k \in 0 .. Len(jobs) /\ k + 1 = Min(I)
      BY <1>0, <3>2
    <3> HIDE DEF k
    <3> QED
      BY <3>2, <3>3, <3>4
  <2> QED
    BY <2>1, <2>2
<1> HIDE DEF k
<1>3. Inserted(Submit(jobs, item), jobs, Entries(item), k)
  BY <1>1, <1>2, InsertedParts, EntriesParts
<1> QED
  BY <1>2, <1>3

\* Where entry n of jobs with l inserted comes from.
From(new, jobs, l, k, n) ==
  \/ n \in 1 .. k /\ n \in 1 .. Len(jobs) /\ new[n] = jobs[n]
  \/ n \in k + 1 .. k + Len(l) /\ n - k \in 1 .. Len(l) /\ new[n] = l[n - k]
  \/ /\ n \in k + Len(l) + 1 .. Len(new) /\ n - Len(l) \in k + 1 .. Len(jobs)
     /\ n - Len(l) \in 1 .. Len(jobs) /\ new[n] = jobs[n - Len(l)]

LEMMA InsertedFrom ==
  ASSUME NEW jobs \in Seq(Entry), NEW l \in Seq(Entry), NEW k \in 0 .. Len(jobs), NEW new,
         Inserted(new, jobs, l, k), NEW n \in 1 .. Len(new)
  PROVE  From(new, jobs, l, k, n)
<1>0. Len(jobs) \in Nat /\ Len(l) \in Nat /\ Len(new) = Len(jobs) + Len(l)
  BY DEF Inserted
<1>1. CASE n <= k
  <2>1. n \in 1 .. k /\ n \in 1 .. Len(jobs)
    BY <1>0, <1>1
  <2> QED
    BY <2>1 DEF Inserted, From
<1>2. CASE k < n /\ n <= k + Len(l)
  <2>1. n \in k + 1 .. k + Len(l) /\ n - k \in 1 .. Len(l) /\ k + (n - k) = n
    BY <1>0, <1>2
  <2>2. new[k + (n - k)] = l[n - k]
    BY <2>1 DEF Inserted
  <2> QED
    BY <2>1, <2>2 DEF From
<1>3. CASE k + Len(l) < n
  <2>1. /\ n \in k + Len(l) + 1 .. Len(new) /\ n - Len(l) \in k + 1 .. Len(jobs)
        /\ n - Len(l) \in 1 .. Len(jobs) /\ Len(l) + (n - Len(l)) = n
    BY <1>0, <1>3
  <2>2. new[Len(l) + (n - Len(l))] = jobs[n - Len(l)]
    BY <2>1 DEF Inserted
  <2> QED
    BY <2>1, <2>2 DEF From
<1> QED
  BY <1>0, <1>1, <1>2, <1>3

LEMMA PlacedParts ==
  ASSUME NEW i \in Item, NEW jobs \in Seq(Entry), Placed(jobs, i),
         NEW n \in 1 .. Len(jobs), jobs[n].id = i.id
  PROVE  jobs[n].sub = SubTimeStep(i.start)
<1>1. PICK m \in 0 .. Len(jobs) - Len(i.jobs) : \A x \in 1 .. Len(jobs) :
        IF x \in m + 1 .. m + Len(i.jobs)
        THEN jobs[x] = Entries(i)[x - m] ELSE jobs[x].id # i.id
  BY DEF Placed
<1>2. n \in m + 1 .. m + Len(i.jobs) /\ jobs[n] = Entries(i)[n - m]
  BY <1>1
<1>3. n - m \in 1 .. Len(i.jobs)
  <2>1. Len(i.jobs) \in Nat /\ Len(jobs) \in Nat
    BY ItemParts
  <2> QED
    BY <1>2, <2>1
<1> QED
  BY <1>2, <1>3, EntriesParts

\* An item that is placed stays so.
LEMMA PlacedStays ==
  ASSUME NEW jobs \in Seq(Entry), NEW item \in Item, NEW k \in 0 .. Len(jobs), NEW new,
         Inserted(new, jobs, Entries(item), k),
         \A n \in 1 .. k : jobs[n].sub <= SubTimeStep(item.start),
         k < Len(jobs) => SubTimeStep(item.start) < jobs[k + 1].sub,
         NEW i \in Item, i.id # item.id, Placed(jobs, i)
  PROVE  Placed(new, i)
<1> DEFINE l == Entries(item)
           L == Len(Entries(item))
           M == Len(i.jobs)
<1>1. PICK m \in 0 .. Len(jobs) - M : \A x \in 1 .. Len(jobs) :
        IF x \in m + 1 .. m + M THEN jobs[x] = Entries(i)[x - m] ELSE jobs[x].id # i.id
  BY DEF Placed
<1>2. /\ l \in Seq(Entry) /\ L = Len(item.jobs) /\ L \in Nat /\ M \in Nat /\ Len(jobs) \in Nat
      /\ Len(new) = Len(jobs) + L /\ m \in Nat /\ m + M <= Len(jobs) /\ k \in Nat
      /\ \A n \in 1 .. L : l[n].id = item.id
  <2>1. l \in Seq(Entry) /\ L = Len(item.jobs) /\ \A n \in 1 .. L : l[n].id = item.id
    BY EntriesParts
  <2>2. M \in Nat /\ Len(item.jobs) \in Nat /\ Len(jobs) \in Nat
    BY ItemParts
  <2>3. Len(new) = Len(jobs) + L
    BY DEF Inserted
  <2> HIDE DEF M, L, l
  <2> QED
    BY <2>1, <2>2, <2>3
<1>6. /\ L \in Nat /\ M \in Nat /\ Len(jobs) \in Nat /\ Len(new) \in Nat /\ m \in Nat /\ k \in Nat
      /\ Len(new) = Len(jobs) + L /\ m + M <= Len(jobs) /\ k <= Len(jobs)
  <2> HIDE DEF L, M, l
  <2> QED
    BY <1>2
<1>3. k <= m \/ m + M <= k
  <2> SUFFICES ASSUME m < k, k < m + M PROVE FALSE
    BY <1>2
  <2>1. k \in 1 .. Len(jobs) /\ k + 1 \in 1 .. Len(jobs) /\ k \in 1 .. k /\ k < Len(jobs)
    BY <1>2
  <2>2. k \in m + 1 .. m + M /\ k + 1 \in m + 1 .. m + M /\ k - m \in 1 .. M /\ k + 1 - m \in 1 .. M
    BY <1>2
  <2>3. jobs[k] = Entries(i)[k - m] /\ jobs[k + 1] = Entries(i)[k + 1 - m]
    BY <1>1, <2>1, <2>2
  <2>4. jobs[k].sub = SubTimeStep(i.start) /\ jobs[k + 1].sub = SubTimeStep(i.start)
    BY <2>2, <2>3, EntriesParts
  <2>5. SubTimeStep(i.start) \in Int /\ SubTimeStep(item.start) \in Int
    BY ItemParts
  <2>6. SubTimeStep(i.start) <= SubTimeStep(item.start) /\ SubTimeStep(item.start) < SubTimeStep(i.start)
    BY <2>1, <2>4
  <2> QED
    BY <2>5, <2>6
<1> HIDE DEF L, M, l
<1>4. CASE k <= m
  <2>1. m + L \in 0 .. Len(new) - M
    BY <1>6, <1>4
  <2>2. ASSUME NEW n \in 1 .. Len(new)
        PROVE  IF n \in m + L + 1 .. m + L + M
               THEN new[n] = Entries(i)[n - (m + L)] ELSE new[n].id # i.id
    <3>1. CASE n \in 1 .. k /\ n \in 1 .. Len(jobs) /\ new[n] = jobs[n]
      <4>1. ~(n \in m + L + 1 .. m + L + M) /\ ~(n \in m + 1 .. m + M)
        BY <1>6, <1>4, <3>1
      <4> QED
        BY <1>1, <3>1, <4>1
    <3>2. CASE n \in k + 1 .. k + L /\ n - k \in 1 .. L /\ new[n] = l[n - k]
      <4>1. ~(n \in m + L + 1 .. m + L + M)
        BY <1>6, <1>4, <3>2
      <4> QED
        BY <1>2, <3>2, <4>1
    <3>3. CASE /\ n \in k + L + 1 .. Len(new) /\ n - L \in k + 1 .. Len(jobs)
               /\ n - L \in 1 .. Len(jobs) /\ new[n] = jobs[n - L]
      <4>0. n \in Int /\ m \in Int /\ L \in Int /\ M \in Int
        BY <1>6, <3>3
      <4>1. n \in m + L + 1 .. m + L + M <=> n - L \in m + 1 .. m + M
        BY <4>0
      <4>2. n - L - m = n - (m + L)
        BY <1>6
      <4> QED
        BY <1>1, <3>3, <4>1, <4>2
    <3>4. \/ n \in 1 .. k /\ n \in 1 .. Len(jobs) /\ new[n] = jobs[n]
          \/ n \in k + 1 .. k + L /\ n - k \in 1 .. L /\ new[n] = l[n - k]
          \/ /\ n \in k + L + 1 .. Len(new) /\ n - L \in k + 1 .. Len(jobs)
             /\ n - L \in 1 .. Len(jobs) /\ new[n] = jobs[n - L]
      <4>1. Entries(item) \in Seq(Entry)
        BY EntriesParts
      <4>2. From(new, jobs, Entries(item), k, n)
        BY <4>1, InsertedFrom
      <4> QED
        BY <4>2 DEF From, l, L
    <3> QED
      BY <3>1, <3>2, <3>3, <3>4
  <2> QED
    BY <2>1, <2>2 DEF Placed, M
<1>5. CASE m + M <= k
  <2>1. m \in 0 .. Len(new) - M
    BY <1>6, <1>5
  <2>2. ASSUME NEW n \in 1 .. Len(new)
        PROVE  IF n \in m + 1 .. m + M
               THEN new[n] = Entries(i)[n - m] ELSE new[n].id # i.id
    <3>1. CASE n \in 1 .. k /\ n \in 1 .. Len(jobs) /\ new[n] = jobs[n]
      BY <1>1, <3>1
    <3>2. CASE n \in k + 1 .. k + L /\ n - k \in 1 .. L /\ new[n] = l[n - k]
      <4>1. ~(n \in m + 1 .. m + M)
        BY <1>6, <1>5, <3>2
      <4> QED
        BY <1>2, <3>2, <4>1
    <3>3. CASE /\ n \in k + L + 1 .. Len(new) /\ n - L \in k + 1 .. Len(jobs)
               /\ n - L \in 1 .. Len(jobs) /\ new[n] = jobs[n - L]
      <4>1. ~(n \in m + 1 .. m + M) /\ ~(n - L \in m + 1 .. m + M)
        BY <1>6, <1>5, <3>3
      <4> QED
        BY <1>1, <3>3, <4>1
    <3>4. \/ n \in 1 .. k /\ n \in 1 .. Len(jobs) /\ new[n] = jobs[n]
          \/ n \in k + 1 .. k + L /\ n - k \in 1 .. L /\ new[n] = l[n - k]
          \/ /\ n \in k + L + 1 .. Len(new) /\ n - L \in k + 1 .. Len(jobs)
             /\ n - L \in 1 .. Len(jobs) /\ new[n] = jobs[n - L]
      <4>1. Entries(item) \in Seq(Entry)
        BY EntriesParts
      <4>2. From(new, jobs, Entries(item), k, n)
        BY <4>1, InsertedFrom
      <4> QED
        BY <4>2 DEF From, l, L
    <3> QED
      BY <3>1, <3>2, <3>3, <3>4
  <2> QED
    BY <2>1, <2>2 DEF Placed, M
<1> QED
  BY <1>3, <1>4, <1>5

\* The item that is submitted is placed.
LEMMA PlacedNew ==
  ASSUME NEW jobs \in Seq(Entry), NEW item \in Item, NEW k \in 0 .. Len(jobs), NEW new,
         Inserted(new, jobs, Entries(item), k),
         \A n \in 1 .. Len(jobs) : jobs[n].id # item.id
  PROVE  Placed(new, item)
<1> DEFINE L == Len(Entries(item))
<1>1. /\ Entries(item) \in Seq(Entry) /\ L = Len(item.jobs) /\ L \in Nat
      /\ Len(jobs) \in Nat /\ Len(new) = Len(jobs) + L
  BY EntriesParts, ItemParts DEF Inserted
<1>2. k \in 0 .. Len(new) - L
  BY <1>1
<1>3. ASSUME NEW n \in 1 .. Len(new)
      PROVE  IF n \in k + 1 .. k + L
             THEN new[n] = Entries(item)[n - k] ELSE new[n].id # item.id
  <2>1. CASE n \in 1 .. k /\ n \in 1 .. Len(jobs) /\ new[n] = jobs[n]
    <3>1. ~(n \in k + 1 .. k + L)
      BY <1>1, <2>1
    <3> QED
      BY <2>1, <3>1
  <2>2. CASE n \in k + 1 .. k + L /\ n - k \in 1 .. L /\ new[n] = Entries(item)[n - k]
    BY <2>2
  <2>3. CASE /\ n \in k + L + 1 .. Len(new) /\ n - L \in k + 1 .. Len(jobs)
             /\ n - L \in 1 .. Len(jobs) /\ new[n] = jobs[n - L]
    <3>1. ~(n \in k + 1 .. k + L)
      BY <1>1, <2>3
    <3> QED
      BY <2>3, <3>1
  <2>4. \/ n \in 1 .. k /\ n \in 1 .. Len(jobs) /\ new[n] = jobs[n]
        \/ n \in k + 1 .. k + L /\ n - k \in 1 .. L /\ new[n] = Entries(item)[n - k]
        \/ /\ n \in k + L + 1 .. Len(new) /\ n - L \in k + 1 .. Len(jobs)
           /\ n - L \in 1 .. Len(jobs) /\ new[n] = jobs[n - L]
    <3>1. From(new, jobs, Entries(item), k, n)
      BY <1>1, InsertedFrom
    <3> QED
      BY <3>1 DEF From
  <2> QED
    BY <2>1, <2>2, <2>3, <2>4
<1> QED
  BY <1>1, <1>2, <1>3 DEF Placed

\* Submitting an item makes an epoch of the items and this one.
LEMMA SubmitEpoch ==
  ASSUME NEW C \in SUBSET Item, NEW jobs, EpochOf(jobs, C), NEW item \in Item,
         \A i \in C : i.id # item.id
  PROVE  EpochOf(Submit(jobs, item), C \cup {item})
<1> DEFINE l == Entries(item)
           L == Len(Entries(item))
           s == SubTimeStep(item.start)
           new == Submit(jobs, item)
<1>1. /\ jobs \in Seq(Entry) /\ Sorted(jobs)
      /\ \A n \in 1 .. Len(jobs) : \E i \in C : jobs[n].id = i.id
      /\ \A i \in C : Placed(jobs, i)
  BY DEF EpochOf
<1>2. PICK k \in 0 .. Len(jobs) :
        /\ Inserted(new, jobs, l, k)
        /\ \A n \in 1 .. k : jobs[n].sub <= s
        /\ k < Len(jobs) => s < jobs[k + 1].sub
  BY <1>1, SubmitInserts
<1>3. /\ l \in Seq(Entry) /\ L \in Nat /\ s \in Int /\ k \in Nat /\ Len(jobs) \in Nat
      /\ \A n \in 1 .. L : l[n].id = item.id /\ l[n].sub = s
  <2>1. l \in Seq(Entry) /\ L = Len(item.jobs)
        /\ \A n \in 1 .. L : l[n].id = item.id /\ l[n].sub = s
    BY EntriesParts
  <2>2. Len(item.jobs) \in Nat /\ s \in Int
    BY ItemParts
  <2> QED
    BY <1>1, <2>1, <2>2
<1>4. \A n \in 1 .. Len(jobs) : jobs[n].sub \in Int
  <2>1. \A n \in 1 .. Len(jobs) : jobs[n] \in Entry
    BY <1>1
  <2> QED
    BY <2>1, SchedulingAssumption DEF Entry
<1> HIDE DEF l, L, s, new
<1>5. new \in Seq(Entry) /\ Len(new) \in Nat /\ Len(new) = Len(jobs) + L
  <2>1. new \in Seq(Entry) /\ Len(new) = Len(jobs) + L
    BY <1>2 DEF Inserted, L, l
  <2> QED
    BY <1>3, <2>1
<1>6. ASSUME NEW n \in 1 .. Len(new)
      PROVE  \/ n \in 1 .. k /\ n \in 1 .. Len(jobs) /\ new[n] = jobs[n]
             \/ n \in k + 1 .. k + L /\ n - k \in 1 .. L /\ new[n] = l[n - k]
             \/ /\ n \in k + L + 1 .. Len(new) /\ n - L \in k + 1 .. Len(jobs)
                /\ n - L \in 1 .. Len(jobs) /\ new[n] = jobs[n - L]
  <2>1. From(new, jobs, l, k, n)
    BY <1>1, <1>2, <1>3, InsertedFrom
  <2> QED
    BY <2>1 DEF From, L, l
<1>7. \A n \in k + 1 .. Len(jobs) : s < jobs[n].sub
  <2> SUFFICES ASSUME NEW n \in k + 1 .. Len(jobs) PROVE s < jobs[n].sub
    OBVIOUS
  <2>1. k + 1 \in 1 .. Len(jobs) /\ n \in 1 .. Len(jobs) /\ k < Len(jobs) /\ k + 1 <= n
    BY <1>3
  <2>2. s < jobs[k + 1].sub
    BY <1>2, <2>1
  <2>3. jobs[k + 1].sub <= jobs[n].sub
    <3>1. CASE k + 1 = n
      BY <1>4, <2>1, <3>1
    <3>2. CASE k + 1 < n
      BY <1>1, <2>1, <3>2 DEF Sorted
    <3> QED
      BY <1>3, <2>1, <3>1, <3>2
  <2> QED
    BY <1>3, <1>4, <2>1, <2>2, <2>3
<1>8. Sorted(new)
  <2> SUFFICES ASSUME NEW m \in 1 .. Len(new), NEW n \in 1 .. Len(new), m < n
               PROVE  new[m].sub <= new[n].sub
    BY DEF Sorted
  <2>1. CASE m \in 1 .. k /\ m \in 1 .. Len(jobs) /\ new[m] = jobs[m]
    <3>1. CASE n \in 1 .. k /\ n \in 1 .. Len(jobs) /\ new[n] = jobs[n]
      BY <1>1, <2>1, <3>1 DEF Sorted
    <3>2. CASE n - k \in 1 .. L /\ new[n] = l[n - k]
      BY <1>2, <1>3, <2>1, <3>2
    <3>3. CASE n - L \in k + 1 .. Len(jobs) /\ n - L \in 1 .. Len(jobs) /\ new[n] = jobs[n - L]
      <4>1. m < n - L
        BY <1>3, <2>1, <3>3
      <4> QED
        BY <1>1, <2>1, <3>3, <4>1 DEF Sorted
    <3> QED
      BY <1>6, <3>1, <3>2, <3>3
  <2>2. CASE m \in k + 1 .. k + L /\ m - k \in 1 .. L /\ new[m] = l[m - k]
    <3>1. CASE n \in 1 .. k /\ n \in 1 .. Len(jobs) /\ new[n] = jobs[n]
      BY <1>3, <2>2, <3>1
    <3>2. CASE n - k \in 1 .. L /\ new[n] = l[n - k]
      BY <1>3, <2>2, <3>2
    <3>3. CASE n - L \in k + 1 .. Len(jobs) /\ n - L \in 1 .. Len(jobs) /\ new[n] = jobs[n - L]
      <4>1. s < jobs[n - L].sub /\ jobs[n - L].sub \in Int
        BY <1>4, <1>7, <3>3
      <4> QED
        BY <1>3, <2>2, <3>3, <4>1
    <3> QED
      BY <1>6, <3>1, <3>2, <3>3
  <2>3. CASE m \in k + L + 1 .. Len(new) /\ m - L \in 1 .. Len(jobs) /\ new[m] = jobs[m - L]
    <3>1. CASE n \in 1 .. k
      BY <1>3, <1>5, <2>3, <3>1
    <3>2. CASE n \in k + 1 .. k + L
      BY <1>3, <1>5, <2>3, <3>2
    <3>3. CASE n - L \in 1 .. Len(jobs) /\ new[n] = jobs[n - L]
      <4>1. m - L < n - L
        BY <1>3, <1>5
      <4> QED
        BY <1>1, <2>3, <3>3, <4>1 DEF Sorted
    <3> QED
      BY <1>6, <3>1, <3>2, <3>3
  <2> QED
    BY <1>6, <2>1, <2>2, <2>3
<1>9. ASSUME NEW n \in 1 .. Len(new)
      PROVE  \E i \in C \cup {item} : new[n].id = i.id
  <2>1. CASE \E m \in 1 .. Len(jobs) : new[n] = jobs[m]
    BY <1>1, <2>1
  <2>2. CASE \E m \in 1 .. L : new[n] = l[m]
    BY <1>3, <2>2
  <2> QED
    BY <1>6, <2>1, <2>2
<1>10. ASSUME NEW i \in C \cup {item} PROVE Placed(new, i)
  <2>1. CASE i \in C
    <3>1. Placed(jobs, i) /\ i.id # item.id /\ i \in Item
      BY <1>1, <2>1
    <3> QED
      BY <1>1, <1>2, <3>1, PlacedStays DEF l, s
  <2>2. CASE i = item
    <3>1. \A n \in 1 .. Len(jobs) : jobs[n].id # item.id
      BY <1>1
    <3>2. Placed(new, item)
      BY <1>1, <1>2, <3>1, PlacedNew DEF l
    <3> QED
      BY <2>2, <3>2
  <2> QED
    BY <2>1, <2>2
<1>11. EpochOf(new, C \cup {item})
  BY <1>5, <1>8, <1>9, <1>10 DEF EpochOf
<1> QED
  BY <1>11 DEF new

\* Submitting an item after those with the same start keeps the order of a list.
LEMMA SubmitOrdered ==
  ASSUME NEW C \in SUBSET Item, NEW jobs, EpochOf(jobs, C), NEW item \in Item,
         NEW items, Ordered(jobs, items), Range(items) \subseteq Item,
         \A i \in C \cup {item}, j \in Range(items) : i.id = j.id => i = j,
         item \in Range(items) =>
           \A i \in C \cap Range(items) : i.start = item.start => i.id < item.id
  PROVE  Ordered(Submit(jobs, item), items)
<1> DEFINE l == Entries(item)
           L == Len(Entries(item))
           s == SubTimeStep(item.start)
           new == Submit(jobs, item)
<1>1. /\ jobs \in Seq(Entry) /\ Sorted(jobs)
      /\ \A n \in 1 .. Len(jobs) : \E i \in C : jobs[n].id = i.id
      /\ \A i \in C : Placed(jobs, i)
  BY DEF EpochOf
<1>2. PICK k \in 0 .. Len(jobs) :
        /\ Inserted(new, jobs, l, k)
        /\ \A n \in 1 .. k : jobs[n].sub <= s
        /\ k < Len(jobs) => s < jobs[k + 1].sub
  BY <1>1, SubmitInserts
<1>3. /\ l \in Seq(Entry) /\ L \in Nat /\ s \in Int /\ k \in Nat /\ Len(jobs) \in Nat
      /\ \A n \in 1 .. L : l[n].id = item.id /\ l[n].sub = s
  <2>1. l \in Seq(Entry) /\ L = Len(item.jobs)
        /\ \A n \in 1 .. L : l[n].id = item.id /\ l[n].sub = s
    BY EntriesParts
  <2>2. Len(item.jobs) \in Nat /\ s \in Int
    BY ItemParts
  <2> QED
    BY <1>1, <2>1, <2>2
<1>4. \A n \in 1 .. Len(jobs) : jobs[n].sub \in Int
  <2>1. \A n \in 1 .. Len(jobs) : jobs[n] \in Entry
    BY <1>1
  <2> QED
    BY <2>1, SchedulingAssumption DEF Entry
<1> HIDE DEF l, L, s, new
<1>5. Len(new) \in Nat /\ Len(new) = Len(jobs) + L
  <2>1. Len(new) = Len(jobs) + L
    BY <1>2 DEF Inserted, L, l
  <2> QED
    BY <1>3, <2>1
<1>6. ASSUME NEW n \in 1 .. Len(new)
      PROVE  \/ n \in 1 .. k /\ n \in 1 .. Len(jobs) /\ new[n] = jobs[n]
             \/ n \in k + 1 .. k + L /\ n - k \in 1 .. L /\ new[n] = l[n - k]
             \/ /\ n \in k + L + 1 .. Len(new) /\ n - L \in k + 1 .. Len(jobs)
                /\ n - L \in 1 .. Len(jobs) /\ new[n] = jobs[n - L]
  <2>1. From(new, jobs, l, k, n)
    BY <1>1, <1>2, <1>3, InsertedFrom
  <2> QED
    BY <2>1 DEF From, L, l
<1>7. ASSUME NEW a \in Range(items), NEW b \in Range(items), a.id < b.id, a.start = b.start,
             NEW m \in 1 .. Len(new), NEW n \in 1 .. Len(new), new[m].id = a.id, new[n].id = b.id
      PROVE  m < n
  <2>0. /\ a \in Item /\ b \in Item /\ a # b /\ a.id \in Int /\ b.id \in Int
        /\ \A x, y \in 1 .. Len(jobs) : jobs[x].id = a.id /\ jobs[y].id = b.id => x < y
    <3>1. a \in Item /\ b \in Item
      OBVIOUS
    <3>2. a.id \in Int /\ b.id \in Int
      BY <3>1, ItemParts
    <3> QED
      BY <1>7, <3>1, <3>2 DEF Ordered
  <2>1. ASSUME NEW x \in 1 .. Len(jobs), jobs[x].id = b.id PROVE b \in C
    <3>1. PICK i \in C : jobs[x].id = i.id
      BY <1>1
    <3> QED
      BY <2>1, <3>1
  <2>2. ASSUME NEW x \in 1 .. Len(jobs), jobs[x].id = a.id
        PROVE  a \in C /\ jobs[x].sub = SubTimeStep(a.start)
    <3>1. PICK i \in C : jobs[x].id = i.id
      BY <1>1
    <3>2. a \in C
      BY <2>2, <3>1
    <3> QED
      BY <1>1, <2>0, <2>2, <3>2, PlacedParts
  <2>3. ASSUME NEW x \in 1 .. L, l[x].id = b.id PROVE b = item
    BY <1>3, <2>3
  <2>4. ASSUME NEW x \in 1 .. L, l[x].id = a.id PROVE a = item
    BY <1>3, <2>4
  <2>5. CASE m - k \in 1 .. L /\ new[m] = l[m - k]
    <3>1. a = item
      BY <1>7, <2>4, <2>5
    <3>2. ~(n - k \in 1 .. L /\ new[n] = l[n - k])
      BY <1>7, <2>0, <2>3, <3>1
    <3>3. ~(b \in C)
      <4> SUFFICES ASSUME b \in C PROVE FALSE
        OBVIOUS
      <4>1. b.id < a.id
        BY <1>7, <3>1
      <4> QED
        BY <1>7, <2>0, <4>1
    <3> QED
      BY <1>6, <1>7, <2>1, <3>2, <3>3
  <2>6. CASE m \in 1 .. k /\ m \in 1 .. Len(jobs) /\ new[m] = jobs[m]
    <3>1. CASE n \in 1 .. k /\ n \in 1 .. Len(jobs) /\ new[n] = jobs[n]
      BY <1>7, <2>0, <2>6, <3>1
    <3>2. CASE n \in k + 1 .. k + L
      BY <1>3, <2>6, <3>2
    <3>3. CASE n \in k + L + 1 .. Len(new)
      BY <1>3, <1>5, <2>6, <3>3
    <3> QED
      BY <1>6, <3>1, <3>2, <3>3
  <2>7. CASE /\ m \in k + L + 1 .. Len(new) /\ m - L \in k + 1 .. Len(jobs)
             /\ m - L \in 1 .. Len(jobs) /\ new[m] = jobs[m - L]
    <3>1. CASE n \in 1 .. k /\ n \in 1 .. Len(jobs) /\ new[n] = jobs[n]
      <4>1. m - L < n
        BY <1>7, <2>0, <2>7, <3>1
      <4> QED
        BY <1>3, <2>7, <3>1, <4>1
    <3>2. CASE n - k \in 1 .. L /\ new[n] = l[n - k]
      <4>1. b = item
        BY <1>7, <2>3, <3>2
      <4>2. jobs[m - L].sub = s
        BY <1>7, <2>2, <2>7, <4>1 DEF s
      <4>3. k + 1 \in 1 .. Len(jobs) /\ k < Len(jobs) /\ k + 1 <= m - L
        BY <1>3, <2>7
      <4>4. s < jobs[k + 1].sub /\ jobs[k + 1].sub <= jobs[m - L].sub
        <5>1. s < jobs[k + 1].sub
          BY <1>2, <4>3
        <5>2. CASE k + 1 = m - L
          BY <1>4, <2>7, <5>1, <5>2
        <5>3. CASE k + 1 < m - L
          BY <1>1, <2>7, <4>3, <5>1, <5>3 DEF Sorted
        <5> QED
          BY <1>3, <2>7, <4>3, <5>2, <5>3
      <4> QED
        BY <1>3, <1>4, <4>2, <4>3, <4>4
    <3>3. CASE n \in k + L + 1 .. Len(new) /\ n - L \in 1 .. Len(jobs) /\ new[n] = jobs[n - L]
      <4>1. m - L < n - L
        BY <1>7, <2>0, <2>7, <3>3
      <4> QED
        BY <1>3, <1>5, <2>7, <3>3, <4>1
    <3> QED
      BY <1>6, <3>1, <3>2, <3>3
  <2> QED
    BY <1>6, <2>5, <2>6, <2>7
<1>8. Ordered(new, items)
  BY <1>7 DEF Ordered
<1> QED
  BY <1>8 DEF new

-----------------------------------------------------------------------------
(* The items of a list are submitted *)

\* What round n of SubmitAll makes of an epoch.
AfterRound(items, S, jobs, n) == IF items[n] \in S THEN Submit(jobs, items[n]) ELSE jobs

\* g is the epochs after each of the first N rounds.
IsRounds(jobs, items, S, N, g) ==
  g = [n \in 0 .. N |-> IF n = 0 THEN jobs
                        ELSE IF items[n] \in S THEN Submit(g[n-1], items[n]) ELSE g[n-1]]

LEMMA RoundsParts ==
  ASSUME NEW jobs, NEW items, NEW S, NEW N \in Nat, NEW g
  PROVE  IsRounds(jobs, items, S, N, g) <=>
           /\ g = [n \in 0 .. N |-> g[n]]
           /\ g[0] = jobs
           /\ \A n \in 1 .. N : g[n] = AfterRound(items, S, g[n-1], n)
<1> DEFINE F(n) == IF n = 0 THEN jobs
                   ELSE IF items[n] \in S THEN Submit(g[n-1], items[n]) ELSE g[n-1]
<1>1. IsRounds(jobs, items, S, N, g) <=> g = [n \in 0 .. N |-> F(n)]
  BY DEF IsRounds
<1>2. F(0) = jobs /\ \A n \in 1 .. N : F(n) = AfterRound(items, S, g[n-1], n)
  BY DEF AfterRound
<1>3. 0 \in 0 .. N /\ (\A n \in 1 .. N : n \in 0 .. N) /\ \A n \in 0 .. N : n = 0 \/ n \in 1 .. N
  OBVIOUS
<1> HIDE DEF F
<1>4. ASSUME g = [n \in 0 .. N |-> F(n)]
      PROVE  /\ g = [n \in 0 .. N |-> g[n]] /\ g[0] = jobs
             /\ \A n \in 1 .. N : g[n] = AfterRound(items, S, g[n-1], n)
  <2>1. \A n \in 0 .. N : g[n] = F(n)
    BY <1>4
  <2>2. g = [n \in 0 .. N |-> g[n]]
    BY <1>4
  <2> QED
    BY <1>2, <1>3, <2>1, <2>2
<1>5. ASSUME g = [n \in 0 .. N |-> g[n]], g[0] = jobs,
             \A n \in 1 .. N : g[n] = AfterRound(items, S, g[n-1], n)
      PROVE  g = [n \in 0 .. N |-> F(n)]
  <2>1. \A n \in 0 .. N : g[n] = F(n)
    BY <1>2, <1>3, <1>5
  <2> QED
    BY <1>5, <2>1
<1> QED
  BY <1>1, <1>4, <1>5

LEMMA RoundsExist ==
  ASSUME NEW jobs, NEW items, NEW S, NEW N \in Nat
  PROVE  \E g : IsRounds(jobs, items, S, N, g)
<1> DEFINE B == {n \in Nat : ~ \E g : IsRounds(jobs, items, S, n, g)}
<1>1. ASSUME B # {} PROVE FALSE
  <2>1. PICK n \in B : \A m \in B : n <= m
    <3>1. B \in SUBSET Nat
      OBVIOUS
    <3> HIDE DEF B
    <3> QED
      BY <1>1, <3>1, LeastOf
  <2>2. n \in Nat /\ ~ \E g : IsRounds(jobs, items, S, n, g)
    BY <2>1
  <2>3. CASE n = 0
    <3> DEFINE G == [m \in 0 .. 0 |-> jobs]
    <3>0. 0 \in 0 .. 0 /\ \A m \in 1 .. 0 : FALSE
      OBVIOUS
    <3>1. G = [m \in 0 .. 0 |-> G[m]] /\ G[0] = jobs
      BY <3>0
    <3> HIDE DEF G
    <3>2. IsRounds(jobs, items, S, 0, G)
      BY <3>0, <3>1, RoundsParts
    <3> QED
      BY <2>2, <2>3, <3>2
  <2>4. CASE n # 0
    <3>1. n - 1 \in Nat /\ ~(n <= n - 1)
      BY <2>2, <2>4
    <3>2. PICK g : IsRounds(jobs, items, S, n - 1, g)
      BY <2>1, <3>1
    <3>3. g[0] = jobs /\ \A m \in 1 .. n - 1 : g[m] = AfterRound(items, S, g[m-1], m)
      <4> DEFINE p == n - 1
      <4>1. p \in Nat /\ IsRounds(jobs, items, S, p, g)
        BY <3>1, <3>2
      <4> HIDE DEF p
      <4>2. g[0] = jobs /\ \A m \in 1 .. p : g[m] = AfterRound(items, S, g[m-1], m)
        BY <4>1, RoundsParts
      <4> QED
        BY <4>2 DEF p
    <3> DEFINE G == [m \in 0 .. n |-> IF m = n THEN AfterRound(items, S, g[n-1], n) ELSE g[m]]
    <3>4. G = [m \in 0 .. n |-> G[m]]
      OBVIOUS
    <3>5. G[0] = jobs
      BY <2>2, <2>4, <3>3
    <3>6. ASSUME NEW m \in 1 .. n PROVE G[m] = AfterRound(items, S, G[m-1], m)
      <4>1. m \in 0 .. n /\ m - 1 \in 0 .. n /\ m - 1 # n
        BY <2>2
      <4>2. G[m - 1] = g[m - 1]
        BY <4>1
      <4>3. CASE m = n
        BY <4>1, <4>2, <4>3
      <4>4. CASE m # n
        <5>1. m \in 1 .. n - 1
          BY <2>2, <4>4
        <5>2. G[m] = g[m]
          BY <4>1, <4>4
        <5> QED
          BY <3>3, <4>2, <5>1, <5>2
      <4> QED
        BY <4>3, <4>4
    <3> HIDE DEF G
    <3>7. IsRounds(jobs, items, S, n, G)
      BY <2>2, <3>4, <3>5, <3>6, RoundsParts
    <3> QED
      BY <2>2, <3>7
  <2> QED
    BY <2>3, <2>4
<1> QED
  BY <1>1

LEMMA SubmitAllRounds ==
  ASSUME NEW jobs, NEW items, NEW S, Len(items) \in Nat
  PROVE  \E g : /\ g[0] = jobs /\ SubmitAll(jobs, items, S) = g[Len(items)]
                /\ \A n \in 1 .. Len(items) : g[n] = AfterRound(items, S, g[n-1], n)
<1> DEFINE G == CHOOSE g : IsRounds(jobs, items, S, Len(items), g)
<1>1. SubmitAll(jobs, items, S) = G[Len(items)]
  BY DEF SubmitAll, IsRounds
<1>2. IsRounds(jobs, items, S, Len(items), G)
  BY RoundsExist
<1> HIDE DEF G
<1>3. G[0] = jobs /\ \A n \in 1 .. Len(items) : G[n] = AfterRound(items, S, G[n-1], n)
  BY <1>2, RoundsParts
<1> QED
  BY <1>1, <1>3

-----------------------------------------------------------------------------
(* The lists of items *)

Lists == {unique, recurring, limited}

IdsInv ==
  /\ \A i, j \in Scheduled : i.id = j.id => i = j
  /\ \A items \in Lists :
       \A m, n \in 1 .. Len(items) : m < n => items[m].id < items[n].id

KindsInv ==
  /\ \A i \in Range(unique) : i.period = 0 /\ i.end = NoEnd
  /\ \A i \in Range(recurring) : i.period # 0 /\ i.end = NoEnd
  /\ \A i \in Range(limited) : i.period # 0 /\ i.end # NoEnd

\* The types of the lists.
ListsTyped == unique \in Seq(Item) /\ recurring \in Seq(Item) /\ limited \in Seq(Item)

LEMMA ListParts ==
  ASSUME ListsTyped, NEW items \in Lists
  PROVE  /\ items \in Seq(Item) /\ Len(items) \in Nat
         /\ Range(items) \subseteq Item /\ Range(items) \subseteq Scheduled
         /\ \A n \in 1 .. Len(items) : items[n] \in Range(items)
         /\ \A i \in Range(items) : \E n \in 1 .. Len(items) : i = items[n]
<1>1. items \in Seq(Item) /\ Len(items) \in Nat /\ DOMAIN items = 1 .. Len(items)
  BY DEF ListsTyped, Lists
<1>2. \A n \in 1 .. Len(items) : items[n] \in Item
  BY <1>1
<1>3. Range(items) = {items[n] : n \in 1 .. Len(items)}
  BY <1>1 DEF Range
<1>4. Range(items) \subseteq Scheduled
  BY DEF Lists, Scheduled
<1> QED
  BY <1>1, <1>2, <1>3, <1>4

LEMMA ScheduledItems ==
  ASSUME ListsTyped
  PROVE  Scheduled \subseteq Item
<1>1. \A items \in Lists : Range(items) \subseteq Item
  BY ListParts
<1> QED
  BY <1>1 DEF Scheduled, Lists

\* An epoch of items C, in the order of all lists.
Schedules(jobs, C) == EpochOf(jobs, C) /\ \A items \in Lists : Ordered(jobs, items)

LEMMA SubmitSchedules ==
  ASSUME ListsTyped, IdsInv, NEW C \in SUBSET Scheduled, NEW jobs, Schedules(jobs, C),
         NEW items \in Lists, NEW item \in Range(items), item \notin C,
         \A i \in C \cap Range(items) : i.start = item.start => i.id < item.id,
         \A list \in Lists : item \in Range(list) => list = items
  PROVE  Schedules(Submit(jobs, item), C \cup {item})
<1>1. item \in Scheduled /\ item \in Item /\ C \in SUBSET Item
  BY ListParts, ScheduledItems
<1>2. \A i \in C : i.id # item.id
  BY <1>1 DEF IdsInv
<1>3. EpochOf(Submit(jobs, item), C \cup {item})
  BY <1>1, <1>2, SubmitEpoch DEF Schedules
<1>4. ASSUME NEW list \in Lists PROVE Ordered(Submit(jobs, item), list)
  <2>1. Range(list) \subseteq Item /\ Range(list) \subseteq Scheduled
    BY ListParts
  <2>2. \A i \in C \cup {item}, j \in Range(list) : i.id = j.id => i = j
    BY <1>1, <2>1 DEF IdsInv
  <2>3. item \in Range(list) =>
          \A i \in C \cap Range(list) : i.start = item.start => i.id < item.id
    OBVIOUS
  <2>4. Ordered(jobs, list) /\ EpochOf(jobs, C)
    BY DEF Schedules
  <2> QED
    BY <1>1, <2>1, <2>2, <2>3, <2>4, SubmitOrdered
<1> QED
  BY <1>3, <1>4 DEF Schedules

\* The lists have no item in common.
LEMMA ListsApart ==
  ASSUME KindsInv, NEW a \in Lists, NEW b \in Lists, NEW i \in Range(a), i \in Range(b)
  PROVE  a = b
BY DEF KindsInv, Lists

\* SubmitAll, for items that start at another date than those of their list before.
LEMMA SubmitAllSchedules ==
  ASSUME ListsTyped, IdsInv, KindsInv, NEW C \in SUBSET Scheduled, NEW jobs, Schedules(jobs, C),
         NEW items \in Lists, NEW S \in SUBSET Range(items), C \cap S = {},
         \A i \in C \cap Range(items), j \in S : i.start # j.start
  PROVE  Schedules(SubmitAll(jobs, items, S), C \cup S)
<1>1. Len(items) \in Nat /\ (\A n \in 1 .. Len(items) : items[n] \in Range(items))
      /\ (\A i \in Range(items) : \E n \in 1 .. Len(items) : i = items[n])
      /\ Range(items) \subseteq Scheduled
  BY ListParts
<1>2. PICK g : /\ g[0] = jobs /\ SubmitAll(jobs, items, S) = g[Len(items)]
               /\ \A n \in 1 .. Len(items) : g[n] = AfterRound(items, S, g[n-1], n)
  BY <1>1, SubmitAllRounds
<1> DEFINE D(n) == C \cup {items[m] : m \in {m \in 1 .. n : items[m] \in S}}
           B == {n \in 0 .. Len(items) : ~Schedules(g[n], D(n))}
<1>3. ASSUME B # {} PROVE FALSE
  <2>1. PICK n \in B : \A m \in B : n <= m
    <3>1. B \in SUBSET Nat
      BY <1>1
    <3> HIDE DEF B
    <3> QED
      BY <1>3, <3>1, LeastOf
  <2>2. n \in 0 .. Len(items) /\ ~Schedules(g[n], D(n))
    BY <2>1
  <2>3. CASE n = 0
    <3>1. D(0) = C
      OBVIOUS
    <3> QED
      BY <1>2, <2>2, <2>3, <3>1
  <2>4. CASE n # 0
    <3>1. n \in 1 .. Len(items) /\ n - 1 \in 0 .. Len(items) /\ ~(n <= n - 1)
      BY <1>1, <2>2, <2>4
    <3>2. Schedules(g[n-1], D(n - 1))
      BY <2>1, <3>1
    <3>3. g[n] = AfterRound(items, S, g[n-1], n)
      BY <1>2, <3>1
    <3>4. \A m \in 1 .. n : m = n \/ m \in 1 .. n - 1
      BY <3>1
    <3>5. \A m \in 1 .. n - 1 : m \in 1 .. n /\ m \in 1 .. Len(items) /\ m < n
      BY <3>1
    <3>6. D(n - 1) \in SUBSET Scheduled
      BY <1>1, <3>5
    <3>7. CASE items[n] \in S
      <4>1. D(n) = D(n - 1) \cup {items[n]}
        BY <3>1, <3>4, <3>5, <3>7
      <4>2. ASSUME NEW m \in 1 .. n - 1 PROVE items[m].id < items[n].id
        BY <3>1, <3>5 DEF IdsInv
      <4>3. \A m \in 1 .. n - 1 : items[m].id \in Int /\ items[n].id \in Int
        <5>1. \A m \in 1 .. Len(items) : items[m] \in Item
          BY ListParts
        <5>2. \A m \in 1 .. Len(items) : items[m].id \in Int
          BY <5>1, ItemParts
        <5> QED
          BY <3>1, <3>5, <5>2
      <4>4. \A m \in 1 .. n - 1 : items[m] # items[n]
        BY <4>2, <4>3
      <4>5. items[n] \notin D(n - 1)
        BY <3>7, <4>4
      <4>6. \A i \in D(n - 1) \cap Range(items) : i.start = items[n].start => i.id < items[n].id
        BY <3>7, <4>2
      <4>7. \A list \in Lists : items[n] \in Range(list) => list = items
        BY <1>1, <3>1, ListsApart
      <4>8. items[n] \in Range(items)
        BY <1>1, <3>1
      <4> HIDE DEF D, B
      <4>9. Schedules(Submit(g[n-1], items[n]), D(n - 1) \cup {items[n]})
        BY <3>2, <3>6, <4>5, <4>6, <4>7, <4>8, SubmitSchedules
      <4>10. g[n] = Submit(g[n-1], items[n])
        BY <3>3, <3>7 DEF AfterRound
      <4> QED
        BY <2>2, <4>1, <4>9, <4>10
    <3>8. CASE items[n] \notin S
      <4>1. D(n) = D(n - 1)
        BY <3>4, <3>5, <3>8
      <4>2. g[n] = g[n-1]
        BY <3>3, <3>8 DEF AfterRound
      <4> HIDE DEF D
      <4> QED
        BY <2>2, <3>2, <4>1, <4>2
    <3> QED
      BY <3>7, <3>8
  <2> QED
    BY <2>3, <2>4
<1>4. Len(items) \in 0 .. Len(items)
  BY <1>1
<1>5. Schedules(g[Len(items)], D(Len(items)))
  BY <1>3, <1>4
<1>6. D(Len(items)) = C \cup S
  BY <1>1
<1> HIDE DEF D, B
<1> QED
  BY <1>2, <1>5, <1>6

-----------------------------------------------------------------------------
(* Items are submitted by start step *)

StartAt(S, k) == {i \in S : TimeStep(i.start) = k}

\* The keys of the map of S, and -1.
Keys(S) == {-1} \cup {TimeStep(i.start) : i \in S}

Previous(S, k) == Max({m \in Keys(S) : m < k})

\* g is the epochs after the keys T.
IsAfter(jobs, items, S, T, g) ==
  g = [k \in T |-> IF k = -1 THEN jobs
                   ELSE SubmitAll(g[Previous(S, k)], items, StartAt(S, k))]

LEMMA AfterParts ==
  ASSUME NEW jobs, NEW items, NEW S, NEW T, -1 \in T, NEW g
  PROVE  IsAfter(jobs, items, S, T, g) <=>
           /\ g = [k \in T |-> g[k]]
           /\ g[-1] = jobs
           /\ \A k \in T \ {-1} : g[k] = SubmitAll(g[Previous(S, k)], items, StartAt(S, k))
<1> DEFINE F(k) == IF k = -1 THEN jobs
                   ELSE SubmitAll(g[Previous(S, k)], items, StartAt(S, k))
<1>1. IsAfter(jobs, items, S, T, g) <=> g = [k \in T |-> F(k)]
  BY DEF IsAfter
<1>2. F(-1) = jobs
      /\ \A k \in T \ {-1} : F(k) = SubmitAll(g[Previous(S, k)], items, StartAt(S, k))
  OBVIOUS
<1> HIDE DEF F
<1>3. ASSUME g = [k \in T |-> F(k)]
      PROVE  /\ g = [k \in T |-> g[k]] /\ g[-1] = jobs
             /\ \A k \in T \ {-1} : g[k] = SubmitAll(g[Previous(S, k)], items, StartAt(S, k))
  <2>1. \A k \in T : g[k] = F(k)
    BY <1>3
  <2>2. g = [k \in T |-> g[k]]
    BY <1>3
  <2> QED
    BY <1>2, <2>1, <2>2
<1>4. ASSUME g = [k \in T |-> g[k]], g[-1] = jobs,
             \A k \in T \ {-1} : g[k] = SubmitAll(g[Previous(S, k)], items, StartAt(S, k))
      PROVE  g = [k \in T |-> F(k)]
  <2>1. \A k \in T : g[k] = F(k)
    BY <1>2, <1>4
  <2> QED
    BY <1>4, <2>1
<1> QED
  BY <1>1, <1>3, <1>4

LEMMA KeysParts ==
  ASSUME NEW S \in SUBSET Item
  PROVE  /\ Keys(S) \in SUBSET Int /\ -1 \in Keys(S)
         /\ \A k \in Keys(S) : k = -1 \/ k \in Nat
         /\ \A k \in Keys(S) \ {-1} :
              /\ Previous(S, k) \in Keys(S) /\ Previous(S, k) < k
              /\ \A m \in Keys(S) : m < k => m <= Previous(S, k)
<1>1. \A i \in S : TimeStep(i.start) \in Nat
  BY ItemParts
<1>2. Keys(S) \in SUBSET Int /\ -1 \in Keys(S) /\ \A k \in Keys(S) : k = -1 \/ k \in Nat
  BY <1>1 DEF Keys
<1>3. ASSUME NEW k \in Keys(S) \ {-1}
      PROVE  /\ Previous(S, k) \in Keys(S) /\ Previous(S, k) < k
             /\ \A m \in Keys(S) : m < k => m <= Previous(S, k)
  <2> DEFINE M == {m \in Keys(S) : m < k}
  <2>1. M \in SUBSET Int /\ -1 \in M /\ k \in Int /\ \A m \in M : m <= k
    BY <1>2
  <2>2. Max(M) \in M /\ \A m \in M : m <= Max(M)
    <3> HIDE DEF M
    <3> QED
      BY <2>1, MaxOf
  <2> QED
    BY <2>2 DEF Previous
<1> QED
  BY <1>2, <1>3

LEMMA AfterExists ==
  ASSUME NEW jobs, NEW items, NEW S \in SUBSET Item, NEW N \in Nat
  PROVE  \E g : IsAfter(jobs, items, S, {k \in Keys(S) : k < N}, g)
<1> DEFINE T(n) == {k \in Keys(S) : k < n}
           B == {n \in Nat : ~ \E g : IsAfter(jobs, items, S, T(n), g)}
<1>0. \A n \in Nat : -1 \in T(n)
  BY KeysParts
<1>1. ASSUME B # {} PROVE FALSE
  <2>1. PICK n \in B : \A m \in B : n <= m
    <3>1. B \in SUBSET Nat
      OBVIOUS
    <3> HIDE DEF B
    <3> QED
      BY <1>1, <3>1, LeastOf
  <2>2. n \in Nat /\ ~ \E g : IsAfter(jobs, items, S, T(n), g)
    BY <2>1
  <2>3. CASE n = 0
    <3> DEFINE G == [k \in T(0) |-> jobs]
    <3>0. -1 \in T(0) /\ \A k \in T(0) : k = -1
      BY KeysParts
    <3>1. G = [k \in T(0) |-> G[k]] /\ G[-1] = jobs
      BY <3>0
    <3> HIDE DEF G, T
    <3>2. IsAfter(jobs, items, S, T(0), G)
      BY <3>0, <3>1, AfterParts
    <3> QED
      BY <2>2, <2>3, <3>2
  <2>4. CASE n # 0
    <3> DEFINE p == n - 1
    <3>1. p \in Nat /\ ~(n <= p) /\ p < n
      BY <2>2, <2>4
    <3>2. PICK g : IsAfter(jobs, items, S, T(p), g)
      BY <2>1, <3>1
    <3>3. g[-1] = jobs
          /\ \A k \in T(p) \ {-1} : g[k] = SubmitAll(g[Previous(S, k)], items, StartAt(S, k))
      <4>1. -1 \in T(p)
        BY <1>0, <3>1
      <4> HIDE DEF T, p
      <4> QED
        BY <3>2, <4>1, AfterParts
    <3>4. \A k \in T(n) : k \in T(p) \/ k = p
      BY <2>2, KeysParts
    <3>5. p \notin T(p) /\ -1 # p /\ \A k \in T(p) : k \in T(n)
      BY <2>2, <3>1, KeysParts
    <3>6. \A k \in T(n) \ {-1} : Previous(S, k) \in T(p)
      <4> SUFFICES ASSUME NEW k \in T(n) \ {-1} PROVE Previous(S, k) \in T(p)
        OBVIOUS
      <4>1. k \in Keys(S) \ {-1} /\ k <= p /\ k \in Int
        BY <2>2, KeysParts
      <4>2. Previous(S, k) \in Keys(S) /\ Previous(S, k) < k
        BY <4>1, KeysParts
      <4>3. Previous(S, k) \in Int
        BY <4>2, KeysParts
      <4>4. Previous(S, k) < p
        BY <3>1, <4>1, <4>2, <4>3
      <4> QED
        BY <4>2, <4>4
    <3> DEFINE G == [k \in T(n) |->
                       IF k = p THEN SubmitAll(g[Previous(S, p)], items, StartAt(S, p)) ELSE g[k]]
    <3>7. -1 \in T(n)
      BY <1>0, <2>2
    <3> HIDE DEF T, p
    <3>8. G = [k \in T(n) |-> G[k]] /\ G[-1] = jobs
      BY <3>3, <3>5, <3>7
    <3>9. ASSUME NEW k \in T(n) \ {-1}
          PROVE  G[k] = SubmitAll(G[Previous(S, k)], items, StartAt(S, k))
      <4>1. G[Previous(S, k)] = g[Previous(S, k)]
        BY <3>5, <3>6, <3>9
      <4>2. CASE k = p
        BY <3>9, <4>1, <4>2
      <4>3. CASE k # p
        <5>1. k \in T(p) \ {-1} /\ G[k] = g[k]
          BY <3>4, <3>9, <4>3
        <5> QED
          BY <3>3, <4>1, <5>1
      <4> QED
        BY <4>2, <4>3
    <3> HIDE DEF G
    <3>10. IsAfter(jobs, items, S, T(n), G)
      BY <3>7, <3>8, <3>9, AfterParts
    <3> QED
      BY <2>2, <3>10
  <2> QED
    BY <2>3, <2>4
<1>2. \E g : IsAfter(jobs, items, S, T(N), g)
  BY <1>1
<1> QED
  BY <1>2

LEMMA SubmitByStartAfter ==
  ASSUME NEW jobs, NEW items, NEW S \in SUBSET Item, NEW b \in Nat,
         \A i \in S : TimeStep(i.start) <= b
  PROVE  \E g : /\ g[-1] = jobs /\ SubmitByStart(jobs, items, S) = g[Max(Keys(S))]
                /\ \A k \in Keys(S) \ {-1} :
                     g[k] = SubmitAll(g[Previous(S, k)], items, StartAt(S, k))
<1> DEFINE G == CHOOSE g : IsAfter(jobs, items, S, Keys(S), g)
<1>1. SubmitByStart(jobs, items, S) = G[Max(Keys(S))]
  BY DEF SubmitByStart, IsAfter, Keys, Previous, StartAt
<1>2. IsAfter(jobs, items, S, Keys(S), G)
  <2>1. Keys(S) = {k \in Keys(S) : k < b + 1}
    <3>1. \A i \in S : TimeStep(i.start) \in Nat
      BY ItemParts
    <3>2. \A k \in Keys(S) : k < b + 1
      BY <3>1 DEF Keys
    <3> QED
      BY <3>2
  <2>2. b + 1 \in Nat
    OBVIOUS
  <2>3. \E g : IsAfter(jobs, items, S, {k \in Keys(S) : k < b + 1}, g)
    <3> DEFINE n == b + 1
    <3>1. n \in Nat
      BY <2>2
    <3> HIDE DEF n
    <3>2. \E g : IsAfter(jobs, items, S, {k \in Keys(S) : k < n}, g)
      BY <3>1, AfterExists
    <3> QED
      BY <3>2 DEF n
  <2> QED
    BY <2>1, <2>3
<1> HIDE DEF G
<1>3. /\ G[-1] = jobs
      /\ \A k \in Keys(S) \ {-1} : G[k] = SubmitAll(G[Previous(S, k)], items, StartAt(S, k))
  <2> DEFINE T == Keys(S)
  <2>1. -1 \in T /\ IsAfter(jobs, items, S, T, G)
    BY <1>2, KeysParts
  <2> HIDE DEF T
  <2>2. /\ G[-1] = jobs
        /\ \A k \in T \ {-1} : G[k] = SubmitAll(G[Previous(S, k)], items, StartAt(S, k))
    BY <2>1, AfterParts
  <2> QED
    BY <2>2 DEF T
<1> QED
  BY <1>1, <1>3

LEMMA SubmitByStartSchedules ==
  ASSUME ListsTyped, IdsInv, KindsInv, NEW C \in SUBSET Scheduled, NEW jobs, Schedules(jobs, C),
         NEW items \in Lists, NEW S \in SUBSET Range(items), C \cap Range(items) = {},
         NEW b \in Nat, \A i \in S : TimeStep(i.start) <= b
  PROVE  Schedules(SubmitByStart(jobs, items, S), C \cup S)
<1>1. S \in SUBSET Item /\ S \in SUBSET Scheduled /\ \A i \in S : TimeStep(i.start) \in Nat
  <2>1. S \in SUBSET Item /\ S \in SUBSET Scheduled
    BY ListParts
  <2> QED
    BY <2>1, ItemParts
<1>2. PICK g : /\ g[-1] = jobs /\ SubmitByStart(jobs, items, S) = g[Max(Keys(S))]
               /\ \A k \in Keys(S) \ {-1} :
                    g[k] = SubmitAll(g[Previous(S, k)], items, StartAt(S, k))
  BY <1>1, SubmitByStartAfter
<1> DEFINE D(k) == C \cup {i \in S : TimeStep(i.start) <= k}
           B == {k \in Keys(S) \ {-1} : ~Schedules(g[k], D(k))}
<1>3. D(-1) = C
  BY <1>1
<1>4. ASSUME B # {} PROVE FALSE
  <2>1. PICK k \in B : \A m \in B : k <= m
    <3>1. B \in SUBSET Nat
      BY <1>1, KeysParts
    <3> HIDE DEF B
    <3> QED
      BY <1>4, <3>1, LeastOf
  <2>2. k \in Keys(S) \ {-1} /\ ~Schedules(g[k], D(k)) /\ k \in Nat
    BY <1>1, <2>1, KeysParts
  <2> DEFINE p == Previous(S, k)
  <2>3. p \in Keys(S) /\ p < k /\ p \in Int /\ \A m \in Keys(S) : m < k => m <= p
    BY <1>1, <2>2, KeysParts
  <2>4. Schedules(g[p], D(p))
    <3>1. CASE p = -1
      BY <1>2, <1>3, <3>1
    <3>2. CASE p # -1
      <4>1. p \notin B
        BY <2>1, <2>2, <2>3
      <4> HIDE DEF p, D
      <4> QED
        BY <2>3, <3>2, <4>1
    <3> QED
      BY <3>1, <3>2
  <2>5. g[k] = SubmitAll(g[p], items, StartAt(S, k))
    BY <1>2, <2>2
  <2>6. D(k) = D(p) \cup StartAt(S, k)
    <3>1. \A i \in S : TimeStep(i.start) \in Keys(S)
      BY DEF Keys
    <3>2. \A i \in S : TimeStep(i.start) <= k <=> TimeStep(i.start) <= p \/ TimeStep(i.start) = k
      BY <1>1, <2>2, <2>3, <3>1
    <3> HIDE DEF p
    <3> QED
      BY <3>2 DEF StartAt
  <2>7. D(p) \in SUBSET Scheduled /\ StartAt(S, k) \in SUBSET Range(items)
    BY <1>1 DEF StartAt
  <2>8. D(p) \cap StartAt(S, k) = {}
    BY <2>2, <2>3 DEF StartAt
  <2>9. ASSUME NEW i \in D(p) \cap Range(items), NEW j \in StartAt(S, k) PROVE i.start # j.start
    <3>1. i \in S /\ TimeStep(i.start) <= p
      OBVIOUS
    <3>2. TimeStep(j.start) = k
      BY DEF StartAt
    <3>3. ~(k <= p)
      BY <2>2, <2>3
    <3> QED
      BY <3>1, <3>2, <3>3
  <2> HIDE DEF p, D, B
  <2>10. Schedules(SubmitAll(g[p], items, StartAt(S, k)), D(p) \cup StartAt(S, k))
    BY <2>4, <2>7, <2>8, <2>9, SubmitAllSchedules
  <2> QED
    BY <2>2, <2>5, <2>6, <2>10
<1>5. Max(Keys(S)) \in Keys(S) /\ \A k \in Keys(S) : k <= Max(Keys(S))
  <2>1. Keys(S) \in SUBSET Int /\ Keys(S) # {} /\ b \in Int
    BY <1>1, KeysParts
  <2>2. \A k \in Keys(S) : k <= b
    BY <1>1 DEF Keys
  <2> QED
    BY <2>1, <2>2, MaxOf
<1>6. D(Max(Keys(S))) = C \cup S
  BY <1>5 DEF Keys
<1>7. Schedules(g[Max(Keys(S))], D(Max(Keys(S))))
  BY <1>2, <1>3, <1>4, <1>5
<1> HIDE DEF D, B
<1> QED
  BY <1>2, <1>6, <1>7

-----------------------------------------------------------------------------
(* What is due in a step *)

LEMMA Occurrence ==
  ASSUME NEW i \in Item, NEW n \in Nat
  PROVE  /\ n * i.period \in Nat
         /\ TimeStep(i.start + n * i.period * Sub) = TimeStep(i.start) + n * i.period
         /\ i.start + n * i.period * Sub =
              (TimeStep(i.start) + n * i.period) * Sub + SubTimeStep(i.start)
<1> DEFINE t == TimeStep(i.start)
           s == SubTimeStep(i.start)
           m == n * i.period
<1>1. /\ i.start \in Nat /\ i.period \in Nat /\ t \in Nat /\ s \in 0 .. Sub - 1
      /\ i.start = t * Sub + s
  BY ItemParts, DateParts
<1>2. m \in Nat
  BY <1>1
<1> HIDE DEF t, s, m
<1>3. Sub \in Nat \ {0} /\ Sub \in Int
  BY SchedulingAssumption
<1>4. t * Sub \in Int /\ m * Sub \in Int /\ (t + m) * Sub = t * Sub + m * Sub
  BY <1>1, <1>2, <1>3
<1>5. i.start + m * Sub = (t + m) * Sub + s
  BY <1>1, <1>3, <1>4
<1>6. TimeStep(i.start + m * Sub) = t + m
  <2>1. t + m \in Int
    BY <1>1, <1>2
  <2>2. ((t + m) * Sub + s) \div Sub = t + m
    <3> DEFINE q == t + m
    <3>1. q \in Int
      BY <2>1
    <3> HIDE DEF q
    <3>2. (q * Sub + s) \div Sub = q
      BY <1>1, <1>3, <3>1, Divided
    <3> QED
      BY <3>2 DEF q
  <2> QED
    BY <1>5, <2>2 DEF TimeStep
<1> QED
  BY <1>2, <1>5, <1>6 DEF t, s, m

LEMMA DueParts ==
  ASSUME NEW i \in Item, NEW step \in Nat
  PROVE  Due(i, step) <=>
           /\ \E n \in 0 .. step :
                (i.period = 0 => n = 0) /\ TimeStep(i.start) + n * i.period = step
           /\ i.end # NoEnd => step * Sub + SubTimeStep(i.start) < i.end
<1> DEFINE d(n) == i.start + n * i.period * Sub
<1>1. Due(i, step) <=> \E n \in 0 .. step :
        (i.period = 0 => n = 0) /\ TimeStep(d(n)) = step /\ (i.end # NoEnd => d(n) < i.end)
  BY DEF Due
<1>2. \A n \in 0 .. step :
        /\ TimeStep(d(n)) = TimeStep(i.start) + n * i.period
        /\ d(n) = (TimeStep(i.start) + n * i.period) * Sub + SubTimeStep(i.start)
  BY Occurrence
<1> HIDE DEF d
<1>3. \A n \in 0 .. step : TimeStep(d(n)) = step =>
        /\ TimeStep(i.start) + n * i.period = step
        /\ d(n) = step * Sub + SubTimeStep(i.start)
  BY <1>2
<1>4. \A n \in 0 .. step : TimeStep(i.start) + n * i.period = step =>
        /\ TimeStep(d(n)) = step
        /\ d(n) = step * Sub + SubTimeStep(i.start)
  BY <1>2
<1>5. ASSUME Due(i, step)
      PROVE  /\ \E n \in 0 .. step :
                  (i.period = 0 => n = 0) /\ TimeStep(i.start) + n * i.period = step
             /\ i.end # NoEnd => step * Sub + SubTimeStep(i.start) < i.end
  BY <1>1, <1>3, <1>5
<1>6. ASSUME NEW n \in 0 .. step, i.period = 0 => n = 0, TimeStep(i.start) + n * i.period = step,
             i.end # NoEnd => step * Sub + SubTimeStep(i.start) < i.end
      PROVE  Due(i, step)
  BY <1>1, <1>4, <1>6
<1> QED
  BY <1>5, <1>6

LEMMA DueOnce ==
  ASSUME NEW i \in Item, NEW step \in Nat, i.period = 0, i.end = NoEnd
  PROVE  Due(i, step) <=> TimeStep(i.start) = step
<1>1. TimeStep(i.start) \in Nat
  BY ItemParts
<1>2. Due(i, step) <=> \E n \in 0 .. step :
        (i.period = 0 => n = 0) /\ TimeStep(i.start) + n * i.period = step
  BY DueParts
<1>3. 0 \in 0 .. step /\ TimeStep(i.start) + 0 * i.period = TimeStep(i.start)
  BY <1>1
<1> QED
  BY <1>2, <1>3

LEMMA DueAgain ==
  ASSUME NEW i \in Item, NEW step \in Nat, i.period # 0
  PROVE  Due(i, step) <=>
           /\ TimeStep(i.start) <= step /\ Recurs(i, step)
           /\ i.end # NoEnd => step * Sub + SubTimeStep(i.start) < i.end
<1> DEFINE t == TimeStep(i.start)
           p == i.period
<1>1. t \in Nat /\ p \in Nat \ {0}
  BY ItemParts
<1>2. Due(i, step) <=>
        /\ \E n \in 0 .. step : t + n * p = step
        /\ i.end # NoEnd => step * Sub + SubTimeStep(i.start) < i.end
  BY DueParts
<1>3. Recurs(i, step) <=> (step - t) % p = 0
  BY DEF Recurs
<1> HIDE DEF t, p
<1>4. ASSUME NEW n \in 0 .. step, t + n * p = step PROVE t <= step /\ (step - t) % p = 0
  <2>1. n * p \in Nat /\ step - t = n * p + 0
    BY <1>1, <1>4
  <2>2. n \in Int /\ 0 \in 0 .. p - 1
    BY <1>1
  <2>3. (n * p + 0) % p = 0
    BY <1>1, <2>2, Divided
  <2> QED
    BY <1>1, <1>4, <2>1, <2>3
<1>5. ASSUME t <= step, (step - t) % p = 0 PROVE \E n \in 0 .. step : t + n * p = step
  <2> DEFINE x == step - t
             n == x \div p
  <2>1. x \in Nat /\ x <= step
    BY <1>1, <1>5
  <2>2. x % p = 0
    BY <1>5
  <2> HIDE DEF x
  <2>3. n \in Int /\ x = p * n + (x % p) /\ n >= 0
    BY <1>1, <2>1
  <2> HIDE DEF n
  <2>4. x = n * p /\ n <= n * p
    BY <1>1, <2>2, <2>3
  <2>5. n \in 0 .. step
    BY <2>1, <2>3, <2>4
  <2>6. t + n * p = step
    BY <1>1, <2>1, <2>4 DEF x
  <2> QED
    BY <2>5, <2>6
<1>6. (\E n \in 0 .. step : t + n * p = step) <=> t <= step /\ (step - t) % p = 0
  BY <1>4, <1>5
<1> QED
  BY <1>2, <1>3, <1>6 DEF t

LEMMA EmptySchedules == Schedules(<<>>, {})
<1>1. <<>> \in Seq(Entry) /\ Len(<<>>) = 0 /\ \A n \in 1 .. Len(<<>>) : FALSE
  BY EmptySeq
<1>2. EpochOf(<<>>, {})
  BY <1>1 DEF EpochOf, Sorted
<1>3. ASSUME NEW items \in Lists PROVE Ordered(<<>>, items)
  BY <1>1 DEF Ordered
<1> QED
  BY <1>2, <1>3 DEF Schedules

\* Scheduler::build() makes an epoch of what is due.
LEMMA BuildSchedules ==
  ASSUME ListsTyped, IdsInv, KindsInv, NEW step \in Nat, step * Sub + Sub <= Exact
  PROVE  Schedules(Build(step), {i \in Scheduled : Due(i, step)})
<1> DEFINE once == {i \in Range(unique) : TimeStep(i.start) = step}
           started(items) == {i \in Range(items) : TimeStep(i.start) <= step /\ Recurs(i, step)}
           again == started(recurring)
           until == {i \in started(limited) :
                       Round(step * Sub + SubTimeStep(i.start)) < i.end}
           e1 == SubmitAll(<<>>, unique, once)
           e2 == SubmitByStart(e1, recurring, again)
           e3 == SubmitByStart(e2, limited, until)
<1>1. Build(step) = e3
  BY DEF Build
<1>2. unique \in Lists /\ recurring \in Lists /\ limited \in Lists
  BY DEF Lists
<1>3. /\ Range(unique) \subseteq Item /\ Range(unique) \subseteq Scheduled
      /\ Range(recurring) \subseteq Item /\ Range(recurring) \subseteq Scheduled
      /\ Range(limited) \subseteq Item /\ Range(limited) \subseteq Scheduled
  BY <1>2, ListParts
<1>4. /\ Range(unique) \cap Range(recurring) = {}
      /\ (Range(unique) \cup Range(recurring)) \cap Range(limited) = {}
  BY DEF KindsInv
<1>5. \A i \in Range(unique) : Due(i, step) <=> i \in once
  BY <1>3, DueOnce DEF KindsInv
<1>6. \A i \in Range(recurring) : Due(i, step) <=> i \in again
  BY <1>3, DueAgain DEF KindsInv
<1>7. ASSUME NEW i \in Range(limited) PROVE Due(i, step) <=> i \in until
  <2>1. i \in Item /\ i.period # 0 /\ i.end # NoEnd
    BY <1>3 DEF KindsInv
  <2>2. SubTimeStep(i.start) \in 0 .. Sub - 1
    BY <2>1, ItemParts
  <2>3. step * Sub \in Nat /\ Sub \in Nat
    BY SchedulingAssumption
  <2>4. step * Sub + SubTimeStep(i.start) \in 0 .. Exact
    <3> DEFINE x == step * Sub
    <3>1. x \in Nat /\ x + Sub <= Exact
      BY <2>3
    <3> HIDE DEF x
    <3>2. x + SubTimeStep(i.start) \in 0 .. Exact
      BY <2>2, <2>3, <3>1, ExactParts
    <3> QED
      BY <3>2 DEF x
  <2>5. Round(step * Sub + SubTimeStep(i.start)) = step * Sub + SubTimeStep(i.start)
    BY <2>4, ExactRound
  <2>6. Due(i, step) <=>
          /\ TimeStep(i.start) <= step /\ Recurs(i, step)
          /\ step * Sub + SubTimeStep(i.start) < i.end
    BY <2>1, DueAgain
  <2> QED
    BY <2>5, <2>6
<1>8. Schedules(e1, once)
  <2>1. {} \in SUBSET Scheduled /\ once \in SUBSET Range(unique) /\ {} \cup once = once
    OBVIOUS
  <2> HIDE DEF once
  <2>2. Schedules(SubmitAll(<<>>, unique, once), {} \cup once)
    BY <1>2, <2>1, EmptySchedules, SubmitAllSchedules
  <2> QED
    BY <2>1, <2>2
<1>9. Schedules(e2, once \cup again)
  <2>1. once \in SUBSET Scheduled /\ again \in SUBSET Range(recurring)
        /\ once \cap Range(recurring) = {} /\ \A i \in again : TimeStep(i.start) <= step
    BY <1>3, <1>4
  <2> HIDE DEF once, again, e1
  <2> QED
    BY <1>2, <1>8, <2>1, SubmitByStartSchedules
<1>10. Schedules(e3, (once \cup again) \cup until)
  <2>1. once \cup again \in SUBSET Scheduled /\ until \in SUBSET Range(limited)
        /\ (once \cup again) \cap Range(limited) = {} /\ \A i \in until : TimeStep(i.start) <= step
    BY <1>3, <1>4
  <2> HIDE DEF once, again, until, e2
  <2> QED
    BY <1>2, <1>9, <2>1, SubmitByStartSchedules
<1>11. (once \cup again) \cup until = {i \in Scheduled : Due(i, step)}
  <2>1. once \subseteq Range(unique) /\ again \subseteq Range(recurring) /\ until \subseteq Range(limited)
    OBVIOUS
  <2> HIDE DEF once, again, until
  <2> QED
    BY <1>5, <1>6, <1>7, <2>1 DEF Scheduled
<1> QED
  BY <1>1, <1>10, <1>11

-----------------------------------------------------------------------------
(* The inductive invariant *)

\* The dates that run() reaches are small enough to be exact.
ExactDates == \A e \in Ends : e + Sub <= Exact

TimesInv ==
  /\ start \in Nat
  /\ stage # "idle" => end \in Ends
  /\ stage \in {"jobs", "tasks"} => time < end

\* Only calls that took place are known; what was scheduled before the run is in its
\* epochs.
KnownInv ==
  /\ \A id \in known \cup before : id \in 1 .. calls
  /\ stage \in {"jobs", "tasks"} => \A i \in Scheduled : i.id \in before => i.id \in known

\* What is due in the current step, of what was scheduled when its epoch was built.
DueItems == {i \in Scheduled : i.id \in known /\ Due(i, TimeStep(time))}

EpochInv == stage \in {"jobs", "tasks"} => EpochOf(epoch, DueItems)

OrderInv ==
  /\ \A items \in Lists : Ordered(epoch, items)
  /\ \A n \in 1 .. Len(epoch) : epoch[n].id <= calls

Execution == [step : Nat, entry : Entry]

Chronological ==
  \A m, n \in 1 .. Len(log) : m < n =>
    log[m].step * Sub + log[m].entry.sub <= log[n].step * Sub + log[n].entry.sub

\* The last jobs of the log are those of the epoch before pos, all others are of
\* earlier steps.
LogInv ==
  /\ log \in Seq(Execution)
  /\ Chronological
  /\ stage \in {"step", "idle"} => \A n \in 1 .. Len(log) : log[n].step < TimeStep(time)
  /\ stage \in {"jobs", "tasks"} =>
       /\ pos - 1 <= Len(log)
       /\ \A n \in 1 .. Len(log) - (pos - 1) : log[n].step < TimeStep(time)
       /\ \A n \in 1 .. pos - 1 :
            log[Len(log) - (pos - 1) + n] = Executed(epoch[n], TimeStep(time))

\* The jobs of the call id executed in step k.
Those(seq, k, id) == {j \in Range(seq) : j.step = k /\ j.entry.id = id}

ExecutedOnce(i, k) ==
  Block(log, IF Due(i, k) THEN Executions(i, k) ELSE <<>>, Those(log, k, i.id))

\* What was scheduled before the run has been executed in all steps before the current one.
DoneInv ==
  \A i \in Scheduled : i.id \in before =>
    \A k \in TimeStep(start) .. TimeStep(time) - 1 : ExecutedOnce(i, k)

\* A task that has been in the job since it began has run, or is going to.
TasksInv == stage = "tasks" => stayed \subseteq pending \cup ran

IInv ==
  /\ TypeOK /\ IdsInv /\ KindsInv /\ TimesInv /\ KnownInv /\ EpochInv /\ OrderInv
  /\ LogInv /\ DoneInv /\ TasksInv

-----------------------------------------------------------------------------
(* Initial states *)

LEMMA TypesOfLists ==
  ASSUME TypeOK
  PROVE  /\ ListsTyped /\ Scheduled \subseteq Item /\ calls \in 0 .. MaxCalls
         /\ \A i \in Scheduled : i.id \in 1 .. calls
<1>1. ListsTyped /\ calls \in 0 .. MaxCalls /\ \A i \in Scheduled : i.id <= calls
  BY DEF TypeOK, ListsTyped
<1>2. Scheduled \subseteq Item
  BY <1>1, ScheduledItems
<1>3. ASSUME NEW i \in Scheduled PROVE i.id \in 1 .. calls
  <2>1. i.id \in 1 .. MaxCalls /\ i.id <= calls
    BY <1>1, <1>2, ItemParts
  <2> QED
    BY <1>1, <2>1, SchedulingAssumption
<1> QED
  BY <1>1, <1>2, <1>3

LEMMA InitInv == Init => IInv
<1> SUFFICES ASSUME Init PROVE IInv
  OBVIOUS
<1>1. /\ unique = <<>> /\ recurring = <<>> /\ limited = <<>> /\ epoch = <<>> /\ log = <<>>
      /\ stage = "idle" /\ date = 0 /\ time = 0 /\ end = 0 /\ pos = 1 /\ pending = {}
      /\ calls = 0 /\ start = 0 /\ before = {} /\ known = {}
      /\ tasks = [i \in Job |-> FirstTasks]
  BY DEF Init
<1>2. Range(<<>>) = {}
  BY DEF Range
<1>3. Scheduled = {} /\ \A items \in Lists : items = <<>>
  BY <1>1, <1>2 DEF Scheduled, Lists
<1>4. \A S : <<>> \in Seq(S) /\ Len(<<>>) = 0
  BY EmptySeq
<1>5. TypeOK
  <2>1. MaxCalls \in Nat /\ FirstTasks \subseteq Task
    BY SchedulingAssumption
  <2>2. tasks \in [Job -> SUBSET Task]
    BY <1>1, <2>1
  <2> QED
    BY <1>1, <1>3, <1>4, <2>1, <2>2 DEF TypeOK
<1>6. IdsInv
  BY <1>3, <1>4 DEF IdsInv
<1>7. KindsInv
  BY <1>1, <1>2 DEF KindsInv
<1>8. TimesInv /\ KnownInv /\ EpochInv /\ TasksInv
  BY <1>1 DEF TimesInv, KnownInv, EpochInv, TasksInv
<1>9. OrderInv
  BY <1>1, <1>2, <1>3, <1>4 DEF OrderInv, Ordered
<1>10. LogInv
  BY <1>1, <1>4 DEF LogInv, Chronological
<1>11. DoneInv
  BY <1>3 DEF DoneInv
<1> QED
  BY <1>5, <1>6, <1>7, <1>8, <1>9, <1>10, <1>11 DEF IInv

-----------------------------------------------------------------------------
(* Calls of the scheduler and of jobs *)

\* What schedule() adds.
New(period, e, s, l) == [id |-> calls + 1, start |-> s, period |-> period, end |-> e, jobs |-> l]

LEMMA ScheduleAdds ==
  ASSUME IInv, Schedule
  PROVE  \E s \in Dates, l \in JobLists :
           \/ unique' = Append(unique, New(0, NoEnd, s, l)) /\ UNCHANGED <<recurring, limited>>
           \/ \E p \in Periods :
                recurring' = Append(recurring, New(p, NoEnd, s, l)) /\ UNCHANGED <<unique, limited>>
           \/ \E p \in Periods, e \in Dates :
                limited' = Append(limited, New(p, e, s, l)) /\ UNCHANGED <<unique, recurring>>
BY DEF Schedule, New

LEMMA AppendParts ==
  ASSUME NEW S, NEW seq \in Seq(S), NEW x \in S
  PROVE  /\ Append(seq, x) \in Seq(S)
         /\ Len(seq) \in Nat /\ Len(Append(seq, x)) = Len(seq) + 1
         /\ \A n \in 1 .. Len(seq) : Append(seq, x)[n] = seq[n]
         /\ Append(seq, x)[Len(seq) + 1] = x
         /\ Range(Append(seq, x)) = Range(seq) \cup {x}
<1>1. /\ Append(seq, x) \in Seq(S) /\ Len(seq) \in Nat /\ Len(Append(seq, x)) = Len(seq) + 1
      /\ DOMAIN seq = 1 .. Len(seq) /\ DOMAIN Append(seq, x) = 1 .. Len(seq) + 1
  OBVIOUS
<1>2. \A n \in 1 .. Len(seq) : Append(seq, x)[n] = seq[n]
  OBVIOUS
<1>3. Append(seq, x)[Len(seq) + 1] = x
  OBVIOUS
<1> DEFINE new == Append(seq, x)
           L == Len(seq)
<1> HIDE DEF new, L
<1>4. \A n \in 1 .. L + 1 : n \in 1 .. L \/ n = L + 1
  BY <1>1 DEF L
<1>5. L + 1 \in 1 .. L + 1 /\ \A n \in 1 .. L : n \in 1 .. L + 1
  BY <1>1 DEF L
<1>6. Range(new) = Range(seq) \cup {x}
  BY <1>1, <1>2, <1>3, <1>4, <1>5 DEF Range, new, L
<1> QED
  BY <1>1, <1>2, <1>3, <1>6 DEF new

LEMMA ScheduleAddsItem ==
  ASSUME IInv, Schedule
  PROVE  /\ ListsTyped' /\ KindsInv'
         /\ calls' = calls + 1 /\ calls' \in 0 .. MaxCalls
         /\ \E x \in Item :
              /\ x.id = calls + 1
              /\ Scheduled' = Scheduled \cup {x}
              /\ \A list \in Lists' : list \in Lists \/ \E items \in Lists : list = Append(items, x)
<1>1. /\ ListsTyped /\ calls \in 0 .. MaxCalls /\ calls < MaxCalls /\ calls' = calls + 1
      /\ KindsInv
  BY TypesOfLists DEF IInv, Schedule
<1>2. calls + 1 \in 1 .. MaxCalls /\ calls' \in 0 .. MaxCalls
  BY <1>1, SchedulingAssumption
<1>3. unique \in Seq(Item) /\ recurring \in Seq(Item) /\ limited \in Seq(Item)
  BY <1>1 DEF ListsTyped
<1>4. unique \in Lists /\ recurring \in Lists /\ limited \in Lists
      /\ \A list \in Lists' : list = unique' \/ list = recurring' \/ list = limited'
  BY DEF Lists
<1>5. PICK s \in Dates, l \in JobLists :
           \/ unique' = Append(unique, New(0, NoEnd, s, l)) /\ UNCHANGED <<recurring, limited>>
           \/ \E p \in Periods :
                recurring' = Append(recurring, New(p, NoEnd, s, l)) /\ UNCHANGED <<unique, limited>>
           \/ \E p \in Periods, e \in Dates :
                limited' = Append(limited, New(p, e, s, l)) /\ UNCHANGED <<unique, recurring>>
  BY ScheduleAdds
<1>6. \A p \in Periods \cup {0}, e \in Dates \cup {NoEnd} :
        /\ New(p, e, s, l) \in Item /\ New(p, e, s, l).id = calls + 1
        /\ New(p, e, s, l).period = p /\ New(p, e, s, l).end = e
  BY <1>2 DEF New, Item
<1>7. CASE unique' = Append(unique, New(0, NoEnd, s, l)) /\ UNCHANGED <<recurring, limited>>
  <2> DEFINE x == New(0, NoEnd, s, l)
  <2>1. x \in Item /\ x.id = calls + 1 /\ x.period = 0 /\ x.end = NoEnd
    BY <1>6
  <2> HIDE DEF x
  <2>2. unique' = Append(unique, x) /\ recurring' = recurring /\ limited' = limited
    BY <1>7 DEF x
  <2>3. unique' \in Seq(Item) /\ Range(unique') = Range(unique) \cup {x}
    BY <1>3, <2>1, <2>2, AppendParts
  <2>4. Scheduled' = Scheduled \cup {x}
    BY <2>2, <2>3 DEF Scheduled
  <2>5. KindsInv'
    BY <1>1, <2>1, <2>2, <2>3 DEF KindsInv
  <2>6. ListsTyped'
    BY <1>3, <2>2, <2>3 DEF ListsTyped
  <2>7. \A list \in Lists' : list \in Lists \/ \E items \in Lists : list = Append(items, x)
    BY <1>4, <2>2
  <2> QED
    BY <1>1, <1>2, <2>1, <2>4, <2>5, <2>6, <2>7
<1>8. ASSUME NEW p \in Periods,
             recurring' = Append(recurring, New(p, NoEnd, s, l)), UNCHANGED <<unique, limited>>
      PROVE  /\ ListsTyped' /\ KindsInv'
             /\ \E x \in Item :
                  /\ x.id = calls + 1
                  /\ Scheduled' = Scheduled \cup {x}
                  /\ \A list \in Lists' : list \in Lists \/ \E items \in Lists : list = Append(items, x)
  <2> DEFINE x == New(p, NoEnd, s, l)
  <2>1. x \in Item /\ x.id = calls + 1 /\ x.period # 0 /\ x.end = NoEnd
    <3>1. p # 0
      BY SchedulingAssumption
    <3> QED
      BY <1>6, <3>1
  <2> HIDE DEF x
  <2>2. recurring' = Append(recurring, x) /\ unique' = unique /\ limited' = limited
    BY <1>8 DEF x
  <2>3. recurring' \in Seq(Item) /\ Range(recurring') = Range(recurring) \cup {x}
    BY <1>3, <2>1, <2>2, AppendParts
  <2>4. Scheduled' = Scheduled \cup {x}
    BY <2>2, <2>3 DEF Scheduled
  <2>5. KindsInv'
    BY <1>1, <2>1, <2>2, <2>3 DEF KindsInv
  <2>6. ListsTyped'
    BY <1>3, <2>2, <2>3 DEF ListsTyped
  <2>7. \A list \in Lists' : list \in Lists \/ \E items \in Lists : list = Append(items, x)
    BY <1>4, <2>2
  <2> QED
    BY <2>1, <2>4, <2>5, <2>6, <2>7
<1>9. ASSUME NEW p \in Periods, NEW e \in Dates,
             limited' = Append(limited, New(p, e, s, l)), UNCHANGED <<unique, recurring>>
      PROVE  /\ ListsTyped' /\ KindsInv'
             /\ \E x \in Item :
                  /\ x.id = calls + 1
                  /\ Scheduled' = Scheduled \cup {x}
                  /\ \A list \in Lists' : list \in Lists \/ \E items \in Lists : list = Append(items, x)
  <2> DEFINE x == New(p, e, s, l)
  <2>1. x \in Item /\ x.id = calls + 1 /\ x.period # 0 /\ x.end # NoEnd
    <3>1. p # 0
      BY SchedulingAssumption
    <3>2. e # NoEnd
      <4>1. e \in Nat /\ ~(NoEnd \in Nat)
        BY SchedulingAssumption DEF NoEnd
      <4> QED
        BY <4>1
    <3> QED
      BY <1>6, <3>1, <3>2
  <2> HIDE DEF x
  <2>2. limited' = Append(limited, x) /\ unique' = unique /\ recurring' = recurring
    BY <1>9 DEF x
  <2>3. limited' \in Seq(Item) /\ Range(limited') = Range(limited) \cup {x}
    BY <1>3, <2>1, <2>2, AppendParts
  <2>4. Scheduled' = Scheduled \cup {x}
    BY <2>2, <2>3 DEF Scheduled
  <2>5. KindsInv'
    BY <1>1, <2>1, <2>2, <2>3 DEF KindsInv
  <2>6. ListsTyped'
    BY <1>3, <2>2, <2>3 DEF ListsTyped
  <2>7. \A list \in Lists' : list \in Lists \/ \E items \in Lists : list = Append(items, x)
    BY <1>4, <2>2
  <2> QED
    BY <2>1, <2>4, <2>5, <2>6, <2>7
<1> QED
  BY <1>1, <1>2, <1>5, <1>7, <1>8, <1>9

LEMMA ScheduleIds ==
  ASSUME IInv, Schedule
  PROVE  IdsInv' /\ OrderInv'
<1>1. /\ ListsTyped /\ Scheduled \subseteq Item /\ calls \in Nat /\ IdsInv /\ OrderInv
      /\ \A i \in Scheduled : i.id \in 1 .. calls
  BY TypesOfLists, SchedulingAssumption DEF IInv
<1>2. PICK x \in Item :
        /\ x.id = calls + 1
        /\ Scheduled' = Scheduled \cup {x}
        /\ \A list \in Lists' : list \in Lists \/ \E items \in Lists : list = Append(items, x)
  BY ScheduleAddsItem
<1>3. calls' = calls + 1 /\ epoch' = epoch
  BY DEF Schedule, runtime
<1>4. \A i \in Scheduled : i.id \in Int /\ i.id < x.id /\ i.id # x.id
  BY <1>1, <1>2
<1>5. \A i, j \in Scheduled' : i.id = j.id => i = j
  BY <1>1, <1>2, <1>4 DEF IdsInv
<1>6. \A n \in 1 .. Len(epoch) : epoch[n].id <= calls /\ epoch[n].id \in Int
  <2>1. epoch \in Seq(Entry) /\ \A n \in 1 .. Len(epoch) : epoch[n].id <= calls
    BY <1>1 DEF OrderInv, IInv, TypeOK
  <2>2. \A n \in 1 .. Len(epoch) : epoch[n] \in Entry
    BY <2>1
  <2>3. \A e \in Entry : e.id \in Int
    BY DEF Entry
  <2> QED
    BY <2>1, <2>2, <2>3
<1>7. \A n \in 1 .. Len(epoch) : epoch[n].id # x.id /\ epoch[n].id <= calls'
  BY <1>1, <1>2, <1>3, <1>6
<1>8. ASSUME NEW items \in Lists
      PROVE  /\ \A m, n \in 1 .. Len(Append(items, x)) :
                  m < n => Append(items, x)[m].id < Append(items, x)[n].id
             /\ Ordered(epoch, Append(items, x))
  <2> DEFINE new == Append(items, x)
             L == Len(items)
  <2>1. /\ L \in Nat /\ Len(new) = L + 1 /\ (\A n \in 1 .. L : new[n] = items[n])
        /\ new[L + 1] = x /\ Range(new) = Range(items) \cup {x}
    <3>1. items \in Seq(Item)
      BY <1>1, ListParts
    <3> QED
      BY <3>1, AppendParts
  <2>2. (\A n \in 1 .. L : items[n] \in Scheduled) /\ Range(items) \subseteq Scheduled
    BY <1>1, ListParts
  <2>3. \A m, n \in 1 .. L : m < n => items[m].id < items[n].id
    BY <1>1 DEF IdsInv
  <2>4. Ordered(epoch, items)
    BY <1>1 DEF OrderInv
  <2> HIDE DEF new, L
  <2>5. ASSUME NEW m \in 1 .. Len(new), NEW n \in 1 .. Len(new), m < n
        PROVE  new[m].id < new[n].id
    <3>1. m \in 1 .. L
      BY <2>1, <2>5
    <3>2. CASE n = L + 1
      BY <1>4, <2>1, <2>2, <3>1, <3>2
    <3>3. CASE n \in 1 .. L
      BY <2>1, <2>3, <2>5, <3>1, <3>3
    <3> QED
      BY <2>1, <3>2, <3>3
  <2>6. Ordered(epoch, new)
    <3> SUFFICES ASSUME NEW a \in Range(new), NEW b \in Range(new), a.id < b.id, a.start = b.start,
                        NEW m \in 1 .. Len(epoch), NEW n \in 1 .. Len(epoch),
                        epoch[m].id = a.id, epoch[n].id = b.id
                 PROVE  m < n
      BY DEF Ordered
    <3>1. a # x /\ b # x
      BY <1>7
    <3>2. a \in Range(items) /\ b \in Range(items)
      BY <2>1, <3>1
    <3> QED
      BY <2>4, <3>2 DEF Ordered
  <2> QED
    BY <2>5, <2>6 DEF new
<1>9. \A list \in Lists' : /\ Ordered(epoch', list)
                           /\ \A m, n \in 1 .. Len(list) : m < n => list[m].id < list[n].id
  BY <1>1, <1>2, <1>3, <1>8 DEF IdsInv, OrderInv
<1>10. IdsInv'
  BY <1>5, <1>9 DEF IdsInv
<1>11. OrderInv'
  BY <1>3, <1>7, <1>9 DEF OrderInv
<1> QED
  BY <1>10, <1>11

LEMMA ScheduleStep ==
  ASSUME IInv, Schedule
  PROVE  IInv'
<1>1. /\ ListsTyped /\ calls \in Nat /\ (\A i \in Scheduled : i.id \in 1 .. calls)
      /\ TypeOK /\ KnownInv
  BY TypesOfLists, SchedulingAssumption DEF IInv
<1>2. /\ UNCHANGED <<tasks, stage, date, time, end, epoch, pos, pending>>
      /\ UNCHANGED <<start, before, known, log, stayed, ran>>
  BY DEF Schedule, runtime
<1>3. ListsTyped' /\ KindsInv' /\ calls' = calls + 1 /\ calls' \in 0 .. MaxCalls
  BY ScheduleAddsItem
<1>4. PICK x \in Item : x.id = calls + 1 /\ Scheduled' = Scheduled \cup {x}
  BY ScheduleAddsItem
<1>5. x.id \notin known /\ x.id \notin before
  BY <1>1, <1>4 DEF KnownInv
<1>6. \A i \in Scheduled' : i.id <= calls'
  BY <1>1, <1>3, <1>4
<1>7. TypeOK'
  BY <1>1, <1>2, <1>3, <1>6 DEF TypeOK, ListsTyped
<1>8. TimesInv' /\ TasksInv'
  BY <1>2 DEF IInv, TimesInv, TasksInv
<1>9. KnownInv'
  <2>1. \A id \in known' \cup before' : id \in 1 .. calls'
    BY <1>1, <1>2, <1>3 DEF KnownInv
  <2>2. stage' \in {"jobs", "tasks"} => \A i \in Scheduled' : i.id \in before' => i.id \in known'
    BY <1>1, <1>2, <1>4, <1>5 DEF KnownInv
  <2> QED
    BY <2>1, <2>2 DEF KnownInv
<1>10. DueItems' = DueItems
  BY <1>2, <1>4, <1>5 DEF DueItems
<1>11. EpochInv'
  BY <1>2, <1>10 DEF IInv, EpochInv
<1>12. LogInv'
  BY <1>2 DEF IInv, LogInv, Chronological
<1>13. DoneInv'
  <2>1. \A i \in Scheduled' : i.id \in before' => i \in Scheduled /\ i.id \in before
    BY <1>2, <1>4, <1>5
  <2>2. \A i, k : ExecutedOnce(i, k)' <=> ExecutedOnce(i, k)
    BY <1>2 DEF ExecutedOnce, Those
  <2> QED
    BY <1>2, <2>1, <2>2 DEF IInv, DoneInv
<1> QED
  BY <1>3, <1>7, <1>8, <1>9, <1>11, <1>12, <1>13, ScheduleIds DEF IInv

\* What depends on nothing but the lists, the numbers of the calls and the epoch.
LEMMA SameSchedule ==
  ASSUME IInv, UNCHANGED <<unique, recurring, limited, calls>>
  PROVE  /\ Scheduled' = Scheduled /\ Lists' = Lists /\ IdsInv' /\ KindsInv'
         /\ epoch' = epoch => OrderInv'
<1>1. Scheduled' = Scheduled /\ Lists' = Lists
  BY DEF Scheduled, Lists
<1>2. IdsInv' /\ KindsInv'
  BY <1>1 DEF IInv, IdsInv, KindsInv
<1>3. epoch' = epoch => OrderInv'
  BY <1>1 DEF IInv, OrderInv, Ordered
<1> QED
  BY <1>1, <1>2, <1>3

\* The log of a run and what it is compared with.
LEMMA SameLog ==
  ASSUME IInv, UNCHANGED <<unique, recurring, limited, before, start, time, log>>
  PROVE  DoneInv'
<1>1. \A i, k : ExecutedOnce(i, k)' <=> ExecutedOnce(i, k)
  BY DEF ExecutedOnce, Those
<1>2. Scheduled' = Scheduled
  BY DEF Scheduled
<1> QED
  BY <1>1, <1>2 DEF IInv, DoneInv

LEMMA SameEpoch ==
  ASSUME IInv, UNCHANGED <<unique, recurring, limited, known, time>>
  PROVE  DueItems' = DueItems
<1>1. Scheduled' = Scheduled
  BY DEF Scheduled
<1> QED
  BY <1>1 DEF DueItems

\* Job::add() and Job::remove() edit tasks.
LEMMA EditStep ==
  ASSUME IInv, AddTask \/ RemoveTask
  PROVE  IInv'
<1>1. /\ UNCHANGED <<unique, recurring, limited, stage, date, time, end, epoch, pos, pending>>
      /\ UNCHANGED <<calls, start, before, known, log, ran>>
      /\ stayed' \subseteq stayed
  BY DEF AddTask, RemoveTask, scheduler, runtime
<1>2. TypeOK /\ tasks \in [Job -> SUBSET Task]
  BY DEF IInv, TypeOK
<1>3. tasks' \in [Job -> SUBSET Task]
  <2>1. CASE AddTask
    BY <1>2, <2>1 DEF AddTask
  <2>2. CASE RemoveTask
    BY <1>2, <2>2 DEF RemoveTask
  <2> QED
    BY <2>1, <2>2
<1>4. Scheduled' = Scheduled /\ IdsInv' /\ KindsInv' /\ OrderInv'
  BY <1>1, SameSchedule
<1>5. TypeOK'
  BY <1>1, <1>2, <1>3, <1>4 DEF TypeOK
<1>6. TimesInv' /\ KnownInv'
  BY <1>1, <1>4 DEF IInv, TimesInv, KnownInv
<1>7. EpochInv'
  BY <1>1, SameEpoch DEF IInv, EpochInv
<1>8. LogInv'
  BY <1>1 DEF IInv, LogInv, Chronological
<1>9. DoneInv'
  BY <1>1, SameLog
<1>10. TasksInv'
  BY <1>1 DEF IInv, TasksInv
<1> QED
  BY <1>4, <1>5, <1>6, <1>7, <1>8, <1>9, <1>10 DEF IInv

-----------------------------------------------------------------------------
(* Steps of the runtime *)

LEMMA RunStarts ==
  ASSUME IInv, Run
  PROVE  IInv'
<1>1. /\ UNCHANGED <<unique, recurring, limited, tasks, calls, known, stayed, ran>>
      /\ UNCHANGED <<date, epoch, pos, pending>>
      /\ stage = "idle" /\ stage' = "step" /\ log' = <<>>
      /\ before' = {i.id : i \in Scheduled}
      /\ \E s \in Starts \cup {date}, e \in Ends : time' = s /\ start' = s /\ end' = e
  BY DEF Run, CallOfRuntime, scheduler
<1>2. TypeOK
  BY DEF IInv
<1>3. time' \in Nat /\ start' = time' /\ end' \in Ends /\ end' \in Nat
  <2>1. (\A d \in Starts : d \in Nat) /\ (\A d \in Ends : d \in Nat) /\ date \in Nat
    BY <1>2, SchedulingAssumption DEF TypeOK
  <2> QED
    BY <1>1, <2>1
<1>4. Scheduled' = Scheduled /\ IdsInv' /\ KindsInv' /\ OrderInv'
  BY <1>1, SameSchedule
<1>5. TypeOK'
  BY <1>1, <1>2, <1>3, <1>4 DEF TypeOK
<1>6. TimesInv' /\ EpochInv' /\ TasksInv'
  BY <1>1, <1>3 DEF TimesInv, EpochInv, TasksInv
<1>7. KnownInv'
  <2>1. \A i \in Scheduled : i.id \in 1 .. calls
    BY <1>2, TypesOfLists
  <2> QED
    BY <1>1, <1>4, <2>1 DEF IInv, KnownInv
<1>8. LogInv'
  <2>1. log' \in Seq(Execution) /\ Len(log') = 0
    BY <1>1, EmptySeq
  <2>2. \A n \in 1 .. Len(log') : FALSE
    BY <2>1
  <2> HIDE DEF Execution
  <2> QED
    BY <1>1, <2>1, <2>2 DEF LogInv, Chronological
<1>9. DoneInv'
  <2>1. TimeStep(start)' = TimeStep(time)' /\ TimeStep(time)' \in Nat
    BY <1>3, DateParts
  <2>2. \A k \in TimeStep(start)' .. TimeStep(time)' - 1 : FALSE
    BY <2>1
  <2> QED
    BY <2>2 DEF DoneInv
<1> QED
  BY <1>4, <1>5, <1>6, <1>7, <1>8, <1>9 DEF IInv

LEMMA DateIsSet ==
  ASSUME IInv, SetCurrentDate
  PROVE  IInv'
<1>1. /\ UNCHANGED <<unique, recurring, limited, tasks, calls, known, stayed, ran>>
      /\ UNCHANGED <<stage, time, end, epoch, pos, pending, start, before, log>>
      /\ date' \in Starts
  BY DEF SetCurrentDate, CallOfRuntime, scheduler
<1>2. TypeOK
  BY DEF IInv
<1>3. date' \in Nat
  BY <1>1, SchedulingAssumption
<1>4. Scheduled' = Scheduled /\ IdsInv' /\ KindsInv' /\ OrderInv'
  BY <1>1, SameSchedule
<1>5. TypeOK'
  BY <1>1, <1>2, <1>3, <1>4 DEF TypeOK
<1>6. TimesInv' /\ KnownInv' /\ TasksInv'
  BY <1>1, <1>4 DEF IInv, TimesInv, KnownInv, TasksInv
<1>7. EpochInv'
  BY <1>1, SameEpoch DEF IInv, EpochInv
<1>8. LogInv'
  BY <1>1 DEF IInv, LogInv, Chronological
<1>9. DoneInv'
  BY <1>1, SameLog
<1> QED
  BY <1>4, <1>5, <1>6, <1>7, <1>8, <1>9 DEF IInv

LEMMA RunStops ==
  ASSUME IInv, EndRun
  PROVE  IInv'
<1>1. /\ UNCHANGED <<unique, recurring, limited, tasks, date, time, end, epoch, pos, pending>>
      /\ UNCHANGED <<calls, start, before, known, log, stayed, ran>>
      /\ stage = "step" /\ stage' = "idle"
  BY DEF EndRun, scheduler, history
<1>2. TypeOK
  BY DEF IInv
<1>3. Scheduled' = Scheduled /\ IdsInv' /\ KindsInv' /\ OrderInv'
  BY <1>1, SameSchedule
<1>4. TypeOK'
  BY <1>1, <1>2, <1>3 DEF TypeOK
<1>5. TimesInv' /\ KnownInv' /\ EpochInv' /\ TasksInv'
  BY <1>1, <1>3 DEF IInv, TimesInv, KnownInv, EpochInv, TasksInv
<1>6. LogInv'
  BY <1>1 DEF IInv, LogInv, Chronological
<1>7. DoneInv'
  BY <1>1, SameLog
<1> QED
  BY <1>3, <1>4, <1>5, <1>6, <1>7 DEF IInv

\* While a job is executed, only its tasks change.
LEMMA TasksStep ==
  ASSUME IInv, BeginJob \/ RunTask
  PROVE  IInv'
<1>1. /\ UNCHANGED <<unique, recurring, limited, tasks, date, time, end, epoch, pos>>
      /\ UNCHANGED <<calls, start, before, known, log>>
      /\ stage \in {"jobs", "tasks"} /\ stage' = "tasks" /\ pos <= Len(epoch)
  BY DEF BeginJob, RunTask, scheduler, IInv, TypeOK
<1>2. TypeOK /\ tasks \in [Job -> SUBSET Task] /\ pending \subseteq Task
      /\ epoch \in Seq(Entry) /\ pos \in 1 .. Len(epoch) + 1
  BY DEF IInv, TypeOK
<1>3. pending' \subseteq Task /\ stayed' \subseteq pending' \cup ran'
  <2>1. CASE BeginJob
    <3>1. pos \in 1 .. Len(epoch) /\ epoch[pos] \in Entry
      BY <1>1, <1>2
    <3>2. epoch[pos].job \in Job
      BY <3>1 DEF Entry
    <3>3. pending' = tasks[epoch[pos].job] /\ stayed' = pending'
      BY <2>1 DEF BeginJob
    <3> QED
      BY <1>2, <3>2, <3>3
  <2>2. CASE RunTask
    <3>1. stayed' = stayed /\ \E t \in pending : pending' = pending \ {t} /\ ran' = ran \cup {t}
      BY <2>2 DEF RunTask
    <3>2. stayed \subseteq pending \cup ran
      BY <2>2 DEF RunTask, IInv, TasksInv
    <3> QED
      BY <1>2, <3>1, <3>2
  <2> QED
    BY <2>1, <2>2
<1>4. Scheduled' = Scheduled /\ IdsInv' /\ KindsInv' /\ OrderInv'
  BY <1>1, SameSchedule
<1>5. TypeOK'
  BY <1>1, <1>2, <1>3, <1>4 DEF TypeOK
<1>6. TimesInv' /\ KnownInv'
  BY <1>1, <1>4 DEF IInv, TimesInv, KnownInv
<1>7. TasksInv'
  BY <1>3 DEF TasksInv
<1>8. EpochInv'
  BY <1>1, SameEpoch DEF IInv, EpochInv
<1>9. LogInv'
  BY <1>1 DEF IInv, LogInv, Chronological
<1>10. DoneInv'
  BY <1>1, SameLog
<1> QED
  BY <1>4, <1>5, <1>6, <1>7, <1>8, <1>9, <1>10 DEF IInv

\* The step that the loop of run() executes has exact dates.
LEMMA StepIsExact ==
  ASSUME ExactDates, TypeOK, end \in Ends, time < end
  PROVE  /\ TimeStep(time) \in Nat /\ TimeStep(time) * Sub + Sub <= Exact
         /\ Round(time + Sub) = time + Sub
         /\ TimeStep(time + Sub) = TimeStep(time) + 1
<1>1. time \in Nat /\ end \in Nat /\ Sub \in Nat \ {0} /\ end + Sub <= Exact /\ Exact \in Nat
  BY SchedulingAssumption, ExactParts DEF TypeOK, ExactDates
<1>2. /\ TimeStep(time) \in Nat /\ SubTimeStep(time) \in 0 .. Sub - 1
      /\ time = TimeStep(time) * Sub + SubTimeStep(time)
  BY <1>1, DateParts
<1> DEFINE t == TimeStep(time)
           s == SubTimeStep(time)
           p == t * Sub
<1>3. p \in Int
  BY <1>1, <1>2
<1>4. p + Sub <= Exact
  <2> HIDE DEF p, t, s
  <2>1. s \in 0 .. Sub - 1 /\ time = p + s
    BY <1>2 DEF p, t, s
  <2> QED
    BY <1>1, <1>3, <2>1
<1>5. time + Sub \in 0 .. Exact
  BY <1>1
<1>6. Round(time + Sub) = time + Sub
  <2> DEFINE d == time + Sub
  <2>1. d \in 0 .. Exact
    BY <1>5
  <2> HIDE DEF d
  <2>2. Round(d) = d
    BY <2>1, ExactRound
  <2> QED
    BY <2>2 DEF d
<1>7. TimeStep(time + Sub) = t + 1
  <2> DEFINE q == t + 1
  <2>1. q \in Int /\ s \in 0 .. Sub - 1
    BY <1>2
  <2>2. q * Sub = p + Sub
    BY <1>1, <1>2
  <2>3. time + Sub = q * Sub + s
    <3>1. time = p + s /\ s \in Int
      BY <1>2
    <3> HIDE DEF q, p, s
    <3> QED
      BY <1>1, <1>3, <2>2, <3>1
  <2> HIDE DEF q, s
  <2>4. (q * Sub + s) \div Sub = q
    BY <1>1, <2>1, Divided
  <2> QED
    BY <2>3, <2>4 DEF TimeStep, q
<1> QED
  BY <1>2, <1>4, <1>6, <1>7

LEMMA EpochIsBuilt ==
  ASSUME ExactDates, IInv, BuildEpoch
  PROVE  IInv'
<1>1. /\ UNCHANGED <<unique, recurring, limited, tasks, time, end, pending>>
      /\ UNCHANGED <<calls, start, before, log, stayed, ran>>
      /\ stage = "step" /\ stage' = "jobs" /\ time < end /\ pos' = 1 /\ date' = time
      /\ epoch' = Build(TimeStep(time)) /\ known' = {i.id : i \in Scheduled}
  BY DEF BuildEpoch, scheduler
<1>2. TypeOK /\ ListsTyped /\ IdsInv /\ KindsInv /\ end \in Ends
      /\ \A i \in Scheduled : i.id \in 1 .. calls
  BY <1>1, TypesOfLists DEF IInv, TimesInv
<1>3. TimeStep(time) \in Nat /\ TimeStep(time) * Sub + Sub <= Exact
  BY <1>1, <1>2, StepIsExact
<1>4. Schedules(epoch', {i \in Scheduled : Due(i, TimeStep(time))})
  BY <1>1, <1>2, <1>3, BuildSchedules
<1>5. Scheduled' = Scheduled /\ Lists' = Lists /\ IdsInv' /\ KindsInv'
  BY <1>1, SameSchedule
<1>6. DueItems' = {i \in Scheduled : Due(i, TimeStep(time))}
  BY <1>1, <1>5 DEF DueItems
<1>7. EpochOf(epoch', DueItems') /\ \A items \in Lists' : Ordered(epoch', items)
  BY <1>4, <1>5, <1>6 DEF Schedules
<1>8. EpochInv'
  BY <1>7 DEF EpochInv
<1>9. OrderInv'
  <2>1. \A n \in 1 .. Len(epoch') : \E i \in Scheduled : epoch'[n].id = i.id
    BY <1>6, <1>7 DEF EpochOf
  <2>2. \A n \in 1 .. Len(epoch') : epoch'[n].id <= calls
    BY <1>2, <2>1
  <2> QED
    BY <1>1, <1>7, <2>2 DEF OrderInv
<1>10. epoch' \in Seq(Entry) /\ pos' \in 1 .. Len(epoch') + 1
  <2>1. epoch' \in Seq(Entry)
    BY <1>7 DEF EpochOf
  <2>2. Len(epoch') \in Nat
    BY <2>1
  <2> QED
    BY <1>1, <2>1, <2>2
<1>11. TypeOK'
  BY <1>1, <1>2, <1>5, <1>10 DEF TypeOK
<1>12. TimesInv' /\ TasksInv'
  BY <1>1, <1>2 DEF IInv, TimesInv, TasksInv
<1>13. KnownInv'
  BY <1>1, <1>2, <1>5 DEF IInv, KnownInv
<1>14. LogInv'
  <2>1. log \in Seq(Execution) /\ Chronological /\ \A n \in 1 .. Len(log) : log[n].step < TimeStep(time)
    BY <1>1 DEF IInv, LogInv
  <2>2. Len(log) \in Nat /\ pos' - 1 = 0 /\ Len(log) - (pos' - 1) = Len(log)
    BY <1>1, <2>1
  <2>3. Chronological'
    BY <1>1, <2>1 DEF Chronological
  <2> QED
    BY <1>1, <2>1, <2>2, <2>3 DEF LogInv
<1>15. DoneInv'
  BY <1>1, SameLog
<1> QED
  BY <1>5, <1>8, <1>9, <1>11, <1>12, <1>13, <1>14, <1>15 DEF IInv

-----------------------------------------------------------------------------
(* The log *)

\* The jobs of the call id executed in step k are list, in one piece.
Once(seq, list, k, id) ==
  \E m \in 0 .. Len(seq) - Len(list) : \A n \in 1 .. Len(seq) :
    IF n \in m + 1 .. m + Len(list) THEN seq[n] = list[n - m]
    ELSE seq[n].step # k \/ seq[n].entry.id # id

Expected(i, k) == IF Due(i, k) THEN Executions(i, k) ELSE <<>>

LEMMA ExecutionParts ==
  ASSUME NEW e \in Entry, NEW k \in Nat
  PROVE  /\ Executed(e, k) \in Execution
         /\ Executed(e, k).step = k /\ Executed(e, k).entry = e
BY DEF Executed, Execution

LEMMA ExpectedParts ==
  ASSUME NEW i \in Item, NEW k \in Nat
  PROVE  /\ Expected(i, k) \in Seq(Execution) /\ Len(Expected(i, k)) \in Nat
         /\ Due(i, k) => /\ Len(Expected(i, k)) = Len(i.jobs)
                         /\ \A n \in 1 .. Len(i.jobs) : Expected(i, k)[n] = Executed(Entries(i)[n], k)
         /\ ~Due(i, k) => Len(Expected(i, k)) = 0
<1>1. Len(i.jobs) \in Nat /\ \A n \in 1 .. Len(i.jobs) : Entries(i)[n] \in Entry
  BY ItemParts, EntriesParts
<1>2. \A n \in 1 .. Len(i.jobs) : Executed(Entries(i)[n], k) \in Execution
  BY <1>1, ExecutionParts
<1> HIDE DEF Execution
<1>3. Executions(i, k) \in [1 .. Len(i.jobs) -> Execution]
  BY <1>2 DEF Executions
<1>4. Executions(i, k) \in Seq(Execution) /\ Len(Executions(i, k)) = Len(i.jobs)
  BY <1>1, <1>3
<1>5. \A n \in 1 .. Len(i.jobs) : Executions(i, k)[n] = Executed(Entries(i)[n], k)
  BY DEF Executions
<1>6. <<>> \in Seq(Execution) /\ Len(<<>>) = 0
  BY EmptySeq
<1>7. CASE Due(i, k)
  BY <1>1, <1>4, <1>5, <1>7 DEF Expected
<1>8. CASE ~Due(i, k)
  <2>1. Expected(i, k) = <<>>
    BY <1>8 DEF Expected
  <2> QED
    BY <1>6, <1>8, <2>1
<1> QED
  BY <1>7, <1>8

LEMMA OnceParts ==
  ASSUME NEW seq \in Seq(Execution), NEW list, NEW k, NEW id
  PROVE  Block(seq, list, Those(seq, k, id)) <=> Once(seq, list, k, id)
<1> DEFINE S == Those(seq, k, id)
<1>1. \A n \in 1 .. Len(seq) : seq[n] \in Range(seq)
  BY DEF Range
<1>2. \A n \in 1 .. Len(seq) : seq[n] \notin S <=> (seq[n].step # k \/ seq[n].entry.id # id)
  BY <1>1 DEF Those
<1> HIDE DEF S
<1>3. Block(seq, list, S) <=> Once(seq, list, k, id)
  BY <1>2 DEF Block, Once
<1> QED
  BY <1>3 DEF S

LEMMA OnceStays ==
  ASSUME NEW seq \in Seq(Execution), NEW x \in Execution, NEW list, Len(list) \in Nat,
         NEW k, NEW id, Once(seq, list, k, id), x.step # k
  PROVE  Once(Append(seq, x), list, k, id)
<1> DEFINE new == Append(seq, x)
           L == Len(seq)
           d == Len(list)
<1>1. /\ L \in Nat /\ Len(new) = L + 1 /\ (\A n \in 1 .. L : new[n] = seq[n]) /\ new[L + 1] = x
  <2> HIDE DEF Execution
  <2> QED
    BY AppendParts
<1>2. PICK m \in 0 .. L - d : \A n \in 1 .. L :
        IF n \in m + 1 .. m + d THEN seq[n] = list[n - m]
        ELSE seq[n].step # k \/ seq[n].entry.id # id
  BY DEF Once
<1>3. d \in Nat
  OBVIOUS
<1> HIDE DEF new, L, d
<1>4. m \in 0 .. Len(new) - d /\ m + d <= L /\ m \in Int
  BY <1>1, <1>2, <1>3
<1>5. ASSUME NEW n \in 1 .. Len(new)
      PROVE  IF n \in m + 1 .. m + d THEN new[n] = list[n - m]
             ELSE new[n].step # k \/ new[n].entry.id # id
  <2>1. CASE n = L + 1
    <3>1. n \notin m + 1 .. m + d
      BY <1>1, <1>3, <1>4, <2>1
    <3> QED
      BY <1>1, <2>1, <3>1
  <2>2. CASE n \in 1 .. L
    BY <1>1, <1>2, <2>2
  <2> QED
    BY <1>1, <2>1, <2>2
<1>6. Once(new, list, k, id)
  BY <1>4, <1>5 DEF Once, d
<1> QED
  BY <1>6 DEF new

LEMMA JobEnds ==
  ASSUME IInv, EndJob
  PROVE  IInv'
<1>1. /\ UNCHANGED <<unique, recurring, limited, tasks, date, time, end, epoch, pending>>
      /\ UNCHANGED <<calls, start, before, known, stayed, ran>>
      /\ stage = "tasks" /\ stage' = "jobs" /\ pos' = pos + 1
      /\ log' = Append(log, Executed(epoch[pos], TimeStep(time)))
  BY DEF EndJob, scheduler
<1>2. /\ TypeOK /\ ListsTyped /\ Scheduled \subseteq Item
      /\ epoch \in Seq(Entry) /\ pos \in 1 .. Len(epoch) /\ Len(epoch) \in Nat /\ time \in Nat
  <2>1. TypeOK /\ ListsTyped /\ Scheduled \subseteq Item
    BY TypesOfLists DEF IInv
  <2>2. epoch \in Seq(Entry) /\ pos \in 1 .. Len(epoch) + 1 /\ pos <= Len(epoch) /\ time \in Nat
    BY <1>1, <2>1 DEF TypeOK
  <2>3. Len(epoch) \in Nat
    BY <2>2
  <2> QED
    BY <2>1, <2>2, <2>3
<1>3. Scheduled' = Scheduled /\ IdsInv' /\ KindsInv' /\ OrderInv'
  BY <1>1, SameSchedule
<1>4. TypeOK'
  <2>1. pos' \in 1 .. Len(epoch) + 1
    BY <1>1, <1>2
  <2> QED
    BY <1>1, <1>2, <1>3, <2>1 DEF TypeOK
<1>5. TimesInv' /\ KnownInv' /\ TasksInv'
  BY <1>1, <1>3 DEF IInv, TimesInv, KnownInv, TasksInv
<1>6. EpochInv'
  BY <1>1, SameEpoch DEF IInv, EpochInv
<1> DEFINE t == TimeStep(time)
           x == Executed(epoch[pos], t)
           L == Len(log)
<1>7. /\ t \in Nat /\ epoch[pos] \in Entry
      /\ x \in Execution /\ x.step = t /\ x.entry = epoch[pos]
  <2>1. t \in Nat
    BY <1>2, DateParts
  <2>2. epoch[pos] \in Entry
    BY <1>2
  <2> QED
    BY <2>1, <2>2, ExecutionParts
<1>8. /\ log \in Seq(Execution) /\ Chronological /\ pos - 1 <= L
      /\ (\A n \in 1 .. L - (pos - 1) : log[n].step < t)
      /\ (\A n \in 1 .. pos - 1 : log[L - (pos - 1) + n] = Executed(epoch[n], t))
  BY <1>1 DEF IInv, LogInv
<1>9. /\ log' = Append(log, x) /\ log' \in Seq(Execution) /\ L \in Nat /\ Len(log') = L + 1
      /\ (\A n \in 1 .. L : log'[n] = log[n]) /\ log'[L + 1] = x
  <2> HIDE DEF x, Execution
  <2>1. log' = Append(log, x)
    BY <1>1 DEF x
  <2> QED
    BY <1>7, <1>8, <2>1, AppendParts
<1>10. LogInv'
  <2>1. Chronological'
    <3> SUFFICES ASSUME NEW m \in 1 .. Len(log'), NEW n \in 1 .. Len(log'), m < n
                 PROVE  log'[m].step * Sub + log'[m].entry.sub <= log'[n].step * Sub + log'[n].entry.sub
      BY DEF Chronological
    <3>1. m \in 1 .. L /\ log'[m] = log[m]
      BY <1>9
    <3>2. CASE n \in 1 .. L
      BY <1>8, <1>9, <3>1, <3>2 DEF Chronological
    <3>3. CASE n = L + 1
      <4>1. log'[n].step = t /\ log'[n].entry = epoch[pos]
        BY <1>7, <1>9, <3>3
      <4>2. epoch[pos].sub \in 0 .. Sub - 1 /\ Sub \in Nat
        BY <1>7, SchedulingAssumption DEF Entry
      <4>3. CASE m \in 1 .. L - (pos - 1)
        <5>1. log[m] \in Execution
          BY <1>8, <3>1
        <5>2. log[m].step \in Nat /\ log[m].entry.sub \in 0 .. Sub - 1 /\ log[m].step < t
          BY <1>8, <4>3, <5>1 DEF Execution, Entry
        <5> DEFINE a == log[m].step
                   b == log[m].entry.sub
                   c == epoch[pos].sub
        <5> HIDE DEF a, b, c, t
        <5>3. a \in Nat /\ b \in 0 .. Sub - 1 /\ c \in 0 .. Sub - 1 /\ a + 1 <= t /\ t \in Nat
          BY <1>7, <4>2, <5>2 DEF a, b, c
        <5>4. (a + 1) * Sub <= t * Sub /\ (a + 1) * Sub = a * Sub + Sub
          BY <4>2, <5>3
        <5>5. a * Sub \in Int /\ t * Sub \in Int
          BY <4>2, <5>3
        <5>6. a * Sub + b <= t * Sub + c
          BY <4>2, <5>3, <5>4, <5>5
        <5> QED
          BY <3>1, <4>1, <5>6 DEF a, b, c
      <4>4. CASE m \notin 1 .. L - (pos - 1)
        <5> DEFINE q == m - (L - (pos - 1))
        <5>1. q \in 1 .. pos - 1 /\ L - (pos - 1) + q = m /\ q \in 1 .. Len(epoch) /\ q < pos
          BY <1>2, <1>8, <1>9, <3>1, <4>4
        <5> HIDE DEF q
        <5>2. log[m] = Executed(epoch[q], t)
          BY <1>8, <5>1
        <5>3. epoch[q] \in Entry
          BY <1>2, <5>1
        <5>4. log[m].step = t /\ log[m].entry = epoch[q]
          BY <1>7, <5>2, <5>3, ExecutionParts
        <5>5. epoch[q].sub <= epoch[pos].sub
          <6>1. EpochOf(epoch, DueItems)
            BY <1>1 DEF IInv, EpochInv
          <6> QED
            BY <1>2, <5>1, <6>1 DEF EpochOf, Sorted
        <5>6. epoch[q].sub \in Int
          BY <5>3 DEF Entry
        <5>7. t * Sub \in Int
          BY <1>7, <4>2
        <5> HIDE DEF t
        <5>8. t * Sub + epoch[q].sub <= t * Sub + epoch[pos].sub
          BY <4>2, <5>5, <5>6, <5>7
        <5> QED
          BY <3>1, <4>1, <5>4, <5>8
      <4> QED
        BY <4>3, <4>4
    <3> QED
      BY <1>9, <3>2, <3>3
  <2>2. /\ pos' - 1 = pos /\ pos \in Int /\ L + 1 - pos = L - (pos - 1) /\ pos <= L + 1
        /\ 1 .. L - (pos - 1) \subseteq 1 .. L
    BY <1>1, <1>2, <1>8, <1>9
  <2>3. \A n \in 1 .. Len(log') - (pos' - 1) : log'[n].step < t
    BY <1>8, <1>9, <2>2
  <2>4. ASSUME NEW n \in 1 .. pos' - 1
        PROVE  log'[Len(log') - (pos' - 1) + n] = Executed(epoch[n], t)
    <3>1. CASE n = pos
      <4>1. Len(log') - (pos' - 1) + n = L + 1
        BY <1>9, <2>2, <3>1
      <4> QED
        BY <1>9, <3>1, <4>1
    <3>2. CASE n # pos
      <4>1. n \in 1 .. pos - 1
        BY <2>2, <3>2
      <4>2. Len(log') - (pos' - 1) + n = L - (pos - 1) + n /\ L - (pos - 1) + n \in 1 .. L
        BY <1>8, <1>9, <2>2, <4>1
      <4> QED
        BY <1>8, <1>9, <4>1, <4>2
    <3> QED
      BY <3>1, <3>2
  <2>5. TimeStep(time)' = t /\ epoch' = epoch /\ pos' - 1 <= Len(log')
    BY <1>1, <1>9, <2>2
  <2> QED
    BY <1>1, <1>9, <2>1, <2>3, <2>4, <2>5 DEF LogInv
<1>11. DoneInv'
  <2> SUFFICES ASSUME NEW i \in Scheduled, i.id \in before, NEW k \in TimeStep(start) .. t - 1
               PROVE  ExecutedOnce(i, k)'
    BY <1>1, <1>3 DEF DoneInv
  <2>1. ExecutedOnce(i, k)
    BY DEF IInv, DoneInv
  <2>2. k \in Nat /\ k # t /\ i \in Item
    <3>1. TimeStep(start) \in Nat
      BY DateParts DEF IInv, TimesInv
    <3> QED
      BY <1>2, <1>7, <3>1
  <2>3. Once(log, Expected(i, k), k, i.id)
    BY <1>8, <2>1, OnceParts DEF ExecutedOnce, Expected
  <2>4. Len(Expected(i, k)) \in Nat
    BY <2>2, ExpectedParts
  <2>5. Once(log', Expected(i, k), k, i.id)
    <3> HIDE DEF x, Execution
    <3> QED
      BY <1>7, <1>8, <1>9, <2>2, <2>3, <2>4, OnceStays
  <2>6. Block(log', Expected(i, k), Those(log', k, i.id))
    BY <1>9, <2>5, OnceParts
  <2> QED
    BY <2>6 DEF ExecutedOnce, Expected, Those
<1> QED
  BY <1>3, <1>4, <1>5, <1>6, <1>10, <1>11 DEF IInv

\* When a step ends, the log ends with its epoch: all that was due was executed once.
LEMMA StepExecuted ==
  ASSUME IInv, stage = "jobs", pos > Len(epoch), NEW i \in Scheduled, i.id \in before
  PROVE  ExecutedOnce(i, TimeStep(time))
<1> DEFINE t == TimeStep(time)
           L == Len(log)
           E == Len(epoch)
           list == Expected(i, t)
           d == Len(list)
<1>1. /\ TypeOK /\ i \in Item /\ time \in Nat /\ i.id \in known
      /\ epoch \in Seq(Entry) /\ pos \in 1 .. E + 1
  <2>1. TypeOK /\ KnownInv
    BY DEF IInv
  <2>2. i.id \in known
    BY <2>1 DEF KnownInv
  <2> QED
    BY <2>1, <2>2, TypesOfLists DEF TypeOK
<1>2. E \in Nat /\ pos - 1 = E /\ t \in Nat
  <2>1. E \in Nat
    BY <1>1
  <2>2. pos - 1 = E
    BY <1>1, <2>1
  <2>3. t \in Nat
    BY <1>1, DateParts
  <2> QED
    BY <2>1, <2>2, <2>3
<1>3. /\ log \in Seq(Execution) /\ E <= L
      /\ (\A n \in 1 .. L - E : log[n].step < t)
      /\ (\A n \in 1 .. E : log[L - E + n] = Executed(epoch[n], t))
  BY <1>2 DEF IInv, LogInv
<1>4. L \in Nat /\ \A n \in 1 .. L : log[n] \in Execution
  <2> HIDE DEF Execution
  <2> QED
    BY <1>3
<1>5. EpochOf(epoch, DueItems) /\ IdsInv
  BY DEF IInv, EpochInv
<1>6. \A n \in 1 .. E : epoch[n] \in Entry /\ log[L - E + n].step = t
                        /\ log[L - E + n].entry = epoch[n]
  <2>1. \A n \in 1 .. E : epoch[n] \in Entry
    BY <1>1
  <2>2. \A n \in 1 .. E : Executed(epoch[n], t).step = t /\ Executed(epoch[n], t).entry = epoch[n]
    BY <1>2, <2>1, ExecutionParts
  <2> QED
    BY <1>3, <2>1, <2>2
<1>7. d \in Nat
  BY <1>1, <1>2, ExpectedParts
<1>8. ASSUME NEW n \in 1 .. L - E PROVE log[n].step # t
  <2>1. log[n] \in Execution /\ log[n].step < t
    <3> HIDE DEF Execution, t
    <3> QED
      BY <1>2, <1>3, <1>4
  <2>2. log[n].step \in Nat
    BY <2>1 DEF Execution
  <2> QED
    BY <1>2, <2>1, <2>2
<1>9. CASE Due(i, t)
  <2>1. d = Len(i.jobs) /\ \A n \in 1 .. d : list[n] = Executed(Entries(i)[n], t)
    BY <1>1, <1>2, <1>9, ExpectedParts
  <2>2. Placed(epoch, i)
    BY <1>1, <1>5, <1>9 DEF EpochOf, DueItems
  <2>3. PICK m \in 0 .. E - d : \A n \in 1 .. E :
          IF n \in m + 1 .. m + d THEN epoch[n] = Entries(i)[n - m] ELSE epoch[n].id # i.id
    BY <2>1, <2>2 DEF Placed
  <2> HIDE DEF t, L, E, list, d
  <2>4. m + (L - E) \in 0 .. L - d
    BY <1>2, <1>3, <1>4, <1>7, <2>3
  <2>5. ASSUME NEW n \in 1 .. L
        PROVE  IF n \in (m + (L - E)) + 1 .. (m + (L - E)) + d
               THEN log[n] = list[n - (m + (L - E))]
               ELSE log[n].step # t \/ log[n].entry.id # i.id
    <3>1. CASE n \in 1 .. L - E
      <4>1. n \notin (m + (L - E)) + 1 .. (m + (L - E)) + d
        BY <1>2, <1>3, <1>4, <1>7, <2>3, <3>1
      <4> QED
        BY <1>8, <3>1, <4>1
    <3>2. CASE n \notin 1 .. L - E
      <4> DEFINE q == n - (L - E)
      <4>1. q \in 1 .. E /\ n = L - E + q /\ q \in Int
        BY <1>2, <1>3, <1>4, <3>2
      <4> HIDE DEF q
      <4>2. CASE q \in m + 1 .. m + d
        <5>1. n \in (m + (L - E)) + 1 .. (m + (L - E)) + d /\ n - (m + (L - E)) = q - m
              /\ q - m \in 1 .. d
          BY <1>2, <1>4, <1>7, <2>3, <4>1, <4>2
        <5>2. epoch[q] = Entries(i)[q - m]
          BY <2>3, <4>1, <4>2
        <5>3. log[n] = Executed(epoch[q], t)
          BY <1>3, <4>1 DEF t, L, E
        <5>4. list[q - m] = Executed(Entries(i)[q - m], t)
          BY <2>1, <5>1
        <5> QED
          BY <5>1, <5>2, <5>3, <5>4
      <4>3. CASE q \notin m + 1 .. m + d
        <5>1. n \notin (m + (L - E)) + 1 .. (m + (L - E)) + d
          BY <1>2, <1>4, <1>7, <2>3, <4>1, <4>3
        <5>2. epoch[q].id # i.id
          BY <2>3, <4>1, <4>3
        <5>3. log[n].entry = epoch[q]
          BY <1>6, <4>1 DEF t, L, E
        <5> QED
          BY <5>1, <5>2, <5>3
      <4> QED
        BY <4>2, <4>3
    <3> QED
      BY <3>1, <3>2
  <2>6. Once(log, list, t, i.id)
    BY <2>4, <2>5 DEF Once, d, L
  <2> QED
    BY <1>3, <2>6, OnceParts DEF ExecutedOnce, Expected, t, list
<1>10. CASE ~Due(i, t)
  <2>1. d = 0
    BY <1>1, <1>2, <1>10, ExpectedParts
  <2>2. ASSUME NEW q \in 1 .. E PROVE epoch[q].id # i.id
    <3>1. PICK j \in DueItems : epoch[q].id = j.id
      BY <1>5 DEF EpochOf
    <3>2. j \in Scheduled /\ j # i
      BY <1>10 DEF DueItems
    <3> QED
      BY <1>5, <3>1, <3>2 DEF IdsInv
  <2> HIDE DEF t, L, E, list, d
  <2>3. ASSUME NEW n \in 1 .. L PROVE log[n].step # t \/ log[n].entry.id # i.id
    <3>1. CASE n \in 1 .. L - E
      BY <1>8, <3>1
    <3>2. CASE n \notin 1 .. L - E
      <4> DEFINE q == n - (L - E)
      <4>1. q \in 1 .. E /\ n = L - E + q
        BY <1>2, <1>3, <1>4, <3>2
      <4> HIDE DEF q
      <4> QED
        BY <1>6, <2>2, <4>1 DEF t, L, E
    <3> QED
      BY <3>1, <3>2
  <2>4. 0 \in 0 .. L - d /\ \A n \in 1 .. L : n \notin 0 + 1 .. 0 + d
    BY <1>4, <2>1
  <2>5. Once(log, list, t, i.id)
    BY <2>3, <2>4 DEF Once, d, L
  <2> QED
    BY <1>3, <2>5, OnceParts DEF ExecutedOnce, Expected, t, list
<1> QED
  BY <1>9, <1>10

LEMMA StepEnds ==
  ASSUME ExactDates, IInv, EndStep
  PROVE  IInv'
<1>1. /\ UNCHANGED <<unique, recurring, limited, tasks, date, end, epoch, pos, pending>>
      /\ UNCHANGED <<calls, start, before, known, log, stayed, ran>>
      /\ stage = "jobs" /\ stage' = "step" /\ pos > Len(epoch) /\ time' = Round(time + Sub)
  BY DEF EndStep, scheduler, history
<1>2. TypeOK /\ end \in Ends /\ time < end /\ time \in Nat /\ start \in Nat
  BY <1>1 DEF IInv, TimesInv, TypeOK
<1> DEFINE t == TimeStep(time)
<1>3. t \in Nat /\ time' = time + Sub /\ TimeStep(time)' = t + 1 /\ time' \in Nat
  <2>1. Round(time + Sub) = time + Sub /\ TimeStep(time + Sub) = t + 1 /\ t \in Nat
    BY <1>2, StepIsExact
  <2>2. time + Sub \in Nat
    BY <1>2, SchedulingAssumption
  <2> QED
    BY <1>1, <2>1, <2>2
<1>4. Scheduled' = Scheduled /\ IdsInv' /\ KindsInv' /\ OrderInv'
  BY <1>1, SameSchedule
<1>5. TypeOK'
  BY <1>1, <1>2, <1>3, <1>4 DEF TypeOK
<1>6. TimesInv' /\ KnownInv' /\ EpochInv' /\ TasksInv'
  BY <1>1, <1>2, <1>4 DEF IInv, TimesInv, KnownInv, EpochInv, TasksInv
<1>7. LogInv'
  <2>1. /\ epoch \in Seq(Entry) /\ pos \in 1 .. Len(epoch) + 1 /\ Len(epoch) \in Nat
    <3>1. epoch \in Seq(Entry) /\ pos \in 1 .. Len(epoch) + 1
      BY <1>2 DEF TypeOK
    <3>2. Len(epoch) \in Nat
      BY <3>1
    <3> QED
      BY <3>1, <3>2
  <2>2. /\ log \in Seq(Execution) /\ Chronological /\ pos - 1 <= Len(log)
        /\ (\A n \in 1 .. Len(log) - (pos - 1) : log[n].step < t)
        /\ (\A n \in 1 .. pos - 1 : log[Len(log) - (pos - 1) + n] = Executed(epoch[n], t))
    BY <1>1 DEF IInv, LogInv
  <2>3. Len(log) \in Nat /\ \A n \in 1 .. Len(log) : log[n] \in Execution
    <3> HIDE DEF Execution
    <3> QED
      BY <2>2
  <2>4. ASSUME NEW n \in 1 .. Len(log) PROVE log[n].step < t + 1
    <3>1. log[n].step \in Nat
      BY <2>3 DEF Execution
    <3>2. CASE n \in 1 .. Len(log) - (pos - 1)
      BY <1>3, <2>2, <3>1, <3>2
    <3>3. CASE n \notin 1 .. Len(log) - (pos - 1)
      <4> DEFINE q == n - (Len(log) - (pos - 1))
      <4>1. q \in 1 .. pos - 1 /\ q \in 1 .. Len(epoch) /\ n = Len(log) - (pos - 1) + q
        BY <2>1, <2>2, <2>3, <3>3
      <4> HIDE DEF q
      <4>2. log[n] = Executed(epoch[q], t) /\ epoch[q] \in Entry
        BY <2>1, <2>2, <4>1
      <4>3. log[n].step = t
        BY <1>3, <4>2, ExecutionParts
      <4> QED
        BY <1>3, <4>3
    <3> QED
      BY <3>2, <3>3
  <2>5. Chronological'
    BY <1>1, <2>2 DEF Chronological
  <2> HIDE DEF t
  <2> QED
    BY <1>1, <1>3, <2>2, <2>4, <2>5 DEF LogInv
<1>8. DoneInv'
  <2> SUFFICES ASSUME NEW i \in Scheduled, i.id \in before, NEW k \in TimeStep(start) .. t + 1 - 1
               PROVE  ExecutedOnce(i, k)'
    BY <1>1, <1>3, <1>4 DEF DoneInv
  <2>1. ExecutedOnce(i, k)' <=> ExecutedOnce(i, k)
    BY <1>1 DEF ExecutedOnce, Those
  <2>2. TimeStep(start) \in Nat
    BY <1>2, DateParts
  <2>3. CASE k = t
    BY <1>1, <2>1, <2>3, StepExecuted
  <2>4. CASE k # t
    <3>1. k \in TimeStep(start) .. t - 1
      <4> HIDE DEF t
      <4> QED
        BY <1>3, <2>2, <2>4
    <3> QED
      BY <2>1, <3>1 DEF IInv, DoneInv
  <2> QED
    BY <2>3, <2>4
<1> QED
  BY <1>4, <1>5, <1>6, <1>7, <1>8 DEF IInv

-----------------------------------------------------------------------------
(* The theorems *)

LEMMA Inductive ==
  ASSUME ExactDates, IInv, [Next]_vars
  PROVE  IInv'
<1>1. CASE Schedule
  BY <1>1, ScheduleStep
<1>2. CASE AddTask \/ RemoveTask
  BY <1>2, EditStep
<1>3. CASE Run
  BY <1>3, RunStarts
<1>4. CASE SetCurrentDate
  BY <1>4, DateIsSet
<1>5. CASE BuildEpoch
  BY <1>5, EpochIsBuilt
<1>6. CASE EndRun
  BY <1>6, RunStops
<1>7. CASE BeginJob \/ RunTask
  BY <1>7, TasksStep
<1>8. CASE EndJob
  BY <1>8, JobEnds
<1>9. CASE EndStep
  BY <1>9, StepEnds
<1>10. CASE UNCHANGED vars
  <2>1. /\ UNCHANGED <<unique, recurring, limited, tasks, stage, date, time, end, epoch, pos>>
        /\ UNCHANGED <<pending, calls, start, before, known, log, stayed, ran>>
    BY <1>10 DEF vars, scheduler, runtime, history
  <2>2. Scheduled' = Scheduled /\ IdsInv' /\ KindsInv' /\ OrderInv'
    BY <2>1, SameSchedule
  <2>3. TypeOK' /\ TimesInv' /\ KnownInv' /\ TasksInv'
    BY <2>1, <2>2 DEF IInv, TypeOK, TimesInv, KnownInv, TasksInv
  <2>4. EpochInv'
    BY <2>1, SameEpoch DEF IInv, EpochInv
  <2>5. LogInv'
    BY <2>1 DEF IInv, LogInv, Chronological
  <2>6. DoneInv'
    BY <2>1, SameLog
  <2> QED
    BY <2>2, <2>3, <2>4, <2>5, <2>6 DEF IInv
<1> QED
  BY <1>1, <1>2, <1>3, <1>4, <1>5, <1>6, <1>7, <1>8, <1>9, <1>10 DEF Next, RunStep

\* As long as the dates that run() reaches are exact, every step keeps the invariant.
THEOREM Invariant == ASSUME ExactDates PROVE Spec => []IInv
<1>1. Init => IInv
  BY InitInv
<1>2. IInv /\ [Next]_vars => IInv'
  BY Inductive
<1> QED
  BY <1>1, <1>2, PTL DEF Spec

\* The variables of the runtime keep their types: the iteration over an epoch stays
\* in it, and every job of an epoch is one that was scheduled (Runtime::execute).
THEOREM TypeCorrect == ASSUME ExactDates PROVE Spec => []TypeOK
<1>1. IInv => TypeOK
  BY DEF IInv
<1> QED
  BY <1>1, Invariant, PTL

LEMMA EpochIsScheduled ==
  ASSUME IInv
  PROVE  EpochIsSchedule
<1> SUFFICES ASSUME stage \in {"jobs", "tasks"} PROVE EpochIsSchedule
  BY DEF EpochIsSchedule
<1>1. EpochOf(epoch, DueItems) /\ IdsInv /\ Scheduled \subseteq Item
  BY TypesOfLists DEF IInv, EpochInv
<1>2. epoch \in Seq(Entry) /\ Sorted(epoch) /\ Len(epoch) \in Nat
  <2>1. epoch \in Seq(Entry) /\ Sorted(epoch)
    BY <1>1 DEF EpochOf
  <2> QED
    BY <2>1
<1>3. ASSUME NEW i \in Scheduled
      PROVE  Block(epoch, IF i.id \in known /\ Due(i, TimeStep(time)) THEN Entries(i) ELSE <<>>,
                   Of(i.id))
  <2>1. \A n \in 1 .. Len(epoch) : epoch[n] \in Range(epoch)
    BY <1>2 DEF Range
  <2>2. \A n \in 1 .. Len(epoch) : epoch[n] \notin Of(i.id) <=> epoch[n].id # i.id
    BY <2>1 DEF Of
  <2>3. CASE i \in DueItems
    <3>1. Len(Entries(i)) = Len(i.jobs)
      BY <1>1, EntriesParts
    <3>2. Placed(epoch, i)
      BY <1>1, <2>3 DEF EpochOf
    <3>3. Block(epoch, Entries(i), Of(i.id))
      BY <2>2, <3>1, <3>2 DEF Placed, Block
    <3> QED
      BY <2>3, <3>3 DEF DueItems
  <2>4. CASE i \notin DueItems
    <3>1. \A j \in DueItems : j.id # i.id
      BY <1>1, <2>4 DEF IdsInv, DueItems
    <3>2. \A n \in 1 .. Len(epoch) : epoch[n].id # i.id
      BY <1>1, <3>1 DEF EpochOf
    <3>3. Len(<<>>) = 0 /\ 0 \in 0 .. Len(epoch) - 0 /\ \A n \in 1 .. Len(epoch) : n \notin 0 + 1 .. 0 + 0
      BY <1>2
    <3>4. Block(epoch, <<>>, Of(i.id))
      BY <2>2, <3>2, <3>3 DEF Block
    <3> QED
      BY <2>4, <3>4 DEF DueItems
  <2> QED
    BY <2>3, <2>4
<1> QED
  BY <1>2, <1>3 DEF EpochIsSchedule, Sorted

\* The epoch of each step is what the documentation of schedule() says of it: the
\* lists with an occurrence in the step, each once and in one piece, in the order of
\* the sub steps (Scheduler::build, Epoch::submit).
THEOREM EpochIsScheduleHolds == ASSUME ExactDates PROVE Spec => []EpochIsSchedule
<1>1. IInv => EpochIsSchedule
  BY EpochIsScheduled
<1> QED
  BY <1>1, Invariant, PTL

\* A run executes jobs in the order of their dates, and lists of an epoch with the
\* same date, kind and start step in the order of the calls of schedule().
THEOREM ExecutionOrderHolds == ASSUME ExactDates PROVE Spec => []ExecutionOrder
<1>1. IInv => ExecutionOrder
  BY DEF IInv, LogInv, Chronological, OrderInv, Ordered, Lists, ExecutionOrder
<1> QED
  BY <1>1, Invariant, PTL

LEMMA RunIsComplete ==
  ASSUME IInv
  PROVE  RunComplete
<1> SUFFICES ASSUME stage \in {"step", "idle"}, NEW i \in Scheduled, i.id \in before,
                    NEW k \in TimeStep(start) .. TimeStep(time)
             PROVE  Block(log, IF k < TimeStep(time) /\ Due(i, k) THEN Executions(i, k) ELSE <<>>,
                          Those(log, k, i.id))
  BY DEF RunComplete, Those
<1>1. time \in Nat /\ start \in Nat /\ log \in Seq(Execution)
      /\ \A n \in 1 .. Len(log) : log[n].step < TimeStep(time)
  BY DEF IInv, TypeOK, TimesInv, LogInv
<1>2. TimeStep(time) \in Nat /\ TimeStep(start) \in Nat
  BY <1>1, DateParts
<1>3. CASE k < TimeStep(time)
  <2>1. k \in TimeStep(start) .. TimeStep(time) - 1
    BY <1>2, <1>3
  <2>2. ExecutedOnce(i, k)
    BY <2>1 DEF IInv, DoneInv
  <2> QED
    BY <1>3, <2>2 DEF ExecutedOnce
<1>4. CASE ~(k < TimeStep(time))
  <2>1. k = TimeStep(time)
    BY <1>2, <1>4
  <2>2. Len(log) \in Nat /\ \A n \in 1 .. Len(log) : log[n] \in Execution
    <3> HIDE DEF Execution
    <3> QED
      BY <1>1
  <2>3. ASSUME NEW n \in 1 .. Len(log) PROVE log[n].step # k
    <3>1. log[n].step \in Nat /\ log[n].step < k
      BY <1>1, <2>1, <2>2 DEF Execution
    <3> QED
      BY <3>1
  <2>4. Len(<<>>) = 0 /\ 0 \in 0 .. Len(log) - 0 /\ \A n \in 1 .. Len(log) : n \notin 0 + 1 .. 0 + 0
    BY <2>2
  <2>5. Once(log, <<>>, k, i.id)
    BY <2>3, <2>4 DEF Once
  <2>6. Block(log, <<>>, Those(log, k, i.id))
    BY <1>1, <2>5, OnceParts
  <2> QED
    BY <1>4, <2>6
<1> QED
  BY <1>3, <1>4

\* A run misses and repeats nothing: what was scheduled before it started is executed
\* once for each occurrence in the steps of the run, whatever is scheduled, edited or
\* set while it runs (Runtime::run).
THEOREM RunCompleteHolds == ASSUME ExactDates PROVE Spec => []RunComplete
<1>1. IInv => RunComplete
  BY RunIsComplete
<1> QED
  BY <1>1, Invariant, PTL

\* Every task that stays in a job while the job is executed runs, whatever the tasks
\* add or remove; dates do not matter (Runtime::execute copies the tasks).
THEOREM TasksAllRunHolds == Spec => TasksAllRun
<1> DEFINE A == stage = "tasks" /\ stage' = "jobs" => stayed \subseteq ran
<1>1. Init => TasksInv
  BY DEF Init, TasksInv
<1>2. ASSUME TasksInv, [Next]_vars PROVE TasksInv'
  <2>1. CASE BeginJob
    BY <2>1 DEF BeginJob, TasksInv
  <2>2. CASE RunTask
    BY <1>2, <2>2 DEF RunTask, TasksInv
  <2>3. CASE RemoveTask
    BY <1>2, <2>3 DEF RemoveTask, TasksInv, runtime
  <2>4. CASE Schedule \/ AddTask \/ SetCurrentDate \/ UNCHANGED vars
    BY <1>2, <2>4 DEF Schedule, AddTask, SetCurrentDate, CallOfRuntime, TasksInv, vars, runtime, history
  <2>5. CASE Run \/ BuildEpoch \/ EndRun \/ EndJob \/ EndStep
    BY <2>5 DEF Run, BuildEpoch, EndRun, EndJob, EndStep, TasksInv
  <2> QED
    BY <1>2, <2>1, <2>2, <2>3, <2>4, <2>5 DEF Next, RunStep
<1>3. ASSUME TasksInv, [Next]_vars PROVE A
  <2> SUFFICES ASSUME stage = "tasks", stage' = "jobs" PROVE stayed \subseteq ran
    OBVIOUS
  <2>1. EndJob
    BY <1>3 DEF Next, RunStep, Schedule, AddTask, RemoveTask, SetCurrentDate, Run, BuildEpoch, EndRun,
                BeginJob, RunTask, EndStep, vars, runtime
  <2> QED
    BY <1>3, <2>1 DEF EndJob, TasksInv
<1>4. TasksInv /\ [Next]_vars => [A]_vars
  BY <1>3
<1> QED
  BY <1>1, <1>2, <1>4, PTL DEF Spec, TasksAllRun
=============================================================================
