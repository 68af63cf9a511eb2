---------------------------- MODULE SchedProofs ----------------------------
(***************************************************************************)
(* Proofs about Sched, for any number of processes and CPUs.  The lemmas   *)
(* about queues and aging come first, then type correctness, what follows  *)
(* from the types, work on CPUs that do not run, and the place of each     *)
(* process.                                                                *)
(***************************************************************************)
EXTENDS Sched, SequenceTheorems, FiniteSetTheorems, TLAPS

Fields == [Proc -> MlfqFields]
Scan == [q : Queues, m : Fields]

-----------------------------------------------------------------------------
(* Queues.                                                                 *)

(* Every entry but the first one is an entry of the tail.                  *)
LEMMA TailEntry ==
  ASSUME NEW S, NEW s \in Seq(S), NEW i \in 1 .. Len(s), i # 1
  PROVE  i - 1 \in DOMAIN Tail(s) /\ Tail(s)[i - 1] = s[i]
OBVIOUS

(* Where an entry of a tail, and of a sequence with a new head, was before.*)
LEMMA TailWas ==
  ASSUME NEW S, NEW s \in Seq(S), s # <<>>, NEW i \in DOMAIN Tail(s)
  PROVE  i + 1 \in DOMAIN s /\ Tail(s)[i] = s[i + 1]
OBVIOUS

(* The entries of a sequence with a new head.                              *)
LEMMA ConsWas ==
  ASSUME NEW S, NEW s \in Seq(S), NEW e \in S, NEW i \in DOMAIN (<<e>> \o s)
  PROVE  \/ i = 1 /\ (<<e>> \o s)[i] = e
         \/ i - 1 \in DOMAIN s /\ (<<e>> \o s)[i] = s[i - 1]
OBVIOUS

(* An entry behind the i-th is an entry of the suffix that starts there.   *)
LEMMA SuffixEntry ==
  ASSUME NEW S, NEW s \in Seq(S), NEW i \in 1 .. Len(s), NEW j \in i + 1 .. Len(s)
  PROVE  /\ SubSeq(s, i + 1, Len(s)) \in Seq(S)
         /\ j - i \in 1 .. Len(SubSeq(s, i + 1, Len(s)))
         /\ SubSeq(s, i + 1, Len(s))[j - i] = s[j]
<1> DEFINE a == i + 1
           n == Len(s)
           t == SubSeq(s, a, n)
<1>1. a \in Int /\ n \in Int /\ n \in Nat /\ \A k \in a .. n : s[k] \in S
  OBVIOUS
<1> HIDE DEF a, n
<1>2. /\ t \in Seq(S)
      /\ Len(t) = IF a <= n THEN n - a + 1 ELSE 0
      /\ \A k \in 1 .. n - a + 1 : t[k] = s[a + k - 1]
  BY <1>1, SubSeqProperties
<1> HIDE DEF t
<1>3. j - i \in 1 .. n - a + 1 /\ a + (j - i) - 1 = j /\ a <= n
  BY <1>1 DEF a, n
<1> QED BY <1>2, <1>3 DEF t, a, n

(* p stands in the queues iff it is some entry of some level.              *)
LEMMA ContainsEntry ==
  ASSUME NEW q \in Queues, NEW p
  PROVE  Contains(q, p) <=> \E l \in Level : \E i \in 1 .. Len(q[l]) : q[l][i] = p
<1>1. \A l \in Level : DOMAIN q[l] = 1 .. Len(q[l])
  BY DEF Queues
<1> QED BY <1>1 DEF Contains, Range

(* Replacing one level by a sequence of processes gives queues again.      *)
LEMMA SetLevel ==
  ASSUME NEW q \in Queues, NEW k \in Level, NEW s \in Seq(Proc)
  PROVE  /\ [q EXCEPT ![k] = s] \in Queues
         /\ [q EXCEPT ![k] = s][k] = s
         /\ \A l \in Level : l # k => [q EXCEPT ![k] = s][l] = q[l]
BY DEF Queues

(* Pushing at either end of a level adds one process and keeps the others. *)
LEMMA PushKeeps ==
  ASSUME NEW q \in Queues, NEW k \in Level, NEW e \in Proc,
         NEW s \in {Append(q[k], e), <<e>> \o q[k]}
  PROVE  /\ [q EXCEPT ![k] = s] \in Queues
         /\ \A l \in Level : Len([q EXCEPT ![k] = s][l]) >= Len(q[l])
         /\ Contains([q EXCEPT ![k] = s], e)
         /\ \A p : Contains(q, p) => Contains([q EXCEPT ![k] = s], p)
<1> DEFINE g == [q EXCEPT ![k] = s]
<1>1. q[k] \in Seq(Proc) /\ s \in Seq(Proc) /\ Len(s) = Len(q[k]) + 1
  <2>1. q[k] \in Seq(Proc)
    BY DEF Queues
  <2>2. CASE s = Append(q[k], e)
    BY <2>1, <2>2
  <2>3. CASE s = <<e>> \o q[k]
    BY <2>1, <2>3
  <2> QED BY <2>1, <2>2, <2>3
<1>2. /\ g \in Queues /\ g[k] = s
      /\ \A l \in Level : l # k => g[l] = q[l]
  BY <1>1, SetLevel
<1> HIDE DEF g
<1>3. \E i \in 1 .. Len(s) : s[i] = e
  <2>1. CASE s = Append(q[k], e)
    BY <1>1, <2>1
  <2>2. CASE s = <<e>> \o q[k]
    BY <1>1, <2>2
  <2> QED BY <2>1, <2>2
<1>4. \A i \in 1 .. Len(q[k]) : \E j \in 1 .. Len(s) : s[j] = q[k][i]
  <2>1. CASE s = Append(q[k], e)
    BY <1>1, <2>1
  <2>2. CASE s = <<e>> \o q[k]
    <3>1. \A i \in 1 .. Len(q[k]) : i + 1 \in 1 .. Len(s) /\ s[i + 1] = q[k][i]
      BY <1>1, <2>2
    <3> QED BY <3>1
  <2> QED BY <2>1, <2>2
<1>5. \A l \in Level : Len(g[l]) >= Len(q[l])
  <2>1. \A l \in Level : Len(q[l]) \in Nat
    BY DEF Queues
  <2> QED BY <1>1, <1>2, <2>1
<1>6. Contains(g, e)
  BY <1>2, <1>3, ContainsEntry
<1>7. ASSUME NEW p, Contains(q, p)
      PROVE  Contains(g, p)
  <2>1. PICK l \in Level : \E i \in 1 .. Len(q[l]) : q[l][i] = p
    BY <1>7, ContainsEntry
  <2>2. \E i \in 1 .. Len(g[l]) : g[l][i] = p
    BY <1>2, <1>4, <2>1
  <2> QED BY <1>2, <2>2, ContainsEntry
<1> QED BY <1>2, <1>5, <1>6, <1>7 DEF g

(* Popping the head loses at most the head.                                *)
LEMMA PopHeadKeeps ==
  ASSUME NEW q \in Queues, NEW k \in Level, q[k] # <<>>
  PROVE  /\ [q EXCEPT ![k] = Tail(@)] \in Queues
         /\ Len([q EXCEPT ![k] = Tail(@)][k]) = Len(q[k]) - 1
         /\ Head(q[k]) \in Proc
         /\ \A p : Contains(q, p) /\ p # Head(q[k])
                     => Contains([q EXCEPT ![k] = Tail(@)], p)
<1> DEFINE g == [q EXCEPT ![k] = Tail(@)]
<1>1. /\ q[k] \in Seq(Proc) /\ Tail(q[k]) \in Seq(Proc) /\ Head(q[k]) \in Proc
      /\ Len(Tail(q[k])) = Len(q[k]) - 1
  BY DEF Queues
<1>2. /\ g \in Queues /\ g[k] = Tail(q[k])
      /\ \A l \in Level : l # k => g[l] = q[l]
  BY <1>1 DEF Queues
<1> HIDE DEF g
<1>3. ASSUME NEW p, Contains(q, p), p # Head(q[k])
      PROVE  Contains(g, p)
  <2>1. PICK l \in Level : \E i \in 1 .. Len(q[l]) : q[l][i] = p
    BY <1>3, ContainsEntry
  <2>a. PICK i \in 1 .. Len(q[l]) : q[l][i] = p
    BY <2>1
  <2>2. CASE l # k
    BY <1>2, <2>1, <2>2, ContainsEntry
  <2>3. CASE l = k
    <3>1. i # 1 /\ i - 1 \in 1 .. Len(g[k]) /\ g[k][i - 1] = p
      BY <1>1, <1>2, <1>3, <2>a, <2>3
    <3> QED BY <1>2, <3>1, ContainsEntry
  <2> QED BY <2>2, <2>3
<1> QED BY <1>1, <1>2, <1>3 DEF g

-----------------------------------------------------------------------------
(* Slices and aging.                                                       *)

(* A refill yields a natural number.                                       *)
LEMMA RefillType ==
  ASSUME NEW t \in Nat, NEW l \in Level, NEW r \in BOOLEAN
  PROVE  Refill(t, l, r) \subseteq Nat
<1>1. CASE l = 2
  BY <1>1, MlfqAssumption, Zenon DEF Quanta, Refill
<1>2. CASE l # 2
  <2>1. l \in 0 .. 1 /\ BaseQuantum[l] \in Nat
    BY <1>2, MlfqAssumption DEF Level
  <2> QED BY <1>2, <2>1, Zenon DEF Quanta, Refill
<1> QED BY <1>1, <1>2

(* What one step of the aging loop keeps: the types, all but one entry of  *)
(* the level it works on, and every RUNNABLE process that was queued.      *)
LEMMA AgeOneKeeps ==
  ASSUME NEW s \in Scan, NEW states, NEW l \in {1, 2}, s.q[l] # <<>>
  PROVE  /\ AgeOne(s, states, l) \in Scan
         /\ Len(AgeOne(s, states, l).q[l]) >= Len(s.q[l]) - 1
         /\ \A p \in Proc : states[p] = "RUNNABLE" /\ Contains(s.q, p)
                              => Contains(AgeOne(s, states, l).q, p)
<1> DEFINE p    == Head(s.q[l])
           rest == [s.q EXCEPT ![l] = Tail(@)]
<1>1. /\ s.q \in Queues /\ s.m \in Fields
      /\ l \in Level /\ l - 1 \in Level
  BY DEF Scan, Level
<1>2. /\ rest \in Queues /\ p \in Proc
      /\ rest[l] = Tail(s.q[l])
      /\ Len(rest[l]) = Len(s.q[l]) - 1
      /\ Len(s.q[l]) \in Nat /\ Len(rest[l]) \in Nat
      /\ \A x : Contains(s.q, x) /\ x # p => Contains(rest, x)
  <2>1. /\ rest \in Queues /\ p \in Proc
        /\ Len(rest[l]) = Len(s.q[l]) - 1
        /\ \A x : Contains(s.q, x) /\ x # p => Contains(rest, x)
    BY <1>1, PopHeadKeeps
  <2>2. \A q \in Queues : Len(q[l]) \in Nat
    BY <1>1 DEF Queues
  <2>3. rest[l] = Tail(s.q[l])
    BY <1>1 DEF Queues
  <2> QED BY <1>1, <2>1, <2>2, <2>3
<1>3. ASSUME NEW k \in Level
      PROVE  LET g == [rest EXCEPT ![k] = Append(@, p)]
             IN  /\ g \in Queues
                 /\ Len(g[l]) >= Len(s.q[l]) - 1
                 /\ \A x \in Proc : Contains(s.q, x) => Contains(g, x)
  <2> HIDE DEF rest, p
  <2> DEFINE g == [rest EXCEPT ![k] = Append(@, p)]
  <2>1. /\ g \in Queues /\ Contains(g, p)
        /\ Len(g[l]) >= Len(rest[l])
        /\ \A x : Contains(rest, x) => Contains(g, x)
    BY <1>1, <1>2, PushKeeps
  <2>2. Len(g[l]) \in Nat
    BY <1>1, <2>1 DEF Queues
  <2> HIDE DEF g
  <2>3. Len(g[l]) >= Len(s.q[l]) - 1
    BY <1>2, <2>1, <2>2
  <2>4. \A x \in Proc : Contains(s.q, x) => Contains(g, x)
    BY <1>2, <2>1
  <2> QED BY <2>1, <2>3, <2>4 DEF g
<1>4. CASE states[p] # "RUNNABLE"
  <2> DEFINE f == [s.m EXCEPT ![p].inq = FALSE]
  <2>1. AgeOne(s, states, l) = [q |-> rest, m |-> f]
    BY <1>4, Zenon DEF AgeOne, DropHead
  <2>2. f \in Fields
    BY <1>1, <1>2 DEF Fields, MlfqFields
  <2>3. \A x \in Proc : states[x] = "RUNNABLE" /\ Contains(s.q, x)
                          => Contains(rest, x)
    <3> HIDE DEF rest
    <3> QED BY <1>2, <1>4
  <2>4. rest \in Queues /\ Len(rest[l]) >= Len(s.q[l]) - 1
    <3> HIDE DEF rest
    <3> QED BY <1>2
  <2> HIDE DEF rest, f
  <2> QED BY <2>1, <2>2, <2>3, <2>4 DEF Scan
<1>5. CASE states[p] = "RUNNABLE" /\ s.m[p].age >= AgingThreshold
  <2> DEFINE g == [rest EXCEPT ![l - 1] = Append(@, p)]
             f == [s.m EXCEPT ![p] = Promoted(@, l)]
  <2>1. AgeOne(s, states, l) = [q |-> g, m |-> f]
    BY <1>5, Zenon DEF AgeOne, PromoteHead
  <2>2. Promoted(s.m[p], l) \in MlfqFields
    <3>1. s.m[p] \in MlfqFields /\ BaseQuantum[l - 1] \in Nat
          /\ 0 \in 0 .. AgingThreshold
      BY <1>1, <1>2, MlfqAssumption DEF Fields
    <3> QED BY <1>1, <3>1 DEF Promoted, MlfqFields
  <2>3. f \in Fields
    BY <1>1, <1>2, <2>2 DEF Fields
  <2>4. /\ g \in Queues
        /\ Len(g[l]) >= Len(s.q[l]) - 1
        /\ \A x \in Proc : Contains(s.q, x) => Contains(g, x)
    BY <1>1, <1>3, Zenon
  <2> HIDE DEF f, g
  <2> QED BY <2>1, <2>3, <2>4 DEF Scan
<1>6. CASE states[p] = "RUNNABLE" /\ ~(s.m[p].age >= AgingThreshold)
  <2> DEFINE g == [rest EXCEPT ![l] = Append(@, p)]
  <2>1. g = [s.q EXCEPT ![l] = Append(Tail(@), Head(@))]
    BY <1>1 DEF Queues
  <2>2. AgeOne(s, states, l) = [q |-> g, m |-> s.m]
    <3> HIDE DEF g
    <3> QED BY <1>6, <2>1, Zenon DEF AgeOne, RotateHead
  <2>3. /\ g \in Queues
        /\ Len(g[l]) >= Len(s.q[l]) - 1
        /\ \A x \in Proc : Contains(s.q, x) => Contains(g, x)
    BY <1>1, <1>3, Zenon
  <2> HIDE DEF g
  <2> QED BY <1>1, <2>2, <2>3 DEF Scan
<1> QED BY <1>4, <1>5, <1>6

(* A whole aging scan of a level, and of both levels, keeps the types and  *)
(* every RUNNABLE process that was queued.                                 *)
LEMMA AgeLevelKeeps ==
  ASSUME NEW s \in Scan, NEW states, NEW l \in {1, 2}
  PROVE  /\ AgeLevel(s, states, l) \in Scan
         /\ \A p \in Proc : states[p] = "RUNNABLE" /\ Contains(s.q, p)
                              => Contains(AgeLevel(s, states, l).q, p)
<1> DEFINE n == Len(s.q[l])
           Step(t, i) == IF i <= n THEN AgeOne(t, states, l) ELSE t
           Good(t, i) ==
             /\ t \in Scan
             /\ Len(t.q[l]) >= n - i
             /\ \A p \in Proc : states[p] = "RUNNABLE" /\ Contains(s.q, p)
                                  => Contains(t.q, p)
<1>1. \A t \in Scan : t.q[l] \in Seq(Proc)
  BY DEF Scan, Queues, Level
<1>2. ASSUME NEW t, NEW i \in Nat, Good(t, i)
      PROVE  Good(Step(t, i + 1), i + 1)
  <2>1. CASE i + 1 <= n
    <3>1. n \in Nat /\ Len(t.q[l]) \in Nat /\ t \in Scan /\ t.q[l] # <<>>
      BY <1>1, <1>2, <2>1
    <3>2. /\ AgeOne(t, states, l) \in Scan
          /\ Len(AgeOne(t, states, l).q[l]) >= Len(t.q[l]) - 1
          /\ \A p \in Proc : states[p] = "RUNNABLE" /\ Contains(t.q, p)
                               => Contains(AgeOne(t, states, l).q, p)
      BY <3>1, AgeOneKeeps
    <3>3. Len(AgeOne(t, states, l).q[l]) \in Nat
      BY <1>1, <3>2
    <3>4. Step(t, i + 1) = AgeOne(t, states, l)
      BY <2>1
    <3>5. Len(AgeOne(t, states, l).q[l]) >= n - (i + 1)
      <4> HIDE DEF n
      <4> QED BY <1>2, <3>1, <3>2, <3>3
    <3>6. \A p \in Proc : states[p] = "RUNNABLE" /\ Contains(s.q, p)
                            => Contains(AgeOne(t, states, l).q, p)
      BY <1>2, <3>2
    <3> HIDE DEF Step
    <3> QED BY <3>2, <3>4, <3>5, <3>6
  <2>2. CASE ~(i + 1 <= n)
    BY <1>1, <1>2, <2>2
  <2> QED BY <2>1, <2>2
<1>3. Good(s, 0)
  BY <1>1
<1> HIDE DEF Good
<1>4. Good(Step(s, 1), 1)
  BY <1>2, <1>3
<1>5. Good(Step(Step(s, 1), 2), 2)
  BY <1>2, <1>4
<1>6. Good(Step(Step(Step(s, 1), 2), 3), 3)
  BY <1>2, <1>5
<1>7. Good(Step(Step(Step(Step(s, 1), 2), 3), 4), 4)
  BY <1>2, <1>6
<1>8. AgeLevel(s, states, l) = Step(Step(Step(Step(s, 1), 2), 3), 4)
  BY DEF AgeLevel, AgingBudget
<1> QED BY <1>7, <1>8 DEF Good

(* The scan of both levels, mlfq_age_tick.                                 *)
LEMMA AgeTickKeeps ==
  ASSUME NEW s \in Scan, NEW states
  PROVE  /\ AgeTick(s, states) \in Scan
         /\ \A p \in Proc : states[p] = "RUNNABLE" /\ Contains(s.q, p)
                              => Contains(AgeTick(s, states).q, p)
BY AgeLevelKeeps DEF AgeTick

-----------------------------------------------------------------------------
(* Type correctness.  The invariant adds that a CPU which has picked or    *)
(* runs something names a process.                                         *)

Named == \A c \in CPU : ctx[c] \in {"picked"} \cup OnStack => at[c] \in Proc

TypeInv == TypeOK /\ Named

(* What enqueueing p keeps and brings about, whoever calls it.             *)
LEMMA EnqueueFacts ==
  ASSUME TypeInv, NEW c \in CPU, NEW p \in Proc, NEW f \in MlfqFields, NEW s,
         NEW level \in Level, NEW reset \in BOOLEAN, NEW front \in BOOLEAN,
         Enqueue(c, p, f, s, level, reset, front)
  PROVE  /\ m' \in Fields /\ rq' \in [CPU -> Queues]
         /\ \A x : Queued(x) => Queued(x)'
         /\ s = "RUNNABLE" => Contains(rq'[c], p)
<1>1. m \in Fields /\ rq \in [CPU -> Queues] /\ rq[c] \in Queues
  BY DEF TypeInv, TypeOK, Fields
<1>2. CASE EnqueueSkips(c, p, f, s)
  <2>1. [f EXCEPT !.inq = f.inq /\ Contains(rq[c], p)] \in MlfqFields
    <3> DEFINE b == f.inq /\ Contains(rq[c], p)
    <3>1. b \in BOOLEAN
      OBVIOUS
    <3> HIDE DEF b
    <3> QED BY <3>1 DEF MlfqFields
  <2>2. m' \in Fields /\ rq' = rq
    BY <1>1, <1>2, <2>1 DEF EnqueueSkips, Fields
  <2>3. s = "RUNNABLE" => Contains(rq[c], p)
    BY <1>2 DEF EnqueueSkips
  <2> QED BY <1>1, <2>2, <2>3 DEF Queued
<1>3. CASE EnqueuePushes(c, p, f, s, level, reset, front)
  <2>1. PICK t \in Refill(f.ticks, level, reset) :
          m' = [m EXCEPT ![p] = [f EXCEPT !.level = level, !.ticks = t,
                                          !.inq = TRUE, !.cpu = c, !.age = 0]]
    BY <1>3 DEF EnqueuePushes
  <2>2. t \in Nat /\ 0 \in 0 .. AgingThreshold
    BY RefillType, MlfqAssumption DEF MlfqFields
  <2>3. [f EXCEPT !.level = level, !.ticks = t, !.inq = TRUE, !.cpu = c,
                  !.age = 0] \in MlfqFields
    BY <2>2 DEF MlfqFields
  <2>4. m' \in Fields
    BY <1>1, <2>1, <2>3 DEF Fields
  <2> DEFINE new == IF front THEN <<p>> \o rq[c][level]
                    ELSE Append(rq[c][level], p)
             g   == [rq[c] EXCEPT ![level] = new]
  <2>5. g \in Queues /\ Contains(g, p) /\ \A x : Contains(rq[c], x) => Contains(g, x)
    <3>1. new \in {Append(rq[c][level], p), <<p>> \o rq[c][level]}
      BY Zenon
    <3> HIDE DEF new
    <3> QED BY <1>1, <3>1, PushKeeps
  <2>6. rq' = [rq EXCEPT ![c] = g]
    BY <1>1, <1>3 DEF EnqueuePushes
  <2> HIDE DEF g
  <2>7. rq' \in [CPU -> Queues] /\ rq'[c] = g
        /\ \A d \in CPU : d # c => rq'[d] = rq[d]
    BY <1>1, <2>5, <2>6
  <2>8. \A x : Queued(x) => Queued(x)'
    BY <2>5, <2>7 DEF Queued
  <2>9. Contains(rq'[c], p)
    BY <2>5, <2>7
  <2> QED BY <2>4, <2>7, <2>8, <2>9
<1> QED BY <1>2, <1>3 DEF Enqueue

(* What the two callers of Enqueue keep and bring about.                   *)
LEMMA YieldFacts ==
  ASSUME TypeInv, NEW c \in CPU, Yield(c)
  PROVE  /\ m' \in Fields /\ rq' \in [CPU -> Queues]
         /\ \A x : Queued(x) => Queued(x)'
         /\ \E x \in CPU : Contains(rq'[x], at[c])
<1> DEFINE p == at[c]
           f == [m[p] EXCEPT !.inq = FALSE, !.reason = "NONE", !.age = 0]
<1>1. p \in Proc /\ m[p] \in MlfqFields
  BY DEF Yield, InProcess, OnStack, Alive, TypeInv, TypeOK, Named
<1>2. f \in MlfqFields
  <2>1. 0 \in 0 .. AgingThreshold
    BY MlfqAssumption
  <2> QED BY <1>1, <2>1 DEF MlfqFields, YieldReason
<1>3. PICK reason \in Reasons(p) :
        Enqueue(c, p, f, "RUNNABLE", YieldLevel(f.level, reason),
                reason = "EXPIRE", FALSE)
  BY Zenon DEF Yield
<1> HIDE DEF f, p
<1>4. YieldLevel(f.level, reason) \in Level /\ (reason = "EXPIRE") \in BOOLEAN
  <2>1. f.level \in Level
    BY <1>2 DEF MlfqFields
  <2> QED BY <2>1 DEF YieldLevel, Level
<1>5. /\ m' \in Fields /\ rq' \in [CPU -> Queues]
      /\ \A x : Queued(x) => Queued(x)'
      /\ Contains(rq'[c], p)
  BY <1>1, <1>2, <1>3, <1>4, EnqueueFacts
<1> QED BY <1>5 DEF p

(* The end of a wakeup or of a fork keeps the types and whoever is queued, *)
(* and queues its own process.                                             *)
LEMMA PendingFacts ==
  ASSUME TypeInv, NEW c \in CPU, EnqueuePending(c)
  PROVE  /\ m' \in Fields /\ rq' \in [CPU -> Queues]
         /\ \A x : Queued(x) => Queued(x)'
         /\ st[pend[c][1].p] = "RUNNABLE"
              => \E x \in CPU : Contains(rq'[x], pend[c][1].p)
<1> DEFINE e == pend[c][1]
<1>1. pend[c] \in Seq(Pending) /\ pend[c] # <<>> /\ e.to # -1
  BY DEF EnqueuePending, TypeInv, TypeOK
<1>2. e \in Pending
  BY <1>1
<1>3. e.to \in CPU /\ e.p \in Proc /\ (~e.new) \in BOOLEAN /\ 0 \in Level
  <2> HIDE DEF e
  <2>1. e.to \in -1 .. NCPU - 1 /\ e.p \in Proc /\ e.new \in BOOLEAN
    BY <1>2 DEF Pending
  <2>2. e.to \in CPU
    BY <1>1, <2>1, MlfqAssumption DEF CPU
  <2> QED BY <2>1, <2>2 DEF Level
<1>4. Enqueue(e.to, e.p, m[e.p], st[e.p], 0, TRUE, ~e.new)
  BY DEF EnqueuePending
<1>5. m[e.p] \in MlfqFields
  BY <1>3 DEF TypeInv, TypeOK
<1> HIDE DEF e
<1>6. /\ m' \in Fields /\ rq' \in [CPU -> Queues]
      /\ \A x : Queued(x) => Queued(x)'
      /\ st[e.p] = "RUNNABLE" => Contains(rq'[e.to], e.p)
  BY <1>3, <1>4, <1>5, EnqueueFacts
<1> QED BY <1>3, <1>6 DEF e

(* What taking a process of a queue for a CPU keeps.                       *)
LEMMA TakeFacts ==
  ASSUME TypeInv, NEW c \in CPU, NEW p \in Proc, NEW dropped, Take(c, p, dropped)
  PROVE  /\ m' \in Fields
         /\ at' = [at EXCEPT ![c] = p] /\ ctx' = [ctx EXCEPT ![c] = "picked"]
<1>1. m \in Fields /\ m[p] \in MlfqFields
  BY DEF TypeInv, TypeOK, Fields
<1>2. PICK t \in Refill(m[p].ticks, m[p].level, FALSE) :
        m' = [q \in Proc |->
                IF q = p THEN [m[p] EXCEPT !.inq = FALSE, !.ticks = t, !.cpu = c]
                ELSE [m[q] EXCEPT !.inq = @ /\ q \notin dropped]]
  BY DEF Take
<1>3. t \in Nat
  BY <1>1, RefillType DEF MlfqFields
<1>4. [m[p] EXCEPT !.inq = FALSE, !.ticks = t, !.cpu = c] \in MlfqFields
  BY <1>1, <1>3 DEF MlfqFields
<1>5. ASSUME NEW q \in Proc
      PROVE  [m[q] EXCEPT !.inq = m[q].inq /\ q \notin dropped] \in MlfqFields
  <2> DEFINE b == m[q].inq /\ q \notin dropped
  <2>1. b \in BOOLEAN /\ m[q] \in MlfqFields
    BY <1>1 DEF Fields
  <2> HIDE DEF b
  <2> QED BY <2>1 DEF MlfqFields
<1> HIDE DEF Fields
<1> QED BY <1>2, <1>4, <1>5, Zenon DEF Take, Fields

(* Aging the queues of the CPU that ticks keeps everybody's types.         *)
LEMMA AgedFacts ==
  ASSUME TypeInv, NEW c \in CPU
  PROVE  LET aged == AgeTick([q |-> rq[c], m |-> m], st)
         IN  /\ aged \in Scan
             /\ \A p \in Proc : st[p] = "RUNNABLE" /\ Contains(rq[c], p)
                                  => Contains(aged.q, p)
<1>1. [q |-> rq[c], m |-> m] \in Scan
  BY DEF TypeInv, TypeOK, Scan, Fields
<1> QED BY <1>1, AgeTickKeeps

(* The invariant is kept by every step.                                    *)
LEMMA TypeStep == TypeInv /\ [Next]_vars => TypeInv'
<1> SUFFICES ASSUME TypeInv, [Next]_vars PROVE TypeInv'
  OBVIOUS
<1> USE DEF TypeInv, Named, counters
<1>1. ASSUME NEW c \in CPU, Boot(c) PROVE TypeInv'
  BY <1>1 DEF Boot, TypeOK, Context, OnStack, Alive
<1>2. ASSUME NEW c \in CPU, PickLocal(c) PROVE TypeInv'
  <2>1. busy' \in [CPU -> BOOLEAN] /\ st' = st /\ pend' = pend
        /\ kicks' = kicks /\ hits' = hits
    BY <1>2 DEF PickLocal, TypeOK
  <2>2. ASSUME NEW l \in Level, NEW i \in DOMAIN rq[c][l],
               Take(c, rq[c][l][i], Dropped(rq[c], l, i)),
               rq' = [rq EXCEPT ![c] = AfterPick(@, l, i)], todo' = todo
        PROVE  TypeInv'
    <3>1. rq[c][l][i] \in Proc
      BY <2>2 DEF TypeOK, Queues
    <3>2. m' \in Fields /\ at' = [at EXCEPT ![c] = rq[c][l][i]]
          /\ ctx' = [ctx EXCEPT ![c] = "picked"]
      BY <2>2, <3>1, TakeFacts
    <3>3. AfterPick(rq[c], l, i) \in Queues
      <4>1. SubSeq(rq[c][l], i + 1, Len(rq[c][l])) \in Seq(Proc)
        BY <2>2 DEF TypeOK, Queues
      <4>2. ASSUME NEW k \in Level
            PROVE  rq[c][k] \in Seq(Proc) /\ <<>> \in Seq(Proc)
        BY DEF TypeOK, Queues
      <4> QED BY <4>1, <4>2 DEF AfterPick, Queues, Level
    <3>4. rq' \in [CPU -> Queues]
      BY <2>2, <3>3 DEF TypeOK
    <3> QED BY <2>1, <2>2, <3>1, <3>2, <3>4
        DEF TypeOK, Fields, Context, OnStack, Alive
  <2>3. ASSUME m' = [p \in Proc |-> [m[p] EXCEPT !.inq = @ /\ ~Contains(rq[c], p)]],
               rq' = [rq EXCEPT ![c] = EmptyQueues],
               ctx' = [ctx EXCEPT ![c] = "steal"],
               todo' = [todo EXCEPT ![c] = StealVisits(c)], at' = at
        PROVE  TypeInv'
    <3>1. ASSUME NEW p \in Proc
          PROVE  [m[p] EXCEPT !.inq = m[p].inq /\ ~Contains(rq[c], p)] \in MlfqFields
      <4> DEFINE b == m[p].inq /\ ~Contains(rq[c], p)
      <4>1. b \in BOOLEAN /\ m[p] \in MlfqFields
        BY DEF TypeOK
      <4> HIDE DEF b
      <4> QED BY <4>1 DEF MlfqFields
    <3>2. EmptyQueues \in Queues
      BY DEF EmptyQueues, Queues
    <3>3. StealVisits(c) \in Seq(CPU \X {1, 2})
      <4> DEFINE n == NCPU - 1
                 Other(i) == IF i - 1 < c THEN i - 1 ELSE i
                 v(i) == IF i <= n THEN <<Other(i), 2>> ELSE <<Other(i - n), 1>>
      <4>1. c \in Nat /\ n \in Nat /\ 2 * n \in Nat /\ c <= n
        BY MlfqAssumption DEF CPU
      <4>2. \A i \in 1 .. n : Other(i) \in CPU
        BY <4>1, MlfqAssumption DEF CPU
      <4>3. \A i \in 1 .. 2 * n : ~(i <= n) => i - n \in 1 .. n
        BY <4>1
      <4> HIDE DEF n, Other
      <4>4. \A i \in 1 .. 2 * n : v(i) \in CPU \X {1, 2}
        BY <4>1, <4>2, <4>3
      <4>5. StealVisits(c) = [i \in 1 .. 2 * n |-> v(i)]
        BY Zenon DEF StealVisits, n, Other
      <4> HIDE DEF v
      <4> QED BY <4>1, <4>4, <4>5, IsASeq
    <3> QED BY <2>1, <2>3, <3>1, <3>2, <3>3 DEF TypeOK, Context, OnStack, Alive
  <2> QED BY <1>2, <2>2, <2>3 DEF PickLocal
<1>3. ASSUME NEW c \in CPU, Steal(c) PROVE TypeInv'
  <2>1. busy' = busy /\ st' = st /\ pend' = pend
        /\ kicks' = kicks /\ hits' = hits
    BY <1>3 DEF Steal
  <2>2. ASSUME todo[c] # <<>>, StealFrom(c, Head(todo[c])[1], Head(todo[c])[2])
        PROVE  TypeInv'
    <3> DEFINE v == Head(todo[c])[1]
               l == Head(todo[c])[2]
               p == LastOf(rq[v][l])
    <3>1. /\ todo[c] \in Seq(CPU \X {1, 2})
          /\ Head(todo[c]) \in CPU \X {1, 2} /\ Tail(todo[c]) \in Seq(CPU \X {1, 2})
      BY <2>2 DEF TypeOK
    <3>2. v \in CPU /\ l \in Level
      BY <3>1 DEF Level
    <3> HIDE DEF v, l
    <3>3. rq[v] \in Queues /\ rq[v][l] \in Seq(Proc)
      BY <3>2 DEF TypeOK, Queues
    <3>4. ASSUME MaySteal(v, l)
          PROVE  p \in Proc /\ PopTail(rq[v], l) \in Queues
      <4>2. rq[v][l] # <<>>
        <5>1. l = 2 => rq[v][l] # <<>>
          BY <3>4, <3>3 DEF MaySteal
        <5>2. l = 1 => Len(rq[v][l]) > 1
          BY <3>4 DEF MaySteal
        <5>3. l = 1 \/ l = 2
          BY <3>1 DEF l
        <5> QED BY <3>3, <5>1, <5>2, <5>3
      <4>3. p \in Proc
        BY <3>3, <4>2 DEF LastOf
      <4>4. SubSeq(rq[v][l], 1, Len(rq[v][l]) - 1) \in Seq(Proc)
        BY <3>3, <4>2
      <4> QED BY <3>2, <3>3, <4>3, <4>4, SetLevel DEF PopTail
    <3>5. CASE MaySteal(v, l) /\ rq' = [rq EXCEPT ![v] = PopTail(@, l)]
               /\ Take(c, p, {}) /\ todo' = [todo EXCEPT ![c] = <<>>]
      <4>1. m' \in Fields /\ at' = [at EXCEPT ![c] = p]
            /\ ctx' = [ctx EXCEPT ![c] = "picked"]
        BY <3>4, <3>5, TakeFacts
      <4>2. p \in Proc /\ PopTail(rq[v], l) \in Queues
        BY <3>4, <3>5
      <4>3. rq' \in [CPU -> Queues] /\ todo' \in [CPU -> Seq(CPU \X {1, 2})]
        BY <3>2, <3>5, <4>2 DEF TypeOK
      <4> HIDE DEF p
      <4> QED BY <2>1, <4>1, <4>2, <4>3 DEF TypeOK, Fields, Context, OnStack, Alive
    <3>6. CASE MaySteal(v, l) /\ rq' = [rq EXCEPT ![v] = PopTail(@, l)]
               /\ m' = [m EXCEPT ![p].inq = FALSE]
               /\ todo' = [todo EXCEPT ![c] = Tail(@)] /\ ctx' = ctx /\ at' = at
      <4>1. p \in Proc /\ PopTail(rq[v], l) \in Queues
        BY <3>4, <3>6
      <4>2. rq' \in [CPU -> Queues] /\ todo' \in [CPU -> Seq(CPU \X {1, 2})]
        BY <3>1, <3>2, <3>6, <4>1 DEF TypeOK
      <4> HIDE DEF p
      <4>3. [m[p] EXCEPT !.inq = FALSE] \in MlfqFields
        BY <4>1 DEF TypeOK, MlfqFields
      <4>4. m' \in [Proc -> MlfqFields]
        BY <3>6, <4>1, <4>3 DEF TypeOK
      <4> QED BY <2>1, <3>6, <4>2, <4>4 DEF TypeOK
    <3>7. CASE todo' = [todo EXCEPT ![c] = Tail(@)] /\ m' = m /\ rq' = rq
               /\ ctx' = ctx /\ at' = at
      BY <2>1, <3>1, <3>7 DEF TypeOK
    <3> QED BY <2>2, <3>5, <3>6, <3>7 DEF StealFrom, v, l
  <2>3. ASSUME ctx' = [ctx EXCEPT ![c] = "sched"], m' = m, rq' = rq, at' = at,
               todo' = todo
        PROVE  TypeInv'
    BY <2>1, <2>3 DEF TypeOK, Context, OnStack, Alive
  <2> QED BY <1>3, <2>2, <2>3 DEF Steal
<1>4. ASSUME NEW c \in CPU, Dispatch(c) PROVE TypeInv'
  <2>1. at[c] \in Proc /\ 0 \in 0 .. AgingThreshold
    BY <1>4, MlfqAssumption DEF Dispatch
  <2>2. CASE st[at[c]] = "RUNNABLE"
    <3>1. m' = [m EXCEPT ![at[c]] = [m[at[c]] EXCEPT !.cpu = c, !.age = 0]]
      BY <1>4, <2>1, <2>2 DEF Dispatch, TypeOK
    <3>2. m' \in [Proc -> MlfqFields]
      <4>1. [m[at[c]] EXCEPT !.cpu = c, !.age = 0] \in MlfqFields
        BY <2>1 DEF TypeOK, MlfqFields
      <4> QED BY <2>1, <3>1, <4>1 DEF TypeOK
    <3> QED BY <1>4, <2>1, <2>2, <3>2
        DEF Dispatch, TypeOK, State, Context, OnStack, Alive
  <2>3. CASE st[at[c]] # "RUNNABLE"
    BY <1>4, <2>3 DEF Dispatch, TypeOK, Context, OnStack, Alive
  <2> QED BY <2>2, <2>3
<1>5. ASSUME NEW c \in CPU, AgeQueues(c) PROVE TypeInv'
  <2> DEFINE aged == AgeTick([q |-> rq[c], m |-> m], st)
  <2>1. /\ rq' = [rq EXCEPT ![c] = aged.q] /\ m' = aged.m
        /\ ctx' = [ctx EXCEPT ![c] = "tick"] /\ ctx[c] = "run"
        /\ UNCHANGED <<st, busy, at, todo, pend, counters>>
    BY <1>5, Zenon DEF AgeQueues, InProcess
  <2>2. aged.q \in Queues /\ aged.m \in Fields
    <3>1. aged \in Scan
      BY AgedFacts
    <3> HIDE DEF aged
    <3> QED BY <3>1 DEF Scan
  <2> HIDE DEF aged
  <2> QED BY <2>1, <2>2 DEF TypeOK, Fields, Context, OnStack, Alive
<1>5a. ASSUME NEW c \in CPU, OnTick(c) PROVE TypeInv'
  <2> DEFINE p    == at[c]
             left == IF m[p].ticks > 0 THEN m[p].ticks - 1 ELSE 0
             why  == CASE left = 0 -> "EXPIRE"
                       [] left > 0 /\ HasHigher(rq[c], m[p].level) -> "HIGHER"
                       [] OTHER -> "NONE"
             why2 == IF why = "NONE" THEN m[p].reason ELSE why
  <2>1. /\ m' = [m EXCEPT ![p].ticks = left,
                          ![p].reason = IF why = "NONE" THEN @ ELSE why]
        /\ ctx' = [ctx EXCEPT ![c] = IF why = "NONE" THEN "run" ELSE "preempt"]
        /\ UNCHANGED <<st, rq, busy, at, todo, pend, counters>>
        /\ ctx[c] = "tick"
    BY <1>5a, Zenon DEF OnTick
  <2>2. why \in YieldReason
    BY Zenon DEF YieldReason
  <2>3. p \in Proc /\ m[p] \in MlfqFields
    BY <2>1 DEF OnStack, Alive, TypeOK
  <2>4. left \in Nat
    BY <2>3 DEF MlfqFields
  <2> HIDE DEF left, why
  <2>5. why2 \in YieldReason
    BY <2>2, <2>3 DEF MlfqFields
  <2>6. [m[p] EXCEPT !.ticks = left, !.reason = why2] \in MlfqFields
    <3> HIDE DEF why2
    <3> QED BY <2>3, <2>4, <2>5 DEF MlfqFields
  <2>7. m' = [m EXCEPT ![p] = [m[p] EXCEPT !.ticks = left, !.reason = why2]]
    BY <2>1, <2>3 DEF TypeOK
  <2>8. m' \in [Proc -> MlfqFields]
    <3> HIDE DEF why2
    <3> QED BY <2>3, <2>6, <2>7 DEF TypeOK
  <2> HIDE DEF p
  <2> QED BY <2>1, <2>8 DEF TypeOK, Context, OnStack, Alive, p
<1>6. ASSUME NEW c \in CPU, Yield(c) PROVE TypeInv'
  <2>1. m' \in Fields /\ rq' \in [CPU -> Queues]
    BY <1>6, YieldFacts
  <2>2. /\ st' = [st EXCEPT ![at[c]] = "RUNNABLE"]
        /\ ctx' = [ctx EXCEPT ![c] = "sched"] /\ at' = [at EXCEPT ![c] = None]
        /\ UNCHANGED <<busy, todo, pend, counters>>
    BY <1>6 DEF Yield, Leave
  <2> QED BY <2>1, <2>2 DEF TypeOK, Fields, State, Context, OnStack, Alive
<1>7. ASSUME NEW c \in CPU, Sleep(c) PROVE TypeInv'
  <2>1. at[c] \in Proc
    BY <1>7 DEF Sleep, InProcess, OnStack, Alive
  <2>2. [m[at[c]] EXCEPT !.inq = FALSE] \in MlfqFields
    BY <2>1 DEF TypeOK, MlfqFields
  <2>3. m' \in [Proc -> MlfqFields]
    BY <1>7, <2>1, <2>2 DEF Sleep, TypeOK
  <2> QED BY <1>7, <2>3 DEF Sleep, Leave, TypeOK, State, Context, OnStack, Alive
<1>8. ASSUME NEW x \in Proc
      PROVE  /\ [m[x] EXCEPT !.inq = FALSE, !.age = 0] \in MlfqFields
             /\ [m EXCEPT ![x].inq = FALSE, ![x].age = 0]
                  = [m EXCEPT ![x] = [m[x] EXCEPT !.inq = FALSE, !.age = 0]]
             /\ ClearedFields \in MlfqFields
  <2>1. 0 \in 0 .. AgingThreshold /\ 0 \in CPU /\ 0 \in Level
    BY MlfqAssumption DEF CPU, Level
  <2> QED BY <2>1 DEF TypeOK, MlfqFields, ClearedFields, YieldReason
<1>9. ASSUME NEW c \in CPU, NEW x \in Proc, NEW new \in BOOLEAN
      PROVE  Push(c, x, new) => pend' \in [CPU -> Seq(Pending)]
  <2>1. [p |-> x, new |-> new, to |-> -1] \in Pending
    BY MlfqAssumption DEF Pending
  <2>2. <<[p |-> x, new |-> new, to |-> -1]>> \o pend[c] \in Seq(Pending)
    BY <2>1 DEF TypeOK
  <2> QED BY <2>2 DEF Push, TypeOK
<1>10. ASSUME NEW c \in CPU, NEW x \in Proc, Wake(c, x) PROVE TypeInv'
  <2>1. m' \in [Proc -> MlfqFields]
    BY <1>8, <1>10 DEF Wake, TypeOK
  <2>2. pend' \in [CPU -> Seq(Pending)]
    BY <1>9, <1>10 DEF Wake
  <2> QED BY <1>10, <2>1, <2>2 DEF Wake, TypeOK, State
<1>11. ASSUME NEW c \in CPU, NEW x \in Proc, Fork(c, x) PROVE TypeInv'
  <2>1. m' \in [Proc -> MlfqFields]
    BY <1>8, <1>11 DEF Fork, TypeOK
  <2>2. pend' \in [CPU -> Seq(Pending)]
    BY <1>9, <1>11 DEF Fork
  <2> QED BY <1>11, <2>1, <2>2 DEF Fork, TypeOK, State
<1>12. ASSUME NEW c \in CPU, NEW x \in Proc, Kick(c, x) PROVE TypeInv'
  <2>1. pend' \in [CPU -> Seq(Pending)]
    BY <1>9, <1>12 DEF Kick
  <2>2. kicks' \in 0 .. MaxKicks
    BY <1>12, SchedAssumption DEF Kick, TypeOK
  <2> QED BY <1>12, <2>1, <2>2 DEF Kick, TypeOK
<1>13. ASSUME NEW c \in CPU, ChooseCpu(c) PROVE TypeInv'
  <2>1. PICK d \in CPU : pend' = [pend EXCEPT ![c][1].to = d]
    BY <1>13 DEF ChooseCpu, Eligible
  <2>2. pend[c] \in Seq(Pending) /\ pend[c] # <<>> /\ d \in -1 .. NCPU - 1
    BY <1>13, MlfqAssumption DEF ChooseCpu, TypeOK, CPU
  <2>3. 1 \in DOMAIN pend[c] /\ pend[c][1] \in Pending
    BY <2>2
  <2>4. [pend[c][1] EXCEPT !.to = d] \in Pending
    BY <2>2, <2>3 DEF Pending
  <2>5. [pend[c] EXCEPT ![1] = [pend[c][1] EXCEPT !.to = d]] \in Seq(Pending)
    BY <2>2, <2>4, ExceptSeq
  <2>6. pend' = [pend EXCEPT ![c] = [pend[c] EXCEPT ![1] = [pend[c][1] EXCEPT !.to = d]]]
    BY <2>1, <2>2, <2>3 DEF TypeOK
  <2>7. pend' \in [CPU -> Seq(Pending)]
    BY <2>5, <2>6 DEF TypeOK
  <2> QED BY <1>13, <2>7 DEF ChooseCpu, TypeOK
<1>14. ASSUME NEW c \in CPU, EnqueuePending(c) PROVE TypeInv'
  <2>1. m' \in Fields /\ rq' \in [CPU -> Queues]
    BY <1>14, PendingFacts
  <2>2. pend[c] \in Seq(Pending) /\ Tail(pend[c]) \in Seq(Pending)
    BY <1>14 DEF EnqueuePending, TypeOK
  <2>3. pend' \in [CPU -> Seq(Pending)]
    BY <1>14, <2>2 DEF EnqueuePending, TypeOK
  <2> QED BY <1>14, <2>1, <2>3 DEF EnqueuePending, TypeOK, Fields
<1>15. ASSUME NEW c \in CPU, NEW x \in Proc \cup {None}, Exit(c, x) PROVE TypeInv'
  <2>1. CASE x = None
    BY <1>15, <2>1 DEF Exit, InProcess, TypeOK, State, Context, OnStack, Alive
  <2>2. CASE x # None
    <3>1. x \in Proc
      BY <2>2
    <3>2. m' \in [Proc -> MlfqFields]
      BY <1>8, <1>15, <2>2, <3>1 DEF Exit, TypeOK
    <3>3. pend' \in [CPU -> Seq(Pending)]
      BY <1>9, <1>15, <2>2, <3>1 DEF Exit
    <3> QED BY <1>15, <2>2, <3>2, <3>3
        DEF Exit, InProcess, TypeOK, State, Context, OnStack, Alive
  <2> QED BY <2>1, <2>2
<1>16. ASSUME NEW c \in CPU, SwitchOut(c) PROVE TypeInv'
  <2>1. at[c] \in Proc
    BY <1>16 DEF SwitchOut, OnStack, Alive
  <2>2. st' \in [Proc -> State] /\ m' \in [Proc -> MlfqFields]
    BY <1>8, <1>16, <2>1 DEF SwitchOut, TypeOK, State
  <2> QED BY <1>16, <2>2 DEF SwitchOut, Leave, TypeOK, Context, OnStack, Alive
<1>17. ASSUME NEW c \in CPU, NEW x \in Proc, Reap(c, x) PROVE TypeInv'
  BY <1>8, <1>17 DEF Reap, TypeOK, State
<1>18. ASSUME ClockTick PROVE TypeInv'
  <2>1. ASSUME NEW x \in Proc, m[x].age < AgingThreshold
        PROVE  [m[x] EXCEPT !.age = m[x].age + 1] \in MlfqFields
    <3>1. m[x] \in MlfqFields /\ m[x].age \in 0 .. AgingThreshold
      BY DEF TypeOK, MlfqFields
    <3>2. m[x].age + 1 \in 0 .. AgingThreshold
      BY <2>1, <3>1, MlfqAssumption
    <3> QED BY <3>1, <3>2 DEF MlfqFields
  <2>2. m' \in [Proc -> MlfqFields]
    BY <1>18, <2>1 DEF ClockTick, TypeOK
  <2> QED BY <1>18, <2>2 DEF ClockTick, TypeOK
<1>19. ASSUME UNCHANGED vars PROVE TypeInv'
  BY <1>19 DEF vars, TypeOK
<1>20. ASSUME NEW c \in CPU, NEW x \in Proc, Slay(c, x) PROVE TypeInv'
  <2>1. kicks' \in 0 .. MaxKicks /\ hits' \in 0 .. MaxHits
    BY <1>20, SchedAssumption DEF Slay, TypeOK
  <2> QED BY <1>20, <2>1 DEF Slay, TypeOK, State
<1> QED
  BY <1>1, <1>2, <1>3, <1>4, <1>5, <1>6, <1>7, <1>10, <1>11, <1>12, <1>13,
     <1>14, <1>15, <1>16, <1>17, <1>18, <1>19, <1>20, <1>5a, Zenon
  DEF Next, SchedulerStep, NewWork

(* It holds when proczero is all there is.                                 *)
LEMMA TypeInit == Init => TypeInv
<1> SUFFICES ASSUME Init PROVE TypeInv
  OBVIOUS
<1>1. 0 \in CPU /\ 0 \in Level /\ 0 \in 0 .. AgingThreshold
  BY MlfqAssumption DEF CPU, Level
<1>2. EmptyQueues \in Queues /\ [EmptyQueues EXCEPT ![0] = <<Zero>>] \in Queues
  BY <1>1, SchedAssumption DEF EmptyQueues, Queues
<1>3. m \in [Proc -> MlfqFields]
  <2>1. PICK t \in Quanta(0) :
          m = [p \in Proc |-> IF p = Zero
                 THEN [ClearedFields EXCEPT !.inq = TRUE, !.ticks = t]
                 ELSE ClearedFields]
    BY DEF Init
  <2>2. t \in Nat
    BY MlfqAssumption DEF Quanta
  <2>3. ClearedFields \in MlfqFields
        /\ [ClearedFields EXCEPT !.inq = TRUE, !.ticks = t] \in MlfqFields
    BY <1>1, <2>2 DEF ClearedFields, MlfqFields, YieldReason
  <2> QED BY <2>1, <2>3
<1>4. rq \in [CPU -> Queues]
  BY <1>2 DEF Init
<1>5. kicks \in 0 .. MaxKicks /\ hits \in 0 .. MaxHits
  BY SchedAssumption DEF Init
<1>6. st \in [Proc -> State] /\ busy \in [CPU -> BOOLEAN]
      /\ ctx \in [CPU -> Context] /\ at \in [CPU -> Proc \cup {None}]
  BY DEF Init, State, Context
<1>7. todo \in [CPU -> Seq(CPU \X {1, 2})] /\ pend \in [CPU -> Seq(Pending)]
  BY DEF Init
<1>8. Named
  BY DEF Init, Named, OnStack, Alive
<1> QED BY <1>3, <1>4, <1>5, <1>6, <1>7, <1>8 DEF TypeInv, TypeOK

(* Every state of the scheduler has the declared types, for any number of  *)
(* processes, CPUs, kicks, kills and any slices.                           *)
THEOREM TypeCorrect == Spec => []TypeOK
<1>1. Init => TypeInv
  BY TypeInit
<1>2. TypeInv /\ [Next]_vars => TypeInv'
  BY TypeStep
<1>3. TypeInv => TypeOK
  BY DEF TypeInv
<1> QED BY <1>1, <1>2, <1>3, PTL DEF Spec

-----------------------------------------------------------------------------
(* One CPU per process.  What matters is who stands on which stack, never  *)
(* what the queues hold.                                                   *)

(* What OneCpu says of the time before a RUNNING process is killed.        *)
Stacks ==
  /\ \A c, d \in CPU :
       c # d /\ ctx[c] \in OnStack /\ ctx[d] \in OnStack => at[c] # at[d]
  /\ \A c \in CPU :
       /\ ctx[c] \in Alive => st[at[c]] = "RUNNING"
       /\ ctx[c] = "exiting" => st[at[c]] = "ZOMBIE"
  /\ \A p \in Proc :
       st[p] = "RUNNING" => \E c \in CPU : ctx[c] \in OnStack /\ at[c] = p

(* A kill of a RUNNING process is counted, and never forgotten.            *)
LEMMA HitsCounted ==
  ASSUME TypeInv, [Next]_vars, hits' = 0
  PROVE  /\ hits = 0
         /\ \A c \in CPU, p \in Proc : Slay(c, p) => st[p] \in {"SLEEPING", "RUNNABLE"}
<1>1. hits \in Nat
  BY SchedAssumption DEF TypeInv, TypeOK
<1>2. ASSUME NEW c \in CPU, NEW p \in Proc, Slay(c, p)
      PROVE  hits = 0 /\ st[p] \in {"SLEEPING", "RUNNABLE"}
  BY <1>1, <1>2 DEF Slay, counters
<1>3. CASE \A c \in CPU, p \in Proc : ~Slay(c, p)
  <2>1. hits' = hits
    BY <1>3, Zenon
    DEF Next, SchedulerStep, NewWork, Boot, PickLocal, Steal, Dispatch, AgeQueues, OnTick,
        Yield, Sleep, SwitchOut, Reap, Wake, Fork, Kick, Exit, ChooseCpu, EnqueuePending,
        ClockTick, vars, counters
  <2> QED BY <1>3, <2>1
<1> QED BY <1>2, <1>3

(* A step that leaves p->state and the control of the CPUs alone.          *)
LEMMA StacksFrame ==
  Stacks /\ UNCHANGED <<st, ctx, at>> => Stacks'
BY DEF Stacks

(* The same when one CPU moves between contexts in which it runs nothing.  *)
LEMMA StacksIdle ==
  ASSUME TypeInv, Stacks, NEW c \in CPU, ctx[c] \notin OnStack, st' = st,
         ctx' \in [CPU -> Context], ctx'[c] \notin OnStack,
         \A d \in CPU : d # c => ctx'[d] = ctx[d] /\ at'[d] = at[d]
  PROVE  Stacks'
BY DEF Stacks, OnStack, Alive

(* Who stands on which stack does not depend on what the queues hold.      *)
LEMMA OneCpuStep == TypeInv /\ OneCpu /\ [Next]_vars => OneCpu'
<1> SUFFICES ASSUME TypeInv, OneCpu, [Next]_vars, hits' = 0 PROVE Stacks'
  BY DEF OneCpu, Stacks, OnStack, Alive
<1>0. Stacks
  BY HitsCounted DEF OneCpu, Stacks, OnStack, Alive
<1> USE <1>0 DEF OnStack, Alive
<1>1. /\ st \in [Proc -> State] /\ ctx \in [CPU -> Context]
      /\ at \in [CPU -> Proc \cup {None}] /\ Named
  BY DEF TypeInv, TypeOK
<1>2. ASSUME NEW c \in CPU, Boot(c) PROVE Stacks'
  BY <1>1, <1>2 DEF Boot, Stacks
<1>3. ASSUME NEW c \in CPU, PickLocal(c) PROVE Stacks'
  <2>1. \/ ctx' = [ctx EXCEPT ![c] = "steal"] /\ at' = at
        \/ \E p : ctx' = [ctx EXCEPT ![c] = "picked"] /\ at' = [at EXCEPT ![c] = p]
    BY <1>3, Zenon DEF PickLocal, Take
  <2>2. st' = st /\ ctx[c] = "sched"
    BY <1>3 DEF PickLocal
  <2> QED BY <1>1, <2>1, <2>2, StacksIdle DEF Context
<1>4. ASSUME NEW c \in CPU, Steal(c) PROVE Stacks'
  <2>1. \/ ctx' = ctx /\ at' = at
        \/ ctx' = [ctx EXCEPT ![c] = "sched"] /\ at' = at
        \/ \E p : ctx' = [ctx EXCEPT ![c] = "picked"] /\ at' = [at EXCEPT ![c] = p]
    BY <1>4, Zenon DEF Steal, StealFrom, Take
  <2>2. st' = st /\ ctx[c] = "steal"
    BY <1>4 DEF Steal
  <2> QED BY <1>1, <2>1, <2>2, StacksIdle DEF Context
<1>5. ASSUME NEW c \in CPU, Dispatch(c) PROVE Stacks'
  <2>1. ctx[c] = "picked" /\ at[c] \in Proc
    BY <1>1, <1>5 DEF Dispatch, Named
  <2>2. CASE st[at[c]] = "RUNNABLE"
    <3>1. \A d \in CPU : ctx[d] \in OnStack => at[d] # at[c]
      BY <2>2 DEF Stacks
    <3>2. st' = [st EXCEPT ![at[c]] = "RUNNING"] /\ ctx' = [ctx EXCEPT ![c] = "run"]
          /\ at' = at
      BY <1>5, <2>2 DEF Dispatch
    <3> QED BY <1>1, <2>1, <3>1, <3>2 DEF Stacks
  <2>3. CASE st[at[c]] # "RUNNABLE"
    <3>1. st' = st /\ ctx' = [ctx EXCEPT ![c] = "sched"]
          /\ at' = [at EXCEPT ![c] = None]
      BY <1>5, <2>3 DEF Dispatch
    <3> QED BY <1>1, <2>1, <3>1, StacksIdle DEF Context
  <2> QED BY <2>2, <2>3
<1>6. ASSUME NEW c \in CPU, AgeQueues(c) \/ OnTick(c) PROVE Stacks'
  <2>1. ctx[c] \in Alive /\ st' = st /\ at' = at
        /\ \E x \in Alive : ctx' = [ctx EXCEPT ![c] = x]
    BY <1>6, Zenon DEF AgeQueues, OnTick, InProcess, Alive
  <2> QED BY <1>1, <2>1 DEF Stacks
<1>7. ASSUME NEW c \in CPU, NEW s \in State, s # "RUNNING",
             ctx[c] \in OnStack, st' = [st EXCEPT ![at[c]] = s], Leave(c)
      PROVE  Stacks'
  <2>1. at[c] \in Proc
    BY <1>1, <1>7 DEF Named
  <2>2. \A d \in CPU : d # c /\ ctx[d] \in OnStack => at[d] # at[c]
    BY <1>7 DEF Stacks
  <2> QED BY <1>1, <1>7, <2>1, <2>2 DEF Leave, Stacks
<1>8. ASSUME NEW c \in CPU, Yield(c) \/ Sleep(c) PROVE Stacks'
  BY <1>7, <1>8 DEF Yield, Sleep, InProcess, State
<1>9. ASSUME NEW c \in CPU, SwitchOut(c) PROVE Stacks'
  <2>1. ctx[c] = "exiting" /\ Leave(c)
    BY <1>9 DEF SwitchOut
  <2>2. CASE st' = [st EXCEPT ![at[c]] = "UNUSED"]
    BY <1>7, <2>1, <2>2 DEF State
  <2>3. CASE st' = st
    <3>1. at[c] \in Proc /\ st[at[c]] = "ZOMBIE"
      BY <1>1, <2>1 DEF Named, Stacks
    <3>2. st' = [st EXCEPT ![at[c]] = "ZOMBIE"]
      BY <1>1, <2>3, <3>1
    <3> QED BY <1>7, <2>1, <3>2 DEF State
  <2> QED BY <1>9, <2>2, <2>3 DEF SwitchOut
<1>10. ASSUME NEW x \in Proc, NEW s \in State, s # "RUNNING",
              st[x] \notin {"RUNNING"},
              \A c \in CPU : ~(ctx[c] = "exiting" /\ at[c] = x),
              st' = [st EXCEPT ![x] = s], UNCHANGED <<ctx, at>>
       PROVE  Stacks'
  <2>1. \A c \in CPU : ctx[c] \in OnStack => at[c] # x
    BY <1>10 DEF Stacks
  <2> QED BY <1>1, <1>10, <2>1 DEF Stacks
<1>11. ASSUME NEW c \in CPU, NEW x \in Proc, Wake(c, x) \/ Fork(c, x)
       PROVE  Stacks'
  <2>1. st[x] \in {"SLEEPING", "UNUSED"} /\ st' = [st EXCEPT ![x] = "RUNNABLE"]
        /\ UNCHANGED <<ctx, at>>
    BY <1>11 DEF Wake, Fork
  <2>2. \A d \in CPU : ~(ctx[d] = "exiting" /\ at[d] = x)
    BY <2>1 DEF Stacks
  <2> QED BY <1>10, <2>1, <2>2 DEF State
<1>12. ASSUME NEW c \in CPU, NEW x \in Proc, Reap(c, x) PROVE Stacks'
  <2>1. st[x] = "ZOMBIE" /\ st' = [st EXCEPT ![x] = "UNUSED"]
        /\ UNCHANGED <<ctx, at>>
        /\ \A d \in CPU : ~(ctx[d] = "exiting" /\ at[d] = x)
    BY <1>12 DEF Reap, Locked
  <2> QED BY <1>10, <2>1 DEF State
<1>13. ASSUME NEW c \in CPU, NEW x \in Proc, Kick(c, x) PROVE Stacks'
  BY <1>13, StacksFrame DEF Kick
<1>14. ASSUME NEW c \in CPU, ChooseCpu(c) \/ EnqueuePending(c) PROVE Stacks'
  BY <1>14, StacksFrame DEF ChooseCpu, EnqueuePending
<1>15. ASSUME NEW c \in CPU, NEW x \in Proc \cup {None}, Exit(c, x) PROVE Stacks'
  <2>1. ctx[c] = "run" /\ ctx' = [ctx EXCEPT ![c] = "exiting"] /\ at' = at
        /\ at[c] \in Proc /\ st[at[c]] = "RUNNING"
    BY <1>1, <1>15 DEF Exit, InProcess, Named, Stacks
  <2>2. \A d \in CPU : d # c /\ ctx[d] \in OnStack => at[d] # at[c]
    BY <2>1 DEF Stacks
  <2>3. CASE st' = [st EXCEPT ![at[c]] = "ZOMBIE"]
    BY <1>1, <2>1, <2>2, <2>3 DEF Stacks
  <2>4. CASE /\ x # None /\ st[x] = "SLEEPING"
             /\ st' = [st EXCEPT ![at[c]] = "ZOMBIE", ![x] = "RUNNABLE"]
    <3>1. x # at[c] /\ x \in Proc /\ \A d \in CPU : ctx[d] \in OnStack => at[d] # x
      BY <2>1, <2>4 DEF Stacks
    <3>2. /\ st'[at[c]] = "ZOMBIE" /\ st'[x] = "RUNNABLE"
          /\ \A p \in Proc : p # x /\ p # at[c] => st'[p] = st[p]
      BY <1>1, <2>1, <2>4, <3>1
    <3>3. \A d \in CPU : d # c /\ ctx[d] \in OnStack
                           => at[d] \in Proc /\ st'[at[d]] = st[at[d]]
      BY <1>1, <2>2, <3>1, <3>2 DEF Named
    <3> QED BY <1>1, <2>1, <2>2, <3>1, <3>2, <3>3 DEF Stacks
  <2> QED BY <1>15, <2>3, <2>4 DEF Exit
<1>17. ASSUME NEW c \in CPU, NEW x \in Proc, Slay(c, x) PROVE Stacks'
  <2>1. st[x] \in {"SLEEPING", "RUNNABLE"} /\ st' = [st EXCEPT ![x] = "ZOMBIE"]
        /\ UNCHANGED <<ctx, at>>
        /\ \A d \in CPU : ~(ctx[d] = "exiting" /\ at[d] = x)
    BY <1>17, HitsCounted DEF Slay, Locked
  <2> QED BY <1>10, <2>1 DEF State
<1>16. ASSUME ClockTick \/ UNCHANGED vars PROVE Stacks'
  BY <1>16, StacksFrame DEF ClockTick, vars
<1> QED
  BY <1>2, <1>3, <1>4, <1>5, <1>6, <1>8, <1>9, <1>11, <1>12, <1>13, <1>14,
     <1>15, <1>16, <1>17, Zenon
  DEF Next, SchedulerStep, NewWork

(* Until a RUNNING process is killed, a process runs on at most one CPU,   *)
(* exactly while it is RUNNING, and its slot is never freed under a CPU    *)
(* that still stands on its stack.                                         *)
THEOREM OneCpuCorrect == Spec => []OneCpu
<1>1. Init => TypeInv /\ OneCpu
  <2>1. Init => OneCpu
    BY DEF Init, OneCpu, OnStack, Alive
  <2> QED BY <2>1, TypeInit
<1>2. TypeInv /\ OneCpu /\ [Next]_vars => TypeInv' /\ OneCpu'
  BY TypeStep, OneCpuStep
<1> QED BY <1>1, <1>2, PTL DEF Spec

-----------------------------------------------------------------------------
(* The state machine of a process.                                         *)

(* A step changes the state of a process only as LegalTransition says.     *)
LEMMA LegalStep ==
  TypeInv /\ OneCpu /\ [Next]_vars
    => [hits' = 0 => \A p \in Proc : LegalTransition(st[p], st'[p])]_<<st, hits>>
<1> SUFFICES ASSUME TypeInv, OneCpu, [Next]_vars, hits' = 0, NEW p \in Proc
             PROVE  LegalTransition(st[p], st'[p])
  BY Zenon
<1>0. Stacks
  BY HitsCounted DEF OneCpu, Stacks, OnStack, Alive
<1> USE <1>0 DEF OnStack, Alive
<1>1. st \in [Proc -> State] /\ Named
  BY DEF TypeInv, TypeOK
<1>2. CASE st' = st
  BY <1>2 DEF LegalTransition
<1>3. ASSUME NEW x \in Proc, NEW s, st' = [st EXCEPT ![x] = s],
             <<st[x], s>> \in
               {<<"UNUSED", "RUNNABLE">>, <<"RUNNABLE", "RUNNING">>,
                <<"RUNNING", "RUNNABLE">>, <<"RUNNING", "SLEEPING">>,
                <<"SLEEPING", "RUNNABLE">>, <<"RUNNING", "ZOMBIE">>,
                <<"ZOMBIE", "UNUSED">>,
                <<"RUNNABLE", "ZOMBIE">>, <<"SLEEPING", "ZOMBIE">>}
      PROVE  LegalTransition(st[p], st'[p])
  BY <1>1, <1>3 DEF LegalTransition
<1>4. ASSUME NEW c \in CPU, Dispatch(c) PROVE LegalTransition(st[p], st'[p])
  BY <1>1, <1>2, <1>3, <1>4 DEF Dispatch, Named
<1>5. ASSUME NEW c \in CPU, Yield(c) \/ Sleep(c)
      PROVE  LegalTransition(st[p], st'[p])
  <2>1. at[c] \in Proc /\ st[at[c]] = "RUNNING"
        /\ \E s \in {"RUNNABLE", "SLEEPING"} : st' = [st EXCEPT ![at[c]] = s]
    BY <1>1, <1>5 DEF Yield, Sleep, InProcess, Named, Stacks
  <2> QED BY <1>3, <2>1
<1>6. ASSUME NEW c \in CPU, SwitchOut(c) PROVE LegalTransition(st[p], st'[p])
  <2>1. at[c] \in Proc /\ st[at[c]] = "ZOMBIE"
        /\ (st' = st \/ st' = [st EXCEPT ![at[c]] = "UNUSED"])
    BY <1>1, <1>6 DEF SwitchOut, Named, Stacks
  <2> QED BY <1>2, <1>3, <2>1
<1>7. ASSUME NEW c \in CPU, NEW x \in Proc, Wake(c, x) \/ Fork(c, x) \/ Reap(c, x)
      PROVE  LegalTransition(st[p], st'[p])
  BY <1>3, <1>7 DEF Wake, Fork, Reap
<1>7a. ASSUME NEW c \in CPU, NEW x \in Proc, Slay(c, x)
       PROVE  LegalTransition(st[p], st'[p])
  <2>1. st[x] \in {"SLEEPING", "RUNNABLE"} /\ st' = [st EXCEPT ![x] = "ZOMBIE"]
    BY <1>7a, HitsCounted DEF Slay
  <2> QED BY <1>3, <2>1
<1>8. ASSUME NEW c \in CPU, NEW x \in Proc \cup {None}, Exit(c, x)
      PROVE  LegalTransition(st[p], st'[p])
  <2>1. at[c] \in Proc /\ st[at[c]] = "RUNNING"
    BY <1>1, <1>8 DEF Exit, InProcess, Named, Stacks
  <2>2. CASE st' = [st EXCEPT ![at[c]] = "ZOMBIE"]
    BY <1>3, <2>1, <2>2
  <2>3. CASE /\ x # None /\ st[x] = "SLEEPING"
             /\ st' = [st EXCEPT ![at[c]] = "ZOMBIE", ![x] = "RUNNABLE"]
    BY <1>1, <2>1, <2>3 DEF LegalTransition
  <2> QED BY <1>8, <2>2, <2>3 DEF Exit
<1>9. ASSUME NEW c \in CPU, Boot(c) \/ PickLocal(c) \/ Steal(c)
             \/ AgeQueues(c) \/ OnTick(c)
             \/ ChooseCpu(c) \/ EnqueuePending(c) \/ \E x \in Proc : Kick(c, x)
      PROVE  st' = st
  BY <1>9, Zenon
  DEF Boot, PickLocal, Steal, AgeQueues, OnTick, ChooseCpu, EnqueuePending, Kick
<1>10. ASSUME ClockTick \/ UNCHANGED vars PROVE st' = st
  BY <1>10 DEF ClockTick, vars
<1> QED
  BY <1>2, <1>4, <1>5, <1>6, <1>7, <1>7a, <1>8, <1>9, <1>10, Zenon
  DEF Next, SchedulerStep, NewWork

(* Until a RUNNING process is killed, p->state makes the transitions that  *)
(* proc/type.h lists and, by proc_kill_descendants, from RUNNABLE and      *)
(* SLEEPING to ZOMBIE, and no others.                                      *)
THEOREM LegalStatesCorrect == Spec => LegalStates
<1>1. Init => TypeInv /\ OneCpu
  <2>1. Init => OneCpu
    BY DEF Init, OneCpu, OnStack, Alive
  <2> QED BY <2>1, TypeInit
<1>2. TypeInv /\ OneCpu /\ [Next]_vars => TypeInv' /\ OneCpu'
  BY TypeStep, OneCpuStep
<1> QED BY <1>1, <1>2, LegalStep, PTL DEF Spec, LegalStates

-----------------------------------------------------------------------------
(* No RUNNABLE process is lost.  The invariant is inductive over the types *)
(* because every critical section that makes a process RUNNABLE or takes   *)
(* it off a queue leaves it in the hands of exactly that CPU.              *)

(* Nobody becomes RUNNABLE, and whoever was held is held or not RUNNABLE.  *)
LEMMA NotLostFrame ==
  ASSUME RunnableNotLost,
         \A x \in Proc : st'[x] = "RUNNABLE" =>
            \/ Queued(x)' \/ Picked(x)' \/ InFlight(x)'
            \/ /\ st[x] = "RUNNABLE"
               /\ Queued(x) => Queued(x)'
               /\ Picked(x) => Picked(x)'
               /\ InFlight(x) => InFlight(x)'
  PROVE  RunnableNotLost'
BY DEF RunnableNotLost

(* A RUNNABLE process keeps a place: every step that takes one away either *)
(* gives another or ends the state.                                        *)
LEMMA NotLostStep == TypeInv /\ RunnableNotLost /\ [Next]_vars => RunnableNotLost'
<1> SUFFICES ASSUME TypeInv, RunnableNotLost, [Next]_vars PROVE RunnableNotLost'
  OBVIOUS
<1> USE DEF OnStack, Alive
<1>1. /\ st \in [Proc -> State] /\ ctx \in [CPU -> Context]
      /\ at \in [CPU -> Proc \cup {None}] /\ Named
      /\ m \in [Proc -> MlfqFields] /\ rq \in [CPU -> Queues]
      /\ pend \in [CPU -> Seq(Pending)]
  BY DEF TypeInv, TypeOK
(* Leaving one of the three kinds of place alone.                          *)
<1>2. rq' = rq => \A x : Queued(x) => Queued(x)'
  BY DEF Queued
<1>3. pend' = pend => \A x : InFlight(x) => InFlight(x)'
  BY DEF InFlight
<1>4. ASSUME NEW c \in CPU, ctx[c] # "picked",
             \A d \in CPU : d # c => ctx'[d] = ctx[d] /\ at'[d] = at[d]
      PROVE  \A x : Picked(x) => Picked(x)'
  BY <1>4 DEF Picked
<1>5. UNCHANGED <<ctx, at>> => \A x : Picked(x) => Picked(x)'
  BY DEF Picked
<1>6. ASSUME NEW c \in CPU, NEW x \in Proc, NEW new \in BOOLEAN, Push(c, x, new)
      PROVE  InFlight(x)' /\ \A y : InFlight(y) => InFlight(y)'
  <2> DEFINE e == [p |-> x, new |-> new, to |-> -1]
  <2>1. e \in Pending /\ e.p = x
    BY MlfqAssumption DEF Pending
  <2> HIDE DEF e
  <2>2. /\ pend'[c] = <<e>> \o pend[c]
        /\ \A d \in CPU : d # c => pend'[d] = pend[d]
    BY <1>1, <1>6 DEF Push, e
  <2>3. /\ 1 \in DOMAIN pend'[c] /\ pend'[c][1] = e
        /\ \A i \in DOMAIN pend[c] : i + 1 \in DOMAIN pend'[c]
                                     /\ pend'[c][i + 1] = pend[c][i]
    BY <1>1, <2>1, <2>2
  <2>4. InFlight(x)'
    BY <2>1, <2>3 DEF InFlight
  <2>5. ASSUME NEW y, InFlight(y) PROVE InFlight(y)'
    BY <2>2, <2>3, <2>5 DEF InFlight
  <2> QED BY <2>4, <2>5
<1>7. ASSUME NEW c \in CPU, Boot(c) PROVE RunnableNotLost'
  <2>1. ctx[c] = "off" /\ ctx' = [ctx EXCEPT ![c] = "sched"]
        /\ st' = st /\ rq' = rq /\ pend' = pend /\ at' = at
    BY <1>7 DEF Boot
  <2>2. \A x : Picked(x) => Picked(x)'
    BY <1>1, <1>4, <2>1
  <2> QED BY <1>2, <1>3, <2>1, <2>2, NotLostFrame
<1>8. ASSUME NEW c \in CPU, PickLocal(c) PROVE RunnableNotLost'
  <2>1. st' = st /\ pend' = pend /\ ctx[c] = "sched"
    BY <1>8 DEF PickLocal
  <2>2. ASSUME NEW l \in Level, NEW i \in DOMAIN rq[c][l], NEW p,
               p = rq[c][l][i], IsFirstRunnable(rq[c], st, l, i),
               ctx' = [ctx EXCEPT ![c] = "picked"],
               at' = [at EXCEPT ![c] = p],
               rq' = [rq EXCEPT ![c] = AfterPick(@, l, i)]
        PROVE  RunnableNotLost'
    <3>1. \A x : Picked(x) => Picked(x)'
      BY <1>1, <1>4, <2>1, <2>2
    <3>2. Picked(p)'
      BY <1>1, <2>2 DEF Picked
    <3>3. ASSUME NEW x \in Proc, st[x] = "RUNNABLE", Contains(rq[c], x),
                 x # p
          PROVE  Contains(AfterPick(rq[c], l, i), x)
      <4>1. PICK k \in Level : \E j \in 1 .. Len(rq[c][k]) : rq[c][k][j] = x
        BY <1>1, <3>3, ContainsEntry
      <4>2. PICK j \in 1 .. Len(rq[c][k]) : rq[c][k][j] = x
        BY <4>1
      <4>3. rq[c][k] \in Seq(Proc) /\ rq[c][l] \in Seq(Proc)
            /\ DOMAIN rq[c][k] = 1 .. Len(rq[c][k])
        BY <1>1 DEF Queues
      <4>4. k >= l
        <5>1. k \notin 0 .. l - 1
          BY <2>2, <3>3, <4>2, <4>3 DEF IsFirstRunnable
        <5> QED BY <5>1 DEF Level
      <4>5. CASE k > l
        <5>1. AfterPick(rq[c], l, i)[k] = rq[c][k]
          BY <4>5 DEF AfterPick, Level
        <5> QED BY <4>2, <4>3, <5>1 DEF Contains, Range
      <4>6. CASE k = l
        <5>1. j > i
          <6>1. j # i /\ j \notin 1 .. i - 1
            BY <2>2, <3>3, <4>2, <4>6 DEF IsFirstRunnable
          <6> QED BY <2>2, <4>2, <4>3, <4>6, <6>1
        <5> DEFINE s == SubSeq(rq[c][l], i + 1, Len(rq[c][l]))
        <5>2. AfterPick(rq[c], l, i)[l] = s
          <6> HIDE DEF s
          <6>1. AfterPick(rq[c], l, i)
                  = [k_1 \in Level |-> CASE k_1 < l -> <<>>
                                       [] k_1 = l -> s
                                       [] OTHER -> rq[c][k_1]]
            BY DEF AfterPick, s
          <6>2. ~(l < l)
            BY DEF Level
          <6> QED BY <6>1, <6>2
        <5>3. j - i \in 1 .. Len(s) /\ s[j - i] = rq[c][l][j]
          <6>1. i \in 1 .. Len(rq[c][l]) /\ j \in i + 1 .. Len(rq[c][l])
            BY <2>2, <4>2, <4>3, <4>6, <5>1
          <6> QED BY <4>3, <6>1, SuffixEntry
        <5>4. s \in Seq(Proc)
          BY <2>2, <4>3
        <5> HIDE DEF s
        <5>5. DOMAIN s = 1 .. Len(s)
          BY <5>4
        <5> QED BY <4>2, <4>6, <5>2, <5>3, <5>5 DEF Contains, Range
      <4> QED BY <4>4, <4>5, <4>6 DEF Level
    <3>4. ASSUME NEW x \in Proc, st[x] = "RUNNABLE", Queued(x), x # p
          PROVE  Queued(x)'
      <4>1. rq'[c] = AfterPick(rq[c], l, i)
            /\ \A d \in CPU : d # c => rq'[d] = rq[d]
        BY <1>1, <2>2
      <4> QED BY <3>3, <3>4, <4>1 DEF Queued
    <3> QED BY <1>3, <2>1, <3>1, <3>2, <3>4, NotLostFrame
  <2>3. ASSUME NoneRunnable(rq[c], st), ctx' = [ctx EXCEPT ![c] = "steal"],
               rq' = [rq EXCEPT ![c] = EmptyQueues], at' = at
        PROVE  RunnableNotLost'
    <3>1. \A x : Picked(x) => Picked(x)'
      BY <1>1, <1>4, <2>1, <2>3
    <3>2. ASSUME NEW x \in Proc, st[x] = "RUNNABLE", Queued(x) PROVE Queued(x)'
      <4>1. ~Contains(rq[c], x)
        <5>1. \A l \in Level : DOMAIN rq[c][l] = 1 .. Len(rq[c][l])
          BY <1>1 DEF Queues
        <5> QED BY <2>3, <3>2, <5>1 DEF NoneRunnable, Contains, Range
      <4>2. \A d \in CPU : d # c => rq'[d] = rq[d]
        BY <1>1, <2>3
      <4> QED BY <3>2, <4>1, <4>2 DEF Queued
    <3> QED BY <1>3, <2>1, <3>1, <3>2, NotLostFrame
  <2>4. ASSUME NEW l \in Level, NEW i \in DOMAIN rq[c][l],
               IsFirstRunnable(rq[c], st, l, i),
               Take(c, rq[c][l][i], Dropped(rq[c], l, i)),
               rq' = [rq EXCEPT ![c] = AfterPick(@, l, i)]
        PROVE  RunnableNotLost'
    <3>1. PICK p : p = rq[c][l][i]
      OBVIOUS
    <3> QED BY <2>2, <2>4, <3>1, Zenon DEF Take
  <2> QED BY <1>8, <2>3, <2>4, Zenon DEF PickLocal
<1>9. ASSUME NEW c \in CPU, Steal(c) PROVE RunnableNotLost'
  <2>1. st' = st /\ pend' = pend /\ ctx[c] = "steal"
    BY <1>9 DEF Steal
  <2>2. ASSUME NEW v, NEW l, v \in CPU, l \in {1, 2}, StealFrom(c, v, l)
        PROVE  RunnableNotLost'
    <3>a. PICK p : p = LastOf(rq[v][l])
      OBVIOUS
    <3>1. CASE rq' = rq /\ ctx' = ctx /\ at' = at
      BY <1>2, <1>3, <1>5, <2>1, <3>1, NotLostFrame
    <3>2. ASSUME MaySteal(v, l), rq' = [rq EXCEPT ![v] = PopTail(@, l)]
          PROVE  /\ p \in Proc
                 /\ \A x : Queued(x) /\ x # p => Queued(x)'
      <4>1. rq[v] \in Queues /\ rq[v][l] \in Seq(Proc) /\ l \in Level
        BY <1>1, <2>2 DEF Queues, Level
      <4>2. rq[v][l] # <<>>
        <5>1. l = 2 => rq[v][l] # <<>>
          BY <3>2 DEF MaySteal
        <5>2. l = 1 => Len(rq[v][l]) > 1
          BY <3>2 DEF MaySteal
        <5> QED BY <2>2, <4>1, <5>1, <5>2
      <4> DEFINE s == SubSeq(rq[v][l], 1, Len(rq[v][l]) - 1)
      <4>3. /\ s \in Seq(Proc) /\ p \in Proc /\ Len(s) = Len(rq[v][l]) - 1
            /\ \A j \in 1 .. Len(s) : s[j] = rq[v][l][j]
            /\ p = rq[v][l][Len(rq[v][l])]
        BY <3>a, <4>1, <4>2 DEF LastOf
      <4>4. /\ PopTail(rq[v], l)[l] = s
            /\ \A k \in Level : k # l => PopTail(rq[v], l)[k] = rq[v][k]
            /\ PopTail(rq[v], l) \in Queues
        <5>1. PopTail(rq[v], l) = [rq[v] EXCEPT ![l] = s]
          BY DEF PopTail
        <5> HIDE DEF s
        <5> QED BY <4>1, <4>3, <5>1, SetLevel
      <4> HIDE DEF s
      <4>5. ASSUME NEW x, Contains(rq[v], x), x # p
            PROVE  Contains(PopTail(rq[v], l), x)
        <5>1. PICK k \in Level : \E j \in 1 .. Len(rq[v][k]) : rq[v][k][j] = x
          BY <4>1, <4>5, ContainsEntry
        <5>2. CASE k # l
          BY <4>4, <5>1, <5>2, ContainsEntry
        <5>3. CASE k = l
          <6>1. PICK j \in 1 .. Len(rq[v][l]) : rq[v][l][j] = x
            BY <5>1, <5>3
          <6>2. j \in 1 .. Len(s) /\ s[j] = x
            BY <4>1, <4>3, <4>5, <6>1
          <6> QED BY <4>1, <4>4, <6>2, ContainsEntry
        <5> QED BY <5>2, <5>3
      <4>6. rq'[v] = PopTail(rq[v], l) /\ \A d \in CPU : d # v => rq'[d] = rq[d]
        BY <1>1, <2>2, <3>2
      <4>7. \A x : Queued(x) /\ x # p => Queued(x)'
        BY <4>5, <4>6 DEF Queued
      <4> QED BY <4>3, <4>7
    <3>3. CASE /\ MaySteal(v, l) /\ rq' = [rq EXCEPT ![v] = PopTail(@, l)]
               /\ ctx' = [ctx EXCEPT ![c] = "picked"] /\ at' = [at EXCEPT ![c] = p]
      <4>1. \A x : Queued(x) /\ x # p => Queued(x)'
        BY <3>2, <3>3
      <4>2. (\A x : Picked(x) => Picked(x)') /\ Picked(p)'
        <5>1. \A x : Picked(x) => Picked(x)'
          BY <1>1, <1>4, <2>1, <3>3
        <5> QED BY <1>1, <3>3, <5>1 DEF Picked
      <4> QED BY <1>3, <2>1, <4>1, <4>2, NotLostFrame
    <3>4. CASE /\ MaySteal(v, l) /\ rq' = [rq EXCEPT ![v] = PopTail(@, l)]
               /\ st[p] # "RUNNABLE" /\ ctx' = ctx /\ at' = at
      <4>1. \A x : Queued(x) /\ x # p => Queued(x)'
        BY <3>2, <3>4
      <4> QED BY <1>3, <1>5, <2>1, <3>4, <4>1, NotLostFrame
    <3> QED BY <2>2, <3>a, <3>1, <3>3, <3>4 DEF StealFrom, Take
  <2>3. ASSUME todo[c] = <<>>, ctx' = [ctx EXCEPT ![c] = "sched"], rq' = rq, at' = at
        PROVE  RunnableNotLost'
    <3>1. \A x : Picked(x) => Picked(x)'
      BY <1>1, <1>4, <2>1, <2>3
    <3> QED BY <1>2, <1>3, <2>1, <2>3, <3>1, NotLostFrame
  <2>4. ASSUME todo[c] # <<>>, StealFrom(c, Head(todo[c])[1], Head(todo[c])[2])
        PROVE  RunnableNotLost'
    <3>1. Head(todo[c]) \in CPU \X {1, 2}
      BY <2>4 DEF TypeInv, TypeOK
    <3>2. Head(todo[c])[1] \in CPU /\ Head(todo[c])[2] \in {1, 2}
      BY <3>1
    <3> QED BY <2>2, <2>4, <3>2
  <2> QED BY <1>9, <2>3, <2>4 DEF Steal
<1>10. ASSUME NEW c \in CPU, Dispatch(c) PROVE RunnableNotLost'
  <2>1. at[c] \in Proc /\ rq' = rq /\ pend' = pend
    BY <1>1, <1>10 DEF Dispatch, Named
  <2>2. \A d \in CPU : d # c => ctx'[d] = ctx[d] /\ at'[d] = at[d]
    BY <1>1, <1>10 DEF Dispatch
  <2>3. \A x : Picked(x) /\ x # at[c] => Picked(x)'
    BY <2>2 DEF Picked
  <2>4. st'[at[c]] # "RUNNABLE" /\ \A x \in Proc : x # at[c] => st'[x] = st[x]
    BY <1>1, <1>10, <2>1 DEF Dispatch
  <2> QED BY <1>2, <1>3, <2>1, <2>3, <2>4, NotLostFrame
<1>11. ASSUME NEW c \in CPU, AgeQueues(c) PROVE RunnableNotLost'
  <2> DEFINE aged == AgeTick([q |-> rq[c], m |-> m], st)
  <2>1. /\ rq' = [rq EXCEPT ![c] = aged.q] /\ ctx[c] = "run"
        /\ st' = st /\ at' = at /\ pend' = pend
        /\ \E x : ctx' = [ctx EXCEPT ![c] = x]
    BY <1>11, Zenon DEF AgeQueues, InProcess
  <2>2. \A x \in Proc : st[x] = "RUNNABLE" /\ Contains(rq[c], x)
                          => Contains(aged.q, x)
    BY AgedFacts
  <2> HIDE DEF aged
  <2>3. rq'[c] = aged.q /\ \A d \in CPU : d # c => rq'[d] = rq[d]
    BY <1>1, <2>1
  <2>4. \A x \in Proc : st[x] = "RUNNABLE" /\ Queued(x) => Queued(x)'
    BY <2>2, <2>3 DEF Queued
  <2>5. \A x : Picked(x) => Picked(x)'
    BY <1>1, <1>4, <2>1
  <2> QED BY <1>3, <2>1, <2>4, <2>5, NotLostFrame
<1>11a. ASSUME NEW c \in CPU, OnTick(c) PROVE RunnableNotLost'
  <2>1. /\ ctx[c] = "tick" /\ UNCHANGED <<st, rq, at, pend>>
        /\ \E x : ctx' = [ctx EXCEPT ![c] = x]
    BY <1>11a, Zenon DEF OnTick
  <2>2. \A x : Picked(x) => Picked(x)'
    BY <1>1, <1>4, <2>1
  <2> QED BY <1>2, <1>3, <2>1, <2>2, NotLostFrame
<1>12. ASSUME NEW c \in CPU, Yield(c) PROVE RunnableNotLost'
  <2>1. /\ ctx[c] \in {"run", "preempt"} /\ at[c] \in Proc
        /\ st' = [st EXCEPT ![at[c]] = "RUNNABLE"] /\ pend' = pend /\ Leave(c)
    BY <1>1, <1>12 DEF Yield, InProcess, Named
  <2>2. /\ \E d \in CPU : Contains(rq'[d], at[c])
        /\ \A x : Queued(x) => Queued(x)'
    BY <1>12, YieldFacts
  <2>3. \A x : Picked(x) => Picked(x)'
    BY <1>1, <1>4, <2>1 DEF Leave
  <2>4. \A x \in Proc : x # at[c] => st'[x] = st[x]
    BY <1>1, <2>1
  <2>5. ASSUME NEW x \in Proc, x = at[c] PROVE Queued(x)'
    BY <2>2, <2>5 DEF Queued
  <2> QED BY <1>3, <2>1, <2>2, <2>3, <2>4, <2>5, NotLostFrame
<1>13. ASSUME NEW c \in CPU, Sleep(c) \/ SwitchOut(c) PROVE RunnableNotLost'
  <2>1. /\ ctx[c] \in {"run", "exiting"} /\ rq' = rq /\ pend' = pend /\ Leave(c)
        /\ \A x \in Proc : st'[x] = "RUNNABLE" => st[x] = "RUNNABLE"
    BY <1>1, <1>13 DEF Sleep, SwitchOut, InProcess
  <2>2. \A x : Picked(x) => Picked(x)'
    BY <1>1, <1>4, <2>1 DEF Leave
  <2> QED BY <1>2, <1>3, <2>1, <2>2, NotLostFrame
<1>14. ASSUME NEW c \in CPU, NEW p \in Proc, Wake(c, p) \/ Fork(c, p)
       PROVE  RunnableNotLost'
  <2>1. /\ \E new \in BOOLEAN : Push(c, p, new)
        /\ st' = [st EXCEPT ![p] = "RUNNABLE"] /\ UNCHANGED <<rq, ctx, at>>
    BY <1>14 DEF Wake, Fork
  <2>2. InFlight(p)' /\ \A x : InFlight(x) => InFlight(x)'
    BY <1>6, <2>1
  <2>3. \A x \in Proc : x # p => st'[x] = st[x]
    BY <1>1, <2>1
  <2> QED BY <1>2, <1>5, <2>1, <2>2, <2>3, NotLostFrame
<1>15. ASSUME NEW c \in CPU, NEW p \in Proc, Kick(c, p) PROVE RunnableNotLost'
  <2>1. Push(c, p, FALSE) /\ UNCHANGED <<st, rq, ctx, at>>
    BY <1>15 DEF Kick
  <2> QED BY <1>2, <1>5, <1>6, <2>1, NotLostFrame
<1>16. ASSUME NEW c \in CPU, ChooseCpu(c) PROVE RunnableNotLost'
  <2>1. UNCHANGED <<st, rq, ctx, at>> /\ pend[c] # <<>>
        /\ \E d \in CPU : pend' = [pend EXCEPT ![c][1].to = d]
    BY <1>16 DEF ChooseCpu, Eligible
  <2>2. \A x : InFlight(x) => InFlight(x)'
    <3>1. PICK d \in CPU : pend' = [pend EXCEPT ![c][1].to = d]
      BY <2>1
    <3>2. 1 \in DOMAIN pend[c] /\ pend[c][1] \in Pending
      BY <1>1, <2>1
    <3>3. [pend[c][1] EXCEPT !.to = d].p = pend[c][1].p
      BY <3>2 DEF Pending
    <3>4. pend' = [pend EXCEPT ![c] = [pend[c] EXCEPT ![1] = [pend[c][1] EXCEPT !.to = d]]]
      BY <1>1, <3>1, <3>2
    <3>5. \A b \in CPU : /\ DOMAIN pend'[b] = DOMAIN pend[b]
                         /\ \A i \in DOMAIN pend[b] : pend'[b][i].p = pend[b][i].p
      BY <1>1, <3>2, <3>3, <3>4
    <3> QED BY <3>5 DEF InFlight
  <2> QED BY <1>2, <1>5, <2>1, <2>2, NotLostFrame
<1>17. ASSUME NEW c \in CPU, EnqueuePending(c) PROVE RunnableNotLost'
  <2> DEFINE p == pend[c][1].p
  <2>1. UNCHANGED <<st, ctx, at>> /\ pend' = [pend EXCEPT ![c] = Tail(@)]
        /\ pend[c] # <<>>
    BY <1>17 DEF EnqueuePending
  <2>2. /\ \A x : Queued(x) => Queued(x)'
        /\ st[p] = "RUNNABLE" => \E d \in CPU : Contains(rq'[d], p)
    BY <1>17, PendingFacts
  <2>3. ASSUME NEW x \in Proc, InFlight(x), x # p PROVE InFlight(x)'
    <3>1. PICK b \in CPU : \E i \in DOMAIN pend[b] : pend[b][i].p = x
      BY <2>3 DEF InFlight
    <3>2. PICK i \in DOMAIN pend[b] : pend[b][i].p = x
      BY <3>1
    <3>3. CASE b # c
      <4>1. pend'[b] = pend[b]
        BY <1>1, <2>1, <3>3
      <4> QED BY <3>2, <4>1 DEF InFlight
    <3>4. CASE b = c
      <4>1. pend'[c] = Tail(pend[c]) /\ pend[c] \in Seq(Pending)
        BY <1>1, <2>1
      <4>2. i # 1 /\ i \in 1 .. Len(pend[c])
        BY <2>3, <3>2, <3>4, <4>1
      <4>3. i - 1 \in DOMAIN pend'[c] /\ pend'[c][i - 1] = pend[c][i]
        BY <4>1, <4>2, TailEntry
      <4> QED BY <3>2, <3>4, <4>3 DEF InFlight
    <3> QED BY <3>3, <3>4
  <2>4. ASSUME NEW x \in Proc, x = p, st[x] = "RUNNABLE" PROVE Queued(x)'
    BY <2>2, <2>4 DEF Queued
  <2> HIDE DEF p
  <2>5. \A x : Picked(x) => Picked(x)'
    BY <1>5, <2>1
  <2> QED BY <2>1, <2>2, <2>3, <2>4, <2>5, NotLostFrame
<1>18. ASSUME NEW c \in CPU, NEW p \in Proc \cup {None}, Exit(c, p)
       PROVE  RunnableNotLost'
  <2>1. /\ ctx[c] = "run" /\ rq' = rq /\ at' = at /\ at[c] \in Proc
        /\ ctx' = [ctx EXCEPT ![c] = "exiting"]
    BY <1>1, <1>18 DEF Exit, InProcess, Named
  <2>2. \A x : Picked(x) => Picked(x)'
    BY <1>1, <1>4, <2>1
  <2>3. CASE pend' = pend /\ st' = [st EXCEPT ![at[c]] = "ZOMBIE"]
    <3>1. \A x \in Proc : st'[x] = "RUNNABLE" => st[x] = "RUNNABLE"
      BY <1>1, <2>1, <2>3
    <3> QED BY <1>2, <1>3, <2>1, <2>2, <2>3, <3>1, NotLostFrame
  <2>4. CASE /\ p # None /\ Push(c, p, FALSE)
             /\ st' = [st EXCEPT ![at[c]] = "ZOMBIE", ![p] = "RUNNABLE"]
    <3>1. InFlight(p)' /\ \A x : InFlight(x) => InFlight(x)'
      BY <1>6, <2>4
    <3>2. \A x \in Proc : x # p /\ st'[x] = "RUNNABLE" => st[x] = "RUNNABLE"
      BY <1>1, <2>1, <2>4
    <3> QED BY <1>2, <2>1, <2>2, <3>1, <3>2, NotLostFrame
  <2> QED BY <1>18, <2>3, <2>4 DEF Exit
<1>19. ASSUME NEW c \in CPU, NEW p \in Proc, Reap(c, p) PROVE RunnableNotLost'
  <2>1. UNCHANGED <<rq, pend, ctx, at>>
        /\ \A x \in Proc : st'[x] = "RUNNABLE" => st[x] = "RUNNABLE"
    BY <1>1, <1>19 DEF Reap
  <2> QED BY <1>2, <1>3, <1>5, <2>1, NotLostFrame
<1>21. ASSUME NEW c \in CPU, NEW p \in Proc, Slay(c, p) PROVE RunnableNotLost'
  <2>1. UNCHANGED <<rq, pend, ctx, at>>
        /\ \A x \in Proc : st'[x] = "RUNNABLE" => st[x] = "RUNNABLE"
    BY <1>1, <1>21 DEF Slay
  <2> QED BY <1>2, <1>3, <1>5, <2>1, NotLostFrame
<1>20. ASSUME ClockTick \/ UNCHANGED vars PROVE RunnableNotLost'
  <2>1. UNCHANGED <<st, rq, pend, ctx, at>>
    BY <1>20 DEF ClockTick, vars
  <2> QED BY <1>2, <1>3, <1>5, <2>1, NotLostFrame
<1> QED
  BY <1>7, <1>8, <1>9, <1>10, <1>11, <1>12, <1>13, <1>14, <1>15, <1>16,
     <1>17, <1>18, <1>19, <1>20, <1>21, <1>11a, Zenon
  DEF Next, SchedulerStep, NewWork

(* A RUNNABLE process is always in a queue, in the hands of a scheduler,   *)
(* or in the hands of a CPU that will enqueue it: also when thread exits   *)
(* are requested and processes killed, and duplicate entries arise.        *)
THEOREM RunnableNotLostCorrect == Spec => []RunnableNotLost
<1>1. Init => TypeInv /\ RunnableNotLost
  <2>1. ASSUME Init PROVE RunnableNotLost
    <3>1. 0 \in CPU /\ 0 \in Level
      BY MlfqAssumption DEF CPU, Level
    <3>2. rq[0][0] = <<Zero>> /\ 1 \in DOMAIN <<Zero>>
      BY <2>1, <3>1 DEF Init, EmptyQueues
    <3>3. Queued(Zero)
      BY <3>1, <3>2 DEF Queued, Contains, Range
    <3>4. \A p \in Proc : st[p] = "RUNNABLE" => p = Zero
      BY <2>1 DEF Init
    <3> QED BY <3>3, <3>4 DEF RunnableNotLost
  <2> QED BY <2>1, TypeInit
<1>2. TypeInv /\ RunnableNotLost /\ [Next]_vars => TypeInv' /\ RunnableNotLost'
  BY TypeStep, NotLostStep
<1> QED BY <1>1, <1>2, PTL DEF Spec

-----------------------------------------------------------------------------
(* A CPU that runs no scheduler gets no work.  It never ran anything, so   *)
(* its hint says idle and nobody, itself included, may choose it.          *)

Untouched(c) ==
  /\ \A l \in Level : rq[c][l] = <<>>
  /\ ~busy[c] /\ pend[c] = <<>>

(* Some CPU has chosen c for an enqueue it has not done yet.               *)
Chosen(c) == \E d \in CPU : \E i \in DOMAIN pend[d] : pend[d][i].to = c

Dead == \A c \in CPU : ctx[c] = "off" => Untouched(c) /\ ~Chosen(c)

(* A step by CPU d that leaves what the others own alone.                  *)
LEMMA DeadFrame ==
  ASSUME Dead, NEW d \in CPU, ctx'[d] # "off",
         \A c \in CPU : c # d => /\ ctx'[c] = ctx[c] /\ busy'[c] = busy[c]
                                 /\ pend'[c] = pend[c],
         \A c \in CPU : ctx[c] = "off" /\ c # d =>
            rq'[c] = rq[c] /\ (Chosen(c)' => Chosen(c))
  PROVE  Dead'
BY DEF Dead, Untouched

(* A new unfinished enqueue has no CPU yet.                                *)
LEMMA PushChooses ==
  ASSUME TypeInv, NEW d \in CPU, NEW x \in Proc, NEW new \in BOOLEAN, Push(d, x, new)
  PROVE  /\ \A c \in CPU : c # d => pend'[c] = pend[c]
         /\ \A c \in CPU : Chosen(c)' => Chosen(c)
<1> DEFINE e == [p |-> x, new |-> new, to |-> -1]
<1>1. e \in Pending /\ e.to = -1 /\ \A c \in CPU : c # -1
  BY MlfqAssumption DEF Pending, CPU
<1> HIDE DEF e
<1>2. pend \in [CPU -> Seq(Pending)]
  BY DEF TypeInv, TypeOK
<1>3. /\ pend'[d] = <<e>> \o pend[d]
      /\ \A c \in CPU : c # d => pend'[c] = pend[c]
  BY <1>2 DEF Push, e
<1>4. ASSUME NEW i \in DOMAIN pend'[d]
      PROVE  \/ pend'[d][i] = e
             \/ i - 1 \in DOMAIN pend[d] /\ pend'[d][i] = pend[d][i - 1]
  BY <1>1, <1>2, <1>3, ConsWas
<1>5. ASSUME NEW c \in CPU, Chosen(c)' PROVE Chosen(c)
  <2>1. PICK b \in CPU : \E i \in DOMAIN pend'[b] : pend'[b][i].to = c
    BY <1>5 DEF Chosen
  <2>2. CASE b # d
    BY <1>3, <2>1, <2>2 DEF Chosen
  <2>3. CASE b = d
    BY <1>1, <1>4, <2>1, <2>3 DEF Chosen
  <2> QED BY <2>2, <2>3
<1> QED BY <1>3, <1>5

(* Enqueueing on a CPU leaves the queues of the others alone.              *)
LEMMA EnqueueFrame ==
  ASSUME TypeInv, NEW d \in CPU, NEW p, NEW f, NEW s, NEW level, NEW reset, NEW front,
         Enqueue(d, p, f, s, level, reset, front)
  PROVE  \A c \in CPU : c # d => rq'[c] = rq[c]
BY DEF TypeInv, TypeOK, Enqueue, EnqueueSkips, EnqueuePushes

(* Nothing is enqueued for, chosen on or left at a CPU that is off.        *)
LEMMA DeadStep == TypeInv /\ Dead /\ [Next]_vars => Dead'
<1> SUFFICES ASSUME TypeInv, Dead, [Next]_vars PROVE Dead'
  OBVIOUS
<1> USE DEF OnStack, Alive
<1>1. /\ ctx \in [CPU -> Context] /\ at \in [CPU -> Proc \cup {None}] /\ Named
      /\ busy \in [CPU -> BOOLEAN] /\ rq \in [CPU -> Queues]
      /\ pend \in [CPU -> Seq(Pending)]
  BY DEF TypeInv, TypeOK
<1>2. pend' = pend => \A c \in CPU : Chosen(c)' => Chosen(c)
  BY DEF Chosen
<1>3. ASSUME NEW d \in CPU, Boot(d) PROVE Dead'
  BY <1>1, <1>2, <1>3, DeadFrame DEF Boot
<1>4. ASSUME NEW d \in CPU, PickLocal(d) PROVE Dead'
  <2>1. /\ ctx[d] = "sched" /\ pend' = pend
        /\ busy' = [busy EXCEPT ![d] = FALSE]
        /\ \E x : ctx' = [ctx EXCEPT ![d] = x] /\ x # "off"
        /\ \E x : rq' = [rq EXCEPT ![d] = x]
    BY <1>4, Zenon DEF PickLocal, Take
  <2> QED BY <1>1, <1>2, <2>1, DeadFrame
<1>5. ASSUME NEW d \in CPU, Steal(d) PROVE Dead'
  <2>1. ctx[d] = "steal" /\ pend' = pend /\ busy' = busy
    BY <1>5 DEF Steal
  <2>2. CASE UNCHANGED <<rq, ctx>>
    BY <1>1, <1>2, <2>1, <2>2, DeadFrame
  <2>3. CASE ctx' = [ctx EXCEPT ![d] = "sched"] /\ rq' = rq
    BY <1>1, <1>2, <2>1, <2>3, DeadFrame
  <2>4. ASSUME NEW v \in CPU, NEW l \in {1, 2}, MaySteal(v, l),
               rq' = [rq EXCEPT ![v] = PopTail(@, l)],
               ctx' = ctx \/ ctx' = [ctx EXCEPT ![d] = "picked"]
        PROVE  Dead'
    <3>1. l \in Level /\ (\A k \in Level : rq[v][k] = <<>>) => FALSE
      <4>1. l \in Level /\ 1 \in Level /\ 2 \in Level
        BY DEF Level
      <4>2. l = 1 \/ l = 2
        OBVIOUS
      <4>3. l = 2 => rq[v][2] # <<>>
        BY <2>4 DEF MaySteal
      <4>4. l = 1 => Len(rq[v][1]) > 1
        BY <2>4 DEF MaySteal
      <4>5. Len(<<>>) = 0
        OBVIOUS
      <4> QED BY <4>1, <4>2, <4>3, <4>4, <4>5
    <3>2. l \in Level /\ ctx[v] # "off"
      BY <3>1 DEF Dead, Untouched, Level
    <3>3. \A c \in CPU : ctx[c] = "off" => rq'[c] = rq[c]
      BY <1>1, <2>4, <3>2
    <3>4. ctx'[d] # "off" /\ \A c \in CPU : c # d => ctx'[c] = ctx[c]
      BY <1>1, <2>1, <2>4
    <3> QED BY <1>2, <2>1, <3>3, <3>4, DeadFrame
  <2>5. ASSUME todo[d] # <<>>, StealFrom(d, Head(todo[d])[1], Head(todo[d])[2])
        PROVE  Dead'
    <3> DEFINE v == Head(todo[d])[1]
               l == Head(todo[d])[2]
    <3>1. Head(todo[d]) \in CPU \X {1, 2}
      BY <2>5 DEF TypeInv, TypeOK
    <3>2. v \in CPU /\ l \in {1, 2}
      BY <3>1
    <3> HIDE DEF v, l
    <3>3. StealFrom(d, v, l)
      BY <2>5 DEF v, l
    <3>4. \/ UNCHANGED <<rq, ctx>>
          \/ /\ MaySteal(v, l) /\ rq' = [rq EXCEPT ![v] = PopTail(@, l)]
             /\ ctx' = ctx \/ ctx' = [ctx EXCEPT ![d] = "picked"]
      BY <3>3, Zenon DEF StealFrom, Take
    <3> QED BY <2>2, <2>4, <3>2, <3>4
  <2> QED BY <1>5, <2>3, <2>5 DEF Steal
<1>6. ASSUME NEW d \in CPU, Dispatch(d) \/ Sleep(d) \/ SwitchOut(d) \/ OnTick(d)
      PROVE  Dead'
  <2>1. /\ ctx[d] # "off" /\ pend' = pend /\ rq' = rq
        /\ busy' = busy \/ busy' = [busy EXCEPT ![d] = TRUE]
    BY <1>6 DEF Dispatch, Sleep, SwitchOut, OnTick, InProcess
  <2>2. \E x : ctx' = [ctx EXCEPT ![d] = x] /\ x # "off"
    <3>1. ASSUME OnTick(d) PROVE \E x \in {"run", "preempt"} : ctx' = [ctx EXCEPT ![d] = x]
      BY <3>1, Zenon DEF OnTick
    <3> QED BY <1>6, <3>1 DEF Dispatch, Sleep, SwitchOut, Leave
  <2> QED BY <1>1, <1>2, <2>1, <2>2, DeadFrame
<1>7. ASSUME NEW d \in CPU, AgeQueues(d) PROVE Dead'
  <2>1. /\ pend' = pend /\ busy' = busy /\ ctx' = [ctx EXCEPT ![d] = "tick"]
        /\ \E x : rq' = [rq EXCEPT ![d] = x]
    BY <1>7, Zenon DEF AgeQueues
  <2> QED BY <1>1, <1>2, <2>1, DeadFrame
<1>8. ASSUME NEW d \in CPU, Yield(d) PROVE Dead'
  <2>1. /\ pend' = pend /\ busy' = busy /\ ctx' = [ctx EXCEPT ![d] = "sched"]
    BY <1>8 DEF Yield, Leave
  <2>2. \A c \in CPU : c # d => rq'[c] = rq[c]
    <3>1. \E f, level, reset : Enqueue(d, at[d], f, "RUNNABLE", level, reset, FALSE)
      BY <1>8, Zenon DEF Yield
    <3> QED BY <3>1, EnqueueFrame
  <2> QED BY <1>1, <1>2, <2>1, <2>2, DeadFrame
<1>9. ASSUME NEW d \in CPU, NEW x \in Proc, Wake(d, x) \/ Fork(d, x) \/ Kick(d, x)
      PROVE  Dead'
  <2>1. /\ ctx[d] # "off" /\ UNCHANGED <<rq, busy, ctx>>
        /\ \E new \in BOOLEAN : Push(d, x, new)
    BY <1>9 DEF Wake, Fork, Kick, CanWake, InProcess
  <2> QED BY <2>1, PushChooses, DeadFrame
<1>10. ASSUME NEW d \in CPU, ChooseCpu(d) PROVE Dead'
  <2>1. PICK t \in Eligible(busy, d) : pend' = [pend EXCEPT ![d][1].to = t]
    BY <1>10 DEF ChooseCpu
  <2>2. pend[d] # <<>> /\ UNCHANGED <<rq, busy, ctx>>
    BY <1>10 DEF ChooseCpu
  <2>3. ctx[d] # "off" /\ ctx[t] # "off" /\ t \in CPU
    BY <2>1, <2>2 DEF Dead, Untouched, Eligible
  <2>4. 1 \in DOMAIN pend[d] /\ pend[d][1] \in Pending
    BY <1>1, <2>2
  <2> DEFINE e == [pend[d][1] EXCEPT !.to = t]
  <2>5. e.to = t
    BY <2>4 DEF Pending
  <2>6. pend' = [pend EXCEPT ![d] = [pend[d] EXCEPT ![1] = e]]
    BY <1>1, <2>1, <2>4
  <2> HIDE DEF e
  <2>7. /\ \A c \in CPU : c # d => pend'[c] = pend[c]
        /\ DOMAIN pend'[d] = DOMAIN pend[d] /\ pend'[d][1] = e
        /\ \A i \in DOMAIN pend[d] : i # 1 => pend'[d][i] = pend[d][i]
    BY <1>1, <2>4, <2>6
  <2>8. ASSUME NEW c \in CPU, c # t, Chosen(c)' PROVE Chosen(c)
    <3>1. PICK b \in CPU : \E i \in DOMAIN pend'[b] : pend'[b][i].to = c
      BY <2>8 DEF Chosen
    <3>2. PICK i \in DOMAIN pend'[b] : pend'[b][i].to = c
      BY <3>1
    <3>3. b # d \/ i # 1
      BY <2>5, <2>7, <2>8, <3>2
    <3> QED BY <2>7, <3>2, <3>3 DEF Chosen
  <2> QED BY <2>2, <2>3, <2>7, <2>8, DeadFrame
<1>11. ASSUME NEW d \in CPU, EnqueuePending(d) PROVE Dead'
  <2> DEFINE e == pend[d][1]
  <2>1. /\ pend[d] # <<>> /\ pend' = [pend EXCEPT ![d] = Tail(@)] /\ e.to # -1
        /\ UNCHANGED <<busy, ctx>>
        /\ Enqueue(e.to, e.p, m[e.p], st[e.p], 0, TRUE, ~e.new)
    BY <1>11 DEF EnqueuePending
  <2>2. 1 \in DOMAIN pend[d] /\ e \in Pending
    BY <1>1, <2>1
  <2>3. e.to \in CPU
    <3> HIDE DEF e
    <3> QED BY <2>1, <2>2, MlfqAssumption DEF Pending, CPU
  <2>4. ctx[d] # "off" /\ ctx[e.to] # "off"
    BY <2>1, <2>2, <2>3 DEF Dead, Untouched, Chosen
  <2>5. \A c \in CPU : c # e.to => rq'[c] = rq[c]
    <3> HIDE DEF e
    <3> QED BY <2>1, <2>3, EnqueueFrame
  <2>6. /\ \A c \in CPU : c # d => pend'[c] = pend[c]
        /\ pend'[d] = Tail(pend[d]) /\ pend[d] \in Seq(Pending)
    BY <1>1, <2>1
  <2>7. \A i \in DOMAIN pend'[d] : i + 1 \in DOMAIN pend[d] /\ pend'[d][i] = pend[d][i + 1]
    <3> DEFINE u == pend[d]
    <3>1. u \in Seq(Pending) /\ u # <<>> /\ pend'[d] = Tail(u)
      BY <2>1, <2>6
    <3> HIDE DEF u, e
    <3>2. \A i \in DOMAIN Tail(u) : i + 1 \in DOMAIN u /\ Tail(u)[i] = u[i + 1]
      BY <3>1, TailWas
    <3> QED BY <3>1, <3>2 DEF u
  <2>8. \A c \in CPU : Chosen(c)' => Chosen(c)
    BY <2>6, <2>7 DEF Chosen
  <2> QED BY <2>1, <2>4, <2>5, <2>6, <2>8, DeadFrame
<1>12. ASSUME NEW d \in CPU, NEW x \in Proc \cup {None}, Exit(d, x) PROVE Dead'
  <2>1. /\ ctx[d] # "off" /\ UNCHANGED <<rq, busy>>
        /\ ctx' = [ctx EXCEPT ![d] = "exiting"]
        /\ pend' = pend \/ (x \in Proc /\ Push(d, x, FALSE))
    BY <1>12 DEF Exit, InProcess
  <2>2. (\A c \in CPU : c # d => pend'[c] = pend[c])
        /\ \A c \in CPU : Chosen(c)' => Chosen(c)
    BY <1>2, <2>1, PushChooses
  <2> QED BY <1>1, <2>1, <2>2, DeadFrame
<1>13. ASSUME \/ \E d \in CPU, x \in Proc : Reap(d, x) \/ Slay(d, x)
              \/ ClockTick \/ UNCHANGED vars
       PROVE  Dead'
  BY <1>13 DEF Reap, Slay, ClockTick, vars, Dead, Untouched, Chosen
<1> QED
  BY <1>3, <1>4, <1>5, <1>6, <1>7, <1>8, <1>9, <1>10, <1>11, <1>12, <1>13, Zenon
  DEF Next, SchedulerStep, NewWork

(* A hart that never came up is never given work: nobody else steals from  *)
(* level 0, where new and woken processes go, so it would be lost there.   *)
THEOREM NoWorkOnDeadCpuCorrect == Spec => []NoWorkOnDeadCpu
<1>1. Init => TypeInv /\ Dead
  <2>1. ASSUME Init PROVE Dead
    <3> SUFFICES ASSUME NEW c \in CPU, ctx[c] = "off" PROVE Untouched(c) /\ ~Chosen(c)
      BY DEF Dead
    <3>1. c # 0 /\ ~busy[c]
      BY <2>1 DEF Init
    <3>2. \A l \in Level : rq[c][l] = <<>>
      BY <2>1, <3>1 DEF Init, EmptyQueues
    <3>3. \A d \in CPU : pend[d] = <<>>
      BY <2>1 DEF Init
    <3> QED BY <3>1, <3>2, <3>3 DEF Untouched, Chosen
  <2> QED BY <2>1, TypeInit
<1>2. TypeInv /\ Dead /\ [Next]_vars => TypeInv' /\ Dead'
  BY TypeStep, DeadStep
<1>3. Dead => NoWorkOnDeadCpu
  BY DEF Dead, Untouched, NoWorkOnDeadCpu
<1> QED BY <1>1, <1>2, <1>3, PTL DEF Spec

-----------------------------------------------------------------------------
(* One place for each process.                                             *)
(*                                                                         *)
(* Until a RUNNABLE process is signalled by exit_group or killed, or a     *)
(* RUNNING one is killed, mlfq_in_readyq is what tells a queued process    *)
(* from one that has been picked or is about to be queued, so the          *)
(* invariant is stated with it: an entry is unique, names a RUNNABLE       *)
(* process and agrees with what the process records; a picked or           *)
(* unfinished one is not marked as queued.  Then no scan ever drops        *)
(* anything, and every enqueue pushes.                                     *)

(* The entries of one CPU's queues, f being the fields of all processes    *)
(* and s their states.                                                     *)
Tidy(q, f, s, c) ==
  \A l \in Level : \A i \in 1 .. Len(q[l]) :
    /\ s[q[l][i]] = "RUNNABLE"
    /\ f[q[l][i]].inq /\ f[q[l][i]].cpu = c /\ f[q[l][i]].level = l
    /\ \A j \in 1 .. Len(q[l]) : q[l][j] = q[l][i] => j = i

(* Whoever is queued by f and s is by g and t.                             *)
Carries(f, s, g, t) ==
  \A p \in Proc : f[p].inq /\ s[p] = "RUNNABLE" =>
    /\ t[p] = "RUNNABLE" /\ g[p].inq /\ g[p].cpu = f[p].cpu
    /\ g[p].level = f[p].level

(* The fields g are those of f but for process e.                          *)
SameBut(f, g, e) ==
  \A p \in Proc \ {e} :
    g[p].inq = f[p].inq /\ g[p].cpu = f[p].cpu /\ g[p].level = f[p].level

(* Process e is queued on level k of CPU c, by its state and its fields.   *)
Shown(g, t, e, c, k) ==
  t[e] = "RUNNABLE" /\ g[e].inq /\ g[e].cpu = c /\ g[e].level = k

(* r is s with e put at its end or in front.                               *)
Pushed(s, r, e) == r = Append(s, e) \/ r = <<e>> \o s

(* h is q but for level k, which is r.                                     *)
Put(h, q, k, r) == h = [q EXCEPT ![k] = r]

QueuesTidy == \A c \in CPU : Tidy(rq[c], m, st, c)

MarksTrue == \A p \in Proc : m[p].inq => Queued(p)

PickedAlone ==
  \A c \in CPU : ctx[c] = "picked" =>
    /\ st[at[c]] = "RUNNABLE" /\ ~m[at[c]].inq
    /\ \A d \in CPU : ctx[d] = "picked" /\ at[d] = at[c] => d = c

PendingAlone ==
  \A c \in CPU : \A i \in DOMAIN pend[c] :
    /\ st[pend[c][i].p] = "RUNNABLE" /\ ~m[pend[c][i].p].inq
    /\ \A d \in CPU : ctx[d] = "picked" => at[d] # pend[c][i].p
    /\ \A d \in CPU : \A j \in DOMAIN pend[d] :
         pend[d][j].p = pend[c][i].p => d = c /\ j = i

Shallow == \A c \in CPU : Len(pend[c]) <= MaxDepth

Places ==
  /\ QueuesTidy /\ MarksTrue /\ PickedAlone /\ PendingAlone
OneHome == (kicks = 0 /\ hits = 0 => Places) /\ Shallow

-----------------------------------------------------------------------------
(* What a step leaves alone.                                               *)

(* What the invariant says of p reads only these.                          *)
Keeps(p) ==
  /\ st'[p] = st[p] /\ m'[p].inq = m[p].inq
  /\ m'[p].cpu = m[p].cpu /\ m'[p].level = m[p].level

(* Only queued processes are marked, and they are RUNNABLE.                *)
LEMMA Unmarked ==
  ASSUME TypeInv, Places, NEW p \in Proc, st[p] # "RUNNABLE"
  PROVE  /\ ~m[p].inq /\ ~Queued(p)
         /\ \A c \in CPU : ctx[c] = "picked" => at[c] # p
         /\ \A c \in CPU : \A i \in DOMAIN pend[c] : pend[c][i].p # p
<1>1. ~Queued(p)
  <2>1. ASSUME NEW c \in CPU, Contains(rq[c], p) PROVE FALSE
    <3>1. rq[c] \in Queues
      BY DEF TypeInv, TypeOK
    <3>2. PICK l \in Level : \E i \in 1 .. Len(rq[c][l]) : rq[c][l][i] = p
      BY <2>1, <3>1, ContainsEntry
    <3> QED BY <3>2 DEF Places, QueuesTidy, Tidy
  <2> QED BY <2>1 DEF Queued
<1> QED BY <1>1 DEF Places, MarksTrue, PickedAlone, PendingAlone

(* A queued process is marked.                                             *)
LEMMA Marked ==
  ASSUME TypeInv, Places, NEW p \in Proc, NEW c \in CPU, Contains(rq[c], p)
  PROVE  m[p].inq /\ m[p].cpu = c /\ st[p] = "RUNNABLE"
<1>1. rq[c] \in Queues
  BY DEF TypeInv, TypeOK
<1>2. PICK l \in Level : \E i \in 1 .. Len(rq[c][l]) : rq[c][l][i] = p
  BY <1>1, ContainsEntry
<1> QED BY <1>2 DEF Places, QueuesTidy, Tidy

(* Unfinished enqueues are for processes.                                  *)
LEMMA PendingProcs ==
  ASSUME TypeInv, NEW c \in CPU, NEW i \in DOMAIN pend[c]
  PROVE  pend[c][i] \in Pending /\ pend[c][i].p \in Proc
<1>1. pend[c] \in Seq(Pending)
  BY DEF TypeInv, TypeOK
<1>2. pend[c][i] \in Pending
  BY <1>1
<1> QED BY <1>2 DEF Pending

(* Queues that stay, of processes that keep what they are marked with.     *)
LEMMA TidyStays ==
  ASSUME NEW q \in Queues, NEW f, NEW g, NEW s, NEW t, NEW c, Tidy(q, f, s, c),
         Carries(f, s, g, t)
  PROVE  Tidy(q, g, t, c)
<1>1. \A l \in Level : \A i \in 1 .. Len(q[l]) : q[l][i] \in Proc
  BY DEF Queues
<1> QED BY <1>1 DEF Tidy, Carries

(* Queues nobody touches.                                                  *)
LEMMA QueuesStay ==
  ASSUME TypeInv, Places, rq' = rq,
         \A p \in Proc : m[p].inq => Keeps(p),
         \A p \in Proc : m'[p].inq => m[p].inq
  PROVE  QueuesTidy' /\ MarksTrue'
<1>1. ASSUME NEW c \in CPU PROVE Tidy(rq[c], m', st', c)
  <2>1. rq[c] \in Queues /\ Tidy(rq[c], m, st, c)
    BY DEF TypeInv, TypeOK, Places, QueuesTidy
  <2>2. Carries(m, st, m', st')
    BY DEF Keeps, Carries
  <2> QED BY <2>1, <2>2, TidyStays
<1> QED BY <1>1 DEF Places, QueuesTidy, MarksTrue, Queued

(* No process is picked that was not.                                      *)
LEMMA PicksStay ==
  ASSUME TypeInv, Places,
         \A c \in CPU : ctx'[c] = "picked" =>
           ctx[c] = "picked" /\ at'[c] = at[c] /\ Keeps(at[c])
  PROVE  PickedAlone'
BY DEF Places, PickedAlone, Keeps

(* The unfinished enqueues are for the same processes as before.           *)
LEMMA PendsStay ==
  ASSUME TypeInv, Places,
         \A c \in CPU : ctx'[c] = "picked" => ctx[c] = "picked" /\ at'[c] = at[c],
         \A c \in CPU : /\ DOMAIN pend'[c] = DOMAIN pend[c]
                        /\ \A i \in DOMAIN pend[c] :
                             pend'[c][i].p = pend[c][i].p /\ Keeps(pend[c][i].p)
  PROVE  PendingAlone'
BY DEF Places, PendingAlone, Keeps

(* A process without a place gets one more unfinished enqueue.             *)
LEMMA PendsGrow ==
  ASSUME TypeInv, Places, NEW c \in CPU, NEW y \in Proc, NEW new \in BOOLEAN,
         Push(c, y, new), st[y] # "RUNNABLE", st'[y] = "RUNNABLE", ~m'[y].inq,
         \A d \in CPU : ctx'[d] = "picked" => ctx[d] = "picked" /\ at'[d] = at[d],
         \A d \in CPU : \A i \in DOMAIN pend[d] : Keeps(pend[d][i].p)
  PROVE  PendingAlone'
<1> DEFINE e == [p |-> y, new |-> new, to |-> -1]
<1>1. e \in Pending /\ e.p = y
  BY MlfqAssumption DEF Pending, CPU
<1> HIDE DEF e
<1>2. /\ pend \in [CPU -> Seq(Pending)]
      /\ pend'[c] = <<e>> \o pend[c]
      /\ \A d \in CPU : d # c => pend'[d] = pend[d]
  <2>1. pend \in [CPU -> Seq(Pending)]
    BY DEF TypeInv, TypeOK
  <2> QED BY <2>1 DEF Push, e
<1>3. \A i \in DOMAIN pend'[c] :
        \/ i = 1 /\ pend'[c][i] = e
        \/ i - 1 \in DOMAIN pend[c] /\ pend'[c][i] = pend[c][i - 1]
  BY <1>1, <1>2, ConsWas
<1>4. DOMAIN pend'[c] \subseteq Int /\ \A d \in CPU : DOMAIN pend[d] \subseteq Int
  BY <1>1, <1>2
<1>5. /\ \A d \in CPU : ctx[d] = "picked" => at[d] # y
      /\ \A d \in CPU : \A i \in DOMAIN pend[d] : pend[d][i].p # y
  BY Unmarked
(* Where an entry was, if it is not the new one.                           *)
<1>6. ASSUME NEW d \in CPU, NEW i \in DOMAIN pend'[d]
      PROVE  \/ d = c /\ i = 1 /\ pend'[d][i].p = y
             \/ \E k \in DOMAIN pend[d] : /\ pend'[d][i] = pend[d][k]
                                          /\ k = IF d = c THEN i - 1 ELSE i
  BY <1>1, <1>2, <1>3
<1> HIDE DEF Keeps
<1>7. ASSUME NEW d \in CPU, NEW i \in DOMAIN pend'[d]
      PROVE  /\ st'[pend'[d][i].p] = "RUNNABLE" /\ ~m'[pend'[d][i].p].inq
             /\ \A b \in CPU : ctx'[b] = "picked" => at'[b] # pend'[d][i].p
             /\ \A b \in CPU : \A j \in DOMAIN pend'[b] :
                  pend'[b][j].p = pend'[d][i].p => b = d /\ j = i
  <2>1. CASE d = c /\ i = 1 /\ pend'[d][i].p = y
    <3>1. ASSUME NEW b \in CPU, NEW j \in DOMAIN pend'[b], pend'[b][j].p = y
          PROVE  b = d /\ j = i
      BY <1>5, <1>6, <2>1, <3>1
    <3> QED BY <1>5, <2>1, <3>1
  <2>2. CASE \E k \in DOMAIN pend[d] : /\ pend'[d][i] = pend[d][k]
                                       /\ k = IF d = c THEN i - 1 ELSE i
    <3>1. PICK k \in DOMAIN pend[d] : /\ pend'[d][i] = pend[d][k]
                                      /\ k = IF d = c THEN i - 1 ELSE i
      BY <2>2
    <3>2. /\ st'[pend[d][k].p] = "RUNNABLE" /\ ~m'[pend[d][k].p].inq
          /\ \A b \in CPU : ctx'[b] = "picked" => at'[b] # pend[d][k].p
      BY DEF Places, PendingAlone, Keeps
    <3>3. ASSUME NEW b \in CPU, NEW j \in DOMAIN pend'[b], pend'[b][j].p = pend[d][k].p
          PROVE  b = d /\ j = i
      <4>1. pend'[b][j].p # y
        BY <1>5, <3>3
      <4>2. PICK n \in DOMAIN pend[b] : /\ pend'[b][j] = pend[b][n]
                                        /\ n = IF b = c THEN j - 1 ELSE j
        BY <1>6, <3>3, <4>1
      <4>3. b = d /\ n = k
        BY <3>3, <4>2 DEF Places, PendingAlone
      <4> QED BY <1>2, <1>4, <3>1, <4>2, <4>3
    <3> QED BY <3>1, <3>2, <3>3
  <2> QED BY <1>6, <2>1, <2>2
<1> QED BY <1>7 DEF PendingAlone

(* A step that concerns only processes that have no place before or after. *)
LEMMA PlacesStay ==
  ASSUME TypeInv, Places, NEW X \in SUBSET Proc, rq' = rq,
         \A x \in X : st[x] # "RUNNABLE" /\ ~m'[x].inq,
         \A p \in Proc \ X : Keeps(p),
         \A c \in CPU : ctx'[c] = "picked" => ctx[c] = "picked" /\ at'[c] = at[c],
         \A c \in CPU : /\ DOMAIN pend'[c] = DOMAIN pend[c]
                        /\ \A i \in DOMAIN pend[c] : pend'[c][i].p = pend[c][i].p
  PROVE  Places'
<1>1. \A p \in Proc : m[p].inq => Keeps(p)
  BY Unmarked
<1>2. \A p \in Proc : m'[p].inq => m[p].inq
  BY DEF Keeps
<1>3. \A c \in CPU : ctx[c] = "picked" => at[c] \in Proc /\ Keeps(at[c])
  BY Unmarked DEF TypeInv, Named
<1>4. \A c \in CPU : \A i \in DOMAIN pend[c] : Keeps(pend[c][i].p)
  <2>1. \A c \in CPU : \A i \in DOMAIN pend[c] : pend[c][i].p \in Proc
    BY PendingProcs
  <2> QED BY <2>1, Unmarked
<1>5. QueuesTidy' /\ MarksTrue'
  BY <1>1, <1>2, QueuesStay
<1>6. PickedAlone'
  BY <1>3, PicksStay
<1>7. PendingAlone'
  BY <1>4, PendsStay
<1> QED BY <1>5, <1>6, <1>7 DEF Places

(* A step that makes a process without a place RUNNABLE, to be enqueued.   *)
LEMMA PlacesGrow ==
  ASSUME TypeInv, Places, NEW X \in SUBSET Proc, rq' = rq,
         \A x \in X : st[x] # "RUNNABLE" /\ ~m'[x].inq,
         \A p \in Proc \ X : Keeps(p),
         \A c \in CPU : ctx'[c] = "picked" => ctx[c] = "picked" /\ at'[c] = at[c],
         NEW c \in CPU, NEW y \in X, NEW new \in BOOLEAN,
         Push(c, y, new), st'[y] = "RUNNABLE"
  PROVE  Places'
<1>1. \A p \in Proc : m[p].inq => Keeps(p)
  BY Unmarked
<1>2. \A p \in Proc : m'[p].inq => m[p].inq
  BY DEF Keeps
<1>3. \A d \in CPU : ctx[d] = "picked" => at[d] \in Proc /\ Keeps(at[d])
  BY Unmarked DEF TypeInv, Named
<1>4. \A d \in CPU : \A i \in DOMAIN pend[d] : Keeps(pend[d][i].p)
  <2>1. \A d \in CPU : \A i \in DOMAIN pend[d] : pend[d][i].p \in Proc
    BY PendingProcs
  <2> QED BY <2>1, Unmarked
<1>5. QueuesTidy' /\ MarksTrue'
  BY <1>1, <1>2, QueuesStay
<1>6. PickedAlone'
  BY <1>3, PicksStay
<1>7. PendingAlone'
  BY <1>4, PendsGrow
<1> QED BY <1>5, <1>6, <1>7 DEF Places

-----------------------------------------------------------------------------
(* The steps that leave the queues alone.                                  *)

(* What is written to the fields of one process.                           *)
LEMMA OthersKeep ==
  ASSUME TypeInv, NEW x, NEW f, m' = [m EXCEPT ![x] = f],
         NEW p \in Proc, p # x, st'[p] = st[p]
  PROVE  Keeps(p)
BY DEF Keeps, TypeInv, TypeOK

(* A process is made RUNNABLE by a wakeup or a fork.                       *)
LEMMA WakeKeeps ==
  ASSUME TypeInv, Places, NEW c \in CPU, NEW p \in Proc, Wake(c, p) \/ Fork(c, p)
  PROVE  Places'
<1>1. /\ st' = [st EXCEPT ![p] = "RUNNABLE"] /\ st[p] # "RUNNABLE"
      /\ rq' = rq /\ ctx' = ctx /\ at' = at
      /\ Push(c, p, FALSE) \/ Push(c, p, TRUE)
      /\ \/ m' = [m EXCEPT ![p] = ClearedFields]
         \/ m' = [m EXCEPT ![p] = [m[p] EXCEPT !.inq = FALSE, !.age = 0]]
  <2>1. CASE Wake(c, p)
    BY <2>1 DEF Wake, TypeInv, TypeOK
  <2>2. CASE Fork(c, p)
    BY <2>2 DEF Fork
  <2> QED BY <2>1, <2>2
<1>2. ~m'[p].inq /\ st'[p] = "RUNNABLE"
  <2>1. m \in [Proc -> MlfqFields] /\ m[p] \in MlfqFields /\ st'[p] = "RUNNABLE"
    BY <1>1 DEF TypeInv, TypeOK
  <2>2. CASE m' = [m EXCEPT ![p] = ClearedFields]
    BY <2>1, <2>2 DEF ClearedFields
  <2>3. CASE m' = [m EXCEPT ![p] = [m[p] EXCEPT !.inq = FALSE, !.age = 0]]
    <3>1. m'[p] = [m[p] EXCEPT !.inq = FALSE, !.age = 0]
      BY <2>1, <2>3
    <3> QED BY <2>1, <3>1 DEF MlfqFields
  <2> QED BY <1>1, <2>1, <2>2, <2>3
<1>3. \A x \in Proc \ {p} : Keeps(x)
  <2>1. \A x \in Proc \ {p} : st'[x] = st[x]
    BY <1>1 DEF TypeInv, TypeOK
  <2> QED BY <1>1, <2>1, OthersKeep
<1>4. CASE Push(c, p, FALSE)
  BY <1>1, <1>2, <1>3, <1>4, PlacesGrow
<1>5. CASE Push(c, p, TRUE)
  BY <1>1, <1>2, <1>3, <1>5, PlacesGrow
<1> QED BY <1>1, <1>4, <1>5

(* A process dies, and may wake its parent.                                *)
LEMMA ExitKeeps ==
  ASSUME TypeInv, Stacks, Places, NEW c \in CPU, NEW parent \in Proc \cup {None},
         Exit(c, parent)
  PROVE  Places'
<1> DEFINE p == at[c]
<1>1. /\ p \in Proc /\ st[p] = "RUNNING" /\ ctx[c] = "run"
      /\ rq' = rq /\ at' = at /\ ctx' = [ctx EXCEPT ![c] = "exiting"]
  BY DEF Exit, InProcess, TypeInv, Named, Stacks, Alive, OnStack
<1> HIDE DEF p
<1>2. \A d \in CPU : ctx'[d] = "picked" => ctx[d] = "picked" /\ at'[d] = at[d]
  BY <1>1 DEF TypeInv, TypeOK
<1>3. ~m[p].inq
  BY <1>1, Unmarked
<1>4. CASE st' = [st EXCEPT ![p] = "ZOMBIE"] /\ m' = m /\ pend' = pend
  <2>1. \A x \in Proc \ {p} : Keeps(x)
    BY <1>4 DEF Keeps, TypeInv, TypeOK
  <2>2. \A x \in {p} : st[x] # "RUNNABLE" /\ ~m'[x].inq
    BY <1>1, <1>3, <1>4
  <2>3. \A d \in CPU : /\ DOMAIN pend'[d] = DOMAIN pend[d]
                       /\ \A i \in DOMAIN pend[d] : pend'[d][i].p = pend[d][i].p
    BY <1>4
  <2>4. {p} \in SUBSET Proc /\ rq' = rq
    BY <1>1
  <2> QED BY <1>2, <2>1, <2>2, <2>3, <2>4, PlacesStay
<1>5. CASE /\ parent # None /\ st[parent] = "SLEEPING"
           /\ st' = [st EXCEPT ![p] = "ZOMBIE", ![parent] = "RUNNABLE"]
           /\ m' = [m EXCEPT ![parent] = [m[parent] EXCEPT !.inq = FALSE, !.age = 0]]
           /\ Push(c, parent, FALSE)
  <2>1. parent \in Proc /\ parent # p /\ st'[parent] = "RUNNABLE"
    BY <1>1, <1>5 DEF TypeInv, TypeOK
  <2>2. ~m'[parent].inq
    BY <1>5, <2>1 DEF TypeInv, TypeOK, MlfqFields
  <2>3. ~m'[p].inq
    BY <1>1, <1>3, <1>5, <2>1 DEF TypeInv, TypeOK
  <2>4. \A x \in Proc \ {p, parent} : Keeps(x)
    <3>1. \A x \in Proc \ {p, parent} : st'[x] = st[x]
      BY <1>5 DEF TypeInv, TypeOK
    <3> QED BY <1>5, <3>1, OthersKeep
  <2> QED BY <1>1, <1>2, <1>5, <2>1, <2>2, <2>3, <2>4, PlacesGrow
<1> QED BY <1>4, <1>5 DEF Exit, p, TypeInv, TypeOK

(* A process goes to sleep, a sleeper is killed, or a slot is freed.       *)
LEMMA LeaveKeeps ==
  ASSUME TypeInv, Stacks, Places, NEW c \in CPU,
         \/ Sleep(c)
         \/ SwitchOut(c)
         \/ \E p \in Proc : Reap(c, p) \/ (Slay(c, p) /\ st[p] = "SLEEPING")
  PROVE  Places'
<1>1. PICK x \in Proc :
        /\ st[x] # "RUNNABLE" /\ rq' = rq /\ pend' = pend
        /\ \/ ctx' = ctx /\ at' = at
           \/ ctx' = [ctx EXCEPT ![c] = "sched"] /\ at' = [at EXCEPT ![c] = None]
        /\ \/ st' = st /\ m' = m
           \/ /\ \E t : st' = [st EXCEPT ![x] = t]
              /\ \/ m' = m
                 \/ m' = [m EXCEPT ![x] = ClearedFields]
                 \/ m' = [m EXCEPT ![x] = [m[x] EXCEPT !.inq = FALSE]]
  <2>1. CASE Sleep(c)
    <3>1. at[c] \in Proc /\ st[at[c]] = "RUNNING"
      BY <2>1 DEF Sleep, InProcess, TypeInv, Named, Stacks, Alive, OnStack
    <3>2. m' = [m EXCEPT ![at[c]] = [m[at[c]] EXCEPT !.inq = FALSE]]
      BY <2>1, <3>1 DEF Sleep, TypeInv, TypeOK
    <3> QED BY <2>1, <3>1, <3>2 DEF Sleep, Leave
  <2>2. CASE SwitchOut(c)
    <3>1. at[c] \in Proc /\ st[at[c]] = "ZOMBIE"
      BY <2>2 DEF SwitchOut, TypeInv, Named, Stacks, OnStack
    <3> QED BY <2>2, <3>1 DEF SwitchOut, Leave
  <2>3. ASSUME NEW p \in Proc, Reap(c, p)
        PROVE  /\ st[p] # "RUNNABLE" /\ rq' = rq /\ pend' = pend
               /\ ctx' = ctx /\ at' = at
               /\ st' = [st EXCEPT ![p] = "UNUSED"]
               /\ m' = [m EXCEPT ![p] = ClearedFields]
    BY <2>3 DEF Reap
  <2>4. CASE \E p \in Proc : Reap(c, p)
    <3>1. PICK p \in Proc : Reap(c, p)
      BY <2>4
    <3> QED BY <2>3, <3>1
  <2>5. CASE \E p \in Proc : Slay(c, p) /\ st[p] = "SLEEPING"
    <3>1. PICK p \in Proc : Slay(c, p) /\ st[p] = "SLEEPING"
      BY <2>5
    <3> QED BY <3>1 DEF Slay
  <2> QED BY <2>1, <2>2, <2>4, <2>5
<1>2. \A d \in CPU : ctx'[d] = "picked" => ctx[d] = "picked" /\ at'[d] = at[d]
  BY <1>1 DEF TypeInv, TypeOK
<1>3. \A y \in Proc \ {x} : Keeps(y)
  <2>1. \A y \in Proc \ {x} : st'[y] = st[y]
    BY <1>1 DEF TypeInv, TypeOK
  <2>2. CASE m' = m
    BY <2>1, <2>2 DEF Keeps
  <2> QED BY <1>1, <2>1, <2>2, OthersKeep
<1>4. ~m'[x].inq
  <2>1. m \in [Proc -> MlfqFields] /\ m[x] \in MlfqFields
    BY DEF TypeInv, TypeOK
  <2>2. CASE m' = m
    BY <1>1, <2>2, Unmarked
  <2>3. CASE m' = [m EXCEPT ![x] = ClearedFields]
    BY <2>1, <2>3 DEF ClearedFields
  <2>4. CASE m' = [m EXCEPT ![x] = [m[x] EXCEPT !.inq = FALSE]]
    <3>1. m'[x] = [m[x] EXCEPT !.inq = FALSE]
      BY <2>1, <2>4
    <3> QED BY <2>1, <3>1 DEF MlfqFields
  <2> QED BY <1>1, <2>2, <2>3, <2>4
<1>5. \A y \in {x} : st[y] # "RUNNABLE" /\ ~m'[y].inq
  BY <1>1, <1>4
<1>6. \A d \in CPU : /\ DOMAIN pend'[d] = DOMAIN pend[d]
                     /\ \A i \in DOMAIN pend[d] : pend'[d][i].p = pend[d][i].p
  BY <1>1
<1>7. {x} \in SUBSET Proc /\ rq' = rq
  BY <1>1
<1> QED BY <1>2, <1>3, <1>5, <1>6, <1>7, PlacesStay

(* The clock, the slice of the process that runs, the choice of a CPU.     *)
LEMMA TickKeeps ==
  ASSUME TypeInv, Stacks, Places, NEW c \in CPU,
         Boot(c) \/ OnTick(c) \/ ChooseCpu(c) \/ ClockTick \/ UNCHANGED vars
  PROVE  Places'
<1>1. /\ st' = st /\ rq' = rq /\ at' = at
      /\ \A d \in CPU : ctx'[d] = "picked" => ctx[d] = "picked"
  BY DEF Boot, OnTick, ChooseCpu, ClockTick, vars, TypeInv, TypeOK
<1>2. \A p \in Proc : /\ m'[p].inq = m[p].inq /\ m'[p].cpu = m[p].cpu
                      /\ m'[p].level = m[p].level
  <2>1. m \in [Proc -> MlfqFields] /\ \A p \in Proc : m[p] \in MlfqFields
    BY DEF TypeInv, TypeOK
  <2>2. CASE OnTick(c)
    <3>1. PICK left, why : m' = [m EXCEPT ![at[c]] =
                                   [m[at[c]] EXCEPT !.ticks = left, !.reason = why]]
      <4> DEFINE p == at[c]
                 left == IF m[p].ticks > 0 THEN m[p].ticks - 1 ELSE 0
                 why  == CASE left = 0 -> "EXPIRE"
                           [] left > 0 /\ HasHigher(rq[c], m[p].level) -> "HIGHER"
                           [] OTHER -> "NONE"
                 why2 == IF why = "NONE" THEN m[p].reason ELSE why
      <4>1. m' = [m EXCEPT ![p].ticks = left,
                           ![p].reason = IF why = "NONE" THEN @ ELSE why]
        BY <2>2, Zenon DEF OnTick
      <4>2. p \in Proc
        BY <2>2 DEF OnTick, TypeInv, Named, OnStack, Alive
      <4> HIDE DEF left, why, p
      <4>3. m' = [m EXCEPT ![p] = [m[p] EXCEPT !.ticks = left, !.reason = why2]]
        BY <2>1, <4>1, <4>2 DEF MlfqFields
      <4> QED BY <4>3 DEF p
    <3>2. \A p \in Proc \ {at[c]} : m'[p] = m[p]
      BY <2>1, <3>1
    <3>3. at[c] \in Proc /\ m'[at[c]] = [m[at[c]] EXCEPT !.ticks = left, !.reason = why]
      BY <2>1, <2>2, <3>1 DEF OnTick, TypeInv, Named, OnStack, Alive
    <3>4. /\ m'[at[c]].inq = m[at[c]].inq /\ m'[at[c]].cpu = m[at[c]].cpu
          /\ m'[at[c]].level = m[at[c]].level
      BY <2>1, <3>3 DEF MlfqFields
    <3> QED BY <3>2, <3>4
  <2>3. CASE ClockTick
    <3>1. ASSUME NEW p \in Proc
          PROVE  m'[p] = m[p] \/ m'[p] = [m[p] EXCEPT !.age = m[p].age + 1]
      BY <2>1, <2>3 DEF ClockTick
    <3> QED BY <2>1, <3>1 DEF MlfqFields
  <2>4. CASE Boot(c) \/ ChooseCpu(c) \/ UNCHANGED vars
    BY <2>4 DEF Boot, ChooseCpu, vars
  <2> QED BY <2>2, <2>3, <2>4
<1>3. \A d \in CPU : /\ DOMAIN pend'[d] = DOMAIN pend[d]
                     /\ \A i \in DOMAIN pend[d] : pend'[d][i].p = pend[d][i].p
  <2>1. CASE ChooseCpu(c)
    <3>1. PICK d : pend' = [pend EXCEPT ![c][1].to = d]
      BY <2>1 DEF ChooseCpu
    <3>2. pend \in [CPU -> Seq(Pending)] /\ 1 \in DOMAIN pend[c]
      BY <2>1 DEF ChooseCpu, TypeInv, TypeOK
    <3>3. /\ pend'[c] = [pend[c] EXCEPT ![1] = [pend[c][1] EXCEPT !.to = d]]
          /\ \A b \in CPU : b # c => pend'[b] = pend[b]
      BY <3>1, <3>2
    <3>4. pend'[c][1] = [pend[c][1] EXCEPT !.to = d] /\ pend[c][1] \in Pending
      BY <3>2, <3>3, PendingProcs
    <3>5. pend'[c][1].p = pend[c][1].p
      BY <3>4 DEF Pending
    <3>6. DOMAIN pend'[c] = DOMAIN pend[c] /\ \A i \in DOMAIN pend[c] : i # 1 => pend'[c][i] = pend[c][i]
      BY <3>3
    <3> QED BY <3>3, <3>5, <3>6
  <2>2. CASE pend' = pend
    BY <2>2
  <2> QED BY <2>1, <2>2 DEF Boot, OnTick, ClockTick, vars
<1>4. \A p \in Proc \ {} : Keeps(p)
  BY <1>1, <1>2 DEF Keeps
<1>5. /\ {} \in SUBSET Proc /\ rq' = rq
      /\ \A x \in {} : st[x] # "RUNNABLE" /\ ~m'[x].inq
      /\ \A d \in CPU : ctx'[d] = "picked" => ctx[d] = "picked" /\ at'[d] = at[d]
  BY <1>1
<1> QED BY <1>3, <1>4, <1>5, PlacesStay

(* The scheduler runs what it has picked, for that is still RUNNABLE.      *)
LEMMA DispatchKeeps ==
  ASSUME TypeInv, Places, NEW c \in CPU, Dispatch(c)
  PROVE  Places'
<1> DEFINE p == at[c]
<1>1. /\ p \in Proc /\ st[p] = "RUNNABLE" /\ ~m[p].inq /\ ctx[c] = "picked"
      /\ \A d \in CPU : ctx[d] = "picked" /\ at[d] = p => d = c
      /\ \A d \in CPU : \A i \in DOMAIN pend[d] : pend[d][i].p # p
  BY DEF Dispatch, TypeInv, Named, Places, PickedAlone, PendingAlone
<1>2. /\ st' = [st EXCEPT ![p] = "RUNNING"]
      /\ m' = [m EXCEPT ![p].cpu = c, ![p].age = 0]
      /\ ctx' = [ctx EXCEPT ![c] = "run"]
      /\ at' = at /\ rq' = rq /\ pend' = pend
  BY <1>1 DEF Dispatch
<1> HIDE DEF p
<1>3. \A x \in Proc \ {p} : Keeps(x)
  BY <1>2 DEF Keeps, TypeInv, TypeOK
<1>4. ~m'[p].inq
  <2>1. m \in [Proc -> MlfqFields] /\ m[p] \in MlfqFields
    BY <1>1 DEF TypeInv, TypeOK
  <2>2. m'[p] = [m[p] EXCEPT !.cpu = c, !.age = 0]
    BY <1>1, <1>2, <2>1
  <2> QED BY <1>1, <2>1, <2>2 DEF MlfqFields
<1>5. QueuesTidy' /\ MarksTrue'
  <2>1. \A x \in Proc : m[x].inq => Keeps(x)
    BY <1>1, <1>3
  <2>2. \A x \in Proc : m'[x].inq => m[x].inq
    BY <1>3, <1>4 DEF Keeps
  <2> QED BY <1>2, <2>1, <2>2, QueuesStay
<1>6. \A d \in CPU : ctx'[d] = "picked" =>
        ctx[d] = "picked" /\ at'[d] = at[d] /\ Keeps(at[d])
  <2>1. \A d \in CPU : ctx'[d] = "picked" => d # c /\ ctx[d] = "picked" /\ at[d] \in Proc
    BY <1>2 DEF TypeInv, TypeOK, Named
  <2> QED BY <1>1, <1>2, <1>3, <2>1
<1>7. PickedAlone'
  BY <1>6, PicksStay
<1>8. \A d \in CPU : /\ DOMAIN pend'[d] = DOMAIN pend[d]
                     /\ \A i \in DOMAIN pend[d] :
                          pend'[d][i].p = pend[d][i].p /\ Keeps(pend[d][i].p)
  BY <1>1, <1>2, <1>3, PendingProcs
<1>9. PendingAlone'
  BY <1>6, <1>8, PendsStay
<1> QED BY <1>5, <1>7, <1>9 DEF Places

-----------------------------------------------------------------------------
(* Pushing.                                                                *)

(* One more entry in a level keeps the queues of a CPU tidy.               *)
LEMMA TidyPush ==
  ASSUME NEW q \in Queues, NEW f, NEW g, NEW s, NEW t, NEW c, Tidy(q, f, s, c),
         NEW k \in Level, NEW e \in Proc, ~f[e].inq, NEW r, Pushed(q[k], r, e),
         Shown(g, t, e, c, k), Carries(f, s, g, t),
         NEW h, Put(h, q, k, r)
  PROVE  Tidy(h, g, t, c)
<1> USE DEF Shown
<1>a. q[k] \in Seq(Proc) /\ \A l \in Level : q[l] \in Seq(Proc)
  BY DEF Queues
<1>b. r = Append(q[k], e) \/ r = <<e>> \o q[k]
  BY DEF Pushed
<1>c. Append(q[k], e) \in Seq(Proc) /\ <<e>> \o q[k] \in Seq(Proc)
  BY <1>a
<1>1. q[k] \in Seq(Proc) /\ r \in Seq(Proc) /\ \A l \in Level : q[l] \in Seq(Proc)
  BY <1>a, <1>b, <1>c
<1>2. h[k] = r /\ \A l \in Level : l # k => h[l] = q[l]
  BY <1>1 DEF Queues, Put
<1>3. Tidy(q, g, t, c)
  BY TidyStays
<1>4. \A i \in 1 .. Len(q[k]) : q[k][i] # e
  BY DEF Tidy
<1>5. CASE r = Append(q[k], e)
  <2>1. /\ Len(r) = Len(q[k]) + 1 /\ r[Len(r)] = e
        /\ \A i \in 1 .. Len(r) : i # Len(r) => i \in 1 .. Len(q[k]) /\ r[i] = q[k][i]
    BY <1>1, <1>5
  <2>2. \A i, j \in 1 .. Len(r) : r[i] = r[j] => i = j
    BY <1>3, <1>4, <2>1 DEF Tidy
  <2>3. \A i \in 1 .. Len(r) : r[i] = e \/ \E j \in 1 .. Len(q[k]) : r[i] = q[k][j]
    BY <2>1
  <2>4. \A i \in 1 .. Len(r) :
           /\ t[r[i]] = "RUNNABLE"
           /\ g[r[i]].inq /\ g[r[i]].cpu = c /\ g[r[i]].level = k
    BY <1>3, <2>3 DEF Tidy
  <2> QED BY <1>2, <1>3, <2>2, <2>4 DEF Tidy
<1>6. CASE r = <<e>> \o q[k]
  <2>1. /\ Len(r) = Len(q[k]) + 1 /\ r[1] = e
        /\ \A i \in 1 .. Len(r) : i # 1 => i - 1 \in 1 .. Len(q[k]) /\ r[i] = q[k][i - 1]
    BY <1>1, <1>6
  <2>2. \A i, j \in 1 .. Len(r) : r[i] = r[j] => i = j
    <3>1. \A i, j \in 1 .. Len(r) : i # 1 /\ j # 1 /\ r[i] = r[j] => i - 1 = j - 1
      BY <1>3, <2>1 DEF Tidy
    <3>2. \A i \in 1 .. Len(r) : i # 1 => r[i] # e
      BY <1>4, <2>1
    <3> QED BY <2>1, <3>1, <3>2
  <2>3. \A i \in 1 .. Len(r) : r[i] = e \/ \E j \in 1 .. Len(q[k]) : r[i] = q[k][j]
    BY <2>1
  <2>4. \A i \in 1 .. Len(r) :
           /\ t[r[i]] = "RUNNABLE"
           /\ g[r[i]].inq /\ g[r[i]].cpu = c /\ g[r[i]].level = k
    BY <1>3, <2>3 DEF Tidy
  <2> QED BY <1>2, <1>3, <2>2, <2>4 DEF Tidy
<1> QED BY <1>b, <1>5, <1>6

(* Whoever stood in the queues still does, and e.                          *)
LEMMA PushHolds ==
  ASSUME NEW q \in Queues, NEW k \in Level, NEW e \in Proc, NEW r, Pushed(q[k], r, e),
         NEW h, Put(h, q, k, r)
  PROVE  /\ Contains(h, e)
         /\ \A p : Contains(q, p) => Contains(h, p)
<1>1. PICK x \in {Append(q[k], e), <<e>> \o q[k]} : x = r
  BY DEF Pushed
<1>2. /\ Contains([q EXCEPT ![k] = x], e)
      /\ \A p : Contains(q, p) => Contains([q EXCEPT ![k] = x], p)
  BY PushKeeps
<1> QED BY <1>1, <1>2 DEF Put

(* What is pushed on CPU d was in no queue.                                *)
LEMMA PushPlaces ==
  ASSUME TypeInv, Places, NEW d \in CPU, NEW k \in Level, NEW e \in Proc, ~m[e].inq,
         NEW r, Pushed(rq[d][k], r, e),
         rq' = [rq EXCEPT ![d] = [rq[d] EXCEPT ![k] = r]],
         m'[e].inq, m'[e].cpu = d, m'[e].level = k, st'[e] = "RUNNABLE",
         \A p \in Proc \ {e} : Keeps(p)
  PROVE  QueuesTidy' /\ MarksTrue'
<1>1. rq \in [CPU -> Queues] /\ \A c \in CPU : rq[c] \in Queues /\ Tidy(rq[c], m, st, c)
  BY DEF TypeInv, TypeOK, Places, QueuesTidy
<1>2. Carries(m, st, m', st')
  BY DEF Keeps, Carries
<1>3. /\ rq'[d] = [rq[d] EXCEPT ![k] = r]
      /\ \A c \in CPU : c # d => rq'[c] = rq[c]
  BY <1>1
<1>a. PICK q \in Queues : q = rq[d]
  BY <1>1
<1>b. Pushed(q[k], r, e) /\ Tidy(q, m, st, d) /\ Shown(m', st', e, d, k)
  BY <1>1, <1>a DEF Shown
<1>c. PICK h : h = rq'[d] /\ Put(h, q, k, r)
  BY <1>3, <1>a DEF Put
<1>4. Tidy(rq'[d], m', st', d)
  <2>1. Tidy(h, m', st', d)
    BY <1>2, <1>b, <1>c, TidyPush
  <2> QED BY <1>c, <2>1
<1>5. \A c \in CPU : c # d => Tidy(rq'[c], m', st', c)
  BY <1>1, <1>2, <1>3, TidyStays
<1>6. /\ Contains(rq'[d], e)
      /\ \A p : Contains(rq[d], p) => Contains(rq'[d], p)
  <2>1. Contains(h, e) /\ \A p : Contains(q, p) => Contains(h, p)
    BY <1>b, <1>c, PushHolds
  <2> QED BY <1>a, <1>c, <2>1
<1>7. ASSUME NEW p \in Proc, m'[p].inq PROVE \E c \in CPU : Contains(rq'[c], p)
  <2>1. CASE p = e
    BY <1>6, <2>1
  <2>2. CASE p # e
    <3>1. PICK c \in CPU : Contains(rq[c], p)
      BY <1>7, <2>2 DEF Keeps, Places, MarksTrue, Queued
    <3> QED BY <1>3, <1>6, <3>1
  <2> QED BY <2>1, <2>2
<1> QED BY <1>4, <1>5, <1>7 DEF QueuesTidy, MarksTrue, Queued

(* A RUNNABLE process that is not marked is pushed: the routine never      *)
(* returns early.  f are its fields when the routine is entered.           *)
LEMMA EnqueuePlaces ==
  ASSUME TypeInv, Places, NEW d \in CPU, NEW k \in Level, NEW e \in Proc, ~m[e].inq,
         NEW f \in MlfqFields, ~f.inq, NEW reset \in BOOLEAN, NEW front \in BOOLEAN,
         Enqueue(d, e, f, "RUNNABLE", k, reset, front), st'[e] = "RUNNABLE",
         \A p \in Proc \ {e} : st'[p] = st[p]
  PROVE  QueuesTidy' /\ MarksTrue' /\ \A p \in Proc \ {e} : Keeps(p)
<1>0. EnqueuePushes(d, e, f, "RUNNABLE", k, reset, front)
  BY Zenon DEF Enqueue, EnqueueSkips
<1>1. PICK t : m' = [m EXCEPT ![e] = [f EXCEPT !.level = k, !.ticks = t,
                                               !.inq = TRUE, !.cpu = d, !.age = 0]]
  BY <1>0, Zenon DEF EnqueuePushes
<1>2. m \in [Proc -> MlfqFields] /\ rq \in [CPU -> Queues]
  BY DEF TypeInv, TypeOK
<1>3. PICK r : /\ Pushed(rq[d][k], r, e)
               /\ rq' = [rq EXCEPT ![d] = [rq[d] EXCEPT ![k] = r]]
  <2>1. rq' = [rq EXCEPT ![d][k] = IF front THEN <<e>> \o @ ELSE Append(@, e)]
    BY <1>0, Zenon DEF EnqueuePushes
  <2>2. rq[d] \in Queues
    BY <1>2
  <2>3. rq' = [rq EXCEPT ![d] = [rq[d] EXCEPT ![k] =
                 IF front THEN <<e>> \o rq[d][k] ELSE Append(rq[d][k], e)]]
    BY <1>2, <2>1, <2>2
  <2> QED BY <2>3 DEF Pushed
<1>4. m'[e].inq /\ m'[e].cpu = d /\ m'[e].level = k
  <2>1. m'[e] = [f EXCEPT !.level = k, !.ticks = t, !.inq = TRUE, !.cpu = d, !.age = 0]
    BY <1>1, <1>2
  <2> QED BY <2>1 DEF MlfqFields
<1>5. \A p \in Proc \ {e} : Keeps(p)
  BY <1>1, <1>2 DEF Keeps
<1> QED BY <1>3, <1>4, <1>5, PushPlaces

(* A process that yields had no place and gets one in a queue.             *)
LEMMA YieldKeeps ==
  ASSUME TypeInv, Stacks, Places, NEW c \in CPU, Yield(c)
  PROVE  Places'
<1> DEFINE p == at[c]
           f == [m[p] EXCEPT !.inq = FALSE, !.reason = "NONE", !.age = 0]
<1>1. /\ p \in Proc /\ m[p] \in MlfqFields /\ st[p] = "RUNNING"
      /\ ctx[c] # "picked"
  BY DEF Yield, InProcess, TypeInv, Named, TypeOK, OnStack, Alive, Stacks
<1>2. f \in MlfqFields /\ ~f.inq
  <2>1. 0 \in 0 .. AgingThreshold /\ "NONE" \in YieldReason
    BY MlfqAssumption DEF YieldReason
  <2> QED BY <1>1, <2>1 DEF MlfqFields
<1>3. PICK reason \in Reasons(p) :
        Enqueue(c, p, f, "RUNNABLE", YieldLevel(f.level, reason),
                reason = "EXPIRE", FALSE)
  BY DEF Yield
<1>4. /\ st' = [st EXCEPT ![p] = "RUNNABLE"] /\ pend' = pend
      /\ ctx' = [ctx EXCEPT ![c] = "sched"] /\ at' = [at EXCEPT ![c] = None]
  BY DEF Yield, Leave
<1> HIDE DEF f, p
<1>5. YieldLevel(f.level, reason) \in Level /\ (reason = "EXPIRE") \in BOOLEAN
  BY <1>2 DEF YieldLevel, MlfqFields, Level
<1>6. /\ ~m[p].inq
      /\ \A d \in CPU : \A i \in DOMAIN pend[d] : pend[d][i].p # p
      /\ \A d \in CPU : ctx[d] = "picked" => at[d] # p
  BY <1>1, Unmarked
<1>7. st'[p] = "RUNNABLE" /\ \A x \in Proc \ {p} : st'[x] = st[x]
  BY <1>1, <1>4 DEF TypeInv, TypeOK
<1>8. QueuesTidy' /\ MarksTrue' /\ \A x \in Proc \ {p} : Keeps(x)
  BY <1>1, <1>2, <1>3, <1>5, <1>6, <1>7, EnqueuePlaces
<1>9. \A d \in CPU : ctx'[d] = "picked" =>
        ctx[d] = "picked" /\ at'[d] = at[d] /\ Keeps(at[d])
  <2>1. \A d \in CPU : ctx'[d] = "picked" => ctx[d] = "picked" /\ at'[d] = at[d]
    BY <1>1, <1>4 DEF TypeInv, TypeOK
  <2> QED BY <1>6, <1>8, <2>1 DEF TypeInv, Named
<1>10. \A d \in CPU : /\ DOMAIN pend'[d] = DOMAIN pend[d]
                      /\ \A i \in DOMAIN pend[d] :
                           pend'[d][i].p = pend[d][i].p /\ Keeps(pend[d][i].p)
  BY <1>4, <1>6, <1>8, PendingProcs
<1> QED BY <1>8, <1>9, <1>10, PicksStay, PendsStay DEF Places

(* An unfinished enqueue becomes an entry.                                 *)
LEMMA PendingKeeps ==
  ASSUME TypeInv, Places, NEW c \in CPU, EnqueuePending(c)
  PROVE  Places'
<1>1. /\ pend \in [CPU -> Seq(Pending)] /\ pend[c] # <<>> /\ 1 \in DOMAIN pend[c]
      /\ pend' = [pend EXCEPT ![c] = Tail(@)]
      /\ st' = st /\ ctx' = ctx /\ at' = at /\ pend[c][1].to # -1
  BY DEF EnqueuePending, TypeInv, TypeOK
<1>2. PICK e \in Pending : e = pend[c][1]
  BY <1>1, PendingProcs
<1>3. /\ e.p \in Proc /\ e.to \in CPU /\ (~e.new) \in BOOLEAN /\ 0 \in Level
      /\ Enqueue(e.to, e.p, m[e.p], st[e.p], 0, TRUE, ~e.new)
  <2>1. e.p \in Proc /\ e.to \in CPU /\ (~e.new) \in BOOLEAN /\ 0 \in Level
    BY <1>1, <1>2, MlfqAssumption DEF Pending, CPU, Level
  <2>2. Enqueue(e.to, e.p, m[e.p], st[e.p], 0, TRUE, ~e.new)
    BY <1>2, Zenon DEF EnqueuePending
  <2> QED BY <2>1, <2>2
<1>4. /\ st[e.p] = "RUNNABLE" /\ ~m[e.p].inq
      /\ \A d \in CPU : ctx[d] = "picked" => at[d] # e.p
      /\ \A d \in CPU : \A j \in DOMAIN pend[d] : pend[d][j].p = e.p => d = c /\ j = 1
  BY <1>1, <1>2 DEF Places, PendingAlone
<1>5. m[e.p] \in MlfqFields /\ TRUE \in BOOLEAN
  BY <1>3 DEF TypeInv, TypeOK
<1>6. QueuesTidy' /\ MarksTrue' /\ \A x \in Proc \ {e.p} : Keeps(x)
  <2>1. PICK p \in Proc, d \in CPU, f \in MlfqFields, front \in BOOLEAN,
             k \in Level, reset \in BOOLEAN :
          /\ p = e.p /\ d = e.to /\ f = m[e.p] /\ front = ~e.new
          /\ k = 0 /\ reset = TRUE
    BY <1>3, <1>5
  <2>2. Enqueue(d, p, f, "RUNNABLE", k, reset, front)
    <3>1. Enqueue(e.to, e.p, m[e.p], "RUNNABLE", 0, TRUE, ~e.new)
      BY <1>3, <1>4, Zenon
    <3> QED BY <2>1, <3>1
  <2>3. ~m[p].inq /\ ~f.inq /\ st'[p] = "RUNNABLE" /\ \A x \in Proc \ {p} : st'[x] = st[x]
    BY <1>1, <1>4, <2>1
  <2>4. QueuesTidy' /\ MarksTrue' /\ \A x \in Proc \ {p} : Keeps(x)
    BY <2>2, <2>3, EnqueuePlaces
  <2> QED BY <2>1, <2>4
<1>7. PickedAlone'
  <2>1. \A d \in CPU : ctx'[d] = "picked" =>
          ctx[d] = "picked" /\ at'[d] = at[d] /\ Keeps(at[d])
    BY <1>1, <1>4, <1>6 DEF TypeInv, Named
  <2> QED BY <2>1, PicksStay
<1>8. PendingAlone'
  <2>1. ASSUME NEW d \in CPU, NEW i \in DOMAIN pend'[d]
        PROVE  \E k \in DOMAIN pend[d] :
                 /\ k = IF d = c THEN i + 1 ELSE i
                 /\ pend'[d][i] = pend[d][k] /\ Keeps(pend[d][k].p)
    <3>1. CASE d = c
      <4>1. i + 1 \in DOMAIN pend[c] /\ pend'[c][i] = pend[c][i + 1] /\ i \in 1 .. Len(pend'[c])
        BY <1>1, <3>1, TailWas
      <4>2. i + 1 # 1
        BY <4>1
      <4>3. pend[c][i + 1].p # e.p
        BY <1>4, <4>1, <4>2
      <4> QED BY <1>6, <3>1, <4>1, <4>3, PendingProcs
    <3>2. CASE d # c
      <4>1. pend'[d] = pend[d]
        BY <1>1, <3>2
      <4> QED BY <1>4, <1>6, <3>2, <4>1, PendingProcs
    <3> QED BY <3>1, <3>2
  <2>2. \A d \in CPU : DOMAIN pend'[d] \subseteq Int
    <3>1. pend' \in [CPU -> Seq(Pending)]
      BY <1>1
    <3> QED BY <3>1
  <2>3. ASSUME NEW d \in CPU, NEW i \in DOMAIN pend'[d],
               NEW b \in CPU, NEW j \in DOMAIN pend'[b],
               pend'[b][j].p = pend'[d][i].p
        PROVE  b = d /\ j = i
    <3>1. PICK k \in DOMAIN pend[d] : /\ k = IF d = c THEN i + 1 ELSE i
                                      /\ pend'[d][i] = pend[d][k]
      BY <2>1
    <3>2. PICK n \in DOMAIN pend[b] : /\ n = IF b = c THEN j + 1 ELSE j
                                      /\ pend'[b][j] = pend[b][n]
      BY <2>1
    <3>3. b = d /\ n = k
      BY <2>3, <3>1, <3>2 DEF Places, PendingAlone
    <3> QED BY <2>2, <3>1, <3>2, <3>3
  <2>4. ASSUME NEW d \in CPU, NEW i \in DOMAIN pend'[d]
        PROVE  /\ st'[pend'[d][i].p] = "RUNNABLE" /\ ~m'[pend'[d][i].p].inq
               /\ \A b \in CPU : ctx'[b] = "picked" => at'[b] # pend'[d][i].p
    <3>1. PICK k \in DOMAIN pend[d] : pend'[d][i] = pend[d][k] /\ Keeps(pend[d][k].p)
      BY <2>1
    <3> QED BY <1>1, <3>1 DEF Places, PendingAlone, Keeps
  <2> QED BY <2>3, <2>4 DEF PendingAlone
<1> QED BY <1>6, <1>7, <1>8 DEF Places

-----------------------------------------------------------------------------
(* Popping.                                                                *)

(* r is s without e, its first (o = 1) or its last (o = 0) entry.          *)
Less(s, r, e) ==
  /\ r \in Seq(Proc) /\ Len(r) = Len(s) - 1
  /\ \E o \in {0, 1} : /\ \A i \in 1 .. Len(r) : r[i] = s[i + o]
                       /\ e = IF o = 1 THEN s[1] ELSE s[Len(s)]

(* The queue without its first entry.                                      *)
LEMMA LessFirst ==
  ASSUME NEW s \in Seq(Proc), s # <<>>
  PROVE  Less(s, SubSeq(s, 2, Len(s)), s[1])
<1> DEFINE n == Len(s)
           r == SubSeq(s, 2, n)
<1>1. 2 \in Int /\ n \in Int /\ n >= 1 /\ \A k \in 2 .. n : s[k] \in Proc
  OBVIOUS
<1> HIDE DEF n
<1>2. /\ r \in Seq(Proc)
      /\ Len(r) = IF 2 <= n THEN n - 2 + 1 ELSE 0
      /\ \A k \in 1 .. n - 2 + 1 : r[k] = s[2 + k - 1]
  BY <1>1, SubSeqProperties
<1> HIDE DEF r
<1>3. Len(r) = n - 1 /\ \A k \in 1 .. Len(r) : r[k] = s[k + 1]
  BY <1>1, <1>2
<1> QED BY <1>2, <1>3 DEF Less, r, n

(* The queue without its last entry.                                       *)
LEMMA LessLast ==
  ASSUME NEW s \in Seq(Proc), s # <<>>
  PROVE  Less(s, SubSeq(s, 1, Len(s) - 1), s[Len(s)])
<1> DEFINE n == Len(s)
           b == n - 1
           r == SubSeq(s, 1, b)
<1>1. 1 \in Int /\ n \in Int /\ b \in Int /\ n >= 1 /\ \A k \in 1 .. b : s[k] \in Proc
  OBVIOUS
<1>a. b = n - 1
  OBVIOUS
<1> HIDE DEF n, b
<1>2. /\ r \in Seq(Proc)
      /\ Len(r) = IF 1 <= b THEN b - 1 + 1 ELSE 0
      /\ \A k \in 1 .. b - 1 + 1 : r[k] = s[1 + k - 1]
  BY <1>1, SubSeqProperties
<1> HIDE DEF r
<1>3. Len(r) = n - 1 /\ \A k \in 1 .. Len(r) : r[k] = s[k + 0]
  BY <1>a, <1>1, <1>2
<1> QED BY <1>2, <1>3 DEF Less, r, n, b

(* A level loses e, and nobody else.                                       *)
LEMMA LessHolds ==
  ASSUME NEW q \in Queues, NEW k \in Level, NEW r, NEW e, q[k] # <<>>, Less(q[k], r, e),
         NEW h, Put(h, q, k, r)
  PROVE  /\ e \in Proc /\ Contains(q, e) /\ h \in Queues
         /\ \A p : Contains(q, p) /\ p # e => Contains(h, p)
<1> DEFINE n == Len(q[k])
<1>1. q[k] \in Seq(Proc) /\ n \in Nat /\ n >= 1
  BY DEF Queues
<1>2. r \in Seq(Proc) /\ Len(r) = n - 1
  BY DEF Less
<1>3. /\ h \in Queues /\ h[k] = r
      /\ \A l \in Level : l # k => h[l] = q[l]
  BY <1>2 DEF Queues, Put
<1>4. PICK o \in {0, 1} : /\ \A i \in 1 .. Len(r) : r[i] = q[k][i + o]
                          /\ e = IF o = 1 THEN q[k][1] ELSE q[k][n]
  BY DEF Less
<1>5. e \in Proc /\ \E i \in 1 .. n : q[k][i] = e
  BY <1>1, <1>4
<1>6. ASSUME NEW i \in 1 .. n, q[k][i] # e
      PROVE  \E j \in 1 .. Len(r) : r[j] = q[k][i]
  <2>1. i - o \in 1 .. Len(r) /\ (i - o) + o = i
    BY <1>1, <1>2, <1>4, <1>6
  <2> QED BY <1>4, <2>1
<1>7. ASSUME NEW p, Contains(q, p), p # e PROVE Contains(h, p)
  <2>1. PICK l \in Level : \E i \in 1 .. Len(q[l]) : q[l][i] = p
    BY <1>7, ContainsEntry
  <2>2. \E i \in 1 .. Len(h[l]) : h[l][i] = p
    BY <1>3, <1>6, <1>7, <2>1
  <2> QED BY <1>3, <2>2, ContainsEntry
<1>8. Contains(q, e)
  BY <1>5, ContainsEntry
<1> QED BY <1>3, <1>5, <1>7, <1>8

(* The queues stay tidy, and e is gone from them.                          *)
LEMMA TidyPop ==
  ASSUME NEW q \in Queues, NEW f, NEW g, NEW s, NEW c, Tidy(q, f, s, c),
         NEW k \in Level, NEW r, NEW e, q[k] # <<>>, Less(q[k], r, e),
         SameBut(f, g, e), NEW h, Put(h, q, k, r)
  PROVE  Tidy(h, g, s, c)
<1> DEFINE n == Len(q[k])
<1>1. /\ q[k] \in Seq(Proc) /\ n \in Nat /\ n >= 1
      /\ \A l \in Level : \A i \in 1 .. Len(q[l]) : q[l][i] \in Proc
  BY DEF Queues
<1>2. /\ r \in Seq(Proc) /\ Len(r) = n - 1
      /\ h[k] = r /\ \A l \in Level : l # k => h[l] = q[l]
  BY DEF Less, Queues, Put
<1>3. PICK o \in {0, 1} : /\ \A i \in 1 .. Len(r) : r[i] = q[k][i + o]
                          /\ e = IF o = 1 THEN q[k][1] ELSE q[k][n]
  BY DEF Less
<1>4. \A i \in 1 .. Len(r) : i \in Int /\ i + o \in 1 .. n
  BY <1>1, <1>2
<1>5. \A i, j \in 1 .. n : q[k][i] = q[k][j] => i = j
  BY DEF Tidy
<1>6. ASSUME NEW i \in 1 .. Len(r) PROVE r[i] # e
  <2>1. CASE o = 1
    <3>1. i + 1 \in 1 .. n /\ 1 \in 1 .. n /\ i + 1 # 1 /\ r[i] = q[k][i + 1] /\ e = q[k][1]
      BY <1>1, <1>3, <1>4, <2>1
    <3> QED BY <1>5, <3>1
  <2>2. CASE o = 0
    <3>1. i \in 1 .. n /\ n \in 1 .. n /\ i # n /\ r[i] = q[k][i] /\ e = q[k][n]
      BY <1>1, <1>2, <1>3, <1>4, <2>2
    <3> QED BY <1>5, <3>1
  <2> QED BY <2>1, <2>2
<1>7. ASSUME NEW i \in 1 .. Len(r), NEW j \in 1 .. Len(r), r[i] = r[j]
      PROVE  i = j
  <2>1. i + o = j + o
    BY <1>3, <1>4, <1>5, <1>7
  <2> QED BY <1>4, <2>1
<1>8. \A l \in Level : l # k => \A i \in 1 .. Len(q[l]) : q[l][i] # e
  <2>1. \E i \in 1 .. n : q[k][i] = e
    BY <1>1, <1>3
  <2> QED BY <2>1 DEF Tidy
<1>9. ASSUME NEW l \in Level, NEW i \in 1 .. Len(h[l])
      PROVE  /\ s[h[l][i]] = "RUNNABLE"
             /\ g[h[l][i]].inq /\ g[h[l][i]].cpu = c /\ g[h[l][i]].level = l
             /\ \A j \in 1 .. Len(h[l]) : h[l][j] = h[l][i] => j = i
  <2>1. CASE l = k
    <3>1. i + o \in 1 .. n /\ h[l][i] = q[k][i + o] /\ h[l][i] # e
      BY <1>2, <1>3, <1>4, <1>6, <2>1
    <3>2. PICK p \in Proc : p = h[l][i] /\ p # e
      BY <1>1, <3>1
    <3>3. /\ s[p] = "RUNNABLE"
          /\ f[p].inq /\ f[p].cpu = c /\ f[p].level = l
      BY <2>1, <3>1, <3>2 DEF Tidy
    <3> QED BY <1>2, <1>7, <2>1, <3>2, <3>3 DEF SameBut
  <2>2. CASE l # k
    <3>1. h[l] = q[l]
      BY <1>2, <2>2
    <3>2. PICK p \in Proc : p = q[l][i] /\ p # e
      BY <1>1, <1>8, <2>2, <3>1
    <3>3. /\ s[p] = "RUNNABLE"
          /\ f[p].inq /\ f[p].cpu = c /\ f[p].level = l
          /\ \A j \in 1 .. Len(q[l]) : q[l][j] = p => j = i
      BY <3>1, <3>2 DEF Tidy
    <3> QED BY <3>1, <3>2, <3>3 DEF SameBut
  <2> QED BY <2>1, <2>2
<1> QED BY <1>9 DEF Tidy

(* A queued process becomes the one CPU c has picked.                      *)
LEMMA PopPlaces ==
  ASSUME TypeInv, Places, NEW c \in CPU, NEW v \in CPU, NEW k \in Level, NEW p, NEW r,
         rq[v][k] # <<>>, Less(rq[v][k], r, p),
         rq' = [rq EXCEPT ![v] = [rq[v] EXCEPT ![k] = r]],
         st' = st, pend' = pend, ctx[c] # "picked",
         ctx' = [ctx EXCEPT ![c] = "picked"], at' = [at EXCEPT ![c] = p],
         ~m'[p].inq, \A x \in Proc \ {p} : Keeps(x)
  PROVE  Places'
<1>1. rq \in [CPU -> Queues] /\ rq[v] \in Queues /\ ctx \in [CPU -> Context]
      /\ at \in [CPU -> Proc \cup {None}]
  BY DEF TypeInv, TypeOK
<1>2. /\ rq'[v] = [rq[v] EXCEPT ![k] = r]
      /\ \A d \in CPU : d # v => rq'[d] = rq[d]
  BY <1>1
<1>a. PICK q \in Queues, h \in {rq'[v]} : q = rq[v]
  BY <1>1
<1>b. h = rq'[v] /\ Put(h, q, k, r) /\ q[k] # <<>> /\ Less(q[k], r, p)
  BY <1>2, <1>a DEF Put
<1>3. /\ p \in Proc /\ Contains(rq[v], p) /\ rq'[v] \in Queues
      /\ \A x : Contains(rq[v], x) /\ x # p => Contains(rq'[v], x)
  <2>1. /\ p \in Proc /\ Contains(q, p) /\ h \in Queues
        /\ \A x : Contains(q, x) /\ x # p => Contains(h, x)
    BY <1>b, LessHolds
  <2> QED BY <1>a, <1>b, <2>1
<1>4. /\ st[p] = "RUNNABLE" /\ m[p].inq /\ m[p].cpu = v
      /\ \A d \in CPU : ctx[d] = "picked" => at[d] # p
      /\ \A d \in CPU : \A i \in DOMAIN pend[d] : pend[d][i].p # p
  BY <1>3, Marked DEF Places, PickedAlone, PendingAlone
<1>5. QueuesTidy'
  <2>1. Tidy(rq'[v], m', st, v)
    <3>1. Tidy(q, m, st, v)
      BY <1>a DEF Places, QueuesTidy
    <3>2. SameBut(m, m', p)
      BY DEF Keeps, SameBut
    <3>3. Tidy(h, m', st, v)
      BY <1>b, <3>1, <3>2, TidyPop
    <3> QED BY <1>b, <3>3
  <2>2. ASSUME NEW d \in CPU, d # v PROVE Tidy(rq'[d], m', st, d)
    <3>1. rq[d] \in Queues /\ Tidy(rq[d], m, st, d)
      BY <1>1 DEF Places, QueuesTidy
    <3>2. \A l \in Level : \A i \in 1 .. Len(rq[d][l]) :
            rq[d][l][i] \in Proc /\ rq[d][l][i] # p
      BY <1>4, <2>2, <3>1 DEF Tidy, Queues
    <3> QED BY <1>2, <2>2, <3>1, <3>2 DEF Tidy, Keeps
  <2> QED BY <2>1, <2>2 DEF QueuesTidy
<1>6. MarksTrue'
  <2>1. ASSUME NEW x \in Proc, m'[x].inq PROVE \E d \in CPU : Contains(rq'[d], x)
    <3>1. x # p /\ m[x].inq
      BY <2>1 DEF Keeps
    <3>2. PICK d \in CPU : Contains(rq[d], x)
      BY <3>1 DEF Places, MarksTrue, Queued
    <3> QED BY <1>2, <1>3, <3>1, <3>2
  <2> QED BY <2>1 DEF MarksTrue, Queued
<1>7. \A d \in CPU : \/ d = c /\ ctx'[d] = "picked" /\ at'[d] = p
                     \/ d # c /\ ctx'[d] = ctx[d] /\ at'[d] = at[d]
  BY <1>1
<1>8. PickedAlone'
  <2>1. \A d \in CPU : ctx[d] = "picked" =>
          at[d] \in Proc /\ at[d] # p /\ st[at[d]] = "RUNNABLE" /\ ~m[at[d]].inq
    BY <1>4 DEF TypeInv, Named, Places, PickedAlone
  <2>2. \A d \in CPU : ctx'[d] = "picked" => st[at'[d]] = "RUNNABLE" /\ ~m'[at'[d]].inq
    BY <1>4, <1>7, <2>1 DEF Keeps
  <2>3. \A d, b \in CPU : ctx'[d] = "picked" /\ ctx'[b] = "picked" /\ at'[b] = at'[d] => b = d
    BY <1>4, <1>7 DEF Places, PickedAlone
  <2> QED BY <2>2, <2>3 DEF PickedAlone
<1>9. PendingAlone'
  <2>1. \A d \in CPU : \A i \in DOMAIN pend[d] :
          /\ pend[d][i].p \in Proc /\ pend[d][i].p # p
          /\ st[pend[d][i].p] = "RUNNABLE" /\ ~m[pend[d][i].p].inq
    BY <1>4, PendingProcs DEF Places, PendingAlone
  <2>2. \A d \in CPU : \A i \in DOMAIN pend[d] :
          /\ ~m'[pend[d][i].p].inq
          /\ \A b \in CPU : ctx'[b] = "picked" => at'[b] # pend[d][i].p
    BY <1>7, <2>1 DEF Keeps, Places, PendingAlone
  <2> QED BY <2>1, <2>2 DEF Places, PendingAlone
<1> QED BY <1>5, <1>6, <1>8, <1>9 DEF Places

(* What the scheduler writes to the process it takes.                      *)
LEMMA TakePlaces ==
  ASSUME TypeInv, NEW c \in CPU, NEW p \in Proc, NEW dropped, Take(c, p, dropped), st' = st,
         \A x \in Proc : x \in dropped => ~m[x].inq
  PROVE  /\ ~m'[p].inq /\ \A x \in Proc \ {p} : Keeps(x)
         /\ ctx' = [ctx EXCEPT ![c] = "picked"] /\ at' = [at EXCEPT ![c] = p]
<1>1. m \in [Proc -> MlfqFields]
  BY DEF TypeInv, TypeOK
<1>2. PICK t : m' = [q \in Proc |->
               IF q = p THEN [m[p] EXCEPT !.inq = FALSE, !.ticks = t, !.cpu = c]
               ELSE [m[q] EXCEPT !.inq = @ /\ q \notin dropped]]
  BY Zenon DEF Take
<1>3. ~m'[p].inq
  <2>1. m'[p] = [m[p] EXCEPT !.inq = FALSE, !.ticks = t, !.cpu = c] /\ m[p] \in MlfqFields
    BY <1>1, <1>2
  <2> QED BY <2>1 DEF MlfqFields
<1>4. ASSUME NEW x \in Proc \ {p} PROVE Keeps(x)
  <2>1. m'[x] = [m[x] EXCEPT !.inq = m[x].inq /\ x \notin dropped] /\ m[x] \in MlfqFields
    BY <1>1, <1>2
  <2>2. (m[x].inq /\ x \notin dropped) = m[x].inq
    BY <1>1, <2>1 DEF MlfqFields
  <2> QED BY <2>1, <2>2 DEF MlfqFields, Keeps
<1> QED BY <1>3, <1>4, Zenon DEF Take

(* A pick takes the first entry there is and drops nothing.                *)
LEMMA PickLocalKeeps ==
  ASSUME TypeInv, Places, NEW c \in CPU, PickLocal(c)
  PROVE  Places'
<1>1. /\ rq \in [CPU -> Queues] /\ rq[c] \in Queues /\ Tidy(rq[c], m, st, c)
      /\ ctx[c] = "sched" /\ ctx \in [CPU -> Context] /\ m \in [Proc -> MlfqFields]
  BY DEF PickLocal, TypeInv, TypeOK, Places, QueuesTidy
<1>2. /\ \A k \in Level : rq[c][k] \in Seq(Proc) /\ DOMAIN rq[c][k] = 1 .. Len(rq[c][k])
      /\ \A k \in Level : \A j \in DOMAIN rq[c][k] : st[rq[c][k][j]] = "RUNNABLE"
  <2>1. ASSUME NEW k \in Level
        PROVE  rq[c][k] \in Seq(Proc) /\ DOMAIN rq[c][k] = 1 .. Len(rq[c][k])
    BY <1>1 DEF Queues
  <2>2. ASSUME NEW k \in Level, NEW j \in 1 .. Len(rq[c][k])
        PROVE  st[rq[c][k][j]] = "RUNNABLE"
    BY <1>1 DEF Tidy
  <2> QED BY <2>1, <2>2
<1>3. st' = st /\ pend' = pend
  BY DEF PickLocal
<1>4. ASSUME NEW l \in Level, NEW i \in DOMAIN rq[c][l],
             IsFirstRunnable(rq[c], st, l, i),
             Take(c, rq[c][l][i], Dropped(rq[c], l, i)),
             rq' = [rq EXCEPT ![c] = AfterPick(rq[c], l, i)]
      PROVE  Places'
  <2>1. \A k \in Level : k < l => rq[c][k] = <<>>
    <3>1. ASSUME NEW k \in Level, k < l PROVE DOMAIN rq[c][k] = {}
      <4>1. k \in 0 .. l - 1
        BY <3>1 DEF Level
      <4>2. \A j \in DOMAIN rq[c][k] : st[rq[c][k][j]] # "RUNNABLE"
        BY <1>4, <4>1 DEF IsFirstRunnable
      <4> QED BY <1>2, <4>2
    <3> QED BY <1>2, <3>1
  <2>2. i = 1
    <3>1. \A j \in 1 .. i - 1 : st[rq[c][l][j]] # "RUNNABLE"
      BY <1>4 DEF IsFirstRunnable
    <3>2. i # 1 => 1 \in 1 .. i - 1 /\ 1 \in DOMAIN rq[c][l]
      BY <1>2
    <3> QED BY <1>2, <3>1, <3>2
  <2>3. rq[c][l] # <<>> /\ rq[c][l] \in Seq(Proc)
    BY <1>2
  <2>4. PICK p \in Proc : p = rq[c][l][1]
    BY <1>2, <2>2
  <2>5. PICK r : r = SubSeq(rq[c][l], 2, Len(rq[c][l]))
    OBVIOUS
  <2>6. Less(rq[c][l], r, p)
    BY <2>3, <2>4, <2>5, LessFirst
  <2>7. AfterPick(rq[c], l, i) = [rq[c] EXCEPT ![l] = r]
    <3>1. \A k \in Level : k < l \/ k = l \/ k > l
      BY DEF Level
    <3>2. \A k \in Level :
            (CASE k < l -> <<>>
               [] k = l -> SubSeq(rq[c][k], i + 1, Len(rq[c][k]))
               [] OTHER -> rq[c][k])
              = IF k = l THEN r ELSE rq[c][k]
      BY <2>1, <2>2, <2>5, <3>1 DEF Level
    <3>3. AfterPick(rq[c], l, i) = [k \in Level |-> IF k = l THEN r ELSE rq[c][k]]
      BY <3>2, Zenon DEF AfterPick
    <3>4. [rq[c] EXCEPT ![l] = r] = [k \in Level |-> IF k = l THEN r ELSE rq[c][k]]
      BY <1>1 DEF Queues
    <3> QED BY <3>3, <3>4
  <2>8. \A x : x \notin Dropped(rq[c], l, i)
    <3>1. \A k \in 0 .. l - 1 : k \in Level /\ k < l
      BY DEF Level
    <3>2. \A k \in 0 .. l - 1 : Range(rq[c][k]) = {}
      BY <2>1, <3>1 DEF Range
    <3>3. {rq[c][l][j] : j \in 1 .. i - 1} = {}
      BY <2>2
    <3> QED BY <3>2, <3>3 DEF Dropped
  <2>9. Take(c, p, Dropped(rq[c], l, i))
    BY <1>4, <2>2, <2>4
  <2>10. /\ ~m'[p].inq /\ \A x \in Proc \ {p} : Keeps(x)
         /\ ctx' = [ctx EXCEPT ![c] = "picked"] /\ at' = [at EXCEPT ![c] = p]
    BY <1>3, <2>8, <2>9, TakePlaces
  <2>11. rq' = [rq EXCEPT ![c] = [rq[c] EXCEPT ![l] = r]] /\ ctx[c] # "picked"
    BY <1>1, <1>4, <2>7
  <2> QED BY <1>3, <2>3, <2>6, <2>10, <2>11, PopPlaces
<1>5. ASSUME NoneRunnable(rq[c], st),
             m' = [p \in Proc |-> [m[p] EXCEPT !.inq = @ /\ ~Contains(rq[c], p)]],
             rq' = [rq EXCEPT ![c] = EmptyQueues],
             ctx' = [ctx EXCEPT ![c] = "steal"], at' = at
      PROVE  Places'
  <2>1. \A k \in Level : DOMAIN rq[c][k] = {}
    BY <1>2, <1>5 DEF NoneRunnable
  <2>2. \A k \in Level : rq[c][k] = <<>>
    BY <1>2, <2>1
  <2>3. rq[c] = EmptyQueues
    BY <1>1, <2>2 DEF EmptyQueues, Queues
  <2>4. rq' = rq
    BY <1>1, <1>5, <2>3
  <2>5. \A p \in Proc : ~Contains(rq[c], p)
    BY <2>2 DEF Contains, Range
  <2>6. ASSUME NEW p \in Proc PROVE Keeps(p)
    <3>1. m'[p] = [m[p] EXCEPT !.inq = m[p].inq /\ ~Contains(rq[c], p)]
      BY <1>5
    <3>2. m[p] \in MlfqFields /\ (m[p].inq /\ ~Contains(rq[c], p)) = m[p].inq
      BY <1>1, <2>5 DEF MlfqFields
    <3> QED BY <1>3, <3>1, <3>2 DEF MlfqFields, Keeps
  <2>7. /\ {} \in SUBSET Proc
        /\ \A x \in {} : st[x] # "RUNNABLE" /\ ~m'[x].inq
        /\ \A p \in Proc \ {} : Keeps(p)
        /\ \A d \in CPU : ctx'[d] = "picked" => ctx[d] = "picked" /\ at'[d] = at[d]
        /\ \A d \in CPU : /\ DOMAIN pend'[d] = DOMAIN pend[d]
                          /\ \A j \in DOMAIN pend[d] : pend'[d][j].p = pend[d][j].p
    BY <1>1, <1>3, <1>5, <2>6
  <2> QED BY <2>4, <2>7, PlacesStay
<1> QED BY <1>4, <1>5, Zenon DEF PickLocal

(* What is stolen is the last entry, which is RUNNABLE.                    *)
LEMMA StealKeeps ==
  ASSUME TypeInv, Places, NEW c \in CPU, Steal(c)
  PROVE  Places'
<1>1. st' = st /\ pend' = pend /\ ctx[c] = "steal" /\ ctx \in [CPU -> Context]
  BY DEF Steal, TypeInv, TypeOK
<1>2. ASSUME m' = m, rq' = rq, at' = at, ctx' = ctx \/ ctx' = [ctx EXCEPT ![c] = "sched"]
      PROVE  Places'
  <2>1. /\ {} \in SUBSET Proc
        /\ \A x \in {} : st[x] # "RUNNABLE" /\ ~m'[x].inq
        /\ \A p \in Proc \ {} : Keeps(p)
        /\ \A d \in CPU : ctx'[d] = "picked" => ctx[d] = "picked" /\ at'[d] = at[d]
        /\ \A d \in CPU : /\ DOMAIN pend'[d] = DOMAIN pend[d]
                          /\ \A j \in DOMAIN pend[d] : pend'[d][j].p = pend[d][j].p
    BY <1>1, <1>2 DEF Keeps
  <2> QED BY <1>2, <2>1, PlacesStay
<1>3. ASSUME todo[c] # <<>>, StealFrom(c, Head(todo[c])[1], Head(todo[c])[2])
      PROVE  Places'
  <2>1. PICK v \in CPU, l \in Level : /\ v = Head(todo[c])[1] /\ l = Head(todo[c])[2]
                                      /\ l \in {1, 2}
    <3>1. todo[c] \in Seq(CPU \X {1, 2})
      BY DEF TypeInv, TypeOK
    <3>2. Head(todo[c]) \in CPU \X {1, 2}
      BY <1>3, <3>1
    <3> QED BY <3>2 DEF Level
  <2>2. StealFrom(c, v, l)
    BY <1>3, <2>1
  <2>3. rq \in [CPU -> Queues] /\ rq[v] \in Queues /\ rq[v][l] \in Seq(Proc)
    BY DEF TypeInv, TypeOK, Queues
  <2>4. CASE ~MaySteal(v, l)
    BY <1>2, <2>2, <2>4 DEF StealFrom
  <2>5. CASE MaySteal(v, l)
    <3>1. rq[v][l] # <<>>
      BY <2>1, <2>3, <2>5 DEF MaySteal
    <3>2. PICK p \in Proc : p = LastOf(rq[v][l]) /\ p = rq[v][l][Len(rq[v][l])]
      BY <2>3, <3>1 DEF LastOf
    <3>3. st[p] = "RUNNABLE"
      <4>1. Tidy(rq[v], m, st, v) /\ Len(rq[v][l]) \in 1 .. Len(rq[v][l])
        BY <2>3, <3>1 DEF Places, QueuesTidy
      <4> QED BY <3>2, <4>1 DEF Tidy
    <3>4. /\ rq' = [rq EXCEPT ![v] = PopTail(rq[v], l)]
          /\ Take(c, p, {})
      BY <2>2, <2>5, <3>2, <3>3, Zenon DEF StealFrom
    <3>5. PICK r : r = SubSeq(rq[v][l], 1, Len(rq[v][l]) - 1)
      OBVIOUS
    <3>6. Less(rq[v][l], r, p)
      BY <2>3, <3>1, <3>2, <3>5, LessLast
    <3>7. PopTail(rq[v], l) = [rq[v] EXCEPT ![l] = r]
      BY <3>5, Zenon DEF PopTail
    <3>8. /\ ~m'[p].inq /\ \A x \in Proc \ {p} : Keeps(x)
          /\ ctx' = [ctx EXCEPT ![c] = "picked"] /\ at' = [at EXCEPT ![c] = p]
      BY <1>1, <3>4, TakePlaces
    <3>9. rq' = [rq EXCEPT ![v] = [rq[v] EXCEPT ![l] = r]] /\ ctx[c] # "picked"
      BY <1>1, <3>4, <3>7
    <3> QED BY <1>1, <3>1, <3>6, <3>8, <3>9, PopPlaces
  <2> QED BY <2>4, <2>5
<1> QED BY <1>2, <1>3 DEF Steal

-----------------------------------------------------------------------------
(* Aging.                                                                  *)

(* Two tables of fields that differ, at most, in the level of processes    *)
(* queued on CPU c.                                                        *)
Alike(f, g, c) ==
  \A p \in Proc : /\ g[p].inq = f[p].inq /\ g[p].cpu = f[p].cpu
                  /\ ~f[p].inq \/ f[p].cpu # c => g[p].level = f[p].level

(* Moving the head to the end of a level: its own one, or the one above.   *)
LEMMA TidyMove ==
  ASSUME NEW q \in Queues, NEW f \in Fields, NEW g \in Fields, NEW s, NEW c \in CPU,
         Tidy(q, f, s, c),
         NEW l \in Level, NEW k \in Level, q[l] # <<>>,
         NEW e, e = Head(q[l]), Shown(g, s, e, c, k), SameBut(f, g, e),
         NEW rest, Put(rest, q, l, Tail(q[l])),
         NEW h, Put(h, rest, k, Append(rest[k], e))
  PROVE  Tidy(h, g, s, c)
<1>1. q[l] \in Seq(Proc) /\ e \in Proc /\ e = q[l][1]
  BY DEF Queues
<1>2. PICK r : r = Tail(q[l])
  OBVIOUS
<1>3. Less(q[l], r, e)
  <2>1. /\ r \in Seq(Proc) /\ Len(r) = Len(q[l]) - 1
        /\ \A i \in 1 .. Len(r) : r[i] = q[l][i + 1]
    BY <1>1, <1>2
  <2> QED BY <1>1, <2>1 DEF Less
<1>5. PICK b : b = [f EXCEPT ![e] = [f[e] EXCEPT !.inq = FALSE]]
  OBVIOUS
<1>6. ~b[e].inq /\ \A p \in Proc \ {e} : b[p] = f[p]
  <2>1. f[e] \in MlfqFields /\ b[e] = [f[e] EXCEPT !.inq = FALSE]
    BY <1>1, <1>5 DEF Fields
  <2> QED BY <1>5, <2>1 DEF Fields, MlfqFields
<1>7. Tidy(rest, b, s, c)
  <2>1. SameBut(f, b, e)
    BY <1>6 DEF SameBut
  <2> QED BY <1>2, <1>3, <2>1, TidyPop
<1>8. rest \in Queues
  BY <1>1 DEF Queues, Put
<1>9. Carries(b, s, g, s)
  BY <1>6 DEF Carries, SameBut
<1>10. PICK n : n = Append(rest[k], e)
  OBVIOUS
<1>11. Pushed(rest[k], n, e) /\ Put(h, rest, k, n)
  BY <1>10 DEF Pushed
<1> QED BY <1>1, <1>6, <1>7, <1>8, <1>9, <1>11, TidyPush

(* One step of the aging loop.                                             *)
LEMMA AgeOneTidy ==
  ASSUME NEW s \in Scan, NEW states, NEW l \in {1, 2}, NEW c \in CPU, s.q[l] # <<>>,
         Tidy(s.q, s.m, states, c)
  PROVE  /\ Tidy(AgeOne(s, states, l).q, AgeOne(s, states, l).m, states, c)
         /\ Alike(s.m, AgeOne(s, states, l).m, c)
<1>1. /\ s.q \in Queues /\ s.m \in Fields
      /\ l \in Level /\ l - 1 \in Level
  BY DEF Scan, Level
<1>a. PICK e : e = Head(s.q[l])
  OBVIOUS
<1>b. PICK rest : rest = [s.q EXCEPT ![l] = Tail(@)]
  OBVIOUS
<1>c. rest \in Queues /\ Put(rest, s.q, l, Tail(s.q[l]))
  <2>1. s.q[l] \in Seq(Proc) /\ Tail(s.q[l]) \in Seq(Proc)
    BY <1>1 DEF Queues
  <2> QED BY <1>1, <1>b, <2>1 DEF Put, Queues
<1>2. /\ e \in Proc /\ states[e] = "RUNNABLE" /\ s.m[e] \in MlfqFields
      /\ s.m[e].inq /\ s.m[e].cpu = c /\ s.m[e].level = l
  <2>1. s.q[l] \in Seq(Proc) /\ 1 \in 1 .. Len(s.q[l]) /\ e = s.q[l][1]
    BY <1>1, <1>a DEF Queues
  <2>2. e \in Proc
    BY <2>1
  <2>3. states[e] = "RUNNABLE" /\ s.m[e].inq /\ s.m[e].cpu = c /\ s.m[e].level = l
    BY <1>1, <2>1 DEF Tidy
  <2> QED BY <1>1, <2>2, <2>3 DEF Fields
<1>3. CASE s.m[e].age >= AgingThreshold
  <2>1. PICK k \in Level : k = l - 1
    BY <1>1
  <2>2. PICK h : h = [rest EXCEPT ![k] = Append(@, e)]
    OBVIOUS
  <2>3. PICK f : f = [s.m EXCEPT ![e] = Promoted(@, l)]
    OBVIOUS
  <2>4. AgeOne(s, states, l) = [q |-> h, m |-> f]
    BY <1>2, <1>3, <1>a, <1>b, <2>1, <2>2, <2>3, Zenon DEF AgeOne, PromoteHead
  <2>5. /\ Promoted(s.m[e], l) \in MlfqFields
        /\ Promoted(s.m[e], l).inq = s.m[e].inq /\ Promoted(s.m[e], l).cpu = s.m[e].cpu
        /\ Promoted(s.m[e], l).level = k
    <3>1. BaseQuantum[k] \in Nat /\ 0 \in 0 .. AgingThreshold
      BY <2>1, MlfqAssumption
    <3> QED BY <1>2, <2>1, <3>1 DEF Promoted, MlfqFields
  <2>6. f \in Fields /\ f[e] = Promoted(s.m[e], l) /\ \A p \in Proc \ {e} : f[p] = s.m[p]
    BY <1>1, <1>2, <2>3, <2>5 DEF Fields
  <2>7. Shown(f, states, e, c, k) /\ SameBut(s.m, f, e)
    BY <1>2, <2>5, <2>6 DEF Shown, SameBut
  <2>8. Put(h, rest, k, Append(rest[k], e))
    BY <2>2 DEF Put
  <2>9. Tidy(h, f, states, c)
    BY <1>1, <1>a, <1>c, <2>6, <2>7, <2>8, TidyMove
  <2>10. Alike(s.m, f, c)
    BY <1>2, <2>5, <2>6 DEF Alike
  <2> QED BY <2>4, <2>9, <2>10
<1>4. CASE ~(s.m[e].age >= AgingThreshold)
  <2>1. PICK h : h = [s.q EXCEPT ![l] = Append(Tail(@), Head(@))]
    OBVIOUS
  <2>2. AgeOne(s, states, l) = [q |-> h, m |-> s.m]
    BY <1>2, <1>4, <1>a, <2>1, Zenon DEF AgeOne, RotateHead
  <2>3. Shown(s.m, states, e, c, l) /\ SameBut(s.m, s.m, e)
    BY <1>2 DEF Shown, SameBut
  <2>4. Put(h, rest, l, Append(rest[l], e))
    BY <1>1, <1>a, <1>b, <2>1 DEF Put, Queues
  <2>5. Tidy(h, s.m, states, c)
    BY <1>1, <1>a, <1>c, <2>3, <2>4, TidyMove
  <2>6. Alike(s.m, s.m, c)
    BY DEF Alike
  <2> QED BY <2>2, <2>5, <2>6
<1> QED BY <1>3, <1>4

(* A scan of one level, unrolled as in the model.                          *)
LEMMA AgeLevelTidy ==
  ASSUME NEW s \in Scan, NEW states, NEW l \in {1, 2}, NEW c \in CPU,
         Tidy(s.q, s.m, states, c)
  PROVE  /\ AgeLevel(s, states, l) \in Scan
         /\ Tidy(AgeLevel(s, states, l).q, AgeLevel(s, states, l).m, states, c)
         /\ Alike(s.m, AgeLevel(s, states, l).m, c)
<1> DEFINE n == Len(s.q[l])
           Step(t, i) == IF i <= n THEN AgeOne(t, states, l) ELSE t
           Good(t, i) ==
             /\ t \in Scan
             /\ Len(t.q[l]) >= n - i
             /\ Tidy(t.q, t.m, states, c)
             /\ Alike(s.m, t.m, c)
<1>1. \A t \in Scan : t.q[l] \in Seq(Proc)
  BY DEF Scan, Queues, Level
<1>2. ASSUME NEW t, NEW i \in Nat, Good(t, i)
      PROVE  Good(Step(t, i + 1), i + 1)
  <2>1. CASE i + 1 <= n
    <3>1. n \in Nat /\ Len(t.q[l]) \in Nat /\ t \in Scan /\ t.q[l] # <<>>
      BY <1>1, <1>2, <2>1
    <3>2. /\ AgeOne(t, states, l) \in Scan
          /\ Len(AgeOne(t, states, l).q[l]) >= Len(t.q[l]) - 1
      BY <3>1, AgeOneKeeps
    <3>3. Len(AgeOne(t, states, l).q[l]) \in Nat
      BY <1>1, <3>2
    <3>4. Step(t, i + 1) = AgeOne(t, states, l)
      BY <2>1
    <3>5. Len(AgeOne(t, states, l).q[l]) >= n - (i + 1)
      <4> HIDE DEF n
      <4> QED BY <1>2, <3>1, <3>2, <3>3
    <3>6. /\ Tidy(AgeOne(t, states, l).q, AgeOne(t, states, l).m, states, c)
          /\ Alike(t.m, AgeOne(t, states, l).m, c)
      BY <1>2, <3>1, AgeOneTidy
    <3>7. Alike(s.m, AgeOne(t, states, l).m, c)
      <4>1. PICK a : a = AgeOne(t, states, l).m
        OBVIOUS
      <4>2. Alike(s.m, t.m, c) /\ Alike(t.m, a, c)
        BY <1>2, <3>6, <4>1
      <4>3. Alike(s.m, a, c)
        BY <4>2 DEF Alike
      <4> QED BY <4>1, <4>3
    <3> HIDE DEF Step
    <3> QED BY <3>2, <3>4, <3>5, <3>6, <3>7
  <2>2. CASE ~(i + 1 <= n)
    BY <1>1, <1>2, <2>2
  <2> QED BY <2>1, <2>2
<1>3. Good(s, 0)
  BY <1>1 DEF Alike
<1> HIDE DEF Good
<1>4. Good(Step(s, 1), 1)
  BY <1>2, <1>3
<1>5. Good(Step(Step(s, 1), 2), 2)
  BY <1>2, <1>4
<1>6. Good(Step(Step(Step(s, 1), 2), 3), 3)
  BY <1>2, <1>5
<1>7. Good(Step(Step(Step(Step(s, 1), 2), 3), 4), 4)
  BY <1>2, <1>6
<1>8. AgeLevel(s, states, l) = Step(Step(Step(Step(s, 1), 2), 3), 4)
  BY DEF AgeLevel, AgingBudget
<1> QED BY <1>7, <1>8 DEF Good

(* The scan of both levels.                                                *)
LEMMA AgeTickTidy ==
  ASSUME NEW s \in Scan, NEW states, NEW c \in CPU, Tidy(s.q, s.m, states, c)
  PROVE  /\ Tidy(AgeTick(s, states).q, AgeTick(s, states).m, states, c)
         /\ Alike(s.m, AgeTick(s, states).m, c)
<1>1. PICK a : a = AgeLevel(s, states, 1)
  OBVIOUS
<1>2. a \in Scan /\ Tidy(a.q, a.m, states, c) /\ Alike(s.m, a.m, c)
  BY <1>1, AgeLevelTidy
<1>3. PICK b : b = AgeLevel(a, states, 2)
  OBVIOUS
<1>4. b \in Scan /\ Tidy(b.q, b.m, states, c) /\ Alike(a.m, b.m, c)
  BY <1>2, <1>3, AgeLevelTidy
<1>5. Alike(s.m, b.m, c)
  BY <1>2, <1>4 DEF Alike
<1> QED BY <1>1, <1>3, <1>4, <1>5 DEF AgeTick

(* Aging moves entries between the levels of one CPU.                      *)
LEMMA AgeKeeps ==
  ASSUME TypeInv, Places, NEW c \in CPU, AgeQueues(c)
  PROVE  Places'
<1>1. PICK aged : aged = AgeTick([q |-> rq[c], m |-> m], st)
  OBVIOUS
<1>2. /\ rq' = [rq EXCEPT ![c] = aged.q] /\ m' = aged.m
      /\ ctx' = [ctx EXCEPT ![c] = "tick"]
      /\ st' = st /\ at' = at /\ pend' = pend
  BY <1>1, Zenon DEF AgeQueues
<1>3. /\ rq \in [CPU -> Queues] /\ m \in Fields /\ ctx \in [CPU -> Context]
      /\ \A d \in CPU : rq[d] \in Queues /\ Tidy(rq[d], m, st, d)
  BY DEF TypeInv, TypeOK, Fields, Places, QueuesTidy
<1>4. /\ aged \in Scan
      /\ \A p \in Proc : st[p] = "RUNNABLE" /\ Contains(rq[c], p) => Contains(aged.q, p)
  BY <1>1, AgedFacts
<1>5. Tidy(aged.q, m', st, c) /\ Alike(m, m', c)
  <2>1. PICK s \in Scan : s = [q |-> rq[c], m |-> m]
    BY <1>3 DEF Scan
  <2>2. Tidy(s.q, s.m, st, c) /\ s.m = m
    BY <1>3, <2>1
  <2>3. Tidy(AgeTick(s, st).q, AgeTick(s, st).m, st, c) /\ Alike(s.m, AgeTick(s, st).m, c)
    BY <2>2, AgeTickTidy
  <2> QED BY <1>1, <1>2, <2>1, <2>2, <2>3
<1>6. /\ rq'[c] = aged.q
      /\ \A d \in CPU : d # c => rq'[d] = rq[d]
  BY <1>2, <1>3
<1>7. ASSUME NEW d \in CPU PROVE Tidy(rq'[d], m', st', d)
  <2>1. CASE d = c
    BY <1>2, <1>5, <1>6, <2>1
  <2>2. CASE d # c
    <3>1. Tidy(rq[d], m, st, d) /\ rq[d] \in Queues
      BY <1>3
    <3>2. \A l \in Level : \A i \in 1 .. Len(rq[d][l]) : rq[d][l][i] \in Proc
      BY <3>1 DEF Queues
    <3>3. Tidy(rq[d], m', st, d)
      BY <1>5, <2>2, <3>1, <3>2 DEF Tidy, Alike
    <3> QED BY <1>2, <1>6, <2>2, <3>3
  <2> QED BY <2>1, <2>2
<1>8. ASSUME NEW p \in Proc, m'[p].inq PROVE \E d \in CPU : Contains(rq'[d], p)
  <2>1. m[p].inq
    BY <1>5, <1>8 DEF Alike
  <2>2. PICK d \in CPU : Contains(rq[d], p)
    BY <2>1 DEF Places, MarksTrue, Queued
  <2>3. st[p] = "RUNNABLE"
    BY <2>2, Marked
  <2> QED BY <1>4, <1>6, <2>2, <2>3
<1>9. ASSUME NEW p \in Proc, ~m[p].inq PROVE Keeps(p)
  BY <1>2, <1>5, <1>9 DEF Alike, Keeps
<1>10. \A d \in CPU : ctx'[d] = "picked" => ctx[d] = "picked" /\ at'[d] = at[d]
  BY <1>2, <1>3
<1>11. PickedAlone'
  <2>1. \A d \in CPU : ctx'[d] = "picked" =>
          ctx[d] = "picked" /\ at'[d] = at[d] /\ Keeps(at[d])
    BY <1>9, <1>10 DEF Places, PickedAlone, TypeInv, Named
  <2> QED BY <2>1, PicksStay
<1>12. PendingAlone'
  <2>1. \A d \in CPU : /\ DOMAIN pend'[d] = DOMAIN pend[d]
                       /\ \A i \in DOMAIN pend[d] :
                            pend'[d][i].p = pend[d][i].p /\ Keeps(pend[d][i].p)
    BY <1>2, <1>9, PendingProcs DEF Places, PendingAlone
  <2> QED BY <1>10, <2>1, PendsStay
<1> QED BY <1>7, <1>8, <1>11, <1>12 DEF Places, QueuesTidy, MarksTrue, Queued

-----------------------------------------------------------------------------
(* The invariant.                                                          *)

(* A CPU nests a wakeup in at most one other.                              *)
LEMMA ShallowStep == TypeInv /\ Shallow /\ [Next]_vars => Shallow'
<1> SUFFICES ASSUME TypeInv, Shallow, [Next]_vars, NEW d \in CPU
             PROVE  Len(pend'[d]) <= MaxDepth
  BY Zenon DEF Shallow
<1>1. /\ pend \in [CPU -> Seq(Pending)] /\ pend[d] \in Seq(Pending)
      /\ Len(pend[d]) \in Nat /\ MaxDepth \in {1, 2} /\ Len(pend[d]) <= MaxDepth
  BY SchedAssumption DEF TypeInv, TypeOK, Shallow
<1>2. CASE pend' = pend
  BY <1>1, <1>2
<1>3. ASSUME NEW c \in CPU, NEW p, NEW new \in BOOLEAN, Push(c, p, new),
             Len(pend[c]) < MaxDepth
      PROVE  Len(pend'[d]) <= MaxDepth
  <2>1. CASE c = d
    <3>1. PICK e : pend'[d] = <<e>> \o pend[d]
      BY <1>1, <1>3, <2>1 DEF Push
    <3>2. Len(pend'[d]) = 1 + Len(pend[d])
      BY <1>1, <3>1
    <3> QED BY <1>1, <1>3, <2>1, <3>2
  <2>2. CASE c # d
    BY <1>1, <1>3, <2>2 DEF Push
  <2> QED BY <2>1, <2>2
<1>4. ASSUME NEW c \in CPU, NEW p \in Proc, Wake(c, p) \/ Fork(c, p) \/ Kick(c, p)
      PROVE  Len(pend'[d]) <= MaxDepth
  <2>1. \E new \in BOOLEAN : Push(c, p, new)
    BY <1>4, Zenon DEF Wake, Fork, Kick
  <2>2. pend[c] = <<>> \/ Len(pend[c]) < MaxDepth
    BY <1>4 DEF Wake, Fork, Kick, CanWake, InProcess
  <2>3. Len(pend[c]) < MaxDepth
    BY <1>1, <2>2
  <2> QED BY <1>3, <2>1, <2>3
<1>5. ASSUME NEW c \in CPU, NEW parent, Exit(c, parent) PROVE Len(pend'[d]) <= MaxDepth
  <2>1. pend[c] = <<>>
    BY <1>5 DEF Exit, InProcess
  <2>2. Len(pend[c]) < MaxDepth
    BY <1>1, <2>1
  <2>3. pend' = pend \/ Push(c, parent, FALSE)
    BY <1>5, Zenon DEF Exit
  <2> QED BY <1>2, <1>3, <2>2, <2>3
<1>6. ASSUME NEW c \in CPU, ChooseCpu(c) PROVE Len(pend'[d]) <= MaxDepth
  <2>1. PICK t : pend' = [pend EXCEPT ![c][1].to = t]
    BY <1>6 DEF ChooseCpu
  <2>2. Len(pend'[d]) = Len(pend[d])
    BY <1>1, <2>1
  <2> QED BY <1>1, <2>2
<1>7. ASSUME NEW c \in CPU, EnqueuePending(c) PROVE Len(pend'[d]) <= MaxDepth
  <2>1. pend[c] # <<>> /\ pend' = [pend EXCEPT ![c] = Tail(@)]
    BY <1>7 DEF EnqueuePending
  <2>2. CASE c = d
    <3>1. Len(pend'[d]) = Len(pend[d]) - 1
      BY <1>1, <2>1, <2>2
    <3> QED BY <1>1, <3>1
  <2>3. CASE c # d
    BY <1>1, <2>1, <2>3
  <2> QED BY <2>2, <2>3
<1>8. ASSUME NEW c \in CPU,
             \/ Boot(c) \/ PickLocal(c) \/ Steal(c) \/ Dispatch(c) \/ AgeQueues(c)
             \/ OnTick(c) \/ Yield(c) \/ Sleep(c) \/ SwitchOut(c)
             \/ \E p \in Proc : Reap(c, p) \/ Slay(c, p)
      PROVE  pend' = pend
  BY <1>8, Zenon
  DEF Boot, PickLocal, Steal, Dispatch, AgeQueues, OnTick, Yield, Sleep, SwitchOut, Reap,
      Slay
<1>9. ASSUME ClockTick \/ UNCHANGED vars PROVE pend' = pend
  BY <1>9 DEF ClockTick, vars
<1> QED
  BY <1>2, <1>4, <1>5, <1>6, <1>7, <1>8, <1>9, Zenon DEF Next, SchedulerStep, NewWork

(* Every step, while nobody has been signalled or hit, keeps the places.   *)
LEMMA PlacesStep ==
  TypeInv /\ OneCpu /\ (kicks = 0 /\ hits = 0 => Places) /\ [Next]_vars
    => (kicks' = 0 /\ hits' = 0 => Places')
<1> SUFFICES ASSUME TypeInv, OneCpu, kicks = 0 /\ hits = 0 => Places, [Next]_vars,
                    kicks' = 0, hits' = 0
             PROVE  Places'
  BY Zenon
<1>0. hits = 0 /\ Stacks
  BY HitsCounted DEF OneCpu, Stacks, OnStack, Alive
<1>1. kicks \in Nat
  BY SchedAssumption DEF TypeInv, TypeOK
<1>1a. ASSUME NEW c \in CPU, NEW p \in Proc, Kick(c, p) PROVE FALSE
  BY <1>1, <1>1a DEF Kick
<1>1b. ASSUME NEW c \in CPU, NEW p \in Proc, Slay(c, p)
       PROVE  st[p] = "SLEEPING" /\ kicks = 0
  BY <1>1, <1>1b, HitsCounted DEF Slay, counters
<1>1c. ASSUME \A c \in CPU, p \in Proc : ~Slay(c, p) PROVE kicks = 0
  <2> QED BY <1>1a, <1>1c, Zenon
      DEF Next, SchedulerStep, NewWork, Boot, PickLocal, Steal, Dispatch, AgeQueues, OnTick,
          Yield, Sleep, SwitchOut, Reap, Wake, Fork, Exit, ChooseCpu, EnqueuePending,
          ClockTick, vars, counters
<1>2. kicks = 0
  BY <1>1b, <1>1c
<1>3. Places
  BY <1>0, <1>2
<1>4. 0 \in CPU
  BY MlfqAssumption DEF CPU
<1>5. ASSUME NEW c \in CPU, \E p \in Proc : Wake(c, p) \/ Fork(c, p) PROVE Places'
  BY <1>3, <1>5, WakeKeeps
<1>6. ASSUME NEW c \in CPU, NEW p \in Proc \cup {None}, Exit(c, p) PROVE Places'
  BY <1>0, <1>3, <1>6, ExitKeeps
<1>7. ASSUME NEW c \in CPU,
             Sleep(c) \/ SwitchOut(c) \/ \E p \in Proc : Reap(c, p) \/ Slay(c, p)
      PROVE  Places'
  BY <1>0, <1>1b, <1>3, <1>7, LeaveKeeps
<1>8. ASSUME NEW c \in CPU, Boot(c) \/ OnTick(c) \/ ChooseCpu(c) PROVE Places'
  BY <1>0, <1>3, <1>8, TickKeeps
<1>9. ASSUME ClockTick \/ UNCHANGED vars PROVE Places'
  BY <1>0, <1>3, <1>4, <1>9, TickKeeps
<1>10. ASSUME NEW c \in CPU, Dispatch(c) PROVE Places'
  BY <1>3, <1>10, DispatchKeeps
<1>11. ASSUME NEW c \in CPU, Yield(c) PROVE Places'
  BY <1>0, <1>3, <1>11, YieldKeeps
<1>12. ASSUME NEW c \in CPU, EnqueuePending(c) PROVE Places'
  BY <1>3, <1>12, PendingKeeps
<1>13. ASSUME NEW c \in CPU, PickLocal(c) PROVE Places'
  BY <1>3, <1>13, PickLocalKeeps
<1>14. ASSUME NEW c \in CPU, Steal(c) PROVE Places'
  BY <1>3, <1>14, StealKeeps
<1>15. ASSUME NEW c \in CPU, AgeQueues(c) PROVE Places'
  BY <1>3, <1>15, AgeKeeps
<1> QED
  BY <1>1a, <1>5, <1>6, <1>7, <1>8, <1>9, <1>10, <1>11, <1>12, <1>13, <1>14, <1>15, Zenon
  DEF Next, SchedulerStep, NewWork

(* At first only proczero has a place, at the head of CPU 0's queues.      *)
LEMMA OneHomeInit == Init => OneHome
<1> SUFFICES ASSUME Init PROVE OneHome
  OBVIOUS
<1>1. /\ Zero \in Proc /\ 0 \in CPU /\ 0 \in Level /\ MaxDepth \in {1, 2}
      /\ 0 \in 0 .. AgingThreshold /\ "NONE" \in YieldReason
  BY MlfqAssumption, SchedAssumption DEF CPU, Level, YieldReason
<1>2. PICK t \in Quanta(0) :
        m = [p \in Proc |-> IF p = Zero
                            THEN [ClearedFields EXCEPT !.inq = TRUE, !.ticks = t]
                            ELSE ClearedFields]
  BY Zenon DEF Init
<1>3. /\ m[Zero].inq /\ m[Zero].cpu = 0 /\ m[Zero].level = 0
      /\ \A p \in Proc : m[p].inq => p = Zero
  <2>1. m[Zero] = [ClearedFields EXCEPT !.inq = TRUE, !.ticks = t]
    BY <1>1, <1>2
  <2>2. m[Zero].inq /\ m[Zero].cpu = 0 /\ m[Zero].level = 0
    BY <2>1 DEF ClearedFields
  <2>3. \A p \in Proc : p # Zero => m[p] = ClearedFields
    BY <1>2
  <2> QED BY <2>2, <2>3 DEF ClearedFields
<1>4. st[Zero] = "RUNNABLE"
  BY <1>1 DEF Init
<1>5. /\ rq[0][0] = <<Zero>>
      /\ \A c \in CPU : \A l \in Level : c # 0 \/ l # 0 => rq[c][l] = <<>>
  BY <1>1 DEF Init, EmptyQueues
<1>6. QueuesTidy
  <2>1. ASSUME NEW c \in CPU, NEW l \in Level, NEW i \in 1 .. Len(rq[c][l])
        PROVE  c = 0 /\ l = 0 /\ i = 1 /\ rq[c][l][i] = Zero /\ Len(rq[c][l]) = 1
    <3>1. Len(<<>>) = 0 /\ Len(<<Zero>>) = 1 /\ <<Zero>>[1] = Zero
      OBVIOUS
    <3>2. c = 0 /\ l = 0
      <4>1. CASE rq[c][l] = <<>>
        <5>1. i \in 1 .. 0
          BY <3>1, <4>1
        <5> QED BY <5>1
      <4> QED BY <1>5, <4>1
    <3>3. rq[c][l] = <<Zero>>
      BY <1>5, <3>2
    <3>4. i \in 1 .. 1
      BY <3>1, <3>3
    <3> QED BY <3>1, <3>2, <3>3, <3>4
  <2>2. ASSUME NEW c \in CPU, NEW l \in Level, NEW i \in 1 .. Len(rq[c][l])
        PROVE  /\ st[rq[c][l][i]] = "RUNNABLE"
               /\ m[rq[c][l][i]].inq /\ m[rq[c][l][i]].cpu = c /\ m[rq[c][l][i]].level = l
               /\ \A j \in 1 .. Len(rq[c][l]) : rq[c][l][j] = rq[c][l][i] => j = i
    <3>1. c = 0 /\ l = 0 /\ i = 1 /\ rq[c][l][i] = Zero
      BY <2>1
    <3>2. \A j \in 1 .. Len(rq[c][l]) : j = 1
      BY <2>1
    <3> QED BY <1>3, <1>4, <3>1, <3>2
  <2> QED BY <2>2 DEF QueuesTidy, Tidy
<1>7. MarksTrue
  <2>1. Contains(rq[0], Zero)
    <3>1. 1 \in DOMAIN <<Zero>> /\ <<Zero>>[1] = Zero
      OBVIOUS
    <3> QED BY <1>1, <1>5, <3>1 DEF Contains, Range
  <2> QED BY <1>1, <1>3, <2>1 DEF MarksTrue, Queued
<1>8. PickedAlone
  BY DEF Init, PickedAlone
<1>9. \A c \in CPU : pend[c] = <<>>
  BY DEF Init
<1>10. PendingAlone /\ Shallow
  BY <1>1, <1>9 DEF PendingAlone, Shallow
<1> QED BY <1>6, <1>7, <1>8, <1>10 DEF OneHome, Places

-----------------------------------------------------------------------------
(* What the invariant says of the places of a process.                     *)

(* A level without repetitions is no longer than there are processes.      *)
LEMMA LevelShort ==
  ASSUME NEW s \in Seq(Proc), \A i, j \in 1 .. Len(s) : s[i] = s[j] => i = j
  PROVE  Len(s) <= Cardinality(Proc)
<1>1. /\ Len(s) \in Nat /\ s \in [1 .. Len(s) -> Proc]
      /\ IsFiniteSet(Proc) /\ Cardinality(Proc) \in Nat
  BY SchedAssumption, FS_CardinalityType
<1>2. IsFiniteSet(1 .. Len(s)) /\ Cardinality(1 .. Len(s)) = Len(s)
  <2>1. 1 \in Int /\ Len(s) \in Int
    BY <1>1
  <2>2. /\ IsFiniteSet(1 .. Len(s))
        /\ Cardinality(1 .. Len(s)) = IF 1 > Len(s) THEN 0 ELSE Len(s) - 1 + 1
    BY <2>1, FS_Interval
  <2> QED BY <1>1, <2>2
<1>3. CASE Cardinality(Proc) < Len(s)
  <2>1. \E x, y \in 1 .. Len(s) : x # y /\ s[x] = s[y]
    BY <1>1, <1>2, <1>3, FS_PigeonHole
  <2> QED BY <2>1
<1> QED BY <1>1, <1>3

(* A set with an element, and no other, has cardinality one.               *)
LEMMA Alone ==
  ASSUME NEW S, NEW x \in S, \A y \in S : y = x
  PROVE  Cardinality(S) = 1
<1>1. S = {x}
  OBVIOUS
<1> QED BY <1>1, FS_Singleton

(* The places of p: where it is picked, queued and waits to be queued.     *)
PickedAt(p) == {c \in CPU : ctx[c] = "picked" /\ at[c] = p}
PendingAt(p) ==
  {e \in CPU \X (1 .. MaxDepth) :
     e[2] \in DOMAIN pend[e[1]] /\ pend[e[1]][e[2]].p = p}

(* An entry of a queue is one of Entries, whose index it does not exceed.  *)
LEMMA EntryPlace ==
  ASSUME TypeInv, Places, NEW c \in CPU, NEW l \in Level, NEW i \in 1 .. Len(rq[c][l])
  PROVE  <<c, l, i>> \in Entries(rq[c][l][i])
<1>1. rq[c][l] \in Seq(Proc) /\ Len(rq[c][l]) \in Nat
  BY DEF TypeInv, TypeOK, Queues
<1>2. \A x, y \in 1 .. Len(rq[c][l]) : rq[c][l][x] = rq[c][l][y] => x = y
  BY DEF Places, QueuesTidy, Tidy
<1>3. Len(rq[c][l]) <= Cardinality(Proc)
  <2>1. PICK s \in Seq(Proc) : s = rq[c][l]
    BY <1>1
  <2>2. \A x, y \in 1 .. Len(s) : s[x] = s[y] => x = y
    BY <1>2, <2>1
  <2> QED BY <2>1, <2>2, LevelShort
<1>4. Cardinality(Proc) \in Nat /\ MaxKicks \in Nat
  BY SchedAssumption, FS_CardinalityType
<1>5. i \in 1 .. Cardinality(Proc) + MaxKicks /\ i \in DOMAIN rq[c][l]
  BY <1>1, <1>3, <1>4
<1> QED BY <1>5 DEF Entries

(* What Entries says of its members.                                       *)
LEMMA EntryFacts ==
  ASSUME TypeInv, Places, NEW p \in Proc, NEW e \in Entries(p)
  PROVE  /\ \E c \in CPU, l \in Level : \E i \in 1 .. Len(rq[c][l]) :
              e = <<c, l, i>> /\ rq[c][l][i] = p
         /\ st[p] = "RUNNABLE" /\ m[p].inq /\ m[p].cpu = e[1] /\ m[p].level = e[2]
         /\ Queued(p)
<1>1. PICK c, l, i : /\ c \in CPU /\ l \in Level /\ i \in DOMAIN rq[c][l]
                     /\ e = <<c, l, i>> /\ rq[c][l][i] = p
  <2>1. /\ e \in CPU \X Level \X (1 .. Cardinality(Proc) + MaxKicks)
        /\ e[3] \in DOMAIN rq[e[1]][e[2]] /\ rq[e[1]][e[2]][e[3]] = p
    BY Zenon DEF Entries
  <2>2. e[1] \in CPU /\ e[2] \in Level /\ e = <<e[1], e[2], e[3]>>
    BY <2>1
  <2> QED BY <2>1, <2>2
<1>2. rq[c] \in Queues /\ rq[c][l] \in Seq(Proc)
  BY <1>1 DEF TypeInv, TypeOK, Queues
<1>3. i \in 1 .. Len(rq[c][l])
  BY <1>1, <1>2
<1>4. st[p] = "RUNNABLE" /\ m[p].inq /\ m[p].cpu = c /\ m[p].level = l
  BY <1>1, <1>3 DEF Places, QueuesTidy, Tidy
<1>5. Contains(rq[c], p)
  BY <1>1, <1>2, <1>3, ContainsEntry
<1> QED BY <1>1, <1>3, <1>4, <1>5 DEF Queued

(* While nobody has been signalled, the invariant is what was to be shown. *)
LEMMA OnePlace ==
  ASSUME TypeInv, RunnableNotLost, OneHome
  PROVE  OneEntry
<1> SUFFICES ASSUME Places, NEW p \in Proc
             PROVE  /\ Cardinality(Holders(p)) = IF st[p] = "RUNNABLE" THEN 1 ELSE 0
                    /\ m[p].inq <=> Queued(p)
                    /\ \A e \in Entries(p) : m[p].cpu = e[1] /\ m[p].level = e[2]
  BY DEF OneEntry, OneHome
<1>1. Holders(p) = PickedAt(p) \cup Entries(p) \cup PendingAt(p)
  BY DEF Holders, PickedAt, PendingAt
<1>2. m[p].inq <=> Queued(p)
  <2>1. m[p] \in MlfqFields
    BY DEF TypeInv, TypeOK
  <2>2. Queued(p) => m[p].inq
    BY Marked DEF Queued
  <2> QED BY <2>1, <2>2 DEF Places, MarksTrue, MlfqFields
<1>3. \A e \in Entries(p) : m[p].cpu = e[1] /\ m[p].level = e[2]
  BY EntryFacts
<1>4. /\ ~Queued(p) => Entries(p) = {}
      /\ ~Picked(p) => PickedAt(p) = {}
      /\ ~InFlight(p) => PendingAt(p) = {}
  BY EntryFacts DEF Picked, PickedAt, InFlight, PendingAt
<1>5. CASE st[p] # "RUNNABLE"
  <2>1. ~Queued(p) /\ ~Picked(p) /\ ~InFlight(p)
    BY <1>5, Unmarked DEF Picked, InFlight
  <2>2. Holders(p) = {}
    BY <1>1, <1>4, <2>1
  <2> QED BY <1>2, <1>3, <1>5, <2>2, FS_EmptySet
<1>6. CASE Queued(p)
  <2>1. PICK c \in CPU : Contains(rq[c], p)
    BY <1>6 DEF Queued
  <2>2. rq[c] \in Queues
    BY DEF TypeInv, TypeOK
  <2>3. PICK l, i : l \in Level /\ i \in 1 .. Len(rq[c][l]) /\ rq[c][l][i] = p
    BY <2>1, <2>2, ContainsEntry
  <2>4. <<c, l, i>> \in Entries(p)
    BY <2>3, EntryPlace
  <2>5. /\ st[p] = "RUNNABLE" /\ m[p].inq /\ m[p].cpu = c /\ m[p].level = l
    BY <2>3 DEF Places, QueuesTidy, Tidy
  <2>6. ASSUME NEW y \in Entries(p) PROVE y = <<c, l, i>>
    <3>1. PICK d, k, j : /\ d \in CPU /\ k \in Level /\ j \in 1 .. Len(rq[d][k])
                         /\ y = <<d, k, j>> /\ rq[d][k][j] = p
      BY EntryFacts
    <3>2. m[p].cpu = d /\ m[p].level = k
      BY <3>1 DEF Places, QueuesTidy, Tidy
    <3>3. d = c /\ k = l
      BY <2>5, <3>2
    <3>4. j = i
      BY <2>3, <3>1, <3>3 DEF Places, QueuesTidy, Tidy
    <3> QED BY <3>1, <3>3, <3>4
  <2>7. ~Picked(p) /\ ~InFlight(p)
    BY <2>5 DEF Picked, InFlight, Places, PickedAlone, PendingAlone
  <2>8. Holders(p) = Entries(p)
    BY <1>1, <1>4, <2>7
  <2> QED BY <1>2, <1>3, <2>4, <2>5, <2>6, <2>8, Alone
<1>7. CASE Picked(p)
  <2>1. PICK c \in CPU : ctx[c] = "picked" /\ at[c] = p
    BY <1>7 DEF Picked
  <2>2. c \in PickedAt(p) /\ \A d \in PickedAt(p) : d = c
    BY <2>1 DEF PickedAt, Places, PickedAlone
  <2>3. st[p] = "RUNNABLE" /\ ~m[p].inq
    BY <2>1 DEF Places, PickedAlone
  <2>4. ~Queued(p) /\ ~InFlight(p)
    BY <1>2, <2>1, <2>3 DEF InFlight, Places, PendingAlone
  <2>5. Holders(p) = PickedAt(p)
    BY <1>1, <1>4, <2>4
  <2> QED BY <1>2, <1>3, <2>2, <2>3, <2>5, Alone
<1>8. CASE InFlight(p)
  <2>1. PICK c, i : c \in CPU /\ i \in DOMAIN pend[c] /\ pend[c][i].p = p
    BY <1>8 DEF InFlight
  <2>2. /\ pend[c] \in Seq(Pending) /\ Len(pend[c]) <= MaxDepth
        /\ Len(pend[c]) \in Nat /\ MaxDepth \in Nat
    BY <2>1, SchedAssumption DEF TypeInv, TypeOK, OneHome, Shallow
  <2>3. <<c, i>> \in PendingAt(p)
    <3>1. i \in 1 .. MaxDepth
      BY <2>1, <2>2
    <3> QED BY <2>1, <3>1 DEF PendingAt
  <2>4. ASSUME NEW y \in PendingAt(p) PROVE y = <<c, i>>
    <3>1. PICK d, j : /\ d \in CPU /\ j \in DOMAIN pend[d]
                      /\ y = <<d, j>> /\ pend[d][j].p = p
      BY DEF PendingAt
    <3>2. d = c /\ j = i
      BY <2>1, <3>1 DEF Places, PendingAlone
    <3> QED BY <3>1, <3>2
  <2>5. st[p] = "RUNNABLE" /\ ~m[p].inq
    BY <2>1 DEF Places, PendingAlone
  <2>6. ~Queued(p) /\ ~Picked(p)
    BY <1>2, <2>1, <2>5 DEF Picked, Places, PendingAlone
  <2>7. Holders(p) = PendingAt(p)
    BY <1>1, <1>4, <2>6
  <2> QED BY <1>2, <1>3, <2>3, <2>4, <2>5, <2>7, Alone
<1> QED BY <1>5, <1>6, <1>7, <1>8 DEF RunnableNotLost

(* Until a RUNNABLE process is signalled by exit_group or killed, or a     *)
(* RUNNING one is killed, a process has exactly one place while it is      *)
(* RUNNABLE and none otherwise, and a queued one stands where its own      *)
(* fields say: runq_push never finds a full ring.                          *)
THEOREM OneEntryCorrect == Spec => []OneEntry
<1>1. Init => TypeInv /\ OneHome
  BY TypeInit, OneHomeInit
<1>2. TypeInv /\ OneCpu /\ OneHome /\ [Next]_vars => TypeInv' /\ OneHome'
  BY TypeStep, ShallowStep, PlacesStep DEF OneHome
<1>3. TypeInv /\ RunnableNotLost /\ OneHome => OneEntry
  BY OnePlace
<1> QED
  BY <1>1, <1>2, <1>3, OneCpuCorrect, RunnableNotLostCorrect, PTL DEF Spec

=============================================================================
