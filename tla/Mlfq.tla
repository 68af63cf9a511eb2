-------------------------------- MODULE Mlfq --------------------------------
(***************************************************************************)
(* The queue structure of proc/mlfq.c: every CPU owns three FIFO run       *)
(* queues, level 0 the highest priority.  This module holds the parts that *)
(* are functions of the queues: where a process is placed, what a pick     *)
(* takes and what an aging scan leaves.  Sched.tla holds the state.        *)
(*                                                                         *)
(* A run queue is a sequence (the ring buffer mlfq_runq_t read from head   *)
(* to tail).  The per-process fields of proc_t that the queues use are one *)
(* record, MlfqFields; the age of a process is the number of clock ticks   *)
(* since mlfq_age_start_tick, counted up to AgingThreshold.                *)
(***************************************************************************)
EXTENDS Integers, Sequences, Functions

CONSTANTS
  Proc,           \* the process slots, proc_list[N_PROC]
  NCPU,           \* number of CPUs
  BaseQuantum,    \* time slice of levels 0 and 1, in user-mode timer ticks
  L2Quanta,       \* the slices the Markov prediction may give level 2
  AgingThreshold  \* MLFQ_AGING_THRESHOLD, in clock ticks

Level == 0 .. 2
CPU == 0 .. NCPU - 1

ASSUME MlfqAssumption ==
  /\ NCPU \in Nat \ {0}
  /\ BaseQuantum \in [0 .. 1 -> Nat \ {0}]
  /\ L2Quanta \subseteq Nat \ {0}
  /\ L2Quanta # {}
  /\ AgingThreshold \in Nat \ {0}

(* MLFQ_AGING_BUDGET: entries one aging scan visits per level.             *)
AgingBudget == 4

YieldReason == {"NONE", "EXPIRE", "HIGHER", "VOLUNTARY"}

MlfqFields ==
  [level : Level, ticks : Nat, inq : BOOLEAN, cpu : CPU,
   age : 0 .. AgingThreshold, reason : YieldReason]

(* Variant: a free slot records "no CPU" as an index out of range.         *)
ClearedFieldsNoCpu ==
  [level |-> 0, ticks |-> 0, inq |-> FALSE, cpu |-> -1, age |-> 0,
   reason |-> "NONE"]

(* What proc_alloc and proc_free leave in a slot.                          *)
ClearedFields ==
  [level |-> 0, ticks |-> 0, inq |-> FALSE, cpu |-> 0, age |-> 0,
   reason |-> "NONE"]

Queues == [Level -> Seq(Proc)]

EmptyQueues == [l \in Level |-> <<>>]

(* mlfq_contains_locked_cpu: p stands in some level of one CPU's queues.   *)
Contains(q, p) == \E l \in Level : p \in Range(q[l])

(* mlfq_quantum_plocked: the slices a refill at this level may produce.    *)
Quanta(level) == IF level = 2 THEN L2Quanta ELSE {BaseQuantum[level]}

(* A slice is refilled on request or when it is used up.                   *)
Refill(ticks, level, reset) ==
  IF reset \/ ticks <= 0 THEN Quanta(level) ELSE {ticks}

(* mlfq_on_yield_locked: only a used-up slice lowers the priority.         *)
YieldLevel(level, reason) ==
  IF reason = "EXPIRE" /\ level < 2 THEN level + 1 ELSE level

-----------------------------------------------------------------------------
(* Placement.                                                              *)

(* Variant: without the surcharge.                                         *)
EligibleAll(busy, me) == CPU

(* The CPUs a new or woken process may be sent to.  Both choosers          *)
(* (mlfq_choose_cpu_for_newproc, mlfq_choose_cpu_for_wakeup) take a CPU of *)
(* least load, but they read one queue after the other while the queues    *)
(* change, so any CPU may look like the least loaded one, except that a    *)
(* CPU whose mlfq_cpu_running hint is 0 carries a surcharge no number of   *)
(* processes outweighs.  `me`, the CPU that executes the choice, never     *)
(* carries it.                                                             *)
Eligible(busy, me) == {c \in CPU : busy[c] \/ c = me}

-----------------------------------------------------------------------------
(* Picking.                                                                *)

(* Entry i of level l is the first one, from level 0 down and head to      *)
(* tail, whose process is RUNNABLE; the local scan drops all before it.    *)
IsFirstRunnable(q, st, l, i) ==
  /\ st[q[l][i]] = "RUNNABLE"
  /\ \A j \in 1 .. i - 1 : st[q[l][j]] # "RUNNABLE"
  /\ \A k \in 0 .. l - 1 : \A j \in DOMAIN q[k] : st[q[k][j]] # "RUNNABLE"

NoneRunnable(q, st) ==
  \A l \in Level : \A j \in DOMAIN q[l] : st[q[l][j]] # "RUNNABLE"

AfterPick(q, l, i) ==
  [k \in Level |-> CASE k < l -> <<>>
                     [] k = l -> SubSeq(q[k], i + 1, Len(q[k]))
                     [] OTHER -> q[k]]

(* The processes the local scan pops before it reaches entry i of level l. *)
Dropped(q, l, i) ==
  UNION {Range(q[k]) : k \in 0 .. l - 1} \cup {q[l][j] : j \in 1 .. i - 1}

(* runq_pop_tail.                                                          *)
LastOf(s) == s[Len(s)]
PopTail(q, l) == [q EXCEPT ![l] = SubSeq(@, 1, Len(@) - 1)]

-----------------------------------------------------------------------------
(* Aging.  A scan state is [q, m]: one CPU's queues and the fields of all  *)
(* processes.                                                              *)

(* What becomes of the head entry of level l: it is dropped when it is not *)
(* RUNNABLE, moves to the tail of the level above, or of its own level.    *)
DropHead(s, l) ==
  [q |-> [s.q EXCEPT ![l] = Tail(@)],
   m |-> [s.m EXCEPT ![Head(s.q[l])].inq = FALSE]]

Promoted(f, l) ==
  [f EXCEPT !.level = l - 1, !.ticks = BaseQuantum[l - 1], !.age = 0]

PromoteHead(s, l) ==
  LET p == Head(s.q[l])
  IN  [q |-> [[s.q EXCEPT ![l] = Tail(@)] EXCEPT ![l - 1] = Append(@, p)],
       m |-> [s.m EXCEPT ![p] = Promoted(@, l)]]

RotateHead(s, l) ==
  [q |-> [s.q EXCEPT ![l] = Append(Tail(@), Head(@))], m |-> s.m]

(* Variant: an entry that is not old enough is not pushed back.            *)
AgeOneLoses(s, st, l) ==
  IF /\ st[Head(s.q[l])] = "RUNNABLE"
     /\ s.m[Head(s.q[l])].age >= AgingThreshold
  THEN PromoteHead(s, l) ELSE DropHead(s, l)

(* The loop body of mlfq_age_tick.                                         *)
AgeOne(s, st, l) ==
  IF st[Head(s.q[l])] # "RUNNABLE" THEN DropHead(s, l)
  ELSE IF s.m[Head(s.q[l])].age >= AgingThreshold THEN PromoteHead(s, l)
  ELSE RotateHead(s, l)

(* The budget is fixed before the loop, and the loop is unrolled.          *)
AgeLevel(s, st, l) ==
  LET n == Len(s.q[l])
      Step(t, i) == IF i <= n THEN AgeOne(t, st, l) ELSE t
  IN  Step(Step(Step(Step(s, 1), 2), 3), AgingBudget)

(* Variant: nothing is promoted.                                           *)
AgeTickNever(s, st) == s

AgeTick(s, st) == AgeLevel(AgeLevel(s, st, 1), st, 2)

(* mlfq_has_higher.                                                        *)
HasHigher(q, level) == \E k \in 0 .. level - 1 : q[k] # <<>>
=============================================================================
