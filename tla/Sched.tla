------------------------------- MODULE Sched -------------------------------
(***************************************************************************)
(* The process scheduler of SeaOS: proc_scheduler, proc_yield, sleep and   *)
(* wakeup of proc/proc.c over the per-CPU feedback queues of proc/mlfq.c.  *)
(*                                                                         *)
(* An action is one critical section (a run-queue lock, a process lock, or *)
(* one inside the other), so every interleaving of CPUs between two        *)
(* critical sections is a behaviour.  Waking a process is three of them:   *)
(* its state changes under its own lock, the CPU is chosen from loads read *)
(* queue by queue, and only then is it enqueued.  `pend[c]` is the stack   *)
(* of such unfinished enqueues of CPU c: the code it executes, and an      *)
(* interrupt that wakes somebody else on top of it.                        *)
(*                                                                         *)
(* What a process sleeps on, and who its parent is, are left to other      *)
(* modules: here any SLEEPING process may be woken.                        *)
(***************************************************************************)
EXTENDS Mlfq, FiniteSets

CONSTANTS
  Zero,      \* proczero
  None,      \* no process
  MaxDepth,  \* bound: a wakeup and the interrupts nested in it, 1 or 2
  MaxKicks,  \* bound: signals of exit_group to, and kills of, RUNNABLE processes
  MaxHits    \* bound: kills of RUNNING processes

ASSUME SchedAssumption ==
  /\ IsFiniteSet(Proc)
  /\ Zero \in Proc
  /\ None \notin Proc
  /\ MaxKicks \in Nat
  /\ MaxHits \in Nat
  /\ MaxDepth \in {1, 2}

VARIABLES
  st,      \* p->state
  m,       \* the MLFQ fields of every process
  rq,      \* mlfq_rq: the run queues of every CPU
  busy,    \* mlfq_cpu_running
  ctx,     \* where each CPU's control is
  at,      \* the process a CPU has picked or runs (c->proc), or None
  todo,    \* the visits <<victim, level>> of a stealing scan still to do
  pend,    \* unfinished enqueues of each CPU, innermost first
  kicks,   \* RUNNABLE processes signalled by exit_group or killed so far
  hits     \* processes killed so far while another CPU executed them

vars == <<st, m, rq, busy, ctx, at, todo, pend, kicks, hits>>
counters == <<kicks, hits>>

State == {"UNUSED", "RUNNABLE", "RUNNING", "SLEEPING", "ZOMBIE"}

(* "run": in process context; "tick", "preempt": in the timer trap from    *)
(* user mode, the latter after it decided to yield; "exiting": a zombie    *)
(* that still holds its own lock and its kernel stack.                     *)
Context ==
  {"off", "sched", "steal", "picked", "run", "tick", "preempt", "exiting"}
Alive == {"run", "tick", "preempt"}
OnStack == Alive \cup {"exiting"}

(* An unfinished enqueue: `to` is -1 until a CPU has been chosen.          *)
Pending == [p : Proc, new : BOOLEAN, to : -1 .. NCPU - 1]

Init ==
  /\ st = [p \in Proc |-> IF p = Zero THEN "RUNNABLE" ELSE "UNUSED"]
  /\ \E t \in Quanta(0) :
       m = [p \in Proc |->
              IF p = Zero
              THEN [ClearedFields EXCEPT !.inq = TRUE, !.ticks = t]
              ELSE ClearedFields]
  /\ rq = [c \in CPU |-> IF c = 0 THEN [EmptyQueues EXCEPT ![0] = <<Zero>>]
                                  ELSE EmptyQueues]
  /\ busy = [c \in CPU |-> FALSE]
  /\ ctx = [c \in CPU |-> IF c = 0 THEN "sched" ELSE "off"]
  /\ at = [c \in CPU |-> None]
  /\ todo = [c \in CPU |-> <<>>]
  /\ pend = [c \in CPU |-> <<>>]
  /\ kicks = 0
  /\ hits = 0

-----------------------------------------------------------------------------
(* Enqueueing, under the run-queue lock of cpu and the lock of p.  `f` are *)
(* the fields and `s` the state of p when the routine is entered.          *)

(* Nothing is queued: p is there already, or it is not RUNNABLE any more.  *)
EnqueueSkips(cpu, p, f, s) ==
  /\ (f.inq /\ Contains(rq[cpu], p)) \/ s # "RUNNABLE"
  /\ m' = [m EXCEPT ![p] = [f EXCEPT !.inq = @ /\ Contains(rq[cpu], p)]]
  /\ rq' = rq

EnqueuePushes(cpu, p, f, s, level, reset, front) ==
  /\ ~(f.inq /\ Contains(rq[cpu], p)) /\ s = "RUNNABLE"
  /\ \E t \in Refill(f.ticks, level, reset) :
       m' = [m EXCEPT ![p] = [f EXCEPT !.level = level, !.ticks = t,
                                       !.inq = TRUE, !.cpu = cpu, !.age = 0]]
  /\ rq' = [rq EXCEPT ![cpu][level] =
              IF front THEN <<p>> \o @ ELSE Append(@, p)]

Enqueue(cpu, p, f, s, level, reset, front) ==
  \/ EnqueueSkips(cpu, p, f, s)
  \/ EnqueuePushes(cpu, p, f, s, level, reset, front)

Push(c, p, new) ==
  pend' = [pend EXCEPT ![c] = <<[p |-> p, new |-> new, to |-> -1]>> \o @]

-----------------------------------------------------------------------------
(* The scheduler loop of one CPU.                                          *)

(* main: a secondary hart reaches proc_scheduler, or never does.           *)
Boot(c) ==
  /\ ctx[c] = "off"
  /\ ctx' = [ctx EXCEPT ![c] = "sched"]
  /\ UNCHANGED <<st, m, rq, busy, at, todo, pend, counters>>

(* mlfq_pick_next takes p for CPU c: p leaves the queue but stays RUNNABLE *)
(* and unlocked until the scheduler locks it again.                        *)
Take(c, p, dropped) ==
  /\ \E t \in Refill(m[p].ticks, m[p].level, FALSE) :
       m' = [q \in Proc |->
               IF q = p THEN [m[p] EXCEPT !.inq = FALSE, !.ticks = t, !.cpu = c]
               ELSE [m[q] EXCEPT !.inq = @ /\ q \notin dropped]]
  /\ at' = [at EXCEPT ![c] = p]
  /\ ctx' = [ctx EXCEPT ![c] = "picked"]

(* The visits of a pick that found nothing at home: level 2 of every other *)
(* CPU in order, then level 1 of every other CPU.                          *)
StealVisits(c) ==
  LET n == NCPU - 1
      Other(i) == IF i - 1 < c THEN i - 1 ELSE i
  IN  [i \in 1 .. 2 * n |-> IF i <= n THEN <<Other(i), 2>>
                                       ELSE <<Other(i - n), 1>>]

(* The CPU says that it runs nothing (mlfq_set_cpu_running), then scans    *)
(* its own queues; both happen under the same run-queue lock.              *)
PickLocal(c) ==
  /\ ctx[c] = "sched" /\ pend[c] = <<>>
  /\ busy' = [busy EXCEPT ![c] = FALSE]
  /\ \/ \E l \in Level : \E i \in DOMAIN rq[c][l] :
          /\ IsFirstRunnable(rq[c], st, l, i)
          /\ Take(c, rq[c][l][i], Dropped(rq[c], l, i))
          /\ rq' = [rq EXCEPT ![c] = AfterPick(@, l, i)]
          /\ UNCHANGED todo
     \/ /\ NoneRunnable(rq[c], st)
        /\ m' = [p \in Proc |-> [m[p] EXCEPT !.inq = @ /\ ~Contains(rq[c], p)]]
        /\ rq' = [rq EXCEPT ![c] = EmptyQueues]
        /\ ctx' = [ctx EXCEPT ![c] = "steal"]
        /\ todo' = [todo EXCEPT ![c] = StealVisits(c)]
        /\ UNCHANGED at
  /\ UNCHANGED <<st, pend, counters>>

(* Level 0 is never stolen from, and level 1 only when the victim has      *)
(* nothing in level 0 and more than one process in level 1.                *)
MaySteal(v, l) ==
  IF l = 2 THEN rq[v][2] # <<>> ELSE rq[v][0] = <<>> /\ Len(rq[v][1]) > 1

(* One visit of a stealing scan: the tail of the victim's queue is taken   *)
(* when it is RUNNABLE and dropped when it is not.                         *)
StealFrom(c, v, l) ==
  LET p == LastOf(rq[v][l])
  IN  \/ /\ MaySteal(v, l) /\ st[p] = "RUNNABLE"
         /\ rq' = [rq EXCEPT ![v] = PopTail(@, l)]
         /\ Take(c, p, {})
         /\ todo' = [todo EXCEPT ![c] = <<>>]
      \/ /\ MaySteal(v, l) /\ st[p] # "RUNNABLE"
         /\ rq' = [rq EXCEPT ![v] = PopTail(@, l)]
         /\ m' = [m EXCEPT ![p].inq = FALSE]
         /\ todo' = [todo EXCEPT ![c] = Tail(@)]
         /\ UNCHANGED <<ctx, at>>
      \/ /\ ~MaySteal(v, l)
         /\ todo' = [todo EXCEPT ![c] = Tail(@)]
         /\ UNCHANGED <<m, rq, ctx, at>>

Steal(c) ==
  /\ ctx[c] = "steal" /\ pend[c] = <<>>
  /\ \/ /\ todo[c] # <<>>
        /\ StealFrom(c, Head(todo[c])[1], Head(todo[c])[2])
     \/ /\ todo[c] = <<>>
        /\ ctx' = [ctx EXCEPT ![c] = "sched"]
        /\ UNCHANGED <<m, rq, at, todo>>
  /\ UNCHANGED <<st, busy, pend, counters>>

(* The scheduler locks the picked process and looks at its state again.    *)
Dispatch(c) ==
  /\ ctx[c] = "picked" /\ pend[c] = <<>>
  /\ IF st[at[c]] = "RUNNABLE"
     THEN /\ st' = [st EXCEPT ![at[c]] = "RUNNING"]
          /\ m' = [m EXCEPT ![at[c]].cpu = c, ![at[c]].age = 0]
          /\ busy' = [busy EXCEPT ![c] = TRUE]
          /\ ctx' = [ctx EXCEPT ![c] = "run"]
          /\ UNCHANGED at
     ELSE /\ ctx' = [ctx EXCEPT ![c] = "sched"]
          /\ at' = [at EXCEPT ![c] = None]
          /\ UNCHANGED <<st, m, busy>>
  /\ UNCHANGED <<rq, todo, pend, counters>>

-----------------------------------------------------------------------------
(* What the process on a CPU does.                                         *)

InProcess(c) == ctx[c] = "run" /\ pend[c] = <<>>

(* An exiting process keeps its own lock until it has left its stack.      *)
Locked(p) == \E c \in CPU : ctx[c] = "exiting" /\ at[c] = p

Leave(c) ==
  /\ ctx' = [ctx EXCEPT ![c] = "sched"]
  /\ at' = [at EXCEPT ![c] = None]

(* proc_on_tick, from the timer trap in user mode: first mlfq_age_tick.    *)
AgeQueues(c) ==
  LET aged == AgeTick([q |-> rq[c], m |-> m], st)
  IN  /\ InProcess(c) /\ st[at[c]] = "RUNNING"
      /\ rq' = [rq EXCEPT ![c] = aged.q]
      /\ m' = aged.m
      /\ ctx' = [ctx EXCEPT ![c] = "tick"]
      /\ UNCHANGED <<st, busy, at, todo, pend, counters>>

(* The slice of the process that runs.                                     *)
OnTick(c) ==
  LET p    == at[c]
      left == IF m[p].ticks > 0 THEN m[p].ticks - 1 ELSE 0
      why  == CASE left = 0 -> "EXPIRE"
                [] left > 0 /\ HasHigher(rq[c], m[p].level) -> "HIGHER"
                [] OTHER -> "NONE"
  IN  /\ ctx[c] = "tick"
      /\ m' = [m EXCEPT ![p].ticks = left,
                        ![p].reason = IF why = "NONE" THEN @ ELSE why]
      /\ ctx' = [ctx EXCEPT ![c] = IF why = "NONE" THEN "run" ELSE "preempt"]
      /\ UNCHANGED <<st, rq, busy, at, todo, pend, counters>>

(* What the timer recorded.  A system call records nothing, which counts   *)
(* as an expired slice, or VOLUNTARY (socket_handoff_peer).                *)
Reasons(p) ==
  IF m[p].reason = "NONE" THEN {"EXPIRE", "VOLUNTARY"} ELSE {m[p].reason}

(* proc_yield.                                                             *)
Yield(c) ==
  LET p == at[c]
      f == [m[p] EXCEPT !.inq = FALSE, !.reason = "NONE", !.age = 0]
  IN  /\ InProcess(c) \/ ctx[c] = "preempt"
      /\ ~Locked(p)
      /\ st' = [st EXCEPT ![p] = "RUNNABLE"]
      /\ \E reason \in Reasons(p) :
           Enqueue(c, p, f, "RUNNABLE", YieldLevel(f.level, reason),
                   reason = "EXPIRE", FALSE)
      /\ Leave(c)
      /\ UNCHANGED <<busy, todo, pend, counters>>

(* proc_sleep_common.                                                      *)
Sleep(c) ==
  /\ InProcess(c) /\ ~Locked(at[c])
  /\ st' = [st EXCEPT ![at[c]] = "SLEEPING"]
  /\ m' = [m EXCEPT ![at[c]].inq = FALSE]
  /\ Leave(c)
  /\ UNCHANGED <<rq, busy, todo, pend, counters>>

(* CPU c is about to change the state of another process in code that will *)
(* enqueue it: an interrupt of the scheduler loop, process context, or an  *)
(* interrupt of a process that is itself between waking and enqueueing.    *)
CanWake(c) ==
  \/ ctx[c] \notin {"off", "tick", "preempt", "exiting"} /\ pend[c] = <<>>
  \/ ctx[c] = "run" /\ Len(pend[c]) < MaxDepth

(* Variant: the state of the process to wake is not looked at.             *)
WakeAnyone(c, p) ==
  /\ CanWake(c)
  /\ st[p] # "UNUSED"
  /\ st' = [st EXCEPT ![p] = "RUNNABLE"]
  /\ m' = [m EXCEPT ![p].inq = FALSE, ![p].age = 0]
  /\ Push(c, p, FALSE)
  /\ UNCHANGED <<rq, busy, ctx, at, todo, counters>>

(* The first half of a wakeup: proc_wakeup_scan, proc_check_sleep_deadlines*)
(* and proc_check_itimers on a SLEEPING process.                           *)
Wake(c, p) ==
  /\ CanWake(c)
  /\ st[p] = "SLEEPING"
  /\ st' = [st EXCEPT ![p] = "RUNNABLE"]
  /\ m' = [m EXCEPT ![p].inq = FALSE, ![p].age = 0]
  /\ Push(c, p, FALSE)
  /\ UNCHANGED <<rq, busy, ctx, at, todo, counters>>

(* proc_fork_with_stack: a free slot becomes RUNNABLE, then is enqueued.   *)
Fork(c, p) ==
  /\ InProcess(c)
  /\ st[p] = "UNUSED"
  /\ st' = [st EXCEPT ![p] = "RUNNABLE"]
  /\ m' = [m EXCEPT ![p] = ClearedFields]
  /\ Push(c, p, TRUE)
  /\ UNCHANGED <<rq, busy, ctx, at, todo, counters>>

(* proc_signal_group_exit on a RUNNABLE thread: it is enqueued although it *)
(* is queued, picked or about to be enqueued already.  (A SLEEPING thread  *)
(* is a Wake.)                                                             *)
Kick(c, p) ==
  /\ InProcess(c) /\ kicks < MaxKicks
  /\ p # at[c] /\ st[p] = "RUNNABLE"
  /\ kicks' = kicks + 1
  /\ Push(c, p, FALSE)
  /\ UNCHANGED <<st, m, rq, busy, ctx, at, todo, hits>>

(* proc_kill_descendants on one descendant: whatever it does, it becomes a *)
(* zombie.  Its queue entry, a pick of it and an unfinished wakeup stay    *)
(* behind; a CPU that executes it carries on.                              *)
Slay(c, p) ==
  /\ InProcess(c) /\ at[c] # Zero
  /\ p \notin {at[c], Zero} /\ st[p] \notin {"UNUSED", "ZOMBIE"}
  /\ ~Locked(p)
  /\ \/ st[p] = "SLEEPING" /\ UNCHANGED counters
     \/ st[p] = "RUNNABLE" /\ kicks < MaxKicks /\ kicks' = kicks + 1 /\ hits' = hits
     \/ st[p] = "RUNNING" /\ hits < MaxHits /\ hits' = hits + 1 /\ kicks' = kicks
  /\ st' = [st EXCEPT ![p] = "ZOMBIE"]
  /\ UNCHANGED <<m, rq, busy, ctx, at, todo, pend>>

(* The choice of a CPU for the innermost unfinished enqueue.               *)
ChooseCpu(c) ==
  /\ pend[c] # <<>> /\ pend[c][1].to = -1
  /\ \E d \in Eligible(busy, c) : pend' = [pend EXCEPT ![c][1].to = d]
  /\ UNCHANGED <<st, m, rq, busy, ctx, at, todo, counters>>

(* The last part of mlfq_on_new (tail of level 0) and mlfq_on_wakeup (head *)
(* of level 0).                                                            *)
EnqueuePending(c) ==
  /\ pend[c] # <<>> /\ pend[c][1].to # -1
  /\ LET e == pend[c][1]
     IN  Enqueue(e.to, e.p, m[e.p], st[e.p], 0, TRUE, ~e.new)
  /\ pend' = [pend EXCEPT ![c] = Tail(@)]
  /\ UNCHANGED <<st, busy, ctx, at, todo, counters>>

(* proc_exit under the lock of the exiting process: it becomes a zombie    *)
(* and wakes its parent (parent, or None when the parent does not sleep).  *)
Exit(c, parent) ==
  /\ InProcess(c) /\ at[c] # Zero /\ ~Locked(at[c])
  /\ ctx' = [ctx EXCEPT ![c] = "exiting"]
  /\ \/ /\ parent = None
        /\ st' = [st EXCEPT ![at[c]] = "ZOMBIE"]
        /\ UNCHANGED <<m, pend>>
     \/ /\ parent \notin {None, at[c]}
        /\ st[parent] = "SLEEPING"
        /\ st' = [st EXCEPT ![at[c]] = "ZOMBIE", ![parent] = "RUNNABLE"]
        /\ m' = [m EXCEPT ![parent].inq = FALSE, ![parent].age = 0]
        /\ Push(c, parent, FALSE)
  /\ UNCHANGED <<rq, busy, at, todo, counters>>

(* The scheduler is back on its own stack after an exit: a thread that     *)
(* shares its address space is freed at once, then the lock is released.   *)
SwitchOut(c) ==
  /\ ctx[c] = "exiting" /\ pend[c] = <<>>
  /\ \E sharedVm \in BOOLEAN :
       IF sharedVm THEN /\ st' = [st EXCEPT ![at[c]] = "UNUSED"]
                        /\ m' = [m EXCEPT ![at[c]] = ClearedFields]
                   ELSE UNCHANGED <<st, m>>
  /\ Leave(c)
  /\ UNCHANGED <<rq, busy, todo, pend, counters>>

(* Variant: the zombie is freed without waiting for its lock.              *)
ReapEarly(c, p) ==
  /\ InProcess(c) \/ (ctx[c] = "sched" /\ pend[c] = <<>>)
  /\ st[p] = "ZOMBIE"
  /\ st' = [st EXCEPT ![p] = "UNUSED"]
  /\ m' = [m EXCEPT ![p] = ClearedFields]
  /\ UNCHANGED <<rq, busy, ctx, at, todo, pend, counters>>

(* wait4 of a parent, or proc_reap_background_zombies of a scheduler loop, *)
(* frees a zombie whose lock is not held.                                  *)
Reap(c, p) ==
  /\ InProcess(c) \/ (ctx[c] = "sched" /\ pend[c] = <<>>)
  /\ st[p] = "ZOMBIE" /\ p # at[c] /\ ~Locked(p)
  /\ st' = [st EXCEPT ![p] = "UNUSED"]
  /\ m' = [m EXCEPT ![p] = ClearedFields]
  /\ UNCHANGED <<rq, busy, ctx, at, todo, pend, counters>>

(* timer_update on CPU 0: every waiting process grows one tick older.      *)
ClockTick ==
  /\ m' = [p \in Proc |->
             IF st[p] = "RUNNABLE" /\ m[p].age < AgingThreshold
             THEN [m[p] EXCEPT !.age = @ + 1] ELSE m[p]]
  /\ UNCHANGED <<st, rq, busy, ctx, at, todo, pend, counters>>

-----------------------------------------------------------------------------
SchedulerStep(c) ==
  PickLocal(c) \/ Steal(c) \/ Dispatch(c)

(* What a CPU that has started something always finishes.                  *)
FinishStep(c) ==
  \/ ChooseCpu(c) \/ EnqueuePending(c) \/ SwitchOut(c)
  \/ OnTick(c)
  \/ ctx[c] = "preempt" /\ Yield(c)

NewWork(c) ==
  \E p \in Proc : Wake(c, p) \/ Fork(c, p) \/ Kick(c, p) \/ Slay(c, p)

Next ==
  \/ \E c \in CPU :
       \/ Boot(c) \/ SchedulerStep(c)
       \/ AgeQueues(c) \/ OnTick(c) \/ Yield(c) \/ Sleep(c)
       \/ NewWork(c)
       \/ ChooseCpu(c) \/ EnqueuePending(c) \/ SwitchOut(c)
       \/ \E p \in Proc : Reap(c, p)
       \/ \E p \in Proc \cup {None} : Exit(c, p)
  \/ ClockTick

Spec == Init /\ [][Next]_vars

(* A CPU carries on with what it has begun.  A process that keeps coming   *)
(* back to user mode is hit there by the timer now and then: the period of *)
(* the timer is fixed and a process cannot disable it.                     *)
Fairness ==
  /\ \A c \in CPU : /\ WF_vars(SchedulerStep(c))
                    /\ WF_vars(FinishStep(c))
                    /\ SF_vars(AgeQueues(c))
  /\ WF_vars(ClockTick)

FairSpec == Spec /\ Fairness

-----------------------------------------------------------------------------
(* Properties.                                                             *)

TypeOK ==
  /\ st \in [Proc -> State]
  /\ m \in [Proc -> MlfqFields]
  /\ rq \in [CPU -> Queues]
  /\ busy \in [CPU -> BOOLEAN]
  /\ ctx \in [CPU -> Context]
  /\ at \in [CPU -> Proc \cup {None}]
  /\ todo \in [CPU -> Seq(CPU \X {1, 2})]
  /\ pend \in [CPU -> Seq(Pending)]
  /\ kicks \in 0 .. MaxKicks
  /\ hits \in 0 .. MaxHits

(* Until proc_kill_descendants hits a process that another CPU executes    *)
(* (proc.c:1278, after which none of this is true), a process executes on  *)
(* at most one CPU, it executes exactly while its state says RUNNING (or   *)
(* it is the zombie that is just leaving its stack) and no slot is freed   *)
(* while a CPU still stands on its kernel stack.                           *)
OneCpu ==
  hits = 0 =>
    /\ \A c, d \in CPU :
         c # d /\ ctx[c] \in OnStack /\ ctx[d] \in OnStack => at[c] # at[d]
    /\ \A c \in CPU :
         /\ ctx[c] \in Alive => st[at[c]] = "RUNNING"
         /\ ctx[c] = "exiting" => st[at[c]] = "ZOMBIE"
    /\ \A p \in Proc :
         st[p] = "RUNNING" => \E c \in CPU : ctx[c] \in OnStack /\ at[c] = p

Queued(p) == \E c \in CPU : Contains(rq[c], p)
Picked(p) == \E c \in CPU : ctx[c] = "picked" /\ at[c] = p
InFlight(p) == \E c \in CPU : \E i \in DOMAIN pend[c] : pend[c][i].p = p

(* A RUNNABLE process is never lost: some queue holds it, some scheduler   *)
(* has just picked it, or some CPU has still to enqueue it.  The repair    *)
(* comments of mlfq_enqueue_locked_plocked, proc_yield and                 *)
(* proc_wakeup_scan are about this.                                        *)
RunnableNotLost ==
  \A p \in Proc : st[p] = "RUNNABLE" => Queued(p) \/ Picked(p) \/ InFlight(p)

Entries(p) ==
  {e \in CPU \X Level \X (1 .. Cardinality(Proc) + MaxKicks) :
     e[3] \in DOMAIN rq[e[1]][e[2]] /\ rq[e[1]][e[2]][e[3]] = p}

(* The places p has in the scheduler: picked, queued, about to be queued.  *)
Holders(p) ==
  {c \in CPU : ctx[c] = "picked" /\ at[c] = p}
    \cup Entries(p)
    \cup {e \in CPU \X (1 .. MaxDepth) :
            e[2] \in DOMAIN pend[e[1]] /\ pend[e[1]][e[2]].p = p}

(* Until exit_group signals a RUNNABLE thread or proc_kill_descendants     *)
(* hits a RUNNABLE or RUNNING process, a process has exactly one place in  *)
(* the scheduler while it is RUNNABLE and none otherwise, so no queue can  *)
(* grow beyond N_PROC (the assertion of runq_push), the entry stands in    *)
(* the queue of the level and the CPU the process records, and             *)
(* mlfq_in_readyq says exactly that it is queued.                          *)
OneEntry ==
  kicks = 0 /\ hits = 0 =>
    \A p \in Proc :
      /\ Cardinality(Holders(p)) = IF st[p] = "RUNNABLE" THEN 1 ELSE 0
      /\ m[p].inq <=> Queued(p)
      /\ \A e \in Entries(p) : m[p].cpu = e[1] /\ m[p].level = e[2]

(* Nothing is left in the queues of a CPU that runs no scheduler: a pick   *)
(* never steals level 0, so a process there would never run (the comment   *)
(* on the surcharge in mlfq_choose_cpu_for_wakeup).                        *)
NoWorkOnDeadCpu ==
  \A c \in CPU : ctx[c] = "off" => \A l \in Level : rq[c][l] = <<>>

(* The locks are taken in the order of the comment in proc_yield, first the*)
(* run-queue lock, then p->lk (proc.c:1180).  The scheduler holds p->lk    *)
(* when it calls mlfq_set_cpu_running, which takes the lock of its own     *)
(* queues; the two orders meet when another CPU is about to enqueue the    *)
(* same process there.                                                     *)
LockOrder ==
  \A c, d \in CPU :
    c # d /\ ctx[c] = "picked" /\ pend[c] = <<>> /\ st[at[c]] = "RUNNABLE"
      => ~(pend[d] # <<>> /\ pend[d][1].p = at[c] /\ pend[d][1].to = c)

(* The transitions type.h lists for p->state, and the two it does not:     *)
(* proc_kill_descendants makes RUNNABLE and SLEEPING processes zombies     *)
(* (proc.c:1278).                                                          *)
LegalTransition(s, t) ==
  \/ s = t
  \/ <<s, t>> \in {<<"UNUSED", "RUNNABLE">>, <<"RUNNABLE", "RUNNING">>,
                  <<"RUNNING", "RUNNABLE">>, <<"RUNNING", "SLEEPING">>,
                  <<"SLEEPING", "RUNNABLE">>, <<"RUNNING", "ZOMBIE">>,
                  <<"ZOMBIE", "UNUSED">>,
                  <<"RUNNABLE", "ZOMBIE">>, <<"SLEEPING", "ZOMBIE">>}

(* Until a process is killed while another CPU executes it, p->state makes *)
(* these transitions only.  So the entries, picks and unfinished wakeups   *)
(* that a kill, an exit or a duplicate leaves behind never bring a zombie  *)
(* or a free slot back, nor start a process that runs or sleeps already.   *)
LegalStates ==
  [][hits' = 0 => \A p \in Proc : LegalTransition(st[p], st'[p])]_<<st, hits>>

(* However many wakeups are put in front of it, a RUNNABLE process gets a  *)
(* CPU unless it is killed: what user/test_mlfq_aging.c sets out to show.  *)
NoStarvation ==
  \A p \in Proc : st[p] = "RUNNABLE" ~> st[p] \in {"RUNNING", "ZOMBIE"}
=============================================================================
