------------------------------ MODULE ProcLife ------------------------------
(***************************************************************************)
(* The life of a process (proc/proc.c): fork, exit, wait4, adoption by     *)
(* proczero and reaping by the scheduler, on several CPUs.                 *)
(*                                                                         *)
(* A step is what happens between two acquisitions of process locks.  A    *)
(* process that exits keeps its own p->lk while it visits every other      *)
(* process and while it tells its parent; the scheduler releases the lock  *)
(* once the process is off its stack.  Nobody else keeps one process lock  *)
(* while it waits for another that can be held that long.                  *)
(* Pids are never used twice, so a pid is the slot until the slot is freed.*)
(***************************************************************************)
EXTENDS Integers, FiniteSets

CONSTANTS
  N,     \* N_PROC
  NCPU,  \* CPUs
  Handlers,  \* the processes whose program handles SIGCHLD
  None   \* no process; for a waiter, any child

ASSUME ProcLifeAssumption ==
  /\ N \in Nat \ {0}
  /\ NCPU \in Nat \ {0}
  /\ Handlers \subseteq 1 .. N
  /\ None \notin Nat

(* The slots, in the order the scans visit them; proczero is the first.    *)
Proc == 1 .. N
proczero == 1

(* The pid of a process that has been freed: it names nobody.              *)
Gone == 0

VARIABLES
  state,    \* p->state
  parent,   \* p->parent
  orphan,   \* p->reparented_to_init
  pend,     \* SIGCHLD is in p->sig_pending
  run,      \* the processes whose kernel or user code a CPU executes
  pc,       \* where each process is
  idx,      \* the slot its scan visits next
  found,    \* has_child of its wait4
  want      \* wait_pid of its wait4

vars == <<state, parent, orphan, pend, run, pc, idx, found, want>>
waitVars == <<found, want>>

State == {"UNUSED", "RUNNABLE", "RUNNING", "SLEEPING", "ZOMBIE"}

(* "none": no process; "user"; "scan", "check", "doze", "asleep", "after": *)
(* in wait4; "reparent", "tell", "gone": in proc_exit, holding p->lk;      *)
(* "dead": off its stack for good.                                         *)
Waiting == {"scan", "check", "doze", "asleep", "after"}
Exiting == {"reparent", "tell", "gone"}
Place == Waiting \cup Exiting \cup {"none", "user", "dead"}

(* Variant: an exiting process releases its lock when its parent knows.    *)
HeldUntilTold(p) == pc[p] \in {"reparent", "tell"}

(* p->lk is kept.                                                          *)
Held(p) == pc[p] \in Exiting

Init ==
  /\ state = [p \in Proc |-> IF p = proczero THEN "RUNNABLE" ELSE "UNUSED"]
  /\ parent = [p \in Proc |-> None]
  /\ orphan = [p \in Proc |-> FALSE]
  /\ pend = [p \in Proc |-> FALSE]
  /\ run = {}
  /\ pc = [p \in Proc |-> IF p = proczero THEN "user" ELSE "none"]
  /\ idx = [p \in Proc |-> 1]
  /\ found = [p \in Proc |-> FALSE]
  /\ want = [p \in Proc |-> None]

(* Locals start afresh with a scan, and are out of scope after it.         *)
Moves(p, place) ==
  /\ pc' = [pc EXCEPT ![p] = place]
  /\ idx' = [idx EXCEPT ![p] = 1]
  /\ found' = [found EXCEPT ![p] = FALSE]

-----------------------------------------------------------------------------
(* The scheduler.                                                          *)

(* proc_scheduler: from proc_sleep the process goes on with the release of *)
(* its lock, from proc_yield or as a new process it returns to user mode.  *)
Dispatch(p) ==
  /\ state[p] = "RUNNABLE" /\ ~Held(p)
  /\ Cardinality(run) < NCPU
  /\ state' = [state EXCEPT ![p] = "RUNNING"]
  /\ run' = run \cup {p}
  /\ pc' = [pc EXCEPT ![p] = IF @ = "asleep" THEN "after" ELSE @]
  /\ UNCHANGED <<parent, orphan, pend, idx, waitVars>>

(* proc_yield, from user mode: the timer, or a system call.                *)
Yield(p) ==
  /\ p \in run /\ pc[p] = "user"
  /\ state' = [state EXCEPT ![p] = "RUNNABLE"]
  /\ run' = run \ {p}
  /\ UNCHANGED <<parent, orphan, pend, pc, idx, waitVars>>

(* proc_free: everything that is kept for slot c is cleared.  Whoever waits*)
(* for the pid waits for a process that is gone, except for the processes  *)
(* in `done`, whose wait4 returns, taking back a SIGCHLD.                  *)
Free(c, done) ==
  /\ state' = [state EXCEPT ![c] = "UNUSED"]
  /\ parent' = [parent EXCEPT ![c] = None]
  /\ orphan' = [orphan EXCEPT ![c] = FALSE]
  /\ want' = [p \in Proc |-> IF p \in done \cup {c} THEN None
                            ELSE IF want[p] = c THEN Gone ELSE want[p]]
  /\ pend' = [p \in Proc |-> pend[p] /\ p \notin done \cup {c}]
  /\ pc' = [p \in Proc |-> IF p = c THEN "none"
                          ELSE IF p \in done THEN "user" ELSE pc[p]]

(* Variant: every zombie is reaped, not only those proczero adopted.       *)
BackgroundAll(c) ==
  /\ Cardinality(run) < NCPU
  /\ c # proczero /\ state[c] = "ZOMBIE" /\ ~Held(c)
  /\ Free(c, {})
  /\ UNCHANGED <<run, idx, found>>

(* Variant: the loop ends one slot early.                                  *)
BackgroundShort(c) ==
  /\ Cardinality(run) < NCPU
  /\ c # proczero /\ c # N /\ state[c] = "ZOMBIE" /\ ~Held(c)
  /\ parent[c] = proczero /\ orphan[c]
  /\ Free(c, {})
  /\ UNCHANGED <<run, idx, found>>

(* proc_reap_background_zombies looks at one process.  (Zombies that       *)
(* share their memory with others are not modelled here.)                  *)
Background(c) ==
  /\ Cardinality(run) < NCPU
  /\ c # proczero /\ state[c] = "ZOMBIE" /\ ~Held(c)
  /\ parent[c] = proczero /\ orphan[c]
  /\ Free(c, {})
  /\ UNCHANGED <<run, idx, found>>

-----------------------------------------------------------------------------
(* User mode.                                                              *)

(* proc_fork.                                                              *)
Fork(p, c) ==
  /\ p \in run /\ pc[p] = "user"
  /\ state[c] = "UNUSED" /\ ~Held(c)
  /\ state' = [state EXCEPT ![c] = "RUNNABLE"]
  /\ parent' = [parent EXCEPT ![c] = p]
  /\ orphan' = [orphan EXCEPT ![c] = FALSE]
  /\ pend' = [pend EXCEPT ![c] = FALSE]
  /\ pc' = [pc EXCEPT ![c] = "user"]
  /\ UNCHANGED <<run, idx, waitVars>>

(* trap_user_handler takes a pending SIGCHLD on the way to user mode.      *)
Deliver(p) ==
  /\ p \in run /\ pc[p] = "user" /\ pend[p]
  /\ pend' = [pend EXCEPT ![p] = FALSE]
  /\ UNCHANGED <<state, parent, orphan, run, pc, idx, waitVars>>

-----------------------------------------------------------------------------
(* wait4.                                                                  *)

(* For any child, a child by pid, or a pid that is nobody's.               *)
Wait(p) ==
  /\ p \in run /\ pc[p] = "user"
  /\ Moves(p, "scan")
  /\ \E w \in {None, Gone} \cup {c \in Proc : state[c] # "UNUSED"} :
        want' = [want EXCEPT ![p] = w]
  /\ UNCHANGED <<state, parent, orphan, pend, run>>

Child(p, c) == c # p /\ parent[c] = p /\ state[c] # "UNUSED"
Matches(p, c) == want[p] \in {None, c}

(* A zombie child: its status is returned, and a SIGCHLD is taken back.    *)
Collect(p, c) ==
  /\ p \in run /\ pc[p] = "scan" /\ idx[p] = c /\ ~Held(c)
  /\ Child(p, c) /\ Matches(p, c) /\ state[c] = "ZOMBIE"
  /\ Free(c, {p})
  /\ idx' = [idx EXCEPT ![p] = 1]
  /\ found' = [found EXCEPT ![p] = FALSE]
  /\ UNCHANGED run

(* A zombie proczero does not ask for is freed on the way.                 *)
Discard(p, c) ==
  /\ p \in run /\ pc[p] = "scan" /\ idx[p] = c /\ ~Held(c)
  /\ p = proczero /\ Child(p, c) /\ ~Matches(p, c) /\ state[c] = "ZOMBIE"
  /\ Free(c, {})
  /\ idx' = [idx EXCEPT ![p] = c + 1]
  /\ UNCHANGED <<run, found>>

(* Variant: off by one.                                                    *)
PassSkips(p, c) ==
  /\ p \in run /\ pc[p] = "scan" /\ idx[p] = c
  /\ c # p => ~Held(c)
  /\ ~(Child(p, c) /\ state[c] = "ZOMBIE" /\ (Matches(p, c) \/ p = proczero))
  /\ found' = [found EXCEPT ![p] = @ \/ (Child(p, c) /\ Matches(p, c))]
  /\ idx' = [idx EXCEPT ![p] = c + 2]
  /\ UNCHANGED <<state, parent, orphan, pend, run, pc, want>>

(* Anything else is passed by.                                             *)
Pass(p, c) ==
  /\ p \in run /\ pc[p] = "scan" /\ idx[p] = c
  /\ c # p => ~Held(c)
  /\ ~(Child(p, c) /\ state[c] = "ZOMBIE" /\ (Matches(p, c) \/ p = proczero))
  /\ found' = [found EXCEPT ![p] = @ \/ (Child(p, c) /\ Matches(p, c))]
  /\ idx' = [idx EXCEPT ![p] = c + 1]
  /\ UNCHANGED <<state, parent, orphan, pend, run, pc, want>>

(* After the last slot: -ECHILD, 0 with WNOHANG, or look for signals.      *)
ScanEnd(p) ==
  /\ p \in run /\ pc[p] = "scan" /\ idx[p] > N
  /\ \/ Moves(p, "user") /\ want' = [want EXCEPT ![p] = None]
     \/ found[p] /\ Moves(p, "check") /\ UNCHANGED want
  /\ UNCHANGED <<state, parent, orphan, pend, run>>

(* proc_wait_pending_interrupt: a SIGCHLD is consumed, and means rescan.   *)
Check(p) ==
  /\ p \in run /\ pc[p] = "check"
  /\ \/ /\ pend[p]
        /\ pend' = [pend EXCEPT ![p] = FALSE]
        /\ Moves(p, "scan")
     \/ /\ ~pend[p]
        /\ pc' = [pc EXCEPT ![p] = "doze"]
        /\ UNCHANGED <<pend, idx, found>>
  /\ UNCHANGED <<state, parent, orphan, run, want>>

(* Under its own lock the parent goes to sleep, without another look.      *)
Doze(p) ==
  /\ p \in run /\ pc[p] = "doze"
  /\ state' = [state EXCEPT ![p] = "SLEEPING"]
  /\ run' = run \ {p}
  /\ pc' = [pc EXCEPT ![p] = "asleep"]
  /\ UNCHANGED <<parent, orphan, pend, idx, waitVars>>

(* Woken and running again.                                                *)
After(p) ==
  /\ p \in run /\ pc[p] = "after"
  /\ pend' = [pend EXCEPT ![p] = FALSE]
  /\ Moves(p, "scan")
  /\ UNCHANGED <<state, parent, orphan, run, want>>

-----------------------------------------------------------------------------
(* proc_exit.                                                              *)

(* Files are closed and the own lock is taken.  proczero never exits.      *)
Exit(p) ==
  /\ p \in run /\ pc[p] = "user" /\ p # proczero
  /\ Moves(p, "reparent")
  /\ UNCHANGED <<state, parent, orphan, pend, run, want>>

(* Variant: zombie children are left alone.                                *)
ReparentLive(p, c) ==
  /\ pc[p] = "reparent" /\ idx[p] = c
  /\ c # p => ~Held(c)
  /\ IF c # p /\ parent[c] = p /\ state[c] \notin {"UNUSED", "ZOMBIE"}
     THEN /\ parent' = [parent EXCEPT ![c] = proczero]
          /\ orphan' = [orphan EXCEPT ![c] = TRUE]
     ELSE UNCHANGED <<parent, orphan>>
  /\ idx' = [idx EXCEPT ![p] = c + 1]
  /\ UNCHANGED <<state, pend, run, pc, waitVars>>

(* proc_reparent visits one slot, under its lock.                          *)
Reparent(p, c) ==
  /\ pc[p] = "reparent" /\ idx[p] = c
  /\ c # p => ~Held(c)
  /\ IF Child(p, c)
     THEN /\ parent' = [parent EXCEPT ![c] = proczero]
          /\ orphan' = [orphan EXCEPT ![c] = TRUE]
     ELSE UNCHANGED <<parent, orphan>>
  /\ idx' = [idx EXCEPT ![p] = c + 1]
  /\ UNCHANGED <<state, pend, run, pc, waitVars>>

Die(p) ==
  /\ pc[p] = "reparent" /\ idx[p] > N
  /\ state' = [state EXCEPT ![p] = "ZOMBIE"]
  /\ Moves(p, "tell")
  /\ UNCHANGED <<parent, orphan, pend, run, want>>

(* Variant: the parent is woken whatever it does.                          *)
TellAnyway(p) ==
  /\ pc[p] = "tell" /\ ~Held(parent[p])
  /\ pend' = [pend EXCEPT ![parent[p]] = @ \/ parent[p] \in Handlers]
  /\ state' = [state EXCEPT ![parent[p]] = "RUNNABLE"]
  /\ pc' = [pc EXCEPT ![p] = "gone"]
  /\ UNCHANGED <<parent, orphan, run, idx, waitVars>>

(* Variant: only a parent that handles SIGCHLD is woken.                   *)
TellHandlers(p) ==
  /\ pc[p] = "tell" /\ ~Held(parent[p])
  /\ pend' = [pend EXCEPT ![parent[p]] = @ \/ parent[p] \in Handlers]
  /\ state' = [state EXCEPT ![parent[p]] =
                 IF @ = "SLEEPING" /\ parent[p] \in Handlers THEN "RUNNABLE" ELSE @]
  /\ pc' = [pc EXCEPT ![p] = "gone"]
  /\ UNCHANGED <<parent, orphan, run, idx, waitVars>>

(* proc_try_wakeup, under the parent's lock too.                           *)
Tell(p) ==
  /\ pc[p] = "tell" /\ ~Held(parent[p])
  /\ pend' = [pend EXCEPT ![parent[p]] = @ \/ parent[p] \in Handlers]
  /\ state' = [state EXCEPT ![parent[p]] = IF @ = "SLEEPING" THEN "RUNNABLE" ELSE @]
  /\ pc' = [pc EXCEPT ![p] = "gone"]
  /\ UNCHANGED <<parent, orphan, run, idx, waitVars>>

(* proc_sched: the scheduler runs again and releases the lock.             *)
Leave(p) ==
  /\ pc[p] = "gone"
  /\ run' = run \ {p}
  /\ pc' = [pc EXCEPT ![p] = "dead"]
  /\ UNCHANGED <<state, parent, orphan, pend, idx, waitVars>>

-----------------------------------------------------------------------------
(* What a process does in the kernel until it is back in user mode.        *)
Kernel(p) ==
  \/ \E c \in Proc : Collect(p, c) \/ Discard(p, c) \/ Pass(p, c) \/ Reparent(p, c)
  \/ ScanEnd(p) \/ Check(p) \/ Doze(p) \/ After(p)
  \/ Die(p) \/ Tell(p) \/ Leave(p)

Next ==
  \E p \in Proc :
     \/ Dispatch(p) \/ Yield(p) \/ Background(p)
     \/ Deliver(p) \/ Wait(p) \/ Exit(p)
     \/ \E c \in Proc : \/ Fork(p, c) \/ Collect(p, c) \/ Discard(p, c)
                        \/ Pass(p, c) \/ Reparent(p, c)
     \/ ScanEnd(p) \/ Check(p) \/ Doze(p) \/ After(p)
     \/ Die(p) \/ Tell(p) \/ Leave(p)

Spec == Init /\ [][Next]_vars

(* A CPU executes the code it is in; a runnable process is run in the end  *)
(* (NoStarvation of Sched); a process that is in user mode again and again *)
(* is hit there by the timer; the scheduler loop of a CPU that is idle     *)
(* again and again looks at every slot.                                    *)
FairSpec ==
  /\ Spec
  /\ \A p \in Proc : /\ WF_vars(Kernel(p))
                     /\ SF_vars(Dispatch(p))
                     /\ SF_vars(Yield(p))
                     /\ SF_vars(Background(p))

-----------------------------------------------------------------------------
(* Properties.                                                             *)

TypeOK ==
  /\ state \in [Proc -> State]
  /\ parent \in [Proc -> Proc \cup {None}]
  /\ orphan \in [Proc -> BOOLEAN]
  /\ pend \in [Proc -> BOOLEAN]
  /\ run \subseteq Proc /\ Cardinality(run) <= NCPU
  /\ pc \in [Proc -> Place]
  /\ idx \in [Proc -> 1 .. N + 1]
  /\ found \in [Proc -> BOOLEAN]
  /\ want \in [Proc -> Proc \cup {None, Gone}]

(* A slot is not given back while a CPU is still on the stack of its       *)
(* process, although its parent is woken before that.                      *)
FreedOffCpu == \A p \in run : state[p] # "UNUSED" /\ pc[p] \notin {"none", "dead"}

(* Nobody is left to a parent that is gone or will not look at it again:   *)
(* whenever a parent has become a zombie its children belong to proczero.  *)
Adopted ==
  \A p \in Proc : state[p] # "UNUSED" /\ p # proczero =>
     /\ parent[p] \in Proc
     /\ state[parent[p]] \notin {"UNUSED", "ZOMBIE"}

(* The operations of this module make the transitions of proc/type.h and   *)
(* no others.  Killing descendants, which makes two more, is not one of    *)
(* them: see ProcKill and Sched.                                           *)
Legal ==
  {<<"UNUSED", "RUNNABLE">>, <<"RUNNABLE", "RUNNING">>, <<"RUNNING", "RUNNABLE">>,
   <<"RUNNING", "SLEEPING">>, <<"SLEEPING", "RUNNABLE">>, <<"RUNNING", "ZOMBIE">>,
   <<"ZOMBIE", "UNUSED">>}

LegalStates ==
  [][\A p \in Proc : state'[p] # state[p] => <<state[p], state'[p]>> \in Legal]_vars

(* An exit status is thrown away only if proczero would not ask for it:    *)
(* a zombie that was not adopted is freed by a wait4 of its own parent.    *)
Collected ==
  \A c \in Proc :
    state[c] = "ZOMBIE" /\ state'[c] = "UNUSED" /\ ~orphan[c] => pc[parent[c]] = "scan"
CollectedByWait == [][Collected]_vars

(* A waiter sleeps while a child of its own (not one it adopted) that it   *)
(* waits for is a zombie and has already told its parent.                  *)
Overslept(p) ==
  /\ state[p] = "SLEEPING"
  /\ \E c \in Proc : /\ Child(p, c) /\ Matches(p, c) /\ ~orphan[c]
                     /\ pc[c] \in {"gone", "dead"}

(* The exit of a child wakes a parent that waits for it                    *)
(* (proc.c:1308, docs/SYSCALL_STATUS.md:501).                              *)
ChildWakes == \A p \in Proc : ~Overslept(p)

(* The slot whose lock an exiting process needs next, keeping its own.     *)
Needs(p) ==
  IF pc[p] = "tell" THEN {parent[p]}
  ELSE IF pc[p] = "reparent" THEN {idx[p]} \ {p, N + 1} ELSE {}

(* The process locks are taken in an order: no two processes each keep the *)
(* lock the other one waits for (proc.c:1180).                             *)
OrderedLocks == \A p, q \in Proc : ~(q \in Needs(p) /\ p \in Needs(q))

(* A wait4 for a child that is a zombie ends, or somebody else frees it.   *)
Awaits(p) ==
  pc[p] \in Waiting /\ \E c \in Proc : Child(p, c) /\ Matches(p, c) /\ state[c] = "ZOMBIE"

WaitReturns == \A p \in Proc : Awaits(p) ~> ~Awaits(p)

(* An adopted zombie gives its slot back, whether proczero waits or not.   *)
OrphansReaped ==
  \A p \in Proc : (state[p] = "ZOMBIE" /\ orphan[p]) ~> state[p] = "UNUSED"
=============================================================================
