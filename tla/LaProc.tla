------------------------------- MODULE LaProc -------------------------------
(***************************************************************************)
(* The processes of the LoongArch kernel (loongarch/proc.c and the process *)
(* calls of loongarch/syscall.c): one CPU, one table, threads that share a *)
(* page table and an address space identifier (ASID) with their leader.    *)
(*                                                                         *)
(* Nothing runs between two sleeps of a system call: interrupts are off    *)
(* until it has slept once, and afterwards a tick preempts it only when it *)
(* stays in the kernel for a whole time slice.  Interval timers do expire  *)
(* in between.  So an action is a call up to its next sleep.               *)
(***************************************************************************)
EXTENDS Integers, FiniteSets, FiniteSetsExt

CONSTANTS
  NProc,    \* LA_NPROC
  Asid,     \* address space identifiers, 1 to LA_ASID_MASK
  NPage,    \* pages for stacks, trap frames and page tables
  Kinds,    \* bound: groups of operations that happen
  Orderly,  \* environment: see Alone, MayKill and ExitGroup
  None

Slot == 1 .. NProc
InitProc == 1
Root == 1 .. NProc + 1

VARIABLES
  proc,   \* la_procs
  cur,    \* la_cpu.current
  space,  \* page tables in use; which ASIDs the TLB has entries of, and for
          \* which page table; the nonzero thread words of user memory
  pool    \* free pages

vars == <<proc, cur, space, pool>>

(* root, thread, timed and tout are pgtbl, shared_vm, sleep_deadline_ticks *)
(* and sleep_timed_out.  A pid is the slot that has it, None when no slot  *)
(* has.  chan is None, a thread word, which is named after the slot it was *)
(* made for, or the sleeper itself.                                        *)
Unused == [st |-> "unused", call |-> "user", parent |-> None, thread |-> FALSE, root |-> None,
           asid |-> None, chan |-> None, timed |-> FALSE, tout |-> FALSE, ctid |-> None,
           vfork |-> None, want |-> None, pend |-> {}, pages |-> {}]
Signal == {"usr", "term"}  \* one with a handler, one that terminates
Call == {"user", "wait", "rewait", "vfork", "join", "nano", "sigwait"}
Word(a) == <<"word", a>>
Self(p) == <<"self", p>>

TypeOK ==
  /\ proc \in [Slot -> [st : {"unused", "sleeping", "runnable", "running", "zombie"},
                        call : Call, parent : Slot \cup {None}, thread : BOOLEAN,
                        root : Root \cup {None}, asid : Asid \cup {None},
                        chan : {Word(a) : a \in Slot} \cup {Self(p) : p \in Slot} \cup {None},
                        timed : BOOLEAN, tout : BOOLEAN, ctid : Slot \cup {None},
                        vfork : Slot \cup {None}, want : Slot \cup {None},
                        pend : SUBSET Signal, pages : SUBSET {"kstack", "tf"}]]
  /\ cur \in Slot \cup {None}
  /\ space \in [roots : SUBSET Root, tlb : SUBSET (Asid \X Root), words : SUBSET (Root \X Slot)]
  /\ pool \in 0 .. NPage

Init ==
  /\ \E a \in Asid :
       proc = [p \in Slot |->
         IF p = InitProc
         THEN [Unused EXCEPT !.st = "runnable", !.root = 1, !.asid = a, !.pages = {"kstack", "tf"}]
         ELSE Unused]
  /\ cur = None
  /\ space = [roots |-> {1}, tlb |-> {}, words |-> {}]
  /\ pool = NPage - 3

-----------------------------------------------------------------------------
(* A record m of the variables is changed by one operation after another.  *)

Now == [proc |-> proc, space |-> space, pool |-> pool]
Become(m) == proc' = m.proc /\ space' = m.space /\ pool' = m.pool

Alive(m, p) == m.proc[p].st \notin {"unused", "zombie"}
Sharing(m, p) == {q \in Slot \ {p} : Alive(m, q) /\ m.proc[q].root = m.proc[p].root}
Children(m, p) == {q \in Slot : m.proc[q].st # "unused" /\ m.proc[q].parent = p}

(* la_proc_wakeup_pid.                                                     *)
WokenPid(m, p) ==
  IF p # None /\ m.proc[p].st = "sleeping" /\ m.proc[p].chan = None
  THEN [m EXCEPT !.proc[p].st = "runnable"] ELSE m

(* la_proc_wakeup_chan.                                                    *)
WokenChan(m, c) ==
  [m EXCEPT !.proc = [p \in Slot |->
     IF m.proc[p].st = "sleeping" /\ m.proc[p].chan = c
     THEN [m.proc[p] EXCEPT !.st = "runnable", !.chan = None, !.timed = FALSE, !.tout = FALSE]
     ELSE m.proc[p]]]

(* la_uvm_free_pgtbl.                                                      *)
Destroyed(m, r) ==
  [m EXCEPT !.space = [roots |-> @.roots \ {r}, tlb |-> {},
                       words |-> {w \in @.words : w[1] # r}],
            !.pool = @ + 1]

(* la_proc_free: a live thread inherits the page table.                    *)
Freed(m, p) ==
  LET o == m.proc[p]
      d == CASE o.thread \/ o.root = None -> m
             [] ~o.thread /\ o.root # None /\ Sharing(m, p) = {} -> Destroyed(m, o.root)
             [] OTHER -> [m EXCEPT !.proc[Min(Sharing(m, p))].thread = FALSE]
  IN  [d EXCEPT !.proc = [q \in Slot |-> IF q = p THEN Unused ELSE
                            [d.proc[q] EXCEPT !.parent = IF @ = p THEN None ELSE @,
                                              !.vfork = IF @ = p THEN None ELSE @]],
                !.pool = @ + Cardinality(o.pages)]

(* la_proc_asid_live and la_proc_alloc_asid: an ASID nobody has; if it was *)
(* used before, the TLB is emptied.                                        *)
FreeAsids(m) == {a \in Asid : \A p \in Slot : m.proc[p].st # "unused" => m.proc[p].asid # a}
Tagged(m, a) ==
  IF \E r \in Root : <<a, r>> \in m.space.tlb THEN [m EXCEPT !.space.tlb = {}] ELSE m

-----------------------------------------------------------------------------
(* Making processes.                                                       *)

Unoccupied == {p \in Slot : proc[p].st = "unused"}
Lowest == Min(Unoccupied)

(* la_proc_alloc and la_proc_create_user.                                  *)
Created(m, c, a) ==
  LET t == Tagged(m, a)
  IN  [t EXCEPT !.proc[c] = [Unused EXCEPT !.st = "sleeping", !.asid = a, !.pages = {"kstack"}],
                !.pool = @ - 1]

WithRoot(m, c, r) ==
  [m EXCEPT !.proc[c].root = r, !.space.roots = @ \cup {r}, !.pool = @ - 1]
WithFrame(m, c) == [m EXCEPT !.proc[c].pages = @ \cup {"tf"}, !.pool = @ - 1]

(* sys_fork, giving everything back when a page is missing.                *)
Forked(m, p, c, r) ==
  IF m.pool = 0 THEN Freed(m, c) ELSE
  LET s == WithRoot(m, c, r)
  IN  IF s.pool = 0 THEN Freed(s, c) ELSE
      LET f == WithFrame(s, c)
      IN  [f EXCEPT !.proc[c].parent = p, !.proc[c].st = "runnable"]

(* sys_clone with CLONE_VM: a thread, or a child by vfork.                 *)
Cloned(m, p, c, vfork) ==
  LET s == [m EXCEPT !.proc[c].root = m.proc[p].root, !.proc[c].asid = m.proc[p].asid,
                     !.proc[c].thread = TRUE, !.proc[c].parent = p]
  IN  IF s.pool = 0 THEN Freed(s, c) ELSE
      LET f == [WithFrame(s, c) EXCEPT !.proc[c].st = "runnable"]
      IN  IF vfork THEN [f EXCEPT !.proc[c].vfork = p]
          ELSE [f EXCEPT !.proc[c].ctid = c,
                         !.space.words = @ \cup {<<f.proc[p].root, c>>}]

(* In user mode, with no signal to deliver first.                          *)
User(p) == cur = p /\ proc[p].call = "user" /\ proc[p].pend = {}

Fork(p) ==
  /\ "fork" \in Kinds /\ User(p) /\ Unoccupied # {} /\ pool > 0
  /\ \E a \in FreeAsids(Now) :
       Become(Forked(Created(Now, Lowest, a), p, Lowest, Min(Root \ space.roots)))
  /\ UNCHANGED cur

Thread(p) ==
  /\ "clone" \in Kinds /\ User(p) /\ p # InitProc /\ Unoccupied # {} /\ pool > 0
  /\ \E a \in FreeAsids(Now) : Become(Cloned(Created(Now, Lowest, a), p, Lowest, FALSE))
  /\ UNCHANGED cur

(* The parent sleeps once: whatever wakes it ends the call.                *)
Vfork(p) ==
  /\ "vfork" \in Kinds /\ User(p) /\ p # InitProc /\ Unoccupied # {} /\ pool > 0
  /\ \E a \in FreeAsids(Now) :
       LET m == Cloned(Created(Now, Lowest, a), p, Lowest, TRUE)
           made == m.proc[Lowest].st # "unused"
       IN  /\ Become(IF made THEN [m EXCEPT !.proc[p].st = "sleeping", !.proc[p].call = "vfork",
                                            !.proc[p].chan = None]
                     ELSE m)
           /\ cur' = IF made THEN None ELSE cur

VforkReturn(p) ==
  /\ cur = p /\ proc[p].call = "vfork"
  /\ proc' = [proc EXCEPT ![p].call = "user"]
  /\ UNCHANGED <<cur, space, pool>>

(* la_do_exec_syscall.  A leader keeps its ASID, and frees the old page    *)
(* table without asking whether threads still use it.                      *)
Alone(p) == Orderly => proc[p].thread \/ Sharing(Now, p) = {}

Execed(m, p, r, a) ==
  LET o == m.proc[p]
      w == WokenPid(m, o.vfork)
      n == [w EXCEPT !.proc[p].root = r, !.proc[p].thread = FALSE, !.proc[p].ctid = None,
                     !.proc[p].asid = IF o.thread THEN a ELSE @,
                     !.proc[p].vfork = None, !.proc[p].pend = {},
                     !.space.roots = @ \cup {r}, !.space.tlb = {}, !.pool = @ - 1]
  IN  IF o.thread THEN n ELSE Destroyed(n, o.root)

Exec(p) ==
  /\ "exec" \in Kinds /\ User(p) /\ Alone(p) /\ pool > 1
  /\ Orderly => proc[p].ctid = None
  /\ \E a \in FreeAsids(Now) : Become(Execed(Now, p, Min(Root \ space.roots), a))
  /\ UNCHANGED cur

-----------------------------------------------------------------------------
(* Dying.                                                                  *)

(* The word of a thread is cleared through the page table of the caller,   *)
(* and whoever waits for it is woken.                                      *)
WordCleared(m, p, by) ==
  IF m.proc[p].ctid = None THEN m
  ELSE WokenChan([m EXCEPT !.space.words = @ \ {<<m.proc[by].root, m.proc[p].ctid>>},
                           !.proc[p].ctid = None], Word(m.proc[p].ctid))

Reparented(m, p) ==
  LET n == [m EXCEPT !.proc = [q \in Slot |->
              IF q \in Children(m, p) THEN [m.proc[q] EXCEPT !.parent = InitProc]
              ELSE m.proc[q]]]
  IN  IF \E q \in Children(m, p) : m.proc[q].st = "zombie" THEN WokenPid(n, InitProc) ELSE n

ChanWoken(m, p) == IF m.proc[p].chan = None THEN m ELSE WokenChan(m, m.proc[p].chan)

(* What a zombie was doing does not matter any more.                       *)
Zombie(o) == [o EXCEPT !.st = "zombie", !.call = "user", !.chan = None, !.timed = FALSE,
                       !.tout = FALSE, !.ctid = None, !.vfork = None, !.want = None,
                       !.pend = {}]

(* la_proc_exit, and the scheduler after the switch: threads and processes *)
(* without a parent are freed at once.                                     *)
Exited(m, p) ==
  LET o == Reparented(ChanWoken(WordCleared(m, p, p), p), p)
      v == WokenPid(o, o.proc[p].vfork)
      z == WokenPid([v EXCEPT !.proc[p] = Zombie(@)], v.proc[p].parent)
  IN  IF z.proc[p].thread \/ z.proc[p].parent = None THEN Freed(z, p) ELSE z

(* la_cancel_thread_signal for a process that is not the caller: nobody    *)
(* switches away from it, so the scheduler does not see it again.          *)
Cancelled(m, p, by) ==
  LET r == Reparented(m, p)
      w == IF r.proc[p].ctid # None /\ r.proc[by].root # r.proc[p].root
           THEN WokenChan([r EXCEPT !.proc[p].ctid = None], Word(r.proc[p].ctid))
           ELSE WordCleared(r, p, by)
      c == ChanWoken(w, p)
  IN  WokenPid([c EXCEPT !.proc[p] = Zombie(@)], c.proc[p].parent)

Exit(p) ==
  /\ "exit" \in Kinds /\ User(p) /\ p # InitProc
  /\ Become(Exited(Now, p))
  /\ cur' = None

(* sys_exit_group turns the others into zombies and tells nobody.  They    *)
(* are never freed.                                                        *)
ExitGroup(p) ==
  /\ "group" \in Kinds /\ User(p) /\ p # InitProc
  /\ Orderly => ~proc[p].thread
  /\ LET upto[i \in 0 .. NProc] ==
           IF i = 0 THEN Now
           ELSE IF i \in Sharing(Now, p)
                THEN [WordCleared(upto[i - 1], i, p) EXCEPT !.proc[i] = Zombie(@)]
                ELSE upto[i - 1]
     IN  Become(Exited(upto[NProc], p))
  /\ cur' = None

(* sys_wait for the child want or, when want is None, for any.  It looks   *)
(* at the children and, when it has to, sleeps.                            *)
Dead(p, want) == {q \in Children(Now, p) : /\ ~proc[q].thread /\ proc[q].st = "zombie"
                                           /\ want \in {None, q}}
Childless(p) == \A q \in Children(Now, p) : proc[q].thread

Collect(p) ==
  /\ "wait" \in Kinds
  /\ \E q \in IF User(p) THEN Dead(p, None)
            ELSE IF cur = p /\ proc[p].call = "wait" /\ proc[p].pend = {} THEN Dead(p, proc[p].want) ELSE {} :
       Become([Freed(Now, q) EXCEPT !.proc[p].call = "user", !.proc[p].want = None])
  /\ UNCHANGED cur

WaitSleep(p) ==
  /\ "wait" \in Kinds /\ User(p) /\ ~Childless(p)
  /\ \E want \in {q \in Children(Now, p) : ~proc[q].thread} \cup {None} :
       /\ Dead(p, want) = {}
       /\ proc' = [proc EXCEPT ![p].st = "sleeping", ![p].call = "wait", ![p].chan = None,
                               ![p].want = want]
  /\ cur' = None /\ UNCHANGED <<space, pool>>

(* Woken: it returns when it has no child left or a signal to deliver.     *)
WaitReturn(p) ==
  /\ cur = p /\ proc[p].call = "wait"
  /\ proc[p].pend # {} \/ Childless(p)
  /\ proc' = [proc EXCEPT ![p].call = "user", ![p].want = None]
  /\ UNCHANGED <<cur, space, pool>>

(* Otherwise it sleeps again, this time with interrupts on.                *)
WaitAgain(p) ==
  /\ cur = p /\ proc[p].call = "wait"
  /\ proc[p].pend = {} /\ Dead(p, proc[p].want) = {} /\ ~Childless(p)
  /\ proc' = [proc EXCEPT ![p].call = "rewait"]
  /\ UNCHANGED <<cur, space, pool>>

WaitResleep(p) ==
  /\ cur = p /\ proc[p].call = "rewait"
  /\ proc' = [proc EXCEPT ![p].st = "sleeping", ![p].call = "wait", ![p].chan = None]
  /\ cur' = None /\ UNCHANGED <<space, pool>>

-----------------------------------------------------------------------------
(* Sleeping on a futex and for a time.                                     *)

(* sys_futex, FUTEX_WAIT on the word of a live thread of the same page     *)
(* table, as pthread_join does.                                            *)
Join(p, a, timed) ==
  /\ "join" \in Kinds /\ User(p) /\ <<proc[p].root, a>> \in space.words
  /\ \E t \in Sharing(Now, p) : proc[t].ctid = a
  /\ proc' = [proc EXCEPT ![p].st = "sleeping", ![p].call = "join", ![p].chan = Word(a),
                          ![p].timed = timed, ![p].tout = FALSE]
  /\ cur' = None /\ UNCHANGED <<space, pool>>

(* sys_clock_nanosleep.                                                    *)
Nanosleep(p) ==
  /\ "nano" \in Kinds /\ User(p)
  /\ proc' = [proc EXCEPT ![p].st = "sleeping", ![p].call = "nano", ![p].chan = Self(p),
                          ![p].timed = TRUE, ![p].tout = FALSE]
  /\ cur' = None /\ UNCHANGED <<space, pool>>

(* Back from la_proc_sleep_chan or la_proc_sleep_chan_until.  nanosleep is *)
(* only woken by its deadline or by a signal, and returns either way.      *)
SleepReturn(p) ==
  /\ cur = p /\ proc[p].call \in {"join", "nano"}
  /\ proc' = [proc EXCEPT ![p].call = "user", ![p].timed = FALSE, ![p].tout = FALSE]
  /\ UNCHANGED <<cur, space, pool>>

(* sys_rt_sigtimedwait looks for a dead child or a signal and yields.      *)
Sigwait(p) ==
  /\ "sigwait" \in Kinds /\ (User(p) \/ (cur = p /\ proc[p].call = "sigwait"))
  /\ IF Dead(p, None) = {} /\ "usr" \notin proc[p].pend
     THEN /\ proc' = [proc EXCEPT ![p].st = "runnable", ![p].call = "sigwait"]
          /\ cur' = None
     ELSE /\ proc' = [proc EXCEPT ![p].call = "user",
                                  ![p].pend = IF Dead(p, None) = {} THEN @ \ {"usr"} ELSE @]
          /\ UNCHANGED cur
  /\ UNCHANGED <<space, pool>>

SigwaitTimeout(p) ==
  /\ cur = p /\ proc[p].call = "sigwait" /\ Dead(p, None) = {} /\ "usr" \notin proc[p].pend
  /\ proc' = [proc EXCEPT ![p].call = "user"]
  /\ UNCHANGED <<cur, space, pool>>

-----------------------------------------------------------------------------
(* Signals.                                                                *)

(* sys_kill with SIGKILL: everybody who has the page table of the target,  *)
(* in the order of the table; the caller does not come back if it is one.  *)
KillGroup(p, t) ==
  LET hit == {q \in Slot : Alive(Now, q) /\ (q = t \/ proc[q].root = proc[t].root)}
      upto[i \in 0 .. NProc] ==
        IF i = 0 THEN Now
        ELSE IF i \in hit THEN Cancelled(upto[i - 1], i, p) ELSE upto[i - 1]
  IN  IF p \in hit THEN Become(Exited(upto[p - 1], p)) /\ cur' = None
      ELSE Become(upto[NProc]) /\ UNCHANGED cur

(* A signal that terminates the target, and it alone.                      *)
KillOne(p, t) ==
  IF p = t THEN Become(Exited(Now, p)) /\ cur' = None
  ELSE Become(IF Alive(Now, t) THEN Cancelled(Now, t, p) ELSE Now) /\ UNCHANGED cur

(* A sleeper is made runnable, with its channel and deadline as they are.  *)
Sent(m, t, sig) ==
  [m EXCEPT !.proc[t].pend = @ \cup {sig},
            !.proc[t].st = IF @ = "sleeping" THEN "runnable" ELSE @]

MayKill(p, t) == Orderly => (proc[t].thread => proc[p].root = proc[t].root)

Kill(p, t) ==
  /\ "kill" \in Kinds /\ User(p) /\ t # InitProc /\ proc[t].st # "unused"
  /\ \/ KillGroup(p, t)
     \/ MayKill(p, t) /\ KillOne(p, t)
     \/ Alive(Now, t) /\ Become(Sent(Now, t, "usr")) /\ UNCHANGED cur

(* sys_tkill and sys_tgkill only make the signal pending.                  *)
Tkill(p, t) ==
  /\ "tkill" \in Kinds /\ User(p) /\ t # InitProc /\ Alive(Now, t)
  /\ Become(Sent(Now, t, "term"))
  /\ UNCHANGED cur

(* la_signal_deliver, on the way back to user mode.                        *)
Deliver(p) ==
  /\ cur = p /\ proc[p].call = "user" /\ proc[p].pend # {}
  /\ IF "usr" \in proc[p].pend
     THEN /\ proc' = [proc EXCEPT ![p].pend = @ \ {"usr"}]
          /\ UNCHANGED <<cur, space, pool>>
     ELSE /\ Become(Exited([Now EXCEPT !.proc[p].pend = {}], p))
          /\ cur' = None

(* la_proc_check_itimers.                                                  *)
Alarm(t) ==
  /\ "alarm" \in Kinds /\ t # InitProc /\ Alive(Now, t) /\ proc[t].pend = {}
  /\ cur # None => proc[cur].call \in {"user", "rewait"}
  /\ proc' = [proc EXCEPT ![t].pend = {"usr"},
                          ![t] = IF proc[t].st = "sleeping"
                                 THEN [@ EXCEPT !.st = "runnable", !.chan = None,
                                                !.timed = FALSE, !.tout = FALSE]
                                 ELSE @]
  /\ UNCHANGED <<cur, space, pool>>

-----------------------------------------------------------------------------
(* la_scheduler.                                                           *)

Expire(p) ==
  /\ cur = None /\ proc[p].st = "sleeping" /\ proc[p].timed
  /\ proc' = [proc EXCEPT ![p].st = "runnable", ![p].chan = None, ![p].timed = FALSE,
                          ![p].tout = TRUE]
  /\ UNCHANGED <<cur, space, pool>>

Dispatch(p) ==
  /\ cur = None /\ proc[p].st = "runnable"
  /\ proc' = [proc EXCEPT ![p].st = "running"]
  /\ cur' = p
  /\ space' = [space EXCEPT !.tlb = @ \cup {<<proc[p].asid, proc[p].root>>}]
  /\ UNCHANGED pool

(* The tick that ends the slice, and sched_yield.                          *)
Yield(p) ==
  /\ User(p)
  /\ proc' = [proc EXCEPT ![p].st = "runnable"]
  /\ cur' = None /\ UNCHANGED <<space, pool>>

Next ==
  \E p \in Slot :
    \/ Fork(p) \/ Thread(p) \/ Vfork(p) \/ VforkReturn(p) \/ Exec(p)
    \/ Exit(p) \/ ExitGroup(p)
    \/ Collect(p) \/ WaitSleep(p) \/ WaitReturn(p) \/ WaitAgain(p) \/ WaitResleep(p)
    \/ \E a \in Slot, timed \in BOOLEAN : Join(p, a, timed)
    \/ Nanosleep(p) \/ SleepReturn(p) \/ Sigwait(p) \/ SigwaitTimeout(p)
    \/ \E t \in Slot : Kill(p, t) \/ Tkill(p, t)
    \/ Deliver(p) \/ Alarm(p) \/ Expire(p) \/ Dispatch(p) \/ Yield(p)

-----------------------------------------------------------------------------
(* Every page is free or held by one process or one page table, and a page *)
(* table is allocated exactly while a process owns it.                     *)
PagesExact ==
  /\ pool + Cardinality(space.roots)
       + Cardinality({<<p, k>> \in Slot \X {"kstack", "tf"} : k \in proc[p].pages}) = NPage
  /\ space.roots = {proc[p].root : p \in {q \in Slot : proc[q].st # "unused" /\ ~proc[q].thread}}

(* A process that can run has a page table that one process owns; two have *)
(* the same ASID exactly when they share it; and the TLB has nothing under *)
(* that ASID from another page table.                                      *)
SpacesSound ==
  \A p \in {q \in Slot : Alive(Now, q)} :
    /\ proc[p].root \in space.roots
    /\ Cardinality({q \in Slot : proc[q].st # "unused" /\ ~proc[q].thread
                                   /\ proc[q].root = proc[p].root}) = 1
    /\ \A q \in {q \in Slot : Alive(Now, q)} :
         (proc[p].asid = proc[q].asid) = (proc[p].root = proc[q].root)
    /\ \A r \in Root : <<proc[p].asid, r>> \in space.tlb => r = proc[p].root

(* Nobody sleeps for what has happened already: not in wait4 with a dead   *)
(* child, not in pthread_join when the thread is gone, not in vfork when   *)
(* the child is, and not in nanosleep without a deadline.                  *)
SleepersWait ==
  \A p \in {q \in Slot : proc[q].st = "sleeping"} :
    CASE proc[p].call = "wait" -> Dead(p, proc[p].want) = {}
      [] proc[p].call = "join" ->
           \E t \in Slot : /\ Alive(Now, t) /\ proc[t].root = proc[p].root
                           /\ Word(proc[t].ctid) = proc[p].chan
                           /\ <<proc[p].root, proc[t].ctid>> \in space.words
      [] proc[p].call = "vfork" -> \E c \in Slot : Alive(Now, c) /\ proc[c].vfork = p
      [] proc[p].call = "nano" -> proc[p].timed
=============================================================================
