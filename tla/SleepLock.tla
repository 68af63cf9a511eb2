----------------------------- MODULE SleepLock -----------------------------
(***************************************************************************)
(* Sleep locks (lock/sleeplock.c) over proc_sleep and proc_wakeup          *)
(* (proc/proc.c).  The channel a process sleeps on is the address of the   *)
(* lock.                                                                   *)
(*                                                                         *)
(* What runs under one spinlock is split where another lock is taken or    *)
(* released: `spin[k]` is the holder of k's inner spinlock, and a process  *)
(* holds its own p->lk from the count in the table until it is SLEEPING.   *)
(***************************************************************************)
EXTENDS HintTable

CONSTANTS
  N,        \* N_PROC
  MaxKills  \* bound: sleepers that are made zombies where they sleep

Lock == Chan

(* The process slots, in the order a scan visits them.                     *)
Proc == 1 .. N

ASSUME SleepLockAssumption ==
  /\ N \in Nat
  /\ None \notin Proc
  /\ MaxKills \in Nat

VARIABLES
  pc,        \* where each process is
  lk,        \* the lock it is busy with, or None
  locked,    \* lk->locked
  pid,       \* lk->pid, or None
  spin,      \* the holder of lk->lock, or None
  next,      \* the next process a wakeup scan looks at
  kills      \* sleepers killed so far

vars == <<pc, lk, locked, pid, spin, next, slot, overflow, kills>>

(* "idle"; "want": to take the spinlock; "count": found the lock taken;    *)
(* "fall": counted, holds p->lk only; "asleep"; "woken": RUNNABLE again;   *)
(* "cs": owns the lock; "scan": wakes the sleepers, holds the spinlock.    *)
Place == {"idle", "want", "count", "fall", "asleep", "woken", "cs", "scan"}

Init ==
  /\ pc = [p \in Proc |-> "idle"]
  /\ lk = [p \in Proc |-> None]
  /\ locked = [k \in Lock |-> FALSE]
  /\ pid = [k \in Lock |-> None]
  /\ spin = [k \in Lock |-> None]
  /\ next = [p \in Proc |-> 1]
  /\ HintInit
  /\ kills = 0

-----------------------------------------------------------------------------
(* sleeplock_acquire.                                                      *)

Want(p, k) ==
  /\ pc[p] = "idle"
  /\ pc' = [pc EXCEPT ![p] = "want"]
  /\ lk' = [lk EXCEPT ![p] = k]
  /\ UNCHANGED <<locked, pid, spin, next, slot, overflow, kills>>

(* Under the spinlock: take the lock, or find it taken.                    *)
Try(p, k) ==
  /\ pc[p] = "want" /\ lk[p] = k /\ spin[k] = None
  /\ \/ /\ ~locked[k]
        /\ locked' = [locked EXCEPT ![k] = TRUE]
        /\ pid' = [pid EXCEPT ![k] = p]
        /\ pc' = [pc EXCEPT ![p] = "cs"]
        /\ UNCHANGED spin
     \/ /\ locked[k]
        /\ spin' = [spin EXCEPT ![k] = p]
        /\ pc' = [pc EXCEPT ![p] = "count"]
        /\ UNCHANGED <<locked, pid>>
  /\ UNCHANGED <<lk, next, slot, overflow, kills>>

(* proc_sleep_common: p->lk is taken, the sleeper is counted, and only     *)
(* then is the spinlock released.                                          *)
Count(p, k) ==
  /\ pc[p] = "count" /\ lk[p] = k
  /\ Inc(k)
  /\ spin' = [spin EXCEPT ![k] = None]
  /\ pc' = [pc EXCEPT ![p] = "fall"]
  /\ UNCHANGED <<lk, locked, pid, next, kills>>

(* p->state = SLEEPING; the scheduler releases p->lk.                      *)
Fall(p) ==
  /\ pc[p] = "fall"
  /\ pc' = [pc EXCEPT ![p] = "asleep"]
  /\ UNCHANGED <<lk, locked, pid, spin, next, slot, overflow, kills>>

(* Variant: a woken process takes the lock without looking again.          *)
ResumeTakes(p, k) ==
  /\ pc[p] = "woken" /\ lk[p] = k
  /\ Dec(k)
  /\ locked' = [locked EXCEPT ![k] = TRUE]
  /\ pid' = [pid EXCEPT ![k] = p]
  /\ pc' = [pc EXCEPT ![p] = "cs"]
  /\ UNCHANGED <<lk, spin, next, kills>>

(* Back in proc_sleep_common: the sleeper is uncounted, and the loop of    *)
(* sleeplock_acquire looks at the lock again under the spinlock.           *)
Resume(p, k) ==
  /\ pc[p] = "woken" /\ lk[p] = k
  /\ Dec(k)
  /\ pc' = [pc EXCEPT ![p] = "want"]
  /\ UNCHANGED <<lk, locked, pid, spin, next, kills>>

-----------------------------------------------------------------------------
(* sleeplock_release.  Its panic is unreachable: only the owner calls it.  *)

(* Under the spinlock: the lock is free, and the hint says whether the     *)
(* processes have to be scanned.                                           *)
Release(p, k) ==
  /\ pc[p] = "cs" /\ lk[p] = k /\ spin[k] = None
  /\ locked' = [locked EXCEPT ![k] = FALSE]
  /\ pid' = [pid EXCEPT ![k] = None]
  /\ \/ /\ HasWaiter(k)
        /\ spin' = [spin EXCEPT ![k] = p]
        /\ pc' = [pc EXCEPT ![p] = "scan"]
        /\ next' = [next EXCEPT ![p] = 1]
        /\ UNCHANGED lk
     \/ /\ ~HasWaiter(k)
        /\ pc' = [pc EXCEPT ![p] = "idle"]
        /\ lk' = [lk EXCEPT ![p] = None]
        /\ UNCHANGED <<spin, next>>
  /\ UNCHANGED <<slot, overflow, kills>>

(* Variant: the scan does not wait for p->lk.                              *)
ScanUnlocked(p, k) ==
  /\ pc[p] = "scan" /\ lk[p] = k /\ next[p] \in Proc
  /\ pc' = IF pc[next[p]] = "asleep" /\ lk[next[p]] = k
           THEN [pc EXCEPT ![next[p]] = "woken"] ELSE pc
  /\ next' = [next EXCEPT ![p] = @ + 1]
  /\ UNCHANGED <<lk, locked, pid, spin, slot, overflow, kills>>

(* proc_wakeup_scan looks at one process, under its p->lk.                 *)
Scan(p, k) ==
  /\ pc[p] = "scan" /\ lk[p] = k /\ next[p] \in Proc
  /\ pc[next[p]] # "fall"
  /\ pc' = IF pc[next[p]] = "asleep" /\ lk[next[p]] = k
           THEN [pc EXCEPT ![next[p]] = "woken"] ELSE pc
  /\ next' = [next EXCEPT ![p] = @ + 1]
  /\ UNCHANGED <<lk, locked, pid, spin, slot, overflow, kills>>

ScanEnds(p, k) ==
  /\ pc[p] = "scan" /\ lk[p] = k /\ next[p] \notin Proc
  /\ spin' = [spin EXCEPT ![k] = None]
  /\ pc' = [pc EXCEPT ![p] = "idle"]
  /\ lk' = [lk EXCEPT ![p] = None]
  /\ UNCHANGED <<locked, pid, next, slot, overflow, kills>>

-----------------------------------------------------------------------------
(* What others do to a sleeper.                                            *)

(* A signal or a deadline makes it RUNNABLE (proc_exit_group,              *)
(* proc_check_sleep_deadlines): the lock may still be taken.               *)
Spurious(p) ==
  /\ pc[p] = "asleep"
  /\ pc' = [pc EXCEPT ![p] = "woken"]
  /\ UNCHANGED <<lk, locked, pid, spin, next, slot, overflow, kills>>

(* proc_kill_descendants makes it a zombie; its count stays in the table.  *)
(* The slot is reaped and used for a new process.                          *)
Kill(p) ==
  /\ pc[p] = "asleep" /\ kills < MaxKills
  /\ pc' = [pc EXCEPT ![p] = "idle"]
  /\ lk' = [lk EXCEPT ![p] = None]
  /\ kills' = kills + 1
  /\ UNCHANGED <<locked, pid, spin, next, slot, overflow>>

-----------------------------------------------------------------------------
(* Steps a process takes once it has asked for a lock.                     *)
Step(p) ==
  \/ \E k \in Lock : Try(p, k) \/ Count(p, k) \/ Resume(p, k) \/ Release(p, k)
                     \/ Scan(p, k) \/ ScanEnds(p, k)
  \/ Fall(p)

Next ==
  \E p \in Proc :
     \/ \E k \in Lock :
          \/ Want(p, k) \/ Try(p, k) \/ Count(p, k) \/ Resume(p, k)
          \/ Release(p, k) \/ Scan(p, k) \/ ScanEnds(p, k)
     \/ Fall(p) \/ Spurious(p) \/ Kill(p)

Spec == Init /\ [][Next]_vars

(* The scheduler runs every RUNNABLE process again and again (NoStarvation *)
(* of Sched); a spinlock that is free again and again is taken.            *)
FairSpec == Spec /\ \A p \in Proc : SF_vars(Step(p))

-----------------------------------------------------------------------------
(* Properties.                                                             *)

TypeOK ==
  /\ pc \in [Proc -> Place]
  /\ lk \in [Proc -> Lock \cup {None}]
  /\ locked \in [Lock -> BOOLEAN]
  /\ pid \in [Lock -> Proc \cup {None}]
  /\ spin \in [Lock -> Proc \cup {None}]
  /\ next \in [Proc -> Nat]
  /\ HintTypeOK
  /\ kills \in 0 .. MaxKills

(* The hint never hides a sleeper: wherever insertions and deletions have  *)
(* left the entries of a channel, and however many dead sleepers are still *)
(* counted, a wakeup of a channel somebody sleeps on does scan.            *)
HintSound ==
  \A p \in Proc : pc[p] \in {"fall", "asleep"} => HasWaiter(lk[p])

(* No wakeup is lost: whoever sleeps on a lock that is free will still be  *)
(* reached by the scan of the process that freed it.                       *)
NoLostWakeup ==
  \A p \in Proc, k \in Lock :
     pc[p] \in {"count", "fall", "asleep"} /\ lk[p] = k /\ ~locked[k]
       => \E w \in Proc : pc[w] = "scan" /\ lk[w] = k /\ next[w] <= p

(* A sleep lock is a mutex: the owner is the process lk->pid names, and a  *)
(* process asks until it owns the lock or is killed.                       *)
Asking(p) ==
  IF pc[p] \in {"want", "count", "fall", "asleep", "woken"} THEN lk[p] ELSE None

M == INSTANCE Mutex WITH owner <- pid, asks <- [p \in Proc |-> Asking(p)]

IsMutex == M!MSpec

(* A lock that is free and asked for is taken in the end.                  *)
HandedOn == \A k \in Lock : M!Handed(k)
=============================================================================
