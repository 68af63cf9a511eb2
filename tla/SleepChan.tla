----------------------------- MODULE SleepChan -----------------------------
(***************************************************************************)
(* Sleeping and waking on arbitrary channels: every proc_sleep counts its  *)
(* process in the hint table before it sleeps and uncounts it only when it *)
(* runs again, in any order, and a process that is killed where it sleeps  *)
(* is never uncounted.                                                     *)
(***************************************************************************)
EXTENDS HintTable

CONSTANTS
  Proc,     \* process slots
  MaxKills  \* bound: sleepers killed where they sleep

VARIABLES
  on,     \* the channel a process is counted for, or None
  awake,  \* FALSE while its state is SLEEPING
  kills   \* sleepers killed so far

vars == <<slot, overflow, on, awake, kills>>

Init ==
  /\ HintInit
  /\ on = [p \in Proc |-> None]
  /\ awake = [p \in Proc |-> TRUE]
  /\ kills = 0

(* proc_sleep_common up to proc_sched.                                     *)
SleepOn(p, k) ==
  /\ on[p] = None
  /\ Inc(k)
  /\ on' = [on EXCEPT ![p] = k]
  /\ awake' = [awake EXCEPT ![p] = FALSE]
  /\ UNCHANGED kills

(* The sleepers one step of a wakeup makes RUNNABLE: it sets p->state only.*)
Wake(p) ==
  /\ ~awake[p]
  /\ awake' = [awake EXCEPT ![p] = TRUE]
  /\ UNCHANGED <<slot, overflow, on, kills>>

(* proc_sleep_common after proc_sched.                                     *)
Return(p) ==
  /\ on[p] # None /\ awake[p]
  /\ Dec(on[p])
  /\ on' = [on EXCEPT ![p] = None]
  /\ UNCHANGED <<awake, kills>>

(* proc_kill_descendants makes a sleeper a zombie, and its slot is reused. *)
Kill(p) ==
  /\ ~awake[p] /\ kills < MaxKills
  /\ on' = [on EXCEPT ![p] = None]
  /\ awake' = [awake EXCEPT ![p] = TRUE]
  /\ kills' = kills + 1
  /\ UNCHANGED <<slot, overflow>>

Next ==
  \E p \in Proc :
     (\E k \in Chan : SleepOn(p, k)) \/ Wake(p) \/ Return(p) \/ Kill(p)

Spec == Init /\ [][Next]_vars

TypeOK ==
  /\ HintTypeOK
  /\ on \in [Proc -> Chan \cup {None}]
  /\ awake \in [Proc -> BOOLEAN]
  /\ kills \in 0 .. MaxKills

(* The hint never hides a sleeper: wherever insertions and deletions have  *)
(* left the entries of a channel, and however many dead sleepers are still *)
(* counted, sleepchan_has_waiter is true of a channel somebody sleeps on,  *)
(* so proc_wakeup scans.                                                   *)
HintSound == \A p \in Proc : ~awake[p] => HasWaiter(on[p])

(* Without killed sleepers the table is exact: it is empty when nobody     *)
(* sleeps, so it does not fill up with dead channels.                      *)
NothingLeftBehind ==
  (kills = 0 /\ \A p \in Proc : on[p] = None)
    => overflow = 0 /\ \A i \in DOMAIN slot : slot[i] = [chan |-> None, count |-> 0]
=============================================================================
