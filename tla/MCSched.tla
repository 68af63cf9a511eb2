------------------------------ MODULE MCSched ------------------------------
(***************************************************************************)
(* Small instances of Sched for TLC.                                       *)
(***************************************************************************)
EXTENDS Sched, TLC

MCBaseQuantum == [l \in 0 .. 1 |-> 1]

Symmetry == Permutations(Proc \ {Zero})

(* The fields of p that can still be read before they are written again:   *)
(* a slot that is not in use is cleared by Fork, a sleeper gets its level, *)
(* its slice, its age and its CPU when it is enqueued, and the age of a    *)
(* level-0 entry is never looked at.  After a kick or a kill of a RUNNING  *)
(* process, nothing is left out.                                           *)
Fields(p) ==
  CASE kicks + hits > 0 -> m[p]
    [] kicks + hits = 0 /\ st[p] \in {"UNUSED", "ZOMBIE", "SLEEPING"} -> <<m[p].inq>>
    [] kicks + hits = 0 /\ st[p] = "RUNNABLE" /\ m[p].level = 0 ->
         <<m[p].inq, m[p].cpu, m[p].level, m[p].ticks>>
    [] OTHER -> m[p]

(* What follows the kill of a RUNNING process is not explored: of the      *)
(* states after it only the first are looked at.                           *)
BeforeHit == hits = 0

View ==
  <<st, [p \in Proc |-> Fields(p)], rq, busy, ctx, at, todo, pend, kicks, hits>>
=============================================================================
