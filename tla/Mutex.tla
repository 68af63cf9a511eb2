------------------------------- MODULE Mutex -------------------------------
(***************************************************************************)
(* What a sleep lock promises: at most one process owns it, a process asks *)
(* for one lock at a time, and a free lock that is asked for is given to   *)
(* somebody.  A process that waits may be killed.                          *)
(***************************************************************************)
CONSTANTS
  Proc,  \* processes
  Lock,  \* sleep locks
  None   \* no process, no lock

VARIABLES
  owner,  \* the process that owns each lock, or None
  asks    \* the lock each process asks for, or None

mvars == <<owner, asks>>

MInit ==
  /\ owner = [k \in Lock |-> None]
  /\ asks = [p \in Proc |-> None]

Ask(p, k) ==
  /\ asks[p] = None /\ \A j \in Lock : owner[j] # p
  /\ asks' = [asks EXCEPT ![p] = k]
  /\ UNCHANGED owner

Grant(p, k) ==
  /\ asks[p] = k /\ owner[k] = None
  /\ owner' = [owner EXCEPT ![k] = p]
  /\ asks' = [asks EXCEPT ![p] = None]

Free(p, k) ==
  /\ owner[k] = p
  /\ owner' = [owner EXCEPT ![k] = None]
  /\ UNCHANGED asks

Drop(p) ==
  /\ asks' = [asks EXCEPT ![p] = None]
  /\ UNCHANGED owner

MNext ==
  \/ \E p \in Proc, k \in Lock : Ask(p, k) \/ Grant(p, k) \/ Free(p, k)
  \/ \E p \in Proc : Drop(p)

MSpec == MInit /\ [][MNext]_mvars

(* A free lock somebody asks for does not stay free while they ask.        *)
Handed(k) ==
  (owner[k] = None /\ \E p \in Proc : asks[p] = k)
     ~> (owner[k] # None \/ \A p \in Proc : asks[p] # k)
=============================================================================
