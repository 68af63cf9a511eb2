------------------------------ MODULE ProcKill ------------------------------
(***************************************************************************)
(* proc_exit of a process that is delivering a signal: before it takes its *)
(* own lock it kills its descendants, depth first (proc_kill_descendants). *)
(*                                                                         *)
(* A descendant is made a zombie in whatever state it is found; one that   *)
(* another CPU executes goes on executing.  What a process does after its  *)
(* slot has been given back under it is not modelled.                      *)
(***************************************************************************)
EXTENDS ProcLife, Sequences

VARIABLE
  calls  \* the calls of proc_kill_descendants each process is in, innermost
         \* first: the slot whose children are killed, and the slot visited

kvars == <<state, parent, orphan, pend, run, pc, idx, found, want, calls>>

KInit == Init /\ calls = [p \in Proc |-> <<>>]

Call(q) == [of |-> q, at |-> 1]

(* The rest of the calls of p once the slot its innermost call visits is   *)
(* done with.                                                              *)
Onwards(p) == <<[Head(calls[p]) EXCEPT !.at = @ + 1]>> \o Tail(calls[p])

(* The exit of a process that is in a signal handler.                      *)
ExitDelivering(p) ==
  /\ p \in run /\ pc[p] = "user" /\ p # proczero
  /\ pc' = [pc EXCEPT ![p] = "kill"]
  /\ calls' = [calls EXCEPT ![p] = <<Call(p)>>]
  /\ UNCHANGED <<state, parent, orphan, pend, run, idx, waitVars>>

(* Under the lock of one slot: is it a child?  Then its children first.    *)
Look(p, c) ==
  /\ pc[p] = "kill" /\ Head(calls[p]).at = c
  /\ c # Head(calls[p]).of => ~Held(c)
  /\ calls' = [calls EXCEPT ![p] =
                 IF Child(Head(@).of, c) THEN <<Call(c)>> \o @ ELSE Onwards(p)]
  /\ UNCHANGED <<state, parent, orphan, pend, run, pc, idx, waitVars>>

(* The inner call is over: under the child's lock again, the child is made *)
(* a zombie unless it is one or is gone.                                   *)
Slay(p, c) ==
  /\ pc[p] = "kill" /\ Head(calls[p]) = [of |-> c, at |-> N + 1]
  /\ Len(calls[p]) > 1 /\ ~Held(c)
  /\ state' = [state EXCEPT ![c] = IF @ = "UNUSED" THEN @ ELSE "ZOMBIE"]
  /\ pc' = [pc EXCEPT ![c] = IF state[c] # "UNUSED" /\ c \notin run THEN "dead" ELSE @]
  /\ calls' = [calls EXCEPT ![p] =
                 <<[calls[p][2] EXCEPT !.at = @ + 1]>> \o Tail(Tail(@))]
  /\ UNCHANGED <<parent, orphan, pend, run, idx, waitVars>>

(* proc_exit goes on.                                                      *)
KillEnds(p) ==
  /\ pc[p] = "kill" /\ Len(calls[p]) = 1 /\ Head(calls[p]).at = N + 1
  /\ Moves(p, "reparent")
  /\ calls' = [calls EXCEPT ![p] = <<>>]
  /\ UNCHANGED <<state, parent, orphan, pend, run, want>>

KNext ==
  \/ Next /\ UNCHANGED calls
  \/ \E p \in Proc :
       \/ ExitDelivering(p) \/ KillEnds(p)
       \/ \E c \in Proc : Look(p, c) \/ Slay(p, c)

KSpec == KInit /\ [][KNext]_kvars

(* A zombie is only ever reaped (proc/type.h:82).                          *)
ZombieIsFinal ==
  [][\A p \in Proc : state[p] = "ZOMBIE" => state'[p] \in {"ZOMBIE", "UNUSED"}]_kvars
=============================================================================
