------------------------------- MODULE Stream -------------------------------
(***************************************************************************)
(* What a pool of pipes promises: each pipe in use is a bounded queue of   *)
(* bytes.  Whoever reads gets a prefix of the queue, and nothing only when *)
(* there is nothing.                                                       *)
(***************************************************************************)
EXTENDS Integers, Sequences, SequencesExt

CONSTANTS
  Task,  \* those who read
  Slot,  \* the pipes of the pool
  Cap    \* bytes a pipe holds

VARIABLES
  live,  \* the pipes in use
  q,     \* the bytes in each pipe
  got    \* what the last read of each process returned

svars == <<live, q, got>>

SInit ==
  /\ live = {}
  /\ q = [i \in Slot |-> <<>>]
  /\ got = [p \in Task |-> <<>>]

Create(i) ==
  /\ i \notin live
  /\ live' = live \cup {i}
  /\ UNCHANGED <<q, got>>

(* More bytes, behind those that are there.                                *)
Put(i) ==
  /\ i \in live
  /\ UNCHANGED <<live, got>>
  /\ Len(q[i]) < Len(q'[i]) /\ Len(q'[i]) <= Cap
  /\ IsPrefix(q[i], q'[i])
  /\ \A j \in Slot \ {i} : q'[j] = q[j]

(* What is returned is taken from the front; nothing, when there is        *)
(* nothing.                                                                *)
Get(i, p) ==
  /\ i \in live
  /\ UNCHANGED live
  /\ \A o \in Task \ {p} : got'[o] = got[o]
  /\ q[i] = got'[p] \o q'[i]
  /\ got'[p] = <<>> => q[i] = <<>>
  /\ \A j \in Slot \ {i} : q'[j] = q[j]

(* A new call starts with an empty buffer.                                 *)
Begin(p) ==
  /\ got' = [got EXCEPT ![p] = <<>>]
  /\ UNCHANGED <<live, q>>

Destroy(i) ==
  /\ i \in live
  /\ live' = live \ {i}
  /\ q' = [q EXCEPT ![i] = <<>>]
  /\ UNCHANGED got

SNext ==
  \/ \E i \in Slot : Create(i) \/ Put(i) \/ Destroy(i) \/ \E p \in Task : Get(i, p)
  \/ \E p \in Task : Begin(p)

SSpec == SInit /\ [][SNext]_svars
=============================================================================
