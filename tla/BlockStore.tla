----------------------------- MODULE BlockStore -----------------------------
(***************************************************************************)
(* What the buffer cache promises: a store of blocks, each of which at     *)
(* most one process has at a time, reads and writes.  There are no         *)
(* buffers, no disk and no eviction.                                       *)
(***************************************************************************)
CONSTANTS Proc, Block, Value, None

VARIABLES
  content,  \* what each block contains
  owner,    \* the process that has the block
  view      \* what that process finds in it

vars == <<content, owner, view>>

Init ==
  /\ content \in [Block -> Value]
  /\ owner = [b \in Block |-> None]
  /\ view = [p \in Proc |-> None]

(* p gets block b and sees its present contents.                           *)
Take(p, b) ==
  /\ owner[b] = None
  /\ owner' = [owner EXCEPT ![b] = p]
  /\ view' = [view EXCEPT ![p] = content[b]]
  /\ UNCHANGED content

(* p changes the block it has.                                             *)
Write(p, b, v) ==
  /\ owner[b] = p
  /\ content' = [content EXCEPT ![b] = v]
  /\ view' = [view EXCEPT ![p] = v]
  /\ UNCHANGED owner

Release(p, b) ==
  /\ owner[b] = p
  /\ owner' = [owner EXCEPT ![b] = None]
  /\ view' = [view EXCEPT ![p] = None]
  /\ UNCHANGED content

Next ==
  \E p \in Proc, b \in Block :
    Take(p, b) \/ Release(p, b) \/ \E v \in Value : Write(p, b, v)

Spec == Init /\ [][Next]_vars
=============================================================================
