------------------------------ MODULE BufCache ------------------------------
(***************************************************************************)
(* The buffer cache of fs/buf.c on top of the disk driver: buffer_get with *)
(* hits, victims and reclaiming, buffer_write, buffer_put, buffer_freemem. *)
(*                                                                         *)
(* An action is one critical section of lk_buf_cache, or the taking or     *)
(* giving back of a buffer's sleep lock, which is taken as atomic here     *)
(* (SleepLock shows that it is a mutex).  A process has one buffer at a    *)
(* time and writes what it changes (buffer_write) before it goes on.       *)
(***************************************************************************)
EXTENDS VirtioDisk, SequencesExt

CONSTANTS
  NPage,   \* kernel pages there are for buffers
  Batch    \* BUFFER_RECLAIM_ON_OOM

(* What the theorems assume of the constants (BufProofs), and what they    *)
(* assume further where nothing may come to a stop.  N_PROC is 768,        *)
(* N_BUFFER 16384 and VIRTIO_NUM 8; that a page is left for a buffer of    *)
(* every process is up to the memory the kernel has.                       *)
Constants ==
  /\ IsFiniteSet(Proc)
  /\ NBuf \in Nat /\ NDesc \in Nat /\ NPage \in Nat /\ Batch \in Nat \ {0}
  /\ None \notin Proc \cup Block \cup Value /\ None \notin Requests
Enough == Cardinality(Proc) <= NBuf /\ Cardinality(Proc) <= NPage /\ NDesc >= 3

VARIABLES
  block,   \* the block number of each buffer, None for BLOCK_NUM_UNUSED
  ref,     \* its references
  valid,   \* its contents have been read
  active,  \* the two lists, from head->next to head->prev
  inactive,
  slk,     \* who has the sleep lock of the buffer
  call     \* where each process is in the calls of the cache

cacheVars == <<block, ref, valid, active, inactive, slk, call>>
vars == <<diskVars, cacheVars>>

(* "lock": it has a reference and wants the sleep lock; "read": it fills   *)
(* the buffer; "have": buffer_get has returned; "write": in buffer_write;  *)
(* "put": it has given the sleep lock back and has its reference still.    *)
Idle == [at |-> "idle"]
Calls ==
  {Idle} \cup [at : {"lock", "check", "read", "have", "write", "put"},
               buf : Buf, blk : Block]

TypeOK ==
  /\ DiskTypeOK
  /\ block \in [Buf -> Block \cup {None}]
  /\ ref \in [Buf -> 0 .. Cardinality(Proc)]
  /\ valid \in [Buf -> BOOLEAN]
  /\ active \in Seq(Buf) /\ inactive \in Seq(Buf)
  /\ slk \in [Buf -> Proc \cup {None}]
  /\ call \in [Proc -> Calls]

(* The zeroed device holds one and the same value everywhere.              *)
Init ==
  /\ \E v \in Value : disk = [b \in Block |-> v]
  /\ data = [n \in Buf |-> None]
  /\ DiskInit
  /\ block = [n \in Buf |-> None]
  /\ ref = [n \in Buf |-> 0]
  /\ valid = [n \in Buf |-> FALSE]
  /\ active = <<>>
  /\ inactive = [i \in 1 .. NBuf |-> NBuf - i]
  /\ slk = [n \in Buf |-> None]
  /\ call = [p \in Proc |-> Idle]

-----------------------------------------------------------------------------

(* hash_find: the chain of the bucket is searched by block number.         *)
Find(b) == {n \in Buf : block[n] = b}

(* Free pages.                                                             *)
Pages == NPage - Cardinality({n \in Buf : data[n] # None})

(* buffer_reclaim_locked: of the inactive buffers that have a page, without *)
(* the one that asks, the k next to the tail.                              *)
Eligible(i, skip) ==
  inactive[i] # skip /\ ref[inactive[i]] = 0 /\ data[inactive[i]] # None
Reclaimed(k, skip) ==
  LET found == {i \in 1 .. Len(inactive) : Eligible(i, skip)}
  IN  {inactive[i] : i \in {j \in found : Cardinality({m \in found : j < m}) < k}}

(* What is left of the field f of the buffers that lose their page.        *)
Forgets(f, gone) == [n \in Buf |-> IF n \in gone THEN None ELSE f[n]]

(* The least recently used buffer without a reference.                     *)
Victim == inactive[Len(inactive)]

(* insert_node: out of its list, to the head or the tail of another.       *)
Without(list, n) == RemoveFirst(list, n)

(* Variant: no reclaim.                                                    *)
RobbedNobody(n) == {}

(* A page for the victim: its own, a free one, or after a reclaim.         *)
Robbed(n) == IF data[n] = None /\ Pages = 0 THEN Reclaimed(Batch, n) ELSE {}
HasPage(n) == data[n] # None \/ Pages > 0 \/ Robbed(n) # {}

(* buffer_get finds the block.  A buffer in the hash has its page.         *)
Hit(p, b, n) ==
  /\ call[p] = Idle
  /\ n \in Find(b)
  /\ ref' = [ref EXCEPT ![n] = @ + 1]
  /\ active' = <<n>> \o Without(active, n)
  /\ inactive' = Without(inactive, n)
  /\ call' = [call EXCEPT ![p] = [at |-> "lock", buf |-> n, blk |-> b]]
  /\ UNCHANGED <<block, valid, slk, diskVars>>

(* Variant: valid is left as it was.                                       *)
MissedKeepsValid(n, gone) == [m \in Buf |-> IF m \in gone THEN FALSE ELSE valid[m]]

(* Neither the victim nor a buffer that lost its page is valid.            *)
Missed(n, gone) == [m \in Buf |-> IF m = n \/ m \in gone THEN FALSE ELSE valid[m]]

(* buffer_get does not find it and takes the victim; the page that is new  *)
(* to it contains anything.                                                *)
Miss(p, b) ==
  /\ call[p] = Idle
  /\ Find(b) = {}
  /\ inactive # <<>>
  /\ LET n == Victim
         gone == Robbed(n)
     IN  /\ HasPage(n)
         /\ \E v \in Value :
              data' = [Forgets(data, gone) EXCEPT ![n] = IF @ = None THEN v ELSE @]
         /\ block' = [Forgets(block, gone) EXCEPT ![n] = b]
         /\ valid' = Missed(n, gone)
         /\ active' = Append(active, n)
         /\ inactive' = Without(inactive, n)
         /\ ref' = [ref EXCEPT ![n] = @ + 1]
         /\ call' = [call EXCEPT ![p] = [at |-> "lock", buf |-> n, blk |-> b]]
  /\ UNCHANGED <<slk, disk, free, info, avail, used, busy, io>>

(* sleeplock_acquire.                                                      *)
Lock(p) ==
  /\ call[p].at = "lock"
  /\ slk[call[p].buf] = None
  /\ slk' = [slk EXCEPT ![call[p].buf] = p]
  /\ call' = [call EXCEPT ![p].at = "check"]
  /\ UNCHANGED <<block, ref, valid, active, inactive, diskVars>>

(* buf->valid under the sleep lock.                                        *)
GotIt(p) ==
  /\ call[p].at = "check" /\ valid[call[p].buf]
  /\ call' = [call EXCEPT ![p].at = "have"]
  /\ UNCHANGED <<block, ref, valid, active, inactive, slk, diskVars>>

(* buffer_read of the block the buffer has now.                            *)
Read(p) ==
  /\ call[p].at = "check"
  /\ ~valid[call[p].buf]
  /\ Call(p, call[p].buf, block[call[p].buf], FALSE)
  /\ call' = [call EXCEPT ![p].at = "read"]
  /\ UNCHANGED <<block, ref, valid, active, inactive, slk,
                 data, disk, free, info, avail, used, busy>>

(* The owner changes the contents and calls buffer_write.                  *)
Write(p, v) ==
  /\ call[p].at = "have"
  /\ data' = [data EXCEPT ![call[p].buf] = v]
  /\ Call(p, call[p].buf, block[call[p].buf], TRUE)
  /\ call' = [call EXCEPT ![p].at = "write"]
  /\ UNCHANGED <<block, ref, valid, active, inactive, slk,
                 disk, free, info, avail, used, busy>>

(* virtio_disk_rw returns to buffer_get or from buffer_write.              *)
IoDone(p) ==
  /\ Return(p)
  /\ call' = [call EXCEPT ![p].at = "have"]
  /\ valid' = [valid EXCEPT ![call[p].buf] = TRUE]
  /\ UNCHANGED <<block, ref, active, inactive, slk>>

(* buffer_put gives the sleep lock back ...                                *)
Unlock(p) ==
  /\ call[p].at = "have"
  /\ slk' = [slk EXCEPT ![call[p].buf] = None]
  /\ call' = [call EXCEPT ![p].at = "put"]
  /\ UNCHANGED <<block, ref, valid, active, inactive, diskVars>>

(* Variant: the buffer is inactive whoever else refers to it.              *)
UnusedAlways(n) == TRUE

(* Nobody else refers to n.                                                *)
Unused(n) == ref[n] = 1

(* ... and then the reference.                                             *)
Unref(p) ==
  /\ call[p].at = "put"
  /\ LET n == call[p].buf IN
       /\ ref' = [ref EXCEPT ![n] = @ - 1]
       /\ active' = IF Unused(n) THEN Without(active, n) ELSE active
       /\ inactive' = IF Unused(n) THEN <<n>> \o Without(inactive, n) ELSE inactive
  /\ call' = [call EXCEPT ![p] = Idle]
  /\ UNCHANGED <<block, valid, slk, diskVars>>

(* buffer_freemem, called when the kernel is out of pages.                 *)
FreeMem(k) ==
  /\ Reclaimed(k, None) # {}
  /\ LET gone == Reclaimed(k, None) IN
       /\ data' = Forgets(data, gone)
       /\ block' = Forgets(block, gone)
       /\ valid' = [n \in Buf |-> valid[n] /\ n \notin gone]
  /\ UNCHANGED <<ref, active, inactive, slk, call,
                 disk, free, info, avail, used, busy, io>>

(* The steps of a call that has begun.                                     *)
Proceed(p) ==
  \/ Lock(p) \/ GotIt(p) \/ Read(p) \/ IoDone(p) \/ Unref(p)
  \/ DiskStep(p) /\ UNCHANGED cacheVars

Next ==
  \/ \E p \in Proc :
       \/ Proceed(p) \/ Unlock(p)
       \/ \E b \in Block : Miss(p, b) \/ \E n \in Buf : Hit(p, b, n)
       \/ \E v \in Value : Write(p, v)
       \/ Disturb(p) /\ UNCHANGED cacheVars
  \/ Device /\ UNCHANGED cacheVars
  \/ \E k \in 1 .. Batch : FreeMem(k)

Spec == Init /\ [][Next]_vars

-----------------------------------------------------------------------------
(* Properties.                                                             *)

(* Bookkeeping of the cache: a block is in at most one buffer, a buffer in *)
(* exactly one list, inactive exactly while it has no reference, the       *)
(* references are those of the calls under way, and whoever is in a call   *)
(* still finds its own block in the buffer (no victim was taken from       *)
(* under it while it waited for the sleep lock).                           *)
Users(n) == {p \in Proc : call[p] # Idle /\ call[p].buf = n}
OneBuffer ==
  /\ \A n, m \in Buf : n # m /\ block[n] # None => block[n] # block[m]
  /\ \A n \in Buf :
       /\ ref[n] = Cardinality(Users(n))
       /\ (\E i \in 1 .. Len(inactive) : inactive[i] = n) <=> ref[n] = 0
       /\ (\E i \in 1 .. Len(active) : active[i] = n) <=> ref[n] > 0
       /\ block[n] # None => data[n] # None
       /\ block[n] = None => ~valid[n]
       /\ \A p \in Users(n) : block[n] = call[p].blk
  /\ Len(active) + Len(inactive) = NBuf

(* The assertions of buffer_get: as long as there are at least as many     *)
(* buffers and pages as processes, a miss finds a victim without a         *)
(* reference and a page for it.                                            *)
NeverExhausted ==
  (\E p \in Proc : call[p] = Idle) =>
    /\ inactive # <<>>
    /\ ref[Victim] = 0
    /\ HasPage(Victim)

(* Nothing comes to a stop: the assertions of buffer_get hold, every       *)
(* descriptor is accounted for, and whoever sleeps in the driver is there  *)
(* for something that will wake it.                                        *)
NothingStuck == NeverExhausted /\ Chains /\ DiskAwake

Content(b) ==
  LET n == {m \in Find(b) : valid[m]}
  IN  IF n = {} THEN disk[b] ELSE data[CHOOSE m \in n : TRUE]
Has(p) == call[p].at \in {"have", "write"}
Stored == [b \in Block |-> Content(b)]
Holder ==
  [b \in Block |-> IF \E p \in Proc : Has(p) /\ call[p].blk = b
                   THEN CHOOSE p \in Proc : Has(p) /\ call[p].blk = b ELSE None]
Views == [p \in Proc |-> IF Has(p) THEN data[call[p].buf] ELSE None]
Store == INSTANCE BlockStore WITH content <- Stored, owner <- Holder, view <- Views

(* The cache implements the block store: whatever is evicted, reclaimed,   *)
(* in flight or completed out of order, a process that has a block is      *)
(* alone with it and finds what was written there last.                    *)
IsStore == Store!Spec
=============================================================================
