----------------------------- MODULE VirtioDisk -----------------------------
(***************************************************************************)
(* The virtio block driver of fs/virtio.c: virtio_disk_rw, descriptor      *)
(* allocation, the rings and the completion interrupt.                     *)
(*                                                                         *)
(* A request takes three descriptors, is put on the available ring, is     *)
(* done by the device in any order, comes back on the used ring and is     *)
(* matched to its buffer by the interrupt.  An action is one critical      *)
(* section of vdisk_lock; sleeping releases it.                            *)
(***************************************************************************)
EXTENDS Integers, Sequences, FiniteSets

CONSTANTS
  Proc,    \* processes that do I/O
  NBuf,    \* N_BUFFER
  Block,   \* block numbers
  Value,   \* contents of a block
  NDesc,   \* VIRTIO_NUM
  None     \* no block, no process, no contents

Buf == 0 .. NBuf - 1
Desc == 0 .. NDesc - 1

VARIABLES
  data,    \* the page of each buffer, None without one
  disk,    \* the contents of the device
  free,    \* disk.free
  info,    \* the request each head descriptor stands for
  avail,   \* heads the device has not done yet
  used,    \* heads the device has done, in order, that no interrupt has seen
  busy,    \* buffers with b->disk set
  io       \* where in virtio_disk_rw each process is

diskVars == <<data, disk, free, info, avail, used, busy, io>>

Requests == [buf : Buf, blk : Block, wr : BOOLEAN]
NoIo == [at |-> "out"]
IoStates ==
  {NoIo}
    \cup [at : {"alloc", "asleep"}, req : Requests]
    \cup [at : {"wait", "dozing"}, req : Requests, chain : Seq(Desc)]

DiskTypeOK ==
  /\ data \in [Buf -> Value \cup {None}]
  /\ disk \in [Block -> Value]
  /\ free \subseteq Desc
  /\ info \in [Desc -> Requests \cup {None}]
  /\ avail \subseteq Desc
  /\ used \in Seq(Desc)
  /\ busy \subseteq Buf
  /\ io \in [Proc -> IoStates]

(* data and disk are initialised by the module that uses the driver.       *)
DiskInit ==
  /\ free = Desc
  /\ info = [d \in Desc |-> None]
  /\ avail = {}
  /\ used = <<>>
  /\ busy = {}
  /\ io = [p \in Proc |-> NoIo]

-----------------------------------------------------------------------------

(* virtio_disk_rw is entered; whoever calls it says for which buffer.      *)
Call(p, n, b, w) ==
  io' = [io EXCEPT ![p] = [at |-> "alloc", req |-> [buf |-> n, blk |-> b, wr |-> w]]]

(* proc_wakeup(&disk.free[0]).                                             *)
WakeForDescs(i) ==
  [p \in Proc |-> IF i[p].at = "asleep" THEN [i[p] EXCEPT !.at = "alloc"] ELSE i[p]]

(* alloc_desc takes the lowest free descriptor.                            *)
Lowest(S) == CHOOSE d \in S : \A e \in S : d <= e
Three ==
  LET a == Lowest(free)
      b == Lowest(free \ {a})
  IN  <<a, b, Lowest(free \ {a, b})>>

(* alloc3_desc succeeds: the chain is filled in and made available.  The   *)
(* process falls asleep on its buffer at once: the device cannot have      *)
(* interrupted under vdisk_lock.                                           *)
Submit(p) ==
  /\ io[p].at = "alloc"
  /\ Cardinality(free) >= 3
  /\ LET c == Three IN
       /\ free' = free \ {c[1], c[2], c[3]}
       /\ info' = [info EXCEPT ![c[1]] = io[p].req]
       /\ avail' = avail \cup {c[1]}
       /\ io' = [io EXCEPT ![p] = [at |-> "dozing", req |-> io[p].req, chain |-> c]]
  /\ busy' = busy \cup {io[p].req.buf}
  /\ UNCHANGED <<data, disk, used>>

(* alloc3_desc fails.  What it had got goes back with free_desc, which     *)
(* wakes all the others that wait for descriptors; then it sleeps.         *)
Starve(p) ==
  /\ io[p].at = "alloc"
  /\ Cardinality(free) < 3
  /\ LET woken == IF free # {} THEN WakeForDescs(io) ELSE io
     IN  io' = [woken EXCEPT ![p].at = "asleep"]
  /\ UNCHANGED <<data, disk, free, info, avail, used, busy>>

(* The device does one of the requests it has been given.                  *)
Transfer(h) ==
  /\ h \in avail
  /\ avail' = avail \ {h}
  /\ used' = Append(used, h)
  /\ LET r == info[h] IN
       IF r.wr THEN /\ disk' = [disk EXCEPT ![r.blk] = data[r.buf]]
                    /\ UNCHANGED data
               ELSE /\ data' = [data EXCEPT ![r.buf] = disk[r.blk]]
                    /\ UNCHANGED disk
  /\ UNCHANGED <<free, info, busy, io>>

(* virtio_disk_intr goes through the whole used ring.                      *)
Seen == {used[i] : i \in 1 .. Len(used)}

Interrupt ==
  /\ used # <<>>
  /\ LET done == {info[h].buf : h \in Seen} IN
       /\ busy' = busy \ done
       /\ io' = [p \in Proc |->
                  IF io[p].at = "dozing" /\ io[p].req.buf \in done
                  THEN [io[p] EXCEPT !.at = "wait"] ELSE io[p]]
  /\ used' = <<>>
  /\ UNCHANGED <<data, disk, free, info, avail>>

(* An interval timer wakes whoever sleeps in the driver                    *)
(* (proc_check_itimers); it looks again.                                   *)
Disturb(p) ==
  /\ io[p].at \in {"dozing", "asleep"}
  /\ io' = [io EXCEPT ![p].at = IF @ = "dozing" THEN "wait" ELSE "alloc"]
  /\ UNCHANGED <<data, disk, free, info, avail, used, busy>>

LookAgain(p) ==
  /\ io[p].at = "wait"
  /\ io[p].req.buf \in busy
  /\ io' = [io EXCEPT ![p].at = "dozing"]
  /\ UNCHANGED <<data, disk, free, info, avail, used, busy>>

(* Variant: the chain is freed without a wakeup.                           *)
FreedSilent(p) == [io EXCEPT ![p] = NoIo]

(* free_chain: free_desc wakes those who wait for descriptors.             *)
Freed(p) == [WakeForDescs(io) EXCEPT ![p] = NoIo]

(* b->disk is clear: the chain is freed and virtio_disk_rw returns.        *)
Return(p) ==
  /\ io[p].at = "wait"
  /\ io[p].req.buf \notin busy
  /\ LET c == io[p].chain IN
       /\ info' = [info EXCEPT ![c[1]] = None]
       /\ free' = free \cup {c[1], c[2], c[3]}
  /\ io' = Freed(p)
  /\ UNCHANGED <<data, disk, avail, used, busy>>

DiskStep(p) == Submit(p) \/ Starve(p) \/ LookAgain(p)
Device == Interrupt \/ \E h \in Desc : Transfer(h)

-----------------------------------------------------------------------------
(* Properties of the driver, part of the invariants of its user.           *)

(* Every descriptor is free or in the chain of exactly one request.        *)
Chains ==
  /\ \A p \in Proc : io[p].at \in {"wait", "dozing"} =>
       /\ Len(io[p].chain) = 3
       /\ \A i \in 1 .. 3 : io[p].chain[i] \notin free
       /\ info[io[p].chain[1]] = io[p].req
  /\ \A p, q \in Proc :
       /\ p # q
       /\ io[p].at \in {"wait", "dozing"} /\ io[q].at \in {"wait", "dozing"}
       => {io[p].chain[i] : i \in 1 .. 3} \cap {io[q].chain[i] : i \in 1 .. 3} = {}
  /\ Cardinality(free)
       = NDesc - 3 * Cardinality({p \in Proc : io[p].at \in {"wait", "dozing"}})

(* Whoever sleeps on a buffer is waiting for a request that the device or  *)
(* the interrupt still has in hand; whoever sleeps for descriptors will be *)
(* woken by the end of such a request, or by somebody who is about to try. *)
DiskAwake ==
  /\ \A p \in Proc : io[p].at = "dozing" =>
       /\ io[p].req.buf \in busy
       /\ \E h \in avail \cup Seen : h = io[p].chain[1]
  /\ (\E p \in Proc : io[p].at = "asleep") =>
       \E q \in Proc : io[q].at \in {"alloc", "wait", "dozing"}
=============================================================================
