---------------------------- MODULE AddressSpace ----------------------------
(***************************************************************************)
(* Address spaces, private and shared by threads: fork, clone, exec, exit  *)
(* and exit_group as far as memory is concerned, brk, mmap, munmap,        *)
(* mprotect, page faults (mem/uvm.c, proc/proc.c) and System V shared      *)
(* memory (syscall/sysfunc.c).                                             *)
(*                                                                         *)
(* The kernel is not preempted and nothing here sleeps: on one CPU an      *)
(* action is a whole system call; only the loop of exit_group yields.      *)
(***************************************************************************)
EXTENDS Integers, FiniteSets

CONSTANTS
  NProc,    \* process slots
  Page,     \* the pages of the user region
  NMap,     \* pages of the mmap area
  NSeg,     \* SYSV_SHM_MAX_SEG
  NAttach,  \* SYSV_SHM_MAX_ATTACH
  Kinds,    \* bound: groups of operations that happen
  Prot,     \* bound: what regions are asked for, of "r" and "rw"
  Orderly,  \* environment: see Alone and Detached
  None

Slot == 1 .. NProc
Seg == 1 .. NSeg
Area == 1 .. NMap  \* page numbers of the mmap area
Heap == 0          \* and the one page the heap can grow by
Va == {Heap} \cup Area

VARIABLES
  proc,  \* the fields of the processes
  free,  \* the free list
  seg,   \* sysv_shm_seg
  att    \* sysv_shm_attach: process, segment, address

vars == <<proc, free, seg, att>>

(* owner, shared, group, pending, heap are vm_owner, shared_vm,            *)
(* thread_group, group_exit_pending and heap_top; mmap is the list of      *)
(* regions [b, e), which its order by address makes a set.                 *)
NoSpace == [va \in Va |-> None]
Unused == [at |-> "unused", owner |-> None, shared |-> FALSE, group |-> FALSE,
           pending |-> FALSE, heap |-> 0, pte |-> NoSpace, mmap |-> {}]
NoSeg == [used |-> FALSE, key |-> None, page |-> None, attach |-> 0, gone |-> FALSE]
Perm == Prot \cup {"shm"}
Region == {r \in [b : Area, e : 2 .. NMap + 1, perm : Perm] : r.b < r.e}

TypeOK ==
  /\ proc \in [Slot -> [at : {"unused", "user", "loop", "zombie"}, owner : Slot \cup {None},
                        shared : BOOLEAN, group : BOOLEAN, pending : BOOLEAN, heap : 0 .. 1,
                        pte : [Va -> Page \cup {None}], mmap : SUBSET Region]]
  /\ free \subseteq Page
  /\ seg \in [Seg -> [used : BOOLEAN, key : {"key", None}, page : Page \cup {None},
                      attach : 0 .. NAttach, gone : BOOLEAN]]
  /\ att \subseteq Slot \X Seg \X Area

Init ==
  /\ proc = [p \in Slot |-> IF p = 1 THEN [Unused EXCEPT !.at = "user", !.owner = 1] ELSE Unused]
  /\ free = Page
  /\ seg = [s \in Seg |-> NoSeg]
  /\ att = {}

-----------------------------------------------------------------------------
(* Memory: a record m of the processes and the free pages, changed by one  *)
(* operation after the other.                                              *)

Now == [proc |-> proc, free |-> free]
Become(m) == proc' = m.proc /\ free' = m.free

(* pmem_alloc and pmem_free.                                               *)
Took(m, pg) == [m EXCEPT !.free = @ \ {pg}]
Gave(m, pgs) == [m EXCEPT !.free = @ \cup pgs]

SegPages == {seg[s].page : s \in Seg} \ {None}
Shm(pg) == pg \in SegPages

(* The processes that share the address space of p.  A zombie keeps its    *)
(* page table.                                                             *)
Members(m, p) == {q \in Slot : m.proc[q].at # "unused" /\ m.proc[q].owner = m.proc[p].owner}
Live(m, p) == {q \in Members(m, p) : m.proc[q].at # "zombie"}

Mapped(m, qs, va, pg) ==
  [m EXCEPT !.proc = [q \in Slot |-> IF q \in qs THEN [m.proc[q] EXCEPT !.pte[va] = pg]
                                     ELSE m.proc[q]]]
Holes(m, qs, va) == {q \in qs : m.proc[q].pte[va] = None}
Pages(m, qs, va) == {m.proc[q].pte[va] : q \in qs} \ {None}

(* proc_shared_vm_unmap_page for some pages, which are freed unless the    *)
(* caller has them mapped as shared memory.                                *)
UnmapAll(m, p, vas) ==
  LET gone == UNION {Pages(m, Live(m, p), va) : va \in {v \in vas :
                m.proc[p].pte[v] = None \/ ~Shm(m.proc[p].pte[v])}}
  IN  [proc |-> [q \in Slot |->
         IF q \in Live(m, p)
         THEN [m.proc[q] EXCEPT !.pte = [va \in Va |-> IF va \in vas THEN None ELSE @[va]]]
         ELSE m.proc[q]],
       free |-> m.free \cup gone]

(* proc_has_live_vm_sibling.                                               *)
HasSibling(m, p) == Members(m, p) # {p}

(* What uvm_destroy_pgtbl frees; uvm_destroy_shared_pgtbl frees none.      *)
Own(m, p) == {pg \in {m.proc[p].pte[va] : va \in Va} \ {None} : ~Shm(pg)}

(* Variant: a zombie does not count as a sibling.                          *)
FreedByLive(m, p) ==
  Gave([m EXCEPT !.proc[p] = Unused], IF Live(m, p) \ {p} # {} THEN {} ELSE Own(m, p))

(* proc_free: the last one frees the pages.                                *)
Freed(m, p) ==
  Gave([m EXCEPT !.proc[p] = Unused], IF HasSibling(m, p) THEN {} ELSE Own(m, p))

-----------------------------------------------------------------------------
(* The list of regions.                                                    *)

Overlaps(r, b, e) == r.b < e /\ r.e > b
Covers(rs, va) == \E r \in rs : r.b <= va /\ va < r.e

(* Variant: the others keep the old head of the list.                      *)
RelistedOwn(m, p, rs) == [m EXCEPT !.proc[p].mmap = rs]

(* proc_shared_vm_sync_mmap; the nodes are shared anyway.                  *)
Relisted(m, p, rs) ==
  [m EXCEPT !.proc = [q \in Slot |-> IF q \in Members(m, p) THEN [m.proc[q] EXCEPT !.mmap = rs]
                                     ELSE m.proc[q]]]

(* A new region is merged with neighbours of the same permissions.         *)
Insert(rs, r) ==
  LET near == {x \in rs : x.perm = r.perm /\ (x.b = r.e \/ x.e = r.b)}
      all == near \cup {r}
  IN  (rs \ near) \cup {[b |-> CHOOSE b \in {x.b : x \in all} : \A x \in all : b <= x.b,
                         e |-> CHOOSE e \in {x.e : x \in all} : \A x \in all : e >= x.e,
                         perm |-> r.perm]}

(* uvm_munmap: what is left of the regions.                                *)
Cut(rs, b, e) ==
  {r \in rs : ~Overlaps(r, b, e)}
    \cup {[r EXCEPT !.e = b] : r \in {x \in rs : Overlaps(x, b, e) /\ x.b < b}}
    \cup {[r EXCEPT !.b = e] : r \in {x \in rs : Overlaps(x, b, e) /\ x.e > e}}

(* uvm_mprotect: the regions are split at b and e and merged again.        *)
Protected(rs, b, e, perm) ==
  LET parts == Cut(rs, b, e)
        \cup {[b |-> IF r.b < b THEN b ELSE r.b, e |-> IF r.e > e THEN e ELSE r.e, perm |-> perm]
                : r \in {x \in rs : Overlaps(x, b, e)}}
      same(va, q) == \E r \in parts : r.perm = q /\ r.b <= va /\ va < r.e
      runs == {r \in Region : \A va \in r.b .. r.e - 1 : same(va, r.perm)}
  IN  {r \in runs : ~same(r.b - 1, r.perm) /\ ~same(r.e, r.perm)}

(* uvm_mmap_find: the first gap.                                           *)
Gaps(rs, n) == {b \in Area : b + n - 1 \in Area /\ \A r \in rs : ~Overlaps(r, b, b + n)}
Place(rs, n) == CHOOSE b \in Gaps(rs, n) : \A c \in Gaps(rs, n) : b <= c

-----------------------------------------------------------------------------
(* Calls.                                                                  *)

(* A process that runs in user mode.  What group_exit_pending asks for is  *)
(* done at the next trap.                                                  *)
May(p, kind) == kind \in Kinds /\ proc[p].at = "user" /\ ~proc[p].pending
UnusedSlots == {q \in Slot : proc[q].at = "unused"}
Child(p) == CHOOSE q \in UnusedSlots : \A r \in UnusedSlots : q <= r

(* Environment.  A process whose address space others use does not end or  *)
(* exec before they have; nobody forks, execs or ends with shared memory   *)
(* attached, or unmaps it other than by shmdt.                             *)
Alone(p) == Orderly => proc[p].shared \/ Members(Now, p) = {p}
Detached(p) == Orderly => \A a \in att : a[1] \notin Members(Now, p)

(* uvm_copy_pgtbl copies page by page, until there are no pages left.      *)
Copies(vas) ==
  {page \in [vas -> free \cup {None}] :
     LET copied == {va \in vas : page[va] # None} IN
     /\ \A va, vb \in copied : va # vb => page[va] # page[vb]
     /\ copied = vas \/ Cardinality(copied) = Cardinality(free)
     /\ \A va \in copied, vb \in vas \ copied : va < vb}

(* A child that could not be made is freed by proc_free, under its lock.   *)
Fork(p) ==
  /\ May(p, "fork") /\ UnusedSlots # {} /\ Detached(p)
  /\ LET q == Child(p)
         child == [proc[p] EXCEPT !.owner = q, !.shared = FALSE, !.group = FALSE, !.pte = NoSpace]
         vas == {va \in Va : proc[p].pte[va] # None /\ ~Shm(proc[p].pte[va])}
     IN  \E page \in Copies(vas) :
           LET pte == [va \in Va |-> IF va \in vas THEN page[va] ELSE proc[p].pte[va]]
               m == [proc |-> [proc EXCEPT ![q] = [child EXCEPT !.pte = pte]],
                     free |-> free \ {page[va] : va \in vas}]
           IN  Become(IF \E va \in vas : page[va] = None THEN Freed(m, q) ELSE m)
  /\ UNCHANGED <<seg, att>>

(* clone with CLONE_VM: the pages are mapped in the page table of the      *)
(* child until there is no room for it; a child that fails is freed.       *)
Clone(p, thread, done) ==
  /\ May(p, "clone") /\ UnusedSlots # {}
  /\ LET q == Child(p)
         child == [proc[p] EXCEPT !.shared = TRUE, !.group = thread,
                     !.pte = [va \in Va |-> IF va \in done THEN proc[p].pte[va] ELSE None]]
         all == {va \in Va : proc[p].pte[va] # None}
         m == [proc |-> [proc EXCEPT ![p].group = @ \/ thread, ![q] = child], free |-> free]
     IN  /\ done \subseteq all
         /\ \A va \in done, vb \in all \ done : va < vb
         /\ Become(IF done = all THEN m ELSE Freed(m, q))
  /\ UNCHANGED <<seg, att>>

(* brk: heap_top of everybody who shares the heap.                         *)
Topped(m, p, top) ==
  [m EXCEPT !.proc = [q \in Slot |-> IF q \in Live(m, p) THEN [m.proc[q] EXCEPT !.heap = top]
                                     ELSE m.proc[q]]]

(* uvm_heap_grow; the siblings get the page when they have none there.     *)
Grow(p) ==
  /\ May(p, "brk") /\ proc[p].heap = 0
  /\ \E pg \in free :
       Become(Topped(Took(Mapped(Now, Holes(Now, Live(Now, p), Heap), Heap, pg), pg), p, 1))
  /\ UNCHANGED <<seg, att>>

Shrink(p) ==
  /\ May(p, "brk") /\ proc[p].heap = 1
  /\ Become(Topped(UnmapAll(Now, p, {Heap}), p, 0))
  /\ UNCHANGED <<seg, att>>

(* proc_shared_vm_fault_page for a page of a region: the page a sibling    *)
(* has there, or else a new one, is mapped for everybody who has none.     *)
(* The page table of some of them may not have room: then a new page is    *)
(* unmapped again and freed.                                               *)
FaultPage(m, p, va, full) ==
  LET found == Pages(m, Live(m, p), va)
      holes == Holes(m, Live(m, p), va)
  IN  IF found # {} THEN {Mapped(m, holes \ full, va, pg) : pg \in found}
      ELSE IF full \cap holes # {} THEN {m}
      ELSE {Took(Mapped(m, holes, va, pg), pg) : pg \in m.free}

Touch(p, va, full) ==
  /\ May(p, "mmap") /\ Covers(proc[p].mmap, va) /\ proc[p].pte[va] = None
  /\ \E m \in FaultPage(Now, p, va, full) : Become(m)
  /\ UNCHANGED <<seg, att>>

Mmapped(p, b, n, perm) == Relisted(Now, p, Insert(proc[p].mmap, [b |-> b, e |-> b + n, perm |-> perm]))

Munmapped(m, p, b, n) ==
  LET vas == {va \in b .. b + n - 1 : Covers(m.proc[p].mmap, va)}
  IN  Relisted(UnmapAll(m, p, vas), p, Cut(m.proc[p].mmap, b, b + n))

Mmap(p, n, perm) ==
  /\ May(p, "mmap") /\ Gaps(proc[p].mmap, n) # {}
  /\ Become(Mmapped(p, Place(proc[p].mmap, n), n, perm))
  /\ UNCHANGED <<seg, att>>

(* Environment: only shmdt unmaps shared memory.                           *)
Plain(p, b, n) ==
  Orderly => \A a \in att : a[1] \in Members(Now, p) => a[3] \notin b .. b + n - 1

(* MAP_FIXED takes the place of what is there.                             *)
MmapFixed(p, b, n, perm) ==
  /\ May(p, "mmap") /\ Plain(p, b, n)
  /\ LET m == Munmapped(Now, p, b, n)
     IN  Become(Relisted(m, p, Insert(m.proc[p].mmap, [b |-> b, e |-> b + n, perm |-> perm])))
  /\ UNCHANGED <<seg, att>>

(* A mapped file of one page is read at once: mmap_prefill_file.  Without  *)
(* a page, or when the file cannot be read, it is unmapped again.          *)
MmapFile(p, perm, readable) ==
  /\ May(p, "mmap") /\ Gaps(proc[p].mmap, 1) # {}
  /\ LET va == Place(proc[p].mmap, 1)
         m == Mmapped(p, va, 1, perm)
     IN  \E f \in FaultPage(m, p, va, {}) \cup {m} :
           /\ f = m => m.free = {}
           /\ Become(IF f = m \/ ~readable THEN Munmapped(f, p, va, 1) ELSE f)
  /\ UNCHANGED <<seg, att>>

Munmap(p, b, n) ==
  /\ May(p, "mmap") /\ Plain(p, b, n)
  /\ Become(Munmapped(Now, p, b, n))
  /\ UNCHANGED <<seg, att>>

Mprotect(p, b, n, perm) ==
  /\ May(p, "mmap")
  /\ \A va \in b .. b + n - 1 : proc[p].pte[va] # None \/ Covers(proc[p].mmap, va)
  /\ Become(Relisted(Now, p, Protected(proc[p].mmap, b, b + n, perm)))
  /\ UNCHANGED <<seg, att>>

-----------------------------------------------------------------------------
(* Shared memory; a segment has one page.                                  *)

UnusedSegs == {s \in Seg : ~seg[s].used}

(* shmget of a new segment; of a key that exists it changes nothing.       *)
Shmget(p, key) ==
  /\ May(p, "shm") /\ UnusedSegs # {}
  /\ key # None => ~ \E s \in Seg : seg[s].used /\ seg[s].key = key /\ ~seg[s].gone
  /\ LET new == CHOOSE s \in UnusedSegs : \A t \in UnusedSegs : s <= t
     IN  \E pg \in free :
           /\ seg' = [seg EXCEPT ![new] = [NoSeg EXCEPT !.used = TRUE, !.key = key, !.page = pg]]
           /\ free' = free \ {pg}
  /\ UNCHANGED <<proc, att>>

(* shmat: room is FALSE when the page table has none.                      *)
Shmat(p, s, room) ==
  /\ May(p, "shm") /\ seg[s].used /\ ~seg[s].gone
  /\ Gaps(proc[p].mmap, 1) # {}
  /\ LET va == Place(proc[p].mmap, 1)
         m == Mmapped(p, va, 1, "shm")
         f == IF room THEN Mapped(m, {p}, va, seg[s].page) ELSE m
     IN  IF room /\ Cardinality(att) < NAttach
         THEN /\ Become(f)
              /\ att' = att \cup {<<p, s, va>>}
              /\ seg' = [seg EXCEPT ![s].attach = @ + 1]
         ELSE Become(Munmapped(f, p, va, 1)) /\ UNCHANGED <<seg, att>>

Last(s) == seg[s].gone /\ seg[s].attach = 1

Shmdt(p, s, va) ==
  /\ May(p, "shm") /\ <<p, s, va>> \in att
  /\ att' = att \ {<<p, s, va>>}
  /\ LET m == Munmapped(Now, p, va, 1)
     IN  IF Last(s)
         THEN /\ Become(Gave(m, {seg[s].page}))
              /\ seg' = [seg EXCEPT ![s] = NoSeg]
         ELSE /\ Become(m)
              /\ seg' = [seg EXCEPT ![s].attach = @ - 1]

(* shmctl IPC_RMID.                                                        *)
Shmrm(p, s) ==
  /\ May(p, "shm") /\ seg[s].used /\ ~seg[s].gone
  /\ IF seg[s].attach = 0
     THEN seg' = [seg EXCEPT ![s] = NoSeg] /\ free' = free \cup {seg[s].page}
     ELSE seg' = [seg EXCEPT ![s].gone = TRUE] /\ UNCHANGED free
  /\ UNCHANGED <<proc, att>>

-----------------------------------------------------------------------------
(* The end of an address space.                                            *)

(* proc_exec_target and exec_destroy_old_vm: a new space, then the old     *)
(* pages are freed unless they belong to another process.                  *)
Exec(p) ==
  /\ May(p, "exec") /\ Alone(p) /\ Detached(p)
  /\ \E pg \in free :
       LET new == [Unused EXCEPT !.at = "user", !.owner = p, !.heap = 1,
                                 !.pte = [NoSpace EXCEPT ![Heap] = pg]]
       IN  Become(Gave(Took([Now EXCEPT !.proc[p] = new], pg),
                       IF proc[p].shared THEN {} ELSE Own(Now, p)))
  /\ UNCHANGED <<seg, att>>

(* The scheduler frees a thread as soon as it has left its stack; other    *)
(* processes wait for their parent.                                        *)
Exited(p) ==
  LET m == [Now EXCEPT !.proc[p].at = "zombie", !.proc[p].pending = FALSE]
  IN  IF proc[p].shared THEN Freed(m, p) ELSE m

Exit(p) ==
  /\ May(p, "exit") /\ Alone(p) /\ Detached(p)
  /\ Become(Exited(p))
  /\ UNCHANGED <<seg, att>>

(* proc_exit_group_if_requested.                                           *)
Obey(p) ==
  /\ proc[p].at = "user" /\ proc[p].pending
  /\ Become(Exited(p))
  /\ UNCHANGED <<seg, att>>

(* proc_signal_group_exit.                                                 *)
Group(p) ==
  {q \in Live(Now, p) \ {p} : proc[q].group /\ (q = proc[p].owner \/ proc[q].shared)}
(* Variant: only the leader is marked.                                     *)
SignalFirst(p) ==
  [Now EXCEPT !.proc = [q \in Slot |->
     IF q = p THEN [proc[q] EXCEPT !.at = "loop"]
     ELSE IF q \in Group(p) /\ q = proc[p].owner THEN [proc[q] EXCEPT !.pending = TRUE] ELSE proc[q]]]

(* The siblings are marked and the caller waits.                           *)
Signal(p) ==
  [Now EXCEPT !.proc = [q \in Slot |->
     IF q = p THEN [proc[q] EXCEPT !.at = "loop"]
     ELSE IF q \in Group(p) THEN [proc[q] EXCEPT !.pending = TRUE] ELSE proc[q]]]

(* exit_group, and each turn of its loop.                                  *)
ExitGroup(p) ==
  /\ \/ May(p, "exit") /\ proc[p].group /\ Detached(p)
        /\ (Orderly => Members(Now, p) = Group(p) \cup {p})
     \/ proc[p].at = "loop"
  /\ Become(IF Group(p) = {} THEN Exited(p) ELSE Signal(p))
  /\ UNCHANGED <<seg, att>>

(* wait4 of the parent.                                                    *)
Reap(p) ==
  /\ proc[p].at = "zombie"
  /\ Orderly => Members(Now, p) = {p}
  /\ Become(Freed(Now, p))
  /\ UNCHANGED <<seg, att>>

Call(p) ==
  \/ Fork(p) \/ \E thread \in BOOLEAN, done \in SUBSET Va : Clone(p, thread, done)
  \/ Grow(p) \/ Shrink(p)
  \/ \E va \in Area : \E full \in SUBSET Holes(Now, Live(Now, p), va) : Touch(p, va, full)
  \/ \E n \in 1 .. NMap, perm \in Prot :
       \/ Mmap(p, n, perm)
       \/ \E b \in 1 .. NMap + 1 - n :
            MmapFixed(p, b, n, perm) \/ Munmap(p, b, n) \/ Mprotect(p, b, n, perm)
  \/ \E perm \in Prot, readable \in BOOLEAN : MmapFile(p, perm, readable)
  \/ \E key \in {"key", None} : Shmget(p, key)
  \/ \E s \in Seg :
       \/ Shmrm(p, s) \/ \E room \in BOOLEAN : Shmat(p, s, room)
       \/ \E va \in Area : Shmdt(p, s, va)
  \/ Exec(p) \/ Exit(p)

Next == \E p \in Slot : Call(p) \/ Obey(p) \/ ExitGroup(p) \/ Reap(p)

Spec == Init /\ [][Next]_vars

-----------------------------------------------------------------------------
(* Properties.                                                             *)

(* No page is lost, none is free while it is mapped or belongs to a        *)
(* segment, and no page is in two address spaces or twice in one, except   *)
(* that of a segment.                                                      *)
InUse == {proc[p].pte[va] : p \in Slot, va \in Va} \ {None}
PagesExact ==
  /\ free = Page \ (InUse \cup SegPages)
  /\ \A s, t \in Seg : s # t /\ seg[s].used /\ seg[t].used => seg[s].page # seg[t].page
  /\ \A p, q \in Slot, va, vb \in Va :
       proc[p].pte[va] # None /\ proc[p].pte[va] = proc[q].pte[vb] /\ ~Shm(proc[p].pte[va])
         => va = vb /\ proc[p].owner = proc[q].owner

(* The processes of one address space agree about it; regions are disjoint *)
(* and cannot be merged further; a page of the area is mapped only in a    *)
(* region, that of the heap exactly below its top; the references of a     *)
(* segment are its attachments.                                            *)
Lives(p) == proc[p].at \in {"user", "loop"}
SpacesSound ==
  /\ \A p \in Slot : \A q \in Members(Now, p) : Lives(p) /\ Lives(q) =>
       /\ proc[p].mmap = proc[q].mmap /\ proc[p].heap = proc[q].heap
       /\ \A va \in Va : Cardinality(Pages(Now, {p, q}, va)) <= 1
  /\ \A p \in Slot : Lives(p) =>
       /\ \A r, x \in proc[p].mmap : r # x => ~Overlaps(r, x.b, x.e) /\ ~(r.e = x.b /\ r.perm = x.perm)
       /\ \A va \in Area : proc[p].pte[va] # None => Covers(proc[p].mmap, va)
       /\ proc[p].heap = 1 <=> proc[p].pte[Heap] # None
  /\ \A s \in Seg :
       /\ seg[s].attach = Cardinality({a \in att : a[2] = s})
       /\ seg[s].gone => seg[s].used /\ seg[s].attach > 0

(* exit_group waits only for threads that will end at their next trap, so  *)
(* it returns: nobody waits for a thread that waits itself.                *)
GroupDies ==
  \A p \in Slot : proc[p].at = "loop" =>
    /\ ~proc[p].pending
    /\ \A q \in Group(p) : proc[q].at = "user" /\ proc[q].pending
=============================================================================
