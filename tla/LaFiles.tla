------------------------------ MODULE LaFiles -------------------------------
(***************************************************************************)
(* Descriptors, pipes and the in-memory file system of the LoongArch port  *)
(* (memfs_la.c, loongarch/syscall.c).  One CPU, interrupts off: a system   *)
(* call is one step up to the point where it sleeps.  Every descriptor has *)
(* an offset of its own; threads hold copies of the table of their group.  *)
(***************************************************************************)
EXTENDS Integers, Sequences, FiniteSets, FiniteSetsExt, SequencesExt

CONSTANTS
  Proc,      \* slots of the process table
  Path,      \* bound: paths, sequences of names
  Long,      \* the paths that need a page: MEMFS_INLINE_NAME and more
  Hash(_),   \* memfs_hash_path
  NFd,       \* LA_NFD, or the limit on open files
  NNode,     \* MEMFS_MAX_INODES
  NPipe,     \* LA_NPIPE
  NMem,      \* pages of memory
  PgSize,    \* LA_PGSIZE
  SmallSize, \* MEMFS_SMALL_DATA_SIZE, a divisor of PgSize
  NSmall,    \* MEMFS_SMALL_MAX_PAGES
  Ptrs,      \* MEMFS_PAGE_PTRS_PER_TABLE
  NTable,    \* MEMFS_PAGE_TABLES
  PipeSize,  \* LA_PIPE_SIZE
  Wrap,      \* nread and nwrite are counted modulo 2^32
  MaxLink,   \* links la_memfs_lookup_follow follows
  Flags,     \* bound: sets of flags of open
  Seek,      \* bound: offsets lseek ends at
  MaxLen,    \* bound: bytes in one call
  Kinds,     \* bound: groups of operations that happen
  Orderly,   \* environment: see Roomy, Lone and Quiet
  None

Fd == 0 .. NFd - 1
Node == 1 .. NNode
Pipe == 1 .. NPipe
Mem == 1 .. NMem
FilePage == 0 .. Ptrs * NTable - 1
MaxSize == Ptrs * NTable * PgSize
Slot == 0 .. PgSize \div SmallSize - 1
Val == 0 .. 1  \* zero, and anything else
Buckets == {Hash(path) : path \in Path}

VARIABLES
  fs,    \* nodes, hash chains, small slots, pages; what each byte should be
  pipe,  \* la_pipes
  proc   \* the process table: group (who shares its page table), descriptors, call

vars == <<fs, pipe, proc>>

FreeNode == [kind |-> "none", path |-> None, to |-> None, size |-> 0, extra |-> None,
             slot |-> None, small |-> 0, table |-> [t \in 0 .. NTable - 1 |-> None],
             data |-> [q \in FilePage |-> None]]
FreePipe == [page |-> None, nread |-> 0, nwrite |-> 0, readopen |-> 0, writeopen |-> 0]
NoFd == [type |-> "none", obj |-> None, off |-> 0, writable |-> FALSE, append |-> FALSE]
NoProc == [group |-> None, fds |-> [d \in Fd |-> NoFd], call |-> None]
Zeroed == [i \in 0 .. PgSize - 1 |-> 0]
Blank == [q \in 0 .. MaxSize - 1 |-> 0]

TypeOK ==
  /\ DOMAIN fs = {"node", "chain", "spage", "sused", "mem", "told"}
  /\ fs.node \in [Node -> [kind : {"none", "file", "dir", "link"}, path : Path \cup {None},
                           to : Path \cup {None}, size : 0 .. MaxSize, extra : Mem \cup {None},
                           slot : ((0 .. NSmall - 1) \X Slot) \cup {None}, small : 0 .. SmallSize,
                           table : [0 .. NTable - 1 -> Mem \cup {None}],
                           data : [FilePage -> Mem \cup {None}]]]
  /\ fs.sused \in [0 .. NSmall - 1 -> SUBSET Slot]
  /\ fs.told \in [Node -> [0 .. MaxSize - 1 -> Val \cup {None}]]
  /\ pipe \in [Pipe -> [page : Mem \cup {None}, nread : 0 .. Wrap - 1, nwrite : 0 .. Wrap - 1,
                        readopen : 0 .. Cardinality(Proc) * NFd,
                        writeopen : 0 .. Cardinality(Proc) * NFd]]
  /\ \A p \in Proc :
       /\ proc[p].group \in Proc \cup {None}
       /\ \A d \in Fd : proc[p].fds[d] \in
            [type : {"none", "mem", "pipe", "other"}, obj : Node \cup Pipe \cup {None},
             off : 0 .. MaxSize, writable : BOOLEAN, append : BOOLEAN]
       /\ proc[p].call # None =>
            proc[p].call \in [op : {"read", "write"}, pipe : Pipe, left : 0 .. PipeSize + 1,
                              asleep : BOOLEAN]

(* memfs_init; the root directory is not modelled.                         *)
Init ==
  /\ fs = [node |-> [n \in Node |-> FreeNode], chain |-> [b \in Buckets |-> <<>>],
           spage |-> [i \in 0 .. NSmall - 1 |-> None], sused |-> [i \in 0 .. NSmall - 1 |-> {}],
           mem |-> [g \in Mem |-> None], told |-> [n \in Node |-> Blank]]
  /\ pipe = [i \in Pipe |-> FreePipe]
  /\ \E p \in Proc : proc = [q \in Proc |-> IF q = p THEN [NoProc EXCEPT !.group = p] ELSE NoProc]

-----------------------------------------------------------------------------
(* Memory, in a state s of fs.  Which free page or slot is taken does not  *)
(* matter.  la_pmem_alloc zeroes what it gives.                            *)

FreeMem(s) == {g \in Mem : s.mem[g] = None}
Next1(s) == Min(FreeMem(s))
Took(s) == [s EXCEPT !.mem[Next1(s)] = Zeroed]
Gave(s, pages) == [s EXCEPT !.mem = [g \in Mem |-> IF g \in pages THEN None ELSE @[g]]]

(* memfs_alloc_small_slot: a slot keeps what its last owner left in it.    *)
WithSlot(s, n) ==
  LET open == {i \in 0 .. NSmall - 1 : s.sused[i] # Slot}
      i == Min(open)
      k == Min(Slot \ s.sused[i])
      t == IF s.spage[i] = None THEN [Took(s) EXCEPT !.spage[i] = Next1(s)] ELSE s
  IN  CASE s.node[n].slot # None -> [ok |-> TRUE, s |-> s]
        [] s.node[n].slot = None /\ (open = {} \/ (s.spage[i] = None /\ FreeMem(s) = {})) ->
             [ok |-> FALSE, s |-> s]
        [] OTHER -> [ok |-> TRUE,
                     s |-> [t EXCEPT !.sused[i] = @ \cup {k}, !.node[n].slot = <<i, k>>,
                                     !.node[n].small = 0]]

(* memfs_free_small_data and memfs_free_small_slot.                        *)
WithoutSlot(s, n) ==
  LET i == s.node[n].slot[1]
      left == s.sused[i] \ {s.node[n].slot[2]}
      t == [s EXCEPT !.sused[i] = left, !.node[n].slot = None, !.node[n].small = 0]
  IN  IF s.node[n].slot = None THEN s
      ELSE IF left # {} THEN t
      ELSE [Gave(t, {s.spage[i]}) EXCEPT !.spage[i] = None]

(* A fresh page put at page q of the file with memfs_set_data_page; the    *)
(* page goes back when there is none for its table.                        *)
WithPage(s, n, q) ==
  LET t == q \div Ptrs
      one == [Took(s) EXCEPT !.node[n].data[q] = Next1(s)]
  IN  CASE s.node[n].data[q] # None -> [ok |-> TRUE, s |-> s]
        [] s.node[n].data[q] = None /\ s.node[n].table[t] # None /\ FreeMem(s) # {} ->
             [ok |-> TRUE, s |-> one]
        [] s.node[n].table[t] = None /\ Cardinality(FreeMem(s)) >= 2 ->
             [ok |-> TRUE, s |-> [Took(one) EXCEPT !.node[n].table[t] = Next1(one)]]
        [] OTHER -> [ok |-> FALSE, s |-> s]

HasPages(s, n) == \E t \in DOMAIN s.node[n].table : s.node[n].table[t] # None

(* A byte of the small slot of a node.                                     *)
InSlot(s, n, q) == s.mem[s.spage[s.node[n].slot[1]]][s.node[n].slot[2] * SmallSize + q]

(* memfs_promote_small_data.                                               *)
Promoted(s, n) ==
  LET x == WithPage(s, n, 0)
      filled == [x.s EXCEPT !.mem[x.s.node[n].data[0]] =
                   [i \in 0 .. PgSize - 1 |-> IF i < s.node[n].small THEN InSlot(s, n, i) ELSE 0]]
  IN  CASE s.node[n].slot = None -> [ok |-> TRUE, s |-> s]
        [] s.node[n].slot # None /\ x.ok -> [ok |-> TRUE, s |-> WithoutSlot(filled, n)]
        [] OTHER -> x

(* memfs_free_file_pages.                                                  *)
WithoutPages(s, n) ==
  LET t == WithoutSlot(s, n)
      held == {t.node[n].table[i] : i \in DOMAIN t.node[n].table}
                \cup {t.node[n].data[q] : q \in FilePage}
  IN  [Gave(t, held) EXCEPT !.node[n].table = FreeNode.table, !.node[n].data = FreeNode.data]

(* memfs_truncate.                                                         *)
Truncated(s, n) ==
  IF s.node[n].kind # "file" THEN s
  ELSE [WithoutPages(s, n) EXCEPT !.node[n].size = 0, !.told[n] = Blank]

(* memfs_read of one byte.                                                 *)
ReadByte(s, n, q) ==
  LET page == s.node[n].data[q \div PgSize]
  IN  CASE s.node[n].slot # None /\ q < SmallSize ->
             IF q < s.node[n].small THEN InSlot(s, n, q) ELSE 0
        [] page = None /\ (s.node[n].slot = None \/ q >= SmallSize) -> 0
        [] OTHER -> s.mem[page][q % PgSize]

(* memfs_write of len times v: sizes only for zeros in an empty file, a    *)
(* small slot, or pages, byte by byte until there is no page; the size is  *)
(* raised to where it stopped, also if it stopped at once.  A write behind *)
(* the end of what a small slot holds leaves in the hole whatever the last *)
(* owner of the slot had there (memfs_la.c:378 does not clear it): told    *)
(* forgets what those bytes should be.                                     *)
Written(s, n, from, len, v) ==
  LET room == Min({len, MaxSize - from})
      end == from + room
      slot == WithSlot(s, n)
      base == Promoted(s, n)
      put[i \in 0 .. room] ==
        IF i = 0 THEN [done |-> 0, s |-> base.s]
        ELSE LET before == put[i - 1]
                 q == from + i - 1
                 x == WithPage(before.s, n, q \div PgSize)
             IN  IF before.done < i - 1 \/ ~x.ok THEN before
                 ELSE [done |-> i,
                       s |-> [x.s EXCEPT !.mem[x.s.node[n].data[q \div PgSize]][q % PgSize] = v]]
      Ended(r) ==
        [done |-> r.done,
         s |-> [r.s EXCEPT !.node[n].size = Max({@, from + r.done}),
                           !.told[n] = [q \in DOMAIN @ |->
                             IF q \in from .. from + r.done - 1 THEN v ELSE @[q]]]]
      Base(i) == slot.s.node[n].slot[2] * SmallSize + i
      g == slot.s.spage[slot.s.node[n].slot[1]]
      hole == slot.s.node[n].small .. from - 1
  IN  CASE s.node[n].slot = None /\ ~HasPages(s, n) /\ v = 0 -> Ended([done |-> room, s |-> s])
        [] (s.node[n].slot # None \/ v # 0) /\ end <= SmallSize /\ ~HasPages(s, n) ->
             IF ~slot.ok THEN [done |-> 0, s |-> s]
             ELSE Ended([done |-> room,
                         s |-> [slot.s EXCEPT
                                  !.mem[g] = [j \in DOMAIN @ |->
                                    IF j \in Base(from) .. Base(end) - 1 THEN v ELSE @[j]],
                                  !.node[n].small = Max({@, end}),
                                  !.told[n] = [q \in DOMAIN @ |->
                                    IF q \in hole THEN None ELSE @[q]]]])
        [] OTHER -> IF base.ok THEN Ended(put[room]) ELSE [done |-> 0, s |-> s]

-----------------------------------------------------------------------------
(* Names.                                                                  *)

Live(s) == {n \in Node : s.node[n].kind # "none"}

(* memfs_lookup, as a set.                                                 *)
Found(s, path) ==
  LET chain == s.chain[Hash(path)]
      hits == {i \in DOMAIN chain : s.node[chain[i]].path = path}
  IN  IF hits = {} THEN {} ELSE {chain[Min(hits)]}

(* la_memfs_lookup_follow.                                                 *)
Followed(s, path) ==
  LET to[i \in 0 .. MaxLink, q \in Path] ==
        IF i = 0 \/ Found(s, q) = {} THEN {}
        ELSE LET n == Min(Found(s, q))
             IN  IF s.node[n].kind = "link" THEN to[i - 1, s.node[n].to] ELSE {n}
  IN  to[MaxLink, path]

(* memfs_hash_insert and memfs_hash_remove.                                *)
Hashed(s, n) == [s EXCEPT !.chain[Hash(s.node[n].path)] = <<n>> \o @]
Unhashed(s, n) ==
  IF s.node[n].path = None THEN s
  ELSE [s EXCEPT !.chain[Hash(s.node[n].path)] = SelectSeq(@, LAMBDA k : k # n)]

(* memfs_clear_inode_path and memfs_set_inode_path.                        *)
Nameless(s, n) == [Gave(s, {s.node[n].extra}) EXCEPT !.node[n].extra = None, !.node[n].path = None]
CanName(s, n, path) == path \in Long /\ s.node[n].extra = None => FreeMem(s) # {}
NamedAs(s, n, path) ==
  LET t == IF path \notin Long THEN Nameless(s, n)
           ELSE IF s.node[n].extra # None THEN s
           ELSE [Took(s) EXCEPT !.node[n].extra = Next1(s)]
  IN  [t EXCEPT !.node[n].path = path]

(* memfs_create.                                                           *)
CanCreate(s, path) ==
  Live(s) # Node /\ CanName(s, Min(Node \ Live(s)), path)
Created(s, path, kind) ==
  LET n == Min(Node \ Live(s))
  IN  Hashed([NamedAs([s EXCEPT !.node[n] = FreeNode], n, path) EXCEPT !.node[n].kind = kind], n)

(* memfs_unlink_inode and memfs_reclaim_inode.                             *)
Unlinked(s, n) == Nameless(Unhashed(s, n), n)
Reclaimed(s, n) ==
  [Nameless(WithoutPages(Unhashed(s, n), n), n) EXCEPT !.node[n] = FreeNode, !.told[n] = Blank]

(* memfs_rename: the node, then whatever lies below it.                    *)
Moved(s, n, path) == Hashed(NamedAs(Unhashed(s, n), n, path), n)
Below(s, path) ==
  {k \in Live(s) : s.node[k].path # None /\ IsStrictPrefix(path, s.node[k].path)}
Renamed(s, n, new) ==
  LET old == s.node[n].path
      Under(t, k) ==
        Moved(t, k, new \o SubSeq(t.node[k].path, Len(old) + 1, Len(t.node[k].path)))
      t == Moved(s, n, new)
  IN  IF s.node[n].kind # "dir" THEN t
      ELSE FoldLeft(Under, t, SetToSortSeq(Below(t, old) \ {n}, <))

-----------------------------------------------------------------------------
(* Descriptors.  A record m of the variables is changed by one operation   *)
(* after another.                                                          *)

Now == [fs |-> fs, pipe |-> pipe, proc |-> proc]
Become(m) == fs' = m.fs /\ pipe' = m.pipe /\ proc' = m.proc

Group(m, p) == {q \in Proc : m.proc[q].group # None /\ m.proc[q].group = m.proc[p].group}

(* la_fd_publish_group and la_fd_clear_group.                              *)
Spread(m, p, d, fd) ==
  [m EXCEPT !.proc = [q \in Proc |->
     IF q \in Group(m, p) THEN [@[q] EXCEPT !.fds[d] = fd] ELSE @[q]]]

(* la_memfs_fd_refs: descriptors on a node.                                *)
FdRefs(m, n) ==
  {<<q, d>> \in Proc \X Fd : /\ m.proc[q].group # None
                             /\ m.proc[q].fds[d].type = "mem" /\ m.proc[q].fds[d].obj = n}

(* The end of sys_close: a node without a name goes with its last descriptor. *)
ReclaimedIfLast(m, fd) ==
  IF /\ fd.type = "mem"
     /\ m.fs.node[fd.obj].kind # "none" /\ m.fs.node[fd.obj].path = None
     /\ FdRefs(m, fd.obj) = {}
  THEN [m EXCEPT !.fs = Reclaimed(@, fd.obj)] ELSE m

(* la_proc_wakeup_chan on one of the channels of a pipe.                   *)
Woken(m, i, op) ==
  [m EXCEPT !.proc = [q \in Proc |->
     IF @[q].call # None /\ @[q].call.op = op /\ @[q].call.pipe = i
     THEN [@[q] EXCEPT !.call.asleep = FALSE] ELSE @[q]]]

(* la_pipe_close_end and la_pipe_free.                                     *)
EndClosed(m, fd) ==
  LET i == fd.obj
      c == IF fd.writable THEN [m EXCEPT !.pipe[i].writeopen = @ - 1]
           ELSE [m EXCEPT !.pipe[i].readopen = @ - 1]
      w == IF fd.writable /\ c.pipe[i].writeopen = 0 THEN Woken(c, i, "read")
           ELSE IF ~fd.writable /\ c.pipe[i].readopen = 0 THEN Woken(c, i, "write")
           ELSE c
  IN  IF fd.type # "pipe" THEN m
      ELSE IF c.pipe[i].readopen = 0 /\ c.pipe[i].writeopen = 0
      THEN [w EXCEPT !.pipe[i] = FreePipe, !.fs = Gave(@, {m.pipe[i].page})]
      ELSE w

(* The reference a copy of a descriptor takes; la_pipe_dup_all takes all.  *)
Dupped(m, fd) ==
  IF fd.type # "pipe" THEN m
  ELSE IF fd.writable THEN [m EXCEPT !.pipe[fd.obj].writeopen = @ + 1]
  ELSE [m EXCEPT !.pipe[fd.obj].readopen = @ + 1]
DuppedAll(m, fds) == FoldLeft(LAMBDA x, d : Dupped(x, fds[d]), m, SetToSortSeq(Fd, <))

(* sys_close.                                                              *)
Closed(m, p, d) ==
  LET fd == m.proc[p].fds[d]
  IN  ReclaimedIfLast(Spread(EndClosed(m, fd), p, d, NoFd), fd)

(* la_close_process_fds.                                                   *)
ClosedAll(m, p) ==
  LET One(x, d) ==
        LET fd == x.proc[p].fds[d]
        IN  ReclaimedIfLast([EndClosed(x, fd) EXCEPT !.proc[p].fds[d] = NoFd], fd)
  IN  FoldLeft(One, m, SetToSortSeq(Fd, <))

Idle(p) == proc[p].group # None /\ proc[p].call = None
FdOf(p, d) == proc[p].fds[d]
Unused(p, least) == {d \in least .. NFd - 1 : FdOf(p, d).type = "none"}

(* Environment: nobody of the group is in a call on the pipe of a          *)
(* descriptor that is closed.                                              *)
Quiet(p, d) ==
  Orderly /\ FdOf(p, d).type = "pipe" =>
    \A q \in Group(Now, p) : proc[q].call # None => proc[q].call.pipe # FdOf(p, d).obj

-----------------------------------------------------------------------------
(* System calls on descriptors.                                            *)

(* sys_open.  Without a descriptor the file has been created or truncated. *)
Open(p, path, flags) ==
  LET hit == Found(fs, path)
      last == IF hit # {} /\ fs.node[Min(hit)].kind = "link" THEN Followed(fs, path) ELSE hit
      made == hit = {}
      s == CASE made -> Created(fs, path, "file")
             [] ~made /\ "trunc" \in flags -> Truncated(fs, Min(last))
             [] OTHER -> fs
      n == IF made THEN Min(Found(s, path)) ELSE Min(last)
      m == [Now EXCEPT !.fs = s]
      fd == [type |-> "mem", obj |-> n, off |-> 0, writable |-> made \/ "w" \in flags,
             append |-> "append" \in flags]
  IN  /\ "name" \in Kinds /\ Idle(p)
      /\ made => "create" \in flags /\ CanCreate(fs, path)
      /\ ~made => last # {}
      /\ Become(IF Unused(p, 0) = {} THEN m ELSE Spread(m, p, Min(Unused(p, 0)), fd))

(* A device, a file of /proc or of the disk.                               *)
OpenOther(p) ==
  /\ "table" \in Kinds /\ Idle(p) /\ Unused(p, 0) # {}
  /\ Become(Spread(Now, p, Min(Unused(p, 0)), [NoFd EXCEPT !.type = "other"]))

Close(p, d) ==
  /\ Idle(p) /\ FdOf(p, d).type # "none" /\ Quiet(p, d)
  /\ Become(Closed(Now, p, d))

(* sys_dup, and sys_fcntl with F_DUPFD.                                    *)
Dup(p, d, least) ==
  /\ "table" \in Kinds /\ Idle(p) /\ FdOf(p, d).type # "none" /\ Unused(p, least) # {}
  /\ Become(Spread(Dupped(Now, FdOf(p, d)), p, Min(Unused(p, least)), FdOf(p, d)))

Dup3(p, d, to) ==
  LET m == IF FdOf(p, to).type = "none" THEN Now ELSE Closed(Now, p, to)
  IN  /\ "table" \in Kinds /\ Idle(p) /\ FdOf(p, d).type # "none" /\ d # to /\ Quiet(p, to)
      /\ Become(Spread(Dupped(m, FdOf(p, d)), p, to, FdOf(p, d)))

(* sys_fcntl with F_SETFL.                                                 *)
SetAppend(p, d, on) ==
  /\ "data" \in Kinds /\ Idle(p) /\ FdOf(p, d).type = "mem"
  /\ Become(Spread(Now, p, d, [FdOf(p, d) EXCEPT !.append = on]))

OnMem(p, d) == "data" \in Kinds /\ Idle(p) /\ FdOf(p, d).type = "mem"
WithOff(p, d, off) == proc' = [proc EXCEPT ![p].fds[d].off = off]

(* sys_lseek, the result of its arithmetic.                                *)
Lseek(p, d, off) == OnMem(p, d) /\ WithOff(p, d, off) /\ UNCHANGED <<fs, pipe>>

Read(p, d, len) ==
  LET n == FdOf(p, d).obj
      size == fs.node[n].size
  IN  /\ OnMem(p, d) /\ fs.node[n].kind = "file" /\ FdOf(p, d).off < size
      /\ WithOff(p, d, Min({FdOf(p, d).off + len, size}))
      /\ UNCHANGED <<fs, pipe>>

(* sys_write of at most a page.                                            *)
Write(p, d, len, v) ==
  LET n == FdOf(p, d).obj
      from == IF FdOf(p, d).append THEN fs.node[n].size ELSE FdOf(p, d).off
      w == Written(fs, n, from, len, v)
  IN  /\ OnMem(p, d) /\ FdOf(p, d).writable /\ fs.node[n].kind = "file" /\ from < MaxSize
      /\ fs' = w.s
      /\ WithOff(p, d, from + w.done)
      /\ UNCHANGED pipe

(* sys_ftruncate does not look at the length.                              *)
Ftruncate(p, d) ==
  /\ OnMem(p, d)
  /\ fs' = Truncated(fs, FdOf(p, d).obj)
  /\ UNCHANGED <<pipe, proc>>

-----------------------------------------------------------------------------
(* System calls on names.                                                  *)

Changes(s) == fs' = s /\ UNCHANGED <<pipe, proc>>

(* sys_unlinkat, for directories as well, empty or not.                    *)
Unlink(path) ==
  /\ "name" \in Kinds /\ Found(fs, path) # {}
  /\ LET n == Min(Found(fs, path))
     IN  Changes(IF FdRefs(Now, n) # {} THEN Unlinked(fs, n) ELSE Reclaimed(fs, n))

(* Environment: there is memory for the new name of all that moves, and    *)
(* nothing is in its way.                                                  *)
Roomy(n, new) ==
  LET old == fs.node[n].path
      moved == {n} \cup IF fs.node[n].kind = "dir" THEN Below(fs, old) ELSE {}
      After(k) == new \o SubSeq(fs.node[k].path, Len(old) + 1, Len(fs.node[k].path))
  IN  /\ \A k \in moved : After(k) \in Path
      /\ Orderly =>
           /\ Cardinality(moved) <= Cardinality(FreeMem(fs)) \/ \A k \in moved : After(k) \notin Long
           /\ \A k \in moved : Found(fs, After(k)) = {}
           /\ ~IsPrefix(old, new)

(* sys_renameat never replaces.                                            *)
Rename(old, new) ==
  /\ "name" \in Kinds /\ Found(fs, old) # {} /\ Found(fs, new) = {}
  /\ Roomy(Min(Found(fs, old)), new)
  /\ Changes(Renamed(fs, Min(Found(fs, old)), new))

Mkdir(path) ==
  /\ "link" \in Kinds /\ Found(fs, path) = {} /\ CanCreate(fs, path)
  /\ Changes(Created(fs, path, "dir"))

(* sys_symlinkat: the target is data of the link.                          *)
Symlink(path, to) ==
  /\ "link" \in Kinds /\ Found(fs, path) = {} /\ CanCreate(fs, path)
  /\ LET s == Created(fs, path, "link")
         n == Min(Found(s, path))
         w == Written(s, n, 0, 1, 1)
     IN  Changes(IF w.done = 1 THEN [w.s EXCEPT !.node[n].to = to] ELSE Reclaimed(w.s, n))

-----------------------------------------------------------------------------
(* Pipes.                                                                  *)

(* sys_pipe2: both descriptors or none.                                    *)
Pipe2(p) ==
  LET free == {i \in Pipe : pipe[i].page = None}
      i == Min(free)
      r == Min(Unused(p, 0))
      w == Min(Unused(p, 0) \ {r})
      m == [Now EXCEPT !.fs = Took(@),
                       !.pipe[i] = [FreePipe EXCEPT !.page = Next1(fs), !.readopen = 1,
                                                    !.writeopen = 1]]
      fd == [NoFd EXCEPT !.type = "pipe", !.obj = i]
  IN  /\ "pipe" \in Kinds /\ Idle(p) /\ free # {} /\ FreeMem(fs) # {}
      /\ Cardinality(Unused(p, 0)) >= 2
      /\ Become(Spread(Spread(m, p, r, fd), p, w, [fd EXCEPT !.writable = TRUE]))

Filled(i) == (pipe[i].nwrite - pipe[i].nread) % Wrap

(* sys_read: the loop until there is a byte or no writer.                  *)
PipeRead(p, i, len) ==
  IF pipe[i].nread = pipe[i].nwrite /\ pipe[i].writeopen > 0
  THEN /\ proc' = [proc EXCEPT ![p].call = [op |-> "read", pipe |-> i, left |-> len, asleep |-> TRUE]]
       /\ UNCHANGED <<fs, pipe>>
  ELSE LET n == Min({len, Filled(i)})
           m == [Now EXCEPT !.pipe[i].nread = (@ + n) % Wrap, !.proc[p].call = None]
       IN  Become(IF n = 0 THEN m ELSE Woken(m, i, "write"))

(* sys_write: the loop until all is written, the pipe full, or no reader.  *)
PipeWrite(p, i, len) ==
  LET n == IF pipe[i].readopen = 0 THEN 0 ELSE Min({len, PipeSize - Filled(i)})
      m == [Now EXCEPT !.pipe[i].nwrite = (@ + n) % Wrap,
                       !.proc[p].call = IF pipe[i].readopen = 0 \/ n = len THEN None
                                        ELSE [op |-> "write", pipe |-> i, left |-> len - n,
                                              asleep |-> TRUE]]
  IN  Become(IF n = 0 /\ pipe[i].readopen > 0 THEN m ELSE Woken(m, i, "read"))

ReadPipe(p, d, len) ==
  /\ "pipe" \in Kinds /\ Idle(p) /\ FdOf(p, d).type = "pipe" /\ ~FdOf(p, d).writable
  /\ PipeRead(p, FdOf(p, d).obj, len)
WritePipe(p, d, len) ==
  /\ "pipe" \in Kinds /\ Idle(p) /\ FdOf(p, d).type = "pipe" /\ FdOf(p, d).writable
  /\ PipeWrite(p, FdOf(p, d).obj, len)

(* A process that was woken goes on where it slept.                        *)
Resume(p) ==
  /\ proc[p].call # None /\ ~proc[p].call.asleep
  /\ IF proc[p].call.op = "read" THEN PipeRead(p, proc[p].call.pipe, proc[p].call.left)
     ELSE PipeWrite(p, proc[p].call.pipe, proc[p].call.left)

(* A signal wakes it, and it gives up.                                     *)
Signal(p) ==
  /\ proc[p].call # None
  /\ proc' = [proc EXCEPT ![p].call = None]
  /\ UNCHANGED <<fs, pipe>>

-----------------------------------------------------------------------------
(* Processes.                                                              *)

Fork(p, q) ==
  /\ "proc" \in Kinds /\ Idle(p) /\ proc[q].group = None
  /\ Become([DuppedAll(Now, proc[p].fds) EXCEPT
               !.proc[q] = [NoProc EXCEPT !.group = q, !.fds = proc[p].fds]])

(* sys_clone of a thread.  It takes references nobody gives back: in the   *)
(* environment a process has no pipe when it makes a thread.               *)
Clone(p, q) ==
  /\ "proc" \in Kinds /\ Idle(p) /\ proc[q].group = None
  /\ Orderly => \A d \in Fd : FdOf(p, d).type # "pipe"
  /\ \A g \in Proc : proc[g].group # None => proc[g].group # q
  /\ Become([DuppedAll(Now, proc[p].fds) EXCEPT
               !.proc[q] = [NoProc EXCEPT !.group = proc[p].group, !.fds = proc[p].fds]])

(* Environment: a process outlives its threads.                            *)
Lone(p) == Orderly /\ proc[p].group = p => Group(Now, p) = {p}

(* sys_exit: a thread closes nothing.  The last process is not followed.   *)
Exit(p) ==
  /\ "proc" \in Kinds /\ Idle(p) /\ Lone(p)
  /\ Become([(IF proc[p].group = p THEN ClosedAll(Now, p) ELSE Now) EXCEPT !.proc[p] = NoProc])

Next ==
  \/ \E p \in Proc, path \in Path, flags \in Flags : Open(p, path, flags)
  \/ \E p \in Proc : OpenOther(p) \/ Pipe2(p) \/ Resume(p) \/ Signal(p) \/ Exit(p)
  \/ \E p \in Proc, d \in Fd : Close(p, d) \/ Ftruncate(p, d)
  \/ \E p \in Proc, d, to \in Fd : Dup(p, d, to) \/ Dup3(p, d, to)
  \/ \E p \in Proc, d \in Fd, on \in BOOLEAN : SetAppend(p, d, on)
  \/ \E p \in Proc, d \in Fd, off \in Seek : Lseek(p, d, off)
  \/ \E p \in Proc, d \in Fd, len \in 1 .. MaxLen :
       \/ Read(p, d, len) \/ ReadPipe(p, d, len) \/ WritePipe(p, d, len)
       \/ \E v \in Val : Write(p, d, len, v)
  \/ \E path \in Path : Unlink(path) \/ Mkdir(path)
  \/ \E old, new \in Path : Rename(old, new) \/ Symlink(old, new)
  \/ \E p, q \in Proc : Fork(p, q) \/ Clone(p, q)

-----------------------------------------------------------------------------
(* The pages somebody holds, each as often as it is held.                  *)
Held ==
  {<<n, "x", 0, fs.node[n].extra>> : n \in Node}
    \cup {<<n, "t", t, fs.node[n].table[t]>> : n \in Node, t \in 0 .. NTable - 1}
    \cup {<<n, "d", q, fs.node[n].data[q]>> : n \in Node, q \in FilePage}
    \cup {<<0, "s", i, fs.spage[i]>> : i \in 0 .. NSmall - 1}
    \cup {<<0, "p", i, pipe[i].page>> : i \in Pipe}

(* An open file keeps its node, a node lives exactly while it has a name   *)
(* or is open, it is found under its name and nothing else is, every page  *)
(* and every small slot has one owner or none, and a file reads as it was  *)
(* written last, or as zero where nobody wrote - but for the holes in a    *)
(* small slot, of which HolesReadZero speaks.                              *)
FilesSound ==
  /\ \A p \in Proc, d \in Fd :
       proc[p].group # None /\ FdOf(p, d).type = "mem" => FdOf(p, d).obj \in Live(fs)
  /\ \A n \in Live(fs) : fs.node[n].path = None => FdRefs(Now, n) # {}
  /\ \A n \in Live(fs) : fs.node[n].path # None => Found(fs, fs.node[n].path) = {n}
  /\ \A b \in Buckets : /\ IsInjective(fs.chain[b])
                        /\ \A n \in Range(fs.chain[b]) : n \in Live(fs) /\ fs.node[n].path # None
  /\ \A g \in Mem : Cardinality({h \in Held : h[4] = g}) = (IF fs.mem[g] = None THEN 0 ELSE 1)
  /\ \A i \in 0 .. NSmall - 1, k \in Slot :
       Cardinality({n \in Live(fs) : fs.node[n].slot = <<i, k>>})
         = (IF k \in fs.sused[i] THEN 1 ELSE 0)
  /\ \A i \in 0 .. NSmall - 1 : (fs.sused[i] = {}) = (fs.spage[i] = None)
  /\ \A n \in Live(fs) : \A q \in 0 .. fs.node[n].size - 1 :
       fs.told[n][q] \in {None, ReadByte(fs, n, q)}

(* A hole of a file reads as zeros, in a small slot too                    *)
(* (docs/DECISIONS.md:960).                                                *)
HolesReadZero ==
  \A n \in Live(fs) : \A q \in 0 .. fs.node[n].size - 1 :
    fs.told[n][q] = None => ReadByte(fs, n, q) = 0

(* The counts of an end of a pipe are the descriptors on it, one for each  *)
(* group; a pipe nobody has is free; and threads agree on what is open.    *)
RefsExact ==
  LET Ends(i, w) == {<<p, d>> \in Proc \X Fd :
                       /\ proc[p].group = p /\ FdOf(p, d).type = "pipe"
                       /\ FdOf(p, d).obj = i /\ FdOf(p, d).writable = w}
  IN  /\ \A i \in Pipe : /\ pipe[i].readopen = Cardinality(Ends(i, FALSE))
                         /\ pipe[i].writeopen = Cardinality(Ends(i, TRUE))
                         /\ (pipe[i] = FreePipe) = (Ends(i, FALSE) \cup Ends(i, TRUE) = {})
      /\ \A p \in Proc, d \in Fd :
           proc[p].group # None =>
             FdOf(p, d).type = FdOf(proc[p].group, d).type /\ FdOf(p, d).obj = FdOf(proc[p].group, d).obj

(* Whoever sleeps in a pipe has a reason to: there is nothing to read and  *)
(* a writer is left, or no room and a reader is left.                      *)
NothingStuck ==
  \A p \in Proc :
    proc[p].call # None /\ proc[p].call.asleep =>
      LET i == proc[p].call.pipe
      IN  IF proc[p].call.op = "read" THEN Filled(i) = 0 /\ pipe[i].writeopen > 0
          ELSE Filled(i) = PipeSize /\ pipe[i].readopen > 0
=============================================================================
