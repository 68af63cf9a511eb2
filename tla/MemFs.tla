------------------------------- MODULE MemFs --------------------------------
(***************************************************************************)
(* Descriptor tables, the file table and the in-memory file system (fs.c,  *)
(* sysfunc.c).  memfs has no locks and no call sleeps in it: on one CPU,   *)
(* where the kernel is not preempted, a call is one step.  Byte counts are *)
(* counted in pages.                                                       *)
(***************************************************************************)
EXTENDS Integers, Sequences, FiniteSets, FiniteSetsExt, SequencesExt

CONSTANTS
  Proc,      \* processes and threads
  Path,      \* normalised paths (without "")
  NFd,       \* N_OPEN_FILE_PER_PROC, or RLIMIT_NOFILE
  NFile,     \* N_FILE
  NNode,     \* MEMFS_NODES
  NExt,      \* MEMFS_EXTRA_EXTENTS
  NPage,     \* free pages of memory
  Inline,    \* MEMFS_INLINE_PAGES
  MaxPage,   \* MEMFS_LOGICAL_MAX
  MaxLink,   \* MEMFS_SYMLINK_LIMIT
  Modes,     \* bound: what files are opened for, sets of "r" and "w"
  Kinds,     \* bound: groups of operations that happen
  Orderly,   \* environment: see Alone and OpenMem
  None

Fd == 0 .. NFd - 1
File == 1 .. NFile
Node == 1 .. NNode
Ext == 1 .. NExt
Page == 0 .. MaxPage - 1
Val == 0 .. 1  \* nothing, and what somebody wrote

VARIABLES
  fs,    \* memfs_nodes, memfs_extents, free pages; what was written to a node
  file,  \* file_table
  proc   \* who runs, whose descriptor table it uses, its own table

vars == <<fs, file, proc>>

FreeNode == [kind |-> "none", path |-> None, to |-> None, size |-> 0,
             data |-> [q \in 0 .. Inline - 1 |-> 0], ext |-> <<>>]
FreeExt == [used |-> FALSE, page |-> 0, val |-> 0]
FreeFile == [ref |-> 0, kind |-> "none", node |-> None, mode |-> {}, off |-> 0]
NoProc == [st |-> "none", owner |-> None, fds |-> [d \in Fd |-> None], cloexec |-> {}]
Blank == [q \in Page |-> 0]

TypeOK ==
  /\ fs.node \in [Node -> [kind : {"none", "file", "dir", "link"}, path : Path \cup {None},
                           to : Path \cup {None}, size : 0 .. MaxPage,
                           data : [0 .. Inline - 1 -> Val], ext : BoundedSeq(Ext, NExt)]]
  /\ fs.ext \in [Ext -> [used : BOOLEAN, page : Page, val : Val]]
  /\ fs.mem \in 0 .. NPage
  /\ fs.written \in [Node -> [Page -> Val]]
  /\ file \in [File -> [ref : 0 .. Cardinality(Proc) * NFd, kind : {"none", "mem", "other"},
                        node : Node \cup {None}, mode : SUBSET {"r", "w"}, off : 0 .. MaxPage]]
  /\ proc \in [Proc -> [st : {"none", "proc", "thread"}, owner : Proc \cup {None},
                        fds : [Fd -> File \cup {None}], cloexec : SUBSET Fd]]

Init ==
  /\ fs = [node |-> [n \in Node |-> FreeNode], ext |-> [e \in Ext |-> FreeExt],
           mem |-> NPage, written |-> [n \in Node |-> Blank]]
  /\ file = [f \in File |-> FreeFile]
  /\ \E p \in Proc : proc = [q \in Proc |-> IF q = p THEN [NoProc EXCEPT !.st = "proc", !.owner = p]
                                           ELSE NoProc]

-----------------------------------------------------------------------------
(* Nodes and extents.  Which of the free slots is taken does not matter.   *)

Live == {n \in Node : fs.node[n].kind # "none"}

(* memfs_find_key.                                                         *)
Find(path) == {n \in Live : fs.node[n].path = path}

(* memfs_find_resolved: the node at the end of the links, as a set.        *)
Resolved(path) ==
  LET to[i \in 0 .. MaxLink, q \in Path] ==
        IF i = 0 \/ Find(q) = {} THEN {}
        ELSE LET n == Min(Find(q))
             IN  IF fs.node[n].kind = "link" THEN to[i - 1, fs.node[n].to] ELSE {n}
  IN  to[MaxLink, path]

(* memfs_extra_find.                                                       *)
ExtOf(s, n, q) == {e \in ToSet(s.node[n].ext) : s.ext[e].used /\ s.ext[e].page = q}

(* memfs_read of one page.                                                 *)
ReadPage(s, n, q) ==
  CASE q < Inline -> s.node[n].data[q]
    [] q >= Inline /\ ExtOf(s, n, q) # {} -> s.ext[Min(ExtOf(s, n, q))].val
    [] OTHER -> 0

(* memfs_extra_alloc: a record with ok, the extent in front of its chain.  *)
WithExt(s, n, q) ==
  LET unused == {e \in Ext : ~s.ext[e].used}
  IN  CASE ExtOf(s, n, q) # {} -> [ok |-> TRUE, s |-> s]
        [] ExtOf(s, n, q) = {} /\ (unused = {} \/ s.mem = 0) -> [ok |-> FALSE, s |-> s]
        [] OTHER ->
             LET e == Min(unused)
             IN  [ok |-> TRUE,
                  s |-> [s EXCEPT !.ext[e] = [used |-> TRUE, page |-> q, val |-> 0],
                                  !.node[n].ext = <<e>> \o @, !.mem = @ - 1]]

(* memfs_extra_free_all.                                                   *)
WithoutExts(s, n) ==
  [s EXCEPT !.ext = [e \in Ext |-> IF e \in ToSet(s.node[n].ext) THEN FreeExt ELSE s.ext[e]],
            !.node[n].ext = <<>>, !.mem = @ + Len(s.node[n].ext)]

(* Variant: the size is reset and the inline pages keep their contents.    *)
TruncatedKeeps(s, n) ==
  [WithoutExts(s, n) EXCEPT !.node[n].size = 0, !.written[n] = Blank]

Truncated(s, n) ==
  [WithoutExts(s, n) EXCEPT !.node[n].size = 0, !.node[n].data = FreeNode.data,
                            !.written[n] = Blank]

(* memfs_reclaim_node leaves the data where it is.                         *)
Reclaimed(s, n) ==
  [WithoutExts(s, n) EXCEPT !.node[n] = [FreeNode EXCEPT !.data = s.node[n].data],
                            !.written[n] = Blank]

(* memfs_create.                                                           *)
FreeNodes == {n \in Node : fs.node[n].kind = "none"}
CreatedAs(n, path, kind) ==
  [fs EXCEPT !.node[n] = [FreeNode EXCEPT !.kind = kind, !.path = path]]

(* memfs_open_ref_count and memfs_maybe_reclaim_unlinked.                  *)
OpenOn(f, n) == {g \in File : f[g].ref > 0 /\ f[g].kind = "mem" /\ f[g].node = n}
MaybeReclaimed(s, f, n) ==
  IF s.node[n].kind # "none" /\ s.node[n].path = None /\ OpenOn(f, n) = {}
  THEN Reclaimed(s, n) ELSE s

-----------------------------------------------------------------------------
(* A record m of the variables is changed by one operation after another.  *)

Now == [fs |-> fs, file |-> file, proc |-> proc]
Become(m) == fs' = m.fs /\ file' = m.file /\ proc' = m.proc

(* file_close.                                                             *)
Closed(m, f) ==
  IF m.file[f].ref > 1 THEN [m EXCEPT !.file[f].ref = @ - 1]
  ELSE LET c == [m.file EXCEPT ![f] = FreeFile]
       IN  [m EXCEPT !.file = c,
                     !.fs = IF m.file[f].kind = "mem" THEN MaybeReclaimed(@, c, m.file[f].node)
                            ELSE @]

ClosedAll(m, seq) == FoldLeft(Closed, m, seq)

(* file_alloc.                                                             *)
FreeFiles(m) == {f \in File : m.file[f].ref = 0}
Made(m, f, kind, n, mode, off) ==
  [m EXCEPT !.file[f] = [ref |-> 1, kind |-> kind, node |-> n, mode |-> mode, off |-> off]]
Dupped(m, f) == [m EXCEPT !.file[f].ref = @ + 1]

(* fd_table_proc.                                                          *)
Table(p) == IF proc[p].st = "thread" THEN proc[p].owner ELSE p
FileAt(p, d) == proc[Table(p)].fds[d]
Runs(p) == proc[p].st # "none"

(* Variant: the reference is kept when there is no descriptor.             *)
InstalledLeaks(m, t, f, least, cloexec) ==
  LET open == {d \in least .. NFd - 1 : m.proc[t].fds[d] = None}
  IN  IF open = {} THEN m
      ELSE [m EXCEPT !.proc[t].fds[Min(open)] = f,
                     !.proc[t].cloexec = IF cloexec THEN @ \cup {Min(open)} ELSE @ \ {Min(open)}]

(* alloc_fd_at_least; the file is closed when there is no descriptor.      *)
Installed(m, t, f, least, cloexec) ==
  LET open == {d \in least .. NFd - 1 : m.proc[t].fds[d] = None}
  IN  IF open = {} THEN Closed(m, f)
      ELSE [m EXCEPT !.proc[t].fds[Min(open)] = f,
                     !.proc[t].cloexec = IF cloexec THEN @ \cup {Min(open)} ELSE @ \ {Min(open)}]

-----------------------------------------------------------------------------
(* System calls that open.                                                 *)

(* sys_open, file_open and memfs_open_index.  A dangling link would be     *)
(* opened itself by O_CREAT.                                               *)
OpenMem(p, path, mode, flags) ==
  LET t == Table(p)
      exists == Resolved(path) # {}
      old == IF exists THEN Resolved(path) ELSE Find(path)
      makes == old = {} /\ "create" \in flags
      n == IF old # {} THEN Min(old) ELSE Min(FreeNodes)
      s == IF makes THEN CreatedAs(n, path, "file") ELSE fs
      m == [Now EXCEPT !.fs = s]
      dir == s.node[n].kind = "dir"
      c == IF ~dir /\ "trunc" \in flags THEN Truncated(s, n) ELSE s
      f == Min(FreeFiles(m))
  IN  /\ "name" \in Kinds /\ Runs(p)
      /\ mode = {} => flags = {}
      /\ Orderly => (exists \/ Find(path) = {})
      /\ exists \/ "create" \in flags
      /\ makes => FreeNodes # {}
      /\ Become(IF FreeFiles(m) = {} \/ (dir /\ "w" \in mode) THEN m
                ELSE Installed(Made([m EXCEPT !.fs = c], f, "mem", n, mode,
                                    IF "append" \in flags THEN c.node[n].size ELSE 0),
                               t, f, 0, FALSE))

(* A device, a socket, or a file of /proc.                                 *)
OpenOther(p, cloexec) ==
  /\ "table" \in Kinds /\ Runs(p) /\ FreeFiles(Now) # {}
  /\ LET f == Min(FreeFiles(Now))
     IN  Become(Installed(Made(Now, f, "other", None, {"r", "w"}, 0), Table(p), f, 0, cloexec))

(* sys_pipe2 and sys_socketpair: both descriptors or none.                 *)
Pair(p, cloexec) ==
  /\ "table" \in Kinds /\ Runs(p) /\ Cardinality(FreeFiles(Now)) >= 2
  /\ LET t == Table(p)
         r == Min(FreeFiles(Now))
         w == Min(FreeFiles(Now) \ {r})
         m == Made(Made(Now, r, "other", None, {"r"}, 0), w, "other", None, {"w"}, 0)
     IN  Become(IF Cardinality({d \in Fd : proc[t].fds[d] = None}) >= 2
                THEN Installed(Installed(m, t, r, 0, cloexec), t, w, 0, cloexec)
                ELSE Closed(Closed(m, r), w))

(* sys_dup, and sys_fcntl with F_DUPFD and F_DUPFD_CLOEXEC.                *)
Dup(p, d, least, cloexec) ==
  /\ "table" \in Kinds /\ Runs(p) /\ FileAt(p, d) # None
  /\ Become(Installed(Dupped(Now, FileAt(p, d)), Table(p), FileAt(p, d), least, cloexec))

(* sys_dup3 closes what the new descriptor was.                            *)
Dup3(p, d, to, cloexec) ==
  LET t == Table(p)
      m == IF FileAt(p, to) = None THEN Now ELSE Closed(Now, FileAt(p, to))
  IN  /\ "table" \in Kinds /\ Runs(p) /\ FileAt(p, d) # None /\ d # to
      /\ Become([Dupped(m, FileAt(p, d)) EXCEPT
                   !.proc[t].fds[to] = FileAt(p, d),
                   !.proc[t].cloexec = IF cloexec THEN @ \cup {to} ELSE @ \ {to}])

SetCloexec(p, d, on) ==
  /\ "table" \in Kinds /\ Runs(p) /\ FileAt(p, d) # None
  /\ proc' = [proc EXCEPT ![Table(p)].cloexec = IF on THEN @ \cup {d} ELSE @ \ {d}]
  /\ UNCHANGED <<fs, file>>

Close(p, d) ==
  /\ Runs(p) /\ FileAt(p, d) # None
  /\ Become([Closed(Now, FileAt(p, d)) EXCEPT !.proc[Table(p)].fds[d] = None,
                                             !.proc[Table(p)].cloexec = @ \ {d}])

-----------------------------------------------------------------------------
(* Processes.                                                              *)

Alone(p) == Orderly => \A q \in Proc \ {p} : proc[q].st = "thread" => proc[q].owner # p

FilesOf(p, ds) ==
  [i \in 1 .. Cardinality(ds) |-> proc[p].fds[SetToSortSeq(ds, <)[i]]]
OpenFds(p) == {d \in Fd : proc[p].fds[d] # None}

(* proc_fork_with_stack copies the table of the caller itself, which is    *)
(* empty when the caller is a thread.                                      *)
Fork(p, q) ==
  /\ "proc" \in Kinds /\ Runs(p) /\ proc[q].st = "none"
  /\ Become([FoldLeft(Dupped, Now, FilesOf(p, OpenFds(p))) EXCEPT
               !.proc[q] = [proc[p] EXCEPT !.st = "proc", !.owner = q]])

(* sys_clone with CLONE_THREAD.                                            *)
Thread(p, q) ==
  /\ "proc" \in Kinds /\ Runs(p) /\ proc[q].st = "none"
  /\ proc' = [proc EXCEPT ![q] = [NoProc EXCEPT !.st = "thread", !.owner = proc[p].owner]]
  /\ UNCHANGED <<fs, file>>

(* close_cloexec_files.                                                    *)
Exec(p) ==
  LET ds == {d \in OpenFds(p) : d \in proc[p].cloexec}
  IN  /\ "proc" \in Kinds /\ proc[p].st = "proc" /\ Alone(p)
      /\ Become([ClosedAll(Now, FilesOf(p, ds)) EXCEPT
                   !.proc[p].fds = [d \in Fd |-> IF d \in ds THEN None ELSE @[d]],
                   !.proc[p].cloexec = @ \ ds])

(* proc_exit and, later, proc_free.                                        *)
Exit(p) ==
  /\ "proc" \in Kinds /\ Runs(p) /\ Alone(p)
  /\ Become([ClosedAll(Now, FilesOf(p, OpenFds(p))) EXCEPT !.proc[p] = NoProc])

-----------------------------------------------------------------------------
(* Reading and writing of in-memory files.                                 *)

OnMem(p, d) == "data" \in Kinds /\ Runs(p) /\ FileAt(p, d) # None /\ file[FileAt(p, d)].kind = "mem"

(* memfs_read.                                                             *)
Read(p, d, len) ==
  LET f == FileAt(p, d)
      size == fs.node[file[f].node].size
  IN  /\ OnMem(p, d) /\ "r" \in file[f].mode /\ fs.node[file[f].node].kind # "dir"
      /\ file[f].off < size
      /\ file' = [file EXCEPT ![f].off = Min({@ + len, size})]
      /\ UNCHANGED <<fs, proc>>

(* memfs_write, page by page until there is no extent.                     *)
Write(p, d, len) ==
  LET f == FileAt(p, d)
      n == file[f].node
      from == IF file[f].off + len > MaxPage THEN 0 ELSE file[f].off
      put[i \in 0 .. len] ==
        IF i = 0 THEN [done |-> 0, s |-> fs]
        ELSE LET before == put[i - 1]
                 q == from + i - 1
                 x == WithExt(before.s, n, q)
             IN  CASE before.done < i - 1 -> before
                   [] before.done = i - 1 /\ q < Inline ->
                        [done |-> i, s |-> [before.s EXCEPT !.node[n].data[q] = 1]]
                   [] before.done = i - 1 /\ q >= Inline /\ x.ok ->
                        [done |-> i, s |-> [x.s EXCEPT !.ext[Min(ExtOf(x.s, n, q))].val = 1]]
                   [] OTHER -> before
      end == from + put[len].done
  IN  /\ OnMem(p, d) /\ "w" \in file[f].mode /\ fs.node[n].kind = "file"
      /\ file' = [file EXCEPT ![f].off = end]
      /\ fs' = [put[len].s EXCEPT
                  !.node[n].size = Max({@, end}),
                  !.written[n] = [q \in Page |-> IF q \in from .. end - 1 THEN 1 ELSE @[q]]]
      /\ UNCHANGED proc

(* file_lseek, the result of its arithmetic.                               *)
Lseek(p, d, off) ==
  /\ OnMem(p, d)
  /\ file' = [file EXCEPT ![FileAt(p, d)].off = off]
  /\ UNCHANGED <<fs, proc>>

-----------------------------------------------------------------------------
(* Names.                                                                  *)

Changes(s) == fs' = s /\ UNCHANGED <<file, proc>>

(* memfs_unlink: a node that is open loses its name only.                  *)
Unlink(path) ==
  /\ "name" \in Kinds /\ Find(path) # {}
  /\ LET n == Min(Find(path))
     IN  Changes(IF OpenOn(file, n) # {} THEN [fs EXCEPT !.node[n].path = None]
                 ELSE Reclaimed(fs, n))

(* memfs_rename never replaces.                                            *)
Rename(old, new) ==
  /\ "name" \in Kinds /\ Find(old) # {} /\ Find(new) = {}
  /\ Changes([fs EXCEPT !.node[Min(Find(old))].path = new])

Mkdir(path) ==
  /\ "link" \in Kinds /\ Find(path) = {} /\ FreeNodes # {}
  /\ Changes(CreatedAs(Min(FreeNodes), path, "dir"))

Symlink(path, to) ==
  /\ "link" \in Kinds /\ Find(path) = {} /\ FreeNodes # {}
  /\ LET n == Min(FreeNodes)
     IN  Changes([CreatedAs(n, path, "link") EXCEPT !.node[n].to = to])

(* Bounds: the flags of open; seeks go to the start or to the last page.   *)
OpenFlags == {{}, {"create"}, {"create", "trunc"}, {"create", "append"}}

Next ==
  \/ \E p \in Proc, path \in Path, mode \in Modes,
        flags \in OpenFlags : OpenMem(p, path, mode, flags)
  \/ \E p \in Proc, d \in Fd, cloexec \in BOOLEAN :
       \/ OpenOther(p, cloexec) \/ Pair(p, cloexec)
       \/ \E to \in Fd : Dup(p, d, to, cloexec) \/ Dup3(p, d, to, cloexec)
       \/ SetCloexec(p, d, cloexec)
  \/ \E p \in Proc, d \in Fd : Close(p, d)
  \/ \E p, q \in Proc : Fork(p, q) \/ Thread(p, q)
  \/ \E p \in Proc : Exec(p) \/ Exit(p)
  \/ \E p \in Proc, d \in Fd, len \in 1 .. 2 :
       Read(p, d, len) \/ Write(p, d, len)
  \/ \E p \in Proc, d \in Fd, off \in {0, MaxPage - 1} : Lseek(p, d, off)
  \/ \E path \in Path : Unlink(path) \/ Mkdir(path)
  \/ \E old, new \in Path : Rename(old, new) \/ Symlink(old, new)

-----------------------------------------------------------------------------
(* The reference count of an entry of the file table is the number of      *)
(* descriptors that name it, whoever shares the table and however a call   *)
(* failed half-way; an entry nobody names is free.                         *)
RefsExact ==
  \A f \in File :
    /\ file[f].ref = Cardinality({<<p, d>> \in Proc \X Fd : proc[p].fds[d] = f})
    /\ (file[f].ref = 0) = (file[f] = FreeFile)

(* An open file keeps its node, a node lives exactly while it has a name   *)
(* or is open, names are unique, an extent and its page belong to one node *)
(* and one place in it, and a page reads as it was written last in this    *)
(* file, or as zero.                                                       *)
FilesSound ==
  /\ \A f \in File : file[f].kind = "mem" => file[f].node \in Live
  /\ \A n \in Live : fs.node[n].path # None \/ OpenOn(file, n) # {}
  /\ \A n, k \in Live : fs.node[n].path = fs.node[k].path /\ fs.node[n].path # None => n = k
  /\ \A e \in Ext : fs.ext[e].used = (\E n \in Live : e \in ToSet(fs.node[n].ext))
  /\ \A n, k \in Live : n # k => ToSet(fs.node[n].ext) \cap ToSet(fs.node[k].ext) = {}
  /\ \A n \in Live : Cardinality({fs.ext[e].page : e \in ToSet(fs.node[n].ext)})
                       = Len(fs.node[n].ext)
  /\ fs.mem + Cardinality({e \in Ext : fs.ext[e].used}) = NPage
  /\ \A n \in Live, q \in Page : ReadPage(fs, n, q) = fs.written[n][q]
=============================================================================
