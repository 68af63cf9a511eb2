-------------------------------- MODULE Pipe --------------------------------
(***************************************************************************)
(* Pipes of fs/fs.c: the pool of pipes, the file table with its reference  *)
(* counts, and the system calls pipe2, read, write, close and fork on pipe *)
(* descriptors.                                                            *)
(*                                                                         *)
(* An action is one critical section, under the lock of the pool, of the   *)
(* file table or of one pipe.  proc_sleep releases the lock of the pipe    *)
(* and takes it again before it returns; that a wakeup finds a process     *)
(* that is about to sleep is the subject of SleepLock.                     *)
(*                                                                         *)
(* Every process has one thread and a table of descriptors of its own,    *)
(* which holds a file at most once (dup within a process is left out).  A  *)
(* process is killed where it sleeps or outside the kernel.                *)
(***************************************************************************)
EXTENDS PipeSizes, Sequences, SequencesExt

VARIABLES
  pipe,  \* pipe_pool
  file,  \* file_table: the reference count, and the end of a pipe it is
  fds,   \* the files in each descriptor table
  call,  \* the system call a process is in
  jobs,  \* what it still has to close, in order
  got    \* the bytes its last read returned

vars == <<pipe, file, fds, call, jobs, got>>

(* The calls.  "rfile", "wfile", "install": pipe2 with a pipe, looking for *)
(* two files; "dead": not forked yet, or gone, its files to be closed.     *)
User == [at |-> "user"]
Dead == [at |-> "dead"]
Calls ==
  {User, Dead}
    \cup [at : {"rfile"}, pi : Slot]
    \cup [at : {"wfile"}, pi : Slot, rf : File \cup {None}]
    \cup [at : {"install"}, pi : Slot, rf : File \cup {None}, wf : File \cup {None}]
    \cup [at : {"read", "rsleep"}, pi : Slot, n : 1 .. MaxLen]
    \cup [at : {"write", "wsleep"}, pi : Slot, n : 1 .. MaxLen,
          total : 0 .. MaxLen, w : 0 .. Cap]

(* file_close of a file, pipe_close of an end, pipe_pool_free.             *)
CloseFile(f) == [do |-> "file", f |-> f]
CloseEnd(i, wr) == [do |-> "end", pi |-> i, wr |-> wr]
FreePipe(i) == [do |-> "pool", pi |-> i]
Jobs ==
  {CloseFile(f) : f \in File} \cup {FreePipe(i) : i \in Slot}
    \cup {CloseEnd(i, wr) : i \in Slot, wr \in BOOLEAN}

Pipes ==
  [used : BOOLEAN, nread : 0 .. Width - 1, nwrite : 0 .. Width - 1,
   readopen : BOOLEAN, writeopen : BOOLEAN, data : [0 .. Cap - 1 -> Byte]]
NoFile == [ref |-> 0, pipe |-> None, wr |-> FALSE]

(* One process runs, the others are still to be forked; the pool is zeroed *)
(* memory, whichever byte stands for zero.                                 *)
Init ==
  /\ \E zero \in Byte :
       pipe = [i \in Slot |->
                [used |-> FALSE, nread |-> 0, nwrite |-> 0,
                 readopen |-> FALSE, writeopen |-> FALSE,
                 data |-> [j \in 0 .. Cap - 1 |-> zero]]]
  /\ file = [f \in File |-> NoFile]
  /\ fds = [p \in Task |-> {}]
  /\ \E first \in Task : call = [p \in Task |-> IF p = first THEN User ELSE Dead]
  /\ jobs = [p \in Task |-> <<>>]
  /\ got = [p \in Task |-> <<>>]

-----------------------------------------------------------------------------
(* Helpers.                                                                *)

InUser(p) == call[p] = User /\ jobs[p] = <<>>

Least(S) == CHOOSE x \in S : \A y \in S : x <= y
Smaller(x, y) == IF x < y THEN x ELSE y

(* uint32 addition.                                                        *)
Plus(x, k) == (x + k) % Width

Empty(i) == pipe[i].nread = pipe[i].nwrite
Size(i) == (pipe[i].nwrite + Width - pipe[i].nread) % Width

(* Variant: off by one.                                                    *)
RoomLate(i) == (pipe[i].nread + Cap + 1 + Width - pipe[i].nwrite) % Width

(* How many bytes can be put before nwrite = nread + Cap: the pipe is full *)
(* at 0.                                                                   *)
Room(i) == (pipe[i].nread + Cap + Width - pipe[i].nwrite) % Width

(* The first n bytes that are in pipe i.                                   *)
Bytes(i, n) ==
  [j \in 1 .. n |-> pipe[i].data[Plus(pipe[i].nread, j - 1) % Cap]]

(* proc_wakeup(&pi->nread) and proc_wakeup(&pi->nwrite).                   *)
WakeAt(c, i, asleep, awake) ==
  [p \in Task |-> IF c[p].at = asleep /\ c[p].pi = i
                  THEN [c[p] EXCEPT !.at = awake] ELSE c[p]]
WakeReaders(c, i) == WakeAt(c, i, "rsleep", "read")
WakeWriters(c, i) == WakeAt(c, i, "wsleep", "write")

-----------------------------------------------------------------------------
(* pipe2.                                                                  *)

(* pipe_pool_alloc, and the initialisation of the slot nobody else knows.  *)
PoolAlloc(p) ==
  /\ InUser(p)
  /\ \E i \in Slot : ~pipe[i].used
  /\ LET i == Least({j \in Slot : ~pipe[j].used})
     IN  /\ pipe' = [pipe EXCEPT ![i] =
                      [@ EXCEPT !.used = TRUE, !.nread = 0, !.nwrite = 0,
                                !.readopen = TRUE, !.writeopen = TRUE]]
         /\ call' = [call EXCEPT ![p] = [at |-> "rfile", pi |-> i]]
  /\ UNCHANGED <<file, fds, jobs, got>>

(* file_alloc: the first file with no references, or None.  Files that are *)
(* no pipes fill the table as well: there may be none at any time.         *)
FreeFiles == {f \in File : file[f].ref = 0}
FileAlloc == {None} \cup IF FreeFiles = {} THEN {} ELSE {Least(FreeFiles)}

Referenced(f) ==
  IF f = None THEN file ELSE [file EXCEPT ![f] = [NoFile EXCEPT !.ref = 1]]

(* Both ends are asked for, also when there is no file for the first one.  *)
ReadFile(p) ==
  /\ call[p].at = "rfile"
  /\ \E f \in FileAlloc :
       /\ file' = Referenced(f)
       /\ call' = [call EXCEPT ![p] = [at |-> "wfile", pi |-> @.pi, rf |-> f]]
  /\ UNCHANGED <<pipe, fds, jobs, got>>

WriteFile(p) ==
  /\ call[p].at = "wfile"
  /\ \E f \in FileAlloc :
       /\ file' = Referenced(f)
       /\ call' = [call EXCEPT ![p] =
                     [at |-> "install", pi |-> @.pi, rf |-> @.rf, wf |-> f]]
  /\ UNCHANGED <<pipe, fds, jobs, got>>

(* With two files the pipe is complete; sys_pipe2 puts them into the table *)
(* of descriptors, or closes both when the table is full.                  *)
Install(p) ==
  LET c == call[p]
  IN  /\ c.at = "install" /\ c.rf # None /\ c.wf # None
      /\ file' = [file EXCEPT ![c.rf].pipe = c.pi, ![c.wf].pipe = c.pi,
                              ![c.wf].wr = TRUE]
      /\ \/ /\ fds' = [fds EXCEPT ![p] = @ \cup {c.rf, c.wf}]
            /\ UNCHANGED jobs
         \/ /\ jobs' = [jobs EXCEPT ![p] = <<CloseFile(c.rf), CloseFile(c.wf)>>]
            /\ UNCHANGED fds
      /\ call' = [call EXCEPT ![p] = User]
      /\ UNCHANGED <<pipe, got>>

(* Variant: the pipe is forgotten.                                         *)
GiveUpLeaks(p) ==
  LET c == call[p]
  IN  /\ c.at = "install" /\ None \in {c.rf, c.wf}
      /\ jobs' = [jobs EXCEPT ![p] = IF c.rf = None THEN <<>> ELSE <<CloseFile(c.rf)>>]
      /\ call' = [call EXCEPT ![p] = User]
      /\ UNCHANGED <<pipe, file, fds, got>>

(* With less than two files, what there is is given back.                  *)
GiveUp(p) ==
  LET c == call[p]
      closes == IF c.rf # None THEN <<CloseFile(c.rf)>>
                ELSE IF c.wf # None THEN <<CloseFile(c.wf)>> ELSE <<>>
  IN  /\ c.at = "install" /\ None \in {c.rf, c.wf}
      /\ jobs' = [jobs EXCEPT ![p] = closes \o <<FreePipe(c.pi)>>]
      /\ call' = [call EXCEPT ![p] = User]
      /\ UNCHANGED <<pipe, file, fds, got>>

-----------------------------------------------------------------------------
(* read and write.                                                         *)

(* A read of more than Cap bytes is one of Cap bytes.                      *)
StartRead(p, f, n) ==
  /\ InUser(p) /\ f \in fds[p] /\ ~file[f].wr /\ n <= Cap
  /\ call' = [call EXCEPT ![p] = [at |-> "read", pi |-> file[f].pipe, n |-> n]]
  /\ got' = [got EXCEPT ![p] = <<>>]
  /\ UNCHANGED <<pipe, file, fds, jobs>>

(* pipe_read under the lock of the pipe: there is nothing yet.             *)
ReadSleeps(p) ==
  LET i == call[p].pi
  IN  /\ call[p].at = "read"
      /\ Empty(i) /\ pipe[i].writeopen
      /\ call' = [call EXCEPT ![p].at = "rsleep"]
      /\ UNCHANGED <<pipe, file, fds, jobs, got>>

(* pipe_read takes what there is, wakes the writers and returns.           *)
ReadReturns(p) ==
  LET i == call[p].pi
      k == Smaller(call[p].n, Size(i))
  IN  /\ call[p].at = "read"
      /\ ~(Empty(i) /\ pipe[i].writeopen)
      /\ got' = [got EXCEPT ![p] = Bytes(i, k)]
      /\ pipe' = [pipe EXCEPT ![i].nread = Plus(@, k)]
      /\ call' = [WakeWriters(call, i) EXCEPT ![p] = User]
      /\ UNCHANGED <<file, fds, jobs>>

StartWrite(p, f, n) ==
  /\ InUser(p) /\ f \in fds[p] /\ file[f].wr
  /\ call' = [call EXCEPT ![p] =
                [at |-> "write", pi |-> file[f].pipe, n |-> n, total |-> 0, w |-> 0]]
  /\ UNCHANGED <<pipe, file, fds, jobs, got>>

(* pipe_write works in chunks of at most Cap bytes.                        *)
Chunk(c) == Smaller(c.n - c.total, Cap)

(* The pipe after the bytes of s were put into it.                         *)
Stored(b, s) ==
  [b EXCEPT !.nwrite = Plus(@, Len(s)),
            !.data = [j \in 0 .. Cap - 1 |->
                        LET k == ((j + Width - b.nwrite) % Cap) + 1
                        IN  IF k <= Len(s) THEN s[k] ELSE b.data[j]]]

(* pipe_write under the lock of the pipe, the read end open: it puts bytes *)
(* until the chunk is done or the pipe is full, and wakes the readers.     *)
WritePuts(p) ==
  LET c == call[p]
      i == c.pi
      k == Smaller(Chunk(c) - c.w, Room(i))
      woken == WakeReaders(call, i)
  IN  /\ c.at = "write" /\ pipe[i].readopen
      /\ \E s \in [1 .. k -> Byte] : pipe' = [pipe EXCEPT ![i] = Stored(@, s)]
      /\ \/ /\ c.w + k < Chunk(c)
            /\ call' = [woken EXCEPT ![p].at = "wsleep", ![p].w = @ + k]
         \/ /\ c.w + k = Chunk(c) /\ c.total + Chunk(c) < c.n
            /\ call' = [woken EXCEPT ![p].total = @ + Chunk(c), ![p].w = 0]
         \/ /\ c.w + k = Chunk(c) /\ c.total + Chunk(c) = c.n
            /\ call' = [woken EXCEPT ![p] = User]
      /\ UNCHANGED <<file, fds, jobs, got>>

(* The read end is closed: the bytes of the whole chunks, or -1.           *)
WriteBroken(p) ==
  LET c == call[p]
  IN  /\ c.at = "write" /\ ~pipe[c.pi].readopen
      /\ call' = [call EXCEPT ![p] = User]
      /\ UNCHANGED <<pipe, file, fds, jobs, got>>

(* proc_check_itimers makes a sleeper run; the loops test again.           *)
TimerWakes(p) ==
  /\ call[p].at \in {"rsleep", "wsleep"}
  /\ call' = [call EXCEPT ![p].at = IF @ = "rsleep" THEN "read" ELSE "write"]
  /\ UNCHANGED <<pipe, file, fds, jobs, got>>

-----------------------------------------------------------------------------
(* close, fork, exit.                                                      *)

Close(p, f) ==
  /\ InUser(p) /\ f \in fds[p]
  /\ fds' = [fds EXCEPT ![p] = @ \ {f}]
  /\ jobs' = [jobs EXCEPT ![p] = <<CloseFile(f)>>]
  /\ UNCHANGED <<pipe, file, call, got>>

(* Variant: the end is closed whatever is left of the references.          *)
DropRefEarly(p) ==
  LET f == Head(jobs[p]).f
  IN  /\ jobs[p] # <<>> /\ Head(jobs[p]).do = "file"
      /\ file' = [file EXCEPT ![f] = IF @.ref = 1 THEN NoFile ELSE [file[f] EXCEPT !.ref = @ - 1]]
      /\ jobs' = [jobs EXCEPT ![p] =
                    IF file[f].pipe # None
                    THEN <<CloseEnd(file[f].pipe, file[f].wr)>> \o Tail(@)
                    ELSE Tail(@)]
      /\ UNCHANGED <<pipe, fds, call, got>>

(* file_close under the lock of the file table.                            *)
DropRef(p) ==
  LET f == Head(jobs[p]).f
      last == file[f].ref = 1
  IN  /\ jobs[p] # <<>> /\ Head(jobs[p]).do = "file"
      /\ file' = [file EXCEPT ![f] = IF last THEN NoFile ELSE [file[f] EXCEPT !.ref = @ - 1]]
      /\ jobs' = [jobs EXCEPT ![p] =
                    IF last /\ file[f].pipe # None
                    THEN <<CloseEnd(file[f].pipe, file[f].wr)>> \o Tail(@)
                    ELSE Tail(@)]
      /\ UNCHANGED <<pipe, fds, call, got>>

(* pipe_close of one end; wake is whom it wakes.                           *)
Ends(p, wake) ==
  LET j == Head(jobs[p])
      i == j.pi
      closed == [pipe[i] EXCEPT !.writeopen = @ /\ ~j.wr, !.readopen = @ /\ j.wr]
  IN  /\ jobs[p] # <<>> /\ j.do = "end"
      /\ pipe' = [pipe EXCEPT ![i] = closed]
      /\ call' = wake
      /\ jobs' = [jobs EXCEPT ![p] =
                    IF closed.readopen \/ closed.writeopen
                    THEN Tail(@) ELSE <<FreePipe(i)>> \o Tail(@)]
      /\ UNCHANGED <<file, fds, got>>

(* Variant: the end that is closed is the one that is woken.               *)
EndWakesOwn(p) ==
  LET j == Head(jobs[p])
  IN  Ends(p, IF j.wr THEN WakeWriters(call, j.pi) ELSE WakeReaders(call, j.pi))

End(p) ==
  LET j == Head(jobs[p])
  IN  Ends(p, IF j.wr THEN WakeReaders(call, j.pi) ELSE WakeWriters(call, j.pi))

(* pipe_pool_free.                                                         *)
PoolFree(p) ==
  /\ jobs[p] # <<>> /\ Head(jobs[p]).do = "pool"
  /\ pipe' = [pipe EXCEPT ![Head(jobs[p]).pi].used = FALSE]
  /\ jobs' = [jobs EXCEPT ![p] = Tail(@)]
  /\ UNCHANGED <<file, fds, call, got>>

(* fork: file_dup of every file.  The parent holds them all the time, so   *)
(* that the references may be counted in one step.                         *)
Fork(p, c) ==
  /\ InUser(p) /\ call[c] = Dead /\ jobs[c] = <<>>
  /\ file' = [f \in File |-> IF f \in fds[p] THEN [file[f] EXCEPT !.ref = @ + 1]
                             ELSE file[f]]
  /\ fds' = [fds EXCEPT ![c] = fds[p]]
  /\ call' = [call EXCEPT ![c] = User]
  /\ got' = [got EXCEPT ![c] = <<>>]
  /\ UNCHANGED <<pipe, jobs>>

(* proc_exit, or proc_kill_descendants of a process that sleeps: all its   *)
(* files are closed in the order of their descriptors, whatever that is.   *)
Die(p) ==
  /\ InUser(p) \/ call[p].at \in {"rsleep", "wsleep"}
  /\ \E s \in SetToSeqs(fds[p]) :
       jobs' = [jobs EXCEPT ![p] = [k \in DOMAIN s |-> CloseFile(s[k])]]
  /\ fds' = [fds EXCEPT ![p] = {}]
  /\ call' = [call EXCEPT ![p] = Dead]
  /\ UNCHANGED <<pipe, file, got>>

-----------------------------------------------------------------------------
Next ==
  \/ \E p \in Task :
       \/ PoolAlloc(p) \/ ReadFile(p) \/ WriteFile(p) \/ Install(p) \/ GiveUp(p)
       \/ ReadSleeps(p) \/ ReadReturns(p)
       \/ WritePuts(p) \/ WriteBroken(p) \/ TimerWakes(p)
       \/ DropRef(p) \/ End(p) \/ PoolFree(p) \/ Die(p)
  \/ \E p \in Task : \E f \in fds[p] :
       Close(p, f) \/ \E n \in 1 .. MaxLen : StartRead(p, f, n) \/ StartWrite(p, f, n)
  \/ \E p, c \in Task : Fork(p, c)

Spec == Init /\ [][Next]_vars

-----------------------------------------------------------------------------
(* Properties.                                                             *)

(* Type invariant: the indices stay within the pool and the file table and *)
(* the counters of a pipe (pipe_t, file_t) within their width.             *)
TypeOK ==
  /\ pipe \in [Slot -> Pipes]
  /\ file \in [File -> [ref : Nat, pipe : Slot \cup {None}, wr : BOOLEAN]]
  /\ fds \in [Task -> SUBSET File]
  /\ call \in [Task -> Calls]
  /\ jobs \in [Task -> Seq(Jobs)]
  /\ got \in [Task -> Seq(Byte)]

(* Whoever sleeps in a pipe has a reason to: a reader that it is empty and *)
(* somebody may still write, a writer that it is full and somebody may     *)
(* still read.  A wakeup that pipe_read, pipe_write or pipe_close forgot   *)
(* would leave a process asleep without one.                               *)
Blocked ==
  \A p \in Task :
    LET c == call[p]
    IN  /\ c.at = "rsleep" => Empty(c.pi) /\ pipe[c.pi].writeopen
        /\ c.at = "wsleep" => Room(c.pi) = 0 /\ pipe[c.pi].readopen

(* Who holds file f: in a table of descriptors, in a call of pipe2 that    *)
(* has it as its read end or as its write end, in a close still to be done.*)
Having(f) == {p \in Task : f \in fds[p]}
Reading(f) == {p \in Task : call[p].at \in {"wfile", "install"} /\ call[p].rf = f}
Writing(f) == {p \in Task : call[p].at = "install" /\ call[p].wf = f}
Closing(f) == {p \in Task : CloseFile(f) \in Range(jobs[p])}

(* The reference count of a file is the number of descriptors, of calls of *)
(* pipe2 and of closes that hold it: file_dup, file_close, proc_exit and   *)
(* the error paths of pipe_alloc count right.                              *)
RefsExact ==
  \A f \in File :
    file[f].ref = Cardinality(Having(f)) + Cardinality(Reading(f))
                  + Cardinality(Writing(f)) + Cardinality(Closing(f))

(* Those who answer for pipe i: a call of pipe2, a file, a close of one of *)
(* its ends, a release.                                                    *)
Making(i) == {p \in Task : call[p].at \in {"rfile", "wfile", "install"} /\ call[p].pi = i}
FilesOf(i) == {f \in File : file[f].pipe = i}
Ending(i, wr) == {p \in Task : CloseEnd(i, wr) \in Range(jobs[p])}
Releasing(i) == {p \in Task : FreePipe(i) \in Range(jobs[p])}

(* A slot of the pool is in use exactly as long as somebody answers for    *)
(* it: it is not lost on an error path of pipe_alloc and not freed while a *)
(* file, a reader or a writer refers to it.  Nobody frees it twice, and    *)
(* nobody else answers for it once it is to be freed.                      *)
PoolExact ==
  /\ \A i \in Slot :
       LET others == Making(i) \cup FilesOf(i) \cup Ending(i, TRUE) \cup Ending(i, FALSE)
       IN  /\ pipe[i].used <=> others # {} \/ Releasing(i) # {}
           /\ Releasing(i) # {} => others = {} /\ Cardinality(Releasing(i)) = 1
  /\ \A p \in Task :
       call[p].at \in {"read", "rsleep", "write", "wsleep"} =>
         \E f \in fds[p] : file[f].pipe = call[p].pi

(* A read that returns nothing is the end of the file: no process has the  *)
(* write end any more (pipe_read, file_close, fork).                       *)
HonestEof ==
  \A p \in Task :
    call[p].at = "read" /\ call[p]' = User /\ got[p]' = <<>> =>
      \A f \in FilesOf(call[p].pi) : ~file[f].wr

EofHonest == [][HonestEof]_vars

(* The bytes in each pipe that is in use.                                  *)
Contents == [i \in Slot |-> IF pipe[i].used THEN Bytes(i, Size(i)) ELSE <<>>]

Fifo == INSTANCE Stream WITH
  live <- {i \in Slot : pipe[i].used}, q <- Contents

(* The pool implements bounded queues of bytes: no byte is lost, repeated  *)
(* or overtaken, also when the counters wrap, and a slot that is used      *)
(* again starts empty.                                                     *)
IsFifo == Fifo!SSpec
=============================================================================
