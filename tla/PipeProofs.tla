----------------------------- MODULE PipeProofs -----------------------------
(***************************************************************************)
(* Proofs about Pipe, for any number of processes, pipes and files and any *)
(* size of a pipe.  The invariant follows the references: every file is    *)
(* counted exactly, and every end of a pipe that is open is the business   *)
(* of exactly one file, close or call of pipe2.                            *)
(*                                                                         *)
(* The last part proves that the pool of pipes implements bounded queues   *)
(* of bytes (Stream), for any width of its counters that the size divides. *)
(* The counters run modulo Width, the indices modulo Cap: that a byte is   *)
(* found where it was put rests on both, and on a pipe never holding more  *)
(* than Cap bytes (Bounded).                                               *)
(***************************************************************************)
EXTENDS Pipe, FiniteSetTheorems, SequenceTheorems, WellFoundedInduction, TLAPS

Todo(p) == Range(jobs[p])
Distinct(s) == \A i, j \in DOMAIN s : s[i] = s[j] => i = j

(* A write that is not done has bytes left, and its chunk has.             *)
Unfinished ==
  \A p \in Task :
    LET c == call[p]
    IN  c.at \in {"write", "wsleep"} => c.total < c.n /\ c.w < Chunk(c)

(* A file that is to be closed has references.                             *)
Held == \A f \in File : Closing(f) # {} => file[f].ref # 0

(* Nothing is done twice, and the close of an end is the next thing to do. *)
Types ==
  /\ TypeOK /\ Unfinished
  /\ \A p \in Task : Distinct(jobs[p])
  /\ \A p \in Task : \A e \in Todo(p) : e.do = "end" => e = Head(jobs[p])

(* Who still has something to close does nothing else, and the dead have   *)
(* nothing.                                                                *)
Idle ==
  \A p \in Task :
    /\ jobs[p] # <<>> => call[p] \in {User, Dead}
    /\ call[p] = Dead => fds[p] = {}

(* A file nobody refers to is empty, and a descriptor is an end of a pipe. *)
Files ==
  /\ \A f \in File : file[f].ref = 0 => file[f] = NoFile
  /\ \A p \in Task : \A f \in fds[p] : file[f].pipe \in Slot

(* The files of a call of pipe2 are its own.                               *)
New(f) == f # None => file[f] = [NoFile EXCEPT !.ref = 1]
Fresh ==
  \A p \in Task :
    /\ call[p].at \in {"wfile", "install"} => New(call[p].rf)
    /\ call[p].at = "install" =>
         /\ New(call[p].wf)
         /\ call[p].rf # None => call[p].rf # call[p].wf

Open(i, wr) == IF wr THEN pipe[i].writeopen ELSE pipe[i].readopen

(* Slot i while pipe2 works on it, while it is a pipe, and when it is to   *)
(* be released.                                                            *)
BeingMade(i) ==
  /\ Making(i) # {} =>
       /\ pipe[i].used /\ pipe[i].readopen /\ pipe[i].writeopen
       /\ FilesOf(i) = {} /\ Releasing(i) = {}
       /\ \A wr \in BOOLEAN : Ending(i, wr) = {}
  /\ \A p, q \in Making(i) : p = q

EndOwned(i, wr) ==
  /\ \A f, g \in FilesOf(i) : file[f].wr = wr /\ file[g].wr = wr => f = g
  /\ \A p, q \in Ending(i, wr) : p = q
  /\ (\E f \in FilesOf(i) : file[f].wr = wr) => Open(i, wr) /\ Ending(i, wr) = {}
  /\ Ending(i, wr) # {} => Open(i, wr)
  /\ FilesOf(i) # {} \/ Ending(i, wr) # {} => pipe[i].used /\ Releasing(i) = {}
  /\ pipe[i].used /\ Open(i, wr) /\ Making(i) = {} /\ Releasing(i) = {} =>
       Ending(i, wr) # {} \/ \E f \in FilesOf(i) : file[f].wr = wr

BeingFreed(i) ==
  /\ Releasing(i) # {} => pipe[i].used
  /\ \A p, q \in Releasing(i) : p = q
  /\ pipe[i].used /\ ~pipe[i].readopen /\ ~pipe[i].writeopen => Releasing(i) # {}

(* Who is in a read or in a write has a descriptor for it.                 *)
Calling ==
  \A p \in Task :
    /\ call[p].at \in {"read", "rsleep"} =>
         \E f \in fds[p] : file[f].pipe = call[p].pi /\ ~file[f].wr
    /\ call[p].at \in {"write", "wsleep"} =>
         \E f \in fds[p] : file[f].pipe = call[p].pi /\ file[f].wr

Pool ==
  \A i \in Slot :
    BeingMade(i) /\ BeingFreed(i) /\ \A wr \in BOOLEAN : EndOwned(i, wr)

Inv == Types /\ Idle /\ Files /\ Fresh /\ RefsExact /\ Pool /\ Calling

-----------------------------------------------------------------------------
(* Sequences of jobs, sets of processes.                                   *)

(* The jobs differ from each other.                                        *)
LEMMA JobsDiffer ==
  /\ \A f, g \in File : CloseFile(f) = CloseFile(g) => f = g
  /\ \A i, j \in Slot : FreePipe(i) = FreePipe(j) => i = j
  /\ \A i, j \in Slot : \A a, b \in BOOLEAN :
       CloseEnd(i, a) = CloseEnd(j, b) => i = j /\ a = b
  /\ \A f \in File, i \in Slot : CloseFile(f) # FreePipe(i)
  /\ \A f \in File, i \in Slot, a \in BOOLEAN : CloseFile(f) # CloseEnd(i, a)
  /\ \A i, j \in Slot, a \in BOOLEAN : CloseEnd(i, a) # FreePipe(j)
<1>1. \A f \in File : CloseFile(f).do = "file" /\ CloseFile(f).f = f
  BY DEF CloseFile
<1>2. \A i \in Slot : FreePipe(i).do = "pool" /\ FreePipe(i).pi = i
  BY DEF FreePipe
<1>3. \A i \in Slot, a \in BOOLEAN :
        CloseEnd(i, a).do = "end" /\ CloseEnd(i, a).pi = i /\ CloseEnd(i, a).wr = a
  BY DEF CloseEnd
<1> QED BY <1>1, <1>2, <1>3

(* What is left when the first thing is done.                              *)
LEMMA RangeTail ==
  ASSUME NEW S, NEW s \in Seq(S), s # <<>>, Distinct(s)
  PROVE  /\ Tail(s) \in Seq(S) /\ Distinct(Tail(s))
         /\ Head(s) \in S /\ Head(s) \in Range(s)
         /\ Range(Tail(s)) = Range(s) \ {Head(s)}
<1>1. /\ Tail(s) \in Seq(S) /\ Len(Tail(s)) = Len(s) - 1 /\ Len(s) \in Nat \ {0}
      /\ \A k \in 1 .. Len(s) - 1 : Tail(s)[k] = s[k + 1]
      /\ Head(s) = s[1] /\ DOMAIN s = 1 .. Len(s)
      /\ DOMAIN Tail(s) = 1 .. Len(s) - 1
  OBVIOUS
<1>2. Distinct(Tail(s))
  BY <1>1 DEF Distinct
<1>3. Range(Tail(s)) \subseteq Range(s) \ {Head(s)}
  BY <1>1 DEF Distinct, Range
<1>4. ASSUME NEW k \in DOMAIN s, s[k] # Head(s)
      PROVE  s[k] \in Range(Tail(s))
  <2>1. k - 1 \in 1 .. Len(s) - 1 /\ Tail(s)[k - 1] = s[k]
    BY <1>1, <1>4
  <2> QED BY <2>1, <1>1 DEF Range
<1>5. Head(s) \in Range(s) /\ Head(s) \in S
  BY <1>1 DEF Range
<1> QED BY <1>1, <1>2, <1>3, <1>4, <1>5 DEF Range

(* One thing and then another.                                             *)
LEMMA Joined ==
  ASSUME NEW S, NEW a \in S, NEW b \in S
  PROVE  <<a>> \o <<b>> = <<a, b>>
<1> DEFINE s == <<a>>
           t == <<b>>
           u == s \o t
           v == <<a, b>>
<1>1. /\ s \in Seq(S) /\ t \in Seq(S) /\ Len(s) = 1 /\ Len(t) = 1
      /\ s[1] = a /\ t[1] = b /\ v = [k \in 1 .. 2 |-> IF k = 1 THEN a ELSE b]
  OBVIOUS
<1> HIDE DEF s, t, v
<1>2. u \in Seq(S) /\ Len(u) = 2 /\ u[1] = a /\ u[2] = b
  BY <1>1
<1> HIDE DEF u
<1>3. u = [k \in 1 .. 2 |-> IF k = 1 THEN a ELSE b]
  <2>1. u = [k \in 1 .. 2 |-> u[k]]
    BY <1>2
  <2> QED BY <2>1, <1>2
<1> QED BY <1>1, <1>3 DEF u, v, s, t

(* The next thing to do.                                                   *)
LEMMA NextJob ==
  ASSUME NEW s \in Seq(Jobs), s # <<>>
  PROVE  /\ Head(s) \in Range(s)
         /\ Head(s).do = "file" => Head(s).f \in File /\ Head(s) = CloseFile(Head(s).f)
         /\ Head(s).do = "pool" => Head(s).pi \in Slot /\ Head(s) = FreePipe(Head(s).pi)
         /\ Head(s).do = "end" =>
              /\ Head(s).pi \in Slot /\ Head(s).wr \in BOOLEAN
              /\ Head(s) = CloseEnd(Head(s).pi, Head(s).wr)
         /\ Head(s).do \in {"file", "pool", "end"}
<1>1. Head(s) = s[1] /\ 1 \in DOMAIN s /\ Head(s) \in Jobs
  OBVIOUS
<1>2. Head(s) \in Range(s)
  BY <1>1 DEF Range
<1>3. ASSUME NEW e \in Jobs
      PROVE  /\ e.do = "file" => e.f \in File /\ e = CloseFile(e.f)
             /\ e.do = "pool" => e.pi \in Slot /\ e = FreePipe(e.pi)
             /\ e.do = "end" => e.pi \in Slot /\ e.wr \in BOOLEAN /\ e = CloseEnd(e.pi, e.wr)
             /\ e.do \in {"file", "pool", "end"}
  <2>1. CASE \E f \in File : e = CloseFile(f)
    <3>1. PICK f \in File : e = CloseFile(f)
      BY <2>1
    <3>2. e.do = "file" /\ e.f = f
      BY <3>1 DEF CloseFile
    <3> QED BY <3>1, <3>2
  <2>2. CASE \E i \in Slot : e = FreePipe(i)
    <3>1. PICK i \in Slot : e = FreePipe(i)
      BY <2>2
    <3>2. e.do = "pool" /\ e.pi = i
      BY <3>1 DEF FreePipe
    <3> QED BY <3>1, <3>2
  <2>3. CASE \E i \in Slot, wr \in BOOLEAN : e = CloseEnd(i, wr)
    <3>1. PICK i \in Slot, wr \in BOOLEAN : e = CloseEnd(i, wr)
      BY <2>3
    <3>2. e.do = "end" /\ e.pi = i /\ e.wr = wr
      BY <3>1 DEF CloseEnd
    <3> QED BY <3>1, <3>2
  <2> QED BY <2>1, <2>2, <2>3 DEF Jobs
<1> QED BY <1>1, <1>2, <1>3

(* What there is to do with one thing more, to be done first.              *)
LEMMA RangeCons ==
  ASSUME NEW S, NEW s \in Seq(S), Distinct(s), NEW e \in S, e \notin Range(s)
  PROVE  /\ <<e>> \o s \in Seq(S) /\ Distinct(<<e>> \o s)
         /\ Head(<<e>> \o s) = e /\ <<e>> \o s # <<>>
         /\ Range(<<e>> \o s) = Range(s) \cup {e}
<1> DEFINE t == <<e>> \o s
<1>1. /\ t \in Seq(S) /\ Len(t) = Len(s) + 1 /\ Len(s) \in Nat /\ t[1] = e
      /\ \A k \in 2 .. Len(s) + 1 : t[k] = s[k - 1]
      /\ DOMAIN t = 1 .. Len(s) + 1 /\ DOMAIN s = 1 .. Len(s)
      /\ t # <<>> /\ Head(t) = t[1]
  OBVIOUS
<1> HIDE DEF t
<1>2. \A k \in DOMAIN s : k + 1 \in DOMAIN t /\ t[k + 1] = s[k]
  BY <1>1
<1>3. \A k \in DOMAIN t : k = 1 \/ (k - 1 \in DOMAIN s /\ t[k] = s[k - 1])
  BY <1>1
<1>4. Distinct(t)
  BY <1>1, <1>3 DEF Distinct, Range
<1>5. Range(t) = Range(s) \cup {e}
  <2>1. Range(t) \subseteq Range(s) \cup {e}
    BY <1>1, <1>3 DEF Range
  <2>2. Range(s) \subseteq Range(t)
    BY <1>2 DEF Range
  <2>3. e \in Range(t)
    BY <1>1 DEF Range
  <2> QED BY <2>1, <2>2, <2>3
<1> QED BY <1>1, <1>4, <1>5 DEF t

(* Short sequences.                                                        *)
LEMMA RangeShort ==
  ASSUME NEW S, NEW a \in S
  PROVE  /\ Range(<<>>) = {} /\ Distinct(<<>>)
         /\ Range(<<a>>) = {a} /\ Distinct(<<a>>) /\ <<a>> \in Seq(S)
<1>1. Range(<<>>) = {} /\ Distinct(<<>>)
  BY DEF Range, Distinct
<1>2. Range(<<a>>) = {a} /\ Distinct(<<a>>) /\ <<a>> \in Seq(S)
  BY DEF Range, Distinct
<1> QED BY <1>1, <1>2

(* Two things.                                                             *)
LEMMA RangePair ==
  ASSUME NEW S, NEW a \in S, NEW b \in S, a # b
  PROVE  /\ Range(<<a, b>>) = {a, b} /\ <<a, b>> \in Seq(S) /\ Distinct(<<a, b>>)
         /\ Head(<<a, b>>) = a
<1>3. DOMAIN <<a, b>> = {1, 2} /\ <<a, b>>[1] = a /\ <<a, b>>[2] = b
  OBVIOUS
<1>4. Range(<<a, b>>) = {a, b} /\ <<a, b>> \in Seq(S)
  BY <1>3 DEF Range
<1>5. Distinct(<<a, b>>)
  BY <1>3 DEF Distinct
<1>6. Head(<<a, b>>) = a
  BY <1>3
<1> QED BY <1>4, <1>5, <1>6

(* Counting processes.                                                     *)
LEMMA Counting ==
  ASSUME NEW T \in SUBSET Task
  PROVE  /\ Cardinality(T) \in Nat /\ (Cardinality(T) = 0 <=> T = {})
         /\ \A p \in Task \ T : Cardinality(T \cup {p}) = Cardinality(T) + 1
         /\ \A p \in T : Cardinality(T \ {p}) = Cardinality(T) - 1
<1>1. IsFiniteSet(T)
  BY PipeAssumption, FS_Subset
<1>2. Cardinality(T) \in Nat /\ (Cardinality(T) = 0 <=> T = {})
  BY <1>1, FS_CardinalityType, FS_EmptySet
<1>3. \A p \in Task \ T : Cardinality(T \cup {p}) = Cardinality(T) + 1
  BY <1>1, FS_AddElement
<1>4. \A p \in T : Cardinality(T \ {p}) = Cardinality(T) - 1
  BY <1>1, FS_RemoveElement
<1> QED BY <1>2, <1>3, <1>4
(* A process that exits closes every file of its table, and each once.     *)
LEMMA CloseAll ==
  ASSUME NEW T \in SUBSET File, NEW s \in SetToSeqs(T)
  PROVE  LET t == [k \in DOMAIN s |-> CloseFile(s[k])]
         IN  /\ t \in Seq(Jobs) /\ Distinct(t)
             /\ Range(t) = {CloseFile(f) : f \in T}
<1> DEFINE n == Cardinality(T)
<1>1. IsFiniteSet(File)
  BY PipeAssumption, FS_Interval DEF File
<1>2. IsFiniteSet(T) /\ n \in Nat
  BY <1>1, FS_Subset, FS_CardinalityType
<1>3. s \in [1 .. n -> T] /\ \A i, j \in 1 .. n : i # j => s[i] # s[j]
  BY DEF SetToSeqs
<1>4. IsFiniteSet(1 .. n) /\ Cardinality(1 .. n) = n
  BY <1>2, FS_Interval
<1>5. s \in Injection(1 .. n, T)
  BY <1>3 DEF Injection, IsInjective
<1>6. \A f \in T : \E k \in 1 .. n : s[k] = f
  <2>1. s \in Surjection(1 .. n, T)
    BY <1>2, <1>4, <1>5, FS_Injection
  <2> QED BY <2>1 DEF Surjection
<1> HIDE DEF n
<1> DEFINE t == [k \in DOMAIN s |-> CloseFile(s[k])]
<1>7. DOMAIN s = 1 .. n /\ DOMAIN t = 1 .. n /\ \A k \in 1 .. n : t[k] = CloseFile(s[k])
  BY <1>3
<1>8. \A k \in 1 .. n : t[k] \in Jobs
  BY <1>3, <1>7 DEF Jobs
<1>9. t \in Seq(Jobs)
  BY <1>2, <1>7, <1>8
<1>10. Distinct(t)
  BY <1>3, <1>7, JobsDiffer DEF Distinct
<1> HIDE DEF t
<1>11. Range(t) = {CloseFile(f) : f \in T}
  <2>1. Range(t) \subseteq {CloseFile(f) : f \in T}
    BY <1>3, <1>7 DEF Range
  <2>2. {CloseFile(f) : f \in T} \subseteq Range(t)
    BY <1>6, <1>7 DEF Range
  <2> QED BY <2>1, <2>2
<1> QED BY <1>9, <1>10, <1>11 DEF t

-----------------------------------------------------------------------------
(* Types.                                                                  *)

(* Reads and writes.                                                       *)
Reads == [at : {"read", "rsleep"}, pi : Slot, n : 1 .. MaxLen]
Writes ==
  [at : {"write", "wsleep"}, pi : Slot, n : 1 .. MaxLen, total : 0 .. MaxLen, w : 0 .. Cap]

(* The members of Calls by where they are.                                 *)
LEMMA Shapes ==
  ASSUME NEW c \in Calls
  PROVE  /\ c.at = "user" <=> c = User
         /\ c.at = "dead" <=> c = Dead
         /\ c.at \in {"user", "dead", "rfile", "wfile", "install",
                      "read", "rsleep", "write", "wsleep"}
         /\ c.at \notin {"user", "dead"} => c.pi \in Slot
         /\ c.at \in {"wfile", "install"} => c.rf \in File \cup {None}
         /\ c.at = "install" => c.wf \in File \cup {None}
         /\ c.at \in {"read", "rsleep"} => c \in Reads
         /\ c.at \in {"write", "wsleep"} => c \in Writes
<1>1. CASE c = User
  BY <1>1 DEF User, Dead
<1>2. CASE c = Dead
  BY <1>2 DEF User, Dead
<1>3. CASE c \in [at : {"rfile"}, pi : Slot]
  BY <1>3 DEF User, Dead
<1>4. CASE c \in [at : {"wfile"}, pi : Slot, rf : File \cup {None}]
  BY <1>4 DEF User, Dead
<1>5. CASE c \in [at : {"install"}, pi : Slot, rf : File \cup {None}, wf : File \cup {None}]
  BY <1>5 DEF User, Dead
<1>6. CASE c \in [at : {"read", "rsleep"}, pi : Slot, n : 1 .. MaxLen]
  BY <1>6 DEF User, Dead, Reads
<1>7. CASE c \in [at : {"write", "wsleep"}, pi : Slot, n : 1 .. MaxLen,
                  total : 0 .. MaxLen, w : 0 .. Cap]
  BY <1>7 DEF User, Dead, Writes
<1> QED BY <1>1, <1>2, <1>3, <1>4, <1>5, <1>6, <1>7 DEF Calls, Reads, Writes

(* A call that goes to sleep or wakes up, one that goes on.                *)
LEMMA ReadMoves ==
  ASSUME NEW c \in Reads, NEW a \in {"read", "rsleep"}
  PROVE  LET d == [c EXCEPT !.at = a]
         IN  d \in Reads /\ d \in Calls /\ d.at = a /\ d.pi = c.pi /\ d.n = c.n
<1>1. LET d == [c EXCEPT !.at = a]
      IN  d \in Reads /\ d.at = a /\ d.pi = c.pi /\ d.n = c.n
  BY DEF Reads
<1> QED BY <1>1 DEF Calls, Reads

(* The same for writes.                                                    *)
LEMMA WriteMoves ==
  ASSUME NEW c \in Writes, NEW a \in {"write", "wsleep"},
         NEW w \in 0 .. Cap, NEW t \in 0 .. MaxLen
  PROVE  /\ LET d == [c EXCEPT !.at = a]
            IN  /\ d \in Writes /\ d \in Calls /\ d.at = a /\ d.pi = c.pi /\ d.n = c.n
                /\ d.total = c.total /\ d.w = c.w
         /\ LET d == [c EXCEPT !.at = a, !.w = w]
            IN  /\ d \in Writes /\ d \in Calls /\ d.at = a /\ d.pi = c.pi /\ d.n = c.n
                /\ d.total = c.total /\ d.w = w
         /\ LET d == [c EXCEPT !.total = t, !.w = w]
            IN  /\ d \in Writes /\ d \in Calls /\ d.at = c.at /\ d.pi = c.pi /\ d.n = c.n
                /\ d.total = t /\ d.w = w
<1>1. LET d == [c EXCEPT !.at = a]
      IN  /\ d \in Writes /\ d.at = a /\ d.pi = c.pi /\ d.n = c.n
          /\ d.total = c.total /\ d.w = c.w
  BY DEF Writes
<1>2. LET d == [c EXCEPT !.at = a, !.w = w]
      IN  /\ d \in Writes /\ d.at = a /\ d.pi = c.pi /\ d.n = c.n
          /\ d.total = c.total /\ d.w = w
  BY DEF Writes
<1>3. LET d == [c EXCEPT !.total = t, !.w = w]
      IN  /\ d \in Writes /\ d.at = c.at /\ d.pi = c.pi /\ d.n = c.n
          /\ d.total = t /\ d.w = w
  BY DEF Writes
<1>4. Writes \subseteq Calls
  BY DEF Calls, Writes
<1> QED BY <1>1, <1>2, <1>3, <1>4

(* Wakeups make calls of calls, and leave all but the sleepers alone.      *)
LEMMA WakeTypes ==
  ASSUME NEW c \in [Task -> Calls], NEW i \in Slot
  PROVE  /\ WakeReaders(c, i) \in [Task -> Calls]
         /\ WakeWriters(c, i) \in [Task -> Calls]
         /\ \A q \in Task :
              /\ WakeReaders(c, i)[q] =
                   IF c[q].at = "rsleep" /\ c[q].pi = i
                   THEN [c[q] EXCEPT !.at = "read"] ELSE c[q]
              /\ WakeWriters(c, i)[q] =
                   IF c[q].at = "wsleep" /\ c[q].pi = i
                   THEN [c[q] EXCEPT !.at = "write"] ELSE c[q]
<1>1. \A q \in Task : c[q].at = "rsleep" => [c[q] EXCEPT !.at = "read"] \in Calls
  BY Shapes, ReadMoves
<1>2. \A q \in Task : c[q].at = "wsleep" => [c[q] EXCEPT !.at = "write"] \in Calls
  <2>1. \A q \in Task : c[q].at = "wsleep" => c[q] \in Writes
    BY Shapes
  <2>2. 0 \in 0 .. Cap /\ 0 \in 0 .. MaxLen
    BY PipeAssumption
  <2> QED BY <2>1, <2>2, WriteMoves
<1> QED BY <1>1, <1>2 DEF WakeReaders, WakeWriters, WakeAt

(* What the proofs need of the constants.                                  *)
LEMMA Constants ==
  /\ Width \in Nat \ {0} /\ Cap \in Nat \ {0} /\ MaxLen \in Nat /\ Cap < Width
  /\ 0 .. Width - 1 \subseteq Nat /\ Slot \subseteq Nat /\ File \subseteq Nat
  /\ 0 \in 0 .. Width - 1 /\ None \notin Slot /\ None \notin File
BY PipeAssumption DEF Slot, File

(* The fields of a pipe.                                                   *)
LEMMA PipeShape ==
  ASSUME NEW b \in Pipes
  PROVE  /\ b.used \in BOOLEAN /\ b.readopen \in BOOLEAN /\ b.writeopen \in BOOLEAN
         /\ b.nread \in 0 .. Width - 1 /\ b.nwrite \in 0 .. Width - 1
         /\ b.data \in [0 .. Cap - 1 -> Byte]
BY DEF Pipes

(* What making a pipe leaves of it.                                        *)
LEMMA PipeMade ==
  ASSUME NEW b \in Pipes
  PROVE  LET d == [b EXCEPT !.used = TRUE, !.nread = 0, !.nwrite = 0,
                           !.readopen = TRUE, !.writeopen = TRUE]
         IN  /\ d \in Pipes /\ d.used /\ d.readopen /\ d.writeopen
             /\ d.nread = 0 /\ d.nwrite = 0
             /\ d.data = b.data
<1>1. 0 \in 0 .. Width - 1
  BY Constants
<1> QED BY <1>1 DEF Pipes

(* The same for a read.                                                    *)
LEMMA PipeRead ==
  ASSUME NEW b \in Pipes, NEW n \in 0 .. Width - 1
  PROVE  LET d == [b EXCEPT !.nread = n]
         IN  /\ d \in Pipes /\ d.used = b.used /\ d.readopen = b.readopen
             /\ d.writeopen = b.writeopen /\ d.nread = n /\ d.nwrite = b.nwrite
             /\ d.data = b.data
BY DEF Pipes

(* The same when an end is shut.                                           *)
LEMMA PipeShut ==
  ASSUME NEW b \in Pipes, NEW x \in BOOLEAN, NEW y \in BOOLEAN
  PROVE  LET d == [b EXCEPT !.writeopen = x, !.readopen = y]
         IN  /\ d \in Pipes /\ d.used = b.used /\ d.readopen = y /\ d.writeopen = x
             /\ d.nread = b.nread /\ d.nwrite = b.nwrite
             /\ d.data = b.data
BY DEF Pipes

(* The same when the pipe is released.                                     *)
LEMMA PipeFreed ==
  ASSUME NEW b \in Pipes
  PROVE  LET d == [b EXCEPT !.used = FALSE]
         IN  /\ d \in Pipes /\ ~d.used /\ d.readopen = b.readopen
             /\ d.writeopen = b.writeopen /\ d.nread = b.nread /\ d.nwrite = b.nwrite
             /\ d.data = b.data
BY DEF Pipes

(* Counters and sizes.                                                     *)
LEMMA Sizes ==
  ASSUME TypeOK, NEW i \in Slot
  PROVE  /\ pipe[i].nread \in 0 .. Width - 1 /\ pipe[i].nwrite \in 0 .. Width - 1
         /\ Size(i) \in 0 .. Width - 1 /\ Room(i) \in 0 .. Width - 1
         /\ \A x, k \in Nat : Plus(x, k) \in 0 .. Width - 1
         /\ \A x \in Nat : x % Cap \in 0 .. Cap - 1
<1>1. /\ pipe[i].nread \in 0 .. Width - 1 /\ pipe[i].nwrite \in 0 .. Width - 1
      /\ Cap \in Nat \ {0} /\ Width \in Nat \ {0}
  BY PipeAssumption DEF TypeOK, Pipes
<1> QED BY <1>1 DEF Size, Room, Plus

(* What a read returns are bytes.                                          *)
LEMMA BytesType ==
  ASSUME TypeOK, NEW i \in Slot, NEW n \in Nat
  PROVE  Bytes(i, n) \in Seq(Byte) /\ Len(Bytes(i, n)) = n
<1>1. \A j \in 1 .. n : Plus(pipe[i].nread, j - 1) % Cap \in 0 .. Cap - 1
  <2> TAKE j \in 1 .. n
  <2>1. Width \in Nat
    BY PipeAssumption
  <2>2. pipe[i].nread \in 0 .. Width - 1
    BY Sizes
  <2>3. pipe[i].nread \in Nat /\ j - 1 \in Nat
    BY <2>1, <2>2
  <2>4. Plus(pipe[i].nread, j - 1) \in 0 .. Width - 1
    BY <2>3, Sizes
  <2>5. Plus(pipe[i].nread, j - 1) \in Nat
    BY <2>1, <2>4
  <2> QED BY <2>5, Sizes
<1>2. pipe[i].data \in [0 .. Cap - 1 -> Byte]
  BY DEF TypeOK, Pipes
<1>3. Bytes(i, n) \in [1 .. n -> Byte]
  BY <1>1, <1>2 DEF Bytes
<1> QED BY <1>3

(* Bytes that are put into a pipe leave it a pipe.                         *)
LEMMA StoredType ==
  ASSUME TypeOK, NEW i \in Slot, NEW k \in Nat, NEW s \in [1 .. k -> Byte]
  PROVE  /\ Stored(pipe[i], s) \in Pipes
         /\ Stored(pipe[i], s).used = pipe[i].used
         /\ Stored(pipe[i], s).readopen = pipe[i].readopen
         /\ Stored(pipe[i], s).writeopen = pipe[i].writeopen
         /\ Stored(pipe[i], s).nread = pipe[i].nread
         /\ Stored(pipe[i], s).nwrite = Plus(pipe[i].nwrite, k)
<1> DEFINE b == pipe[i]
<1> DEFINE d == [j \in 0 .. Cap - 1 |->
                   LET k1 == ((j + Width - b.nwrite) % Cap) + 1
                   IN  IF k1 <= Len(s) THEN s[k1] ELSE b.data[j]]
<1>1. b \in Pipes /\ Len(s) = k
  BY DEF TypeOK
<1>2. /\ b.nwrite \in 0 .. Width - 1 /\ b.nread \in 0 .. Width - 1
      /\ b.data \in [0 .. Cap - 1 -> Byte] /\ Width \in Nat \ {0} /\ Cap \in Nat \ {0}
      /\ b.used \in BOOLEAN /\ b.readopen \in BOOLEAN /\ b.writeopen \in BOOLEAN
      /\ b = [used |-> b.used, nread |-> b.nread, nwrite |-> b.nwrite,
              readopen |-> b.readopen, writeopen |-> b.writeopen, data |-> b.data]
  BY <1>1, PipeAssumption DEF Pipes
<1> HIDE DEF b
<1>3. ASSUME NEW j \in 0 .. Cap - 1
      PROVE  (LET k1 == ((j + Width - b.nwrite) % Cap) + 1
              IN  IF k1 <= Len(s) THEN s[k1] ELSE b.data[j]) \in Byte
  <2> DEFINE k1 == ((j + Width - b.nwrite) % Cap) + 1
  <2>1. j + Width - b.nwrite \in Nat
    BY <1>2
  <2>2. k1 \in 1 .. Cap
    BY <1>2, <2>1
  <2> HIDE DEF k1
  <2>3. (IF k1 <= Len(s) THEN s[k1] ELSE b.data[j]) \in Byte
    BY <1>1, <1>2, <2>2
  <2> QED BY <2>3 DEF k1
<1>4. d \in [0 .. Cap - 1 -> Byte]
  BY <1>3
<1>6. Plus(b.nwrite, Len(s)) \in 0 .. Width - 1
  BY <1>1, <1>2 DEF Plus
<1> HIDE DEF d
<1>7. Stored(b, s) = [b EXCEPT !.nwrite = Plus(@, Len(s)), !.data = d]
  BY DEF Stored, d
<1>8. Stored(b, s) = [used |-> b.used, nread |-> b.nread, nwrite |-> Plus(b.nwrite, Len(s)),
                      readopen |-> b.readopen, writeopen |-> b.writeopen, data |-> d]
  BY <1>2, <1>7
<1>9. /\ Stored(b, s) \in Pipes /\ Stored(b, s).used = b.used
      /\ Stored(b, s).readopen = b.readopen /\ Stored(b, s).writeopen = b.writeopen
      /\ Stored(b, s).nread = b.nread /\ Stored(b, s).nwrite = Plus(b.nwrite, k)
  BY <1>1, <1>2, <1>4, <1>6, <1>8 DEF Pipes
<1> QED BY <1>9 DEF b
(* A set of numbers that is not empty has a least one.                     *)
LEMMA LeastIn ==
  ASSUME NEW T \in SUBSET Nat, T # {}
  PROVE  Least(T) \in T
<1>1. PICK x \in T : \A y \in T : ~(<<y, x>> \in OpToRel(<, Nat))
  BY NatLessThanWellFounded, WFMin, Zenon
<1>2. \A y \in Nat : y < x => <<y, x>> \in OpToRel(<, Nat)
  BY DEF OpToRel
<1>3. \A y \in T : ~(y < x)
  BY <1>1, <1>2
<1>4. \A y \in T : y \in Nat /\ x \in Nat
  OBVIOUS
<1>5. \A y \in T : x <= y
  BY <1>3, <1>4
<1> QED BY <1>5, Zenon DEF Least

(* file_alloc returns a file that is free.                                 *)
LEMMA FileAllocFree ==
  ASSUME NEW f \in FileAlloc
  PROVE  f \in File \cup {None} /\ (f # None => f \in File /\ file[f].ref = 0)
<1>1. FreeFiles \subseteq File /\ \A g \in FreeFiles : file[g].ref = 0
  BY DEF FreeFiles
<1>2. File \subseteq Nat
  BY PipeAssumption DEF File
<1>3. FreeFiles # {} => Least(FreeFiles) \in FreeFiles
  BY <1>1, <1>2, LeastIn
<1> QED BY <1>1, <1>3 DEF FileAlloc

(* Every step keeps the types.                                             *)
LEMMA TypeStep ==
  ASSUME TypeOK, Unfinished, Held, Files, Next
  PROVE  TypeOK'
<1>0. /\ pipe \in [Slot -> Pipes]
      /\ file \in [File -> [ref : Nat, pipe : Slot \cup {None}, wr : BOOLEAN]]
      /\ fds \in [Task -> SUBSET File] /\ call \in [Task -> Calls]
      /\ jobs \in [Task -> Seq(Jobs)] /\ got \in [Task -> Seq(Byte)]
      /\ User \in Calls /\ Dead \in Calls
  BY DEF TypeOK, Calls
<1> DEFINE F == [ref : Nat, pipe : Slot \cup {None}, wr : BOOLEAN]
<1>a. NoFile \in F /\ [NoFile EXCEPT !.ref = 1] \in F
  BY DEF NoFile
<1>c. \A f \in FileAlloc : Referenced(f) \in [File -> F]
  BY <1>0, <1>a, FileAllocFree DEF Referenced
<1>d. \A p \in Task : call[p].at = "rfile" =>
        \A f \in FileAlloc : [at |-> "wfile", pi |-> call[p].pi, rf |-> f] \in Calls
  BY <1>0, FileAllocFree, Shapes DEF Calls
<1>e. \A p \in Task : call[p].at = "wfile" =>
        \A f \in FileAlloc :
          [at |-> "install", pi |-> call[p].pi, rf |-> call[p].rf, wf |-> f] \in Calls
  BY <1>0, FileAllocFree, Shapes DEF Calls
<1>f. /\ \A f \in File : CloseFile(f) \in Jobs
      /\ \A i \in Slot : FreePipe(i) \in Jobs
      /\ \A i \in Slot, wr \in BOOLEAN : CloseEnd(i, wr) \in Jobs
  BY DEF Jobs
<1>g. ASSUME NEW p \in Task, jobs[p] # <<>>
      PROVE  /\ Head(jobs[p]) \in Jobs /\ Tail(jobs[p]) \in Seq(Jobs)
             /\ Head(jobs[p]).do = "file" => Head(jobs[p]).f \in File
             /\ Head(jobs[p]).do # "file" => Head(jobs[p]).pi \in Slot
  <2>1. Head(jobs[p]) \in Jobs /\ Tail(jobs[p]) \in Seq(Jobs)
    BY <1>0, <1>g
  <2> QED BY <2>1 DEF Jobs, CloseFile, FreePipe, CloseEnd
<1>h. file \in [File -> F]
  BY <1>0
<1> HIDE DEF F
<1>1. ASSUME NEW p \in Task, PoolAlloc(p)
      PROVE  TypeOK'
  <2> DEFINE i == Least({j \in Slot : ~pipe[j].used})
  <2>1. i \in Slot
    <3>1. {j \in Slot : ~pipe[j].used} \subseteq Nat /\ {j \in Slot : ~pipe[j].used} # {}
      BY <1>1, PipeAssumption DEF PoolAlloc, Slot
    <3> QED BY <3>1, LeastIn
  <2> HIDE DEF i
  <2>2. [pipe[i] EXCEPT !.used = TRUE, !.nread = 0, !.nwrite = 0,
                        !.readopen = TRUE, !.writeopen = TRUE] \in Pipes
    BY <1>0, <2>1, PipeMade
  <2>3. [at |-> "rfile", pi |-> i] \in Calls
    BY <2>1 DEF Calls
  <2> QED BY <1>0, <1>1, <2>1, <2>2, <2>3 DEF PoolAlloc, TypeOK, i
<1>2. ASSUME NEW p \in Task, ReadFile(p)
      PROVE  TypeOK'
  BY <1>0, <1>2, <1>c, <1>d DEF ReadFile, TypeOK, F
<1>3. ASSUME NEW p \in Task, WriteFile(p)
      PROVE  TypeOK'
  BY <1>0, <1>3, <1>c, <1>e DEF WriteFile, TypeOK, F
<1>4. ASSUME NEW p \in Task, Install(p)
      PROVE  TypeOK'
  <2>1. call[p].rf \in File /\ call[p].wf \in File /\ call[p].pi \in Slot
    BY <1>0, <1>4, Shapes DEF Install
  <2>2. file' \in [File -> F]
    <3>1. file \in [File -> F]
      BY <1>0 DEF F
    <3>2. \A x \in F, i \in Slot :
            /\ [x EXCEPT !.pipe = i] \in F /\ [x EXCEPT !.wr = TRUE] \in F
      BY DEF F
    <3>3. [file EXCEPT ![call[p].rf].pipe = call[p].pi] \in [File -> F]
      BY <2>1, <3>1, <3>2
    <3>4. [file EXCEPT ![call[p].rf].pipe = call[p].pi,
                       ![call[p].wf].pipe = call[p].pi] \in [File -> F]
      BY <2>1, <3>2, <3>3
    <3>5. file' = [file EXCEPT ![call[p].rf].pipe = call[p].pi,
                               ![call[p].wf].pipe = call[p].pi, ![call[p].wf].wr = TRUE]
      BY <1>4 DEF Install
    <3> QED BY <2>1, <3>2, <3>4, <3>5
  <2>3. <<CloseFile(call[p].rf), CloseFile(call[p].wf)>> \in Seq(Jobs)
    BY <2>1, <1>f
  <2>4. jobs' \in [Task -> Seq(Jobs)] /\ fds' \in [Task -> SUBSET File]
    BY <1>0, <1>4, <2>1, <2>3 DEF Install
  <2> QED BY <1>0, <1>4, <2>2, <2>4 DEF Install, TypeOK, F
<1>5. ASSUME NEW p \in Task, GiveUp(p)
      PROVE  TypeOK'
  <2>1. call[p].rf \in File \cup {None} /\ call[p].wf \in File \cup {None} /\ call[p].pi \in Slot
    BY <1>0, <1>5, Shapes DEF GiveUp
  <2> DEFINE u == IF call[p].rf # None THEN <<CloseFile(call[p].rf)>>
                  ELSE IF call[p].wf # None THEN <<CloseFile(call[p].wf)>> ELSE <<>>
  <2>2. u \in Seq(Jobs) /\ <<FreePipe(call[p].pi)>> \in Seq(Jobs)
    <3>1. call[p].rf # None => <<CloseFile(call[p].rf)>> \in Seq(Jobs)
      BY <2>1, <1>f, RangeShort
    <3>2. call[p].wf # None => <<CloseFile(call[p].wf)>> \in Seq(Jobs)
      BY <2>1, <1>f, RangeShort
    <3>3. <<FreePipe(call[p].pi)>> \in Seq(Jobs)
      BY <2>1, <1>f, RangeShort
    <3> QED BY <3>1, <3>2, <3>3
  <2>3. jobs' = [jobs EXCEPT ![p] = u \o <<FreePipe(call[p].pi)>>]
    BY <1>5 DEF GiveUp
  <2> HIDE DEF u
  <2>4. u \o <<FreePipe(call[p].pi)>> \in Seq(Jobs)
    BY <2>2
  <2> QED BY <1>0, <1>5, <2>3, <2>4 DEF GiveUp, TypeOK
<1>6. ASSUME NEW p \in Task, ReadSleeps(p)
      PROVE  TypeOK'
  <2>1. [call[p] EXCEPT !.at = "rsleep"] \in Calls
    BY <1>0, <1>6, Shapes, ReadMoves DEF ReadSleeps
  <2> QED BY <1>0, <1>6, <2>1 DEF ReadSleeps, TypeOK
<1>7. ASSUME NEW p \in Task, ReadReturns(p)
      PROVE  TypeOK'
  <2> DEFINE i == call[p].pi
             k == Smaller(call[p].n, Size(i))
  <2>1. i \in Slot /\ call[p].n \in Nat
    BY <1>0, <1>7, Shapes, Constants DEF ReadReturns, Reads
  <2>2. k \in Nat
    BY <2>1, Sizes, Constants DEF Smaller
  <2> HIDE DEF k
  <2>3. Bytes(i, k) \in Seq(Byte)
    BY <2>1, <2>2, BytesType
  <2>4. pipe[i].nread \in Nat
    BY <1>0, <2>1, PipeShape, Constants
  <2>5. Plus(pipe[i].nread, k) \in 0 .. Width - 1
    BY <2>1, <2>2, <2>4, Sizes
  <2>6. [pipe[i] EXCEPT !.nread = Plus(@, k)] \in Pipes
    BY <1>0, <2>1, <2>5, PipeRead
  <2>7. call' \in [Task -> Calls]
    BY <1>0, <1>7, <2>1, WakeTypes DEF ReadReturns
  <2>8. /\ got' = [got EXCEPT ![p] = Bytes(i, k)]
        /\ pipe' = [pipe EXCEPT ![i].nread = Plus(@, k)]
        /\ UNCHANGED <<file, fds, jobs>>
    BY <1>7 DEF ReadReturns, k
  <2> HIDE DEF i
  <2>9. pipe' \in [Slot -> Pipes]
    BY <1>0, <2>1, <2>6, <2>8
  <2> QED BY <1>0, <2>3, <2>7, <2>8, <2>9 DEF TypeOK
<1>8. ASSUME NEW p \in Task, WritePuts(p)
      PROVE  TypeOK'
  <2> DEFINE c == call[p]
             i == c.pi
             k == Smaller(Chunk(c) - c.w, Room(i))
  <2>1. /\ c.at = "write" /\ i \in Slot /\ c.n \in 1 .. MaxLen /\ c.total \in 0 .. MaxLen
        /\ c.w \in 0 .. Cap /\ c \in Writes
    BY <1>0, <1>8, Shapes DEF WritePuts, Writes
  <2>2. /\ Chunk(c) \in Nat /\ Chunk(c) <= Cap /\ Chunk(c) <= c.n - c.total
        /\ c.total < c.n /\ c.w < Chunk(c)
    BY <2>1, PipeAssumption DEF Chunk, Smaller, Unfinished
  <2>3. k \in Nat /\ k <= Chunk(c) - c.w
    <3>1. Room(i) \in Nat
      BY <2>1, Sizes, Constants
    <3>2. c.w \in Nat
      BY <2>1
    <3> QED BY <2>2, <3>1, <3>2 DEF Smaller
  <2>4. PICK s \in [1 .. k -> Byte] : pipe' = [pipe EXCEPT ![i] = Stored(@, s)]
    BY <1>8 DEF WritePuts
  <2> HIDE DEF k
  <2>5. Stored(pipe[i], s) \in Pipes
    BY <2>1, <2>3, StoredType
  <2>6. pipe' \in [Slot -> Pipes]
    BY <1>0, <2>1, <2>4, <2>5
  <2> DEFINE woken == WakeReaders(call, i)
  <2>7. woken \in [Task -> Calls] /\ woken[p] = c
    BY <1>0, <2>1, WakeTypes
  <2>8. /\ \/ /\ c.w + k < Chunk(c)
              /\ call' = [woken EXCEPT ![p].at = "wsleep", ![p].w = @ + k]
           \/ /\ c.w + k = Chunk(c) /\ c.total + Chunk(c) < c.n
              /\ call' = [woken EXCEPT ![p].total = @ + Chunk(c), ![p].w = 0]
           \/ call' = [woken EXCEPT ![p] = User]
        /\ UNCHANGED <<file, fds, jobs, got>>
    BY <1>8 DEF WritePuts, k
  <2> HIDE DEF woken, c, i
  <2>9. CASE c.w + k < Chunk(c) /\ call' = [woken EXCEPT ![p].at = "wsleep", ![p].w = @ + k]
    <3>1. c.w + k \in 0 .. Cap /\ 0 \in 0 .. MaxLen
      BY <2>1, <2>2, <2>3, <2>9, Constants
    <3>2. [c EXCEPT !.at = "wsleep", !.w = c.w + k] \in Calls
      BY <2>1, <3>1, WriteMoves
    <3>3. call' = [woken EXCEPT ![p] = [c EXCEPT !.at = "wsleep", !.w = c.w + k]]
      BY <2>7, <2>9
    <3>4. call' \in [Task -> Calls]
      BY <2>7, <3>2, <3>3
    <3> QED BY <1>0, <2>6, <2>8, <3>4 DEF TypeOK
  <2>10. CASE /\ c.w + k = Chunk(c) /\ c.total + Chunk(c) < c.n
              /\ call' = [woken EXCEPT ![p].total = @ + Chunk(c), ![p].w = 0]
    <3>1. c.total + Chunk(c) \in 0 .. MaxLen /\ 0 \in 0 .. Cap
      BY <2>1, <2>2, <2>10, PipeAssumption
    <3>2. [c EXCEPT !.total = c.total + Chunk(c), !.w = 0] \in Calls
      BY <2>1, <3>1, WriteMoves
    <3>3. call' = [woken EXCEPT ![p] = [c EXCEPT !.total = c.total + Chunk(c), !.w = 0]]
      BY <2>7, <2>10
    <3>4. call' \in [Task -> Calls]
      BY <2>7, <3>2, <3>3
    <3> QED BY <1>0, <2>6, <2>8, <3>4 DEF TypeOK
  <2>11. CASE call' = [woken EXCEPT ![p] = User]
    BY <1>0, <2>6, <2>7, <2>8, <2>11 DEF TypeOK
  <2> QED BY <2>8, <2>9, <2>10, <2>11
<1>9. ASSUME NEW p \in Task, WriteBroken(p)
      PROVE  TypeOK'
  BY <1>0, <1>9 DEF WriteBroken, TypeOK
<1>10. ASSUME NEW p \in Task, TimerWakes(p)
       PROVE  TypeOK'
  <2>1. 0 \in 0 .. Cap /\ 0 \in 0 .. MaxLen
    BY PipeAssumption
  <2>2. [call[p] EXCEPT !.at = IF @ = "rsleep" THEN "read" ELSE "write"] \in Calls
    <3>1. CASE call[p].at = "rsleep"
      <4>1. call[p] \in Reads
        BY <1>0, <3>1, Shapes
      <4>2. [call[p] EXCEPT !.at = "read"] \in Calls
        BY <4>1, ReadMoves
      <4> QED BY <3>1, <4>2
    <3>2. CASE call[p].at = "wsleep"
      <4>1. call[p] \in Writes
        BY <1>0, <3>2, Shapes
      <4>2. [call[p] EXCEPT !.at = "write"] \in Calls
        BY <2>1, <4>1, WriteMoves
      <4> QED BY <3>2, <4>2
    <3> QED BY <1>10, <3>1, <3>2 DEF TimerWakes
  <2> QED BY <1>0, <1>10, <2>2 DEF TimerWakes, TypeOK
<1>11. ASSUME NEW p \in Task, DropRef(p)
       PROVE  TypeOK'
  <2> DEFINE f == Head(jobs[p]).f
  <2>1. f \in File /\ Tail(jobs[p]) \in Seq(Jobs) /\ file[f] \in F /\ file[f].ref \in Nat
    BY <1>0, <1>11, <1>g DEF DropRef, F
  <2>2. /\ file' = [file EXCEPT ![f] = IF file[f].ref = 1 THEN NoFile
                                       ELSE [file[f] EXCEPT !.ref = @ - 1]]
        /\ jobs' = [jobs EXCEPT ![p] =
                      IF file[f].ref = 1 /\ file[f].pipe # None
                      THEN <<CloseEnd(file[f].pipe, file[f].wr)>> \o Tail(@) ELSE Tail(@)]
        /\ UNCHANGED <<pipe, fds, call, got>>
    BY <1>11 DEF DropRef
  <2>3. file[f].ref \in Nat \ {0}
    <3>1. CloseFile(f) \in Range(jobs[p])
      BY <1>0, <1>11, NextJob DEF DropRef, f
    <3> QED BY <2>1, <3>1 DEF Held, Closing
  <2> HIDE DEF f
  <2>4. file' \in [File -> F]
    <3>1. [file[f] EXCEPT !.ref = file[f].ref - 1] \in F
      BY <2>1, <2>3 DEF F
    <3>2. CASE file[f].ref = 1
      <4>1. file' = [file EXCEPT ![f] = NoFile]
        BY <2>2, <3>2
      <4> QED BY <1>h, <1>a, <2>1, <4>1
    <3>3. CASE file[f].ref # 1
      <4>1. file' = [file EXCEPT ![f].ref = @ - 1]
        BY <2>2, <3>3
      <4> QED BY <1>h, <2>1, <3>1, <4>1
    <3> QED BY <3>2, <3>3
  <2>5. jobs' \in [Task -> Seq(Jobs)]
    <3>1. file[f].pipe # None => CloseEnd(file[f].pipe, file[f].wr) \in Jobs
      BY <1>f, <2>1 DEF F
    <3> DEFINE e == CloseEnd(file[f].pipe, file[f].wr)
    <3>2. file[f].pipe # None => <<e>> \o Tail(jobs[p]) \in Seq(Jobs)
      BY <2>1, <3>1
    <3> QED BY <1>0, <2>1, <2>2, <3>2
  <2> QED BY <1>0, <2>2, <2>4, <2>5 DEF TypeOK, F
<1>12. ASSUME NEW p \in Task, End(p)
       PROVE  TypeOK'
  <2> DEFINE j == Head(jobs[p])
             i == j.pi
             x == pipe[i].writeopen /\ ~j.wr
             y == pipe[i].readopen /\ j.wr
  <2>1. /\ j = CloseEnd(i, j.wr) /\ i \in Slot /\ j.wr \in BOOLEAN /\ pipe[i] \in Pipes
        /\ Tail(jobs[p]) \in Seq(Jobs)
    BY <1>0, <1>12, <1>g, NextJob DEF End, Ends
  <2>2. /\ pipe' = [pipe EXCEPT ![i] = [pipe[i] EXCEPT !.writeopen = x, !.readopen = y]]
        /\ call' = IF j.wr THEN WakeReaders(call, i) ELSE WakeWriters(call, i)
        /\ \/ jobs' = [jobs EXCEPT ![p] = Tail(@)]
           \/ jobs' = [jobs EXCEPT ![p] = <<FreePipe(i)>> \o Tail(@)]
        /\ UNCHANGED <<file, fds, got>>
    BY <1>12 DEF End, Ends
  <2> HIDE DEF j, i
  <2>3. x \in BOOLEAN /\ y \in BOOLEAN
    OBVIOUS
  <2> HIDE DEF x, y
  <2>4. pipe' \in [Slot -> Pipes]
    BY <1>0, <2>1, <2>2, <2>3, PipeShut
  <2>5. call' \in [Task -> Calls]
    BY <1>0, <2>1, <2>2, WakeTypes
  <2>6. <<FreePipe(i)>> \o Tail(jobs[p]) \in Seq(Jobs)
    <3>1. <<FreePipe(i)>> \in Seq(Jobs)
      BY <2>1, <1>f, RangeShort
    <3> QED BY <2>1, <3>1
  <2>7. jobs' \in [Task -> Seq(Jobs)]
    BY <1>0, <2>1, <2>2, <2>6
  <2> QED BY <1>0, <2>2, <2>4, <2>5, <2>7 DEF TypeOK
<1>13. ASSUME NEW p \in Task, PoolFree(p)
       PROVE  TypeOK'
  <2>1. Head(jobs[p]).pi \in Slot /\ Tail(jobs[p]) \in Seq(Jobs)
    BY <1>0, <1>13, <1>g DEF PoolFree
  <2>2. pipe' \in [Slot -> Pipes]
    BY <1>0, <1>13, <2>1, PipeFreed DEF PoolFree
  <2> QED BY <1>0, <1>13, <2>1, <2>2 DEF PoolFree, TypeOK
<1>14. ASSUME NEW p \in Task, Die(p)
       PROVE  TypeOK'
  <2>1. PICK s \in SetToSeqs(fds[p]) :
          jobs' = [jobs EXCEPT ![p] = [k \in DOMAIN s |-> CloseFile(s[k])]]
    BY <1>14 DEF Die
  <2>2. [k \in DOMAIN s |-> CloseFile(s[k])] \in Seq(Jobs)
    BY <1>0, CloseAll
  <2> QED BY <1>0, <1>14, <2>1, <2>2 DEF Die, TypeOK
<1>15. ASSUME NEW p \in Task, NEW f \in fds[p], Close(p, f)
       PROVE  TypeOK'
  <2>1. f \in File
    BY <1>0
  <2>2. <<CloseFile(f)>> \in Seq(Jobs)
    BY <2>1, <1>f, RangeShort
  <2> QED BY <1>0, <1>15, <2>1, <2>2 DEF Close, TypeOK
<1>16. ASSUME NEW p \in Task, NEW f \in fds[p], NEW n \in 1 .. MaxLen, StartRead(p, f, n)
       PROVE  TypeOK'
  <2>1. file[f].pipe \in Slot
    BY <1>16 DEF Files
  <2>2. [at |-> "read", pi |-> file[f].pipe, n |-> n] \in Calls
    BY <2>1 DEF Calls
  <2>3. <<>> \in Seq(Byte)
    OBVIOUS
  <2> QED BY <1>0, <1>16, <2>2, <2>3 DEF StartRead, TypeOK
<1>17. ASSUME NEW p \in Task, NEW f \in fds[p], NEW n \in 1 .. MaxLen, StartWrite(p, f, n)
       PROVE  TypeOK'
  <2>1. file[f].pipe \in Slot /\ 0 \in 0 .. MaxLen /\ 0 \in 0 .. Cap
    BY <1>17, PipeAssumption DEF Files
  <2>2. [at |-> "write", pi |-> file[f].pipe, n |-> n, total |-> 0, w |-> 0] \in Calls
    BY <2>1 DEF Calls
  <2> QED BY <1>0, <1>17, <2>2 DEF StartWrite, TypeOK
<1>18. ASSUME NEW p \in Task, NEW c \in Task, Fork(p, c)
       PROVE  TypeOK'
  <2>1. file' \in [File -> F]
    <3>1. ASSUME NEW f \in File
          PROVE  file[f] \in F /\ [file[f] EXCEPT !.ref = @ + 1] \in F
      <4>1. file[f] \in F /\ file[f].ref \in Nat
        BY <1>h DEF F
      <4> QED BY <4>1 DEF F
    <3> QED BY <1>18, <3>1 DEF Fork
  <2>2. <<>> \in Seq(Byte)
    OBVIOUS
  <2> QED BY <1>0, <1>18, <2>1, <2>2 DEF Fork, TypeOK, F
<1> QED BY Zenon, <1>1, <1>2, <1>3, <1>4, <1>5, <1>6, <1>7, <1>8, <1>9, <1>10, <1>11, <1>12,
          <1>13, <1>14, <1>15, <1>16, <1>17, <1>18 DEF Next
-----------------------------------------------------------------------------
(* The references.                                                         *)

(* A call of pipe2 that has a slot.                                        *)
Busy(c) == c.at \in {"rfile", "wfile", "install"}
InPipe(c) == c.at \in {"read", "rsleep", "write", "wsleep"}

(* The calls before and after a step that makes, frees and closes nothing. *)
SameCalls ==
  \A q \in Task :
    /\ Busy(call[q]) \/ Busy(call'[q]) => call'[q] = call[q]
    /\ call'[q] = Dead <=> call[q] = Dead
    /\ jobs[q] # <<>> => call'[q] = call[q]

SamePipes ==
  \A i \in Slot :
    /\ pipe'[i].used = pipe[i].used /\ pipe'[i].readopen = pipe[i].readopen
    /\ pipe'[i].writeopen = pipe[i].writeopen

(* The two ends of reading and writing.                                    *)
Reader(p) ==
  ReadSleeps(p) \/ ReadReturns(p) \/ WritePuts(p) \/ WriteBroken(p) \/ TimerWakes(p)
Start(p) ==
  \E f \in fds[p] : \E n \in 1 .. MaxLen : StartRead(p, f, n) \/ StartWrite(p, f, n)

(* Wakeups wake sleepers and do nothing else.                              *)
LEMMA WakeFrame ==
  ASSUME NEW c \in [Task -> Calls], NEW i \in Slot, NEW q \in Task,
         NEW d \in {WakeReaders(c, i), WakeWriters(c, i)}
  PROVE  /\ Busy(c[q]) \/ Busy(d[q]) => d[q] = c[q]
         /\ d[q] = Dead <=> c[q] = Dead
         /\ ~InPipe(c[q]) => d[q] = c[q]
         /\ InPipe(c[q]) =>
              /\ d[q].pi = c[q].pi /\ InPipe(d[q])
              /\ d[q].at \in {"read", "rsleep"} <=> c[q].at \in {"read", "rsleep"}
<1>1. c[q].at = "rsleep" =>
        /\ [c[q] EXCEPT !.at = "read"].at = "read"
        /\ [c[q] EXCEPT !.at = "read"].pi = c[q].pi
  BY Shapes, ReadMoves
<1>2. c[q].at = "wsleep" =>
        /\ [c[q] EXCEPT !.at = "write"].at = "write"
        /\ [c[q] EXCEPT !.at = "write"].pi = c[q].pi
  <2>1. 0 \in 0 .. Cap /\ 0 \in 0 .. MaxLen
    BY PipeAssumption
  <2>2. c[q].at = "wsleep" => c[q] \in Writes
    BY Shapes
  <2> QED BY <2>1, <2>2, WriteMoves
<1>3. \/ d[q] = c[q]
      \/ c[q].at = "rsleep" /\ d[q] = [c[q] EXCEPT !.at = "read"]
      \/ c[q].at = "wsleep" /\ d[q] = [c[q] EXCEPT !.at = "write"]
  BY WakeTypes
<1>4. CASE d[q] = c[q]
  BY <1>4 DEF InPipe
<1>5. CASE c[q].at = "rsleep" /\ d[q] = [c[q] EXCEPT !.at = "read"]
  BY <1>1, <1>5 DEF Busy, InPipe, Dead
<1>6. CASE c[q].at = "wsleep" /\ d[q] = [c[q] EXCEPT !.at = "write"]
  BY <1>2, <1>6 DEF Busy, InPipe, Dead
<1> QED BY <1>3, <1>4, <1>5, <1>6

(* A read or a write that goes on, or begins, leaves the references alone. *)
LEMMA IOFrame ==
  ASSUME TypeOK, Unfinished, Idle, NEW p \in Task, Reader(p) \/ Start(p)
  PROVE  SameCalls /\ SamePipes /\ UNCHANGED <<file, fds, jobs>>
<1>0. /\ pipe \in [Slot -> Pipes] /\ call \in [Task -> Calls]
      /\ jobs \in [Task -> Seq(Jobs)] /\ fds \in [Task -> SUBSET File]
  BY DEF TypeOK
<1>1. UNCHANGED <<file, fds, jobs>>
  BY DEF Reader, Start, ReadSleeps, ReadReturns, WritePuts, WriteBroken, TimerWakes,
         StartRead, StartWrite
<1>2. \A c \in Calls : InPipe(c) => ~Busy(c) /\ c # User /\ c # Dead
  BY DEF InPipe, Busy, User, Dead
<1>3. ~Busy(User) /\ User # Dead
  BY DEF Busy, User, Dead
<1>4. ASSUME ~Busy(call[p]), ~Busy(call'[p]), call[p] # Dead, call'[p] # Dead, jobs[p] = <<>>,
             \A q \in Task \ {p} :
               /\ Busy(call[q]) \/ Busy(call'[q]) => call'[q] = call[q]
               /\ call'[q] = Dead <=> call[q] = Dead
               /\ ~InPipe(call[q]) => call'[q] = call[q]
      PROVE  SameCalls
  <2>1. \A q \in Task : jobs[q] # <<>> => ~InPipe(call[q])
    BY DEF Idle, InPipe, User, Dead
  <2> QED BY <1>4, <2>1 DEF SameCalls
<1>5. InPipe(call[p]) => jobs[p] = <<>>
  BY DEF Idle, InPipe, User, Dead
<1>6. CASE ReadSleeps(p)
  <2>1. call[p] \in Reads /\ call' = [call EXCEPT ![p].at = "rsleep"] /\ pipe' = pipe
    BY <1>0, <1>6, Shapes DEF ReadSleeps
  <2>2. InPipe(call[p]) /\ InPipe(call'[p])
    BY <1>0, <2>1, ReadMoves DEF InPipe, Reads
  <2>3. \A q \in Task \ {p} : call'[q] = call[q]
    BY <1>0, <2>1
  <2>4. SameCalls
    BY <1>0, <1>2, <1>4, <1>5, <2>2, <2>3 DEF InPipe, Busy, Dead
  <2> QED BY <1>1, <2>1, <2>4 DEF SamePipes
<1>7. CASE ReadReturns(p)
  <2> DEFINE i == call[p].pi
             k == Smaller(call[p].n, Size(i))
  <2>1. /\ call[p] \in Reads /\ i \in Slot /\ call[p].n \in Nat
        /\ call' = [WakeWriters(call, i) EXCEPT ![p] = User]
        /\ pipe' = [pipe EXCEPT ![i].nread = Plus(@, k)]
    BY <1>0, <1>7, Shapes, Constants DEF ReadReturns, Reads
  <2>2. WakeWriters(call, i) \in [Task -> Calls]
    BY <1>0, <2>1, WakeTypes
  <2>3. call'[p] = User /\ \A q \in Task \ {p} : call'[q] = WakeWriters(call, i)[q]
    BY <2>1, <2>2
  <2>4. InPipe(call[p])
    BY <2>1 DEF InPipe, Reads
  <2>5. SameCalls
    <3>1. ~Busy(call[p]) /\ call[p] # Dead /\ ~Busy(call'[p]) /\ call'[p] # Dead
      BY <2>3, <2>4, <1>3 DEF InPipe, Busy, Dead, User
    <3> DEFINE woken == WakeWriters(call, i)
    <3>2. woken \in {WakeReaders(call, i), WakeWriters(call, i)}
      OBVIOUS
    <3>3. \A q \in Task \ {p} : call'[q] = woken[q]
      BY <2>3
    <3>4. i \in Slot
      BY <2>1
    <3> HIDE DEF woken, k, i
    <3>5. ASSUME NEW q \in Task
          PROVE  /\ Busy(call[q]) \/ Busy(woken[q]) => woken[q] = call[q]
                 /\ woken[q] = Dead <=> call[q] = Dead
                 /\ ~InPipe(call[q]) => woken[q] = call[q]
      BY <1>0, <3>2, <3>4, WakeFrame, Zenon
    <3>6. \A q \in Task \ {p} :
            /\ Busy(call[q]) \/ Busy(call'[q]) => call'[q] = call[q]
            /\ call'[q] = Dead <=> call[q] = Dead
            /\ ~InPipe(call[q]) => call'[q] = call[q]
      BY <3>3, <3>5
    <3> QED BY <1>4, <1>5, <2>4, <3>1, <3>6
  <2>6. SamePipes
    <3>1. \A j \in Slot : pipe[j] \in Pipes
      BY <1>0
    <3>2. k \in Nat /\ pipe[i].nread \in Nat
      BY <2>1, <3>1, Sizes, PipeShape, Constants DEF Smaller
    <3>3. Plus(pipe[i].nread, k) \in 0 .. Width - 1
      BY <2>1, <3>2, Sizes
    <3> HIDE DEF i, k
    <3>4. pipe' = [pipe EXCEPT ![i] = [pipe[i] EXCEPT !.nread = Plus(@, k)]]
      BY <1>0, <2>1
    <3> QED BY <1>0, <2>1, <3>1, <3>3, <3>4, PipeRead DEF SamePipes
  <2> QED BY <1>1, <2>5, <2>6
<1>8. CASE WritePuts(p)
  <2> DEFINE c == call[p]
             i == c.pi
             k == Smaller(Chunk(c) - c.w, Room(i))
             woken == WakeReaders(call, i)
  <2>1. /\ c \in Writes /\ i \in Slot /\ c.n \in Nat /\ c.total \in Nat /\ c.w \in Nat
        /\ c.at = "write"
    BY <1>0, <1>8, Shapes, Constants DEF WritePuts, Writes
  <2>2. Chunk(c) \in Nat /\ c.w < Chunk(c)
    BY <2>1, Constants DEF Chunk, Smaller, Unfinished
  <2>3. k \in Nat
    <3>1. Room(i) \in Nat
      BY <2>1, Sizes, Constants
    <3> QED BY <2>1, <2>2, <3>1 DEF Smaller
  <2>4. PICK s \in [1 .. k -> Byte] : pipe' = [pipe EXCEPT ![i] = Stored(@, s)]
    BY <1>8 DEF WritePuts
  <2>5. SamePipes
    <3> HIDE DEF k, i
    <3>1. pipe' = [pipe EXCEPT ![i] = Stored(pipe[i], s)]
      BY <2>4
    <3> QED BY <1>0, <2>1, <2>3, <3>1, StoredType DEF SamePipes
  <2>6. woken \in [Task -> Calls]
    BY <1>0, <2>1, WakeTypes
  <2>7. woken[p] = c
    BY <1>0, <2>1, WakeTypes
  <2>8. /\ \A q \in Task \ {p} : call'[q] = woken[q]
        /\ \/ call'[p] = [c EXCEPT !.at = "wsleep", !.w = @ + k]
           \/ call'[p] = [c EXCEPT !.total = @ + Chunk(c), !.w = 0]
           \/ call'[p] = User
    <3>1. \/ call' = [woken EXCEPT ![p].at = "wsleep", ![p].w = @ + k]
          \/ call' = [woken EXCEPT ![p].total = @ + Chunk(c), ![p].w = 0]
          \/ call' = [woken EXCEPT ![p] = User]
      BY <1>8 DEF WritePuts
    <3> HIDE DEF woken, c, k
    <3> QED BY <2>6, <2>7, <3>1
  <2>9. call'[p] = User \/ InPipe(call'[p])
    <3>1. [c EXCEPT !.at = "wsleep", !.w = @ + k].at = "wsleep"
      BY <2>1 DEF Writes
    <3>2. [c EXCEPT !.total = @ + Chunk(c), !.w = 0].at = "write"
      BY <2>1 DEF Writes
    <3> QED BY <2>8, <3>1, <3>2 DEF InPipe
  <2>10. InPipe(call[p])
    BY <2>1 DEF InPipe
  <2>11. SameCalls
    <3>1. ~Busy(call[p]) /\ call[p] # Dead /\ ~Busy(call'[p]) /\ call'[p] # Dead
      BY <2>9, <2>10, <1>3 DEF InPipe, Busy, Dead, User
    <3> HIDE DEF woken, c, i
    <3>2. woken \in {WakeReaders(call, i), WakeWriters(call, i)}
      BY DEF woken
    <3>3. i \in Slot
      BY <2>1
    <3>5. ASSUME NEW q \in Task
          PROVE  /\ Busy(call[q]) \/ Busy(woken[q]) => woken[q] = call[q]
                 /\ woken[q] = Dead <=> call[q] = Dead
                 /\ ~InPipe(call[q]) => woken[q] = call[q]
      BY <1>0, <3>2, <3>3, WakeFrame, Zenon
    <3>6. \A q \in Task \ {p} :
            /\ Busy(call[q]) \/ Busy(call'[q]) => call'[q] = call[q]
            /\ call'[q] = Dead <=> call[q] = Dead
            /\ ~InPipe(call[q]) => call'[q] = call[q]
      BY <2>8, <3>5
    <3> QED BY <1>4, <1>5, <2>10, <3>1, <3>6
  <2> QED BY <1>1, <2>5, <2>11
<1>9. CASE WriteBroken(p)
  <2>1. InPipe(call[p]) /\ call' = [call EXCEPT ![p] = User] /\ pipe' = pipe
    BY <1>9 DEF WriteBroken, InPipe
  <2>2. call'[p] = User /\ \A q \in Task \ {p} : call'[q] = call[q]
    BY <1>0, <2>1
  <2>3. SameCalls
    BY <1>0, <1>2, <1>3, <1>4, <1>5, <2>1, <2>2
  <2> QED BY <1>1, <2>1, <2>3 DEF SamePipes
<1>10. CASE TimerWakes(p)
  <2>1. /\ InPipe(call[p]) /\ pipe' = pipe
        /\ call' = [call EXCEPT ![p].at = IF @ = "rsleep" THEN "read" ELSE "write"]
    BY <1>10 DEF TimerWakes, InPipe
  <2>2. \A q \in Task \ {p} : call'[q] = call[q]
    BY <1>0, <2>1
  <2>3. InPipe(call'[p])
    <3>1. CASE call[p].at = "rsleep"
      <4>1. call'[p] = [call[p] EXCEPT !.at = "read"]
        BY <1>0, <2>1, <3>1
      <4> QED BY <1>0, <3>1, <4>1, Shapes, ReadMoves DEF InPipe
    <3>2. CASE call[p].at = "wsleep"
      <4>1. call'[p] = [call[p] EXCEPT !.at = "write"]
        BY <1>0, <2>1, <3>2
      <4>2. [call[p] EXCEPT !.at = "write"].at = "write"
        BY <1>0, <3>2, Shapes DEF Writes
      <4> QED BY <4>1, <4>2 DEF InPipe
    <3> QED BY <1>10, <3>1, <3>2 DEF TimerWakes
  <2>4. SameCalls
    BY <1>0, <1>4, <1>5, <2>1, <2>2, <2>3 DEF InPipe, Busy, Dead
  <2> QED BY <1>1, <2>1, <2>4 DEF SamePipes
<1>11. CASE Start(p)
  <2>1. /\ call[p] = User /\ jobs[p] = <<>> /\ pipe' = pipe
        /\ \A q \in Task \ {p} : call'[q] = call[q]
        /\ InPipe(call'[p])
    BY <1>0, <1>11 DEF Start, StartRead, StartWrite, InUser, InPipe
  <2>2. SameCalls
    BY <1>0, <1>4, <2>1 DEF InPipe, Busy, Dead, User
  <2> QED BY <1>1, <2>1, <2>2 DEF SamePipes
<1>12. \/ ReadSleeps(p) \/ ReadReturns(p) \/ WritePuts(p) \/ WriteBroken(p)
       \/ TimerWakes(p) \/ Start(p)
  BY Zenon DEF Reader
<1> QED BY Zenon, <1>6, <1>7, <1>8, <1>9, <1>10, <1>11, <1>12
(* Sets are told by the calls, the tables and the jobs.                    *)
SameHolders ==
  /\ \A f \in File : /\ Having(f)' = Having(f) /\ Reading(f)' = Reading(f)
                     /\ Writing(f)' = Writing(f) /\ Closing(f)' = Closing(f)
  /\ \A i \in Slot : /\ Making(i)' = Making(i) /\ FilesOf(i)' = FilesOf(i)
                     /\ Releasing(i)' = Releasing(i)
                     /\ \A wr \in BOOLEAN : Ending(i, wr)' = Ending(i, wr)

(* The invariant, apart from the types and the descriptors of the callers. *)
Refs == Idle /\ Files /\ Fresh /\ RefsExact /\ Pool
Queues ==
  /\ \A p \in Task : Distinct(jobs[p])
  /\ \A p \in Task : \A e \in Todo(p) : e.do = "end" => e = Head(jobs[p])

(* Calls of pipe2 that go on unchanged are counted as before.              *)
LEMMA SameMaking ==
  ASSUME SameCalls
  PROVE  /\ \A f \in File : Reading(f)' = Reading(f) /\ Writing(f)' = Writing(f)
         /\ \A i \in Slot : Making(i)' = Making(i)
<1>1. \A f \in File : Reading(f)' = Reading(f)
  BY DEF SameCalls, Reading, Busy
<1>2. \A f \in File : Writing(f)' = Writing(f)
  BY DEF SameCalls, Writing, Busy
<1>3. \A i \in Slot : Making(i)' = Making(i)
  BY DEF SameCalls, Making, Busy
<1> QED BY <1>1, <1>2, <1>3

(* A step that moves no reference keeps them right.                        *)
LEMMA RefsKept ==
  ASSUME Refs, Queues, SameCalls, SamePipes, UNCHANGED <<file, fds, jobs>>
  PROVE  Refs' /\ Queues'
<1>1. SameHolders
  BY SameMaking DEF SameHolders, Having, Closing, FilesOf, Releasing, Ending
<1>2. Idle'
  BY DEF Refs, Idle, SameCalls
<1>3. Files'
  BY DEF Refs, Files
<1>4. Fresh'
  BY DEF Refs, Fresh, SameCalls, New, Busy
<1>5. RefsExact'
  BY <1>1 DEF Refs, RefsExact, SameHolders
<1>6. ASSUME NEW i \in Slot
      PROVE  BeingMade(i)' /\ BeingFreed(i)' /\ \A wr \in BOOLEAN : EndOwned(i, wr)'
  <2>1. BeingMade(i) /\ BeingFreed(i) /\ \A wr \in BOOLEAN : EndOwned(i, wr)
    BY DEF Refs, Pool
  <2>2. BeingMade(i)'
    BY <1>1, <2>1 DEF BeingMade, SameHolders, SamePipes
  <2>3. BeingFreed(i)'
    BY <1>1, <2>1 DEF BeingFreed, SameHolders, SamePipes
  <2>4. ASSUME NEW wr \in BOOLEAN
        PROVE  EndOwned(i, wr)'
    BY <1>1, <2>1 DEF EndOwned, SameHolders, SamePipes, Open
  <2> QED BY <2>2, <2>3, <2>4
<1>7. Pool'
  BY <1>6 DEF Pool
<1>8. Queues'
  BY DEF Queues, Todo
<1> QED BY <1>2, <1>3, <1>4, <1>5, <1>7, <1>8 DEF Refs
(* The four sets of holders are sets of processes; what one or no          *)
(* reference says about them.                                              *)
LEMMA Holders ==
  ASSUME RefsExact, NEW f \in File
  PROVE  /\ Having(f) \subseteq Task /\ Reading(f) \subseteq Task
         /\ Writing(f) \subseteq Task /\ Closing(f) \subseteq Task
         /\ file[f].ref = 0 <=> /\ Having(f) = {} /\ Reading(f) = {}
                                /\ Writing(f) = {} /\ Closing(f) = {}
         /\ file[f].ref = 1 =>
              /\ Having(f) # {} => Reading(f) = {} /\ Writing(f) = {} /\ Closing(f) = {}
              /\ Reading(f) # {} => Having(f) = {} /\ Writing(f) = {} /\ Closing(f) = {}
              /\ Writing(f) # {} => Having(f) = {} /\ Reading(f) = {} /\ Closing(f) = {}
              /\ Closing(f) # {} => Having(f) = {} /\ Reading(f) = {} /\ Writing(f) = {}
              /\ \A p, q \in Reading(f) : p = q
              /\ \A p, q \in Writing(f) : p = q
              /\ \A p, q \in Closing(f) : p = q
<1> DEFINE H == Having(f)
           R == Reading(f)
           W == Writing(f)
           C == Closing(f)
<1>1. H \subseteq Task /\ R \subseteq Task /\ W \subseteq Task /\ C \subseteq Task
  BY DEF Having, Reading, Writing, Closing
<1>2. file[f].ref = Cardinality(H) + Cardinality(R) + Cardinality(W) + Cardinality(C)
  BY DEF RefsExact
<1> HIDE DEF H, R, W, C
<1>3. ASSUME NEW T \in {H, R, W, C}
      PROVE  Cardinality(T) \in Nat /\ (Cardinality(T) = 0 <=> T = {})
  BY <1>1, <1>3, Counting
<1>4. ASSUME NEW T \in {H, R, W, C}, Cardinality(T) <= 1
      PROVE  \A p, q \in T : p = q
  <2> TAKE p, q \in T
  <2>1. T \in SUBSET Task /\ Cardinality(T \ {p}) = Cardinality(T) - 1
    BY <1>1, <1>4, Counting
  <2>2. Cardinality(T \ {p}) = 0
    <3>1. T \ {p} \in SUBSET Task
      BY <2>1
    <3>2. Cardinality(T \ {p}) \in Nat /\ Cardinality(T) \in Nat
      BY <3>1, <2>1, Counting
    <3> QED BY <3>2, <2>1, <1>4
  <2>3. T \ {p} = {}
    BY <2>1, <2>2, Counting
  <2> QED BY <2>3
<1>a. /\ Cardinality(H) \in Nat /\ (Cardinality(H) = 0 <=> H = {})
      /\ Cardinality(R) \in Nat /\ (Cardinality(R) = 0 <=> R = {})
      /\ Cardinality(W) \in Nat /\ (Cardinality(W) = 0 <=> W = {})
      /\ Cardinality(C) \in Nat /\ (Cardinality(C) = 0 <=> C = {})
  BY <1>3
<1>5. file[f].ref = 0 <=> H = {} /\ R = {} /\ W = {} /\ C = {}
  <2>1. PICK h, r, w, c \in Nat :
          /\ h = Cardinality(H) /\ r = Cardinality(R) /\ w = Cardinality(W) /\ c = Cardinality(C)
    BY <1>a
  <2>2. file[f].ref = h + r + w + c
    BY <1>2, <2>1
  <2>3. file[f].ref = 0 <=> h = 0 /\ r = 0 /\ w = 0 /\ c = 0
    BY <2>2
  <2> QED BY <2>1, <2>3, <1>a
<1>6. file[f].ref = 1 =>
        /\ H # {} => R = {} /\ W = {} /\ C = {}
        /\ R # {} => H = {} /\ W = {} /\ C = {}
        /\ W # {} => H = {} /\ R = {} /\ C = {}
        /\ C # {} => H = {} /\ R = {} /\ W = {}
        /\ Cardinality(R) <= 1 /\ Cardinality(W) <= 1 /\ Cardinality(C) <= 1
  BY <1>2, <1>3
<1> QED BY <1>1, <1>4, <1>5, <1>6 DEF H, R, W, C

(* pipe_pool_alloc takes a slot nobody answers for.                        *)
LEMMA PoolAllocKeeps ==
  ASSUME TypeOK, Refs, Queues, NEW p \in Task, PoolAlloc(p)
  PROVE  Refs' /\ Queues'
<1>0. /\ pipe \in [Slot -> Pipes] /\ call \in [Task -> Calls]
  BY DEF TypeOK
<1>1. PICK i \in Slot : i = Least({j \in Slot : ~pipe[j].used}) /\ ~pipe[i].used
  <2>1. {j \in Slot : ~pipe[j].used} \subseteq Nat /\ {j \in Slot : ~pipe[j].used} # {}
    BY Constants DEF PoolAlloc
  <2> QED BY <2>1, LeastIn
<1>2. /\ pipe' = [pipe EXCEPT ![i] = [pipe[i] EXCEPT !.used = TRUE, !.nread = 0, !.nwrite = 0,
                                              !.readopen = TRUE, !.writeopen = TRUE]]
      /\ call' = [call EXCEPT ![p] = [at |-> "rfile", pi |-> i]]
      /\ UNCHANGED <<file, fds, jobs>> /\ call[p] = User /\ jobs[p] = <<>>
  BY <1>0, <1>1 DEF PoolAlloc, InUser
<1>3. /\ call'[p] = [at |-> "rfile", pi |-> i] /\ \A q \in Task \ {p} : call'[q] = call[q]
      /\ pipe'[i].used /\ pipe'[i].readopen /\ pipe'[i].writeopen
      /\ \A j \in Slot \ {i} : pipe'[j] = pipe[j]
  BY <1>0, <1>1, <1>2, PipeMade
<1>4. /\ call'[p].at = "rfile" /\ call'[p].pi = i /\ call[p].at = "user"
      /\ call'[p] # User /\ call'[p] # Dead
  BY <1>2, <1>3 DEF User, Dead
<1>5. \A f \in File : /\ Having(f)' = Having(f) /\ Reading(f)' = Reading(f)
                      /\ Writing(f)' = Writing(f) /\ Closing(f)' = Closing(f)
  BY <1>2, <1>3, <1>4 DEF Having, Reading, Writing, Closing
<1>6. /\ \A j \in Slot : /\ FilesOf(j)' = FilesOf(j) /\ Releasing(j)' = Releasing(j)
                         /\ \A wr \in BOOLEAN : Ending(j, wr)' = Ending(j, wr)
      /\ \A j \in Slot \ {i} : Making(j)' = Making(j)
      /\ Making(i)' = Making(i) \cup {p}
  <2>1. \A j \in Slot : /\ FilesOf(j)' = FilesOf(j) /\ Releasing(j)' = Releasing(j)
                        /\ \A wr \in BOOLEAN : Ending(j, wr)' = Ending(j, wr)
    BY <1>2 DEF FilesOf, Releasing, Ending
  <2>2. \A j \in Slot \ {i} : Making(j)' = Making(j)
    BY <1>3, <1>4 DEF Making
  <2>3. Making(i)' = Making(i) \cup {p}
    BY <1>3, <1>4 DEF Making
  <2> QED BY <2>1, <2>2, <2>3
<1>7. /\ Making(i) = {} /\ FilesOf(i) = {} /\ Releasing(i) = {}
      /\ \A wr \in BOOLEAN : Ending(i, wr) = {}
  <2>1. BeingMade(i) /\ BeingFreed(i) /\ \A wr \in BOOLEAN : EndOwned(i, wr)
    BY <1>1 DEF Refs, Pool
  <2> QED BY <1>1, <2>1 DEF BeingMade, BeingFreed, EndOwned
<1>8. Idle' /\ Queues' /\ Files' /\ RefsExact'
  <2>1. Idle'
    BY <1>2, <1>3, <1>4 DEF Refs, Idle
  <2>2. Queues' /\ Files'
    BY <1>2 DEF Refs, Queues, Todo, Files
  <2>3. RefsExact'
    BY <1>2, <1>5 DEF Refs, RefsExact
  <2> QED BY <2>1, <2>2, <2>3
<1>9. Fresh'
  BY <1>2, <1>3, <1>4 DEF Refs, Fresh, New
<1>10. ASSUME NEW j \in Slot
       PROVE  BeingMade(j)' /\ BeingFreed(j)' /\ \A wr \in BOOLEAN : EndOwned(j, wr)'
  <2>1. BeingMade(j) /\ BeingFreed(j) /\ \A wr \in BOOLEAN : EndOwned(j, wr)
    BY DEF Refs, Pool
  <2>2. CASE j = i
    <3>1. BeingMade(i)'
      BY <1>1, <1>3, <1>6, <1>7 DEF BeingMade
    <3>2. BeingFreed(i)'
      BY <1>1, <1>3, <1>6, <1>7 DEF BeingFreed
    <3>3. ASSUME NEW wr \in BOOLEAN
          PROVE  EndOwned(i, wr)'
      BY <1>1, <1>3, <1>6, <1>7 DEF EndOwned, Open
    <3> QED BY <2>2, <3>1, <3>2, <3>3
  <2>3. CASE j # i
    BY <1>2, <1>3, <1>6, <2>1, <2>3 DEF BeingMade, BeingFreed, EndOwned, Open
  <2> QED BY <2>2, <2>3
<1> QED BY <1>8, <1>9, <1>10 DEF Refs, Pool
(* A call that gets a file, and a file that is new after the step.         *)
Got(p, f) ==
  \/ /\ call[p].at = "rfile" /\ call'[p].at = "wfile" /\ call'[p].rf = f
  \/ /\ call[p].at = "wfile" /\ call'[p].at = "install"
     /\ call'[p].rf = call[p].rf /\ call'[p].wf = f

NewThen(f) == f # None => file'[f] = [NoFile EXCEPT !.ref = 1]

(* file_alloc takes a file nobody holds, for the call that gets it.        *)
LEMMA FileAllocKeeps ==
  ASSUME TypeOK, Refs, Queues, NEW p \in Task, NEW f \in FileAlloc, Got(p, f),
         call'[p].pi = call[p].pi, \A q \in Task \ {p} : call'[q] = call[q],
         file' = Referenced(f), UNCHANGED <<pipe, fds, jobs>>
  PROVE  Refs' /\ Queues'
<1>0. /\ call \in [Task -> Calls] /\ fds \in [Task -> SUBSET File]
      /\ file \in [File -> [ref : Nat, pipe : Slot \cup {None}, wr : BOOLEAN]]
  BY DEF TypeOK
<1> DEFINE One == [NoFile EXCEPT !.ref = 1]
<1>1. /\ f \in File \cup {None} /\ None \notin File /\ None \notin Slot
      /\ f # None => f \in File /\ file[f].ref = 0 /\ file[f] = NoFile
  BY FileAllocFree, Constants DEF Refs, Files
<1>2. One.ref = 1 /\ One.pipe = None /\ NoFile.ref = 0 /\ NoFile.pipe = None
  BY DEF NoFile
<1>3. /\ \A g \in File \ {f} : file'[g] = file[g]
      /\ f # None => file'[f] = One
  BY <1>0, <1>1 DEF Referenced
<1>4. f # None => /\ Having(f) = {} /\ Reading(f) = {} /\ Writing(f) = {} /\ Closing(f) = {}
  BY <1>1, Holders DEF Refs
<1>5. /\ Busy(call[p]) /\ Busy(call'[p]) /\ call[p] # Dead /\ call'[p] # Dead /\ jobs[p] = <<>>
  <2>1. Busy(call[p]) /\ Busy(call'[p])
    BY DEF Got, Busy
  <2>2. call[p] \notin {User, Dead} /\ call'[p] # Dead
    BY <2>1 DEF Busy, User, Dead
  <2> QED BY <2>1, <2>2 DEF Refs, Idle
<1>6. \A g \in File : Having(g)' = Having(g) /\ Closing(g)' = Closing(g)
  BY DEF Having, Closing
<1>7. \A g \in File : g # f => Reading(g)' = Reading(g) /\ Writing(g)' = Writing(g)
  <2> TAKE g \in File
  <2>1. ASSUME g # f, NEW q \in Task
        PROVE  /\ q \in Reading(g)' <=> q \in Reading(g)
               /\ q \in Writing(g)' <=> q \in Writing(g)
    <3>1. CASE q = p
      BY <2>1, <3>1 DEF Got, Reading, Writing
    <3>2. CASE q # p
      BY <2>1, <3>2 DEF Reading, Writing
    <3> QED BY <3>1, <3>2
  <2> QED BY <2>1 DEF Reading, Writing
<1>8. ASSUME f # None
      PROVE  \/ Reading(f)' = {p} /\ Writing(f)' = {}
             \/ Reading(f)' = {} /\ Writing(f)' = {p}
  <2>1. \A q \in Task \ {p} : q \notin Reading(f)' /\ q \notin Writing(f)'
    BY <1>4, <1>8 DEF Reading, Writing
  <2>2. CASE call[p].at = "rfile"
    <3>1. p \in Reading(f)' /\ p \notin Writing(f)'
      BY <2>2 DEF Got, Reading, Writing
    <3> QED BY <2>1, <3>1 DEF Reading, Writing
  <2>3. CASE call[p].at = "wfile"
    <3>1. p \notin Reading(f)
      BY <1>4, <1>8
    <3>2. p \notin Reading(f)' /\ p \in Writing(f)'
      BY <2>3, <3>1 DEF Got, Reading, Writing
    <3> QED BY <2>1, <3>2 DEF Reading, Writing
  <2> QED BY <2>2, <2>3 DEF Got
<1>9. /\ \A i \in Slot : /\ FilesOf(i)' = FilesOf(i) /\ Releasing(i)' = Releasing(i)
                         /\ \A wr \in BOOLEAN : Ending(i, wr)' = Ending(i, wr)
                         /\ Making(i)' = Making(i)
      /\ \A i \in Slot : \A g \in FilesOf(i) : file'[g] = file[g]
  <2>1. \A g \in File : file'[g].pipe = file[g].pipe
    BY <1>1, <1>2, <1>3
  <2>2. \A i \in Slot : FilesOf(i)' = FilesOf(i)
    BY <2>1 DEF FilesOf
  <2>3. \A i \in Slot : \A g \in FilesOf(i) : file'[g] = file[g]
    BY <1>1, <1>2, <1>3 DEF FilesOf
  <2>4. \A i \in Slot : Making(i)' = Making(i)
    <3> TAKE i \in Slot
    <3>1. \A q \in Task : q \in Making(i)' <=> q \in Making(i)
      BY DEF Making, Got
    <3> QED BY <3>1 DEF Making
  <2> QED BY <2>2, <2>3, <2>4 DEF Releasing, Ending
<1>10. Idle' /\ Queues'
  <2>1. Idle'
    BY <1>5 DEF Refs, Idle
  <2>2. Queues'
    BY DEF Queues, Todo
  <2> QED BY <2>1, <2>2
<1>11. Files'
  <2>1. \A g \in File : file'[g].ref = 0 => file'[g] = NoFile
    <3>1. f # None => file'[f].ref = 1
      BY <1>2, <1>3
    <3>2. \A g \in File : g = f => f # None
      BY <1>1
    <3> QED BY <1>3, <3>1, <3>2 DEF Refs, Files
  <2>2. \A q \in Task : \A g \in fds[q] : g \in File /\ file'[g].pipe \in Slot
    <3>1. \A q \in Task : \A g \in fds[q] : g \in File /\ g # f
      BY <1>0, <1>1, <1>4 DEF Having
    <3> QED BY <1>3, <3>1 DEF Refs, Files
  <2> QED BY <2>1, <2>2 DEF Files
<1>12. Fresh'
  <2>1. \A g \in File \cup {None} : New(g) => g = None \/ g # f
    <3>1. f # None => file[f].ref # One.ref
      BY <1>1, <1>2
    <3> QED BY <3>1 DEF New
  <2>2. \A g \in File \cup {None} : New(g) => NewThen(g)
    BY <1>1, <1>3, <2>1 DEF New, NewThen
  <2>3. NewThen(f)
    BY <1>1, <1>3 DEF NewThen
  <2>4. ASSUME NEW q \in Task
        PROVE  /\ call[q].at \in {"wfile", "install"} => call[q].rf \in File \cup {None}
               /\ call[q].at = "install" => call[q].wf \in File \cup {None}
    BY <1>0, Shapes
  <2>5. ASSUME NEW q \in Task
        PROVE  /\ call'[q].at \in {"wfile", "install"} => NewThen(call'[q].rf)
               /\ call'[q].at = "install" =>
                    /\ NewThen(call'[q].wf)
                    /\ call'[q].rf # None => call'[q].rf # call'[q].wf
    <3>1. CASE q = p
      <4>1. CASE call[p].at = "rfile"
        BY <2>3, <3>1, <4>1 DEF Got
      <4>2. CASE call[p].at = "wfile"
        <5>1. New(call[p].rf) /\ call[p].rf \in File \cup {None}
          BY <2>4, <4>2 DEF Refs, Fresh
        <5>2. NewThen(call'[p].rf) /\ (call'[p].rf # None => call'[p].rf # f)
          BY <2>1, <2>2, <4>2, <5>1 DEF Got
        <5> QED BY <2>3, <3>1, <4>2, <5>2 DEF Got
      <4> QED BY <4>1, <4>2 DEF Got
    <3>2. CASE q # p
      BY <2>2, <2>4, <3>2 DEF Refs, Fresh
    <3> QED BY <3>1, <3>2
  <2> QED BY <2>5 DEF Fresh, New, NewThen
<1>13. RefsExact'
  <2>1. ASSUME NEW g \in File, g # f
        PROVE  file'[g].ref = Cardinality(Having(g)') + Cardinality(Reading(g)')
                              + Cardinality(Writing(g)') + Cardinality(Closing(g)')
    BY <1>3, <1>6, <1>7, <2>1 DEF Refs, RefsExact
  <2>2. ASSUME f # None
        PROVE  file'[f].ref = Cardinality(Having(f)') + Cardinality(Reading(f)')
                              + Cardinality(Writing(f)') + Cardinality(Closing(f)')
    <3>1. Cardinality({}) = 0 /\ Cardinality({p}) = 1
      BY FS_EmptySet, FS_Singleton
    <3>2. Having(f)' = {} /\ Closing(f)' = {}
      BY <1>1, <1>4, <1>6, <2>2
    <3>3. file'[f].ref = 1
      BY <1>2, <1>3, <2>2
    <3>4. Cardinality(Reading(f)') + Cardinality(Writing(f)') = 1
      BY <1>8, <2>2, <3>1
    <3>5. Cardinality(Having(f)') = 0 /\ Cardinality(Closing(f)') = 0
      BY <3>1, <3>2
    <3>6. Cardinality(Reading(f)') \in Nat /\ Cardinality(Writing(f)') \in Nat
      BY <1>8, <2>2, <3>1
    <3> QED BY <3>3, <3>4, <3>5, <3>6
  <2> QED BY <1>1, <2>1, <2>2 DEF RefsExact
<1>14. ASSUME NEW i \in Slot
       PROVE  BeingMade(i)' /\ BeingFreed(i)' /\ \A wr \in BOOLEAN : EndOwned(i, wr)'
  <2>1. BeingMade(i) /\ BeingFreed(i) /\ \A wr \in BOOLEAN : EndOwned(i, wr)
    BY DEF Refs, Pool
  <2>2. BeingMade(i)'
    BY <1>9, <2>1 DEF BeingMade
  <2>3. BeingFreed(i)'
    BY <1>9, <2>1 DEF BeingFreed
  <2>4. ASSUME NEW wr \in BOOLEAN
        PROVE  EndOwned(i, wr)'
    BY <1>9, <2>1 DEF EndOwned, Open
  <2> QED BY <2>2, <2>3, <2>4
<1> QED BY <1>10, <1>11, <1>12, <1>13, <1>14 DEF Refs, Pool
(* What one process has to do changes.                                     *)
LEMMA JobsChange ==
  ASSUME TypeOK, Queues, NEW p \in Task, NEW u \in Seq(Jobs), jobs' = [jobs EXCEPT ![p] = u],
         Distinct(u), \A e \in Range(u) : e.do = "end" => e = Head(u)
  PROVE  /\ \A f \in File : Closing(f)' =
               IF CloseFile(f) \in Range(u) THEN Closing(f) \cup {p} ELSE Closing(f) \ {p}
         /\ \A i \in Slot : Releasing(i)' =
               IF FreePipe(i) \in Range(u) THEN Releasing(i) \cup {p} ELSE Releasing(i) \ {p}
         /\ \A i \in Slot, wr \in BOOLEAN : Ending(i, wr)' =
               IF CloseEnd(i, wr) \in Range(u)
               THEN Ending(i, wr) \cup {p} ELSE Ending(i, wr) \ {p}
         /\ Queues'
<1>1. jobs'[p] = u /\ \A q \in Task \ {p} : jobs'[q] = jobs[q]
  BY DEF TypeOK
<1>2. \A f \in File : Closing(f)' =
        IF CloseFile(f) \in Range(u) THEN Closing(f) \cup {p} ELSE Closing(f) \ {p}
  BY <1>1 DEF Closing
<1>3. \A i \in Slot : Releasing(i)' =
        IF FreePipe(i) \in Range(u) THEN Releasing(i) \cup {p} ELSE Releasing(i) \ {p}
  BY <1>1 DEF Releasing
<1>4. \A i \in Slot, wr \in BOOLEAN : Ending(i, wr)' =
        IF CloseEnd(i, wr) \in Range(u)
        THEN Ending(i, wr) \cup {p} ELSE Ending(i, wr) \ {p}
  BY <1>1 DEF Ending
<1>5. Queues'
  BY <1>1 DEF Queues, Todo
<1> QED BY <1>2, <1>3, <1>4, <1>5

(* The call of pipe2 is over: what it made is in the table of descriptors, *)
(* or to be closed.                                                        *)
LEMMA InstallKeeps ==
  ASSUME TypeOK, Refs, Queues, NEW p \in Task, Install(p)
  PROVE  Refs' /\ Queues'
<1>0. /\ call \in [Task -> Calls] /\ fds \in [Task -> SUBSET File]
      /\ file \in [File -> [ref : Nat, pipe : Slot \cup {None}, wr : BOOLEAN]]
      /\ jobs \in [Task -> Seq(Jobs)]
  BY DEF TypeOK
<1>1. PICK r \in File, w \in File, i \in Slot :
        call[p].at = "install" /\ call[p].rf = r /\ call[p].wf = w /\ call[p].pi = i
  BY <1>0, Shapes DEF Install
<1>2. /\ file' = [file EXCEPT ![r].pipe = i, ![w].pipe = i, ![w].wr = TRUE]
      /\ \/ /\ fds' = [fds EXCEPT ![p] = @ \cup {r, w}] /\ jobs' = jobs
         \/ /\ jobs' = [jobs EXCEPT ![p] = <<CloseFile(r), CloseFile(w)>>] /\ fds' = fds
      /\ call' = [call EXCEPT ![p] = User] /\ pipe' = pipe
  BY <1>1 DEF Install
<1>3. /\ None \notin File /\ None \notin Slot
      /\ New(r) /\ New(w) /\ r # w
  BY <1>1, Constants DEF Refs, Fresh
<1>4. /\ file[r].ref = 1 /\ file[r].pipe = None /\ file[r].wr = FALSE
      /\ file[w].ref = 1 /\ file[w].pipe = None
  BY <1>3 DEF New, NoFile
<1>5. /\ \A g \in File \ {r, w} : file'[g] = file[g]
      /\ file'[r].ref = 1 /\ file'[r].pipe = i /\ file'[r].wr = FALSE
      /\ file'[w].ref = 1 /\ file'[w].pipe = i /\ file'[w].wr = TRUE
  <2>1. /\ \A g \in File \ {r, w} : file'[g] = file[g]
        /\ file'[r].ref = 1 /\ file'[r].pipe = i /\ file'[r].wr = file[r].wr
    BY <1>0, <1>2, <1>3, <1>4
  <2>2. file'[w].ref = 1 /\ file'[w].pipe = i /\ file'[w].wr = TRUE
    BY <1>0, <1>2, <1>3, <1>4
  <2> QED BY <2>1, <2>2, <1>4
<1>6. call'[p] = User /\ \A q \in Task \ {p} : call'[q] = call[q]
  BY <1>0, <1>2
<1>7. call[p] \notin {User, Dead} /\ User # Dead /\ User.at = "user" /\ jobs[p] = <<>>
  <2>1. call[p] \notin {User, Dead} /\ User # Dead /\ User.at = "user"
    BY <1>1 DEF User, Dead
  <2> QED BY <2>1 DEF Refs, Idle
<1>8. /\ Reading(r) = {p} /\ Having(r) = {} /\ Writing(r) = {} /\ Closing(r) = {}
      /\ Writing(w) = {p} /\ Having(w) = {} /\ Reading(w) = {} /\ Closing(w) = {}
  <2>1. p \in Reading(r) /\ p \in Writing(w)
    BY <1>1 DEF Reading, Writing
  <2> QED BY <1>4, <2>1, Holders DEF Refs
<1>9. /\ \A g \in File \ {r} : Reading(g)' = Reading(g)
      /\ \A g \in File \ {w} : Writing(g)' = Writing(g)
      /\ Reading(r)' = {} /\ Writing(w)' = {}
  <2>1. \A g \in File \ {r} : Reading(g)' = Reading(g)
    BY <1>1, <1>6, <1>7 DEF Reading
  <2>2. \A g \in File \ {w} : Writing(g)' = Writing(g)
    BY <1>1, <1>6, <1>7 DEF Writing
  <2>3. Reading(r)' = {}
    BY <1>6, <1>7, <1>8 DEF Reading
  <2>4. Writing(w)' = {}
    BY <1>6, <1>7, <1>8 DEF Writing
  <2> QED BY <2>1, <2>2, <2>3, <2>4
<1>10. /\ \/ /\ Having(r)' = {p} /\ Having(w)' = {p}
             /\ \A g \in File \ {r, w} : Having(g)' = Having(g)
             /\ \A g \in File : Closing(g)' = Closing(g)
          \/ /\ Closing(r)' = {p} /\ Closing(w)' = {p}
             /\ \A g \in File \ {r, w} : Closing(g)' = Closing(g)
             /\ \A g \in File : Having(g)' = Having(g)
       /\ \A j \in Slot : Releasing(j)' = Releasing(j)
                          /\ \A wr \in BOOLEAN : Ending(j, wr)' = Ending(j, wr)
       /\ Queues'
  <2>1. CASE fds' = [fds EXCEPT ![p] = @ \cup {r, w}] /\ jobs' = jobs
    <3>1. \A g \in File : Closing(g)' = Closing(g)
      BY <2>1 DEF Closing
    <3>2. \A j \in Slot : Releasing(j)' = Releasing(j)
                          /\ \A wr \in BOOLEAN : Ending(j, wr)' = Ending(j, wr)
      BY <2>1 DEF Releasing, Ending
    <3>3. Queues'
      BY <2>1 DEF Queues, Todo
    <3>4. fds'[p] = fds[p] \cup {r, w} /\ \A q \in Task \ {p} : fds'[q] = fds[q]
      BY <1>0, <2>1
    <3>5. Having(r)' = {p} /\ Having(w)' = {p} /\ \A g \in File \ {r, w} : Having(g)' = Having(g)
      <4>1. Having(r)' = {p}
        BY <1>8, <3>4 DEF Having
      <4>2. Having(w)' = {p}
        BY <1>8, <3>4 DEF Having
      <4>3. \A g \in File \ {r, w} : Having(g)' = Having(g)
        BY <3>4 DEF Having
      <4> QED BY <4>1, <4>2, <4>3
    <3> QED BY <3>1, <3>2, <3>3, <3>5
  <2>2. CASE jobs' = [jobs EXCEPT ![p] = <<CloseFile(r), CloseFile(w)>>] /\ fds' = fds
    <3> DEFINE u == <<CloseFile(r), CloseFile(w)>>
    <3>1. CloseFile(r) \in Jobs /\ CloseFile(w) \in Jobs /\ CloseFile(r) # CloseFile(w)
      BY <1>3, JobsDiffer DEF Jobs
    <3>2. u \in Seq(Jobs) /\ Distinct(u) /\ Range(u) = {CloseFile(r), CloseFile(w)}
      <4> DEFINE a == CloseFile(r)
                 b == CloseFile(w)
      <4> HIDE DEF a, b
      <4>1. a \in Jobs /\ b \in Jobs /\ a # b
        BY <3>1 DEF a, b
      <4>2. <<a, b>> \in Seq(Jobs) /\ Distinct(<<a, b>>) /\ Range(<<a, b>>) = {a, b}
        BY <4>1, RangePair
      <4> QED BY <4>2 DEF a, b
    <3>3. jobs' = [jobs EXCEPT ![p] = u]
      BY <2>2
    <3> HIDE DEF u
    <3>4. \A e \in Range(u) : e.do = "end" => e = Head(u)
      BY <3>2 DEF CloseFile
    <3>5. /\ \A f \in File : Closing(f)' =
               IF CloseFile(f) \in Range(u) THEN Closing(f) \cup {p} ELSE Closing(f) \ {p}
          /\ \A j \in Slot : Releasing(j)' =
               IF FreePipe(j) \in Range(u) THEN Releasing(j) \cup {p} ELSE Releasing(j) \ {p}
          /\ \A j \in Slot, wr \in BOOLEAN : Ending(j, wr)' =
               IF CloseEnd(j, wr) \in Range(u) THEN Ending(j, wr) \cup {p} ELSE Ending(j, wr) \ {p}
          /\ Queues'
      BY <3>2, <3>3, <3>4, JobsChange
    <3>6. /\ \A f \in File : CloseFile(f) \in Range(u) <=> f \in {r, w}
          /\ \A j \in Slot : FreePipe(j) \notin Range(u)
          /\ \A j \in Slot, wr \in BOOLEAN : CloseEnd(j, wr) \notin Range(u)
      BY <3>2, JobsDiffer
    <3>7. /\ \A f \in File : Closing(f) \ {p} = Closing(f)
          /\ \A j \in Slot : Releasing(j) \ {p} = Releasing(j)
          /\ \A j \in Slot, wr \in BOOLEAN : Ending(j, wr) \ {p} = Ending(j, wr)
      BY <1>7 DEF Closing, Releasing, Ending, Range
    <3>8. \A g \in File : Having(g)' = Having(g)
      BY <2>2 DEF Having
    <3>9. Closing(r)' = {p} /\ Closing(w)' = {p}
      BY <1>8, <3>5, <3>6
    <3>10. \A g \in File \ {r, w} : Closing(g)' = Closing(g)
      BY <3>5, <3>6, <3>7
    <3>11. \A j \in Slot : Releasing(j)' = Releasing(j)
                          /\ \A wr \in BOOLEAN : Ending(j, wr)' = Ending(j, wr)
      BY <3>5, <3>6, <3>7
    <3> QED BY <3>5, <3>8, <3>9, <3>10, <3>11
  <2> QED BY <1>2, <2>1, <2>2
<1>11. /\ Making(i)' = {} /\ Making(i) = {p} /\ FilesOf(i) = {}
       /\ FilesOf(i)' = {r, w}
       /\ \A j \in Slot \ {i} : Making(j)' = Making(j) /\ FilesOf(j)' = FilesOf(j)
       /\ \A j \in Slot : \A g \in FilesOf(j) : file'[g] = file[g]
  <2>1. p \in Making(i) /\ BeingMade(i)
    BY <1>1 DEF Making, Refs, Pool
  <2>2. Making(i) = {p} /\ FilesOf(i) = {}
    BY <2>1 DEF BeingMade
  <2>3. Making(i)' = {}
    BY <1>6, <1>7, <2>2 DEF Making
  <2>4. \A j \in Slot \ {i} : Making(j)' = Making(j)
    BY <1>1, <1>6, <1>7 DEF Making
  <2>5. FilesOf(i)' = {r, w}
    BY <1>5, <2>2 DEF FilesOf
  <2>6. \A j \in Slot \ {i} : FilesOf(j)' = FilesOf(j)
    BY <1>3, <1>4, <1>5 DEF FilesOf
  <2>7. \A j \in Slot : \A g \in FilesOf(j) : file'[g] = file[g]
    BY <1>3, <1>4, <1>5 DEF FilesOf
  <2> QED BY <2>2, <2>3, <2>4, <2>5, <2>6, <2>7
<1>12. Idle'
  <2>1. \A q \in Task : call'[q] = Dead => fds'[q] = {}
    <3>1. \A q \in Task \ {p} : fds'[q] = fds[q]
      BY <1>0, <1>2
    <3> QED BY <1>6, <1>7, <3>1 DEF Refs, Idle
  <2>2. \A q \in Task : jobs'[q] # <<>> => call'[q] \in {User, Dead}
    <3>1. \A q \in Task \ {p} : jobs'[q] = jobs[q]
      BY <1>0, <1>2
    <3> QED BY <1>6, <3>1 DEF Refs, Idle
  <2> QED BY <2>1, <2>2 DEF Idle
<1>13. Files'
  <2>1. \A g \in File : file'[g].ref = 0 => file'[g] = NoFile
    BY <1>5 DEF Refs, Files
  <2>2. ASSUME NEW q \in Task, NEW g \in fds'[q]
        PROVE  file'[g].pipe \in Slot
    <3>1. CASE g \in {r, w}
      BY <1>5, <3>1
    <3>2. CASE g \notin {r, w}
      <4>1. g \in fds[q] /\ g \in File
        BY <1>0, <1>2, <2>2, <3>2
      <4> QED BY <1>5, <3>2, <4>1 DEF Refs, Files
    <3> QED BY <3>1, <3>2
  <2> QED BY <2>1, <2>2 DEF Files
<1>14. Fresh'
  <2>1. ASSUME NEW q \in Task \ {p}
        PROVE  /\ call[q].at \in {"wfile", "install"} => call[q].rf \in (File \cup {None}) \ {r, w}
               /\ call[q].at = "install" => call[q].wf \in (File \cup {None}) \ {r, w}
    <3>1. q \notin Reading(r) /\ q \notin Reading(w) /\ q \notin Writing(r) /\ q \notin Writing(w)
      BY <1>8
    <3>2. call[q] \in Calls
      BY <1>0
    <3> QED BY <3>1, <3>2, Shapes DEF Reading, Writing
  <2>2. \A g \in (File \cup {None}) \ {r, w} : New(g) => NewThen(g)
    BY <1>3, <1>5 DEF New, NewThen
  <2>3. ASSUME NEW q \in Task
        PROVE  /\ call'[q].at \in {"wfile", "install"} => NewThen(call'[q].rf)
               /\ call'[q].at = "install" =>
                    /\ NewThen(call'[q].wf)
                    /\ call'[q].rf # None => call'[q].rf # call'[q].wf
    <3>1. CASE q = p
      BY <1>6, <1>7, <3>1
    <3>2. CASE q # p
      BY <1>6, <2>1, <2>2, <3>2 DEF Refs, Fresh
    <3> QED BY <3>1, <3>2
  <2> QED BY <2>3 DEF Fresh, New, NewThen
<1>15. RefsExact'
  <2>1. ASSUME NEW g \in File \ {r, w}
        PROVE  file'[g].ref = Cardinality(Having(g)') + Cardinality(Reading(g)')
                              + Cardinality(Writing(g)') + Cardinality(Closing(g)')
    <3>1. /\ Having(g)' = Having(g) /\ Reading(g)' = Reading(g) /\ Writing(g)' = Writing(g)
          /\ Closing(g)' = Closing(g) /\ file'[g] = file[g]
      BY <1>5, <1>9, <1>10
    <3> QED BY <3>1 DEF Refs, RefsExact
  <2>2. Cardinality({}) = 0 /\ Cardinality({p}) = 1
    BY FS_EmptySet, FS_Singleton
  <2>3. \A g \in {r, w} : /\ Reading(g)' = {} /\ Writing(g)' = {}
                          /\ \/ Having(g)' = {p} /\ Closing(g)' = {}
                             \/ Having(g)' = {} /\ Closing(g)' = {p}
    BY <1>3, <1>8, <1>9, <1>10
  <2>4. \A g \in {r, w} : file'[g].ref = Cardinality(Having(g)') + Cardinality(Reading(g)')
                              + Cardinality(Writing(g)') + Cardinality(Closing(g)')
    BY <1>5, <2>2, <2>3
  <2> QED BY <2>1, <2>4 DEF RefsExact
<1>16. ASSUME NEW j \in Slot
       PROVE  BeingMade(j)' /\ BeingFreed(j)' /\ \A wr \in BOOLEAN : EndOwned(j, wr)'
  <2>1. BeingMade(j) /\ BeingFreed(j) /\ \A wr \in BOOLEAN : EndOwned(j, wr)
    BY DEF Refs, Pool
  <2>2. CASE j = i
    <3>1. /\ pipe[i].used /\ pipe[i].readopen /\ pipe[i].writeopen
          /\ Releasing(i) = {} /\ \A wr \in BOOLEAN : Ending(i, wr) = {}
      BY <1>11, <2>1, <2>2 DEF BeingMade
    <3>2. BeingMade(i)'
      BY <1>11 DEF BeingMade
    <3>3. BeingFreed(i)'
      BY <1>2, <1>10, <3>1 DEF BeingFreed
    <3>4. ASSUME NEW wr \in BOOLEAN
          PROVE  EndOwned(i, wr)'
      <4>1. Ending(i, wr)' = {} /\ Releasing(i)' = {} /\ pipe'[i] = pipe[i]
        BY <1>2, <1>10, <3>1
      <4>2. \A f, g \in {r, w} : file'[f].wr = wr /\ file'[g].wr = wr => f = g
        BY <1>5
      <4>3. \E f \in {r, w} : file'[f].wr = wr
        BY <1>0, <1>5, <1>4
      <4> QED BY <1>11, <3>1, <4>1, <4>2, <4>3 DEF EndOwned, Open
    <3> QED BY <2>2, <3>2, <3>3, <3>4
  <2>3. CASE j # i
    <3>1. /\ Making(j)' = Making(j) /\ FilesOf(j)' = FilesOf(j) /\ Releasing(j)' = Releasing(j)
          /\ \A wr \in BOOLEAN : Ending(j, wr)' = Ending(j, wr)
          /\ \A g \in FilesOf(j) : file'[g] = file[g]
          /\ pipe'[j] = pipe[j]
      BY <1>2, <1>10, <1>11, <2>3
    <3>2. BeingMade(j)'
      BY <2>1, <3>1 DEF BeingMade
    <3>3. BeingFreed(j)'
      BY <2>1, <3>1 DEF BeingFreed
    <3>4. ASSUME NEW wr \in BOOLEAN
          PROVE  EndOwned(j, wr)'
      BY <2>1, <3>1 DEF EndOwned, Open
    <3> QED BY <3>2, <3>3, <3>4
  <2> QED BY <2>2, <2>3
<1> QED BY <1>10, <1>12, <1>13, <1>14, <1>15, <1>16 DEF Refs, Pool
(* The call of pipe2 failed: what it made is to be closed and released.    *)
LEMMA GiveUpKeeps ==
  ASSUME TypeOK, Refs, Queues, NEW p \in Task, GiveUp(p)
  PROVE  Refs' /\ Queues'
<1>0. /\ call \in [Task -> Calls] /\ fds \in [Task -> SUBSET File]
      /\ jobs \in [Task -> Seq(Jobs)]
  BY DEF TypeOK
<1>1. PICK r \in File \cup {None}, w \in File \cup {None}, i \in Slot :
        /\ call[p].at = "install" /\ call[p].rf = r /\ call[p].wf = w /\ call[p].pi = i
        /\ None \in {r, w}
  BY <1>0, Shapes DEF GiveUp
<1>2. PICK x \in File \cup {None} : x = IF r # None THEN r ELSE w
  OBVIOUS
<1> DEFINE u == IF x # None THEN <<CloseFile(x), FreePipe(i)>> ELSE <<FreePipe(i)>>
<1>3. /\ jobs' = [jobs EXCEPT ![p] = u] /\ call' = [call EXCEPT ![p] = User]
      /\ UNCHANGED <<pipe, file, fds>>
  <2> DEFINE closes == IF r # None THEN <<CloseFile(r)>>
                       ELSE IF w # None THEN <<CloseFile(w)>> ELSE <<>>
  <2>1. closes = IF x # None THEN <<CloseFile(x)>> ELSE <<>>
    BY <1>2
  <2>2. /\ jobs' = [jobs EXCEPT ![p] = closes \o <<FreePipe(i)>>]
        /\ call' = [call EXCEPT ![p] = User] /\ UNCHANGED <<pipe, file, fds>>
    BY <1>1 DEF GiveUp
  <2> HIDE DEF closes
  <2>3. closes \o <<FreePipe(i)>> = u
    <3> DEFINE a == CloseFile(x)
               b == FreePipe(i)
    <3> HIDE DEF a, b
    <3>0. a \in {a, b} /\ b \in {a, b}
      OBVIOUS
    <3>1. <<a>> \o <<b>> = <<a, b>>
      BY <3>0, Joined, Zenon
    <3>5. <<>> \o <<b>> = <<b>>
      OBVIOUS
    <3>2. closes = IF x # None THEN <<a>> ELSE <<>>
      BY <2>1 DEF a
    <3>3. u = IF x # None THEN <<a, b>> ELSE <<b>>
      BY DEF a, b
    <3>4. closes \o <<b>> = u
      BY <3>1, <3>2, <3>3, <3>5, Zenon
    <3> QED BY <3>4 DEF b
  <2> QED BY <2>2, <2>3
<1>4. /\ u \in Seq(Jobs) /\ Distinct(u)
      /\ Range(u) = {FreePipe(i)} \cup {CloseFile(f) : f \in {x} \ {None}}
  <2>1. FreePipe(i) \in Jobs /\ (x # None => CloseFile(x) \in Jobs /\ CloseFile(x) # FreePipe(i))
    BY JobsDiffer DEF Jobs
  <2>2. CASE x = None
    BY <2>1, <2>2, RangeShort
  <2>3. CASE x # None
    <3> DEFINE a == CloseFile(x)
               b == FreePipe(i)
    <3>1. u = <<a, b>> /\ a \in Jobs /\ b \in Jobs /\ a # b
      BY <2>1, <2>3
    <3>2. {FreePipe(i)} \cup {CloseFile(f) : f \in {x} \ {None}} = {a, b}
      BY <2>3
    <3> HIDE DEF a, b, u
    <3>3. Range(<<a, b>>) = {a, b} /\ <<a, b>> \in Seq(Jobs) /\ Distinct(<<a, b>>)
      BY <3>1, RangePair
    <3> QED BY <3>1, <3>2, <3>3
  <2> QED BY <2>2, <2>3
<1> HIDE DEF u
<1>5. call[p] \notin {User, Dead} /\ User # Dead /\ User.at = "user" /\ jobs[p] = <<>>
  <2>1. call[p] \notin {User, Dead} /\ User # Dead /\ User.at = "user"
    BY <1>1 DEF User, Dead
  <2> QED BY <2>1 DEF Refs, Idle
<1>6. /\ call'[p] = User /\ \A q \in Task \ {p} : call'[q] = call[q] /\ jobs'[q] = jobs[q]
      /\ None \notin File /\ None \notin Slot
  BY <1>0, <1>3, Constants
<1>7. /\ \A f \in File : /\ CloseFile(f) \in Range(u) <=> f = x
                         /\ Closing(f) \ {p} = Closing(f)
      /\ \A j \in Slot : /\ FreePipe(j) \in Range(u) <=> j = i
                         /\ Releasing(j) \ {p} = Releasing(j)
      /\ \A j \in Slot, wr \in BOOLEAN : CloseEnd(j, wr) \notin Range(u)
                                         /\ Ending(j, wr) \ {p} = Ending(j, wr)
  <2>1. \A f \in File : CloseFile(f) \in Range(u) <=> f = x
    BY <1>4, <1>6, JobsDiffer
  <2>2. \A j \in Slot : FreePipe(j) \in Range(u) <=> j = i
    BY <1>4, JobsDiffer
  <2>3. \A j \in Slot, wr \in BOOLEAN : CloseEnd(j, wr) \notin Range(u)
    BY <1>4, JobsDiffer
  <2>4. Range(jobs[p]) = {}
    BY <1>5 DEF Range
  <2> QED BY <2>1, <2>2, <2>3, <2>4 DEF Closing, Releasing, Ending
<1>8. /\ \A f \in File : Closing(f)' = IF f = x THEN Closing(f) \cup {p} ELSE Closing(f)
      /\ \A j \in Slot : Releasing(j)' = IF j = i THEN Releasing(j) \cup {p} ELSE Releasing(j)
      /\ \A j \in Slot, wr \in BOOLEAN : Ending(j, wr)' = Ending(j, wr)
      /\ Queues'
  <2>1. \A e \in Range(u) : e.do # "end"
    BY <1>4 DEF CloseFile, FreePipe
  <2>2. /\ \A f \in File : Closing(f)' =
               IF CloseFile(f) \in Range(u) THEN Closing(f) \cup {p} ELSE Closing(f) \ {p}
        /\ \A j \in Slot : Releasing(j)' =
               IF FreePipe(j) \in Range(u) THEN Releasing(j) \cup {p} ELSE Releasing(j) \ {p}
        /\ \A j \in Slot, wr \in BOOLEAN : Ending(j, wr)' =
               IF CloseEnd(j, wr) \in Range(u) THEN Ending(j, wr) \cup {p} ELSE Ending(j, wr) \ {p}
        /\ Queues'
    BY <1>3, <1>4, <2>1, JobsChange
  <2> QED BY <2>2, <1>7
<1>9. /\ \A f \in File : f # x => Reading(f)' = Reading(f) /\ Writing(f)' = Writing(f)
      /\ \A f \in File : Having(f)' = Having(f)
      /\ \A j \in Slot : FilesOf(j)' = FilesOf(j)
      /\ \A j \in Slot \ {i} : Making(j)' = Making(j)
  <2>1. ASSUME NEW f \in File, f # x
        PROVE  Reading(f)' = Reading(f) /\ Writing(f)' = Writing(f)
    <3>1. p \notin Reading(f) /\ p \notin Writing(f)
      BY <1>1, <1>2, <1>6, <2>1 DEF Reading, Writing
    <3> QED BY <1>5, <1>6, <3>1 DEF Reading, Writing
  <2>2. \A f \in File : Having(f)' = Having(f)
    BY <1>3 DEF Having
  <2>3. \A j \in Slot : FilesOf(j)' = FilesOf(j)
    BY <1>3 DEF FilesOf
  <2>4. \A j \in Slot \ {i} : Making(j)' = Making(j)
    BY <1>1, <1>5, <1>6 DEF Making
  <2> QED BY <2>1, <2>2, <2>3, <2>4
<1>10. ASSUME x # None
       PROVE  /\ x \in File /\ file[x].ref = 1 /\ Having(x)' = {} /\ Closing(x)' = {p}
              /\ Reading(x)' = {} /\ Writing(x)' = {}
  <2>1. x \in File /\ New(x)
    BY <1>1, <1>2, <1>10 DEF Refs, Fresh
  <2>2. file[x].ref = 1
    BY <1>10, <2>1 DEF New, NoFile
  <2>3. \/ p \in Reading(x) /\ x = r
        \/ p \in Writing(x) /\ x = w
    BY <1>1, <1>2 DEF Reading, Writing
  <2>4. Having(x) = {} /\ Closing(x) = {}
    BY <2>1, <2>2, <2>3, Holders DEF Refs
  <2>5. /\ Reading(x) \subseteq {p} /\ Writing(x) \subseteq {p}
    BY <2>1, <2>2, <2>3, Holders DEF Refs
  <2>6. Reading(x)' = {} /\ Writing(x)' = {}
    BY <1>5, <1>6, <2>5 DEF Reading, Writing
  <2> QED BY <1>8, <1>9, <2>1, <2>2, <2>4, <2>6
<1>11. /\ Making(i)' = {} /\ Making(i) = {p} /\ Releasing(i)' = {p} /\ FilesOf(i) = {}
       /\ pipe[i].used /\ pipe[i].readopen /\ pipe[i].writeopen
       /\ \A wr \in BOOLEAN : Ending(i, wr) = {}
  <2>1. p \in Making(i) /\ BeingMade(i)
    BY <1>1 DEF Making, Refs, Pool
  <2>2. /\ Making(i) = {p} /\ Releasing(i) = {} /\ FilesOf(i) = {}
        /\ pipe[i].used /\ pipe[i].readopen /\ pipe[i].writeopen
        /\ \A wr \in BOOLEAN : Ending(i, wr) = {}
    BY <2>1 DEF BeingMade
  <2>3. Making(i)' = {}
    BY <1>5, <1>6, <2>2 DEF Making
  <2> QED BY <1>8, <2>2, <2>3
<1>12. Idle' /\ Files'
  <2>1. Idle'
    BY <1>3, <1>5, <1>6 DEF Refs, Idle
  <2>2. Files'
    BY <1>3 DEF Refs, Files
  <2> QED BY <2>1, <2>2
<1>13. Fresh'
  BY <1>3, <1>5, <1>6 DEF Refs, Fresh, New
<1>14. RefsExact'
  <2>1. ASSUME NEW g \in File, g # x
        PROVE  file'[g].ref = Cardinality(Having(g)') + Cardinality(Reading(g)')
                              + Cardinality(Writing(g)') + Cardinality(Closing(g)')
    <3>1. /\ Having(g)' = Having(g) /\ Reading(g)' = Reading(g) /\ Writing(g)' = Writing(g)
          /\ Closing(g)' = Closing(g) /\ file'[g] = file[g]
      BY <1>3, <1>8, <1>9, <2>1
    <3> QED BY <3>1 DEF Refs, RefsExact
  <2>2. ASSUME x # None
        PROVE  file'[x].ref = Cardinality(Having(x)') + Cardinality(Reading(x)')
                              + Cardinality(Writing(x)') + Cardinality(Closing(x)')
    <3>1. Cardinality({}) = 0 /\ Cardinality({p}) = 1
      BY FS_EmptySet, FS_Singleton
    <3> QED BY <1>3, <1>10, <2>2, <3>1
  <2> QED BY <1>6, <2>1, <2>2 DEF RefsExact
<1>15. ASSUME NEW j \in Slot
       PROVE  BeingMade(j)' /\ BeingFreed(j)' /\ \A wr \in BOOLEAN : EndOwned(j, wr)'
  <2>1. BeingMade(j) /\ BeingFreed(j) /\ \A wr \in BOOLEAN : EndOwned(j, wr)
    BY DEF Refs, Pool
  <2>2. CASE j = i
    <3>1. BeingMade(i)'
      BY <1>11 DEF BeingMade
    <3>2. BeingFreed(i)'
      BY <1>3, <1>11 DEF BeingFreed
    <3>3. ASSUME NEW wr \in BOOLEAN
          PROVE  EndOwned(i, wr)'
      BY <1>8, <1>9, <1>11 DEF EndOwned
    <3> QED BY <2>2, <3>1, <3>2, <3>3
  <2>3. CASE j # i
    <3>1. /\ Making(j)' = Making(j) /\ FilesOf(j)' = FilesOf(j) /\ Releasing(j)' = Releasing(j)
          /\ \A wr \in BOOLEAN : Ending(j, wr)' = Ending(j, wr)
          /\ pipe'[j] = pipe[j] /\ file' = file
      BY <1>3, <1>8, <1>9, <2>3
    <3>2. BeingMade(j)'
      BY <2>1, <3>1 DEF BeingMade
    <3>3. BeingFreed(j)'
      BY <2>1, <3>1 DEF BeingFreed
    <3>4. ASSUME NEW wr \in BOOLEAN
          PROVE  EndOwned(j, wr)'
      BY <2>1, <3>1 DEF EndOwned, Open
    <3> QED BY <3>2, <3>3, <3>4
  <2> QED BY <2>2, <2>3
<1> QED BY <1>8, <1>12, <1>13, <1>14, <1>15 DEF Refs, Pool
(* file_close: a reference less, and with the last one the end is closed.  *)
LEMMA DropRefKeeps ==
  ASSUME TypeOK, Refs, Queues, NEW p \in Task, DropRef(p)
  PROVE  Refs' /\ Queues'
<1> DEFINE FileSet == [ref : Nat, pipe : Slot \cup {None}, wr : BOOLEAN]
<1>0. /\ call \in [Task -> Calls] /\ fds \in [Task -> SUBSET File]
      /\ jobs \in [Task -> Seq(Jobs)] /\ file \in [File -> FileSet]
      /\ None \notin File /\ None \notin Slot
  BY Constants DEF TypeOK
<1>1. PICK f \in File : Head(jobs[p]) = CloseFile(f) /\ Head(jobs[p]).f = f
  BY <1>0, NextJob DEF DropRef
<1> DEFINE t == Tail(jobs[p])
<1>2. /\ jobs[p] # <<>> /\ t \in Seq(Jobs) /\ Distinct(t)
      /\ Range(t) = Range(jobs[p]) \ {CloseFile(f)} /\ CloseFile(f) \in Range(jobs[p])
      /\ \A e \in Range(t) : e.do # "end"
  <2>1. jobs[p] # <<>> /\ jobs[p] \in Seq(Jobs) /\ Distinct(jobs[p])
    BY <1>0 DEF DropRef, Queues
  <2>2. /\ t \in Seq(Jobs) /\ Distinct(t)
        /\ Range(t) = Range(jobs[p]) \ {CloseFile(f)} /\ CloseFile(f) \in Range(jobs[p])
    BY <1>1, <2>1, RangeTail
  <2>3. \A e \in Range(t) : e.do # "end"
    BY <1>1, <2>2 DEF Queues, Todo
  <2> QED BY <2>1, <2>2, <2>3
<1>3. PICK i \in Slot \cup {None}, wr \in BOOLEAN : file[f].pipe = i /\ file[f].wr = wr
  BY <1>0
<1> DEFINE last == file[f].ref = 1
<1>4. /\ last => file' = [file EXCEPT ![f] = NoFile]
      /\ ~last => file' = [file EXCEPT ![f].ref = @ - 1]
      /\ last /\ i # None => jobs' = [jobs EXCEPT ![p] = <<CloseEnd(i, wr)>> \o t]
      /\ ~(last /\ i # None) => jobs' = [jobs EXCEPT ![p] = t]
      /\ UNCHANGED <<pipe, fds, call>>
  BY <1>1, <1>3 DEF DropRef
<1>5. p \in Closing(f) /\ \A g \in File : g # f => (CloseFile(g) \in Range(t) <=> p \in Closing(g))
  BY <1>2, JobsDiffer DEF Closing
<1>6. /\ \A j \in Slot : FreePipe(j) \in Range(t) <=> p \in Releasing(j)
      /\ \A j \in Slot, b \in BOOLEAN : CloseEnd(j, b) \notin Range(t)
      /\ \A j \in Slot, b \in BOOLEAN : p \notin Ending(j, b)
  <2>1. \A j \in Slot : FreePipe(j) \in Range(t) <=> p \in Releasing(j)
    BY <1>2, JobsDiffer DEF Releasing
  <2>2. \A j \in Slot, b \in BOOLEAN : CloseEnd(j, b) \notin Range(t)
    BY <1>2 DEF CloseEnd
  <2>3. \A j \in Slot, b \in BOOLEAN : p \notin Ending(j, b)
    BY <1>2, <2>2, JobsDiffer DEF Ending
  <2> QED BY <2>1, <2>2, <2>3
<1>b. /\ \A g \in File \ {f} :
           (IF CloseFile(g) \in Range(t) THEN Closing(g) \cup {p} ELSE Closing(g) \ {p}) = Closing(g)
      /\ \A j \in Slot :
           (IF FreePipe(j) \in Range(t) THEN Releasing(j) \cup {p} ELSE Releasing(j) \ {p})
             = Releasing(j)
  BY <1>5, <1>6
<1> HIDE DEF t
<1>7. file[f].ref \in Nat \ {0}
  BY <1>0, <1>5, Holders DEF Refs
<1>8. /\ \A g \in File \ {f} : file'[g] = file[g]
      /\ last => file'[f] = NoFile
      /\ ~last => file'[f].ref = file[f].ref - 1 /\ file'[f].pipe = i /\ file'[f].wr = wr
  <2>1. CASE last
    BY <1>0, <1>4, <2>1
  <2>2. CASE ~last
    <3>1. \A g \in File \ {f} : file'[g] = file[g]
      BY <1>0, <1>4, <2>2
    <3>2. file'[f].ref = file[f].ref - 1 /\ file'[f].pipe = file[f].pipe
      BY <1>0, <1>4, <2>2
    <3>3. file'[f].wr = file[f].wr
      BY <1>0, <1>4, <2>2
    <3> QED BY <1>3, <2>2, <3>1, <3>2, <3>3
  <2> QED BY <2>1, <2>2
<1>9. ASSUME last
      PROVE  /\ Having(f) = {} /\ Reading(f) = {} /\ Writing(f) = {} /\ Closing(f) = {p}
  BY <1>5, <1>9, Holders DEF Refs
<1>10. /\ \A g \in File \ {f} : Closing(g)' = Closing(g)
       /\ Closing(f)' = Closing(f) \ {p}
       /\ \A j \in Slot : Releasing(j)' = Releasing(j)
       /\ \A j \in Slot, b \in BOOLEAN : Ending(j, b)' =
            IF last /\ j = i /\ b = wr THEN Ending(j, b) \cup {p} ELSE Ending(j, b)
       /\ Queues'
  <2>1. CASE last /\ i # None
    <3> DEFINE e == CloseEnd(i, wr)
               u == <<e>> \o t
    <3>1. e \in Jobs /\ e \notin Range(t)
      BY <1>3, <1>6, <2>1 DEF Jobs
    <3> HIDE DEF e
    <3>2. /\ u \in Seq(Jobs) /\ Distinct(u) /\ Head(u) = e /\ Range(u) = Range(t) \cup {e}
      BY <1>2, <3>1, RangeCons
    <3>3. jobs' = [jobs EXCEPT ![p] = u]
      BY <1>4, <2>1 DEF e
    <3> HIDE DEF u
    <3>4. \A x \in Range(u) : x.do = "end" => x = Head(u)
      BY <1>2, <3>2
    <3>5. /\ \A g \in File : Closing(g)' =
               IF CloseFile(g) \in Range(u) THEN Closing(g) \cup {p} ELSE Closing(g) \ {p}
          /\ \A j \in Slot : Releasing(j)' =
               IF FreePipe(j) \in Range(u) THEN Releasing(j) \cup {p} ELSE Releasing(j) \ {p}
          /\ \A j \in Slot, b \in BOOLEAN : Ending(j, b)' =
               IF CloseEnd(j, b) \in Range(u) THEN Ending(j, b) \cup {p} ELSE Ending(j, b) \ {p}
          /\ Queues'
      BY <3>2, <3>3, <3>4, JobsChange
    <3>6. /\ \A g \in File : CloseFile(g) \in Range(u) <=> CloseFile(g) \in Range(t)
          /\ \A j \in Slot : FreePipe(j) \in Range(u) <=> FreePipe(j) \in Range(t)
          /\ \A j \in Slot, b \in BOOLEAN : CloseEnd(j, b) \in Range(u) <=> j = i /\ b = wr
      BY <1>3, <1>6, <2>1, <3>2, JobsDiffer DEF e
    <3>7. CloseFile(f) \notin Range(t)
      BY <1>2
    <3>8. \A g \in File \ {f} : Closing(g)' = Closing(g)
      BY <1>b, <3>5, <3>6
    <3>9. \A j \in Slot : Releasing(j)' = Releasing(j)
      BY <1>b, <3>5, <3>6
    <3>10. \A j \in Slot, b \in BOOLEAN : Ending(j, b)' =
             IF last /\ j = i /\ b = wr THEN Ending(j, b) \cup {p} ELSE Ending(j, b)
      BY <1>6, <2>1, <3>5, <3>6
    <3> QED BY <3>5, <3>6, <3>7, <3>8, <3>9, <3>10
  <2>2. CASE ~(last /\ i # None)
    <3>3. jobs' = [jobs EXCEPT ![p] = t]
      BY <1>4, <2>2
    <3>4. \A x \in Range(t) : x.do = "end" => x = Head(t)
      BY <1>2
    <3>5. /\ \A g \in File : Closing(g)' =
               IF CloseFile(g) \in Range(t) THEN Closing(g) \cup {p} ELSE Closing(g) \ {p}
          /\ \A j \in Slot : Releasing(j)' =
               IF FreePipe(j) \in Range(t) THEN Releasing(j) \cup {p} ELSE Releasing(j) \ {p}
          /\ \A j \in Slot, b \in BOOLEAN : Ending(j, b)' =
               IF CloseEnd(j, b) \in Range(t) THEN Ending(j, b) \cup {p} ELSE Ending(j, b) \ {p}
          /\ Queues'
      BY <1>2, <3>3, <3>4, JobsChange
    <3>7. CloseFile(f) \notin Range(t)
      BY <1>2
    <3>8. \A g \in File \ {f} : Closing(g)' = Closing(g)
      BY <1>b, <3>5
    <3>9. \A j \in Slot : Releasing(j)' = Releasing(j)
      BY <1>b, <3>5
    <3>10. ASSUME NEW j \in Slot, NEW b \in BOOLEAN PROVE Ending(j, b)' = Ending(j, b)
      <4>1. CloseEnd(j, b) \notin Range(t) /\ p \notin Ending(j, b)
        BY <1>6
      <4>2. Ending(j, b)' = Ending(j, b) \ {p}
        BY <3>5, <4>1
      <4> QED BY <4>1, <4>2
    <3>11. \A j \in Slot : ~(last /\ j = i)
      BY <1>0, <2>2
    <3> QED BY <3>5, <3>7, <3>8, <3>9, <3>10, <3>11
  <2> QED BY <2>1, <2>2
<1>11. /\ \A g \in File : /\ Having(g)' = Having(g) /\ Reading(g)' = Reading(g)
                          /\ Writing(g)' = Writing(g)
       /\ \A j \in Slot : Making(j)' = Making(j)
       /\ \A j \in Slot : FilesOf(j)' = IF last /\ j = i THEN FilesOf(j) \ {f} ELSE FilesOf(j)
       /\ \A j \in Slot : \A g \in FilesOf(j) : g # f => file'[g] = file[g]
  <2>1. \A g \in File : /\ Having(g)' = Having(g) /\ Reading(g)' = Reading(g)
                        /\ Writing(g)' = Writing(g)
    BY <1>4 DEF Having, Reading, Writing
  <2>2. \A j \in Slot : Making(j)' = Making(j)
    BY <1>4 DEF Making
  <2>3. ASSUME NEW j \in Slot
        PROVE  FilesOf(j)' = IF last /\ j = i THEN FilesOf(j) \ {f} ELSE FilesOf(j)
    <3>1. \A g \in File \ {f} : file'[g].pipe = file[g].pipe
      BY <1>8
    <3>2. last => file'[f].pipe = None
      BY <1>8 DEF NoFile
    <3>3. ~last => file'[f].pipe = file[f].pipe
      BY <1>3, <1>8
    <3> HIDE DEF last
    <3> QED BY <1>0, <1>3, <3>1, <3>2, <3>3 DEF FilesOf
  <2>4. \A j \in Slot : \A g \in FilesOf(j) : g # f => file'[g] = file[g]
    BY <1>8 DEF FilesOf
  <2> QED BY <2>1, <2>2, <2>3, <2>4
<1>12. Idle'
  <2>1. call[p] \in {User, Dead}
    BY <1>2 DEF Refs, Idle
  <2>2. \A q \in Task \ {p} : jobs'[q] = jobs[q]
    BY <1>0, <1>4
  <2> QED BY <1>4, <2>1, <2>2 DEF Refs, Idle
<1>13. Files'
  <2>1. \A g \in File : file'[g].ref = 0 => file'[g] = NoFile
    <3>1. ~last => file'[f].ref # 0
      BY <1>7, <1>8
    <3> QED BY <1>8, <3>1 DEF Refs, Files
  <2>2. ASSUME NEW q \in Task, NEW g \in fds[q]
        PROVE  file'[g].pipe \in Slot
    <3>1. g \in File /\ file[g].pipe \in Slot
      BY <1>0 DEF Refs, Files
    <3>2. last => g # f
      BY <1>9, <2>2 DEF Having
    <3> QED BY <1>3, <1>8, <3>1, <3>2
  <2> QED BY <1>4, <2>1, <2>2 DEF Files
<1>14. Fresh'
  <2>1. \A g \in File : New(g) /\ (Reading(g) # {} \/ Writing(g) # {}) => g # f
    <3>1. New(f) => last
      BY <1>0 DEF New, NoFile
    <3> QED BY <1>9, <3>1
  <2>2. \A g \in (File \cup {None}) \ {f} : New(g) => NewThen(g)
    BY <1>8 DEF New, NewThen
  <2>3. ASSUME NEW q \in Task
        PROVE  /\ call[q].at \in {"wfile", "install"} => NewThen(call[q].rf)
               /\ call[q].at = "install" => NewThen(call[q].wf)
    <3>1. call[q] \in Calls
      BY <1>0
    <3>2. CASE call[q].at \in {"wfile", "install"}
      <4>1. New(call[q].rf) /\ call[q].rf \in File \cup {None}
        BY <3>1, <3>2, Shapes DEF Refs, Fresh
      <4>2. call[q].rf # None => Reading(call[q].rf) # {}
        BY <3>2 DEF Reading
      <4>3. call[q].rf # f
        BY <1>0, <2>1, <4>1, <4>2
      <4>4. NewThen(call[q].rf)
        BY <2>2, <4>1, <4>3
      <4>5. call[q].at = "install" => NewThen(call[q].wf)
        <5>1. SUFFICES ASSUME call[q].at = "install"
                       PROVE  NewThen(call[q].wf)
          OBVIOUS
        <5>2. New(call[q].wf) /\ call[q].wf \in File \cup {None}
          BY <3>1, <5>1, Shapes DEF Refs, Fresh
        <5>3. call[q].wf # None => Writing(call[q].wf) # {}
          BY <5>1 DEF Writing
        <5>4. call[q].wf # f
          BY <1>0, <2>1, <5>2, <5>3
        <5> QED BY <2>2, <5>2, <5>4
      <4> QED BY <4>4, <4>5
    <3> QED BY <3>2
  <2> QED BY <1>4, <2>3 DEF Refs, Fresh, New, NewThen
<1>15. RefsExact'
  <2>1. ASSUME NEW g \in File \ {f}
        PROVE  file'[g].ref = Cardinality(Having(g)') + Cardinality(Reading(g)')
                              + Cardinality(Writing(g)') + Cardinality(Closing(g)')
    <3>1. /\ Having(g)' = Having(g) /\ Reading(g)' = Reading(g) /\ Writing(g)' = Writing(g)
          /\ Closing(g)' = Closing(g) /\ file'[g] = file[g]
      BY <1>8, <1>10, <1>11
    <3> QED BY <3>1 DEF Refs, RefsExact
  <2>2. file'[f].ref = file[f].ref - 1
    BY <1>8 DEF NoFile
  <2>3. /\ Cardinality(Closing(f) \ {p}) = Cardinality(Closing(f)) - 1
        /\ Cardinality(Closing(f)) \in Nat /\ Cardinality(Having(f)) \in Nat
        /\ Cardinality(Reading(f)) \in Nat /\ Cardinality(Writing(f)) \in Nat
    <3>1. /\ Having(f) \in SUBSET Task /\ Reading(f) \in SUBSET Task
          /\ Writing(f) \in SUBSET Task /\ Closing(f) \in SUBSET Task
      BY DEF Having, Reading, Writing, Closing
    <3> QED BY <1>5, <3>1, Counting
  <2>4. file[f].ref = Cardinality(Having(f)) + Cardinality(Reading(f))
                      + Cardinality(Writing(f)) + Cardinality(Closing(f))
    BY DEF Refs, RefsExact
  <2>5. file'[f].ref = Cardinality(Having(f)') + Cardinality(Reading(f)')
                       + Cardinality(Writing(f)') + Cardinality(Closing(f)')
    BY <1>10, <1>11, <2>2, <2>3, <2>4
  <2> QED BY <2>1, <2>5 DEF RefsExact
<1>16. ASSUME NEW j \in Slot
       PROVE  BeingMade(j)' /\ BeingFreed(j)' /\ \A b \in BOOLEAN : EndOwned(j, b)'
  <2>1. BeingMade(j) /\ BeingFreed(j) /\ \A b \in BOOLEAN : EndOwned(j, b)
    BY DEF Refs, Pool
  <2>2. CASE last /\ j = i
    <3>1. f \in FilesOf(i) /\ file[f].wr = wr
      BY <1>3 DEF FilesOf
    <3>2. /\ Making(i) = {} /\ Releasing(i) = {} /\ pipe[i].used
          /\ Open(i, wr) /\ Ending(i, wr) = {}
      BY <2>1, <2>2, <3>1 DEF BeingMade, EndOwned
    <3>3. /\ Making(i)' = {} /\ Releasing(i)' = {} /\ FilesOf(i)' = FilesOf(i) \ {f}
          /\ Ending(i, wr)' = {p} /\ \A b \in BOOLEAN \ {wr} : Ending(i, b)' = Ending(i, b)
          /\ pipe'[i] = pipe[i] /\ \A g \in FilesOf(i) \ {f} : file'[g] = file[g]
      BY <1>4, <1>10, <1>11, <2>2, <3>2
    <3>4. BeingMade(i)'
      BY <3>3 DEF BeingMade
    <3>5. BeingFreed(i)'
      BY <2>1, <2>2, <3>2, <3>3 DEF BeingFreed
    <3>6. EndOwned(i, wr)'
      <4>1. ~ \E g \in FilesOf(i)' : file'[g].wr = wr
        BY <2>1, <2>2, <3>1, <3>3 DEF EndOwned
      <4>2. \A q1, q2 \in Ending(i, wr)' : q1 = q2
        BY <3>3
      <4> QED BY <3>2, <3>3, <4>1, <4>2 DEF EndOwned, Open
    <3>7. ASSUME NEW b \in BOOLEAN \ {wr}
          PROVE  EndOwned(i, b)'
      <4>1. EndOwned(i, b) /\ b \in BOOLEAN
        BY <2>1, <2>2
      <4>2. (\E g \in FilesOf(i)' : file'[g].wr = b) <=> \E g \in FilesOf(i) : file[g].wr = b
        BY <3>1, <3>3
      <4>3. \A g, h \in FilesOf(i)' : file'[g].wr = b /\ file'[h].wr = b => g = h
        BY <3>1, <3>3, <4>1 DEF EndOwned
      <4> QED BY <3>2, <3>3, <4>1, <4>2, <4>3 DEF EndOwned, Open
    <3> QED BY <2>2, <3>4, <3>5, <3>6, <3>7
  <2>3. CASE ~(last /\ j = i)
    <3>1. /\ Making(j)' = Making(j) /\ FilesOf(j)' = FilesOf(j) /\ Releasing(j)' = Releasing(j)
          /\ \A b \in BOOLEAN : Ending(j, b)' = Ending(j, b)
          /\ pipe'[j] = pipe[j]
      BY <1>4, <1>10, <1>11, <2>3
    <3>5. \A g \in FilesOf(j) : file'[g].wr = file[g].wr
      <4>1. f \in FilesOf(j) => ~last
        BY <1>3, <2>3 DEF FilesOf
      <4> QED BY <1>3, <1>8, <1>11, <4>1
    <3>2. BeingMade(j)'
      BY <2>1, <3>1 DEF BeingMade
    <3>3. BeingFreed(j)'
      BY <2>1, <3>1 DEF BeingFreed
    <3>4. ASSUME NEW b \in BOOLEAN
          PROVE  EndOwned(j, b)'
      BY <2>1, <3>1, <3>5 DEF EndOwned, Open
    <3> QED BY <3>2, <3>3, <3>4
  <2> QED BY <2>2, <2>3
<1> QED BY <1>10, <1>12, <1>13, <1>14, <1>15, <1>16 DEF Refs, Pool
(* pipe_close: the end is shut, and with the second one the pipe is to be  *)
(* released.                                                               *)
LEMMA EndKeeps ==
  ASSUME TypeOK, Refs, Queues, NEW p \in Task, End(p)
  PROVE  Refs' /\ Queues'
<1>0. /\ call \in [Task -> Calls] /\ jobs \in [Task -> Seq(Jobs)] /\ pipe \in [Slot -> Pipes]
      /\ file \in [File -> [ref : Nat, pipe : Slot \cup {None}, wr : BOOLEAN]]
  BY DEF TypeOK
<1>1. PICK i \in Slot, wr \in BOOLEAN :
        /\ Head(jobs[p]) = CloseEnd(i, wr) /\ Head(jobs[p]).pi = i /\ Head(jobs[p]).wr = wr
  BY <1>0, NextJob DEF End, Ends
<1> DEFINE t == Tail(jobs[p])
           e == FreePipe(i)
<1>2. /\ jobs[p] # <<>> /\ t \in Seq(Jobs) /\ Distinct(t)
      /\ Range(t) = Range(jobs[p]) \ {CloseEnd(i, wr)} /\ CloseEnd(i, wr) \in Range(jobs[p])
      /\ \A x \in Range(t) : x.do # "end"
  <2>1. jobs[p] # <<>> /\ jobs[p] \in Seq(Jobs) /\ Distinct(jobs[p])
    BY <1>0 DEF End, Ends, Queues
  <2>2. /\ t \in Seq(Jobs) /\ Distinct(t)
        /\ Range(t) = Range(jobs[p]) \ {CloseEnd(i, wr)} /\ CloseEnd(i, wr) \in Range(jobs[p])
    BY <1>1, <2>1, RangeTail
  <2>3. \A x \in Range(t) : x.do # "end"
    BY <1>1, <2>2 DEF Queues, Todo
  <2> QED BY <2>1, <2>2, <2>3
<1>3. PICK x \in BOOLEAN, y \in BOOLEAN :
        x = (pipe[i].writeopen /\ ~wr) /\ y = (pipe[i].readopen /\ wr)
  OBVIOUS
<1>4. /\ pipe' = [pipe EXCEPT ![i] = [pipe[i] EXCEPT !.writeopen = x, !.readopen = y]]
      /\ call' = IF wr THEN WakeReaders(call, i) ELSE WakeWriters(call, i)
      /\ x \/ y => jobs' = [jobs EXCEPT ![p] = t]
      /\ ~(x \/ y) => jobs' = [jobs EXCEPT ![p] = <<e>> \o t]
      /\ UNCHANGED <<file, fds>>
  <2> DEFINE closed == [pipe[i] EXCEPT !.writeopen = @ /\ ~wr, !.readopen = @ /\ wr]
  <2>1. /\ pipe' = [pipe EXCEPT ![i] = closed]
        /\ call' = IF wr THEN WakeReaders(call, i) ELSE WakeWriters(call, i)
        /\ jobs' = [jobs EXCEPT ![p] = IF closed.readopen \/ closed.writeopen
                                       THEN Tail(@) ELSE <<FreePipe(i)>> \o Tail(@)]
        /\ UNCHANGED <<file, fds>>
    BY <1>1 DEF End, Ends
  <2>2. closed = [pipe[i] EXCEPT !.writeopen = x, !.readopen = y]
    BY <1>3
  <2>3. closed.readopen = y /\ closed.writeopen = x
    <3>1. PICK b \in Pipes : b = pipe[i]
      BY <1>0
    <3>2. closed = [b EXCEPT !.writeopen = x, !.readopen = y]
      BY <2>2, <3>1
    <3> HIDE DEF closed
    <3> QED BY Zenon, <3>2 DEF Pipes
  <2> HIDE DEF closed
  <2> QED BY <2>1, <2>2, <2>3
<1>5. /\ \A j \in Slot \ {i} : pipe'[j] = pipe[j]
      /\ pipe'[i].used = pipe[i].used /\ pipe'[i].readopen = y /\ pipe'[i].writeopen = x
  <2>1. PICK b \in Pipes : b = pipe[i]
    BY <1>0
  <2>2. PICK d : d = [b EXCEPT !.writeopen = x, !.readopen = y]
    OBVIOUS
  <2>3. d.used = b.used /\ d.readopen = y /\ d.writeopen = x
    BY Zenon, <2>2 DEF Pipes
  <2>4. pipe' = [pipe EXCEPT ![i] = d]
    BY <1>4, <2>1, <2>2
  <2> QED BY <1>0, <2>1, <2>3, <2>4
<1>6. p \in Ending(i, wr)
  BY <1>2 DEF Ending
<1>7. /\ Open(i, wr) /\ Ending(i, wr) = {p} /\ pipe[i].used
      /\ Releasing(i) = {} /\ Making(i) = {} /\ \A g \in FilesOf(i) : file[g].wr # wr
  BY <1>6 DEF Refs, Pool, EndOwned, BeingMade
<1>8. e \in Jobs /\ e \notin Range(t)
  <2>1. p \notin Releasing(i)
    BY <1>7
  <2> QED BY <1>2, <2>1 DEF Jobs, Releasing
<1>9. /\ \A g \in File : (IF CloseFile(g) \in Range(t)
                          THEN Closing(g) \cup {p} ELSE Closing(g) \ {p}) = Closing(g)
      /\ \A j \in Slot : (IF FreePipe(j) \in Range(t)
                          THEN Releasing(j) \cup {p} ELSE Releasing(j) \ {p}) = Releasing(j)
      /\ \A j \in Slot, b \in BOOLEAN :
           /\ CloseEnd(j, b) \notin Range(t)
           /\ Ending(j, b) \ {p} = IF j = i /\ b = wr THEN {} ELSE Ending(j, b)
  <2>1. \A g \in File : CloseFile(g) \in Range(t) <=> p \in Closing(g)
    BY <1>2, JobsDiffer DEF Closing
  <2>2. \A j \in Slot : FreePipe(j) \in Range(t) <=> p \in Releasing(j)
    BY <1>2, JobsDiffer DEF Releasing
  <2>3. \A j \in Slot, b \in BOOLEAN : CloseEnd(j, b) \notin Range(t)
    BY <1>2 DEF CloseEnd
  <2>4. \A j \in Slot, b \in BOOLEAN : p \in Ending(j, b) => j = i /\ b = wr
    BY <1>2, <2>3, JobsDiffer DEF Ending
  <2> HIDE DEF t
  <2>5. \A j \in Slot, b \in BOOLEAN :
          Ending(j, b) \ {p} = IF j = i /\ b = wr THEN {} ELSE Ending(j, b)
    BY <1>7, <2>4
  <2> QED BY <2>1, <2>2, <2>3, <2>5
<1>10. /\ \A g \in File : Closing(g)' = Closing(g)
       /\ \A j \in Slot \ {i} : Releasing(j)' = Releasing(j)
       /\ Releasing(i)' = IF x \/ y THEN {} ELSE {p}
       /\ \A j \in Slot, b \in BOOLEAN : Ending(j, b)' =
            IF j = i /\ b = wr THEN {} ELSE Ending(j, b)
       /\ Queues'
  <2> DEFINE u == IF x \/ y THEN t ELSE <<e>> \o t
  <2> HIDE DEF t
  <2>1. /\ u \in Seq(Jobs) /\ Distinct(u)
        /\ Range(u) = Range(t) \cup {z \in {e} : ~(x \/ y)}
    <3>1. CASE x \/ y
      BY <1>2, <3>1
    <3>2. CASE ~(x \/ y)
      <4> HIDE DEF e
      <4>1. /\ <<e>> \o t \in Seq(Jobs) /\ Distinct(<<e>> \o t)
            /\ Range(<<e>> \o t) = Range(t) \cup {e}
        BY <1>2, <1>8, RangeCons
      <4>2. u = <<e>> \o t /\ {z \in {e} : ~(x \/ y)} = {e}
        BY <3>2
      <4> QED BY <4>1, <4>2
    <3> QED BY <3>1, <3>2
  <2>2. jobs' = [jobs EXCEPT ![p] = u]
    BY <1>4
  <2> HIDE DEF u
  <2>3. \A z \in Range(u) : z.do # "end"
    BY <1>2, <2>1 DEF FreePipe
  <2>4. /\ \A g \in File : Closing(g)' =
             IF CloseFile(g) \in Range(u) THEN Closing(g) \cup {p} ELSE Closing(g) \ {p}
        /\ \A j \in Slot : Releasing(j)' =
             IF FreePipe(j) \in Range(u) THEN Releasing(j) \cup {p} ELSE Releasing(j) \ {p}
        /\ \A j \in Slot, b \in BOOLEAN : Ending(j, b)' =
             IF CloseEnd(j, b) \in Range(u) THEN Ending(j, b) \cup {p} ELSE Ending(j, b) \ {p}
        /\ Queues'
    BY <2>1, <2>2, <2>3, JobsChange
  <2>5. /\ \A g \in File : CloseFile(g) \in Range(u) <=> CloseFile(g) \in Range(t)
        /\ \A j \in Slot : FreePipe(j) \in Range(u) <=>
                             FreePipe(j) \in Range(t) \/ (j = i /\ ~(x \/ y))
        /\ \A j \in Slot, b \in BOOLEAN : CloseEnd(j, b) \notin Range(u)
    BY <1>9, <2>1, JobsDiffer
  <2>6. \A g \in File : Closing(g)' = Closing(g)
    BY <1>9, <2>4, <2>5
  <2>7. \A j \in Slot \ {i} : Releasing(j)' = Releasing(j)
    BY <1>9, <2>4, <2>5
  <2>8. Releasing(i)' = IF x \/ y THEN {} ELSE {p}
    BY <1>7, <1>8, <2>4, <2>5
  <2>9. \A j \in Slot, b \in BOOLEAN : Ending(j, b)' = IF j = i /\ b = wr THEN {} ELSE Ending(j, b)
    BY <1>9, <2>4, <2>5
  <2> QED BY <2>4, <2>6, <2>7, <2>8, <2>9
<1>11. SameCalls
  <2> DEFINE woken == IF wr THEN WakeReaders(call, i) ELSE WakeWriters(call, i)
  <2>1. woken \in {WakeReaders(call, i), WakeWriters(call, i)} /\ call' = woken
    BY <1>4
  <2> HIDE DEF woken
  <2>2. ASSUME NEW q \in Task
        PROVE  /\ Busy(call[q]) \/ Busy(woken[q]) => woken[q] = call[q]
               /\ woken[q] = Dead <=> call[q] = Dead
               /\ ~InPipe(call[q]) => woken[q] = call[q]
    <3>1. call \in [Task -> Calls] /\ i \in Slot
      BY <1>0
    <3> QED BY <2>1, <3>1, WakeFrame, Zenon
  <2>3. \A q \in Task : jobs[q] # <<>> => ~InPipe(call[q])
    BY DEF Refs, Idle, InPipe, User, Dead
  <2> QED BY <2>1, <2>2, <2>3 DEF SameCalls
<1> HIDE DEF t, e
<1>12. /\ \A g \in File : /\ Having(g)' = Having(g) /\ Reading(g)' = Reading(g)
                          /\ Writing(g)' = Writing(g)
       /\ \A j \in Slot : Making(j)' = Making(j) /\ FilesOf(j)' = FilesOf(j)
  BY <1>4, <1>11, SameMaking DEF Having, FilesOf
<1>13. Idle' /\ Files' /\ Fresh'
  <2>1. call[p] \in {User, Dead} /\ call'[p] = call[p]
    BY <1>2, <1>11 DEF Refs, Idle, SameCalls
  <2>2. \A q \in Task \ {p} : jobs'[q] = jobs[q]
    BY <1>0, <1>4
  <2>3. Idle'
    BY <1>4, <1>11, <2>1, <2>2 DEF Refs, Idle, SameCalls
  <2>4. Files'
    BY <1>4 DEF Refs, Files
  <2>5. Fresh'
    BY <1>4, <1>11 DEF Refs, Fresh, SameCalls, New, Busy
  <2> QED BY <2>3, <2>4, <2>5
<1>14. RefsExact'
  BY <1>4, <1>10, <1>12 DEF Refs, RefsExact
<1>15. ASSUME NEW j \in Slot
       PROVE  BeingMade(j)' /\ BeingFreed(j)' /\ \A b \in BOOLEAN : EndOwned(j, b)'
  <2>1. BeingMade(j) /\ BeingFreed(j) /\ \A b \in BOOLEAN : EndOwned(j, b)
    BY DEF Refs, Pool
  <2>2. CASE j = i
    <3>1. Making(i)' = {} /\ FilesOf(i)' = FilesOf(i) /\ Ending(i, wr)' = {} /\ file' = file
      BY <1>4, <1>7, <1>10, <1>12
    <3>2. BeingMade(i)'
      BY <3>1 DEF BeingMade
    <3>3. BeingFreed(i)'
      BY <1>5, <1>7, <1>10 DEF BeingFreed
    <3>4. EndOwned(i, wr)'
      <4>1. ~Open(i, wr)'
        BY <1>3, <1>5 DEF Open
      <4>2. FilesOf(i) # {} => x \/ y
        <5>1. \A g \in FilesOf(i) : file[g].wr = ~wr
          BY <1>0, <1>7 DEF FilesOf
        <5>2. PICK b \in BOOLEAN : b = ~wr
          OBVIOUS
        <5>3. EndOwned(i, b)
          BY <2>1, <2>2
        <5>4. \A g \in FilesOf(i) : file[g].wr = b
          BY <5>1, <5>2
        <5>5. FilesOf(i) # {} => Open(i, b)
          BY <5>3, <5>4 DEF EndOwned
        <5> QED BY <1>3, <5>2, <5>5 DEF Open
      <4>3. pipe'[i].used
        BY <1>5, <1>7
      <4>4. FilesOf(i)' # {} => Releasing(i)' = {}
        BY <1>10, <3>1, <4>2
      <4> QED BY <1>7, <3>1, <4>1, <4>3, <4>4 DEF EndOwned
    <3>5. ASSUME NEW b \in BOOLEAN \ {wr}
          PROVE  EndOwned(i, b)'
      <4>1. Open(i, b)' <=> Open(i, b)
        BY <1>3, <1>5 DEF Open
      <4>2. Open(i, b) => x \/ y
        BY <1>3 DEF Open
      <4>3. EndOwned(i, b) /\ Ending(i, b)' = Ending(i, b)
        BY <1>10, <2>1, <2>2
      <4>4. FilesOf(i) # {} => Open(i, b)
        <5>1. \A g \in FilesOf(i) : file[g].wr = b
          BY <1>0, <1>7 DEF FilesOf
        <5> QED BY <4>3, <5>1 DEF EndOwned
      <4>5. /\ Releasing(i) = {} /\ (x \/ y => Releasing(i)' = {})
            /\ pipe'[i].used
        BY <1>5, <1>7, <1>10
      <4> QED BY <1>7, <3>1, <4>1, <4>2, <4>3, <4>4, <4>5 DEF EndOwned
    <3> QED BY <2>2, <3>2, <3>3, <3>4, <3>5
  <2>3. CASE j # i
    <3>1. /\ Making(j)' = Making(j) /\ FilesOf(j)' = FilesOf(j) /\ Releasing(j)' = Releasing(j)
          /\ \A b \in BOOLEAN : Ending(j, b)' = Ending(j, b)
          /\ pipe'[j] = pipe[j] /\ file' = file
      BY <1>4, <1>5, <1>10, <1>12, <2>3
    <3>2. BeingMade(j)'
      BY <2>1, <3>1 DEF BeingMade
    <3>3. BeingFreed(j)'
      BY <2>1, <3>1 DEF BeingFreed
    <3>4. ASSUME NEW b \in BOOLEAN
          PROVE  EndOwned(j, b)'
      BY <2>1, <3>1 DEF EndOwned, Open
    <3> QED BY <3>2, <3>3, <3>4
  <2> QED BY <2>2, <2>3
<1> QED BY <1>10, <1>13, <1>14, <1>15 DEF Refs, Pool
(* Files that leave a table of descriptors are to be closed: the           *)
(* references go from the one to the other.                                *)
LEMMA Dropping ==
  ASSUME TypeOK, Refs, Queues, NEW p \in Task, NEW D \in SUBSET fds[p],
         jobs[p] = <<>>, ~Busy(call[p]),
         NEW u \in Seq(Jobs), Distinct(u), Range(u) = {CloseFile(g) : g \in D},
         jobs' = [jobs EXCEPT ![p] = u], fds' = [fds EXCEPT ![p] = @ \ D],
         call'[p] \in {User, Dead}, call'[p] = Dead => D = fds[p],
         \A q \in Task \ {p} : call'[q] = call[q],
         UNCHANGED <<pipe, file>>
  PROVE  Refs' /\ Queues'
<1>0. /\ jobs \in [Task -> Seq(Jobs)] /\ fds \in [Task -> SUBSET File]
      /\ D \subseteq File /\ ~Busy(call'[p])
  BY DEF TypeOK, Busy, User, Dead
<1>1. /\ \A g \in File : CloseFile(g) \in Range(u) <=> g \in D
      /\ \A i \in Slot : FreePipe(i) \notin Range(u)
      /\ \A i \in Slot, wr \in BOOLEAN : CloseEnd(i, wr) \notin Range(u)
      /\ \A e \in Range(u) : e.do = "end" => e = Head(u)
  <2>1. \A g \in File : CloseFile(g) \in Range(u) <=> g \in D
    BY <1>0, JobsDiffer
  <2>2. \A i \in Slot : FreePipe(i) \notin Range(u)
    BY <1>0, JobsDiffer
  <2>3. \A i \in Slot, wr \in BOOLEAN : CloseEnd(i, wr) \notin Range(u)
    BY <1>0, JobsDiffer
  <2>4. \A e \in Range(u) : e.do = "file"
    BY DEF CloseFile
  <2> QED BY <2>1, <2>2, <2>3, <2>4
<1>2. /\ \A g \in File : p \notin Closing(g)
      /\ \A i \in Slot : p \notin Releasing(i) /\ \A wr \in BOOLEAN : p \notin Ending(i, wr)
  <2>1. Range(jobs[p]) = {}
    BY RangeShort
  <2> QED BY <2>1 DEF Closing, Releasing, Ending
<1>3. /\ \A g \in File : Closing(g)' =
           IF CloseFile(g) \in Range(u) THEN Closing(g) \cup {p} ELSE Closing(g) \ {p}
      /\ \A j \in Slot : Releasing(j)' =
           IF FreePipe(j) \in Range(u) THEN Releasing(j) \cup {p} ELSE Releasing(j) \ {p}
      /\ \A j \in Slot, b \in BOOLEAN : Ending(j, b)' =
           IF CloseEnd(j, b) \in Range(u) THEN Ending(j, b) \cup {p} ELSE Ending(j, b) \ {p}
      /\ Queues'
  BY <1>1, JobsChange
<1>4. /\ \A g \in File : Closing(g)' = IF g \in D THEN Closing(g) \cup {p} ELSE Closing(g)
      /\ \A j \in Slot : Releasing(j)' = Releasing(j)
      /\ \A j \in Slot, b \in BOOLEAN : Ending(j, b)' = Ending(j, b)
  <2>0. /\ \A g \in File : Closing(g) \ {p} = Closing(g)
        /\ \A j \in Slot : Releasing(j) \ {p} = Releasing(j)
        /\ \A j \in Slot, b \in BOOLEAN : Ending(j, b) \ {p} = Ending(j, b)
    BY <1>2
  <2>1. \A g \in File : Closing(g)' = IF g \in D THEN Closing(g) \cup {p} ELSE Closing(g)
    BY <1>1, <1>3, <2>0
  <2>2. \A j \in Slot : Releasing(j)' = Releasing(j)
    BY <1>1, <1>3, <2>0
  <2>3. \A j \in Slot, b \in BOOLEAN : Ending(j, b)' = Ending(j, b)
    BY <1>1, <1>3, <2>0
  <2> QED BY <2>1, <2>2, <2>3
<1>5. \A g \in File : Having(g)' = IF g \in D THEN Having(g) \ {p} ELSE Having(g)
  <2>1. fds'[p] = fds[p] \ D /\ \A q \in Task \ {p} : fds'[q] = fds[q]
    BY <1>0
  <2> QED BY <2>1 DEF Having
<1>6. /\ \A g \in File : Reading(g)' = Reading(g) /\ Writing(g)' = Writing(g)
      /\ \A j \in Slot : Making(j)' = Making(j) /\ FilesOf(j)' = FilesOf(j)
  <2>1. \A q \in Task : Busy(call[q]) \/ Busy(call'[q]) => call'[q] = call[q]
    BY <1>0
  <2>2. \A g \in File : Reading(g)' = Reading(g)
    BY <2>1 DEF Reading, Busy
  <2>3. \A g \in File : Writing(g)' = Writing(g)
    BY <2>1 DEF Writing, Busy
  <2>4. \A j \in Slot : Making(j)' = Making(j)
    BY <2>1 DEF Making, Busy
  <2>5. \A j \in Slot : FilesOf(j)' = FilesOf(j)
    BY DEF FilesOf
  <2> QED BY <2>2, <2>3, <2>4, <2>5
<1>7. Idle'
  <2>1. \A q \in Task \ {p} : jobs'[q] = jobs[q] /\ fds'[q] = fds[q] /\ call'[q] = call[q]
    BY <1>0
  <2>2. fds'[p] = fds[p] \ D
    BY <1>0
  <2> QED BY <2>1, <2>2 DEF Refs, Idle
<1>8. Files'
  <2>1. \A q \in Task : fds'[q] \subseteq fds[q]
    BY <1>0
  <2> QED BY <2>1 DEF Refs, Files
<1>9. Fresh'
  <2>1. \A q \in Task : Busy(call'[q]) => call'[q] = call[q]
    BY <1>0
  <2> QED BY <2>1 DEF Refs, Fresh, New, Busy
<1>10. RefsExact'
  <2>1. ASSUME NEW g \in File
        PROVE  file'[g].ref = Cardinality(Having(g)') + Cardinality(Reading(g)')
                              + Cardinality(Writing(g)') + Cardinality(Closing(g)')
    <3>1. file[g].ref = Cardinality(Having(g)) + Cardinality(Reading(g))
                        + Cardinality(Writing(g)) + Cardinality(Closing(g))
      BY DEF Refs, RefsExact
    <3>2. Reading(g)' = Reading(g) /\ Writing(g)' = Writing(g) /\ file' = file
      BY <1>6
    <3>3. CASE g \in D
      <4>1. p \in Having(g) /\ p \notin Closing(g)
        BY <1>2, <3>3 DEF Having
      <4>2. /\ Having(g)' = Having(g) \ {p} /\ Closing(g)' = Closing(g) \cup {p}
        BY <1>4, <1>5, <3>3
      <4>3. Having(g) \in SUBSET Task /\ Closing(g) \in SUBSET Task
        BY DEF Having, Closing
      <4>4. PICK H, C \in SUBSET Task : H = Having(g) /\ C = Closing(g)
        BY <4>3
      <4>5. Cardinality(H \ {p}) = Cardinality(H) - 1 /\ Cardinality(H) \in Nat
        BY <4>1, <4>4, Counting
      <4>6. Cardinality(C \cup {p}) = Cardinality(C) + 1 /\ Cardinality(C) \in Nat
        BY <4>1, <4>4, Counting
      <4>7. /\ Cardinality(Having(g)') = Cardinality(Having(g)) - 1
            /\ Cardinality(Closing(g)') = Cardinality(Closing(g)) + 1
            /\ Cardinality(Having(g)) \in Nat /\ Cardinality(Closing(g)) \in Nat
        BY <4>2, <4>4, <4>5, <4>6
      <4>8. Cardinality(Reading(g)) \in Nat /\ Cardinality(Writing(g)) \in Nat
        <5>1. Reading(g) \in SUBSET Task /\ Writing(g) \in SUBSET Task
          BY DEF Reading, Writing
        <5> QED BY <5>1, Counting
      <4> QED BY <3>1, <3>2, <4>7, <4>8
    <3>4. CASE g \notin D
      BY <1>4, <1>5, <3>1, <3>2, <3>4
    <3> QED BY <3>3, <3>4
  <2> QED BY <2>1 DEF RefsExact
<1>11. ASSUME NEW j \in Slot
       PROVE  BeingMade(j)' /\ BeingFreed(j)' /\ \A b \in BOOLEAN : EndOwned(j, b)'
  <2>1. BeingMade(j) /\ BeingFreed(j) /\ \A b \in BOOLEAN : EndOwned(j, b)
    BY DEF Refs, Pool
  <2>2. /\ Making(j)' = Making(j) /\ FilesOf(j)' = FilesOf(j) /\ Releasing(j)' = Releasing(j)
        /\ \A b \in BOOLEAN : Ending(j, b)' = Ending(j, b)
        /\ pipe' = pipe /\ file' = file
    BY <1>4, <1>6
  <2>3. BeingMade(j)'
    BY <2>1, <2>2 DEF BeingMade
  <2>4. BeingFreed(j)'
    BY <2>1, <2>2 DEF BeingFreed
  <2>5. ASSUME NEW b \in BOOLEAN
        PROVE  EndOwned(j, b)'
    BY <2>1, <2>2 DEF EndOwned, Open
  <2> QED BY <2>3, <2>4, <2>5
<1> QED BY <1>3, <1>7, <1>8, <1>9, <1>10, <1>11 DEF Refs, Pool

(* close: one descriptor.                                                  *)
LEMMA CloseKeeps ==
  ASSUME TypeOK, Refs, Queues, NEW p \in Task, NEW f \in fds[p], Close(p, f)
  PROVE  Refs' /\ Queues'
<1>0. f \in File /\ fds \in [Task -> SUBSET File]
  BY DEF TypeOK
<1>1. /\ jobs[p] = <<>> /\ call[p] = User /\ call' = call
      /\ fds' = [fds EXCEPT ![p] = @ \ {f}]
      /\ jobs' = [jobs EXCEPT ![p] = <<CloseFile(f)>>]
      /\ UNCHANGED <<pipe, file>>
  BY DEF Close, InUser
<1>2. PICK e \in Jobs : e = CloseFile(f)
  BY <1>0 DEF Jobs
<1>3. PICK u : u = <<e>>
  OBVIOUS
<1>4. /\ u \in Seq(Jobs) /\ Distinct(u) /\ Range(u) = {e}
  BY <1>2, <1>3, RangeShort
<1>5. Range(u) = {CloseFile(g) : g \in {f}}
  BY <1>2, <1>4
<1>6. ~Busy(call[p]) /\ call'[p] \in {User, Dead} /\ call'[p] # Dead
  BY <1>1 DEF Busy, User, Dead
<1>7. {f} \in SUBSET fds[p] /\ jobs' = [jobs EXCEPT ![p] = u]
  BY <1>1, <1>2, <1>3
<1>8. \A q \in Task \ {p} : call'[q] = call[q]
  BY <1>1
<1> QED BY <1>1, <1>4, <1>5, <1>6, <1>7, <1>8, Dropping

(* exit: all of them.                                                      *)
LEMMA DieKeeps ==
  ASSUME TypeOK, Refs, Queues, NEW p \in Task, Die(p)
  PROVE  Refs' /\ Queues'
<1>0. fds \in [Task -> SUBSET File] /\ fds[p] \in SUBSET File /\ call \in [Task -> Calls]
  BY DEF TypeOK
<1>1. PICK s \in SetToSeqs(fds[p]) :
        jobs' = [jobs EXCEPT ![p] = [k \in DOMAIN s |-> CloseFile(s[k])]]
  BY DEF Die
<1>2. PICK u : u = [k \in DOMAIN s |-> CloseFile(s[k])]
  OBVIOUS
<1>3. /\ u \in Seq(Jobs) /\ Distinct(u) /\ Range(u) = {CloseFile(f) : f \in fds[p]}
  BY <1>0, <1>2, CloseAll
<1>4. /\ fds' = [fds EXCEPT ![p] = @ \ fds[p]] /\ call' = [call EXCEPT ![p] = Dead]
      /\ jobs' = [jobs EXCEPT ![p] = u] /\ UNCHANGED <<pipe, file>>
  BY <1>0, <1>1, <1>2 DEF Die
<1>5. ~Busy(call[p]) /\ jobs[p] = <<>>
  BY DEF Die, InUser, Busy, User, Dead, Refs, Idle
<1>6. call'[p] = Dead /\ \A q \in Task \ {p} : call'[q] = call[q]
  BY <1>0, <1>4
<1>7. fds[p] \in SUBSET fds[p]
  OBVIOUS
<1> QED BY <1>3, <1>4, <1>5, <1>6, <1>7, Dropping
(* pipe_pool_free: nobody answers for the slot any more.                   *)
LEMMA PoolFreeKeeps ==
  ASSUME TypeOK, Refs, Queues, NEW p \in Task, PoolFree(p)
  PROVE  Refs' /\ Queues'
<1>0. /\ jobs \in [Task -> Seq(Jobs)] /\ pipe \in [Slot -> Pipes]
  BY DEF TypeOK
<1>1. PICK i \in Slot : Head(jobs[p]) = FreePipe(i) /\ Head(jobs[p]).pi = i
  BY <1>0, NextJob DEF PoolFree
<1> DEFINE t == Tail(jobs[p])
<1>2. /\ jobs[p] # <<>> /\ t \in Seq(Jobs) /\ Distinct(t)
      /\ Range(t) = Range(jobs[p]) \ {FreePipe(i)} /\ FreePipe(i) \in Range(jobs[p])
      /\ \A x \in Range(t) : x.do # "end"
  <2>1. jobs[p] # <<>> /\ jobs[p] \in Seq(Jobs) /\ Distinct(jobs[p])
    BY <1>0 DEF PoolFree, Queues
  <2>2. /\ t \in Seq(Jobs) /\ Distinct(t)
        /\ Range(t) = Range(jobs[p]) \ {FreePipe(i)} /\ FreePipe(i) \in Range(jobs[p])
    BY <1>1, <2>1, RangeTail
  <2>3. \A x \in Range(t) : x.do # "end"
    BY <1>1, <2>2 DEF Queues, Todo
  <2> QED BY <2>1, <2>2, <2>3
<1>3. /\ pipe' = [pipe EXCEPT ![i].used = FALSE] /\ jobs' = [jobs EXCEPT ![p] = t]
      /\ UNCHANGED <<file, fds, call>>
  BY <1>1 DEF PoolFree
<1>4. ~pipe'[i].used /\ \A j \in Slot \ {i} : pipe'[j] = pipe[j]
  <2>1. PICK b \in Pipes : b = pipe[i]
    BY <1>0
  <2>2. pipe' = [pipe EXCEPT ![i] = [b EXCEPT !.used = FALSE]]
    BY <1>3, <2>1
  <2> QED BY <1>0, <2>2, PipeFreed
<1>5. p \in Releasing(i)
  BY <1>2 DEF Releasing
<1>6. /\ Releasing(i) = {p} /\ Making(i) = {} /\ FilesOf(i) = {}
      /\ \A b \in BOOLEAN : Ending(i, b) = {}
  <2>1. BeingMade(i) /\ BeingFreed(i) /\ EndOwned(i, TRUE) /\ \A b \in BOOLEAN : EndOwned(i, b)
    BY DEF Refs, Pool
  <2>2. Releasing(i) = {p} /\ Making(i) = {}
    BY <1>5, <2>1 DEF BeingMade, BeingFreed
  <2>3. FilesOf(i) = {}
    BY <1>5, <2>1 DEF EndOwned
  <2>4. \A b \in BOOLEAN : Ending(i, b) = {}
    BY <1>5, <2>1 DEF EndOwned
  <2> QED BY <2>2, <2>3, <2>4
<1>7. /\ \A g \in File : CloseFile(g) \in Range(t) <=> p \in Closing(g)
      /\ \A j \in Slot \ {i} : FreePipe(j) \in Range(t) <=> p \in Releasing(j)
      /\ FreePipe(i) \notin Range(t)
      /\ \A j \in Slot, b \in BOOLEAN : CloseEnd(j, b) \notin Range(t) /\ p \notin Ending(j, b)
  <2>1. \A g \in File : CloseFile(g) \in Range(t) <=> p \in Closing(g)
    BY <1>2, JobsDiffer DEF Closing
  <2>2. \A j \in Slot \ {i} : FreePipe(j) \in Range(t) <=> p \in Releasing(j)
    BY <1>2, JobsDiffer DEF Releasing
  <2>3. \A j \in Slot, b \in BOOLEAN : CloseEnd(j, b) \notin Range(t)
    BY <1>2 DEF CloseEnd
  <2>4. \A j \in Slot, b \in BOOLEAN : p \notin Ending(j, b)
    BY <1>2, <2>3, JobsDiffer DEF Ending
  <2> QED BY <1>2, <2>1, <2>2, <2>3, <2>4
<1> HIDE DEF t
<1>8. /\ \A g \in File : (IF CloseFile(g) \in Range(t)
                          THEN Closing(g) \cup {p} ELSE Closing(g) \ {p}) = Closing(g)
      /\ \A j \in Slot \ {i} : (IF FreePipe(j) \in Range(t)
                                THEN Releasing(j) \cup {p} ELSE Releasing(j) \ {p}) = Releasing(j)
      /\ \A j \in Slot, b \in BOOLEAN : Ending(j, b) \ {p} = Ending(j, b)
  BY <1>7
<1>9. /\ \A g \in File : Closing(g)' =
           IF CloseFile(g) \in Range(t) THEN Closing(g) \cup {p} ELSE Closing(g) \ {p}
      /\ \A j \in Slot : Releasing(j)' =
           IF FreePipe(j) \in Range(t) THEN Releasing(j) \cup {p} ELSE Releasing(j) \ {p}
      /\ \A j \in Slot, b \in BOOLEAN : Ending(j, b)' =
           IF CloseEnd(j, b) \in Range(t) THEN Ending(j, b) \cup {p} ELSE Ending(j, b) \ {p}
      /\ Queues'
  <2>1. \A x \in Range(t) : x.do = "end" => x = Head(t)
    BY <1>2
  <2> QED BY <1>2, <1>3, <2>1, JobsChange
<1>10. /\ \A g \in File : Closing(g)' = Closing(g)
       /\ \A j \in Slot \ {i} : Releasing(j)' = Releasing(j)
       /\ Releasing(i)' = {}
       /\ \A j \in Slot, b \in BOOLEAN : Ending(j, b)' = Ending(j, b)
  <2>1. \A g \in File : Closing(g)' = Closing(g)
    BY <1>8, <1>9
  <2>2. \A j \in Slot \ {i} : Releasing(j)' = Releasing(j)
    BY <1>8, <1>9
  <2>3. Releasing(i)' = {}
    BY <1>6, <1>7, <1>9
  <2>4. \A j \in Slot, b \in BOOLEAN : Ending(j, b)' = Ending(j, b)
    BY <1>7, <1>8, <1>9
  <2> QED BY <2>1, <2>2, <2>3, <2>4
<1>11. /\ \A g \in File : /\ Having(g)' = Having(g) /\ Reading(g)' = Reading(g)
                          /\ Writing(g)' = Writing(g)
       /\ \A j \in Slot : Making(j)' = Making(j) /\ FilesOf(j)' = FilesOf(j)
  BY <1>3 DEF Having, Reading, Writing, Making, FilesOf
<1>12. Idle'
  <2>1. call[p] \in {User, Dead}
    BY <1>2 DEF Refs, Idle
  <2>2. \A q \in Task \ {p} : jobs'[q] = jobs[q]
    BY <1>0, <1>3
  <2> QED BY <1>3, <2>1, <2>2 DEF Refs, Idle
<1>13. Files' /\ Fresh'
  BY <1>3 DEF Refs, Files, Fresh, New
<1>14. RefsExact'
  BY <1>3, <1>10, <1>11 DEF Refs, RefsExact
<1>15. ASSUME NEW j \in Slot
       PROVE  BeingMade(j)' /\ BeingFreed(j)' /\ \A b \in BOOLEAN : EndOwned(j, b)'
  <2>1. BeingMade(j) /\ BeingFreed(j) /\ \A b \in BOOLEAN : EndOwned(j, b)
    BY DEF Refs, Pool
  <2>2. CASE j = i
    <3>1. /\ Making(i)' = {} /\ Releasing(i)' = {} /\ FilesOf(i)' = {}
          /\ \A b \in BOOLEAN : Ending(i, b)' = {}
      BY <1>6, <1>10, <1>11
    <3>2. BeingMade(i)' /\ BeingFreed(i)'
      BY <1>4, <3>1 DEF BeingMade, BeingFreed
    <3>3. ASSUME NEW b \in BOOLEAN
          PROVE  EndOwned(i, b)'
      BY <1>4, <3>1 DEF EndOwned
    <3> QED BY <2>2, <3>2, <3>3
  <2>3. CASE j # i
    <3>1. /\ Making(j)' = Making(j) /\ FilesOf(j)' = FilesOf(j) /\ Releasing(j)' = Releasing(j)
          /\ \A b \in BOOLEAN : Ending(j, b)' = Ending(j, b)
          /\ pipe'[j] = pipe[j] /\ file' = file
      BY <1>3, <1>4, <1>10, <1>11, <2>3
    <3>2. BeingMade(j)'
      BY <2>1, <3>1 DEF BeingMade
    <3>3. BeingFreed(j)'
      BY <2>1, <3>1 DEF BeingFreed
    <3>4. ASSUME NEW b \in BOOLEAN
          PROVE  EndOwned(j, b)'
      BY <2>1, <3>1 DEF EndOwned, Open
    <3> QED BY <3>2, <3>3, <3>4
  <2> QED BY <2>2, <2>3
<1> QED BY <1>9, <1>12, <1>13, <1>14, <1>15 DEF Refs, Pool

(* fork: the child holds what its parent holds.                            *)
LEMMA ForkKeeps ==
  ASSUME TypeOK, Refs, Queues, NEW p \in Task, NEW c \in Task, Fork(p, c)
  PROVE  Refs' /\ Queues'
<1> DEFINE FileSet == [ref : Nat, pipe : Slot \cup {None}, wr : BOOLEAN]
<1>0. /\ call \in [Task -> Calls] /\ fds \in [Task -> SUBSET File] /\ file \in [File -> FileSet]
      /\ None \notin File /\ None \notin Slot
  BY Constants DEF TypeOK
<1>1. /\ call[p] = User /\ call[c] = Dead /\ jobs[c] = <<>> /\ fds[c] = {}
      /\ \A f \in File : file'[f] = IF f \in fds[p] THEN [file[f] EXCEPT !.ref = @ + 1] ELSE file[f]
      /\ fds' = [fds EXCEPT ![c] = fds[p]] /\ call' = [call EXCEPT ![c] = User]
      /\ UNCHANGED <<pipe, jobs>>
  BY DEF Fork, InUser, Refs, Idle
<1>2. \A f \in File : /\ file'[f].pipe = file[f].pipe /\ file'[f].wr = file[f].wr
                      /\ file'[f].ref = IF f \in fds[p] THEN file[f].ref + 1 ELSE file[f].ref
  <2> TAKE f \in File
  <2>1. file[f] \in FileSet
    BY <1>0
  <2>2. LET g == [file[f] EXCEPT !.ref = @ + 1]
        IN  g.pipe = file[f].pipe /\ g.wr = file[f].wr /\ g.ref = file[f].ref + 1
    BY <2>1
  <2> QED BY <1>1, <2>2
<1>3. \A f \in File : Having(f)' = IF f \in fds[p] THEN Having(f) \cup {c} ELSE Having(f)
  <2>1. fds'[c] = fds[p] /\ \A q \in Task \ {c} : fds'[q] = fds[q]
    BY <1>0, <1>1
  <2> QED BY <1>1, <2>1 DEF Having
<1>4. /\ \A f \in File : /\ Reading(f)' = Reading(f) /\ Writing(f)' = Writing(f)
                         /\ Closing(f)' = Closing(f)
      /\ \A j \in Slot : /\ Making(j)' = Making(j) /\ FilesOf(j)' = FilesOf(j)
                         /\ Releasing(j)' = Releasing(j)
                         /\ \A b \in BOOLEAN : Ending(j, b)' = Ending(j, b)
  <2>1. \A q \in Task : Busy(call[q]) \/ Busy(call'[q]) => call'[q] = call[q]
    BY <1>0, <1>1 DEF Busy, User, Dead
  <2>2. \A f \in File : Reading(f)' = Reading(f)
    BY <2>1 DEF Reading, Busy
  <2>3. \A f \in File : Writing(f)' = Writing(f)
    BY <2>1 DEF Writing, Busy
  <2>4. \A j \in Slot : Making(j)' = Making(j)
    BY <2>1 DEF Making, Busy
  <2>5. \A j \in Slot : FilesOf(j)' = FilesOf(j)
    BY <1>2 DEF FilesOf
  <2>6. \A f \in File : Closing(f)' = Closing(f)
    BY <1>1 DEF Closing
  <2>7. \A j \in Slot : Releasing(j)' = Releasing(j) /\ \A b \in BOOLEAN : Ending(j, b)' = Ending(j, b)
    BY <1>1 DEF Releasing, Ending
  <2> QED BY <2>2, <2>3, <2>4, <2>5, <2>6, <2>7
<1>5. Idle'
  <2>1. call'[c] = User /\ User # Dead /\ \A q \in Task \ {c} : call'[q] = call[q] /\ fds'[q] = fds[q]
    BY <1>0, <1>1 DEF User, Dead
  <2> QED BY <1>1, <2>1 DEF Refs, Idle
<1>6. Files'
  <2>1. \A f \in File : file'[f].ref = 0 => file'[f] = NoFile
    <3> TAKE f \in File
    <3>1. file[f].ref \in Nat
      BY <1>0
    <3>2. f \in fds[p] => file'[f].ref # 0
      BY <1>2, <3>1
    <3> QED BY <1>1, <3>2 DEF Refs, Files
  <2>2. \A q \in Task : \A f \in fds'[q] : f \in File /\ file[f].pipe \in Slot
    <3>1. \A q \in Task : fds'[q] \in {fds[q], fds[p]}
      BY <1>0, <1>1
    <3>2. \A q \in Task : \A f \in fds[q] : f \in File /\ file[f].pipe \in Slot
      BY <1>0 DEF Refs, Files
    <3> QED BY <3>1, <3>2
  <2> QED BY <1>2, <2>1, <2>2 DEF Files
<1>7. Fresh'
  <2>1. \A f \in File \cup {None} : New(f) => NewThen(f)
    <3> TAKE f \in File \cup {None}
    <3>1. CASE f = None
      BY <3>1 DEF NewThen
    <3>2. CASE f \in File
      <4>1. New(f) => file[f].pipe = None
        BY <1>0, <3>2 DEF New, NoFile
      <4>2. New(f) => f \notin fds[p]
        BY <1>0, <4>1 DEF Refs, Files
      <4> QED BY <1>1, <3>2, <4>2 DEF New, NewThen
    <3> QED BY <3>1, <3>2
  <2>2. \A q \in Task : Busy(call'[q]) => call'[q] = call[q]
    BY <1>0, <1>1 DEF Busy, User
  <2>3. ASSUME NEW q \in Task
        PROVE  /\ call[q].at \in {"wfile", "install"} => NewThen(call[q].rf)
               /\ call[q].at = "install" => NewThen(call[q].wf)
    <3>1. call[q] \in Calls
      BY <1>0
    <3>2. call[q].at \in {"wfile", "install"} => New(call[q].rf) /\ call[q].rf \in File \cup {None}
      BY <3>1, Shapes DEF Refs, Fresh
    <3>3. call[q].at = "install" => New(call[q].wf) /\ call[q].wf \in File \cup {None}
      BY <3>1, Shapes DEF Refs, Fresh
    <3> QED BY <2>1, <3>2, <3>3
  <2> QED BY <2>2, <2>3 DEF Refs, Fresh, New, NewThen, Busy
<1>8. RefsExact'
  <2>1. ASSUME NEW f \in File
        PROVE  file'[f].ref = Cardinality(Having(f)') + Cardinality(Reading(f)')
                              + Cardinality(Writing(f)') + Cardinality(Closing(f)')
    <3>1. file[f].ref = Cardinality(Having(f)) + Cardinality(Reading(f))
                        + Cardinality(Writing(f)) + Cardinality(Closing(f))
      BY DEF Refs, RefsExact
    <3>2. Reading(f)' = Reading(f) /\ Writing(f)' = Writing(f) /\ Closing(f)' = Closing(f)
      BY <1>4
    <3>3. CASE f \in fds[p]
      <4>1. Having(f) \in SUBSET Task /\ c \notin Having(f)
        BY <1>1 DEF Having
      <4>2. PICK H \in SUBSET Task : H = Having(f)
        BY <4>1
      <4>3. Cardinality(H \cup {c}) = Cardinality(H) + 1 /\ Cardinality(H) \in Nat
        BY <4>1, <4>2, Counting
      <4>4. Cardinality(Having(f)') = Cardinality(Having(f)) + 1 /\ Cardinality(Having(f)) \in Nat
        BY <1>3, <3>3, <4>2, <4>3
      <4>5. /\ Cardinality(Reading(f)) \in Nat /\ Cardinality(Writing(f)) \in Nat
            /\ Cardinality(Closing(f)) \in Nat
        <5>1. Reading(f) \in SUBSET Task /\ Writing(f) \in SUBSET Task /\ Closing(f) \in SUBSET Task
          BY DEF Reading, Writing, Closing
        <5> QED BY <5>1, Counting
      <4> QED BY <1>2, <3>1, <3>2, <3>3, <4>4, <4>5
    <3>4. CASE f \notin fds[p]
      BY <1>2, <1>3, <3>1, <3>2, <3>4
    <3> QED BY <3>3, <3>4
  <2> QED BY <2>1 DEF RefsExact
<1>9. ASSUME NEW j \in Slot
      PROVE  BeingMade(j)' /\ BeingFreed(j)' /\ \A b \in BOOLEAN : EndOwned(j, b)'
  <2>1. BeingMade(j) /\ BeingFreed(j) /\ \A b \in BOOLEAN : EndOwned(j, b)
    BY DEF Refs, Pool
  <2>2. /\ Making(j)' = Making(j) /\ FilesOf(j)' = FilesOf(j) /\ Releasing(j)' = Releasing(j)
        /\ \A b \in BOOLEAN : Ending(j, b)' = Ending(j, b)
        /\ pipe' = pipe /\ \A f \in FilesOf(j) : file'[f].wr = file[f].wr
    BY <1>1, <1>2, <1>4 DEF FilesOf
  <2>3. BeingMade(j)'
    BY <2>1, <2>2 DEF BeingMade
  <2>4. BeingFreed(j)'
    BY <2>1, <2>2 DEF BeingFreed
  <2>5. ASSUME NEW b \in BOOLEAN
        PROVE  EndOwned(j, b)'
    BY <2>1, <2>2 DEF EndOwned, Open
  <2> QED BY <2>3, <2>4, <2>5
<1>10. Queues'
  BY <1>1 DEF Queues, Todo
<1> QED BY <1>5, <1>6, <1>7, <1>8, <1>9, <1>10 DEF Refs, Pool
-----------------------------------------------------------------------------
(* The calls of read and write.                                            *)

(* A write that is not done; a call that goes on; a call that begins.      *)
Sound(c) == c.at \in {"write", "wsleep"} => c.total < c.n /\ c.w < Chunk(c)
GoesOn(c, d) ==
  /\ InPipe(c) /\ InPipe(d) /\ d.pi = c.pi
  /\ d.at \in {"read", "rsleep"} <=> c.at \in {"read", "rsleep"}
Begun(q) ==
  \E f \in fds[q] :
    /\ file[f].pipe = call'[q].pi
    /\ \/ ~file[f].wr /\ call'[q].at = "read"
       \/ file[f].wr /\ call'[q].at = "write"

(* A call that is woken goes on, with the bytes it has.                    *)
LEMMA WakeGoesOn ==
  ASSUME NEW c \in [Task -> Calls], NEW i \in Slot, NEW q \in Task,
         NEW d \in {WakeReaders(c, i), WakeWriters(c, i)}
  PROVE  /\ InPipe(d[q]) => GoesOn(c[q], d[q])
         /\ Sound(c[q]) => Sound(d[q])
<1>1. InPipe(d[q]) => GoesOn(c[q], d[q])
  <2>1. /\ ~InPipe(c[q]) => d[q] = c[q]
        /\ InPipe(c[q]) =>
              /\ d[q].pi = c[q].pi /\ InPipe(d[q])
              /\ d[q].at \in {"read", "rsleep"} <=> c[q].at \in {"read", "rsleep"}
    BY WakeFrame
  <2>2. InPipe(c[q]) => GoesOn(c[q], c[q])
    BY DEF GoesOn
  <2> QED BY <2>1, <2>2 DEF GoesOn
<1>2. \/ d[q] = c[q]
      \/ c[q].at = "rsleep" /\ d[q] = [c[q] EXCEPT !.at = "read"]
      \/ c[q].at = "wsleep" /\ d[q] = [c[q] EXCEPT !.at = "write"]
  BY WakeTypes
<1>3. CASE c[q].at = "rsleep" /\ d[q] = [c[q] EXCEPT !.at = "read"]
  <2>1. d[q].at = "read"
    BY <1>3, Shapes, ReadMoves
  <2> QED BY <1>1, <2>1 DEF Sound
<1>4. CASE c[q].at = "wsleep" /\ d[q] = [c[q] EXCEPT !.at = "write"]
  <2>1. 0 \in 0 .. Cap /\ 0 \in 0 .. MaxLen
    BY PipeAssumption
  <2>2. c[q] \in Writes
    BY <1>4, Shapes
  <2>3. d[q].total = c[q].total /\ d[q].n = c[q].n /\ d[q].w = c[q].w /\ d[q].at = "write"
    BY Zenon, <1>4, <2>2 DEF Writes
  <2> QED BY <1>1, <1>4, <2>3 DEF Sound, Chunk
<1> QED BY <1>1, <1>2, <1>3, <1>4

(* Whoever is in a read or in a write after a step was in it before and    *)
(* kept its descriptors, or has just begun; no write is left with nothing  *)
(* to do.                                                                  *)
LEMMA CallMoves ==
  ASSUME TypeOK, Unfinished, Next, NEW q \in Task
  PROVE  /\ InPipe(call'[q]) => fds'[q] = fds[q] /\ (GoesOn(call[q], call'[q]) \/ Begun(q))
         /\ Sound(call'[q])
<1> DEFINE Goal == /\ InPipe(call'[q]) => /\ fds'[q] = fds[q]
                                          /\ GoesOn(call[q], call'[q]) \/ Begun(q)
                   /\ Sound(call'[q])
<1>0. /\ call \in [Task -> Calls] /\ fds \in [Task -> SUBSET File] /\ Sound(call[q])
      /\ file \in [File -> [ref : Nat, pipe : Slot \cup {None}, wr : BOOLEAN]]
  BY DEF TypeOK, Unfinished, Sound
<1>1. ASSUME NEW p \in Task,
             q # p => call'[q] = call[q] /\ fds'[q] = fds[q],
             ~InPipe(call'[p]) \/ (call'[p] = call[p] /\ fds'[p] = fds[p])
      PROVE  Goal
  <2>1. InPipe(call[q]) => GoesOn(call[q], call[q])
    BY DEF GoesOn
  <2>2. ~InPipe(call'[q]) => Sound(call'[q])
    BY DEF InPipe, Sound
  <2> QED BY <1>0, <1>1, <2>1, <2>2
<1>2. ASSUME NEW p \in Task, NEW i \in Slot,
             NEW woken \in {WakeReaders(call, i), WakeWriters(call, i)},
             q # p => call'[q] = woken[q],
             fds' = fds,
             q = p => Goal
      PROVE  Goal
  <2>1. CASE q = p
    BY <1>2, <2>1
  <2>2. CASE q # p
    <3>1. InPipe(woken[q]) => GoesOn(call[q], woken[q])
      BY <1>0, WakeGoesOn, Zenon
    <3>2. Sound(woken[q])
      BY <1>0, WakeGoesOn, Zenon
    <3> QED BY <1>2, <2>2, <3>1, <3>2
  <2> QED BY <2>1, <2>2
<1>a. ~InPipe(User) /\ ~InPipe(Dead)
  BY DEF InPipe, User, Dead
<1>3. ASSUME NEW p \in Task,
             \/ PoolAlloc(p) \/ ReadFile(p) \/ WriteFile(p) \/ Install(p) \/ GiveUp(p)
             \/ WriteBroken(p) \/ DropRef(p) \/ PoolFree(p) \/ Die(p)
      PROVE  Goal
  <2>1. q # p => call'[q] = call[q] /\ fds'[q] = fds[q]
    <3> SUFFICES ASSUME q # p
                 PROVE  call'[q] = call[q] /\ fds'[q] = fds[q]
      OBVIOUS
    <3>1. CASE PoolAlloc(p) \/ ReadFile(p) \/ WriteFile(p)
      BY <1>0, <3>1 DEF PoolAlloc, ReadFile, WriteFile
    <3>2. CASE Install(p) \/ GiveUp(p)
      BY <1>0, <3>2 DEF Install, GiveUp
    <3>3. CASE WriteBroken(p) \/ Die(p)
      BY <1>0, <3>3 DEF WriteBroken, Die
    <3>4. CASE DropRef(p) \/ PoolFree(p)
      <4>1. call' = call /\ fds' = fds
        BY Zenon, <3>4 DEF DropRef, PoolFree
      <4> QED BY <4>1
    <3> QED BY <1>3, <3>1, <3>2, <3>3, <3>4
  <2>2. ~InPipe(call'[p]) \/ (call'[p] = call[p] /\ fds'[p] = fds[p])
    <3>1. CASE PoolAlloc(p)
      <4>1. PICK i : call' = [call EXCEPT ![p] = [at |-> "rfile", pi |-> i]]
        BY <3>1 DEF PoolAlloc
      <4>2. call'[p] = [at |-> "rfile", pi |-> i]
        BY <1>0, <4>1
      <4> QED BY <4>2 DEF InPipe
    <3>2. CASE ReadFile(p)
      <4>1. PICK f, i : call' = [call EXCEPT ![p] = [at |-> "wfile", pi |-> i, rf |-> f]]
        BY <3>2 DEF ReadFile
      <4>2. call'[p] = [at |-> "wfile", pi |-> i, rf |-> f]
        BY <1>0, <4>1
      <4> QED BY <4>2 DEF InPipe
    <3>3. CASE WriteFile(p)
      <4>1. PICK f, g, i : call' = [call EXCEPT ![p] =
                                      [at |-> "install", pi |-> i, rf |-> g, wf |-> f]]
        BY <3>3 DEF WriteFile
      <4>2. call'[p] = [at |-> "install", pi |-> i, rf |-> g, wf |-> f]
        BY <1>0, <4>1
      <4> QED BY <4>2 DEF InPipe
    <3>4. CASE Install(p) \/ GiveUp(p) \/ WriteBroken(p)
      <4>1. call' = [call EXCEPT ![p] = User]
        BY Zenon, <3>4 DEF Install, GiveUp, WriteBroken
      <4> QED BY <1>0, <1>a, <4>1
    <3>5. CASE DropRef(p) \/ PoolFree(p)
      BY <3>5 DEF DropRef, PoolFree
    <3>6. CASE Die(p)
      BY <1>0, <1>a, <3>6 DEF Die
    <3> QED BY <1>3, <3>1, <3>2, <3>3, <3>4, <3>5, <3>6
  <2> QED BY <1>1, <2>1, <2>2
<1>4. ASSUME NEW p \in Task, NEW f \in fds[p], Close(p, f)
      PROVE  Goal
  <2>1. call'[p] = User /\ call' = call /\ (q # p => fds'[q] = fds[q])
    BY <1>0, <1>4 DEF Close, InUser
  <2> QED BY <1>1, <1>a, <2>1
<1>5. ASSUME NEW p \in Task, NEW c \in Task, Fork(p, c)
      PROVE  Goal
  <2>1. call'[c] = User /\ (q # c => call'[q] = call[q] /\ fds'[q] = fds[q])
    BY <1>0, <1>5 DEF Fork
  <2> QED BY <1>1, <1>a, <2>1
<1>6. ASSUME NEW p \in Task, ReadSleeps(p) \/ TimerWakes(p)
      PROVE  Goal
  <2>1. PICK a : /\ call' = [call EXCEPT ![p].at = a] /\ fds' = fds
                 /\ \/ call[p].at \in {"read", "rsleep"} /\ a \in {"read", "rsleep"}
                    \/ call[p].at = "wsleep" /\ a = "write"
    <3>1. CASE ReadSleeps(p)
      BY <3>1 DEF ReadSleeps
    <3>2. CASE TimerWakes(p)
      <4>1. CASE call[p].at = "rsleep"
        BY <3>2, <4>1 DEF TimerWakes
      <4>2. CASE call[p].at = "wsleep"
        BY <3>2, <4>2 DEF TimerWakes
      <4> QED BY <3>2, <4>1, <4>2 DEF TimerWakes
    <3> QED BY <1>6, <3>1, <3>2
  <2>2. CASE q # p
    <3>1. call'[q] = call[q]
      BY <1>0, <2>1, <2>2
    <3>2. InPipe(call[q]) => GoesOn(call[q], call[q])
      BY DEF GoesOn
    <3> QED BY <1>0, <2>1, <3>1, <3>2
  <2>3. CASE q = p
    <3>1. call'[q] = [call[q] EXCEPT !.at = a]
      BY <1>0, <2>1, <2>3
    <3>2. CASE call[q].at \in {"read", "rsleep"} /\ a \in {"read", "rsleep"}
      <4>1. call'[q].at = a /\ call'[q].pi = call[q].pi
        BY <1>0, <3>1, <3>2, Shapes, ReadMoves
      <4> QED BY <2>1, <3>2, <4>1 DEF GoesOn, InPipe, Sound
    <3>3. CASE call[q].at = "wsleep" /\ a = "write"
      <4>1. 0 \in 0 .. Cap /\ 0 \in 0 .. MaxLen /\ call[q] \in Writes
        BY <1>0, <3>3, Shapes, PipeAssumption
      <4>2. /\ call'[q].at = a /\ call'[q].pi = call[q].pi /\ call'[q].n = call[q].n
            /\ call'[q].total = call[q].total /\ call'[q].w = call[q].w
        BY Zenon, <3>1, <3>3, <4>1 DEF Writes
      <4> QED BY <1>0, <2>1, <3>3, <4>2 DEF GoesOn, InPipe, Sound, Chunk
    <3> QED BY <2>1, <2>3, <3>2, <3>3
  <2> QED BY <2>2, <2>3
<1>7. ASSUME NEW p \in Task, ReadReturns(p)
      PROVE  Goal
  <2>1. PICK i : /\ i = call[p].pi /\ call' = [WakeWriters(call, i) EXCEPT ![p] = User]
                 /\ fds' = fds /\ call[p].at = "read"
    BY <1>7 DEF ReadReturns
  <2>2. i \in Slot
    BY <1>0, <2>1, Shapes
  <2>3. PICK woken \in {WakeReaders(call, i), WakeWriters(call, i)} :
          woken = WakeWriters(call, i)
    OBVIOUS
  <2>4. woken \in [Task -> Calls]
    BY <1>0, <2>2, <2>3, WakeTypes
  <2>5. call'[p] = User /\ (q # p => call'[q] = woken[q])
    BY <2>1, <2>3, <2>4
  <2>6. q = p => Goal
    BY <1>a, <2>5 DEF Sound, InPipe
  <2> QED BY <1>2, <2>1, <2>2, <2>5, <2>6
<1>8. ASSUME NEW p \in Task, End(p)
      PROVE  Goal
  <2>1. jobs[p] # <<>> /\ jobs[p] \in Seq(Jobs) /\ Head(jobs[p]).do = "end" /\ fds' = fds
    BY <1>8 DEF End, Ends, TypeOK
  <2>2. PICK i : i = Head(jobs[p]).pi
    OBVIOUS
  <2>3. i \in Slot
    BY <2>1, <2>2, NextJob
  <2>4. call' = WakeReaders(call, i) \/ call' = WakeWriters(call, i)
    BY <1>8, <2>2 DEF End, Ends
  <2>5. PICK woken \in {WakeReaders(call, i), WakeWriters(call, i)} : call' = woken
    BY <2>4
  <2>6. InPipe(woken[q]) => GoesOn(call[q], woken[q])
    BY <1>0, <2>3, WakeGoesOn, Zenon
  <2>7. Sound(woken[q])
    BY <1>0, <2>3, WakeGoesOn, Zenon
  <2> QED BY <2>1, <2>5, <2>6, <2>7
<1>9. ASSUME NEW p \in Task, NEW f \in fds[p], NEW n \in 1 .. MaxLen,
             StartRead(p, f, n) \/ StartWrite(p, f, n)
      PROVE  Goal
  <2>1. /\ fds' = fds /\ (q # p => call'[q] = call[q])
        /\ \/ call'[p] = [at |-> "read", pi |-> file[f].pipe, n |-> n] /\ ~file[f].wr
           \/ /\ call'[p] = [at |-> "write", pi |-> file[f].pipe, n |-> n, total |-> 0, w |-> 0]
              /\ file[f].wr
    BY <1>0, <1>9 DEF StartRead, StartWrite
  <2>2. CASE q # p
    <3>2. InPipe(call[q]) => GoesOn(call[q], call[q])
      BY DEF GoesOn
    <3> QED BY <1>0, <2>1, <2>2, <3>2
  <2>3. CASE q = p
    <3>1. Begun(q)
      BY <2>1, <2>3 DEF Begun
    <3>2. Sound(call'[q])
      <4>1. n \in Nat \ {0} /\ Cap \in Nat \ {0}
        BY Constants
      <4>2. CASE call'[p].at = "read"
        BY <2>3, <4>2 DEF Sound
      <4>3. CASE call'[p] = [at |-> "write", pi |-> file[f].pipe, n |-> n, total |-> 0, w |-> 0]
        BY <2>3, <4>1, <4>3 DEF Sound, Chunk, Smaller
      <4> QED BY <2>1, <4>2, <4>3
    <3> QED BY <2>1, <3>1, <3>2
  <2> QED BY <2>2, <2>3
<1>10. ASSUME NEW p \in Task, WritePuts(p)
       PROVE  Goal
  <2> DEFINE c == call[p]
  <2>1. /\ c \in Writes /\ c.pi \in Slot /\ c.n \in Nat /\ c.total \in Nat /\ c.w \in Nat
        /\ c.at = "write" /\ fds' = fds /\ c.total < c.n /\ c.w < Chunk(c)
        /\ c.n <= MaxLen
    BY <1>0, <1>10, Shapes, Constants DEF WritePuts, Writes, Unfinished
  <2>2. PICK i \in Slot : i = c.pi
    BY <2>1
  <2>3. PICK k : k = Smaller(Chunk(c) - c.w, Room(i))
    OBVIOUS
  <2>4. PICK woken \in {WakeReaders(call, i), WakeWriters(call, i)} :
          woken = WakeReaders(call, i)
    OBVIOUS
  <2>5. woken \in [Task -> Calls] /\ woken[p] = c
    <3>1. call \in [Task -> Calls] /\ c.at = "write"
      BY <1>0, <2>1
    <3>2. WakeReaders(call, i) \in [Task -> Calls]
      BY <3>1, WakeTypes
    <3>3. WakeReaders(call, i)[p] = c
      BY <3>1 DEF WakeReaders, WakeAt
    <3> QED BY <2>4, <3>2, <3>3
  <2>6. \/ /\ c.w + k < Chunk(c)
           /\ call' = [woken EXCEPT ![p].at = "wsleep", ![p].w = @ + k]
        \/ /\ c.w + k = Chunk(c) /\ c.total + Chunk(c) < c.n
           /\ call' = [woken EXCEPT ![p].total = @ + Chunk(c), ![p].w = 0]
        \/ call' = [woken EXCEPT ![p] = User]
    <3> DEFINE kk == Smaller(Chunk(c) - c.w, Room(c.pi))
               ww == WakeReaders(call, c.pi)
    <3>1. \/ /\ c.w + kk < Chunk(c)
             /\ call' = [ww EXCEPT ![p].at = "wsleep", ![p].w = @ + kk]
          \/ /\ c.w + kk = Chunk(c) /\ c.total + Chunk(c) < c.n
             /\ call' = [ww EXCEPT ![p].total = @ + Chunk(c), ![p].w = 0]
          \/ call' = [ww EXCEPT ![p] = User]
      <4>1. /\ \/ /\ c.w + kk < Chunk(c)
                  /\ call' = [ww EXCEPT ![p].at = "wsleep", ![p].w = @ + kk]
               \/ /\ c.w + kk = Chunk(c) /\ c.total + Chunk(c) < c.n
                  /\ call' = [ww EXCEPT ![p].total = @ + Chunk(c), ![p].w = 0]
               \/ /\ c.w + kk = Chunk(c) /\ c.total + Chunk(c) = c.n
                  /\ call' = [ww EXCEPT ![p] = User]
        BY <1>10 DEF WritePuts
      <4> QED BY <4>1, Zenon
    <3>2. kk = k /\ ww = woken
      BY <2>2, <2>3, <2>4
    <3> HIDE DEF kk, ww
    <3> QED BY <3>1, <3>2
  <2>7. Chunk(c) \in Nat /\ Chunk(c) <= Cap /\ k \in Nat
    <3>1. Chunk(c) \in Nat /\ Chunk(c) <= Cap
      BY <2>1, Constants DEF Chunk, Smaller
    <3>2. Room(i) \in Nat
      BY Sizes, Constants
    <3> QED BY <2>1, <2>3, <3>1, <3>2 DEF Smaller
  <2> HIDE DEF c
  <2>8. /\ q # p => call'[q] = woken[q]
        /\ \/ c.w + k < Chunk(c) /\ call'[p] = [c EXCEPT !.at = "wsleep", !.w = c.w + k]
           \/ /\ c.total + Chunk(c) < c.n
              /\ call'[p] = [c EXCEPT !.total = c.total + Chunk(c), !.w = 0]
           \/ call'[p] = User
    BY <2>5, <2>6
  <2>9. CASE c.w + k < Chunk(c) /\ call'[p] = [c EXCEPT !.at = "wsleep", !.w = c.w + k]
    <3>1. c.w + k \in 0 .. Cap /\ 0 \in 0 .. MaxLen
      BY <2>1, <2>7, <2>9, Constants
    <3>2. /\ call'[p].at = "wsleep" /\ call'[p].pi = c.pi /\ call'[p].n = c.n
          /\ call'[p].total = c.total /\ call'[p].w = c.w + k
      BY Zenon, <2>1, <2>9 DEF Writes
    <3>3. GoesOn(c, call'[p]) /\ Sound(call'[p])
      BY <2>1, <2>9, <3>2 DEF GoesOn, InPipe, Sound, Chunk
    <3>4. q = p => Goal
      BY <2>1, <3>3 DEF c
    <3> QED BY <1>2, <2>1, <2>8, <3>4
  <2>10. CASE /\ c.total + Chunk(c) < c.n
              /\ call'[p] = [c EXCEPT !.total = c.total + Chunk(c), !.w = 0]
    <3>1. c.total + Chunk(c) \in 0 .. MaxLen /\ 0 \in 0 .. Cap
      BY <2>1, <2>7, <2>10, Constants
    <3>2. /\ call'[p].at = "write" /\ call'[p].pi = c.pi /\ call'[p].n = c.n
          /\ call'[p].total = c.total + Chunk(c) /\ call'[p].w = 0
      BY Zenon, <2>1, <2>10 DEF Writes
    <3>3. GoesOn(c, call'[p])
      BY <2>1, <3>2 DEF GoesOn, InPipe
    <3>4. Sound(call'[p])
      BY <2>1, <2>7, <2>10, <3>2, Constants DEF Sound, Chunk, Smaller
    <3>5. q = p => Goal
      BY <2>1, <3>3, <3>4 DEF c
    <3> QED BY <1>2, <2>1, <2>8, <3>5
  <2>11. CASE call'[p] = User
    <3>1. q = p => Goal
      BY <1>a, <2>11 DEF Sound, InPipe
    <3> QED BY <1>2, <2>1, <2>8, <3>1
  <2> QED BY <2>8, <2>9, <2>10, <2>11
<1> QED BY Zenon, <1>3, <1>4, <1>5, <1>6, <1>7, <1>8, <1>9, <1>10 DEF Next
(* A file that is in a table of descriptors stays the end it is.           *)
LEMMA EndsKept ==
  ASSUME TypeOK, Refs, Next, NEW q \in Task, NEW f \in fds[q]
  PROVE  f \in File /\ file'[f].pipe = file[f].pipe /\ file'[f].wr = file[f].wr
<1> DEFINE FileSet == [ref : Nat, pipe : Slot \cup {None}, wr : BOOLEAN]
           Goal == file'[f].pipe = file[f].pipe /\ file'[f].wr = file[f].wr
<1>0. /\ call \in [Task -> Calls] /\ fds \in [Task -> SUBSET File] /\ file \in [File -> FileSet]
      /\ jobs \in [Task -> Seq(Jobs)] /\ None \notin File /\ None \notin Slot
  BY Constants DEF TypeOK
<1>1. f \in File /\ file[f].pipe \in Slot /\ Having(f) # {} /\ file[f] \in FileSet
  BY <1>0 DEF Refs, Files, Having
<1>2. file[f].ref # 0 /\ (file[f].ref = 1 => Closing(f) = {})
  BY <1>1, Holders DEF Refs
<1>3. ASSUME NEW g \in FileAlloc, file' = Referenced(g)
      PROVE  Goal
  <2>1. g # f
    BY <1>2, FileAllocFree, <1>0, <1>1
  <2> QED BY <1>0, <1>1, <1>3, <2>1 DEF Referenced
<1>4. ASSUME NEW p \in Task, ReadFile(p) \/ WriteFile(p)
      PROVE  Goal
  <2>1. \E g \in FileAlloc : file' = Referenced(g)
    BY <1>4 DEF ReadFile, WriteFile
  <2> QED BY <1>3, <2>1
<1>5. ASSUME NEW p \in Task, Install(p)
      PROVE  Goal
  <2>1. PICK r, w, i : /\ r = call[p].rf /\ w = call[p].wf /\ i = call[p].pi
    OBVIOUS
  <2>2. /\ call[p].at = "install" /\ r # None /\ w # None
        /\ file' = [file EXCEPT ![r].pipe = i, ![w].pipe = i, ![w].wr = TRUE]
    BY <1>5, <2>1 DEF Install
  <2>3. New(r) /\ New(w)
    BY <2>1, <2>2 DEF Refs, Fresh
  <2>4. f # r /\ f # w
    BY <1>0, <1>1, <2>2, <2>3 DEF New, NoFile
  <2> QED BY <1>0, <1>1, <2>2, <2>4
<1>6. ASSUME NEW p \in Task, DropRef(p)
      PROVE  Goal
  <2>1. PICK g \in File : Head(jobs[p]) = CloseFile(g) /\ Head(jobs[p]).f = g
    BY <1>0, <1>6, NextJob DEF DropRef
  <2>2. file' = [file EXCEPT ![g] = IF file[g].ref = 1 THEN NoFile
                                    ELSE [file[g] EXCEPT !.ref = @ - 1]]
    BY <1>6, <2>1 DEF DropRef
  <2>3. CASE f # g
    BY <1>0, <1>1, <2>2, <2>3
  <2>4. CASE f = g
    <3>1. CloseFile(g) \in Range(jobs[p])
      <4>1. jobs[p] # <<>> /\ jobs[p] \in Seq(Jobs)
        BY <1>0, <1>6 DEF DropRef
      <4> QED BY <2>1, <4>1, NextJob
    <3>2. file[g].ref # 1
      BY <1>2, <2>4, <3>1 DEF Closing
    <3>3. file'[f] = [file[f] EXCEPT !.ref = @ - 1]
      BY <1>0, <1>1, <2>2, <2>4, <3>2
    <3>4. [file[f] EXCEPT !.ref = @ - 1].pipe = file[f].pipe
      BY <1>1
    <3>5. [file[f] EXCEPT !.ref = @ - 1].wr = file[f].wr
      BY <1>1
    <3> QED BY <3>3, <3>4, <3>5
  <2> QED BY <2>3, <2>4
<1>7. ASSUME NEW p \in Task, NEW c \in Task, Fork(p, c)
      PROVE  Goal
  <2>1. file'[f] = file[f] \/ file'[f] = [file[f] EXCEPT !.ref = @ + 1]
    BY <1>1, <1>7 DEF Fork
  <2>2. [file[f] EXCEPT !.ref = @ + 1].pipe = file[f].pipe
    BY <1>1
  <2>3. [file[f] EXCEPT !.ref = @ + 1].wr = file[f].wr
    BY <1>1
  <2> QED BY <2>1, <2>2, <2>3
<1>8. ASSUME NEW p \in Task,
             \/ PoolAlloc(p) \/ GiveUp(p) \/ ReadSleeps(p) \/ ReadReturns(p)
             \/ WritePuts(p) \/ WriteBroken(p) \/ TimerWakes(p)
             \/ End(p) \/ PoolFree(p) \/ Die(p)
      PROVE  Goal
  <2>1. file' = file
    BY <1>8, Zenon DEF PoolAlloc, GiveUp, ReadSleeps, ReadReturns, WritePuts, WriteBroken,
                       TimerWakes, End, Ends, PoolFree, Die
  <2> QED BY <2>1
<1>9. ASSUME NEW p \in Task, NEW g \in fds[p],
             Close(p, g) \/ \E n \in 1 .. MaxLen : StartRead(p, g, n) \/ StartWrite(p, g, n)
      PROVE  Goal
  <2>1. file' = file
    BY <1>9, Zenon DEF Close, StartRead, StartWrite
  <2> QED BY <2>1
<1>10. Goal
  BY Zenon, <1>4, <1>5, <1>6, <1>7, <1>8, <1>9 DEF Next
<1> QED BY <1>1, <1>10

(* Callers have descriptors for what they do.                              *)
LEMMA CallingStep ==
  ASSUME TypeOK, Unfinished, Refs, Calling, Next
  PROVE  Calling' /\ Unfinished'
<1>1. Unfinished'
  <2>1. \A q \in Task : Sound(call'[q])
    BY CallMoves
  <2> QED BY <2>1 DEF Unfinished, Sound
<1>2. ASSUME NEW q \in Task, InPipe(call'[q])
      PROVE  \E f \in fds'[q] :
               /\ file'[f].pipe = call'[q].pi
               /\ file'[f].wr <=> call'[q].at \in {"write", "wsleep"}
  <2>1. fds'[q] = fds[q] /\ (GoesOn(call[q], call'[q]) \/ Begun(q))
    BY <1>2, CallMoves
  <2>2. PICK f \in fds[q] : /\ file[f].pipe = call'[q].pi
                            /\ file[f].wr <=> call'[q].at \in {"write", "wsleep"}
    <3>1. CASE GoesOn(call[q], call'[q])
      <4>1. CASE call[q].at \in {"read", "rsleep"}
        <5>1. PICK f \in fds[q] : file[f].pipe = call[q].pi /\ ~file[f].wr
          BY <4>1 DEF Calling
        <5> QED BY <3>1, <4>1, <5>1 DEF GoesOn
      <4>2. CASE call[q].at \in {"write", "wsleep"}
        <5>1. PICK f \in fds[q] : file[f].pipe = call[q].pi /\ file[f].wr
          BY <4>2 DEF Calling
        <5> QED BY <3>1, <4>2, <5>1 DEF GoesOn, InPipe
      <4> QED BY <3>1, <4>1, <4>2 DEF GoesOn, InPipe
    <3>2. CASE Begun(q)
      BY <3>2 DEF Begun
    <3> QED BY <2>1, <3>1, <3>2
  <2>3. file'[f].pipe = file[f].pipe /\ file'[f].wr = file[f].wr
    BY EndsKept
  <2> QED BY <2>1, <2>2, <2>3
<1>3. Calling'
  <2>1. ASSUME NEW q \in Task, call'[q].at \in {"read", "rsleep"}
        PROVE  \E f \in fds'[q] : file'[f].pipe = call'[q].pi /\ ~file'[f].wr
    <3>1. InPipe(call'[q]) /\ call'[q].at \notin {"write", "wsleep"}
      BY <2>1 DEF InPipe
    <3> QED BY <1>2, <3>1
  <2>2. ASSUME NEW q \in Task, call'[q].at \in {"write", "wsleep"}
        PROVE  \E f \in fds'[q] : file'[f].pipe = call'[q].pi /\ file'[f].wr
    <3>1. InPipe(call'[q])
      BY <2>2 DEF InPipe
    <3> QED BY <1>2, <2>2, <3>1
  <2> QED BY <2>1, <2>2 DEF Calling
<1> QED BY <1>1, <1>3
-----------------------------------------------------------------------------
(* The invariant.                                                          *)

(* A close that is still to be done keeps its file.                        *)
LEMMA HeldThen ==
  ASSUME RefsExact
  PROVE  Held
BY Holders DEF Held

(* It holds when nothing is open.                                          *)
LEMMA InvInit ==
  ASSUME Init
  PROVE  Inv
<1>1. PICK zero \in Byte :
        pipe = [i \in Slot |->
                 [used |-> FALSE, nread |-> 0, nwrite |-> 0,
                  readopen |-> FALSE, writeopen |-> FALSE,
                  data |-> [j \in 0 .. Cap - 1 |-> zero]]]
  BY DEF Init
<1>2. /\ file = [f \in File |-> NoFile] /\ fds = [p \in Task |-> {}]
      /\ jobs = [p \in Task |-> <<>>] /\ got = [p \in Task |-> <<>>]
  BY DEF Init
<1>3. call \in [Task -> {User, Dead}]
  <2>1. \E first \in Task : call = [p \in Task |-> IF p = first THEN User ELSE Dead]
    BY DEF Init
  <2> QED BY <2>1
<1>4. \A p \in Task : call[p].at \in {"user", "dead"} /\ jobs[p] = <<>> /\ fds[p] = {}
  BY <1>2, <1>3 DEF User, Dead
<1>5. \A i \in Slot : pipe[i] \in Pipes /\ ~pipe[i].used
  <2>1. 0 \in 0 .. Width - 1
    BY Constants
  <2> QED BY <1>1, <2>1 DEF Pipes
<1>6. \A f \in File : file[f] = NoFile /\ NoFile.ref = 0 /\ NoFile.pipe = None
  BY <1>2 DEF NoFile
<1>7. TypeOK
  <2>1. pipe \in [Slot -> Pipes]
    BY <1>1, <1>5
  <2>2. file \in [File -> [ref : Nat, pipe : Slot \cup {None}, wr : BOOLEAN]]
    BY <1>2 DEF NoFile
  <2>3. call \in [Task -> Calls]
    BY <1>3 DEF Calls
  <2>4. /\ fds \in [Task -> SUBSET File] /\ jobs \in [Task -> Seq(Jobs)]
        /\ got \in [Task -> Seq(Byte)]
    <3>1. <<>> \in Seq(Jobs) /\ <<>> \in Seq(Byte)
      OBVIOUS
    <3> QED BY <1>2, <3>1
  <2> QED BY <2>1, <2>2, <2>3, <2>4 DEF TypeOK
<1>8. Range(<<>>) = {} /\ Distinct(<<>>)
  BY RangeShort
<1>9. Types
  <2>1. Unfinished
    BY <1>4 DEF Unfinished
  <2>2. \A p \in Task : Distinct(jobs[p]) /\ Todo(p) = {}
    BY <1>4, <1>8 DEF Todo
  <2> QED BY <1>7, <2>1, <2>2 DEF Types
<1>10. Idle /\ Files /\ Fresh /\ Calling
  BY <1>4, <1>6 DEF Idle, Files, Fresh, Calling
<1>11. /\ \A f \in File : Having(f) = {} /\ Reading(f) = {} /\ Writing(f) = {} /\ Closing(f) = {}
       /\ \A i \in Slot : /\ Making(i) = {} /\ Releasing(i) = {}
                          /\ \A wr \in BOOLEAN : Ending(i, wr) = {}
  BY <1>4, <1>8 DEF Having, Reading, Writing, Closing, Making, Releasing, Ending
<1>12. RefsExact
  <2>1. Cardinality({}) = 0
    BY FS_EmptySet
  <2> QED BY <1>6, <1>11, <2>1 DEF RefsExact
<1>13. Pool
  <2>1. \A i \in Slot : FilesOf(i) = {}
    BY <1>6, Constants DEF FilesOf
  <2> QED BY <1>5, <1>11, <2>1 DEF Pool, BeingMade, EndOwned, BeingFreed
<1> QED BY <1>9, <1>10, <1>12, <1>13 DEF Inv

(* Every step keeps it.                                                    *)
LEMMA InvStep ==
  ASSUME Inv, [Next]_vars
  PROVE  Inv'
<1>1. TypeOK /\ Unfinished /\ Refs /\ Queues /\ Calling /\ Idle /\ Files /\ RefsExact
  BY DEF Inv, Types, Refs, Queues
<1>2. CASE UNCHANGED vars
  <2>1. UNCHANGED <<pipe, file, fds, call, jobs, got>>
    BY <1>2 DEF vars
  <2>2. SameCalls /\ SamePipes
    BY <2>1 DEF SameCalls, SamePipes
  <2>3. Refs' /\ Queues'
    BY <1>1, <2>1, <2>2, RefsKept
  <2>4. TypeOK' /\ Unfinished' /\ Calling'
    BY <1>1, <2>1 DEF TypeOK, Unfinished, Calling
  <2> QED BY <2>3, <2>4 DEF Inv, Types, Refs, Queues
<1>3. CASE Next
  <2>1. TypeOK'
    BY <1>1, <1>3, HeldThen, TypeStep
  <2>2. Calling' /\ Unfinished'
    BY <1>1, <1>3, CallingStep
  <2>3. ASSUME NEW p \in Task, Reader(p) \/ Start(p)
        PROVE  Refs' /\ Queues'
    BY <1>1, <2>3, IOFrame, RefsKept
  <2>4. ASSUME NEW p \in Task, ReadFile(p) \/ WriteFile(p)
        PROVE  Refs' /\ Queues'
    <3>1. PICK f \in FileAlloc :
            /\ file' = Referenced(f) /\ UNCHANGED <<pipe, fds, jobs>>
            /\ \/ /\ call[p].at = "rfile"
                  /\ call' = [call EXCEPT ![p] = [at |-> "wfile", pi |-> @.pi, rf |-> f]]
               \/ /\ call[p].at = "wfile"
                  /\ call' = [call EXCEPT ![p] =
                                [at |-> "install", pi |-> @.pi, rf |-> @.rf, wf |-> f]]
      <4>1. CASE ReadFile(p)
        BY <4>1 DEF ReadFile
      <4>2. CASE WriteFile(p)
        BY <4>2 DEF WriteFile
      <4> QED BY <2>4, <4>1, <4>2
    <3>2. call \in [Task -> Calls]
      BY <1>1 DEF TypeOK
    <3>3. Got(p, f) /\ call'[p].pi = call[p].pi /\ \A q \in Task \ {p} : call'[q] = call[q]
      BY <3>1, <3>2 DEF Got
    <3> QED BY <1>1, <3>1, <3>3, FileAllocKeeps
  <2>5. ASSUME NEW p \in Task,
               \/ PoolAlloc(p) \/ Install(p) \/ GiveUp(p) \/ DropRef(p) \/ End(p)
               \/ PoolFree(p) \/ Die(p)
        PROVE  Refs' /\ Queues'
    <3>1. CASE PoolAlloc(p)
      BY <1>1, <3>1, PoolAllocKeeps
    <3>2. CASE Install(p)
      BY <1>1, <3>2, InstallKeeps
    <3>3. CASE GiveUp(p)
      BY <1>1, <3>3, GiveUpKeeps
    <3>4. CASE DropRef(p)
      BY <1>1, <3>4, DropRefKeeps
    <3>5. CASE End(p)
      BY <1>1, <3>5, EndKeeps
    <3>6. CASE PoolFree(p)
      BY <1>1, <3>6, PoolFreeKeeps
    <3>7. CASE Die(p)
      BY <1>1, <3>7, DieKeeps
    <3> QED BY <2>5, <3>1, <3>2, <3>3, <3>4, <3>5, <3>6, <3>7
  <2>6. ASSUME NEW p \in Task, NEW f \in fds[p], Close(p, f)
        PROVE  Refs' /\ Queues'
    BY <1>1, <2>6, CloseKeeps
  <2>7. ASSUME NEW p \in Task, NEW f \in fds[p], NEW n \in 1 .. MaxLen,
               StartRead(p, f, n) \/ StartWrite(p, f, n)
        PROVE  Refs' /\ Queues'
    <3>1. Start(p)
      BY <2>7 DEF Start
    <3> QED BY <2>3, <3>1
  <2>8. ASSUME NEW p \in Task, NEW c \in Task, Fork(p, c)
        PROVE  Refs' /\ Queues'
    BY <1>1, <2>8, ForkKeeps
  <2>9. ASSUME NEW p \in Task,
               ReadSleeps(p) \/ ReadReturns(p) \/ WritePuts(p) \/ WriteBroken(p) \/ TimerWakes(p)
        PROVE  Refs' /\ Queues'
    <3>1. Reader(p)
      BY <2>9 DEF Reader
    <3> QED BY <2>3, <3>1
  <2>10. Refs' /\ Queues'
    BY Zenon, <1>3, <2>4, <2>5, <2>6, <2>7, <2>8, <2>9 DEF Next
  <2> QED BY <2>1, <2>2, <2>10 DEF Inv, Types, Refs, Queues
<1> QED BY <1>2, <1>3

(* It holds all the time.                                                  *)
LEMMA InvAlways == Spec => []Inv
<1>1. Init => Inv
  BY InvInit
<1>2. Inv /\ [Next]_vars => Inv'
  BY InvStep
<1> QED BY <1>1, <1>2, PTL DEF Spec

-----------------------------------------------------------------------------
(* What follows.                                                           *)

(* The counters of a pipe stay within their width, and all indices within  *)
(* their tables.                                                           *)
THEOREM TypeCorrect == Spec => []TypeOK
<1>1. Inv => TypeOK
  BY DEF Inv, Types
<1> QED BY <1>1, InvAlways, PTL

(* The reference counts of the file table are exact, whatever pipe2, fork, *)
(* close and exit are interleaved with.                                    *)
THEOREM RefsExactCorrect == Spec => []RefsExact
<1>1. Inv => RefsExact
  BY DEF Inv
<1> QED BY <1>1, InvAlways, PTL

(* A slot of the pool is in use exactly as long as somebody answers for    *)
(* it, is released once, and not while a process reads or writes.          *)
LEMMA PoolThen ==
  ASSUME Inv
  PROVE  PoolExact
<1>1. ASSUME NEW i \in Slot
      PROVE  LET others == Making(i) \cup FilesOf(i) \cup Ending(i, TRUE) \cup Ending(i, FALSE)
             IN  /\ pipe[i].used <=> others # {} \/ Releasing(i) # {}
                 /\ Releasing(i) # {} => others = {} /\ Cardinality(Releasing(i)) = 1
  <2>1. BeingMade(i) /\ BeingFreed(i) /\ EndOwned(i, TRUE) /\ EndOwned(i, FALSE)
    BY DEF Inv, Pool
  <2>2. Releasing(i) # {} =>
          Making(i) = {} /\ FilesOf(i) = {} /\ Ending(i, TRUE) = {} /\ Ending(i, FALSE) = {}
    BY <2>1 DEF BeingMade, EndOwned
  <2>3. Releasing(i) # {} => Cardinality(Releasing(i)) = 1
    <3> SUFFICES ASSUME Releasing(i) # {}
                 PROVE  Cardinality(Releasing(i)) = 1
      OBVIOUS
    <3>1. PICK p : p \in Releasing(i)
      OBVIOUS
    <3>2. Releasing(i) = {p}
      BY <2>1, <3>1 DEF BeingFreed
    <3> QED BY <3>2, FS_Singleton
  <2>4. \/ Making(i) # {} \/ FilesOf(i) # {} \/ Ending(i, TRUE) # {} \/ Ending(i, FALSE) # {}
        \/ Releasing(i) # {}
        => pipe[i].used
    BY <2>1 DEF BeingMade, EndOwned, BeingFreed
  <2>5. pipe[i].used =>
          \/ Making(i) # {} \/ FilesOf(i) # {} \/ Ending(i, TRUE) # {} \/ Ending(i, FALSE) # {}
          \/ Releasing(i) # {}
    <3>1. CASE pipe[i].writeopen
      BY <2>1, <3>1 DEF EndOwned, Open
    <3>2. CASE pipe[i].readopen
      BY <2>1, <3>2 DEF EndOwned, Open
    <3>3. CASE ~pipe[i].readopen /\ ~pipe[i].writeopen
      BY <2>1, <3>3 DEF BeingFreed
    <3> QED BY <3>1, <3>2, <3>3
  <2> QED BY <2>2, <2>3, <2>4, <2>5
<1>2. \A p \in Task :
        call[p].at \in {"read", "rsleep", "write", "wsleep"} =>
          \E f \in fds[p] : file[f].pipe = call[p].pi
  BY DEF Inv, Calling
<1> QED BY <1>1, <1>2 DEF PoolExact

(* The pool of pipes neither loses a slot nor frees one that is in use.    *)
THEOREM PoolExactCorrect == Spec => []PoolExact
<1>1. Inv => PoolExact
  BY PoolThen
<1> QED BY <1>1, InvAlways, PTL
-----------------------------------------------------------------------------
(* The end of a file.                                                      *)

(* Numbers below twice and three times a width.                            *)
LEMMA Modulo ==
  ASSUME NEW W \in Nat \ {0}
  PROVE  /\ \A x \in 0 .. W - 1 : x % W = x
         /\ \A x \in W .. 2 * W - 1 : x % W = x - W
         /\ \A x \in 2 * W .. 3 * W - 1 : x % W = x - 2 * W
<1>1. \A x \in 0 .. W - 1 : x % W = x
  OBVIOUS
<1>2. \A x \in W .. 2 * W - 1 : x % W = x - W
  OBVIOUS
<1>3. \A x \in 2 * W .. 3 * W - 1 : x % W = x - 2 * W
  OBVIOUS
<1> QED BY <1>1, <1>2, <1>3

(* A pipe with no bytes is empty; one that is filled up has no room; what  *)
(* stores nothing changes nothing.                                         *)
LEMMA Counters ==
  ASSUME NEW r \in 0 .. Width - 1, NEW w \in 0 .. Width - 1
  PROVE  /\ (w + Width - r) % Width = 0 => r = w
         /\ LET k == (r + Cap + Width - w) % Width
            IN  (r + Cap + Width - Plus(w, k)) % Width = 0
         /\ Plus(w, 0) = w
<1>1. Width \in Nat \ {0} /\ Cap \in Nat \ {0} /\ Cap < Width
  BY Constants
<1>2. (w + Width - r) % Width = 0 => r = w
  <2>1. CASE w < r
    <3>1. w + Width - r \in 0 .. Width - 1 /\ w + Width - r # 0
      BY <1>1, <2>1
    <3>2. (w + Width - r) % Width = w + Width - r
      BY <1>1, <3>1, Modulo
    <3> QED BY <3>1, <3>2
  <2>2. CASE ~(w < r)
    <3>1. w + Width - r \in Width .. 2 * Width - 1
      BY <1>1, <2>2
    <3>2. (w + Width - r) % Width = w + Width - r - Width
      BY <1>1, <3>1, Modulo
    <3> QED BY <1>1, <3>1, <3>2
  <2> QED BY <2>1, <2>2
<1>3. Plus(w, 0) = w
  BY <1>1, Modulo DEF Plus
<1> DEFINE A == r + Cap + Width - w
           k == A % Width
<1>4. (r + Cap + Width - Plus(w, k)) % Width = 0
  <2>1. /\ A \in 0 .. 3 * Width - 1 /\ k \in 0 .. Width - 1
        /\ k = A \/ k = A - Width \/ k = A - 2 * Width
    <3>1. A \in 0 .. 3 * Width - 1
      BY <1>1
    <3>2. A \in 0 .. Width - 1 \/ A \in Width .. 2 * Width - 1 \/ A \in 2 * Width .. 3 * Width - 1
      BY <1>1, <3>1
    <3> HIDE DEF A
    <3>3. k = A \/ k = A - Width \/ k = A - 2 * Width
      BY <1>1, <3>2, Modulo
    <3> QED BY <1>1, <3>1, <3>3
  <2> HIDE DEF k
  <2>2. PICK y : y = Plus(w, k)
    OBVIOUS
  <2>3. y \in 0 .. Width - 1 /\ (y = w + k \/ y = w + k - Width)
    <3>1. w + k \in 0 .. Width - 1 \/ w + k \in Width .. 2 * Width - 1
      BY <1>1, <2>1
    <3>2. PICK x : x = w + k
      OBVIOUS
    <3>3. CASE x \in 0 .. Width - 1
      <4>1. x % Width = x
        BY <1>1, <3>3, Modulo
      <4> QED BY <2>2, <3>2, <3>3, <4>1 DEF Plus
    <3>4. CASE x \in Width .. 2 * Width - 1
      <4>1. x % Width = x - Width
        BY <1>1, <3>4, Modulo
      <4>2. x - Width \in 0 .. Width - 1
        BY <1>1, <3>4
      <4>3. y = x % Width
        BY <2>2, <3>2 DEF Plus
      <4> QED BY <1>1, <2>1, <3>2, <3>4, <4>1, <4>2, <4>3
    <3> QED BY <3>1, <3>2, <3>3, <3>4
  <2>4. PICK z : z = r + Cap + Width - y
    OBVIOUS
  <2>5. z = 0 \/ z = Width \/ z = 2 * Width
    BY <1>1, <2>1, <2>3, <2>4
  <2>6. z % Width = 0
    BY <1>1, <2>5, Modulo
  <2> QED BY <2>2, <2>4, <2>6
<1> QED BY <1>2, <1>3, <1>4

(* A read that returns nothing: the write end is closed.                   *)
LEMMA EofStep ==
  ASSUME Inv, Next, NEW p \in Task, call[p].at = "read", call'[p] = User, got'[p] = <<>>
  PROVE  \A f \in FilesOf(call[p].pi) : ~file[f].wr
<1>0. /\ call \in [Task -> Calls] /\ TypeOK /\ got \in [Task -> Seq(Byte)]
      /\ jobs \in [Task -> Seq(Jobs)]
  BY DEF Inv, Types, TypeOK
<1>1. call[p] \in Reads /\ call[p].pi \in Slot /\ call[p].n \in Nat \ {0}
  BY <1>0, Shapes, Constants DEF Reads
<1>2. call[p] # User /\ ~InPipe(User) /\ InPipe(call[p])
  BY DEF User, InPipe
<1>3. ASSUME NEW i \in Slot, NEW woken \in {WakeReaders(call, i), WakeWriters(call, i)}
      PROVE  woken[p] # User
  <2>1. PICK c \in [Task -> Calls] : c = call
    BY <1>0
  <2>2. woken \in {WakeReaders(c, i), WakeWriters(c, i)}
    BY <2>1
  <2>3. InPipe(c[p]) => InPipe(woken[p])
    BY <2>2, WakeFrame
  <2> QED BY <1>2, <2>1, <2>3
<1>4. ReadReturns(p)
  <2>1. ASSUME NEW q \in Task,
               \/ PoolAlloc(q) \/ ReadFile(q) \/ WriteFile(q) \/ Install(q) \/ GiveUp(q)
               \/ ReadSleeps(q) \/ WriteBroken(q) \/ TimerWakes(q)
               \/ DropRef(q) \/ PoolFree(q) \/ Die(q)
        PROVE  FALSE
    <3>1. ASSUME NEW x, call' = [call EXCEPT ![q] = x], q # p
          PROVE  FALSE
      BY <1>0, <1>2, <3>1
    <3>2. CASE PoolAlloc(q)
      BY <3>1, <3>2 DEF PoolAlloc, InUser, User
    <3>3. CASE ReadFile(q)
      BY <3>1, <3>3 DEF ReadFile
    <3>4. CASE WriteFile(q)
      BY <3>1, <3>4 DEF WriteFile
    <3>5. CASE Install(q) \/ GiveUp(q) \/ WriteBroken(q)
      <4>1. call' = [call EXCEPT ![q] = User] /\ call[q].at \in {"install", "write"}
        BY <3>5, Zenon DEF Install, GiveUp, WriteBroken
      <4> QED BY <3>1, <4>1
    <3>6. CASE ReadSleeps(q)
      <4>1. call' = [call EXCEPT ![q].at = "rsleep"]
        BY <3>6 DEF ReadSleeps
      <4>2. q = p => call'[p] = [call[p] EXCEPT !.at = "rsleep"]
        BY <1>0, <4>1
      <4>3. q = p => call'[p].at = "rsleep"
        BY <1>1, <4>2, ReadMoves
      <4>4. q # p => call'[p] = call[p]
        BY <1>0, <4>1
      <4> QED BY <1>2, <4>3, <4>4 DEF User
    <3>7. CASE TimerWakes(q)
      BY <1>0, <1>2, <3>7 DEF TimerWakes
    <3>8. CASE DropRef(q) \/ PoolFree(q)
      BY <1>2, <3>8, Zenon DEF DropRef, PoolFree
    <3>9. CASE Die(q)
      BY <3>1, <3>9 DEF Die, InUser, User
    <3> QED BY <2>1, <3>2, <3>3, <3>4, <3>5, <3>6, <3>7, <3>8, <3>9
  <2>2. ASSUME NEW q \in Task, NEW f \in fds[q],
               Close(q, f) \/ \E n \in 1 .. MaxLen : StartRead(q, f, n) \/ StartWrite(q, f, n)
        PROVE  FALSE
    <3>1. call[q] = User
      BY <2>2, Zenon DEF Close, StartRead, StartWrite, InUser
    <3>2. q # p
      BY <1>2, <3>1
    <3>3. call'[p] = call[p]
      BY <1>0, <2>2, <3>2 DEF Close, StartRead, StartWrite
    <3> QED BY <1>2, <3>3
  <2>3. ASSUME NEW q \in Task, NEW c \in Task, Fork(q, c)
        PROVE  FALSE
    <3>1. call[c] = Dead /\ call' = [call EXCEPT ![c] = User]
      BY <2>3 DEF Fork
    <3>2. c # p
      BY <3>1 DEF Dead
    <3> QED BY <1>0, <1>2, <3>1, <3>2
  <2>4. ASSUME NEW q \in Task, End(q)
        PROVE  FALSE
    <3>1. PICK i : i = Head(jobs[q]).pi
      OBVIOUS
    <3>2. i \in Slot
      <4>1. jobs[q] # <<>> /\ jobs[q] \in Seq(Jobs) /\ Head(jobs[q]).do = "end"
        BY <1>0, <2>4 DEF End, Ends
      <4> QED BY <3>1, <4>1, NextJob
    <3>3. call' = WakeReaders(call, i) \/ call' = WakeWriters(call, i)
      BY <2>4, <3>1 DEF End, Ends
    <3>4. PICK woken \in {WakeReaders(call, i), WakeWriters(call, i)} : call' = woken
      BY <3>3
    <3> QED BY <1>3, <3>2, <3>4
  <2>5. ASSUME NEW q \in Task, WritePuts(q) \/ (ReadReturns(q) /\ q # p)
        PROVE  FALSE
    <3>1. PICK i : i = call[q].pi
      OBVIOUS
    <3>2. i \in Slot /\ q # p
      BY <1>0, <2>5, <3>1, Shapes DEF WritePuts, ReadReturns
    <3>3. PICK woken \in {WakeReaders(call, i), WakeWriters(call, i)} :
            call'[p] = woken[p]
      <4>1. WakeReaders(call, i) \in [Task -> Calls] /\ WakeWriters(call, i) \in [Task -> Calls]
        <5>1. call \in [Task -> Calls]
          BY <1>0
        <5> QED BY <3>2, <5>1, WakeTypes
      <4>2. CASE WritePuts(q)
        <5> DEFINE c == call[q]
                  kk == Smaller(Chunk(c) - c.w, Room(c.pi))
                   ww == WakeReaders(call, c.pi)
        <5>1. \/ call' = [ww EXCEPT ![q].at = "wsleep", ![q].w = @ + kk]
              \/ call' = [ww EXCEPT ![q].total = @ + Chunk(c), ![q].w = 0]
              \/ call' = [ww EXCEPT ![q] = User]
          <6>1. /\ \/ /\ c.w + kk < Chunk(c)
                      /\ call' = [ww EXCEPT ![q].at = "wsleep", ![q].w = @ + kk]
                   \/ /\ c.w + kk = Chunk(c) /\ c.total + Chunk(c) < c.n
                      /\ call' = [ww EXCEPT ![q].total = @ + Chunk(c), ![q].w = 0]
                   \/ /\ c.w + kk = Chunk(c) /\ c.total + Chunk(c) = c.n
                      /\ call' = [ww EXCEPT ![q] = User]
            BY <4>2 DEF WritePuts
          <6> QED BY <6>1, Zenon
        <5>2. ww = WakeReaders(call, i)
          BY <3>1
        <5> HIDE DEF ww, kk, c
        <5>3. call'[p] = ww[p]
          BY <3>2, <4>1, <5>1, <5>2
        <5> QED BY <5>2, <5>3
      <4>3. CASE ReadReturns(q)
        <5>1. call' = [WakeWriters(call, i) EXCEPT ![q] = User]
          BY <3>1, <4>3 DEF ReadReturns
        <5> QED BY <3>2, <4>1, <5>1
      <4> QED BY <2>5, <4>2, <4>3
    <3> QED BY <1>3, <3>2, <3>3
  <2> QED BY Zenon, <2>1, <2>2, <2>3, <2>4, <2>5 DEF Next
<1>5. PICK i \in Slot, k \in {Smaller(call[p].n, Size(call[p].pi))} :
           /\ i = call[p].pi /\ k = Smaller(call[p].n, Size(i))
           /\ got' = [got EXCEPT ![p] = Bytes(i, k)]
           /\ ~(Empty(i) /\ pipe[i].writeopen)
  BY <1>1, <1>4 DEF ReadReturns
<1>6. k \in Nat /\ Size(i) \in Nat /\ (k = 0 => Size(i) = 0)
  BY <1>0, <1>1, <1>5, Sizes, Constants DEF Smaller
<1>7. k = 0
  <2>1. Len(Bytes(i, k)) = k /\ Bytes(i, k) = <<>>
    BY <1>0, <1>5, <1>6, BytesType
  <2> QED BY <2>1
<1>8. Empty(i)
  <2>1. pipe[i].nread \in 0 .. Width - 1 /\ pipe[i].nwrite \in 0 .. Width - 1
    BY <1>0, Sizes
  <2> QED BY <1>6, <1>7, <2>1, Counters DEF Size, Empty
<1>9. EndOwned(i, TRUE) /\ ~Open(i, TRUE)
  BY <1>5, <1>8 DEF Inv, Pool, Open
<1>10. \A f \in FilesOf(i) : file[f].wr # TRUE
  BY <1>9 DEF EndOwned
<1>11. \A f \in FilesOf(i) : file[f].wr \in BOOLEAN
  BY <1>0 DEF TypeOK, FilesOf
<1> QED BY <1>5, <1>10, <1>11

(* A read that returns nothing tells the truth: no process has the write   *)
(* end of the pipe any more.                                               *)
THEOREM EofHonestCorrect == Spec => EofHonest
<1>1. ASSUME Inv, [Next]_vars PROVE [HonestEof]_vars
  BY <1>1, EofStep DEF HonestEof
<1> QED BY <1>1, InvAlways, PTL DEF Spec, EofHonest
-----------------------------------------------------------------------------
(* The sleepers.                                                           *)

(* Why a call sleeps in pipe b.                                            *)
Asleep(c) == c.at \in {"rsleep", "wsleep"}
RoomOf(b) == (b.nread + Cap + Width - b.nwrite) % Width
Reason(b, c) ==
  /\ c.at = "rsleep" => b.nread = b.nwrite /\ b.writeopen
  /\ c.at = "wsleep" => RoomOf(b) = 0 /\ b.readopen

(* Whoever sleeps after a wakeup has slept before, at another place.       *)
LEMMA WakeSleeps ==
  ASSUME NEW c \in [Task -> Calls], NEW i \in Slot, NEW q \in Task
  PROVE  /\ Asleep(WakeReaders(c, i)[q]) =>
              /\ WakeReaders(c, i)[q] = c[q]
              /\ c[q].at = "rsleep" => c[q].pi # i
         /\ Asleep(WakeWriters(c, i)[q]) =>
              /\ WakeWriters(c, i)[q] = c[q]
              /\ c[q].at = "wsleep" => c[q].pi # i
<1>1. CASE c[q].at = "rsleep" /\ c[q].pi = i
  <2>1. /\ WakeReaders(c, i)[q] = [c[q] EXCEPT !.at = "read"]
        /\ WakeWriters(c, i)[q] = c[q]
    BY <1>1 DEF WakeReaders, WakeWriters, WakeAt
  <2>2. [c[q] EXCEPT !.at = "read"].at = "read"
    BY <1>1, Shapes, ReadMoves
  <2> QED BY <1>1, <2>1, <2>2 DEF Asleep
<1>2. CASE c[q].at = "wsleep" /\ c[q].pi = i
  <2>1. /\ WakeWriters(c, i)[q] = [c[q] EXCEPT !.at = "write"]
        /\ WakeReaders(c, i)[q] = c[q]
    BY <1>2 DEF WakeReaders, WakeWriters, WakeAt
  <2>2. [c[q] EXCEPT !.at = "write"].at = "write"
    <3>1. c[q] \in Writes
      BY <1>2, Shapes
    <3> QED BY <3>1 DEF Writes
  <2> QED BY <1>2, <2>1, <2>2 DEF Asleep
<1>3. CASE c[q].pi # i \/ ~Asleep(c[q])
  <2>1. WakeReaders(c, i)[q] = c[q] /\ WakeWriters(c, i)[q] = c[q]
    BY <1>3 DEF WakeReaders, WakeWriters, WakeAt, Asleep
  <2> QED BY <1>3, <2>1 DEF Asleep
<1> QED BY <1>1, <1>2, <1>3 DEF Asleep

(* The call of pipe_write after a critical section of it.                  *)
LEMMA WriterMoves ==
  ASSUME TypeOK, Unfinished, NEW p \in Task, WritePuts(p)
  PROVE  LET c == call[p]
             k == Smaller(Chunk(c) - c.w, Room(c.pi))
             woken == WakeReaders(call, c.pi)
         IN  /\ c.pi \in Slot /\ k \in Nat /\ pipe[c.pi].readopen
             /\ Room(c.pi) = 0 => k = 0
             /\ \E s \in [1 .. k -> Byte] :
                  pipe' = [pipe EXCEPT ![c.pi] = Stored(pipe[c.pi], s)]
             /\ \A q \in Task \ {p} : call'[q] = woken[q]
             /\ Asleep(call'[p]) => k = Room(c.pi) /\ call'[p].pi = c.pi /\ call'[p].at = "wsleep"
<1> DEFINE c == call[p]
           kk == Smaller(Chunk(c) - c.w, Room(c.pi))
           ww == WakeReaders(call, c.pi)
<1>0. call \in [Task -> Calls] /\ c.at = "write" /\ pipe[c.pi].readopen
  BY DEF TypeOK, WritePuts
<1>1. /\ c \in Writes /\ c.pi \in Slot /\ c.n \in Nat /\ c.total \in Nat /\ c.w \in Nat
      /\ c.w < Chunk(c)
  BY <1>0, Shapes, Constants DEF Writes, Unfinished
<1>2. Chunk(c) \in Nat
  BY <1>1, Constants DEF Chunk, Smaller, Unfinished
<1>3. kk \in Nat /\ (Room(c.pi) = 0 => kk = 0) /\ (kk # Room(c.pi) => c.w + kk = Chunk(c))
  <2>1. Room(c.pi) \in Nat
    BY <1>1, Sizes, Constants
  <2>2. PICK r \in Nat, h \in Nat, w \in Nat : r = Room(c.pi) /\ h = Chunk(c) /\ w = c.w
    BY <1>1, <1>2, <2>1
  <2>3. w < h /\ kk = IF h - w < r THEN h - w ELSE r
    BY <1>1, <2>2 DEF Smaller
  <2> HIDE DEF kk, c
  <2>4. kk \in Nat /\ (r = 0 => kk = 0) /\ (kk # r => w + kk = h)
    BY <2>3
  <2> QED BY <2>2, <2>4
<1>4. \E s \in [1 .. kk -> Byte] : pipe' = [pipe EXCEPT ![c.pi] = Stored(pipe[c.pi], s)]
  BY DEF WritePuts
<1>5. \/ c.w + kk < Chunk(c) /\ call' = [ww EXCEPT ![p].at = "wsleep", ![p].w = @ + kk]
      \/ call' = [ww EXCEPT ![p].total = @ + Chunk(c), ![p].w = 0]
      \/ call' = [ww EXCEPT ![p] = User]
  <2>1. /\ \/ /\ c.w + kk < Chunk(c)
              /\ call' = [ww EXCEPT ![p].at = "wsleep", ![p].w = @ + kk]
           \/ /\ c.w + kk = Chunk(c) /\ c.total + Chunk(c) < c.n
              /\ call' = [ww EXCEPT ![p].total = @ + Chunk(c), ![p].w = 0]
           \/ /\ c.w + kk = Chunk(c) /\ c.total + Chunk(c) = c.n
              /\ call' = [ww EXCEPT ![p] = User]
    BY DEF WritePuts
  <2> QED BY <2>1, Zenon
<1>6. ww \in [Task -> Calls] /\ ww[p] = c
  <2>1. ww \in [Task -> Calls]
    BY <1>0, <1>1, WakeTypes
  <2>2. ww[p] = c
    BY <1>0 DEF WakeReaders, WakeAt
  <2> QED BY <2>1, <2>2
<1> HIDE DEF c, kk, ww
<1>7. /\ \A q \in Task \ {p} : call'[q] = ww[q]
      /\ \/ c.w + kk < Chunk(c) /\ call'[p] = [c EXCEPT !.at = "wsleep", !.w = c.w + kk]
         \/ call'[p] = [c EXCEPT !.total = c.total + Chunk(c), !.w = 0]
         \/ call'[p] = User
  BY <1>5, <1>6
<1>8. Asleep(call'[p]) => kk = Room(c.pi) /\ call'[p].pi = c.pi /\ call'[p].at = "wsleep"
  <2>1. CASE c.w + kk < Chunk(c) /\ call'[p] = [c EXCEPT !.at = "wsleep", !.w = c.w + kk]
    <3>1. call'[p].at = "wsleep" /\ call'[p].pi = c.pi
      BY Zenon, <1>1, <2>1 DEF Writes
    <3>2. kk = Room(c.pi)
      BY <1>1, <1>2, <1>3, <2>1
    <3> QED BY <3>1, <3>2
  <2>2. CASE call'[p] = [c EXCEPT !.total = c.total + Chunk(c), !.w = 0]
    <3>1. call'[p].at = c.at
      BY Zenon, <1>1, <2>2 DEF Writes
    <3> QED BY <1>0, <3>1 DEF Asleep, c
  <2>3. CASE call'[p] = User
    BY <2>3 DEF Asleep, User
  <2> QED BY <1>7, <2>1, <2>2, <2>3
<1>9. /\ c.pi \in Slot /\ kk \in Nat /\ pipe[c.pi].readopen /\ (Room(c.pi) = 0 => kk = 0)
      /\ \E s \in [1 .. kk -> Byte] : pipe' = [pipe EXCEPT ![c.pi] = Stored(pipe[c.pi], s)]
      /\ \A q \in Task \ {p} : call'[q] = ww[q]
      /\ Asleep(call'[p]) => kk = Room(c.pi) /\ call'[p].pi = c.pi /\ call'[p].at = "wsleep"
  BY <1>0, <1>1, <1>3, <1>4, <1>7, <1>8 DEF c
<1> QED BY <1>9 DEF c, kk, ww
(* No step leaves a sleeper without a reason: pipe_read, pipe_write and    *)
(* pipe_close wake whom they make runnable.                                *)
LEMMA BlockedStep ==
  ASSUME Inv, Blocked, Next
  PROVE  Blocked'
<1>0. /\ call \in [Task -> Calls] /\ pipe \in [Slot -> Pipes] /\ jobs \in [Task -> Seq(Jobs)]
      /\ TypeOK /\ Unfinished
  BY DEF Inv, Types, TypeOK
<1>1. \A q \in Task : Asleep(call[q]) => /\ call[q].pi \in Slot
                                         /\ Reason(pipe[call[q].pi], call[q])
  BY <1>0, Shapes DEF Blocked, Asleep, Reason, RoomOf, Empty, Room
<1> DEFINE Goal == \A q \in Task : Asleep(call'[q]) => Reason(pipe'[call'[q].pi], call'[q])
<1>2. ASSUME NEW p \in Task,
             \/ ReadFile(p) \/ WriteFile(p) \/ Install(p) \/ GiveUp(p) \/ WriteBroken(p)
             \/ TimerWakes(p) \/ DropRef(p) \/ Die(p)
      PROVE  Goal
  <2>1. pipe' = pipe
    BY <1>2, Zenon DEF ReadFile, WriteFile, Install, GiveUp, WriteBroken, TimerWakes, DropRef, Die
  <2>2. ASSUME NEW x, call' = [call EXCEPT ![p] = x], ~Asleep(x)
        PROVE  Goal
    <3>1. ASSUME NEW q \in Task, Asleep(call'[q])
          PROVE  call'[q] = call[q]
      BY <1>0, <2>2, <3>1
    <3> QED BY <1>1, <2>1, <3>1
  <2>3. CASE ReadFile(p)
    <3>1. PICK f, i : call' = [call EXCEPT ![p] = [at |-> "wfile", pi |-> i, rf |-> f]]
      BY <2>3 DEF ReadFile
    <3>2. ~Asleep([at |-> "wfile", pi |-> i, rf |-> f])
      BY DEF Asleep
    <3> QED BY <2>2, <3>1, <3>2
  <2>4. CASE WriteFile(p)
    <3>1. PICK f, g, i : call' = [call EXCEPT ![p] =
                                    [at |-> "install", pi |-> i, rf |-> g, wf |-> f]]
      BY <2>4 DEF WriteFile
    <3>2. ~Asleep([at |-> "install", pi |-> i, rf |-> g, wf |-> f])
      BY DEF Asleep
    <3> QED BY <2>2, <3>1, <3>2
  <2>5. CASE Install(p) \/ GiveUp(p) \/ WriteBroken(p)
    <3>1. call' = [call EXCEPT ![p] = User] /\ ~Asleep(User)
      BY <2>5, Zenon DEF Install, GiveUp, WriteBroken, Asleep, User
    <3> QED BY <2>2, <3>1
  <2>6. CASE TimerWakes(p)
    <3>1. ASSUME NEW q \in Task, Asleep(call'[q])
          PROVE  call'[q] = call[q]
      <4>1. CASE q # p
        BY <1>0, <2>6, <4>1 DEF TimerWakes
      <4>2. CASE q = p /\ call[p].at = "rsleep"
        <5>1. call'[p] = [call[p] EXCEPT !.at = "read"] /\ call[p] \in Reads
          BY <1>0, <2>6, <4>2, Shapes DEF TimerWakes
        <5>2. call'[p].at = "read"
          BY Zenon, <5>1 DEF Reads
        <5> QED BY <3>1, <4>2, <5>2 DEF Asleep
      <4>3. CASE q = p /\ call[p].at = "wsleep"
        <5>1. call'[p] = [call[p] EXCEPT !.at = "write"] /\ call[p] \in Writes
          BY <1>0, <2>6, <4>3, Shapes DEF TimerWakes
        <5>2. call'[p].at = "write"
          BY Zenon, <5>1 DEF Writes
        <5> QED BY <3>1, <4>3, <5>2 DEF Asleep
      <4> QED BY <2>6, <4>1, <4>2, <4>3 DEF TimerWakes
    <3> QED BY <1>1, <2>1, <3>1
  <2>7. CASE DropRef(p)
    <3>1. call' = call
      BY <2>7 DEF DropRef
    <3> QED BY <1>1, <2>1, <3>1
  <2>8. CASE Die(p)
    <3>1. call' = [call EXCEPT ![p] = Dead] /\ ~Asleep(Dead)
      BY <2>8, Zenon DEF Die, Asleep, Dead
    <3> QED BY <2>2, <3>1
  <2> QED BY <1>2, <2>3, <2>4, <2>5, <2>6, <2>7, <2>8
<1>3. ASSUME NEW p \in Task, NEW f \in fds[p],
             Close(p, f) \/ \E n \in 1 .. MaxLen : StartRead(p, f, n) \/ StartWrite(p, f, n)
      PROVE  Goal
  <2>1. pipe' = pipe
    BY <1>3, Zenon DEF Close, StartRead, StartWrite
  <2>2. call'[p].at \in {"user", "read", "write"} /\ \A q \in Task \ {p} : call'[q] = call[q]
    BY <1>0, <1>3 DEF Close, StartRead, StartWrite, InUser, User
  <2>3. \A q \in Task : Asleep(call'[q]) => call'[q] = call[q]
    BY <2>2 DEF Asleep
  <2> QED BY <1>1, <2>1, <2>3
<1>4. ASSUME NEW p \in Task, NEW c \in Task, Fork(p, c)
      PROVE  Goal
  <2>1. pipe' = pipe /\ call' = [call EXCEPT ![c] = User]
    BY <1>4 DEF Fork
  <2>2. \A q \in Task : Asleep(call'[q]) => call'[q] = call[q]
    BY <1>0, <2>1 DEF Asleep, User
  <2> QED BY <1>1, <2>1, <2>2
<1>5. ASSUME NEW p \in Task, ReadSleeps(p)
      PROVE  Goal
  <2>1. /\ pipe' = pipe /\ call' = [call EXCEPT ![p].at = "rsleep"]
        /\ Empty(call[p].pi) /\ pipe[call[p].pi].writeopen /\ call[p].at = "read"
    BY <1>5 DEF ReadSleeps
  <2>2. call'[p] = [call[p] EXCEPT !.at = "rsleep"] /\ \A q \in Task \ {p} : call'[q] = call[q]
    BY <1>0, <2>1
  <2>3. call'[p].at = "rsleep" /\ call'[p].pi = call[p].pi
    BY <1>0, <2>1, <2>2, Shapes, ReadMoves
  <2>4. Reason(pipe'[call'[p].pi], call'[p])
    BY <2>1, <2>3 DEF Reason, Empty
  <2> QED BY <1>1, <2>1, <2>2, <2>4
<1>6. ASSUME NEW p \in Task, PoolAlloc(p)
      PROVE  Goal
  <2>1. PICK i \in Slot : i = Least({j \in Slot : ~pipe[j].used}) /\ ~pipe[i].used
    <3>1. {j \in Slot : ~pipe[j].used} \subseteq Nat /\ {j \in Slot : ~pipe[j].used} # {}
      BY <1>6, Constants DEF PoolAlloc
    <3> QED BY <3>1, LeastIn
  <2>2. /\ \A j \in Slot \ {i} : pipe'[j] = pipe[j]
        /\ call' = [call EXCEPT ![p] = [at |-> "rfile", pi |-> i]]
    BY <1>0, <1>6, <2>1 DEF PoolAlloc
  <2>3. ASSUME NEW q \in Task, Asleep(call'[q])
        PROVE  call'[q] = call[q] /\ call[q].pi # i
    <3>1. call'[q] = call[q]
      BY <1>0, <2>2, <2>3 DEF Asleep
    <3>2. \E f \in fds[q] : f \in FilesOf(call[q].pi)
      <4>1. \E f \in fds[q] : file[f].pipe = call[q].pi
        BY <2>3, <3>1 DEF Inv, Calling, Asleep
      <4> QED BY <1>0, <4>1 DEF TypeOK, FilesOf
    <3>3. EndOwned(i, TRUE)
      BY DEF Inv, Pool
    <3> QED BY <2>1, <3>1, <3>2, <3>3 DEF EndOwned
  <2> QED BY <1>1, <2>2, <2>3
<1>7. ASSUME NEW p \in Task, PoolFree(p)
      PROVE  Goal
  <2>1. PICK i \in Slot : pipe' = [pipe EXCEPT ![i].used = FALSE] /\ call' = call
    <3>1. jobs[p] # <<>> /\ jobs[p] \in Seq(Jobs) /\ Head(jobs[p]).do = "pool"
      BY <1>0, <1>7 DEF PoolFree
    <3>2. Head(jobs[p]).pi \in Slot
      BY <3>1, NextJob
    <3> QED BY <1>7, <3>2 DEF PoolFree
  <2>2. ASSUME NEW j \in Slot
        PROVE  /\ pipe'[j].nread = pipe[j].nread /\ pipe'[j].nwrite = pipe[j].nwrite
               /\ pipe'[j].readopen = pipe[j].readopen /\ pipe'[j].writeopen = pipe[j].writeopen
    <3>1. PICK b \in Pipes : b = pipe[j]
      BY <1>0
    <3>2. pipe'[j] = b \/ pipe'[j] = [b EXCEPT !.used = FALSE]
      BY <1>0, <2>1, <3>1
    <3> QED BY <3>1, <3>2, PipeFreed
  <2> QED BY <1>1, <2>1, <2>2 DEF Reason, RoomOf
<1>8. ASSUME NEW p \in Task, ReadReturns(p)
      PROVE  Goal
  <2>1. PICK i \in Slot : i = call[p].pi
    BY <1>0, <1>8, Shapes DEF ReadReturns
  <2>2. /\ ~(Empty(i) /\ pipe[i].writeopen) /\ call' = [WakeWriters(call, i) EXCEPT ![p] = User]
        /\ \A j \in Slot \ {i} : pipe'[j] = pipe[j]
    BY <1>0, <1>8, <2>1 DEF ReadReturns
  <2>3. ASSUME NEW q \in Task, Asleep(call'[q])
        PROVE  call'[q] = call[q] /\ call[q].pi # i
    <3>1. WakeWriters(call, i) \in [Task -> Calls]
      BY <1>0, <2>1, WakeTypes
    <3>2. q # p /\ call'[q] = WakeWriters(call, i)[q]
      BY <2>2, <2>3, <3>1 DEF Asleep, User
    <3>3. call'[q] = call[q] /\ (call[q].at = "wsleep" => call[q].pi # i)
      BY <1>0, <2>3, <3>2, WakeSleeps
    <3>4. call[q].at = "rsleep" => call[q].pi # i
      BY <1>1, <2>2 DEF Asleep, Reason, Empty
    <3> QED BY <2>3, <3>3, <3>4 DEF Asleep
  <2> QED BY <1>1, <2>2, <2>3
<1>9. ASSUME NEW p \in Task, WritePuts(p)
      PROVE  Goal
  <2>1. PICK i \in Slot, k \in Nat :
          /\ i = call[p].pi /\ pipe[i].readopen /\ (Room(i) = 0 => k = 0)
          /\ \E s \in [1 .. k -> Byte] : pipe' = [pipe EXCEPT ![i] = Stored(pipe[i], s)]
          /\ \A q \in Task \ {p} : call'[q] = WakeReaders(call, i)[q]
          /\ Asleep(call'[p]) => k = Room(i) /\ call'[p].pi = i /\ call'[p].at = "wsleep"
    BY <1>0, <1>9, WriterMoves
  <2>2. PICK s \in [1 .. k -> Byte] : pipe' = [pipe EXCEPT ![i] = Stored(pipe[i], s)]
    BY <2>1
  <2>3. /\ \A j \in Slot \ {i} : pipe'[j] = pipe[j]
        /\ pipe'[i].readopen = pipe[i].readopen
        /\ pipe'[i].nread = pipe[i].nread /\ pipe'[i].nwrite = Plus(pipe[i].nwrite, k)
    BY <1>0, <2>2, StoredType
  <2>4. pipe[i].nread \in 0 .. Width - 1 /\ pipe[i].nwrite \in 0 .. Width - 1
    BY <1>0, Sizes
  <2>5. k = Room(i) => RoomOf(pipe'[i]) = 0
    BY <2>3, <2>4, Counters DEF Room, RoomOf
  <2>6. ASSUME NEW q \in Task \ {p}, Asleep(call'[q])
        PROVE  Reason(pipe'[call'[q].pi], call'[q])
    <3>1. call'[q] = call[q] /\ (call[q].at = "rsleep" => call[q].pi # i)
      BY <1>0, <2>1, <2>6, WakeSleeps
    <3>2. CASE call[q].pi # i
      BY <1>1, <2>3, <2>6, <3>1, <3>2
    <3>3. CASE call[q].pi = i
      <4>1. call[q].at = "wsleep" /\ Room(i) = 0
        BY <1>1, <2>6, <3>1, <3>3 DEF Asleep, Reason, Room, RoomOf
      <4>2. RoomOf(pipe'[i]) = 0
        BY <2>1, <2>5, <4>1
      <4> QED BY <2>1, <2>3, <3>1, <3>3, <4>1, <4>2 DEF Reason
    <3> QED BY <3>2, <3>3
  <2>7. ASSUME Asleep(call'[p])
        PROVE  Reason(pipe'[call'[p].pi], call'[p])
    BY <2>1, <2>3, <2>5, <2>7 DEF Reason
  <2> QED BY <2>6, <2>7
<1>10. ASSUME NEW p \in Task, End(p)
       PROVE  Goal
  <2>1. PICK i \in Slot, wr \in BOOLEAN : Head(jobs[p]).pi = i /\ Head(jobs[p]).wr = wr
    <3>1. jobs[p] # <<>> /\ jobs[p] \in Seq(Jobs) /\ Head(jobs[p]).do = "end"
      BY <1>0, <1>10 DEF End, Ends
    <3> QED BY <3>1, NextJob
  <2> DEFINE closed == [pipe[i] EXCEPT !.writeopen = @ /\ ~wr, !.readopen = @ /\ wr]
  <2>2. /\ pipe' = [pipe EXCEPT ![i] = closed]
        /\ call' = IF wr THEN WakeReaders(call, i) ELSE WakeWriters(call, i)
    BY <1>10, <2>1 DEF End, Ends
  <2>3. /\ closed.nread = pipe[i].nread /\ closed.nwrite = pipe[i].nwrite
        /\ wr => closed.readopen = pipe[i].readopen
        /\ ~wr => closed.writeopen = pipe[i].writeopen
    <3>1. PICK b \in Pipes : b = pipe[i]
      BY <1>0
    <3>2. PICK x \in BOOLEAN, y \in BOOLEAN : x = (b.writeopen /\ ~wr) /\ y = (b.readopen /\ wr)
      OBVIOUS
    <3>3. closed = [b EXCEPT !.writeopen = x, !.readopen = y]
      BY <3>1, <3>2
    <3> HIDE DEF closed
    <3>4. closed.nread = b.nread /\ closed.nwrite = b.nwrite
      BY Zenon, <3>3 DEF Pipes
    <3>5. closed.writeopen = x /\ closed.readopen = y
      BY Zenon, <3>3 DEF Pipes
    <3>6. b.writeopen \in BOOLEAN /\ b.readopen \in BOOLEAN
      BY PipeShape
    <3> QED BY <3>1, <3>2, <3>4, <3>5, <3>6
  <2> HIDE DEF closed
  <2>4. pipe'[i] = closed /\ \A j \in Slot \ {i} : pipe'[j] = pipe[j]
    BY <1>0, <2>2
  <2>5. ASSUME NEW q \in Task, Asleep(call'[q])
        PROVE  Reason(pipe'[call'[q].pi], call'[q])
    <3>1. /\ call'[q] = call[q]
          /\ wr /\ call[q].at = "rsleep" => call[q].pi # i
          /\ ~wr /\ call[q].at = "wsleep" => call[q].pi # i
      <4>1. CASE wr
        <5>1. Asleep(WakeReaders(call, i)[q]) /\ call'[q] = WakeReaders(call, i)[q]
          BY <2>2, <2>5, <4>1
        <5> QED BY <1>0, <4>1, <5>1, WakeSleeps
      <4>2. CASE ~wr
        <5>1. Asleep(WakeWriters(call, i)[q]) /\ call'[q] = WakeWriters(call, i)[q]
          BY <2>2, <2>5, <4>2
        <5> QED BY <1>0, <4>2, <5>1, WakeSleeps
      <4> QED BY <4>1, <4>2
    <3>2. call[q].pi \in Slot /\ Reason(pipe[call[q].pi], call[q])
      BY <1>1, <2>5, <3>1
    <3>3. CASE call[q].pi # i
      BY <2>4, <3>1, <3>2, <3>3
    <3>4. CASE call[q].pi = i
      BY <2>3, <2>4, <3>1, <3>2, <3>4 DEF Reason, RoomOf
    <3> QED BY <3>3, <3>4
  <2> QED BY <2>5
<1>11. Goal
  BY Zenon, <1>2, <1>3, <1>4, <1>5, <1>6, <1>7, <1>8, <1>9, <1>10 DEF Next
<1> QED BY <1>11 DEF Blocked, Asleep, Reason, RoomOf, Empty, Room

(* A process that sleeps in a pipe has a reason to: no wakeup is lost      *)
(* among the reads, writes and closes of any number of processes.          *)
THEOREM BlockedCorrect == Spec => []Blocked
<1>1. Init => Inv /\ Blocked
  <2>1. ASSUME Init
        PROVE  \A p \in Task : call[p] \in {User, Dead}
    BY <2>1 DEF Init
  <2> QED BY <2>1, InvInit DEF Blocked, User, Dead
<1>2. ASSUME Inv, Blocked, [Next]_vars
      PROVE  Inv' /\ Blocked'
  <2>1. CASE UNCHANGED vars
    BY <1>2, <2>1, InvStep DEF vars, Blocked, Empty, Room
  <2>2. CASE Next
    BY <1>2, <2>2, InvStep, BlockedStep
  <2> QED BY <1>2, <2>1, <2>2
<1> QED BY <1>1, <1>2, PTL DEF Spec

-----------------------------------------------------------------------------
(* Counters modulo Width, indices modulo Cap.                              *)

(* A remainder does not depend on multiples of the divisor.                *)
LEMMA Remainder ==
  ASSUME NEW C \in Nat \ {0}, NEW v \in 0 .. C - 1, NEW z \in Int
  PROVE  (v + z * C) % C = v
<1> DEFINE x == v + z * C
           d == x \div C
           m == x % C
<1>1. x \in Int /\ d \in Int /\ m \in 0 .. C - 1
  OBVIOUS
<1>2. x = C * d + m
  OBVIOUS
<1> QED BY <1>1, <1>2

(* Division with remainder.                                                *)
LEMMA Divided ==
  ASSUME NEW x \in Nat, NEW C \in Nat \ {0}
  PROVE  \E d \in Nat : x = d * C + (x % C) /\ x % C \in Nat
<1>1. x \div C \in Int /\ x % C \in 0 .. C - 1
  OBVIOUS
<1>2. x = C * (x \div C) + (x % C)
  OBVIOUS
<1>3. PICK d, m, y : d = x \div C /\ m = x % C /\ y = C
  OBVIOUS
<1>4. d \in Int /\ m \in 0 .. y - 1 /\ x = y * d + m /\ y \in Nat \ {0}
  BY <1>1, <1>2, <1>3
<1>5. d >= 0
  BY <1>4
<1>6. d \in Nat /\ x = d * y + m /\ m \in Nat
  BY <1>4, <1>5
<1> QED BY <1>3, <1>6, Zenon

(* Width is a multiple of Cap.                                             *)
LEMMA Whole == \E m \in Nat : Width = m * Cap
<1>1. Width \in Nat /\ Cap \in Nat \ {0} /\ Width % Cap = 0
  BY PipeAssumption
<1>2. PICK d \in Nat : Width = d * Cap + 0
  BY <1>1, Divided
<1> QED BY <1>1, <1>2

(* Where the byte behind x counted bytes stands: x up to multiples of Cap, *)
(* although x is first taken modulo Width.                                 *)
LEMMA Wrapped ==
  ASSUME NEW x \in Nat
  PROVE  \E z \in Int : (x % Width) % Cap = x + z * Cap
<1>1. Width \in Nat \ {0} /\ Cap \in Nat \ {0}
  BY Constants
<1>2. PICK m \in Nat : Width = m * Cap
  BY Whole
<1>3. PICK d \in Nat, y \in Nat : x = d * Width + y /\ y = x % Width
  BY <1>1, Divided
<1>4. PICK e \in Nat, v \in Nat : y = e * Cap + v /\ v = y % Cap
  BY <1>1, Divided
<1>5. PICK c \in Nat : c = Cap
  BY <1>1
<1>6. x = d * (m * c) + (e * c + v)
  <2>1. x = d * Width + y /\ Width = m * c /\ y = e * c + v
    BY <1>2, <1>3, <1>4, <1>5
  <2> QED BY <2>1
<1>7. PICK z \in Int : z = 0 - (d * m) - e
  <2>1. 0 - (d * m) - e \in Int
    OBVIOUS
  <2> QED BY <2>1, Zenon
<1>8. v = x + z * c
  BY <1>6, <1>7
<1> QED BY <1>3, <1>4, <1>5, <1>8

(* The bytes in a pipe whose counters are r and w.                         *)
Used(r, w) == (w + Width - r) % Width
Left(r, w) == (r + Cap + Width - w) % Width

(* The writer's counter is ahead of the reader's by what is in the pipe.   *)
LEMMA Ahead ==
  ASSUME NEW r \in 0 .. Width - 1, NEW w \in 0 .. Width - 1
  PROVE  /\ Used(r, w) \in 0 .. Width - 1
         /\ w = r + Used(r, w) \/ w = r + Used(r, w) - Width
<1>1. Width \in Nat \ {0}
  BY Constants
<1>2. CASE w < r
  <2>1. w + Width - r \in 0 .. Width - 1
    BY <1>1, <1>2
  <2>2. Used(r, w) = w + Width - r
    BY <1>1, <2>1, Modulo DEF Used
  <2> QED BY <1>1, <2>1, <2>2
<1>3. CASE ~(w < r)
  <2>1. PICK x \in Width .. 2 * Width - 1 : x = w + Width - r
    BY <1>1, <1>3
  <2>2. x % Width = x - Width
    BY <1>1, <2>1, Modulo
  <2>3. Used(r, w) = x - Width
    BY <2>1, <2>2 DEF Used
  <2> QED BY <1>1, <1>3, <2>1, <2>3
<1> QED BY <1>2, <1>3

(* What two counters that are so far apart say.                            *)
LEMMA Apart ==
  ASSUME NEW r \in 0 .. Width - 1, NEW w \in 0 .. Width - 1, NEW s \in 0 .. Width - 1,
         w = r + s \/ w = r + s - Width
  PROVE  Used(r, w) = s
<1>1. PICK W \in Nat \ {0} : W = Width
  BY Constants
<1>2. PICK u \in 0 .. W - 1 : u = Used(r, w) /\ (w = r + u \/ w = r + u - W)
  BY <1>1, Ahead
<1>3. r \in 0 .. W - 1 /\ w \in 0 .. W - 1 /\ s \in 0 .. W - 1 /\ (w = r + s \/ w = r + s - W)
  BY <1>1
<1>4. u = s
  BY <1>1, <1>2, <1>3
<1> QED BY <1>2, <1>4

(* Advancing a counter.                                                    *)
LEMMA Advance ==
  ASSUME NEW r \in 0 .. Width - 1, NEW k \in 0 .. Width - 1
  PROVE  /\ Plus(r, k) \in 0 .. Width - 1
         /\ Plus(r, k) = r + k \/ Plus(r, k) = r + k - Width
<1>1. Width \in Nat \ {0}
  BY Constants
<1>a. PICK x \in Nat : x = r + k
  BY <1>1
<1>b. Plus(r, k) = x % Width
  BY <1>a DEF Plus
<1>2. CASE x \in 0 .. Width - 1
  <2>1. x % Width = x
    BY <1>1, <1>2, Modulo
  <2> QED BY <1>a, <1>b, <1>2, <2>1
<1>3. CASE x \in Width .. 2 * Width - 1
  <2>1. x % Width = x - Width
    BY <1>1, <1>3, Modulo
  <2>2. x - Width \in 0 .. Width - 1
    BY <1>1, <1>3
  <2>3. x - Width = r + k - Width
    BY <1>1, <1>a
  <2> QED BY <1>b, <2>1, <2>2, <2>3
<1>4. x \in 0 .. Width - 1 \/ x \in Width .. 2 * Width - 1
  BY <1>1, <1>a
<1> QED BY <1>2, <1>3, <1>4

(* A read takes bytes, a write adds bytes, and there is room up to Cap.    *)
LEMMA Moves ==
  ASSUME NEW r \in 0 .. Width - 1, NEW w \in 0 .. Width - 1, NEW k \in Nat
  PROVE  /\ k <= Used(r, w) => Used(Plus(r, k), w) = Used(r, w) - k
         /\ Used(r, w) + k < Width => Used(r, Plus(w, k)) = Used(r, w) + k
         /\ Used(r, w) <= Cap => Left(r, w) = Cap - Used(r, w)
<1>1. Width \in Nat \ {0} /\ Cap \in Nat \ {0} /\ Cap < Width
  BY Constants
<1>2. /\ Used(r, w) \in 0 .. Width - 1
      /\ w = r + Used(r, w) \/ w = r + Used(r, w) - Width
  BY Ahead
<1>3. PICK u \in 0 .. Width - 1 : u = Used(r, w)
  BY <1>2
<1>4. ASSUME k <= u PROVE Used(Plus(r, k), w) = u - k
  <2>1. k \in 0 .. Width - 1 /\ u - k \in 0 .. Width - 1
    BY <1>1, <1>4
  <2>2. PICK a \in 0 .. Width - 1 : a = Plus(r, k) /\ (a = r + k \/ a = r + k - Width)
    BY <2>1, Advance
  <2>3. w = a + (u - k) \/ w = a + (u - k) - Width
    BY <1>1, <1>2, <1>3, <1>4, <2>1, <2>2
  <2> QED BY <2>1, <2>2, <2>3, Apart
<1>5. ASSUME u + k < Width PROVE Used(r, Plus(w, k)) = u + k
  <2>1. k \in 0 .. Width - 1 /\ u + k \in 0 .. Width - 1
    BY <1>1, <1>5
  <2>2. PICK a \in 0 .. Width - 1 : a = Plus(w, k) /\ (a = w + k \/ a = w + k - Width)
    BY <2>1, Advance
  <2>3. a = r + (u + k) \/ a = r + (u + k) - Width
    BY <1>1, <1>2, <1>3, <2>1, <2>2
  <2> QED BY <2>1, <2>2, <2>3, Apart
<1>6. ASSUME u <= Cap PROVE Left(r, w) = Cap - u
  <2>1. PICK a : a = r + Cap + Width - w
    OBVIOUS
  <2>2. a = Cap - u + Width \/ a = Cap - u + 2 * Width
    BY <1>1, <1>2, <1>3, <2>1
  <2>3. a \in Width .. 2 * Width - 1 \/ a \in 2 * Width .. 3 * Width - 1
    BY <1>1, <1>6, <2>2
  <2>4. a % Width = a - Width \/ a % Width = a - 2 * Width
    BY <1>1, <2>3, Modulo
  <2>5. a % Width \in 0 .. Width - 1
    BY <1>1, <2>2
  <2>6. a % Width = Cap - u
    BY <1>1, <1>6, <2>2, <2>4, <2>5
  <2> QED BY <2>1, <2>6 DEF Left
<1> QED BY <1>3, <1>4, <1>5, <1>6

(* After a read of k bytes the j-th byte is the one that was k further on. *)
LEMMA Shifted ==
  ASSUME NEW r \in 0 .. Width - 1, NEW k \in Nat, NEW j \in Nat \ {0}, k + j <= Width
  PROVE  Plus(Plus(r, k), j - 1) = Plus(r, k + j - 1)
<1>1. PICK W \in Nat \ {0} : W = Width
  BY Constants
<1>2. k \in 0 .. W - 1 /\ j - 1 \in 0 .. W - 1 /\ k + j - 1 \in 0 .. W - 1
  BY <1>1
<1>3. PICK a \in 0 .. W - 1 : a = Plus(r, k) /\ (a = r + k \/ a = r + k - W)
  BY <1>1, <1>2, Advance
<1>4. PICK x \in 0 .. W - 1 : x = Plus(a, j - 1) /\ (x = a + (j - 1) \/ x = a + (j - 1) - W)
  BY <1>1, <1>2, Advance
<1>5. PICK y \in 0 .. W - 1 :
        y = Plus(r, k + j - 1) /\ (y = r + (k + j - 1) \/ y = r + (k + j - 1) - W)
  BY <1>1, <1>2, Advance
<1>6. x = y
  BY <1>1, <1>2, <1>3, <1>4, <1>5
<1> QED BY <1>3, <1>4, <1>5, <1>6

(* pipe_write puts k bytes behind the u that are there: the place of a byte*)
(* that is there is not written, the places behind them in order.          *)
LEMMA Placed ==
  ASSUME NEW r \in 0 .. Width - 1, NEW w \in 0 .. Width - 1, NEW k \in Nat,
         Used(r, w) + k <= Cap, NEW j \in 1 .. Used(r, w) + k
  PROVE  LET a == Plus(r, j - 1) % Cap
             o == ((a + Width - w) % Cap) + 1
         IN  /\ a \in 0 .. Cap - 1
             /\ j <= Used(r, w) => o > k
             /\ j > Used(r, w) => o = j - Used(r, w)
<1>1. Width \in Nat \ {0} /\ Cap \in Nat \ {0} /\ Cap < Width
  BY Constants
<1>2. PICK c \in Nat \ {0} : c = Cap
  BY <1>1
<1>3. PICK u \in 0 .. c : u = Used(r, w) /\ (w = r + u \/ w = r + u - Width)
  <2>1. PICK x : x = Used(r, w)
    OBVIOUS
  <2>2. x \in 0 .. Width - 1 /\ (w = r + x \/ w = r + x - Width) /\ x + k <= Cap
    BY <2>1, Ahead
  <2>3. x \in 0 .. c
    BY <1>1, <1>2, <2>2
  <2> QED BY <2>1, <2>2, <2>3
<1>4. PICK m \in Nat : Width = m * c
  BY <1>2, Whole
<1>5. PICK a : a = Plus(r, j - 1) % Cap
  OBVIOUS
<1>6. PICK z \in Int : a = r + (j - 1) + z * c
  <2>1. r + (j - 1) \in Nat
    BY <1>1, <1>3
  <2> QED BY <1>2, <1>5, <2>1, Wrapped DEF Plus
<1>7. a \in 0 .. c - 1
  <2>1. r + (j - 1) \in Nat
    BY <1>1, <1>3
  <2>2. Plus(r, j - 1) \in Nat
    BY <1>1, <2>1 DEF Plus
  <2> QED BY <1>1, <1>2, <1>5, <2>2
<1>8. PICK t \in Int : a + Width - w = j - 1 - u + t * c
  <2>1. CASE w = r + u
    <3>1. a + Width - w = j - 1 - u + (z + m) * c
      BY <1>1, <1>3, <1>4, <1>6, <2>1
    <3>2. z + m \in Int
      OBVIOUS
    <3> QED BY <3>1, <3>2
  <2>2. CASE w = r + u - Width
    <3>1. a + Width - w = j - 1 - u + (z + m + m) * c
      BY <1>1, <1>3, <1>4, <1>6, <2>2
    <3>2. z + m + m \in Int
      OBVIOUS
    <3> QED BY <3>1, <3>2
  <2> QED BY <1>3, <2>1, <2>2
<1>9. ASSUME j > u PROVE ((a + Width - w) % Cap) + 1 = j - u
  <2>1. PICK v \in 0 .. c - 1 : v = j - 1 - u
    BY <1>2, <1>3, <1>9
  <2>2. (v + t * c) % c = v
    BY Remainder
  <2>3. a + Width - w = v + t * c
    BY <1>8, <2>1
  <2> QED BY <1>2, <1>3, <2>1, <2>2, <2>3
<1>10. ASSUME j <= u PROVE ((a + Width - w) % Cap) + 1 > k
  <2>1. PICK v \in 0 .. c - 1 : v = c + (j - 1 - u)
    BY <1>2, <1>3, <1>10
  <2>2. PICK s \in Int : s = t - 1
    OBVIOUS
  <2>3. (v + s * c) % c = v
    BY Remainder
  <2>4. a + Width - w = v + s * c
    <3>1. s * c = t * c - c
      BY <2>2
    <3> QED BY <1>3, <1>8, <2>1, <3>1
  <2>5. v + 1 > k
    BY <1>2, <1>3, <2>1
  <2> QED BY <1>2, <2>3, <2>4, <2>5
<1>11. /\ a \in 0 .. Cap - 1
       /\ j <= Used(r, w) => ((a + Width - w) % Cap) + 1 > k
       /\ j > Used(r, w) => ((a + Width - w) % Cap) + 1 = j - Used(r, w)
  BY <1>2, <1>3, <1>7, <1>9, <1>10
<1> QED BY <1>5, <1>11

-----------------------------------------------------------------------------
(* Sequences of bytes.                                                     *)

(* A sequence that goes on with what the other one has is a longer prefix. *)
LEMMA PrefixOf ==
  ASSUME NEW n \in Nat, NEW m \in Nat, n <= m,
         NEW s \in [1 .. n -> Byte], NEW t \in [1 .. m -> Byte],
         \A j \in 1 .. n : t[j] = s[j]
  PROVE  IsPrefix(s, t) /\ Len(s) = n /\ Len(t) = m
<1>1. s \in Seq(Byte) /\ t \in Seq(Byte) /\ Len(s) = n /\ Len(t) = m
  OBVIOUS
<1>2. SubSeq(s, 1, n) = SubSeq(t, 1, n)
  BY <1>1
<1> QED BY <1>1, <1>2 DEF IsPrefix

(* Two parts make the whole.                                               *)
LEMMA Halves ==
  ASSUME NEW n \in Nat, NEW m \in Nat,
         NEW s \in [1 .. n -> Byte], NEW t \in [1 .. m -> Byte], NEW q \in [1 .. n + m -> Byte],
         \A j \in 1 .. n : q[j] = s[j], \A j \in 1 .. m : q[n + j] = t[j]
  PROVE  q = s \o t
<1>1. s \in Seq(Byte) /\ t \in Seq(Byte) /\ Len(s) = n /\ Len(t) = m
  OBVIOUS
<1>2. q \in Seq(Byte) /\ Len(q) = n + m
  <2>1. n + m \in Nat
    OBVIOUS
  <2> QED BY <2>1
<1>3. (s \o t) \in Seq(Byte) /\ Len(s \o t) = n + m
  BY <1>1, ConcatProperties
<1>4. ASSUME NEW i \in 1 .. n + m PROVE q[i] = (s \o t)[i]
  <2>1. CASE i <= n
    BY <1>1, <2>1
  <2>2. CASE i > n
    <3>1. PICK j \in 1 .. m : i = n + j
      <4>1. i - n \in 1 .. m /\ i = n + (i - n)
        BY <2>2
      <4> QED BY <4>1
    <3>2. (s \o t)[i] = t[i - n]
      BY <1>1, <2>2
    <3>3. i - n = j
      BY <3>1
    <3> QED BY <3>1, <3>2, <3>3
  <2> QED BY <2>1, <2>2
<1> QED BY <1>2, <1>3, <1>4, SeqEqual

-----------------------------------------------------------------------------
(* The queue a pipe stands for.                                            *)

BytesOf(b) ==
  [j \in 1 .. Used(b.nread, b.nwrite) |-> b.data[Plus(b.nread, j - 1) % Cap]]
QueueOf(b) == IF b.used THEN BytesOf(b) ELSE <<>>
Live == {i \in Slot : pipe[i].used}

(* No pipe ever holds more than Cap bytes.                                 *)
Bounded == \A i \in Slot : Used(pipe[i].nread, pipe[i].nwrite) <= Cap

(* The contents of the pool, slot by slot.                                 *)
LEMMA Abstraction ==
  /\ Contents = [i \in Slot |-> QueueOf(pipe[i])]
  /\ Contents' = [i \in Slot |-> QueueOf(pipe'[i])]
BY DEF Contents, QueueOf, BytesOf, Bytes, Size, Used

(* The places of the bytes of a pipe are in its array.                     *)
LEMMA PlaceIn ==
  ASSUME NEW r \in 0 .. Width - 1, NEW j \in Nat \ {0}
  PROVE  Plus(r, j - 1) % Cap \in 0 .. Cap - 1
<1>1. Width \in Nat \ {0} /\ Cap \in Nat \ {0}
  BY Constants
<1>2. PICK x \in Nat : x = r + (j - 1)
  BY <1>1
<1>3. PICK y \in Nat : y = x % Width
  BY <1>1
<1>4. y % Cap \in 0 .. Cap - 1
  BY <1>1
<1> QED BY <1>2, <1>3, <1>4 DEF Plus

(* What is in a pipe is a function from 1 .. its length into bytes.        *)
LEMMA BytesShape ==
  ASSUME NEW b \in Pipes
  PROVE  /\ Used(b.nread, b.nwrite) \in Nat
         /\ BytesOf(b) \in [1 .. Used(b.nread, b.nwrite) -> Byte]
<1>1. /\ b.nread \in 0 .. Width - 1 /\ b.nwrite \in 0 .. Width - 1
      /\ b.data \in [0 .. Cap - 1 -> Byte]
  BY PipeShape
<1>2. Used(b.nread, b.nwrite) \in Nat
  BY <1>1, Ahead, Constants
<1>3. ASSUME NEW j \in 1 .. Used(b.nread, b.nwrite)
      PROVE  b.data[Plus(b.nread, j - 1) % Cap] \in Byte
  <2>1. j \in Nat \ {0}
    BY <1>2
  <2>2. Plus(b.nread, j - 1) % Cap \in 0 .. Cap - 1
    BY <1>1, <2>1, PlaceIn
  <2> QED BY <1>1, <2>2
<1> QED BY <1>2, <1>3 DEF BytesOf

(* A read: what is returned and what is left make up what there was.       *)
LEMMA Taken ==
  ASSUME NEW b \in Pipes, NEW k \in Nat, k <= Used(b.nread, b.nwrite),
         NEW d \in Pipes, d.nread = Plus(b.nread, k), d.nwrite = b.nwrite, d.data = b.data
  PROVE  /\ Used(d.nread, d.nwrite) = Used(b.nread, b.nwrite) - k
         /\ BytesOf(b) = [j \in 1 .. k |-> b.data[Plus(b.nread, j - 1) % Cap]] \o BytesOf(d)
<1>1. b.nread \in 0 .. Width - 1 /\ b.nwrite \in 0 .. Width - 1
  BY PipeShape
<1>2. PICK u \in Nat : u = Used(b.nread, b.nwrite) /\ u < Width
  <2>1. PICK x : x = Used(b.nread, b.nwrite)
    OBVIOUS
  <2>2. x \in 0 .. Width - 1 /\ Width \in Nat
    BY <1>1, <2>1, Ahead, Constants
  <2>3. x \in Nat /\ x < Width
    BY <2>2
  <2> QED BY <2>1, <2>3
<1>3. PICK v \in Nat : v = Used(d.nread, d.nwrite) /\ v = u - k /\ u = k + v
  BY <1>1, <1>2, Moves
<1> DEFINE g == [j \in 1 .. k |-> b.data[Plus(b.nread, j - 1) % Cap]]
<1>4. /\ BytesOf(b) \in [1 .. k + v -> Byte] /\ BytesOf(d) \in [1 .. v -> Byte]
  BY <1>2, <1>3, BytesShape
<1>5. /\ g \in [1 .. k -> Byte] /\ \A j \in 1 .. k : BytesOf(b)[j] = g[j]
  <2>1. \A j \in 1 .. k : j \in 1 .. u
    BY <1>2, <1>3
  <2>2. \A j \in 1 .. k : BytesOf(b)[j] = b.data[Plus(b.nread, j - 1) % Cap]
    BY <1>2, <2>1 DEF BytesOf
  <2>3. \A j \in 1 .. k : BytesOf(b)[j] \in Byte
    BY <1>3, <1>4, <2>1
  <2> QED BY <2>2, <2>3
<1>6. \A j \in 1 .. v : BytesOf(b)[k + j] = BytesOf(d)[j]
  <2> SUFFICES ASSUME NEW j \in 1 .. v PROVE BytesOf(b)[k + j] = BytesOf(d)[j]
    OBVIOUS
  <2>1. k + j \in 1 .. u /\ j \in Nat \ {0} /\ k + j <= Width
    BY <1>2, <1>3, Constants
  <2>2. BytesOf(b)[k + j] = b.data[Plus(b.nread, k + j - 1) % Cap]
    BY <1>2, <2>1 DEF BytesOf
  <2>3. BytesOf(d)[j] = b.data[Plus(Plus(b.nread, k), j - 1) % Cap]
    BY <1>3 DEF BytesOf
  <2>4. Plus(Plus(b.nread, k), j - 1) = Plus(b.nread, k + j - 1)
    BY <1>1, <2>1, Shifted
  <2> QED BY <2>2, <2>3, <2>4
<1> HIDE DEF g
<1>7. BytesOf(b) = g \o BytesOf(d)
  BY <1>4, <1>5, <1>6, Halves
<1> QED BY <1>2, <1>3, <1>7 DEF g

(* What a write makes of the array.                                        *)
LEMMA StoredData ==
  ASSUME NEW b \in Pipes, NEW k \in Nat, NEW s \in [1 .. k -> Byte]
  PROVE  /\ Stored(b, s).used = b.used /\ Stored(b, s).nread = b.nread
         /\ Stored(b, s).nwrite = Plus(b.nwrite, k)
         /\ \A a \in 0 .. Cap - 1 :
              Stored(b, s).data[a] =
                IF ((a + Width - b.nwrite) % Cap) + 1 <= k
                THEN s[((a + Width - b.nwrite) % Cap) + 1] ELSE b.data[a]
<1> DEFINE dd == [j \in 0 .. Cap - 1 |->
                   LET k1 == ((j + Width - b.nwrite) % Cap) + 1
                   IN  IF k1 <= Len(s) THEN s[k1] ELSE b.data[j]]
<1>1. Len(s) = k
  OBVIOUS
<1>2. \A a \in 0 .. Cap - 1 :
        dd[a] = IF ((a + Width - b.nwrite) % Cap) + 1 <= k
                THEN s[((a + Width - b.nwrite) % Cap) + 1] ELSE b.data[a]
  BY <1>1
<1>3. Stored(b, s) = [b EXCEPT !.nwrite = Plus(@, Len(s)), !.data = dd]
  BY DEF Stored
<1> HIDE DEF dd
<1>4. /\ Stored(b, s).used = b.used /\ Stored(b, s).nread = b.nread
      /\ Stored(b, s).nwrite = Plus(b.nwrite, Len(s)) /\ Stored(b, s).data = dd
  BY Zenon, <1>3 DEF Pipes
<1> QED BY <1>1, <1>2, <1>4

(* A write: what there was is a prefix of what there is, and the rest is   *)
(* what was written, in order.                                             *)
LEMMA Added ==
  ASSUME NEW b \in Pipes, NEW k \in Nat, Used(b.nread, b.nwrite) + k <= Cap,
         NEW s \in [1 .. k -> Byte], Stored(b, s) \in Pipes
  PROVE  LET d == Stored(b, s)
         IN  /\ Used(d.nread, d.nwrite) = Used(b.nread, b.nwrite) + k
             /\ IsPrefix(BytesOf(b), BytesOf(d))
             /\ Len(BytesOf(b)) = Used(b.nread, b.nwrite)
             /\ Len(BytesOf(d)) = Used(b.nread, b.nwrite) + k
             /\ \A j \in 1 .. k : BytesOf(d)[Used(b.nread, b.nwrite) + j] = s[j]
             /\ k = 0 => BytesOf(d) = BytesOf(b)
<1>0. Width \in Nat \ {0} /\ Cap \in Nat \ {0} /\ Cap < Width
  BY Constants
<1>1. b.nread \in 0 .. Width - 1 /\ b.nwrite \in 0 .. Width - 1
  BY PipeShape
<1>2. PICK d \in Pipes : d = Stored(b, s)
  OBVIOUS
<1>3. PICK u \in Nat : u = Used(b.nread, b.nwrite) /\ u + k <= Cap
  BY <1>1, Ahead, Constants
<1>4. d.nread = b.nread /\ d.nwrite = Plus(b.nwrite, k)
  BY <1>2, StoredData
<1>5. Used(d.nread, d.nwrite) = u + k
  <2>1. u + k < Width
    BY <1>0, <1>3
  <2> QED BY <1>1, <1>3, <1>4, <2>1, Moves
<1>6. BytesOf(b) \in [1 .. u -> Byte] /\ BytesOf(d) \in [1 .. u + k -> Byte]
  BY <1>3, <1>5, BytesShape
<1>7. \A j \in 1 .. u : BytesOf(d)[j] = BytesOf(b)[j]
  <2> SUFFICES ASSUME NEW j \in 1 .. u PROVE BytesOf(d)[j] = BytesOf(b)[j]
    OBVIOUS
  <2>1. j \in 1 .. u + k
    BY <1>3
  <2>2. PICK a : a = Plus(b.nread, j - 1) % Cap
    OBVIOUS
  <2>3. a \in 0 .. Cap - 1 /\ ((a + Width - b.nwrite) % Cap) + 1 > k
    BY <1>1, <1>3, <2>1, <2>2, Placed
  <2>4. ((a + Width - b.nwrite) % Cap) + 1 \in Int
    BY <1>0, <1>1, <2>3
  <2>5. d.data[a] = b.data[a]
    BY <1>2, <2>3, <2>4, StoredData
  <2>6. BytesOf(d)[j] = d.data[a]
    BY <1>4, <1>5, <2>1, <2>2 DEF BytesOf
  <2>7. BytesOf(b)[j] = b.data[a]
    BY <1>3, <2>2 DEF BytesOf
  <2> QED BY <2>5, <2>6, <2>7
<1>8. /\ IsPrefix(BytesOf(b), BytesOf(d)) /\ Len(BytesOf(b)) = u /\ Len(BytesOf(d)) = u + k
  <2>1. u + k \in Nat /\ u <= u + k
    BY <1>3
  <2> QED BY <1>6, <1>7, <2>1, PrefixOf
<1>9. k = 0 => BytesOf(d) = BytesOf(b)
  BY <1>6, <1>7
<1>10. \A j \in 1 .. k : BytesOf(d)[u + j] = s[j]
  <2> SUFFICES ASSUME NEW j \in 1 .. k PROVE BytesOf(d)[u + j] = s[j]
    OBVIOUS
  <2>1. PICK x \in 1 .. u + k : x = u + j
    BY <1>3
  <2>2. PICK a : a = Plus(b.nread, x - 1) % Cap
    OBVIOUS
  <2>3. a \in 0 .. Cap - 1 /\ ((a + Width - b.nwrite) % Cap) + 1 = x - u
    <3>1. x > u
      BY <2>1
    <3> QED BY <1>1, <1>3, <2>1, <2>2, <3>1, Placed
  <2>4. x - u = j /\ j <= k
    BY <2>1
  <2>5. d.data[a] = s[j]
    BY <1>2, <2>3, <2>4, StoredData
  <2>6. BytesOf(d)[x] = d.data[a]
    BY <1>4, <1>5, <2>1, <2>2 DEF BytesOf
  <2> QED BY <2>1, <2>5, <2>6
<1> QED BY <1>2, <1>3, <1>5, <1>8, <1>9, <1>10

-----------------------------------------------------------------------------
(* The steps of the pool are steps of the queues.                          *)

(* One pipe changes.                                                       *)
LEMMA OnePipe ==
  ASSUME TypeOK, NEW i \in Slot, NEW d, pipe' = [pipe EXCEPT ![i] = d]
  PROVE  /\ Contents[i] = QueueOf(pipe[i]) /\ Contents'[i] = QueueOf(d)
         /\ Contents' = [Contents EXCEPT ![i] = QueueOf(d)]
         /\ \A j \in Slot \ {i} : Contents'[j] = Contents[j]
         /\ d.used => Live' = Live \cup {i}
         /\ ~d.used => Live' = Live \ {i}
<1>1. /\ pipe \in [Slot -> Pipes] /\ pipe'[i] = d
      /\ \A j \in Slot \ {i} : pipe'[j] = pipe[j]
  BY DEF TypeOK
<1>2. /\ Contents[i] = QueueOf(pipe[i]) /\ Contents'[i] = QueueOf(d)
      /\ \A j \in Slot \ {i} : Contents'[j] = Contents[j]
      /\ Contents' = [Contents EXCEPT ![i] = QueueOf(d)]
  <2>1. /\ \A j \in Slot : Contents[j] = QueueOf(pipe[j])
        /\ \A j \in Slot : Contents'[j] = QueueOf(pipe'[j])
        /\ Contents = [j \in Slot |-> Contents[j]] /\ Contents' = [j \in Slot |-> Contents'[j]]
    BY Abstraction
  <2>2. /\ Contents[i] = QueueOf(pipe[i]) /\ Contents'[i] = QueueOf(d)
        /\ \A j \in Slot \ {i} : Contents'[j] = Contents[j]
    BY <1>1, <2>1
  <2>3. Contents' = [Contents EXCEPT ![i] = QueueOf(d)]
    BY <2>1, <2>2
  <2> QED BY <2>2, <2>3
<1>3. (d.used => Live' = Live \cup {i}) /\ (~d.used => Live' = Live \ {i})
  BY <1>1 DEF Live
<1> QED BY <1>2, <1>3

(* No pipe changes.                                                        *)
LEMMA NoPipe ==
  ASSUME pipe' = pipe
  PROVE  Live' = Live /\ Contents' = Contents
BY Abstraction DEF Live

(* pipe_pool_alloc: a new queue, with nothing in it.                       *)
LEMMA AllocCreates ==
  ASSUME Inv, NEW p \in Task, PoolAlloc(p)
  PROVE  \E i \in Slot : /\ i \notin Live /\ Live' = Live \cup {i}
                         /\ Contents' = Contents /\ got' = got
<1>0. TypeOK /\ pipe \in [Slot -> Pipes]
  BY DEF Inv, Types, TypeOK
<1> DEFINE free == {j \in Slot : ~pipe[j].used}
<1>1. free # {} /\ free \in SUBSET Nat
  BY Constants DEF PoolAlloc
<1>2. PICK i : i = Least(free)
  OBVIOUS
<1>3. i \in free
  BY <1>1, <1>2, LeastIn
<1>4. i \in Slot /\ ~pipe[i].used
  BY <1>3
<1>5. PICK b \in Pipes : b = pipe[i]
  BY <1>0, <1>4
<1>6. PICK d : d = [b EXCEPT !.used = TRUE, !.nread = 0, !.nwrite = 0,
                            !.readopen = TRUE, !.writeopen = TRUE]
  OBVIOUS
<1>7. d \in Pipes /\ d.used /\ d.nread = 0 /\ d.nwrite = 0
  BY <1>6, PipeMade
<1>8. pipe' = [pipe EXCEPT ![i] = d] /\ got' = got
  BY <1>2, <1>5, <1>6 DEF PoolAlloc
<1>9. /\ Contents[i] = <<>> /\ Live' = Live \cup {i} /\ i \notin Live
      /\ Contents' = [Contents EXCEPT ![i] = QueueOf(d)]
  BY <1>0, <1>4, <1>7, <1>8, OnePipe DEF QueueOf, Live
<1>10. QueueOf(d) = <<>>
  <2>1. 0 \in 0 .. Width - 1 /\ Width \in Nat \ {0}
    BY Constants
  <2>2. Used(0, 0) = 0
    BY <2>1, Apart
  <2>3. BytesOf(d) \in [1 .. 0 -> Byte]
    BY <1>7, <2>2, BytesShape
  <2>4. BytesOf(d) = <<>>
    BY <2>3
  <2> QED BY <1>7, <2>4 DEF QueueOf
<1>11. Contents' = Contents
  <2>1. Contents = [j \in Slot |-> QueueOf(pipe[j])]
    BY Abstraction
  <2>2. [Contents EXCEPT ![i] = <<>>] = Contents
    BY <1>4, <1>9, <2>1
  <2> QED BY <1>9, <1>10, <2>2
<1> QED BY <1>4, <1>8, <1>9, <1>11

(* pipe_pool_free: a queue less, and its bytes are gone.                   *)
LEMMA FreeDestroys ==
  ASSUME Inv, NEW p \in Task, PoolFree(p)
  PROVE  \E i \in Slot : /\ i \in Live /\ Live' = Live \ {i}
                         /\ Contents' = [Contents EXCEPT ![i] = <<>>] /\ got' = got
<1>0. TypeOK /\ pipe \in [Slot -> Pipes] /\ jobs \in [Task -> Seq(Jobs)]
  BY DEF Inv, Types, TypeOK
<1>1. jobs[p] # <<>> /\ jobs[p] \in Seq(Jobs) /\ Head(jobs[p]).do = "pool"
  BY <1>0 DEF PoolFree
<1>2. PICK i \in Slot : /\ Head(jobs[p]) = FreePipe(i) /\ Head(jobs[p]).pi = i
                        /\ FreePipe(i) \in Range(jobs[p])
  BY <1>1, NextJob
<1>3. pipe[i].used
  <2>1. p \in Releasing(i)
    BY <1>2 DEF Releasing
  <2> QED BY <2>1 DEF Inv, Pool, BeingFreed
<1>4. PICK b \in Pipes : b = pipe[i]
  BY <1>0
<1>5. PICK d : d = [b EXCEPT !.used = FALSE]
  OBVIOUS
<1>6. ~d.used
  BY <1>5, PipeFreed
<1>7. pipe' = [pipe EXCEPT ![i] = d] /\ got' = got
  BY <1>2, <1>4, <1>5 DEF PoolFree
<1>8. Live' = Live \ {i} /\ Contents' = [Contents EXCEPT ![i] = QueueOf(d)] /\ i \in Live
  BY <1>0, <1>3, <1>6, <1>7, OnePipe DEF Live
<1> QED BY <1>6, <1>7, <1>8 DEF QueueOf

(* pipe_read: bytes from the front, and none only if there are none.       *)
LEMMA ReadGets ==
  ASSUME Inv, NEW p \in Task, ReadReturns(p)
  PROVE  \E i \in Slot :
           /\ i \in Live /\ Live' = Live
           /\ \A o \in Task \ {p} : got'[o] = got[o]
           /\ Contents[i] = got'[p] \o Contents'[i]
           /\ got'[p] = <<>> => Contents[i] = <<>>
           /\ \A j \in Slot \ {i} : Contents'[j] = Contents[j]
           /\ Used(pipe'[i].nread, pipe'[i].nwrite) <= Used(pipe[i].nread, pipe[i].nwrite)
           /\ \A j \in Slot \ {i} : pipe'[j] = pipe[j]
<1>0. /\ call \in [Task -> Calls] /\ TypeOK /\ got \in [Task -> Seq(Byte)]
      /\ pipe \in [Slot -> Pipes]
  BY DEF Inv, Types, TypeOK
<1>1. call[p].at = "read" /\ call[p].pi \in Slot /\ call[p].n \in Nat \ {0}
  BY <1>0, Shapes, Constants DEF Reads, ReadReturns
<1>2. PICK i \in Slot, k \in {Smaller(call[p].n, Size(call[p].pi))} :
           /\ i = call[p].pi /\ k = Smaller(call[p].n, Size(i))
           /\ got' = [got EXCEPT ![p] = Bytes(i, k)]
           /\ pipe' = [pipe EXCEPT ![i].nread = Plus(@, k)]
  BY <1>1 DEF ReadReturns
<1>3. PICK b \in Pipes : b = pipe[i]
  BY <1>0
<1>4. b.nread \in 0 .. Width - 1 /\ b.nwrite \in 0 .. Width - 1 /\ Size(i) = Used(b.nread, b.nwrite)
  BY <1>3, PipeShape DEF Size, Used
<1>5. PICK u \in Nat : u = Used(b.nread, b.nwrite) /\ u < Width
  <2>1. PICK x : x = Used(b.nread, b.nwrite)
    OBVIOUS
  <2>2. x \in 0 .. Width - 1 /\ Width \in Nat
    BY <1>4, <2>1, Ahead, Constants
  <2>3. x \in Nat /\ x < Width
    BY <2>2
  <2> QED BY <2>1, <2>3
<1>6. k \in Nat /\ k <= u /\ (k = 0 => u = 0) /\ k \in 0 .. Width - 1
  <2>1. PICK n \in Nat \ {0} : n = call[p].n
    BY <1>1
  <2>2. k = IF n < u THEN n ELSE u
    BY <1>2, <1>4, <1>5, <2>1 DEF Smaller
  <2> QED BY <1>5, <2>2, Constants
<1>7. PICK d : d = [b EXCEPT !.nread = Plus(b.nread, k)]
  OBVIOUS
<1>8. /\ d \in Pipes /\ d.used = b.used /\ d.nread = Plus(b.nread, k) /\ d.nwrite = b.nwrite
      /\ d.data = b.data
  <2>1. Plus(b.nread, k) \in 0 .. Width - 1
    BY <1>4, <1>6, Advance
  <2> QED BY <1>7, <2>1, PipeRead
<1>9. pipe' = [pipe EXCEPT ![i] = d]
  BY <1>2, <1>3, <1>7
<1>10. b.used
  <2>1. PICK f \in fds[p] : file[f].pipe = i
    BY <1>1, <1>2 DEF Inv, Calling
  <2>2. f \in FilesOf(i)
    BY <1>0, <2>1 DEF TypeOK, FilesOf
  <2> QED BY <1>3, <2>2 DEF Inv, Pool, EndOwned
<1>11. /\ Contents[i] = BytesOf(b) /\ Contents'[i] = BytesOf(d) /\ Live' = Live \cup {i}
       /\ \A j \in Slot \ {i} : Contents'[j] = Contents[j]
  BY <1>0, <1>3, <1>8, <1>9, <1>10, OnePipe DEF QueueOf
<1>12. Live' = Live /\ i \in Live
  BY <1>3, <1>10, <1>11 DEF Live
<1>13. /\ Used(d.nread, d.nwrite) = u - k
       /\ BytesOf(b) = [j \in 1 .. k |-> b.data[Plus(b.nread, j - 1) % Cap]] \o BytesOf(d)
  BY <1>5, <1>6, <1>8, Taken
<1>14. got'[p] = [j \in 1 .. k |-> b.data[Plus(b.nread, j - 1) % Cap]]
  BY <1>0, <1>2, <1>3 DEF Bytes
<1>15. got'[p] = <<>> => Contents[i] = <<>>
  <2> SUFFICES ASSUME got'[p] = <<>> PROVE Contents[i] = <<>>
    OBVIOUS
  <2>1. Bytes(i, k) = <<>> /\ Len(Bytes(i, k)) = k
    <3>1. TypeOK
      BY <1>0
    <3> QED BY <1>0, <1>2, <1>6, <3>1, BytesType
  <2>2. u = 0
    BY <1>6, <2>1
  <2>3. BytesOf(b) \in [1 .. 0 -> Byte]
    BY <1>5, <2>2, BytesShape
  <2> QED BY <1>11, <2>3
<1>16. /\ \A o \in Task \ {p} : got'[o] = got[o]
       /\ \A j \in Slot \ {i} : pipe'[j] = pipe[j]
       /\ pipe'[i] = d
  BY <1>0, <1>2, <1>9
<1>17. Used(pipe'[i].nread, pipe'[i].nwrite) <= Used(pipe[i].nread, pipe[i].nwrite)
  BY <1>3, <1>5, <1>6, <1>13, <1>16
<1> QED BY <1>11, <1>12, <1>13, <1>14, <1>15, <1>16, <1>17

(* pipe_write: more bytes at the end, never more than Cap, or no change.   *)
LEMMA WritePutsBytes ==
  ASSUME Inv, Bounded, NEW p \in Task, WritePuts(p)
  PROVE  \E i \in Slot :
           /\ i \in Live /\ Live' = Live /\ got' = got
           /\ \/ Contents' = Contents
              \/ /\ Len(Contents[i]) < Len(Contents'[i]) /\ Len(Contents'[i]) <= Cap
                 /\ IsPrefix(Contents[i], Contents'[i])
           /\ \A j \in Slot \ {i} : Contents'[j] = Contents[j]
           /\ Used(pipe'[i].nread, pipe'[i].nwrite) <= Cap
           /\ \A j \in Slot \ {i} : pipe'[j] = pipe[j]
<1>0. /\ call \in [Task -> Calls] /\ TypeOK /\ Unfinished /\ pipe \in [Slot -> Pipes]
  BY DEF Inv, Types, TypeOK
<1>1. /\ call[p].at = "write" /\ call[p].pi \in Slot /\ call[p].w \in Nat
      /\ call[p].n \in Nat /\ call[p].total \in Nat /\ got' = got
  BY <1>0, Shapes, Constants DEF Writes, WritePuts
<1>2. PICK i \in Slot : i = call[p].pi
  BY <1>1
<1>3. PICK b \in Pipes : b = pipe[i]
  BY <1>0
<1>4. b.nread \in 0 .. Width - 1 /\ b.nwrite \in 0 .. Width - 1 /\ Room(i) = Left(b.nread, b.nwrite)
  BY <1>3, PipeShape DEF Room, Left
<1>5. PICK u \in Nat : u = Used(b.nread, b.nwrite) /\ u <= Cap /\ Room(i) = Cap - u
  <2>1. PICK x : x = Used(b.nread, b.nwrite)
    OBVIOUS
  <2>2. x \in 0 .. Width - 1 /\ Width \in Nat /\ x <= Cap
    BY <1>3, <1>4, <2>1, Ahead, Constants DEF Bounded
  <2>3. 0 \in Nat /\ Left(b.nread, b.nwrite) = Cap - x
    BY <1>4, <2>1, <2>2, Moves
  <2> QED BY <1>4, <2>1, <2>2, <2>3
<1>6. PICK k : k = Smaller(Chunk(call[p]) - call[p].w, Room(call[p].pi))
  OBVIOUS
<1>7. /\ k \in Nat
      /\ \E s \in [1 .. k -> Byte] : pipe' = [pipe EXCEPT ![i] = Stored(pipe[i], s)]
  BY <1>0, <1>2, <1>6, WriterMoves
<1>8. u + k <= Cap
  <2>1. PICK x : x = Chunk(call[p]) - call[p].w
    OBVIOUS
  <2>2. x \in Int
    <3>1. Chunk(call[p]) \in Int
      BY <1>1, Constants DEF Chunk, Smaller
    <3> QED BY <1>1, <2>1, <3>1
  <2>3. k = IF x < Cap - u THEN x ELSE Cap - u
    BY <1>2, <1>5, <1>6, <2>1 DEF Smaller
  <2> QED BY <1>5, <2>2, <2>3, Constants
<1>9. PICK s \in [1 .. k -> Byte] : pipe' = [pipe EXCEPT ![i] = Stored(b, s)]
  BY <1>3, <1>7
<1>10. PICK d \in Pipes : d = Stored(b, s)
  BY <1>0, <1>3, <1>7, StoredType
<1>11. b.used /\ d.used
  <2>1. PICK f \in fds[p] : file[f].pipe = i
    BY <1>1, <1>2 DEF Inv, Calling
  <2>2. f \in FilesOf(i)
    BY <1>0, <2>1 DEF TypeOK, FilesOf
  <2>3. b.used
    BY <1>3, <2>2 DEF Inv, Pool, EndOwned
  <2> QED BY <1>7, <1>10, <2>3, StoredData
<1>12. /\ Used(d.nread, d.nwrite) = u + k
       /\ IsPrefix(BytesOf(b), BytesOf(d))
       /\ Len(BytesOf(b)) = u /\ Len(BytesOf(d)) = u + k
       /\ k = 0 => BytesOf(d) = BytesOf(b)
  BY <1>5, <1>7, <1>8, <1>10, Added
<1>13. pipe' = [pipe EXCEPT ![i] = d]
  BY <1>9, <1>10
<1>14. /\ Contents[i] = BytesOf(b) /\ Contents'[i] = BytesOf(d) /\ Live' = Live \cup {i}
       /\ Contents' = [Contents EXCEPT ![i] = BytesOf(d)]
       /\ \A j \in Slot \ {i} : Contents'[j] = Contents[j]
  BY <1>0, <1>3, <1>11, <1>13, OnePipe DEF QueueOf
<1>15. Live' = Live /\ i \in Live
  BY <1>3, <1>11, <1>14 DEF Live
<1>16. /\ pipe'[i] = d /\ \A j \in Slot \ {i} : pipe'[j] = pipe[j]
  BY <1>0, <1>13
<1>17. \/ Contents' = Contents
       \/ /\ Len(Contents[i]) < Len(Contents'[i]) /\ Len(Contents'[i]) <= Cap
          /\ IsPrefix(Contents[i], Contents'[i])
  <2>1. CASE k = 0
    <3>1. [Contents EXCEPT ![i] = Contents[i]] = Contents
      BY Abstraction
    <3> QED BY <1>12, <1>14, <2>1, <3>1
  <2>2. CASE k # 0
    <3>1. u < u + k
      BY <1>7, <2>2
    <3> QED BY <1>8, <1>12, <1>14, <3>1
  <2> QED BY <2>1, <2>2
<1> QED BY <1>1, <1>8, <1>12, <1>14, <1>15, <1>16, <1>17

(* The same as PipeShut, for all values of the ends.                       *)
LEMMA EndsShut ==
  \A b \in Pipes : \A x, y \in BOOLEAN :
    LET e == [b EXCEPT !.writeopen = x, !.readopen = y]
    IN  e.used = b.used /\ e.nread = b.nread /\ e.nwrite = b.nwrite /\ e.data = b.data
BY DEF Pipes

(* pipe_close of an end takes no bytes away.                               *)
LEMMA EndKeepsBytes ==
  ASSUME Inv, NEW p \in Task, End(p)
  PROVE  /\ Live' = Live /\ Contents' = Contents /\ got' = got
         /\ \A i \in Slot : pipe'[i].nread = pipe[i].nread /\ pipe'[i].nwrite = pipe[i].nwrite
<1>0. TypeOK /\ pipe \in [Slot -> Pipes] /\ jobs \in [Task -> Seq(Jobs)]
  BY DEF Inv, Types, TypeOK
<1>1. jobs[p] # <<>> /\ jobs[p] \in Seq(Jobs) /\ Head(jobs[p]).do = "end"
  BY <1>0 DEF End, Ends
<1>2. PICK i \in Slot : Head(jobs[p]).pi = i
  BY <1>1, NextJob
<1>3. PICK wr \in BOOLEAN : wr = Head(jobs[p]).wr
  BY <1>1, NextJob
<1>4. PICK b \in Pipes : b = pipe[i]
  BY <1>0
<1>5. PICK d : d = [b EXCEPT !.writeopen = b.writeopen /\ ~wr, !.readopen = b.readopen /\ wr]
  OBVIOUS
<1>6. pipe' = [pipe EXCEPT ![i] = d] /\ got' = got
  BY <1>2, <1>3, <1>4, <1>5 DEF End, Ends
<1>7. d.used = b.used /\ d.nread = b.nread /\ d.nwrite = b.nwrite /\ d.data = b.data
  <2>1. (b.writeopen /\ ~wr) \in BOOLEAN /\ (b.readopen /\ wr) \in BOOLEAN
    BY Zenon
  <2>2. \A x, y \in BOOLEAN :
          LET e == [b EXCEPT !.writeopen = x, !.readopen = y]
          IN  e.used = b.used /\ e.nread = b.nread /\ e.nwrite = b.nwrite /\ e.data = b.data
    BY <1>4, EndsShut, Zenon
  <2> QED BY <1>5, <2>1, <2>2, Zenon
<1>8. /\ \A j \in Slot : pipe'[j].used = pipe[j].used /\ pipe'[j].data = pipe[j].data
      /\ \A j \in Slot : pipe'[j].nread = pipe[j].nread /\ pipe'[j].nwrite = pipe[j].nwrite
  BY <1>0, <1>4, <1>6, <1>7
<1>9. \A j \in Slot : QueueOf(pipe'[j]) = QueueOf(pipe[j])
  BY <1>8 DEF QueueOf, BytesOf
<1> QED BY <1>6, <1>8, <1>9, Abstraction DEF Live

(* No step puts more into a pipe than there is room for.                   *)
LEMMA BoundedStep ==
  ASSUME Inv, Bounded, [Next]_vars
  PROVE  Bounded'
<1>0. TypeOK /\ pipe \in [Slot -> Pipes]
  BY DEF Inv, Types, TypeOK
<1>1. ASSUME pipe' = pipe PROVE Bounded'
  BY <1>1 DEF Bounded
<1>2. ASSUME NEW p \in Task, PoolAlloc(p) PROVE Bounded'
  <2> DEFINE free == {j \in Slot : ~pipe[j].used}
  <2>1. free # {} /\ free \in SUBSET Nat
    BY <1>2, Constants DEF PoolAlloc
  <2>2. PICK i : i = Least(free)
    OBVIOUS
  <2>3. i \in Slot
    BY <2>1, <2>2, LeastIn
  <2>4. PICK b \in Pipes : b = pipe[i]
    BY <1>0, <2>3
  <2>5. PICK d : d = [b EXCEPT !.used = TRUE, !.nread = 0, !.nwrite = 0,
                               !.readopen = TRUE, !.writeopen = TRUE]
    OBVIOUS
  <2>6. d.nread = 0 /\ d.nwrite = 0
    BY <2>5, PipeMade
  <2>7. pipe' = [pipe EXCEPT ![i] = d]
    BY <1>2, <2>2, <2>4, <2>5 DEF PoolAlloc
  <2>8. Used(0, 0) = 0 /\ 0 <= Cap
    <3>1. 0 \in 0 .. Width - 1 /\ Width \in Nat \ {0} /\ Cap \in Nat
      BY Constants
    <3> QED BY <3>1, Apart
  <2>9. /\ pipe'[i] = d /\ \A j \in Slot \ {i} : pipe'[j] = pipe[j]
    BY <1>0, <2>3, <2>7
  <2> QED BY <2>6, <2>8, <2>9 DEF Bounded
<1>3. ASSUME NEW p \in Task, ReadReturns(p) PROVE Bounded'
  <2>1. PICK i \in Slot :
           /\ Used(pipe'[i].nread, pipe'[i].nwrite) <= Used(pipe[i].nread, pipe[i].nwrite)
           /\ \A j \in Slot \ {i} : pipe'[j] = pipe[j]
    BY <1>3, ReadGets
  <2>2. /\ pipe[i].nread \in 0 .. Width - 1 /\ pipe[i].nwrite \in 0 .. Width - 1
        /\ pipe'[i] \in Pipes
    <3>1. TypeOK'
      BY <1>3, InvStep DEF Inv, Types
    <3> QED BY <1>0, <3>1, PipeShape DEF TypeOK
  <2>3. pipe'[i].nread \in 0 .. Width - 1 /\ pipe'[i].nwrite \in 0 .. Width - 1
    BY <2>2, PipeShape
  <2>4. PICK x, y : /\ x = Used(pipe'[i].nread, pipe'[i].nwrite)
                    /\ y = Used(pipe[i].nread, pipe[i].nwrite)
    OBVIOUS
  <2>5. x \in Int /\ y \in Int /\ x <= y /\ y <= Cap /\ Cap \in Nat
    <3>1. x \in 0 .. Width - 1
      BY <2>3, <2>4, Ahead
    <3>2. y \in 0 .. Width - 1
      BY <2>2, <2>4, Ahead
    <3>3. x <= y
      BY <2>1, <2>4
    <3>4. y <= Cap
      BY <2>4 DEF Bounded
    <3> QED BY <3>1, <3>2, <3>3, <3>4, Constants
  <2>6. Used(pipe'[i].nread, pipe'[i].nwrite) <= Cap
    BY <2>4, <2>5
  <2> QED BY <2>1, <2>6 DEF Bounded
<1>4. ASSUME NEW p \in Task, WritePuts(p) PROVE Bounded'
  <2>1. PICK i \in Slot : /\ Used(pipe'[i].nread, pipe'[i].nwrite) <= Cap
                          /\ \A j \in Slot \ {i} : pipe'[j] = pipe[j]
    BY <1>4, WritePutsBytes
  <2> QED BY <2>1 DEF Bounded
<1>5. ASSUME NEW p \in Task, End(p) PROVE Bounded'
  BY <1>5, EndKeepsBytes DEF Bounded
<1>6. ASSUME NEW p \in Task, PoolFree(p) PROVE Bounded'
  <2>1. jobs[p] # <<>> /\ jobs[p] \in Seq(Jobs) /\ Head(jobs[p]).do = "pool"
    BY <1>0, <1>6 DEF PoolFree, TypeOK
  <2>2. PICK i \in Slot : Head(jobs[p]).pi = i
    BY <2>1, NextJob
  <2>3. PICK b \in Pipes : b = pipe[i]
    BY <1>0
  <2>4. PICK d : d = [b EXCEPT !.used = FALSE]
    OBVIOUS
  <2>5. d.nread = b.nread /\ d.nwrite = b.nwrite
    BY <2>4, PipeFreed
  <2>6. pipe' = [pipe EXCEPT ![i] = d]
    BY <1>6, <2>2, <2>3, <2>4 DEF PoolFree
  <2>7. \A j \in Slot : pipe'[j].nread = pipe[j].nread /\ pipe'[j].nwrite = pipe[j].nwrite
    BY <1>0, <2>3, <2>5, <2>6
  <2> QED BY <2>7 DEF Bounded
<1>7. ASSUME NEW p \in Task,
             \/ ReadFile(p) \/ WriteFile(p) \/ Install(p) \/ GiveUp(p) \/ ReadSleeps(p)
             \/ WriteBroken(p) \/ TimerWakes(p) \/ DropRef(p) \/ Die(p)
      PROVE  pipe' = pipe
  BY <1>7, Zenon DEF ReadFile, WriteFile, Install, GiveUp, ReadSleeps, WriteBroken, TimerWakes,
                     DropRef, Die
<1>8. ASSUME NEW p \in Task, NEW f \in fds[p],
             Close(p, f) \/ \E n \in 1 .. MaxLen : StartRead(p, f, n) \/ StartWrite(p, f, n)
      PROVE  pipe' = pipe
  BY <1>8, Zenon DEF Close, StartRead, StartWrite
<1>9. ASSUME NEW p \in Task, NEW c \in Task, Fork(p, c) PROVE pipe' = pipe
  BY <1>9 DEF Fork
<1>10. ASSUME UNCHANGED vars PROVE pipe' = pipe
  BY <1>10 DEF vars
<1>11. CASE pipe' = pipe
  BY <1>1, <1>11
<1> QED
  BY Zenon, <1>1, <1>2, <1>3, <1>4, <1>5, <1>6, <1>7, <1>8, <1>9, <1>10 DEF Next

(* At the start no pipe is in use and none holds a byte.                   *)
LEMMA FifoInit ==
  ASSUME Init
  PROVE  Fifo!SInit /\ Bounded
<1>1. PICK zero \in Byte :
        pipe = [i \in Slot |->
                 [used |-> FALSE, nread |-> 0, nwrite |-> 0,
                  readopen |-> FALSE, writeopen |-> FALSE,
                  data |-> [j \in 0 .. Cap - 1 |-> zero]]]
  BY DEF Init
<1>2. \A i \in Slot : ~pipe[i].used /\ pipe[i].nread = 0 /\ pipe[i].nwrite = 0
  BY <1>1
<1>3. {i \in Slot : pipe[i].used} = {}
  BY <1>2
<1>4. Contents = [i \in Slot |-> <<>>]
  BY <1>2 DEF Contents
<1>5. got = [p \in Task |-> <<>>]
  BY DEF Init
<1>6. Used(0, 0) = 0 /\ 0 <= Cap
  <2>1. 0 \in 0 .. Width - 1 /\ Width \in Nat \ {0} /\ Cap \in Nat
    BY Constants
  <2> QED BY <2>1, Apart
<1>7. Bounded
  BY <1>2, <1>6 DEF Bounded
<1> QED BY <1>3, <1>4, <1>5, <1>7 DEF Fifo!SInit

(* The calls that leave the pipes and what was read alone.                 *)
LEMMA LeavesPipes ==
  ASSUME NEW p \in Task,
         \/ ReadFile(p) \/ WriteFile(p) \/ Install(p) \/ GiveUp(p) \/ ReadSleeps(p)
         \/ WriteBroken(p) \/ TimerWakes(p) \/ DropRef(p) \/ Die(p)
  PROVE  pipe' = pipe /\ got' = got
BY Zenon DEF ReadFile, WriteFile, Install, GiveUp, ReadSleeps, WriteBroken, TimerWakes,
             DropRef, Die

(* Every step of the pool is a step of the queues, or hidden from them.    *)
LEMMA FifoStep == Inv /\ Bounded /\ [Next]_vars => [Fifo!SNext]_(Fifo!svars)
<1> SUFFICES ASSUME Inv, Bounded, [Next]_vars
             PROVE  Fifo!SNext \/ (Live' = Live /\ Contents' = Contents /\ got' = got)
  BY Zenon DEF Fifo!svars, Live
<1>0. ASSUME pipe' = pipe, got' = got
      PROVE  Live' = Live /\ Contents' = Contents /\ got' = got
  BY <1>0, NoPipe
<1>1. ASSUME NEW p \in Task, PoolAlloc(p) PROVE Fifo!SNext
  <2>1. PICK i \in Slot : /\ i \notin Live /\ Live' = Live \cup {i}
                          /\ Contents' = Contents /\ got' = got
    BY <1>1, AllocCreates
  <2>2. Fifo!Create(i)
    BY <2>1 DEF Fifo!Create, Live
  <2> QED BY <2>2 DEF Fifo!SNext
<1>2. ASSUME NEW p \in Task, PoolFree(p) PROVE Fifo!SNext
  <2>1. PICK i \in Slot : /\ i \in Live /\ Live' = Live \ {i}
                          /\ Contents' = [Contents EXCEPT ![i] = <<>>] /\ got' = got
    BY <1>2, FreeDestroys
  <2>2. Fifo!Destroy(i)
    BY <2>1 DEF Fifo!Destroy, Live
  <2> QED BY <2>2 DEF Fifo!SNext
<1>3. ASSUME NEW p \in Task, ReadReturns(p) PROVE Fifo!SNext
  <2>1. PICK i \in Slot :
           /\ i \in Live /\ Live' = Live
           /\ \A o \in Task \ {p} : got'[o] = got[o]
           /\ Contents[i] = got'[p] \o Contents'[i]
           /\ got'[p] = <<>> => Contents[i] = <<>>
           /\ \A j \in Slot \ {i} : Contents'[j] = Contents[j]
    BY <1>3, ReadGets
  <2>2. Fifo!Get(i, p)
    BY <2>1, Zenon DEF Fifo!Get, Live
  <2> QED BY <2>2 DEF Fifo!SNext
<1>4. ASSUME NEW p \in Task, WritePuts(p)
      PROVE  Fifo!SNext \/ (Live' = Live /\ Contents' = Contents /\ got' = got)
  <2>1. PICK i \in Slot :
           /\ i \in Live /\ Live' = Live /\ got' = got
           /\ \/ Contents' = Contents
              \/ /\ Len(Contents[i]) < Len(Contents'[i]) /\ Len(Contents'[i]) <= Cap
                 /\ IsPrefix(Contents[i], Contents'[i])
           /\ \A j \in Slot \ {i} : Contents'[j] = Contents[j]
    BY <1>4, WritePutsBytes
  <2>2. CASE Contents' = Contents
    BY <2>1, <2>2
  <2>3. CASE Contents' # Contents
    <3>1. Fifo!Put(i)
      BY <2>1, <2>3, Zenon DEF Fifo!Put, Live, IsPrefix, Fifo!IsPrefix
    <3> QED BY <3>1 DEF Fifo!SNext
  <2> QED BY <2>2, <2>3
<1>5. ASSUME NEW p \in Task, End(p)
      PROVE  Live' = Live /\ Contents' = Contents /\ got' = got
  BY <1>5, EndKeepsBytes
<1>6. ASSUME NEW p \in Task,
             \/ ReadFile(p) \/ WriteFile(p) \/ Install(p) \/ GiveUp(p) \/ ReadSleeps(p)
             \/ WriteBroken(p) \/ TimerWakes(p) \/ DropRef(p) \/ Die(p)
      PROVE  pipe' = pipe /\ got' = got
  BY <1>6, LeavesPipes
<1>7. ASSUME NEW p \in Task, pipe' = pipe, got' = [got EXCEPT ![p] = <<>>] PROVE Fifo!SNext
  <2>1. Live' = Live /\ Contents' = Contents
    BY <1>7, NoPipe
  <2>2. Fifo!Begin(p)
    BY <1>7, <2>1 DEF Fifo!Begin, Live
  <2> QED BY <2>2 DEF Fifo!SNext
<1>8. ASSUME NEW p \in Task, NEW f \in fds[p],
             \/ Close(p, f)
             \/ \E n \in 1 .. MaxLen : StartRead(p, f, n) \/ StartWrite(p, f, n)
      PROVE  Fifo!SNext \/ (Live' = Live /\ Contents' = Contents /\ got' = got)
  <2>1. CASE Close(p, f)
    BY <1>0, <2>1, Zenon DEF Close
  <2>2. ASSUME NEW n \in 1 .. MaxLen, StartRead(p, f, n) PROVE Fifo!SNext
    BY <1>7, <2>2, Zenon DEF StartRead
  <2>3. ASSUME NEW n \in 1 .. MaxLen, StartWrite(p, f, n) PROVE pipe' = pipe /\ got' = got
    BY <2>3, Zenon DEF StartWrite
  <2> QED BY <1>0, <1>8, <2>1, <2>2, <2>3, Zenon
<1>9. ASSUME NEW p \in Task, NEW c \in Task, Fork(p, c) PROVE Fifo!SNext
  BY <1>7, <1>9, Zenon DEF Fork
<1>10. ASSUME UNCHANGED vars PROVE pipe' = pipe /\ got' = got
  BY <1>10 DEF vars
<1> QED
  BY Zenon, <1>0, <1>1, <1>2, <1>3, <1>4, <1>5, <1>6, <1>8, <1>9, <1>10 DEF Next

(* The pool implements bounded queues of bytes: no byte is lost, repeated  *)
(* or overtaken between a write and the read that returns it, a read       *)
(* returns nothing only when there is nothing, also when the counters wrap *)
(* and when a slot is used again.                                          *)
THEOREM FifoRefined == Spec => IsFifo
<1>1. Init => Inv
  BY InvInit
<1>2. Inv /\ [Next]_vars => Inv'
  BY InvStep
<1>3. Init => Fifo!SInit /\ Bounded
  BY FifoInit
<1>4. Inv /\ Bounded /\ [Next]_vars => Bounded'
  BY BoundedStep
<1> QED BY <1>1, <1>2, <1>3, <1>4, FifoStep, PTL DEF Spec, IsFifo, Fifo!SSpec

=============================================================================
