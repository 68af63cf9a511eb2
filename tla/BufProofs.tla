----------------------------- MODULE BufProofs -----------------------------
(***************************************************************************)
(* The buffer cache and its driver for any number of processes, buffers,   *)
(* blocks, descriptors and pages: types, the books of the cache, that      *)
(* nothing comes to a stop, and that the cache implements the block store. *)
(*                                                                         *)
(* The invariant says who has which sleep lock and is in the driver for    *)
(* what (Locked, Synced), that descriptors, rings and busy buffers agree   *)
(* (Chains, Spread, Heads), and where the contents of a block are          *)
(* (Contents).  Each part is shown to survive every action of Next, given  *)
(* all of them before it.                                                  *)
(***************************************************************************)
EXTENDS BufCache, FiniteSetTheorems, SequenceTheorems, WellFoundedInduction, TLAPS

(* A process holds the sleep lock of its buffer from Lock to Unlock.       *)
Holds(p) == call[p].at \in {"check", "read", "have", "write"}
Locked == \A p \in Proc, n \in Buf : slk[n] = p <=> Holds(p) /\ call[p].buf = n

(* A process is in the driver exactly while it reads or writes its block.  *)
InDriver(p) == io[p].at # "out"
Waits(p) == io[p].at \in {"wait", "dozing"}
Synced ==
  \A p \in Proc :
    /\ InDriver(p) <=> call[p].at \in {"read", "write"}
    /\ InDriver(p) =>
         io[p].req = [buf |-> call[p].buf, blk |-> call[p].blk, wr |-> call[p].at = "write"]

(* A request the device or the interrupt has still to see is that of a     *)
(* process that waits, and keeps its buffer busy.                          *)
Heads ==
  /\ avail \cap Seen = {}
  /\ \A h \in avail \cup Seen : \E p \in Proc : Waits(p) /\ io[p].chain[1] = h
  /\ \A p \in Proc : Waits(p) =>
       (io[p].req.buf \in busy <=> io[p].chain[1] \in avail \cup Seen)

(* A chain has three different descriptors.                                *)
Spread ==
  \A p \in Proc : Waits(p) =>
    /\ io[p].chain[1] # io[p].chain[2]
    /\ io[p].chain[1] # io[p].chain[3]
    /\ io[p].chain[2] # io[p].chain[3]

(* What is valid is what the disk holds, but for a write the device has    *)
(* still to do; a read that it has done has brought what the disk holds.   *)
Ahead(p) == call[p].at = "write" /\ (Waits(p) => io[p].chain[1] \in avail)
Contents ==
  /\ \A p \in Proc :
       /\ call[p].at \in {"have", "write"} => valid[call[p].buf]
       /\ call[p].at = "read" =>
            /\ ~valid[call[p].buf]
            /\ Waits(p) /\ io[p].chain[1] \notin avail =>
                 data[call[p].buf] = disk[call[p].blk]
  /\ \A n \in Buf :
       valid[n] /\ data[n] # disk[block[n]] =>
         \E p \in Proc : Ahead(p) /\ call[p].buf = n

(* A list holds a buffer once.                                             *)
Distinct(list) == \A i, j \in 1 .. Len(list) : list[i] = list[j] => i = j
Once == Distinct(active) /\ Distinct(inactive)

(* RemoveFirst takes exactly n out of a list that has it once.             *)
LEMMA RemoveFacts ==
  ASSUME NEW list \in Seq(Buf), Constants, Distinct(list), NEW n \in Buf,
         NEW i \in 1 .. Len(list), list[i] = n
  PROVE  LET r == Without(list, n) IN
         /\ r \in Seq(Buf)
         /\ Len(r) = Len(list) - 1
         /\ \A j \in 1 .. Len(r) : r[j] = IF j < i THEN list[j] ELSE list[j + 1]
<1> DEFINE I == {j \in 1 .. Len(list) : list[j] = n}
<1>1. I = {i}
  BY DEF Distinct
<1>2. Min(I) = i
  BY <1>1 DEF Min
<1>3. Without(list, n) = RemoveAt(list, i)
  BY <1>1, <1>2 DEF Without, RemoveFirst, SelectInSeq
<1> DEFINE a == SubSeq(list, 1, i - 1)
           b == SubSeq(list, i + 1, Len(list))
<1>4. a \in Seq(Buf) /\ Len(a) = i - 1 /\ \A j \in 1 .. i - 1 : a[j] = list[j]
  BY SubSeqProperties
<1>5. b \in Seq(Buf) /\ Len(b) = Len(list) - i
      /\ \A j \in 1 .. Len(list) - i : b[j] = list[i + j]
  <2>1. CASE i < Len(list)
    BY <2>1, SubSeqProperties
  <2>2. CASE i = Len(list)
    BY <2>2
  <2> QED BY <2>1, <2>2
<1> HIDE DEF a, b
<1>6. /\ a \o b \in Seq(Buf) /\ Len(a \o b) = Len(list) - 1
      /\ \A j \in 1 .. Len(list) - 1 :
           (a \o b)[j] = IF j < i THEN a[j] ELSE b[j - i + 1]
  <2>1. a \o b \in Seq(Buf) /\ Len(a \o b) = Len(a) + Len(b)
    BY <1>4, <1>5, ConcatProperties
  <2>2. \A j \in 1 .. Len(a) + Len(b) :
           (a \o b)[j] = IF j <= Len(a) THEN a[j] ELSE b[j - Len(a)]
    BY <1>4, <1>5, ConcatProperties
  <2> QED BY <1>4, <1>5, <2>1, <2>2
<1>7. Without(list, n) = a \o b
  BY <1>3 DEF RemoveAt, a, b
<1>8. ASSUME NEW j \in 1 .. Len(list) - 1
      PROVE  (a \o b)[j] = IF j < i THEN list[j] ELSE list[j + 1]
  <2>1. CASE j < i
    BY <1>4, <1>6, <2>1
  <2>2. CASE j >= i
    <3>1. PICK k \in 1 .. Len(list) - i : k = j - i + 1 /\ i + k = j + 1
      BY <2>2
    <3>2. (a \o b)[j] = b[k]
      BY <1>6, <2>2, <3>1
    <3>3. b[k] = list[i + k]
      BY <1>5, <3>1
    <3>4. b[k] = list[j + 1]
      BY <3>1, <3>3
    <3>5. ~(j < i)
      BY <2>2
    <3> QED BY <3>2, <3>4, <3>5, Zenon
  <2>3. j < i \/ j >= i
    OBVIOUS
  <2> QED BY <2>1, <2>2, <2>3, Zenon
<1> QED BY <1>6, <1>7, <1>8

(* n stands somewhere in a list.                                           *)
In(list, n) == \E i \in 1 .. Len(list) : list[i] = n

(* A list without n.                                                       *)
LEMMA WithoutKeeps ==
  ASSUME NEW list \in Seq(Buf), Constants, Distinct(list), NEW n \in Buf
  PROVE  /\ Without(list, n) \in Seq(Buf)
         /\ Distinct(Without(list, n))
         /\ \A m : In(Without(list, n), m) <=> In(list, m) /\ m # n
         /\ Len(Without(list, n)) = Len(list) - (IF In(list, n) THEN 1 ELSE 0)
<1> DEFINE r == Without(list, n)
<1>1. CASE ~In(list, n)
  BY <1>1 DEF In, Without, RemoveFirst
<1>2. CASE In(list, n)
  <2>1. PICK i \in 1 .. Len(list) : list[i] = n
    BY <1>2 DEF In
  <2>2. /\ r \in Seq(Buf)
        /\ Len(r) = Len(list) - 1
        /\ \A j \in 1 .. Len(r) : r[j] = IF j < i THEN list[j] ELSE list[j + 1]
    BY <2>1, RemoveFacts
  <2> HIDE DEF r
  <2>3. Distinct(r)
    BY <2>1, <2>2 DEF Distinct
  <2>4. ASSUME NEW m, In(r, m) PROVE In(list, m) /\ m # n
    BY <2>1, <2>2, <2>4 DEF Distinct, In
  <2>5. ASSUME NEW m, In(list, m), m # n PROVE In(r, m)
    <3>1. PICK j \in 1 .. Len(list) : list[j] = m
      BY <2>5 DEF In
    <3>2. CASE j < i
      BY <2>1, <2>2, <3>1, <3>2 DEF In
    <3>3. CASE j > i
      <4>1. j - 1 \in 1 .. Len(r) /\ r[j - 1] = m
        BY <2>1, <2>2, <3>1, <3>3
      <4> QED BY <4>1 DEF In
    <3> QED BY <2>1, <2>5, <3>1, <3>2, <3>3
  <2> QED BY <1>2, <2>2, <2>3, <2>4, <2>5 DEF r
<1> QED BY <1>1, <1>2

(* A list with n, which it has not, at its head or its tail.               *)
LEMMA WithKeeps ==
  ASSUME NEW list \in Seq(Buf), Constants, Distinct(list), NEW n \in Buf, ~In(list, n),
         NEW r, r = <<n>> \o list \/ r = Append(list, n)
  PROVE  /\ r \in Seq(Buf)
         /\ Distinct(r)
         /\ \A m : In(r, m) <=> In(list, m) \/ m = n
         /\ Len(r) = Len(list) + 1
<1>1. CASE r = Append(list, n)
  <2>1. /\ r \in Seq(Buf) /\ Len(r) = Len(list) + 1
        /\ \A j \in 1 .. Len(list) : r[j] = list[j]
        /\ r[Len(list) + 1] = n
    BY <1>1, AppendProperties
  <2> QED BY <2>1 DEF Distinct, In
<1>2. CASE r = <<n>> \o list
  <2>1. /\ r \in Seq(Buf) /\ Len(r) = Len(list) + 1
        /\ r[1] = n
        /\ \A j \in 1 .. Len(list) : r[j + 1] = list[j]
    <3>1. <<n>> \in Seq(Buf) /\ Len(<<n>>) = 1 /\ <<n>>[1] = n
      OBVIOUS
    <3> QED BY <1>2, <3>1, ConcatProperties
  <2>2. \A j \in 2 .. Len(r) : j - 1 \in 1 .. Len(list) /\ r[j] = list[j - 1]
    BY <2>1
  <2>3. ASSUME NEW j \in 1 .. Len(r), NEW k \in 1 .. Len(r), r[j] = r[k] PROVE j = k
    <3>1. CASE j = 1 \/ k = 1
      BY <2>1, <2>2, <2>3, <3>1 DEF In
    <3>2. CASE j \in 2 .. Len(r) /\ k \in 2 .. Len(r)
      BY <2>2, <2>3, <3>2 DEF Distinct
    <3> QED BY <3>1, <3>2
  <2>4. ASSUME NEW m, In(list, m) PROVE In(r, m)
    BY <2>1, <2>4 DEF In
  <2>5. In(r, n)
    BY <2>1 DEF In
  <2>6. ASSUME NEW m, In(r, m), m # n PROVE In(list, m)
    <3>1. PICK j \in 1 .. Len(r) : r[j] = m
      BY <2>6 DEF In
    <3>2. j \in 2 .. Len(r)
      BY <2>1, <2>6, <3>1
    <3> QED BY <2>2, <3>1, <3>2 DEF In
  <2> QED BY <2>1, <2>3, <2>4, <2>5, <2>6 DEF Distinct
<1> QED BY <1>1, <1>2
-----------------------------------------------------------------------------
(* Types.                                                                  *)

(* What a process that is in a call, or in the driver, remembers.          *)
LEMMA Shapes ==
  ASSUME TypeOK, NEW p \in Proc
  PROVE  /\ call[p].at # "idle" =>
              call[p] \in [at : {"lock", "check", "read", "have", "write", "put"},
                          buf : Buf, blk : Block]
         /\ call[p].at = "idle" <=> call[p] = Idle
         /\ io[p].at \in {"alloc", "asleep"} =>
              io[p] \in [at : {"alloc", "asleep"}, req : Requests]
         /\ io[p].at \in {"wait", "dozing"} =>
              io[p] \in [at : {"wait", "dozing"}, req : Requests, chain : Seq(Desc)]
         /\ io[p].at \in {"out", "alloc", "asleep", "wait", "dozing"}
         /\ io[p].at = "out" <=> io[p] = NoIo
<1>1. call[p] \in Calls /\ io[p] \in IoStates
  BY DEF TypeOK, DiskTypeOK
<1>2. /\ call[p].at # "idle" =>
            call[p] \in [at : {"lock", "check", "read", "have", "write", "put"},
                        buf : Buf, blk : Block]
      /\ call[p].at = "idle" <=> call[p] = Idle
  BY <1>1 DEF Calls, Idle
<1>3. /\ io[p].at \in {"alloc", "asleep"} =>
            io[p] \in [at : {"alloc", "asleep"}, req : Requests]
      /\ io[p].at \in {"wait", "dozing"} =>
            io[p] \in [at : {"wait", "dozing"}, req : Requests, chain : Seq(Desc)]
      /\ io[p].at \in {"out", "alloc", "asleep", "wait", "dozing"}
      /\ io[p].at = "out" <=> io[p] = NoIo
  BY <1>1 DEF IoStates, NoIo
<1> QED BY <1>2, <1>3

(* Where a process goes on to in the driver and in the cache.              *)
LEMMA IoShapes ==
  /\ NoIo \in IoStates
  /\ \A r \in Requests : [at |-> "alloc", req |-> r] \in IoStates
  /\ \A r \in Requests, c \in Seq(Desc) :
        [at |-> "dozing", req |-> r, chain |-> c] \in IoStates
  /\ \A i \in [at : {"alloc", "asleep"}, req : Requests], x \in {"alloc", "asleep"} :
        [i EXCEPT !.at = x] \in IoStates
  /\ \A i \in [at : {"wait", "dozing"}, req : Requests, chain : Seq(Desc)],
        x \in {"wait", "dozing"} : [i EXCEPT !.at = x] \in IoStates
BY DEF IoStates, NoIo

(* free_desc wakes those who sleep for descriptors and nobody else.        *)
LEMMA Woken ==
  ASSUME TypeOK
  PROVE  /\ WakeForDescs(io) \in [Proc -> IoStates]
         /\ \A p \in Proc :
              WakeForDescs(io)[p] = IF io[p].at = "asleep"
                                    THEN [io[p] EXCEPT !.at = "alloc"] ELSE io[p]
<1>1. \A p \in Proc : io[p] \in IoStates
  BY DEF TypeOK, DiskTypeOK
<1>2. \A p \in Proc : io[p].at = "asleep" => [io[p] EXCEPT !.at = "alloc"] \in IoStates
  BY Shapes, IoShapes
<1> QED BY <1>1, <1>2 DEF WakeForDescs

(* What a call may become.                                                 *)
LEMMA CallShapes ==
  ASSUME TypeOK, NEW p \in Proc
  PROVE  /\ call[p].at # "idle" =>
            \A x \in {"lock", "check", "read", "have", "write", "put"} :
               [call EXCEPT ![p].at = x] \in [Proc -> Calls]
         /\ \A x \in {"lock", "check", "read", "have", "write", "put"}, n \in Buf, b \in Block :
               [call EXCEPT ![p] = [at |-> x, buf |-> n, blk |-> b]] \in [Proc -> Calls]
         /\ [call EXCEPT ![p] = Idle] \in [Proc -> Calls]
<1>1. call \in [Proc -> Calls]
  BY DEF TypeOK
<1>2. \A x \in {"lock", "check", "read", "have", "write", "put"}, n \in Buf, b \in Block :
         [at |-> x, buf |-> n, blk |-> b] \in Calls
  BY DEF Calls
<1>3. call[p].at # "idle" =>
        \A x \in {"lock", "check", "read", "have", "write", "put"} :
           [call[p] EXCEPT !.at = x] \in Calls
  BY Shapes DEF Calls
<1>4. Idle \in Calls
  BY DEF Calls
<1> QED BY <1>1, <1>2, <1>3, <1>4

Inv ==
  /\ TypeOK /\ OneBuffer /\ Once
  /\ Locked /\ Synced /\ Heads /\ Contents /\ Chains /\ Spread

(* The pages of the buffers are pages the kernel has.                      *)
Paged == {n \in Buf : data[n] # None}
Afford == Cardinality(Paged) <= NPage

(* The buffer a process is in a call with has its block.                   *)
LEMMA OwnBlock ==
  ASSUME TypeOK, OneBuffer, NEW p \in Proc, call[p].at # "idle"
  PROVE  /\ call[p].buf \in Buf /\ call[p].blk \in Block
         /\ p \in Users(call[p].buf)
         /\ block[call[p].buf] = call[p].blk
<1>1. call[p].buf \in Buf /\ call[p].blk \in Block
  BY Shapes
<1>2. p \in Users(call[p].buf)
  BY Shapes DEF Users
<1> QED BY <1>1, <1>2 DEF OneBuffer

(* A buffer has as many references as there are processes that use it, one *)
(* more when another process comes, one less when one of them goes.        *)
LEMMA UsersCount ==
  ASSUME Constants, NEW n
  PROVE  /\ IsFiniteSet(Users(n)) /\ Cardinality(Users(n)) \in 0 .. Cardinality(Proc)
         /\ Cardinality(Users(n)) = 0 <=> Users(n) = {}
         /\ \A p \in Proc :
              /\ p \notin Users(n) => Cardinality(Users(n) \cup {p}) = Cardinality(Users(n)) + 1
              /\ p \in Users(n) => Cardinality(Users(n) \ {p}) = Cardinality(Users(n)) - 1
<1>1. Users(n) \subseteq Proc /\ IsFiniteSet(Proc)
  BY DEF Users, Constants
<1>2. /\ IsFiniteSet(Users(n)) /\ Cardinality(Users(n)) <= Cardinality(Proc)
      /\ Cardinality(Users(n)) \in Nat /\ Cardinality(Proc) \in Nat
  BY <1>1, FS_Subset, FS_CardinalityType
<1>3. Cardinality(Users(n)) = 0 <=> Users(n) = {}
  BY <1>2, FS_EmptySet
<1>4. \A p \in Proc :
        /\ p \notin Users(n) => Cardinality(Users(n) \cup {p}) = Cardinality(Users(n)) + 1
        /\ p \in Users(n) => Cardinality(Users(n) \ {p}) = Cardinality(Users(n)) - 1
  BY <1>2, FS_AddElement, FS_RemoveElement
<1> QED BY <1>2, <1>3, <1>4

(* Two lists that hold the buffers of S and the others.                    *)
Halves(x, y, S) ==
  /\ x \in Seq(Buf) /\ Distinct(x) /\ y \in Seq(Buf) /\ Distinct(y)
  /\ \A m \in Buf : In(x, m) <=> m \in S
  /\ \A m \in Buf : In(y, m) <=> m \notin S
  /\ Len(x) + Len(y) = NBuf

(* The two lists change roles.                                             *)
LEMMA Turned ==
  ASSUME NEW x, NEW y, NEW S
  PROVE  Halves(x, y, S) <=> Halves(y, x, Buf \ S)
<1>1. ASSUME NEW m \in Buf
      PROVE  (m \in S <=> m \notin Buf \ S) /\ (m \notin S <=> m \in Buf \ S)
  OBVIOUS
<1>2. x \in Seq(Buf) /\ y \in Seq(Buf) => Len(x) + Len(y) = Len(y) + Len(x)
  OBVIOUS
<1> QED BY <1>1, <1>2 DEF Halves

(* The active list holds the buffers with references.                      *)
InUse == {n \in Buf : ref[n] > 0}
(* The lists of the cache are two such lists.                              *)
LEMMA Lists ==
  ASSUME Constants, TypeOK, OneBuffer, Once
  PROVE  Halves(active, inactive, InUse)
<1>1. \A n \in Buf : ref[n] \in 0 .. Cardinality(Proc)
  BY DEF TypeOK
<1>2. Cardinality(Proc) \in Nat
  BY FS_CardinalityType DEF Constants
<1>3. \A n \in Buf : /\ In(inactive, n) <=> ref[n] = 0
                     /\ In(active, n) <=> ref[n] > 0
  BY DEF OneBuffer, In
<1>4. \A n \in Buf : (In(active, n) <=> n \in InUse) /\ (In(inactive, n) <=> n \notin InUse)
  BY <1>1, <1>2, <1>3 DEF InUse
<1>5. /\ active \in Seq(Buf) /\ Distinct(active) /\ inactive \in Seq(Buf) /\ Distinct(inactive)
      /\ Len(active) + Len(inactive) = NBuf
  BY DEF TypeOK, OneBuffer, Once
<1> QED BY <1>4, <1>5 DEF Halves

(* A buffer goes to one of two lists, whichever it was in.                 *)
LEMMA Moved ==
  ASSUME Constants, NEW x, NEW y, NEW S, Halves(x, y, S), NEW n \in Buf,
         NEW r, r = <<n>> \o Without(x, n) \/ r = Append(Without(x, n), n)
  PROVE  Halves(r, Without(y, n), S \cup {n})
<1>0. /\ x \in Seq(Buf) /\ Distinct(x) /\ y \in Seq(Buf) /\ Distinct(y)
      /\ \A m \in Buf : In(x, m) <=> m \in S
      /\ \A m \in Buf : In(y, m) <=> m \notin S
      /\ Len(x) + Len(y) = NBuf
  BY DEF Halves
<1>1. /\ Without(x, n) \in Seq(Buf) /\ Distinct(Without(x, n))
      /\ \A m : In(Without(x, n), m) <=> In(x, m) /\ m # n
      /\ Len(Without(x, n)) = Len(x) - (IF In(x, n) THEN 1 ELSE 0)
  BY <1>0, WithoutKeeps
<1>2. /\ Without(y, n) \in Seq(Buf) /\ Distinct(Without(y, n))
      /\ \A m : In(Without(y, n), m) <=> In(y, m) /\ m # n
      /\ Len(Without(y, n)) = Len(y) - (IF In(y, n) THEN 1 ELSE 0)
  BY <1>0, WithoutKeeps
<1>3. /\ r \in Seq(Buf) /\ Distinct(r)
      /\ \A m : In(r, m) <=> In(Without(x, n), m) \/ m = n
      /\ Len(r) = Len(Without(x, n)) + 1
  <2>1. PICK w \in Seq(Buf) : w = Without(x, n)
    BY <1>1
  <2>2. Distinct(w) /\ ~In(w, n) /\ (r = <<n>> \o w \/ r = Append(w, n))
    BY <1>1, <2>1
  <2>3. /\ r \in Seq(Buf) /\ Distinct(r)
        /\ \A m : In(r, m) <=> In(w, m) \/ m = n
        /\ Len(r) = Len(w) + 1
    BY <2>1, <2>2, WithKeeps, Zenon
  <2> QED BY <2>1, <2>3, Zenon
<1>4. ASSUME NEW m \in Buf
      PROVE  /\ In(r, m) <=> m \in S \cup {n}
             /\ In(Without(y, n), m) <=> m \notin S \cup {n}
  <2>1. (In(x, m) <=> m \in S) /\ (In(y, m) <=> m \notin S)
    BY <1>0
  <2>2. In(r, m) <=> m = n \/ In(x, m)
    BY <1>1, <1>3, Zenon
  <2>3. In(Without(y, n), m) <=> m # n /\ In(y, m)
    BY <1>2, Zenon
  <2> QED BY <2>1, <2>2, <2>3
<1>5. Len(r) + Len(Without(y, n)) = NBuf
  <2>1. Len(x) \in Nat /\ Len(y) \in Nat /\ (In(x, n) <=> ~In(y, n)) /\ Len(x) + Len(y) = NBuf
    BY <1>0
  <2>2. Len(r) = Len(x) - (IF In(x, n) THEN 1 ELSE 0) + 1
    BY <1>1, <1>3, Zenon
  <2>3. Len(Without(y, n)) = Len(y) - (IF In(y, n) THEN 1 ELSE 0)
    BY <1>2, Zenon
  <2>4. CASE In(x, n)
    BY <2>1, <2>2, <2>3, <2>4
  <2>5. CASE ~In(x, n)
    BY <2>1, <2>2, <2>3, <2>5
  <2> QED BY <2>4, <2>5
<1> QED BY <1>2, <1>3, <1>4, <1>5 DEF Halves

(* Another process refers to a buffer.                                     *)
LEMMA Joins ==
  ASSUME Constants, TypeOK, OneBuffer, NEW p \in Proc, call[p] = Idle,
         NEW n \in Buf, NEW b \in Block, ref' = [ref EXCEPT ![n] = @ + 1],
         call' = [call EXCEPT ![p] = [at |-> "lock", buf |-> n, blk |-> b]]
  PROVE  /\ \A m \in Buf : Users(m)' = IF m = n THEN Users(m) \cup {p} ELSE Users(m)
         /\ \A m \in Buf : ref'[m] = Cardinality(Users(m))'
         /\ ref' \in [Buf -> 0 .. Cardinality(Proc)]
         /\ \A m \in Buf : ref'[m] > 0 <=> m = n \/ ref[m] > 0
<1>1. \A m \in Buf : p \notin Users(m)
  BY DEF Users
<1>2. \A m \in Buf : Users(m)' = IF m = n THEN Users(m) \cup {p} ELSE Users(m)
  BY DEF Users, TypeOK, Idle
<1>3. \A m \in Buf : ref[m] = Cardinality(Users(m)) /\ ref[m] \in Nat
  <2>1. \A m \in Buf : ref[m] = Cardinality(Users(m))
    BY DEF OneBuffer
  <2>2. \A m \in Buf : Cardinality(Users(m)) \in Nat
    BY UsersCount, FS_CardinalityType
  <2> QED BY <2>1, <2>2
<1>4. \A m \in Buf : ref'[m] = IF m = n THEN ref[m] + 1 ELSE ref[m]
  BY DEF TypeOK
<1>5. \A m \in Buf : ref'[m] = Cardinality(Users(m)')
  BY <1>1, <1>2, <1>3, <1>4, UsersCount
<1>6. \A m \in Buf : ref'[m] <= Cardinality(Proc) /\ ref'[m] \in Nat
  <2> SUFFICES ASSUME NEW m \in Buf PROVE ref'[m] <= Cardinality(Proc) /\ ref'[m] \in Nat
    OBVIOUS
  <2>1. Users(m)' \subseteq Proc
    BY DEF Users
  <2> QED BY <1>5, <2>1, FS_Subset, FS_CardinalityType DEF Constants
<1>7. Cardinality(Proc) \in Nat
  BY FS_CardinalityType DEF Constants
<1> QED BY <1>2, <1>3, <1>4, <1>5, <1>6, <1>7 DEF TypeOK

(* A process gives its reference back.                                     *)
LEMMA Leaves ==
  ASSUME Constants, TypeOK, OneBuffer, NEW p \in Proc, NEW n \in Buf,
         call[p].at # "idle", call[p].buf = n, ref' = [ref EXCEPT ![n] = @ - 1],
         call' = [call EXCEPT ![p] = Idle]
  PROVE  /\ \A m \in Buf : Users(m)' = IF m = n THEN Users(m) \ {p} ELSE Users(m)
         /\ \A m \in Buf : ref'[m] = Cardinality(Users(m))'
         /\ ref' \in [Buf -> 0 .. Cardinality(Proc)]
         /\ ref[n] > 0
         /\ \A m \in Buf : ref'[m] = 0 <=> ((m = n /\ ref[n] = 1) \/ ref[m] = 0)
<1>0. call[p] # Idle
  BY DEF Idle
<1>1. \A m \in Buf : p \in Users(m) <=> m = n
  BY <1>0 DEF Users
<1>2. \A m \in Buf : Users(m)' = IF m = n THEN Users(m) \ {p} ELSE Users(m)
  BY <1>1 DEF Users, TypeOK
<1>3. \A m \in Buf : ref[m] = Cardinality(Users(m)) /\ ref[m] \in Nat
  <2>1. \A m \in Buf : ref[m] = Cardinality(Users(m))
    BY DEF OneBuffer
  <2>2. \A m \in Buf : Cardinality(Users(m)) \in Nat
    BY UsersCount, FS_CardinalityType
  <2> QED BY <2>1, <2>2
<1>4. \A m \in Buf : ref'[m] = IF m = n THEN ref[m] - 1 ELSE ref[m]
  BY DEF TypeOK
<1>5. \A m \in Buf : ref'[m] = Cardinality(Users(m)')
  BY <1>1, <1>2, <1>3, <1>4, UsersCount
<1>6. \A m \in Buf : ref'[m] <= Cardinality(Proc) /\ ref'[m] \in Nat
  <2> SUFFICES ASSUME NEW m \in Buf PROVE ref'[m] <= Cardinality(Proc) /\ ref'[m] \in Nat
    OBVIOUS
  <2>1. Users(m)' \subseteq Proc
    BY DEF Users
  <2> QED BY <1>5, <2>1, FS_Subset, FS_CardinalityType DEF Constants
<1>7. Cardinality(Proc) \in Nat
  BY FS_CardinalityType DEF Constants
<1>8. ref[n] > 0
  <2>1. Users(n) # {}
    BY <1>1
  <2> QED BY <1>3, <2>1, UsersCount
<1> QED BY <1>2, <1>3, <1>4, <1>5, <1>6, <1>7, <1>8 DEF TypeOK

(* A hit keeps the books: the buffer goes to the head of the active list,  *)
(* wherever it was.                                                        *)
LEMMA HitBooks ==
  ASSUME Constants, TypeOK, OneBuffer, Once,
         NEW p \in Proc, NEW b \in Block, NEW n \in Buf, Hit(p, b, n)
  PROVE  TypeOK' /\ OneBuffer' /\ Once'
<1>0. /\ call[p] = Idle
      /\ block[n] = b
      /\ ref' = [ref EXCEPT ![n] = @ + 1]
      /\ active' = <<n>> \o Without(active, n)
      /\ inactive' = Without(inactive, n)
      /\ call' = [call EXCEPT ![p] = [at |-> "lock", buf |-> n, blk |-> b]]
      /\ UNCHANGED <<block, valid, slk, diskVars>>
  BY DEF Hit, Find
<1>1. /\ \A m \in Buf : Users(m)' = IF m = n THEN Users(m) \cup {p} ELSE Users(m)
      /\ \A m \in Buf : ref'[m] = Cardinality(Users(m))'
      /\ ref' \in [Buf -> 0 .. Cardinality(Proc)]
      /\ \A m \in Buf : ref'[m] > 0 <=> m = n \/ ref[m] > 0
  BY <1>0, Joins
<1>2. Halves(active', inactive', InUse')
  <2>1. Halves(active', inactive', InUse \cup {n})
    BY <1>0, Lists, Moved, Zenon
  <2>2. InUse' = InUse \cup {n}
    BY <1>1 DEF InUse
  <2> QED BY <2>1, <2>2
<1>4. call' \in [Proc -> Calls]
  BY <1>0, CallShapes
<1>5. TypeOK'
  BY <1>0, <1>1, <1>2, <1>4 DEF TypeOK, DiskTypeOK, diskVars, Halves
<1>6. \A m \in Buf : \A q \in Users(m)' : block'[m] = call'[q].blk
  <2> SUFFICES ASSUME NEW m \in Buf, NEW q \in Users(m)' PROVE block'[m] = call'[q].blk
    OBVIOUS
  <2>1. CASE q = p
    BY <1>0, <1>1, <2>1 DEF TypeOK, Users
  <2>2. CASE q # p
    <3>1. q \in Users(m) /\ q \in Proc
      BY <1>1, <2>2 DEF Users
    <3> QED BY <1>0, <2>2, <3>1 DEF TypeOK, OneBuffer
  <2> QED BY <2>1, <2>2
<1>7. OneBuffer'
  <2>1. \A m \in Buf : (In(inactive', m) <=> ref'[m] = 0) /\ (In(active', m) <=> ref'[m] > 0)
    BY <1>1, <1>2, FS_CardinalityType DEF Halves, InUse, Constants
  <2> QED BY <1>0, <1>1, <1>2, <1>6, <2>1 DEF OneBuffer, In, Halves, diskVars
<1> QED BY <1>2, <1>5, <1>7 DEF Once, Halves

(* buffer_put keeps the books: with its last reference the buffer goes to  *)
(* the head of the inactive list.                                          *)
LEMMA UnrefBooks ==
  ASSUME Constants, TypeOK, OneBuffer, Once, NEW p \in Proc, Unref(p)
  PROVE  TypeOK' /\ OneBuffer' /\ Once'
<1>1. PICK n \in Buf : call[p].buf = n
  BY OwnBlock DEF Unref
<1>0. /\ call[p].at = "put"
      /\ ref' = [ref EXCEPT ![n] = @ - 1]
      /\ active' = IF Unused(n) THEN Without(active, n) ELSE active
      /\ inactive' = IF Unused(n) THEN <<n>> \o Without(inactive, n) ELSE inactive
      /\ call' = [call EXCEPT ![p] = Idle]
      /\ UNCHANGED <<block, valid, slk, diskVars>>
  BY <1>1 DEF Unref
<1>2. /\ \A m \in Buf : Users(m)' = IF m = n THEN Users(m) \ {p} ELSE Users(m)
      /\ \A m \in Buf : ref'[m] = Cardinality(Users(m))'
      /\ ref' \in [Buf -> 0 .. Cardinality(Proc)]
      /\ ref[n] > 0
      /\ \A m \in Buf : ref'[m] = 0 <=> ((m = n /\ ref[n] = 1) \/ ref[m] = 0)
  <2>1. call[p].at # "idle" /\ call[p].buf = n
    BY <1>0, <1>1
  <2>2. ref' = [ref EXCEPT ![n] = @ - 1] /\ call' = [call EXCEPT ![p] = Idle]
    BY <1>0
  <2> QED BY <2>1, <2>2, Leaves, Zenon
<1>a. \A m \in Buf : /\ ref[m] > 0 <=> ref[m] # 0
                     /\ ref'[m] > 0 <=> ref'[m] # 0
  BY <1>2, FS_CardinalityType DEF TypeOK, Constants
<1>3. Halves(active', inactive', InUse')
  <2>1. CASE Unused(n)
    <3>1. Halves(inactive, active, Buf \ InUse)
      BY Lists, Turned, Zenon
    <3>2. Halves(inactive', active', (Buf \ InUse) \cup {n})
      BY <1>0, <2>1, <3>1, Moved, Zenon
    <3>3. Halves(active', inactive', Buf \ ((Buf \ InUse) \cup {n}))
      BY <3>2, Turned, Zenon
    <3>4. InUse' = Buf \ ((Buf \ InUse) \cup {n})
      BY <1>2, <1>a, <2>1 DEF InUse, Unused
    <3> QED BY <3>3, <3>4
  <2>2. CASE ~Unused(n)
    <3>1. InUse' = InUse
      BY <1>2, <1>a, <2>2 DEF InUse, Unused
    <3> QED BY <1>0, <2>2, <3>1, Lists
  <2> QED BY <2>1, <2>2
<1>4. call' \in [Proc -> Calls]
  BY <1>0, CallShapes
<1>5. TypeOK'
  BY <1>0, <1>2, <1>3, <1>4 DEF TypeOK, DiskTypeOK, diskVars, Halves
<1>6. ASSUME NEW m \in Buf, NEW q \in Users(m)' PROVE block'[m] = call'[q].blk
  <2>1. q \in Users(m) /\ q # p /\ q \in Proc
    BY <1>0, <1>1, <1>2 DEF Users, TypeOK
  <2> QED BY <1>0, <2>1 DEF TypeOK, OneBuffer
<1>7. OneBuffer'
  <2>1. \A m \in Buf : (In(inactive', m) <=> ref'[m] = 0) /\ (In(active', m) <=> ref'[m] > 0)
    BY <1>a, <1>3 DEF Halves, InUse
  <2> QED BY <1>0, <1>2, <1>3, <1>6, <2>1 DEF OneBuffer, In, Halves, diskVars
<1> QED BY <1>3, <1>5, <1>7 DEF Once, Halves

(* What is reclaimed is not in use and is not the buffer that asks.        *)
LEMMA ReclaimedFree ==
  ASSUME TypeOK, OneBuffer, NEW k, NEW skip, NEW m \in Reclaimed(k, skip)
  PROVE  m \in Buf /\ m # skip /\ ref[m] = 0 /\ data[m] # None
<1>1. PICK i \in 1 .. Len(inactive) : inactive[i] = m /\ Eligible(i, skip)
  BY DEF Reclaimed
<1> QED BY <1>1 DEF Eligible, TypeOK

(* What a miss does that takes the victim n and the pages of gone.         *)
MissEffect(p, b, n, gone) ==
  /\ call[p] = Idle /\ ref[n] = 0 /\ n \notin gone
  /\ \A m \in Buf : block[m] # b
  /\ \A m \in gone : m \in Buf /\ ref[m] = 0
  /\ block' = [m \in Buf |-> IF m = n THEN b ELSE IF m \in gone THEN None ELSE block[m]]
  /\ valid' = [m \in Buf |-> m # n /\ m \notin gone /\ valid[m]]
  /\ data' \in [Buf -> Value \cup {None}]
  /\ data'[n] # None
  /\ \A m \in Buf \ {n} : data'[m] = IF m \in gone THEN None ELSE data[m]
  /\ active' = Append(active, n)
  /\ inactive' = Without(inactive, n)
  /\ ref' = [ref EXCEPT ![n] = @ + 1]
  /\ call' = [call EXCEPT ![p] = [at |-> "lock", buf |-> n, blk |-> b]]
  /\ UNCHANGED <<slk, disk, free, info, avail, used, busy, io>>

(* The victim has no reference, and neither has who loses its page to it.  *)
LEMMA MissFacts ==
  ASSUME Constants, TypeOK, OneBuffer, Once, NEW p \in Proc, NEW b \in Block, Miss(p, b)
  PROVE  \E n \in Buf, gone \in SUBSET Buf : MissEffect(p, b, n, gone)
<1>1. inactive \in Seq(Buf) /\ inactive # <<>>
  BY DEF Miss, TypeOK
<1>2. PICK n \in Buf : n = Victim /\ In(inactive, n)
  BY <1>1 DEF Victim, In
<1>3. ref[n] = 0
  BY <1>2 DEF OneBuffer, In
<1> DEFINE gone == Robbed(n)
<1>4. n \notin gone /\ \A m \in gone : m \in Buf /\ ref[m] = 0
  BY ReclaimedFree DEF Robbed
<1>5. PICK v \in Value :
        data' = [Forgets(data, gone) EXCEPT ![n] = IF @ = None THEN v ELSE @]
  BY <1>2 DEF Miss
<1>6. /\ call[p] = Idle
      /\ Find(b) = {}
      /\ block' = [Forgets(block, gone) EXCEPT ![n] = b]
      /\ valid' = Missed(n, gone)
      /\ active' = Append(active, n)
      /\ inactive' = Without(inactive, n)
      /\ ref' = [ref EXCEPT ![n] = @ + 1]
      /\ call' = [call EXCEPT ![p] = [at |-> "lock", buf |-> n, blk |-> b]]
      /\ UNCHANGED <<slk, disk, free, info, avail, used, busy, io>>
  BY <1>2 DEF Miss
<1> HIDE DEF gone
<1>7. \A m \in Buf : block[m] # b
  BY <1>6 DEF Find
<1>8. block' = [m \in Buf |-> IF m = n THEN b ELSE IF m \in gone THEN None ELSE block[m]]
  BY <1>6 DEF Forgets
<1>9. valid' = [m \in Buf |-> m # n /\ m \notin gone /\ valid[m]]
  <2>1. \A m \in Buf : valid[m] \in BOOLEAN
    BY DEF TypeOK
  <2> QED BY <1>6, <2>1, Zenon DEF Missed
<1>10. /\ data' \in [Buf -> Value \cup {None}]
       /\ data'[n] # None
       /\ \A m \in Buf \ {n} : data'[m] = IF m \in gone THEN None ELSE data[m]
  BY <1>5 DEF Forgets, TypeOK, DiskTypeOK, Constants
<1>11. MissEffect(p, b, n, gone)
  BY <1>3, <1>4, <1>6, <1>7, <1>8, <1>9, <1>10 DEF MissEffect
<1> QED BY <1>4, <1>11

(* A miss keeps the books.                                                 *)
LEMMA MissBooks ==
  ASSUME Constants, TypeOK, OneBuffer, Once,
         NEW p \in Proc, NEW b \in Block, Miss(p, b)
  PROVE  TypeOK' /\ OneBuffer' /\ Once'
<1>1. PICK n \in Buf, gone \in SUBSET Buf : MissEffect(p, b, n, gone)
  BY MissFacts, Zenon
<1>0. /\ call[p] = Idle /\ ref[n] = 0 /\ n \notin gone
      /\ \A m \in Buf : block[m] # b
      /\ \A m \in gone : m \in Buf /\ ref[m] = 0
      /\ block' = [m \in Buf |-> IF m = n THEN b ELSE IF m \in gone THEN None ELSE block[m]]
      /\ valid' = [m \in Buf |-> m # n /\ m \notin gone /\ valid[m]]
      /\ data' \in [Buf -> Value \cup {None}]
      /\ data'[n] # None
      /\ \A m \in Buf \ {n} : data'[m] = IF m \in gone THEN None ELSE data[m]
      /\ active' = Append(active, n)
      /\ inactive' = Without(inactive, n)
      /\ ref' = [ref EXCEPT ![n] = @ + 1]
      /\ call' = [call EXCEPT ![p] = [at |-> "lock", buf |-> n, blk |-> b]]
      /\ UNCHANGED <<slk, disk, free, info, avail, used, busy, io>>
  BY <1>1, Zenon DEF MissEffect
<1>2. /\ \A m \in Buf : Users(m)' = IF m = n THEN Users(m) \cup {p} ELSE Users(m)
      /\ \A m \in Buf : ref'[m] = Cardinality(Users(m))'
      /\ ref' \in [Buf -> 0 .. Cardinality(Proc)]
      /\ \A m \in Buf : ref'[m] > 0 <=> m = n \/ ref[m] > 0
  BY <1>0, Joins
<1>3. Halves(active', inactive', InUse')
  <2>1. ~In(active, n)
    BY <1>0 DEF OneBuffer, In
  <2>2. Without(active, n) = active
    BY <2>1 DEF Without, RemoveFirst, In
  <2>3. Halves(active', inactive', InUse \cup {n})
    BY <1>0, <2>2, Lists, Moved, Zenon
  <2>4. InUse' = InUse \cup {n}
    BY <1>2 DEF InUse
  <2> QED BY <2>3, <2>4
<1>4. call' \in [Proc -> Calls]
  BY <1>0, CallShapes
<1>5. TypeOK'
  <2>1. block' \in [Buf -> Block \cup {None}] /\ valid' \in [Buf -> BOOLEAN]
    BY <1>0 DEF TypeOK
  <2> QED BY <1>0, <1>2, <1>3, <1>4, <2>1 DEF TypeOK, DiskTypeOK, Halves
<1>6. \A m \in Buf : ref[m] = 0 => Users(m) = {}
  BY UsersCount DEF OneBuffer
<1>7. ASSUME NEW m \in Buf, NEW q \in Users(m)' PROVE block'[m] = call'[q].blk
  <2>1. CASE q = p
    BY <1>0, <1>2, <2>1 DEF TypeOK, Users
  <2>2. CASE q # p
    <3>1. q \in Users(m) /\ q \in Proc
      BY <1>2, <2>2 DEF Users
    <3>2. m # n /\ m \notin gone
      BY <1>0, <1>6, <3>1
    <3> QED BY <1>0, <2>2, <3>1, <3>2 DEF TypeOK, OneBuffer
  <2> QED BY <2>1, <2>2
<1>8. OneBuffer'
  <2>1. \A m \in Buf : (In(inactive', m) <=> ref'[m] = 0) /\ (In(active', m) <=> ref'[m] > 0)
    BY <1>2, <1>3, FS_CardinalityType DEF Halves, InUse, Constants
  <2>2. \A m, o \in Buf : m # o /\ block'[m] # None => block'[m] # block'[o]
    BY <1>0 DEF OneBuffer
  <2>3. \A m \in Buf : block'[m] # None => data'[m] # None
    BY <1>0 DEF OneBuffer
  <2>4. \A m \in Buf : block'[m] = None => ~valid'[m]
    BY <1>0 DEF OneBuffer, Constants
  <2> QED BY <1>2, <1>3, <1>7, <2>1, <2>2, <2>3, <2>4 DEF OneBuffer, In, Halves
<1> QED BY <1>3, <1>5, <1>8 DEF Once, Halves

(* What is reclaimed loses its page, its block and its contents.           *)
FreeEffect(gone) ==
  /\ \A m \in gone : ref[m] = 0
  /\ data' = [m \in Buf |-> IF m \in gone THEN None ELSE data[m]]
  /\ block' = [m \in Buf |-> IF m \in gone THEN None ELSE block[m]]
  /\ valid' = [m \in Buf |-> valid[m] /\ m \notin gone]
  /\ UNCHANGED <<ref, active, inactive, slk, call,
                 disk, free, info, avail, used, busy, io>>

(* buffer_freemem takes pages from buffers without references.             *)
LEMMA FreeFacts ==
  ASSUME TypeOK, OneBuffer, NEW k, FreeMem(k)
  PROVE  \E gone \in SUBSET Buf : FreeEffect(gone)
<1> DEFINE gone == Reclaimed(k, None)
<1>1. gone \in SUBSET Buf /\ \A m \in gone : ref[m] = 0
  BY ReclaimedFree
<1>2. FreeEffect(gone)
  BY <1>1, Zenon DEF FreeMem, Forgets, FreeEffect
<1> QED BY <1>1, <1>2, Zenon

(* buffer_freemem keeps the books.                                         *)
LEMMA FreeBooks ==
  ASSUME Constants, TypeOK, OneBuffer, Once, NEW k, FreeMem(k)
  PROVE  TypeOK' /\ OneBuffer' /\ Once'
<1>0. PICK gone \in SUBSET Buf : FreeEffect(gone)
  BY FreeFacts, Zenon
<1>1. /\ \A m \in gone : m \in Buf /\ ref[m] = 0
      /\ data' = [m \in Buf |-> IF m \in gone THEN None ELSE data[m]]
      /\ block' = [m \in Buf |-> IF m \in gone THEN None ELSE block[m]]
      /\ valid' = [m \in Buf |-> valid[m] /\ m \notin gone]
      /\ UNCHANGED <<ref, active, inactive, slk, call,
                     disk, free, info, avail, used, busy, io>>
  BY <1>0 DEF FreeEffect
<1>2. \A m \in Buf : Users(m)' = Users(m)
  BY <1>1 DEF Users
<1>3. \A m \in gone : Users(m) = {}
  BY <1>1, UsersCount DEF OneBuffer
<1>4. TypeOK'
  BY <1>1 DEF TypeOK, DiskTypeOK
<1>5. OneBuffer'
  <2>1. \A m \in Buf : \A q \in Users(m)' : block'[m] = call'[q].blk
    BY <1>1, <1>2, <1>3 DEF OneBuffer
  <2>2. \A m, o \in Buf : m # o /\ block'[m] # None => block'[m] # block'[o]
    BY <1>1 DEF OneBuffer
  <2>3. \A m \in Buf : /\ block'[m] # None => data'[m] # None
                       /\ block'[m] = None => ~valid'[m]
    BY <1>1 DEF OneBuffer
  <2>4. \A m \in Buf : ref'[m] = Cardinality(Users(m))'
    BY <1>1, <1>2 DEF OneBuffer
  <2> QED BY <1>1, <2>1, <2>2, <2>3, <2>4 DEF OneBuffer
<1> QED BY <1>1, <1>4, <1>5 DEF Once

(* Every other step leaves the lists and the references alone.             *)
LEMMA OtherBooks ==
  ASSUME Constants, TypeOK, OneBuffer, Once, UNCHANGED <<block, ref, active, inactive>>,
         NEW p \in Proc, NEW x, call' = [call EXCEPT ![p].at = x] \/ call' = call,
         call[p].at # "idle", x # "idle",
         \A m \in Buf : data'[m] = None => data[m] = None,
         \A m \in Buf : valid'[m] => valid[m] \/ m = call[p].buf
  PROVE  OneBuffer' /\ Once'
<1>1. ASSUME NEW q \in Proc
      PROVE  /\ call'[q] = Idle <=> call[q] = Idle
             /\ call[q] # Idle => call'[q].buf = call[q].buf /\ call'[q].blk = call[q].blk
  <2>1. CASE q = p /\ call' = [call EXCEPT ![p].at = x]
    <3>1. call'[p] = [call[p] EXCEPT !.at = x]
      BY <2>1 DEF TypeOK
    <3>2. call[p] \in [at : {"lock", "check", "read", "have", "write", "put"},
                       buf : Buf, blk : Block]
      BY Shapes
    <3>3. call'[p].at = x /\ call'[p].buf = call[p].buf /\ call'[p].blk = call[p].blk
      BY <3>1, <3>2
    <3> QED BY <2>1, <3>3 DEF Idle
  <2>2. CASE q # p \/ call' = call
    BY <2>2 DEF TypeOK
  <2> QED BY <2>1, <2>2
<1>2. \A m \in Buf : Users(m)' = Users(m)
  BY <1>1 DEF Users
<1>3. \A m \in Buf : \A q \in Users(m)' : block'[m] = call'[q].blk
  BY <1>1, <1>2 DEF OneBuffer, Users
<1>4. block[call[p].buf] # None
  BY OwnBlock DEF Constants
<1> QED BY <1>2, <1>3, <1>4 DEF OneBuffer, Once

-----------------------------------------------------------------------------
(* A set of numbers that is not empty has a least one.                     *)
LEMMA LowestIn ==
  ASSUME NEW T \in SUBSET Nat, T # {}
  PROVE  Lowest(T) \in T /\ \A e \in T : Lowest(T) <= e
<1>1. PICK x \in T : \A y \in T : ~(<<y, x>> \in OpToRel(<, Nat))
  BY NatLessThanWellFounded, WFMin, Zenon
<1>2. \A y \in Nat : y < x => <<y, x>> \in OpToRel(<, Nat)
  BY DEF OpToRel
<1>3. \A y \in T : ~(y < x)
  BY <1>1, <1>2
<1>4. \A y \in T : y \in Nat /\ x \in Nat
  OBVIOUS
<1>5. \A y \in T : x <= y
  BY <1>3, <1>4
<1> QED BY <1>5, Zenon DEF Lowest

(* Three free descriptors are three different ones.                        *)
LEMMA ThreeFacts ==
  ASSUME Constants, TypeOK, Cardinality(free) >= 3
  PROVE  \E a, b, c \in free :
           /\ Three = <<a, b, c>> /\ a # b /\ a # c /\ b # c
           /\ Cardinality(free \ {a, b, c}) = Cardinality(free) - 3
<1>1. free \subseteq Desc /\ IsFiniteSet(Desc) /\ free \in SUBSET Nat
  <2>1. free \subseteq Desc /\ Desc = 0 .. NDesc - 1 /\ NDesc \in Nat
    BY DEF TypeOK, DiskTypeOK, Desc, Constants
  <2>2. IsFiniteSet(0 .. NDesc - 1)
    BY <2>1, FS_Interval
  <2> QED BY <2>1, <2>2
<1>2. IsFiniteSet(free) /\ Cardinality(free) \in Nat
  BY <1>1, FS_Subset, FS_CardinalityType
(* Taking one more out of what is left.                                    *)
<1>t. ASSUME NEW S \in SUBSET free, IsFiniteSet(S), Cardinality(S) > 0
      PROVE  /\ Lowest(S) \in S
             /\ IsFiniteSet(S \ {Lowest(S)})
             /\ Cardinality(S \ {Lowest(S)}) = Cardinality(S) - 1
  <2>1. S # {}
    <3>1. Cardinality({}) = 0
      BY FS_EmptySet
    <3> QED BY <1>t, <3>1
  <2>2. Lowest(S) \in S
    BY <1>1, <2>1, LowestIn
  <2> QED BY <1>t, <2>2, FS_RemoveElement
<1>3. PICK a : a = Lowest(free)
  OBVIOUS
<1>4. a \in free /\ IsFiniteSet(free \ {a}) /\ Cardinality(free \ {a}) = Cardinality(free) - 1
  BY <1>2, <1>3, <1>t
<1>6. PICK b : b = Lowest(free \ {a})
  OBVIOUS
<1>7. /\ b \in free \ {a} /\ IsFiniteSet(free \ {a, b})
      /\ Cardinality(free \ {a, b}) = Cardinality(free) - 2
  <2>1. free \ {a, b} = (free \ {a}) \ {b} /\ free \ {a} \in SUBSET free
    OBVIOUS
  <2>2. Cardinality(free \ {a}) > 0
    BY <1>2, <1>4
  <2> QED BY <1>2, <1>4, <1>6, <2>1, <2>2, <1>t
<1>9. PICK c : c = Lowest(free \ {a, b})
  OBVIOUS
<1>10. c \in free \ {a, b} /\ Cardinality(free \ {a, b, c}) = Cardinality(free) - 3
  <2>1. free \ {a, b, c} = (free \ {a, b}) \ {c} /\ free \ {a, b} \in SUBSET free
    OBVIOUS
  <2>2. Cardinality(free \ {a, b}) > 0
    BY <1>2, <1>7
  <2> QED BY <1>2, <1>7, <1>9, <2>1, <2>2, <1>t
<1>12. Three = <<a, b, c>>
  BY <1>3, <1>6, <1>9 DEF Three
<1> QED BY <1>4, <1>7, <1>10, <1>12

(* The request under way on a buffer of a process.                         *)
LEMMA OwnRequest ==
  ASSUME Inv, NEW p \in Proc, InDriver(p)
  PROVE  /\ call[p].at \in {"read", "write"}
         /\ call[p].buf \in Buf /\ call[p].blk \in Block
         /\ block[call[p].buf] = call[p].blk
         /\ io[p].req = [buf |-> call[p].buf, blk |-> call[p].blk, wr |-> call[p].at = "write"]
         /\ io[p].req \in Requests
         /\ io[p].req.buf = call[p].buf /\ io[p].req.blk = call[p].blk
         /\ io[p].req.wr <=> call[p].at = "write"
<1>1. /\ call[p].at \in {"read", "write"}
      /\ io[p].req = [buf |-> call[p].buf, blk |-> call[p].blk, wr |-> call[p].at = "write"]
  BY DEF Inv, Synced
<1>2. call[p].buf \in Buf /\ call[p].blk \in Block /\ block[call[p].buf] = call[p].blk
  BY <1>1, OwnBlock DEF Inv
<1>3. io[p].req \in Requests
  BY <1>1, <1>2 DEF Requests
<1>4. /\ io[p].req.buf = call[p].buf /\ io[p].req.blk = call[p].blk
      /\ io[p].req.wr = (call[p].at = "write")
  BY <1>1
<1> QED BY <1>1, <1>2, <1>3, <1>4, Zenon

(* What the device and the interrupt have before them.                     *)
LEMMA HeadRequest ==
  ASSUME Inv, NEW h \in avail \cup Seen
  PROVE  \E p \in Proc : /\ Waits(p) /\ InDriver(p)
                         /\ io[p].chain[1] = h /\ info[h] = io[p].req
<1>1. PICK p \in Proc : Waits(p) /\ io[p].chain[1] = h
  BY DEF Inv, Heads
<1> QED BY <1>1 DEF Inv, Chains, Waits, InDriver

(* Two processes have different buffers in the driver.                     *)
LEMMA Alone ==
  ASSUME Inv, NEW p \in Proc, NEW q \in Proc, Holds(p), Holds(q), call[p].buf = call[q].buf
  PROVE  p = q
<1>1. call[p].buf \in Buf
  BY OwnBlock DEF Inv, Holds
<1> QED BY <1>1 DEF Inv, Locked

-----------------------------------------------------------------------------
(* Types and books.                                                        *)
Books == TypeOK /\ OneBuffer /\ Once

(* They are in order at the start.                                         *)
LEMMA BooksInit == Constants /\ Init => Books
<1> SUFFICES ASSUME Constants, Init PROVE Books
  OBVIOUS
<1>0. /\ data = [n \in Buf |-> None]
      /\ disk \in [Block -> Value]
      /\ DiskInit
      /\ block = [n \in Buf |-> None]
      /\ ref = [n \in Buf |-> 0]
      /\ valid = [n \in Buf |-> FALSE]
      /\ active = <<>>
      /\ inactive = [i \in 1 .. NBuf |-> NBuf - i]
      /\ slk = [n \in Buf |-> None]
      /\ call = [p \in Proc |-> Idle]
  BY DEF Init
<1>1. inactive \in Seq(Buf) /\ Len(inactive) = NBuf /\ active \in Seq(Buf) /\ Len(active) = 0
  BY <1>0 DEF Buf, Constants
<1>2. DiskTypeOK
  <2>1. io \in [Proc -> IoStates] /\ info \in [Desc -> Requests \cup {None}]
    BY <1>0, IoShapes DEF DiskInit
  <2>2. used \in Seq(Desc)
    BY <1>0 DEF DiskInit
  <2> QED BY <1>0, <2>1, <2>2 DEF DiskTypeOK, DiskInit
<1>3. TypeOK
  <2>1. Cardinality(Proc) \in Nat
    BY FS_CardinalityType DEF Constants
  <2>2. ref \in [Buf -> 0 .. Cardinality(Proc)]
    BY <1>0, <2>1
  <2>3. call \in [Proc -> Calls]
    BY <1>0 DEF Calls
  <2> QED BY <1>0, <1>1, <1>2, <2>2, <2>3 DEF TypeOK
<1>4. \A n \in Buf : Users(n) = {}
  BY <1>0 DEF Users
<1>5. \A n \in Buf : ref[n] = Cardinality(Users(n)) /\ ref[n] = 0
  BY <1>0, <1>4, FS_EmptySet
<1>6. \A n \in Buf : \E i \in 1 .. Len(inactive) : inactive[i] = n
  <2> SUFFICES ASSUME NEW n \in Buf PROVE \E i \in 1 .. Len(inactive) : inactive[i] = n
    OBVIOUS
  <2>1. NBuf - n \in 1 .. Len(inactive) /\ inactive[NBuf - n] = n
    BY <1>0, <1>1 DEF Buf, Constants
  <2> QED BY <2>1
<1>7. OneBuffer
  BY <1>0, <1>1, <1>4, <1>5, <1>6 DEF OneBuffer, Constants
<1>8. Once
  BY <1>0, <1>1 DEF Once, Distinct, Constants
<1> QED BY <1>3, <1>7, <1>8 DEF Books

(* Every action keeps them.                                                *)
LEMMA BooksStep == Constants /\ Inv /\ Next => Books'
<1> SUFFICES ASSUME Constants, Inv, Next PROVE Books'
  OBVIOUS
<1>0. TypeOK /\ OneBuffer /\ Once /\ Synced
  BY DEF Inv
(* A step that moves p along in its call.                                  *)
<1>a. ASSUME NEW p \in Proc, NEW x \in {"check", "read", "have", "write", "put"},
             call' = [call EXCEPT ![p].at = x],
             UNCHANGED <<block, ref, active, inactive>>, call[p].at # "idle",
             \A m \in Buf : data'[m] = None => data[m] = None,
             \A m \in Buf : valid'[m] => valid[m] \/ m = call[p].buf,
             TypeOK'
      PROVE  Books'
  BY <1>0, <1>a, OtherBooks DEF Books
(* A step of the driver.                                                   *)
<1>b. ASSUME UNCHANGED cacheVars, \A m \in Buf : data'[m] = None => data[m] = None, DiskTypeOK'
      PROVE  Books'
  <2>1. TypeOK'
    BY <1>0, <1>b DEF TypeOK, cacheVars
  <2>2. OneBuffer' /\ Once'
    BY <1>0, <1>b DEF OneBuffer, Once, Users, cacheVars
  <2> QED BY <2>1, <2>2 DEF Books
<1>1. ASSUME NEW p \in Proc, Lock(p) PROVE Books'
  <2>1. TypeOK'
    BY <1>0, <1>1, CallShapes DEF TypeOK, DiskTypeOK, Lock, diskVars
  <2> QED BY <1>a, <1>1, <2>1 DEF Lock, diskVars
<1>2. ASSUME NEW p \in Proc, GotIt(p) PROVE Books'
  <2>1. TypeOK'
    BY <1>0, <1>2, CallShapes DEF TypeOK, DiskTypeOK, GotIt, diskVars
  <2> QED BY <1>a, <1>2, <2>1 DEF GotIt, diskVars
<1>3. ASSUME NEW p \in Proc, Read(p) PROVE Books'
  <2>1. call' \in [Proc -> Calls]
    BY <1>0, <1>3, CallShapes DEF Read
  <2>2. [buf |-> call[p].buf, blk |-> block[call[p].buf], wr |-> FALSE] \in Requests
    BY <1>0, <1>3, OwnBlock DEF Read, Requests
  <2>3. io' \in [Proc -> IoStates]
    BY <1>0, <1>3, <2>2, IoShapes DEF Read, Call, TypeOK, DiskTypeOK
  <2>4. TypeOK'
    BY <1>0, <1>3, <2>1, <2>3 DEF Read, TypeOK, DiskTypeOK
  <2> QED BY <1>a, <1>3, <2>4 DEF Read
<1>4. ASSUME NEW p \in Proc, NEW v \in Value, Write(p, v) PROVE Books'
  <2>1. call' \in [Proc -> Calls]
    BY <1>0, <1>4, CallShapes DEF Write
  <2>2. [buf |-> call[p].buf, blk |-> block[call[p].buf], wr |-> TRUE] \in Requests
    BY <1>0, <1>4, OwnBlock DEF Write, Requests
  <2>3. io' \in [Proc -> IoStates]
    BY <1>0, <1>4, <2>2, IoShapes DEF Write, Call, TypeOK, DiskTypeOK
  <2>4. /\ data' \in [Buf -> Value \cup {None}]
        /\ \A m \in Buf : data'[m] = None => data[m] = None
    BY <1>0, <1>4, OwnBlock DEF Write, TypeOK, DiskTypeOK, Constants
  <2>5. TypeOK'
    BY <1>0, <1>4, <2>1, <2>3, <2>4 DEF Write, TypeOK, DiskTypeOK
  <2> QED BY <1>a, <1>4, <2>4, <2>5 DEF Write
<1>5. ASSUME NEW p \in Proc, Unlock(p) PROVE Books'
  <2>1. TypeOK'
    BY <1>0, <1>5, CallShapes DEF TypeOK, DiskTypeOK, Unlock, diskVars
  <2> QED BY <1>a, <1>5, <2>1 DEF Unlock, diskVars
<1>6. ASSUME NEW p \in Proc, IoDone(p) PROVE Books'
  <2>0. io[p].at = "wait" /\ call[p].at \in {"read", "write"}
    BY <1>0, <1>6 DEF IoDone, Return, Synced, InDriver
  <2>1. call' \in [Proc -> Calls]
    BY <1>0, <1>6, <2>0, CallShapes DEF IoDone
  <2>2. io' \in [Proc -> IoStates]
    BY <1>0, <1>6, Woken, IoShapes DEF IoDone, Return, Freed
  <2>3. io[p].chain \in Seq(Desc) /\ Len(io[p].chain) = 3
    BY <1>0, <2>0, Shapes DEF Inv, Chains
  <2>4. call[p].buf \in Buf
    BY <1>0, <2>0, OwnBlock
  <2>5. /\ UNCHANGED <<data, disk, avail, used, busy, block, ref, active, inactive, slk>>
        /\ info' = [info EXCEPT ![io[p].chain[1]] = None]
        /\ free' = free \cup {io[p].chain[1], io[p].chain[2], io[p].chain[3]}
        /\ valid' = [valid EXCEPT ![call[p].buf] = TRUE]
        /\ call' = [call EXCEPT ![p].at = "have"]
    BY <1>6 DEF IoDone, Return
  <2>6. TypeOK'
    BY <1>0, <2>1, <2>2, <2>3, <2>4, <2>5 DEF TypeOK, DiskTypeOK
  <2> QED BY <1>0, <1>a, <2>0, <2>4, <2>5, <2>6 DEF TypeOK
<1>7. ASSUME NEW p \in Proc, NEW b \in Block, NEW n \in Buf, Hit(p, b, n) PROVE Books'
  BY <1>0, <1>7, HitBooks, Zenon DEF Books
<1>8. ASSUME NEW p \in Proc, NEW b \in Block, Miss(p, b) PROVE Books'
  BY <1>0, <1>8, MissBooks, Zenon DEF Books
<1>9. ASSUME NEW p \in Proc, Unref(p) PROVE Books'
  BY <1>0, <1>9, UnrefBooks, Zenon DEF Books
<1>10. ASSUME NEW k \in 1 .. Batch, FreeMem(k) PROVE Books'
  BY <1>0, <1>10, FreeBooks, Zenon DEF Books
<1>11. ASSUME NEW p \in Proc, Submit(p), UNCHANGED cacheVars PROVE Books'
  <2>1. PICK a \in free, b \in free, c \in free : Three = <<a, b, c>>
    BY <1>0, <1>11, ThreeFacts DEF Submit
  <2>2. <<a, b, c>> \in Seq(Desc) /\ a \in Desc
    BY <1>0, <2>1 DEF TypeOK, DiskTypeOK
  <2>3. io[p].req \in Requests
    BY <1>0, <1>11, Shapes DEF Submit
  <2>4. [at |-> "dozing", req |-> io[p].req, chain |-> <<a, b, c>>] \in IoStates
    BY <2>2, <2>3, IoShapes
  <2>5. /\ free' = free \ {a, b, c}
        /\ info' = [info EXCEPT ![a] = io[p].req]
        /\ avail' = avail \cup {a}
        /\ io' = [io EXCEPT ![p] = [at |-> "dozing", req |-> io[p].req, chain |-> <<a, b, c>>]]
        /\ busy' = busy \cup {io[p].req.buf}
        /\ UNCHANGED <<data, disk, used>>
    BY <1>11, <2>1 DEF Submit
  <2>6. io' \in [Proc -> IoStates]
    BY <1>0, <2>4, <2>5 DEF TypeOK, DiskTypeOK
  <2>7. io[p].req.buf \in Buf
    BY <2>3 DEF Requests
  <2>8. info' \in [Desc -> Requests \cup {None}]
    BY <1>0, <2>3, <2>5 DEF TypeOK, DiskTypeOK
  <2>9. free' \subseteq Desc /\ avail' \subseteq Desc /\ busy' \subseteq Buf
    BY <1>0, <2>2, <2>5, <2>7 DEF TypeOK, DiskTypeOK
  <2>10. DiskTypeOK'
    <3>1. data' = data /\ disk' = disk /\ used' = used
      BY <2>5
    <3>2. data \in [Buf -> Value \cup {None}] /\ disk \in [Block -> Value] /\ used \in Seq(Desc)
      BY <1>0 DEF TypeOK, DiskTypeOK
    <3> QED BY <2>6, <2>8, <2>9, <3>1, <3>2, Zenon DEF DiskTypeOK
  <2> QED BY <1>b, <1>11, <2>5, <2>10
<1>12. ASSUME NEW p \in Proc, Starve(p), UNCHANGED cacheVars PROVE Books'
  <2>1. PICK w \in [Proc -> IoStates] :
          io' = [w EXCEPT ![p].at = "asleep"] /\ w[p] = io[p]
    <3>1. WakeForDescs(io)[p] = io[p] /\ WakeForDescs(io) \in [Proc -> IoStates]
      BY <1>0, <1>12, Woken DEF Starve
    <3>2. io \in [Proc -> IoStates]
      BY <1>0 DEF TypeOK, DiskTypeOK
    <3> QED BY <1>12, <3>1, <3>2 DEF Starve
  <2>2. [io[p] EXCEPT !.at = "asleep"] \in IoStates
    BY <1>0, <1>12, Shapes, IoShapes DEF Starve
  <2>3. DiskTypeOK'
    <3>1. io' \in [Proc -> IoStates]
      BY <2>1, <2>2
    <3> QED BY <1>0, <1>12, <3>1 DEF Starve, TypeOK, DiskTypeOK
  <2> QED BY <1>b, <1>12, <2>3 DEF Starve
<1>13. ASSUME NEW p \in Proc, LookAgain(p) \/ Disturb(p), UNCHANGED cacheVars PROVE Books'
  <2>1. PICK x : io' = [io EXCEPT ![p].at = x] /\ [io[p] EXCEPT !.at = x] \in IoStates
    <3>1. CASE LookAgain(p)
      BY <1>0, <3>1, Shapes, IoShapes DEF LookAgain
    <3>2. CASE Disturb(p) /\ io[p].at = "dozing"
      <4>1. io' = [io EXCEPT ![p].at = "wait"]
        BY <1>0, <3>2 DEF Disturb, TypeOK, DiskTypeOK
      <4> QED BY <1>0, <3>2, <4>1, Shapes, IoShapes
    <3>3. CASE Disturb(p) /\ io[p].at = "asleep"
      <4>1. io' = [io EXCEPT ![p].at = "alloc"]
        BY <1>0, <3>3 DEF Disturb, TypeOK, DiskTypeOK
      <4> QED BY <1>0, <3>3, <4>1, Shapes, IoShapes
    <3> QED BY <1>13, <3>1, <3>2, <3>3 DEF Disturb
  <2>2. UNCHANGED <<data, disk, free, info, avail, used, busy>>
    BY <1>13 DEF LookAgain, Disturb
  <2>3. DiskTypeOK'
    BY <1>0, <2>1, <2>2 DEF TypeOK, DiskTypeOK
  <2> QED BY <1>b, <1>13, <2>2, <2>3
<1>14. ASSUME Interrupt, UNCHANGED cacheVars PROVE Books'
  <2>1. \A q \in Proc : io[q].at = "dozing" => [io[q] EXCEPT !.at = "wait"] \in IoStates
    BY <1>0, Shapes, IoShapes
  <2>2. io' \in [Proc -> IoStates]
    BY <1>0, <1>14, <2>1 DEF Interrupt, TypeOK, DiskTypeOK
  <2>3. DiskTypeOK'
    BY <1>0, <1>14, <2>2 DEF Interrupt, TypeOK, DiskTypeOK
  <2> QED BY <1>b, <1>14, <2>3 DEF Interrupt
<1>15. ASSUME NEW h \in Desc, Transfer(h), UNCHANGED cacheVars PROVE Books'
  <2>1. PICK q \in Proc : InDriver(q) /\ info[h] = io[q].req
    BY <1>15, HeadRequest DEF Transfer
  <2>2. /\ info[h] \in Requests /\ info[h].buf = call[q].buf /\ block[call[q].buf] # None
        /\ call[q].buf \in Buf
    <3>1. /\ io[q].req \in Requests /\ call[q].buf \in Buf /\ call[q].blk \in Block
          /\ block[call[q].buf] = call[q].blk
      BY <2>1, OwnRequest
    <3>2. io[q].req.buf = call[q].buf
      BY <2>1, OwnRequest
    <3> QED BY <2>1, <3>1, <3>2 DEF Constants
  <2>3. data[info[h].buf] \in Value
    BY <1>0, <2>2 DEF OneBuffer, TypeOK, DiskTypeOK
  <2>4. disk' \in [Block -> Value] /\ data' \in [Buf -> Value \cup {None}]
        /\ \A m \in Buf : data'[m] = None => data[m] = None
    <3>1. info[h].blk \in Block /\ info[h].buf \in Buf
      BY <2>2 DEF Requests
    <3>2. disk \in [Block -> Value] /\ data \in [Buf -> Value \cup {None}] /\ None \notin Value
      BY <1>0 DEF TypeOK, DiskTypeOK, Constants
    <3>3. CASE info[h].wr
      BY <1>15, <2>3, <3>1, <3>2, <3>3 DEF Transfer
    <3>4. CASE ~info[h].wr
      BY <1>15, <3>1, <3>2, <3>4 DEF Transfer
    <3> QED BY <3>3, <3>4
  <2>5. DiskTypeOK'
    BY <1>0, <1>15, <2>4 DEF Transfer, TypeOK, DiskTypeOK
  <2> QED BY <1>b, <1>15, <2>4, <2>5
<1> QED BY Zenon, <1>1, <1>2, <1>3, <1>4, <1>5, <1>6, <1>7, <1>8, <1>9, <1>10, <1>11, <1>12, <1>13,
           <1>14, <1>15 DEF Next, Proceed, DiskStep, Device

-----------------------------------------------------------------------------
(* Who is in the driver, and who has a sleep lock.                         *)

(* What a process has to do in the driver stays as it is.                  *)
SameTask(q) ==
  /\ InDriver(q)' <=> InDriver(q)
  /\ Waits(q)' <=> Waits(q)
  /\ InDriver(q) => io'[q].req = io[q].req
  /\ Waits(q) => io'[q].chain = io[q].chain

(* A process that the step leaves alone.                                   *)
LEMMA SameIo == ASSUME NEW q, io'[q] = io[q] PROVE SameTask(q)
BY DEF SameTask, InDriver, Waits

(* A process that sleeps, wakes or looks again.                            *)
LEMMA MovedIo ==
  ASSUME TypeOK, NEW q \in Proc, NEW x, io'[q] = [io[q] EXCEPT !.at = x],
         \/ io[q].at \in {"alloc", "asleep"} /\ x \in {"alloc", "asleep"}
         \/ io[q].at \in {"wait", "dozing"} /\ x \in {"wait", "dozing"}
  PROVE  SameTask(q) /\ io'[q].at = x
<1>1. CASE io[q].at \in {"alloc", "asleep"} /\ x \in {"alloc", "asleep"}
  <2>1. io[q] \in [at : {"alloc", "asleep"}, req : Requests]
    BY <1>1, Shapes
  <2>2. io'[q].at = x /\ io'[q].req = io[q].req
    BY <2>1
  <2> QED BY <1>1, <2>2 DEF SameTask, InDriver, Waits
<1>2. CASE io[q].at \in {"wait", "dozing"} /\ x \in {"wait", "dozing"}
  <2>1. io[q] \in [at : {"wait", "dozing"}, req : Requests, chain : Seq(Desc)]
    BY <1>2, Shapes
  <2>2. io'[q].at = x /\ io'[q].req = io[q].req /\ io'[q].chain = io[q].chain
    BY <2>1
  <2> QED BY <1>2, <2>2 DEF SameTask, InDriver, Waits
<1> QED BY <1>1, <1>2

(* Who finds too few descriptors has still the same to do, and so have     *)
(* those it wakes.                                                         *)
LEMMA StarveIo ==
  ASSUME TypeOK, NEW p \in Proc, Starve(p), NEW q \in Proc
  PROVE  SameTask(q)
<1>1. /\ io'[p] = [io[p] EXCEPT !.at = "asleep"] /\ io[p].at = "alloc"
      /\ q # p => io'[q] = io[q] \/ io'[q] = WakeForDescs(io)[q]
  <2>1. WakeForDescs(io)[p] = io[p] /\ WakeForDescs(io) \in [Proc -> IoStates]
    BY Woken DEF Starve
  <2>2. io \in [Proc -> IoStates]
    BY DEF TypeOK, DiskTypeOK
  <2> QED BY <2>1, <2>2 DEF Starve
<1>2. CASE q = p
  BY <1>1, <1>2, MovedIo
<1>3. CASE q # p
  <2>1. io'[q] = io[q] \/ (io[q].at = "asleep" /\ io'[q] = [io[q] EXCEPT !.at = "alloc"])
    BY <1>1, <1>3, Woken
  <2> QED BY <2>1, SameIo, MovedIo
<1> QED BY <1>2, <1>3

(* Looking again, woken by a timer or not, changes no task.                *)
LEMMA LookIo ==
  ASSUME TypeOK, NEW p \in Proc, LookAgain(p) \/ Disturb(p), NEW q \in Proc
  PROVE  SameTask(q)
<1>1. /\ q # p => io'[q] = io[q]
      /\ \/ io[p].at = "wait" /\ io'[p] = [io[p] EXCEPT !.at = "dozing"]
         \/ io[p].at = "dozing" /\ io'[p] = [io[p] EXCEPT !.at = "wait"]
         \/ io[p].at = "asleep" /\ io'[p] = [io[p] EXCEPT !.at = "alloc"]
  BY DEF LookAgain, Disturb, TypeOK, DiskTypeOK
<1> QED BY <1>1, SameIo, MovedIo

(* An interrupt wakes sleepers and changes no task.                        *)
LEMMA InterruptIo ==
  ASSUME TypeOK, Interrupt, NEW q \in Proc
  PROVE  SameTask(q)
<1>1. \/ io'[q] = io[q]
      \/ io[q].at = "dozing" /\ io'[q] = [io[q] EXCEPT !.at = "wait"]
  BY DEF Interrupt
<1> QED BY <1>1, SameIo, MovedIo

(* A process that returns leaves the driver; the others have the same to   *)
(* do.                                                                     *)
LEMMA ReturnIo ==
  ASSUME TypeOK, NEW p \in Proc, Return(p), NEW q \in Proc
  PROVE  /\ q # p => SameTask(q)
         /\ ~InDriver(p)'
<1>1. io'[p] = NoIo /\ (q # p => io'[q] = WakeForDescs(io)[q])
  BY Woken DEF Return, Freed
<1>2. ASSUME q # p PROVE SameTask(q)
  <2>1. io'[q] = io[q] \/ (io[q].at = "asleep" /\ io'[q] = [io[q] EXCEPT !.at = "alloc"])
    BY <1>1, <1>2, Woken
  <2> QED BY <2>1, SameIo, MovedIo
<1> QED BY <1>1, <1>2 DEF NoIo, InDriver

(* A request takes three different free descriptors, of which the first is *)
(* its head.                                                               *)
LEMMA SubmitIo ==
  ASSUME Constants, TypeOK, NEW p \in Proc, Submit(p)
  PROVE  /\ \A q \in Proc \ {p} : SameTask(q)
         /\ InDriver(p) /\ InDriver(p)' /\ ~Waits(p) /\ Waits(p)' /\ io'[p].at = "dozing"
         /\ io'[p].req = io[p].req
         /\ \E a, b, c \in free :
              /\ a # b /\ a # c /\ b # c
              /\ io'[p].chain = <<a, b, c>>
              /\ free' = free \ {a, b, c}
              /\ Cardinality(free') = Cardinality(free) - 3
              /\ info' = [info EXCEPT ![a] = io[p].req]
              /\ avail' = avail \cup {a}
              /\ busy' = busy \cup {io[p].req.buf}
              /\ UNCHANGED <<data, disk, used>>
<1>1. PICK a \in free, b \in free, c \in free :
        /\ Three = <<a, b, c>> /\ a # b /\ a # c /\ b # c
        /\ Cardinality(free \ {a, b, c}) = Cardinality(free) - 3
  BY ThreeFacts DEF Submit
<1>2. io' = [io EXCEPT ![p] = [at |-> "dozing", req |-> io[p].req, chain |-> <<a, b, c>>]]
  BY <1>1 DEF Submit
<1>3. /\ free' = free \ {a, b, c}
      /\ info' = [info EXCEPT ![a] = io[p].req]
      /\ avail' = avail \cup {a}
      /\ busy' = busy \cup {io[p].req.buf}
      /\ UNCHANGED <<data, disk, used>>
      /\ io[p].at = "alloc"
  BY <1>1 DEF Submit
<1>4. io'[p] = [at |-> "dozing", req |-> io[p].req, chain |-> <<a, b, c>>]
      /\ \A q \in Proc \ {p} : io'[q] = io[q]
  BY <1>2 DEF TypeOK, DiskTypeOK
<1>5. io'[p].at = "dozing" /\ io'[p].req = io[p].req /\ io'[p].chain = <<a, b, c>>
  BY <1>4
<1>6. InDriver(p) /\ InDriver(p)' /\ ~Waits(p) /\ Waits(p)'
  BY <1>3, <1>5 DEF InDriver, Waits
<1>7. \A q \in Proc \ {p} : SameTask(q)
  BY <1>4, SameIo
<1> QED BY <1>1, <1>3, <1>5, <1>6, <1>7

(* p goes on in its call.                                                  *)
LEMMA CallMoved ==
  ASSUME TypeOK, NEW p \in Proc, call[p].at # "idle", NEW x, call' = [call EXCEPT ![p].at = x]
  PROVE  /\ call'[p].at = x /\ call'[p].buf = call[p].buf /\ call'[p].blk = call[p].blk
         /\ \A q \in Proc \ {p} : call'[q] = call[q]
<1>1. call'[p] = [call[p] EXCEPT !.at = x] /\ \A q \in Proc \ {p} : call'[q] = call[q]
  BY DEF TypeOK
<1>2. call[p] \in [at : {"lock", "check", "read", "have", "write", "put"},
                   buf : Buf, blk : Block]
  BY Shapes
<1> QED BY <1>1, <1>2

(* p begins or ends a call.                                                *)
LEMMA CallSet ==
  ASSUME TypeOK, NEW p \in Proc, NEW c, call' = [call EXCEPT ![p] = c]
  PROVE  call'[p] = c /\ \A q \in Proc \ {p} : call'[q] = call[q]
BY DEF TypeOK

(* Nobody has a sleep lock or is in the driver at the start.               *)
LEMMA HandsInit == Constants /\ Init => Locked /\ Synced
BY DEF Init, DiskInit, Locked, Synced, Holds, InDriver, Idle, NoIo, Constants

(* Locks and calls of the driver are those of the calls of the cache, after*)
(* every action.                                                           *)
LEMMA HandsStep == Constants /\ Inv /\ Next => Locked' /\ Synced'
<1> SUFFICES ASSUME Constants, Inv, Next PROVE Locked' /\ Synced'
  OBVIOUS
<1>0. TypeOK /\ OneBuffer /\ Locked /\ Synced
  BY DEF Inv
<1>n. None \notin Proc
  BY DEF Constants
(* A step of the driver.                                                   *)
<1>a. ASSUME UNCHANGED cacheVars,
             \A q \in Proc : /\ InDriver(q)' <=> InDriver(q)
                             /\ InDriver(q) => io'[q].req = io[q].req
      PROVE  Locked' /\ Synced'
  <2>1. Locked'
    BY <1>0, <1>a DEF Locked, Holds, cacheVars
  <2>2. Synced'
    BY <1>0, <1>a DEF Synced, cacheVars
  <2> QED BY <2>1, <2>2
(* A step of a call that does not touch the driver.                        *)
<1>b. ASSUME NEW p \in Proc, UNCHANGED io, call[p].at \notin {"read", "write"},
             call'[p].at \notin {"read", "write"},
             \A q \in Proc \ {p} : call'[q] = call[q]
      PROVE  Synced'
  BY <1>0, <1>b DEF Synced, InDriver
<1>c. ASSUME NEW p \in Proc, UNCHANGED slk, Holds(p)' <=> Holds(p),
             Holds(p) => call'[p].buf = call[p].buf,
             \A q \in Proc \ {p} : call'[q] = call[q]
      PROVE  Locked'
  BY <1>0, <1>c DEF Locked, Holds
<1>1. ASSUME NEW p \in Proc, Lock(p) PROVE Locked' /\ Synced'
  <2>1. /\ call'[p].at = "check" /\ call'[p].buf = call[p].buf
        /\ \A q \in Proc \ {p} : call'[q] = call[q]
    BY <1>0, <1>1, CallMoved DEF Lock
  <2>2. Synced'
    BY <1>b, <1>1, <2>1 DEF Lock, diskVars
  <2>3. /\ slk' = [slk EXCEPT ![call[p].buf] = p] /\ slk[call[p].buf] = None
        /\ call[p].buf \in Buf /\ ~Holds(p) /\ Holds(p)'
    BY <1>0, <1>1, <2>1, OwnBlock DEF Lock, Holds
  <2>4. \A q \in Proc \ {p} : (Holds(q)' <=> Holds(q)) /\ call'[q].buf = call[q].buf
    BY <2>1 DEF Holds
  <2>5. ASSUME NEW q \in Proc, NEW n \in Buf
        PROVE  slk'[n] = q <=> Holds(q)' /\ call'[q].buf = n
    <3>1. /\ slk'[n] = IF n = call[p].buf THEN p ELSE slk[n]
          /\ slk[n] = q <=> Holds(q) /\ call[q].buf = n
      BY <1>0, <2>3 DEF Locked, TypeOK
    <3>2. CASE q = p
      BY <2>1, <2>3, <3>1, <3>2
    <3>3. CASE q # p
      BY <1>n, <2>3, <2>4, <3>1, <3>3
    <3> QED BY <3>2, <3>3
  <2> QED BY <2>2, <2>5 DEF Locked
<1>2. ASSUME NEW p \in Proc, GotIt(p) PROVE Locked' /\ Synced'
  <2>1. /\ call'[p].at = "have" /\ call'[p].buf = call[p].buf
        /\ \A q \in Proc \ {p} : call'[q] = call[q]
    BY <1>0, <1>2, CallMoved DEF GotIt
  <2>2. Synced'
    BY <1>b, <1>2, <2>1 DEF GotIt, diskVars
  <2>3. Locked'
    BY <1>c, <1>2, <2>1 DEF GotIt, Holds
  <2> QED BY <2>2, <2>3
<1>3. ASSUME NEW p \in Proc, NEW x \in {"read", "write"},
             UNCHANGED slk, call' = [call EXCEPT ![p].at = x],
             call[p].at \in {"check", "have"},
             Call(p, call[p].buf, block[call[p].buf], x = "write")
      PROVE  Locked' /\ Synced'
  <2>1. /\ call'[p].at = x /\ call'[p].buf = call[p].buf /\ call'[p].blk = call[p].blk
        /\ \A q \in Proc \ {p} : call'[q] = call[q]
    BY <1>0, <1>3, CallMoved
  <2>2. Locked'
    BY <1>c, <1>3, <2>1 DEF Holds
  <2>3. block[call[p].buf] = call[p].blk
    BY <1>0, <1>3, OwnBlock
  <2>4. /\ io'[p] = [at |-> "alloc",
                     req |-> [buf |-> call[p].buf, blk |-> call[p].blk, wr |-> x = "write"]]
        /\ \A q \in Proc \ {p} : io'[q] = io[q]
    BY <1>0, <1>3, <2>3 DEF Call, TypeOK, DiskTypeOK
  <2>5. /\ io'[p].at = "alloc"
        /\ io'[p].req = [buf |-> call[p].buf, blk |-> call[p].blk, wr |-> x = "write"]
    BY <2>4
  <2>6. Synced'
    <3> SUFFICES ASSUME NEW q \in Proc
                 PROVE  /\ InDriver(q)' <=> call'[q].at \in {"read", "write"}
                        /\ InDriver(q)' =>
                             io'[q].req = [buf |-> call'[q].buf, blk |-> call'[q].blk,
                                           wr |-> call'[q].at = "write"]
      BY Zenon DEF Synced
    <3>1. CASE q = p
      BY <2>1, <2>5, <3>1 DEF InDriver
    <3>2. CASE q # p
      BY <1>0, <2>1, <2>4, <3>2 DEF Synced, InDriver
    <3> QED BY <3>1, <3>2
  <2> QED BY <2>2, <2>6
<1>4. ASSUME NEW p \in Proc, Read(p) PROVE Locked' /\ Synced'
  <2>1. ("read" = "write") = FALSE
    OBVIOUS
  <2> QED BY <1>3, <1>4, <2>1 DEF Read
<1>5. ASSUME NEW p \in Proc, NEW v \in Value, Write(p, v) PROVE Locked' /\ Synced'
  <2>1. ("write" = "write") = TRUE
    OBVIOUS
  <2> QED BY <1>3, <1>5, <2>1 DEF Write
<1>6. ASSUME NEW p \in Proc, Unlock(p) PROVE Locked' /\ Synced'
  <2>1. /\ call'[p].at = "put" /\ call'[p].buf = call[p].buf
        /\ \A q \in Proc \ {p} : call'[q] = call[q]
    BY <1>0, <1>6, CallMoved DEF Unlock
  <2>2. Synced'
    BY <1>b, <1>6, <2>1 DEF Unlock, diskVars
  <2>3. /\ slk' = [slk EXCEPT ![call[p].buf] = None]
        /\ call[p].buf \in Buf /\ Holds(p) /\ ~Holds(p)'
    BY <1>0, <1>6, <2>1, OwnBlock DEF Unlock, Holds
  <2>4. \A q \in Proc \ {p} : Holds(q)' <=> Holds(q)
    BY <2>1 DEF Holds
  <2>5. Locked'
    BY <1>0, <1>n, <2>1, <2>3, <2>4 DEF Locked, TypeOK
  <2> QED BY <2>2, <2>5
<1>7. ASSUME NEW p \in Proc, IoDone(p) PROVE Locked' /\ Synced'
  <2>0. InDriver(p) /\ call[p].at \in {"read", "write"}
    BY <1>0, <1>7 DEF IoDone, Return, Synced, InDriver
  <2>1. /\ call'[p].at = "have" /\ call'[p].buf = call[p].buf
        /\ \A q \in Proc \ {p} : call'[q] = call[q]
    BY <1>0, <1>7, <2>0, CallMoved DEF IoDone
  <2>2. Locked'
    BY <1>c, <1>7, <2>0, <2>1 DEF IoDone, Holds
  <2>3. (\A q \in Proc \ {p} : SameTask(q)) /\ ~InDriver(p)'
    BY <1>0, <1>7, ReturnIo DEF IoDone
  <2>4. Synced'
    BY <1>0, <2>1, <2>3 DEF Synced, SameTask
  <2> QED BY <2>2, <2>4
<1>8. ASSUME NEW p \in Proc, NEW b \in Block, NEW n \in Buf, Hit(p, b, n) PROVE Locked' /\ Synced'
  <2>1. /\ call'[p].at = "lock" /\ call[p].at = "idle"
        /\ \A q \in Proc \ {p} : call'[q] = call[q]
    <3>1. /\ call'[p] = [at |-> "lock", buf |-> n, blk |-> b]
          /\ \A q \in Proc \ {p} : call'[q] = call[q]
      BY <1>0, <1>8, CallSet DEF Hit
    <3> QED BY <1>8, <3>1 DEF Hit, Idle
  <2> QED BY <1>b, <1>c, <1>8, <2>1 DEF Hit, Holds, diskVars
<1>9. ASSUME NEW p \in Proc, NEW b \in Block, Miss(p, b) PROVE Locked' /\ Synced'
  <2>1. PICK n : call' = [call EXCEPT ![p] = [at |-> "lock", buf |-> n, blk |-> b]]
    BY <1>9 DEF Miss
  <2>2. /\ call'[p].at = "lock" /\ call[p].at = "idle"
        /\ \A q \in Proc \ {p} : call'[q] = call[q]
    <3>1. /\ call'[p] = [at |-> "lock", buf |-> n, blk |-> b]
          /\ \A q \in Proc \ {p} : call'[q] = call[q]
      BY <1>0, <2>1, CallSet
    <3> QED BY <1>9, <3>1 DEF Miss, Idle
  <2> QED BY <1>b, <1>c, <1>9, <2>2 DEF Miss, Holds
<1>10. ASSUME NEW p \in Proc, Unref(p) PROVE Locked' /\ Synced'
  <2>1. /\ call'[p].at = "idle" /\ call[p].at = "put"
        /\ \A q \in Proc \ {p} : call'[q] = call[q]
    <3>1. call'[p] = Idle /\ \A q \in Proc \ {p} : call'[q] = call[q]
      BY <1>0, <1>10, CallSet DEF Unref
    <3> QED BY <1>10, <3>1 DEF Unref, Idle
  <2> QED BY <1>b, <1>c, <1>10, <2>1 DEF Unref, Holds, diskVars
<1>11. ASSUME NEW k \in 1 .. Batch, FreeMem(k) PROVE Locked' /\ Synced'
  BY <1>0, <1>11 DEF FreeMem, Locked, Synced, Holds, InDriver
<1>12. ASSUME NEW p \in Proc, Submit(p), UNCHANGED cacheVars PROVE Locked' /\ Synced'
  <2>1. \A q \in Proc : /\ InDriver(q)' <=> InDriver(q)
                        /\ InDriver(q) => io'[q].req = io[q].req
    BY <1>0, <1>12, SubmitIo DEF SameTask
  <2> QED BY <1>a, <1>12, <2>1
<1>13. ASSUME NEW p \in Proc, Starve(p) \/ LookAgain(p) \/ Disturb(p), UNCHANGED cacheVars
       PROVE  Locked' /\ Synced'
  <2>1. \A q \in Proc : SameTask(q)
    BY <1>0, <1>13, StarveIo, LookIo
  <2> QED BY <1>a, <1>13, <2>1 DEF SameTask
<1>14. ASSUME Interrupt, UNCHANGED cacheVars PROVE Locked' /\ Synced'
  <2>1. \A q \in Proc : SameTask(q)
    BY <1>0, <1>14, InterruptIo
  <2> QED BY <1>a, <1>14, <2>1 DEF SameTask
<1>15. ASSUME NEW h \in Desc, Transfer(h), UNCHANGED cacheVars PROVE Locked' /\ Synced'
  BY <1>a, <1>15 DEF Transfer, InDriver
<1> QED BY Zenon, <1>1, <1>2, <1>4, <1>5, <1>6, <1>7, <1>8, <1>9, <1>10, <1>11, <1>12, <1>13,
           <1>14, <1>15 DEF Next, Proceed, DiskStep, Device

-----------------------------------------------------------------------------
(* Descriptors.                                                            *)

(* Who waits for the device.                                               *)
Waiting == {p \in Proc : Waits(p)}

(* The three descriptors of a request.                                     *)
Own(p) == {io[p].chain[i] : i \in 1 .. 3}

(* Chains and Spread, in these words.                                      *)
Held ==
  /\ \A p \in Proc : Waits(p) =>
       /\ Len(io[p].chain) = 3
       /\ io[p].chain[1] \notin free
       /\ io[p].chain[2] \notin free
       /\ io[p].chain[3] \notin free
       /\ info[io[p].chain[1]] = io[p].req
  /\ \A p, q \in Proc : p # q /\ Waits(p) /\ Waits(q) => Own(p) \cap Own(q) = {}
  /\ Cardinality(free) = NDesc - 3 * Cardinality(Waiting)

(* They say the same.                                                      *)
LEMMA ChainsHeld == Chains <=> Held
<1>1. \A p \in Proc : (\A i \in 1 .. 3 : io[p].chain[i] \notin free)
        <=> /\ io[p].chain[1] \notin free
            /\ io[p].chain[2] \notin free
            /\ io[p].chain[3] \notin free
  OBVIOUS
<1> DEFINE T1 == \A p \in Proc : io[p].at \in {"wait", "dozing"} =>
                   /\ Len(io[p].chain) = 3
                   /\ \A i \in 1 .. 3 : io[p].chain[i] \notin free
                   /\ info[io[p].chain[1]] = io[p].req
           T2 == \A p, q \in Proc :
                   /\ p # q
                   /\ io[p].at \in {"wait", "dozing"} /\ io[q].at \in {"wait", "dozing"}
                   => {io[p].chain[i] : i \in 1 .. 3} \cap {io[q].chain[i] : i \in 1 .. 3} = {}
           T3 == Cardinality(free)
                   = NDesc - 3 * Cardinality({p \in Proc : io[p].at \in {"wait", "dozing"}})
           H1 == \A p \in Proc : Waits(p) =>
                   /\ Len(io[p].chain) = 3
                   /\ io[p].chain[1] \notin free
                   /\ io[p].chain[2] \notin free
                   /\ io[p].chain[3] \notin free
                   /\ info[io[p].chain[1]] = io[p].req
           H2 == \A p, q \in Proc : p # q /\ Waits(p) /\ Waits(q) => Own(p) \cap Own(q) = {}
           H3 == Cardinality(free) = NDesc - 3 * Cardinality(Waiting)
<1>2. T1 <=> H1
  BY <1>1 DEF Waits
<1>3. T2 <=> H2
  BY Zenon DEF Waits, Own
<1>4. T3 <=> H3
  BY DEF Waits, Waiting
<1>5. Chains <=> T1 /\ T2 /\ T3
  BY Zenon DEF Chains
<1>6. Held <=> H1 /\ H2 /\ H3
  BY Zenon DEF Held
<1> HIDE DEF T1, T2, T3, H1, H2, H3
<1> QED BY <1>2, <1>3, <1>4, <1>5, <1>6

(* The descriptors of a process that waits.                                *)
LEMMA OwnChain ==
  ASSUME TypeOK, Held, NEW p \in Proc, Waits(p)
  PROVE  /\ Own(p) = {io[p].chain[1], io[p].chain[2], io[p].chain[3]}
         /\ io[p].chain[1] \in Desc /\ io[p].chain[2] \in Desc /\ io[p].chain[3] \in Desc
         /\ Own(p) \cap free = {}
<1>1. io[p].chain \in Seq(Desc) /\ Len(io[p].chain) = 3
  BY Shapes DEF Waits, Held
<1>2. Own(p) = {io[p].chain[1], io[p].chain[2], io[p].chain[3]}
  <2>1. 1 .. 3 = {1, 2, 3}
    OBVIOUS
  <2> QED BY <2>1 DEF Own
<1> QED BY <1>1, <1>2 DEF Held

(* Whose requests and descriptors stay as they are.                        *)
SameChain(q) ==
  /\ Waits(q)' <=> Waits(q)
  /\ Waits(q) => io'[q].chain = io[q].chain /\ io'[q].req = io[q].req

(* Whoever has the same to do has the same descriptors.                    *)
LEMMA TaskChain == ASSUME NEW q, SameTask(q) PROVE SameChain(q)
BY DEF SameTask, SameChain, InDriver, Waits

(* A step that takes no descriptor and frees none.                         *)
LEMMA SameHeld ==
  ASSUME Held, Spread, UNCHANGED <<free, info>>, \A q \in Proc : SameChain(q)
  PROVE  Held' /\ Spread'
<1>1. Waiting' = Waiting
  BY DEF Waiting, SameChain
<1>2. \A q \in Proc : Waits(q) => Own(q)' = Own(q)
  BY DEF Own, SameChain
<1>3. /\ \A p \in Proc : Waits(p)' =>
           /\ Len(io'[p].chain) = 3
           /\ io'[p].chain[1] \notin free'
           /\ io'[p].chain[2] \notin free'
           /\ io'[p].chain[3] \notin free'
           /\ info'[io'[p].chain[1]] = io'[p].req
  BY DEF Held, SameChain
<1>4. \A p, q \in Proc : p # q /\ Waits(p)' /\ Waits(q)' => Own(p)' \cap Own(q)' = {}
  BY <1>2 DEF Held, SameChain
<1>5. Held'
  BY <1>1, <1>3, <1>4 DEF Held
<1>6. Spread'
  BY DEF Spread, SameChain
<1> QED BY <1>5, <1>6

(* A step that does not touch the rings.                                   *)
LEMMA SameHeads ==
  ASSUME Heads, UNCHANGED <<avail, used, busy>>, \A q \in Proc : SameChain(q)
  PROVE  Heads'
<1>1. Seen' = Seen
  BY DEF Seen
<1> QED BY <1>1 DEF Heads, SameChain

(* A request that is made.                                                 *)
LEMMA SubmitHeads ==
  ASSUME Constants, Inv, NEW p \in Proc, Submit(p)
  PROVE  Held' /\ Spread' /\ Heads'
<1>0. TypeOK /\ Held /\ Spread /\ Heads /\ Synced
  BY ChainsHeld DEF Inv
<1>1. /\ \A q \in Proc \ {p} : SameTask(q)
      /\ InDriver(p) /\ InDriver(p)' /\ ~Waits(p) /\ Waits(p)' /\ io'[p].at = "dozing"
      /\ io'[p].req = io[p].req
  BY <1>0, SubmitIo
<1>2. PICK a \in free, b \in free, c \in free :
        /\ a # b /\ a # c /\ b # c
        /\ io'[p].chain = <<a, b, c>>
        /\ free' = free \ {a, b, c}
        /\ Cardinality(free') = Cardinality(free) - 3
        /\ info' = [info EXCEPT ![a] = io[p].req]
        /\ avail' = avail \cup {a}
        /\ busy' = busy \cup {io[p].req.buf}
        /\ UNCHANGED <<data, disk, used>>
  BY <1>0, SubmitIo
<1>3. \A q \in Proc \ {p} : SameChain(q)
  BY <1>1, TaskChain
<1>4. a \in Desc /\ info \in [Desc -> Requests \cup {None}]
  BY <1>0 DEF TypeOK, DiskTypeOK
<1>5. /\ io'[p].chain[1] = a /\ io'[p].chain[2] = b /\ io'[p].chain[3] = c
      /\ Len(io'[p].chain) = 3
  BY <1>2
<1>6. Own(p)' = {a, b, c}
  <2>1. 1 .. 3 = {1, 2, 3}
    OBVIOUS
  <2> QED BY <1>5, <2>1 DEF Own
<1>7. Waiting' = Waiting \cup {p} /\ p \notin Waiting
  BY <1>1, <1>3 DEF Waiting, SameChain
<1>8. /\ Cardinality(Waiting') = Cardinality(Waiting) + 1
      /\ Cardinality(Waiting) \in Nat /\ Cardinality(free) \in Int
  <2>1. IsFiniteSet(Waiting) /\ IsFiniteSet(free)
    <3>1. Waiting \subseteq Proc /\ IsFiniteSet(Proc)
      BY DEF Waiting, Constants
    <3>2. free \subseteq 0 .. NDesc - 1 /\ IsFiniteSet(0 .. NDesc - 1)
      BY <1>0, FS_Interval DEF TypeOK, DiskTypeOK, Desc, Constants
    <3> QED BY <3>1, <3>2, FS_Subset
  <2>2. Cardinality(Waiting) \in Nat /\ Cardinality(free) \in Nat
    BY <2>1, FS_CardinalityType
  <2>3. Cardinality(Waiting \cup {p}) = Cardinality(Waiting) + 1
    BY <1>7, <2>1, FS_AddElement
  <2> QED BY <1>7, <2>2, <2>3
<1>9. Cardinality(free)' = NDesc - 3 * Cardinality(Waiting')
  <2>1. Cardinality(free) = NDesc - 3 * Cardinality(Waiting)
    BY <1>0 DEF Held
  <2> QED BY <1>2, <1>8, <2>1 DEF Constants
<1>10. \A q \in Proc \ {p} : Waits(q)' =>
         /\ Waits(q) /\ io'[q].chain = io[q].chain /\ io'[q].req = io[q].req
         /\ Own(q)' = Own(q) /\ Own(q) \cap {a, b, c} = {}
         /\ io[q].chain[1] # a
  <2> SUFFICES ASSUME NEW q \in Proc \ {p}, Waits(q)'
               PROVE  /\ Waits(q) /\ io'[q].chain = io[q].chain /\ io'[q].req = io[q].req
                      /\ Own(q)' = Own(q) /\ Own(q) \cap {a, b, c} = {}
                      /\ io[q].chain[1] # a
    OBVIOUS
  <2>1. Waits(q) /\ io'[q].chain = io[q].chain /\ io'[q].req = io[q].req
    BY <1>3 DEF SameChain
  <2>2. Own(q)' = Own(q)
    BY <2>1 DEF Own
  <2>3. Own(q) \cap free = {} /\ io[q].chain[1] \in Own(q)
    BY <1>0, <2>1, OwnChain
  <2> QED BY <2>1, <2>2, <2>3
<1>11. \A q \in Proc : Waits(q)' =>
         /\ Len(io'[q].chain) = 3
         /\ io'[q].chain[1] \notin free'
         /\ io'[q].chain[2] \notin free'
         /\ io'[q].chain[3] \notin free'
         /\ info'[io'[q].chain[1]] = io'[q].req
  <2> SUFFICES ASSUME NEW q \in Proc, Waits(q)'
               PROVE  /\ Len(io'[q].chain) = 3
                      /\ io'[q].chain[1] \notin free'
                      /\ io'[q].chain[2] \notin free'
                      /\ io'[q].chain[3] \notin free'
                      /\ info'[io'[q].chain[1]] = io'[q].req
    OBVIOUS
  <2>1. CASE q = p
    BY <1>1, <1>2, <1>4, <1>5, <2>1
  <2>2. CASE q # p
    <3>1. /\ Waits(q) /\ io'[q].chain = io[q].chain /\ io'[q].req = io[q].req
          /\ io[q].chain[1] # a
      BY <1>10, <2>2
    <3>2. /\ Len(io[q].chain) = 3 /\ io[q].chain[1] \notin free
          /\ io[q].chain[2] \notin free /\ io[q].chain[3] \notin free
          /\ info[io[q].chain[1]] = io[q].req
      BY <1>0, <3>1 DEF Held
    <3>3. io[q].chain[1] \in Desc
      BY <1>0, <3>1, OwnChain
    <3> QED BY <1>2, <1>4, <3>1, <3>2, <3>3
  <2> QED BY <2>1, <2>2
<1>12. \A q, r \in Proc : q # r /\ Waits(q)' /\ Waits(r)' => Own(q)' \cap Own(r)' = {}
  <2> SUFFICES ASSUME NEW q \in Proc, NEW r \in Proc, q # r, Waits(q)', Waits(r)'
               PROVE  Own(q)' \cap Own(r)' = {}
    OBVIOUS
  <2>1. CASE q # p /\ r # p
    BY <1>0, <1>10, <2>1 DEF Held
  <2>2. CASE q = p
    BY <1>6, <1>10, <2>2
  <2>3. CASE r = p
    BY <1>6, <1>10, <2>3
  <2> QED BY <2>1, <2>2, <2>3
<1>13. Held'
  BY <1>9, <1>11, <1>12 DEF Held
<1>14. Spread'
  <2> SUFFICES ASSUME NEW q \in Proc, Waits(q)'
               PROVE  /\ io'[q].chain[1] # io'[q].chain[2]
                      /\ io'[q].chain[1] # io'[q].chain[3]
                      /\ io'[q].chain[2] # io'[q].chain[3]
    BY DEF Spread
  <2>1. CASE q = p
    BY <1>2, <1>5, <2>1
  <2>2. CASE q # p
    BY <1>0, <1>10, <2>2 DEF Spread
  <2> QED BY <2>1, <2>2
<1>15. Heads'
  <2>1. Seen' = Seen /\ avail' = avail \cup {a}
    BY <1>2 DEF Seen
  <2>2. \A h \in avail \cup Seen : \E q \in Proc \ {p} : Waits(q) /\ io[q].chain[1] = h
    BY <1>0, <1>1 DEF Heads
  <2>3. a \notin Seen
    <3>1. \A q \in Proc \ {p} : Waits(q) => io[q].chain[1] # a
      BY <1>3, <1>10 DEF SameChain
    <3> QED BY <2>2, <3>1
  <2>4. avail' \cap Seen' = {}
    BY <1>0, <2>1, <2>3 DEF Heads
  <2>5. \A h \in avail' \cup Seen' : \E q \in Proc : Waits(q)' /\ io'[q].chain[1] = h
    <3> SUFFICES ASSUME NEW h \in avail' \cup Seen'
                 PROVE  \E q \in Proc : Waits(q)' /\ io'[q].chain[1] = h
      OBVIOUS
    <3>1. CASE h = a
      BY <1>1, <1>5, <3>1
    <3>2. CASE h \in avail \cup Seen
      BY <1>3, <2>2, <3>2 DEF SameChain
    <3> QED BY <2>1, <3>1, <3>2
  <2>6. \A q \in Proc : Waits(q)' =>
          (io'[q].req.buf \in busy' <=> io'[q].chain[1] \in avail' \cup Seen')
    <3> SUFFICES ASSUME NEW q \in Proc, Waits(q)'
                 PROVE  io'[q].req.buf \in busy' <=> io'[q].chain[1] \in avail' \cup Seen'
      OBVIOUS
    <3>1. CASE q = p
      BY <1>1, <1>2, <1>5, <2>1, <3>1
    <3>2. CASE q # p
      <4>1. /\ Waits(q) /\ io'[q].chain = io[q].chain /\ io'[q].req = io[q].req
            /\ io[q].chain[1] # a
        BY <1>10, <3>2
      <4>2. io[q].req.buf = call[q].buf /\ io[p].req.buf = call[p].buf /\ Holds(p) /\ Holds(q)
        <5>1. InDriver(q)
          BY <4>1 DEF InDriver, Waits
        <5> QED BY <1>1, <5>1, OwnRequest DEF Holds
      <4>3. io[q].req.buf # io[p].req.buf
        BY <3>2, <4>2, Alone
      <4>4. io[q].req.buf \in busy <=> io[q].chain[1] \in avail \cup Seen
        BY <1>0, <4>1 DEF Heads
      <4> QED BY <1>2, <2>1, <4>1, <4>3, <4>4
    <3> QED BY <3>1, <3>2
  <2> QED BY <2>4, <2>5, <2>6 DEF Heads
<1> QED BY <1>13, <1>14, <1>15

(* A request that is over.                                                 *)
LEMMA ReturnHeads ==
  ASSUME Constants, Inv, NEW p \in Proc, Return(p)
  PROVE  Held' /\ Spread' /\ Heads'
<1>0. TypeOK /\ Held /\ Spread /\ Heads
  BY ChainsHeld DEF Inv
<1>1. /\ \A q \in Proc \ {p} : SameChain(q)
      /\ ~Waits(p)' /\ Waits(p)
  <2>1. (\A q \in Proc \ {p} : SameTask(q)) /\ ~InDriver(p)'
    BY <1>0, ReturnIo
  <2> QED BY <2>1, TaskChain DEF InDriver, Waits, Return
<1> DEFINE a == io[p].chain[1]
           b == io[p].chain[2]
           c == io[p].chain[3]
<1>2. /\ info' = [info EXCEPT ![a] = None]
      /\ free' = free \cup {a, b, c}
      /\ UNCHANGED <<data, disk, avail, used, busy>>
      /\ io[p].req.buf \notin busy
  BY DEF Return
<1>3. /\ Own(p) = {a, b, c} /\ a \in Desc /\ b \in Desc /\ c \in Desc
      /\ Own(p) \cap free = {}
      /\ a # b /\ a # c /\ b # c
      /\ a \notin avail \cup Seen
  BY <1>0, <1>1, <1>2, OwnChain DEF Spread, Heads
<1> HIDE DEF a, b, c
<1>4. Waiting' = Waiting \ {p} /\ p \in Waiting
  BY <1>1 DEF Waiting, SameChain
<1>5. /\ Cardinality(Waiting') = Cardinality(Waiting) - 1
      /\ Cardinality(Waiting) \in Nat /\ Cardinality(free) \in Int
      /\ Cardinality(free') = Cardinality(free) + 3
  <2>1. IsFiniteSet(Waiting) /\ IsFiniteSet(free)
    <3>1. Waiting \subseteq Proc /\ IsFiniteSet(Proc)
      BY DEF Waiting, Constants
    <3>2. free \subseteq 0 .. NDesc - 1 /\ IsFiniteSet(0 .. NDesc - 1)
      BY <1>0, FS_Interval DEF TypeOK, DiskTypeOK, Desc, Constants
    <3> QED BY <3>1, <3>2, FS_Subset
  <2>2. Cardinality(Waiting) \in Nat /\ Cardinality(free) \in Nat
    BY <2>1, FS_CardinalityType
  <2>3. Cardinality(Waiting') = Cardinality(Waiting) - 1
    BY <1>4, <2>1, FS_RemoveElement
  <2>4. a \notin free /\ b \notin free \cup {a} /\ c \notin (free \cup {a}) \cup {b}
    BY <1>3
  <2>5. /\ IsFiniteSet(free \cup {a})
        /\ Cardinality(free \cup {a}) = Cardinality(free) + 1
    BY <2>1, <2>4, FS_AddElement
  <2>6. /\ IsFiniteSet((free \cup {a}) \cup {b})
        /\ Cardinality((free \cup {a}) \cup {b}) = Cardinality(free) + 1 + 1
    BY <2>4, <2>5, FS_AddElement
  <2>7. Cardinality(((free \cup {a}) \cup {b}) \cup {c}) = Cardinality(free) + 1 + 1 + 1
    BY <2>4, <2>6, FS_AddElement
  <2>8. free' = ((free \cup {a}) \cup {b}) \cup {c}
    BY <1>2
  <2> QED BY <2>2, <2>3, <2>7, <2>8
<1>6. Cardinality(free)' = NDesc - 3 * Cardinality(Waiting')
  <2>1. Cardinality(free) = NDesc - 3 * Cardinality(Waiting)
    BY <1>0 DEF Held
  <2> QED BY <1>5, <2>1 DEF Constants
<1>7. \A q \in Proc : Waits(q)' =>
        /\ q # p /\ Waits(q) /\ io'[q].chain = io[q].chain /\ io'[q].req = io[q].req
        /\ Own(q)' = Own(q) /\ Own(q) \cap {a, b, c} = {}
  <2> SUFFICES ASSUME NEW q \in Proc, Waits(q)'
               PROVE  /\ q # p /\ Waits(q) /\ io'[q].chain = io[q].chain
                      /\ io'[q].req = io[q].req
                      /\ Own(q)' = Own(q) /\ Own(q) \cap {a, b, c} = {}
    OBVIOUS
  <2>1. q # p /\ Waits(q) /\ io'[q].chain = io[q].chain /\ io'[q].req = io[q].req
    BY <1>1 DEF SameChain
  <2>2. Own(q)' = Own(q)
    BY <2>1 DEF Own
  <2>3. Own(q) \cap Own(p) = {}
    BY <1>0, <1>1, <2>1 DEF Held
  <2> QED BY <1>3, <2>1, <2>2, <2>3
<1>8. \A q \in Proc : Waits(q)' =>
        /\ Len(io'[q].chain) = 3
        /\ io'[q].chain[1] \notin free'
        /\ io'[q].chain[2] \notin free'
        /\ io'[q].chain[3] \notin free'
        /\ info'[io'[q].chain[1]] = io'[q].req
  <2> SUFFICES ASSUME NEW q \in Proc, Waits(q)'
               PROVE  /\ Len(io'[q].chain) = 3
                      /\ io'[q].chain[1] \notin free'
                      /\ io'[q].chain[2] \notin free'
                      /\ io'[q].chain[3] \notin free'
                      /\ info'[io'[q].chain[1]] = io'[q].req
    OBVIOUS
  <2>1. /\ q # p /\ Waits(q) /\ io'[q].chain = io[q].chain /\ io'[q].req = io[q].req
        /\ Own(q) \cap {a, b, c} = {}
    BY <1>7
  <2>2. /\ Len(io[q].chain) = 3 /\ io[q].chain[1] \notin free
        /\ io[q].chain[2] \notin free /\ io[q].chain[3] \notin free
        /\ info[io[q].chain[1]] = io[q].req
    BY <1>0, <2>1 DEF Held
  <2>3. /\ io[q].chain[1] \in Desc
        /\ Own(q) = {io[q].chain[1], io[q].chain[2], io[q].chain[3]}
    BY <1>0, <2>1, OwnChain
  <2>4. info \in [Desc -> Requests \cup {None}]
    BY <1>0 DEF TypeOK, DiskTypeOK
  <2> QED BY <1>2, <2>1, <2>2, <2>3, <2>4
<1>9. \A q, r \in Proc : q # r /\ Waits(q)' /\ Waits(r)' => Own(q)' \cap Own(r)' = {}
  BY <1>0, <1>7 DEF Held
<1>10. Held'
  BY <1>6, <1>8, <1>9 DEF Held
<1>11. Spread'
  BY <1>0, <1>7 DEF Spread
<1>12. Heads'
  <2>1. Seen' = Seen /\ avail' = avail /\ busy' = busy
    BY <1>2 DEF Seen
  <2>2. \A h \in avail \cup Seen : \E q \in Proc : Waits(q)' /\ io'[q].chain[1] = h
    <3> SUFFICES ASSUME NEW h \in avail \cup Seen
                 PROVE  \E q \in Proc : Waits(q)' /\ io'[q].chain[1] = h
      OBVIOUS
    <3>1. PICK q \in Proc : Waits(q) /\ io[q].chain[1] = h
      BY <1>0 DEF Heads
    <3>2. q # p
      BY <1>3, <3>1 DEF a
    <3> QED BY <1>1, <3>1, <3>2 DEF SameChain
  <2> QED BY <1>0, <1>7, <2>1, <2>2 DEF Heads
<1> QED BY <1>10, <1>11, <1>12

(* The interrupt takes the done requests off the used ring, and nothing    *)
(* else keeps their buffers busy.                                          *)
LEMMA InterruptHeads ==
  ASSUME Constants, Inv, Interrupt
  PROVE  Held' /\ Spread' /\ Heads'
<1>0. TypeOK /\ Held /\ Spread /\ Heads
  BY ChainsHeld DEF Inv
<1>1. \A q \in Proc : SameChain(q)
  BY <1>0, InterruptIo, TaskChain
<1>2. Held' /\ Spread'
  BY <1>0, <1>1, SameHeld DEF Interrupt
<1> DEFINE done == {info[h].buf : h \in Seen}
<1>3. busy' = busy \ done /\ avail' = avail /\ Seen' = {}
  BY DEF Interrupt, Seen
<1>4. ASSUME NEW q \in Proc, Waits(q)
      PROVE  io[q].req.buf \in busy \ done <=> io[q].chain[1] \in avail
  <2>1. io[q].req.buf \in busy <=> io[q].chain[1] \in avail \cup Seen
    BY <1>0, <1>4 DEF Heads
  <2>2. ASSUME io[q].chain[1] \in Seen PROVE io[q].req.buf \in done
    <3>1. info[io[q].chain[1]] = io[q].req
      BY <1>0, <1>4 DEF Held
    <3> QED BY <2>2, <3>1
  <2>3. ASSUME NEW h \in Seen, info[h].buf = io[q].req.buf PROVE h = io[q].chain[1]
    <3>1. PICK p \in Proc : Waits(p) /\ InDriver(p) /\ io[p].chain[1] = h /\ info[h] = io[p].req
      BY HeadRequest
    <3>2. InDriver(q)
      BY <1>4 DEF InDriver, Waits
    <3>3. /\ io[q].req.buf = call[q].buf /\ io[p].req.buf = call[p].buf
          /\ Holds(p) /\ Holds(q)
      BY <3>1, <3>2, OwnRequest DEF Holds
    <3>4. p = q
      BY <2>3, <3>1, <3>3, Alone
    <3> QED BY <3>1, <3>4
  <2>4. io[q].chain[1] \notin avail \/ io[q].chain[1] \notin Seen
    BY <1>0 DEF Heads
  <2> QED BY <2>1, <2>2, <2>3, <2>4
<1> HIDE DEF done
<1>5. \A h \in avail : \E q \in Proc : Waits(q)' /\ io'[q].chain[1] = h
  BY <1>0, <1>1 DEF Heads, SameChain
<1>6. \A q \in Proc : Waits(q)' =>
        (io'[q].req.buf \in busy' <=> io'[q].chain[1] \in avail' \cup Seen')
  BY <1>1, <1>3, <1>4 DEF SameChain
<1>7. Heads'
  BY <1>3, <1>5, <1>6 DEF Heads
<1> QED BY <1>2, <1>7

(* The device moves a request from one ring to the other.                  *)
LEMMA TransferSeen ==
  ASSUME TypeOK, NEW h \in Desc, Transfer(h)
  PROVE  Seen' = Seen \cup {h} /\ avail' = avail \ {h} /\ h \in avail
<1>1. used' = Append(used, h) /\ used \in Seq(Desc)
  BY DEF Transfer, TypeOK, DiskTypeOK
<1>2. /\ Len(used') = Len(used) + 1 /\ Len(used) \in Nat
      /\ \A i \in 1 .. Len(used) : used'[i] = used[i]
      /\ used'[Len(used) + 1] = h
  BY <1>1
<1>3. Seen' = Seen \cup {h}
  <2>1. ASSUME NEW i \in 1 .. Len(used') PROVE used'[i] \in Seen \cup {h}
    <3>1. CASE i \in 1 .. Len(used)
      BY <1>2, <3>1 DEF Seen
    <3>2. CASE i = Len(used) + 1
      BY <1>2, <3>2
    <3> QED BY <1>2, <2>1, <3>1, <3>2
  <2>2. ASSUME NEW i \in 1 .. Len(used) PROVE used[i] \in Seen'
    <3>1. i \in 1 .. Len(used') /\ used'[i] = used[i]
      BY <1>2, <2>2
    <3> QED BY <3>1 DEF Seen
  <2>3. h \in Seen'
    <3>1. Len(used) + 1 \in 1 .. Len(used')
      BY <1>2
    <3> QED BY <1>2, <3>1 DEF Seen
  <2> QED BY <2>1, <2>2, <2>3 DEF Seen
<1> QED BY <1>3 DEF Transfer

(* What the device has done is on the used ring and keeps its descriptors. *)
LEMMA TransferHeads ==
  ASSUME Constants, Inv, NEW h \in Desc, Transfer(h)
  PROVE  Held' /\ Spread' /\ Heads'
<1>0. TypeOK /\ Held /\ Spread /\ Heads
  BY ChainsHeld DEF Inv
<1>1. \A q \in Proc : SameChain(q)
  BY SameIo, TaskChain DEF Transfer
<1>2. Held' /\ Spread'
  BY <1>0, <1>1, SameHeld DEF Transfer
<1>3. Seen' = Seen \cup {h} /\ avail' = avail \ {h} /\ h \in avail /\ busy' = busy
  BY <1>0, TransferSeen DEF Transfer
<1>4. Heads'
  BY <1>0, <1>1, <1>3 DEF Heads, SameChain
<1> QED BY <1>2, <1>4

(* All descriptors are free at the start.                                  *)
LEMMA HeadsInit == Constants /\ Init => Chains /\ Spread /\ Heads
<1> SUFFICES ASSUME Constants, Init PROVE Chains /\ Spread /\ Heads
  OBVIOUS
<1>1. \A p \in Proc : ~Waits(p)
  BY DEF Init, DiskInit, NoIo, Waits
<1>2. avail = {} /\ Seen = {}
  BY DEF Init, DiskInit, Seen
<1>3. Cardinality(free) = NDesc
  <2>1. free = 0 .. NDesc - 1 /\ NDesc \in Nat
    BY DEF Init, DiskInit, Desc, Constants
  <2>2. Cardinality(0 .. NDesc - 1) = IF 0 > NDesc - 1 THEN 0 ELSE NDesc - 1 - 0 + 1
    BY <2>1, FS_Interval
  <2> QED BY <2>1, <2>2
<1>4. Waiting = {} /\ Cardinality({}) = 0
  BY <1>1, FS_EmptySet DEF Waiting
<1>5. Held
  BY <1>1, <1>3, <1>4 DEF Held, Constants
<1> QED BY <1>1, <1>2, <1>5, ChainsHeld DEF Spread, Heads

(* Descriptors and rings stay in order in every action.                    *)
LEMMA HeadsStep == Constants /\ Inv /\ Next => Chains' /\ Spread' /\ Heads'
<1> SUFFICES ASSUME Constants, Inv, Next PROVE Held' /\ Spread' /\ Heads'
  <2>1. Chains' <=> Held'
    BY ChainsHeld, PTL
  <2> QED BY <2>1
<1>0. TypeOK /\ Held /\ Spread /\ Heads /\ Synced
  BY ChainsHeld DEF Inv
<1>a. ASSUME UNCHANGED <<free, info, avail, used, busy>>, \A q \in Proc : SameChain(q)
      PROVE  Held' /\ Spread' /\ Heads'
  BY <1>0, <1>a, SameHeld, SameHeads
<1>b. ASSUME UNCHANGED <<free, info, avail, used, busy, io>>
      PROVE  Held' /\ Spread' /\ Heads'
  <2>1. \A q \in Proc : SameChain(q)
    BY <1>b, SameIo, TaskChain
  <2> QED BY <1>a, <1>b, <2>1
<1>1. ASSUME NEW p \in Proc, NEW b \in Block, NEW n \in Buf, Hit(p, b, n)
      PROVE  Held' /\ Spread' /\ Heads'
  BY <1>1, <1>b DEF Hit, diskVars
<1>2. ASSUME NEW p \in Proc, NEW b \in Block, Miss(p, b) PROVE Held' /\ Spread' /\ Heads'
  BY <1>2, <1>b DEF Miss
<1>3. ASSUME NEW k \in 1 .. Batch, FreeMem(k) PROVE Held' /\ Spread' /\ Heads'
  BY <1>3, <1>b DEF FreeMem
<1>4. ASSUME NEW p \in Proc, NEW n, NEW b, NEW w, Call(p, n, b, w),
             call[p].at \in {"check", "have"},
             UNCHANGED <<free, info, avail, used, busy>>
      PROVE  Held' /\ Spread' /\ Heads'
  <2>1. ~Waits(p)
    BY <1>0, <1>4 DEF Synced, InDriver, Waits
  <2>2. /\ io'[p] = [at |-> "alloc", req |-> [buf |-> n, blk |-> b, wr |-> w]]
        /\ \A q \in Proc \ {p} : io'[q] = io[q]
    BY <1>0, <1>4 DEF Call, TypeOK, DiskTypeOK
  <2>3. ~Waits(p)'
    BY <2>2 DEF Waits
  <2>4. SameChain(p)
    BY <2>1, <2>3 DEF SameChain
  <2>5. \A q \in Proc \ {p} : SameChain(q)
    BY <2>2, SameIo, TaskChain
  <2> QED BY <1>4, <1>a, <2>4, <2>5
<1>5. ASSUME NEW p \in Proc, Read(p) PROVE Held' /\ Spread' /\ Heads'
  BY <1>5, <1>4 DEF Read
<1>6. ASSUME NEW p \in Proc, NEW v \in Value, Write(p, v) PROVE Held' /\ Spread' /\ Heads'
  BY <1>6, <1>4 DEF Write
<1>7. ASSUME NEW p \in Proc, IoDone(p) PROVE Held' /\ Spread' /\ Heads'
  BY <1>7, ReturnHeads DEF IoDone
<1>8. ASSUME NEW p \in Proc, Submit(p) PROVE Held' /\ Spread' /\ Heads'
  BY <1>8, SubmitHeads
<1>9. ASSUME NEW p \in Proc, Starve(p) \/ LookAgain(p) \/ Disturb(p)
      PROVE  Held' /\ Spread' /\ Heads'
  <2>1. \A q \in Proc : SameChain(q)
    BY <1>0, <1>9, StarveIo, LookIo, TaskChain
  <2> QED BY <1>9, <1>a, <2>1 DEF Starve, LookAgain, Disturb
<1>10. ASSUME Interrupt PROVE Held' /\ Spread' /\ Heads'
  BY <1>10, InterruptHeads
<1>11. ASSUME NEW h \in Desc, Transfer(h) PROVE Held' /\ Spread' /\ Heads'
  BY <1>11, TransferHeads
<1>12. ASSUME NEW p \in Proc, Lock(p) \/ GotIt(p) \/ Unlock(p) \/ Unref(p)
       PROVE  Held' /\ Spread' /\ Heads'
  BY <1>12, <1>b DEF Lock, GotIt, Unlock, Unref, diskVars
<1> QED BY Zenon, <1>1, <1>2, <1>3, <1>5, <1>6, <1>7, <1>8, <1>9, <1>10, <1>11, <1>12
        DEF Next, Proceed, DiskStep, Device

-----------------------------------------------------------------------------
(* What the buffers contain.                                               *)

(* A buffer that somebody uses is not up for another block.                *)
LEMMA OwnReference ==
  ASSUME Constants, Inv, NEW p \in Proc, call[p].at # "idle"
  PROVE  ref[call[p].buf] > 0
<1>1. call[p].buf \in Buf /\ p \in Users(call[p].buf)
  BY OwnBlock DEF Inv
<1>2. ref[call[p].buf] = Cardinality(Users(call[p].buf))
  BY <1>1 DEF Inv, OneBuffer
<1>3. Cardinality(Users(call[p].buf)) # 0 /\ Cardinality(Users(call[p].buf)) \in Nat
  <2>1. /\ Cardinality(Users(call[p].buf)) \in 0 .. Cardinality(Proc)
        /\ Cardinality(Users(call[p].buf)) = 0 <=> Users(call[p].buf) = {}
    BY UsersCount
  <2>2. Cardinality(Proc) \in Nat
    BY FS_CardinalityType DEF Constants
  <2> QED BY <1>1, <2>1, <2>2
<1> QED BY <1>2, <1>3

(* Two processes do not wait for one request.                              *)
LEMMA OwnHead ==
  ASSUME Inv, NEW p \in Proc, NEW q \in Proc, p # q, Waits(p), Waits(q)
  PROVE  io[p].chain[1] # io[q].chain[1]
<1>1. Held /\ TypeOK
  BY ChainsHeld DEF Inv
<1>2. io[p].chain[1] \in Own(p) /\ io[q].chain[1] \in Own(q)
  BY <1>1, OwnChain
<1> QED BY <1>1, <1>2 DEF Held

(* Two processes that have different buffers locked have different blocks. *)
LEMMA OwnContents ==
  ASSUME Constants, Inv, NEW p \in Proc, NEW n \in Buf, Holds(p), n # call[p].buf
  PROVE  block[n] # call[p].blk
<1>1. /\ call[p].buf \in Buf /\ call[p].blk \in Block
      /\ block[call[p].buf] = call[p].blk
  BY OwnBlock DEF Inv, Holds
<1>2. call[p].blk # None
  BY <1>1 DEF Constants
<1> QED BY <1>1, <1>2 DEF Inv, OneBuffer

(* A call goes on, begins or ends without I/O.                             *)
Aside(q) ==
  \/ call'[q] = call[q]
  \/ /\ call[q].at \notin {"read", "write"}
     /\ call'[q].at \notin {"read", "write"}
     /\ call'[q].at = "have" => valid[call'[q].buf]

(* A step without I/O changes no contents.                                 *)
LEMMA QuietContents ==
  ASSUME Contents, UNCHANGED <<data, disk, block, valid, avail>>,
         \A q \in Proc : SameChain(q), \A q \in Proc : Aside(q)
  PROVE  Contents'
<1>1. \A q \in Proc :
        /\ call'[q].at \in {"have", "write"} => valid'[call'[q].buf]
        /\ call'[q].at = "read" =>
             /\ ~valid'[call'[q].buf]
             /\ Waits(q)' /\ io'[q].chain[1] \notin avail' =>
                  data'[call'[q].buf] = disk'[call'[q].blk]
  BY DEF Contents, Aside, SameChain
<1>2. \A q \in Proc : Ahead(q) => Ahead(q)' /\ call'[q].buf = call[q].buf
  BY DEF Ahead, Aside, SameChain
<1>3. \A n \in Buf :
        valid'[n] /\ data'[n] # disk'[block'[n]] =>
          \E q \in Proc : Ahead(q)' /\ call'[q].buf = n
  BY <1>2 DEF Contents
<1> QED BY <1>1, <1>3 DEF Contents

(* Buffers that nobody uses lose their contents.                           *)
LEMMA EvictContents ==
  ASSUME Constants, Inv, NEW G, \A m \in G : ref[m] = 0 /\ ~valid'[m],
         \A m \in Buf \ G : valid'[m] = valid[m] /\ data'[m] = data[m] /\ block'[m] = block[m],
         UNCHANGED <<disk, avail, io>>,
         \A q \in Proc : \/ call'[q] = call[q]
                         \/ call[q].at = "idle" /\ call'[q].at = "lock"
  PROVE  Contents'
<1>0. Contents
  BY DEF Inv
<1>1. \A q \in Proc : call[q].at # "idle" => call[q].buf \in Buf \ G
  BY OwnBlock, OwnReference DEF Inv
<1>2. \A q \in Proc : Waits(q)' <=> Waits(q)
  BY DEF Waits
<1>3. \A q \in Proc :
        /\ call'[q].at \in {"have", "write"} => valid'[call'[q].buf]
        /\ call'[q].at = "read" =>
             /\ ~valid'[call'[q].buf]
             /\ Waits(q)' /\ io'[q].chain[1] \notin avail' =>
                  data'[call'[q].buf] = disk'[call'[q].blk]
  <2> SUFFICES ASSUME NEW q \in Proc, call'[q].at \in {"have", "write", "read"}
               PROVE  /\ call'[q].at \in {"have", "write"} => valid'[call'[q].buf]
                      /\ call'[q].at = "read" =>
                           /\ ~valid'[call'[q].buf]
                           /\ Waits(q)' /\ io'[q].chain[1] \notin avail' =>
                                data'[call'[q].buf] = disk'[call'[q].blk]
    OBVIOUS
  <2>1. call'[q] = call[q]
    OBVIOUS
  <2>2. /\ valid'[call[q].buf] = valid[call[q].buf]
        /\ data'[call[q].buf] = data[call[q].buf]
    BY <1>1, <2>1
  <2> QED BY <1>0, <1>2, <2>1, <2>2 DEF Contents
<1>4. \A q \in Proc : Ahead(q) => Ahead(q)' /\ call'[q].buf = call[q].buf
  BY <1>2 DEF Ahead
<1>5. \A n \in Buf :
        valid'[n] /\ data'[n] # disk'[block'[n]] =>
          \E q \in Proc : Ahead(q)' /\ call'[q].buf = n
  BY <1>0, <1>4 DEF Contents
<1> QED BY <1>3, <1>5 DEF Contents

(* A process begins to read or to write.                                   *)
LEMMA CallContents ==
  ASSUME Constants, Inv, NEW p \in Proc,
         \/ Read(p)
         \/ \E v \in Value : Write(p, v)
  PROVE  Contents'
<1>0. TypeOK /\ OneBuffer /\ Contents /\ Synced
  BY DEF Inv
<1>1. PICK x \in {"read", "write"} :
        /\ call' = [call EXCEPT ![p].at = x]
        /\ x = "read" => call[p].at = "check" /\ ~valid[call[p].buf] /\ data' = data
        /\ x = "write" => call[p].at = "have"
        /\ \A n \in Buf : n # call[p].buf => data'[n] = data[n]
        /\ \E w : io' = [io EXCEPT ![p] = [at |-> "alloc", req |-> w]]
        /\ UNCHANGED <<block, valid, disk, avail>>
  <2>0. data \in [Buf -> Value \cup {None}]
    BY <1>0 DEF TypeOK, DiskTypeOK
  <2>1. CASE Read(p)
    BY <2>1 DEF Read, Call
  <2>2. ASSUME NEW v \in Value, Write(p, v)
        PROVE  /\ call' = [call EXCEPT ![p].at = "write"]
               /\ call[p].at = "have"
               /\ \A n \in Buf : n # call[p].buf => data'[n] = data[n]
               /\ \E w : io' = [io EXCEPT ![p] = [at |-> "alloc", req |-> w]]
               /\ UNCHANGED <<block, valid, disk, avail>>
    BY <2>0, <2>2 DEF Write, Call
  <2> QED BY <2>1, <2>2
<1>2. /\ call'[p].at = x /\ call'[p].buf = call[p].buf /\ call'[p].blk = call[p].blk
      /\ \A q \in Proc \ {p} : call'[q] = call[q]
  BY <1>0, <1>1, CallMoved
<1>3. /\ ~Waits(p) /\ ~Waits(p)'
      /\ \A q \in Proc \ {p} : io'[q] = io[q] /\ (Waits(q)' <=> Waits(q))
  <2>1. ~Waits(p)
    BY <1>0, <1>1 DEF Synced, InDriver, Waits
  <2>2. io'[p].at = "alloc" /\ \A q \in Proc \ {p} : io'[q] = io[q]
    BY <1>0, <1>1 DEF TypeOK, DiskTypeOK
  <2> QED BY <2>1, <2>2 DEF Waits
<1>4. call[p].buf \in Buf /\ Holds(p)
  BY <1>0, <1>1, OwnBlock DEF Holds
<1>5. \A q \in Proc \ {p} : Holds(q) => call[q].buf \in Buf /\ call[q].buf # call[p].buf
  BY <1>0, <1>4, OwnBlock, Alone DEF Holds
<1>6. \A q \in Proc :
        /\ call'[q].at \in {"have", "write"} => valid'[call'[q].buf]
        /\ call'[q].at = "read" =>
             /\ ~valid'[call'[q].buf]
             /\ Waits(q)' /\ io'[q].chain[1] \notin avail' =>
                  data'[call'[q].buf] = disk'[call'[q].blk]
  <2> SUFFICES ASSUME NEW q \in Proc
               PROVE  /\ call'[q].at \in {"have", "write"} => valid'[call'[q].buf]
                      /\ call'[q].at = "read" =>
                           /\ ~valid'[call'[q].buf]
                           /\ Waits(q)' /\ io'[q].chain[1] \notin avail' =>
                                data'[call'[q].buf] = disk'[call'[q].blk]
    OBVIOUS
  <2>1. CASE q = p
    BY <1>0, <1>1, <1>2, <1>3, <2>1 DEF Contents
  <2>2. CASE q # p
    <3>1. call'[q] = call[q] /\ io'[q] = io[q] /\ (Waits(q)' <=> Waits(q))
      BY <1>2, <1>3, <2>2
    <3>2. ASSUME call[q].at = "read" PROVE data'[call[q].buf] = data[call[q].buf]
      BY <1>1, <1>5, <2>2, <3>2 DEF Holds
    <3> QED BY <1>0, <1>1, <3>1, <3>2 DEF Contents
  <2> QED BY <2>1, <2>2
<1>7. \A q \in Proc : Ahead(q) => Ahead(q)' /\ call'[q].buf = call[q].buf
  BY <1>1, <1>2, <1>3 DEF Ahead
<1>8. ASSUME NEW n \in Buf, valid'[n], data'[n] # disk'[block'[n]]
      PROVE  \E q \in Proc : Ahead(q)' /\ call'[q].buf = n
  <2>1. CASE n # call[p].buf \/ x = "read"
    BY <1>0, <1>1, <1>7, <1>8, <2>1 DEF Contents
  <2>2. CASE n = call[p].buf /\ x = "write"
    BY <1>2, <1>3, <2>2 DEF Ahead
  <2> QED BY <2>1, <2>2
<1> QED BY <1>6, <1>8 DEF Contents

(* A process comes back from the driver: the device has read what the disk *)
(* holds, or written what the buffer contains.                             *)
LEMMA DoneContents ==
  ASSUME Constants, Inv, NEW p \in Proc, IoDone(p)
  PROVE  Contents' /\ data[call[p].buf] = disk[call[p].blk]
<1>0. TypeOK /\ OneBuffer /\ Contents /\ Heads
  BY DEF Inv
<1>1. /\ Waits(p) /\ InDriver(p) /\ Return(p)
      /\ call' = [call EXCEPT ![p].at = "have"]
      /\ valid' = [valid EXCEPT ![call[p].buf] = TRUE]
      /\ UNCHANGED <<block, data, disk, avail>>
  BY DEF IoDone, Return, Waits, InDriver
<1>2. /\ call[p].at \in {"read", "write"} /\ Holds(p)
      /\ call[p].buf \in Buf /\ call[p].blk \in Block
      /\ block[call[p].buf] = call[p].blk
      /\ io[p].req.buf = call[p].buf
  BY <1>1, OwnRequest DEF Holds
<1>3. io[p].chain[1] \notin avail
  BY <1>0, <1>1 DEF Heads, Return
<1>4. /\ call'[p].at = "have" /\ call'[p].buf = call[p].buf
      /\ \A q \in Proc \ {p} : call'[q] = call[q]
  BY <1>0, <1>1, <1>2, CallMoved
<1>5. \A q \in Proc \ {p} : SameChain(q)
  BY <1>0, <1>1, ReturnIo, TaskChain
<1>6. valid'[call[p].buf] /\ \A n \in Buf : n # call[p].buf => valid'[n] = valid[n]
  BY <1>0, <1>1, <1>2 DEF TypeOK
<1>7. \A q \in Proc \ {p} : Holds(q) => call[q].buf \in Buf /\ call[q].buf # call[p].buf
  BY <1>0, <1>2, OwnBlock, Alone DEF Holds
<1>8. data[call[p].buf] = disk[call[p].blk]
  <2>1. CASE call[p].at = "read"
    BY <1>0, <1>1, <1>3, <2>1 DEF Contents
  <2>2. CASE call[p].at = "write"
    <3>1. valid[call[p].buf] /\ ~Ahead(p)
      BY <1>0, <1>1, <1>3, <2>2 DEF Contents, Ahead
    <3>2. \A q \in Proc : Ahead(q) => call[q].buf # call[p].buf
      BY <1>7, <3>1 DEF Ahead, Holds
    <3> QED BY <1>0, <1>2, <3>1, <3>2 DEF Contents
  <2> QED BY <1>2, <2>1, <2>2
<1>9. \A q \in Proc :
        /\ call'[q].at \in {"have", "write"} => valid'[call'[q].buf]
        /\ call'[q].at = "read" =>
             /\ ~valid'[call'[q].buf]
             /\ Waits(q)' /\ io'[q].chain[1] \notin avail' =>
                  data'[call'[q].buf] = disk'[call'[q].blk]
  <2> SUFFICES ASSUME NEW q \in Proc
               PROVE  /\ call'[q].at \in {"have", "write"} => valid'[call'[q].buf]
                      /\ call'[q].at = "read" =>
                           /\ ~valid'[call'[q].buf]
                           /\ Waits(q)' /\ io'[q].chain[1] \notin avail' =>
                                data'[call'[q].buf] = disk'[call'[q].blk]
    OBVIOUS
  <2>1. CASE q = p
    BY <1>4, <1>6, <2>1
  <2>2. CASE q # p
    <3>1. call'[q] = call[q] /\ SameChain(q)
      BY <1>4, <1>5, <2>2
    <3>2. ASSUME Holds(q) PROVE valid'[call[q].buf] = valid[call[q].buf]
      BY <1>6, <1>7, <2>2, <3>2
    <3> QED BY <1>0, <1>1, <3>1, <3>2 DEF Contents, Holds, SameChain
  <2> QED BY <2>1, <2>2
<1>10. ASSUME NEW n \in Buf, valid'[n], data'[n] # disk'[block'[n]]
       PROVE  \E q \in Proc : Ahead(q)' /\ call'[q].buf = n
  <2>1. n # call[p].buf
    BY <1>1, <1>2, <1>8, <1>10
  <2>2. PICK q \in Proc : Ahead(q) /\ call[q].buf = n
    BY <1>0, <1>1, <1>6, <1>10, <2>1 DEF Contents
  <2>3. q # p
    BY <2>1, <2>2
  <2>4. call'[q] = call[q] /\ SameChain(q) /\ avail' = avail
    BY <1>1, <1>4, <1>5, <2>3
  <2>5. Ahead(q)' /\ call'[q].buf = n
    BY <2>2, <2>4 DEF Ahead, SameChain
  <2> QED BY <2>5
<1> QED BY <1>8, <1>9, <1>10 DEF Contents

(* A request is made.                                                      *)
LEMMA SubmitContents ==
  ASSUME Constants, Inv, NEW p \in Proc, Submit(p), UNCHANGED cacheVars
  PROVE  Contents'
<1>0. TypeOK /\ Contents
  BY DEF Inv
<1>1. /\ \A q \in Proc \ {p} : SameTask(q)
      /\ ~Waits(p) /\ Waits(p)'
      /\ \E a : io'[p].chain[1] = a /\ avail' = avail \cup {a}
      /\ UNCHANGED <<data, disk>>
  BY <1>0, SubmitIo
<1>2. \A q \in Proc \ {p} : SameChain(q)
  BY <1>1, TaskChain
<1>3. UNCHANGED <<call, valid, block>>
  BY DEF cacheVars
<1>4. \A q \in Proc : Ahead(q) => Ahead(q)'
  BY <1>1, <1>2, <1>3 DEF Ahead, SameChain
<1>5. \A q \in Proc :
        Waits(q)' /\ io'[q].chain[1] \notin avail' =>
          Waits(q) /\ io[q].chain[1] \notin avail
  BY <1>1, <1>2 DEF SameChain
<1> QED BY <1>0, <1>1, <1>3, <1>4, <1>5 DEF Contents

(* What the device does when it does the request of p.                     *)
LEMMA TransferEffect ==
  ASSUME Constants, Inv, NEW h \in Desc, Transfer(h)
  PROVE  \E p \in Proc :
           /\ Waits(p) /\ io[p].chain[1] = h /\ Holds(p)
           /\ \/ /\ call[p].at = "write" /\ data' = data
                 /\ disk' = [disk EXCEPT ![call[p].blk] = data[call[p].buf]]
              \/ /\ call[p].at = "read" /\ disk' = disk
                 /\ data' = [data EXCEPT ![call[p].buf] = disk[call[p].blk]]
<1>1. h \in avail
  BY DEF Transfer
<1>2. PICK p \in Proc : /\ Waits(p) /\ InDriver(p)
                        /\ io[p].chain[1] = h /\ info[h] = io[p].req
  BY <1>1, HeadRequest
<1>3. /\ call[p].at \in {"read", "write"} /\ Holds(p)
      /\ io[p].req.buf = call[p].buf /\ io[p].req.blk = call[p].blk
      /\ io[p].req.wr <=> call[p].at = "write"
  BY <1>2, OwnRequest DEF Holds
<1>4. CASE call[p].at = "write"
  BY <1>2, <1>3, <1>4 DEF Transfer
<1>5. CASE call[p].at = "read"
  BY <1>2, <1>3, <1>5 DEF Transfer
<1> QED BY <1>2, <1>3, <1>4, <1>5

(* The device keeps buffers and disk in agreement, request by request.     *)
LEMMA TransferContents ==
  ASSUME Constants, Inv, NEW h \in Desc, Transfer(h), UNCHANGED cacheVars
  PROVE  Contents'
<1>0. TypeOK /\ OneBuffer /\ Contents
  BY DEF Inv
<1>1. PICK p \in Proc :
        /\ Waits(p) /\ io[p].chain[1] = h /\ Holds(p)
        /\ \/ /\ call[p].at = "write" /\ data' = data
              /\ disk' = [disk EXCEPT ![call[p].blk] = data[call[p].buf]]
           \/ /\ call[p].at = "read" /\ disk' = disk
              /\ data' = [data EXCEPT ![call[p].buf] = disk[call[p].blk]]
  BY TransferEffect
<1>2. UNCHANGED <<call, valid, block, io>> /\ avail' = avail \ {h}
  BY DEF cacheVars, Transfer
<1>3. /\ call[p].buf \in Buf /\ call[p].blk \in Block
      /\ block[call[p].buf] = call[p].blk
  BY <1>0, <1>1, OwnBlock DEF Holds
<1>4. ASSUME NEW n \in Buf, n # call[p].buf, NEW b \in Block, b # call[p].blk
      PROVE  data'[n] = data[n] /\ disk'[b] = disk[b]
  BY <1>0, <1>1, <1>4 DEF TypeOK, DiskTypeOK
<1>5. \A q \in Proc \ {p} : Holds(q) =>
        /\ call[q].buf \in Buf /\ call[q].buf # call[p].buf
        /\ call[q].blk \in Block /\ call[q].blk # call[p].blk
  <2> SUFFICES ASSUME NEW q \in Proc \ {p}, Holds(q)
               PROVE  /\ call[q].buf \in Buf /\ call[q].buf # call[p].buf
                      /\ call[q].blk \in Block /\ call[q].blk # call[p].blk
    OBVIOUS
  <2>1. /\ call[q].buf \in Buf /\ call[q].blk \in Block
        /\ block[call[q].buf] = call[q].blk
    BY <1>0, OwnBlock DEF Holds
  <2>2. call[q].buf # call[p].buf
    BY <1>1, Alone
  <2> QED BY <1>1, <2>1, <2>2, OwnContents
<1>6. \A q \in Proc : Waits(q)' <=> Waits(q)
  BY <1>2 DEF Waits
<1>7. \A q \in Proc \ {p} : Waits(q) => io[q].chain[1] # h
  BY <1>1, OwnHead
<1>8. \A q \in Proc \ {p} : Ahead(q) => Ahead(q)'
  BY <1>2, <1>6, <1>7 DEF Ahead
<1>9. \A q \in Proc :
        /\ call'[q].at \in {"have", "write"} => valid'[call'[q].buf]
        /\ call'[q].at = "read" =>
             /\ ~valid'[call'[q].buf]
             /\ Waits(q)' /\ io'[q].chain[1] \notin avail' =>
                  data'[call'[q].buf] = disk'[call'[q].blk]
  <2> SUFFICES ASSUME NEW q \in Proc, call[q].at = "read",
                      Waits(q), io[q].chain[1] \notin avail'
               PROVE  data'[call[q].buf] = disk'[call[q].blk]
    BY <1>0, <1>2, <1>6 DEF Contents
  <2>1. CASE q = p
    BY <1>0, <1>1, <1>3, <2>1 DEF TypeOK, DiskTypeOK
  <2>2. CASE q # p
    <3>1. io[q].chain[1] \notin avail /\ Holds(q)
      BY <1>2, <1>7, <2>2 DEF Holds
    <3>2. data'[call[q].buf] = data[call[q].buf] /\ disk'[call[q].blk] = disk[call[q].blk]
      BY <1>4, <1>5, <2>2, <3>1
    <3> QED BY <1>0, <3>1, <3>2 DEF Contents
  <2> QED BY <2>1, <2>2
<1>10. ASSUME NEW n \in Buf, valid[n], data'[n] # disk'[block[n]]
       PROVE  \E q \in Proc : Ahead(q)' /\ call[q].buf = n
  <2>1. n # call[p].buf
    <3>1. ASSUME n = call[p].buf PROVE FALSE
      <4>1. CASE call[p].at = "write"
        BY <1>0, <1>1, <1>3, <1>10, <3>1, <4>1 DEF TypeOK, DiskTypeOK
      <4>2. CASE call[p].at = "read"
        BY <1>0, <1>10, <3>1, <4>2 DEF Contents
      <4> QED BY <1>1, <4>1, <4>2
    <3> QED BY <3>1
  <2>2. block[n] \in Block /\ block[n] # call[p].blk
    <3>1. block[n] # None /\ block[n] \in Block \cup {None}
      BY <1>0, <1>10 DEF OneBuffer, TypeOK
    <3> QED BY <1>1, <2>1, <3>1, OwnContents
  <2>3. data[n] # disk[block[n]]
    BY <1>4, <1>10, <2>1, <2>2
  <2>4. PICK q \in Proc : Ahead(q) /\ call[q].buf = n
    BY <1>0, <1>10, <2>3 DEF Contents
  <2>5. Ahead(q)'
    BY <1>8, <2>1, <2>4
  <2> QED BY <2>4, <2>5
<1>11. ASSUME NEW n \in Buf, valid'[n], data'[n] # disk'[block'[n]]
       PROVE  \E q \in Proc : Ahead(q)' /\ call'[q].buf = n
  BY <1>2, <1>10, <1>11
<1> QED BY <1>9, <1>11 DEF Contents

(* No buffer is valid at the start.                                        *)
LEMMA ContentsInit == Constants /\ Init => Contents
BY DEF Init, Contents, Idle

(* What is valid is right after every action.                              *)
LEMMA ContentsStep == Constants /\ Inv /\ Next => Contents'
<1> SUFFICES ASSUME Constants, Inv, Next PROVE Contents'
  OBVIOUS
<1>0. TypeOK /\ OneBuffer /\ Once /\ Contents
  BY DEF Inv
<1>a. ASSUME UNCHANGED <<data, disk, block, valid, avail, call>>,
             \A q \in Proc : SameTask(q)
      PROVE  Contents'
  <2>1. \A q \in Proc : SameChain(q) /\ Aside(q)
    BY <1>a, TaskChain DEF Aside
  <2> QED BY <1>0, <1>a, <2>1, QuietContents
<1>b. ASSUME UNCHANGED <<data, disk, block, valid, avail, io>>,
             \A q \in Proc : Aside(q)
      PROVE  Contents'
  <2>1. \A q \in Proc : SameChain(q)
    BY <1>b, SameIo, TaskChain
  <2> QED BY <1>0, <1>b, <2>1, QuietContents
<1>1. ASSUME NEW p \in Proc, NEW b \in Block, NEW n \in Buf, Hit(p, b, n) PROVE Contents'
  <2>1. /\ call'[p] = [at |-> "lock", buf |-> n, blk |-> b]
        /\ \A q \in Proc \ {p} : call'[q] = call[q]
    BY <1>0, <1>1, CallSet DEF Hit
  <2>2. call[p].at = "idle" /\ call'[p].at = "lock"
    BY <1>1, <2>1 DEF Hit, Idle
  <2> QED BY <1>b, <1>1, <2>1, <2>2 DEF Aside, Hit, diskVars
<1>2. ASSUME NEW p \in Proc, NEW b \in Block, Miss(p, b) PROVE Contents'
  <2>1. PICK n \in Buf, gone \in SUBSET Buf : MissEffect(p, b, n, gone)
    BY <1>0, <1>2, MissFacts
  <2>2. /\ call'[p] = [at |-> "lock", buf |-> n, blk |-> b]
        /\ \A q \in Proc \ {p} : call'[q] = call[q]
    BY <1>0, <2>1, CallSet DEF MissEffect
  <2>3. \A q \in Proc : \/ call'[q] = call[q]
                        \/ call[q].at = "idle" /\ call'[q].at = "lock"
    BY <2>1, <2>2 DEF MissEffect, Idle
  <2>4. /\ \A m \in gone \cup {n} : ref[m] = 0 /\ ~valid'[m]
        /\ \A m \in Buf \ (gone \cup {n}) :
             valid'[m] = valid[m] /\ data'[m] = data[m] /\ block'[m] = block[m]
        /\ UNCHANGED <<disk, avail, io>>
    BY <1>0, <2>1 DEF MissEffect, TypeOK
  <2> QED BY <2>3, <2>4, EvictContents
<1>3. ASSUME NEW k \in 1 .. Batch, FreeMem(k) PROVE Contents'
  <2>1. PICK gone \in SUBSET Buf : FreeEffect(gone)
    BY <1>0, <1>3, FreeFacts
  <2>2. /\ \A m \in gone : ref[m] = 0 /\ ~valid'[m]
        /\ \A m \in Buf \ gone :
             valid'[m] = valid[m] /\ data'[m] = data[m] /\ block'[m] = block[m]
        /\ UNCHANGED <<disk, avail, io>>
        /\ \A q \in Proc : call'[q] = call[q]
    BY <1>0, <2>1 DEF FreeEffect, TypeOK
  <2> QED BY <2>2, EvictContents
<1>4. ASSUME NEW p \in Proc, Lock(p) PROVE Contents'
  <2>1. /\ call'[p].at = "check" /\ call[p].at = "lock"
        /\ \A q \in Proc \ {p} : call'[q] = call[q]
    BY <1>0, <1>4, CallMoved DEF Lock
  <2> QED BY <1>b, <1>4, <2>1 DEF Aside, Lock, diskVars
<1>5. ASSUME NEW p \in Proc, GotIt(p) PROVE Contents'
  <2>1. /\ call[p].at = "check" /\ valid[call[p].buf]
        /\ call'[p].at = "have" /\ call'[p].buf = call[p].buf
        /\ \A q \in Proc \ {p} : call'[q] = call[q]
    BY <1>0, <1>5, CallMoved DEF GotIt
  <2> QED BY <1>b, <1>5, <2>1 DEF Aside, GotIt, diskVars
<1>6. ASSUME NEW p \in Proc, Unlock(p) PROVE Contents'
  <2>1. /\ call'[p].at = "put" /\ call[p].at = "have"
        /\ \A q \in Proc \ {p} : call'[q] = call[q]
    BY <1>0, <1>6, CallMoved DEF Unlock
  <2> QED BY <1>b, <1>6, <2>1 DEF Aside, Unlock, diskVars
<1>7. ASSUME NEW p \in Proc, Unref(p) PROVE Contents'
  <2>1. call'[p] = Idle /\ \A q \in Proc \ {p} : call'[q] = call[q]
    BY <1>0, <1>7, CallSet DEF Unref
  <2>2. call'[p].at = "idle" /\ call[p].at = "put"
    BY <1>7, <2>1 DEF Idle, Unref
  <2> QED BY <1>b, <1>7, <2>1, <2>2 DEF Aside, Unref, diskVars
<1>8. ASSUME NEW p \in Proc, Starve(p) \/ LookAgain(p) \/ Disturb(p), UNCHANGED cacheVars
      PROVE  Contents'
  <2>1. \A q \in Proc : SameTask(q)
    BY <1>0, <1>8, StarveIo, LookIo
  <2> QED BY <1>a, <1>8, <2>1 DEF Starve, LookAgain, Disturb, cacheVars
<1>9. ASSUME Interrupt, UNCHANGED cacheVars PROVE Contents'
  <2>1. \A q \in Proc : SameTask(q)
    BY <1>0, <1>9, InterruptIo
  <2> QED BY <1>a, <1>9, <2>1 DEF Interrupt, cacheVars
<1>10. ASSUME NEW p \in Proc, Read(p) PROVE Contents'
  BY <1>10, CallContents
<1>11. ASSUME NEW p \in Proc, NEW v \in Value, Write(p, v) PROVE Contents'
  BY <1>11, CallContents
<1>12. ASSUME NEW p \in Proc, IoDone(p) PROVE Contents'
  BY <1>12, DoneContents
<1>13. ASSUME NEW p \in Proc, Submit(p), UNCHANGED cacheVars PROVE Contents'
  BY <1>13, SubmitContents
<1>14. ASSUME NEW h \in Desc, Transfer(h), UNCHANGED cacheVars PROVE Contents'
  BY <1>14, TransferContents
<1> QED BY Zenon, <1>1, <1>2, <1>3, <1>4, <1>5, <1>6, <1>7, <1>8, <1>9, <1>10, <1>11, <1>12,
           <1>13, <1>14 DEF Next, Proceed, DiskStep, Device

-----------------------------------------------------------------------------
(* The invariant.                                                          *)
LEMMA InvInit == ASSUME Constants PROVE Init => Inv
BY Zenon, BooksInit, HandsInit, HeadsInit, ContentsInit DEF Books, Inv

(* The invariant is inductive.                                             *)
LEMMA InvStep == ASSUME Constants PROVE Inv /\ [Next]_vars => Inv'
<1>1. ASSUME Inv, Next PROVE Inv'
  BY Zenon, <1>1, BooksStep, HandsStep, HeadsStep, ContentsStep DEF Books, Inv
<1>2. ASSUME Inv, UNCHANGED vars PROVE Inv'
  <2>1. UNCHANGED <<data, disk, free, info, avail, used, busy, io>>
        /\ UNCHANGED <<block, ref, valid, active, inactive, slk, call>>
    BY <1>2 DEF vars, diskVars, cacheVars
  <2>2. TypeOK' /\ OneBuffer' /\ Once'
    <3>1. TypeOK' /\ Once'
      BY <1>2, <2>1 DEF Inv, TypeOK, DiskTypeOK, Once, Distinct
    <3>2. \A n : Users(n)' = Users(n)
      BY <2>1 DEF Users
    <3>3. OneBuffer'
      BY <1>2, <2>1, <3>2 DEF Inv, OneBuffer
    <3> QED BY <3>1, <3>3
  <2>3. Locked' /\ Synced'
    BY <1>2, <2>1 DEF Inv, Locked, Holds, Synced, InDriver
  <2>4. Contents'
    BY <1>2, <2>1 DEF Inv, Waits, Contents, Ahead
  <2>5. Chains' /\ Spread' /\ Heads'
    <3>1. \A q \in Proc : SameChain(q)
      BY <2>1, SameIo, TaskChain
    <3>2. Held /\ Spread /\ Heads
      BY <1>2, ChainsHeld DEF Inv
    <3>3. Held' /\ Spread' /\ Heads'
      BY <2>1, <3>1, <3>2, SameHeld, SameHeads
    <3>4. Chains' <=> Held'
      BY ChainsHeld, PTL
    <3> QED BY <3>3, <3>4
  <2> QED BY Zenon, <2>2, <2>3, <2>4, <2>5 DEF Inv
<1> QED BY <1>1, <1>2

(* It holds in every reachable state.                                      *)
LEMMA Invariant == ASSUME Constants PROVE Spec => []Inv
BY InvInit, InvStep, PTL DEF Spec

-----------------------------------------------------------------------------
(* Nothing comes to a stop.                                                *)

(* Sets of buffers are finite.                                             *)
LEMMA Buffers ==
  ASSUME Constants
  PROVE  /\ IsFiniteSet(Buf) /\ Cardinality(Buf) = NBuf
         /\ \A S \in SUBSET Buf : /\ IsFiniteSet(S) /\ Cardinality(S) \in Nat
                                  /\ Cardinality(S) <= NBuf
<1>1. NBuf \in Nat /\ 0 \in Int /\ NBuf - 1 \in Int
  BY DEF Constants
<1>2. IsFiniteSet(0 .. NBuf - 1)
      /\ Cardinality(0 .. NBuf - 1) = IF 0 > NBuf - 1 THEN 0 ELSE NBuf - 1 - 0 + 1
  BY <1>1, FS_Interval
<1>3. IsFiniteSet(Buf) /\ Cardinality(Buf) = NBuf
  BY <1>1, <1>2 DEF Buf
<1>4. ASSUME NEW S \in SUBSET Buf
      PROVE  IsFiniteSet(S) /\ Cardinality(S) \in Nat /\ Cardinality(S) <= NBuf
  <2>1. IsFiniteSet(S) /\ Cardinality(S) <= Cardinality(Buf)
    BY <1>3, FS_Subset
  <2> QED BY <1>3, <2>1, FS_CardinalityType
<1> QED BY <1>3, <1>4

(* A victim's new page is a free one or one that was taken from another.   *)
LEMMA MissPaged ==
  ASSUME Constants, Inv, Afford, NEW p \in Proc, NEW b \in Block, Miss(p, b)
  PROVE  Afford'
<1>0. TypeOK /\ OneBuffer /\ Once
  BY DEF Inv
<1>1. inactive \in Seq(Buf) /\ inactive # <<>>
  BY <1>0 DEF Miss, TypeOK
<1>2. PICK n \in Buf : n = Victim
  BY <1>1 DEF Victim
<1>3. PICK gone : gone = Robbed(n)
  OBVIOUS
<1>4. PICK v \in Value :
        data' = [Forgets(data, gone) EXCEPT ![n] = IF @ = None THEN v ELSE @]
  BY <1>2, <1>3 DEF Miss
<1>5. data[n] # None \/ Pages > 0 \/ gone # {}
  BY <1>2, <1>3 DEF Miss, HasPage
<1>6. gone # {} => data[n] = None /\ Pages = 0
  BY <1>3 DEF Robbed
<1>7. \A m \in gone : m \in Paged /\ m # n
  BY <1>0, <1>3, ReclaimedFree DEF Robbed, Paged
<1>8. data'[n] # None /\ \A m \in Buf \ {n} : data'[m] = IF m \in gone THEN None ELSE data[m]
  BY <1>0, <1>4, <1>7 DEF Forgets, TypeOK, DiskTypeOK, Constants
<1>9. Paged' = (Paged \ gone) \cup {n}
  BY <1>7, <1>8 DEF Paged
<1>10. /\ IsFiniteSet(Paged) /\ Cardinality(Paged) \in Nat
       /\ NPage \in Nat /\ Cardinality(Paged) <= NPage
       /\ Pages = NPage - Cardinality(Paged)
  BY Buffers DEF Paged, Afford, Pages, Constants
<1>11. CASE data[n] # None
  <2>1. Paged' = Paged
    BY <1>2, <1>6, <1>9, <1>11 DEF Paged
  <2> QED BY <1>10, <2>1 DEF Afford
<1>12. CASE gone = {} /\ data[n] = None
  <2>1. Paged' = Paged \cup {n} /\ n \notin Paged
    BY <1>9, <1>12 DEF Paged
  <2>2. Cardinality(Paged \cup {n}) = Cardinality(Paged) + 1
    BY <1>10, <2>1, FS_AddElement
  <2> QED BY <1>5, <1>10, <1>12, <2>1, <2>2 DEF Afford
<1>13. CASE gone # {}
  <2>1. PICK g : g \in gone
    BY <1>13
  <2>2. /\ IsFiniteSet(Paged \ {g})
        /\ Cardinality(Paged \ {g}) = Cardinality(Paged) - 1
    BY <1>7, <1>10, <2>1, FS_RemoveElement
  <2>3. n \notin Paged
    BY <1>6, <1>13 DEF Paged
  <2>4. /\ IsFiniteSet((Paged \ {g}) \cup {n})
        /\ Cardinality((Paged \ {g}) \cup {n}) = Cardinality(Paged \ {g}) + 1
    BY <2>2, <2>3, FS_AddElement
  <2>5. Paged' \subseteq (Paged \ {g}) \cup {n}
    BY <1>9, <2>1
  <2>6. Cardinality(Paged') <= Cardinality((Paged \ {g}) \cup {n})
    BY <2>4, <2>5, FS_Subset
  <2>7. Cardinality(Paged') \in Nat
    BY <2>4, <2>5, FS_Subset, FS_CardinalityType
  <2> QED BY <1>10, <2>2, <2>4, <2>6, <2>7 DEF Afford
<1> QED BY <1>11, <1>12, <1>13

(* The pages of the buffers stay within what there is.                     *)
LEMMA PagedStep == ASSUME Constants, Inv, Afford, Next PROVE Afford'
<1>0. TypeOK /\ OneBuffer /\ data \in [Buf -> Value \cup {None}]
  BY DEF Inv, TypeOK, DiskTypeOK
<1>n. None \notin Value /\ None \notin Block
  BY DEF Constants
<1>a. ASSUME Paged' \subseteq Paged PROVE Afford'
  <2>1. /\ IsFiniteSet(Paged) /\ Cardinality(Paged) \in Nat
        /\ NPage \in Nat /\ Cardinality(Paged) <= NPage
    BY Buffers DEF Paged, Afford, Constants
  <2>2. Cardinality(Paged') <= Cardinality(Paged) /\ Cardinality(Paged') \in Nat
    BY <1>a, <2>1, FS_Subset, FS_CardinalityType
  <2> QED BY <2>1, <2>2 DEF Afford
<1>b. ASSUME data' = data PROVE Afford'
  BY <1>a, <1>b DEF Paged
(* The contents of a buffer that somebody uses change.                     *)
<1>c. ASSUME NEW p \in Proc, call[p].at # "idle", NEW v,
             data' = [data EXCEPT ![call[p].buf] = v]
      PROVE  Afford'
  <2>1. call[p].buf \in Buf /\ data[call[p].buf] # None
    BY <1>0, <1>n, <1>c, OwnBlock DEF OneBuffer
  <2>2. \A m \in Buf : data'[m] # None => data[m] # None
    BY <1>0, <1>c, <2>1
  <2> QED BY <1>a, <2>2 DEF Paged
<1>1. ASSUME NEW p \in Proc, NEW b \in Block, NEW n \in Buf, Hit(p, b, n) PROVE Afford'
  BY <1>1, <1>b DEF Hit, diskVars
<1>2. ASSUME NEW p \in Proc, NEW b \in Block, Miss(p, b) PROVE Afford'
  BY <1>2, MissPaged
<1>3. ASSUME NEW k \in 1 .. Batch, FreeMem(k) PROVE Afford'
  <2>1. PICK gone \in SUBSET Buf : FreeEffect(gone)
    BY <1>0, <1>3, FreeFacts
  <2>2. Paged' \subseteq Paged
    BY <2>1 DEF FreeEffect, Paged
  <2> QED BY <1>a, <2>2
<1>4. ASSUME NEW p \in Proc, \/ Lock(p) \/ GotIt(p) \/ Unlock(p) \/ Unref(p) \/ Read(p)
                             \/ IoDone(p) \/ DiskStep(p) \/ Disturb(p)
      PROVE  Afford'
  BY <1>4, <1>b DEF Lock, GotIt, Unlock, Unref, Read, IoDone, Return, DiskStep, Submit,
                    Starve, LookAgain, Disturb, diskVars
<1>5. ASSUME NEW p \in Proc, NEW v \in Value, Write(p, v) PROVE Afford'
  <2>1. call[p].at # "idle" /\ data' = [data EXCEPT ![call[p].buf] = v]
    BY <1>5 DEF Write
  <2> QED BY <1>c, <2>1
<1>6. ASSUME Interrupt PROVE Afford'
  BY <1>6, <1>b DEF Interrupt
<1>7. ASSUME NEW h \in Desc, Transfer(h) PROVE Afford'
  <2>1. PICK p \in Proc :
          /\ Waits(p) /\ io[p].chain[1] = h /\ Holds(p)
          /\ \/ /\ call[p].at = "write" /\ data' = data
                /\ disk' = [disk EXCEPT ![call[p].blk] = data[call[p].buf]]
             \/ /\ call[p].at = "read" /\ disk' = disk
                /\ data' = [data EXCEPT ![call[p].buf] = disk[call[p].blk]]
    BY <1>7, TransferEffect
  <2> QED BY <1>b, <1>c, <2>1 DEF Holds
<1> QED BY Zenon, <1>1, <1>2, <1>3, <1>4, <1>5, <1>6, <1>7 DEF Next, Proceed, Device

(* DiskAwake, with what the invariant says of the rings.                   *)
Dozers == \A p \in Proc : io[p].at = "dozing" => io[p].req.buf \in busy
Sleepers ==
  (\E p \in Proc : io[p].at = "asleep") =>
    \E q \in Proc : io[q].at \in {"alloc", "wait", "dozing"}

(* DiskAwake in parts.                                                     *)
LEMMA AwakeParts == ASSUME Heads PROVE DiskAwake <=> Dozers /\ Sleepers
<1>1. \A p \in Proc : io[p].at = "dozing" /\ io[p].req.buf \in busy =>
        \E h \in avail \cup Seen : h = io[p].chain[1]
  BY DEF Heads, Waits
<1> QED BY <1>1 DEF DiskAwake, Dozers, Sleepers

(* Whoever sleeps in the driver has somebody to wake it, after every       *)
(* action: descriptors are short only while a request is under way.        *)
LEMMA AwakeStep == ASSUME Constants, Enough, Inv, Dozers, Sleepers, Next
                   PROVE  Dozers' /\ Sleepers'
<1>0. TypeOK /\ Held /\ Synced
  BY ChainsHeld DEF Inv
<1>a. ASSUME UNCHANGED <<io, busy>> PROVE Dozers' /\ Sleepers'
  BY <1>a DEF Dozers, Sleepers
(* p goes on and is awake.                                                 *)
<1>b. ASSUME NEW p \in Proc, \A q \in Proc \ {p} : io'[q] = io[q],
             io'[p].at \in {"alloc", "wait", "dozing"}, busy \subseteq busy',
             io'[p].at = "dozing" => io'[p].req.buf \in busy'
      PROVE  Dozers' /\ Sleepers'
  BY <1>b DEF Dozers, Sleepers
<1>1. ASSUME NEW p \in Proc, NEW b \in Block, NEW n \in Buf, Hit(p, b, n)
      PROVE  Dozers' /\ Sleepers'
  BY <1>1, <1>a DEF Hit, diskVars
<1>2. ASSUME NEW p \in Proc, NEW b \in Block, Miss(p, b) PROVE Dozers' /\ Sleepers'
  BY <1>2, <1>a DEF Miss
<1>3. ASSUME NEW k \in 1 .. Batch, FreeMem(k) PROVE Dozers' /\ Sleepers'
  BY <1>3, <1>a DEF FreeMem
<1>4. ASSUME NEW p \in Proc, Lock(p) \/ GotIt(p) \/ Unlock(p) \/ Unref(p)
      PROVE  Dozers' /\ Sleepers'
  BY <1>4, <1>a DEF Lock, GotIt, Unlock, Unref, diskVars
<1>5. ASSUME NEW p \in Proc, NEW n, NEW b, NEW w, Call(p, n, b, w), UNCHANGED busy
      PROVE  Dozers' /\ Sleepers'
  <2>1. /\ io'[p] = [at |-> "alloc", req |-> [buf |-> n, blk |-> b, wr |-> w]]
        /\ \A q \in Proc \ {p} : io'[q] = io[q]
    BY <1>0, <1>5 DEF Call, TypeOK, DiskTypeOK
  <2>2. io'[p].at = "alloc"
    BY <2>1
  <2> QED BY <1>5, <1>b, <2>1, <2>2
<1>6. ASSUME NEW p \in Proc, Read(p) PROVE Dozers' /\ Sleepers'
  BY <1>5, <1>6 DEF Read
<1>7. ASSUME NEW p \in Proc, NEW v \in Value, Write(p, v) PROVE Dozers' /\ Sleepers'
  BY <1>5, <1>7 DEF Write
<1>8. ASSUME NEW p \in Proc, IoDone(p) PROVE Dozers' /\ Sleepers'
  <2>1. io'[p].at = "out" /\ \A q \in Proc \ {p} : io'[q] = WakeForDescs(io)[q]
    BY <1>0, <1>8, Woken DEF IoDone, Return, Freed, NoIo
  <2>2. \A q \in Proc : io[q].at = "asleep" => WakeForDescs(io)[q].at = "alloc"
    <3> SUFFICES ASSUME NEW q \in Proc, io[q].at = "asleep"
                 PROVE  WakeForDescs(io)[q].at = "alloc"
      OBVIOUS
    <3>1. io[q] \in [at : {"alloc", "asleep"}, req : Requests]
      BY <1>0, Shapes
    <3> QED BY <1>0, <3>1, Woken
  <2>3. \A q \in Proc \ {p} : (io'[q] = io[q] /\ io[q].at # "asleep") \/ io'[q].at = "alloc"
    BY <1>0, <2>1, <2>2, Woken
  <2>4. busy' = busy
    BY <1>8 DEF IoDone, Return
  <2> QED BY <2>1, <2>3, <2>4 DEF Dozers, Sleepers
<1>9. ASSUME NEW p \in Proc, Submit(p) PROVE Dozers' /\ Sleepers'
  <2>1. /\ io'[p].at = "dozing" /\ io'[p].req = io[p].req
        /\ busy' = busy \cup {io[p].req.buf}
    BY <1>0, <1>9, SubmitIo
  <2>2. \A q \in Proc \ {p} : io'[q] = io[q]
    BY <1>0, <1>9 DEF Submit, TypeOK, DiskTypeOK
  <2> QED BY <1>b, <2>1, <2>2
<1>10. ASSUME NEW p \in Proc, Starve(p) PROVE Dozers' /\ Sleepers'
  <2>1. Waiting # {}
    <3>1. ASSUME Waiting = {} PROVE Cardinality(free) = NDesc
      BY <1>0, <3>1, FS_EmptySet DEF Held, Constants
    <3>2. Cardinality(free) < 3 /\ NDesc >= 3
      BY <1>10 DEF Starve, Enough
    <3> QED BY <3>1, <3>2 DEF Constants
  <2>2. PICK r \in Proc : Waits(r)
    BY <2>1 DEF Waiting
  <2>3. Waits(r)'
    BY <1>0, <1>10, <2>2, StarveIo DEF SameTask
  <2>4. \A q \in Proc : io'[q].at = "dozing" => io'[q] = io[q]
    <3> SUFFICES ASSUME NEW q \in Proc PROVE io'[q].at = "dozing" => io'[q] = io[q]
      OBVIOUS
    <3>1. CASE io[q].at \in {"alloc", "asleep"}
      <4>1. ~Waits(q)'
        BY <1>0, <1>10, <3>1, StarveIo DEF SameTask, Waits
      <4> QED BY <4>1 DEF Waits
    <3>2. CASE io[q].at \notin {"alloc", "asleep"}
      BY <1>0, <1>10, <3>2, Woken DEF Starve, TypeOK, DiskTypeOK
    <3> QED BY <3>1, <3>2
  <2>5. busy' = busy
    BY <1>10 DEF Starve
  <2>6. Dozers'
    BY <2>4, <2>5 DEF Dozers
  <2>7. Sleepers'
    BY <2>3 DEF Sleepers, Waits
  <2> QED BY <2>6, <2>7
<1>11. ASSUME NEW p \in Proc, LookAgain(p) \/ Disturb(p) PROVE Dozers' /\ Sleepers'
  <2>1. /\ \A q \in Proc \ {p} : io'[q] = io[q]
        /\ \/ /\ io[p].at = "wait" /\ io'[p] = [io[p] EXCEPT !.at = "dozing"]
              /\ io[p].req.buf \in busy
           \/ io[p].at = "dozing" /\ io'[p] = [io[p] EXCEPT !.at = "wait"]
           \/ io[p].at = "asleep" /\ io'[p] = [io[p] EXCEPT !.at = "alloc"]
        /\ busy' = busy
    BY <1>0, <1>11 DEF LookAgain, Disturb, TypeOK, DiskTypeOK
  <2>2. \/ io'[p].at = "dozing" /\ io[p].req.buf \in busy /\ InDriver(p)
        \/ io'[p].at \in {"wait", "alloc"}
    BY <1>0, <2>1, MovedIo DEF InDriver
  <2>3. InDriver(p) => io'[p].req = io[p].req
    BY <1>0, <1>11, LookIo DEF SameTask
  <2> QED BY <1>b, <2>1, <2>2, <2>3
<1>12. ASSUME Interrupt PROVE Dozers' /\ Sleepers'
  <2> DEFINE done == {info[h].buf : h \in Seen}
  <2>1. /\ busy' = busy \ done
        /\ \A q \in Proc :
             io'[q] = IF io[q].at = "dozing" /\ io[q].req.buf \in done
                      THEN [io[q] EXCEPT !.at = "wait"] ELSE io[q]
    BY <1>12 DEF Interrupt
  <2> HIDE DEF done
  <2>2. \A q \in Proc :
          \/ /\ io'[q] = io[q]
             /\ io[q].at = "dozing" => io[q].req.buf \notin done
          \/ io'[q].at = "wait" /\ io[q].at = "dozing"
    <3> SUFFICES ASSUME NEW q \in Proc, io[q].at = "dozing", io[q].req.buf \in done
                 PROVE  io'[q].at = "wait"
      BY <2>1
    <3>1. io'[q] = [io[q] EXCEPT !.at = "wait"]
      BY <2>1
    <3> QED BY <1>0, <3>1, MovedIo
  <2> QED BY <2>1, <2>2 DEF Dozers, Sleepers
<1>13. ASSUME NEW h \in Desc, Transfer(h) PROVE Dozers' /\ Sleepers'
  BY <1>13, <1>a DEF Transfer
<1> QED BY Zenon, <1>1, <1>2, <1>3, <1>4, <1>6, <1>7, <1>8, <1>9, <1>10, <1>11, <1>12, <1>13
        DEF Next, Proceed, DiskStep, Device

(* There are more buffers and pages than buffers that somebody uses, when  *)
(* a process is not in a call.                                             *)
LEMMA SomeUnused ==
  ASSUME Constants, Enough, Inv, NEW p \in Proc, call[p] = Idle
  PROVE  /\ InUse \in SUBSET Buf
         /\ Cardinality(InUse) < NBuf /\ Cardinality(InUse) < NPage
<1>0. TypeOK /\ OneBuffer
  BY DEF Inv
<1> DEFINE B == Proc \ {p}
           f == [q \in B |-> call[q].buf]
           T == {f[q] : q \in B}
<1>1. /\ IsFiniteSet(Proc) /\ IsFiniteSet(B)
      /\ Cardinality(B) = Cardinality(Proc) - 1
      /\ Cardinality(Proc) \in Nat
  BY FS_RemoveElement, FS_CardinalityType, FS_Subset DEF Constants
<1>2. IsFiniteSet(T) /\ Cardinality(T) <= Cardinality(B)
  <2>1. f \in Surjection(B, T)
    BY DEF Surjection
  <2> HIDE DEF f, T, B
  <2> QED BY <1>1, <2>1, FS_Surjection
<1>3. InUse \subseteq T
  <2> SUFFICES ASSUME NEW n \in Buf, ref[n] > 0 PROVE n \in T
    BY DEF InUse
  <2>1. ref[n] = Cardinality(Users(n))
    BY <1>0 DEF OneBuffer
  <2>2. Users(n) # {}
    BY <2>1, UsersCount
  <2>3. PICK q \in Proc : call[q] # Idle /\ call[q].buf = n
    BY <2>2 DEF Users
  <2>4. q \in B
    BY <2>3
  <2> QED BY <2>3, <2>4
<1>4. IsFiniteSet(InUse) /\ Cardinality(InUse) \in Nat /\ Cardinality(InUse) <= Cardinality(T)
  BY <1>2, <1>3, FS_Subset, FS_CardinalityType
<1>5. Cardinality(T) \in Nat /\ Cardinality(B) \in Nat
  BY <1>1, <1>2, FS_CardinalityType
<1> HIDE DEF T, B
<1>6. Cardinality(InUse) < Cardinality(Proc)
  BY <1>1, <1>2, <1>4, <1>5
<1> QED BY <1>1, <1>4, <1>6 DEF InUse, Enough, Constants

(* Reclaiming finds a buffer when there is one.                            *)
LEMMA SomeReclaimed ==
  ASSUME Constants, TypeOK, NEW k \in Nat \ {0}, NEW skip,
         NEW i \in 1 .. Len(inactive), Eligible(i, skip)
  PROVE  Reclaimed(k, skip) # {}
<1> DEFINE found == {j \in 1 .. Len(inactive) : Eligible(j, skip)}
           T == {Len(inactive) - j : j \in found}
<1>1. Len(inactive) \in Nat
  BY DEF TypeOK
<1>2. T \in SUBSET Nat /\ T # {}
  BY <1>1
<1>3. Lowest(T) \in T /\ \A e \in T : Lowest(T) <= e
  <2> HIDE DEF T
  <2> QED BY <1>2, LowestIn
<1>4. PICK j \in found : Lowest(T) = Len(inactive) - j
  BY <1>3
<1>5. \A m \in found : ~(j < m)
  <2> SUFFICES ASSUME NEW m \in found PROVE ~(j < m)
    OBVIOUS
  <2>1. Len(inactive) - m \in T
    OBVIOUS
  <2>2. Len(inactive) - j <= Len(inactive) - m
    BY <1>3, <1>4, <2>1
  <2> QED BY <1>1, <2>2
<1>6. {m \in found : j < m} = {}
  BY <1>5
<1>7. Cardinality({m \in found : j < m}) < k
  BY <1>6, FS_EmptySet
<1>8. inactive[j] \in Reclaimed(k, skip)
  BY <1>7 DEF Reclaimed
<1> QED BY <1>8

(* A miss of a process that is not in a call finds a victim and a page.    *)
LEMMA NeverExhaustedHolds ==
  ASSUME Constants, Enough, Inv, Afford
  PROVE  NeverExhausted
<1> SUFFICES ASSUME NEW p \in Proc, call[p] = Idle
             PROVE  inactive # <<>> /\ ref[Victim] = 0 /\ HasPage(Victim)
  BY DEF NeverExhausted
<1>0. TypeOK /\ OneBuffer
  BY DEF Inv
<1>1. /\ InUse \in SUBSET Buf
      /\ Cardinality(InUse) < NBuf /\ Cardinality(InUse) < NPage
  BY SomeUnused
<1>2. PICK m \in Buf : ref[m] = 0
  <2>1. InUse # Buf
    BY <1>1, Buffers DEF Constants
  <2> QED BY <1>0, <1>1, <2>1 DEF InUse, TypeOK
<1>3. In(inactive, m) /\ inactive \in Seq(Buf)
  BY <1>0, <1>2 DEF OneBuffer, In, TypeOK
<1>4. Len(inactive) \in Nat /\ Len(inactive) >= 1 /\ inactive # <<>>
  BY <1>3 DEF In
<1>5. Victim \in Buf /\ In(inactive, Victim)
  BY <1>3, <1>4 DEF Victim, In
<1>6. ref[Victim] = 0
  BY <1>0, <1>5 DEF OneBuffer, In
<1>7. HasPage(Victim)
  <2> SUFFICES ASSUME data[Victim] = None, ~(Pages > 0) PROVE Robbed(Victim) # {}
    BY DEF HasPage
  <2>1. /\ IsFiniteSet(Paged) /\ Cardinality(Paged) \in Nat
        /\ NPage \in Nat /\ Cardinality(Paged) <= NPage
        /\ Pages = NPage - Cardinality(Paged)
    BY Buffers DEF Paged, Afford, Pages, Constants
  <2>2. Pages = 0
    BY <2>1
  <2>3. PICK g \in Paged : g \notin InUse
    <3>1. ASSUME Paged \subseteq InUse PROVE FALSE
      <4>1. Cardinality(Paged) <= Cardinality(InUse) /\ Cardinality(InUse) \in Nat
        BY <1>1, <3>1, Buffers, FS_Subset
      <4> QED BY <1>1, <2>1, <2>2, <4>1
    <3> QED BY <3>1
  <2>4. g \in Buf /\ data[g] # None /\ ref[g] = 0
    BY <1>0, <2>3 DEF Paged, InUse, TypeOK
  <2>5. PICK i \in 1 .. Len(inactive) : inactive[i] = g
    BY <1>0, <2>4 DEF OneBuffer
  <2>6. Eligible(i, Victim)
    BY <2>4, <2>5 DEF Eligible
  <2>7. Reclaimed(Batch, Victim) # {}
    BY <1>0, <2>6, SomeReclaimed DEF Constants
  <2> QED BY <2>2, <2>7 DEF Robbed
<1> QED BY <1>4, <1>6, <1>7

-----------------------------------------------------------------------------

(* The cache and the driver keep their types, for any number of processes, *)
(* buffers, blocks, descriptors and pages.                                 *)
THEOREM TypeCorrect == ASSUME Constants PROVE Spec => []TypeOK
<1>1. Inv => TypeOK
  BY DEF Inv
<1> QED BY <1>1, Invariant, PTL

(* A block is in at most one buffer, a buffer in exactly one of the lists, *)
(* references are counted exactly, and no victim is taken from under a     *)
(* process that waits for the sleep lock of its buffer.                    *)
THEOREM OneBufferCorrect == ASSUME Constants PROVE Spec => []OneBuffer
<1>1. Inv => OneBuffer
  BY DEF Inv
<1> QED BY <1>1, Invariant, PTL

(* With at least as many buffers and pages as processes a miss always      *)
(* finds a victim and a page; with three descriptors nobody sleeps in the  *)
(* driver for something that will not come.                                *)
THEOREM NothingStuckCorrect == ASSUME Constants, Enough PROVE Spec => []NothingStuck
<1> DEFINE J == Inv /\ Afford /\ Dozers /\ Sleepers
<1>1. Init => J
  <2> SUFFICES ASSUME Init PROVE J
    OBVIOUS
  <2>1. Inv
    BY InvInit
  <2>2. Afford
    <3>1. Paged = {}
      BY DEF Init, Paged
    <3> QED BY <3>1, FS_EmptySet DEF Afford, Constants
  <2>3. Dozers /\ Sleepers
    BY DEF Init, DiskInit, Dozers, Sleepers, NoIo
  <2> QED BY <2>1, <2>2, <2>3
<1>2. J /\ [Next]_vars => J'
  <2>1. ASSUME J, Next PROVE J'
    <3>1. Inv'
      BY <2>1, InvStep
    <3>2. Afford'
      BY <2>1, PagedStep
    <3>3. Dozers' /\ Sleepers'
      BY <2>1, AwakeStep
    <3> QED BY <3>1, <3>2, <3>3
  <2>2. ASSUME J, UNCHANGED vars PROVE J'
    <3>1. Inv'
      BY <2>2, InvStep
    <3>2. UNCHANGED <<io, busy, data>>
      BY <2>2 DEF vars, diskVars
    <3>3. Afford' /\ Dozers' /\ Sleepers'
      BY <2>2, <3>2 DEF Afford, Paged, Dozers, Sleepers
    <3> QED BY <3>1, <3>3
  <2> QED BY <2>1, <2>2
<1>3. J => NothingStuck
  <2> SUFFICES ASSUME J PROVE NothingStuck
    OBVIOUS
  <2>1. Chains /\ Heads
    BY DEF Inv
  <2> QED BY <2>1, NeverExhaustedHolds, AwakeParts DEF NothingStuck
<1> HIDE DEF J
<1> QED BY <1>1, <1>2, <1>3, PTL DEF Spec

-----------------------------------------------------------------------------
(* The cache implements the block store.                                   *)

(* A block contains what the disk holds, but for a write the device has    *)
(* still to do.                                                            *)
StoredWell ==
  \A b \in Block :
    /\ \A p \in Proc : Ahead(p) /\ call[p].blk = b => Stored[b] = data[call[p].buf]
    /\ (\A p \in Proc : Ahead(p) => call[p].blk # b) => Stored[b] = disk[b]

(* A block is held by the process that has it.                             *)
HolderWell ==
  \A b \in Block :
    /\ \A p \in Proc : Has(p) /\ call[p].blk = b => Holder[b] = p
    /\ (\A p \in Proc : Has(p) => call[p].blk # b) => Holder[b] = None

(* The block store of the cache in these words: a block has one valid      *)
(* buffer at most.                                                         *)
LEMMA StoredFacts == ASSUME Constants PROVE Inv => StoredWell
<1> SUFFICES ASSUME Inv, NEW b \in Block
             PROVE  /\ \A p \in Proc : Ahead(p) /\ call[p].blk = b =>
                         Stored[b] = data[call[p].buf]
                    /\ (\A p \in Proc : Ahead(p) => call[p].blk # b) => Stored[b] = disk[b]
  BY DEF StoredWell
<1>0. TypeOK /\ OneBuffer /\ Contents
  BY DEF Inv
<1>n. None \notin Block
  BY DEF Constants
<1> DEFINE N == {m \in Find(b) : valid[m]}
<1>1. /\ N = {} => Stored[b] = disk[b]
      /\ N # {} => Stored[b] = data[CHOOSE m \in N : TRUE]
  BY DEF Stored, Content
<1>2. \A m \in N : m \in Buf /\ block[m] = b /\ valid[m]
  BY DEF Find
<1>3. \A m \in Buf : block[m] = b /\ valid[m] => m \in N
  BY DEF Find
<1> HIDE DEF N
<1>4. ASSUME NEW m \in N PROVE Stored[b] = data[m]
  <2>1. PICK c \in N : c = (CHOOSE k \in N : TRUE)
    BY <1>4
  <2>2. c = m
    BY <1>0, <1>2, <1>4, <1>n DEF OneBuffer
  <2> QED BY <1>1, <1>4, <2>1, <2>2
<1>5. ASSUME NEW p \in Proc, Ahead(p), call[p].blk = b
      PROVE  Stored[b] = data[call[p].buf]
  <2>1. call[p].buf \in Buf /\ block[call[p].buf] = b /\ valid[call[p].buf]
    BY <1>0, <1>5, OwnBlock DEF Ahead, Contents
  <2> QED BY <1>3, <1>4, <2>1
<1>6. ASSUME \A p \in Proc : Ahead(p) => call[p].blk # b PROVE Stored[b] = disk[b]
  <2>1. ASSUME NEW m \in N PROVE data[m] = disk[b]
    <3>1. ASSUME data[m] # disk[b] PROVE FALSE
      <4>1. PICK p \in Proc : Ahead(p) /\ call[p].buf = m
        BY <1>0, <1>2, <2>1, <3>1 DEF Contents
      <4>2. block[m] = call[p].blk
        BY <1>0, <4>1, OwnBlock DEF Ahead
      <4> QED BY <1>2, <1>6, <2>1, <4>1, <4>2
    <3> QED BY <3>1
  <2> QED BY <1>1, <1>4, <2>1
<1> QED BY <1>5, <1>6

(* Two processes that have a block locked have different ones.             *)
LEMMA OwnBlocks ==
  ASSUME Constants, Inv, NEW p \in Proc, NEW q \in Proc, Holds(p), Holds(q),
         call[p].blk = call[q].blk
  PROVE  p = q
<1>1. call[p].buf \in Buf /\ call[q].buf \in Buf /\ block[call[q].buf] = call[q].blk
  BY OwnBlock DEF Inv, Holds
<1>2. call[p].buf = call[q].buf
  BY <1>1, OwnContents
<1> QED BY <1>2, Alone

(* The sleep lock keeps two processes from having one block.               *)
LEMMA HolderFacts == ASSUME Constants PROVE Inv => HolderWell
<1> SUFFICES ASSUME Inv, NEW b \in Block
             PROVE  /\ \A p \in Proc : Has(p) /\ call[p].blk = b => Holder[b] = p
                    /\ (\A p \in Proc : Has(p) => call[p].blk # b) => Holder[b] = None
  BY DEF HolderWell
<1> DEFINE Has1(p) == Has(p) /\ call[p].blk = b
<1>1. Holder[b] = IF \E p \in Proc : Has1(p) THEN CHOOSE p \in Proc : Has1(p) ELSE None
  BY DEF Holder
<1>2. \A p, q \in Proc : Has1(p) /\ Has1(q) => p = q
  BY OwnBlocks DEF Has, Holds
<1>3. ASSUME NEW p \in Proc, Has1(p) PROVE Holder[b] = p
  <2>1. PICK q \in Proc : Has1(q) /\ q = (CHOOSE k \in Proc : Has1(k))
    BY <1>3
  <2> HIDE DEF Has1
  <2> QED BY <1>1, <1>2, <1>3, <2>1
<1>4. ASSUME \A p \in Proc : Has(p) => call[p].blk # b PROVE Holder[b] = None
  BY <1>1, <1>4
<1> QED BY <1>3, <1>4

(* The three functions are given by their values.                          *)
LEMMA StoreValues ==
  /\ (\A b \in Block : Stored'[b] = Stored[b]) => Stored' = Stored
  /\ \A v : \A c \in Block : Stored'[c] = v /\ (\A b \in Block \ {c} : Stored'[b] = Stored[b])
       => Stored' = [Stored EXCEPT ![c] = v]
  /\ (\A b \in Block : Holder'[b] = Holder[b]) => Holder' = Holder
  /\ \A v : \A c \in Block : Holder'[c] = v /\ (\A b \in Block \ {c} : Holder'[b] = Holder[b])
       => Holder' = [Holder EXCEPT ![c] = v]
  /\ (\A p \in Proc : Views'[p] = Views[p]) => Views' = Views
  /\ \A v : \A c \in Proc : Views'[c] = v /\ (\A p \in Proc \ {c} : Views'[p] = Views[p])
       => Views' = [Views EXCEPT ![c] = v]
<1>1. /\ Stored = [b \in Block |-> Stored[b]] /\ Stored' = [b \in Block |-> Stored'[b]]
      /\ Holder = [b \in Block |-> Holder[b]] /\ Holder' = [b \in Block |-> Holder'[b]]
      /\ Views = [p \in Proc |-> Views[p]] /\ Views' = [p \in Proc |-> Views'[p]]
  BY DEF Stored, Holder, Views
<1> QED BY <1>1

(* Both, before and after a step.                                          *)
LEMMA WellStep == ASSUME Constants
                  PROVE  Inv /\ Inv' => StoredWell /\ HolderWell /\ StoredWell' /\ HolderWell'
<1>1. Inv => StoredWell
  BY StoredFacts
<1>2. Inv => HolderWell
  BY HolderFacts
<1> QED BY <1>1, <1>2, PTL

(* A step that leaves the pending writes and the disk as they are.         *)
LEMMA StoredSame ==
  ASSUME Constants, Inv, Inv', UNCHANGED disk,
         \A q \in Proc : Ahead(q)' <=> Ahead(q),
         \A q \in Proc : Ahead(q) => /\ call'[q].buf = call[q].buf /\ call'[q].blk = call[q].blk
                                     /\ data'[call[q].buf] = data[call[q].buf]
  PROVE  Stored' = Stored
<1>1. StoredWell /\ StoredWell'
  BY WellStep
<1>2. ASSUME NEW b \in Block PROVE Stored'[b] = Stored[b]
  <2>1. ASSUME NEW p \in Proc, Ahead(p), call[p].blk = b PROVE Stored'[b] = Stored[b]
    <3>1. Stored[b] = data[call[p].buf]
      BY <1>1, <2>1 DEF StoredWell
    <3>2. Stored'[b] = data'[call'[p].buf]
      BY <1>1, <2>1 DEF StoredWell
    <3> QED BY <2>1, <3>1, <3>2
  <2>2. ASSUME \A p \in Proc : Ahead(p) => call[p].blk # b PROVE Stored'[b] = Stored[b]
    <3>1. Stored[b] = disk[b]
      BY <1>1, <2>2 DEF StoredWell
    <3>2. Stored'[b] = disk'[b]
      BY <1>1, <2>2 DEF StoredWell
    <3> QED BY <3>1, <3>2
  <2> QED BY <2>1, <2>2
<1> QED BY <1>2, StoreValues

(* A step that leaves the processes that have a block as they are.         *)
LEMMA HolderSame ==
  ASSUME Constants, Inv, Inv', \A q \in Proc : Has(q)' <=> Has(q),
         \A q \in Proc : Has(q) => /\ call'[q].buf = call[q].buf /\ call'[q].blk = call[q].blk
                                   /\ data'[call[q].buf] = data[call[q].buf]
  PROVE  Holder' = Holder /\ Views' = Views
<1>1. HolderWell /\ HolderWell'
  BY WellStep
<1>2. ASSUME NEW b \in Block PROVE Holder'[b] = Holder[b]
  <2>1. ASSUME NEW p \in Proc, Has(p), call[p].blk = b PROVE Holder'[b] = Holder[b]
    <3>1. Holder[b] = p
      BY <1>1, <2>1 DEF HolderWell
    <3>2. Holder'[b] = p
      BY <1>1, <2>1 DEF HolderWell
    <3> QED BY <3>1, <3>2
  <2>2. ASSUME \A p \in Proc : Has(p) => call[p].blk # b PROVE Holder'[b] = Holder[b]
    <3>1. Holder[b] = None
      BY <1>1, <2>2 DEF HolderWell
    <3>2. Holder'[b] = None
      BY <1>1, <2>2 DEF HolderWell
    <3> QED BY <3>1, <3>2
  <2> QED BY <2>1, <2>2
<1>3. ASSUME NEW p \in Proc PROVE Views'[p] = Views[p]
  BY DEF Views
<1> QED BY <1>2, <1>3, StoreValues

(* A step of p that gives it a block, or takes one from it.                *)
LEMMA HolderSet ==
  ASSUME Constants, Inv, Inv', NEW p \in Proc, Holds(p),
         call'[p].blk = call[p].blk, call'[p].buf = call[p].buf,
         \A q \in Proc \ {p} : call'[q] = call[q], UNCHANGED data
  PROVE  /\ Has(p)' /\ ~Has(p) =>
              /\ Holder[call[p].blk] = None
              /\ Holder' = [Holder EXCEPT ![call[p].blk] = p]
              /\ Views' = [Views EXCEPT ![p] = data[call[p].buf]]
         /\ ~Has(p)' /\ Has(p) =>
              /\ Holder[call[p].blk] = p
              /\ Holder' = [Holder EXCEPT ![call[p].blk] = None]
              /\ Views' = [Views EXCEPT ![p] = None]
<1>0. HolderWell /\ HolderWell'
  BY WellStep
<1>1. call[p].blk \in Block
  BY OwnBlock DEF Inv, Holds
<1>2. PICK b \in Block : b = call[p].blk
  BY <1>1
<1>3. \A q \in Proc \ {p} : Has(q) => call[q].blk # b
  BY <1>2, OwnBlocks DEF Has, Holds
<1>4. \A q \in Proc \ {p} : Has(q)' <=> Has(q)
  BY DEF Has
<1>5. ASSUME NEW c \in Block \ {b} PROVE Holder'[c] = Holder[c]
  <2>1. ASSUME NEW q \in Proc, Has(q), call[q].blk = c PROVE Holder'[c] = Holder[c]
    <3>1. q # p
      BY <1>2, <2>1
    <3>2. Holder[c] = q
      BY <1>0, <2>1 DEF HolderWell
    <3>3. Holder'[c] = q
      BY <1>0, <1>4, <2>1, <3>1 DEF HolderWell
    <3> QED BY <3>2, <3>3
  <2>2. ASSUME \A q \in Proc : Has(q) => call[q].blk # c PROVE Holder'[c] = Holder[c]
    <3>1. Holder[c] = None
      BY <1>0, <2>2 DEF HolderWell
    <3>2. \A q \in Proc : Has(q)' => call'[q].blk # c
      BY <1>2, <1>4, <2>2
    <3>3. Holder'[c] = None
      BY <1>0, <3>2 DEF HolderWell
    <3> QED BY <3>1, <3>3
  <2> QED BY <2>1, <2>2
<1>6. \A q \in Proc \ {p} : Views'[q] = Views[q]
  BY <1>4 DEF Views
<1>7. ASSUME Has(p)', ~Has(p)
      PROVE  /\ Holder[b] = None
             /\ Holder' = [Holder EXCEPT ![b] = p]
             /\ Views' = [Views EXCEPT ![p] = data[call[p].buf]]
  <2>1. Holder[b] = None
    BY <1>0, <1>3, <1>7 DEF HolderWell
  <2>2. Holder'[b] = p
    BY <1>0, <1>2, <1>7 DEF HolderWell
  <2>3. Views'[p] = data[call[p].buf]
    BY <1>7 DEF Views
  <2> QED BY <1>5, <1>6, <2>1, <2>2, <2>3, StoreValues
<1>8. ASSUME ~Has(p)', Has(p)
      PROVE  /\ Holder[b] = p
             /\ Holder' = [Holder EXCEPT ![b] = None]
             /\ Views' = [Views EXCEPT ![p] = None]
  <2>1. Holder[b] = p
    BY <1>0, <1>2, <1>8 DEF HolderWell
  <2>2. \A q \in Proc : Has(q)' => call'[q].blk # b
    BY <1>3, <1>4, <1>8
  <2>3. Holder'[b] = None
    BY <1>0, <2>2 DEF HolderWell
  <2>4. Views'[p] = None
    BY <1>8 DEF Views
  <2> QED BY <1>5, <1>6, <2>1, <2>3, <2>4, StoreValues
<1> QED BY <1>2, <1>7, <1>8

(* Nothing that the store shows.                                           *)
Still == UNCHANGED <<Stored, Holder, Views>>

(* A step that changes no contents, gives nobody a block and takes none.   *)
LEMMA QuietStore ==
  ASSUME Constants, Inv, Inv', UNCHANGED <<data, disk, avail>>,
         \A q \in Proc : SameChain(q),
         \A q \in Proc : \/ call'[q] = call[q]
                         \/ /\ call[q].at \notin {"have", "write"}
                            /\ call'[q].at \notin {"have", "write"}
  PROVE  Still
<1>1. \A q \in Proc : Ahead(q)' <=> Ahead(q)
  BY DEF Ahead, SameChain
<1>2. \A q \in Proc : Has(q)' <=> Has(q)
  BY DEF Has
<1>3. \A q \in Proc : Has(q) \/ Ahead(q) => call'[q] = call[q]
  BY DEF Has, Ahead
<1>4. Stored' = Stored
  BY <1>1, <1>3, StoredSame
<1>5. Holder' = Holder /\ Views' = Views
  BY <1>2, <1>3, HolderSame
<1> QED BY <1>4, <1>5 DEF Still

(* A step that takes pages away from buffers that nobody uses.             *)
LEMMA EvictStore ==
  ASSUME Constants, Inv, Inv', NEW G, \A m \in G : ref[m] = 0,
         \A m \in Buf \ G : data'[m] = data[m],
         UNCHANGED <<disk, avail, io>>,
         \A q \in Proc : \/ call'[q] = call[q]
                         \/ call[q].at = "idle" /\ call'[q].at = "lock"
  PROVE  Still
<1>1. \A q \in Proc : Ahead(q)' <=> Ahead(q)
  BY DEF Ahead, Waits
<1>2. \A q \in Proc : Has(q)' <=> Has(q)
  BY DEF Has
<1>3. \A q \in Proc : Has(q) \/ Ahead(q) =>
        call'[q] = call[q] /\ data'[call[q].buf] = data[call[q].buf]
  <2> SUFFICES ASSUME NEW q \in Proc, call[q].at \in {"have", "write"}
               PROVE  call'[q] = call[q] /\ data'[call[q].buf] = data[call[q].buf]
    BY DEF Has, Ahead
  <2>1. call[q].buf \in Buf /\ ref[call[q].buf] > 0
    BY OwnBlock, OwnReference DEF Inv
  <2> QED BY <2>1
<1>4. Stored' = Stored
  BY <1>1, <1>3, StoredSame
<1>5. Holder' = Holder /\ Views' = Views
  BY <1>2, <1>3, HolderSame
<1> QED BY <1>4, <1>5 DEF Still

(* Nobody but p is about to write the block that p has locked.             *)
LEMMA OwnWrite ==
  ASSUME Constants, Inv, NEW p \in Proc, Holds(p), ~Ahead(p)
  PROVE  Stored[call[p].blk] = disk[call[p].blk]
<1>1. StoredWell
  BY StoredFacts
<1>2. call[p].blk \in Block
  BY OwnBlock DEF Inv, Holds
<1>3. \A q \in Proc : Ahead(q) => call[q].blk # call[p].blk
  BY OwnBlocks DEF Ahead, Holds
<1> QED BY <1>1, <1>2, <1>3 DEF StoredWell

(* buffer_get returns.                                                     *)
LEMMA TakeStore ==
  ASSUME Constants, Inv, Inv', NEW p \in Proc,
         GotIt(p) \/ (IoDone(p) /\ call[p].at = "read")
  PROVE  Store!Next
<1>0. TypeOK /\ OneBuffer /\ Contents
  BY DEF Inv
<1>1. /\ call[p].at \in {"check", "read"} /\ Holds(p) /\ ~Has(p) /\ ~Ahead(p)
      /\ call' = [call EXCEPT ![p].at = "have"]
      /\ UNCHANGED <<data, disk, avail>>
  BY DEF GotIt, IoDone, Return, Holds, Has, Ahead, diskVars
<1>2. /\ call'[p].at = "have" /\ call'[p].blk = call[p].blk /\ call'[p].buf = call[p].buf
      /\ \A q \in Proc \ {p} : call'[q] = call[q]
  BY <1>0, <1>1, CallMoved
<1>3. /\ call[p].buf \in Buf /\ call[p].blk \in Block
      /\ block[call[p].buf] = call[p].blk
  BY <1>0, <1>1, OwnBlock
<1>4. data[call[p].buf] = disk[call[p].blk]
  <2>1. CASE IoDone(p)
    BY <2>1, DoneContents
  <2>2. CASE GotIt(p)
    <3>1. \A q \in Proc : Ahead(q) => call[q].buf # call[p].buf
      BY <1>1, Alone DEF Ahead, Holds
    <3> QED BY <1>0, <1>3, <2>2, <3>1 DEF GotIt, Contents
  <2> QED BY <2>1, <2>2
<1>5. Stored[call[p].blk] = data[call[p].buf]
  BY <1>1, <1>4, OwnWrite
<1>6. \A q \in Proc \ {p} : SameChain(q)
  <2>1. CASE IoDone(p)
    BY <1>0, <2>1, ReturnIo, TaskChain DEF IoDone
  <2>2. CASE GotIt(p)
    BY <2>2, SameIo, TaskChain DEF GotIt, diskVars
  <2> QED BY <2>1, <2>2
<1>7. \A q \in Proc : Ahead(q)' <=> Ahead(q)
  BY <1>1, <1>2, <1>6 DEF Ahead, SameChain
<1>8. Stored' = Stored
  <2>1. \A q \in Proc : Ahead(q) => call'[q] = call[q]
    BY <1>1, <1>2
  <2> QED BY <1>1, <1>7, <2>1, StoredSame
<1>9. Has(p)'
  BY <1>2 DEF Has
<1>10. /\ Holder[call[p].blk] = None
       /\ Holder' = [Holder EXCEPT ![call[p].blk] = p]
       /\ Views' = [Views EXCEPT ![p] = data[call[p].buf]]
  BY <1>1, <1>2, <1>9, HolderSet
<1>11. Store!Take(p, call[p].blk)
  BY <1>5, <1>8, <1>10 DEF Store!Take
<1> QED BY <1>3, <1>11 DEF Store!Next

(* buffer_put gives the block back.                                        *)
LEMMA ReleaseStore ==
  ASSUME Constants, Inv, Inv', NEW p \in Proc, Unlock(p)
  PROVE  Store!Next
<1>0. TypeOK /\ OneBuffer
  BY DEF Inv
<1>1. /\ call[p].at = "have" /\ Holds(p) /\ Has(p) /\ ~Ahead(p)
      /\ call' = [call EXCEPT ![p].at = "put"]
      /\ UNCHANGED <<data, disk, avail, io>>
  BY DEF Unlock, Holds, Has, Ahead, diskVars
<1>2. /\ call'[p].at = "put" /\ call'[p].blk = call[p].blk /\ call'[p].buf = call[p].buf
      /\ \A q \in Proc \ {p} : call'[q] = call[q]
  BY <1>0, <1>1, CallMoved
<1>3. call[p].blk \in Block
  BY <1>0, <1>1, OwnBlock
<1>4. \A q \in Proc : Ahead(q)' <=> Ahead(q)
  BY <1>1, <1>2 DEF Ahead, Waits
<1>5. Stored' = Stored
  <2>1. \A q \in Proc : Ahead(q) => call'[q] = call[q]
    BY <1>1, <1>2
  <2> QED BY <1>1, <1>4, <2>1, StoredSame
<1>6. ~Has(p)'
  BY <1>2 DEF Has
<1>7. /\ Holder[call[p].blk] = p
      /\ Holder' = [Holder EXCEPT ![call[p].blk] = None]
      /\ Views' = [Views EXCEPT ![p] = None]
  BY <1>1, <1>2, <1>6, HolderSet
<1>8. Store!Release(p, call[p].blk)
  BY <1>5, <1>7 DEF Store!Release
<1> QED BY <1>3, <1>8 DEF Store!Next

(* buffer_write begins: from here on the block has the new contents,       *)
(* wherever they are.                                                      *)
LEMMA WriteStore ==
  ASSUME Constants, Inv, Inv', NEW p \in Proc, NEW v \in Value, Write(p, v)
  PROVE  Store!Next
<1>0. TypeOK /\ OneBuffer /\ Synced
  BY DEF Inv
<1>w. StoredWell /\ StoredWell' /\ HolderWell
  BY WellStep
<1>1. /\ call[p].at = "have" /\ Holds(p) /\ Has(p)
      /\ call' = [call EXCEPT ![p].at = "write"]
      /\ data' = [data EXCEPT ![call[p].buf] = v]
      /\ Call(p, call[p].buf, block[call[p].buf], TRUE)
      /\ UNCHANGED <<disk, avail>>
  BY DEF Write, Holds, Has
<1>2. /\ call'[p].at = "write" /\ call'[p].blk = call[p].blk /\ call'[p].buf = call[p].buf
      /\ \A q \in Proc \ {p} : call'[q] = call[q]
  BY <1>0, <1>1, CallMoved
<1>3. call[p].buf \in Buf /\ call[p].blk \in Block
  BY <1>0, <1>1, OwnBlock
<1>4. /\ ~Waits(p) /\ ~Waits(p)'
      /\ \A q \in Proc \ {p} : io'[q] = io[q] /\ (Waits(q)' <=> Waits(q))
  <2>1. ~Waits(p)
    BY <1>0, <1>1 DEF Synced, InDriver, Waits
  <2>2. /\ io'[p] = [at |-> "alloc",
                     req |-> [buf |-> call[p].buf, blk |-> block[call[p].buf], wr |-> TRUE]]
        /\ \A q \in Proc \ {p} : io'[q] = io[q]
    BY <1>0, <1>1 DEF Call, TypeOK, DiskTypeOK
  <2>3. io'[p].at = "alloc"
    BY <2>2
  <2> QED BY <2>1, <2>2, <2>3 DEF Waits
<1>5. \A q \in Proc \ {p} : Holds(q) =>
        /\ call[q].buf \in Buf /\ data'[call[q].buf] = data[call[q].buf]
        /\ call[q].blk # call[p].blk
  <2> SUFFICES ASSUME NEW q \in Proc \ {p}, Holds(q)
               PROVE  /\ call[q].buf \in Buf /\ data'[call[q].buf] = data[call[q].buf]
                      /\ call[q].blk # call[p].blk
    OBVIOUS
  <2>1. call[q].buf \in Buf
    BY <1>0, OwnBlock DEF Holds
  <2>2. call[q].buf # call[p].buf /\ call[q].blk # call[p].blk
    BY <1>1, Alone, OwnBlocks
  <2> QED BY <1>0, <1>1, <2>1, <2>2 DEF TypeOK, DiskTypeOK
<1>6. data'[call[p].buf] = v
  BY <1>0, <1>1, <1>3 DEF TypeOK, DiskTypeOK
<1>7. Ahead(p)' /\ \A q \in Proc \ {p} : Ahead(q)' <=> Ahead(q)
  BY <1>1, <1>2, <1>4 DEF Ahead
<1>8. Stored'[call[p].blk] = v
  BY <1>w, <1>2, <1>3, <1>6, <1>7 DEF StoredWell
<1>9. ASSUME NEW b \in Block \ {call[p].blk} PROVE Stored'[b] = Stored[b]
  <2>1. ASSUME NEW q \in Proc, Ahead(q), call[q].blk = b PROVE Stored'[b] = Stored[b]
    <3>1. q # p /\ Holds(q)
      BY <2>1 DEF Ahead, Holds
    <3>2. Stored[b] = data[call[q].buf]
      BY <1>w, <2>1 DEF StoredWell
    <3>3. Ahead(q)' /\ call'[q] = call[q]
      BY <1>2, <1>7, <2>1, <3>1
    <3>4. Stored'[b] = data'[call'[q].buf]
      BY <1>w, <2>1, <3>3 DEF StoredWell
    <3> QED BY <1>5, <3>1, <3>2, <3>3, <3>4
  <2>2. ASSUME \A q \in Proc : Ahead(q) => call[q].blk # b PROVE Stored'[b] = Stored[b]
    <3>1. \A q \in Proc : Ahead(q)' => call'[q].blk # b
      BY <1>2, <1>7, <2>2
    <3> QED BY <1>w, <1>1, <2>2, <3>1 DEF StoredWell
  <2> QED BY <2>1, <2>2
<1>10. Stored' = [Stored EXCEPT ![call[p].blk] = v]
  BY <1>3, <1>8, <1>9, StoreValues
<1>11. Has(p)' /\ \A q \in Proc \ {p} : Has(q)' <=> Has(q)
  BY <1>2 DEF Has
<1>12. Views' = [Views EXCEPT ![p] = v]
  <2>1. Views'[p] = v
    BY <1>2, <1>6, <1>11 DEF Views
  <2>2. ASSUME NEW q \in Proc \ {p} PROVE Views'[q] = Views[q]
    <3>1. Has(q) => Holds(q)
      BY DEF Has, Holds
    <3> QED BY <1>2, <1>5, <1>11, <3>1 DEF Views
  <2> QED BY <2>1, <2>2, StoreValues
<1>13. Holder' = Holder
  <2>1. HolderWell'
    BY WellStep
  <2>2. ASSUME NEW b \in Block PROVE Holder'[b] = Holder[b]
    <3>1. ASSUME NEW q \in Proc, Has(q), call[q].blk = b PROVE Holder'[b] = Holder[b]
      <4>1. Has(q)' /\ call'[q].blk = b
        BY <1>2, <1>11, <3>1
      <4> QED BY <1>w, <2>1, <3>1, <4>1 DEF HolderWell
    <3>2. ASSUME \A q \in Proc : Has(q) => call[q].blk # b PROVE Holder'[b] = Holder[b]
      <4>1. \A q \in Proc : Has(q)' => call'[q].blk # b
        BY <1>1, <1>2, <1>11, <3>2
      <4> QED BY <1>w, <2>1, <3>2, <4>1 DEF HolderWell
    <3> QED BY <3>1, <3>2
  <2> QED BY <2>2, StoreValues
<1>14. Holder[call[p].blk] = p
  BY <1>w, <1>1, <1>3 DEF HolderWell
<1>15. Store!Write(p, call[p].blk, v)
  BY <1>10, <1>12, <1>13, <1>14 DEF Store!Write
<1> QED BY <1>3, <1>15 DEF Store!Next

(* virtio_disk_rw returns from buffer_write.                               *)
LEMMA WrittenStore ==
  ASSUME Constants, Inv, Inv', NEW p \in Proc, IoDone(p), call[p].at # "read"
  PROVE  Still
<1>0. TypeOK /\ OneBuffer /\ Heads /\ Synced
  BY DEF Inv
<1>1. /\ Waits(p) /\ Return(p) /\ call[p].at = "write"
      /\ call' = [call EXCEPT ![p].at = "have"]
      /\ UNCHANGED <<data, disk, avail>>
  BY <1>0 DEF IoDone, Return, Waits, Synced, InDriver
<1>2. /\ call'[p].at = "have" /\ call'[p].blk = call[p].blk /\ call'[p].buf = call[p].buf
      /\ \A q \in Proc \ {p} : call'[q] = call[q]
  BY <1>0, <1>1, CallMoved
<1>3. ~Ahead(p)
  BY <1>0, <1>1 DEF Heads, Return, Ahead
<1>4. \A q \in Proc \ {p} : SameChain(q)
  BY <1>0, <1>1, ReturnIo, TaskChain
<1>5. \A q \in Proc : Ahead(q)' <=> Ahead(q)
  BY <1>1, <1>2, <1>3, <1>4 DEF Ahead, SameChain
<1>6. \A q \in Proc : Has(q)' <=> Has(q)
  BY <1>1, <1>2 DEF Has
<1>7. Stored' = Stored
  BY <1>1, <1>2, <1>5, StoredSame
<1>8. Holder' = Holder /\ Views' = Views
  BY <1>1, <1>2, <1>6, HolderSame
<1> QED BY <1>7, <1>8 DEF Still

(* A request that the device has not seen has written nothing.             *)
LEMMA SubmitStore ==
  ASSUME Constants, Inv, Inv', NEW p \in Proc, Submit(p), UNCHANGED cacheVars
  PROVE  Still
<1>0. TypeOK /\ Held
  BY ChainsHeld DEF Inv
<1>1. /\ \A q \in Proc \ {p} : SameTask(q)
      /\ ~Waits(p) /\ Waits(p)'
      /\ \E a \in free : io'[p].chain[1] = a /\ avail' = avail \cup {a}
      /\ UNCHANGED <<data, disk>>
  BY <1>0, SubmitIo
<1>2. UNCHANGED call
  BY DEF cacheVars
<1>3. \A q \in Proc \ {p} : SameChain(q)
  BY <1>1, TaskChain
<1>4. \A q \in Proc : Waits(q) => io[q].chain[1] \notin free
  BY <1>0 DEF Held
<1>5. \A q \in Proc : Ahead(q)' <=> Ahead(q)
  BY <1>1, <1>2, <1>3, <1>4 DEF Ahead, SameChain
<1>6. \A q \in Proc : Has(q)' <=> Has(q)
  BY <1>2 DEF Has
<1>7. Stored' = Stored
  BY <1>1, <1>2, <1>5, StoredSame
<1>8. Holder' = Holder /\ Views' = Views
  BY <1>1, <1>2, <1>6, HolderSame
<1> QED BY <1>7, <1>8 DEF Still

(* The device moves contents between a buffer and the disk: the block they *)
(* are of contains the same.                                               *)
LEMMA TransferStore ==
  ASSUME Constants, Inv, Inv', NEW h \in Desc, Transfer(h), UNCHANGED cacheVars
  PROVE  Still
<1>0. TypeOK /\ OneBuffer
  BY DEF Inv
<1>w. StoredWell /\ StoredWell'
  BY WellStep
<1>1. PICK p \in Proc :
        /\ Waits(p) /\ io[p].chain[1] = h /\ Holds(p)
        /\ \/ /\ call[p].at = "write" /\ data' = data
              /\ disk' = [disk EXCEPT ![call[p].blk] = data[call[p].buf]]
           \/ /\ call[p].at = "read" /\ disk' = disk
              /\ data' = [data EXCEPT ![call[p].buf] = disk[call[p].blk]]
  BY TransferEffect
<1>2. UNCHANGED <<call, io>> /\ avail' = avail \ {h} /\ h \in avail
  BY DEF cacheVars, Transfer
<1>3. call[p].buf \in Buf /\ call[p].blk \in Block
  BY <1>0, <1>1, OwnBlock DEF Holds
<1>4. \A q \in Proc \ {p} : Holds(q) =>
        /\ data'[call[q].buf] = data[call[q].buf]
        /\ call[q].blk # call[p].blk
  <2> SUFFICES ASSUME NEW q \in Proc \ {p}, Holds(q)
               PROVE  /\ data'[call[q].buf] = data[call[q].buf]
                      /\ call[q].blk # call[p].blk
    OBVIOUS
  <2>1. call[q].buf \in Buf
    BY <1>0, OwnBlock DEF Holds
  <2>2. call[q].buf # call[p].buf /\ call[q].blk # call[p].blk
    BY <1>1, Alone, OwnBlocks
  <2> QED BY <1>0, <1>1, <2>1, <2>2 DEF TypeOK, DiskTypeOK
<1>5. \A q \in Proc \ {p} : Waits(q) => io[q].chain[1] # h
  BY <1>1, OwnHead
<1>6. ~Ahead(p)' /\ \A q \in Proc \ {p} : Ahead(q)' <=> Ahead(q)
  BY <1>1, <1>2, <1>5 DEF Ahead, Waits
<1>7. \A q \in Proc : Has(q)' <=> Has(q)
  BY <1>2 DEF Has
<1>8. ASSUME NEW q \in Proc, Has(q) PROVE data'[call[q].buf] = data[call[q].buf]
  <2>1. Holds(q)
    BY <1>8 DEF Has, Holds
  <2>2. CASE q = p
    BY <1>1, <1>8, <2>2 DEF Has
  <2> QED BY <1>4, <2>1, <2>2
<1>9. Holder' = Holder /\ Views' = Views
  BY <1>2, <1>7, <1>8, HolderSame
<1>10. Stored'[call[p].blk] = Stored[call[p].blk]
  <2>1. \A q \in Proc : Ahead(q)' => call'[q].blk # call[p].blk
    BY <1>2, <1>4, <1>6 DEF Ahead, Holds
  <2>2. Stored'[call[p].blk] = disk'[call[p].blk]
    BY <1>w, <1>3, <2>1 DEF StoredWell
  <2>3. CASE call[p].at = "write"
    <3>1. Ahead(p)
      BY <1>1, <1>2, <2>3 DEF Ahead
    <3>2. Stored[call[p].blk] = data[call[p].buf]
      BY <1>w, <1>3, <3>1 DEF StoredWell
    <3>3. disk'[call[p].blk] = data[call[p].buf]
      BY <1>0, <1>1, <1>3, <2>3 DEF TypeOK, DiskTypeOK
    <3> QED BY <2>2, <3>2, <3>3
  <2>4. CASE call[p].at = "read"
    <3>1. Stored[call[p].blk] = disk[call[p].blk]
      BY <1>1, <2>4, OwnWrite DEF Ahead
    <3> QED BY <1>1, <2>2, <2>4, <3>1
  <2> QED BY <1>1, <2>3, <2>4
<1>11. ASSUME NEW b \in Block \ {call[p].blk} PROVE Stored'[b] = Stored[b]
  <2>1. ASSUME NEW q \in Proc, Ahead(q), call[q].blk = b PROVE Stored'[b] = Stored[b]
    <3>1. q # p /\ Holds(q)
      BY <2>1 DEF Ahead, Holds
    <3>2. Stored[b] = data[call[q].buf]
      BY <1>w, <2>1 DEF StoredWell
    <3>3. Ahead(q)' /\ call'[q] = call[q]
      BY <1>2, <1>6, <2>1, <3>1
    <3>4. Stored'[b] = data'[call'[q].buf]
      BY <1>w, <2>1, <3>3 DEF StoredWell
    <3> QED BY <1>4, <3>1, <3>2, <3>3, <3>4
  <2>2. ASSUME \A q \in Proc : Ahead(q) => call[q].blk # b PROVE Stored'[b] = Stored[b]
    <3>1. \A q \in Proc : Ahead(q)' => call'[q].blk # b
      BY <1>2, <1>6, <2>2
    <3>2. disk'[b] = disk[b]
      BY <1>0, <1>1 DEF TypeOK, DiskTypeOK
    <3> QED BY <1>w, <2>2, <3>1, <3>2 DEF StoredWell
  <2> QED BY <2>1, <2>2
<1>12. Stored' = Stored
  BY <1>10, <1>11, StoreValues
<1> QED BY <1>9, <1>12 DEF Still

(* The cache starts as the store does.                                     *)
LEMMA StoreInit == ASSUME Constants PROVE Init => Store!Init
<1> SUFFICES ASSUME Init PROVE Store!Init
  OBVIOUS
<1>1. Inv
  BY InvInit
<1>2. \A p \in Proc : ~Ahead(p) /\ ~Has(p)
  BY DEF Init, Idle, Ahead, Has
<1>3. StoredWell /\ disk \in [Block -> Value]
  BY <1>1, StoredFacts DEF Inv, TypeOK, DiskTypeOK
<1>4. \A b \in Block : Stored[b] \in Value
  BY <1>2, <1>3 DEF StoredWell
<1>5. Stored \in [Block -> Value]
  <2>1. Stored = [b \in Block |-> Stored[b]]
    BY DEF Stored
  <2> QED BY <1>4, <2>1
<1>6. Holder = [b \in Block |-> None]
  BY <1>2 DEF Holder
<1>7. Views = [p \in Proc |-> None]
  BY <1>2 DEF Views
<1> QED BY <1>5, <1>6, <1>7 DEF Store!Init

(* Every step of the cache is a step of the store or none.                 *)
LEMMA StoreStep ==
  ASSUME Constants PROVE Inv /\ Inv' /\ [Next]_vars => [Store!Next]_(Store!vars)
<1> SUFFICES ASSUME Inv, Inv', [Next]_vars PROVE Store!Next \/ Still
  BY Zenon DEF Still, Store!vars
<1>0. TypeOK /\ OneBuffer /\ Once /\ Synced
  BY DEF Inv
<1>a. ASSUME UNCHANGED <<data, disk, avail, io>>,
             NEW p \in Proc, call[p].at \notin {"have", "write"},
             call'[p].at \notin {"have", "write"},
             \A q \in Proc \ {p} : call'[q] = call[q]
      PROVE  Still
  <2>1. \A q \in Proc : SameChain(q)
    BY <1>a, SameIo, TaskChain
  <2> QED BY <1>a, <2>1, QuietStore
<1>b. ASSUME UNCHANGED <<data, disk, avail, call>>, \A q \in Proc : SameTask(q)
      PROVE  Still
  <2>1. \A q \in Proc : SameChain(q)
    BY <1>b, TaskChain
  <2> QED BY <1>b, <2>1, QuietStore
<1>1. ASSUME NEW p \in Proc, NEW b \in Block, NEW n \in Buf, Hit(p, b, n) PROVE Still
  <2>1. /\ call'[p] = [at |-> "lock", buf |-> n, blk |-> b]
        /\ \A q \in Proc \ {p} : call'[q] = call[q]
    BY <1>0, <1>1, CallSet DEF Hit
  <2>2. call[p].at = "idle" /\ call'[p].at = "lock"
    BY <1>1, <2>1 DEF Hit, Idle
  <2> QED BY <1>1, <1>a, <2>1, <2>2 DEF Hit, diskVars
<1>2. ASSUME NEW p \in Proc, NEW b \in Block, Miss(p, b) PROVE Still
  <2>1. PICK n \in Buf, gone \in SUBSET Buf : MissEffect(p, b, n, gone)
    BY <1>0, <1>2, MissFacts
  <2>2. /\ call'[p] = [at |-> "lock", buf |-> n, blk |-> b]
        /\ \A q \in Proc \ {p} : call'[q] = call[q]
    BY <1>0, <2>1, CallSet DEF MissEffect
  <2>3. \A q \in Proc : \/ call'[q] = call[q]
                        \/ call[q].at = "idle" /\ call'[q].at = "lock"
    BY <2>1, <2>2 DEF MissEffect, Idle
  <2>4. /\ \A m \in gone \cup {n} : ref[m] = 0
        /\ \A m \in Buf \ (gone \cup {n}) : data'[m] = data[m]
        /\ UNCHANGED <<disk, avail, io>>
    BY <2>1 DEF MissEffect
  <2> QED BY <2>3, <2>4, EvictStore
<1>3. ASSUME NEW k \in 1 .. Batch, FreeMem(k) PROVE Still
  <2>1. PICK gone \in SUBSET Buf : FreeEffect(gone)
    BY <1>0, <1>3, FreeFacts
  <2>2. /\ \A m \in gone : ref[m] = 0
        /\ \A m \in Buf \ gone : data'[m] = data[m]
        /\ UNCHANGED <<disk, avail, io>>
        /\ \A q \in Proc : call'[q] = call[q]
    BY <2>1 DEF FreeEffect
  <2> QED BY <2>2, EvictStore
<1>4. ASSUME NEW p \in Proc, Lock(p) PROVE Still
  <2>1. /\ call'[p].at = "check" /\ call[p].at = "lock"
        /\ \A q \in Proc \ {p} : call'[q] = call[q]
    BY <1>0, <1>4, CallMoved DEF Lock
  <2> QED BY <1>4, <1>a, <2>1 DEF Lock, diskVars
<1>5. ASSUME NEW p \in Proc, GotIt(p) PROVE Store!Next
  BY <1>5, TakeStore
<1>6. ASSUME NEW p \in Proc, Read(p) PROVE Still
  <2>1. /\ call'[p].at = "read" /\ call[p].at = "check"
        /\ \A q \in Proc \ {p} : call'[q] = call[q]
    BY <1>0, <1>6, CallMoved DEF Read
  <2>2. \A q \in Proc : SameChain(q)
    <3>1. ~Waits(p)
      BY <1>0, <2>1 DEF Synced, InDriver, Waits
    <3>2. PICK r : io' = [io EXCEPT ![p] = [at |-> "alloc", req |-> r]]
      BY <1>6 DEF Read, Call
    <3>3. io'[p] = [at |-> "alloc", req |-> r] /\ \A q \in Proc \ {p} : io'[q] = io[q]
      BY <1>0, <3>2 DEF TypeOK, DiskTypeOK
    <3>4. ~Waits(p)'
      BY <3>3 DEF Waits
    <3>5. SameChain(p)
      BY <3>1, <3>4 DEF SameChain
    <3>6. \A q \in Proc \ {p} : SameChain(q)
      BY <3>3, SameIo, TaskChain
    <3> QED BY <3>5, <3>6
  <2>3. UNCHANGED <<data, disk, avail>>
    BY <1>6 DEF Read
  <2> QED BY <2>1, <2>2, <2>3, QuietStore
<1>7. ASSUME NEW p \in Proc, NEW v \in Value, Write(p, v) PROVE Store!Next
  BY <1>7, WriteStore
<1>8. ASSUME NEW p \in Proc, IoDone(p) PROVE Store!Next \/ Still
  BY <1>8, TakeStore, WrittenStore
<1>9. ASSUME NEW p \in Proc, Unlock(p) PROVE Store!Next
  BY <1>9, ReleaseStore
<1>10. ASSUME NEW p \in Proc, Unref(p) PROVE Still
  <2>1. call'[p] = Idle /\ \A q \in Proc \ {p} : call'[q] = call[q]
    BY <1>0, <1>10, CallSet DEF Unref
  <2>2. call'[p].at = "idle" /\ call[p].at = "put"
    BY <1>10, <2>1 DEF Idle, Unref
  <2> QED BY <1>10, <1>a, <2>1, <2>2 DEF Unref, diskVars
<1>11. ASSUME NEW p \in Proc, Submit(p), UNCHANGED cacheVars PROVE Still
  BY <1>11, SubmitStore
<1>12. ASSUME NEW p \in Proc, Starve(p) \/ LookAgain(p) \/ Disturb(p), UNCHANGED cacheVars
       PROVE  Still
  <2>1. \A q \in Proc : SameTask(q)
    BY <1>0, <1>12, StarveIo, LookIo
  <2> QED BY <1>12, <1>b, <2>1 DEF Starve, LookAgain, Disturb, cacheVars
<1>13. ASSUME Interrupt, UNCHANGED cacheVars PROVE Still
  <2>1. \A q \in Proc : SameTask(q)
    BY <1>0, <1>13, InterruptIo
  <2> QED BY <1>13, <1>b, <2>1 DEF Interrupt, cacheVars
<1>14. ASSUME NEW h \in Desc, Transfer(h), UNCHANGED cacheVars PROVE Still
  BY <1>14, TransferStore
<1>15. ASSUME UNCHANGED vars PROVE Still
  <2>1. UNCHANGED <<data, disk, avail, call, io>>
    BY <1>15 DEF vars, diskVars, cacheVars
  <2>2. \A q \in Proc : SameTask(q)
    BY <2>1, SameIo
  <2> QED BY <1>b, <2>1, <2>2
<1> QED BY Zenon, <1>1, <1>2, <1>3, <1>4, <1>5, <1>6, <1>7, <1>8, <1>9, <1>10, <1>11, <1>12,
           <1>13, <1>14, <1>15 DEF Next, Proceed, DiskStep, Device

(* Whatever is evicted, reclaimed, in flight or completed out of order, a  *)
(* process that has a block is alone with it and finds what was written    *)
(* there last.                                                             *)
THEOREM StoreRefined == ASSUME Constants PROVE Spec => IsStore
BY InvInit, InvStep, StoreInit, StoreStep, PTL DEF Spec, IsStore, Store!Spec
=============================================================================
