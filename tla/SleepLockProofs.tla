-------------------------- MODULE SleepLockProofs --------------------------
(***************************************************************************)
(* Proofs about SleepLock, for any number of processes, locks and slots:   *)
(* the types, and that a sleep lock implements the abstract mutex.         *)
(***************************************************************************)
EXTENDS SleepLock, HintTableProofs

(* The pc's in which a process is busy with a lock.                        *)
Busy == {"want", "count", "fall", "asleep", "woken", "cs", "scan"}

(* Who owns a lock: exactly the process in its critical section.           *)
Owners ==
  /\ \A p \in Proc : pc[p] \in Busy <=> lk[p] \in Lock
  /\ \A p \in Proc : pc[p] = "cs" => pid[lk[p]] = p
  /\ \A k \in Lock : pid[k] # None => pid[k] \in Proc /\ pc[pid[k]] = "cs"
                                      /\ lk[pid[k]] = k
  /\ \A k \in Lock : locked[k] <=> pid[k] # None

Inv == TypeOK /\ Owners

(* The invariant holds at the start.                                       *)
LEMMA InvInit == Init => Inv
BY HintAssumption, SleepLockAssumption
DEF Init, HintInit, HintTypeOK, Inv, TypeOK, Owners, Place, Busy, Lock, Proc

(* The invariant is inductive.  Only Try, Release and Kill disturb Owners. *)
LEMMA InvStep == Inv /\ [Next]_vars => Inv'
<1> SUFFICES ASSUME Inv, [Next]_vars PROVE Inv'
  OBVIOUS
<1> USE HintAssumption, SleepLockAssumption DEF Inv, Owners, Place, Busy, Lock
<1>1. ASSUME NEW p \in Proc, NEW k \in Lock, Want(p, k) PROVE Inv'
  BY <1>1 DEF Want, TypeOK, HintTypeOK
<1>2. ASSUME NEW p \in Proc, NEW k \in Lock, Try(p, k) PROVE Inv'
  <2>1. CASE ~locked[k]
    <3>1. HintTypeOK'
      BY <1>2, HintFrame DEF Try, TypeOK
    <3>2. pid' = [pid EXCEPT ![k] = p] /\ locked' = [locked EXCEPT ![k] = TRUE]
          /\ pc' = [pc EXCEPT ![p] = "cs"] /\ lk' = lk /\ lk[p] = k
          /\ pid[k] = None /\ pc[p] = "want"
          /\ spin' = spin /\ next' = next /\ kills' = kills
      BY <1>2, <2>1 DEF Try
    <3>3. (\A q \in Proc : pc[q] \in Busy <=> lk[q] \in Lock)'
      BY <3>2 DEF TypeOK
    <3>4. (\A q \in Proc : pc[q] = "cs" => pid[lk[q]] = q)'
      BY <3>2 DEF TypeOK
    <3>5. (\A j \in Lock : pid[j] # None => pid[j] \in Proc /\ pc[pid[j]] = "cs"
                                           /\ lk[pid[j]] = j)'
      BY <3>2 DEF TypeOK
    <3>6. (\A j \in Lock : locked[j] <=> pid[j] # None)'
      BY <3>2 DEF TypeOK
    <3>7. TypeOK'
      BY <3>1, <3>2 DEF TypeOK
    <3> QED BY <3>3, <3>4, <3>5, <3>6, <3>7
  <2>2. CASE locked[k]
    <3>1. HintTypeOK'
      BY <1>2, HintFrame DEF Try, TypeOK
    <3>2. pid' = pid /\ locked' = locked /\ lk' = lk /\ pc[p] = "want"
          /\ pc' = [pc EXCEPT ![p] = "count"] /\ spin' = [spin EXCEPT ![k] = p]
          /\ next' = next /\ kills' = kills
      BY <1>2, <2>2 DEF Try
    <3>3. Owners'
      BY <3>2 DEF TypeOK
    <3>4. TypeOK'
      BY <3>1, <3>2 DEF TypeOK
    <3> QED BY <3>3, <3>4
  <2> QED BY <2>1, <2>2
<1>3. ASSUME NEW p \in Proc, NEW k \in Lock, Count(p, k) PROVE Inv'
  <2>1. HintTypeOK'
    BY <1>3, HintTypes DEF Count, TypeOK
  <2> QED BY <1>3, <2>1 DEF Count, TypeOK
<1>4. ASSUME NEW p \in Proc, NEW k \in Lock, Resume(p, k) PROVE Inv'
  <2>1. HintTypeOK'
    BY <1>4, HintTypes DEF Resume, TypeOK
  <2> QED BY <1>4, <2>1 DEF Resume, TypeOK
<1>5. ASSUME NEW p \in Proc, NEW k \in Lock, Release(p, k) PROVE Inv'
  <2>1. pc[p] = "cs" /\ lk[p] = k /\ pid[k] = p /\ locked[k]
    BY <1>5 DEF Release, TypeOK
  <2>2. pid' = [pid EXCEPT ![k] = None] /\ locked' = [locked EXCEPT ![k] = FALSE]
        /\ \/ pc' = [pc EXCEPT ![p] = "scan"] /\ lk' = lk
              /\ spin' = [spin EXCEPT ![k] = p] /\ next' = [next EXCEPT ![p] = 1]
           \/ pc' = [pc EXCEPT ![p] = "idle"] /\ lk' = [lk EXCEPT ![p] = None]
              /\ spin' = spin /\ next' = next
        /\ kills' = kills
    BY <1>5 DEF Release
  <2>3. TypeOK'
    <3>1. HintTypeOK'
      BY <1>5, HintFrame DEF Release, TypeOK
    <3>2. spin' \in [Lock -> Proc \cup {None}]
      BY <2>2 DEF TypeOK
    <3>3. next' \in [Proc -> Nat]
      BY <2>2 DEF TypeOK
    <3>4. pc' \in [Proc -> Place]
      BY <2>2 DEF TypeOK
    <3>5. lk' \in [Proc -> Lock \cup {None}]
      BY <2>2 DEF TypeOK
    <3> QED BY <2>2, <3>1, <3>2, <3>3, <3>4, <3>5 DEF TypeOK
  <2>4. (\A q \in Proc : pc[q] \in Busy <=> lk[q] \in Lock)'
    BY <2>1, <2>2 DEF TypeOK
  <2>5. (\A q \in Proc : pc[q] = "cs" => pid[lk[q]] = q)'
    BY <2>1, <2>2 DEF TypeOK
  <2>6. (\A j \in Lock : pid[j] # None => pid[j] \in Proc /\ pc[pid[j]] = "cs"
                                         /\ lk[pid[j]] = j)'
    BY <2>1, <2>2 DEF TypeOK
  <2>7. (\A j \in Lock : locked[j] <=> pid[j] # None)'
    BY <2>1, <2>2 DEF TypeOK
  <2> QED BY <2>3, <2>4, <2>5, <2>6, <2>7
<1>6. ASSUME NEW p \in Proc, NEW k \in Lock, Scan(p, k) PROVE Inv'
  <2>1. next' \in [Proc -> Nat]
    BY <1>6 DEF Scan, TypeOK
  <2>2. \/ pc' = pc
        \/ \E q \in Proc : pc[q] = "asleep" /\ pc' = [pc EXCEPT ![q] = "woken"]
    BY <1>6 DEF Scan
  <2> QED BY <1>6, <2>1, <2>2 DEF Scan, TypeOK, HintTypeOK
<1>7. ASSUME NEW p \in Proc, NEW k \in Lock, ScanEnds(p, k) PROVE Inv'
  <2>1. TypeOK'
    BY <1>7 DEF ScanEnds, TypeOK, HintTypeOK
  <2>2. pid' = pid /\ locked' = locked /\ pc[p] = "scan"
        /\ pc' = [pc EXCEPT ![p] = "idle"] /\ lk' = [lk EXCEPT ![p] = None]
    BY <1>7 DEF ScanEnds
  <2>3. Owners'
    BY <2>2 DEF TypeOK
  <2> QED BY <2>1, <2>3
<1>8. ASSUME NEW p \in Proc, Fall(p) \/ Spurious(p) PROVE Inv'
  <2>1. HintTypeOK'
    BY <1>8, HintFrame DEF Fall, Spurious, TypeOK
  <2>2. pid' = pid /\ locked' = locked /\ lk' = lk /\ spin' = spin
        /\ next' = next /\ kills' = kills /\ pc[p] \in {"fall", "asleep"}
        /\ (pc' = [pc EXCEPT ![p] = "asleep"] \/ pc' = [pc EXCEPT ![p] = "woken"])
    BY <1>8 DEF Fall, Spurious
  <2>3. TypeOK'
    BY <2>1, <2>2 DEF TypeOK
  <2>4. Owners'
    BY <2>2 DEF TypeOK
  <2> QED BY <2>3, <2>4
<1>9. ASSUME NEW p \in Proc, Kill(p) PROVE Inv'
  <2>1. HintTypeOK'
    BY <1>9, HintFrame DEF Kill, TypeOK
  <2>2. pid' = pid /\ locked' = locked /\ pc[p] = "asleep" /\ spin' = spin
        /\ next' = next /\ kills < MaxKills /\ kills' = kills + 1
        /\ pc' = [pc EXCEPT ![p] = "idle"] /\ lk' = [lk EXCEPT ![p] = None]
    BY <1>9 DEF Kill
  <2>3. TypeOK'
    BY <2>1, <2>2 DEF TypeOK
  <2>4. Owners'
    BY <2>2 DEF TypeOK
  <2> QED BY <2>3, <2>4
<1>10. ASSUME UNCHANGED vars PROVE Inv'
  BY <1>10 DEF vars, TypeOK, HintTypeOK
<1> HIDE DEF Inv, Owners, Place, Busy, Lock
<1> QED
  BY Zenon, <1>1, <1>2, <1>3, <1>4, <1>5, <1>6, <1>7, <1>8, <1>9, <1>10 DEF Next

(* Every state of the sleep locks has the declared types.                  *)
THEOREM TypeCorrect == Spec => []TypeOK
BY InvInit, InvStep, PTL DEF Spec, Inv

-----------------------------------------------------------------------------
(* Refinement: asking, getting, giving up and being killed map to the      *)
(* steps of Mutex, everything else is internal.                            *)

(* Initially nobody owns or asks for a lock.                               *)
LEMMA MutexInit == Init => M!MInit
BY DEF Init, M!MInit, Asking

(* Every step of the sleep locks is a step of the mutex, or hidden from it.*)
LEMMA MutexStep == Inv /\ [Next]_vars => [M!MNext]_(M!mvars)
<1> DEFINE asks == [p \in Proc |-> Asking(p)]
<1> SUFFICES ASSUME Inv, [Next]_vars PROVE M!MNext \/ UNCHANGED <<pid, asks>>
  BY DEF M!mvars
<1> USE HintAssumption DEF Inv, Owners, Busy, Lock, TypeOK
<1>1. ASSUME NEW p \in Proc, NEW k \in Lock, Want(p, k) PROVE M!Ask(p, k)
  <2>1. pc[p] = "idle" /\ pc' = [pc EXCEPT ![p] = "want"]
        /\ lk' = [lk EXCEPT ![p] = k] /\ pid' = pid
    BY <1>1 DEF Want
  <2>2. asks' = [asks EXCEPT ![p] = k]
    BY <2>1 DEF Asking
  <2>3. asks[p] = None /\ \A j \in Lock : pid[j] # p
    BY <2>1, SleepLockAssumption DEF Asking
  <2> QED BY <2>1, <2>2, <2>3 DEF M!Ask
<1>2. ASSUME NEW p \in Proc, NEW k \in Lock, Try(p, k)
      PROVE  M!Grant(p, k) \/ UNCHANGED <<pid, asks>>
  <2>1. CASE ~locked[k]
    <3>1. pc[p] = "want" /\ lk[p] = k /\ pc' = [pc EXCEPT ![p] = "cs"]
          /\ lk' = lk /\ pid' = [pid EXCEPT ![k] = p] /\ pid[k] = None
      BY <1>2, <2>1 DEF Try
    <3>2. asks' = [asks EXCEPT ![p] = None]
      BY <3>1 DEF Asking
    <3>3. asks[p] = k
      BY <3>1 DEF Asking
    <3> QED BY <3>1, <3>2, <3>3 DEF M!Grant
  <2>2. CASE locked[k]
    BY <1>2, <2>2 DEF Try, Asking
  <2> QED BY <2>1, <2>2
<1>3. ASSUME NEW p \in Proc, NEW k \in Lock, Release(p, k) PROVE M!Free(p, k)
  BY <1>3 DEF Release, M!Free, Asking
<1>4. ASSUME NEW p \in Proc, NEW k \in Lock,
             Count(p, k) \/ Resume(p, k) \/ ScanEnds(p, k)
      PROVE  UNCHANGED <<pid, asks>>
  BY <1>4 DEF Count, Resume, ScanEnds, Asking
<1>5. ASSUME NEW p \in Proc, NEW k \in Lock, Scan(p, k)
      PROVE  UNCHANGED <<pid, asks>>
  <2>1. \/ pc' = pc
        \/ \E q \in Proc : pc[q] = "asleep" /\ pc' = [pc EXCEPT ![q] = "woken"]
    BY <1>5 DEF Scan
  <2> QED BY <1>5, <2>1 DEF Scan, Asking
<1>6. ASSUME NEW p \in Proc, Fall(p) \/ Spurious(p) PROVE UNCHANGED <<pid, asks>>
  BY <1>6 DEF Fall, Spurious, Asking
<1>7. ASSUME NEW p \in Proc, Kill(p) PROVE M!Drop(p)
  <2>1. pc[p] = "asleep" /\ pc' = [pc EXCEPT ![p] = "idle"]
        /\ lk' = [lk EXCEPT ![p] = None] /\ pid' = pid
    BY <1>7 DEF Kill
  <2>2. asks' = [asks EXCEPT ![p] = None]
    BY <2>1 DEF Asking
  <2> QED BY <2>1, <2>2 DEF M!Drop
<1>8. ASSUME UNCHANGED vars PROVE UNCHANGED <<pid, asks>>
  BY <1>8 DEF vars, Asking
<1> QED
  BY <1>1, <1>2, <1>3, <1>4, <1>5, <1>6, <1>7, <1>8 DEF Next, M!MNext

(* Sleep locks implement the mutex, whatever the hint table does.          *)
THEOREM MutexRefined == Spec => IsMutex
BY InvInit, InvStep, MutexInit, MutexStep, PTL DEF Spec, IsMutex, M!MSpec

-----------------------------------------------------------------------------
(* The hint.                                                               *)

(* The lock a process is counted for: from proc_sleep_common's count until *)
(* it runs again.                                                          *)
Counted == [p \in Proc |-> IF pc[p] \in {"fall", "asleep", "woken"} THEN lk[p] ELSE None]

(* Every counted process has a ticket in the table.                        *)
Tickets == Covered(slot, overflow, Counted, FALSE)

(* Nobody is counted at the start.                                         *)
LEMMA TicketsInit == Init => Tickets
<1> SUFFICES ASSUME Init PROVE Tickets
  OBVIOUS
<1>1. DOMAIN Counted = Proc /\ \A p \in Proc : Counted[p] = None
  BY DEF Init, Counted
<1>2. Covered(slot, overflow, Counted, TRUE)
  BY <1>1, CoveredInit DEF Init
<1> QED BY <1>2 DEF Tickets, Covered, Dealt

(* Only Count, Resume and Kill change who is counted.                      *)
LEMMA TicketsStep == Inv /\ Tickets /\ [Next]_vars => Tickets'
<1> SUFFICES ASSUME Inv, Tickets, [Next]_vars PROVE Tickets'
  OBVIOUS
<1> USE DEF Inv
<1>1. ASSUME UNCHANGED <<slot, overflow>>, Counted' = Counted PROVE Tickets'
  BY <1>1 DEF Tickets
<1>2. ASSUME NEW p \in Proc, NEW k \in Lock,
             Want(p, k) \/ Try(p, k) \/ Release(p, k) \/ ScanEnds(p, k)
      PROVE  Tickets'
  <2>1. Counted' = Counted /\ UNCHANGED <<slot, overflow>>
    BY <1>2 DEF Want, Try, Release, ScanEnds, Counted, TypeOK
  <2> QED BY <2>1, <1>1
<1>3. ASSUME NEW p \in Proc, NEW k \in Lock, Count(p, k) PROVE Tickets'
  <2>1. Counted' = [Counted EXCEPT ![p] = k] /\ Counted[p] = None /\ p \in DOMAIN Counted
    BY <1>3 DEF Count, Counted, TypeOK
  <2>2. HintTypeOK /\ Inc(k) /\ k \in Chan
    BY <1>3 DEF Count, TypeOK, Lock
  <2>3. Covered(slot', overflow', [Counted EXCEPT ![p] = k], FALSE)
    BY <2>1, <2>2, IncCovers DEF Tickets
  <2> QED BY <2>1, <2>3 DEF Tickets
<1>4. ASSUME NEW p \in Proc, NEW k \in Lock, Resume(p, k) PROVE Tickets'
  <2>1. Counted' = [Counted EXCEPT ![p] = None] /\ Counted[p] = k /\ p \in DOMAIN Counted
    BY <1>4 DEF Resume, Counted, TypeOK
  <2>2. HintTypeOK /\ Dec(k) /\ k \in Chan
    BY <1>4 DEF Resume, TypeOK, Lock
  <2>3. Covered(slot', overflow', [Counted EXCEPT ![p] = None], FALSE)
    BY <2>1, <2>2, DecCovers DEF Tickets
  <2> QED BY <2>1, <2>3 DEF Tickets
<1>5. ASSUME NEW p \in Proc, NEW k \in Lock, Scan(p, k) PROVE Tickets'
  <2>1. \/ pc' = pc
        \/ \E q \in Proc : pc[q] = "asleep" /\ pc' = [pc EXCEPT ![q] = "woken"]
    BY <1>5 DEF Scan
  <2>2. Counted' = Counted /\ UNCHANGED <<slot, overflow>>
    BY <1>5, <2>1 DEF Scan, Counted, TypeOK
  <2> QED BY <2>2, <1>1
<1>6. ASSUME NEW p \in Proc, Fall(p) \/ Spurious(p) PROVE Tickets'
  <2>1. Counted' = Counted /\ UNCHANGED <<slot, overflow>>
    BY <1>6 DEF Fall, Spurious, Counted, TypeOK
  <2> QED BY <2>1, <1>1
<1>7. ASSUME NEW p \in Proc, Kill(p) PROVE Tickets'
  <2>1. Counted' = [Counted EXCEPT ![p] = None] /\ UNCHANGED <<slot, overflow>>
        /\ DOMAIN Counted = Proc
    BY <1>7 DEF Kill, Counted, TypeOK
  <2>2. Covered(slot, overflow, [Counted EXCEPT ![p] = None], FALSE)
    BY <2>1, Forget DEF Tickets, Covered
  <2> QED BY <2>1, <2>2 DEF Tickets
<1>8. ASSUME UNCHANGED vars PROVE Tickets'
  BY <1>8, <1>1 DEF vars, Counted
<1> HIDE DEF Inv
<1> QED BY Zenon, <1>2, <1>3, <1>4, <1>5, <1>6, <1>7, <1>8 DEF Next

(* The hint counts every sleeper.                                          *)
LEMMA TicketsSeen == Inv /\ Tickets => HintSound
<1> SUFFICES ASSUME Inv, Tickets, NEW p \in Proc, pc[p] \in {"fall", "asleep"}
             PROVE  HasWaiter(lk[p])
  BY DEF HintSound
<1>1. p \in DOMAIN Counted /\ Counted[p] = lk[p] /\ lk[p] # None
  BY HintAssumption DEF Counted, Inv, Owners, Busy, Lock
<1> QED BY <1>1, CoveredSeen DEF Tickets, Inv, TypeOK

(* A release of a lock somebody sleeps on scans the processes: two         *)
(* channels in one probe sequence, channels with two slots, the overflow   *)
(* counter and the counts killed sleepers leave never hide a sleeper.      *)
THEOREM HintSoundCorrect == Spec => []HintSound
BY InvInit, InvStep, TicketsInit, TicketsStep, TicketsSeen, PTL DEF Spec

-----------------------------------------------------------------------------
(* No wakeup is lost.                                                      *)

(* Who holds the spinlock of a lock; a scan begins at the first process.   *)
Spins ==
  /\ \A p \in Proc, k \in Lock :
        spin[k] = p <=> pc[p] \in {"count", "scan"} /\ lk[p] = k
  /\ \A p \in Proc : next[p] >= 1

Found == Inv /\ Tickets /\ Spins /\ NoLostWakeup

(* It holds at the start.                                                  *)
LEMMA FoundInit == Init => Found
<1> SUFFICES ASSUME Init PROVE Spins /\ NoLostWakeup
  BY InvInit, TicketsInit DEF Found
<1> QED BY SleepLockAssumption DEF Init, Spins, NoLostWakeup

(* A spinlock is passed on by Try, Count, Release and ScanEnds only.       *)
LEMMA SpinsStep == Inv /\ Spins /\ [Next]_vars => Spins'
<1> SUFFICES ASSUME Inv, Spins, [Next]_vars PROVE Spins'
  OBVIOUS
<1> USE HintAssumption, SleepLockAssumption DEF Inv, TypeOK, Spins, Lock, Owners, Busy
<1>1. ASSUME NEW p \in Proc, NEW k \in Lock, Want(p, k) PROVE Spins'
  BY <1>1 DEF Want
<1>2. ASSUME NEW p \in Proc, NEW k \in Lock, Try(p, k) PROVE Spins'
  BY <1>2 DEF Try
<1>3. ASSUME NEW p \in Proc, NEW k \in Lock, Count(p, k) PROVE Spins'
  BY <1>3 DEF Count
<1>4. ASSUME NEW p \in Proc, NEW k \in Lock, Resume(p, k) PROVE Spins'
  BY <1>4 DEF Resume
<1>5. ASSUME NEW p \in Proc, NEW k \in Lock, Release(p, k) PROVE Spins'
  BY <1>5 DEF Release
<1>6. ASSUME NEW p \in Proc, NEW k \in Lock, Scan(p, k) PROVE Spins'
  <2>1. \/ pc' = pc
        \/ \E q \in Proc : pc[q] = "asleep" /\ pc' = [pc EXCEPT ![q] = "woken"]
    BY <1>6 DEF Scan
  <2> QED BY <1>6, <2>1 DEF Scan
<1>7. ASSUME NEW p \in Proc, NEW k \in Lock, ScanEnds(p, k) PROVE Spins'
  BY <1>7 DEF ScanEnds
<1>8. ASSUME NEW p \in Proc, Fall(p) \/ Spurious(p) \/ Kill(p) PROVE Spins'
  BY <1>8 DEF Fall, Spurious, Kill
<1>9. ASSUME UNCHANGED vars PROVE Spins'
  BY <1>9 DEF vars
<1> HIDE DEF Inv, TypeOK, Spins, Lock, Owners, Busy
<1> QED BY Zenon, <1>1, <1>2, <1>3, <1>4, <1>5, <1>6, <1>7, <1>8, <1>9 DEF Next

(* Only Count, Release, Scan and ScanEnds could lose a wakeup.             *)
LEMMA LostStep == Found /\ [Next]_vars => NoLostWakeup'
<1> SUFFICES ASSUME Found, [Next]_vars PROVE NoLostWakeup'
  OBVIOUS
<1> DEFINE Sleeps(q, j) == pc[q] \in {"count", "fall", "asleep"} /\ lk[q] = j
           Scans(w, j, q) == pc[w] = "scan" /\ lk[w] = j /\ next[w] <= q
<1>0. Inv /\ TypeOK /\ HintSound /\ \A p \in Proc : p \in Nat
  BY TicketsSeen, SleepLockAssumption DEF Found, Inv, Proc
<1>a. \A q \in Proc, j \in Lock :
        Sleeps(q, j) /\ ~locked[j] => \E w \in Proc : Scans(w, j, q)
  BY DEF Found, NoLostWakeup
<1>s. \A p \in Proc, k \in Lock :
         spin[k] = p <=> pc[p] \in {"count", "scan"} /\ lk[p] = k
  BY DEF Found, Spins
(* A step that puts nobody to sleep, frees no lock and disturbs no scan.   *)
<1>f. ASSUME \A q \in Proc, j \in Lock :
               Sleeps(q, j)' /\ ~locked'[j] => Sleeps(q, j) /\ ~locked[j],
             \A w \in Proc : pc[w] = "scan" =>
               pc'[w] = "scan" /\ lk'[w] = lk[w] /\ next'[w] = next[w]
      PROVE  NoLostWakeup'
  BY <1>a, <1>f DEF NoLostWakeup
<1>1. ASSUME NEW p \in Proc, NEW k \in Lock, Want(p, k) PROVE NoLostWakeup'
  BY <1>0, <1>1, <1>f DEF Want, TypeOK
<1>2. ASSUME NEW p \in Proc, NEW k \in Lock, Try(p, k) PROVE NoLostWakeup'
  BY <1>0, <1>2, <1>f DEF Try, TypeOK
<1>3. ASSUME NEW p \in Proc, NEW k \in Lock, Count(p, k) PROVE NoLostWakeup'
  BY <1>0, <1>3, <1>f DEF Count, TypeOK
<1>4. ASSUME NEW p \in Proc, NEW k \in Lock, Resume(p, k) PROVE NoLostWakeup'
  BY <1>0, <1>4, <1>f DEF Resume, TypeOK
<1>5. ASSUME NEW p \in Proc, NEW k \in Lock, Release(p, k) PROVE NoLostWakeup'
  <2>0. pc[p] = "cs" /\ lk[p] = k /\ spin[k] = None
        /\ locked' = [locked EXCEPT ![k] = FALSE]
    BY <1>5 DEF Release
  <2> SUFFICES ASSUME NEW q \in Proc, NEW j \in Lock, Sleeps(q, j)', ~locked'[j]
               PROVE  \E w \in Proc : Scans(w, j, q)'
    BY DEF NoLostWakeup
  <2>1. Sleeps(q, j) /\ q # p
    BY <1>0, <1>5 DEF Release, TypeOK
  <2>2. CASE j # k
    <3>1. PICK w \in Proc : Scans(w, j, q)
      BY <1>0, <1>a, <2>0, <2>1, <2>2 DEF TypeOK
    <3>2. w # p /\ pc'[w] = pc[w] /\ lk'[w] = lk[w] /\ next'[w] = next[w]
      BY <1>0, <1>5, <3>1 DEF Release, TypeOK
    <3> QED BY <3>1, <3>2
  <2>3. CASE j = k
    <3>1. pc[q] \in {"fall", "asleep"} /\ lk[q] = k
      BY <1>s, <2>0, <2>1, <2>3, SleepLockAssumption
    <3>2. HasWaiter(k)
      BY <1>0, <3>1 DEF HintSound
    <3>3. pc'[p] = "scan" /\ lk'[p] = k /\ next'[p] = 1
      BY <1>0, <1>5, <3>2 DEF Release, TypeOK
    <3> QED BY <2>3, <3>3 DEF Proc
  <2> QED BY <2>2, <2>3
<1>6. ASSUME NEW p \in Proc, NEW k \in Lock, Scan(p, k) PROVE NoLostWakeup'
  <2>0. /\ pc[p] = "scan" /\ lk[p] = k /\ next[p] \in Proc /\ pc[next[p]] # "fall"
        /\ pc' = IF pc[next[p]] = "asleep" /\ lk[next[p]] = k
                 THEN [pc EXCEPT ![next[p]] = "woken"] ELSE pc
        /\ next' = [next EXCEPT ![p] = @ + 1]
        /\ lk' = lk /\ locked' = locked
    BY <1>6 DEF Scan
  <2> SUFFICES ASSUME NEW q \in Proc, NEW j \in Lock, Sleeps(q, j)', ~locked'[j]
               PROVE  \E w \in Proc : Scans(w, j, q)'
    BY DEF NoLostWakeup
  <2>1. Sleeps(q, j) /\ ~locked[j]
    BY <1>0, <2>0 DEF TypeOK
  <2>2. PICK w \in Proc : Scans(w, j, q)
    BY <1>a, <2>1
  <2>3. pc'[w] = "scan" /\ lk'[w] = j
    BY <1>0, <2>0, <2>2 DEF TypeOK
  <2>4. CASE w # p
    BY <1>0, <2>0, <2>2, <2>3, <2>4 DEF TypeOK
  <2>5. CASE w = p
    <3>1. j = k /\ next'[p] = next[p] + 1 /\ next[p] \in Nat
      BY <1>0, <2>0, <2>2, <2>5 DEF TypeOK
    <3>2. pc[q] # "count"
      BY <1>s, <2>0, <2>1, <3>1
    <3>3. next[p] # q
      BY <1>0, <2>0, <2>1, <3>1, <3>2 DEF TypeOK
    <3>4. next'[p] <= q
      BY <1>0, <2>2, <2>5, <3>1, <3>3
    <3> QED BY <2>3, <2>5, <3>4
  <2> QED BY <2>4, <2>5
<1>7. ASSUME NEW p \in Proc, NEW k \in Lock, ScanEnds(p, k) PROVE NoLostWakeup'
  <2>0. /\ pc[p] = "scan" /\ lk[p] = k /\ next[p] \notin Proc
        /\ pc' = [pc EXCEPT ![p] = "idle"] /\ lk' = [lk EXCEPT ![p] = None]
        /\ next' = next /\ locked' = locked
    BY <1>7 DEF ScanEnds
  <2> SUFFICES ASSUME NEW q \in Proc, NEW j \in Lock, Sleeps(q, j)', ~locked'[j]
               PROVE  \E w \in Proc : Scans(w, j, q)'
    BY DEF NoLostWakeup
  <2>1. Sleeps(q, j) /\ ~locked[j] /\ q # p
    BY <1>0, <2>0 DEF TypeOK
  <2>2. PICK w \in Proc : Scans(w, j, q)
    BY <1>a, <2>1
  <2>3. w # p
    <3>1. Scans(p, j, q) => next[p] \in Proc
      BY <1>0, SleepLockAssumption DEF TypeOK, Proc, Found, Spins
    <3> QED BY <2>0, <2>2, <3>1
  <2> QED BY <1>0, <2>0, <2>2, <2>3 DEF TypeOK
<1>8. ASSUME NEW p \in Proc, Fall(p) \/ Spurious(p) \/ Kill(p) PROVE NoLostWakeup'
  BY <1>0, <1>8, <1>f DEF Fall, Spurious, Kill, TypeOK
<1>9. ASSUME UNCHANGED vars PROVE NoLostWakeup'
  BY <1>9, <1>f DEF vars
<1> QED BY Zenon, <1>1, <1>2, <1>3, <1>4, <1>5, <1>6, <1>7, <1>8, <1>9 DEF Next

(* No wakeup is lost, in any interleaving of the processes with the scans, *)
(* spurious wakeups and kills: nobody sleeps on a lock that is free unless *)
(* the scan of the process that freed it is still going to look at it.     *)
THEOREM NoLostWakeupCorrect == Spec => []NoLostWakeup
<1>1. Found /\ [Next]_vars => Found'
  BY InvStep, TicketsStep, SpinsStep, LostStep DEF Found
<1>2. Found => NoLostWakeup
  BY DEF Found
<1> QED BY <1>1, <1>2, FoundInit, PTL DEF Spec
=============================================================================
