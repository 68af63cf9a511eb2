--------------------------- MODULE ProcLifeProofs ---------------------------
(***************************************************************************)
(* Proofs about ProcLife, for any number of slots and CPUs.                *)
(*                                                                         *)
(* Where a process is determines its state and whether a CPU executes it   *)
(* (Fits).  Family is what proc_reparent relies on: only a process that is *)
(* still to finish its scan can be a parent of somebody, and a scan has    *)
(* left nothing behind in the slots it has passed.  On one CPU a scan of   *)
(* wait4 is undisturbed, so it has seen every child when the parent goes   *)
(* to sleep (Looked).                                                      *)
(***************************************************************************)
EXTENDS ProcLife, FiniteSetTheorems, TLAPS

Active == {"scan", "check", "doze", "after", "reparent"}

(* Process p: place, state and CPU fit together.                           *)
Fits(p) ==
  /\ pc[p] = "none" => state[p] = "UNUSED" /\ p \notin run
  /\ pc[p] = "user" => \/ state[p] = "RUNNABLE" /\ p \notin run
                       \/ state[p] = "RUNNING" /\ p \in run
  /\ pc[p] \in Active => state[p] = "RUNNING" /\ p \in run
  /\ pc[p] = "asleep" => state[p] \in {"SLEEPING", "RUNNABLE"} /\ p \notin run
  /\ pc[p] \in {"tell", "gone"} => state[p] = "ZOMBIE" /\ p \in run
  /\ pc[p] = "dead" => state[p] = "ZOMBIE" /\ p \notin run

(* Where a process is that others may have as their parent.                *)
Parental == Waiting \cup {"user", "reparent"}

FamilyOf(p) ==
  /\ parent[p] # p
  /\ pc[p] = "none" \/ p = proczero => parent[p] = None
  /\ pc[p] # "none" /\ p # proczero =>
       parent[p] \in Proc /\ pc[parent[p]] \in Parental
  /\ pc[p] = "reparent" => \A c \in Proc : c < idx[p] => parent[c] # p

Family ==
  /\ pc[proczero] \in Waiting \cup {"user"}
  /\ \A p \in Proc : FamilyOf(p)

LifeInv == TypeOK /\ (\A p \in Proc : Fits(p)) /\ Family

-----------------------------------------------------------------------------
(* Types.                                                                  *)

(* Constants that the actions write.                                       *)
LEMMA Basics ==
  /\ proczero \in Proc /\ 0 \notin Proc /\ None \notin Proc /\ N \in Nat
  /\ NCPU \in Nat \ {0} /\ 1 \in 1 .. N + 1
  /\ \A c \in Proc : c \in 1 .. N + 1 /\ c + 1 \in 1 .. N + 1 /\ c \in Nat
BY ProcLifeAssumption DEF Proc, proczero

(* At most NCPU processes run, also when one more is dispatched.           *)
LEMMA RunBound ==
  ASSUME NEW r \in SUBSET Proc
  PROVE  /\ IsFiniteSet(r) /\ Cardinality(r) \in Nat
         /\ \A p \in Proc : /\ Cardinality(r \cup {p}) \in Nat /\ Cardinality(r \ {p}) \in Nat
                            /\ Cardinality(r \cup {p}) <= Cardinality(r) + 1
                            /\ Cardinality(r \ {p}) <= Cardinality(r)
<1>1. IsFiniteSet(Proc)
  <2>1. 1 \in Int /\ N \in Int
    BY ProcLifeAssumption
  <2> QED BY <2>1, FS_Interval DEF Proc
<1>2. IsFiniteSet(r)
  BY <1>1, FS_Subset
<1>3. Cardinality(r) \in Nat
  BY <1>2, FS_CardinalityType
<1>4. ASSUME NEW p \in Proc
      PROVE  /\ Cardinality(r \cup {p}) \in Nat /\ Cardinality(r \ {p}) \in Nat
             /\ Cardinality(r \cup {p}) <= Cardinality(r) + 1
             /\ Cardinality(r \ {p}) <= Cardinality(r)
  <2>3. Cardinality(r \cup {p}) \in Nat /\ Cardinality(r \ {p}) \in Nat
    BY <1>2, FS_AddElement, FS_RemoveElement, FS_CardinalityType
  <2>1. Cardinality(r \cup {p}) = IF p \in r THEN Cardinality(r) ELSE Cardinality(r) + 1
    BY <1>2, FS_AddElement
  <2>2. Cardinality(r \ {p}) = IF p \in r THEN Cardinality(r) - 1 ELSE Cardinality(r)
    BY <1>2, FS_RemoveElement
  <2> QED BY <1>3, <2>1, <2>2, <2>3
<1> QED BY <1>2, <1>3, <1>4

(* What proc_free keeps.                                                   *)
LEMMA FreeTypes ==
  ASSUME TypeOK, NEW c \in Proc, NEW done \in SUBSET Proc, Free(c, done)
  PROVE  /\ state' \in [Proc -> State] /\ parent' \in [Proc -> Proc \cup {None}]
         /\ orphan' \in [Proc -> BOOLEAN] /\ pend' \in [Proc -> BOOLEAN]
         /\ pc' \in [Proc -> Place] /\ want' \in [Proc -> Proc \cup {None, Gone}]
BY DEF Free, TypeOK, State, Place

(* A step keeps the types.                                                 *)
LEMMA TypeStep == TypeOK /\ [Next]_vars => TypeOK'
<1> SUFFICES ASSUME TypeOK, [Next]_vars PROVE TypeOK'
  OBVIOUS
<1>0. /\ run \in SUBSET Proc /\ Cardinality(run) \in Nat /\ Cardinality(run) <= NCPU
      /\ NCPU \in Nat
      /\ \A p \in Proc : /\ Cardinality(run \cup {p}) <= Cardinality(run) + 1
                         /\ Cardinality(run \ {p}) <= Cardinality(run)
                         /\ Cardinality(run \cup {p}) \in Nat /\ Cardinality(run \ {p}) \in Nat
  <2>1. run \in SUBSET Proc
    BY DEF TypeOK
  <2> QED BY <2>1, RunBound, Basics DEF TypeOK
<1>1. ASSUME NEW p \in Proc, Dispatch(p) PROVE TypeOK'
  <2>1. run' \subseteq Proc /\ Cardinality(run') <= NCPU
    <3>1. run' = run \cup {p} /\ Cardinality(run) < NCPU
      BY <1>1 DEF Dispatch
    <3>2. Cardinality(run \cup {p}) \in Nat /\ Cardinality(run \cup {p}) <= Cardinality(run) + 1
      BY <1>0
    <3>3. Cardinality(run \cup {p}) <= NCPU
      BY <1>0, <3>1, <3>2
    <3> QED BY <1>0, <3>1, <3>3
  <2> QED BY <1>1, <2>1 DEF TypeOK, Dispatch, State, Place, Waiting, waitVars
<1>2. ASSUME NEW p \in Proc, Yield(p) \/ Doze(p) \/ Leave(p) PROVE TypeOK'
  <2>1. run' \subseteq Proc /\ Cardinality(run') <= NCPU
    BY <1>0, <1>2 DEF Yield, Doze, Leave
  <2> QED BY <1>2, <2>1 DEF TypeOK, Yield, Doze, Leave, State, Place, Waiting, waitVars
<1>3. ASSUME NEW c \in Proc, Background(c) PROVE TypeOK'
  <2>1. Free(c, {}) /\ {} \in SUBSET Proc /\ UNCHANGED <<run, idx, found>>
    BY <1>3 DEF Background
  <2>2. /\ state' \in [Proc -> State] /\ parent' \in [Proc -> Proc \cup {None}]
        /\ orphan' \in [Proc -> BOOLEAN] /\ pend' \in [Proc -> BOOLEAN]
        /\ pc' \in [Proc -> Place] /\ want' \in [Proc -> Proc \cup {None, Gone}]
    BY <2>1, FreeTypes
  <2> QED BY <2>1, <2>2 DEF TypeOK
<1>4. ASSUME NEW p \in Proc, NEW c \in Proc, Collect(p, c) \/ Discard(p, c) PROVE TypeOK'
  <2>1. PICK done \in SUBSET Proc : Free(c, done)
    BY <1>4 DEF Collect, Discard
  <2>2. /\ state' \in [Proc -> State] /\ parent' \in [Proc -> Proc \cup {None}]
        /\ orphan' \in [Proc -> BOOLEAN] /\ pend' \in [Proc -> BOOLEAN]
        /\ pc' \in [Proc -> Place] /\ want' \in [Proc -> Proc \cup {None, Gone}]
    BY <2>1, FreeTypes
  <2>3. /\ idx' \in [Proc -> 1 .. N + 1] /\ found' \in [Proc -> BOOLEAN] /\ run' = run
    <3>1. CASE Collect(p, c)
      BY <3>1, Basics DEF Collect, TypeOK
    <3>2. CASE Discard(p, c)
      BY <3>2, Basics DEF Discard, TypeOK
    <3> QED BY <1>4, <3>1, <3>2
  <2> QED BY <2>2, <2>3 DEF TypeOK
<1>5. ASSUME NEW p \in Proc, NEW c \in Proc, Fork(p, c) \/ Pass(p, c) \/ Reparent(p, c)
      PROVE  TypeOK'
  <2>1. CASE Fork(p, c)
    BY <2>1, Basics DEF TypeOK, Fork, State, Place, waitVars
  <2>2. CASE Pass(p, c)
    BY <2>2, Basics DEF TypeOK, Pass
  <2>3. CASE Reparent(p, c)
    <3>1. idx' \in [Proc -> 1 .. N + 1] /\ UNCHANGED <<state, pend, run, pc, found, want>>
      BY <2>3, Basics DEF TypeOK, Reparent, waitVars
    <3>2. parent' \in [Proc -> Proc \cup {None}] /\ orphan' \in [Proc -> BOOLEAN]
      <4>1. CASE Child(p, c)
        <5>1. /\ parent' = [parent EXCEPT ![c] = proczero]
              /\ orphan' = [orphan EXCEPT ![c] = TRUE]
          BY <2>3, <4>1, Zenon DEF Reparent
        <5> QED BY <5>1, Basics DEF TypeOK
      <4>2. CASE ~Child(p, c)
        <5>1. parent' = parent /\ orphan' = orphan
          BY <2>3, <4>2, Zenon DEF Reparent
        <5> QED BY <5>1 DEF TypeOK
      <4> QED BY <4>1, <4>2
    <3> QED BY <3>1, <3>2 DEF TypeOK
  <2> QED BY <1>5, <2>1, <2>2, <2>3
<1>6. ASSUME NEW p \in Proc, NEW place \in Place, Moves(p, place)
      PROVE  /\ pc' \in [Proc -> Place] /\ idx' \in [Proc -> 1 .. N + 1]
             /\ found' \in [Proc -> BOOLEAN]
  BY <1>6, Basics DEF TypeOK, Moves
<1>a. {"scan", "check", "doze", "user", "reparent", "tell"} \subseteq Place /\ "ZOMBIE" \in State
  BY DEF Place, Waiting, Exiting, State
<1>9. ASSUME NEW p \in Proc, Deliver(p) PROVE TypeOK'
  BY <1>9 DEF TypeOK, Deliver, waitVars
<1>10. ASSUME NEW p \in Proc, Check(p) PROVE TypeOK'
  <2>1. CASE Moves(p, "scan") /\ pend' = [pend EXCEPT ![p] = FALSE]
    BY <1>6, <1>10, <1>a, <2>1 DEF TypeOK, Check
  <2>2. CASE pc' = [pc EXCEPT ![p] = "doze"] /\ UNCHANGED <<pend, idx, found>>
    BY <1>10, <1>a, <2>2 DEF TypeOK, Check
  <2> QED BY <1>10, <2>1, <2>2 DEF Check
<1>11. ASSUME NEW p \in Proc, Exit(p) \/ Die(p) PROVE TypeOK'
  <2>1. \E place \in Place : Moves(p, place)
    BY <1>11, <1>a DEF Exit, Die
  <2> QED BY <1>6, <1>11, <1>a, <2>1 DEF TypeOK, Exit, Die
<1>12. ASSUME NEW p \in Proc, After(p) PROVE TypeOK'
  <2>1. \E place \in Place : Moves(p, place)
    BY <1>12, <1>a DEF After
  <2> QED BY <1>6, <1>12, <2>1 DEF TypeOK, After
<1>13. ASSUME NEW p \in Proc, Wait(p) \/ ScanEnd(p) PROVE TypeOK'
  <2>1. \E place \in Place : Moves(p, place)
    BY <1>13, <1>a DEF Wait, ScanEnd
  <2>2. \E w \in Proc \cup {None, Gone} : want' = [want EXCEPT ![p] = w] \/ want' = want
    BY <1>13 DEF Wait, ScanEnd
  <2>3. UNCHANGED <<state, parent, orphan, pend, run>>
    BY <1>13 DEF Wait, ScanEnd
  <2> QED BY <1>6, <2>1, <2>2, <2>3 DEF TypeOK
<1>7. ASSUME NEW p \in Proc, Tell(p) PROVE TypeOK'
  <2>1. pend' = [pend EXCEPT ![parent[p]] = @ \/ parent[p] \in Handlers]
    BY <1>7 DEF Tell
  <2>2. pend' \in [Proc -> BOOLEAN]
    BY <2>1 DEF TypeOK
  <2> QED BY <1>7, <2>2 DEF TypeOK, Tell, State, Place, Exiting, waitVars
<1>8. CASE UNCHANGED vars
  BY <1>8 DEF TypeOK, vars
<1> QED
  BY <1>1, <1>2, <1>3, <1>4, <1>5, <1>7, <1>8, <1>9, <1>10, <1>11, <1>12, <1>13, Zenon
  DEF Next

-----------------------------------------------------------------------------
(* Place, state and CPU.                                                   *)

(* A zombie whose lock is free is off its stack.                           *)
LEMMA ZombieIsDead ==
  ASSUME LifeInv, NEW c \in Proc, state[c] = "ZOMBIE", ~Held(c)
  PROVE  pc[c] = "dead" /\ c \notin run /\ c # proczero
<1>1. pc[c] \in Place /\ Fits(c) /\ pc[proczero] \in Waiting \cup {"user"}
  BY DEF LifeInv, TypeOK, Family
<1> QED BY <1>1 DEF Fits, Held, Place, Waiting, Exiting, Active

(* A free slot has no process, and only a free slot.                       *)
LEMMA FreeIsNone ==
  ASSUME LifeInv, NEW c \in Proc
  PROVE  state[c] = "UNUSED" <=> pc[c] = "none"
<1>1. pc[c] \in Place /\ Fits(c)
  BY DEF LifeInv, TypeOK
<1> QED BY <1>1 DEF Fits, Place, Waiting, Exiting, Active

(* A dead process can be freed, and scanning processes go back to user     *)
(* mode.                                                                   *)
LEMMA FreeFits ==
  ASSUME LifeInv, NEW c \in Proc, NEW done \in SUBSET Proc, Free(c, done),
         run' = run, pc[c] = "dead", \A p \in done : pc[p] = "scan",
         NEW q \in Proc
  PROVE  Fits(q)'
<1>1. Fits(q) /\ pc \in [Proc -> Place] /\ state \in [Proc -> State]
  BY DEF LifeInv, TypeOK
<1>2. /\ pc'[q] = IF q = c THEN "none" ELSE IF q \in done THEN "user" ELSE pc[q]
      /\ state'[q] = IF q = c THEN "UNUSED" ELSE state[q]
  BY <1>1 DEF Free
<1>3. q \in done => pc[q] = "scan"
  OBVIOUS
<1> QED BY <1>1, <1>2, <1>3 DEF Fits, Active

(* Every step keeps place, state and CPU together.                         *)
LEMMA FitsStep ==
  ASSUME LifeInv, [Next]_vars, NEW q \in Proc
  PROVE  Fits(q)'
<1>0. Fits(q) /\ TypeOK
  BY DEF LifeInv
<1>1. ASSUME NEW p \in Proc, Dispatch(p) PROVE Fits(q)'
  <2>1. Fits(p) /\ pc[p] \in Place
    BY <1>0 DEF LifeInv, TypeOK
  <2>2. /\ run' = run \cup {p}
        /\ state'[q] = IF q = p THEN "RUNNING" ELSE state[q]
        /\ pc'[q] = IF q = p THEN IF pc[p] = "asleep" THEN "after" ELSE pc[p] ELSE pc[q]
        /\ state[p] = "RUNNABLE"
    BY <1>0, <1>1 DEF Dispatch, TypeOK
  <2> QED BY <1>0, <2>1, <2>2 DEF Fits, Active, Place, Waiting, Exiting
<1>2. ASSUME NEW p \in Proc, Yield(p) \/ Doze(p) \/ Leave(p) PROVE Fits(q)'
  <2>1. Fits(p)
    BY DEF LifeInv
  <2>2. CASE Yield(p)
    BY <1>0, <2>1, <2>2 DEF Fits, Active, Yield, TypeOK
  <2>3. CASE Doze(p)
    BY <1>0, <2>1, <2>3 DEF Fits, Active, Doze, TypeOK
  <2>4. CASE Leave(p)
    BY <1>0, <2>1, <2>4 DEF Fits, Active, Leave, TypeOK
  <2> QED BY <1>2, <2>2, <2>3, <2>4
<1>3. ASSUME NEW c \in Proc, Background(c) PROVE Fits(q)'
  <2>1. Free(c, {}) /\ {} \in SUBSET Proc /\ run' = run /\ state[c] = "ZOMBIE" /\ ~Held(c)
    BY <1>3 DEF Background
  <2>2. pc[c] = "dead" /\ \A p \in {} : pc[p] = "scan"
    BY <2>1, ZombieIsDead
  <2> QED BY <2>1, <2>2, FreeFits
<1>4. ASSUME NEW p \in Proc, NEW c \in Proc, Collect(p, c) \/ Discard(p, c) PROVE Fits(q)'
  <2>1. /\ run' = run /\ state[c] = "ZOMBIE" /\ ~Held(c) /\ pc[p] = "scan"
        /\ Free(c, {}) \/ Free(c, {p})
    BY <1>4 DEF Collect, Discard
  <2>2. /\ pc[c] = "dead"
        /\ {} \in SUBSET Proc /\ \A x \in {} : pc[x] = "scan"
        /\ {p} \in SUBSET Proc /\ \A x \in {p} : pc[x] = "scan"
    BY <2>1, ZombieIsDead
  <2> QED BY <2>1, <2>2, FreeFits
<1>5. ASSUME NEW p \in Proc, NEW c \in Proc, Fork(p, c) PROVE Fits(q)'
  <2>1. Fits(c) /\ pc[c] = "none"
    BY <1>5, FreeIsNone DEF LifeInv, Fork
  <2> QED BY <1>0, <1>5, <2>1 DEF Fits, Active, Fork, TypeOK
<1>6. ASSUME NEW p \in Proc, NEW c \in Proc, Pass(p, c) \/ Reparent(p, c) PROVE Fits(q)'
  <2>1. UNCHANGED <<state, run, pc>>
    BY <1>6 DEF Pass, Reparent
  <2> QED BY <1>0, <2>1 DEF Fits
<1>7. ASSUME NEW p \in Proc, Deliver(p) PROVE Fits(q)'
  BY <1>0, <1>7 DEF Fits, Deliver
<1>8. ASSUME NEW p \in Proc, Wait(p) \/ ScanEnd(p) \/ Check(p) \/ After(p) \/ Exit(p)
      PROVE  Fits(q)'
  <2>1. /\ UNCHANGED <<state, run>> /\ p \in run
        /\ pc[p] \in {"user", "scan", "check", "after"}
        /\ \E place \in {"user", "scan", "check", "doze", "reparent"} :
              pc' = [pc EXCEPT ![p] = place]
    BY <1>8 DEF Wait, ScanEnd, Check, After, Exit, Moves
  <2>2. PICK place \in {"user", "scan", "check", "doze", "reparent"} :
              pc' = [pc EXCEPT ![p] = place]
    BY <2>1
  <2>3. Fits(p)
    BY DEF LifeInv
  <2>4. pc'[q] = IF q = p THEN place ELSE pc[q]
    BY <1>0, <2>2 DEF TypeOK
  <2> QED BY <1>0, <2>1, <2>2, <2>3, <2>4 DEF Fits, Active
<1>9. ASSUME NEW p \in Proc, Die(p) PROVE Fits(q)'
  <2>1. Fits(p)
    BY DEF LifeInv
  <2> QED BY <1>0, <1>9, <2>1 DEF Fits, Active, Die, Moves, TypeOK
<1>10. ASSUME NEW p \in Proc, Tell(p) PROVE Fits(q)'
  <2>1. Fits(p) /\ pc[p] = "tell" /\ run' = run
    BY <1>10 DEF LifeInv, Tell
  <2>2. /\ pc'[q] = IF q = p THEN "gone" ELSE pc[q]
        /\ state'[q] = IF q = parent[p] /\ state[q] = "SLEEPING" THEN "RUNNABLE" ELSE state[q]
    BY <1>0, <1>10 DEF Tell, TypeOK
  <2> QED BY <1>0, <2>1, <2>2 DEF Fits, Active
<1>11. CASE UNCHANGED vars
  BY <1>0, <1>11 DEF Fits, vars
<1> QED
  BY <1>1, <1>2, <1>3, <1>4, <1>5, <1>6, <1>7, <1>8, <1>9, <1>10, <1>11, Zenon DEF Next

-----------------------------------------------------------------------------
(* Parents.                                                                *)

(* proczero stays where it is, waits and comes back; every other process   *)
(* has a parent that is not done with its children, FamilyOf keeps when    *)
(* nobody leaves these places and nobody's parent changes.                 *)
LEMMA FamilyFrame ==
  ASSUME LifeInv, parent' = parent, NEW q \in Proc,
         pc'[q] = "none" <=> pc[q] = "none",
         \A x \in Proc : pc[x] \in Parental => pc'[x] \in Parental,
         pc'[q] = "reparent" =>
           \/ pc[q] = "reparent" /\ idx'[q] = idx[q]
           \/ idx'[q] = 1
  PROVE  FamilyOf(q)'
<1>1. FamilyOf(q)
  BY DEF LifeInv, Family
<1>2. pc'[q] = "reparent" => \A c \in Proc : c < idx'[q] => parent[c] # q
  <2>1. \A c \in Proc : ~(c < 1)
    BY ProcLifeAssumption DEF Proc
  <2> QED BY <1>1, <2>1 DEF FamilyOf
<1> QED BY <1>1, <1>2 DEF FamilyOf

(* A freed slot was nobody's parent.                                       *)
LEMMA FreeFamily ==
  ASSUME LifeInv, NEW c \in Proc, NEW done \in SUBSET Proc, Free(c, done),
         pc[c] = "dead", \A p \in done : pc[p] = "scan",
         \A p \in Proc : pc[p] = "reparent" => idx'[p] = idx[p],
         NEW q \in Proc
  PROVE  FamilyOf(q)'
<1>0. TypeOK /\ FamilyOf(q) /\ pc[proczero] \in Waiting \cup {"user"}
  BY DEF LifeInv, Family
<1>1. /\ \A x \in Proc : pc'[x] = IF x = c THEN "none" ELSE IF x \in done THEN "user" ELSE pc[x]
      /\ \A x \in Proc : parent'[x] = IF x = c THEN None ELSE parent[x]
  BY <1>0 DEF Free, TypeOK
<1>2. c # proczero
  BY <1>0 DEF Waiting
<1>3. None \notin Proc
  BY Basics
<1>4. \A x \in Proc : pc[x] \in Parental => pc'[x] \in Parental
  BY <1>1 DEF Parental, Waiting
<1>5. parent'[q] # q
  BY <1>0, <1>1, <1>3 DEF FamilyOf
<1>6. pc'[q] = "none" \/ q = proczero => parent'[q] = None
  BY <1>0, <1>1 DEF FamilyOf
<1>7. pc'[q] # "none" /\ q # proczero =>
        parent'[q] \in Proc /\ pc'[parent'[q]] \in Parental
  BY <1>0, <1>1, <1>4 DEF FamilyOf
<1>8. ASSUME pc'[q] = "reparent", NEW x \in Proc, x < idx'[q]
      PROVE  parent'[x] # q
  <2>1. pc[q] = "reparent" /\ idx'[q] = idx[q]
    BY <1>1, <1>8
  <2>2. parent[x] # q
    BY <1>0, <1>8, <2>1 DEF FamilyOf
  <2> QED BY <1>1, <1>3, <2>2
<1> QED BY <1>5, <1>6, <1>7, <1>8 DEF FamilyOf

(* proc_fork: the new process is a child of the caller.                    *)
LEMMA ForkFamily ==
  ASSUME LifeInv, NEW p \in Proc, NEW c \in Proc, Fork(p, c), NEW q \in Proc
  PROVE  FamilyOf(q)'
<1>0. TypeOK /\ FamilyOf(q) /\ pc[proczero] \in Waiting \cup {"user"}
  BY DEF LifeInv, Family
<1>1. pc[c] = "none" /\ pc[p] = "user"
  BY FreeIsNone DEF Fork
<1>2. /\ \A x \in Proc : pc'[x] = IF x = c THEN "user" ELSE pc[x]
      /\ \A x \in Proc : parent'[x] = IF x = c THEN p ELSE parent[x]
      /\ idx' = idx
  BY <1>0 DEF Fork, TypeOK
<1>3. c # proczero /\ c # p
  BY <1>0, <1>1 DEF Waiting
<1>4. \A x \in Proc : pc[x] \in Parental => pc'[x] \in Parental
  BY <1>2 DEF Parental
<1>5. pc[p] \in Parental
  BY <1>1 DEF Parental
<1>6. pc'[q] # "none" /\ q # proczero =>
        parent'[q] \in Proc /\ pc'[parent'[q]] \in Parental
  BY <1>0, <1>2, <1>4, <1>5 DEF FamilyOf
<1>7. ASSUME pc'[q] = "reparent", NEW x \in Proc, x < idx'[q]
      PROVE  parent'[x] # q
  BY <1>0, <1>1, <1>2, <1>7 DEF FamilyOf
<1> QED BY <1>0, <1>2, <1>3, <1>6, <1>7 DEF FamilyOf

(* proc_reparent gives a child to proczero, and one slot more is clean.    *)
LEMMA ReparentFamily ==
  ASSUME LifeInv, NEW p \in Proc, NEW c \in Proc, Reparent(p, c), NEW q \in Proc
  PROVE  FamilyOf(q)'
<1>0. /\ TypeOK /\ FamilyOf(q) /\ pc[proczero] \in Waiting \cup {"user"}
      /\ FamilyOf(c) /\ proczero \in Proc /\ None \notin Proc
  BY Basics DEF LifeInv, Family
<1>1. pc[p] = "reparent" /\ idx[p] = c /\ pc' = pc /\ idx' = [idx EXCEPT ![p] = c + 1]
  BY DEF Reparent
<1>2. p # proczero
  BY <1>0, <1>1 DEF Waiting
<1>3. pc[proczero] \in Parental
  BY <1>0 DEF Parental
<1>4. \A x \in Proc : parent'[x] = IF x = c /\ parent[c] = p THEN proczero ELSE parent[x]
  <2>1. CASE Child(p, c)
    <3>1. parent' = [parent EXCEPT ![c] = proczero]
      BY <2>1, Zenon DEF Reparent
    <3> QED BY <1>0, <2>1, <3>1 DEF TypeOK, Child
  <2>2. CASE ~Child(p, c)
    <3>1. parent' = parent
      BY <2>2, Zenon DEF Reparent
    <3>2. parent[c] # p
      <4>1. SUFFICES ASSUME parent[c] = p PROVE FALSE
        OBVIOUS
      <4>2. c # p /\ pc[c] # "none"
        BY <1>0, <4>1 DEF FamilyOf
      <4>3. state[c] # "UNUSED"
        BY <4>2, FreeIsNone
      <4> QED BY <2>2, <4>1, <4>2, <4>3 DEF Child
    <3> QED BY <3>1, <3>2
  <2> QED BY <2>1, <2>2
<1>5. parent[c] = p => c # proczero /\ pc[c] # "none"
  BY <1>0 DEF FamilyOf
<1>6. ASSUME pc'[q] = "reparent", NEW x \in Proc, x < idx'[q]
      PROVE  parent'[x] # q
  <2>1. q # proczero
    BY <1>0, <1>1, <1>6 DEF Waiting
  <2>2. CASE q = p
    <3>1. idx'[q] = c + 1
      BY <1>0, <1>1, <2>2 DEF TypeOK
    <3>2. x < c \/ x = c
      BY <1>6, <3>1 DEF Proc
    <3> QED BY <1>0, <1>1, <1>2, <1>4, <2>2, <3>2 DEF FamilyOf
  <2>3. CASE q # p
    <3>1. idx'[q] = idx[q]
      BY <1>0, <1>1, <2>3 DEF TypeOK
    <3>2. parent[x] # q
      BY <1>0, <1>1, <1>6, <3>1 DEF FamilyOf
    <3> QED BY <1>4, <2>1, <3>2
  <2> QED BY <2>2, <2>3
<1> QED BY <1>0, <1>1, <1>3, <1>4, <1>5, <1>6 DEF FamilyOf

(* Who becomes a zombie has no children left.                              *)
LEMMA DieFamily ==
  ASSUME LifeInv, NEW p \in Proc, Die(p), NEW q \in Proc
  PROVE  FamilyOf(q)'
<1>0. /\ TypeOK /\ FamilyOf(q) /\ FamilyOf(p)
  BY DEF LifeInv, Family
<1>1. /\ pc[p] = "reparent" /\ parent' = parent
      /\ \A x \in Proc : pc'[x] = IF x = p THEN "tell" ELSE pc[x]
      /\ \A x \in Proc : idx'[x] = IF x = p THEN 1 ELSE idx[x]
  BY <1>0 DEF Die, Moves, TypeOK
<1>2. \A x \in Proc : x < idx[p]
  <2>1. idx[p] \in 1 .. N + 1 /\ idx[p] > N /\ N \in Nat
    BY <1>0, Basics DEF Die, TypeOK
  <2> QED BY <2>1 DEF Proc
<1>3. \A x \in Proc : parent[x] # p
  BY <1>0, <1>1, <1>2 DEF FamilyOf
<1>4. pc'[q] = "reparent" => pc[q] = "reparent" /\ idx'[q] = idx[q]
  BY <1>1
<1>5. \A x \in Proc : x # p /\ pc[x] \in Parental => pc'[x] \in Parental
  BY <1>1
<1>6. pc'[q] # "none" /\ q # proczero => parent[q] \in Proc /\ pc'[parent[q]] \in Parental
  BY <1>0, <1>1, <1>3, <1>5 DEF FamilyOf
<1>7. pc'[q] = "none" => pc[q] = "none"
  BY <1>1
<1> QED BY <1>0, <1>1, <1>4, <1>6, <1>7 DEF FamilyOf

(* Every step keeps the families.                                          *)
LEMMA FamilyStep ==
  ASSUME LifeInv, [Next]_vars, NEW q \in Proc
  PROVE  FamilyOf(q)'
<1>0. TypeOK
  BY DEF LifeInv
<1>1. ASSUME NEW p \in Proc, NEW place \in Parental, pc[p] \in Parental,
             pc' = [pc EXCEPT ![p] = place], parent' = parent,
             place = "reparent" => idx' = [idx EXCEPT ![p] = 1],
             \A x \in Proc : pc[x] = "reparent" => idx'[x] = idx[x]
      PROVE  FamilyOf(q)'
  <2>1. \A x \in Proc : pc'[x] = IF x = p THEN place ELSE pc[x]
    BY <1>0, <1>1 DEF TypeOK
  <2>2. /\ \A x \in Proc : pc[x] \in Parental => pc'[x] \in Parental
        /\ pc'[q] = "none" <=> pc[q] = "none"
    BY <1>1, <2>1 DEF Parental, Waiting
  <2>3. pc'[q] = "reparent" => \/ pc[q] = "reparent" /\ idx'[q] = idx[q]
                               \/ idx'[q] = 1
    BY <1>0, <1>1, <2>1 DEF TypeOK
  <2> QED BY <1>1, <2>2, <2>3, FamilyFrame
<1>2. ASSUME UNCHANGED <<pc, parent, idx>> PROVE FamilyOf(q)'
  BY <1>2, FamilyFrame
<1>3. /\ {"user", "scan", "check", "doze", "asleep", "after", "reparent"} = Parental
      /\ \A x \in Proc : pc[x] \in Place
  BY <1>0 DEF Parental, Waiting, TypeOK
<1>4. ASSUME NEW p \in Proc, Dispatch(p) PROVE FamilyOf(q)'
  <2>1. CASE pc[p] = "asleep"
    <3>1. pc' = [pc EXCEPT ![p] = "after"] /\ parent' = parent /\ idx' = idx
      BY <1>0, <1>4, <2>1 DEF Dispatch, TypeOK
    <3> QED BY <1>1, <1>3, <2>1, <3>1
  <2>2. CASE pc[p] # "asleep"
    <3>1. pc' = pc /\ parent' = parent /\ idx' = idx
      BY <1>0, <1>4, <2>2 DEF Dispatch, TypeOK
    <3> QED BY <1>2, <3>1
  <2> QED BY <2>1, <2>2
<1>5. ASSUME NEW p \in Proc, Yield(p) \/ Deliver(p) PROVE FamilyOf(q)'
  BY <1>2, <1>5 DEF Yield, Deliver
<1>6. ASSUME NEW p \in Proc, Wait(p) \/ ScanEnd(p) \/ Check(p) \/ After(p) \/ Exit(p) \/ Doze(p)
      PROVE  FamilyOf(q)'
  <2>1. ASSUME NEW place \in Parental, Moves(p, place), pc[p] \in Parental, pc[p] # "reparent",
               parent' = parent
        PROVE  FamilyOf(q)'
    <3>1. /\ pc' = [pc EXCEPT ![p] = place] /\ idx' = [idx EXCEPT ![p] = 1]
          /\ \A x \in Proc : pc[x] = "reparent" => idx'[x] = idx[x]
      BY <1>0, <2>1 DEF Moves, TypeOK
    <3> QED BY <1>1, <2>1, <3>1
  <2>2. CASE Wait(p)
    BY <1>3, <2>1, <2>2 DEF Wait
  <2>3. CASE ScanEnd(p)
    <3>1. /\ pc[p] = "scan" /\ parent' = parent
          /\ Moves(p, "user") \/ Moves(p, "check")
      BY <2>3, Zenon DEF ScanEnd
    <3>2. "user" \in Parental /\ "check" \in Parental /\ pc[p] \in Parental /\ pc[p] # "reparent"
      BY <1>3, <3>1
    <3> QED BY <2>1, <3>1, <3>2
  <2>4. CASE Check(p)
    <3>1. /\ pc[p] = "check" /\ parent' = parent
          /\ \/ Moves(p, "scan")
             \/ pc' = [pc EXCEPT ![p] = "doze"] /\ idx' = idx
      BY <2>4 DEF Check
    <3>2. CASE pc' = [pc EXCEPT ![p] = "doze"] /\ idx' = idx
      BY <1>1, <1>3, <3>1, <3>2
    <3> QED BY <1>3, <2>1, <3>1, <3>2
  <2>5. CASE After(p)
    BY <1>3, <2>1, <2>5 DEF After
  <2>6. CASE Exit(p)
    BY <1>3, <2>1, <2>6 DEF Exit
  <2>7. CASE Doze(p)
    <3>1. pc[p] = "doze" /\ parent' = parent /\ pc' = [pc EXCEPT ![p] = "asleep"] /\ idx' = idx
      BY <2>7 DEF Doze
    <3> QED BY <1>1, <1>3, <3>1
  <2> QED BY <1>6, <2>2, <2>3, <2>4, <2>5, <2>6, <2>7
<1>7. ASSUME NEW p \in Proc, Tell(p) \/ Leave(p) PROVE FamilyOf(q)'
  <2>1. /\ parent' = parent /\ idx' = idx /\ pc[p] \in {"tell", "gone"}
        /\ pc' = [pc EXCEPT ![p] = "gone"] \/ pc' = [pc EXCEPT ![p] = "dead"]
    BY <1>7 DEF Tell, Leave
  <2>2. /\ \A x \in Proc : x # p => pc'[x] = pc[x]
        /\ pc'[p] \in {"gone", "dead"}
    BY <1>0, <2>1 DEF TypeOK
  <2>3. \A x \in Proc : pc[x] \in Parental => pc'[x] \in Parental
    BY <2>1, <2>2 DEF Parental, Waiting
  <2>4. pc'[q] = "none" <=> pc[q] = "none"
    BY <2>1, <2>2
  <2>5. pc'[q] = "reparent" => pc[q] = "reparent" /\ idx'[q] = idx[q]
    BY <2>1, <2>2
  <2> QED BY <2>1, <2>3, <2>4, <2>5, FamilyFrame
<1>8. ASSUME NEW c \in Proc, Background(c) PROVE FamilyOf(q)'
  <2>1. /\ Free(c, {}) /\ {} \in SUBSET Proc /\ idx' = idx /\ state[c] = "ZOMBIE" /\ ~Held(c)
    BY <1>8 DEF Background
  <2>2. pc[c] = "dead" /\ (\A p \in {} : pc[p] = "scan")
        /\ (\A p \in Proc : pc[p] = "reparent" => idx'[p] = idx[p])
    BY <2>1, ZombieIsDead
  <2> QED BY <2>1, <2>2, FreeFamily
<1>9. ASSUME NEW p \in Proc, NEW c \in Proc, Collect(p, c) \/ Discard(p, c) PROVE FamilyOf(q)'
  <2>1. /\ state[c] = "ZOMBIE" /\ ~Held(c) /\ pc[p] = "scan"
        /\ Free(c, {}) \/ Free(c, {p})
    BY <1>9 DEF Collect, Discard
  <2>2. \A x \in Proc : pc[x] = "reparent" => idx'[x] = idx[x]
    BY <1>0, <1>9 DEF Collect, Discard, TypeOK
  <2>3. /\ pc[c] = "dead"
        /\ {} \in SUBSET Proc /\ \A x \in {} : pc[x] = "scan"
        /\ {p} \in SUBSET Proc /\ \A x \in {p} : pc[x] = "scan"
    BY <2>1, ZombieIsDead
  <2> QED BY <2>1, <2>2, <2>3, FreeFamily
<1>10. ASSUME NEW p \in Proc, NEW c \in Proc, Pass(p, c) PROVE FamilyOf(q)'
  <2>1. pc' = pc /\ parent' = parent /\ pc[p] = "scan" /\ idx' = [idx EXCEPT ![p] = c + 1]
    BY <1>10 DEF Pass
  <2>2. pc[q] = "reparent" => idx'[q] = idx[q]
    BY <1>0, <2>1 DEF TypeOK
  <2> QED BY <2>1, <2>2, FamilyFrame
<1>11. CASE UNCHANGED vars
  BY <1>2, <1>11 DEF vars
<1> QED
  BY <1>4, <1>5, <1>6, <1>7, <1>8, <1>9, <1>10, <1>11, ForkFamily, ReparentFamily, DieFamily,
     Zenon DEF Next

(* proczero stays in user mode or in wait4.                                *)
LEMMA ProczeroStep ==
  ASSUME LifeInv, [Next]_vars
  PROVE  pc'[proczero] \in Waiting \cup {"user"}
<1>0. TypeOK /\ pc[proczero] \in Waiting \cup {"user"} /\ proczero \in Proc
      /\ {"user", "scan", "check", "doze", "asleep", "after"} = Waiting \cup {"user"}
  BY Basics DEF LifeInv, Family, Waiting
<1>1. ASSUME NEW p \in Proc, Dispatch(p) PROVE pc'[proczero] \in Waiting \cup {"user"}
  BY <1>0, <1>1 DEF Dispatch, TypeOK
<1>2. ASSUME NEW p \in Proc,
             Wait(p) \/ ScanEnd(p) \/ Check(p) \/ After(p) \/ Exit(p) \/ Doze(p)
      PROVE  pc'[proczero] \in Waiting \cup {"user"}
  <2>1. p # proczero \/ ~Exit(p)
    BY DEF Exit
  <2>2. \E place \in {"user", "scan", "check", "doze", "asleep", "reparent"} :
          pc' = [pc EXCEPT ![p] = place] /\ (p = proczero => place # "reparent")
    BY <1>2, <2>1 DEF Wait, ScanEnd, Check, After, Exit, Doze, Moves
  <2> QED BY <1>0, <2>2 DEF TypeOK
<1>3. ASSUME NEW p \in Proc, Tell(p) \/ Leave(p) \/ Die(p)
      PROVE  pc'[proczero] \in Waiting \cup {"user"}
  <2>1. pc[p] \in {"tell", "gone", "reparent"} /\ \E place \in Place : pc' = [pc EXCEPT ![p] = place]
    BY <1>3 DEF Tell, Leave, Die, Moves, Place, Exiting
  <2> QED BY <1>0, <2>1 DEF TypeOK
<1>4. ASSUME NEW c \in Proc, NEW done \in SUBSET Proc, Free(c, done), state[c] = "ZOMBIE", ~Held(c)
      PROVE  pc'[proczero] \in Waiting \cup {"user"}
  <2>1. c # proczero
    BY <1>4, ZombieIsDead
  <2> QED BY <1>0, <1>4, <2>1 DEF Free
<1>5. ASSUME NEW p \in Proc, NEW c \in Proc, Background(c) \/ Collect(p, c) \/ Discard(p, c)
      PROVE  pc'[proczero] \in Waiting \cup {"user"}
  <2>1. state[c] = "ZOMBIE" /\ ~Held(c) /\ (Free(c, {}) \/ Free(c, {p}))
        /\ {} \in SUBSET Proc /\ {p} \in SUBSET Proc
    BY <1>5 DEF Background, Collect, Discard
  <2> QED BY <1>4, <2>1
<1>6. ASSUME NEW p \in Proc, NEW c \in Proc, Fork(p, c) PROVE pc'[proczero] \in Waiting \cup {"user"}
  BY <1>0, <1>6 DEF Fork, TypeOK
<1>7. ASSUME UNCHANGED pc PROVE pc'[proczero] \in Waiting \cup {"user"}
  BY <1>0, <1>7
<1>8. ASSUME NEW p \in Proc, NEW c \in Proc, Pass(p, c) \/ Reparent(p, c) \/ Yield(p) \/ Deliver(p)
      PROVE  UNCHANGED pc
  BY <1>8 DEF Pass, Reparent, Yield, Deliver
<1>9. CASE UNCHANGED vars
  BY <1>7, <1>9 DEF vars
<1> QED
  BY <1>1, <1>2, <1>3, <1>5, <1>6, <1>7, <1>8, <1>9, Zenon DEF Next

(* The invariant holds initially.                                          *)
LEMMA LifeInit == Init => LifeInv
<1> SUFFICES ASSUME Init PROVE LifeInv
  OBVIOUS
<1>1. TypeOK
  <2>1. Cardinality({}) = 0
    BY FS_EmptySet
  <2>2. run = {} /\ Cardinality(run) <= NCPU
    BY <2>1, Basics DEF Init
  <2> QED BY <2>2, Basics DEF Init, TypeOK, State, Place, Waiting, Exiting
<1>2. ASSUME NEW p \in Proc PROVE Fits(p)
  BY <1>2 DEF Init, Fits, Active
<1>3. Family
  BY Basics DEF Init, Family, FamilyOf, Waiting
<1> QED BY <1>1, <1>2, <1>3 DEF LifeInv

(* Every step keeps it.                                                    *)
LEMMA LifeStep == LifeInv /\ [Next]_vars => LifeInv'
<1> SUFFICES ASSUME LifeInv, [Next]_vars PROVE LifeInv'
  OBVIOUS
<1>1. TypeOK'
  BY TypeStep DEF LifeInv
<1>2. (\A p \in Proc : Fits(p))'
  BY FitsStep
<1>3. Family'
  BY FamilyStep, ProczeroStep DEF Family
<1> QED BY <1>1, <1>2, <1>3 DEF LifeInv

THEOREM LifeInvariant == Spec => []LifeInv
<1> QED BY LifeInit, LifeStep, PTL DEF Spec

-----------------------------------------------------------------------------
(* What follows for every step.                                            *)

(* The types of the process table hold for any number of slots and CPUs.   *)
THEOREM TypeCorrect == Spec => []TypeOK
<1> QED BY LifeInvariant, PTL DEF LifeInv

(* A process whose code a CPU executes has its slot and is not yet off its *)
(* stack: wait4 and the scheduler free nothing a CPU still stands on.      *)
THEOREM FreedOffCpuCorrect == Spec => []FreedOffCpu
<1>1. LifeInv => FreedOffCpu
  <2> SUFFICES ASSUME LifeInv, NEW p \in run
               PROVE  state[p] # "UNUSED" /\ pc[p] \notin {"none", "dead"}
    BY DEF FreedOffCpu
  <2>1. p \in Proc /\ Fits(p) /\ pc[p] \in Place
    BY DEF LifeInv, TypeOK
  <2> QED BY <2>1 DEF Fits, Place, Waiting, Exiting, Active
<1> QED BY <1>1, LifeInvariant, PTL

(* Every process but proczero has a parent that is alive and has still to  *)
(* look for its children (proc_reparent).                                  *)
THEOREM AdoptedCorrect == Spec => []Adopted
<1>1. LifeInv => Adopted
  <2> SUFFICES ASSUME LifeInv, NEW p \in Proc, state[p] # "UNUSED", p # proczero
               PROVE  parent[p] \in Proc /\ state[parent[p]] \notin {"UNUSED", "ZOMBIE"}
    BY DEF Adopted
  <2>1. pc[p] # "none" /\ FamilyOf(p)
    BY FreeIsNone DEF LifeInv, Family
  <2>2. parent[p] \in Proc /\ pc[parent[p]] \in Parental
    BY <2>1 DEF FamilyOf
  <2>3. Fits(parent[p])
    BY <2>2 DEF LifeInv
  <2> QED BY <2>2, <2>3 DEF Fits, Parental, Waiting, Active
<1> QED BY <1>1, LifeInvariant, PTL

(* Fork, exit, wait, reparenting and reaping change the state of a process *)
(* only along the arrows of proc/type.h.  (Killing descendants is not      *)
(* among the operations of ProcLife; see LegalStates of Sched.)            *)
THEOREM LegalStatesCorrect == Spec => LegalStates
<1>1. LifeInv /\ [Next]_vars =>
        [\A p \in Proc : state'[p] # state[p] => <<state[p], state'[p]>> \in Legal]_vars
  <2> SUFFICES ASSUME LifeInv, Next, NEW q \in Proc, state'[q] # state[q]
               PROVE  <<state[q], state'[q]>> \in Legal
    OBVIOUS
  <2>0. TypeOK /\ Fits(q)
    BY DEF LifeInv
  <2>1. ASSUME NEW p \in Proc, Dispatch(p) PROVE <<state[q], state'[q]>> \in Legal
    BY <2>0, <2>1 DEF Dispatch, TypeOK, Legal
  <2>2. ASSUME NEW p \in Proc, Yield(p) PROVE <<state[q], state'[q]>> \in Legal
    BY <2>0, <2>2 DEF Yield, TypeOK, Legal, Fits
  <2>3. ASSUME NEW p \in Proc, Doze(p) PROVE <<state[q], state'[q]>> \in Legal
    BY <2>0, <2>3 DEF Doze, TypeOK, Legal, Fits, Active
  <2>4. ASSUME NEW p \in Proc, Die(p) PROVE <<state[q], state'[q]>> \in Legal
    BY <2>0, <2>4 DEF Die, TypeOK, Legal, Fits, Active
  <2>5. ASSUME NEW p \in Proc, Tell(p) PROVE <<state[q], state'[q]>> \in Legal
    BY <2>0, <2>5 DEF Tell, TypeOK, Legal
  <2>6. ASSUME NEW p \in Proc, NEW c \in Proc, Fork(p, c)
        PROVE  <<state[q], state'[q]>> \in Legal
    BY <2>0, <2>6 DEF Fork, TypeOK, Legal
  <2>7. ASSUME NEW c \in Proc, NEW done, Free(c, done), state[c] = "ZOMBIE"
        PROVE  <<state[q], state'[q]>> \in Legal
    BY <2>0, <2>7 DEF Free, TypeOK, Legal
  <2>8. ASSUME NEW p \in Proc, NEW c \in Proc, Background(c) \/ Collect(p, c) \/ Discard(p, c)
        PROVE  <<state[q], state'[q]>> \in Legal
    BY <2>7, <2>8 DEF Background, Collect, Discard
  <2>9. ASSUME NEW p \in Proc, NEW c \in Proc,
               \/ Deliver(p) \/ Wait(p) \/ Exit(p) \/ Pass(p, c) \/ Reparent(p, c)
               \/ ScanEnd(p) \/ Check(p) \/ After(p) \/ Leave(p)
        PROVE  <<state[q], state'[q]>> \in Legal
    <3>1. state' = state
      BY <2>9 DEF Deliver, Wait, Exit, Pass, Reparent, ScanEnd, Check, After, Leave
    <3> QED BY <3>1
  <2> QED BY <2>1, <2>2, <2>3, <2>4, <2>5, <2>6, <2>8, <2>9, Zenon DEF Next
<1> QED BY <1>1, LifeInvariant, PTL DEF Spec, LegalStates

(* An exit status is lost only for a process that was adopted: any other   *)
(* zombie is freed by a wait4 of its own parent.                           *)
THEOREM CollectedByWaitCorrect == Spec => CollectedByWait
<1>1. LifeInv /\ [Next]_vars => [Collected]_vars
  <2> SUFFICES ASSUME LifeInv, Next, NEW q \in Proc,
                      state[q] = "ZOMBIE", state'[q] = "UNUSED", ~orphan[q]
               PROVE  pc[parent[q]] = "scan"
    BY DEF Collected
  <2>0. TypeOK
    BY DEF LifeInv
  <2>1. ASSUME NEW p \in Proc,
               Dispatch(p) \/ Yield(p) \/ Doze(p) \/ Die(p) \/ Tell(p)
        PROVE  FALSE
    BY <2>0, <2>1 DEF Dispatch, Yield, Doze, Die, Tell, TypeOK
  <2>2. ASSUME NEW p \in Proc, NEW c \in Proc, Fork(p, c) PROVE FALSE
    BY <2>0, <2>2 DEF Fork, TypeOK
  <2>3. ASSUME NEW c \in Proc, NEW done, Free(c, done) PROVE c = q
    BY <2>0, <2>3 DEF Free, TypeOK
  <2>4. ASSUME NEW c \in Proc, Background(c) PROVE FALSE
    BY <2>3, <2>4 DEF Background
  <2>5. ASSUME NEW p \in Proc, NEW c \in Proc, Collect(p, c) \/ Discard(p, c)
        PROVE  pc[parent[q]] = "scan"
    BY <2>3, <2>5 DEF Collect, Discard, Child
  <2>6. ASSUME NEW p \in Proc, NEW c \in Proc,
               \/ Deliver(p) \/ Wait(p) \/ Exit(p) \/ Pass(p, c) \/ Reparent(p, c)
               \/ ScanEnd(p) \/ Check(p) \/ After(p) \/ Leave(p)
        PROVE  FALSE
    BY <2>6 DEF Deliver, Wait, Exit, Pass, Reparent, ScanEnd, Check, After, Leave
  <2> QED BY <2>1, <2>2, <2>4, <2>5, <2>6, Zenon DEF Next
<1> QED BY <1>1, LifeInvariant, PTL DEF Spec, CollectedByWait

-----------------------------------------------------------------------------
(* One CPU: the exit of a child wakes a parent that waits for it.          *)

(* A zombie child of p's own that p waits for and that has told p already. *)
Told(p, c) ==
  Child(p, c) /\ Matches(p, c) /\ ~orphan[c] /\ pc[c] \in {"gone", "dead"}

(* Process p is about to sleep, or asleep.                                 *)
Covered(p) == pc[p] \in {"check", "doze"} \/ state[p] = "SLEEPING"

(* The scan of p has passed by none of them, and p does not sleep over one.*)
LookedOf(p) ==
  /\ pc[p] = "scan" => \A c \in Proc : c < idx[p] => ~Told(p, c)
  /\ Covered(p) => \A c \in Proc : ~Told(p, c)

Looked == \A p \in Proc : LookedOf(p)

(* With one CPU the process it executes is alone.                          *)
LEMMA Alone ==
  ASSUME NCPU = 1, LifeInv, NEW p \in run
  PROVE  p \in Proc /\ run = {p} /\ ~(Cardinality(run) < NCPU)
<1>1. run \in SUBSET Proc /\ Cardinality(run) <= NCPU /\ p \in Proc
  BY DEF LifeInv, TypeOK
<1>2. IsFiniteSet(run) /\ Cardinality(run) \in Nat
  BY <1>1, RunBound
<1>3. Cardinality(run) # 0
  BY <1>2, FS_EmptySet
<1>4. Cardinality(run) = 1
  BY <1>1, <1>2, <1>3
<1>5. \E x : run = {x}
  BY <1>2, <1>4, FS_Singleton
<1> QED BY <1>1, <1>4, <1>5

(* Nobody becomes a told child of p as long as p waits for the same and    *)
(* nobody becomes its own child.                                           *)
LEMMA ToldShrinks ==
  ASSUME LifeInv, NEW p \in Proc, NEW c \in Proc, Told(p, c)',
         state'[c] # "UNUSED" => state[c] # "UNUSED",
         want'[p] \in {want[p], Gone},
         parent'[c] = p => parent[c] = p,
         ~orphan'[c] => ~orphan[c],
         pc'[c] \in {"gone", "dead"} => pc[c] \in {"gone", "dead"}
  PROVE  Told(p, c)
<1>1. None # Gone /\ c # Gone
  BY ProcLifeAssumption DEF Gone, Proc
<1>2. Matches(p, c)' => Matches(p, c)
  BY <1>1 DEF Matches
<1> QED BY <1>2 DEF Told, Child

(* A step that leaves p's scan where it is or starts it afresh.            *)
LEMMA LookedFrame ==
  ASSUME Looked, NEW p \in Proc,
         \A c \in Proc : Told(p, c)' => Told(p, c),
         pc'[p] = "scan" => pc[p] = "scan" /\ idx'[p] = idx[p],
         Covered(p)' => Covered(p)
  PROVE  LookedOf(p)'
BY DEF Looked, LookedOf

LEMMA ScanStarts ==
  ASSUME NEW p \in Proc, pc'[p] = "scan" => idx'[p] = 1, ~Covered(p)'
  PROVE  LookedOf(p)'
<1>1. \A c \in Proc : ~(c < 1)
  BY ProcLifeAssumption DEF Proc
<1> QED BY <1>1 DEF LookedOf

(* Freeing a dead slot takes nothing from p's look at the others.          *)
LEMMA FreeTold ==
  ASSUME LifeInv, NEW c \in Proc, NEW done \in SUBSET Proc, Free(c, done), pc[c] = "dead",
         NEW p \in Proc, p \notin done, NEW x \in Proc, Told(p, x)'
  PROVE  Told(p, x)
<1>0. TypeOK
  BY DEF LifeInv
<1>1. /\ \A y \in Proc : pc'[y] = IF y = c THEN "none" ELSE IF y \in done THEN "user" ELSE pc[y]
      /\ \A y \in Proc : parent'[y] = IF y = c THEN None ELSE parent[y]
      /\ \A y \in Proc : orphan'[y] = IF y = c THEN FALSE ELSE orphan[y]
      /\ \A y \in Proc : state'[y] = IF y = c THEN "UNUSED" ELSE state[y]
      /\ \A y \in Proc : want'[y] = IF y \in done \cup {c} THEN None
                                     ELSE IF want[y] = c THEN Gone ELSE want[y]
  BY <1>0 DEF Free, TypeOK
<1>2. x # c
  BY <1>1 DEF Told
<1>3. CASE p = c
  <2>1. parent'[x] = c
    BY <1>3 DEF Told, Child
  <2>2. parent[x] = c
    BY <1>1, <1>2, <2>1
  <2>3. pc'[x] \in {"gone", "dead"}
    BY DEF Told
  <2>4. FamilyOf(x) /\ pc[x] # "none"
    BY <1>1, <1>2, <2>3 DEF LifeInv, Family
  <2>5. parent[x] # None
    BY <2>2, Basics
  <2>6. pc[c] \in Parental
    BY <2>2, <2>4, <2>5 DEF FamilyOf
  <2> QED BY <2>6 DEF Parental, Waiting
<1>4. CASE p # c
  <2>1. want'[p] \in {want[p], Gone}
    BY <1>1, <1>4
  <2>2. /\ state'[x] # "UNUSED" => state[x] # "UNUSED"
        /\ parent'[x] = p => parent[x] = p
        /\ ~orphan'[x] => ~orphan[x]
        /\ pc'[x] \in {"gone", "dead"} => pc[x] \in {"gone", "dead"}
    BY <1>1, <1>2
  <2> QED BY <2>1, <2>2, ToldShrinks
<1> QED BY <1>3, <1>4

(* A dead slot is freed by the scheduler, or by the wait4 of somebody else.*)
LEMMA FreeLooked ==
  ASSUME LifeInv, Looked, NEW c \in Proc, NEW done \in SUBSET Proc, Free(c, done),
         pc[c] = "dead", NEW p \in Proc, p \notin done, idx'[p] = idx[p]
  PROVE  LookedOf(p)'
<1>0. TypeOK
  BY DEF LifeInv
<1>1. \A x \in Proc : Told(p, x)' => Told(p, x)
  BY FreeTold
<1>2. /\ pc'[p] = IF p = c THEN "none" ELSE pc[p]
      /\ state'[p] = IF p = c THEN "UNUSED" ELSE state[p]
  BY <1>0 DEF Free, TypeOK
<1>3. pc'[p] = "scan" => pc[p] = "scan" /\ idx'[p] = idx[p]
  BY <1>2
<1>4. Covered(p)' => Covered(p)
  BY <1>2 DEF Covered
<1> QED BY <1>1, <1>3, <1>4, LookedFrame

(* wait4 visits a slot: a zombie child it waits for is never passed by.    *)
LEMMA PassLooked ==
  ASSUME LifeInv, Looked, NEW q \in Proc, NEW c \in Proc, Pass(q, c), NEW p \in Proc
  PROVE  LookedOf(p)'
<1>0. TypeOK /\ Fits(c) /\ LookedOf(p)
  BY DEF LifeInv, Looked
<1>1. /\ UNCHANGED <<state, parent, orphan, pc, want>>
      /\ idx[q] = c /\ pc[q] = "scan" /\ \A x \in Proc : idx'[x] = IF x = q THEN c + 1 ELSE idx[x]
  BY <1>0 DEF Pass, TypeOK
<1>2. \A x \in Proc : Told(p, x)' <=> Told(p, x)
  BY <1>1 DEF Told, Child, Matches
<1>3. Covered(p)' <=> Covered(p)
  BY <1>1 DEF Covered
<1>4. CASE p # q
  BY <1>1, <1>2, <1>3, <1>4, LookedFrame
<1>5. CASE p = q
  <2>1. ~Told(q, c)
    BY <1>0 DEF Pass, Told, Fits
  <2>2. \A x \in Proc : x < c + 1 => x < c \/ x = c
    BY DEF Proc
  <2>3. idx'[p] = c + 1 /\ idx[p] = c
    BY <1>1, <1>5
  <2> QED BY <1>0, <1>1, <1>2, <1>3, <1>5, <2>1, <2>2, <2>3 DEF LookedOf
<1> QED BY <1>4, <1>5

(* With one CPU every step keeps what the scans have seen.                 *)
LEMMA LookedStep ==
  ASSUME NCPU = 1, LifeInv, Looked, [Next]_vars, NEW p \in Proc
  PROVE  LookedOf(p)'
<1>0. TypeOK /\ LookedOf(p) /\ Fits(p)
  BY DEF LifeInv, Looked
<1>1. ASSUME NEW q \in Proc, Dispatch(q) PROVE LookedOf(p)'
  <2>1. /\ UNCHANGED <<parent, orphan, idx, want>> /\ state[q] = "RUNNABLE"
        /\ \A x \in Proc : state'[x] = IF x = q THEN "RUNNING" ELSE state[x]
        /\ \A x \in Proc : pc'[x] = IF x = q /\ pc[x] = "asleep" THEN "after" ELSE pc[x]
    BY <1>0, <1>1 DEF Dispatch, TypeOK, waitVars
  <2>2. \A x \in Proc : Told(p, x)' => Told(p, x)
    BY <2>1, ToldShrinks DEF Told
  <2>3. Covered(p)' => Covered(p)
    BY <2>1 DEF Covered
  <2>4. pc'[p] = "scan" => pc[p] = "scan" /\ idx'[p] = idx[p]
    BY <2>1
  <2> QED BY <2>2, <2>3, <2>4, LookedFrame
<1>2. ASSUME NEW q \in Proc, Yield(q) \/ Deliver(q) PROVE LookedOf(p)'
  <2>1. /\ UNCHANGED <<parent, orphan, idx, want, pc>>
        /\ \A x \in Proc : /\ state'[x] = "UNUSED" <=> state[x] = "UNUSED"
                           /\ state'[x] = "SLEEPING" => state[x] = "SLEEPING"
    <3>1. CASE Yield(q)
      <4>1. Fits(q) /\ pc[q] = "user" /\ q \in run
        BY <3>1 DEF LifeInv, Yield
      <4> QED BY <1>0, <3>1, <4>1 DEF Yield, TypeOK, waitVars, Fits
    <3>2. CASE Deliver(q)
      BY <3>2 DEF Deliver, waitVars
    <3> QED BY <1>2, <3>1, <3>2
  <2>2. \A x \in Proc : Told(p, x)' => Told(p, x)
    BY <2>1, ToldShrinks DEF Told
  <2>3. Covered(p)' => Covered(p)
    BY <2>1 DEF Covered
  <2> QED BY <2>1, <2>2, <2>3, LookedFrame
<1>3. ASSUME NEW c \in Proc, Background(c) PROVE LookedOf(p)'
  <2>1. /\ Free(c, {}) /\ {} \in SUBSET Proc /\ p \notin {} /\ idx'[p] = idx[p]
        /\ state[c] = "ZOMBIE" /\ ~Held(c)
    BY <1>3 DEF Background
  <2>2. pc[c] = "dead"
    BY <2>1, ZombieIsDead
  <2> QED BY <2>1, <2>2, FreeLooked
<1>4. ASSUME NEW q \in Proc, NEW c \in Proc, Collect(q, c) PROVE LookedOf(p)'
  <2>1. /\ Free(c, {q}) /\ {q} \in SUBSET Proc /\ state[c] = "ZOMBIE" /\ ~Held(c)
        /\ pc[q] = "scan" /\ idx' = [idx EXCEPT ![q] = 1]
    BY <1>4 DEF Collect
  <2>2. pc[c] = "dead"
    BY <2>1, ZombieIsDead
  <2>3. CASE p # q
    <3>1. idx'[p] = idx[p] /\ p \notin {q}
      BY <1>0, <2>1, <2>3 DEF TypeOK
    <3> QED BY <2>1, <2>2, <3>1, FreeLooked
  <2>4. CASE p = q
    <3>1. pc'[p] = "user" /\ state'[p] = "RUNNING"
      BY <1>0, <2>1, <2>2, <2>4 DEF Free, TypeOK, Fits, Active
    <3> QED BY <3>1, ScanStarts DEF Covered
  <2> QED BY <2>3, <2>4
<1>5. ASSUME NEW q \in Proc, NEW c \in Proc, Discard(q, c) PROVE LookedOf(p)'
  <2>1. /\ Free(c, {}) /\ {} \in SUBSET Proc /\ p \notin {} /\ state[c] = "ZOMBIE" /\ ~Held(c)
        /\ pc[q] = "scan" /\ idx[q] = c /\ idx' = [idx EXCEPT ![q] = c + 1]
    BY <1>5 DEF Discard
  <2>2. pc[c] = "dead"
    BY <2>1, ZombieIsDead
  <2>3. CASE p # q
    <3>1. idx'[p] = idx[p]
      BY <1>0, <2>1, <2>3 DEF TypeOK
    <3> QED BY <2>1, <2>2, <3>1, FreeLooked
  <2>4. CASE p = q
    <3>1. \A x \in Proc : Told(p, x)' => Told(p, x)
      BY <2>1, <2>2, FreeTold
    <3>2. pc'[p] = "scan" /\ state'[p] = "RUNNING" /\ idx'[p] = c + 1 /\ pc'[c] = "none"
      BY <1>0, <2>1, <2>2, <2>4 DEF Free, TypeOK, Fits, Active
    <3>3. ~Covered(p)' /\ ~Told(p, c)'
      BY <3>2 DEF Covered, Told
    <3>4. \A x \in Proc : x < c + 1 => x < c \/ x = c
      BY DEF Proc
    <3> QED BY <1>0, <2>1, <2>4, <3>1, <3>2, <3>3, <3>4 DEF LookedOf
  <2> QED BY <2>3, <2>4
<1>6. ASSUME NEW q \in Proc, NEW c \in Proc, Fork(q, c) PROVE LookedOf(p)'
  <2>1. /\ UNCHANGED <<idx, want>>
        /\ \A x \in Proc : state'[x] = IF x = c THEN "RUNNABLE" ELSE state[x]
        /\ \A x \in Proc : pc'[x] = IF x = c THEN "user" ELSE pc[x]
        /\ \A x \in Proc : parent'[x] = IF x = c THEN q ELSE parent[x]
        /\ \A x \in Proc : orphan'[x] = IF x = c THEN FALSE ELSE orphan[x]
    BY <1>0, <1>6 DEF Fork, TypeOK, waitVars
  <2>2. \A x \in Proc : Told(p, x)' => Told(p, x)
    <3> SUFFICES ASSUME NEW x \in Proc, Told(p, x)' PROVE Told(p, x)
      OBVIOUS
    <3>1. x # c
      BY <2>1 DEF Told
    <3> QED BY <2>1, <3>1, ToldShrinks
  <2>3. Covered(p)' => Covered(p)
    BY <2>1 DEF Covered
  <2>4. pc'[p] = "scan" => pc[p] = "scan" /\ idx'[p] = idx[p]
    BY <2>1
  <2> QED BY <2>2, <2>3, <2>4, LookedFrame
<1>7. ASSUME NEW q \in Proc, NEW c \in Proc, Reparent(q, c) PROVE LookedOf(p)'
  <2>1. /\ UNCHANGED <<state, pc, want>> /\ pc[q] = "reparent"
        /\ idx' = [idx EXCEPT ![q] = c + 1]
    BY <1>7 DEF Reparent, waitVars
  <2>2. \A x \in Proc : ~orphan'[x] => parent'[x] = parent[x] /\ ~orphan[x]
    <3>1. CASE Child(q, c)
      <4>1. parent' = [parent EXCEPT ![c] = proczero] /\ orphan' = [orphan EXCEPT ![c] = TRUE]
        BY <1>7, <3>1, Zenon DEF Reparent
      <4> QED BY <1>0, <4>1 DEF TypeOK
    <3>2. CASE ~Child(q, c)
      <4>1. parent' = parent /\ orphan' = orphan
        BY <1>7, <3>2, Zenon DEF Reparent
      <4> QED BY <4>1
    <3> QED BY <3>1, <3>2
  <2>3. \A x \in Proc : Told(p, x)' => Told(p, x)
    BY <2>1, <2>2 DEF Told, Child, Matches
  <2>4. pc'[p] = "scan" => pc[p] = "scan" /\ idx'[p] = idx[p]
    BY <1>0, <2>1 DEF TypeOK
  <2>5. Covered(p)' => Covered(p)
    BY <2>1 DEF Covered
  <2> QED BY <2>3, <2>4, <2>5, LookedFrame
<1>8. ASSUME NEW q \in Proc, Exit(q) \/ Die(q) PROVE LookedOf(p)'
  <2>1. /\ UNCHANGED <<parent, orphan, want>>
        /\ \A x \in Proc : /\ x # q => /\ pc'[x] = pc[x] /\ idx'[x] = idx[x]
                                       /\ state'[x] = state[x]
                           /\ x = q => /\ pc'[x] \in {"reparent", "tell"}
                                       /\ state'[x] \in {state[x], "ZOMBIE"}
    <3>1. CASE Exit(q)
      BY <1>0, <3>1 DEF Exit, Moves, TypeOK
    <3>2. CASE Die(q)
      BY <1>0, <3>2 DEF Die, Moves, TypeOK
    <3> QED BY <1>8, <3>1, <3>2
  <2>2. \A x \in Proc : Told(p, x)' => Told(p, x)
    <3> SUFFICES ASSUME NEW x \in Proc, Told(p, x)' PROVE Told(p, x)
      OBVIOUS
    <3>1. x # q
      BY <2>1 DEF Told
    <3> QED BY <2>1, <3>1, ToldShrinks
  <2>3. pc'[p] = "scan" => pc[p] = "scan" /\ idx'[p] = idx[p]
    BY <2>1
  <2>4. Covered(p)' => Covered(p)
    BY <2>1 DEF Covered
  <2> QED BY <2>2, <2>3, <2>4, LookedFrame
<1>9. ASSUME NEW q \in Proc, Tell(q) PROVE LookedOf(p)'
  <2>0. FamilyOf(q) /\ Fits(q) /\ pc[q] = "tell" /\ pc[proczero] \in Waiting \cup {"user"}
    BY <1>9 DEF LifeInv, Family, Tell
  <2>1. /\ UNCHANGED <<parent, orphan, want, idx>>
        /\ \A x \in Proc : pc'[x] = IF x = q THEN "gone" ELSE pc[x]
        /\ \A x \in Proc : state'[x] = IF x = parent[q] /\ state[x] = "SLEEPING"
                                       THEN "RUNNABLE" ELSE state[x]
    BY <1>0, <1>9 DEF Tell, TypeOK, waitVars
  <2>2. \A x \in Proc : x # q /\ Told(p, x)' => Told(p, x)
    BY <2>1, ToldShrinks
  <2>3. pc'[p] = "scan" => pc[p] = "scan" /\ idx'[p] = idx[p]
    BY <2>1
  <2>4. Covered(p)' => Covered(p)
    BY <2>0, <2>1 DEF Covered
  <2>5. CASE parent[q] # p
    <3>1. ~Told(p, q)'
      BY <2>1, <2>5 DEF Told, Child
    <3> QED BY <2>2, <2>3, <2>4, <3>1, LookedFrame
  <2>6. CASE parent[q] = p
    <3>1. q \in run /\ run = {q}
      BY <2>0, Alone DEF Fits
    <3>2. p # q
      BY <2>0, <2>6 DEF FamilyOf
    <3>3. p \notin run
      BY <3>1, <3>2
    <3>4. pc[p] \notin Active
      BY <1>0, <3>3 DEF Fits
    <3>5. pc'[p] \notin {"scan", "check", "doze"}
      BY <2>1, <3>2, <3>4 DEF Active
    <3>6. state'[p] # "SLEEPING"
      BY <2>1, <2>6
    <3> QED BY <3>5, <3>6, ScanStarts DEF Covered
  <2> QED BY <2>5, <2>6
<1>10. ASSUME NEW q \in Proc, Leave(q) PROVE LookedOf(p)'
  <2>1. /\ UNCHANGED <<state, parent, orphan, want, idx>> /\ pc[q] = "gone"
        /\ \A x \in Proc : pc'[x] = IF x = q THEN "dead" ELSE pc[x]
    BY <1>0, <1>10 DEF Leave, TypeOK, waitVars
  <2>2. \A x \in Proc : Told(p, x)' => Told(p, x)
    BY <2>1, ToldShrinks
  <2>3. Covered(p)' => Covered(p)
    BY <2>1 DEF Covered
  <2> QED BY <2>1, <2>2, <2>3, LookedFrame
<1>11. ASSUME NEW q \in Proc, p # q,
              Wait(q) \/ ScanEnd(q) \/ Check(q) \/ After(q) \/ Doze(q)
       PROVE  LookedOf(p)'
  <2>1. UNCHANGED <<parent, orphan>> /\ want'[p] = want[p]
    BY <1>0, <1>11 DEF Wait, ScanEnd, Check, After, Doze, waitVars, TypeOK
  <2>2. pc'[p] = pc[p] /\ idx'[p] = idx[p] /\ state'[p] = state[p]
    BY <1>0, <1>11 DEF Wait, ScanEnd, Check, After, Doze, Moves, TypeOK
  <2>3. \A x \in Proc : /\ pc'[x] \in {"gone", "dead"} => pc[x] \in {"gone", "dead"}
                        /\ pc[x] \in {"gone", "dead"} => state[x] # "UNUSED"
    <3>1. \E place : pc' = [pc EXCEPT ![q] = place] /\ place \notin {"gone", "dead"}
      BY <1>11 DEF Wait, ScanEnd, Check, After, Doze, Moves
    <3>2. \A x \in Proc : pc[x] \in {"gone", "dead"} => state[x] # "UNUSED"
      BY DEF LifeInv, Fits
    <3> QED BY <1>0, <3>1, <3>2 DEF TypeOK
  <2>4. \A x \in Proc : Told(p, x)' => Told(p, x)
    <3> SUFFICES ASSUME NEW x \in Proc, Told(p, x)' PROVE Told(p, x)
      OBVIOUS
    <3>1. pc[x] \in {"gone", "dead"} /\ state[x] # "UNUSED"
      BY <2>3 DEF Told
    <3> QED BY <2>1, <3>1, ToldShrinks
  <2>5. Covered(p)' => Covered(p)
    BY <2>2 DEF Covered
  <2> QED BY <2>2, <2>4, <2>5, LookedFrame
<1>12. CASE Wait(p) \/ After(p)
  <2>1. idx'[p] = 1 /\ pc'[p] = "scan" /\ state' = state /\ p \in run
    BY <1>0, <1>12 DEF Wait, After, Moves, TypeOK
  <2>2. state[p] = "RUNNING"
    BY <1>0, <1>12 DEF Wait, After, Fits, Active
  <2> QED BY <2>1, <2>2, ScanStarts DEF Covered
<1>13. CASE ScanEnd(p)
  <2>1. state' = state /\ pc[p] = "scan" /\ idx[p] > N /\ state[p] = "RUNNING"
    BY <1>0, <1>13 DEF ScanEnd, Fits, Active
  <2>2. CASE Moves(p, "user")
    <3>1. pc'[p] = "user"
      BY <1>0, <2>2 DEF Moves, TypeOK
    <3> QED BY <2>1, <3>1, ScanStarts DEF Covered
  <2>3. CASE Moves(p, "check") /\ UNCHANGED want
    <3>1. /\ \A x \in Proc : pc'[x] = IF x = p THEN "check" ELSE pc[x]
          /\ UNCHANGED <<parent, orphan>>
      BY <1>0, <1>13, <2>3 DEF Moves, ScanEnd, TypeOK
    <3>2. \A x \in Proc : Told(p, x)' => Told(p, x)
      BY <2>1, <2>3, <3>1, ToldShrinks
    <3>3. \A x \in Proc : x < idx[p]
      <4>1. idx[p] \in 1 .. N + 1 /\ N \in Nat
        BY <1>0, Basics DEF TypeOK
      <4> QED BY <2>1, <4>1 DEF Proc
    <3>4. \A x \in Proc : ~Told(p, x)'
      BY <1>0, <2>1, <3>2, <3>3 DEF LookedOf
    <3>5. pc'[p] # "scan"
      BY <3>1
    <3> QED BY <3>4, <3>5 DEF LookedOf
  <2> QED BY <1>13, <2>2, <2>3 DEF ScanEnd
<1>14. CASE Check(p) \/ Doze(p)
  <2>1. /\ UNCHANGED <<parent, orphan, want>> /\ Covered(p)
    BY <1>14 DEF Check, Doze, waitVars, Covered
  <2>2. \A x \in Proc : /\ pc'[x] \in {"gone", "dead"} => pc[x] \in {"gone", "dead"}
                        /\ pc[x] \in {"gone", "dead"} => state[x] # "UNUSED"
    <3>1. \E place : pc' = [pc EXCEPT ![p] = place] /\ place \notin {"gone", "dead"}
      BY <1>14 DEF Check, Doze, Moves
    <3>2. \A x \in Proc : pc[x] \in {"gone", "dead"} => state[x] # "UNUSED"
      BY DEF LifeInv, Fits
    <3> QED BY <1>0, <3>1, <3>2 DEF TypeOK
  <2>3. \A x \in Proc : Told(p, x)' => Told(p, x)
    <3> SUFFICES ASSUME NEW x \in Proc, Told(p, x)' PROVE Told(p, x)
      OBVIOUS
    <3>1. pc[x] \in {"gone", "dead"} /\ state[x] # "UNUSED"
      BY <2>2 DEF Told
    <3> QED BY <2>1, <3>1, ToldShrinks
  <2>4. \A x \in Proc : ~Told(p, x)'
    BY <1>0, <2>1, <2>3 DEF LookedOf
  <2> QED BY <2>4 DEF LookedOf
<1>15. CASE UNCHANGED vars
  BY <1>0, <1>15 DEF vars, LookedOf, Covered, Told, Child, Matches
<1>16. ASSUME NEW q \in Proc, NEW c \in Proc, Pass(q, c) PROVE LookedOf(p)'
  BY <1>16, PassLooked
<1>17. ASSUME NEW q \in Proc, Wait(q) \/ ScanEnd(q) \/ Check(q) \/ After(q) \/ Doze(q)
       PROVE  LookedOf(p)'
  BY <1>11, <1>12, <1>13, <1>14, <1>17
<1> QED
  BY <1>1, <1>2, <1>3, <1>4, <1>5, <1>6, <1>7, <1>8, <1>9, <1>10, <1>15, <1>16, <1>17, Zenon
  DEF Next

(* With one CPU no process sleeps over a child of its own that it waits    *)
(* for and that has exited and told it.  (With two it may: the state of    *)
(* the children is read slot by slot, and not again before the sleep.)     *)
THEOREM ChildWakesOnOneCpu ==
  ASSUME NCPU = 1
  PROVE  Spec => []ChildWakes
<1>1. Init => Looked
  <2> SUFFICES ASSUME Init, NEW p \in Proc PROVE LookedOf(p)
    BY DEF Looked
  <2>1. pc[p] \in {"user", "none"} /\ state[p] # "SLEEPING"
    BY DEF Init
  <2> QED BY <2>1 DEF LookedOf, Covered
<1>2. LifeInv /\ Looked /\ [Next]_vars => Looked'
  BY LookedStep DEF Looked
<1>3. Looked => ChildWakes
  BY DEF Looked, LookedOf, Covered, ChildWakes, Overslept, Told
<1> QED BY <1>1, <1>2, <1>3, LifeInvariant, PTL DEF Spec

=============================================================================
