-------------------------- MODULE SleepChanProofs --------------------------
(***************************************************************************)
(* Proofs about SleepChan, for any processes, channels, slots and hash:    *)
(* the hint never hides a sleeper, and without killed sleepers the table   *)
(* is empty when nobody sleeps.                                            *)
(***************************************************************************)
EXTENDS SleepChan, HintTableProofs

Types ==
  /\ HintTypeOK
  /\ on \in [Proc -> Chan \cup {None}]
  /\ awake \in [Proc -> BOOLEAN]
  /\ kills \in Nat

(* Whoever is counted has a ticket of its own; the tickets are exact as    *)
(* long as no sleeper was killed.                                          *)
Inv ==
  /\ Types
  /\ \A p \in Proc : ~awake[p] => on[p] # None
  /\ Covered(slot, overflow, on, kills = 0)

(* Nobody sleeps at the start.                                             *)
LEMMA InvInit == Init => Inv
<1> SUFFICES ASSUME Init PROVE Inv
  OBVIOUS
<1>1. HintTypeOK
  BY HintAssumption DEF Init, HintInit, HintTypeOK
<1>2. Covered(slot, overflow, on, TRUE) /\ (kills = 0) = TRUE
  BY CoveredInit DEF Init
<1> QED BY <1>1, <1>2 DEF Init, Inv, Types

(* Every step keeps the sleepers covered.                                  *)
LEMMA InvStep == Inv /\ [Next]_vars => Inv'
<1> SUFFICES ASSUME Inv, [Next]_vars PROVE Inv'
  OBVIOUS
<1> USE DEF Inv, Types
<1>1. ASSUME NEW p \in Proc, NEW k \in Chan, SleepOn(p, k) PROVE Inv'
  <2>1. HintTypeOK'
    BY <1>1, HintTypes DEF SleepOn
  <2>2. Covered(slot', overflow', on', (kills = 0)')
    BY <1>1, IncCovers DEF SleepOn
  <2> QED BY <1>1, <2>1, <2>2, HintAssumption DEF SleepOn
<1>2. ASSUME NEW p \in Proc, Wake(p) PROVE Inv'
  BY <1>2 DEF Wake, HintTypeOK
<1>3. ASSUME NEW p \in Proc, Return(p) PROVE Inv'
  <2>1. on[p] \in Chan
    BY <1>3 DEF Return
  <2>2. HintTypeOK'
    BY <1>3, <2>1, HintTypes DEF Return
  <2>3. Covered(slot', overflow', on', (kills = 0)')
    BY <1>3, <2>1, DecCovers DEF Return
  <2> QED BY <1>3, <2>2, <2>3 DEF Return
<1>4. ASSUME NEW p \in Proc, Kill(p) PROVE Inv'
  <2>1. HintTypeOK'
    BY <1>4 DEF Kill, HintTypeOK
  <2>2. on' = [on EXCEPT ![p] = None] /\ slot' = slot /\ overflow' = overflow
        /\ awake' = [awake EXCEPT ![p] = TRUE] /\ kills' = kills + 1
    BY <1>4 DEF Kill
  <2>3. Covered(slot, overflow, [on EXCEPT ![p] = None], FALSE)
    BY Forget DEF Covered
  <2>4. Covered(slot', overflow', on', kills' = 0)
    BY <2>2, <2>3 DEF Covered, Dealt
  <2> QED BY <2>1, <2>2, <2>4
<1>5. ASSUME UNCHANGED vars PROVE Inv'
  BY <1>5 DEF vars, HintTypeOK
<1> HIDE DEF Inv, Types
<1> QED BY Zenon, <1>1, <1>2, <1>3, <1>4, <1>5 DEF Next

(* The types of the table and of the sleepers.                             *)
THEOREM TypeCorrect ==
  ASSUME MaxKills \in Nat
  PROVE  Spec => []TypeOK
<1> DEFINE J == Inv /\ kills <= MaxKills
<1>1. Init => J
  BY InvInit DEF Init
<1>2. J /\ [Next]_vars => J'
  <2> SUFFICES ASSUME J, [Next]_vars PROVE kills' <= MaxKills
    BY InvStep
  <2> QED BY DEF Next, SleepOn, Wake, Return, Kill, vars, Inv, Types
<1>3. J => TypeOK
  BY DEF Inv, Types, TypeOK
<1> HIDE DEF J
<1> QED BY <1>1, <1>2, <1>3, PTL DEF Spec

(* A wakeup of a channel somebody sleeps on does scan, whatever insertions *)
(* and deletions did to the table, and however many sleepers were killed.  *)
THEOREM HintSoundCorrect == Spec => []HintSound
<1>1. Inv => HintSound
  BY CoveredSeen DEF Inv, Types, HintSound
<1> QED BY <1>1, InvInit, InvStep, PTL DEF Spec

(* Without killed sleepers no count is left in the table.                  *)
THEOREM NothingLeftBehindCorrect == Spec => []NothingLeftBehind
<1>1. Inv => NothingLeftBehind
  <2> SUFFICES ASSUME Inv, kills = 0, \A p \in Proc : on[p] = None
               PROVE  overflow = 0
                      /\ \A i \in DOMAIN slot : slot[i] = [chan |-> None, count |-> 0]
    BY DEF NothingLeftBehind
  <2>1. Covered(slot, overflow, on, TRUE)
    BY DEF Inv
  <2> QED BY <2>1, ExactEmpty DEF Inv, Types
<1> QED BY <1>1, InvInit, InvStep, PTL DEF Spec
=============================================================================
