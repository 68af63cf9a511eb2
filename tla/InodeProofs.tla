---------------------------- MODULE InodeProofs ----------------------------
(***************************************************************************)
(* Proofs about InodeCache, for any numbers of processes, slots, inodes,   *)
(* directories and names, and with no assumption on what runs beside what: *)
(* what the locks of the inode cache and of the directories guarantee also *)
(* while an inode_put deletes what another process has just found          *)
(* (SlotsSound).  That link counts, names and the bitmap agree             *)
(* (InodesSound) is not true without such an assumption.                   *)
(***************************************************************************)
EXTENDS InodeCache, FiniteSetTheorems, WellFoundedInduction, TLAPS

(* A process in a call.                                                    *)
Active(p) == call[p] # Idle

(* The types, without the bounds of the counters.                          *)
Typed ==
  /\ slot \in [Slot -> [ref : Nat, num : Inum \cup {Invalid}, valid : BOOLEAN, nlink : Nat]]
  /\ slk \in [Slot -> Proc \cup {None}]
  /\ bitmap \subseteq Inum
  /\ nlink \in [Inum -> Nat]
  /\ entry \in [Dir \X Name -> Inum \cup {Invalid}]
  /\ dlk \in [Dir -> Proc \cup {None}]
  /\ open \in [Proc -> Slot \cup {None}]
  /\ call \in [Proc -> Calls \cup {Idle}]

(* The places each operation passes through.                               *)
Stage(op, at) ==
  \/ op = "open" /\ at \in {"look", "get", "fill", "lock"}
  \/ op = "create" /\ at \in {"look", "alloc", "get", "fill", "init", "name"}
  \/ op = "rename" /\ at \in {"look", "place", "remove"}
  \/ op = "link" /\ at \in {"look", "get", "fill", "lock", "into", "bump"}
  \/ op = "unlink" /\ at \in {"look", "get", "fill", "drop"}
  \/ op \in {"link", "unlink", "close"} /\ at \in {"put", "check", "delete", "erase", "clean"}

(* A call has a slot, and an inode, from where it gets them.               *)
Shaped ==
  \A p \in Proc : Active(p) =>
    /\ Stage(call[p].op, call[p].at)
    /\ call[p].slot = None <=> call[p].at \in {"look", "alloc", "get", "place", "remove"}
    /\ call[p].num = Invalid <=> call[p].at \in {"look", "alloc"} \/ call[p].op = "close"
    /\ call[p].op \in {"open", "create"} => open[p] = None

(* Who erases an inode, and nobody else, keeps the lock of its slot.       *)
SlotLocks == \A p \in Proc, s \in Slot : slk[s] = p <=> At(p, "erase") /\ call[p].slot = s

(* The directory that a call keeps locked.                                 *)
HasDir(p, d) ==
  \/ Active(p) /\ call[p].op \in {"create", "unlink"} /\ call[p].at # "look" /\ call[p].dir = d
  \/ call[p].at = "bump" /\ call[p].dir2 = d
DirLocks == \A p \in Proc, d \in Dir : dlk[d] = p <=> HasDir(p, d)

(* The parts of SlotsSound, with the locks that they rest on.              *)
Inv ==
  /\ Typed /\ Shaped /\ SlotLocks /\ DirLocks
  /\ RefsCounted /\ OneSlot /\ RightInode /\ Claims

-----------------------------------------------------------------------------
(* A step of p.                                                            *)

Starts(p) ==
  \E op \in Ops \ {"close"}, d, d2 \in Dir, n, n2 \in Name : Start(p, op, d, n, d2, n2)
Moves(p) == Step(p) \/ Starts(p)

(* A call has a place, and idle is none.                                   *)
LEMMA ActiveIs ==
  ASSUME Typed, NEW p \in Proc
  PROVE  /\ Active(p) <=> call[p] \in Calls
         /\ Active(p) <=> call[p].at # "idle"
         /\ ~Active(p) <=> call[p] = Idle
<1>1. call[p] \in Calls \cup {Idle}
  BY DEF Typed
<1>2. Idle.at = "idle"
  BY DEF Idle
<1>3. \A c \in Calls : c.at # "idle"
  BY DEF Calls, Places
<1> QED BY <1>1, <1>2, <1>3 DEF Active

(* A step of p moves only p's call and p's open file.                      *)
LEMMA Others ==
  ASSUME Typed, NEW p \in Proc, Moves(p)
  PROVE  \A q \in Proc \ {p} : call'[q] = call[q] /\ open'[q] = open[q]
<1> USE DEF Typed
<1>1. CASE Starts(p)  BY <1>1 DEF Starts, Start
<1>2. CASE Close(p)  BY <1>2 DEF Close
<1>3. CASE Look(p)  BY <1>3 DEF Look
<1>4. CASE LookToChange(p)  BY <1>4 DEF LookToChange
<1>5. CASE RenameHere(p)  BY <1>5 DEF RenameHere
<1>6. CASE RenameLook(p)  BY <1>6 DEF RenameLook
<1>7. CASE RenamePlace(p)  BY <1>7 DEF RenamePlace, Goto
<1>8. CASE RenameRemove(p)  BY <1>8 DEF RenameRemove
<1>9. CASE Alloc(p)  BY <1>9 DEF Alloc
<1>10. CASE GetMiss(p)  BY <1>10 DEF GetMiss
<1>11. CASE Fill(p)  BY <1>11 DEF Fill, Goto
<1>12. CASE \E h \in Slot : GetHit(p, h)  BY <1>12 DEF GetHit
<1>13. CASE LockOpened(p)  BY <1>13 DEF LockOpened, Goto
<1>14. CASE InitInode(p)  BY <1>14 DEF InitInode, Goto
<1>15. CASE DropLink(p)  BY <1>15 DEF DropLink, Goto
<1>16. CASE LinkInto(p)  BY <1>16 DEF LinkInto, Goto
<1>17. CASE LinkBump(p)  BY <1>17 DEF LinkBump, Goto
<1>18. CASE Put(p)  BY <1>18 DEF Put, Goto, Finish
<1>19. CASE Check(p)  BY <1>19 DEF Check, Goto, Finish
<1>20. CASE DeleteLock(p)  BY <1>20 DEF DeleteLock, Goto
<1>21. CASE Erase(p)  BY <1>21 DEF Erase, Goto
<1>22. CASE Clean(p)  BY <1>22 DEF Clean, Finish
<1>23. CASE NameInode(p)  BY <1>23 DEF NameInode
<1> QED BY <1>1, <1>2, <1>3, <1>4, <1>5, <1>6, <1>7, <1>8, <1>9, <1>10, <1>11, <1>12,
           <1>13, <1>14, <1>15, <1>16, <1>17, <1>18, <1>19, <1>20, <1>21, <1>22, <1>23
        DEF Moves, Step

-----------------------------------------------------------------------------
(* References.                                                             *)

Uses(p, s) == call[p] # Idle /\ call[p].slot = s /\ ~Deleting(p)
Openers(s) == {p \in Proc : open[p] = s}
Callers(s) == {p \in Proc : Uses(p, s)}
One(b) == IF b THEN 1 ELSE 0

(* The size of a set changes by the one element that may come or go.       *)
LEMMA SizeMoves ==
  ASSUME NEW S, NEW T, NEW x, IsFiniteSet(S), \A y : y # x => (y \in S <=> y \in T)
  PROVE  /\ IsFiniteSet(T) /\ Cardinality(S) \in Nat
         /\ Cardinality(T) = Cardinality(S) + One(x \in T) - One(x \in S)
<1>1. CASE x \in S <=> x \in T
  <2>1. S = T
    BY <1>1
  <2> QED BY <2>1, FS_CardinalityType DEF One
<1>2. CASE x \in S /\ x \notin T
  <2>1. T = S \ {x}
    BY <1>2
  <2> QED BY <2>1, <1>2, FS_RemoveElement, FS_CardinalityType DEF One
<1>3. CASE x \notin S /\ x \in T
  <2>1. T = S \cup {x}
    BY <1>3
  <2> QED BY <2>1, <1>3, FS_AddElement, FS_CardinalityType DEF One
<1> QED BY <1>1, <1>2, <1>3

(* The users of a slot are those that have it open and those in a call.    *)
LEMMA UsersAre ==
  ASSUME Constants, NEW s
  PROVE  /\ IsFiniteSet(Openers(s)) /\ IsFiniteSet(Callers(s))
         /\ Cardinality(Openers(s)) \in Nat /\ Cardinality(Callers(s)) \in Nat
         /\ Users(s) = Cardinality(Openers(s)) + Cardinality(Callers(s))
<1>1. Openers(s) \subseteq Proc /\ Callers(s) \subseteq Proc
  BY DEF Openers, Callers
<1>2. IsFiniteSet(Openers(s)) /\ IsFiniteSet(Callers(s))
  BY <1>1, FS_Subset DEF Constants
<1>3. Users(s) = Cardinality(Openers(s)) + Cardinality(Callers(s))
  BY DEF Users, Openers, Callers, Uses
<1> QED BY <1>2, <1>3, FS_CardinalityType

(* What somebody uses has a reference.                                     *)
LEMMA UsedHasRef ==
  ASSUME Constants, RefsCounted, NEW p \in Proc, NEW s \in Slot,
         Uses(p, s) \/ open[p] = s
  PROVE  slot[s].ref > 0
<1>1. Openers(s) # {} \/ Callers(s) # {}
  BY DEF Openers, Callers
<1>2. Cardinality(Openers(s)) > 0 \/ Cardinality(Callers(s)) > 0
  BY <1>1, UsersAre, FS_EmptySet
<1> QED BY <1>2, UsersAre DEF RefsCounted

(* A step of p changes the users of a slot by what p does.                 *)
LEMMA UsersMove ==
  ASSUME Constants, Typed, NEW p \in Proc, Moves(p), NEW s \in Slot
  PROVE  Users(s)' = Users(s) + One(open'[p] = s) - One(open[p] = s)
                              + One(Uses(p, s)') - One(Uses(p, s))
<1>1. \A q \in Proc \ {p} : call'[q] = call[q] /\ open'[q] = open[q]
  BY Others
<1>2. \A q : q # p => (q \in Openers(s) <=> q \in Openers(s)')
  BY <1>1 DEF Openers
<1>3. \A q : q # p => (q \in Callers(s) <=> q \in Callers(s)')
  BY <1>1 DEF Callers, Uses, Deleting
<1>4. IsFiniteSet(Openers(s)) /\ IsFiniteSet(Callers(s))
  BY UsersAre
<1>5. Cardinality(Openers(s)') = Cardinality(Openers(s)) + One(p \in Openers(s)') - One(p \in Openers(s))
  BY <1>2, <1>4, SizeMoves
<1>6. Cardinality(Callers(s)') = Cardinality(Callers(s)) + One(p \in Callers(s)') - One(p \in Callers(s))
  BY <1>3, <1>4, SizeMoves
<1>7. (p \in Openers(s)' <=> open'[p] = s) /\ (p \in Openers(s) <=> open[p] = s)
      /\ (p \in Callers(s)' <=> Uses(p, s)') /\ (p \in Callers(s) <=> Uses(p, s))
  BY DEF Openers, Callers
<1>8. Users(s)' = Cardinality(Openers(s)') + Cardinality(Callers(s)')
  BY DEF Users, Openers, Callers, Uses
<1>9. /\ Users(s) = Cardinality(Openers(s)) + Cardinality(Callers(s))
      /\ Cardinality(Openers(s)) \in Nat /\ Cardinality(Callers(s)) \in Nat
  BY UsersAre
<1> QED BY <1>5, <1>6, <1>7, <1>8, <1>9 DEF One

-----------------------------------------------------------------------------
(* The lowest of a set of numbers.                                         *)
LEMMA Least ==
  ASSUME NEW S \in SUBSET Nat, S # {}
  PROVE  /\ (CHOOSE x \in S : \A y \in S : x <= y) \in S
         /\ \A y \in S : (CHOOSE x \in S : \A z \in S : x <= z) <= y
<1>1. PICK x \in S : \A y \in S : ~(<<y, x>> \in OpToRel(<, Nat))
  BY NatLessThanWellFounded, WFMin, ZenonT(60)
<1>2. \A y \in Nat : y < x => <<y, x>> \in OpToRel(<, Nat)
  BY DEF OpToRel
<1>3. \A y \in S : y \in Nat /\ ~(y < x)
  BY <1>1, <1>2
<1>4. \A y \in S : x <= y
  BY <1>3
<1> QED BY <1>4

-----------------------------------------------------------------------------
(* Types and places.                                                       *)

SlotTypes == [ref : Nat, num : Inum \cup {Invalid}, valid : BOOLEAN, nlink : Nat]

(* A call stays one when its place, its inode or its slot is set.          *)
LEMMA CallEdited ==
  ASSUME NEW c \in Calls, NEW x \in Places, NEW i \in Inum \cup {Invalid}, NEW s \in Slot \cup {None}
  PROVE  /\ [c EXCEPT !.at = x] \in Calls
         /\ [c EXCEPT !.at = x, !.num = i] \in Calls
         /\ [c EXCEPT !.at = x, !.slot = s] \in Calls
BY DEF Calls

(* Nobody but p moves, and p is in a call or idle afterwards.              *)
LEMMA CallTyped ==
  ASSUME Constants, Typed, Shaped, NEW p \in Proc, Moves(p)
  PROVE  call' \in [Proc -> Calls \cup {Idle}] /\ open' \in [Proc -> Slot \cup {None}]
<1>a. call \in [Proc -> Calls \cup {Idle}] /\ open \in [Proc -> Slot \cup {None}]
  BY DEF Typed
<1>b. Active(p) => call[p] \in Calls /\ Here(p) \in Dir \X Name /\ There(p) \in Dir \X Name
  BY ActiveIs DEF Calls, Here, There
<1>c. Idle.at = "idle"
  BY DEF Idle
<1>d. call[p].at # "idle" => call[p] \in Calls
  BY <1>b, ActiveIs
<1>e. \A x \in Places, i \in Inum \cup {Invalid}, s \in Slot \cup {None} : call[p].at # "idle" =>
        /\ [call[p] EXCEPT !.at = x] \in Calls
        /\ [call[p] EXCEPT !.at = x, !.num = i] \in Calls
        /\ [call[p] EXCEPT !.at = x, !.slot = s] \in Calls
  BY <1>d, CallEdited
<1>f. call[p].at # "idle" => call[p].slot \in Slot \cup {None}
  BY <1>d DEF Calls
<1>1. CASE Starts(p)
  BY <1>1, <1>a DEF Starts, Start, Calls, Ops, Places, Invalid
<1>2. CASE Close(p)
  BY <1>2, <1>a DEF Close, Calls, Ops, Places, Invalid
<1>3. CASE Look(p)
  <2>1. call[p].at # "idle" /\ entry[Here(p)] \in Inum \cup {Invalid}
    BY <1>3, <1>b, ActiveIs DEF Look, Looks, At, Typed
  <2>2. \A x \in Places : [call[p] EXCEPT !.at = x, !.num = entry[Here(p)]] \in Calls
    BY <2>1, <1>d, CallEdited
  <2>3. \/ call' = [call EXCEPT ![p] = Idle]
        \/ \E x \in Places : call' = [call EXCEPT ![p] = [call[p] EXCEPT !.at = x, !.num = entry[Here(p)]]]
    BY <1>3 DEF Look, Places
  <2> QED BY <1>a, <2>2, <2>3, <1>3 DEF Look
<1>4. CASE LookToChange(p)
  <2>1. call[p].at # "idle" /\ entry[Here(p)] \in Inum \cup {Invalid}
    BY <1>4, <1>b, ActiveIs DEF LookToChange, Looks, At, Typed
  <2>2. \A x \in Places : [call[p] EXCEPT !.at = x, !.num = entry[Here(p)]] \in Calls
    BY <2>1, <1>d, CallEdited
  <2>3. \/ call' = [call EXCEPT ![p] = Idle]
        \/ \E x \in Places : call' = [call EXCEPT ![p] = [call[p] EXCEPT !.at = x, !.num = entry[Here(p)]]]
    BY <1>4 DEF LookToChange, Places
  <2> QED BY <1>a, <2>2, <2>3, <1>4 DEF LookToChange
<1>5. CASE RenameHere(p)
  BY <1>5, <1>a, <1>d, <1>e, <1>f DEF RenameHere, At, Places
<1>6. CASE RenameLook(p)
  <2>1. call[p].at # "idle" /\ entry[Here(p)] \in Inum \cup {Invalid}
    BY <1>6, <1>b, ActiveIs DEF RenameLook, Looks, At, Typed
  <2>2. \A x \in Places : [call[p] EXCEPT !.at = x, !.num = entry[Here(p)]] \in Calls
    BY <2>1, <1>d, CallEdited
  <2>3. \/ call' = [call EXCEPT ![p] = Idle]
        \/ \E x \in Places : call' = [call EXCEPT ![p] = [call[p] EXCEPT !.at = x, !.num = entry[Here(p)]]]
    BY <1>6 DEF RenameLook, Places
  <2> QED BY <1>a, <2>2, <2>3, <1>6 DEF RenameLook
<1>7. CASE RenamePlace(p)
  BY <1>7, <1>a, <1>d, <1>e, <1>f DEF RenamePlace, Goto, At, Places
<1>8. CASE RenameRemove(p)
  BY <1>8, <1>a, <1>d, <1>e, <1>f DEF RenameRemove, At, Places
<1>9. CASE Alloc(p)
  <2> DEFINE i == CHOOSE j \in Inum \ bitmap : \A k \in Inum \ bitmap : j <= k
  <2>1. i \in Inum
    BY <1>9, Least DEF Alloc, Constants
  <2>a. call[p].at # "idle" /\ call' = [call EXCEPT ![p].at = "get", ![p].num = i]
    BY <1>9, Zenon DEF Alloc, At
  <2> HIDE DEF i
  <2>2. call[p].at # "idle" /\ call' = [call EXCEPT ![p] = [call[p] EXCEPT !.at = "get", !.num = i]]
    BY <2>a, <1>a
  <2>3. [call[p] EXCEPT !.at = "get", !.num = i] \in Calls
    BY <2>1, <2>2, <1>d, CallEdited DEF Places
  <2> QED BY <1>a, <2>2, <2>3, <1>9 DEF Alloc
<1>10. CASE GetMiss(p)
  <2>1. PICK s \in Slot, x \in Places : call[p].at # "idle" /\ call' = [call EXCEPT ![p] = [call[p] EXCEPT !.at = x, !.slot = s]]
    <3> DEFINE t == CHOOSE s \in Unused : \A u \in Unused : s <= u
    <3>1. t \in Slot
      BY <1>10, Least DEF GetMiss, Unused, Constants
    <3>2. At(p, "get") /\ call' = [call EXCEPT ![p].at = "fill", ![p].slot = t]
      BY <1>10, Zenon DEF GetMiss
    <3> HIDE DEF t
    <3> QED BY <3>1, <3>2, <1>a DEF At, Places
  <2>2. [call[p] EXCEPT !.at = x, !.slot = s] \in Calls
    BY <2>1, <1>d, CallEdited
  <2> QED BY <1>a, <2>1, <2>2, <1>10 DEF GetMiss
<1>11. CASE Fill(p)
  BY <1>11, <1>a, <1>d, <1>e, ZenonT(60) DEF Fill, Goto, At, Places, AfterGet
<1>12. CASE \E h \in Slot : GetHit(p, h)
  <2>1. PICK s \in Slot, x \in Places : call[p].at # "idle" /\ call' = [call EXCEPT ![p] = [call[p] EXCEPT !.at = x, !.slot = s]]
    <3>1. PICK s \in Slot : At(p, "get") /\ call' = [call EXCEPT ![p].at = AfterGet(call[p].op), ![p].slot = s]
      BY <1>12 DEF GetHit
    <3>2. AfterGet(call[p].op) \in Places
      BY DEF AfterGet, Places
    <3> QED BY <3>1, <3>2, <1>a DEF At
  <2>2. [call[p] EXCEPT !.at = x, !.slot = s] \in Calls
    BY <2>1, <1>d, CallEdited
  <2> QED BY <1>a, <2>1, <2>2, <1>12 DEF GetHit
<1>13. CASE LockOpened(p)
  <2>1. call[p].at # "idle" /\ call[p].slot \in Slot
    BY <1>13, <1>f, ActiveIs DEF LockOpened, At, Shaped
  <2>2. [call[p] EXCEPT !.at = "into"] \in Calls
    BY <2>1, <1>d, CallEdited DEF Places
  <2> QED BY <1>a, <2>1, <2>2, <1>13 DEF LockOpened, Goto
<1>14. CASE InitInode(p)
  BY <1>14, <1>a, <1>d, <1>e, <1>f DEF InitInode, Goto, At, Places
<1>15. CASE DropLink(p)
  BY <1>15, <1>a, <1>d, <1>e, <1>f DEF DropLink, Goto, At, Places
<1>16. CASE LinkInto(p)
  BY <1>16, <1>a, <1>d, <1>e, <1>f DEF LinkInto, Goto, At, Places
<1>17. CASE LinkBump(p)
  BY <1>17, <1>a, <1>d, <1>e, <1>f DEF LinkBump, Goto, At, Places
<1>18. CASE Put(p)
  BY <1>18, <1>a, <1>d, <1>e, <1>f DEF Put, Goto, Finish, At, Places
<1>19. CASE Check(p)
  BY <1>19, <1>a, <1>d, <1>e, <1>f DEF Check, Goto, Finish, At, Places
<1>20. CASE DeleteLock(p)
  BY <1>20, <1>a, <1>d, <1>e, <1>f DEF DeleteLock, Goto, At, Places
<1>21. CASE Erase(p)
  BY <1>21, <1>a, <1>d, <1>e, <1>f DEF Erase, Goto, At, Places
<1>22. CASE Clean(p)
  BY <1>22, <1>a, <1>d, <1>e, <1>f DEF Clean, Finish, At, Places
<1>23. CASE NameInode(p)
  <2>1. call[p].slot \in Slot
    BY <1>23, <1>f, ActiveIs DEF NameInode, At, Shaped
  <2> QED BY <1>a, <2>1, <1>23 DEF NameInode
<1> QED BY <1>1, <1>2, <1>3, <1>4, <1>5, <1>6, <1>7, <1>8, <1>9, <1>10, <1>11, <1>12,
           <1>13, <1>14, <1>15, <1>16, <1>17, <1>18, <1>19, <1>20, <1>21, <1>22, <1>23 DEF Moves, Step

(* A slot stays one when its fields are set.                               *)
LEMMA SlotEdited ==
  ASSUME NEW r \in SlotTypes, NEW k \in Nat, NEW i \in Inum \cup {Invalid}, NEW b \in BOOLEAN
  PROVE  /\ [r EXCEPT !.ref = k] \in SlotTypes /\ [r EXCEPT !.nlink = k] \in SlotTypes
         /\ [r EXCEPT !.valid = b, !.nlink = k] \in SlotTypes
         /\ [r EXCEPT !.valid = b, !.num = i] \in SlotTypes
         /\ \A m \in Nat : [r EXCEPT !.ref = m, !.num = i, !.valid = b] \in SlotTypes
BY DEF SlotTypes

(* A slot that may be locked has a number, and its contents are typed.     *)
LEMMA LockedTyped ==
  ASSUME Typed, NEW s \in Slot
  PROVE  /\ slot[s] \in SlotTypes
         /\ slot[s].valid \/ slot[s].num # Invalid =>
              /\ Locked(s) \in SlotTypes
              /\ Locked(s).ref = slot[s].ref /\ Locked(s).num = slot[s].num /\ Locked(s).valid
         /\ slot[s].num # Invalid =>
              /\ Filled(s) \in SlotTypes /\ Filled(s).ref = slot[s].ref /\ Filled(s).num = slot[s].num
              /\ Filled(s).valid /\ Filled(s).nlink = nlink[slot[s].num]
<1>1. slot[s] \in SlotTypes
  BY DEF Typed, SlotTypes
<1>2. CASE slot[s].num # Invalid
  <2>1. nlink[slot[s].num] \in Nat
    BY <1>1, <1>2 DEF Typed, SlotTypes
  <2>2. Filled(s) \in SlotTypes
    BY <1>1, <2>1, SlotEdited DEF Filled
  <2> QED BY <1>1, <1>2, <2>2 DEF Filled, Locked, SlotTypes
<1>3. CASE slot[s].num = Invalid
  BY <1>1, <1>3 DEF Locked
<1> QED BY <1>1, <1>2, <1>3

(* The slots and the link counts on the disk keep their types: a slot is   *)
(* filled, or its link count written, only while it has a number.          *)
LEMMA SlotTyped ==
  ASSUME Constants, Typed, Shaped, RefsCounted, NEW p \in Proc, Moves(p)
  PROVE  /\ slot' \in [Slot -> SlotTypes] /\ nlink' \in [Inum -> Nat]
<1>a. slot \in [Slot -> SlotTypes] /\ nlink \in [Inum -> Nat]
  BY DEF Typed, SlotTypes
<1>b. At(p, "idle") <=> ~Active(p)
  BY ActiveIs DEF At
<1>c. call[p].at \in Places \ {"look", "alloc", "get", "place", "remove"} => call[p].slot \in Slot
  <2> SUFFICES ASSUME call[p].at \in Places \ {"look", "alloc", "get", "place", "remove"}
               PROVE  call[p].slot \in Slot
    OBVIOUS
  <2>1. Active(p) /\ call[p] \in Calls
    BY ActiveIs DEF Places
  <2> QED BY <2>1 DEF Shaped, Calls
<1>d. \A s \in Slot : Uses(p, s) => slot[s].ref > 0
  BY UsedHasRef
<1>i. \A s \in Slot : slot[s].num # Invalid => slot[s].num \in Inum
  BY <1>a DEF SlotTypes
<1>e. \A s \in Slot : slot[s].valid \/ slot[s].num # Invalid => Locked(s) \in SlotTypes
  BY LockedTyped
<1>f. \A s \in Slot : slot[s].num # Invalid => Filled(s) \in SlotTypes
  BY LockedTyped
<1>g. At(p, "fill") \/ At(p, "lock") \/ At(p, "init") \/ At(p, "drop") \/ At(p, "bump") \/ At(p, "put") =>
        /\ Uses(p, call[p].slot) /\ call[p].slot \in Slot
        /\ slot[call[p].slot].ref > 0
  BY <1>b, <1>c, <1>d, ActiveIs DEF At, Uses, Deleting, Places
<1>h. \A r \in SlotTypes : \A k \in Nat : [r EXCEPT !.ref = k] \in SlotTypes /\ [r EXCEPT !.nlink = k] \in SlotTypes
  BY SlotEdited
<1>1. CASE Starts(p)
  BY <1>1, <1>a DEF Starts, Start
<1>2. CASE Close(p)
  BY <1>2, <1>a DEF Close
<1>3. CASE Look(p)
  BY <1>3, <1>a DEF Look
<1>4. CASE LookToChange(p)
  BY <1>4, <1>a DEF LookToChange
<1>5. CASE RenameHere(p)
  BY <1>5, <1>a DEF RenameHere
<1>6. CASE RenameLook(p)
  BY <1>6, <1>a DEF RenameLook
<1>7. CASE RenamePlace(p)
  BY <1>7, <1>a DEF RenamePlace, Goto
<1>8. CASE RenameRemove(p)
  BY <1>8, <1>a DEF RenameRemove
<1>9. CASE Alloc(p)
  BY <1>9, <1>a DEF Alloc
<1>10. CASE GetMiss(p)
  <2> DEFINE s == CHOOSE t \in Unused : \A u \in Unused : t <= u
  <2>1. s \in Slot
    BY <1>10, Least DEF GetMiss, Unused, Constants
  <2>2. nlink' = nlink /\ slot' = [slot EXCEPT ![s].ref = 1, ![s].num = call[p].num, ![s].valid = FALSE]
    BY <1>10, Zenon DEF GetMiss
  <2> HIDE DEF s
  <2>3. call[p].num \in Inum \cup {Invalid}
    BY <1>10, <1>b, ActiveIs DEF GetMiss, At, Calls
  <2>4. [slot[s] EXCEPT !.ref = 1, !.num = call[p].num, !.valid = FALSE] \in SlotTypes
    BY <1>a, <2>1, <2>3, SlotEdited
  <2>5. slot' = [slot EXCEPT ![s] = [slot[s] EXCEPT !.ref = 1, !.num = call[p].num, !.valid = FALSE]]
    BY <2>2, <1>a
  <2> QED BY <1>a, <2>2, <2>4, <2>5
<1>11. CASE Fill(p)
  BY <1>11, <1>a, <1>f, <1>g DEF Fill, Goto
<1>12. CASE \E h \in Slot : GetHit(p, h)
  <2>1. PICK s \in Slot : slot' = [slot EXCEPT ![s] = [slot[s] EXCEPT !.ref = slot[s].ref + 1]] /\ nlink' = nlink
    BY <1>12 DEF GetHit
  <2>2. slot[s].ref + 1 \in Nat
    BY <1>a DEF SlotTypes
  <2> QED BY <1>a, <1>h, <2>1, <2>2
<1>13. CASE LockOpened(p)
  BY <1>13, <1>a, <1>e, <1>g DEF LockOpened, Goto, CanLock
<1>14. CASE InitInode(p)
  <2> DEFINE s == call[p].slot
  <2>1. s \in Slot /\ slot[s].num \in Inum
    BY <1>14, <1>g, <1>i DEF InitInode
  <2>2. [slot[s] EXCEPT !.valid = TRUE, !.nlink = 1] \in SlotTypes
    BY <2>1, <1>a, SlotEdited
  <2>3. slot' = [slot EXCEPT ![s].valid = TRUE, ![s].nlink = 1] /\ nlink' = [nlink EXCEPT ![slot[s].num] = 1]
    BY <1>14 DEF InitInode
  <2>4. slot' = [slot EXCEPT ![s] = [slot[s] EXCEPT !.valid = TRUE, !.nlink = 1]]
    BY <2>3, <1>a
  <2> QED BY <1>a, <2>1, <2>2, <2>3, <2>4
<1>15. CASE DropLink(p)
  <2> DEFINE s == call[p].slot
             n == Locked(s).nlink
             m == IF n > 0 THEN n - 1 ELSE 0
  <2>1. s \in Slot /\ slot[s].num \in Inum /\ CanLock(s)
    BY <1>15, <1>g, <1>i DEF DropLink
  <2>2. Locked(s) \in SlotTypes
    BY <2>1, <1>e DEF CanLock
  <2>3. m \in Nat
    BY <2>2 DEF SlotTypes
  <2>4. [Locked(s) EXCEPT !.nlink = m] \in SlotTypes
    BY <2>2, <2>3, <1>h
  <2>5. slot' = [slot EXCEPT ![s] = [Locked(s) EXCEPT !.nlink = m]] /\ nlink' = [nlink EXCEPT ![slot[s].num] = m]
    BY <1>15, Zenon DEF DropLink
  <2> QED BY <1>a, <2>1, <2>3, <2>4, <2>5
<1>16. CASE LinkInto(p)
  BY <1>16, <1>a DEF LinkInto, Goto
<1>17. CASE LinkBump(p)
  <2> DEFINE s == call[p].slot
  <2>1. s \in Slot /\ slot[s].num \in Inum /\ CanLock(s)
    BY <1>17, <1>g, <1>i DEF LinkBump
  <2>2. Locked(s) \in SlotTypes
    BY <2>1, <1>e DEF CanLock
  <2>3. Locked(s).nlink + 1 \in Nat
    BY <2>2 DEF SlotTypes
  <2>4. [Locked(s) EXCEPT !.nlink = Locked(s).nlink + 1] \in SlotTypes
    BY <2>2, <2>3, <1>h
  <2>5. slot' = [slot EXCEPT ![s] = [Locked(s) EXCEPT !.nlink = @ + 1]]
        /\ nlink' = [nlink EXCEPT ![slot[s].num] = Locked(s).nlink + 1]
    BY <1>17 DEF LinkBump
  <2> QED BY <1>a, <2>1, <2>3, <2>4, <2>5
<1>18. CASE Put(p)
  <2> DEFINE s == call[p].slot
  <2>1. s \in Slot /\ slot[s].ref > 0
    BY <1>18, <1>g DEF Put
  <2>2. slot[s].ref - 1 \in Nat
    BY <2>1, <1>a DEF SlotTypes
  <2>3. slot' = [slot EXCEPT ![s] = [slot[s] EXCEPT !.ref = slot[s].ref - 1]] /\ nlink' = nlink
    BY <1>18 DEF Put
  <2> QED BY <1>a, <1>h, <2>1, <2>2, <2>3
<1>19. CASE Check(p)
  BY <1>19, <1>a DEF Check, Goto, Finish
<1>20. CASE DeleteLock(p)
  <2>1. call[p].slot \in Slot /\ CanLock(call[p].slot)
    BY <1>20, <1>c DEF DeleteLock, At, Places
  <2> QED BY <1>20, <2>1, <1>a, <1>e DEF DeleteLock, CanLock
<1>21. CASE Erase(p)
  <2> DEFINE s == call[p].slot
  <2>1. s \in Slot /\ slot[s].num # Invalid
    BY <1>21, <1>c DEF Erase, At, Places
  <2>2. slot[s].num \in Inum
    BY <2>1, <1>a DEF SlotTypes
  <2>3. slot' = [slot EXCEPT ![s] = [slot[s] EXCEPT !.nlink = 0]] /\ nlink' = [nlink EXCEPT ![slot[s].num] = 0]
    BY <1>21 DEF Erase
  <2> QED BY <1>a, <1>h, <2>1, <2>2, <2>3
<1>22. CASE Clean(p)
  <2> DEFINE s == call[p].slot
  <2>1. s \in Slot
    BY <1>22, <1>c DEF Clean, At, Places
  <2>2. [slot[s] EXCEPT !.valid = FALSE, !.num = Invalid] \in SlotTypes
    BY <2>1, <1>a, SlotEdited
  <2>3. slot' = [slot EXCEPT ![s].valid = FALSE, ![s].num = Invalid] /\ nlink' = nlink
    BY <1>22 DEF Clean
  <2>4. slot' = [slot EXCEPT ![s] = [slot[s] EXCEPT !.valid = FALSE, !.num = Invalid]]
    BY <2>3, <1>a
  <2> QED BY <1>a, <2>1, <2>2, <2>3, <2>4
<1>23. CASE NameInode(p)
  BY <1>23, <1>a DEF NameInode
<1> QED BY <1>1, <1>2, <1>3, <1>4, <1>5, <1>6, <1>7, <1>8, <1>9, <1>10, <1>11, <1>12,
           <1>13, <1>14, <1>15, <1>16, <1>17, <1>18, <1>19, <1>20, <1>21, <1>22, <1>23 DEF Moves, Step

(* A step keeps the types.                                                 *)
LEMMA TypedStep ==
  ASSUME Constants, Typed, Shaped, RefsCounted, NEW p \in Proc, Moves(p)
  PROVE  Typed'
<1>1. call' \in [Proc -> Calls \cup {Idle}] /\ open' \in [Proc -> Slot \cup {None}]
  BY CallTyped
<1>2. slot' \in [Slot -> SlotTypes] /\ nlink' \in [Inum -> Nat]
  BY SlotTyped
<1>b. Active(p) => call[p] \in Calls /\ Here(p) \in Dir \X Name /\ There(p) \in Dir \X Name
                   /\ call[p].dir \in Dir /\ call[p].dir2 \in Dir
                   /\ call[p].num \in Inum \cup {Invalid}
  BY ActiveIs DEF Calls, Here, There
<1>c. Active(p) <=> ~At(p, "idle")
  BY ActiveIs DEF At
<1>3. /\ slk' \in [Slot -> Proc \cup {None}] /\ bitmap' \subseteq Inum
      /\ entry' \in [Dir \X Name -> Inum \cup {Invalid}] /\ dlk' \in [Dir -> Proc \cup {None}]
  <2>a. /\ slk \in [Slot -> Proc \cup {None}] /\ bitmap \subseteq Inum
        /\ entry \in [Dir \X Name -> Inum \cup {Invalid}] /\ dlk \in [Dir -> Proc \cup {None}]
        /\ \A s \in Slot : slot[s].num \in Inum \cup {Invalid}
    BY DEF Typed
  <2>b. At(p, "name") \/ At(p, "into") => call[p].slot \in Slot
    BY <1>b, <1>c DEF At, Shaped, Calls
  <2>1. CASE Starts(p)
    BY <2>1, <1>b, <1>c, <2>a DEF Starts, Start, At
  <2>2. CASE Close(p)
    BY <2>2, <1>b, <1>c, <2>a DEF Close, At
  <2>3. CASE Look(p)
    BY <2>3, <1>b, <1>c, <2>a DEF Look, Looks, At
  <2>4. CASE LookToChange(p)
    BY <2>4, <1>b, <1>c, <2>a DEF LookToChange, Looks, At
  <2>5. CASE RenameHere(p)
    BY <2>5, <1>b, <1>c, <2>a DEF RenameHere, Looks, At
  <2>6. CASE RenameLook(p)
    BY <2>6, <1>b, <1>c, <2>a DEF RenameLook, Looks, At
  <2>7. CASE RenamePlace(p)
    BY <2>7, <1>b, <1>c, <2>a DEF RenamePlace, Goto, At
  <2>8. CASE RenameRemove(p)
    BY <2>8, <1>b, <1>c, <2>a DEF RenameRemove, At
  <2>9. CASE Alloc(p)
    <3>1. (CHOOSE j \in Inum \ bitmap : \A k \in Inum \ bitmap : j <= k) \in Inum
      BY <2>9, Least DEF Alloc, Constants
    <3> QED BY <2>9, <3>1, <2>a DEF Alloc
  <2>10. CASE GetMiss(p)
    BY <2>10, <1>b, <1>c, <2>a DEF GetMiss, At
  <2>11. CASE Fill(p)
    BY <2>11, <1>b, <1>c, <2>a DEF Fill, Goto, At
  <2>12. CASE \E h \in Slot : GetHit(p, h)
    BY <2>12, <1>b, <1>c, <2>a DEF GetHit, At
  <2>13. CASE LockOpened(p)
    BY <2>13, <1>b, <1>c, <2>a DEF LockOpened, Goto, At
  <2>14. CASE InitInode(p)
    BY <2>14, <1>b, <1>c, <2>a DEF InitInode, Goto, At
  <2>15. CASE DropLink(p)
    BY <2>15, <1>b, <1>c, <2>a DEF DropLink, Goto, At
  <2>16. CASE LinkInto(p)
    BY <2>16, <1>b, <1>c, <2>a, <2>b DEF LinkInto, Goto, At
  <2>17. CASE LinkBump(p)
    BY <2>17, <1>b, <1>c, <2>a DEF LinkBump, Goto, At
  <2>18. CASE Put(p)
    BY <2>18, <1>b, <1>c, <2>a DEF Put, Goto, Finish, At
  <2>19. CASE Check(p)
    BY <2>19, <1>b, <1>c, <2>a DEF Check, Goto, Finish, At
  <2>20. CASE DeleteLock(p)
    BY <2>20, <1>b, <1>c, <2>a DEF DeleteLock, Goto, At
  <2>21. CASE Erase(p)
    BY <2>21, <1>b, <1>c, <2>a DEF Erase, Goto, At
  <2>22. CASE Clean(p)
    BY <2>22, <1>b, <1>c, <2>a DEF Clean, Finish, At
  <2>23. CASE NameInode(p)
    BY <2>23, <1>b, <1>c, <2>a, <2>b DEF NameInode, At
  <2> QED BY <2>1, <2>2, <2>3, <2>4, <2>5, <2>6, <2>7, <2>8, <2>9, <2>10, <2>11, <2>12,
           <2>13, <2>14, <2>15, <2>16, <2>17, <2>18, <2>19, <2>20, <2>21, <2>22, <2>23 DEF Moves, Step
<1> QED BY <1>1, <1>2, <1>3 DEF Typed, SlotTypes

(* A call passes through the places of its operation.                      *)
LEMMA ShapedStep ==
  ASSUME Constants, Typed, Typed', Shaped, NEW p \in Proc, Moves(p)
  PROVE  Shaped'
<1> DEFINE Ok(q) ==
      /\ Stage(call[q].op, call[q].at)
      /\ call[q].slot = None <=> call[q].at \in {"look", "alloc", "get", "place", "remove"}
      /\ call[q].num = Invalid <=> call[q].at \in {"look", "alloc"} \/ call[q].op = "close"
      /\ call[q].op \in {"open", "create"} => open[q] = None
<1>1. \A q \in Proc \ {p} : Active(q)' => Ok(q)'
  BY Others DEF Shaped, Active, Stage
<1>2. Active(p) => Ok(p)
  BY DEF Shaped
<1>t. /\ call \in [Proc -> Calls \cup {Idle}] /\ open \in [Proc -> Slot \cup {None}]
      /\ Active(p) <=> call[p].at # "idle"
      /\ Active(p) => call[p] \in Calls
      /\ call[p] \in Calls => DOMAIN call[p] = {"op", "at", "dir", "name", "dir2", "name2", "num", "slot"}
  BY ActiveIs DEF Typed, Calls
<1>o. Active(p)' <=> call'[p] # Idle
  BY DEF Active
<1>3. Active(p)' => Ok(p)'
  <2>1. CASE Starts(p)
    BY <2>1, <1>2, <1>t, <1>o DEF Starts, Start, Stage, Ops, At
  <2>2. CASE Close(p)
    BY <2>2, <1>2, <1>t, <1>o DEF Close, Stage
  <2>3. CASE Look(p)
    BY <2>3, <1>2, <1>t, <1>o DEF Look, Looks, At, Stage, Invalid
  <2>4. CASE LookToChange(p)
    BY <2>4, <1>2, <1>t, <1>o DEF LookToChange, Looks, At, Stage, Invalid
  <2>5. CASE RenameHere(p)
    BY <2>5, <1>2, <1>t, <1>o DEF RenameHere, Looks, At, Stage, Invalid
  <2>6. CASE RenameLook(p)
    BY <2>6, <1>2, <1>t, <1>o DEF RenameLook, Looks, At, Stage, Invalid
  <2>7. CASE RenamePlace(p)
    BY <2>7, <1>2, <1>t, <1>o DEF RenamePlace, Goto, At, Stage
  <2>8. CASE RenameRemove(p)
    BY <2>8, <1>2, <1>t, <1>o DEF RenameRemove, At, Stage
  <2>9. CASE Alloc(p)
    <3>1. (CHOOSE j \in Inum \ bitmap : \A k \in Inum \ bitmap : j <= k) \in Inum
      BY <2>9, Least DEF Alloc, Constants
    <3> QED BY <2>9, <3>1, <1>2, <1>t, <1>o DEF Alloc, At, Stage, Constants, Invalid
  <2>10. CASE GetMiss(p)
    <3>1. (CHOOSE t \in Unused : \A u \in Unused : t <= u) \in Slot
      BY <2>10, Least DEF GetMiss, Unused, Constants
    <3> QED BY <2>10, <3>1, <1>2, <1>t, <1>o DEF GetMiss, At, Stage, Constants
  <2>11. CASE Fill(p)
    BY <2>11, <1>2, <1>t, <1>o DEF Fill, Goto, At, Stage, AfterGet
  <2>12. CASE \E h \in Slot : GetHit(p, h)
    BY <2>12, <1>2, <1>t, <1>o DEF GetHit, At, Stage, Cached, Constants, AfterGet
  <2>13. CASE LockOpened(p)
    BY <2>13, <1>2, <1>t, <1>o DEF LockOpened, Goto, At, Stage
  <2>14. CASE InitInode(p)
    BY <2>14, <1>2, <1>t, <1>o DEF InitInode, Goto, At, Stage
  <2>15. CASE DropLink(p)
    BY <2>15, <1>2, <1>t, <1>o DEF DropLink, Goto, At, Stage
  <2>16. CASE LinkInto(p)
    BY <2>16, <1>2, <1>t, <1>o DEF LinkInto, Goto, At, Stage
  <2>17. CASE LinkBump(p)
    BY <2>17, <1>2, <1>t, <1>o DEF LinkBump, Goto, At, Stage
  <2>18. CASE Put(p)
    BY <2>18, <1>2, <1>t, <1>o DEF Put, Goto, Finish, At, Stage
  <2>19. CASE Check(p)
    BY <2>19, <1>2, <1>t, <1>o DEF Check, Goto, Finish, At, Stage
  <2>20. CASE DeleteLock(p)
    BY <2>20, <1>2, <1>t, <1>o DEF DeleteLock, Goto, At, Stage
  <2>21. CASE Erase(p)
    BY <2>21, <1>2, <1>t, <1>o DEF Erase, Goto, At, Stage
  <2>22. CASE Clean(p)
    BY <2>22, <1>2, <1>t, <1>o DEF Clean, Finish, At, Stage
  <2>23. CASE NameInode(p)
    BY <2>23, <1>2, <1>t, <1>o DEF NameInode, At, Stage
  <2> QED BY <2>1, <2>2, <2>3, <2>4, <2>5, <2>6, <2>7, <2>8, <2>9, <2>10, <2>11, <2>12,
           <2>13, <2>14, <2>15, <2>16, <2>17, <2>18, <2>19, <2>20, <2>21, <2>22, <2>23 DEF Moves, Step
<1> QED BY <1>1, <1>3 DEF Shaped

-----------------------------------------------------------------------------
(* The references.                                                         *)

(* inode_get, inode_put and file_close keep the counts of references.      *)
LEMMA RefsStep ==
  ASSUME Constants, Typed, Typed', Shaped, Shaped', RefsCounted, NEW p \in Proc, Moves(p)
  PROVE  RefsCounted'
<1> SUFFICES ASSUME NEW s \in Slot PROVE slot'[s].ref = Users(s)'
  BY DEF RefsCounted
<1>1. /\ Users(s)' = Users(s) + One(open'[p] = s) - One(open[p] = s) + One(Uses(p, s)') - One(Uses(p, s))
      /\ slot[s].ref = Users(s) /\ slot[s].ref \in Nat
  BY UsersMove DEF RefsCounted, Typed
<1>t. /\ call \in [Proc -> Calls \cup {Idle}] /\ open \in [Proc -> Slot \cup {None}]
      /\ slot \in [Slot -> SlotTypes]
      /\ call[p].at # "idle" =>
           DOMAIN call[p] = {"op", "at", "dir", "name", "dir2", "name2", "num", "slot"}
      /\ call[p].at # "idle" => call[p] # Idle
      /\ Idle.at = "idle"
      /\ None \notin Slot
  BY ActiveIs DEF Typed, Calls, SlotTypes, Idle, Constants
<1>s. /\ call[p] # Idle /\ call[p].at \in {"look", "alloc", "get", "place", "remove"} => call[p].slot = None
      /\ call[p] # Idle /\ call[p].op \in {"open", "create"} => open[p] = None
      /\ call[p].at = "name" => call[p].op = "create"
      /\ call[p].at # "idle" /\ call[p].at \notin {"look", "alloc", "get", "place", "remove"} => call[p].slot \in Slot
  <2>1. call[p] # Idle => call[p] \in Calls /\ call[p].at # "idle"
    BY ActiveIs DEF Active
  <2> QED BY <2>1, <1>t DEF Shaped, Stage, Active, Calls
<1>l. \A r \in Slot : slot[r].valid \/ slot[r].num # Invalid => Locked(r).ref = slot[r].ref
  BY LockedTyped
<1>f. \A r \in Slot : slot[r].num # Invalid => Filled(r).ref = slot[r].ref
  BY LockedTyped
<1>n. \A r \in Slot : Filled(r) \in SlotTypes \/ slot[r].num = Invalid
  BY LockedTyped
<1>k. \A r \in Slot : Locked(r) \in SlotTypes \/ ~(slot[r].valid \/ slot[r].num # Invalid)
  BY LockedTyped
<1>2. slot'[s].ref = slot[s].ref + One(open'[p] = s) - One(open[p] = s) + One(Uses(p, s)') - One(Uses(p, s))
  <2>1. CASE Starts(p)
    BY <2>1, <1>1, <1>t, <1>s DEF Starts, Start, Uses, Deleting, One, At
  <2>2. CASE Close(p)
    BY <2>2, <1>1, <1>t, <1>s DEF Close, Uses, Deleting, One, At
  <2>3. CASE Look(p)
    BY <2>3, <1>1, <1>t, <1>s DEF Look, Uses, Deleting, One, At, Looks
  <2>4. CASE LookToChange(p)
    BY <2>4, <1>1, <1>t, <1>s DEF LookToChange, Uses, Deleting, One, At, Looks
  <2>5. CASE RenameHere(p)
    BY <2>5, <1>1, <1>t, <1>s DEF RenameHere, Uses, Deleting, One, At, Looks
  <2>6. CASE RenameLook(p)
    BY <2>6, <1>1, <1>t, <1>s DEF RenameLook, Uses, Deleting, One, At, Looks
  <2>7. CASE RenamePlace(p)
    BY <2>7, <1>1, <1>t, <1>s DEF RenamePlace, Goto, Uses, Deleting, One, At
  <2>8. CASE RenameRemove(p)
    BY <2>8, <1>1, <1>t, <1>s DEF RenameRemove, Uses, Deleting, One, At
  <2>9. CASE Alloc(p)
    BY <2>9, <1>1, <1>t, <1>s DEF Alloc, Uses, Deleting, One, At
  <2>10. CASE GetMiss(p)
    <3> DEFINE r == CHOOSE t \in Unused : \A v \in Unused : t <= v
    <3>1. r \in Unused
      BY <2>10, Least DEF GetMiss, Unused, Constants
    <3>2. /\ slot' = [slot EXCEPT ![r].ref = 1, ![r].num = call[p].num, ![r].valid = FALSE]
          /\ call' = [call EXCEPT ![p].at = "fill", ![p].slot = r]
      BY <2>10, Zenon DEF GetMiss
    <3> HIDE DEF r
    <3>3. r \in Slot /\ slot[r].ref = 0
      BY <3>1 DEF Unused
    <3>4. slot'[s].ref = IF s = r THEN 1 ELSE slot[s].ref
      BY <3>2, <3>3, <1>t DEF SlotTypes
    <3>5. call'[p] # Idle /\ call'[p].slot = r /\ call'[p].at = "fill"
      <4>1. call[p].at = "get"
        BY <2>10 DEF GetMiss, At
      <4> QED BY <4>1, <3>2, <1>t
    <3>6. open'[p] = open[p] /\ call[p].at = "get" /\ call[p] # Idle
      BY <2>10, <1>t DEF GetMiss, At
    <3>7. Uses(p, s)' <=> s = r
      BY <3>5 DEF Uses, Deleting
    <3>8. ~Uses(p, s)
      BY <3>6, <1>s, <1>t DEF Uses
    <3> QED BY <3>3, <3>4, <3>6, <3>7, <3>8, <1>1 DEF One
  <2>11. CASE Fill(p)
    BY <2>11, <1>1, <1>t, <1>s, <1>f, <1>n DEF Fill, Goto, Uses, Deleting, One, At, AfterGet
  <2>12. CASE \E h \in Slot : GetHit(p, h)
    BY <2>12, <1>1, <1>t, <1>s DEF GetHit, Uses, Deleting, One, At, AfterGet
  <2>13. CASE LockOpened(p)
    BY <2>13, <1>1, <1>t, <1>s, <1>l, <1>k DEF LockOpened, Goto, Uses, Deleting, One, At, CanLock
  <2>14. CASE InitInode(p)
    BY <2>14, <1>1, <1>t, <1>s DEF InitInode, Goto, Uses, Deleting, One, At
  <2>15. CASE DropLink(p)
    <3> DEFINE r == call[p].slot
               n == Locked(r).nlink
               m == IF n > 0 THEN n - 1 ELSE 0
    <3>1. r \in Slot /\ CanLock(r)
      BY <2>15, <1>s DEF DropLink, At
    <3>2. Locked(r) \in SlotTypes /\ Locked(r).ref = slot[r].ref
      BY <3>1, <1>k, <1>l DEF CanLock
    <3>3. [Locked(r) EXCEPT !.nlink = m].ref = slot[r].ref
      BY <3>2 DEF SlotTypes
    <3>4. slot' = [slot EXCEPT ![r] = [Locked(r) EXCEPT !.nlink = m]]
      BY <2>15, Zenon DEF DropLink
    <3>5. slot'[s].ref = slot[s].ref
      BY <3>1, <3>3, <3>4, <1>t
    <3> QED BY <3>5, <2>15, <1>1, <1>t, <1>s DEF DropLink, Goto, Uses, Deleting, One, At
  <2>16. CASE LinkInto(p)
    BY <2>16, <1>1, <1>t, <1>s DEF LinkInto, Goto, Uses, Deleting, One, At
  <2>17. CASE LinkBump(p)
    <3> DEFINE r == call[p].slot
    <3>1. r \in Slot /\ CanLock(r)
      BY <2>17, <1>s DEF LinkBump, At
    <3>2. Locked(r) \in SlotTypes /\ Locked(r).ref = slot[r].ref
      BY <3>1, <1>k, <1>l DEF CanLock
    <3>4. slot' = [slot EXCEPT ![r] = [Locked(r) EXCEPT !.nlink = @ + 1]]
      BY <2>17 DEF LinkBump
    <3>5. slot'[s].ref = slot[s].ref
      BY <3>1, <3>2, <3>4, <1>t DEF SlotTypes
    <3> QED BY <3>5, <2>17, <1>1, <1>t, <1>s DEF LinkBump, Goto, Uses, Deleting, One, At
  <2>18. CASE Put(p)
    BY <2>18, <1>1, <1>t, <1>s DEF Put, Goto, Finish, Uses, Deleting, One, At
  <2>19. CASE Check(p)
    BY <2>19, <1>1, <1>t, <1>s DEF Check, Goto, Finish, Uses, Deleting, One, At
  <2>20. CASE DeleteLock(p)
    BY <2>20, <1>1, <1>t, <1>s, <1>l, <1>k DEF DeleteLock, Goto, Uses, Deleting, One, At, CanLock
  <2>21. CASE Erase(p)
    BY <2>21, <1>1, <1>t, <1>s DEF Erase, Goto, Uses, Deleting, One, At
  <2>22. CASE Clean(p)
    BY <2>22, <1>1, <1>t, <1>s DEF Clean, Finish, Uses, Deleting, One, At
  <2>23. CASE NameInode(p)
    BY <2>23, <1>1, <1>t, <1>s DEF NameInode, Uses, Deleting, One, At
  <2> QED BY <2>1, <2>2, <2>3, <2>4, <2>5, <2>6, <2>7, <2>8, <2>9, <2>10, <2>11, <2>12,
           <2>13, <2>14, <2>15, <2>16, <2>17, <2>18, <2>19, <2>20, <2>21, <2>22, <2>23 DEF Moves, Step
<1> QED BY <1>1, <1>2

-----------------------------------------------------------------------------
(* Slots.                                                                  *)

(* The slot that inode_get takes.                                          *)
Miss(p, s) ==
  /\ At(p, "get") /\ Cached(call[p].num) = {}
  /\ slot[s].ref = 0 /\ slot'[s].num = call[p].num
  /\ \A t \in Slot \ {s} : slot'[t] = slot[t]

(* What a slot stands for changes when inode_get takes the slot and when   *)
(* inode_put clears it; only inode_get gives a slot its first reference.   *)
LEMMA SlotMoves ==
  ASSUME Constants, Typed, Shaped, NEW p \in Proc, Moves(p), NEW s \in Slot
  PROVE  \/ slot'[s].num = slot[s].num /\ (slot'[s].ref > 0 => slot[s].ref > 0)
         \/ slot'[s].num = Invalid /\ slot'[s].ref = slot[s].ref
         \/ Miss(p, s)
<1>t. /\ slot \in [Slot -> SlotTypes]
      /\ call[p].at # "idle" /\ call[p].at \notin {"look", "alloc", "get", "place", "remove"} =>
           call[p].slot \in Slot
  <2>1. call[p].at # "idle" => Active(p) /\ call[p] \in Calls
    BY ActiveIs
  <2> QED BY <2>1 DEF Shaped, Calls, Typed, SlotTypes
<1>l. \A r \in Slot : slot[r].valid \/ slot[r].num # Invalid =>
        Locked(r) \in SlotTypes /\ Locked(r).ref = slot[r].ref /\ Locked(r).num = slot[r].num
  BY LockedTyped
<1>1. CASE UNCHANGED slot
  BY <1>1
<1>2. CASE GetMiss(p)
  <2> DEFINE r == CHOOSE t \in Unused : \A v \in Unused : t <= v
  <2>1. r \in Unused
    BY <1>2, Least DEF GetMiss, Unused, Constants
  <2>2. /\ slot' = [slot EXCEPT ![r].ref = 1, ![r].num = call[p].num, ![r].valid = FALSE]
        /\ At(p, "get") /\ Cached(call[p].num) = {}
    BY <1>2, Zenon DEF GetMiss
  <2> HIDE DEF r
  <2>3. r \in Slot /\ slot[r].ref = 0
    BY <2>1 DEF Unused
  <2>4. /\ \A t \in Slot \ {r} : slot'[t] = slot[t]
        /\ slot'[r].num = call[p].num
    BY <2>2, <2>3, <1>t DEF SlotTypes
  <2> QED BY <2>2, <2>3, <2>4 DEF Miss
<1>3. CASE Fill(p)
  <2>1. call[p].slot \in Slot /\ slot[call[p].slot].num # Invalid
    BY <1>3, <1>t DEF Fill, At
  <2>2. Filled(call[p].slot).num = slot[call[p].slot].num /\ Filled(call[p].slot).ref = slot[call[p].slot].ref
    BY <2>1, LockedTyped
  <2> QED BY <1>3, <2>1, <2>2, <1>t DEF Fill
<1>4. CASE \E h \in Slot : GetHit(p, h)
  <2>1. PICK h \in Slot : h \in Cached(call[p].num) /\ slot' = [slot EXCEPT ![h].ref = @ + 1]
    BY <1>4 DEF GetHit
  <2> QED BY <2>1, <1>t DEF Cached, SlotTypes
<1>5. CASE LockOpened(p) \/ DeleteLock(p)
  <2>1. call[p].slot \in Slot /\ CanLock(call[p].slot)
    BY <1>5, <1>t DEF LockOpened, DeleteLock, At
  <2>2. slot' = [slot EXCEPT ![call[p].slot] = Locked(call[p].slot)]
    BY <1>5 DEF LockOpened, DeleteLock
  <2> QED BY <2>1, <2>2, <1>l, <1>t DEF CanLock
<1>6. CASE InitInode(p)
  BY <1>6, <1>t DEF InitInode, At, SlotTypes
<1>7. CASE DropLink(p)
  <2> DEFINE r == call[p].slot
             n == Locked(r).nlink
             m == IF n > 0 THEN n - 1 ELSE 0
  <2>1. r \in Slot /\ CanLock(r)
    BY <1>7, <1>t DEF DropLink, At
  <2>2. slot' = [slot EXCEPT ![r] = [Locked(r) EXCEPT !.nlink = m]]
    BY <1>7, Zenon DEF DropLink
  <2>3. [Locked(r) EXCEPT !.nlink = m].ref = slot[r].ref /\ [Locked(r) EXCEPT !.nlink = m].num = slot[r].num
    BY <2>1, <1>l DEF CanLock, SlotTypes
  <2> QED BY <2>1, <2>2, <2>3, <1>t
<1>8. CASE LinkBump(p)
  <2> DEFINE r == call[p].slot
  <2>1. r \in Slot /\ CanLock(r)
    BY <1>8, <1>t DEF LinkBump, At
  <2>2. slot' = [slot EXCEPT ![r] = [Locked(r) EXCEPT !.nlink = @ + 1]]
    BY <1>8 DEF LinkBump
  <2>3. slot'[r].ref = slot[r].ref /\ slot'[r].num = slot[r].num
    BY <2>1, <2>2, <1>l, <1>t DEF CanLock, SlotTypes
  <2> QED BY <2>1, <2>2, <2>3, <1>t
<1>9. CASE Put(p)
  BY <1>9, <1>t DEF Put, At, SlotTypes
<1>10. CASE Erase(p)
  BY <1>10, <1>t DEF Erase, At, SlotTypes
<1>11. CASE Clean(p)
  BY <1>11, <1>t DEF Clean, At, SlotTypes
<1>12. CASE Starts(p) \/ Close(p) \/ Look(p) \/ LookToChange(p) \/ RenameHere(p) \/ RenameLook(p)
            \/ RenamePlace(p) \/ RenameRemove(p) \/ Alloc(p) \/ NameInode(p) \/ LinkInto(p) \/ Check(p)
  <2>1. UNCHANGED slot
    BY <1>12 DEF Starts, Start, Close, Look, LookToChange, RenameHere, RenameLook, RenamePlace,
                 RenameRemove, Alloc, NameInode, LinkInto, Check
  <2> QED BY <1>1, <2>1
<1> QED BY <1>2, <1>3, <1>4, <1>5, <1>6, <1>7, <1>8, <1>9, <1>10, <1>11, <1>12 DEF Moves, Step

(* inode_get takes a slot only if the inode is in none.                    *)
LEMMA OneSlotStep ==
  ASSUME Constants, Typed, Shaped, OneSlot, NEW p \in Proc, Moves(p)
  PROVE  OneSlot'
<1> SUFFICES ASSUME NEW s \in Slot, NEW t \in Slot, s # t, slot'[s].num # Invalid,
                    slot'[s].ref > 0, slot'[t].ref > 0, slot'[s].num = slot'[t].num
             PROVE  FALSE
  BY DEF OneSlot
<1>1. \A a, b \in Slot : Miss(p, a) /\ a # b /\ slot'[b].ref > 0 => slot'[b].num # slot'[a].num
  BY DEF Miss, Cached
<1>2. ~Miss(p, s) /\ ~Miss(p, t)
  BY <1>1
<1>3. slot'[s].num = slot[s].num /\ slot[s].ref > 0
  BY <1>2, SlotMoves
<1>4. slot'[t].num = slot[t].num /\ slot[t].ref > 0
  BY <1>2, SlotMoves
<1> QED BY <1>3, <1>4 DEF OneSlot

(* A call of p that has an inode and a slot has had them, or gets them by  *)
(* this step.                                                              *)
Has(p) == Active(p) /\ ~Deleting(p) /\ call[p].slot # None /\ call[p].num # Invalid
LEMMA HasFrom ==
  ASSUME Constants, Typed, Typed', Shaped, Shaped', NEW p \in Proc, Moves(p), Has(p)'
  PROVE  \/ Has(p) /\ call'[p].slot = call[p].slot /\ call'[p].num = call[p].num
         \/ slot'[call'[p].slot].num = call'[p].num
<1> DEFINE Without == {"look", "alloc", "get", "place", "remove", "check", "delete", "erase", "clean"}
<1>t. /\ call \in [Proc -> Calls \cup {Idle}] /\ slot \in [Slot -> SlotTypes]
      /\ call[p].at # "idle" =>
           DOMAIN call[p] = {"op", "at", "dir", "name", "dir2", "name2", "num", "slot"}
      /\ Idle.at = "idle"
      /\ call[p].at = "get" => call[p].op # "close"
  BY ActiveIs DEF Typed, Calls, SlotTypes, Idle, Shaped, Stage
<1>h. call[p].at \notin Without \cup {"idle"} /\ call[p].op # "close" => Has(p)
  BY ActiveIs DEF Has, Shaped, Deleting
<1>n. call'[p] # Idle /\ call'[p].at \notin Without /\ call'[p].op # "close"
  BY DEF Has, Active, Shaped, Deleting
<1>1. CASE Starts(p)
  BY <1>1, <1>t, <1>h, <1>n DEF Starts, Start
<1>2. CASE Close(p)
  BY <1>2, <1>t, <1>h, <1>n DEF Close
<1>3. CASE Look(p)
  BY <1>3, <1>t, <1>h, <1>n DEF Look, Looks, At
<1>4. CASE LookToChange(p)
  BY <1>4, <1>t, <1>h, <1>n DEF LookToChange, Looks, At
<1>5. CASE RenameHere(p)
  BY <1>5, <1>t, <1>h, <1>n DEF RenameHere
<1>6. CASE RenameLook(p)
  BY <1>6, <1>t, <1>h, <1>n DEF RenameLook, Looks, At
<1>7. CASE RenamePlace(p)
  BY <1>7, <1>t, <1>h, <1>n DEF RenamePlace, Goto, At
<1>8. CASE RenameRemove(p)
  BY <1>8, <1>t, <1>h, <1>n DEF RenameRemove
<1>9. CASE Alloc(p)
  BY <1>9, <1>t, <1>h, <1>n DEF Alloc, At
<1>10. CASE GetMiss(p)
  <2> DEFINE r == CHOOSE t \in Unused : \A v \in Unused : t <= v
  <2>1. r \in Slot
    BY <1>10, Least DEF GetMiss, Unused, Constants
  <2>2. /\ slot' = [slot EXCEPT ![r].ref = 1, ![r].num = call[p].num, ![r].valid = FALSE]
        /\ call' = [call EXCEPT ![p].at = "fill", ![p].slot = r] /\ call[p].at = "get"
    BY <1>10, Zenon DEF GetMiss, At
  <2> HIDE DEF r
  <2> QED BY <2>1, <2>2, <1>t, <1>h, <1>n DEF SlotTypes
<1>11. CASE Fill(p)
  BY <1>11, <1>t, <1>h, <1>n DEF Fill, Goto, At, AfterGet
<1>12. CASE \E h \in Slot : GetHit(p, h)
  <2>1. PICK h \in Slot : /\ h \in Cached(call[p].num) /\ slot' = [slot EXCEPT ![h].ref = @ + 1]
                          /\ call' = [call EXCEPT ![p].at = AfterGet(call[p].op), ![p].slot = h]
                          /\ call[p].at = "get"
    BY <1>12 DEF GetHit, At
  <2> QED BY <2>1, <1>t, <1>h, <1>n DEF Cached, SlotTypes
<1>13. CASE LockOpened(p)
  BY <1>13, <1>t, <1>h, <1>n DEF LockOpened, Goto, At
<1>14. CASE InitInode(p)
  BY <1>14, <1>t, <1>h, <1>n DEF InitInode, Goto, At
<1>15. CASE DropLink(p)
  BY <1>15, <1>t, <1>h, <1>n DEF DropLink, Goto, At
<1>16. CASE LinkInto(p)
  BY <1>16, <1>t, <1>h, <1>n DEF LinkInto, Goto, At
<1>17. CASE LinkBump(p)
  BY <1>17, <1>t, <1>h, <1>n DEF LinkBump, Goto, At
<1>18. CASE Put(p)
  BY <1>18, <1>t, <1>h, <1>n DEF Put, Goto, Finish, At
<1>19. CASE Check(p)
  BY <1>19, <1>t, <1>h, <1>n DEF Check, Goto, Finish, At
<1>20. CASE DeleteLock(p)
  BY <1>20, <1>t, <1>h, <1>n DEF DeleteLock, Goto, At
<1>21. CASE Erase(p)
  BY <1>21, <1>t, <1>h, <1>n DEF Erase, Goto, At
<1>22. CASE Clean(p)
  BY <1>22, <1>t, <1>h, <1>n DEF Clean, Finish, At
<1>23. CASE NameInode(p)
  BY <1>23, <1>t, <1>h, <1>n DEF NameInode
<1> QED BY <1>1, <1>2, <1>3, <1>4, <1>5, <1>6, <1>7, <1>8, <1>9, <1>10, <1>11, <1>12,
           <1>13, <1>14, <1>15, <1>16, <1>17, <1>18, <1>19, <1>20, <1>21, <1>22, <1>23
        DEF Moves, Step

(* Only a slot without references is given to another inode.               *)
LEMMA RightInodeStep ==
  ASSUME Constants, Typed, Typed', Shaped, Shaped', RefsCounted, RightInode, NEW p \in Proc, Moves(p)
  PROVE  RightInode'
<1> SUFFICES ASSUME NEW q \in Proc, Has(q)'
             PROVE  slot'[call'[q].slot].num \in {call'[q].num, Invalid}
  BY DEF RightInode, Has, Active
<1>1. ASSUME Has(q), call'[q].slot = call[q].slot, call'[q].num = call[q].num
      PROVE  slot'[call'[q].slot].num \in {call'[q].num, Invalid}
  <2> DEFINE s == call[q].slot
  <2>1. s \in Slot
    BY <1>1, ActiveIs DEF Has, Calls
  <2>2. slot[s].ref > 0
    BY <1>1, <2>1, UsedHasRef DEF Has, Uses, Active
  <2>3. slot[s].num \in {call[q].num, Invalid}
    BY <1>1 DEF RightInode, Has, Active
  <2>4. slot'[s].num = slot[s].num \/ slot'[s].num = Invalid
    BY <2>1, <2>2, SlotMoves DEF Miss
  <2> QED BY <1>1, <2>3, <2>4
<1>2. CASE q = p
  BY <1>1, <1>2, HasFrom
<1>3. CASE q # p
  BY <1>1, <1>3, Others DEF Has, Active, Deleting
<1> QED BY <1>2, <1>3

(* The sleep lock of a slot belongs to the one that erases it.             *)
LEMMA SlotLocksStep ==
  ASSUME Constants, Typed, Typed', Shaped, SlotLocks, NEW p \in Proc, Moves(p)
  PROVE  SlotLocks'
<1>t. /\ call \in [Proc -> Calls \cup {Idle}] /\ slk \in [Slot -> Proc \cup {None}]
      /\ call[p].at # "idle" =>
           DOMAIN call[p] = {"op", "at", "dir", "name", "dir2", "name2", "num", "slot"}
      /\ call[p].at \in {"delete", "erase"} => call[p].slot \in Slot
      /\ Idle.at = "idle" /\ None \notin Proc
  <2>1. call[p].at # "idle" => Active(p) /\ call[p] \in Calls
    BY ActiveIs
  <2> QED BY <2>1 DEF Typed, Calls, Idle, Constants, Shaped
<1> DEFINE Erases(q, s) == call[q].at = "erase" /\ call[q].slot = s
<1>o. \A q \in Proc \ {p}, s \in Slot : Erases(q, s)' <=> Erases(q, s)
  BY Others
<1>i. \A q \in Proc, s \in Slot : slk[s] = q <=> Erases(q, s)
  BY DEF SlotLocks, At
<1> SUFFICES \A q \in Proc, s \in Slot : slk'[s] = q <=> Erases(q, s)'
  BY DEF SlotLocks, At
<1>1. ASSUME UNCHANGED slk, call[p].at # "erase", call'[p].at # "erase"
      PROVE  \A q \in Proc, s \in Slot : slk'[s] = q <=> Erases(q, s)'
  BY <1>1, <1>i, <1>o
<1>2. CASE DeleteLock(p)
  <2>1. /\ slk' = [slk EXCEPT ![call[p].slot] = p] /\ slk[call[p].slot] = None
        /\ call'[p].at = "erase" /\ call'[p].slot = call[p].slot /\ call[p].at = "delete"
    BY <1>2, <1>t DEF DeleteLock, Goto, At, CanLock
  <2> QED BY <2>1, <1>t, <1>i, <1>o
<1>3. CASE Erase(p)
  <2>1. /\ slk' = [slk EXCEPT ![call[p].slot] = None]
        /\ call'[p].at = "clean" /\ call[p].at = "erase"
    BY <1>3, <1>t DEF Erase, Goto, At
  <2> QED BY <2>1, <1>t, <1>i, <1>o
<1>4. CASE Moves(p) /\ ~DeleteLock(p) /\ ~Erase(p)
  <2>1. UNCHANGED slk
    <3>1. CASE Starts(p)
      BY <3>1 DEF Starts, Start
    <3>2. CASE Step(p)
      BY <3>2, <1>4 DEF Step, Close, Look, LookToChange, RenameHere, RenameLook, RenamePlace,
           RenameRemove, Alloc, GetMiss, Fill, GetHit, LockOpened, InitInode, NameInode, DropLink,
           LinkInto, LinkBump, Put, Check, Clean
    <3> QED BY <3>1, <3>2 DEF Moves
  <2>2. call[p].at # "erase"
    <3>1. CASE Starts(p)
      BY <3>1, <1>t DEF Starts, Start
    <3>2. CASE Step(p)
      BY <3>2, <1>4, <1>t DEF Step, Close, Look, LookToChange, RenameHere, RenameLook, Looks, RenamePlace,
           RenameRemove, Alloc, GetMiss, Fill, GetHit, LockOpened, InitInode, NameInode, DropLink,
           LinkInto, LinkBump, Put, Check, Clean, At
    <3> QED BY <3>1, <3>2 DEF Moves
  <2>3. call'[p].at # "erase"
    <3>1. CASE Starts(p)
      BY <3>1, <1>t DEF Starts, Start
    <3>2. CASE Close(p) \/ Look(p) \/ LookToChange(p)
      BY <3>2, <2>2, <1>t DEF Close, Look, LookToChange, Looks, At
    <3>3. CASE RenameHere(p) \/ RenameLook(p) \/ RenamePlace(p) \/ RenameRemove(p)
      BY <3>3, <2>2, <1>t DEF RenameHere, RenameLook, RenamePlace, RenameRemove, Looks, Goto, At
    <3>4. CASE Alloc(p)
      BY <3>4, <2>2, <1>t DEF Alloc, At
    <3>9. CASE GetMiss(p)
      <4>1. /\ call[p].at = "get"
            /\ \E r : call' = [call EXCEPT ![p].at = "fill", ![p].slot = r]
        BY <3>9, Zenon DEF GetMiss, At
      <4> QED BY <4>1, <1>t
    <3>5. CASE Fill(p) \/ \E h \in Slot : GetHit(p, h)
      BY <3>5, <2>2, <1>t DEF Fill, GetHit, Goto, AfterGet, At
    <3>6. CASE LockOpened(p) \/ InitInode(p) \/ NameInode(p)
      BY <3>6, <2>2, <1>t DEF LockOpened, InitInode, NameInode, Goto, At
    <3>7. CASE DropLink(p) \/ LinkInto(p) \/ LinkBump(p)
      BY <3>7, <2>2, <1>t DEF DropLink, LinkInto, LinkBump, Goto, At
    <3>8. CASE Put(p) \/ Check(p) \/ Clean(p)
      BY <3>8, <2>2, <1>t DEF Put, Check, Clean, Finish, Goto, At
    <3> QED BY <3>1, <3>2, <3>3, <3>4, <3>5, <3>6, <3>7, <3>8, <3>9, <1>4 DEF Moves, Step
  <2> QED BY <2>1, <2>2, <2>3, <1>1
<1> QED BY <1>2, <1>3, <1>4

-----------------------------------------------------------------------------
(* Directories.                                                            *)

(* A step of p leaves its directory lock, takes one or gives it back.      *)
LEMMA DirMoves ==
  ASSUME Constants, Typed, Shaped, NEW p \in Proc, Moves(p)
  PROVE  \/ dlk' = dlk /\ \A d \in Dir : HasDir(p, d)' <=> HasDir(p, d)
         \/ \E x \in Dir : /\ dlk[x] = None /\ dlk' = [dlk EXCEPT ![x] = p]
                           /\ \A d \in Dir : ~HasDir(p, d) /\ (HasDir(p, d)' <=> d = x)
         \/ \E x \in Dir : /\ dlk' = [dlk EXCEPT ![x] = None]
                           /\ \A d \in Dir : ~HasDir(p, d)' /\ (HasDir(p, d) <=> d = x)
<1>t. /\ call \in [Proc -> Calls \cup {Idle}]
      /\ Active(p) <=> call[p].at # "idle"
      /\ call[p].at # "idle" =>
           /\ DOMAIN call[p] = {"op", "at", "dir", "name", "dir2", "name2", "num", "slot"}
           /\ call[p].dir \in Dir /\ call[p].dir2 \in Dir
           /\ Stage(call[p].op, call[p].at)
      /\ Idle.at = "idle" /\ (Active(p)' <=> call'[p] # Idle)
  BY ActiveIs DEF Typed, Calls, Idle, Active, Shaped
<1> USE DEF HasDir
<1>1. CASE Starts(p)
  BY <1>1, <1>t DEF Starts, Start
<1>2. CASE Close(p)
  BY <1>2, <1>t DEF Close
<1>3. CASE Look(p)
  BY <1>3, <1>t DEF Look, Looks, At
<1>4. CASE LookToChange(p)
  <2>1. /\ call[p].at = "look" /\ call[p].op \in {"create", "unlink"} /\ dlk[call[p].dir] = None
        /\ call[p].dir \in Dir
    BY <1>4, <1>t DEF LookToChange, Looks, At
  <2>2. CASE (entry[Here(p)] = Invalid) = (call[p].op = "create")
    <3>1. /\ dlk' = [dlk EXCEPT ![call[p].dir] = p] /\ call'[p].at \in {"alloc", "get"}
          /\ call'[p].op = call[p].op /\ call'[p].dir = call[p].dir /\ call'[p] # Idle
      BY <1>4, <2>1, <2>2, <1>t DEF LookToChange
    <3> QED BY <2>1, <3>1, <1>t
  <2>3. CASE (entry[Here(p)] = Invalid) # (call[p].op = "create")
    BY <1>4, <2>1, <2>3, <1>t DEF LookToChange
  <2> QED BY <2>2, <2>3
<1>5. CASE RenameHere(p)
  BY <1>5, <1>t DEF RenameHere, Looks, At
<1>6. CASE RenameLook(p)
  BY <1>6, <1>t DEF RenameLook, Looks, At
<1>7. CASE RenamePlace(p)
  BY <1>7, <1>t DEF RenamePlace, Goto, At, Stage
<1>8. CASE RenameRemove(p)
  BY <1>8, <1>t DEF RenameRemove, At, Stage
<1>9. CASE Alloc(p)
  BY <1>9, <1>t DEF Alloc, At
<1>10. CASE GetMiss(p)
  BY <1>10, <1>t DEF GetMiss, At
<1>11. CASE Fill(p)
  BY <1>11, <1>t DEF Fill, Goto, At, AfterGet
<1>12. CASE \E h \in Slot : GetHit(p, h)
  <2>1. /\ call[p].at = "get" /\ dlk' = dlk
        /\ \E h : call' = [call EXCEPT ![p].at = AfterGet(call[p].op), ![p].slot = h]
    BY <1>12 DEF GetHit, At
  <2>2. AfterGet(call[p].op) \notin {"look", "bump", "idle"}
    BY DEF AfterGet
  <2>3. /\ call'[p].at = AfterGet(call[p].op) /\ call'[p].op = call[p].op /\ call'[p].dir = call[p].dir
    BY <2>1, <1>t
  <2> QED BY <2>1, <2>2, <2>3, <1>t
<1>13. CASE LockOpened(p)
  BY <1>13, <1>t DEF LockOpened, Goto, At, Stage
<1>14. CASE InitInode(p)
  BY <1>14, <1>t DEF InitInode, Goto, At
<1>15. CASE DropLink(p)
  BY <1>15, <1>t DEF DropLink, Goto, At
<1>16. CASE LinkInto(p)
  BY <1>16, <1>t DEF LinkInto, Goto, At, Stage
<1>17. CASE LinkBump(p)
  BY <1>17, <1>t DEF LinkBump, Goto, At, Stage
<1>18. CASE Put(p)
  BY <1>18, <1>t DEF Put, Goto, Finish, At, Stage
<1>19. CASE Check(p)
  BY <1>19, <1>t DEF Check, Goto, Finish, At, Stage
<1>20. CASE DeleteLock(p)
  BY <1>20, <1>t DEF DeleteLock, Goto, At
<1>21. CASE Erase(p)
  BY <1>21, <1>t DEF Erase, Goto, At
<1>22. CASE Clean(p)
  BY <1>22, <1>t DEF Clean, Finish, At, Stage
<1>23. CASE NameInode(p)
  BY <1>23, <1>t DEF NameInode, At, Stage
<1> QED BY <1>1, <1>2, <1>3, <1>4, <1>5, <1>6, <1>7, <1>8, <1>9, <1>10, <1>11, <1>12,
           <1>13, <1>14, <1>15, <1>16, <1>17, <1>18, <1>19, <1>20, <1>21, <1>22, <1>23
        DEF Moves, Step

(* The sleep lock of a directory belongs to the call that keeps it.        *)
LEMMA DirLocksStep ==
  ASSUME Constants, Typed, Shaped, DirLocks, NEW p \in Proc, Moves(p)
  PROVE  DirLocks'
<1>o. \A q \in Proc \ {p}, d \in Dir : HasDir(q, d)' <=> HasDir(q, d)
  BY Others DEF HasDir, Active
<1>i. \A q \in Proc, d \in Dir : dlk[d] = q <=> HasDir(q, d)
  BY DEF DirLocks
<1>t. dlk \in [Dir -> Proc \cup {None}] /\ None \notin Proc
  BY DEF Typed, Constants
<1> SUFFICES ASSUME NEW q \in Proc, NEW d \in Dir PROVE dlk'[d] = q <=> HasDir(q, d)'
  BY DEF DirLocks
<1>1. CASE q = p
  BY <1>1, <1>i, <1>t, DirMoves
<1>2. CASE q # p
  BY <1>2, <1>i, <1>o, <1>t, DirMoves
<1> QED BY <1>1, <1>2

(* An entry changes while its directory is unlocked or p's.                *)
LEMMA EntryMoves ==
  ASSUME Constants, Typed, Shaped, DirLocks, NEW p \in Proc, Moves(p), NEW d \in Dir, NEW n \in Name
  PROVE  entry'[<<d, n>>] = entry[<<d, n>>] \/ dlk[d] \in {None, p}
<1>t. /\ entry \in [Dir \X Name -> Inum \cup {Invalid}]
      /\ Active(p) <=> call[p].at # "idle"
      /\ call[p].at # "idle" =>
           /\ call[p].dir \in Dir /\ call[p].dir2 \in Dir
           /\ Here(p) \in Dir \X Name /\ There(p) \in Dir \X Name
           /\ Here(p) = <<call[p].dir, call[p].name>> /\ There(p) = <<call[p].dir2, call[p].name2>>
           /\ Stage(call[p].op, call[p].at)
      /\ \A x \in Dir : HasDir(p, x) => dlk[x] = p
  BY ActiveIs DEF Typed, Calls, Shaped, Here, There, DirLocks
<1>1. CASE UNCHANGED entry
  BY <1>1
<1>2. CASE RenameHere(p)
  BY <1>2, <1>t DEF RenameHere, Looks, At
<1>3. CASE RenamePlace(p)
  BY <1>3, <1>t DEF RenamePlace, At
<1>4. CASE RenameRemove(p)
  BY <1>4, <1>t DEF RenameRemove, At
<1>5. CASE NameInode(p)
  <2>1. HasDir(p, call[p].dir)
    BY <1>5, <1>t DEF NameInode, At, HasDir, Stage
  <2> QED BY <1>5, <2>1, <1>t DEF NameInode, At
<1>6. CASE DropLink(p)
  <2>1. HasDir(p, call[p].dir) /\ entry' = [entry EXCEPT ![Here(p)] = Invalid] /\ call[p].at = "drop"
    BY <1>6, <1>t DEF DropLink, At, HasDir, Stage
  <2> QED BY <2>1, <1>t
<1>7. CASE LinkInto(p)
  BY <1>7, <1>t DEF LinkInto, At
<1>8. CASE Starts(p) \/ Close(p) \/ Look(p) \/ LookToChange(p) \/ RenameLook(p) \/ Alloc(p) \/ GetMiss(p)
           \/ Fill(p) \/ (\E h \in Slot : GetHit(p, h)) \/ LockOpened(p) \/ InitInode(p) \/ LinkBump(p)
           \/ Put(p) \/ Check(p) \/ DeleteLock(p) \/ Erase(p) \/ Clean(p)
  <2>1. UNCHANGED entry
    BY <1>8 DEF Starts, Start, Close, Look, LookToChange, RenameLook, Alloc, GetMiss, Fill, GetHit,
                LockOpened, InitInode, LinkBump, Put, Check, DeleteLock, Erase, Clean
  <2> QED BY <1>1, <2>1
<1> QED BY <1>2, <1>3, <1>4, <1>5, <1>6, <1>7, <1>8 DEF Moves, Step

(* What q has found under the lock of its directory.                       *)
Claim(q) ==
  /\ call[q].op = "create" /\ call[q].at # "look" => entry[Here(q)] = Invalid
  /\ call[q].op = "unlink" /\ call[q].at \in {"get", "fill", "drop"} => entry[Here(q)] = call[q].num

(* p's own claim: made when it looks, and given up when it changes the     *)
(* entry.                                                                  *)
LEMMA OwnClaim ==
  ASSUME Constants, Typed, Shaped, NEW p \in Proc, Moves(p), Active(p) => Claim(p), Active(p)'
  PROVE  Claim(p)'
<1>t. /\ call \in [Proc -> Calls \cup {Idle}]
      /\ Active(p) <=> call[p].at # "idle"
      /\ call[p].at # "idle" =>
           /\ DOMAIN call[p] = {"op", "at", "dir", "name", "dir2", "name2", "num", "slot"}
           /\ Stage(call[p].op, call[p].at)
           /\ Claim(p)
      /\ Idle.at = "idle" /\ call'[p] # Idle
  BY ActiveIs DEF Typed, Calls, Idle, Active, Shaped
<1> USE DEF Claim, Here
<1>1. CASE Starts(p)
  BY <1>1, <1>t DEF Starts, Start
<1>2. CASE Close(p)
  BY <1>2, <1>t DEF Close
<1>3. CASE Look(p)
  BY <1>3, <1>t DEF Look, Looks, At
<1>4. CASE LookToChange(p)
  <2>1. call[p].at = "look" /\ call[p].op \in {"create", "unlink"} /\ entry' = entry
    BY <1>4 DEF LookToChange, Looks, At
  <2>2. (entry[Here(p)] = Invalid) = (call[p].op = "create")
    BY <1>4, <2>1, <1>t DEF LookToChange
  <2>3. /\ call'[p].num = entry[Here(p)] /\ call'[p].op = call[p].op /\ Here(p)' = Here(p)
    BY <1>4, <2>1, <2>2, <1>t DEF LookToChange
  <2> QED BY <2>1, <2>2, <2>3
<1>5. CASE RenameHere(p)
  BY <1>5, <1>t DEF RenameHere
<1>6. CASE RenameLook(p)
  BY <1>6, <1>t DEF RenameLook, Looks, At
<1>7. CASE RenamePlace(p)
  BY <1>7, <1>t DEF RenamePlace, Goto, At, Stage
<1>8. CASE RenameRemove(p)
  BY <1>8, <1>t DEF RenameRemove
<1>9. CASE Alloc(p)
  BY <1>9, <1>t DEF Alloc, At, Stage
<1>10. CASE GetMiss(p)
  BY <1>10, <1>t DEF GetMiss, At
<1>11. CASE Fill(p)
  BY <1>11, <1>t DEF Fill, Goto, At, AfterGet
<1>12. CASE \E h \in Slot : GetHit(p, h)
  BY <1>12, <1>t DEF GetHit, At, AfterGet
<1>13. CASE LockOpened(p)
  BY <1>13, <1>t DEF LockOpened, Goto, At, Stage
<1>14. CASE InitInode(p)
  BY <1>14, <1>t DEF InitInode, Goto, At
<1>15. CASE DropLink(p)
  <2>1. call[p].at = "drop" /\ call'[p].at = "put" /\ call'[p].op = call[p].op
    BY <1>15, <1>t DEF DropLink, Goto, At
  <2> QED BY <2>1, <1>t DEF Stage
<1>16. CASE LinkInto(p)
  BY <1>16, <1>t DEF LinkInto, Goto, At, Stage
<1>17. CASE LinkBump(p)
  BY <1>17, <1>t DEF LinkBump, Goto, At, Stage
<1>18. CASE Put(p)
  BY <1>18, <1>t DEF Put, Goto, Finish, At, Stage
<1>19. CASE Check(p)
  BY <1>19, <1>t DEF Check, Goto, Finish, At, Stage
<1>20. CASE DeleteLock(p)
  BY <1>20, <1>t DEF DeleteLock, Goto, At, Stage
<1>21. CASE Erase(p)
  BY <1>21, <1>t DEF Erase, Goto, At, Stage
<1>22. CASE Clean(p)
  BY <1>22, <1>t DEF Clean, Finish, At
<1>23. CASE NameInode(p)
  BY <1>23, <1>t DEF NameInode
<1> QED BY <1>1, <1>2, <1>3, <1>4, <1>5, <1>6, <1>7, <1>8, <1>9, <1>10, <1>11, <1>12,
           <1>13, <1>14, <1>15, <1>16, <1>17, <1>18, <1>19, <1>20, <1>21, <1>22, <1>23
        DEF Moves, Step

(* Nobody else changes a directory that a call keeps locked.               *)
LEMMA ClaimsStep ==
  ASSUME Constants, Typed, Shaped, DirLocks, Claims, NEW p \in Proc, Moves(p)
  PROVE  Claims'
<1>1. \A q \in Proc : Active(q) => Claim(q)
  BY DEF Claims, Claim, Active
<1> SUFFICES ASSUME NEW q \in Proc, Active(q)' PROVE Claim(q)'
  BY DEF Claims, Claim, Active
<1>2. CASE q = p
  BY <1>1, <1>2, OwnClaim
<1>3. CASE q # p
  <2>1. call'[q] = call[q] /\ Active(q) /\ Here(q)' = Here(q)
    BY <1>3, Others DEF Active, Here
  <2>2. call[q] \in Calls
    BY <2>1, ActiveIs
  <2>3. HasDir(q, call[q].dir) => dlk[call[q].dir] = q /\ None # q
    BY <2>2 DEF DirLocks, Calls, Constants
  <2>4. HasDir(q, call[q].dir) => entry'[Here(q)] = entry[Here(q)]
    BY <1>3, <2>2, <2>3, EntryMoves DEF Here, Calls
  <2> QED BY <1>1, <2>1, <2>4 DEF Claim, HasDir
<1> QED BY <1>2, <1>3

-----------------------------------------------------------------------------
(* The invariant holds throughout.                                         *)

(* An empty file system.                                                   *)
LEMMA InvInit ==
  ASSUME Constants, Init
  PROVE  Inv
<1> USE DEF Init
<1>1. Typed
  BY DEF Typed, Invalid
<1>a. \A p \in Proc : call[p] = Idle /\ call[p].at = "idle" /\ open[p] = None
  BY DEF Idle
<1>2. Shaped /\ RightInode /\ Claims
  BY <1>a DEF Shaped, Active, RightInode, Claims
<1>3. SlotLocks /\ DirLocks
  BY <1>a DEF SlotLocks, DirLocks, HasDir, Active, At, Constants
<1>4. OneSlot
  BY DEF OneSlot
<1>5. RefsCounted
  <2> SUFFICES ASSUME NEW s \in Slot PROVE Users(s) = 0
    BY DEF RefsCounted
  <2>1. Openers(s) = {} /\ Callers(s) = {}
    BY <1>a DEF Openers, Callers, Uses, Constants
  <2> QED BY <2>1, UsersAre, FS_EmptySet
<1> QED BY <1>1, <1>2, <1>3, <1>4, <1>5 DEF Inv

(* The invariant is inductive.                                             *)
LEMMA InvStep ==
  ASSUME Constants, Inv, NEW p \in Proc, Moves(p)
  PROVE  Inv'
<1>1. Typed'
  BY TypedStep DEF Inv
<1>2. Shaped'
  BY <1>1, ShapedStep DEF Inv
<1> QED BY <1>1, <1>2, RefsStep, OneSlotStep, RightInodeStep, SlotLocksStep, DirLocksStep, ClaimsStep
        DEF Inv

(* Stuttering keeps it.                                                    *)
LEMMA InvSame ==
  ASSUME Inv, UNCHANGED vars
  PROVE  Inv'
<1> USE DEF vars
<1>1. (Typed /\ Shaped /\ SlotLocks /\ DirLocks)'
  BY DEF Inv, Typed, Shaped, Active, SlotLocks, DirLocks, HasDir, At
<1>2. (RefsCounted /\ OneSlot)'
  BY DEF Inv, RefsCounted, Users, OneSlot, Deleting
<1>3. (RightInode /\ Claims)'
  BY DEF Inv, RightInode, Claims, Here, Deleting
<1> QED BY <1>1, <1>2, <1>3 DEF Inv

(* Every step is one of some process.                                      *)
LEMMA NextMoves ==
  ASSUME Next
  PROVE  \E p \in Proc : Moves(p)
BY DEF Next, Moves, Starts

(* Types, places, locks and the parts of SlotsSound at every point of every *)
(* operation, whatever runs beside it.                                     *)
THEOREM InvCorrect ==
  ASSUME Constants
  PROVE  Spec => []Inv
<1>1. Init => Inv
  BY InvInit
<1>2. Inv /\ [Next]_vars => Inv'
  BY InvStep, InvSame, NextMoves
<1> QED BY <1>1, <1>2, PTL DEF Spec

(* References are those of the open files and the calls, an inode is in    *)
(* one slot, who has got an inode never finds another one in its slot, one *)
(* process at a time erases, and nobody else changes an entry between the  *)
(* look and the change of create and unlink: also while inode_put deletes  *)
(* an inode that somebody has just found (inode.c:420-438).                *)
THEOREM SlotsSoundCorrect ==
  ASSUME Constants
  PROVE  Spec => []SlotsSound
<1>1. ASSUME Inv PROVE SlotsSound
  <2>1. EraseAlone
    <3> SUFFICES ASSUME NEW p \in Proc, NEW q \in Proc, At(p, "erase"), At(q, "erase"),
                        call[p].slot = call[q].slot
                 PROVE  p = q
      BY DEF EraseAlone
    <3>1. call[p].slot \in Slot
      BY <1>1, ActiveIs DEF Inv, Shaped, Calls, At
    <3> QED BY <1>1, <3>1 DEF Inv, SlotLocks
  <2> QED BY <1>1, <2>1 DEF Inv, SlotsSound
<1> QED BY <1>1, InvCorrect, PTL
=============================================================================
