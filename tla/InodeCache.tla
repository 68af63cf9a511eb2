----------------------------- MODULE InodeCache -----------------------------
(***************************************************************************)
(* The inode cache of fs/inode.c, the inode bitmap of fs/bitmap.c and the  *)
(* directory operations of fs/dentry.c that use them: path lookup, create, *)
(* link, unlink, rename, and the deletion of an inode by the inode_put     *)
(* that drops the last reference to an unlinked one.                       *)
(*                                                                         *)
(* An action is one critical section of lk_inode_cache, or what is done    *)
(* under one acquisition of the sleep lock of an inode.  Directories are   *)
(* never deleted and always in the cache: only their sleep lock and their  *)
(* entries are kept.                                                       *)
(***************************************************************************)
EXTENDS Integers, FiniteSets

CONSTANTS
  Proc,       \* processes
  Slot,       \* the entries of inode_cache, numbers
  Inum,       \* inode numbers, from 1; 0 is INVALID_INODE_NUM
  Dir,        \* directories
  Name,       \* names of files
  Exclusive,  \* environment: what no other call runs beside ("rename", "put")
  None

(* What the theorems assume of the constants (InodeProofs).                *)
Constants ==
  /\ IsFiniteSet(Proc) /\ IsFiniteSet(Dir) /\ IsFiniteSet(Name)
  /\ Slot \subseteq Nat /\ Inum \subseteq Nat \ {0}
  /\ None \notin Proc \cup Slot

VARIABLES
  slot,    \* inode_cache: ref, inode_num, valid_info, disk_info.nlink
  slk,     \* the holder of the sleep lock of each slot
  bitmap,  \* inodes allocated on the disk
  nlink,   \* the link counts on the disk
  entry,   \* the entries of the directories, 0 for a free name
  dlk,     \* the holder of the sleep lock of each directory
  open,    \* the slot of the file each process has open
  call     \* the call each process is in

vars == <<slot, slk, bitmap, nlink, entry, dlk, open, call>>

Invalid == 0
Ops == {"open", "create", "unlink", "link", "rename", "close"}
Places ==
  {"look", "alloc", "get", "fill", "lock", "init", "name", "drop", "into", "bump",
   "place", "remove", "put", "check", "delete", "erase", "clean"}
Idle == [at |-> "idle"]
Calls ==
  [op : Ops, at : Places, dir : Dir, name : Name, dir2 : Dir, name2 : Name,
   num : Inum \cup {Invalid}, slot : Slot \cup {None}]

TypeOK ==
  /\ slot \in [Slot -> [ref : 0 .. 2 * Cardinality(Proc), num : Inum \cup {Invalid},
                        valid : BOOLEAN, nlink : 0 .. Cardinality(Dir \X Name)]]
  /\ slk \in [Slot -> Proc \cup {None}]
  /\ bitmap \subseteq Inum
  /\ nlink \in [Inum -> 0 .. Cardinality(Dir \X Name)]
  /\ entry \in [Dir \X Name -> Inum \cup {Invalid}]
  /\ dlk \in [Dir -> Proc \cup {None}]
  /\ open \in [Proc -> Slot \cup {None}]
  /\ call \in [Proc -> Calls \cup {Idle}]

Init ==
  /\ slot = [s \in Slot |-> [ref |-> 0, num |-> Invalid, valid |-> FALSE, nlink |-> 0]]
  /\ slk = [s \in Slot |-> None]
  /\ bitmap = {}
  /\ nlink = [i \in Inum |-> 0]
  /\ entry = [e \in Dir \X Name |-> Invalid]
  /\ dlk = [d \in Dir |-> None]
  /\ open = [p \in Proc |-> None]
  /\ call = [p \in Proc |-> Idle]

-----------------------------------------------------------------------------
(* Where a process is.                                                     *)

At(p, place) == call[p].at = place
Here(p) == <<call[p].dir, call[p].name>>
There(p) == <<call[p].dir2, call[p].name2>>
Goto(p, place) == call' = [call EXCEPT ![p].at = place]

(* A process that has done nothing yet that others could disturb.          *)
Quiet(p) == call[p] = Idle \/ At(p, "look") \/ At(p, "into")
Alone(p) == \A q \in Proc \ {p} : Quiet(q)
Deleting(p) == call[p].at \in {"check", "delete", "erase", "clean"}

(* What the environment assumption Exclusive allows p to begin or go on    *)
(* with.                                                                   *)
MayRun(p) ==
  \A q \in Proc \ {p} :
    /\ "put" \in Exclusive => ~Deleting(q)
    /\ "rename" \in Exclusive => ~(call[q] # Idle /\ call[q].op = "rename" /\ ~At(q, "look"))

(* The directory lock of an unlink is held until after its inode_put.      *)
Finish(p) ==
  /\ call' = [call EXCEPT ![p] = Idle]
  /\ dlk' = IF call[p].op = "unlink" THEN [dlk EXCEPT ![call[p].dir] = None] ELSE dlk

(* A process enters the file system.  It has one file open at a time.      *)
Start(p, op, d, n, d2, n2) ==
  /\ call[p] = Idle
  /\ op \in {"open", "create"} => open[p] = None
  /\ op \notin {"link", "rename"} => d2 = d /\ n2 = n
  /\ call' = [call EXCEPT ![p] =
       [op |-> op, at |-> "look", dir |-> d, name |-> n, dir2 |-> d2, name2 |-> n2,
        num |-> Invalid, slot |-> None]]
  /\ UNCHANGED <<slot, slk, bitmap, nlink, entry, dlk, open>>

(* file_close of the open file: inode_put.                                 *)
Close(p) ==
  /\ call[p] = Idle /\ open[p] # None /\ MayRun(p)
  /\ \E d \in Dir, n \in Name :
       call' = [call EXCEPT ![p] =
         [op |-> "close", at |-> "put", dir |-> d, name |-> n, dir2 |-> d, name2 |-> n,
          num |-> Invalid, slot |-> open[p]]]
  /\ open' = [open EXCEPT ![p] = None]
  /\ UNCHANGED <<slot, slk, bitmap, nlink, entry, dlk>>

-----------------------------------------------------------------------------
(* Directories.                                                            *)

(* Variant: the directory is looked at without its lock.                   *)
LooksUnlocked(p) == At(p, "look") /\ MayRun(p)

Looks(p) == At(p, "look") /\ dlk[call[p].dir] = None /\ MayRun(p)

(* __path_to_inode: the directory is unlocked before inode_get.            *)
Look(p) ==
  /\ Looks(p)
  /\ call[p].op \in {"open", "link"}
  /\ IF entry[Here(p)] = Invalid
     THEN call' = [call EXCEPT ![p] = Idle]
     ELSE call' = [call EXCEPT ![p].at = "get", ![p].num = entry[Here(p)]]
  /\ UNCHANGED <<slot, slk, bitmap, nlink, entry, dlk, open>>

(* path_create_inode and path_unlink keep the directory locked.            *)
LookToChange(p) ==
  /\ Looks(p)
  /\ call[p].op \in {"create", "unlink"}
  /\ IF (entry[Here(p)] = Invalid) = (call[p].op = "create")
     THEN /\ dlk' = [dlk EXCEPT ![call[p].dir] = p]
          /\ call' = [call EXCEPT ![p].at = IF call[p].op = "create" THEN "alloc" ELSE "get",
                                  ![p].num = entry[Here(p)]]
     ELSE /\ call' = [call EXCEPT ![p] = Idle]
          /\ UNCHANGED dlk
  /\ UNCHANGED <<slot, slk, bitmap, nlink, entry, open>>

(* path_rename in one directory, under its lock.                           *)
RenameHere(p) ==
  /\ Looks(p)
  /\ call[p].op = "rename" /\ call[p].dir = call[p].dir2
  /\ entry' = IF entry[Here(p)] = Invalid \/ entry[There(p)] # Invalid THEN entry
              ELSE [entry EXCEPT ![Here(p)] = Invalid, ![There(p)] = entry[Here(p)]]
  /\ call' = [call EXCEPT ![p] = Idle]
  /\ UNCHANGED <<slot, slk, bitmap, nlink, dlk, open>>

(* path_rename into another directory locks the two one after the other.   *)
RenameLook(p) ==
  /\ Looks(p)
  /\ call[p].op = "rename" /\ call[p].dir # call[p].dir2
  /\ "rename" \in Exclusive => Alone(p)
  /\ IF entry[Here(p)] = Invalid
     THEN call' = [call EXCEPT ![p] = Idle]
     ELSE call' = [call EXCEPT ![p].at = "place", ![p].num = entry[Here(p)]]
  /\ UNCHANGED <<slot, slk, bitmap, nlink, entry, dlk, open>>

RenamePlace(p) ==
  /\ At(p, "place") /\ dlk[call[p].dir2] = None
  /\ IF entry[There(p)] # Invalid
     THEN /\ call' = [call EXCEPT ![p] = Idle]
          /\ UNCHANGED entry
     ELSE /\ entry' = [entry EXCEPT ![There(p)] = call[p].num]
          /\ Goto(p, "remove")
  /\ UNCHANGED <<slot, slk, bitmap, nlink, dlk, open>>

RenameRemove(p) ==
  /\ At(p, "remove") /\ dlk[call[p].dir] = None
  /\ entry' = [entry EXCEPT ![Here(p)] = Invalid]
  /\ call' = [call EXCEPT ![p] = Idle]
  /\ UNCHANGED <<slot, slk, bitmap, nlink, dlk, open>>

-----------------------------------------------------------------------------
(* inode_get.                                                              *)

(* bitmap_alloc_inode: the lowest free number.                             *)
Alloc(p) ==
  /\ At(p, "alloc")
  /\ Inum \ bitmap # {}
  /\ LET i == CHOOSE j \in Inum \ bitmap : \A k \in Inum \ bitmap : j <= k IN
       /\ bitmap' = bitmap \cup {i}
       /\ call' = [call EXCEPT ![p].at = "get", ![p].num = i]
  /\ UNCHANGED <<slot, slk, nlink, entry, dlk, open>>

(* The slot that inode i is in.                                            *)
Cached(i) == {s \in Slot : slot[s].ref > 0 /\ slot[s].num = i}
Unused == {s \in Slot : slot[s].ref = 0}

AfterGet(op) ==
  CASE op = "create" -> "init" [] op = "unlink" -> "drop" [] OTHER -> "lock"

(* The hit returns at once, whether or not the slot has been filled.       *)
GetHit(p, s) ==
  /\ At(p, "get")
  /\ s \in Cached(call[p].num) /\ \A t \in Cached(call[p].num) : s <= t
  /\ slot' = [slot EXCEPT ![s].ref = @ + 1]
  /\ call' = [call EXCEPT ![p].at = AfterGet(call[p].op), ![p].slot = s]
  /\ UNCHANGED <<slk, bitmap, nlink, entry, dlk, open>>

(* The miss takes the first slot without a reference.                      *)
GetMiss(p) ==
  /\ At(p, "get")
  /\ Cached(call[p].num) = {}
  /\ Unused # {}
  /\ LET s == CHOOSE t \in Unused : \A u \in Unused : t <= u IN
       /\ slot' = [slot EXCEPT ![s].ref = 1, ![s].num = call[p].num, ![s].valid = FALSE]
       /\ call' = [call EXCEPT ![p].at = "fill", ![p].slot = s]
  /\ UNCHANGED <<slk, bitmap, nlink, entry, dlk, open>>

(* inode_rw reads the inode the slot stands for now.                       *)
Filled(s) ==
  [slot[s] EXCEPT !.valid = TRUE, !.nlink = nlink[slot[s].num]]

Fill(p) ==
  /\ At(p, "fill")
  /\ LET s == call[p].slot IN
       /\ slk[s] = None /\ slot[s].num # Invalid
       /\ slot' = [slot EXCEPT ![s] = Filled(s)]
  /\ Goto(p, AfterGet(call[p].op))
  /\ UNCHANGED <<slk, bitmap, nlink, entry, dlk, open>>

(* Variant: the slot is taken for filled.                                  *)
LockedTrusts(s) == slot[s]

(* inode_lock: fills the slot unless it is valid.                          *)
Locked(s) == IF slot[s].valid THEN slot[s] ELSE Filled(s)
CanLock(s) == slk[s] = None /\ (slot[s].valid \/ slot[s].num # Invalid)

(* The end of __path_to_inode, or the check of the type in path_link.      *)
LockOpened(p) ==
  /\ At(p, "lock")
  /\ LET s == call[p].slot IN
       /\ CanLock(s)
       /\ slot' = [slot EXCEPT ![s] = Locked(s)]
       /\ IF call[p].op = "open"
          THEN /\ open' = [open EXCEPT ![p] = s]
               /\ call' = [call EXCEPT ![p] = Idle]
          ELSE /\ Goto(p, "into")
               /\ UNCHANGED open
  /\ UNCHANGED <<slk, bitmap, nlink, entry, dlk>>

(* inode_create fills in the new inode.                                    *)
InitInode(p) ==
  /\ At(p, "init")
  /\ LET s == call[p].slot IN
       /\ slk[s] = None /\ slot[s].num # Invalid
       /\ slot' = [slot EXCEPT ![s].valid = TRUE, ![s].nlink = 1]
       /\ nlink' = [nlink EXCEPT ![slot[s].num] = 1]
  /\ Goto(p, "name")
  /\ UNCHANGED <<slk, bitmap, entry, dlk, open>>

(* The dentry_create of path_create_inode, by the number the slot has now. *)
NameInode(p) ==
  /\ At(p, "name")
  /\ entry' = [entry EXCEPT ![Here(p)] = slot[call[p].slot].num]
  /\ open' = [open EXCEPT ![p] = call[p].slot]
  /\ dlk' = [dlk EXCEPT ![call[p].dir] = None]
  /\ call' = [call EXCEPT ![p] = Idle]
  /\ UNCHANGED <<slot, slk, bitmap, nlink>>

(* path_unlink under the locks of the directory and the inode.             *)
DropLink(p) ==
  /\ At(p, "drop")
  /\ LET s == call[p].slot
         n == Locked(s).nlink
         m == IF n > 0 THEN n - 1 ELSE 0
     IN  /\ CanLock(s) /\ slot[s].num # Invalid
         /\ slot' = [slot EXCEPT ![s] = [Locked(s) EXCEPT !.nlink = m]]
         /\ nlink' = [nlink EXCEPT ![slot[s].num] = m]
  /\ entry' = [entry EXCEPT ![Here(p)] = Invalid]
  /\ Goto(p, "put")
  /\ UNCHANGED <<slk, bitmap, dlk, open>>

(* path_link: the new entry, and then, the directory still locked, the     *)
(* link count.                                                             *)
LinkInto(p) ==
  /\ At(p, "into") /\ dlk[call[p].dir2] = None /\ MayRun(p)
  /\ IF entry[There(p)] # Invalid
     THEN /\ Goto(p, "put")
          /\ UNCHANGED <<entry, dlk>>
     ELSE /\ entry' = [entry EXCEPT ![There(p)] = slot[call[p].slot].num]
          /\ dlk' = [dlk EXCEPT ![call[p].dir2] = p]
          /\ Goto(p, "bump")
  /\ UNCHANGED <<slot, slk, bitmap, nlink, open>>

LinkBump(p) ==
  /\ At(p, "bump")
  /\ LET s == call[p].slot IN
       /\ CanLock(s) /\ slot[s].num # Invalid
       /\ slot' = [slot EXCEPT ![s] = [Locked(s) EXCEPT !.nlink = @ + 1]]
       /\ nlink' = [nlink EXCEPT ![slot[s].num] = Locked(s).nlink + 1]
  /\ dlk' = [dlk EXCEPT ![call[p].dir2] = None]
  /\ Goto(p, "put")
  /\ UNCHANGED <<bitmap, entry, slk, open>>

-----------------------------------------------------------------------------
(* inode_put.                                                              *)

(* Only the environment assumption keeps others out of what follows the    *)
(* last inode_put.                                                         *)
Put(p) ==
  /\ At(p, "put")
  /\ LET s == call[p].slot IN
       /\ "put" \in Exclusive /\ slot[s].ref = 1 => Alone(p)
       /\ slot' = [slot EXCEPT ![s].ref = @ - 1]
       /\ IF slot[s].ref = 1 THEN Goto(p, "check") /\ UNCHANGED dlk ELSE Finish(p)
  /\ UNCHANGED <<slk, bitmap, nlink, entry, open>>

(* Variant: the link count is not looked at.                               *)
UnlinkedAlways(s) == TRUE

(* ip->disk_info.nlink == 0, read without any lock.                        *)
Unlinked(s) == slot[s].nlink = 0

Check(p) ==
  /\ At(p, "check")
  /\ IF Unlinked(call[p].slot) THEN Goto(p, "delete") /\ UNCHANGED dlk ELSE Finish(p)
  /\ UNCHANGED <<slot, slk, bitmap, nlink, entry, open>>

(* inode_lock of whatever the slot stands for by now.                      *)
DeleteLock(p) ==
  /\ At(p, "delete")
  /\ LET s == call[p].slot IN
       /\ CanLock(s)
       /\ slk' = [slk EXCEPT ![s] = p]
       /\ slot' = [slot EXCEPT ![s] = Locked(s)]
  /\ Goto(p, "erase")
  /\ UNCHANGED <<bitmap, nlink, entry, dlk, open>>

(* inode_delete and inode_unlock.                                          *)
Erase(p) ==
  /\ At(p, "erase")
  /\ LET s == call[p].slot
         i == slot[s].num
     IN  /\ i # Invalid
         /\ slot' = [slot EXCEPT ![s].nlink = 0]
         /\ nlink' = [nlink EXCEPT ![i] = 0]
         /\ bitmap' = bitmap \ {i}
         /\ slk' = [slk EXCEPT ![s] = None]
  /\ Goto(p, "clean")
  /\ UNCHANGED <<entry, dlk, open>>

Clean(p) ==
  /\ At(p, "clean")
  /\ slot' = [slot EXCEPT ![call[p].slot].valid = FALSE, ![call[p].slot].num = Invalid]
  /\ Finish(p)
  /\ UNCHANGED <<slk, bitmap, nlink, entry, open>>

Step(p) ==
  \/ Close(p)
  \/ Look(p) \/ LookToChange(p)
  \/ RenameHere(p) \/ RenameLook(p) \/ RenamePlace(p) \/ RenameRemove(p)
  \/ Alloc(p) \/ GetMiss(p) \/ Fill(p) \/ \E s \in Slot : GetHit(p, s)
  \/ LockOpened(p) \/ InitInode(p) \/ NameInode(p) \/ DropLink(p) \/ LinkInto(p) \/ LinkBump(p)
  \/ Put(p) \/ Check(p) \/ DeleteLock(p) \/ Erase(p) \/ Clean(p)

Next ==
  \E p \in Proc :
    \/ Step(p)
    \/ \E op \in Ops \ {"close"}, d, d2 \in Dir, n, n2 \in Name : Start(p, op, d, n, d2, n2)

Spec == Init /\ [][Next]_vars

-----------------------------------------------------------------------------
(* Properties.                                                             *)

Users(s) ==
  Cardinality({p \in Proc : open[p] = s})
    + Cardinality({p \in Proc : call[p] # Idle /\ call[p].slot = s /\ ~Deleting(p)})

Names(i) == {e \in Dir \X Name : entry[e] = i}

(* An inode somebody refers to is in one slot, which keeps its number, and *)
(* is allocated on the disk; once nobody is in a call, an inode is         *)
(* allocated exactly while it has a name or is open, and its link count,   *)
(* on the disk and in the cache, is the number of its names.               *)
InodesSound ==
  /\ \A s, t \in Slot :
       slot[s].ref > 0 /\ slot[t].ref > 0 /\ slot[s].num = slot[t].num => s = t
  /\ \A s \in Slot : slot[s].ref > 0 => slot[s].num \in bitmap
  /\ (\A p \in Proc : call[p] = Idle) =>
       \A i \in Inum :
         /\ i \in bitmap <=> Names(i) # {} \/ Cached(i) # {}
         /\ nlink[i] = Cardinality(Names(i))
         /\ \A s \in Cached(i) : slot[s].valid /\ slot[s].nlink = nlink[i]

(* References are counted: those of open files and those of calls.         *)
RefsCounted == \A s \in Slot : slot[s].ref = Users(s)

(* An inode that is referred to is in one slot.                            *)
OneSlot ==
  \A s, t \in Slot :
    slot[s].ref > 0 /\ slot[t].ref > 0 /\ slot[s].num = slot[t].num =>
      s = t \/ slot[s].num = Invalid

(* Who has got an inode has it in its slot, or nothing, and never another. *)
RightInode ==
  \A p \in Proc :
    call[p] # Idle /\ ~Deleting(p) /\ call[p].slot # None /\ call[p].num # Invalid =>
      slot[call[p].slot].num \in {call[p].num, Invalid}

(* One process at a time erases what a slot stands for.                    *)
EraseAlone ==
  \A p, q \in Proc :
    At(p, "erase") /\ At(q, "erase") /\ call[p].slot = call[q].slot => p = q

(* What create and unlink have found in their directory stays there until  *)
(* they change it.                                                         *)
Claims ==
  \A p \in Proc : call[p] # Idle =>
    /\ call[p].op = "create" /\ call[p].at # "look" => entry[Here(p)] = Invalid
    /\ call[p].op = "unlink" /\ call[p].at \in {"get", "fill", "drop"} =>
         entry[Here(p)] = call[p].num

(* What the locks of the cache and of the directories guarantee, whatever  *)
(* runs beside what, also when an inode_get finds or takes a slot whose    *)
(* last inode_put is still to delete what was in it.                       *)
SlotsSound == RefsCounted /\ OneSlot /\ RightInode /\ EraseAlone /\ Claims

(* inode_put: "when the references are 0 and nlink is 0, deletion is       *)
(* triggered" - what inode_delete erases has neither.                      *)
DeletesUnlinked ==
  [][\A p \in Proc : Erase(p) => LET s == call[p].slot
                               IN  slot[s].nlink = 0 /\ slot[s].ref = 0]_vars
=============================================================================
