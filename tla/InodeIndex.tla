----------------------------- MODULE InodeIndex -----------------------------
(***************************************************************************)
(* The block index of an inode, fs/inode.c: locate_or_add_block, which     *)
(* finds the block of a file or adds it, and free_data_blocks, which gives *)
(* all blocks of a file back; with bitmap_alloc_block and                  *)
(* bitmap_free_block.  The caller holds the sleep lock of the inode; only  *)
(* the bitmap is shared with other files.                                  *)
(***************************************************************************)
EXTENDS Integers, FiniteSets

CONSTANTS
  Direct,   \* INODE_INDEX_1: direct entries
  Single,   \* single indirect entries, INODE_INDEX_2 - INODE_INDEX_1
  PerBlock, \* entries of an index block
  NBlock,   \* data blocks on the disk
  MaxGap    \* bound: blocks that an offset may lie behind the end of the file

(* The last entry is double indirect.                                      *)
Double == Direct + Single
Block == 1 .. NBlock
NoBlock == 0
MaxBlocks == Direct + Single * PerBlock + PerBlock * PerBlock

VARIABLES
  index,   \* disk_info.index
  table,   \* the contents of each block as an index block
  bitmap,  \* data blocks that are allocated
  others,  \* those of them that belong to other files
  size     \* the size of the file in blocks

vars == <<index, table, bitmap, others, size>>

Entries == [0 .. PerBlock - 1 -> Block \cup {NoBlock}]
Zeroed == [j \in 0 .. PerBlock - 1 |-> NoBlock]

(* What a free block contains may be anything: here, references to itself. *)
Dirty(b) == [j \in 0 .. PerBlock - 1 |-> b]

TypeOK ==
  /\ index \in [0 .. Double -> Block \cup {NoBlock}]
  /\ table \in [Block -> Entries]
  /\ bitmap \subseteq Block /\ others \subseteq bitmap
  /\ size \in 0 .. MaxBlocks

Init ==
  /\ index = [i \in 0 .. Double |-> NoBlock]
  /\ table = [b \in Block |-> Dirty(b)]
  /\ bitmap = {}
  /\ others = {}
  /\ size = 0

-----------------------------------------------------------------------------
(* locate_or_add_block, on a record of index, table and bitmap.  blk is    *)
(* the block that was found or added, NoBlock when the disk is full.       *)

Inode == [index |-> index, table |-> table, bitmap |-> bitmap, blk |-> NoBlock]

LowestOf(S) == CHOOSE b \in S : \A c \in S : b <= c

(* The entry that a block lies behind: of the inode or of an index block.  *)
Entry(f, b, j) == IF b = NoBlock THEN f.index[j] ELSE f.table[b][j]
SetEntry(f, b, j, new) ==
  IF b = NoBlock THEN [f EXCEPT !.index[j] = new, !.blk = new]
                 ELSE [f EXCEPT !.table[b][j] = new, !.blk = new]

(* Variant: the new block keeps what it contained.                         *)
AddDirty(f, b, j) ==
  IF Block \ f.bitmap = {} THEN [f EXCEPT !.blk = NoBlock]
  ELSE LET new == LowestOf(Block \ f.bitmap)
       IN  SetEntry([f EXCEPT !.bitmap = @ \cup {new}], b, j, new)

(* An empty entry gets a new block, which is zeroed.                       *)
Add(f, b, j) ==
  IF Block \ f.bitmap = {} THEN [f EXCEPT !.blk = NoBlock]
  ELSE LET new == LowestOf(Block \ f.bitmap)
       IN  SetEntry([f EXCEPT !.bitmap = @ \cup {new}, !.table[new] = Zeroed], b, j, new)

Ensure(f, b, j) ==
  IF Entry(f, b, j) # NoBlock THEN [f EXCEPT !.blk = Entry(f, b, j)] ELSE Add(f, b, j)

(* One level deeper, unless the level above could not be had.              *)
Below(f, j) == IF f.blk = NoBlock THEN f ELSE Ensure(f, f.blk, j)

Locate(f, l) ==
  LET r1 == l - Direct
      r2 == r1 - Single * PerBlock
  IN  IF l < Direct THEN Ensure(f, NoBlock, l)
      ELSE IF r2 < 0
           THEN Below(Ensure(f, NoBlock, Direct + r1 \div PerBlock), r1 % PerBlock)
           ELSE Below(Below(Ensure(f, NoBlock, Double), r2 \div PerBlock), r2 % PerBlock)

-----------------------------------------------------------------------------
(* free_data_blocks: entry by entry until it meets an empty one, in which  *)
(* case everything else is taken for empty too.                            *)

(* The entries of block b that are visited: those before the first empty.  *)
Visited(b) == {j \in 0 .. PerBlock - 1 : \A i \in 0 .. j : table[b][i] # NoBlock}
Short(b) == Visited(b) # 0 .. PerBlock - 1
OfSingle(b) == {b} \cup {table[b][j] : j \in Visited(b)}

(* An index block of index blocks: the first one that is short is the last *)
(* one visited.                                                            *)
VisitedDouble(b) == {j \in Visited(b) : \A i \in 0 .. j - 1 : ~Short(table[b][i])}
OfDouble(b) == {b} \cup UNION {OfSingle(table[b][j]) : j \in VisitedDouble(b)}

Of(i) ==
  IF i < Direct THEN {index[i]} ELSE IF i < Double THEN OfSingle(index[i]) ELSE OfDouble(index[i])
EndsIn(i) == i \in Direct .. Double - 1 /\ Short(index[i])

Freed ==
  LET visited == {i \in 0 .. Double : /\ \A k \in 0 .. i : index[k] # NoBlock
                                      /\ \A k \in 0 .. i - 1 : ~EndsIn(k)}
  IN  UNION {Of(i) : i \in visited}

-----------------------------------------------------------------------------

(* inode_write_data of one block at logical block l.  A full disk ends the *)
(* write, what has been added on the way stays.                            *)
Write(l) ==
  /\ l <= size + MaxGap /\ l < MaxBlocks
  /\ LET f == Locate(Inode, l) IN
       /\ index' = f.index /\ table' = f.table /\ bitmap' = f.bitmap
       /\ size' = IF f.blk # NoBlock /\ l >= size THEN l + 1 ELSE size
  /\ UNCHANGED others

(* inode_delete.                                                           *)
Delete ==
  /\ index[0] # NoBlock
  /\ bitmap' = bitmap \ Freed
  /\ index' = [i \in 0 .. Double |-> NoBlock]
  /\ size' = 0
  /\ table' = [b \in Block |-> IF b \in Freed THEN Dirty(b) ELSE table[b]]
  /\ UNCHANGED others

(* Other files take blocks and give them back.                             *)
OtherTakes ==
  /\ Block \ bitmap # {}
  /\ LET b == LowestOf(Block \ bitmap) IN
       /\ bitmap' = bitmap \cup {b}
       /\ others' = others \cup {b}
  /\ UNCHANGED <<index, table, size>>

OtherGives(b) ==
  /\ b \in others
  /\ bitmap' = bitmap \ {b}
  /\ others' = others \ {b}
  /\ UNCHANGED <<index, table, size>>

Next ==
  \/ \E l \in 0 .. MaxBlocks - 1 : Write(l)
  \/ Delete \/ OtherTakes \/ \E b \in Block : OtherGives(b)

Spec == Init /\ [][Next]_vars

-----------------------------------------------------------------------------
(* Properties.                                                             *)

(* All blocks behind the entries of the inode, empty entries skipped.      *)
Behind(b) == {table[b][j] : j \in 0 .. PerBlock - 1} \ {NoBlock}
Owned ==
  LET top == {index[i] : i \in 0 .. Double} \ {NoBlock}
      single == {index[i] : i \in Direct .. Double - 1} \ {NoBlock}
      double == {index[Double]} \ {NoBlock}
      inner == UNION {Behind(b) : b \in double}
  IN  top \cup inner \cup UNION {Behind(b) : b \in single \cup inner}

(* What is allocated is what the files own, nothing twice: no block leaks, *)
(* whatever a full disk stopped half-way, and none is given to two files;  *)
(* the blocks of the file that were written are found again without a new  *)
(* one, and no two of them are the same.                                   *)
BlocksExact ==
  /\ Owned \cap others = {}
  /\ bitmap = Owned \cup others
  /\ \A l \in 0 .. size - 1 :
       /\ Locate(Inode, l).bitmap = bitmap
       /\ \A k \in 0 .. l - 1 : Locate(Inode, k).blk # Locate(Inode, l).blk
=============================================================================
