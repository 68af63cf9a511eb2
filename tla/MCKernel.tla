------------------------------ MODULE MCKernel ------------------------------
(***************************************************************************)
(* Components of the kernel checked in one run.  They share no state: a    *)
(* behaviour picks one of them, its focus, and takes the steps of that one *)
(* only; the others stay in their initial state.  What is true of every    *)
(* behaviour of the bundle is true of every behaviour of each component,   *)
(* and the other way round.                                                *)
(***************************************************************************)
EXTENDS PipeSizes, Sequences, TLC

(* Actor are two processes; Couple and Trio are sets of two and three values *)
(* that stand for whatever a component has two and three of.  The sizes of *)
(* PipeSizes are those of the pipes.                                       *)
CONSTANTS Actor, Couple, Trio, ChanA, ChanB, ChanC, Name

VARIABLES
  focus,  \* the component that moves
  x1, x2, x3, x4, x5, x6, x7, x8, x9, x10, x11, x12, x13, x14, x15

(* The variables from the nth on; those a component has no use for are None. *)
from10 == <<x10, x11, x12, x13, x14, x15>>
from9 == <<x9, from10>>
from7 == <<x7, x8, from9>>
from6 == <<x6, from7>>
from4 == <<x4, x5, from6>>
vars == <<focus, x1, x2, x3, from4>>

(* More channels than slots, two of them colliding.                        *)
Chan == INSTANCE SleepChan WITH
          Proc <- Actor \cup Couple, Chan <- {ChanA, ChanB, ChanC}, Slots <- 2,
          Hash <- (ChanA :> 0) @@ (ChanB :> 0) @@ (ChanC :> 1), MaxKills <- 2,
          slot <- x1, overflow <- x2, on <- x3, awake <- x4, kills <- x5

(* Two CPUs, three slots, one of them a process with a SIGCHLD handler.    *)
Life == INSTANCE ProcLife WITH
          N <- 3, NCPU <- 2, Handlers <- {2},
          state <- x1, parent <- x2, orphan <- x3, pend <- x4, run <- x5, pc <- x6,
          idx <- x7, found <- x8, want <- x9

(* One pipe with two bytes of room, counters that wrap after four; a call  *)
(* of up to three bytes fills it and is in the middle when it sleeps.      *)
Pip == INSTANCE Pipe WITH
         pipe <- x1, file <- x2, fds <- x3, call <- x4, jobs <- x5, got <- x6

(* One request and one spare descriptor.  With a page for each buffer a    *)
(* victim still has its old block; with a page less than there are buffers *)
(* it has none and one page is reclaimed.                                  *)
Buf == INSTANCE BufCache WITH
         NBuf <- 2, NDesc <- 4, NPage <- 2, Batch <- 1,
         Proc <- Actor, Block <- Trio, Value <- Couple,
         data <- x1, disk <- x2, free <- x3, info <- x4, avail <- x5, used <- x6, busy <- x7, io <- x8,
         block <- x9, ref <- x10, valid <- x11, active <- x12, inactive <- x13, slk <- x14,
         call <- x15
Tight == INSTANCE BufCache WITH
           NBuf <- 3, NDesc <- 4, NPage <- 2, Batch <- 1,
           Proc <- Actor, Block <- Trio, Value <- Couple,
           data <- x1, disk <- x2, free <- x3, info <- x4, avail <- x5, used <- x6, busy <- x7, io <- x8,
           block <- x9, ref <- x10, valid <- x11, active <- x12, inactive <- x13, slk <- x14,
           call <- x15

(* With nobody beside the end of an inode_put or a rename between          *)
(* directories; and with everybody beside everything, for one inode in two *)
(* slots and for two inodes in one.                                        *)
Ino == INSTANCE InodeCache WITH
         Proc <- Actor, Dir <- Couple, Slot <- 1 .. 2, Inum <- 1 .. 2, Exclusive <- {"rename", "put"},
         slot <- x1, slk <- x2, bitmap <- x3, nlink <- x4, entry <- x5, dlk <- x6, open <- x7,
         call <- x8

Races == INSTANCE InodeCache WITH
           Proc <- Actor, Dir <- {1}, Slot <- 1 .. 2, Inum <- 1 .. 1, Exclusive <- {},
           slot <- x1, slk <- x2, bitmap <- x3, nlink <- x4, entry <- x5, dlk <- x6, open <- x7,
           call <- x8
Reuse == INSTANCE InodeCache WITH
           Proc <- Actor, Dir <- {1}, Slot <- 1 .. 1, Inum <- 1 .. 2, Exclusive <- {},
           slot <- x1, slk <- x2, bitmap <- x3, nlink <- x4, entry <- x5, dlk <- x6, open <- x7,
           call <- x8

(* What the theorems of BufProofs and InodeProofs assume is true here.     *)
ASSUME CacheSizes ==
  /\ Buf!Constants /\ Buf!Enough /\ Tight!Constants /\ Tight!Enough
  /\ Ino!Constants /\ Races!Constants /\ Reuse!Constants

Index == INSTANCE InodeIndex WITH
          Direct <- 1, Single <- 1, PerBlock <- 2, NBlock <- 7, MaxGap <- 0,
          index <- x1, table <- x2, bitmap <- x3, others <- x4, size <- x5

(* Contents; names and links; descriptors of two processes or threads.     *)
Files == INSTANCE MemFs WITH
           Proc <- {1}, Path <- {1}, NFd <- 2, NFile <- 2, NNode <- 2, NExt <- 2, NPage <- 2,
           Inline <- 1, MaxPage <- 3, MaxLink <- 1, Modes <- {{"r", "w"}}, Kinds <- {"name", "data"},
           Orderly <- TRUE, fs <- x1, file <- x2, proc <- x3
Names == INSTANCE MemFs WITH
           Proc <- {1}, Path <- Trio, NFd <- 1, NFile <- 1, NNode <- 3, NExt <- 1, NPage <- 1,
           Inline <- 1, MaxPage <- 2, MaxLink <- 2, Modes <- {{}, {"r"}, {"r", "w"}},
           Kinds <- {"name", "link"}, Orderly <- TRUE, fs <- x1, file <- x2, proc <- x3
Tables == INSTANCE MemFs WITH
            Proc <- Actor, Path <- Couple, NFd <- 2, NFile <- 3, NNode <- 1, NExt <- 1, NPage <- 1,
            Inline <- 1, MaxPage <- 2, MaxLink <- 1, Modes <- {}, Kinds <- {"table", "proc"},
            Orderly <- TRUE, fs <- x1, file <- x2, proc <- x3

(* The LoongArch port: two files in one page of small slots; one file that *)
(* outgrows its slot; names, directories and links; tables; pipes.         *)
LaSmall == INSTANCE LaFiles WITH
             Proc <- {1}, Path <- {<<1>>, <<2>>}, Long <- {}, Hash <- LAMBDA path : 0,
             NFd <- 1, NNode <- 2, NPipe <- 1, NMem <- 2, PgSize <- 2, SmallSize <- 1, NSmall <- 1,
             Ptrs <- 1, NTable <- 1, PipeSize <- 1, Wrap <- 2, MaxLink <- 1,
             Flags <- {{"create"}}, Seek <- {}, MaxLen <- 2, Kinds <- {"name", "data"},
             Orderly <- TRUE, fs <- x1, pipe <- x2, proc <- x3
LaBig == INSTANCE LaFiles WITH
           Proc <- {1}, Path <- {<<1>>}, Long <- {}, Hash <- LAMBDA path : 0,
           NFd <- 1, NNode <- 1, NPipe <- 1, NMem <- 3, PgSize <- 4, SmallSize <- 2, NSmall <- 1,
           Ptrs <- 1, NTable <- 2, PipeSize <- 1, Wrap <- 2, MaxLink <- 1,
           Flags <- {{"w", "create"}, {"create", "append"}, {"w", "trunc"}}, Seek <- {0, 1, 2},
           MaxLen <- 2, Kinds <- {"name", "data"},
           Orderly <- TRUE, fs <- x1, pipe <- x2, proc <- x3
LaNames == INSTANCE LaFiles WITH
             Proc <- {1}, Path <- {<<1>>, <<2>>, <<1, 1>>, <<2, 1>>}, Long <- {<<2>>, <<2, 1>>},
             Hash <- LAMBDA path : Len(path) % 2,
             NFd <- 1, NNode <- 3, NPipe <- 1, NMem <- 2, PgSize <- 1, SmallSize <- 1, NSmall <- 1,
             Ptrs <- 1, NTable <- 1, PipeSize <- 1, Wrap <- 2, MaxLink <- 2,
             Flags <- {{"create"}}, Seek <- {}, MaxLen <- 0, Kinds <- {"name", "link"},
             Orderly <- TRUE, fs <- x1, pipe <- x2, proc <- x3
LaTables == INSTANCE LaFiles WITH
              Proc <- {1, 2}, Path <- {<<1>>}, Long <- {}, Hash <- LAMBDA path : 0,
              NFd <- 2, NNode <- 2, NPipe <- 1, NMem <- 1, PgSize <- 1, SmallSize <- 1, NSmall <- 1,
              Ptrs <- 1, NTable <- 1, PipeSize <- 1, Wrap <- 2, MaxLink <- 1,
              Flags <- {{"create"}}, Seek <- {}, MaxLen <- 0, Kinds <- {"name", "table", "proc"},
              Orderly <- TRUE, fs <- x1, pipe <- x2, proc <- x3
LaPipes == INSTANCE LaFiles WITH
             Proc <- {1, 2}, Path <- {}, Long <- {}, Hash <- LAMBDA path : 0,
             NFd <- 2, NNode <- 1, NPipe <- 1, NMem <- 2, PgSize <- 1, SmallSize <- 1, NSmall <- 1,
             Ptrs <- 1, NTable <- 1, PipeSize <- 1, Wrap <- 2, MaxLink <- 1,
             Flags <- {}, Seek <- {}, MaxLen <- 2, Kinds <- {"pipe", "table", "proc"},
             Orderly <- TRUE, fs <- x1, pipe <- x2, proc <- x3

Foci == {"chan", "life", "pipe", "buf", "tight", "ino", "races", "reuse", "file", "files", "names",
         "tables", "la_small", "la_big", "la_names", "la_tables", "la_pipes"}

None10 == x10 = None /\ x11 = None /\ x12 = None /\ x13 = None /\ x14 = None /\ x15 = None
None9 == x9 = None /\ None10
None7 == x7 = None /\ x8 = None /\ None9
None6 == x6 = None /\ None7
None4 == x4 = None /\ x5 = None /\ None6

Init ==
  /\ focus \in Foci
  /\ \/ focus = "chan" /\ Chan!Init /\ None6
     \/ focus = "life" /\ Life!Init /\ None10
     \/ focus = "pipe" /\ Pip!Init /\ None7
     \/ focus = "buf" /\ Buf!Init
     \/ focus = "tight" /\ Tight!Init
     \/ focus = "ino" /\ Ino!Init /\ None9
     \/ focus = "races" /\ Races!Init /\ None9
     \/ focus = "reuse" /\ Reuse!Init /\ None9
     \/ focus = "file" /\ Index!Init /\ None6
     \/ focus = "files" /\ Files!Init /\ None4
     \/ focus = "names" /\ Names!Init /\ None4
     \/ focus = "tables" /\ Tables!Init /\ None4
     \/ focus = "la_small" /\ LaSmall!Init /\ None4
     \/ focus = "la_big" /\ LaBig!Init /\ None4
     \/ focus = "la_names" /\ LaNames!Init /\ None4
     \/ focus = "la_tables" /\ LaTables!Init /\ None4
     \/ focus = "la_pipes" /\ LaPipes!Init /\ None4

Next ==
  /\ UNCHANGED focus
  /\ \/ focus = "chan" /\ Chan!Next /\ UNCHANGED from6
     \/ focus = "life" /\ Life!Next /\ UNCHANGED from10
     \/ focus = "pipe" /\ Pip!Next /\ UNCHANGED from7
     \/ focus = "buf" /\ Buf!Next
     \/ focus = "tight" /\ Tight!Next
     \/ focus = "ino" /\ Ino!Next /\ UNCHANGED from9
     \/ focus = "races" /\ Races!Next /\ UNCHANGED from9
     \/ focus = "reuse" /\ Reuse!Next /\ UNCHANGED from9
     \/ focus = "file" /\ Index!Next /\ UNCHANGED from6
     \/ focus = "files" /\ Files!Next /\ UNCHANGED from4
     \/ focus = "names" /\ Names!Next /\ UNCHANGED from4
     \/ focus = "tables" /\ Tables!Next /\ UNCHANGED from4
     \/ focus = "la_small" /\ LaSmall!Next /\ UNCHANGED from4
     \/ focus = "la_big" /\ LaBig!Next /\ UNCHANGED from4
     \/ focus = "la_names" /\ LaNames!Next /\ UNCHANGED from4
     \/ focus = "la_tables" /\ LaTables!Next /\ UNCHANGED from4
     \/ focus = "la_pipes" /\ LaPipes!Next /\ UNCHANGED from4

Spec == Init /\ [][Next]_vars

Symmetry == Permutations(Actor) \cup Permutations(Couple) \cup Permutations(Trio)

(* An entry of the inode cache that nobody refers to is filled before any  *)
(* of it is read.                                                          *)
Entries ==
  [s \in DOMAIN x1 |->
     IF x1[s].ref = 0 /\ \A p \in Actor : x8[p].at = "idle" \/ x8[p].slot # s
     THEN None ELSE x1[s]]

(* Of a pipe what can still be read before it is written again: the bytes  *)
(* that are in it while its read end is open, and not what the last call   *)
(* of a process returned.                                                  *)
PipeView ==
  <<[i \in Pip!Slot |->
       IF x1[i].readopen
       THEN <<x1[i].used, x1[i].writeopen, x1[i].nread, Pip!Contents[i]>>
       ELSE <<x1[i].used, x1[i].writeopen>>],
    x2, x3, x4, x5>>

View ==
  CASE focus \in {"ino", "races", "reuse"} -> <<focus, Entries, x2, x3, x4, x5, x6, x7, x8>>
    [] focus = "pipe" -> <<focus, PipeView>>
    [] OTHER -> vars

-----------------------------------------------------------------------------
(* The properties of the components.                                       *)

TypeOK ==
  CASE focus = "chan" -> Chan!TypeOK
    [] focus = "life" -> Life!TypeOK
    [] focus = "pipe" -> Pip!TypeOK
    [] focus = "buf" -> Buf!TypeOK
    [] focus = "tight" -> Tight!TypeOK
    [] focus = "ino" -> Ino!TypeOK
    [] focus = "races" -> Races!TypeOK
    [] focus = "reuse" -> Reuse!TypeOK
    [] focus = "file" -> Index!TypeOK
    [] focus = "files" -> Files!TypeOK
    [] focus = "names" -> Names!TypeOK
    [] focus = "tables" -> Tables!TypeOK
    [] focus = "la_small" -> LaSmall!TypeOK
    [] focus = "la_big" -> LaBig!TypeOK
    [] focus = "la_names" -> LaNames!TypeOK
    [] focus = "la_tables" -> LaTables!TypeOK
    [] focus = "la_pipes" -> LaPipes!TypeOK

HintSound == focus = "chan" => Chan!HintSound
NothingLeftBehind == focus = "chan" => Chan!NothingLeftBehind
FreedOffCpu == focus = "life" => Life!FreedOffCpu
Adopted == focus = "life" => Life!Adopted
CollectedByWait == [][focus = "life" => Life!Collected]_vars
Blocked == focus = "pipe" => Pip!Blocked
PoolExact == focus = "pipe" => Pip!PoolExact
EofHonest == [][focus = "pipe" => Pip!HonestEof]_vars
IsFifo ==
  /\ focus = "pipe" => Pip!Fifo!SInit
  /\ [][focus = "pipe" => Pip!Fifo!SNext \/ UNCHANGED Pip!Fifo!svars]_vars
OneBuffer ==
  /\ focus = "buf" => Buf!OneBuffer
  /\ focus = "tight" => Tight!OneBuffer
NothingStuck ==
  /\ focus = "buf" => Buf!NothingStuck
  /\ focus = "tight" => Tight!NothingStuck
  /\ focus = "la_pipes" => LaPipes!NothingStuck
IsStore ==
  /\ focus = "buf" => Buf!Store!Init
  /\ focus = "tight" => Tight!Store!Init
  /\ [][/\ focus = "buf" => Buf!Store!Next \/ UNCHANGED Buf!Store!vars
        /\ focus = "tight" => Tight!Store!Next \/ UNCHANGED Tight!Store!vars]_vars
InodesSound == focus = "ino" => Ino!InodesSound
SlotsSound ==
  /\ focus = "ino" => Ino!SlotsSound
  /\ focus = "races" => Races!SlotsSound
  /\ focus = "reuse" => Reuse!SlotsSound
BlocksExact == focus = "file" => Index!BlocksExact
RefsExact ==
  /\ focus = "pipe" => Pip!RefsExact
  /\ focus = "files" => Files!RefsExact
  /\ focus = "names" => Names!RefsExact
  /\ focus = "tables" => Tables!RefsExact
  /\ focus = "la_small" => LaSmall!RefsExact
  /\ focus = "la_big" => LaBig!RefsExact
  /\ focus = "la_names" => LaNames!RefsExact
  /\ focus = "la_tables" => LaTables!RefsExact
  /\ focus = "la_pipes" => LaPipes!RefsExact
FilesSound ==
  /\ focus = "files" => Files!FilesSound
  /\ focus = "names" => Names!FilesSound
  /\ focus = "tables" => Tables!FilesSound
  /\ focus = "la_small" => LaSmall!FilesSound
  /\ focus = "la_big" => LaBig!FilesSound
  /\ focus = "la_names" => LaNames!FilesSound
  /\ focus = "la_tables" => LaTables!FilesSound
  /\ focus = "la_pipes" => LaPipes!FilesSound
=============================================================================
