----------------------------- MODULE PipeSizes -----------------------------
(***************************************************************************)
(* The sizes of Pipe, and what is assumed of them.                         *)
(***************************************************************************)
EXTENDS Integers, FiniteSets

CONSTANTS
  Task,    \* single-threaded processes, N_PROC of them
  NPipe,   \* N_PIPE
  NFile,   \* N_FILE
  Cap,     \* PIPE_SIZE
  Width,   \* the counters of a pipe are uint32: 2^32
  Byte,    \* the bytes that are sent
  MaxLen,  \* bound: bytes asked for in one call
  None     \* no pipe, no file

Slot == 0 .. NPipe - 1
File == 0 .. NFile - 1

ASSUME PipeAssumption ==
  /\ IsFiniteSet(Task)
  /\ NPipe \in Nat /\ NFile \in Nat /\ MaxLen \in Nat
  /\ Cap \in Nat \ {0}
  /\ Width \in Nat /\ Width > Cap /\ Width % Cap = 0
  /\ None \notin Slot \cup File
=============================================================================
