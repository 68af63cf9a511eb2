---------------------------- MODULE MCSleepLock ----------------------------
(***************************************************************************)
(* Small instances of SleepLock for TLC: the locks collide in the table.   *)
(***************************************************************************)
EXTENDS SleepLock

MCHash == [k \in Lock |-> 0]
=============================================================================
