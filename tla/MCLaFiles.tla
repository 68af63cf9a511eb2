----------------------------- MODULE MCLaFiles -----------------------------
(***************************************************************************)
(* LaFiles for TLC: two files in one page with two small slots, written    *)
(* one after the other and never at an offset of somebody's choice.        *)
(***************************************************************************)
EXTENDS LaFiles

MCPath == {<<1>>, <<2>>}
MCHash(path) == 0
MCFlags == {{"w", "create"}, {"w", "trunc"}}

Spec == Init /\ [][Next]_vars
=============================================================================
