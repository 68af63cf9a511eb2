----------------------------- MODULE HintTable -----------------------------
(***************************************************************************)
(* The table of sleep channels of proc/proc.c (sleepchan_hints), which     *)
(* lets a wakeup skip its scan of all processes when nobody sleeps on the  *)
(* channel.                                                                *)
(*                                                                         *)
(* The table is open addressed with linear probing: a slot holds a channel *)
(* and a count, and sleepers that find no slot are counted in a single     *)
(* overflow counter for all channels.  A deletion leaves no tombstone, so  *)
(* a channel may come to own two slots.  Every operation runs under        *)
(* sleepchan_lk, so it is one step.                                        *)
(***************************************************************************)
EXTENDS Integers

CONSTANTS
  Chan,   \* the channels: addresses processes sleep on
  None,   \* no channel, no process
  Slots,  \* SLEEPCHAN_HINT_SLOTS
  Hash    \* sleepchan_hash

ASSUME HintAssumption ==
  /\ None \notin Chan
  /\ Slots \in Nat \ {0}
  /\ Hash \in [Chan -> 0 .. Slots - 1]

VARIABLES
  slot,     \* sleepchan_hints
  overflow  \* sleepchan_overflow

HintInit ==
  /\ slot = [i \in 0 .. Slots - 1 |-> [chan |-> None, count |-> 0]]
  /\ overflow = 0

(* A slot is in use exactly when it has a channel.                         *)
HintTypeOK ==
  /\ slot \in [0 .. Slots - 1 -> [chan : Chan \cup {None}, count : Nat]]
  /\ \A i \in DOMAIN slot : slot[i].chan = None <=> slot[i].count = 0
  /\ overflow \in Nat

(* How far a probe for k goes before it visits slot i.                     *)
Distance(k, i) == (i + Slots - Hash[k]) % Slots

(* The slot of a set that a probe for k visits first.                      *)
FirstOf(k, S) ==
  CHOOSE i \in S : \A j \in S : Distance(k, i) <= Distance(k, j)

(* The slots that hold k, and those a sleeper on k may be counted in.      *)
Owned(k) == {i \in DOMAIN slot : slot[i].chan = k}
Usable(k) == {i \in DOMAIN slot : slot[i].chan \in {k, None}}

(* Variant: a sleeper that finds no slot is not counted anywhere.          *)
IncNoOverflow(k) ==
  /\ slot' = IF Usable(k) = {} THEN slot
             ELSE [slot EXCEPT ![FirstOf(k, Usable(k))] =
                     [chan |-> k, count |-> @.count + 1]]
  /\ UNCHANGED overflow

(* sleepchan_inc.                                                          *)
Inc(k) ==
  \/ /\ Usable(k) # {}
     /\ slot' = [slot EXCEPT ![FirstOf(k, Usable(k))] =
                   [chan |-> k, count |-> @.count + 1]]
     /\ UNCHANGED overflow
  \/ /\ Usable(k) = {}
     /\ overflow' = overflow + 1
     /\ UNCHANGED slot

(* Variant: a slot whose last sleeper is gone keeps its channel.           *)
UncountedKeeps(s) == IF s.count > 0 THEN [s EXCEPT !.count = @ - 1] ELSE s

Uncounted(s) ==
  IF s.count > 1 THEN [s EXCEPT !.count = @ - 1] ELSE [chan |-> None, count |-> 0]

(* Variant: only the home slot is looked at.                               *)
DecHome(k) ==
  \/ /\ Hash[k] \in Owned(k)
     /\ slot' = [slot EXCEPT ![Hash[k]] = Uncounted(@)]
     /\ UNCHANGED overflow
  \/ /\ Hash[k] \notin Owned(k)
     /\ overflow' = IF overflow > 0 THEN overflow - 1 ELSE 0
     /\ UNCHANGED slot

(* sleepchan_dec.                                                          *)
Dec(k) ==
  \/ /\ Owned(k) # {}
     /\ slot' = [slot EXCEPT ![FirstOf(k, Owned(k))] = Uncounted(@)]
     /\ UNCHANGED overflow
  \/ /\ Owned(k) = {}
     /\ overflow' = IF overflow > 0 THEN overflow - 1 ELSE 0
     /\ UNCHANGED slot

(* sleepchan_has_waiter.                                                   *)
HasWaiter(k) == (\E i \in Owned(k) : slot[i].count > 0) \/ overflow > 0
=============================================================================
