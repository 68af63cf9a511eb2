-------------------------- MODULE HintTableProofs --------------------------
(***************************************************************************)
(* Why the hint table never hides a sleeper, for any channels, slots and   *)
(* hash.  The counts of the table are tickets: the place a sleeper was     *)
(* counted in may change hands when a channel owns two slots, but there is *)
(* always a way to give every sleeper a ticket of its own in a place that  *)
(* its channel's wakeup looks at.                                          *)
(***************************************************************************)
EXTENDS HintTable, WellFoundedInduction, TLAPS

(* Where sleepers are counted: the slots, and the overflow counter.        *)
Over == -1
Spot == {Over} \cup 0 .. Slots - 1
Rooms(s, o) == [h \in Spot |-> IF h = Over THEN o ELSE s[h].count]
Chans(s) == [h \in Spot |-> IF h = Over THEN None ELSE s[h].chan]

(* A sleeper on k may be counted in place h.                               *)
Fits(chan, h, k) == h = Over \/ chan[h] = k

(* Sleeper p has ticket no[p] of place home[p]; no ticket is given twice.  *)
Held(room, chan, on, home, no) ==
  /\ \A p \in DOMAIN on : on[p] # None =>
       /\ home[p] \in Spot
       /\ Fits(chan, home[p], on[p])
       /\ no[p] \in 1 .. room[home[p]]
  /\ \A p, q \in DOMAIN on :
       (p # q /\ on[p] # None /\ on[q] # None) => home[p] # home[q] \/ no[p] # no[q]

(* Every ticket is held by a sleeper.                                      *)
Full(room, on, home, no) ==
  \A h \in Spot : \A n \in 1 .. room[h] :
     \E p \in DOMAIN on : on[p] # None /\ home[p] = h /\ no[p] = n

(* The tickets can be dealt, and, if exact, none is left.                  *)
Dealt(room, chan, on, exact) ==
  \E home, no \in [DOMAIN on -> Int] :
     /\ Held(room, chan, on, home, no)
     /\ exact => Full(room, on, home, no)

Covered(s, o, on, exact) == Dealt(Rooms(s, o), Chans(s), on, exact)

-----------------------------------------------------------------------------
(* A set of numbers that is not empty has a least one.                     *)
LEMMA Least ==
  ASSUME NEW T \in SUBSET Nat, T # {}
  PROVE  \E x \in T : \A y \in T : x <= y
<1>1. PICK x \in T : \A y \in T : ~(<<y, x>> \in OpToRel(<, Nat))
  BY NatLessThanWellFounded, WFMin, Zenon
<1>2. \A y \in Nat : y < x => <<y, x>> \in OpToRel(<, Nat)
  BY DEF OpToRel
<1>3. \A y \in T : ~(y < x)
  BY <1>1, <1>2
<1> QED BY <1>3

(* A probe ends: there is a first slot among any that it could visit.      *)
LEMMA FirstIn ==
  ASSUME NEW k \in Chan, NEW S \in SUBSET (0 .. Slots - 1), S # {}
  PROVE  FirstOf(k, S) \in S
<1> DEFINE T == {Distance(k, i) : i \in S}
<1>1. \A i \in S : Distance(k, i) \in Nat
  BY HintAssumption DEF Distance
<1>2. T \in SUBSET Nat /\ T # {}
  BY <1>1
<1>3. PICK x \in T : \A y \in T : x <= y
  BY <1>2, Least
<1>4. \E i \in S : \A j \in S : Distance(k, i) <= Distance(k, j)
  BY <1>3
<1> QED BY <1>4, Zenon DEF FirstOf
-----------------------------------------------------------------------------
(* Dealing tickets.                                                        *)

(* One more sleeper takes the ticket that is added to a place.             *)
LEMMA NewTicket ==
  ASSUME NEW P, NEW on, NEW room, NEW chan, NEW chan2, NEW exact,
         DOMAIN on = P, room \in [Spot -> Nat], Dealt(room, chan, on, exact),
         NEW p \in P, on[p] = None, NEW k, k # None, NEW h \in Spot,
         Fits(chan2, h, k),
         \A g \in Spot : room[g] > 0 => chan2[g] = chan[g]
  PROVE  Dealt([room EXCEPT ![h] = @ + 1], chan2, [on EXCEPT ![p] = k], exact)
<1>1. PICK home, no \in [P -> Int] :
        Held(room, chan, on, home, no) /\ (exact => Full(room, on, home, no))
  BY DEF Dealt
<1> DEFINE home2 == [home EXCEPT ![p] = h]
           no2 == [no EXCEPT ![p] = room[h] + 1]
           on2 == [on EXCEPT ![p] = k]
           room2 == [room EXCEPT ![h] = @ + 1]
<1>2. h \in Int /\ room[h] \in Nat
  BY HintAssumption DEF Spot, Over
<1>3. home2 \in [P -> Int] /\ no2 \in [P -> Int] /\ DOMAIN on2 = P
  BY <1>2
<1>4. /\ home2[p] = h /\ no2[p] = room[h] + 1 /\ on2[p] = k
      /\ \A q \in P : q # p => home2[q] = home[q] /\ no2[q] = no[q] /\ on2[q] = on[q]
  BY <1>2
<1>5. /\ room2[h] = room[h] + 1
      /\ \A g \in Spot : g # h => room2[g] = room[g]
      /\ \A g \in Spot : room[g] <= room2[g]
  BY <1>2
<1> HIDE DEF home2, no2, on2, room2
<1>6. \A q \in P : q # p /\ on[q] # None =>
        /\ home[q] \in Spot
        /\ Fits(chan2, home[q], on[q])
        /\ no[q] \in 1 .. room[home[q]]
  BY <1>1 DEF Held, Fits
<1>7. Held(room2, chan2, on2, home2, no2)
  <2>1. \A q \in P : on2[q] # None =>
          /\ home2[q] \in Spot
          /\ Fits(chan2, home2[q], on2[q])
          /\ no2[q] \in 1 .. room2[home2[q]]
    BY <1>2, <1>4, <1>5, <1>6
  <2>2. \A q, r \in P : (q # r /\ on2[q] # None /\ on2[r] # None)
                           => home2[q] # home2[r] \/ no2[q] # no2[r]
    BY <1>1, <1>2, <1>4, <1>6 DEF Held
  <2> QED BY <1>3, <2>1, <2>2 DEF Held
<1>8. ASSUME exact PROVE Full(room2, on2, home2, no2)
  <2> SUFFICES ASSUME NEW g \in Spot, NEW n \in 1 .. room2[g]
               PROVE  \E q \in P : on2[q] # None /\ home2[q] = g /\ no2[q] = n
    BY <1>3 DEF Full
  <2>1. CASE n \in 1 .. room[g]
    <3>1. PICK q \in P : on[q] # None /\ home[q] = g /\ no[q] = n
      BY <1>1, <1>8, <2>1 DEF Full
    <3> QED BY <1>4, <3>1
  <2>2. CASE n \notin 1 .. room[g]
    <3>1. g = h /\ n = room[h] + 1
      BY <1>2, <1>5, <2>2
    <3> QED BY <1>4, <3>1
  <2> QED BY <2>1, <2>2
<1> QED BY <1>3, <1>7, <1>8 DEF Dealt, on2, room2

(* Spot h is one a sleeper on k could be counted in, and can lose a        *)
(* ticket: its channel may change only with the last one.                  *)
Loses(room, chan, chan2, h, k) ==
  /\ Fits(chan, h, k)
  /\ h # Over => room[h] > 0
  /\ h = Over => \A g \in Spot : Fits(chan, g, k) => g = Over
  /\ \A g \in Spot : room[g] > (IF g = h THEN 1 ELSE 0) => chan2[g] = chan[g]

(* A sleeper leaves, and the last ticket of a place its channel could use  *)
(* is taken away: whoever held it takes the ticket of the one who left.    *)
LEMMA GiveUp ==
  ASSUME NEW P, NEW on, NEW room, NEW chan, NEW chan2, NEW exact,
         DOMAIN on = P, room \in [Spot -> Nat], Dealt(room, chan, on, exact),
         NEW p \in P, on[p] # None, NEW h \in Spot,
         Loses(room, chan, chan2, h, on[p])
  PROVE  /\ room[h] > 0
         /\ Dealt([room EXCEPT ![h] = @ - 1], chan2, [on EXCEPT ![p] = None], exact)
<1>1. PICK home, no \in [P -> Int] :
        Held(room, chan, on, home, no) /\ (exact => Full(room, on, home, no))
  BY DEF Dealt
<1>2. h \in Int /\ \A g \in Spot : room[g] \in Nat
  BY HintAssumption DEF Spot, Over
<1>3. /\ \A q \in P : on[q] # None => /\ home[q] \in Spot
                                       /\ Fits(chan, home[q], on[q])
                                       /\ no[q] \in 1 .. room[home[q]]
      /\ \A q, r \in P : (q # r /\ on[q] # None /\ on[r] # None)
                           => home[q] # home[r] \/ no[q] # no[r]
  BY <1>1 DEF Held
<1>4. room[h] > 0
  BY <1>2, <1>3 DEF Loses
<1>5. PICK q \in P :
        /\ on[q] # None
        /\ \/ home[q] = h /\ no[q] = room[h]
           \/ /\ q = p /\ ~exact
              /\ \A r \in P : on[r] # None => home[r] # h \/ no[r] # room[h]
  <2>1. exact => \E r \in P : on[r] # None /\ home[r] = h /\ no[r] = room[h]
    BY <1>1, <1>2, <1>4 DEF Full
  <2> QED BY <2>1
<1> DEFINE home2 == [home EXCEPT ![q] = home[p]]
           no2 == [no EXCEPT ![q] = no[p]]
           on2 == [on EXCEPT ![p] = None]
           room2 == [room EXCEPT ![h] = @ - 1]
<1>6. home2 \in [P -> Int] /\ no2 \in [P -> Int] /\ DOMAIN on2 = P
  OBVIOUS
<1>7. /\ home2[q] = home[p] /\ no2[q] = no[p]
      /\ \A r \in P : r # q => home2[r] = home[r] /\ no2[r] = no[r]
      /\ on2[p] = None /\ \A r \in P : r # p => on2[r] = on[r]
  OBVIOUS
<1>8. room2[h] = room[h] - 1 /\ \A g \in Spot : g # h => room2[g] = room[g]
  OBVIOUS
<1> HIDE DEF home2, no2, on2, room2
<1>9. \A r \in P : on2[r] # None =>
        /\ home2[r] \in Spot
        /\ Fits(chan, home2[r], on2[r])
        /\ no2[r] \in 1 .. room2[home2[r]]
  <2> SUFFICES ASSUME NEW r \in P, on2[r] # None
               PROVE  /\ home2[r] \in Spot
                      /\ Fits(chan, home2[r], on2[r])
                      /\ no2[r] \in 1 .. room2[home2[r]]
    OBVIOUS
  <2>1. r # p /\ on2[r] = on[r]
    BY <1>7
  <2>2. CASE r # q
    <3>1. home2[r] = home[r] /\ no2[r] = no[r]
      BY <1>7, <2>2
    <3>2. home[r] # h \/ no[r] # room[h]
      BY <1>3, <1>5, <2>1, <2>2
    <3>3. no[r] \in 1 .. room2[home[r]]
      BY <1>2, <1>3, <1>8, <2>1, <3>2
    <3> QED BY <1>3, <2>1, <3>1, <3>3
  <2>3. CASE r = q
    <3>1. home2[r] = home[p] /\ no2[r] = no[p] /\ home[r] = h /\ no[r] = room[h]
      BY <1>5, <1>7, <2>1, <2>3
    <3>2. home[p] # h \/ no[p] # room[h]
      BY <1>3, <2>1, <3>1
    <3>3. no[p] \in 1 .. room2[home[p]]
      BY <1>2, <1>3, <1>8, <3>2
    <3>4. Fits(chan, home[p], on[r])
      BY <1>3, <2>1, <3>1 DEF Fits, Loses
    <3> QED BY <1>3, <2>1, <3>1, <3>3, <3>4
  <2> QED BY <2>2, <2>3
<1>10. \A r \in P : on2[r] # None => Fits(chan2, home2[r], on2[r])
  <2> SUFFICES ASSUME NEW r \in P, on2[r] # None PROVE Fits(chan2, home2[r], on2[r])
    OBVIOUS
  <2> DEFINE g == home2[r]
  <2>1. g \in Spot /\ no2[r] \in 1 .. room2[g] /\ Fits(chan, g, on2[r])
    BY <1>9
  <2> HIDE DEF g
  <2>2. room[g] > (IF g = h THEN 1 ELSE 0)
    BY <1>2, <1>8, <2>1
  <2>3. chan2[g] = chan[g]
    BY <2>1, <2>2 DEF Loses
  <2> QED BY <2>1, <2>3 DEF Fits, g
<1>11. \A r, t \in P : (r # t /\ on2[r] # None /\ on2[t] # None)
                         => home2[r] # home2[t] \/ no2[r] # no2[t]
  BY <1>3, <1>7
<1>12. Held(room2, chan2, on2, home2, no2)
  BY <1>6, <1>9, <1>10, <1>11 DEF Held
<1>13. ASSUME exact PROVE Full(room2, on2, home2, no2)
  <2> SUFFICES ASSUME NEW g \in Spot, NEW n \in 1 .. room2[g]
               PROVE  \E r \in P : on2[r] # None /\ home2[r] = g /\ no2[r] = n
    BY <1>6 DEF Full
  <2>1. n \in 1 .. room[g] /\ (g # h \/ n # room[h])
    BY <1>2, <1>8
  <2>2. PICK r \in P : on[r] # None /\ home[r] = g /\ no[r] = n
    BY <1>1, <1>13, <2>1 DEF Full
  <2>3. home[q] = h /\ no[q] = room[h] /\ r # q
    BY <1>5, <1>13, <2>1, <2>2
  <2>4. CASE r # p
    BY <1>7, <2>2, <2>3, <2>4
  <2>5. CASE r = p
    BY <1>5, <1>7, <2>2, <2>3, <2>5
  <2> QED BY <2>4, <2>5
<1> QED BY <1>4, <1>6, <1>12, <1>13 DEF Dealt, on2, room2

(* A sleeper is gone, and its ticket with it: some ticket is nobody's.     *)
LEMMA Forget ==
  ASSUME NEW P, NEW on, NEW room, NEW chan, NEW exact, DOMAIN on = P,
         Dealt(room, chan, on, exact), NEW p \in P
  PROVE  Dealt(room, chan, [on EXCEPT ![p] = None], FALSE)
<1>1. PICK home, no \in [P -> Int] : Held(room, chan, on, home, no)
  BY DEF Dealt
<1> DEFINE on2 == [on EXCEPT ![p] = None]
<1>2. DOMAIN on2 = P /\ \A q \in P : on2[q] # None => on2[q] = on[q]
  OBVIOUS
<1> HIDE DEF on2
<1>3. Held(room, chan, on2, home, no)
  BY <1>1, <1>2 DEF Held
<1> QED BY <1>2, <1>3 DEF Dealt, on2
-----------------------------------------------------------------------------
(* The operations of the table.                                            *)

(* Counting and uncounting a sleeper keeps the types of the table.         *)
LEMMA HintTypes ==
  ASSUME HintTypeOK, NEW k \in Chan, Inc(k) \/ Dec(k)
  PROVE  HintTypeOK'
<1>1. CASE Inc(k)
  <2>1. CASE Usable(k) # {}
    <3> DEFINE i == FirstOf(k, Usable(k))
    <3>1. slot' = [slot EXCEPT ![i] = [chan |-> k, count |-> @.count + 1]]
          /\ overflow' = overflow
      BY <1>1, <2>1 DEF Inc
    <3> HIDE DEF i
    <3>2. CASE i \in 0 .. Slots - 1
      <4>1. [chan |-> k, count |-> slot[i].count + 1]
              \in [chan : Chan \cup {None}, count : Nat]
        BY <3>2 DEF HintTypeOK
      <4>2. slot' \in [0 .. Slots - 1 -> [chan : Chan \cup {None}, count : Nat]]
        BY <3>1, <3>2, <4>1 DEF HintTypeOK
      <4>3. k # None /\ slot[i].count + 1 # 0
        BY <3>2, HintAssumption DEF HintTypeOK
      <4>4. slot'[i].chan = k /\ slot'[i].count = slot[i].count + 1
        BY <3>1, <3>2 DEF HintTypeOK
      <4>5. \A j \in DOMAIN slot : j # i => slot'[j] = slot[j]
        BY <3>1
      <4>6. DOMAIN slot' = DOMAIN slot
        BY <3>1
      <4>7. (\A j \in DOMAIN slot : slot[j].chan = None <=> slot[j].count = 0)'
        BY <4>3, <4>4, <4>5, <4>6 DEF HintTypeOK
      <4> QED BY <3>1, <4>2, <4>7 DEF HintTypeOK
    <3>3. CASE i \notin 0 .. Slots - 1
      <4>1. slot' = slot
        BY <3>1, <3>3 DEF HintTypeOK
      <4> QED BY <3>1, <4>1 DEF HintTypeOK
    <3> QED BY <3>2, <3>3
  <2>2. CASE Usable(k) = {}
    BY <1>1, <2>2 DEF Inc, HintTypeOK
  <2> QED BY <2>1, <2>2
<1>2. CASE Dec(k)
  <2>1. \A s \in [chan : Chan \cup {None}, count : Nat] :
          (s.chan = None <=> s.count = 0) =>
             /\ Uncounted(s) \in [chan : Chan \cup {None}, count : Nat]
             /\ Uncounted(s).chan = None <=> Uncounted(s).count = 0
    BY DEF Uncounted
  <2>2. CASE Owned(k) # {}
    <3> DEFINE i == FirstOf(k, Owned(k))
    <3>1. slot' = [slot EXCEPT ![i] = Uncounted(@)] /\ overflow' = overflow
      BY <1>2, <2>2 DEF Dec
    <3> HIDE DEF i
    <3>2. DOMAIN slot' = DOMAIN slot
      BY <3>1
    <3>3. \A j \in DOMAIN slot : slot'[j] = slot[j] \/ slot'[j] = Uncounted(slot[j])
      BY <3>1
    <3>4. \A j \in DOMAIN slot :
             /\ slot'[j] \in [chan : Chan \cup {None}, count : Nat]
             /\ slot'[j].chan = None <=> slot'[j].count = 0
      BY <2>1, <3>3 DEF HintTypeOK
    <3>5. slot' = [j \in 0 .. Slots - 1 |-> slot'[j]]
      BY <3>1 DEF HintTypeOK
    <3> QED BY <3>1, <3>2, <3>4, <3>5 DEF HintTypeOK
  <2>3. CASE Owned(k) = {}
    BY <1>2, <2>3 DEF Dec, HintTypeOK
  <2> QED BY <2>2, <2>3
<1> QED BY <1>1, <1>2

(* An operation that does not touch the table keeps its types.             *)
LEMMA HintFrame ==
  ASSUME HintTypeOK, UNCHANGED <<slot, overflow>>
  PROVE  HintTypeOK'
BY DEF HintTypeOK

(* Nobody sleeps at the start.                                             *)
LEMMA CoveredInit ==
  ASSUME HintInit, NEW P, NEW on, DOMAIN on = P, \A p \in P : on[p] = None
  PROVE  Covered(slot, overflow, on, TRUE)
<1> DEFINE zero == [p \in P |-> 0]
           room == Rooms(slot, overflow)
<1>1. \A h \in Spot : room[h] = 0
  BY DEF HintInit, Rooms, Spot, Over
<1> HIDE DEF room
<1>2. Held(room, Chans(slot), on, zero, zero) /\ Full(room, on, zero, zero)
  BY <1>1 DEF Held, Full
<1>3. zero \in [P -> Int]
  OBVIOUS
<1> HIDE DEF zero
<1> QED BY <1>2, <1>3 DEF Covered, Dealt, room

(* What the table looks like to the lemmas about tickets.                  *)
LEMMA RoomTypes ==
  ASSUME HintTypeOK
  PROVE  /\ Rooms(slot, overflow) \in [Spot -> Nat]
         /\ Over \notin DOMAIN slot /\ DOMAIN slot = 0 .. Slots - 1
         /\ \A h \in DOMAIN slot : /\ Rooms(slot, overflow)[h] = slot[h].count
                                   /\ Chans(slot)[h] = slot[h].chan
                                   /\ slot[h].chan # None => slot[h].count > 0
         /\ Rooms(slot, overflow)[Over] = overflow /\ Chans(slot)[Over] = None
BY HintAssumption DEF HintTypeOK, Rooms, Chans, Spot, Over

(* The same, place by place.                                               *)
LEMMA SpotAt ==
  ASSUME NEW s, NEW o, NEW h \in Spot
  PROVE  /\ Rooms(s, o)[h] = IF h = Over THEN o ELSE s[h].count
         /\ Chans(s)[h] = IF h = Over THEN None ELSE s[h].chan
BY DEF Rooms, Chans

(* sleepchan_inc gives the sleeper a ticket of its own.                    *)
LEMMA IncCovers ==
  ASSUME HintTypeOK, NEW k \in Chan, Inc(k), NEW on, NEW exact,
         Covered(slot, overflow, on, exact), NEW p \in DOMAIN on, on[p] = None
  PROVE  Covered(slot', overflow', [on EXCEPT ![p] = k], exact)
<1> DEFINE room == Rooms(slot, overflow)
           chan == Chans(slot)
<1>1. PICK h \in Spot :
        /\ Rooms(slot', overflow') = [room EXCEPT ![h] = @ + 1]
        /\ Fits(Chans(slot'), h, k)
        /\ \A g \in Spot : room[g] > 0 => Chans(slot')[g] = chan[g]
  <2>1. CASE Usable(k) # {}
    <3> DEFINE i == FirstOf(k, Usable(k))
    <3>1. Usable(k) \in SUBSET (0 .. Slots - 1)
      BY RoomTypes DEF Usable
    <3>2. i \in Usable(k)
      BY <2>1, <3>1, FirstIn
    <3>3. slot' = [slot EXCEPT ![i] = [chan |-> k, count |-> @.count + 1]]
          /\ overflow' = overflow
      BY <2>1 DEF Inc
    <3> HIDE DEF i
    <3>4. i \in DOMAIN slot /\ slot[i].chan \in {k, None}
      BY <3>2 DEF Usable
    <3>5. /\ slot'[i] = [chan |-> k, count |-> slot[i].count + 1]
          /\ \A j \in DOMAIN slot : j # i => slot'[j] = slot[j]
          /\ i # Over /\ i \in Spot
      BY <3>3, <3>4, RoomTypes DEF Spot
    <3>6. Rooms(slot', overflow') = [room EXCEPT ![i] = @ + 1]
      BY <3>3, <3>5, RoomTypes DEF Rooms, Spot
    <3>7. Fits(Chans(slot'), i, k)
      BY <3>5 DEF Fits, Chans
    <3>8. \A g \in Spot : room[g] > 0 => Chans(slot')[g] = chan[g]
      <4> SUFFICES ASSUME NEW g \in Spot, room[g] > 0 PROVE Chans(slot')[g] = chan[g]
        OBVIOUS
      <4>1. /\ room[g] = IF g = Over THEN overflow ELSE slot[g].count
            /\ chan[g] = IF g = Over THEN None ELSE slot[g].chan
            /\ Chans(slot')[g] = IF g = Over THEN None ELSE slot'[g].chan
        BY SpotAt
      <4> HIDE DEF room, chan
      <4>2. CASE g = i
        BY <3>4, <3>5, <4>1, <4>2 DEF HintTypeOK
      <4>3. CASE g # i
        BY <3>5, <4>1, <4>3, RoomTypes DEF Spot
      <4> QED BY <4>2, <4>3
    <3> QED BY <3>5, <3>6, <3>7, <3>8
  <2>2. CASE Usable(k) = {}
    <3>1. slot' = slot /\ overflow' = overflow + 1
      BY <2>2 DEF Inc
    <3>2. Rooms(slot', overflow') = [room EXCEPT ![Over] = @ + 1] /\ Over \in Spot
      BY <3>1, RoomTypes DEF Rooms, Spot
    <3> QED BY <3>1, <3>2 DEF Fits
  <2> QED BY <2>1, <2>2
<1>2. k # None /\ room \in [Spot -> Nat]
  BY HintAssumption, RoomTypes
<1> HIDE DEF room, chan
<1>3. Dealt(room, chan, on, exact)
  BY DEF Covered, room, chan
<1>4. Dealt([room EXCEPT ![h] = @ + 1], Chans(slot'), [on EXCEPT ![p] = k], exact)
  BY <1>1, <1>2, <1>3, NewTicket
<1> QED BY <1>1, <1>4 DEF Covered

(* sleepchan_dec: a ticket of the channel is taken away, and every other   *)
(* sleeper still has one.                                                  *)
LEMMA DecCovers ==
  ASSUME HintTypeOK, NEW k \in Chan, Dec(k), NEW on, NEW exact,
         Covered(slot, overflow, on, exact), NEW p \in DOMAIN on, on[p] = k
  PROVE  Covered(slot', overflow', [on EXCEPT ![p] = None], exact)
<1> DEFINE room == Rooms(slot, overflow)
           chan == Chans(slot)
<1>1. PICK h \in Spot :
        /\ room[h] > 0 => Rooms(slot', overflow') = [room EXCEPT ![h] = @ - 1]
        /\ Loses(room, chan, Chans(slot'), h, k)
  <2>1. CASE Owned(k) # {}
    <3> DEFINE i == FirstOf(k, Owned(k))
    <3>1. Owned(k) \in SUBSET (0 .. Slots - 1)
      BY RoomTypes DEF Owned
    <3>2. i \in Owned(k)
      BY <2>1, <3>1, FirstIn
    <3>3. slot' = [slot EXCEPT ![i] = Uncounted(@)] /\ overflow' = overflow
      BY <2>1 DEF Dec
    <3> HIDE DEF i
    <3>4. i \in DOMAIN slot /\ slot[i].chan = k /\ slot[i].chan # None
      BY <3>2, HintAssumption DEF Owned
    <3>5. slot[i].count \in Nat /\ slot[i].count > 0
      BY <3>4, RoomTypes DEF HintTypeOK
    <3>6. /\ slot'[i] = Uncounted(slot[i])
          /\ \A j \in DOMAIN slot : j # i => slot'[j] = slot[j]
          /\ i # Over /\ i \in Spot
      BY <3>3, <3>4, RoomTypes DEF Spot
    <3>7. /\ slot'[i].count = slot[i].count - 1
          /\ slot[i].count > 1 => slot'[i].chan = slot[i].chan
      BY <3>4, <3>5, <3>6 DEF Uncounted, HintTypeOK
    <3>8. Rooms(slot', overflow') = [room EXCEPT ![i] = @ - 1]
      BY <3>3, <3>6, <3>7, RoomTypes DEF Rooms, Spot
    <3>9. Fits(chan, i, k) /\ room[i] > 0
      BY <3>4, <3>5, <3>6, SpotAt DEF Fits
    <3>10. \A g \in Spot : room[g] > (IF g = i THEN 1 ELSE 0)
                            => Chans(slot')[g] = chan[g]
      <4> SUFFICES ASSUME NEW g \in Spot, room[g] > (IF g = i THEN 1 ELSE 0)
                   PROVE  Chans(slot')[g] = chan[g]
        OBVIOUS
      <4>1. /\ room[g] = IF g = Over THEN overflow ELSE slot[g].count
            /\ chan[g] = IF g = Over THEN None ELSE slot[g].chan
            /\ Chans(slot')[g] = IF g = Over THEN None ELSE slot'[g].chan
        BY SpotAt
      <4> HIDE DEF room, chan
      <4>2. CASE g = i
        BY <3>6, <3>7, <4>1, <4>2
      <4>3. CASE g # i
        BY <3>6, <4>1, <4>3, RoomTypes DEF Spot
      <4> QED BY <4>2, <4>3
    <3> QED BY <3>6, <3>8, <3>9, <3>10 DEF Loses
  <2>2. CASE Owned(k) = {}
    <3>1. slot' = slot /\ overflow' = IF overflow > 0 THEN overflow - 1 ELSE 0
      BY <2>2 DEF Dec
    <3>2. Over \in Spot /\ room[Over] = overflow
      BY RoomTypes DEF Spot
    <3>3. overflow > 0 => Rooms(slot', overflow') = [room EXCEPT ![Over] = @ - 1]
      BY <3>1, <3>2, RoomTypes DEF Rooms, Spot
    <3>4. \A g \in Spot : Fits(chan, g, k) => g = Over
      BY <2>2, RoomTypes DEF Fits, Owned, Spot
    <3>5. Chans(slot') = chan
      BY <3>1
    <3> HIDE DEF room, chan
    <3> QED BY <3>2, <3>3, <3>4, <3>5 DEF Fits, Loses
  <2> QED BY <2>1, <2>2
<1>2. on[p] # None /\ room \in [Spot -> Nat]
  BY HintAssumption, RoomTypes
<1> HIDE DEF room, chan
<1>3. Dealt(room, chan, on, exact)
  BY DEF Covered, room, chan
<1>4. /\ room[h] > 0
      /\ Dealt([room EXCEPT ![h] = @ - 1], Chans(slot'), [on EXCEPT ![p] = None], exact)
  BY <1>1, <1>2, <1>3, GiveUp
<1> QED BY <1>1, <1>4 DEF Covered

(* Somebody with a ticket is seen by sleepchan_has_waiter.                 *)
LEMMA CoveredSeen ==
  ASSUME HintTypeOK, NEW on, NEW exact, Covered(slot, overflow, on, exact),
         NEW p \in DOMAIN on, on[p] # None
  PROVE  HasWaiter(on[p])
<1>1. PICK home, no \in [DOMAIN on -> Int] :
        Held(Rooms(slot, overflow), Chans(slot), on, home, no)
  BY DEF Covered, Dealt
<1> DEFINE h == home[p]
<1>2. /\ h \in Spot /\ Fits(Chans(slot), h, on[p])
      /\ no[p] \in 1 .. Rooms(slot, overflow)[h]
  BY <1>1 DEF Held
<1> HIDE DEF h
<1>3. CASE h = Over
  BY <1>2, <1>3, RoomTypes DEF HasWaiter, HintTypeOK
<1>4. CASE h # Over
  <2>1. h \in DOMAIN slot /\ slot[h].chan = on[p]
    BY <1>2, <1>4, RoomTypes DEF Fits, Spot
  <2>2. slot[h].count > 0
    BY <1>2, <2>1, RoomTypes DEF HintTypeOK
  <2> QED BY <2>1, <2>2 DEF HasWaiter, Owned
<1> QED BY <1>3, <1>4

(* When the table is exact and nobody sleeps, it is empty.                 *)
LEMMA ExactEmpty ==
  ASSUME HintTypeOK, NEW on, Covered(slot, overflow, on, TRUE),
         \A p \in DOMAIN on : on[p] = None
  PROVE  overflow = 0 /\ \A i \in DOMAIN slot : slot[i] = [chan |-> None, count |-> 0]
<1> DEFINE room == Rooms(slot, overflow)
<1>1. \A h \in Spot : \A n \in 1 .. room[h] : FALSE
  BY DEF Covered, Dealt, Full
<1>2. \A h \in Spot : room[h] = 0
  BY <1>1, RoomTypes
<1>3. Over \in Spot /\ \A i \in DOMAIN slot : i \in Spot
  BY RoomTypes DEF Spot
<1>4. overflow = 0 /\ \A i \in DOMAIN slot : slot[i].count = 0
  BY <1>2, <1>3, RoomTypes
<1> QED BY <1>4 DEF HintTypeOK
=============================================================================
