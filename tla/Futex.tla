-------------------------------- MODULE Futex --------------------------------
(***************************************************************************)
(* Futexes, robust lists, thread words, signals and interval timers of the *)
(* RISC-V kernel (sysfunc.c, proc.c, trap_user.c) under processes that     *)
(* share memory and use the robust mutexes and joins of their C library.   *)
(* They run on CPUs of their own: a step is what happens between two       *)
(* acquisitions of a process lock or two accesses to user memory.          *)
(***************************************************************************)
EXTENDS Integers, Sequences, FiniteSets, FiniteSetsExt

CONSTANTS
  NProc,    \* N_PROC
  Lock,     \* mutexes in the shared memory
  Kinds,    \* bound: groups of operations that happen
  Orderly,  \* environment: see MayDie
  None

Proc == 1 .. NProc
Word == Lock \cup Proc  \* p is also the word that clear_child_tid of p points to
Tick == 0               \* &sys_timer
Kill == 9
Alarm == 14
Sig == {Kill, Alarm}

VARIABLES
  word,  \* user memory: FUTEX_TID_MASK, FUTEX_OWNER_DIED and FUTEX_WAITERS
  proc   \* proc_list, and where each process is

vars == <<word, proc>>

Free == [own |-> None, died |-> FALSE, wait |-> FALSE]
OwnedBy(p) == [Free EXCEPT !.own = p]
Value == [own : Proc \cup {None}, died : BOOLEAN, wait : BOOLEAN]

(* What a process does in user space, and where it is in the kernel.       *)
UserPc == {"user", "trylock", "contend", "enlist", "delisted", "towake", "settle"}
KernelPc == {"futex", "look", "checked", "asleep", "ready", "nap", "sigwait",
             "wake", "walk", "mark", "zombie"}

(* list is the robust list, op its list_op_pending; w, val and timed are   *)
(* what futex() was called for; wakes are the channels still to be woken,  *)
(* at the next slot to look at and then what comes after; todo are the     *)
(* entries of the list not yet visited; late are the signals that were     *)
(* pending when the process went to sleep, with no effect on it.           *)
Start == [pc |-> "user", w |-> None, val |-> Free, timed |-> FALSE, tout |-> FALSE,
          list |-> {}, op |-> None, todo |-> {}, wakes |-> <<>>, at |-> 1, then |-> "user",
          ctid |-> FALSE, pend |-> {}, mask |-> {}, act |-> [s \in Sig |-> "default"],
          frame |-> None, timer |-> "off", late |-> {}]
Frame == [pc : UserPc, mask : SUBSET Sig]

TypeOK ==
  /\ word \in [Word -> Value]
  /\ proc \in [Proc -> [pc : UserPc \cup KernelPc \cup {"handler"}, w : Word \cup {None, Tick},
                        val : Value, timed : BOOLEAN, tout : BOOLEAN, list : SUBSET Lock,
                        op : Lock \cup {None}, todo : SUBSET Lock,
                        wakes : {<<>>} \cup {<<v>> : v \in Word} \cup (Lock \X Lock),
                        at : Proc, then : {"user", "settle", "walk", "zombie"},
                        ctid : BOOLEAN, pend : SUBSET Sig, mask : SUBSET {Alarm},
                        act : [Sig -> {"default", "ignore", "handler"}],
                        frame : Frame \cup {None}, timer : {"off", "once", "again"},
                        late : SUBSET Sig]]

Init ==
  /\ word = [v \in Word |-> IF v \in Proc THEN OwnedBy(v) ELSE Free]
  /\ proc = [p \in Proc |-> Start]

-----------------------------------------------------------------------------
(* Helpers.                                                                *)

At(p, place) == proc[p].pc = place
Ready(r) == r.pend \ r.mask
Put(p, r) == proc' = [proc EXCEPT ![p] = r]
Goto(p, place) == Put(p, [proc[p] EXCEPT !.pc = place])

(* p->lk is held from the look at the word until the scheduler has it.     *)
Held(q) == At(q, "checked")

(* Environment: nobody dies between the release of a mutex and its wake.   *)
(* The kernel takes a word without an owner for one that needs no wake.    *)
MayDie(r) == Orderly => /\ r.pc # "towake"
                        /\ r.frame # None => r.frame.pc # "towake"

(* proc_exit begins with the robust list.                                  *)
Dying(r) == [r EXCEPT !.pc = "walk", !.todo = r.list \cup ({r.op} \ {None}), !.w = None,
                      !.wakes = <<>>, !.frame = None]

(* The end of trap_user_handler: ignored signals and the harmless defaults *)
(* are dropped up to the first one that is fatal or has a handler.         *)
Delivered(r, place) ==
  LET stops == {s \in Ready(r) : r.act[s] = "handler" \/ (r.act[s] = "default" /\ s = Kill)}
      gone == {s \in Ready(r) : \A t \in stops : s < t}
  IN  CASE r.frame # None -> [r EXCEPT !.pc = place]
        [] r.frame = None /\ stops = {} -> [r EXCEPT !.pc = place, !.pend = @ \ gone]
        [] r.frame = None /\ stops # {} /\ r.act[Min(stops)] = "default" ->
             Dying([r EXCEPT !.pend = @ \ gone])
        [] r.frame = None /\ stops # {} /\ r.act[Min(stops)] = "handler" ->
             [r EXCEPT !.pend = @ \ (gone \cup {Min(stops)}),
                       !.frame = [pc |-> place, mask |-> r.mask], !.pc = "handler"]

(* The end of a system call.  A handler that called goes on in itself.     *)
Back(r) == [r EXCEPT !.w = None, !.val = Free, !.timed = FALSE, !.tout = FALSE, !.late = {}]
Return(p, r, place) == Put(p, Delivered(Back(r), place))

-----------------------------------------------------------------------------
(* User space: the robust mutex of the C library.                          *)

(* list_op_pending is set, then the lock is tried.                         *)
Intend(p) ==
  /\ "lock" \in Kinds /\ At(p, "user")
  /\ \E l \in Lock \ proc[p].list : Put(p, [proc[p] EXCEPT !.pc = "trylock", !.op = l])
  /\ UNCHANGED word

TryLock(p) ==
  LET l == proc[p].op
  IN  /\ At(p, "trylock")
      /\ IF word[l].own = None
         THEN /\ word' = [word EXCEPT ![l].own = p, ![l].died = FALSE]
              /\ Goto(p, "enlist")
         ELSE /\ Put(p, [proc[p] EXCEPT !.pc = "contend", !.op = None, !.w = l])
              /\ UNCHANGED word

(* The waiters bit is set and the kernel asked to wait for the value.      *)
Contend(p) ==
  LET l == proc[p].w
      new == [word[l] EXCEPT !.wait = TRUE]
  IN  /\ At(p, "contend")
      /\ IF word[l].own # None
         THEN /\ word' = [word EXCEPT ![l] = new]
              /\ \E timed \in {FALSE} \cup {"timed" \in Kinds} :
                   Put(p, [proc[p] EXCEPT !.pc = "futex", !.val = new, !.timed = timed])
         ELSE Put(p, Back([proc[p] EXCEPT !.pc = "user"])) /\ UNCHANGED word

Enlist(p) ==
  /\ At(p, "enlist")
  /\ Put(p, [proc[p] EXCEPT !.pc = "settle", !.list = @ \cup {proc[p].op}])
  /\ UNCHANGED word

Settle(p) ==
  /\ At(p, "settle")
  /\ Put(p, [proc[p] EXCEPT !.pc = "user", !.op = None])
  /\ UNCHANGED word

Delist(p) ==
  /\ At(p, "user")
  /\ \E l \in proc[p].list :
       Put(p, [proc[p] EXCEPT !.pc = "delisted", !.op = l, !.list = @ \ {l}])
  /\ UNCHANGED word

Release(p) ==
  LET l == proc[p].op
  IN  /\ At(p, "delisted")
      /\ word' = [word EXCEPT ![l] = Free]
      /\ Goto(p, IF word[l].wait THEN "towake" ELSE "settle")

-----------------------------------------------------------------------------
(* futex.                                                                  *)

(* FUTEX_WAKE; FUTEX_REQUEUE and FUTEX_WAKE_OP wake a second word, nobody  *)
(* is moved.                                                               *)
Wake(p) ==
  /\ At(p, "towake")
  /\ \E second \in {<<>>} \cup IF "requeue" \in Kinds THEN {<<l>> : l \in Lock} ELSE {} :
       Put(p, [proc[p] EXCEPT !.pc = "wake", !.wakes = <<proc[p].op>> \o second, !.at = 1,
                              !.then = "settle"])
  /\ UNCHANGED word

(* proc_wakeup_scan, one process lock at a time.                           *)
Scanned(r) ==
  IF r.at < NProc THEN [r EXCEPT !.at = @ + 1]
  ELSE [r EXCEPT !.at = 1, !.wakes = Tail(@), !.pc = IF Len(r.wakes) = 1 THEN r.then ELSE @]
Wakes(q, channel) == At(q, "asleep") /\ proc[q].w = channel
Scan(p) ==
  LET q == proc[p].at
      r == Scanned(proc[p])
  IN  /\ At(p, "wake") /\ ~Held(q)
      /\ proc' = [proc EXCEPT ![p] = IF r.pc = "settle" THEN Delivered(r, "settle") ELSE r,
                              ![q].pc = IF Wakes(q, Head(proc[p].wakes)) THEN "ready" ELSE @]
      /\ UNCHANGED word

(* FUTEX_WAIT for the end of a thread.                                     *)
Join(p) ==
  /\ "join" \in Kinds /\ At(p, "user")
  /\ \E q \in Proc \ {p} :
       /\ proc[q].ctid
       /\ Put(p, [proc[p] EXCEPT !.pc = "futex", !.w = q, !.val = OwnedBy(q)])
  /\ UNCHANGED word

(* Only a wait with a timeout looks at the signals before it sleeps.       *)
WaitSignals(p) ==
  LET r == proc[p]
  IN  /\ At(p, "futex")
      /\ IF r.timed /\ Ready(r) # {} THEN Return(p, r, "user") ELSE Goto(p, "look")
      /\ UNCHANGED word

(* The word is read under p->lk.                                           *)
WaitLook(p) ==
  /\ At(p, "look")
  /\ IF word[proc[p].w] = proc[p].val THEN Goto(p, "checked") ELSE Return(p, proc[p], "user")
  /\ UNCHANGED word

(* proc_sleep_common.                                                      *)
Sleep(p) ==
  /\ At(p, "checked")
  /\ Put(p, [proc[p] EXCEPT !.pc = "asleep", !.tout = FALSE, !.late = Ready(proc[p])])
  /\ UNCHANGED word

(* A timed wait that nothing has ended begins again.                       *)
WaitResume(p) ==
  LET r == proc[p]
      over == ~r.timed \/ Ready(r) # {} \/ word[r.w] # r.val \/ r.tout
  IN  /\ At(p, "ready") /\ r.w # Tick
      /\ IF over THEN Return(p, r, "user") ELSE Goto(p, "futex")
      /\ UNCHANGED word

(* The deadline of futex, already over or while asleep.                    *)
Expired(p) ==
  /\ At(p, "futex") /\ proc[p].timed /\ Return(p, proc[p], "user")
  /\ UNCHANGED word
Deadline(q) ==
  /\ At(q, "asleep") /\ proc[q].timed
  /\ Put(q, [proc[q] EXCEPT !.pc = "ready", !.tout = TRUE])
  /\ UNCHANGED word

-----------------------------------------------------------------------------
(* nanosleep: sleeps of one tick with a look at the signals in between.    *)

Nap(p) ==
  /\ "nap" \in Kinds /\ At(p, "user") /\ Goto(p, "nap")
  /\ UNCHANGED word

NapLoop(p) ==
  /\ At(p, "nap")
  /\ \/ Return(p, proc[p], "user")
     \/ /\ Ready(proc[p]) = {}
        /\ Put(p, [proc[p] EXCEPT !.pc = "checked", !.w = Tick])
  /\ UNCHANGED word

(* timer_wait goes back to sleep when no tick has passed.                  *)
NapResume(p) ==
  /\ At(p, "ready") /\ proc[p].w = Tick
  /\ Put(p, [proc[p] EXCEPT !.pc = IF proc[p].tout THEN "nap" ELSE "checked",
                            !.w = IF proc[p].tout THEN None ELSE Tick, !.late = {},
                            !.tout = FALSE])
  /\ UNCHANGED word

TimerUpdate ==
  LET napping == {q \in Proc : proc[q].w = Tick /\ proc[q].pc \in {"checked", "asleep", "ready"}}
  IN  /\ \E q \in napping : At(q, "asleep")
      /\ \A q \in napping : ~Held(q)
      /\ proc' = [q \in Proc |-> IF q \in napping
                                 THEN [proc[q] EXCEPT !.pc = "ready", !.tout = TRUE]
                                 ELSE proc[q]]
      /\ UNCHANGED word

-----------------------------------------------------------------------------
(* Signals.                                                                *)

(* A pending signal, and what becomes of a sleeper.                        *)
Signalled(r, s, wakes) ==
  [r EXCEPT !.pend = @ \cup {s}, !.pc = IF @ = "asleep" /\ wakes THEN "ready" ELSE @]

(* kill, tkill, tgkill.                                                    *)
SendSignal(p, q) ==
  /\ "kill" \in Kinds /\ At(p, "user") /\ p # q
  /\ ~Held(q) /\ ~At(q, "zombie")
  /\ \E s \in Sig : Put(q, Signalled(proc[q], s, s \notin proc[q].mask))
  /\ UNCHANGED word

(* setitimer, and its expiry: the sleep ends also if SIGALRM is blocked.   *)
SetItimer(p) ==
  /\ "alarm" \in Kinds /\ At(p, "user")
  /\ \E t \in {"off", "once", "again"} : Put(p, [proc[p] EXCEPT !.timer = t])
  /\ UNCHANGED word
CheckItimer(q) ==
  /\ ~Held(q) /\ ~At(q, "zombie") /\ proc[q].timer # "off"
  /\ Put(q, [Signalled(proc[q], Alarm, TRUE) EXCEPT !.timer = IF @ = "again" THEN @ ELSE "off"])
  /\ UNCHANGED word

(* Any trap of user code ends with the delivery.                           *)
Trap(p) ==
  /\ proc[p].pc \in UserPc /\ Ready(proc[p]) # {}
  /\ Delivered(proc[p], proc[p].pc).pc = "walk" => MayDie(proc[p])
  /\ Put(p, Delivered(proc[p], proc[p].pc))
  /\ UNCHANGED word

Sigreturn(p) ==
  LET r == proc[p]
  IN  /\ At(p, "handler")
      /\ LET back == [r EXCEPT !.mask = r.frame.mask, !.frame = None]
         IN  /\ Delivered(back, r.frame.pc).pc = "walk" => MayDie(r)
             /\ Put(p, Delivered(back, r.frame.pc))
      /\ UNCHANGED word

(* rt_sigprocmask cannot block SIGKILL; rt_sigaction takes any signal.     *)
Sigprocmask(p) ==
  /\ "mask" \in Kinds /\ proc[p].pc \in {"user", "handler"}
  /\ \E mask \in SUBSET {Alarm} :
       Put(p, Delivered([proc[p] EXCEPT !.mask = mask], proc[p].pc))
  /\ UNCHANGED word
Sigaction(p) ==
  /\ "action" \in Kinds /\ At(p, "user")
  /\ \E s \in Sig, a \in {"default", "ignore", "handler"} :
       Put(p, Delivered([proc[p] EXCEPT !.act[s] = a], "user"))
  /\ UNCHANGED word

(* rt_sigtimedwait for SIGALRM yields until it is pending or time is up.   *)
SigWait(p) ==
  /\ "sigwait" \in Kinds /\ At(p, "user") /\ Goto(p, "sigwait")
  /\ UNCHANGED word
SigTaken(p) ==
  /\ At(p, "sigwait")
  /\ \/ Alarm \in proc[p].pend /\ Return(p, [proc[p] EXCEPT !.pend = @ \ {Alarm}], "user")
     \/ Alarm \notin proc[p].pend /\ Return(p, proc[p], "user")
  /\ UNCHANGED word

-----------------------------------------------------------------------------
(* set_tid_address and the end of a process.                               *)

SetTidAddress(p) ==
  /\ "join" \in Kinds /\ At(p, "user") /\ ~proc[p].ctid
  /\ Put(p, [proc[p] EXCEPT !.ctid = TRUE])
  /\ UNCHANGED word

Exit(p) ==
  /\ "exit" \in Kinds /\ proc[p].pc \in {"user", "handler"} /\ MayDie(proc[p])
  /\ Put(p, Dying(proc[p]))
  /\ UNCHANGED word

(* proc_robust_mark_futex: the word is read, then written.                 *)
RobustRead(p) ==
  /\ At(p, "walk")
  /\ \E l \in proc[p].todo :
       Put(p, [proc[p] EXCEPT !.todo = @ \ {l}, !.w = l, !.val = word[l],
                              !.pc = IF word[l].own = p THEN "mark" ELSE "walk"])
  /\ UNCHANGED word
RobustMark(p) ==
  LET l == proc[p].w
  IN  /\ At(p, "mark")
      /\ word' = [word EXCEPT ![l] = [own |-> None, died |-> TRUE, wait |-> proc[p].val.wait]]
      /\ Put(p, [proc[p] EXCEPT !.pc = "wake", !.wakes = <<l>>, !.at = 1, !.then = "walk"])

(* Then the thread word.                                                   *)
Gone(p) ==
  /\ At(p, "walk") /\ proc[p].todo = {}
  /\ LET r == Back([proc[p] EXCEPT !.list = {}, !.op = None, !.timer = "off"])
     IN  IF r.ctid
         THEN /\ word' = [word EXCEPT ![p] = Free]
              /\ Put(p, [r EXCEPT !.pc = "wake", !.wakes = <<p>>, !.at = 1, !.then = "zombie"])
         ELSE Put(p, [r EXCEPT !.pc = "zombie"]) /\ UNCHANGED word

-----------------------------------------------------------------------------
UserStep(p) == Intend(p) \/ TryLock(p) \/ Contend(p) \/ Enlist(p) \/ Settle(p) \/ Delist(p)
               \/ Release(p)
FutexStep(p) == Wake(p) \/ Scan(p) \/ Join(p) \/ WaitSignals(p) \/ WaitLook(p) \/ Sleep(p)
                \/ WaitResume(p) \/ Expired(p)
SleepStep(p) == Nap(p) \/ NapLoop(p) \/ NapResume(p)
SignalStep(p) == SetItimer(p) \/ Trap(p) \/ Sigreturn(p) \/ Sigprocmask(p) \/ Sigaction(p)
                 \/ SigWait(p) \/ SigTaken(p) \/ \E q \in Proc : SendSignal(p, q)
ExitStep(p) == SetTidAddress(p) \/ Exit(p) \/ RobustRead(p) \/ RobustMark(p) \/ Gone(p)

Next == \/ \E p \in Proc : \/ UserStep(p) \/ FutexStep(p) \/ SleepStep(p) \/ SignalStep(p)
                           \/ ExitStep(p) \/ Deadline(p) \/ CheckItimer(p)
        \/ TimerUpdate

-----------------------------------------------------------------------------
(* A wake of the word v that has yet to come to q.                         *)
Owed(v, q) ==
  \E p \in Proc :
    LET r == proc[p]
    IN  \/ r.op = v /\ (r.pc = "towake" \/ (r.frame # None /\ r.frame.pc = "towake"))
        \/ r.pc = "wake" /\ \/ Head(r.wakes) = v /\ r.at <= q
                            \/ \E i \in 2 .. Len(r.wakes) : r.wakes[i] = v

(* Nobody sleeps on a word for longer than it has the value he waits for,  *)
(* on a mutex whose owner is dead or a thread that is gone, unless a wake  *)
(* is on its way; and nobody sleeps through a signal that is not blocked,  *)
(* but for one that was pending before he slept.                           *)
SleepersWait ==
  \A q \in Proc : At(q, "asleep") =>
    LET v == proc[q].w
        own == word[v].own
    IN  /\ v # Tick => /\ word[v] = proc[q].val \/ Owed(v, q)
                       /\ own # None /\ At(own, "zombie") => Owed(v, q)
        /\ Ready(proc[q]) \subseteq proc[q].late

=============================================================================
