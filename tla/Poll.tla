-------------------------------- MODULE Poll --------------------------------
(***************************************************************************)
(* ppoll and pselect6 (syscall/sysfunc.c).  A call looks at its objects    *)
(* one after the other, each under a lock of its own, and if none is ready *)
(* waits for a change: on its first pipe, on the channel of all sockets,   *)
(* or for a clock tick.  What reads, writes and closes the objects is only *)
(* what it means for them.                                                 *)
(***************************************************************************)
EXTENDS Integers, Sequences, FiniteSets

CONSTANTS
  Proc,     \* processes that poll
  Pipe,     \* pipes
  Sock,     \* sockets
  Size,     \* bytes a pipe holds, in units
  MaxLen,   \* bound: objects in one call
  MaxTicks, \* bound: the timeout, in clock ticks
  Smp,      \* whether others run while a call scans: a second CPU
  Orderly   \* environment: see Waitable

VARIABLES
  pipe,  \* pipes: bytes, and whether there are readers and writers
  sock,  \* which sockets are ready for whatever is asked
  call   \* the call each process is in

vars == <<pipe, sock, call>>

(* What a call asks of one descriptor: a pipe, a socket, a file, which is  *)
(* always ready, or a descriptor that is not open.                         *)
Item ==
  [kind : {"pipe"}, of : Pipe, want : {{"r"}, {"w"}, {}}] \cup [kind : {"sock"}, of : Sock]
    \cup [kind : {"file", "none"}]
Items == UNION {[1 .. n -> Item] : n \in 0 .. MaxLen}

NoCall == [at |-> "none"]

TypeOK ==
  /\ pipe \in [Pipe -> [n : 0 .. Size, r : BOOLEAN, w : BOOLEAN]]
  /\ sock \in [Sock -> BOOLEAN]
  /\ \A p \in Proc :
       \/ call[p] = NoCall
       \/ /\ call[p].at \in {"scan", "wait", "tick", "sleep"}
          /\ call[p].items \in Items /\ call[p].poll \in BOOLEAN /\ call[p].timed \in BOOLEAN
          /\ call[p].left \in 0 .. MaxTicks /\ call[p].ready \in BOOLEAN
          /\ call[p].next \in 1 .. MaxLen + 1
          /\ call[p].chan \in {"none", "r", "w", "sock"}

Init ==
  /\ pipe = [x \in Pipe |-> [n |-> 0, r |-> TRUE, w |-> TRUE]]
  /\ sock = [s \in Sock |-> FALSE]
  /\ call = [p \in Proc |-> NoCall]

-----------------------------------------------------------------------------
(* pipe_select_ready; a descriptor that is not open is ready to ppoll, and *)
(* pselect6 does not look at it.                                           *)
Readable(x) == pipe[x].n > 0 \/ ~pipe[x].w
Writable(x) == pipe[x].n < Size \/ ~pipe[x].r
IsReady(i, poll) ==
  CASE i.kind = "pipe" -> ("r" \in i.want /\ Readable(i.of)) \/ ("w" \in i.want /\ Writable(i.of))
    [] i.kind = "sock" -> sock[i.of]
    [] i.kind = "file" -> TRUE
    [] i.kind = "none" -> poll

Saw(c, kind) == \E n \in 1 .. Len(c.items) : c.items[n].kind = kind
FirstPipe(c) ==
  c.items[CHOOSE n \in 1 .. Len(c.items) :
            c.items[n].kind = "pipe" /\ \A k \in 1 .. n - 1 : c.items[k].kind # "pipe"]

(* A call without a timeout has one pipe that it waits for, and waits for  *)
(* sockets only where nothing else runs between its scan and its sleep.    *)
Waitable(items, timed) ==
  Orderly /\ ~timed =>
    /\ Cardinality({n \in 1 .. Len(items) : items[n].kind = "pipe"}) <= 1
    /\ Smp => \A n \in 1 .. Len(items) : items[n].kind # "sock"

Scanning(c) == [c EXCEPT !.at = "scan", !.next = 1, !.ready = FALSE, !.chan = "none"]

Start(p, items, poll, timed) ==
  /\ call[p] = NoCall /\ Waitable(items, timed)
  /\ items # <<>>
  /\ \E ticks \in IF timed THEN 0 .. MaxTicks ELSE {0} :
       call' = [call EXCEPT ![p] = [at |-> "scan", items |-> items, poll |-> poll, timed |-> timed,
                                    left |-> ticks, ready |-> FALSE, next |-> 1, chan |-> "none"]]
  /\ UNCHANGED <<pipe, sock>>

(* The next object, under its lock.                                        *)
Scan(p) ==
  LET c == call[p]
  IN  /\ c.at = "scan" /\ c.next <= Len(c.items)
      /\ call' = [call EXCEPT ![p].next = @ + 1,
                              ![p].ready = @ \/ IsReady(c.items[c.next], c.poll)]
      /\ UNCHANGED <<pipe, sock>>

(* The end of a scan: return, wait for a tick, or wait for a change.  A    *)
(* call that has seen both pipes and sockets, or neither, waits for ticks. *)
Decide(p) ==
  LET c == call[p]
  IN  /\ c.at = "scan" /\ c.next > Len(c.items)
      /\ call' = [call EXCEPT ![p] =
                   IF c.ready \/ (c.timed /\ c.left = 0) THEN NoCall
                   ELSE IF c.timed THEN [c EXCEPT !.at = "tick", !.left = @ - 1]
                   ELSE IF Saw(c, "sock") = Saw(c, "pipe") THEN [c EXCEPT !.at = "tick"]
                   ELSE [c EXCEPT !.at = "wait"]]
      /\ UNCHANGED <<pipe, sock>>

(* A pipe is looked at again before the call sleeps in it.                 *)
WaitPipe(p) ==
  LET c == call[p]
      i == FirstPipe(c)
      Asleep(chan) == [c EXCEPT !.at = "sleep", !.chan = chan]
  IN  /\ c.at = "wait" /\ Saw(c, "pipe")
      /\ call' = [call EXCEPT ![p] =
                   IF "r" \in i.want /\ ~Readable(i.of) THEN Asleep("r")
                   ELSE IF "w" \in i.want /\ ~Writable(i.of) THEN Asleep("w")
                   ELSE Scanning(c)]
      /\ UNCHANGED <<pipe, sock>>

(* A socket is not.                                                        *)
WaitSocket(p) ==
  /\ call[p].at = "wait" /\ Saw(call[p], "sock")
  /\ call' = [call EXCEPT ![p].at = "sleep", ![p].chan = "sock"]
  /\ UNCHANGED <<pipe, sock>>

Tick(p) ==
  /\ call[p].at = "tick"
  /\ call' = [call EXCEPT ![p] = Scanning(@)]
  /\ UNCHANGED <<pipe, sock>>

(* A sleeper is woken by something else, such as a signal.                 *)
Disturb(p) ==
  /\ call[p].at = "sleep"
  /\ call' = [call EXCEPT ![p] = Scanning(@)]
  /\ UNCHANGED <<pipe, sock>>

-----------------------------------------------------------------------------
(* What others do.                                                         *)
Woken(x, chan) ==
  [p \in Proc |->
     IF call[p].at = "sleep" /\ call[p].chan = chan /\ (x \in Pipe => FirstPipe(call[p]).of = x)
     THEN Scanning(call[p]) ELSE call[p]]

Others == ~Smp => \A p \in Proc : call[p].at \notin {"scan", "wait"}

Write(x) ==
  /\ Others /\ pipe[x].r /\ pipe[x].w /\ pipe[x].n < Size
  /\ \E n \in pipe[x].n + 1 .. Size : pipe' = [pipe EXCEPT ![x].n = n]
  /\ call' = Woken(x, "r")
  /\ UNCHANGED sock

Read(x) ==
  /\ Others /\ pipe[x].r /\ pipe[x].n > 0
  /\ \E n \in 0 .. pipe[x].n - 1 : pipe' = [pipe EXCEPT ![x].n = n]
  /\ call' = Woken(x, "w")
  /\ UNCHANGED sock

CloseWriter(x) ==
  /\ Others /\ pipe[x].w
  /\ pipe' = [pipe EXCEPT ![x].w = FALSE]
  /\ call' = Woken(x, "r")
  /\ UNCHANGED sock

CloseReader(x) ==
  /\ Others /\ pipe[x].r
  /\ pipe' = [pipe EXCEPT ![x].r = FALSE]
  /\ call' = Woken(x, "w")
  /\ UNCHANGED sock

Change(s) ==
  /\ Others
  /\ sock' = [sock EXCEPT ![s] = ~@]
  /\ call' = Woken(s, "sock")
  /\ UNCHANGED pipe

Next ==
  \/ \E p \in Proc :
       \/ \E items \in Items, poll, timed \in BOOLEAN : Start(p, items, poll, timed)
       \/ Scan(p)
       \/ Decide(p)
       \/ WaitPipe(p)
       \/ WaitSocket(p)
       \/ Tick(p)
       \/ Disturb(p)
  \/ \E x \in Pipe :
       \/ Write(x)
       \/ Read(x)
       \/ CloseWriter(x)
       \/ CloseReader(x)
  \/ \E s \in Sock : Change(s)

Spec == Init /\ [][Next]_vars

-----------------------------------------------------------------------------
(* Whoever sleeps in a poll polls nothing that is ready (sysfunc.c:3848).  *)
SleepersWait ==
  \A p \in Proc : call[p].at = "sleep" =>
    \A n \in 1 .. Len(call[p].items) : ~IsReady(call[p].items[n], call[p].poll)
=============================================================================
