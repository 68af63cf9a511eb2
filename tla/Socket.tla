------------------------------- MODULE Socket -------------------------------
(***************************************************************************)
(* The loopback sockets of fs/socket.c: socket, bind, listen, connect,     *)
(* accept, send, recv, shutdown, close and the readiness poll reports.     *)
(*                                                                         *)
(* An action is one critical section of socket_lk.  All sleepers share one *)
(* channel.  A call with a timeout and a connect that looks for a listener *)
(* do not sleep, they look again at every tick.  The processes have        *)
(* descriptor tables of their own, which fork copies: no socket is closed  *)
(* under a call.                                                           *)
(***************************************************************************)
EXTENDS Integers, Sequences, FiniteSets

CONSTANTS
  Proc,      \* processes
  NSock,     \* N_SOCKET
  Type,      \* the types of sockets there are: "stream", "dgram"
  Port,      \* port numbers
  Cap,       \* SOCK_STREAM_BUF
  NPacket,   \* SOCK_UDP_QUEUE
  Backlog,   \* the backlog of a listener
  MaxLen,    \* bound: bytes in one call
  Orderly,   \* environment: a socket is connected by one process at a time,
             \* does not both listen and connect, and is shut down only
             \* when it is connected
  None

Sock == 1 .. NSock
Unbound == None

VARIABLES
  sock,  \* sockets
  fds,   \* the sockets each process has open
  call   \* the call each process is in

vars == <<sock, fds, call>>

(* sent and got count the bytes that went out and came in over a socket,   *)
(* and a byte is the count at which it was sent.                           *)
Fresh(type) ==
  [used |-> TRUE, type |-> type, state |-> "created", port |-> Unbound, reuse |-> FALSE,
   to |-> Unbound, rclosed |-> FALSE, wclosed |-> FALSE, peer |-> None,
   buf |-> <<>>, queue |-> <<>>, sent |-> 0, got |-> 0]
Free == [used |-> FALSE]

Idle == [op |-> "none"]
Calls ==
  {Idle}
    \cup [op : {"send", "recv", "accept"}, s : Sock, asleep : BOOLEAN, left : 0 .. MaxLen]
    \cup [op : {"connect"}, s : Sock, to : Port] \cup [op : {"file"}, s : Sock]

TypeOK ==
  /\ \A s \in Sock :
       \/ sock[s] = Free
       \/ /\ DOMAIN sock[s] = DOMAIN Fresh("stream")
          /\ sock[s].state \in {"created", "listen", "connected"}
          /\ sock[s].port \in Port \cup {Unbound}
          /\ sock[s].peer \in Sock \cup {None}
          /\ Len(sock[s].queue) <= IF sock[s].type = "dgram" THEN NPacket ELSE Backlog
          /\ Len(sock[s].buf) <= Cap
  /\ fds \in [Proc -> SUBSET Sock]
  /\ call \in [Proc -> Calls]

Init ==
  /\ sock = [s \in Sock |-> Free]
  /\ fds = [p \in Proc |-> {}]
  /\ call = [p \in Proc |-> Idle]

-----------------------------------------------------------------------------

InUse == {s \in Sock : sock[s].used}

(* Variant: the slot keeps what its last socket had received.              *)
TakeDirty(s, type) == [Fresh(type) EXCEPT !.buf = IF s = 1 THEN <<>> ELSE <<0>>]

(* socket_alloc_locked clears the slot.                                    *)
Take(s, type) == Fresh(type)
Lowest == CHOOSE s \in Sock \ InUse : \A t \in Sock \ InUse : s <= t

(* Variant: only those that wait for data are woken.                       *)
WokenReaders(c) ==
  [p \in Proc |-> IF c[p].op \in {"recv", "accept"}
                  THEN [c[p] EXCEPT !.asleep = FALSE] ELSE c[p]]

(* proc_wakeup(&socket_wait_anchor).                                       *)
Woken(c) ==
  [p \in Proc |-> IF c[p].op \in {"send", "recv", "accept"}
                  THEN [c[p] EXCEPT !.asleep = FALSE] ELSE c[p]]
Wake == call' = Woken(call)
Finish(p) == call' = [Woken(call) EXCEPT ![p] = Idle]

Ports(type) == {sock[s].port : s \in {t \in InUse : sock[t].type = type}} \ {Unbound}

(* bind_conflicts_locked.                                                  *)
Conflicts(s, port) ==
  \E t \in InUse \ {s} :
    /\ sock[t].port = port /\ sock[t].type = sock[s].type
    /\ ~(sock[s].type = "dgram" /\ sock[s].reuse /\ sock[t].reuse)

(* auto_bind_locked: the port a socket has or gets.                        *)
AutoBind(s, port) ==
  IF sock[s].port # Unbound THEN port = sock[s].port
  ELSE port \in Port \ Ports(sock[s].type)

Listeners(port) == {s \in InUse : sock[s].state = "listen" /\ sock[s].port = port}

Usable(p, s) == call[p] = Idle /\ s \in fds[p]
Connecting(s) == \E p \in Proc : call[p].op = "connect" /\ call[p].s = s

-----------------------------------------------------------------------------
(* Opening, naming and closing.                                            *)

(* socket_file_alloc.                                                      *)
Open(p, type) ==
  /\ call[p] = Idle
  /\ InUse # Sock
  /\ sock' = [sock EXCEPT ![Lowest] = Take(Lowest, type)]
  /\ fds' = [fds EXCEPT ![p] = @ \cup {Lowest}]
  /\ UNCHANGED call

(* setsockopt SO_REUSEADDR.                                                *)
Reuse(p, s) ==
  /\ Usable(p, s) /\ sock[s].type = "dgram"
  /\ sock' = [sock EXCEPT ![s].reuse = TRUE]
  /\ UNCHANGED <<fds, call>>

Bind(p, s, port) ==
  /\ Usable(p, s)
  /\ sock[s].port = Unbound /\ ~Conflicts(s, port)
  /\ sock' = [sock EXCEPT ![s].port = port]
  /\ Wake
  /\ UNCHANGED fds

Listen(p, s, port) ==
  /\ Usable(p, s) /\ sock[s].type = "stream"
  /\ Orderly => sock[s].state = "created" /\ ~Connecting(s)
  /\ AutoBind(s, port)
  /\ sock' = [sock EXCEPT ![s].state = "listen", ![s].port = port]
  /\ Wake
  /\ UNCHANGED fds

(* What socket_drop_locked leaves of the sockets: the children a listener  *)
(* has not accepted go as well, and the peers learn of it.                 *)
Gone(s) ==
  {s} \cup (IF sock[s].state = "listen"
            THEN {sock[s].queue[i] : i \in 1 .. Len(sock[s].queue)} ELSE {})
Widowed(gone) == {sock[t].peer : t \in gone} \ {None}

Dropped(s) ==
  LET gone == Gone(s) IN
  [t \in Sock |->
     IF t \in gone THEN Free
     ELSE IF t \in Widowed(gone) /\ sock[t].used
          THEN [sock[t] EXCEPT !.peer = None, !.rclosed = TRUE]
     ELSE sock[t]]

(* file_close: the last reference drops the socket.                        *)
Close(p, s) ==
  /\ Usable(p, s)
  /\ fds' = [fds EXCEPT ![p] = @ \ {s}]
  /\ IF \E q \in Proc \ {p} : s \in fds[q]
     THEN UNCHANGED <<sock, call>>
     ELSE sock' = Dropped(s) /\ Wake

(* A process starts with the sockets of its parent.                        *)
Fork(p, q) ==
  /\ call[p] = Idle /\ call[q] = Idle
  /\ p # q /\ fds[q] = {} /\ fds[p] # {}
  /\ fds' = [fds EXCEPT ![q] = fds[p]]
  /\ UNCHANGED <<sock, call>>

Shutdown(p, s, rd, wr) ==
  /\ Usable(p, s) /\ (rd \/ wr)
  /\ Orderly => sock[s].state = "connected"
  /\ sock' = [t \in Sock |->
       IF t = s THEN [sock[s] EXCEPT !.rclosed = @ \/ rd, !.wclosed = @ \/ wr]
       ELSE IF wr /\ t = sock[s].peer THEN [sock[t] EXCEPT !.rclosed = TRUE]
       ELSE sock[t]]
  /\ Wake
  /\ UNCHANGED fds

-----------------------------------------------------------------------------
(* connect.                                                                *)

Connect(p, s, port, to) ==
  /\ Usable(p, s)
  /\ sock[s].state # "connected"
  /\ Orderly => sock[s].state = "created" /\ ~Connecting(s)
  /\ AutoBind(s, port)
  /\ IF sock[s].type = "dgram"
     THEN /\ sock' = [sock EXCEPT ![s].port = port, ![s].to = to, ![s].state = "connected"]
          /\ UNCHANGED call
     ELSE /\ sock' = [sock EXCEPT ![s].port = port]
          /\ call' = [call EXCEPT ![p] = [op |-> "connect", s |-> s, to |-> to]]
  /\ UNCHANGED fds

(* No listener after 50 ticks, or its queue is full, or no slot is left.   *)
Refused(p) ==
  /\ call[p].op = "connect"
  /\ \A t \in Listeners(call[p].to) :
       Len(sock[t].queue) >= Backlog \/ InUse = Sock
  /\ call' = [call EXCEPT ![p] = Idle]
  /\ UNCHANGED <<sock, fds>>

(* The first listener gets a new socket in its queue, which is the peer.   *)
Established(p) ==
  /\ call[p].op = "connect"
  /\ InUse # Sock
  /\ LET s == call[p].s
         new == Lowest
         ls == Listeners(call[p].to)
     IN  \E l \in ls :
           /\ \A k \in ls : l <= k
           /\ Len(sock[l].queue) < Backlog
           /\ sock' = [sock EXCEPT
                ![new] = [Take(new, "stream") EXCEPT
                            !.state = "connected", !.port = sock[l].port, !.peer = s],
                ![s].state = "connected", ![s].peer = new,
                ![l].queue = Append(@, new)]
  /\ Finish(p)
  /\ UNCHANGED fds

-----------------------------------------------------------------------------
(* The calls that wait.                                                    *)

(* The call with which process p takes socket_lk: one that it begins, or   *)
(* the one it was woken in.                                                *)
Begun(op, s, n) == [op |-> op, s |-> s, asleep |-> FALSE, left |-> n]
Beginning(p) ==
  {c \in {Begun(op, s, n) : op \in {"send", "recv", "accept"}, s \in fds[p], n \in 0 .. MaxLen} :
     /\ c.op = "accept" => sock[c.s].state = "listen"
     /\ (c.op = "send") = (c.left > 0)
     /\ sock[c.s].type = "dgram" => c.op # "accept" /\ c.left <= 1}
Waiting(p) == call[p].op \in {"send", "recv", "accept"}
Entering(p) ==
  IF call[p] = Idle THEN Beginning(p)
  ELSE IF Waiting(p) /\ ~call[p].asleep THEN {call[p]} ELSE {}

(* Whether a call on socket s has to wait.                                 *)
NoneToAccept(s) == sock[s].state = "listen" /\ sock[s].queue = <<>>
NothingToRead(s) ==
  IF sock[s].type = "dgram" THEN sock[s].queue = <<>>
  ELSE sock[s].buf = <<>> /\ ~sock[s].rclosed /\ sock[s].peer # None
Broken(s) ==
  \/ sock[s].wclosed \/ sock[s].state # "connected" \/ sock[s].peer = None
  \/ ~sock[sock[s].peer].used \/ sock[sock[s].peer].rclosed
(* Variant: the sender looks at the buffer of its own side.                *)
RoomInOwn(s) == Cap - Len(sock[s].buf)

Room(s) == Cap - Len(sock[sock[s].peer].buf)
NoRoom(s) == sock[s].type = "stream" /\ ~Broken(s) /\ Room(s) = 0

MustWait(op, s) ==
  CASE op = "accept" -> NoneToAccept(s)
    [] op = "recv" -> NothingToRead(s)
    [] op = "send" -> NoRoom(s)

Sleep(p, c) ==
  /\ MustWait(c.op, c.s)
  /\ call' = [call EXCEPT ![p] = [c EXCEPT !.asleep = TRUE]]
  /\ UNCHANGED <<sock, fds>>

(* EAGAIN, when the call is not to block, or its timeout is over.          *)
GiveUp(p, c) ==
  /\ MustWait(c.op, c.s)
  /\ call' = [call EXCEPT ![p] = Idle]
  /\ UNCHANGED <<sock, fds>>

(* A timer of its own wakes the process; accept looks at signals then.     *)
Disturb(p) ==
  /\ Waiting(p) /\ call[p].asleep
  /\ call' = [call EXCEPT ![p] =
                IF @.op = "accept" THEN Idle ELSE [@ EXCEPT !.asleep = FALSE]]
  /\ UNCHANGED <<sock, fds>>

(* accept takes the first child; the listener may have stopped listening.  *)
Accept(p, c) ==
  /\ c.op = "accept"
  /\ LET s == c.s IN
     IF sock[s].state # "listen" THEN call' = [call EXCEPT ![p] = Idle] /\ UNCHANGED sock
     ELSE /\ sock[s].queue # <<>>
          /\ sock' = [sock EXCEPT ![s].queue = Tail(@)]
          /\ call' = [call EXCEPT ![p] = [op |-> "file", s |-> Head(sock[s].queue)]]
  /\ UNCHANGED fds

(* The child gets a file ...                                               *)
Accepted(p) ==
  /\ call[p].op = "file"
  /\ fds' = [fds EXCEPT ![p] = @ \cup {call[p].s}]
  /\ call' = [call EXCEPT ![p] = Idle]
  /\ UNCHANGED sock

(* ... or there is none left for it.                                       *)
NoFile(p) ==
  /\ call[p].op = "file"
  /\ sock' = Dropped(call[p].s)
  /\ Finish(p)
  /\ UNCHANGED fds

(* As much of the chunk as there is room for.                              *)
Put(room, left) == IF left < room THEN left ELSE room

Send(p, c) ==
  /\ c.op = "send" /\ sock[c.s].type = "stream"
  /\ LET s == c.s IN
     IF Broken(s) THEN call' = [call EXCEPT ![p] = Idle] /\ UNCHANGED sock
     ELSE LET n == Put(Room(s), c.left) IN
          /\ Room(s) > 0
          /\ sock' = [sock EXCEPT
               ![s].sent = @ + n,
               ![sock[s].peer].buf = @ \o [i \in 1 .. n |-> sock[s].sent + i]]
          /\ call' = [Woken(call) EXCEPT ![p] =
               IF c.left = n THEN Idle ELSE [c EXCEPT !.left = @ - n]]
  /\ UNCHANGED fds

Recv(p, c, n) ==
  /\ c.op = "recv" /\ sock[c.s].type = "stream" /\ ~NothingToRead(c.s)
  /\ LET s == c.s IN
     IF sock[s].buf = <<>> THEN n = 1 /\ call' = [call EXCEPT ![p] = Idle] /\ UNCHANGED sock
     ELSE /\ n <= Len(sock[s].buf)
          /\ sock' = [sock EXCEPT ![s].buf = SubSeq(@, n + 1, Len(@)),
                                  ![s].got = sock[s].buf[n]]
          /\ Finish(p)
  /\ UNCHANGED fds

(* find_udp_dst_locked: of the sockets f, the first that is connected to   *)
(* the sender, or else the first that is not connected.                    *)
Dst(f, to, from) ==
  LET there == {t \in Sock : f[t].used /\ f[t].type = "dgram" /\ f[t].port = to}
      mine == {t \in there : f[t].state = "connected" /\ f[t].to = from}
      any == {t \in there : f[t].state # "connected"}
      found == IF mine # {} THEN mine ELSE any
  IN  {t \in found : \A u \in found : t <= u}

(* A datagram, which is the port it comes from, to the address given or to *)
(* the one the socket is connected to.  A full queue loses it.             *)
SendTo(p, c, to, port) ==
  /\ c.op = "send" /\ sock[c.s].type = "dgram"
  /\ LET s == c.s
         bound == [sock EXCEPT ![s].port = port]
         dst == Dst(bound, to, port)
     IN  /\ AutoBind(s, port)
         /\ sock' = [t \in Sock |->
              IF t \in dst /\ Len(bound[t].queue) < NPacket
              THEN [bound[t] EXCEPT !.queue = Append(@, port)] ELSE bound[t]]
         /\ IF dst = {} THEN call' = [call EXCEPT ![p] = Idle] ELSE Finish(p)
  /\ UNCHANGED fds

RecvFrom(p, c) ==
  /\ c.op = "recv" /\ sock[c.s].type = "dgram"
  /\ sock[c.s].queue # <<>>
  /\ sock' = [sock EXCEPT ![c.s].queue = Tail(@)]
  /\ Finish(p)
  /\ UNCHANGED fds

Naming(p, s) ==
  \/ Reuse(p, s)
  \/ \E port \in Port : Bind(p, s, port) \/ Listen(p, s, port)
  \/ \E port, to \in Port : Connect(p, s, port, to)

Next ==
  \E p \in Proc :
    \/ \E type \in Type : Open(p, type)
    \/ \E q \in Proc : Fork(p, q)
    \/ \E s \in Sock :
         \/ Naming(p, s) \/ Close(p, s)
         \/ \E rd, wr \in BOOLEAN : Shutdown(p, s, rd, wr)
    \/ Refused(p) \/ Established(p) \/ Accepted(p) \/ NoFile(p) \/ Disturb(p)
    \/ \E c \in Entering(p) :
         \/ Sleep(p, c) \/ GiveUp(p, c) \/ Accept(p, c)
         \/ Send(p, c) \/ RecvFrom(p, c)
         \/ \E n \in 1 .. MaxLen : Recv(p, c, n)
         \/ \E port, to \in Port : SendTo(p, c, to, port)

Spec == Init /\ [][Next]_vars

-----------------------------------------------------------------------------
(* Properties.                                                             *)

(* socket_poll_ready.                                                      *)
PollIn(s) ==
  CASE sock[s].state = "listen" -> sock[s].queue # <<>>
    [] sock[s].type = "dgram" -> sock[s].queue # <<>>
    [] OTHER -> sock[s].buf # <<>> \/ sock[s].rclosed \/ sock[s].peer = None
PollOut(s) ==
  \/ sock[s].type = "dgram"
  \/ /\ sock[s].state = "connected" /\ sock[s].peer # None /\ ~sock[s].wclosed
     /\ ~sock[sock[s].peer].rclosed /\ Room(s) > 0

(* Who has a socket: descriptors, the queue of a listener, an accept.      *)
Queued(s) ==
  UNION {{<<l, i>> : i \in {j \in 1 .. Len(sock[l].queue) : sock[l].queue[j] = s}}
           : l \in {k \in InUse : sock[k].type = "stream"}}
Accepting(s) == {p \in Proc : call[p].op = "file" /\ call[p].s = s}
Held(s) == \E p \in Proc : s \in fds[p]

(* Peers are each other's peers, so no socket keeps a pointer to a slot    *)
(* that was given back or reused; every slot in use is open, in one        *)
(* listener's queue or about to be accepted, and nothing else is referred  *)
(* to; no two listeners share a port; bytes arrive in order, none lost.    *)
SocketsSound ==
  /\ \A s \in InUse :
       LET r == sock[s] IN
       /\ r.peer # None => sock[r.peer].used /\ sock[r.peer].peer = s
       /\ Cardinality(Queued(s)) + Cardinality(Accepting(s)) + (IF Held(s) THEN 1 ELSE 0) = 1
       /\ \A i \in 1 .. Len(r.buf) : r.buf[i] = r.got + i
       /\ r.peer # None => sock[r.peer].sent = r.got + Len(r.buf)
       /\ r.state = "listen" => Cardinality(Listeners(r.port)) = 1
  /\ \A s \in Sock \ InUse : Queued(s) = {} /\ Accepting(s) = {} /\ ~Held(s)

(* Nobody sleeps in a call that could go on, and a socket somebody sleeps  *)
(* on is not one that poll calls ready for this call.                      *)
SleepersWait ==
  \A p \in Proc : Waiting(p) /\ call[p].asleep =>
    /\ MustWait(call[p].op, call[p].s)
    /\ IF call[p].op = "send" THEN ~PollOut(call[p].s) ELSE ~PollIn(call[p].s)
=============================================================================
