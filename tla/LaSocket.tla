------------------------------ MODULE LaSocket ------------------------------
(***************************************************************************)
(* The sockets of the LoongArch port (socket_la.c and the socket calls of  *)
(* loongarch/syscall.c).  One CPU, interrupts off: a call is one step up   *)
(* to the point where it sleeps.  Whoever sleeps sets a flag in a socket,  *)
(* and is only woken by those who see the flag, which they clear.          *)
(***************************************************************************)
EXTENDS Integers, Sequences, FiniteSets, FiniteSetsExt, SequencesExt

CONSTANTS
  Proc,     \* processes, of one thread each
  NSock,    \* LA_NSOCK
  NFd,      \* LA_NFD, for sockets
  Port,     \* port numbers; a stream socket that connects needs none
  Cap,      \* LA_SOCK_RECV_BUF
  NDgram,   \* LA_UDP_DGRAM_QUEUE
  Backlog,  \* the backlog of a listener
  MaxLen,   \* bound: bytes in one call
  Types,    \* bound: types of sockets: "stream", "dgram", "raw", "packet"
  Via,      \* system calls that send: each has one buffer for all processes
  Wrap,     \* bound: the bytes of a stream are counted modulo Wrap
  Kinds,    \* bound: groups of operations that happen
  Orderly,  \* environment: see Untouched, Empty, Vacant and the actions
  None

Sock == 1 .. NSock

VARIABLES
  sock,  \* la_sockets
  fds,   \* the descriptors each process has on each socket
  call   \* the call each process sleeps in, or was woken in

vars == <<sock, fds, call>>

(* shut: the slot was given back by shutdown, which keeps the descriptor.  *)
Free == [used |-> FALSE, shut |-> FALSE]

(* A byte is its number in the stream, or Wrap when it is another's; a     *)
(* datagram is the port it comes from and whether it is the one sent.      *)
NewSock(type) ==
  [used |-> TRUE, refs |-> 1, type |-> type, state |-> "closed", port |-> None, to |-> None,
   peer |-> None, buf |-> <<>>, eof |-> FALSE, queue |-> <<>>, grams |-> <<>>, wait |-> {},
   sent |-> 0, got |-> 0]

NoCall == [op |-> "none"]

TypeOK ==
  /\ \A s \in Sock :
       \/ ~sock[s].used /\ DOMAIN sock[s] = DOMAIN Free
       \/ /\ sock[s].type \in {"stream", "dgram", "raw", "packet"}
          /\ sock[s].refs \in 0 .. NFd * Cardinality(Proc)
          /\ sock[s].state \in {"closed", "listen", "established"}
          /\ sock[s].port \in Port \cup {None} /\ sock[s].to \in Port \cup {None}
          /\ sock[s].peer \in Sock \cup {None}
          /\ Len(sock[s].buf) <= Cap /\ Len(sock[s].grams) <= NDgram
          /\ Len(sock[s].queue) <= Backlog
          /\ sock[s].wait \subseteq {"recv", "send", "accept"}
          /\ sock[s].sent \in 0 .. Wrap - 1 /\ sock[s].got \in 0 .. Wrap - 1
  /\ fds \in [Proc -> [Sock -> 0 .. NFd]]
  /\ \A p \in Proc :
       \/ call[p] = NoCall
       \/ call[p] \in [op : {"recv", "accept"}, s : Sock, asleep : BOOLEAN]
       \/ call[p] \in [op : {"send"}, s : Sock, to : Sock, via : Via, left : 1 .. MaxLen,
                       whole : BOOLEAN, asleep : BOOLEAN]

Init ==
  /\ sock = [s \in Sock |-> Free]
  /\ fds = [p \in Proc |-> [s \in Sock |-> 0]]
  /\ call = [p \in Proc |-> NoCall]

-----------------------------------------------------------------------------
(* A record m of the variables is changed by one operation after another.  *)

Now == [sock |-> sock, fds |-> fds, call |-> call]
Become(m) == sock' = m.sock /\ fds' = m.fds /\ call' = m.call

InUse(m) == {s \in Sock : m.sock[s].used}
Lowest(m) == Min(Sock \ InUse(m))

(* Whoever waits on socket s, if the flag says that somebody does.         *)
Notified(m, s, op) ==
  IF op \notin m.sock[s].wait THEN m
  ELSE [m EXCEPT !.sock[s].wait = @ \ {op},
                 !.call = [p \in Proc |-> IF @[p].op = op /\ @[p].s = s
                                          THEN [@[p] EXCEPT !.asleep = FALSE] ELSE @[p]]]

Asleep(m, p, c) ==
  [m EXCEPT !.sock[c.s].wait = @ \cup {c.op}, !.call[p] = [c EXCEPT !.asleep = TRUE]]
Done(m, p) == [m EXCEPT !.call[p] = NoCall]

(* la_sock_alloc and a descriptor.                                         *)
Given(m, p, s, type) ==
  [m EXCEPT !.sock[s] = NewSock(type), !.fds[p][s] = 1]

(* la_fd_prune_stale_sockets.                                              *)
Pruned(m, p) ==
  [m EXCEPT !.fds[p] = [s \in Sock |-> IF m.sock[s].used THEN @[s] ELSE 0]]

(* la_sock_close.                                                          *)
Closed(m, s, shut) ==
  LET q == m.sock[s].peer
      told == IF q = None THEN m
              ELSE [Notified(Notified([m EXCEPT !.sock[q].eof = TRUE], q, "recv"), q, "send")
                      EXCEPT !.sock[q].peer = None]
  IN  IF ~m.sock[s].used THEN m
      ELSE IF m.sock[s].refs > 1 THEN [m EXCEPT !.sock[s].refs = @ - 1]
      ELSE [told EXCEPT !.sock[s] = [Free EXCEPT !.shut = shut]]

(* A call of p: the one it sleeps or was woken in, or a new one of kind op *)
(* on a socket of its own.                                                 *)
Idle(p) == call[p] = NoCall
Holds(p, s) == Idle(p) /\ fds[p][s] > 0 /\ sock[s].used
Entering(p, op) ==
  IF Idle(p) THEN {[op |-> op, s |-> s, asleep |-> FALSE] : s \in {x \in Sock : Holds(p, x)}}
  ELSE {c \in {call[p]} : c.op = op /\ ~c.asleep}

(* The buffer of a sending call is overwritten by the next such call.      *)
Untouched(via) == Orderly => \A q \in Proc : call[q].op = "send" => call[q].via # via
Overwritten(m, via) ==
  [m EXCEPT !.call = [q \in Proc |-> IF @[q].op = "send" /\ @[q].via = via
                                     THEN [@[q] EXCEPT !.whole = FALSE] ELSE @[q]]]
Sending(s, to, left) ==
  {[op |-> "send", s |-> s, to |-> to, via |-> v, left |-> left, whole |-> TRUE,
    asleep |-> FALSE] : v \in {w \in Via : Untouched(w)}}

(* Nobody has a descriptor of the slot left from before a shutdown, and no *)
(* sender is about to find that its receiver is gone.                      *)
Vacant(m, s) ==
  Orderly => \A q \in Proc : m.fds[q][s] = 0 /\ ~(call[q].op = "send" /\ call[q].to = s)

(* Nobody loses what only this socket's owner can give: the connections    *)
(* in the queue of a listener, the datagram of a sender that waits here,   *)
(* the room a reader has made for a sender that has not run yet.           *)
Empty(m, s) ==
  Orderly /\ m.sock[s].used /\ m.sock[s].refs = 1 =>
    /\ m.sock[s].queue = <<>>
    /\ \A q \in Proc : m.call[q].op = "send" /\ m.call[q].to = s =>
         m.sock[s].type = "stream" /\ Len(m.sock[s].buf) = Cap

NFds(m, p) == SumFunction(m.fds[p])
-----------------------------------------------------------------------------
(* Sockets.  A process forgets the descriptors of its own that shutdown    *)
(* has left, and takes the lowest free slots.                              *)
Socket(p, type) ==
  LET m == Pruned(Now, p)
  IN  /\ "socket" \in Kinds /\ Idle(p)
      /\ IF InUse(m) = Sock \/ NFds(m, p) = NFd THEN Become(m)
         ELSE Vacant(m, Lowest(m)) /\ Become(Given(m, p, Lowest(m), type))

(* An end of a connection.                                                 *)
Half(peer) == [NewSock("stream") EXCEPT !.state = "established", !.peer = peer]

SocketPair(p) ==
  LET m == Pruned(Now, p)
      s == Lowest(m)
      q == Lowest([m EXCEPT !.sock[s].used = TRUE])
  IN  /\ "pair" \in Kinds /\ Idle(p)
      /\ IF Cardinality(Sock \ InUse(m)) < 2 \/ NFds(m, p) + 2 > NFd THEN Become(m)
         ELSE /\ Vacant(m, s) /\ Vacant(m, q)
              /\ Become([m EXCEPT !.sock[s] = Half(q), !.sock[q] = Half(s),
                                  !.fds[p][s] = 1, !.fds[p][q] = 1])

(* Any port may be bound, also one that another socket has.                *)
Bind(p, s, port) ==
  /\ "bind" \in Kinds /\ Holds(p, s) /\ sock[s].type # "packet"
  /\ Become([Now EXCEPT !.sock[s].port = port])

Listen(p, s) ==
  /\ "bind" \in Kinds /\ Holds(p, s) /\ sock[s].type = "stream" /\ sock[s].port # None
  /\ Orderly => sock[s].state # "established"
  /\ Become([Now EXCEPT !.sock[s].state = "listen"])

Listeners(port) ==
  {l \in InUse(Now) : sock[l].type = "stream" /\ sock[l].state = "listen" /\ sock[l].port = port}

(* The other end is made at once and waits in the queue of the listener.   *)
Connected(m, s, l, child) ==
  Notified([m EXCEPT !.sock[child] = [Half(s) EXCEPT !.port = m.sock[l].port],
                     !.sock[s].state = "established", !.sock[s].peer = child,
                     !.sock[l].queue = Append(@, child)], l, "accept")

Connect(p, s, port) ==
  LET l == Min(Listeners(port))
  IN  /\ Holds(p, s) /\ sock[s].type = "stream"
      /\ Orderly => sock[s].state = "closed"
      /\ Listeners(port) # {}
      /\ Len(sock[l].queue) < Backlog
      /\ InUse(Now) # Sock /\ Vacant(Now, Lowest(Now))
      /\ Become(Connected(Now, s, l, Lowest(Now)))

(* A port nobody has, or none when there is none left.                     *)
AutoPorts(s) ==
  LET unused == Port \ {sock[x].port : x \in InUse(Now)}
  IN  IF sock[s].port # None THEN {sock[s].port} ELSE IF unused = {} THEN {None} ELSE unused

ConnectTo(p, s, port) ==
  /\ "bind" \in Kinds /\ Holds(p, s) /\ sock[s].type = "dgram"
  /\ \E mine \in AutoPorts(s) :
       Become([Now EXCEPT !.sock[s].to = port, !.sock[s].port = mine])

(* What la_sock_accept leaves: a caller asleep, or a queue without its head. *)
Dequeued(p, c) ==
  IF sock[c.s].queue = <<>> THEN Asleep(Now, p, c)
  ELSE Done([Now EXCEPT !.sock[c.s].queue = Tail(@)], p)

Accept(p, c) ==
  LET m == Dequeued(p, c)
      child == Head(sock[c.s].queue)
  IN  /\ sock[c.s].type = "stream" /\ sock[c.s].state = "listen"
      /\ IF sock[c.s].queue = <<>> THEN Become(m)
         ELSE IF NFds(m, p) = NFd THEN Become(Closed(m, child, FALSE))
         ELSE Become([m EXCEPT !.fds[p][child] = @ + 1])

-----------------------------------------------------------------------------
(* Bytes.  A sender that is woken looks at the socket it had found, even   *)
(* when that has been closed, and stops if it is.                          *)
Written(m, p, c) ==
  LET n == Min({c.left, Cap - Len(m.sock[c.to].buf)})
      byte(i) == IF c.whole THEN (m.sock[c.s].sent + i - 1) % Wrap ELSE Wrap
      w == [m EXCEPT !.sock[c.to].buf = @ \o [i \in 1 .. n |-> byte(i)],
                     !.sock[c.s].sent = (@ + n) % Wrap]
      told == IF n > 0 THEN Notified(w, c.to, "recv") ELSE w
  IN  IF ~m.sock[c.to].used \/ m.sock[c.to].state = "closed" THEN Done(m, p)
      ELSE IF n = c.left THEN Done(told, p)
      ELSE Asleep(told, p, [c EXCEPT !.left = @ - n])

Send(p) ==
  \E s \in Sock, len \in 1 .. MaxLen :
    /\ Holds(p, s) /\ sock[s].type = "stream" /\ sock[s].state = "established"
    /\ sock[s].peer # None
    /\ \E c \in Sending(s, sock[s].peer, len) : Become(Written(Overwritten(Now, c.via), p, c))

Recv(p, c) ==
  LET peer == sock[c.s].peer
      Taken(n) == [Now EXCEPT !.sock[c.s].buf = SubSeq(@, n + 1, Len(@)),
                              !.sock[c.s].got = (@ + n) % Wrap]
  IN  /\ sock[c.s].type = "stream" /\ sock[c.s].state = "established"
      /\ \/ sock[c.s].buf = <<>> /\ ~sock[c.s].eof /\ Become(Asleep(Now, p, c))
         \/ sock[c.s].buf = <<>> /\ sock[c.s].eof /\ Become(Done(Now, p))
         \/ \E n \in 1 .. Len(sock[c.s].buf) :
              Become(Done(IF peer = None THEN Taken(n) ELSE Notified(Taken(n), peer, "send"), p))

-----------------------------------------------------------------------------
(* Datagrams: to a socket connected to the sender's port, or else to one   *)
(* that is not connected.                                                  *)
Found(m, port, from) ==
  LET bound == {s \in InUse(m) : m.sock[s].type = "dgram" /\ m.sock[s].port = port}
      connected == {s \in bound : m.sock[s].to = from}
      open == {s \in bound : m.sock[s].to = None}
  IN  IF connected # {} THEN Min(connected) ELSE IF open # {} THEN Min(open) ELSE None

Queued(m, p, c) ==
  LET dgram == <<m.sock[c.s].port, c.whole>>
  IN  IF ~m.sock[c.to].used THEN Done(m, p)
      ELSE IF Len(m.sock[c.to].grams) >= NDgram THEN Asleep(m, p, c)
      ELSE Done(Notified([m EXCEPT !.sock[c.to].grams = Append(@, dgram)], c.to, "recv"), p)

SendTo(p, s, port) ==
  /\ Holds(p, s) /\ sock[s].type = "dgram"
  /\ \E mine \in AutoPorts(s) :
       LET m == [Now EXCEPT !.sock[s].port = mine]
           to == Found(m, port, mine)
       IN  IF mine = None \/ to = None THEN Become(m)
           ELSE \E c \in Sending(s, to, 1) : Become(Queued(Overwritten(m, c.via), p, c))

(* A sender goes on.                                                       *)
Resume(p) ==
  /\ call[p].op = "send" /\ ~call[p].asleep
  /\ IF sock[call[p].s].type = "stream" THEN Become(Written(Now, p, call[p]))
     ELSE Become(Queued(Now, p, call[p]))

(* Every sender is woken, of whatever socket.  A packet socket never waits. *)
RecvFrom(p, c) ==
  LET WakeSender(s, m) == Notified(m, s, "send")
      taken == [Now EXCEPT !.sock[c.s].grams = Tail(@)]
  IN  /\ sock[c.s].type # "stream"
      /\ \/ /\ sock[c.s].grams = <<>> /\ sock[c.s].type # "packet"
            /\ Become(Asleep(Now, p, c))
         \/ /\ sock[c.s].grams # <<>>
            /\ Become(Done(FoldSet(WakeSender, taken, InUse(taken)), p))

Receive(p) ==
  \E c \in Entering(p, "recv") :
    \/ Recv(p, c)
    \/ RecvFrom(p, c)

(* A raw socket sends to all raw sockets that have room, itself included.  *)
SendRaw(p, s) ==
  LET Put(d, m) == IF sock[d].type # "raw" \/ Len(sock[d].grams) >= NDgram THEN m
                   ELSE Notified([m EXCEPT !.sock[d].grams = Append(@, <<None, TRUE>>)], d, "recv")
  IN  /\ Holds(p, s) /\ sock[s].type = "raw"
      /\ Become(FoldSet(Put, Now, InUse(Now)))

(* A packet socket gets the reply to the request that it sends.            *)
SendPacket(p, s) ==
  /\ Holds(p, s) /\ sock[s].type = "packet" /\ Len(sock[s].grams) < NDgram
  /\ Become(Notified([Now EXCEPT !.sock[s].grams = Append(@, <<None, TRUE>>)], s, "recv"))

-----------------------------------------------------------------------------
(* Descriptors.                                                            *)
Dupped(m, s, n) == IF m.sock[s].used THEN [m EXCEPT !.sock[s].refs = @ + n] ELSE m

Dup(p, s) ==
  /\ "dup" \in Kinds /\ Idle(p) /\ fds[p][s] > 0 /\ NFds(Now, p) < NFd
  /\ Become(Dupped([Now EXCEPT !.fds[p][s] = @ + 1], s, 1))

(* q is a new process.                                                     *)
Fork(p, q) ==
  LET DupAll(s, m) == Dupped(m, s, fds[p][s])
  IN  /\ "fork" \in Kinds /\ Idle(p) /\ NFds(Now, p) > 0
      /\ q # p /\ Idle(q) /\ NFds(Now, q) = 0
      /\ Become(FoldSet(DupAll, [Now EXCEPT !.fds[q] = fds[p]], Sock))

(* Also what exit does, descriptor by descriptor.                          *)
Close(p, s) ==
  /\ Idle(p) /\ fds[p][s] > 0 /\ Empty(Now, s)
  /\ Become([Closed(Now, s, FALSE) EXCEPT !.fds[p][s] = @ - 1])

(* The socket is closed; the descriptor stays.                             *)
Shutdown(p, s) ==
  /\ "shutdown" \in Kinds /\ Holds(p, s) /\ Empty(Now, s)
  /\ Orderly => sock[s].refs = 1
  /\ Become(Closed(Now, s, TRUE))

(* A signal wakes whoever sleeps.  Only accept looks at it, and takes back *)
(* the flag, of which others may depend.                                   *)
Disturb(p) ==
  /\ "signals" \in Kinds /\ ~Idle(p) /\ call[p].asleep
  /\ Become([Now EXCEPT !.call[p].asleep = FALSE])
Signal(p) ==
  /\ "signals" \in Kinds /\ call[p].op = "accept"
  /\ Orderly => \A q \in Proc \ {p} : call[q].op = "accept" => call[q].s # call[p].s
  /\ Become(Done([Now EXCEPT !.sock[call[p].s].wait = @ \ {"accept"}], p))

Next ==
  \E p \in Proc :
    \/ \E t \in Types : Socket(p, t)
    \/ SocketPair(p)
    \/ \E s \in Sock, port \in Port :
         \/ Bind(p, s, port)
         \/ Connect(p, s, port)
         \/ ConnectTo(p, s, port)
         \/ SendTo(p, s, port)
    \/ \E s \in Sock :
         \/ Listen(p, s)
         \/ SendRaw(p, s)
         \/ SendPacket(p, s)
         \/ Dup(p, s)
         \/ Close(p, s)
         \/ Shutdown(p, s)
    \/ \E c \in Entering(p, "accept") : Accept(p, c)
    \/ Receive(p)
    \/ Send(p)
    \/ Resume(p)
    \/ \E q \in Proc : Fork(p, q)
    \/ Disturb(p)
    \/ Signal(p)

Spec == Init /\ [][Next]_vars

-----------------------------------------------------------------------------
Places(s) ==
  {<<l, i>> \in InUse(Now) \X (1 .. Backlog) : i <= Len(sock[l].queue) /\ sock[l].queue[i] = s}
Numbered(s) == \A i \in 1 .. Len(sock[s].buf) : sock[s].buf[i] = (sock[s].got + i - 1) % Wrap

(* A socket counts its descriptors and its places in queues, and is freed  *)
(* by the last; the ends of a connection know each other until one closes, *)
(* which the other sees; what is sent arrives as it was sent, in order,    *)
(* none of it lost.                                                        *)
SocketsSound ==
  \A s \in Sock :
    IF ~sock[s].used THEN sock[s].shut \/ \A p \in Proc : fds[p][s] = 0
    ELSE LET q == sock[s].peer
         IN  /\ sock[s].refs = SumFunction([p \in Proc |-> fds[p][s]]) + Cardinality(Places(s))
             /\ q # None => /\ sock[q].used /\ sock[q].peer = s
                            /\ sock[s].state = "established"
                            /\ (sock[q].got + Len(sock[q].buf)) % Wrap = sock[s].sent
             /\ sock[s].type = "stream" /\ sock[s].state = "established" =>
                  sock[s].eof = (q = None)
             /\ Numbered(s)
             /\ \A i \in 1 .. Len(sock[s].grams) : sock[s].grams[i][2]

(* Nobody sleeps for what is there: bytes, an end, a datagram, room or a   *)
(* connection.                                                             *)
SleepersWait ==
  \A p \in Proc : ~Idle(p) /\ call[p].asleep =>
    LET s == call[p].s
    IN  CASE call[p].op = "recv" -> sock[s].buf = <<>> /\ ~sock[s].eof /\ sock[s].grams = <<>>
          [] call[p].op = "accept" -> sock[s].queue = <<>>
          [] call[p].op = "send" ->
               /\ sock[call[p].to].used
               /\ IF sock[s].type = "stream" THEN Len(sock[call[p].to].buf) = Cap
                  ELSE Len(sock[call[p].to].grams) = NDgram
=============================================================================
