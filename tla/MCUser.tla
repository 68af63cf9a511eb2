------------------------------- MODULE MCUser -------------------------------
(***************************************************************************)
(* A second bundle of components, put together like MCKernel.  The         *)
(* variables x1, x2, ... stand for those of the component in focus, in the *)
(* order in which its module declares them; the others are None.           *)
(***************************************************************************)
EXTENDS Integers, FiniteSets, TLC

CONSTANTS One, Actor, Couple, Trio, None

VARIABLES focus, x1, x2, x3, x4

vars == <<focus, x1, x2, x3, x4>>

(* A listener, a client and the socket accept returns.                     *)
Stream == INSTANCE Socket WITH
            Proc <- Actor, Port <- Couple, NSock <- 3, Type <- {"stream"}, Cap <- 1, NPacket <- 1,
            Backlog <- 1, MaxLen <- 1, Orderly <- TRUE,
            sock <- x1, fds <- x2, call <- x3
Dgram == INSTANCE Socket WITH
           Proc <- Actor, Port <- Couple, NSock <- 2, Type <- {"dgram"}, Cap <- 1, NPacket <- 1,
           Backlog <- 1, MaxLen <- 1, Orderly <- TRUE,
           sock <- x1, fds <- x2, call <- x3

(* Three processes and two pages; two processes and shared memory.         *)
Space == INSTANCE AddressSpace WITH
           NProc <- 3, Page <- Couple, NMap <- 1, NSeg <- 1, NAttach <- 1, Orderly <- TRUE,
           Kinds <- {"fork", "clone", "mmap", "exec", "exit"}, Prot <- {"r"},
           proc <- x1, free <- x2, seg <- x3, att <- x4
Shm == INSTANCE AddressSpace WITH
         NProc <- 2, Page <- Trio, NMap <- 2, NSeg <- 1, NAttach <- 1, Orderly <- TRUE,
         Kinds <- {"clone", "brk", "mmap", "shm", "exit"}, Prot <- {"r", "rw"},
         proc <- x1, free <- x2, seg <- x3, att <- x4

(* Threads, vfork, exec and who frees what; joins and kills; alarms.       *)
Family == INSTANCE LaProc WITH
            NProc <- 4, Asid <- Trio, NPage <- 12, Orderly <- TRUE,
            Kinds <- {"fork", "clone", "exit", "group", "wait"},
            proc <- x1, cur <- x2, space <- x3, pool <- x4
Image == INSTANCE LaProc WITH
           NProc <- 3, Asid <- Trio, NPage <- 10, Orderly <- TRUE,
           Kinds <- {"fork", "clone", "vfork", "exec", "exit", "group", "wait"},
           proc <- x1, cur <- x2, space <- x3, pool <- x4
Kills == INSTANCE LaProc WITH
           NProc <- 3, Asid <- Trio, NPage <- 8, Orderly <- TRUE,
           Kinds <- {"fork", "clone", "exit", "wait", "join", "kill"},
           proc <- x1, cur <- x2, space <- x3, pool <- x4
Alarms == INSTANCE LaProc WITH
            NProc <- 3, Asid <- Trio, NPage <- 9, Orderly <- TRUE,
            Kinds <- {"fork", "exit", "wait", "nano", "sigwait", "tkill", "alarm"},
            proc <- x1, cur <- x2, space <- x3, pool <- x4

(* Mutexes of three processes; timeouts, requeues, joins and exits; deaths   *)
(* in the middle of the protocol; handlers; alarms, naps and blocked ones. *)
Mutexes == INSTANCE Futex WITH
             NProc <- 3, Lock <- One, Kinds <- {"lock"}, Orderly <- TRUE,
             word <- x1, proc <- x2
Waits == INSTANCE Futex WITH
           NProc <- 2, Lock <- One, Kinds <- {"lock", "timed", "join", "requeue", "exit"},
           Orderly <- TRUE, word <- x1, proc <- x2
Deaths == INSTANCE Futex WITH
            NProc <- 2, Lock <- One, Kinds <- {"lock", "kill"}, Orderly <- TRUE,
            word <- x1, proc <- x2
Handlers == INSTANCE Futex WITH
          NProc <- 2, Lock <- One, Kinds <- {"kill", "action"}, Orderly <- TRUE,
          word <- x1, proc <- x2
Timers == INSTANCE Futex WITH
            NProc <- 2, Lock <- One, Kinds <- {"alarm", "mask", "nap", "sigwait"},
            Orderly <- TRUE, word <- x1, proc <- x2

(* The sockets of the LoongArch port: a listener, a client and the socket  *)
(* accept returns; a pair; datagrams; raw and packet sockets.              *)
LaStream == INSTANCE LaSocket WITH
            Proc <- Actor, Port <- One, NSock <- 3, NFd <- 2, Cap <- 1, NDgram <- 1,
            Backlog <- 1, MaxLen <- 2, Types <- {"stream"}, Via <- {"write"},
            Wrap <- 2, Kinds <- {"socket", "bind", "fork", "signals"}, Orderly <- TRUE,
            sock <- x1, fds <- x2, call <- x3
LaPair == INSTANCE LaSocket WITH
          Proc <- Actor, Port <- One, NSock <- 2, NFd <- 2, Cap <- 2, NDgram <- 1,
          Backlog <- 1, MaxLen <- 2, Types <- {"stream"}, Via <- {"write"},
          Wrap <- 3, Kinds <- {"pair", "dup", "fork", "shutdown", "signals"}, Orderly <- TRUE,
          sock <- x1, fds <- x2, call <- x3
LaDgram == INSTANCE LaSocket WITH
           Proc <- Actor, Port <- Couple, NSock <- 2, NFd <- 2, Cap <- 1, NDgram <- 1,
           Backlog <- 1, MaxLen <- 1, Types <- {"dgram"}, Via <- {"write", "sendto"},
           Wrap <- 2, Kinds <- {"socket", "bind", "fork"}, Orderly <- TRUE,
           sock <- x1, fds <- x2, call <- x3
LaRaw == INSTANCE LaSocket WITH
         Proc <- Actor, Port <- Couple, NSock <- 2, NFd <- 2, Cap <- 1, NDgram <- 1,
         Backlog <- 1, MaxLen <- 1, Types <- {"raw", "packet"}, Via <- {"write"},
         Wrap <- 2, Kinds <- {"socket", "dup", "fork", "shutdown", "signals"}, Orderly <- TRUE,
         sock <- x1, fds <- x2, call <- x3
(* Polls, with a second CPU and without.                                   *)
PollSmp == INSTANCE Poll WITH
             Proc <- One, Pipe <- {1}, Sock <- {2}, Size <- 1, MaxLen <- 2, MaxTicks <- 1,
             Smp <- TRUE, Orderly <- TRUE, pipe <- x1, sock <- x2, call <- x3
PollUp == INSTANCE Poll WITH
            Proc <- One, Pipe <- {1}, Sock <- Couple, Size <- 1, MaxLen <- 2, MaxTicks <- 1,
            Smp <- FALSE, Orderly <- TRUE, pipe <- x1, sock <- x2, call <- x3

Foci == {"stream", "dgram", "space", "shm", "family", "image", "kills", "alarms",
         "mutexes", "waits", "deaths", "handlers", "timers",
         "la_stream", "la_pair", "la_dgram", "la_raw", "poll_smp", "poll_up"}

Init ==
  /\ focus \in Foci
  /\ \/ focus = "stream" /\ Stream!Init /\ x4 = None
     \/ focus = "dgram" /\ Dgram!Init /\ x4 = None
     \/ focus = "space" /\ Space!Init
     \/ focus = "shm" /\ Shm!Init
     \/ focus = "family" /\ Family!Init
     \/ focus = "image" /\ Image!Init
     \/ focus = "kills" /\ Kills!Init
     \/ focus = "alarms" /\ Alarms!Init
     \/ focus = "mutexes" /\ Mutexes!Init /\ x3 = None /\ x4 = None
     \/ focus = "waits" /\ Waits!Init /\ x3 = None /\ x4 = None
     \/ focus = "deaths" /\ Deaths!Init /\ x3 = None /\ x4 = None
     \/ focus = "handlers" /\ Handlers!Init /\ x3 = None /\ x4 = None
     \/ focus = "timers" /\ Timers!Init /\ x3 = None /\ x4 = None
     \/ focus = "la_stream" /\ LaStream!Init /\ x4 = None
     \/ focus = "la_pair" /\ LaPair!Init /\ x4 = None
     \/ focus = "la_dgram" /\ LaDgram!Init /\ x4 = None
     \/ focus = "la_raw" /\ LaRaw!Init /\ x4 = None
     \/ focus = "poll_smp" /\ PollSmp!Init /\ x4 = None
     \/ focus = "poll_up" /\ PollUp!Init /\ x4 = None

Next ==
  /\ UNCHANGED focus
  /\ \/ focus = "stream" /\ Stream!Next /\ UNCHANGED x4
     \/ focus = "dgram" /\ Dgram!Next /\ UNCHANGED x4
     \/ focus = "space" /\ Space!Next
     \/ focus = "shm" /\ Shm!Next
     \/ focus = "family" /\ Family!Next
     \/ focus = "image" /\ Image!Next
     \/ focus = "kills" /\ Kills!Next
     \/ focus = "alarms" /\ Alarms!Next
     \/ focus = "mutexes" /\ Mutexes!Next /\ UNCHANGED <<x3, x4>>
     \/ focus = "waits" /\ Waits!Next /\ UNCHANGED <<x3, x4>>
     \/ focus = "deaths" /\ Deaths!Next /\ UNCHANGED <<x3, x4>>
     \/ focus = "handlers" /\ Handlers!Next /\ UNCHANGED <<x3, x4>>
     \/ focus = "timers" /\ Timers!Next /\ UNCHANGED <<x3, x4>>
     \/ focus = "la_stream" /\ LaStream!Next /\ UNCHANGED x4
     \/ focus = "la_pair" /\ LaPair!Next /\ UNCHANGED x4
     \/ focus = "la_dgram" /\ LaDgram!Next /\ UNCHANGED x4
     \/ focus = "la_raw" /\ LaRaw!Next /\ UNCHANGED x4
     \/ focus = "poll_smp" /\ PollSmp!Next /\ UNCHANGED x4
     \/ focus = "poll_up" /\ PollUp!Next /\ UNCHANGED x4

Spec == Init /\ [][Next]_vars

Symmetry == Permutations(Actor) \cup Permutations(Couple) \cup Permutations(Trio)

(* What distinguishes the states of a component.  Only differences of the  *)
(* byte counts of a socket are ever looked at: they are made relative to   *)
(* what the receiver has got.  What shutdown has done is never looked at   *)
(* in a socket without a peer, and a datagram socket never has one.        *)
Relative(sock, s) ==
  CASE ~sock[s].used -> sock[s]
    [] sock[s].used /\ sock[s].peer = None ->
         [sock[s] EXCEPT !.rclosed = FALSE, !.wclosed = FALSE, !.sent = 0, !.got = 0,
                         !.buf = [i \in DOMAIN @ |-> @[i] - sock[s].got]]
    [] OTHER ->
         [sock[s] EXCEPT !.buf = [i \in DOMAIN @ |-> @[i] - sock[s].got], !.got = 0,
                         !.sent = @ - sock[sock[s].peer].got]

View ==
  IF focus \in {"stream", "dgram"}
  THEN <<focus, [s \in DOMAIN x1 |-> Relative(x1, s)], x2, x3>>
  ELSE vars

-----------------------------------------------------------------------------
(* The properties of the components.                                       *)

TypeOK ==
  CASE focus = "stream" -> Stream!TypeOK
    [] focus = "dgram" -> Dgram!TypeOK
    [] focus = "space" -> Space!TypeOK
    [] focus = "shm" -> Shm!TypeOK
    [] focus = "family" -> Family!TypeOK
    [] focus = "image" -> Image!TypeOK
    [] focus = "kills" -> Kills!TypeOK
    [] focus = "alarms" -> Alarms!TypeOK
    [] focus = "mutexes" -> Mutexes!TypeOK
    [] focus = "waits" -> Waits!TypeOK
    [] focus = "deaths" -> Deaths!TypeOK
    [] focus = "handlers" -> Handlers!TypeOK
    [] focus = "timers" -> Timers!TypeOK
    [] focus = "la_stream" -> LaStream!TypeOK
    [] focus = "la_pair" -> LaPair!TypeOK
    [] focus = "la_dgram" -> LaDgram!TypeOK
    [] focus = "la_raw" -> LaRaw!TypeOK
    [] focus = "poll_smp" -> PollSmp!TypeOK
    [] focus = "poll_up" -> PollUp!TypeOK

SocketsSound ==
  /\ focus = "stream" => Stream!SocketsSound
  /\ focus = "dgram" => Dgram!SocketsSound
  /\ focus = "la_stream" => LaStream!SocketsSound
  /\ focus = "la_pair" => LaPair!SocketsSound
  /\ focus = "la_dgram" => LaDgram!SocketsSound
  /\ focus = "la_raw" => LaRaw!SocketsSound
SleepersWait ==
  /\ focus = "family" => Family!SleepersWait
  /\ focus = "image" => Image!SleepersWait
  /\ focus = "kills" => Kills!SleepersWait
  /\ focus = "alarms" => Alarms!SleepersWait
  /\ focus = "mutexes" => Mutexes!SleepersWait
  /\ focus = "waits" => Waits!SleepersWait
  /\ focus = "deaths" => Deaths!SleepersWait
  /\ focus = "handlers" => Handlers!SleepersWait
  /\ focus = "timers" => Timers!SleepersWait
  /\ focus = "stream" => Stream!SleepersWait
  /\ focus = "dgram" => Dgram!SleepersWait
  /\ focus = "la_stream" => LaStream!SleepersWait
  /\ focus = "la_pair" => LaPair!SleepersWait
  /\ focus = "la_dgram" => LaDgram!SleepersWait
  /\ focus = "la_raw" => LaRaw!SleepersWait
  /\ focus = "poll_smp" => PollSmp!SleepersWait
  /\ focus = "poll_up" => PollUp!SleepersWait
PagesExact ==
  /\ focus = "family" => Family!PagesExact
  /\ focus = "image" => Image!PagesExact
  /\ focus = "kills" => Kills!PagesExact
  /\ focus = "alarms" => Alarms!PagesExact
  /\ focus = "space" => Space!PagesExact
  /\ focus = "shm" => Shm!PagesExact
SpacesSound ==
  /\ focus = "family" => Family!SpacesSound
  /\ focus = "image" => Image!SpacesSound
  /\ focus = "kills" => Kills!SpacesSound
  /\ focus = "alarms" => Alarms!SpacesSound
  /\ focus = "space" => Space!SpacesSound
  /\ focus = "shm" => Shm!SpacesSound
GroupDies ==
  /\ focus = "space" => Space!GroupDies
  /\ focus = "shm" => Shm!GroupDies
=============================================================================
