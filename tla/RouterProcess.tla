--------------------------- MODULE RouterProcess ---------------------------
(***************************************************************************)
(* The threads of one router process, which its window switches on and off *)
(* (GUIRouter.c, router.c), and the descriptors they share                 *)
(* (router_socket_channel.c).                                              *)
(*                                                                         *)
(* On creates a router thread, which makes new tables and a new channel,   *)
(* probes its neighbours, and creates the table dispatcher and the         *)
(* advertiser.  Off cancels the three.  Cancellation is deferred: a thread *)
(* that has been cancelled ends where it next calls sleep, accept, recv,   *)
(* connect, send or close, and what it holds stays as it is.  The validity *)
(* thread, which has neither lock nor descriptor and is never cancelled,   *)
(* is ForeignAgent's.  The router is an agent: the process of one that is  *)
(* not has no advertiser, and Off ends it.                                 *)
(*                                                                         *)
(* What packets say is Rip's and Packets' matter.  Other processes may     *)
(* connect, accept or refuse at any time.                                  *)
(***************************************************************************)
EXTENDS Integers, FiniteSets

CONSTANTS
  MaxStarts,   \* bound: how often the router is switched on
  MaxRows,     \* bound: packets of one probe, or of one round of the dispatcher
  MaxBacklog,  \* bound: connections waiting at the listening socket
  MaxFd        \* the last descriptor a process may have

ASSUME BoundAssumption ==
  MaxStarts \in Nat /\ MaxRows \in Nat \ {0} /\ MaxBacklog \in Nat /\ MaxFd \in Nat

ERR == -1

Starts == 1 .. MaxStarts
Kinds == {"router", "table", "icmp"}
Threads == Kinds \X Starts
Fds == 0 .. MaxFd

Router(g) == <<"router", g>>
Table(g)  == <<"table", g>>
Icmp(g)   == <<"icmp", g>>

VARIABLES
  gui,        \* what the window does
  starts,     \* how often On was pressed
  current,    \* whose ThisRouter, ROUTERTable and CONNECTChan are installed
  server,     \* CONNECTChan->ServerSocket
  fds,        \* fds[n]: what the process has under the number n
  backlog,    \* connections waiting at the socket that listens
  mutex,      \* who has router_mtex
  pc,         \* where each thread is
  cancelled,  \* threads pthread_cancel was called for
  sock,       \* SocketConnection of a thread that sends, or DirectClientSocket
  left,       \* packets a thread has still to send
  down        \* the process has exited

vars == <<gui, starts, current, server, fds, backlog, mutex, pc, cancelled, sock,
          left, down>>

guiVars == <<gui, starts, current, cancelled>>
fdVars == <<server, fds, backlog>>

Free == <<"nobody", 0>>

Points == {"sleep", "connect", "close", "shut", "accept", "reclose", "recv", "rest"}

Places == Points \cup {"none", "new", "create", "reopen", "lock", "unlock", "dead"}

Init ==
  /\ gui = "off" /\ starts = 0 /\ current = 0
  /\ server = ERR
  /\ fds = [n \in Fds |-> "free"]
  /\ backlog = 0
  /\ mutex = Free
  /\ pc = [t \in Threads |-> "none"]
  /\ cancelled = {}
  /\ sock = [t \in Threads |-> ERR]
  /\ left = [t \in Threads |-> 0]
  /\ down = FALSE

-----------------------------------------------------------------------------
\* A thread that is cancelled when it has slept ends at its next point.
At(t, place) ==
  pc[t] = place /\ (place \in Points \ {"sleep"} => t \notin cancelled)

Goes(t, place) == pc' = [pc EXCEPT ![t] = place]

Exits == down' = TRUE /\ UNCHANGED <<fdVars, mutex, pc, sock, left>>

\* The lowest number that is free, as socket and accept choose it.
NewFds == {n \in Fds : fds[n] = "free" /\ \A m \in 0 .. n - 1 : fds[m] # "free"}

Kind(n) == IF n \in Fds THEN fds[n] ELSE "free"

Closed(n) == IF n \in Fds THEN [fds EXCEPT ![n] = "free"] ELSE fds

(***************************************************************************)
(* Plausible slips, against which the properties are tried.                *)
(***************************************************************************)

\* A refused connection is not closed.
AfterRefusalLeft(t) == "sleep"

\* Connections are counted down with the socket they waited at.
CloseFdUncounted(n) ==
  /\ fds' = Closed(n)
  /\ backlog' = backlog - 1
  /\ UNCHANGED server

\* The round of a dispatcher that has nobody to send to returns at once.
AfterLockReturning(t, rows) == IF rows > 0 THEN "sleep"
                               ELSE IF t[1] = "table" THEN "rest" ELSE "unlock"

\* The dispatcher takes the mutex for its first round only.
RestUnlocked(t) ==
  /\ At(t, "rest") /\ Goes(t, "sleep")
  /\ UNCHANGED <<guiVars, fdVars, mutex, sock, left, down>>

\* Off forgets the table dispatcher.
CancelledByOffTwo == Kinds \ {"table"}

\* The socket is not opened again.
AfterFailedAcceptGoOn == "accept"

-----------------------------------------------------------------------------
\* Connections that wait at a socket are lost with it.
CloseFd(n) ==
  /\ fds' = Closed(n)
  /\ backlog' = IF Kind(n) = "listening" THEN 0 ELSE backlog
  /\ UNCHANGED server

SomebodyListens == \E n \in Fds : fds[n] = "listening"

\* ROUTER_DetermineConnectivity is over, and threads have been created.
Serves(g) == pc[Table(g)] # "none"

-----------------------------------------------------------------------------
(***************************************************************************)
(* DispatchPacket, in whatever thread.                                     *)
(***************************************************************************)

\* Where a thread goes on when it has sent its last packet.
Finished(t) ==
  CASE t[1] = "table" -> "unlock"
    [] t[1] = "icmp" -> "sleep"
    [] t[1] = "router" -> IF Serves(t[2]) THEN "accept" ELSE "create"

PacketDone(t) ==
  /\ left' = [left EXCEPT ![t] = IF @ > 0 THEN @ - 1 ELSE 0]
  /\ sock' = [sock EXCEPT ![t] = ERR]
  /\ Goes(t, IF left[t] > 1 THEN "sleep" ELSE Finished(t))

Socket(t) ==
  /\ At(t, "sleep")
  /\ \E n \in NewFds :
       /\ fds' = [fds EXCEPT ![n] = "fresh"]
       /\ sock' = [sock EXCEPT ![t] = n]
  /\ Goes(t, "connect")
  /\ UNCHANGED <<guiVars, server, backlog, mutex, left, down>>

\* socket fails, and the packet is given up.
NoSocket(t) ==
  /\ At(t, "sleep") /\ NewFds = {}
  /\ PacketDone(t)
  /\ UNCHANGED <<guiVars, fdVars, mutex, down>>

\* connect and send.
Send(t) ==
  /\ At(t, "connect") /\ Kind(sock[t]) \in {"fresh", "unbound"}
  /\ fds' = [fds EXCEPT ![sock[t]] = "out"]
  /\ Goes(t, "close")
  /\ UNCHANGED <<guiVars, server, backlog, mutex, sock, left, down>>

\* Where a thread goes whose connection is refused.
AfterRefusal(t) == "close"

\* connect fails on a socket that listens or is connected, too.
Refused(t) ==
  /\ At(t, "connect")
  /\ Goes(t, AfterRefusal(t))
  /\ UNCHANGED <<guiVars, fdVars, mutex, sock, left, down>>

\* The peer has closed its socket meanwhile, or the number is another socket's.
SendError(t) == At(t, "connect") /\ Exits /\ UNCHANGED guiVars

Close(t) ==
  /\ At(t, "close")
  /\ CloseFd(sock[t])
  /\ PacketDone(t)
  /\ UNCHANGED <<guiVars, mutex, down>>

SenderStep(t) ==
  \/ Socket(t) \/ NoSocket(t) \/ Send(t) \/ Refused(t)
  \/ SendError(t) \/ Close(t)

-----------------------------------------------------------------------------
(***************************************************************************)
(* The router thread: ROUTER_init.                                         *)
(***************************************************************************)

\* InitServerSocket.  A port that is taken is no error here.
ServerSocket ==
  \E n \in NewFds :
    /\ fds' = [fds EXCEPT ![n] = IF SomebodyListens THEN "unbound" ELSE "listening"]
    /\ server' = n
    /\ UNCHANGED <<backlog>>

\* New tables and a new channel take the place of the old ones.
Begin(g) ==
  /\ At(Router(g), "new")
  /\ current' = g
  /\ ServerSocket
  /\ \E rows \in 0 .. MaxRows :
       /\ left' = [left EXCEPT ![Router(g)] = rows]
       /\ Goes(Router(g), IF rows > 0 THEN "sleep" ELSE "create")
  /\ UNCHANGED <<gui, starts, cancelled, mutex, sock, down>>

\* The first advertisement is sent at once.
CreateThreads(g) ==
  /\ At(Router(g), "create")
  /\ pc' = [pc EXCEPT ![Router(g)] = "shut", ![Table(g)] = "lock",
                      ![Icmp(g)] = "sleep"]
  /\ UNCHANGED <<guiVars, fdVars, mutex, sock, left, down>>

\* ROUTER_bringUpSocketIntf closes the socket first.
Shut(g) ==
  /\ At(Router(g), "shut")
  /\ CloseFd(server)
  /\ Goes(Router(g), "accept")
  /\ UNCHANGED <<guiVars, mutex, sock, left, down>>

(***************************************************************************)
(* WaitForEvents and the callback.                                         *)
(***************************************************************************)

\* Nobody closes the descriptor of an accepted connection.
Accept(g) ==
  /\ At(Router(g), "accept")
  /\ Kind(server) = "listening" /\ backlog > 0
  /\ \E n \in NewFds :
       /\ fds' = [fds EXCEPT ![n] = "in"]
       /\ sock' = [sock EXCEPT ![Router(g)] = n]
  /\ backlog' = backlog - 1
  /\ Goes(Router(g), "recv")
  /\ UNCHANGED <<guiVars, server, mutex, left, down>>

\* Where the router thread goes when it has closed the socket.
AfterFailedAccept == "reopen"

AcceptFails(g) ==
  /\ At(Router(g), "accept")
  /\ Kind(server) # "listening" \/ NewFds = {}
  /\ sock' = [sock EXCEPT ![Router(g)] = ERR]
  /\ Goes(Router(g), "reclose")
  /\ UNCHANGED <<guiVars, fdVars, mutex, left, down>>

Reclose(g) ==
  /\ At(Router(g), "reclose")
  /\ CloseFd(server)
  /\ Goes(Router(g), AfterFailedAccept)
  /\ UNCHANGED <<guiVars, mutex, sock, left, down>>

Reopen(g) ==
  /\ At(Router(g), "reopen")
  /\ ServerSocket
  /\ Goes(Router(g), "recv")
  /\ UNCHANGED <<guiVars, mutex, sock, left, down>>

NoServerSocket(g) ==
  /\ pc[Router(g)] \in {"new", "reopen"} /\ NewFds = {}
  /\ Exits /\ UNCHANGED guiVars

\* A row is taken under the mutex, another packet is handled here or sent on: to
\* a mobile unit or a router, or through the tunnel when the unit is not at home.
\* Without a connection the packet is zero, which no case handles.
Recv(g) ==
  /\ At(Router(g), "recv")
  /\ \/ sock[Router(g)] # ERR /\ Goes(Router(g), "lock") /\ UNCHANGED left
     \/ sock[Router(g)] # ERR /\ Goes(Router(g), "sleep")
        /\ \E sends \in 1 .. 2 : left' = [left EXCEPT ![Router(g)] = sends]
     \/ Goes(Router(g), "accept") /\ UNCHANGED left
  /\ sock' = [sock EXCEPT ![Router(g)] = ERR]
  /\ UNCHANGED <<guiVars, fdVars, mutex, down>>

(***************************************************************************)
(* The mutex: ROUTER_UpdateMyRoutingTable and                              *)
(* ROUTER_sendRoutingTableToNeigbour, which sends under it.                *)
(***************************************************************************)

AfterLock(t, rows) == IF rows > 0 THEN "sleep" ELSE "unlock"

Lock(t) ==
  /\ At(t, "lock") /\ mutex = Free
  /\ mutex' = t
  /\ \E rows \in IF t[1] = "table" THEN 0 .. MaxRows ELSE {0} :
       /\ left' = [left EXCEPT ![t] = rows]
       /\ Goes(t, AfterLock(t, rows))
  /\ UNCHANGED <<guiVars, fdVars, sock, down>>

Unlock(t) ==
  /\ At(t, "unlock")
  /\ mutex' = Free
  /\ Goes(t, IF t[1] = "table" THEN "rest" ELSE "accept")
  /\ UNCHANGED <<guiVars, fdVars, sock, left, down>>

\* Ten seconds or sixty.
Rest(t) ==
  /\ At(t, "rest") /\ Goes(t, "lock")
  /\ UNCHANGED <<guiVars, fdVars, mutex, sock, left, down>>

\* Nothing is cleaned up: the descriptor stays open, and the mutex locked.
Die(t) ==
  /\ t \in cancelled /\ pc[t] \in Points
  /\ Goes(t, "dead")
  /\ left' = [left EXCEPT ![t] = 0]
  /\ sock' = [sock EXCEPT ![t] = ERR]
  /\ fds' = IF sock[t] # ERR /\ Kind(sock[t]) \in {"fresh", "out"}
            THEN [fds EXCEPT ![sock[t]] = "left"] ELSE fds
  /\ UNCHANGED <<guiVars, server, backlog, mutex, down>>

RouterStep(g) ==
  \/ Begin(g) \/ CreateThreads(g) \/ Shut(g)
  \/ Accept(g) \/ AcceptFails(g) \/ Reclose(g) \/ Reopen(g) \/ NoServerSocket(g)
  \/ Recv(g)

ThreadStep(t) ==
  \/ SenderStep(t) \/ Lock(t) \/ Unlock(t) \/ Rest(t) \/ Die(t)
  \/ t[1] = "router" /\ RouterStep(t[2])

-----------------------------------------------------------------------------
(***************************************************************************)
(* The window, and other processes.                                        *)
(***************************************************************************)

\* Whoever presses On is slower than a cancelled thread that is not blocked.
On ==
  /\ gui = "off" /\ starts < MaxStarts
  /\ \A t \in cancelled : pc[t] = "dead" \/ (pc[t] = "lock" /\ mutex # Free)
  /\ starts' = starts + 1 /\ gui' = "on"
  /\ Goes(Router(starts + 1), "new")
  /\ UNCHANGED <<current, cancelled, fdVars, mutex, sock, left, down>>

\* The threads pthread_cancel is called for.
CancelledByOff == Kinds

\* stopRouter.  Whoever presses Off is slower than a thread that starts.  An id
\* that was never written names no thread, and the process ends.
Off ==
  /\ gui = "on" /\ current = starts
  /\ \/ /\ Serves(current)
        /\ gui' = "close"
        /\ cancelled' = cancelled \cup (CancelledByOff \X {current})
        /\ UNCHANGED <<starts, current, fdVars, mutex, pc, sock, left, down>>
     \/ ~Serves(current) /\ Exits /\ UNCHANGED guiVars

OffClose ==
  /\ gui = "close" /\ gui' = "off"
  /\ CloseFd(server)
  /\ UNCHANGED <<starts, current, cancelled, mutex, pc, sock, left, down>>

PeerConnects ==
  /\ SomebodyListens /\ backlog < MaxBacklog
  /\ backlog' = backlog + 1
  /\ UNCHANGED <<guiVars, server, fds, mutex, pc, sock, left, down>>

Next ==
  /\ ~down
  /\ \/ \E t \in Threads : ThreadStep(t)
     \/ On \/ Off \/ OffClose \/ PeerConnects

Spec == Init /\ [][Next]_vars

\* Threads are scheduled, and sleeping between its rounds the dispatcher leaves
\* the mutex to the router thread.
FairSpec ==
  /\ Spec
  /\ \A g \in Starts :
       /\ WF_vars(~down /\ ThreadStep(Router(g)))
       /\ SF_vars(~down /\ Lock(Router(g)))
       /\ WF_vars(~down /\ ThreadStep(Table(g)))

-----------------------------------------------------------------------------
(***************************************************************************)
(* Properties.                                                             *)
(***************************************************************************)

TypeOK ==
  /\ gui \in {"off", "on", "close"}
  /\ starts \in 0 .. MaxStarts /\ current \in 0 .. starts
  /\ server \in Fds \cup {ERR}
  /\ fds \in [Fds -> {"free", "fresh", "unbound", "listening", "out", "in", "left"}]
  /\ backlog \in 0 .. MaxBacklog
  /\ mutex \in Threads \cup {Free}
  /\ pc \in [Threads -> Places]
  /\ cancelled \in SUBSET Threads
  /\ sock \in [Threads -> Fds \cup {ERR}]
  /\ left \in [Threads -> Nat]
  /\ down \in BOOLEAN

\* A packet leaves only a router that is on, and only its last start: Off ends
\* every sender of its start (GUIRouter.c:492).
OnlyCurrentSpeaks ==
  [][\A t \in Threads : Send(t) => t[2] = starts /\ gui = "on"]_vars

\* What DispatchPacket opens it closes, whatever way it returns and whoever
\* closes or takes the number meanwhile: a socket that was opened to send, and
\* that no cancelled thread has left, is some sender's.
SendersClose ==
  \A n \in Fds :
    fds[n] \in {"fresh", "out"} =>
      \E t \in Threads : sock[t] = n /\ pc[t] \in {"connect", "close"}

\* Between the lock and the unlock of router_mtex: the dispatcher is there for
\* its whole round, the router thread to update the table.
InCriticalSection(t) ==
  \/ t[1] = "table" /\ pc[t] \in {"sleep", "connect", "close", "unlock"}
  \/ t[1] = "router" /\ pc[t] = "unlock"

\* However often the router is switched off and on: the routing table is never
\* read by a dispatcher while a router thread updates it or another dispatcher
\* fails its rows, and who has the mutex is about to unlock it, unless it is a
\* dispatcher that Off has cancelled in its round: no other thread dies with it.
MutualExclusion ==
  /\ \A t \in Threads : InCriticalSection(t) => mutex = t
  /\ mutex # Free =>
       \/ InCriticalSection(mutex)
       \/ mutex[1] = "table" /\ mutex \in cancelled /\ pc[mutex] = "dead"

\* Some thread was cancelled while it had the mutex.
Orphaned == mutex # Free /\ pc[mutex] = "dead"

\* The router thread comes back to accept after every packet, whether or not
\* there are descriptors left, as long as the mutex has not been lost.
RouterReturns ==
  \A g \in Starts :
    pc[Router(g)] = "recv" ~> pc[Router(g)] \in {"accept", "dead"} \/ down \/ Orphaned

\* Some socket has the port that is not the one start g would accept from.
Squatted(g) == \E n \in Fds : fds[n] = "listening" /\ n # server

\* After ROUTER_bringUpSocketIntf has closed its socket, and after every failure
\* of accept, the router thread listens again.
ListensAgain ==
  \A g \in Starts :
    pc[Router(g)] = "accept" ~>
      \/ Kind(server) = "listening" \/ pc[Router(g)] = "dead"
      \/ down \/ Squatted(g) \/ Orphaned

\* router.c:759-761: the router goes "into an infinite wait to wait for packets
\* which it will then process".  Of a router that is on, a row that was received
\* gets into the routing table.
ProcessesPackets ==
  \A g \in Starts :
    pc[Router(g)] = "lock" ~> pc[Router(g)] = "unlock" \/ gui # "on" \/ down
=============================================================================
