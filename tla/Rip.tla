--------------------------------- MODULE Rip ---------------------------------
(***************************************************************************)
(* The routing protocol of a network of routers: the routing table each    *)
(* router keeps (table.c), the distance-vector rules that update it        *)
(* (RIPAlgorithm.c), and the two threads of a router that share the table  *)
(* under router_mtex (router.c): the table dispatcher, which sends every   *)
(* row to every direct neighbour, and the router thread, which accepts one *)
(* packet at a time from its listening socket.                             *)
(*                                                                         *)
(* A router and its network have one number, as in the configuration       *)
(* files.  A packet is a record of the fields the rules read.  Time is     *)
(* abstracted: sleep(10) and sleep(60) may take any time.                  *)
(***************************************************************************)
EXTENDS Integers, Sequences, FiniteSets, Lookup

CONSTANTS
  Routers,       \* the router ids, which are also the network ids
  Neighbours,    \* Neighbours[r]: the rows CONFIG_DATA gives router r
  HopCount,      \* HopCount[r][n]: a lower bound on the hops from r to n
  RIP_MAX_HOP,   \* the distance that means unreachable (12 in the code)
  FAILED_LIMIT,  \* unchanged rows before an entry counts as settled (9)
  MAX_Q_SIZE,    \* the listen backlog of a socket (50)
  MaxCrashes,    \* bound: how many times routers exit
  MaxUnread      \* bound: rows of a router its peers may leave unread when
                 \* it starts to send its table again (the sleep of ten
                 \* seconds between two tables lets them catch up)

DIRECT == 0
ERR == -1

ASSUME TopologyAssumption ==
  /\ Routers \subseteq Nat
  /\ Neighbours \in [Routers -> SUBSET Routers]
  /\ \A r \in Routers : r \notin Neighbours[r]
  /\ \A r, s \in Routers : s \in Neighbours[r] => r \in Neighbours[s]

ASSUME HopCountAssumption ==
  /\ HopCount \in [Routers -> [Routers -> Nat]]
  /\ \A r \in Routers : \A s \in Neighbours[r] :
        /\ HopCount[r][s] <= 1
        /\ \A n \in Routers : HopCount[r][n] <= HopCount[s][n] + 1

ASSUME BoundAssumption ==
  /\ RIP_MAX_HOP \in Nat \ {0}
  /\ FAILED_LIMIT \in Nat
  /\ MAX_Q_SIZE \in Nat \ {0}
  /\ MaxUnread \in Nat
  /\ MaxCrashes \in Nat

VARIABLES
  phase,      \* how far ROUTER_init has come, and what the socket does
  rt,         \* ROUTERTable
  failedCnt,  \* ThisRouter->FAILED_CNT, capped at FAILED_LIMIT
  sendRT,     \* ThisRouter->sendRoutingTable
  todo,       \* the networks the probe or the dispatch loop has left
  rows,       \* the rows left to send to the first network of todo
  sendingOK,  \* some row has reached the first network of todo
  backlog,    \* the packets waiting at the listening socket
  crashes,    \* how many times a router has exited
  disturbed   \* history: a router exited, or a table could not be sent

vars == <<phase, rt, failedCnt, sendRT, todo, rows, sendingOK, backlog,
          crashes, disturbed>>

pacingVars == <<failedCnt, sendRT>>

dispatcherVars == <<todo, rows, sendingOK>>

Phases == {"off",        \* the process does not run
           "listening",  \* socket open, neighbours being probed
           "running",    \* threads created, socket still the first one
           "closed",     \* bringUpSocketIntf has closed the socket
           "open"}       \* WaitForEvents has opened it again

Entries == [taken : BOOLEAN,
            dist  : {ERR} \cup 0 .. RIP_MAX_HOP,
            hop   : {ERR} \cup Routers]

Packets == [src : Routers, net : Routers, dist : 0 .. RIP_MAX_HOP]

NoEntry == [taken |-> FALSE, dist |-> ERR, hop |-> ERR]

DirectEntry(s) == [taken |-> TRUE, dist |-> DIRECT, hop |-> s]

EmptyTable == [n \in Routers |-> NoEntry]

ConfiguredTable(r) ==
  [n \in Routers |-> IF n \in Neighbours[r] THEN DirectEntry(n) ELSE NoEntry]

TakenNetworks(t) == {n \in Routers : t[n].taken}

DirectNetworks(t) == {n \in TakenNetworks(t) : t[n].dist = DIRECT}

\* A connection to s is accepted by the kernel, whatever s's threads do.
Listens(s) == phase[s] \in {"listening", "running", "open"}

ThreadsRun(r) == phase[r] \in {"running", "closed", "open"}

\* The dispatcher holds router_mtex for the whole of its loop, the sleep
\* before each packet included.
HoldsMutex(r) == ThreadsRun(r) /\ todo[r] # {}

-----------------------------------------------------------------------------
(***************************************************************************)
(* RIPAlgorithm.c: what one received row does to a table.                  *)
(***************************************************************************)

\* Plausible slips in the rules, against which the properties are tried: the
\* sender's entry is not reset, the distance is not capped, the hop to the
\* sender is not counted, a changed distance is taken from any router, and a
\* router takes rows for its own network.
updateNeighbourStatusSkipped(t, p) == t

addIntoRoutingTableUncapped(t, p) ==
  [t EXCEPT ![p.net] = [taken |-> TRUE, dist |-> p.dist + 1, hop |-> p.src]]

addIntoRoutingTableUncounted(t, p) ==
  [t EXCEPT ![p.net] = [taken |-> TRUE, dist |-> p.dist, hop |-> p.src]]

isNextHopeFieldSameAny(t, p) == t[p.net].taken /\ p.dist + 1 # t[p.net].dist

AcceptsOwnNetwork(r, t, p) ==
  \/ ~t[p.net].taken
  \/ p.src = t[p.net].hop /\ p.dist + 1 # t[p.net].dist
  \/ p.dist + 1 < t[p.net].dist

updateNeighbourStatus(t, p) == [t EXCEPT ![p.src] = DirectEntry(p.src)]

addIntoRoutingTable(t, p) ==
  [t EXCEPT ![p.net] =
     [taken |-> TRUE,
      dist  |-> IF p.dist >= RIP_MAX_HOP THEN RIP_MAX_HOP ELSE p.dist + 1,
      hop   |-> p.src]]

doesExist(t, p) == t[p.net].taken

isNextHopeFieldSame(t, p) ==
  p.src = t[p.net].hop /\ p.dist + 1 # t[p.net].dist

isNewDistanceShorter(t, p) == p.dist + 1 < t[p.net].dist

Accepts(r, t, p) ==
  \/ ~doesExist(t, p) /\ p.net # r
  \/ isNextHopeFieldSame(t, p)
  \/ isNewDistanceShorter(t, p)

\* RTALGO_updateTable: the sender is alive, so its entry is reset first.
UpdatedTable(r, t, p) ==
  LET up == updateNeighbourStatus(t, p)
  IN  IF Accepts(r, up, p) THEN addIntoRoutingTable(up, p) ELSE up

IsUpdated(r, t, p) == Accepts(r, updateNeighbourStatus(t, p), p)

\* ROUTER_updateFailedCounter.  The counter of the router's own network is
\* never read and is left at zero.
CountedRow(r, t, cnt, p) ==
  [cnt EXCEPT ![p.net] =
     IF p.net = r \/ IsUpdated(r, t, p) THEN 0
     ELSE IF @ < FAILED_LIMIT THEN @ + 1 ELSE @]

KeepSendingTable(t, cnt) ==
  \E n \in TakenNetworks(t) : t[n].dist # DIRECT /\ cnt[n] < FAILED_LIMIT

-----------------------------------------------------------------------------
(***************************************************************************)
(* Start of a router: ROUTER_init.                                         *)
(***************************************************************************)

Init ==
  /\ phase = [r \in Routers |-> "off"]
  /\ rt = [r \in Routers |-> EmptyTable]
  /\ failedCnt = [r \in Routers |-> [n \in Routers |-> 0]]
  /\ sendRT = [r \in Routers |-> TRUE]
  /\ todo = [r \in Routers |-> {}]
  /\ rows = [r \in Routers |-> {}]
  /\ sendingOK = [r \in Routers |-> FALSE]
  /\ backlog = [r \in Routers |-> <<>>]
  /\ crashes = 0
  /\ disturbed = FALSE

\* The socket is opened and the table is filled from the configuration file;
\* the loop of ROUTER_DetermineConnectivity is about to start.
Start(r) ==
  /\ phase[r] = "off"
  /\ phase' = [phase EXCEPT ![r] = "listening"]
  /\ rt' = [rt EXCEPT ![r] = ConfiguredTable(r)]
  /\ todo' = [todo EXCEPT ![r] = Neighbours[r]]
  /\ UNCHANGED <<pacingVars, rows, sendingOK, backlog, crashes,
                 disturbed>>

\* One turn of ROUTER_DetermineConnectivity.  The probe is packet 0, whose
\* type no case of ROUTER_Callback handles: it leaves no trace at its
\* receiver and is not kept in the backlog.
Probe(r) ==
  /\ phase[r] = "listening" /\ todo[r] # {}
  /\ LET n == FirstOf(todo[r])
     IN  /\ rt' = IF Listens(rt[r][n].hop) THEN rt
                  ELSE [rt EXCEPT ![r][n].dist = RIP_MAX_HOP]
         /\ todo' = [todo EXCEPT ![r] = @ \ {n}]
  /\ UNCHANGED <<phase, pacingVars, rows, sendingOK, backlog, crashes,
                 disturbed>>

\* ROUTER_sendRoutingTablePeriodic creates the dispatcher.
CreateThreads(r) ==
  /\ phase[r] = "listening" /\ todo[r] = {}
  /\ phase' = [phase EXCEPT ![r] = "running"]
  /\ UNCHANGED <<rt, pacingVars, dispatcherVars, backlog, crashes,
                 disturbed>>

\* ROUTER_bringUpSocketIntf closes the socket before its first accept: the
\* connections that wait on it are lost.
CloseSocket(r) ==
  /\ phase[r] = "running"
  /\ phase' = [phase EXCEPT ![r] = "closed"]
  /\ backlog' = [backlog EXCEPT ![r] = <<>>]
  /\ UNCHANGED <<rt, pacingVars, dispatcherVars, crashes, disturbed>>

\* accept fails on the closed socket and WaitForEvents opens a new one.
ReopenSocket(r) ==
  /\ phase[r] = "closed"
  /\ phase' = [phase EXCEPT ![r] = "open"]
  /\ UNCHANGED <<rt, pacingVars, dispatcherVars, backlog, crashes,
                 disturbed>>

-----------------------------------------------------------------------------
(***************************************************************************)
(* The table dispatcher: ROUTER_sendRoutingTableWrapper and its callees.   *)
(***************************************************************************)

Unread(r) ==
  {x \in Routers \X (1 .. MAX_Q_SIZE) :
     x[2] <= Len(backlog[x[1]]) /\ backlog[x[1]][x[2]].src = r}

\* ROUTER_sendRoutingTableToNeigbour takes the mutex.  Only the dispatcher
\* changes the table while it holds it, so the networks it will find direct
\* and the rows it will compile are those of this moment.  With no direct
\* network the loop does nothing.
StartDispatch(r) ==
  /\ ThreadsRun(r) /\ todo[r] = {} /\ sendRT[r]
  /\ Cardinality(Unread(r)) <= MaxUnread
  /\ LET direct == DirectNetworks(rt[r])
     IN  /\ todo' = [todo EXCEPT ![r] = direct]
         /\ rows' = [rows EXCEPT ![r] =
                       IF direct = {} THEN {} ELSE TakenNetworks(rt[r])]
  /\ UNCHANGED <<phase, rt, pacingVars, sendingOK, backlog, crashes,
                 disturbed>>

\* One turn of the loop of ROUTER_sendRoutingTableTo: the row m goes to the
\* next hop of the network n, when m is the last row and none has arrived n
\* is failed, and when n is the last network the mutex is released.
RowDone(r, ok) ==
  LET n == FirstOf(todo[r])
      left == rows[r] \ {FirstOf(rows[r])}
      last == left = {}
      fails == last /\ ~ok
      t == IF fails THEN [rt[r] EXCEPT ![n].dist = RIP_MAX_HOP] ELSE rt[r]
  IN  /\ rt' = [rt EXCEPT ![r] = t]
      /\ disturbed' = (disturbed \/ fails)
      /\ todo' = IF last THEN [todo EXCEPT ![r] = @ \ {n}] ELSE todo
      /\ rows' = [rows EXCEPT ![r] =
                    IF ~last THEN left
                    ELSE IF todo[r] = {n} THEN {} ELSE TakenNetworks(t)]
      /\ sendingOK' = [sendingOK EXCEPT ![r] = ~last /\ ok]
      /\ UNCHANGED <<phase, pacingVars, crashes>>

PortOf(r) == rt[r][FirstOf(todo[r])].hop

RowPacket(r) ==
  LET m == FirstOf(rows[r])
  IN  [src |-> r, net |-> m, dist |-> rt[r][m].dist]

SendRow(r) ==
  /\ HoldsMutex(r)
  /\ Listens(PortOf(r)) /\ Len(backlog[PortOf(r)]) < MAX_Q_SIZE
  /\ backlog' = [backlog EXCEPT ![PortOf(r)] = Append(@, RowPacket(r))]
  /\ RowDone(r, TRUE)

\* Nobody listens at the port: connect is refused.
RowRefused(r) ==
  /\ HoldsMutex(r)
  /\ ~Listens(PortOf(r))
  /\ RowDone(r, sendingOK[r])
  /\ UNCHANGED backlog

\* The backlog is full and stays full because its router thread waits for a
\* mutex its own dispatcher holds: connect gives up after its retries.  A
\* backlog that can drain drains before that.
RowTimesOut(r) ==
  /\ HoldsMutex(r)
  /\ Listens(PortOf(r)) /\ Len(backlog[PortOf(r)]) = MAX_Q_SIZE
  /\ phase[PortOf(r)] = "open" => HoldsMutex(PortOf(r))
  /\ RowDone(r, sendingOK[r])
  /\ UNCHANGED backlog

\* After the long sleep the flag is set again, whatever happened meanwhile.
EndLongSleep(r) ==
  /\ ThreadsRun(r) /\ todo[r] = {} /\ ~sendRT[r]
  /\ sendRT' = [sendRT EXCEPT ![r] = TRUE]
  /\ UNCHANGED <<phase, rt, failedCnt, dispatcherVars, backlog, crashes,
                 disturbed>>

-----------------------------------------------------------------------------
(***************************************************************************)
(* The router thread: WaitForEvents and the RIP case of ROUTER_Callback,   *)
(* ROUTER_UpdateMyRoutingTable, which runs under the mutex.                *)
(***************************************************************************)

ReceiveRow(r) ==
  /\ phase[r] = "open" /\ backlog[r] # <<>> /\ ~HoldsMutex(r)
  /\ LET p == Head(backlog[r])
         t == UpdatedTable(r, rt[r], p)
         cnt == CountedRow(r, rt[r], failedCnt[r], p)
     IN  /\ rt' = [rt EXCEPT ![r] = t]
         /\ failedCnt' = [failedCnt EXCEPT ![r] = cnt]
         /\ sendRT' = [sendRT EXCEPT ![r] = KeepSendingTable(t, cnt)]
  /\ backlog' = [backlog EXCEPT ![r] = Tail(@)]
  /\ UNCHANGED <<phase, dispatcherVars, crashes, disturbed>>

-----------------------------------------------------------------------------

\* The process exits; what it had queued elsewhere is still delivered.
Crash(r) ==
  /\ phase[r] # "off" /\ crashes < MaxCrashes
  /\ phase' = [phase EXCEPT ![r] = "off"]
  /\ rt' = [rt EXCEPT ![r] = EmptyTable]
  /\ failedCnt' = [failedCnt EXCEPT ![r] = [n \in Routers |-> 0]]
  /\ sendRT' = [sendRT EXCEPT ![r] = TRUE]
  /\ todo' = [todo EXCEPT ![r] = {}]
  /\ rows' = [rows EXCEPT ![r] = {}]
  /\ sendingOK' = [sendingOK EXCEPT ![r] = FALSE]
  /\ backlog' = [backlog EXCEPT ![r] = <<>>]
  /\ crashes' = crashes + 1
  /\ disturbed' = TRUE

StartUp(r) == Probe(r) \/ CreateThreads(r) \/ CloseSocket(r) \/ ReopenSocket(r)

RouterThread(r) == StartUp(r) \/ ReceiveRow(r)

DispatchRow(r) == SendRow(r) \/ RowRefused(r) \/ RowTimesOut(r)

Next ==
  \E r \in Routers :
    \/ Start(r)
    \/ RouterThread(r)
    \/ StartDispatch(r)
    \/ DispatchRow(r)
    \/ EndLongSleep(r)
    \/ Crash(r)

Spec == Init /\ [][Next]_vars

(***************************************************************************)
(* A started router goes on: its two threads are scheduled, and the kernel *)
(* refuses or times out a connect it cannot serve.  Nobody has to start a  *)
(* router, and none has to exit.  The dispatcher gets strong fairness: it  *)
(* re-reads sendRoutingTable a few instructions after its long sleep set   *)
(* it, and a row clears it in that window only now and then.               *)
(***************************************************************************)
Fairness ==
  \A r \in Routers :
    /\ SF_vars(RouterThread(r))
    /\ SF_vars(StartDispatch(r))
    /\ WF_vars(DispatchRow(r) \/ EndLongSleep(r))

FairSpec == Spec /\ Fairness

-----------------------------------------------------------------------------
(***************************************************************************)
(* Properties.                                                             *)
(***************************************************************************)

TypeOK ==
  /\ phase \in [Routers -> Phases]
  /\ rt \in [Routers -> [Routers -> Entries]]
  /\ failedCnt \in [Routers -> [Routers -> 0 .. FAILED_LIMIT]]
  /\ sendRT \in [Routers -> BOOLEAN]
  /\ todo \in [Routers -> SUBSET Routers]
  /\ rows \in [Routers -> SUBSET Routers]
  /\ sendingOK \in [Routers -> BOOLEAN]
  /\ backlog \in [Routers -> Seq(Packets)]
  /\ crashes \in 0 .. MaxCrashes
  /\ disturbed \in BOOLEAN

\* A router's own network never enters its table, and a distance of DIRECT
\* always means that the network is a configured neighbour and is its own
\* next hop: the dispatcher, which sends the table to every DIRECT network,
\* then never sends it twice to one router or to one that is not adjacent.
DirectMeansAdjacent ==
  \A r \in Routers :
    /\ ~rt[r][r].taken
    /\ \A n \in DirectNetworks(rt[r]) : n \in Neighbours[r] /\ rt[r][n].hop = n

\* Through crashes, restarts, rows that outlive their sender and half-sent
\* tables, no entry ever promises a network in fewer hops than the network
\* has (an entry stores the hops minus one), and the next hop of every entry
\* is an adjacent router.
NeverUnderstates ==
  \A r \in Routers : \A n \in TakenNetworks(rt[r]) :
    /\ rt[r][n].hop \in Neighbours[r]
    /\ rt[r][n].dist < RIP_MAX_HOP => HopCount[r][n] <= rt[r][n].dist + 1

\* Until a router exits or a table cannot be delivered, forwarding descends:
\* the next hop of a usable entry has itself a usable entry that is strictly
\* nearer, so a packet handed from next hop to next hop cannot come back.
ForwardingDescends ==
  ~disturbed =>
    \A r \in Routers : \A n \in TakenNetworks(rt[r]) :
      LET h == rt[r][n].hop
      IN  h # n /\ rt[r][n].dist < RIP_MAX_HOP =>
            rt[h][n].taken /\ rt[h][n].dist < rt[r][n].dist

AllOpen == \A r \in Routers : phase[r] = "open"

\* Two adjacent routers both believe the other is down: neither will send to
\* the other again.
MutuallyFailed(r, s) ==
  s \in Neighbours[r] /\ rt[r][s].dist # DIRECT /\ rt[s][r].dist # DIRECT

\* Every table holds the length of a shortest path to every network.
Exact ==
  \A r \in Routers : \A n \in Routers \ {r} :
    rt[r][n].taken /\ rt[r][n].dist + 1 = HopCount[r][n]

\* Once every router stays up and no adjacent pair has given each other up
\* for good, the tables become exact and stay so: a restart, a stale row, a
\* route through a router that has forgotten it, and slowed dispatchers only
\* delay this.
Converges ==
  (<>[]AllOpen /\ []<>(\A r, s \in Routers : ~MutuallyFailed(r, s)))
    => <>[]Exact

\* No row that a neighbour could send now would change a table.
Quiet ==
  \A r \in Routers : \A s \in Neighbours[r] : \A n \in TakenNetworks(rt[s]) :
    UpdatedTable(r, rt[r], [src |-> s, net |-> n, dist |-> rt[s][n].dist]) = rt[r]

\* HopCount is the length of a shortest path, and every path is in range.
ShortestPaths ==
  \A r, n \in Routers :
    /\ HopCount[r][n] <= RIP_MAX_HOP
    /\ r # n => \E s \in Neighbours[r] : HopCount[r][n] = HopCount[s][n] + 1

\* The partial correctness behind Converges, which holds after failures too:
\* when all routers are up and have no news for each other, every table is
\* exact.  No pair that has given each other up, no route through a router that
\* has forgotten it and no detour can hide in tables that have gone quiet.
QuietMeansExact == ShortestPaths /\ AllOpen /\ Quiet => Exact

Settled ==
  /\ AllOpen /\ Exact
  /\ \A r \in Routers : \A i \in 1 .. Len(backlog[r]) :
       LET p == backlog[r][i] IN p.dist + 1 = HopCount[p.src][p.net]

\* The closure behind Converges, which holds after failures too: when all
\* tables are exact and so are the rows under way, every row sent is exact and
\* no row received changes a table, until a router exits or a connect is given
\* up.
SettledStays ==
  [][Settled => Settled' \/ \E r \in Routers : Crash(r) \/ RowTimesOut(r)]_vars

\* The distance to n as r, once its threads run, believes it.
Believed ==
  [r \in Routers |-> [n \in Routers |->
     IF ThreadsRun(r) /\ rt[r][n].taken THEN rt[r][n].dist ELSE RIP_MAX_HOP]]

D == INSTANCE Relaxation WITH Infinity <- RIP_MAX_HOP, est <- Believed,
                              lost <- disturbed

\* Whatever the interleaving of senders and receivers, the tables of the
\* network change as in a computation of shortest paths by relaxation: until a
\* router exits or a table cannot be delivered, a distance only falls, to one
\* more than what a neighbour believes or believed when it sent the row.
Relaxes == D!RelaxationSpec

\* router.c:187-193: "if the neighbouring routers are connected and running,
\* then flag them as direct, otherwise flag them as failed".  Adjacent
\* routers that both run for ever end up direct in each other's table.
RunningNeighboursBecomeDirect ==
  \A r \in Routers : \A s \in Neighbours[r] :
    [](phase[r] = "open" /\ phase[s] = "open"
         => <>(rt[r][s].dist = DIRECT \/ phase[r] = "off" \/ phase[s] = "off"))
=============================================================================
