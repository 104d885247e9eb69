-------------------------- MODULE RipDescentProofs ---------------------------
(***************************************************************************)
(* What the tables amount to on every topology: until the first loss       *)
(* forwarding descends, does not loop, and the tables change as in a       *)
(* computation of shortest paths; after any loss tables that have gone     *)
(* quiet are exact, and exact ones stay.                                   *)
(*                                                                         *)
(* Forwarding descends.  Distances fall only because a router reads the    *)
(* rows of a neighbour in the order in which the neighbour sent them: the  *)
(* invariant is about the rows under way as much as about the tables.      *)
(***************************************************************************)
EXTENDS RipProofs

\* Of two rows of one router for one network the later is not the longer.
RowsFall(b) ==
  \A i, j \in 1 .. Len(b) :
    i < j /\ b[i].src = b[j].src /\ b[i].net = b[j].net => b[j].dist <= b[i].dist

\* Since it sent the row, the sender has not become farther from the network.
StillAsNear(p) ==
  /\ ThreadsRun(p.src)
  /\ rt[p.src][p.net].taken /\ rt[p.src][p.net].dist <= p.dist

\* The next hop is nearer, and what it has sent will not change that.
NextHopNearer(s, n) ==
  LET h == rt[s][n].hop
  IN  rt[s][n].taken /\ h # n /\ rt[s][n].dist < RIP_MAX_HOP =>
        /\ ThreadsRun(h)
        /\ rt[h][n].taken /\ rt[h][n].dist < rt[s][n].dist
        /\ \A i \in 1 .. Len(backlog[s]) :
             backlog[s][i].src = h /\ backlog[s][i].net = n =>
               backlog[s][i].dist < rt[s][n].dist

Descent ==
  /\ \A s \in Routers : RowsFall(backlog[s])
  /\ \A s \in Routers : \A i \in 1 .. Len(backlog[s]) : StillAsNear(backlog[s][i])
  /\ \A s, n \in Routers : NextHopNearer(s, n)

DescentInv == Inv /\ (~disturbed => Descent)

-----------------------------------------------------------------------------
\* What the types say of a table and of a backlog.
LEMMA Shapes ==
  ASSUME Inv
  PROVE  /\ \A s, n \in Routers :
              /\ rt[s][n].taken \in BOOLEAN
              /\ rt[s][n].dist \in Int
              /\ rt[s][n].taken => /\ rt[s][n].hop \in Routers \ {s}
                                   /\ rt[s][n].dist \in 0 .. RIP_MAX_HOP
                                   /\ n # s
              /\ ~rt[s][n].taken => rt[s][n] = NoEntry
         /\ \A s \in Routers :
              /\ backlog[s] \in Seq(Packets)
              /\ Len(backlog[s]) \in Nat
              /\ \A i \in 1 .. Len(backlog[s]) :
                   /\ backlog[s][i] \in Packets
                   /\ RowOK(s, backlog[s][i])
<1>1. ASSUME NEW s \in Routers, NEW n \in Routers
      PROVE  /\ rt[s][n].taken \in BOOLEAN
             /\ rt[s][n].dist \in Int
             /\ rt[s][n].taken => /\ rt[s][n].hop \in Routers \ {s}
                                  /\ rt[s][n].dist \in 0 .. RIP_MAX_HOP
                                  /\ n # s
             /\ ~rt[s][n].taken => rt[s][n] = NoEntry
  <2>1. rt[s][n] \in Entries
    BY DEF Inv, TypeOK
  <2>2. EntryOK(s, n, rt[s][n])
    BY DEF Inv, TableOK
  <2>3. rt[s][n].dist \in Int
    BY <2>1, BoundAssumption DEF Entries, ERR
  <2>4. rt[s][n].taken => rt[s][n].hop \in Neighbours[s] /\ s \notin Neighbours[s]
                          /\ Neighbours[s] \subseteq Routers
    BY <2>2, TopologyAssumption DEF EntryOK
  <2> QED BY <2>1, <2>2, <2>3, <2>4 DEF EntryOK, Entries
<1>2. ASSUME NEW s \in Routers
      PROVE  /\ backlog[s] \in Seq(Packets)
             /\ Len(backlog[s]) \in Nat
             /\ \A i \in 1 .. Len(backlog[s]) :
                  /\ backlog[s][i] \in Packets
                  /\ RowOK(s, backlog[s][i])
  <2>1. backlog[s] \in Seq(Packets)
    BY DEF Inv, TypeOK
  <2>2. \A i \in 1 .. Len(backlog[s]) : backlog[s][i] \in Packets
    BY <2>1, ElementOfSeq
  <2> QED BY <2>1, <2>2, LenProperties DEF Inv, BacklogOK
<1> QED BY <1>1, <1>2

\* Steps that change no table of a router that runs, and no backlog but by
\* emptying it.  What they change in the table of a router that does not run
\* yet has no next hop but its own network, or is unreachable.
LEMMA QuietStep ==
  ASSUME Inv, Inv', Descent,
         \A r \in Routers : ThreadsRun(r) => ThreadsRun(r)' /\ rt'[r] = rt[r],
         \A r, n \in Routers :
           \/ rt'[r][n] = rt[r][n]
           \/ rt'[r][n].hop = n \/ ~(rt'[r][n].dist < RIP_MAX_HOP)
           \/ ~rt'[r][n].taken,
         \A r \in Routers : backlog'[r] = backlog[r] \/ backlog'[r] = <<>>
  PROVE  Descent'
<1>1. \A s \in Routers : RowsFall(backlog'[s])
  BY EmptySeq DEF Descent, RowsFall
<1>2. ASSUME NEW s \in Routers, NEW i \in 1 .. Len(backlog'[s])
      PROVE  StillAsNear(backlog[s][i])' /\ backlog'[s] = backlog[s]
  <2>1. backlog'[s] = backlog[s]
    BY <1>2, EmptySeq
  <2>2. StillAsNear(backlog[s][i]) /\ backlog[s][i].src \in Routers
    BY <1>2, <2>1, Shapes DEF Descent, Packets
  <2> QED BY <2>1, <2>2 DEF StillAsNear
<1>3. ASSUME NEW s \in Routers, NEW n \in Routers
      PROVE  NextHopNearer(s, n)'
  <2> SUFFICES ASSUME NEW h, h = rt'[s][n].hop, rt'[s][n].taken = TRUE, h # n,
                      rt'[s][n].dist < RIP_MAX_HOP
               PROVE  /\ ThreadsRun(h)'
                      /\ rt'[h][n].taken /\ rt'[h][n].dist < rt'[s][n].dist
                      /\ \A i \in 1 .. Len(backlog'[s]) :
                           backlog'[s][i].src = h /\ backlog'[s][i].net = n =>
                             backlog'[s][i].dist < rt'[s][n].dist
    <3>1. rt'[s][n].taken \in BOOLEAN
      BY DEF Inv, TypeOK, Entries
    <3> QED BY <3>1 DEF NextHopNearer
  <2>1. rt'[s][n] = rt[s][n]
    OBVIOUS
  <2>2. NextHopNearer(s, n) /\ h \in Routers /\ rt[s][n].hop = h
    BY <2>1, Shapes DEF Descent
  <2>3. /\ ThreadsRun(h) /\ rt[h][n].taken /\ rt[h][n].dist < rt[s][n].dist
        /\ \A i \in 1 .. Len(backlog[s]) :
             backlog[s][i].src = h /\ backlog[s][i].net = n =>
               backlog[s][i].dist < rt[s][n].dist
    BY <2>1, <2>2 DEF NextHopNearer
  <2>4. ThreadsRun(h)' /\ rt'[h] = rt[h]
    BY <2>2, <2>3
  <2>5. \A i \in 1 .. Len(backlog'[s]) : backlog'[s] = backlog[s]
    BY <1>2
  <2> QED BY <2>1, <2>3, <2>4, <2>5
<1> QED BY <1>1, <1>2, <1>3 DEF Descent

\* Start-up, and the steps of the dispatcher between its rows.
LEMMA StartDescent ==
  ASSUME Inv, Inv', Descent, NEW r \in Routers,
         Start(r) \/ StartUp(r) \/ StartDispatch(r) \/ EndLongSleep(r)
  PROVE  Descent'
<1> USE DEF dispatcherVars, pacingVars
<1>t. rt \in [Routers -> [Routers -> Entries]] /\ phase \in [Routers -> Phases]
      /\ backlog \in [Routers -> Seq(Packets)]
  BY DEF Inv, TypeOK
<1>1. CASE Start(r)
  <2>1. /\ phase[r] = "off" /\ phase' = [phase EXCEPT ![r] = "listening"]
        /\ rt' = [rt EXCEPT ![r] = ConfiguredTable(r)] /\ backlog' = backlog
    BY <1>1 DEF Start
  <2>2. \A s \in Routers : ThreadsRun(s) => ThreadsRun(s)' /\ rt'[s] = rt[s]
    BY <1>t, <2>1 DEF ThreadsRun
  <2>3. \A n \in Routers : rt'[r][n].hop = n \/ ~rt'[r][n].taken
    BY <1>t, <2>1 DEF ConfiguredTable, DirectEntry, NoEntry
  <2>4. \A s \in Routers : s # r => rt'[s] = rt[s]
    BY <1>t, <2>1
  <2> QED BY <2>1, <2>2, <2>3, <2>4, QuietStep
<1>2. CASE Probe(r)
  <2> DEFINE n == FirstOf(todo[r])
  <2>1. n \in Routers
    BY <1>2, FirstOfRoutersHolds DEF FirstOfRouters, Probe, Inv, TypeOK
  <2>2. /\ phase[r] = "listening" /\ phase' = phase /\ backlog' = backlog
        /\ rt' = rt \/ rt' = [rt EXCEPT ![r][n].dist = RIP_MAX_HOP]
    BY <1>2 DEF Probe
  <2> HIDE DEF n
  <2>3. \A s \in Routers : ThreadsRun(s) => ThreadsRun(s)' /\ rt'[s] = rt[s]
    BY <1>t, <2>2 DEF ThreadsRun
  <2>4. \A s, m \in Routers :
          rt'[s][m] = rt[s][m] \/ rt'[s][m].dist = RIP_MAX_HOP
    <3> SUFFICES ASSUME NEW s \in Routers, NEW m \in Routers,
                        rt' = [rt EXCEPT ![r][n].dist = RIP_MAX_HOP]
                 PROVE  rt'[s][m] = rt[s][m] \/ rt'[s][m].dist = RIP_MAX_HOP
      BY <2>2
    <3>1. CASE s = r /\ m = n
      <4>1. rt[r] \in [Routers -> Entries] /\ rt[r][n] \in Entries
        BY <1>t, <2>1
      <4>2. rt'[r][n] = [rt[r][n] EXCEPT !.dist = RIP_MAX_HOP]
        BY <1>t, <2>1, <4>1
      <4> QED BY <3>1, <4>1, <4>2 DEF Entries
    <3>2. CASE ~(s = r /\ m = n)
      <4>1. rt[r] \in [Routers -> Entries]
        BY <1>t
      <4> QED BY <1>t, <2>1, <3>2, <4>1
    <3> QED BY <3>1, <3>2
  <2>5. ~(RIP_MAX_HOP < RIP_MAX_HOP)
    BY BoundAssumption
  <2> QED BY <2>2, <2>3, <2>4, <2>5, QuietStep
<1>3. CASE CreateThreads(r) \/ CloseSocket(r) \/ ReopenSocket(r)
  <2>1. rt' = rt /\ \A s \in Routers : ThreadsRun(s) => ThreadsRun(s)'
    BY <1>3, <1>t DEF CreateThreads, CloseSocket, ReopenSocket, ThreadsRun
  <2>2. \A s \in Routers : backlog'[s] = backlog[s] \/ backlog'[s] = <<>>
    BY <1>3, <1>t DEF CreateThreads, CloseSocket, ReopenSocket
  <2> QED BY <2>1, <2>2, QuietStep
<1>4. CASE StartDispatch(r) \/ EndLongSleep(r)
  <2>1. rt' = rt /\ phase' = phase /\ backlog' = backlog
    BY <1>4 DEF StartDispatch, EndLongSleep
  <2> QED BY <2>1, QuietStep DEF ThreadsRun
<1> QED BY <1>1, <1>2, <1>3, <1>4 DEF StartUp

\* A row that arrives, or does not: it says what the table says now, so it is
\* not longer than those before it.
LEMMA DispatchDescent ==
  ASSUME Inv, Inv', Descent, NEW r \in Routers, DispatchRow(r), ~disturbed'
  PROVE  Descent'
<1>t. rt \in [Routers -> [Routers -> Entries]] /\ backlog \in [Routers -> Seq(Packets)]
  BY DEF Inv, TypeOK
<1>1. rt' = rt /\ phase' = phase /\ HoldsMutex(r)
  <2>1. PICK ok : RowDone(r, ok)
    BY DEF DispatchRow, SendRow, RowRefused, RowTimesOut
  <2>2. rt' = [rt EXCEPT ![r] = rt[r]] /\ phase' = phase
    BY <2>1 DEF RowDone
  <2> QED BY <1>t, <2>2 DEF DispatchRow, SendRow, RowRefused, RowTimesOut
<1>2. CASE backlog' = backlog
  BY <1>1, <1>2, QuietStep DEF ThreadsRun
<1>3. CASE backlog' = [backlog EXCEPT ![PortOf(r)] = Append(@, RowPacket(r))]
  <2> DEFINE q == PortOf(r)
             p == RowPacket(r)
             b == backlog[q]
             k == Len(backlog[q])
  <2>1. q \in Routers /\ p \in Packets
    BY <1>1, RowPacketOK
  <2>2. p.src = r /\ p.net \in Routers /\ p.dist = rt[r][p.net].dist
    BY <2>1 DEF RowPacket, Packets
  <2>3. StillAsNear(p)
    <3>1. rows[r] # {} /\ rows[r] \in SUBSET Routers
      BY <1>1 DEF Inv, TypeOK, DispatcherOK
    <3>2. FirstOf(rows[r]) \in rows[r]
      BY <3>1, FirstOfRoutersHolds DEF FirstOfRouters
    <3>3. rt[r][p.net].taken
      BY <3>2 DEF Inv, DispatcherOK, TakenNetworks, RowPacket
    <3>4. rt[r][p.net].dist <= p.dist
      BY <2>2, Shapes
    <3> QED BY <1>1, <2>2, <3>3, <3>4 DEF StillAsNear, HoldsMutex
  <2>4. /\ b \in Seq(Packets) /\ k \in Nat
        /\ Len(backlog'[q]) = k + 1
        /\ \A i \in 1 .. k : backlog'[q][i] = b[i]
        /\ backlog'[q][k + 1] = p
        /\ \A s \in Routers : s # q => backlog'[s] = backlog[s]
    BY <1>3, <1>t, <2>1, AppendProperties, LenProperties
  <2> HIDE DEF q, p, b, k
  <2>5. \A i \in 1 .. k + 1 : i = k + 1 \/ i \in 1 .. k
    BY <2>4
  <2>6. b = backlog[q] /\ k = Len(backlog[q])
    BY DEF b, k
  <2>7. RowsFall(backlog'[q])
    <3> SUFFICES ASSUME NEW i \in 1 .. k + 1, NEW j \in 1 .. k + 1, i < j,
                        backlog'[q][i].src = backlog'[q][j].src,
                        backlog'[q][i].net = backlog'[q][j].net
                 PROVE  backlog'[q][j].dist <= backlog'[q][i].dist
      BY <2>4 DEF RowsFall
    <3>1. i \in 1 .. k /\ backlog'[q][i] = b[i]
      BY <2>4
    <3>2. CASE j \in 1 .. k
      BY <2>1, <2>4, <2>6, <3>1, <3>2 DEF Descent, RowsFall
    <3>3. CASE j = k + 1
      <4>1. StillAsNear(b[i]) /\ b[i].src = r /\ b[i].net = p.net
        BY <2>1, <2>2, <2>4, <2>6, <3>1, <3>3 DEF Descent
      <4> QED BY <2>2, <2>4, <3>1, <3>3, <4>1 DEF StillAsNear
    <3> QED BY <2>5, <3>2, <3>3
  <2>8. ASSUME NEW s \in Routers, NEW i \in 1 .. Len(backlog'[s])
        PROVE  StillAsNear(backlog'[s][i])
    BY <2>1, <2>3, <2>4, <2>5, <2>6 DEF Descent
  <2>9. ASSUME NEW s \in Routers, NEW n \in Routers
        PROVE  NextHopNearer(s, n)'
    <3> SUFFICES ASSUME rt[s][n].taken, rt[s][n].hop # n,
                        rt[s][n].dist < RIP_MAX_HOP,
                        NEW i \in 1 .. Len(backlog'[s]),
                        backlog'[s][i].src = rt[s][n].hop, backlog'[s][i].net = n
                 PROVE  backlog'[s][i].dist < rt[s][n].dist
      BY <1>1, <2>1 DEF Descent, NextHopNearer, ThreadsRun
    <3>1. NextHopNearer(s, n)
      BY DEF Descent
    <3>2. CASE s # q \/ i \in 1 .. k
      BY <2>4, <2>6, <3>1, <3>2 DEF NextHopNearer
    <3>3. CASE s = q /\ i = k + 1
      BY <2>2, <2>4, <3>1, <3>3 DEF NextHopNearer
    <3> QED BY <2>4, <2>5, <3>2, <3>3
  <2>10. \A s \in Routers : RowsFall(backlog'[s])
    BY <2>4, <2>7 DEF Descent
  <2>11. \A s \in Routers : \A i \in 1 .. Len(backlog'[s]) :
           StillAsNear(backlog[s][i])'
    BY <1>1, <2>8 DEF StillAsNear, ThreadsRun
  <2> QED BY <2>9, <2>10, <2>11 DEF Descent
<1> QED BY <1>2, <1>3 DEF DispatchRow, SendRow, RowRefused, RowTimesOut

\* What RTALGO_updateTable makes of a table, when the sender of the row has not
\* become farther since the last one: no entry becomes longer.
LEMMA UpdatedEntries ==
  ASSUME NEW r \in Routers, NEW t \in [Routers -> Entries], TableOK(r, t),
         NEW p \in Packets, RowOK(r, p),
         /\ t[p.net].taken /\ t[p.net].hop = p.src /\ t[p.net].dist < RIP_MAX_HOP
           => p.dist < t[p.net].dist
  PROVE  \A n \in Routers :
           LET e == UpdatedTable(r, t, p)[n]
           IN  /\ \/ e = t[n]
                  \/ n = p.src /\ e.hop = n
                  \/ /\ n = p.net /\ e.hop = p.src
                     /\ e.dist < RIP_MAX_HOP => e.dist = p.dist + 1
               /\ t[n].taken => e.taken /\ e.dist <= t[n].dist
<1> DEFINE up == updateNeighbourStatus(t, p)
           e == [taken |-> TRUE,
                 dist  |-> IF p.dist >= RIP_MAX_HOP THEN RIP_MAX_HOP ELSE p.dist + 1,
                 hop   |-> p.src]
           u == UpdatedTable(r, t, p)
<1>1. /\ p.src \in Routers /\ p.net \in Routers /\ p.dist \in 0 .. RIP_MAX_HOP
      /\ p.net # p.src /\ RIP_MAX_HOP \in Nat \ {0}
  BY BoundAssumption DEF Packets, RowOK
<1>2. \A n \in Routers : t[n].taken => t[n].dist \in 0 .. RIP_MAX_HOP
  BY DEF TableOK, EntryOK, Entries
<1>3. /\ up[p.src] = DirectEntry(p.src)
      /\ \A n \in Routers : n # p.src => up[n] = t[n]
      /\ up \in [Routers -> Entries]
  BY <1>1 DEF updateNeighbourStatus, DirectEntry, Entries, DIRECT
<1>4. u = up \/ (Accepts(r, up, p) /\ u = [up EXCEPT ![p.net] = e])
  BY DEF UpdatedTable, addIntoRoutingTable
<1> HIDE DEF up, u
<1>5. ASSUME NEW n \in Routers, n # p.src, n # p.net
      PROVE  u[n] = t[n]
  BY <1>1, <1>3, <1>4, <1>5
<1>6. u[p.src].hop = p.src /\ u[p.src].taken /\ u[p.src].dist = 0
  BY <1>1, <1>3, <1>4 DEF DirectEntry, DIRECT
<1>7. CASE u = up
  BY <1>1, <1>2, <1>3, <1>5, <1>6, <1>7 DEF u
<1>8. CASE Accepts(r, up, p) /\ u = [up EXCEPT ![p.net] = e]
  <2>1. u[p.net] = e
    BY <1>1, <1>3, <1>8
  <2>2. e.dist < RIP_MAX_HOP => e.dist = p.dist + 1
    BY <1>1
  <2>3. ASSUME t[p.net].taken
        PROVE  e.dist <= t[p.net].dist
    <3>1. up[p.net] = t[p.net] /\ t[p.net].dist \in 0 .. RIP_MAX_HOP
      BY <1>1, <1>2, <1>3, <2>3
    <3>2. \/ p.src = t[p.net].hop /\ p.dist + 1 # t[p.net].dist
          \/ p.dist + 1 < t[p.net].dist
      BY <1>8, <2>3, <3>1 DEF Accepts, doesExist, isNextHopeFieldSame,
                              isNewDistanceShorter
    <3>3. CASE p.src = t[p.net].hop
      BY <1>1, <2>3, <3>1, <3>3
    <3>4. CASE p.dist + 1 < t[p.net].dist
      BY <1>1, <3>1, <3>4
    <3> QED BY <3>2, <3>3, <3>4
  <2>4. e.taken /\ e.hop = p.src
    OBVIOUS
  <2> HIDE DEF e
  <2> QED BY <1>1, <1>2, <1>5, <1>6, <2>1, <2>2, <2>3, <2>4 DEF u
<1> QED BY <1>4, <1>7, <1>8

\* A row that is read: the table comes nearer, as its sender has.
LEMMA ReceiveDescent ==
  ASSUME Inv, Inv', Descent, NEW r \in Routers, ReceiveRow(r)
  PROVE  Descent'
<1> DEFINE b == backlog[r]
           p == Head(backlog[r])
<1>t. rt \in [Routers -> [Routers -> Entries]] /\ backlog \in [Routers -> Seq(Packets)]
  BY DEF Inv, TypeOK
<1>1. /\ b \in Seq(Packets) /\ Len(b) \in Nat \ {0} /\ p = b[1]
      /\ Len(Tail(b)) = Len(b) - 1
      /\ \A i \in 1 .. Len(Tail(b)) : Tail(b)[i] = b[i + 1]
  BY <1>t, HeadTailProperties, EmptySeq DEF ReceiveRow
<1>2. /\ p \in Packets /\ RowOK(r, p) /\ StillAsNear(p)
      /\ \A i \in 1 .. Len(Tail(b)) : i + 1 \in 1 .. Len(b) /\ 1 < i + 1
      /\ 1 \in 1 .. Len(b)
  BY <1>1, Shapes DEF Descent
<1>3. /\ p.src \in Routers /\ p.net \in Routers /\ p.src # r /\ p.src # p.net
      /\ p.dist \in Int
  BY <1>2, TopologyAssumption, BoundAssumption DEF Packets, RowOK
<1>4. /\ backlog'[r] = Tail(b) /\ phase' = phase
      /\ \A s \in Routers : s # r => backlog'[s] = backlog[s] /\ rt'[s] = rt[s]
      /\ rt'[r] = UpdatedTable(r, rt[r], p)
  BY <1>t DEF ReceiveRow
<1>5. \A n \in Routers :
        /\ \/ rt'[r][n] = rt[r][n]
           \/ n = p.src /\ rt'[r][n].hop = n
           \/ /\ n = p.net /\ rt'[r][n].hop = p.src
              /\ rt'[r][n].dist < RIP_MAX_HOP => rt'[r][n].dist = p.dist + 1
        /\ rt[r][n].taken => rt'[r][n].taken /\ rt'[r][n].dist <= rt[r][n].dist
  <2>1. TableOK(r, rt[r]) /\ rt[r] \in [Routers -> Entries]
    BY <1>t DEF Inv
  <2>2. rt[r][p.net].taken /\ rt[r][p.net].hop = p.src
          /\ rt[r][p.net].dist < RIP_MAX_HOP => p.dist < rt[r][p.net].dist
    <3>1. NextHopNearer(r, p.net)
      BY <1>3 DEF Descent
    <3> QED BY <1>1, <1>2, <1>3, <3>1 DEF NextHopNearer
  <2> HIDE DEF p
  <2> QED BY <1>2, <1>4, <2>1, <2>2, UpdatedEntries
<1> HIDE DEF b, p
<1>6. \A s, n \in Routers :
        rt[s][n].taken => rt'[s][n].taken /\ rt'[s][n].dist <= rt[s][n].dist
  BY <1>4, <1>5, Shapes
<1>7. \A s, n \in Routers : rt[s][n].dist \in Int /\ rt'[s][n].dist \in Int
                            /\ rt'[s][n].taken \in BOOLEAN
  <2>1. \A s, n \in Routers : rt[s][n] \in Entries /\ rt'[s][n] \in Entries
    BY DEF Inv, TypeOK
  <2>2. \A e \in Entries : e.dist \in Int /\ e.taken \in BOOLEAN
    BY BoundAssumption DEF Entries, ERR
  <2> QED BY <2>1, <2>2
<1>b. b = backlog[r] /\ RowsFall(b) /\ \A i \in 1 .. Len(b) : StillAsNear(b[i])
  BY DEF Descent, b
<1>8. ASSUME NEW s \in Routers
      PROVE  RowsFall(backlog'[s])
  <2>1. CASE s # r
    BY <1>4, <2>1 DEF Descent
  <2>2. CASE s = r
    <3> SUFFICES ASSUME NEW i \in 1 .. Len(Tail(b)), NEW j \in 1 .. Len(Tail(b)), i < j,
                        Tail(b)[i].src = Tail(b)[j].src, Tail(b)[i].net = Tail(b)[j].net
                 PROVE  Tail(b)[j].dist <= Tail(b)[i].dist
      <4>1. backlog'[s] = Tail(b)
        BY <1>4, <2>2
      <4> QED BY <4>1 DEF RowsFall
    <3>1. /\ Tail(b)[i] = b[i + 1] /\ Tail(b)[j] = b[j + 1]
          /\ i + 1 \in 1 .. Len(b) /\ j + 1 \in 1 .. Len(b) /\ i + 1 < j + 1
      BY <1>1, <1>2
    <3> QED BY <1>b, <3>1 DEF RowsFall
  <2> QED BY <2>1, <2>2
<1>e. ASSUME NEW s \in Routers, NEW i \in 1 .. Len(backlog'[s])
      PROVE  \E k \in 1 .. Len(backlog[s]) : backlog'[s][i] = backlog[s][k]
  <2>1. CASE s # r
    BY <1>4, <2>1
  <2>2. CASE s = r
    <3>1. backlog'[s] = Tail(b)
      BY <1>4, <2>2
    <3>2. i + 1 \in 1 .. Len(b) /\ backlog'[s][i] = b[i + 1]
      BY <1>1, <1>2, <3>1
    <3> QED BY <1>b, <2>2, <3>2
  <2> QED BY <2>1, <2>2
<1>9. ASSUME NEW s \in Routers, NEW i \in 1 .. Len(backlog'[s])
      PROVE  StillAsNear(backlog[s][i])'
  <2>1. PICK k \in 1 .. Len(backlog[s]) : backlog'[s][i] = backlog[s][k]
    BY <1>e
  <2>q. PICK q : q = backlog[s][k]
    OBVIOUS
  <2>2. StillAsNear(q) /\ q.src \in Routers /\ q.net \in Routers /\ q.dist \in Int
    BY <2>q, Shapes, BoundAssumption DEF Descent, Packets
  <2>r. backlog'[s][i] = q
    BY <2>1, <2>q
  <2>3. ThreadsRun(q.src) /\ rt[q.src][q.net].taken /\ rt[q.src][q.net].dist <= q.dist
    BY <2>2 DEF StillAsNear
  <2>4. ThreadsRun(q.src)'
    BY <1>4, <2>3 DEF ThreadsRun
  <2>5. rt'[q.src][q.net].taken /\ rt'[q.src][q.net].dist <= rt[q.src][q.net].dist
    BY <1>6, <2>2, <2>3
  <2>6. rt'[q.src][q.net].dist <= q.dist
    BY <1>7, <2>2, <2>3, <2>5
  <2> QED BY <2>r, <2>4, <2>5, <2>6 DEF StillAsNear
<1>10. ASSUME NEW s \in Routers, NEW n \in Routers
       PROVE  NextHopNearer(s, n)'
  <2> SUFFICES ASSUME NEW h, h = rt'[s][n].hop, rt'[s][n].taken = TRUE, h # n,
                      rt'[s][n].dist < RIP_MAX_HOP
               PROVE  /\ ThreadsRun(h)'
                      /\ rt'[h][n].taken /\ rt'[h][n].dist < rt'[s][n].dist
                      /\ \A i \in 1 .. Len(backlog'[s]) :
                           backlog'[s][i].src = h /\ backlog'[s][i].net = n =>
                             backlog'[s][i].dist < rt'[s][n].dist
    BY <1>7 DEF NextHopNearer
  <2>1. CASE rt'[s][n] = rt[s][n]
    <3>1. /\ h \in Routers /\ ThreadsRun(h) /\ rt[h][n].taken
          /\ rt[h][n].dist < rt[s][n].dist
          /\ \A i \in 1 .. Len(backlog[s]) :
               backlog[s][i].src = h /\ backlog[s][i].net = n =>
                 backlog[s][i].dist < rt[s][n].dist
      BY <2>1, Shapes DEF Descent, NextHopNearer
    <3>2. ThreadsRun(h)' /\ rt'[h][n].taken /\ rt'[h][n].dist < rt'[s][n].dist
      BY <1>4, <1>6, <1>7, <2>1, <3>1 DEF ThreadsRun
    <3>3. ASSUME NEW i \in 1 .. Len(backlog'[s]),
                 backlog'[s][i].src = h, backlog'[s][i].net = n
          PROVE  backlog'[s][i].dist < rt'[s][n].dist
      <4>1. PICK k \in 1 .. Len(backlog[s]) : backlog'[s][i] = backlog[s][k]
        BY <1>e
      <4> QED BY <2>1, <3>1, <3>3, <4>1
    <3> QED BY <3>2, <3>3
  <2>2. CASE rt'[s][n] # rt[s][n]
    <3>1. s = r /\ n = p.net /\ h = p.src /\ rt'[s][n].dist = p.dist + 1
      BY <1>4, <1>5, <2>2
    <3>2. ThreadsRun(h)' /\ rt'[h][n].taken /\ rt'[h][n].dist < rt'[s][n].dist
      BY <1>2, <1>3, <1>4, <1>7, <3>1 DEF StillAsNear, ThreadsRun
    <3>3. ASSUME NEW i \in 1 .. Len(Tail(b)), Tail(b)[i].src = h, Tail(b)[i].net = n
          PROVE  Tail(b)[i].dist < p.dist + 1
      <4>1. b[i + 1].dist <= p.dist
        BY <1>1, <1>2, <1>b, <3>1, <3>3 DEF RowsFall
      <4>2. b[i + 1].dist \in Int
        BY <1>2, <1>b, Shapes, BoundAssumption DEF Packets
      <4> QED BY <1>1, <1>3, <4>1, <4>2
    <3> QED BY <1>4, <3>1, <3>2, <3>3
  <2> QED BY <2>1, <2>2
<1> QED BY <1>8, <1>9, <1>10 DEF Descent

-----------------------------------------------------------------------------

LEMMA DescentInit == Init => DescentInv
<1> SUFFICES ASSUME Init
             PROVE  DescentInv
  OBVIOUS
<1>1. Inv
  BY InitInv
<1>2. \A s \in Routers : backlog[s] = <<>> /\ \A n \in Routers : rt[s][n].taken = FALSE
  BY DEF Init, EmptyTable, NoEntry
<1>3. Descent
  BY <1>2, EmptySeq DEF Descent, RowsFall, NextHopNearer
<1> QED BY <1>1, <1>3 DEF DescentInv

LEMMA DescentNext == DescentInv /\ [Next]_vars => DescentInv'
<1> SUFFICES ASSUME DescentInv, [Next]_vars
             PROVE  DescentInv'
  OBVIOUS
<1>1. Inv /\ Inv'
  BY NextInv DEF DescentInv
<1> SUFFICES ASSUME ~disturbed'
             PROVE  Descent'
  BY <1>1 DEF DescentInv
<1>2. CASE UNCHANGED vars
  BY <1>1, <1>2, QuietStep DEF vars, DescentInv, ThreadsRun
<1>3. CASE Next
  <2>1. PICK r \in Routers :
          \/ Start(r) \/ RouterThread(r) \/ StartDispatch(r)
          \/ DispatchRow(r) \/ EndLongSleep(r) \/ Crash(r)
    BY <1>3 DEF Next
  <2>2. CASE DispatchRow(r)
    <3>1. PICK ok : RowDone(r, ok)
      BY <2>2 DEF DispatchRow, SendRow, RowRefused, RowTimesOut
    <3>2. ~disturbed
      BY <3>1 DEF RowDone
    <3> QED BY <1>1, <2>2, <3>2, DispatchDescent DEF DescentInv
  <2>3. CASE ReceiveRow(r)
    BY <1>1, <2>3, ReceiveDescent DEF DescentInv, ReceiveRow
  <2>4. CASE Start(r) \/ StartUp(r) \/ StartDispatch(r) \/ EndLongSleep(r)
    <3>1. disturbed' = disturbed
      BY <2>4 DEF Start, StartUp, StartDispatch, EndLongSleep, Probe, CreateThreads,
                  CloseSocket, ReopenSocket
    <3> QED BY <1>1, <2>4, <3>1, StartDescent DEF DescentInv
  <2>5. CASE Crash(r)
    BY <2>5 DEF Crash
  <2> QED BY <2>1, <2>2, <2>3, <2>4, <2>5 DEF RouterThread
<1> QED BY <1>2, <1>3

\* On every topology, until a router exits or a table cannot be delivered, the
\* next hop of every usable entry is nearer to the network (RIPAlgorithm.c:233):
\* no packet is handed round in a circle.
THEOREM ForwardingAlwaysDescends == Spec => []ForwardingDescends
<1>1. DescentInv => ForwardingDescends
  BY DEF DescentInv, Descent, NextHopNearer, ForwardingDescends, TakenNetworks
<1> QED BY DescentInit, DescentNext, <1>1, PTL DEF Spec

\* The routers of ring pass a packet for n on among themselves.
PassesAround(ring, n) ==
  \A r \in ring :
    LET e == rt[r][n]
    IN  e.taken /\ e.dist < RIP_MAX_HOP /\ e.hop # n /\ e.hop \in ring

\* Until a router exits or a table cannot be delivered, no packet goes round
\* for ever, though router_switch_fabric.c:20-53 forwards it to the next hop and
\* counts no hops: in every set of routers one passes the packet to its
\* destination, out of the set or not at all.
NoForwardingLoops ==
  ~disturbed => \A ring \in SUBSET Routers : \A n \in Routers :
                   PassesAround(ring, n) => ring = {}

\* The member of a ring that is nearest would have a nearer one.
THEOREM ForwardingNeverLoops == Spec => []NoForwardingLoops
<1>1. Inv /\ ForwardingDescends => NoForwardingLoops
  <2> SUFFICES ASSUME Inv, ForwardingDescends, ~disturbed,
                      NEW ring \in SUBSET Routers, NEW n \in Routers,
                      PassesAround(ring, n), ring # {}
               PROVE  FALSE
    BY DEF NoForwardingLoops
  <2> DEFINE Dists == {rt[r][n].dist : r \in ring}
  <2>1. Dists \in SUBSET Nat /\ Dists # {}
    <3>1. \A r \in ring : rt[r][n].dist \in 0 .. RIP_MAX_HOP
      BY Shapes DEF PassesAround
    <3> QED BY <3>1, BoundAssumption
  <2>2. FirstOf(Dists) \in Dists /\ \A d \in Dists : FirstOf(Dists) <= d
    BY <2>1, FirstOfIn
  <2>3. PICK r \in ring : rt[r][n].dist = FirstOf(Dists)
    BY <2>2
  <2>4. rt[r][n].taken /\ rt[r][n].dist < RIP_MAX_HOP /\ rt[r][n].hop # n
        /\ rt[r][n].hop \in ring
    BY DEF PassesAround
  <2>5. rt[rt[r][n].hop][n].dist < rt[r][n].dist
    BY <2>4 DEF ForwardingDescends, TakenNetworks
  <2>6. rt[r][n].dist <= rt[rt[r][n].hop][n].dist
    BY <2>2, <2>3, <2>4
  <2>7. rt[r][n].dist \in Int /\ rt[rt[r][n].hop][n].dist \in Int
    BY <2>4, Shapes
  <2> QED BY <2>5, <2>6, <2>7
<1> QED BY <1>1, InvHolds, ForwardingAlwaysDescends, PTL

-----------------------------------------------------------------------------
(***************************************************************************)
(* The network of tables implements Relaxation.                            *)
(***************************************************************************)

\* The mapping of Rip to the distances of Relaxation, entry by entry.
Dist(e) == IF e.taken THEN e.dist ELSE RIP_MAX_HOP

\* Before its threads run, a router knows a neighbour as direct or as failed.
Fresh(r) ==
  ~ThreadsRun(r) =>
    \A n \in TakenNetworks(rt[r]) : rt[r][n].dist \in {DIRECT, RIP_MAX_HOP}

FreshInv == DescentInv /\ \A r \in Routers : Fresh(r)

\* No table before the first start.
LEMMA FreshInit == Init => FreshInv
<1> SUFFICES ASSUME Init, NEW r \in Routers
             PROVE  Fresh(r)
  BY DescentInit DEF FreshInv
<1> QED BY DEF Init, EmptyTable, NoEntry, Fresh, TakenNetworks

\* Only a router whose threads run reads rows or fails a network.
LEMMA FreshNext == FreshInv /\ [Next]_vars => FreshInv'
<1> SUFFICES ASSUME FreshInv, [Next]_vars, NEW s \in Routers, ~ThreadsRun(s)',
                    NEW n \in Routers, rt'[s][n].taken
             PROVE  rt'[s][n].dist \in {DIRECT, RIP_MAX_HOP}
  BY DescentNext DEF FreshInv, Fresh, TakenNetworks
<1>t. /\ rt \in [Routers -> [Routers -> Entries]] /\ phase \in [Routers -> Phases]
      /\ rt' \in [Routers -> [Routers -> Entries]] /\ rt'[s] \in [Routers -> Entries]
      /\ rt[s] \in [Routers -> Entries]
  BY DescentNext DEF FreshInv, DescentInv, Inv, TypeOK
<1>1. ASSUME ~ThreadsRun(s), rt'[s][n] = rt[s][n]
      PROVE  rt'[s][n].dist \in {DIRECT, RIP_MAX_HOP}
  BY <1>1 DEF FreshInv, Fresh, TakenNetworks
<1>2. CASE UNCHANGED vars
  BY <1>1, <1>2 DEF vars, ThreadsRun
<1>3. CASE Next
  <2>1. PICK r \in Routers :
          \/ Start(r) \/ RouterThread(r) \/ StartDispatch(r)
          \/ DispatchRow(r) \/ EndLongSleep(r) \/ Crash(r)
    BY <1>3 DEF Next
  <2>2. CASE Start(r)
    BY <1>t, <1>1, <2>2
       DEF Start, ThreadsRun, ConfiguredTable, DirectEntry, NoEntry
  <2>3. CASE Probe(r)
    <3>1. ~ThreadsRun(s)
      BY <2>3 DEF Probe, ThreadsRun
    <3>2. CASE s = r /\ n = FirstOf(todo[r]) /\ rt' # rt
      <4>1. rt' = [rt EXCEPT ![r][n].dist = RIP_MAX_HOP]
        BY <2>3, <3>2 DEF Probe
      <4>2. rt'[s][n] = [rt[s][n] EXCEPT !.dist = RIP_MAX_HOP]
        BY <1>t, <3>2, <4>1
      <4>3. rt[s][n] \in Entries
        BY <1>t
      <4> QED BY <4>2, <4>3 DEF Entries
    <3>3. CASE ~(s = r /\ n = FirstOf(todo[r]) /\ rt' # rt)
      <4>1. rt'[s][n] = rt[s][n]
        <5>1. PICK m : \/ rt' = rt
                       \/ /\ rt' = [rt EXCEPT ![r][m].dist = RIP_MAX_HOP]
                          /\ m = FirstOf(todo[r])
          BY <2>3 DEF Probe
        <5>2. rt[r] \in [Routers -> Entries]
          BY <1>t
        <5> QED BY <1>t, <3>3, <5>1, <5>2
      <4> QED BY <1>1, <3>1, <4>1
    <3> QED BY <3>2, <3>3
  <2>4. CASE CreateThreads(r) \/ CloseSocket(r) \/ ReopenSocket(r)
    <3>1. rt' = rt /\ ~ThreadsRun(s)
      BY <1>t, <2>4 DEF CreateThreads, CloseSocket, ReopenSocket, ThreadsRun
    <3> QED BY <1>1, <3>1
  <2>5. CASE StartDispatch(r) \/ EndLongSleep(r)
    BY <1>1, <2>5 DEF StartDispatch, EndLongSleep, ThreadsRun
  <2>6. CASE ReceiveRow(r) \/ DispatchRow(r)
    <3>1. phase' = phase /\ ThreadsRun(r)
      BY <2>6 DEF ReceiveRow, ThreadsRun, DispatchRow, SendRow, RowRefused,
                  RowTimesOut, RowDone, HoldsMutex
    <3>2. r # s /\ ~ThreadsRun(s)
      BY <3>1 DEF ThreadsRun
    <3>3. \E t : rt' = [rt EXCEPT ![r] = t]
      BY <2>6 DEF ReceiveRow, DispatchRow, SendRow, RowRefused, RowTimesOut, RowDone
    <3>4. rt'[s] = rt[s]
      BY <1>t, <3>2, <3>3
    <3> QED BY <1>1, <3>2, <3>4
  <2>7. CASE Crash(r)
    BY <1>t, <1>1, <2>7 DEF Crash, ThreadsRun, EmptyTable, NoEntry
  <2> QED BY <2>1, <2>2, <2>3, <2>4, <2>5, <2>6, <2>7 DEF RouterThread, StartUp
<1> QED BY <1>2, <1>3

\* What RTALGO_updateTable makes of the distances of a table.
LEMMA UpdatedDistances ==
  ASSUME NEW r \in Routers, NEW t \in [Routers -> Entries], TableOK(r, t),
         NEW p \in Packets, RowOK(r, p),
         /\ t[p.net].taken /\ t[p.net].hop = p.src /\ t[p.net].dist < RIP_MAX_HOP
           => p.dist < t[p.net].dist,
         NEW m \in Routers
  PROVE  Dist(UpdatedTable(r, t, p)[m]) =
           IF m = p.src THEN 0
           ELSE IF m = p.net /\ m # r THEN D!Nearer(Dist(t[m]), p.dist + 1)
           ELSE Dist(t[m])
<1> DEFINE up == updateNeighbourStatus(t, p)
           e == [taken |-> TRUE,
                 dist  |-> IF p.dist >= RIP_MAX_HOP THEN RIP_MAX_HOP ELSE p.dist + 1,
                 hop   |-> p.src]
           u == UpdatedTable(r, t, p)
<1>1. /\ p.src \in Routers /\ p.net \in Routers /\ p.dist \in 0 .. RIP_MAX_HOP
      /\ p.net # p.src /\ RIP_MAX_HOP \in Nat \ {0}
  BY BoundAssumption DEF Packets, RowOK
<1>2. \A n \in Routers : t[n].taken => t[n].dist \in 0 .. RIP_MAX_HOP
  BY DEF TableOK, EntryOK, Entries
<1>3. /\ up[p.src] = DirectEntry(p.src)
      /\ \A n \in Routers : n # p.src => up[n] = t[n]
      /\ up \in [Routers -> Entries]
  BY <1>1 DEF updateNeighbourStatus, DirectEntry, Entries, DIRECT
<1>4. \/ ~Accepts(r, up, p) /\ u = up
      \/ Accepts(r, up, p) /\ u = [up EXCEPT ![p.net] = e]
  BY DEF UpdatedTable, addIntoRoutingTable
<1> HIDE DEF up, u
<1>5. CASE m = p.src
  <2>1. u[m] = DirectEntry(p.src)
    BY <1>1, <1>3, <1>4, <1>5
  <2> QED BY <1>5, <2>1 DEF u, Dist, DirectEntry, DIRECT
<1>6. CASE m # p.src /\ m # p.net
  <2>1. u[m] = t[m]
    BY <1>1, <1>3, <1>4, <1>6
  <2> QED BY <1>6, <2>1 DEF u
<1>7. CASE m = p.net /\ m = r
  <2>1. t[m] = NoEntry /\ up[m] = t[m]
    BY <1>1, <1>3, <1>7 DEF TableOK, EntryOK
  <2>2. ~Accepts(r, up, p)
    BY <1>1, <1>7, <2>1, TopologyAssumption
       DEF Accepts, doesExist, isNextHopeFieldSame, isNewDistanceShorter, NoEntry, ERR
  <2> QED BY <1>1, <1>4, <1>7, <2>1, <2>2 DEF u
<1>8. CASE m = p.net /\ m # r
  <2>1. up[m] = t[m] /\ m # p.src
    BY <1>1, <1>3, <1>8
  <2> SUFFICES Dist(u[m]) = D!Nearer(Dist(t[m]), p.dist + 1)
    BY <1>8, <2>1 DEF u
  <2>2. CASE ~Accepts(r, up, p)
    <3>1. u[m] = t[m] /\ t[m].taken /\ t[m].dist <= p.dist + 1
      BY <1>1, <1>2, <1>4, <1>8, <2>1, <2>2
         DEF Accepts, doesExist, isNextHopeFieldSame, isNewDistanceShorter
    <3> QED BY <1>1, <1>2, <3>1 DEF Dist, D!Nearer
  <2>3. CASE Accepts(r, up, p)
    <3>1. u[m] = e
      BY <1>1, <1>3, <1>4, <1>8, <2>3
    <3>2. Dist(u[m]) = IF p.dist >= RIP_MAX_HOP THEN RIP_MAX_HOP ELSE p.dist + 1
      BY <3>1 DEF Dist
    <3>3. CASE ~t[m].taken
      BY <1>1, <3>2, <3>3 DEF Dist, D!Nearer
    <3>4. CASE t[m].taken
      <4>1. \/ t[m].hop = p.src \/ p.dist + 1 < t[m].dist
        BY <1>8, <2>1, <2>3, <3>4
           DEF Accepts, doesExist, isNextHopeFieldSame, isNewDistanceShorter
      <4>2. t[m].dist \in 0 .. RIP_MAX_HOP
        BY <1>2, <3>4
      <4>3. p.dist < t[m].dist \/ t[m].dist = RIP_MAX_HOP
        BY <1>1, <1>8, <3>4, <4>1, <4>2
      <4> QED BY <1>1, <3>2, <3>4, <4>2, <4>3 DEF Dist, D!Nearer
    <3> QED BY <3>3, <3>4
  <2> QED BY <2>2, <2>3
<1> QED BY <1>5, <1>6, <1>7, <1>8

\* A distance that is believed is a distance, and is sound.
LEMMA BelievedType ==
  ASSUME Inv
  PROVE  /\ Believed \in [Routers -> [Routers -> 0 .. RIP_MAX_HOP]]
         /\ D!Sound
         /\ \A r, n \in Routers :
              Believed[r][n] = IF ThreadsRun(r) THEN Dist(rt[r][n]) ELSE RIP_MAX_HOP
<1> USE BoundAssumption
<1>1. \A r, n \in Routers :
        Believed[r][n] = IF ThreadsRun(r) THEN Dist(rt[r][n]) ELSE RIP_MAX_HOP
  BY DEF Believed, Dist
<1>2. \A r, n \in Routers :
        IF ThreadsRun(r) /\ rt[r][n].taken THEN rt[r][n].dist \in 0 .. RIP_MAX_HOP ELSE TRUE
  BY Shapes
<1>3. Believed \in [Routers -> [Routers -> 0 .. RIP_MAX_HOP]]
  BY <1>2 DEF Believed
<1>4. ASSUME NEW r \in Routers, NEW n \in Routers, Believed[r][n] < RIP_MAX_HOP
      PROVE  HopCount[r][n] <= Believed[r][n] + 1
  <2>1. ThreadsRun(r) /\ rt[r][n].taken /\ Believed[r][n] = rt[r][n].dist
    BY <1>1, <1>4 DEF Dist
  <2>2. EntryOK(r, n, rt[r][n])
    BY DEF Inv, TableOK
  <2> QED BY <1>4, <2>1, <2>2 DEF EntryOK
<1> QED BY <1>1, <1>3, <1>4 DEF D!Sound

\* Steps that leave alone what the running routers believe.
LEMMA BelievedUnchanged ==
  ASSUME \A r \in Routers : ThreadsRun(r)' = ThreadsRun(r),
         \A r \in Routers : ThreadsRun(r) => rt'[r] = rt[r]
  PROVE  Believed' = Believed
BY DEF Believed

\* The threads are created: the router joins with the neighbours that
\* answered the probe.
LEMMA ThreadsJoin ==
  ASSUME FreshInv, NEW r \in Routers, CreateThreads(r)
  PROVE  D!Join(r)
<1> DEFINE reached == DirectNetworks(rt[r])
<1>1. /\ Inv /\ phase \in [Routers -> Phases] /\ Fresh(r)
      /\ phase[r] = "listening" /\ phase' = [phase EXCEPT ![r] = "running"] /\ rt' = rt
  BY DEF CreateThreads, FreshInv, DescentInv, Inv, TypeOK
<1>2. ~ThreadsRun(r) /\ ThreadsRun(r)'
      /\ \A s \in Routers : s # r => ThreadsRun(s)' = ThreadsRun(s)
  BY <1>1 DEF ThreadsRun
<1>3. \A n \in Routers : Believed[r][n] = RIP_MAX_HOP
  BY <1>1, <1>2, BelievedType
<1>4. reached \in SUBSET Neighbours[r]
  <2> SUFFICES ASSUME NEW n \in reached PROVE n \in Neighbours[r]
    OBVIOUS
  <2> QED BY <1>1 DEF DirectNetworks, TakenNetworks, Inv, TableOK, EntryOK
<1>5. ASSUME NEW n \in Routers
      PROVE  (IF rt[r][n].taken THEN rt[r][n].dist ELSE RIP_MAX_HOP)
                = IF n \in reached THEN 0 ELSE RIP_MAX_HOP
  BY <1>1, <1>2 DEF Fresh, DirectNetworks, TakenNetworks, DIRECT
<1> HIDE DEF reached
<1>6. Believed' = [Believed EXCEPT ![r] =
                     [n \in Routers |-> IF n \in reached THEN 0 ELSE RIP_MAX_HOP]]
  BY <1>1, <1>2, <1>5 DEF Believed
<1> QED BY <1>3, <1>4, <1>6 DEF D!Join

\* A row is read: the router hears from the sender.
LEMMA RowHeard ==
  ASSUME FreshInv, ~disturbed, NEW r \in Routers, ReceiveRow(r)
  PROVE  \E h \in Neighbours[r] : \E n \in Routers \ {h}, d \in 0 .. RIP_MAX_HOP :
           D!Hear(r, h, n, d)
<1> DEFINE p == Head(backlog[r])
<1>1. Inv /\ Descent
  BY DEF FreshInv, DescentInv
<1>t. rt \in [Routers -> [Routers -> Entries]] /\ rt[r] \in [Routers -> Entries]
  BY <1>1 DEF Inv, TypeOK
<1>2. p = backlog[r][1] /\ 1 \in 1 .. Len(backlog[r])
  BY <1>1, Shapes, HeadTailProperties, EmptySeq DEF ReceiveRow
<1>3. p \in Packets /\ RowOK(r, p) /\ StillAsNear(p)
  BY <1>1, <1>2, Shapes DEF Descent
<1>4. /\ phase' = phase /\ ThreadsRun(r)
      /\ rt' = [rt EXCEPT ![r] = UpdatedTable(r, rt[r], p)]
  BY DEF ReceiveRow, ThreadsRun
<1>5. rt[r][p.net].taken /\ rt[r][p.net].hop = p.src
        /\ rt[r][p.net].dist < RIP_MAX_HOP => p.dist < rt[r][p.net].dist
  <2>1. NextHopNearer(r, p.net)
    BY <1>1, <1>3 DEF Descent, Packets
  <2> QED BY <1>2, <1>3, <2>1 DEF NextHopNearer, RowOK
<1> HIDE DEF p
<1>6. /\ p.src \in Neighbours[r] /\ p.src \in Routers
      /\ p.net \in Routers \ {p.src} /\ p.dist \in 0 .. RIP_MAX_HOP
  BY <1>3 DEF RowOK, Packets
<1>7. Believed[p.src][p.net] <= p.dist
  BY <1>1, <1>3, <1>6, BelievedType DEF StillAsNear, Dist
<1>8. ASSUME NEW m \in Routers
      PROVE  Dist(rt'[r][m]) = IF m = p.src THEN 0
                               ELSE IF m = p.net /\ m # r
                                    THEN D!Nearer(Believed[r][p.net], p.dist + 1)
                               ELSE Believed[r][m]
  <2>1. Believed[r][m] = Dist(rt[r][m]) /\ Believed[r][p.net] = Dist(rt[r][p.net])
    BY <1>1, <1>4, <1>6, BelievedType
  <2>2. TableOK(r, rt[r])
    BY <1>1 DEF Inv
  <2>3. rt'[r] = UpdatedTable(r, rt[r], p)
    BY <1>t, <1>4
  <2>4. Dist(UpdatedTable(r, rt[r], p)[m]) =
           IF m = p.src THEN 0
           ELSE IF m = p.net /\ m # r THEN D!Nearer(Dist(rt[r][m]), p.dist + 1)
           ELSE Dist(rt[r][m])
    BY <1>t, <1>3, <1>5, <2>2, UpdatedDistances
  <2> QED BY <2>1, <2>3, <2>4
<1>9. \A s, m \in Routers :
        Believed'[s][m] = IF s = r THEN Dist(rt'[r][m]) ELSE Believed[s][m]
  BY <1>t, <1>4 DEF Believed, Dist, ThreadsRun
<1>10. \A m \in Routers : (m = p.net /\ m # r) <=> (m = p.net /\ p.net # r)
  OBVIOUS
<1>11. Believed' = [Believed EXCEPT ![r] = [m \in Routers |->
               IF m = p.src THEN 0
               ELSE IF m = p.net /\ p.net # r
                    THEN D!Nearer(Believed[r][p.net], p.dist + 1)
               ELSE Believed[r][m]]]
  <2> DEFINE f == [m \in Routers |->
               IF m = p.src THEN 0
               ELSE IF m = p.net /\ p.net # r
                    THEN D!Nearer(Believed[r][p.net], p.dist + 1)
               ELSE Believed[r][m]]
  <2>1. \A m \in Routers : Believed'[r][m] = f[m]
    BY <1>8, <1>9, <1>10
  <2>2. \A s \in Routers : s # r => \A m \in Routers : Believed'[s][m] = Believed[s][m]
    BY <1>9
  <2>3. \A s \in Routers : /\ Believed[s] = [m \in Routers |-> Believed[s][m]]
                           /\ Believed'[s] = [m \in Routers |-> Believed'[s][m]]
    BY DEF Believed
  <2>4. f = [m \in Routers |-> f[m]]
    OBVIOUS
  <2>5. /\ Believed = [s \in Routers |-> Believed[s]]
        /\ Believed' = [s \in Routers |-> Believed'[s]]
    BY DEF Believed
  <2> HIDE DEF f
  <2>6. \A s \in Routers : Believed'[s] = IF s = r THEN f ELSE Believed[s]
    BY <2>1, <2>2, <2>3, <2>4
  <2>7. Believed' = [Believed EXCEPT ![r] = f]
    BY <2>5, <2>6
  <2> QED BY <2>7 DEF f
<1> QED BY <1>6, <1>7, <1>11 DEF D!Hear

\* Until something is lost, every step but these two leaves the beliefs alone.
LEMMA StepRelaxes ==
  ASSUME FreshInv, [Next]_vars, ~disturbed'
  PROVE  /\ ~disturbed
         /\ \/ Believed' = Believed
            \/ \E r \in Routers :
                 \/ D!Join(r)
                 \/ \E h \in Neighbours[r] : \E n \in Routers \ {h}, d \in 0 .. RIP_MAX_HOP :
                      D!Hear(r, h, n, d)
<1>t. /\ rt \in [Routers -> [Routers -> Entries]] /\ phase \in [Routers -> Phases]
  BY DEF FreshInv, DescentInv, Inv, TypeOK
<1>1. CASE UNCHANGED vars
  BY <1>1, BelievedUnchanged DEF vars, ThreadsRun
<1>2. CASE Next
  <2>1. PICK r \in Routers :
          \/ Start(r) \/ RouterThread(r) \/ StartDispatch(r)
          \/ DispatchRow(r) \/ EndLongSleep(r) \/ Crash(r)
    BY <1>2 DEF Next
  <2>2. CASE Start(r) \/ Probe(r)
    <3>1. ~disturbed /\ ~ThreadsRun(r)
      BY <2>2 DEF Start, Probe, ThreadsRun
    <3>2. \A s \in Routers : ThreadsRun(s)' = ThreadsRun(s)
      BY <1>t, <2>2 DEF Start, Probe, ThreadsRun
    <3>3. \A s \in Routers : s # r => rt'[s] = rt[s]
      BY <1>t, <2>2 DEF Start, Probe
    <3> QED BY <3>1, <3>2, <3>3, BelievedUnchanged
  <2>3. CASE CreateThreads(r)
    <3>1. ~disturbed
      BY <2>3 DEF CreateThreads
    <3> QED BY <2>3, <3>1, ThreadsJoin
  <2>4. CASE CloseSocket(r) \/ ReopenSocket(r) \/ StartDispatch(r) \/ EndLongSleep(r)
    <3>1. ~disturbed /\ rt' = rt
      BY <2>4 DEF CloseSocket, ReopenSocket, StartDispatch, EndLongSleep
    <3>2. \A s \in Routers : ThreadsRun(s)' = ThreadsRun(s)
      BY <1>t, <2>4 DEF CloseSocket, ReopenSocket, StartDispatch, EndLongSleep, ThreadsRun
    <3> QED BY <3>1, <3>2, BelievedUnchanged
  <2>5. CASE DispatchRow(r)
    <3>1. PICK ok : RowDone(r, ok)
      BY <2>5 DEF DispatchRow, SendRow, RowRefused, RowTimesOut
    <3>2. ~disturbed /\ rt' = [rt EXCEPT ![r] = rt[r]] /\ phase' = phase
      BY <3>1 DEF RowDone
    <3>3. rt' = rt
      BY <1>t, <3>2
    <3> QED BY <3>2, <3>3, BelievedUnchanged DEF ThreadsRun
  <2>6. CASE ReceiveRow(r)
    <3>1. ~disturbed
      BY <2>6 DEF ReceiveRow
    <3> QED BY <2>6, <3>1, RowHeard
  <2>7. CASE Crash(r)
    BY <2>7 DEF Crash
  <2> QED BY <2>1, <2>2, <2>3, <2>4, <2>5, <2>6, <2>7 DEF RouterThread, StartUp
<1> QED BY <1>1, <1>2

BelievedSound ==
  Believed \in [Routers -> [Routers -> 0 .. RIP_MAX_HOP]] /\ D!Sound

\* On every topology the tables change as in a computation of shortest paths
\* by relaxation (RIPAlgorithm.c:101-226), whatever the order in which the
\* routers send and read their rows; after a failure they stay sound.
THEOREM TablesRelax == Spec => Relaxes
<1>1. Init => D!Init
  BY DEF Init, D!Init, Believed, ThreadsRun
<1>s. Inv => BelievedSound
  BY BelievedType DEF BelievedSound
<1>2. ASSUME FreshInv, FreshInv', BelievedSound', [Next]_vars
      PROVE  [D!Next]_(D!relaxationVars)
  <2>1. CASE ~disturbed'
    <3>1. disturbed \in BOOLEAN /\ disturbed' \in BOOLEAN
      BY <1>2 DEF FreshInv, DescentInv, Inv, TypeOK
    <3>2. ~disturbed /\ disturbed' = disturbed
      BY <1>2, <2>1, <3>1, StepRelaxes
    <3> QED BY <1>2, <2>1, <3>2, StepRelaxes DEF D!Next, D!relaxationVars
  <2>2. CASE disturbed'
    <3>1. disturbed' = TRUE
      BY <1>2, <2>2 DEF FreshInv, DescentInv, Inv, TypeOK
    <3> QED BY <1>2, <3>1 DEF D!Next, D!Lose, BelievedSound
  <2> QED BY <2>1, <2>2
<1>3. FreshInv => Inv
  BY DEF FreshInv, DescentInv
<1> QED BY <1>1, <1>s, <1>2, <1>3, FreshInit, FreshNext, PTL DEF Spec, Relaxes, D!RelaxationSpec

\* Relaxation needs no more than its own rules to be sound: a router that hears
\* from a neighbour never comes to believe a network nearer than it is, old as
\* the news may be.  NeverUnderstates of RTALGO_updateTable (RIPAlgorithm.c:46-111)
\* thus rests on the three rules being a relaxation, not on when rows arrive.
THEOREM RelaxationIsSound == D!RelaxationSpec => []D!Sound
<1>0. D!Init => BelievedSound
  BY BoundAssumption DEF D!Init, BelievedSound, D!Sound
<1>1. ASSUME BelievedSound, NEW r \in Routers, D!Join(r)
      PROVE  BelievedSound'
  <2>1. PICK near \in SUBSET Neighbours[r] :
          Believed' = [Believed EXCEPT ![r] =
                         [n \in Routers |-> IF n \in near THEN 0 ELSE RIP_MAX_HOP]]
    BY <1>1 DEF D!Join
  <2>2. \A n \in near : HopCount[r][n] <= 1
    BY HopCountAssumption
  <2> QED BY <1>1, <2>1, <2>2, BoundAssumption DEF BelievedSound, D!Sound
<1>2. ASSUME BelievedSound, NEW r \in Routers, NEW h \in Neighbours[r],
             NEW n \in Routers \ {h}, NEW d \in 0 .. RIP_MAX_HOP, D!Hear(r, h, n, d)
      PROVE  BelievedSound'
  <2>1. h \in Routers
    BY TopologyAssumption
  <2>2. /\ HopCount[r][h] <= 1 /\ HopCount[r][n] <= HopCount[h][n] + 1
        /\ HopCount[r][n] \in Nat /\ HopCount[h][n] \in Nat /\ HopCount[r][h] \in Nat
    BY <2>1, HopCountAssumption
  <2>3. /\ Believed[r] \in [Routers -> 0 .. RIP_MAX_HOP]
        /\ Believed[h][n] \in 0 .. RIP_MAX_HOP /\ Believed[h][n] <= d
        /\ Believed[h][n] < RIP_MAX_HOP => HopCount[h][n] <= Believed[h][n] + 1
    BY <1>2, <2>1 DEF BelievedSound, D!Sound, D!Hear
  <2> DEFINE f == [m \in Routers |->
                     IF m = h THEN 0
                     ELSE IF m = n /\ n # r THEN D!Nearer(Believed[r][n], d + 1)
                     ELSE Believed[r][m]]
  <2>4. f \in [Routers -> 0 .. RIP_MAX_HOP]
    BY <2>3, BoundAssumption DEF D!Nearer
  <2>5. \A m \in Routers : f[m] < RIP_MAX_HOP => HopCount[r][m] <= f[m] + 1
    BY <1>2, <2>2, <2>3, BoundAssumption DEF D!Nearer, BelievedSound, D!Sound
  <2>6. Believed' = [Believed EXCEPT ![r] = f]
    BY <1>2 DEF D!Hear
  <2> HIDE DEF f
  <2>7. \A s \in Routers : Believed'[s] = IF s = r THEN f ELSE Believed[s]
    BY <1>2, <2>6 DEF BelievedSound
  <2>8. Believed' \in [Routers -> [Routers -> 0 .. RIP_MAX_HOP]]
    BY <1>2, <2>4, <2>6 DEF BelievedSound
  <2> QED BY <1>2, <2>5, <2>7, <2>8 DEF BelievedSound, D!Sound
<1>3. ASSUME BelievedSound, [D!Next]_(D!relaxationVars)
      PROVE  BelievedSound'
  <2>1. CASE UNCHANGED D!relaxationVars
    BY <1>3, <2>1 DEF BelievedSound, D!Sound, D!relaxationVars
  <2>2. CASE D!Lose
    BY <2>2 DEF D!Lose, BelievedSound
  <2> QED BY <1>1, <1>2, <1>3, <2>1, <2>2 DEF D!Next
<1>4. BelievedSound => D!Sound
  BY DEF BelievedSound
<1> QED BY <1>0, <1>3, <1>4, PTL DEF D!RelaxationSpec

-----------------------------------------------------------------------------
(***************************************************************************)
(* Exact tables stay exact.                                                *)
(***************************************************************************)

\* An exact row changes nothing in an exact table.
LEMMA ExactRowChangesNothing ==
  ASSUME NEW r \in Routers, NEW t \in [Routers -> Entries], TableOK(r, t),
         \A n \in Routers \ {r} : t[n].taken /\ t[n].dist + 1 = HopCount[r][n],
         NEW p \in Packets, RowOK(r, p), p.dist + 1 = HopCount[p.src][p.net]
  PROVE  UpdatedTable(r, t, p) = t
<1> DEFINE e == [taken |-> TRUE,
                 dist  |-> IF p.dist >= RIP_MAX_HOP THEN RIP_MAX_HOP ELSE p.dist + 1,
                 hop   |-> p.src]
<1>1. /\ p.src \in Routers /\ p.net \in Routers /\ p.dist \in 0 .. RIP_MAX_HOP
      /\ p.net # p.src /\ p.src \in Neighbours[r] /\ p.src # r
      /\ RIP_MAX_HOP \in Nat \ {0}
  BY BoundAssumption, TopologyAssumption DEF Packets, RowOK
<1>2. \A n \in Routers : t[n].taken => t[n].dist \in 0 .. RIP_MAX_HOP
  BY DEF TableOK, EntryOK, Entries
<1>3. t[p.src] = DirectEntry(p.src)
  <2>1. t[p.src].taken /\ t[p.src].dist + 1 = HopCount[r][p.src]
    BY <1>1
  <2>2. HopCount[r][p.src] <= 1
    BY <1>1, HopCountAssumption
  <2>3. t[p.src].dist = 0
    BY <1>1, <1>2, <2>1, <2>2, HopCountType
  <2>4. t[p.src].hop = p.src /\ t[p.src] \in Entries
    BY <1>1, <2>1, <2>3 DEF TableOK, EntryOK, DIRECT
  <2> QED BY <2>1, <2>3, <2>4 DEF Entries, DirectEntry, DIRECT
<1>4. updateNeighbourStatus(t, p) = t
  BY <1>1, <1>3 DEF updateNeighbourStatus
<1>5. ASSUME Accepts(r, t, p)
      PROVE  t[p.net] = e
  <2>1. p.net # r
    <3>1. ASSUME p.net = r PROVE FALSE
      <4>1. t[p.net] = NoEntry
        BY <1>1, <3>1 DEF TableOK, EntryOK
      <4> QED BY <1>1, <1>5, <3>1, <4>1, TopologyAssumption
         DEF Accepts, doesExist, isNextHopeFieldSame, isNewDistanceShorter, NoEntry, ERR
    <3> QED BY <3>1
  <2>2. t[p.net].taken /\ t[p.net].dist + 1 = HopCount[r][p.net]
        /\ t[p.net].dist \in 0 .. RIP_MAX_HOP
    BY <1>1, <1>2, <2>1
  <2>3. HopCount[r][p.net] <= HopCount[p.src][p.net] + 1
    BY <1>1, HopCountAssumption
  <2>4. ~isNewDistanceShorter(t, p)
    BY <1>1, <2>2, <2>3, HopCountType DEF isNewDistanceShorter
  <2>5. t[p.net].hop = p.src /\ p.dist + 1 # t[p.net].dist
    BY <1>5, <2>2, <2>4 DEF Accepts, doesExist, isNextHopeFieldSame
  <2>6. t[p.net].dist < RIP_MAX_HOP => HopCount[p.src][p.net] <= t[p.net].dist
    BY <1>1, <2>2, <2>5 DEF TableOK, EntryOK
  <2>7. t[p.net].dist = RIP_MAX_HOP /\ p.dist = RIP_MAX_HOP
    BY <1>1, <2>2, <2>3, <2>5, <2>6, HopCountType
  <2>8. t[p.net] = [taken |-> TRUE, dist |-> RIP_MAX_HOP, hop |-> p.src]
    <3>1. t[p.net] \in Entries
      BY <1>1
    <3> QED BY <2>2, <2>5, <2>7, <3>1 DEF Entries
  <2>9. p.dist >= RIP_MAX_HOP
    BY <1>1, <2>7
  <2> QED BY <2>8, <2>9
<1>6. ASSUME Accepts(r, t, p)
      PROVE  addIntoRoutingTable(t, p) = t
  <2>1. addIntoRoutingTable(t, p) = [t EXCEPT ![p.net] = e]
    BY DEF addIntoRoutingTable
  <2> HIDE DEF e
  <2> QED BY <1>1, <1>5, <1>6, <2>1
<1> QED BY <1>4, <1>6 DEF UpdatedTable

\* Exact tables and rows, when no router exits and none gives a connect up.
THEOREM ExactTablesStay == Spec => SettledStays
<1>1. ASSUME Inv, Inv', [Next]_vars, Settled,
             ~\E r \in Routers : Crash(r) \/ RowTimesOut(r)
      PROVE  Settled'
  <2>t. /\ rt \in [Routers -> [Routers -> Entries]] /\ phase \in [Routers -> Phases]
        /\ backlog \in [Routers -> Seq(Packets)]
        /\ \A r \in Routers : phase[r] = "open" /\ rt[r] \in [Routers -> Entries]
    BY <1>1 DEF Inv, TypeOK, Settled, AllOpen
  <2>1. ASSUME rt' = rt, phase' = phase, backlog' = backlog
        PROVE  Settled'
    BY <1>1, <2>1 DEF Settled, AllOpen, Exact
  <2>2. ASSUME NEW r \in Routers, SendRow(r)
        PROVE  Settled'
    <3> DEFINE q == PortOf(r)
               p == RowPacket(r)
    <3>1. HoldsMutex(r)
      BY <2>2 DEF SendRow
    <3>2. q \in Routers /\ p \in Packets /\ RowOK(q, p)
      BY <1>1, <3>1, RowPacketOK
    <3>3. phase' = phase /\ rt' = [rt EXCEPT ![r] = rt[r]]
      BY <2>2 DEF SendRow, RowDone
    <3>4. rt' = rt
      BY <2>t, <3>3
    <3>5. p.dist + 1 = HopCount[p.src][p.net]
      <4>1. p.src = r /\ p.net \in Routers /\ p.net # r /\ p.dist = rt[r][p.net].dist
        BY <3>2 DEF RowPacket, Packets, RowOK
      <4> HIDE DEF p
      <4> QED BY <1>1, <4>1 DEF Settled, Exact
    <3>6. backlog' = [backlog EXCEPT ![q] = Append(@, p)]
      BY <2>2 DEF SendRow
    <3> HIDE DEF p, q
    <3>7. ASSUME NEW s \in Routers, NEW i \in 1 .. Len(backlog'[s])
          PROVE  \/ backlog'[s][i] = p
                 \/ i \in 1 .. Len(backlog[s]) /\ backlog'[s][i] = backlog[s][i]
      <4>1. CASE s # q
        BY <2>t, <3>2, <3>6, <3>7, <4>1
      <4>2. CASE s = q
        <5>1. backlog'[s] = Append(backlog[s], p) /\ backlog[s] \in Seq(Packets)
          BY <2>t, <3>2, <3>6, <4>2
        <5> QED BY <3>2, <3>7, <5>1, AppendProperties, LenProperties
      <4> QED BY <4>1, <4>2
    <3> QED BY <1>1, <3>3, <3>4, <3>5, <3>7 DEF Settled, AllOpen, Exact
  <2>3. ASSUME NEW r \in Routers, RowRefused(r)
        PROVE  FALSE
    <3>1. PortOf(r) \in Routers
      BY <1>1, <2>3, RowPacketOK DEF RowRefused
    <3> QED BY <2>t, <2>3, <3>1 DEF RowRefused, Listens
  <2>4. ASSUME NEW r \in Routers, ReceiveRow(r)
        PROVE  Settled'
    <3> DEFINE p == Head(backlog[r])
    <3>1. p = backlog[r][1] /\ 1 \in 1 .. Len(backlog[r])
      BY <1>1, <2>4, Shapes, HeadTailProperties, EmptySeq DEF ReceiveRow
    <3>2. p \in Packets /\ RowOK(r, p) /\ p.dist + 1 = HopCount[p.src][p.net]
      BY <1>1, <3>1, Shapes DEF Settled
    <3>3. rt' = [rt EXCEPT ![r] = UpdatedTable(r, rt[r], p)] /\ phase' = phase
          /\ backlog' = [backlog EXCEPT ![r] = Tail(@)]
      BY <2>4 DEF ReceiveRow
    <3> HIDE DEF p
    <3>4. UpdatedTable(r, rt[r], p) = rt[r]
      <4>1. TableOK(r, rt[r]) /\ \A n \in Routers \ {r} :
              rt[r][n].taken /\ rt[r][n].dist + 1 = HopCount[r][n]
        BY <1>1 DEF Inv, Settled, Exact
      <4> QED BY <2>t, <3>2, <4>1, ExactRowChangesNothing
    <3>5. rt' = rt
      BY <2>t, <3>3, <3>4
    <3>6. ASSUME NEW s \in Routers, NEW i \in 1 .. Len(backlog'[s])
          PROVE  \E k \in 1 .. Len(backlog[s]) : backlog'[s][i] = backlog[s][k]
      <4>1. CASE s # r
        BY <2>t, <3>3, <4>1, <3>6
      <4>2. CASE s = r
        <5>1. backlog'[s] = Tail(backlog[r]) /\ backlog[r] \in Seq(Packets)
              /\ backlog[r] # <<>>
          BY <2>t, <2>4, <3>3, <4>2 DEF ReceiveRow
        <5>2. Len(Tail(backlog[r])) = Len(backlog[r]) - 1 /\ Len(backlog[r]) \in Nat
              /\ \A j \in 1 .. Len(Tail(backlog[r])) :
                   Tail(backlog[r])[j] = backlog[r][j + 1]
          BY <5>1, HeadTailProperties, LenProperties
        <5>3. i + 1 \in 1 .. Len(backlog[s]) /\ backlog'[s][i] = backlog[s][i + 1]
          BY <3>6, <4>2, <5>1, <5>2
        <5> QED BY <5>3
      <4> QED BY <4>1, <4>2
    <3>7. ASSUME NEW s \in Routers, NEW i \in 1 .. Len(backlog'[s])
          PROVE  backlog'[s][i].dist + 1
                   = HopCount[backlog'[s][i].src][backlog'[s][i].net]
      <4>1. PICK k \in 1 .. Len(backlog[s]) : backlog'[s][i] = backlog[s][k]
        BY <3>6, <3>7
      <4> QED BY <1>1, <4>1 DEF Settled
    <3> QED BY <1>1, <3>3, <3>5, <3>7 DEF Settled, AllOpen, Exact
  <2>5. ASSUME NEW r \in Routers, Start(r) \/ StartUp(r)
        PROVE  FALSE
    BY <2>t, <2>5 DEF Start, StartUp, Probe, CreateThreads, CloseSocket, ReopenSocket
  <2>6. ASSUME NEW r \in Routers, StartDispatch(r) \/ EndLongSleep(r)
        PROVE  Settled'
    BY <2>1, <2>6 DEF StartDispatch, EndLongSleep
  <2>7. CASE UNCHANGED vars
    BY <2>1, <2>7 DEF vars
  <2> QED BY <1>1, <2>2, <2>3, <2>4, <2>5, <2>6, <2>7
          DEF Next, RouterThread, DispatchRow
<1>2. Inv /\ Inv' /\ [Next]_vars
        => [Settled => Settled' \/ \E r \in Routers : Crash(r) \/ RowTimesOut(r)]_vars
  BY <1>1
<1> QED BY <1>2, InitInv, NextInv, PTL DEF Spec, SettledStays

-----------------------------------------------------------------------------
(***************************************************************************)
(* Tables that have gone quiet are exact.                                  *)
(***************************************************************************)

\* A router that runs has a row for every neighbour, be it a failed one.
Listed(r) == phase[r] # "off" => Neighbours[r] \subseteq TakenNetworks(rt[r])

ListedInv == Inv /\ \A r \in Routers : Listed(r)

\* A router lists its neighbours when it starts, and no step but its exit
\* takes a row out of its table.
LEMMA ListedNext == ListedInv /\ [Next]_vars => ListedInv'
<1> SUFFICES ASSUME ListedInv, [Next]_vars, NEW s \in Routers, NEW n \in Neighbours[s],
                    phase'[s] # "off"
             PROVE  n \in Routers /\ rt'[s][n].taken
  BY NextInv DEF ListedInv, Listed, TakenNetworks
<1>t. /\ rt \in [Routers -> [Routers -> Entries]] /\ phase \in [Routers -> Phases]
      /\ backlog \in [Routers -> Seq(Packets)] /\ rt[s] \in [Routers -> Entries]
      /\ todo \in [Routers -> SUBSET Routers]
      /\ n \in Routers
  BY TopologyAssumption DEF ListedInv, Inv, TypeOK
<1>1. phase[s] # "off" => rt[s][n].taken
  BY DEF ListedInv, Listed, TakenNetworks
<1>2. CASE UNCHANGED vars
  BY <1>t, <1>1, <1>2 DEF vars
<1>3. CASE Next
  <2>1. PICK r \in Routers :
          \/ Start(r) \/ RouterThread(r) \/ StartDispatch(r)
          \/ DispatchRow(r) \/ EndLongSleep(r) \/ Crash(r)
    BY <1>3 DEF Next
  <2>2. CASE Start(r)
    BY <1>t, <1>1, <2>2 DEF Start, ConfiguredTable, DirectEntry
  <2>3. CASE Crash(r)
    BY <1>t, <1>1, <2>3 DEF Crash
  <2>4. ASSUME NEW t \in [Routers -> Entries], rt' = [rt EXCEPT ![r] = t],
               rt[r][n].taken => t[n].taken, phase[s] # "off"
        PROVE  rt'[s][n].taken
    BY <1>t, <1>1, <2>4
  <2>5. ASSUME NEW m \in Routers, rt' = [rt EXCEPT ![r][m].dist = RIP_MAX_HOP], phase' = phase
        PROVE  rt'[s][n].taken
    <3>1. rt[s][n] \in Entries
      BY <1>t
    <3>2. rt'[s][n].taken = rt[s][n].taken
      <4>1. CASE s = r /\ n = m
        <5>1. rt'[s][n] = [rt[s][n] EXCEPT !.dist = RIP_MAX_HOP]
          BY <1>t, <2>5, <4>1
        <5> QED BY <3>1, <5>1 DEF Entries
      <4>2. CASE ~(s = r /\ n = m)
        BY <1>t, <2>5, <4>2
      <4> QED BY <4>1, <4>2
    <3> QED BY <1>1, <2>5, <3>2
  <2>6. CASE Probe(r)
    <3>1. FirstOf(todo[r]) \in Routers
      BY <1>t, <2>6, FirstOfRoutersHolds DEF FirstOfRouters, Probe
    <3>2. phase' = phase /\ \/ rt' = rt
                            \/ rt' = [rt EXCEPT ![r][FirstOf(todo[r])].dist = RIP_MAX_HOP]
      BY <2>6 DEF Probe
    <3> QED BY <1>t, <1>1, <2>5, <3>1, <3>2
  <2>7. CASE CreateThreads(r) \/ CloseSocket(r) \/ ReopenSocket(r)
    BY <1>t, <1>1, <2>7 DEF CreateThreads, CloseSocket, ReopenSocket
  <2>8. CASE StartDispatch(r) \/ EndLongSleep(r)
    BY <1>t, <1>1, <2>8 DEF StartDispatch, EndLongSleep
  <2>9. CASE DispatchRow(r)
    <3>1. PICK ok \in BOOLEAN : RowDone(r, ok)
      BY <2>9 DEF DispatchRow, SendRow, RowRefused, RowTimesOut, ListedInv, Inv, TypeOK
    <3>2. phase' = phase /\ FirstOf(todo[r]) \in Routers
      BY <1>t, <2>9, <3>1, FirstOfRoutersHolds
         DEF RowDone, FirstOfRouters, DispatchRow, SendRow, RowRefused, RowTimesOut, HoldsMutex
    <3>3. \/ rt' = [rt EXCEPT ![r] = rt[r]]
          \/ rt' = [rt EXCEPT ![r] = [rt[r] EXCEPT ![FirstOf(todo[r])].dist = RIP_MAX_HOP]]
      BY <3>1 DEF RowDone
    <3>4. CASE rt' = [rt EXCEPT ![r] = rt[r]]
      BY <1>t, <1>1, <3>2, <3>4
    <3>5. CASE rt' = [rt EXCEPT ![r] = [rt[r] EXCEPT ![FirstOf(todo[r])].dist = RIP_MAX_HOP]]
      <4> DEFINE m == FirstOf(todo[r])
                 t == [rt[r] EXCEPT ![m].dist = RIP_MAX_HOP]
      <4>1. rt[r] \in [Routers -> Entries] /\ m \in Routers
        BY <1>t, <3>2
      <4>2. t \in [Routers -> Entries] /\ (rt[r][n].taken => t[n].taken)
        <5>1. \A x \in Entries : [x EXCEPT !.dist = RIP_MAX_HOP] \in Entries
                 /\ [x EXCEPT !.dist = RIP_MAX_HOP].taken = x.taken
          BY BoundAssumption DEF Entries
        <5>2. \A k \in Routers : t[k] = IF k = m THEN [rt[r][k] EXCEPT !.dist = RIP_MAX_HOP]
                                       ELSE rt[r][k]
          BY <4>1
        <5>3. t = [k \in Routers |-> t[k]]
          BY <4>1
        <5>4. \A k \in Routers : rt[r][k] \in Entries
          BY <4>1
        <5> HIDE DEF t, m
        <5>5. \A k \in Routers : t[k] \in Entries
          BY <5>1, <5>2, <5>4
        <5>6. t[n].taken = rt[r][n].taken
          <6>1. CASE n = m
            <7>1. t[n] = [rt[r][n] EXCEPT !.dist = RIP_MAX_HOP]
              BY <1>t, <5>2, <6>1
            <7> QED BY <1>t, <5>1, <5>4, <7>1
          <6>2. CASE n # m
            BY <1>t, <5>2, <6>2
          <6> QED BY <6>1, <6>2
        <5> QED BY <5>3, <5>5, <5>6
      <4> HIDE DEF t
      <4> QED BY <1>t, <1>1, <2>4, <3>2, <3>5, <4>2 DEF t
    <3> QED BY <3>3, <3>4, <3>5
  <2>10. CASE ReceiveRow(r)
    <3> DEFINE p == Head(backlog[r])
    <3>1. p \in Packets
      BY <2>10, TailRows DEF ReceiveRow, ListedInv, Inv, TypeOK, BacklogOK
    <3>2. rt' = [rt EXCEPT ![r] = UpdatedTable(r, rt[r], p)] /\ phase' = phase
      BY <2>10 DEF ReceiveRow
    <3> HIDE DEF p
    <3>3. UpdatedTable(r, rt[r], p) \in [Routers -> Entries]
      BY <1>t, <3>1, UpdatedTableType
    <3>4. rt[r][n].taken => UpdatedTable(r, rt[r], p)[n].taken
      BY <1>t, <3>1, UpdatedTableKeeps DEF TakenNetworks
    <3> QED BY <1>t, <2>4, <3>2, <3>3, <3>4
  <2> QED BY <2>1, <2>2, <2>3, <2>6, <2>7, <2>8, <2>9, <2>10 DEF RouterThread, StartUp
<1> QED BY <1>2, <1>3

\* Quiet tables hold every neighbour as direct: its row for this router would
\* otherwise set the entry.
LEMMA QuietNeighboursDirect ==
  ASSUME ListedInv, AllOpen, Quiet, NEW r \in Routers, NEW s \in Neighbours[r]
  PROVE  rt[r][s] = DirectEntry(s)
<1>1. s \in Routers /\ r # s /\ r \in TakenNetworks(rt[s])
  BY TopologyAssumption DEF ListedInv, Listed, AllOpen
<1> DEFINE p == [src |-> s, net |-> r, dist |-> rt[s][r].dist]
<1>2. UpdatedTable(r, rt[r], p) = rt[r]
  BY <1>1 DEF Quiet
<1>3. rt[r] \in [Routers -> Entries] /\ p.src = s /\ p.net = r
  BY DEF ListedInv, Inv, TypeOK
<1> HIDE DEF p
<1>4. updateNeighbourStatus(rt[r], p)[s] = DirectEntry(s)
  BY <1>1, <1>3 DEF updateNeighbourStatus
<1>5. UpdatedTable(r, rt[r], p)[s] = updateNeighbourStatus(rt[r], p)[s]
  BY <1>1, <1>3 DEF UpdatedTable, addIntoRoutingTable, updateNeighbourStatus
<1> QED BY <1>2, <1>4, <1>5

\* If the neighbour that lies on a shortest path to n has the exact distance,
\* so has the router: its row is no news only when the entry agrees with it.
LEMMA ExactFromNeighbour ==
  ASSUME ListedInv, AllOpen, Quiet, ShortestPaths,
         NEW r \in Routers, NEW n \in Routers, n # r,
         NEW s \in Neighbours[r], HopCount[r][n] = HopCount[s][n] + 1,
         s # n => rt[s][n].taken /\ rt[s][n].dist + 1 = HopCount[s][n]
  PROVE  rt[r][n].taken /\ rt[r][n].dist + 1 = HopCount[r][n]
<1>1. /\ s \in Routers /\ r # s /\ rt[r][s] = DirectEntry(s)
      /\ HopCount[r][n] \in Nat /\ HopCount[s][n] \in Nat
      /\ HopCount[r][n] <= RIP_MAX_HOP
      /\ HopCount[r][s] <= 1 /\ RIP_MAX_HOP \in Nat
  BY TopologyAssumption, HopCountAssumption, HopCountType, QuietNeighboursDirect,
     BoundAssumption DEF ShortestPaths
<1>2. CASE s = n
  BY <1>1, <1>2 DEF DirectEntry, DIRECT
<1>3. CASE s # n
  <2> DEFINE p == [src |-> s, net |-> n, dist |-> rt[s][n].dist]
             e == [taken |-> TRUE,
                   dist  |-> IF p.dist >= RIP_MAX_HOP THEN RIP_MAX_HOP ELSE p.dist + 1,
                   hop   |-> p.src]
  <2>1. /\ p.src = s /\ p.net = n
        /\ p.dist \in Int /\ p.dist + 1 = HopCount[s][n] /\ p.dist < RIP_MAX_HOP
    <3>1. rt[s][n].dist \in Int
      BY <1>1, Shapes DEF ListedInv
    <3> QED BY <1>1, <1>3, <3>1
  <2>2. UpdatedTable(r, rt[r], p) = rt[r]
    BY <1>1, <1>3 DEF Quiet, TakenNetworks
  <2>3. rt[r] \in [Routers -> Entries] /\ rt[r][n].dist \in Int /\ EntryOK(r, n, rt[r][n])
    BY Shapes DEF ListedInv, Inv, TypeOK, TableOK
  <2>e. addIntoRoutingTable(rt[r], p) = [rt[r] EXCEPT ![p.net] = e]
    BY DEF addIntoRoutingTable
  <2>p. e.taken /\ e.dist = p.dist + 1
    BY <1>1, <2>1
  <2> HIDE DEF p, e
  <2>4. updateNeighbourStatus(rt[r], p) = rt[r]
    BY <1>1, <2>1, <2>3 DEF updateNeighbourStatus
  <2>5. CASE Accepts(r, rt[r], p)
    <3>1. rt[r] = [rt[r] EXCEPT ![n] = e]
      BY <2>1, <2>2, <2>4, <2>5, <2>e DEF UpdatedTable
    <3>2. rt[r][n] = e
      BY <2>3, <3>1
    <3> QED BY <2>1, <2>p, <3>2
  <2>6. CASE ~Accepts(r, rt[r], p)
    <3>1. rt[r][n].taken /\ ~(p.dist + 1 < rt[r][n].dist)
      BY <2>1, <2>6 DEF Accepts, doesExist, isNewDistanceShorter
    <3>2. rt[r][n].dist < RIP_MAX_HOP => HopCount[r][n] <= rt[r][n].dist + 1
      BY <2>3, <3>1 DEF EntryOK
    <3> QED BY <1>1, <2>1, <2>3, <3>1, <3>2
  <2> QED BY <2>5, <2>6
<1> QED BY <1>2, <1>3

\* When all routers are up and have no news for each other, the tables hold
\* the shortest paths, on every topology and after any failures: a wrong entry
\* for the nearest network that has one would be put right by the next row of
\* the neighbour on a shortest path.
THEOREM QuietTablesAreExact == Spec => []QuietMeansExact
<1>1. Init => ListedInv
  BY InitInv DEF Init, ListedInv, Listed
<1>2. ListedInv => QuietMeansExact
  <2> SUFFICES ASSUME ListedInv, ShortestPaths, AllOpen, Quiet
               PROVE  Exact
    BY DEF QuietMeansExact
  <2> DEFINE Right(r, n) == rt[r][n].taken /\ rt[r][n].dist + 1 = HopCount[r][n]
             Wrong == {k \in Nat : \E r \in Routers : \E n \in Routers \ {r} :
                                     HopCount[r][n] = k /\ ~Right(r, n)}
  <2>1. ASSUME Wrong # {}
        PROVE  FALSE
    <3>1. FirstOf(Wrong) \in Wrong /\ \A m \in Wrong : FirstOf(Wrong) <= m
      BY <2>1, FirstOfIn
    <3>2. PICK r \in Routers : \E n \in Routers \ {r} :
                 HopCount[r][n] = FirstOf(Wrong) /\ ~Right(r, n)
      BY <3>1
    <3>3. PICK n \in Routers \ {r} : HopCount[r][n] = FirstOf(Wrong) /\ ~Right(r, n)
      BY <3>2
    <3>4. PICK s \in Neighbours[r] : HopCount[r][n] = HopCount[s][n] + 1
      BY <3>3 DEF ShortestPaths
    <3>5. s \in Routers /\ HopCount[s][n] \in Nat
      BY <3>4, TopologyAssumption, HopCountType
    <3>6. HopCount[s][n] \notin Wrong
      <4>1. ~(HopCount[s][n] + 1 <= HopCount[s][n])
        BY <3>5
      <4> HIDE DEF Wrong
      <4> QED BY <3>1, <3>3, <3>4, <4>1
    <3>7. s # n => Right(s, n)
      BY <3>5, <3>6
    <3> QED BY <3>3, <3>4, <3>7, ExactFromNeighbour
  <2>2. ASSUME NEW r \in Routers, NEW n \in Routers \ {r}
        PROVE  Right(r, n)
    BY <2>1, HopCountType
  <2> QED BY <2>2 DEF Exact
<1> QED BY <1>1, <1>2, ListedNext, PTL DEF Spec
=============================================================================
