------------------------------ MODULE RipProofs ------------------------------
(***************************************************************************)
(* Proofs about Rip for every topology, every bound and every number of    *)
(* crashes.  The inductive invariant is Inv: what the entries of a table   *)
(* say (EntryOK), what the rows under way say (RowOK), and what the        *)
(* dispatcher has left to do (DispatcherOK).                               *)
(***************************************************************************)
EXTENDS Rip, LookupProofs, TLAPS, SequenceTheorems

-----------------------------------------------------------------------------
(***************************************************************************)
(* The invariant.                                                          *)
(***************************************************************************)

\* What an entry for n in the table of r may hold.
EntryOK(r, n, e) ==
  /\ e.taken =>
       /\ n # r
       /\ e.hop \in Neighbours[r]
       /\ e.dist # ERR
       /\ e.dist = DIRECT => e.hop = n
       /\ e.dist < RIP_MAX_HOP => HopCount[r][n] <= e.dist + 1
       /\ e.dist < RIP_MAX_HOP /\ e.hop # n => HopCount[e.hop][n] <= e.dist
  /\ ~e.taken => e = NoEntry

TableOK(r, t) == \A n \in Routers : EntryOK(r, n, t[n])

\* What a row that waits at the socket of r may hold.
RowOK(r, p) ==
  /\ p.src \in Neighbours[r]
  /\ p.net # p.src
  /\ p.dist < RIP_MAX_HOP => HopCount[p.src][p.net] <= p.dist + 1

BacklogOK(r) == \A i \in 1 .. Len(backlog[r]) : RowOK(r, backlog[r][i])

\* The networks still to be probed or served are direct, and a dispatcher
\* that holds the mutex has a row to send.
DispatcherOK(r) ==
  /\ todo[r] \subseteq DirectNetworks(rt[r])
  /\ rows[r] \subseteq TakenNetworks(rt[r])
  /\ HoldsMutex(r) <=> rows[r] # {}

Inv ==
  /\ TypeOK
  /\ \A r \in Routers : TableOK(r, rt[r])
  /\ \A r \in Routers : BacklogOK(r)
  /\ \A r \in Routers : DispatcherOK(r)

\* FirstOfIn, for the sets of routers the actions choose from.
FirstOfRouters ==
  \A S \in SUBSET Routers : S # {} => FirstOf(S) \in S

\* The first of a set of routers is one of them.
LEMMA FirstOfRoutersHolds == FirstOfRouters
BY TopologyAssumption, FirstOfIn DEF FirstOfRouters

-----------------------------------------------------------------------------
(***************************************************************************)
(* The rules of RIPAlgorithm.c keep a table well typed and sound.          *)
(***************************************************************************)

\* The bound on the hops between two routers is a number.
LEMMA HopCountType == \A a, b \in Routers : HopCount[a][b] \in Nat
<1> SUFFICES ASSUME NEW a \in Routers, NEW b \in Routers
             PROVE  HopCount[a][b] \in Nat
  OBVIOUS
<1>1. HopCount[a] \in [Routers -> Nat]
  BY HopCountAssumption
<1> QED BY <1>1

\* RTALGO_updateTable keeps the type of a table.
LEMMA UpdatedTableType ==
  ASSUME NEW r \in Routers, NEW t \in [Routers -> Entries],
         NEW p \in Packets
  PROVE  UpdatedTable(r, t, p) \in [Routers -> Entries]
<1> USE DEF Packets, Entries
<1>1. DirectEntry(p.src) \in Entries
  BY BoundAssumption DEF DirectEntry, DIRECT
<1>2. updateNeighbourStatus(t, p) \in [Routers -> Entries]
  BY <1>1 DEF updateNeighbourStatus
<1>3. \A up \in [Routers -> Entries] :
         addIntoRoutingTable(up, p) \in [Routers -> Entries]
  BY BoundAssumption DEF addIntoRoutingTable
<1> QED BY <1>2, <1>3 DEF UpdatedTable

\* RTALGO_updateTable keeps a table sound when the row is: this is where the
\* triangle inequality of HopCountAssumption is needed.
LEMMA UpdatedTableOK ==
  ASSUME NEW r \in Routers, NEW t \in [Routers -> Entries], TableOK(r, t),
         NEW p \in Packets, RowOK(r, p)
  PROVE  TableOK(r, UpdatedTable(r, t, p))
<1> DEFINE up == updateNeighbourStatus(t, p)
<1> USE BoundAssumption
<1>0. /\ p.src \in Routers /\ p.net \in Routers /\ p.dist \in 0 .. RIP_MAX_HOP
      /\ p.src \in Neighbours[r] /\ p.src # r
  BY TopologyAssumption DEF Packets, RowOK
<1>1. EntryOK(r, p.src, DirectEntry(p.src))
  <2>1. HopCount[r][p.src] <= 1
    BY <1>0, HopCountAssumption
  <2> QED BY <1>0, <2>1 DEF EntryOK, DirectEntry, DIRECT, ERR
<1>2. TableOK(r, up)
  BY <1>0, <1>1 DEF TableOK, updateNeighbourStatus
<1>3. up \in [Routers -> Entries]
  BY <1>0 DEF updateNeighbourStatus, DirectEntry, Entries, DIRECT
<1> HIDE DEF up
<1>4. ASSUME Accepts(r, up, p)
      PROVE  TableOK(r, addIntoRoutingTable(up, p))
  <2>1. p.net # r
    <3>1. CASE up[p.net].taken
      BY <1>0, <1>2, <3>1 DEF TableOK, EntryOK
    <3>2. CASE ~up[p.net].taken
      <4>1. up[p.net] = NoEntry
        BY <1>0, <1>2, <3>2 DEF TableOK, EntryOK
      <4> QED
        BY <1>0, <1>4, <4>1, TopologyAssumption
           DEF Accepts, doesExist, isNextHopeFieldSame, isNewDistanceShorter,
               NoEntry, ERR
    <3> QED BY <3>1, <3>2
  <2> DEFINE e == [taken |-> TRUE,
                   dist |-> IF p.dist >= RIP_MAX_HOP THEN RIP_MAX_HOP
                            ELSE p.dist + 1,
                   hop |-> p.src]
  <2>2. EntryOK(r, p.net, e)
    <3>1. HopCount[r][p.net] <= HopCount[p.src][p.net] + 1
      BY <1>0, HopCountAssumption
    <3>2. HopCount[r][p.net] \in Nat /\ HopCount[p.src][p.net] \in Nat
      BY <1>0, HopCountType
    <3> QED BY <1>0, <2>1, <3>1, <3>2 DEF EntryOK, RowOK, DIRECT, ERR
  <2> QED BY <1>0, <1>2, <1>3, <2>2 DEF TableOK, addIntoRoutingTable
<1> QED BY <1>2, <1>4 DEF UpdatedTable, up

\* A row takes no network out of the table.
LEMMA UpdatedTableKeeps ==
  ASSUME NEW r \in Routers, NEW t \in [Routers -> Entries], NEW p \in Packets
  PROVE  TakenNetworks(t) \subseteq TakenNetworks(UpdatedTable(r, t, p))
BY DEF TakenNetworks, UpdatedTable, updateNeighbourStatus,
       addIntoRoutingTable, DirectEntry, Packets, Entries

-----------------------------------------------------------------------------
(***************************************************************************)
(* Every action preserves the invariant.                                   *)
(***************************************************************************)

\* What RowDone changes: the table of one router and its dispatcher.
LEMMA RowDoneInv ==
  ASSUME Inv, NEW r \in Routers, NEW ok \in BOOLEAN, HoldsMutex(r),
         RowDone(r, ok)
  PROVE  /\ rt' \in [Routers -> [Routers -> Entries]]
         /\ todo' \in [Routers -> SUBSET Routers]
         /\ rows' \in [Routers -> SUBSET Routers]
         /\ sendingOK' \in [Routers -> BOOLEAN]
         /\ disturbed' \in BOOLEAN
         /\ \A s \in Routers : TableOK(s, rt'[s])
         /\ \A s \in Routers : DispatcherOK(s)'
<1> DEFINE n == FirstOf(todo[r])
           left == rows[r] \ {FirstOf(rows[r])}
           last == left = {}
           fails == last /\ ~ok
           t == IF fails THEN [rt[r] EXCEPT ![n].dist = RIP_MAX_HOP] ELSE rt[r]
<1>0. /\ rt' = [rt EXCEPT ![r] = t]
      /\ disturbed' = (disturbed \/ fails)
      /\ todo' = IF last THEN [todo EXCEPT ![r] = @ \ {n}] ELSE todo
      /\ rows' = [rows EXCEPT ![r] =
                    IF ~last THEN left
                    ELSE IF todo[r] = {n} THEN {} ELSE TakenNetworks(t)]
      /\ sendingOK' = [sendingOK EXCEPT ![r] = ~last /\ ok]
      /\ phase' = phase
  BY DEF RowDone
<1>1. n \in todo[r] /\ n \in Routers /\ rt[r][n].taken
  <2>1. todo[r] # {} /\ todo[r] \in SUBSET Routers
    BY DEF HoldsMutex, Inv, TypeOK
  <2>2. n \in todo[r]
    BY <2>1, FirstOfRoutersHolds DEF FirstOfRouters
  <2> QED BY <2>1, <2>2 DEF Inv, DispatcherOK, DirectNetworks, TakenNetworks
<1>2. rt \in [Routers -> [Routers -> Entries]] /\ rt[r] \in [Routers -> Entries]
  BY DEF Inv, TypeOK
<1>3. t \in [Routers -> Entries]
  BY <1>1, <1>2, BoundAssumption DEF Entries
<1>4. TableOK(r, t)
  <2>1. TableOK(r, rt[r])
    BY DEF Inv
  <2>2. ASSUME fails, NEW m \in Routers PROVE EntryOK(r, m, t[m])
    <3>1. CASE m # n
      BY <1>1, <1>2, <2>1, <3>1 DEF TableOK
    <3>2. CASE m = n
      <4>1. /\ t[m].taken /\ t[m].dist = RIP_MAX_HOP
            /\ t[m].hop = rt[r][n].hop
        BY <1>1, <1>2, <2>2, <3>2 DEF Entries
      <4> QED BY <1>1, <2>1, <3>2, <4>1, BoundAssumption
              DEF TableOK, EntryOK, DIRECT, ERR
    <3> QED BY <3>1, <3>2
  <2> QED BY <2>1, <2>2 DEF TableOK
<1>5. TakenNetworks(t) = TakenNetworks(rt[r])
  BY <1>1, <1>2 DEF TakenNetworks, Entries
<1>6. DirectNetworks(rt[r]) \ {n} \subseteq DirectNetworks(t)
  BY <1>1, <1>2 DEF TakenNetworks, DirectNetworks, Entries
<1>7. ~fails => t = rt[r]
  OBVIOUS
<1>8. /\ todo \in [Routers -> SUBSET Routers]
      /\ rows \in [Routers -> SUBSET Routers]
      /\ sendingOK \in [Routers -> BOOLEAN]
      /\ disturbed \in BOOLEAN
  BY DEF Inv, TypeOK
<1>9. TakenNetworks(t) \in SUBSET Routers /\ left \in SUBSET Routers
  BY <1>8 DEF TakenNetworks
<1>10. DispatcherOK(r)'
  <2>1. todo'[r] \subseteq DirectNetworks(rt'[r])
    BY <1>0, <1>2, <1>6, <1>7, <1>8 DEF Inv, DispatcherOK
  <2>2. rows'[r] \subseteq TakenNetworks(rt'[r])
    BY <1>0, <1>2, <1>5, <1>8 DEF Inv, DispatcherOK
  <2>3. HoldsMutex(r)' <=> rows'[r] # {}
    <3>1. CASE ~last
      BY <1>0, <1>8, <3>1 DEF HoldsMutex, ThreadsRun
    <3>2. CASE last /\ todo[r] = {n}
      BY <1>0, <1>8, <3>2 DEF HoldsMutex, ThreadsRun
    <3>3. CASE last /\ todo[r] # {n}
      <4>1. todo'[r] = todo[r] \ {n} /\ rows'[r] = TakenNetworks(t)
        BY <1>0, <1>8, <3>3
      <4>2. todo[r] \ {n} # {}
        BY <1>1, <3>3
      <4>3. TakenNetworks(t) # {}
        BY <1>1, <1>5 DEF TakenNetworks
      <4> QED BY <1>0, <4>1, <4>2, <4>3 DEF HoldsMutex, ThreadsRun
    <3> QED BY <3>1, <3>2, <3>3
  <2> HIDE DEF t, last, fails, left, n
  <2> QED BY <2>1, <2>2, <2>3 DEF DispatcherOK
<1>11. \A s \in Routers : DispatcherOK(s)'
  <2> SUFFICES ASSUME NEW s \in Routers, s # r PROVE DispatcherOK(s)'
    BY <1>10
  <2>1. /\ rt'[s] = rt[s] /\ todo'[s] = todo[s] /\ rows'[s] = rows[s]
        /\ phase'[s] = phase[s]
    BY <1>0, <1>2, <1>8
  <2> QED BY <2>1 DEF Inv, DispatcherOK, HoldsMutex, ThreadsRun
<1>12. \A s \in Routers : TableOK(s, rt'[s])
  BY <1>0, <1>2, <1>4 DEF Inv
<1> HIDE DEF t, left
<1> QED BY <1>0, <1>2, <1>3, <1>8, <1>9, <1>11, <1>12

\* A table without entries is sound.
LEMMA EmptyTableOK ==
  ASSUME NEW r \in Routers
  PROVE  TableOK(r, EmptyTable)
BY DEF TableOK, EntryOK, EmptyTable, NoEntry

\* Before any router has started the invariant holds.
LEMMA InitInv == Init => Inv
<1> SUFFICES ASSUME Init PROVE Inv
  OBVIOUS
<1> USE DEF Init
<1>1. TypeOK
  <2>1. EmptyTable \in [Routers -> Entries]
    BY DEF EmptyTable, NoEntry, Entries
  <2>2. <<>> \in Seq(Packets)
    BY EmptySeq
  <2>3. crashes \in 0 .. MaxCrashes
    BY BoundAssumption
  <2>4. [n \in Routers |-> 0] \in [Routers -> 0 .. FAILED_LIMIT]
    BY BoundAssumption
  <2>5. rt \in [Routers -> [Routers -> Entries]]
    BY <2>1
  <2>6. failedCnt \in [Routers -> [Routers -> 0 .. FAILED_LIMIT]]
    BY <2>4
  <2>7. backlog \in [Routers -> Seq(Packets)]
    BY <2>2
  <2> QED BY <2>3, <2>5, <2>6, <2>7 DEF TypeOK, Phases
<1>2. \A r \in Routers : TableOK(r, rt[r])
  BY DEF TableOK, EntryOK, EmptyTable, NoEntry
<1>3. \A r \in Routers : BacklogOK(r)
  BY EmptySeq DEF BacklogOK
<1>4. \A r \in Routers : DispatcherOK(r)
  BY DEF DispatcherOK, HoldsMutex
<1> QED BY <1>1, <1>2, <1>3, <1>4 DEF Inv

\* The table read from the configuration file is sound and its networks are
\* direct.
LEMMA ConfiguredTableOK ==
  ASSUME NEW r \in Routers
  PROVE  /\ ConfiguredTable(r) \in [Routers -> Entries]
         /\ TableOK(r, ConfiguredTable(r))
         /\ Neighbours[r] \subseteq DirectNetworks(ConfiguredTable(r))
<1>1. Neighbours[r] \subseteq Routers /\ r \notin Neighbours[r]
  BY TopologyAssumption
<1>2. \A n \in Neighbours[r] : HopCount[r][n] <= 1
  BY HopCountAssumption
<1>3. ConfiguredTable(r) \in [Routers -> Entries]
  BY BoundAssumption
     DEF ConfiguredTable, DirectEntry, NoEntry, Entries, DIRECT
<1>4. \A n \in Routers : EntryOK(r, n, ConfiguredTable(r)[n])
  BY <1>1, <1>2 DEF ConfiguredTable, DirectEntry, EntryOK, DIRECT, ERR, NoEntry
<1>5. Neighbours[r] \subseteq DirectNetworks(ConfiguredTable(r))
  BY <1>1 DEF ConfiguredTable, DirectEntry, DirectNetworks, TakenNetworks, DIRECT
<1> QED BY <1>3, <1>4, <1>5 DEF TableOK

\* Start fills the table and leaves the neighbours to be probed.
LEMMA StartInv ==
  ASSUME Inv, NEW r \in Routers, Start(r)
  PROVE  Inv'
<1> USE DEF Start
<1>1. TypeOK'
  BY ConfiguredTableOK, TopologyAssumption
     DEF Inv, TypeOK, Phases, pacingVars
<1>2. ASSUME NEW s \in Routers
      PROVE  TableOK(s, rt'[s]) /\ BacklogOK(s)' /\ DispatcherOK(s)'
  <2>1. TableOK(s, rt'[s])
    BY ConfiguredTableOK DEF Inv, TypeOK
  <2>2. BacklogOK(s)'
    BY DEF Inv, BacklogOK
  <2>3. DispatcherOK(s)'
    <3>1. CASE s = r
      <4>1. rows[s] = {}
        BY <3>1 DEF Inv, DispatcherOK, HoldsMutex, ThreadsRun
      <4>2. /\ rt'[s] = ConfiguredTable(s) /\ todo'[s] = Neighbours[s]
            /\ phase'[s] = "listening"
        BY <3>1 DEF Inv, TypeOK
      <4> QED BY <4>1, <4>2, ConfiguredTableOK
              DEF DispatcherOK, HoldsMutex, ThreadsRun
    <3>2. CASE s # r
      BY <3>2 DEF Inv, TypeOK, DispatcherOK, HoldsMutex, ThreadsRun
    <3> QED BY <3>1, <3>2
  <2> QED BY <2>1, <2>2, <2>3
<1> QED BY <1>1, <1>2 DEF Inv

\* A failed probe sets a distance to RIP_MAX_HOP, which promises nothing.
LEMMA ProbeInv ==
  ASSUME Inv, NEW r \in Routers, Probe(r)
  PROVE  Inv'
<1> DEFINE n == FirstOf(todo[r])
           t == IF Listens(rt[r][n].hop) THEN rt[r]
                ELSE [rt[r] EXCEPT ![n].dist = RIP_MAX_HOP]
<1>0. rt \in [Routers -> [Routers -> Entries]] /\ rt[r] \in [Routers -> Entries]
  BY DEF Inv, TypeOK
<1>1. n \in todo[r] /\ n \in Routers /\ rt[r][n].taken
  <2>1. todo[r] # {} /\ todo[r] \in SUBSET Routers
    BY DEF Probe, Inv, TypeOK
  <2>2. n \in todo[r]
    BY <2>1, FirstOfRoutersHolds DEF FirstOfRouters
  <2> QED BY <2>1, <2>2 DEF Inv, DispatcherOK, DirectNetworks, TakenNetworks
<1>2. /\ rt' = [rt EXCEPT ![r] = t]
      /\ todo' = [todo EXCEPT ![r] = @ \ {n}]
  BY <1>0 DEF Probe
<1>3. t \in [Routers -> Entries]
  <2>1. CASE Listens(rt[r][n].hop)
    BY <1>0, <2>1
  <2>2. CASE ~Listens(rt[r][n].hop)
    BY <1>0, <1>1, <2>2, BoundAssumption DEF Entries
  <2> QED BY <2>1, <2>2
<1>4. TableOK(r, t)
  <2>1. TableOK(r, rt[r])
    BY DEF Inv
  <2>2. ASSUME NEW m \in Routers PROVE EntryOK(r, m, t[m])
    <3>1. CASE m # n \/ Listens(rt[r][n].hop)
      BY <1>0, <1>1, <2>1, <3>1 DEF TableOK
    <3>2. CASE m = n /\ ~Listens(rt[r][n].hop)
      <4>1. /\ t[m].taken /\ t[m].dist = RIP_MAX_HOP
            /\ t[m].hop = rt[r][n].hop
        BY <1>0, <1>1, <3>2 DEF Entries
      <4> QED BY <1>1, <2>1, <3>2, <4>1, BoundAssumption
              DEF TableOK, EntryOK, DIRECT, ERR
    <3> QED BY <3>1, <3>2
  <2> QED BY <2>2 DEF TableOK
<1>5. DirectNetworks(rt[r]) \ {n} \subseteq DirectNetworks(t)
  BY <1>0, <1>1 DEF TakenNetworks, DirectNetworks, Entries
<1> HIDE DEF t
<1>6. TypeOK'
  <2>1. rt' \in [Routers -> [Routers -> Entries]]
    BY <1>0, <1>2, <1>3
  <2>2. todo' \in [Routers -> SUBSET Routers]
    BY <1>2 DEF Inv, TypeOK
  <2>3. UNCHANGED <<phase, failedCnt, sendRT, rows, sendingOK, backlog,
                    crashes, disturbed>>
    BY DEF Probe, pacingVars
  <2> QED BY <2>1, <2>2, <2>3 DEF Inv, TypeOK
<1>7. ASSUME NEW s \in Routers
      PROVE  TableOK(s, rt'[s]) /\ BacklogOK(s)' /\ DispatcherOK(s)'
  <2>1. TableOK(s, rt'[s])
    BY <1>0, <1>2, <1>4 DEF Inv
  <2>2. BacklogOK(s)'
    BY DEF Inv, BacklogOK, Probe
  <2>3. DispatcherOK(s)'
    <3>1. CASE s = r
      <4>1. rows[s] = {} /\ rows' = rows /\ phase' = phase
        BY <3>1 DEF Probe, Inv, DispatcherOK, HoldsMutex, ThreadsRun
      <4>2. rt'[s] = t /\ todo'[s] = todo[s] \ {n}
        BY <1>0, <1>2, <3>1 DEF Inv, TypeOK
      <4>3. phase'[s] = "listening"
        BY <3>1, <4>1 DEF Probe
      <4> QED BY <1>5, <3>1, <4>1, <4>2, <4>3
              DEF Inv, DispatcherOK, HoldsMutex, ThreadsRun
    <3>2. CASE s # r
      BY <1>2, <3>2 DEF Probe, Inv, TypeOK, DispatcherOK, HoldsMutex, ThreadsRun
    <3> QED BY <3>1, <3>2
  <2> QED BY <2>1, <2>2, <2>3
<1> QED BY <1>6, <1>7 DEF Inv

\* The steps that only move the phase of a router that holds no mutex before
\* or after, and may empty its backlog.
LEMMA PhaseStepInv ==
  ASSUME Inv, NEW r \in Routers,
         CreateThreads(r) \/ CloseSocket(r) \/ ReopenSocket(r)
  PROVE  Inv'
<1>1. UNCHANGED <<rt, failedCnt, sendRT, todo, rows, sendingOK, crashes,
                  disturbed>>
  BY DEF CreateThreads, CloseSocket, ReopenSocket, pacingVars, dispatcherVars
<1>2. phase' \in [Routers -> Phases] /\ \A s \in Routers : s # r => phase'[s] = phase[s]
  BY DEF CreateThreads, CloseSocket, ReopenSocket, Inv, TypeOK, Phases
<1>3. backlog' = backlog \/ backlog' = [backlog EXCEPT ![r] = <<>>]
  BY DEF CreateThreads, CloseSocket, ReopenSocket
<1>4. backlog' \in [Routers -> Seq(Packets)]
  BY <1>3, EmptySeq DEF Inv, TypeOK
<1>5. ASSUME NEW s \in Routers
      PROVE  TableOK(s, rt'[s]) /\ BacklogOK(s)' /\ DispatcherOK(s)'
  <2>1. TableOK(s, rt'[s])
    BY <1>1 DEF Inv
  <2>2. BacklogOK(s)'
    <3>1. CASE backlog'[s] = backlog[s]
      BY <3>1 DEF Inv, BacklogOK
    <3>2. CASE backlog'[s] = <<>>
      BY <3>2, EmptySeq DEF BacklogOK
    <3> QED BY <1>3, <3>1, <3>2 DEF Inv, TypeOK
  <2>3. HoldsMutex(s)' <=> HoldsMutex(s)
    <3>1. CASE s = r /\ CreateThreads(r)
      BY <1>1, <3>1 DEF CreateThreads, HoldsMutex
    <3>2. CASE s = r /\ (CloseSocket(r) \/ ReopenSocket(r))
      <4>1. ThreadsRun(r) /\ ThreadsRun(r)'
        BY <3>2 DEF CloseSocket, ReopenSocket, ThreadsRun, Inv, TypeOK
      <4> QED BY <1>1, <3>2, <4>1 DEF HoldsMutex
    <3>3. CASE s # r
      BY <1>1, <1>2, <3>3 DEF HoldsMutex, ThreadsRun
    <3> QED BY <3>1, <3>2, <3>3
  <2>4. DispatcherOK(s)'
    BY <1>1, <2>3 DEF Inv, DispatcherOK
  <2> QED BY <2>1, <2>2, <2>4
<1> QED BY <1>1, <1>2, <1>4, <1>5 DEF Inv, TypeOK

\* The dispatcher takes direct networks and taken rows.
LEMMA StartDispatchInv ==
  ASSUME Inv, NEW r \in Routers, StartDispatch(r)
  PROVE  Inv'
<1> DEFINE direct == DirectNetworks(rt[r])
<1>1. /\ todo' = [todo EXCEPT ![r] = direct]
      /\ rows' = [rows EXCEPT ![r] = IF direct = {} THEN {}
                                     ELSE TakenNetworks(rt[r])]
      /\ ThreadsRun(r)
      /\ UNCHANGED <<phase, rt, failedCnt, sendRT, sendingOK, backlog, crashes,
                     disturbed>>
  BY DEF StartDispatch, pacingVars
<1>2. direct \subseteq TakenNetworks(rt[r]) /\ TakenNetworks(rt[r]) \subseteq Routers
  BY DEF DirectNetworks, TakenNetworks
<1> HIDE DEF direct
<1>3. TypeOK'
  BY <1>1, <1>2 DEF Inv, TypeOK
<1>4. ASSUME NEW s \in Routers
      PROVE  TableOK(s, rt'[s]) /\ BacklogOK(s)' /\ DispatcherOK(s)'
  <2>1. TableOK(s, rt'[s]) /\ BacklogOK(s)'
    BY <1>1 DEF Inv, BacklogOK
  <2>2. CASE s = r
    BY <1>1, <1>2, <2>1, <2>2
       DEF Inv, TypeOK, DispatcherOK, HoldsMutex, ThreadsRun, direct
  <2>3. CASE s # r
    BY <1>1, <2>1, <2>3 DEF Inv, TypeOK, DispatcherOK, HoldsMutex, ThreadsRun
  <2> QED BY <2>2, <2>3
<1> QED BY <1>3, <1>4 DEF Inv

\* The long sleep touches nothing but its flag.
LEMMA EndLongSleepInv ==
  ASSUME Inv, NEW r \in Routers, EndLongSleep(r)
  PROVE  Inv'
BY DEF EndLongSleep, Inv, TypeOK, BacklogOK, DispatcherOK, HoldsMutex,
       ThreadsRun, dispatcherVars

\* A sound row joins a backlog of sound rows.
LEMMA AppendRow ==
  ASSUME NEW s \in Routers, NEW b \in Seq(Packets), NEW p \in Packets,
         RowOK(s, p), \A i \in 1 .. Len(b) : RowOK(s, b[i])
  PROVE  /\ Append(b, p) \in Seq(Packets)
         /\ \A i \in 1 .. Len(Append(b, p)) : RowOK(s, Append(b, p)[i])
<1>1. Len(b) \in Nat
  BY LenProperties
<1>2. /\ Append(b, p) \in Seq(Packets)
      /\ Len(Append(b, p)) = Len(b) + 1
      /\ \A i \in 1 .. Len(b) : Append(b, p)[i] = b[i]
      /\ Append(b, p)[Len(b) + 1] = p
  BY AppendProperties
<1>3. ASSUME NEW i \in 1 .. Len(b) + 1 PROVE RowOK(s, Append(b, p)[i])
  <2>1. CASE i = Len(b) + 1
    BY <1>2, <2>1
  <2>2. CASE i # Len(b) + 1
    <3>1. i \in 1 .. Len(b)
      BY <1>1, <2>2
    <3> QED BY <1>2, <3>1
  <2> QED BY <2>1, <2>2
<1> QED BY <1>2, <1>3

\* The first row of a backlog is sound, and so is the rest.
LEMMA TailRows ==
  ASSUME NEW s \in Routers, NEW b \in Seq(Packets), b # <<>>,
         \A i \in 1 .. Len(b) : RowOK(s, b[i])
  PROVE  /\ Head(b) \in Packets
         /\ RowOK(s, Head(b))
         /\ Tail(b) \in Seq(Packets)
         /\ \A i \in 1 .. Len(Tail(b)) : RowOK(s, Tail(b)[i])
<1>1. /\ Head(b) \in Packets
      /\ Tail(b) \in Seq(Packets)
      /\ Len(Tail(b)) = Len(b) - 1
      /\ \A i \in 1 .. Len(Tail(b)) : Tail(b)[i] = b[i + 1]
  BY HeadTailProperties
<1>2. Len(b) \in Nat \ {0}
  BY EmptySeq
<1>3. Head(b) = b[1] /\ 1 \in 1 .. Len(b)
  BY <1>2
<1>4. \A i \in 1 .. Len(Tail(b)) : i + 1 \in 1 .. Len(b)
  BY <1>1, <1>2
<1> QED BY <1>1, <1>3, <1>4

\* The row a dispatcher sends is sound for its receiver.
LEMMA RowPacketOK ==
  ASSUME Inv, NEW r \in Routers, HoldsMutex(r)
  PROVE  /\ PortOf(r) \in Routers
         /\ RowPacket(r) \in Packets
         /\ RowOK(PortOf(r), RowPacket(r))
<1> DEFINE n == FirstOf(todo[r])
           m == FirstOf(rows[r])
<1>1. /\ todo[r] # {} /\ todo[r] \in SUBSET Routers
      /\ rows[r] # {} /\ rows[r] \in SUBSET Routers
  BY DEF Inv, TypeOK, DispatcherOK, HoldsMutex
<1>2. n \in todo[r] /\ m \in rows[r]
  BY <1>1, FirstOfRoutersHolds DEF FirstOfRouters
<1>3. n \in Routers /\ rt[r][n].taken /\ m \in Routers /\ rt[r][m].taken
  BY <1>1, <1>2 DEF Inv, DispatcherOK, DirectNetworks, TakenNetworks
<1>4. EntryOK(r, n, rt[r][n]) /\ EntryOK(r, m, rt[r][m])
  BY <1>3 DEF Inv, TableOK
<1>5. PortOf(r) \in Neighbours[r]
  BY <1>3, <1>4 DEF EntryOK, PortOf
<1>6. PortOf(r) \in Routers /\ r \in Neighbours[PortOf(r)]
  BY <1>5, TopologyAssumption
<1>7. rt[r][m].dist \in 0 .. RIP_MAX_HOP
  BY <1>3, <1>4 DEF Inv, TypeOK, Entries, EntryOK
<1>8. RowPacket(r) = [src |-> r, net |-> m, dist |-> rt[r][m].dist]
  BY DEF RowPacket
<1> QED BY <1>3, <1>4, <1>6, <1>7, <1>8 DEF RowOK, EntryOK, Packets

\* A row sent, refused or timed out.
LEMMA DispatchRowInv ==
  ASSUME Inv, NEW r \in Routers, DispatchRow(r)
  PROVE  Inv'
<1>1. HoldsMutex(r)
  BY DEF DispatchRow, SendRow, RowRefused, RowTimesOut
<1>2. PICK ok \in BOOLEAN : RowDone(r, ok)
  <2>1. sendingOK[r] \in BOOLEAN
    BY DEF Inv, TypeOK
  <2> QED BY <2>1 DEF DispatchRow, SendRow, RowRefused, RowTimesOut
<1>3. /\ rt' \in [Routers -> [Routers -> Entries]]
      /\ todo' \in [Routers -> SUBSET Routers]
      /\ rows' \in [Routers -> SUBSET Routers]
      /\ sendingOK' \in [Routers -> BOOLEAN]
      /\ disturbed' \in BOOLEAN
      /\ \A s \in Routers : TableOK(s, rt'[s])
      /\ \A s \in Routers : DispatcherOK(s)'
  BY <1>1, <1>2, RowDoneInv
<1>4. backlog' \in [Routers -> Seq(Packets)] /\ \A s \in Routers : BacklogOK(s)'
  <2>1. CASE backlog' = backlog
    BY <2>1 DEF Inv, TypeOK, BacklogOK
  <2>2. CASE backlog' = [backlog EXCEPT ![PortOf(r)] = Append(@, RowPacket(r))]
    <3> DEFINE q == PortOf(r)
    <3>1. q \in Routers /\ RowPacket(r) \in Packets /\ RowOK(q, RowPacket(r))
      BY <1>1, RowPacketOK
    <3>2. backlog[q] \in Seq(Packets) /\ \A i \in 1 .. Len(backlog[q]) :
                                            RowOK(q, backlog[q][i])
      BY <3>1 DEF Inv, TypeOK, BacklogOK
    <3> DEFINE b == Append(backlog[q], RowPacket(r))
    <3>3. b \in Seq(Packets) /\ \A i \in 1 .. Len(b) : RowOK(q, b[i])
      BY <3>1, <3>2, AppendRow
    <3>4. backlog' = [backlog EXCEPT ![q] = b]
      BY <2>2
    <3> HIDE DEF b, q
    <3> QED BY <3>1, <3>3, <3>4 DEF Inv, TypeOK, BacklogOK
  <2> QED BY <2>1, <2>2 DEF DispatchRow, SendRow, RowRefused, RowTimesOut
<1>5. UNCHANGED <<phase, failedCnt, sendRT, crashes>>
  BY <1>2 DEF RowDone, pacingVars
<1> QED BY <1>3, <1>4, <1>5 DEF Inv, TypeOK

\* A row received: the table is updated and the backlog is shorter.
LEMMA ReceiveRowInv ==
  ASSUME Inv, NEW r \in Routers, ReceiveRow(r)
  PROVE  Inv'
<1> DEFINE p == Head(backlog[r])
           t == UpdatedTable(r, rt[r], p)
           cnt == CountedRow(r, rt[r], failedCnt[r], p)
<1>1. /\ p \in Packets
      /\ RowOK(r, p)
      /\ Tail(backlog[r]) \in Seq(Packets)
      /\ \A i \in 1 .. Len(Tail(backlog[r])) : RowOK(r, Tail(backlog[r])[i])
  BY TailRows DEF ReceiveRow, Inv, TypeOK, BacklogOK
<1>2. rt[r] \in [Routers -> Entries] /\ TableOK(r, rt[r])
  BY DEF Inv, TypeOK
<1>3. t \in [Routers -> Entries] /\ TableOK(r, t)
  BY <1>1, <1>2, UpdatedTableType, UpdatedTableOK
<1>4. cnt \in [Routers -> 0 .. FAILED_LIMIT]
  <2>1. failedCnt[r] \in [Routers -> 0 .. FAILED_LIMIT]
    BY DEF Inv, TypeOK
  <2>2. p.net \in Routers
    BY <1>1 DEF Packets
  <2>3. CASE p.net = r \/ IsUpdated(r, rt[r], p)
    BY <2>1, <2>2, <2>3, BoundAssumption DEF CountedRow
  <2>4. CASE ~(p.net = r \/ IsUpdated(r, rt[r], p))
    BY <2>1, <2>2, <2>4, BoundAssumption DEF CountedRow
  <2> QED BY <2>3, <2>4
<1>5. TakenNetworks(rt[r]) \subseteq TakenNetworks(t)
  BY <1>1, <1>2, UpdatedTableKeeps
<1>6. KeepSendingTable(t, cnt) \in BOOLEAN
  BY DEF KeepSendingTable
<1>7. /\ rt' = [rt EXCEPT ![r] = t]
      /\ failedCnt' = [failedCnt EXCEPT ![r] = cnt]
      /\ sendRT' = [sendRT EXCEPT ![r] = KeepSendingTable(t, cnt)]
      /\ backlog' = [backlog EXCEPT ![r] = Tail(@)]
      /\ UNCHANGED <<phase, todo, rows, sendingOK, crashes, disturbed>>
  BY DEF ReceiveRow, dispatcherVars
<1>8. phase[r] = "open" /\ ~HoldsMutex(r)
  BY DEF ReceiveRow
<1> HIDE DEF t, cnt, p
<1>9. TypeOK'
  <2>1. rt' \in [Routers -> [Routers -> Entries]]
    BY <1>3, <1>7 DEF Inv, TypeOK
  <2>2. failedCnt' \in [Routers -> [Routers -> 0 .. FAILED_LIMIT]]
    BY <1>4, <1>7 DEF Inv, TypeOK
  <2>3. sendRT' \in [Routers -> BOOLEAN]
    BY <1>6, <1>7 DEF Inv, TypeOK
  <2>4. backlog' \in [Routers -> Seq(Packets)]
    BY <1>1, <1>7 DEF Inv, TypeOK
  <2> QED BY <1>7, <2>1, <2>2, <2>3, <2>4 DEF Inv, TypeOK
<1>10. ASSUME NEW s \in Routers
       PROVE  TableOK(s, rt'[s]) /\ BacklogOK(s)' /\ DispatcherOK(s)'
  <2>1. TableOK(s, rt'[s])
    BY <1>3, <1>7 DEF Inv, TypeOK
  <2>2. BacklogOK(s)'
    BY <1>1, <1>7 DEF Inv, TypeOK, BacklogOK
  <2>3. CASE s = r
    <3>1. todo[r] = {} /\ rows[r] = {}
      BY <1>8 DEF HoldsMutex, ThreadsRun, Inv, DispatcherOK
    <3> QED BY <1>7, <2>1, <2>2, <2>3, <3>1 DEF DispatcherOK, HoldsMutex
  <2>4. CASE s # r
    <3>1. rt'[s] = rt[s] /\ UNCHANGED <<todo, rows, phase>>
      BY <1>7, <2>4 DEF Inv, TypeOK
    <3> QED BY <2>1, <2>2, <3>1 DEF Inv, DispatcherOK, HoldsMutex, ThreadsRun
  <2> QED BY <2>3, <2>4
<1> QED BY <1>9, <1>10 DEF Inv

\* An exit forgets everything the router knew; what it sent stays sound.
LEMMA CrashInv ==
  ASSUME Inv, NEW r \in Routers, Crash(r)
  PROVE  Inv'
<1> USE DEF Crash
<1>1. TypeOK'
  <2>1. EmptyTable \in [Routers -> Entries]
    BY DEF EmptyTable, NoEntry, Entries
  <2>2. <<>> \in Seq(Packets)
    BY EmptySeq
  <2>3. crashes' \in 0 .. MaxCrashes
    BY BoundAssumption DEF Inv, TypeOK
  <2>4. [n \in Routers |-> 0] \in [Routers -> 0 .. FAILED_LIMIT]
    BY BoundAssumption
  <2> QED BY <2>1, <2>2, <2>3, <2>4 DEF Inv, TypeOK, Phases
<1>2. ASSUME NEW s \in Routers
      PROVE  TableOK(s, rt'[s]) /\ BacklogOK(s)' /\ DispatcherOK(s)'
  <2>1. CASE s = r
    <3>1. /\ rt'[s] = EmptyTable /\ backlog'[s] = <<>>
          /\ todo'[s] = {} /\ rows'[s] = {}
      BY <2>1 DEF Inv, TypeOK
    <3>2. TableOK(s, EmptyTable)
      BY EmptyTableOK
    <3> QED BY <3>1, <3>2, EmptySeq DEF BacklogOK, DispatcherOK, HoldsMutex
  <2>2. CASE s # r
    BY <2>2 DEF Inv, TypeOK, BacklogOK, DispatcherOK, HoldsMutex, ThreadsRun
  <2> QED BY <2>1, <2>2
<1> QED BY <1>1, <1>2 DEF Inv

\* A step that changes nothing.
LEMMA StutterInv == Inv /\ UNCHANGED vars => Inv'
BY DEF Inv, TypeOK, BacklogOK, DispatcherOK, HoldsMutex, ThreadsRun, vars,
       pacingVars, dispatcherVars

\* Every step of the network preserves the invariant.
LEMMA NextInv == Inv /\ [Next]_vars => Inv'
<1> SUFFICES ASSUME Inv, Next PROVE Inv'
  BY StutterInv
<1>1. PICK r \in Routers :
        \/ Start(r) \/ RouterThread(r) \/ StartDispatch(r)
        \/ DispatchRow(r) \/ EndLongSleep(r) \/ Crash(r)
  BY DEF Next
<1>2. CASE Start(r)
  BY <1>2, StartInv
<1>3. CASE RouterThread(r)
  BY <1>3, ProbeInv, PhaseStepInv, ReceiveRowInv DEF RouterThread, StartUp
<1>4. CASE StartDispatch(r)
  BY <1>4, StartDispatchInv
<1>5. CASE DispatchRow(r)
  BY <1>5, DispatchRowInv
<1>6. CASE EndLongSleep(r)
  BY <1>6, EndLongSleepInv
<1>7. CASE Crash(r)
  BY <1>7, CrashInv
<1> QED BY <1>1, <1>2, <1>3, <1>4, <1>5, <1>6, <1>7

\* Inv is an invariant of the protocol on every topology.
THEOREM InvHolds == Spec => []Inv
BY InitInv, NextInv, PTL DEF Spec

-----------------------------------------------------------------------------
(***************************************************************************)
(* What follows from it.                                                   *)
(***************************************************************************)

\* Every variable keeps its type, and no distance leaves 0 .. RIP_MAX_HOP.
THEOREM TypeCorrect == Spec => []TypeOK
<1>1. Inv => TypeOK
  BY DEF Inv
<1> QED BY InvHolds, <1>1, PTL

\* Only configured neighbours are ever DIRECT, each as its own next hop, and
\* no router has an entry for its own network.
THEOREM DirectIsAdjacent == Spec => []DirectMeansAdjacent
<1>1. Inv => DirectMeansAdjacent
  <2> SUFFICES ASSUME Inv, NEW r \in Routers
               PROVE  /\ ~rt[r][r].taken
                      /\ \A n \in DirectNetworks(rt[r]) :
                            n \in Neighbours[r] /\ rt[r][n].hop = n
    BY DEF DirectMeansAdjacent
  <2>1. \A n \in Routers : EntryOK(r, n, rt[r][n])
    BY DEF Inv, TableOK
  <2> QED BY <2>1 DEF EntryOK, DirectNetworks, TakenNetworks
<1> QED BY InvHolds, <1>1, PTL

\* Whatever crashes, restarts, refused connections and rows of the past do,
\* no entry is shorter than the shortest path.
THEOREM DistancesNeverUnderstate == Spec => []NeverUnderstates
<1>1. Inv => NeverUnderstates
  BY DEF Inv, TableOK, EntryOK, NeverUnderstates, TakenNetworks
<1> QED BY InvHolds, <1>1, PTL
=============================================================================
