------------------------ MODULE RouterProcessProofs ------------------------
(***************************************************************************)
(* Proofs about RouterProcess for every number of starts, rows,            *)
(* connections and descriptors: the types, that senders give their         *)
(* descriptors back, that router_mtex excludes, and that only the last     *)
(* start of a router that is on sends packets.                             *)
(***************************************************************************)
EXTENDS RouterProcess, TLAPS

-----------------------------------------------------------------------------
(***************************************************************************)
(* The invariant.                                                          *)
(***************************************************************************)

\* The id of the start that is on, or was last.
OnWasStarted == gui # "off" => starts \in Starts

\* Threads have been created only by starts that happened.
StartsInOrder == \A t \in Threads : t[2] > starts => pc[t] = "none"

\* The table dispatcher is created after the probe.
ProbesFirst ==
  \A g \in Starts : pc[Router(g)] \in {"new", "create"} => ~Serves(g)

\* The dispatcher and the advertiser are created together.
CreatedTogether == \A g \in Starts : Serves(g) <=> pc[Icmp(g)] # "none"

\* Off has not overlooked a thread.
OffServes == \A t \in cancelled : Serves(t[2])

\* Every thread of an earlier start, or of a router that is off, was cancelled.
LeftoversCancelled ==
  \A t \in Threads :
    pc[t] # "none" /\ (t[2] < starts \/ gui # "on") => t \in cancelled

TInv == TypeOK /\ OnWasStarted

CancelInv ==
  /\ StartsInOrder /\ ProbesFirst /\ CreatedTogether
  /\ OffServes /\ LeftoversCancelled

-----------------------------------------------------------------------------

LEMMA ThreadFacts ==
  /\ \A g \in Starts : /\ Router(g) \in Threads /\ Table(g) \in Threads
                       /\ Icmp(g) \in Threads
                       /\ Router(g)[2] = g /\ Table(g)[2] = g /\ Icmp(g)[2] = g
                       /\ Router(g)[1] = "router"
                       /\ Router(g) # Table(g) /\ Router(g) # Icmp(g)
                       /\ Table(g) # Icmp(g)
  /\ \A t \in Threads : t[1] \in Kinds /\ t[2] \in Starts /\ t = <<t[1], t[2]>>
  /\ Starts \subseteq Nat \ {0}
  BY BoundAssumption DEF Router, Table, Icmp, Threads, Kinds, Starts

\* What the descriptors are after one is closed or opened.
LEMMA ClosedType ==
  ASSUME TypeOK, NEW n, CloseFd(n)
  PROVE  /\ fds' \in [Fds -> {"free", "fresh", "unbound", "listening", "out", "in", "left"}]
         /\ backlog' \in 0 .. MaxBacklog /\ server' = server
         /\ \A k \in Fds : fds'[k] = fds[k] \/ fds'[k] = "free"
         /\ n \in Fds => fds'[n] = "free"
         /\ \A k \in Fds : k # n => fds'[k] = fds[k]
  BY BoundAssumption DEF TypeOK, CloseFd, Closed, Kind

LEMMA PacketDoneType ==
  ASSUME TypeOK, NEW t \in Threads, PacketDone(t)
  PROVE  /\ left' \in [Threads -> Nat]
         /\ sock' \in [Threads -> Fds \cup {ERR}]
         /\ pc' \in [Threads -> Places]
<1>1. left[t] \in Nat
  BY BoundAssumption DEF TypeOK
<1>2. (IF left[t] > 0 THEN left[t] - 1 ELSE 0) \in Nat
  BY <1>1
<1>3. left' \in [Threads -> Nat]
  BY <1>2 DEF TypeOK, PacketDone
<1>4. sock' \in [Threads -> Fds \cup {ERR}]
  BY DEF TypeOK, PacketDone
<1>5. Finished(t) \in Places
  BY ThreadFacts DEF Finished, Places, Points, Kinds
<1>6. pc' \in [Threads -> Places]
  BY <1>5 DEF TypeOK, PacketDone, Goes, Places, Points
<1> QED BY <1>3, <1>4, <1>6

LEMMA ServerSocketType ==
  ASSUME TypeOK, ServerSocket
  PROVE  /\ server' \in Fds /\ backlog' = backlog
         /\ fds' \in [Fds -> {"free", "fresh", "unbound", "listening", "out", "in", "left"}]
         /\ \A k \in Fds : fds'[k] \in {"fresh", "out"} => fds'[k] = fds[k]
  BY DEF TypeOK, ServerSocket, NewFds

-----------------------------------------------------------------------------
(***************************************************************************)
(* Types.                                                                  *)
(***************************************************************************)

LEMMA SenderTypes ==
  ASSUME TInv, NEW t \in Threads, SenderStep(t)
  PROVE  TInv'
<1> USE DEF TInv, OnWasStarted, guiVars, fdVars
<1>1. CASE Socket(t)
  BY <1>1 DEF Socket, NewFds, Goes, TypeOK, Places, Points
<1>2. CASE NoSocket(t)
  BY <1>2, PacketDoneType DEF NoSocket, TypeOK
<1>3. CASE Send(t)
  <2>1. sock[t] \in Fds
    BY <1>3 DEF Send, Kind
  <2> QED BY <1>3, <2>1 DEF Send, Goes, TypeOK, Places, Points
<1>4. CASE Refused(t)
  BY <1>4 DEF Refused, AfterRefusal, Goes, TypeOK, Places, Points
<1>5. CASE SendError(t)
  BY <1>5 DEF SendError, Exits, TypeOK
<1>6. CASE Close(t)
  BY <1>6, PacketDoneType, ClosedType DEF Close, TypeOK
<1> QED BY <1>1, <1>2, <1>3, <1>4, <1>5, <1>6 DEF SenderStep

LEMMA RouterTypes ==
  ASSUME TInv, StartsInOrder, NEW g \in Starts, RouterStep(g)
  PROVE  TInv'
<1> USE DEF TInv, OnWasStarted, guiVars, fdVars
<1>t. Router(g) \in Threads /\ Table(g) \in Threads /\ Icmp(g) \in Threads
  BY ThreadFacts
<1>1. CASE Begin(g)
  <2>1. g \in 0 .. starts
    BY <1>1, <1>t, ThreadFacts DEF Begin, At, StartsInOrder, TypeOK, Starts
  <2>2. PICK rows \in 0 .. MaxRows :
          /\ left' = [left EXCEPT ![Router(g)] = rows]
          /\ Goes(Router(g), IF rows > 0 THEN "sleep" ELSE "create")
    BY <1>1 DEF Begin
  <2>3. PICK place \in Places : pc' = [pc EXCEPT ![Router(g)] = place]
    BY <2>2 DEF Goes, Places, Points
  <2>4. left' \in [Threads -> Nat] /\ pc' \in [Threads -> Places]
    BY <2>2, <2>3, <1>t DEF TypeOK
  <2> QED BY <1>1, <2>1, <2>4, ServerSocketType DEF Begin, TypeOK
<1>2. CASE CreateThreads(g)
  BY <1>2, <1>t DEF CreateThreads, TypeOK, Places, Points
<1>3. CASE Shut(g)
  BY <1>3, <1>t, ClosedType DEF Shut, Goes, TypeOK, Places, Points
<1>4. CASE Accept(g)
  <2>1. backlog - 1 \in 0 .. MaxBacklog
    BY <1>4, BoundAssumption DEF Accept, TypeOK
  <2> QED BY <1>4, <1>t, <2>1 DEF Accept, NewFds, Goes, TypeOK, Places, Points
<1>5. CASE AcceptFails(g)
  BY <1>5, <1>t DEF AcceptFails, Goes, TypeOK, Places, Points
<1>6. CASE Reclose(g)
  BY <1>6, <1>t, ClosedType DEF Reclose, AfterFailedAccept, Goes, TypeOK, Places, Points
<1>7. CASE Reopen(g)
  BY <1>7, <1>t, ServerSocketType DEF Reopen, Goes, TypeOK, Places, Points
<1>8. CASE NoServerSocket(g)
  BY <1>8 DEF NoServerSocket, Exits, TypeOK
<1>9. CASE Recv(g)
  BY <1>9, <1>t, BoundAssumption DEF Recv, Goes, TypeOK, Places, Points
<1> QED BY <1>1, <1>2, <1>3, <1>4, <1>5, <1>6, <1>7, <1>8, <1>9 DEF RouterStep

LEMMA ThreadTypes ==
  ASSUME TInv, StartsInOrder, NEW t \in Threads, ThreadStep(t)
  PROVE  TInv'
<1>1. CASE Lock(t)
  <2>0. PICK rows \in IF t[1] = "table" THEN 0 .. MaxRows ELSE {0} :
          left' = [left EXCEPT ![t] = rows]
    BY <1>1 DEF Lock
  <2>1. rows \in 0 .. MaxRows
    BY BoundAssumption
  <2>2. PICK place \in Places : pc' = [pc EXCEPT ![t] = place]
    BY <1>1 DEF Lock, Goes, AfterLock, Places, Points
  <2>3. left' \in [Threads -> Nat] /\ pc' \in [Threads -> Places]
    BY <2>0, <2>1, <2>2 DEF TInv, TypeOK
  <2> QED BY <1>1, <2>3 DEF Lock, TInv, TypeOK, OnWasStarted, guiVars, fdVars
<1>2. CASE Unlock(t)
  <2>1. PICK place \in Places : pc' = [pc EXCEPT ![t] = place]
    BY <1>2 DEF Unlock, Goes, Places, Points
  <2>2. pc' \in [Threads -> Places]
    BY <2>1 DEF TInv, TypeOK
  <2> QED BY <1>2, <2>2 DEF Unlock, TInv, TypeOK, OnWasStarted, guiVars, fdVars
<1>3. CASE Rest(t)
  BY <1>3 DEF Rest, Goes, TInv, TypeOK, OnWasStarted, guiVars, fdVars, Places, Points
<1>4. CASE Die(t)
  <2>1. fds' \in [Fds -> {"free", "fresh", "unbound", "listening", "out", "in", "left"}]
    BY <1>4 DEF Die, TInv, TypeOK
  <2>2. left' \in [Threads -> Nat] /\ sock' \in [Threads -> Fds \cup {ERR}]
    BY <1>4, BoundAssumption DEF Die, TInv, TypeOK
  <2>3. pc' \in [Threads -> Places]
    BY <1>4 DEF Die, Goes, TInv, TypeOK, Places, Points
  <2> QED BY <1>4, <2>1, <2>2, <2>3 DEF Die, TInv, TypeOK, OnWasStarted, guiVars
<1> QED BY <1>1, <1>2, <1>3, <1>4, SenderTypes, RouterTypes, ThreadFacts DEF ThreadStep

LEMMA WindowTypes ==
  ASSUME TInv, On \/ Off \/ OffClose \/ PeerConnects
  PROVE  TInv'
<1> USE DEF TInv, OnWasStarted, guiVars, fdVars
<1>1. CASE On
  <2>1. starts + 1 \in Starts /\ starts + 1 \in 0 .. MaxStarts
    BY <1>1, BoundAssumption DEF On, TypeOK, Starts
  <2>2. current \in 0 .. starts + 1
    BY DEF TypeOK
  <2>3. Router(starts + 1) \in Threads
    BY <2>1, ThreadFacts
  <2> QED BY <1>1, <2>1, <2>2, <2>3 DEF On, Goes, TypeOK, Places, Points
<1>2. CASE Off
  <2>1. CancelledByOff \X {current} \subseteq Threads
    BY <1>2 DEF Off, CancelledByOff, Threads
  <2> QED BY <1>2, <2>1 DEF Off, Exits, TypeOK
<1>3. CASE OffClose
  BY <1>3, ClosedType DEF OffClose, TypeOK
<1>4. CASE PeerConnects
  BY <1>4, BoundAssumption DEF PeerConnects, TypeOK
<1> QED BY <1>1, <1>2, <1>3, <1>4

-----------------------------------------------------------------------------
(***************************************************************************)
(* Cancellation.                                                           *)
(***************************************************************************)

\* How a step of thread t moves it, or makes the threads of its start.
Moves(t) ==
  /\ pc[t] # "none"
  /\ \/ pc' = pc
     \/ \E place \in Places \ {"none", "new"} :
          /\ pc' = [pc EXCEPT ![t] = place]
          /\ place = "create" => t = Router(t[2]) /\ ~Serves(t[2])
     \/ CreateThreads(t[2]) /\ t = Router(t[2])
  /\ UNCHANGED <<starts, gui, cancelled>>

Elsewhere == Places \ {"none", "new", "create"}

LEMMA MovesTo ==
  ASSUME NEW t \in Threads, NEW place \in Elsewhere, Goes(t, place),
         pc[t] # "none", UNCHANGED guiVars
  PROVE  Moves(t)
  BY DEF Goes, Moves, Elsewhere, guiVars

LEMMA PacketDoneMoves ==
  ASSUME NEW t \in Threads, PacketDone(t)
  PROVE  \E place \in Places \ {"none", "new"} :
           /\ pc' = [pc EXCEPT ![t] = place]
           /\ place = "create" => t = Router(t[2]) /\ ~Serves(t[2])
<1>1. CASE left[t] > 1
  <2>1. pc' = [pc EXCEPT ![t] = "sleep"]
    BY <1>1 DEF PacketDone, Goes
  <2>2. "sleep" \in Places \ {"none", "new"} /\ "sleep" # "create"
    BY DEF Places, Points
  <2> QED BY <2>1, <2>2
<1>2. CASE ~(left[t] > 1)
  <2>1. pc' = [pc EXCEPT ![t] = Finished(t)]
    BY <1>2 DEF PacketDone, Goes
  <2>2. t[1] \in Kinds /\ (t[1] = "router" => t = Router(t[2]))
    BY ThreadFacts DEF Router
  <2>3. Finished(t) \in Places \ {"none", "new"}
    BY <2>2 DEF Finished, Places, Points, Kinds
  <2>4. Finished(t) = "create" => t[1] = "router" /\ ~Serves(t[2])
    BY <2>2 DEF Finished, Kinds
  <2> QED BY <2>1, <2>2, <2>3, <2>4
<1> QED BY <1>1, <1>2

LEMMA SenderMoves ==
  ASSUME NEW t \in Threads, SenderStep(t)
  PROVE  Moves(t)
<1>1. CASE Socket(t)
  <2>1. /\ Goes(t, "connect") /\ "connect" \in Elsewhere
        /\ pc[t] # "none" /\ UNCHANGED guiVars
    BY <1>1 DEF Socket, At, Elsewhere, Places, Points
  <2> QED BY <2>1, MovesTo
<1>2. CASE NoSocket(t)
  BY <1>2, PacketDoneMoves DEF NoSocket, At, Moves, guiVars
<1>3. CASE Send(t)
  <2>1. /\ Goes(t, "close") /\ "close" \in Elsewhere
        /\ pc[t] # "none" /\ UNCHANGED guiVars
    BY <1>3 DEF Send, At, Elsewhere, Places, Points
  <2> QED BY <2>1, MovesTo
<1>4. CASE Refused(t)
  <2>1. /\ Goes(t, "close") /\ "close" \in Elsewhere
        /\ pc[t] # "none" /\ UNCHANGED guiVars
    BY <1>4 DEF Refused, AfterRefusal, At, Elsewhere, Places, Points
  <2> QED BY <2>1, MovesTo
<1>5. CASE SendError(t)
  BY <1>5 DEF SendError, Exits, At, Moves, guiVars
<1>6. CASE Close(t)
  BY <1>6, PacketDoneMoves DEF Close, At, Moves, guiVars
<1> QED BY <1>1, <1>2, <1>3, <1>4, <1>5, <1>6 DEF SenderStep

LEMMA RouterMoves ==
  ASSUME ProbesFirst, NEW g \in Starts, RouterStep(g)
  PROVE  Moves(Router(g))
<1>t. Router(g) \in Threads /\ Router(g)[2] = g
  BY ThreadFacts
<1>1. CASE Begin(g)
  <2>1. ~Serves(g) /\ pc[Router(g)] = "new"
    BY <1>1 DEF Begin, At, ProbesFirst
  <2>2. PICK place \in {"sleep", "create"} : Goes(Router(g), place)
    BY <1>1 DEF Begin
  <2> QED BY <1>1, <1>t, <2>1, <2>2 DEF Begin, Goes, Moves, Places, Points
<1>2. CASE CreateThreads(g)
  BY <1>2, <1>t DEF CreateThreads, At, Moves, guiVars
<1>3. CASE Shut(g)
  <2>1. /\ Goes(Router(g), "accept") /\ "accept" \in Elsewhere
        /\ pc[Router(g)] # "none" /\ UNCHANGED guiVars
    BY <1>3 DEF Shut, At, Elsewhere, Places, Points
  <2> QED BY <2>1, <1>t, MovesTo
<1>4. CASE Accept(g)
  <2>1. /\ Goes(Router(g), "recv") /\ "recv" \in Elsewhere
        /\ pc[Router(g)] # "none" /\ UNCHANGED guiVars
    BY <1>4 DEF Accept, At, Elsewhere, Places, Points
  <2> QED BY <2>1, <1>t, MovesTo
<1>5. CASE AcceptFails(g)
  <2>1. /\ Goes(Router(g), "reclose") /\ "reclose" \in Elsewhere
        /\ pc[Router(g)] # "none" /\ UNCHANGED guiVars
    BY <1>5 DEF AcceptFails, At, Elsewhere, Places, Points
  <2> QED BY <2>1, <1>t, MovesTo
<1>6. CASE Reclose(g)
  <2>1. /\ Goes(Router(g), "reopen") /\ "reopen" \in Elsewhere
        /\ pc[Router(g)] # "none" /\ UNCHANGED guiVars
    BY <1>6 DEF Reclose, AfterFailedAccept, At, Elsewhere, Places, Points
  <2> QED BY <2>1, <1>t, MovesTo
<1>7. CASE Reopen(g)
  <2>1. /\ Goes(Router(g), "recv") /\ "recv" \in Elsewhere
        /\ pc[Router(g)] # "none" /\ UNCHANGED guiVars
    BY <1>7 DEF Reopen, At, Elsewhere, Places, Points
  <2> QED BY <2>1, <1>t, MovesTo
<1>8. CASE NoServerSocket(g)
  BY <1>8 DEF NoServerSocket, Exits, Moves, guiVars
<1>9. CASE Recv(g)
  <2>1. PICK place \in {"lock", "sleep", "accept"} : Goes(Router(g), place)
    BY <1>9 DEF Recv
  <2>2. place \in Elsewhere /\ pc[Router(g)] # "none" /\ UNCHANGED guiVars
    BY <1>9 DEF Recv, At, Elsewhere, Places, Points
  <2> QED BY <1>t, <2>1, <2>2, MovesTo
<1> QED BY <1>1, <1>2, <1>3, <1>4, <1>5, <1>6, <1>7, <1>8, <1>9 DEF RouterStep

LEMMA ThreadMoves ==
  ASSUME ProbesFirst, NEW t \in Threads, ThreadStep(t)
  PROVE  Moves(t)
<1>1. CASE Lock(t)
  <2>1. PICK place \in {"sleep", "unlock"} : Goes(t, place)
    BY <1>1 DEF Lock, AfterLock
  <2>2. place \in Elsewhere /\ pc[t] # "none" /\ UNCHANGED guiVars
    BY <1>1 DEF Lock, At, Elsewhere, Places, Points
  <2> QED BY <2>1, <2>2, MovesTo
<1>2. CASE Unlock(t)
  <2>1. PICK place \in {"rest", "accept"} : Goes(t, place)
    BY <1>2 DEF Unlock
  <2>2. place \in Elsewhere /\ pc[t] # "none" /\ UNCHANGED guiVars
    BY <1>2 DEF Unlock, At, Elsewhere, Places, Points
  <2> QED BY <2>1, <2>2, MovesTo
<1>3. CASE Rest(t)
  <2>1. /\ Goes(t, "lock") /\ "lock" \in Elsewhere
        /\ pc[t] # "none" /\ UNCHANGED guiVars
    BY <1>3 DEF Rest, At, Elsewhere, Places, Points
  <2> QED BY <2>1, MovesTo
<1>4. CASE Die(t)
  <2>1. /\ Goes(t, "dead") /\ "dead" \in Elsewhere
        /\ pc[t] # "none" /\ UNCHANGED guiVars
    BY <1>4 DEF Die, At, Elsewhere, Places, Points
  <2> QED BY <2>1, MovesTo
<1>5. CASE t[1] = "router" /\ RouterStep(t[2])
  BY <1>5, RouterMoves, ThreadFacts DEF Router
<1> QED BY <1>1, <1>2, <1>3, <1>4, <1>5, SenderMoves DEF ThreadStep

\* Cancelled threads, and nobody else, survive their start: kept by the threads.
LEMMA MovesCancel ==
  ASSUME TInv, CancelInv, NEW t \in Threads, Moves(t)
  PROVE  CancelInv'
<1>1. starts' = starts /\ gui' = gui /\ cancelled' = cancelled /\ pc[t] # "none"
  BY DEF Moves
<1>2. CASE pc' = pc
  BY <1>1, <1>2 DEF CancelInv, StartsInOrder, ProbesFirst, CreatedTogether,
                    OffServes, LeftoversCancelled, Serves
<1>3. CASE \E place \in Places \ {"none", "new"} :
             /\ pc' = [pc EXCEPT ![t] = place]
             /\ place = "create" => t = Router(t[2]) /\ ~Serves(t[2])
  <2>1. PICK place \in Places \ {"none", "new"} :
               /\ pc' = [pc EXCEPT ![t] = place]
               /\ place = "create" => t = Router(t[2]) /\ ~Serves(t[2])
    BY <1>3
  <2>2. \A u \in Threads : pc'[u] = IF u = t THEN place ELSE pc[u]
    BY <2>1 DEF TInv, TypeOK
  <2>3. \A u \in Threads : pc'[u] = "none" <=> pc[u] = "none"
    BY <1>1, <2>2
  <2>4. \A g \in Starts : Serves(g)' <=> Serves(g)
    BY <2>3, ThreadFacts DEF Serves
  <2>5. StartsInOrder'
    BY <1>1, <2>3 DEF CancelInv, StartsInOrder
  <2>6. ProbesFirst'
    <3> SUFFICES ASSUME NEW g \in Starts, pc'[Router(g)] \in {"new", "create"}
                 PROVE  ~Serves(g)
      BY <2>4 DEF ProbesFirst
    <3>1. CASE Router(g) = t
      BY <3>1, <2>1, <2>2, ThreadFacts
    <3>2. CASE Router(g) # t
      BY <3>2, <2>2, ThreadFacts DEF CancelInv, ProbesFirst
    <3> QED BY <3>1, <3>2
  <2>7. OffServes'
    BY <1>1, <2>4, ThreadFacts DEF CancelInv, OffServes, TInv, TypeOK
  <2>8. LeftoversCancelled'
    BY <1>1, <2>3 DEF CancelInv, LeftoversCancelled
  <2>9. CreatedTogether'
    BY <2>3, <2>4, ThreadFacts DEF CancelInv, CreatedTogether
  <2> QED BY <2>5, <2>6, <2>7, <2>8, <2>9 DEF CancelInv
<1>4. CASE CreateThreads(t[2]) /\ t = Router(t[2])
  <2> DEFINE g == t[2]
  <2>0. /\ g \in Starts /\ Table(g) \in Threads /\ Icmp(g) \in Threads
        /\ Table(g)[2] = g /\ Icmp(g)[2] = g /\ t = Router(g)
        /\ t # Table(g) /\ t # Icmp(g) /\ Table(g) # Icmp(g)
    BY <1>4, ThreadFacts
  <2>1. /\ pc[t] = "create"
        /\ pc' = [pc EXCEPT ![t] = "shut", ![Table(g)] = "lock", ![Icmp(g)] = "sleep"]
    BY <1>4 DEF CreateThreads, At
  <2>2. \A u \in Threads : pc'[u] = IF u = t THEN "shut"
                                    ELSE IF u = Table(g) THEN "lock"
                                    ELSE IF u = Icmp(g) THEN "sleep" ELSE pc[u]
    BY <2>0, <2>1 DEF TInv, TypeOK
  <2>3. ~Serves(g)
    BY <2>0, <2>1 DEF CancelInv, ProbesFirst
  <2>4. t \notin cancelled
    BY <2>3 DEF CancelInv, OffServes
  <2>5. gui = "on" /\ ~(g < starts) /\ ~(g > starts)
    BY <1>1, <2>4 DEF CancelInv, LeftoversCancelled, StartsInOrder
  <2>6. \A u \in Threads : pc[u] # "none" => pc'[u] # "none"
    BY <2>2
  <2>7. StartsInOrder'
    BY <1>1, <2>0, <2>2, <2>5 DEF CancelInv, StartsInOrder
  <2>8. ProbesFirst'
    <3> SUFFICES ASSUME NEW h \in Starts, pc'[Router(h)] \in {"new", "create"}
                 PROVE  pc'[Table(h)] = "none"
      BY DEF ProbesFirst, Serves
    <3>1. Router(h) # t /\ h # g
      BY <2>0, <2>2
    <3>2. /\ Router(h) \in Threads /\ Table(h) \in Threads
          /\ Router(h)[2] = h /\ Table(h)[2] = h
      BY ThreadFacts
    <3>3. /\ Router(h) \notin {t, Table(g), Icmp(g)}
          /\ Table(h) \notin {t, Table(g), Icmp(g)}
      BY <2>0, <3>1, <3>2
    <3>4. pc'[Router(h)] = pc[Router(h)] /\ pc'[Table(h)] = pc[Table(h)]
      BY <2>2, <3>2, <3>3
    <3> QED BY <3>4 DEF CancelInv, ProbesFirst, Serves
  <2>9. OffServes'
    BY <1>1, <2>6, ThreadFacts DEF CancelInv, OffServes, Serves, TInv, TypeOK
  <2>10. LeftoversCancelled'
    BY <1>1, <2>0, <2>2, <2>5 DEF CancelInv, LeftoversCancelled
  <2>11. CreatedTogether'
    <3> SUFFICES ASSUME NEW h \in Starts
                 PROVE  pc'[Table(h)] # "none" <=> pc'[Icmp(h)] # "none"
      BY DEF CreatedTogether, Serves
    <3>1. CASE h = g
      BY <3>1, <2>0, <2>2
    <3>2. CASE h # g
      <4>1. /\ Table(h) \in Threads /\ Icmp(h) \in Threads
            /\ {Table(h), Icmp(h)} \cap {t, Table(g), Icmp(g)} = {}
        BY <2>0, <3>2, ThreadFacts
      <4>2. pc'[Table(h)] = pc[Table(h)] /\ pc'[Icmp(h)] = pc[Icmp(h)]
        BY <4>1, <2>2
      <4> QED BY <4>2 DEF CancelInv, CreatedTogether, Serves
    <3> QED BY <3>1, <3>2
  <2> QED BY <2>7, <2>8, <2>9, <2>10, <2>11 DEF CancelInv
<1> QED BY <1>2, <1>3, <1>4 DEF Moves

\* The same, kept by the window.
LEMMA WindowCancel ==
  ASSUME TInv, CancelInv, On \/ Off \/ OffClose \/ PeerConnects
  PROVE  CancelInv'
<1> USE DEF CancelInv, StartsInOrder, ProbesFirst, CreatedTogether, OffServes,
            LeftoversCancelled, Serves, guiVars
<1>1. CASE On
  <2> DEFINE g == starts + 1
  <2>1. /\ g \in Starts /\ starts \in Nat /\ starts' = g /\ cancelled' = cancelled
        /\ gui = "off" /\ gui' = "on" /\ pc' = [pc EXCEPT ![Router(g)] = "new"]
    BY <1>1, BoundAssumption DEF On, Goes, TInv, TypeOK, Starts
  <2>2. /\ Router(g) \in Threads /\ Router(g)[2] = g /\ Table(g) \in Threads
        /\ Table(g)[2] = g /\ Router(g) # Table(g)
    BY <2>1, ThreadFacts
  <2>3. \A u \in Threads : pc'[u] = IF u = Router(g) THEN "new" ELSE pc[u]
    BY <2>1, <2>2 DEF TInv, TypeOK
  <2>4. \A u \in Threads : u[2] \in Nat
    BY ThreadFacts
  <2>5. StartsInOrder'
    BY <2>1, <2>2, <2>3, <2>4
  <2>6. \A h \in Starts : pc'[Table(h)] = pc[Table(h)]
    BY <2>2, <2>3, ThreadFacts
  <2>7. ProbesFirst'
    <3> SUFFICES ASSUME NEW h \in Starts, pc'[Router(h)] \in {"new", "create"}
                 PROVE  pc[Table(h)] = "none"
      BY <2>6
    <3>1. CASE h = g
      BY <3>1, <2>1, <2>2
    <3>2. CASE h # g
      <4>1. Router(h) \in Threads /\ Router(h) # Router(g)
        BY <2>2, <3>2, ThreadFacts
      <4> QED BY <4>1, <2>3
    <3> QED BY <3>1, <3>2
  <2>8. OffServes'
    BY <2>1, <2>6, ThreadFacts DEF TInv, TypeOK
  <2>9. LeftoversCancelled'
    BY <2>1, <2>2, <2>3, <2>4
  <2>10. \A h \in Starts : pc'[Icmp(h)] = pc[Icmp(h)]
    BY <2>2, <2>3, ThreadFacts
  <2>11. CreatedTogether'
    BY <2>6, <2>10
  <2> QED BY <2>5, <2>7, <2>8, <2>9, <2>11
<1>2. CASE Off
  <2>1. CASE UNCHANGED <<gui, starts, cancelled, pc>>
    BY <2>1
  <2>2. CASE ~UNCHANGED <<gui, starts, cancelled, pc>>
    <3>1. /\ current = starts /\ Serves(current)
          /\ cancelled' = cancelled \cup (Kinds \X {current})
          /\ starts' = starts /\ pc' = pc
      BY <1>2, <2>2 DEF Off, Exits, CancelledByOff
    <3>2. \A u \in Kinds \X {current} : u[2] = current
      OBVIOUS
    <3>3. \A u \in Threads : u[2] = starts => u \in Kinds \X {current}
      BY <3>1 DEF Threads
    <3>4. \A u \in Threads : u[2] < starts \/ u[2] = starts \/ u[2] > starts
      <4>1. starts \in Int /\ \A u \in Threads : u[2] \in Int
        BY BoundAssumption, ThreadFacts DEF TInv, TypeOK
      <4> HIDE DEF Serves, guiVars
      <4> QED BY <4>1
    <3> QED BY <3>1, <3>2, <3>3, <3>4
  <2> QED BY <2>1, <2>2
<1>3. CASE OffClose
  BY <1>3 DEF OffClose
<1>4. CASE PeerConnects
  BY <1>4 DEF PeerConnects
<1> QED BY <1>1, <1>2, <1>3, <1>4

-----------------------------------------------------------------------------
(***************************************************************************)
(* Descriptors.                                                            *)
(***************************************************************************)

\* Thread t has descriptor n, and will close it.
Holds(t, n) == sock[t] = n /\ pc[t] \in {"connect", "close"}

\* A step of t that leaves alone what every other thread holds, and opens only
\* what t then holds, keeps SendersClose.
LEMMA StepClose ==
  ASSUME TInv, TInv', SendersClose, NEW t \in Threads,
         \A u \in Threads \ {t} : sock'[u] = sock[u] /\ pc'[u] = pc[u],
         \A n \in Fds : fds'[n] \in {"fresh", "out"} =>
           \/ Holds(t, n)'
           \/ fds[n] \in {"fresh", "out"} /\ ~Holds(t, n)
  PROVE  SendersClose'
<1> SUFFICES ASSUME NEW n \in Fds, fds'[n] \in {"fresh", "out"}
             PROVE  \E u \in Threads : Holds(u, n)'
  BY DEF SendersClose, Holds
<1>1. CASE Holds(t, n)'
  BY <1>1
<1>2. CASE ~Holds(t, n)'
  <2>1. fds[n] \in {"fresh", "out"} /\ ~Holds(t, n)
    BY <1>2
  <2>2. PICK u \in Threads : Holds(u, n)
    BY <2>1 DEF SendersClose, Holds
  <2>3. u \in Threads \ {t}
    BY <2>1, <2>2
  <2> QED BY <2>2, <2>3 DEF Holds
<1> QED BY <1>1, <1>2

\* Steps that open nothing to send, of threads that hold nothing.
LEMMA OtherClose ==
  ASSUME TInv, TInv', SendersClose, NEW t \in Threads,
         pc[t] \notin {"connect", "close"},
         \A u \in Threads \ {t} : sock'[u] = sock[u] /\ pc'[u] = pc[u],
         \A n \in Fds : fds'[n] \in {"fresh", "out"} => fds'[n] = fds[n]
  PROVE  SendersClose'
<1>1. \A n \in Fds : ~Holds(t, n)
  BY DEF Holds
<1> QED BY <1>1, StepClose

LEMMA SenderClose ==
  ASSUME TInv, TInv', SendersClose, NEW t \in Threads, SenderStep(t)
  PROVE  SendersClose'
<1> USE DEF fdVars
<1>e. ASSUME NEW place, Goes(t, place)
      PROVE  /\ \A u \in Threads \ {t} : pc'[u] = pc[u]
             /\ pc'[t] = place
  BY <1>e DEF Goes, TInv, TypeOK
<1>d. ASSUME PacketDone(t)
      PROVE  /\ \A u \in Threads \ {t} : sock'[u] = sock[u]
             /\ \A u \in Threads \ {t} : pc'[u] = pc[u]
  BY <1>d, <1>e DEF PacketDone, TInv, TypeOK
<1>1. CASE Socket(t)
  <2>1. PICK n \in NewFds : /\ fds' = [fds EXCEPT ![n] = "fresh"]
                            /\ sock' = [sock EXCEPT ![t] = n]
    BY <1>1 DEF Socket
  <2>2. pc[t] = "sleep" /\ n \in Fds /\ pc'[t] = "connect"
    BY <1>1, <1>e DEF Socket, At, NewFds
  <2>3. /\ \A u \in Threads \ {t} : sock'[u] = sock[u] /\ pc'[u] = pc[u]
        /\ sock'[t] = n
    BY <1>1, <1>e, <2>1 DEF Socket, TInv, TypeOK
  <2>4. Holds(t, n)' /\ \A k \in Fds : ~Holds(t, k)
    BY <2>2, <2>3 DEF Holds
  <2>5. \A k \in Fds : k # n => fds'[k] = fds[k]
    BY <2>1 DEF TInv, TypeOK
  <2> QED BY <2>3, <2>4, <2>5, StepClose
<1>2. CASE NoSocket(t)
  BY <1>2, <1>d, OtherClose DEF NoSocket, At
<1>3. CASE Send(t)
  <2>1. /\ pc[t] = "connect" /\ fds' = [fds EXCEPT ![sock[t]] = "out"]
        /\ sock[t] \in Fds /\ sock' = sock /\ pc'[t] = "close"
    BY <1>3, <1>e DEF Send, At, Kind
  <2>2. \A n \in Fds : Holds(t, n) => Holds(t, n)'
    BY <2>1 DEF Holds
  <2>3. \A n \in Fds : n = sock[t] => Holds(t, n)'
    BY <2>1 DEF Holds
  <2>4. \A n \in Fds : n # sock[t] => fds'[n] = fds[n]
    BY <2>1 DEF TInv, TypeOK
  <2>5. \A u \in Threads \ {t} : sock'[u] = sock[u] /\ pc'[u] = pc[u]
    BY <1>3, <1>e, <2>1 DEF Send
  <2> QED BY <2>2, <2>3, <2>4, <2>5, StepClose
<1>4. CASE Refused(t)
  <2>1. /\ pc[t] = "connect" /\ fds' = fds /\ sock' = sock /\ pc'[t] = "close"
        /\ \A u \in Threads \ {t} : pc'[u] = pc[u]
    BY <1>4, <1>e DEF Refused, AfterRefusal, At
  <2>2. \A n \in Fds : Holds(t, n) => Holds(t, n)'
    BY <2>1 DEF Holds
  <2> QED BY <2>1, <2>2, StepClose
<1>5. CASE SendError(t)
  BY <1>5 DEF SendError, Exits, SendersClose
<1>6. CASE Close(t)
  <2>1. CloseFd(sock[t])
    BY <1>6 DEF Close
  <2>2. \A n \in Fds : fds'[n] \in {"fresh", "out"} => fds'[n] = fds[n] /\ n # sock[t]
    BY <2>1, ClosedType DEF TInv
  <2>3. \A n \in Fds : n # sock[t] => ~Holds(t, n)
    BY DEF Holds
  <2>4. \A u \in Threads \ {t} : sock'[u] = sock[u] /\ pc'[u] = pc[u]
    BY <1>6, <1>d DEF Close
  <2> QED BY <2>2, <2>3, <2>4, StepClose
<1> QED BY <1>1, <1>2, <1>3, <1>4, <1>5, <1>6 DEF SenderStep

LEMMA RouterClose ==
  ASSUME TInv, TInv', CancelInv, SendersClose, NEW g \in Starts, RouterStep(g)
  PROVE  SendersClose'
<1> USE DEF fdVars
<1> DEFINE t == Router(g)
<1>t. t \in Threads
  BY ThreadFacts
<1>e. ASSUME NEW place, Goes(t, place)
      PROVE  \A u \in Threads \ {t} : pc'[u] = pc[u]
  BY <1>e DEF Goes, TInv, TypeOK
<1>f. ASSUME CloseFd(server)
      PROVE  \A n \in Fds : fds'[n] \in {"fresh", "out"} => fds'[n] = fds[n]
  BY <1>f, ClosedType DEF TInv
<1>1. CASE Begin(g)
  <2>1. \A n \in Fds : fds'[n] \in {"fresh", "out"} => fds'[n] = fds[n]
    BY <1>1, ServerSocketType DEF Begin, TInv
  <2>2. /\ pc[t] = "new" /\ sock' = sock
        /\ \A u \in Threads \ {t} : pc'[u] = pc[u]
    BY <1>1, <1>e DEF Begin, At
  <2> QED BY <1>t, <2>1, <2>2, OtherClose
<1>2. CASE CreateThreads(g)
  <2>1. pc[t] = "create" /\ fds' = fds /\ sock' = sock
    BY <1>2 DEF CreateThreads, At
  <2>2. pc[Table(g)] = "none" /\ pc[Icmp(g)] = "none"
    BY <2>1 DEF CancelInv, ProbesFirst, CreatedTogether, Serves
  <2>3. \A u \in Threads : pc[u] \in {"connect", "close"} => pc'[u] = pc[u]
    <3>1. \A u \in Threads : u \notin {t, Table(g), Icmp(g)} => pc'[u] = pc[u]
      BY <1>2 DEF CreateThreads, TInv, TypeOK
    <3> QED BY <2>1, <2>2, <3>1
  <2> QED BY <2>1, <2>3 DEF SendersClose
<1>3. CASE Shut(g)
  BY <1>3, <1>t, <1>e, <1>f, OtherClose DEF Shut, At
<1>4. CASE Accept(g)
  <2>1. /\ pc[t] = "accept" /\ \A u \in Threads \ {t} : pc'[u] = pc[u]
        /\ \A u \in Threads \ {t} : sock'[u] = sock[u]
    BY <1>4, <1>e DEF Accept, At, TInv, TypeOK
  <2>2. \A n \in Fds : fds'[n] \in {"fresh", "out"} => fds'[n] = fds[n]
    BY <1>4 DEF Accept, NewFds, TInv, TypeOK
  <2> QED BY <1>t, <2>1, <2>2, OtherClose
<1>5. CASE AcceptFails(g)
  <2>1. /\ pc[t] = "accept" /\ fds' = fds
        /\ \A u \in Threads \ {t} : pc'[u] = pc[u]
        /\ \A u \in Threads \ {t} : sock'[u] = sock[u]
    BY <1>5, <1>e DEF AcceptFails, At, TInv, TypeOK
  <2> QED BY <1>t, <2>1, OtherClose
<1>6. CASE Reclose(g)
  BY <1>6, <1>t, <1>e, <1>f, OtherClose DEF Reclose, At
<1>7. CASE Reopen(g)
  <2>1. \A n \in Fds : fds'[n] \in {"fresh", "out"} => fds'[n] = fds[n]
    BY <1>7, ServerSocketType DEF Reopen, TInv
  <2> QED BY <1>7, <1>t, <1>e, <2>1, OtherClose DEF Reopen, At
<1>8. CASE NoServerSocket(g)
  BY <1>8 DEF NoServerSocket, Exits, SendersClose
<1>9. CASE Recv(g)
  <2>1. /\ pc[t] = "recv" /\ fds' = fds
        /\ \A u \in Threads \ {t} : pc'[u] = pc[u]
        /\ \A u \in Threads \ {t} : sock'[u] = sock[u]
    BY <1>9, <1>e DEF Recv, At, TInv, TypeOK
  <2> QED BY <1>t, <2>1, OtherClose
<1> QED BY <1>1, <1>2, <1>3, <1>4, <1>5, <1>6, <1>7, <1>8, <1>9 DEF RouterStep

LEMMA ThreadClose ==
  ASSUME TInv, TInv', CancelInv, SendersClose, NEW t \in Threads, ThreadStep(t)
  PROVE  SendersClose'
<1> USE DEF fdVars
<1>e. ASSUME NEW place, Goes(t, place)
      PROVE  \A u \in Threads \ {t} : pc'[u] = pc[u]
  BY <1>e DEF Goes, TInv, TypeOK
<1>1. CASE Lock(t)
  <2>1. \A u \in Threads \ {t} : pc'[u] = pc[u]
    BY <1>1, <1>e DEF Lock
  <2> QED BY <1>1, <2>1, OtherClose DEF Lock, At
<1>2. CASE Unlock(t)
  BY <1>2, <1>e, OtherClose DEF Unlock, At
<1>3. CASE Rest(t)
  BY <1>3, <1>e, OtherClose DEF Rest, At
<1>4. CASE Die(t)
  <2>1. /\ \A u \in Threads \ {t} : pc'[u] = pc[u]
        /\ \A u \in Threads \ {t} : sock'[u] = sock[u]
    BY <1>4, <1>e DEF Die, TInv, TypeOK
  <2>2. ASSUME NEW n \in Fds, fds'[n] \in {"fresh", "out"}
        PROVE  fds[n] \in {"fresh", "out"} /\ n # sock[t]
    <3>1. fds' = IF sock[t] # ERR /\ Kind(sock[t]) \in {"fresh", "out"}
                 THEN [fds EXCEPT ![sock[t]] = "left"] ELSE fds
      BY <1>4 DEF Die
    <3>2. n # ERR
      BY BoundAssumption DEF Fds, ERR
    <3>3. CASE n = sock[t]
      BY <2>2, <3>1, <3>2, <3>3 DEF Kind, TInv, TypeOK
    <3>4. CASE n # sock[t]
      BY <2>2, <3>1, <3>4 DEF TInv, TypeOK
    <3> QED BY <3>3, <3>4
  <2>3. \A n \in Fds : n # sock[t] => ~Holds(t, n)
    BY DEF Holds
  <2> QED BY <2>1, <2>2, <2>3, StepClose
<1>5. CASE t[1] = "router" /\ RouterStep(t[2])
  BY <1>5, RouterClose, ThreadFacts
<1> QED BY <1>1, <1>2, <1>3, <1>4, <1>5, SenderClose DEF ThreadStep

LEMMA WindowClose ==
  ASSUME TInv, CancelInv, SendersClose, On \/ Off \/ OffClose \/ PeerConnects
  PROVE  SendersClose'
<1> USE DEF fdVars
<1>1. CASE On
  <2> DEFINE t == Router(starts + 1)
  <2>1. starts \in Nat /\ starts + 1 \in Starts
    BY <1>1, BoundAssumption DEF On, TInv, TypeOK, Starts
  <2>2. t \in Threads /\ pc[t] = "none"
    BY <2>1, ThreadFacts DEF CancelInv, StartsInOrder
  <2>3. \A u \in Threads : pc[u] \in {"connect", "close"} => pc'[u] = pc[u]
    BY <1>1, <2>2 DEF On, Goes, TInv, TypeOK
  <2> QED BY <1>1, <2>3 DEF On, SendersClose
<1>2. CASE Off
  BY <1>2 DEF Off, Exits, SendersClose
<1>3. CASE OffClose
  BY <1>3, ClosedType DEF OffClose, SendersClose, TInv
<1>4. CASE PeerConnects
  BY <1>4 DEF PeerConnects, SendersClose
<1> QED BY <1>1, <1>2, <1>3, <1>4

-----------------------------------------------------------------------------
(***************************************************************************)
(* The mutex.                                                              *)
(***************************************************************************)

\* Where a thread of each kind may be; the advertiser never locks.
Fits(t, place) ==
  /\ t[1] = "icmp" => place \in {"none", "sleep", "connect", "close", "dead"}
  /\ t[1] = "table" => place \in {"none", "lock", "sleep", "connect", "close",
                                  "unlock", "rest", "dead"}

Critical(t, place) ==
  \/ t[1] = "table" /\ place \in {"sleep", "connect", "close", "unlock"}
  \/ t[1] = "router" /\ place = "unlock"

LostWith(t) == t[1] = "table" /\ t \in cancelled /\ pc[t] = "dead"

LockInv ==
  /\ \A t \in Threads : Fits(t, pc[t])
  /\ \A t \in Threads : Critical(t, pc[t]) => mutex = t
  /\ mutex # Free => Critical(mutex, pc[mutex]) \/ LostWith(mutex)

LEMMA FreeIsNoThread == Free \notin Threads
<1>1. \A t \in Threads : t[1] \in Kinds
  BY ThreadFacts
<1>2. Free[1] \notin Kinds
  BY DEF Free, Kinds
<1> QED BY <1>1, <1>2

\* A step of t that neither enters nor leaves the critical section, unless t
\* is cancelled there.
LEMMA StepLock ==
  ASSUME TInv, LockInv, NEW t \in Threads, NEW place,
         pc' = [pc EXCEPT ![t] = place], mutex' = mutex, cancelled' = cancelled,
         Fits(t, place),
         \/ Critical(t, place) <=> Critical(t, pc[t])
         \/ place = "dead" /\ t \in cancelled /\ (t[1] = "router" => pc[t] # "unlock"),
         pc[t] # "dead"
  PROVE  LockInv'
<1>1. \A u \in Threads : pc'[u] = IF u = t THEN place ELSE pc[u]
  BY DEF TInv, TypeOK
<1>2. \A u \in Threads : Fits(u, pc'[u])
  BY <1>1 DEF LockInv
<1>3. ASSUME NEW u \in Threads, Critical(u, pc'[u])
      PROVE  mutex = u
  BY <1>1, <1>3 DEF LockInv, Critical
<1>4. ASSUME mutex # Free
      PROVE  Critical(mutex, pc'[mutex]) \/ LostWith(mutex)'
  <2>1. mutex \in Threads
    BY <1>4 DEF TInv, TypeOK
  <2>2. CASE mutex # t
    BY <1>1, <1>4, <2>1, <2>2 DEF LockInv, LostWith
  <2>3. CASE mutex = t
    <3>1. Critical(t, pc[t])
      BY <1>4, <2>3 DEF LockInv, LostWith
    <3>2. pc'[t] = place
      BY <1>1
    <3> QED BY <2>3, <3>1, <3>2 DEF Critical, LostWith
  <2> QED BY <2>2, <2>3
<1> QED BY <1>2, <1>3, <1>4 DEF LockInv

LEMMA SenderLock ==
  ASSUME TInv, LockInv, NEW t \in Threads, SenderStep(t)
  PROVE  LockInv'
<1>k. t[1] \in {"router", "table", "icmp"}
  BY ThreadFacts DEF Kinds
<1>f. Fits(t, pc[t])
  BY DEF LockInv
<1>1. ASSUME pc[t] \in {"sleep", "connect", "close"},
             NEW place \in {"sleep", "connect", "close"}, Goes(t, place),
             mutex' = mutex, cancelled' = cancelled
      PROVE  LockInv'
  <2>1. Fits(t, place) /\ (Critical(t, place) <=> Critical(t, pc[t]))
    BY <1>k, <1>1 DEF Fits, Critical
  <2> QED BY <1>1, <2>1, StepLock DEF Goes
<1>2. ASSUME pc[t] \in {"sleep", "close"}, PacketDone(t),
             mutex' = mutex, cancelled' = cancelled
      PROVE  LockInv'
  <2>1. CASE left[t] > 1
    BY <1>1, <1>2, <2>1 DEF PacketDone
  <2>2. CASE ~(left[t] > 1)
    <3>1. Goes(t, Finished(t))
      BY <1>2, <2>2 DEF PacketDone
    <3>2. Fits(t, Finished(t)) /\ (Critical(t, Finished(t)) <=> Critical(t, pc[t]))
      BY <1>k, <1>2 DEF Fits, Critical, Finished
    <3> QED BY <1>2, <3>1, <3>2, StepLock DEF Goes
  <2> QED BY <2>1, <2>2
<1>3. CASE Socket(t)
  BY <1>1, <1>3 DEF Socket, At, guiVars
<1>4. CASE NoSocket(t)
  BY <1>2, <1>4 DEF NoSocket, At, guiVars
<1>5. CASE Send(t)
  BY <1>1, <1>5 DEF Send, At, guiVars
<1>6. CASE Refused(t)
  BY <1>1, <1>6 DEF Refused, AfterRefusal, At, guiVars
<1>7. CASE SendError(t)
  BY <1>7 DEF SendError, Exits, guiVars, LockInv, LostWith
<1>8. CASE Close(t)
  BY <1>2, <1>8 DEF Close, At, guiVars
<1> QED BY <1>3, <1>4, <1>5, <1>6, <1>7, <1>8 DEF SenderStep

LEMMA RouterLock ==
  ASSUME TInv, CancelInv, LockInv, NEW g \in Starts, RouterStep(g)
  PROVE  LockInv'
<1> DEFINE t == Router(g)
<1>t. t \in Threads /\ t[1] = "router"
  BY ThreadFacts
<1>1. ASSUME NEW place, Goes(t, place), place # "unlock",
             pc[t] \notin {"unlock", "dead"}, mutex' = mutex, cancelled' = cancelled
      PROVE  LockInv'
  <2>1. Fits(t, place) /\ ~Critical(t, place) /\ ~Critical(t, pc[t])
    BY <1>t, <1>1 DEF Fits, Critical
  <2> QED BY <1>t, <1>1, <2>1, StepLock DEF Goes
<1>2. CASE Begin(g)
  <2>1. PICK place \in {"sleep", "create"} : Goes(t, place)
    BY <1>2 DEF Begin
  <2> QED BY <1>1, <1>2, <2>1 DEF Begin, At
<1>3. CASE CreateThreads(g)
  <2>0. Table(g) \in Threads /\ Icmp(g) \in Threads /\ t # Table(g)
        /\ t # Icmp(g) /\ Table(g) # Icmp(g)
        /\ Table(g)[1] = "table" /\ Icmp(g)[1] = "icmp"
    BY ThreadFacts DEF Table, Icmp
  <2>1. /\ pc[t] = "create" /\ mutex' = mutex /\ cancelled' = cancelled
        /\ pc' = [pc EXCEPT ![t] = "shut", ![Table(g)] = "lock", ![Icmp(g)] = "sleep"]
    BY <1>3 DEF CreateThreads, At, guiVars
  <2>2. \A u \in Threads : pc'[u] = IF u = t THEN "shut"
                                    ELSE IF u = Table(g) THEN "lock"
                                    ELSE IF u = Icmp(g) THEN "sleep" ELSE pc[u]
    BY <1>t, <2>0, <2>1 DEF TInv, TypeOK
  <2>3. pc[Table(g)] = "none"
    BY <2>1 DEF CancelInv, ProbesFirst, Serves
  <2>4. \A u \in {t, Table(g), Icmp(g)} : ~Critical(u, pc[u]) /\ ~Critical(u, pc'[u])
    <3> HIDE DEF t
    <3>1. ~Critical(t, pc[t]) /\ ~Critical(t, pc'[t])
      <4>1. pc'[t] = "shut"
        BY <1>t, <2>2
      <4> QED BY <1>t, <2>1, <4>1 DEF Critical
    <3>2. pc'[Table(g)] = "lock"
      BY <2>0, <2>2
    <3>3. ~Critical(Table(g), pc[Table(g)]) /\ ~Critical(Table(g), pc'[Table(g)])
      BY <2>0, <2>3, <3>2 DEF Critical
    <3>4. \A place : ~Critical(Icmp(g), place)
      BY <2>0 DEF Critical
    <3> QED BY <3>1, <3>3, <3>4
  <2>5. \A u \in Threads : Fits(u, pc'[u])
    BY <1>t, <2>0, <2>2 DEF Fits, LockInv
  <2>6. \A u \in Threads : Critical(u, pc'[u]) => mutex' = u
    BY <2>1, <2>2, <2>4 DEF LockInv
  <2>7. ASSUME mutex # Free
        PROVE  Critical(mutex, pc'[mutex]) \/ LostWith(mutex)'
    <3>1. mutex \in Threads /\ mutex \notin {t, Table(g), Icmp(g)}
      BY <1>t, <2>0, <2>3, <2>4, <2>7 DEF LockInv, LostWith, TInv, TypeOK
    <3>2. pc'[mutex] = pc[mutex]
      BY <2>2, <3>1
    <3> QED BY <2>1, <2>7, <3>2 DEF LockInv, LostWith
  <2> QED BY <2>1, <2>5, <2>6, <2>7 DEF LockInv
<1>4. CASE Shut(g)
  BY <1>1, <1>4 DEF Shut, At, guiVars
<1>5. CASE Accept(g)
  BY <1>1, <1>5 DEF Accept, At, guiVars
<1>6. CASE AcceptFails(g)
  BY <1>1, <1>6 DEF AcceptFails, At, guiVars
<1>7. CASE Reclose(g)
  BY <1>1, <1>7 DEF Reclose, AfterFailedAccept, At, guiVars
<1>8. CASE Reopen(g)
  BY <1>1, <1>8 DEF Reopen, At, guiVars
<1>9. CASE NoServerSocket(g)
  BY <1>9 DEF NoServerSocket, Exits, guiVars, LockInv, LostWith
<1>10. CASE Recv(g)
  <2>1. PICK place \in {"lock", "sleep", "accept"} : Goes(t, place)
    BY <1>10 DEF Recv
  <2> QED BY <1>1, <1>10, <2>1 DEF Recv, At, guiVars
<1> QED BY <1>2, <1>3, <1>4, <1>5, <1>6, <1>7, <1>8, <1>9, <1>10 DEF RouterStep

LEMMA ThreadLock ==
  ASSUME TInv, CancelInv, LockInv, NEW t \in Threads, ThreadStep(t)
  PROVE  LockInv'
<1>k. t[1] \in {"router", "table", "icmp"} /\ t # Free
  BY ThreadFacts, FreeIsNoThread DEF Kinds
<1>f. Fits(t, pc[t])
  BY DEF LockInv
<1>e. ASSUME NEW place, Goes(t, place)
      PROVE  \A u \in Threads : pc'[u] = IF u = t THEN place ELSE pc[u]
  BY <1>e DEF Goes, TInv, TypeOK
<1>1. CASE Lock(t)
  <2>1. /\ pc[t] = "lock" /\ mutex = Free /\ mutex' = t /\ cancelled' = cancelled
    BY <1>1 DEF Lock, At, guiVars
  <2>2. t[1] # "icmp"
    BY <1>f, <2>1 DEF Fits
  <2>3. PICK rows \in IF t[1] = "table" THEN 0 .. MaxRows ELSE {0} :
          Goes(t, AfterLock(t, rows))
    BY <1>1 DEF Lock
  <2>4. AfterLock(t, rows) \in {"sleep", "unlock"}
        /\ (t[1] # "table" => AfterLock(t, rows) = "unlock")
    BY <2>3 DEF AfterLock
  <2>5. \A u \in Threads : pc'[u] = IF u = t THEN AfterLock(t, rows) ELSE pc[u]
    BY <1>e, <2>3
  <2>6. Critical(t, pc'[t]) /\ Fits(t, pc'[t])
    BY <1>k, <2>2, <2>4, <2>5 DEF Critical, Fits
  <2>7. \A u \in Threads : ~Critical(u, pc[u])
    BY <2>1, FreeIsNoThread DEF LockInv
  <2> QED BY <2>1, <2>5, <2>6, <2>7 DEF LockInv
<1>2. CASE Unlock(t)
  <2>1. pc[t] = "unlock" /\ mutex' = Free
    BY <1>2 DEF Unlock, At
  <2>2. t[1] # "icmp"
    BY <1>f, <2>1 DEF Fits
  <2>3. mutex = t
    BY <1>k, <2>1, <2>2 DEF LockInv, Critical
  <2>4. \A u \in Threads : pc'[u] = IF u = t THEN IF t[1] = "table" THEN "rest" ELSE "accept"
                                    ELSE pc[u]
    BY <1>2, <1>e DEF Unlock
  <2>5. ~Critical(t, pc'[t]) /\ Fits(t, pc'[t])
    BY <1>k, <2>2, <2>4 DEF Critical, Fits
  <2> QED BY <2>1, <2>3, <2>4, <2>5 DEF LockInv
<1>3. CASE Rest(t)
  <2>1. pc[t] = "rest" /\ t[1] # "icmp"
    BY <1>3, <1>f DEF Rest, At, Fits
  <2>2. Fits(t, "lock") /\ ~Critical(t, "lock") /\ ~Critical(t, pc[t])
    BY <2>1 DEF Fits, Critical
  <2> QED BY <1>3, <2>1, <2>2, StepLock DEF Rest, Goes, guiVars
<1>4. CASE Die(t)
  <2>1. t \in cancelled /\ pc[t] \notin {"dead", "unlock"} /\ cancelled' = cancelled
        /\ mutex' = mutex /\ Goes(t, "dead")
    BY <1>4 DEF Die, Points, guiVars
  <2>2. Fits(t, "dead")
    BY DEF Fits
  <2> QED BY <2>1, <2>2, StepLock DEF Goes
<1>5. CASE t[1] = "router" /\ RouterStep(t[2])
  BY <1>5, RouterLock, ThreadFacts
<1> QED BY <1>1, <1>2, <1>3, <1>4, <1>5, SenderLock DEF ThreadStep

LEMMA WindowLock ==
  ASSUME TInv, CancelInv, LockInv, On \/ Off \/ OffClose \/ PeerConnects
  PROVE  LockInv'
<1>1. CASE On
  <2> DEFINE t == Router(starts + 1)
  <2>1. starts \in Nat /\ starts + 1 \in Starts
    BY <1>1, BoundAssumption DEF On, TInv, TypeOK, Starts
  <2>2. t \in Threads /\ pc[t] = "none" /\ t[1] = "router"
    BY <2>1, ThreadFacts DEF CancelInv, StartsInOrder
  <2>3. Fits(t, "new") /\ ~Critical(t, "new") /\ ~Critical(t, pc[t])
    BY <2>2 DEF Fits, Critical
  <2>4. pc' = [pc EXCEPT ![t] = "new"] /\ mutex' = mutex /\ cancelled' = cancelled
    BY <1>1 DEF On, Goes
  <2> HIDE DEF t
  <2> QED BY <2>2, <2>3, <2>4, StepLock
<1>2. CASE Off
  <2>1. pc' = pc /\ mutex' = mutex /\ cancelled \subseteq cancelled'
    BY <1>2 DEF Off, Exits, guiVars
  <2> QED BY <2>1 DEF LockInv, LostWith
<1>3. CASE OffClose
  BY <1>3 DEF OffClose, LockInv, LostWith
<1>4. CASE PeerConnects
  BY <1>4 DEF PeerConnects, LockInv, LostWith, guiVars
<1> QED BY <1>1, <1>2, <1>3, <1>4

-----------------------------------------------------------------------------
(***************************************************************************)
(* Theorems.                                                               *)
(***************************************************************************)

Inv == TInv /\ CancelInv /\ SendersClose /\ LockInv

LEMMA InitInv == Init => Inv
<1> SUFFICES ASSUME Init
             PROVE  Inv
  OBVIOUS
<1>1. TInv
  <2>1. 0 \in 0 .. MaxStarts /\ 0 \in 0 .. 0 /\ 0 \in 0 .. MaxBacklog /\ 0 \in Nat
    BY BoundAssumption
  <2>2. starts \in 0 .. MaxStarts /\ current \in 0 .. starts /\ backlog \in 0 .. MaxBacklog
    BY <2>1 DEF Init
  <2>3. left \in [Threads -> Nat]
    BY <2>1 DEF Init
  <2>4. pc \in [Threads -> Places] /\ sock \in [Threads -> Fds \cup {ERR}]
    BY DEF Init, Places
  <2> QED BY <2>2, <2>3, <2>4 DEF Init, TInv, TypeOK, OnWasStarted
<1>2. CancelInv
  <2>1. \A t \in Threads : pc[t] = "none"
    BY DEF Init
  <2> QED BY <2>1, ThreadFacts DEF Init, CancelInv, StartsInOrder, ProbesFirst,
                       CreatedTogether, OffServes, LeftoversCancelled, Serves
<1>3. SendersClose
  BY DEF Init, SendersClose
<1>4. LockInv
  <2>1. mutex = Free /\ \A t \in Threads : pc[t] = "none"
    BY DEF Init
  <2> QED BY <2>1 DEF LockInv, Fits, Critical
<1> QED BY <1>1, <1>2, <1>3, <1>4 DEF Inv

LEMMA NextInv == Inv /\ [Next]_vars => Inv'
<1> SUFFICES ASSUME Inv, [Next]_vars
             PROVE  Inv'
  OBVIOUS
<1>1. ASSUME NEW t \in Threads, ThreadStep(t)
      PROVE  Inv'
  <2>1. TInv'
    BY <1>1, ThreadTypes DEF Inv, CancelInv
  <2>2. CancelInv'
    BY <1>1, ThreadMoves, MovesCancel DEF Inv, CancelInv
  <2>3. SendersClose'
    BY <1>1, <2>1, ThreadClose DEF Inv
  <2>4. LockInv'
    BY <1>1, ThreadLock DEF Inv
  <2> QED BY <2>1, <2>2, <2>3, <2>4 DEF Inv
<1>2. CASE On \/ Off \/ OffClose \/ PeerConnects
  BY <1>2, WindowTypes, WindowCancel, WindowClose, WindowLock DEF Inv
<1>3. CASE UNCHANGED vars
  BY <1>3 DEF vars, Inv, TInv, TypeOK, OnWasStarted, CancelInv, StartsInOrder,
              ProbesFirst, CreatedTogether, OffServes, LeftoversCancelled,
              Serves, SendersClose, LockInv, LostWith
<1> QED BY <1>1, <1>2, <1>3 DEF Next

\* Every reachable state of a router process has the types TypeOK states.
THEOREM TypeCorrect == Spec => []TypeOK
<1>1. Inv => TypeOK
  BY DEF Inv, TInv
<1> QED BY <1>1, InitInv, NextInv, PTL DEF Spec

\* What DispatchPacket opens (mip_protocol.c, SocketConnection) is always some
\* sender's to close, unless a cancelled thread has left it, however many
\* threads, starts and descriptors there are.
THEOREM SendersAlwaysClose == Spec => []SendersClose
<1>1. Inv => SendersClose
  BY DEF Inv
<1> QED BY <1>1, InitInv, NextInv, PTL DEF Spec

\* Of the threads of all starts (router.c:263, router.c:433) at most one
\* is between the lock and the unlock of router_mtex, and the mutex is lost
\* only with a dispatcher that stopRouter has cancelled.
THEOREM MutexExcludes == Spec => []MutualExclusion
<1>1. Inv => MutualExclusion
  BY DEF Inv, LockInv, Critical, LostWith, MutualExclusion, InCriticalSection
<1> QED BY <1>1, InitInv, NextInv, PTL DEF Spec

LEMMA SendIsCurrent ==
  ASSUME Inv, NEW t \in Threads, Send(t)
  PROVE  t[2] = starts /\ gui = "on"
<1>1. pc[t] = "connect" /\ t \notin cancelled
  BY DEF Send, At, Points
<1>2. gui = "on" /\ ~(t[2] < starts) /\ ~(t[2] > starts)
  BY <1>1 DEF Inv, CancelInv, LeftoversCancelled, StartsInOrder
<1>3. starts \in Int /\ t[2] \in Int
  BY BoundAssumption, ThreadFacts DEF Inv, TInv, TypeOK
<1> QED BY <1>2, <1>3

\* Once stopRouter (GUIRouter.c:492) has cancelled its threads a start sends
\* nothing more, whenever the router is switched on again.
THEOREM OnlyCurrentStartSpeaks == Spec => OnlyCurrentSpeaks
<1>1. Inv /\ [Next]_vars => [\A t \in Threads : Send(t) => t[2] = starts /\ gui = "on"]_vars
  BY SendIsCurrent
<1> QED BY <1>1, InitInv, NextInv, PTL DEF Spec, OnlyCurrentSpeaks
=============================================================================
