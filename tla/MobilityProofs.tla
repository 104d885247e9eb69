--------------------------- MODULE MobilityProofs ---------------------------
(***************************************************************************)
(* Proofs about Mobility for every set of mobile units, networks and       *)
(* paths: the types, that the home agent binds a mobile unit only to an    *)
(* address a foreign agent gave it, and that nobody is registered without  *)
(* the home agent.                                                         *)
(***************************************************************************)
EXTENDS Mobility, LookupProofs, SequenceTheorems, TLAPS

-----------------------------------------------------------------------------
(***************************************************************************)
(* The invariant.                                                          *)
(***************************************************************************)

\* The thread handles packets of a socket that is bound.
AcceptsOnSocket ==
  \A m \in Mobiles :
    mu[m].coa \in {"accept", "advert", "ask", "reply"} => sock[m] # NoSocket

\* The packet it handles is the first one that waits.
HandlesHead ==
  \A m \in Mobiles : mu[m].coa \in {"advert", "ask", "reply"} =>
    /\ queue[m] # <<>>
    /\ mu[m].coa = "advert" => Head(queue[m]).type = "advert"

SocketsDiffer ==
  \A m, x \in Mobiles : m # x /\ sock[m] # NoSocket => sock[m] # sock[x]

HasReply(q) == \E i \in 1 .. Len(q) : q[i].type = "reply"

IsBound(a) == \E x \in Mobiles : <<x, a>> \in bound

\* Relays were granted, and replies, on their way or waiting, were bound.
RelaysWereGranted ==
  \A r \in msgs : r.type = "relay" => <<r.who, <<r.net, r.coa>>>> \in granted

RepliesWereBound ==
  \A r \in msgs : r.type = "reply" => <<r.who, <<r.net, r.coa>>>> \in bound

QueuedWereBound ==
  \A m \in Mobiles : HasReply(queue[m]) => IsBound(sock[m])

TInv == TypeOK /\ AcceptsOnSocket /\ HandlesHead

Granted == RelaysWereGranted /\ BindingsWereGranted

Bound == SocketsDiffer /\ RepliesWereBound /\ QueuedWereBound

-----------------------------------------------------------------------------

LEMMA SeqWaiting ==
  ASSUME NEW q \in Seq(Waiting)
  PROVE  /\ \A e \in Waiting : Append(q, e) \in Seq(Waiting)
         /\ q # <<>> => Tail(q) \in Seq(Waiting) /\ Head(q) \in Waiting
  BY HeadTailProperties, AppendProperties

\* A packet that joins a queue leaves the first one where it is.
LEMMA HeadStays ==
  ASSUME NEW q \in Seq(Waiting), NEW e \in Waiting, q # <<>>
  PROVE  Append(q, e) # <<>> /\ Head(Append(q, e)) = Head(q)
<1>1. Len(q) \in Nat /\ Len(q) > 0 /\ Len(Append(q, e)) = Len(q) + 1
  OBVIOUS
<1>2. Append(q, e)[1] = q[1]
  BY <1>1, AppendProperties
<1> QED BY <1>1, <1>2

SameHead(x) ==
  queue[x] # <<>> => queue'[x] # <<>> /\ Head(queue'[x]) = Head(queue[x])

LEMMA HeadsKept ==
  ASSUME HandlesHead,
         \A x \in Mobiles : \/ mu'[x].coa \in {"down", "start", "accept"}
                            \/ mu'[x].coa = mu[x].coa /\ SameHead(x)
  PROVE  HandlesHead'
  BY DEF HandlesHead, SameHead

LEMMA ReplyInQueue ==
  ASSUME NEW q \in Seq(Waiting)
  PROVE  /\ q # <<>> /\ HasReply(Tail(q)) => HasReply(q)
         /\ q # <<>> /\ Head(q).type = "reply" => HasReply(q)
         /\ \A e \in Waiting : HasReply(Append(q, e)) => HasReply(q) \/ e.type = "reply"
         /\ ~HasReply(<<>>)
<1>1. q # <<>> /\ HasReply(Tail(q)) => HasReply(q)
  <2> SUFFICES ASSUME q # <<>>, NEW i \in 1 .. Len(Tail(q)), Tail(q)[i].type = "reply"
               PROVE  HasReply(q)
    BY DEF HasReply
  <2>1. Len(Tail(q)) = Len(q) - 1 /\ Tail(q)[i] = q[i + 1]
    BY HeadTailProperties
  <2>2. Len(q) \in Nat
    OBVIOUS
  <2>3. i + 1 \in 1 .. Len(q) /\ q[i + 1].type = "reply"
    BY <2>1, <2>2
  <2> QED BY <2>3 DEF HasReply
<1>2. q # <<>> /\ Head(q).type = "reply" => HasReply(q)
  <2> SUFFICES ASSUME q # <<>>, Head(q).type = "reply" PROVE HasReply(q)
    OBVIOUS
  <2>1. 1 \in 1 .. Len(q) /\ Head(q) = q[1]
    OBVIOUS
  <2> QED BY <2>1 DEF HasReply
<1>3. ASSUME NEW e \in Waiting, HasReply(Append(q, e)), ~HasReply(q)
      PROVE  e.type = "reply"
  <2>1. PICK i \in 1 .. Len(Append(q, e)) : Append(q, e)[i].type = "reply"
    BY <1>3 DEF HasReply
  <2>2. Len(Append(q, e)) = Len(q) + 1 /\ Len(q) \in Nat
    OBVIOUS
  <2>3. i \in 1 .. Len(q) => Append(q, e)[i] = q[i]
    BY AppendProperties
  <2>4. i \notin 1 .. Len(q)
    BY <1>3, <2>1, <2>3 DEF HasReply
  <2>5. i = Len(q) + 1
    BY <2>2, <2>4
  <2>6. Append(q, e)[Len(q) + 1] = e
    BY AppendProperties
  <2> QED BY <2>1, <2>5, <2>6
<1>4. ~HasReply(<<>>)
  BY DEF HasReply
<1> QED BY <1>1, <1>2, <1>3, <1>4

LEMMA WaitingFacts ==
  /\ \A t \in {"trigger", "reply", "ip"} : Received(t) \in Waiting
  /\ \A c \in Addresses : [type |-> "advert", coa |-> c] \in Waiting
  BY DEF Received, Waiting

LEMMA AddressFacts ==
  /\ Temporary \subseteq Addresses
  /\ Addresses \in SUBSET Nat
  /\ 0 \notin Addresses
  /\ AtHome \notin Locations /\ Unknown \notin Locations
  BY PathAssumption DEF Temporary, Addresses, AtHome, Unknown, Locations

\* The top of the loop of the thread: what it binds is an address, and an
\* address nobody else has.
LEMMA NextPacketType ==
  ASSUME TInv, NEW m \in Mobiles, NEW u \in MobileUnit, NEW q \in Seq(Waiting),
         NextPacket(m, u, q)
  PROVE  /\ mu' \in [Mobiles -> MobileUnit]
         /\ sock' \in [Mobiles -> Sockets \cup {NoSocket}]
         /\ queue' \in [Mobiles -> Seq(Waiting)]
         /\ AcceptsOnSocket'
         /\ HandlesHead'
<1> USE DEF TInv
<1>0. /\ mu \in [Mobiles -> MobileUnit]
      /\ sock \in [Mobiles -> Sockets \cup {NoSocket}]
      /\ queue \in [Mobiles -> Seq(Waiting)]
  BY DEF TypeOK
<1>1. CASE u.main = "home"
  <2>1. /\ mu' = [mu EXCEPT ![m] = [u EXCEPT !.coa = "down"]]
        /\ queue' = [queue EXCEPT ![m] = q]
        /\ sock' = sock
    BY <1>1 DEF NextPacket
  <2>2. [u EXCEPT !.coa = "down"] \in MobileUnit
    BY DEF MobileUnit
  <2>3. AcceptsOnSocket'
    BY <1>0, <2>1 DEF AcceptsOnSocket, MobileUnit
  <2>4. HandlesHead'
    <3>1. \A x \in Mobiles : IF x = m THEN mu'[x].coa = "down"
                              ELSE mu'[x].coa = mu[x].coa /\ SameHead(x)
      BY <1>0, <2>1 DEF MobileUnit, SameHead
    <3> QED BY <3>1, HeadsKept
  <2> QED BY <1>0, <2>1, <2>2, <2>3, <2>4
<1>2. CASE u.main # "home"
  <2>1. PICK p \in {u.port} \cup Temporary :
          /\ mu' = [mu EXCEPT ![m] = [u EXCEPT !.coa = "accept", !.port = p]]
          /\ sock' = [sock EXCEPT ![m] = <<u.net, p>>]
          /\ queue' = [queue EXCEPT ![m] =
                         IF sock[m] = <<u.net, u.port>> THEN q ELSE <<>>]
    BY <1>2 DEF NextPacket
  <2>2. p \in Addresses
    BY AddressFacts DEF MobileUnit
  <2>3. [u EXCEPT !.coa = "accept", !.port = p] \in MobileUnit
    BY <2>2 DEF MobileUnit
  <2>4. <<u.net, p>> \in Sockets
    BY <2>2 DEF MobileUnit, Sockets
  <2>5. queue' \in [Mobiles -> Seq(Waiting)]
    BY <1>0, <2>1
  <2>6. AcceptsOnSocket'
    BY <1>0, <2>1, <2>4, NoSocketAssumption DEF AcceptsOnSocket
  <2>7. HandlesHead'
    <3>1. \A x \in Mobiles : IF x = m THEN mu'[x].coa = "accept"
                              ELSE mu'[x].coa = mu[x].coa /\ SameHead(x)
      BY <1>0, <2>1 DEF MobileUnit, SameHead
    <3> QED BY <3>1, HeadsKept
  <2> QED BY <1>0, <2>1, <2>3, <2>4, <2>5, <2>6, <2>7
<1> QED BY <1>1, <1>2

LEMMA NextPacketBound ==
  ASSUME TypeOK, SocketsDiffer, QueuedWereBound,
         NEW m \in Mobiles, NEW u \in MobileUnit, NEW q \in Seq(Waiting),
         HasReply(q) => HasReply(queue[m]),
         NextPacket(m, u, q), bound' = bound
  PROVE  /\ SocketsDiffer'
         /\ QueuedWereBound'
         /\ \A x \in Mobiles : mu'[x].registered =
              IF x = m THEN u.registered ELSE mu[x].registered
<1>0. /\ mu \in [Mobiles -> MobileUnit]
      /\ sock \in [Mobiles -> Sockets \cup {NoSocket}]
      /\ queue \in [Mobiles -> Seq(Waiting)]
  BY DEF TypeOK
<1>b. \A a : IsBound(a) => IsBound(a)'
  BY DEF IsBound
<1>1. CASE u.main = "home"
  <2>1. /\ mu' = [mu EXCEPT ![m] = [u EXCEPT !.coa = "down"]]
        /\ queue' = [queue EXCEPT ![m] = q]
        /\ sock' = sock
    BY <1>1 DEF NextPacket
  <2>2. \A x \in Mobiles : HasReply(queue'[x]) => HasReply(queue[x])
    BY <1>0, <2>1
  <2>3. QueuedWereBound'
    BY <2>1, <2>2, <1>b DEF QueuedWereBound, IsBound
  <2>4. SocketsDiffer'
    BY <2>1 DEF SocketsDiffer
  <2> QED BY <1>0, <2>1, <2>3, <2>4 DEF MobileUnit
<1>2. CASE u.main # "home"
  <2>1. PICK p \in {u.port} \cup Temporary :
          /\ Free(m, <<u.net, p>>)
          /\ p # u.port => ~Free(m, <<u.net, u.port>>)
          /\ mu' = [mu EXCEPT ![m] = [u EXCEPT !.coa = "accept", !.port = p]]
          /\ sock' = [sock EXCEPT ![m] = <<u.net, p>>]
          /\ queue' = [queue EXCEPT ![m] =
                         IF sock[m] = <<u.net, u.port>> THEN q ELSE <<>>]
    BY <1>2 DEF NextPacket
  <2>2. SocketsDiffer'
    BY <1>0, <2>1 DEF SocketsDiffer, Free
  <2>3. ASSUME NEW x \in Mobiles, HasReply(queue'[x]) PROVE IsBound(sock'[x])
    <3>1. CASE x # m
      BY <1>0, <2>1, <2>3, <3>1 DEF QueuedWereBound
    <3>2. CASE x = m
      <4>1. sock[m] = <<u.net, u.port>> /\ HasReply(q)
        <5>1. queue'[m] = IF sock[m] = <<u.net, u.port>> THEN q ELSE <<>>
          BY <1>0, <2>1
        <5> QED BY <2>3, <3>2, <5>1 DEF HasReply
      <4>2. sock[m] # NoSocket
        <5>1. <<u.net, u.port>> \in Sockets
          BY DEF MobileUnit, Sockets
        <5> QED BY <4>1, <5>1, NoSocketAssumption
      <4>3. Free(m, <<u.net, u.port>>)
        BY <4>1, <4>2 DEF SocketsDiffer, Free
      <4>4. sock'[m] = sock[m]
        BY <1>0, <2>1, <4>1, <4>3
      <4> QED BY <3>2, <4>1, <4>4 DEF QueuedWereBound
    <3> QED BY <3>1, <3>2
  <2>4. QueuedWereBound'
    BY <2>3, <1>b DEF QueuedWereBound, IsBound
  <2> QED BY <1>0, <2>1, <2>2, <2>4 DEF MobileUnit
<1> QED BY <1>1, <1>2

-----------------------------------------------------------------------------
(***************************************************************************)
(* The types.                                                              *)
(***************************************************************************)

LEMMA InitTypes == Init => TInv
<1> SUFFICES ASSUME Init PROVE TInv
  OBVIOUS
<1>1. mu \in [Mobiles -> MobileUnit]
  <2>1. \A p \in Temporary, b \in BOOLEAN : NewUnit(p, b) \in MobileUnit
    BY AddressFacts DEF NewUnit, MobileUnit
  <2> QED BY <2>1 DEF Init
<1>2. AcceptsOnSocket
  BY DEF Init, NewUnit, AcceptsOnSocket
<1>3. <<>> \in Seq(Waiting)
  OBVIOUS
<1>4. HandlesHead
  BY DEF Init, NewUnit, HandlesHead
<1> QED BY <1>1, <1>2, <1>3, <1>4, PathAssumption DEF Init, TypeOK, TInv

\* What the two threads of a mobile unit send.
LEMMA RequestTypes ==
  ASSUME NEW m \in Mobiles, NEW u \in MobileUnit
  PROVE  /\ RequestOf(m, u) \subseteq PacketRecords
         /\ DeregistrationOf(u) \subseteq PacketRecords
         /\ \A r \in RequestOf(m, u) \cup DeregistrationOf(u) :
              r.type \in {"request", "deregister"}
  BY DEF RequestOf, DeregistrationOf, Packet, PacketRecords, MobileUnit

\* What a step of the main thread does to its unit: it registers nobody, and
\* the other thread, where it handles packets, stays where it is.
LEMMA MainThreadStep ==
  ASSUME TypeOK, NEW m \in Mobiles, MainThread(m)
  PROVE  \E u \in MobileUnit :
           /\ mu' = [mu EXCEPT ![m] = u]
           /\ u.registered => mu[m].registered
           /\ u.coa \in {"down", "start"} \/ (u.coa = mu[m].coa /\ ~Finish(m))
<1> DEFINE Quiet(u) ==
      /\ u.registered => mu[m].registered
      /\ u.coa \in {"down", "start"} \/ (u.coa = mu[m].coa /\ ~Finish(m))
<1> SUFFICES \E u \in MobileUnit : mu' = [mu EXCEPT ![m] = u] /\ Quiet(u)
  OBVIOUS
<1>0. mu \in [Mobiles -> MobileUnit] /\ mu[m] \in MobileUnit
  BY DEF TypeOK
<1>1. CASE RegisterAtHome(m) /\ ~Finish(m)
  <2> DEFINE u == [mu[m] EXCEPT !.haveHome = TRUE]
  <2>1. mu' = [mu EXCEPT ![m] = u]
    BY <1>0, <1>1 DEF RegisterAtHome
  <2>2. u \in MobileUnit /\ Quiet(u)
    BY <1>0, <1>1 DEF MobileUnit
  <2> QED BY <2>1, <2>2
<1>2. CASE LeaveHome(m) /\ ~Finish(m)
  <2> DEFINE u == [mu[m] EXCEPT !.main = "leaving", !.coa = "start"]
  <2>1. mu' = [mu EXCEPT ![m] = u]
    BY <1>0, <1>2 DEF LeaveHome
  <2>2. u \in MobileUnit /\ Quiet(u)
    BY <1>0, <1>2 DEF MobileUnit
  <2> QED BY <2>1, <2>2
<1>3. CASE Leave(m) /\ ~Finish(m)
  <2> DEFINE u == [mu[m] EXCEPT !.main = "moving", !.moving = TRUE]
  <2>1. mu' = [mu EXCEPT ![m] = u]
    BY <1>0, <1>3 DEF Leave
  <2>2. u \in MobileUnit /\ Quiet(u)
    BY <1>0, <1>3 DEF MobileUnit
  <2> QED BY <2>1, <2>2
<1>4. CASE Deregister(m) /\ ~Finish(m)
  <2> DEFINE u == [mu[m] EXCEPT !.main = IF mu[m].registered THEN "sending" ELSE "lifetime",
                           !.registered = FALSE]
  <2>1. mu' = [mu EXCEPT ![m] = u]
    BY <1>0, <1>4 DEF Deregister
  <2>2. u \in MobileUnit /\ Quiet(u)
    BY <1>0, <1>4 DEF MobileUnit
  <2> QED BY <2>1, <2>2
<1>5. CASE ClearLifetime(m) /\ ~Finish(m)
  <2> DEFINE u == [mu[m] EXCEPT !.main = "previous", !.life = FALSE]
  <2>1. mu' = [mu EXCEPT ![m] = u]
    BY <1>0, <1>5 DEF ClearLifetime
  <2>2. u \in MobileUnit /\ Quiet(u)
    BY <1>0, <1>5 DEF MobileUnit
  <2> QED BY <2>1, <2>2
<1>6. CASE ClearPrevious(m) /\ ~Finish(m)
  <2> DEFINE u == [mu[m] EXCEPT !.main = "leaving", !.previously = FALSE]
  <2>1. mu' = [mu EXCEPT ![m] = u]
    BY <1>0, <1>6 DEF ClearPrevious
  <2>2. u \in MobileUnit /\ Quiet(u)
    BY <1>0, <1>6 DEF MobileUnit
  <2> QED BY <2>1, <2>2
<1>7. CASE ClearRegistered(m) /\ ~Finish(m)
  <2> DEFINE u == [mu[m] EXCEPT !.main = "between", !.registered = FALSE]
  <2>1. mu' = [mu EXCEPT ![m] = u]
    BY <1>0, <1>7 DEF ClearRegistered
  <2>2. u \in MobileUnit /\ Quiet(u)
    BY <1>0, <1>7 DEF MobileUnit
  <2> QED BY <2>1, <2>2
<1>8. CASE Finish(m)
  <2> DEFINE u == [mu[m] EXCEPT !.main = "done", !.coa = "down"]
  <2>1. mu' = [mu EXCEPT ![m] = u]
    BY <1>0, <1>8 DEF Finish
  <2>2. u \in MobileUnit /\ Quiet(u)
    BY <1>0, <1>8 DEF MobileUnit
  <2> QED BY <2>1, <2>2
<1>9. CASE ArriveHome(m) /\ ~Finish(m)
  <2> DEFINE u == [mu[m] EXCEPT !.main = "home", !.leg = mu[m].leg + 1]
  <2>1. mu' = [mu EXCEPT ![m] = u]
    BY <1>0, <1>9 DEF ArriveHome
  <2>2. mu[m].leg + 1 \in Nat
    BY <1>0 DEF MobileUnit
  <2>3. u \in MobileUnit
    BY <1>0, <2>2 DEF MobileUnit
  <2>4. Quiet(u)
    BY <1>0, <1>9 DEF MobileUnit
  <2> QED BY <2>1, <2>3, <2>4
<1>10. CASE Arrive(m) /\ ~Finish(m)
  <2> DEFINE u == [mu[m] EXCEPT !.main = "trigger", !.leg = mu[m].leg + 1,
                           !.net = Path[m][mu[m].leg + 1]]
  <2>1. mu' = [mu EXCEPT ![m] = u]
    BY <1>0, <1>10 DEF Arrive
  <2>2. u \in MobileUnit /\ Quiet(u)
    BY <1>0, <1>10 DEF MobileUnit, Arrive
  <2> QED BY <2>1, <2>2
<1>11. CASE SendTrigger(m) /\ ~Finish(m)
  <2> DEFINE u == [mu[m] EXCEPT !.main = "wait", !.moving = FALSE]
  <2>1. mu' = [mu EXCEPT ![m] = u]
    BY <1>0, <1>11 DEF SendTrigger
  <2>2. u \in MobileUnit /\ Quiet(u)
    BY <1>0, <1>11 DEF MobileUnit
  <2> QED BY <2>1, <2>2
<1>12. CASE Reside(m) /\ ~Finish(m)
  <2> DEFINE u == [mu[m] EXCEPT !.main = "reside"]
  <2>1. mu' = [mu EXCEPT ![m] = u]
    BY <1>0, <1>12 DEF Reside
  <2>2. u \in MobileUnit /\ Quiet(u)
    BY <1>0, <1>12 DEF MobileUnit
  <2> QED BY <2>1, <2>2
<1> QED BY <1>1, <1>2, <1>3, <1>4, <1>5, <1>6, <1>7, <1>8,
           <1>9, <1>10, <1>11, <1>12 DEF MainThread

\* The rest of what the main thread may touch.
LEMMA MainThreadRest ==
  ASSUME TypeOK, NEW m \in Mobiles, MainThread(m)
  PROVE  /\ UNCHANGED agentVars
         /\ msgs' \subseteq msgs \cup DeregistrationOf(mu[m])
                                  \cup {Packet("home", Home, m, 0)}
         /\ IF Finish(m) THEN sock' = [sock EXCEPT ![m] = NoSocket] ELSE sock' = sock
         /\ \/ queue' = queue
            \/ Finish(m) /\ queue' = [queue EXCEPT ![m] = <<>>]
            \/ queue' = [queue EXCEPT ![m] = Append(queue[m], Received("trigger"))]
  BY DEF MainThread, RegisterAtHome, LeaveHome, Leave, Deregister, ClearLifetime,
         ClearPrevious, ClearRegistered, Finish, ArriveHome, Arrive, SendTrigger, Reside

LEMMA MainThreadTypes ==
  ASSUME TInv, NEW m \in Mobiles, MainThread(m)
  PROVE  TInv'
<1>0. /\ TypeOK /\ mu \in [Mobiles -> MobileUnit] /\ mu[m] \in MobileUnit
      /\ sock \in [Mobiles -> Sockets \cup {NoSocket}]
      /\ queue \in [Mobiles -> Seq(Waiting)] /\ queue[m] \in Seq(Waiting)
  BY DEF TInv, TypeOK
<1>1. PICK u \in MobileUnit :
        /\ mu' = [mu EXCEPT ![m] = u]
        /\ u.coa \in {"down", "start"} \/ (u.coa = mu[m].coa /\ ~Finish(m))
  BY <1>0, MainThreadStep
<1>h. HandlesHead'
  <2>1. ~Finish(m) => \A x \in Mobiles : SameHead(x)
    <3>1. queue[m] # <<>> => /\ Append(queue[m], Received("trigger")) # <<>>
                             /\ Head(Append(queue[m], Received("trigger"))) = Head(queue[m])
      BY <1>0, WaitingFacts, HeadStays
    <3> QED BY <1>0, <3>1, MainThreadRest DEF SameHead
  <2>2. \A x \in Mobiles \ {m} : mu'[x].coa = mu[x].coa /\ SameHead(x)
    BY <1>0, <1>1, MainThreadRest DEF SameHead
  <2>3. mu'[m].coa = u.coa
    BY <1>0, <1>1
  <2> QED BY <1>1, <2>1, <2>2, <2>3, HeadsKept DEF TInv
<1>2. sock' \in [Mobiles -> Sockets \cup {NoSocket}] /\ AcceptsOnSocket'
  <2>1. IF Finish(m) THEN sock' = [sock EXCEPT ![m] = NoSocket] ELSE sock' = sock
    BY <1>0, MainThreadRest
  <2> QED BY <1>0, <1>1, <2>1 DEF TInv, AcceptsOnSocket
<1>3. queue' \in [Mobiles -> Seq(Waiting)]
  <2>1. <<>> \in Seq(Waiting) /\ Append(queue[m], Received("trigger")) \in Seq(Waiting)
    BY <1>0, WaitingFacts, SeqWaiting
  <2> QED BY <1>0, <2>1, MainThreadRest
<1>4. msgs' \subseteq PacketRecords
  <2>1. Packet("home", Home, m, 0) \in PacketRecords
    BY DEF Packet, PacketRecords
  <2> QED BY <1>0, <2>1, MainThreadRest, RequestTypes DEF TypeOK
<1>5. UNCHANGED agentVars
  BY <1>0, MainThreadRest
<1> QED BY <1>0, <1>1, <1>h, <1>2, <1>3, <1>4, <1>5 DEF TInv, TypeOK, agentVars

\* Every step of the care-of thread goes on with the packet it handles or ends
\* at the top of its loop; it has no reply left that it had not before, and
\* registers the mobile unit only if it had one.
LEMMA CareOfThreadStep ==
  ASSUME TInv, NEW m \in Mobiles, CareOfThread(m)
  PROVE  /\ UNCHANGED agentVars
         /\ msgs' \subseteq msgs \cup RequestOf(m, mu[m])
         /\ \E u \in MobileUnit :
              /\ u.registered => mu[m].registered \/ HasReply(queue[m])
              /\ \/ /\ GoesOn(m, u) /\ queue[m] # <<>>
                    /\ mu[m].coa \in {"accept", "advert"}
                    /\ u.coa \in {"advert", "ask", "reply"}
                    /\ u.coa = "advert" => Head(queue[m]).type = "advert"
                 \/ \E q \in Seq(Waiting) :
                      NextPacket(m, u, q) /\ (HasReply(q) => HasReply(queue[m]))
<1>0. /\ mu[m] \in MobileUnit /\ queue[m] \in Seq(Waiting)
      /\ sock[m] \in Sockets \cup {NoSocket}
  BY DEF TInv, TypeOK
<1>a. UNCHANGED agentVars /\ msgs' \subseteq msgs \cup RequestOf(m, mu[m])
  BY DEF CareOfThread, StartCareOfAddress, TakeTrigger, HearAdvert, IgnoreAdvert,
         TakeAdvert, Ask, TakeReply, MarkReply, TakeIP
<1> DEFINE BecomesRegistered(u) == u.registered => mu[m].registered \/ HasReply(queue[m])
           On(u) == /\ GoesOn(m, u) /\ queue[m] # <<>>
                    /\ mu[m].coa \in {"accept", "advert"}
                    /\ u.coa \in {"advert", "ask", "reply"}
                    /\ u.coa = "advert" => Head(queue[m]).type = "advert"
           Top(u, q) == NextPacket(m, u, q) /\ (HasReply(q) => HasReply(queue[m]))
<1> SUFFICES \E u \in MobileUnit : BecomesRegistered(u) /\ (On(u) \/ \E q \in Seq(Waiting) : Top(u, q))
  BY <1>a
<1>t. queue[m] # <<>> => /\ Tail(queue[m]) \in Seq(Waiting)
                         /\ Head(queue[m]) \in Waiting
                         /\ HasReply(Tail(queue[m])) => HasReply(queue[m])
  BY <1>0, SeqWaiting, ReplyInQueue
<1>h. mu[m].coa \in {"advert", "ask", "reply"} =>
        /\ queue[m] # <<>> /\ sock[m] \in Sockets
        /\ mu[m].coa = "advert" => Head(queue[m]).type = "advert"
  BY <1>0 DEF TInv, HandlesHead, AcceptsOnSocket
<1>1. CASE StartCareOfAddress(m)
  <2>1. Top(mu[m], queue[m])
    BY <1>1 DEF StartCareOfAddress
  <2> QED BY <1>0, <2>1
<1>2. CASE TakeTrigger(m) \/ (HearAdvert(m) /\ mu[m].moving) \/ IgnoreAdvert(m)
  <2>1. NextPacket(m, mu[m], Tail(queue[m])) /\ queue[m] # <<>>
    BY <1>2, <1>h DEF TakeTrigger, HearAdvert, IgnoreAdvert, Accepts
  <2> QED BY <1>0, <1>t, <2>1
<1>3. CASE HearAdvert(m) /\ ~mu[m].moving
  <2> DEFINE u == [mu[m] EXCEPT !.coa = "advert"]
  <2>1. u \in MobileUnit /\ u.registered = mu[m].registered /\ u.coa = "advert"
    BY <1>0 DEF MobileUnit
  <2>2. On(u)
    BY <1>3, <2>1 DEF HearAdvert, Accepts
  <2> QED BY <2>1, <2>2
<1>4. CASE TakeAdvert(m)
  <2>1. sock[m] \in Sockets /\ queue[m] # <<>> /\ Head(queue[m]).type = "advert"
    BY <1>4, <1>h DEF TakeAdvert
  <2>2. PICK n \in Nets \cup {Off} : sock[m][1] = n
    BY <2>1 DEF Sockets
  <2>3. PICK c \in Addresses : Head(queue[m]).coa = c
    BY <1>t, <2>1 DEF Waiting, Received
  <2> DEFINE v == [mu[m] EXCEPT !.coa = "ask"]
             w == [mu[m] EXCEPT !.coa = "ask", !.life = TRUE,
                                !.net = n, !.router = n, !.port = c]
  <2>4. v \in MobileUnit /\ v.registered = mu[m].registered /\ v.coa = "ask"
    BY <1>0 DEF MobileUnit
  <2>5. w \in MobileUnit /\ w.registered = mu[m].registered /\ w.coa = "ask"
    BY <1>0 DEF MobileUnit
  <2>6. mu[m].coa = "advert" /\ GoesOn(m, IF mu[m].previously THEN v ELSE w)
    BY <1>4, <2>2, <2>3 DEF TakeAdvert
  <2> HIDE DEF v, w
  <2>7. On(v) \/ On(w)
    BY <2>1, <2>4, <2>5, <2>6
  <2> QED BY <2>4, <2>5, <2>7
<1>5. CASE Ask(m)
  <2> DEFINE q == Append(Tail(queue[m]), Received("trigger"))
  <2>1. queue[m] # <<>>
    BY <1>5, <1>h DEF Ask
  <2>2. q \in Seq(Waiting)
    BY <1>t, <2>1, WaitingFacts, SeqWaiting
  <2>3. HasReply(q) => HasReply(queue[m])
    <3>1. Received("trigger").type # "reply"
      BY DEF Received
    <3> QED BY <1>t, <2>1, <3>1, WaitingFacts, ReplyInQueue
  <2>4. Top(mu[m], q)
    BY <1>5, <2>3 DEF Ask
  <2> QED BY <1>0, <2>2, <2>4
<1>6. CASE TakeReply(m)
  <2> DEFINE u == [mu[m] EXCEPT !.coa = "reply", !.registered = TRUE]
  <2>1. u \in MobileUnit /\ u.coa = "reply"
    BY <1>0 DEF MobileUnit
  <2>2. queue[m] # <<>> /\ HasReply(queue[m])
    BY <1>0, <1>6, ReplyInQueue DEF TakeReply, Accepts
  <2>3. On(u)
    BY <1>6, <2>1, <2>2 DEF TakeReply, Accepts
  <2> QED BY <2>1, <2>2, <2>3
<1>7. CASE MarkReply(m)
  <2> DEFINE u == [mu[m] EXCEPT !.previously = TRUE, !.recent = TRUE]
  <2>1. u \in MobileUnit /\ u.registered = mu[m].registered
    BY <1>0 DEF MobileUnit
  <2>2. queue[m] # <<>> /\ NextPacket(m, u, Tail(queue[m]))
    BY <1>7, <1>h DEF MarkReply
  <2> QED BY <1>t, <2>1, <2>2
<1>8. CASE TakeIP(m)
  <2> DEFINE u == IF RunOut(m) THEN [mu[m] EXCEPT !.registered = FALSE] ELSE mu[m]
             v == [mu[m] EXCEPT !.registered = FALSE]
  <2>0. v \in MobileUnit /\ ~v.registered
    BY <1>0 DEF MobileUnit
  <2>1. u \in MobileUnit /\ BecomesRegistered(u)
    <3>1. CASE RunOut(m)
      <4>1. u = v
        BY <3>1
      <4> QED BY <4>1, <2>0
    <3>2. CASE ~RunOut(m)
      <4>1. u = mu[m]
        BY <3>2
      <4> QED BY <4>1, <1>0
    <3> QED BY <3>1, <3>2
  <2>2. queue[m] # <<>> /\ NextPacket(m, u, Tail(queue[m]))
    BY <1>8 DEF TakeIP, Accepts
  <2> HIDE DEF u
  <2> QED BY <1>t, <2>1, <2>2
<1> QED BY <1>1, <1>2, <1>3, <1>4, <1>5, <1>6, <1>7, <1>8 DEF CareOfThread

\* What going on with a packet leaves alone.
LEMMA GoesOnStep ==
  ASSUME TInv, NEW m \in Mobiles, NEW u \in MobileUnit, GoesOn(m, u), queue[m] # <<>>,
         mu[m].coa \in {"accept", "advert"}, u.coa \in {"advert", "ask", "reply"},
         u.coa = "advert" => Head(queue[m]).type = "advert"
  PROVE  /\ mu' \in [Mobiles -> MobileUnit]
         /\ UNCHANGED <<sock, queue>>
         /\ AcceptsOnSocket' /\ HandlesHead'
         /\ \A x \in Mobiles : mu'[x].registered =
              IF x = m THEN u.registered ELSE mu[x].registered
<1>1. mu \in [Mobiles -> MobileUnit]
  BY DEF TypeOK, TInv
<1>2. mu' = [mu EXCEPT ![m] = u] /\ UNCHANGED <<sock, queue>>
  BY DEF GoesOn
<1>3. AcceptsOnSocket' /\ HandlesHead'
  BY <1>1, <1>2 DEF TInv, AcceptsOnSocket, HandlesHead
<1> QED BY <1>1, <1>2, <1>3

LEMMA CareOfThreadTypes ==
  ASSUME TInv, NEW m \in Mobiles, CareOfThread(m)
  PROVE  TInv'
<1>0. TypeOK /\ mu[m] \in MobileUnit
  BY DEF TInv, TypeOK
<1>1. UNCHANGED agentVars /\ msgs' \subseteq PacketRecords
  BY <1>0, CareOfThreadStep, RequestTypes DEF TypeOK
<1>2. /\ mu' \in [Mobiles -> MobileUnit]
      /\ sock' \in [Mobiles -> Sockets \cup {NoSocket}]
      /\ queue' \in [Mobiles -> Seq(Waiting)]
      /\ AcceptsOnSocket' /\ HandlesHead'
  <2>1. PICK u \in MobileUnit :
          \/ /\ GoesOn(m, u) /\ queue[m] # <<>>
             /\ mu[m].coa \in {"accept", "advert"}
             /\ u.coa \in {"advert", "ask", "reply"}
             /\ u.coa = "advert" => Head(queue[m]).type = "advert"
          \/ \E q \in Seq(Waiting) : NextPacket(m, u, q)
    BY CareOfThreadStep
  <2>2. CASE \E q \in Seq(Waiting) : NextPacket(m, u, q)
    BY <2>2, NextPacketType
  <2>3. CASE ~\E q \in Seq(Waiting) : NextPacket(m, u, q)
    BY <1>0, <2>1, <2>3, GoesOnStep DEF TypeOK
  <2> QED BY <2>2, <2>3
<1> QED BY <1>0, <1>1, <1>2 DEF TInv, TypeOK, agentVars

\* A packet that arrives at an address joins the queue of its socket.
LEMMA DeliverType ==
  ASSUME TInv, NEW a, NEW p \in Waiting, Deliver(a, p)
  PROVE  /\ queue' \in [Mobiles -> Seq(Waiting)]
         /\ mu' = mu => HandlesHead'
<1>1. \A m \in Mobiles : queue[m] \in Seq(Waiting)
  BY DEF TInv, TypeOK
<1>2. \A m \in Mobiles : Append(queue[m], p) \in Seq(Waiting)
  BY <1>1, SeqWaiting
<1>3. \A m \in Mobiles : SameHead(m)
  BY <1>1, HeadStays DEF Deliver, SameHead
<1> QED BY <1>1, <1>2, <1>3, HeadsKept DEF Deliver, TInv

\* The steps that leave the mobile units alone but for what waits at their
\* sockets.
LEMMA RouterTypes ==
  ASSUME TInv,
         \/ \E r \in msgs : \/ HandleRequest(r) \/ HandleDeregistration(r)
                            \/ PassReply(r) \/ HandleHomeRequest(r)
                            \/ HandleRelay(r) \/ Lose(r)
         \/ \E n \in Nets : \/ MakeAdvert(n)
                            \/ \E m \in Mobiles : Advertise(n, m)
                            \/ \E c \in Addresses : FreeCareOfAddress(n, c)
         \/ \E m \in Mobiles : Tunnel(m)
  PROVE  TInv'
<1> USE DEF TInv
<1>1. ASSUME NEW r \in msgs, HandleRequest(r) PROVE TInv'
  <2>1. r.net \in Nets /\ r.who \in Mobiles /\ r.coa \in Addresses
    BY <1>1 DEF HandleRequest, TypeOK, PacketRecords
  <2>2. /\ fa' \in [Nets -> [Addresses -> Mobiles \cup {Nobody}]]
        /\ taken' \in [Nets -> SUBSET Addresses]
        /\ granted' \subseteq Mobiles \X Locations
    <3>1. CASE fa[r.net][r.coa] \in {Nobody, r.who}
      <4>1. fa' = [fa EXCEPT ![r.net] = [fa[r.net] EXCEPT ![r.coa] = r.who]]
        BY <1>1, <2>1, <3>1 DEF HandleRequest, TypeOK
      <4>2. taken' = [taken EXCEPT ![r.net] = taken[r.net] \cup {r.coa}]
        BY <1>1, <3>1 DEF HandleRequest
      <4>3. granted' = granted \cup {<<r.who, <<r.net, r.coa>>>>}
        BY <1>1, <3>1 DEF HandleRequest
      <4> QED BY <2>1, <4>1, <4>2, <4>3 DEF TypeOK, Locations
    <3>2. CASE fa[r.net][r.coa] \notin {Nobody, r.who}
      BY <1>1, <3>2 DEF HandleRequest, TypeOK
    <3> QED BY <3>1, <3>2
  <2>3. Relayed(r) \subseteq PacketRecords
    BY <2>1 DEF Relayed, Packet, PacketRecords
  <2> QED BY <1>1, <2>2, <2>3 DEF HandleRequest, TypeOK, AcceptsOnSocket, HandlesHead, unitVars
<1>2. ASSUME NEW r \in msgs, HandleDeregistration(r) PROVE TInv'
  <2>1. r.net \in Nets /\ r.coa \in Addresses
    BY <1>2 DEF HandleDeregistration, TypeOK, PacketRecords
  <2>2. fa' = [fa EXCEPT ![r.net] = [fa[r.net] EXCEPT ![r.coa] = Nobody]]
    BY <1>2, <2>1 DEF HandleDeregistration, TypeOK
  <2> QED BY <1>2, <2>1, <2>2 DEF HandleDeregistration, TypeOK, AcceptsOnSocket, HandlesHead, unitVars
<1>3. ASSUME NEW r \in msgs, PassReply(r) PROVE TInv'
  <2>1. queue' \in [Mobiles -> Seq(Waiting)] /\ HandlesHead'
    BY <1>3, WaitingFacts, DeliverType DEF PassReply, agentVars
  <2> QED BY <1>3, <2>1 DEF PassReply, TypeOK, AcceptsOnSocket, agentVars
<1>4. ASSUME NEW r \in msgs, HandleHomeRequest(r) PROVE TInv'
  BY <1>4 DEF HandleHomeRequest, TypeOK, AcceptsOnSocket, HandlesHead, unitVars, PacketRecords
<1>5. ASSUME NEW r \in msgs, HandleRelay(r) PROVE TInv'
  <2>1. r.net \in Nets /\ r.who \in Mobiles /\ r.coa \in Addresses
    BY <1>5 DEF HandleRelay, TypeOK, PacketRecords
  <2>2. BindingOf(r) \in Locations
    BY <2>1 DEF BindingOf, Locations
  <2>3. Packet("reply", r.net, r.who, r.coa) \in PacketRecords
    BY <2>1 DEF Packet, PacketRecords
  <2> QED BY <1>5, <2>1, <2>2, <2>3 DEF HandleRelay, TypeOK, AcceptsOnSocket, HandlesHead, unitVars
<1>6. ASSUME NEW r \in msgs, Lose(r) PROVE TInv'
  BY <1>6, PathAssumption DEF Lose, TypeOK, AcceptsOnSocket, HandlesHead, unitVars
<1>7. ASSUME NEW n \in Nets, MakeAdvert(n) PROVE TInv'
  <2>1. UntakenAddresses(n) \in SUBSET Nat /\ UntakenAddresses(n) \subseteq Addresses
    BY AddressFacts DEF UntakenAddresses
  <2>2. UntakenAddresses(n) # {} => FirstOf(UntakenAddresses(n)) \in Addresses
    BY <2>1, FirstOfIn
  <2> QED BY <1>7, <2>2 DEF MakeAdvert, TypeOK, AcceptsOnSocket, HandlesHead, unitVars
<1>8. ASSUME NEW n \in Nets, NEW m \in Mobiles, Advertise(n, m) PROVE TInv'
  <2>1. offer[n] \in Addresses
    BY <1>8 DEF Advertise, TypeOK
  <2>2. queue' \in [Mobiles -> Seq(Waiting)] /\ HandlesHead'
    BY <1>8, <2>1, WaitingFacts, DeliverType DEF Advertise, agentVars
  <2> QED BY <1>8, <2>2 DEF Advertise, TypeOK, AcceptsOnSocket, agentVars
<1>9. ASSUME NEW n \in Nets, NEW c \in Addresses, FreeCareOfAddress(n, c) PROVE TInv'
  BY <1>9 DEF FreeCareOfAddress, TypeOK, AcceptsOnSocket, HandlesHead, unitVars
<1>10. ASSUME NEW m \in Mobiles, Tunnel(m) PROVE TInv'
  <2>1. queue' \in [Mobiles -> Seq(Waiting)] /\ HandlesHead'
    BY <1>10, WaitingFacts, DeliverType DEF Tunnel, agentVars
  <2> QED BY <1>10, <2>1, PathAssumption DEF Tunnel, TypeOK, AcceptsOnSocket
<1> QED BY <1>1, <1>2, <1>3, <1>4, <1>5, <1>6, <1>7, <1>8, <1>9, <1>10

LEMMA ExpireTypes ==
  ASSUME TInv, NEW m \in Mobiles, Expire(m)
  PROVE  TInv'
<1> DEFINE u == [mu[m] EXCEPT !.recent = FALSE]
<1>0. mu \in [Mobiles -> MobileUnit] /\ mu[m] \in MobileUnit
  BY DEF TInv, TypeOK
<1>1. mu' = [mu EXCEPT ![m] = u]
  BY <1>0 DEF Expire
<1>2. u \in MobileUnit /\ u.coa = mu[m].coa
  BY <1>0 DEF MobileUnit
<1>3. AcceptsOnSocket' /\ HandlesHead'
  BY <1>0, <1>1, <1>2 DEF TInv, AcceptsOnSocket, HandlesHead, Expire
<1> QED BY <1>0, <1>1, <1>2, <1>3 DEF Expire, TInv, TypeOK, agentVars

\* Every step keeps the types.
LEMMA StepTypes == TInv /\ [Next]_vars => TInv'
<1> SUFFICES ASSUME TInv, [Next]_vars PROVE TInv'
  OBVIOUS
<1>1. CASE UNCHANGED vars
  BY <1>1 DEF vars, TInv, TypeOK, AcceptsOnSocket, HandlesHead
<1>2. CASE Next
  BY <1>2, MainThreadTypes, CareOfThreadTypes, ExpireTypes, RouterTypes DEF Next, Routers, Handle
<1> QED BY <1>1, <1>2

\* The state of the model has its types, for all mobile units, networks and
\* paths (MCMobility checks two units and one foreign network).
THEOREM TypeCorrect == Spec => []TypeOK
<1>1. TInv => TypeOK
  BY DEF TInv
<1> QED BY InitTypes, StepTypes, <1>1, PTL DEF Spec

-----------------------------------------------------------------------------
(***************************************************************************)
(* Bindings were granted.                                                  *)
(***************************************************************************)

\* The history of grants only grows, so what is neither a new relay nor a new
\* binding needs no second look.
LEMMA GrantedKept ==
  ASSUME Granted, granted \subseteq granted', binding' = binding,
         \A r \in msgs' \ msgs : r.type # "relay"
  PROVE  Granted'
  BY DEF Granted, RelaysWereGranted, BindingsWereGranted

LEMMA StepGranted == TInv /\ Granted /\ [Next]_vars => Granted'
<1> SUFFICES ASSUME TInv, Granted, [Next]_vars PROVE Granted'
  OBVIOUS
<1> USE DEF TInv
<1>0. CASE UNCHANGED vars
  BY <1>0, GrantedKept DEF vars
<1>1. ASSUME NEW m \in Mobiles, MainThread(m) PROVE Granted'
  <2>1. mu[m] \in MobileUnit
    BY DEF TypeOK
  <2>2. /\ UNCHANGED agentVars
        /\ msgs' \subseteq msgs \cup DeregistrationOf(mu[m])
                                 \cup {Packet("home", Home, m, 0)}
    BY <1>1, MainThreadRest
  <2>3. \A r \in msgs' \ msgs : r.type # "relay"
    BY <2>1, <2>2, RequestTypes DEF Packet
  <2> QED BY <2>2, <2>3, GrantedKept DEF agentVars
<1>2. ASSUME NEW m \in Mobiles, CareOfThread(m) PROVE Granted'
  <2>1. mu[m] \in MobileUnit
    BY DEF TypeOK
  <2>2. UNCHANGED agentVars /\ msgs' \subseteq msgs \cup RequestOf(m, mu[m])
    BY <1>2, CareOfThreadStep
  <2>3. \A r \in msgs' \ msgs : r.type # "relay"
    BY <2>1, <2>2, RequestTypes
  <2> QED BY <2>2, <2>3, GrantedKept DEF agentVars
<1>3. ASSUME NEW m \in Mobiles, Expire(m) \/ Tunnel(m) PROVE Granted'
  BY <1>3, GrantedKept DEF Expire, Tunnel, agentVars
<1>4. ASSUME NEW n \in Nets,
             \/ MakeAdvert(n)
             \/ \E m \in Mobiles : Advertise(n, m)
             \/ \E c \in Addresses : FreeCareOfAddress(n, c)
      PROVE  Granted'
  BY <1>4, GrantedKept DEF MakeAdvert, Advertise, FreeCareOfAddress, agentVars
<1>5. ASSUME NEW r \in msgs, HandleRequest(r) PROVE Granted'
  <2>1. /\ granted \subseteq granted' /\ UNCHANGED binding
        /\ msgs' = (msgs \ {r}) \cup Relayed(r)
    BY <1>5 DEF HandleRequest
  <2>2. ASSUME NEW x \in msgs', x.type = "relay"
        PROVE  <<x.who, <<x.net, x.coa>>>> \in granted'
    <3>1. CASE x \in msgs
      BY <2>1, <2>2, <3>1 DEF Granted, RelaysWereGranted
    <3>2. CASE x \notin msgs
      <4>1. /\ fa[r.net][r.coa] \in {Nobody, r.who}
            /\ x = Packet("relay", r.net, r.who, r.coa)
        BY <2>1, <3>2 DEF Relayed
      <4>2. granted' = granted \cup {<<r.who, <<r.net, r.coa>>>>}
        BY <1>5, <4>1 DEF HandleRequest
      <4> QED BY <4>1, <4>2 DEF Packet
    <3> QED BY <3>1, <3>2
  <2> QED BY <2>1, <2>2 DEF Granted, RelaysWereGranted, BindingsWereGranted
<1>6. ASSUME NEW r \in msgs,
             HandleDeregistration(r) \/ PassReply(r) \/ Lose(r)
      PROVE  Granted'
  BY <1>6, GrantedKept DEF HandleDeregistration, PassReply, Lose, agentVars
<1>7. ASSUME NEW r \in msgs, HandleHomeRequest(r) PROVE Granted'
  <2>1. r.who \in Mobiles
    BY <1>7 DEF HandleHomeRequest, TypeOK, PacketRecords
  <2>2. \A m \in Mobiles : binding'[m] = IF m = r.who THEN AtHome ELSE binding[m]
    BY <1>7, <2>1 DEF HandleHomeRequest, TypeOK
  <2> QED BY <1>7, <2>2, AddressFacts
          DEF HandleHomeRequest, Granted, RelaysWereGranted, BindingsWereGranted
<1>8. ASSUME NEW r \in msgs, HandleRelay(r) PROVE Granted'
  <2>1. r.who \in Mobiles /\ <<r.who, BindingOf(r)>> \in granted
    BY <1>8 DEF HandleRelay, TypeOK, PacketRecords, Granted, RelaysWereGranted, BindingOf
  <2>2. \A m \in Mobiles : binding'[m] = IF m = r.who THEN BindingOf(r) ELSE binding[m]
    BY <1>8, <2>1 DEF HandleRelay, TypeOK
  <2>3. \A x \in msgs' \ msgs : x.type # "relay"
    BY <1>8 DEF HandleRelay, Packet
  <2> QED BY <1>8, <2>1, <2>2, <2>3
          DEF HandleRelay, Granted, RelaysWereGranted, BindingsWereGranted
<1> QED BY <1>0, <1>1, <1>2, <1>3, <1>4, <1>5, <1>6, <1>7, <1>8 DEF Next, Routers, Handle

\* The home agent binds a mobile unit only to an address a foreign agent gave
\* to it: setHAR after setFAHR, whatever is delayed, refused or lost between.
THEOREM BindingsGranted == Spec => []BindingsWereGranted
<1>1. Init => Granted
  BY AddressFacts DEF Init, Granted, RelaysWereGranted, BindingsWereGranted
<1>2. Granted => BindingsWereGranted
  BY DEF Granted
<1> QED BY InitTypes, StepTypes, StepGranted, <1>1, <1>2, PTL DEF Spec

-----------------------------------------------------------------------------
(***************************************************************************)
(* Nobody is registered without the home agent.                            *)
(***************************************************************************)

\* Sockets and what has been bound stay, no reply is new.
LEMMA BoundKept ==
  ASSUME TypeOK, Bound, sock' = sock, bound \subseteq bound',
         \A r \in msgs' \ msgs : r.type # "reply",
         \A m \in Mobiles : HasReply(queue'[m]) => HasReply(queue[m])
  PROVE  Bound'
  BY DEF Bound, SocketsDiffer, RepliesWereBound, QueuedWereBound, IsBound

\* A delivery that is no reply brings no socket a reply.
LEMMA DeliverNoReply ==
  ASSUME TypeOK, NEW a, NEW p \in Waiting, p.type # "reply", Deliver(a, p)
  PROVE  \A m \in Mobiles : HasReply(queue'[m]) => HasReply(queue[m])
<1>1. \A m \in Mobiles : queue[m] \in Seq(Waiting)
  BY DEF TypeOK
<1>2. \A m \in Mobiles : HasReply(Append(queue[m], p)) => HasReply(queue[m])
  BY <1>1, ReplyInQueue
<1> QED BY <1>2 DEF Deliver

LEMMA MainThreadBound ==
  ASSUME TypeOK, Bound, NEW m \in Mobiles, MainThread(m)
  PROVE  /\ Bound'
         /\ \A x \in Mobiles : mu'[x].registered => mu[x].registered
<1>0. /\ mu \in [Mobiles -> MobileUnit] /\ mu[m] \in MobileUnit
      /\ sock \in [Mobiles -> Sockets \cup {NoSocket}]
      /\ queue \in [Mobiles -> Seq(Waiting)] /\ queue[m] \in Seq(Waiting)
  BY DEF TypeOK
<1>1. PICK u \in MobileUnit :
        mu' = [mu EXCEPT ![m] = u] /\ (u.registered => mu[m].registered)
  BY MainThreadStep
<1>2. \A x \in Mobiles : HasReply(queue'[x]) => HasReply(queue[x])
  <2>1. HasReply(Append(queue[m], Received("trigger"))) => HasReply(queue[m])
    <3>1. Received("trigger").type # "reply"
      BY DEF Received
    <3> QED BY <1>0, <3>1, WaitingFacts, ReplyInQueue
  <2>2. ~HasReply(<<>>)
    BY <1>0, ReplyInQueue
  <2> QED BY <1>0, <2>1, <2>2, MainThreadRest
<1>3. \A r \in msgs' \ msgs : r.type # "reply"
  BY <1>0, MainThreadRest, RequestTypes DEF Packet
<1>4. bound' = bound
  BY MainThreadRest DEF agentVars
<1>5. Bound'
  <2>1. CASE ~Finish(m)
    BY <1>2, <1>3, <1>4, <2>1, MainThreadRest, BoundKept
  <2>2. CASE Finish(m)
    <3>1. sock' = [sock EXCEPT ![m] = NoSocket] /\ queue' = [queue EXCEPT ![m] = <<>>]
      BY <2>2 DEF Finish
    <3>2. SocketsDiffer'
      BY <1>0, <3>1 DEF Bound, SocketsDiffer
    <3>3. ~HasReply(<<>>)
      BY <1>0, ReplyInQueue
    <3>4. QueuedWereBound'
      BY <1>0, <1>2, <1>4, <3>1, <3>3 DEF Bound, QueuedWereBound, IsBound
    <3>5. RepliesWereBound'
      BY <1>3, <1>4 DEF Bound, RepliesWereBound
    <3> QED BY <3>2, <3>4, <3>5 DEF Bound
  <2> QED BY <2>1, <2>2
<1> QED BY <1>0, <1>1, <1>5

LEMMA CareOfThreadBound ==
  ASSUME TInv, Bound, NEW m \in Mobiles, CareOfThread(m)
  PROVE  /\ Bound'
         /\ \A x \in Mobiles : ~mu[x].registered /\ mu'[x].registered => IsBound(sock[x])
<1>0. TypeOK /\ mu[m] \in MobileUnit
  BY DEF TInv, TypeOK
<1>1. bound' = bound /\ \A r \in msgs' \ msgs : r.type # "reply"
  BY <1>0, CareOfThreadStep, RequestTypes DEF agentVars
<1>2. PICK u \in MobileUnit :
        /\ u.registered => mu[m].registered \/ HasReply(queue[m])
        /\ \/ /\ GoesOn(m, u) /\ queue[m] # <<>>
              /\ mu[m].coa \in {"accept", "advert"}
              /\ u.coa \in {"advert", "ask", "reply"}
              /\ u.coa = "advert" => Head(queue[m]).type = "advert"
           \/ \E q \in Seq(Waiting) :
                NextPacket(m, u, q) /\ (HasReply(q) => HasReply(queue[m]))
  BY CareOfThreadStep
<1>3. Bound' /\ \A x \in Mobiles : mu'[x].registered =
                  IF x = m THEN u.registered ELSE mu[x].registered
  <2>1. CASE \E q \in Seq(Waiting) :
               NextPacket(m, u, q) /\ (HasReply(q) => HasReply(queue[m]))
    <3>1. PICK q \in Seq(Waiting) :
            NextPacket(m, u, q) /\ (HasReply(q) => HasReply(queue[m]))
      BY <2>1
    <3>2. /\ SocketsDiffer' /\ QueuedWereBound'
          /\ \A x \in Mobiles : mu'[x].registered =
               IF x = m THEN u.registered ELSE mu[x].registered
      BY <1>0, <1>1, <3>1, NextPacketBound DEF Bound
    <3>3. RepliesWereBound'
      BY <1>1 DEF Bound, RepliesWereBound
    <3> QED BY <3>2, <3>3 DEF Bound
  <2>2. CASE /\ GoesOn(m, u) /\ queue[m] # <<>>
             /\ mu[m].coa \in {"accept", "advert"}
             /\ u.coa \in {"advert", "ask", "reply"}
             /\ u.coa = "advert" => Head(queue[m]).type = "advert"
    <3>1. /\ UNCHANGED <<sock, queue>>
          /\ \A x \in Mobiles : mu'[x].registered =
               IF x = m THEN u.registered ELSE mu[x].registered
      BY <2>2, GoesOnStep
    <3> QED BY <1>0, <1>1, <3>1, BoundKept
  <2> QED BY <1>2, <2>1, <2>2
<1>4. ASSUME NEW x \in Mobiles, ~mu[x].registered, mu'[x].registered
      PROVE  IsBound(sock[x])
  BY <1>2, <1>3, <1>4 DEF Bound, QueuedWereBound
<1> QED BY <1>3, <1>4

\* A step of any other process leaves the sockets and what the units have
\* registered alone; a new reply follows a new binding, and a socket gets a
\* reply only at the address it is for.
LEMMA OthersBound ==
  ASSUME TInv, Bound, Next,
         ~\E m \in Mobiles : MainThread(m) \/ CareOfThread(m)
  PROVE  /\ Bound'
         /\ \A x \in Mobiles : mu'[x].registered => mu[x].registered
<1>0. /\ TypeOK /\ mu \in [Mobiles -> MobileUnit]
      /\ \A m \in Mobiles : queue[m] \in Seq(Waiting)
  BY DEF TInv, TypeOK
<1>1. ASSUME NEW m \in Mobiles, Expire(m)
      PROVE  Bound' /\ \A x \in Mobiles : mu'[x].registered => mu[x].registered
  <2>1. Bound'
    BY <1>0, <1>1, BoundKept DEF Expire, agentVars
  <2>2. mu[m] \in MobileUnit /\ mu' = [mu EXCEPT ![m] = [mu[m] EXCEPT !.recent = FALSE]]
    BY <1>0, <1>1 DEF Expire
  <2>3. [mu[m] EXCEPT !.recent = FALSE].registered = mu[m].registered
    BY <2>2 DEF MobileUnit
  <2> QED BY <1>0, <2>1, <2>2, <2>3
<1>2. ASSUME NEW m \in Mobiles, Tunnel(m) PROVE Bound' /\ mu' = mu
  <2>1. Received("ip") \in Waiting /\ Received("ip").type # "reply"
    BY WaitingFacts DEF Received
  <2>2. \A x \in Mobiles : HasReply(queue'[x]) => HasReply(queue[x])
    BY <1>0, <1>2, <2>1, DeliverNoReply DEF Tunnel
  <2> QED BY <1>0, <1>2, <2>2, BoundKept DEF Tunnel
<1>3. ASSUME NEW n \in Nets, NEW m \in Mobiles, Advertise(n, m) PROVE Bound' /\ mu' = mu
  <2> DEFINE p == [type |-> "advert", coa |-> offer[n]]
  <2>1. p \in Waiting /\ p.type # "reply"
    BY <1>0, <1>3, WaitingFacts DEF Advertise, TypeOK
  <2>2. \A x \in Mobiles : HasReply(queue'[x]) => HasReply(queue[x])
    BY <1>0, <1>3, <2>1, DeliverNoReply DEF Advertise
  <2> QED BY <1>0, <1>3, <2>2, BoundKept DEF Advertise, agentVars
<1>4. ASSUME NEW n \in Nets, MakeAdvert(n) \/ \E c \in Addresses : FreeCareOfAddress(n, c)
      PROVE  Bound' /\ mu' = mu
  BY <1>0, <1>4, BoundKept DEF MakeAdvert, FreeCareOfAddress, unitVars
<1>5. ASSUME NEW r \in msgs,
             \/ HandleRequest(r) \/ HandleDeregistration(r)
             \/ HandleHomeRequest(r) \/ Lose(r)
      PROVE  Bound' /\ mu' = mu
  <2>1. \A x \in msgs' \ msgs : x.type # "reply"
    BY <1>5 DEF HandleRequest, HandleDeregistration, HandleHomeRequest, Lose, Relayed, Packet
  <2>2. UNCHANGED <<mu, sock, queue, bound>>
    BY <1>5 DEF HandleRequest, HandleDeregistration, HandleHomeRequest, Lose, unitVars
  <2> QED BY <1>0, <2>1, <2>2, BoundKept
<1>6. ASSUME NEW r \in msgs, HandleRelay(r) PROVE Bound' /\ mu' = mu
  <2>1. /\ UNCHANGED <<mu, sock, queue>>
        /\ bound' = bound \cup {<<r.who, <<r.net, r.coa>>>>}
        /\ msgs' = (msgs \ {r}) \cup {Packet("reply", r.net, r.who, r.coa)}
    BY <1>6 DEF HandleRelay, unitVars, BindingOf
  <2>2. RepliesWereBound'
    BY <2>1 DEF Bound, RepliesWereBound, Packet
  <2> QED BY <2>1, <2>2 DEF Bound, SocketsDiffer, QueuedWereBound, IsBound
<1>7. ASSUME NEW r \in msgs, PassReply(r) PROVE Bound' /\ mu' = mu
  <2>1. /\ UNCHANGED <<mu, sock, bound>> /\ msgs' \subseteq msgs
        /\ Deliver(<<r.net, r.coa>>, Received("reply"))
    BY <1>7 DEF PassReply, agentVars
  <2>2. r.who \in Mobiles /\ <<r.who, <<r.net, r.coa>>>> \in bound
    BY <1>0, <1>7 DEF PassReply, TypeOK, PacketRecords, Bound, RepliesWereBound
  <2>3. ASSUME NEW m \in Mobiles, HasReply(queue'[m]) PROVE IsBound(sock[m])
    <3>1. CASE sock[m] = <<r.net, r.coa>>
      BY <2>2, <3>1 DEF IsBound
    <3>2. CASE sock[m] # <<r.net, r.coa>>
      BY <2>1, <2>3, <3>2 DEF Deliver, Bound, QueuedWereBound
    <3> QED BY <3>1, <3>2
  <2>4. QueuedWereBound'
    BY <2>1, <2>3 DEF QueuedWereBound, IsBound
  <2> QED BY <2>1, <2>4 DEF Bound, SocketsDiffer, RepliesWereBound
<1> QED BY <1>1, <1>2, <1>3, <1>4, <1>5, <1>6, <1>7 DEF Next, Routers, Handle

LEMMA StepBound ==
  TInv /\ Bound /\ [Next]_vars =>
    /\ Bound'
    /\ \A x \in Mobiles : ~mu[x].registered /\ mu'[x].registered => IsBound(sock[x])
<1> SUFFICES ASSUME TInv, Bound, [Next]_vars
             PROVE  /\ Bound'
                    /\ \A x \in Mobiles :
                         ~mu[x].registered /\ mu'[x].registered => IsBound(sock[x])
  OBVIOUS
<1>0. TypeOK
  BY DEF TInv
<1>1. CASE UNCHANGED vars
  BY <1>0, <1>1, BoundKept DEF vars
<1>2. CASE \E m \in Mobiles : MainThread(m)
  BY <1>0, <1>2, MainThreadBound
<1>3. CASE \E m \in Mobiles : CareOfThread(m)
  BY <1>3, CareOfThreadBound
<1>4. CASE Next /\ ~\E m \in Mobiles : MainThread(m) \/ CareOfThread(m)
  BY <1>4, OthersBound
<1> QED BY <1>1, <1>2, <1>3, <1>4

\* A mobile unit becomes registered only at an address to which the home agent
\* has bound a mobile unit: TakeReply finds a reply at its socket, and replies
\* are kept only while the socket stays where it was bound.
THEOREM RegisteredOnlyThroughHomeAgent == Spec => RegisteredThroughHomeAgent
<1>1. Init => Bound
  <2> SUFFICES ASSUME Init PROVE Bound
    OBVIOUS
  <2>1. ~HasReply(<<>>)
    BY DEF HasReply
  <2> QED BY <2>1 DEF Init, Bound, SocketsDiffer, RepliesWereBound, QueuedWereBound
<1>2. TInv /\ Bound /\ [Next]_vars =>
        [\A m \in Mobiles : ~mu[m].registered /\ mu'[m].registered =>
           \E x \in Mobiles : <<x, sock[m]>> \in bound]_vars
  BY StepBound DEF IsBound
<1> QED BY InitTypes, StepTypes, StepBound, <1>1, <1>2, PTL
        DEF Spec, RegisteredThroughHomeAgent
=============================================================================
