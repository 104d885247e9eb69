------------------------------ MODULE Mobility ------------------------------
(***************************************************************************)
(* Mobile units that move between networks, the foreign agents of those    *)
(* networks, and the home agent they share.                                *)
(*                                                                         *)
(* A mobile unit has two threads that share MUnit without a lock: the main *)
(* thread, which walks the path of the configuration file, and the thread  *)
(* of its care-of socket, which handles one packet at a time and then      *)
(* binds the socket to the care-of address MUnit has by then.  A thread    *)
(* reads or writes what the other one writes in steps of their own.        *)
(* Between routers a packet may be delayed, overtaken and lost.            *)
(*                                                                         *)
(* Every packet is sent one second (WAIT_PERIOD_B4_SEND) after the call:   *)
(* the thread of the socket is back in accept before an answer to its own  *)
(* request can come, it is through with a packet that makes it send none   *)
(* before the main thread has sent one, and a trigger finds it started.    *)
(***************************************************************************)
EXTENDS Integers, Sequences, FiniteSets, Lookup

CONSTANTS
  Mobiles,
  Nets,        \* the networks of the foreign agents
  Home,        \* the network of the home agent
  Off,         \* COA_DISABLED, a network nobody sends on
  Nobody,      \* the identity in a row that is not in use
  NoSocket,
  AddressCount,  \* care-of addresses of a network (15)
  Path,        \* Path[m]: PATH_OF_MU, a sequence of networks, Home first
  MaxMsgs,     \* bound: packets of a mobile unit under way when it is sent an
               \* advertisement
  MaxLost,     \* bound: packets lost
  MaxIP        \* bound: IP packets sent to mobile units

ASSUME NamesDiffer ==
  /\ Home \notin Nets /\ Off \notin Nets /\ Home # Off
  /\ Nobody \notin Mobiles

ASSUME PathAssumption ==
  /\ AddressCount \in Nat /\ AddressCount > 0
  /\ MaxMsgs \in Nat /\ MaxLost \in Nat /\ MaxIP \in Nat
  /\ Path \in [Mobiles -> Seq(Nets \cup {Home})]
  /\ \A m \in Mobiles : Path[m] # <<>> /\ Path[m][1] = Home

Addresses == 1 .. AddressCount

Locations == Nets \X Addresses

\* What a care-of socket can be bound to.
Sockets == (Nets \cup {Off}) \X Addresses

ASSUME NoSocketAssumption == NoSocket \notin Sockets

\* What the home agent knows of a mobile unit that registered at home: both
\* fields of the request are zero.
AtHome == <<Home, 0>>

Unknown == <<Off, 0>>

VARIABLES
  mu,       \* MUnit of each mobile unit, and where its two threads are
  sock,     \* the address its care-of socket is bound to, or NoSocket
  queue,    \* the packets that wait at that socket
  fa,       \* fa[n][c]: who is in that row of FAHArray, or Nobody
  taken,    \* taken[n]: the addresses flagged in COATable
  offer,    \* offer[n]: the address in the advertisement being sent, or 0
  binding,  \* HARArray: the foreign agent and the care-of address
  msgs,     \* packets on their way to or between routers
  lost,     \* packets lost so far
  sent,     \* IP packets sent so far
  granted,  \* history: <<m, a>> when a foreign agent has had m at a
  bound     \* history: <<m, a>> when the home agent has had m at a

vars == <<mu, sock, queue, fa, taken, offer, binding, msgs, lost, sent, granted, bound>>

agentVars == <<fa, taken, offer, binding, lost, sent, granted, bound>>
unitVars == <<mu, sock, queue>>

(***************************************************************************)
(* The fields of MUnit: net is FrgnNetwork, port CurrentNetworkPort,       *)
(* router FrgnAddressRouterPort, registered AmIRegistered, previously      *)
(* WasPreviouslyRegs, moving AmIMoving, haveHome HaveIRegistered; life is  *)
(* LifeTimeOfReg # 0 and recent says that less than a lifetime has passed  *)
(* since RegisterTime.  main and coa are the places of the two threads,    *)
(* leg the place in the path.  HomeInterfaceUp and ~COAInterfaceUp hold    *)
(* while main is "home", AmIAtHomeNow on a leg at home.                    *)
(***************************************************************************)
MobileUnit ==
  [main : {"home", "trigger", "wait", "reside", "moving", "sending", "lifetime",
           "previous", "leaving", "between", "done"},
   coa : {"down", "start", "accept", "advert", "ask", "reply"},
   leg : Nat,
   net : Nets \cup {Off}, port : Addresses, router : Nets \cup {Off},
   registered : BOOLEAN, previously : BOOLEAN, moving : BOOLEAN,
   haveHome : BOOLEAN, life : BOOLEAN, recent : BOOLEAN]

\* The packets a care-of socket can receive; an advertisement carries an
\* address.
Received(type) == [type |-> type, coa |-> 0]

Waiting == {Received(t) : t \in {"trigger", "reply", "ip"}}
             \cup {[type |-> "advert", coa |-> c] : c \in Addresses}

-----------------------------------------------------------------------------
(***************************************************************************)
(* Packets between a mobile unit and the routers.  A de-registration has   *)
(* no identity.                                                            *)
(***************************************************************************)
Packet(type, net, who, coa) ==
  [type |-> type, net |-> net, who |-> who, coa |-> coa]

PacketsOf(m) == {r \in msgs : r.who = m}

\* MOBUNT_RegisterWithFrgnAgent: the router it is sent to, and so the source
\* address the router will put in, is the one the last accepted advertisement
\* named; no router listens on the port it has before.
RequestOf(m, u) ==
  IF u.router = Off THEN {} ELSE {Packet("request", u.router, m, u.port)}

DeregistrationOf(u) ==
  IF u.router = Off THEN {} ELSE {Packet("deregister", u.router, Nobody, u.port)}

-----------------------------------------------------------------------------
(***************************************************************************)
(* Plausible slips, against which the properties are tried.                *)
(***************************************************************************)

\* The request is relayed although the table did not take it.
RelayedAlways(r) == {Packet("relay", r.net, r.who, r.coa)}

\* The foreign agent answers by itself.
RelayedAsReply(r) ==
  IF fa[r.net][r.coa] \in {Nobody, r.who}
  THEN {Packet("reply", r.net, r.who, r.coa)} ELSE {}

\* The table takes the request whoever is in the row.
HandleRequestUnchecked(r) ==
  /\ r.type = "request"
  /\ fa' = [fa EXCEPT ![r.net][r.coa] = r.who]
  /\ taken' = [taken EXCEPT ![r.net] = @ \cup {r.coa}]
  /\ granted' = granted \cup {<<r.who, <<r.net, r.coa>>>>}
  /\ msgs' = (msgs \ {r}) \cup RelayedAlways(r)
  /\ UNCHANGED <<unitVars, offer, binding, lost, sent, bound>>

\* The two fields of the binding are swapped.
BindingSwapped(r) == <<r.coa, r.net>>



-----------------------------------------------------------------------------

AtHomeNow(m) == Path[m][mu[m].leg] = Home

StillRegistered(u) == u.life /\ u.recent

\* The care-of thread is running: it waits for nothing before it goes on.
Running(m) == mu[m].coa \in {"start", "advert", "reply"}

Free(m, a) == \A x \in Mobiles \ {m} : sock[x] # a

\* MOBUNT_GetInterfaceAddressFromDHCP: rand() % 14 + 1.
Temporary == 1 .. AddressCount - 1

\* The top of the loop of MOBUNT_BringUpCareOfAddress, for a mobile unit whose
\* state is u and whose socket has q left to read.  Binding the socket again
\* drops what waits at it; an address that is in use is replaced by a random
\* one, which becomes CurrentNetworkPort.
NextPacket(m, u, q) ==
  IF u.main = "home"
  THEN /\ mu' = [mu EXCEPT ![m] = [u EXCEPT !.coa = "down"]]
       /\ queue' = [queue EXCEPT ![m] = q]
       /\ UNCHANGED sock
  ELSE \E p \in {u.port} \cup Temporary :
         /\ Free(m, <<u.net, p>>)
         /\ p # u.port => ~Free(m, <<u.net, u.port>>)
         /\ mu' = [mu EXCEPT ![m] = [u EXCEPT !.coa = "accept", !.port = p]]
         /\ sock' = [sock EXCEPT ![m] = <<u.net, p>>]
         /\ queue' = [queue EXCEPT ![m] =
                        IF sock[m] = <<u.net, u.port>> THEN q ELSE <<>>]

\* RegisterTime is not initialised, so it may look recent.
NewUnit(p, recent) ==
  [main |-> "home", coa |-> "down", leg |-> 1, net |-> Off, port |-> p,
   router |-> Off, registered |-> FALSE, previously |-> FALSE, moving |-> FALSE,
   haveHome |-> FALSE, life |-> FALSE, recent |-> recent]

Init ==
  /\ mu \in [Mobiles -> {NewUnit(p, recent) : p \in Temporary, recent \in BOOLEAN}]
  /\ sock = [m \in Mobiles |-> NoSocket]
  /\ queue = [m \in Mobiles |-> <<>>]
  /\ fa = [n \in Nets |-> [c \in Addresses |-> Nobody]]
  /\ taken = [n \in Nets |-> {}]
  /\ offer = [n \in Nets |-> 0]
  /\ binding = [m \in Mobiles |-> Unknown]
  /\ msgs = {}
  /\ lost = 0
  /\ sent = 0
  /\ granted = {}
  /\ bound = {}

(***************************************************************************)
(* The main thread: MOBUNT_UnitMove.                                       *)
(***************************************************************************)

\* The thread of the home socket hears the home agent for the first time
\* (MOBUNT_CallbackHA).
RegisterAtHome(m) ==
  /\ mu[m].main = "home" /\ ~mu[m].haveHome
  /\ mu' = [mu EXCEPT ![m].haveHome = TRUE]
  /\ msgs' = msgs \cup {Packet("home", Home, m, 0)}
  /\ UNCHANGED <<sock, queue, agentVars>>

\* The end of the residence at home: the home socket goes down, the thread of
\* the care-of socket is started.  By then it has ended if it ran before: the
\* trigger, or the next advertisement, has woken it.
LeaveHome(m) ==
  /\ mu[m].main = "home" /\ mu[m].haveHome /\ mu[m].coa = "down"
  /\ mu' = [mu EXCEPT ![m].main = "leaving", ![m].coa = "start"]
  /\ UNCHANGED <<sock, queue, msgs, agentVars>>

\* The end of the residence at a foreign network.
Leave(m) ==
  /\ mu[m].main = "reside"
  /\ mu' = [mu EXCEPT ![m].main = "moving", ![m].moving = TRUE]
  /\ UNCHANGED <<sock, queue, msgs, agentVars>>

\* A unit that is still registered says so to the agent; no one else waits for
\* a packet to be sent.
Deregister(m) ==
  /\ mu[m].main = "moving"
  /\ mu' = [mu EXCEPT ![m].main = IF mu[m].registered THEN "sending" ELSE "lifetime",
                      ![m].registered = FALSE]
  /\ msgs' = msgs \cup (IF mu[m].registered THEN DeregistrationOf(mu[m]) ELSE {})
  /\ UNCHANGED <<sock, queue, agentVars>>

ClearLifetime(m) ==
  /\ \/ mu[m].main = "lifetime"
     \/ mu[m].main = "sending" /\ ~Running(m)
  /\ mu' = [mu EXCEPT ![m].main = "previous", ![m].life = FALSE]
  /\ UNCHANGED <<sock, queue, msgs, agentVars>>

ClearPrevious(m) ==
  /\ mu[m].main = "previous"
  /\ mu' = [mu EXCEPT ![m].main = "leaving", ![m].previously = FALSE]
  /\ UNCHANGED <<sock, queue, msgs, agentVars>>

\* The last statement of a leg, at home as well.
ClearRegistered(m) ==
  /\ mu[m].main = "leaving"
  /\ mu' = [mu EXCEPT ![m].main = "between", ![m].registered = FALSE]
  /\ UNCHANGED <<sock, queue, msgs, agentVars>>

Finish(m) ==
  /\ mu[m].main = "between" /\ mu[m].leg = Len(Path[m])
  /\ mu' = [mu EXCEPT ![m].main = "done", ![m].coa = "down"]
  /\ sock' = [sock EXCEPT ![m] = NoSocket]
  /\ queue' = [queue EXCEPT ![m] = <<>>]
  /\ UNCHANGED <<msgs, agentVars>>

\* Back home the care-of socket is triggered so that its thread ends; nobody
\* closes it, and the home agent is not told.
ArriveHome(m) ==
  /\ mu[m].main = "between" /\ mu[m].leg < Len(Path[m])
  /\ Path[m][mu[m].leg + 1] = Home
  /\ mu' = [mu EXCEPT ![m].main = "home", ![m].leg = @ + 1]
  /\ queue' = [queue EXCEPT ![m] = Append(@, Received("trigger"))]
  /\ UNCHANGED <<sock, msgs, agentVars>>

Arrive(m) ==
  /\ mu[m].main = "between" /\ mu[m].leg < Len(Path[m])
  /\ Path[m][mu[m].leg + 1] \in Nets
  /\ mu' = [mu EXCEPT ![m].main = "trigger", ![m].leg = @ + 1,
                      ![m].net = Path[m][mu[m].leg + 1]]
  /\ UNCHANGED <<sock, queue, msgs, agentVars>>

SendTrigger(m) ==
  /\ mu[m].main = "trigger" /\ ~Running(m)
  /\ mu' = [mu EXCEPT ![m].main = "wait", ![m].moving = FALSE]
  /\ queue' = [queue EXCEPT ![m] = Append(@, Received("trigger"))]
  /\ UNCHANGED <<sock, msgs, agentVars>>

Reside(m) ==
  /\ mu[m].main = "wait" /\ mu[m].registered
  /\ mu' = [mu EXCEPT ![m].main = "reside"]
  /\ UNCHANGED <<sock, queue, msgs, agentVars>>

MainThread(m) ==
  \/ RegisterAtHome(m) \/ LeaveHome(m) \/ Leave(m) \/ Deregister(m)
  \/ ClearLifetime(m) \/ ClearPrevious(m) \/ ClearRegistered(m)
  \/ Finish(m) \/ ArriveHome(m) \/ Arrive(m)
  \/ SendTrigger(m) \/ Reside(m)

(***************************************************************************)
(* The thread of the care-of socket: MOBUNT_CallbackFA.                    *)
(***************************************************************************)

StartCareOfAddress(m) ==
  /\ mu[m].coa = "start"
  /\ NextPacket(m, mu[m], queue[m])
  /\ UNCHANGED <<msgs, agentVars>>

Accepts(m, type) ==
  /\ mu[m].coa = "accept"
  /\ queue[m] # <<>>
  /\ Head(queue[m]).type = type

\* The thread is at its next place with the packet, u being the unit then.
GoesOn(m, u) ==
  /\ mu' = [mu EXCEPT ![m] = u]
  /\ UNCHANGED <<sock, queue>>

TakeTrigger(m) ==
  /\ Accepts(m, "trigger")
  /\ NextPacket(m, mu[m], Tail(queue[m]))
  /\ UNCHANGED <<msgs, agentVars>>

\* An advertisement that comes while the unit moves is ignored.
HearAdvert(m) ==
  /\ Accepts(m, "advert")
  /\ IF mu[m].moving THEN NextPacket(m, mu[m], Tail(queue[m]))
     ELSE GoesOn(m, [mu[m] EXCEPT !.coa = "advert"])
  /\ UNCHANGED <<msgs, agentVars>>

IgnoreAdvert(m) ==
  /\ mu[m].coa = "advert"
  /\ StillRegistered(mu[m])
  /\ NextPacket(m, mu[m], Tail(queue[m]))
  /\ UNCHANGED <<msgs, agentVars>>

\* Unless it was registered before and asks again for what it has, the unit
\* takes network, router, address and lifetime from the advertisement.
TakeAdvert(m) ==
  /\ mu[m].coa = "advert"
  /\ ~StillRegistered(mu[m])
  /\ GoesOn(m, IF mu[m].previously THEN [mu[m] EXCEPT !.coa = "ask"]
               ELSE [mu[m] EXCEPT !.coa = "ask", !.life = TRUE, !.net = sock[m][1],
                       !.router = sock[m][1], !.port = Head(queue[m]).coa])
  /\ UNCHANGED <<msgs, agentVars>>

\* The rest of the handler: the socket triggers itself, the request is sent,
\* and the thread listens on the new address before an answer can come.
Ask(m) ==
  /\ mu[m].coa = "ask"
  /\ msgs' = msgs \cup RequestOf(m, mu[m])
  /\ NextPacket(m, mu[m], Append(Tail(queue[m]), Received("trigger")))
  /\ UNCHANGED agentVars

TakeReply(m) ==
  /\ Accepts(m, "reply")
  /\ GoesOn(m, [mu[m] EXCEPT !.coa = "reply", !.registered = TRUE])
  /\ UNCHANGED <<msgs, agentVars>>

\* WasPreviouslyRegs and RegisterTime.
MarkReply(m) ==
  /\ mu[m].coa = "reply"
  /\ NextPacket(m, [mu[m] EXCEPT !.previously = TRUE, !.recent = TRUE],
                Tail(queue[m]))
  /\ UNCHANGED <<msgs, agentVars>>

\* MOBUNT_ReplyIPPkt answers, unless the registration has run out: then
\* MOBUNT_sendIPPacket asks for it again.
RunOut(m) == mu[m].registered /\ ~mu[m].recent /\ ~AtHomeNow(m)

TakeIP(m) ==
  /\ Accepts(m, "ip")
  /\ msgs' = msgs \cup (IF RunOut(m) THEN RequestOf(m, mu[m]) ELSE {})
  /\ NextPacket(m, IF RunOut(m) THEN [mu[m] EXCEPT !.registered = FALSE]
                   ELSE mu[m], Tail(queue[m]))
  /\ UNCHANGED agentVars

CareOfThread(m) ==
  \/ StartCareOfAddress(m) \/ TakeTrigger(m)
  \/ HearAdvert(m) \/ IgnoreAdvert(m) \/ TakeAdvert(m) \/ Ask(m)
  \/ TakeReply(m) \/ MarkReply(m) \/ TakeIP(m)

\* A lifetime (fifteen seconds) has passed.  By then the main thread has sent
\* its trigger and seen that the unit is registered.
Expire(m) ==
  /\ mu[m].recent
  /\ ~(mu[m].main \in {"trigger", "wait"} /\ mu[m].registered)
  /\ mu' = [mu EXCEPT ![m].recent = FALSE]
  /\ UNCHANGED <<sock, queue, msgs, agentVars>>

(***************************************************************************)
(* The foreign agents (ForeignAgent has their threads and tables in full). *)
(***************************************************************************)

\* A packet reaches whoever has bound the address.
Deliver(a, p) ==
  queue' = [m \in Mobiles |-> IF sock[m] = a THEN Append(queue[m], p) ELSE queue[m]]

UntakenAddresses(n) == Addresses \ taken[n]

\* ROUTER_makeIcmpPackets.  Without a free address the advertisement carries
\* address zero, which ForeignAgent has and this module leaves out.
MakeAdvert(n) ==
  /\ offer' = [offer EXCEPT ![n] =
                 IF UntakenAddresses(n) = {} THEN 0 ELSE FirstOf(UntakenAddresses(n))]
  /\ UNCHANGED <<unitVars, fa, taken, binding, msgs, lost, sent, granted, bound>>

\* ROUTER_advertiseICMPNetwork reaches the address of m: the loop over the
\* addresses starts at zero and ends before the last one.  Twenty seconds lie
\* between two rounds, so the mobile unit is done with the one before, but for
\* MaxMsgs - 1 of its packets.  One that comes while the thread is busy is read
\* when it is not, or dropped with the socket.
Advertise(n, m) ==
  /\ offer[n] # 0
  /\ sock[m] \in {n} \X (1 .. AddressCount - 1)
  /\ mu[m].coa = "accept" /\ queue[m] = <<>>
  /\ Cardinality(PacketsOf(m)) < MaxMsgs
  /\ Deliver(sock[m], [type |-> "advert", coa |-> offer[n]])
  /\ UNCHANGED <<mu, sock, msgs, agentVars>>

\* setFAHR, and the request that goes on to the home agent if it took the row.
Relayed(r) ==
  IF fa[r.net][r.coa] \in {Nobody, r.who}
  THEN {Packet("relay", r.net, r.who, r.coa)} ELSE {}

HandleRequest(r) ==
  /\ r.type = "request"
  /\ IF fa[r.net][r.coa] \in {Nobody, r.who}
     THEN /\ fa' = [fa EXCEPT ![r.net][r.coa] = r.who]
          /\ taken' = [taken EXCEPT ![r.net] = @ \cup {r.coa}]
          /\ granted' = granted \cup {<<r.who, <<r.net, r.coa>>>>}
     ELSE UNCHANGED <<fa, taken, granted>>
  /\ msgs' = (msgs \ {r}) \cup Relayed(r)
  /\ UNCHANGED <<unitVars, offer, binding, lost, sent, bound>>

\* The flag in COATable stays.
HandleDeregistration(r) ==
  /\ r.type = "deregister"
  /\ fa' = [fa EXCEPT ![r.net][r.coa] = Nobody]
  /\ msgs' = msgs \ {r}
  /\ UNCHANGED <<unitVars, taken, offer, binding, lost, sent, granted, bound>>

PassReply(r) ==
  /\ r.type = "reply"
  /\ Deliver(<<r.net, r.coa>>, Received("reply"))
  /\ msgs' = msgs \ {r}
  /\ UNCHANGED <<mu, sock, agentVars>>

\* The lease of a row has run out: the flag is cleared, the row stays.
FreeCareOfAddress(n, c) ==
  /\ fa[n][c] # Nobody /\ c \in taken[n]
  /\ taken' = [taken EXCEPT ![n] = @ \ {c}]
  /\ UNCHANGED <<unitVars, fa, offer, binding, msgs, lost, sent, granted, bound>>

(***************************************************************************)
(* The home agent.                                                         *)
(***************************************************************************)

HandleHomeRequest(r) ==
  /\ r.type = "home"
  /\ binding' = [binding EXCEPT ![r.who] = AtHome]
  /\ msgs' = msgs \ {r}
  /\ UNCHANGED <<unitVars, fa, taken, offer, lost, sent, granted, bound>>

\* setHAR takes what comes, whatever it had.
BindingOf(r) == <<r.net, r.coa>>

\* A home request went straight into the backlog of the home agent, so that
\* no relay of the same mobile unit overtakes it.
HandleRelay(r) ==
  /\ r.type = "relay"
  /\ Packet("home", Home, r.who, 0) \notin msgs
  /\ binding' = [binding EXCEPT ![r.who] = BindingOf(r)]
  /\ bound' = bound \cup {<<r.who, BindingOf(r)>>}
  /\ msgs' = (msgs \ {r}) \cup {Packet("reply", r.net, r.who, r.coa)}
  /\ UNCHANGED <<unitVars, fa, taken, offer, lost, sent, granted>>

\* An IP packet for m: nobody listens at its home address, so it goes through
\* the tunnel to the care-of address.
Tunnel(m) ==
  /\ mu[m].main # "home"
  /\ binding[m] \in Locations
  /\ sent < MaxIP
  /\ sent' = sent + 1
  /\ Deliver(binding[m], Received("ip"))
  /\ UNCHANGED <<mu, sock, msgs, fa, taken, offer, binding, lost, granted, bound>>

\* A packet meets a router that is down or has no route.
Lose(r) ==
  /\ lost < MaxLost
  /\ lost' = lost + 1
  /\ msgs' = msgs \ {r}
  /\ UNCHANGED <<unitVars, fa, taken, offer, binding, sent, granted, bound>>

Handle(r) ==
  \/ HandleRequest(r) \/ HandleDeregistration(r) \/ PassReply(r)
  \/ HandleHomeRequest(r) \/ HandleRelay(r)

Routers == \E r \in msgs : Handle(r)

Next ==
  \/ \E m \in Mobiles : MainThread(m) \/ CareOfThread(m) \/ Expire(m) \/ Tunnel(m)
  \/ \E n \in Nets :
       \/ MakeAdvert(n)
       \/ \E m \in Mobiles : Advertise(n, m)
       \/ \E c \in Addresses : FreeCareOfAddress(n, c)
  \/ Routers
  \/ \E r \in msgs : Lose(r)

Spec == Init /\ [][Next]_vars

\* Threads are scheduled, routers handle every packet they receive, agents
\* advertise and leases end.  Nobody has to send an IP packet, and no packet has to be
\* lost.
Fairness ==
  /\ \A m \in Mobiles :
       /\ SF_vars(MainThread(m)) /\ WF_vars(CareOfThread(m)) /\ WF_vars(Expire(m))
       /\ \A n \in Nets : SF_vars(Advertise(n, m))
  /\ \A n \in Nets :
       /\ WF_vars(MakeAdvert(n))
       /\ \A c \in Addresses : WF_vars(FreeCareOfAddress(n, c))
  /\ \A w \in Mobiles \cup {Nobody} :
       WF_vars(\E r \in PacketsOf(w) : Handle(r))

FairSpec == Spec /\ Fairness

-----------------------------------------------------------------------------
(***************************************************************************)
(* Properties.                                                             *)
(***************************************************************************)

PacketRecords ==
  [type : {"request", "relay", "reply"}, net : Nets, who : Mobiles, coa : Addresses]
  \cup [type : {"deregister"}, net : Nets, who : {Nobody}, coa : Addresses]
  \cup [type : {"home"}, net : {Home}, who : Mobiles, coa : {0}]

TypeOK ==
  /\ mu \in [Mobiles -> MobileUnit]
  /\ sock \in [Mobiles -> Sockets \cup {NoSocket}]
  /\ queue \in [Mobiles -> Seq(Waiting)]
  /\ fa \in [Nets -> [Addresses -> Mobiles \cup {Nobody}]]
  /\ taken \in [Nets -> SUBSET Addresses]
  /\ offer \in [Nets -> Addresses \cup {0}]
  /\ binding \in [Mobiles -> Locations \cup {AtHome, Unknown}]
  /\ msgs \subseteq PacketRecords
  /\ lost \in 0 .. MaxLost
  /\ sent \in 0 .. MaxIP
  /\ granted \subseteq Mobiles \X Locations
  /\ bound \subseteq Mobiles \X Locations

\* The home agent sends the packets of a mobile unit only to an address that a
\* foreign agent has given to that very mobile unit, though requests overtake
\* each other, are refused or lost, and mobile units move on meanwhile.
BindingsWereGranted ==
  \A m \in Mobiles : binding[m] \in Locations => <<m, binding[m]>> \in granted

\* A mobile unit becomes registered only at an address to which the home
\* agent has bound a mobile unit before: no foreign agent, old packet or change
\* of address registers anyone behind the back of the home agent.
RegisteredThroughHomeAgent ==
  [][\A m \in Mobiles : ~mu[m].registered /\ mu'[m].registered =>
        \E x \in Mobiles : <<x, sock[m]>> \in bound]_vars

\* Three ways to be cut off.  A unit that counts as registered before asks the
\* router of the network it has left, again and again, and the answers go there.
Misled(m) == mu[m].previously /\ mu[m].router # mu[m].net

\* A unit that listens on the last address of its network hears no
\* advertisement.
Deaf(m) == sock[m] # NoSocket /\ sock[m][2] = AddressCount

\* The address that is offered is flagged as free, but its row has an owner.
Refused(m) == \E n \in Nets :
  offer[n] # 0 /\ mu[m].net = n /\ fa[n][offer[n]] \notin {Nobody, m}


\* mobile_unit.c:1050: "busy wait whilst we wait for registraion to be done".
WaitEnds ==
  \A m \in Mobiles : (mu[m].main = "wait") ~> (mu[m].main # "wait")

\* The rows of all foreign agents, those whose address is flagged as well, and
\* who counts as registered.
Holder == [a \in Locations |-> fa[a[1]][a[2]]]

CurrentLeases == {a \in Locations : Holder[a] # Nobody /\ a[2] \in taken[a[1]]}

Registered == [m \in Mobiles |-> mu[m].registered]

R == INSTANCE Registration WITH Addresses <- Locations, Clients <- Mobiles,
       holder <- Holder, current <- CurrentLeases,
       listens <- sock, registered <- Registered

\* The foreign agents, the home agent and the mobile units, whose requests,
\* relays and replies are delayed, overtaken and lost and whose tables nobody
\* reads together, register mobile units as Registration says: no row is taken
\* from its holder, and rows, bindings and registrations follow in this order.
Registers == R!RegistrationSpec

\* mobile_unit.c:900-901: when a reply is received "the MN's location is know
\* known by the HA", the network at least.
ReplyMeansLocationKnown ==
  [][\A m \in Mobiles : TakeReply(m) => binding[m][1] = sock[m][1]]_vars
=============================================================================
