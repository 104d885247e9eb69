------------------------------ MODULE Packets -------------------------------
(***************************************************************************)
(* Packets bit by bit, from the hand that writes a field to the hand that  *)
(* reads it: the correspondent node, mobile units, the routers on the way  *)
(* with their switching fabric, and the tables that addresses are kept in  *)
(* between.  A packet under way carries, besides its bits, a record of     *)
(* what its writers meant; no handler looks at that record.                *)
(*                                                                         *)
(* The routes are those of a network that has converged (Rip), a mobile    *)
(* unit handles what it receives in one step (Mobility has its threads),   *)
(* and which address an agent offers is ForeignAgent's matter.             *)
(***************************************************************************)
EXTENDS PacketFormats, FiniteSets

CONSTANTS
  Routers,       \* the numbers of the routers, and of their networks
  Home,          \* the home agent
  Foreign,       \* the foreign agents
  Mobiles,       \* the home addresses of the mobile units
  Cn,            \* network and interface of the correspondent node
  Destinations,  \* what its user may type
  Offered,       \* what agents advertise: care-of addresses, or {} for none free
  Temporary,     \* addresses a mobile unit may choose for itself
  NextHop,       \* NextHop[r][n], for every network r has a route to
  Garbage,       \* what a field that was never written may hold
  LIFE_TIME,
  Distances,     \* distances in the rows of routing tables
  MaxWire,       \* bound: packets under way when another one is begun
  MaxIP          \* bound: IP packets under way when the user sends one

Addresses == Bits3 \X Bits4

Fifteen == 0 .. 3

\* The port of a router, which is the number of no interface.
Gate == Bits

ASSUME NetworkAssumption ==
  /\ Routers \subseteq Bits3 \ {{}}
  /\ Home \in Routers /\ Foreign \subseteq Routers \ {Home}
  /\ \A r \in Routers : NextHop[r] \in [DOMAIN NextHop[r] -> Routers]

ASSUME HostAssumption ==
  /\ Mobiles \subseteq Bits4 \ {{}, Fifteen}
  /\ Cn \in Routers \X (Bits4 \ {{}})
  /\ \A m \in Mobiles : Cn # <<Home, m>>
  /\ Destinations \subseteq Addresses
  /\ Offered \subseteq Bits4 /\ Temporary \subseteq Bits4 \ {{}}

ASSUME ValueAssumption ==
  /\ Garbage \subseteq Packet /\ Distances \subseteq Bits4
  /\ LIFE_TIME \in Bits4 \ {{}} /\ MaxWire \in Nat /\ MaxIP \in Nat

VARIABLES
  wire,   \* packets under way, each with the place it has come to
  unit,   \* MUnit of each mobile unit
  fa,     \* fa[r][c]: the identity in that row of FAHArray of r, or Nobody
  har,    \* har[r][h]: ForeignAgentAddress and CareOfAddress in HARArray of r
  asked   \* history: asked[m] are the places m has asked to be served at

vars == <<wire, unit, fa, har, asked>>

Nobody == <<Bits, Bits>>
Unwritten == <<Bits, Bits>>

-----------------------------------------------------------------------------
(***************************************************************************)
(* What packets say, and how they are put together.  Fields a sender does  *)
(* not put are zero.                                                       *)
(***************************************************************************)

Adverts ==
  [type : {ICMP_PKT_TYPE}, source : Bits4, flags : Bits3, coa : Bits4, life : Bits4]
Requests ==
  [type : {REQT_PKT_TYPE}, flags : SUBSET (0 .. 1), life : Bits4, home : Bits4,
   agent : Bits4, coa : Bits4, source : Bits4, dest : Bits4]
Rows ==
  [type : {RIP_PKT_TYPE}, source : Bits4, network : Bits4, distance : Bits4]
Replies ==
  [type : {REPLY_PKT_TYPE}, life : Bits4, home : Bits4, coa : Bits4,
   source : Bits4, dest : Bits4]
IPs ==
  [type : {IP_PKT_TYPE}, srcNwk : Bits3, srcIf : Bits4, dstNwk : Bits3, dstIf : Bits4,
   tunnel : SUBSET {0}, viaNwk : Bits3, viaIf : Bits4, toNwk : Packet, toIf : Packet]

Messages == Adverts \cup Requests \cup Rows \cup Replies \cup IPs

Icmp(v) ==
  Put(ICMP_LifeTime, v.life, Put(ICMP_AvailCareOfAddress(1), v.coa,
    Put(ICMP_ICMPFlags, v.flags, Put(ICMP_SourceAddressOfPacket, v.source,
      Put(PacketType, v.type, {})))))

Reqt(v) ==
  Put(REQT_LifeTimeOfRegistration, v.life, Put(REQT_HomeAgentAddress, v.agent,
    Put(REQT_HomeAddress, v.home, Put(REQT_CareOfAddress, v.coa,
      Put(REQT_SourceAddressOfPacket, v.source, Put(PacketType, v.type,
        Put(REQT_REQTFlags, v.flags,
          Put(REQT_DestinationAddressOfPacket, v.dest, {}))))))))

\* ROUTER_makeRipPackets.
Rip(v) ==
  Put(RIP_DistanceToNwk, v.distance, Put(RIP_NetworkID, v.network,
    Put(RIP_SrcAddrROUTER, v.source, Put(PacketType, v.type, {}))))

Reply(v) ==
  Put(REPLY_DestinationAddressOfPacket, v.dest, Put(REPLY_SourceAddressOfPacket, v.source,
    Put(REPLY_CareOfAddress, v.coa, Put(REPLY_HomeAddress, v.home,
      Put(REPLY_LifeTimeOfRegistration, v.life, Put(PacketType, v.type, {}))))))

\* The part an IP packet has before it meets a home agent.
Plain(v) ==
  Put(IP_DestNwk(FALSE), v.dstNwk, Put(IP_DestinationInterface(FALSE), v.dstIf,
    Put(IP_SourceInterface(TRUE), v.viaIf, Put(IP_SourceInterface(FALSE), v.srcIf,
      Put(IP_SrcNwk(TRUE), v.viaNwk, Put(IP_SrcNwk(FALSE), v.srcNwk,
        Put(PacketType, v.type, {})))))))

\* What the home agent adds to a packet p for the care-of address toNwk, toIf.
Tunnelled(p, toNwk, toIf, viaNwk, viaIf) ==
  Put(IP_SourceInterface(TRUE), viaIf, Put(IP_SrcNwk(TRUE), viaNwk,
    Put(IP_DestinationInterface(TRUE), toIf, Put(IP_DestNwk(TRUE), toNwk,
      Put(IP_TunneledPkt, {0}, p)))))

Encoded(v) ==
  CASE v.type = ICMP_PKT_TYPE  -> Icmp(v)
    [] v.type = REQT_PKT_TYPE  -> Reqt(v)
    [] v.type = RIP_PKT_TYPE   -> Rip(v)
    [] v.type = REPLY_PKT_TYPE -> Reply(v)
    [] v.type = IP_PKT_TYPE    -> Plain(v)

\* spoilt: a field that was never written has been copied into the packet, or
\* into the one it answers.
Sent(v, place) == [at |-> place, meant |-> v, bits |-> Encoded(v), spoilt |-> FALSE]

\* No router listens on the port of another number.
SentToRouter(v, r) == IF r \in Routers THEN {Sent(v, <<r, Gate>>)} ELSE {}

TypeIs(w, type) == Check(PacketType, w.bits) = type

IsTunnelled(w) == Check(IP_TunneledPkt, w.bits) # {}

\* Conversations and the rest have their own bounds.
RoomForIP == Cardinality({w \in wire : TypeIs(w, IP_PKT_TYPE)}) < MaxIP

Room == Cardinality({w \in wire : ~TypeIs(w, IP_PKT_TYPE)}) < MaxWire

-----------------------------------------------------------------------------
(***************************************************************************)
(* Who listens where.  An interface in use is bound by one process.        *)
(***************************************************************************)

Place(m, u) == IF u.away THEN <<u.net, u.port>> ELSE <<u.ha, m>>

Listening(a) == a = Cn \/ \E m \in Mobiles : Place(m, unit[m]) = a

Taken(m, a) == a = Cn \/ \E x \in Mobiles \ {m} : Place(x, unit[x]) = a

\* The ports u may come to have on its network: its own, or a random one if
\* that is taken.
Bound(m, u) ==
  {[u EXCEPT !.port = p] : p \in
     IF Taken(m, <<u.net, u.port>>)
     THEN {t \in Temporary : ~Taken(m, <<u.net, t>>)} ELSE {u.port}}

\* What waits at a socket is lost when the socket is bound elsewhere.
Missed(m, u) ==
  IF Place(m, u) = Place(m, unit[m]) THEN {}
  ELSE {w \in wire : w.at = Place(m, unit[m])}

-----------------------------------------------------------------------------
(***************************************************************************)
(* Plausible slips, against which the properties are tried.                *)
(***************************************************************************)

\* The source address is left as it came.
RelayedWithoutSource(r, w) ==
  [w EXCEPT !.meant.flags = REQT_PKT_IS_A_RELAY,
            !.bits = Put(REQT_REQTFlags, REQT_PKT_IS_A_RELAY, w.bits)]

\* The outer source: of a tunnelled packet that is the home agent.
OriginOuter(w) == <<Check(IP_SrcNwk(IsTunnelled(w)), w.bits),
                    Check(IP_SourceInterface(IsTunnelled(w)), w.bits)>>

-----------------------------------------------------------------------------
NewUnit(p) ==
  [away |-> FALSE, net |-> {}, port |-> p, agent |-> {}, ha |-> Home, life |-> {},
   registered |-> FALSE, previously |-> FALSE, haveHome |-> FALSE]

Init ==
  /\ wire = {}
  /\ unit \in [Mobiles -> {NewUnit(p) : p \in Temporary}]
  /\ fa = [r \in Routers |-> [c \in Bits4 |-> Nobody]]
  /\ har = [r \in Routers |-> [h \in Bits4 |-> Unwritten]]
  /\ asked = [m \in Mobiles |-> {}]

(***************************************************************************)
(* Packets the mobile unit m writes; u is its state.                       *)
(***************************************************************************)

\* MUNITREQ_makeREQPKTSForHomeAgent.
HomeRequest(m, u) ==
  SentToRouter([type |-> REQT_PKT_TYPE, flags |-> {}, life |-> {}, home |-> m,
                agent |-> u.ha, coa |-> {}, source |-> {}, dest |-> {}], u.ha)

\* MUNITREQ_makeREQPKTSForForeignAgentReg.
ForeignRequest(m, u) ==
  SentToRouter([type |-> REQT_PKT_TYPE, flags |-> REQT_PKT_DIRECT_FROM_MU,
                life |-> u.life, home |-> m, agent |-> u.ha, coa |-> u.port,
                source |-> {}, dest |-> u.ha], u.agent)

\* MUNITREQ_makeREQPKTSForForeignAgentDeReg.
Deregistration(u) ==
  SentToRouter([type |-> REQT_PKT_TYPE, flags |-> REQT_PKT_DEREGISTER, life |-> {},
                home |-> {}, agent |-> {}, coa |-> u.port, source |-> {}, dest |-> {}],
               u.agent)

Asks(m, place) == asked' = [asked EXCEPT ![m] = @ \cup {place}]

\* MOBUNT_makeIPPacket.
IPFrom(m, u, to) ==
  [type |-> IP_PKT_TYPE, srcNwk |-> u.ha, srcIf |-> m, dstNwk |-> to[1], dstIf |-> to[2],
   tunnel |-> {}, viaNwk |-> IF u.away THEN u.net ELSE {}, viaIf |-> u.port,
   toNwk |-> {}, toIf |-> {}]

\* Away it goes to the router of the network, at home to the home agent.
Gateway(u) == IF u.away THEN u.net ELSE u.ha

-----------------------------------------------------------------------------
(***************************************************************************)
(* Routers.                                                                *)
(***************************************************************************)

At(r, w) == w.at = <<r, Gate>>

\* ROUTER_DoRouting.  Without a route the packet is gone.
Forwarded(r, dest, w) ==
  IF dest \in DOMAIN NextHop[r] THEN {[w EXCEPT !.at = <<NextHop[r][dest], Gate>>]}
  ELSE {}

SWFC_rerouteRQSTPKT(w)  == Check(REQT_DestinationAddressOfPacket, w.bits)
SWFC_rerouteREPLYPKT(w) == Check(REPLY_DestinationAddressOfPacket, w.bits)
SWFC_rerouteIPPKT(w)    == Check(IP_DestNwk(IsTunnelled(w)), w.bits)

\* ROUTER_sendPKTToMobileUnit: where it sends to.  The address zero is looked
\* for where an IP packet has its destination, in a reply too.
MUsSendPort(net, coa, w) ==
  <<net, IF coa # {} THEN coa
         ELSE Check(IP_DestinationInterface(IsTunnelled(w)), w.bits)>>

Delivered(a, w) == IF Listening(a) THEN {[w EXCEPT !.at = a]} ELSE {}

RowFields(p) == <<Check(REQT_SourceAddressOfPacket, p), Check(REQT_CareOfAddress, p)>>

\* ROUTER_PrepareREPLYPKTForFA.
ReplyTo(p) ==
  [type |-> REPLY_PKT_TYPE, life |-> Check(REQT_LifeTimeOfRegistration, p),
   home |-> Check(REQT_HomeAddress, p), coa |-> Check(REQT_CareOfAddress, p),
   source |-> Check(REQT_HomeAgentAddress, p),
   dest |-> Check(REQT_SourceAddressOfPacket, p)]

IsRequest(r, w) == At(r, w) /\ TypeIs(w, REQT_PKT_TYPE)

IsForMe(r, w) == Check(REQT_HomeAgentAddress, w.bits) = r

Flags(w) == Check(REQT_REQTFlags, w.bits)

\* setHAR, whatever the flags; a relayed request is answered.
RegisterHome(r, w) ==
  /\ IsRequest(r, w) /\ IsForMe(r, w)
  /\ har' = [har EXCEPT ![r][Check(REQT_HomeAddress, w.bits)] = RowFields(w.bits)]
  /\ wire' = (wire \ {w}) \cup
       (IF REQT_PKT_IS_A_RELAY \subseteq Flags(w)
        THEN LET reply == Sent(ReplyTo(w.bits), <<r, Gate>>)
             IN  Forwarded(r, SWFC_rerouteREPLYPKT(reply), reply)
        ELSE {})
  /\ UNCHANGED <<unit, fa, asked>>

Deregister(r, w) ==
  /\ IsRequest(r, w) /\ ~IsForMe(r, w)
  /\ Flags(w) \cup REQT_PKT_DEREGISTER = REQT_PKT_DEREGISTER
  /\ fa' = [fa EXCEPT ![r][Check(REQT_CareOfAddress, w.bits)] = Nobody]
  /\ wire' = wire \ {w}
  /\ UNCHANGED <<unit, har, asked>>

\* The flag of a relay and the number of this router are put into the packet
\* that came.
Relayed(r, w) ==
  [w EXCEPT !.meant = [@ EXCEPT !.flags = REQT_PKT_IS_A_RELAY, !.source = r],
            !.bits = Put(REQT_SourceAddressOfPacket, r,
                       Put(REQT_REQTFlags, REQT_PKT_IS_A_RELAY, w.bits))]

IsDirect(r, w) ==
  /\ IsRequest(r, w) /\ ~IsForMe(r, w)
  /\ Flags(w) \cup REQT_PKT_DEREGISTER # REQT_PKT_DEREGISTER
  /\ Flags(w) \cup REQT_PKT_DIRECT_FROM_MU = REQT_PKT_DIRECT_FROM_MU

Identity(p) == <<Check(REQT_HomeAgentAddress, p), Check(REQT_HomeAddress, p)>>

\* setFAHR.
RegisterForeign(r, w) ==
  LET coa == Check(REQT_CareOfAddress, w.bits)
  IN  /\ IsDirect(r, w)
      /\ fa[r][coa] \in {Nobody, Identity(w.bits)}
      /\ fa' = [fa EXCEPT ![r][coa] = Identity(w.bits)]
      /\ wire' = (wire \ {w})
                   \cup Forwarded(r, SWFC_rerouteRQSTPKT(w), Relayed(r, w))
      /\ UNCHANGED <<unit, har, asked>>

Refuse(r, w) ==
  /\ IsDirect(r, w)
  /\ fa[r][Check(REQT_CareOfAddress, w.bits)] \notin {Nobody, Identity(w.bits)}
  /\ wire' = wire \ {w}
  /\ UNCHANGED <<unit, fa, har, asked>>

PassRelay(r, w) ==
  /\ IsRequest(r, w) /\ ~IsForMe(r, w)
  /\ Flags(w) \notin {REQT_PKT_DEREGISTER, REQT_PKT_DIRECT_FROM_MU}
  /\ wire' = (wire \ {w}) \cup Forwarded(r, SWFC_rerouteRQSTPKT(w), w)
  /\ UNCHANGED <<unit, fa, har, asked>>

PassReply(r, w) ==
  LET dest == Check(REPLY_DestinationAddressOfPacket, w.bits)
  IN  /\ At(r, w) /\ TypeIs(w, REPLY_PKT_TYPE)
      /\ wire' = (wire \ {w}) \cup
           (IF dest = r
            THEN Delivered(MUsSendPort(dest, Check(REPLY_CareOfAddress, w.bits), w), w)
            ELSE Forwarded(r, SWFC_rerouteREPLYPKT(w), w))
      /\ UNCHANGED <<unit, fa, har, asked>>

\* ROUTER_UpdateMyRoutingTable, which is Rip's.
TakeRow(r, w) ==
  /\ At(r, w) /\ TypeIs(w, RIP_PKT_TYPE)
  /\ wire' = wire \ {w}
  /\ UNCHANGED <<unit, fa, har, asked>>

IPDestination(w) ==
  Check(IP_DestinationInterface(IsTunnelled(w)), w.bits)

\* Where ROUTER_sendPKTToMobileUnit looks for the host of an IP packet.
HostOf(r, w) == MUsSendPort(r, IPDestination(w), w)

IsIP(r, w) == At(r, w) /\ TypeIs(w, IP_PKT_TYPE)

ForwardIP(r, w) ==
  /\ IsIP(r, w) /\ Check(IP_DestNwk(IsTunnelled(w)), w.bits) # r
  /\ wire' = (wire \ {w}) \cup Forwarded(r, SWFC_rerouteIPPKT(w), w)
  /\ UNCHANGED <<unit, fa, har, asked>>

\* The packet has come through its tunnel, or the host is at home.
DeliverIP(r, w) ==
  /\ IsIP(r, w) /\ Check(IP_DestNwk(IsTunnelled(w)), w.bits) = r
  /\ Listening(HostOf(r, w)) \/ IsTunnelled(w)
  /\ wire' = (wire \ {w}) \cup Delivered(HostOf(r, w), w)
  /\ UNCHANGED <<unit, fa, har, asked>>

\* findHAR: the row is used whether or not anything was written to it.
FoundHAR(r, home) ==
  IF har[r][home] = Unwritten THEN Garbage \X Garbage ELSE {har[r][home]}

TunnelThrough(r, w, home, row) ==
  [w EXCEPT !.meant = [@ EXCEPT !.tunnel = {0}, !.toNwk = row[1], !.toIf = row[2],
                                !.viaNwk = r, !.viaIf = home],
            !.spoilt = @ \/ har[r][home] = Unwritten,
            !.bits = Tunnelled(w.bits, row[1], row[2], r, home)]

\* Nobody listens at the destination, so it is taken for a home address.  For
\* fifteen findHAR stops the router and the packet is gone.
TunnelIP(r, w) ==
  /\ IsIP(r, w) /\ Check(IP_DestNwk(FALSE), w.bits) = r
  /\ ~IsTunnelled(w) /\ ~Listening(HostOf(r, w))
  /\ \E row \in FoundHAR(r, IPDestination(w)) :
       LET t == TunnelThrough(r, w, IPDestination(w), row)
       IN  wire' = (wire \ {w}) \cup
                     (IF IPDestination(w) = Fifteen THEN {}
                      ELSE Forwarded(r, SWFC_rerouteIPPKT(t), t))
  /\ UNCHANGED <<unit, fa, har, asked>>

RouterStep(r, w) ==
  \/ RegisterHome(r, w) \/ Deregister(r, w) \/ RegisterForeign(r, w) \/ Refuse(r, w)
  \/ PassRelay(r, w) \/ PassReply(r, w) \/ TakeRow(r, w)
  \/ ForwardIP(r, w) \/ DeliverIP(r, w) \/ TunnelIP(r, w)

\* ROUTER_sendRoutingTableToNeigbour, one row.  Bound: nothing else is under way.
SendRow(r, neighbour, network, distance) ==
  /\ wire = {} /\ network \in DOMAIN NextHop[r]
  /\ neighbour \in {NextHop[r][n] : n \in DOMAIN NextHop[r]}
  /\ wire' = wire \cup SentToRouter([type |-> RIP_PKT_TYPE, source |-> r,
                         network |-> network, distance |-> distance], neighbour)
  /\ UNCHANGED <<unit, fa, har, asked>>

\* ROUTER_makeIcmpPackets; without a free address neither address nor lifetime
\* is put.
Advert(r, coa) ==
  [type |-> ICMP_PKT_TYPE, source |-> r,
   flags |-> ICMP_setAgentType({}, IF r = Home THEN ICMP_AGT_HME ELSE ICMP_AGT_FGN),
   coa |-> coa, life |-> IF coa = {} THEN {} ELSE LIFE_TIME]

\* ROUTER_advertiseICMPNetwork reaches a mobile unit; fifteen is left out.
Advertise(r, m) ==
  /\ Room
  /\ Place(m, unit[m])[1] = r /\ Place(m, unit[m])[2] # Fifteen
  /\ \E coa \in IF r = Home THEN {{}} ELSE Offered :
       wire' = wire \cup {Sent(Advert(r, coa), Place(m, unit[m]))}
  /\ UNCHANGED <<unit, fa, har, asked>>

-----------------------------------------------------------------------------
(***************************************************************************)
(* The correspondent node.                                                 *)
(***************************************************************************)

\* CNUnit_makeIPPKTs, and the packet to the router of its network.
SendIP(to) ==
  /\ RoomForIP
  /\ wire' = wire \cup SentToRouter(
       [type |-> IP_PKT_TYPE, srcNwk |-> Cn[1], srcIf |-> Cn[2], dstNwk |-> to[1],
        dstIf |-> to[2], tunnel |-> {}, viaNwk |-> {}, viaIf |-> {},
        toNwk |-> {}, toIf |-> {}], Cn[1])
  /\ UNCHANGED <<unit, fa, har, asked>>

\* CNUnit_Callback shows the packet.
Show(w) ==
  /\ w.at = Cn
  /\ wire' = wire \ {w}
  /\ UNCHANGED <<unit, fa, har, asked>>

(***************************************************************************)
(* Mobile units.                                                           *)
(***************************************************************************)

Reaches(m, w) == w.at = Place(m, unit[m])

AgentIs(w, agent) ==
  /\ TypeIs(w, ICMP_PKT_TYPE)
  /\ ICMP_checkAgentType(Check(ICMP_ICMPFlags, w.bits)) = agent

Advertiser(w) == Check(ICMP_SourceAddressOfPacket, w.bits)

IsHomeAdvert(m, w) == AgentIs(w, ICMP_AGT_HME) /\ ~unit[m].away /\ ~unit[m].haveHome

\* MOBUNT_CallbackHA hears the home agent for the first time.
TakeHomeAdvert(m, w) ==
  LET u == [unit[m] EXCEPT !.ha = Advertiser(w), !.haveHome = TRUE]
  IN  /\ Reaches(m, w) /\ IsHomeAdvert(m, w)
      /\ unit' = [unit EXCEPT ![m] = u]
      /\ Asks(m, <<{}, {}>>)
      /\ wire' = (wire \ {w}) \cup HomeRequest(m, u)
      /\ UNCHANGED <<fa, har>>

\* MUNIT_ICMP_setFrgnAgent and the address, unless the unit renews.
FromAdvert(u, w) ==
  IF u.previously THEN u
  ELSE [u EXCEPT !.life = Check(ICMP_LifeTime, w.bits), !.net = Advertiser(w),
                 !.agent = Advertiser(w),
                 !.port = Check(ICMP_AvailCareOfAddress(1), w.bits)]

\* MOBUNT_CallbackFA: a unit that is not registered, or whose lifetime has
\* passed, asks for the address and then listens there if it can.
TakeAdvert(m, w) ==
  LET u == FromAdvert(unit[m], w)
  IN  /\ Reaches(m, w) /\ unit[m].away /\ AgentIs(w, ICMP_AGT_FGN)
      /\ \E b \in Bound(m, u) :
           /\ unit' = [unit EXCEPT ![m] = b]
           /\ wire' = (wire \ (Missed(m, b) \cup {w})) \cup ForeignRequest(m, u)
      /\ Asks(m, <<u.agent, u.port>>)
      /\ UNCHANGED <<fa, har>>

TakeReply(m, w) ==
  /\ Reaches(m, w) /\ unit[m].away /\ TypeIs(w, REPLY_PKT_TYPE)
  /\ unit' = [unit EXCEPT ![m].registered = TRUE, ![m].previously = TRUE]
  /\ wire' = wire \ {w}
  /\ UNCHANGED <<fa, har, asked>>

\* MOBUNT_ReplyIPPkt always wants the original address.
Origin(w) == <<Check(IP_SrcNwk(FALSE), w.bits), Check(IP_SourceInterface(FALSE), w.bits)>>

MayAnswer(u) == u.away => u.registered

Answer(m, w) ==
  /\ Reaches(m, w) /\ TypeIs(w, IP_PKT_TYPE) /\ MayAnswer(unit[m])
  /\ wire' = (wire \ {w}) \cup
       {[a EXCEPT !.spoilt = w.spoilt] :
          a \in SentToRouter(IPFrom(m, unit[m], Origin(w)), Gateway(unit[m]))}
  /\ UNCHANGED <<unit, fa, har, asked>>

\* MOBUNT_sendIPPacket finds that the lifetime has passed, and asks again
\* instead of answering.
AskAgain(m, w) ==
  /\ Reaches(m, w) /\ TypeIs(w, IP_PKT_TYPE)
  /\ unit[m].away /\ unit[m].registered
  /\ unit' = [unit EXCEPT ![m].registered = FALSE]
  /\ Asks(m, <<unit[m].agent, unit[m].port>>)
  /\ wire' = (wire \ {w}) \cup ForeignRequest(m, unit[m])
  /\ UNCHANGED <<fa, har>>

\* Advertisements of the wrong kind or while the registration lasts, replies at
\* home, IP packets that cannot be answered.
Ignore(m, w) ==
  /\ Reaches(m, w)
  /\ \/ TypeIs(w, ICMP_PKT_TYPE) /\ ~IsHomeAdvert(m, w)
        /\ (unit[m].away /\ AgentIs(w, ICMP_AGT_FGN)) => unit[m].life # {}
     \/ TypeIs(w, REPLY_PKT_TYPE) /\ ~unit[m].away
     \/ TypeIs(w, IP_PKT_TYPE) /\ ~MayAnswer(unit[m])
  /\ wire' = wire \ {w}
  /\ UNCHANGED <<unit, fa, har, asked>>

UnitStep(m, w) ==
  \/ TakeHomeAdvert(m, w) \/ TakeAdvert(m, w) \/ TakeReply(m, w)
  \/ Answer(m, w) \/ AskAgain(m, w) \/ Ignore(m, w)

\* MOBUNT_UnitMove, from the end of a residence to the beginning of the next.
\* A unit that is still registered says so to the agent it leaves.
Move(m, n) ==
  LET u == unit[m]
      left == IF u.away THEN [u EXCEPT !.life = {}, !.previously = FALSE,
                                       !.registered = FALSE]
              ELSE [u EXCEPT !.registered = FALSE]
  IN  /\ IF u.away THEN u.previously ELSE u.haveHome
      /\ n # Gateway(u)
      /\ \E b \in IF n = Home THEN {[left EXCEPT !.away = FALSE]}
                  ELSE Bound(m, [left EXCEPT !.away = TRUE, !.net = n]) :
           /\ unit' = [unit EXCEPT ![m] = b]
           /\ wire' = (wire \ Missed(m, b))
                        \cup (IF u.away /\ u.registered THEN Deregistration(u) ELSE {})
      /\ UNCHANGED <<fa, har, asked>>

-----------------------------------------------------------------------------
Next ==
  \/ \E w \in wire :
       \/ \E r \in Routers : RouterStep(r, w)
       \/ \E m \in Mobiles : UnitStep(m, w)
       \/ Show(w)
  \/ \E r, n \in Routers : \E network \in Routers, distance \in Distances :
       SendRow(r, n, network, distance)
  \/ \E r \in Foreign \cup {Home}, m \in Mobiles : Advertise(r, m)
  \/ \E to \in Destinations : SendIP(to)
  \/ \E m \in Mobiles, n \in Foreign \cup {Home} : Move(m, n)

Spec == Init /\ [][Next]_vars

-----------------------------------------------------------------------------
(***************************************************************************)
(* Properties.                                                             *)
(***************************************************************************)

Units ==
  [away : BOOLEAN, net : Bits3, port : Bits4, agent : Bits4, ha : {Home}, life : Bits4,
   registered : BOOLEAN, previously : BOOLEAN, haveHome : BOOLEAN]

Identities == Bits4 \X Bits4

TypeOK ==
  /\ wire \subseteq [at : (Bits3 \X Bits4) \cup (Routers \X {Gate}), meant : Messages,
                     bits : Packet, spoilt : BOOLEAN]
  /\ unit \in [Mobiles -> Units]
  /\ fa \in [Routers -> [Bits4 -> Identities \cup {Nobody}]]
  /\ har \in [Routers -> [Bits4 -> Identities \cup {Unwritten}]]
  /\ asked \in [Mobiles -> SUBSET Identities]

\* mip_protocol.h:38-39: "a put function is a set function, a check function is
\* a read function".  The fields of p are read as v says, but for the
\* inner source interface of an IP packet: it is read with the mask of another
\* field (mip_protocol.c:240), and nothing but a display reads it.
Says(p, v) ==
  /\ Check(PacketType, p) = v.type
  /\ v.type = ICMP_PKT_TYPE =>
       /\ Check(ICMP_SourceAddressOfPacket, p) = v.source
       /\ Check(ICMP_ICMPFlags, p) = v.flags
       /\ Check(ICMP_AvailCareOfAddress(1), p) = v.coa
       /\ Check(ICMP_LifeTime, p) = v.life
  /\ v.type = REQT_PKT_TYPE =>
       /\ Check(REQT_REQTFlags, p) = v.flags
       /\ Check(REQT_LifeTimeOfRegistration, p) = v.life
       /\ Check(REQT_HomeAddress, p) = v.home
       /\ Check(REQT_HomeAgentAddress, p) = v.agent
       /\ Check(REQT_CareOfAddress, p) = v.coa
       /\ Check(REQT_SourceAddressOfPacket, p) = v.source
       /\ Check(REQT_DestinationAddressOfPacket, p) = v.dest
  /\ v.type = RIP_PKT_TYPE =>
       /\ Check(RIP_SrcAddrROUTER, p) = v.source
       /\ Check(RIP_NetworkID, p) = v.network
       /\ Check(RIP_DistanceToNwk, p) = v.distance
  /\ v.type = REPLY_PKT_TYPE =>
       /\ Check(REPLY_LifeTimeOfRegistration, p) = v.life
       /\ Check(REPLY_HomeAddress, p) = v.home
       /\ Check(REPLY_CareOfAddress, p) = v.coa
       /\ Check(REPLY_SourceAddressOfPacket, p) = v.source
       /\ Check(REPLY_DestinationAddressOfPacket, p) = v.dest
  /\ v.type = IP_PKT_TYPE =>
       /\ Check(IP_SrcNwk(FALSE), p) = v.srcNwk
       /\ Check(IP_SourceInterface(FALSE), p) = v.srcIf
       /\ Check(IP_DestNwk(FALSE), p) = v.dstNwk
       /\ Check(IP_DestinationInterface(FALSE), p) = v.dstIf
       /\ Check(IP_TunneledPkt, p) = v.tunnel
       /\ Check(IP_SrcNwk(TRUE), p) = v.viaNwk
       /\ Check(IP_DestNwk(TRUE), p) = v.toNwk
       /\ Check(IP_DestinationInterface(TRUE), p) = v.toIf

\* On the whole way of a packet, through relays, home agents and tunnels that
\* put more fields into it, each field reads what its writer meant: no field is
\* put over another (MIPPROTO_setBitAt, mip_protocol.c:102, clears nothing).
ReadAsMeant == \A w \in wire : ~w.spoilt => Says(w.bits, w.meant)

\* What the home agent believes of a home address, and where a tunnel leads, is
\* a place the mobile unit with that home address has itself asked for: the
\* address survives the request, the relay, the table (setHAR) and the tunnel.
BoundWhereAsked ==
  /\ \A r \in Routers, h \in Bits4 :
       har[r][h] # Unwritten => h \in Mobiles /\ har[r][h] \in asked[h]
  /\ \A w \in wire :
       TypeIs(w, IP_PKT_TYPE) /\ IsTunnelled(w) /\ ~w.spoilt =>
         \E m \in Mobiles :
           /\ Check(IP_DestinationInterface(FALSE), w.bits) = m
           /\ <<Check(IP_DestNwk(TRUE), w.bits),
                Check(IP_DestinationInterface(TRUE), w.bits)>> \in asked[m]

\* mobile_unit.c:996-999: a mobile unit answers to where a packet came from in
\* the first place, tunnelled or not, so every packet is the correspondent's
\* or for it.
AnswersGoToSender ==
  \A w \in wire :
    TypeIs(w, IP_PKT_TYPE) /\ ~w.spoilt =>
      Cn \in {Origin(w), <<Check(IP_DestNwk(FALSE), w.bits),
                          Check(IP_DestinationInterface(FALSE), w.bits)>>}
=============================================================================
