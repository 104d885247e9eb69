---------------------------- MODULE PacketsProofs ----------------------------
(***************************************************************************)
(* Proofs about Packets for every network of routers, every set of mobile  *)
(* units, every address that is advertised or chosen, and whatever an      *)
(* unwritten row holds: a field reads as it was meant, a unit is bound     *)
(* where it asked to be, an answer goes to the host that asked.            *)
(***************************************************************************)
EXTENDS Packets, TLAPS

-----------------------------------------------------------------------------
(***************************************************************************)
(* Bits.                                                                   *)
(***************************************************************************)

LEMMA PutMember ==
  ASSUME NEW f, f.at \in Nat, NEW v \in SUBSET Nat, NEW p \in SUBSET Bits
  PROVE  /\ Put(f, v, p) \in SUBSET Bits
         /\ \A k \in Bits : k \in Put(f, v, p) <=> k \in p \/ k - f.at \in v
<1> DEFINE s == ShiftLeft(v, f.at)
<1>1. \A k \in Bits : k \in s <=> \E b \in v : k = b + f.at
  BY DEF ShiftLeft
<1>2. \A k \in Bits : (\E b \in v : k = b + f.at) <=> k - f.at \in v
  BY DEF Bits
<1>3. s \in SUBSET Bits /\ Put(f, v, p) = p \cup s
  BY DEF ShiftLeft, Put, MIPPROTO_setBitAt
<1> HIDE DEF s
<1> QED BY <1>1, <1>2, <1>3

\* What a check function returns, bit by bit.
LEMMA CheckMember ==
  ASSUME NEW a \in Nat, NEW k \in Nat, a + k \in Bits, NEW p \in SUBSET Bits
  PROVE  LET c == Check(Field(a, a .. a + k, a), p)
         IN  /\ c \in SUBSET (0 .. k)
             /\ \A b \in 0 .. k : b \in c <=> b + a \in p
<1> DEFINE m == p \cap (a .. a + k)
           c == {b - a : b \in m} \cap Bits
<1>1. Check(Field(a, a .. a + k, a), p) = c
  BY DEF Check, Field, ShiftRight
<1>2. \A b \in m : b \in Int /\ a <= b /\ b <= a + k /\ b \in p
  BY DEF Bits
<1>3. c \in SUBSET (0 .. k)
  BY <1>2 DEF Bits
<1>4. ASSUME NEW b \in 0 .. k
      PROVE  b \in c <=> b + a \in p
  <2>1. b \in Bits /\ b + a \in a .. a + k
    BY DEF Bits
  <2>2. b \in c <=> \E x \in m : b = x - a
    BY <2>1
  <2>3. (\E x \in m : b = x - a) <=> b + a \in m
    BY <1>2, <2>1
  <2> QED BY <2>1, <2>2, <2>3
<1> QED BY <1>1, <1>3, <1>4

\* A field that holds the bits of v reads as v.
LEMMA ReadBack ==
  ASSUME NEW a \in Nat, NEW k \in Nat, a + k \in Bits, NEW p \in SUBSET Bits,
         NEW v \in SUBSET (0 .. k),
         \A b \in 0 .. k : b + a \in p <=> b \in v
  PROVE  Check(Field(a, a .. a + k, a), p) = v
BY CheckMember

\* A field nothing was put into reads as before.
LEMMA Untouched ==
  ASSUME NEW f, f.mask \in SUBSET Bits, NEW g, g.at \in Nat, NEW v \in SUBSET Nat,
         NEW p \in SUBSET Bits, \A k \in f.mask : k - g.at \notin v
  PROVE  Check(f, Put(g, v, p)) = Check(f, p)
<1>1. Put(g, v, p) \cap f.mask = p \cap f.mask
  BY PutMember
<1> QED BY <1>1 DEF Check

\* A field that was zero reads as what was put into it.
LEMMA PutIntoZero ==
  ASSUME NEW a \in Nat, NEW k \in Nat, a + k \in Bits, NEW p \in SUBSET Bits,
         NEW v \in SUBSET (0 .. k), Check(Field(a, a .. a + k, a), p) \subseteq v
  PROVE  Check(Field(a, a .. a + k, a), Put(Field(a, a .. a + k, a), v, p)) = v
<1> DEFINE f == Field(a, a .. a + k, a)
           q == Put(f, v, p)
<1>1. f.at = a /\ v \in SUBSET Nat
  BY DEF Field
<1>2. q \in SUBSET Bits /\ \A b \in Bits : b \in q <=> b \in p \/ b - a \in v
  BY <1>1, PutMember
<1> HIDE DEF q
<1>3. ASSUME NEW b \in 0 .. k
      PROVE  b + a \in q <=> b \in v
  <2>1. b + a \in Bits /\ (b + a) - a = b
    BY DEF Bits
  <2>2. b + a \in p => b \in v
    BY CheckMember
  <2> QED BY <1>2, <2>1, <2>2
<1> QED BY <1>2, <1>3, ReadBack DEF q

\* The masks of the tunnel's fields.
LEMMA Masks ==
  /\ ShiftRight(IP_SRC_NWK_MASK, 14) = 11 .. 13
  /\ ShiftRight(IP_DES_NWK_MASK, 14) = 4 .. 6
  /\ ShiftRight(IP_DES_IF_MASK, 14) = 0 .. 3
<1>1. ASSUME NEW lo \in 14 .. 31, NEW hi \in 14 .. 31
      PROVE  ShiftRight(lo .. hi, 14) = lo - 14 .. hi - 14
  <2>1. \A b \in lo - 14 .. hi - 14 : b + 14 \in lo .. hi /\ b \in Bits /\ b = (b + 14) - 14
    BY DEF Bits
  <2>2. \A b \in lo .. hi : b - 14 \in lo - 14 .. hi - 14
    OBVIOUS
  <2> QED BY <2>1, <2>2 DEF ShiftRight
<1> QED BY <1>1 DEF IP_SRC_NWK_MASK, IP_DES_NWK_MASK, IP_DES_IF_MASK

-----------------------------------------------------------------------------
(***************************************************************************)
(* What is put together says what was meant.                               *)
(***************************************************************************)

\* The types are five numbers.
LEMMA Types ==
  /\ ICMP_PKT_TYPE \notin {REQT_PKT_TYPE, RIP_PKT_TYPE, REPLY_PKT_TYPE, IP_PKT_TYPE}
  /\ REQT_PKT_TYPE \notin {RIP_PKT_TYPE, REPLY_PKT_TYPE, IP_PKT_TYPE}
  /\ RIP_PKT_TYPE \notin {REPLY_PKT_TYPE, IP_PKT_TYPE}
  /\ REPLY_PKT_TYPE # IP_PKT_TYPE
<1>1. /\ 0 \in ICMP_PKT_TYPE /\ 1 \notin ICMP_PKT_TYPE /\ 2 \notin ICMP_PKT_TYPE
      /\ 0 \notin REQT_PKT_TYPE /\ 1 \in REQT_PKT_TYPE /\ 2 \notin REQT_PKT_TYPE
      /\ 0 \in RIP_PKT_TYPE /\ 1 \in RIP_PKT_TYPE /\ 2 \notin RIP_PKT_TYPE
      /\ 0 \notin REPLY_PKT_TYPE /\ 1 \notin REPLY_PKT_TYPE /\ 2 \in REPLY_PKT_TYPE
      /\ 0 \in IP_PKT_TYPE /\ 1 \in IP_PKT_TYPE /\ 2 \in IP_PKT_TYPE
  BY DEF ICMP_PKT_TYPE, REQT_PKT_TYPE, RIP_PKT_TYPE, REPLY_PKT_TYPE, IP_PKT_TYPE
<1> QED BY <1>1

IsField(f, a, c) == a \in Nat /\ c \in Bits /\ a <= c /\ f = Field(a, a .. c, a)

\* The bits a to c of p are those of v.
Holds(p, a, c, v) ==
  v \in SUBSET (0 .. c - a) /\ \A b \in a .. c : b \in p <=> b - a \in v

LEMMA ReadHeld ==
  ASSUME NEW f, NEW a, NEW c, IsField(f, a, c), NEW p \in SUBSET Bits,
         NEW v, Holds(p, a, c, v)
  PROVE  Check(f, p) = v
<1> DEFINE k == c - a
<1>1. a \in Nat /\ k \in Nat /\ a + k = c /\ v \in SUBSET (0 .. k)
      /\ c \in Bits /\ f = Field(a, a .. c, a)
  BY DEF IsField, Holds, Bits
<1>2. \A b \in 0 .. k : b + a \in a .. c /\ (b + a) - a = b
  BY <1>1
<1>3. \A b \in 0 .. k : b + a \in p <=> b \in v
  BY <1>2 DEF Holds
<1> HIDE DEF k
<1> QED BY <1>1, <1>3, ReadBack

LEMMA PutField ==
  ASSUME NEW f, NEW a, NEW c, IsField(f, a, c), NEW p \in SUBSET Bits,
         NEW v \in SUBSET Nat
  PROVE  /\ Put(f, v, p) \in SUBSET Bits
         /\ \A b \in Bits : b \in Put(f, v, p) <=> b \in p \/ b - a \in v
BY PutMember DEF IsField, Field

LEMMA Fields ==
  /\ IsField(PacketType, 29, 31)
  /\ IsField(ICMP_ICMPFlags, 26, 28) /\ IsField(ICMP_LifeTime, 18, 21)
  /\ IsField(ICMP_AvailCareOfAddress(1), 22, 25)
  /\ IsField(ICMP_SourceAddressOfPacket, 10, 13)
  /\ IsField(REQT_REQTFlags, 27, 28) /\ IsField(REQT_LifeTimeOfRegistration, 23, 26)
  /\ IsField(REQT_HomeAddress, 19, 22) /\ IsField(REQT_HomeAgentAddress, 15, 18)
  /\ IsField(REQT_CareOfAddress, 11, 14) /\ IsField(REQT_SourceAddressOfPacket, 4, 7)
  /\ IsField(REQT_DestinationAddressOfPacket, 0, 3)
  /\ IsField(RIP_SrcAddrROUTER, 25, 28) /\ IsField(RIP_NetworkID, 21, 24)
  /\ IsField(RIP_DistanceToNwk, 17, 20)
  /\ IsField(REPLY_LifeTimeOfRegistration, 23, 26) /\ IsField(REPLY_HomeAddress, 19, 22)
  /\ IsField(REPLY_CareOfAddress, 11, 14) /\ IsField(REPLY_SourceAddressOfPacket, 4, 7)
  /\ IsField(REPLY_DestinationAddressOfPacket, 0, 3)
  /\ IsField(IP_SrcNwk(FALSE), 25, 27) /\ IsField(IP_SourceInterface(FALSE), 21, 24)
  /\ IsField(IP_DestNwk(FALSE), 18, 20) /\ IsField(IP_DestinationInterface(FALSE), 14, 17)
  /\ IsField(IP_TunneledPkt, 28, 28)
  /\ IsField(IP_SrcNwk(TRUE), 11, 13) /\ IsField(IP_DestNwk(TRUE), 4, 6)
  /\ IsField(IP_DestinationInterface(TRUE), 0, 3)
BY Masks DEF IsField, Bits, PacketType, ICMP_ICMPFlags, ICMP_LifeTime,
   ICMP_AvailCareOfAddress, ICMP_SourceAddressOfPacket, REQT_REQTFlags,
   REQT_LifeTimeOfRegistration, REQT_HomeAddress, REQT_HomeAgentAddress,
   REQT_CareOfAddress, REQT_SourceAddressOfPacket, REQT_DestinationAddressOfPacket,
   RIP_SrcAddrROUTER, RIP_NetworkID, RIP_DistanceToNwk, REPLY_LifeTimeOfRegistration,
   REPLY_HomeAddress, REPLY_CareOfAddress, REPLY_SourceAddressOfPacket,
   REPLY_DestinationAddressOfPacket, IP_SrcNwk, IP_SourceInterface, IP_DestNwk,
   IP_DestinationInterface, IP_TunneledPkt, IP_SRC_NWK_MASK, IP_SRC_IF_MASK,
   IP_DES_NWK_MASK, IP_DES_IF_MASK

LEMMA IcmpSays ==
  ASSUME NEW v \in Adverts
  PROVE  Icmp(v) \in Packet /\ Says(Icmp(v), v)
<1> DEFINE p1 == Put(PacketType, v.type, {})
           p2 == Put(ICMP_SourceAddressOfPacket, v.source, p1)
           p3 == Put(ICMP_ICMPFlags, v.flags, p2)
           p4 == Put(ICMP_AvailCareOfAddress(1), v.coa, p3)
           p5 == Put(ICMP_LifeTime, v.life, p4)
<1>1. /\ v.type = {0} /\ v.source \in SUBSET (0 .. 3) /\ v.flags \in SUBSET (0 .. 2)
      /\ v.coa \in SUBSET (0 .. 3) /\ v.life \in SUBSET (0 .. 3)
  BY DEF Adverts, Bits3, Bits4, ICMP_PKT_TYPE
<1>2. v.type \in SUBSET Nat /\ v.source \in SUBSET Nat /\ v.flags \in SUBSET Nat
      /\ v.coa \in SUBSET Nat /\ v.life \in SUBSET Nat
  BY <1>1
<1>3. p1 \in SUBSET Bits /\ \A b \in Bits : b \in p1 <=> b - 29 \in v.type
  BY <1>2, Fields, PutField
<1> HIDE DEF p1
<1>4. p2 \in SUBSET Bits /\ \A b \in Bits : b \in p2 <=> b \in p1 \/ b - 10 \in v.source
  BY <1>2, <1>3, Fields, PutField
<1> HIDE DEF p2
<1>5. p3 \in SUBSET Bits /\ \A b \in Bits : b \in p3 <=> b \in p2 \/ b - 26 \in v.flags
  BY <1>2, <1>4, Fields, PutField
<1> HIDE DEF p3
<1>6. p4 \in SUBSET Bits /\ \A b \in Bits : b \in p4 <=> b \in p3 \/ b - 22 \in v.coa
  BY <1>2, <1>5, Fields, PutField
<1> HIDE DEF p4
<1>7. p5 \in SUBSET Bits /\ \A b \in Bits : b \in p5 <=> b \in p4 \/ b - 18 \in v.life
  BY <1>2, <1>6, Fields, PutField
<1> HIDE DEF p5
<1>8. \A b \in Bits : b \in p5 <=> \/ b - 29 \in v.type \/ b - 10 \in v.source
                                  \/ b - 26 \in v.flags \/ b - 22 \in v.coa
                                  \/ b - 18 \in v.life
  BY <1>3, <1>4, <1>5, <1>6, <1>7
<1>9. Holds(p5, 29, 31, v.type)
  BY <1>1, <1>8 DEF Holds, Bits
<1>10. Holds(p5, 10, 13, v.source)
  BY <1>1, <1>8 DEF Holds, Bits
<1>11. Holds(p5, 26, 28, v.flags)
  BY <1>1, <1>8 DEF Holds, Bits
<1>12. Holds(p5, 22, 25, v.coa)
  BY <1>1, <1>8 DEF Holds, Bits
<1>13. Holds(p5, 18, 21, v.life)
  BY <1>1, <1>8 DEF Holds, Bits
<1>14. /\ Check(PacketType, p5) = v.type
       /\ Check(ICMP_SourceAddressOfPacket, p5) = v.source
       /\ Check(ICMP_ICMPFlags, p5) = v.flags
       /\ Check(ICMP_AvailCareOfAddress(1), p5) = v.coa
       /\ Check(ICMP_LifeTime, p5) = v.life
  BY <1>7, <1>9, <1>10, <1>11, <1>12, <1>13, Fields, ReadHeld
<1>15. Icmp(v) = p5
  BY DEF Icmp, p1, p2, p3, p4, p5
<1> QED BY <1>1, <1>7, <1>14, <1>15, Types DEF Says, Packet, ICMP_PKT_TYPE

LEMMA ReqtSays ==
  ASSUME NEW v \in Requests
  PROVE  Reqt(v) \in Packet /\ Says(Reqt(v), v)
<1> DEFINE p1 == Put(REQT_DestinationAddressOfPacket, v.dest, {})
           p2 == Put(REQT_REQTFlags, v.flags, p1)
           p3 == Put(PacketType, v.type, p2)
           p4 == Put(REQT_SourceAddressOfPacket, v.source, p3)
           p5 == Put(REQT_CareOfAddress, v.coa, p4)
           p6 == Put(REQT_HomeAddress, v.home, p5)
           p7 == Put(REQT_HomeAgentAddress, v.agent, p6)
           p8 == Put(REQT_LifeTimeOfRegistration, v.life, p7)
<1>1. /\ v.dest \in SUBSET (0 .. 3) /\ v.flags \in SUBSET (0 .. 1)
      /\ v.type = {1} /\ v.source \in SUBSET (0 .. 3)
      /\ v.coa \in SUBSET (0 .. 3) /\ v.home \in SUBSET (0 .. 3)
      /\ v.agent \in SUBSET (0 .. 3) /\ v.life \in SUBSET (0 .. 3)
  BY DEF Requests, Bits3, Bits4, REQT_PKT_TYPE
<1>2. /\ v.dest \in SUBSET Nat /\ v.flags \in SUBSET Nat /\ v.type \in SUBSET Nat
      /\ v.source \in SUBSET Nat /\ v.coa \in SUBSET Nat /\ v.home \in SUBSET Nat
      /\ v.agent \in SUBSET Nat /\ v.life \in SUBSET Nat
  BY <1>1
<1>3. p1 \in SUBSET Bits /\ \A b \in Bits : b \in p1 <=> b - 0 \in v.dest
  BY <1>2, Fields, PutField
<1> HIDE DEF p1
<1>4. p2 \in SUBSET Bits /\ \A b \in Bits : b \in p2 <=> b \in p1 \/ b - 27 \in v.flags
  BY <1>2, <1>3, Fields, PutField
<1> HIDE DEF p2
<1>5. p3 \in SUBSET Bits /\ \A b \in Bits : b \in p3 <=> b \in p2 \/ b - 29 \in v.type
  BY <1>2, <1>4, Fields, PutField
<1> HIDE DEF p3
<1>6. p4 \in SUBSET Bits /\ \A b \in Bits : b \in p4 <=> b \in p3 \/ b - 4 \in v.source
  BY <1>2, <1>5, Fields, PutField
<1> HIDE DEF p4
<1>7. p5 \in SUBSET Bits /\ \A b \in Bits : b \in p5 <=> b \in p4 \/ b - 11 \in v.coa
  BY <1>2, <1>6, Fields, PutField
<1> HIDE DEF p5
<1>8. p6 \in SUBSET Bits /\ \A b \in Bits : b \in p6 <=> b \in p5 \/ b - 19 \in v.home
  BY <1>2, <1>7, Fields, PutField
<1> HIDE DEF p6
<1>9. p7 \in SUBSET Bits /\ \A b \in Bits : b \in p7 <=> b \in p6 \/ b - 15 \in v.agent
  BY <1>2, <1>8, Fields, PutField
<1> HIDE DEF p7
<1>10. p8 \in SUBSET Bits /\ \A b \in Bits : b \in p8 <=> b \in p7 \/ b - 23 \in v.life
  BY <1>2, <1>9, Fields, PutField
<1> HIDE DEF p8
<1>11. \A b \in Bits :
         b \in p8 <=> \/ b - 0 \in v.dest \/ b - 27 \in v.flags
                      \/ b - 29 \in v.type \/ b - 4 \in v.source
                      \/ b - 11 \in v.coa \/ b - 19 \in v.home
                      \/ b - 15 \in v.agent \/ b - 23 \in v.life
  BY <1>3, <1>4, <1>5, <1>6, <1>7, <1>8, <1>9, <1>10
<1>12. Holds(p8, 0, 3, v.dest)
  BY <1>1, <1>11 DEF Holds, Bits
<1>13. Holds(p8, 27, 28, v.flags)
  BY <1>1, <1>11 DEF Holds, Bits
<1>14. Holds(p8, 29, 31, v.type)
  BY <1>1, <1>11 DEF Holds, Bits
<1>15. Holds(p8, 4, 7, v.source)
  BY <1>1, <1>11 DEF Holds, Bits
<1>16. Holds(p8, 11, 14, v.coa)
  BY <1>1, <1>11 DEF Holds, Bits
<1>17. Holds(p8, 19, 22, v.home)
  BY <1>1, <1>11 DEF Holds, Bits
<1>18. Holds(p8, 15, 18, v.agent)
  BY <1>1, <1>11 DEF Holds, Bits
<1>19. Holds(p8, 23, 26, v.life)
  BY <1>1, <1>11 DEF Holds, Bits
<1>20. /\ Check(REQT_DestinationAddressOfPacket, p8) = v.dest
       /\ Check(REQT_REQTFlags, p8) = v.flags
       /\ Check(PacketType, p8) = v.type
       /\ Check(REQT_SourceAddressOfPacket, p8) = v.source
       /\ Check(REQT_CareOfAddress, p8) = v.coa
       /\ Check(REQT_HomeAddress, p8) = v.home
       /\ Check(REQT_HomeAgentAddress, p8) = v.agent
       /\ Check(REQT_LifeTimeOfRegistration, p8) = v.life
  BY <1>10, <1>12, <1>13, <1>14, <1>15, <1>16, <1>17, <1>18, <1>19, Fields, ReadHeld
<1>21. Reqt(v) = p8
  BY DEF Reqt, p1, p2, p3, p4, p5, p6, p7, p8
<1> QED BY <1>1, <1>10, <1>20, <1>21, Types DEF Says, Packet, REQT_PKT_TYPE

LEMMA RipSays ==
  ASSUME NEW v \in Rows
  PROVE  Rip(v) \in Packet /\ Says(Rip(v), v)
<1> DEFINE p1 == Put(PacketType, v.type, {})
           p2 == Put(RIP_SrcAddrROUTER, v.source, p1)
           p3 == Put(RIP_NetworkID, v.network, p2)
           p4 == Put(RIP_DistanceToNwk, v.distance, p3)
<1>1. /\ v.type = {0, 1} /\ v.source \in SUBSET (0 .. 3)
      /\ v.network \in SUBSET (0 .. 3) /\ v.distance \in SUBSET (0 .. 3)
  BY DEF Rows, Bits3, Bits4, RIP_PKT_TYPE
<1>2. /\ v.type \in SUBSET Nat /\ v.source \in SUBSET Nat /\ v.network \in SUBSET Nat
      /\ v.distance \in SUBSET Nat
  BY <1>1
<1>3. p1 \in SUBSET Bits /\ \A b \in Bits : b \in p1 <=> b - 29 \in v.type
  BY <1>2, Fields, PutField
<1> HIDE DEF p1
<1>4. p2 \in SUBSET Bits /\ \A b \in Bits : b \in p2 <=> b \in p1 \/ b - 25 \in v.source
  BY <1>2, <1>3, Fields, PutField
<1> HIDE DEF p2
<1>5. p3 \in SUBSET Bits /\ \A b \in Bits : b \in p3 <=> b \in p2 \/ b - 21 \in v.network
  BY <1>2, <1>4, Fields, PutField
<1> HIDE DEF p3
<1>6. p4 \in SUBSET Bits /\ \A b \in Bits : b \in p4 <=> b \in p3 \/ b - 17 \in v.distance
  BY <1>2, <1>5, Fields, PutField
<1> HIDE DEF p4
<1>7. \A b \in Bits :
         b \in p4 <=> \/ b - 29 \in v.type \/ b - 25 \in v.source
                      \/ b - 21 \in v.network \/ b - 17 \in v.distance
  BY <1>3, <1>4, <1>5, <1>6
<1>8. Holds(p4, 29, 31, v.type)
  BY <1>1, <1>7 DEF Holds, Bits
<1>9. Holds(p4, 25, 28, v.source)
  BY <1>1, <1>7 DEF Holds, Bits
<1>10. Holds(p4, 21, 24, v.network)
  BY <1>1, <1>7 DEF Holds, Bits
<1>11. Holds(p4, 17, 20, v.distance)
  BY <1>1, <1>7 DEF Holds, Bits
<1>12. /\ Check(PacketType, p4) = v.type
       /\ Check(RIP_SrcAddrROUTER, p4) = v.source
       /\ Check(RIP_NetworkID, p4) = v.network
       /\ Check(RIP_DistanceToNwk, p4) = v.distance
  BY <1>6, <1>8, <1>9, <1>10, <1>11, Fields, ReadHeld
<1>13. Rip(v) = p4
  BY DEF Rip, p1, p2, p3, p4
<1> QED BY <1>1, <1>6, <1>12, <1>13, Types DEF Says, Packet, RIP_PKT_TYPE

LEMMA ReplySays ==
  ASSUME NEW v \in Replies
  PROVE  Reply(v) \in Packet /\ Says(Reply(v), v)
<1> DEFINE p1 == Put(PacketType, v.type, {})
           p2 == Put(REPLY_LifeTimeOfRegistration, v.life, p1)
           p3 == Put(REPLY_HomeAddress, v.home, p2)
           p4 == Put(REPLY_CareOfAddress, v.coa, p3)
           p5 == Put(REPLY_SourceAddressOfPacket, v.source, p4)
           p6 == Put(REPLY_DestinationAddressOfPacket, v.dest, p5)
<1>1. /\ v.type = {2} /\ v.life \in SUBSET (0 .. 3)
      /\ v.home \in SUBSET (0 .. 3) /\ v.coa \in SUBSET (0 .. 3)
      /\ v.source \in SUBSET (0 .. 3) /\ v.dest \in SUBSET (0 .. 3)
  BY DEF Replies, Bits3, Bits4, REPLY_PKT_TYPE
<1>2. /\ v.type \in SUBSET Nat /\ v.life \in SUBSET Nat /\ v.home \in SUBSET Nat
      /\ v.coa \in SUBSET Nat /\ v.source \in SUBSET Nat /\ v.dest \in SUBSET Nat
  BY <1>1
<1>3. p1 \in SUBSET Bits /\ \A b \in Bits : b \in p1 <=> b - 29 \in v.type
  BY <1>2, Fields, PutField
<1> HIDE DEF p1
<1>4. p2 \in SUBSET Bits /\ \A b \in Bits : b \in p2 <=> b \in p1 \/ b - 23 \in v.life
  BY <1>2, <1>3, Fields, PutField
<1> HIDE DEF p2
<1>5. p3 \in SUBSET Bits /\ \A b \in Bits : b \in p3 <=> b \in p2 \/ b - 19 \in v.home
  BY <1>2, <1>4, Fields, PutField
<1> HIDE DEF p3
<1>6. p4 \in SUBSET Bits /\ \A b \in Bits : b \in p4 <=> b \in p3 \/ b - 11 \in v.coa
  BY <1>2, <1>5, Fields, PutField
<1> HIDE DEF p4
<1>7. p5 \in SUBSET Bits /\ \A b \in Bits : b \in p5 <=> b \in p4 \/ b - 4 \in v.source
  BY <1>2, <1>6, Fields, PutField
<1> HIDE DEF p5
<1>8. p6 \in SUBSET Bits /\ \A b \in Bits : b \in p6 <=> b \in p5 \/ b - 0 \in v.dest
  BY <1>2, <1>7, Fields, PutField
<1> HIDE DEF p6
<1>9. \A b \in Bits :
         b \in p6 <=> \/ b - 29 \in v.type \/ b - 23 \in v.life
                      \/ b - 19 \in v.home \/ b - 11 \in v.coa
                      \/ b - 4 \in v.source \/ b - 0 \in v.dest
  BY <1>3, <1>4, <1>5, <1>6, <1>7, <1>8
<1>10. Holds(p6, 29, 31, v.type)
  BY <1>1, <1>9 DEF Holds, Bits
<1>11. Holds(p6, 23, 26, v.life)
  BY <1>1, <1>9 DEF Holds, Bits
<1>12. Holds(p6, 19, 22, v.home)
  BY <1>1, <1>9 DEF Holds, Bits
<1>13. Holds(p6, 11, 14, v.coa)
  BY <1>1, <1>9 DEF Holds, Bits
<1>14. Holds(p6, 4, 7, v.source)
  BY <1>1, <1>9 DEF Holds, Bits
<1>15. Holds(p6, 0, 3, v.dest)
  BY <1>1, <1>9 DEF Holds, Bits
<1>16. /\ Check(PacketType, p6) = v.type
       /\ Check(REPLY_LifeTimeOfRegistration, p6) = v.life
       /\ Check(REPLY_HomeAddress, p6) = v.home
       /\ Check(REPLY_CareOfAddress, p6) = v.coa
       /\ Check(REPLY_SourceAddressOfPacket, p6) = v.source
       /\ Check(REPLY_DestinationAddressOfPacket, p6) = v.dest
  BY <1>8, <1>10, <1>11, <1>12, <1>13, <1>14, <1>15, Fields, ReadHeld
<1>17. Reply(v) = p6
  BY DEF Reply, p1, p2, p3, p4, p5, p6
<1> QED BY <1>1, <1>8, <1>16, <1>17, Types DEF Says, Packet, REPLY_PKT_TYPE

LEMMA PlainSays ==
  ASSUME NEW v \in IPs, v.tunnel = {}, v.toNwk = {}, v.toIf = {}
  PROVE  Plain(v) \in Packet /\ Says(Plain(v), v)
<1> DEFINE f2 == IP_SrcNwk(FALSE)
           f3 == IP_SrcNwk(TRUE)
           f4 == IP_SourceInterface(FALSE)
           f5 == IP_SourceInterface(TRUE)
           f6 == IP_DestinationInterface(FALSE)
           f7 == IP_DestNwk(FALSE)
           f8 == IP_DestNwk(TRUE)
           f9 == IP_DestinationInterface(TRUE)
           p1 == Put(PacketType, v.type, {})
           p2 == Put(f2, v.srcNwk, p1)
           p3 == Put(f3, v.viaNwk, p2)
           p4 == Put(f4, v.srcIf, p3)
           p5 == Put(f5, v.viaIf, p4)
           p6 == Put(f6, v.dstIf, p5)
           p7 == Put(f7, v.dstNwk, p6)
<1>f. /\ IsField(f2, 25, 27) /\ IsField(f3, 11, 13) /\ IsField(f4, 21, 24)
      /\ f5.at = 7 /\ IsField(f6, 14, 17) /\ IsField(f7, 18, 20)
      /\ IsField(f8, 4, 6) /\ IsField(f9, 0, 3)
  BY Fields DEF IP_SourceInterface, Field
<1> HIDE DEF f2, f3, f4, f5, f6, f7, f8, f9
<1>1. /\ v.type = {0, 1, 2} /\ v.srcNwk \in SUBSET (0 .. 2)
      /\ v.viaNwk \in SUBSET (0 .. 2) /\ v.srcIf \in SUBSET (0 .. 3)
      /\ v.viaIf \in SUBSET (0 .. 3) /\ v.dstIf \in SUBSET (0 .. 3)
      /\ v.dstNwk \in SUBSET (0 .. 2)
  BY DEF IPs, Bits3, Bits4, IP_PKT_TYPE
<1>2. /\ v.type \in SUBSET Nat /\ v.srcNwk \in SUBSET Nat /\ v.viaNwk \in SUBSET Nat
      /\ v.srcIf \in SUBSET Nat /\ v.viaIf \in SUBSET Nat /\ v.dstIf \in SUBSET Nat
      /\ v.dstNwk \in SUBSET Nat
  BY <1>1
<1>3. p1 \in SUBSET Bits /\ \A b \in Bits : b \in p1 <=> b - 29 \in v.type
  BY <1>2, Fields, PutField
<1> HIDE DEF p1
<1>4. p2 \in SUBSET Bits /\ \A b \in Bits : b \in p2 <=> b \in p1 \/ b - 25 \in v.srcNwk
  BY <1>2, <1>3, <1>f, PutField
<1> HIDE DEF p2
<1>5. p3 \in SUBSET Bits /\ \A b \in Bits : b \in p3 <=> b \in p2 \/ b - 11 \in v.viaNwk
  BY <1>2, <1>4, <1>f, PutField
<1> HIDE DEF p3
<1>6. p4 \in SUBSET Bits /\ \A b \in Bits : b \in p4 <=> b \in p3 \/ b - 21 \in v.srcIf
  BY <1>2, <1>5, <1>f, PutField
<1> HIDE DEF p4
<1>7. p5 \in SUBSET Bits /\ \A b \in Bits : b \in p5 <=> b \in p4 \/ b - 7 \in v.viaIf
  BY <1>2, <1>6, <1>f, PutMember
<1> HIDE DEF p5
<1>8. p6 \in SUBSET Bits /\ \A b \in Bits : b \in p6 <=> b \in p5 \/ b - 14 \in v.dstIf
  BY <1>2, <1>7, <1>f, PutField
<1> HIDE DEF p6
<1>9. p7 \in SUBSET Bits /\ \A b \in Bits : b \in p7 <=> b \in p6 \/ b - 18 \in v.dstNwk
  BY <1>2, <1>8, <1>f, PutField
<1> HIDE DEF p7
<1>10. \A b \in Bits :
         b \in p7 <=> \/ b - 29 \in v.type \/ b - 25 \in v.srcNwk
                      \/ b - 11 \in v.viaNwk \/ b - 21 \in v.srcIf
                      \/ b - 7 \in v.viaIf \/ b - 14 \in v.dstIf
                      \/ b - 18 \in v.dstNwk
  BY <1>3, <1>4, <1>5, <1>6, <1>7, <1>8, <1>9
<1>11. Holds(p7, 29, 31, v.type)
  BY <1>1, <1>10 DEF Holds, Bits
<1>12. Holds(p7, 25, 27, v.srcNwk)
  BY <1>1, <1>10 DEF Holds, Bits
<1>13. Holds(p7, 11, 13, v.viaNwk)
  BY <1>1, <1>10 DEF Holds, Bits
<1>14. Holds(p7, 21, 24, v.srcIf)
  BY <1>1, <1>10 DEF Holds, Bits
<1>15. Holds(p7, 7, 10, v.viaIf)
  BY <1>1, <1>10 DEF Holds, Bits
<1>16. Holds(p7, 14, 17, v.dstIf)
  BY <1>1, <1>10 DEF Holds, Bits
<1>17. Holds(p7, 18, 20, v.dstNwk)
  BY <1>1, <1>10 DEF Holds, Bits
<1>18. Holds(p7, 28, 28, v.tunnel)
  BY <1>1, <1>10 DEF Holds, Bits
<1>19. Holds(p7, 4, 6, v.toNwk)
  BY <1>1, <1>10 DEF Holds, Bits
<1>20. Holds(p7, 0, 3, v.toIf)
  BY <1>1, <1>10 DEF Holds, Bits
<1>21. /\ Check(PacketType, p7) = v.type
       /\ Check(f2, p7) = v.srcNwk
       /\ Check(f3, p7) = v.viaNwk
       /\ Check(f4, p7) = v.srcIf
       /\ Check(f6, p7) = v.dstIf
       /\ Check(f7, p7) = v.dstNwk
       /\ Check(IP_TunneledPkt, p7) = v.tunnel
       /\ Check(f8, p7) = v.toNwk
       /\ Check(f9, p7) = v.toIf
  BY <1>9, <1>11, <1>12, <1>13, <1>14, <1>15, <1>16, <1>17, <1>18, <1>19,
     <1>20, <1>f, Fields, ReadHeld
<1>22. Plain(v) = p7
  BY DEF Plain, f2, f3, f4, f5, f6, f7, p1, p2, p3, p4, p5, p6, p7
<1> QED BY <1>1, <1>9, <1>21, <1>22, Types
        DEF Says, Packet, IP_PKT_TYPE, f2, f3, f4, f6, f7, f8, f9

-----------------------------------------------------------------------------
(***************************************************************************)
(* What is put into a packet under way.                                    *)
(***************************************************************************)

LEMMA PutBeside ==
  ASSUME NEW f, NEW a, NEW c, IsField(f, a, c), NEW p \in SUBSET Bits,
         NEW g, g.at \in Nat, NEW n \in Nat, NEW v \in SUBSET (0 .. n),
         c < g.at \/ g.at + n < a
  PROVE  Check(f, Put(g, v, p)) = Check(f, p)
<1>1. f.mask = a .. c /\ f.mask \in SUBSET Bits /\ a \in Nat /\ c \in Nat
  BY DEF IsField, Field, Bits
<1>2. \A k \in f.mask : k - g.at \notin v
  BY <1>1
<1> QED BY <1>1, <1>2, Untouched

LEMMA PutIntoNone ==
  ASSUME NEW f, NEW a, NEW c, IsField(f, a, c), NEW p \in SUBSET Bits,
         NEW v \in SUBSET (0 .. c - a), Check(f, p) \subseteq v
  PROVE  Check(f, Put(f, v, p)) = v
<1> DEFINE k == c - a
<1>1. a \in Nat /\ k \in Nat /\ a + k = c /\ c \in Bits /\ f = Field(a, a .. c, a)
  BY DEF IsField, Bits
<1> HIDE DEF k
<1>2. v \in SUBSET (0 .. k)
  BY DEF k
<1> QED BY <1>1, <1>2, PutIntoZero

\* A foreign agent adds to a request the flag of a relay, and itself.
LEMMA RelaySays ==
  ASSUME NEW v \in Requests, v.flags = REQT_PKT_DIRECT_FROM_MU, v.source = {},
         NEW p \in Packet, Says(p, v), NEW r \in Bits4
  PROVE  LET q == Put(REQT_SourceAddressOfPacket, r,
                    Put(REQT_REQTFlags, REQT_PKT_IS_A_RELAY, p))
             t == [v EXCEPT !.flags = REQT_PKT_IS_A_RELAY, !.source = r]
         IN  q \in Packet /\ Says(q, t) /\ t \in Requests
<1> DEFINE q1 == Put(REQT_REQTFlags, REQT_PKT_IS_A_RELAY, p)
           q == Put(REQT_SourceAddressOfPacket, r, q1)
           t == [v EXCEPT !.flags = REQT_PKT_IS_A_RELAY, !.source = r]
<1>1. /\ REQT_PKT_IS_A_RELAY \in SUBSET (0 .. 1) /\ r \in SUBSET (0 .. 3)
      /\ REQT_PKT_IS_A_RELAY \in SUBSET Nat /\ r \in SUBSET Nat
      /\ REQT_REQTFlags.at = 27 /\ REQT_SourceAddressOfPacket.at = 4
      /\ p \in SUBSET Bits
  BY DEF REQT_PKT_IS_A_RELAY, Bits4, REQT_REQTFlags, REQT_SourceAddressOfPacket, Field,
         Packet
<1>2. /\ t \in Requests /\ t.type = REQT_PKT_TYPE /\ t.flags = REQT_PKT_IS_A_RELAY
      /\ t.source = r /\ t.life = v.life /\ t.home = v.home /\ t.agent = v.agent
      /\ t.coa = v.coa /\ t.dest = v.dest /\ v.type = REQT_PKT_TYPE
  BY <1>1 DEF Requests, Bits4
<1>3. q1 \in SUBSET Bits
  BY <1>1, Fields, PutField
<1>4. q \in SUBSET Bits
  BY <1>1, <1>3, Fields, PutField
<1>5. /\ Check(PacketType, p) = REQT_PKT_TYPE
      /\ Check(REQT_REQTFlags, p) = REQT_PKT_DIRECT_FROM_MU
      /\ Check(REQT_LifeTimeOfRegistration, p) = v.life
      /\ Check(REQT_HomeAddress, p) = v.home
      /\ Check(REQT_HomeAgentAddress, p) = v.agent
      /\ Check(REQT_CareOfAddress, p) = v.coa
      /\ Check(REQT_SourceAddressOfPacket, p) = {}
      /\ Check(REQT_DestinationAddressOfPacket, p) = v.dest
  BY <1>2 DEF Says
<1>6. Check(REQT_REQTFlags, q1) = REQT_PKT_IS_A_RELAY
  BY <1>1, <1>5, Fields, PutIntoNone DEF REQT_PKT_DIRECT_FROM_MU, REQT_PKT_IS_A_RELAY
<1>b. ASSUME NEW f, NEW a, NEW c, IsField(f, a, c), c < 27 \/ 28 < a
      PROVE  Check(f, q1) = Check(f, p)
  BY <1>1, <1>b, PutBeside
<1>7. /\ Check(PacketType, q1) = REQT_PKT_TYPE
      /\ Check(REQT_LifeTimeOfRegistration, q1) = v.life
      /\ Check(REQT_HomeAddress, q1) = v.home
      /\ Check(REQT_HomeAgentAddress, q1) = v.agent
      /\ Check(REQT_CareOfAddress, q1) = v.coa
      /\ Check(REQT_SourceAddressOfPacket, q1) = {}
      /\ Check(REQT_DestinationAddressOfPacket, q1) = v.dest
  BY <1>5, <1>b, Fields
<1> HIDE DEF q1
<1>8. Check(REQT_SourceAddressOfPacket, q) = r
  BY <1>1, <1>3, <1>7, Fields, PutIntoNone
<1>9. /\ Check(PacketType, q) = REQT_PKT_TYPE
      /\ Check(REQT_REQTFlags, q) = REQT_PKT_IS_A_RELAY
      /\ Check(REQT_LifeTimeOfRegistration, q) = v.life
      /\ Check(REQT_HomeAddress, q) = v.home
      /\ Check(REQT_HomeAgentAddress, q) = v.agent
      /\ Check(REQT_CareOfAddress, q) = v.coa
      /\ Check(REQT_DestinationAddressOfPacket, q) = v.dest
  BY <1>1, <1>3, <1>6, <1>7, Fields, PutBeside
<1> HIDE DEF q, t
<1>10. Says(q, t)
  BY <1>2, <1>8, <1>9, Types DEF Says
<1> QED BY <1>2, <1>4, <1>10 DEF Packet, q, q1, t

\* Reading a field says what its bits are.
LEMMA HeldIfRead ==
  ASSUME NEW f, NEW a, NEW c, IsField(f, a, c), NEW p \in SUBSET Bits
  PROVE  Holds(p, a, c, Check(f, p))
<1> DEFINE k == c - a
           v == Check(f, p)
<1>1. a \in Nat /\ k \in Nat /\ a + k = c /\ c \in Bits /\ f = Field(a, a .. c, a)
  BY DEF IsField, Bits
<1> HIDE DEF k
<1>2. v \in SUBSET (0 .. k) /\ \A b \in 0 .. k : b \in v <=> b + a \in p
  BY <1>1, CheckMember
<1> HIDE DEF v
<1>3. \A b \in a .. c : b - a \in 0 .. k /\ (b - a) + a = b
  BY <1>1
<1>4. \A b \in a .. c : b \in p <=> b - a \in v
  BY <1>2, <1>3
<1>5. v \in SUBSET (0 .. c - a)
  BY <1>2 DEF k
<1>6. Holds(p, a, c, v)
  BY <1>4, <1>5 DEF Holds
<1> QED BY <1>6 DEF v

\* What a home agent adds.
LEMMA TunnelBits ==
  ASSUME NEW p \in Packet, NEW toNwk \in Packet, NEW toIf \in Packet,
         NEW viaNwk \in Bits3, NEW viaIf \in Bits4
  PROVE  LET q == Tunnelled(p, toNwk, toIf, viaNwk, viaIf)
         IN  /\ q \in Packet
             /\ \A b \in Bits :
                  b \in q <=> \/ b \in p \/ b - 28 \in {0} \/ b - 4 \in toNwk
                              \/ b \in toIf \/ b - 11 \in viaNwk \/ b - 7 \in viaIf
<1> DEFINE f2 == IP_DestNwk(TRUE)
           f3 == IP_DestinationInterface(TRUE)
           f4 == IP_SrcNwk(TRUE)
           f5 == IP_SourceInterface(TRUE)
           q1 == Put(IP_TunneledPkt, {0}, p)
           q2 == Put(f2, toNwk, q1)
           q3 == Put(f3, toIf, q2)
           q4 == Put(f4, viaNwk, q3)
           q5 == Put(f5, viaIf, q4)
<1>1. /\ p \in SUBSET Bits /\ {0} \in SUBSET Nat /\ toNwk \in SUBSET Nat
      /\ toIf \in SUBSET Nat /\ viaNwk \in SUBSET Nat /\ viaIf \in SUBSET Nat
  BY DEF Packet, Bits, Bits3, Bits4
<1>f. IsField(f2, 4, 6) /\ IsField(f3, 0, 3) /\ IsField(f4, 11, 13) /\ f5.at = 7
  BY Fields DEF IP_SourceInterface, Field
<1> HIDE DEF f2, f3, f4, f5
<1>2. q1 \in SUBSET Bits /\ \A b \in Bits : b \in q1 <=> b \in p \/ b - 28 \in {0}
  BY <1>1, Fields, PutField
<1> HIDE DEF q1
<1>3. q2 \in SUBSET Bits /\ \A b \in Bits : b \in q2 <=> b \in q1 \/ b - 4 \in toNwk
  BY <1>1, <1>2, <1>f, PutField
<1> HIDE DEF q2
<1>4. q3 \in SUBSET Bits /\ \A b \in Bits : b \in q3 <=> b \in q2 \/ b \in toIf
  <2>1. IsField(f3, 0, 3) /\ toIf \in SUBSET Nat /\ q2 \in SUBSET Bits
    BY <1>1, <1>3, <1>f
  <2>2. \A a : IsField(f3, a, 3) =>
          q3 \in SUBSET Bits /\ \A b \in Bits : b \in q3 <=> b \in q2 \/ b - a \in toIf
    BY <2>1, PutField
  <2> HIDE DEF q3
  <2>3. \A b \in Bits : b \in q3 <=> b \in q2 \/ b - 0 \in toIf
    BY <2>1, <2>2
  <2> QED BY <2>1, <2>2, <2>3 DEF Bits
<1> HIDE DEF q3
<1>5. q4 \in SUBSET Bits /\ \A b \in Bits : b \in q4 <=> b \in q3 \/ b - 11 \in viaNwk
  BY <1>1, <1>4, <1>f, PutField
<1> HIDE DEF q4
<1>6. q5 \in SUBSET Bits /\ \A b \in Bits : b \in q5 <=> b \in q4 \/ b - 7 \in viaIf
  <2>1. f5.at \in Nat /\ viaIf \in SUBSET Nat /\ q4 \in SUBSET Bits
    BY <1>1, <1>5, <1>f
  <2>2. q5 \in SUBSET Bits /\ \A b \in Bits : b \in q5 <=> b \in q4 \/ b - f5.at \in viaIf
    BY <2>1, PutMember
  <2> QED BY <2>2, <1>f
<1> HIDE DEF q5
<1>7. Tunnelled(p, toNwk, toIf, viaNwk, viaIf) = q5
  BY DEF Tunnelled, q1, q2, q3, q4, q5, f2, f3, f4, f5
<1>8. \A b \in Bits : b \in q5 <=> \/ b \in p \/ b - 28 \in {0} \/ b - 4 \in toNwk
                                   \/ b \in toIf \/ b - 11 \in viaNwk \/ b - 7 \in viaIf
  BY <1>2, <1>3, <1>4, <1>5, <1>6
<1> QED BY <1>6, <1>7, <1>8 DEF Packet

\* Whatever word is taken for an address, the packet stays an IP packet.
LEMMA TunnelStaysIP ==
  ASSUME NEW p \in Packet, NEW toNwk \in Packet, NEW toIf \in Packet,
         NEW viaNwk \in Bits3, NEW viaIf \in Bits4, Check(PacketType, p) = IP_PKT_TYPE
  PROVE  LET q == Tunnelled(p, toNwk, toIf, viaNwk, viaIf)
         IN  q \in Packet /\ Check(PacketType, q) = IP_PKT_TYPE
<1> DEFINE q == Tunnelled(p, toNwk, toIf, viaNwk, viaIf)
<1>1. q \in Packet /\ \A b \in Bits : b \in p => b \in q
  BY TunnelBits
<1> HIDE DEF q
<1>2. Holds(p, 29, 31, IP_PKT_TYPE)
  BY Fields, HeldIfRead DEF Packet
<1>3. \A b \in 29 .. 31 : b \in Bits /\ b - 29 \in IP_PKT_TYPE
  BY DEF Bits, IP_PKT_TYPE
<1>4. Holds(q, 29, 31, IP_PKT_TYPE)
  BY <1>1, <1>2, <1>3 DEF Holds
<1>5. Check(PacketType, q) = IP_PKT_TYPE
  BY <1>1, <1>4, Fields, ReadHeld DEF Packet
<1> QED BY <1>1, <1>5 DEF q

LEMMA TunnelSays ==
  ASSUME NEW v \in IPs, v.tunnel = {}, v.viaNwk = {}, v.toNwk = {}, v.toIf = {},
         NEW p \in Packet, Says(p, v),
         NEW toNwk \in Bits3, NEW toIf \in Bits4, NEW viaNwk \in Bits3, NEW viaIf \in Bits4,
         NEW t \in IPs, t.srcNwk = v.srcNwk, t.srcIf = v.srcIf, t.dstNwk = v.dstNwk,
         t.dstIf = v.dstIf, t.tunnel = {0}, t.viaNwk = viaNwk, t.toNwk = toNwk,
         t.toIf = toIf
  PROVE  Says(Tunnelled(p, toNwk, toIf, viaNwk, viaIf), t)
<1> DEFINE f2 == IP_SrcNwk(FALSE)
           f3 == IP_SourceInterface(FALSE)
           f4 == IP_DestNwk(FALSE)
           f5 == IP_DestinationInterface(FALSE)
           f6 == IP_SrcNwk(TRUE)
           f7 == IP_DestNwk(TRUE)
           f8 == IP_DestinationInterface(TRUE)
           q == Tunnelled(p, toNwk, toIf, viaNwk, viaIf)
<1>1. /\ toNwk \in SUBSET (0 .. 2) /\ toIf \in SUBSET (0 .. 3)
      /\ viaNwk \in SUBSET (0 .. 2) /\ viaIf \in SUBSET (0 .. 3)
      /\ toNwk \in Packet /\ toIf \in Packet /\ p \in SUBSET Bits
  BY DEF Bits3, Bits4, Packet, Bits
<1>2. /\ q \in SUBSET Bits
      /\ \A b \in Bits : b \in q <=> \/ b \in p \/ b - 28 \in {0} \/ b - 4 \in toNwk
                                     \/ b \in toIf \/ b - 11 \in viaNwk \/ b - 7 \in viaIf
  BY <1>1, TunnelBits DEF Packet
<1>3. v.type = IP_PKT_TYPE /\ t.type = IP_PKT_TYPE
  BY DEF IPs
<1>4. /\ Check(PacketType, p) = IP_PKT_TYPE
      /\ Check(f2, p) = v.srcNwk /\ Check(f3, p) = v.srcIf
      /\ Check(f4, p) = v.dstNwk /\ Check(f5, p) = v.dstIf
      /\ Check(IP_TunneledPkt, p) = {} /\ Check(f6, p) = {}
      /\ Check(f7, p) = {} /\ Check(f8, p) = {}
  BY <1>3 DEF Says
<1>f. /\ IsField(f2, 25, 27) /\ IsField(f3, 21, 24) /\ IsField(f4, 18, 20)
      /\ IsField(f5, 14, 17) /\ IsField(f6, 11, 13) /\ IsField(f7, 4, 6)
      /\ IsField(f8, 0, 3)
  BY Fields
<1> HIDE DEF f2, f3, f4, f5, f6, f7, f8, q
<1>5. /\ Holds(p, 29, 31, IP_PKT_TYPE) /\ Holds(p, 28, 28, {})
      /\ Holds(p, 25, 27, v.srcNwk) /\ Holds(p, 21, 24, v.srcIf)
      /\ Holds(p, 18, 20, v.dstNwk) /\ Holds(p, 14, 17, v.dstIf)
      /\ Holds(p, 11, 13, {}) /\ Holds(p, 4, 6, {}) /\ Holds(p, 0, 3, {})
  <2>1. Holds(p, 29, 31, IP_PKT_TYPE) /\ Holds(p, 28, 28, {})
    BY <1>1, <1>4, Fields, HeldIfRead
  <2> QED BY <1>1, <1>4, <1>f, <2>1, HeldIfRead
\* The fields of the packet itself lie above what the tunnel takes.
<1>6. ASSUME NEW a \in 14 .. 31, NEW c \in 14 .. 31, NEW x, Holds(p, a, c, x),
             c < 28 \/ 28 < a
      PROVE  Holds(q, a, c, x)
  <2>1. \A b \in a .. c : b \in q <=> b \in p
    BY <1>1, <1>2, <1>6 DEF Bits
  <2> QED BY <1>6, <2>1 DEF Holds
<1>7. /\ Holds(q, 29, 31, IP_PKT_TYPE)
      /\ Holds(q, 25, 27, v.srcNwk) /\ Holds(q, 21, 24, v.srcIf)
      /\ Holds(q, 18, 20, v.dstNwk) /\ Holds(q, 14, 17, v.dstIf)
  BY <1>5, <1>6
<1>8. Holds(q, 28, 28, {0})
  BY <1>1, <1>2 DEF Holds, Bits
<1>9. Holds(q, 11, 13, viaNwk)
  BY <1>1, <1>2, <1>5 DEF Holds, Bits
<1>10. Holds(q, 4, 6, toNwk)
  BY <1>1, <1>2, <1>5 DEF Holds, Bits
<1>11. Holds(q, 0, 3, toIf)
  BY <1>1, <1>2, <1>5 DEF Holds, Bits
<1>12. Check(PacketType, q) = IP_PKT_TYPE /\ Check(IP_TunneledPkt, q) = {0}
  BY <1>2, <1>7, <1>8, Fields, ReadHeld
<1>13. /\ Check(f2, q) = v.srcNwk /\ Check(f3, q) = v.srcIf
       /\ Check(f4, q) = v.dstNwk /\ Check(f5, q) = v.dstIf
       /\ Check(f6, q) = viaNwk /\ Check(f7, q) = toNwk /\ Check(f8, q) = toIf
  BY <1>2, <1>7, <1>9, <1>10, <1>11, <1>f, ReadHeld
<1>14. Says(q, t)
  BY <1>3, <1>12, <1>13, Types DEF Says, f2, f3, f4, f5, f6, f7, f8
<1> QED BY <1>14 DEF q

-----------------------------------------------------------------------------
(***************************************************************************)
(* The inductive invariant: what a packet says depends on where it comes   *)
(* from, where it is, and what has been asked.                             *)
(***************************************************************************)

Agents == Routers \ {Home}

AskedFor == (Routers \cup {{}}) \X Bits4

Places == (Bits3 \X Bits4) \cup (Routers \X {Gate})

AdvertOK(v) ==
  \/ v.flags = ICMP_AGT_HME /\ v.source = Home
  \/ v.flags = ICMP_AGT_FGN /\ v.source \in Agents

\* At home, from abroad before and after a foreign agent has seen it, and the
\* request that gives an address back.
RequestOK(at, v, places) ==
  \/ /\ v.flags = REQT_PKT_DEREGISTER
     /\ v.agent = {} /\ v.source = {}
  \/ /\ v.flags = REQT_PKT_DEREGISTER
     /\ v.agent = Home /\ v.source = {} /\ v.coa = {}
     /\ v.home \in Mobiles /\ <<{}, {}>> \in places[v.home]
  \/ /\ v.flags = REQT_PKT_DIRECT_FROM_MU
     /\ v.agent = Home /\ v.source = {} /\ v.home \in Mobiles
     /\ \E r \in Agents : at = <<r, Gate>> /\ <<r, v.coa>> \in places[v.home]
  \/ /\ v.flags = REQT_PKT_IS_A_RELAY
     /\ v.agent = Home
     /\ v.home \in Mobiles /\ <<v.source, v.coa>> \in places[v.home]

\* From the correspondent node, in a tunnel or not, or on the way to it.
IPOK(at, v, places) ==
  \/ /\ <<v.srcNwk, v.srcIf>> = Cn /\ v.tunnel = {}
     /\ v.viaNwk = {} /\ v.viaIf = {} /\ v.toNwk = {} /\ v.toIf = {}
  \/ /\ <<v.srcNwk, v.srcIf>> = Cn /\ v.tunnel = {0}
     /\ v.dstIf \in Mobiles /\ <<v.toNwk, v.toIf>> \in places[v.dstIf]
  \/ /\ <<v.dstNwk, v.dstIf>> = Cn /\ v.tunnel = {}
     /\ at = Cn \/ \E r \in Routers : at = <<r, Gate>>

Meant(at, v, places) ==
  /\ v.type = ICMP_PKT_TYPE => AdvertOK(v)
  /\ v.type = REQT_PKT_TYPE => RequestOK(at, v, places)
  /\ v.type = IP_PKT_TYPE => IPOK(at, v, places)

\* Whatever is put into a packet, it keeps its type.
PacketOK(w, places) ==
  /\ w \in [at : Places, meant : Messages, bits : Packet, spoilt : BOOLEAN]
  /\ Check(PacketType, w.bits) = w.meant.type
  /\ w.spoilt => w.meant.type = IP_PKT_TYPE
  /\ ~w.spoilt => Says(w.bits, w.meant) /\ Meant(w.at, w.meant, places)

UnitOK(m, u) ==
  /\ u \in Units /\ u.agent \in Agents \cup {{}}
  /\ Place(m, u) # Cn

RowOK(h, row, places) ==
  /\ row \in Identities \cup {Unwritten}
  /\ row # Unwritten => h \in Mobiles /\ row \in places[h]

Inv ==
  /\ \A w \in wire : PacketOK(w, asked)
  /\ unit \in [Mobiles -> Units] /\ \A m \in Mobiles : UnitOK(m, unit[m])
  /\ fa \in [Routers -> [Bits4 -> Identities \cup {Nobody}]]
  /\ har \in [Routers -> [Bits4 -> Identities \cup {Unwritten}]]
  /\ \A r \in Routers, h \in Bits4 : RowOK(h, har[r][h], asked)
  /\ asked \in [Mobiles -> SUBSET AskedFor]

-----------------------------------------------------------------------------
(***************************************************************************)
(* Packets that satisfy it.                                                *)
(***************************************************************************)

LEMMA TypeTells ==
  ASSUME NEW v \in Messages
  PROVE  /\ v.type = ICMP_PKT_TYPE => v \in Adverts
         /\ v.type = REQT_PKT_TYPE => v \in Requests
         /\ v.type = RIP_PKT_TYPE => v \in Rows
         /\ v.type = REPLY_PKT_TYPE => v \in Replies
         /\ v.type = IP_PKT_TYPE => v \in IPs
<1>1. /\ v \in Adverts => v.type = ICMP_PKT_TYPE
      /\ v \in Requests => v.type = REQT_PKT_TYPE
      /\ v \in Rows => v.type = RIP_PKT_TYPE
      /\ v \in Replies => v.type = REPLY_PKT_TYPE
      /\ v \in IPs => v.type = IP_PKT_TYPE
  BY DEF Adverts, Requests, Rows, Replies, IPs
<1> QED BY <1>1, Types DEF Messages

\* Every message some operation writes says what it means.
LEMMA EncodedSays ==
  ASSUME NEW v \in Messages,
         v.type = IP_PKT_TYPE => v.tunnel = {} /\ v.toNwk = {} /\ v.toIf = {}
  PROVE  Encoded(v) \in Packet /\ Says(Encoded(v), v)
<1>1. CASE v \in Adverts
  <2>1. v.type = ICMP_PKT_TYPE
    BY <1>1 DEF Adverts
  <2>2. Encoded(v) = Icmp(v)
    BY <2>1, Types DEF Encoded
  <2> QED BY <1>1, <2>2, IcmpSays
<1>2. CASE v \in Requests
  <2>1. v.type = REQT_PKT_TYPE
    BY <1>2 DEF Requests
  <2>2. Encoded(v) = Reqt(v)
    BY <2>1, Types DEF Encoded
  <2> QED BY <1>2, <2>2, ReqtSays
<1>3. CASE v \in Rows
  <2>1. v.type = RIP_PKT_TYPE
    BY <1>3 DEF Rows
  <2>2. Encoded(v) = Rip(v)
    BY <2>1, Types DEF Encoded
  <2> QED BY <1>3, <2>2, RipSays
<1>4. CASE v \in Replies
  <2>1. v.type = REPLY_PKT_TYPE
    BY <1>4 DEF Replies
  <2>2. Encoded(v) = Reply(v)
    BY <2>1, Types DEF Encoded
  <2> QED BY <1>4, <2>2, ReplySays
<1>5. CASE v \in IPs
  <2>1. v.type = IP_PKT_TYPE
    BY <1>5 DEF IPs
  <2>2. Encoded(v) = Plain(v)
    BY <2>1, Types DEF Encoded
  <2> QED BY <1>5, <2>1, <2>2, PlainSays
<1> QED BY <1>1, <1>2, <1>3, <1>4, <1>5 DEF Messages

LEMMA SentPacket ==
  ASSUME NEW v \in Messages,
         v.type = IP_PKT_TYPE => v.tunnel = {} /\ v.toNwk = {} /\ v.toIf = {},
         NEW place \in Places, NEW places, Meant(place, v, places)
  PROVE  PacketOK(Sent(v, place), places)
<1>1. Encoded(v) \in Packet /\ Says(Encoded(v), v)
  BY EncodedSays
<1>2. Check(PacketType, Encoded(v)) = v.type
  BY <1>1 DEF Says
<1> QED BY <1>1, <1>2 DEF PacketOK, Sent

\* What is known of a packet of a type.
LEMMA PacketMeans ==
  ASSUME NEW places, NEW w, PacketOK(w, places)
  PROVE  /\ w.at \in Places /\ w.bits \in Packet /\ w.spoilt \in BOOLEAN
         /\ \A type : TypeIs(w, type) => w.meant.type = type
         /\ TypeIs(w, ICMP_PKT_TYPE) => w.meant \in Adverts /\ AdvertOK(w.meant)
         /\ TypeIs(w, REQT_PKT_TYPE) =>
              w.meant \in Requests /\ RequestOK(w.at, w.meant, places)
         /\ TypeIs(w, IP_PKT_TYPE) =>
              w.meant \in IPs /\ (~w.spoilt => IPOK(w.at, w.meant, places))
         /\ ~w.spoilt => Says(w.bits, w.meant)
         /\ ~TypeIs(w, IP_PKT_TYPE) => ~w.spoilt
<1>1. w.at \in Places /\ w.bits \in Packet /\ w.spoilt \in BOOLEAN /\ w.meant \in Messages
  BY DEF PacketOK
<1>2. \A type : TypeIs(w, type) <=> w.meant.type = type
  BY DEF PacketOK, TypeIs
<1>3. ~TypeIs(w, IP_PKT_TYPE) => ~w.spoilt
  BY <1>2 DEF PacketOK
<1>4. ~w.spoilt => Says(w.bits, w.meant) /\ Meant(w.at, w.meant, places)
  BY DEF PacketOK
<1>5. TypeIs(w, ICMP_PKT_TYPE) => w.meant \in Adverts /\ AdvertOK(w.meant)
  BY <1>1, <1>2, <1>3, <1>4, Types, TypeTells DEF Meant
<1>6. TypeIs(w, REQT_PKT_TYPE) => w.meant \in Requests /\ RequestOK(w.at, w.meant, places)
  BY <1>1, <1>2, <1>3, <1>4, Types, TypeTells DEF Meant
<1>7. TypeIs(w, IP_PKT_TYPE) =>
        w.meant \in IPs /\ (~w.spoilt => IPOK(w.at, w.meant, places))
  BY <1>1, <1>2, <1>4, TypeTells DEF Meant
<1> QED BY <1>1, <1>2, <1>3, <1>4, <1>5, <1>6, <1>7

LEMMA MovedPacket ==
  ASSUME NEW places, NEW w, PacketOK(w, places), NEW a \in Places,
         ~w.spoilt => Meant(a, w.meant, places)
  PROVE  PacketOK([w EXCEPT !.at = a], places)
<1> DEFINE x == [w EXCEPT !.at = a]
<1>1. /\ x \in [at : Places, meant : Messages, bits : Packet, spoilt : BOOLEAN]
      /\ x.at = a /\ x.meant = w.meant /\ x.bits = w.bits /\ x.spoilt = w.spoilt
  BY DEF PacketOK
<1> HIDE DEF x
<1>2. PacketOK(x, places)
  BY <1>1 DEF PacketOK
<1> QED BY <1>2 DEF x

\* Where mobile units have asked to be is never forgotten.
LEMMA AskedGrows ==
  ASSUME NEW as, NEW bs, \A m \in Mobiles : as[m] \subseteq bs[m]
  PROVE  /\ \A w : PacketOK(w, as) => PacketOK(w, bs)
         /\ \A h, row : RowOK(h, row, as) => RowOK(h, row, bs)
<1>1. \A at, v : RequestOK(at, v, as) => RequestOK(at, v, bs)
  BY DEF RequestOK
<1>2. \A at, v : IPOK(at, v, as) => IPOK(at, v, bs)
  BY DEF IPOK
<1>3. \A at, v : Meant(at, v, as) => Meant(at, v, bs)
  BY <1>1, <1>2 DEF Meant
<1> QED BY <1>3 DEF PacketOK, RowOK

-----------------------------------------------------------------------------
(***************************************************************************)
(* Steps.                                                                  *)
(***************************************************************************)

LEMMA Names ==
  /\ Bits3 \subseteq Bits4
  /\ {} \in Bits3 /\ {} \in Bits4
  /\ Routers \subseteq Bits3 /\ {} \notin Routers
  /\ Home \in Routers /\ Foreign \subseteq Agents /\ Agents \subseteq Routers
  /\ Mobiles \subseteq Bits4
  /\ Cn[1] \in Routers /\ Cn[2] \in Bits4 /\ Cn = <<Cn[1], Cn[2]>>
  /\ Gate \notin Bits4
  /\ \A r \in Routers : <<r, Gate>> \in Places
  /\ Cn \in Places
<1>1. Gate \notin Bits4
  <2>1. 31 \in Gate
    BY DEF Gate, Bits
  <2> QED BY <2>1 DEF Bits4
<1>2. Bits3 \subseteq Bits4
  BY DEF Bits3, Bits4
<1>3. Cn[1] \in Routers /\ Cn[2] \in Bits4 /\ Cn = <<Cn[1], Cn[2]>>
  BY HostAssumption
<1>4. {} \in Bits3 /\ {} \in Bits4
  BY DEF Bits3, Bits4
<1>5. Routers \subseteq Bits3 /\ {} \notin Routers /\ Mobiles \subseteq Bits4
      /\ Home \in Routers /\ Foreign \subseteq Agents /\ Agents \subseteq Routers
  BY NetworkAssumption, HostAssumption DEF Agents
<1> QED BY <1>1, <1>2, <1>3, <1>4, <1>5 DEF Places

LEMMA RequestFlags ==
  /\ REQT_PKT_DEREGISTER \in SUBSET (0 .. 1)
  /\ REQT_PKT_DIRECT_FROM_MU \in SUBSET (0 .. 1)
  /\ REQT_PKT_IS_A_RELAY \in SUBSET (0 .. 1)
  /\ REQT_PKT_DEREGISTER # REQT_PKT_DIRECT_FROM_MU
  /\ REQT_PKT_DEREGISTER # REQT_PKT_IS_A_RELAY
  /\ REQT_PKT_DIRECT_FROM_MU # REQT_PKT_IS_A_RELAY
  /\ REQT_PKT_DEREGISTER = {}
<1>1. 1 \notin REQT_PKT_DIRECT_FROM_MU /\ 1 \in REQT_PKT_IS_A_RELAY
      /\ 0 \in REQT_PKT_DIRECT_FROM_MU
  BY DEF REQT_PKT_DIRECT_FROM_MU, REQT_PKT_IS_A_RELAY
<1>2. REQT_PKT_DEREGISTER = {}
  BY DEF REQT_PKT_DEREGISTER
<1>3. REQT_PKT_DIRECT_FROM_MU \in SUBSET (0 .. 1) /\ REQT_PKT_IS_A_RELAY \in SUBSET (0 .. 1)
  BY DEF REQT_PKT_DIRECT_FROM_MU, REQT_PKT_IS_A_RELAY
<1> QED BY <1>1, <1>2, <1>3

\* Steps that only take packets from the wire and put some there.
LEMMA WireStep ==
  ASSUME Inv, UNCHANGED <<unit, fa, har, asked>>,
         NEW new, wire' \subseteq wire \cup new, \A w \in new : PacketOK(w, asked)
  PROVE  Inv'
<1>1. \A w \in wire' : PacketOK(w, asked)
  BY DEF Inv
<1> QED BY <1>1 DEF Inv

LEMMA LossStep ==
  ASSUME Inv, UNCHANGED <<unit, fa, har, asked>>, wire' \subseteq wire
  PROVE  Inv'
BY DEF Inv

LEMMA ForwardedPackets ==
  ASSUME NEW r \in Routers, NEW dest, NEW places, NEW w, PacketOK(w, places),
         ~w.spoilt => \A n \in Routers : Meant(<<n, Gate>>, w.meant, places)
  PROVE  \A x \in Forwarded(r, dest, w) : PacketOK(x, places)
<1> SUFFICES ASSUME dest \in DOMAIN NextHop[r]
             PROVE  PacketOK([w EXCEPT !.at = <<NextHop[r][dest], Gate>>], places)
  BY DEF Forwarded
<1>1. NextHop[r][dest] \in Routers
  BY NetworkAssumption
<1> QED BY <1>1, Names, MovedPacket

LEMMA PlaceIs ==
  ASSUME NEW m \in Mobiles, NEW u \in Units
  PROVE  Place(m, u) \in Places /\ Place(m, u)[2] # Gate
<1>1. u.ha \in Bits3 /\ u.net \in Bits3 /\ u.port \in Bits4 /\ m \in Bits4
  BY Names DEF Units
<1>2. <<u.net, u.port>> \in Places /\ <<u.ha, m>> \in Places
  BY <1>1 DEF Places
<1>3. u.port # Gate /\ m # Gate
  BY <1>1, Names
<1> QED BY <1>2, <1>3 DEF Place

LEMMA DeliveredPackets ==
  ASSUME Inv, NEW a, NEW w, PacketOK(w, asked),
         ~w.spoilt => Meant(a, w.meant, asked)
  PROVE  \A x \in Delivered(a, w) : PacketOK(x, asked)
<1> SUFFICES ASSUME Listening(a)
             PROVE  PacketOK([w EXCEPT !.at = a], asked)
  BY DEF Delivered
<1>1. \A m \in Mobiles : Place(m, unit[m]) \in Places
  BY PlaceIs DEF Inv
<1>2. a \in Places
  BY <1>1, Names DEF Listening
<1> QED BY <1>2, MovedPacket

\* What a request says to the router that reads it.
LEMMA RequestRead ==
  ASSUME Inv, NEW w \in wire, TypeIs(w, REQT_PKT_TYPE)
  PROVE  /\ w.meant \in Requests /\ RequestOK(w.at, w.meant, asked)
         /\ w.bits \in Packet /\ ~w.spoilt /\ PacketOK(w, asked) /\ Says(w.bits, w.meant)
         /\ Flags(w) = w.meant.flags
         /\ Check(REQT_LifeTimeOfRegistration, w.bits) = w.meant.life
         /\ Check(REQT_HomeAddress, w.bits) = w.meant.home
         /\ Check(REQT_HomeAgentAddress, w.bits) = w.meant.agent
         /\ Check(REQT_CareOfAddress, w.bits) = w.meant.coa
         /\ Check(REQT_SourceAddressOfPacket, w.bits) = w.meant.source
         /\ w.meant.life \in Bits4 /\ w.meant.home \in Bits4 /\ w.meant.agent \in Bits4
         /\ w.meant.coa \in Bits4 /\ w.meant.source \in Bits4
         /\ w.meant.type = REQT_PKT_TYPE
<1>1. PacketOK(w, asked)
  BY DEF Inv
<1>2. /\ w.meant \in Requests /\ RequestOK(w.at, w.meant, asked)
      /\ w.bits \in Packet /\ w.meant.type = REQT_PKT_TYPE
  BY <1>1, PacketMeans
<1>3. ~w.spoilt /\ Says(w.bits, w.meant)
  BY <1>1, <1>2, PacketMeans, Types DEF PacketOK
<1>4. /\ w.meant.life \in Bits4 /\ w.meant.home \in Bits4 /\ w.meant.agent \in Bits4
      /\ w.meant.coa \in Bits4 /\ w.meant.source \in Bits4
  BY <1>2 DEF Requests
<1> QED BY <1>1, <1>2, <1>3, <1>4 DEF Says, Flags

\* The home agent: a request that asks for a router by name comes from a unit at
\* home or through a foreign agent, and what goes into the table was asked for.
LEMMA RegisterHomeInv ==
  ASSUME Inv, NEW r \in Routers, NEW w \in wire, RegisterHome(r, w)
  PROVE  Inv'
<1> DEFINE v == w.meant
           row == <<v.source, v.coa>>
           reply == Sent(ReplyTo(w.bits), <<r, Gate>>)
<1>1. TypeIs(w, REQT_PKT_TYPE) /\ At(r, w)
  BY DEF RegisterHome, IsRequest
<1>2. /\ RequestOK(w.at, v, asked) /\ v.agent = r /\ w.at = <<r, Gate>>
      /\ RowFields(w.bits) = row /\ Check(REQT_HomeAddress, w.bits) = v.home
      /\ v.home \in Bits4 /\ v.source \in Bits4 /\ v.coa \in Bits4
  BY <1>1, RequestRead DEF RegisterHome, IsForMe, At, RowFields
<1>3. har' = [har EXCEPT ![r][v.home] = row] /\ UNCHANGED <<unit, fa, asked>>
  BY <1>2 DEF RegisterHome
<1>4. v.home \in Mobiles /\ row \in asked[v.home]
  <2>1. r # {} /\ ~ \E q \in Agents : w.at = <<q, Gate>> /\ v.agent = Home
    BY <1>2, Names DEF Agents
  <2> QED BY <1>2, <2>1 DEF RequestOK
<1>5. RowOK(v.home, row, asked)
  BY <1>2, <1>4 DEF RowOK, Identities
<1>6. /\ har \in [Routers -> [Bits4 -> Identities \cup {Unwritten}]]
      /\ \A q \in Routers, h \in Bits4 : RowOK(h, har[q][h], asked)
  BY DEF Inv
<1>7. /\ har' \in [Routers -> [Bits4 -> Identities \cup {Unwritten}]]
      /\ \A q \in Routers, h \in Bits4 : RowOK(h, har'[q][h], asked)
  BY <1>2, <1>3, <1>5, <1>6 DEF RowOK
<1>8. PacketOK(reply, asked) /\ reply.meant \in Replies
  <2>1. ReplyTo(w.bits) \in Replies
    BY <1>1, RequestRead DEF ReplyTo, Replies
  <2>2. ReplyTo(w.bits).type = REPLY_PKT_TYPE
    BY DEF ReplyTo
  <2>3. Meant(<<r, Gate>>, ReplyTo(w.bits), asked)
    BY <2>2, Types DEF Meant
  <2> QED BY <2>1, <2>2, <2>3, Types, Names, SentPacket DEF Messages, Sent
<1>9. \A n \in Routers : Meant(<<n, Gate>>, reply.meant, asked)
  BY <1>8, Types DEF Meant, Replies
<1> HIDE DEF reply
<1>10. \A x \in Forwarded(r, SWFC_rerouteREPLYPKT(reply), reply) : PacketOK(x, asked)
  BY <1>8, <1>9, ForwardedPackets
<1>11. wire' \subseteq wire \cup Forwarded(r, SWFC_rerouteREPLYPKT(reply), reply)
  BY DEF RegisterHome, reply
<1>12. \A x \in wire' : PacketOK(x, asked')
  BY <1>3, <1>10, <1>11 DEF Inv
<1> HIDE DEF row
<1> QED BY <1>3, <1>7, <1>12 DEF Inv

LEMMA DeregisterInv ==
  ASSUME Inv, NEW r \in Routers, NEW w \in wire, Deregister(r, w)
  PROVE  Inv'
<1>1. Check(REQT_CareOfAddress, w.bits) \in Bits4
  BY RequestRead DEF Deregister, IsRequest
<1>2. fa' \in [Routers -> [Bits4 -> Identities \cup {Nobody}]]
  BY <1>1 DEF Inv, Deregister
<1>3. \A x \in wire' : PacketOK(x, asked')
  BY DEF Inv, Deregister
<1> QED BY <1>2, <1>3 DEF Inv, Deregister

\* A foreign agent becomes the source of a request that was sent to it.
LEMMA RelayedPacket ==
  ASSUME Inv, NEW r \in Routers, NEW w \in wire, IsDirect(r, w)
  PROVE  /\ PacketOK(Relayed(r, w), asked)
         /\ ~Relayed(r, w).spoilt
         /\ \A n \in Routers : Meant(<<n, Gate>>, Relayed(r, w).meant, asked)
<1> DEFINE v == w.meant
           t == [v EXCEPT !.flags = REQT_PKT_IS_A_RELAY, !.source = r]
           q == Put(REQT_SourceAddressOfPacket, r,
                  Put(REQT_REQTFlags, REQT_PKT_IS_A_RELAY, w.bits))
           x == Relayed(r, w)
<1>1. TypeIs(w, REQT_PKT_TYPE) /\ w.at = <<r, Gate>>
      /\ Flags(w) \cup REQT_PKT_DEREGISTER # REQT_PKT_DEREGISTER
      /\ Flags(w) \cup REQT_PKT_DIRECT_FROM_MU = REQT_PKT_DIRECT_FROM_MU
  BY DEF IsDirect, IsRequest, At
<1>2. /\ v \in Requests /\ RequestOK(w.at, v, asked) /\ w.bits \in Packet /\ ~w.spoilt
      /\ Says(w.bits, v) /\ Flags(w) = v.flags /\ PacketOK(w, asked)
  BY <1>1, RequestRead
<1>3. v.flags # REQT_PKT_DEREGISTER /\ v.flags # REQT_PKT_IS_A_RELAY
  <2>1. 1 \notin REQT_PKT_DIRECT_FROM_MU /\ 1 \in REQT_PKT_IS_A_RELAY
    BY DEF REQT_PKT_DIRECT_FROM_MU, REQT_PKT_IS_A_RELAY
  <2> QED BY <1>1, <1>2, <2>1
<1>4. /\ v.flags = REQT_PKT_DIRECT_FROM_MU /\ v.agent = Home /\ v.source = {}
      /\ v.home \in Mobiles /\ <<r, v.coa>> \in asked[v.home]
  <2>1. /\ v.flags = REQT_PKT_DIRECT_FROM_MU /\ v.agent = Home /\ v.source = {}
        /\ v.home \in Mobiles
        /\ \E a \in Agents : w.at = <<a, Gate>> /\ <<a, v.coa>> \in asked[v.home]
    BY <1>2, <1>3 DEF RequestOK
  <2>2. \A a : w.at = <<a, Gate>> => a = r
    BY <1>1
  <2> QED BY <2>1, <2>2
<1>5. r \in Bits4
  BY Names
<1>6. q \in Packet /\ Says(q, t) /\ t \in Requests
  BY <1>2, <1>4, <1>5, RelaySays
<1>7. x.meant = t /\ x.bits = q /\ x.spoilt = w.spoilt /\ x.at = w.at
      /\ x \in [at : Places, meant : Messages, bits : Packet, spoilt : BOOLEAN]
  <2>1. w \in [at : Places, meant : Messages, bits : Packet, spoilt : BOOLEAN]
    BY <1>2 DEF PacketOK
  <2>2. x = [w EXCEPT !.meant = t, !.bits = q]
    BY DEF Relayed
  <2> HIDE DEF x, t, q
  <2> QED BY <1>6, <2>1, <2>2 DEF Messages
<1>8. /\ t.flags = REQT_PKT_IS_A_RELAY /\ t.source = r /\ t.agent = v.agent
      /\ t.home = v.home /\ t.coa = v.coa /\ t.type = REQT_PKT_TYPE
  BY <1>2 DEF Requests
<1> HIDE DEF t, q, x
<1>9. \A a : Meant(a, t, asked)
  BY <1>4, <1>8, Types DEF Meant, RequestOK
<1>10. Check(PacketType, q) = t.type
  BY <1>6 DEF Says
<1>11. PacketOK(x, asked)
  BY <1>2, <1>6, <1>7, <1>9, <1>10 DEF PacketOK
<1> QED BY <1>2, <1>7, <1>9, <1>11 DEF x

LEMMA RegisterForeignInv ==
  ASSUME Inv, NEW r \in Routers, NEW w \in wire, RegisterForeign(r, w)
  PROVE  Inv'
<1> DEFINE new == Forwarded(r, SWFC_rerouteRQSTPKT(w), Relayed(r, w))
<1>1. IsDirect(r, w) /\ TypeIs(w, REQT_PKT_TYPE)
  BY DEF RegisterForeign, IsDirect, IsRequest
<1>2. Check(REQT_CareOfAddress, w.bits) \in Bits4 /\ Identity(w.bits) \in Identities
  BY <1>1, RequestRead DEF Identity, Identities
<1>3. fa' \in [Routers -> [Bits4 -> Identities \cup {Nobody}]]
  BY <1>2 DEF Inv, RegisterForeign
<1>4. \A x \in new : PacketOK(x, asked)
  BY <1>1, RelayedPacket, ForwardedPackets
<1>5. wire' \subseteq wire \cup new /\ UNCHANGED <<unit, har, asked>>
  BY DEF RegisterForeign
<1>6. \A x \in wire' : PacketOK(x, asked')
  BY <1>4, <1>5 DEF Inv
<1> QED BY <1>3, <1>5, <1>6 DEF Inv

LEMMA PassRelayInv ==
  ASSUME Inv, NEW r \in Routers, NEW w \in wire, PassRelay(r, w)
  PROVE  Inv'
<1> DEFINE new == Forwarded(r, SWFC_rerouteRQSTPKT(w), w)
<1>1. TypeIs(w, REQT_PKT_TYPE) /\ Flags(w) # REQT_PKT_DIRECT_FROM_MU
  BY DEF PassRelay, IsRequest
<1>2. RequestOK(w.at, w.meant, asked) /\ Flags(w) = w.meant.flags /\ PacketOK(w, asked)
      /\ w.meant.type = REQT_PKT_TYPE
  BY <1>1, RequestRead
<1>3. \A a : Meant(a, w.meant, asked)
  BY <1>1, <1>2, Types DEF Meant, RequestOK
<1>4. \A x \in new : PacketOK(x, asked)
  BY <1>2, <1>3, ForwardedPackets
<1>5. wire' \subseteq wire \cup new /\ UNCHANGED <<unit, fa, har, asked>>
  BY DEF PassRelay
<1> QED BY <1>4, <1>5, WireStep

LEMMA PassReplyInv ==
  ASSUME Inv, NEW r \in Routers, NEW w \in wire, PassReply(r, w)
  PROVE  Inv'
<1> DEFINE dest == Check(REPLY_DestinationAddressOfPacket, w.bits)
           a == MUsSendPort(dest, Check(REPLY_CareOfAddress, w.bits), w)
           new == Delivered(a, w) \cup Forwarded(r, SWFC_rerouteREPLYPKT(w), w)
<1>1. PacketOK(w, asked) /\ w.meant.type = REPLY_PKT_TYPE
  BY PacketMeans DEF Inv, PassReply
<1>2. \A b : Meant(b, w.meant, asked)
  BY <1>1, Types DEF Meant
<1>3. \A x \in Forwarded(r, SWFC_rerouteREPLYPKT(w), w) : PacketOK(x, asked)
  BY <1>1, <1>2, ForwardedPackets
<1>4. \A x \in Delivered(a, w) : PacketOK(x, asked)
  BY <1>1, <1>2, DeliveredPackets
<1>5. wire' \subseteq wire \cup new /\ UNCHANGED <<unit, fa, har, asked>>
  BY DEF PassReply
<1>6. \A x \in new : PacketOK(x, asked)
  BY <1>3, <1>4
<1> HIDE DEF new
<1> QED BY <1>5, <1>6, WireStep

\* What an IP packet says to whoever reads it.
LEMMA IPRead ==
  ASSUME Inv, NEW w \in wire, TypeIs(w, IP_PKT_TYPE)
  PROVE  /\ PacketOK(w, asked) /\ w.bits \in Packet /\ w.spoilt \in BOOLEAN
         /\ w.meant \in IPs /\ w.meant.type = IP_PKT_TYPE
         /\ Check(IP_DestinationInterface(FALSE), w.bits) \in Bits4
         /\ Check(IP_SourceInterface(FALSE), w.bits) \in Bits4
         /\ Check(IP_SrcNwk(FALSE), w.bits) \in Bits3
         /\ ~w.spoilt =>
              /\ IPOK(w.at, w.meant, asked) /\ Says(w.bits, w.meant)
              /\ IsTunnelled(w) <=> w.meant.tunnel # {}
              /\ Check(IP_SrcNwk(FALSE), w.bits) = w.meant.srcNwk
              /\ Check(IP_SourceInterface(FALSE), w.bits) = w.meant.srcIf
              /\ Check(IP_DestNwk(FALSE), w.bits) = w.meant.dstNwk
              /\ Check(IP_DestinationInterface(FALSE), w.bits) = w.meant.dstIf
              /\ Check(IP_DestNwk(TRUE), w.bits) = w.meant.toNwk
              /\ Check(IP_DestinationInterface(TRUE), w.bits) = w.meant.toIf
<1>1. PacketOK(w, asked)
  BY DEF Inv
<1>2. /\ w.bits \in Packet /\ w.spoilt \in BOOLEAN
      /\ w.meant \in IPs /\ w.meant.type = IP_PKT_TYPE
      /\ ~w.spoilt => IPOK(w.at, w.meant, asked) /\ Says(w.bits, w.meant)
  BY <1>1, PacketMeans
<1>3. \A f, a, c, n : IsField(f, a, c) /\ n = c - a => Check(f, w.bits) \in SUBSET (0 .. n)
  BY <1>2, HeldIfRead DEF Holds, Packet
<1>4. /\ Check(IP_DestinationInterface(FALSE), w.bits) \in SUBSET (0 .. 3)
      /\ Check(IP_SourceInterface(FALSE), w.bits) \in SUBSET (0 .. 3)
      /\ Check(IP_SrcNwk(FALSE), w.bits) \in SUBSET (0 .. 2)
  <2>1. 3 = 17 - 14 /\ 3 = 24 - 21 /\ 2 = 27 - 25
    OBVIOUS
  <2> QED BY <1>3, <2>1, Fields
<1>5. /\ Check(IP_DestinationInterface(FALSE), w.bits) \in Bits4
      /\ Check(IP_SourceInterface(FALSE), w.bits) \in Bits4
      /\ Check(IP_SrcNwk(FALSE), w.bits) \in Bits3
  BY <1>4 DEF Bits3, Bits4
<1>6. ~w.spoilt =>
        /\ Check(IP_TunneledPkt, w.bits) = w.meant.tunnel
        /\ Check(IP_SrcNwk(FALSE), w.bits) = w.meant.srcNwk
        /\ Check(IP_SourceInterface(FALSE), w.bits) = w.meant.srcIf
        /\ Check(IP_DestNwk(FALSE), w.bits) = w.meant.dstNwk
        /\ Check(IP_DestinationInterface(FALSE), w.bits) = w.meant.dstIf
        /\ Check(IP_DestNwk(TRUE), w.bits) = w.meant.toNwk
        /\ Check(IP_DestinationInterface(TRUE), w.bits) = w.meant.toIf
  BY <1>2 DEF Says
<1> QED BY <1>1, <1>2, <1>5, <1>6 DEF IsTunnelled

LEMMA ForwardIPInv ==
  ASSUME Inv, NEW r \in Routers, NEW w \in wire, ForwardIP(r, w)
  PROVE  Inv'
<1> DEFINE new == Forwarded(r, SWFC_rerouteIPPKT(w), w)
<1>1. TypeIs(w, IP_PKT_TYPE)
  BY DEF ForwardIP, IsIP
<1>2. /\ PacketOK(w, asked) /\ w.meant.type = IP_PKT_TYPE
      /\ ~w.spoilt => IPOK(w.at, w.meant, asked)
  BY <1>1, IPRead
<1>3. ~w.spoilt => \A n \in Routers : Meant(<<n, Gate>>, w.meant, asked)
  BY <1>2, Types DEF Meant, IPOK
<1>4. \A x \in new : PacketOK(x, asked)
  BY <1>2, <1>3, ForwardedPackets
<1>5. wire' \subseteq wire \cup new /\ UNCHANGED <<unit, fa, har, asked>>
  BY DEF ForwardIP
<1> QED BY <1>4, <1>5, WireStep

LEMMA HostIs ==
  ASSUME NEW r, NEW w
  PROVE  HostOf(r, w) = <<r, IPDestination(w)>>
BY DEF HostOf, MUsSendPort, IPDestination

\* A packet for the correspondent node that is not under way to it is there.
LEMMA DeliverIPInv ==
  ASSUME Inv, NEW r \in Routers, NEW w \in wire, DeliverIP(r, w)
  PROVE  Inv'
<1> DEFINE a == HostOf(r, w)
           new == Delivered(a, w)
           v == w.meant
<1>1. TypeIs(w, IP_PKT_TYPE)
  BY DEF DeliverIP, IsIP
<1>2. ASSUME ~w.spoilt
      PROVE  Meant(a, v, asked)
  <2>1. IPOK(w.at, v, asked) /\ v.type = IP_PKT_TYPE
    BY <1>1, <1>2, IPRead
  <2>2. ASSUME <<v.dstNwk, v.dstIf>> = Cn, v.tunnel = {}
        PROVE  a = Cn
    <3>1. IsTunnelled(w) = FALSE
      BY <1>1, <1>2, <2>2, IPRead DEF IsTunnelled
    <3>2. Check(IP_DestNwk(FALSE), w.bits) = r
      BY <3>1 DEF DeliverIP
    <3>3. IPDestination(w) = Check(IP_DestinationInterface(FALSE), w.bits)
      BY <3>1 DEF IPDestination
    <3> QED BY <1>1, <1>2, <2>2, <3>2, <3>3, HostIs, IPRead
  <2>3. IPOK(a, v, asked)
    BY <2>1, <2>2 DEF IPOK
  <2> QED BY <2>1, <2>3, Types DEF Meant
<1>3. PacketOK(w, asked)
  BY DEF Inv
<1>4. \A x \in new : PacketOK(x, asked)
  BY <1>2, <1>3, DeliveredPackets
<1>5. wire' \subseteq wire \cup new /\ UNCHANGED <<unit, fa, har, asked>>
  BY DEF DeliverIP
<1> QED BY <1>4, <1>5, WireStep

\* The home agent tunnels only what the correspondent node sent, once, and to
\* where the unit asked to be, unless nobody ever wrote the row.
LEMMA TunnelledPacket ==
  ASSUME Inv, NEW r \in Routers, NEW w \in wire, TunnelIP(r, w),
         NEW row \in FoundHAR(r, IPDestination(w))
  PROVE  LET t == TunnelThrough(r, w, IPDestination(w), row)
         IN  /\ PacketOK(t, asked)
             /\ ~t.spoilt => \A a : Meant(a, t.meant, asked)
<1> DEFINE home == IPDestination(w)
           v == w.meant
           vt == [v EXCEPT !.tunnel = {0}, !.toNwk = row[1], !.toIf = row[2],
                           !.viaNwk = r, !.viaIf = home]
           sp == w.spoilt \/ har[r][home] = Unwritten
           q == Tunnelled(w.bits, row[1], row[2], r, home)
           t == TunnelThrough(r, w, home, row)
<1>1. TypeIs(w, IP_PKT_TYPE) /\ IsTunnelled(w) = FALSE
      /\ Check(IP_DestNwk(FALSE), w.bits) = r /\ ~Listening(<<r, home>>)
  <2>1. TypeIs(w, IP_PKT_TYPE) /\ ~IsTunnelled(w)
        /\ Check(IP_DestNwk(FALSE), w.bits) = r /\ ~Listening(HostOf(r, w))
    BY DEF TunnelIP, IsIP
  <2>2. IsTunnelled(w) = FALSE
    BY <2>1 DEF IsTunnelled
  <2> QED BY <2>1, <2>2, HostIs
<1>2. home = Check(IP_DestinationInterface(FALSE), w.bits)
  BY <1>1 DEF IPDestination
<1>3. /\ PacketOK(w, asked) /\ w.bits \in Packet /\ w.spoilt \in BOOLEAN
      /\ v \in IPs /\ v.type = IP_PKT_TYPE /\ home \in Bits4
      /\ Check(PacketType, w.bits) = IP_PKT_TYPE
  BY <1>1, <1>2, IPRead DEF TypeIs
<1>4. row[1] \in Packet /\ row[2] \in Packet
      /\ (har[r][home] # Unwritten => row = har[r][home] /\ RowOK(home, row, asked))
  <2>1. Bits4 \subseteq Packet
    BY DEF Bits4, Packet, Bits
  <2>2. CASE har[r][home] = Unwritten
    <3>1. row \in Garbage \X Garbage
      BY <2>2 DEF FoundHAR
    <3> QED BY <2>2, <3>1, ValueAssumption
  <2>3. CASE har[r][home] # Unwritten
    <3>1. row = har[r][home] /\ RowOK(home, row, asked)
      BY <1>3, <2>3 DEF FoundHAR, Inv
    <3>2. row \in Identities
      BY <2>3, <3>1 DEF RowOK
    <3> QED BY <2>1, <2>3, <3>1, <3>2 DEF Identities
  <2> QED BY <2>2, <2>3
<1>5. r \in Bits3
  BY Names
<1>6. q \in Packet /\ Check(PacketType, q) = IP_PKT_TYPE
  BY <1>3, <1>4, <1>5, TunnelStaysIP
<1>7. /\ vt \in IPs /\ vt.tunnel = {0} /\ vt.toNwk = row[1] /\ vt.toIf = row[2]
      /\ vt.viaNwk = r /\ vt.srcNwk = v.srcNwk /\ vt.srcIf = v.srcIf
      /\ vt.dstNwk = v.dstNwk /\ vt.dstIf = v.dstIf /\ vt.type = IP_PKT_TYPE
  BY <1>3, <1>4, <1>5 DEF IPs
<1>8. t = [w EXCEPT !.meant = vt, !.spoilt = sp, !.bits = q]
  BY DEF TunnelThrough
<1> HIDE DEF vt, q, t
<1>9. /\ t \in [at : Places, meant : Messages, bits : Packet, spoilt : BOOLEAN]
      /\ t.meant = vt /\ t.bits = q /\ t.spoilt = sp
  <2>1. w \in [at : Places, meant : Messages, bits : Packet, spoilt : BOOLEAN]
    BY <1>3 DEF PacketOK
  <2>2. sp \in BOOLEAN /\ vt \in Messages
    BY <1>3, <1>7 DEF Messages
  <2> HIDE DEF sp
  <2> QED BY <1>6, <1>8, <2>1, <2>2
<1>10. ASSUME ~sp
       PROVE  Says(q, vt) /\ \A a : Meant(a, vt, asked)
  <2>1. ~w.spoilt /\ har[r][home] # Unwritten
    BY <1>10
  <2>2. /\ IPOK(w.at, v, asked) /\ Says(w.bits, v) /\ v.tunnel = {}
        /\ v.dstNwk = r /\ v.dstIf = home
    BY <1>1, <1>2, <2>1, IPRead
  <2>3. <<v.dstNwk, v.dstIf>> # Cn
    BY <1>1, <2>2 DEF Listening
  <2>4. /\ <<v.srcNwk, v.srcIf>> = Cn
        /\ v.viaNwk = {} /\ v.toNwk = {} /\ v.toIf = {}
    BY <2>2, <2>3 DEF IPOK
  <2>5. home \in Mobiles /\ row \in asked[home]
    BY <1>4, <2>1 DEF RowOK
  <2>6. row \in AskedFor
    BY <2>5 DEF Inv
  <2>7. row[1] \in Bits3 /\ row[2] \in Bits4 /\ row = <<row[1], row[2]>>
    BY <2>6, Names DEF AskedFor
  <2>8. Says(q, vt)
    BY <1>3, <1>5, <1>7, <2>2, <2>4, <2>7, TunnelSays DEF q
  <2>9. \A a : IPOK(a, vt, asked)
    BY <1>7, <2>2, <2>4, <2>5, <2>7 DEF IPOK
  <2> QED BY <1>7, <2>8, <2>9, Types DEF Meant
<1>11. PacketOK(t, asked)
  BY <1>6, <1>7, <1>9, <1>10 DEF PacketOK
<1> QED BY <1>9, <1>10, <1>11 DEF t

LEMMA TunnelIPInv ==
  ASSUME Inv, NEW r \in Routers, NEW w \in wire, TunnelIP(r, w)
  PROVE  Inv'
<1> DEFINE home == IPDestination(w)
<1>1. PICK row \in FoundHAR(r, home) :
        LET t == TunnelThrough(r, w, home, row)
        IN  wire' \subseteq wire \cup Forwarded(r, SWFC_rerouteIPPKT(t), t)
  BY DEF TunnelIP
<1> DEFINE t == TunnelThrough(r, w, home, row)
           new == Forwarded(r, SWFC_rerouteIPPKT(t), t)
<1>2. PacketOK(t, asked) /\ (~t.spoilt => \A a : Meant(a, t.meant, asked))
  BY TunnelledPacket
<1>3. wire' \subseteq wire \cup new
  BY <1>1
<1> HIDE DEF t
<1>4. \A x \in new : PacketOK(x, asked)
  BY <1>2, ForwardedPackets
<1>5. UNCHANGED <<unit, fa, har, asked>>
  BY DEF TunnelIP
<1> QED BY <1>3, <1>4, <1>5, WireStep

LEMMA SentToRouterPackets ==
  ASSUME NEW v \in Messages, NEW r, NEW places,
         v.type = IP_PKT_TYPE => v.tunnel = {} /\ v.toNwk = {} /\ v.toIf = {},
         r \in Routers => Meant(<<r, Gate>>, v, places)
  PROVE  \A x \in SentToRouter(v, r) : PacketOK(x, places)
BY Names, SentPacket DEF SentToRouter

LEMMA SendRowInv ==
  ASSUME Inv, NEW r \in Routers, NEW n \in Routers, NEW network \in Routers,
         NEW distance \in Distances, SendRow(r, n, network, distance)
  PROVE  Inv'
<1> DEFINE v == [type |-> RIP_PKT_TYPE, source |-> r, network |-> network,
                 distance |-> distance]
           new == SentToRouter(v, n)
<1>1. v \in Rows
  BY Names, ValueAssumption DEF Rows
<1>2. v \in Messages /\ v.type = RIP_PKT_TYPE
  BY <1>1 DEF Messages
<1>3. wire' \subseteq wire \cup new /\ UNCHANGED <<unit, fa, har, asked>>
  BY DEF SendRow
<1> HIDE DEF v
<1>4. \A x \in new : PacketOK(x, asked)
  BY <1>2, Types, SentToRouterPackets DEF Meant
<1> QED BY <1>3, <1>4, WireStep

LEMMA AdvertiseInv ==
  ASSUME Inv, NEW r \in Foreign \cup {Home}, NEW m \in Mobiles, Advertise(r, m)
  PROVE  Inv'
<1> DEFINE a == Place(m, unit[m])
<1>1. PICK coa \in IF r = Home THEN {{}} ELSE Offered :
        wire' = wire \cup {Sent(Advert(r, coa), a)}
  BY DEF Advertise
<1> DEFINE v == Advert(r, coa)
           new == {Sent(v, a)}
<1>2. coa \in Bits4 /\ r \in Bits4
  BY <1>1, Names, HostAssumption
<1>3. /\ ICMP_setAgentType({}, ICMP_AGT_HME) = ICMP_AGT_HME
      /\ ICMP_setAgentType({}, ICMP_AGT_FGN) = ICMP_AGT_FGN
      /\ ICMP_AGT_HME \in Bits3 /\ ICMP_AGT_FGN \in Bits3
  BY DEF ICMP_setAgentType, ICMP_AGT_HME, ICMP_AGT_FGN, Bits3
<1>4. v \in Adverts /\ v.type = ICMP_PKT_TYPE
  BY <1>2, <1>3, Names, ValueAssumption DEF Adverts, Advert
<1>5. AdvertOK(v)
  BY <1>3, Names DEF AdvertOK, Advert
<1>6. a \in Places
  BY PlaceIs DEF Inv
<1> HIDE DEF v
<1>7. PacketOK(Sent(v, a), asked)
  BY <1>4, <1>5, <1>6, Types, SentPacket DEF Meant, Messages
<1>8. UNCHANGED <<unit, fa, har, asked>>
  BY DEF Advertise
<1>9. wire' \subseteq wire \cup new
  BY <1>1 DEF v
<1>10. \A x \in new : PacketOK(x, asked)
  BY <1>7
<1> HIDE DEF new
<1> QED BY <1>8, <1>9, <1>10, WireStep

LEMMA SendIPInv ==
  ASSUME Inv, NEW to \in Destinations, SendIP(to)
  PROVE  Inv'
<1> DEFINE v == [type |-> IP_PKT_TYPE, srcNwk |-> Cn[1], srcIf |-> Cn[2],
                 dstNwk |-> to[1], dstIf |-> to[2], tunnel |-> {}, viaNwk |-> {},
                 viaIf |-> {}, toNwk |-> {}, toIf |-> {}]
           new == SentToRouter(v, Cn[1])
<1>1. to[1] \in Bits3 /\ to[2] \in Bits4 /\ Cn[1] \in Bits3 /\ Cn[2] \in Bits4
  BY Names, HostAssumption DEF Addresses
<1>2. v \in IPs
  BY <1>1, Names DEF IPs, Packet
<1>3. wire' \subseteq wire \cup new /\ UNCHANGED <<unit, fa, har, asked>>
  BY DEF SendIP
<1>4. /\ v.type = IP_PKT_TYPE /\ v.tunnel = {} /\ v.toNwk = {} /\ v.toIf = {}
      /\ v.viaNwk = {} /\ v.viaIf = {} /\ <<v.srcNwk, v.srcIf>> = Cn
  BY Names
<1> HIDE DEF v
<1>5. \A a : Meant(a, v, asked)
  BY <1>4, Types DEF Meant, IPOK
<1>6. \A x \in new : PacketOK(x, asked)
  BY <1>2, <1>4, <1>5, SentToRouterPackets DEF Messages
<1> QED BY <1>3, <1>6, WireStep

LEMMA RouterStepInv ==
  ASSUME Inv, NEW r \in Routers, NEW w \in wire, RouterStep(r, w)
  PROVE  Inv'
<1>1. CASE RegisterHome(r, w)
  BY <1>1, RegisterHomeInv
<1>2. CASE Deregister(r, w)
  BY <1>2, DeregisterInv
<1>3. CASE RegisterForeign(r, w)
  BY <1>3, RegisterForeignInv
<1>4. CASE Refuse(r, w)
  BY <1>4, LossStep DEF Refuse
<1>5. CASE PassRelay(r, w)
  BY <1>5, PassRelayInv
<1>6. CASE PassReply(r, w)
  BY <1>6, PassReplyInv
<1>7. CASE TakeRow(r, w)
  BY <1>7, LossStep DEF TakeRow
<1>8. CASE ForwardIP(r, w)
  BY <1>8, ForwardIPInv
<1>9. CASE DeliverIP(r, w)
  BY <1>9, DeliverIPInv
<1>10. CASE TunnelIP(r, w)
  BY <1>10, TunnelIPInv
<1> QED BY <1>1, <1>2, <1>3, <1>4, <1>5, <1>6, <1>7, <1>8, <1>9, <1>10 DEF RouterStep

-----------------------------------------------------------------------------
(***************************************************************************)
(* Steps of mobile units.                                                  *)
(***************************************************************************)

LEMMA UnitStepInv ==
  ASSUME Inv, NEW m \in Mobiles, NEW u, UnitOK(m, u), unit' = [unit EXCEPT ![m] = u],
         UNCHANGED <<fa, har>>, asked' \in [Mobiles -> SUBSET AskedFor],
         \A x \in Mobiles : asked[x] \subseteq asked'[x],
         NEW new, wire' \subseteq wire \cup new, \A w \in new : PacketOK(w, asked')
  PROVE  Inv'
<1>1. unit' \in [Mobiles -> Units] /\ \A x \in Mobiles : UnitOK(x, unit'[x])
  BY DEF Inv, UnitOK
<1>2. \A w \in wire' : PacketOK(w, asked')
  BY AskedGrows DEF Inv
<1>3. \A r \in Routers, h \in Bits4 : RowOK(h, har[r][h], asked')
  BY AskedGrows DEF Inv
<1> QED BY <1>1, <1>2, <1>3 DEF Inv

LEMMA Asking ==
  ASSUME Inv, NEW m \in Mobiles, NEW place \in AskedFor, Asks(m, place)
  PROVE  /\ asked' \in [Mobiles -> SUBSET AskedFor]
         /\ \A x \in Mobiles : asked[x] \subseteq asked'[x]
         /\ place \in asked'[m]
BY DEF Inv, Asks

LEMMA HomeRequestPackets ==
  ASSUME NEW m \in Mobiles, NEW u \in Units, NEW places, <<{}, {}>> \in places[m]
  PROVE  \A x \in HomeRequest(m, u) : PacketOK(x, places)
<1> DEFINE v == [type |-> REQT_PKT_TYPE, flags |-> {}, life |-> {}, home |-> m,
                 agent |-> u.ha, coa |-> {}, source |-> {}, dest |-> {}]
<1>1. u.ha = Home /\ m \in Bits4 /\ Home \in Bits4
  BY Names DEF Units
<1>2. v \in Requests /\ v.type = REQT_PKT_TYPE
  BY <1>1, Names DEF Requests
<1>3. \A a : RequestOK(a, v, places)
  BY <1>1, RequestFlags DEF RequestOK
<1>4. HomeRequest(m, u) = SentToRouter(v, u.ha)
  BY DEF HomeRequest
<1> HIDE DEF v
<1> QED BY <1>2, <1>3, <1>4, Types, SentToRouterPackets DEF Meant, Messages

LEMMA ForeignRequestPackets ==
  ASSUME NEW m \in Mobiles, NEW u \in Units, u.agent \in Agents \cup {{}}, NEW places,
         <<u.agent, u.port>> \in places[m]
  PROVE  \A x \in ForeignRequest(m, u) : PacketOK(x, places)
<1> DEFINE v == [type |-> REQT_PKT_TYPE, flags |-> REQT_PKT_DIRECT_FROM_MU,
                 life |-> u.life, home |-> m, agent |-> u.ha, coa |-> u.port,
                 source |-> {}, dest |-> u.ha]
<1>1. /\ u.ha = Home /\ m \in Bits4 /\ Home \in Bits4 /\ u.life \in Bits4
      /\ u.port \in Bits4
  BY Names DEF Units
<1>2. v \in Requests /\ v.type = REQT_PKT_TYPE
  BY <1>1, Names, RequestFlags DEF Requests
<1>3. u.agent \in Routers => RequestOK(<<u.agent, Gate>>, v, places)
  BY <1>1, Names DEF RequestOK
<1>4. ForeignRequest(m, u) = SentToRouter(v, u.agent)
  BY DEF ForeignRequest
<1> HIDE DEF v
<1> QED BY <1>2, <1>3, <1>4, Types, SentToRouterPackets DEF Meant, Messages

LEMMA DeregistrationPackets ==
  ASSUME NEW u \in Units, NEW places
  PROVE  \A x \in Deregistration(u) : PacketOK(x, places)
<1> DEFINE v == [type |-> REQT_PKT_TYPE, flags |-> REQT_PKT_DEREGISTER, life |-> {},
                 home |-> {}, agent |-> {}, coa |-> u.port, source |-> {}, dest |-> {}]
<1>1. u.port \in Bits4
  BY DEF Units
<1>2. v \in Requests /\ v.type = REQT_PKT_TYPE
  BY <1>1, Names, RequestFlags DEF Requests
<1>3. \A a : RequestOK(a, v, places)
  BY DEF RequestOK
<1>4. Deregistration(u) = SentToRouter(v, u.agent)
  BY DEF Deregistration
<1> HIDE DEF v
<1> QED BY <1>2, <1>3, <1>4, Types, SentToRouterPackets DEF Meant, Messages

\* A unit does not bind where the correspondent node listens.
LEMMA BoundUnits ==
  ASSUME NEW m \in Mobiles, NEW u, u \in Units, u.agent \in Agents \cup {{}}
  PROVE  \A b \in Bound(m, u) : UnitOK(m, b)
<1> SUFFICES ASSUME NEW p, [u EXCEPT !.port = p] \in Bound(m, u),
                    ~Taken(m, <<u.net, p>>), p \in Temporary \cup {u.port}
             PROVE  UnitOK(m, [u EXCEPT !.port = p])
  BY DEF Bound
<1> DEFINE b == [u EXCEPT !.port = p]
<1>1. p \in Bits4
  BY HostAssumption DEF Units
<1>2. /\ b \in Units /\ b.agent = u.agent /\ b.net = u.net /\ b.port = p
      /\ b.ha = Home
  BY <1>1 DEF Units
<1> HIDE DEF b
<1>3. <<u.net, p>> # Cn /\ <<Home, m>> # Cn
  BY HostAssumption DEF Taken
<1>4. Place(m, b) # Cn
  BY <1>2, <1>3 DEF Place
<1>5. UnitOK(m, b)
  BY <1>2, <1>4 DEF UnitOK
<1> QED BY <1>5 DEF b

\* Who advertises.
LEMMA AdvertRead ==
  ASSUME Inv, NEW w \in wire, TypeIs(w, ICMP_PKT_TYPE)
  PROVE  /\ AgentIs(w, ICMP_AGT_HME) => Advertiser(w) = Home
         /\ AgentIs(w, ICMP_AGT_FGN) => Advertiser(w) \in Agents
         /\ Check(ICMP_LifeTime, w.bits) \in Bits4
         /\ Check(ICMP_AvailCareOfAddress(1), w.bits) \in Bits4
<1> DEFINE v == w.meant
<1>1. PacketOK(w, asked)
  BY DEF Inv
<1>2. v \in Adverts /\ AdvertOK(v) /\ v.type = ICMP_PKT_TYPE
  BY <1>1, PacketMeans
<1>3. Says(w.bits, v)
  BY <1>1, <1>2, PacketMeans, Types DEF PacketOK
<1>4. /\ Advertiser(w) = v.source /\ Check(ICMP_ICMPFlags, w.bits) = v.flags
      /\ Check(ICMP_LifeTime, w.bits) = v.life
      /\ Check(ICMP_AvailCareOfAddress(1), w.bits) = v.coa
  BY <1>2, <1>3 DEF Says, Advertiser
<1>5. /\ 1 \in ICMP_AGT_HME /\ 1 \notin ICMP_AGT_FGN
      /\ ICMP_checkAgentType(ICMP_AGT_HME) = ICMP_AGT_HME
  BY DEF ICMP_AGT_HME, ICMP_AGT_FGN, ICMP_checkAgentType
<1>6. ICMP_checkAgentType(ICMP_AGT_FGN) = ICMP_AGT_FGN
  BY <1>5 DEF ICMP_checkAgentType
<1>7. v.life \in Bits4 /\ v.coa \in Bits4
  BY <1>2 DEF Adverts
<1> QED BY <1>2, <1>4, <1>5, <1>6, <1>7 DEF AgentIs, AdvertOK

LEMMA TakeHomeAdvertInv ==
  ASSUME Inv, NEW m \in Mobiles, NEW w \in wire, TakeHomeAdvert(m, w)
  PROVE  Inv'
<1> DEFINE u == [unit[m] EXCEPT !.ha = Advertiser(w), !.haveHome = TRUE]
           new == HomeRequest(m, u)
<1>1. Advertiser(w) = Home /\ ~unit[m].away
  BY AdvertRead DEF TakeHomeAdvert, IsHomeAdvert, AgentIs
<1>2. unit[m] \in Units /\ unit[m].agent \in Agents \cup {{}}
  BY DEF Inv, UnitOK
<1>3. u \in Units /\ u.agent = unit[m].agent /\ ~u.away /\ u.ha = Home
  BY <1>1, <1>2 DEF Units
<1>4. unit' = [unit EXCEPT ![m] = u] /\ wire' \subseteq wire \cup new
      /\ UNCHANGED <<fa, har>> /\ Asks(m, <<{}, {}>>)
  BY DEF TakeHomeAdvert
<1> HIDE DEF u
<1>5. UnitOK(m, u)
  BY <1>2, <1>3, HostAssumption DEF UnitOK, Place
<1>6. <<{}, {}>> \in AskedFor
  BY Names DEF AskedFor
<1>7. /\ asked' \in [Mobiles -> SUBSET AskedFor]
      /\ \A x \in Mobiles : asked[x] \subseteq asked'[x]
      /\ <<{}, {}>> \in asked'[m]
  BY <1>4, <1>6, Asking
<1>8. \A x \in new : PacketOK(x, asked')
  BY <1>3, <1>7, HomeRequestPackets
<1> HIDE DEF new
<1> QED BY <1>4, <1>5, <1>7, <1>8, UnitStepInv

LEMMA TakeAdvertInv ==
  ASSUME Inv, NEW m \in Mobiles, NEW w \in wire, TakeAdvert(m, w)
  PROVE  Inv'
<1> DEFINE u == FromAdvert(unit[m], w)
           new == ForeignRequest(m, u)
<1>1. /\ Advertiser(w) \in Agents
      /\ Check(ICMP_LifeTime, w.bits) \in Bits4
      /\ Check(ICMP_AvailCareOfAddress(1), w.bits) \in Bits4
  BY AdvertRead DEF TakeAdvert, AgentIs
<1>2. unit[m] \in Units /\ unit[m].agent \in Agents \cup {{}}
  BY DEF Inv, UnitOK
<1>3. u \in Units /\ u.agent \in Agents \cup {{}}
  <2>1. Advertiser(w) \in Bits3 /\ Advertiser(w) \in Bits4
    BY <1>1, Names
  <2> QED BY <1>1, <1>2, <2>1 DEF FromAdvert, Units
<1> HIDE DEF u
<1>4. PICK b \in Bound(m, u) :
        unit' = [unit EXCEPT ![m] = b] /\ wire' \subseteq wire \cup new
  BY DEF TakeAdvert, u
<1>5. UNCHANGED <<fa, har>> /\ Asks(m, <<u.agent, u.port>>)
  BY DEF TakeAdvert, u
<1>6. UnitOK(m, b)
  BY <1>3, BoundUnits
<1>7. <<u.agent, u.port>> \in AskedFor
  BY <1>3, Names DEF AskedFor, Units
<1>8. /\ asked' \in [Mobiles -> SUBSET AskedFor]
      /\ \A x \in Mobiles : asked[x] \subseteq asked'[x]
      /\ <<u.agent, u.port>> \in asked'[m]
  BY <1>5, <1>7, Asking
<1>9. \A x \in new : PacketOK(x, asked')
  BY <1>3, <1>8, ForeignRequestPackets
<1> HIDE DEF new
<1> QED BY <1>4, <1>5, <1>6, <1>8, <1>9, UnitStepInv

LEMMA TakeReplyInv ==
  ASSUME Inv, NEW m \in Mobiles, NEW w \in wire, TakeReply(m, w)
  PROVE  Inv'
<1>1. unit[m] \in Units /\ UnitOK(m, unit[m])
  BY DEF Inv
<1> DEFINE u == [unit[m] EXCEPT !.registered = TRUE, !.previously = TRUE]
<1>2. /\ u \in Units /\ u.agent = unit[m].agent /\ u.away = unit[m].away
      /\ u.net = unit[m].net /\ u.port = unit[m].port /\ u.ha = unit[m].ha
  BY <1>1 DEF Units
<1>3. unit' = [unit EXCEPT ![m] = u]
  BY DEF TakeReply, Inv
<1> HIDE DEF u
<1>4. UnitOK(m, u)
  BY <1>1, <1>2 DEF UnitOK, Place
<1>5. unit' \in [Mobiles -> Units] /\ \A x \in Mobiles : UnitOK(x, unit'[x])
  BY <1>3, <1>4 DEF Inv, UnitOK
<1> QED BY <1>5 DEF Inv, TakeReply

\* A unit answers only what the correspondent node has sent, unless a tunnel has
\* brought it a packet by chance.
LEMMA AnswerInv ==
  ASSUME Inv, NEW m \in Mobiles, NEW w \in wire, Answer(m, w)
  PROVE  Inv'
<1> DEFINE u == unit[m]
           v == IPFrom(m, u, Origin(w))
           g == Gateway(u)
           new == {[a EXCEPT !.spoilt = w.spoilt] : a \in SentToRouter(v, g)}
<1>1. TypeIs(w, IP_PKT_TYPE) /\ w.at = Place(m, u)
  BY DEF Answer, Reaches
<1>2. u \in Units /\ UnitOK(m, u)
  BY DEF Inv
<1>3. Origin(w)[1] \in Bits3 /\ Origin(w)[2] \in Bits4 /\ w.spoilt \in BOOLEAN
  BY <1>1, IPRead DEF Origin
<1>4. /\ v \in IPs /\ v.type = IP_PKT_TYPE /\ v.tunnel = {} /\ v.toNwk = {} /\ v.toIf = {}
      /\ v.dstNwk = Origin(w)[1] /\ v.dstIf = Origin(w)[2]
  <2>1. /\ u.ha \in Bits3 /\ m \in Bits4 /\ u.port \in Bits4 /\ u.net \in Bits3
        /\ {} \in Bits3 /\ {} \in Packet
    BY <1>2, Names DEF Units, Packet
  <2>2. (IF u.away THEN u.net ELSE {}) \in Bits3
    BY <2>1
  <2> QED BY <1>3, <2>1, <2>2 DEF IPs, IPFrom
<1>5. ~w.spoilt => Origin(w) = Cn
  <2> SUFFICES ASSUME ~w.spoilt PROVE Origin(w) = Cn
    OBVIOUS
  <2>1. /\ IPOK(w.at, w.meant, asked)
        /\ Origin(w) = <<w.meant.srcNwk, w.meant.srcIf>>
    BY <1>1, IPRead DEF Origin
  <2>2. w.at # Cn /\ ~ \E r \in Routers : w.at = <<r, Gate>>
    BY <1>1, <1>2, PlaceIs DEF UnitOK
  <2> QED BY <2>1, <2>2 DEF IPOK
<1>6. Encoded(v) \in Packet /\ Says(Encoded(v), v)
  BY <1>4, EncodedSays DEF Messages
<1>7. Check(PacketType, Encoded(v)) = v.type
  BY <1>6 DEF Says
<1>8. ~w.spoilt => \A r \in Routers : Meant(<<r, Gate>>, v, asked)
  BY <1>4, <1>5, Types, Names DEF Meant, IPOK
<1>9. UNCHANGED <<unit, fa, har, asked>> /\ wire' \subseteq wire \cup new
  BY DEF Answer
<1> HIDE DEF v, g
<1>10. ASSUME NEW a \in SentToRouter(v, g)
       PROVE  PacketOK([a EXCEPT !.spoilt = w.spoilt], asked)
  <2>1. g \in Routers
    BY <1>10 DEF SentToRouter
  <2>2. a = Sent(v, <<g, Gate>>)
    BY <1>10, <2>1 DEF SentToRouter
  <2> DEFINE x == [at |-> <<g, Gate>>, meant |-> v, bits |-> Encoded(v),
                   spoilt |-> w.spoilt]
  <2>3. [a EXCEPT !.spoilt = w.spoilt] = x
    BY <2>2 DEF Sent
  <2>4. <<g, Gate>> \in Places /\ v \in Messages
    BY <1>4, <2>1, Names DEF Messages
  <2>5. PacketOK(x, asked)
    BY <1>3, <1>4, <1>6, <1>7, <1>8, <2>1, <2>4 DEF PacketOK
  <2> QED BY <2>3, <2>5
<1>11. \A x \in new : PacketOK(x, asked)
  BY <1>10
<1> HIDE DEF new
<1> QED BY <1>9, <1>11, WireStep

LEMMA AskAgainInv ==
  ASSUME Inv, NEW m \in Mobiles, NEW w \in wire, AskAgain(m, w)
  PROVE  Inv'
<1> DEFINE u == [unit[m] EXCEPT !.registered = FALSE]
           new == ForeignRequest(m, unit[m])
           place == <<unit[m].agent, unit[m].port>>
<1>1. unit[m] \in Units /\ UnitOK(m, unit[m]) /\ unit[m].agent \in Agents \cup {{}}
  BY DEF Inv, UnitOK
<1>2. /\ u \in Units /\ u.agent = unit[m].agent /\ u.away = unit[m].away
      /\ u.net = unit[m].net /\ u.port = unit[m].port /\ u.ha = unit[m].ha
  BY <1>1 DEF Units
<1>3. unit' = [unit EXCEPT ![m] = u] /\ wire' \subseteq wire \cup new
      /\ UNCHANGED <<fa, har>> /\ Asks(m, place)
  BY DEF AskAgain
<1> HIDE DEF u
<1>4. UnitOK(m, u)
  BY <1>1, <1>2 DEF UnitOK, Place
<1>5. place \in AskedFor
  BY <1>1, Names DEF AskedFor, Units
<1>6. /\ asked' \in [Mobiles -> SUBSET AskedFor]
      /\ \A x \in Mobiles : asked[x] \subseteq asked'[x]
      /\ place \in asked'[m]
  BY <1>3, <1>5, Asking
<1>7. \A x \in new : PacketOK(x, asked')
  BY <1>1, <1>6, ForeignRequestPackets
<1> HIDE DEF new, place
<1> QED BY <1>3, <1>4, <1>6, <1>7, UnitStepInv

LEMMA UnitActionInv ==
  ASSUME Inv, NEW m \in Mobiles, NEW w \in wire, UnitStep(m, w)
  PROVE  Inv'
<1>1. CASE TakeHomeAdvert(m, w)
  BY <1>1, TakeHomeAdvertInv
<1>2. CASE TakeAdvert(m, w)
  BY <1>2, TakeAdvertInv
<1>3. CASE TakeReply(m, w)
  BY <1>3, TakeReplyInv
<1>4. CASE Answer(m, w)
  BY <1>4, AnswerInv
<1>5. CASE AskAgain(m, w)
  BY <1>5, AskAgainInv
<1>6. CASE Ignore(m, w)
  BY <1>6, LossStep DEF Ignore
<1> QED BY <1>1, <1>2, <1>3, <1>4, <1>5, <1>6 DEF UnitStep

LEMMA MoveInv ==
  ASSUME Inv, NEW m \in Mobiles, NEW n \in Foreign \cup {Home}, Move(m, n)
  PROVE  Inv'
<1> DEFINE u == unit[m]
           left == IF u.away THEN [u EXCEPT !.life = {}, !.previously = FALSE,
                                            !.registered = FALSE]
                   ELSE [u EXCEPT !.registered = FALSE]
           home == [left EXCEPT !.away = FALSE]
           gone == [left EXCEPT !.away = TRUE, !.net = n]
           new == Deregistration(u)
<1>1. u \in Units /\ u.agent \in Agents \cup {{}} /\ n \in Bits3
  BY Names DEF Inv, UnitOK
<1>2. left \in Units /\ left.agent = u.agent
  BY <1>1, Names DEF Units
<1>3. PICK b \in IF n = Home THEN {home} ELSE Bound(m, gone) :
        unit' = [unit EXCEPT ![m] = b] /\ wire' \subseteq wire \cup new
  BY DEF Move
<1> HIDE DEF left
<1>4. /\ home \in Units /\ home.agent = u.agent /\ home.away = FALSE /\ home.ha = Home
      /\ gone \in Units /\ gone.agent = u.agent
  BY <1>1, <1>2 DEF Units
<1> HIDE DEF home, gone
<1>5. UnitOK(m, home)
  BY <1>1, <1>4, HostAssumption DEF UnitOK, Place
<1>6. \A x \in Bound(m, gone) : UnitOK(m, x)
  BY <1>1, <1>4, BoundUnits
<1>7. UnitOK(m, b)
  BY <1>3, <1>5, <1>6
<1>8. UNCHANGED <<fa, har, asked>>
  BY DEF Move
<1>9. /\ asked' \in [Mobiles -> SUBSET AskedFor]
      /\ \A x \in Mobiles : asked[x] \subseteq asked'[x]
  BY <1>8 DEF Inv
<1>10. \A x \in new : PacketOK(x, asked')
  BY <1>1, DeregistrationPackets
<1> HIDE DEF new
<1> QED BY <1>3, <1>7, <1>8, <1>9, <1>10, UnitStepInv

LEMMA InvInit == Init => Inv
<1> SUFFICES ASSUME Init PROVE Inv
  OBVIOUS
<1>1. ASSUME NEW m \in Mobiles
      PROVE  unit[m] \in Units /\ UnitOK(m, unit[m])
  <2>1. PICK p \in Temporary : unit[m] = NewUnit(p)
    BY DEF Init
  <2>2. p \in Bits4
    BY HostAssumption
  <2>3. /\ unit[m] \in Units /\ unit[m].agent = {} /\ ~unit[m].away
        /\ unit[m].ha = Home
    BY <2>1, <2>2, Names DEF NewUnit, Units
  <2> QED BY <2>3, HostAssumption DEF UnitOK, Place
<1>2. unit \in [Mobiles -> Units]
  BY <1>1 DEF Init
<1>3. har \in [Routers -> [Bits4 -> Identities \cup {Unwritten}]]
      /\ \A r \in Routers, h \in Bits4 : RowOK(h, har[r][h], asked)
  BY DEF Init, RowOK
<1>4. fa \in [Routers -> [Bits4 -> Identities \cup {Nobody}]]
      /\ asked \in [Mobiles -> SUBSET AskedFor] /\ wire = {}
  BY DEF Init
<1> QED BY <1>1, <1>2, <1>3, <1>4 DEF Inv

LEMMA InvNext == Inv /\ [Next]_vars => Inv'
<1> SUFFICES ASSUME Inv, [Next]_vars PROVE Inv'
  OBVIOUS
<1>1. ASSUME NEW w \in wire, NEW r \in Routers, RouterStep(r, w)
      PROVE  Inv'
  BY <1>1, RouterStepInv
<1>2. ASSUME NEW w \in wire, NEW m \in Mobiles, UnitStep(m, w)
      PROVE  Inv'
  BY <1>2, UnitActionInv
<1>3. ASSUME NEW w \in wire, Show(w)
      PROVE  Inv'
  BY <1>3, LossStep DEF Show
<1>4. ASSUME NEW r \in Routers, NEW n \in Routers, NEW network \in Routers,
             NEW distance \in Distances, SendRow(r, n, network, distance)
      PROVE  Inv'
  BY <1>4, SendRowInv
<1>5. ASSUME NEW r \in Foreign \cup {Home}, NEW m \in Mobiles, Advertise(r, m)
      PROVE  Inv'
  BY <1>5, AdvertiseInv
<1>6. ASSUME NEW to \in Destinations, SendIP(to)
      PROVE  Inv'
  BY <1>6, SendIPInv
<1>7. ASSUME NEW m \in Mobiles, NEW n \in Foreign \cup {Home}, Move(m, n)
      PROVE  Inv'
  BY <1>7, MoveInv
<1>8. CASE UNCHANGED vars
  BY <1>8 DEF vars, Inv
<1> QED BY <1>1, <1>2, <1>3, <1>4, <1>5, <1>6, <1>7, <1>8 DEF Next

\* What packets, tables and units say, on every behaviour of the network.
THEOREM InvHolds == Spec => []Inv
BY InvInit, InvNext, PTL DEF Spec

-----------------------------------------------------------------------------
\* Every field of every packet and table holds a value of its width, and every
\* unit keeps one home agent.
THEOREM TypeCorrect == Spec => []TypeOK
<1>1. Inv => TypeOK
  <2> SUFFICES ASSUME Inv PROVE TypeOK
    OBVIOUS
  <2>1. wire \subseteq [at : Places, meant : Messages, bits : Packet, spoilt : BOOLEAN]
    BY DEF Inv, PacketOK
  <2>2. asked \in [Mobiles -> SUBSET Identities]
    <3>1. AskedFor \subseteq Identities
      BY Names DEF AskedFor, Identities
    <3> QED BY <3>1 DEF Inv
  <2> QED BY <2>1, <2>2 DEF Inv, TypeOK, Places
<1> QED BY <1>1, InvHolds, PTL

\* However packets are relayed, tunnelled and answered, no field that is put into
\* a packet with OR mixes with what was there (MIPPROTO_setBitAt).
THEOREM FieldsReadAsMeant == Spec => []ReadAsMeant
<1>1. Inv => ReadAsMeant
  BY DEF Inv, PacketOK, ReadAsMeant
<1> QED BY <1>1, InvHolds, PTL

\* setHAR and the tunnel: a unit is bound where it asked to be.
THEOREM BindingsAreAsked == Spec => []BoundWhereAsked
<1>1. Inv => BoundWhereAsked
  <2> SUFFICES ASSUME Inv PROVE BoundWhereAsked
    OBVIOUS
  <2>1. \A r \in Routers, h \in Bits4 :
          har[r][h] # Unwritten => h \in Mobiles /\ har[r][h] \in asked[h]
    BY DEF Inv, RowOK
  <2>2. ASSUME NEW w \in wire, TypeIs(w, IP_PKT_TYPE), IsTunnelled(w), ~w.spoilt
        PROVE  \E m \in Mobiles :
                 /\ Check(IP_DestinationInterface(FALSE), w.bits) = m
                 /\ <<Check(IP_DestNwk(TRUE), w.bits),
                      Check(IP_DestinationInterface(TRUE), w.bits)>> \in asked[m]
    <3>1. IPOK(w.at, w.meant, asked) /\ w.meant.tunnel # {}
      BY <2>2, IPRead
    <3>2. w.meant.dstIf \in Mobiles
          /\ <<w.meant.toNwk, w.meant.toIf>> \in asked[w.meant.dstIf]
      BY <3>1 DEF IPOK
    <3> QED BY <2>2, <3>2, IPRead
  <2> QED BY <2>1, <2>2 DEF BoundWhereAsked
<1> QED BY <1>1, InvHolds, PTL

\* MOBUNT_ReplyIPPkt: the original source of a packet is the correspondent node,
\* unless the packet is on its way to it.
THEOREM AnswersAreForSender == Spec => []AnswersGoToSender
<1>1. Inv => AnswersGoToSender
  <2> SUFFICES ASSUME Inv, NEW w \in wire, TypeIs(w, IP_PKT_TYPE), ~w.spoilt
               PROVE  Cn \in {Origin(w), <<Check(IP_DestNwk(FALSE), w.bits),
                                Check(IP_DestinationInterface(FALSE), w.bits)>>}
    BY DEF AnswersGoToSender
  <2>1. IPOK(w.at, w.meant, asked)
    BY IPRead
  <2>2. Cn \in {<<w.meant.srcNwk, w.meant.srcIf>>, <<w.meant.dstNwk, w.meant.dstIf>>}
    BY <2>1 DEF IPOK
  <2> QED BY <2>2, IPRead DEF Origin
<1> QED BY <1>1, InvHolds, PTL
=============================================================================
