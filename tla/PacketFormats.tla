---------------------------- MODULE PacketFormats ----------------------------
(***************************************************************************)
(* The five packet formats (mip_protocol.c, mip_protocol.h).  A packet is  *)
(* an unsigned int, here the set of the positions of its bits, and so is   *)
(* every number that is put into one: {0, 2} is 5.  "&" is intersection,   *)
(* "|" is union, and a shift moves the members.                            *)
(***************************************************************************)
EXTENDS Integers

Bits == 0 .. 31

Packet == SUBSET Bits

ShiftLeft(v, n) == {b + n : b \in v} \cap Bits

ShiftRight(v, n) == {b - n : b \in v} \cap Bits

\* Numbers of three and of four bits.
Bits3 == SUBSET (0 .. 2)

Bits4 == SUBSET (0 .. 3)

\* MIPPROTO_setBitAt: OR, so that a bit which is set stays set.
MIPPROTO_setBitAt(position, v, p) == p \cup ShiftLeft(v, position)

(***************************************************************************)
(* A field is where its put function shifts a value to, and the mask and   *)
(* the shift of its check function.                                        *)
(***************************************************************************)
Field(at, mask, shift) == [at |-> at, mask |-> mask, shift |-> shift]

Put(f, v, p) == MIPPROTO_setBitAt(f.at, v, p)

Check(f, p) == ShiftRight(p \cap f.mask, f.shift)

-----------------------------------------------------------------------------
PacketType == Field(29, 29 .. 31, 29)

ICMP_PKT_TYPE  == {0}
REQT_PKT_TYPE  == {1}
RIP_PKT_TYPE   == {0, 1}
REPLY_PKT_TYPE == {2}
IP_PKT_TYPE    == {0, 1, 2}

-----------------------------------------------------------------------------
\* IP: the fields of the packet itself, or of its tunnel.
IP_SRC_NWK_MASK == 25 .. 27
IP_SRC_IF_MASK  == 21 .. 24
IP_DES_NWK_MASK == 18 .. 20
IP_DES_IF_MASK  == 14 .. 17

IP_SrcNwk(tunnelled) ==
  IF tunnelled THEN Field(11, ShiftRight(IP_SRC_NWK_MASK, 14), 11)
  ELSE Field(25, IP_SRC_NWK_MASK, 25)

IP_DestNwk(tunnelled) ==
  IF tunnelled THEN Field(4, ShiftRight(IP_DES_NWK_MASK, 14), 4)
  ELSE Field(18, IP_DES_NWK_MASK, 18)

IP_TunneledPkt == Field(28, 28 .. 28, 28)

\* The check of the tunnel's source interface takes the mask of another field.
IP_SourceInterface(tunnelled) ==
  IF tunnelled THEN Field(7, ShiftRight(IP_DES_NWK_MASK, 14), 7)
  ELSE Field(21, IP_SRC_IF_MASK, 21)

IP_DestinationInterface(tunnelled) ==
  IF tunnelled THEN Field(0, ShiftRight(IP_DES_IF_MASK, 14), 0)
  ELSE Field(14, IP_DES_IF_MASK, 14)

-----------------------------------------------------------------------------
RIP_SrcAddrROUTER == Field(25, 25 .. 28, 25)
RIP_NetworkID     == Field(21, 21 .. 24, 21)
RIP_DistanceToNwk == Field(17, 17 .. 20, 17)

-----------------------------------------------------------------------------
ICMP_AGT_HME == {1}
ICMP_AGT_FGN == {2}

\* ERR, which is not a set of bits the flags can hold.
NoAgent == Bits

ICMP_checkAgentType(flags) ==
  CASE ICMP_AGT_HME \subseteq flags -> ICMP_AGT_HME
    [] ~ICMP_AGT_HME \subseteq flags /\ ICMP_AGT_FGN \subseteq flags -> ICMP_AGT_FGN
    [] OTHER -> NoAgent

ICMP_setAgentType(flags, agent) == flags \cup agent

\* A slip, against which TypeOK of Packets is tried: the mask is a bit too wide.
ICMP_LifeTimeWide == Field(18, 18 .. 22, 18)

ICMP_ICMPFlags == Field(26, 26 .. 28, 26)

ICMP_LifeTime == Field(18, 18 .. 21, 18)

ICMP_SourceAddressOfPacket == Field(10, 10 .. 13, 10)

\* ICMP_COA_1 to 3; the second lies where the lifetime does.
ICMP_AvailCareOfAddress(index) ==
  CASE index = 1 -> Field(22, 22 .. 25, 22)
    [] index = 2 -> Field(18, 18 .. 21, 18)
    [] index = 3 -> Field(14, 14 .. 17, 14)

-----------------------------------------------------------------------------
REQT_PKT_DEREGISTER     == {}
REQT_PKT_DIRECT_FROM_MU == {0}
REQT_PKT_IS_A_RELAY     == {0, 1}

\* A slip, against which ReadAsMeant is tried: the home address is put where the
\* address of the home agent is.
REQT_HomeAddressLow == Field(15, 15 .. 18, 15)

REQT_REQTFlags                  == Field(27, 27 .. 28, 27)
REQT_LifeTimeOfRegistration     == Field(23, 23 .. 26, 23)

REQT_HomeAddress == Field(19, 19 .. 22, 19)

REQT_HomeAgentAddress           == Field(15, 15 .. 18, 15)
REQT_CareOfAddress              == Field(11, 11 .. 14, 11)
REQT_SourceAddressOfPacket      == Field(4, 4 .. 7, 4)
REQT_DestinationAddressOfPacket == Field(0, 0 .. 3, 0)

-----------------------------------------------------------------------------
REPLY_LifeTimeOfRegistration     == Field(23, 23 .. 26, 23)
REPLY_HomeAddress                == Field(19, 19 .. 22, 19)
REPLY_CareOfAddress              == Field(11, 11 .. 14, 11)
REPLY_SourceAddressOfPacket      == Field(4, 4 .. 7, 4)
REPLY_DestinationAddressOfPacket == Field(0, 0 .. 3, 0)
=============================================================================
