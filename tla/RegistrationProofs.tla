------------------------- MODULE RegistrationProofs -------------------------
(***************************************************************************)
(* Mobility implements Registration, for every set of mobile units,        *)
(* networks and paths: every step of a router or of a mobile unit is one   *)
(* of Registration or leaves alone what Registration speaks of.            *)
(***************************************************************************)
EXTENDS MobilityProofs

RInv == TInv /\ Granted /\ Bound

leases == <<Holder, CurrentLeases>>

-----------------------------------------------------------------------------
(***************************************************************************)
(* The foreign agents: their rows are leases.                              *)
(***************************************************************************)

LEMMA LocationPairs ==
  /\ \A n \in Nets, c \in Addresses : <<n, c>> \in Locations
  /\ \A a \in Locations : a[1] \in Nets /\ a[2] \in Addresses /\ a = <<a[1], a[2]>>
  BY DEF Locations

\* Setting a row sets one holder.
LEMMA RowSet ==
  ASSUME TypeOK, NEW n \in Nets, NEW c \in Addresses, NEW x,
         fa' = [fa EXCEPT ![n][c] = x]
  PROVE  Holder' = [Holder EXCEPT ![<<n, c>>] = x]
<1>1. \A k \in Nets, d \in Addresses :
        fa'[k][d] = IF k = n /\ d = c THEN x ELSE fa[k][d]
  BY DEF TypeOK
<1>2. \A a \in Locations : Holder'[a] = IF a = <<n, c>> THEN x ELSE Holder[a]
  BY <1>1, LocationPairs DEF Holder
<1>3. Holder = [a \in Locations |-> Holder[a]] /\ Holder' = [a \in Locations |-> Holder'[a]]
  BY DEF Holder
<1> QED BY <1>2, <1>3

\* setFAHR takes a free row or the row of the sender: the address is granted.
LEMMA RequestGrants ==
  ASSUME TypeOK, NEW r \in msgs, HandleRequest(r)
  PROVE  \/ R!GrantTo(<<r.net, r.coa>>, r.who) /\ <<r.net, r.coa>> \in Locations
                                              /\ r.who \in Mobiles
         \/ UNCHANGED <<leases, granted, binding, bound, sock, Registered>>
<1>1. r.net \in Nets /\ r.who \in Mobiles /\ r.coa \in Addresses
  BY DEF HandleRequest, TypeOK, PacketRecords
<1> DEFINE n == r.net
           c == r.coa
           a == <<n, c>>
<1>2. a \in Locations /\ Holder[a] = fa[n][c]
  BY <1>1, LocationPairs DEF Holder
<1>3. UNCHANGED <<binding, bound, sock, Registered>>
  BY DEF HandleRequest, unitVars, Registered
<1>4. CASE fa[n][c] \in {Nobody, r.who}
  <2>1. /\ fa' = [fa EXCEPT ![n][c] = r.who]
        /\ taken' = [taken EXCEPT ![n] = @ \cup {c}]
        /\ granted' = granted \cup {<<r.who, a>>}
    BY <1>4 DEF HandleRequest
  <2>2. Holder' = [Holder EXCEPT ![a] = r.who]
    BY <1>1, <2>1, RowSet
  <2>3. \A b \in Locations : Holder'[b] = IF b = a THEN r.who ELSE Holder[b]
    BY <2>2, <1>2 DEF Holder
  <2>4. \A b \in Locations : b[2] \in taken'[b[1]] <=> b = a \/ b[2] \in taken[b[1]]
    <3>1. \A k \in Nets : taken'[k] = IF k = n THEN taken[k] \cup {c} ELSE taken[k]
      BY <2>1 DEF TypeOK
    <3> SUFFICES ASSUME NEW b \in Locations
                 PROVE  b[2] \in taken'[b[1]] <=> b = a \/ b[2] \in taken[b[1]]
      OBVIOUS
    <3>2. b[1] \in Nets /\ (b = a <=> b[1] = n /\ b[2] = c)
      BY LocationPairs
    <3> HIDE DEF a, n, c
    <3> QED BY <3>1, <3>2
  <2>5. CurrentLeases' = CurrentLeases \cup {a}
    <3>1. r.who # Nobody
      BY <1>1, NamesDiffer
    <3> HIDE DEF a
    <3> QED BY <1>2, <2>3, <2>4, <3>1 DEF CurrentLeases
  <2> HIDE DEF a
  <2> QED BY <1>1, <1>2, <1>3, <1>4, <2>1, <2>2, <2>5
          DEF R!GrantTo, R!Grant, R!clientState, a
<1>5. CASE fa[n][c] \notin {Nobody, r.who}
  BY <1>3, <1>5 DEF HandleRequest, leases, Holder, CurrentLeases
<1> QED BY <1>4, <1>5

\* A de-registration gives the address back, whoever has it.
LEMMA DeregistrationGivesBack ==
  ASSUME TypeOK, NEW r \in msgs, HandleDeregistration(r)
  PROVE  <<r.net, r.coa>> \in Locations /\ R!EndLease(<<r.net, r.coa>>)
<1>1. r.net \in Nets /\ r.coa \in Addresses
  BY DEF HandleDeregistration, TypeOK, PacketRecords
<1> DEFINE a == <<r.net, r.coa>>
<1>2. a \in Locations
  BY <1>1, LocationPairs
<1>3. Holder' = [Holder EXCEPT ![a] = Nobody]
  BY <1>1, RowSet DEF HandleDeregistration
<1>4. \A b \in Locations : Holder'[b] = IF b = a THEN Nobody ELSE Holder[b]
  BY <1>2, <1>3 DEF Holder
<1>5. UNCHANGED <<taken, granted, binding, bound, sock, mu>>
  BY DEF HandleDeregistration, unitVars
<1> HIDE DEF a
<1>6. CurrentLeases' = CurrentLeases \ {a}
  BY <1>2, <1>4, <1>5 DEF CurrentLeases
<1>7. R!GiveBack(a)
  BY <1>3, <1>6 DEF R!GiveBack
<1> QED BY <1>2, <1>5, <1>7
        DEF R!EndLease, R!agentRegisters, R!clientState, Registered, a

\* The validity thread ends a lease and leaves the row to its holder.
LEMMA FlagExpires ==
  ASSUME TypeOK, NEW n \in Nets, NEW c \in Addresses, FreeCareOfAddress(n, c)
  PROVE  <<n, c>> \in Locations /\ R!EndLease(<<n, c>>)
<1> DEFINE a == <<n, c>>
<1>1. a \in Locations /\ Holder[a] = fa[n][c]
  BY LocationPairs DEF Holder
<1>2. /\ fa[n][c] # Nobody /\ c \in taken[n] /\ taken' = [taken EXCEPT ![n] = @ \ {c}]
      /\ UNCHANGED <<fa, granted, binding, bound, sock, mu>>
  BY DEF FreeCareOfAddress, unitVars
<1>3. \A b \in Locations : b[2] \in taken'[b[1]] <=> b # a /\ b[2] \in taken[b[1]]
  <2>1. \A k \in Nets : taken'[k] = IF k = n THEN taken[k] \ {c} ELSE taken[k]
    BY <1>2 DEF TypeOK
  <2> QED BY <2>1, LocationPairs
<1>4. Holder' = Holder
  BY <1>2 DEF Holder
<1>5. a \in CurrentLeases
  BY <1>1, <1>2 DEF CurrentLeases
<1> HIDE DEF a
<1>6. CurrentLeases' = CurrentLeases \ {a}
  BY <1>3, <1>4 DEF CurrentLeases
<1>7. R!Expire(a)
  BY <1>4, <1>5, <1>6 DEF R!Expire
<1> QED BY <1>1, <1>2, <1>7
        DEF R!EndLease, R!agentRegisters, R!clientState, Registered, a

-----------------------------------------------------------------------------
(***************************************************************************)
(* The home agent and the mobile units.                                    *)
(***************************************************************************)

\* What a step does to the rows and to what the agents know when it is a step
\* of a mobile unit.
LEMMA AgentsUnchanged ==
  ASSUME UNCHANGED agentVars
  PROVE  UNCHANGED <<leases, granted, binding, bound>>
BY DEF agentVars, leases, Holder, CurrentLeases

LEMMA HomeAgentBinds ==
  ASSUME RInv, NEW r \in msgs, HandleRelay(r) \/ HandleHomeRequest(r)
  PROVE  \/ \E a \in Locations, m \in Mobiles : R!Bind(m, a)
         \/ \E m \in Mobiles : R!BindHome(m)
<1>0. TypeOK /\ r \in PacketRecords
  BY DEF RInv, TInv, TypeOK
<1>1. UNCHANGED <<leases, granted, sock, Registered>>
  BY DEF HandleRelay, HandleHomeRequest, unitVars, leases, Holder, CurrentLeases, Registered
<1>2. CASE HandleRelay(r)
  <2>1. r.who \in Mobiles /\ BindingOf(r) \in Locations
    BY <1>0, <1>2, LocationPairs DEF HandleRelay, PacketRecords, BindingOf
  <2>2. <<r.who, BindingOf(r)>> \in granted
    BY <1>2 DEF HandleRelay, BindingOf, RInv, Granted, RelaysWereGranted
  <2>3. R!Bind(r.who, BindingOf(r))
    BY <1>1, <1>2, <2>2 DEF HandleRelay, R!Bind, R!leaseVars, R!clientState, leases
  <2> QED BY <2>1, <2>3
<1>3. CASE HandleHomeRequest(r)
  <2>1. r.who \in Mobiles
    BY <1>0, <1>3 DEF HandleHomeRequest, PacketRecords
  <2>2. R!BindHome(r.who)
    BY <1>1, <1>3 DEF HandleHomeRequest, R!BindHome, R!leaseVars, R!clientState, leases
  <2> QED BY <2>1, <2>2
<1> QED BY <1>2, <1>3

\* A step of a mobile unit that moves no socket but its own, and registers it
\* only with the home agent behind it.
LEMMA UnitMoves ==
  ASSUME RInv, RInv', UNCHANGED agentVars, NEW m \in Mobiles,
         \A x \in Mobiles \ {m} : /\ sock'[x] = sock[x]
                                  /\ mu'[x].registered = mu[x].registered,
         mu'[m].registered => mu[m].registered \/ HasReply(queue[m])
  PROVE  \E s \in Sockets \cup {NoSocket}, reg \in BOOLEAN : R!Move(m, s, reg)
<1> DEFINE s == sock'[m]
           reg == mu'[m].registered
<1>0. /\ sock \in [Mobiles -> Sockets \cup {NoSocket}]
      /\ sock' \in [Mobiles -> Sockets \cup {NoSocket}]
      /\ mu' \in [Mobiles -> MobileUnit]
  BY DEF RInv, TInv, TypeOK
<1>1. s \in Sockets \cup {NoSocket} /\ reg \in BOOLEAN
  BY <1>0 DEF MobileUnit
<1>2. sock' = [sock EXCEPT ![m] = s]
  BY <1>0
<1>3. Registered' = [Registered EXCEPT ![m] = reg]
  BY DEF Registered
<1>4. s = NoSocket \/ \A x \in Mobiles \ {m} : sock[x] # s
  BY DEF RInv, Bound, SocketsDiffer
<1>5. reg => Registered[m] \/ \E x \in Mobiles : <<x, sock[m]>> \in bound
  BY DEF RInv, Bound, QueuedWereBound, IsBound, Registered
<1>6. UNCHANGED <<leases, granted, binding, bound>>
  BY AgentsUnchanged
<1> HIDE DEF s, reg
<1>7. R!Move(m, s, reg)
  BY <1>2, <1>3, <1>4, <1>5, <1>6
     DEF R!Move, R!HasBeenBound, R!leaseVars, R!agentRegisters, leases
<1> QED BY <1>1, <1>7

LEMMA UnitStep ==
  ASSUME RInv, RInv', NEW m \in Mobiles, MainThread(m) \/ CareOfThread(m)
  PROVE  \E s \in Sockets \cup {NoSocket}, reg \in BOOLEAN : R!Move(m, s, reg)
<1>0. /\ TInv /\ TypeOK /\ SocketsDiffer /\ QueuedWereBound
      /\ mu \in [Mobiles -> MobileUnit] /\ mu[m] \in MobileUnit
      /\ sock \in [Mobiles -> Sockets \cup {NoSocket}]
  BY DEF RInv, TInv, TypeOK, Bound
<1>1. CASE MainThread(m)
  <2>1. PICK u \in MobileUnit :
          mu' = [mu EXCEPT ![m] = u] /\ (u.registered => mu[m].registered)
    BY <1>0, <1>1, MainThreadStep
  <2>2. /\ UNCHANGED agentVars
        /\ sock' = sock \/ sock' = [sock EXCEPT ![m] = NoSocket]
    BY <1>0, <1>1, MainThreadRest
  <2> QED BY <1>0, <2>1, <2>2, UnitMoves
<1>2. CASE CareOfThread(m)
  <2>1. UNCHANGED agentVars
    BY <1>0, <1>2, CareOfThreadStep
  <2>2. PICK u \in MobileUnit :
          /\ u.registered => mu[m].registered \/ HasReply(queue[m])
          /\ GoesOn(m, u) \/ \E q \in Seq(Waiting) : NextPacket(m, u, q)
    BY <1>0, <1>2, CareOfThreadStep
  <2>3. \E w \in MobileUnit :
          mu' = [mu EXCEPT ![m] = w] /\ w.registered = u.registered
    <3>1. CASE mu' = [mu EXCEPT ![m] = u]
      BY <3>1
    <3>2. CASE mu' = [mu EXCEPT ![m] = [u EXCEPT !.coa = "down"]]
      <4>1. [u EXCEPT !.coa = "down"] \in MobileUnit
            /\ [u EXCEPT !.coa = "down"].registered = u.registered
        BY DEF MobileUnit
      <4> QED BY <3>2, <4>1
    <3>3. ASSUME NEW p \in {u.port} \cup Temporary,
                 mu' = [mu EXCEPT ![m] = [u EXCEPT !.coa = "accept", !.port = p]]
          PROVE  \E w \in MobileUnit :
                   mu' = [mu EXCEPT ![m] = w] /\ w.registered = u.registered
      <4>1. p \in Addresses
        BY AddressFacts DEF MobileUnit
      <4>2. [u EXCEPT !.coa = "accept", !.port = p] \in MobileUnit
            /\ [u EXCEPT !.coa = "accept", !.port = p].registered = u.registered
        BY <4>1 DEF MobileUnit
      <4> QED BY <3>3, <4>2
    <3> QED BY <2>2, <3>1, <3>2, <3>3 DEF GoesOn, NextPacket
  <2>4. sock' = sock \/ \E a : sock' = [sock EXCEPT ![m] = a]
    BY <2>2 DEF NextPacket, GoesOn
  <2>5. \A x \in Mobiles \ {m} : sock'[x] = sock[x]
    BY <1>0, <2>4
  <2> QED BY <1>0, <2>1, <2>2, <2>3, <2>5, UnitMoves
<1> QED BY <1>1, <1>2

\* The rest is not for Registration: advertisements, packets delivered and
\* lost, and the lifetime as a mobile unit sees it.
LEMMA RestStutters ==
  ASSUME TypeOK,
         \/ \E m \in Mobiles : Expire(m) \/ Tunnel(m)
         \/ \E n \in Nets : MakeAdvert(n) \/ \E m \in Mobiles : Advertise(n, m)
         \/ \E r \in msgs : PassReply(r) \/ Lose(r)
  PROVE  UNCHANGED <<leases, granted, binding, bound, sock, Registered>>
<1>1. UNCHANGED <<leases, granted, binding, bound, sock>>
  BY DEF Expire, Tunnel, MakeAdvert, Advertise, PassReply, Lose, agentVars, unitVars,
         leases, Holder, CurrentLeases
<1>2. CASE mu' = mu
  BY <1>1, <1>2 DEF Registered
<1>3. ASSUME NEW m \in Mobiles, Expire(m) PROVE Registered' = Registered
  <2>1. mu' = [mu EXCEPT ![m] = [mu[m] EXCEPT !.recent = FALSE]]
        /\ mu \in [Mobiles -> MobileUnit] /\ mu[m] \in MobileUnit
    BY <1>3 DEF Expire, TypeOK
  <2>2. [mu[m] EXCEPT !.recent = FALSE].registered = mu[m].registered
    BY <2>1 DEF MobileUnit
  <2>3. \A x \in Mobiles : mu'[x].registered = mu[x].registered
    BY <2>1, <2>2
  <2> QED BY <2>3 DEF Registered
<1>4. mu' = mu \/ \E m \in Mobiles : Expire(m)
  BY DEF Tunnel, MakeAdvert, Advertise, PassReply, Lose, unitVars
<1> QED BY <1>1, <1>2, <1>3, <1>4

-----------------------------------------------------------------------------
LEMMA RInvInit == Init => RInv
<1>1. Init => ~HasReply(<<>>)
  BY DEF HasReply
<1> QED BY <1>1, InitTypes, AddressFacts
        DEF RInv, Init, Granted, RelaysWereGranted, BindingsWereGranted,
            Bound, SocketsDiffer, RepliesWereBound, QueuedWereBound

LEMMA RInvNext == RInv /\ [Next]_vars => RInv'
BY StepTypes, StepGranted, StepBound DEF RInv

\* Foreign agents, home agent and mobile units register as Registration says,
\* though they share nothing but packets that are delayed, overtaken and lost.
THEOREM MobilityRegisters == Spec => Registers
<1>1. Init => R!RegistrationInit
  <2> SUFFICES ASSUME Init PROVE R!RegistrationInit
    OBVIOUS
  <2>1. Holder = [a \in Locations |-> Nobody]
    BY LocationPairs DEF Init, Holder
  <2>2. CurrentLeases = {}
    BY <2>1 DEF CurrentLeases
  <2>3. Registered = [m \in Mobiles |-> FALSE]
    <3>1. \A m \in Mobiles : mu[m].registered = FALSE
      BY DEF Init, NewUnit
    <3> QED BY <3>1 DEF Registered
  <2> QED BY <2>1, <2>2, <2>3 DEF Init, R!RegistrationInit, R!Init
<1>2. ASSUME RInv, RInv', [Next]_vars
      PROVE  [R!RegistrationNext]_<<R!leaseVars, R!agentRegisters, R!clientState>>
  <2> DEFINE Stays == UNCHANGED <<leases, granted, binding, bound, sock, Registered>>
  <2>0. TypeOK
    BY <1>2 DEF RInv, TInv
  <2>1. CASE R!RegistrationNext \/ Stays
    BY <2>1 DEF R!leaseVars, R!agentRegisters, R!clientState, leases
  <2>2. CASE UNCHANGED vars
    <3>1. Stays
      BY <2>2 DEF vars, leases, Holder, CurrentLeases, Registered
    <3> QED BY <2>1, <3>1
  <2>3. ASSUME NEW m \in Mobiles, MainThread(m) \/ CareOfThread(m)
        PROVE  R!RegistrationNext
    BY <1>2, <2>3, UnitStep DEF R!RegistrationNext
  <2>4. ASSUME NEW r \in msgs, HandleRequest(r) \/ HandleDeregistration(r)
                               \/ HandleRelay(r) \/ HandleHomeRequest(r)
        PROVE  R!RegistrationNext \/ Stays
    BY <1>2, <2>0, <2>4, RequestGrants, DeregistrationGivesBack, HomeAgentBinds
       DEF R!RegistrationNext
  <2>5. ASSUME NEW n \in Nets, NEW c \in Addresses, FreeCareOfAddress(n, c)
        PROVE  R!RegistrationNext
    BY <2>0, <2>5, FlagExpires DEF R!RegistrationNext
  <2>6. CASE \/ \E m \in Mobiles : Expire(m) \/ Tunnel(m)
             \/ \E n \in Nets : MakeAdvert(n) \/ \E m \in Mobiles : Advertise(n, m)
             \/ \E r \in msgs : PassReply(r) \/ Lose(r)
    BY <2>0, <2>1, <2>6, RestStutters
  <2> HIDE DEF Stays
  <2> QED BY <1>2, <2>1, <2>2, <2>3, <2>4, <2>5, <2>6 DEF Next, Routers, Handle
<1> QED BY <1>1, <1>2, RInvInit, RInvNext, PTL DEF Spec, Registers, R!RegistrationSpec
-----------------------------------------------------------------------------
\* What Registration means for a unit: where the home agent sends its packets it
\* was bound, where it was bound an agent gave it the address, and no two units
\* listen on one socket.
Entitled ==
  /\ bound \subseteq granted
  /\ \A m \in Mobiles : binding[m] \in Locations => <<m, binding[m]>> \in bound
  /\ \A m, x \in Mobiles : m # x /\ sock[m] = sock[x] => sock[m] = NoSocket

BindingsAndSockets ==
  /\ DOMAIN binding = Mobiles /\ binding = [m \in Mobiles |-> binding[m]]
  /\ DOMAIN sock = Mobiles /\ sock = [m \in Mobiles |-> sock[m]]

\* Whoever registers units by the rules of Registration, as router.c:1319-1428,
\* table.c:46-165 and mobile_unit.c:344-448 do, keeps them entitled.
THEOREM RegistrationEntitles == R!RegistrationSpec => []Entitled
<1> DEFINE EInv == Entitled /\ BindingsAndSockets
           rvars == <<R!leaseVars, R!agentRegisters, R!clientState>>
<1>1. R!RegistrationInit => EInv
  BY AddressFacts DEF R!RegistrationInit, Entitled, BindingsAndSockets
<1>2. ASSUME EInv, [R!RegistrationNext]_rvars
      PROVE  EInv'
  <2>1. CASE UNCHANGED <<granted, binding, bound, sock>>
    BY <1>2, <2>1 DEF Entitled, BindingsAndSockets
  <2>2. ASSUME NEW a \in Locations, R!EndLease(a)
        PROVE  EInv'
    BY <2>1, <2>2 DEF R!EndLease, R!agentRegisters, R!clientState
  <2>3. ASSUME NEW a \in Locations, NEW m \in Mobiles, R!GrantTo(a, m)
        PROVE  EInv'
    BY <1>2, <2>3 DEF R!GrantTo, R!clientState, Entitled, BindingsAndSockets
  <2>4. ASSUME NEW a \in Locations, NEW m \in Mobiles, R!Bind(m, a)
        PROVE  EInv'
    BY <1>2, <2>4 DEF R!Bind, R!clientState, Entitled, BindingsAndSockets
  <2>5. ASSUME NEW m \in Mobiles, R!BindHome(m)
        PROVE  EInv'
    BY <1>2, <2>5, AddressFacts DEF R!BindHome, R!clientState, Entitled, BindingsAndSockets
  <2>6. ASSUME NEW m \in Mobiles, NEW s \in Sockets \cup {NoSocket}, NEW reg \in BOOLEAN,
               R!Move(m, s, reg)
        PROVE  EInv'
    BY <1>2, <2>6 DEF R!Move, R!agentRegisters, Entitled, BindingsAndSockets
  <2>7. CASE UNCHANGED rvars
    BY <2>1, <2>7 DEF R!agentRegisters, R!clientState
  <2> QED BY <1>2, <2>2, <2>3, <2>4, <2>5, <2>6, <2>7 DEF R!RegistrationNext
<1>3. EInv => Entitled
  OBVIOUS
<1> QED BY <1>1, <1>2, <1>3, PTL DEF R!RegistrationSpec
=============================================================================
