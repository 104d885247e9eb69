---------------------------- MODULE ForeignAgent ----------------------------
(***************************************************************************)
(* A router as a foreign agent: its table of registered mobile units       *)
(* (FARObj), its table of care-of addresses (CareOfAddressTableOBJ), and   *)
(* the three threads that share them without a lock: the router thread,    *)
(* which handles one request or reply at a time, the validity thread,      *)
(* which ends leases that ran out, and the thread that advertises a free   *)
(* care-of address.                                                        *)
(*                                                                         *)
(* The mobile units are the environment: a request may reach the router    *)
(* at any time, late or twice.  A mobile unit asks for the address it was  *)
(* last offered, or for a random one of 1 .. MAX_CARE_OF_ADDRESS-1 when    *)
(* its own socket could not be bound to that (rand()%14 + 1).  Time is the *)
(* action Tick.                                                            *)
(***************************************************************************)
EXTENDS Integers, FiniteSets, Lookup

CONSTANTS
  MobileUnits,          \* the pairs of home agent and home address
  NoOne,                \* the identity of a row that was never set
  Garbage,              \* an identity found in memory that is not a row
  MAX_CARE_OF_ADDRESS,  \* size of both tables (15)
  LIFE_TIME             \* the lifetime the router advertises (15)

ERR == -1

ASSUME IdentityAssumption ==
  NoOne \notin MobileUnits /\ Garbage \notin MobileUnits /\ NoOne # Garbage

ASSUME SizeAssumption ==
  MAX_CARE_OF_ADDRESS \in Nat /\ MAX_CARE_OF_ADDRESS > 1 /\ LIFE_TIME \in Nat

VARIABLES
  fa,        \* FAMobUnits->FAHArray, with the row behind its end
  coa,       \* COATable: size is MAX_ARRAY_SIZE, taken[ix] is COA_taken
  flagging,  \* the address the router thread has registered and has yet to
             \* flag as taken, or ERR
  ix,        \* the row the validity thread is at
  expiring,  \* what it still has to do there: "nothing", "flag" or "free"
  offered    \* the addresses that advertisements have carried

vars == <<fa, coa, flagging, ix, expiring, offered>>

Identities == MobileUnits \cup {NoOne, Garbage}

\* FAHArray is indexed with the care-of address, so it has no row for the
\* last one: that address falls on the memory behind the array.
TableRows == 0 .. MAX_CARE_OF_ADDRESS - 1

Rows == 0 .. MAX_CARE_OF_ADDRESS

Lifetimes == {0, LIFE_TIME}

\* left is MobileUnitLifeTime - (now - TimeIWasRegistered), not below zero.
RowRecords == [inUse : BOOLEAN, who : Identities, registered : BOOLEAN,
               life : Lifetimes, left : 0 .. LIFE_TIME]

NewRow(who, inUse) ==
  [inUse |-> inUse, who |-> who, registered |-> FALSE, life |-> 0, left |-> 0]

-----------------------------------------------------------------------------
(***************************************************************************)
(* table.c                                                                 *)
(***************************************************************************)

\* Plausible slips, against which the properties are tried: a row is given
\* away when its lease has expired, the last free address is advertised, the
\* check tests the flag it sets, and a lease is one tick too long.
AcceptsExpired(row, m) ==
  row.who \in {NoOne, m} \/ ~row.inUse \/ ~row.registered

getFreeCareOfAddressLast(t) ==
  LET free == {i \in 0 .. t.size - 1 : ~t.taken[i]}
  IN  IF free = {} THEN ERR ELSE 1 + CHOOSE i \in free : \A j \in free : j <= i

IsExpiredWrongFlag(row) == row.inUse /\ ~row.registered /\ row.left = 0

RegisteredRowLonger(m, life) ==
  [inUse |-> TRUE, who |-> m, registered |-> TRUE, life |-> life,
   left |-> life + 1]

\* The condition of setFAHR.
Accepts(row, m) == row.who \in {NoOne, m} \/ ~row.inUse

RegisteredRow(m, life) ==
  [inUse |-> TRUE, who |-> m, registered |-> TRUE, life |-> life, left |-> life]

\* Index -1 is the word before the array, which holds MAX_ARRAY_SIZE; TRUE
\* and FALSE are 1 and 0.
setCOAUsedBit(t, i, used) ==
  IF i = -1 THEN [t EXCEPT !.size = IF used THEN 1 ELSE 0]
  ELSE [t EXCEPT !.taken[i] = used]

getFreeCareOfAddress(t) ==
  LET free == {i \in 0 .. t.size - 1 : ~t.taken[i]}
  IN  IF free = {} THEN ERR ELSE FirstOf(free) + 1

\* What ROUTER_CheckIsMUnitStillValidFA asks of its copy of a row.
IsExpired(row) == row.inUse /\ row.left = 0

-----------------------------------------------------------------------------

\* The memory behind the array is not initialised.
Init ==
  /\ \E inUse \in BOOLEAN :
       fa = [c \in Rows |-> IF c \in TableRows THEN NewRow(NoOne, FALSE)
                            ELSE NewRow(Garbage, inUse)]
  /\ coa = [size |-> MAX_CARE_OF_ADDRESS, taken |-> [i \in TableRows |-> FALSE]]
  /\ flagging = ERR
  /\ ix = 0
  /\ expiring = "nothing"
  /\ offered = {}

\* The addresses a packet of a mobile unit may carry.
Askable == offered \cup 1 .. MAX_CARE_OF_ADDRESS - 1

(***************************************************************************)
(* The router thread: the request and reply cases of ROUTER_Callback.      *)
(***************************************************************************)

\* A request straight from a mobile unit is entered in the table.  (A request
\* that is not accepted changes nothing.)
Register(m, c, life) ==
  /\ flagging = ERR
  /\ Accepts(fa[c], m)
  /\ fa' = [fa EXCEPT ![c] = RegisteredRow(m, life)]
  /\ flagging' = c
  /\ UNCHANGED <<coa, ix, expiring, offered>>

\* The rest of the handler: the address is flagged and the request is relayed
\* to the home agent.
FlagAsTaken ==
  /\ flagging # ERR
  /\ coa' = setCOAUsedBit(coa, flagging - 1, TRUE)
  /\ flagging' = ERR
  /\ UNCHANGED <<fa, ix, expiring, offered>>

\* The de-registration names an address and no mobile unit.
Deregister(c) ==
  /\ flagging = ERR
  /\ fa' = [fa EXCEPT ![c].inUse = FALSE, ![c].registered = FALSE]
  /\ UNCHANGED <<coa, flagging, ix, expiring, offered>>

\* The reply to a registration that this router relayed passes through: the
\* lease starts again.
PassReply(c) ==
  /\ flagging = ERR
  /\ fa[c].who \in MobileUnits
  /\ fa' = [fa EXCEPT ![c].left = fa[c].life]
  /\ UNCHANGED <<coa, flagging, ix, expiring, offered>>

RouterThread ==
  \/ \E c \in Askable :
       \/ \E m \in MobileUnits, life \in Lifetimes : Register(m, c, life)
       \/ Deregister(c)
  \/ FlagAsTaken
  \/ \E c \in Rows : PassReply(c)

(***************************************************************************)
(* The validity thread: ROUTER_CheckIsMUnitStillValidFA copies a row,      *)
(* decides on the copy, then writes to the two tables.                     *)
(***************************************************************************)

NextRow == (ix + 1) % MAX_CARE_OF_ADDRESS

CheckRow ==
  /\ expiring = "nothing"
  /\ IF IsExpired(fa[ix]) THEN expiring' = "flag" /\ UNCHANGED ix
     ELSE ix' = NextRow /\ UNCHANGED expiring
  /\ UNCHANGED <<fa, coa, flagging, offered>>

FlagAsNotRegistered ==
  /\ expiring = "flag"
  /\ fa' = [fa EXCEPT ![ix].registered = FALSE]
  /\ expiring' = "free"
  /\ UNCHANGED <<coa, flagging, ix, offered>>

FreeCareOfAddress ==
  /\ expiring = "free"
  /\ coa' = setCOAUsedBit(coa, ix - 1, FALSE)
  /\ expiring' = "nothing"
  /\ ix' = NextRow
  /\ UNCHANGED <<fa, flagging, offered>>

ValidityThread == CheckRow \/ FlagAsNotRegistered \/ FreeCareOfAddress

(***************************************************************************)
(* The advertising thread: ROUTER_makeIcmpPackets.  With no free address   *)
(* the field stays zero and the advertisement is sent all the same.        *)
(***************************************************************************)

AdvertisedAddress ==
  LET c == getFreeCareOfAddress(coa) IN IF c = ERR THEN 0 ELSE c

Advertise ==
  /\ offered' = offered \cup {AdvertisedAddress}
  /\ UNCHANGED <<fa, coa, flagging, ix, expiring>>

Tick ==
  /\ fa' = [c \in Rows |->
              [fa[c] EXCEPT !.left = IF @ > 0 THEN @ - 1 ELSE 0]]
  /\ UNCHANGED <<coa, flagging, ix, expiring, offered>>

Next == RouterThread \/ ValidityThread \/ Advertise \/ Tick

Spec == Init /\ [][Next]_vars

\* The validity thread runs for as long as the process does.
FairSpec == Spec /\ WF_vars(ValidityThread)

-----------------------------------------------------------------------------
(***************************************************************************)
(* Properties.                                                             *)
(***************************************************************************)

TypeOK ==
  /\ fa \in [Rows -> RowRecords]
  /\ coa \in [size : {0, 1, MAX_CARE_OF_ADDRESS},
              taken : [TableRows -> BOOLEAN]]
  /\ flagging \in {ERR} \cup Rows
  /\ ix \in TableRows
  /\ expiring \in {"nothing", "flag", "free"}
  /\ offered \subseteq Rows

HasRegistered(c) == fa[c].who \in MobileUnits

\* The router writes behind FAHArray only after every address inside it was
\* registered, and it writes before COATableArray (over the size of the
\* table) only after every address was, whatever the threads do to each other
\* and however late a request arrives.
OverrunNeedsExhaustion ==
  /\ HasRegistered(MAX_CARE_OF_ADDRESS) \/ MAX_CARE_OF_ADDRESS \in offered =>
       \A c \in 1 .. MAX_CARE_OF_ADDRESS - 1 : HasRegistered(c)
  /\ coa.size # MAX_CARE_OF_ADDRESS \/ 0 \in offered =>
       \A c \in 1 .. MAX_CARE_OF_ADDRESS : HasRegistered(c)

\* The table grants leases: an address passes from one mobile unit to another
\* only after a de-registration that names it, and a registered mobile unit
\* holds its address.  Late or repeated requests, replies, and a validity
\* thread that acts on a row which has changed since do not break that.
L == INSTANCE Lease WITH
       Addresses <- TableRows,
       Clients <- MobileUnits,
       Nobody <- NoOne,
       holder <- [c \in TableRows |-> IF fa[c].inUse THEN fa[c].who ELSE NoOne],
       current <- {c \in TableRows : fa[c].registered}

GrantsLeases == L!LeaseSpec

\* A lease that has run out in a row of the table is ended or renewed, however
\* the registrations, replies and checks of all rows interleave.
LeasesEnd ==
  \A c \in TableRows :
    []((fa[c].inUse /\ fa[c].left = 0)
         => <>(~fa[c].registered \/ fa[c].left > 0))

\* router.c:1172-1175: a mobile unit is flagged as no longer registered if
\* "timenow minus time registered is greater then the lifetime".
FlaggedOnlyWhenExpired ==
  [][\A c \in TableRows : FlagAsNotRegistered /\ fa[c].registered
        /\ ~fa'[c].registered => fa[c].left = 0]_vars
=============================================================================
