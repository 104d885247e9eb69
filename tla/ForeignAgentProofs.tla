------------------------- MODULE ForeignAgentProofs -------------------------
(***************************************************************************)
(* Proofs about ForeignAgent for every set of mobile units, every size of  *)
(* the tables and every lifetime: the types, the order in which addresses  *)
(* are used up, and that the table of mobile units implements Lease.       *)
(***************************************************************************)
EXTENDS ForeignAgent, LookupProofs, TLAPS

-----------------------------------------------------------------------------
(***************************************************************************)
(* The invariant.  An address is flagged, offered or about to be flagged   *)
(* only after it, or every address before it, was registered; and who has  *)
(* registered is never forgotten.                                          *)
(***************************************************************************)

InsideUsed == \A c \in 1 .. MAX_CARE_OF_ADDRESS - 1 : HasRegistered(c)

AllUsed == \A c \in 1 .. MAX_CARE_OF_ADDRESS : HasRegistered(c)

FlagsOK == \A i \in TableRows : coa.taken[i] => HasRegistered(i + 1)

ThreadsOK ==
  /\ flagging # ERR => HasRegistered(flagging)
  /\ expiring # "nothing" => HasRegistered(ix)
  /\ \A c \in TableRows : fa[c].inUse => HasRegistered(c)

UsedInOrder ==
  /\ HasRegistered(MAX_CARE_OF_ADDRESS) \/ MAX_CARE_OF_ADDRESS \in offered
       => InsideUsed
  /\ HasRegistered(0) \/ 0 \in offered \/ coa.size # MAX_CARE_OF_ADDRESS
       => AllUsed

Inv == TypeOK /\ FlagsOK /\ ThreadsOK /\ UsedInOrder

-----------------------------------------------------------------------------

\* Writing a bit, at index -1 too, keeps the type of the table.
LEMMA SetCOAUsedBitType ==
  ASSUME NEW t \in [size : {0, 1, MAX_CARE_OF_ADDRESS},
                    taken : [TableRows -> BOOLEAN]],
         NEW i \in Int, -1 <= i, i < MAX_CARE_OF_ADDRESS, NEW used \in BOOLEAN
  PROVE  /\ setCOAUsedBit(t, i, used) \in
              [size : {0, 1, MAX_CARE_OF_ADDRESS},
               taken : [TableRows -> BOOLEAN]]
         /\ i # -1 => /\ setCOAUsedBit(t, i, used).size = t.size
                      /\ setCOAUsedBit(t, i, used).taken
                           = [t.taken EXCEPT ![i] = used]
         /\ i = -1 => setCOAUsedBit(t, i, used).taken = t.taken
<1>1. CASE i = -1
  BY <1>1 DEF setCOAUsedBit
<1>2. CASE i # -1
  <2>1. i \in TableRows
    BY <1>2, SizeAssumption DEF TableRows
  <2> QED BY <1>2, <2>1 DEF setCOAUsedBit
<1> QED BY <1>1, <1>2

\* What the advertising thread finds: the address after the flags that are
\* all set, or none when the flags of the whole table are.
LEMMA FreeAddress ==
  ASSUME NEW t \in [size : {0, 1, MAX_CARE_OF_ADDRESS},
                    taken : [TableRows -> BOOLEAN]]
  PROVE  LET c == getFreeCareOfAddress(t)
         IN  \/ /\ c = ERR
                /\ \A i \in 0 .. t.size - 1 : t.taken[i]
             \/ /\ c \in 1 .. t.size
                /\ \A i \in 0 .. c - 2 : t.taken[i]
<1> DEFINE free == {i \in 0 .. t.size - 1 : ~t.taken[i]}
<1>0. t.size \in Nat
  BY SizeAssumption
<1>1. CASE free = {}
  BY <1>1 DEF getFreeCareOfAddress
<1>2. CASE free # {}
  <2>1. free \in SUBSET Nat
    BY <1>0
  <2> DEFINE f == FirstOf(free)
  <2>2. f \in free /\ \A m \in free : f <= m
    BY <1>2, <2>1, FirstOfIn
  <2>3. getFreeCareOfAddress(t) = f + 1
    BY <1>2 DEF getFreeCareOfAddress
  <2>4. f \in 0 .. t.size - 1
    BY <2>2
  <2> HIDE DEF f
  <2>5. f + 1 \in 1 .. t.size
    BY <1>0, <2>4
  <2>6. ASSUME NEW i \in 0 .. (f + 1) - 2 PROVE t.taken[i]
    <3>1. i \in 0 .. t.size - 1 /\ ~(f <= i)
      BY <1>0, <2>4
    <3> QED BY <2>2, <3>1
  <2> QED BY <2>3, <2>5, <2>6
<1> QED BY <1>1, <1>2

\* The initial state, whatever the memory behind the array holds.
LEMMA InitInv == Init => Inv
<1> SUFFICES ASSUME Init PROVE Inv
  OBVIOUS
<1>1. PICK inUse \in BOOLEAN :
        fa = [c \in Rows |-> IF c \in TableRows THEN NewRow(NoOne, FALSE)
                             ELSE NewRow(Garbage, inUse)]
  BY DEF Init
<1>2. \A b \in BOOLEAN, w \in {NoOne, Garbage} : NewRow(w, b) \in RowRecords
  BY SizeAssumption DEF NewRow, RowRecords, Identities, Lifetimes
<1>3. fa \in [Rows -> RowRecords]
  BY <1>1, <1>2
<1>4. TypeOK
  <2>1. coa \in [size : {0, 1, MAX_CARE_OF_ADDRESS},
                 taken : [TableRows -> BOOLEAN]]
    BY DEF Init
  <2>2. 0 \in TableRows
    BY SizeAssumption DEF TableRows
  <2> QED BY <1>3, <2>1, <2>2 DEF Init, TypeOK
<1>5. ASSUME NEW c \in Rows PROVE ~HasRegistered(c)
  <2>1. fa[c] = NewRow(NoOne, FALSE) \/ fa[c] = NewRow(Garbage, inUse)
    BY <1>1
  <2>2. fa[c].who = NoOne \/ fa[c].who = Garbage
    BY <2>1 DEF NewRow
  <2> QED BY <2>2, IdentityAssumption DEF HasRegistered
<1>6. \A c \in TableRows : ~fa[c].inUse
  <2>1. \A c \in TableRows : c \in Rows
    BY SizeAssumption DEF TableRows, Rows
  <2> QED BY <1>1, <2>1 DEF NewRow
<1>7. MAX_CARE_OF_ADDRESS \in Rows /\ 0 \in Rows
  BY SizeAssumption DEF Rows
<1> QED BY <1>4, <1>5, <1>6, <1>7
        DEF Init, Inv, FlagsOK, ThreadsOK, UsedInOrder, TableRows

\* Who has registered at an address is replaced, never forgotten.
NeverForgets == \A c \in Rows : HasRegistered(c) => HasRegistered(c)'

\* The address of a packet: one inside the table, or one that was offered.
LEMMA AskableRows ==
  ASSUME TypeOK, NEW c \in Askable
  PROVE  /\ c \in Rows
         /\ c = 0 => 0 \in offered
         /\ c = MAX_CARE_OF_ADDRESS => MAX_CARE_OF_ADDRESS \in offered
BY SizeAssumption DEF TypeOK, Askable, Rows

\* An accepted request makes its sender the last to have registered there.
LEMMA RegisterInv ==
  ASSUME Inv, NEW c \in Askable, NEW m \in MobileUnits, NEW life \in Lifetimes,
         Register(m, c, life)
  PROVE  Inv'
<1> DEFINE row == RegisteredRow(m, life)
<1>1. /\ c \in Rows
      /\ c = 0 => 0 \in offered
      /\ c = MAX_CARE_OF_ADDRESS => MAX_CARE_OF_ADDRESS \in offered
  BY AskableRows DEF Inv
<1>2. /\ row \in RowRecords /\ row.who = m /\ row.inUse
  BY SizeAssumption DEF RegisteredRow, RowRecords, Identities, Lifetimes
<1>3. /\ fa' = [fa EXCEPT ![c] = row]
      /\ flagging' = c
      /\ UNCHANGED <<coa, ix, expiring, offered>>
  BY DEF Register
<1> HIDE DEF row
<1>4. TypeOK'
  BY <1>1, <1>2, <1>3 DEF Inv, TypeOK
<1>5. HasRegistered(c)' /\ NeverForgets
  BY <1>1, <1>2, <1>3 DEF Inv, TypeOK, HasRegistered, NeverForgets
<1>6. \A d \in Rows : HasRegistered(d)' => HasRegistered(d) \/ d = c
  BY <1>1, <1>3 DEF Inv, TypeOK, HasRegistered
<1>7. FlagsOK'
  BY <1>3, <1>5, SizeAssumption
     DEF Inv, FlagsOK, NeverForgets, TableRows, Rows
<1>8. ThreadsOK'
  <2>1. flagging' # ERR => HasRegistered(flagging)'
    BY <1>3, <1>5
  <2>2. expiring' # "nothing" => HasRegistered(ix)'
    <3>1. ix \in Rows
      BY SizeAssumption DEF Inv, TypeOK, TableRows, Rows
    <3>2. expiring # "nothing" => HasRegistered(ix)
      BY DEF Inv, ThreadsOK
    <3>3. expiring # "nothing" => fa'[ix].who \in MobileUnits
      BY <1>5, <3>1, <3>2 DEF NeverForgets, HasRegistered
    <3> QED BY <1>3, <3>3 DEF HasRegistered
  <2>3. ASSUME NEW d \in TableRows, fa'[d].inUse PROVE HasRegistered(d)'
    <3>1. d \in Rows
      BY SizeAssumption DEF TableRows, Rows
    <3>2. CASE d = c
      BY <1>5, <3>2
    <3>3. CASE d # c
      BY <1>1, <1>3, <1>5, <2>3, <3>1, <3>3
         DEF Inv, TypeOK, ThreadsOK, NeverForgets
    <3> QED BY <3>2, <3>3
  <2> QED BY <2>1, <2>2, <2>3 DEF ThreadsOK
<1>9. UsedInOrder'
  <2>1. InsideUsed => InsideUsed'
    BY <1>5, SizeAssumption DEF InsideUsed, NeverForgets, Rows
  <2>2. AllUsed => AllUsed'
    BY <1>5, SizeAssumption DEF AllUsed, NeverForgets, Rows
  <2>3. MAX_CARE_OF_ADDRESS \in Rows /\ 0 \in Rows
    BY SizeAssumption DEF Rows
  <2> QED BY <1>1, <1>3, <1>6, <2>1, <2>2, <2>3 DEF Inv, UsedInOrder
<1> QED BY <1>4, <1>7, <1>8, <1>9 DEF Inv

\* The steps that change a row but not who it belongs to, and put no row in
\* use.
LEMMA RowStepInv ==
  ASSUME Inv,
         fa' \in [Rows -> RowRecords],
         \A c \in Rows : /\ fa'[c].who = fa[c].who
                         /\ fa'[c].inUse => fa[c].inUse,
         UNCHANGED <<coa, flagging, ix, offered>>,
         expiring' \in {"nothing", "flag", "free"},
         expiring' # "nothing" => expiring # "nothing"
  PROVE  Inv'
<1>1. \A c \in Rows : HasRegistered(c)' <=> HasRegistered(c)
  BY DEF HasRegistered
<1>2. TypeOK'
  BY DEF Inv, TypeOK
<1>3. \A c \in TableRows : c \in Rows /\ c + 1 \in Rows
  BY SizeAssumption DEF TableRows, Rows
<1>4. FlagsOK' /\ ThreadsOK'
  BY <1>1, <1>3 DEF Inv, TypeOK, FlagsOK, ThreadsOK
<1>5. \A c \in 1 .. MAX_CARE_OF_ADDRESS : c \in Rows
  BY SizeAssumption DEF Rows
<1>6. \A c \in 1 .. MAX_CARE_OF_ADDRESS - 1 : c \in Rows
  BY SizeAssumption DEF Rows
<1>7. (InsideUsed' <=> InsideUsed) /\ (AllUsed' <=> AllUsed)
  BY <1>1, <1>5, <1>6 DEF InsideUsed, AllUsed
<1>8. MAX_CARE_OF_ADDRESS \in Rows /\ 0 \in Rows
  BY SizeAssumption DEF Rows
<1>9. UsedInOrder'
  BY <1>1, <1>7, <1>8 DEF Inv, UsedInOrder
<1> QED BY <1>2, <1>4, <1>9 DEF Inv

\* A de-registration takes a row out of use and keeps its identity.
LEMMA DeregisterInv ==
  ASSUME Inv, NEW c \in Askable, Deregister(c)
  PROVE  Inv'
<1>1. c \in Rows
  BY AskableRows DEF Inv
<1>2. fa \in [Rows -> RowRecords]
  BY DEF Inv, TypeOK
<1>3. /\ fa' \in [Rows -> RowRecords]
      /\ \A d \in Rows : /\ fa'[d].who = fa[d].who
                         /\ fa'[d].inUse => fa[d].inUse
  BY <1>1, <1>2 DEF Deregister, RowRecords
<1> QED BY <1>3, RowStepInv DEF Deregister, Inv, TypeOK

\* A reply starts the lease of a row again and keeps its identity.
LEMMA PassReplyInv ==
  ASSUME Inv, NEW c \in Rows, PassReply(c)
  PROVE  Inv'
<1>2. fa \in [Rows -> RowRecords]
  BY DEF Inv, TypeOK
<1>3. fa[c].life \in 0 .. LIFE_TIME
  BY <1>2, SizeAssumption DEF RowRecords, Lifetimes
<1>4. /\ fa' \in [Rows -> RowRecords]
      /\ \A d \in Rows : /\ fa'[d].who = fa[d].who
                         /\ fa'[d].inUse => fa[d].inUse
  BY <1>2, <1>3 DEF PassReply, RowRecords
<1> QED BY <1>4, RowStepInv DEF PassReply, Inv, TypeOK

\* Time only shortens what is left of the leases.
LEMMA TickInv ==
  ASSUME Inv, Tick
  PROVE  Inv'
<1>1. fa \in [Rows -> RowRecords]
  BY DEF Inv, TypeOK
<1>2. ASSUME NEW c \in Rows
      PROVE  /\ fa'[c] \in RowRecords
             /\ fa'[c].who = fa[c].who
             /\ fa'[c].inUse = fa[c].inUse
  <2> DEFINE n == IF fa[c].left > 0 THEN fa[c].left - 1 ELSE 0
  <2>1. fa[c] \in RowRecords /\ fa[c].left \in 0 .. LIFE_TIME
    BY <1>1 DEF RowRecords
  <2>2. n \in 0 .. LIFE_TIME
    BY <2>1, SizeAssumption
  <2>3. fa'[c] = [fa[c] EXCEPT !.left = n]
    BY DEF Tick
  <2> HIDE DEF n
  <2> QED BY <2>1, <2>2, <2>3 DEF RowRecords
<1>3. fa' \in [Rows -> RowRecords]
  <2>1. fa' = [c \in Rows |-> fa'[c]]
    BY DEF Tick
  <2> QED BY <1>2, <2>1
<1> QED BY <1>2, <1>3, RowStepInv DEF Tick, Inv, TypeOK

\* The validity thread flags a row and keeps its identity.
LEMMA FlagAsNotRegisteredInv ==
  ASSUME Inv, FlagAsNotRegistered
  PROVE  Inv'
<1>1. fa \in [Rows -> RowRecords] /\ ix \in Rows
  BY SizeAssumption DEF Inv, TypeOK, TableRows, Rows
<1>2. /\ fa' \in [Rows -> RowRecords]
      /\ \A d \in Rows : /\ fa'[d].who = fa[d].who
                         /\ fa'[d].inUse => fa[d].inUse
  BY <1>1 DEF FlagAsNotRegistered, RowRecords
<1> QED BY <1>2, RowStepInv DEF FlagAsNotRegistered

\* The steps that leave the rows alone: they may flag an address that was
\* registered, change the size of the table once all were, and offer what was
\* found free.
LEMMA FlagStepInv ==
  ASSUME Inv, fa' = fa, TypeOK', FlagsOK',
         flagging' = flagging \/ flagging' = ERR,
         expiring' # "nothing" => HasRegistered(ix'),
         coa'.size # MAX_CARE_OF_ADDRESS => AllUsed,
         MAX_CARE_OF_ADDRESS \in offered' => InsideUsed,
         0 \in offered' => AllUsed
  PROVE  Inv'
<1>1. (InsideUsed' <=> InsideUsed) /\ (AllUsed' <=> AllUsed)
  BY DEF InsideUsed, AllUsed, HasRegistered
<1>2. ThreadsOK'
  <2>1. flagging' # ERR => HasRegistered(flagging)'
    BY DEF Inv, ThreadsOK, HasRegistered
  <2>2. expiring' # "nothing" => HasRegistered(ix)'
    BY DEF HasRegistered
  <2>3. \A c \in TableRows : fa'[c].inUse => HasRegistered(c)'
    BY DEF Inv, ThreadsOK, HasRegistered
  <2> QED BY <2>1, <2>2, <2>3 DEF ThreadsOK
<1>3. UsedInOrder'
  <2>1. /\ HasRegistered(MAX_CARE_OF_ADDRESS)' <=> HasRegistered(MAX_CARE_OF_ADDRESS)
        /\ HasRegistered(0)' <=> HasRegistered(0)
    BY DEF HasRegistered
  <2> QED BY <1>1, <2>1 DEF Inv, UsedInOrder
<1> QED BY <1>2, <1>3 DEF Inv

\* Address zero was registered only after all others; the flag of any other
\* is one of the table.
LEMMA SetBitInv ==
  ASSUME Inv, NEW c \in Rows, HasRegistered(c), NEW used \in BOOLEAN,
         coa' = setCOAUsedBit(coa, c - 1, used)
  PROVE  /\ coa' \in [size : {0, 1, MAX_CARE_OF_ADDRESS},
                      taken : [TableRows -> BOOLEAN]]
         /\ \A i \in TableRows : coa'.taken[i] => HasRegistered(i + 1)
         /\ coa'.size # MAX_CARE_OF_ADDRESS => AllUsed
<1>1. /\ c - 1 \in Int /\ -1 <= c - 1 /\ c - 1 < MAX_CARE_OF_ADDRESS
      /\ (c - 1) + 1 = c
      /\ c - 1 = -1 <=> c = 0
      /\ c - 1 # -1 => c - 1 \in TableRows
  BY SizeAssumption DEF Rows, TableRows
<1>2. coa \in [size : {0, 1, MAX_CARE_OF_ADDRESS},
               taken : [TableRows -> BOOLEAN]]
  BY DEF Inv, TypeOK
<1> DEFINE i == c - 1
<1>3. i \in Int /\ -1 <= i /\ i < MAX_CARE_OF_ADDRESS
  BY <1>1
<1> HIDE DEF i
<1>4. /\ setCOAUsedBit(coa, i, used) \in
              [size : {0, 1, MAX_CARE_OF_ADDRESS},
               taken : [TableRows -> BOOLEAN]]
      /\ i # -1 => /\ setCOAUsedBit(coa, i, used).size = coa.size
                   /\ setCOAUsedBit(coa, i, used).taken
                        = [coa.taken EXCEPT ![i] = used]
      /\ i = -1 => setCOAUsedBit(coa, i, used).taken = coa.taken
  BY <1>2, <1>3, SetCOAUsedBitType
<1>5. coa' = setCOAUsedBit(coa, i, used)
  BY DEF i
<1>6. CASE i = -1
  <2>1. AllUsed
    BY <1>1, <1>6 DEF i, Inv, UsedInOrder
  <2> QED BY <1>4, <1>5, <1>6, <2>1 DEF Inv, FlagsOK
<1>7. CASE i # -1
  <2>1. i \in TableRows /\ HasRegistered(i + 1)
    BY <1>1, <1>7 DEF i
  <2>2. \A j \in TableRows : coa'.taken[j] => coa.taken[j] \/ j = i
    BY <1>2, <1>4, <1>5, <1>7, <2>1
  <2>3. coa'.size = coa.size
    BY <1>4, <1>5, <1>7
  <2> QED BY <1>4, <1>5, <2>1, <2>2, <2>3 DEF Inv, FlagsOK, UsedInOrder
<1> QED BY <1>6, <1>7

\* The address that is flagged as taken was registered.
LEMMA FlagAsTakenInv ==
  ASSUME Inv, FlagAsTaken
  PROVE  Inv'
<1>1. flagging \in Rows /\ HasRegistered(flagging)
  BY DEF FlagAsTaken, Inv, TypeOK, ThreadsOK
<1>2. coa' = setCOAUsedBit(coa, flagging - 1, TRUE) /\ TRUE \in BOOLEAN
  BY DEF FlagAsTaken
<1>3. /\ coa' \in [size : {0, 1, MAX_CARE_OF_ADDRESS},
                   taken : [TableRows -> BOOLEAN]]
      /\ \A i \in TableRows : coa'.taken[i] => HasRegistered(i + 1)
      /\ coa'.size # MAX_CARE_OF_ADDRESS => AllUsed
  BY <1>1, <1>2, SetBitInv
<1>4. TypeOK' /\ FlagsOK'
  BY <1>3 DEF FlagAsTaken, Inv, TypeOK, FlagsOK, HasRegistered
<1> QED BY <1>3, <1>4, FlagStepInv
        DEF FlagAsTaken, Inv, ThreadsOK, UsedInOrder

\* The validity thread stays inside the table.
LEMMA NextRowType == ix \in TableRows => NextRow \in TableRows
BY SizeAssumption DEF NextRow, TableRows

\* The validity thread frees only an address that was registered.
LEMMA CheckRowInv ==
  ASSUME Inv, CheckRow
  PROVE  Inv'
<1>1. TypeOK'
  BY NextRowType DEF CheckRow, Inv, TypeOK
<1>2. FlagsOK'
  BY DEF CheckRow, Inv, FlagsOK, HasRegistered
<1>3. expiring' # "nothing" => HasRegistered(ix')
  BY DEF CheckRow, IsExpired, Inv, TypeOK, ThreadsOK
<1> QED BY <1>1, <1>2, <1>3, FlagStepInv DEF CheckRow, Inv, UsedInOrder

\* Freeing an address clears its flag, or the size for address zero.
LEMMA FreeCareOfAddressInv ==
  ASSUME Inv, FreeCareOfAddress
  PROVE  Inv'
<1>1. ix \in Rows /\ HasRegistered(ix)
  BY SizeAssumption
     DEF FreeCareOfAddress, Inv, TypeOK, ThreadsOK, TableRows, Rows
<1>2. coa' = setCOAUsedBit(coa, ix - 1, FALSE) /\ FALSE \in BOOLEAN
  BY DEF FreeCareOfAddress
<1>3. /\ coa' \in [size : {0, 1, MAX_CARE_OF_ADDRESS},
                   taken : [TableRows -> BOOLEAN]]
      /\ \A i \in TableRows : coa'.taken[i] => HasRegistered(i + 1)
      /\ coa'.size # MAX_CARE_OF_ADDRESS => AllUsed
  BY <1>1, <1>2, SetBitInv
<1>4. TypeOK' /\ FlagsOK'
  BY <1>3, NextRowType
     DEF FreeCareOfAddress, Inv, TypeOK, FlagsOK, HasRegistered
<1> QED BY <1>3, <1>4, FlagStepInv
        DEF FreeCareOfAddress, Inv, ThreadsOK, UsedInOrder

\* What is offered is the first address not flagged: those before it were
\* registered, and all were if there is none.
LEMMA AdvertiseInv ==
  ASSUME Inv, Advertise
  PROVE  Inv'
<1> DEFINE c == getFreeCareOfAddress(coa)
<1>1. coa \in [size : {0, 1, MAX_CARE_OF_ADDRESS},
               taken : [TableRows -> BOOLEAN]]
  BY DEF Inv, TypeOK
<1>2. \/ c = ERR /\ \A i \in 0 .. coa.size - 1 : coa.taken[i]
      \/ c \in 1 .. coa.size /\ \A i \in 0 .. c - 2 : coa.taken[i]
  BY <1>1, FreeAddress
<1>3. offered' = offered \cup {IF c = ERR THEN 0 ELSE c}
  BY DEF Advertise, AdvertisedAddress
<1> HIDE DEF c
<1>4. IF c = ERR THEN AllUsed
      ELSE c \in 1 .. MAX_CARE_OF_ADDRESS
             /\ (c = MAX_CARE_OF_ADDRESS => InsideUsed)
  <2>1. CASE coa.size # MAX_CARE_OF_ADDRESS
    <3>1. AllUsed
      BY <2>1 DEF Inv, UsedInOrder
    <3>2. InsideUsed
      BY <3>1, SizeAssumption DEF AllUsed, InsideUsed
    <3> QED BY <1>1, <1>2, <3>1, <3>2, SizeAssumption DEF ERR
  <2>2. CASE coa.size = MAX_CARE_OF_ADDRESS /\ c = ERR
    <3>1. \A d \in 1 .. MAX_CARE_OF_ADDRESS :
            d - 1 \in TableRows /\ coa.taken[d - 1] /\ (d - 1) + 1 = d
      BY <1>2, <2>2, SizeAssumption DEF TableRows, ERR
    <3>2. AllUsed
      BY <3>1 DEF Inv, FlagsOK, AllUsed
    <3> QED BY <2>2, <3>2
  <2>3. CASE coa.size = MAX_CARE_OF_ADDRESS /\ c # ERR
    <3>1. c \in 1 .. MAX_CARE_OF_ADDRESS
      BY <1>2, <2>3
    <3>2. ASSUME c = MAX_CARE_OF_ADDRESS PROVE InsideUsed
      <4>1. \A d \in 1 .. MAX_CARE_OF_ADDRESS - 1 :
              d - 1 \in TableRows /\ coa.taken[d - 1] /\ (d - 1) + 1 = d
        BY <1>2, <2>3, <3>2, SizeAssumption DEF TableRows
      <4> QED BY <4>1 DEF Inv, FlagsOK, InsideUsed
    <3> QED BY <2>3, <3>1, <3>2
  <2> QED BY <2>1, <2>2, <2>3
<1>5. UNCHANGED <<fa, coa, flagging, ix, expiring>>
  BY DEF Advertise
<1>6. (IF c = ERR THEN 0 ELSE c) \in Rows
  BY <1>4, SizeAssumption DEF Rows
<1>7. TypeOK'
  BY <1>3, <1>5, <1>6 DEF Inv, TypeOK
<1>8. FlagsOK'
  BY <1>5 DEF Inv, FlagsOK, HasRegistered
<1>9. MAX_CARE_OF_ADDRESS \in offered' => InsideUsed
  BY <1>3, <1>4, SizeAssumption DEF Inv, UsedInOrder
<1>10. 0 \in offered' => AllUsed
  BY <1>3, <1>4 DEF Inv, UsedInOrder
<1> QED BY <1>5, <1>7, <1>8, <1>9, <1>10, FlagStepInv
        DEF Inv, ThreadsOK, UsedInOrder

\* A step that changes nothing.
LEMMA StutterInv ==
  ASSUME Inv, UNCHANGED vars
  PROVE  Inv'
BY DEF vars, Inv, TypeOK, FlagsOK, ThreadsOK, UsedInOrder, InsideUsed, AllUsed,
       HasRegistered

\* Every step of the router preserves the invariant.
LEMMA NextInv ==
  ASSUME Inv, [Next]_vars
  PROVE  Inv'
<1>1. CASE RouterThread
  <2>1. ASSUME NEW c \in Askable, NEW m \in MobileUnits, NEW life \in Lifetimes,
               Register(m, c, life)
        PROVE  Inv'
    BY <2>1, RegisterInv
  <2>2. ASSUME NEW c \in Askable, Deregister(c) PROVE Inv'
    BY <2>2, DeregisterInv
  <2>3. ASSUME NEW c \in Rows, PassReply(c) PROVE Inv'
    BY <2>3, PassReplyInv
  <2> QED BY <1>1, <2>1, <2>2, <2>3, FlagAsTakenInv DEF RouterThread
<1>2. CASE ValidityThread
  BY <1>2, CheckRowInv, FlagAsNotRegisteredInv, FreeCareOfAddressInv
     DEF ValidityThread
<1>3. CASE Advertise
  BY <1>3, AdvertiseInv
<1>4. CASE Tick
  BY <1>4, TickInv
<1>5. CASE UNCHANGED vars
  BY <1>5, StutterInv
<1> QED BY <1>1, <1>2, <1>3, <1>4, <1>5 DEF Next

\* The invariant holds in every reachable state.
THEOREM InvHolds == Spec => []Inv
BY InitInv, NextInv, PTL DEF Spec

\* The tables, the row behind the end of FAHArray and the word before
\* COATableArray included, keep their types.
THEOREM TypeCorrect == Spec => []TypeOK
<1>1. Inv => TypeOK
  BY DEF Inv
<1> QED BY <1>1, InvHolds, PTL

\* The router writes outside its two arrays only after it has run out of
\* addresses inside them.
THEOREM OverrunsNeedExhaustion == Spec => []OverrunNeedsExhaustion
<1>1. Inv => OverrunNeedsExhaustion
  BY DEF Inv, UsedInOrder, OverrunNeedsExhaustion, InsideUsed, AllUsed
<1> QED BY <1>1, InvHolds, PTL

-----------------------------------------------------------------------------
(***************************************************************************)
(* The table of mobile units implements Lease.                             *)
(***************************************************************************)

\* The mapping of ForeignAgent to the variables of Lease.
Holder == [c \in TableRows |-> IF fa[c].inUse THEN fa[c].who ELSE NoOne]

Current == {c \in TableRows : fa[c].registered}

\* A step that leaves these three fields of every row alone is no step of
\* Lease.
LEMMA RowsUnchanged ==
  ASSUME \A c \in TableRows : /\ fa'[c].inUse = fa[c].inUse
                              /\ fa'[c].who = fa[c].who
                              /\ fa'[c].registered = fa[c].registered
  PROVE  Holder' = Holder /\ Current' = Current
BY DEF Holder, Current

\* An accepted request is a grant, unless it falls behind the array.
LEMMA RegisterGrants ==
  ASSUME Inv, NEW c \in Askable, NEW m \in MobileUnits, NEW life \in Lifetimes,
         Register(m, c, life)
  PROVE  [L!Next]_<<Holder, Current>>
<1>1. c \in Rows /\ fa \in [Rows -> RowRecords]
  BY AskableRows DEF Inv, TypeOK
<1>2. \A d \in TableRows : d \in Rows
  BY SizeAssumption DEF TableRows, Rows
<1>3. fa' = [fa EXCEPT ![c] = RegisteredRow(m, life)]
  BY DEF Register
<1>4. \A d \in TableRows : d # c => fa'[d] = fa[d]
  BY <1>1, <1>2, <1>3
<1>5. CASE c \in TableRows
  <2>1. fa'[c].inUse /\ fa'[c].who = m /\ fa'[c].registered
    BY <1>1, <1>3 DEF RegisteredRow
  <2>2. Holder[c] \in {NoOne, m}
    BY <1>5 DEF Register, Accepts, Holder
  <2>3. Holder' = [Holder EXCEPT ![c] = m]
    BY <1>4, <1>5, <2>1 DEF Holder
  <2>4. Current' = Current \cup {c}
    BY <1>4, <1>5, <2>1 DEF Current
  <2>5. L!Grant(c, m)
    BY <2>2, <2>3, <2>4 DEF L!Grant, Holder, Current
  <2> QED BY <1>5, <2>5 DEF L!Next
<1>6. CASE c \notin TableRows
  BY <1>4, <1>6, RowsUnchanged
<1> QED BY <1>5, <1>6

\* A de-registration gives the address back.
LEMMA DeregisterGivesBack ==
  ASSUME Inv, NEW c \in Askable, Deregister(c)
  PROVE  [L!Next]_<<Holder, Current>>
<1>1. c \in Rows /\ fa \in [Rows -> RowRecords]
  BY AskableRows DEF Inv, TypeOK
<1>2. \A d \in TableRows : d \in Rows
  BY SizeAssumption DEF TableRows, Rows
<1>3. fa' = [fa EXCEPT ![c].inUse = FALSE, ![c].registered = FALSE]
  BY DEF Deregister
<1>4. \A d \in TableRows : d # c => fa'[d] = fa[d]
  BY <1>1, <1>2, <1>3
<1>5. CASE c \in TableRows
  <2>1. ~fa'[c].inUse /\ ~fa'[c].registered
    BY <1>1, <1>3 DEF RowRecords
  <2>2. Holder' = [Holder EXCEPT ![c] = NoOne]
    BY <1>4, <1>5, <2>1 DEF Holder
  <2>3. Current' = Current \ {c}
    BY <1>4, <1>5, <2>1 DEF Current
  <2>4. L!GiveBack(c)
    BY <2>2, <2>3 DEF L!GiveBack, Holder, Current
  <2> QED BY <1>5, <2>4 DEF L!Next
<1>6. CASE c \notin TableRows
  BY <1>4, <1>6, RowsUnchanged
<1> QED BY <1>5, <1>6

\* The validity thread expires a lease, unless the row it had copied is no
\* longer registered.
LEMMA FlagAsNotRegisteredExpires ==
  ASSUME Inv, FlagAsNotRegistered
  PROVE  [L!Next]_<<Holder, Current>>
<1>1. ix \in TableRows /\ fa \in [Rows -> RowRecords]
  BY DEF Inv, TypeOK
<1>2. \A d \in TableRows : d \in Rows
  BY SizeAssumption DEF TableRows, Rows
<1>3. fa' = [fa EXCEPT ![ix].registered = FALSE]
  BY DEF FlagAsNotRegistered
<1>4. \A d \in TableRows : /\ fa'[d].inUse = fa[d].inUse
                           /\ fa'[d].who = fa[d].who
                           /\ fa'[d].registered
                                = IF d = ix THEN FALSE ELSE fa[d].registered
  BY <1>1, <1>2, <1>3 DEF RowRecords
<1>5. Holder' = Holder
  BY <1>4 DEF Holder
<1>6. Current' = Current \ {ix}
  BY <1>1, <1>4 DEF Current
<1>7. CASE ix \in Current
  <2>1. PICK a \in TableRows : a = ix
    BY <1>1
  <2>2. L!Expire(a)
    BY <1>5, <1>6, <1>7, <2>1 DEF L!Expire, Holder, Current
  <2> QED BY <2>2 DEF L!Next
<1>8. CASE ix \notin Current
  BY <1>5, <1>6, <1>8
<1> QED BY <1>7, <1>8

\* Every other step is invisible to the clients of the foreign agent.
LEMMA OtherStepsStutter ==
  ASSUME Inv,
         \/ \E c \in Rows : PassReply(c)
         \/ FlagAsTaken \/ CheckRow \/ FreeCareOfAddress \/ Advertise \/ Tick
         \/ UNCHANGED vars
  PROVE  Holder' = Holder /\ Current' = Current
<1>1. fa \in [Rows -> RowRecords]
  BY DEF Inv, TypeOK
<1>2. \A d \in TableRows : d \in Rows
  BY SizeAssumption DEF TableRows, Rows
<1>3. ASSUME NEW c \in Rows, PassReply(c)
      PROVE  Holder' = Holder /\ Current' = Current
  <2>1. \A d \in TableRows : /\ fa'[d].inUse = fa[d].inUse
                             /\ fa'[d].who = fa[d].who
                             /\ fa'[d].registered = fa[d].registered
    BY <1>1, <1>2, <1>3 DEF PassReply, RowRecords
  <2> QED BY <2>1, RowsUnchanged
<1>4. ASSUME Tick
      PROVE  Holder' = Holder /\ Current' = Current
  <2>1. ASSUME NEW d \in TableRows
        PROVE  /\ fa'[d].inUse = fa[d].inUse
               /\ fa'[d].who = fa[d].who
               /\ fa'[d].registered = fa[d].registered
    <3> DEFINE n == IF fa[d].left > 0 THEN fa[d].left - 1 ELSE 0
    <3>1. fa'[d] = [fa[d] EXCEPT !.left = n]
      BY <1>2, <1>4 DEF Tick
    <3> HIDE DEF n
    <3> QED BY <1>1, <1>2, <3>1 DEF RowRecords
  <2> QED BY <2>1, RowsUnchanged
<1>5. ASSUME fa' = fa
      PROVE  Holder' = Holder /\ Current' = Current
  BY <1>5 DEF Holder, Current
<1> QED BY <1>3, <1>4, <1>5
        DEF FlagAsTaken, CheckRow, FreeCareOfAddress, Advertise, vars

\* A foreign agent starts with no leases, and every step of it is a step of
\* Lease or none.
THEOREM ImplementsLease == Spec => GrantsLeases
<1>1. Init => L!Init
  <2> SUFFICES ASSUME Init PROVE L!Init
    OBVIOUS
  <2>1. \A c \in TableRows : c \in Rows
    BY SizeAssumption DEF TableRows, Rows
  <2>2. \A c \in TableRows : ~fa[c].inUse /\ ~fa[c].registered
    BY <2>1 DEF Init, NewRow
  <2> QED BY <2>2 DEF L!Init
<1>2. ASSUME Inv, [Next]_vars PROVE [L!Next]_(L!leaseVars)
  <2>1. L!leaseVars = <<Holder, Current>>
    BY DEF L!leaseVars, Holder, Current
  <2>2. L!leaseVars' = <<Holder', Current'>>
    BY DEF L!leaseVars, Holder, Current
  <2>3. CASE \E c \in Askable, m \in MobileUnits, life \in Lifetimes :
               Register(m, c, life)
    BY <1>2, <2>1, <2>2, <2>3, RegisterGrants
  <2>4. CASE \E c \in Askable : Deregister(c)
    BY <1>2, <2>1, <2>2, <2>4, DeregisterGivesBack
  <2>5. CASE FlagAsNotRegistered
    BY <1>2, <2>1, <2>2, <2>5, FlagAsNotRegisteredExpires
  <2>6. CASE \/ \E c \in Rows : PassReply(c)
             \/ FlagAsTaken \/ CheckRow \/ FreeCareOfAddress
             \/ Advertise \/ Tick \/ UNCHANGED vars
    <3>1. Holder' = Holder /\ Current' = Current
      BY <1>2, <2>6, OtherStepsStutter
    <3> QED BY <2>1, <2>2, <3>1
  <2> QED BY <1>2, <2>3, <2>4, <2>5, <2>6 DEF Next, RouterThread, ValidityThread
<1> QED BY <1>1, <1>2, InvHolds, PTL DEF Spec, GrantsLeases, L!LeaseSpec
=============================================================================
