-------------------------------- MODULE Lease --------------------------------
(***************************************************************************)
(* What a foreign agent promises of its care-of addresses.  Each address   *)
(* has at most one holder.  The lease of a holder is current until it      *)
(* expires; an address whose lease has expired still belongs to its        *)
(* holder, who may renew it, and passes to another client only after it    *)
(* was given back.                                                         *)
(***************************************************************************)
CONSTANTS
  Addresses,
  Clients,
  Nobody      \* the holder of an address that belongs to no client; not in Clients

VARIABLES
  holder,     \* holder[a]: the client a belongs to, or Nobody
  current     \* the addresses whose lease has not expired

leaseVars == <<holder, current>>

Init ==
  /\ holder = [a \in Addresses |-> Nobody]
  /\ current = {}

\* A free address is given out, or the lease of its holder is renewed.
Grant(a, c) ==
  /\ holder[a] \in {Nobody, c}
  /\ holder' = [holder EXCEPT ![a] = c]
  /\ current' = current \cup {a}

Expire(a) ==
  /\ a \in current
  /\ current' = current \ {a}
  /\ UNCHANGED holder

GiveBack(a) ==
  /\ holder' = [holder EXCEPT ![a] = Nobody]
  /\ current' = current \ {a}

Next ==
  \E a \in Addresses :
    \/ \E c \in Clients : Grant(a, c)
    \/ Expire(a)
    \/ GiveBack(a)

LeaseSpec == Init /\ [][Next]_leaseVars
=============================================================================
