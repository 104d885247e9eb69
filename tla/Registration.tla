---------------------------- MODULE Registration ----------------------------
(***************************************************************************)
(* What the foreign agents and the home agent together promise to clients  *)
(* that move: an address is leased to a client, then the home agent binds  *)
(* the client to it, and only where a binding has been does a client count *)
(* as registered.  Each of the three parties acts by itself, so a binding  *)
(* may outlive the lease and a client may have left either.                *)
(***************************************************************************)
EXTENDS Lease

CONSTANTS
  Sockets,     \* what a client can listen on; every address is one
  NoSocket,    \* what a client listens on that does not listen
  AtHome,      \* the binding of a client that is at home
  Unknown      \* the binding of a client the home agent has not heard of

VARIABLES
  granted,     \* <<c, a>>: c has been given a
  binding,     \* the address the home agent has for a client
  bound,       \* <<c, a>>: the binding of c has been a
  listens,     \* where a client listens
  registered   \* whether a client counts as registered

agentRegisters == <<granted, binding, bound>>
clientState == <<listens, registered>>

RegistrationInit ==
  /\ Init
  /\ granted = {} /\ bound = {}
  /\ binding = [c \in Clients |-> Unknown]
  /\ listens = [c \in Clients |-> NoSocket]
  /\ registered = [c \in Clients |-> FALSE]

GrantTo(a, c) ==
  /\ Grant(a, c)
  /\ granted' = granted \cup {<<c, a>>}
  /\ UNCHANGED <<binding, bound, clientState>>

EndLease(a) ==
  /\ Expire(a) \/ GiveBack(a)
  /\ UNCHANGED <<agentRegisters, clientState>>

Bind(c, a) ==
  /\ <<c, a>> \in granted
  /\ binding' = [binding EXCEPT ![c] = a]
  /\ bound' = bound \cup {<<c, a>>}
  /\ UNCHANGED <<leaseVars, granted, clientState>>

BindHome(c) ==
  /\ binding' = [binding EXCEPT ![c] = AtHome]
  /\ UNCHANGED <<leaseVars, granted, bound, clientState>>

HasBeenBound(a) == \E c \in Clients : <<c, a>> \in bound

\* c listens at s from now on; it is registered after that only if it was, or
\* if the address it listens on had been bound.
Move(c, s, reg) ==
  /\ s = NoSocket \/ \A x \in Clients \ {c} : listens[x] # s
  /\ reg => registered[c] \/ HasBeenBound(listens[c])
  /\ listens' = [listens EXCEPT ![c] = s]
  /\ registered' = [registered EXCEPT ![c] = reg]
  /\ UNCHANGED <<leaseVars, agentRegisters>>

RegistrationNext ==
  \/ \E a \in Addresses :
       \/ EndLease(a)
       \/ \E c \in Clients : GrantTo(a, c) \/ Bind(c, a)
  \/ \E c \in Clients :
       \/ BindHome(c)
       \/ \E s \in Sockets \cup {NoSocket}, reg \in BOOLEAN : Move(c, s, reg)

RegistrationSpec ==
  RegistrationInit /\ [][RegistrationNext]_<<leaseVars, agentRegisters, clientState>>
=============================================================================
