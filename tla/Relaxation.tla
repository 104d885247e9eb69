------------------------------ MODULE Relaxation -----------------------------
(***************************************************************************)
(* Shortest paths by relaxation: what the routing protocol promises of the *)
(* distances of the running routers.  A router joins with the neighbours   *)
(* it can reach; after that a distance changes only because the router     *)
(* hears from a neighbour, and only downwards, to one more than a distance *)
(* the neighbour has or had.  When the network has lost something the      *)
(* distances may grow again, but they never promise too much.              *)
(***************************************************************************)
EXTENDS Naturals

CONSTANTS
  Routers,
  Neighbours,
  HopCount,   \* a lower bound on the hops between two routers
  Infinity    \* the distance that means unreachable

VARIABLES
  est,        \* est[r][n]: the hops from r to n, less one, as r believes
  lost        \* a router or a table was lost

relaxationVars == <<est, lost>>

Init ==
  /\ est = [r \in Routers |-> [n \in Routers |-> Infinity]]
  /\ lost = FALSE

Join(r) ==
  /\ \A n \in Routers : est[r][n] = Infinity
  /\ \E reached \in SUBSET Neighbours[r] :
       est' = [est EXCEPT ![r] = [n \in Routers |->
                 IF n \in reached THEN 0 ELSE Infinity]]

Nearer(a, b) == IF b < a THEN b ELSE a

\* r hears that its neighbour h is d + 1 hops from n.
Hear(r, h, n, d) ==
  /\ est[h][n] <= d
  /\ est' = [est EXCEPT ![r] = [m \in Routers |->
               IF m = h THEN 0
               ELSE IF m = n /\ n # r THEN Nearer(est[r][n], d + 1)
               ELSE est[r][m]]]

Sound ==
  \A r, n \in Routers : est[r][n] < Infinity => HopCount[r][n] <= est[r][n] + 1

Lose ==
  /\ lost' = TRUE
  /\ est' \in [Routers -> [Routers -> 0 .. Infinity]]
  /\ Sound'

Next ==
  \/ /\ ~lost /\ UNCHANGED lost
     /\ \E r \in Routers :
          \/ Join(r)
          \/ \E h \in Neighbours[r] : \E n \in Routers \ {h}, d \in 0 .. Infinity :
               Hear(r, h, n, d)
  \/ Lose

RelaxationSpec == Init /\ [][Next]_relaxationVars
=============================================================================
