----------------------------- MODULE MCMobility -----------------------------
(***************************************************************************)
(* Mobility with short paths for the mobile units.                         *)
(***************************************************************************)
EXTENDS Mobility, TLC

CONSTANTS m1, m2, n1, n2

\* Out, and on to the next network.
OneWay == m1 :> <<Home, n1, n2>>

\* Out, home, and out again to another network.
HomeBetween == m1 :> <<Home, n1, Home, n2>>

\* Two mobile units that meet on one network, where one of them stays.
Shared == m1 :> <<Home, n1, Home>> @@ m2 :> <<Home, n1>>

\* RegisterTime happens to look old at first.
ColdInit == Init /\ \A m \in Mobiles : ~mu[m].recent

ColdSpec == ColdInit /\ [][Next]_vars /\ Fairness
=============================================================================
