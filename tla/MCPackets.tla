----------------------------- MODULE MCPackets ------------------------------
(***************************************************************************)
(* Packets on a line of three networks, foreign agent 3, correspondent     *)
(* node on network 2, home agent 5: numbers whose bits overlap.            *)
(***************************************************************************)
EXTENDS Packets

MCHome == {0, 2}
MCForeign == {{0, 1}}
MCMiddle == {1}
MCRouters == {MCHome, MCMiddle} \cup MCForeign

MCNextHop ==
  [r \in MCRouters |->
     [n \in MCRouters \ {r} |-> IF r = MCMiddle THEN n ELSE MCMiddle]]

MCCn == <<MCMiddle, {0, 1, 2}>>

\* The second and third interfaces of every network may be home addresses.
MCMobiles == {{0, 1}, {1}}

MCOffered == {{0, 3}}
MCTemporary == {{0, 3}, {2}}

\* The unit whose home address is three.
MCDestinations == {<<MCHome, {0, 1}>>}

\* The foreign agent's number, or a word full of ones.
MCGarbage == {{0, 1}, Bits}

MCLifeTime == 0 .. 3

MCDistances == {{2, 3}}
=============================================================================
