-------------------------------- MODULE MCRip --------------------------------
(***************************************************************************)
(* Rip on a line of three routers, and on a pair.                          *)
(***************************************************************************)
EXTENDS Rip

Line == [r \in 1 .. 3 |-> IF r = 2 THEN {1, 3} ELSE {2}]

Pair == [r \in 1 .. 2 |-> {3 - r}]

LineHops == [r \in Routers |-> [n \in Routers |->
               IF r <= n THEN n - r ELSE r - n]]

\* The state in which all routers opened their sockets before any of them
\* probed, and none has sent its table yet.
RunningInit ==
  /\ phase = [r \in Routers |-> "open"]
  /\ rt = [r \in Routers |-> ConfiguredTable(r)]
  /\ failedCnt = [r \in Routers |-> [n \in Routers |-> 0]]
  /\ sendRT = [r \in Routers |-> TRUE]
  /\ todo = [r \in Routers |-> {}]
  /\ rows = [r \in Routers |-> {}]
  /\ sendingOK = [r \in Routers |-> FALSE]
  /\ backlog = [r \in Routers |-> <<>>]
  /\ crashes = 0
  /\ disturbed = FALSE

RunningSpec == RunningInit /\ [][Next]_vars /\ Fairness
=============================================================================
