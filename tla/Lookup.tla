------------------------------- MODULE Lookup -------------------------------
(***************************************************************************)
(* The loops of the program that look for a row of an array go through the *)
(* indices in ascending order and take the first that qualifies.           *)
(***************************************************************************)
EXTENDS Naturals

FirstOf(S) == CHOOSE n \in S : \A m \in S : n <= m
=============================================================================
