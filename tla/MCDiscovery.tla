------------------------------ MODULE MCDiscovery ------------------------------
(* Instances of the discovery service for TLC. *)
EXTENDS Discovery, TLC

CONSTANTS a1, a2, c1, c2, c3, u1, h1, h2

OneList == {<<h1, h2>>}
Symmetric == Permutations(Instances) \cup Permutations(Calls)
SameUrl == [a \in Instances |-> u1]
================================================================================
