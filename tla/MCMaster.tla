------------------------------- MODULE MCMaster -------------------------------
(* Instances of the discovery master for TLC. *)
EXTENDS DiscoveryMaster, TLC

CONSTANTS c1, c2, c3, i1, i2, u1, u2, h1, h2

OneSet == {{h1, h2}}
SomeSets == {{h1}, {h1, h2}}

Symmetric == Permutations(Calls) \cup Permutations(Instances)
================================================================================
