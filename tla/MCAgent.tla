-------------------------------- MODULE MCAgent --------------------------------
(* One discovery agent for TLC. *)
EXTENDS DiscoveryAgent

CONSTANTS a1, u1, h1, h2

Lists == {<<h1>>, <<h1, h2>>}
================================================================================
