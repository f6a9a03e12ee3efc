------------------------------- MODULE MCBackends -------------------------------
(* The backends for TLC: three calls that may overlap, one stream of an agent. *)
EXTENDS Backends

CONSTANTS c1, c2, c3, s1
=================================================================================
