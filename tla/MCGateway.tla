------------------------------- MODULE MCGateway -------------------------------
(* One request to the gateway for TLC, with two backends for one field. *)
EXTENDS CityInformation

CONSTANTS r1, population, population2

BackendFields == [b \in Backends |-> "population"]
================================================================================
