-------------------------- MODULE MCRouteDiscovery --------------------------
(* Instances of RouteDiscovery for TLC. *)
EXTENDS RouteDiscovery

CONSTANTS d1, d2, dev1, dev2
=============================================================================
