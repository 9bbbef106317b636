---------------------------- MODULE MCRoutingTable ----------------------------
(* Instances of RoutingTable for TLC: n1 is a neighbour, d1 is reached      *)
(* through n1 or n2, which are heard over different interfaces.             *)
EXTENDS RoutingTable

CONSTANTS n1, n2, d1

TwoIfaces == [h \in {n1, n2} |-> IF h = n1 THEN 1 ELSE 2]
OnePath == {<<d1, n1>>}
TwoPaths == {<<d1, n1>>, <<d1, n2>>}
=============================================================================
