---------------------------- MODULE MCInterfaces ----------------------------
(* Instances of Interfaces for TLC: an ad hoc interface i1 with two         *)
(* addresses of one subnet, and an interface i2 with addresses of two.      *)
EXTENDS Interfaces

CONSTANTS i1, i2, a1, a2, b1, b2, d1

TwoHomes == [a \in {a1, a2, b1, b2} |-> IF a \in {a1, a2} THEN i1 ELSE i2]
ThreeSubnets == [a \in {a1, a2, b1, b2} |-> IF a \in {a1, a2} THEN "A"
                                            ELSE IF a = b1 THEN "B1" ELSE "B2"]
=============================================================================
