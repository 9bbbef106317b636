---------------------------- MODULE MCNodeStores ----------------------------
(* Instances of NodeStores for TLC: two packets for d1 and one for d2, and  *)
(* ids of two requests in one cache; the other cache runs the same code.    *)
EXTENDS NodeStores, TLC

CONSTANTS p1, p2, p3, d1, d2, r1, r2

TwoAndOne == [p \in {p1, p2, p3} |-> IF p = p3 THEN d2 ELSE d1]
OneCache == [i \in {r1, r2} |-> "rreq"]

\* Packets for d1 are alike, and so are the ids.
Alike == Permutations({p1, p2}) \cup Permutations({r1, r2})
=============================================================================
