---------------------------- MODULE MCAodvNetwork ----------------------------
(* Instances of AodvNetwork for TLC. *)
EXTENDS AodvNetwork

CONSTANTS n1, n2, n3, n4

\* Both directions of every pair.
Both(pairs) == pairs \cup {<<p[2], p[1]>> : p \in pairs}

\* n1 - n2 - n3, and the same with n1 - n3.
Line     == Both({<<n1, n2>>, <<n2, n3>>})
Triangle == Both({<<n1, n2>>, <<n2, n3>>, <<n1, n3>>})
\* A triangle with n4 behind n1.
Kite     == Triangle \cup Both({<<n1, n4>>})

EndToEnd  == {<<n1, n3>>}
BothWays  == Both(EndToEnd)
BehindOne == {<<n3, n4>>, <<n1, n4>>}
=============================================================================
