----------------------------- MODULE SearchRing -----------------------------
(***************************************************************************)
(* The expanding ring search of RoutingProtocol::SendRequest as a function *)
(* of the routing table entry of the destination: what ttl the next        *)
(* request gets, and what the entry becomes.  The entry itself remembers   *)
(* how far the search has come: its hop count is the ttl of the last       *)
(* request, its request count the number of network-wide ones.             *)
(***************************************************************************)
EXTENDS RouteEntry

CONSTANTS TtlStart, TtlIncrement, TtlThreshold, NetDiameter,
          CntMod   \* the request count is an integer modulo CntMod (2^8)

ASSUME RingAssumption ==
  /\ TtlStart \in Nat \ {0} /\ TtlIncrement \in Nat \ {0}
  /\ TtlThreshold \in Nat /\ NetDiameter \in Nat
  /\ TtlThreshold < NetDiameter /\ TtlStart <= NetDiameter
  /\ CntMod \in Nat \ {0, 1}

\* Expanding ring: the ttl of the next request, from the entry.
NextTtl(e) ==
  LET grown == e.hop + TtlIncrement IN
  CASE e.flag = "ABSENT"    -> TtlStart
    [] e.flag = "IN_SEARCH" -> IF grown > TtlThreshold THEN NetDiameter
                                                       ELSE grown
    [] OTHER                -> IF grown < NetDiameter THEN grown
                                                      ELSE NetDiameter

Bumped(cnt) == IF cnt + 1 = CntMod THEN 0 ELSE cnt + 1

\* (mutants) only a repeated request counts; none does.
NextCnt_OnlyRepeats(e) ==
  IF NextTtl(e) = NetDiameter /\ e.flag = "IN_SEARCH" THEN Bumped(e.cnt)
                                                     ELSE e.cnt
NextCnt_Never(e) == e.cnt

\* IncrementRreqCnt() for a network-wide request.
NextCnt(e) == IF NextTtl(e) = NetDiameter THEN Bumped(e.cnt) ELSE e.cnt

Searching(e) ==
  [e EXCEPT !.flag = "IN_SEARCH", !.hop = NextTtl(e), !.cnt = NextCnt(e)]
=============================================================================
