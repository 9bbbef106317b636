----------------------------- MODULE RouteEntry -----------------------------
(***************************************************************************)
(* The routing table of one AODV node as a value: what a                   *)
(* RoutingTableEntry holds and what the operations of                      *)
(* aodv::RoutingTable do to the map from destinations to entries.          *)
(*                                                                         *)
(* A table is a function on the destinations.  A destination without an    *)
(* entry is mapped to a record whose flag is "ABSENT", so that a failed    *)
(* lookup yields a record too, as in the code, where the caller's default  *)
(* constructed entry is left alone.                                        *)
(*                                                                         *)
(* Entry lifetimes are not part of the value.  Every operation that reads  *)
(* an entry first calls Purge(), so an entry whose lifetime has passed is  *)
(* never seen by anybody: the modules that use this one let time demote    *)
(* an entry at any moment, in an action Expire.                            *)
(***************************************************************************)
EXTENDS Integers

CONSTANT SeqMod     \* sequence numbers are integers modulo SeqMod (2^32)

ASSUME SeqModAssumption == SeqMod \in Nat \ {0, 1}

\* RouteFlags, and the flag of a destination the table does not hold.
RouteFlag == {"VALID", "INVALID", "IN_SEARCH", "ABSENT"}

SeqNo == 0 .. SeqMod - 1

\* int32_t(a) - int32_t(b) > 0: half of the circle is newer than b.
Newer(a, b) == (a - b) % SeqMod \in 1 .. (SeqMod - 1) \div 2

\* LookupRoute finds an entry / LookupValidRoute finds a valid one.
Present(t, d) == t[d].flag # "ABSENT"
HasValid(t, d) == t[d].flag = "VALID"
InSearch(t, d) == t[d].flag = "IN_SEARCH"

\* Only an entry under search keeps its count of network-wide requests.
Settled(e) == IF e.flag = "IN_SEARCH" THEN e ELSE [e EXCEPT !.cnt = 0]

\* Update() overwrites an existing entry; AddRoute() inserts a missing one.
Update(t, d, e)   == IF Present(t, d) THEN [t EXCEPT ![d] = Settled(e)] ELSE t
AddRoute(t, d, e) == IF Present(t, d) THEN t ELSE [t EXCEPT ![d] = Settled(e)]

\* Invalidate(): the flag and the request count change, nothing else does.
Invalidated(e) == [e EXCEPT !.flag = "INVALID", !.cnt = 0]

\* InvalidateRoutesWithDst(): only the valid entries among lost are touched.
InvalidateRoutesWithDst(t, lost) ==
  [d \in DOMAIN t |-> IF d \in lost /\ HasValid(t, d)
                      THEN Invalidated(t[d]) ELSE t[d]]
=============================================================================
