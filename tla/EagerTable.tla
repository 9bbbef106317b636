----------------------------- MODULE EagerTable -----------------------------
(***************************************************************************)
(* What the modules about the protocol take the routing table to be: a     *)
(* table without a clock, in which entries age all by themselves, at any   *)
(* moment, and in which nothing else ever happens unasked.  Beside it, the *)
(* paths of the multipath table, which disappear the same way.             *)
(***************************************************************************)
EXTENDS RouteEntry

CONSTANTS
  Dst,           \* destinations
  Hop,           \* next hops
  NoHop,         \* 0.0.0.0, the next hop of an entry that never had one
  Way            \* pairs of a destination and a next hop that may be a path

VARIABLES
  view,    \* the entry of each destination
  ways,    \* <<d, h>>: there is a path to d through h
  answer   \* what the last call returned, if it was a lookup

eagerVars == <<view, ways, answer>>

Entry == [flag : RouteFlag, cnt : {0}, next : Hop \cup {NoHop}]

NoRoute == [flag |-> "ABSENT", cnt |-> 0, next |-> NoHop]
Silence == [of |-> "nothing"]
Used    == [of |-> "use"]
Looked(t, d) == [of |-> "route", dst |-> d, entry |-> t[d]]
Asked(P, d)  == [of |-> "path", dst |-> d, found |-> \E w \in P : w[1] = d]

EagerInit ==
  /\ view = [d \in Dst |-> NoRoute] /\ ways = {} /\ answer = Silence

\* Some valid routes are lost, some invalid entries forgotten, and some paths
\* end: they age, or a link breaks.
Aged(e) == IF e.flag = "VALID" THEN Invalidated(e)
           ELSE IF e.flag = "IN_SEARCH" THEN e ELSE NoRoute
Age ==
  /\ DOMAIN view' = Dst /\ \A d \in Dst : view'[d] \in {view[d], Aged(view[d])}
  /\ ways' \subseteq ways
  /\ answer' = Silence

\* A caller that has looked writes the entry of one destination.
Write(d) ==
  /\ view'[d] \in Entry /\ view' = [view EXCEPT ![d] = view'[d]]
  /\ answer' = Silence /\ UNCHANGED ways

\* Entries are removed with an interface.
Remove ==
  /\ DOMAIN view' = Dst /\ \A d \in Dst : view'[d] \in {view[d], NoRoute}
  /\ answer' = Silence /\ UNCHANGED ways

\* A path comes or is taken out.
SetWays(P) ==
  /\ ways' = P
  /\ answer' = Silence /\ UNCHANGED view

\* Lookups change nothing and tell what there is.
LookUp(d)  == answer' = Looked(view, d) /\ UNCHANGED <<view, ways>>
AskPath(d) == answer' = Asked(ways, d) /\ UNCHANGED <<view, ways>>

\* A packet that uses routes, or an operation of another kind, changes nothing.
Idle == answer' \in {Silence, Used} /\ UNCHANGED <<view, ways>>

EagerNext ==
  \/ Age \/ Remove \/ Idle
  \/ \E d \in Dst : Write(d) \/ LookUp(d) \/ AskPath(d)
  \/ \E w \in Way : SetWays(ways \cup {w}) \/ SetWays(ways \ {w})

EagerSpec == EagerInit /\ [][EagerNext]_eagerVars
=============================================================================
