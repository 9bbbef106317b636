----------------------------- MODULE Interfaces -----------------------------
(***************************************************************************)
(* How RoutingProtocol follows the interfaces and addresses of its node:   *)
(* the sockets it opens and closes, the broadcast records and routes it    *)
(* keeps or deletes, the hello timer, and the layer 2 feedback.            *)
(*                                                                         *)
(* The node (Ipv4L3Protocol) is modelled as far as it calls the handlers:  *)
(* an interface comes up when it is down and has an address, goes down     *)
(* when it is up and has one, and address changes are notified after they  *)
(* are made.  Two interfaces have no subnet in common.  When the first     *)
(* address of an interface goes, any of the others may be the next.  The   *)
(* loopback interface takes no part.                                       *)
(***************************************************************************)
EXTENDS Integers

CONSTANTS
  Iface,
  Wifi, AdhocWifi,  \* interfaces with a wifi MAC, with an ad hoc one
  Addr, NoAddr,
  Home, Subnet,     \* interface and broadcast address of each address
  Dest,             \* destinations of routes
  MaxChanges        \* bound: changes of interfaces and addresses

ASSUME InterfaceAssumption ==
  /\ NoAddr \notin Addr /\ MaxChanges \in Nat
  /\ AdhocWifi \subseteq Wifi /\ Wifi \subseteq Iface
  /\ Home \in [Addr -> Iface]
  /\ \A a, b \in Addr : Subnet[a] = Subnet[b] => Home[a] = Home[b]

VARIABLES
  up,              \* the node: interfaces that are up,
  first, others,   \*   the first address of each, all other addresses
  uni,             \* m_socketAddresses: sockets of each address
  bcast,           \* m_socketSubnetBroadcastAddresses: open sockets of each,
  closed,          \*   and closed ones that are still in the map
  record,          \* interface address of each local broadcast record
  routes,          \* interface address of the route to each destination
  hello,           \* m_htimer is running
  feedback,        \* connections of NotifyTxError to the MAC's trace
  arp,             \* entries of m_nb.m_arp
  changes          \* what is left of the bound

ifVars == <<up, first, others, uni, bcast, closed, record, routes, hello,
            feedback, arp, changes>>

TypeOK ==
  /\ up \subseteq Iface
  /\ first \in [Iface -> Addr \cup {NoAddr}] /\ others \subseteq Addr
  /\ uni \in [Addr -> 0 .. 1] /\ bcast \in [Addr -> Nat] /\ closed \in [Addr -> Nat]
  /\ record \in [{Subnet[a] : a \in Addr} -> Addr \cup {NoAddr}]
  /\ routes \in [Dest -> Addr \cup {NoAddr}]
  /\ feedback \in [Iface -> Nat] /\ arp \in [Iface -> Nat]
  /\ hello \in BOOLEAN /\ changes \in 0 .. MaxChanges

\* SetIpv4 and DoInitialize.
Init ==
  /\ up = {} /\ first = [i \in Iface |-> NoAddr] /\ others = {}
  /\ uni = [a \in Addr |-> 0] /\ bcast = uni /\ closed = uni
  /\ record = [s \in {Subnet[a] : a \in Addr} |-> NoAddr]
  /\ routes = [d \in Dest |-> NoAddr]
  /\ hello = TRUE
  /\ feedback = [i \in Iface |-> 0] /\ arp = [i \in Iface |-> 0]
  /\ changes = MaxChanges

Change == changes > 0 /\ changes' = changes - 1

-----------------------------------------------------------------------------
(* Parts of the handlers.                                                  *)

\* (mutants) the record is not added; the broadcast socket is not opened.
Serving_NoRecord(a, u, b, r) ==
  /\ uni' = [u EXCEPT ![a] = @ + 1] /\ bcast' = [b EXCEPT ![a] = @ + 1]
  /\ record' = r
Serving_UnicastOnly(a, u, b, r) ==
  /\ uni' = [u EXCEPT ![a] = @ + 1] /\ bcast' = b
  /\ record' = [r EXCEPT ![Subnet[a]] = IF @ = NoAddr THEN a ELSE @]

\* A unicast and a broadcast socket for a, and a local broadcast record.
Serving(a, u, b, r) ==
  /\ uni' = [u EXCEPT ![a] = @ + 1] /\ bcast' = [b EXCEPT ![a] = @ + 1]
  /\ record' = [r EXCEPT ![Subnet[a]] = IF @ = NoAddr THEN a ELSE @]

\* DeleteAllRoutesFromInterface(a).
WithoutRoutes(t, a) == [d \in DOMAIN t |-> IF t[d] = a THEN NoAddr ELSE t[d]]

\* No sockets are left: the timer is cancelled, the table is cleared.
Alone(u) == \A a \in Addr : u[a] = 0
Cleared(t) == [d \in DOMAIN t |-> NoAddr]

\* (mutants) the routes stay; the socket stays.
Leaving_Routes(a, u) ==
  /\ uni' = u /\ hello' = (hello /\ ~Alone(u))
  /\ record' = IF Alone(u) THEN Cleared(record) ELSE WithoutRoutes(record, a)
  /\ UNCHANGED routes
Leaving_Socket(a, u) ==
  /\ hello' = (hello /\ ~Alone(u))
  /\ record' = WithoutRoutes(record, a) /\ routes' = WithoutRoutes(routes, a)
  /\ UNCHANGED uni

\* The sockets u are left, and none for a: its routes go, or all.
Leaving(a, u) ==
  /\ uni' = u /\ hello' = (hello /\ ~Alone(u))
  /\ record' = IF Alone(u) THEN Cleared(record) ELSE WithoutRoutes(record, a)
  /\ routes' = IF Alone(u) THEN Cleared(routes) ELSE WithoutRoutes(routes, a)

\* (mutant) NotifyTxError stays connected.
DisableFeedback_ArpOnly(i) ==
  /\ arp' = IF i \in AdhocWifi THEN [arp EXCEPT ![i] = 0] ELSE arp
  /\ UNCHANGED feedback

\* TraceDisconnect and DelArpCache remove all there is, but not for other
\* kinds of MAC.
DisableFeedback(i) ==
  /\ arp' = IF i \in AdhocWifi THEN [arp EXCEPT ![i] = 0] ELSE arp
  /\ feedback' = IF i \in AdhocWifi THEN [feedback EXCEPT ![i] = 0] ELSE feedback

-----------------------------------------------------------------------------
(* The handlers.                                                           *)

NotifyInterfaceUp(i) ==
  /\ Change /\ i \notin up /\ first[i] # NoAddr
  /\ up' = up \cup {i}
  /\ Serving(first[i], uni, bcast, record)
  /\ arp' = [arp EXCEPT ![i] = @ + 1]
  /\ feedback' = IF i \in Wifi THEN [feedback EXCEPT ![i] = @ + 1] ELSE feedback
  /\ UNCHANGED <<first, others, closed, routes, hello>>

\* The sockets are looked up by address; of two broadcast sockets, the one
\* that is found is closed, and leaves the map.
NotifyInterfaceDown(i) ==
  LET a == first[i] IN
  /\ Change /\ i \in up /\ a # NoAddr
  /\ up' = up \ {i}
  /\ \/ bcast[a] > 0 /\ bcast' = [bcast EXCEPT ![a] = @ - 1] /\ UNCHANGED closed
     \/ closed[a] > 0 /\ closed' = [closed EXCEPT ![a] = @ - 1] /\ UNCHANGED bcast
  /\ Leaving(a, [uni EXCEPT ![a] = @ - 1]) /\ DisableFeedback(i)
  /\ UNCHANGED <<first, others>>

\* The node has one address more.
Added(i, a) ==
  IF first[i] = NoAddr THEN first' = [first EXCEPT ![i] = a] /\ UNCHANGED others
                       ELSE others' = others \cup {a} /\ UNCHANGED first

\* (mutant) every address of the interface gets its sockets.
NotifyAddAddress_Every(a) ==
  LET i == Home[a] IN
  /\ Change /\ first[i] # a /\ a \notin others
  /\ Added(i, a)
  /\ IF i \in up THEN Serving(a, uni, bcast, record)
                 ELSE UNCHANGED <<uni, bcast, record>>
  /\ UNCHANGED <<up, closed, routes, hello, feedback, arp>>

\* Only the first address of an interface that is up gets sockets.
NotifyAddAddress(a) ==
  LET i == Home[a] IN
  /\ Change /\ first[i] # a /\ a \notin others
  /\ Added(i, a)
  /\ IF i \in up /\ first[i] = NoAddr
     THEN Serving(a, uni, bcast, record)
     ELSE UNCHANGED <<uni, bcast, record>>
  /\ UNCHANGED <<up, closed, routes, hello, feedback, arp>>

\* A broadcast socket of a is closed, and erased from the map of the unicast
\* sockets, where it is not: it stays where it is.
ClosingBroadcast(a) ==
  \/ /\ bcast[a] > 0
     /\ closed' = [closed EXCEPT ![a] = @ + 1]
  \/ /\ bcast[a] = 0 \/ closed[a] > 0
     /\ UNCHANGED closed

\* What is left open of the broadcast sockets when a has gone.
LeftOpen(a) == IF closed' = closed THEN bcast ELSE [bcast EXCEPT ![a] = @ - 1]

\* The node has one address less.
Removed(i, a) ==
  IF first[i] # a THEN a \in others /\ others' = others \ {a} /\ UNCHANGED first
  ELSE LET next == {b \in others : Home[b] = i} IN
       \E b \in IF next = {} THEN {NoAddr} ELSE next :
         first' = [first EXCEPT ![i] = b] /\ others' = others \ {b}

\* (mutant) the test for the last socket comes before b gets its own.
Replaced_TestFirst(a, b, u) ==
  /\ Serving(b, u, LeftOpen(a), WithoutRoutes(record, a))
  /\ routes' = WithoutRoutes(routes, a) /\ hello' = (hello /\ ~Alone(u))

\* The sockets u are left, and b takes the place of a.
Replaced(a, b, u) ==
  /\ Serving(b, u, LeftOpen(a), WithoutRoutes(record, a))
  /\ routes' = WithoutRoutes(routes, a) /\ UNCHANGED hello

\* NotifyRemoveAddress: an address that is served is replaced by the next of
\* the interface, if there is one.
NotifyRemoveAddress(a) ==
  LET i == Home[a]
      u == [uni EXCEPT ![a] = @ - 1]
  IN /\ Change /\ Removed(i, a)
     /\ UNCHANGED <<up, feedback, arp>>
     /\ \/ /\ uni[a] = 0
           /\ UNCHANGED <<uni, bcast, closed, record, routes, hello>>
        \/ /\ uni[a] > 0 /\ first'[i] # NoAddr
           /\ ClosingBroadcast(a) /\ Replaced(a, first'[i], u)
        \/ /\ uni[a] > 0 /\ first'[i] = NoAddr
           /\ ClosingBroadcast(a) /\ bcast' = LeftOpen(a)
           /\ Leaving(a, u)

\* A message received on a socket of an address of i makes a route to d, or a
\* route is lost: RecvAodv, and all that deletes entries one by one.  (A broadcast
\* socket left open for an address that has gone receives too, and RecvAodv then
\* finds no interface for it; that is left out.)
RecvAodv(i, d) ==
  /\ i \in up
  /\ \E a \in others \cup {first[i]} :
       a # NoAddr /\ Home[a] = i /\ uni[a] + bcast[a] > 0
  /\ routes' = [routes EXCEPT ![d] = first[i]]
  /\ UNCHANGED <<up, first, others, uni, bcast, closed, record, hello,
                 feedback, arp, changes>>
LoseRoute(d) ==
  /\ routes' = [routes EXCEPT ![d] = NoAddr]
  /\ UNCHANGED <<up, first, others, uni, bcast, closed, record, hello,
                 feedback, arp, changes>>

Next ==
  \/ \E i \in Iface : NotifyInterfaceUp(i) \/ NotifyInterfaceDown(i)
  \/ \E a \in Addr : NotifyAddAddress(a) \/ NotifyRemoveAddress(a)
  \/ \E d \in Dest : LoseRoute(d) \/ \E i \in Iface : RecvAodv(i, d)

Spec == Init /\ [][Next]_ifVars

-----------------------------------------------------------------------------
(* Properties.                                                             *)

\* The addresses that AODV uses, of interfaces that are up.
InUse == {a \in Addr : Home[a] \in up /\ first[Home[a]] = a}

\* In whatever order interfaces and addresses come and go, an interface that
\* is up has exactly one unicast socket, for its first address, and there is
\* no other.
UnicastSocketPerInterface == \A a \in Addr : uni[a] = IF a \in InUse THEN 1 ELSE 0

\* No route is left for an interface address without a socket: the lookups
\* before every message that is sent over a route ("NS_ASSERT(socket)") find
\* one, also when the address was replaced while the route was in the table.
RoutesHaveSockets == \A d \in Dest : routes[d] # NoAddr => uni[routes[d]] > 0

\* An interface that is up can be broadcast over: its record is there, also
\* after the table was cleared because of another interface.
BroadcastRecords == \A a \in InUse : record[Subnet[a]] = a

\* There is a raw subnet directed broadcast socket per each IP interface,
\* says the declaration of the map: one, and none for any other address.
BroadcastSocketPerInterface == \A a \in Addr : bcast[a] = IF a \in InUse THEN 1 ELSE 0

\* At least the broadcasts of every interface that is up are received.
BroadcastsReceived == \A a \in InUse : bcast[a] > 0

\* What goes takes only its own with it: the routes over addresses that stay
\* in use are kept, and the hellos stop with the last address in use and not
\* before, not even when one is replaced by another on the only interface.
LossesAreLocal ==
  [][InUse' # InUse =>
       /\ \A d \in Dest : routes[d] \in InUse \cap InUse' => routes'[d] = routes[d]
       /\ hello' = (hello /\ (InUse = {} \/ InUse' # {}))]_ifVars

\* An ad hoc interface gives its feedback once, and only while it is up.
FeedbackWhileUp ==
  \A i \in AdhocWifi : /\ feedback[i] = IF i \in up THEN 1 ELSE 0
                       /\ arp[i] = feedback[i]
=============================================================================
