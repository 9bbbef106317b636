-------------------------- MODULE Interfaces_proofs --------------------------
(***************************************************************************)
(* Proofs about Interfaces: with whatever interfaces and addresses, and in *)
(* whatever order they come and go, the sockets, the records and the       *)
(* routes of the protocol stay in step with them.                          *)
(***************************************************************************)
EXTENDS Interfaces, TLAPS

Subnets == {Subnet[a] : a \in Addr}

\* The first address of an interface is one of its own, and no other address.
Placed ==
  \A i \in Iface : first[i] # NoAddr => /\ Home[first[i]] = i
                                        /\ first[i] \notin others

\* Broadcast records are those of addresses in use.
RecordsInUse ==
  \A s \in Subnets : record[s] # NoAddr => /\ record[s] \in InUse
                                           /\ Subnet[record[s]] = s

\* What the addresses in use have: one unicast socket and some broadcast ones.
Sockets == Placed /\ UnicastSocketPerInterface /\ BroadcastsReceived

\* What is known of the tables.
Tables == RoutesHaveSockets /\ RecordsInUse /\ BroadcastRecords

Inv == TypeOK /\ Sockets /\ Tables /\ FeedbackWhileUp

-----------------------------------------------------------------------------
(* The parts of the handlers.                                              *)

\* What sockets u, c and records r are when exactly the addresses in U are
\* in use.
Serves(U, u, c, r) ==
  /\ U \subseteq Addr
  /\ u \in [Addr -> 0 .. 1] /\ c \in [Addr -> Nat]
  /\ r \in [Subnets -> Addr \cup {NoAddr}]
  /\ \A a \in Addr : u[a] = IF a \in U THEN 1 ELSE 0
  /\ \A a \in U : c[a] > 0 /\ r[Subnet[a]] = a
  /\ \A s \in Subnets : r[s] # NoAddr => r[s] \in U /\ Subnet[r[s]] = s

\* Sockets for one more address: it shares its subnet with none in use.
LEMMA ServingServes ==
  ASSUME InterfaceAssumption, NEW U, NEW u, NEW c, NEW r, Serves(U, u, c, r),
         NEW b \in Addr, b \notin U, \A a \in U : Home[a] # Home[b]
  PROVE  Serves(U \cup {b}, [u EXCEPT ![b] = @ + 1], [c EXCEPT ![b] = @ + 1],
                [r EXCEPT ![Subnet[b]] = IF @ = NoAddr THEN b ELSE @])
<1> USE DEF Serves
<1>1. r[Subnet[b]] = NoAddr
  BY DEF Subnets, InterfaceAssumption
<1>2. \A a \in U : Subnet[a] # Subnet[b]
  BY DEF InterfaceAssumption
<1>3. NoAddr \notin Addr /\ Subnet[b] \in Subnets /\ u[b] = 0
  BY DEF InterfaceAssumption, Subnets
<1>4. [r EXCEPT ![Subnet[b]] = IF @ = NoAddr THEN b ELSE @] = [r EXCEPT ![Subnet[b]] = b]
  BY <1>1
<1> QED
  BY <1>2, <1>3, <1>4 DEF Subnets

LEMMA InUseServed ==
  ASSUME Inv
  PROVE  Serves(InUse, uni, bcast, record)
<1>1. InUse \subseteq Addr
  BY DEF InUse
<1> QED
  BY <1>1 DEF Inv, Serves, TypeOK, Subnets, Sockets, UnicastSocketPerInterface,
     BroadcastsReceived, Tables, BroadcastRecords, RecordsInUse

\* An address a that is in use goes, the addresses in U stay in use.
LEMMA LeavingLeaves ==
  ASSUME InterfaceAssumption, Inv, NEW a \in InUse,
         Leaving(a, [uni EXCEPT ![a] = @ - 1])
  PROVE  /\ uni' \in [Addr -> 0 .. 1]
         /\ record' \in [Subnets -> Addr \cup {NoAddr}]
         /\ routes' \in [Dest -> Addr \cup {NoAddr}]
         /\ hello' \in BOOLEAN
         /\ \A b \in Addr : uni'[b] = IF b \in InUse \ {a} THEN 1 ELSE 0
         /\ \A b \in InUse \ {a} : record'[Subnet[b]] = b
         /\ \A s \in Subnets : record'[s] # NoAddr =>
              record'[s] \in InUse \ {a} /\ Subnet[record'[s]] = s
         /\ \A d \in Dest : routes'[d] # NoAddr => uni'[routes'[d]] > 0
<1> DEFINE u == [uni EXCEPT ![a] = @ - 1]
<1> USE DEF Inv
<1>1. NoAddr \notin Addr /\ a \in Addr /\ InUse \subseteq Addr
  BY DEF InterfaceAssumption, InUse
<1>2. /\ uni \in [Addr -> 0 .. 1] /\ record \in [Subnets -> Addr \cup {NoAddr}]
      /\ routes \in [Dest -> Addr \cup {NoAddr}] /\ hello \in BOOLEAN
  BY DEF TypeOK, Subnets
<1>3. \A b \in Addr : u[b] = IF b \in InUse \ {a} THEN 1 ELSE 0
  BY <1>1, <1>2 DEF Sockets, UnicastSocketPerInterface
<1>4. u \in [Addr -> 0 .. 1]
  BY <1>1, <1>2, <1>3
<1>5. uni' = u
  BY DEF Leaving
<1>6. hello' \in BOOLEAN
  BY <1>2 DEF Leaving
<1>7. /\ record' \in [Subnets -> Addr \cup {NoAddr}]
      /\ routes' \in [Dest -> Addr \cup {NoAddr}]
  BY <1>2 DEF Leaving, Cleared, WithoutRoutes
<1>8. CASE Alone(u)
  <2>1. InUse \ {a} = {}
    BY <1>1, <1>3, <1>8 DEF Alone
  <2>2. /\ \A s \in Subnets : record'[s] = NoAddr
        /\ \A d \in Dest : routes'[d] = NoAddr
    BY <1>2, <1>8 DEF Leaving, Cleared
  <2> QED
    BY <1>3, <1>4, <1>5, <1>6, <1>7, <2>1, <2>2
<1>9. CASE ~Alone(u)
  <2>1. /\ record' = WithoutRoutes(record, a)
        /\ routes' = WithoutRoutes(routes, a)
    BY <1>9 DEF Leaving
  <2>2. /\ \A s \in Subnets : record'[s] = IF record[s] = a THEN NoAddr ELSE record[s]
        /\ \A d \in Dest : routes'[d] = IF routes[d] = a THEN NoAddr ELSE routes[d]
    BY <1>2, <2>1 DEF WithoutRoutes
  <2>3. \A b \in InUse : Subnet[b] \in Subnets /\ record[Subnet[b]] = b
    BY <1>1 DEF Subnets, Tables, BroadcastRecords
  <2>4. \A s \in Subnets : record[s] # NoAddr => record[s] \in InUse /\ Subnet[record[s]] = s
    BY DEF Tables, RecordsInUse
  <2>5. \A d \in Dest : routes[d] # NoAddr => uni[routes[d]] > 0 /\ routes[d] \in Addr
    BY <1>2 DEF Tables, RoutesHaveSockets
  <2>6. \A d \in Dest : routes'[d] # NoAddr => uni'[routes'[d]] > 0
    BY <1>2, <1>5, <2>2, <2>5
  <2> QED
    BY <1>1, <1>3, <1>4, <1>5, <1>6, <1>7, <2>2, <2>3, <2>4, <2>6
<1> QED
  BY <1>8, <1>9

-----------------------------------------------------------------------------
(* The handlers.                                                           *)

LEMMA UpKeeps ==
  ASSUME InterfaceAssumption, Inv, NEW i \in Iface, NotifyInterfaceUp(i)
  PROVE  Inv'
<1> DEFINE b == first[i]
<1> USE DEF Inv
<1>1. /\ b \in Addr /\ Home[b] = i /\ i \notin up /\ NoAddr \notin Addr
      /\ Home \in [Addr -> Iface]
  BY DEF NotifyInterfaceUp, TypeOK, InterfaceAssumption, Sockets, Placed
<1>2. InUse' = InUse \cup {b} /\ b \notin InUse /\ InUse \subseteq Addr
  BY <1>1 DEF NotifyInterfaceUp, InUse
<1>3. \A a \in InUse : Home[a] # Home[b]
  BY <1>1 DEF InUse
<1>4. Serves(InUse, uni, bcast, record)
  BY <1>2, InUseServed
<1>5. Serves(InUse \cup {b}, uni', bcast', record')
  BY <1>1, <1>2, <1>3, <1>4, ServingServes DEF NotifyInterfaceUp, Serving
<1>6. Serves(InUse', uni', bcast', record')
  BY <1>2, <1>5
<1>7. TypeOK'
  BY <1>6 DEF NotifyInterfaceUp, TypeOK, Change, Subnets, Serves
<1>8. Sockets'
  BY <1>6 DEF NotifyInterfaceUp, Sockets, Placed, UnicastSocketPerInterface, BroadcastsReceived, Serves
<1>9. Tables'
  <2>1. \A a \in InUse : uni'[a] > 0
    BY <1>2, <1>6 DEF Serves
  <2>2. \A d \in Dest : routes[d] # NoAddr => routes[d] \in InUse
    BY DEF Tables, RoutesHaveSockets, TypeOK, Sockets, UnicastSocketPerInterface
  <2>3. RoutesHaveSockets'
    BY <2>1, <2>2 DEF NotifyInterfaceUp, RoutesHaveSockets
  <2> QED
    BY <1>6, <2>3 DEF Tables, RecordsInUse, BroadcastRecords, Serves
<1>10. FeedbackWhileUp'
  BY DEF NotifyInterfaceUp, FeedbackWhileUp, TypeOK, InterfaceAssumption
<1> QED
  BY <1>7, <1>8, <1>9, <1>10

LEMMA DownKeeps ==
  ASSUME InterfaceAssumption, Inv, NEW i \in Iface, NotifyInterfaceDown(i)
  PROVE  Inv'
<1> DEFINE a == first[i]
<1> USE DEF Inv
<1>1. /\ a \in Addr /\ Home[a] = i /\ i \in up /\ NoAddr \notin Addr
      /\ Home \in [Addr -> Iface]
  BY DEF NotifyInterfaceDown, TypeOK, InterfaceAssumption, Sockets, Placed
<1>2. InUse' = InUse \ {a} /\ a \in InUse /\ InUse \subseteq Addr
  BY <1>1 DEF NotifyInterfaceDown, InUse
<1>3. Leaving(a, [uni EXCEPT ![a] = @ - 1])
  BY DEF NotifyInterfaceDown
<1>4. /\ uni' \in [Addr -> 0 .. 1]
      /\ record' \in [Subnets -> Addr \cup {NoAddr}]
      /\ routes' \in [Dest -> Addr \cup {NoAddr}]
      /\ hello' \in BOOLEAN
      /\ \A b \in Addr : uni'[b] = IF b \in InUse \ {a} THEN 1 ELSE 0
      /\ \A b \in InUse \ {a} : record'[Subnet[b]] = b
      /\ \A s \in Subnets : record'[s] # NoAddr =>
           record'[s] \in InUse \ {a} /\ Subnet[record'[s]] = s
      /\ \A d \in Dest : routes'[d] # NoAddr => uni'[routes'[d]] > 0
  BY <1>2, <1>3, LeavingLeaves
<1>5. /\ bcast' \in [Addr -> Nat] /\ closed' \in [Addr -> Nat]
      /\ \A b \in Addr \ {a} : bcast'[b] = bcast[b]
  BY <1>1 DEF NotifyInterfaceDown, TypeOK
<1>6. /\ feedback' \in [Iface -> Nat] /\ arp' \in [Iface -> Nat]
      /\ \A j \in AdhocWifi : /\ feedback'[j] = IF j \in up \ {i} THEN 1 ELSE 0
                              /\ arp'[j] = feedback'[j]
  BY DEF NotifyInterfaceDown, DisableFeedback, TypeOK, FeedbackWhileUp, InterfaceAssumption
<1>7. TypeOK'
  BY <1>4, <1>5, <1>6 DEF NotifyInterfaceDown, TypeOK, Change, Subnets
<1>8. Sockets'
  BY <1>2, <1>4, <1>5 DEF NotifyInterfaceDown, Sockets, Placed, UnicastSocketPerInterface, BroadcastsReceived
<1>9. Tables'
  BY <1>2, <1>4 DEF Tables, RoutesHaveSockets, RecordsInUse, BroadcastRecords
<1>10. FeedbackWhileUp'
  BY <1>6 DEF NotifyInterfaceDown, FeedbackWhileUp
<1> QED
  BY <1>7, <1>8, <1>9, <1>10

LEMMA AddKeeps ==
  ASSUME InterfaceAssumption, Inv, NEW a \in Addr, NotifyAddAddress(a)
  PROVE  Inv'
<1> DEFINE i == Home[a]
<1> USE DEF Inv
<1>1. /\ i \in Iface /\ NoAddr \notin Addr /\ first[i] # a /\ a \notin others
      /\ \A b \in Addr : Home[b] \in Iface
  BY DEF NotifyAddAddress, InterfaceAssumption
<1>2. /\ first' \in [Iface -> Addr \cup {NoAddr}] /\ others' \subseteq Addr
      /\ Placed'
  BY <1>1 DEF NotifyAddAddress, Added, TypeOK, Sockets, Placed
<1>3. FeedbackWhileUp'
  BY DEF NotifyAddAddress, FeedbackWhileUp
<1>4. \A d \in Dest : routes[d] # NoAddr => routes[d] \in InUse
  BY DEF Tables, RoutesHaveSockets, TypeOK, Sockets, UnicastSocketPerInterface
<1>5. Serves(InUse, uni, bcast, record)
  BY InUseServed
<1>6. Serves(InUse', uni', bcast', record') /\ InUse \subseteq InUse'
  <2>1. CASE i \in up /\ first[i] = NoAddr
    <3>1. first' = [first EXCEPT ![i] = a] /\ up' = up
      BY <2>1 DEF NotifyAddAddress, Added
    <3>2. InUse' = InUse \cup {a} /\ a \notin InUse
      BY <1>1, <2>1, <3>1 DEF InUse, TypeOK
    <3>3. \A b \in InUse : Home[b] # Home[a]
      BY <1>1, <2>1 DEF InUse
    <3>4. Serves(InUse \cup {a}, uni', bcast', record')
      BY <1>5, <2>1, <3>2, <3>3, ServingServes DEF NotifyAddAddress, Serving
    <3> QED
      BY <3>2, <3>4
  <2>2. CASE ~(i \in up /\ first[i] = NoAddr)
    <3>1. InUse' = InUse
      BY <1>1, <2>2 DEF NotifyAddAddress, Added, InUse, TypeOK
    <3> QED
      BY <1>5, <2>2, <3>1 DEF NotifyAddAddress
  <2> QED
    BY <2>1, <2>2
<1>7. TypeOK'
  BY <1>2, <1>6 DEF NotifyAddAddress, TypeOK, Change, Subnets, Serves
<1>8. Sockets'
  BY <1>2, <1>6 DEF Sockets, UnicastSocketPerInterface, BroadcastsReceived, Serves
<1>9. Tables'
  <2>1. \A b \in InUse' : uni'[b] > 0
    BY <1>6 DEF Serves
  <2>2. RoutesHaveSockets'
    BY <1>4, <1>6, <2>1 DEF NotifyAddAddress, RoutesHaveSockets
  <2> QED
    BY <1>6, <2>2 DEF Tables, RecordsInUse, BroadcastRecords, Serves
<1> QED
  BY <1>3, <1>7, <1>8, <1>9

LEMMA RemoveKeeps ==
  ASSUME InterfaceAssumption, Inv, NEW a \in Addr, NotifyRemoveAddress(a)
  PROVE  Inv'
<1> DEFINE i == Home[a]
           u == [uni EXCEPT ![a] = @ - 1]
           r == WithoutRoutes(record, a)
<1> USE DEF Inv
<1>1. /\ i \in Iface /\ NoAddr \notin Addr /\ NoAddr # a
      /\ \A b \in Addr : Home[b] \in Iface
  BY DEF InterfaceAssumption
<1>2. /\ first' \in [Iface -> Addr \cup {NoAddr}] /\ others' \subseteq Addr
      /\ Placed'
      /\ \A j \in Iface \ {i} : first'[j] = first[j]
      /\ first[i] # a => first' = first
      /\ first[i] = a => first'[i] # a
  <2>1. CASE first[i] # a
    BY <1>1, <2>1 DEF NotifyRemoveAddress, Removed, TypeOK, Sockets, Placed
  <2>2. CASE first[i] = a
    <3>1. PICK b \in {c \in others : Home[c] = i} \cup {NoAddr} :
            first' = [first EXCEPT ![i] = b] /\ others' = others \ {b}
      BY <2>2 DEF NotifyRemoveAddress, Removed
    <3>2. a \notin others
      BY <1>1, <2>2 DEF Sockets, Placed
    <3> QED
      BY <1>1, <2>2, <3>1, <3>2 DEF TypeOK, Sockets, Placed
  <2> QED
    BY <2>1, <2>2
<1>3. /\ up' = up /\ feedback' = feedback /\ arp' = arp
      /\ changes' \in 0 .. MaxChanges
  BY DEF NotifyRemoveAddress, TypeOK, Change
<1>4. /\ uni \in [Addr -> 0 .. 1] /\ bcast \in [Addr -> Nat] /\ closed \in [Addr -> Nat]
      /\ record \in [Subnets -> Addr \cup {NoAddr}]
      /\ routes \in [Dest -> Addr \cup {NoAddr}] /\ hello \in BOOLEAN
  BY DEF TypeOK, Subnets
<1>5. Serves(InUse, uni, bcast, record)
  BY InUseServed
<1>6. \A d \in Dest : routes[d] # NoAddr => routes[d] \in InUse
  BY <1>4 DEF Tables, RoutesHaveSockets, Sockets, UnicastSocketPerInterface
\* What the three cases have to show.
<1> DEFINE Kept == /\ Serves(InUse', uni', bcast', record')
                   /\ closed' \in [Addr -> Nat]
                   /\ routes' \in [Dest -> Addr \cup {NoAddr}]
                   /\ \A d \in Dest : routes'[d] # NoAddr => uni'[routes'[d]] > 0
                   /\ hello' \in BOOLEAN
<1>7. ASSUME uni[a] = 0
      PROVE  Kept
  <2>1. a \notin InUse
    BY <1>7 DEF Sockets, UnicastSocketPerInterface
  <2>2. UNCHANGED <<uni, bcast, closed, record, routes, hello>>
    BY <1>7 DEF NotifyRemoveAddress
  <2>3. i \in up => first' = first
    BY <1>2, <2>1 DEF InUse
  <2>4. InUse' = InUse
    BY <1>2, <1>3, <2>3 DEF InUse
  <2> QED
    BY <1>4, <1>5, <2>2, <2>4 DEF Tables, RoutesHaveSockets
<1>8. ASSUME uni[a] > 0
      PROVE  /\ a \in InUse /\ InUse \subseteq Addr /\ first[i] = a /\ i \in up
             /\ \A b \in InUse \ {a} : Home[b] # i
             /\ \A b \in Addr : b \in InUse' <=> b \in InUse \ {a} \/ b = first'[i]
  <2>1. /\ a \in InUse /\ InUse \subseteq Addr /\ first[i] = a /\ i \in up
        /\ \A b \in InUse \ {a} : Home[b] # i
    BY <1>8 DEF Sockets, UnicastSocketPerInterface, InUse
  <2>2. \A b \in Addr : b \in InUse' <=> b \in InUse \ {a} \/ b = first'[i]
    <3>1. first'[i] # NoAddr => Home[first'[i]] = i
      BY <1>2 DEF Placed
    <3> QED
      BY <1>1, <1>2, <1>3, <2>1, <3>1 DEF InUse
  <2> QED
    BY <2>1, <2>2
<1>9. ASSUME uni[a] > 0, ClosingBroadcast(a)
      PROVE  /\ LeftOpen(a) \in [Addr -> Nat] /\ closed' \in [Addr -> Nat]
             /\ \A b \in Addr \ {a} : LeftOpen(a)[b] = bcast[b]
  BY <1>4, <1>9 DEF ClosingBroadcast, LeftOpen
<1>10. ASSUME uni[a] > 0, first'[i] # NoAddr
       PROVE  Kept
  <2> DEFINE b == first'[i]
  <2>1. /\ ClosingBroadcast(a) /\ Serving(b, u, LeftOpen(a), r)
        /\ routes' = WithoutRoutes(routes, a)
        /\ UNCHANGED hello
    BY <1>4, <1>10 DEF NotifyRemoveAddress, Replaced
  <2>2. b \in Addr /\ b # a /\ Home[b] = i
    BY <1>1, <1>2, <1>8, <1>10 DEF Placed
  <2>3. Serves(InUse \ {a}, u, LeftOpen(a), r)
    <3>1. /\ r \in [Subnets -> Addr \cup {NoAddr}]
          /\ \A s \in Subnets : r[s] = IF record[s] = a THEN NoAddr ELSE record[s]
      BY <1>4 DEF WithoutRoutes
    <3>2. \A c \in InUse \ {a} : Subnet[c] \in Subnets
      BY <1>8, <1>10 DEF Subnets
    <3> QED
      BY <1>4, <1>5, <1>8, <1>9, <1>10, <2>1, <3>1, <3>2 DEF Serves
  <2>4. b \notin InUse \ {a} /\ \A c \in InUse \ {a} : Home[c] # Home[b]
    BY <1>8, <1>10, <2>2
  <2>5. Serves((InUse \ {a}) \cup {b}, uni', bcast', record')
    <3> HIDE DEF u, r, b
    <3> QED
      BY <2>1, <2>2, <2>3, <2>4, ServingServes DEF Serving
  <2>6. InUse' = (InUse \ {a}) \cup {b} /\ InUse' \subseteq Addr
    BY <1>8, <1>10, <2>2 DEF InUse
  <2>7. Serves(InUse', uni', bcast', record')
    BY <2>5, <2>6
  <2>8. \A d \in Dest : /\ routes'[d] \in Addr \cup {NoAddr}
                        /\ routes'[d] # NoAddr => routes'[d] \in InUse'
    BY <1>4, <1>6, <2>1, <2>6 DEF WithoutRoutes
  <2>9. routes' \in [Dest -> Addr \cup {NoAddr}]
    BY <1>4, <2>1 DEF WithoutRoutes
  <2> QED
    BY <1>4, <1>9, <1>10, <2>1, <2>6, <2>7, <2>8, <2>9 DEF Serves
<1>11. ASSUME uni[a] > 0, first'[i] = NoAddr
       PROVE  Kept
  <2>1. ClosingBroadcast(a) /\ bcast' = LeftOpen(a) /\ Leaving(a, u)
    BY <1>4, <1>11 DEF NotifyRemoveAddress
  <2>2. InUse' = InUse \ {a}
    BY <1>1, <1>8, <1>11 DEF InUse
  <2>3. bcast' \in [Addr -> Nat] /\ closed' \in [Addr -> Nat]
        /\ \A b \in InUse \ {a} : bcast'[b] > 0
    BY <1>5, <1>8, <1>9, <1>11, <2>1 DEF Serves
  <2>4. /\ uni' \in [Addr -> 0 .. 1]
        /\ record' \in [Subnets -> Addr \cup {NoAddr}]
        /\ routes' \in [Dest -> Addr \cup {NoAddr}]
        /\ hello' \in BOOLEAN
        /\ \A b \in Addr : uni'[b] = IF b \in InUse \ {a} THEN 1 ELSE 0
        /\ \A b \in InUse \ {a} : record'[Subnet[b]] = b
        /\ \A s \in Subnets : record'[s] # NoAddr =>
             record'[s] \in InUse \ {a} /\ Subnet[record'[s]] = s
        /\ \A d \in Dest : routes'[d] # NoAddr => uni'[routes'[d]] > 0
    BY <1>8, <1>11, <2>1, LeavingLeaves
  <2> QED
    BY <1>8, <1>11, <2>2, <2>3, <2>4 DEF Serves
<1>12. Kept
  BY <1>4, <1>7, <1>10, <1>11
<1>13. TypeOK'
  BY <1>2, <1>3, <1>12 DEF TypeOK, Subnets, Serves
<1>14. Sockets'
  BY <1>2, <1>12 DEF Sockets, UnicastSocketPerInterface, BroadcastsReceived, Serves
<1>15. Tables'
  BY <1>12 DEF Tables, RoutesHaveSockets, RecordsInUse, BroadcastRecords, Serves
<1>16. FeedbackWhileUp'
  BY <1>3 DEF FeedbackWhileUp
<1> QED
  BY <1>13, <1>14, <1>15, <1>16

LEMMA TrafficKeeps ==
  ASSUME InterfaceAssumption, Inv, NEW d \in Dest,
         LoseRoute(d) \/ \E i \in Iface : RecvAodv(i, d)
  PROVE  Inv'
<1> USE DEF Inv
<1>1. PICK v \in InUse \cup {NoAddr} : routes' = [routes EXCEPT ![d] = v]
  <2>1. CASE LoseRoute(d)
    BY <2>1 DEF LoseRoute
  <2>2. ASSUME NEW i \in Iface, RecvAodv(i, d)
        PROVE  first[i] \in InUse \cup {NoAddr} /\ routes' = [routes EXCEPT ![d] = first[i]]
    BY <2>2 DEF RecvAodv, InUse, TypeOK, Sockets, Placed
  <2> QED
    BY <2>1, <2>2
<1>2. UNCHANGED <<up, first, others, uni, bcast, closed, record, hello, feedback,
                  arp, changes>>
  BY DEF LoseRoute, RecvAodv
<1>3. InUse' = InUse /\ InUse \subseteq Addr
  BY <1>2 DEF InUse
<1>4. TypeOK'
  BY <1>1, <1>2, <1>3 DEF TypeOK
<1>5. Sockets'
  BY <1>2, <1>3 DEF Sockets, Placed, UnicastSocketPerInterface, BroadcastsReceived
<1>6. Tables'
  BY <1>1, <1>2, <1>3 DEF Tables, RoutesHaveSockets, RecordsInUse, BroadcastRecords,
     TypeOK, Sockets, UnicastSocketPerInterface
<1>7. FeedbackWhileUp'
  BY <1>2 DEF FeedbackWhileUp
<1> QED
  BY <1>4, <1>5, <1>6, <1>7

-----------------------------------------------------------------------------
(* What a step takes with it.                                              *)

\* Of an address a that was in use, Leaving takes the routes and, if no other
\* address is in use, the hello timer.
LEMMA LeavingIsLocal ==
  ASSUME InterfaceAssumption, Inv, NEW a \in InUse,
         Leaving(a, [uni EXCEPT ![a] = @ - 1])
  PROVE  /\ \A d \in Dest : routes[d] \in InUse \ {a} => routes'[d] = routes[d]
         /\ hello' = (hello /\ InUse \ {a} # {})
<1> DEFINE u == [uni EXCEPT ![a] = @ - 1]
<1> USE DEF Inv
<1>1. a \in Addr /\ InUse \subseteq Addr
  BY DEF InUse
<1>2. \A b \in Addr : u[b] = IF b \in InUse \ {a} THEN 1 ELSE 0
  BY <1>1 DEF TypeOK, Sockets, UnicastSocketPerInterface
<1>3. Alone(u) <=> InUse \ {a} = {}
  <2>1. InUse \ {a} = {} <=> \A b \in Addr : b \notin InUse \ {a}
    BY <1>1
  <2> HIDE DEF u
  <2>2. \A b \in Addr : u[b] = 0 <=> b \notin InUse \ {a}
    BY <1>2
  <2>3. (\A b \in Addr : u[b] = 0) <=> (\A b \in Addr : b \notin InUse \ {a})
    BY <2>2, Zenon
  <2> QED
    BY <2>1, <2>3, Zenon DEF Alone
<1>4. ASSUME NEW d \in Dest, routes[d] \in InUse \ {a}
      PROVE  routes'[d] = routes[d]
  <2>1. routes' = WithoutRoutes(routes, a)
    BY <1>3, <1>4 DEF Leaving
  <2> QED
    BY <1>4, <2>1 DEF WithoutRoutes, TypeOK
<1>5. hello' = (hello /\ InUse \ {a} # {})
  <2>1. hello' = (hello /\ ~Alone(u))
    BY DEF Leaving
  <2> HIDE DEF u
  <2> QED
    BY <1>3, <2>1, Zenon
<1> QED
  BY <1>4, <1>5

\* A step of the protocol takes the routes of what leaves, and the hello timer
\* with the last address in use.
LEMMA StepIsLocal ==
  ASSUME InterfaceAssumption, Inv, [Next]_ifVars, InUse' # InUse
  PROVE  /\ \A d \in Dest : routes[d] \in InUse \cap InUse' => routes'[d] = routes[d]
         /\ hello' = (hello /\ (InUse = {} \/ InUse' # {}))
<1> DEFINE Local == /\ \A d \in Dest : routes[d] \in InUse \cap InUse' => routes'[d] = routes[d]
                    /\ hello' = (hello /\ (InUse = {} \/ InUse' # {}))
<1>1. NoAddr \notin Addr /\ InUse \subseteq Addr /\ hello \in BOOLEAN
  BY DEF InterfaceAssumption, InUse, Inv, TypeOK
<1>2. ASSUME NEW i \in Iface, NotifyInterfaceUp(i)
      PROVE  Local
  <2>1. UNCHANGED <<routes, hello>>
    BY <1>2 DEF NotifyInterfaceUp
  <2>2. InUse \subseteq InUse'
    BY <1>2 DEF NotifyInterfaceUp, InUse
  <2> QED
    BY <1>1, <2>1, <2>2
<1>3. ASSUME NEW i \in Iface, NotifyInterfaceDown(i)
      PROVE  Local
  <2> DEFINE a == first[i]
  <2>1. a \in InUse
    BY <1>1, <1>3 DEF NotifyInterfaceDown, InUse, Inv, TypeOK, Sockets, Placed
  <2>2. InUse' = InUse \ {a}
    <3>1. up' = up \ {i} /\ first' = first /\ Home[a] = i
      BY <1>3, <2>1 DEF NotifyInterfaceDown, Inv, Sockets, Placed
    <3> QED
      BY <3>1 DEF InUse
  <2>3. Leaving(a, [uni EXCEPT ![a] = @ - 1])
    BY <1>3 DEF NotifyInterfaceDown
  <2> HIDE DEF a
  <2>4. /\ \A d \in Dest : routes[d] \in InUse \ {a} => routes'[d] = routes[d]
        /\ hello' = (hello /\ InUse \ {a} # {})
    BY <2>1, <2>3, LeavingIsLocal
  <2> QED
    BY <2>1, <2>2, <2>4
<1>4. ASSUME NEW a \in Addr, NotifyAddAddress(a)
      PROVE  Local
  <2>1. UNCHANGED <<routes, hello>>
    BY <1>4 DEF NotifyAddAddress
  <2>2. InUse \subseteq InUse'
    BY <1>1, <1>4 DEF NotifyAddAddress, Added, InUse, Inv, TypeOK, InterfaceAssumption
  <2> QED
    BY <1>1, <2>1, <2>2
<1>5. ASSUME NEW a \in Addr, NotifyRemoveAddress(a)
      PROVE  Local
  <2> DEFINE i == Home[a]
  <2>1. Inv'
    BY <1>5, RemoveKeeps
  <2>2. CASE uni[a] = 0
    <3>1. UNCHANGED <<routes, hello, uni>>
      BY <1>5, <2>2 DEF NotifyRemoveAddress
    <3>2. InUse' \subseteq Addr
      BY DEF InUse
    <3>3. InUse' = InUse
      BY <1>1, <2>1, <3>1, <3>2 DEF Inv, Sockets, UnicastSocketPerInterface
    <3> QED
      BY <3>3
  <2>3. CASE uni[a] # 0
    <3>1. a \in InUse /\ first[i] = a /\ i \in up /\ i \in Iface /\ uni[a] > 0
      BY <2>3 DEF Inv, TypeOK, Sockets, UnicastSocketPerInterface, InUse, InterfaceAssumption
    <3>2. up' = up /\ \A j \in Iface \ {i} : first'[j] = first[j]
      BY <1>5, <3>1 DEF NotifyRemoveAddress, Removed, Inv, TypeOK
    <3>3. first'[i] # a
      BY <1>1, <1>5, <3>1 DEF NotifyRemoveAddress, Removed, Inv, TypeOK, Sockets, Placed
    <3>4. InUse \ {a} \subseteq InUse' /\ a \notin InUse'
      BY <3>1, <3>2, <3>3 DEF InUse, InterfaceAssumption
    <3>5. CASE first'[i] # NoAddr
      <4>1. routes' = WithoutRoutes(routes, a) /\ hello' = hello
        BY <1>5, <3>1, <3>5 DEF NotifyRemoveAddress, Replaced
      <4>2. first'[i] \in Addr /\ Home[first'[i]] = i
        BY <2>1, <3>1, <3>5 DEF Inv, TypeOK, Sockets, Placed
      <4>3. InUse' # {}
        BY <3>1, <3>2, <4>2 DEF InUse
      <4>4. \A d \in Dest : routes[d] # a => routes'[d] = routes[d]
        BY <4>1 DEF WithoutRoutes, Inv, TypeOK
      <4> QED
        BY <1>1, <3>4, <4>1, <4>3, <4>4
    <3>6. CASE first'[i] = NoAddr
      <4>1. Leaving(a, [uni EXCEPT ![a] = @ - 1])
        BY <1>5, <3>1, <3>6 DEF NotifyRemoveAddress
      <4>2. InUse' = InUse \ {a}
        BY <1>1, <3>1, <3>2, <3>6 DEF InUse, InterfaceAssumption
      <4>3. /\ \A d \in Dest : routes[d] \in InUse \ {a} => routes'[d] = routes[d]
            /\ hello' = (hello /\ InUse \ {a} # {})
        BY <3>1, <4>1, LeavingIsLocal
      <4> QED
        BY <3>1, <4>2, <4>3
    <3> QED
      BY <3>5, <3>6
  <2> QED
    BY <2>2, <2>3
\* Traffic, and steps of others, leave InUse as it is.
<1>6. CASE UNCHANGED <<up, first>>
  BY <1>6 DEF InUse
<1> QED
  BY <1>2, <1>3, <1>4, <1>5, <1>6 DEF Next, LoseRoute, RecvAodv, ifVars

-----------------------------------------------------------------------------
(* The theorems.                                                           *)

LEMMA InitInv == ASSUME InterfaceAssumption, Init PROVE Inv
<1>1. InUse = {} /\ NoAddr \notin Addr
  BY DEF Init, InUse, InterfaceAssumption
<1>2. TypeOK
  <2>1. hello \in BOOLEAN
    BY DEF Init
  <2>2. /\ feedback \in [Iface -> Nat] /\ arp \in [Iface -> Nat]
        /\ up \subseteq Iface /\ others \subseteq Addr
        /\ changes \in 0 .. MaxChanges
    BY DEF Init, InterfaceAssumption
  <2>3. /\ first \in [Iface -> Addr \cup {NoAddr}]
        /\ record \in [{Subnet[a] : a \in Addr} -> Addr \cup {NoAddr}]
        /\ routes \in [Dest -> Addr \cup {NoAddr}]
    BY DEF Init
  <2>4. uni \in [Addr -> 0 .. 1] /\ bcast \in [Addr -> Nat] /\ closed \in [Addr -> Nat]
    BY DEF Init
  <2> QED
    BY <2>1, <2>2, <2>3, <2>4 DEF TypeOK
<1>3. Sockets
  BY <1>1 DEF Init, Sockets, Placed, UnicastSocketPerInterface, BroadcastsReceived
<1>4. Tables
  BY <1>1 DEF Init, Tables, RoutesHaveSockets, RecordsInUse, BroadcastRecords, Subnets
<1>5. FeedbackWhileUp
  BY DEF Init, FeedbackWhileUp, InterfaceAssumption
<1> QED
  BY <1>2, <1>3, <1>4, <1>5 DEF Inv

LEMMA InvKept == ASSUME InterfaceAssumption, Inv, [Next]_ifVars PROVE Inv'
<1>1. CASE UNCHANGED ifVars
  BY <1>1 DEF ifVars, Inv, TypeOK, Sockets, Placed, UnicastSocketPerInterface,
     BroadcastsReceived, Tables, RoutesHaveSockets, RecordsInUse, BroadcastRecords,
     FeedbackWhileUp, InUse
<1>2. CASE Next
  BY <1>2, UpKeeps, DownKeeps, AddKeeps, RemoveKeeps, TrafficKeeps DEF Next
<1> QED
  BY <1>1, <1>2

\* Inv holds at any time, for any interfaces, addresses and number of changes.
LEMMA InvHolds == Spec => []Inv
<1>1. Init => Inv
  BY InterfaceAssumption, InitInv
<1>2. Inv /\ [Next]_ifVars => Inv'
  BY InterfaceAssumption, InvKept
<1> QED
  BY <1>1, <1>2, PTL DEF Spec

\* Every variable keeps its type; an address never has two unicast sockets.
THEOREM InterfacesTypeCorrect == Spec => []TypeOK
  BY InvHolds, PTL DEF Inv

\* The unicast sockets are those of the first addresses of the interfaces
\* that are up.
THEOREM SocketsFollowInterfaces == Spec => []UnicastSocketPerInterface
<1>1. Inv => UnicastSocketPerInterface
  BY DEF Inv, Sockets
<1> QED
  BY <1>1, InvHolds, PTL

\* The assertions on the socket of a route hold.
THEOREM EveryRouteHasSocket == Spec => []RoutesHaveSockets
<1>1. Inv => RoutesHaveSockets
  BY DEF Inv, Tables
<1> QED
  BY <1>1, InvHolds, PTL

\* An interface that is up has its broadcast record in the table.
THEOREM BroadcastsSent == Spec => []BroadcastRecords
<1>1. Inv => BroadcastRecords
  BY DEF Inv, Tables
<1> QED
  BY <1>1, InvHolds, PTL

\* An interface that is up has an open socket that listens to broadcasts,
\* although the map of those sockets keeps some that have been closed.
THEOREM BroadcastsHeard == Spec => []BroadcastsReceived
<1>1. Inv => BroadcastsReceived
  BY DEF Inv, Sockets
<1> QED
  BY <1>1, InvHolds, PTL

\* An interface or address that goes takes only its own routes with it, and the
\* last one in use the hello timer.
THEOREM GoingIsLocal == Spec => LossesAreLocal
<1>1. Inv /\ [Next]_ifVars =>
      [InUse' # InUse =>
         /\ \A d \in Dest : routes[d] \in InUse \cap InUse' => routes'[d] = routes[d]
         /\ hello' = (hello /\ (InUse = {} \/ InUse' # {}))]_ifVars
  BY InterfaceAssumption, StepIsLocal
<1> QED
  BY <1>1, InvHolds, PTL DEF Spec, LossesAreLocal

\* Layer 2 feedback is connected once for every ad hoc interface that is up.
THEOREM FeedbackOnce == Spec => []FeedbackWhileUp
<1>1. Inv => FeedbackWhileUp
  BY DEF Inv
<1> QED
  BY <1>1, InvHolds, PTL
=============================================================================
