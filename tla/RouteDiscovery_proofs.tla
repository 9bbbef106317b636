----------------------- MODULE RouteDiscovery_proofs -----------------------
(***************************************************************************)
(* Theorems about RouteDiscovery, for all values of its constants.         *)
(***************************************************************************)
EXTENDS RouteDiscovery, FiniteSetTheorems, WellFoundedInduction, TLAPS

-----------------------------------------------------------------------------
(* Type correctness of the operators.                                      *)

Table == [Dst -> Entry]

\* The entry without a route is an entry.
LEMMA NoRouteType == NoRoute \in Entry
  BY DiscoveryAssumption, RingAssumption, SeqModAssumption DEF NoRoute, Entry, RouteFlag, SeqNo

\* Update() and AddRoute() build tables from tables and entries.
LEMMA TableOps ==
  ASSUME NEW t \in Table, NEW d \in Dst, NEW e \in Entry
  PROVE  Update(t, d, e) \in Table /\ AddRoute(t, d, e) \in Table
<1>1. Settled(e) \in Entry
  BY DiscoveryAssumption, RingAssumption DEF Settled, Entry
<1> QED
  BY <1>1 DEF Update, AddRoute, Table

\* A fresh entry is an entry.
LEMMA ValidEntryType ==
  ASSUME NEW hop \in Nat, NEW known \in BOOLEAN, NEW seq \in SeqNo,
         NEW dev \in Dev \cup {AnyDev}
  PROVE  ValidEntry(hop, known, seq, dev) \in Entry
  BY DiscoveryAssumption, RingAssumption DEF ValidEntry, Entry, RouteFlag

\* The table after the update for the sender of a message.
LEMMA NeighborType ==
  ASSUME NEW t \in Table, NEW n, NEW dev \in Dev
  PROVE  UpdateRouteToNeighbor(t, n, dev) \in Table
<1>1. 0 \in SeqNo
  BY SeqModAssumption DEF SeqNo
<1>2. ValidEntry(1, FALSE, 0, dev) \in Entry
  BY <1>1, ValidEntryType
<1> QED
  BY <1>2, TableOps DEF UpdateRouteToNeighbor

\* Invalidating an entry keeps it an entry.
LEMMA InvalidatedType == \A e \in Entry : Invalidated(e) \in Entry
<1> SUFFICES ASSUME NEW e \in Entry PROVE Invalidated(e) \in Entry
  OBVIOUS
<1>1. 0 \in 0 .. CntMod - 1
  BY DiscoveryAssumption, RingAssumption
<1> QED
  BY <1>1 DEF Invalidated, Entry, RouteFlag

\* Invalidating routes keeps the table a table.
LEMMA InvalidateType ==
  ASSUME NEW t \in Table, NEW lost
  PROVE  InvalidateRoutesWithDst(t, lost) \in Table
  BY InvalidatedType DEF InvalidateRoutesWithDst, Table

\* An entry that goes under search stays an entry, and is under search.
LEMMA SearchingType ==
  ASSUME NEW e \in Entry
  PROVE  Searching(e) \in Entry /\ Searching(e).flag = "IN_SEARCH"
<1>1. NextTtl(e) \in Nat
  BY DiscoveryAssumption, RingAssumption DEF NextTtl, Entry, RouteFlag
<1>2. NextCnt(e) \in 0 .. CntMod - 1
  BY DiscoveryAssumption, RingAssumption DEF NextCnt, Bumped, Entry
<1> QED
  BY <1>1, <1>2 DEF Searching, Entry, RouteFlag

\* SendRequest keeps the types, keeps the timers it is given, touches no
\* other destination, and leaves a timer or a deferred call for its own.
LEMMA SendRequestStep ==
  ASSUME TypeOK, NEW d \in Dst, NEW timers \in SUBSET Dst,
         SendRequest(d, timers)
  PROVE  /\ tbl' \in Table
         /\ rreqCount' \in 0 .. RreqRateLimit
         /\ waiting' \in [Dst -> Nat]
         /\ running' \subseteq Dst /\ asked' \subseteq Dst
         /\ aborted' \in BOOLEAN
         /\ timers \subseteq running'
         /\ d \in running' \/ waiting'[d] > 0
         /\ \A x \in Dst : waiting'[x] >= waiting[x]
         /\ \A x \in Dst \ {d} : tbl'[x] = tbl[x]
<1> USE DEF Table
<1>1. CASE rreqCount = RreqRateLimit
  <2>1. /\ waiting' = [waiting EXCEPT ![d] = @ + 1]
        /\ running' = timers
        /\ UNCHANGED <<tbl, rreqCount, asked, aborted>>
    BY <1>1 DEF SendRequest
  <2> QED
    BY <2>1 DEF TypeOK
<1>2. CASE rreqCount # RreqRateLimit
  <2> DEFINE e == Searching(tbl[d])
  <2>1. e \in Entry
    BY SearchingType DEF TypeOK
  <2>2. /\ rreqCount' = rreqCount + 1
        /\ tbl' = [tbl EXCEPT ![d] = e]
        /\ asked' = IF up = {} THEN asked ELSE asked \cup {d}
        /\ running' = timers \cup {d}
        /\ aborted' = (aborted \/ (e.hop >= NetDiameter /\ e.cnt = 0))
        /\ UNCHANGED waiting
    BY <1>2 DEF SendRequest
  <2> HIDE DEF e
  <2>3. rreqCount' \in 0 .. RreqRateLimit
    BY <1>2, <2>2, DiscoveryAssumption, RingAssumption DEF TypeOK
  <2>4. tbl' \in Table
    BY <2>1, <2>2 DEF TypeOK
  <2>5. aborted' \in BOOLEAN
    BY <2>2
  <2>6. /\ waiting' \in [Dst -> Nat]
        /\ \A x \in Dst : waiting'[x] >= waiting[x]
    BY <2>2 DEF TypeOK
  <2>7. \A x \in Dst \ {d} : tbl'[x] = tbl[x]
    BY <2>2 DEF TypeOK
  <2> QED
    BY <2>2, <2>3, <2>4, <2>5, <2>6, <2>7 DEF TypeOK
<1> QED
  BY <1>1, <1>2

\* The operators that move packets yield places.
LEMMA MoveType ==
  ASSUME NEW a \in [Packet -> Place], NEW S, NEW place \in Place
  PROVE  Move(a, S, place) \in [Packet -> Place]
  BY DEF Move

LEMMA ReleasedType ==
  ASSUME NEW a \in [Packet -> Place], NEW d, NEW dev
  PROVE  Released(a, d, dev) \in [Packet -> Place]
  BY DEF Released, Place

LEMMA EnqueuedType ==
  ASSUME at \in [Packet -> Place], NEW p \in Packet, NEW stale
  PROVE  Enqueued(p, stale) \in [Packet -> Place]
<1>1. "error" \in Place /\ "queue" \in Place
  BY DEF Place
<1> DEFINE left   == In("queue") \ stale
           victim == IF Cardinality(left) >= MaxQueueLen
                     THEN {v \in left : \A q \in left : v <= q} ELSE {}
<1>2. Move(at, stale \cup victim, "error") \in [Packet -> Place]
  BY <1>1, MoveType
<1>3. Enqueued(p, stale)
        = [Move(at, stale \cup victim, "error") EXCEPT ![p] = "queue"]
  BY DEF Enqueued
<1> HIDE DEF victim
<1> QED
  BY <1>1, <1>2, <1>3

\* What RecvReply and RecvRequest make of the table, as named in the module.
LEMMA HandlerTypes ==
  ASSUME NEW t \in Table, NEW d \in Dst, NEW hop \in Hops,
         NEW seq \in ReplySeqs, NEW dev \in Dev
  PROVE  /\ ValidEntry(hop, TRUE, seq, dev) \in Entry
         /\ ValidEntry(1, TRUE, seq, dev) \in Entry
         /\ ValidEntry(1, FALSE, seq, dev) \in Entry
         /\ [t[d] EXCEPT !.known = TRUE, !.dev = dev, !.hop = hop,
                         !.seq = IF t[d].known /\ ~Newer(seq, @)
                                 THEN @ ELSE seq] \in Entry
         /\ [t[d] EXCEPT !.flag = "VALID"] \in Entry
<1>1. hop \in Nat /\ seq \in SeqNo /\ dev \in Dev \cup {AnyDev}
  BY DiscoveryAssumption, RingAssumption
<1>2. t[d] \in Entry
  BY DEF Table
<1>3. /\ ValidEntry(hop, TRUE, seq, dev) \in Entry
      /\ ValidEntry(1, TRUE, seq, dev) \in Entry
      /\ ValidEntry(1, FALSE, seq, dev) \in Entry
  BY <1>1, ValidEntryType
<1>4. [t[d] EXCEPT !.flag = "VALID"] \in Entry
  BY <1>2 DEF Entry, RouteFlag
<1>5. ASSUME NEW s \in SeqNo
      PROVE  [t[d] EXCEPT !.known = TRUE, !.dev = dev, !.hop = hop,
                          !.seq = s] \in Entry
  BY <1>1, <1>2 DEF Entry
<1>6. t[d].seq \in SeqNo
  BY <1>2 DEF Entry
<1> QED
  BY <1>1, <1>3, <1>4, <1>5, <1>6

\* The environment's budget stays in its range.
LEMMA EventType ==
  ASSUME TypeOK, Event
  PROVE  budget' \in 0 .. MaxEvents
  BY DiscoveryAssumption, RingAssumption DEF TypeOK, Event

-----------------------------------------------------------------------------
(* Type correctness.                                                       *)

THEOREM TypeCorrect == Spec => []TypeOK
<1>1. Init => TypeOK
  <2> SUFFICES ASSUME Init PROVE TypeOK
    OBVIOUS
  <2>1. rreqCount \in 0 .. RreqRateLimit /\ budget \in 0 .. MaxEvents
    BY DiscoveryAssumption, RingAssumption DEF Init
  <2>2. tbl \in [Dst -> Entry]
    BY NoRouteType DEF Init
  <2>3. waiting \in [Dst -> Nat] /\ due \in [Dst -> Nat]
    BY DEF Init
  <2>4. at \in [Packet -> Place]
    BY DEF Init, Place
  <2> QED
    BY <2>1, <2>2, <2>3, <2>4 DEF Init, TypeOK
<1>2. TypeOK /\ [Next]_vars => TypeOK'
  <2> SUFFICES ASSUME TypeOK, [Next]_vars PROVE TypeOK'
    OBVIOUS
  <2> USE DEF Table
  <2>1. CASE RouteOutput \/ RefusedRouteInput
    BY <2>1 DEF RouteOutput, RefusedRouteInput, others, TypeOK, Place, In
  <2>2. CASE DeferredRouteOutput
    <3>1. PICK p \in In("loop"), stale \in Stale :
            /\ at' = Enqueued(p, stale)
            /\ IF InSearch(tbl, load[p].dst)
               THEN UNCHANGED <<tbl, running, rreqCount, waiting, asked,
                                aborted>>
               ELSE SendRequest(load[p].dst, running)
            /\ UNCHANGED <<load, due, up, budget>>
      BY <2>2 DEF DeferredRouteOutput
    <3>2. p \in Packet /\ load[p].dst \in Dst
      BY DEF In, TypeOK
    <3>3. at' \in [Packet -> Place]
      BY <3>1, <3>2, EnqueuedType DEF TypeOK
    <3>4. CASE InSearch(tbl, load[p].dst)
      BY <3>1, <3>3, <3>4 DEF TypeOK
    <3>5. CASE SendRequest(load[p].dst, running)
      <4>1. running \in SUBSET Dst
        BY DEF TypeOK
      <4> QED
        BY <3>1, <3>2, <3>3, <3>5, <4>1, SendRequestStep DEF TypeOK
    <3> QED
      BY <3>1, <3>4, <3>5
  <2>3. CASE RreqRateLimitTimerExpire
    BY <2>3, DiscoveryAssumption, RingAssumption DEF RreqRateLimitTimerExpire, TypeOK
  <2>4. ASSUME NEW d \in Dst, RouteRequestTimerExpire(d) PROVE TypeOK'
    <3>0. UNCHANGED <<due, load, up, budget>>
      BY <2>4 DEF RouteRequestTimerExpire
    <3>1. CASE /\ \E stale \in Stale :
                    at' = Released(Move(at, stale, "error"), d, tbl[d].dev)
               /\ running' = running \ {d}
               /\ UNCHANGED <<tbl, rreqCount, waiting, asked, aborted>>
      <4>1. at' \in [Packet -> Place]
        <5>1. "error" \in Place
          BY DEF Place
        <5> QED
          BY <3>1, <5>1, MoveType, ReleasedType DEF TypeOK
      <4> QED
        BY <3>0, <3>1, <4>1 DEF TypeOK
    <3>2. CASE running' = running \ {d} /\ GiveUp(d)
      <4>1. at' \in [Packet -> Place]
        <5>1. "error" \in Place
          BY DEF Place
        <5> QED
          BY <3>2, <5>1, MoveType DEF TypeOK, GiveUp
      <4>2. tbl' \in [Dst -> Entry]
        BY <3>2, NoRouteType DEF GiveUp, TypeOK
      <4> QED
        BY <3>0, <3>2, <4>1, <4>2 DEF TypeOK, GiveUp
    <3>3. CASE SendRequest(d, running \ {d}) /\ UNCHANGED at
      <4>1. running \ {d} \in SUBSET Dst
        BY DEF TypeOK
      <4> QED
        BY <3>0, <3>3, <4>1, SendRequestStep DEF TypeOK
    <3> QED
      BY <2>4, <3>1, <3>2, <3>3 DEF RouteRequestTimerExpire
  <2>5. ASSUME NEW d \in Dst, DeferredRequest(d) PROVE TypeOK'
    <3>1. running \in SUBSET Dst /\ due' \in [Dst -> Nat]
      BY <2>5 DEF TypeOK, DeferredRequest
    <3> QED
      BY <2>5, <3>1, SendRequestStep DEF TypeOK, DeferredRequest
  <2>6. CASE Receive
    <3>0. ASSUME NEW dev, NEW t \in Table, TableMessage(dev, t) PROVE TypeOK'
      BY <3>0, EventType DEF TableMessage, Arrival, TypeOK, Table
    <3>1. ASSUME NEW d \in Dst, NEW n, NEW mine \in BOOLEAN, NEW hop \in Hops,
                 NEW seq \in ReplySeqs, NEW dev \in Dev,
                 RecvReply(d, n, mine, hop, seq, dev)
          PROVE  TypeOK'
      <4> DEFINE t1  == UpdateRouteToNeighbor(tbl, n, dev)
                 new == ValidEntry(hop, TRUE, seq, dev)
                 t2  == IF ~Present(t1, d) THEN AddRoute(t1, d, new)
                        ELSE IF Better(t1[d], hop, seq)
                             THEN Update(t1, d, new) ELSE t1
                 ended == mine /\ InSearch(t1, d)
      <4>1. t1 \in Table /\ new \in Entry
        BY NeighborType, HandlerTypes DEF TypeOK
      <4>2. t2 \in Table /\ Update(t2, d, new) \in Table
        <5> HIDE DEF t1, new
        <5>1. t2 \in Table
          BY <4>1, TableOps
        <5> QED
          BY <4>1, <5>1, TableOps
      <4>3. /\ tbl' = IF ended THEN Update(t2, d, new) ELSE t2
            /\ running' = IF ended THEN running \ {d} ELSE running
            /\ IF mine
               THEN \E stale \in Stale : at' =
                      Released(Move(at, stale, "error"), d, tbl'[d].dev)
               ELSE UNCHANGED at
            /\ UNCHANGED <<rreqCount, waiting, due, load, up, asked, aborted>>
            /\ budget' \in 0 .. MaxEvents
        BY <3>1, EventType DEF RecvReply, Arrival
      <4> HIDE DEF t2, new, ended
      <4>4. at' \in [Packet -> Place]
        <5>1. "error" \in Place
          BY DEF Place
        <5> QED
          BY <4>3, <5>1, MoveType, ReleasedType DEF TypeOK
      <4>5. tbl' \in Table /\ running' \subseteq Dst
        BY <4>2, <4>3 DEF TypeOK
      <4> QED
        BY <4>3, <4>4, <4>5 DEF TypeOK
    <3>2. ASSUME NEW d \in Dst, NEW n, NEW hop \in Hops,
                 NEW seq \in ReplySeqs, NEW dev \in Dev,
                 RecvRequest(d, n, hop, seq, dev)
          PROVE  TypeOK'
      <4> DEFINE t1   == UpdateRouteToNeighbor(tbl, n, dev)
                 e    == t1[d]
                 rev  == [e EXCEPT !.known = TRUE, !.dev = dev, !.hop = hop,
                                   !.seq = IF e.known /\ ~Newer(seq, @)
                                           THEN @ ELSE seq]
                 new  == ValidEntry(hop, TRUE, seq, dev)
                 t2   == IF Present(t1, d) THEN Update(t1, d, rev)
                         ELSE AddRoute(t1, d, new)
                 prev == ValidEntry(1, FALSE, seq, dev)
                 t3   == IF n \in Dst THEN Update(t2, n, prev) ELSE t2
      <4>1. t1 \in Table
        BY NeighborType DEF TypeOK
      <4>2. rev \in Entry /\ new \in Entry /\ prev \in Entry
        <5> HIDE DEF t1
        <5> QED
          BY <4>1, HandlerTypes
      <4>3. TableMessage(dev, t3)
        BY <3>2 DEF RecvRequest
      <4>4. t3 \in Table
        <5> HIDE DEF t1, rev, new, prev
        <5>1. t2 \in Table
          BY <4>1, <4>2, TableOps
        <5> HIDE DEF t2
        <5> QED
          BY <4>2, <5>1, TableOps
      <4> HIDE DEF t3
      <4> QED
        BY <3>0, <4>3, <4>4
    <3>3. ASSUME NEW n, NEW lost, NEW dev \in Dev, RecvError(n, lost, dev)
          PROVE  TypeOK'
      BY <3>0, <3>3, NeighborType, InvalidateType DEF RecvError, TypeOK
    <3>4. ASSUME NEW n \in Dst, NEW dev \in Dev,
                 \/ \E seq \in ReplySeqs : ProcessHello(n, seq, dev)
                 \/ RecvReplyAck(n, dev)
          PROVE  TypeOK'
      <4> DEFINE t == UpdateRouteToNeighbor(tbl, n, dev)
      <4>1. t \in Table
        BY NeighborType DEF TypeOK
      <4>2. ASSUME NEW seq \in ReplySeqs, ProcessHello(n, seq, dev)
            PROVE  TypeOK'
        <5>1. ValidEntry(1, TRUE, seq, dev) \in Entry
          BY ValidEntryType, DiscoveryAssumption, RingAssumption
        <5> QED
          BY <3>0, <4>1, <4>2, <5>1, TableOps DEF ProcessHello
      <4>3. CASE RecvReplyAck(n, dev)
        <5> HIDE DEF t
        <5>1. [t[n] EXCEPT !.flag = "VALID"] \in Entry
          BY <4>1 DEF Entry, RouteFlag
        <5>2. TableMessage(dev, Update(t, n, [t[n] EXCEPT !.flag = "VALID"]))
          BY <4>3 DEF RecvReplyAck, t
        <5> QED
          BY <3>0, <4>1, <5>1, <5>2, TableOps
      <4> QED
        BY <3>4, <4>2, <4>3
    <3> QED
      BY <2>6, <3>1, <3>2, <3>3, <3>4 DEF Receive
  <2>7. CASE Failure
    <3>1. ASSUME NEW lost, LinkBreaks(lost) PROVE TypeOK'
      BY <3>1, EventType, InvalidateType DEF LinkBreaks, TypeOK
    <3>2. ASSUME NEW d \in Dst, Expire(d) PROVE TypeOK'
      <4>1. tbl' \in [Dst -> Entry]
        BY <3>2, InvalidatedType, NoRouteType DEF Expire, TypeOK
      <4> QED
        BY <3>2, <4>1, EventType DEF Expire, TypeOK
    <3>3. ASSUME NEW dev \in Dev,
                 NotifyInterfaceDown(dev) \/ NotifyInterfaceUp(dev)
          PROVE  TypeOK'
      BY <3>3, EventType, NoRouteType
      DEF NotifyInterfaceDown, NotifyInterfaceUp, TypeOK
    <3> QED
      BY <2>7, <3>1, <3>2, <3>3 DEF Failure
  <2>8. CASE UNCHANGED vars
    BY <2>8 DEF vars, TypeOK
  <2> QED
    BY <2>1, <2>2, <2>3, <2>4, <2>5, <2>6, <2>7, <2>8 DEF Next
<1> QED
  BY <1>1, <1>2, PTL DEF Spec

-----------------------------------------------------------------------------
(* Searches are supervised.                                                *)

\* u has no search that t does not have.
NoNewSearch(t, u) == \A x \in Dst : InSearch(u, x) => InSearch(t, x)

\* Update and AddRoute start no search unless the entry given does.
LEMMA TableOpsQuiet ==
  ASSUME NEW t \in Table, NEW d \in Dst, NEW e \in Entry,
         e.flag = "IN_SEARCH" => InSearch(t, d)
  PROVE  NoNewSearch(t, Update(t, d, e)) /\ NoNewSearch(t, AddRoute(t, d, e))
<1>1. Settled(e) \in Entry /\ Settled(e).flag = e.flag
  BY DiscoveryAssumption, RingAssumption DEF Settled, Entry
<1> QED
  BY <1>1 DEF Update, AddRoute, Table, NoNewSearch, InSearch

\* Nor does the update for the sender of a message.
LEMMA NeighborQuiet ==
  ASSUME NEW t \in Table, NEW n, NEW dev \in Dev
  PROVE  NoNewSearch(t, UpdateRouteToNeighbor(t, n, dev))
<1> DEFINE fresh == ValidEntry(1, FALSE, 0, dev)
<1>1. 0 \in SeqNo
  BY SeqModAssumption DEF SeqNo
<1>2. fresh \in Entry /\ fresh.flag # "IN_SEARCH"
  BY <1>1, ValidEntryType DEF ValidEntry
<1> HIDE DEF fresh
<1>3. ASSUME n \in Dst
      PROVE  /\ NoNewSearch(t, Update(t, n, fresh))
             /\ NoNewSearch(t, AddRoute(t, n, fresh))
  BY <1>2, <1>3, TableOpsQuiet
<1>4. NoNewSearch(t, t)
  BY DEF NoNewSearch
<1>5. UpdateRouteToNeighbor(t, n, dev)
        \in {t} \cup (IF n \in Dst THEN {Update(t, n, fresh), AddRoute(t, n, fresh)}
                      ELSE {})
  BY DEF UpdateRouteToNeighbor, fresh
<1> QED
  BY <1>3, <1>4, <1>5

\* A step that neither moves packets nor touches timers nor starts a search.
Quiet ==
  /\ UNCHANGED <<running, waiting, due, at, load>>
  /\ NoNewSearch(tbl, tbl')

\* The handlers of messages other than replies, and all failures, are quiet.
LEMMA ReceiveQuiet ==
  ASSUME TypeOK, NEW n, NEW dev \in Dev
  PROVE  /\ \A lost : RecvError(n, lost, dev) => Quiet
         /\ \A d \in Dst, hop \in Hops, seq \in ReplySeqs :
              RecvRequest(d, n, hop, seq, dev) => Quiet
         /\ n \in Dst =>
              /\ \A seq \in ReplySeqs : ProcessHello(n, seq, dev) => Quiet
              /\ RecvReplyAck(n, dev) => Quiet
<1> DEFINE t1 == UpdateRouteToNeighbor(tbl, n, dev)
<1>1. tbl \in Table
  BY DEF TypeOK, Table
<1>2. t1 \in Table /\ NoNewSearch(tbl, t1)
  BY <1>1, NeighborType, NeighborQuiet
<1>3. ASSUME NEW t, NoNewSearch(t1, t), TableMessage(dev, t) PROVE Quiet
  BY <1>2, <1>3 DEF TableMessage, Quiet, NoNewSearch
<1>4. ASSUME NEW lost, RecvError(n, lost, dev) PROVE Quiet
  <2>1. NoNewSearch(t1, InvalidateRoutesWithDst(t1, lost))
    <3> HIDE DEF t1
    <3> QED
      BY <1>2 DEF NoNewSearch, InvalidateRoutesWithDst, Invalidated, InSearch,
                  Table, Entry
  <2> QED
    BY <1>3, <1>4, <2>1 DEF RecvError
<1>5. ASSUME NEW d \in Dst, NEW hop \in Hops, NEW seq \in ReplySeqs,
             RecvRequest(d, n, hop, seq, dev)
      PROVE  Quiet
  <2> DEFINE e    == t1[d]
             rev  == [e EXCEPT !.known = TRUE, !.dev = dev, !.hop = hop,
                               !.seq = IF e.known /\ ~Newer(seq, @)
                                       THEN @ ELSE seq]
             new  == ValidEntry(hop, TRUE, seq, dev)
             t2   == IF Present(t1, d) THEN Update(t1, d, rev)
                     ELSE AddRoute(t1, d, new)
             prev == ValidEntry(1, FALSE, seq, dev)
             t3   == IF n \in Dst THEN Update(t2, n, prev) ELSE t2
  <2>1. TableMessage(dev, t3)
    BY <1>5 DEF RecvRequest
  <2>2. rev \in Entry /\ new \in Entry /\ prev \in Entry
    <3> HIDE DEF t1
    <3> QED
      BY <1>2, HandlerTypes
  <2>3. rev.flag = t1[d].flag /\ new.flag = "VALID" /\ prev.flag = "VALID"
    <3> HIDE DEF t1
    <3>1. t1[d] \in Entry
      BY <1>2 DEF Table
    <3> QED
      BY <3>1 DEF ValidEntry, Entry
  <2>4. t2 \in Table /\ NoNewSearch(t1, t2)
    <3> HIDE DEF t1, rev, new, prev
    <3> QED
      BY <1>2, <2>2, <2>3, TableOps, TableOpsQuiet DEF InSearch
  <2>5. NoNewSearch(t1, t3)
    <3> HIDE DEF t1, rev, new, prev, t2
    <3>1. ASSUME n \in Dst PROVE NoNewSearch(t2, Update(t2, n, prev))
      BY <2>2, <2>3, <2>4, <3>1, TableOpsQuiet
    <3> QED
      BY <2>4, <3>1 DEF NoNewSearch
  <2> HIDE DEF t3
  <2> QED
    BY <1>3, <2>1, <2>5
<1>6. ASSUME n \in Dst, NEW seq \in ReplySeqs, ProcessHello(n, seq, dev)
      PROVE  Quiet
  <2>1. /\ ValidEntry(1, TRUE, seq, dev) \in Entry
        /\ ValidEntry(1, TRUE, seq, dev).flag # "IN_SEARCH"
    BY ValidEntryType, DiscoveryAssumption, RingAssumption DEF ValidEntry
  <2>2. NoNewSearch(t1, Update(t1, n, ValidEntry(1, TRUE, seq, dev)))
    BY <1>2, <1>6, <2>1, TableOpsQuiet
  <2> QED
    BY <1>3, <1>6, <2>2 DEF ProcessHello
<1>7. ASSUME n \in Dst, RecvReplyAck(n, dev) PROVE Quiet
  <2> DEFINE e == [t1[n] EXCEPT !.flag = "VALID"]
  <2>1. e \in Entry /\ e.flag # "IN_SEARCH"
    <3> HIDE DEF t1
    <3> QED
      BY <1>2, <1>7 DEF Entry, RouteFlag, Table
  <2>2. TableMessage(dev, Update(t1, n, e))
    BY <1>7 DEF RecvReplyAck
  <2> HIDE DEF e
  <2>3. NoNewSearch(t1, Update(t1, n, e))
    BY <1>2, <1>7, <2>1, TableOpsQuiet
  <2> QED
    BY <1>3, <2>2, <2>3
<1> QED
  BY <1>4, <1>5, <1>6, <1>7

LEMMA FailureQuiet == TypeOK /\ Failure => Quiet
<1> SUFFICES ASSUME TypeOK, Failure PROVE Quiet
  OBVIOUS
<1>1. ASSUME NEW lost, LinkBreaks(lost) PROVE Quiet
  BY <1>1 DEF LinkBreaks, InvalidateRoutesWithDst, Invalidated, Quiet,
              NoNewSearch, InSearch, TypeOK, Entry
<1>2. ASSUME NEW d \in Dst, Expire(d) PROVE Quiet
  <2>1. Invalidated(tbl[d]).flag = "INVALID" /\ NoRoute.flag = "ABSENT"
    BY DEF Invalidated, NoRoute, TypeOK, Entry
  <2> QED
    BY <1>2, <2>1 DEF Expire, Quiet, NoNewSearch, InSearch, TypeOK
<1>3. ASSUME NEW dev, NotifyInterfaceDown(dev) PROVE Quiet
  BY <1>3 DEF NotifyInterfaceDown, NoRoute, Quiet, NoNewSearch, InSearch, TypeOK
<1>4. ASSUME NEW dev, NotifyInterfaceUp(dev) PROVE Quiet
  BY <1>4 DEF NotifyInterfaceUp, Quiet, NoNewSearch
<1> QED
  BY <1>1, <1>2, <1>3, <1>4 DEF Failure

\* A reply stops at most the timer of its destination, and then that
\* destination is no longer under search.
LEMMA ReplyStep ==
  ASSUME TypeOK, NEW d \in Dst, NEW n, NEW mine \in BOOLEAN,
         NEW hop \in Hops, NEW seq \in ReplySeqs, NEW dev \in Dev,
         RecvReply(d, n, mine, hop, seq, dev)
  PROVE  /\ NoNewSearch(tbl, tbl')
         /\ UNCHANGED <<waiting, due, load>>
         /\ running \ {d} \subseteq running'
         /\ d \notin running' => d \notin running \/ ~InSearch(tbl', d)
         /\ IF mine THEN \E stale \in Stale :
                         at' = Released(Move(at, stale, "error"), d, tbl'[d].dev)
            ELSE UNCHANGED <<at, running>>
<1> DEFINE t1  == UpdateRouteToNeighbor(tbl, n, dev)
           new == ValidEntry(hop, TRUE, seq, dev)
           t2  == IF ~Present(t1, d) THEN AddRoute(t1, d, new)
                  ELSE IF Better(t1[d], hop, seq)
                       THEN Update(t1, d, new) ELSE t1
           ended == mine /\ InSearch(t1, d)
           t3  == Update(t2, d, new)
<1>1. t1 \in Table /\ NoNewSearch(tbl, t1)
  BY NeighborType, NeighborQuiet DEF TypeOK, Table
<1>2. new \in Entry /\ new.flag = "VALID"
  BY ValidEntryType, DiscoveryAssumption, RingAssumption DEF ValidEntry
<1>3. t2 \in Table /\ NoNewSearch(t1, t2) /\ (Present(t1, d) => Present(t2, d))
  <2> HIDE DEF t1, new
  <2>1. NoNewSearch(t1, t1)
    BY DEF NoNewSearch
  <2>2. Present(t1, d) => Present(Update(t1, d, new), d)
    BY <1>1, <1>2 DEF Present, Update, Settled, Table
  <2> QED
    BY <1>1, <1>2, <2>1, <2>2, TableOps, TableOpsQuiet
<1>4. /\ tbl' = IF ended THEN t3 ELSE t2
      /\ running' = IF ended THEN running \ {d} ELSE running
      /\ IF mine THEN \E stale \in Stale :
                      at' = Released(Move(at, stale, "error"), d, tbl'[d].dev)
         ELSE UNCHANGED at
      /\ UNCHANGED <<waiting, due, load>>
  BY DEF RecvReply
<1>5. NoNewSearch(t2, t3)
  <2> HIDE DEF t2, new
  <2> QED
    BY <1>2, <1>3, TableOpsQuiet
<1>6. NoNewSearch(tbl, tbl')
  <2> HIDE DEF t1, t2, t3, ended
  <2> QED
    BY <1>1, <1>3, <1>4, <1>5 DEF NoNewSearch
<1>7. ended => ~InSearch(t3, d)
  <2>1. ended => Present(t2, d)
    <3> HIDE DEF t1, t2
    <3> QED
      BY <1>3 DEF Present, InSearch
  <2> HIDE DEF t2, new, ended
  <2> QED
    BY <1>2, <1>3, <2>1 DEF Update, Settled, InSearch, Table
<1> HIDE DEF t3, t2, ended
<1>8. mine \/ ~ended
  BY DEF ended
<1> QED
  BY <1>4, <1>6, <1>7, <1>8

\* The inductive invariant: what SearchSupervised says, with the types.
LEMMA SearchStep ==
  TypeOK /\ SearchSupervised /\ [Next]_vars => SearchSupervised'
<1> SUFFICES ASSUME TypeOK, SearchSupervised, [Next]_vars,
                    NEW x \in Dst, InSearch(tbl', x)
             PROVE  Supervised(x)'
  BY DEF SearchSupervised
<1>0. InSearch(tbl, x) => Supervised(x)
  BY DEF SearchSupervised
<1>1. CASE Quiet
  BY <1>0, <1>1 DEF Quiet, NoNewSearch, Supervised
<1>2. CASE RouteOutput \/ RefusedRouteInput
  BY <1>0, <1>2 DEF RouteOutput, RefusedRouteInput, others, Supervised
<1>3. ASSUME NEW d \in Dst, NEW timers \in SUBSET Dst, SendRequest(d, timers),
             running \ {d} \subseteq timers, \A y \in Dst \ {d} : due'[y] = due[y],
             due' \in [Dst -> Nat]
      PROVE  Supervised(x)'
  <2>1. CASE x = d
    BY <1>3, <2>1, SendRequestStep DEF Supervised, TypeOK
  <2>2. CASE x # d
    <3>1. /\ tbl'[x] = tbl[x] /\ waiting'[x] >= waiting[x]
          /\ timers \subseteq running' /\ waiting' \in [Dst -> Nat]
      BY <1>3, <2>2, SendRequestStep
    <3>2. Supervised(x)
      BY <1>0, <3>1 DEF InSearch
    <3> QED
      BY <1>3, <2>2, <3>1, <3>2 DEF Supervised, TypeOK
  <2> QED
    BY <2>1, <2>2
<1>4. CASE DeferredRouteOutput
  <2>1. PICK p \in In("loop") :
          /\ IF InSearch(tbl, load[p].dst)
             THEN UNCHANGED <<tbl, running, rreqCount, waiting, asked, aborted>>
             ELSE SendRequest(load[p].dst, running)
          /\ UNCHANGED due
    BY <1>4 DEF DeferredRouteOutput
  <2>2. load[p].dst \in Dst /\ running \in SUBSET Dst /\ due' \in [Dst -> Nat]
    BY <2>1 DEF In, TypeOK
  <2> QED
    BY <1>0, <1>3, <2>1, <2>2 DEF Supervised
<1>5. CASE RreqRateLimitTimerExpire
  BY <1>0, <1>5 DEF RreqRateLimitTimerExpire, Supervised, TypeOK
<1>6. ASSUME NEW d \in Dst, RouteRequestTimerExpire(d) PROVE Supervised(x)'
  <2>1. CASE HasValid(tbl, d) /\ running' = running \ {d} /\ UNCHANGED <<tbl, waiting>>
    <3>1. x # d
      BY <2>1 DEF HasValid, InSearch
    <3> QED
      BY <1>0, <1>6, <2>1, <3>1 DEF Supervised, RouteRequestTimerExpire
  <2>2. CASE running' = running \ {d} /\ GiveUp(d)
    <3>1. x # d
      BY <2>2 DEF GiveUp, NoRoute, InSearch, TypeOK
    <3> QED
      BY <1>0, <1>6, <2>2, <3>1
      DEF Supervised, RouteRequestTimerExpire, GiveUp, InSearch, TypeOK
  <2>3. CASE SendRequest(d, running \ {d})
    <3>1. running \ {d} \in SUBSET Dst /\ due' = due /\ due' \in [Dst -> Nat]
      BY <1>6 DEF TypeOK, RouteRequestTimerExpire
    <3> QED
      BY <1>3, <2>3, <3>1
  <2> QED
    BY <1>6, <2>1, <2>2, <2>3 DEF RouteRequestTimerExpire
<1>7. ASSUME NEW d \in Dst, DeferredRequest(d) PROVE Supervised(x)'
  <2>1. /\ running \in SUBSET Dst /\ due' \in [Dst -> Nat]
        /\ \A y \in Dst \ {d} : due'[y] = due[y]
    BY <1>7 DEF DeferredRequest, TypeOK
  <2> QED
    BY <1>3, <1>7, <2>1 DEF DeferredRequest
<1>8. CASE Receive
  <2>1. ASSUME NEW d \in Dst, NEW n, NEW mine \in BOOLEAN, NEW hop \in Hops,
               NEW seq \in ReplySeqs, NEW dev \in Dev,
               RecvReply(d, n, mine, hop, seq, dev)
        PROVE  Supervised(x)'
    <3>1. /\ NoNewSearch(tbl, tbl') /\ UNCHANGED <<waiting, due>>
          /\ running \ {d} \subseteq running'
          /\ d \notin running' => d \notin running \/ ~InSearch(tbl', d)
      BY <2>1, ReplyStep
    <3> QED
      BY <1>0, <3>1 DEF NoNewSearch, Supervised
  <2> QED
    BY <1>1, <1>8, <2>1, ReceiveQuiet DEF Receive
<1>9. CASE Failure
  BY <1>1, <1>9, FailureQuiet
<1>10. CASE UNCHANGED vars
  BY <1>0, <1>10 DEF vars, Supervised
<1> QED
  BY <1>2, <1>4, <1>5, <1>6, <1>7, <1>8, <1>9, <1>10 DEF Next

\* An entry under search has a retry timer running or a deferred request
\* scheduled: no handler of the node can leave a search behind for good.
THEOREM SearchAlwaysSupervised == Spec => []SearchSupervised
<1>1. Init => SearchSupervised
  BY DEF Init, SearchSupervised, InSearch, NoRoute
<1> QED
  BY <1>1, TypeCorrect, SearchStep, PTL DEF Spec

-----------------------------------------------------------------------------
(* Buffered packets are supervised, when no packet is bound to a device.   *)

\* What the packet operators leave in the queue.
LEMMA QueueOps ==
  ASSUME TypeOK, Bindings \subseteq {AnyDev}
  PROVE  /\ \A stale : \A p, q \in Packet :
              Enqueued(p, stale)[q] = "queue" => q = p \/ at[q] = "queue"
         /\ \A stale, dev : \A d \in Dst, q \in Packet :
              Released(Move(at, stale, "error"), d, dev)[q] = "queue"
                => at[q] = "queue" /\ load[q].dst # d
         /\ \A S : \A q \in Packet : Move(at, S, "error")[q] = "queue"
                => at[q] = "queue" /\ q \notin S
<1>1. ASSUME NEW S, NEW q \in Packet, Move(at, S, "error")[q] = "queue"
      PROVE  at[q] = "queue" /\ q \notin S
  BY <1>1 DEF Move
<1>2. ASSUME NEW p \in Packet, NEW stale, NEW q \in Packet,
             Enqueued(p, stale)[q] = "queue", q # p
      PROVE  at[q] = "queue"
  <2> DEFINE left   == In("queue") \ stale
             victim == IF Cardinality(left) >= MaxQueueLen
                       THEN {v \in left : \A r \in left : v <= r} ELSE {}
             moved  == Move(at, stale \cup victim, "error")
  <2>1. Enqueued(p, stale) = [moved EXCEPT ![p] = "queue"]
    BY DEF Enqueued
  <2>2. moved \in [Packet -> {"error"} \cup Place]
    BY DEF Move, TypeOK
  <2> HIDE DEF moved
  <2>3. moved[q] = "queue"
    BY <1>2, <2>1, <2>2
  <2> QED
    BY <1>1, <2>3 DEF moved
<1>3. ASSUME NEW d \in Dst, NEW stale, NEW dev, NEW q \in Packet,
             Released(Move(at, stale, "error"), d, dev)[q] = "queue"
      PROVE  at[q] = "queue" /\ load[q].dst # d
  <2> DEFINE a == Move(at, stale, "error")
  <2>1. \A p \in Packet : ~Mismatch(p, dev)
    BY DEF Mismatch, TypeOK
  <2>2. Released(a, d, dev)[q]
          = IF ~(a[q] = "queue" /\ load[q].dst = d) THEN a[q] ELSE "sent"
    <3> HIDE DEF a
    <3> QED
      BY <2>1 DEF Released
  <2> QED
    BY <1>1, <1>3, <2>2
<1> QED
  BY <1>1, <1>2, <1>3

\* The packets are the same for ever.
LEMMA LoadConstant == TypeOK /\ [Next]_vars => load' = load
<1> SUFFICES ASSUME TypeOK, [Next]_vars PROVE load' = load
  OBVIOUS
<1>1. CASE RouteOutput \/ RefusedRouteInput
  BY <1>1 DEF RouteOutput, RefusedRouteInput
<1>2. CASE DeferredRouteOutput
  BY <1>2 DEF DeferredRouteOutput
<1>3. CASE RreqRateLimitTimerExpire
  BY <1>3 DEF RreqRateLimitTimerExpire
<1>4. ASSUME NEW d \in Dst, RouteRequestTimerExpire(d) PROVE load' = load
  BY <1>4 DEF RouteRequestTimerExpire
<1>5. ASSUME NEW d \in Dst, DeferredRequest(d) PROVE load' = load
  BY <1>5 DEF DeferredRequest
<1>6. CASE Receive
  <2>1. ASSUME NEW d, NEW n, NEW mine, NEW hop, NEW seq, NEW dev,
               RecvReply(d, n, mine, hop, seq, dev)
        PROVE  load' = load
    BY <2>1 DEF RecvReply
  <2> QED
    BY <1>6, <2>1, ReceiveQuiet DEF Receive, Quiet
<1>7. CASE Failure
  BY <1>7, FailureQuiet DEF Quiet
<1>8. CASE UNCHANGED vars
  BY <1>8 DEF vars
<1> QED
  BY <1>1, <1>2, <1>3, <1>4, <1>5, <1>6, <1>7, <1>8 DEF Next

LEMMA QueueStep ==
  Bindings \subseteq {AnyDev} =>
    (TypeOK /\ SearchSupervised /\ QueueSupervised /\ [Next]_vars
       => QueueSupervised')
<1> SUFFICES ASSUME Bindings \subseteq {AnyDev},
                    TypeOK, SearchSupervised, QueueSupervised, [Next]_vars,
                    NEW x \in Dst, NEW q \in Packet,
                    at'[q] = "queue", load'[q].dst = x
             PROVE  Supervised(x)'
  BY DEF QueueSupervised, Queued, In
<1>0. /\ load[q].dst = x
      /\ at[q] = "queue" => Supervised(x)
  BY LoadConstant DEF QueueSupervised, Queued, In
<1>1. CASE Quiet
  BY <1>0, <1>1 DEF Quiet, Supervised
<1>2. CASE RouteOutput \/ RefusedRouteInput
  BY <1>0, <1>2 DEF RouteOutput, RefusedRouteInput, others, Supervised, In, TypeOK
<1>3. ASSUME NEW d \in Dst, NEW timers \in SUBSET Dst, SendRequest(d, timers),
             running \ {d} \subseteq timers, \A y \in Dst \ {d} : due'[y] = due[y],
             due' \in [Dst -> Nat], x = d \/ at[q] = "queue"
      PROVE  Supervised(x)'
  <2>1. CASE x = d
    BY <1>3, <2>1, SendRequestStep DEF Supervised, TypeOK
  <2>2. CASE x # d
    <3>1. /\ waiting'[x] >= waiting[x]
          /\ timers \subseteq running' /\ waiting' \in [Dst -> Nat]
      BY <1>0, <1>3, <2>2, SendRequestStep
    <3> QED
      BY <1>0, <1>3, <2>2, <3>1 DEF Supervised, TypeOK
  <2> QED
    BY <2>1, <2>2
<1>4. CASE DeferredRouteOutput
  <2>1. PICK p \in In("loop"), stale \in Stale :
          /\ at' = Enqueued(p, stale)
          /\ IF InSearch(tbl, load[p].dst)
             THEN UNCHANGED <<tbl, running, rreqCount, waiting, asked, aborted>>
             ELSE SendRequest(load[p].dst, running)
          /\ UNCHANGED due
    BY <1>4 DEF DeferredRouteOutput
  <2>2. /\ p \in Packet /\ load[p].dst \in Dst /\ running \in SUBSET Dst
        /\ due' \in [Dst -> Nat]
    BY <2>1 DEF In, TypeOK
  <2>3. x = load[p].dst \/ at[q] = "queue"
    BY <1>0, <2>1, <2>2, QueueOps
  <2>4. CASE SendRequest(load[p].dst, running)
    BY <1>3, <2>1, <2>2, <2>3, <2>4
  <2>5. CASE InSearch(tbl, load[p].dst)
    <3>1. Supervised(load[p].dst)
      BY <2>2, <2>5 DEF SearchSupervised
    <3> QED
      BY <1>0, <2>1, <2>3, <2>5, <3>1 DEF Supervised
  <2> QED
    BY <2>1, <2>4, <2>5
<1>5. CASE RreqRateLimitTimerExpire
  BY <1>0, <1>5 DEF RreqRateLimitTimerExpire, Supervised, TypeOK
<1>6. ASSUME NEW d \in Dst, RouteRequestTimerExpire(d) PROVE Supervised(x)'
  <2>1. CASE /\ \E stale \in Stale :
                  at' = Released(Move(at, stale, "error"), d, tbl[d].dev)
             /\ running' = running \ {d} /\ UNCHANGED waiting
    <3>1. at[q] = "queue" /\ x # d
      BY <1>0, <2>1, QueueOps
    <3> QED
      BY <1>0, <1>6, <2>1, <3>1 DEF Supervised, RouteRequestTimerExpire
  <2>2. CASE running' = running \ {d} /\ GiveUp(d)
    <3>1. PICK stale \in Stale : at' = Move(at, stale \cup Queued(d), "error")
      BY <2>2 DEF GiveUp
    <3>2. at[q] = "queue" /\ q \notin Queued(d)
      BY <3>1, QueueOps
    <3>3. x # d
      BY <1>0, <3>2 DEF Queued, In
    <3> QED
      BY <1>0, <1>6, <2>2, <3>2, <3>3
      DEF Supervised, RouteRequestTimerExpire, GiveUp
  <2>3. CASE SendRequest(d, running \ {d}) /\ UNCHANGED at
    <3>1. /\ running \ {d} \in SUBSET Dst /\ due' = due
          /\ due' \in [Dst -> Nat] /\ at[q] = "queue"
      BY <1>6, <2>3 DEF TypeOK, RouteRequestTimerExpire
    <3> QED
      BY <1>3, <2>3, <3>1
  <2> QED
    BY <1>6, <2>1, <2>2, <2>3 DEF RouteRequestTimerExpire
<1>7. ASSUME NEW d \in Dst, DeferredRequest(d) PROVE Supervised(x)'
  <2>1. /\ running \in SUBSET Dst /\ due' \in [Dst -> Nat]
        /\ \A y \in Dst \ {d} : due'[y] = due[y]
        /\ at[q] = "queue"
    BY <1>7 DEF DeferredRequest, TypeOK
  <2> QED
    BY <1>3, <1>7, <2>1 DEF DeferredRequest
<1>8. CASE Receive
  <2>1. ASSUME NEW d \in Dst, NEW n, NEW mine \in BOOLEAN, NEW hop \in Hops,
               NEW seq \in ReplySeqs, NEW dev \in Dev,
               RecvReply(d, n, mine, hop, seq, dev)
        PROVE  Supervised(x)'
    <3>1. /\ UNCHANGED <<waiting, due>>
          /\ running \ {d} \subseteq running'
          /\ IF mine THEN \E stale \in Stale :
                          at' = Released(Move(at, stale, "error"), d, tbl'[d].dev)
             ELSE UNCHANGED <<at, running>>
      BY <2>1, ReplyStep
    <3>2. CASE mine
      <4>1. at[q] = "queue" /\ x # d
        BY <1>0, <3>1, <3>2, QueueOps
      <4> QED
        BY <1>0, <3>1, <4>1 DEF Supervised
    <3> QED
      BY <1>0, <3>1, <3>2 DEF Supervised
  <2> QED
    BY <1>1, <1>8, <2>1, ReceiveQuiet DEF Receive
<1>9. CASE Failure
  BY <1>1, <1>9, FailureQuiet
<1>10. CASE UNCHANGED vars
  BY <1>0, <1>10 DEF vars, Supervised
<1> QED
  BY <1>2, <1>4, <1>5, <1>6, <1>7, <1>8, <1>9, <1>10 DEF Next

\* While no packet is bound to a device, every buffered packet has an event
\* scheduled that will release it or drop it.
THEOREM QueueAlwaysSupervised ==
  ASSUME Bindings \subseteq {AnyDev}
  PROVE  Spec => []QueueSupervised
<1>1. Init => QueueSupervised
  BY DEF Init, QueueSupervised, Queued, In
<1>2. TypeOK /\ SearchSupervised /\ QueueSupervised /\ [Next]_vars => QueueSupervised'
  BY QueueStep
<1> QED
  BY <1>1, <1>2, TypeCorrect, SearchAlwaysSupervised, PTL DEF Spec

-----------------------------------------------------------------------------
(* The assertion of ScheduleRreqRetry, for every expanding ring whose       *)
(* threshold is below the network diameter: it can only fail when the      *)
(* request count wraps around.                                             *)

\* A request with the network-wide ttl has been counted.
LEMMA WideIsCounted ==
  ASSUME NEW e \in Entry, Searching(e).hop >= NetDiameter, e.cnt # CntMod - 1
  PROVE  Searching(e).cnt # 0
<1>1. /\ Searching(e).hop = NextTtl(e) /\ Searching(e).cnt = NextCnt(e)
      /\ e.hop \in Nat /\ e.cnt \in 0 .. CntMod - 1 /\ e.flag \in RouteFlag
  BY DEF Searching, Entry
<1>2. NextTtl(e) = NetDiameter
  <2>1. CASE e.flag = "ABSENT"
    BY <1>1, <2>1, DiscoveryAssumption, RingAssumption DEF NextTtl
  <2>2. CASE e.flag = "IN_SEARCH"
    BY <1>1, <2>2, DiscoveryAssumption, RingAssumption DEF NextTtl
  <2>3. CASE e.flag \in {"VALID", "INVALID"}
    BY <1>1, <2>3, DiscoveryAssumption, RingAssumption DEF NextTtl
  <2> QED
    BY <1>1, <2>1, <2>2, <2>3 DEF RouteFlag
<1> QED
  BY <1>1, <1>2, DiscoveryAssumption, RingAssumption DEF NextCnt, Bumped

\* Only SendRequest can make the assertion fail.
LEMMA AbortStep ==
  TypeOK /\ [Next]_vars
    => (aborted' => aborted \/ \E d \in Dst : tbl[d].cnt = CntMod - 1)
<1> SUFFICES ASSUME TypeOK, [Next]_vars, ~aborted,
                    \A d \in Dst : tbl[d].cnt # CntMod - 1
             PROVE  aborted' = FALSE
  OBVIOUS
<1>0. aborted = FALSE
  BY DEF TypeOK
<1>1. ASSUME NEW d \in Dst, NEW timers, SendRequest(d, timers)
      PROVE  aborted' = FALSE
  <2>1. tbl[d] \in Entry
    BY DEF TypeOK
  <2>2. \/ aborted' = aborted
        \/ aborted' = (aborted \/ (Searching(tbl[d]).hop >= NetDiameter
                                    /\ Searching(tbl[d]).cnt = 0))
    BY <1>1 DEF SendRequest
  <2> QED
    BY <1>0, <2>1, <2>2, WideIsCounted
<1>2. CASE RouteOutput \/ RefusedRouteInput
  BY <1>0, <1>2 DEF RouteOutput, RefusedRouteInput, others
<1>3. CASE DeferredRouteOutput
  <2>1. ASSUME NEW p \in In("loop"), SendRequest(load[p].dst, running)
        PROVE  aborted' = FALSE
    BY <1>1, <2>1 DEF TypeOK, In
  <2> QED
    BY <1>0, <1>3, <2>1 DEF DeferredRouteOutput
<1>4. CASE RreqRateLimitTimerExpire
  BY <1>0, <1>4 DEF RreqRateLimitTimerExpire
<1>5. ASSUME NEW d \in Dst, RouteRequestTimerExpire(d) PROVE aborted' = FALSE
  BY <1>0, <1>1, <1>5 DEF RouteRequestTimerExpire, GiveUp
<1>6. ASSUME NEW d \in Dst, DeferredRequest(d) PROVE aborted' = FALSE
  BY <1>1, <1>6 DEF DeferredRequest
<1>7. CASE Receive
  <2>1. ASSUME NEW d, NEW n, NEW mine, NEW hop, NEW seq, NEW dev,
               RecvReply(d, n, mine, hop, seq, dev)
        PROVE  aborted' = FALSE
    BY <1>0, <2>1 DEF RecvReply
  <2>2. ASSUME NEW dev, NEW t, TableMessage(dev, t) PROVE aborted' = FALSE
    BY <1>0, <2>2 DEF TableMessage
  <2>3. ASSUME NEW d, NEW n, NEW hop, NEW seq, NEW dev,
               RecvRequest(d, n, hop, seq, dev)
        PROVE  aborted' = FALSE
    BY <2>2, <2>3 DEF RecvRequest
  <2>4. ASSUME NEW n, NEW lost, NEW dev, RecvError(n, lost, dev)
        PROVE  aborted' = FALSE
    BY <2>2, <2>4 DEF RecvError
  <2>5. ASSUME NEW n, NEW seq, NEW dev, ProcessHello(n, seq, dev)
        PROVE  aborted' = FALSE
    BY <2>2, <2>5 DEF ProcessHello
  <2>6. ASSUME NEW n, NEW dev, RecvReplyAck(n, dev) PROVE aborted' = FALSE
    BY <2>2, <2>6 DEF RecvReplyAck
  <2> QED
    BY <1>7, <2>1, <2>3, <2>4, <2>5, <2>6 DEF Receive
<1>8. CASE Failure
  BY <1>0, <1>8 DEF Failure, LinkBreaks, Expire, NotifyInterfaceDown,
                    NotifyInterfaceUp
<1>9. CASE UNCHANGED vars
  BY <1>0, <1>9 DEF vars
<1> QED
  BY <1>2, <1>3, <1>4, <1>5, <1>6, <1>7, <1>8, <1>9 DEF Next

\* The assertion of ScheduleRreqRetry fails only when the count of requests
\* wraps around.
THEOREM RetryAbortsOnlyOnWrap == Spec => AbortsOnlyOnWrap
<1>1. TypeOK /\ [Next]_vars
        => [aborted' => aborted \/ \E d \in Dst : tbl[d].cnt = CntMod - 1]_vars
  BY AbortStep
<1> QED
  BY <1>1, TypeCorrect, PTL DEF Spec, AbortsOnlyOnWrap

-----------------------------------------------------------------------------
(* The number of retries, while the rate limit defers no request.  A       *)
(* deferred request is sent without a look at the count, so that the bound *)
(* does not hold where there is one.                                       *)

NoneDeferred == \A d \in Dst : waiting[d] = 0

\* No count is over the limit, and only searches have one.
Counted(t) ==
  \A x \in Dst : t[x].cnt <= RreqRetries /\ (t[x].cnt = 0 \/ InSearch(t, x))

LEMMA CountedOps ==
  ASSUME NEW t \in Table, Counted(t), NEW d \in Dst, NEW e \in Entry,
         e.cnt <= RreqRetries
  PROVE  Counted(Update(t, d, e)) /\ Counted(AddRoute(t, d, e))
<1>1. /\ Settled(e).flag = e.flag
      /\ Settled(e).cnt = IF e.flag = "IN_SEARCH" THEN e.cnt ELSE 0
  BY DEF Settled, Entry
<1>2. 0 <= RreqRetries
  BY DiscoveryAssumption
<1> QED
  BY <1>1, <1>2 DEF Update, AddRoute, Table, Counted, InSearch

\* What a message makes of the table before it is looked at.
LEMMA NeighborCounted ==
  ASSUME NEW t \in Table, Counted(t), NEW n, NEW dev \in Dev
  PROVE  Counted(UpdateRouteToNeighbor(t, n, dev))
<1> DEFINE fresh == ValidEntry(1, FALSE, 0, dev)
<1>0. 0 \in SeqNo /\ 1 \in Nat
  BY SeqModAssumption DEF SeqNo
<1>1. fresh \in Entry /\ fresh.cnt <= RreqRetries
  <2>1. fresh \in Entry
    BY <1>0, ValidEntryType
  <2>2. fresh.cnt = 0
    BY DEF ValidEntry
  <2> HIDE DEF fresh
  <2> QED
    BY <2>1, <2>2, DiscoveryAssumption
<1> HIDE DEF fresh
<1>2. n \in Dst => Counted(Update(t, n, fresh)) /\ Counted(AddRoute(t, n, fresh))
  BY <1>1, CountedOps
<1> QED
  BY <1>2 DEF UpdateRouteToNeighbor, fresh

\* No message raises a count; a request that is received keeps it.
LEMMA ReceiveCounted ==
  ASSUME TypeOK, Counted(tbl), Receive
  PROVE  Counted(tbl') /\ aborted' = aborted /\ due' = due
<1>0. tbl \in Table /\ \A x \in Dst : tbl[x].cnt \in Nat
  BY DEF TypeOK, Table, Entry
<1>1. ASSUME NEW dev, NEW t, Counted(t), TableMessage(dev, t)
      PROVE  Counted(tbl') /\ aborted' = aborted /\ due' = due
  BY <1>1 DEF TableMessage
<1>2. ASSUME NEW hop \in Hops, NEW known \in BOOLEAN, NEW seq \in ReplySeqs, NEW dev \in Dev
      PROVE  /\ ValidEntry(hop, known, seq, dev) \in Entry
             /\ ValidEntry(hop, known, seq, dev).cnt <= RreqRetries
             /\ ValidEntry(1, known, seq, dev) \in Entry
             /\ ValidEntry(1, known, seq, dev).cnt <= RreqRetries
  BY ValidEntryType, DiscoveryAssumption DEF ValidEntry
<1>3. ASSUME NEW n, NEW dev \in Dev, NEW d \in Dst, NEW mine \in BOOLEAN, NEW hop \in Hops,
             NEW seq \in ReplySeqs, RecvReply(d, n, mine, hop, seq, dev)
      PROVE  Counted(tbl') /\ aborted' = aborted /\ due' = due
  <2> DEFINE t1  == UpdateRouteToNeighbor(tbl, n, dev)
             new == ValidEntry(hop, TRUE, seq, dev)
             t2  == IF ~Present(t1, d) THEN AddRoute(t1, d, new)
                    ELSE IF Better(t1[d], hop, seq) THEN Update(t1, d, new) ELSE t1
             t3  == Update(t2, d, new)
  <2>1. t1 \in Table /\ Counted(t1)
    BY <1>0, NeighborType, NeighborCounted
  <2>2. new \in Entry /\ new.cnt <= RreqRetries
    BY <1>2
  <2>3. tbl' \in {t2, t3} /\ aborted' = aborted /\ due' = due
    BY <1>3 DEF RecvReply
  <2>4. t2 \in Table /\ Counted(t2)
    <3> HIDE DEF t1, new
    <3> QED
      BY <2>1, <2>2, TableOps, CountedOps
  <2>5. Counted(t3)
    <3> HIDE DEF t2, new
    <3> QED
      BY <2>2, <2>4, CountedOps
  <2> HIDE DEF t2, t3
  <2> QED
    BY <2>3, <2>4, <2>5
<1>4. ASSUME NEW n, NEW dev \in Dev, NEW d \in Dst, NEW hop \in Hops,
             NEW seq \in ReplySeqs, RecvRequest(d, n, hop, seq, dev)
      PROVE  Counted(tbl') /\ aborted' = aborted /\ due' = due
  <2> DEFINE t1   == UpdateRouteToNeighbor(tbl, n, dev)
             e    == t1[d]
             rev  == [e EXCEPT !.known = TRUE, !.dev = dev, !.hop = hop,
                               !.seq = IF e.known /\ ~Newer(seq, @) THEN @ ELSE seq]
             new  == ValidEntry(hop, TRUE, seq, dev)
             t2   == IF Present(t1, d) THEN Update(t1, d, rev)
                     ELSE AddRoute(t1, d, new)
             prev == ValidEntry(1, FALSE, seq, dev)
             t3   == IF n \in Dst THEN Update(t2, n, prev) ELSE t2
  <2>1. t1 \in Table /\ Counted(t1)
    BY <1>0, NeighborType, NeighborCounted
  <2>2. /\ new \in Entry /\ new.cnt <= RreqRetries
        /\ prev \in Entry /\ prev.cnt <= RreqRetries
    BY <1>2
  <2>3. rev \in Entry /\ rev.cnt <= RreqRetries
    <3> HIDE DEF t1
    <3>1. rev \in Entry
      BY <2>1, HandlerTypes
    <3>2. t1[d] \in Entry /\ t1[d].cnt <= RreqRetries
      BY <2>1 DEF Table, Counted
    <3>3. rev.cnt = t1[d].cnt
      BY <3>2 DEF Entry
    <3> QED
      BY <3>1, <3>2, <3>3
  <2>4. TableMessage(dev, t3)
    BY <1>4 DEF RecvRequest
  <2>5. t2 \in Table /\ Counted(t2)
    <3> HIDE DEF t1, rev, new
    <3> QED
      BY <2>1, <2>2, <2>3, TableOps, CountedOps
  <2>6. Counted(t3)
    <3> HIDE DEF t2, prev
    <3> QED
      BY <2>2, <2>5, CountedOps
  <2> HIDE DEF t3
  <2> QED
    BY <1>1, <2>4, <2>6
<1>5. ASSUME NEW n, NEW dev \in Dev, NEW lost, RecvError(n, lost, dev)
      PROVE  Counted(tbl') /\ aborted' = aborted /\ due' = due
  <2> DEFINE t == UpdateRouteToNeighbor(tbl, n, dev)
  <2>1. t \in Table /\ Counted(t)
    BY <1>0, NeighborType, NeighborCounted
  <2>2. TableMessage(dev, InvalidateRoutesWithDst(t, lost))
    BY <1>5 DEF RecvError
  <2> HIDE DEF t
  <2>3. Counted(InvalidateRoutesWithDst(t, lost))
    BY <2>1, DiscoveryAssumption
       DEF InvalidateRoutesWithDst, Invalidated, Counted, Table, Entry, InSearch, HasValid
  <2> QED
    BY <1>1, <2>2, <2>3
<1>6. ASSUME NEW n \in Dst, NEW dev \in Dev, NEW seq \in ReplySeqs, ProcessHello(n, seq, dev)
      PROVE  Counted(tbl') /\ aborted' = aborted /\ due' = due
  <2> DEFINE t == UpdateRouteToNeighbor(tbl, n, dev)
             e == ValidEntry(1, TRUE, seq, dev)
  <2>1. t \in Table /\ Counted(t)
    BY <1>0, NeighborType, NeighborCounted
  <2>2. e \in Entry /\ e.cnt <= RreqRetries
    <3>1. seq \in SeqNo /\ 1 \in Nat
      BY DiscoveryAssumption
    <3>2. e \in Entry
      BY <3>1, ValidEntryType
    <3>3. e.cnt = 0
      BY DEF ValidEntry
    <3> HIDE DEF e
    <3> QED
      BY <3>2, <3>3, DiscoveryAssumption
  <2>3. TableMessage(dev, Update(t, n, e))
    BY <1>6 DEF ProcessHello
  <2> HIDE DEF t, e
  <2> QED
    BY <1>1, <2>1, <2>2, <2>3, CountedOps
<1>7. ASSUME NEW n \in Dst, NEW dev \in Dev, RecvReplyAck(n, dev)
      PROVE  Counted(tbl') /\ aborted' = aborted /\ due' = due
  <2> DEFINE t == UpdateRouteToNeighbor(tbl, n, dev)
             e == [t[n] EXCEPT !.flag = "VALID"]
  <2>1. t \in Table /\ Counted(t)
    BY <1>0, NeighborType, NeighborCounted
  <2>2. TableMessage(dev, Update(t, n, e))
    BY <1>7 DEF RecvReplyAck
  <2> HIDE DEF t
  <2>3. e \in Entry /\ e.cnt <= RreqRetries
    <3>1. t[n] \in Entry /\ t[n].cnt <= RreqRetries
      BY <2>1 DEF Table, Counted
    <3> QED
      BY <3>1 DEF Entry, RouteFlag
  <2> HIDE DEF e
  <2> QED
    BY <1>1, <2>1, <2>2, <2>3, CountedOps
<1> QED
  BY <1>3, <1>4, <1>5, <1>6, <1>7 DEF Receive

\* A request sent with retries left.
LEMMA SendRequestCounted ==
  ASSUME TypeOK, Counted(tbl), NEW d \in Dst, NEW timers, SendRequest(d, timers),
         tbl[d].cnt < RreqRetries, ~aborted
  PROVE  Counted(tbl') /\ ~aborted'
<1> DEFINE e == Searching(tbl[d])
<1>1. tbl[d] \in Entry /\ tbl[d].cnt \in Nat /\ tbl \in [Dst -> Entry]
  BY DEF TypeOK, Entry
<1>2. e.flag = "IN_SEARCH" /\ e.cnt <= RreqRetries
  <2>1. e.flag = "IN_SEARCH" /\ e.cnt = NextCnt(tbl[d])
    BY <1>1 DEF Searching, Entry
  <2>2. NextCnt(tbl[d]) \in {tbl[d].cnt, tbl[d].cnt + 1, 0}
    BY DEF NextCnt, Bumped
  <2> HIDE DEF e
  <2> QED
    BY <1>1, <2>1, <2>2, DiscoveryAssumption
<1>3. ~(e.hop >= NetDiameter /\ e.cnt = 0)
  BY <1>1, WideIsCounted, DiscoveryAssumption, RingAssumption
<1>4. \/ tbl' = tbl /\ aborted' = aborted
      \/ tbl' = [tbl EXCEPT ![d] = e] /\ aborted' = (aborted \/ (e.hop >= NetDiameter /\ e.cnt = 0))
  BY DEF SendRequest
<1> HIDE DEF e
<1>5. Counted([tbl EXCEPT ![d] = e])
  BY <1>1, <1>2 DEF Counted, InSearch
<1>6. CASE tbl' = tbl /\ aborted' = aborted
  BY <1>6
<1>7. CASE tbl' = [tbl EXCEPT ![d] = e] /\ aborted' = (aborted \/ (e.hop >= NetDiameter /\ e.cnt = 0))
  <2>1. ~aborted'
    BY <1>3, <1>7
  <2>2. Counted(tbl')
    BY <1>5, <1>7
  <2> QED
    BY <2>1, <2>2
<1> QED
  BY <1>4, <1>6, <1>7

LEMMA FailureCounted ==
  ASSUME TypeOK, Counted(tbl), Failure
  PROVE  Counted(tbl') /\ aborted' = aborted /\ due' = due
<1>0. 0 <= RreqRetries /\ tbl \in [Dst -> Entry] /\ NoRoute.cnt = 0 /\ NoRoute.flag = "ABSENT"
  BY DiscoveryAssumption DEF TypeOK, NoRoute
<1>1. \A x \in Dst : tbl'[x] \in {tbl[x], Invalidated(tbl[x]), NoRoute}
  BY <1>0 DEF Failure, LinkBreaks, Expire, NotifyInterfaceDown, NotifyInterfaceUp,
              InvalidateRoutesWithDst
<1>2. \A x \in Dst : Invalidated(tbl[x]).cnt = 0
  BY <1>0 DEF Invalidated, Entry
<1>3. Counted(tbl')
  BY <1>0, <1>1, <1>2 DEF Counted, InSearch
<1> QED
  BY <1>3 DEF Failure, LinkBreaks, Expire, NotifyInterfaceDown, NotifyInterfaceUp

LEMMA CountedStep ==
  ASSUME TypeOK, Counted(tbl), ~aborted, \A d \in Dst : due[d] = 0, NoneDeferred, [Next]_vars
  PROVE  Counted(tbl') /\ ~aborted' /\ \A d \in Dst : due'[d] = 0
<1> USE DEF NoneDeferred
<1>0. \A x \in Dst : tbl[x].cnt \in Nat /\ RreqRetries \in Nat \ {0}
  BY DiscoveryAssumption DEF TypeOK, Entry
<1>1. CASE RouteOutput \/ RefusedRouteInput
  BY <1>1 DEF RouteOutput, RefusedRouteInput, others
<1>2. CASE DeferredRouteOutput
  <2>1. PICK p \in In("loop") :
          /\ IF InSearch(tbl, load[p].dst)
             THEN UNCHANGED <<tbl, running, rreqCount, waiting, asked, aborted>>
             ELSE SendRequest(load[p].dst, running)
          /\ UNCHANGED due
    BY <1>2 DEF DeferredRouteOutput
  <2>2. load[p].dst \in Dst
    BY DEF In, TypeOK
  <2>3. ~InSearch(tbl, load[p].dst) => tbl[load[p].dst].cnt < RreqRetries
    BY <1>0, <2>2 DEF Counted
  <2> QED
    BY <2>1, <2>2, <2>3, SendRequestCounted
<1>3. CASE RreqRateLimitTimerExpire
  BY <1>3 DEF RreqRateLimitTimerExpire
<1>4. ASSUME NEW d \in Dst, RouteRequestTimerExpire(d)
      PROVE  Counted(tbl') /\ ~aborted' /\ \A x \in Dst : due'[x] = 0
  <2>1. UNCHANGED due
    BY <1>4 DEF RouteRequestTimerExpire
  <2>2. CASE UNCHANGED <<tbl, aborted>>
    BY <2>1, <2>2
  <2>3. CASE GiveUp(d)
    <3>1. tbl' = [tbl EXCEPT ![d] = NoRoute] /\ aborted' = aborted
      BY <2>3 DEF GiveUp
    <3>2. Counted(tbl')
      BY <1>0, <3>1 DEF Counted, NoRoute, TypeOK, InSearch
    <3> QED
      BY <2>1, <3>1, <3>2
  <2>4. CASE ~Exhausted(tbl[d]) /\ SendRequest(d, running \ {d})
    <3>1. tbl[d].cnt < RreqRetries
      BY <1>0, <2>4 DEF Exhausted, Counted
    <3> QED
      BY <2>1, <2>4, <3>1, SendRequestCounted
  <2> QED
    BY <1>4, <2>2, <2>3, <2>4 DEF RouteRequestTimerExpire
<1>5. ASSUME NEW d \in Dst, DeferredRequest(d)
      PROVE  FALSE
  BY <1>5 DEF DeferredRequest
<1>6. CASE Receive
  BY <1>6, ReceiveCounted
<1>7. CASE Failure
  BY <1>7, FailureCounted
<1>8. CASE UNCHANGED vars
  BY <1>8 DEF vars
<1> QED
  BY <1>1, <1>2, <1>3, <1>4, <1>5, <1>6, <1>7, <1>8 DEF Next

LEMMA CountedHolds ==
  Spec /\ []NoneDeferred => [](Counted(tbl) /\ ~aborted)
<1> DEFINE J == Counted(tbl) /\ ~aborted /\ \A d \in Dst : due[d] = 0
<1>1. Init => J
  BY DiscoveryAssumption DEF Init, Counted, NoRoute
<1>2. TypeOK /\ J /\ NoneDeferred /\ [Next]_vars => J'
  BY CountedStep
<1>3. J => Counted(tbl) /\ ~aborted
  OBVIOUS
<1> QED
  BY <1>1, <1>2, <1>3, TypeCorrect, PTL DEF Spec

\* Where no request is ever deferred, a search makes no more network-wide
\* requests than RreqRetries: whatever is received, fails or expires in
\* between.  (Without the condition the code breaks this.)
THEOREM RetriesKeptUnlessDeferred == Spec /\ []NoneDeferred => []RetriesBounded
<1>1. Counted(tbl) => RetriesBounded
  BY DEF Counted, RetriesBounded
<1> QED
  BY <1>1, CountedHolds, PTL

\* Under the same condition the assertion of ScheduleRreqRetry holds.
THEOREM NoAbortUnlessDeferred == Spec /\ []NoneDeferred => []NeverAborts
<1>1. ~aborted => NeverAborts
  BY DEF NeverAborts
<1> QED
  BY <1>1, CountedHolds, PTL

-----------------------------------------------------------------------------
(* The queue keeps its limit.                                              *)

\* There is an oldest packet in every set of packets.
LEMMA OldestPacket ==
  ASSUME NEW S \in SUBSET Packet, S # {}
  PROVE  \E v \in S : \A q \in S : v <= q
<1> DEFINE R == {ss \in Nat \X Nat : ss[1] < ss[2]}
<1>1. S \subseteq Nat
  BY DEF Packet
<1>2. IsWellFoundedOn(R, Nat)
  BY NatLessThanWellFounded DEF OpToRel
<1> HIDE DEF R
<1>3. PICK v \in S : \A q \in S : <<q, v>> \notin R
  BY <1>1, <1>2, WFMin
<1>4. \A q \in S : ~(q < v)
  BY <1>1, <1>3 DEF R
<1> QED
  BY <1>1, <1>4

LEMMA PacketsFinite ==
  ASSUME NEW S \in SUBSET Packet
  PROVE  IsFiniteSet(S) /\ Cardinality(S) \in Nat
<1>1. IsFiniteSet(Packet)
  BY FS_Interval, DiscoveryAssumption DEF Packet
<1> QED
  BY <1>1, FS_Subset, FS_CardinalityType

\* A packet comes into the queue: if the queue is full, one makes room.
LEMMA EnqueueBounded ==
  ASSUME TypeOK, QueueBounded, NEW p \in Packet, NEW stale,
         at' = Enqueued(p, stale)
  PROVE  QueueBounded'
<1> DEFINE left   == In("queue") \ stale
           victim == IF Cardinality(left) >= MaxQueueLen
                     THEN {v \in left : \A q \in left : v <= q} ELSE {}
           kept   == left \ victim
<1>1. /\ left \in SUBSET Packet /\ kept \in SUBSET Packet
      /\ In("queue") \in SUBSET Packet /\ In("queue")' \in SUBSET Packet
  BY DEF In
<1>2. In("queue")' \subseteq kept \cup {p}
  BY DEF In, Enqueued, Move
<1>3. MaxQueueLen \in Nat \ {0}
  BY DiscoveryAssumption
<1>4. Cardinality(kept) + 1 <= MaxQueueLen
  <2>1. Cardinality(left) \in Nat /\ IsFiniteSet(left)
    BY <1>1, PacketsFinite
  <2>2. CASE Cardinality(left) < MaxQueueLen
    <3>1. kept = left
      BY <1>3, <2>1, <2>2
    <3> QED
      BY <1>3, <2>1, <2>2, <3>1
  <2>3. CASE Cardinality(left) >= MaxQueueLen
    <3>1. Cardinality(left) <= MaxQueueLen
      <4>1. IsFiniteSet(In("queue")) /\ left \in SUBSET In("queue")
        BY <1>1, PacketsFinite
      <4>2. Cardinality(left) <= Cardinality(In("queue"))
        BY <4>1, FS_Subset
      <4>3. Cardinality(In("queue")) \in Nat
        BY <1>1, PacketsFinite
      <4> QED
        BY <1>3, <2>1, <4>2, <4>3 DEF QueueBounded
    <3>2. left # {}
      BY <1>3, <2>3, FS_EmptySet
    <3>3. PICK v \in left : \A q \in left : v <= q
      BY <1>1, <3>2, OldestPacket
    <3>4. kept \in SUBSET (left \ {v})
      BY <2>3, <3>3
    <3>5. IsFiniteSet(left \ {v}) /\ Cardinality(left \ {v}) = Cardinality(left) - 1
      BY <2>1, <3>3, FS_RemoveElement
    <3>6. Cardinality(kept) <= Cardinality(left \ {v})
      BY <3>4, <3>5, FS_Subset
    <3>7. Cardinality(kept) \in Nat
      BY <1>1, PacketsFinite
    <3> QED
      BY <1>3, <2>1, <3>1, <3>5, <3>6, <3>7
  <2> QED
    BY <1>3, <2>1, <2>2, <2>3
<1> HIDE DEF left, victim, kept
<1>5. IsFiniteSet(kept) /\ Cardinality(kept) \in Nat
  BY <1>1, PacketsFinite
<1>6. IsFiniteSet(kept \cup {p}) /\ Cardinality(kept \cup {p}) <= Cardinality(kept) + 1
  BY <1>5, FS_AddElement
<1>7. Cardinality(In("queue")') <= Cardinality(kept \cup {p})
  BY <1>2, <1>6, FS_Subset
<1>8. Cardinality(kept \cup {p}) \in Nat /\ Cardinality(In("queue")') \in Nat
  BY <1>1, <1>6, FS_CardinalityType, PacketsFinite
<1> QED
  BY <1>3, <1>4, <1>5, <1>6, <1>7, <1>8 DEF QueueBounded

\* Nothing else brings a packet into the queue.
LEMMA OnlyEnqueueAdds ==
  ASSUME TypeOK, [Next]_vars
  PROVE  \/ \E p \in Packet, stale \in Stale : at' = Enqueued(p, stale)
         \/ In("queue")' \subseteq In("queue")
<1>0. In("queue")' = {p \in Packet : at'[p] = "queue"}
  BY DEF In
<1>1. ASSUME NEW S, NEW d, NEW dev, at' = Released(Move(at, S, "error"), d, dev)
      PROVE  In("queue")' \subseteq In("queue")
  BY <1>1 DEF In, Released, Move
<1>2. ASSUME NEW S, at' = Move(at, S, "error")
      PROVE  In("queue")' \subseteq In("queue")
  BY <1>2 DEF In, Move
<1>3. ASSUME UNCHANGED at PROVE In("queue")' \subseteq In("queue")
  BY <1>3 DEF In
<1>4. CASE RouteOutput \/ RefusedRouteInput
  BY <1>4 DEF RouteOutput, RefusedRouteInput, In, TypeOK
<1>5. CASE DeferredRouteOutput
  BY <1>5 DEF DeferredRouteOutput, In
<1>6. ASSUME NEW d \in Dst, RouteRequestTimerExpire(d)
      PROVE  In("queue")' \subseteq In("queue")
  <2>1. CASE \E stale \in Stale :
                at' = Released(Move(at, stale, "error"), d, tbl[d].dev)
    BY <1>1, <2>1
  <2>2. CASE GiveUp(d)
    <3>1. PICK S : at' = Move(at, S, "error")
      BY <2>2 DEF GiveUp
    <3> QED
      BY <1>2, <3>1
  <2> QED
    BY <1>3, <1>6, <2>1, <2>2 DEF RouteRequestTimerExpire
<1>7. CASE Receive
  <2>1. \/ UNCHANGED at
        \/ \E stale \in Stale, d \in Dst :
             at' = Released(Move(at, stale, "error"), d, tbl'[d].dev)
    <3>1. ASSUME NEW d \in Dst, NEW n, NEW mine \in BOOLEAN, NEW hop, NEW seq,
                 NEW dev, RecvReply(d, n, mine, hop, seq, dev)
          PROVE  \/ UNCHANGED at
                 \/ \E stale \in Stale :
                      at' = Released(Move(at, stale, "error"), d, tbl'[d].dev)
      BY <3>1 DEF RecvReply
    <3>2. ASSUME NEW d, NEW n, NEW hop, NEW seq, NEW dev, RecvRequest(d, n, hop, seq, dev)
          PROVE  UNCHANGED at
      BY <3>2 DEF RecvRequest, TableMessage
    <3>3. ASSUME NEW n, NEW lost, NEW dev, RecvError(n, lost, dev)
          PROVE  UNCHANGED at
      BY <3>3 DEF RecvError, TableMessage
    <3>4. ASSUME NEW n, NEW seq, NEW dev, ProcessHello(n, seq, dev) \/ RecvReplyAck(n, dev)
          PROVE  UNCHANGED at
      BY <3>4 DEF ProcessHello, RecvReplyAck, TableMessage
    <3> QED
      BY <1>7, <3>1, <3>2, <3>3, <3>4 DEF Receive
  <2> QED
    BY <1>1, <1>3, <2>1
<1>8. CASE Failure
  BY <1>3, <1>8 DEF Failure, LinkBreaks, Expire, NotifyInterfaceDown, NotifyInterfaceUp
<1>9. CASE RreqRateLimitTimerExpire \/ \E d \in Dst : DeferredRequest(d)
  BY <1>3, <1>9 DEF RreqRateLimitTimerExpire, DeferredRequest
<1>10. CASE UNCHANGED vars
  BY <1>3, <1>10 DEF vars
<1> QED
  BY <1>4, <1>5, <1>6, <1>7, <1>8, <1>9, <1>10 DEF Next

\* However packets come, expire and go, the queue never holds more than its
\* limit: the oldest one makes room whenever the test for equality is met.
THEOREM QueueKeepsLimit == Spec => []QueueBounded
<1>1. Init => QueueBounded
  <2>1. Init => In("queue") = {}
    BY DEF Init, In
  <2> QED
    BY <2>1, FS_EmptySet, DiscoveryAssumption DEF QueueBounded
<1>2. TypeOK /\ QueueBounded /\ [Next]_vars => QueueBounded'
  <2> SUFFICES ASSUME TypeOK, QueueBounded, [Next]_vars PROVE QueueBounded'
    OBVIOUS
  <2>1. CASE \E p \in Packet, stale \in Stale : at' = Enqueued(p, stale)
    BY <2>1, EnqueueBounded
  <2>2. CASE In("queue")' \subseteq In("queue")
    <3>1. In("queue") \in SUBSET Packet /\ In("queue")' \in SUBSET Packet
      BY DEF In
    <3>2. Cardinality(In("queue")') <= Cardinality(In("queue"))
      BY <2>2, <3>1, PacketsFinite, FS_Subset
    <3>3. Cardinality(In("queue")) \in Nat /\ Cardinality(In("queue")') \in Nat
      BY <3>1, PacketsFinite
    <3> QED
      BY <3>2, <3>3, DiscoveryAssumption DEF QueueBounded
  <2> QED
    BY <2>1, <2>2, OnlyEnqueueAdds
<1> QED
  BY <1>1, <1>2, TypeCorrect, PTL DEF Spec
=============================================================================
