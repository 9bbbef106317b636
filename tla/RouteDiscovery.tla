--------------------------- MODULE RouteDiscovery ---------------------------
(***************************************************************************)
(* Route discovery at one node of aodv::RoutingProtocol: the packets the   *)
(* node originates, the queue that buffers them, the route requests with   *)
(* their expanding ring, retry timers and rate limit, and the replies and  *)
(* failures that end a search.                                             *)
(*                                                                         *)
(* The rest of the network is the environment: it may send any AODV        *)
(* message the node accepts, break routes, and take interfaces up and      *)
(* down, at most MaxEvents times.  Time is left out: a running timer may   *)
(* expire at any moment, a route or a queued packet may grow too old at    *)
(* any moment, but the order the code imposes (deferred requests fire      *)
(* right after the rate-limit window ends) is kept.                        *)
(***************************************************************************)
EXTENDS SearchRing, FiniteSets

CONSTANTS
  Dst,            \* destinations of the node's packets; a destination may
                  \* also be a neighbour and send messages itself
  Dev,            \* the node's devices (one interface, one socket each)
  AnyDev,         \* "no device": an unbound packet, or an entry without one
  Stranger,       \* a neighbour that is no destination of interest
  Bindings,       \* what packets may ask for: a subset of Dev and AnyDev
  RreqRetries, RreqRateLimit, MaxQueueLen,
  ReplySeqs, Hops,  \* sequence numbers and hop counts of received messages
  MaxPackets,     \* bound: packets the application sends
  MaxEvents       \* bound: messages received, routes lost, interface changes

ASSUME DiscoveryAssumption ==
  /\ AnyDev \notin Dev /\ Stranger \notin Dst
  /\ Bindings \subseteq Dev \cup {AnyDev}
  /\ RreqRetries \in Nat \ {0} /\ RreqRateLimit \in Nat \ {0}
  /\ MaxQueueLen \in Nat \ {0}
  /\ ReplySeqs \subseteq SeqNo /\ Hops \subseteq Nat \ {0}
  /\ MaxPackets \in Nat /\ MaxEvents \in Nat
  /\ RreqRetries < CntMod

VARIABLES
  tbl,        \* m_routingTable, restricted to Dst
  running,    \* destinations whose m_addressReqTimer is running
  rreqCount,  \* m_rreqCount
  waiting,    \* SendRequest(dst) events scheduled for after this window
  due,        \* SendRequest(dst) events whose window has come
  load,       \* the packets: what each is for; chosen once
  at,         \* where each packet is
  up,         \* devices with an open socket (m_socketAddresses)
  asked,      \* destinations a route request was ever broadcast for
  aborted,    \* NS_ABORT_MSG_UNLESS of ScheduleRreqRetry fired
  budget      \* what is left of MaxEvents

vars == <<tbl, running, rreqCount, waiting, due, load, at, up, asked,
          aborted, budget>>

-----------------------------------------------------------------------------
(* Packets.  They are numbered in the order RouteOutput sees them; the     *)
(* loopback device keeps that order, so it is also the order of m_queue.   *)
Packet == 1 .. MaxPackets
Place  == {"app", "loop", "queue", "sent", "error", "lost"}

Entry == [flag : RouteFlag, hop : Nat, cnt : 0 .. CntMod - 1,
          known : BOOLEAN, seq : SeqNo, dev : Dev \cup {AnyDev}]

NoRoute == [flag |-> "ABSENT", hop |-> 0, cnt |-> 0, known |-> FALSE,
            seq |-> 0, dev |-> AnyDev]

\* The entry a neighbour or a reply gives rise to.
ValidEntry(hop, known, seq, dev) ==
  [flag |-> "VALID", hop |-> hop, cnt |-> 0, known |-> known,
   seq |-> seq, dev |-> dev]

TypeOK ==
  /\ tbl \in [Dst -> Entry]
  /\ running \subseteq Dst
  /\ rreqCount \in 0 .. RreqRateLimit
  /\ waiting \in [Dst -> Nat] /\ due \in [Dst -> Nat]
  /\ load \in [Packet -> [dst : Dst, oif : Bindings]]
  /\ at \in [Packet -> Place]
  /\ up \subseteq Dev /\ asked \subseteq Dst
  /\ aborted \in BOOLEAN
  /\ budget \in 0 .. MaxEvents

Init ==
  /\ tbl = [d \in Dst |-> NoRoute]
  /\ running = {} /\ asked = {}
  /\ rreqCount = 0
  /\ waiting = [d \in Dst |-> 0] /\ due = [d \in Dst |-> 0]
  /\ load \in [Packet -> [dst : Dst, oif : Bindings]]
  /\ at = [p \in Packet |-> "app"]
  /\ up = Dev
  /\ aborted = FALSE
  /\ budget = MaxEvents

In(place) == {p \in Packet : at[p] = place}
Queued(d) == {p \in In("queue") : load[p].dst = d}

\* Moves every packet of S to a place.
Move(a, S, place) == [p \in Packet |-> IF p \in S THEN place ELSE a[p]]

\* The packets of the queue that have outlived their timeout: all have the
\* same timeout, so they are the oldest ones, any number of them.
Stale == {S \in SUBSET In("queue") :
            \A p \in S, q \in In("queue") \ S : p < q}

\* Device a packet is bound to differs from the device of the route.
Mismatch(p, dev) == load[p].oif \notin {AnyDev, dev}

-----------------------------------------------------------------------------
(* Sending a route request.                                                *)

\* (mutants) the limit is not tested; a request at the limit is dropped.
SendRequest_NoLimit(d, timers) ==
  /\ rreqCount' = rreqCount + 1
  /\ tbl' = [tbl EXCEPT ![d] = Searching(@)]
  /\ asked' = asked \cup {d}
  /\ running' = timers \cup {d}
  /\ UNCHANGED <<waiting, aborted>>
SendRequest_Forgets(d, timers) ==
  IF rreqCount = RreqRateLimit
  THEN running' = timers /\ UNCHANGED <<tbl, rreqCount, waiting, asked, aborted>>
  ELSE SendRequest_NoLimit(d, timers)

\* SendRequest(d), given the timers that are running when it is called:
\* deferred to the next window at the limit, else the entry goes under
\* search, the request is broadcast and the retry timer (re)started.
SendRequest(d, timers) ==
  IF rreqCount = RreqRateLimit
  THEN /\ waiting' = [waiting EXCEPT ![d] = @ + 1]
       /\ running' = timers
       /\ UNCHANGED <<tbl, rreqCount, asked, aborted>>
  ELSE LET e == Searching(tbl[d]) IN
       /\ rreqCount' = rreqCount + 1
       /\ tbl' = [tbl EXCEPT ![d] = e]
       /\ asked' = IF up = {} THEN asked ELSE asked \cup {d}
       /\ running' = timers \cup {d}
       /\ aborted' = (aborted \/ (e.hop >= NetDiameter /\ e.cnt = 0))
       /\ UNCHANGED waiting

\* SendPacketFromQueue(d, route): every packet for d leaves over dev, up to
\* the first one bound to another device, which is discarded and ends it.
Released(a, d, dev) ==
  LET mine == {p \in Packet : a[p] = "queue" /\ load[p].dst = d}
      bad  == {p \in mine : Mismatch(p, dev)}
  IN  [p \in Packet |->
         IF p \notin mine \/ \E q \in bad : q < p THEN a[p]
         ELSE IF p \in bad THEN "lost" ELSE "sent"]

-----------------------------------------------------------------------------
(* The application's packets.                                              *)

others == <<tbl, running, rreqCount, waiting, due, up, asked, aborted>>

\* RouteOutput: a packet with a valid route leaves at once (or is refused,
\* bound to another device); one without goes through the loopback device.
RouteOutput ==
  \E p \in In("app") :
    LET d == load[p].dst IN
    /\ \A q \in In("app") : p <= q
    /\ at' = [at EXCEPT ![p] =
                CASE up = {} -> "error"
                  [] up # {} /\ ~HasValid(tbl, d) -> "loop"
                  [] up # {} /\ HasValid(tbl, d) ->
                       IF Mismatch(p, tbl[d].dev) THEN "error" ELSE "sent"]
    /\ UNCHANGED <<others, load, budget>>

\* (mutants) one packet too many; the newest packet is the victim.
Enqueued_OneMore(p, stale) ==
  LET left   == In("queue") \ stale
      victim == IF Cardinality(left) > MaxQueueLen
                THEN {v \in left : \A q \in left : v <= q} ELSE {}
  IN  [Move(at, stale \cup victim, "error") EXCEPT ![p] = "queue"]
Enqueued_DropTail(p, stale) ==
  LET left   == In("queue") \ stale
      victim == IF Cardinality(left) >= MaxQueueLen
                THEN {v \in left : \A q \in left : q <= v} ELSE {}
  IN  [Move(at, stale \cup victim, "error") EXCEPT ![p] = "queue"]

\* Enqueue: stale packets go first, then the oldest if the queue is full.
Enqueued(p, stale) ==
  LET left   == In("queue") \ stale
      victim == IF Cardinality(left) >= MaxQueueLen
                THEN {v \in left : \A q \in left : v <= q} ELSE {}
  IN  [Move(at, stale \cup victim, "error") EXCEPT ![p] = "queue"]

\* (mutant) any entry at all is taken for a search in progress.
DeferredRouteOutput_AnyEntry ==
  \E p \in In("loop"), stale \in Stale :
    LET d == load[p].dst IN
    /\ up # {} /\ \A q \in In("loop") : p <= q
    /\ at' = Enqueued(p, stale)
    /\ IF Present(tbl, d)
       THEN UNCHANGED <<tbl, running, rreqCount, waiting, asked, aborted>>
       ELSE SendRequest(d, running)
    /\ UNCHANGED <<load, due, up, budget>>

\* DeferredRouteOutput: the packet comes back from the loopback device, is
\* buffered, and a request is sent unless its destination is under search.
\* What RouteOutput saw of the table may no longer be so.
DeferredRouteOutput ==
  \E p \in In("loop"), stale \in Stale :
    LET d == load[p].dst IN
    /\ up # {} /\ \A q \in In("loop") : p <= q
    /\ at' = Enqueued(p, stale)
    /\ IF InSearch(tbl, d)
       THEN UNCHANGED <<tbl, running, rreqCount, waiting, asked, aborted>>
       ELSE SendRequest(d, running)
    /\ UNCHANGED <<load, due, up, budget>>

\* RouteInput of a node that has lost its last interface in the meantime:
\* the packet is refused, and nobody is told.
RefusedRouteInput ==
  \E p \in In("loop") :
    /\ up = {} /\ \A q \in In("loop") : p <= q
    /\ at' = [at EXCEPT ![p] = "lost"]
    /\ UNCHANGED <<others, load, budget>>

-----------------------------------------------------------------------------
(* Timers.                                                                 *)

\* (mutant) the packets stay in the queue.
GiveUp_KeepsPackets(d) ==
  /\ tbl' = [tbl EXCEPT ![d] = NoRoute]
  /\ UNCHANGED <<at, rreqCount, waiting, asked, aborted>>

\* DeleteRoute and DropPacketWithDst: the search is over, the packets for d
\* go back to the application with an error.
GiveUp(d) ==
  /\ tbl' = [tbl EXCEPT ![d] = NoRoute]
  /\ \E stale \in Stale : at' = Move(at, stale \cup Queued(d), "error")
  /\ UNCHANGED <<rreqCount, waiting, asked, aborted>>

\* The network-wide requests are used up; (mutant) one too late.
Exhausted_OffByOne(e) == e.cnt > RreqRetries
Exhausted(e) == e.cnt = RreqRetries

\* RouteRequestTimerExpire(d), in the order of its tests: a valid route
\* releases the queue; the last network-wide request unanswered, or a route
\* that is no longer under search, ends the search; else ask again.
RouteRequestTimerExpire(d) ==
  /\ d \in running
  /\ \/ /\ HasValid(tbl, d)
        /\ \E stale \in Stale :
             at' = Released(Move(at, stale, "error"), d, tbl[d].dev)
        /\ running' = running \ {d}
        /\ UNCHANGED <<tbl, rreqCount, waiting, asked, aborted>>
     \/ /\ ~HasValid(tbl, d)
        /\ Exhausted(tbl[d]) \/ ~InSearch(tbl, d)
        /\ running' = running \ {d}
        /\ GiveUp(d)
     \/ /\ InSearch(tbl, d) /\ ~Exhausted(tbl[d])
        /\ SendRequest(d, running \ {d})
        /\ UNCHANGED at
  /\ UNCHANGED <<due, load, up, budget>>

\* RreqRateLimitTimerExpire: a new window; what was deferred to it is due
\* 100 microseconds later, long before the next one.
RreqRateLimitTimerExpire ==
  /\ \A d \in Dst : due[d] = 0
  /\ rreqCount > 0
  /\ rreqCount' = 0
  /\ due' = waiting
  /\ waiting' = [d \in Dst |-> 0]
  /\ UNCHANGED <<tbl, running, load, at, up, asked, aborted, budget>>

\* A deferred SendRequest(d) event: nothing is checked again.
DeferredRequest(d) ==
  /\ due[d] > 0
  /\ due' = [due EXCEPT ![d] = @ - 1]
  /\ SendRequest(d, running)
  /\ UNCHANGED <<load, at, up, budget>>

-----------------------------------------------------------------------------
(* AODV messages from other nodes.                                         *)

\* The environment's turn, and a message arriving on an open socket of dev.
Event == budget > 0 /\ budget' = budget - 1
Arrival(dev) == Event /\ dev \in up

\* A node one hop away sends over its own route, one further away does not.
OneHop(n, from, hop) == hop = 1 <=> from = n

\* UpdateRouteToNeighbor: on every AODV message, before it is looked at.  A
\* one-hop entry with a known sequence number on the same device only has
\* its lifetime extended; any other entry is replaced by a fresh one.
UpdateRouteToNeighbor(t, n, dev) ==
  IF n \notin Dst THEN t
  ELSE LET fresh == ValidEntry(1, FALSE, 0, dev) IN
       IF ~Present(t, n) THEN AddRoute(t, n, fresh)
       ELSE IF t[n].known /\ t[n].hop = 1 /\ t[n].dev = dev THEN t
       ELSE Update(t, n, fresh)

\* RecvReply's test: may the reply's route replace the entry there is?
Better(e, hop, seq) ==
  \/ ~e.known
  \/ Newer(seq, e.seq)
  \/ seq = e.seq /\ e.flag # "VALID"
  \/ seq = e.seq /\ hop < e.hop

\* RecvReply(d) from neighbour n.  A reply to this node's own request ends
\* the search if the entry is under search, and releases the queue in any
\* case; one that is only forwarded just updates the route.
RecvReply(d, n, mine, hop, seq, dev) ==
  LET t1    == UpdateRouteToNeighbor(tbl, n, dev)
      new   == ValidEntry(hop, TRUE, seq, dev)
      t2    == IF ~Present(t1, d) THEN AddRoute(t1, d, new)
               ELSE IF Better(t1[d], hop, seq) THEN Update(t1, d, new) ELSE t1
      ended == mine /\ InSearch(t1, d)
  IN /\ Arrival(dev)
     /\ OneHop(d, n, hop)
     /\ mine => d \in asked
     /\ tbl' = IF ended THEN Update(t2, d, new) ELSE t2
     /\ running' = IF ended THEN running \ {d} ELSE running
     /\ IF mine THEN \E stale \in Stale :
                     at' = Released(Move(at, stale, "error"), d, tbl'[d].dev)
        ELSE UNCHANGED at
     /\ UNCHANGED <<rreqCount, waiting, due, load, up, asked, aborted>>

\* A message that changes the table and nothing else of this module.
TableMessage(dev, t) ==
  /\ Arrival(dev)
  /\ tbl' = t
  /\ UNCHANGED <<running, rreqCount, waiting, due, load, at, up, asked,
                 aborted>>

\* ProcessHello from neighbour n, through RecvReply.
ProcessHello(n, seq, dev) ==
  LET t == UpdateRouteToNeighbor(tbl, n, dev) IN
  TableMessage(dev, Update(t, n, ValidEntry(1, TRUE, seq, dev)))

\* RecvRequest originated by o, received from n: the reverse route takes
\* hop count, device and sequence number but keeps its flag; the entry of
\* the previous hop becomes valid, with the originator's sequence number.
RecvRequest(o, n, hop, seq, dev) ==
  LET t1   == UpdateRouteToNeighbor(tbl, n, dev)
      e    == t1[o]
      rev  == [e EXCEPT !.known = TRUE, !.dev = dev, !.hop = hop,
                        !.seq = IF e.known /\ ~Newer(seq, @) THEN @ ELSE seq]
      t2   == IF Present(t1, o) THEN Update(t1, o, rev)
              ELSE AddRoute(t1, o, ValidEntry(hop, TRUE, seq, dev))
      prev == ValidEntry(1, FALSE, seq, dev)
  IN /\ OneHop(o, n, hop)
     /\ TableMessage(dev, IF n \in Dst THEN Update(t2, n, prev) ELSE t2)

\* RecvReplyAck from neighbour n: whatever its entry was, it is valid now.
RecvReplyAck(n, dev) ==
  LET t == UpdateRouteToNeighbor(tbl, n, dev) IN
  TableMessage(dev, Update(t, n, [t[n] EXCEPT !.flag = "VALID"]))

\* RecvError from neighbour n: the routes to lost went through n.
RecvError(n, lost, dev) ==
  TableMessage(dev,
    InvalidateRoutesWithDst(UpdateRouteToNeighbor(tbl, n, dev), lost))

-----------------------------------------------------------------------------
(* Routes and interfaces that go away.                                     *)

\* SendRerrWhenBreaksLinkToNextHop: the neighbour that lost went through
\* is gone.
LinkBreaks(lost) ==
  /\ Event /\ \E d \in lost : HasValid(tbl, d)
  /\ tbl' = InvalidateRoutesWithDst(tbl, lost)
  /\ UNCHANGED <<running, rreqCount, waiting, due, load, at, up, asked,
                 aborted>>

\* Purge(): a valid entry past its lifetime becomes invalid, an invalid one
\* disappears, and one under search stays whatever its lifetime.
Expire(d) ==
  /\ Event /\ tbl[d].flag \in {"VALID", "INVALID"}
  /\ tbl' = [tbl EXCEPT ![d] = IF HasValid(tbl, d) THEN Invalidated(@)
                                                   ELSE NoRoute]
  /\ UNCHANGED <<running, rreqCount, waiting, due, load, at, up, asked,
                 aborted>>

\* NotifyInterfaceDown: the routes over the interface are deleted, all of
\* them with the last one.  The request timers and the queue are left alone.
NotifyInterfaceDown(dev) ==
  /\ Event /\ dev \in up
  /\ up' = up \ {dev}
  /\ tbl' = [d \in Dst |-> IF up = {dev} \/ tbl[d].dev = dev THEN NoRoute
                                                            ELSE tbl[d]]
  /\ UNCHANGED <<running, rreqCount, waiting, due, load, at, asked, aborted>>

NotifyInterfaceUp(dev) ==
  /\ Event /\ dev \notin up
  /\ up' = up \cup {dev}
  /\ UNCHANGED <<tbl, running, rreqCount, waiting, due, load, at, asked,
                 aborted>>

-----------------------------------------------------------------------------
Receive ==
  \E n \in Dst \cup {Stranger}, dev \in Dev :
    \/ \E d \in Dst, hop \in Hops, seq \in ReplySeqs :
         \/ \E mine \in BOOLEAN : RecvReply(d, n, mine, hop, seq, dev)
         \/ RecvRequest(d, n, hop, seq, dev)
    \/ \E lost \in SUBSET Dst : RecvError(n, lost, dev)
    \/ n \in Dst /\ \E seq \in ReplySeqs : ProcessHello(n, seq, dev)
    \/ n \in Dst /\ RecvReplyAck(n, dev)

Failure ==
  \/ \E lost \in SUBSET Dst : LinkBreaks(lost)
  \/ \E d \in Dst : Expire(d)
  \/ \E dev \in Dev : NotifyInterfaceDown(dev) \/ NotifyInterfaceUp(dev)

\* An abort ends the program.
Next ==
  /\ ~aborted
  /\ \/ RouteOutput
     \/ DeferredRouteOutput
     \/ RefusedRouteInput
     \/ RreqRateLimitTimerExpire
     \/ \E d \in Dst : RouteRequestTimerExpire(d) \/ DeferredRequest(d)
     \/ Receive
     \/ Failure

Spec == Init /\ [][Next]_vars

\* The simulator executes every event that is scheduled: loopback delivery,
\* timers that run, deferred calls.  The environment promises nothing.
Fairness ==
  /\ WF_vars(~aborted /\ DeferredRouteOutput)
  /\ WF_vars(~aborted /\ RefusedRouteInput)
  /\ WF_vars(~aborted /\ RreqRateLimitTimerExpire)
  /\ \A d \in Dst : /\ WF_vars(~aborted /\ RouteRequestTimerExpire(d))
                    /\ WF_vars(~aborted /\ DeferredRequest(d))

FairSpec == Spec /\ Fairness

-----------------------------------------------------------------------------
(* Properties.                                                             *)

\* A retry timer runs for d, or a deferred SendRequest(d) is scheduled.
Supervised(d) == d \in running \/ waiting[d] + due[d] > 0

\* No search is forgotten: while an entry is under search, an event is
\* scheduled that will ask again or give up.  Entries go under search and
\* leave it in eight handlers, the timer is started and cancelled in three.
SearchSupervised == \A d \in Dst : InSearch(tbl, d) => Supervised(d)

\* No packet is forgotten: while the queue holds a packet for d, an event is
\* scheduled that will release or drop it, whatever became of the route.
\* SendPacketFromQueue breaks this for packets bound to a device.
QueueSupervised == \A d \in Dst : Queued(d) # {} => Supervised(d)

\* The assertion of ScheduleRreqRetry never fails: whenever a request goes
\* out with the network-wide ttl, it and its predecessors have been counted.
NeverAborts == ~aborted

\* If it fails, it is because the 8-bit count has wrapped around.
AbortsOnlyOnWrap ==
  [][aborted' => aborted \/ \E d \in Dst : tbl[d].cnt = CntMod - 1]_vars

\* At most RreqRetries network-wide requests per search: the comment in
\* RouteRequestTimerExpire says the packets are dropped then.
RetriesBounded == \A d \in Dst : tbl[d].cnt <= RreqRetries

\* A search ends, with a route or without.
SearchEnds == \A d \in Dst : InSearch(tbl, d) ~> ~InSearch(tbl, d)

\* A buffered packet is sent or reported to the application in the end.
PacketSettles == \A p \in Packet : at[p] = "queue" ~> at[p] # "queue"

\* m_queue never holds more than MaxQueueLen packets (the code tests for
\* equality before it appends).
QueueBounded == Cardinality(In("queue")) <= MaxQueueLen

\* Route discovery implements the packet buffer: whatever happens to routes,
\* requests and timers, packets leave in the ways PacketBuffer allows.  Not
\* so for packets bound to a device, which may be lost one by one.
Promise == INSTANCE PacketBuffer WITH for <- [p \in Packet |-> load[p].dst]
BufferSpec == Promise!Spec
=============================================================================
