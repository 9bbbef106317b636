----------------------------- MODULE AodvNetwork -----------------------------
(***************************************************************************)
(* Several AODV nodes that exchange route requests, replies, errors, acks  *)
(* and hellos: what happens to the routing tables of all of them, as       *)
(* messages are delayed, reordered and lost, routes age and links break.   *)
(*                                                                         *)
(* When a node asks for a route (queue, timers, rate limit) is the subject *)
(* of RouteDiscovery; here SendRequest may happen at any moment.  All      *)
(* nodes have one interface.  A message that is never received is lost.    *)
(***************************************************************************)
EXTENDS SearchRing, FiniteSets

CONSTANTS
  Node,
  Link,          \* <<m, n>>: n can hear m
  NoNode,        \* 0.0.0.0, the next hop of an entry that never had one
  Wanted,        \* <<n, d>>: n may ask for a route to d
  GratuitousReply, DestinationOnly,
  MaxRequests,   \* bound: route requests originated
  MaxFaults      \* bound: hellos, broken links, unroutable packets, expiries

ASSUME NetworkAssumption ==
  /\ Link \subseteq Node \X Node /\ NoNode \notin Node
  /\ \A l \in Link : l[1] # l[2]
  /\ Wanted \subseteq Node \X Node /\ \A w \in Wanted : w[1] # w[2]
  /\ GratuitousReply \in BOOLEAN /\ DestinationOnly \in BOOLEAN
  /\ MaxRequests \in Nat /\ MaxFaults \in Nat /\ NetDiameter > 1

VARIABLES
  rt,        \* m_routingTable of each node
  seqNo,     \* m_seqNo of each node
  reqId,     \* m_requestId of each node
  seen,      \* m_rreqIdCache of each node
  net,       \* messages in flight
  requests, faults   \* what is left of the bounds

vars == <<rt, seqNo, reqId, seen, net, requests, faults>>

-----------------------------------------------------------------------------
(* Entries and messages.                                                   *)

Entry == [flag : RouteFlag, hop : Nat, cnt : 0 .. CntMod - 1, known : BOOLEAN,
          seq : SeqNo, next : Node \cup {NoNode}, prec : SUBSET Node]

NoRoute == [flag |-> "ABSENT", hop |-> 0, cnt |-> 0, known |-> FALSE,
            seq |-> 0, next |-> NoNode, prec |-> {}]

Route(hop, known, seq, next) ==
  [flag |-> "VALID", hop |-> hop, cnt |-> 0, known |-> known, seq |-> seq,
   next |-> next, prec |-> {}]

Rreq == [type : {"RREQ"}, origin : Node, id : Nat, oseq : SeqNo, dst : Node,
         known : BOOLEAN, dseq : SeqNo, hop : Nat, ttl : 1 .. NetDiameter]
Rrep == [type : {"RREP"}, dst : Node, seq : SeqNo, origin : Node, hop : Nat,
         ttl : Nat, ack : BOOLEAN]
Rerr == [type : {"RERR"}, lost : SUBSET Node]
Ack  == [type : {"RREP_ACK"}]

\* A message reaches the nodes that can hear its sender.
Over(links, body) == {[from |-> l[1], to |-> l[2], body |-> body] : l \in links}
Broadcast(n, body)  == Over({l \in Link : l[1] = n}, body)
Unicast(n, m, body) == Over(Link \cap {<<n, m>>}, body)

TypeOK ==
  /\ rt \in [Node -> [Node -> Entry]]
  /\ seqNo \in [Node -> SeqNo] /\ reqId \in [Node -> Nat]
  /\ seen \in [Node -> SUBSET (Node \X Nat)]
  /\ \A q \in net :
       /\ <<q.from, q.to>> \in Link
       /\ q.body \in Rreq \/ q.body \in Rrep \/ q.body \in Rerr \/ q.body \in Ack
  /\ requests \in 0 .. MaxRequests /\ faults \in 0 .. MaxFaults

Init ==
  /\ rt = [n \in Node |-> [d \in Node |-> NoRoute]]
  /\ seqNo = [n \in Node |-> 0] /\ reqId = [n \in Node |-> 0]
  /\ seen = [n \in Node |-> {}]
  /\ net = {}
  /\ requests = MaxRequests /\ faults = MaxFaults

-----------------------------------------------------------------------------
(* Asking for a route.                                                     *)

\* (mutant) the node does not recognise its own request.
SendRequest_NotSeen(n, d) ==
  LET old  == rt[n][d]
      body == [type |-> "RREQ", origin |-> n, id |-> reqId[n] + 1,
               oseq |-> (seqNo[n] + 1) % SeqMod, dst |-> d,
               known |-> old.known, dseq |-> old.seq, hop |-> 0,
               ttl |-> NextTtl(old)]
  IN /\ requests > 0 /\ requests' = requests - 1
     /\ rt' = [rt EXCEPT ![n][d] = Searching(old)]
     /\ seqNo' = [seqNo EXCEPT ![n] = body.oseq]
     /\ reqId' = [reqId EXCEPT ![n] = body.id]
     /\ net' = net \cup Broadcast(n, body)
     /\ UNCHANGED <<seen, faults>>

\* SendRequest(d) at n: the entry goes under search, a new sequence number
\* and request id are used, and the node will know its own request again.
SendRequest(n, d) ==
  LET old  == rt[n][d]
      body == [type |-> "RREQ", origin |-> n, id |-> reqId[n] + 1,
               oseq |-> (seqNo[n] + 1) % SeqMod, dst |-> d,
               known |-> old.known, dseq |-> old.seq, hop |-> 0,
               ttl |-> NextTtl(old)]
  IN /\ requests > 0 /\ requests' = requests - 1
     /\ rt' = [rt EXCEPT ![n][d] = Searching(old)]
     /\ seqNo' = [seqNo EXCEPT ![n] = body.oseq]
     /\ reqId' = [reqId EXCEPT ![n] = body.id]
     /\ seen' = [seen EXCEPT ![n] = @ \cup {<<n, body.id>>}]
     /\ net' = net \cup Broadcast(n, body)
     /\ UNCHANGED faults

-----------------------------------------------------------------------------
(* Receiving.  t stands for the table of the receiving node throughout.    *)

\* UpdateRouteToNeighbor: the sender of any message is one hop away.
UpdateRouteToNeighbor(t, m) ==
  LET fresh == Route(1, FALSE, 0, m) IN
  IF ~Present(t, m) THEN AddRoute(t, m, fresh)
  ELSE IF t[m].known /\ t[m].hop = 1 THEN t ELSE Update(t, m, fresh)

\* InsertPrecursor(p) in the entry for d, if there is one.
WithPrecursor(t, d, p) ==
  IF d \in Node THEN Update(t, d, [t[d] EXCEPT !.prec = @ \cup {p}]) ELSE t

\* The message q leaves the network, the node n gets a new table, and the
\* messages out are sent.
Handle(n, q, t, out) ==
  /\ rt' = [rt EXCEPT ![n] = t]
  /\ net' = (net \ {q}) \cup out
  /\ UNCHANGED <<reqId, requests, faults>>

\* (mutant) the hop count is not incremented.
ReverseRoute_NoIncrement(t, b, m) ==
  LET e == t[b.origin] IN
  IF ~Present(t, b.origin)
  THEN AddRoute(t, b.origin, Route(b.hop, TRUE, b.oseq, m))
  ELSE Update(t, b.origin,
         [e EXCEPT !.seq = IF e.known /\ ~Newer(b.oseq, @) THEN @ ELSE b.oseq,
                   !.known = TRUE, !.next = m, !.hop = b.hop])

\* The reverse route takes next hop and hop count of the request, whatever
\* it was before, and the newer of the two sequence numbers.
ReverseRoute(t, b, m) ==
  LET e == t[b.origin] IN
  IF ~Present(t, b.origin)
  THEN AddRoute(t, b.origin, Route(b.hop + 1, TRUE, b.oseq, m))
  ELSE Update(t, b.origin,
         [e EXCEPT !.seq = IF e.known /\ ~Newer(b.oseq, @) THEN @ ELSE b.oseq,
                   !.known = TRUE, !.next = m, !.hop = b.hop + 1])

\* (mutant) the originator's sequence number passes for the neighbour's.
PreviousHop_Known(t, b, m) ==
  Update(t, m, [t[m] EXCEPT !.flag = "VALID", !.known = TRUE,
                            !.seq = b.oseq, !.hop = 1, !.next = m])

\* (mutant) the originator passes for the previous hop.
PreviousHop_Origin(t, b, m) ==
  Update(t, m, [t[m] EXCEPT !.flag = "VALID", !.known = FALSE,
                            !.seq = b.oseq, !.hop = 1, !.next = b.origin])

\* The previous hop: valid, with the sequence number of the originator.
PreviousHop(t, b, m) ==
  Update(t, m, [t[m] EXCEPT !.flag = "VALID", !.known = FALSE,
                            !.seq = b.oseq, !.hop = 1, !.next = m])

\* An entry for the destination is at least as fresh as the request asks.
FreshEnough(e, b) ==
  e.known /\ (~b.known \/ e.seq = b.dseq \/ Newer(e.seq, b.dseq))

\* (mutant) the reply reaches neighbours only.
OwnReply_OneHop(b, seq, back) ==
  [type |-> "RREP", dst |-> b.dst, seq |-> seq, origin |-> b.origin,
   hop |-> 0, ttl |-> 1, ack |-> FALSE]

\* SendReply: the destination answers with its own sequence number.
OwnReply(b, seq, back) ==
  [type |-> "RREP", dst |-> b.dst, seq |-> seq, origin |-> b.origin,
   hop |-> 0, ttl |-> back.hop, ack |-> FALSE]

\* SendReplyByIntermediateNode: a node with a valid route answers for the
\* destination, and tells the destination too if asked.
IntermediateReply(n, t, b) ==
  LET there == t[b.dst]
      back  == t[b.origin]
  IN Unicast(n, back.next,
       [type |-> "RREP", dst |-> b.dst, seq |-> there.seq,
        origin |-> b.origin, hop |-> there.hop, ttl |-> back.hop,
        ack |-> there.hop = 1])
     \cup IF GratuitousReply
          THEN Unicast(n, there.next,
                 [type |-> "RREP", dst |-> b.origin, seq |-> back.seq,
                  origin |-> b.dst, hop |-> back.hop, ttl |-> there.hop,
                  ack |-> FALSE])
          ELSE {}

\* The request as it is sent on.
Rebroadcast(n, e, b) ==
  LET asked == IF FreshEnough(e, b) THEN [b EXCEPT !.known = TRUE, !.dseq = e.seq]
                                    ELSE b
  IN IF b.ttl < 2 THEN {}
     ELSE Broadcast(n, [asked EXCEPT !.hop = @ + 1, !.ttl = @ - 1])

RecvRequest(n, q) ==
  LET m  == q.from
      b  == q.body
      t1 == UpdateRouteToNeighbor(rt[n], m)
      t3 == PreviousHop(ReverseRoute(t1, b, m), b, m)
      there == t3[b.dst]
      t4 == WithPrecursor(Update(t3, b.dst,
              [there EXCEPT !.prec = @ \cup {t3[b.origin].next}]),
              b.origin, there.next)
      seq == IF b.known /\ b.dseq = (seqNo[n] + 1) % SeqMod
             THEN b.dseq ELSE seqNo[n]
  IN /\ q.to = n /\ b.type = "RREQ"
     /\ \/ /\ <<b.origin, b.id>> \in seen[n]
           /\ Handle(n, q, t1, {}) /\ UNCHANGED <<seqNo, seen>>
        \/ /\ <<b.origin, b.id>> \notin seen[n]
           /\ seen' = [seen EXCEPT ![n] = @ \cup {<<b.origin, b.id>>}]
           /\ \/ /\ b.dst = n
                 /\ seqNo' = [seqNo EXCEPT ![n] = seq]
                 /\ Handle(n, q, t3, Unicast(n, t3[b.origin].next,
                                       OwnReply(b, seq, t3[b.origin])))
              \/ /\ b.dst # n /\ Present(t3, b.dst) /\ there.next = m
                 /\ Handle(n, q, t3, {}) /\ UNCHANGED seqNo
              \/ /\ b.dst # n /\ ~(Present(t3, b.dst) /\ there.next = m)
                 /\ UNCHANGED seqNo
                 /\ IF HasValid(t3, b.dst) /\ FreshEnough(there, b)
                       /\ ~DestinationOnly
                    THEN Handle(n, q, t4, IntermediateReply(n, t3, b))
                    ELSE Handle(n, q, t3, Rebroadcast(n, there, b))

-----------------------------------------------------------------------------
(* Replies, hellos and acks.                                               *)

\* (mutant) the sequence number is not compared.
Better_AnyValid(e, hop, seq) == e.flag # "VALID" \/ hop < e.hop \/ ~e.known

\* RecvReply's test: may the reply's route replace the entry there is?
Better(e, hop, seq) ==
  \/ ~e.known
  \/ Newer(seq, e.seq)
  \/ seq = e.seq /\ (e.flag # "VALID" \/ hop < e.hop)

\* (mutant) the entry for the destination is written back from a copy, too.
WithPrecursors_Stale(t, b) ==
  LET back  == t[b.origin]
      there == t[b.dst]
      t1 == WithPrecursor(WithPrecursor(t, b.dst, back.next), there.next, back.next)
      t2 == Update(t1, b.origin, [back EXCEPT !.prec = @ \cup {there.next}])
      t3 == Update(t2, b.dst, there)
  IN IF HasValid(t, b.dst) THEN WithPrecursor(t3, back.next, there.next) ELSE t

\* The precursor lists of the entries a reply passes by.  The entry for the
\* origin is written back from a copy taken before the others changed.
WithPrecursors(t, b) ==
  LET back  == t[b.origin]
      there == t[b.dst]
      t1 == WithPrecursor(WithPrecursor(t, b.dst, back.next), there.next, back.next)
      t2 == Update(t1, b.origin, [back EXCEPT !.prec = @ \cup {there.next}])
  IN IF HasValid(t, b.dst) THEN WithPrecursor(t2, back.next, there.next) ELSE t

\* (mutant) a failed lookup goes unnoticed.
NoWayBack_Unnoticed(back) == back.flag = "IN_SEARCH"

\* A reply is dropped if there is no entry for its origin, or one under search.
NoWayBack(back) == back.flag \in {"ABSENT", "IN_SEARCH"}

RecvReply(n, q) ==
  LET m   == q.from
      b   == q.body
      t1  == UpdateRouteToNeighbor(rt[n], m)
      new == Route(b.hop + 1, TRUE, b.seq, m)
      t2  == IF ~Present(t1, b.dst) THEN AddRoute(t1, b.dst, new)
             ELSE IF Better(t1[b.dst], b.hop + 1, b.seq)
                  THEN Update(t1, b.dst, new) ELSE t1
      back == t2[b.origin]
      ack == IF b.ack THEN Unicast(n, m, [type |-> "RREP_ACK"]) ELSE {}
      on  == IF b.ttl < 2 THEN {}
             ELSE Unicast(n, back.next, [b EXCEPT !.hop = @ + 1, !.ttl = @ - 1,
                                                  !.ack = FALSE])
  IN /\ q.to = n /\ b.type = "RREP" /\ b.dst # b.origin
     /\ UNCHANGED <<seqNo, seen>>
     /\ \/ /\ b.origin = n
           /\ Handle(n, q, IF InSearch(t1, b.dst) THEN Update(t2, b.dst, new)
                                                  ELSE t2, ack)
        \/ /\ b.origin # n /\ NoWayBack(back)
           /\ Handle(n, q, t2, ack)
        \/ /\ b.origin # n /\ ~NoWayBack(back)
           /\ Handle(n, q, WithPrecursors(t2, b), ack \cup on)

\* SendHello: a reply about the node itself, for whoever hears it.
SendHello(n) ==
  /\ faults > 0 /\ faults' = faults - 1
  /\ net' = net \cup Broadcast(n, [type |-> "RREP", dst |-> n, seq |-> seqNo[n],
                                   origin |-> n, hop |-> 0, ttl |-> 1,
                                   ack |-> FALSE])
  /\ UNCHANGED <<rt, seqNo, reqId, seen, requests>>

ProcessHello(n, q) ==
  LET d == q.body.dst
      t == UpdateRouteToNeighbor(rt[n], q.from)
  IN /\ q.to = n /\ q.body.type = "RREP" /\ d = q.body.origin
     /\ Handle(n, q, Update(t, d, [t[d] EXCEPT !.flag = "VALID", !.known = TRUE,
                               !.seq = q.body.seq, !.hop = 1, !.next = d]), {})
     /\ UNCHANGED <<seqNo, seen>>

RecvReplyAck(n, q) ==
  LET t == UpdateRouteToNeighbor(rt[n], q.from) IN
  /\ q.to = n /\ q.body.type = "RREP_ACK"
  /\ Handle(n, q, Update(t, q.from, [t[q.from] EXCEPT !.flag = "VALID"]), {})
  /\ UNCHANGED <<seqNo, seen>>

-----------------------------------------------------------------------------
(* Errors.                                                                 *)

\* Entries whose next hop is m, of whatever flag.
ThroughNextHop(t, m) == {d \in Node : Present(t, d) /\ t[d].next = m}

\* SendRerrMessage: to the only precursor if its route is valid, else to all
\* if the route to some precursor is.
SendRerrMessage(n, t, lost, prec) ==
  LET body  == [type |-> "RERR", lost |-> lost]
      known == {p \in prec : HasValid(t, p)}
  IN IF known = {} THEN {}
     ELSE IF Cardinality(prec) = 1
     THEN UNION {Unicast(n, p, body) : p \in prec}
     ELSE Broadcast(n, body)

\* (mutant) whatever goes through the sender is lost, named or not.
RecvError_All(n, q) ==
  LET t    == UpdateRouteToNeighbor(rt[n], q.from)
      lost == ThroughNextHop(t, q.from)
      prec == UNION {t[d].prec : d \in lost}
  IN /\ q.to = n /\ q.body.type = "RERR"
     /\ Handle(n, q, InvalidateRoutesWithDst(t, lost),
               IF lost = {} THEN {} ELSE SendRerrMessage(n, t, lost, prec))
     /\ UNCHANGED <<seqNo, seen>>

RecvError(n, q) ==
  LET t    == UpdateRouteToNeighbor(rt[n], q.from)
      lost == q.body.lost \cap ThroughNextHop(t, q.from)
      prec == UNION {t[d].prec : d \in lost}
  IN /\ q.to = n /\ q.body.type = "RERR"
     /\ Handle(n, q, InvalidateRoutesWithDst(t, lost),
               IF lost = {} THEN {} ELSE SendRerrMessage(n, t, lost, prec))
     /\ UNCHANGED <<seqNo, seen>>

\* SendRerrWhenBreaksLinkToNextHop: n takes its link to m for broken.
LinkBreaks(n, m) ==
  LET t    == rt[n]
      lost == {m} \cup ThroughNextHop(t, m)
      prec == UNION {t[d].prec : d \in lost}
  IN /\ faults > 0 /\ faults' = faults - 1
     /\ Present(t, m)
     /\ rt' = [rt EXCEPT ![n] = InvalidateRoutesWithDst(t, lost)]
     /\ net' = net \cup SendRerrMessage(n, t, lost, prec)
     /\ UNCHANGED <<seqNo, reqId, seen, requests>>

\* Forwarding of a packet from o to d that neighbour p has sent here, with
\* no valid route to d: SendRerrWhenNoRouteToForward.
ForwardingFails(n, p, o, d) ==
  LET body == [type |-> "RERR", lost |-> {d}] IN
  /\ faults > 0 /\ faults' = faults - 1
  /\ d # n /\ o # n /\ HasValid(rt[p], d) /\ rt[p][d].next = n
  /\ ~HasValid(rt[n], d)
  /\ net' = net \cup IF HasValid(rt[n], o) THEN Unicast(n, rt[n][o].next, body)
                                           ELSE Broadcast(n, body)
  /\ UNCHANGED <<rt, seqNo, reqId, seen, requests>>

\* Purge(): a lifetime has passed.
Expire(n, d) ==
  /\ faults > 0 /\ faults' = faults - 1
  /\ rt[n][d].flag \in {"VALID", "INVALID"}
  /\ rt' = [rt EXCEPT ![n][d] = IF HasValid(rt[n], d) THEN Invalidated(@)
                                                      ELSE NoRoute]
  /\ UNCHANGED <<seqNo, reqId, seen, net, requests>>

-----------------------------------------------------------------------------
Deliver(n, q) ==
  \/ RecvRequest(n, q) \/ RecvReply(n, q) \/ ProcessHello(n, q)
  \/ RecvReplyAck(n, q) \/ RecvError(n, q)

Fault ==
  \/ \E n \in Node : SendHello(n)
  \/ \E n, m \in Node : LinkBreaks(n, m) \/ Expire(n, m)
  \/ \E n, p, o, d \in Node : ForwardingFails(n, p, o, d)

Next ==
  \/ \E w \in Wanted : SendRequest(w[1], w[2])
  \/ \E q \in net : Deliver(q.to, q)
  \/ Fault

Spec == Init /\ [][Next]_vars

-----------------------------------------------------------------------------
(* Properties.                                                             *)

\* Every sequence number a node believes to be d's, and every one that a
\* message says is d's, was issued by d.
SeqFromOwner ==
  /\ \A n, d \in Node : rt[n][d].known => rt[n][d].seq <= seqNo[d]
  /\ \A q \in net :
       /\ q.body.type = "RREQ" => /\ q.body.oseq <= seqNo[q.body.origin]
                                  /\ q.body.known => q.body.dseq <= seqNo[q.body.dst]
       /\ q.body.type = "RREP" => q.body.seq <= seqNo[q.body.dst]

\* A valid route of one hop leads straight to its destination.
OneHopIsDirect ==
  \A n, d \in Node : HasValid(rt[n], d) /\ rt[n][d].hop = 1 => rt[n][d].next = d

\* An entry that is or was a route leads to a node that was heard: not to
\* 0.0.0.0, which is what a search begins with, and not past a neighbour.
NextHopWasHeard ==
  \A n, d \in Node : rt[n][d].flag \in {"VALID", "INVALID"}
                       => <<rt[n][d].next, n>> \in Link

\* A message that is taken out of the network, and what it is.
Taken == net \ net'
IsReply(q) == q.body.type = "RREP" /\ q.body.dst # q.body.origin

\* The node n is waiting for this reply, the answer to its own request.
AwaitedBy(q, n, d) == IsReply(q) /\ q.body.origin = n /\ InSearch(rt[n], d)

\* A sequence number a node knows for d only goes back on word from d, or when
\* the node takes the reply it is waiting for: no other reply, no request and
\* no error of another node replaces a newer one by an older.
SeqBackOnlyByOwner ==
  [][\A n, d \in Node :
       rt[n][d].known /\ rt'[n][d].known /\ Newer(rt[n][d].seq, rt'[n][d].seq)
         => \E q \in Taken : q.to = n /\ (q.from = d \/ AwaitedBy(q, n, d))]_vars

\* The flood ends: a node sends a request of another node on at most once,
\* and its own comes back to it only to be recognised.
RequestsSentOnce ==
  [][\A q \in net' \ net : q.body.type = "RREQ" =>
       IF q.from = q.body.origin THEN q.body.id > reqId[q.from]
       ELSE <<q.body.origin, q.body.id>> \notin seen[q.from]]_vars

\* Whoever is told of a valid route will be told when it is lost: it is a
\* precursor of the route, and the next hop is one of the way back, although
\* RecvReply writes one of the entries back from an older copy.
ReplyUsersKnown ==
  [][\A q \in net' \ net :
       LET t == rt'[q.from]
           b == q.body
       IN IsReply(q) /\ b.dst # q.from /\ HasValid(t, b.dst)
            => q.to \in t[b.dst].prec /\ t[b.dst].next \in t[b.origin].prec]_vars

\* No message takes a valid route away but an error that names it, from its
\* next hop or the destination itself.
LostByErrorsOnly ==
  [][\A q \in Taken, n, d \in Node :
       HasValid(rt[n], d) /\ ~HasValid(rt'[n], d)
         => /\ q.to = n /\ q.body.type = "RERR" /\ d \in q.body.lost
            /\ q.from \in {d, rt[n][d].next}]_vars

\* Nodes whose valid routes to d form a circle.
Circle(S, d) ==
  /\ S # {} /\ d \notin S
  /\ \A n \in S : HasValid(rt[n], d)
  /\ {rt[n][d].next : n \in S} = S

\* No reply closes a circle: a node is meant not to answer a request if its
\* reply would (the comment "This node RREP will make a loop" says so).
RepliesMakeNoLoop ==
  [][(\E q \in Taken : IsReply(q)) =>
       \A d \in Node, S \in SUBSET Node : Circle(S, d)' => Circle(S, d)]_vars

\* When everything that was sent has arrived and nothing has failed, nobody
\* is left without an answer: each search has ended in a route, whatever the
\* order in which requests, replies and those of others were received.
FoundWhenQuiet ==
  net = {} /\ faults = MaxFaults => \A w \in Wanted : ~InSearch(rt[w[1]], w[2])
=============================================================================
