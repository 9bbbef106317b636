# Verification of the BLE-MAODV routing protocol

TLA+ models, TLC runs and TLAPS proofs for the ns-3 AODV model in `src/aodv`,
with the multipath extension of this repository (BLE-MAODV). Paths below are
relative to `src/aodv/model` unless they say otherwise; "RP" is
`aodv-routing-protocol.cc`.

## 1. The system

One `RoutingProtocol` object runs on every node of a simulation. The simulator
is single-threaded: a handler runs to its end, so an action of a model is a whole
handler. What makes the protocol hard is between the handlers: timers, events
scheduled for later (deferred requests, jittered broadcasts, the loopback
device), and messages of other nodes that come in any order or not at all.

| Component | State | Operations | Talks to |
|---|---|---|---|
| Route discovery (RP) | `m_addressReqTimer`, `m_rreqCount` | `RouteOutput`, `DeferredRouteOutput`, `SendRequest`, `ScheduleRreqRetry`, `RouteRequestTimerExpire`, `RreqRateLimitTimerExpire` | routing table, request queue, network |
| Interfaces and addresses (RP) | `m_socketAddresses`, `m_socketSubnetBroadcastAddresses`, broadcast records in the routing table | `NotifyInterfaceUp`, `NotifyInterfaceDown`, `NotifyAddAddress`, `NotifyRemoveAddress` | called by the node; routing table, neighbour table, hello timer, MAC |
| Request queue (`aodv-rqueue`) | `m_queue` | `Enqueue`, `Dequeue`, `Find`, `DropPacketWithDst`, `Purge` | called by route discovery; error callback to the application |
| Routing table (`aodv-rtable`) | `m_ipv4AddressEntry`: flag, hop count, sequence number, next hop, precursors, lifetime, request count | `AddRoute`, `Update`, `LookupRoute`, `LookupValidRoute`, `DeleteRoute`, `InvalidateRoutesWithDst`, `Purge`, ... | read and written by every handler |
| Message handling (RP, `aodv-packet`) | `m_seqNo`, `m_requestId`, messages in flight | `RecvRequest`, `RecvReply`, `ProcessHello`, `RecvError`, `RecvReplyAck`, `SendReply*`, `SendRerr*` | other nodes, routing table |
| Request id cache (`aodv-id-cache`, `aodv-dpd`) | ids seen, with expiry | `IsDuplicate`, `Purge` | `RecvRequest`, multicast data |
| Neighbour table (`aodv-neighbor`) | `m_nb`, `m_ntimer` | `Update`, `IsNeighbor`, `Purge`, `ProcessTxError`, `Clear` | called by message handling and forwarding; reports broken links to RP |
| Hello messages (RP) | `m_htimer`, `m_lastBcastTime` | `HelloTimerExpire`, `SendHello` | neighbour tables of other nodes |
| Rate limit of route errors (RP) | `m_rerrCount`, its timer | `SendRerr*`, `RerrRateLimitTimerExpire` | |
| Multipath table, BLE metrics (`aodv-rtable`, RP) | `m_multipathTable`, weights, residual energy | `AddMultipathRoute`, `GetBestPath`, `PurgeMultipathRoutes`, two periodic timers | filled by replies that are forwarded, when enabled; no packet is forwarded over it |
| Helper, examples, tests, scratch programs | | set-up and experiments | not part of the protocol |

What makes each correct, and what is hard about it:

- **Route discovery.** Every search ends and every buffered packet is sent or
  reported, although routes appear and vanish under a search, requests are
  deferred by the rate limit, and interfaces go away. At most `RreqRetries`
  network-wide requests per search.
- **Message handling.** Sequence numbers are those of their owner and do not go
  back, one-hop routes are direct, replies find their way, routes do not form
  circles; under delay, reordering and loss.
- **Neighbours and hellos.** A dead link is reported within a bounded time, a
  live one is not.
- **Tables with lifetimes.** Entries, paths, packets and ids are purged only when
  somebody looks, and nobody may notice. Each packet is accounted for once.
- **Rate limits.** No more route errors per second than allowed.
- **Interfaces.** Sockets, broadcast records, routes and layer 2 feedback follow
  interfaces and addresses that change in any order.

`PROJECT.json` lists the hazards, each at its line, with the properties that
would catch it.

## 2. Modules

| Module | What it is |
|---|---|
| `RouteEntry` | The routing table as a value: entries and the operations of `RoutingTable` on them. |
| `SearchRing` | The expanding ring of `SendRequest`: next ttl and request count of an entry. |
| `RouteDiscovery` | One node: packets, queue, searches, timers, rate limit; the other nodes are the environment. |
| `PacketBuffer` | Abstract specification of what route discovery promises the application. |
| `AodvNetwork` | Several nodes that exchange requests, replies, errors, acks and hellos. |
| `Neighbors` | The neighbour table and its purge timer. |
| `HelloSensing` | Senders of hellos and a listener that keeps a `Neighbors` table. |
| `RoutingTable` | The table in memory: lifetimes, the lazy `Purge`, the multipath table and its timer. |
| `EagerTable` | Abstract specification: a table without a clock, from which entries and paths go by themselves. |
| `RequestQueue` | The queue in memory: lifetimes, lazy purge, duplicates, attributes set at run time. |
| `Sublist` | What is left of a vector after an erasure; used by `RequestQueue`. |
| `PunctualQueue` | Abstract specification: a first-in first-out queue that packets leave by themselves. |
| `IdCache` | The cache of request ids and that of broadcast packets. |
| `RerrLimit` | The count of route errors and its one-second window. |
| `NodeStores` | `RequestQueue`, `IdCache` and `RerrLimit` under one clock. |
| `Interfaces` | Sockets, records, routes, hellos and feedback as interfaces and addresses change. |
| `MC*` | Topologies and model values for TLC. |
| `*_proofs` | Theorems and proofs about the module in the name. |

How they fit together: `RouteEntry` is what `RouteDiscovery` and `AodvNetwork` work
with, and in both a route may age at any moment. That this is what the code's table
looks like to its callers is what `RoutingTable` shows by implementing `EagerTable`,
whose entries age at any moment. In the same way `RouteDiscovery` lets queued packets
expire at any moment, and `RequestQueue` implements `PunctualQueue`; `AodvNetwork`
never forgets a request id, and `HandledOnce` of `IdCache` says when that is right.

### RouteDiscovery

`tbl` is `m_routingTable` restricted to the destinations of interest, `running`
the destinations whose `m_addressReqTimer` runs, `waiting`/`due` the
`SendRequest` events that the rate limit has deferred to the next window / that
are due now. A packet is a number with a destination and possibly a device it is
bound to (`load`), and `at` says where it is: with the application, on its way
through the loopback device, in `m_queue`, sent, returned with an error, or lost
with nobody told. There is one action per handler, with its name. `Receive` lets
a neighbour send any message a node would accept (`Hops` and `ReplySeqs` bound
the fields, `MaxEvents` the number); `RecvReply` with `mine` is a reply to the
node's own request.

Time is left out, which allows more than the code does: a timer that runs may
expire at any moment, a queued packet may be too old at any moment (the oldest
ones first, all have the same timeout), a route may expire at any moment, and
the loopback device takes any time but keeps the order. Two orders that the code
imposes are kept: a timer that does not run does not expire, and deferred
requests fire (100 microseconds) before the next window ends.

### AodvNetwork

`net` is a set of messages, so they overtake each other; a message that stays
there for ever is lost. Each `Recv*` is the whole handler: `UpdateRouteToNeighbor`
first, then the handler's own updates in the code's order, among them the write
of a stale copy of the originator's entry in `RecvReply` (`WithPrecursors`).
`SendRequest` may happen at any moment to a pair in `Wanted`, also while the route
is valid: that happens in the code when a request was deferred or the packet was
in the loopback device while the route came. Messages whose next hop has no valid
route are themselves queued by the node that sends them; here this is a delay.
`Fault` is a hello, a link taken for broken, an unroutable packet or an expiry.

### Neighbors and HelloSensing

Times are relative to now and in ticks: a tick passes only when nothing is due, and
the state space stays finite without a horizon (the age of an overdue neighbour
is counted down to `Overdue` only). Every broadcast is scheduled with a delay of
up to `Jitter`. `Miss` is a broadcast the listener does not learn from: lost, or a
request it has seen, which returns as a duplicate before `m_nb.Update`; at most
`MaxMissed` in a row. `UseNeighbor` is data traffic, which counts as a sign of life.

### RoutingTable

Lifetimes are relative to now, in ticks; no timer is due when a tick passes, and what
is overdue is counted down to a bound only. `Handler` is the pattern of nearly all
handlers: they look something up, which purges both tables, and write an entry.
`DeleteAllRoutesFromInterface` and `Clear` do not purge, and `Purge` does nothing on
an empty table: `fixed` says whether loopback and broadcast records keep it from being
empty. `EagerSpec_` maps what is past its lifetime to what a purge would make of it.
The operations on paths that programs call through `GetRoutingTable` are actions.

### NodeStores

`RequestQueue`, `IdCache` and `RerrLimit` have no state in common and share the clock:
a tick passes in all three. The erasures of the queue are written by places (`Nth`,
`Kept`), without recursion, so that they can be reasoned about. `told` is what a call
returns to its caller, or which call it was: `PunctualQueue` has to give the same
answers, among them whether `Enqueue` took the packet. `owed` counts what the queue has accepted and not yet
handed out or reported, and is not in the code; neither are `age` and `news`, which say
how long ago a copy was handled, and whether the last call handled one. `toOne` and
`toMany` count the errors of a window, which `m_rerrCount` is meant to do.

### Interfaces

The sockets are counted for each interface address, the broadcast sockets separately
for open ones and those that were closed but stayed in the map. Which of two sockets
with the same address a lookup finds depends on pointers, so both are possible.
Assumed of the node (`Ipv4L3Protocol`): it brings an interface up only when it is down
and has an address, and down when it is up and has one; it notifies address changes
after it has made them; two interfaces share no subnet. A failure of `Bind` is not
modelled. After the first address of an interface goes, any other may be the first.

## 3. Runs

| Run | Result | What it shows |
|---|---|---|
| `disc_search` | holds | One destination, room for all requests, three environment events: never more than `RreqRetries` network-wide requests, no abort, every search ends, every buffered packet settles. |
| `disc_ratelimit` | holds | Two destinations share one request per window: every search and every buffered packet has a timer or a deferred request that will end it; the queue keeps its limit; the node implements `PacketBuffer`; the abort of `ScheduleRreqRetry` needs a wrap of the 8-bit count. |
| `disc_giveup` | violated | `RetriesBounded`: deferred requests carry the count past the test for equality. |
| `disc_stranded` | violated | `PacketSettles`: a packet bound to another device stops the release of the queue. |
| `net_tables` | holds | Both ends of a line of three search each other, with two faults: what tables and messages say of sequence numbers and neighbours is true (`SeqFromOwner`, `OneHopIsDirect`, `NextHopWasHeard`, `SeqBackOnlyByOwner`); requests are sent on once (`RequestsSentOnce`), the users of a reply's route are precursors of it (`ReplyUsersKnown`), valid routes are lost to errors alone (`LostByErrorsOnly`); and without faults both searches end in a route (`FoundWhenQuiet`). |
| `net_loop` | violated | `RepliesMakeNoLoop`: an intermediate reply to the node's own next hop closes a circle. |
| `hello_link` | holds | With one of three broadcasts missed, a live link is never reported; a dead one always is, in time. |
| `table_life` | holds | Two destinations, two next hops on two interfaces: the lazily purged table implements `EagerTable`; while the periodic check runs, no stale path is kept longer than one period. |
| `stores_clock` | holds | Queue, id caches and error limit under one clock: packets are accounted for once, `PunctualQueue` is implemented, copies are handled once in a lifetime, errors to single precursors keep the limit. |
| `rerr_flood` | violated | `ErrorsLimited`: two of the three ways to send an error do not count. |
| `ifaces` | holds | Two interfaces, four addresses, twelve changes: one unicast socket per interface, a record and an open broadcast socket for each that is up, a socket for every route, feedback once; what goes takes only its own routes with it, and the hellos only as the last (`LossesAreLocal`). |
| `iface_leak` | violated | `BroadcastSocketPerInterface`: a removed address leaves its broadcast socket in the map. |

The violated ones are disagreements between the code and its own words; the
quotes and the course of events are under "findings" in `PROJECT.json`.

Disagreements that were met on the way and have no run:

- RP:1754 says "Impossible! drop." of a reply that arrives where the originator's entry
  is under search. It happens when the forwarding node searches the originator itself
  (`RecvRequest` keeps the flag): the reply is lost. The search it was for does not stay
  open because of it in the instance of `net_tables` (`FoundWhenQuiet`): the two
  searches answer each other.
- `aodv-rtable.h:635` documents `InvalidateRoutesWithDst` to increment the sequence
  number. It does not (`aodv-rtable.cc:345`), and the model does not.
- With `AllowedHelloLoss` of 2, the default, one known request that puts a hello off is
  enough for a live link to be reported (RP:1361 returns before the neighbour is
  refreshed). `hello_link` uses 3.
- RP:849 cancels the hello timer with the last socket, and nothing starts it again:
  `LossesAreLocal` says when the hellos stop, and that they do not resume is not
  against any line of the repository.
- A broadcast socket that `iface_leak` leaves behind can still receive. RP:1298 then
  finds no interface for the address that has gone, and RP:1304 asks for the addresses
  of interface -1. `Interfaces!RecvAodv` requires an address that the node has, so
  this path is not modelled.
- RP:1736 replaces the entry under search by the reply whatever the sequence numbers
  say: the exception in `SeqBackOnlyByOwner`.

**Bounds.** Three packets fill a queue of two and overflow it, and leave one to
come back from the loopback device late. Ring constants are the smallest with a
local and a network-wide ring. `CntMod` is 4 where the wrap of the request count is
the subject and 256 elsewhere; `SeqMod` is 4 for one node, where received numbers
are given, and 16 in the network, where at most four are issued, so numbers do not
wrap there and `<=` compares them. Three nodes in a line are the least with an
intermediate node; `net_loop` needs the fourth. In `hello_link` an interval of two
ticks and a jitter of one is the coarsest clock in which the jitter is shorter than
the interval. A lifetime of `L` intervals survives `L - 2` missed broadcasts in a
row, whatever the jitter: the run uses 3 and 1. `RouteLife` is longer than the
lifetime of a hello, as the defaults are (3 s and 2 s). In `table_life` lifetimes are
one tick and the check comes every second tick, so that an entry can be fresh, at its
last instant, over, and over for longer than the check lets a path be; two next hops
on two interfaces let one interface go and the other stay. In `stores_clock` a
timeout of 0 or 1 ticks lets later packets expire before earlier ones, and limits of
1 and 2 let the limit fall below the length; two ids in one cache let one purge for
the other (the second cache, for data, is the same class and shares nothing with it). The two packets for the same destination are interchangeable there, and so
are the two ids: symmetry identifies states that differ by them. Twelve changes in `ifaces` are enough to bring both interfaces up, give
each its two addresses, and take all of it down again.

**Fairness.** The simulator executes every event that is scheduled and its clock
goes on: weak fairness of the timers, the deferred requests, the loopback device,
the delivery of what is in the air, and ticks. Nothing is assumed of the
environment: no reply ever needs to come. The other modules have safety properties
only and no fairness; `FoundWhenQuiet` states what holds once all has arrived.

**Deadlock.** Checked in `HelloSensing`, `RoutingTable` and `NodeStores`, whose clock
never stops, and in `Interfaces`. `RouteDiscovery` and `AodvNetwork` stop when the
bounds are used up and nothing is scheduled.

## 4. Proofs

Theorems hold for all constants that satisfy the named assumptions.

- `RouteDiscovery_proofs`: `TypeCorrect`; `SearchAlwaysSupervised`: an entry under
  search has a running timer or a deferred request. It is inductive with `TypeOK`:
  every handler either does not put an entry under search, or starts the timer, and
  the three that stop a timer leave the entry in another state or call
  `SendRequest`, which at the limit leaves a deferred request instead.
  `QueueAlwaysSupervised` says the same of buffered packets and assumes that no
  packet is bound to a device (`Bindings \subseteq {AnyDev}`; `disc_stranded` shows
  why). It needs `SearchSupervised`: `DeferredRouteOutput` sends no request when it
  finds a search, and relies on that search having an event. `RetryAbortsOnlyOnWrap`:
  the abort needs a count at its maximum. `QueueKeepsLimit`: only `DeferredRouteOutput`
  adds a packet, and where it makes room there is an oldest packet to give up (a
  well-founded minimum), so the cardinality does not grow.
  `RetriesKeptUnlessDeferred` and `NoAbortUnlessDeferred` are about behaviours in which
  the rate limit never defers a request (`NoneDeferred`, which holds throughout
  `disc_search`): a count above `RreqRetries` comes only from a deferred request, as
  `disc_giveup` shows. The invariant is `Counted`: only an entry under search has a count,
  and it is at most `RreqRetries`. `SendRequest` alone adds to it, and is called for an
  entry that is not under search, or by the timer, which tests the count first.
- `PacketBuffer_proofs`: `ImplementsPacketBuffer`, under the same assumption on
  bindings. The mapping takes the destination out of `load` and keeps `at`; all that
  concerns routes, requests and timers becomes stuttering.
- `Neighbors_proofs`: `SilenceReported`. The bound on overdue neighbours is not
  inductive; `Covered` is: a neighbour is overdue by no more than the purge timer
  has already run. Every purge restarts the timer, but it also removes whoever is
  overdue, so the bound survives callers that purge in between.
- `HelloSensing_proofs`: `UsesNeighborTable` (the protocol implements `NbSpec`), from
  which `SilentSendersReported` follows; `HelloTypeCorrect`, by the invariant that a
  broadcast which puts the hello off is no older than the timer has run.
  `LiveLinksKept` assumes that both lifetimes are at least
  `(MaxMissed + 1) * (HelloInterval + Jitter)`, as those of `hello_link` are. That the
  life of a live link is never over is not inductive; `Lasting` is: either a broadcast in
  the air will be delivered before the life ends, with time left for as many periods as
  deliveries may still be missed, or the next broadcast will be scheduled early enough
  for that. A broadcast may be put off by another, never beyond one interval after it.
- `AodvNetwork_proofs`: `NetworkTypeCorrect`, `RoutesOfOneHopDirect`,
  `SeqGoesBackOnlyByOwner`, for any number of nodes and any links, also one-way ones.
  `OneHopIsDirect` is not inductive: an entry that is invalid, or under search, becomes
  valid again, so `Sound` says of every entry that was ever a route that one hop means
  direct; and messages are part of the invariant (`GoodMsg`): a request with hop count
  0 is from its origin, a reply with hop count 0 from its destination. All handlers
  that receive are shown to be `Handled` steps, all others `Quiet` ones, and the
  invariant and the step property follow from those two forms. That an update is
  forward only needs `NewerAsymmetric`, for every size of the circle.
  `NumbersFromOwners` assumes `MaxRequests + 1 < SeqMod`, so that no number wraps and
  circular comparison is comparison. It is inductive together with `Inv` and `Issued`
  (numbers issued and requests left stay within the bound): a destination may take its
  next number from a request, and `Issued` says that this is never ahead of its own.
  `NextHopsHeard` and `RoutesLostByErrors` come from what each update does to a table
  (`Learns`): an entry that is a route now leads to the sender or where it led before
  (`Follows`), and a valid one stays valid (`Keeps`). Both relations compose, so the
  several updates of a handler come down to one; only `RecvError` does not keep, and
  `LossesNamed` says what it may take.
  `FloodEnds` rests on `OwnKnown`: a request in the air is known to the node that made
  it, because `SendRequest` itself fills the id cache; so a node that has not seen a
  request is not its origin. `UsersOfRepliesTold` follows the precursor lists through
  the updates of `WithPrecursors`: each adds (`WithPrecursorGrows`), and the entry that is
  written back from an older copy is the originator's. The updates before it touch that
  one only if the originator is the next hop to the destination, and what is lost then
  is not a precursor that the reply makes necessary.
- `RoutingTable_proofs`: `TableTypeCorrect`, `ExpiredPathsSwept`,
  `ImplementsEagerTable`. Most handlers look first and then write one entry; the
  refinement is one step of the abstract table because a purge does not change what is
  seen (`PurgedSeen`, `DroppedWays`). A tick is where things age, in the abstract table.
- `Interfaces_proofs`: `InterfacesTypeCorrect`, `SocketsFollowInterfaces`,
  `EveryRouteHasSocket`, `BroadcastsSent`, `BroadcastsHeard`, `FeedbackOnce`,
  `GoingIsLocal`. The invariant relates sockets to interfaces (`Sockets`), records and
  routes to sockets (`Tables`); `GoingIsLocal` needs it to read the emptiness of the
  socket map as "no address is in use" (`LeavingIsLocal`); the record needs that no two interfaces share a
  subnet, since the second would find the record of the first.
- `NodeStores_proofs`: `CopiesHandledOnce`: what is left of the lifetime of an id and
  the age of the last copy handled add up to the lifetime (`CacheInv`), so a purge
  cannot forget it earlier. `ErrorsToOneLimited`: `m_rerrCount` is the number of errors
  to single precursors, and the test stands before each. The queue rests on lemmas about
  erasure, proved from cardinalities alone: `Nth` numbers any finite set of places
  (`NthWorks`), keeping twice is keeping once (`KeptKept`), and what is kept and what is
  erased count up to the whole (`CountSplit`). `EveryPacketAccounted` is then inductive
  with the type (`Accounted`), since each handler reports what it erases;
  `QueueStaysInLimit` needs that the front is erased whenever the purged queue is at the
  limit; `ImplementsPunctualQueue` that purging changes nothing that a purge would keep,
  and that a tick takes away from the abstract queue just the places that expire.
  `StoresTypeCorrect` follows, since nothing enters the queue that is in it.

Assumptions worth knowing: `TtlThreshold < NetDiameter` and `RreqRetries >= 1`
(attributes the code does not check; outside, the retry logic aborts or never gives
up), a jitter no longer than `HelloInterval`, `NetDiameter > 1`, nobody asks for a
route to itself, and a queue limit of at least 1.

Only model-checked: liveness (`SearchEnds`, `PacketSettles`, `DeadAreDropped`), which
is out of the prover's reach, and `FoundWhenQuiet`: that a search ends in a route is a
fact about the whole exchange on the line of `net_tables`, far from any step
invariant, and on other topologies the ring, a lost reply or a one-way link may
prevent it. `RetriesBounded` and `NeverAborts` are proved only for behaviours without
deferred requests, which is where they hold.

## 5. Not modelled

- The blacklist of unidirectional links: the ack timer is started on a copy of the
  entry and never fires, and no handler reads the blacklist. `SetEntryState` and
  `RequestQueue::Find` have no callers.
- The split of errors at 255 destinations: `AddUnDestination` never refuses one, so the
  code's loop never splits.
- The BLE metrics (energy, signal strength, stability, adaptive weights): arithmetic on
  doubles whose result is only logged. `GetBestPath` computes scores and then chooses
  by hop count, and no packet is forwarded over a path of the multipath table, so which
  path is best is left out and only whether there is one is modelled.
- Forwarding of data: only its failure (`ForwardingFails`), and its effect on
  neighbours (`UseNeighbor`) and lifetimes (`Forwarding` of `RoutingTable`). Multicast
  only as the second use of `IdCache`.
- Construction, attributes and their defaults, the SetIpv4/DoDispose life cycle, header
  serialisation (a round trip that unit tests cover), helper, examples, scratch
  programs.
- General loop freedom: `RecvRequest` overwrites a reverse route with an older
  request, so it does not hold; only circles closed by replies are stated, since
  that is what the code sets out to prevent.

## 6. Plan

Done: route discovery with the packet buffer; the network; neighbours and hellos; the
routing and multipath tables against the eager table; queue, id caches and error limit
against the punctual queue; interfaces and addresses; theorems about all of them.

Left: a tighter bound for live links, `(MaxMissed + 1) * HelloInterval + Jitter`, which
needs a model that keeps two equal broadcasts of one sender apart. A proof that the
replies of destinations close no circle is not to be had for this code: an entry that
expires twice is forgotten with its sequence number (`Expire`), and an older reply that
is still on its way is then believed, as is an older request at any time (RP:1410).
