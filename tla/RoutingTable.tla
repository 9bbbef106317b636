---------------------------- MODULE RoutingTable ----------------------------
(***************************************************************************)
(* aodv::RoutingTable as it is in memory: entries with lifetimes, purged   *)
(* only when somebody looks, beside the multipath table, whose paths are   *)
(* dropped when their destination is looked at, when the main table is     *)
(* purged, and by a timer of the protocol.                                 *)
(*                                                                         *)
(* The actions are the handlers of RoutingProtocol as far as the table is  *)
(* concerned, and the public operations that programs call through         *)
(* GetRoutingTable().  Lifetimes are relative to now, in ticks; a tick     *)
(* passes only when no timer is due.  The request count is the subject of  *)
(* SearchRing and stays 0 here.  The loopback and broadcast records never  *)
(* expire; only whether there are any matters (fixed), because Purge does  *)
(* nothing at all on an empty map.                                         *)
(***************************************************************************)
EXTENDS RouteEntry

CONSTANTS
  Dst,                \* destinations
  Hop,                \* next hops
  NoHop,              \* 0.0.0.0, the next hop of an entry that never had one
  Way,                \* <<d, h>>: replies for d may come through h
  IfaceOf,            \* interface over which a next hop is reached
  ActiveRouteTimeout,
  PathDiscoveryTime,
  BadLinkLifetime,    \* m_badLinkLifetime
  PathCheck           \* delay of m_pathQualityTimer

ASSUME TableAssumption ==
  /\ ActiveRouteTimeout \in Nat \ {0} /\ PathDiscoveryTime \in Nat \ {0}
  /\ BadLinkLifetime \in Nat /\ PathCheck \in Nat \ {0}
  /\ Way \subseteq Dst \X Hop /\ NoHop \notin Hop

VARIABLES
  rt,      \* m_ipv4AddressEntry
  fixed,   \* there are records that never expire in it
  paths,   \* m_multipathTable: [stored, left] for each <<destination, next hop>>
  multi,   \* m_multipathEnabled
  check,   \* m_pathQualityTimer
  answer   \* what the last call returned, if it was a lookup

tblVars == <<rt, fixed, paths, multi, check, answer>>

Off == -1                  \* a timer that is not running
Past == -1                 \* bound: least lifetime of an entry, all it shows
Oldest == -PathCheck - 1   \* bound: least lifetime of a path that is stored

NoPath == [stored |-> FALSE, left |-> 0]
Silence == [of |-> "nothing"]
Used    == [of |-> "use"]
NoRoute == [flag |-> "ABSENT", cnt |-> 0, next |-> NoHop]
Clocked(e, left) == [flag |-> e.flag, cnt |-> e.cnt, next |-> e.next, left |-> left]
Plain(e) == [flag |-> e.flag, cnt |-> e.cnt, next |-> e.next]
Missing == Clocked(NoRoute, Past)
Route(h, left) == [flag |-> "VALID", cnt |-> 0, next |-> h, left |-> left]

\* (mutant) a lifetime is added to what is left.
AtLeast_Sum(life, left) == life + left
AtLeast(life, left) == IF left > life THEN left ELSE life
Longest == AtLeast(ActiveRouteTimeout, AtLeast(PathDiscoveryTime, BadLinkLifetime))

TypeOK ==
  /\ rt \in [Dst -> [flag : RouteFlag, cnt : {0}, next : Hop \cup {NoHop},
                     left : Past .. Longest]]
  /\ fixed \in BOOLEAN /\ multi \in BOOLEAN
  /\ paths \in [Way -> [stored : BOOLEAN, left : Oldest .. ActiveRouteTimeout]]
  /\ check \in {Off} \cup 0 .. PathCheck

Init ==
  /\ rt = [d \in Dst |-> Missing] /\ fixed = TRUE
  /\ paths = [w \in Way |-> NoPath]
  /\ multi = FALSE /\ check = PathCheck
  /\ answer = Silence

-----------------------------------------------------------------------------
(* The two tables.                                                         *)

InvalidatedFor(e) == [Invalidated(e) EXCEPT !.left = BadLinkLifetime]

\* (mutant) the last instant of a lifetime does not count.
Purged_Early(t) ==
  [d \in Dst |-> IF t[d].left > 0 THEN t[d]
                 ELSE IF HasValid(t, d) THEN InvalidatedFor(t[d])
                 ELSE IF InSearch(t, d) THEN t[d] ELSE Missing]

\* Purge: what is past its lifetime becomes invalid, what was invalid goes.
Purged(t) ==
  [d \in Dst |-> IF t[d].left >= 0 THEN t[d]
                 ELSE IF HasValid(t, d) THEN InvalidatedFor(t[d])
                 ELSE IF InSearch(t, d) THEN t[d] ELSE Missing]

Live(p) == p.stored /\ p.left > 0

\* Paths to the destinations D lose those that have expired: AddPath,
\* GetBestPath, GetAllPaths, HasValidPath and PurgeMultipathRoutes all do.
Dropped(p, D) ==
  [w \in Way |-> IF w[1] \in D /\ ~Live(p[w]) THEN NoPath
                 ELSE p[w]]

\* Purge() ends with PurgeMultipathRoutes(), unless the main table is empty.
Empty == ~fixed /\ \A d \in Dst : ~Present(rt, d)
PurgedPaths == IF Empty THEN paths ELSE Dropped(paths, Dst)

\* A handler that looks something up first, and makes t of the table.
Handler(t, says) ==
  /\ rt' = t /\ paths' = PurgedPaths
  /\ answer' = says /\ UNCHANGED <<fixed, multi, check>>

-----------------------------------------------------------------------------
(* Handlers of the protocol.                                               *)

\* RecvReply, ProcessHello, UpdateRouteToNeighbor: a valid route through h.
LearnRoute(d, h, life) ==
  LET t == Purged(rt) IN
  Handler(IF Present(t, d) THEN Update(t, d, Route(h, life))
                           ELSE AddRoute(t, d, Route(h, life)), Silence)

\* RecvRequest: the reverse route keeps flag and request count.
ReverseRoute(d, h, life) ==
  LET t == Purged(rt) IN
  Handler(IF Present(t, d)
          THEN Update(t, d, [t[d] EXCEPT !.next = h, !.left = AtLeast(life, @)])
          ELSE AddRoute(t, d, Route(h, life)), Silence)

\* SendRequest: the entry goes under search for PathDiscoveryTime.
StartSearch(d) ==
  LET t == Purged(rt)
      e == [flag |-> "IN_SEARCH", cnt |-> 0, next |-> NoHop, left |-> PathDiscoveryTime]
  IN Handler(IF Present(t, d) THEN Update(t, d, [e EXCEPT !.next = t[d].next])
                              ELSE AddRoute(t, d, e), Silence)

\* RouteRequestTimerExpire: the search for d is given up, unless a route is
\* there; LookupValidRoute comes first.
GiveUpSearch(d) ==
  LET t == Purged(rt) IN
  Handler(IF HasValid(t, d) THEN t ELSE [t EXCEPT ![d] = Missing], Silence)

\* UpdateRouteLifeTime on a purged table: only a valid route is extended.
Extended(t, d) ==
  IF d \in Dst /\ HasValid(t, d)
  THEN [t EXCEPT ![d].left = AtLeast(ActiveRouteTimeout, @)] ELSE t

\* Forwarding of a packet from o to d; without a route nothing is extended.
Forwarding(o, d) ==
  LET t == Purged(rt) IN
  Handler(IF HasValid(t, d)
          THEN Extended(Extended(Extended(Extended(t, o), d), t[d].next), t[o].next)
          ELSE t, Used)

\* RouteInput: a packet from o has arrived; the way back to o is extended.
LocalDelivery(o) ==
  LET t == Extended(Purged(rt), o) IN
  Handler(IF HasValid(t, o) THEN Extended(t, t[o].next) ELSE t, Used)

\* SendRerrWhenBreaksLinkToNextHop: the routes through h, and the one to h.
LinkBreaks(h) ==
  LET t    == Purged(rt)
      lost == {d \in Dst : d = h \/ (Present(t, d) /\ t[d].next = h)}
  IN Handler([d \in Dst |-> IF d \in lost /\ HasValid(t, d)
                            THEN InvalidatedFor(t[d]) ELSE t[d]], Silence)

\* LookupRoute, LookupValidRoute.
LookupRoute(d) ==
  Handler(Purged(rt), [of |-> "route", dst |-> d, entry |-> Plain(Purged(rt)[d])])

\* DeleteAllRoutesFromInterface(i), while other interfaces remain.
InterfaceDown(i) ==
  /\ fixed
  /\ rt' = [d \in Dst |-> IF rt[d].next \in Hop /\ IfaceOf[rt[d].next] = i
                          THEN Missing ELSE rt[d]]
  /\ answer' = Silence /\ UNCHANGED <<fixed, paths, multi, check>>

\* Clear(): the last interface is gone, and the main table with it.
LastInterfaceDown ==
  /\ fixed /\ fixed' = FALSE
  /\ rt' = [d \in Dst |-> Missing]
  /\ answer' = Silence /\ UNCHANGED <<paths, multi, check>>

\* NotifyInterfaceUp adds the broadcast record; AddRoute purges first.
InterfaceUp ==
  /\ ~fixed /\ fixed' = TRUE
  /\ rt' = Purged(rt) /\ paths' = PurgedPaths
  /\ answer' = Silence /\ UNCHANGED <<multi, check>>

-----------------------------------------------------------------------------
(* The multipath table.                                                    *)

\* RecvReply ends with AddMultipathRoute when it has forwarded the reply.
AddMultipathRoute(w) ==
  /\ multi
  /\ paths' = [Dropped(paths, {w[1]}) EXCEPT
                 ![w] = [stored |-> TRUE, left |-> ActiveRouteTimeout]]
  /\ answer' = Silence /\ UNCHANGED <<rt, fixed, multi, check>>

\* RemoveMultipathRoute, for programs that use the table.
RemoveMultipathRoute(w) ==
  /\ paths' = Dropped([paths EXCEPT ![w] = NoPath], {w[1]})
  /\ answer' = Silence /\ UNCHANGED <<rt, fixed, multi, check>>

\* HasMultipathRoute, GetBestMultipathRoute: is there a path to d?
HasMultipathRoute(d) ==
  /\ paths' = Dropped(paths, {d})
  /\ answer' = [of |-> "path", dst |-> d,
                found |-> \E w \in Way : w[1] = d /\ paths'[w].stored]
  /\ UNCHANGED <<rt, fixed, multi, check>>

\* SetMultipathEnabled.
SetMultipathEnabled ==
  /\ multi' = ~multi
  /\ answer' = Silence /\ UNCHANGED <<rt, fixed, paths, check>>

\* (mutant) the timer is started again, the paths are left as they are.
PathQualityTimerExpire_Idle ==
  /\ check = 0
  /\ check' = IF multi THEN PathCheck ELSE Off
  /\ answer' = Silence /\ UNCHANGED <<rt, paths, fixed, multi>>

\* PathQualityTimerExpire: checks and goes on, or stops for good.
PathQualityTimerExpire ==
  /\ check = 0
  /\ IF multi THEN paths' = Dropped(paths, Dst) /\ check' = PathCheck
              ELSE check' = Off /\ UNCHANGED paths
  /\ answer' = Silence /\ UNCHANGED <<rt, fixed, multi>>

\* Time passes.
Tick ==
  /\ check # 0
  /\ rt' = [d \in Dst |-> [rt[d] EXCEPT !.left = IF @ > Past THEN @ - 1 ELSE Past]]
  /\ paths' = [w \in Way |-> IF paths[w].stored
                 THEN [paths[w] EXCEPT !.left = IF @ > Oldest THEN @ - 1 ELSE Oldest]
                 ELSE paths[w]]
  /\ check' = IF check = Off THEN Off ELSE check - 1
  /\ answer' = Silence /\ UNCHANGED <<fixed, multi>>

Next ==
  \/ \E d \in Dst, h \in Hop, life \in 1 .. ActiveRouteTimeout :
       LearnRoute(d, h, life) \/ ReverseRoute(d, h, life)
  \/ \E d \in Dst : \/ StartSearch(d) \/ GiveUpSearch(d) \/ LocalDelivery(d)
                    \/ LookupRoute(d) \/ HasMultipathRoute(d)
  \/ \E o, d \in Dst : Forwarding(o, d)
  \/ \E h \in Hop : LinkBreaks(h) \/ InterfaceDown(IfaceOf[h])
  \/ \E w \in Way : AddMultipathRoute(w) \/ RemoveMultipathRoute(w)
  \/ LastInterfaceDown \/ InterfaceUp
  \/ SetMultipathEnabled \/ PathQualityTimerExpire \/ Tick

Spec == Init /\ [][Next]_tblVars

-----------------------------------------------------------------------------
\* An entry as a caller would see it now: past its lifetime, a valid route
\* is lost and an invalid one forgotten, whoever notices and when.
Seen(e) ==
  IF e.left >= 0 \/ e.flag = "IN_SEARCH" THEN Plain(e)
  ELSE IF e.flag = "VALID" THEN Plain(Invalidated(e)) ELSE NoRoute

Eager == INSTANCE EagerTable WITH
  view <- [d \in Dst |-> Seen(rt[d])],
  ways <- {w \in Way : Live(paths[w])}

\* Although entries and paths are purged late, skipped, or not at all, no
\* caller can tell: every lookup is answered as if each had gone at the end
\* of its lifetime, and no handler brings one back.  It is what RouteEntry
\* and the modules that use it assume of the table.
EagerSpec_ == Eager!EagerSpec

\* While the periodic check runs, no path is kept that has been over for
\* longer than the time since the last check, also if the main table was
\* emptied in between and the other purges are skipped.
StalePathsSwept ==
  check # Off =>
    \A w \in Way : paths[w].stored => paths[w].left > check - PathCheck
=============================================================================
