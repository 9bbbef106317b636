------------------------- MODULE RoutingTable_proofs -------------------------
(***************************************************************************)
(* Proofs about the routing table: its types, the bound on how long an     *)
(* expired path is kept, and that no caller can tell the lazy table from   *)
(* the eager one of EagerTable.                                            *)
(***************************************************************************)
EXTENDS RoutingTable, TLAPS

ClockedEntry == [flag : RouteFlag, cnt : {0}, next : Hop \cup {NoHop},
                 left : Past .. Longest]
PathInfo == [stored : BOOLEAN, left : Oldest .. ActiveRouteTimeout]
View == [d \in Dst |-> Seen(rt[d])]
Ways == {w \in Way : Live(paths[w])}

LEMMA LongestIs ==
  /\ Longest \in Nat /\ ActiveRouteTimeout <= Longest
  /\ PathDiscoveryTime <= Longest /\ BadLinkLifetime <= Longest
BY TableAssumption DEF Longest, AtLeast

\* What the operations make of an entry is an entry.
LEMMA EntryMade ==
  /\ Missing \in ClockedEntry
  /\ \A h \in Hop, life \in 0 .. Longest : Route(h, life) \in ClockedEntry
  /\ \A e \in ClockedEntry : InvalidatedFor(e) \in ClockedEntry
<1>1. Missing \in ClockedEntry
  BY LongestIs, TableAssumption
     DEF Missing, Clocked, NoRoute, Past, ClockedEntry, RouteFlag
<1>2. \A h \in Hop, life \in 0 .. Longest : Route(h, life) \in ClockedEntry
  BY LongestIs DEF Route, Past, ClockedEntry, RouteFlag
<1>3. \A e \in ClockedEntry : InvalidatedFor(e) \in ClockedEntry
  <2> SUFFICES ASSUME NEW e \in ClockedEntry
               PROVE  InvalidatedFor(e) \in ClockedEntry
    OBVIOUS
  <2>1. Invalidated(e) \in ClockedEntry
    BY DEF Invalidated, ClockedEntry, RouteFlag
  <2>2. BadLinkLifetime \in Past .. Longest
    BY LongestIs, TableAssumption DEF Past
  <2> QED
    BY <2>1, <2>2 DEF InvalidatedFor, ClockedEntry
<1> QED
  BY <1>1, <1>2, <1>3

\* A purge keeps the type, and what it leaves is what was to be seen before.
LEMMA PurgedSeen ==
  ASSUME TypeOK
  PROVE  /\ Purged(rt) \in [Dst -> ClockedEntry]
         /\ \A d \in Dst : /\ Plain(Purged(rt)[d]) = Seen(rt[d])
                           /\ Seen(Purged(rt)[d]) = Seen(rt[d])
<1> SUFFICES ASSUME NEW d \in Dst
             PROVE  /\ Purged(rt)[d] \in ClockedEntry
                    /\ Plain(Purged(rt)[d]) = Seen(rt[d])
                    /\ Seen(Purged(rt)[d]) = Seen(rt[d])
  BY DEF Purged
<1> DEFINE e == rt[d]
           f == Purged(rt)[d]
<1>0. e \in ClockedEntry
  BY DEF TypeOK, ClockedEntry
<1>1. f = IF e.left >= 0 THEN e
          ELSE IF e.flag = "VALID" THEN InvalidatedFor(e)
          ELSE IF e.flag = "IN_SEARCH" THEN e ELSE Missing
  BY DEF Purged, HasValid, InSearch
<1>2. f \in ClockedEntry
  BY <1>0, <1>1, EntryMade
<1> HIDE DEF e, f
<1>3. CASE e.left >= 0 \/ e.flag = "IN_SEARCH"
  <2>1. f = e
    BY <1>0, <1>1, <1>3
  <2> QED
    BY <2>1, <1>2, <1>3 DEF Seen, e, f
<1>4. CASE ~(e.left >= 0) /\ e.flag = "VALID"
  <2>1. f = InvalidatedFor(e) /\ f.left = BadLinkLifetime /\ f.left >= 0
    BY <1>0, <1>1, <1>4, TableAssumption DEF InvalidatedFor, Invalidated, ClockedEntry
  <2>2. Plain(f) = Plain(Invalidated(e))
    BY <1>0, <2>1 DEF InvalidatedFor, Invalidated, Plain, ClockedEntry
  <2> QED
    BY <2>1, <2>2, <1>2, <1>4 DEF Seen, e, f
<1>5. CASE ~(e.left >= 0) /\ e.flag \notin {"VALID", "IN_SEARCH"}
  <2>1. f = Missing /\ Seen(e) = NoRoute
    BY <1>1, <1>5 DEF Seen
  <2>2. Plain(Missing) = NoRoute /\ Seen(Missing) = NoRoute
    BY DEF Plain, Missing, Clocked, NoRoute, Past, Seen
  <2> QED
    BY <2>1, <2>2, <1>2 DEF e, f
<1> QED
  BY <1>3, <1>4, <1>5

\* Dropping expired paths, to whatever destinations, cannot be noticed.
LEMMA DroppedWays ==
  ASSUME NEW p \in [Way -> PathInfo], NEW D
  PROVE  /\ Dropped(p, D) \in [Way -> PathInfo]
         /\ \A w \in Way : /\ Live(Dropped(p, D)[w]) <=> Live(p[w])
                           /\ Dropped(p, D)[w].stored =>
                                p[w].stored /\ Dropped(p, D)[w] = p[w]
                           /\ w[1] \in D /\ Dropped(p, D)[w].stored => Live(p[w])
<1>1. NoPath \in PathInfo
  BY TableAssumption DEF NoPath, PathInfo, Oldest
<1>2. \A w \in Way : Dropped(p, D)[w] = IF w[1] \in D /\ ~Live(p[w]) THEN NoPath ELSE p[w]
  BY DEF Dropped
<1>3. ~Live(NoPath) /\ ~NoPath.stored
  BY DEF Live, NoPath
<1>4. Dropped(p, D) \in [Way -> PathInfo]
  BY <1>1 DEF Dropped
<1> QED
  BY <1>2, <1>3, <1>4

Inv == TypeOK /\ StalePathsSwept

\* Dropping paths at a moment that is not a tick keeps the invariant.
LEMMA DroppedInv ==
  ASSUME Inv, NEW D, paths' = Dropped(paths, D) \/ paths' = paths, check' = check
  PROVE  /\ paths' \in [Way -> PathInfo] /\ StalePathsSwept'
         /\ {w \in Way : Live(paths'[w])} = Ways
<1>1. paths \in [Way -> PathInfo]
  BY DEF Inv, TypeOK, PathInfo
<1> QED
  BY <1>1, DroppedWays DEF Inv, StalePathsSwept, Ways

\* A handler that writes at most entries of the right type is safe.
LEMMA HandlerInv ==
  ASSUME Inv, NEW t \in [Dst -> ClockedEntry], NEW says, Handler(t, says)
  PROVE  Inv' /\ rt' = t /\ answer' = says /\ {w \in Way : Live(paths'[w])} = Ways
<1>1. /\ rt' = t /\ answer' = says /\ UNCHANGED <<fixed, multi, check>>
      /\ paths' = Dropped(paths, Dst) \/ paths' = paths
  BY DEF Handler, PurgedPaths
<1>2. /\ paths' \in [Way -> PathInfo] /\ StalePathsSwept'
      /\ {w \in Way : Live(paths'[w])} = Ways
  BY <1>1, DroppedInv
<1>3. TypeOK'
  BY <1>1, <1>2 DEF Inv, TypeOK, ClockedEntry, PathInfo
<1> QED
  BY <1>1, <1>2, <1>3 DEF Inv

-----------------------------------------------------------------------------
(* The steps of the eager table that the handlers take.                    *)

LEMMA SeenType ==
  ASSUME NEW e \in ClockedEntry
  PROVE  Seen(e) \in Eager!Entry
<1>1. Plain(e) \in Eager!Entry
  BY DEF Plain, ClockedEntry, Eager!Entry, RouteFlag, Eager!RouteFlag
<1>2. Plain(Invalidated(e)) \in Eager!Entry
  BY DEF Plain, Invalidated, ClockedEntry, Eager!Entry, RouteFlag, Eager!RouteFlag
<1>3. NoRoute \in Eager!Entry
  BY DEF NoRoute, Eager!Entry, RouteFlag, Eager!RouteFlag
<1> QED
  BY <1>1, <1>2, <1>3 DEF Seen

\* One entry is written: no other is seen to change.
LEMMA WriteStep ==
  ASSUME Inv, NEW d \in Dst, NEW t \in [Dst -> ClockedEntry],
         \A c \in Dst \ {d} : Seen(t[c]) = Seen(rt[c]),
         Handler(t, Silence)
  PROVE  Inv' /\ Eager!Write(d)
<1>1. Inv' /\ rt' = t /\ answer' = Silence /\ {w \in Way : Live(paths'[w])} = Ways
  BY HandlerInv
<1>2. Seen(t[d]) \in Eager!Entry
  BY SeenType
<1>3. View' = [View EXCEPT ![d] = View'[d]]
  BY <1>1 DEF View
<1>4. View'[d] \in Eager!Entry
  BY <1>1, <1>2 DEF View
<1> QED
  BY <1>1, <1>3, <1>4 DEF Eager!Write, View, Ways, Silence, Eager!Silence

\* Nothing is seen to change.
LEMMA IdleStep ==
  ASSUME Inv, NEW t \in [Dst -> ClockedEntry],
         \A c \in Dst : Seen(t[c]) = Seen(rt[c]),
         NEW says, Handler(t, says)
  PROVE  /\ Inv' /\ answer' = says
         /\ View' = View /\ Ways' = Ways
<1>1. Inv' /\ rt' = t /\ answer' = says /\ {w \in Way : Live(paths'[w])} = Ways
  BY HandlerInv
<1> QED
  BY <1>1 DEF View, Ways

-----------------------------------------------------------------------------
(* Tables that have just been purged, and what the handlers write to them. *)

Fresh(t) == t \in [Dst -> ClockedEntry] /\ \A d \in Dst : HasValid(t, d) => t[d].left >= 0

LEMMA PurgedFresh == TypeOK => Fresh(Purged(rt))
<1> SUFFICES ASSUME TypeOK, NEW d \in Dst, Purged(rt)[d].flag = "VALID"
             PROVE  Purged(rt)[d].left >= 0
  BY PurgedSeen DEF Fresh, HasValid
<1>1. rt[d] \in ClockedEntry
  BY DEF TypeOK, ClockedEntry
<1>2. InvalidatedFor(rt[d]).flag # "VALID" /\ Missing.flag # "VALID"
  BY <1>1 DEF InvalidatedFor, Invalidated, ClockedEntry, Missing, Clocked, NoRoute
<1> QED
  BY <1>1, <1>2 DEF Purged, HasValid, InSearch

\* Update and AddRoute write the entry of their destination and no other.
LEMMA WrittenType ==
  ASSUME NEW t \in [Dst -> ClockedEntry], NEW d \in Dst, NEW e \in ClockedEntry,
         NEW u \in {Update(t, d, e), AddRoute(t, d, e)}
  PROVE  u \in [Dst -> ClockedEntry] /\ \A c \in Dst \ {d} : u[c] = t[c]
<1>1. Settled(e) \in ClockedEntry
  BY DEF Settled, ClockedEntry
<1>2. u = t \/ u = [t EXCEPT ![d] = Settled(e)]
  BY DEF Update, AddRoute
<1> QED
  BY <1>1, <1>2

\* A valid route that is extended in time looks the same.
LEMMA ExtendedFresh ==
  ASSUME NEW t, Fresh(t), NEW d
  PROVE  Fresh(Extended(t, d)) /\ \A c \in Dst : Seen(Extended(t, d)[c]) = Seen(t[c])
<1>1. CASE ~(d \in Dst /\ HasValid(t, d))
  BY <1>1 DEF Extended
<1>2. CASE d \in Dst /\ HasValid(t, d)
  <2> DEFINE e == t[d]
             f == [e EXCEPT !.left = AtLeast(ActiveRouteTimeout, @)]
  <2>1. e \in ClockedEntry /\ e.left >= 0 /\ e.left \in 0 .. Longest
    BY <1>2, LongestIs DEF Fresh, ClockedEntry, Past
  <2>2. AtLeast(ActiveRouteTimeout, e.left) \in 0 .. Longest
    BY <2>1, LongestIs, TableAssumption DEF AtLeast
  <2>3. f \in ClockedEntry /\ f.left >= 0 /\ Plain(f) = Plain(e)
    BY <2>1, <2>2, LongestIs DEF ClockedEntry, Past, Plain
  <2>4. Seen(f) = Seen(e)
    BY <2>1, <2>3 DEF Seen
  <2>5. Extended(t, d) = [t EXCEPT ![d] = f]
    BY <1>2 DEF Extended
  <2>6. t \in [Dst -> ClockedEntry]
    BY DEF Fresh
  <2> HIDE DEF e, f
  <2>7. /\ Extended(t, d) \in [Dst -> ClockedEntry]
        /\ \A c \in Dst : Extended(t, d)[c] = IF c = d THEN f ELSE t[c]
    BY <1>2, <2>3, <2>5, <2>6
  <2> QED
    BY <2>3, <2>4, <2>7 DEF Fresh, HasValid, e
<1> QED
  BY <1>1, <1>2

\* LearnRoute, ReverseRoute, StartSearch and GiveUpSearch write one entry.
LEMMA WritingHandlers ==
  ASSUME Inv, NEW d \in Dst,
         \/ \E h \in Hop, life \in 1 .. ActiveRouteTimeout :
              LearnRoute(d, h, life) \/ ReverseRoute(d, h, life)
         \/ StartSearch(d) \/ GiveUpSearch(d)
  PROVE  Inv' /\ Eager!Write(d)
<1> DEFINE t == Purged(rt)
<1>0. /\ t \in [Dst -> ClockedEntry]
      /\ \A c \in Dst : Seen(t[c]) = Seen(rt[c]) /\ t[c] \in ClockedEntry
  BY PurgedSeen DEF Inv
<1>1. \A life \in 1 .. ActiveRouteTimeout : life \in 0 .. Longest /\ life \in Nat
  BY LongestIs, TableAssumption
<1>2. SUFFICES ASSUME NEW u \in [Dst -> ClockedEntry],
                      \A c \in Dst \ {d} : u[c] = t[c], Handler(u, Silence)
               PROVE  Inv' /\ Eager!Write(d)
  <2>1. ASSUME NEW h \in Hop, NEW life \in 1 .. ActiveRouteTimeout, LearnRoute(d, h, life)
        PROVE  Inv' /\ Eager!Write(d)
    <3>1. Route(h, life) \in ClockedEntry
      BY <1>1, EntryMade
    <3> QED
      BY <1>0, <1>2, <2>1, <3>1, WrittenType DEF LearnRoute
  <2>2. ASSUME NEW h \in Hop, NEW life \in 1 .. ActiveRouteTimeout, ReverseRoute(d, h, life)
        PROVE  Inv' /\ Eager!Write(d)
    <3>1. Route(h, life) \in ClockedEntry
      BY <1>1, EntryMade
    <3>2. AtLeast(life, t[d].left) \in Past .. Longest
      BY <1>0, <1>1, LongestIs DEF AtLeast, ClockedEntry, Past
    <3>3. [t[d] EXCEPT !.next = h, !.left = AtLeast(life, @)] \in ClockedEntry
      BY <1>0, <3>2 DEF ClockedEntry
    <3> QED
      BY <1>0, <1>2, <2>2, <3>1, <3>3, WrittenType DEF ReverseRoute
  <2>3. CASE StartSearch(d)
    <3> DEFINE e == [flag |-> "IN_SEARCH", cnt |-> 0, next |-> NoHop,
                     left |-> PathDiscoveryTime]
    <3>1. e \in ClockedEntry /\ [e EXCEPT !.next = t[d].next] \in ClockedEntry
      BY <1>0, LongestIs, TableAssumption DEF ClockedEntry, RouteFlag, Past
    <3> HIDE DEF e
    <3>2. Handler(IF Present(t, d) THEN Update(t, d, [e EXCEPT !.next = t[d].next])
                                   ELSE AddRoute(t, d, e), Silence)
      BY <2>3 DEF StartSearch, e
    <3> QED
      BY <1>0, <1>2, <3>1, <3>2, WrittenType
  <2>4. CASE GiveUpSearch(d)
    <3>1. [t EXCEPT ![d] = Missing] \in [Dst -> ClockedEntry]
      BY <1>0, EntryMade
    <3> QED
      BY <1>0, <1>2, <2>4, <3>1 DEF GiveUpSearch
  <2> QED
    BY <2>1, <2>2, <2>3, <2>4
<1> QED
  BY <1>0, <1>2, WriteStep

\* Forwarding and LocalDelivery only extend lifetimes.
LEMMA UsingHandlers ==
  ASSUME Inv, NEW o \in Dst, NEW d \in Dst, Forwarding(o, d) \/ LocalDelivery(o)
  PROVE  Inv' /\ Eager!Idle
<1> DEFINE t == Purged(rt)
           Same(u) == Fresh(u) /\ \A c \in Dst : Seen(u[c]) = Seen(rt[c])
<1>0. Same(t)
  BY PurgedSeen, PurgedFresh DEF Inv
<1>1. ASSUME NEW u, NEW c, Same(u) PROVE Same(Extended(u, c))
  BY <1>1, ExtendedFresh
<1> HIDE DEF Same, t
<1>2. \E u : Same(u) /\ Handler(u, Used)
  <2>1. CASE Forwarding(o, d)
    BY <1>0, <1>1, <2>1 DEF Forwarding, t
  <2>2. CASE LocalDelivery(o)
    BY <1>0, <1>1, <2>2 DEF LocalDelivery, t
  <2> QED
    BY <2>1, <2>2
<1>3. Inv' /\ answer' = Used /\ View' = View /\ Ways' = Ways
  BY <1>2, IdleStep DEF Same, Fresh
<1> QED
  BY <1>3 DEF Eager!Idle, View, Ways, Used, Eager!Used

\* A valid entry that is invalidated, and what is seen of it.
LEMMA LostSeen ==
  ASSUME NEW e \in ClockedEntry
  PROVE  /\ Plain(Invalidated(e)) = Eager!Invalidated(Plain(e))
         /\ Seen(InvalidatedFor(e)) = Eager!Invalidated(Plain(e))
<1>1. /\ Invalidated(e) \in ClockedEntry /\ Invalidated(e).flag = "INVALID"
      /\ Invalidated(e).cnt = 0 /\ Invalidated(e).next = e.next
  BY DEF Invalidated, ClockedEntry, RouteFlag
<1>2. /\ InvalidatedFor(e).flag = "INVALID" /\ InvalidatedFor(e).cnt = 0
      /\ InvalidatedFor(e).next = e.next /\ InvalidatedFor(e).left = BadLinkLifetime
  BY <1>1 DEF InvalidatedFor, ClockedEntry
<1>3. Plain(e) \in Eager!Entry /\ Plain(e).next = e.next
  BY DEF Plain, ClockedEntry, Eager!Entry, RouteFlag, Eager!RouteFlag
<1>4. /\ Eager!Invalidated(Plain(e)) \in Eager!Entry
      /\ Eager!Invalidated(Plain(e)).flag = "INVALID"
      /\ Eager!Invalidated(Plain(e)).cnt = 0
      /\ Eager!Invalidated(Plain(e)).next = e.next
  <2> HIDE DEF Plain
  <2> QED
    BY <1>3 DEF Eager!Invalidated, Eager!Entry, Eager!RouteFlag
<1>5. \A x, y \in Eager!Entry :
        x.flag = y.flag /\ x.cnt = y.cnt /\ x.next = y.next => x = y
  BY DEF Eager!Entry
<1>6. Plain(Invalidated(e)) = Eager!Invalidated(Plain(e))
  <2>1. /\ Plain(Invalidated(e)) \in Eager!Entry
        /\ Plain(Invalidated(e)).flag = "INVALID" /\ Plain(Invalidated(e)).cnt = 0
        /\ Plain(Invalidated(e)).next = e.next
    BY <1>1 DEF Plain, ClockedEntry, Eager!Entry, RouteFlag, Eager!RouteFlag
  <2> QED
    BY <2>1, <1>4, <1>5
<1>7. Seen(InvalidatedFor(e)) = Plain(Invalidated(e))
  BY <1>1, <1>2, TableAssumption DEF Seen, Plain
<1> QED
  BY <1>6, <1>7

\* LinkBreaks makes valid routes invalid.
LEMMA BreakingHandler ==
  ASSUME Inv, NEW h \in Hop, LinkBreaks(h)
  PROVE  Inv' /\ Eager!Age
<1> DEFINE t == Purged(rt)
           lost == {d \in Dst : d = h \/ (Present(t, d) /\ t[d].next = h)}
           u == [d \in Dst |-> IF d \in lost /\ HasValid(t, d)
                               THEN InvalidatedFor(t[d]) ELSE t[d]]
<1>0. /\ Fresh(t) /\ t \in [Dst -> ClockedEntry]
      /\ \A c \in Dst : Seen(t[c]) = Seen(rt[c]) /\ Plain(t[c]) = Seen(rt[c])
  BY PurgedSeen, PurgedFresh DEF Inv
<1>1. Handler(u, Silence)
  BY DEF LinkBreaks
<1> HIDE DEF t
<1>2. u \in [Dst -> ClockedEntry]
  BY <1>0, EntryMade
<1>3. ASSUME NEW d \in Dst PROVE Seen(u[d]) \in {View[d], Eager!Aged(View[d])}
  <2>1. CASE ~(d \in lost /\ HasValid(t, d))
    <3>1. u[d] = t[d]
      BY <2>1
    <3> QED
      BY <1>0, <3>1 DEF View
  <2>2. CASE d \in lost /\ HasValid(t, d)
    <3>1. Seen(u[d]) = Eager!Invalidated(View[d])
      BY <1>0, <2>2, LostSeen DEF View
    <3>2. View[d] = Plain(t[d]) /\ Plain(t[d]).flag = t[d].flag
      BY <1>0 DEF View, Plain
    <3>3. View[d].flag = "VALID"
      BY <2>2, <3>2 DEF HasValid
    <3> QED
      BY <3>1, <3>3 DEF Eager!Aged
  <2> QED
    BY <2>1, <2>2
<1> HIDE DEF u
<1>4. Inv' /\ rt' = u /\ answer' = Silence /\ {w \in Way : Live(paths'[w])} = Ways
  BY <1>1, <1>2, HandlerInv
<1> QED
  BY <1>3, <1>4 DEF Eager!Age, View, Ways, Silence, Eager!Silence

\* LookupRoute tells what is to be seen.
LEMMA LookingHandler ==
  ASSUME Inv, NEW d \in Dst, LookupRoute(d)
  PROVE  Inv' /\ Eager!LookUp(d)
<1> DEFINE says == [of |-> "route", dst |-> d, entry |-> Plain(Purged(rt)[d])]
<1>0. Purged(rt) \in [Dst -> ClockedEntry]
      /\ \A c \in Dst : Seen(Purged(rt)[c]) = Seen(rt[c]) /\ Plain(Purged(rt)[c]) = Seen(rt[c])
  BY PurgedSeen DEF Inv
<1>1. Handler(Purged(rt), says)
  BY DEF LookupRoute
<1>2. says = [of |-> "route", dst |-> d, entry |-> View[d]]
  BY <1>0 DEF View
<1> HIDE DEF says
<1>3. Inv' /\ answer' = says /\ View' = View /\ Ways' = Ways
  BY <1>0, <1>1, IdleStep
<1> QED
  BY <1>2, <1>3 DEF Eager!LookUp, Eager!Looked, View, Ways

\* Interfaces go down and come up.
LEMMA InterfaceSteps ==
  ASSUME Inv, (\E i : InterfaceDown(i)) \/ LastInterfaceDown \/ InterfaceUp
  PROVE  Inv' /\ (Eager!Remove \/ Eager!Idle)
<1>0. rt \in [Dst -> ClockedEntry] /\ Missing \in ClockedEntry /\ Seen(Missing) = NoRoute
  BY EntryMade DEF Inv, TypeOK, ClockedEntry, Missing, Clocked, NoRoute, Past, Seen
<1>1. CASE (\E i : InterfaceDown(i)) \/ LastInterfaceDown
  <2>1. /\ rt' \in [Dst -> ClockedEntry] /\ \A d \in Dst : rt'[d] \in {rt[d], Missing}
        /\ UNCHANGED <<paths, multi, check>> /\ fixed' \in BOOLEAN /\ answer' = Silence
    BY <1>0, <1>1 DEF InterfaceDown, LastInterfaceDown, Inv, TypeOK
  <2>2. Inv'
    BY <2>1 DEF Inv, TypeOK, StalePathsSwept, ClockedEntry
  <2>3. Eager!Remove
    BY <1>0, <2>1 DEF Eager!Remove, Silence, Eager!Silence, NoRoute, Eager!NoRoute
  <2> QED
    BY <2>2, <2>3
<1>2. CASE InterfaceUp
  <2>1. /\ rt' = Purged(rt) /\ fixed' = TRUE /\ answer' = Silence
        /\ UNCHANGED <<multi, check>>
        /\ paths' = Dropped(paths, Dst) \/ paths' = paths
    BY <1>2 DEF InterfaceUp, PurgedPaths
  <2>2. /\ paths' \in [Way -> PathInfo] /\ StalePathsSwept' /\ Ways' = Ways
    BY <2>1, DroppedInv DEF Ways
  <2>3. Purged(rt) \in [Dst -> ClockedEntry] /\ \A d \in Dst : Seen(rt'[d]) = Seen(rt[d])
    BY <2>1, PurgedSeen DEF Inv
  <2>4. Inv'
    BY <2>1, <2>2, <2>3 DEF Inv, TypeOK, ClockedEntry, PathInfo
  <2>5. Eager!Idle
    BY <2>1, <2>2, <2>3 DEF Eager!Idle, Ways, Silence, Eager!Silence
  <2> QED
    BY <2>4, <2>5
<1> QED
  BY <1>1, <1>2

-----------------------------------------------------------------------------
(* The multipath table, the timer and the clock.                           *)

\* The callers of the multipath table add, take out and ask.
LEMMA PathSteps ==
  ASSUME Inv,
         \/ \E w \in Way : AddMultipathRoute(w) \/ RemoveMultipathRoute(w)
         \/ \E d \in Dst : HasMultipathRoute(d)
  PROVE  Inv' /\ Eager!EagerNext
<1>0. paths \in [Way -> PathInfo] /\ NoPath \in PathInfo
  BY TableAssumption DEF Inv, TypeOK, PathInfo, NoPath, Oldest
<1>1. ASSUME NEW w \in Way, AddMultipathRoute(w)
      PROVE  Inv' /\ Eager!SetWays(Ways \cup {w})
  <2> DEFINE p == Dropped(paths, {w[1]})
             new == [stored |-> TRUE, left |-> ActiveRouteTimeout]
  <2>1. /\ paths' = [p EXCEPT ![w] = new] /\ answer' = Silence
        /\ UNCHANGED <<rt, fixed, multi, check>>
    BY <1>1 DEF AddMultipathRoute
  <2>2. new \in PathInfo /\ Live(new) /\ new.left = ActiveRouteTimeout
    BY TableAssumption DEF PathInfo, Oldest, Live
  <2>3. /\ p \in [Way -> PathInfo]
        /\ \A v \in Way : /\ Live(p[v]) <=> Live(paths[v])
                          /\ p[v].stored => paths[v].stored /\ p[v] = paths[v]
    BY <1>0, DroppedWays
  <2> HIDE DEF p, new
  <2>4. paths' \in [Way -> PathInfo] /\ \A v \in Way : paths'[v] = IF v = w THEN new ELSE p[v]
    BY <2>1, <2>2, <2>3
  <2>5. TypeOK'
    BY <2>1, <2>4 DEF Inv, TypeOK, PathInfo
  <2>6. StalePathsSwept'
    <3> SUFFICES ASSUME check # Off, NEW v \in Way, paths'[v].stored
                 PROVE  paths'[v].left > check - PathCheck
      BY <2>1 DEF StalePathsSwept
    <3>1. CASE v = w
      BY <3>1, <2>2, <2>4, TableAssumption DEF Inv, TypeOK, Off
    <3>2. CASE v # w
      BY <3>2, <2>3, <2>4 DEF Inv, StalePathsSwept
    <3> QED
      BY <3>1, <3>2
  <2>7. {v \in Way : Live(paths'[v])} = Ways \cup {w}
    BY <2>2, <2>3, <2>4 DEF Ways
  <2> QED
    BY <2>1, <2>5, <2>6, <2>7 DEF Inv, Eager!SetWays, Ways, Silence, Eager!Silence
<1>2. ASSUME NEW w \in Way, RemoveMultipathRoute(w)
      PROVE  Inv' /\ Eager!SetWays(Ways \ {w})
  <2> DEFINE q == [paths EXCEPT ![w] = NoPath]
             p == Dropped(q, {w[1]})
  <2>1. paths' = p /\ answer' = Silence /\ UNCHANGED <<rt, fixed, multi, check>>
    BY <1>2 DEF RemoveMultipathRoute
  <2>2. q \in [Way -> PathInfo] /\ \A v \in Way : q[v] = IF v = w THEN NoPath ELSE paths[v]
    BY <1>0
  <2> HIDE DEF q
  <2>3. /\ p \in [Way -> PathInfo]
        /\ \A v \in Way : /\ Live(p[v]) <=> Live(q[v])
                          /\ p[v].stored => q[v].stored /\ p[v] = q[v]
    BY <2>2, DroppedWays
  <2> HIDE DEF p
  <2>4. ~Live(NoPath) /\ ~NoPath.stored
    BY DEF Live, NoPath
  <2>5. TypeOK'
    BY <2>1, <2>3 DEF Inv, TypeOK, PathInfo
  <2>6. StalePathsSwept'
    BY <2>1, <2>2, <2>3, <2>4 DEF Inv, StalePathsSwept
  <2>7. {v \in Way : Live(paths'[v])} = Ways \ {w}
    BY <2>1, <2>2, <2>3, <2>4 DEF Ways
  <2> QED
    BY <2>1, <2>5, <2>6, <2>7 DEF Inv, Eager!SetWays, Ways, Silence, Eager!Silence
<1>3. ASSUME NEW d \in Dst, HasMultipathRoute(d)
      PROVE  Inv' /\ Eager!AskPath(d)
  <2>1. /\ paths' = Dropped(paths, {d}) /\ UNCHANGED <<rt, fixed, multi, check>>
        /\ answer' = [of |-> "path", dst |-> d,
                      found |-> \E w \in Way : w[1] = d /\ paths'[w].stored]
    BY <1>3 DEF HasMultipathRoute
  <2>2. /\ paths' \in [Way -> PathInfo] /\ StalePathsSwept'
        /\ {w \in Way : Live(paths'[w])} = Ways
    BY <2>1, DroppedInv
  <2>3. (\E w \in Way : w[1] = d /\ paths'[w].stored) <=> \E w \in Ways : w[1] = d
    <3>1. \A w \in Way : w[1] = d => (paths'[w].stored <=> Live(paths[w]))
      BY <1>0, <2>1, DroppedWays DEF Live
    <3> QED
      BY <3>1 DEF Ways
  <2>4. Inv'
    BY <2>1, <2>2 DEF Inv, TypeOK, PathInfo
  <2>5. answer' = Eager!Asked(Ways, d)
    BY <2>1, <2>3 DEF Eager!Asked
  <2> QED
    BY <2>1, <2>2, <2>4, <2>5 DEF Eager!AskPath, Ways
<1> QED
  BY <1>1, <1>2, <1>3 DEF Eager!EagerNext, Ways

\* The switch and the periodic check.
LEMMA CheckSteps ==
  ASSUME Inv, SetMultipathEnabled \/ PathQualityTimerExpire
  PROVE  Inv' /\ Eager!Idle
<1>0. paths \in [Way -> PathInfo] /\ check \in {Off} \cup 0 .. PathCheck
  BY DEF Inv, TypeOK, PathInfo
<1>1. CASE SetMultipathEnabled
  BY <1>1 DEF SetMultipathEnabled, Inv, TypeOK, StalePathsSwept, Eager!Idle,
              Silence, Eager!Silence
<1>2. CASE PathQualityTimerExpire
  <2>1. /\ UNCHANGED <<rt, fixed, multi>> /\ answer' = Silence
        /\ \/ paths' = Dropped(paths, Dst) /\ check' = PathCheck
           \/ paths' = paths /\ check' = Off
    BY <1>2 DEF PathQualityTimerExpire
  <2>2. /\ paths' \in [Way -> PathInfo] /\ Ways' = Ways
        /\ \A w \in Way : check' # Off /\ paths'[w].stored => Live(paths[w]) /\ paths'[w] = paths[w]
    <3>1. \A w \in Way : w[1] \in Dst
      BY TableAssumption
    <3> QED
      BY <1>0, <2>1, <3>1, DroppedWays DEF Ways
  <2>3. StalePathsSwept'
    BY <1>0, <2>1, <2>2, TableAssumption DEF StalePathsSwept, Live, PathInfo
  <2>4. TypeOK'
    BY <2>1, <2>2, TableAssumption DEF Inv, TypeOK, PathInfo
  <2> QED
    BY <2>1, <2>2, <2>3, <2>4 DEF Inv, Eager!Idle, Ways, Silence, Eager!Silence
<1> QED
  BY <1>1, <1>2

\* A tick ages entries and paths, and the bound on stale paths with them.
LEMMA TickStep ==
  ASSUME Inv, Tick
  PROVE  Inv' /\ Eager!Age
<1>0. /\ rt \in [Dst -> ClockedEntry] /\ paths \in [Way -> PathInfo]
      /\ check \in {Off} \cup 0 .. PathCheck /\ check # 0
      /\ check' = IF check = Off THEN Off ELSE check - 1
      /\ answer' = Silence /\ UNCHANGED <<fixed, multi>>
  BY DEF Inv, TypeOK, ClockedEntry, PathInfo, Tick
<1> DEFINE Older(e) == [e EXCEPT !.left = IF @ > Past THEN @ - 1 ELSE Past]
           Later(p) == IF p.stored
                       THEN [p EXCEPT !.left = IF @ > Oldest THEN @ - 1 ELSE Oldest]
                       ELSE p
<1>1. /\ rt' = [d \in Dst |-> Older(rt[d])]
      /\ paths' = [w \in Way |-> Later(paths[w])]
  BY DEF Tick
<1>2. ASSUME NEW e \in ClockedEntry
      PROVE  Older(e) \in ClockedEntry /\ Seen(Older(e)) \in {Seen(e), Eager!Aged(Seen(e))}
  <2> DEFINE f == Older(e)
  <2>1. /\ f \in ClockedEntry /\ f.flag = e.flag /\ f.cnt = e.cnt /\ f.next = e.next
        /\ f.left = IF e.left > Past THEN e.left - 1 ELSE Past
    BY LongestIs DEF ClockedEntry, Past
  <2> HIDE DEF f
  <2>2. Plain(f) = Plain(e) /\ Plain(e).flag = e.flag
    BY <2>1 DEF Plain
  <2>3. Plain(Invalidated(f)) = Eager!Invalidated(Plain(e))
    BY <2>1, <2>2, LostSeen
  <2>4. Plain(Invalidated(e)) = Eager!Invalidated(Plain(e))
    BY LostSeen
  <2>5. e.left \in Int
    BY DEF ClockedEntry, Past
  <2>6. NoRoute = Eager!NoRoute
    BY DEF NoRoute, Eager!NoRoute
  <2>7. ASSUME f.left >= 0 \/ e.flag = "IN_SEARCH" \/ e.left < 0
        PROVE  Seen(f) = Seen(e)
    <3>1. f.left >= 0 => e.left >= 0
      BY <2>1, <2>5 DEF Past
    <3>2. e.left < 0 => f.left < 0
      BY <2>1, <2>5 DEF Past
    <3>3. f.flag = e.flag /\ Plain(f) = Plain(e)
          /\ Plain(Invalidated(f)) = Plain(Invalidated(e))
      BY <2>1, <2>2, <2>3, <2>4
    <3>4. CASE f.left >= 0 \/ e.flag = "IN_SEARCH"
      BY <3>1, <3>3, <3>4 DEF Seen
    <3>5. CASE e.left < 0 /\ e.flag # "IN_SEARCH"
      <4>1. ~(e.left >= 0) /\ ~(f.left >= 0)
        BY <2>1, <2>5, <3>2, <3>5 DEF Past
      <4> QED
        BY <3>3, <3>5, <4>1 DEF Seen
    <3> QED
      BY <2>7, <3>4, <3>5
  <2>8. ASSUME f.left < 0, e.flag # "IN_SEARCH", e.left >= 0
        PROVE  Seen(f) = Eager!Aged(Seen(e))
    <3>1. Seen(e) = Plain(e)
      BY <2>8 DEF Seen
    <3>2. f.left \in Int
      BY <2>1 DEF ClockedEntry, Past
    <3> QED
      BY <2>1, <2>2, <2>3, <2>6, <2>8, <3>1, <3>2 DEF Seen, Eager!Aged
  <2>9. \/ f.left >= 0 \/ e.flag = "IN_SEARCH" \/ e.left < 0
        \/ f.left < 0 /\ e.flag # "IN_SEARCH" /\ e.left >= 0
    <3>1. f.left \in Int
      BY <2>1 DEF ClockedEntry, Past
    <3> QED
      BY <2>5, <3>1
  <2>10. Seen(f) = Seen(e) \/ Seen(f) = Eager!Aged(Seen(e))
    BY <2>7, <2>8, <2>9
  <2>11. f \in ClockedEntry
    BY <2>1
  <2> HIDE DEF Older
  <2> QED
    BY <2>10, <2>11 DEF f
<1>3. ASSUME NEW p \in PathInfo
      PROVE  /\ Later(p) \in PathInfo /\ Later(p).stored = p.stored
             /\ Later(p).stored => Later(p).left >= p.left - 1
             /\ Live(Later(p)) => Live(p)
  BY TableAssumption DEF PathInfo, Oldest, Live
<1> HIDE DEF Older, Later
<1>4. TypeOK'
  <2>1. check' \in {Off} \cup 0 .. PathCheck
    BY <1>0, TableAssumption DEF Off
  <2> QED
    BY <1>0, <1>1, <1>2, <1>3, <2>1 DEF Inv, TypeOK, ClockedEntry, PathInfo
<1>5. StalePathsSwept'
  <2> SUFFICES ASSUME check' # Off, NEW w \in Way, paths'[w].stored
               PROVE  paths'[w].left > check' - PathCheck
    BY DEF StalePathsSwept
  <2>1. /\ paths[w] \in PathInfo /\ paths'[w] = Later(paths[w])
        /\ paths[w].stored /\ paths'[w] \in PathInfo
        /\ paths'[w].left >= paths[w].left - 1
    BY <1>0, <1>1, <1>3
  <2>2. check # Off /\ check' = check - 1 /\ check \in Int
    BY <1>0 DEF Off
  <2>3. paths[w].left > check - PathCheck
    BY <2>1, <2>2 DEF Inv, StalePathsSwept
  <2>4. paths[w].left \in Int /\ paths'[w].left \in Int
    BY <2>1 DEF PathInfo, Oldest
  <2> QED
    BY <2>1, <2>2, <2>3, <2>4, TableAssumption
<1>6. \A d \in Dst : View'[d] \in {View[d], Eager!Aged(View[d])}
  BY <1>0, <1>1, <1>2 DEF View
<1>7. Ways' \subseteq Ways
  BY <1>0, <1>1, <1>3 DEF Ways
<1> QED
  BY <1>0, <1>4, <1>5, <1>6, <1>7
  DEF Inv, Eager!Age, View, Ways, Silence, Eager!Silence

-----------------------------------------------------------------------------
(* The theorems.                                                           *)

LEMMA InitInv == Init => Inv /\ Eager!EagerInit
<1> SUFFICES ASSUME Init PROVE Inv /\ Eager!EagerInit
  OBVIOUS
<1>1. NoPath \in PathInfo /\ ~NoPath.stored /\ ~Live(NoPath)
  BY TableAssumption DEF NoPath, PathInfo, Oldest, Live
<1>2. TypeOK
  <2>1. rt \in [Dst -> ClockedEntry] /\ paths \in [Way -> PathInfo]
    BY <1>1, EntryMade DEF Init
  <2>2. PathCheck \in 0 .. PathCheck
    BY TableAssumption
  <2>3. check = PathCheck /\ fixed = TRUE /\ multi = FALSE
    BY DEF Init
  <2>4. check \in {Off} \cup 0 .. PathCheck
    BY <2>2, <2>3
  <2>5. fixed \in BOOLEAN /\ multi \in BOOLEAN
    BY <2>3
  <2> QED
    BY <2>1, <2>4, <2>5 DEF TypeOK, ClockedEntry, PathInfo
<1>3. StalePathsSwept
  BY <1>1 DEF Init, StalePathsSwept
<1>4. Seen(Missing) = NoRoute
  BY DEF Seen, Missing, Clocked, NoRoute, Past
<1>5. Eager!EagerInit
  BY <1>1, <1>4 DEF Init, Eager!EagerInit, NoRoute, Eager!NoRoute, Silence, Eager!Silence
<1> QED
  BY <1>2, <1>3, <1>5 DEF Inv

LEMMA NextInv == Inv /\ [Next]_tblVars => Inv' /\ [Eager!EagerNext]_(Eager!eagerVars)
<1> SUFFICES ASSUME Inv, [Next]_tblVars
             PROVE  Inv' /\ [Eager!EagerNext]_(Eager!eagerVars)
  OBVIOUS
<1>1. ASSUME NEW d \in Dst,
             \/ \E h \in Hop, life \in 1 .. ActiveRouteTimeout :
                  LearnRoute(d, h, life) \/ ReverseRoute(d, h, life)
             \/ StartSearch(d) \/ GiveUpSearch(d)
      PROVE  Inv' /\ Eager!EagerNext
  BY <1>1, WritingHandlers DEF Eager!EagerNext
<1>2. ASSUME NEW o \in Dst, NEW d \in Dst, Forwarding(o, d) \/ LocalDelivery(o)
      PROVE  Inv' /\ Eager!EagerNext
  BY <1>2, UsingHandlers DEF Eager!EagerNext
<1>3. ASSUME NEW d \in Dst, LookupRoute(d)
      PROVE  Inv' /\ Eager!EagerNext
  BY <1>3, LookingHandler DEF Eager!EagerNext
<1>4. ASSUME NEW h \in Hop, LinkBreaks(h)
      PROVE  Inv' /\ Eager!EagerNext
  BY <1>4, BreakingHandler DEF Eager!EagerNext
<1>5. CASE (\E h \in Hop : InterfaceDown(IfaceOf[h])) \/ LastInterfaceDown \/ InterfaceUp
  BY <1>5, InterfaceSteps DEF Eager!EagerNext
<1>6. CASE \/ \E w \in Way : AddMultipathRoute(w) \/ RemoveMultipathRoute(w)
           \/ \E d \in Dst : HasMultipathRoute(d)
  BY <1>6, PathSteps
<1>7. CASE SetMultipathEnabled \/ PathQualityTimerExpire
  BY <1>7, CheckSteps DEF Eager!EagerNext
<1>8. CASE Tick
  BY <1>8, TickStep DEF Eager!EagerNext
<1>9. CASE UNCHANGED tblVars
  BY <1>9 DEF tblVars, Inv, TypeOK, StalePathsSwept, Eager!eagerVars
<1> QED
  BY <1>1, <1>2, <1>3, <1>4, <1>5, <1>6, <1>7, <1>8, <1>9 DEF Next

\* Every variable keeps its type; in particular no lifetime is ever longer
\* than the longest of the timeouts, however often routes are refreshed.
THEOREM TableTypeCorrect == Spec => []TypeOK
<1>1. Inv => TypeOK
  BY DEF Inv
<1> QED
  BY InitInv, NextInv, <1>1, PTL DEF Spec

\* Whatever purges are skipped, an expired path is never kept for longer than
\* the time since the last periodic check, while that check runs.
THEOREM ExpiredPathsSwept == Spec => []StalePathsSwept
<1>1. Inv => StalePathsSwept
  BY DEF Inv
<1> QED
  BY InitInv, NextInv, <1>1, PTL DEF Spec

\* The lazily purged table implements the eager one: no lookup and no handler
\* of the protocol can tell when entries are really removed.
THEOREM ImplementsEagerTable == Spec => EagerSpec_
  BY InitInv, NextInv, PTL DEF Spec, EagerSpec_, Eager!EagerSpec
=============================================================================
