------------------------------- MODULE IdCache -------------------------------
(***************************************************************************)
(* aodv::IdCache and its two uses: the cache of request ids of             *)
(* RecvRequest and SendRequest, and DuplicatePacketDetection for broadcast *)
(* data in RouteInput.  A copy that is not known is handled (answered,     *)
(* forwarded, delivered) and remembered for the lifetime of the cache,     *)
(* which is fixed when the node is made.                                   *)
(***************************************************************************)
EXTENDS Integers

CONSTANTS
  Id, NoId,   \* <<source, id>> of requests, and of broadcast packets
  CacheOf,    \* the cache an id is looked up in
  Lifetime    \* m_lifetime, of both caches

ASSUME CacheAssumption == Lifetime \in Nat /\ NoId \notin Id

VARIABLES
  cache,   \* m_idCache: remaining lifetime of each id in its cache
  age,     \* time since a copy was handled last
  news     \* the id the last call took for new, and handled

cacheVars == <<cache, age, news>>

Unknown == -2
Ended   == -1              \* bound: least remaining lifetime
Never   == Lifetime + 1    \* bound: longest age

CacheTypeOK ==
  /\ cache \in [Id -> Unknown .. Lifetime]
  /\ age \in [Id -> 0 .. Never]
  /\ news \in Id \cup {NoId}

CacheInit ==
  /\ cache = [i \in Id |-> Unknown]
  /\ age = [i \in Id |-> Never]
  /\ news = NoId

\* (mutant) an id is forgotten at the very end of its lifetime.
Remembered_Early(c, k) ==
  [i \in Id |-> IF CacheOf[i] = k /\ c[i] <= 0 THEN Unknown ELSE c[i]]
\* Purge() of the cache k.
Remembered(c, k) ==
  [i \in Id |-> IF CacheOf[i] = k /\ c[i] < 0 THEN Unknown ELSE c[i]]

\* The id i is new, is handled, and is remembered from now on.
Handle(i, c) ==
  /\ cache' = [c EXCEPT ![i] = Lifetime]
  /\ age' = [age EXCEPT ![i] = 0] /\ news' = i

\* A copy arrives, or is sent: unless IsDuplicate knows it, it is handled.
Copy(i) ==
  LET c == Remembered(cache, CacheOf[i]) IN
  \/ c[i] = Unknown /\ Handle(i, c)
  \/ c[i] # Unknown /\ cache' = c /\ news' = NoId /\ UNCHANGED age

CacheTick ==
  /\ cache' = [i \in Id |-> IF cache[i] > Ended THEN cache[i] - 1 ELSE cache[i]]
  /\ age' = [i \in Id |-> IF age[i] < Never THEN age[i] + 1 ELSE Never]
  /\ news' = NoId

CacheSpec == CacheInit /\ [][(\E i \in Id : Copy(i)) \/ CacheTick]_cacheVars

-----------------------------------------------------------------------------
\* Whatever else arrives in between, and whoever purges the cache, copies
\* that come within the lifetime of the first are not handled again.  It is
\* why the ids of AodvNetwork are never forgotten: a request that is still
\* travelling is younger than the lifetime, the PathDiscoveryTime.
HandledOnce ==
  [][\A i \in Id : news' = i => age[i] > Lifetime]_cacheVars
=============================================================================
