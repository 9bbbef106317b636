-------------------------- MODULE NodeStores_proofs --------------------------
(***************************************************************************)
(* Proofs about the stores of a node: what the id cache, the limit of      *)
(* route errors and the request queue promise, whatever the other stores   *)
(* do in between, and that the queue implements PunctualQueue.             *)
(***************************************************************************)
EXTENDS NodeStores, FiniteSetTheorems, TLAPS

-----------------------------------------------------------------------------
(* The id cache.                                                           *)

\* The age of an id and its remaining lifetime add up to the lifetime, as
\* long as it lasts; an id that is over or unknown is older than that.
CacheInv ==
  /\ cache \in [Id -> Unknown .. Lifetime]
  /\ age \in [Id -> 0 .. Never]
  /\ \A i \in Id : age[i] = IF cache[i] < 0 THEN Never ELSE Lifetime - cache[i]

LEMMA CopyKeeps ==
  ASSUME CacheAssumption, CacheInv, NEW i \in Id, Copy(i)
  PROVE  CacheInv' /\ \A j \in Id : news' = j => age[j] > Lifetime
<1> DEFINE c == Remembered(cache, CacheOf[i])
<1> USE DEF CacheAssumption, CacheInv, Unknown, Never
<1>1. /\ c \in [Id -> Unknown .. Lifetime]
      /\ \A j \in Id : c[j] = cache[j] \/ (c[j] = Unknown /\ cache[j] < 0)
  BY DEF Remembered
<1>2. CASE c[i] = Unknown /\ Handle(i, c)
  <2>1. cache[i] < 0
    BY <1>1, <1>2
  <2>2. /\ cache' = [c EXCEPT ![i] = Lifetime]
        /\ age' = [age EXCEPT ![i] = 0] /\ news' = i
    BY <1>2 DEF Handle
  <2> HIDE DEF c
  <2> QED
    BY <1>1, <2>1, <2>2
<1>3. CASE c[i] # Unknown /\ cache' = c /\ news' = NoId /\ UNCHANGED age
  <2> HIDE DEF c
  <2> QED
    BY <1>1, <1>3
<1> QED
  BY <1>2, <1>3 DEF Copy

LEMMA CacheTickKeeps ==
  ASSUME CacheAssumption, CacheInv, CacheTick
  PROVE  CacheInv' /\ \A j \in Id : news' = j => age[j] > Lifetime
BY DEF CacheAssumption, CacheInv, CacheTick, Unknown, Never, Ended

LEMMA CacheStep ==
  ASSUME CacheAssumption, CacheInv, [Next]_storeVars
  PROVE  /\ CacheInv'
         /\ UNCHANGED cacheVars \/ \A i \in Id : news' = i => age[i] > Lifetime
<1>1. CASE UNCHANGED cacheVars
  BY <1>1 DEF cacheVars, CacheInv
<1>2. CASE Next
  <2>1. CASE UNCHANGED <<cacheVars, rerrVars>> \/ UNCHANGED <<queueVars, cacheVars>>
    BY <1>1, <2>1
  <2>2. CASE \E i \in Id : Copy(i)
    BY <2>2, CopyKeeps
  <2>3. CASE Tick
    BY <2>3, CacheTickKeeps DEF Tick
  <2> QED
    BY <1>2, <2>1, <2>2, <2>3 DEF Next
<1>3. CASE UNCHANGED storeVars
  BY <1>1, <1>3 DEF storeVars
<1> QED
  BY <1>2, <1>3

\* Whatever copies arrive and whenever the cache is purged, no copy is
\* handled again within the lifetime of the one handled before it.
THEOREM CopiesHandledOnce == Spec => HandledOnce
<1>1. Init => CacheInv
  BY CacheAssumption DEF Init, CacheInit, CacheInv, CacheAssumption, Unknown, Never
<1>2. CacheInv /\ [Next]_storeVars =>
        CacheInv' /\ [\A i \in Id : news' = i => age[i] > Lifetime]_cacheVars
  BY CacheAssumption, CacheStep
<1> QED
  BY <1>1, <1>2, PTL DEF Spec, HandledOnce

-----------------------------------------------------------------------------
(* The rate limit of route errors.                                         *)

\* The count is that of the errors to single precursors: nothing else counts.
RerrInv == rerrCount = toOne /\ rerrCount \in 0 .. RerrRateLimit

LEMMA RerrStep ==
  ASSUME RerrAssumption, RerrInv, [Next]_storeVars
  PROVE  RerrInv'
<1> USE DEF RerrInv, RerrAssumption
<1>1. CASE UNCHANGED rerrVars
  BY <1>1 DEF rerrVars
<1>2. CASE SendRerr
  BY <1>2 DEF SendRerr, SendRerrWhenNoRouteToForward, RerrRateLimitTimerExpire,
     SendRerrMessage, AtLimit
<1>3. CASE Tick
  BY <1>3 DEF Tick, RerrTick
<1>4. CASE UNCHANGED storeVars
  BY <1>1, <1>4 DEF storeVars
<1> QED
  BY <1>1, <1>2, <1>3, <1>4 DEF Next

\* No more than RERR_RATELIMIT errors go to single precursors per window.
THEOREM ErrorsToOneLimited == Spec => []UnicastErrorsLimited
<1>1. Init => RerrInv
  BY RerrAssumption DEF Init, RerrInit, RerrInv, RerrAssumption
<1>2. RerrInv /\ [Next]_storeVars => RerrInv'
  BY RerrAssumption, RerrStep
<1>3. RerrInv => UnicastErrorsLimited
  BY RerrAssumption DEF RerrInv, UnicastErrorsLimited, RerrAssumption
<1> QED
  BY <1>1, <1>2, <1>3, PTL DEF Spec
-----------------------------------------------------------------------------
(* Erasures.  Kept takes the k-th element that stays from the k-th least   *)
(* place; the place is known by how many there are up to it.               *)

Rank(I, i) == Cardinality({j \in I : j <= i})

LEMMA NthWorks ==
  ASSUME NEW n \in Nat, NEW I \in SUBSET (1 .. n)
  PROVE  /\ IsFiniteSet(I) /\ Cardinality(I) \in Nat /\ Cardinality(I) <= n
         /\ \A i \in I : /\ Rank(I, i) \in 1 .. Cardinality(I)
                         /\ Nth(I, Rank(I, i)) = i
         /\ \A k \in 1 .. Cardinality(I) : Nth(I, k) \in I /\ Rank(I, Nth(I, k)) = k
         /\ \A j, k \in 1 .. Cardinality(I) : j < k => Nth(I, j) < Nth(I, k)
<1> DEFINE U(i) == {j \in I : j <= i}
           c == Cardinality(I)
<1>0. \A i \in I : i \in Nat
  OBVIOUS
<1>1. IsFiniteSet(1 .. n) /\ Cardinality(1 .. n) = n
  BY FS_Interval
<1>2. IsFiniteSet(I) /\ c \in Nat /\ c <= n
  BY <1>1, FS_Subset, FS_CardinalityType
<1>3. \A i \in I : IsFiniteSet(U(i)) /\ Rank(I, i) \in Nat /\ Rank(I, i) <= c
  <2> SUFFICES ASSUME NEW i \in I
               PROVE  IsFiniteSet(U(i)) /\ Rank(I, i) \in Nat /\ Rank(I, i) <= c
    OBVIOUS
  <2>1. U(i) \in SUBSET I
    OBVIOUS
  <2> QED
    BY <1>2, <2>1, FS_Subset, FS_CardinalityType DEF Rank
<1>4. \A i \in I : Rank(I, i) # 0
  <2> SUFFICES ASSUME NEW i \in I PROVE Cardinality(U(i)) # 0
    BY DEF Rank
  <2>1. i \in U(i)
    OBVIOUS
  <2> QED
    BY <1>3, <2>1, FS_EmptySet
<1>5. \A i, j \in I : i < j => Rank(I, i) < Rank(I, j)
  <2> SUFFICES ASSUME NEW i \in I, NEW j \in I, i < j
               PROVE  Cardinality(U(i)) < Cardinality(U(j))
    BY DEF Rank
  <2>1. U(i) \in SUBSET U(j) /\ j \in U(j) /\ j \notin U(i)
    <3>1. i \in Nat /\ j \in Nat /\ ~(j <= i) /\ j <= j
      BY <1>0
    <3>2. \A x \in I : x <= i => x <= j
      BY <1>0, <3>1
    <3> QED
      BY <3>1, <3>2
  <2>2. Cardinality(U(i)) \in Nat /\ Cardinality(U(j)) \in Nat
    BY <1>3 DEF Rank
  <2>3. IsFiniteSet(U(j)) /\ U(j) # U(i)
    BY <1>3, <2>1
  <2> HIDE DEF U
  <2>4. Cardinality(U(i)) <= Cardinality(U(j)) /\ Cardinality(U(i)) # Cardinality(U(j))
    BY <2>1, <2>3, FS_Subset
  <2> QED
    BY <2>2, <2>4
<1>6. \A i \in I : Rank(I, i) \in 1 .. c
  <2> SUFFICES ASSUME NEW i \in I PROVE Rank(I, i) \in 1 .. c
    OBVIOUS
  <2>1. Rank(I, i) \in Nat /\ Rank(I, i) <= c /\ Rank(I, i) # 0
    BY <1>3, <1>4
  <2> HIDE DEF c
  <2> QED
    BY <1>2, <2>1
<1>7. \A i, j \in I : Rank(I, i) = Rank(I, j) => i = j
  <2> SUFFICES ASSUME NEW i \in I, NEW j \in I, i # j PROVE Rank(I, i) # Rank(I, j)
    OBVIOUS
  <2>1. i < j \/ j < i
    BY <1>0
  <2>2. Rank(I, i) \in Nat /\ Rank(I, j) \in Nat
    BY <1>3
  <2>3. Rank(I, i) < Rank(I, j) \/ Rank(I, j) < Rank(I, i)
    BY <1>5, <2>1
  <2> QED
    BY <2>2, <2>3
<1>8. \A k \in 1 .. c : \E i \in I : Rank(I, i) = k
  <2> DEFINE f == [i \in I |-> Rank(I, i)]
  <2>1. f \in Injection(I, 1 .. c)
    BY <1>6, <1>7 DEF Injection, IsInjective
  <2>2. IsFiniteSet(1 .. c) /\ Cardinality(1 .. c) = c
    BY <1>2, FS_Interval
  <2> HIDE DEF f
  <2>3. f \in Surjection(I, 1 .. c)
    BY <2>1, <2>2, FS_Injection
  <2> QED
    BY <2>3 DEF Surjection, f
<1>9. \A k \in 1 .. c : Nth(I, k) \in I /\ Rank(I, Nth(I, k)) = k
  BY <1>8 DEF Nth, Rank
<1>10. \A j, k \in 1 .. c : j < k => Nth(I, j) < Nth(I, k)
  <2> SUFFICES ASSUME NEW j \in 1 .. c, NEW k \in 1 .. c, ~(Nth(I, j) < Nth(I, k))
               PROVE  ~(j < k)
    OBVIOUS
  <2>1. Nth(I, j) \in I /\ Nth(I, k) \in I /\ Rank(I, Nth(I, j)) = j /\ Rank(I, Nth(I, k)) = k
    BY <1>9
  <2>2. Nth(I, k) < Nth(I, j) \/ Nth(I, k) = Nth(I, j)
    <3>1. Nth(I, j) \in Nat /\ Nth(I, k) \in Nat
      BY <1>0, <2>1
    <3> QED
      BY <3>1
  <2>3. k < j \/ k = j
    BY <1>5, <2>1, <2>2
  <2> QED
    BY <1>2, <2>3
<1> QED
  BY <1>2, <1>6, <1>7, <1>9, <1>10

\* Numbers enumerated from the least to the greatest are the Nth ones.
LEMMA NthUnique ==
  ASSUME NEW n \in Nat, NEW I \in SUBSET (1 .. n), NEW m \in Nat,
         NEW f \in [1 .. m -> I],
         \A j, k \in 1 .. m : j < k => f[j] < f[k],
         \A i \in I : \E k \in 1 .. m : f[k] = i
  PROVE  m = Cardinality(I) /\ \A k \in 1 .. m : f[k] = Nth(I, k)
<1>0. \A k \in 1 .. m : f[k] \in Int
  <2>1. \A i \in I : i \in Int
    OBVIOUS
  <2> QED
    BY <2>1
<1>1. \A j, k \in 1 .. m : f[j] = f[k] => j = k
  <2> SUFFICES ASSUME NEW j \in 1 .. m, NEW k \in 1 .. m, j # k PROVE f[j] # f[k]
    OBVIOUS
  <2>1. j < k \/ k < j
    OBVIOUS
  <2>2. f[j] \in Int /\ f[k] \in Int
    BY <1>0
  <2> QED
    BY <2>1, <2>2
<1>2. f \in Bijection(1 .. m, I)
  BY <1>1 DEF Bijection, Injection, IsInjective, Surjection
<1>3. m = Cardinality(I)
  BY <1>2, FS_CountingElements DEF ExistsBijection
<1>4. ASSUME NEW k \in 1 .. m PROVE Rank(I, f[k]) = k
  <2> DEFINE U == {j \in I : j <= f[k]}
             g == [x \in 1 .. k |-> f[x]]
  <2>1. \A x \in 1 .. m : f[x] <= f[k] <=> x <= k
    <3> SUFFICES ASSUME NEW x \in 1 .. m PROVE f[x] <= f[k] <=> x <= k
      OBVIOUS
    <3>1. f[x] \in Int /\ f[k] \in Int
      BY <1>0
    <3>2. x < k \/ x = k \/ k < x
      OBVIOUS
    <3> QED
      BY <3>1, <3>2
  <2>2. g \in [1 .. k -> U]
    BY <2>1
  <2>3. \A i \in U : \E x \in 1 .. k : f[x] = i
    BY <2>1
  <2>4. \A x, y \in 1 .. k : g[x] = g[y] => x = y
    BY <1>1
  <2>5. g \in Bijection(1 .. k, U)
    BY <2>2, <2>3, <2>4 DEF Bijection, Injection, IsInjective, Surjection
  <2> HIDE DEF U, g
  <2>6. Cardinality(U) = k
    BY <2>5, FS_CountingElements DEF ExistsBijection
  <2> QED
    BY <2>6 DEF Rank, U
<1> QED
  BY <1>3, <1>4, NthWorks

LEMMA KeptWorks ==
  ASSUME NEW S, NEW s \in Seq(S), NEW I \in SUBSET DOMAIN s
  PROVE  /\ Kept(s, I) \in Seq(S) /\ Len(Kept(s, I)) = Cardinality(I)
         /\ DOMAIN Kept(s, I) = 1 .. Cardinality(I)
         /\ Cardinality(I) \in Nat /\ Len(Kept(s, I)) <= Len(s)
         /\ \A k \in 1 .. Cardinality(I) : /\ Nth(I, k) \in I
                                           /\ Kept(s, I)[k] = s[Nth(I, k)]
<1>1. DOMAIN s = 1 .. Len(s) /\ Len(s) \in Nat
  OBVIOUS
<1>2. /\ Cardinality(I) \in Nat /\ Cardinality(I) <= Len(s)
      /\ \A k \in 1 .. Cardinality(I) : Nth(I, k) \in I
  BY <1>1, NthWorks
<1>3. Kept(s, I) \in [1 .. Cardinality(I) -> S]
  BY <1>1, <1>2 DEF Kept
<1>4. Kept(s, I) \in Seq(S) /\ Len(Kept(s, I)) = Cardinality(I)
  BY <1>2, <1>3
<1> QED
  BY <1>2, <1>3, <1>4 DEF Kept

\* If f enumerates the places of I, it tells what is kept.
LEMMA KeptIs ==
  ASSUME NEW S, NEW s \in Seq(S), NEW I \in SUBSET DOMAIN s, NEW t \in Seq(S),
         NEW f \in [1 .. Len(t) -> I],
         \A j, k \in 1 .. Len(t) : j < k => f[j] < f[k],
         \A i \in I : \E k \in 1 .. Len(t) : f[k] = i,
         \A k \in 1 .. Len(t) : t[k] = s[f[k]]
  PROVE  Kept(s, I) = t
<1>1. Len(s) \in Nat /\ DOMAIN s = 1 .. Len(s) /\ Len(t) \in Nat
  OBVIOUS
<1>2. Len(t) = Cardinality(I) /\ \A k \in 1 .. Len(t) : f[k] = Nth(I, k)
  <2> DEFINE m == Len(t)
             n == Len(s)
  <2>1. m \in Nat /\ n \in Nat /\ I \in SUBSET (1 .. n) /\ f \in [1 .. m -> I]
    BY <1>1
  <2>2. /\ \A j, k \in 1 .. m : j < k => f[j] < f[k]
        /\ \A i \in I : \E k \in 1 .. m : f[k] = i
    OBVIOUS
  <2> HIDE DEF m, n
  <2>3. m = Cardinality(I) /\ \A k \in 1 .. m : f[k] = Nth(I, k)
    BY <2>1, <2>2, NthUnique
  <2> QED
    BY <2>3 DEF m
<1>3. t = [k \in 1 .. Len(t) |-> s[Nth(I, k)]]
  BY <1>2
<1> QED
  BY <1>2, <1>3 DEF Kept

LEMMA KeptAll ==
  ASSUME NEW S, NEW s \in Seq(S)
  PROVE  Kept(s, DOMAIN s) = s
<1> DEFINE f == [k \in 1 .. Len(s) |-> k]
<1>1. f \in [1 .. Len(s) -> DOMAIN s] /\ \A k \in 1 .. Len(s) : f[k] = k
  OBVIOUS
<1> HIDE DEF f
<1> QED
  BY <1>1, KeptIs

\* What two erasures leave, one could leave.
LEMMA KeptKept ==
  ASSUME NEW S, NEW s \in Seq(S), NEW I \in SUBSET DOMAIN s,
         NEW J \in SUBSET DOMAIN Kept(s, I), NEW H \in SUBSET I,
         \A k \in 1 .. Cardinality(I) : k \in J <=> Nth(I, k) \in H
  PROVE  Kept(Kept(s, I), J) = Kept(s, H)
<1> DEFINE u == Kept(s, I)
           t == Kept(u, J)
           f == [k \in 1 .. Len(t) |-> Nth(I, Nth(J, k))]
<1>1. /\ u \in Seq(S) /\ Len(u) = Cardinality(I) /\ Len(u) \in Nat
      /\ DOMAIN u = 1 .. Len(u) /\ DOMAIN s = 1 .. Len(s) /\ Len(s) \in Nat
      /\ \A k \in 1 .. Len(u) : u[k] = s[Nth(I, k)]
  BY KeptWorks
<1>2. /\ \A i \in I : \E k \in 1 .. Len(u) : Nth(I, k) = i
      /\ \A j, k \in 1 .. Len(u) : j < k => Nth(I, j) < Nth(I, k)
  BY <1>1, NthWorks
<1> HIDE DEF u
<1>3. /\ t \in Seq(S) /\ Len(t) = Cardinality(J) /\ Len(t) \in Nat
      /\ \A k \in 1 .. Len(t) : Nth(J, k) \in J /\ t[k] = u[Nth(J, k)]
  BY <1>1, KeptWorks DEF u
<1>4. /\ \A i \in J : \E k \in 1 .. Len(t) : Nth(J, k) = i
      /\ \A j, k \in 1 .. Len(t) : j < k => Nth(J, j) < Nth(J, k)
  BY <1>1, <1>3, NthWorks DEF u
<1>5. J \subseteq 1 .. Len(u)
  BY <1>1 DEF u
<1> HIDE DEF t
<1>6. f \in [1 .. Len(t) -> H] /\ \A k \in 1 .. Len(t) : f[k] = Nth(I, Nth(J, k))
  BY <1>1, <1>3, <1>5
<1> HIDE DEF f
<1>7. \A j, k \in 1 .. Len(t) : j < k => f[j] < f[k]
  BY <1>2, <1>3, <1>4, <1>5, <1>6
<1>8. \A i \in H : \E k \in 1 .. Len(t) : f[k] = i
  BY <1>1, <1>2, <1>4, <1>6
<1>9. \A k \in 1 .. Len(t) : t[k] = s[f[k]]
  BY <1>1, <1>3, <1>5, <1>6
<1>10. H \in SUBSET DOMAIN s
  OBVIOUS
<1>11. Kept(s, H) = t
  BY <1>3, <1>6, <1>7, <1>8, <1>9, <1>10, KeptIs
<1> QED
  BY <1>11 DEF t, u

-----------------------------------------------------------------------------
(* How often a packet is in a queue.                                       *)

Item == [pkt : Packet, left : UNION {Over .. t : t \in Timeouts}]
At(q, I, p) == {i \in I : q[i].pkt = p}

LEMMA CountKept ==
  ASSUME NEW q \in Seq(Item), NEW I \in SUBSET DOMAIN q, NEW p
  PROVE  /\ Count(Kept(q, I), p) = Cardinality(At(q, I, p))
         /\ IsFiniteSet(At(q, I, p)) /\ Cardinality(At(q, I, p)) \in Nat
<1> DEFINE K == {k \in 1 .. Cardinality(I) : q[Nth(I, k)].pkt = p}
           f == [k \in K |-> Nth(I, k)]
<1>1. Len(q) \in Nat /\ DOMAIN q = 1 .. Len(q)
  OBVIOUS
<1>2. /\ IsFiniteSet(I) /\ Cardinality(I) \in Nat
      /\ \A k \in 1 .. Cardinality(I) : Nth(I, k) \in I /\ Rank(I, Nth(I, k)) = k
      /\ \A i \in I : Rank(I, i) \in 1 .. Cardinality(I) /\ Nth(I, Rank(I, i)) = i
  BY <1>1, NthWorks
<1>3. f \in Bijection(K, At(q, I, p))
  <2>1. f \in [K -> At(q, I, p)]
    BY <1>2 DEF At
  <2>2. \A j, k \in K : f[j] = f[k] => j = k
    BY <1>2
  <2>3. \A i \in At(q, I, p) : \E k \in K : f[k] = i
    BY <1>2 DEF At
  <2> QED
    BY <2>1, <2>2, <2>3 DEF Bijection, Injection, IsInjective, Surjection
<1>4. IsFiniteSet(K)
  <2>1. IsFiniteSet(1 .. Cardinality(I)) /\ K \in SUBSET (1 .. Cardinality(I))
    BY <1>2, FS_Interval
  <2> QED
    BY <2>1, FS_Subset
<1>5. Count(Kept(q, I), p) = Cardinality(K)
  <2>1. {k \in DOMAIN Kept(q, I) : Kept(q, I)[k].pkt = p} = K
    BY KeptWorks
  <2> QED
    BY <2>1 DEF Count
<1> HIDE DEF K, f
<1>6. IsFiniteSet(At(q, I, p)) /\ Cardinality(At(q, I, p)) = Cardinality(K)
  BY <1>3, <1>4, FS_Bijection DEF ExistsBijection
<1> QED
  BY <1>4, <1>5, <1>6, FS_CardinalityType

LEMMA CountAll ==
  ASSUME NEW q \in Seq(Item), NEW p
  PROVE  /\ Count(q, p) = Cardinality(At(q, DOMAIN q, p)) /\ Count(q, p) \in Nat
         /\ Count(q, p) = 0 <=> \A i \in DOMAIN q : q[i].pkt # p
<1>1. Kept(q, DOMAIN q) = q
  BY KeptAll
<1>2. Count(q, p) = Cardinality(At(q, DOMAIN q, p)) /\ IsFiniteSet(At(q, DOMAIN q, p))
      /\ Count(q, p) \in Nat
  BY <1>1, CountKept
<1>3. Count(q, p) = 0 <=> At(q, DOMAIN q, p) = {}
  BY <1>2, FS_EmptySet
<1> QED
  BY <1>2, <1>3 DEF At

\* What is kept and what is erased make up the queue.
LEMMA CountSplit ==
  ASSUME NEW q \in Seq(Item), NEW I \in SUBSET DOMAIN q, NEW p
  PROVE  /\ Count(Kept(q, I), p) \in Nat /\ Count(Kept(q, DOMAIN q \ I), p) \in Nat
         /\ Count(q, p) = Count(Kept(q, I), p) + Count(Kept(q, DOMAIN q \ I), p)
<1> DEFINE A == At(q, I, p)
           B == At(q, DOMAIN q \ I, p)
<1>1. A \cup B = At(q, DOMAIN q, p) /\ A \cap B = {}
  BY DEF At
<1>2. /\ Count(Kept(q, I), p) = Cardinality(A) /\ IsFiniteSet(A)
      /\ Cardinality(A) \in Nat
  BY CountKept
<1>3. /\ Count(Kept(q, DOMAIN q \ I), p) = Cardinality(B) /\ IsFiniteSet(B)
      /\ Cardinality(B) \in Nat
  BY CountKept
<1>4. Count(q, p) = Cardinality(At(q, DOMAIN q, p))
  BY CountAll
<1>5. Cardinality(A \cup B) = Cardinality(A) + Cardinality(B)
  <2> HIDE DEF A, B
  <2>1. Cardinality(A \cup B) = Cardinality(A) + Cardinality(B) - Cardinality(A \cap B)
    BY <1>2, <1>3, FS_Union
  <2>2. Cardinality(A \cap B) = 0
    BY <1>1, FS_EmptySet
  <2> QED
    BY <1>2, <1>3, <2>1, <2>2
<1>6. Count(q, p) = Cardinality(A) + Cardinality(B)
  BY <1>1, <1>4, <1>5
<1> HIDE DEF A, B
<1> QED
  BY <1>2, <1>3, <1>6

LEMMA CountAppend ==
  ASSUME NEW q \in Seq(Item), NEW e \in Item, NEW p
  PROVE  Count(Append(q, e), p) = Count(q, p) + IF e.pkt = p THEN 1 ELSE 0
<1> DEFINE A == At(q, DOMAIN q, p)
           a == Append(q, e)
           n == Len(q) + 1
<1>1. /\ a \in Seq(Item) /\ DOMAIN a = DOMAIN q \cup {n} /\ n \notin DOMAIN q
      /\ a[n] = e /\ \A i \in DOMAIN q : a[i] = q[i]
  OBVIOUS
<1>2. At(a, DOMAIN a, p) = IF e.pkt = p THEN A \cup {n} ELSE A
  BY <1>1 DEF At
<1>3. Count(q, p) = Cardinality(A) /\ IsFiniteSet(A) /\ n \notin A
      /\ Cardinality(A) \in Nat
  <2>1. n \notin A
    BY <1>1 DEF At
  <2>2. Kept(q, DOMAIN q) = q
    BY KeptAll
  <2> QED
    BY <2>1, <2>2, CountKept
<1>4. Count(a, p) = Cardinality(At(a, DOMAIN a, p))
  BY <1>1, CountAll
<1> HIDE DEF A, a, n
<1>5. Cardinality(A \cup {n}) = Cardinality(A) + 1
  BY <1>3, FS_AddElement
<1>6. CASE e.pkt = p
  BY <1>2, <1>3, <1>4, <1>5, <1>6 DEF a
<1>7. CASE e.pkt # p
  BY <1>2, <1>3, <1>4, <1>7 DEF a
<1> QED
  BY <1>6, <1>7

LEMMA CountConcat ==
  ASSUME NEW q \in Seq(Item), NEW r \in Seq(Item), NEW p
  PROVE  Count(q \o r, p) = Count(q, p) + Count(r, p)
<1> DEFINE A == At(q, DOMAIN q, p)
           B == At(r, DOMAIN r, p)
           C == {i \in Len(q) + 1 .. Len(q) + Len(r) : r[i - Len(q)].pkt = p}
           f == [i \in B |-> i + Len(q)]
           c == q \o r
<1>1. /\ c \in Seq(Item) /\ DOMAIN c = 1 .. Len(q) + Len(r)
      /\ \A i \in 1 .. Len(q) : c[i] = q[i]
      /\ \A i \in Len(q) + 1 .. Len(q) + Len(r) : c[i] = r[i - Len(q)]
      /\ Len(q) \in Nat /\ Len(r) \in Nat
      /\ DOMAIN q = 1 .. Len(q) /\ DOMAIN r = 1 .. Len(r)
  OBVIOUS
<1>2. At(c, DOMAIN c, p) = A \cup C /\ A \cap C = {}
  <2>1. DOMAIN c = (1 .. Len(q)) \cup (Len(q) + 1 .. Len(q) + Len(r))
    BY <1>1
  <2> HIDE DEF c
  <2>2. {i \in 1 .. Len(q) : c[i].pkt = p} = A
    BY <1>1 DEF At
  <2>3. {i \in Len(q) + 1 .. Len(q) + Len(r) : c[i].pkt = p} = C
    BY <1>1
  <2>4. A \subseteq 1 .. Len(q) /\ C \subseteq Len(q) + 1 .. Len(q) + Len(r)
    BY <1>1 DEF At
  <2>5. (1 .. Len(q)) \cap (Len(q) + 1 .. Len(q) + Len(r)) = {}
    BY <1>1
  <2> HIDE DEF A, C
  <2> QED
    BY <2>1, <2>2, <2>3, <2>4, <2>5 DEF At
<1>3. f \in Bijection(B, C)
  <2>1. f \in [B -> C]
    BY <1>1 DEF At
  <2>2. \A i, j \in B : f[i] = f[j] => i = j
    BY <1>1 DEF At
  <2>3. \A j \in C : \E i \in B : f[i] = j
    <3> SUFFICES ASSUME NEW j \in C PROVE j - Len(q) \in B /\ f[j - Len(q)] = j
      OBVIOUS
    <3> QED
      BY <1>1 DEF At
  <2> QED
    BY <2>1, <2>2, <2>3 DEF Bijection, Injection, IsInjective, Surjection
<1>4. /\ Count(q, p) = Cardinality(A) /\ IsFiniteSet(A) /\ Cardinality(A) \in Nat
      /\ Count(r, p) = Cardinality(B) /\ IsFiniteSet(B) /\ Cardinality(B) \in Nat
  <2>1. Kept(q, DOMAIN q) = q /\ Kept(r, DOMAIN r) = r
    BY KeptAll
  <2> QED
    BY <2>1, CountKept
<1>5. Count(c, p) = Cardinality(At(c, DOMAIN c, p))
  BY <1>1, CountAll
<1> HIDE DEF A, B, C, f, c
<1>6. IsFiniteSet(C) /\ Cardinality(C) = Cardinality(B)
  BY <1>3, <1>4, FS_Bijection DEF ExistsBijection
<1>7. Cardinality(A \cup C) = Cardinality(A) + Cardinality(C)
  <2>1. Cardinality(A \cup C) = Cardinality(A) + Cardinality(C) - Cardinality(A \cap C)
    BY <1>4, <1>6, FS_Union
  <2>2. Cardinality(A \cap C) = 0
    BY <1>2, FS_EmptySet
  <2> QED
    BY <1>4, <1>6, <2>1, <2>2
<1>8. Count(c, p) = Cardinality(A) + Cardinality(B)
  BY <1>2, <1>5, <1>6, <1>7
<1> QED
  BY <1>4, <1>8 DEF c

\* The front of a queue and the rest.
LEMMA FrontAndRest ==
  ASSUME NEW q \in Seq(Item), q # <<>>
  PROVE  /\ Kept(q, {1}) = <<Head(q)>> /\ Kept(q, DOMAIN q \ {1}) = Tail(q)
         /\ 1 \in DOMAIN q
<1> DEFINE t == Tail(q)
           h == <<Head(q)>>
           f == [k \in 1 .. Len(t) |-> k + 1]
           R == DOMAIN q \ {1}
<1>1. /\ t \in Seq(Item) /\ Len(t) = Len(q) - 1 /\ \A k \in 1 .. Len(t) : t[k] = q[k + 1]
      /\ h \in Seq(Item) /\ Len(h) = 1 /\ h[1] = q[1]
      /\ Len(q) \in Nat \ {0} /\ DOMAIN q = 1 .. Len(q)
  OBVIOUS
<1>2. R \in SUBSET DOMAIN q /\ R = 2 .. Len(q) /\ {1} \in SUBSET DOMAIN q
  BY <1>1
<1>3. f \in [1 .. Len(t) -> R]
  BY <1>1, <1>2
<1>4. \A k \in 1 .. Len(t) : f[k] = k + 1 /\ t[k] = q[f[k]]
  BY <1>1
<1>5. \A i \in R : \E k \in 1 .. Len(t) : f[k] = i
  <2> SUFFICES ASSUME NEW i \in R PROVE i - 1 \in 1 .. Len(t) /\ f[i - 1] = i
    OBVIOUS
  <2> QED
    BY <1>1, <1>2
<1>6. \A j, k \in 1 .. Len(t) : j < k => f[j] < f[k]
  BY <1>1
<1>7. Kept(q, R) = t
  <2>1. t \in Seq(Item) /\ R \in SUBSET DOMAIN q /\ \A k \in 1 .. Len(t) : t[k] = q[f[k]]
    BY <1>1, <1>2, <1>4
  <2> HIDE DEF t, f, R
  <2> QED
    BY <1>3, <1>5, <1>6, <2>1, KeptIs
<1>8. Kept(q, {1}) = h
  <2>1. Cardinality({1}) = 1
    BY FS_Singleton
  <2>2. Nth({1}, 1) = 1
    BY <1>2, <2>1, KeptWorks
  <2> QED
    BY <1>1, <2>1, <2>2 DEF Kept
<1> HIDE DEF t, h, f, R
<1> QED
  BY <1>1, <1>2, <1>7, <1>8 DEF t, h, R

-----------------------------------------------------------------------------
(* The queue and the account of it.                                        *)

\* o tells of each packet whether it is in the queue q.
Accounted(q, o) ==
  /\ q \in Seq(Item) /\ o \in [Packet -> 0 .. 1]
  /\ \A p \in Packet : o[p] = Count(q, p)

\* What is erased and reported is no longer accounted for.
LEMMA Erased ==
  ASSUME NEW q, NEW o, Accounted(q, o), NEW I \in SUBSET DOMAIN q
  PROVE  /\ Accounted(Kept(q, I), Reported(o, Kept(q, DOMAIN q \ I)))
         /\ Len(Kept(q, I)) <= Len(q)
         /\ \A p \in Packet : Count(q, p) = 0 => Count(Kept(q, I), p) = 0
<1> DEFINE k == Kept(q, I)
           r == Kept(q, DOMAIN q \ I)
<1>1. q \in Seq(Item) /\ o \in [Packet -> 0 .. 1] /\ \A p \in Packet : o[p] = Count(q, p)
  BY DEF Accounted
<1>2. k \in Seq(Item) /\ Len(k) <= Len(q)
  BY <1>1, KeptWorks
<1>3. \A p \in Packet : /\ Count(k, p) \in Nat /\ Count(r, p) \in Nat
                        /\ Count(q, p) = Count(k, p) + Count(r, p)
  BY <1>1, CountSplit
<1> HIDE DEF k, r
<1>4. \A p \in Packet : /\ Reported(o, r)[p] = Count(k, p)
                        /\ Reported(o, r)[p] \in 0 .. 1
                        /\ Count(q, p) = 0 => Count(k, p) = 0
  BY <1>1, <1>3 DEF Reported
<1>5. Reported(o, r) \in [Packet -> 0 .. 1]
  BY <1>4 DEF Reported
<1> QED
  BY <1>2, <1>4, <1>5 DEF Accounted, k, r

LEMMA ReportedTwice ==
  ASSUME NEW o \in [Packet -> Int], NEW a \in Seq(Item), NEW b \in Seq(Item)
  PROVE  Reported(o, a \o b) = Reported(Reported(o, a), b)
<1>1. \A p \in Packet : /\ Count(a \o b, p) = Count(a, p) + Count(b, p)
                        /\ Count(a, p) \in Nat /\ Count(b, p) \in Nat
  BY CountConcat, CountAll
<1>2. \A p \in Packet : o[p] - Count(a \o b, p) = (o[p] - Count(a, p)) - Count(b, p)
  BY <1>1
<1> QED
  BY <1>2 DEF Reported

LEMMA Added ==
  ASSUME NEW q, NEW o, Accounted(q, o), NEW e \in Item, Count(q, e.pkt) = 0
  PROVE  Accounted(Append(q, e), [o EXCEPT ![e.pkt] = @ + 1])
<1>1. q \in Seq(Item) /\ o \in [Packet -> 0 .. 1] /\ \A p \in Packet : o[p] = Count(q, p)
  BY DEF Accounted
<1>2. \A p \in Packet : Count(Append(q, e), p) = Count(q, p) + IF e.pkt = p THEN 1 ELSE 0
  BY <1>1, CountAppend
<1>3. e.pkt \in Packet /\ o[e.pkt] = 0
  BY <1>1 DEF Item
<1>4. Append(q, e) \in Seq(Item)
  BY <1>1
<1>5. \A p \in Packet : [o EXCEPT ![e.pkt] = @ + 1][p] = Count(Append(q, e), p)
  BY <1>1, <1>2, <1>3
<1>6. [o EXCEPT ![e.pkt] = @ + 1] \in [Packet -> 0 .. 1]
  BY <1>1, <1>3
<1> QED
  BY <1>4, <1>5, <1>6 DEF Accounted

\* Purge().
LEMMA Purged ==
  ASSUME NEW q, NEW o, Accounted(q, o)
  PROVE  /\ Accounted(Unexpired(q), Reported(o, Expired(q)))
         /\ Len(Unexpired(q)) <= Len(q)
         /\ Expired(q) \in Seq(Item)
         /\ \A i \in DOMAIN Unexpired(q) : Unexpired(q)[i].left >= 0
<1>1. Alive(q) \in SUBSET DOMAIN q /\ q \in Seq(Item)
  BY DEF Alive, Accounted
<1>2. DOMAIN q \ Alive(q) \in SUBSET DOMAIN q
  OBVIOUS
<1>3. Expired(q) \in Seq(Item)
  BY <1>1, <1>2, KeptWorks DEF Expired
<1>4. \A i \in DOMAIN Unexpired(q) : Unexpired(q)[i].left >= 0
  BY <1>1, KeptWorks DEF Unexpired, Alive
<1> QED
  BY <1>1, <1>3, <1>4, Erased DEF Unexpired, Expired

QueueInv ==
  /\ Accounted(queue, owed)
  /\ maxLen \in Limits /\ timeout \in Timeouts

\* What an operation does to the queue keeps the account and the limit.
QueueKept ==
  /\ QueueInv'
  /\ Len(queue) <= maxLen /\ maxLen' = maxLen => Len(queue') <= maxLen

LEMMA EnqueueKeeps ==
  ASSUME QueueAssumption, QueueInv, NEW p \in Packet, Enqueue(p)
  PROVE  QueueKept
<1> DEFINE q == Unexpired(queue)
           o == Reported(owed, Expired(queue))
           e == [pkt |-> p, left |-> timeout]
           x == Expired(queue)
<1>1. Accounted(q, o) /\ Len(q) <= Len(queue) /\ x \in Seq(Item)
  BY Purged DEF QueueInv
<1>2. /\ q \in Seq(Item) /\ queue \in Seq(Item) /\ owed \in [Packet -> Int]
      /\ Len(q) \in Nat /\ Len(queue) \in Nat /\ maxLen \in Nat \ {0}
  BY <1>1 DEF QueueInv, Accounted, QueueAssumption
<1>3. e \in Item /\ e.pkt = p
  <2>1. timeout \in Timeouts /\ timeout \in Nat /\ timeout \in Over .. timeout
    BY DEF QueueInv, QueueAssumption, Over
  <2>2. timeout \in UNION {Over .. t : t \in Timeouts}
    BY <2>1
  <2> QED
    BY <2>2 DEF Item
<1>4. CASE Count(q, p) > 0
  <2>1. queue' = q /\ owed' = o /\ maxLen' = maxLen /\ timeout' = timeout
    BY <1>4 DEF Enqueue
  <2> HIDE DEF q, o
  <2> QED
    BY <1>1, <1>2, <2>1 DEF QueueKept, QueueInv
<1>5. CASE ~(Count(q, p) > 0) /\ Len(q) = maxLen
  <2>1. /\ queue' = Append(Tail(q), e) /\ maxLen' = maxLen /\ timeout' = timeout
        /\ owed' = [Reported(owed, x \o <<Head(q)>>) EXCEPT ![p] = @ + 1]
    BY <1>5 DEF Enqueue
  <2>2. q # <<>>
    BY <1>2, <1>5
  <2> HIDE DEF q, e, x
  <2>3. /\ Kept(q, {1}) = <<Head(q)>> /\ Kept(q, DOMAIN q \ {1}) = Tail(q)
        /\ 1 \in DOMAIN q
    BY <1>2, <2>2, FrontAndRest
  <2>4. DOMAIN q \ (DOMAIN q \ {1}) = {1}
    BY <2>3
  <2>5. /\ Accounted(Tail(q), Reported(o, <<Head(q)>>))
        /\ \A r \in Packet : Count(q, r) = 0 => Count(Tail(q), r) = 0
    <3> DEFINE I == DOMAIN q \ {1}
    <3>1. I \in SUBSET DOMAIN q /\ DOMAIN q \ I = {1}
      BY <2>4
    <3>2. Kept(q, I) = Tail(q)
      BY <2>3
    <3> HIDE DEF o, I
    <3>3. /\ Accounted(Kept(q, I), Reported(o, Kept(q, DOMAIN q \ I)))
          /\ \A r \in Packet : Count(q, r) = 0 => Count(Kept(q, I), r) = 0
      BY <1>1, <3>1, Erased
    <3> QED
      BY <2>3, <3>1, <3>2, <3>3
  <2>6. Count(Tail(q), p) = 0
    BY <1>2, <1>5, <2>5, CountAll
  <2>7. Reported(owed, x \o <<Head(q)>>) = Reported(o, <<Head(q)>>)
    <3>1. <<Head(q)>> \in Seq(Item)
      BY <1>2, <2>2
    <3> QED
      BY <1>1, <1>2, <3>1, ReportedTwice DEF x
  <2>8. Accounted(queue', owed')
    BY <1>3, <2>1, <2>5, <2>6, <2>7, Added
  <2>9. Len(queue') = maxLen
    BY <1>2, <1>5, <2>1, <2>2
  <2> QED
    BY <1>2, <2>1, <2>8, <2>9 DEF QueueKept, QueueInv
<1>6. CASE ~(Count(q, p) > 0) /\ Len(q) # maxLen
  <2>1. /\ queue' = Append(q, e) /\ maxLen' = maxLen /\ timeout' = timeout
        /\ owed' = [Reported(owed, x \o <<>>) EXCEPT ![p] = @ + 1]
    BY <1>6 DEF Enqueue
  <2> HIDE DEF q, e, x
  <2>2. x \o <<>> = x
    BY <1>1
  <2>3. Count(q, p) = 0
    BY <1>2, <1>6, CountAll
  <2>4. Accounted(queue', owed')
    BY <1>1, <1>3, <2>1, <2>2, <2>3, Added DEF x
  <2>5. Len(queue') = Len(q) + 1
    BY <1>2, <2>1
  <2> QED
    BY <1>1, <1>2, <1>6, <2>1, <2>4, <2>5 DEF QueueKept, QueueInv
<1> QED
  BY <1>4, <1>5, <1>6

LEMMA DequeueKeeps ==
  ASSUME QueueAssumption, QueueInv, NEW d, Dequeue(d)
  PROVE  QueueKept
<1> DEFINE q == Unexpired(queue)
           o == Reported(owed, Expired(queue))
           i == Nth(For(q, d), 1)
<1>1. Accounted(q, o) /\ Len(q) <= Len(queue)
  BY Purged DEF QueueInv
<1>2. /\ q \in Seq(Item) /\ queue \in Seq(Item) /\ o \in [Packet -> 0 .. 1]
      /\ Len(q) \in Nat /\ Len(queue) \in Nat /\ maxLen \in Nat \ {0}
  BY <1>1 DEF QueueInv, Accounted, QueueAssumption
<1>3. CASE For(q, d) = {}
  <2>1. queue' = q /\ owed' = o /\ maxLen' = maxLen /\ timeout' = timeout
    BY <1>3 DEF Dequeue
  <2> HIDE DEF q, o
  <2> QED
    BY <1>1, <1>2, <2>1 DEF QueueKept, QueueInv
<1>4. CASE For(q, d) # {}
  <2>1. /\ queue' = Kept(q, DOMAIN q \ {i}) /\ maxLen' = maxLen /\ timeout' = timeout
        /\ owed' = [o EXCEPT ![q[i].pkt] = @ - 1]
    BY <1>4 DEF Dequeue
  <2> HIDE DEF q, o
  <2>2. i \in DOMAIN q
    <3>1. For(q, d) \in SUBSET (1 .. Len(q))
      BY <1>2 DEF For
    <3>2. IsFiniteSet(For(q, d)) /\ Cardinality(For(q, d)) \in Nat
      BY <1>2, <3>1, NthWorks
    <3>3. 1 \in 1 .. Cardinality(For(q, d))
      BY <1>4, <3>2, FS_EmptySet
    <3>4. i \in For(q, d)
      BY <1>2, <3>1, <3>3, NthWorks
    <3> QED
      BY <3>4 DEF For
  <2> HIDE DEF i
  <2>3. DOMAIN q \ (DOMAIN q \ {i}) = {i} /\ DOMAIN q \ {i} \in SUBSET DOMAIN q
    BY <2>2
  <2>4. /\ Accounted(queue', Reported(o, Kept(q, {i})))
        /\ Len(queue') <= Len(q)
    BY <1>1, <2>1, <2>3, Erased
  <2>5. \A r \in Packet : Count(Kept(q, {i}), r) = IF q[i].pkt = r THEN 1 ELSE 0
    <3> SUFFICES ASSUME NEW r \in Packet
                 PROVE  Count(Kept(q, {i}), r) = IF q[i].pkt = r THEN 1 ELSE 0
      OBVIOUS
    <3>1. Count(Kept(q, {i}), r) = Cardinality(At(q, {i}, r))
      BY <1>2, <2>2, CountKept
    <3>2. At(q, {i}, r) = IF q[i].pkt = r THEN {i} ELSE {}
      BY DEF At
    <3> QED
      BY <3>1, <3>2, FS_EmptySet, FS_Singleton
  <2>6. owed' = Reported(o, Kept(q, {i}))
    <3>1. q[i] \in Item
      BY <1>2, <2>2
    <3>2. q[i].pkt \in Packet
      BY <3>1 DEF Item
    <3>3. \A r \in Packet : owed'[r] = o[r] - IF q[i].pkt = r THEN 1 ELSE 0
      BY <1>2, <2>1, <3>2
    <3>4. owed' = [r \in Packet |-> o[r] - Count(Kept(q, {i}), r)]
      BY <1>2, <2>1, <2>5, <3>3
    <3> QED
      BY <3>4 DEF Reported
  <2>7. Len(queue') \in Nat /\ Accounted(queue', owed')
    <3>1. Accounted(queue', owed')
      BY <2>4, <2>6
    <3> QED
      BY <3>1 DEF Accounted
  <2>8. Len(queue) <= maxLen => Len(queue') <= maxLen
    BY <1>1, <1>2, <2>4, <2>7
  <2> QED
    BY <2>1, <2>7, <2>8 DEF QueueKept, QueueInv
<1> QED
  BY <1>3, <1>4

LEMMA DropKeeps ==
  ASSUME QueueAssumption, QueueInv, NEW d, DropPacketWithDst(d)
  PROVE  QueueKept
<1> DEFINE q == Unexpired(queue)
           o == Reported(owed, Expired(queue))
           x == Expired(queue)
           F == For(q, d)
<1>1. Accounted(q, o) /\ Len(q) <= Len(queue) /\ x \in Seq(Item)
  BY Purged DEF QueueInv
<1>2. /\ q \in Seq(Item) /\ queue \in Seq(Item) /\ owed \in [Packet -> Int]
      /\ Len(q) \in Nat /\ Len(queue) \in Nat /\ maxLen \in Nat \ {0}
  BY <1>1 DEF QueueInv, Accounted, QueueAssumption
<1>3. /\ queue' = Kept(q, DOMAIN q \ F) /\ owed' = Reported(owed, x \o Kept(q, F))
      /\ maxLen' = maxLen /\ timeout' = timeout
  BY DEF DropPacketWithDst
<1>4. F \in SUBSET DOMAIN q
  BY DEF For
<1> HIDE DEF q, x, F
<1>5. Reported(owed, x \o Kept(q, F)) = Reported(o, Kept(q, F))
  <2>1. Kept(q, F) \in Seq(Item)
    BY <1>2, <1>4, KeptWorks
  <2> QED
    BY <1>1, <1>2, <2>1, ReportedTwice DEF x
<1> HIDE DEF o
<1>6. DOMAIN q \ (DOMAIN q \ F) = F /\ DOMAIN q \ F \in SUBSET DOMAIN q
  BY <1>4
<1>7. Accounted(queue', owed') /\ Len(queue') <= Len(q)
  BY <1>1, <1>3, <1>5, <1>6, Erased
<1>8. Len(queue') \in Nat
  BY <1>7 DEF Accounted
<1> QED
  BY <1>1, <1>2, <1>3, <1>7, <1>8 DEF QueueKept, QueueInv

LEMMA QueueTickKeeps ==
  ASSUME QueueAssumption, QueueInv, QueueTick
  PROVE  QueueKept
<1>1. queue \in Seq(Item) /\ Len(queue) \in Nat /\ DOMAIN queue = 1 .. Len(queue)
  BY DEF QueueInv, Accounted
<1>2. \A e \in Item : /\ [e EXCEPT !.left = IF @ > Over THEN @ - 1 ELSE Over] \in Item
                      /\ [e EXCEPT !.left = IF @ > Over THEN @ - 1 ELSE Over].pkt = e.pkt
  BY DEF Item, Over, QueueAssumption
<1>3. /\ DOMAIN queue' = DOMAIN queue /\ queue' \in [1 .. Len(queue) -> Item]
      /\ \A i \in DOMAIN queue : queue'[i].pkt = queue[i].pkt
  <2> DEFINE older(e) == [e EXCEPT !.left = IF @ > Over THEN @ - 1 ELSE Over]
  <2>1. queue' = [i \in DOMAIN queue |-> older(queue[i])]
    BY DEF QueueTick
  <2>2. \A e \in Item : older(e) \in Item /\ older(e).pkt = e.pkt
    BY <1>2
  <2>3. \A i \in DOMAIN queue : queue[i] \in Item
    BY <1>1
  <2> HIDE DEF older
  <2> QED
    BY <1>1, <2>1, <2>2, <2>3
<1>4. queue' \in Seq(Item) /\ Len(queue') = Len(queue)
  BY <1>1, <1>3
<1>5. \A p \in Packet : Count(queue', p) = Count(queue, p)
  BY <1>3 DEF Count
<1> QED
  BY <1>1, <1>4, <1>5 DEF QueueTick, QueueKept, QueueInv, Accounted, QueueAssumption

LEMMA QueueStep ==
  ASSUME QueueAssumption, QueueInv, QueueOperation \/ QueueTick
  PROVE  QueueKept
<1>1. CASE GetSize
  <2>1. /\ Accounted(Unexpired(queue), Reported(owed, Expired(queue)))
        /\ Len(Unexpired(queue)) <= Len(queue)
    BY Purged DEF QueueInv
  <2>2. /\ Len(queue) \in Nat /\ Len(Unexpired(queue)) \in Nat /\ maxLen \in Nat
    BY <2>1 DEF Accounted, QueueInv, QueueAssumption
  <2> QED
    BY <1>1, <2>1, <2>2 DEF GetSize, QueueKept, QueueInv
<1>2. CASE \E n \in Limits : SetMaxQueueLen(n)
  BY <1>2 DEF SetMaxQueueLen, QueueKept, QueueInv
<1>3. CASE \E t \in Timeouts : SetMaxQueueTime(t)
  BY <1>3 DEF SetMaxQueueTime, QueueKept, QueueInv
<1> QED
  BY <1>1, <1>2, <1>3, EnqueueKeeps, DequeueKeeps, DropKeeps, QueueTickKeeps
     DEF QueueOperation

-----------------------------------------------------------------------------
(* The queue without a clock.                                              *)

Live == Packets(Unexpired(queue))

LEMMA PacketsWorks ==
  ASSUME NEW q \in Seq(Item)
  PROVE  /\ Packets(q) \in Seq(Packet) /\ DOMAIN Packets(q) = DOMAIN q
         /\ Len(Packets(q)) = Len(q)
         /\ \A i \in DOMAIN q : Packets(q)[i] = q[i].pkt
<1>1. DOMAIN q = 1 .. Len(q) /\ Len(q) \in Nat /\ \A i \in DOMAIN q : q[i] \in Item
  OBVIOUS
<1>2. Packets(q) \in [1 .. Len(q) -> Packet]
  BY <1>1 DEF Packets, Item
<1>3. Packets(q) \in Seq(Packet) /\ Len(Packets(q)) = Len(q)
  BY <1>1, <1>2
<1> QED
  BY <1>3 DEF Packets

LEMMA PacketsKept ==
  ASSUME NEW q \in Seq(Item), NEW I \in SUBSET DOMAIN q
  PROVE  Packets(Kept(q, I)) = Kept(Packets(q), I)
<1>1. /\ DOMAIN Kept(q, I) = 1 .. Cardinality(I)
      /\ \A k \in 1 .. Cardinality(I) : Nth(I, k) \in I /\ Kept(q, I)[k] = q[Nth(I, k)]
  BY KeptWorks
<1>2. \A k \in 1 .. Cardinality(I) : Packets(q)[Nth(I, k)] = Kept(q, I)[k].pkt
  BY <1>1, PacketsWorks
<1> QED
  BY <1>1, <1>2 DEF Packets, Kept

LEMMA PacketsMoved ==
  ASSUME NEW q \in Seq(Item), NEW e \in Item
  PROVE  /\ Packets(Append(q, e)) = Append(Packets(q), e.pkt)
         /\ q # <<>> => Packets(Tail(q)) = Tail(Packets(q))
<1> DEFINE P == Packets(q)
           T == Tail(q)
<1>1. /\ P \in Seq(Packet) /\ Len(P) = Len(q) /\ Len(q) \in Nat
      /\ \A i \in 1 .. Len(q) : P[i] = q[i].pkt
  BY PacketsWorks
<1> HIDE DEF P
<1>2. Packets(Append(q, e)) = Append(P, e.pkt)
  BY <1>1 DEF Packets
<1>3. ASSUME q # <<>> PROVE Packets(T) = Tail(P)
  <2>1. T \in Seq(Item) /\ Len(T) = Len(q) - 1 /\ \A i \in 1 .. Len(T) : T[i] = q[i + 1]
    BY <1>3
  <2>2. /\ Packets(T) \in Seq(Packet) /\ Len(Packets(T)) = Len(T)
        /\ \A i \in 1 .. Len(T) : Packets(T)[i] = T[i].pkt
    <3>1. DOMAIN T = 1 .. Len(T)
      BY <2>1
    <3> HIDE DEF T
    <3> QED
      BY <2>1, <3>1, PacketsWorks
  <2>3. /\ Tail(P) \in Seq(Packet) /\ Len(Tail(P)) = Len(q) - 1
        /\ \A i \in 1 .. Len(T) : Tail(P)[i] = P[i + 1]
    BY <1>1, <1>3, <2>1
  <2>4. \A i \in 1 .. Len(T) : Packets(T)[i] = Tail(P)[i]
    BY <1>1, <2>1, <2>2, <2>3
  <2> HIDE DEF T
  <2> QED
    BY <2>1, <2>2, <2>3, <2>4
<1> QED
  BY <1>2, <1>3 DEF P, T

\* A purge of a queue with nothing expired, or of a part of it, does nothing.
LEMMA NothingToPurge ==
  ASSUME NEW q \in Seq(Item), \A i \in DOMAIN q : q[i].left >= 0
  PROVE  /\ Unexpired(q) = q
         /\ \A I \in SUBSET DOMAIN q : Unexpired(Kept(q, I)) = Kept(q, I)
<1>1. ASSUME NEW r \in Seq(Item), \A i \in DOMAIN r : r[i].left >= 0
      PROVE  Unexpired(r) = r
  <2>1. Alive(r) = DOMAIN r
    BY <1>1 DEF Alive
  <2> QED
    BY <2>1, KeptAll DEF Unexpired
<1>2. ASSUME NEW I \in SUBSET DOMAIN q PROVE Unexpired(Kept(q, I)) = Kept(q, I)
  <2>1. Kept(q, I) \in Seq(Item) /\ \A i \in DOMAIN Kept(q, I) : Kept(q, I)[i].left >= 0
    BY KeptWorks
  <2> HIDE DEF Kept
  <2> QED
    BY <1>1, <2>1
<1> QED
  BY <1>1, <1>2

LEMMA SameKept ==
  /\ \A I, k : Punctual!Nth(I, k) = Nth(I, k)
  /\ \A s, I : Punctual!Kept(s, I) = Kept(s, I)
<1>1. \A S : Punctual!Cardinality(S) = Cardinality(S)
  BY DEF Punctual!Cardinality, Cardinality
<1>2. \A I, k : Punctual!Nth(I, k) = Nth(I, k)
  BY <1>1 DEF Punctual!Nth, Nth
<1> QED
  BY <1>1, <1>2 DEF Punctual!Kept, Kept

\* After an operation has purged the queue.
LEMMA PurgedLive ==
  ASSUME QueueInv
  PROVE  LET q == Unexpired(queue) IN
         /\ q \in Seq(Item) /\ Len(q) \in Nat /\ Live \in Seq(Packet)
         /\ DOMAIN Live = DOMAIN q /\ Len(Live) = Len(q)
         /\ \A i \in DOMAIN q : Live[i] = q[i].pkt
         /\ \A i \in DOMAIN q : q[i].left >= 0
         /\ Packets(Unexpired(q)) = Live
         /\ \A I \in SUBSET DOMAIN q : Packets(Unexpired(Kept(q, I))) = Kept(Live, I)
         /\ \A d : Punctual!For(Live, d) = For(q, d)
<1> DEFINE q == Unexpired(queue)
<1>1. q \in Seq(Item) /\ Len(q) \in Nat /\ \A i \in DOMAIN q : q[i].left >= 0
  BY Purged DEF QueueInv, Accounted
<1>2. /\ Live \in Seq(Packet) /\ DOMAIN Live = DOMAIN q /\ Len(Live) = Len(q)
      /\ \A i \in DOMAIN q : Live[i] = q[i].pkt
  BY <1>1, PacketsWorks DEF Live
<1>3. Unexpired(q) = q /\ \A I \in SUBSET DOMAIN q : Unexpired(Kept(q, I)) = Kept(q, I)
  <2> HIDE DEF q
  <2> QED
    BY <1>1, NothingToPurge
<1>4. \A I \in SUBSET DOMAIN q : Packets(Kept(q, I)) = Kept(Live, I)
  BY <1>1, PacketsKept DEF Live
<1>5. \A d : Punctual!For(Live, d) = For(q, d)
  <2> HIDE DEF q
  <2> QED
    BY <1>2 DEF Punctual!For, For
<1> QED
  BY <1>1, <1>2, <1>3, <1>4, <1>5 DEF Live

LEMMA PunctualEnqueue ==
  ASSUME QueueAssumption, QueueInv, NEW p \in Packet, Enqueue(p)
  PROVE  Punctual!Enqueue(p)
<1> DEFINE q == Unexpired(queue)
           e == [pkt |-> p, left |-> timeout]
<1>1. /\ q \in Seq(Item) /\ Len(q) \in Nat /\ Live \in Seq(Packet)
      /\ DOMAIN Live = DOMAIN q /\ Len(Live) = Len(q)
      /\ \A i \in DOMAIN q : Live[i] = q[i].pkt
      /\ \A i \in DOMAIN q : q[i].left >= 0
      /\ Packets(Unexpired(q)) = Live
  BY PurgedLive
<1>2. /\ e \in Item /\ e.pkt = p /\ e.left >= 0
  <2>1. timeout \in Timeouts /\ timeout \in Nat /\ timeout \in Over .. timeout
    BY DEF QueueInv, QueueAssumption, Over
  <2>2. timeout \in UNION {Over .. t : t \in Timeouts}
    BY <2>1
  <2> QED
    BY <2>1, <2>2 DEF Item
<1>3. /\ told' = [of |-> "enqueue", pkt |-> p, taken |-> Count(q, p) = 0]
      /\ maxLen' = maxLen
  BY DEF Enqueue
<1>4. Count(q, p) \in Nat /\ (Count(q, p) = 0 <=> ~Punctual!Holds(Live, p))
  BY <1>1, CountAll DEF Punctual!Holds
<1>5. Live' = IF Punctual!Holds(Live, p) THEN Live
             ELSE Append(IF Len(Live) = maxLen THEN Tail(Live) ELSE Live, p)
  <2>1. CASE Count(q, p) > 0
    <3>1. queue' = q
      BY <2>1 DEF Enqueue
    <3>2. Live' = Live
      <4>1. Live' = Packets(Unexpired(queue'))
        BY DEF Live
      <4> HIDE DEF q
      <4> QED
        BY <1>1, <3>1, <4>1
    <3>3. Punctual!Holds(Live, p)
      <4> HIDE DEF q
      <4> QED
        BY <1>4, <2>1
    <3> QED
      BY <3>2, <3>3
  <2>2. CASE ~(Count(q, p) > 0)
    <3> DEFINE r == IF Len(q) = maxLen THEN Tail(q) ELSE q
    <3>1. queue' = Append(r, e)
      BY <2>2 DEF Enqueue
    <3>2. maxLen \in Nat \ {0}
      BY DEF QueueInv, QueueAssumption
    <3> HIDE DEF q, e
    <3>3. /\ r \in Seq(Item) /\ \A i \in DOMAIN r : r[i].left >= 0
      <4>1. CASE Len(q) = maxLen
        <5>1. q # <<>>
          BY <1>1, <3>2, <4>1
        <5>2. /\ Tail(q) \in Seq(Item) /\ DOMAIN Tail(q) = 1 .. Len(q) - 1
              /\ \A i \in 1 .. Len(q) - 1 : Tail(q)[i] = q[i + 1] /\ i + 1 \in DOMAIN q
          BY <1>1, <5>1
        <5> QED
          BY <1>1, <4>1, <5>2
      <4>2. CASE Len(q) # maxLen
        BY <1>1, <4>2
      <4> QED
        BY <4>1, <4>2
    <3>4. Packets(r) = IF Len(Live) = maxLen THEN Tail(Live) ELSE Live
      <4>1. Packets(q) = Live
        BY <1>1, NothingToPurge
      <4>2. Len(q) = maxLen => q # <<>>
        BY <1>1, <3>2
      <4> QED
        BY <1>1, <1>2, <4>1, <4>2, PacketsMoved
    <3> HIDE DEF r
    <3>5. Append(r, e) \in Seq(Item) /\ \A i \in DOMAIN Append(r, e) : Append(r, e)[i].left >= 0
      BY <1>2, <3>3
    <3>6. Live' = Packets(Append(r, e))
      BY <3>1, <3>5, NothingToPurge DEF Live
    <3>7. Live' = Append(Packets(r), p)
      BY <1>2, <3>3, <3>6, PacketsMoved
    <3> QED
      BY <1>4, <2>2, <3>4, <3>7
  <2> QED
    BY <2>1, <2>2
<1> HIDE DEF q, e
<1> QED
  BY <1>3, <1>4, <1>5 DEF Punctual!Enqueue, Live

LEMMA PunctualDequeue ==
  ASSUME QueueInv, NEW d, Dequeue(d)
  PROVE  Punctual!Dequeue(d)
<1> DEFINE q == Unexpired(queue)
           i == Nth(For(q, d), 1)
<1>1. /\ q \in Seq(Item) /\ DOMAIN Live = DOMAIN q
      /\ \A j \in DOMAIN q : Live[j] = q[j].pkt
      /\ Packets(Unexpired(q)) = Live
      /\ \A I \in SUBSET DOMAIN q : Packets(Unexpired(Kept(q, I))) = Kept(Live, I)
      /\ Punctual!For(Live, d) = For(q, d)
  BY PurgedLive
<1>2. For(q, d) # {} => i \in DOMAIN q
  <2> SUFFICES ASSUME For(q, d) # {} PROVE i \in DOMAIN q
    OBVIOUS
  <2>1. For(q, d) \in SUBSET (1 .. Len(q)) /\ Len(q) \in Nat
    BY <1>1 DEF For
  <2>2. IsFiniteSet(For(q, d)) /\ Cardinality(For(q, d)) \in Nat
    BY <2>1, NthWorks
  <2>3. 1 \in 1 .. Cardinality(For(q, d))
    BY <2>2, FS_EmptySet
  <2>4. i \in For(q, d)
    BY <2>1, <2>3, NthWorks
  <2> QED
    BY <2>4 DEF For
<1>3. /\ queue' = IF For(q, d) = {} THEN q ELSE Kept(q, DOMAIN q \ {i})
      /\ told' = [of |-> "dequeue", dst |-> d,
                  found |-> IF For(q, d) = {} THEN <<>> ELSE <<q[i].pkt>>]
      /\ maxLen' = maxLen
  BY DEF Dequeue
<1>4. DOMAIN q \ {i} \in SUBSET DOMAIN q
  OBVIOUS
<1>5. Punctual!Nth(Punctual!For(Live, d), 1) = i
  BY <1>1, SameKept
<1> HIDE DEF q, i
<1>6. Live' = IF For(q, d) = {} THEN Live ELSE Kept(Live, DOMAIN q \ {i})
  <2>1. CASE For(q, d) = {}
    BY <1>1, <1>3, <2>1 DEF Live
  <2>2. CASE For(q, d) # {}
    BY <1>1, <1>3, <1>4, <2>2 DEF Live
  <2> QED
    BY <2>1, <2>2
<1>7. Live' = IF For(q, d) = {} THEN Live ELSE Punctual!Without(Live, i)
  BY <1>1, <1>6, SameKept DEF Punctual!Without
<1>8. For(q, d) # {} => Live[i] = q[i].pkt
  BY <1>1, <1>2
<1> QED
  BY <1>1, <1>3, <1>5, <1>7, <1>8 DEF Punctual!Dequeue, Live

LEMMA PunctualDrop ==
  ASSUME QueueInv, NEW d, DropPacketWithDst(d)
  PROVE  Punctual!Drop(d)
<1> DEFINE q == Unexpired(queue)
           I == DOMAIN q \ For(q, d)
<1>1. /\ DOMAIN Live = DOMAIN q /\ I \in SUBSET DOMAIN q
      /\ \A J \in SUBSET DOMAIN q : Packets(Unexpired(Kept(q, J))) = Kept(Live, J)
      /\ Punctual!For(Live, d) = For(q, d)
  BY PurgedLive
<1>2. /\ queue' = Kept(q, I) /\ told' = [of |-> "drop", dst |-> d] /\ maxLen' = maxLen
  BY DEF DropPacketWithDst
<1> HIDE DEF q, I
<1>3. Live' = Kept(Live, I)
  BY <1>1, <1>2 DEF Live
<1>4. Live' = Punctual!Kept(Live, DOMAIN Live \ Punctual!For(Live, d))
  BY <1>1, <1>3, SameKept DEF I
<1> QED
  BY <1>2, <1>4 DEF Punctual!Drop, Live

LEMMA PunctualSize ==
  ASSUME QueueInv, GetSize
  PROVE  Punctual!TellSize
<1> DEFINE q == Unexpired(queue)
<1>1. Len(Live) = Len(q) /\ Packets(Unexpired(q)) = Live
  BY PurgedLive
<1>2. queue' = q /\ told' = [of |-> "size", size |-> Len(queue')] /\ maxLen' = maxLen
  BY DEF GetSize
<1> HIDE DEF q
<1>3. Live' = Live
  BY <1>1, <1>2 DEF Live
<1> QED
  BY <1>1, <1>2, <1>3 DEF Punctual!TellSize, Live

\* Packets that expire leave, and nothing else changes.
LEMMA PunctualTick ==
  ASSUME QueueInv, QueueTick
  PROVE  Punctual!Leave
<1> DEFINE s == Packets(queue)
           A == Alive(queue)
           B == Alive(queue')
           J == {k \in 1 .. Cardinality(A) : Nth(A, k) \in B}
<1>1. queue \in Seq(Item) /\ \A i \in DOMAIN queue : queue[i] \in Item
  BY DEF QueueInv, Accounted
<1>2. /\ DOMAIN queue' = DOMAIN queue
      /\ \A i \in DOMAIN queue : queue'[i].pkt = queue[i].pkt
      /\ \A i \in DOMAIN queue : queue'[i].left >= 0 => queue[i].left >= 0
      /\ told' = Quiet /\ maxLen' = maxLen
  <2>1. \A e \in Item : LET f == [e EXCEPT !.left = IF @ > Over THEN @ - 1 ELSE Over] IN
                        f.pkt = e.pkt /\ (f.left >= 0 => e.left >= 0)
    BY DEF Item, Over
  <2> QED
    BY <1>1, <2>1 DEF QueueTick
<1>3. A \in SUBSET DOMAIN queue /\ B \in SUBSET A
  BY <1>2 DEF Alive
<1>4. Packets(queue') = s
  BY <1>2 DEF Packets
<1>5. s \in Seq(Packet) /\ DOMAIN s = DOMAIN queue
  BY <1>1, PacketsWorks
<1>6. Live = Kept(s, A)
  BY <1>1, <1>3, PacketsKept DEF Live, Unexpired
<1>7. queue' \in Seq(Item)
  BY QueueAssumption, QueueTickKeeps DEF QueueKept, QueueInv, Accounted
<1>8. Live' = Kept(s, B)
  BY <1>2, <1>3, <1>4, <1>7, PacketsKept DEF Live, Unexpired
<1>9. DOMAIN Kept(s, A) = 1 .. Cardinality(A)
  BY <1>3, <1>5, KeptWorks
<1>10. J \in SUBSET DOMAIN Live /\ \A k \in 1 .. Cardinality(A) : k \in J <=> Nth(A, k) \in B
  BY <1>6, <1>9
<1> HIDE DEF s, A, B, J
<1>11. Kept(Live, J) = Live'
  BY <1>3, <1>5, <1>6, <1>8, <1>10, KeptKept
<1>12. told' = Punctual!Quiet
  BY <1>2 DEF Quiet, Punctual!Quiet
<1> QED
  BY <1>2, <1>10, <1>11, <1>12, SameKept DEF Punctual!Leave, Live

-----------------------------------------------------------------------------
(* The queue among the other stores.                                       *)

LEMMA QueueInit_ ==
  ASSUME QueueInit
  PROVE  QueueInv /\ Punctual!Init
<1>1. queue = <<>> /\ <<>> \in Seq(Item) /\ DOMAIN <<>> = {}
  BY DEF QueueInit
<1>2. \A p : Count(queue, p) = 0
  BY <1>1, CountAll
<1>3. QueueInv
  BY <1>1, <1>2 DEF QueueInit, QueueInv, Accounted
<1>4. Unexpired(queue) = <<>>
  BY <1>1, NothingToPurge
<1>5. Live = <<>>
  BY <1>4 DEF Live, Packets
<1> QED
  BY <1>3, <1>5 DEF QueueInit, Punctual!Init, Quiet, Punctual!Quiet, Live

LEMMA QueueNext ==
  ASSUME QueueInv, [Next]_storeVars
  PROVE  /\ QueueInv'
         /\ UNCHANGED queueVars \/ QueueKept
         /\ [Punctual!Next]_(Punctual!vars)
<1>1. CASE UNCHANGED queueVars
  <2>1. QueueInv'
    BY <1>1 DEF queueVars, QueueInv
  <2>2. UNCHANGED Punctual!vars
    BY <1>1 DEF queueVars, Punctual!vars
  <2> QED
    BY <1>1, <2>1, <2>2
<1>2. CASE QueueOperation \/ QueueTick
  <2>1. QueueKept
    BY <1>2, QueueAssumption, QueueStep
  <2>2. Punctual!Next \/ UNCHANGED Punctual!vars
    <3>1. CASE \E p \in Packet : Enqueue(p)
      BY <3>1, QueueAssumption, PunctualEnqueue DEF Punctual!Next
    <3>2. CASE \E d \in {DstOf[p] : p \in Packet} : Dequeue(d) \/ DropPacketWithDst(d)
      BY <3>2, PunctualDequeue, PunctualDrop DEF Punctual!Next
    <3>3. CASE GetSize
      BY <3>3, PunctualSize DEF Punctual!Next
    <3>4. CASE \E n \in Limits : SetMaxQueueLen(n)
      <4>1. maxLen' \in Limits /\ told' = Quiet /\ queue' = queue
        BY <3>4 DEF SetMaxQueueLen
      <4>2. Live' = Live
        BY <4>1 DEF Live
      <4> QED
        BY <4>1, <4>2 DEF Punctual!Next, Punctual!SetLimit, Live, Quiet, Punctual!Quiet
    <3>5. CASE \E t \in Timeouts : SetMaxQueueTime(t)
      <4>1. maxLen' = maxLen /\ maxLen \in Limits /\ told' = Quiet /\ queue' = queue
        BY <3>5 DEF SetMaxQueueTime, QueueInv
      <4>2. Live' = Live
        BY <4>1 DEF Live
      <4> QED
        BY <4>1, <4>2 DEF Punctual!Next, Punctual!SetLimit, Live, Quiet, Punctual!Quiet
    <3>6. CASE QueueTick
      BY <3>6, PunctualTick DEF Punctual!Next
    <3> QED
      BY <1>2, <3>1, <3>2, <3>3, <3>4, <3>5, <3>6 DEF QueueOperation
  <2> QED
    BY <2>1, <2>2 DEF QueueKept
<1> QED
  BY <1>1, <1>2 DEF Next, Tick, storeVars

LEMMA QueueInvHolds == Spec => []QueueInv
<1>1. Init => QueueInv
  BY QueueInit_ DEF Init
<1>2. QueueInv /\ [Next]_storeVars => QueueInv'
  BY QueueNext
<1> QED
  BY <1>1, <1>2, PTL DEF Spec

\* However packets arrive, expire, are handed out or dropped: each that was
\* accepted is in the queue until it has been handed out or reported, once.
THEOREM EveryPacketAccounted == Spec => []NothingVanishes
<1>1. QueueInv => NothingVanishes
  BY DEF QueueInv, Accounted, NothingVanishes
<1> QED
  BY <1>1, QueueInvHolds, PTL

\* No call takes the queue over a limit it keeps, whatever is expired in it.
THEOREM QueueStaysInLimit == Spec => LimitKept
<1>1. QueueInv /\ [Next]_storeVars =>
        [Len(queue) <= maxLen => (maxLen' = maxLen => Len(queue') <= maxLen)]_queueVars
  BY QueueNext DEF QueueKept
<1> QED
  BY <1>1, QueueInvHolds, PTL DEF Spec, LimitKept

\* The queue, purged only when it is used, implements the queue whose packets
\* go the moment they expire: what it tells its callers is the same.
THEOREM ImplementsPunctualQueue == Spec => PunctualSpec
<1>1. Init => Punctual!Init
  BY QueueInit_ DEF Init
<1>2. QueueInv /\ [Next]_storeVars => [Punctual!Next]_(Punctual!vars)
  BY QueueNext
<1> QED
  BY <1>1, <1>2, QueueInvHolds, PTL DEF Spec, PunctualSpec, Punctual!Spec

-----------------------------------------------------------------------------
(* Types.                                                                  *)

OthersType ==
  /\ CacheInv /\ news \in Id \cup {NoId}
  /\ RerrTypeOK /\ toOne + toMany <= MaxErrors

\* Every variable keeps its type; in particular no packet is ever owed twice,
\* and no count of errors goes past its limit.
THEOREM StoresTypeCorrect == Spec => []TypeOK
<1>1. Init => OthersType
  BY CacheAssumption, RerrAssumption
     DEF Init, CacheInit, CacheInv, Unknown, Never, CacheAssumption,
         RerrInit, RerrTypeOK, RerrAssumption, Second, OthersType
<1>2. OthersType /\ [Next]_storeVars => OthersType'
  <2> SUFFICES ASSUME OthersType, [Next]_storeVars PROVE OthersType'
    OBVIOUS
  <2>1. CacheInv'
    BY CacheAssumption, CacheStep DEF OthersType
  <2>2. news' \in Id \cup {NoId}
    <3>1. news' = news \/ news' = NoId \/ \E i \in Id : news' = i
      BY DEF Next, Tick, CacheTick, Copy, Handle, storeVars, cacheVars
    <3> QED
      BY <3>1 DEF OthersType
  <2>3. RerrTypeOK' /\ (toOne + toMany <= MaxErrors)'
    <3> USE DEF RerrTypeOK, OthersType, Second
    <3>1. CASE UNCHANGED rerrVars
      BY <3>1 DEF rerrVars
    <3>2. CASE SendRerr
      BY <3>2, RerrAssumption DEF SendRerr, SendRerrWhenNoRouteToForward,
         RerrRateLimitTimerExpire, SendRerrMessage, AtLimit, RerrAssumption
    <3>3. CASE Tick
      BY <3>3 DEF Tick, RerrTick
    <3> QED
      BY <3>1, <3>2, <3>3 DEF Next, storeVars
  <2> QED
    BY <2>1, <2>2, <2>3 DEF OthersType
<1>3. QueueInv /\ OthersType => TypeOK
  BY DEF QueueInv, Accounted, Item, OthersType, CacheInv, TypeOK, QueueTypeOK, CacheTypeOK
<1> QED
  BY <1>1, <1>2, <1>3, QueueInvHolds, PTL DEF Spec
=============================================================================
