--------------------------- MODULE Neighbors_proofs ---------------------------
(***************************************************************************)
(* Proofs about the neighbour table.  The age of an overdue neighbour is   *)
(* bounded by how far the purge timer has run: that is inductive, and      *)
(* implies SilentAreReported because the timer never has more than         *)
(* PurgeDelay left.                                                        *)
(***************************************************************************)
EXTENDS Neighbors, TLAPS

Covered == \A n \in DOMAIN left : timer # Off /\ left[n] >= timer - PurgeDelay

NbInv == NbTypeOK /\ Covered

\* What a purge leaves is in the table before, is not overdue, and has the
\* whole delay of the timer before it.
LEMMA PurgeInv ==
  ASSUME NEW l, DOMAIN l \subseteq Neighbor, \A n \in DOMAIN l : l[n] \in Int,
         NEW res \in SUBSET DOMAIN l, NEW closed,
         NEW t \in {Off} \cup 0 .. PurgeDelay,
         Purge(l, res, closed, t)
  PROVE  NbInv'
<1> DEFINE gone == {n \in DOMAIN l : CloseNeighbor(l, n, closed)}
<1>1. /\ left' = [n \in DOMAIN l \ gone |-> l[n]]
      /\ resolved' = res \ gone /\ reported' = gone
      /\ timer' = IF DOMAIN l = {} THEN t ELSE PurgeDelay
  BY DEF Purge
<1>2. DOMAIN left' = DOMAIN l \ gone
  BY <1>1
<1>3. \A n \in DOMAIN left' : left'[n] = l[n] /\ l[n] \in Int /\ ~(l[n] < 0)
  BY <1>1 DEF CloseNeighbor
<1>4. timer' \in {Off} \cup 0 .. PurgeDelay
  BY <1>1, NeighborsAssumption
<1>5. NbTypeOK'
  BY <1>1, <1>2, <1>3, <1>4 DEF NbTypeOK
<1>6. Covered'
  <2> SUFFICES ASSUME NEW n \in DOMAIN left'
               PROVE  timer' # Off /\ left'[n] >= timer' - PurgeDelay
    BY DEF Covered
  <2>1. timer' = PurgeDelay
    BY <1>1, <1>2
  <2> QED
    BY <2>1, <1>3, NeighborsAssumption DEF Off
<1> QED
  BY <1>5, <1>6 DEF NbInv

\* Both disjuncts of Update: a lifetime is only ever extended, and a new
\* neighbour comes with a purge.
LEMMA UpdateInv ==
  ASSUME NbInv, NEW n \in Neighbor, NEW life \in Lives, NEW found \in BOOLEAN,
         Update(n, life, found)
  PROVE  NbInv'
<1> DEFINE res == IF found THEN resolved \cup {n} ELSE resolved
<1>0. life \in Nat \ {0}
  BY NeighborsAssumption
<1>1. CASE n \in DOMAIN left
  <2>1. /\ left' = [left EXCEPT ![n] = IF life > @ THEN life ELSE @]
        /\ resolved' = res /\ reported' = {} /\ timer' = timer
    BY <1>1 DEF Update
  <2>2. DOMAIN left' = DOMAIN left
    BY <2>1
  <2>3. \A m \in DOMAIN left : left'[m] \in Int /\ left'[m] >= left[m]
    BY <2>1, <1>0 DEF NbInv, NbTypeOK
  <2>4. NbTypeOK'
    BY <2>1, <2>2, <2>3, <1>1 DEF NbInv, NbTypeOK
  <2>5. Covered'
    <3> SUFFICES ASSUME NEW m \in DOMAIN left
                 PROVE  timer # Off /\ left'[m] >= timer - PurgeDelay
      BY <2>1, <2>2 DEF Covered
    <3>1. /\ timer # Off /\ left[m] >= timer - PurgeDelay
          /\ left[m] \in Int /\ timer \in Int /\ PurgeDelay \in Int
      BY NeighborsAssumption DEF NbInv, NbTypeOK, Covered
    <3> QED
      BY <3>1, <2>3
  <2> QED
    BY <2>4, <2>5 DEF NbInv
<1>2. CASE n \notin DOMAIN left
  <2> DEFINE l == [m \in DOMAIN left \cup {n} |-> IF m = n THEN life ELSE left[m]]
  <2>1. Purge(l, res, {}, timer)
    BY <1>2 DEF Update
  <2>2. /\ DOMAIN l \subseteq Neighbor /\ \A m \in DOMAIN l : l[m] \in Int
        /\ res \in SUBSET DOMAIN l
        /\ timer \in {Off} \cup 0 .. PurgeDelay
    BY <1>0 DEF NbInv, NbTypeOK
  <2> HIDE DEF l
  <2> QED
    BY <2>1, <2>2, PurgeInv
<1> QED
  BY <1>1, <1>2

LEMMA NbStep == NbInv /\ [NbNext]_nbVars => NbInv'
<1> SUFFICES ASSUME NbInv, [NbNext]_nbVars
             PROVE  NbInv'
  OBVIOUS
<1>0. /\ DOMAIN left \subseteq Neighbor /\ \A n \in DOMAIN left : left[n] \in Int
      /\ resolved \in SUBSET DOMAIN left
      /\ timer \in {Off} \cup 0 .. PurgeDelay
  BY DEF NbInv, NbTypeOK
<1>1. ASSUME NEW n \in Neighbor, NEW life \in Lives, NEW found \in BOOLEAN,
             Update(n, life, found)
      PROVE  NbInv'
  BY <1>1, UpdateInv
<1>2. ASSUME NEW n \in Neighbor, ProcessTxError(n)
      PROVE  NbInv'
  BY <1>0, <1>2, PurgeInv DEF ProcessTxError
<1>3. CASE Lookup
  BY <1>0, <1>3, PurgeInv DEF Lookup
<1>4. CASE PurgeTimerExpire
  BY <1>0, <1>4, PurgeInv DEF PurgeTimerExpire
<1>5. CASE Clear
  BY <1>0, <1>5 DEF Clear, NbInv, NbTypeOK, Covered
<1>6. CASE NbTick
  <2>1. /\ DOMAIN left' = DOMAIN left
        /\ \A n \in DOMAIN left :
             left'[n] = IF left[n] > Overdue THEN left[n] - 1 ELSE Overdue
        /\ timer' = IF timer = Off THEN Off ELSE timer - 1
        /\ timer # 0 /\ reported' = {} /\ resolved' = resolved
    BY <1>6 DEF NbTick
  <2>2. timer' \in {Off} \cup 0 .. PurgeDelay
    BY <1>0, <2>1, NeighborsAssumption DEF Off
  <2>3. NbTypeOK'
    BY <1>0, <2>1, <2>2, NeighborsAssumption DEF NbTypeOK, Overdue
  <2>4. ASSUME NEW n \in DOMAIN left
        PROVE  timer' # Off /\ left'[n] >= timer' - PurgeDelay
    <3>1. timer # Off /\ left[n] >= timer - PurgeDelay
      BY DEF NbInv, Covered
    <3> QED
      BY <3>1, <1>0, <2>1, NeighborsAssumption DEF Off, Overdue
  <2> QED
    BY <2>1, <2>3, <2>4 DEF NbInv, Covered
<1>7. CASE UNCHANGED nbVars
  BY <1>7 DEF nbVars, NbInv, NbTypeOK, Covered
<1> QED
  BY <1>1, <1>2, <1>3, <1>4, <1>5, <1>6, <1>7 DEF NbNext

LEMMA NbInvariant == NbSpec => []NbInv
<1>1. NbInit => NbInv
  BY NeighborsAssumption DEF NbInit, NbInv, NbTypeOK, Covered
<1> QED
  BY <1>1, NbStep, PTL DEF NbSpec

LEMMA CoveredSuffices == NbInv => SilentAreReported
<1> SUFFICES ASSUME NbInv, NEW n \in DOMAIN left
             PROVE  timer # Off /\ left[n] >= -PurgeDelay
  BY DEF SilentAreReported
<1>1. /\ timer # Off /\ left[n] >= timer - PurgeDelay /\ left[n] \in Int
      /\ timer \in {Off} \cup 0 .. PurgeDelay
  BY DEF NbInv, NbTypeOK, Covered
<1> QED
  BY <1>1, NeighborsAssumption DEF Off

\* Whoever calls the table's operations, and when: a neighbour that has
\* fallen silent is in the table for at most PurgeDelay longer than its
\* lifetime, with the purge timer running.
THEOREM SilenceReported == NbSpec => []SilentAreReported
BY NbInvariant, CoveredSuffices, PTL
=============================================================================
