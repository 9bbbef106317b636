------------------------------ MODULE Neighbors ------------------------------
(***************************************************************************)
(* aodv::Neighbors: the table of neighbours a node has heard of, the timer *)
(* that purges it, and the callback that tells the protocol of a broken    *)
(* link.                                                                   *)
(*                                                                         *)
(* Times are kept relative to now, in ticks: left[n] is m_expireTime - Now *)
(* and timer is the delay left of m_ntimer, so nothing grows as time goes  *)
(* by.  A tick passes only when no timer is due.  Overdue is overdue: the  *)
(* age of an overdue neighbour is not counted beyond Overdue.              *)
(***************************************************************************)
EXTENDS Integers

CONSTANTS
  Neighbor,
  PurgeDelay,    \* delay of m_ntimer
  Lives          \* lifetimes that the callers of Update ask for

ASSUME NeighborsAssumption ==
  /\ PurgeDelay \in Nat \ {0}
  /\ Lives \subseteq Nat \ {0}

Off == -1        \* a timer that is not running
Overdue == -PurgeDelay - 1   \* bound: the least value of left

VARIABLES
  left,      \* m_nb: a function on the neighbours in the table
  resolved,  \* those whose m_hardwareAddress is known
  timer,     \* m_ntimer
  reported   \* neighbours handed to m_handleLinkFailure in the last step

nbVars == <<left, resolved, timer, reported>>

NbTypeOK ==
  /\ DOMAIN left \subseteq Neighbor
  /\ \A n \in DOMAIN left : left[n] \in Int
  /\ resolved \subseteq DOMAIN left
  /\ timer \in {Off} \cup 0 .. PurgeDelay
  /\ reported \subseteq Neighbor

\* Start() schedules the timer if hellos are enabled.
NbInit ==
  /\ left = [n \in {} |-> 0] /\ resolved = {} /\ reported = {}
  /\ timer \in {Off, PurgeDelay}

-----------------------------------------------------------------------------
\* CloseNeighbor; (mutant) silence is not looked at.
CloseNeighbor_FeedbackOnly(l, n, closed) == n \in closed
CloseNeighbor(l, n, closed) == l[n] < 0 \/ n \in closed

\* (mutant) the timer is not started again.
Purge_Once(l, res, closed, t) ==
  LET gone == {n \in DOMAIN l : CloseNeighbor(l, n, closed)} IN
  /\ left' = [n \in DOMAIN l \ gone |-> l[n]]
  /\ resolved' = res \ gone
  /\ reported' = gone
  /\ timer' = t

\* Purge of the table l, when the timer has t left: an empty table is left
\* alone, timer included; otherwise the closed neighbours are reported and
\* removed, and the timer starts again.
Purge(l, res, closed, t) ==
  LET gone == {n \in DOMAIN l : CloseNeighbor(l, n, closed)} IN
  /\ left' = [n \in DOMAIN l \ gone |-> l[n]]
  /\ resolved' = res \ gone
  /\ reported' = gone
  /\ timer' = IF DOMAIN l = {} THEN t ELSE PurgeDelay

\* Update(n, life): a known neighbour lives on at least that long, and is
\* not purged even if it is overdue; a new one is added to a purged table.
\* found says whether the ARP cache knows its hardware address.
Update(n, life, found) ==
  LET res == IF found THEN resolved \cup {n} ELSE resolved IN
  \/ /\ n \in DOMAIN left
     /\ left' = [left EXCEPT ![n] = IF life > @ THEN life ELSE @]
     /\ resolved' = res
     /\ reported' = {}
     /\ UNCHANGED timer
  \/ /\ n \notin DOMAIN left
     /\ Purge([m \in DOMAIN left \cup {n} |-> IF m = n THEN life ELSE left[m]],
              res, {}, timer)

\* IsNeighbor and GetExpireTime purge before they look.
Lookup == Purge(left, resolved, {}, timer)

\* m_ntimer runs out.
PurgeTimerExpire == timer = 0 /\ Purge(left, resolved, {}, Off)

\* ProcessTxError: layer 2 could not deliver a frame to neighbour n.
ProcessTxError(n) == Purge(left, resolved, {n} \cap resolved, timer)

\* Clear: the last interface is gone; nobody is told.
Clear ==
  /\ left' = [n \in {} |-> 0] /\ resolved' = {} /\ reported' = {}
  /\ UNCHANGED timer

\* Time passes.
NbTick ==
  /\ timer # 0
  /\ left' = [n \in DOMAIN left |->
                IF left[n] > Overdue THEN left[n] - 1 ELSE Overdue]
  /\ timer' = IF timer = Off THEN Off ELSE timer - 1
  /\ reported' = {}
  /\ UNCHANGED resolved

NbNext ==
  \/ \E n \in Neighbor, life \in Lives, found \in BOOLEAN : Update(n, life, found)
  \/ \E n \in Neighbor : ProcessTxError(n)
  \/ Lookup \/ PurgeTimerExpire \/ Clear \/ NbTick

NbSpec == NbInit /\ [][NbNext]_nbVars

-----------------------------------------------------------------------------
\* A neighbour that has fallen silent does not stay in the table for longer
\* than one more delay of the purge timer: the timer runs whenever there is
\* somebody in the table, although every purge starts it afresh, a purge of
\* an empty table does not, and an update does not look at it.
SilentAreReported ==
  \A n \in DOMAIN left : timer # Off /\ left[n] >= -PurgeDelay
=============================================================================
