----------------------------- MODULE NodeStores -----------------------------
(***************************************************************************)
(* What a node keeps for a limited time besides its routes and its         *)
(* neighbours, under the one clock they share: packets that wait for a     *)
(* route, ids of what it has seen, and the count of errors it has sent.    *)
(***************************************************************************)
EXTENDS RequestQueue, IdCache, RerrLimit

storeVars == <<queueVars, cacheVars, rerrVars>>

TypeOK == QueueTypeOK /\ CacheTypeOK /\ RerrTypeOK

Init == QueueInit /\ CacheInit /\ RerrInit

SendRerr == \/ SendRerrWhenNoRouteToForward \/ RerrRateLimitTimerExpire
            \/ \E one \in BOOLEAN : SendRerrMessage(one)

\* Time passes, unless a timer is due.
Tick == QueueTick /\ CacheTick /\ RerrTick

Next ==
  \/ QueueOperation /\ UNCHANGED <<cacheVars, rerrVars>>
  \/ (\E i \in Id : Copy(i)) /\ UNCHANGED <<queueVars, rerrVars>>
  \/ SendRerr /\ UNCHANGED <<queueVars, cacheVars>>
  \/ Tick

Spec == Init /\ [][Next]_storeVars
=============================================================================
