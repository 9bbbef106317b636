------------------------- MODULE PacketBuffer_proofs -------------------------
(***************************************************************************)
(* Route discovery implements the packet buffer of PacketBuffer.tla when   *)
(* no packet is bound to a device: every step of RouteDiscovery moves the  *)
(* packets as a step of PacketBuffer may, or leaves them alone.            *)
(***************************************************************************)
EXTENDS RouteDiscovery_proofs

For == [p \in Packet |-> load[p].dst]

\* The stale packets are the oldest ones, in the terms of either module.
LEMMA StaleIsOldest == Stale = Promise!Oldest /\ In("queue") = Promise!Buffered
<1>1. In("queue") = Promise!Buffered
  BY DEF In, Promise!Buffered
<1> QED
  BY <1>1 DEF Stale, Promise!Oldest

\* With the stale packets and the victim gone, the buffer has still lost
\* nothing but its oldest packets.
LEMMA EnqueuedIsBuffer ==
  ASSUME TypeOK, NEW p \in Packet, NEW stale \in Stale,
         at[p] = "loop", \A q \in Packet : at[q] = "loop" => p <= q,
         at' = Enqueued(p, stale)
  PROVE  \E old \in Promise!Oldest : Promise!Buffer(p, old)
<1> DEFINE left   == In("queue") \ stale
           victim == IF Cardinality(left) >= MaxQueueLen
                     THEN {v \in left : \A q \in left : v <= q} ELSE {}
           old    == stale \cup victim
<1>1. stale \subseteq In("queue") /\ In("queue") \subseteq Packet
  BY DEF Stale, In
<1>2. victim \subseteq left /\ \A v \in victim, q \in left : v <= q
  OBVIOUS
<1>3. p \notin old
  BY <1>1, <1>2 DEF In
<1>4. at' = [q \in Packet |-> IF q = p THEN "queue"
                              ELSE IF q \in old THEN "error" ELSE at[q]]
  <2>1. at' = [Move(at, old, "error") EXCEPT ![p] = "queue"]
    BY DEF Enqueued
  <2> HIDE DEF old
  <2> QED
    BY <2>1 DEF Move
<1>5. \A x \in old, y \in In("queue") \ old : x < y
  <2> SUFFICES ASSUME NEW x \in old, NEW y \in In("queue") \ old PROVE x < y
    OBVIOUS
  <2>1. x \in Nat /\ y \in Nat /\ y \in In("queue") \ stale
    BY <1>1, <1>2 DEF Packet
  <2>2. CASE x \in stale
    BY <2>1, <2>2 DEF Stale
  <2>3. CASE x \in victim
    <3>1. x <= y /\ x # y
      BY <1>2, <2>1, <2>3
    <3> QED
      BY <2>1, <3>1
  <2> QED
    BY <2>2, <2>3
<1>6. old \in Promise!Oldest
  BY <1>1, <1>2, <1>5 DEF Promise!Oldest, Promise!Buffered, In
<1> HIDE DEF old
<1> QED
  BY <1>4, <1>6 DEF Promise!Buffer

\* What is released leaves whole, but for the stale packets.
LEMMA ReleasedIsSettle ==
  ASSUME TypeOK, Bindings \subseteq {AnyDev},
         NEW d \in Dst, NEW stale \in Stale, NEW dev,
         at' = Released(Move(at, stale, "error"), d, dev)
  PROVE  Promise!Settle(d, stale, "sent")
<1> DEFINE a == Move(at, stale, "error")
<1>1. \A p \in Packet : ~Mismatch(p, dev)
  BY DEF Mismatch, TypeOK
<1>2. at' = [p \in Packet |-> IF a[p] = "queue" /\ load[p].dst = d
                              THEN "sent" ELSE a[p]]
  <2> HIDE DEF a
  <2> DEFINE r == [p \in Packet |-> IF a[p] = "queue" /\ load[p].dst = d
                                    THEN "sent" ELSE a[p]]
  <2>1. Released(a, d, dev) = [p \in Packet |-> Released(a, d, dev)[p]]
    BY DEF Released
  <2>2. ASSUME NEW p \in Packet PROVE Released(a, d, dev)[p] = r[p]
    BY <1>1 DEF Released
  <2>3. at' = Released(a, d, dev)
    BY DEF a
  <2> QED
    BY <2>1, <2>2, <2>3
<1>3. \A p \in Packet : a[p] = IF p \in stale THEN "error" ELSE at[p]
  BY DEF Move
<1> HIDE DEF a
<1> QED
  BY <1>2, <1>3 DEF Promise!Settle, Promise!BufferedFor, Promise!Buffered

\* What is given up is reported whole.
LEMMA GivenUpIsSettle ==
  ASSUME NEW d \in Dst, NEW stale \in Stale,
         at' = Move(at, stale \cup Queued(d), "error")
  PROVE  Promise!Settle(d, stale, "error")
  BY DEF Move, Queued, In, Promise!Settle, Promise!BufferedFor,
         Promise!Buffered

\* The abstract step of each concrete one.
LEMMA PromiseStep ==
  ASSUME Bindings \subseteq {AnyDev}, TypeOK, [Next]_vars
  PROVE  [Promise!Next]_<<For, at>>
<1>1. For' = For /\ load' = load
  BY LoadConstant DEF For
<1>2. SUFFICES \/ at' = at
               \/ \E p \in Packet : Promise!Submit(p) \/ Promise!Refuse(p)
               \/ \E p \in Packet, old \in Promise!Oldest : Promise!Buffer(p, old)
               \/ \E d \in Dst, old \in Promise!Oldest,
                    place \in {"sent", "error"} : Promise!Settle(d, old, place)
  BY <1>1 DEF Promise!Next, For
<1>3. CASE RouteOutput
  <2>1. PICK p \in In("app") :
          /\ \A q \in In("app") : p <= q
          /\ at' = [at EXCEPT ![p] =
                CASE up = {} -> "error"
                  [] up # {} /\ ~HasValid(tbl, load[p].dst) -> "loop"
                  [] up # {} /\ HasValid(tbl, load[p].dst) ->
                       IF Mismatch(p, tbl[load[p].dst].dev)
                       THEN "error" ELSE "sent"]
    BY <1>3 DEF RouteOutput
  <2>2. \E place \in {"sent", "error", "loop"} : at' = [at EXCEPT ![p] = place]
    BY <2>1, Zenon
  <2> QED
    BY <2>1, <2>2 DEF Promise!Submit, In
<1>4. CASE DeferredRouteOutput
  <2>1. PICK p \in In("loop"), stale \in Stale :
          /\ \A q \in In("loop") : p <= q
          /\ at' = Enqueued(p, stale)
    BY <1>4 DEF DeferredRouteOutput
  <2>2. p \in Packet /\ at[p] = "loop" /\ \A q \in Packet : at[q] = "loop" => p <= q
    BY <2>1 DEF In
  <2> QED
    BY <2>1, <2>2, EnqueuedIsBuffer
<1>5. ASSUME NEW d \in Dst, RouteRequestTimerExpire(d)
      PROVE  \/ at' = at
             \/ \E old \in Promise!Oldest,
                  place \in {"sent", "error"} : Promise!Settle(d, old, place)
  <2>1. ASSUME NEW stale \in Stale,
               at' = Released(Move(at, stale, "error"), d, tbl[d].dev)
        PROVE  \E old \in Promise!Oldest : Promise!Settle(d, old, "sent")
    BY <2>1, ReleasedIsSettle, StaleIsOldest
  <2>2. ASSUME NEW stale \in Stale, at' = Move(at, stale \cup Queued(d), "error")
        PROVE  \E old \in Promise!Oldest : Promise!Settle(d, old, "error")
    BY <2>2, GivenUpIsSettle, StaleIsOldest
  <2>3. \/ at' = at
        \/ \E stale \in Stale :
             at' = Released(Move(at, stale, "error"), d, tbl[d].dev)
        \/ \E stale \in Stale : at' = Move(at, stale \cup Queued(d), "error")
    BY <1>5 DEF RouteRequestTimerExpire, GiveUp
  <2> QED
    BY <2>1, <2>2, <2>3
<1>6. CASE RreqRateLimitTimerExpire
  BY <1>6 DEF RreqRateLimitTimerExpire
<1>7. ASSUME NEW d \in Dst, DeferredRequest(d) PROVE at' = at
  BY <1>7 DEF DeferredRequest
<1>8. CASE Receive
  <2>1. ASSUME NEW d \in Dst, NEW n, NEW mine \in BOOLEAN, NEW hop, NEW seq,
               NEW dev, RecvReply(d, n, mine, hop, seq, dev)
        PROVE  \/ at' = at
               \/ \E old \in Promise!Oldest : Promise!Settle(d, old, "sent")
    <3>1. \/ at' = at
          \/ \E stale \in Stale :
               at' = Released(Move(at, stale, "error"), d, tbl'[d].dev)
      BY <2>1 DEF RecvReply
    <3> QED
      BY <3>1, ReleasedIsSettle, StaleIsOldest
  <2>2. Quiet => at' = at
    BY DEF Quiet
  <2> QED
    BY <1>8, <2>1, <2>2, ReceiveQuiet DEF Receive
<1>9. CASE Failure
  BY <1>9, FailureQuiet DEF Quiet
<1>10. CASE UNCHANGED vars
  BY <1>10 DEF vars
<1>11. CASE RefusedRouteInput
  BY <1>11 DEF RefusedRouteInput, Promise!Refuse, In
<1> QED
  BY <1>11, <1>3, <1>4, <1>5, <1>6, <1>7, <1>8, <1>9, <1>10 DEF Next

\* Route discovery implements the packet buffer: the application's packets
\* leave the node's queue only as PacketBuffer says.
THEOREM ImplementsPacketBuffer ==
  ASSUME Bindings \subseteq {AnyDev}
  PROVE  Spec => BufferSpec
<1>1. Init => Promise!Init
  BY DEF Init, Promise!Init
<1>2. TypeOK /\ [Next]_vars => [Promise!Next]_<<For, at>>
  BY PromiseStep
<1> QED
  BY <1>1, <1>2, TypeCorrect, PTL DEF Spec, BufferSpec, Promise!Spec, For
=============================================================================
