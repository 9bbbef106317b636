-------------------------- MODULE HelloSensing_proofs --------------------------
(***************************************************************************)
(* Type correctness of the hello protocol, which rests on one fact about   *)
(* its timer: a broadcast that puts the next hello off is never older than *)
(* the timer has run.  And the neighbour table as the protocol uses it is  *)
(* a neighbour table, so what Neighbors_proofs proves of the table holds   *)
(* of the protocol.  Last, where lifetimes are long enough, what is left   *)
(* of the life of a live link lasts until the listener hears of it.        *)
(***************************************************************************)
EXTENDS HelloSensing, Neighbors_proofs

SenderTypeOK ==
  /\ hello \in [Sender -> {Off} \cup 0 .. HelloInterval]
  /\ lastBcast \in [Sender -> {Silent} \cup 0 .. HelloInterval]
  /\ up \subseteq Sender
  /\ air \subseteq Broadcast
  /\ missed \in [Sender -> 0 .. MaxMissed]
  /\ uses \in 0 .. MaxUses /\ bounces \in 0 .. MaxBounces

\* The last broadcast happened since the timer was started.
BroadcastSinceTimer ==
  \A s \in Sender : lastBcast[s] # Silent /\ hello[s] # Off
                      => hello[s] + lastBcast[s] <= HelloInterval

SenderInv == SenderTypeOK /\ BroadcastSinceTimer

LEMMA ScheduledType ==
  ASSUME air \subseteq Broadcast, NEW s \in Sender, NEW kind \in {"HELLO", "RREQ"},
         Scheduled(s, kind)
  PROVE  air' \subseteq Broadcast
BY DEF Scheduled, Broadcast

LEMMA SenderStep == SenderInv /\ [Next]_vars => SenderInv'
<1> SUFFICES ASSUME SenderInv, [Next]_vars
             PROVE  SenderInv'
  OBVIOUS
<1> USE DEF SenderInv
<1>1. ASSUME NEW s \in Sender, HelloTimerExpire(s)
      PROVE  SenderInv'
  <2>1. air' \subseteq Broadcast
    BY <1>1, ScheduledType DEF HelloTimerExpire, SenderTypeOK
  <2>2. lastBcast[s] # Silent => HelloInterval - lastBcast[s] \in 0 .. HelloInterval
    BY HelloAssumption DEF SenderTypeOK
  <2>3. hello' \in [Sender -> {Off} \cup 0 .. HelloInterval]
    BY <1>1, <2>2, HelloAssumption DEF HelloTimerExpire, SenderTypeOK
  <2>4. /\ lastBcast' = [lastBcast EXCEPT ![s] = Silent]
        /\ UNCHANGED <<up, missed, uses, bounces>>
        /\ \A r \in Sender \ {s} : hello'[r] = hello[r]
    BY <1>1 DEF HelloTimerExpire, SenderTypeOK
  <2> QED
    BY <2>1, <2>3, <2>4 DEF SenderTypeOK, BroadcastSinceTimer
<1>2. ASSUME NEW s \in Sender, BroadcastRequest(s)
      PROVE  SenderInv'
  <2>1. air' \subseteq Broadcast
    BY <1>2, ScheduledType DEF BroadcastRequest, SenderTypeOK
  <2>2. /\ lastBcast' = [lastBcast EXCEPT ![s] = 0]
        /\ UNCHANGED <<hello, up, missed, uses, bounces>>
    BY <1>2 DEF BroadcastRequest
  <2> QED
    BY <2>1, <2>2, HelloAssumption DEF SenderTypeOK, BroadcastSinceTimer, Off
<1>3. ASSUME NEW s \in Sender, NotifyInterfaceDown(s)
      PROVE  SenderInv'
  BY <1>3, HelloAssumption
     DEF NotifyInterfaceDown, SenderTypeOK, BroadcastSinceTimer, Off
<1>4. ASSUME NEW s \in Sender, NotifyInterfaceUp(s)
      PROVE  SenderInv'
  BY <1>4 DEF NotifyInterfaceUp, SenderTypeOK, BroadcastSinceTimer
<1>5. ASSUME NEW n \in Neighbor, UseNeighbor(n)
      PROVE  SenderInv'
  BY <1>5, HelloAssumption DEF UseNeighbor, SenderTypeOK, BroadcastSinceTimer
<1>6. ASSUME NEW b \in air, Hear(b) \/ Miss(b)
      PROVE  SenderInv'
  <2>1. b.from \in Sender
    BY DEF SenderTypeOK, Broadcast
  <2>2. /\ air' = air \ {b} /\ UNCHANGED <<hello, lastBcast, up, uses, bounces>>
        /\ missed' \in [Sender -> 0 .. MaxMissed]
    BY <1>6, <2>1, HelloAssumption DEF Hear, Miss, Sent, SenderTypeOK
  <2> QED
    BY <2>2 DEF SenderTypeOK, BroadcastSinceTimer
<1>7. CASE TableOperation \/ ListenerTimer
  BY <1>7 DEF TableOperation, ListenerTimer, helloVars, SenderTypeOK,
              BroadcastSinceTimer
<1>8. CASE Tick
  <2>1. air' \subseteq Broadcast
    <3> SUFFICES ASSUME NEW b \in air
                 PROVE  [b EXCEPT !.delay = @ - 1] \in Broadcast
      BY <1>8 DEF Tick
    <3>1. b \in Broadcast /\ b.delay > 0
      BY <1>8 DEF Tick, SenderTypeOK
    <3>2. b.delay - 1 \in 0 .. Jitter
      BY <3>1, HelloAssumption DEF Broadcast
    <3> QED
      BY <3>1, <3>2 DEF Broadcast
  <2>2. \A s \in Sender :
          /\ hello[s] # 0
          /\ hello'[s] = IF hello[s] = Off THEN Off ELSE hello[s] - 1
          /\ lastBcast'[s] = IF lastBcast[s] = Silent \/ hello[s] = Off
                             THEN lastBcast[s] ELSE lastBcast[s] + 1
    BY <1>8 DEF Tick
  <2>3. ASSUME NEW s \in Sender
        PROVE  /\ hello'[s] \in {Off} \cup 0 .. HelloInterval
               /\ lastBcast'[s] \in {Silent} \cup 0 .. HelloInterval
               /\ lastBcast'[s] # Silent /\ hello'[s] # Off
                    => hello'[s] + lastBcast'[s] <= HelloInterval
    <3>0. /\ hello[s] \in {Off} \cup 0 .. HelloInterval
          /\ lastBcast[s] \in {Silent} \cup 0 .. HelloInterval
          /\ lastBcast[s] # Silent /\ hello[s] # Off
               => hello[s] + lastBcast[s] <= HelloInterval
      BY DEF SenderTypeOK, BroadcastSinceTimer
    <3>1. CASE hello[s] = Off
      BY <3>0, <3>1, <2>2 DEF Off
    <3>2. CASE hello[s] # Off /\ lastBcast[s] = Silent
      BY <3>0, <3>2, <2>2, HelloAssumption DEF Off
    <3>3. CASE hello[s] # Off /\ lastBcast[s] # Silent
      BY <3>0, <3>3, <2>2, HelloAssumption DEF Off
    <3> QED
      BY <3>1, <3>2, <3>3
  <2>4. /\ hello' = [s \in Sender |-> hello'[s]]
        /\ lastBcast' = [s \in Sender |-> lastBcast'[s]]
    BY <1>8 DEF Tick
  <2> QED
    BY <1>8, <2>1, <2>3, <2>4 DEF Tick, SenderTypeOK, BroadcastSinceTimer
<1>9. CASE UNCHANGED vars
  BY <1>9 DEF vars, helloVars, SenderTypeOK, BroadcastSinceTimer
<1> QED
  BY <1>1, <1>2, <1>3, <1>4, <1>5, <1>6, <1>7, <1>8, <1>9 DEF Next, Deliver

LEMMA SenderInvariant == Spec => []SenderInv
<1>1. Init => SenderInv
  <2> SUFFICES ASSUME Init
               PROVE  SenderInv
    OBVIOUS
  <2>1. SenderTypeOK
    <3>1. hello \in [Sender -> {Off} \cup 0 .. HelloInterval]
      BY HelloAssumption DEF Init
    <3> QED
      BY <3>1, HelloAssumption DEF Init, SenderTypeOK
  <2>2. BroadcastSinceTimer
    BY DEF Init, BroadcastSinceTimer
  <2> QED
    BY <2>1, <2>2 DEF SenderInv
<1> QED
  BY <1>1, SenderStep, PTL DEF Spec

\* Every step of the protocol is a step of the neighbour table, or leaves it
\* alone.
LEMMA StepIsTableStep == SenderInv /\ [Next]_vars => [NbNext]_nbVars
<1> SUFFICES ASSUME SenderInv, [Next]_vars
             PROVE  [NbNext]_nbVars
  OBVIOUS
<1>1. ASSUME NEW s \in Sender,
             \/ HelloTimerExpire(s) \/ BroadcastRequest(s)
             \/ NotifyInterfaceDown(s) \/ NotifyInterfaceUp(s)
      PROVE  UNCHANGED nbVars
  BY <1>1 DEF HelloTimerExpire, BroadcastRequest, NotifyInterfaceDown,
              NotifyInterfaceUp
<1>2. ASSUME NEW n \in Neighbor, UseNeighbor(n)
      PROVE  NbNext
  BY <1>2, HelloAssumption DEF UseNeighbor, NbNext
<1>3. ASSUME NEW b \in air, Hear(b)
      PROVE  NbNext
  <2>1. b.from \in Neighbor
    BY HelloAssumption DEF SenderInv, SenderTypeOK, Broadcast
  <2> QED
    BY <2>1, <1>3, HelloAssumption DEF Hear, NbNext
<1>4. ASSUME NEW b \in air, Miss(b)
      PROVE  UNCHANGED nbVars
  BY <1>4 DEF Miss
<1>5. CASE TableOperation \/ ListenerTimer
  BY <1>5 DEF TableOperation, ListenerTimer, NbNext
<1>6. CASE Tick
  BY <1>6 DEF Tick, NbNext
<1>7. CASE UNCHANGED vars
  BY <1>7 DEF vars
<1> QED
  BY <1>1, <1>2, <1>3, <1>4, <1>5, <1>6, <1>7 DEF Next, Deliver

\* The listener's table is used as a neighbour table may be used.
THEOREM UsesNeighborTable == Spec => NbSpec
<1>1. Init => NbInit
  BY DEF Init
<1> QED
  BY <1>1, StepIsTableStep, SenderInvariant, PTL DEF Spec, NbSpec

\* Every variable keeps its type; the hello timer is never set to a negative
\* delay, because the last broadcast is no older than the timer's last run.
THEOREM HelloTypeCorrect == Spec => []TypeOK
<1>1. SenderInv /\ NbInv => TypeOK
  BY DEF SenderInv, SenderTypeOK, NbInv, TypeOK
<1> QED
  BY <1>1, SenderInvariant, UsesNeighborTable, NbInvariant, PTL

\* In the hello protocol, too, a silent neighbour does not stay in the table
\* for longer than PurgeDelay after its lifetime.
THEOREM SilentSendersReported == Spec => []SilentAreReported
BY UsesNeighborTable, SilenceReported, PTL

-----------------------------------------------------------------------------
(* Live links.  A sender whose hello timer runs broadcasts at least once   *)
(* in every interval, and of MaxMissed + 1 broadcasts in a row the         *)
(* listener hears one.                                                     *)

Period == HelloInterval + Jitter   \* longest time between two deliveries

\* How long the deliveries that may still be missed can take.
Patience(m) == (MaxMissed - m) * Period

\* Time until the next broadcast is scheduled, at the latest.
NextBroadcast(s) ==
  IF lastBcast[s] = Silent THEN hello[s] ELSE HelloInterval - lastBcast[s]

\* What is left of the life of s lasts until it is heard: the next delivery
\* is in the air, or will be in time.
Lasting(s) ==
  \/ \E b \in air : b.from = s /\ left[s] >= b.delay + Patience(missed[s])
  \/ left[s] >= NextBroadcast(s) + Jitter + Patience(missed[s])

LinkInv ==
  \A s \in Sender : hello[s] # Off =>
    /\ s \in up
    /\ s \in DOMAIN left => left[s] \in Int /\ Lasting(s)

\* Lifetimes long enough for MaxMissed missed broadcasts.
LongLives == Period + Patience(0) <= HelloLife /\ Period + Patience(0) <= RouteLife

LEMMA PatienceFacts ==
  /\ Period \in Nat /\ Jitter \in Nat /\ HelloLife \in Nat /\ RouteLife \in Nat
  /\ \A m \in 0 .. MaxMissed :
       /\ Patience(m) \in Nat /\ Patience(m) <= Patience(0)
       /\ m < MaxMissed => Patience(m) = Patience(m + 1) + Period
<1>1. Period \in Nat /\ Jitter \in Nat /\ HelloLife \in Nat /\ RouteLife \in Nat
  <2>1. HelloLife \in Lives /\ RouteLife \in Lives /\ \A x \in Lives : x \in Nat
    BY HelloAssumption, NeighborsAssumption
  <2>2. HelloInterval \in Nat /\ Jitter \in Nat
    BY HelloAssumption
  <2> QED
    BY <2>1, <2>2 DEF Period
<1>2. ASSUME NEW m \in 0 .. MaxMissed
      PROVE  /\ Patience(m) \in Nat /\ Patience(m) <= Patience(0)
             /\ m < MaxMissed => Patience(m) = Patience(m + 1) + Period
  <2> DEFINE a == MaxMissed - m
  <2>1. a \in Nat /\ m \in Nat /\ MaxMissed \in Nat
    BY HelloAssumption
  <2>2. Patience(m) = a * Period
    BY DEF Patience
  <2>3. Patience(0) = a * Period + m * Period
    <3>1. MaxMissed = a + m
      BY <2>1
    <3>2. Patience(0) = MaxMissed * Period
      BY <2>1 DEF Patience
    <3> HIDE DEF a
    <3> QED
      BY <1>1, <2>1, <3>1, <3>2
  <2>4. a * Period \in Nat /\ m * Period \in Nat
    <3> HIDE DEF a
    <3> QED
      BY <1>1, <2>1
  <2>5. Patience(m + 1) = (a - 1) * Period
    BY <2>1 DEF Patience
  <2>6. a * Period = (a - 1) * Period + Period
    <3> HIDE DEF a
    <3> QED
      BY <1>1, <2>1
  <2> HIDE DEF a
  <2> QED
    BY <2>2, <2>3, <2>4, <2>5, <2>6
<1> QED
  BY <1>1, <1>2

\* The time until the next broadcast is at most an interval.
LEMMA NextBroadcastBound ==
  ASSUME SenderInv, NEW s \in Sender, hello[s] # Off
  PROVE  /\ NextBroadcast(s) \in 0 .. HelloInterval
         /\ missed[s] \in 0 .. MaxMissed /\ Patience(missed[s]) \in Nat
         /\ \A b \in air : b.delay \in 0 .. Jitter
<1>1. /\ hello[s] \in 0 .. HelloInterval /\ lastBcast[s] \in {Silent} \cup 0 .. HelloInterval
      /\ missed[s] \in 0 .. MaxMissed /\ \A b \in air : b.delay \in 0 .. Jitter
  BY DEF SenderInv, SenderTypeOK, Broadcast
<1>2. NextBroadcast(s) \in 0 .. HelloInterval
  BY <1>1, HelloAssumption DEF NextBroadcast
<1> QED
  BY <1>1, <1>2, PatienceFacts

\* A neighbour that has just been heard, or is new, lasts.
LEMMA FreshLasts ==
  ASSUME LongLives, SenderInv, NEW s \in Sender, hello[s] # Off,
         left[s] \in Int, left[s] >= HelloLife \/ left[s] >= RouteLife
  PROVE  Lasting(s)
<1>1. /\ NextBroadcast(s) \in 0 .. HelloInterval /\ Patience(missed[s]) \in Nat
      /\ Patience(missed[s]) <= Patience(0) /\ Patience(0) \in Nat
  BY NextBroadcastBound, PatienceFacts, HelloAssumption
<1> QED
  BY <1>1, PatienceFacts, HelloAssumption DEF Lasting, LongLives, Period

\* What the operations of the table do to the life of a neighbour.
LEMMA LifeAfter ==
  ASSUME NEW s \in DOMAIN left', NbTypeOK,
         NEW n, NEW life \in Nat, NEW found,
         \/ Update(n, life, found) \/ ProcessTxError(n) \/ Lookup \/ Clear
         \/ PurgeTimerExpire
  PROVE  \/ s \in DOMAIN left /\ left'[s] = left[s]
         \/ left'[s] \in Int /\ Update(n, life, found) /\ s = n /\ left'[s] >= life
<1>1. ASSUME NEW l, NEW res, NEW closed, NEW t, Purge(l, res, closed, t)
      PROVE  s \in DOMAIN l /\ left'[s] = l[s]
  BY <1>1 DEF Purge
<1>2. CASE ProcessTxError(n) \/ Lookup \/ PurgeTimerExpire
  BY <1>1, <1>2 DEF ProcessTxError, Lookup, PurgeTimerExpire
<1>3. CASE Clear
  BY <1>3 DEF Clear
<1>4. CASE Update(n, life, found) /\ n \in DOMAIN left
  <2>1. left' = [left EXCEPT ![n] = IF life > @ THEN life ELSE @]
    BY <1>4 DEF Update
  <2>2. s \in DOMAIN left /\ left[n] \in Int
    BY <1>4, <2>1 DEF NbTypeOK
  <2> QED
    BY <1>4, <2>1, <2>2
<1>5. CASE Update(n, life, found) /\ n \notin DOMAIN left
  <2> DEFINE l == [m \in DOMAIN left \cup {n} |-> IF m = n THEN life ELSE left[m]]
  <2>1. \E res : Purge(l, res, {}, timer)
    BY <1>5 DEF Update
  <2>2. s \in DOMAIN l /\ left'[s] = l[s]
    <3> HIDE DEF l
    <3> QED
      BY <1>1, <2>1
  <2> QED
    BY <1>5, <2>2
<1> QED
  BY <1>2, <1>3, <1>4, <1>5

LEMMA LinkStep ==
  ASSUME LongLives, SenderInv, SenderInv', NbTypeOK, LinkInv, [Next]_vars
  PROVE  LinkInv'
<1> SUFFICES ASSUME NEW s \in Sender, hello'[s] # Off
             PROVE  /\ s \in up'
                    /\ s \in DOMAIN left' => left'[s] \in Int /\ Lasting(s)'
  BY DEF LinkInv
<1>a. /\ hello \in [Sender -> {Off} \cup 0 .. HelloInterval]
      /\ lastBcast \in [Sender -> {Silent} \cup 0 .. HelloInterval]
      /\ missed \in [Sender -> 0 .. MaxMissed] /\ air \subseteq Broadcast
      /\ 0 # Off
  BY DEF SenderInv, SenderTypeOK, Off
<1>b. ASSUME UNCHANGED <<up, left>>, hello[s] # Off, Lasting(s) => Lasting(s)'
      PROVE  /\ s \in up'
             /\ s \in DOMAIN left' => left'[s] \in Int /\ Lasting(s)'
  BY <1>b DEF LinkInv
<1>c. hello[s] # Off =>
        /\ NextBroadcast(s) \in 0 .. HelloInterval
        /\ missed[s] \in 0 .. MaxMissed /\ Patience(missed[s]) \in Nat
        /\ \A b \in air : b.delay \in 0 .. Jitter
        /\ s \in up /\ (s \in DOMAIN left => left[s] \in Int /\ Lasting(s))
  BY NextBroadcastBound DEF LinkInv
<1>d. /\ NextBroadcast(s)' \in 0 .. HelloInterval
      /\ missed'[s] \in 0 .. MaxMissed /\ Patience(missed'[s]) \in Nat
      /\ Patience(missed'[s]) <= Patience(0) /\ Patience(0) \in Nat
  <2>1. /\ hello'[s] \in 0 .. HelloInterval /\ lastBcast'[s] \in {Silent} \cup 0 .. HelloInterval
        /\ missed'[s] \in 0 .. MaxMissed
    BY DEF SenderInv, SenderTypeOK
  <2>2. NextBroadcast(s)' \in 0 .. HelloInterval
    BY <2>1, HelloAssumption DEF NextBroadcast
  <2> QED
    BY <2>1, <2>2, PatienceFacts, HelloAssumption
<1>e. Jitter \in Nat /\ Period = HelloInterval + Jitter /\ HelloInterval \in Nat
  BY HelloAssumption DEF Period
\* The air only gains broadcasts, and the sender is as it was.
<1>f. ASSUME UNCHANGED <<up, left, missed>>, hello[s] # Off, air \subseteq air',
             NextBroadcast(s)' = NextBroadcast(s)
      PROVE  /\ s \in up'
             /\ s \in DOMAIN left' => left'[s] \in Int /\ Lasting(s)'
  BY <1>b, <1>f DEF Lasting
\* The sender schedules a broadcast.
<1>g. ASSUME UNCHANGED <<up, left, missed>>, hello[s] # Off, NEW kind, Scheduled(s, kind)
      PROVE  /\ s \in up'
             /\ s \in DOMAIN left' => left'[s] \in Int /\ Lasting(s)'
  <2>1. PICK d \in 0 .. Jitter : air' = air \cup {[from |-> s, kind |-> kind, delay |-> d]}
    BY <1>g DEF Scheduled
  <2>2. [from |-> s, kind |-> kind, delay |-> d] \in air'
    BY <2>1
  <2>3. ASSUME s \in DOMAIN left, Lasting(s)
        PROVE  Lasting(s)'
    <3>1. CASE \E b \in air : b.from = s /\ left[s] >= b.delay + Patience(missed[s])
      BY <1>g, <2>1, <3>1 DEF Lasting
    <3>2. CASE left[s] >= NextBroadcast(s) + Jitter + Patience(missed[s])
      <4>1. left[s] >= d + Patience(missed[s])
        BY <1>c, <1>e, <1>g, <2>3, <3>2
      <4> QED
        BY <1>g, <2>2, <4>1 DEF Lasting
    <3> QED
      BY <2>3, <3>1, <3>2 DEF Lasting
  <2> QED
    BY <1>c, <1>g, <2>3
\* What is not about the sender, and operations of the table.
<1>h. ASSUME UNCHANGED <<hello, lastBcast, up>>, missed'[s] = missed[s],
             \A b \in air : b.from = s => b \in air',
             NEW n, NEW life \in {HelloLife, RouteLife}, NEW found,
             \/ Update(n, life, found) \/ ProcessTxError(n) \/ Lookup \/ Clear
             \/ PurgeTimerExpire
      PROVE  /\ s \in up'
             /\ s \in DOMAIN left' => left'[s] \in Int /\ Lasting(s)'
  <2>1. life \in Nat /\ NextBroadcast(s)' = NextBroadcast(s) /\ hello[s] # Off
    BY <1>h, PatienceFacts DEF NextBroadcast
  <2>2. ASSUME s \in DOMAIN left'
        PROVE  left'[s] \in Int /\ Lasting(s)'
    <3>1. CASE s \in DOMAIN left /\ left'[s] = left[s]
      BY <1>c, <1>h, <2>1, <3>1 DEF Lasting
    <3>2. CASE left'[s] \in Int /\ left'[s] >= life
      <4>1. left'[s] >= NextBroadcast(s)' + Jitter + Patience(missed'[s])
        BY <1>d, <1>e, <1>h, <3>2, PatienceFacts DEF LongLives
      <4> QED
        BY <3>2, <4>1 DEF Lasting
    <3> QED
      BY <1>h, <2>1, <2>2, <3>1, <3>2, LifeAfter
  <2> QED
    BY <1>c, <1>h, <2>1, <2>2
<1>1. ASSUME NEW r \in Sender, HelloTimerExpire(r)
      PROVE  /\ s \in up'
             /\ s \in DOMAIN left' => left'[s] \in Int /\ Lasting(s)'
  <2>1. UNCHANGED <<up, left, missed>> /\ hello[r] = 0
    BY <1>1 DEF HelloTimerExpire, nbVars
  <2>2. hello[s] # Off
    BY <1>1, <1>a, <2>1 DEF HelloTimerExpire
  <2>3. CASE r # s \/ lastBcast[r] # Silent
    <3>1. air \subseteq air'
      BY <1>1 DEF HelloTimerExpire, Scheduled
    <3>2. NextBroadcast(s)' = NextBroadcast(s)
      BY <1>1, <1>a, <2>1, <2>3 DEF HelloTimerExpire, NextBroadcast
    <3> QED
      BY <1>f, <2>1, <2>2, <3>1, <3>2
  <2>4. CASE r = s /\ lastBcast[r] = Silent
    <3>1. Scheduled(s, "HELLO")
      BY <1>1, <1>c, <2>2, <2>4 DEF HelloTimerExpire
    <3> QED
      BY <1>g, <2>1, <2>2, <3>1
  <2> QED
    BY <2>3, <2>4
<1>2. ASSUME NEW r \in Sender, BroadcastRequest(r)
      PROVE  /\ s \in up'
             /\ s \in DOMAIN left' => left'[s] \in Int /\ Lasting(s)'
  <2>1. UNCHANGED <<up, left, missed, hello>> /\ hello[s] # Off
    BY <1>2 DEF BroadcastRequest, nbVars
  <2>2. CASE r # s
    <3>1. air \subseteq air' /\ NextBroadcast(s)' = NextBroadcast(s)
      BY <1>2, <1>a, <2>2 DEF BroadcastRequest, Scheduled, NextBroadcast
    <3> QED
      BY <1>f, <2>1, <3>1
  <2>3. CASE r = s
    BY <1>2, <1>g, <2>1, <2>3 DEF BroadcastRequest
  <2> QED
    BY <2>2, <2>3
<1>3. ASSUME NEW r \in Sender, NotifyInterfaceDown(r)
      PROVE  /\ s \in up'
             /\ s \in DOMAIN left' => left'[s] \in Int /\ Lasting(s)'
  <2>1. s # r /\ hello'[s] = hello[s] /\ hello[s] # Off
    BY <1>3, <1>a DEF NotifyInterfaceDown
  <2>2. /\ UNCHANGED <<left, missed, lastBcast>> /\ up' = up \ {r}
        /\ \A b \in air : b.from = s => b \in air'
    BY <1>3, <2>1 DEF NotifyInterfaceDown, nbVars
  <2>3. NextBroadcast(s)' = NextBroadcast(s)
    BY <2>1, <2>2 DEF NextBroadcast
  <2>4. Lasting(s) => Lasting(s)'
    BY <2>2, <2>3 DEF Lasting
  <2> QED
    BY <1>c, <2>1, <2>2, <2>4
<1>4. ASSUME NEW r \in Sender, NotifyInterfaceUp(r)
      PROVE  /\ s \in up'
             /\ s \in DOMAIN left' => left'[s] \in Int /\ Lasting(s)'
  <2>1. /\ UNCHANGED <<left, missed, lastBcast, hello, air>> /\ up \subseteq up'
    BY <1>4 DEF NotifyInterfaceUp, nbVars
  <2>2. Lasting(s) => Lasting(s)'
    BY <2>1 DEF Lasting, NextBroadcast
  <2> QED
    BY <1>c, <2>1, <2>2
<1>5. ASSUME NEW n \in Neighbor, UseNeighbor(n)
      PROVE  /\ s \in up'
             /\ s \in DOMAIN left' => left'[s] \in Int /\ Lasting(s)'
  BY <1>5, <1>h DEF UseNeighbor
<1>6. ASSUME NEW b \in air, Hear(b)
      PROVE  /\ s \in up'
             /\ s \in DOMAIN left' => left'[s] \in Int /\ Lasting(s)'
  <2>1. /\ UNCHANGED <<hello, lastBcast, up>> /\ air' = air \ {b}
        /\ missed' = [missed EXCEPT ![b.from] = 0]
        /\ \E found \in BOOLEAN : Update(b.from, HelloLife, found)
    BY <1>6 DEF Hear, Sent
  <2>2. CASE b.from # s
    <3>1. missed'[s] = missed[s] /\ \A x \in air : x.from = s => x \in air'
      BY <1>a, <2>1, <2>2
    <3> QED
      BY <1>h, <2>1, <3>1
  <2>3. CASE b.from = s
    <3>1. PICK found \in BOOLEAN : Update(s, HelloLife, found)
      BY <2>1, <2>3
    <3>2. ASSUME s \in DOMAIN left'
          PROVE  left'[s] \in Int /\ left'[s] >= HelloLife
      <4>1. CASE s \in DOMAIN left
        <5>1. left'[s] = IF HelloLife > left[s] THEN HelloLife ELSE left[s]
          BY <3>1, <4>1 DEF Update
        <5>2. left[s] \in Int
          BY <4>1 DEF NbTypeOK
        <5> QED
          BY <5>1, <5>2, PatienceFacts
      <4>2. CASE s \notin DOMAIN left
        BY <3>1, <3>2, <4>2, LifeAfter, PatienceFacts
      <4> QED
        BY <4>1, <4>2
    <3>3. s \in DOMAIN left' => left'[s] \in Int /\ Lasting(s)'
      <4> SUFFICES ASSUME s \in DOMAIN left' PROVE left'[s] \in Int /\ Lasting(s)'
        OBVIOUS
      <4>1. left'[s] >= NextBroadcast(s)' + Jitter + Patience(missed'[s])
        BY <1>d, <1>e, <3>2, PatienceFacts DEF LongLives
      <4> QED
        BY <3>2, <4>1 DEF Lasting
    <3> QED
      BY <1>c, <2>1, <3>3
  <2> QED
    BY <2>2, <2>3
<1>7. ASSUME NEW b \in air, Miss(b)
      PROVE  /\ s \in up'
             /\ s \in DOMAIN left' => left'[s] \in Int /\ Lasting(s)'
  <2>1. /\ UNCHANGED <<hello, lastBcast, up, left>> /\ air' = air \ {b} /\ b.delay = 0
        /\ missed[b.from] < MaxMissed
        /\ missed' = [missed EXCEPT ![b.from] = @ + 1]
    BY <1>7 DEF Miss, Sent, nbVars
  <2>2. NextBroadcast(s)' = NextBroadcast(s) /\ hello[s] # Off
    BY <2>1 DEF NextBroadcast
  <2>3. CASE b.from # s
    <3>1. missed'[s] = missed[s] /\ \A x \in air : x.from = s => x \in air'
      BY <1>a, <2>1, <2>3
    <3>2. Lasting(s) => Lasting(s)'
      BY <2>1, <2>2, <3>1 DEF Lasting
    <3> QED
      BY <1>b, <2>1, <2>2, <3>2
  <2>4. CASE b.from = s
    <3>1. /\ missed'[s] = missed[s] + 1 /\ missed[s] < MaxMissed
          /\ Patience(missed[s]) = Patience(missed'[s]) + Period
      BY <1>a, <1>c, <2>1, <2>2, <2>4, PatienceFacts
    <3>2. ASSUME s \in DOMAIN left
          PROVE  Lasting(s)'
      <4>1. left[s] >= Patience(missed[s])
        <5>1. left[s] \in Int /\ Lasting(s) /\ Patience(missed[s]) \in Nat
              /\ NextBroadcast(s) \in Nat /\ \A x \in air : x.delay \in Nat
          BY <1>c, <2>2, <3>2
        <5>2. CASE \E x \in air : x.from = s /\ left[s] >= x.delay + Patience(missed[s])
          BY <5>1, <5>2
        <5>3. CASE left[s] >= NextBroadcast(s) + Jitter + Patience(missed[s])
          BY <1>e, <5>1, <5>3
        <5> QED
          BY <5>1, <5>2, <5>3 DEF Lasting
      <4>2. left[s] \in Int
        BY <1>c, <2>2, <3>2
      <4>3. left[s] >= NextBroadcast(s)' + Jitter + Patience(missed'[s])
        BY <1>d, <1>e, <3>1, <4>1, <4>2
      <4> QED
        BY <2>1, <4>3 DEF Lasting
    <3> QED
      BY <1>c, <2>1, <2>2, <3>2
  <2> QED
    BY <2>3, <2>4
<1>8. CASE TableOperation \/ ListenerTimer
  BY <1>8, <1>h DEF TableOperation, ListenerTimer, helloVars
<1>9. CASE Tick
  <2>1. /\ UNCHANGED <<up, missed>> /\ DOMAIN left' = DOMAIN left
        /\ \A b \in air : b.delay > 0 /\ [b EXCEPT !.delay = @ - 1] \in air'
        /\ hello[s] # 0 /\ hello'[s] = IF hello[s] = Off THEN Off ELSE hello[s] - 1
        /\ lastBcast'[s] = IF lastBcast[s] = Silent \/ hello[s] = Off
                           THEN lastBcast[s] ELSE lastBcast[s] + 1
    BY <1>9 DEF Tick, NbTick
  <2>2. hello[s] # Off
    BY <2>1
  <2>3. NextBroadcast(s)' = NextBroadcast(s) - 1
    <3>1. lastBcast[s] # Silent => lastBcast[s] \in Nat /\ lastBcast[s] + 1 # Silent
      BY <1>a, HelloAssumption
    <3>2. CASE lastBcast[s] = Silent
      BY <2>1, <2>2, <3>2 DEF NextBroadcast
    <3>3. CASE lastBcast[s] # Silent
      BY <1>e, <2>1, <2>2, <3>1, <3>3 DEF NextBroadcast
    <3> QED
      BY <3>2, <3>3
  <2>4. ASSUME s \in DOMAIN left
        PROVE  left'[s] \in Int /\ Lasting(s)'
    <3>1. left[s] \in Int /\ Lasting(s) /\ Patience(missed[s]) \in Nat
          /\ NextBroadcast(s) \in Nat
      BY <1>c, <2>2, <2>4
    <3>2. left[s] >= 0
      <4>1. \A x \in air : x.delay \in Nat
        BY <1>c, <2>2
      <4> QED
        BY <1>e, <3>1, <4>1 DEF Lasting
    <3>3. left'[s] = left[s] - 1
      BY <1>9, <2>4, <3>1, <3>2, NeighborsAssumption DEF Tick, NbTick, Overdue
    <3>4. CASE \E b \in air : b.from = s /\ left[s] >= b.delay + Patience(missed[s])
      <4>1. PICK b \in air : b.from = s /\ left[s] >= b.delay + Patience(missed[s])
        BY <3>4
      <4> DEFINE c == [b EXCEPT !.delay = @ - 1]
      <4>2. c \in air' /\ c.from = s /\ c.delay = b.delay - 1 /\ b.delay \in Nat
        BY <1>a, <2>1, <4>1 DEF Broadcast
      <4> HIDE DEF c
      <4>3. left'[s] >= c.delay + Patience(missed[s])
        BY <3>1, <3>3, <4>1, <4>2
      <4> QED
        BY <2>1, <3>1, <3>3, <4>2, <4>3 DEF Lasting
    <3>5. CASE left[s] >= NextBroadcast(s) + Jitter + Patience(missed[s])
      <4>1. left'[s] >= NextBroadcast(s)' + Jitter + Patience(missed[s])
        BY <1>e, <2>3, <3>1, <3>3, <3>5
      <4> QED
        BY <2>1, <3>1, <3>3, <4>1 DEF Lasting
    <3> QED
      BY <3>1, <3>4, <3>5 DEF Lasting
  <2> QED
    BY <1>c, <2>1, <2>2, <2>4
<1>10. CASE UNCHANGED vars
  <2>1. Lasting(s) => Lasting(s)'
    BY <1>10 DEF vars, nbVars, helloVars, Lasting, NextBroadcast
  <2> QED
    BY <1>10, <1>b, <2>1 DEF vars, nbVars, helloVars
<1> QED
  BY <1>1, <1>2, <1>3, <1>4, <1>5, <1>6, <1>7, <1>8, <1>9, <1>10 DEF Next, Deliver

\* Where lifetimes last for the broadcasts that may be missed in a row, with
\* their jitter, no link is reported for silence whose hello timer runs.
THEOREM LiveLinksKept == ASSUME LongLives PROVE Spec => LiveLinksHold
<1>1. Init => LinkInv
  BY DEF Init, NbInit, LinkInv
<1>2. SenderInv /\ SenderInv' /\ NbTypeOK /\ LinkInv /\ [Next]_vars => LinkInv'
  BY LinkStep
<1>3. SenderInv /\ LinkInv =>
        \A s \in Sender \cap DOMAIN left : hello[s] # Off => left[s] >= 0
  <2> SUFFICES ASSUME SenderInv, LinkInv, NEW s \in Sender \cap DOMAIN left, hello[s] # Off
               PROVE  left[s] >= 0
    OBVIOUS
  <2>1. /\ NextBroadcast(s) \in 0 .. HelloInterval /\ Patience(missed[s]) \in Nat
        /\ \A b \in air : b.delay \in 0 .. Jitter
        /\ left[s] \in Int /\ Lasting(s) /\ Jitter \in Nat
    BY NextBroadcastBound, PatienceFacts DEF LinkInv
  <2> QED
    BY <2>1 DEF Lasting
<1>4. SenderInv /\ LinkInv =>
        [\A s \in Sender \cap DOMAIN left \cap reported' :
           left[s] < 0 => hello[s] = Off]_vars
  <2> SUFFICES ASSUME SenderInv, LinkInv, NEW s \in Sender \cap DOMAIN left, left[s] < 0
               PROVE  hello[s] = Off
    OBVIOUS
  <2>1. hello[s] # Off => left[s] >= 0 /\ left[s] \in Int
    BY <1>3 DEF LinkInv
  <2> QED
    BY <2>1
<1>5. TypeOK => NbTypeOK
  BY DEF TypeOK
<1> QED
  BY <1>1, <1>2, <1>4, <1>5, SenderInvariant, HelloTypeCorrect, PTL DEF Spec, LiveLinksHold
=============================================================================
