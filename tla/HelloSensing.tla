----------------------------- MODULE HelloSensing -----------------------------
(***************************************************************************)
(* Hello messages as the means to notice a broken link: nodes that send    *)
(* hellos unless they have broadcast something else (HelloTimerExpire,     *)
(* m_lastBcastTime), and one listener that keeps them in its neighbour     *)
(* table.  Broadcasts are delayed by a random jitter and may be lost.      *)
(***************************************************************************)
EXTENDS Neighbors

CONSTANTS
  Sender,          \* neighbours whose hello timers are modelled
  HelloInterval, AllowedHelloLoss,
  Jitter,          \* longest delay between a broadcast's schedule and its sending
  Silent,          \* "no broadcast since the hello timer last ran out"
  RouteLife,       \* ActiveRouteTimeout
  Lossy,           \* broadcasts may be lost
  MaxMissed,       \* bound: broadcasts of a sender in a row that are lost, or
                   \* are requests the listener knows already
  MaxUses,         \* bound: data packets forwarded to a neighbour
  MaxBounces       \* bound: interfaces of senders that go down

HelloLife == AllowedHelloLoss * HelloInterval

ASSUME HelloAssumption ==
  /\ Sender \subseteq Neighbor
  /\ HelloInterval \in Nat \ {0} /\ AllowedHelloLoss \in Nat \ {0}
  /\ Jitter \in 0 .. HelloInterval /\ Silent \notin Nat
  /\ {HelloLife, RouteLife} \subseteq Lives /\ Lossy \in BOOLEAN
  /\ MaxMissed \in Nat /\ MaxUses \in Nat /\ MaxBounces \in Nat

VARIABLES
  hello,      \* m_htimer of each sender
  lastBcast,  \* age of m_lastBcastTime of each sender, or Silent
  up,         \* senders whose interface is up
  air,        \* broadcasts that are scheduled, and the delay they have left
  missed,     \* broadcasts of each sender missed since the listener heard it
  uses, bounces   \* what is left of the bounds

helloVars == <<hello, lastBcast, up, air, missed, uses, bounces>>
vars == <<nbVars, helloVars>>

Broadcast == [from : Sender, kind : {"HELLO", "RREQ"}, delay : 0 .. Jitter]

TypeOK ==
  /\ NbTypeOK
  /\ hello \in [Sender -> {Off} \cup 0 .. HelloInterval]
  /\ lastBcast \in [Sender -> {Silent} \cup 0 .. HelloInterval]
  /\ up \subseteq Sender
  /\ air \subseteq Broadcast
  /\ missed \in [Sender -> 0 .. MaxMissed]
  /\ uses \in 0 .. MaxUses /\ bounces \in 0 .. MaxBounces

\* DoInitialize starts the hello timer with a small random delay.
Init ==
  /\ NbInit
  /\ hello \in [Sender -> 0 .. Jitter]
  /\ lastBcast = [s \in Sender |-> Silent]
  /\ up = Sender /\ air = {}
  /\ missed = [s \in Sender |-> 0]
  /\ uses = MaxUses /\ bounces = MaxBounces

-----------------------------------------------------------------------------
(* Senders.                                                                *)

Scheduled(s, kind) ==
  \E d \in 0 .. Jitter :
    air' = air \cup {[from |-> s, kind |-> kind, delay |-> d]}

\* (mutants) the next hello waits for a whole interval; the last broadcast
\* is not forgotten.
HelloTimerExpire_Whole(s) ==
  /\ hello[s] = 0
  /\ hello' = [hello EXCEPT ![s] = HelloInterval]
  /\ lastBcast' = [lastBcast EXCEPT ![s] = Silent]
  /\ IF lastBcast[s] = Silent THEN Scheduled(s, "HELLO") ELSE UNCHANGED air
  /\ UNCHANGED <<nbVars, up, missed, uses, bounces>>
HelloTimerExpire_Keeps(s) ==
  /\ hello[s] = 0
  /\ hello' = [hello EXCEPT ![s] = HelloInterval]
  /\ IF lastBcast[s] = Silent THEN Scheduled(s, "HELLO") ELSE UNCHANGED air
  /\ UNCHANGED <<nbVars, lastBcast, up, missed, uses, bounces>>

\* HelloTimerExpire: after a broadcast the hello is put off, to one interval
\* after the broadcast; without one it is sent.
HelloTimerExpire(s) ==
  /\ hello[s] = 0
  /\ \/ /\ lastBcast[s] = Silent
        /\ hello' = [hello EXCEPT ![s] = HelloInterval]
        /\ IF s \in up THEN Scheduled(s, "HELLO") ELSE UNCHANGED air
     \/ /\ lastBcast[s] # Silent
        /\ hello' = [hello EXCEPT ![s] = HelloInterval - lastBcast[s]]
        /\ UNCHANGED air
  /\ lastBcast' = [lastBcast EXCEPT ![s] = Silent]
  /\ UNCHANGED <<nbVars, up, missed, uses, bounces>>

\* A request of its own (SendRequest), or one it passes on (RecvRequest).
BroadcastRequest(s) ==
  /\ s \in up
  /\ Scheduled(s, "RREQ")
  /\ lastBcast' = [lastBcast EXCEPT ![s] = 0]
  /\ UNCHANGED <<nbVars, hello, up, missed, uses, bounces>>

\* NotifyInterfaceDown of the only interface: what is scheduled finds its
\* socket closed, and the hello timer is cancelled.
NotifyInterfaceDown(s) ==
  /\ bounces > 0 /\ bounces' = bounces - 1
  /\ s \in up
  /\ up' = up \ {s}
  /\ air' = {b \in air : b.from # s}
  /\ hello' = [hello EXCEPT ![s] = Off]
  /\ UNCHANGED <<nbVars, lastBcast, missed, uses>>

\* NotifyInterfaceUp opens the sockets again.
NotifyInterfaceUp(s) ==
  /\ s \in Sender \ up
  /\ up' = up \cup {s}
  /\ UNCHANGED <<nbVars, hello, lastBcast, air, missed, uses, bounces>>

-----------------------------------------------------------------------------
(* The listener.                                                           *)

Sent(b) == b \in air /\ b.delay = 0 /\ air' = air \ {b}

\* ProcessHello, or RecvRequest of a request that is new to the listener.
Hear(b) ==
  /\ Sent(b)
  /\ \E found \in BOOLEAN : Update(b.from, HelloLife, found)
  /\ missed' = [missed EXCEPT ![b.from] = 0]
  /\ UNCHANGED <<hello, lastBcast, up, uses, bounces>>

\* The broadcast is lost; or RecvRequest of a request the listener has seen
\* before, or has sent itself, returns before the neighbour is updated.
Miss(b) ==
  /\ Sent(b)
  /\ Lossy \/ b.kind = "RREQ"
  /\ missed[b.from] < MaxMissed
  /\ missed' = [missed EXCEPT ![b.from] = @ + 1]
  /\ UNCHANGED <<nbVars, hello, lastBcast, up, uses, bounces>>

\* Forwarding and RouteInput: a packet sent to neighbour n counts as a sign
\* of life of n.
UseNeighbor(n) ==
  /\ uses > 0 /\ uses' = uses - 1
  /\ \E found \in BOOLEAN : Update(n, RouteLife, found)
  /\ UNCHANGED <<hello, lastBcast, up, air, missed, bounces>>

\* The other operations of the table.
TableOperation ==
  /\ \/ \E n \in Neighbor : ProcessTxError(n)
     \/ Lookup \/ Clear
  /\ UNCHANGED helloVars

ListenerTimer == PurgeTimerExpire /\ UNCHANGED helloVars

-----------------------------------------------------------------------------
\* Nothing is due now, and time goes on.
Tick ==
  /\ NbTick
  /\ \A s \in Sender : hello[s] # 0
  /\ \A b \in air : b.delay > 0
  /\ hello' = [s \in Sender |-> IF hello[s] = Off THEN Off ELSE hello[s] - 1]
  /\ lastBcast' = [s \in Sender |->
       IF lastBcast[s] = Silent \/ hello[s] = Off THEN lastBcast[s]
       ELSE lastBcast[s] + 1]
  /\ air' = {[b EXCEPT !.delay = @ - 1] : b \in air}
  /\ UNCHANGED <<up, missed, uses, bounces>>

Deliver == \E b \in air : Hear(b) \/ Miss(b)

Next ==
  \/ \E s \in Sender : \/ HelloTimerExpire(s) \/ BroadcastRequest(s)
                       \/ NotifyInterfaceDown(s) \/ NotifyInterfaceUp(s)
  \/ \E n \in Neighbor : UseNeighbor(n)
  \/ Deliver
  \/ TableOperation \/ ListenerTimer \/ Tick

Spec == Init /\ [][Next]_vars

\* The simulator runs what is due, and its clock goes on.
FairSpec ==
  /\ Spec
  /\ WF_vars(ListenerTimer) /\ WF_vars(Deliver) /\ WF_vars(Tick)
  /\ \A s \in Sender : WF_vars(HelloTimerExpire(s))

-----------------------------------------------------------------------------
(* Properties.                                                             *)

\* The link to a sender whose hello timer runs is never reported for its
\* silence: the hellos that are put off, the jitter, the lost messages and
\* the purge timer never add up to more than the lifetime of a hello.
LiveLinksHold ==
  [][\A s \in Sender \cap DOMAIN left \cap reported' :
        left[s] < 0 => hello[s] = Off]_vars

\* A sender that has gone down leaves the table, unless it comes back.
DeadAreDropped ==
  \A s \in Sender : s \notin up ~> s \notin DOMAIN left \/ s \in up
=============================================================================
