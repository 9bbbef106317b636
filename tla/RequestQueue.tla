---------------------------- MODULE RequestQueue ----------------------------
(***************************************************************************)
(* aodv::RequestQueue as it is in memory: packets with lifetimes, purged   *)
(* only when the queue is used.  Its two parameters are attributes of      *)
(* RoutingProtocol and may be set at any moment.                           *)
(*                                                                         *)
(* Find and the accessors are left out: they change nothing, and nobody    *)
(* calls Find.  Packets stand for their uid and destination.               *)
(***************************************************************************)
EXTENDS Integers, Sequences, FiniteSets, Sublist

CONSTANTS
  Packet, DstOf,     \* packets, and the destination of each
  Limits, Timeouts   \* what MaxQueueLen and MaxQueueTime may be set to

ASSUME QueueAssumption ==
  /\ Limits \subseteq Nat \ {0} /\ Timeouts \subseteq Nat
  /\ Limits # {} /\ Timeouts # {}

VARIABLES
  queue,     \* m_queue: [pkt, left] in the order of arrival
  maxLen,    \* m_maxLen
  timeout,   \* m_queueTimeout
  told,      \* what the last call told its caller
  owed       \* copies of a packet accepted, and not yet sent or reported

queueVars == <<queue, maxLen, timeout, told, owed>>

Quiet == [of |-> "nothing"]
Over == -1           \* bound: least lifetime of a packet, all it shows

QueueTypeOK ==
  /\ queue \in Seq([pkt : Packet, left : UNION {Over .. t : t \in Timeouts}])
  /\ maxLen \in Limits /\ timeout \in Timeouts
  /\ owed \in [Packet -> 0 .. 1]

QueueInit ==
  /\ queue = <<>>
  /\ maxLen \in Limits /\ timeout \in Timeouts
  /\ told = Quiet
  /\ owed = [p \in Packet |-> 0]

Packets(q) == [i \in DOMAIN q |-> q[i].pkt]
Count(q, p) == Cardinality({i \in DOMAIN q : q[i].pkt = p})

\* The places of the packets for d.
For(q, d) == {i \in DOMAIN q : DstOf[q[i].pkt] = d}

\* Purge() keeps what is not past its time, and reports the rest.
Alive(q) == {i \in DOMAIN q : q[i].left >= 0}
Unexpired(q) == Kept(q, Alive(q))
Expired(q) == Kept(q, DOMAIN q \ Alive(q))

\* Drop() of the packets of gone calls the error callback of each.
Reported(o, gone) == [p \in Packet |-> o[p] - Count(gone, p)]

\* (mutants) the front is erased and not reported; the queue grows on.
Enqueue_Silent(p) ==
  LET q == Unexpired(queue) IN
  /\ Count(q, p) = 0
  /\ queue' = Append(IF Len(q) = maxLen THEN Tail(q) ELSE q,
                     [pkt |-> p, left |-> timeout])
  /\ owed' = [Reported(owed, Expired(queue)) EXCEPT ![p] = @ + 1]
  /\ told' = [of |-> "enqueue", pkt |-> p, taken |-> TRUE]
  /\ UNCHANGED <<maxLen, timeout>>
Enqueue_OneMore(p) ==
  LET q == Unexpired(queue) IN
  /\ Count(q, p) = 0
  /\ queue' = Append(q, [pkt |-> p, left |-> timeout])
  /\ owed' = [Reported(owed, Expired(queue)) EXCEPT ![p] = @ + 1]
  /\ told' = [of |-> "enqueue", pkt |-> p, taken |-> TRUE]
  /\ UNCHANGED <<maxLen, timeout>>

\* Enqueue: a packet that is there already is refused, and only the
\* caller is told; at the limit, the front makes room.
Enqueue(p) ==
  LET q    == Unexpired(queue)
      full == Len(q) = maxLen
      gone == Expired(queue) \o IF full THEN <<Head(q)>> ELSE <<>>
  IN /\ IF Count(q, p) > 0
        THEN queue' = q /\ owed' = Reported(owed, Expired(queue))
        ELSE /\ queue' = Append(IF full THEN Tail(q) ELSE q,
                                [pkt |-> p, left |-> timeout])
             /\ owed' = [Reported(owed, gone) EXCEPT ![p] = @ + 1]
     /\ told' = [of |-> "enqueue", pkt |-> p, taken |-> Count(q, p) = 0]
     /\ UNCHANGED <<maxLen, timeout>>

\* (mutant) the queue is not purged first.
Dequeue_Unpurged(d) ==
  LET i == Nth(For(queue, d), 1)
  IN /\ For(queue, d) # {} /\ queue' = Kept(queue, DOMAIN queue \ {i})
     /\ owed' = [owed EXCEPT ![queue[i].pkt] = @ - 1]
     /\ told' = [of |-> "dequeue", dst |-> d, found |-> <<queue[i].pkt>>]
     /\ UNCHANGED <<maxLen, timeout>>

\* Dequeue: the first packet for d, if there is one.
Dequeue(d) ==
  LET q == Unexpired(queue)
      i == Nth(For(q, d), 1)
      left == Reported(owed, Expired(queue))
  IN /\ IF For(q, d) = {}
        THEN queue' = q /\ owed' = left
        ELSE /\ queue' = Kept(q, DOMAIN q \ {i})
             /\ owed' = [left EXCEPT ![q[i].pkt] = @ - 1]
     /\ told' = [of |-> "dequeue", dst |-> d,
                 found |-> IF For(q, d) = {} THEN <<>> ELSE <<q[i].pkt>>]
     /\ UNCHANGED <<maxLen, timeout>>

\* DropPacketWithDst: all packets for d are reported and erased.
DropPacketWithDst(d) ==
  LET q == Unexpired(queue) IN
  /\ queue' = Kept(q, DOMAIN q \ For(q, d))
  /\ owed' = Reported(owed, Expired(queue) \o Kept(q, For(q, d)))
  /\ told' = [of |-> "drop", dst |-> d] /\ UNCHANGED <<maxLen, timeout>>

\* GetSize purges, too.
GetSize ==
  /\ queue' = Unexpired(queue) /\ owed' = Reported(owed, Expired(queue))
  /\ told' = [of |-> "size", size |-> Len(queue')]
  /\ UNCHANGED <<maxLen, timeout>>

\* SetMaxQueueLen, SetMaxQueueTime: packets in the queue are left alone.
SetMaxQueueLen(len) ==
  /\ maxLen' = len
  /\ told' = Quiet /\ UNCHANGED <<queue, timeout, owed>>
SetMaxQueueTime(t) ==
  /\ timeout' = t
  /\ told' = Quiet /\ UNCHANGED <<queue, maxLen, owed>>

QueueTick ==
  /\ queue' = [i \in DOMAIN queue |->
                 [queue[i] EXCEPT !.left = IF @ > Over THEN @ - 1 ELSE Over]]
  /\ told' = Quiet /\ UNCHANGED <<maxLen, timeout, owed>>

QueueOperation ==
  \/ \E p \in Packet : Enqueue(p)
  \/ \E d \in {DstOf[p] : p \in Packet} : Dequeue(d) \/ DropPacketWithDst(d)
  \/ GetSize
  \/ \E n \in Limits : SetMaxQueueLen(n)
  \/ \E t \in Timeouts : SetMaxQueueTime(t)

QueueSpec == QueueInit /\ [][QueueOperation \/ QueueTick]_queueVars

-----------------------------------------------------------------------------
\* A packet that was accepted is in the queue until it has been handed out
\* or reported to the application, once: purges that report in one pass and
\* erase in another, the victim of a full queue and Drop agree on that.
NothingVanishes == \A p \in Packet : owed[p] = Count(queue, p)

\* No call brings the queue over a limit it keeps.  (It grows without bound
\* once the limit is set below its length: the test is for equality.)
LimitKept ==
  [][Len(queue) <= maxLen => (maxLen' = maxLen => Len(queue') <= maxLen)]_queueVars

\* Although expired packets stay until the queue is used, nobody can tell:
\* calls are answered as if each had gone at the end of its time, and the
\* victim of a full queue is never one too many.
Punctual == INSTANCE PunctualQueue WITH live <- Packets(Unexpired(queue))
PunctualSpec == Punctual!Spec
=============================================================================
