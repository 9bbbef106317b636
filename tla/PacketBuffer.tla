---------------------------- MODULE PacketBuffer ----------------------------
(***************************************************************************)
(* What route discovery promises the application, with no routes, timers   *)
(* or messages in it: a packet that cannot be sent at once is buffered;    *)
(* the buffer lets all packets of a destination go together, or fails them *)
(* together; apart from that it only ever discards its oldest packets; and *)
(* a packet that was buffered and is discarded is always reported to the   *)
(* application.                                                            *)
(***************************************************************************)
EXTENDS Integers

CONSTANTS Packet,   \* numbers, in the order the application sends
          Dst

VARIABLES for,      \* destination of each packet
          at        \* where each packet is

Buffered == {p \in Packet : at[p] = "queue"}
BufferedFor(d) == {p \in Buffered : for[p] = d}

\* The k oldest buffered packets, for some k.
Oldest == {S \in SUBSET Buffered : \A p \in S, q \in Buffered \ S : p < q}

Init == /\ for \in [Packet -> Dst]
        /\ at = [p \in Packet |-> "app"]

\* The next packet of the application is sent, refused, or set aside.
Submit(p) ==
  /\ at[p] = "app" /\ \A q \in Packet : at[q] = "app" => p <= q
  /\ \E place \in {"sent", "error", "loop"} : at' = [at EXCEPT ![p] = place]

\* A packet set aside enters the buffer; some of the oldest may be failed.
Buffer(p, old) ==
  /\ at[p] = "loop" /\ \A q \in Packet : at[q] = "loop" => p <= q
  /\ at' = [q \in Packet |-> IF q = p THEN "queue"
                             ELSE IF q \in old THEN "error" ELSE at[q]]

\* A packet set aside is refused before it enters the buffer.
Refuse(p) ==
  /\ at[p] = "loop" /\ \A q \in Packet : at[q] = "loop" => p <= q
  /\ at' = [at EXCEPT ![p] = "lost"]

\* All packets for d leave for the same place, but for some of the oldest.
Settle(d, old, place) ==
  at' = [p \in Packet |-> IF p \in old THEN "error"
                          ELSE IF p \in BufferedFor(d) THEN place ELSE at[p]]

Next ==
  /\ UNCHANGED for
  /\ \/ \E p \in Packet : Submit(p) \/ Refuse(p)
     \/ \E p \in Packet, old \in Oldest : Buffer(p, old)
     \/ \E d \in Dst, old \in Oldest, place \in {"sent", "error"} :
          Settle(d, old, place)

Spec == Init /\ [][Next]_<<for, at>>
=============================================================================
