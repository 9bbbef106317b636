---------------------------- MODULE PunctualQueue ----------------------------
(***************************************************************************)
(* What the callers of the request queue take it to be: a first-in         *)
(* first-out queue without a clock, which packets leave by themselves, at  *)
(* any moment, and in which nothing else happens unasked.                  *)
(***************************************************************************)
EXTENDS Integers, Sequences, Sublist

CONSTANTS Packet, DstOf, Limits

VARIABLES
  live,     \* the packets, in the order of arrival
  maxLen,   \* how many there may be
  told      \* what the last call told its caller

vars == <<live, maxLen, told>>

Quiet == [of |-> "nothing"]
Holds(q, p) == \E i \in DOMAIN q : q[i] = p
For(q, d) == {i \in DOMAIN q : DstOf[q[i]] = d}
Without(q, i) == Kept(q, DOMAIN q \ {i})

Init == live = <<>> /\ maxLen \in Limits /\ told = Quiet

\* Packets may leave at any moment; those that stay keep their order.
Leave ==
  /\ told' = Quiet /\ UNCHANGED maxLen
  /\ \E I \in SUBSET DOMAIN live : live' = Kept(live, I)

\* A new packet is accepted, and the oldest gives way to it if need be; one
\* that is there already is refused.
Enqueue(p) ==
  /\ told' = [of |-> "enqueue", pkt |-> p, taken |-> ~Holds(live, p)]
  /\ live' = IF Holds(live, p) THEN live
             ELSE Append(IF Len(live) = maxLen THEN Tail(live) ELSE live, p)
  /\ UNCHANGED maxLen

\* The packets of a destination are handed out in the order of arrival.
Dequeue(d) ==
  LET i == Nth(For(live, d), 1) IN
  /\ told' = [of |-> "dequeue", dst |-> d,
              found |-> IF For(live, d) = {} THEN <<>> ELSE <<live[i]>>]
  /\ live' = IF For(live, d) = {} THEN live ELSE Without(live, i)
  /\ UNCHANGED maxLen

\* All packets of a destination are dropped, and no other.
Drop(d) ==
  /\ told' = [of |-> "drop", dst |-> d]
  /\ live' = Kept(live, DOMAIN live \ For(live, d))
  /\ UNCHANGED maxLen

TellSize ==
  told' = [of |-> "size", size |-> Len(live)] /\ UNCHANGED <<live, maxLen>>

SetLimit == told' = Quiet /\ maxLen' \in Limits /\ UNCHANGED live

Next ==
  \/ TellSize \/ SetLimit \/ Leave
  \/ \E p \in Packet : Enqueue(p)
  \/ \E d \in {DstOf[p] : p \in Packet} : Dequeue(d) \/ Drop(d)

Spec == Init /\ [][Next]_vars
=============================================================================
