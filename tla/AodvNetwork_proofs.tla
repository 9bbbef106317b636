------------------------- MODULE AodvNetwork_proofs -------------------------
(***************************************************************************)
(* Proofs about AodvNetwork: with any number of nodes, over any links, and *)
(* whatever is lost, delayed or reordered, tables and messages keep their  *)
(* types, routes of one hop are direct, next hops were heard, sequence     *)
(* numbers go back only on word from their owner or by the reply a node is *)
(* waiting for, and come from their owner; each request is sent on once,   *)
(* the users of a reply's route are known as precursors, and a route is    *)
(* lost to errors alone.                                                   *)
(***************************************************************************)
EXTENDS AodvNetwork, TLAPS

-----------------------------------------------------------------------------
(* Sequence numbers.                                                       *)

\* Newer is asymmetric and irreflexive: the circle is cut in the middle.
LEMMA NewerAsymmetric ==
  ASSUME SeqModAssumption, NEW a \in SeqNo, NEW b \in SeqNo, Newer(a, b)
  PROVE  ~Newer(b, a)
<1> DEFINE M == SeqMod
<1>1. M \in Nat /\ M > 1 /\ a \in Int /\ b \in Int /\ a - b < M /\ b - a < M
  BY DEF SeqModAssumption, SeqNo
<1>2. \A x \in Int : 0 <= x /\ x < M => x % M = x
  BY <1>1
<1>3. \A x \in Int : -M < x /\ x < 0 => x % M = x + M
  BY <1>1
<1> QED
  BY <1>1, <1>2, <1>3 DEF Newer

LEMMA NewerIrreflexive ==
  ASSUME SeqModAssumption, NEW a \in SeqNo
  PROVE  ~Newer(a, a)
  BY NewerAsymmetric

-----------------------------------------------------------------------------
(* Tables.                                                                 *)

Table == [Node -> Entry]

\* What holds of the entry e for d: an entry there is has a hop count, and one
\* that is or was a route, or has a sequence number, a next hop, which is d
\* itself if d is one hop away.
Sound(d, e) ==
  /\ e.flag = "ABSENT" => ~e.known
  /\ e.flag # "ABSENT" => e.hop >= 1
  /\ e.known \/ e.flag \in {"VALID", "INVALID"} =>
       e.next \in Node /\ (e.hop = 1 => e.next = d)

Good(t) == t \in Table /\ \A d \in Node : Sound(d, t[d])

LEMMA NoRouteSound ==
  ASSUME NetworkAssumption, RingAssumption, SeqModAssumption, NEW d
  PROVE  NoRoute \in Entry /\ Sound(d, NoRoute)
  BY DEF NoRoute, Entry, Sound, RouteFlag, SeqNo, NetworkAssumption, RingAssumption,
     SeqModAssumption

LEMMA RouteSound ==
  ASSUME RingAssumption, NEW d \in Node, NEW hop \in Nat \ {0}, NEW known \in BOOLEAN,
         NEW seq \in SeqNo, NEW m \in Node, hop = 1 => m = d
  PROVE  /\ Route(hop, known, seq, m) \in Entry
         /\ Sound(d, Route(hop, known, seq, m))
         /\ Route(hop, known, seq, m).flag # "ABSENT"
  BY DEF Route, Entry, Sound, RouteFlag, RingAssumption

LEMMA SettledSound ==
  ASSUME RingAssumption, NEW d, NEW e \in Entry, Sound(d, e)
  PROVE  /\ Settled(e) \in Entry /\ Sound(d, Settled(e))
         /\ Settled(e).known = e.known /\ Settled(e).seq = e.seq
         /\ Settled(e).flag = e.flag /\ Settled(e).next = e.next
         /\ Settled(e).hop = e.hop /\ Settled(e).prec = e.prec
  BY DEF Settled, Entry, Sound, RingAssumption

LEMMA UpdateGood ==
  ASSUME RingAssumption, NEW t, Good(t), NEW d \in Node, NEW e \in Entry, Sound(d, e)
  PROVE  /\ Good(Update(t, d, e)) /\ Good(AddRoute(t, d, e))
         /\ \A x \in Node \ {d} : Update(t, d, e)[x] = t[x] /\ AddRoute(t, d, e)[x] = t[x]
         /\ Update(t, d, e)[d] = IF Present(t, d) THEN Settled(e) ELSE t[d]
         /\ AddRoute(t, d, e)[d] = IF Present(t, d) THEN t[d] ELSE Settled(e)
  BY SettledSound DEF Update, AddRoute, Good, Table

\* The sequence number of an entry does not go back.
Onward(e, e2) == e.known /\ e2.known => ~Newer(e.seq, e2.seq)

LEMMA OnwardSame ==
  ASSUME SeqModAssumption, NEW e \in Entry, NEW e2, e2.seq = e.seq
  PROVE  Onward(e, e2)
  BY NewerIrreflexive DEF Onward, Entry

\* Two tables that differ in precursors and request counts at most.
SameRoutes(t, u) ==
  \A d \in Node : /\ u[d].flag = t[d].flag /\ u[d].next = t[d].next
                  /\ u[d].hop = t[d].hop /\ u[d].known = t[d].known
                  /\ u[d].seq = t[d].seq

\* Writing back an entry of the same route with other precursors.
LEMMA PrecursorsGood ==
  ASSUME RingAssumption, NEW t, Good(t), NEW d \in Node, NEW s, Good(s), SameRoutes(s, t),
         NEW P \in SUBSET Node
  PROVE  /\ Good(Update(t, d, [s[d] EXCEPT !.prec = P]))
         /\ SameRoutes(t, Update(t, d, [s[d] EXCEPT !.prec = P]))
<1> DEFINE e == [s[d] EXCEPT !.prec = P]
<1>1. s[d] \in Entry /\ Sound(d, s[d]) /\ t[d] \in Entry
  BY DEF Good, Table
<1>2. /\ e \in Entry
      /\ e.flag = s[d].flag /\ e.next = s[d].next /\ e.hop = s[d].hop
      /\ e.known = s[d].known /\ e.seq = s[d].seq
  BY <1>1 DEF Entry
<1>3. Sound(d, e)
  BY <1>1, <1>2 DEF Sound
<1>4. /\ Settled(e).known = e.known /\ Settled(e).seq = e.seq
      /\ Settled(e).flag = e.flag /\ Settled(e).next = e.next
      /\ Settled(e).hop = e.hop
  BY <1>2, <1>3, SettledSound
<1> HIDE DEF e
<1>5. /\ Good(Update(t, d, e))
      /\ \A x \in Node \ {d} : Update(t, d, e)[x] = t[x]
      /\ Update(t, d, e)[d] = IF Present(t, d) THEN Settled(e) ELSE t[d]
  BY <1>2, <1>3, UpdateGood
<1>6. SameRoutes(t, Update(t, d, e))
  BY <1>2, <1>4, <1>5 DEF SameRoutes
<1> QED
  BY <1>5, <1>6 DEF e

LEMMA WithPrecursorGood ==
  ASSUME RingAssumption, NEW t, Good(t), NEW d, NEW p \in Node
  PROVE  Good(WithPrecursor(t, d, p)) /\ SameRoutes(t, WithPrecursor(t, d, p))
<1>1. SameRoutes(t, t)
  BY DEF SameRoutes
<1>2. CASE d \in Node
  <2>1. t[d].prec \cup {p} \in SUBSET Node
    BY <1>2 DEF Good, Table, Entry
  <2> QED
    BY <1>1, <1>2, <2>1, PrecursorsGood DEF WithPrecursor
<1> QED
  BY <1>1, <1>2 DEF WithPrecursor

LEMMA SameRoutesTrans ==
  ASSUME NEW t, NEW u, NEW v, SameRoutes(t, u), SameRoutes(u, v)
  PROVE  SameRoutes(t, v)
  BY DEF SameRoutes

\* After a message of m: the entry for m is there, one hop away.
LEMMA NeighborGood ==
  ASSUME RingAssumption, SeqModAssumption, NEW t, Good(t), NEW m \in Node
  PROVE  LET u == UpdateRouteToNeighbor(t, m) IN
         /\ Good(u) /\ Present(u, m) /\ u[m].hop = 1 /\ u[m].next = m
         /\ \A x \in Node \ {m} : u[x] = t[x]
<1> DEFINE e == Route(1, FALSE, 0, m)
<1>1. 0 \in SeqNo
  BY DEF SeqModAssumption, SeqNo
<1>2. e \in Entry /\ Sound(m, e) /\ e.flag # "ABSENT"
  BY <1>1 DEF Route, Entry, Sound, RouteFlag, RingAssumption
<1>3. e.hop = 1 /\ e.next = m
  BY DEF Route
<1> HIDE DEF e
<1>4. /\ Settled(e).flag = e.flag /\ Settled(e).next = e.next /\ Settled(e).hop = e.hop
  BY <1>2, SettledSound
<1>5. /\ Good(Update(t, m, e)) /\ Good(AddRoute(t, m, e))
      /\ \A x \in Node \ {m} : Update(t, m, e)[x] = t[x] /\ AddRoute(t, m, e)[x] = t[x]
      /\ Update(t, m, e)[m] = IF Present(t, m) THEN Settled(e) ELSE t[m]
      /\ AddRoute(t, m, e)[m] = IF Present(t, m) THEN t[m] ELSE Settled(e)
  BY <1>2, UpdateGood
<1>6. Sound(m, t[m])
  BY DEF Good
<1>7. CASE Present(t, m) /\ t[m].known /\ t[m].hop = 1
  BY <1>6, <1>7 DEF UpdateRouteToNeighbor, Sound
<1>8. CASE ~Present(t, m)
  <2>1. UpdateRouteToNeighbor(t, m) = AddRoute(t, m, e)
    BY <1>8 DEF UpdateRouteToNeighbor, e
  <2> QED
    BY <1>2, <1>3, <1>4, <1>5, <1>8, <2>1 DEF Present
<1>9. CASE Present(t, m) /\ ~(t[m].known /\ t[m].hop = 1)
  <2>1. UpdateRouteToNeighbor(t, m) = Update(t, m, e)
    BY <1>9 DEF UpdateRouteToNeighbor, e
  <2> QED
    BY <1>2, <1>3, <1>4, <1>5, <1>9, <2>1 DEF Present
<1> QED
  BY <1>7, <1>8, <1>9

-----------------------------------------------------------------------------
(* Messages.                                                               *)

\* A message that has come over no hop is from the node it is about; nobody
\* asks for itself, and only hellos are replies to their own sender.
GoodMsg(q) ==
  /\ <<q.from, q.to>> \in Link
  /\ q.body \in Rreq \/ q.body \in Rrep \/ q.body \in Rerr \/ q.body \in Ack
  /\ q.body.type = "RREQ" => /\ q.body.origin # q.body.dst
                             /\ q.body.hop = 0 => q.from = q.body.origin
  /\ q.body.type = "RREP" => /\ q.body.hop = 0 => q.from = q.body.dst
                             /\ q.body.dst = q.body.origin => q.from = q.body.dst

Sends(n, out) == \A q \in out : GoodMsg(q) /\ q.from = n

LEMMA MsgTypes ==
  ASSUME NEW q, GoodMsg(q)
  PROVE  /\ q.body.type = "RREQ" => q.body \in Rreq
         /\ q.body.type = "RREP" => q.body \in Rrep
         /\ q.body.type = "RERR" => q.body \in Rerr
  BY DEF GoodMsg, Rreq, Rrep, Rerr, Ack

LEMMA LinksGood ==
  ASSUME NetworkAssumption, NEW q, GoodMsg(q)
  PROVE  q.from \in Node /\ q.to \in Node /\ q.from # q.to
  BY DEF GoodMsg, NetworkAssumption

LEMMA RreqSent ==
  ASSUME NetworkAssumption, NEW n \in Node, NEW b \in Rreq, b.origin # b.dst,
         b.hop = 0 => n = b.origin
  PROVE  Sends(n, Broadcast(n, b))
<1>1. b.type = "RREQ"
  BY DEF Rreq
<1> QED
  BY <1>1 DEF Sends, GoodMsg, Broadcast, Over, NetworkAssumption

LEMMA RrepSent ==
  ASSUME NetworkAssumption, NEW n \in Node, NEW m, NEW b \in Rrep,
         b.hop = 0 => n = b.dst, b.dst = b.origin => n = b.dst
  PROVE  Sends(n, Unicast(n, m, b)) /\ Sends(n, Broadcast(n, b))
<1>1. b.type = "RREP"
  BY DEF Rrep
<1> QED
  BY <1>1 DEF Sends, GoodMsg, Unicast, Broadcast, Over, NetworkAssumption

LEMMA RestSent ==
  ASSUME NetworkAssumption, NEW n \in Node, NEW m, NEW b, b \in Rerr \/ b \in Ack
  PROVE  Sends(n, Unicast(n, m, b)) /\ Sends(n, Broadcast(n, b))
<1>1. b.type # "RREQ" /\ b.type # "RREP"
  BY DEF Rerr, Ack
<1> QED
  BY <1>1 DEF Sends, GoodMsg, Unicast, Broadcast, Over, NetworkAssumption

LEMMA SendsUnion ==
  ASSUME NEW n, NEW A, NEW B, Sends(n, A), Sends(n, B)
  PROVE  Sends(n, A \cup B)
  BY DEF Sends

LEMMA SendsNothing == ASSUME NEW n PROVE Sends(n, {})
  BY DEF Sends

-----------------------------------------------------------------------------
(* The invariant, and what a handler has to do to keep it.                 *)

Inv == /\ TypeOK
       /\ \A n \in Node : Good(rt[n])
       /\ \A q \in net : GoodMsg(q)

\* The sequence numbers of n go on, but for d = q.from and a search of n.
Proceeds(n, q, t) ==
  \A d \in Node : d = q.from \/ Onward(rt[n][d], t[d]) \/ AwaitedBy(q, n, d)

\* The node n has handled q well: it has a new table t, and sends out.
Handled(n, q) ==
  /\ \E t, out : /\ Handle(n, q, t, out)
                 /\ Good(t) /\ Sends(n, out) /\ Proceeds(n, q, t)
  /\ seqNo' \in [Node -> SeqNo] /\ seen' \in [Node -> SUBSET (Node \X Nat)]

\* One step of SeqBackOnlyByOwner.
SeqStep ==
  \A n, d \in Node :
    rt[n][d].known /\ rt'[n][d].known /\ Newer(rt[n][d].seq, rt'[n][d].seq)
      => \E q \in Taken : q.to = n /\ (q.from = d \/ AwaitedBy(q, n, d))

LEMMA HandledKeeps ==
  ASSUME NetworkAssumption, SeqModAssumption, Inv, NEW q \in net, Handled(q.to, q)
  PROVE  Inv' /\ SeqStep
<1> DEFINE n == q.to
<1>1. PICK t, out : /\ Handle(n, q, t, out)
                    /\ Good(t) /\ Sends(n, out) /\ Proceeds(n, q, t)
  BY DEF Handled
<1>2. n \in Node /\ q.from # n /\ rt \in [Node -> Table]
  BY LinksGood DEF Inv, TypeOK, Table
<1>3. /\ rt' = [rt EXCEPT ![n] = t] /\ net' = (net \ {q}) \cup out
      /\ UNCHANGED <<reqId, requests, faults>>
  BY <1>1 DEF Handle
<1>4. q \in Taken
  BY <1>1, <1>2, <1>3 DEF Taken, Sends
<1>5. Inv'
  <2>1. \A x \in net' : GoodMsg(x)
    BY <1>1, <1>3 DEF Sends, Inv
  <2>2. /\ rt' \in [Node -> [Node -> Entry]]
        /\ \A x \in Node : Good(rt'[x])
    BY <1>1, <1>2, <1>3 DEF Inv, Good, Table
  <2>3. /\ reqId' \in [Node -> Nat]
        /\ requests' \in 0 .. MaxRequests /\ faults' \in 0 .. MaxFaults
    BY <1>3 DEF Inv, TypeOK
  <2>4. TypeOK'
    BY <2>1, <2>2, <2>3 DEF TypeOK, GoodMsg, Handled
  <2> QED
    BY <2>1, <2>2, <2>4 DEF Inv
<1>6. SeqStep
  <2> SUFFICES ASSUME NEW x \in Node, NEW d \in Node, rt[x][d].known, rt'[x][d].known,
                      Newer(rt[x][d].seq, rt'[x][d].seq)
               PROVE  x = n /\ (q.from = d \/ AwaitedBy(q, n, d))
    BY <1>4 DEF SeqStep
  <2>1. rt[x][d].seq \in SeqNo
    BY <1>2 DEF Table, Entry
  <2>2. x = n
    BY <1>2, <1>3, <2>1, NewerIrreflexive
  <2>3. rt'[n] = t
    BY <1>2, <1>3
  <2> QED
    BY <1>1, <2>2, <2>3 DEF Proceeds, Onward
<1> QED
  BY <1>5, <1>6

-----------------------------------------------------------------------------
(* Requests.                                                               *)

LEMMA ReverseGood ==
  ASSUME RingAssumption, SeqModAssumption, NEW t, Good(t), NEW b \in Rreq, NEW m \in Node,
         b.hop = 0 => m = b.origin
  PROVE  LET u == ReverseRoute(t, b, m)
             o == b.origin
         IN /\ Good(u) /\ Present(u, o) /\ u[o].next = m /\ u[o].hop = b.hop + 1
            /\ \A x \in Node \ {o} : u[x] = t[x]
            /\ Onward(t[o], u[o])
<1> DEFINE o == b.origin
           old == t[o]
           num == IF old.known /\ ~Newer(b.oseq, old.seq) THEN old.seq ELSE b.oseq
           e == [old EXCEPT !.seq = num, !.known = TRUE, !.next = m, !.hop = b.hop + 1]
           f == Route(b.hop + 1, TRUE, b.oseq, m)
<1>1. o \in Node /\ b.oseq \in SeqNo /\ b.hop \in Nat
  BY DEF Rreq
<1>2. old \in Entry /\ Sound(o, old) /\ num \in SeqNo
  BY <1>1 DEF Good, Table, Entry
<1>3. CASE ~Present(t, o)
  <2>1. f \in Entry /\ Sound(o, f) /\ f.flag # "ABSENT"
    BY <1>1, RingAssumption DEF Route, Entry, Sound, RouteFlag, RingAssumption
  <2>2. f.next = m /\ f.hop = b.hop + 1
    BY DEF Route
  <2>3. ReverseRoute(t, b, m) = AddRoute(t, o, f)
    BY <1>3 DEF ReverseRoute
  <2>4. ~old.known
    BY <1>2, <1>3 DEF Sound, Present
  <2> HIDE DEF f
  <2>5. /\ Settled(f).flag = f.flag /\ Settled(f).next = f.next /\ Settled(f).hop = f.hop
    BY <2>1, SettledSound
  <2>6. /\ Good(AddRoute(t, o, f))
        /\ \A x \in Node \ {o} : AddRoute(t, o, f)[x] = t[x]
        /\ AddRoute(t, o, f)[o] = Settled(f)
    BY <1>1, <1>3, <2>1, UpdateGood
  <2> QED
    BY <2>1, <2>2, <2>3, <2>4, <2>5, <2>6 DEF Present, Onward
<1>4. CASE Present(t, o)
  <2> HIDE DEF num, old
  <2>1. /\ e \in Entry /\ e.flag = old.flag /\ e.known /\ e.seq = num
        /\ e.next = m /\ e.hop = b.hop + 1
    <3> DEFINE h == b.hop + 1
    <3>1. h \in Nat
      BY <1>1
    <3> HIDE DEF h
    <3>2. /\ e = [old EXCEPT !.seq = num, !.known = TRUE, !.next = m, !.hop = h]
          /\ h = b.hop + 1
      BY DEF h
    <3> HIDE DEF e
    <3> QED
      BY <1>2, <3>1, <3>2 DEF Entry
  <2>2. Sound(o, e)
    BY <1>1, <1>4, <2>1 DEF Sound, Present, old
  <2>3. ReverseRoute(t, b, m) = Update(t, o, e)
    BY <1>4 DEF ReverseRoute, num, old
  <2>4. Onward(old, e)
    <3>1. CASE num = old.seq
      BY <1>2, <2>1, <3>1, OnwardSame
    <3>2. CASE num # old.seq
      <4>1. ~old.known \/ Newer(num, old.seq)
        BY <3>2 DEF num
      <4>2. old.seq \in SeqNo
        BY <1>2 DEF Entry
      <4> QED
        BY <1>2, <2>1, <4>1, <4>2, NewerAsymmetric DEF Onward
    <3> QED
      BY <3>1, <3>2
  <2> HIDE DEF e
  <2>5. /\ Settled(e).known = e.known /\ Settled(e).seq = e.seq
        /\ Settled(e).flag = e.flag /\ Settled(e).next = e.next
        /\ Settled(e).hop = e.hop
    BY <2>1, <2>2, SettledSound
  <2>6. /\ Good(Update(t, o, e))
        /\ \A x \in Node \ {o} : Update(t, o, e)[x] = t[x]
        /\ Update(t, o, e)[o] = Settled(e)
    BY <1>1, <1>4, <2>1, <2>2, UpdateGood
  <2> QED
    BY <1>4, <2>1, <2>3, <2>4, <2>5, <2>6 DEF Present, Onward, old
<1> QED
  BY <1>3, <1>4

LEMMA PreviousGood ==
  ASSUME RingAssumption, NEW t, Good(t), NEW b \in Rreq, NEW m \in Node, Present(t, m)
  PROVE  LET u == PreviousHop(t, b, m) IN
         /\ Good(u) /\ Present(u, m) /\ u[m].next = m /\ u[m].hop = 1
         /\ \A x \in Node \ {m} : u[x] = t[x]
<1> DEFINE e == [t[m] EXCEPT !.flag = "VALID", !.known = FALSE, !.seq = b.oseq,
                             !.hop = 1, !.next = m]
<1>1. t[m] \in Entry /\ b.oseq \in SeqNo
  BY DEF Good, Table, Rreq
<1>2. e \in Entry /\ e.flag = "VALID" /\ e.next = m /\ e.hop = 1
  BY <1>1 DEF Entry, RouteFlag
<1>3. Sound(m, e)
  BY <1>2 DEF Sound
<1>4. PreviousHop(t, b, m) = Update(t, m, e)
  BY DEF PreviousHop
<1> HIDE DEF e
<1>5. /\ Settled(e).flag = e.flag /\ Settled(e).next = e.next /\ Settled(e).hop = e.hop
  BY <1>2, <1>3, SettledSound
<1>6. /\ Good(Update(t, m, e))
      /\ \A x \in Node \ {m} : Update(t, m, e)[x] = t[x]
      /\ Update(t, m, e)[m] = Settled(e)
  BY <1>2, <1>3, UpdateGood
<1> QED
  BY <1>2, <1>4, <1>5, <1>6 DEF Present

\* The table after the two updates every new request makes.
LEMMA RequestGood ==
  ASSUME NetworkAssumption, RingAssumption, SeqModAssumption, NEW t, Good(t),
         NEW q, GoodMsg(q), q.body \in Rreq, q.body.type = "RREQ"
  PROVE  LET m == q.from
             b == q.body
             u == PreviousHop(ReverseRoute(UpdateRouteToNeighbor(t, m), b, m), b, m)
         IN /\ Good(u) /\ Present(u, b.origin)
            /\ u[b.origin].next = m /\ u[b.origin].hop \in Nat \ {0}
            /\ \A d \in Node \ {m} : Onward(t[d], u[d])
<1> DEFINE m == q.from
           b == q.body
           t1 == UpdateRouteToNeighbor(t, m)
           t2 == ReverseRoute(t1, b, m)
           u == PreviousHop(t2, b, m)
<1>1. m \in Node /\ b \in Rreq /\ b.origin \in Node /\ b.hop \in Nat
      /\ (b.hop = 0 => m = b.origin)
  BY LinksGood DEF GoodMsg, Rreq
<1>2. /\ Good(t1) /\ Present(t1, m) /\ \A x \in Node \ {m} : t1[x] = t[x]
  BY <1>1, NeighborGood
<1>3. /\ Good(t2) /\ Present(t2, b.origin)
      /\ t2[b.origin].next = m /\ t2[b.origin].hop = b.hop + 1
      /\ \A x \in Node \ {b.origin} : t2[x] = t1[x]
      /\ Onward(t1[b.origin], t2[b.origin])
  <2> HIDE DEF t1, b, m
  <2> QED
    BY <1>1, <1>2, ReverseGood
<1>4. Present(t2, m)
  <2> HIDE DEF t1, t2, b, m
  <2>1. CASE m = b.origin
    BY <1>3, <2>1
  <2>2. CASE m # b.origin
    BY <1>1, <1>2, <1>3, <2>2 DEF Present
  <2> QED
    BY <2>1, <2>2
<1>5. /\ Good(u) /\ Present(u, m) /\ u[m].next = m /\ u[m].hop = 1
      /\ \A x \in Node \ {m} : u[x] = t2[x]
  <2> HIDE DEF t2, b, m
  <2> QED
    BY <1>1, <1>3, <1>4, PreviousGood
<1>6. \A d \in Node \ {m} : Onward(t[d], u[d])
  <2> SUFFICES ASSUME NEW d \in Node \ {m} PROVE Onward(t[d], u[d])
    OBVIOUS
  <2>1. u[d] = t2[d] /\ t1[d] = t[d]
    BY <1>2, <1>5
  <2>2. CASE d = b.origin
    BY <1>3, <2>1, <2>2
  <2>3. CASE d # b.origin
    <3>1. t[d] \in Entry /\ u[d] = t[d]
      BY <1>3, <2>1, <2>3 DEF Good, Table
    <3> QED
      BY <3>1, OnwardSame
  <2> QED
    BY <2>2, <2>3
<1>7. Present(u, b.origin) /\ u[b.origin].next = m /\ u[b.origin].hop \in Nat \ {0}
  BY <1>1, <1>3, <1>5 DEF Present
<1> QED
  BY <1>5, <1>6, <1>7

LEMMA OwnReplySent ==
  ASSUME NetworkAssumption, NEW n \in Node, NEW m, NEW b \in Rreq, b.dst = n,
         NEW seq \in SeqNo, NEW back \in Entry
  PROVE  Sends(n, Unicast(n, m, OwnReply(b, seq, back)))
<1> DEFINE r == OwnReply(b, seq, back)
<1>1. /\ r \in Rrep /\ r.dst = n
  BY DEF OwnReply, Rrep, Rreq, Entry
<1> HIDE DEF r
<1>2. Sends(n, Unicast(n, m, r))
  BY <1>1, RrepSent
<1> QED
  BY <1>2 DEF r

LEMMA IntermediateReplySent ==
  ASSUME NetworkAssumption, NEW n \in Node, NEW t, Good(t), NEW b \in Rreq,
         b.origin # b.dst, HasValid(t, b.dst), t[b.origin].hop \in Nat \ {0}
  PROVE  Sends(n, IntermediateReply(n, t, b))
<1> DEFINE there == t[b.dst]
           back  == t[b.origin]
           near  == there.hop = 1
           R1 == [type |-> "RREP", dst |-> b.dst, seq |-> there.seq,
                  origin |-> b.origin, hop |-> there.hop, ttl |-> back.hop, ack |-> near]
           R2 == [type |-> "RREP", dst |-> b.origin, seq |-> back.seq,
                  origin |-> b.dst, hop |-> back.hop, ttl |-> there.hop, ack |-> FALSE]
<1>1. /\ b.dst \in Node /\ b.origin \in Node
      /\ there \in Entry /\ back \in Entry /\ there.hop >= 1
  BY DEF Rreq, Good, Table, HasValid, Sound
<1>2. /\ there.hop \in Nat /\ back.hop \in Nat /\ there.seq \in SeqNo /\ back.seq \in SeqNo
  BY <1>1 DEF Entry
<1>3. near \in BOOLEAN
  OBVIOUS
<1> HIDE DEF near, there, back
<1>4. R1 \in Rrep /\ R2 \in Rrep
  BY <1>1, <1>2, <1>3 DEF Rrep
<1>5. /\ R1.dst = b.dst /\ R1.origin = b.origin /\ R1.hop = there.hop
      /\ R2.dst = b.origin /\ R2.origin = b.dst /\ R2.hop = back.hop
      /\ back.hop # 0
  BY DEF back
<1>6. IntermediateReply(n, t, b) =
        Unicast(n, back.next, R1) \cup
        (IF GratuitousReply THEN Unicast(n, there.next, R2) ELSE {})
  BY DEF IntermediateReply, there, back, near
<1> HIDE DEF R1, R2
<1>7. Sends(n, Unicast(n, back.next, R1)) /\ Sends(n, Unicast(n, there.next, R2))
  BY <1>1, <1>2, <1>4, <1>5, RrepSent
<1> QED
  BY <1>6, <1>7 DEF Sends

LEMMA RebroadcastSent ==
  ASSUME NetworkAssumption, RingAssumption, NEW n \in Node, NEW e \in Entry, NEW b \in Rreq,
         b.origin # b.dst
  PROVE  Sends(n, Rebroadcast(n, e, b))
<1> DEFINE asked == IF FreshEnough(e, b) THEN [b EXCEPT !.known = TRUE, !.dseq = e.seq]
                                         ELSE b
           r == [asked EXCEPT !.hop = @ + 1, !.ttl = @ - 1]
<1>1. CASE b.ttl < 2
  BY <1>1, SendsNothing DEF Rebroadcast
<1>2. CASE b.ttl >= 2
  <2>1. /\ asked \in Rreq /\ asked.ttl = b.ttl /\ asked.hop = b.hop
        /\ asked.origin = b.origin /\ asked.dst = b.dst
    <3>1. e.seq \in SeqNo
      BY DEF Entry
    <3> QED
      BY <3>1 DEF Rreq
  <2>2. b.hop \in Nat /\ b.ttl \in Int
    BY DEF Rreq
  <2> HIDE DEF asked
  <2>3. r \in Rreq /\ r.hop = b.hop + 1 /\ r.origin = b.origin /\ r.dst = b.dst
    <3> DEFINE h == asked.hop + 1
               l == asked.ttl - 1
    <3>1. h = b.hop + 1 /\ h \in Nat /\ l \in 1 .. NetDiameter
      BY <1>2, <2>1, <2>2 DEF Rreq, RingAssumption
    <3>2. r = [asked EXCEPT !.hop = h, !.ttl = l]
      OBVIOUS
    <3> HIDE DEF h, l, r
    <3> QED
      BY <2>1, <3>1, <3>2 DEF Rreq
  <2>4. Rebroadcast(n, e, b) = Broadcast(n, r)
    BY <1>2, <2>2 DEF Rebroadcast, asked
  <2> HIDE DEF r
  <2> QED
    BY <2>2, <2>3, <2>4, RreqSent
<1> QED
  BY <1>1, <1>2 DEF Rreq

LEMMA RecvRequestHandled ==
  ASSUME NetworkAssumption, RingAssumption, SeqModAssumption, Inv, NEW q \in net,
         RecvRequest(q.to, q)
  PROVE  Handled(q.to, q)
<1> DEFINE n  == q.to
           m  == q.from
           b  == q.body
           t1 == UpdateRouteToNeighbor(rt[n], m)
           t3 == PreviousHop(ReverseRoute(t1, b, m), b, m)
           there == t3[b.dst]
           t4 == WithPrecursor(Update(t3, b.dst,
                   [there EXCEPT !.prec = @ \cup {t3[b.origin].next}]),
                   b.origin, there.next)
           seq == IF b.known /\ b.dseq = (seqNo[n] + 1) % SeqMod
                  THEN b.dseq ELSE seqNo[n]
<1>1. /\ GoodMsg(q) /\ b.type = "RREQ" /\ b \in Rreq
      /\ n \in Node /\ m \in Node /\ Good(rt[n]) /\ b.origin # b.dst
      /\ b.origin \in Node /\ b.dst \in Node /\ <<b.origin, b.id>> \in Node \X Nat
  BY MsgTypes, LinksGood DEF Inv, GoodMsg, RecvRequest, Rreq
<1>2. seqNo \in [Node -> SeqNo] /\ seen \in [Node -> SUBSET (Node \X Nat)]
  BY DEF Inv, TypeOK
<1>3. Good(t1) /\ Proceeds(n, q, t1)
  <2>1. Good(t1) /\ \A x \in Node \ {m} : t1[x] = rt[n][x]
    BY <1>1, NeighborGood
  <2> QED
    BY <1>1, <2>1, OnwardSame DEF Proceeds, Good, Table
<1>4. /\ Good(t3) /\ Proceeds(n, q, t3)
      /\ t3[b.origin].next = m /\ t3[b.origin].hop \in Nat \ {0}
  BY <1>1, RequestGood DEF Proceeds
<1>5. seq \in SeqNo
  BY <1>1, <1>2 DEF Rreq
<1>6. CASE /\ <<b.origin, b.id>> \in seen[n]
           /\ Handle(n, q, t1, {}) /\ UNCHANGED <<seqNo, seen>>
  BY <1>2, <1>3, <1>6, SendsNothing DEF Handled
<1>7. ASSUME seen' = [seen EXCEPT ![n] = @ \cup {<<b.origin, b.id>>}]
      PROVE  seen' \in [Node -> SUBSET (Node \X Nat)]
  BY <1>1, <1>2, <1>7
<1>8. CASE /\ seen' = [seen EXCEPT ![n] = @ \cup {<<b.origin, b.id>>}]
           /\ b.dst = n
           /\ seqNo' = [seqNo EXCEPT ![n] = seq]
           /\ Handle(n, q, t3, Unicast(n, t3[b.origin].next, OwnReply(b, seq, t3[b.origin])))
  <2> HIDE DEF seq, t3
  <2>1. t3[b.origin] \in Entry
    BY <1>1, <1>4 DEF Good, Table
  <2>2. Sends(n, Unicast(n, t3[b.origin].next, OwnReply(b, seq, t3[b.origin])))
    BY <1>1, <1>5, <1>8, <2>1, OwnReplySent
  <2>3. seqNo' \in [Node -> SeqNo]
    BY <1>1, <1>2, <1>5, <1>8
  <2> QED
    BY <1>4, <1>7, <1>8, <2>2, <2>3 DEF Handled
<1>9. CASE /\ seen' = [seen EXCEPT ![n] = @ \cup {<<b.origin, b.id>>}]
           /\ Handle(n, q, t3, {}) /\ UNCHANGED seqNo
  BY <1>2, <1>4, <1>7, <1>9, SendsNothing DEF Handled
<1>10. CASE /\ seen' = [seen EXCEPT ![n] = @ \cup {<<b.origin, b.id>>}]
            /\ UNCHANGED seqNo /\ HasValid(t3, b.dst)
            /\ Handle(n, q, t4, IntermediateReply(n, t3, b))
  <2> DEFINE P == there.prec \cup {t3[b.origin].next}
             s == Update(t3, b.dst, [there EXCEPT !.prec = P])
  <2>1. /\ there \in Entry /\ there.next \in Node /\ P \in SUBSET Node
    <3> HIDE DEF t3
    <3> QED
      BY <1>1, <1>4, <1>10 DEF Good, Table, Sound, HasValid, Entry
  <2>2. Good(s) /\ SameRoutes(t3, s)
    <3> HIDE DEF t3, P
    <3>1. SameRoutes(t3, t3)
      BY DEF SameRoutes
    <3> QED
      BY <1>1, <1>4, <2>1, <3>1, PrecursorsGood
  <2>3. t4 = WithPrecursor(s, b.origin, there.next)
    OBVIOUS
  <2>4. Good(t4) /\ SameRoutes(t3, t4)
    <3> HIDE DEF s, t3, t4
    <3> QED
      BY <2>1, <2>2, <2>3, WithPrecursorGood, SameRoutesTrans
  <2>5. Proceeds(n, q, t4)
    <3> HIDE DEF t3, t4
    <3> QED
      BY <1>4, <2>4 DEF Proceeds, SameRoutes, Onward
  <2>6. Sends(n, IntermediateReply(n, t3, b))
    <3> HIDE DEF t3
    <3> QED
      BY <1>1, <1>4, <1>10, IntermediateReplySent
  <2> QED
    BY <1>2, <1>7, <1>10, <2>4, <2>5, <2>6 DEF Handled
<1>11. CASE /\ seen' = [seen EXCEPT ![n] = @ \cup {<<b.origin, b.id>>}]
            /\ UNCHANGED seqNo
            /\ Handle(n, q, t3, Rebroadcast(n, there, b))
  <2> HIDE DEF t3
  <2>1. there \in Entry
    BY <1>1, <1>4 DEF Good, Table
  <2>2. Sends(n, Rebroadcast(n, there, b))
    <3> HIDE DEF there, b
    <3> QED
      BY <1>1, <2>1, RebroadcastSent
  <2> QED
    BY <1>2, <1>4, <1>7, <1>11, <2>2 DEF Handled
<1> QED
  BY <1>6, <1>8, <1>9, <1>10, <1>11 DEF RecvRequest

-----------------------------------------------------------------------------
(* Replies, hellos and acks.                                               *)

\* The table after a reply's own update.
LEMMA ReplyUpdateGood ==
  ASSUME RingAssumption, SeqModAssumption, NEW t, Good(t), NEW b \in Rrep, NEW m \in Node,
         b.hop = 0 => m = b.dst
  PROVE  LET new == Route(b.hop + 1, TRUE, b.seq, m)
             u == IF ~Present(t, b.dst) THEN AddRoute(t, b.dst, new)
                  ELSE IF Better(t[b.dst], b.hop + 1, b.seq)
                       THEN Update(t, b.dst, new) ELSE t
         IN /\ Good(u) /\ u[b.dst].known
            /\ \A x \in Node \ {b.dst} : u[x] = t[x]
            /\ Onward(t[b.dst], u[b.dst])
            /\ new \in Entry /\ Sound(b.dst, new)
<1> DEFINE d == b.dst
           e == t[d]
           new == Route(b.hop + 1, TRUE, b.seq, m)
<1>1. d \in Node /\ b.seq \in SeqNo /\ b.hop \in Nat /\ e \in Entry /\ Sound(d, e)
  BY DEF Rrep, Good, Table
<1>2. /\ new \in Entry /\ Sound(d, new) /\ new.flag # "ABSENT"
      /\ new.known /\ new.seq = b.seq
  BY <1>1 DEF Route, Entry, Sound, RouteFlag, RingAssumption
<1> HIDE DEF new
<1>3. Settled(new).known /\ Settled(new).seq = b.seq
  BY <1>2, SettledSound
<1>4. /\ Good(Update(t, d, new)) /\ Good(AddRoute(t, d, new))
      /\ \A x \in Node \ {d} : Update(t, d, new)[x] = t[x] /\ AddRoute(t, d, new)[x] = t[x]
      /\ Update(t, d, new)[d] = IF Present(t, d) THEN Settled(new) ELSE t[d]
      /\ AddRoute(t, d, new)[d] = IF Present(t, d) THEN t[d] ELSE Settled(new)
  BY <1>1, <1>2, UpdateGood
<1>5. CASE ~Present(t, d)
  <2>1. ~e.known
    BY <1>1, <1>5 DEF Sound, Present
  <2> QED
    BY <1>2, <1>3, <1>4, <1>5, <2>1 DEF Onward, new
<1>6. CASE Present(t, d) /\ Better(e, b.hop + 1, b.seq)
  <2>1. Onward(e, Settled(new))
    <3>1. e.seq \in SeqNo
      BY <1>1 DEF Entry
    <3>2. ~e.known \/ Newer(b.seq, e.seq) \/ b.seq = e.seq
      BY <1>6 DEF Better
    <3> QED
      BY <1>1, <1>3, <3>1, <3>2, NewerAsymmetric, NewerIrreflexive DEF Onward
  <2> QED
    BY <1>2, <1>3, <1>4, <1>6, <2>1 DEF new
<1>7. CASE Present(t, d) /\ ~Better(e, b.hop + 1, b.seq)
  <2>1. e.known
    BY <1>7 DEF Better
  <2> QED
    BY <1>1, <1>2, <1>7, <2>1, OnwardSame DEF new
<1> QED
  BY <1>5, <1>6, <1>7

\* Then the precursors: all that are named have a next hop.
LEMMA WithPrecursorsGood ==
  ASSUME RingAssumption, NEW t, Good(t), NEW b \in Rrep,
         ~NoWayBack(t[b.origin]), t[b.dst].known
  PROVE  Good(WithPrecursors(t, b)) /\ SameRoutes(t, WithPrecursors(t, b))
<1> DEFINE back  == t[b.origin]
           there == t[b.dst]
           t0 == WithPrecursor(t, b.dst, back.next)
           t1 == WithPrecursor(t0, there.next, back.next)
           P  == back.prec \cup {there.next}
           t2 == Update(t1, b.origin, [back EXCEPT !.prec = P])
           t3 == WithPrecursor(t2, back.next, there.next)
<1>1. /\ b.origin \in Node /\ b.dst \in Node
      /\ back \in Entry /\ there \in Entry
      /\ back.next \in Node /\ there.next \in Node
  BY DEF Rrep, Good, Table, Sound, NoWayBack, Entry, RouteFlag
<1>2. P \in SUBSET Node
  BY <1>1 DEF Entry
<1>3. SameRoutes(t, t)
  BY DEF SameRoutes
<1>4. Good(t0) /\ SameRoutes(t, t0)
  BY <1>1, WithPrecursorGood
<1>5. Good(t1) /\ SameRoutes(t, t1)
  <2> HIDE DEF t0, back, there
  <2> QED
    BY <1>1, <1>4, WithPrecursorGood, SameRoutesTrans
<1>6. Good(t2) /\ SameRoutes(t, t2)
  <2>1. SameRoutes(t1, t) => Good(t2) /\ SameRoutes(t1, t2)
    <3> HIDE DEF t1, P
    <3> QED
      BY <1>1, <1>2, <1>5, PrecursorsGood
  <2>2. SameRoutes(t1, t)
    BY <1>5 DEF SameRoutes
  <2> HIDE DEF t1, t2
  <2> QED
    BY <1>5, <2>1, <2>2, SameRoutesTrans
<1>7. Good(t3) /\ SameRoutes(t, t3)
  <2> HIDE DEF t2, back, there
  <2> QED
    BY <1>1, <1>6, WithPrecursorGood, SameRoutesTrans
<1>8. WithPrecursors(t, b) \in {t, t3}
  BY DEF WithPrecursors
<1> QED
  BY <1>3, <1>7, <1>8

\* A reply as it is sent on.
LEMMA ForwardedReplySent ==
  ASSUME NetworkAssumption, NEW n \in Node, NEW m, NEW b \in Rrep,
         b.dst # b.origin, b.ttl >= 2
  PROVE  Sends(n, Unicast(n, m, [b EXCEPT !.hop = @ + 1, !.ttl = @ - 1, !.ack = FALSE]))
<1> DEFINE h == b.hop + 1
           l == b.ttl - 1
           r == [b EXCEPT !.hop = @ + 1, !.ttl = @ - 1, !.ack = FALSE]
<1>1. h \in Nat /\ h # 0 /\ l \in Nat
  BY DEF Rrep
<1>2. r = [b EXCEPT !.hop = h, !.ttl = l, !.ack = FALSE]
  OBVIOUS
<1> HIDE DEF h, l, r
<1>3. r \in Rrep /\ r.hop = h /\ r.dst = b.dst /\ r.origin = b.origin
  BY <1>1, <1>2 DEF Rrep
<1>4. Sends(n, Unicast(n, m, r))
  BY <1>1, <1>3, RrepSent
<1> QED
  BY <1>4 DEF r

LEMMA RecvReplyHandled ==
  ASSUME NetworkAssumption, RingAssumption, SeqModAssumption, Inv, NEW q \in net,
         RecvReply(q.to, q)
  PROVE  Handled(q.to, q)
<1> DEFINE n  == q.to
           m  == q.from
           b  == q.body
           t1 == UpdateRouteToNeighbor(rt[n], m)
           new == Route(b.hop + 1, TRUE, b.seq, m)
           t2 == IF ~Present(t1, b.dst) THEN AddRoute(t1, b.dst, new)
                 ELSE IF Better(t1[b.dst], b.hop + 1, b.seq)
                      THEN Update(t1, b.dst, new) ELSE t1
           t3 == Update(t2, b.dst, new)
           back == t2[b.origin]
           ack == IF b.ack THEN Unicast(n, m, [type |-> "RREP_ACK"]) ELSE {}
           on  == IF b.ttl < 2 THEN {}
                  ELSE Unicast(n, back.next, [b EXCEPT !.hop = @ + 1, !.ttl = @ - 1,
                                                       !.ack = FALSE])
<1>1. /\ GoodMsg(q) /\ b.type = "RREP" /\ b \in Rrep /\ b.dst # b.origin
      /\ n \in Node /\ m \in Node /\ Good(rt[n])
      /\ b.dst \in Node /\ b.origin \in Node /\ b.ttl \in Nat
      /\ (b.hop = 0 => m = b.dst)
  BY MsgTypes, LinksGood DEF Inv, GoodMsg, RecvReply, Rrep
<1>2. seqNo' \in [Node -> SeqNo] /\ seen' \in [Node -> SUBSET (Node \X Nat)]
  BY DEF Inv, TypeOK, RecvReply
<1>3. Good(t1) /\ \A x \in Node \ {m} : t1[x] = rt[n][x]
  BY <1>1, NeighborGood
<1>4. /\ Good(t2) /\ t2[b.dst].known
      /\ \A x \in Node \ {b.dst} : t2[x] = t1[x]
      /\ Onward(t1[b.dst], t2[b.dst])
      /\ new \in Entry /\ Sound(b.dst, new)
  <2> HIDE DEF t1, b, m
  <2> QED
    BY <1>1, <1>3, ReplyUpdateGood
<1>5. Proceeds(n, q, t2)
  <2> SUFFICES ASSUME NEW d \in Node \ {m} PROVE Onward(rt[n][d], t2[d])
    BY DEF Proceeds
  <2> HIDE DEF t1, t2, b, n
  <2>1. CASE d = b.dst
    BY <1>3, <1>4, <2>1
  <2>2. CASE d # b.dst
    <3>1. t2[d] = rt[n][d] /\ rt[n][d] \in Entry
      BY <1>1, <1>3, <1>4, <2>2 DEF Good, Table
    <3> QED
      BY <3>1, OnwardSame
  <2> QED
    BY <2>1, <2>2
<1>6. Sends(n, ack) /\ Sends(n, on)
  <2>1. Sends(n, ack)
    <3>1. [type |-> "RREP_ACK"] \in Ack
      BY DEF Ack
    <3> QED
      BY <1>1, <3>1, RestSent, SendsNothing
  <2>2. Sends(n, on)
    <3> DEFINE out == Unicast(n, back.next, [b EXCEPT !.hop = @ + 1, !.ttl = @ - 1,
                                                      !.ack = FALSE])
    <3>1. b.ttl >= 2 => Sends(n, out)
      <4> HIDE DEF back, b, n
      <4> QED
        BY <1>1, ForwardedReplySent
    <3>2. on = IF b.ttl < 2 THEN {} ELSE out
      OBVIOUS
    <3> HIDE DEF out, on
    <3> QED
      BY <1>1, <3>1, <3>2, SendsNothing
  <2> QED
    BY <2>1, <2>2
<1>7. CASE b.origin = n /\ Handle(n, q, IF InSearch(t1, b.dst) THEN t3 ELSE t2, ack)
  <2>1. CASE InSearch(t1, b.dst)
    <3>1. Good(t3) /\ \A x \in Node \ {b.dst} : t3[x] = t2[x]
      <4> HIDE DEF t2, new, b
      <4> QED
        BY <1>1, <1>4, UpdateGood
    <3>2. Proceeds(n, q, t3)
      <4> SUFFICES ASSUME NEW d \in Node \ {m}
                   PROVE  Onward(rt[n][d], t3[d]) \/ AwaitedBy(q, n, d)
        BY DEF Proceeds
      <4>1. CASE d = b.dst
        <5>1. InSearch(rt[n], d)
          BY <1>3, <2>1, <4>1 DEF InSearch
        <5> QED
          BY <1>1, <1>7, <5>1 DEF AwaitedBy, IsReply
      <4>2. CASE d # b.dst
        <5> HIDE DEF t2, t3
        <5>1. t3[d] = t2[d] /\ (d = m \/ Onward(rt[n][d], t2[d]) \/ AwaitedBy(q, n, d))
          BY <1>5, <3>1, <4>2 DEF Proceeds
        <5> QED
          BY <5>1
      <4> QED
        BY <4>1, <4>2
    <3>3. Handle(n, q, t3, ack)
      BY <1>7, <2>1
    <3> HIDE DEF t3, ack
    <3> QED
      BY <1>2, <1>6, <3>1, <3>2, <3>3 DEF Handled
  <2>2. CASE ~InSearch(t1, b.dst)
    <3>1. Handle(n, q, t2, ack)
      BY <1>7, <2>2
    <3> HIDE DEF t2, ack
    <3> QED
      BY <1>2, <1>4, <1>5, <1>6, <3>1 DEF Handled
  <2> QED
    BY <2>1, <2>2
<1>8. CASE Handle(n, q, t2, ack)
  <2> HIDE DEF t2, ack
  <2> QED
    BY <1>2, <1>4, <1>5, <1>6, <1>8 DEF Handled
<1>9. CASE ~NoWayBack(back) /\ Handle(n, q, WithPrecursors(t2, b), ack \cup on)
  <2> DEFINE t4 == WithPrecursors(t2, b)
  <2> HIDE DEF t2, ack, on
  <2>1. Good(t4) /\ SameRoutes(t2, t4)
    BY <1>1, <1>4, <1>9, WithPrecursorsGood
  <2> HIDE DEF t4
  <2>2. Proceeds(n, q, t4)
    BY <1>5, <2>1 DEF Proceeds, SameRoutes, Onward
  <2>3. Sends(n, ack \cup on)
    BY <1>6, SendsUnion
  <2>4. Handle(n, q, t4, ack \cup on)
    BY <1>9 DEF t4
  <2> QED
    BY <1>2, <2>1, <2>2, <2>3, <2>4 DEF Handled
<1> QED
  <2>1. \/ b.origin = n /\ Handle(n, q, IF InSearch(t1, b.dst) THEN t3 ELSE t2, ack)
        \/ Handle(n, q, t2, ack)
        \/ ~NoWayBack(back) /\ Handle(n, q, WithPrecursors(t2, b), ack \cup on)
    BY DEF RecvReply
  <2> QED
    BY <1>7, <1>8, <1>9, <2>1

LEMMA ProcessHelloHandled ==
  ASSUME NetworkAssumption, RingAssumption, SeqModAssumption, Inv, NEW q \in net,
         ProcessHello(q.to, q)
  PROVE  Handled(q.to, q)
<1> DEFINE n == q.to
           d == q.body.dst
           t == UpdateRouteToNeighbor(rt[n], q.from)
           e == [t[d] EXCEPT !.flag = "VALID", !.known = TRUE,
                             !.seq = q.body.seq, !.hop = 1, !.next = d]
           u == Update(t, d, e)
<1>1. /\ GoodMsg(q) /\ q.body \in Rrep /\ d = q.from
      /\ n \in Node /\ d \in Node /\ Good(rt[n]) /\ q.body.seq \in SeqNo
  BY MsgTypes, LinksGood DEF Inv, GoodMsg, ProcessHello, Rrep
<1>2. Good(t) /\ \A x \in Node \ {d} : t[x] = rt[n][x]
  BY <1>1, NeighborGood
<1> HIDE DEF t
<1>3. e \in Entry /\ Sound(d, e)
  <2>1. t[d] \in Entry
    BY <1>1, <1>2 DEF Good, Table
  <2>2. e \in Entry /\ e.flag = "VALID" /\ e.next = d /\ e.hop = 1
    BY <1>1, <2>1 DEF Entry, RouteFlag
  <2> QED
    BY <1>1, <2>2 DEF Sound
<1> HIDE DEF e
<1>4. Good(u) /\ \A x \in Node \ {d} : u[x] = rt[n][x]
  BY <1>1, <1>2, <1>3, UpdateGood
<1> HIDE DEF u
<1>5. Proceeds(n, q, u)
  BY <1>1, <1>4, OnwardSame DEF Proceeds, Good, Table
<1>6. Handle(n, q, u, {}) /\ UNCHANGED <<seqNo, seen>>
  BY DEF ProcessHello, u, e, t
<1> QED
  BY <1>4, <1>5, <1>6, SendsNothing DEF Handled, Inv, TypeOK

LEMMA RecvReplyAckHandled ==
  ASSUME NetworkAssumption, RingAssumption, SeqModAssumption, Inv, NEW q \in net,
         RecvReplyAck(q.to, q)
  PROVE  Handled(q.to, q)
<1> DEFINE n == q.to
           m == q.from
           t == UpdateRouteToNeighbor(rt[n], m)
           e == [t[m] EXCEPT !.flag = "VALID"]
           u == Update(t, m, e)
<1>1. GoodMsg(q) /\ n \in Node /\ m \in Node /\ Good(rt[n])
  BY LinksGood DEF Inv
<1>2. Good(t) /\ t[m].hop = 1 /\ t[m].next = m /\ \A x \in Node \ {m} : t[x] = rt[n][x]
  BY <1>1, NeighborGood
<1> HIDE DEF t
<1>3. e \in Entry /\ Sound(m, e)
  <2>1. t[m] \in Entry
    BY <1>1, <1>2 DEF Good, Table
  <2>2. e \in Entry /\ e.flag = "VALID" /\ e.next = m /\ e.hop = 1
    BY <1>2, <2>1 DEF Entry, RouteFlag
  <2> QED
    BY <1>1, <2>2 DEF Sound
<1> HIDE DEF e
<1>4. Good(u) /\ \A x \in Node \ {m} : u[x] = rt[n][x]
  BY <1>1, <1>2, <1>3, UpdateGood
<1> HIDE DEF u
<1>5. Proceeds(n, q, u)
  BY <1>1, <1>4, OnwardSame DEF Proceeds, Good, Table
<1>6. Handle(n, q, u, {}) /\ UNCHANGED <<seqNo, seen>>
  BY DEF RecvReplyAck, u, e, t
<1> QED
  BY <1>4, <1>5, <1>6, SendsNothing DEF Handled, Inv, TypeOK

-----------------------------------------------------------------------------
(* Errors and faults.                                                      *)

LEMMA InvalidateGood ==
  ASSUME RingAssumption, NEW t, Good(t), NEW lost
  PROVE  LET u == InvalidateRoutesWithDst(t, lost) IN
         Good(u) /\ \A d \in Node : u[d].seq = t[d].seq /\ u[d].known = t[d].known
<1> DEFINE u == InvalidateRoutesWithDst(t, lost)
<1>1. t \in Table /\ \A d \in Node : t[d] \in Entry /\ Sound(d, t[d])
  BY DEF Good, Table
<1>2. ASSUME NEW d \in Node, HasValid(t, d)
      PROVE  /\ Invalidated(t[d]) \in Entry /\ Sound(d, Invalidated(t[d]))
             /\ Invalidated(t[d]).seq = t[d].seq /\ Invalidated(t[d]).known = t[d].known
  <2> DEFINE e == Invalidated(t[d])
  <2>1. /\ e \in Entry /\ e.flag = "INVALID" /\ e.hop = t[d].hop /\ e.next = t[d].next
        /\ e.seq = t[d].seq /\ e.known = t[d].known
    <3> DEFINE a == t[d]
    <3>1. a \in Entry /\ 0 \in 0 .. CntMod - 1 /\ "INVALID" \in RouteFlag
      BY <1>1 DEF RingAssumption, RouteFlag
    <3> HIDE DEF a
    <3>2. /\ Invalidated(a) \in Entry /\ Invalidated(a).flag = "INVALID"
          /\ Invalidated(a).hop = a.hop /\ Invalidated(a).next = a.next
          /\ Invalidated(a).seq = a.seq /\ Invalidated(a).known = a.known
      BY <3>1 DEF Invalidated, Entry
    <3> QED
      BY <3>2 DEF a
  <2> HIDE DEF e
  <2>2. Sound(d, e)
    BY <1>1, <1>2, <2>1 DEF Sound, HasValid
  <2> QED
    BY <2>1, <2>2 DEF e
<1>3. /\ DOMAIN t = Node
      /\ u = [d \in Node |-> IF d \in lost /\ HasValid(t, d)
                             THEN Invalidated(t[d]) ELSE t[d]]
  BY <1>1 DEF Table, InvalidateRoutesWithDst
<1> HIDE DEF u
<1> QED
  BY <1>1, <1>2, <1>3 DEF Good, Table, u

LEMMA RerrSent ==
  ASSUME NetworkAssumption, NEW n \in Node, NEW t, NEW lost \in SUBSET Node, NEW prec
  PROVE  Sends(n, SendRerrMessage(n, t, lost, prec))
<1> DEFINE body == [type |-> "RERR", lost |-> lost]
<1>1. body \in Rerr
  BY DEF Rerr
<1>2. SendRerrMessage(n, t, lost, prec)
        \in {{}, UNION {Unicast(n, p, body) : p \in prec}, Broadcast(n, body)}
  BY DEF SendRerrMessage
<1> HIDE DEF body
<1>3. \A p \in prec : Sends(n, Unicast(n, p, body))
  BY <1>1, RestSent
<1>4. Sends(n, UNION {Unicast(n, p, body) : p \in prec})
  BY <1>3 DEF Sends
<1>5. Sends(n, Broadcast(n, body))
  BY <1>1, RestSent
<1> QED
  BY <1>2, <1>4, <1>5, SendsNothing

LEMMA RecvErrorHandled ==
  ASSUME NetworkAssumption, RingAssumption, SeqModAssumption, Inv, NEW q \in net,
         RecvError(q.to, q)
  PROVE  Handled(q.to, q)
<1> DEFINE n    == q.to
           m    == q.from
           t    == UpdateRouteToNeighbor(rt[n], m)
           lost == q.body.lost \cap ThroughNextHop(t, m)
           prec == UNION {t[d].prec : d \in lost}
           u    == InvalidateRoutesWithDst(t, lost)
           out  == IF lost = {} THEN {} ELSE SendRerrMessage(n, t, lost, prec)
<1>1. GoodMsg(q) /\ n \in Node /\ m \in Node /\ Good(rt[n])
  BY LinksGood DEF Inv
<1>2. Good(t) /\ \A x \in Node \ {m} : t[x] = rt[n][x]
  BY <1>1, NeighborGood
<1>3. lost \in SUBSET Node
  BY DEF ThroughNextHop
<1>4. Handle(n, q, u, out) /\ UNCHANGED <<seqNo, seen>>
  BY DEF RecvError
<1> HIDE DEF t, lost, prec
<1>5. Good(u) /\ \A d \in Node : u[d].seq = t[d].seq
  BY <1>2, InvalidateGood
<1>6. Sends(n, out)
  BY <1>1, <1>3, RerrSent, SendsNothing
<1> HIDE DEF u, out
<1>7. Proceeds(n, q, u)
  BY <1>1, <1>2, <1>5, OnwardSame DEF Proceeds, Good, Table
<1> QED
  BY <1>4, <1>5, <1>6, <1>7 DEF Handled, Inv, TypeOK

\* A step of one node n without a message: it has a new table t with the
\* sequence numbers it had, and sends out; the other variables keep their types.
Quiet(n, t, out) ==
  /\ Good(t) /\ Sends(n, out)
  /\ rt' = [rt EXCEPT ![n] = t] /\ net' = net \cup out
  /\ \A d \in Node : t[d].seq = rt[n][d].seq \/ ~t[d].known

RestTyped ==
  /\ seqNo' \in [Node -> SeqNo] /\ reqId' \in [Node -> Nat]
  /\ seen' \in [Node -> SUBSET (Node \X Nat)]
  /\ requests' \in 0 .. MaxRequests /\ faults' \in 0 .. MaxFaults

LEMMA QuietStepKeeps ==
  ASSUME NetworkAssumption, SeqModAssumption, Inv, NEW n \in Node, NEW t, NEW out,
         Quiet(n, t, out), RestTyped
  PROVE  Inv' /\ SeqStep
<1> USE DEF Quiet, RestTyped
<1>1. rt \in [Node -> Table] /\ \A x \in Node : Good(rt[x])
  BY DEF Inv, TypeOK, Table
<1>2. /\ rt' \in [Node -> [Node -> Entry]]
      /\ \A x \in Node : Good(rt'[x])
  BY <1>1 DEF Good, Table
<1>3. \A x \in net' : GoodMsg(x)
  BY DEF Sends, Inv
<1>4. Inv'
  BY <1>2, <1>3 DEF Inv, TypeOK, GoodMsg
<1>5. SeqStep
  <2> SUFFICES ASSUME NEW x \in Node, NEW d \in Node, rt[x][d].known, rt'[x][d].known
               PROVE  ~Newer(rt[x][d].seq, rt'[x][d].seq)
    BY DEF SeqStep
  <2>1. rt[x][d].seq \in SeqNo /\ rt'[x][d].seq = rt[x][d].seq
    BY <1>1 DEF Table, Entry
  <2> QED
    BY <2>1, NewerIrreflexive
<1> QED
  BY <1>4, <1>5

\* A search makes an entry of at least two hops of one that has a number.
LEMMA SearchingSound ==
  ASSUME RingAssumption, NetworkAssumption, NEW d, NEW e \in Entry, Sound(d, e)
  PROVE  /\ Searching(e) \in Entry /\ Sound(d, Searching(e))
         /\ Searching(e).seq = e.seq /\ NextTtl(e) \in 1 .. NetDiameter
<1>1. /\ NextTtl(e) \in 1 .. NetDiameter
      /\ e.known => NextTtl(e) >= 2
  <2>1. e.flag # "ABSENT" => e.hop \in Nat \ {0}
    BY DEF Sound, Entry
  <2>2. e.hop \in Nat /\ (e.flag = "ABSENT" => ~e.known)
    BY DEF Sound, Entry
  <2>3. CASE e.flag = "ABSENT"
    BY <2>2, <2>3 DEF NextTtl, RingAssumption
  <2>4. CASE e.flag = "IN_SEARCH"
    BY <2>1, <2>4 DEF NextTtl, RingAssumption, NetworkAssumption
  <2>5. CASE e.flag \notin {"ABSENT", "IN_SEARCH"}
    BY <2>1, <2>5 DEF NextTtl, RingAssumption, NetworkAssumption
  <2> QED
    BY <2>3, <2>4, <2>5
<1>2. NextCnt(e) \in 0 .. CntMod - 1
  BY DEF NextCnt, Bumped, Entry, RingAssumption
<1> DEFINE h == NextTtl(e)
           c == NextCnt(e)
           s == [e EXCEPT !.flag = "IN_SEARCH", !.hop = h, !.cnt = c]
<1>3. s = Searching(e)
  BY DEF Searching
<1> HIDE DEF h, c
<1>4. h \in Nat /\ c \in 0 .. CntMod - 1 /\ h >= 1 /\ (e.known => h >= 2)
  BY <1>1, <1>2 DEF h, c, RingAssumption
<1>5. /\ s \in Entry /\ s.flag = "IN_SEARCH" /\ s.hop = h /\ s.seq = e.seq
      /\ s.next = e.next /\ s.known = e.known
  BY <1>4 DEF Entry, RouteFlag
<1> HIDE DEF s
<1>6. Sound(d, s)
  BY <1>4, <1>5 DEF Sound
<1> QED
  BY <1>1, <1>3, <1>5, <1>6

LEMMA SendRequestKeeps ==
  ASSUME NetworkAssumption, RingAssumption, SeqModAssumption, Inv,
         NEW n \in Node, NEW d \in Node, n # d, SendRequest(n, d)
  PROVE  Inv' /\ SeqStep
<1> DEFINE old  == rt[n][d]
           body == [type |-> "RREQ", origin |-> n, id |-> reqId[n] + 1,
                    oseq |-> (seqNo[n] + 1) % SeqMod, dst |-> d,
                    known |-> old.known, dseq |-> old.seq, hop |-> 0,
                    ttl |-> NextTtl(old)]
           t == [rt[n] EXCEPT ![d] = Searching(old)]
<1>1. /\ Good(rt[n]) /\ rt[n] \in Table /\ old \in Entry /\ Sound(d, old)
      /\ seqNo \in [Node -> SeqNo] /\ reqId \in [Node -> Nat]
      /\ seen \in [Node -> SUBSET (Node \X Nat)] /\ rt \in [Node -> Table]
  BY DEF Inv, TypeOK, Good, Table
<1>2. /\ Searching(old) \in Entry /\ Sound(d, Searching(old))
      /\ Searching(old).seq = old.seq /\ NextTtl(old) \in 1 .. NetDiameter
  BY <1>1, SearchingSound
<1>3. Good(t) /\ \A x \in Node : t[x].seq = rt[n][x].seq
  <2> HIDE DEF old
  <2>1. old = rt[n][d]
    BY DEF old
  <2> QED
    BY <1>1, <1>2, <2>1 DEF Good, Table
<1>4. body \in Rreq /\ body.origin = n /\ body.dst = d
  <2>1. (seqNo[n] + 1) % SeqMod \in SeqNo
    BY <1>1 DEF SeqNo, SeqModAssumption
  <2>2. old.known \in BOOLEAN /\ old.seq \in SeqNo /\ reqId[n] + 1 \in Nat
    BY <1>1 DEF Entry
  <2> HIDE DEF old
  <2> QED
    BY <1>2, <2>1, <2>2 DEF Rreq
<1>5. /\ rt' = [rt EXCEPT ![n] = t]
      /\ net' = net \cup Broadcast(n, body)
      /\ seqNo' = [seqNo EXCEPT ![n] = body.oseq] /\ reqId' = [reqId EXCEPT ![n] = body.id]
      /\ seen' = [seen EXCEPT ![n] = @ \cup {<<n, body.id>>}]
  BY DEF SendRequest
<1>6. body.oseq \in SeqNo /\ body.id \in Nat
  BY <1>4 DEF Rreq
<1> HIDE DEF body, t
<1>7. Sends(n, Broadcast(n, body))
  BY <1>4, RreqSent
<1>8. requests' \in 0 .. MaxRequests /\ faults' \in 0 .. MaxFaults
  BY DEF SendRequest, Inv, TypeOK, NetworkAssumption
<1>9. RestTyped
  BY <1>1, <1>5, <1>6, <1>8 DEF RestTyped
<1>10. Quiet(n, t, Broadcast(n, body))
  BY <1>3, <1>5, <1>7 DEF Quiet
<1> QED
  BY <1>9, <1>10, QuietStepKeeps

LEMMA FaultKeeps ==
  ASSUME NetworkAssumption, RingAssumption, SeqModAssumption, Inv, Fault
  PROVE  Inv' /\ SeqStep
<1>1. /\ rt \in [Node -> Table] /\ \A n \in Node : Good(rt[n])
      /\ seqNo \in [Node -> SeqNo] /\ reqId \in [Node -> Nat]
      /\ seen \in [Node -> SUBSET (Node \X Nat)]
  BY DEF Inv, TypeOK, Table
<1>2. RestTyped
  <2>1. faults > 0 /\ faults' = faults - 1 /\ UNCHANGED <<seqNo, reqId, seen, requests>>
    BY DEF Fault, SendHello, LinkBreaks, Expire, ForwardingFails
  <2>2. requests \in 0 .. MaxRequests /\ faults \in 0 .. MaxFaults
    BY DEF Inv, TypeOK
  <2> QED
    BY <1>1, <2>1, <2>2 DEF RestTyped, NetworkAssumption
<1>3. ASSUME NEW n \in Node, SendHello(n)
      PROVE  Inv' /\ SeqStep
  <2> DEFINE b == [type |-> "RREP", dst |-> n, seq |-> seqNo[n], origin |-> n,
                   hop |-> 0, ttl |-> 1, ack |-> FALSE]
  <2>1. b \in Rrep /\ b.dst = n
    BY <1>1 DEF Rrep
  <2>2. net' = net \cup Broadcast(n, b) /\ rt' = rt
    BY <1>3 DEF SendHello
  <2> HIDE DEF b
  <2>3. Sends(n, Broadcast(n, b))
    BY <2>1, RrepSent
  <2>4. rt' = [rt EXCEPT ![n] = rt[n]]
    BY <1>1, <2>2
  <2>5. Quiet(n, rt[n], Broadcast(n, b))
    BY <1>1, <2>2, <2>3, <2>4 DEF Quiet
  <2> QED
    BY <1>2, <2>5, QuietStepKeeps
<1>4. ASSUME NEW n \in Node, NEW m \in Node, LinkBreaks(n, m)
      PROVE  Inv' /\ SeqStep
  <2> DEFINE t    == rt[n]
             lost == {m} \cup ThroughNextHop(t, m)
             prec == UNION {t[d].prec : d \in lost}
             u    == InvalidateRoutesWithDst(t, lost)
             out  == SendRerrMessage(n, t, lost, prec)
  <2>1. lost \in SUBSET Node
    BY DEF ThroughNextHop
  <2>2. rt' = [rt EXCEPT ![n] = u] /\ net' = net \cup out
    BY <1>4 DEF LinkBreaks
  <2> HIDE DEF lost, prec
  <2>3. Good(u) /\ \A d \in Node : u[d].seq = rt[n][d].seq
    BY <1>1, InvalidateGood
  <2>4. Sends(n, out)
    BY <2>1, RerrSent
  <2> HIDE DEF u, out
  <2>5. Quiet(n, u, out)
    BY <2>2, <2>3, <2>4 DEF Quiet
  <2> QED
    BY <1>2, <2>5, QuietStepKeeps
<1>5. ASSUME NEW n \in Node, NEW d \in Node, Expire(n, d)
      PROVE  Inv' /\ SeqStep
  <2> DEFINE u == InvalidateRoutesWithDst(rt[n], {d})
             v == [rt[n] EXCEPT ![d] = NoRoute]
             t == IF HasValid(rt[n], d) THEN u ELSE v
  <2>1. rt' = [rt EXCEPT ![n] = t]
    <3>1. HasValid(rt[n], d) => u = [rt[n] EXCEPT ![d] = Invalidated(rt[n][d])]
      BY <1>1 DEF InvalidateRoutesWithDst, Table
    <3> QED
      BY <1>1, <1>5, <3>1 DEF Expire, Table
  <2>2. Good(u) /\ \A x \in Node : u[x].seq = rt[n][x].seq
    BY <1>1, InvalidateGood
  <2>3. Good(v) /\ \A x \in Node : v[x].seq = rt[n][x].seq \/ ~v[x].known
    <3>1. Good(v)
      BY <1>1, NoRouteSound DEF Good, Table
    <3> QED
      BY <1>1, <3>1 DEF Table, NoRoute
  <2> HIDE DEF u, v
  <2>4. net' = net \cup {}
    BY <1>5 DEF Expire
  <2>5. Quiet(n, t, {})
    BY <2>1, <2>2, <2>3, <2>4, SendsNothing DEF Quiet
  <2> QED
    BY <1>2, <2>5, QuietStepKeeps
<1>6. ASSUME NEW n \in Node, NEW p \in Node, NEW o \in Node, NEW d \in Node,
             ForwardingFails(n, p, o, d)
      PROVE  Inv' /\ SeqStep
  <2> DEFINE b   == [type |-> "RERR", lost |-> {d}]
             out == IF HasValid(rt[n], o) THEN Unicast(n, rt[n][o].next, b)
                                          ELSE Broadcast(n, b)
  <2>1. b \in Rerr
    BY DEF Rerr
  <2>2. net' = net \cup out /\ rt' = rt
    BY <1>6 DEF ForwardingFails
  <2> HIDE DEF b
  <2>3. Sends(n, out)
    BY <2>1, RestSent
  <2>4. rt' = [rt EXCEPT ![n] = rt[n]]
    BY <1>1, <2>2
  <2> HIDE DEF out
  <2>5. Quiet(n, rt[n], out)
    BY <1>1, <2>2, <2>3, <2>4 DEF Quiet
  <2> QED
    BY <1>2, <2>5, QuietStepKeeps
<1> QED
  BY <1>3, <1>4, <1>5, <1>6 DEF Fault

-----------------------------------------------------------------------------
(* Sequence numbers come from their owners.                                *)

\* What SeqFromOwner says of one table, and of what one message says.
OwnedTable(t) == \A d \in Node : t[d].known => t[d].seq <= seqNo[d]

OwnedBody(b) ==
  /\ b.type = "RREQ" => /\ b.oseq <= seqNo[b.origin]
                        /\ b.known => b.dseq <= seqNo[b.dst]
  /\ b.type = "RREP" => b.seq <= seqNo[b.dst]

Owned(out) == \A q \in out : OwnedBody(q.body)

LEMMA OwnedEverywhere ==
  SeqFromOwner <=> (\A n \in Node : OwnedTable(rt[n])) /\ Owned(net)
  BY DEF SeqFromOwner, OwnedTable, Owned, OwnedBody

LEMMA UpdateOwned ==
  ASSUME NEW t \in Table, OwnedTable(t), NEW d \in Node, NEW e \in Entry,
         e.known => e.seq <= seqNo[d]
  PROVE  OwnedTable(Update(t, d, e)) /\ OwnedTable(AddRoute(t, d, e))
<1>1. Settled(e).known = e.known /\ Settled(e).seq = e.seq
  BY DEF Settled, Entry
<1> QED
  BY <1>1 DEF OwnedTable, Update, AddRoute, Table

LEMMA SameRoutesOwned ==
  ASSUME NEW t, NEW u, SameRoutes(t, u), OwnedTable(t)
  PROVE  OwnedTable(u)
  BY DEF SameRoutes, OwnedTable

LEMMA NeighborOwned ==
  ASSUME RingAssumption, SeqModAssumption, NEW t \in Table, OwnedTable(t), NEW m \in Node
  PROVE  OwnedTable(UpdateRouteToNeighbor(t, m))
<1> DEFINE e == Route(1, FALSE, 0, m)
<1>1. e \in Entry /\ ~e.known
  BY DEF Route, Entry, RouteFlag, RingAssumption, SeqModAssumption, SeqNo
<1> HIDE DEF e
<1>2. OwnedTable(Update(t, m, e)) /\ OwnedTable(AddRoute(t, m, e))
  BY <1>1, UpdateOwned
<1> QED
  BY <1>2 DEF UpdateRouteToNeighbor, e

LEMMA ReverseOwned ==
  ASSUME RingAssumption, SeqModAssumption, NEW t, Good(t), OwnedTable(t), NEW b \in Rreq,
         NEW m \in Node, b.oseq <= seqNo[b.origin]
  PROVE  LET u == ReverseRoute(t, b, m) IN
         OwnedTable(u) /\ u[b.origin].seq <= seqNo[b.origin]
<1> DEFINE o == b.origin
           h == b.hop + 1
           old == t[o]
           num == IF old.known /\ ~Newer(b.oseq, old.seq) THEN old.seq ELSE b.oseq
           e == [old EXCEPT !.seq = num, !.known = TRUE, !.next = m, !.hop = h]
           f == Route(h, TRUE, b.oseq, m)
<1>1. o \in Node /\ b.oseq \in SeqNo /\ h \in Nat /\ t \in Table /\ old \in Entry
  BY DEF Rreq, Good, Table
<1>2. num \in SeqNo /\ num <= seqNo[o]
  BY <1>1 DEF OwnedTable, Entry
<1>3. f \in Entry /\ f.seq = b.oseq
  BY <1>1 DEF Route, Entry, RouteFlag, RingAssumption
<1>4. e \in Entry /\ e.seq = num
  <2> HIDE DEF h, num, old
  <2> QED
    BY <1>1, <1>2 DEF Entry
<1>5. /\ ReverseRoute(t, b, m) = IF Present(t, o) THEN Update(t, o, e) ELSE AddRoute(t, o, f)
      /\ Settled(e).seq = e.seq /\ Settled(f).seq = f.seq
  BY <1>3, <1>4 DEF ReverseRoute, Settled, Entry
<1> HIDE DEF e, f, num
<1>6. /\ OwnedTable(Update(t, o, e)) /\ OwnedTable(AddRoute(t, o, f))
  BY <1>1, <1>2, <1>3, <1>4, UpdateOwned
<1>7. /\ Present(t, o) => Update(t, o, e)[o] = Settled(e)
      /\ ~Present(t, o) => AddRoute(t, o, f)[o] = Settled(f)
  BY <1>1 DEF Update, AddRoute, Table
<1> QED
  BY <1>2, <1>3, <1>4, <1>5, <1>6, <1>7

LEMMA PreviousOwned ==
  ASSUME NEW t \in Table, OwnedTable(t), NEW b \in Rreq, NEW m \in Node
  PROVE  LET u == PreviousHop(t, b, m) IN
         /\ OwnedTable(u)
         /\ \A x \in Node : u[x].seq \in {t[x].seq, IF x = m THEN b.oseq ELSE t[x].seq}
<1> DEFINE e == [t[m] EXCEPT !.flag = "VALID", !.known = FALSE, !.seq = b.oseq,
                             !.hop = 1, !.next = m]
<1>1. t[m] \in Entry /\ b.oseq \in SeqNo
  BY DEF Table, Rreq
<1>2. e \in Entry /\ ~e.known /\ e.seq = b.oseq
  BY <1>1 DEF Entry, RouteFlag
<1>3. PreviousHop(t, b, m) = Update(t, m, e)
  BY DEF PreviousHop
<1> HIDE DEF e
<1>4. OwnedTable(Update(t, m, e)) /\ Settled(e).seq = e.seq
  BY <1>2, UpdateOwned DEF Settled, Entry
<1>5. \A x \in Node : Update(t, m, e)[x] = IF x = m /\ Present(t, m) THEN Settled(e) ELSE t[x]
  BY DEF Update, Table
<1> QED
  BY <1>2, <1>3, <1>4, <1>5

\* The table after the updates of a new request: also the number of the
\* originator, which is not marked known if it sent the request itself.
LEMMA RequestOwned ==
  ASSUME NetworkAssumption, RingAssumption, SeqModAssumption, NEW t, Good(t), OwnedTable(t),
         NEW q, GoodMsg(q), q.body \in Rreq, q.body.type = "RREQ", OwnedBody(q.body)
  PROVE  LET m == q.from
             b == q.body
             u == PreviousHop(ReverseRoute(UpdateRouteToNeighbor(t, m), b, m), b, m)
         IN OwnedTable(u) /\ u[b.origin].seq <= seqNo[b.origin]
<1> DEFINE m == q.from
           b == q.body
           t1 == UpdateRouteToNeighbor(t, m)
           t2 == ReverseRoute(t1, b, m)
           u == PreviousHop(t2, b, m)
<1>1. /\ m \in Node /\ b \in Rreq /\ b.origin \in Node /\ b.oseq <= seqNo[b.origin]
      /\ t \in Table /\ (b.hop = 0 => m = b.origin)
  BY LinksGood DEF GoodMsg, Rreq, OwnedBody, Good
<1> HIDE DEF b, m
<1>2. Good(t1) /\ OwnedTable(t1)
  BY <1>1, NeighborGood, NeighborOwned
<1> HIDE DEF t1
<1>3. Good(t2) /\ OwnedTable(t2) /\ t2[b.origin].seq <= seqNo[b.origin]
  BY <1>1, <1>2, ReverseOwned, ReverseGood
<1> HIDE DEF t2
<1>4. /\ OwnedTable(u)
      /\ \A x \in Node : u[x].seq \in {t2[x].seq, IF x = m THEN b.oseq ELSE t2[x].seq}
  BY <1>1, <1>3, PreviousOwned DEF Good
<1>5. OwnedTable(u) /\ u[b.origin].seq <= seqNo[b.origin]
  BY <1>1, <1>3, <1>4
<1> QED
  BY <1>5 DEF t1, t2, b, m

LEMMA OwnedOver ==
  ASSUME NEW n, NEW m, NEW b, OwnedBody(b)
  PROVE  Owned(Unicast(n, m, b)) /\ Owned(Broadcast(n, b))
  BY DEF Owned, Unicast, Broadcast, Over

LEMMA IntermediateReplyOwned ==
  ASSUME NEW n, NEW t, OwnedTable(t), NEW b \in Rreq, t[b.dst].known,
         t[b.origin].seq <= seqNo[b.origin]
  PROVE  Owned(IntermediateReply(n, t, b))
<1> DEFINE there == t[b.dst]
           back  == t[b.origin]
           near  == there.hop = 1
           R1 == [type |-> "RREP", dst |-> b.dst, seq |-> there.seq,
                  origin |-> b.origin, hop |-> there.hop, ttl |-> back.hop, ack |-> near]
           R2 == [type |-> "RREP", dst |-> b.origin, seq |-> back.seq,
                  origin |-> b.dst, hop |-> back.hop, ttl |-> there.hop, ack |-> FALSE]
<1>1. there.seq <= seqNo[b.dst] /\ back.seq <= seqNo[b.origin]
  BY DEF OwnedTable, Rreq
<1>2. IntermediateReply(n, t, b) =
        Unicast(n, back.next, R1) \cup
        (IF GratuitousReply THEN Unicast(n, there.next, R2) ELSE {})
  BY DEF IntermediateReply
<1> HIDE DEF near, there, back
<1>3. OwnedBody(R1) /\ OwnedBody(R2)
  BY <1>1 DEF OwnedBody
<1> HIDE DEF R1, R2
<1> QED
  BY <1>2, <1>3, OwnedOver DEF Owned

LEMMA RebroadcastOwned ==
  ASSUME NEW n, NEW b \in Rreq, NEW e \in Entry, e.known => e.seq <= seqNo[b.dst],
         OwnedBody(b)
  PROVE  Owned(Rebroadcast(n, e, b))
<1> DEFINE asked == IF FreshEnough(e, b) THEN [b EXCEPT !.known = TRUE, !.dseq = e.seq]
                                         ELSE b
           r == [asked EXCEPT !.hop = @ + 1, !.ttl = @ - 1]
<1>1. b.type = "RREQ"
  BY DEF Rreq
<1>2. /\ asked.type = "RREQ" /\ asked.origin = b.origin /\ asked.dst = b.dst
      /\ asked.oseq = b.oseq /\ asked.known => asked.dseq <= seqNo[b.dst]
  BY <1>1 DEF Rreq, FreshEnough, OwnedBody
<1>3. /\ r.type = asked.type /\ r.origin = asked.origin /\ r.dst = asked.dst
      /\ r.oseq = asked.oseq /\ r.known = asked.known /\ r.dseq = asked.dseq
  <2>1. asked \in Rreq
    BY DEF Rreq, Entry
  <2> HIDE DEF asked
  <2> QED
    BY <2>1 DEF Rreq
<1>4. OwnedBody(r)
  BY <1>1, <1>2, <1>3 DEF OwnedBody
<1>5. Rebroadcast(n, e, b) \in {{}, Broadcast(n, r)}
  BY DEF Rebroadcast
<1> HIDE DEF r
<1> QED
  BY <1>4, <1>5, OwnedOver DEF Owned

\* A handler that leaves the node's own number alone keeps all that is said.
OwnedStep(n, q) ==
  /\ \E t, out : Handle(n, q, t, out) /\ OwnedTable(t) /\ Owned(out)
  /\ UNCHANGED seqNo

LEMMA OwnedStepKeeps ==
  ASSUME TypeOK, SeqFromOwner, NEW n \in Node, NEW q, OwnedStep(n, q)
  PROVE  SeqFromOwner'
<1>1. PICK t, out : Handle(n, q, t, out) /\ OwnedTable(t) /\ Owned(out)
  BY DEF OwnedStep
<1>2. /\ rt' = [rt EXCEPT ![n] = t] /\ net' = (net \ {q}) \cup out /\ seqNo' = seqNo
  BY <1>1 DEF Handle, OwnedStep
<1>3. rt'[n] = t /\ \A x \in Node \ {n} : rt'[x] = rt[x]
  BY <1>2 DEF TypeOK
<1>4. \A x, d \in Node : rt'[x][d].known => rt'[x][d].seq <= seqNo'[d]
  BY <1>1, <1>2, <1>3, OwnedEverywhere DEF OwnedTable
<1>5. \A x \in net' :
        /\ x.body.type = "RREQ" => /\ x.body.oseq <= seqNo'[x.body.origin]
                                   /\ x.body.known => x.body.dseq <= seqNo'[x.body.dst]
        /\ x.body.type = "RREP" => x.body.seq <= seqNo'[x.body.dst]
  BY <1>1, <1>2, OwnedEverywhere DEF Owned, OwnedBody
<1> QED
  BY <1>4, <1>5 DEF SeqFromOwner

\* The number of n is not the last one before they wrap.
Unwrapped == \A n \in Node : seqNo[n] + 1 < SeqMod

\* A destination never takes its next number from a request: nobody has
\* heard of that number.
LEMMA RecvRequestOwned ==
  ASSUME NetworkAssumption, RingAssumption, SeqModAssumption, Inv, SeqFromOwner, Unwrapped,
         NEW q \in net, RecvRequest(q.to, q)
  PROVE  OwnedStep(q.to, q)
<1> DEFINE n  == q.to
           m  == q.from
           b  == q.body
           t1 == UpdateRouteToNeighbor(rt[n], m)
           t3 == PreviousHop(ReverseRoute(t1, b, m), b, m)
           there == t3[b.dst]
           t4 == WithPrecursor(Update(t3, b.dst,
                   [there EXCEPT !.prec = @ \cup {t3[b.origin].next}]),
                   b.origin, there.next)
           seq == IF b.known /\ b.dseq = (seqNo[n] + 1) % SeqMod
                  THEN b.dseq ELSE seqNo[n]
<1>1. /\ GoodMsg(q) /\ b.type = "RREQ" /\ b \in Rreq
      /\ n \in Node /\ m \in Node /\ Good(rt[n])
      /\ b.origin \in Node /\ b.dst \in Node /\ b.dseq \in SeqNo
  BY MsgTypes, LinksGood DEF Inv, GoodMsg, RecvRequest, Rreq
<1>2. OwnedTable(rt[n]) /\ OwnedBody(b) /\ rt[n] \in Table
  BY <1>1, OwnedEverywhere DEF Owned, Good
<1>3. OwnedTable(t1)
  BY <1>1, <1>2, NeighborOwned
<1>4. OwnedTable(t3) /\ t3[b.origin].seq <= seqNo[b.origin]
  BY <1>1, <1>2, RequestOwned
<1>5. Good(t3) /\ t3[b.origin].next = m
  BY <1>1, RequestGood
<1>6. b.dst = n => seq = seqNo[n]
  <2>1. seqNo[n] \in SeqNo
    BY <1>1 DEF Inv, TypeOK
  <2>2. (seqNo[n] + 1) % SeqMod = seqNo[n] + 1
    BY <1>1, <2>1 DEF Unwrapped, SeqNo, SeqModAssumption
  <2>3. b.dst = n /\ b.known => b.dseq <= seqNo[n]
    BY <1>1, <1>2 DEF OwnedBody
  <2> QED
    BY <1>1, <2>1, <2>2, <2>3 DEF SeqNo
<1>7. Owned({})
  BY DEF Owned
<1>8. CASE Handle(n, q, t1, {}) /\ UNCHANGED seqNo
  BY <1>3, <1>7, <1>8 DEF OwnedStep
<1>9. CASE /\ b.dst = n
           /\ seqNo' = [seqNo EXCEPT ![n] = seq]
           /\ Handle(n, q, t3, Unicast(n, t3[b.origin].next, OwnReply(b, seq, t3[b.origin])))
  <2>1. UNCHANGED seqNo
    BY <1>1, <1>6, <1>9 DEF Inv, TypeOK
  <2>2. OwnedBody(OwnReply(b, seq, t3[b.origin]))
    <3>1. seqNo[n] <= seqNo[n]
      BY <1>1 DEF Inv, TypeOK, SeqNo
    <3> HIDE DEF t3, seq
    <3> QED
      BY <1>6, <1>9, <3>1 DEF OwnReply, OwnedBody
  <2> HIDE DEF t3, seq
  <2> QED
    BY <1>4, <1>9, <2>1, <2>2, OwnedOver DEF OwnedStep
<1>10. CASE Handle(n, q, t3, {}) /\ UNCHANGED seqNo
  BY <1>4, <1>7, <1>10 DEF OwnedStep
<1>11. CASE /\ UNCHANGED seqNo /\ HasValid(t3, b.dst) /\ FreshEnough(there, b)
            /\ Handle(n, q, t4, IntermediateReply(n, t3, b))
  <2> DEFINE P == there.prec \cup {t3[b.origin].next}
             s == Update(t3, b.dst, [there EXCEPT !.prec = P])
  <2>1. there.next \in Node /\ P \in SUBSET Node /\ there.known
    <3> HIDE DEF t3
    <3> QED
      BY <1>1, <1>5, <1>11 DEF Good, Table, Sound, HasValid, Entry, FreshEnough
  <2>2. Good(s) /\ SameRoutes(t3, s)
    <3> HIDE DEF t3, P
    <3>1. SameRoutes(t3, t3)
      BY DEF SameRoutes
    <3> QED
      BY <1>1, <1>5, <2>1, <3>1, PrecursorsGood
  <2>3. t4 = WithPrecursor(s, b.origin, there.next)
    OBVIOUS
  <2>4. OwnedTable(t4)
    <3> HIDE DEF s, t3, t4
    <3> QED
      BY <1>4, <2>1, <2>2, <2>3, WithPrecursorGood, SameRoutesOwned
  <2>5. Owned(IntermediateReply(n, t3, b))
    <3> HIDE DEF t3
    <3> QED
      BY <1>1, <1>4, <2>1, IntermediateReplyOwned
  <2> HIDE DEF t3, t4
  <2> QED
    BY <1>11, <2>4, <2>5 DEF OwnedStep
<1>12. CASE /\ UNCHANGED seqNo
            /\ Handle(n, q, t3, Rebroadcast(n, there, b))
  <2> HIDE DEF t3
  <2>1. there \in Entry /\ (there.known => there.seq <= seqNo[b.dst])
    BY <1>1, <1>4, <1>5 DEF Good, Table, OwnedTable
  <2>2. Owned(Rebroadcast(n, there, b))
    <3> HIDE DEF there, b
    <3> QED
      BY <1>1, <1>2, <2>1, RebroadcastOwned
  <2> QED
    BY <1>4, <1>12, <2>2 DEF OwnedStep
<1> QED
  BY <1>8, <1>9, <1>10, <1>11, <1>12 DEF RecvRequest

LEMMA RecvReplyOwned ==
  ASSUME NetworkAssumption, RingAssumption, SeqModAssumption, Inv, SeqFromOwner,
         NEW q \in net, RecvReply(q.to, q)
  PROVE  OwnedStep(q.to, q)
<1> DEFINE n  == q.to
           m  == q.from
           b  == q.body
           t1 == UpdateRouteToNeighbor(rt[n], m)
           new == Route(b.hop + 1, TRUE, b.seq, m)
           t2 == IF ~Present(t1, b.dst) THEN AddRoute(t1, b.dst, new)
                 ELSE IF Better(t1[b.dst], b.hop + 1, b.seq)
                      THEN Update(t1, b.dst, new) ELSE t1
           t3 == Update(t2, b.dst, new)
           back == t2[b.origin]
           ack == IF b.ack THEN Unicast(n, m, [type |-> "RREP_ACK"]) ELSE {}
           f   == [b EXCEPT !.hop = @ + 1, !.ttl = @ - 1, !.ack = FALSE]
           on  == IF b.ttl < 2 THEN {} ELSE Unicast(n, back.next, f)
<1>1. /\ GoodMsg(q) /\ b.type = "RREP" /\ b \in Rrep
      /\ n \in Node /\ m \in Node /\ Good(rt[n])
      /\ b.dst \in Node /\ (b.hop = 0 => m = b.dst)
  BY MsgTypes, LinksGood DEF Inv, GoodMsg, RecvReply, Rrep
<1>2. OwnedTable(rt[n]) /\ OwnedBody(b) /\ rt[n] \in Table
  BY <1>1, OwnedEverywhere DEF Owned, Good
<1>3. Good(t1) /\ OwnedTable(t1)
  BY <1>1, <1>2, NeighborGood, NeighborOwned
<1>4. Good(t2) /\ t2[b.dst].known /\ new \in Entry
  <2> HIDE DEF t1, b, m
  <2> QED
    BY <1>1, <1>3, ReplyUpdateGood
<1>5. new.seq <= seqNo[b.dst]
  BY <1>1, <1>2 DEF Route, OwnedBody
<1>6. OwnedTable(t2)
  <2> HIDE DEF new, t1, b
  <2> QED
    BY <1>1, <1>3, <1>4, <1>5, UpdateOwned DEF Good
<1>7. OwnedTable(t3)
  <2> HIDE DEF new, t2, b
  <2> QED
    BY <1>1, <1>4, <1>5, <1>6, UpdateOwned DEF Good
<1>8. Owned(ack) /\ Owned(on)
  <2>1. Owned({})
    BY DEF Owned
  <2>2. OwnedBody([type |-> "RREP_ACK"])
    BY DEF OwnedBody
  <2>3. f.type = b.type /\ f.seq = b.seq /\ f.dst = b.dst
    BY <1>1 DEF Rrep
  <2>4. OwnedBody(f)
    BY <1>1, <1>2, <2>3 DEF OwnedBody
  <2> HIDE DEF f
  <2> QED
    BY <2>1, <2>2, <2>4, OwnedOver
<1>9. ~NoWayBack(back) => OwnedTable(WithPrecursors(t2, b))
  <2> HIDE DEF t2
  <2> QED
    BY <1>1, <1>4, <1>6, WithPrecursorsGood, SameRoutesOwned
<1>10. UNCHANGED seqNo
  BY DEF RecvReply
<1>11. Owned(ack \cup on)
  BY <1>8 DEF Owned
<1>12. \/ Handle(n, q, t3, ack) \/ Handle(n, q, t2, ack)
       \/ ~NoWayBack(back) /\ Handle(n, q, WithPrecursors(t2, b), ack \cup on)
  BY DEF RecvReply
<1> HIDE DEF t2, t3, ack, on, n, b
<1>13. OwnedStep(n, q)
  BY <1>6, <1>7, <1>8, <1>9, <1>10, <1>11, <1>12 DEF OwnedStep
<1> QED
  BY <1>13 DEF n

LEMMA ProcessHelloOwned ==
  ASSUME NetworkAssumption, RingAssumption, SeqModAssumption, Inv, SeqFromOwner,
         NEW q \in net, ProcessHello(q.to, q)
  PROVE  OwnedStep(q.to, q)
<1> DEFINE n == q.to
           d == q.body.dst
           t == UpdateRouteToNeighbor(rt[n], q.from)
           e == [t[d] EXCEPT !.flag = "VALID", !.known = TRUE,
                             !.seq = q.body.seq, !.hop = 1, !.next = d]
<1>1. /\ GoodMsg(q) /\ q.body \in Rrep /\ q.body.type = "RREP"
      /\ n \in Node /\ q.from \in Node /\ d \in Node /\ Good(rt[n]) /\ q.body.seq \in SeqNo
  BY MsgTypes, LinksGood DEF Inv, GoodMsg, ProcessHello, Rrep
<1>2. OwnedTable(rt[n]) /\ OwnedBody(q.body) /\ rt[n] \in Table
  BY <1>1, OwnedEverywhere DEF Owned, Good
<1>3. Good(t) /\ OwnedTable(t)
  BY <1>1, <1>2, NeighborGood, NeighborOwned
<1>4. Handle(n, q, Update(t, d, e), {}) /\ UNCHANGED seqNo
  BY DEF ProcessHello
<1> HIDE DEF t
<1>5. e \in Entry /\ e.seq = q.body.seq
  <2>1. t[d] \in Entry
    BY <1>1, <1>3 DEF Good, Table
  <2> QED
    BY <1>1, <2>1 DEF Entry, RouteFlag
<1> HIDE DEF e
<1>6. OwnedTable(Update(t, d, e))
  BY <1>1, <1>2, <1>3, <1>5, UpdateOwned DEF Good, OwnedBody
<1> QED
  BY <1>4, <1>6 DEF OwnedStep, Owned

LEMMA RecvReplyAckOwned ==
  ASSUME NetworkAssumption, RingAssumption, SeqModAssumption, Inv, SeqFromOwner,
         NEW q \in net, RecvReplyAck(q.to, q)
  PROVE  OwnedStep(q.to, q)
<1> DEFINE n == q.to
           m == q.from
           t == UpdateRouteToNeighbor(rt[n], m)
           e == [t[m] EXCEPT !.flag = "VALID"]
<1>1. n \in Node /\ m \in Node /\ Good(rt[n]) /\ rt[n] \in Table /\ OwnedTable(rt[n])
  BY LinksGood, OwnedEverywhere DEF Inv, Good
<1>2. Good(t) /\ OwnedTable(t)
  BY <1>1, NeighborGood, NeighborOwned
<1>3. Handle(n, q, Update(t, m, e), {}) /\ UNCHANGED seqNo
  BY DEF RecvReplyAck
<1> HIDE DEF t
<1>4. e \in Entry /\ e.known = t[m].known /\ e.seq = t[m].seq
  <2>1. t[m] \in Entry
    BY <1>1, <1>2 DEF Good, Table
  <2> QED
    BY <2>1 DEF Entry, RouteFlag
<1> HIDE DEF e
<1>5. OwnedTable(Update(t, m, e))
  BY <1>1, <1>2, <1>4, UpdateOwned DEF Good, OwnedTable
<1> QED
  BY <1>3, <1>5 DEF OwnedStep, Owned

LEMMA RerrOwned ==
  ASSUME NEW n, NEW t, NEW lost, NEW prec
  PROVE  Owned(SendRerrMessage(n, t, lost, prec))
<1> DEFINE body == [type |-> "RERR", lost |-> lost]
<1>1. OwnedBody(body)
  BY DEF OwnedBody
<1>2. SendRerrMessage(n, t, lost, prec)
        \in {{}, UNION {Unicast(n, p, body) : p \in prec}, Broadcast(n, body)}
  BY DEF SendRerrMessage
<1> HIDE DEF body
<1>3. \A p \in prec : Owned(Unicast(n, p, body))
  BY <1>1, OwnedOver
<1>4. Owned(Broadcast(n, body))
  BY <1>1, OwnedOver
<1> QED
  BY <1>2, <1>3, <1>4 DEF Owned

LEMMA InvalidateOwned ==
  ASSUME RingAssumption, NEW t, Good(t), OwnedTable(t), NEW lost
  PROVE  OwnedTable(InvalidateRoutesWithDst(t, lost))
  BY InvalidateGood DEF OwnedTable

LEMMA RecvErrorOwned ==
  ASSUME NetworkAssumption, RingAssumption, SeqModAssumption, Inv, SeqFromOwner,
         NEW q \in net, RecvError(q.to, q)
  PROVE  OwnedStep(q.to, q)
<1> DEFINE n    == q.to
           t    == UpdateRouteToNeighbor(rt[n], q.from)
           lost == q.body.lost \cap ThroughNextHop(t, q.from)
           prec == UNION {t[d].prec : d \in lost}
           out  == IF lost = {} THEN {} ELSE SendRerrMessage(n, t, lost, prec)
<1>1. n \in Node /\ q.from \in Node /\ Good(rt[n]) /\ rt[n] \in Table /\ OwnedTable(rt[n])
  BY LinksGood, OwnedEverywhere DEF Inv, Good
<1>2. Good(t) /\ OwnedTable(t)
  BY <1>1, NeighborGood, NeighborOwned
<1>3. Handle(n, q, InvalidateRoutesWithDst(t, lost), out) /\ UNCHANGED seqNo
  BY DEF RecvError
<1> HIDE DEF t, lost, prec
<1>4. OwnedTable(InvalidateRoutesWithDst(t, lost)) /\ Owned(out)
  BY <1>2, InvalidateOwned, RerrOwned DEF Owned
<1> HIDE DEF out
<1> QED
  BY <1>3, <1>4 DEF OwnedStep

\* A new request: the only step that raises a number, and only its owner's.
LEMMA SendRequestOwned ==
  ASSUME NetworkAssumption, RingAssumption, SeqModAssumption, Inv, SeqFromOwner, Unwrapped,
         NEW n \in Node, NEW d \in Node, n # d, SendRequest(n, d)
  PROVE  SeqFromOwner' /\ seqNo' = [seqNo EXCEPT ![n] = @ + 1]
<1> DEFINE old  == rt[n][d]
           ttl  == NextTtl(old)
           body == [type |-> "RREQ", origin |-> n, id |-> reqId[n] + 1,
                    oseq |-> (seqNo[n] + 1) % SeqMod, dst |-> d,
                    known |-> old.known, dseq |-> old.seq, hop |-> 0, ttl |-> ttl]
<1>1. /\ rt \in [Node -> Table] /\ old \in Entry
      /\ seqNo \in [Node -> SeqNo] /\ \A x \in Node : seqNo[x] \in Nat
  BY DEF Inv, TypeOK, Table, SeqNo
<1>2. body.oseq = seqNo[n] + 1
  BY <1>1 DEF Unwrapped, SeqNo, SeqModAssumption
<1>3. /\ rt' = [rt EXCEPT ![n][d] = Searching(old)]
      /\ net' = net \cup Broadcast(n, body)
      /\ seqNo' = [seqNo EXCEPT ![n] = body.oseq]
  BY DEF SendRequest
<1>4. seqNo' = [seqNo EXCEPT ![n] = @ + 1] /\ \A x \in Node : seqNo[x] <= seqNo'[x]
  <2> HIDE DEF body, old
  <2>1. seqNo' = [seqNo EXCEPT ![n] = seqNo[n] + 1]
    BY <1>2, <1>3
  <2>2. \A x \in Node : seqNo'[x] = IF x = n THEN seqNo[x] + 1 ELSE seqNo[x]
    BY <1>1, <2>1
  <2> QED
    BY <1>1, <2>1, <2>2
<1>5. \A x, y \in Node : rt'[x][y].known = rt[x][y].known /\ rt'[x][y].seq = rt[x][y].seq
  <2>1. Searching(old).known = old.known /\ Searching(old).seq = old.seq
    BY <1>1 DEF Searching, Entry
  <2> HIDE DEF old
  <2>2. old = rt[n][d]
    BY DEF old
  <2> QED
    BY <1>1, <1>3, <2>1, <2>2 DEF Table
<1>6. \A x, y \in Node : rt'[x][y].known => rt'[x][y].seq <= seqNo'[y]
  <2> SUFFICES ASSUME NEW x \in Node, NEW y \in Node, rt[x][y].known
               PROVE  rt[x][y].seq <= seqNo'[y]
    BY <1>5
  <2>1. rt[x][y].seq <= seqNo[y] /\ rt[x][y].seq \in SeqNo /\ seqNo'[y] \in Nat
    BY <1>1, <1>4 DEF SeqFromOwner, Table, Entry
  <2> QED
    BY <1>1, <1>4, <2>1 DEF SeqNo
<1>7. ASSUME NEW q \in net
      PROVE  /\ q.body.type = "RREQ" => /\ q.body.oseq <= seqNo'[q.body.origin]
                                        /\ q.body.known => q.body.dseq <= seqNo'[q.body.dst]
             /\ q.body.type = "RREP" => q.body.seq <= seqNo'[q.body.dst]
  <2>1. /\ q.body.type = "RREQ" => /\ q.body.oseq <= seqNo[q.body.origin]
                                   /\ q.body.known => q.body.dseq <= seqNo[q.body.dst]
        /\ q.body.type = "RREP" => q.body.seq <= seqNo[q.body.dst]
    BY DEF SeqFromOwner
  <2>2. GoodMsg(q)
    BY DEF Inv
  <2>3. /\ q.body.type = "RREQ" => /\ q.body.origin \in Node /\ q.body.dst \in Node
                                   /\ q.body.oseq \in Nat /\ q.body.dseq \in Nat
        /\ q.body.type = "RREP" => q.body.dst \in Node /\ q.body.seq \in Nat
    BY <2>2, MsgTypes DEF Rreq, Rrep, SeqNo
  <2>4. \A x \in Node : seqNo'[x] \in Nat
    BY <1>1, <1>4
  <2> QED
    BY <1>1, <1>4, <2>1, <2>3, <2>4
<1>8. /\ body.oseq <= seqNo'[body.origin] /\ body.type = "RREQ"
      /\ body.known => body.dseq <= seqNo'[body.dst]
  <2>1. old.known => old.seq <= seqNo'[d]
    BY <1>5, <1>6
  <2> QED
    BY <1>1, <1>2, <1>4, <2>1
<1> HIDE DEF body, old
<1>9. \A q \in net' :
        /\ q.body.type = "RREQ" => /\ q.body.oseq <= seqNo'[q.body.origin]
                                   /\ q.body.known => q.body.dseq <= seqNo'[q.body.dst]
        /\ q.body.type = "RREP" => q.body.seq <= seqNo'[q.body.dst]
  <2>1. \A q \in Broadcast(n, body) : q.body = body
    BY DEF Broadcast, Over
  <2> QED
    BY <1>3, <1>7, <1>8, <2>1
<1> QED
  BY <1>4, <1>6, <1>9 DEF SeqFromOwner

LEMMA FaultOwned ==
  ASSUME NetworkAssumption, RingAssumption, SeqModAssumption, Inv, SeqFromOwner, Fault
  PROVE  SeqFromOwner'
<1>1. /\ rt \in [Node -> Table] /\ \A n \in Node : Good(rt[n]) /\ OwnedTable(rt[n])
      /\ Owned(net) /\ seqNo' = seqNo /\ \A n \in Node : seqNo[n] \in Nat
  <2>1. seqNo' = seqNo
    BY DEF Fault, SendHello, LinkBreaks, Expire, ForwardingFails
  <2>2. rt \in [Node -> Table] /\ \A n \in Node : seqNo[n] \in Nat
    BY DEF Inv, TypeOK, Table, SeqNo
  <2> QED
    BY <2>1, <2>2, OwnedEverywhere DEF Inv
<1>2. ASSUME \A x \in Node : OwnedTable(rt'[x]), NEW out, net' = net \cup out, Owned(out)
      PROVE  SeqFromOwner'
  <2>1. Owned(net')
    BY <1>1, <1>2 DEF Owned
  <2> QED
    BY <1>1, <1>2, <2>1 DEF SeqFromOwner, OwnedTable, Owned, OwnedBody
<1>3. ASSUME NEW n \in Node, SendHello(n)
      PROVE  SeqFromOwner'
  <2> DEFINE b == [type |-> "RREP", dst |-> n, seq |-> seqNo[n], origin |-> n,
                   hop |-> 0, ttl |-> 1, ack |-> FALSE]
  <2>1. OwnedBody(b)
    BY <1>1 DEF OwnedBody
  <2>2. net' = net \cup Broadcast(n, b) /\ rt' = rt
    BY <1>3 DEF SendHello
  <2> HIDE DEF b
  <2> QED
    BY <1>1, <1>2, <2>1, <2>2, OwnedOver
<1>4. ASSUME NEW n \in Node, NEW m \in Node, LinkBreaks(n, m)
      PROVE  SeqFromOwner'
  <2> DEFINE lost == {m} \cup ThroughNextHop(rt[n], m)
             prec == UNION {rt[n][d].prec : d \in lost}
             u    == InvalidateRoutesWithDst(rt[n], lost)
             out  == SendRerrMessage(n, rt[n], lost, prec)
  <2>1. rt' = [rt EXCEPT ![n] = u] /\ net' = net \cup out
    BY <1>4 DEF LinkBreaks
  <2> HIDE DEF lost, prec
  <2>2. OwnedTable(u) /\ Owned(out)
    BY <1>1, InvalidateOwned, RerrOwned
  <2> HIDE DEF u, out
  <2> QED
    BY <1>1, <1>2, <2>1, <2>2
<1>5. ASSUME NEW n \in Node, NEW d \in Node, Expire(n, d)
      PROVE  SeqFromOwner'
  <2> DEFINE e == IF HasValid(rt[n], d) THEN Invalidated(rt[n][d]) ELSE NoRoute
  <2>1. rt' = [rt EXCEPT ![n][d] = e] /\ net' = net \cup {}
    BY <1>5 DEF Expire
  <2>2. e.known => rt[n][d].known /\ e.seq = rt[n][d].seq
    BY <1>1 DEF Invalidated, NoRoute, Table, Entry
  <2> HIDE DEF e
  <2>3. OwnedTable(rt'[n]) /\ \A x \in Node \ {n} : rt'[x] = rt[x]
    BY <1>1, <2>1, <2>2 DEF OwnedTable, Table
  <2> QED
    BY <1>1, <1>2, <2>1, <2>3 DEF Owned
<1>6. ASSUME NEW n \in Node, NEW p \in Node, NEW o \in Node, NEW d \in Node,
             ForwardingFails(n, p, o, d)
      PROVE  SeqFromOwner'
  <2> DEFINE b   == [type |-> "RERR", lost |-> {d}]
             out == IF HasValid(rt[n], o) THEN Unicast(n, rt[n][o].next, b)
                                          ELSE Broadcast(n, b)
  <2>1. OwnedBody(b)
    BY DEF OwnedBody
  <2>2. net' = net \cup out /\ rt' = rt
    BY <1>6 DEF ForwardingFails
  <2> HIDE DEF b
  <2>3. Owned(out)
    BY <2>1, OwnedOver
  <2> HIDE DEF out
  <2> QED
    BY <1>1, <1>2, <2>2, <2>3
<1> QED
  BY <1>3, <1>4, <1>5, <1>6 DEF Fault

\* Every request takes one number, so no node has issued more than there
\* have been requests.
Issued == \A n \in Node : seqNo[n] + requests <= MaxRequests

LEMMA OwnedKept ==
  ASSUME NetworkAssumption, RingAssumption, SeqModAssumption, MaxRequests + 1 < SeqMod,
         Inv, SeqFromOwner, Issued, [Next]_vars
  PROVE  SeqFromOwner' /\ Issued'
<1>1. /\ seqNo \in [Node -> SeqNo] /\ \A n \in Node : seqNo[n] \in Nat
      /\ requests \in Nat /\ MaxRequests \in Nat /\ SeqMod \in Nat
  BY DEF Inv, TypeOK, SeqNo, NetworkAssumption, SeqModAssumption
<1>2. Unwrapped
  <2> SUFFICES ASSUME NEW n \in Node PROVE seqNo[n] + 1 < SeqMod
    BY DEF Unwrapped
  <2>1. seqNo[n] + requests <= MaxRequests
    BY DEF Issued
  <2> QED
    BY <1>1, <2>1
<1>3. CASE UNCHANGED vars
  BY <1>3 DEF vars, SeqFromOwner, Issued
<1>4. ASSUME NEW w \in Wanted, SendRequest(w[1], w[2])
      PROVE  SeqFromOwner' /\ Issued'
  <2>1. w[1] \in Node /\ w[2] \in Node /\ w[1] # w[2]
    BY DEF NetworkAssumption
  <2>2. SeqFromOwner' /\ seqNo' = [seqNo EXCEPT ![w[1]] = @ + 1]
    BY <1>2, <1>4, <2>1, SendRequestOwned
  <2>3. requests' = requests - 1
    BY <1>4 DEF SendRequest
  <2>4. \A n \in Node : seqNo'[n] <= seqNo[n] + 1 /\ seqNo'[n] \in Nat
    BY <1>1, <2>1, <2>2
  <2>5. Issued'
    <3> SUFFICES ASSUME NEW n \in Node PROVE seqNo'[n] + requests' <= MaxRequests
      BY DEF Issued
    <3>1. seqNo[n] + requests <= MaxRequests
      BY DEF Issued
    <3> QED
      BY <1>1, <2>3, <2>4, <3>1
  <2> QED
    BY <2>2, <2>5
<1>5. ASSUME NEW q \in net, Deliver(q.to, q)
      PROVE  SeqFromOwner' /\ Issued'
  <2>1. OwnedStep(q.to, q)
    BY <1>2, <1>5, RecvRequestOwned, RecvReplyOwned, ProcessHelloOwned,
       RecvReplyAckOwned, RecvErrorOwned DEF Deliver
  <2>2. SeqFromOwner'
    BY <2>1, LinksGood, OwnedStepKeeps DEF Inv
  <2>3. seqNo' = seqNo /\ requests' = requests
    BY <2>1 DEF OwnedStep, Handle
  <2> QED
    BY <2>2, <2>3 DEF Issued
<1>6. CASE Fault
  <2>1. seqNo' = seqNo /\ requests' = requests
    BY <1>6 DEF Fault, SendHello, LinkBreaks, Expire, ForwardingFails
  <2> QED
    BY <1>6, <2>1, FaultOwned DEF Issued
<1> QED
  BY <1>3, <1>4, <1>5, <1>6 DEF Next

-----------------------------------------------------------------------------
(* Next hops, and how routes are lost.                                     *)

Routed(e) == e.flag \in {"VALID", "INVALID"}

\* The entry for d follows the sender m, or goes where it went.
Follows(t, u, m) ==
  \A d \in Node : Routed(u[d]) => \/ u[d].next = m
                                  \/ Routed(t[d]) /\ u[d].next = t[d].next

\* The valid routes of t are valid routes of u.
Keeps(t, u) == \A d \in Node : HasValid(t, d) => HasValid(u, d)

\* What a handler may do to the table when m has sent a message.
Learns(t, u, m) == Follows(t, u, m) /\ Keeps(t, u)

LEMMA LearnsTrans ==
  ASSUME NEW t, NEW u, NEW v, NEW m, Learns(t, u, m), Learns(u, v, m)
  PROVE  Learns(t, v, m)
  BY DEF Learns, Follows, Keeps

LEMMA SameLearns ==
  ASSUME NEW t, NEW u, NEW m, SameRoutes(t, u)
  PROVE  Learns(t, u, m)
  BY DEF Learns, Follows, Keeps, SameRoutes, Routed, HasValid

LEMMA UpdateLearns ==
  ASSUME NEW t \in Table, NEW d \in Node, NEW e \in Entry, NEW m,
         Routed(e) => e.next = m \/ (Routed(t[d]) /\ e.next = t[d].next),
         e.flag = "VALID" \/ ~HasValid(t, d)
  PROVE  Learns(t, Update(t, d, e), m) /\ Learns(t, AddRoute(t, d, e), m)
<1>1. Settled(e).flag = e.flag /\ Settled(e).next = e.next
  BY DEF Settled, Entry
<1>2. /\ Update(t, d, e) \in {t, [t EXCEPT ![d] = Settled(e)]}
      /\ AddRoute(t, d, e) \in {t, [t EXCEPT ![d] = Settled(e)]}
  BY DEF Update, AddRoute
<1>3. Learns(t, [t EXCEPT ![d] = Settled(e)], m)
  <2> DEFINE s == Settled(e)
             u == [t EXCEPT ![d] = s]
  <2>1. u[d] = s /\ \A x \in Node \ {d} : u[x] = t[x]
    BY DEF Table
  <2> HIDE DEF s, u
  <2>2. s.flag = e.flag /\ s.next = e.next
    BY <1>1 DEF s
  <2>3. Learns(t, u, m)
    BY <2>1, <2>2 DEF Learns, Follows, Keeps, Routed, HasValid
  <2> QED
    BY <2>3 DEF u, s
<1>4. Learns(t, t, m)
  BY DEF Learns, Follows, Keeps
<1> QED
  BY <1>2, <1>3, <1>4

LEMMA NeighborLearns ==
  ASSUME RingAssumption, SeqModAssumption, NEW t \in Table, NEW m \in Node
  PROVE  Learns(t, UpdateRouteToNeighbor(t, m), m)
<1> DEFINE e == Route(1, FALSE, 0, m)
<1>1. e \in Entry /\ e.next = m /\ e.flag = "VALID"
  BY DEF Route, Entry, RouteFlag, RingAssumption, SeqModAssumption, SeqNo
<1> HIDE DEF e
<1>2. Learns(t, Update(t, m, e), m) /\ Learns(t, AddRoute(t, m, e), m)
  BY <1>1, UpdateLearns
<1>3. Learns(t, t, m)
  BY DEF Learns, Follows, Keeps
<1>4. UpdateRouteToNeighbor(t, m) \in {t, Update(t, m, e), AddRoute(t, m, e)}
  BY DEF UpdateRouteToNeighbor, e
<1> QED
  BY <1>2, <1>3, <1>4

LEMMA ReverseLearns ==
  ASSUME RingAssumption, NEW t \in Table, NEW b \in Rreq, NEW m \in Node
  PROVE  Learns(t, ReverseRoute(t, b, m), m)
<1> DEFINE o == b.origin
           old == t[o]
           num == IF old.known /\ ~Newer(b.oseq, old.seq) THEN old.seq ELSE b.oseq
           h == b.hop + 1
           e == [old EXCEPT !.seq = num, !.known = TRUE, !.next = m, !.hop = h]
           f == Route(h, TRUE, b.oseq, m)
<1>1. o \in Node /\ b.oseq \in SeqNo /\ h \in Nat /\ old \in Entry
  BY DEF Rreq, Table
<1>2. num \in SeqNo
  BY <1>1 DEF Entry
<1>3. ReverseRoute(t, b, m) = IF ~Present(t, o) THEN AddRoute(t, o, f) ELSE Update(t, o, e)
  BY DEF ReverseRoute
<1> HIDE DEF h, num, o
<1>4. f \in Entry /\ f.next = m /\ f.flag = "VALID"
  BY <1>1 DEF Route, Entry, RouteFlag, RingAssumption
<1> HIDE DEF old, f
<1>5. e \in Entry /\ e.next = m /\ e.flag = old.flag
  BY <1>1, <1>2 DEF Entry
<1> HIDE DEF e
<1>6. Learns(t, AddRoute(t, o, f), m)
  BY <1>1, <1>4, UpdateLearns
<1>7. e.flag = "VALID" \/ ~HasValid(t, o)
  BY <1>5 DEF HasValid, old
<1>8. Learns(t, Update(t, o, e), m)
  BY <1>1, <1>5, <1>7, UpdateLearns
<1> QED
  BY <1>3, <1>6, <1>8

LEMMA PreviousLearns ==
  ASSUME NEW t \in Table, NEW b \in Rreq, NEW m \in Node
  PROVE  Learns(t, PreviousHop(t, b, m), m)
<1> DEFINE e == [t[m] EXCEPT !.flag = "VALID", !.known = FALSE, !.seq = b.oseq,
                             !.hop = 1, !.next = m]
<1>1. t[m] \in Entry /\ b.oseq \in SeqNo
  BY DEF Table, Rreq
<1>2. e \in Entry /\ e.flag = "VALID" /\ e.next = m
  BY <1>1 DEF Entry, RouteFlag
<1>3. PreviousHop(t, b, m) = Update(t, m, e)
  BY DEF PreviousHop
<1> HIDE DEF e
<1> QED
  BY <1>2, <1>3, UpdateLearns

\* The table after the updates every new request makes.
LEMMA RequestLearns ==
  ASSUME NetworkAssumption, RingAssumption, SeqModAssumption, NEW t, Good(t),
         NEW q, GoodMsg(q), q.body \in Rreq
  PROVE  LET m == q.from
             b == q.body
         IN Learns(t, PreviousHop(ReverseRoute(UpdateRouteToNeighbor(t, m), b, m), b, m), m)
<1> DEFINE m == q.from
           b == q.body
           t1 == UpdateRouteToNeighbor(t, m)
           t2 == ReverseRoute(t1, b, m)
<1>1. m \in Node /\ b \in Rreq /\ (b.hop = 0 => m = b.origin)
  BY LinksGood DEF GoodMsg, Rreq
<1>2. Good(t1) /\ Learns(t, t1, m)
  BY <1>1, NeighborGood, NeighborLearns DEF Good
<1> HIDE DEF t1
<1>3. Good(t2) /\ Learns(t1, t2, m)
  <2> HIDE DEF b, m
  <2> QED
    BY <1>1, <1>2, ReverseGood, ReverseLearns DEF Good
<1> HIDE DEF t2
<1>4. Learns(t2, PreviousHop(t2, b, m), m)
  BY <1>1, <1>3, PreviousLearns DEF Good
<1>5. Learns(t, PreviousHop(t2, b, m), m)
  BY <1>2, <1>3, <1>4, LearnsTrans
<1> QED
  BY <1>5 DEF t2, t1

\* Every valid route of n is one of t, or q is an error that takes it away.
LossesNamed(n, q, t) ==
  \A d \in Node : HasValid(rt[n], d) =>
    \/ HasValid(t, d)
    \/ q.body.type = "RERR" /\ d \in q.body.lost /\ q.from \in {d, rt[n][d].next}

\* How n's table changes when it takes q.
Heeds(n, q) ==
  \E t, out : Handle(n, q, t, out) /\ Follows(rt[n], t, q.from) /\ LossesNamed(n, q, t)

LEMMA LearnsHeeds ==
  ASSUME NEW n, NEW q, NEW t, NEW out, Handle(n, q, t, out), Learns(rt[n], t, q.from)
  PROVE  Heeds(n, q)
  BY DEF Heeds, Learns, Keeps, LossesNamed

LEMMA RecvRequestHeeds ==
  ASSUME NetworkAssumption, RingAssumption, SeqModAssumption, Inv, NEW q \in net,
         RecvRequest(q.to, q)
  PROVE  Heeds(q.to, q)
<1> DEFINE n  == q.to
           m  == q.from
           b  == q.body
           t1 == UpdateRouteToNeighbor(rt[n], m)
           t3 == PreviousHop(ReverseRoute(t1, b, m), b, m)
           there == t3[b.dst]
           t4 == WithPrecursor(Update(t3, b.dst,
                   [there EXCEPT !.prec = @ \cup {t3[b.origin].next}]),
                   b.origin, there.next)
<1>1. /\ GoodMsg(q) /\ b \in Rreq /\ n \in Node /\ m \in Node /\ Good(rt[n])
      /\ b.origin \in Node /\ b.dst \in Node
  BY MsgTypes, LinksGood DEF Inv, GoodMsg, RecvRequest, Rreq
<1>2. Learns(rt[n], t1, m)
  BY <1>1, NeighborLearns DEF Good
<1>3. /\ Good(t3) /\ Learns(rt[n], t3, m) /\ t3[b.origin].next \in Node
  BY <1>1, RequestGood, RequestLearns DEF RecvRequest
<1>4. CASE \E out : Handle(n, q, t1, out)
  <2> HIDE DEF t1
  <2> QED
    BY <1>2, <1>4, LearnsHeeds
<1>5. CASE \E out : Handle(n, q, t3, out)
  <2> HIDE DEF t3
  <2> QED
    BY <1>3, <1>5, LearnsHeeds
<1>6. CASE HasValid(t3, b.dst) /\ \E out : Handle(n, q, t4, out)
  <2> DEFINE P == there.prec \cup {t3[b.origin].next}
             s == Update(t3, b.dst, [there EXCEPT !.prec = P])
  <2> HIDE DEF t3
  <2>1. there \in Entry /\ there.next \in Node /\ P \in SUBSET Node
    BY <1>1, <1>3, <1>6 DEF Good, Table, Sound, HasValid, Entry
  <2>2. t4 = WithPrecursor(s, b.origin, there.next)
    OBVIOUS
  <2>3. Good(s) /\ SameRoutes(t3, s)
    <3> HIDE DEF P
    <3>1. SameRoutes(t3, t3)
      BY DEF SameRoutes
    <3> QED
      BY <1>1, <1>3, <2>1, <3>1, PrecursorsGood
  <2>4. SameRoutes(t3, t4)
    <3> HIDE DEF s, t4
    <3> QED
      BY <2>1, <2>2, <2>3, WithPrecursorGood, SameRoutesTrans
  <2> HIDE DEF t4
  <2>5. Learns(rt[n], t4, m)
    BY <1>3, <2>4, SameLearns, LearnsTrans
  <2> QED
    BY <1>6, <2>5, LearnsHeeds
<1> QED
  <2>1. \/ Handle(n, q, t1, {})
        \/ Handle(n, q, t3, {})
        \/ \E seq : Handle(n, q, t3, Unicast(n, t3[b.origin].next,
                                             OwnReply(b, seq, t3[b.origin])))
        \/ Handle(n, q, t3, Rebroadcast(n, there, b))
        \/ HasValid(t3, b.dst) /\ Handle(n, q, t4, IntermediateReply(n, t3, b))
    BY DEF RecvRequest
  <2> HIDE DEF t1, t3, t4, there
  <2> QED
    BY <1>4, <1>5, <1>6, <2>1

\* The table after a reply's own update.
LEMMA ReplyLearns ==
  ASSUME RingAssumption, NEW t \in Table, NEW b \in Rrep, NEW m \in Node
  PROVE  LET new == Route(b.hop + 1, TRUE, b.seq, m)
         IN /\ Learns(t, Update(t, b.dst, new), m)
            /\ Learns(t, IF ~Present(t, b.dst) THEN AddRoute(t, b.dst, new)
                         ELSE IF Better(t[b.dst], b.hop + 1, b.seq)
                              THEN Update(t, b.dst, new) ELSE t, m)
<1> DEFINE h == b.hop + 1
           new == Route(h, TRUE, b.seq, m)
<1>1. b.dst \in Node /\ b.seq \in SeqNo /\ h \in Nat
  BY DEF Rrep
<1> HIDE DEF h
<1>2. new \in Entry /\ new.next = m /\ new.flag = "VALID"
  BY <1>1 DEF Route, Entry, RouteFlag, RingAssumption
<1> HIDE DEF new
<1>3. Learns(t, Update(t, b.dst, new), m) /\ Learns(t, AddRoute(t, b.dst, new), m)
  BY <1>1, <1>2, UpdateLearns
<1>4. Learns(t, t, m)
  BY DEF Learns, Follows, Keeps
<1> QED
  BY <1>3, <1>4 DEF new, h

LEMMA RecvReplyHeeds ==
  ASSUME NetworkAssumption, RingAssumption, SeqModAssumption, Inv, NEW q \in net,
         RecvReply(q.to, q)
  PROVE  Heeds(q.to, q)
<1> DEFINE n  == q.to
           m  == q.from
           b  == q.body
           t1 == UpdateRouteToNeighbor(rt[n], m)
           new == Route(b.hop + 1, TRUE, b.seq, m)
           t2 == IF ~Present(t1, b.dst) THEN AddRoute(t1, b.dst, new)
                 ELSE IF Better(t1[b.dst], b.hop + 1, b.seq)
                      THEN Update(t1, b.dst, new) ELSE t1
           t3 == Update(t2, b.dst, new)
           t4 == WithPrecursors(t2, b)
<1>1. /\ b \in Rrep /\ n \in Node /\ m \in Node /\ Good(rt[n])
      /\ (b.hop = 0 => m = b.dst)
  BY MsgTypes, LinksGood DEF Inv, GoodMsg, RecvReply, Rrep
<1>2. Good(t1) /\ Learns(rt[n], t1, m)
  BY <1>1, NeighborGood, NeighborLearns DEF Good
<1>3. Good(t2) /\ t2[b.dst].known /\ Learns(rt[n], t2, m)
  <2>1. Good(t2) /\ t2[b.dst].known
    <3> HIDE DEF t1, b, m
    <3> QED
      BY <1>1, <1>2, ReplyUpdateGood
  <2>2. Learns(t1, t2, m)
    <3> HIDE DEF t1, b, m
    <3> QED
      BY <1>1, <1>2, ReplyLearns DEF Good
  <2> HIDE DEF t1, t2
  <2> QED
    BY <1>2, <2>1, <2>2, LearnsTrans
<1>4. Learns(rt[n], t3, m)
  <2> HIDE DEF t2
  <2>1. Learns(t2, t3, m)
    BY <1>1, <1>3, ReplyLearns DEF Good
  <2> HIDE DEF t3
  <2> QED
    BY <1>3, <2>1, LearnsTrans
<1>5. ~NoWayBack(t2[b.origin]) => Learns(rt[n], t4, m)
  <2> HIDE DEF t2
  <2>1. ~NoWayBack(t2[b.origin]) => SameRoutes(t2, t4)
    BY <1>1, <1>3, WithPrecursorsGood
  <2> HIDE DEF t4
  <2> QED
    BY <1>3, <2>1, SameLearns, LearnsTrans
<1>6. \/ \E out : Handle(n, q, t2, out)
      \/ \E out : Handle(n, q, t3, out)
      \/ ~NoWayBack(t2[b.origin]) /\ \E out : Handle(n, q, t4, out)
  BY DEF RecvReply
<1> HIDE DEF t2, t3, t4
<1> QED
  BY <1>3, <1>4, <1>5, <1>6, LearnsHeeds

LEMMA ProcessHelloHeeds ==
  ASSUME NetworkAssumption, RingAssumption, SeqModAssumption, Inv, NEW q \in net,
         ProcessHello(q.to, q)
  PROVE  Heeds(q.to, q)
<1> DEFINE n == q.to
           d == q.body.dst
           t == UpdateRouteToNeighbor(rt[n], q.from)
           e == [t[d] EXCEPT !.flag = "VALID", !.known = TRUE,
                             !.seq = q.body.seq, !.hop = 1, !.next = d]
           u == Update(t, d, e)
<1>1. /\ d = q.from /\ n \in Node /\ d \in Node /\ Good(rt[n]) /\ q.body.seq \in SeqNo
  BY MsgTypes, LinksGood DEF Inv, GoodMsg, ProcessHello, Rrep
<1>2. Good(t) /\ Learns(rt[n], t, d)
  BY <1>1, NeighborGood, NeighborLearns DEF Good
<1> HIDE DEF t
<1>3. e \in Entry /\ e.next = d /\ e.flag = "VALID"
  <2>1. t[d] \in Entry
    BY <1>1, <1>2 DEF Good, Table
  <2> QED
    BY <1>1, <2>1 DEF Entry, RouteFlag
<1> HIDE DEF e
<1>4. Learns(t, u, d)
  BY <1>1, <1>2, <1>3, UpdateLearns DEF Good
<1>5. Handle(n, q, u, {})
  BY DEF ProcessHello, u, e, t
<1> HIDE DEF u
<1> QED
  BY <1>1, <1>2, <1>4, <1>5, LearnsTrans, LearnsHeeds

LEMMA RecvReplyAckHeeds ==
  ASSUME NetworkAssumption, RingAssumption, SeqModAssumption, Inv, NEW q \in net,
         RecvReplyAck(q.to, q)
  PROVE  Heeds(q.to, q)
<1> DEFINE n == q.to
           m == q.from
           t == UpdateRouteToNeighbor(rt[n], m)
           e == [t[m] EXCEPT !.flag = "VALID"]
           u == Update(t, m, e)
<1>1. n \in Node /\ m \in Node /\ Good(rt[n])
  BY LinksGood DEF Inv
<1>2. Good(t) /\ t[m].next = m /\ Learns(rt[n], t, m)
  BY <1>1, NeighborGood, NeighborLearns DEF Good
<1> HIDE DEF t
<1>3. e \in Entry /\ e.next = m /\ e.flag = "VALID"
  BY <1>1, <1>2 DEF Good, Table, Entry, RouteFlag
<1> HIDE DEF e
<1>4. Learns(t, u, m)
  BY <1>1, <1>2, <1>3, UpdateLearns DEF Good
<1>5. Handle(n, q, u, {})
  BY DEF RecvReplyAck, u, e, t
<1> HIDE DEF u
<1> QED
  BY <1>2, <1>4, <1>5, LearnsTrans, LearnsHeeds

LEMMA InvalidateFollows ==
  ASSUME NEW t \in Table, NEW lost
  PROVE  LET u == InvalidateRoutesWithDst(t, lost) IN
         /\ \A d \in Node : Routed(u[d]) => Routed(t[d]) /\ u[d].next = t[d].next
         /\ \A d \in Node : HasValid(t, d) => d \in lost \/ HasValid(u, d)
<1> DEFINE u == InvalidateRoutesWithDst(t, lost)
<1>1. \A d \in Node : u[d] = IF d \in lost /\ HasValid(t, d) THEN Invalidated(t[d]) ELSE t[d]
  BY DEF Table, InvalidateRoutesWithDst
<1>2. \A d \in Node : Invalidated(t[d]).next = t[d].next
  BY DEF Table, Invalidated, Entry
<1> HIDE DEF u
<1>3. \A d \in Node : Routed(u[d]) => Routed(t[d]) /\ u[d].next = t[d].next
  BY <1>1, <1>2 DEF Routed, HasValid
<1>4. \A d \in Node : HasValid(t, d) => d \in lost \/ HasValid(u, d)
  BY <1>1 DEF HasValid
<1> QED
  BY <1>3, <1>4 DEF u

LEMMA RecvErrorHeeds ==
  ASSUME NetworkAssumption, RingAssumption, SeqModAssumption, Inv, NEW q \in net,
         RecvError(q.to, q)
  PROVE  Heeds(q.to, q)
<1> DEFINE n    == q.to
           m    == q.from
           t    == UpdateRouteToNeighbor(rt[n], m)
           lost == q.body.lost \cap ThroughNextHop(t, m)
           u    == InvalidateRoutesWithDst(t, lost)
<1>1. n \in Node /\ m \in Node /\ Good(rt[n]) /\ q.body.type = "RERR"
  BY LinksGood DEF Inv, RecvError
<1>2. /\ Good(t) /\ Learns(rt[n], t, m) /\ \A x \in Node \ {m} : t[x] = rt[n][x]
  BY <1>1, NeighborGood, NeighborLearns DEF Good
<1>3. \E out : Handle(n, q, u, out)
  BY DEF RecvError
<1>4. \A d \in lost : d \in q.body.lost /\ d \in Node /\ t[d].next = m
  BY DEF ThroughNextHop
<1> HIDE DEF t, lost
<1>5. /\ \A d \in Node : Routed(u[d]) => Routed(t[d]) /\ u[d].next = t[d].next
      /\ \A d \in Node : HasValid(t, d) => d \in lost \/ HasValid(u, d)
  BY <1>2, InvalidateFollows DEF Good
<1> HIDE DEF u
<1>6. Follows(rt[n], u, m)
  BY <1>2, <1>5 DEF Learns, Follows
<1>7. LossesNamed(n, q, u)
  <2> SUFFICES ASSUME NEW d \in Node, HasValid(rt[n], d), ~HasValid(u, d)
               PROVE  d \in q.body.lost /\ m \in {d, rt[n][d].next}
    BY <1>1 DEF LossesNamed
  <2>1. d \in lost
    BY <1>2, <1>5 DEF Learns, Keeps
  <2> QED
    BY <1>2, <1>4, <2>1
<1> QED
  BY <1>3, <1>6, <1>7 DEF Heeds

\* One step of LostByErrorsOnly.
LossStep ==
  \A q \in Taken, n, d \in Node :
    HasValid(rt[n], d) /\ ~HasValid(rt'[n], d)
      => /\ q.to = n /\ q.body.type = "RERR" /\ d \in q.body.lost
         /\ q.from \in {d, rt[n][d].next}

LEMMA HeedsKeeps ==
  ASSUME NetworkAssumption, Inv, NextHopWasHeard, NEW q \in net, Heeds(q.to, q)
  PROVE  NextHopWasHeard' /\ LossStep
<1> DEFINE n == q.to
<1>1. PICK t, out : Handle(n, q, t, out) /\ Follows(rt[n], t, q.from) /\ LossesNamed(n, q, t)
  BY DEF Heeds
<1>2. n \in Node /\ <<q.from, n>> \in Link /\ rt \in [Node -> Table]
  BY LinksGood DEF Inv, TypeOK, Table, GoodMsg
<1>3. rt'[n] = t /\ \A x \in Node \ {n} : rt'[x] = rt[x]
  BY <1>1, <1>2 DEF Handle
<1>4. \A x \in Taken : x = q
  BY <1>1 DEF Taken, Handle
<1>5. NextHopWasHeard'
  <2> SUFFICES ASSUME NEW x \in Node, NEW d \in Node, Routed(rt'[x][d])
               PROVE  <<rt'[x][d].next, x>> \in Link
    BY DEF NextHopWasHeard, Routed
  <2>1. CASE x # n
    BY <1>3, <2>1 DEF NextHopWasHeard, Routed
  <2>2. CASE x = n
    <3>1. t[d].next = q.from \/ (Routed(rt[n][d]) /\ t[d].next = rt[n][d].next)
      BY <1>1, <1>3, <2>2 DEF Follows
    <3> QED
      BY <1>2, <1>3, <2>2, <3>1 DEF NextHopWasHeard, Routed
  <2> QED
    BY <2>1, <2>2
<1>6. LossStep
  <2> SUFFICES ASSUME NEW x \in Node, NEW d \in Node, HasValid(rt[x], d), ~HasValid(rt'[x], d)
               PROVE  /\ n = x /\ q.body.type = "RERR" /\ d \in q.body.lost
                      /\ q.from \in {d, rt[x][d].next}
    BY <1>4 DEF LossStep
  <2>1. x = n
    BY <1>3
  <2> QED
    BY <1>1, <1>3, <2>1 DEF LossesNamed
<1> QED
  BY <1>5, <1>6

\* A step without a message: the table t of n has no new routes.
LEMMA UnaskedHeard ==
  ASSUME Inv, NextHopWasHeard, NEW n \in Node, NEW t, rt' = [rt EXCEPT ![n] = t],
         \A d \in Node : Routed(t[d]) => Routed(rt[n][d]) /\ t[d].next = rt[n][d].next
  PROVE  NextHopWasHeard'
<1>1. rt'[n] = t /\ \A x \in Node \ {n} : rt'[x] = rt[x]
  BY DEF Inv, TypeOK
<1> QED
  BY <1>1 DEF NextHopWasHeard, Routed

LEMMA HeardKept ==
  ASSUME NetworkAssumption, RingAssumption, SeqModAssumption, Inv, NextHopWasHeard,
         [Next]_vars
  PROVE  NextHopWasHeard' /\ (UNCHANGED vars \/ LossStep)
<1>1. CASE UNCHANGED vars
  BY <1>1 DEF vars, NextHopWasHeard
<1>2. ASSUME NEW w \in Wanted, SendRequest(w[1], w[2])
      PROVE  NextHopWasHeard' /\ LossStep
  <2> DEFINE n == w[1]
             d == w[2]
             e == Searching(rt[n][d])
             t == [rt[n] EXCEPT ![d] = e]
  <2>1. n \in Node /\ d \in Node
    BY DEF NetworkAssumption
  <2>2. rt[n] \in Table /\ rt[n][d] \in Entry /\ rt \in [Node -> Table]
    BY <2>1 DEF Inv, TypeOK, Table
  <2>3. ~Routed(e)
    BY <2>2 DEF Searching, Routed, Entry
  <2> HIDE DEF e
  <2>4. \A x \in Node : Routed(t[x]) => t[x] = rt[n][x]
    BY <2>1, <2>2, <2>3 DEF Table
  <2>5. rt' = [rt EXCEPT ![n] = t] /\ Taken = {}
    BY <1>2, <2>2 DEF SendRequest, Taken, e
  <2> HIDE DEF t
  <2>6. \A x \in Node : Routed(t[x]) => Routed(rt[n][x]) /\ t[x].next = rt[n][x].next
    BY <2>4
  <2>7. NextHopWasHeard'
    BY <2>1, <2>5, <2>6, UnaskedHeard
  <2> QED
    BY <2>5, <2>7 DEF LossStep
<1>3. ASSUME NEW q \in net, Deliver(q.to, q)
      PROVE  NextHopWasHeard' /\ LossStep
  <2>1. Heeds(q.to, q)
    BY <1>3, RecvRequestHeeds, RecvReplyHeeds, ProcessHelloHeeds,
       RecvReplyAckHeeds, RecvErrorHeeds DEF Deliver
  <2> QED
    BY <2>1, HeedsKeeps
<1>4. CASE Fault
  <2>1. Taken = {}
    BY <1>4 DEF Fault, SendHello, LinkBreaks, Expire, ForwardingFails, Taken
  <2>2. LossStep
    BY <2>1 DEF LossStep
  <2>3. ASSUME rt' = rt
        PROVE  NextHopWasHeard'
    BY <2>3 DEF NextHopWasHeard
  <2>4. ASSUME NEW n \in Node, NEW m \in Node, LinkBreaks(n, m)
        PROVE  NextHopWasHeard'
    <3> DEFINE lost == {m} \cup ThroughNextHop(rt[n], m)
               t == InvalidateRoutesWithDst(rt[n], lost)
    <3>1. rt' = [rt EXCEPT ![n] = t]
      BY <2>4 DEF LinkBreaks
    <3>2. rt[n] \in Table
      BY DEF Inv, TypeOK, Table
    <3> HIDE DEF lost
    <3>3. \A d \in Node : Routed(t[d]) => Routed(rt[n][d]) /\ t[d].next = rt[n][d].next
      BY <3>2, InvalidateFollows
    <3> HIDE DEF t
    <3> QED
      BY <3>1, <3>3, UnaskedHeard
  <2>5. ASSUME NEW n \in Node, NEW d \in Node, Expire(n, d)
        PROVE  NextHopWasHeard'
    <3> DEFINE e == IF HasValid(rt[n], d) THEN Invalidated(rt[n][d]) ELSE NoRoute
               t == [rt[n] EXCEPT ![d] = e]
    <3>1. rt[n] \in Table /\ rt[n][d] \in Entry /\ rt \in [Node -> Table]
      BY DEF Inv, TypeOK, Table
    <3>2. Routed(e) => Routed(rt[n][d]) /\ e.next = rt[n][d].next
      BY <3>1 DEF Invalidated, NoRoute, Routed, HasValid, Entry
    <3>3. rt' = [rt EXCEPT ![n] = t]
      BY <2>5, <3>1 DEF Expire
    <3> HIDE DEF e
    <3>4. \A x \in Node : Routed(t[x]) => Routed(rt[n][x]) /\ t[x].next = rt[n][x].next
      BY <3>1, <3>2 DEF Table
    <3> HIDE DEF t
    <3> QED
      BY <3>3, <3>4, UnaskedHeard
  <2>6. NextHopWasHeard'
    BY <1>4, <2>3, <2>4, <2>5 DEF Fault, SendHello, ForwardingFails
  <2> QED
    BY <2>2, <2>6
<1> QED
  BY <1>1, <1>2, <1>3, <1>4 DEF Next

-----------------------------------------------------------------------------
(* What is sent: requests once, and replies along known precursors.        *)

\* The precursors of the entries a reply x of the node with table t passes by.
ToldBy(t, x) ==
  IsReply(x) /\ x.body.dst # x.from /\ HasValid(t, x.body.dst)
    => /\ x.to \in t[x.body.dst].prec
       /\ t[x.body.dst].next \in t[x.body.origin].prec

\* The request x is a new one, or one that its sender had not seen.
SentOnce(x) ==
  x.body.type = "RREQ" =>
    IF x.from = x.body.origin THEN x.body.id > reqId[x.from]
    ELSE <<x.body.origin, x.body.id>> \notin seen[x.from]

\* Nodes know their own requests.
OwnKnown ==
  \A x \in net : x.body.type = "RREQ" =>
    <<x.body.origin, x.body.id>> \in seen[x.body.origin]

\* The node n, whose table is t after the step, sends out, and all is well.
WellSent(n, t, out) ==
  \A x \in out :
    /\ x.from = n /\ SentOnce(x) /\ ToldBy(t, x)
    /\ x.body.type = "RREQ" => <<x.body.origin, x.body.id>> \in seen'[x.body.origin]

\* One step of RequestsSentOnce, and one of ReplyUsersKnown.
OnceStep ==
  \A q \in net' \ net : q.body.type = "RREQ" =>
    IF q.from = q.body.origin THEN q.body.id > reqId[q.from]
    ELSE <<q.body.origin, q.body.id>> \notin seen[q.from]
UsersStep ==
  \A q \in net' \ net :
    LET t == rt'[q.from]
        b == q.body
    IN IsReply(q) /\ b.dst # q.from /\ HasValid(t, b.dst)
         => q.to \in t[b.dst].prec /\ t[b.dst].next \in t[b.origin].prec

LEMMA WellSentKeeps ==
  ASSUME Inv, OwnKnown, NEW n, NEW out, WellSent(n, rt'[n], out), net' \subseteq net \cup out,
         \A x \in Node : seen[x] \subseteq seen'[x]
  PROVE  OwnKnown' /\ OnceStep /\ UsersStep
<1>1. \A x \in net : x.body.type = "RREQ" => x.body.origin \in Node
  BY MsgTypes DEF Inv, Rreq
<1>2. OwnKnown'
  BY <1>1 DEF OwnKnown, WellSent
<1>3. OnceStep
  BY DEF OnceStep, WellSent, SentOnce
<1>4. UsersStep
  BY DEF UsersStep, WellSent, ToldBy
<1> QED
  BY <1>2, <1>3, <1>4

\* Neither requests nor replies: errors and acks.
Others(n, out) == \A x \in out : x.from = n /\ x.body.type \in {"RERR", "RREP_ACK"}

LEMMA OthersWellSent ==
  ASSUME NEW n, NEW t, NEW out, Others(n, out)
  PROVE  WellSent(n, t, out)
  BY DEF Others, WellSent, SentOnce, ToldBy, IsReply

LEMMA RerrOthers ==
  ASSUME NEW n, NEW t, NEW lost, NEW prec, NEW m
  PROVE  /\ Others(n, SendRerrMessage(n, t, lost, prec))
         /\ Others(n, Unicast(n, m, [type |-> "RERR", lost |-> lost]))
         /\ Others(n, Broadcast(n, [type |-> "RERR", lost |-> lost]))
         /\ Others(n, Unicast(n, m, [type |-> "RREP_ACK"]))
         /\ Others(n, {})
  BY DEF Others, SendRerrMessage, Unicast, Broadcast, Over

\* A node that handles a message and sends out.
LEMMA HandleWellSent ==
  ASSUME NetworkAssumption, Inv, OwnKnown, NEW q \in net, NEW t, NEW out,
         Handle(q.to, q, t, out), WellSent(q.to, t, out),
         \A x \in Node : seen[x] \subseteq seen'[x]
  PROVE  OwnKnown' /\ OnceStep /\ UsersStep
<1>1. rt'[q.to] = t
  BY LinksGood DEF Handle, Inv, TypeOK
<1>2. net' \subseteq net \cup out
  BY DEF Handle
<1> QED
  BY <1>1, <1>2, WellSentKeeps

-----------------------------------------------------------------------------
(* Precursors only grow.                                                   *)

LEMMA WithPrecursorGrows ==
  ASSUME RingAssumption, NEW t, Good(t), NEW d, NEW p \in Node
  PROVE  /\ \A x \in Node : t[x].prec \subseteq WithPrecursor(t, d, p)[x].prec
         /\ d \in Node /\ Present(t, d) => p \in WithPrecursor(t, d, p)[d].prec
<1>1. CASE d \notin Node
  BY <1>1 DEF WithPrecursor
<1>2. CASE d \in Node
  <2> DEFINE P == t[d].prec \cup {p}
             e == [t[d] EXCEPT !.prec = P]
  <2>1. t[d] \in Entry /\ Sound(d, t[d]) /\ P \in SUBSET Node
    BY <1>2 DEF Good, Table, Entry
  <2> HIDE DEF P
  <2>2. e \in Entry /\ Sound(d, e) /\ e.prec = P
    BY <2>1 DEF Entry, Sound
  <2>3. WithPrecursor(t, d, p) = Update(t, d, e)
    BY <1>2 DEF WithPrecursor, P
  <2> HIDE DEF e
  <2>4. /\ \A x \in Node \ {d} : Update(t, d, e)[x] = t[x]
        /\ Update(t, d, e)[d] = IF Present(t, d) THEN Settled(e) ELSE t[d]
    BY <1>2, <2>2, UpdateGood
  <2>5. Settled(e).prec = P
    BY <2>2, SettledSound
  <2> QED
    BY <1>2, <2>2, <2>3, <2>4, <2>5 DEF P
<1> QED
  BY <1>1, <1>2

\* Writing back an entry with other precursors.
LEMMA PrecursorsWritten ==
  ASSUME RingAssumption, NEW t, Good(t), NEW s, Good(s), SameRoutes(s, t),
         NEW d \in Node, Present(t, d), NEW P \in SUBSET Node
  PROVE  /\ Update(t, d, [s[d] EXCEPT !.prec = P])[d].prec = P
         /\ \A x \in Node \ {d} : Update(t, d, [s[d] EXCEPT !.prec = P])[x] = t[x]
<1> DEFINE e == [s[d] EXCEPT !.prec = P]
<1>1. s[d] \in Entry /\ Sound(d, s[d])
  BY DEF Good, Table
<1>2. e \in Entry /\ Sound(d, e) /\ e.prec = P
  BY <1>1 DEF Entry, Sound
<1> HIDE DEF e
<1>3. /\ \A x \in Node \ {d} : Update(t, d, e)[x] = t[x]
      /\ Update(t, d, e)[d] = Settled(e)
  BY <1>2, UpdateGood
<1>4. Settled(e).prec = P
  BY <1>2, SettledSound
<1> QED
  BY <1>3, <1>4 DEF e

\* After a reply has passed: whom to tell of the loss of either route.
LEMMA ReplyPassed ==
  ASSUME RingAssumption, NEW t, Good(t), NEW b \in Rrep, b.dst # b.origin,
         ~NoWayBack(t[b.origin]), HasValid(t, b.dst)
  PROVE  LET u == WithPrecursors(t, b) IN
         /\ t[b.origin].next \in u[b.dst].prec
         /\ t[b.dst].next \in u[b.origin].prec
<1> DEFINE back  == t[b.origin]
           there == t[b.dst]
           t0 == WithPrecursor(t, b.dst, back.next)
           t1 == WithPrecursor(t0, there.next, back.next)
           P  == back.prec \cup {there.next}
           t2 == Update(t1, b.origin, [back EXCEPT !.prec = P])
           t3 == WithPrecursor(t2, back.next, there.next)
<1>1. /\ b.origin \in Node /\ b.dst \in Node
      /\ back \in Entry /\ there \in Entry
      /\ back.next \in Node /\ there.next \in Node
      /\ Present(t, b.origin) /\ Present(t, b.dst)
  BY DEF Rrep, Good, Table, Sound, NoWayBack, Entry, RouteFlag, HasValid, Present
<1>2. P \in SUBSET Node /\ there.next \in P
  BY <1>1 DEF Entry
<1>3. Good(t0) /\ SameRoutes(t, t0) /\ back.next \in t0[b.dst].prec
  BY <1>1, WithPrecursorGood, WithPrecursorGrows
<1>4. Good(t1) /\ SameRoutes(t, t1) /\ back.next \in t1[b.dst].prec
  <2> HIDE DEF t0, back, there
  <2> QED
    BY <1>1, <1>3, WithPrecursorGood, WithPrecursorGrows, SameRoutesTrans
<1>5. SameRoutes(t1, t) /\ Present(t1, b.origin)
  BY <1>1, <1>4 DEF SameRoutes, Present
<1>6. Good(t2) /\ t2[b.origin].prec = P /\ back.next \in t2[b.dst].prec
  <2>1. /\ Good(t2) /\ t2[b.origin].prec = P
        /\ \A x \in Node \ {b.origin} : t2[x] = t1[x]
    <3> HIDE DEF t1, P
    <3>1. SameRoutes(t, t1) /\ Good(t1)
      BY <1>4
    <3>2. Good(t2)
      BY <1>1, <1>2, <1>5, <3>1, PrecursorsGood
    <3>3. t2[b.origin].prec = P /\ \A x \in Node \ {b.origin} : t2[x] = t1[x]
      <4>1. \A d \in Node : Present(t1, d) =>
              /\ Update(t1, d, [t[d] EXCEPT !.prec = P])[d].prec = P
              /\ \A x \in Node \ {d} : Update(t1, d, [t[d] EXCEPT !.prec = P])[x] = t1[x]
        BY <1>2, <1>5, <3>1, PrecursorsWritten
      <4> QED
        BY <1>1, <1>5, <4>1
    <3> QED
      BY <3>2, <3>3
  <2> HIDE DEF t1, t2, P, back
  <2> QED
    BY <1>1, <1>4, <2>1
<1>7. there.next \in t3[b.origin].prec /\ back.next \in t3[b.dst].prec
  <2> HIDE DEF t2, back, there
  <2> QED
    BY <1>1, <1>2, <1>6, WithPrecursorGrows
<1>8. WithPrecursors(t, b) = t3
  BY DEF WithPrecursors
<1> QED
  BY <1>7, <1>8

-----------------------------------------------------------------------------
(* The handlers.                                                           *)

\* A node with a valid route, whose precursors are noted before it answers.
LEMMA IntermediateReplyTold ==
  ASSUME NEW n, NEW t, NEW b, NEW u,
         t[b.origin].next \in u[b.dst].prec, t[b.dst].next \in u[b.origin].prec,
         u[b.dst].next = t[b.dst].next, u[b.origin].next = t[b.origin].next
  PROVE  WellSent(n, u, IntermediateReply(n, t, b))
<1> DEFINE R1 == [type |-> "RREP", dst |-> b.dst, seq |-> t[b.dst].seq,
                  origin |-> b.origin, hop |-> t[b.dst].hop,
                  ttl |-> t[b.origin].hop, ack |-> t[b.dst].hop = 1]
           R2 == [type |-> "RREP", dst |-> b.origin, seq |-> t[b.origin].seq,
                  origin |-> b.dst, hop |-> t[b.origin].hop,
                  ttl |-> t[b.dst].hop, ack |-> FALSE]
<1>1. /\ R1.type = "RREP" /\ R1.dst = b.dst /\ R1.origin = b.origin
      /\ R2.type = "RREP" /\ R2.dst = b.origin /\ R2.origin = b.dst
  OBVIOUS
<1>2. \A x \in IntermediateReply(n, t, b) :
        \/ x = [from |-> n, to |-> t[b.origin].next, body |-> R1]
        \/ x = [from |-> n, to |-> t[b.dst].next, body |-> R2]
  BY DEF IntermediateReply, Unicast, Over
<1> HIDE DEF R1, R2
<1>3. \A x \in IntermediateReply(n, t, b) :
        /\ x.from = n
        /\ \/ x.to = t[b.origin].next /\ x.body = R1
           \/ x.to = t[b.dst].next /\ x.body = R2
  BY <1>2
<1> QED
  BY <1>1, <1>3 DEF WellSent, SentOnce, ToldBy

\* A request sent on is the request that was received.
LEMMA RebroadcastIs ==
  ASSUME NEW n, NEW e \in Entry, NEW b \in Rreq, NEW x \in Rebroadcast(n, e, b)
  PROVE  /\ x.from = n /\ x.body.type = "RREQ"
         /\ x.body.origin = b.origin /\ x.body.id = b.id
<1> DEFINE asked == IF FreshEnough(e, b) THEN [b EXCEPT !.known = TRUE, !.dseq = e.seq]
                                         ELSE b
<1>1. \E l : x = [from |-> n, to |-> l, body |-> [asked EXCEPT !.hop = @ + 1, !.ttl = @ - 1]]
  BY DEF Rebroadcast, Broadcast, Over
<1>2. /\ asked \in Rreq /\ asked.origin = b.origin /\ asked.id = b.id
  <2>1. e.seq \in SeqNo
    BY DEF Entry
  <2> QED
    BY <2>1 DEF Rreq
<1> HIDE DEF asked
<1>3. asked.type = "RREQ"
  BY <1>2 DEF Rreq
<1>4. \A h, l : LET r == [asked EXCEPT !.hop = h, !.ttl = l] IN
        r.type = asked.type /\ r.origin = asked.origin /\ r.id = asked.id
  BY <1>2 DEF Rreq
<1>5. PICK l : x = [from |-> n, to |-> l, body |-> [asked EXCEPT !.hop = asked.hop + 1,
                                                               !.ttl = asked.ttl - 1]]
  BY <1>1
<1>6. x.from = n /\ x.body = [asked EXCEPT !.hop = asked.hop + 1, !.ttl = asked.ttl - 1]
  BY <1>5
<1> QED
  BY <1>2, <1>3, <1>4, <1>6

LEMMA RecvRequestSends ==
  ASSUME NetworkAssumption, RingAssumption, SeqModAssumption, Inv, OwnKnown,
         NEW q \in net, RecvRequest(q.to, q)
  PROVE  OwnKnown' /\ OnceStep /\ UsersStep
<1> DEFINE n  == q.to
           m  == q.from
           b  == q.body
           t1 == UpdateRouteToNeighbor(rt[n], m)
           t3 == PreviousHop(ReverseRoute(t1, b, m), b, m)
           there == t3[b.dst]
           t4 == WithPrecursor(Update(t3, b.dst,
                   [there EXCEPT !.prec = @ \cup {t3[b.origin].next}]),
                   b.origin, there.next)
<1>1. /\ GoodMsg(q) /\ b.type = "RREQ" /\ b \in Rreq /\ n \in Node /\ m \in Node
      /\ Good(rt[n]) /\ b.origin # b.dst /\ b.origin \in Node /\ b.dst \in Node
  BY MsgTypes, LinksGood DEF Inv, GoodMsg, RecvRequest, Rreq
<1>2. /\ Good(t3) /\ Present(t3, b.origin)
      /\ t3[b.origin].next \in Node /\ t3[b.origin].hop \in Nat \ {0}
  BY <1>1, RequestGood
<1>3. \A x \in Node : seen[x] \subseteq seen'[x]
  <2>1. \/ seen' = seen
        \/ seen' = [seen EXCEPT ![n] = @ \cup {<<b.origin, b.id>>}]
    BY DEF RecvRequest
  <2>2. seen \in [Node -> SUBSET (Node \X Nat)]
    BY DEF Inv, TypeOK
  <2> HIDE DEF n, b
  <2> QED
    BY <2>1, <2>2
<1>4. ASSUME NEW t, Handle(n, q, t, {})
      PROVE  OwnKnown' /\ OnceStep /\ UsersStep
  BY <1>3, <1>4, RerrOthers, OthersWellSent, HandleWellSent
<1>5. ASSUME NEW seq, b.dst = n,
             Handle(n, q, t3, Unicast(n, t3[b.origin].next, OwnReply(b, seq, t3[b.origin])))
      PROVE  OwnKnown' /\ OnceStep /\ UsersStep
  <2> DEFINE out == Unicast(n, t3[b.origin].next, OwnReply(b, seq, t3[b.origin]))
  <2> HIDE DEF t3
  <2>1. \A x \in out : x.from = n /\ x.body.type = "RREP" /\ x.body.dst = n
    BY <1>5 DEF Unicast, Over, OwnReply
  <2> HIDE DEF out
  <2>2. WellSent(n, t3, out)
    BY <2>1 DEF WellSent, SentOnce, ToldBy
  <2> QED
    BY <1>3, <1>5, <2>2, HandleWellSent DEF out
<1>6. CASE HasValid(t3, b.dst) /\ Handle(n, q, t4, IntermediateReply(n, t3, b))
  <2> DEFINE P == there.prec \cup {t3[b.origin].next}
             s == Update(t3, b.dst, [there EXCEPT !.prec = P])
  <2> HIDE DEF t3
  <2>1. there \in Entry /\ there.next \in Node /\ P \in SUBSET Node
        /\ t3[b.origin].next \in P
    BY <1>1, <1>2, <1>6 DEF Good, Table, Sound, HasValid, Entry
  <2>2. SameRoutes(t3, t3) /\ Present(t3, b.dst)
    BY <1>6 DEF SameRoutes, HasValid, Present
  <2>3. Good(s) /\ SameRoutes(t3, s)
    <3> HIDE DEF P
    <3> QED
      BY <1>1, <1>2, <2>1, <2>2, PrecursorsGood
  <2>4. s[b.dst].prec = P /\ \A x \in Node \ {b.dst} : s[x] = t3[x]
    <3>1. \A d \in Node : Present(t3, d) =>
            /\ Update(t3, d, [t3[d] EXCEPT !.prec = P])[d].prec = P
            /\ \A x \in Node \ {d} : Update(t3, d, [t3[d] EXCEPT !.prec = P])[x] = t3[x]
      <4>1. Good(t3) /\ P \in SUBSET Node /\ SameRoutes(t3, t3)
        BY <1>2, <2>1, <2>2
      <4> HIDE DEF P, there, s
      <4> QED
        BY <4>1, PrecursorsWritten
    <3> QED
      BY <1>1, <2>2, <3>1
  <2>5. Present(s, b.origin)
    BY <1>1, <1>2, <2>4 DEF Present
  <2>6. t4 = WithPrecursor(s, b.origin, there.next)
    OBVIOUS
  <2>7. there.next \in t4[b.origin].prec /\ P \subseteq t4[b.dst].prec
    <3> HIDE DEF s, t4, P
    <3> QED
      BY <1>1, <2>1, <2>3, <2>4, <2>5, <2>6, WithPrecursorGrows
  <2>8. SameRoutes(t3, t4)
    <3> HIDE DEF s, t4
    <3> QED
      BY <2>1, <2>3, <2>6, WithPrecursorGood, SameRoutesTrans
  <2> HIDE DEF t4, P
  <2>9. WellSent(n, t4, IntermediateReply(n, t3, b))
    <3>1. /\ t3[b.origin].next \in t4[b.dst].prec /\ t3[b.dst].next \in t4[b.origin].prec
          /\ t4[b.dst].next = t3[b.dst].next /\ t4[b.origin].next = t3[b.origin].next
      BY <1>1, <2>1, <2>7, <2>8 DEF SameRoutes
    <3> QED
      BY <3>1, IntermediateReplyTold
  <2> QED
    BY <1>3, <1>6, <2>9, HandleWellSent
<1>7. CASE /\ <<b.origin, b.id>> \notin seen[n]
           /\ Handle(n, q, t3, Rebroadcast(n, there, b))
  <2> HIDE DEF t3
  <2>1. there \in Entry
    BY <1>1, <1>2 DEF Good, Table
  <2>2. <<b.origin, b.id>> \in seen[b.origin]
    BY <1>1 DEF OwnKnown
  <2>3. WellSent(n, t3, Rebroadcast(n, there, b))
    <3>1. \A x \in Rebroadcast(n, there, b) :
            /\ x.from = n /\ x.body.type = "RREQ"
            /\ x.body.origin = b.origin /\ x.body.id = b.id
      <4> HIDE DEF there, b
      <4> QED
        BY <1>1, <2>1, RebroadcastIs
    <3>2. n # b.origin /\ <<b.origin, b.id>> \in seen'[b.origin]
      BY <1>1, <1>3, <1>7, <2>2
    <3> QED
      BY <1>7, <3>1, <3>2 DEF WellSent, SentOnce, ToldBy, IsReply
  <2> QED
    BY <1>3, <1>7, <2>3, HandleWellSent
<1> QED
  <2>1. \/ \E t : Handle(n, q, t, {})
        \/ \E seq : /\ b.dst = n
                    /\ Handle(n, q, t3, Unicast(n, t3[b.origin].next,
                                                OwnReply(b, seq, t3[b.origin])))
        \/ /\ <<b.origin, b.id>> \notin seen[n]
           /\ Handle(n, q, t3, Rebroadcast(n, there, b))
        \/ HasValid(t3, b.dst) /\ Handle(n, q, t4, IntermediateReply(n, t3, b))
    BY DEF RecvRequest
  <2> HIDE DEF t1, t3, t4, there
  <2> QED
    BY <1>4, <1>5, <1>6, <1>7, <2>1

LEMMA RecvReplySends ==
  ASSUME NetworkAssumption, RingAssumption, SeqModAssumption, Inv, OwnKnown,
         NEW q \in net, RecvReply(q.to, q)
  PROVE  OwnKnown' /\ OnceStep /\ UsersStep
<1> DEFINE n  == q.to
           m  == q.from
           b  == q.body
           t1 == UpdateRouteToNeighbor(rt[n], m)
           new == Route(b.hop + 1, TRUE, b.seq, m)
           t2 == IF ~Present(t1, b.dst) THEN AddRoute(t1, b.dst, new)
                 ELSE IF Better(t1[b.dst], b.hop + 1, b.seq)
                      THEN Update(t1, b.dst, new) ELSE t1
           t4 == WithPrecursors(t2, b)
           back == t2[b.origin]
           fwd == [b EXCEPT !.hop = @ + 1, !.ttl = @ - 1, !.ack = FALSE]
           ack == IF b.ack THEN Unicast(n, m, [type |-> "RREP_ACK"]) ELSE {}
           on  == IF b.ttl < 2 THEN {} ELSE Unicast(n, back.next, fwd)
<1>1. /\ b \in Rrep /\ n \in Node /\ m \in Node /\ Good(rt[n])
      /\ b.dst # b.origin /\ b.dst \in Node /\ b.origin \in Node
      /\ (b.hop = 0 => m = b.dst)
  BY MsgTypes, LinksGood DEF Inv, GoodMsg, RecvReply, Rrep
<1>2. \A x \in Node : seen[x] \subseteq seen'[x]
  BY DEF RecvReply
<1>3. Others(n, ack)
  BY RerrOthers
<1>4. ASSUME NEW t, Handle(n, q, t, ack)
      PROVE  OwnKnown' /\ OnceStep /\ UsersStep
  <2> HIDE DEF ack
  <2> QED
    BY <1>2, <1>3, <1>4, OthersWellSent, HandleWellSent
<1>5. CASE ~NoWayBack(back) /\ Handle(n, q, t4, ack \cup on)
  <2>1. Good(t1)
    BY <1>1, NeighborGood
  <2>2. Good(t2) /\ t2[b.dst].known
    <3> HIDE DEF t1, b, m
    <3> QED
      BY <1>1, <2>1, ReplyUpdateGood
  <2>3. \A x \in on : x.from = n /\ x.to = back.next /\ x.body = fwd
    <3> HIDE DEF fwd, back
    <3> QED
      BY DEF Unicast, Over
  <2>4. fwd.type = "RREP" /\ fwd.dst = b.dst /\ fwd.origin = b.origin
    BY <1>1 DEF Rrep
  <2> HIDE DEF t2, on, fwd, ack
  <2>5. SameRoutes(t2, t4)
    BY <1>1, <1>5, <2>2, WithPrecursorsGood
  <2>6. HasValid(t4, b.dst) => HasValid(t2, b.dst) /\ t4[b.dst].next = t2[b.dst].next
    BY <1>1, <2>5 DEF SameRoutes, HasValid
  <2>7. HasValid(t2, b.dst) => /\ back.next \in t4[b.dst].prec
                               /\ t2[b.dst].next \in t4[b.origin].prec
    BY <1>1, <1>5, <2>2, ReplyPassed
  <2> HIDE DEF t4, back, b
  <2>8. WellSent(n, t4, on)
    BY <2>3, <2>4, <2>6, <2>7 DEF WellSent, SentOnce, ToldBy
  <2>9. WellSent(n, t4, ack \cup on)
    BY <1>3, <2>8, OthersWellSent DEF WellSent
  <2> QED
    BY <1>2, <1>5, <2>9, HandleWellSent
<1> QED
  <2>1. \/ \E t : Handle(n, q, t, ack)
        \/ ~NoWayBack(back) /\ Handle(n, q, t4, ack \cup on)
    BY DEF RecvReply
  <2> HIDE DEF t2, t4, ack, on, back
  <2> QED
    BY <1>4, <1>5, <2>1

\* Hellos, acks and errors are not answered by a request or a reply.
LEMMA RestSends ==
  ASSUME NetworkAssumption, Inv, OwnKnown, NEW q \in net,
         ProcessHello(q.to, q) \/ RecvReplyAck(q.to, q) \/ RecvError(q.to, q)
  PROVE  OwnKnown' /\ OnceStep /\ UsersStep
<1>1. \E t, out : Handle(q.to, q, t, out) /\ Others(q.to, out)
  <2>1. CASE ProcessHello(q.to, q) \/ RecvReplyAck(q.to, q)
    BY <2>1, RerrOthers DEF ProcessHello, RecvReplyAck
  <2>2. CASE RecvError(q.to, q)
    BY <2>2, RerrOthers DEF RecvError
  <2> QED
    BY <2>1, <2>2
<1>2. \A x \in Node : seen[x] \subseteq seen'[x]
  BY DEF ProcessHello, RecvReplyAck, RecvError
<1> QED
  BY <1>1, <1>2, OthersWellSent, HandleWellSent

LEMMA SendRequestSends ==
  ASSUME Inv, OwnKnown, NEW n \in Node, NEW d \in Node, SendRequest(n, d)
  PROVE  OwnKnown' /\ OnceStep /\ UsersStep
<1> DEFINE body == [type |-> "RREQ", origin |-> n, id |-> reqId[n] + 1,
                    oseq |-> (seqNo[n] + 1) % SeqMod, dst |-> d,
                    known |-> rt[n][d].known, dseq |-> rt[n][d].seq, hop |-> 0,
                    ttl |-> NextTtl(rt[n][d])]
<1>1. /\ seen' = [seen EXCEPT ![n] = @ \cup {<<n, body.id>>}]
      /\ net' = net \cup Broadcast(n, body)
  BY DEF SendRequest
<1>2. body.type = "RREQ" /\ body.origin = n /\ body.id = reqId[n] + 1
  OBVIOUS
<1> HIDE DEF body
<1>3. seen \in [Node -> SUBSET (Node \X Nat)] /\ reqId[n] \in Nat
  BY DEF Inv, TypeOK
<1>4. /\ \A x \in Node : seen[x] \subseteq seen'[x]
      /\ <<n, body.id>> \in seen'[n] /\ body.id > reqId[n]
  BY <1>1, <1>2, <1>3
<1>5. \A x \in Broadcast(n, body) : x.from = n /\ x.body = body
  BY DEF Broadcast, Over
<1>6. WellSent(n, rt'[n], Broadcast(n, body))
  BY <1>2, <1>4, <1>5 DEF WellSent, SentOnce, ToldBy, IsReply
<1> QED
  BY <1>1, <1>4, <1>6, WellSentKeeps

LEMMA FaultSends ==
  ASSUME Inv, OwnKnown, Fault
  PROVE  OwnKnown' /\ OnceStep /\ UsersStep
<1>1. \A x \in Node : seen[x] \subseteq seen'[x]
  BY DEF Fault, SendHello, LinkBreaks, Expire, ForwardingFails
<1>2. ASSUME NEW n, NEW out, Others(n, out), net' = net \cup out
      PROVE  OwnKnown' /\ OnceStep /\ UsersStep
  BY <1>1, <1>2, OthersWellSent, WellSentKeeps
<1>3. ASSUME NEW n \in Node, SendHello(n)
      PROVE  OwnKnown' /\ OnceStep /\ UsersStep
  <2> DEFINE body == [type |-> "RREP", dst |-> n, seq |-> seqNo[n], origin |-> n,
                      hop |-> 0, ttl |-> 1, ack |-> FALSE]
  <2>1. body.type = "RREP" /\ body.dst = n
    OBVIOUS
  <2>2. net' = net \cup Broadcast(n, body)
    BY <1>3 DEF SendHello
  <2> HIDE DEF body
  <2>3. WellSent(n, rt'[n], Broadcast(n, body))
    BY <2>1 DEF Broadcast, Over, WellSent, SentOnce, ToldBy
  <2> QED
    BY <1>1, <2>2, <2>3, WellSentKeeps
<1>4. ASSUME NEW n \in Node, NEW m \in Node, LinkBreaks(n, m) \/ Expire(n, m)
      PROVE  OwnKnown' /\ OnceStep /\ UsersStep
  <2>1. CASE LinkBreaks(n, m)
    <3>1. \E out : Others(n, out) /\ net' = net \cup out
      BY <2>1, RerrOthers DEF LinkBreaks
    <3> QED
      BY <1>2, <3>1
  <2>2. CASE Expire(n, m)
    <3>1. Others(n, {}) /\ net' = net \cup {}
      BY <2>2, RerrOthers DEF Expire
    <3> QED
      BY <1>2, <3>1
  <2> QED
    BY <1>4, <2>1, <2>2
<1>5. ASSUME NEW n \in Node, NEW p \in Node, NEW o \in Node, NEW d \in Node,
             ForwardingFails(n, p, o, d)
      PROVE  OwnKnown' /\ OnceStep /\ UsersStep
  <2> DEFINE body == [type |-> "RERR", lost |-> {d}]
             out == IF HasValid(rt[n], o) THEN Unicast(n, rt[n][o].next, body)
                                          ELSE Broadcast(n, body)
  <2>1. Others(n, out)
    BY RerrOthers
  <2>2. net' = net \cup out
    BY <1>5 DEF ForwardingFails
  <2> HIDE DEF out
  <2> QED
    BY <1>2, <2>1, <2>2
<1> QED
  BY <1>3, <1>4, <1>5 DEF Fault

LEMMA SendsKept ==
  ASSUME NetworkAssumption, RingAssumption, SeqModAssumption, Inv, OwnKnown, [Next]_vars
  PROVE  OwnKnown' /\ (UNCHANGED vars \/ (OnceStep /\ UsersStep))
<1>1. CASE UNCHANGED vars
  BY <1>1 DEF vars, OwnKnown
<1>2. ASSUME NEW w \in Wanted, SendRequest(w[1], w[2])
      PROVE  OwnKnown' /\ OnceStep /\ UsersStep
  <2>1. w[1] \in Node /\ w[2] \in Node
    BY DEF NetworkAssumption
  <2> QED
    BY <1>2, <2>1, SendRequestSends
<1>3. ASSUME NEW q \in net, Deliver(q.to, q)
      PROVE  OwnKnown' /\ OnceStep /\ UsersStep
  BY <1>3, RecvRequestSends, RecvReplySends, RestSends DEF Deliver
<1> QED
  BY <1>1, <1>2, <1>3, FaultSends DEF Next

-----------------------------------------------------------------------------
(* The theorems.                                                           *)

LEMMA InitInv ==
  ASSUME NetworkAssumption, RingAssumption, SeqModAssumption, Init
  PROVE  Inv
<1>1. NoRoute \in Entry /\ \A d \in Node : Sound(d, NoRoute)
  BY NoRouteSound
<1>2. \A n \in Node : Good(rt[n])
  BY <1>1 DEF Init, Good, Table
<1>3. 0 \in SeqNo
  BY DEF SeqNo, SeqModAssumption
<1>4. TypeOK
  BY <1>1, <1>3 DEF Init, TypeOK, NetworkAssumption
<1> QED
  BY <1>2, <1>4 DEF Init, Inv

LEMMA StepKeeps ==
  ASSUME NetworkAssumption, RingAssumption, SeqModAssumption, Inv, [Next]_vars
  PROVE  Inv' /\ (UNCHANGED vars \/ SeqStep)
<1>1. CASE UNCHANGED vars
  BY <1>1 DEF vars, Inv, TypeOK
<1>2. ASSUME NEW w \in Wanted, SendRequest(w[1], w[2])
      PROVE  Inv' /\ SeqStep
  <2>1. w[1] \in Node /\ w[2] \in Node /\ w[1] # w[2]
    BY DEF NetworkAssumption
  <2> QED
    BY <1>2, <2>1, SendRequestKeeps
<1>3. ASSUME NEW q \in net, Deliver(q.to, q)
      PROVE  Inv' /\ SeqStep
  <2>1. Handled(q.to, q)
    BY <1>3, RecvRequestHandled, RecvReplyHandled, ProcessHelloHandled,
       RecvReplyAckHandled, RecvErrorHandled DEF Deliver
  <2> QED
    BY <2>1, HandledKeeps
<1> QED
  BY <1>1, <1>2, <1>3, FaultKeeps DEF Next

LEMMA InvHolds == Spec => []Inv
<1>1. Init => Inv
  BY NetworkAssumption, RingAssumption, SeqModAssumption, InitInv
<1>2. Inv /\ [Next]_vars => Inv'
  BY NetworkAssumption, RingAssumption, SeqModAssumption, StepKeeps
<1> QED
  BY <1>1, <1>2, PTL DEF Spec

\* Tables and messages keep their types, with any number of nodes.
THEOREM NetworkTypeCorrect == Spec => []TypeOK
  BY InvHolds, PTL DEF Inv

\* A valid route of one hop leads straight to its destination, whatever is
\* lost, delayed or reordered.
THEOREM RoutesOfOneHopDirect == Spec => []OneHopIsDirect
<1>1. Inv => OneHopIsDirect
  BY DEF Inv, Good, Sound, OneHopIsDirect, HasValid
<1> QED
  BY <1>1, InvHolds, PTL

\* A known sequence number goes back only on word from its owner, or by the
\* reply the node is waiting for.
THEOREM SeqGoesBackOnlyByOwner == Spec => SeqBackOnlyByOwner
<1>1. Inv /\ [Next]_vars => [SeqStep]_vars
  BY NetworkAssumption, RingAssumption, SeqModAssumption, StepKeeps
<1> QED
  BY <1>1, InvHolds, PTL DEF Spec, SeqBackOnlyByOwner, SeqStep

\* As long as the numbers do not wrap, every sequence number that a node
\* knows, or a message carries, was issued by its owner.
THEOREM NumbersFromOwners ==
  ASSUME MaxRequests + 1 < SeqMod
  PROVE  Spec => []SeqFromOwner
<1> DEFINE J == Inv /\ SeqFromOwner /\ Issued
<1>1. Init => J
  <2> SUFFICES ASSUME Init PROVE SeqFromOwner /\ Issued
    BY NetworkAssumption, RingAssumption, SeqModAssumption, InitInv
  <2> QED
    BY NetworkAssumption DEF Init, SeqFromOwner, Issued, NoRoute, NetworkAssumption
<1>2. J /\ [Next]_vars => J'
  BY NetworkAssumption, RingAssumption, SeqModAssumption, StepKeeps, OwnedKept
<1> QED
  BY <1>1, <1>2, PTL DEF Spec

\* A route, valid or lost, never leads to a node that was not heard: in
\* particular never to 0.0.0.0.
THEOREM NextHopsHeard == Spec => []NextHopWasHeard
<1>1. Init => NextHopWasHeard
  BY DEF Init, NextHopWasHeard, NoRoute
<1>2. Inv /\ NextHopWasHeard /\ [Next]_vars => NextHopWasHeard'
  BY NetworkAssumption, RingAssumption, SeqModAssumption, HeardKept
<1> QED
  BY <1>1, <1>2, InvHolds, PTL DEF Spec

\* No message but an error of the next hop, or the destination, that names it
\* takes a valid route away.
THEOREM RoutesLostByErrors == Spec => LostByErrorsOnly
<1>1. Inv /\ NextHopWasHeard /\ [Next]_vars => [LossStep]_vars
  BY NetworkAssumption, RingAssumption, SeqModAssumption, HeardKept
<1> QED
  BY <1>1, InvHolds, NextHopsHeard, PTL DEF Spec, LostByErrorsOnly, LossStep

LEMMA OwnKnownHolds == Spec => []OwnKnown
<1>1. Init => OwnKnown
  BY DEF Init, OwnKnown
<1>2. Inv /\ OwnKnown /\ [Next]_vars => OwnKnown'
  BY NetworkAssumption, RingAssumption, SeqModAssumption, SendsKept
<1> QED
  BY <1>1, <1>2, InvHolds, PTL DEF Spec

\* A node sends each request of another on at most once, whatever is lost,
\* delayed or reordered, and is not taken in by its own.
THEOREM FloodEnds == Spec => RequestsSentOnce
<1>1. Inv /\ OwnKnown /\ [Next]_vars => [OnceStep]_vars
  BY NetworkAssumption, RingAssumption, SeqModAssumption, SendsKept
<1> QED
  BY <1>1, InvHolds, OwnKnownHolds, PTL DEF Spec, RequestsSentOnce, OnceStep

\* Whoever is sent a reply about a valid route is a precursor of the route,
\* and its next hop a precursor of the way back.
THEOREM UsersOfRepliesTold == Spec => ReplyUsersKnown
<1>1. Inv /\ OwnKnown /\ [Next]_vars => [UsersStep]_vars
  BY NetworkAssumption, RingAssumption, SeqModAssumption, SendsKept
<1> QED
  BY <1>1, InvHolds, OwnKnownHolds, PTL DEF Spec, ReplyUsersKnown, UsersStep
=============================================================================
