------------------------- MODULE ReliableTopicProofs -------------------------
(***************************************************************************)
(* What the operators of the reliable lane return and preserve: for        *)
(* ReaderLane order, once, whole samples, nothing lost unreported; for     *)
(* History and WriterLane that the history stays a sequence of disjoint    *)
(* samples and a lane never stands inside a sample it must not send.  On   *)
(* these rest the invariants of ReliableTopic and its implementation of    *)
(* OrderedDelivery, for every number of readers, every ring depth, window, *)
(* fragmentation and bound, and whatever the network and the consumers do. *)
(***************************************************************************)
EXTENDS ReliableTopic, WellFoundedInduction, TLAPS

-----------------------------------------------------------------------------
(* Minima. *)

\* A nonempty set of seqnos has a minimum, and Min is it: the scans of the C code
\* for the lowest seqno always end at one.
LEMMA MinNat ==
    ASSUME NEW S \in SUBSET Nat, S # {}
    PROVE  /\ Min(S) \in S
           /\ Min(S) \in Nat
           /\ \A y \in S : Min(S) <= y
PROOF
<1> DEFINE R == OpToRel(<, Nat)
<1>1. IsWellFoundedOn(R, Nat)
  BY NatLessThanWellFounded
<1>2. PICK x \in S : \A y \in S : ~(<<y, x>> \in R)
  <2> HIDE DEF R
  <2> QED BY <1>1, WFMin
<1>3. \A y \in S : x <= y
  <2>1. R = {ss \in Nat \X Nat : ss[1] < ss[2]}
    BY DEF OpToRel
  <2> HIDE DEF R
  <2>2. SUFFICES ASSUME NEW y \in S PROVE x <= y
    OBVIOUS
  <2>3. ~(<<y, x>> \in {ss \in Nat \X Nat : ss[1] < ss[2]})
    BY <1>2, <2>1
  <2>4. ~(y < x)
    BY <2>3
  <2> QED BY <2>4
<1> QED BY <1>3 DEF Min

-----------------------------------------------------------------------------
(* The reader's invariant, kept by every operator of ReaderLane.  G is the  *)
(* set of deliveries a reader may make and E the set of positions it may    *)
(* take; ReliableTopicProofs says which they are.                           *)

\* the head slot stands at deliver_upto, the ahead slot past it
Slots(r) ==
    /\ r.cur.on => r.started /\ r.cur.base = r.upto
    /\ r.nxt.on => r.started /\ r.upto < r.nxt.base

\* a slot only holds fragments of its own sample
Fits(a) == \A x \in a.got : a.base <= x /\ x < EndOf(a)

AsDelivery(a) == [base |-> a.base, count |-> a.count]

\* what is assembled and what was handed up are samples of G
Genuine(r, G) ==
    /\ r.cur.on => AsDelivery(r.cur) \in G
    /\ r.nxt.on => AsDelivery(r.nxt) \in G
    /\ \A i \in 1 .. Len(r.log) : r.log[i] \in G

\* samples are handed up in order, and end below deliver_upto
Ordered(r) ==
    /\ \A i, j \in 1 .. Len(r.log) : i < j => EndOf(r.log[i]) <= r.log[j].base
    /\ \A i \in 1 .. Len(r.log) : EndOf(r.log[i]) <= r.upto

HandedUp(r, x) == \E i \in 1 .. Len(r.log) : Covers(r.log[i], x)

\* a seqno from the start to deliver_upto is handed up or reported, not both
Accounted(r) ==
    /\ r.start <= r.upto
    /\ \A x \in r.lost : x < r.upto /\ ~HandedUp(r, x)
    /\ ~Directed => \A x \in r.start .. (r.upto - 1) : HandedUp(r, x) \/ x \in r.lost

\* a reader without a position has nothing yet
Unpositioned(r) ==
    ~r.started => r.upto = 0 /\ r.start = 0 /\ r.log = << >> /\ r.lost = {}

\* every sample of G starts and ends at a position of E
Closed(G, E) == \A d \in G : d.base \in E /\ EndOf(d) \in E

ReaderOK(r, G, E) ==
    /\ r \in ReaderState
    /\ Slots(r) /\ Fits(r.cur) /\ Fits(r.nxt)
    /\ Genuine(r, G) /\ Ordered(r) /\ Accounted(r) /\ Unpositioned(r)
    /\ r.upto \in E

\* From r to q a reader only moves forward.
Moves(r, q) ==
    /\ q.used = r.used /\ q.started = r.started /\ q.start = r.start
    /\ r.upto <= q.upto
    /\ Len(r.log) <= Len(q.log)
    /\ \A i \in 1 .. Len(r.log) : q.log[i] = r.log[i]
    /\ \A i \in 1 .. Len(q.log) : Len(r.log) < i => r.upto <= q.log[i].base
    /\ r.lost \subseteq q.lost
    /\ \A x \in q.lost : x \in r.lost \/ r.upto <= x

\* r and q differ in timers and flags only
SameData(r, q) ==
    /\ q.used = r.used /\ q.started = r.started /\ q.start = r.start /\ q.upto = r.upto
    /\ q.cur = r.cur /\ q.nxt = r.nxt /\ q.log = r.log /\ q.lost = r.lost

\* A step that only touches timers and flags keeps the invariant.
LEMMA SameOK ==
    ASSUME NEW G, NEW E, NEW r, ReaderOK(r, G, E), NEW q \in ReaderState, SameData(r, q)
    PROVE  ReaderOK(q, G, E) /\ Moves(r, q)
PROOF
<1>1. Slots(q) /\ Fits(q.cur) /\ Fits(q.nxt) /\ Genuine(q, G)
  BY DEF ReaderOK, SameData, Slots, Genuine
<1>2. Ordered(q) /\ Accounted(q) /\ Unpositioned(q)
  BY DEF ReaderOK, SameData, Ordered, Accounted, Unpositioned, HandedUp
<1>3. r.upto <= q.upto /\ Len(r.log) <= Len(q.log)
  BY DEF ReaderOK, ReaderState, SameData
<1>4. \A i \in 1 .. Len(q.log) : ~(Len(r.log) < i)
  BY DEF ReaderOK, ReaderState, SameData
<1>5. Moves(r, q)
  BY <1>3, <1>4 DEF Moves, SameData
<1>6. q.upto \in E
  BY DEF ReaderOK, SameData
<1> QED BY <1>1, <1>2, <1>5, <1>6 DEF ReaderOK

\* More samples and more positions do no harm.
LEMMA ReaderMono ==
    ASSUME NEW G, NEW E, NEW H, NEW F, G \subseteq H, E \subseteq F, NEW r, ReaderOK(r, G, E)
    PROVE  ReaderOK(r, H, F)
PROOF
<1>1. Genuine(r, H)
  BY DEF ReaderOK, Genuine
<1> QED BY <1>1 DEF ReaderOK

\* Moving forward twice is moving forward.
LEMMA MovesTrans ==
    ASSUME NEW a \in ReaderState, NEW b \in ReaderState, NEW c \in ReaderState,
           Moves(a, b), Moves(b, c)
    PROVE  Moves(a, c)
PROOF
<1>1. /\ a.upto \in Nat /\ b.upto \in Nat /\ c.upto \in Nat
      /\ Len(a.log) \in Nat /\ Len(b.log) \in Nat /\ Len(c.log) \in Nat
      /\ c.lost \in SUBSET Nat
      /\ \A i \in 1 .. Len(c.log) : c.log[i].base \in Nat
  <2>1. /\ a.upto \in Nat /\ b.upto \in Nat /\ c.upto \in Nat /\ c.lost \in SUBSET Nat
        /\ a.log \in Seq(Delivery) /\ b.log \in Seq(Delivery) /\ c.log \in Seq(Delivery)
    BY DEF ReaderState
  <2>2. \A i \in 1 .. Len(c.log) : c.log[i] \in Delivery
    BY <2>1
  <2>3. \A d \in Delivery : d.base \in Nat
    BY DEF Delivery
  <2> QED BY <2>1, <2>2, <2>3
<1>2. c.used = a.used /\ c.started = a.started /\ c.start = a.start
  BY DEF Moves
<1>3. a.upto <= c.upto /\ Len(a.log) <= Len(c.log) /\ a.lost \subseteq c.lost
  BY <1>1 DEF Moves
<1>4. \A i \in 1 .. Len(a.log) : c.log[i] = a.log[i]
  BY <1>1 DEF Moves
<1>5. ASSUME NEW i \in 1 .. Len(c.log), Len(a.log) < i
      PROVE  a.upto <= c.log[i].base
  <2>1. CASE i <= Len(b.log)
    <3>1. i \in 1 .. Len(b.log)
      BY <2>1, <1>1
    <3> QED BY <3>1, <1>5 DEF Moves
  <2>2. CASE Len(b.log) < i
    <3>1. b.upto <= c.log[i].base
      BY <2>2 DEF Moves
    <3>2. a.upto <= b.upto
      BY DEF Moves
    <3> QED BY <3>1, <3>2, <1>1
  <2> QED BY <2>1, <2>2, <1>1
<1>6. ASSUME NEW x \in c.lost
      PROVE  x \in a.lost \/ a.upto <= x
  <2>1. x \in b.lost \/ b.upto <= x
    BY DEF Moves
  <2>2. x \in b.lost => x \in a.lost \/ a.upto <= x
    BY DEF Moves
  <2>3. a.upto <= b.upto
    BY DEF Moves
  <2> QED BY <2>1, <2>2, <2>3, <1>1
<1> QED BY <1>2, <1>3, <1>4, <1>5, <1>6 DEF Moves

\* Arming an ACKNACK changes nothing of what was received.
LEMMA AckNowOK ==
    ASSUME NEW G, NEW E, NEW r, ReaderOK(r, G, E), NEW f \in BOOLEAN
    PROVE  ReaderOK(AckNow(r, f), G, E) /\ Moves(r, AckNow(r, f))
PROOF
<1>1. AckNow(r, f) \in ReaderState
  BY DEF ReaderOK, AckNow, ReaderState
<1>2. SameData(r, AckNow(r, f))
  BY DEF ReaderOK, AckNow, ReaderState, SameData
<1> QED BY <1>1, <1>2, SameOK

\* Moving deliver_upto settles the ahead slot: it becomes the head, stays ahead or
\* is dropped, and the slots agree with the new position.
LEMMA MoveToState ==
    ASSUME NEW r \in ReaderState, NEW s \in Nat, r.started, Fits(r.nxt)
    PROVE  /\ MoveTo(r, s) \in ReaderState
           /\ Slots(MoveTo(r, s))
           /\ Fits(MoveTo(r, s).cur) /\ Fits(MoveTo(r, s).nxt)
           /\ MoveTo(r, s).cur \in {NoAsm, r.nxt} /\ MoveTo(r, s).nxt \in {NoAsm, r.nxt}
           /\ MoveTo(r, s).upto = s
           /\ MoveTo(r, s).used = r.used
           /\ MoveTo(r, s).started = r.started
           /\ MoveTo(r, s).start = r.start
           /\ MoveTo(r, s).log = r.log
           /\ MoveTo(r, s).lost = r.lost
PROOF
<1>1. MoveTo(r, s) \in ReaderState
  BY DEF MoveTo, Settle, ReaderState, NoAsm, Assembly
<1>2. Slots(MoveTo(r, s))
  BY DEF MoveTo, Settle, ReaderState, NoAsm, Assembly, Slots
<1>3. /\ MoveTo(r, s).upto = s
      /\ MoveTo(r, s).used = r.used
      /\ MoveTo(r, s).started = r.started
      /\ MoveTo(r, s).start = r.start
      /\ MoveTo(r, s).log = r.log
      /\ MoveTo(r, s).lost = r.lost
  BY DEF MoveTo, Settle, ReaderState, NoAsm, Assembly
<1>4. MoveTo(r, s).cur \in {NoAsm, r.nxt} /\ MoveTo(r, s).nxt \in {NoAsm, r.nxt}
  BY DEF MoveTo, Settle, ReaderState
<1>5. Fits(NoAsm)
  BY DEF Fits, NoAsm
<1> QED BY <1>1, <1>2, <1>3, <1>4, <1>5

\* Passing over seqnos: deliver_upto moves from r to s, and what is passed is added
\* to lost, all of it but on a directed topic.
LEMMA SkipOK ==
    ASSUME NEW G, NEW E, NEW r, ReaderOK(r, G, E), r.started,
           NEW s \in Nat, r.upto <= s, s \in E,
           NEW L, L \subseteq r.upto .. (s - 1), ~Directed => L = r.upto .. (s - 1),
           NEW q \in ReaderState,
           q.used = r.used, q.started = r.started, q.start = r.start,
           q.nxt = r.nxt, q.log = r.log, q.lost = r.lost \cup L
    PROVE  ReaderOK(MoveTo(q, s), G, E) /\ Moves(r, MoveTo(q, s))
PROOF
<1> DEFINE m == MoveTo(q, s)
<1>1. Fits(q.nxt)
  BY DEF ReaderOK
<1>2. /\ m \in ReaderState /\ Slots(m) /\ Fits(m.cur) /\ Fits(m.nxt)
      /\ m.cur \in {NoAsm, r.nxt} /\ m.nxt \in {NoAsm, r.nxt}
      /\ m.upto = s /\ m.used = r.used /\ m.started = r.started /\ m.start = r.start
      /\ m.log = r.log /\ m.lost = r.lost \cup L
  BY <1>1, MoveToState
<1> HIDE DEF m
<1>3. /\ r.upto \in Nat /\ r.start \in Nat /\ Len(r.log) \in Nat /\ r.lost \in SUBSET Nat
      /\ \A i \in 1 .. Len(r.log) : EndOf(r.log[i]) \in Nat
  <2>1. r.upto \in Nat /\ r.start \in Nat /\ r.log \in Seq(Delivery) /\ r.lost \in SUBSET Nat
    BY DEF ReaderOK, ReaderState
  <2>2. \A i \in 1 .. Len(r.log) : r.log[i] \in Delivery
    BY <2>1
  <2>3. \A d \in Delivery : EndOf(d) \in Nat
    BY DEF Delivery, EndOf
  <2> QED BY <2>1, <2>2, <2>3
<1>4. Genuine(m, G)
  BY <1>2 DEF ReaderOK, Genuine, NoAsm
<1>5. Ordered(m)
  BY <1>2, <1>3 DEF ReaderOK, Ordered
<1>6. \A x : HandedUp(m, x) <=> HandedUp(r, x)
  BY <1>2 DEF HandedUp
<1>7. \A x \in L : x \in Nat /\ r.upto <= x /\ x < s
  BY <1>3
<1>8. \A x \in L : ~HandedUp(r, x)
  <2>1. \A i \in 1 .. Len(r.log) : EndOf(r.log[i]) <= r.upto
    BY DEF ReaderOK, Ordered
  <2> QED BY <2>1, <1>3, <1>7 DEF HandedUp, Covers
<1>9. Accounted(m)
  <2>1. \A x \in m.lost : x < m.upto /\ ~HandedUp(m, x)
    <3>1. \A x \in r.lost : x < s /\ ~HandedUp(r, x)
      BY <1>3 DEF ReaderOK, Accounted
    <3> QED BY <3>1, <1>2, <1>6, <1>7, <1>8
  <2>2. ASSUME ~Directed, NEW x \in m.start .. (m.upto - 1)
        PROVE  HandedUp(m, x) \/ x \in m.lost
    <3>1. x \in Nat /\ r.start <= x /\ x < s
      BY <1>2, <1>3
    <3>2. CASE x < r.upto
      BY <3>1, <3>2, <2>2, <1>2, <1>3, <1>6 DEF ReaderOK, Accounted
    <3>3. CASE r.upto <= x
      BY <3>1, <3>3, <2>2, <1>2, <1>3
    <3> QED BY <3>1, <3>2, <3>3, <1>3
  <2>3. m.start <= m.upto
    BY <1>2, <1>3 DEF ReaderOK, Accounted
  <2> QED BY <2>1, <2>2, <2>3 DEF Accounted
<1>10. Unpositioned(m)
  BY <1>2 DEF Unpositioned
<1>11. \A i \in 1 .. Len(m.log) : ~(Len(r.log) < i)
  BY <1>2, <1>3
<1>12. Moves(r, m)
  <2>1. r.upto <= m.upto /\ Len(r.log) <= Len(m.log)
    BY <1>2, <1>3
  <2>2. \A x \in m.lost : x \in r.lost \/ r.upto <= x
    BY <1>2, <1>7
  <2> QED BY <2>1, <2>2, <1>2, <1>11 DEF Moves
<1> QED BY <1>2, <1>4, <1>5, <1>9, <1>10, <1>12 DEF ReaderOK, m

\* One turn of the delivery loop keeps the order of what is handed up and accounts
\* for every seqno it passes.
LEMMA HandUpOK ==
    ASSUME NEW G, NEW E, NEW r, ReaderOK(r, G, E), Closed(G, E), NEW ok \in BOOLEAN
    PROVE  ReaderOK(HandUp(r, ok), G, E) /\ Moves(r, HandUp(r, ok))
PROOF
<1>1. CASE ~Complete(r.cur)
  <2>1. HandUp(r, ok) = r
    BY <1>1 DEF HandUp
  <2>2. r \in ReaderState /\ SameData(r, r)
    BY DEF ReaderOK, SameData
  <2> QED BY <2>1, <2>2, SameOK
<1>2. CASE Complete(r.cur) /\ ~ok
  <2>1. HandUp(r, ok) = [r EXCEPT !.parked = TRUE]
    BY <1>2 DEF HandUp
  <2>2. [r EXCEPT !.parked = TRUE] \in ReaderState /\ SameData(r, [r EXCEPT !.parked = TRUE])
    BY DEF ReaderOK, ReaderState, SameData
  <2> QED BY <2>1, <2>2, SameOK
<1>3. CASE Complete(r.cur) /\ ok
  <2> DEFINE d == [base |-> r.cur.base, count |-> r.cur.count]
             g == [r EXCEPT !.lapped = FALSE, !.log = Append(@, d)]
             e == EndOf(r.cur)
             m == MoveTo(g, e)
             n == Len(r.log)
  <2>1. /\ r.cur.on /\ r.started /\ r.cur.base = r.upto
        /\ r.upto \in Nat /\ r.cur.count \in Nat /\ r.log \in Seq(Delivery)
        /\ r.lost \in SUBSET Nat /\ r.start \in Nat
    BY <1>3 DEF Complete, ReaderOK, Slots, ReaderState, Assembly
  <2>2. /\ d \in Delivery /\ d.base = r.upto /\ d.count = r.cur.count /\ d \in G
        /\ e = r.upto + r.cur.count /\ e \in Nat
    BY <2>1 DEF Delivery, EndOf, ReaderOK, Genuine, AsDelivery
  <2>3. Append(r.log, d) \in Seq(Delivery)
    BY <2>1, <2>2
  <2> HIDE DEF d
  <2>4. /\ g \in ReaderState
        /\ g.used = r.used /\ g.started = r.started /\ g.nxt = r.nxt
        /\ g.log = Append(r.log, d) /\ g.lost = r.lost /\ g.start = r.start
    BY <2>1, <2>3 DEF ReaderOK, ReaderState
  <2> HIDE DEF g, e
  <2>5. /\ m \in ReaderState /\ Slots(m) /\ Fits(m.cur) /\ Fits(m.nxt)
        /\ m.cur \in {NoAsm, r.nxt} /\ m.nxt \in {NoAsm, r.nxt}
        /\ m.upto = e /\ m.used = r.used /\ m.started = r.started /\ m.start = r.start
        /\ m.log = Append(r.log, d) /\ m.lost = r.lost
    <3>1. Fits(g.nxt)
      BY <2>4 DEF ReaderOK
    <3> QED BY <3>1, <2>1, <2>2, <2>4, MoveToState
  <2> HIDE DEF m
  <2>6. /\ Len(m.log) = n + 1 /\ n \in Nat
        /\ m.log[n + 1] = d
        /\ \A i \in 1 .. n : m.log[i] = r.log[i] /\ r.log[i] \in Delivery
    BY <2>1, <2>2, <2>5
  <2>7. \A i \in 1 .. n : /\ EndOf(m.log[i]) <= r.upto /\ EndOf(m.log[i]) \in Nat
                           /\ m.log[i].base \in Nat /\ EndOf(m.log[i]) = EndOf(r.log[i])
                           /\ m.log[i].base = r.log[i].base
    BY <2>6 DEF ReaderOK, Ordered, EndOf, Delivery
  <2>8. EndOf(m.log[n + 1]) = e /\ m.log[n + 1].base = r.upto
    BY <2>1, <2>2, <2>6 DEF EndOf
  <2>9. \A i, j \in 1 .. n : i < j => EndOf(m.log[i]) <= m.log[j].base
    BY <2>7 DEF ReaderOK, Ordered
  <2>10. \A i \in 1 .. (n + 1) : i \in 1 .. n \/ i = n + 1
    BY <2>6
  <2>11. \A i \in 1 .. n : m.log[i] \in G
    BY <2>6 DEF ReaderOK, Genuine
  <2> HIDE DEF n
  <2>12. Genuine(m, G)
    <3>1. \A i \in 1 .. Len(m.log) : m.log[i] \in G
      BY <2>2, <2>6, <2>10, <2>11
    <3>2. /\ m.cur.on => AsDelivery(m.cur) \in G
          /\ m.nxt.on => AsDelivery(m.nxt) \in G
      BY <2>5 DEF ReaderOK, Genuine, NoAsm
    <3> QED BY <3>1, <3>2 DEF Genuine
  <2>13. Ordered(m)
    <3>1. \A i \in 1 .. (n + 1) : EndOf(m.log[i]) <= e
      BY <2>1, <2>2, <2>7, <2>8, <2>10
    <3>2. ASSUME NEW i \in 1 .. (n + 1), NEW j \in 1 .. (n + 1), i < j
          PROVE  EndOf(m.log[i]) <= m.log[j].base
      <4>1. i \in 1 .. n
        BY <3>2, <2>6
      <4>2. CASE j \in 1 .. n
        BY <4>1, <4>2, <3>2, <2>9
      <4>3. CASE j = n + 1
        BY <4>1, <4>3, <2>7, <2>8
      <4> QED BY <4>2, <4>3, <2>10
    <3> QED BY <3>1, <3>2, <2>5, <2>6 DEF Ordered
  <2>14. ASSUME NEW x \in Nat
         PROVE  HandedUp(m, x) <=> (HandedUp(r, x) \/ (r.upto <= x /\ x < e))
    <3>1. \A i \in 1 .. n : Covers(m.log[i], x) <=> Covers(r.log[i], x)
      BY <2>7 DEF Covers
    <3>2. Covers(m.log[n + 1], x) <=> (r.upto <= x /\ x < e)
      BY <2>8 DEF Covers
    <3>3. n + 1 \in 1 .. (n + 1) /\ 1 .. n \subseteq 1 .. (n + 1)
      BY <2>6
    <3> QED BY <3>1, <3>2, <3>3, <2>6, <2>10 DEF HandedUp, n
  <2>15. Accounted(m)
    <3>1. \A x \in r.lost : x < e /\ ~HandedUp(m, x)
      BY <2>1, <2>2, <2>14 DEF ReaderOK, Accounted
    <3>2. ASSUME ~Directed, NEW x \in r.start .. (e - 1)
          PROVE  HandedUp(m, x) \/ x \in r.lost
      <4>1. x \in Nat /\ x < e
        BY <2>1, <2>2
      <4>2. CASE x < r.upto
        BY <4>1, <4>2, <3>2, <2>1, <2>14 DEF ReaderOK, Accounted
      <4>3. CASE r.upto <= x
        BY <4>1, <4>3, <2>14
      <4> QED BY <4>1, <4>2, <4>3, <2>1
    <3>3. m.start <= m.upto
      BY <2>1, <2>2, <2>5 DEF ReaderOK, Accounted
    <3> QED BY <3>1, <3>2, <3>3, <2>5 DEF Accounted
  <2>16. ReaderOK(m, G, E)
    <3>1. e \in E
      BY <2>1, <2>2 DEF Closed, EndOf
    <3> QED BY <3>1, <2>1, <2>5, <2>12, <2>13, <2>15 DEF ReaderOK, Unpositioned
  <2>17. Moves(r, m)
    <3>1. r.upto <= m.upto /\ Len(r.log) <= Len(m.log)
      BY <2>1, <2>2, <2>5, <2>6 DEF n
    <3>2. \A i \in 1 .. Len(r.log) : m.log[i] = r.log[i]
      BY <2>6 DEF n
    <3>3. \A i \in 1 .. Len(m.log) : Len(r.log) < i => r.upto <= m.log[i].base
      BY <2>1, <2>6, <2>8, <2>10 DEF n
    <3> QED BY <3>1, <3>2, <3>3, <2>5 DEF Moves
  <2>18. HandUp(r, ok) = AckNow(m, TRUE)
    BY <1>3 DEF HandUp, m, g, e, d
  <2>19. ReaderOK(AckNow(m, TRUE), G, E) /\ Moves(m, AckNow(m, TRUE))
    BY <2>16, AckNowOK
  <2>20. Moves(r, AckNow(m, TRUE))
    BY <2>16, <2>17, <2>19, MovesTrans DEF ReaderOK
  <2> QED BY <2>18, <2>19, <2>20
<1> QED BY <1>1, <1>2, <1>3

\* The delivery loop, head and then the sample held ahead of it.
LEMMA DeliverOK ==
    ASSUME NEW G, NEW E, NEW r, ReaderOK(r, G, E), Closed(G, E), NEW acc \in Nat
    PROVE  ReaderOK(Deliver(r, acc), G, E) /\ Moves(r, Deliver(r, acc))
PROOF
<1> DEFINE h == HandUp(r, TRUE)
<1>1. CASE acc = 0
  BY <1>1, HandUpOK DEF Deliver
<1>2. CASE acc # 0
  <2>1. ReaderOK(h, G, E) /\ Moves(r, h)
    BY HandUpOK
  <2>2. Deliver(r, acc) = HandUp(h, acc > 1)
    BY <1>2 DEF Deliver
  <2> HIDE DEF h
  <2>3. ReaderOK(HandUp(h, acc > 1), G, E) /\ Moves(h, HandUp(h, acc > 1))
    <3>1. (acc > 1) \in BOOLEAN
      OBVIOUS
    <3> QED BY <3>1, <2>1, HandUpOK
  <2>4. Moves(r, HandUp(h, acc > 1))
    BY <2>1, <2>3, MovesTrans DEF ReaderOK
  <2> QED BY <2>2, <2>3, <2>4
<1> QED BY <1>1, <1>2

-----------------------------------------------------------------------------
(* DATA. *)

\* a DATA submessage of a sample of G
Fragment(m, G) ==
    /\ m.base \in Nat /\ m.count \in Nat /\ m.seq \in Nat /\ m.ask \in BOOLEAN
    /\ m.base <= m.seq /\ m.seq < m.base + m.count
    /\ AsDelivery(m) \in G

\* A fragment stored in a slot leaves a slot of the same sample.
LEMMA FillOK ==
    ASSUME NEW G, NEW m, Fragment(m, G), NEW a \in Assembly, Fits(a),
           a.on => a.base = m.base /\ AsDelivery(a) \in G
    PROVE  /\ Fill(a, m) \in Assembly /\ Fits(Fill(a, m))
           /\ Fill(a, m).base = m.base
           /\ AsDelivery(Fill(a, m)) \in G
PROOF
<1>1. CASE ~a.on
  <2> DEFINE b == [on |-> TRUE, base |-> m.base, count |-> m.count, got |-> {m.seq}]
  <2>1. Fill(a, m) = b
    BY <1>1 DEF Fill
  <2>2. b \in Assembly /\ b.base = m.base /\ b.count = m.count /\ b.got = {m.seq}
    BY DEF Assembly, Fragment
  <2> HIDE DEF b
  <2>3. Fits(b)
    BY <2>2 DEF Fits, EndOf, Fragment
  <2>4. AsDelivery(b) \in G
    BY <2>2 DEF AsDelivery, Fragment
  <2> QED BY <2>1, <2>2, <2>3, <2>4
<1>2. CASE a.on /\ a.count = m.count
  <2> DEFINE b == [a EXCEPT !.got = @ \cup {m.seq}]
  <2>1. Fill(a, m) = b
    BY <1>2 DEF Fill
  <2>2. b \in Assembly /\ b.base = a.base /\ b.count = a.count /\ b.got = a.got \cup {m.seq}
    BY DEF Assembly, Fragment
  <2> HIDE DEF b
  <2>3. Fits(b)
    BY <1>2, <2>2 DEF Fits, EndOf, Fragment
  <2>4. AsDelivery(b) \in G
    BY <1>2, <2>2 DEF AsDelivery
  <2> QED BY <1>2, <2>1, <2>2, <2>3, <2>4
<1>3. CASE a.on /\ a.count # m.count
  BY <1>3 DEF Fill
<1> QED BY <1>1, <1>2, <1>3

\* A fragment of the head sample: stored, handed up when it completes the sample, or
\* the sample given up for want of memory.
LEMMA HeadDataOK ==
    ASSUME NEW G, NEW E, NEW r, ReaderOK(r, G, E), Closed(G, E),
           NEW m, Fragment(m, G), r.started, m.base = r.upto,
           NEW mem \in BOOLEAN, NEW acc \in Nat
    PROVE  ReaderOK(HeadData(r, m, mem, acc), G, E) /\ Moves(r, HeadData(r, m, mem, acc))
PROOF
<1> DEFINE f == [r EXCEPT !.cur = Fill(@, m)]
<1>0. r \in ReaderState /\ m.base \in Nat /\ m.count \in Nat
  BY DEF ReaderOK, Fragment
<1>1. CASE ~r.cur.on /\ ~mem
  <2> DEFINE L == m.base .. (m.base + m.count - 1)
             q == [r EXCEPT !.lost = @ \cup L]
             v == MoveTo(q, m.base + m.count)
             a == AckNow(v, TRUE)
  <2>1. /\ L \in SUBSET Nat /\ m.base + m.count \in Nat /\ r.upto <= m.base + m.count
        /\ m.base + m.count \in E
    BY <1>0 DEF Closed, Fragment, AsDelivery, EndOf
  <2>2. L \subseteq r.upto .. ((m.base + m.count) - 1) /\ L = r.upto .. ((m.base + m.count) - 1)
    BY <1>0
  <2> HIDE DEF L
  <2>3. /\ q \in ReaderState /\ q.used = r.used /\ q.started = r.started /\ q.start = r.start
        /\ q.nxt = r.nxt /\ q.log = r.log /\ q.lost = r.lost \cup L
    BY <1>0, <2>1 DEF ReaderState
  <2> HIDE DEF q
  <2>4. ReaderOK(v, G, E) /\ Moves(r, v)
    BY <2>1, <2>2, <2>3, SkipOK
  <2> HIDE DEF v
  <2>5. ReaderOK(a, G, E) /\ Moves(v, a)
    BY <2>4, AckNowOK
  <2> HIDE DEF a
  <2>6. ReaderOK(Deliver(a, acc), G, E) /\ Moves(a, Deliver(a, acc))
    BY <2>5, DeliverOK
  <2>7. Moves(r, a)
    BY <2>4, <2>5, MovesTrans DEF ReaderOK
  <2>8. Moves(r, Deliver(a, acc))
    BY <2>5, <2>6, <2>7, MovesTrans DEF ReaderOK
  <2>9. HeadData(r, m, mem, acc) = Deliver(a, acc)
    BY <1>1 DEF HeadData, TooBig, a, v, q, L
  <2> QED BY <2>6, <2>8, <2>9
<1>2. CASE r.cur.on \/ mem
  <2>1. /\ Fill(r.cur, m) \in Assembly /\ Fits(Fill(r.cur, m))
        /\ Fill(r.cur, m).base = m.base /\ AsDelivery(Fill(r.cur, m)) \in G
    <3>1. r.cur \in Assembly
      BY <1>0 DEF ReaderState
    <3> QED BY <3>1, FillOK DEF ReaderOK, Slots, Genuine
  <2>2. /\ f \in ReaderState /\ f.cur = Fill(r.cur, m) /\ f.nxt = r.nxt /\ f.upto = r.upto
        /\ f.used = r.used /\ f.started = r.started /\ f.start = r.start
        /\ f.log = r.log /\ f.lost = r.lost
    BY <1>0, <2>1 DEF ReaderState
  <2> HIDE DEF f
  <2>3. Slots(f) /\ Fits(f.cur) /\ Fits(f.nxt) /\ Genuine(f, G)
    BY <2>1, <2>2 DEF ReaderOK, Slots, Genuine
  <2>4. Ordered(f) /\ Accounted(f) /\ Unpositioned(f)
    BY <2>2 DEF ReaderOK, Ordered, Accounted, Unpositioned, HandedUp
  <2>5. ReaderOK(f, G, E)
    BY <2>2, <2>3, <2>4 DEF ReaderOK
  <2>6. Moves(r, f)
    <3>1. r.upto <= f.upto /\ Len(r.log) <= Len(f.log)
      BY <1>0, <2>2 DEF ReaderState
    <3>2. \A i \in 1 .. Len(f.log) : ~(Len(r.log) < i)
      BY <1>0, <2>2 DEF ReaderState
    <3> QED BY <3>1, <3>2, <2>2 DEF Moves
  <2>7. ReaderOK(Deliver(f, acc), G, E) /\ Moves(f, Deliver(f, acc))
    BY <2>5, DeliverOK
  <2>8. ReaderOK(AckNow(f, FALSE), G, E) /\ Moves(f, AckNow(f, FALSE))
    BY <2>5, AckNowOK
  <2>9. Moves(r, Deliver(f, acc)) /\ Moves(r, AckNow(f, FALSE))
    BY <2>5, <2>6, <2>7, <2>8, MovesTrans, <1>0 DEF ReaderOK
  <2>10. HeadData(r, m, mem, acc) \in {Deliver(f, acc), AckNow(f, FALSE), f}
    BY <1>2 DEF HeadData, f
  <2> QED BY <2>5, <2>6, <2>7, <2>8, <2>9, <2>10
<1> QED BY <1>1, <1>2

\* A fragment of a later sample is held in the free ahead slot or dropped.
LEMMA AheadDataOK ==
    ASSUME NEW G, NEW E, NEW r, ReaderOK(r, G, E), NEW m, Fragment(m, G), r.started, r.upto < m.base,
           NEW mem \in BOOLEAN
    PROVE  ReaderOK(AheadData(r, m, mem), G, E) /\ Moves(r, AheadData(r, m, mem))
PROOF
<1> DEFINE g == IF r.parked \/ r.pend THEN r ELSE AckNow(r, FALSE)
           f == [g EXCEPT !.nxt = Fill(@, m)]
           taken == r.nxt.on /\ r.nxt.base # m.base
<1>1. ReaderOK(g, G, E) /\ Moves(r, g) /\ g.nxt = r.nxt /\ g.started /\ g.upto = r.upto
  <2>1. CASE r.parked \/ r.pend
    <3>1. g = r /\ r \in ReaderState /\ SameData(r, r)
      BY <2>1 DEF ReaderOK, SameData
    <3> QED BY <3>1, SameOK
  <2>2. CASE ~(r.parked \/ r.pend)
    <3>1. g = AckNow(r, FALSE)
      BY <2>2
    <3>2. /\ AckNow(r, FALSE).nxt = r.nxt /\ AckNow(r, FALSE).started = r.started
          /\ AckNow(r, FALSE).upto = r.upto
      BY DEF AckNow, ReaderOK, ReaderState
    <3> QED BY <3>1, <3>2, AckNowOK
  <2> QED BY <2>1, <2>2
<1>2. AheadData(r, m, mem) = IF taken \/ (~r.nxt.on /\ ~mem) THEN g ELSE f
  BY DEF AheadData
<1> HIDE DEF g
<1>3. CASE taken
  BY <1>1, <1>2, <1>3
<1>4. CASE ~taken
  <2>1. g \in ReaderState /\ g.nxt \in Assembly
    BY <1>1 DEF ReaderOK, ReaderState
  <2>2. g.nxt.on => g.nxt.base = m.base /\ AsDelivery(g.nxt) \in G
    BY <1>1, <1>4 DEF ReaderOK, Genuine
  <2>3. /\ Fill(g.nxt, m) \in Assembly /\ Fits(Fill(g.nxt, m))
        /\ Fill(g.nxt, m).base = m.base /\ AsDelivery(Fill(g.nxt, m)) \in G
    BY <2>1, <2>2, <1>1, FillOK DEF ReaderOK
  <2>4. /\ f \in ReaderState /\ f.nxt = Fill(g.nxt, m) /\ f.cur = g.cur /\ f.upto = g.upto
        /\ f.used = g.used /\ f.started = g.started /\ f.start = g.start
        /\ f.log = g.log /\ f.lost = g.lost
    BY <2>1, <2>3 DEF ReaderState
  <2> HIDE DEF f
  <2>5. Slots(f)
    BY <1>1, <2>3, <2>4 DEF ReaderOK, Slots
  <2>6. Fits(f.cur) /\ Fits(f.nxt) /\ Genuine(f, G)
    BY <1>1, <2>3, <2>4 DEF ReaderOK, Genuine
  <2>7. Ordered(f) /\ Accounted(f) /\ Unpositioned(f)
    BY <1>1, <2>4 DEF ReaderOK, Ordered, Accounted, Unpositioned, HandedUp
  <2>8. ReaderOK(f, G, E)
    BY <1>1, <2>4, <2>5, <2>6, <2>7 DEF ReaderOK
  <2>9. Moves(g, f)
    <3>1. g.upto <= f.upto /\ Len(g.log) <= Len(f.log)
      BY <2>1, <2>4 DEF ReaderState
    <3>2. \A i \in 1 .. Len(f.log) : ~(Len(g.log) < i)
      BY <2>1, <2>4 DEF ReaderState
    <3> QED BY <3>1, <3>2, <2>4 DEF Moves
  <2>10. Moves(r, f)
    BY <1>1, <2>8, <2>9, MovesTrans DEF ReaderOK
  <2> QED BY <1>1, <1>2, <2>8, <2>10
<1> QED BY <1>3, <1>4

\* an unpositioned reader after it adopted the base of a sample
Adopted(r, b) == [r EXCEPT !.upto = b, !.start = b, !.cur = NoAsm, !.started = TRUE]

\* A reader that has a position handles a DATA fragment by moving forward.
LEMMA ReaderDataOK ==
    ASSUME NEW G, NEW E, NEW r, ReaderOK(r, G, E), Closed(G, E), NEW m, Fragment(m, G), r.started,
           NEW mem \in BOOLEAN, NEW acc \in Nat
    PROVE  ReaderOK(ReaderData(r, m, mem, acc), G, E) /\ Moves(r, ReaderData(r, m, mem, acc))
PROOF
<1> DEFINE q == [r EXCEPT !.req = @ \/ m.ask]
           h == [q EXCEPT !.rHigh = Larger(@, m.seq)]
<1>1. q \in ReaderState /\ SameData(r, q)
  BY DEF ReaderOK, ReaderState, SameData, Fragment
<1>2. ReaderOK(q, G, E) /\ Moves(r, q)
  BY <1>1, SameOK
<1>3. h \in ReaderState /\ SameData(r, h)
  <2>1. Larger(q.rHigh, m.seq) \in Nat
    BY <1>1 DEF Larger, ReaderState, Fragment
  <2> HIDE DEF q
  <2>2. h \in ReaderState /\ SameData(q, h)
    BY <1>1, <2>1 DEF ReaderState, SameData
  <2> QED BY <1>1, <2>2 DEF SameData
<1>4. ReaderOK(h, G, E) /\ Moves(r, h)
  BY <1>3, SameOK
<1>5. h.started /\ h.upto = r.upto /\ h.parked = r.parked
  BY <1>3 DEF SameData, ReaderOK, ReaderState
<1>6. m.base \in Nat /\ r.upto \in Nat
  BY DEF Fragment, ReaderOK, ReaderState
<1>7. /\ m.base < r.upto => ReaderData(r, m, mem, acc) = OldData(q)
      /\ r.upto < m.base => ReaderData(r, m, mem, acc) = AheadData(h, m, mem)
      /\ m.base = r.upto => ReaderData(r, m, mem, acc) \in {h, HeadData(h, m, mem, acc)}
  BY <1>6 DEF ReaderData, q, h
<1> HIDE DEF q, h
<1>8. ASSUME NEW z, ReaderOK(z, G, E), Moves(h, z)
      PROVE  Moves(r, z)
  BY <1>4, <1>8, MovesTrans DEF ReaderOK
<1>9. CASE m.base < r.upto
  <2>1. ReaderOK(AckNow(q, TRUE), G, E) /\ Moves(q, AckNow(q, TRUE))
    BY <1>2, AckNowOK
  <2>2. Moves(r, AckNow(q, TRUE))
    BY <1>2, <2>1, MovesTrans DEF ReaderOK
  <2> QED BY <1>2, <1>7, <1>9, <2>1, <2>2 DEF OldData
<1>10. CASE r.upto < m.base
  <2>1. ReaderOK(AheadData(h, m, mem), G, E) /\ Moves(h, AheadData(h, m, mem))
    BY <1>4, <1>5, <1>10, AheadDataOK
  <2> QED BY <1>7, <1>8, <1>10, <2>1
<1>11. CASE m.base = r.upto
  <2>1. ReaderOK(HeadData(h, m, mem, acc), G, E) /\ Moves(h, HeadData(h, m, mem, acc))
    BY <1>4, <1>5, <1>11, HeadDataOK
  <2> QED BY <1>4, <1>7, <1>8, <1>11, <2>1
<1> QED BY <1>6, <1>9, <1>10, <1>11

\* The first DATA an unpositioned reader gets places it at the base of that sample,
\* and it moves on from there.
LEMMA AdoptOK ==
    ASSUME NEW G, NEW E, NEW r, ReaderOK(r, G, E), Closed(G, E), NEW m, Fragment(m, G), ~r.started,
           NEW mem \in BOOLEAN, NEW acc \in Nat
    PROVE  /\ ReaderOK(ReaderData(r, m, mem, acc), G, E)
           /\ ReaderOK(Adopted(r, m.base), G, E)
           /\ Moves(Adopted(r, m.base), ReaderData(r, m, mem, acc))
PROOF
<1> DEFINE o == Adopted(r, m.base)
           q == [r EXCEPT !.req = @ \/ m.ask]
           h == [q EXCEPT !.rHigh = Larger(@, m.seq)]
           b == [h EXCEPT !.upto = m.base, !.start = m.base, !.cur = NoAsm, !.started = TRUE]
<1>1. r \in ReaderState /\ m.base \in Nat /\ r.upto = 0 /\ ~r.cur.on /\ ~r.nxt.on /\ r.log = << >> /\ r.lost = {}
  BY DEF ReaderOK, Unpositioned, Slots, Fragment
<1>2. /\ o \in ReaderState /\ o.upto = m.base /\ o.start = m.base /\ o.started
      /\ o.cur = NoAsm /\ o.nxt = r.nxt /\ o.log = r.log /\ o.lost = r.lost
  BY <1>1 DEF Adopted, ReaderState, NoAsm, Assembly
<1>3. ReaderData(r, m, mem, acc) = HeadData(b, m, mem, acc)
  BY <1>1 DEF ReaderData
<1>4. q \in ReaderState /\ SameData(r, q)
  BY <1>1 DEF ReaderState, SameData, Fragment
<1>5. Larger(q.rHigh, m.seq) \in Nat
  BY <1>4 DEF Larger, ReaderState, Fragment
<1> HIDE DEF q
<1>6. h \in ReaderState /\ SameData(q, h)
  BY <1>4, <1>5 DEF ReaderState, SameData
<1> HIDE DEF h
<1>7. /\ b \in ReaderState /\ b.upto = m.base /\ b.start = m.base /\ b.started
      /\ b.cur = NoAsm /\ b.used = h.used /\ b.nxt = h.nxt /\ b.log = h.log /\ b.lost = h.lost
  BY <1>1, <1>6 DEF ReaderState, NoAsm, Assembly
<1>8. b.used = r.used /\ b.nxt = r.nxt /\ b.log = r.log /\ b.lost = r.lost
  BY <1>4, <1>6, <1>7 DEF SameData
<1> HIDE DEF b, o
<1>9. o.used = r.used
  BY <1>1 DEF o, Adopted, ReaderState
<1>10. SameData(o, b)
  <2>1. b.started = o.started
    BY <1>2, <1>7 DEF ReaderState
  <2> QED BY <2>1, <1>2, <1>7, <1>8, <1>9 DEF SameData
<1>11. ReaderOK(o, G, E)
  <2>1. Slots(o) /\ Fits(o.cur) /\ Fits(o.nxt)
    BY <1>1, <1>2 DEF Slots, NoAsm, Fits, ReaderOK
  <2>2. Genuine(o, G) /\ Ordered(o) /\ Accounted(o) /\ Unpositioned(o)
    BY <1>1, <1>2 DEF Genuine, NoAsm, Ordered, Accounted, HandedUp, Unpositioned
  <2>3. o.upto \in E
    BY <1>2 DEF Closed, Fragment, AsDelivery
  <2> QED BY <2>1, <2>2, <2>3, <1>2 DEF ReaderOK
<1>12. ReaderOK(b, G, E) /\ Moves(o, b)
  BY <1>7, <1>10, <1>11, SameOK
<1>13. ReaderOK(HeadData(b, m, mem, acc), G, E) /\ Moves(b, HeadData(b, m, mem, acc))
  BY <1>7, <1>12, HeadDataOK
<1>14. Moves(o, HeadData(b, m, mem, acc))
  BY <1>11, <1>12, <1>13, MovesTrans DEF ReaderOK
<1> QED BY <1>3, <1>11, <1>13, <1>14 DEF o

-----------------------------------------------------------------------------
(* Heartbeats, parking and the ACKNACK. *)

\* A heartbeat's floor, or the writer's head for a lapped reader, is only ever taken
\* forward, and what it passes is accounted for.
LEMMA ReaderHbOK ==
    ASSUME NEW G, NEW E, NEW r, ReaderOK(r, G, E), Closed(G, E), NEW acc \in Nat,
           NEW m, m.first \in Nat, m.last \in Nat, m.first \in E,
           ~Directed => Larger(m.first, m.last + 1) \in E
    PROVE  ReaderOK(ReaderHb(r, m, acc), G, E) /\ Moves(r, ReaderHb(r, m, acc))
PROOF
<1> DEFINE s == IF HbSkips(r, m) THEN HbSkip(r, m, acc) ELSE r
           t == HbTarget(r, m)
<1>0. r \in ReaderState /\ r.upto \in Nat
  BY DEF ReaderOK, ReaderState
<1>1. ReaderOK(s, G, E) /\ Moves(r, s)
  <2>1. CASE ~HbSkips(r, m)
    <3>1. s = r /\ SameData(r, r)
      BY <2>1 DEF SameData
    <3> QED BY <1>0, <3>1, SameOK
  <2>2. CASE HbSkips(r, m)
    <3> DEFINE L == IF Directed THEN {} ELSE r.upto .. (t - 1)
               q == [r EXCEPT !.lapped = @ \/ ~(Directed \/ r.parked),
                              !.parked = FALSE,
                              !.lost   = IF Directed THEN @ ELSE @ \cup (r.upto .. (t - 1))]
               v == MoveTo(q, t)
    <3>1. r.started /\ t \in Nat /\ r.upto <= t /\ t \in E
      BY <1>0, <2>2 DEF HbSkips, HbTarget, Larger
    <3>2. s = Deliver(v, acc)
      BY <2>2 DEF HbSkip
    <3> HIDE DEF t
    <3>3. L \in SUBSET Nat /\ L \subseteq r.upto .. (t - 1) /\ (~Directed => L = r.upto .. (t - 1))
      BY <1>0, <3>1
    <3>4. (IF Directed THEN r.lost ELSE r.lost \cup (r.upto .. (t - 1))) = r.lost \cup L
      OBVIOUS
    <3> DEFINE k == r.lost \cup L
    <3>5. k \in SUBSET Nat
      BY <1>0, <3>3 DEF ReaderState
    <3>6. q = [r EXCEPT !.lapped = @ \/ ~(Directed \/ r.parked), !.parked = FALSE, !.lost = k]
      BY <3>4
    <3> HIDE DEF q, k, L
    <3>7. /\ q \in ReaderState /\ q.used = r.used /\ q.started = r.started /\ q.start = r.start
          /\ q.nxt = r.nxt /\ q.log = r.log /\ q.lost = k
      BY <1>0, <3>5, <3>6, DirectedAssumption DEF ReaderState
    <3>8. ReaderOK(v, G, E) /\ Moves(r, v)
      BY <3>1, <3>3, <3>7, SkipOK DEF k
    <3> HIDE DEF v
    <3>9. ReaderOK(Deliver(v, acc), G, E) /\ Moves(v, Deliver(v, acc))
      BY <3>8, DeliverOK
    <3>10. Moves(r, Deliver(v, acc))
      BY <3>8, <3>9, MovesTrans DEF ReaderOK
    <3> QED BY <3>2, <3>9, <3>10
  <2> QED BY <2>1, <2>2
<1> DEFINE h == [s EXCEPT !.hbLast = m.last]
<1>2. ReaderHb(r, m, acc) = IF s.parked THEN s ELSE AckNow(h, TRUE)
  BY DEF ReaderHb
<1> HIDE DEF s
<1>3. h \in ReaderState /\ SameData(s, h)
  BY <1>1 DEF ReaderOK, ReaderState, SameData
<1>4. ReaderOK(h, G, E) /\ Moves(s, h)
  BY <1>1, <1>3, SameOK
<1> HIDE DEF h
<1>5. ReaderOK(AckNow(h, TRUE), G, E) /\ Moves(h, AckNow(h, TRUE))
  BY <1>4, AckNowOK
<1>6. Moves(s, AckNow(h, TRUE))
  BY <1>1, <1>4, <1>5, MovesTrans DEF ReaderOK
<1>7. Moves(r, AckNow(h, TRUE))
  BY <1>1, <1>5, <1>6, MovesTrans DEF ReaderOK
<1> QED BY <1>1, <1>2, <1>5, <1>7

\* A consumer with room again resumes delivery where it stopped.
LEMMA UnparkOK ==
    ASSUME NEW G, NEW E, NEW r, ReaderOK(r, G, E), Closed(G, E), NEW acc \in Nat
    PROVE  ReaderOK(Unpark(r, acc), G, E) /\ Moves(r, Unpark(r, acc))
PROOF
<1> DEFINE q == [r EXCEPT !.parked = FALSE]
<1>1. q \in ReaderState /\ SameData(r, q)
  BY DEF ReaderOK, ReaderState, SameData
<1>2. ReaderOK(q, G, E) /\ Moves(r, q)
  BY <1>1, SameOK
<1>3. Unpark(r, acc) = Deliver(q, acc)
  BY DEF Unpark
<1> HIDE DEF q
<1>4. ReaderOK(Deliver(q, acc), G, E) /\ Moves(q, Deliver(q, acc))
  BY <1>2, DeliverOK
<1>5. Moves(r, Deliver(q, acc))
  BY <1>2, <1>4, MovesTrans DEF ReaderOK
<1> QED BY <1>3, <1>4, <1>5

\* the head slot holds the sample deliver_upto stands at
HeadPlaced(r) == r \in ReaderState /\ Fits(r.cur) /\ (r.cur.on => r.cur.base = r.upto)

\* The cumulative ack point is a seqno between deliver_upto and the end of the head.
LEMMA FirstMissingOf ==
    ASSUME NEW r, HeadPlaced(r)
    PROVE  /\ FirstMissing(r) \in Nat /\ r.upto <= FirstMissing(r)
           /\ r.cur.on => FirstMissing(r) <= EndOf(r.cur)
PROOF
<1>1. CASE ~r.cur.on
  BY <1>1 DEF FirstMissing, HeadPlaced, ReaderState
<1>2. CASE r.cur.on
  <2> DEFINE S == (r.cur.base .. EndOf(r.cur)) \ r.cur.got
  <2>1. r.cur.base \in Nat /\ r.cur.count \in Nat /\ r.cur.base = r.upto
    BY <1>2 DEF HeadPlaced, ReaderState, Assembly
  <2>2. EndOf(r.cur) \in S
    BY <2>1 DEF HeadPlaced, Fits, EndOf
  <2>3. S \in SUBSET Nat
    BY <2>1 DEF EndOf
  <2>4. Min(S) \in S /\ Min(S) \in Nat /\ Min(S) <= EndOf(r.cur)
    <3> HIDE DEF S
    <3> QED BY <2>2, <2>3, MinNat
  <2>5. r.cur.base <= Min(S)
    <3>1. \A x \in S : r.cur.base <= x
      BY <2>1 DEF EndOf
    <3> QED BY <3>1, <2>4
  <2>6. FirstMissing(r) = Min(S)
    BY <1>2 DEF FirstMissing, Front
  <2> QED BY <2>1, <2>4, <2>5, <2>6
<1> QED BY <1>1, <1>2

\* So it is for a reader the invariant describes.
LEMMA FirstMissingOK ==
    ASSUME NEW G, NEW E, NEW r, ReaderOK(r, G, E)
    PROVE  /\ HeadPlaced(r)
           /\ FirstMissing(r) \in Nat /\ r.upto <= FirstMissing(r)
           /\ r.cur.on => FirstMissing(r) <= EndOf(r.cur)
PROOF
<1>1. HeadPlaced(r)
  BY DEF ReaderOK, HeadPlaced, Slots
<1> QED BY <1>1, FirstMissingOf

\* The bits of an ACKNACK fit the window above its base.
LEMMA AskedOf ==
    ASSUME NEW r, HeadPlaced(r), NEW due \in BOOLEAN
    PROVE  /\ AskTop(r, due) \in Nat
           /\ Asked(r, due) \subseteq FirstMissing(r) .. (FirstMissing(r) + NackWindow - 1)
PROOF
<1> DEFINE fm == FirstMissing(r)
<1>1. fm \in Nat
  BY FirstMissingOf
<1>2. /\ r.rHigh \in Nat /\ r.hbLast \in Nat /\ r.nHigh \in Nat
      /\ r.cur.base \in Nat /\ r.cur.count \in Nat /\ r.nxt.base \in Nat /\ r.nxt.count \in Nat
      /\ r.cur.on \in BOOLEAN /\ r.nxt.on \in BOOLEAN
  BY DEF HeadPlaced, ReaderState, Assembly
<1>3. Bound(r, due) \in Nat
  BY <1>2 DEF Bound, Larger
<1>4. HeldEndOf(r, due) \in Nat
  <2>1. EndOf(r.cur) \in Nat /\ EndOf(r.nxt) \in Nat
    BY <1>2 DEF EndOf
  <2> QED BY <1>2, <1>3, <2>1 DEF HeldEndOf
<1>5. AskTop(r, due) \in Nat /\ AskTop(r, due) <= fm + NackWindow
  BY <1>1, <1>3, <1>4, NackWindowAssumption DEF AskTop, Smaller
<1>6. AskFrom(r, due) \in Nat /\ fm <= AskFrom(r, due)
  BY <1>1, <1>2 DEF AskFrom, Larger
<1>7. Asked(r, due) \subseteq AskFrom(r, due) .. (AskTop(r, due) - 1)
  BY DEF Asked
<1> HIDE DEF fm
<1>8. AskFrom(r, due) .. (AskTop(r, due) - 1) \subseteq fm .. (fm + NackWindow - 1)
  BY <1>1, <1>5, <1>6, NackWindowAssumption
<1> QED BY <1>5, <1>7, <1>8 DEF fm

\* So they do for a reader the invariant describes.
LEMMA AskedOK ==
    ASSUME NEW G, NEW E, NEW r, ReaderOK(r, G, E), NEW due \in BOOLEAN
    PROVE  /\ AskTop(r, due) \in Nat
           /\ Asked(r, due) \subseteq FirstMissing(r) .. (FirstMissing(r) + NackWindow - 1)
  BY FirstMissingOK, AskedOf

\* Emitting spends the armed flags and changes nothing of what was received.
LEMMA AfterEmitOK ==
    ASSUME NEW G, NEW E, NEW r, ReaderOK(r, G, E), NEW due \in BOOLEAN
    PROVE  ReaderOK(AfterEmit(r, due), G, E) /\ Moves(r, AfterEmit(r, due))
PROOF
<1> DEFINE quiet == [r EXCEPT !.pend = FALSE, !.force = FALSE, !.req = FALSE]
           k == IF Asked(r, due) = {} THEN quiet.nHigh ELSE Larger(quiet.nHigh, AskTop(r, due))
           a == [quiet EXCEPT !.pend = TRUE, !.nHigh = k]
           b == [quiet EXCEPT !.nHigh = FirstMissing(r)]
<1>1. quiet \in ReaderState /\ SameData(r, quiet)
  BY DEF ReaderOK, ReaderState, SameData
<1>2. AfterEmit(r, due) \in {quiet, a, b}
  BY DEF AfterEmit
<1> HIDE DEF quiet
<1>3. k \in Nat /\ FirstMissing(r) \in Nat
  BY <1>1, AskedOK, FirstMissingOK DEF ReaderState, Larger
<1> HIDE DEF k
<1>4. a \in ReaderState /\ SameData(quiet, a) /\ b \in ReaderState /\ SameData(quiet, b)
  BY <1>1, <1>3 DEF ReaderState, SameData
<1>5. SameData(r, a) /\ SameData(r, b)
  BY <1>1, <1>4 DEF SameData
<1> QED BY <1>1, <1>2, <1>4, <1>5, SameOK

\* A new incarnation, and no reader at all.
LEMMA FreshReaderOK ==
    ASSUME NEW G, NEW E, 0 \in E, NEW e \in Nat
    PROVE  ReaderOK(Matched(e), G, E) /\ ReaderOK(NoReader, G, E)
PROOF
<1>1. Matched(e) \in ReaderState /\ NoReader \in ReaderState
  <2>1. << >> \in Seq(Delivery) /\ {} \in SUBSET Nat /\ NoAsm \in Assembly
    BY DEF NoAsm, Assembly
  <2>2. NoReader \in ReaderState
    BY <2>1 DEF NoReader, ReaderState
  <2>3. Matched(e) \in ReaderState
    BY <2>2 DEF Matched, ReaderState
  <2> QED BY <2>2, <2>3
<1>2. \A r \in {Matched(e), NoReader} :
         /\ r.cur = NoAsm /\ r.nxt = NoAsm /\ r.log = << >> /\ r.lost = {} /\ r.upto = 0 /\ r.start = 0
  <2>1. /\ NoReader.cur = NoAsm /\ NoReader.nxt = NoAsm /\ NoReader.log = << >> /\ NoReader.lost = {}
        /\ NoReader.upto = 0 /\ NoReader.start = 0
    BY DEF NoReader
  <2>2. /\ Matched(e).cur = NoReader.cur /\ Matched(e).nxt = NoReader.nxt
        /\ Matched(e).log = NoReader.log /\ Matched(e).lost = NoReader.lost
        /\ Matched(e).upto = NoReader.upto /\ Matched(e).start = NoReader.start
    BY <1>1 DEF Matched, ReaderState
  <2> QED BY <2>1, <2>2
<1>3. ASSUME NEW r \in {Matched(e), NoReader}
      PROVE  ReaderOK(r, G, E)
  <2>1. Slots(r) /\ Fits(r.cur) /\ Fits(r.nxt)
    BY <1>2 DEF Slots, Fits, NoAsm
  <2>2. Genuine(r, G) /\ Ordered(r) /\ Accounted(r) /\ Unpositioned(r)
    BY <1>2 DEF Genuine, NoAsm, Ordered, Accounted, HandedUp, Unpositioned
  <2> QED BY <1>1, <1>2, <2>1, <2>2 DEF ReaderOK
<1> QED BY <1>3

-----------------------------------------------------------------------------
(* The history. *)

TopicOK(t) ==
    /\ t \in TopicState
    /\ t.smp = << >> => t.lo = 1
    /\ t.smp # << >> => t.lo \in 1 .. Len(t.smp)
    /\ \A i, j \in 1 .. Len(t.smp) : i < j => EndOf(t.smp[i]) <= t.smp[j].base

\* the samples reader p may be given
Deliverable(t, p) == {AsDelivery(t.smp[k]) : k \in {j \in 1 .. Len(t.smp) : ~Foreign(t.smp[j], p)}}

\* the seqnos a lane to p may stand at: never inside a sample addressed to others
Edges(t, p) ==
    {x \in 0 .. NextSeqno(t) : \A k \in 1 .. Len(t.smp) :
        t.smp[k].base < x /\ x < EndOf(t.smp[k]) => ~Foreign(t.smp[k], p)}

\* The samples and their bounds are numbers, all below next_seqno.
LEMMA TopicFacts ==
    ASSUME NEW t, TopicOK(t)
    PROVE  /\ t.smp \in Seq(Sample) /\ Len(t.smp) \in Nat
           /\ \A i \in 1 .. Len(t.smp) :
                 /\ t.smp[i] \in Sample /\ t.smp[i].base \in Nat /\ t.smp[i].count \in Nat
                 /\ EndOf(t.smp[i]) = t.smp[i].base + t.smp[i].count
                 /\ t.smp[i].base < EndOf(t.smp[i]) /\ EndOf(t.smp[i]) \in Nat
           /\ NextSeqno(t) \in Nat /\ FirstSeqno(t) \in Nat
           /\ \A i \in 1 .. Len(t.smp) : EndOf(t.smp[i]) <= NextSeqno(t)
           /\ Cached(t) \subseteq 1 .. Len(t.smp)
PROOF
<1>1. t.smp \in Seq(Sample) /\ Len(t.smp) \in Nat /\ t.lo \in Nat
  BY DEF TopicOK, TopicState
<1>2. \A s \in Sample : /\ s.base \in Nat /\ s.count \in Nat /\ s.count > 0
                        /\ EndOf(s) = s.base + s.count
  BY DEF Sample, EndOf
<1>3. \A i \in 1 .. Len(t.smp) : t.smp[i] \in Sample
  BY <1>1
<1>4. \A i \in 1 .. Len(t.smp) :
         /\ t.smp[i].base \in Nat /\ t.smp[i].count \in Nat
         /\ EndOf(t.smp[i]) = t.smp[i].base + t.smp[i].count
         /\ t.smp[i].base < EndOf(t.smp[i]) /\ EndOf(t.smp[i]) \in Nat
  BY <1>2, <1>3
<1>5. t.smp # << >> => Len(t.smp) \in 1 .. Len(t.smp) /\ t.lo \in 1 .. Len(t.smp)
  BY <1>1 DEF TopicOK
<1>6. t.smp = << >> => Len(t.smp) = 0
  BY <1>1
<1>7. NextSeqno(t) \in Nat /\ FirstSeqno(t) \in Nat
  BY <1>4, <1>5 DEF NextSeqno, FirstSeqno
<1>8. ASSUME NEW i \in 1 .. Len(t.smp)
      PROVE  EndOf(t.smp[i]) <= NextSeqno(t)
  <2>1. t.smp # << >>
    BY <1>1, <1>6
  <2>2. NextSeqno(t) = EndOf(t.smp[Len(t.smp)])
    BY <2>1 DEF NextSeqno
  <2>3. CASE i = Len(t.smp)
    BY <2>2, <2>3, <1>4
  <2>4. CASE i < Len(t.smp)
    <3>1. EndOf(t.smp[i]) <= t.smp[Len(t.smp)].base
      BY <2>1, <2>4, <1>5 DEF TopicOK
    <3> QED BY <3>1, <2>1, <2>2, <1>4, <1>5
  <2> QED BY <2>3, <2>4, <1>1
<1>9. Cached(t) \subseteq 1 .. Len(t.smp)
  BY <1>1, <1>5, <1>6 DEF Cached, TopicOK
<1> QED BY <1>1, <1>3, <1>4, <1>7, <1>8, <1>9

\* No two samples share a seqno.
LEMMA Disjoint ==
    ASSUME NEW t, TopicOK(t), NEW i \in 1 .. Len(t.smp), NEW j \in 1 .. Len(t.smp),
           NEW x \in Nat, t.smp[i].base <= x, x < EndOf(t.smp[i]),
           t.smp[j].base <= x, x < EndOf(t.smp[j])
    PROVE  i = j
PROOF
<1>0. /\ t.smp[i].base \in Nat /\ EndOf(t.smp[i]) \in Nat
      /\ t.smp[j].base \in Nat /\ EndOf(t.smp[j]) \in Nat
      /\ i \in Int /\ j \in Int
  BY TopicFacts
<1>1. ~(i < j)
  <2>1. i < j => EndOf(t.smp[i]) <= t.smp[j].base
    BY DEF TopicOK
  <2> QED BY <2>1, <1>0
<1>2. ~(j < i)
  <2>1. j < i => EndOf(t.smp[j]) <= t.smp[i].base
    BY DEF TopicOK
  <2> QED BY <2>1, <1>0
<1> QED BY <1>0, <1>1, <1>2

\* The ends of the history and of its samples are places to stand at, and so is every
\* seqno of a sample that may be given to p.
LEMMA EdgesOK ==
    ASSUME NEW t, TopicOK(t), NEW p
    PROVE  /\ Edges(t, p) \subseteq Nat
           /\ 0 \in Edges(t, p)
           /\ NextSeqno(t) \in Edges(t, p)
           /\ FirstSeqno(t) \in Edges(t, p)
           /\ \A k \in 1 .. Len(t.smp) : t.smp[k].base \in Edges(t, p)
           /\ \A k \in 1 .. Len(t.smp) : \A x \in Nat :
                 ~Foreign(t.smp[k], p) /\ t.smp[k].base <= x /\ x <= EndOf(t.smp[k])
                    => x \in Edges(t, p)
PROOF
<1>1. Edges(t, p) \subseteq Nat
  BY TopicFacts DEF Edges
<1>2. 0 \in Edges(t, p) /\ NextSeqno(t) \in Edges(t, p)
  BY TopicFacts DEF Edges
<1>3. ASSUME NEW k \in 1 .. Len(t.smp)
      PROVE  t.smp[k].base \in Edges(t, p)
  <2>1. t.smp[k].base \in 0 .. NextSeqno(t)
    BY TopicFacts
  <2>2. ASSUME NEW j \in 1 .. Len(t.smp), t.smp[j].base < t.smp[k].base, t.smp[k].base < EndOf(t.smp[j])
        PROVE  FALSE
    <3>1. /\ t.smp[k].base \in Nat /\ t.smp[k].base <= t.smp[k].base
          /\ t.smp[k].base < EndOf(t.smp[k]) /\ t.smp[j].base <= t.smp[k].base
      BY <2>2, TopicFacts
    <3>2. j = k
      BY <2>2, <3>1, Disjoint
    <3> QED BY <3>2, <2>2, TopicFacts
  <2> QED BY <2>1, <2>2 DEF Edges
<1>4. FirstSeqno(t) \in Edges(t, p)
  BY <1>2, <1>3 DEF FirstSeqno, TopicOK
<1>5. ASSUME NEW k \in 1 .. Len(t.smp), NEW x \in Nat,
             ~Foreign(t.smp[k], p), t.smp[k].base <= x, x <= EndOf(t.smp[k])
      PROVE  x \in Edges(t, p)
  <2>1. x \in 0 .. NextSeqno(t)
    BY <1>5, TopicFacts
  <2>2. ASSUME NEW j \in 1 .. Len(t.smp), t.smp[j].base < x, x < EndOf(t.smp[j])
        PROVE  ~Foreign(t.smp[j], p)
    <3>1. CASE x < EndOf(t.smp[k])
      <4>1. t.smp[j].base \in Nat /\ t.smp[j].base <= x
        BY <2>2, TopicFacts
      <4>2. j = k
        BY <1>5, <2>2, <3>1, <4>1, Disjoint
      <4> QED BY <4>2, <1>5
    <3>2. CASE x = EndOf(t.smp[k])
      <4>1. CASE j = k
        BY <4>1, <3>2, <2>2, TopicFacts
      <4>2. CASE j < k
        <5>1. EndOf(t.smp[j]) <= t.smp[k].base
          BY <4>2 DEF TopicOK
        <5> QED BY <5>1, <1>5, <2>2, TopicFacts
      <4>3. CASE k < j
        <5>1. EndOf(t.smp[k]) <= t.smp[j].base
          BY <4>3 DEF TopicOK
        <5> QED BY <5>1, <3>2, <2>2, TopicFacts
      <4> QED BY <4>1, <4>2, <4>3
    <3> QED BY <1>5, <3>1, <3>2, TopicFacts
  <2> QED BY <2>1, <2>2 DEF Edges
<1> QED BY <1>1, <1>2, <1>3, <1>4, <1>5

\* Sealing appends one sample after all others and keeps at least the newest one.
LEMMA SealOK ==
    ASSUME NEW t, TopicOK(t), NEW c \in Nat \ {0}, NEW d \in Readers \cup {DestAll, DestNone}
    PROVE  /\ TopicOK(Seal(t, c, d))
           /\ Seal(t, c, d).smp = Append(t.smp, [base |-> NextSeqno(t), count |-> c, dest |-> d])
           /\ NextSeqno(Seal(t, c, d)) = NextSeqno(t) + c
PROOF
<1> DEFINE new == [base |-> NextSeqno(t), count |-> c, dest |-> d]
           s == Append(t.smp, new)
           l == IF Len(s) < t.lo + KeepLast THEN t.lo ELSE t.lo + 1
           u == Seal(t, c, d)
           n == Len(t.smp)
<1>1. /\ t.smp \in Seq(Sample) /\ n \in Nat /\ NextSeqno(t) \in Nat
      /\ t.lo \in Nat /\ KeepLast \in Nat /\ KeepLast > 0 /\ t \in TopicState
  BY TopicFacts, KeepLastAssumption DEF TopicOK, TopicState
<1>2. new \in Sample /\ new.base = NextSeqno(t) /\ EndOf(new) = NextSeqno(t) + c
  BY <1>1 DEF Sample, EndOf
<1> HIDE DEF new
<1>3. /\ s \in Seq(Sample) /\ Len(s) = n + 1 /\ s # << >>
      /\ s[n + 1] = new /\ \A i \in 1 .. n : s[i] = t.smp[i]
  <2>1. /\ s \in Seq(Sample) /\ Len(s) = n + 1
        /\ s[n + 1] = new /\ \A i \in 1 .. n : s[i] = t.smp[i]
    BY <1>1, <1>2
  <2>2. Len(<< >>) = 0
    OBVIOUS
  <2> QED BY <2>1, <2>2, <1>1
<1>4. t.lo \in 1 .. (n + 1)
  BY <1>1 DEF TopicOK
<1>5. l \in 1 .. Len(s) /\ l \in Nat
  BY <1>1, <1>3, <1>4
<1>6. u = [t EXCEPT !.smp = s, !.lo = l]
  BY DEF Seal, new
<1> HIDE DEF s, l, u, n
<1>7. u \in TopicState /\ u.smp = s /\ u.lo = l
  BY <1>1, <1>3, <1>5, <1>6 DEF TopicState
<1>8. ASSUME NEW i \in 1 .. Len(s), NEW j \in 1 .. Len(s), i < j
      PROVE  EndOf(s[i]) <= s[j].base
  <2>1. i \in 1 .. n /\ (j \in 1 .. n \/ j = n + 1)
    BY <1>8, <1>3, <1>1
  <2>2. CASE j \in 1 .. n
    BY <2>1, <2>2, <1>3, <1>8 DEF TopicOK, n
  <2>3. CASE j = n + 1
    BY <2>1, <2>3, <1>2, <1>3, TopicFacts DEF n
  <2> QED BY <2>1, <2>2, <2>3
<1>9. TopicOK(u)
  BY <1>3, <1>5, <1>7, <1>8 DEF TopicOK
<1>10. NextSeqno(u) = NextSeqno(t) + c
  BY <1>2, <1>3, <1>7 DEF NextSeqno
<1> QED BY <1>7, <1>9, <1>10 DEF u, s, new

\* Sealing takes no sample and no position from anybody.
LEMMA SealMono ==
    ASSUME NEW t, TopicOK(t), NEW c \in Nat \ {0}, NEW d \in Readers \cup {DestAll, DestNone}, NEW p
    PROVE  /\ Deliverable(t, p) \subseteq Deliverable(Seal(t, c, d), p)
           /\ Edges(t, p) \subseteq Edges(Seal(t, c, d), p)
PROOF
<1> DEFINE u == Seal(t, c, d)
           n == Len(t.smp)
           new == [base |-> NextSeqno(t), count |-> c, dest |-> d]
<1>1. /\ n \in Nat /\ NextSeqno(t) \in Nat /\ TopicOK(u) /\ u.smp = Append(t.smp, new)
      /\ NextSeqno(u) = NextSeqno(t) + c /\ t.smp \in Seq(Sample)
  BY TopicFacts, SealOK
<1>2. new.base = NextSeqno(t)
  OBVIOUS
<1> HIDE DEF new, u
<1>3. Len(u.smp) = n + 1 /\ u.smp[n + 1] = new /\ \A i \in 1 .. n : u.smp[i] = t.smp[i]
  BY <1>1
<1>4. \A i \in 1 .. n : i \in 1 .. Len(u.smp)
  BY <1>1, <1>3
<1>5. Deliverable(t, p) \subseteq Deliverable(u, p)
  BY <1>3, <1>4 DEF Deliverable
<1>6. ASSUME NEW x \in Edges(t, p)
      PROVE  x \in Edges(u, p)
  <2>1. x \in Nat /\ x <= NextSeqno(t)
    BY <1>1 DEF Edges
  <2>2. x \in 0 .. NextSeqno(u)
    BY <1>1, <2>1
  <2>3. ASSUME NEW k \in 1 .. Len(u.smp), u.smp[k].base < x, x < EndOf(u.smp[k])
        PROVE  ~Foreign(u.smp[k], p)
    <3>1. CASE k \in 1 .. n
      BY <3>1, <2>3, <1>3 DEF Edges
    <3>2. CASE k = n + 1
      BY <3>2, <2>1, <2>3, <1>1, <1>2, <1>3
    <3> QED BY <3>1, <3>2, <1>1, <1>3
  <2> QED BY <2>2, <2>3 DEF Edges
<1> QED BY <1>5, <1>6 DEF u

\* What sample_find returns is a cached sample that covers the seqno.
LEMMA FindOK ==
    ASSUME NEW t, TopicOK(t), NEW x \in Nat, Found(t, x)
    PROVE  \E k \in Cached(t) : Find(t, x) = t.smp[k] /\ Covers(t.smp[k], x)
  BY DEF Found, Find

\* A new reader joins at the start of a sample or at the head.
LEMMA JoinSeqnoOK ==
    ASSUME NEW t, TopicOK(t), NEW p
    PROVE  JoinSeqno(t) \in Edges(t, p) /\ JoinSeqno(t) \in Nat
PROOF
<1> DEFINE replay == {i \in Cached(t) : \/ i + CatchUp > Len(t.smp)
                                        \/ t.fresh /\ ~Directed /\ t.smp[i].base >= t.freshFrom}
           S == {t.smp[i].base : i \in replay} \cup {NextSeqno(t)}
<1>1. JoinSeqno(t) = Min(S)
  BY DEF JoinSeqno
<1>2. replay \subseteq 1 .. Len(t.smp)
  BY TopicFacts
<1> HIDE DEF replay
<1>3. S \subseteq Edges(t, p) /\ S # {} /\ S \in SUBSET Nat
  BY <1>2, EdgesOK, TopicFacts
<1> HIDE DEF S
<1>4. Min(S) \in S
  BY <1>3, MinNat
<1> QED BY <1>1, <1>3, <1>4

-----------------------------------------------------------------------------
(* The lane. *)

\* a lane stands at edges, asks within one window and owes a floor heartbeat only
\* once something was sent
LaneOK(t, p, w) ==
    /\ w \in WriterState
    /\ w.sent \in Edges(t, p) /\ w.acked \in Edges(t, p)
    /\ w.nack \subseteq w.nackBase .. (w.nackBase + NackWindow - 1)
    /\ w.skipHb => t.smp # << >>

\* A lane keeps its place when the history grows.
LEMMA LaneMono ==
    ASSUME NEW t, NEW u, NEW p, NEW w, LaneOK(t, p, w),
           Edges(t, p) \subseteq Edges(u, p), t.smp # << >> => u.smp # << >>
    PROVE  LaneOK(u, p, w)
  BY DEF LaneOK

\* Setting the requests of a lane.
LEMMA WithNackOK ==
    ASSUME NEW t, NEW p, NEW w, w \in WriterState,
           w.sent \in Edges(t, p), w.acked \in Edges(t, p), w.skipHb => t.smp # << >>,
           NEW base \in Nat, NEW bits, bits \subseteq base .. (base + NackWindow - 1)
    PROVE  LaneOK(t, p, WithNack(w, bits, base))
PROOF
<1> DEFINE b == IF bits = {} THEN 0 ELSE base
           v == [w EXCEPT !.nack = bits, !.nackBase = b]
<1>1. bits \in SUBSET Nat /\ b \in Nat /\ bits \subseteq b .. (b + NackWindow - 1)
  BY NackWindowAssumption
<1>2. WithNack(w, bits, base) = v
  BY DEF WithNack
<1> HIDE DEF b
<1>3. /\ v \in WriterState /\ v.nack = bits /\ v.nackBase = b
      /\ v.sent = w.sent /\ v.acked = w.acked /\ v.skipHb = w.skipHb
  BY <1>1 DEF WriterState
<1> QED BY <1>1, <1>2, <1>3 DEF LaneOK

\* Stepping over foreign samples ends at an edge, and never before the start.
LEMMA StepOverOK ==
    ASSUME NEW t, TopicOK(t), NEW p, NEW x \in Edges(t, p)
    PROVE  /\ StepOver(t, p, x) \in Edges(t, p)
           /\ StepOver(t, p, x) \in Nat
           /\ StepOver(t, p, x) # x => t.smp # << >>
           /\ (\E i \in Cached(t) : Covers(t.smp[i], x) /\ Foreign(t.smp[i], p)) =>
                \/ StepOver(t, p, x) = NextSeqno(t)
                \/ \E k \in Cached(t) : StepOver(t, p, x) = t.smp[k].base /\ ~Foreign(t.smp[k], p)
PROOF
<1> DEFINE J == {j \in Cached(t) : t.smp[j].base > x /\ ~Foreign(t.smp[j], p)}
           S == {t.smp[i].base : i \in J} \cup {NextSeqno(t)}
<1>0. x \in Nat
  BY EdgesOK
<1>1. CASE \E i \in Cached(t) : Covers(t.smp[i], x) /\ Foreign(t.smp[i], p)
  <2>1. StepOver(t, p, x) = Min(S)
    BY <1>1 DEF StepOver
  <2>2. J \subseteq 1 .. Len(t.smp) /\ J \subseteq Cached(t) /\ \A j \in J : ~Foreign(t.smp[j], p)
    BY TopicFacts
  <2> HIDE DEF J
  <2>3. S \subseteq Edges(t, p) /\ S # {} /\ S \in SUBSET Nat
    BY <2>2, EdgesOK, TopicFacts
  <2>4. \A y \in S : y = NextSeqno(t) \/ \E k \in Cached(t) : y = t.smp[k].base /\ ~Foreign(t.smp[k], p)
    BY <2>2
  <2> HIDE DEF S
  <2>5. Min(S) \in S
    BY <2>3, MinNat
  <2>6. t.smp # << >>
    <3>1. PICK i \in 1 .. Len(t.smp) : TRUE
      BY <1>1, TopicFacts
    <3> QED BY <3>1
  <2> QED BY <2>1, <2>3, <2>4, <2>5, <2>6
<1>2. CASE ~\E i \in Cached(t) : Covers(t.smp[i], x) /\ Foreign(t.smp[i], p)
  BY <1>0, <1>2 DEF StepOver
<1> QED BY <1>1, <1>2

\* The advance leaves the lane on edges, and what it would push next is for p.
LEMMA LaneAdvanceOK ==
    ASSUME NEW t, TopicOK(t), NEW p, NEW w, LaneOK(t, p, w)
    PROVE  /\ LaneOK(t, p, LaneAdvance(t, p, w))
           /\ LaneAdvance(t, p, w).nack = w.nack
           /\ LaneAdvance(t, p, w).nackBase = w.nackBase
           /\ \A k \in Cached(t) : Covers(t.smp[k], LaneAdvance(t, p, w).sent) => ~Foreign(t.smp[k], p)
PROOF
<1> DEFINE a == StepOver(t, p, w.acked)
           s == IF w.sent < a THEN a ELSE w.sent
           z == IF \E i \in Cached(t) : t.smp[i].base = s THEN StepOver(t, p, s) ELSE s
           v == [w EXCEPT !.acked = a, !.skipHb = @ \/ a # w.acked, !.sent = z]
<1>0. w \in WriterState /\ w.sent \in Edges(t, p) /\ w.acked \in Edges(t, p) /\ w.sent \in Nat
  BY EdgesOK DEF LaneOK
<1>1. CASE ~Directed
  <2>1. LaneAdvance(t, p, w) = w
    BY <1>1 DEF LaneAdvance
  <2> QED BY <2>1, <1>1 DEF Foreign
<1>2. CASE Directed
  <2>1. LaneAdvance(t, p, w) = v
    BY <1>2 DEF LaneAdvance
  <2>2. a \in Edges(t, p) /\ a \in Nat /\ (a # w.acked => t.smp # << >>)
    BY <1>0, StepOverOK
  <2> HIDE DEF a
  <2>3. s \in Edges(t, p) /\ s \in Nat
    BY <1>0, <2>2
  <2> HIDE DEF s
  <2>4. z \in Edges(t, p) /\ z \in Nat
    BY <2>3, StepOverOK
  <2>5. ASSUME NEW k \in Cached(t), Covers(t.smp[k], z)
        PROVE  ~Foreign(t.smp[k], p)
    <3>0. k \in 1 .. Len(t.smp)
      BY TopicFacts
    <3>1. CASE ~\E i \in Cached(t) : t.smp[i].base = s
      <4>1. z = s
        BY <3>1
      <4>2. t.smp[k].base # s /\ t.smp[k].base <= s /\ s < EndOf(t.smp[k])
        BY <3>1, <4>1, <2>5 DEF Covers
      <4>3. t.smp[k].base < s
        BY <4>2, <3>0, <2>3, TopicFacts
      <4> QED BY <4>2, <4>3, <3>0, <2>3 DEF Edges
    <3>2. CASE \E i \in Cached(t) : t.smp[i].base = s
      <4>1. z = StepOver(t, p, s)
        BY <3>2
      <4>2. CASE \E i \in Cached(t) : Covers(t.smp[i], s) /\ Foreign(t.smp[i], p)
        <5>1. \/ z = NextSeqno(t)
              \/ \E j \in Cached(t) : z = t.smp[j].base /\ ~Foreign(t.smp[j], p)
          BY <4>1, <4>2, <2>3, StepOverOK
        <5>2. z # NextSeqno(t)
          BY <2>5, <3>0, <2>4, TopicFacts DEF Covers
        <5>3. PICK j \in Cached(t) : z = t.smp[j].base /\ ~Foreign(t.smp[j], p)
          BY <5>1, <5>2
        <5>4. /\ j \in 1 .. Len(t.smp) /\ t.smp[j].base <= z /\ z < EndOf(t.smp[j])
              /\ t.smp[k].base <= z /\ z < EndOf(t.smp[k])
          BY <5>3, <2>5, TopicFacts DEF Covers
        <5>5. j = k
          BY <5>4, <3>0, <2>4, Disjoint
        <5> QED BY <5>3, <5>5
      <4>3. CASE ~\E i \in Cached(t) : Covers(t.smp[i], s) /\ Foreign(t.smp[i], p)
        <5>1. z = s
          BY <4>1, <4>3 DEF StepOver
        <5> QED BY <5>1, <4>3, <2>5
      <4> QED BY <4>2, <4>3
    <3> QED BY <3>1, <3>2
  <2> HIDE DEF z
  <2>6. /\ v \in WriterState /\ v.acked = a /\ v.sent = z /\ v.nack = w.nack /\ v.nackBase = w.nackBase
    BY <1>0, <2>2, <2>4 DEF WriterState
  <2>7. v.skipHb => w.skipHb \/ a # w.acked
    BY <1>0 DEF WriterState
  <2> HIDE DEF v
  <2>8. LaneOK(t, p, v)
    BY <2>2, <2>4, <2>6, <2>7 DEF LaneOK
  <2> QED BY <2>1, <2>5, <2>6, <2>8
<1> QED BY <1>1, <1>2, DirectedAssumption

-----------------------------------------------------------------------------
(* Emission. *)

\* Before it emits, a lane is advanced and its vain requests are dropped: what it
\* resends or pushes next is for p, and there is a request only if something was sent.
LEMMA PrunedOK ==
    ASSUME NEW t, TopicOK(t), NEW p, NEW w, LaneOK(t, p, w)
    PROVE  LET v == Pruned(t, p, w)
           IN  /\ LaneOK(t, p, v)
               /\ \A k \in Cached(t) : Covers(t.smp[k], v.sent) => ~Foreign(t.smp[k], p)
               /\ v.nack # {} =>
                     /\ Min(v.nack) \in v.nack /\ Min(v.nack) \in Nat
                     /\ Min(v.nack) < NextSeqno(t)
                     /\ \A k \in Cached(t) : Covers(t.smp[k], Min(v.nack)) => ~Foreign(t.smp[k], p)
PROOF
<1> DEFINE a     == LaneAdvance(t, p, w)
           live  == {x \in a.nack : x < NextSeqno(t) /\ ~ForeignSeqno(t, p, x)}
           below == {x \in a.nack : \A y \in live : x < y}
           b     == [a EXCEPT !.skipHb = @ \/ \E x \in below : ForeignSeqno(t, p, x)]
           rest  == a.nack \ below
           v     == Pruned(t, p, w)
<1>1. /\ LaneOK(t, p, a)
      /\ \A k \in Cached(t) : Covers(t.smp[k], a.sent) => ~Foreign(t.smp[k], p)
  BY LaneAdvanceOK
<1>2. v = WithNack(b, rest, a.nackBase)
  BY DEF Pruned
<1>3. (\E x \in below : ForeignSeqno(t, p, x)) => t.smp # << >>
  <2>1. t.smp = << >> => 1 .. Len(t.smp) = {}
    OBVIOUS
  <2> QED BY <2>1, TopicFacts DEF ForeignSeqno
<1>4. a \in WriterState /\ a.nack \in SUBSET Nat /\ a.nackBase \in Nat
  BY <1>1 DEF LaneOK, WriterState
<1> HIDE DEF a
<1>5. ASSUME rest # {}
      PROVE  /\ Min(rest) \in rest /\ Min(rest) \in Nat /\ Min(rest) < NextSeqno(t)
             /\ ~ForeignSeqno(t, p, Min(rest))
  <2>1. rest \in SUBSET Nat
    BY <1>4
  <2> DEFINE x == Min(rest)
  <2>2. x \in rest /\ x \in Nat /\ \A y \in rest : x <= y
    <3> HIDE DEF rest
    <3> QED BY <1>5, <2>1, MinNat
  <2> HIDE DEF x
  <2>3. PICK y \in live : ~(x < y)
    BY <2>2
  <2>4. y \in a.nack /\ y \in Nat
    BY <2>3, <1>4
  <2>5. y \notin below
    BY <2>3, <2>4
  <2>6. x <= y
    BY <2>2, <2>4, <2>5
  <2>7. x = y
    BY <2>2, <2>3, <2>4, <2>6
  <2> QED BY <2>2, <2>3, <2>7 DEF x
<1> HIDE DEF live, below
<1>6. /\ b \in WriterState /\ b.sent = a.sent /\ b.acked = a.acked
      /\ (b.skipHb => a.skipHb \/ \E x \in below : ForeignSeqno(t, p, x))
  BY <1>4 DEF WriterState
<1> HIDE DEF b
<1>7. LaneOK(t, p, v) /\ v.sent = a.sent /\ v.nack = rest
  <2>1. /\ b.sent \in Edges(t, p) /\ b.acked \in Edges(t, p) /\ (b.skipHb => t.smp # << >>)
        /\ rest \subseteq a.nackBase .. (a.nackBase + NackWindow - 1)
    BY <1>1, <1>3, <1>6 DEF LaneOK
  <2>2. LaneOK(t, p, WithNack(b, rest, a.nackBase))
    BY <2>1, <1>4, <1>6, WithNackOK
  <2>3. WithNack(b, rest, a.nackBase).sent = b.sent /\ WithNack(b, rest, a.nackBase).nack = rest
    BY <1>6 DEF WithNack, WriterState
  <2> QED BY <2>2, <2>3, <1>2, <1>6
<1> HIDE DEF v, rest
<1>8. /\ \A k \in Cached(t) : Covers(t.smp[k], v.sent) => ~Foreign(t.smp[k], p)
      /\ v.nack # {} =>
            /\ Min(v.nack) \in v.nack /\ Min(v.nack) \in Nat
            /\ Min(v.nack) < NextSeqno(t)
            /\ \A k \in Cached(t) : Covers(t.smp[k], Min(v.nack)) => ~Foreign(t.smp[k], p)
  BY <1>1, <1>5, <1>7 DEF ForeignSeqno
<1> QED BY <1>7, <1>8 DEF v

\* Answering a request, from the ring or with a floor.
LEMMA RepairedOK ==
    ASSUME NEW t, TopicOK(t), NEW p, NEW w, LaneOK(t, p, w)
    PROVE  LaneOK(t, p, Repaired(t, w))
PROOF
<1>1. /\ w \in WriterState /\ w.nackBase \in Nat
      /\ w.sent \in Edges(t, p) /\ w.acked \in Edges(t, p) /\ (w.skipHb => t.smp # << >>)
  BY DEF LaneOK, WriterState
<1>2. ASSUME NEW S \in SUBSET w.nack
      PROVE  LaneOK(t, p, WithNack(w, S, w.nackBase))
  <2>1. S \subseteq w.nackBase .. (w.nackBase + NackWindow - 1)
    BY DEF LaneOK
  <2> QED BY <1>1, <2>1, WithNackOK
<1>3. /\ w.nack \ {Min(w.nack)} \in SUBSET w.nack
      /\ {y \in w.nack : y >= FirstSeqno(t)} \in SUBSET w.nack
  OBVIOUS
<1> QED BY <1>2, <1>3 DEF Repaired

\* Pushing the next fragment, or jumping over an unsent eviction to the floor.
LEMMA PushedOK ==
    ASSUME NEW t, TopicOK(t), NEW p, NEW w, LaneOK(t, p, w),
           \A k \in Cached(t) : Covers(t.smp[k], w.sent) => ~Foreign(t.smp[k], p)
    PROVE  LaneOK(t, p, Pushed(t, w))
PROOF
<1> DEFINE z == IF Found(t, w.sent) THEN w.sent + 1 ELSE FirstSeqno(t)
           v == [w EXCEPT !.sent = z]
<1>1. w \in WriterState /\ w.sent \in Nat
  BY DEF LaneOK, WriterState
<1>2. z \in Edges(t, p) /\ z \in Nat
  <2>1. CASE Found(t, w.sent)
    <3>1. PICK k \in Cached(t) : Covers(t.smp[k], w.sent)
      BY <2>1 DEF Found
    <3>2. k \in 1 .. Len(t.smp) /\ ~Foreign(t.smp[k], p)
      BY <3>1, TopicFacts
    <3>3. w.sent + 1 \in Nat /\ t.smp[k].base <= w.sent + 1 /\ w.sent + 1 <= EndOf(t.smp[k])
      BY <1>1, <3>1, <3>2, TopicFacts DEF Covers
    <3> QED BY <2>1, <3>2, <3>3, EdgesOK
  <2>2. CASE ~Found(t, w.sent)
    BY <2>2, EdgesOK, TopicFacts
  <2> QED BY <2>1, <2>2
<1>3. Pushed(t, w) = v
  BY DEF Pushed
<1> HIDE DEF z
<1>4. /\ v \in WriterState /\ v.sent = z /\ v.acked = w.acked /\ v.nack = w.nack
      /\ v.nackBase = w.nackBase /\ v.skipHb = w.skipHb
  BY <1>1, <1>2 DEF WriterState
<1> QED BY <1>2, <1>3, <1>4 DEF LaneOK

\* The floor a heartbeat advertises is an edge.
LEMMA HbFirstOK ==
    ASSUME NEW t, TopicOK(t), NEW p, NEW w, LaneOK(t, p, w)
    PROVE  HbFirst(t, w) \in Edges(t, p) /\ HbFirst(t, w) \in Nat
  BY EdgesOK, TopicFacts DEF HbFirst, LaneOK

-----------------------------------------------------------------------------
(* ACKNACKs and matching. *)

\* an ACKNACK of a reader that stands at an edge and asks within one window
NackOK(t, p, m) ==
    /\ m.base \in Edges(t, p) /\ m.base \in Nat /\ m.epoch \in Nat /\ m.unpos \in BOOLEAN
    /\ m.bits \in SUBSET Nat /\ m.bits \subseteq m.base .. (m.base + NackWindow - 1)

\* Merging requests keeps them within one window above the base, whichever of the two
\* is the later.
LEMMA MergeNackOK ==
    ASSUME NEW t, TopicOK(t), NEW p, NEW w, LaneOK(t, p, w), NEW m, NackOK(t, p, m)
    PROVE  LaneOK(t, p, MergeNack(w, m))
PROOF
<1> DEFINE base == IF w.nack = {} THEN m.base ELSE IF m.base > w.nackBase THEN m.base ELSE w.nackBase
           kept == {x \in w.nack : x >= base}
           more == {x \in m.bits : x >= base}
<1>1. /\ w \in WriterState /\ w.nackBase \in Nat /\ w.nack \in SUBSET Nat
      /\ w.sent \in Edges(t, p) /\ w.acked \in Edges(t, p) /\ (w.skipHb => t.smp # << >>)
      /\ w.nack \subseteq w.nackBase .. (w.nackBase + NackWindow - 1)
  BY DEF LaneOK, WriterState
<1>2. /\ m.base \in Nat /\ m.bits \subseteq m.base .. (m.base + NackWindow - 1)
  BY DEF NackOK
<1>3. base \in Nat
  BY <1>1, <1>2
<1>4. ASSUME kept # {}
      PROVE  kept \cup more \subseteq base .. (base + NackWindow - 1)
  <2>1. w.nack # {}
    BY <1>4
  <2>2. m.base <= base /\ w.nackBase <= base
    BY <1>1, <1>2, <2>1
  <2> HIDE DEF base
  <2>3. \A x \in w.nack : x \in Int /\ x <= w.nackBase + NackWindow - 1
    BY <1>1, NackWindowAssumption
  <2>4. \A x \in m.bits : x \in Int /\ x <= m.base + NackWindow - 1
    BY <1>2, NackWindowAssumption
  <2> QED BY <2>2, <2>3, <2>4, <1>1, <1>2, <1>3, NackWindowAssumption
<1>5. MergeNack(w, m) = IF kept = {} THEN WithNack(w, m.bits, m.base)
                                     ELSE WithNack(w, kept \cup more, base)
  BY DEF MergeNack
<1> HIDE DEF base, kept, more
<1>6. LaneOK(t, p, WithNack(w, m.bits, m.base))
  BY <1>1, <1>2, WithNackOK
<1>7. kept # {} => LaneOK(t, p, WithNack(w, kept \cup more, base))
  BY <1>1, <1>3, <1>4, WithNackOK
<1> QED BY <1>5, <1>6, <1>7

\* Whatever an ACKNACK says, a crossing or an old one included, the lane stays sound.
LEMMA WriterNackOK ==
    ASSUME NEW t, TopicOK(t), NEW p, NEW w, LaneOK(t, p, w), NEW m, NackOK(t, p, m)
    PROVE  LaneOK(t, p, WriterNack(t, p, w, m)) /\ WriterNack(t, p, w, m).acked \in Nat
PROOF
<1> DEFINE v == [w EXCEPT !.epoch = m.epoch]
           a == IF v.acked < m.base THEN m.base ELSE v.acked
           u == [v EXCEPT !.acked = a]
           j == IF w.acked < JoinSeqno(t) THEN w.acked ELSE JoinSeqno(t)
           y == [w EXCEPT !.epoch = m.epoch, !.sent = j, !.acked = j]
           z == IF v.acked < v.sent THEN v.acked ELSE v.sent
           x == [v EXCEPT !.sent = z]
<1>1. /\ w \in WriterState /\ m.epoch \in Nat /\ m.base \in Nat /\ m.base \in Edges(t, p)
      /\ JoinSeqno(t) \in Nat /\ JoinSeqno(t) \in Edges(t, p)
  BY JoinSeqnoOK DEF LaneOK, NackOK
<1>2. WriterNack(t, p, w, m) \in {WithNack(y, {}, 0), x, MergeNack(LaneAdvance(t, p, u), m)}
  BY NackWindowAssumption DEF WriterNack, Rejoined, Repush, NackOK
<1>3. LaneOK(t, p, v) /\ v \in WriterState /\ v.acked \in Nat /\ v.sent \in Nat
  BY <1>1 DEF LaneOK, WriterState
<1>4. a \in Nat /\ a \in Edges(t, p) /\ z \in Nat /\ z \in Edges(t, p)
  BY <1>1, <1>3 DEF LaneOK
<1>5. j \in Nat /\ j \in Edges(t, p)
  BY <1>1 DEF LaneOK, WriterState
<1> HIDE DEF v, a, j, z
<1>6. LaneOK(t, p, u)
  BY <1>3, <1>4 DEF LaneOK, WriterState
<1>7. LaneOK(t, p, x)
  BY <1>3, <1>4 DEF LaneOK, WriterState
<1>8. LaneOK(t, p, WithNack(y, {}, 0))
  <2>1. y \in WriterState /\ y.sent = j /\ y.acked = j /\ y.skipHb = w.skipHb
    BY <1>1, <1>5 DEF WriterState
  <2>2. y.skipHb => t.smp # << >>
    BY <2>1 DEF LaneOK
  <2> HIDE DEF y
  <2> QED BY <2>1, <2>2, <1>5, WithNackOK
<1>9. LaneOK(t, p, MergeNack(LaneAdvance(t, p, u), m))
  <2>1. LaneOK(t, p, LaneAdvance(t, p, u))
    BY <1>6, LaneAdvanceOK
  <2> QED BY <2>1, MergeNackOK
<1>10. \A q : LaneOK(t, p, q) => q.acked \in Nat
  BY DEF LaneOK, WriterState
<1> QED BY <1>2, <1>7, <1>8, <1>9, <1>10

\* A lane that just matched, and no lane at all.
LEMMA FreshLaneOK ==
    ASSUME NEW t, TopicOK(t), NEW p
    PROVE  LaneOK(t, p, NoWriter) /\ LaneOK(t, p, JoinedAt(JoinSeqno(t)))
PROOF
<1>1. NoWriter \in WriterState /\ NoWriter.nack = {} /\ NoWriter.skipHb = FALSE
      /\ NoWriter.sent = 0 /\ NoWriter.acked = 0
  BY DEF NoWriter, WriterState
<1>2. LaneOK(t, p, NoWriter)
  BY <1>1, EdgesOK DEF LaneOK
<1> DEFINE v == [NoWriter EXCEPT !.used = TRUE, !.sent = JoinSeqno(t), !.acked = JoinSeqno(t)]
<1>3. JoinSeqno(t) \in Nat /\ JoinSeqno(t) \in Edges(t, p)
  BY JoinSeqnoOK
<1>4. /\ v \in WriterState /\ v.nack = NoWriter.nack /\ v.skipHb = NoWriter.skipHb
      /\ v.sent = JoinSeqno(t) /\ v.acked = JoinSeqno(t)
  BY <1>1, <1>3 DEF WriterState
<1>5. LaneOK(t, p, v)
  BY <1>1, <1>3, <1>4 DEF LaneOK
<1> QED BY <1>2, <1>5 DEF JoinedAt

-----------------------------------------------------------------------------
(* The inductive invariant. *)

\* a datagram in flight says nothing that is not so
MsgOK(t, m) ==
    /\ m.type = "data" => Fragment(m, Deliverable(t, m.lane))
    /\ m.type = "hb"   => m.first \in Edges(t, m.lane) /\ m.last + 1 <= NextSeqno(t)
    /\ m.type = "nack" => NackOK(t, m.lane, m)

LanesInv   == writer \in [Readers -> WriterState] /\ \A p \in Readers : LaneOK(topic, p, writer[p])
ReadersInv ==
    /\ reader \in [Readers -> ReaderState]
    /\ \A p \in Readers : ReaderOK(reader[p], Deliverable(topic, p), Edges(topic, p))
NetInv     == net \subseteq Message /\ \A m \in net : MsgOK(topic, m)
RestInv    ==
    /\ wDormant \in [Readers -> BOOLEAN] /\ rDormant \in [Readers -> BOOLEAN]
    /\ epochs \in Nat /\ join \in [Readers -> Nat]

IInv == TopicOK(topic) /\ LanesInv /\ ReadersInv /\ NetInv /\ RestInv

\* The fields of a datagram.
LEMMA MessageFields ==
    ASSUME NEW m \in Message
    PROVE  /\ m.lane \in Readers /\ m.type \in {"data", "hb", "nack"}
           /\ m.type = "hb" => m.first \in Nat /\ m.last \in Nat
           /\ m.type = "nack" => /\ m.base \in Nat /\ m.bits \in SUBSET Nat
                                 /\ m.epoch \in Nat /\ m.unpos \in BOOLEAN
  BY DEF Message

\* Samples of a history start and end at edges.
LEMMA DeliverableClosed ==
    ASSUME NEW t, TopicOK(t), NEW p
    PROVE  Closed(Deliverable(t, p), Edges(t, p))
PROOF
<1> SUFFICES ASSUME NEW d \in Deliverable(t, p)
             PROVE  d.base \in Edges(t, p) /\ EndOf(d) \in Edges(t, p)
  BY DEF Closed
<1>1. PICK k \in 1 .. Len(t.smp) : ~Foreign(t.smp[k], p) /\ d = AsDelivery(t.smp[k])
  BY DEF Deliverable
<1>2. d.base = t.smp[k].base /\ EndOf(d) = EndOf(t.smp[k])
  BY <1>1 DEF AsDelivery, EndOf
<1>3. /\ EndOf(t.smp[k]) \in Nat /\ t.smp[k].base <= EndOf(t.smp[k])
      /\ EndOf(t.smp[k]) <= EndOf(t.smp[k])
  BY TopicFacts
<1> QED BY <1>1, <1>2, <1>3, EdgesOK

\* Initially nothing was sent and nobody matched.
LEMMA InitIInv == Init => IInv
PROOF
<1> SUFFICES ASSUME Init PROVE IInv
  OBVIOUS
<1>1. TopicOK(topic)
  <2>1. << >> \in Seq(Sample) /\ Len(<< >>) = 0
    OBVIOUS
  <2>2. EmptyTopic \in TopicState
    BY <2>1 DEF EmptyTopic, TopicState
  <2>3. topic.smp = << >> /\ topic.lo = 1 /\ topic \in TopicState
    BY <2>2 DEF Init, EmptyTopic
  <2> QED BY <2>1, <2>3 DEF TopicOK
<1>2. LanesInv
  BY <1>1, FreshLaneOK DEF Init, LanesInv, LaneOK
<1>3. ReadersInv
  <2>1. ASSUME NEW p \in Readers PROVE ReaderOK(reader[p], Deliverable(topic, p), Edges(topic, p))
    <3>1. 0 \in Edges(topic, p)
      BY <1>1, EdgesOK
    <3>2. reader[p] = NoReader
      BY DEF Init
    <3> QED BY <3>1, <3>2, FreshReaderOK
  <2>2. \A p \in Readers : reader[p] \in ReaderState
    BY <2>1 DEF ReaderOK
  <2> QED BY <2>1, <2>2 DEF Init, ReadersInv
<1>4. NetInv /\ RestInv
  BY DEF Init, NetInv, RestInv
<1> QED BY <1>1, <1>2, <1>3, <1>4 DEF IInv

-----------------------------------------------------------------------------
(* What kinds of step there are, and why each keeps the invariant. *)

\* A step of one lane.
LEMMA LaneStep ==
    ASSUME IInv, NEW p \in Readers, NEW w, LaneOK(topic, p, w),
           writer' = [writer EXCEPT ![p] = w], UNCHANGED topic
    PROVE  LanesInv'
PROOF
<1>1. w \in WriterState /\ writer \in [Readers -> WriterState]
  BY DEF LaneOK, IInv, LanesInv
<1>2. writer' \in [Readers -> WriterState]
  BY <1>1
<1>3. \A q \in Readers : writer'[q] = IF q = p THEN w ELSE writer[q]
  BY <1>1
<1>4. \A q \in Readers : LaneOK(topic, q, writer'[q])
  BY <1>3 DEF IInv, LanesInv
<1> QED BY <1>2, <1>4 DEF LanesInv

\* A step of one reader.
LEMMA ReaderStep ==
    ASSUME IInv, NEW p \in Readers, NEW r, ReaderOK(r, Deliverable(topic, p), Edges(topic, p)),
           reader' = [reader EXCEPT ![p] = r], UNCHANGED topic
    PROVE  ReadersInv'
PROOF
<1>1. r \in ReaderState /\ reader \in [Readers -> ReaderState]
  BY DEF ReaderOK, IInv, ReadersInv
<1>2. reader' \in [Readers -> ReaderState]
  BY <1>1
<1>3. \A q \in Readers : reader'[q] = IF q = p THEN r ELSE reader[q]
  BY <1>1
<1>4. \A q \in Readers : ReaderOK(reader'[q], Deliverable(topic, q), Edges(topic, q))
  BY <1>3 DEF IInv, ReadersInv
<1> QED BY <1>2, <1>4 DEF ReadersInv

\* What a step leaves alone.
LEMMA Frame ==
    ASSUME IInv, UNCHANGED topic
    PROVE  /\ TopicOK(topic)'
           /\ writer' = writer => LanesInv'
           /\ reader' = reader => ReadersInv'
           /\ net' \subseteq net => NetInv'
           /\ (UNCHANGED <<wDormant, rDormant, epochs, join>>) => RestInv'
PROOF
<1>1. TopicOK(topic)'
  BY DEF IInv
<1>2. writer' = writer => LanesInv'
  BY DEF IInv, LanesInv
<1>3. reader' = reader => ReadersInv'
  BY DEF IInv, ReadersInv
<1>4. net' \subseteq net => NetInv'
  BY DEF IInv, NetInv
<1>5. (UNCHANGED <<wDormant, rDormant, epochs, join>>) => RestInv'
  BY DEF IInv, RestInv
<1> QED BY <1>1, <1>2, <1>3, <1>4, <1>5

-----------------------------------------------------------------------------
(* The writer's process. *)

\* A send seals a sample after all others and advances the lanes it is not for.
LEMMA SendIInv ==
    ASSUME IInv, NEW c \in FragCounts, NEW d \in Dests, Send(c, d)
    PROVE  IInv'
PROOF
<1>1. c \in Nat \ {0} /\ d \in Readers \cup {DestAll, DestNone}
  BY TopicAssumption, DestsAssumption
<1>2. TopicOK(topic) /\ topic' = Seal(topic, c, d)
  BY DEF IInv, Send
<1>3. TopicOK(topic')
  BY <1>1, <1>2, SealOK
<1>4. \A p \in Readers : /\ Deliverable(topic, p) \subseteq Deliverable(topic', p)
                         /\ Edges(topic, p) \subseteq Edges(topic', p)
  BY <1>1, <1>2, SealMono
<1>5. topic'.smp # << >> /\ NextSeqno(topic) <= NextSeqno(topic')
  <2>1. /\ topic'.smp = Append(topic.smp, [base |-> NextSeqno(topic), count |-> c, dest |-> d])
        /\ NextSeqno(topic') = NextSeqno(topic) + c
    BY <1>1, <1>2, SealOK
  <2>2. topic.smp \in Seq(Sample) /\ NextSeqno(topic) \in Nat
    BY <1>2, TopicFacts
  <2>3. NextSeqno(topic) <= NextSeqno(topic')
    BY <1>1, <2>1, <2>2
  <2>4. Len(topic'.smp) = Len(topic.smp) + 1 /\ Len(topic.smp) \in Nat
    BY <2>1, <2>2
  <2>5. Len(<< >>) = 0
    OBVIOUS
  <2> QED BY <2>3, <2>4, <2>5
<1>6. LanesInv'
  <2>1. ASSUME NEW p \in Readers
        PROVE  LaneOK(topic', p, writer'[p]) /\ writer'[p] \in WriterState
    <3>1. LaneOK(topic, p, writer[p])
      BY DEF IInv, LanesInv
    <3>2. LaneOK(topic', p, writer[p])
      BY <3>1, <1>4, <1>5, LaneMono
    <3>3. LaneOK(topic', p, LaneAdvance(topic', p, writer[p]))
      BY <3>2, <1>3, LaneAdvanceOK
    <3>4. writer'[p] \in {writer[p], LaneAdvance(topic', p, writer[p])}
      BY DEF Send
    <3>5. LaneOK(topic', p, writer'[p])
      BY <3>2, <3>3, <3>4
    <3> QED BY <3>5 DEF LaneOK
  <2>2. writer' \in [Readers -> WriterState]
    BY <2>1 DEF Send
  <2> QED BY <2>1, <2>2 DEF LanesInv
<1>7. ReadersInv'
  <2>1. \A p \in Readers : ReaderOK(reader[p], Deliverable(topic', p), Edges(topic', p))
    BY <1>4, ReaderMono DEF IInv, ReadersInv
  <2>2. reader' = reader /\ reader \in [Readers -> ReaderState]
    BY DEF Send, IInv, ReadersInv
  <2> QED BY <2>1, <2>2 DEF ReadersInv
<1>8. NetInv'
  <2>1. ASSUME NEW m \in net
        PROVE  MsgOK(topic', m)
    <3>1. m.lane \in Readers /\ MsgOK(topic, m) /\ m \in Message
      BY MessageFields DEF IInv, NetInv
    <3>2. m.type = "data" => Fragment(m, Deliverable(topic', m.lane))
      BY <3>1, <1>4 DEF MsgOK, Fragment
    <3>3. m.type = "hb" => m.first \in Edges(topic', m.lane) /\ m.last + 1 <= NextSeqno(topic')
      <4>1. NextSeqno(topic) \in Nat /\ NextSeqno(topic') \in Nat
        BY <1>2, <1>3, TopicFacts
      <4> QED BY <4>1, <3>1, <1>4, <1>5, MessageFields DEF MsgOK
    <3>4. m.type = "nack" => NackOK(topic', m.lane, m)
      BY <3>1, <1>4 DEF MsgOK, NackOK
    <3> QED BY <3>2, <3>3, <3>4 DEF MsgOK
  <2>2. net' = net /\ net \subseteq Message
    BY DEF Send, IInv, NetInv
  <2> QED BY <2>1, <2>2 DEF NetInv
<1>9. RestInv'
  BY DEF Send, IInv, RestInv
<1> QED BY <1>3, <1>6, <1>7, <1>8, <1>9, <1>2 DEF IInv

\* The first-match window does not touch the history.
LEMMA SetFreshIInv ==
    ASSUME IInv, NEW b \in BOOLEAN, SetFresh(b)
    PROVE  IInv'
PROOF
<1>1. TopicOK(topic) /\ NextSeqno(topic) \in Nat
  BY TopicFacts DEF IInv
<1>2. /\ topic'.smp = topic.smp /\ topic'.lo = topic.lo /\ topic' \in TopicState
  BY <1>1 DEF SetFresh, TopicOK, TopicState
<1>3. TopicOK(topic') /\ NextSeqno(topic') = NextSeqno(topic)
  BY <1>1, <1>2 DEF TopicOK, NextSeqno
<1>4. \A p : Deliverable(topic', p) = Deliverable(topic, p) /\ Edges(topic', p) = Edges(topic, p)
  BY <1>2, <1>3 DEF Deliverable, Edges
<1>5. LanesInv'
  BY <1>2, <1>4 DEF SetFresh, IInv, LanesInv, LaneOK
<1>6. ReadersInv'
  BY <1>4 DEF SetFresh, IInv, ReadersInv
<1>7. NetInv'
  BY <1>3, <1>4 DEF SetFresh, IInv, NetInv, MsgOK, NackOK
<1>8. RestInv'
  BY DEF SetFresh, IInv, RestInv
<1> QED BY <1>3, <1>5, <1>6, <1>7, <1>8 DEF IInv

\* Matching, unmatching and dormancy, as the writer sees them.
LEMMA WriterMatchingIInv ==
    ASSUME IInv, NEW p \in Readers, WriterMatch(p) \/ WriterUnmatch(p) \/ WriterSleep(p)
    PROVE  IInv'
PROOF
<1>1. TopicOK(topic) /\ UNCHANGED topic /\ reader' = reader /\ net' \subseteq net
  BY DEF IInv, WriterMatch, WriterUnmatch, WriterSleep
<1>2. TopicOK(topic)' /\ ReadersInv' /\ NetInv'
  BY <1>1, Frame
<1>3. LaneOK(topic, p, NoWriter) /\ LaneOK(topic, p, JoinedAt(JoinSeqno(topic)))
  BY <1>1, FreshLaneOK
<1>4. JoinSeqno(topic) \in Nat
  BY <1>1, JoinSeqnoOK
<1>5. CASE WriterMatch(p)
  <2>1. LanesInv'
    BY <1>1, <1>3, <1>5, LaneStep DEF WriterMatch
  <2>2. RestInv'
    BY <1>4, <1>5 DEF WriterMatch, IInv, RestInv
  <2> QED BY <1>2, <2>1, <2>2 DEF IInv
<1>6. CASE WriterUnmatch(p)
  <2>1. LanesInv'
    BY <1>1, <1>3, <1>6, LaneStep DEF WriterUnmatch
  <2>2. RestInv'
    BY <1>1, <1>6, Frame DEF WriterUnmatch
  <2> QED BY <1>2, <2>1, <2>2 DEF IInv
<1>7. CASE WriterSleep(p)
  <2>1. LanesInv'
    BY <1>1, <1>7, Frame DEF WriterSleep
  <2>2. RestInv'
    BY <1>7 DEF WriterSleep, IInv, RestInv
  <2> QED BY <1>2, <2>1, <2>2 DEF IInv
<1> QED BY <1>5, <1>6, <1>7

\* Emitting a sound datagram.
LEMMA EmitIInv ==
    ASSUME IInv, NEW p \in Readers, NEW w, LaneOK(topic, p, w),
           NEW m \in Message, MsgOK(topic, m), Emit(p, w, m)
    PROVE  IInv'
PROOF
<1>1. /\ UNCHANGED topic /\ reader' = reader /\ writer' = [writer EXCEPT ![p] = w]
      /\ net' \subseteq net \cup {m} /\ UNCHANGED <<wDormant, rDormant, epochs, join>>
  BY DEF Emit
<1>2. TopicOK(topic)' /\ ReadersInv' /\ RestInv'
  BY <1>1, Frame
<1>3. LanesInv'
  BY <1>1, LaneStep
<1>4. NetInv'
  <2>1. net' \subseteq Message
    BY <1>1 DEF IInv, NetInv
  <2>2. \A k \in net' : MsgOK(topic, k)
    BY <1>1 DEF IInv, NetInv
  <2> QED BY <1>1, <2>1, <2>2 DEF NetInv
<1> QED BY <1>2, <1>3, <1>4 DEF IInv

\* A DATA submessage carries a fragment of a cached sample that is for p.
LEMMA DataSound ==
    ASSUME TopicOK(topic), NEW p \in Readers, NEW x \in Nat, Found(topic, x), NEW ask \in BOOLEAN,
           \A k \in Cached(topic) : Covers(topic.smp[k], x) => ~Foreign(topic.smp[k], p)
    PROVE  /\ DataMsg(p, Find(topic, x), x, ask) \in Message
           /\ MsgOK(topic, DataMsg(p, Find(topic, x), x, ask))
PROOF
<1>1. PICK k \in Cached(topic) : Find(topic, x) = topic.smp[k] /\ Covers(topic.smp[k], x)
  BY FindOK
<1> DEFINE s == topic.smp[k]
           m == DataMsg(p, s, x, ask)
<1>2. k \in 1 .. Len(topic.smp) /\ ~Foreign(s, p)
  BY <1>1, TopicFacts
<1>3. s \in Sample /\ EndOf(s) = s.base + s.count
  BY <1>2, TopicFacts
<1>4. s.base \in Nat /\ s.count \in Nat \ {0}
  BY <1>3 DEF Sample
<1>5. AsDelivery(s) \in Deliverable(topic, p)
  BY <1>2 DEF Deliverable
<1>6. s.base <= x /\ x < s.base + s.count
  BY <1>1, <1>3 DEF Covers
<1> HIDE DEF s
<1>7. m \in Message
  BY <1>4 DEF DataMsg, Message
<1>8. /\ m.type = "data" /\ m.lane = p /\ m.seq = x /\ m.base = s.base /\ m.count = s.count
      /\ m.ask = ask
  BY DEF DataMsg
<1> HIDE DEF m
<1>9. AsDelivery(m) = AsDelivery(s)
  BY <1>8 DEF AsDelivery
<1>10. Fragment(m, Deliverable(topic, p))
  BY <1>4, <1>5, <1>6, <1>8, <1>9 DEF Fragment
<1>11. MsgOK(topic, m)
  BY <1>8, <1>10 DEF MsgOK
<1> QED BY <1>1, <1>7, <1>11 DEF m, s

\* A heartbeat claims a floor that is an edge and a last seqno that was sent.
LEMMA HeartbeatSound ==
    ASSUME TopicOK(topic), NEW p \in Readers, NEW w, LaneOK(topic, p, w), 0 < NextSeqno(topic)
    PROVE  Heartbeat(p, w) \in Message /\ MsgOK(topic, Heartbeat(p, w))
PROOF
<1> DEFINE f == HbFirst(topic, w)
           l == NextSeqno(topic) - 1
           m == HbMsg(p, f, l)
<1>1. f \in Nat /\ f \in Edges(topic, p)
  BY HbFirstOK
<1>2. l \in Nat /\ l + 1 <= NextSeqno(topic)
  BY TopicFacts
<1> HIDE DEF f, l
<1>3. m \in Message
  BY <1>1, <1>2 DEF HbMsg, Message
<1>4. m.type = "hb" /\ m.lane = p /\ m.first = f /\ m.last = l
  BY DEF HbMsg
<1> HIDE DEF m
<1>5. MsgOK(topic, m)
  BY <1>1, <1>2, <1>4 DEF MsgOK
<1> QED BY <1>3, <1>5 DEF Heartbeat, m, f, l

\* Repair, floor, new data and heartbeat.
LEMMA WriterEmitIInv ==
    ASSUME IInv, NEW p \in Readers, NEW ask \in BOOLEAN,
           EmitRepair(p) \/ EmitFloor(p) \/ EmitPush(p, ask) \/ EmitHeartbeat(p)
    PROVE  IInv'
PROOF
<1> DEFINE w == Pruned(topic, p, writer[p])
           x == Min(w.nack)
<1>1. TopicOK(topic) /\ LaneOK(topic, p, writer[p])
  BY DEF IInv, LanesInv
<1>2. /\ LaneOK(topic, p, w)
      /\ \A k \in Cached(topic) : Covers(topic.smp[k], w.sent) => ~Foreign(topic.smp[k], p)
      /\ w.nack # {} =>
            /\ x \in Nat /\ x < NextSeqno(topic)
            /\ \A k \in Cached(topic) : Covers(topic.smp[k], x) => ~Foreign(topic.smp[k], p)
  BY <1>1, PrunedOK
<1>3. NextSeqno(topic) \in Nat /\ w \in WriterState /\ w.sent \in Nat /\ w.acked \in Nat
  BY <1>1, <1>2, TopicFacts DEF LaneOK, WriterState
<1>4. ASSUME NEW v, LaneOK(topic, p, v), 0 < NextSeqno(topic)
      PROVE  Heartbeat(p, v) \in Message /\ MsgOK(topic, Heartbeat(p, v))
  BY <1>1, <1>4, HeartbeatSound
<1>5. CASE EmitRepair(p)
  <2> DEFINE m == IF Found(topic, x) THEN DataMsg(p, Find(topic, x), x, FALSE) ELSE Heartbeat(p, w)
  <2>1. w.nack # {} /\ Emit(p, Repaired(topic, w), m)
    BY <1>5 DEF EmitRepair
  <2>2. x \in Nat /\ 0 < NextSeqno(topic)
    BY <1>2, <1>3, <2>1
  <2>3. LaneOK(topic, p, Repaired(topic, w))
    BY <1>1, <1>2, RepairedOK
  <2> HIDE DEF w, x
  <2>4. m \in Message /\ MsgOK(topic, m)
    <3>1. CASE Found(topic, x)
      BY <3>1, <2>1, <2>2, <1>1, <1>2, DataSound
    <3>2. CASE ~Found(topic, x)
      BY <3>2, <2>2, <1>2, <1>4
    <3> QED BY <3>1, <3>2
  <2> HIDE DEF m
  <2> QED BY <2>1, <2>3, <2>4, EmitIInv
<1>6. CASE EmitFloor(p)
  <2> DEFINE v == [w EXCEPT !.skipHb = FALSE]
  <2>1. w.skipHb /\ Emit(p, v, Heartbeat(p, w))
    BY <1>6 DEF EmitFloor
  <2> HIDE DEF w
  <2>2. LaneOK(topic, p, v)
    BY <1>2, <1>3 DEF LaneOK, WriterState
  <2>3. 0 < NextSeqno(topic)
    <3>1. topic.smp # << >>
      BY <2>1, <1>2 DEF LaneOK
    <3>2. topic.lo \in 1 .. Len(topic.smp)
      BY <3>1, <1>1 DEF TopicOK
    <3>3. /\ topic.smp[topic.lo].base \in Nat /\ EndOf(topic.smp[topic.lo]) \in Nat
          /\ topic.smp[topic.lo].base < EndOf(topic.smp[topic.lo])
          /\ EndOf(topic.smp[topic.lo]) <= NextSeqno(topic)
      BY <3>2, <1>1, TopicFacts
    <3> QED BY <3>3, <1>3
  <2>4. Heartbeat(p, w) \in Message /\ MsgOK(topic, Heartbeat(p, w))
    BY <1>2, <1>4, <2>3
  <2> HIDE DEF v
  <2> QED BY <2>1, <2>2, <2>4, EmitIInv
<1>7. CASE EmitPush(p, ask)
  <2> DEFINE y == w.sent
             m == IF Found(topic, y) THEN DataMsg(p, Find(topic, y), y, ask)
                                     ELSE Heartbeat(p, Pushed(topic, w))
  <2>1. y < NextSeqno(topic) /\ Emit(p, Pushed(topic, w), m)
    BY <1>7 DEF EmitPush
  <2>2. y \in Nat /\ 0 < NextSeqno(topic)
    BY <1>3, <2>1
  <2>3. LaneOK(topic, p, Pushed(topic, w))
    BY <1>1, <1>2, PushedOK
  <2>4. \A k \in Cached(topic) : Covers(topic.smp[k], y) => ~Foreign(topic.smp[k], p)
    BY <1>2
  <2> HIDE DEF w, y
  <2>5. m \in Message /\ MsgOK(topic, m)
    <3>1. CASE Found(topic, y)
      BY <3>1, <2>2, <2>4, <1>1, DataSound
    <3>2. CASE ~Found(topic, y)
      BY <3>2, <2>2, <2>3, <1>4
    <3> QED BY <3>1, <3>2
  <2> HIDE DEF m
  <2> QED BY <2>1, <2>3, <2>5, EmitIInv
<1>8. CASE EmitHeartbeat(p)
  <2>1. w.acked < NextSeqno(topic) /\ Emit(p, w, Heartbeat(p, w))
    BY <1>8 DEF EmitHeartbeat
  <2>2. 0 < NextSeqno(topic)
    BY <1>3, <2>1
  <2> HIDE DEF w
  <2>3. Heartbeat(p, w) \in Message /\ MsgOK(topic, Heartbeat(p, w))
    BY <1>2, <1>4, <2>2
  <2> QED BY <1>2, <2>1, <2>3, EmitIInv
<1> QED BY <1>5, <1>6, <1>7, <1>8

\* An ACKNACK, and a datagram taken from the network.
LEMMA RecvNackIInv ==
    ASSUME IInv, NEW m \in net, RecvNack(m)
    PROVE  IInv'
PROOF
<1> DEFINE p == m.lane
           w == writer[p]
           n == WriterNack(topic, p, w, m)
<1>1. m \in Message /\ p \in Readers /\ MsgOK(topic, m) /\ TopicOK(topic) /\ LaneOK(topic, p, w)
  BY MessageFields DEF IInv, NetInv, LanesInv
<1>2. NackOK(topic, p, m)
  BY <1>1 DEF RecvNack, MsgOK
<1>3. LaneOK(topic, p, n) /\ n.acked \in Nat
  BY <1>1, <1>2, WriterNackOK
<1>4. /\ UNCHANGED topic /\ reader' = reader /\ net' \subseteq net
      /\ UNCHANGED <<wDormant, rDormant, epochs>>
  BY DEF RecvNack, Taken
<1>5. TopicOK(topic)' /\ ReadersInv' /\ NetInv'
  BY <1>4, Frame
<1>6. writer' = [writer EXCEPT ![p] = IF w.used THEN n ELSE w]
  BY DEF RecvNack
<1>7. \E k \in Nat : join' = [join EXCEPT ![p] = k]
  <2>1. join[p] \in Nat
    BY <1>1 DEF IInv, RestInv
  <2>2. Smaller(w.acked, JoinSeqno(topic)) \in Nat
    <3>1. w.acked \in Nat
      BY <1>1 DEF LaneOK, WriterState
    <3>2. JoinSeqno(topic) \in Nat
      BY <1>1, JoinSeqnoOK
    <3> QED BY <3>1, <3>2 DEF Smaller
  <2> QED BY <2>1, <2>2 DEF RecvNack
<1> HIDE DEF p, w, n
<1>8. LanesInv'
  <2>1. LaneOK(topic, p, IF w.used THEN n ELSE w)
    BY <1>1, <1>3
  <2> QED BY <2>1, <1>1, <1>4, <1>6, LaneStep
<1>9. RestInv'
  BY <1>1, <1>4, <1>7 DEF IInv, RestInv
<1> QED BY <1>5, <1>8, <1>9 DEF IInv

-----------------------------------------------------------------------------
(* The readers' processes. *)

\* A received datagram, a resumed consumer or an emitted ACKNACK moves a used reader
\* forward; the position an unpositioned one adopts is the only exception.
Forwards(p) ==
    /\ p \in Readers /\ reader[p].used
    /\ reader' = [reader EXCEPT ![p] = reader'[p]]
    /\ ReaderOK(reader'[p], Deliverable(topic, p), Edges(topic, p))
    /\ \/ Moves(reader[p], reader'[p])
       \/ /\ ~reader[p].started
          /\ \E b \in Nat : /\ ReaderOK(Adopted(reader[p], b), Deliverable(topic, p), Edges(topic, p))
                           /\ Moves(Adopted(reader[p], b), reader'[p])

\* reader' has one changed field
LEMMA OneReader ==
    ASSUME IInv, NEW p \in Readers, NEW r, reader' = [reader EXCEPT ![p] = r]
    PROVE  reader'[p] = r /\ reader' = [reader EXCEPT ![p] = reader'[p]]
  BY DEF IInv, ReadersInv

\* What a reader's process does to its reader.
LEMMA RecvDataStep ==
    ASSUME IInv, NEW m \in net, NEW mem \in BOOLEAN, NEW acc \in Nat, RecvData(m, mem, acc)
    PROVE  reader' = reader \/ Forwards(m.lane)
PROOF
<1> DEFINE p == m.lane
           r == reader[p]
           q == ReaderData(r, m, mem, acc)
           G == Deliverable(topic, p)
           E == Edges(topic, p)
<1>1. /\ m \in Message /\ p \in Readers /\ MsgOK(topic, m) /\ TopicOK(topic) /\ ReaderOK(r, G, E)
      /\ reader \in [Readers -> ReaderState]
  BY MessageFields DEF IInv, NetInv, ReadersInv
<1>2. Fragment(m, G) /\ m.base \in Nat
  BY <1>1 DEF RecvData, MsgOK, Fragment
<1>4. Closed(G, E)
  BY <1>1, DeliverableClosed
<1>5. reader' = [reader EXCEPT ![p] = IF r.used THEN q ELSE r]
  BY DEF RecvData
<1> HIDE DEF G, E
<1>6. CASE ~r.used
  BY <1>1, <1>5, <1>6
<1>7. CASE r.used
  <2>1. reader' = [reader EXCEPT ![p] = q]
    BY <1>5, <1>7
  <2> HIDE DEF q
  <2>2. reader'[p] = q /\ reader' = [reader EXCEPT ![p] = reader'[p]]
    BY <1>1, <2>1, OneReader
  <2>3. CASE r.started
    <3>1. ReaderOK(q, G, E) /\ Moves(r, q)
      BY <1>1, <1>2, <1>4, <2>3, ReaderDataOK DEF q
    <3> QED BY <3>1, <2>2, <1>1, <1>7 DEF Forwards, G, E
  <2>4. CASE ~r.started
    <3>1. ReaderOK(q, G, E) /\ ReaderOK(Adopted(r, m.base), G, E) /\ Moves(Adopted(r, m.base), q)
      BY <1>1, <1>2, <1>4, <2>4, AdoptOK DEF q
    <3> QED BY <3>1, <2>2, <2>4, <1>1, <1>2, <1>7 DEF Forwards, G, E
  <2> QED BY <2>3, <2>4
<1> QED BY <1>6, <1>7

\* A heartbeat, the same way.
LEMMA RecvHbStep ==
    ASSUME IInv, NEW m \in net, NEW acc \in Nat, RecvHb(m, acc)
    PROVE  reader' = reader \/ Forwards(m.lane)
PROOF
<1> DEFINE p == m.lane
           r == reader[p]
           q == ReaderHb(r, m, acc)
           G == Deliverable(topic, p)
           E == Edges(topic, p)
<1>1. /\ m \in Message /\ p \in Readers /\ MsgOK(topic, m) /\ TopicOK(topic) /\ ReaderOK(r, G, E)
      /\ reader \in [Readers -> ReaderState]
  BY MessageFields DEF IInv, NetInv, ReadersInv
<1>2. m.type = "hb"
  BY DEF RecvHb
<1>3. /\ m.first \in Nat /\ m.last \in Nat /\ m.first \in E /\ m.last + 1 <= NextSeqno(topic)
      /\ NextSeqno(topic) \in Nat
  BY <1>1, <1>2, MessageFields, TopicFacts DEF MsgOK
<1>4. ~Directed => Larger(m.first, m.last + 1) \in E
  <2>1. \A x \in 0 .. NextSeqno(topic) : ~Directed => x \in E
    BY DEF Edges, Foreign
  <2>2. m.last + 1 \in 0 .. NextSeqno(topic)
    BY <1>3
  <2> QED BY <2>1, <2>2, <1>3 DEF Larger
<1>5. Closed(G, E)
  BY <1>1, DeliverableClosed
<1>6. reader' = [reader EXCEPT ![p] = IF r.used THEN q ELSE r]
  BY DEF RecvHb
<1> HIDE DEF G, E
<1>7. CASE ~r.used
  BY <1>1, <1>6, <1>7
<1>8. CASE r.used
  <2>1. reader' = [reader EXCEPT ![p] = q]
    BY <1>6, <1>8
  <2>2. ReaderOK(q, G, E) /\ Moves(r, q)
    BY <1>1, <1>3, <1>4, <1>5, ReaderHbOK
  <2> HIDE DEF q
  <2>3. reader'[p] = q /\ reader' = [reader EXCEPT ![p] = reader'[p]]
    BY <1>1, <2>1, OneReader
  <2> QED BY <2>2, <2>3, <1>1, <1>8 DEF Forwards, G, E
<1> QED BY <1>7, <1>8

\* An ACKNACK, a consumer with room, and a resumed peer, the same way.
LEMMA ReaderOwnStep ==
    ASSUME IInv, NEW p \in Readers, NEW due \in BOOLEAN, NEW acc \in Nat,
           ReaderEmit(p, due) \/ ReaderUnpark(p, acc) \/ ReaderSleep(p)
    PROVE  reader' = reader \/ Forwards(p)
PROOF
<1> DEFINE r == reader[p]
           G == Deliverable(topic, p)
           E == Edges(topic, p)
<1>1. TopicOK(topic) /\ ReaderOK(r, G, E) /\ reader \in [Readers -> ReaderState]
  BY DEF IInv, ReadersInv
<1>2. Closed(G, E)
  BY <1>1, DeliverableClosed
<1>3. ASSUME NEW q, ReaderOK(q, G, E), Moves(r, q), r.used, reader' = [reader EXCEPT ![p] = q]
      PROVE  Forwards(p)
  <2>1. reader'[p] = q /\ reader' = [reader EXCEPT ![p] = reader'[p]]
    BY <1>3, OneReader
  <2> QED BY <2>1, <1>3 DEF Forwards
<1> HIDE DEF G, E
<1>4. CASE ReaderEmit(p, due)
  <2>1. ReaderOK(AfterEmit(r, due), G, E) /\ Moves(r, AfterEmit(r, due))
    BY <1>1, AfterEmitOK
  <2> QED BY <2>1, <1>3, <1>4 DEF ReaderEmit
<1>5. CASE ReaderUnpark(p, acc)
  <2>1. ReaderOK(Unpark(r, acc), G, E) /\ Moves(r, Unpark(r, acc))
    BY <1>1, <1>2, UnparkOK
  <2> QED BY <2>1, <1>3, <1>5 DEF ReaderUnpark
<1>6. CASE ReaderSleep(p)
  <2>1. ReaderOK(AckNow(r, TRUE), G, E) /\ Moves(r, AckNow(r, TRUE))
    BY <1>1, AckNowOK
  <2>2. reader' = [reader EXCEPT ![p] = IF rDormant[p] /\ r.used THEN AckNow(r, TRUE) ELSE r]
    BY <1>6 DEF ReaderSleep
  <2>3. CASE rDormant[p] /\ r.used
    BY <2>1, <2>2, <2>3, <1>3
  <2>4. CASE ~(rDormant[p] /\ r.used)
    BY <2>2, <2>4, <1>1
  <2> QED BY <2>3, <2>4
<1> QED BY <1>4, <1>5, <1>6

\* A reader that moved forward, or not at all, keeps the readers' invariant.
LEMMA ForwardsInv ==
    ASSUME IInv, UNCHANGED topic, NEW p, reader' = reader \/ Forwards(p)
    PROVE  ReadersInv'
PROOF
<1>1. CASE reader' = reader
  BY <1>1, Frame
<1>2. CASE Forwards(p)
  BY <1>2, ReaderStep DEF Forwards
<1> QED BY <1>1, <1>2

\* The steps of a reader's process keep the invariant.
LEMMA ReaderRecvIInv ==
    ASSUME IInv, NEW m \in net, NEW mem \in BOOLEAN, NEW acc \in Nat,
           RecvData(m, mem, acc) \/ RecvHb(m, acc)
    PROVE  IInv'
PROOF
<1>1. /\ UNCHANGED topic /\ writer' = writer /\ net' \subseteq net
      /\ UNCHANGED <<wDormant, rDormant, epochs, join>>
  BY DEF RecvData, RecvHb, Taken
<1>2. TopicOK(topic)' /\ LanesInv' /\ NetInv' /\ RestInv'
  BY <1>1, Frame
<1>3. reader' = reader \/ Forwards(m.lane)
  BY RecvDataStep, RecvHbStep
<1>4. ReadersInv'
  BY <1>1, <1>3, ForwardsInv
<1> QED BY <1>2, <1>4 DEF IInv

\* An emitted ACKNACK stands at an edge and asks within one window.
LEMMA AckSound ==
    ASSUME IInv, NEW p \in Readers, NEW due \in BOOLEAN
    PROVE  AckOf(p, reader[p], due) \in Message /\ MsgOK(topic, AckOf(p, reader[p], due))
PROOF
<1> DEFINE r == reader[p]
           G == Deliverable(topic, p)
           E == Edges(topic, p)
<1>1. TopicOK(topic) /\ ReaderOK(r, G, E)
  BY DEF IInv, ReadersInv
<1>2. r \in ReaderState /\ r.epoch \in Nat /\ r.upto \in Nat /\ r.upto \in E
  BY <1>1 DEF ReaderOK, ReaderState
<1>3. ASSUME NEW b \in Nat, b \in E, NEW bits, bits \subseteq b .. (b + NackWindow - 1), NEW u \in BOOLEAN
      PROVE  /\ NackMsg(p, b, bits, r.epoch, u) \in Message
             /\ MsgOK(topic, NackMsg(p, b, bits, r.epoch, u))
  <2> DEFINE m == NackMsg(p, b, bits, r.epoch, u)
             e == r.epoch
  <2>1. bits \in SUBSET Nat /\ e \in Nat
    BY <1>2, <1>3, NackWindowAssumption
  <2> HIDE DEF e
  <2>2. NackMsg(p, b, bits, e, u) \in Message
    BY <2>1 DEF NackMsg, Message
  <2>3. /\ m.type = "nack" /\ m.lane = p /\ m.base = b /\ m.bits = bits /\ m.epoch = e /\ m.unpos = u
    BY DEF NackMsg, e
  <2> HIDE DEF m
  <2>4. NackOK(topic, p, m)
    BY <1>3, <2>1, <2>3 DEF NackOK
  <2>5. MsgOK(topic, m)
    BY <2>3, <2>4 DEF MsgOK
  <2> QED BY <2>2, <2>5 DEF m, e
<1>4. FirstMissing(r) \in Nat /\ FirstMissing(r) \in E
  <2>1. FirstMissing(r) \in Nat /\ r.upto <= FirstMissing(r)
    BY <1>1, FirstMissingOK
  <2>2. CASE ~r.cur.on
    BY <1>2, <2>1, <2>2 DEF FirstMissing
  <2>3. CASE r.cur.on
    <3>1. AsDelivery(r.cur) \in G
      BY <1>1, <2>3 DEF ReaderOK, Genuine
    <3>2. PICK k \in 1 .. Len(topic.smp) : /\ ~Foreign(topic.smp[k], p)
                                           /\ AsDelivery(r.cur) = AsDelivery(topic.smp[k])
      BY <3>1 DEF Deliverable
    <3>3. r.cur.base = topic.smp[k].base /\ EndOf(r.cur) = EndOf(topic.smp[k]) /\ r.cur.base = r.upto
      BY <3>2, <2>3, <1>1 DEF AsDelivery, EndOf, ReaderOK, Slots
    <3>4. FirstMissing(r) <= EndOf(r.cur)
      BY <1>1, <2>3, FirstMissingOK
    <3> QED BY <2>1, <3>2, <3>3, <3>4, <1>1, EdgesOK
  <2> QED BY <2>2, <2>3
<1>5. Asked(r, due) \subseteq FirstMissing(r) .. (FirstMissing(r) + NackWindow - 1)
  BY <1>1, AskedOK
<1>6. {} \subseteq r.upto .. (r.upto + NackWindow - 1)
  OBVIOUS
<1> HIDE DEF E, G
<1>7. CASE r.started
  BY <1>3, <1>4, <1>5, <1>7 DEF AckOf
<1>8. CASE ~r.started
  BY <1>2, <1>3, <1>6, <1>8 DEF AckOf
<1> QED BY <1>7, <1>8

\* The steps a reader takes by itself.
LEMMA ReaderOwnIInv ==
    ASSUME IInv, NEW p \in Readers, NEW due \in BOOLEAN, NEW acc \in Nat,
           ReaderEmit(p, due) \/ ReaderUnpark(p, acc) \/ ReaderSleep(p)
    PROVE  IInv'
PROOF
<1>1. UNCHANGED topic /\ writer' = writer /\ UNCHANGED <<wDormant, epochs, join>>
  BY DEF ReaderEmit, ReaderUnpark, ReaderSleep
<1>2. TopicOK(topic)' /\ LanesInv'
  BY <1>1, Frame
<1>3. ReadersInv'
  <2>1. reader' = reader \/ Forwards(p)
    BY ReaderOwnStep
  <2> QED BY <1>1, <2>1, ForwardsInv
<1>4. rDormant' \in [Readers -> BOOLEAN]
  BY DEF ReaderEmit, ReaderUnpark, ReaderSleep, IInv, RestInv
<1>5. RestInv'
  BY <1>1, <1>4 DEF IInv, RestInv
<1>6. NetInv'
  <2> DEFINE m == AckOf(p, reader[p], due)
  <2>1. m \in Message /\ MsgOK(topic, m)
    BY AckSound
  <2>2. net' \subseteq net \cup {m}
    BY DEF ReaderEmit, ReaderUnpark, ReaderSleep
  <2> HIDE DEF m
  <2>3. net' \subseteq Message /\ \A k \in net' : MsgOK(topic, k)
    BY <2>1, <2>2 DEF IInv, NetInv
  <2> QED BY <1>1, <2>3 DEF NetInv
<1> QED BY <1>2, <1>3, <1>5, <1>6 DEF IInv

\* A reader comes and goes.
LEMMA ReaderMatchingIInv ==
    ASSUME IInv, NEW p \in Readers, ReaderMatch(p) \/ ReaderUnmatch(p)
    PROVE  IInv'
PROOF
<1>1. /\ UNCHANGED topic /\ writer' = writer /\ net' \subseteq net
      /\ UNCHANGED <<wDormant, rDormant, join>> /\ epochs \in Nat /\ epochs' \in {epochs, epochs + 1}
  BY DEF ReaderMatch, ReaderUnmatch, IInv, RestInv
<1>2. TopicOK(topic)' /\ LanesInv' /\ NetInv'
  BY <1>1, Frame
<1>3. RestInv'
  BY <1>1 DEF IInv, RestInv
<1>4. /\ ReaderOK(Matched(epochs), Deliverable(topic, p), Edges(topic, p))
      /\ ReaderOK(NoReader, Deliverable(topic, p), Edges(topic, p))
  <2>1. 0 \in Edges(topic, p)
    BY EdgesOK DEF IInv
  <2> QED BY <1>1, <2>1, FreshReaderOK
<1>5. ReadersInv'
  BY <1>1, <1>4, ReaderStep DEF ReaderMatch, ReaderUnmatch
<1> QED BY <1>2, <1>3, <1>5 DEF IInv

\* A lost datagram.
LEMMA LoseIInv ==
    ASSUME IInv, NEW m \in net, Lose(m)
    PROVE  IInv'
  BY Frame DEF Lose, IInv

-----------------------------------------------------------------------------
(* The theorems. *)

\* Every step keeps the invariant.
LEMMA NextIInv == IInv /\ [Next]_vars => IInv'
PROOF
<1> SUFFICES ASSUME IInv, [Next]_vars PROVE IInv'
  OBVIOUS
<1>0. /\ TRUE \in BOOLEAN /\ 0 \in Nat /\ AskChoices \subseteq BOOLEAN /\ MemChoices \subseteq BOOLEAN
      /\ Accepts \subseteq Nat
  BY TopicAssumption
<1>1. CASE UNCHANGED vars
  BY <1>1, Frame DEF vars, IInv
<1>2. ASSUME NEW n \in FragCounts, NEW d \in Dests, Send(n, d) PROVE IInv'
  BY <1>2, SendIInv
<1>3. ASSUME NEW b \in BOOLEAN, SetFresh(b) PROVE IInv'
  BY <1>3, SetFreshIInv
<1>4. ASSUME NEW p \in Readers, WriterMatch(p) \/ WriterUnmatch(p) \/ WriterSleep(p) PROVE IInv'
  BY <1>4, WriterMatchingIInv
<1>5. ASSUME NEW p \in Readers, EmitRepair(p) \/ EmitFloor(p) \/ EmitHeartbeat(p) PROVE IInv'
  BY <1>0, <1>5, WriterEmitIInv
<1>6. ASSUME NEW p \in Readers, NEW ask \in AskChoices, EmitPush(p, ask) PROVE IInv'
  BY <1>0, <1>6, WriterEmitIInv
<1>7. ASSUME NEW m \in net, RecvNack(m) PROVE IInv'
  BY <1>7, RecvNackIInv
<1>8. ASSUME NEW p \in Readers, ReaderMatch(p) \/ ReaderUnmatch(p) PROVE IInv'
  BY <1>8, ReaderMatchingIInv
<1>9. ASSUME NEW p \in Readers, ReaderSleep(p) PROVE IInv'
  BY <1>0, <1>9, ReaderOwnIInv
<1>10. ASSUME NEW p \in Readers, NEW due \in BOOLEAN, ReaderEmit(p, due) PROVE IInv'
  BY <1>0, <1>10, ReaderOwnIInv
<1>11. ASSUME NEW p \in Readers, NEW acc \in Accepts, ReaderUnpark(p, acc) PROVE IInv'
  BY <1>0, <1>11, ReaderOwnIInv
<1>12. ASSUME NEW m \in net, NEW acc \in Accepts, RecvHb(m, acc) PROVE IInv'
  BY <1>0, <1>12, ReaderRecvIInv
<1>13. ASSUME NEW m \in net, NEW acc \in Accepts, NEW mem \in MemChoices, RecvData(m, mem, acc) PROVE IInv'
  BY <1>0, <1>13, ReaderRecvIInv
<1>14. ASSUME NEW m \in net, Lose(m) PROVE IInv'
  BY <1>14, LoseIInv
<1>15. CASE WriterNext
  BY <1>15, <1>2, <1>3, <1>4, <1>5, <1>6, <1>7 DEF WriterNext
<1>16. CASE ReaderNext
  BY <1>16, <1>8, <1>9, <1>10, <1>11, <1>12, <1>13 DEF ReaderNext
<1> QED BY <1>1, <1>14, <1>15, <1>16 DEF Next

\* The inductive invariant is one.
THEOREM Invariance == Spec => []IInv
  BY InitIInv, NextIInv, PTL DEF Spec

\* Every variable keeps its type, whatever the network does: seqnos never turn
\* negative, a heartbeat is never built for an empty history, an ack point exists.
THEOREM TypeCorrect == Spec => []TypeOK
PROOF
<1>1. IInv => TypeOK
  BY DEF IInv, LanesInv, ReadersInv, NetInv, RestInv, TopicOK, TypeOK
<1> QED BY <1>1, Invariance, PTL

\* What i_rant_reader_deliver hands to the consumer of one reader incarnation is
\* in seqno order and without overlap, whatever arrives twice, late or reordered.
THEOREM DeliveryInOrder == Spec => []InOrderOnce
PROOF
<1>1. IInv => InOrderOnce
  BY DEF IInv, ReadersInv, ReaderOK, Ordered, InOrderOnce
<1> QED BY <1>1, Invariance, PTL

\* Every seqno a reader has passed since it took its position was handed up or
\* counted lost (i_rant_reader_settle), never neither and never both.
THEOREM LossIsReported == Spec => []NoSilentLoss
PROOF
<1>1. IInv => NoSilentLoss
  <2> SUFFICES ASSUME IInv, ~Directed, NEW p \in Readers
               PROVE  /\ DeliveredSeqnos(reader[p]) \cap reader[p].lost = {}
                      /\ reader[p].started =>
                            reader[p].start .. (reader[p].upto - 1)
                                \subseteq DeliveredSeqnos(reader[p]) \cup reader[p].lost
    BY DEF NoSilentLoss
  <2> DEFINE r == reader[p]
  <2>1. Accounted(r) /\ r \in ReaderState
    BY DEF IInv, ReadersInv, ReaderOK
  <2>2. r.upto \in Nat /\ r.start \in Nat
    BY <2>1 DEF ReaderState
  <2> HIDE DEF r
  <2>3. \A x \in DeliveredSeqnos(r) : HandedUp(r, x)
    BY DEF DeliveredSeqnos, HandedUp
  <2>4. \A x \in 0 .. r.upto : HandedUp(r, x) => x \in DeliveredSeqnos(r)
    BY DEF DeliveredSeqnos, HandedUp
  <2>5. DeliveredSeqnos(r) \cap r.lost = {}
    BY <2>1, <2>3 DEF Accounted
  <2>6. ASSUME NEW x \in r.start .. (r.upto - 1)
        PROVE  x \in DeliveredSeqnos(r) \cup r.lost
    <3>1. HandedUp(r, x) \/ x \in r.lost
      BY <2>1 DEF Accounted
    <3>2. x \in 0 .. r.upto
      BY <2>2
    <3> QED BY <3>1, <3>2, <2>4
  <2> QED BY <2>5, <2>6 DEF r
<1> QED BY <1>1, Invariance, PTL

\* What a reader hands up is a whole sample the writer sealed, put together from no
\* other, and one addressed to this reader or to all.
THEOREM OwnSamples == Spec => []OnlyOwnSamples
PROOF
<1>1. IInv => OnlyOwnSamples
  <2> SUFFICES ASSUME IInv, NEW p \in Readers, NEW i \in 1 .. Len(reader[p].log)
               PROVE  \E k \in 1 .. Len(topic.smp) :
                         /\ topic.smp[k].base = reader[p].log[i].base
                         /\ topic.smp[k].count = reader[p].log[i].count
                         /\ ~Foreign(topic.smp[k], p)
    BY DEF OnlyOwnSamples
  <2>1. reader[p].log[i] \in Deliverable(topic, p)
    BY DEF IInv, ReadersInv, ReaderOK, Genuine
  <2>2. PICK k \in 1 .. Len(topic.smp) : /\ ~Foreign(topic.smp[k], p)
                                         /\ reader[p].log[i] = AsDelivery(topic.smp[k])
    BY <2>1 DEF Deliverable
  <2> QED BY <2>2 DEF AsDelivery
<1> QED BY <1>1, Invariance, PTL

\* The requests i_rant_writer_nack merges stay inside the bitmap window above
\* nack_base, in whatever order ACKNACKs with different bases cross.
THEOREM WindowKept == Spec => []RequestsFitWindow
PROOF
<1>1. IInv => RequestsFitWindow
  BY DEF IInv, LanesInv, LaneOK, RequestsFitWindow
<1> QED BY <1>1, Invariance, PTL

-----------------------------------------------------------------------------
(* The refinement: a send publishes, a reader's match and unmatch          *)
(* subscribe and unsubscribe, whatever hands samples up or skips some is a *)
(* move forward, and all else is invisible.                                *)

\* A move from o to q, as OrderedDelivery states it of a subscription.
LEMMA MoveForward ==
    ASSUME NEW G, NEW E, NEW o, ReaderOK(o, G, E), o.started,
           NEW q, ReaderOK(q, G, E), Moves(o, q)
    PROVE  /\ o.upto <= q.upto
           /\ SubSeq(q.log, 1, Len(o.log)) = o.log
           /\ \A i \in (Len(o.log) + 1) .. Len(q.log) :
                 /\ o.upto <= q.log[i].base
                 /\ q.log[i].base + q.log[i].count <= q.upto
                 /\ i + 1 \in (Len(o.log) + 1) .. Len(q.log) =>
                       q.log[i].base + q.log[i].count <= q.log[i + 1].base
                 /\ q.log[i] \in G
           /\ o.lost \subseteq q.lost
           /\ \A x \in o.upto .. (q.upto - 1) :
                 (\E i \in (Len(o.log) + 1) .. Len(q.log) :
                     x \in q.log[i].base .. (q.log[i].base + q.log[i].count - 1)) => x \notin q.lost
           /\ ~Directed => \A x \in o.upto .. (q.upto - 1) :
                 x \in q.lost \/ \E i \in (Len(o.log) + 1) .. Len(q.log) :
                                    x \in q.log[i].base .. (q.log[i].base + q.log[i].count - 1)
           /\ q.lost \ o.lost \subseteq o.upto .. (q.upto - 1)
PROOF
<1> DEFINE H == (Len(o.log) + 1) .. Len(q.log)
<1>1. /\ o.upto \in Nat /\ q.upto \in Nat /\ q.start \in Nat /\ o.log \in Seq(Delivery)
      /\ q.log \in Seq(Delivery) /\ q.lost \in SUBSET Nat
  BY DEF ReaderOK, ReaderState
<1>2. Len(o.log) \in Nat /\ Len(q.log) \in Nat /\ Len(o.log) <= Len(q.log) /\ H \subseteq 1 .. Len(q.log)
  BY <1>1 DEF Moves
<1>3. \A i \in 1 .. Len(q.log) : /\ q.log[i].base \in Nat /\ q.log[i].count \in Nat
                                 /\ EndOf(q.log[i]) = q.log[i].base + q.log[i].count
  <2>1. \A i \in 1 .. Len(q.log) : q.log[i] \in Delivery
    BY <1>1
  <2> QED BY <2>1 DEF Delivery, EndOf
<1>4. o.upto <= q.upto /\ o.lost \subseteq q.lost
  BY DEF Moves
<1>5. SubSeq(q.log, 1, Len(o.log)) = o.log
  BY <1>1, <1>2 DEF Moves
<1>6. ASSUME NEW i \in H
      PROVE  /\ o.upto <= q.log[i].base
             /\ q.log[i].base + q.log[i].count <= q.upto
             /\ i + 1 \in H => q.log[i].base + q.log[i].count <= q.log[i + 1].base
             /\ q.log[i] \in G
  <2>1. i \in 1 .. Len(q.log) /\ Len(o.log) < i
    BY <1>2
  <2>2. o.upto <= q.log[i].base
    BY <2>1 DEF Moves
  <2>3. q.log[i].base + q.log[i].count <= q.upto /\ q.log[i] \in G
    BY <2>1, <1>3 DEF ReaderOK, Ordered, Genuine
  <2>4. ASSUME i + 1 \in H
        PROVE  q.log[i].base + q.log[i].count <= q.log[i + 1].base
    <3>1. i + 1 \in 1 .. Len(q.log) /\ i < i + 1
      BY <2>1, <2>4, <1>2
    <3>2. EndOf(q.log[i]) <= q.log[i + 1].base
      BY <2>1, <3>1 DEF ReaderOK, Ordered
    <3> QED BY <2>1, <3>2, <1>3
  <2> QED BY <2>2, <2>3, <2>4
<1>7. \A x \in Nat : \A i \in 1 .. Len(q.log) :
         Covers(q.log[i], x) <=> x \in q.log[i].base .. (q.log[i].base + q.log[i].count - 1)
  BY <1>3 DEF Covers
<1>8. ASSUME NEW x \in o.upto .. (q.upto - 1), NEW i \in H,
             x \in q.log[i].base .. (q.log[i].base + q.log[i].count - 1)
      PROVE  x \notin q.lost
  <2>1. x \in Nat /\ i \in 1 .. Len(q.log)
    BY <1>1, <1>2
  <2>2. Covers(q.log[i], x)
    BY <1>7, <1>8, <2>1
  <2> QED BY <2>1, <2>2 DEF ReaderOK, Accounted, HandedUp
<1>9. ASSUME ~Directed, NEW x \in o.upto .. (q.upto - 1)
      PROVE  x \in q.lost \/ \E i \in H : x \in q.log[i].base .. (q.log[i].base + q.log[i].count - 1)
  <2>1. x \in Nat /\ o.upto <= x /\ x <= q.upto - 1
    BY <1>1
  <2>2. o.start <= o.upto /\ q.start = o.start
    BY DEF ReaderOK, Accounted, Moves
  <2>3. x \in q.start .. (q.upto - 1)
    BY <2>1, <2>2, <1>1
  <2>4. x \in q.lost \/ HandedUp(q, x)
    BY <2>3, <1>9 DEF ReaderOK, Accounted
  <2>5. ASSUME NEW i \in 1 .. Len(q.log), Covers(q.log[i], x)
        PROVE  i \in H
    <3>1. ASSUME i \in 1 .. Len(o.log) PROVE FALSE
      <4>1. q.log[i] = o.log[i] /\ EndOf(o.log[i]) <= o.upto
        BY <3>1 DEF Moves, ReaderOK, Ordered
      <4>2. x < EndOf(q.log[i]) /\ EndOf(q.log[i]) \in Nat
        BY <2>5, <1>3 DEF Covers
      <4> QED BY <4>1, <4>2, <2>1, <1>1
    <3> QED BY <3>1, <1>2
  <2> QED BY <2>1, <2>4, <2>5, <1>7 DEF HandedUp
<1>10. q.lost \ o.lost \subseteq o.upto .. (q.upto - 1)
  <2>1. \A x \in q.lost \ o.lost : x \in Nat /\ o.upto <= x /\ x < q.upto
    BY <1>1 DEF Moves, ReaderOK, Accounted
  <2> QED BY <2>1, <1>1
<1> QED BY <1>4, <1>5, <1>6, <1>8, <1>9, <1>10

\* A reader's own step is a move forward, or shows nothing.
LEMMA ForwardsRefines ==
    ASSUME IInv, IInv', UNCHANGED topic, NEW p, Forwards(p)
    PROVE  Abstract!Forward(p) \/ UNCHANGED Abstract!dvars
PROOF
<1> DEFINE r == reader[p]
           q == reader'[p]
           G == Deliverable(topic, p)
           E == Edges(topic, p)
<1>1. /\ p \in Readers /\ r.used /\ reader' = [reader EXCEPT ![p] = q]
      /\ ReaderOK(r, G, E) /\ ReaderOK(q, G, E) /\ reader \in [Readers -> ReaderState]
  BY DEF IInv, ReadersInv, Forwards
<1>2. \A z \in Readers \ {p} : reader'[z] = reader[z]
  BY <1>1
<1>3. r \in ReaderState /\ q \in ReaderState
  BY <1>1 DEF ReaderOK
<1>4. r.started \in BOOLEAN /\ q.started \in BOOLEAN
  BY <1>3 DEF ReaderState
<1>5. ASSUME NEW o, ReaderOK(o, G, E), o.started, Moves(o, q),
             o.log = r.log, o.lost = r.lost, o.used = r.used,
             r.started => o.upto = r.upto /\ o.start = r.start,
             ~r.started => o.upto = o.start
      PROVE  Abstract!Forward(p)
  <2>1. q.used /\ q.started /\ q.start = o.start
    BY <1>1, <1>5 DEF Moves
  <2>2. (IF r.started THEN r.upto ELSE q.start) = o.upto
    BY <1>5, <2>1
  <2>3. /\ o.upto <= q.upto
        /\ SubSeq(q.log, 1, Len(r.log)) = r.log
        /\ \A i \in (Len(r.log) + 1) .. Len(q.log) :
              /\ o.upto <= q.log[i].base
              /\ q.log[i].base + q.log[i].count <= q.upto
              /\ i + 1 \in (Len(r.log) + 1) .. Len(q.log) =>
                    q.log[i].base + q.log[i].count <= q.log[i + 1].base
              /\ q.log[i] \in G
        /\ r.lost \subseteq q.lost
        /\ \A x \in o.upto .. (q.upto - 1) :
              (\E i \in (Len(r.log) + 1) .. Len(q.log) :
                  x \in q.log[i].base .. (q.log[i].base + q.log[i].count - 1)) => x \notin q.lost
        /\ ~Directed => \A x \in o.upto .. (q.upto - 1) :
              x \in q.lost \/ \E i \in (Len(r.log) + 1) .. Len(q.log) :
                                 x \in q.log[i].base .. (q.log[i].base + q.log[i].count - 1)
        /\ q.lost \ r.lost \subseteq o.upto .. (q.upto - 1)
    <3> HIDE DEF r, q, G, E
    <3>1. ReaderOK(q, G, E)
      BY <1>1
    <3> QED BY <1>5, <3>1, MoveForward
  <2>4. \A i \in (Len(r.log) + 1) .. Len(q.log) : \E k \in 1 .. Len(topic.smp) :
           /\ topic.smp[k].base = q.log[i].base /\ topic.smp[k].count = q.log[i].count
           /\ Directed => topic.smp[k].dest \in {"all", p}
    <3> SUFFICES ASSUME NEW i \in (Len(r.log) + 1) .. Len(q.log)
                 PROVE  \E k \in 1 .. Len(topic.smp) :
                           /\ topic.smp[k].base = q.log[i].base /\ topic.smp[k].count = q.log[i].count
                           /\ Directed => topic.smp[k].dest \in {"all", p}
      OBVIOUS
    <3>1. q.log[i] \in G
      BY <2>3
    <3>2. PICK k \in 1 .. Len(topic.smp) : /\ ~Foreign(topic.smp[k], p)
                                           /\ q.log[i] = AsDelivery(topic.smp[k])
      BY <3>1 DEF Deliverable
    <3> QED BY <3>2 DEF AsDelivery, Foreign, DestAll
  <2> DEFINE S == [y \in Readers |-> View(reader[y])]
             T == [y \in Readers |-> View(reader'[y])]
  <2>5. S[p] = View(r) /\ T[p] = View(q) /\ \A z \in Readers \ {p} : T[z] = S[z]
    BY <1>1, <1>2
  <2> HIDE DEF S, T, r, q, G, E
  <2>6. /\ S[p].open = r.used /\ S[p].placed = r.started /\ S[p].start = r.start
        /\ S[p].at = r.upto /\ S[p].log = r.log /\ S[p].lost = r.lost
    BY <2>5 DEF View
  <2>7. /\ T[p].open = q.used /\ T[p].placed = q.started /\ T[p].start = q.start
        /\ T[p].at = q.upto /\ T[p].log = q.log /\ T[p].lost = q.lost
    BY <2>5 DEF View
  <2>8. (IF S[p].placed THEN S[p].at ELSE T[p].start) = o.upto
    BY <2>2, <2>6, <2>7
  <2>9. S[p].open /\ T[p].open /\ T[p].placed /\ (S[p].placed => T[p].start = S[p].start)
    BY <1>1, <1>5, <2>1, <2>6, <2>7
  <2>10. UNCHANGED topic.smp
    OBVIOUS
  <2> HIDE DEF Abstract!Forward
  <2> DEFINE from == IF S[p].placed THEN S[p].at ELSE T[p].start
             Handed == (Len(S[p].log) + 1) .. Len(T[p].log)
  <2>11. /\ from <= T[p].at
         /\ SubSeq(T[p].log, 1, Len(S[p].log)) = S[p].log
         /\ S[p].lost \subseteq T[p].lost
         /\ T[p].lost \ S[p].lost \subseteq from .. (T[p].at - 1)
    BY <2>3, <2>6, <2>7, <2>8
  <2>12. \A i \in Handed :
            /\ from <= T[p].log[i].base
            /\ T[p].log[i].base + T[p].log[i].count <= T[p].at
            /\ i + 1 \in Handed => T[p].log[i].base + T[p].log[i].count <= T[p].log[i + 1].base
            /\ \E k \in 1 .. Len(topic.smp) :
                  /\ topic.smp[k].base = T[p].log[i].base /\ topic.smp[k].count = T[p].log[i].count
                  /\ Abstract!Addressed(topic.smp[k], p)
    BY <2>3, <2>4, <2>6, <2>7, <2>8 DEF Abstract!Addressed
  <2>13. \A x \in from .. (T[p].at - 1) :
            (\E i \in Handed : x \in Abstract!Seqnos(T[p].log[i])) => x \notin T[p].lost
    BY <2>3, <2>6, <2>7, <2>8 DEF Abstract!Seqnos
  <2>14. ~Directed => \A x \in from .. (T[p].at - 1) :
            x \in T[p].lost \/ \E i \in Handed : x \in Abstract!Seqnos(T[p].log[i])
    BY <2>3, <2>6, <2>7, <2>8 DEF Abstract!Seqnos
  <2> QED BY <2>5, <2>9, <2>10, <2>11, <2>12, <2>13, <2>14 DEF Abstract!Forward, S, T
<1>6. CASE r.started
  BY <1>1, <1>5, <1>6 DEF Forwards
<1>7. CASE ~r.started /\ Moves(r, q)
  <2>1. q.used = r.used /\ q.started = r.started
    BY <1>7 DEF Moves
  <2>2. /\ q.upto = r.upto /\ q.start = r.start /\ q.log = r.log /\ q.lost = r.lost
    BY <1>1, <1>7, <2>1 DEF ReaderOK, Unpositioned
  <2>3. View(q) = View(r)
    BY <2>1, <2>2 DEF View
  <2>4. \A z \in Readers : View(reader'[z]) = View(reader[z])
    BY <1>2, <2>3
  <2>5. [y \in Readers |-> View(reader'[y])] = [y \in Readers |-> View(reader[y])]
    BY <2>4
  <2>6. UNCHANGED topic.smp
    OBVIOUS
  <2> QED BY <2>5, <2>6 DEF Abstract!dvars
<1>8. CASE ~r.started /\ ~Moves(r, q)
  <2>1. PICK b \in Nat : ReaderOK(Adopted(r, b), G, E) /\ Moves(Adopted(r, b), q)
    BY <1>8 DEF Forwards
  <2>2. /\ Adopted(r, b).started /\ Adopted(r, b).upto = b /\ Adopted(r, b).start = b
        /\ Adopted(r, b).log = r.log /\ Adopted(r, b).lost = r.lost /\ Adopted(r, b).used = r.used
    BY <1>3 DEF Adopted, ReaderState
  <2> QED BY <1>5, <1>8, <2>1, <2>2
<1> QED BY <1>6, <1>7, <1>8

\* Initially nothing is published and nobody subscribes.
LEMMA InitRefines == Init => Abstract!DInit
PROOF
<1> SUFFICES ASSUME Init PROVE Abstract!DInit
  OBVIOUS
<1>1. topic.smp = << >>
  BY DEF Init, EmptyTopic
<1>2. ASSUME NEW p \in Readers PROVE View(reader[p]) = Abstract!Unplaced(FALSE)
  BY DEF Init, View, NoReader, Abstract!Unplaced
<1> QED BY <1>1, <1>2 DEF Abstract!DInit

\* A send publishes one sample after all others.
LEMMA SendRefines ==
    ASSUME IInv, NEW c \in FragCounts, NEW d \in Dests, Send(c, d)
    PROVE  Abstract!Publish
PROOF
<1> DEFINE new == [base |-> NextSeqno(topic), count |-> c, dest |-> d]
<1>1. c \in Nat \ {0} /\ d \in Readers \cup {DestAll, DestNone}
  BY TopicAssumption, DestsAssumption
<1>2. TopicOK(topic) /\ topic' = Seal(topic, c, d) /\ reader' = reader
  BY DEF IInv, Send
<1>3. topic'.smp = Append(topic.smp, new) /\ topic.smp \in Seq(Sample)
  BY <1>1, <1>2, SealOK, TopicFacts
<1>4. new.base = NextSeqno(topic)
  OBVIOUS
<1> HIDE DEF new
<1>5. /\ Len(topic'.smp) = Len(topic.smp) + 1
      /\ topic'.smp[Len(topic'.smp)] = new
  BY <1>3
<1>6. \A i \in 1 .. Len(topic.smp) : topic.smp[i].base + topic.smp[i].count <= new.base
  BY <1>2, <1>4, TopicFacts
<1>7. [y \in Readers |-> View(reader'[y])] = [y \in Readers |-> View(reader[y])]
  BY <1>2
<1> QED BY <1>3, <1>5, <1>6, <1>7 DEF Abstract!Publish

\* A reader that matches subscribes, one that unmatches gives its subscription up.
LEMMA MatchingRefines ==
    ASSUME IInv, NEW p \in Readers, ReaderMatch(p) \/ ReaderUnmatch(p)
    PROVE  Abstract!Subscribe(p) \/ Abstract!Unsubscribe(p)
PROOF
<1> DEFINE S == [y \in Readers |-> View(reader[y])]
           T == [y \in Readers |-> View(reader'[y])]
<1>1. UNCHANGED topic.smp /\ reader \in [Readers -> ReaderState]
  BY DEF ReaderMatch, ReaderUnmatch, IInv, ReadersInv
<1>2. S[p].open = reader[p].used
  BY DEF View
<1>3. ASSUME NEW r, NEW o \in BOOLEAN, reader' = [reader EXCEPT ![p] = r], View(r) = Abstract!Unplaced(o)
      PROVE  T = [S EXCEPT ![p] = Abstract!Unplaced(o)]
  <2>1. \A y \in Readers : View(reader'[y]) = IF y = p THEN Abstract!Unplaced(o) ELSE View(reader[y])
    BY <1>1, <1>3
  <2> QED BY <2>1
<1>4. CASE ReaderMatch(p)
  <2>1. View(Matched(epochs)) = Abstract!Unplaced(TRUE)
    BY DEF View, Matched, NoReader, Abstract!Unplaced
  <2>2. reader' = [reader EXCEPT ![p] = Matched(epochs)] /\ ~reader[p].used
    BY <1>4 DEF ReaderMatch
  <2>3. T = [S EXCEPT ![p] = Abstract!Unplaced(TRUE)]
    BY <1>3, <2>1, <2>2
  <2> QED BY <1>1, <1>2, <2>2, <2>3 DEF Abstract!Subscribe
<1>5. CASE ReaderUnmatch(p)
  <2>1. View(NoReader) = Abstract!Unplaced(FALSE)
    BY DEF View, NoReader, Abstract!Unplaced
  <2>2. reader' = [reader EXCEPT ![p] = NoReader] /\ reader[p].used
    BY <1>5 DEF ReaderUnmatch
  <2>3. T = [S EXCEPT ![p] = Abstract!Unplaced(FALSE)]
    BY <1>3, <2>1, <2>2
  <2> QED BY <1>1, <1>2, <2>2, <2>3 DEF Abstract!Unsubscribe
<1> QED BY <1>4, <1>5

\* Every step maps to a step of OrderedDelivery or to a stutter.
LEMMA NextRefines == IInv /\ IInv' /\ [Next]_vars => [Abstract!DNext]_(Abstract!dvars)
PROOF
<1> SUFFICES ASSUME IInv, IInv', [Next]_vars
             PROVE  Abstract!DNext \/ UNCHANGED Abstract!dvars
  OBVIOUS
<1>0. /\ TRUE \in BOOLEAN /\ 0 \in Nat /\ MemChoices \subseteq BOOLEAN /\ Accepts \subseteq Nat
  BY TopicAssumption
<1>1. topic'.smp = topic.smp /\ reader' = reader => UNCHANGED Abstract!dvars
  BY DEF Abstract!dvars
<1>2. ASSUME UNCHANGED topic, NEW p, reader' = reader \/ Forwards(p)
      PROVE  Abstract!DNext \/ UNCHANGED Abstract!dvars
  <2>1. CASE reader' = reader
    BY <1>1, <1>2, <2>1
  <2>2. CASE Forwards(p)
    <3>1. Abstract!Forward(p) \/ UNCHANGED Abstract!dvars
      BY <1>2, <2>2, ForwardsRefines
    <3>2. p \in Readers
      BY <2>2 DEF Forwards
    <3> QED BY <3>1, <3>2 DEF Abstract!DNext
  <2> QED BY <1>2, <2>1, <2>2
<1>3. CASE UNCHANGED vars
  BY <1>1, <1>3 DEF vars
<1>4. ASSUME NEW n \in FragCounts, NEW d \in Dests, Send(n, d) PROVE Abstract!DNext
  BY <1>4, SendRefines DEF Abstract!DNext
<1>5. ASSUME NEW b \in BOOLEAN, SetFresh(b) PROVE UNCHANGED Abstract!dvars
  <2>1. topic'.smp = topic.smp /\ reader' = reader
    BY <1>5 DEF SetFresh, IInv, TopicOK, TopicState
  <2> QED BY <1>1, <2>1
<1>6. ASSUME NEW p \in Readers, WriterMatch(p) \/ WriterUnmatch(p) \/ WriterSleep(p)
      PROVE  UNCHANGED Abstract!dvars
  BY <1>1, <1>6 DEF WriterMatch, WriterUnmatch, WriterSleep
<1>7. ASSUME NEW p \in Readers, EmitRepair(p) \/ EmitFloor(p) \/ EmitHeartbeat(p)
      PROVE  UNCHANGED Abstract!dvars
  BY <1>1, <1>7 DEF EmitRepair, EmitFloor, EmitHeartbeat, Emit
<1>8. ASSUME NEW p \in Readers, NEW ask \in AskChoices, EmitPush(p, ask)
      PROVE  UNCHANGED Abstract!dvars
  BY <1>1, <1>8 DEF EmitPush, Emit
<1>9. ASSUME NEW m \in net, RecvNack(m) PROVE UNCHANGED Abstract!dvars
  BY <1>1, <1>9 DEF RecvNack
<1>10. ASSUME NEW p \in Readers, ReaderMatch(p) \/ ReaderUnmatch(p) PROVE Abstract!DNext
  BY <1>10, MatchingRefines DEF Abstract!DNext
<1>11. ASSUME NEW p \in Readers, NEW due \in BOOLEAN, NEW acc \in Nat,
              ReaderEmit(p, due) \/ ReaderUnpark(p, acc) \/ ReaderSleep(p)
       PROVE  Abstract!DNext \/ UNCHANGED Abstract!dvars
  <2>1. reader' = reader \/ Forwards(p)
    BY <1>11, ReaderOwnStep
  <2>2. UNCHANGED topic
    BY <1>11 DEF ReaderEmit, ReaderUnpark, ReaderSleep
  <2> QED BY <1>2, <2>1, <2>2
<1>12. ASSUME NEW m \in net, NEW acc \in Nat, RecvHb(m, acc)
       PROVE  Abstract!DNext \/ UNCHANGED Abstract!dvars
  <2>1. reader' = reader \/ Forwards(m.lane)
    BY <1>12, RecvHbStep
  <2>2. UNCHANGED topic
    BY <1>12 DEF RecvHb
  <2> QED BY <1>2, <2>1, <2>2
<1>13. ASSUME NEW m \in net, NEW acc \in Nat, NEW mem \in BOOLEAN, RecvData(m, mem, acc)
       PROVE  Abstract!DNext \/ UNCHANGED Abstract!dvars
  <2>1. reader' = reader \/ Forwards(m.lane)
    BY <1>13, RecvDataStep
  <2>2. UNCHANGED topic
    BY <1>13 DEF RecvData
  <2> QED BY <1>2, <2>1, <2>2
<1>14. ASSUME NEW m \in net, Lose(m) PROVE UNCHANGED Abstract!dvars
  BY <1>1, <1>14 DEF Lose
<1>15. CASE WriterNext
  BY <1>15, <1>4, <1>5, <1>6, <1>7, <1>8, <1>9 DEF WriterNext
<1>16. CASE ReaderNext
  BY <1>0, <1>16, <1>10, <1>11, <1>12, <1>13 DEF ReaderNext
<1> QED BY <1>3, <1>14, <1>15, <1>16 DEF Next

\* A reliable topic keeps the promise of OrderedDelivery on any network: the initial
\* states and every step of the transport map to it.
THEOREM Refinement == Spec => ImplementsOrderedDelivery
  BY InitRefines, NextRefines, Invariance, PTL DEF Spec, ImplementsOrderedDelivery, Abstract!DSpec

=============================================================================
