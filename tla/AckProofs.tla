----------------------------- MODULE AckProofs -----------------------------
(***************************************************************************)
(* The two edges of a lane agree: what the writer counts as acked, and so  *)
(* may evict, its reader has passed.  And what a writer that waits for its *)
(* readers lets go, they have: such a reader gets every sample for it.     *)
(***************************************************************************)
EXTENDS ReliableTopicProofs

-----------------------------------------------------------------------------
(* What a reader keeps of what it received, as it moves forward. *)

\* the slot still holds the sample it held, and no less of it
Keeps(a, b) == b.on /\ b.base = a.base /\ b.count = a.count /\ a.got \subseteq b.got

\* from r to q what was received is kept, or its sample is passed
Grows(r, q) ==
    /\ q.epoch = r.epoch
    /\ r.upto <= q.upto
    /\ r.cur.on => \/ EndOf(r.cur) <= q.upto
                   \/ q.upto = r.upto /\ Keeps(r.cur, q.cur)

\* what is passed from r to q was handed up
Through(r, q) == \A x \in Nat : r.upto <= x /\ x < q.upto => HandedUp(q, x)

\* a lane is parked exactly when its head is complete and was refused
Parks(r) == r.parked <=> Complete(r.cur)

\* a sample has a fragment
Sized(G) == \A d \in G : d.count > 0

\* The first fragment an assembly lacks.
LEMMA FrontOK ==
    ASSUME NEW a \in Assembly, Fits(a)
    PROVE  /\ EndOf(a) \in Nat /\ EndOf(a) = a.base + a.count
           /\ Front(a) \in Nat /\ a.base <= Front(a) /\ Front(a) <= EndOf(a) /\ Front(a) \notin a.got
           /\ \A y \in Nat : a.base <= y /\ y <= EndOf(a) /\ y \notin a.got => Front(a) <= y
           /\ Complete(a) <=> a.on /\ Front(a) = EndOf(a)
PROOF
<1> DEFINE S == (a.base .. EndOf(a)) \ a.got
<1>1. a.base \in Nat /\ a.count \in Nat /\ a.got \in SUBSET Nat /\ EndOf(a) = a.base + a.count /\ EndOf(a) \in Nat
  BY DEF Assembly, EndOf
<1>2. EndOf(a) \in S
  BY <1>1 DEF Fits
<1>3. S \in SUBSET Nat
  BY <1>1
<1>4. Front(a) = Min(S)
  BY DEF Front
<1>5. Min(S) \in S /\ \A y \in S : Min(S) <= y
  <2> HIDE DEF S
  <2> QED BY <1>2, <1>3, MinNat
<1>6. /\ Front(a) \in Nat /\ a.base <= Front(a) /\ Front(a) <= EndOf(a) /\ Front(a) \notin a.got
      /\ \A y \in Nat : a.base <= y /\ y <= EndOf(a) /\ y \notin a.got => Front(a) <= y
  BY <1>1, <1>3, <1>4, <1>5
<1>7. Complete(a) => a.on /\ Front(a) = EndOf(a)
  <2> SUFFICES ASSUME Complete(a), Front(a) # EndOf(a) PROVE FALSE
    BY DEF Complete
  <2>1. Front(a) \in a.base .. (EndOf(a) - 1)
    BY <1>1, <1>6
  <2> QED BY <2>1, <1>6 DEF Complete
<1>8. a.on /\ Front(a) = EndOf(a) => Complete(a)
  <2> SUFFICES ASSUME a.on, Front(a) = EndOf(a), NEW y \in a.base .. (EndOf(a) - 1), y \notin a.got PROVE FALSE
    BY DEF Complete
  <2> QED BY <1>1, <1>6
<1> QED BY <1>1, <1>6, <1>7, <1>8

\* Keeping a slot keeps its front.
LEMMA KeepsFront ==
    ASSUME NEW a \in Assembly, NEW b \in Assembly, Fits(a), Fits(b), Keeps(a, b)
    PROVE  EndOf(b) = EndOf(a) /\ Front(a) <= Front(b)
PROOF
<1>1. EndOf(b) = EndOf(a)
  BY DEF Keeps, EndOf
<1>2. /\ Front(b) \in Nat /\ b.base <= Front(b) /\ Front(b) <= EndOf(b) /\ Front(b) \notin b.got
  BY FrontOK
<1>3. Front(b) \notin a.got /\ a.base = b.base
  BY <1>2 DEF Keeps
<1> QED BY <1>1, <1>2, <1>3, FrontOK

\* Growing twice is growing.
LEMMA GrowsTrans ==
    ASSUME NEW a \in ReaderState, NEW b \in ReaderState, NEW c \in ReaderState, Grows(a, b), Grows(b, c)
    PROVE  Grows(a, c)
PROOF
<1>1. a.upto \in Nat /\ b.upto \in Nat /\ c.upto \in Nat /\ a.upto <= b.upto /\ b.upto <= c.upto
  BY DEF ReaderState, Grows
<1>2. EndOf(a.cur) \in Nat /\ EndOf(b.cur) \in Nat
  <2>1. a.cur \in Assembly /\ b.cur \in Assembly
    BY DEF ReaderState
  <2> QED BY <2>1 DEF Assembly, EndOf
<1>3. SUFFICES ASSUME a.cur.on PROVE EndOf(a.cur) <= c.upto \/ (c.upto = a.upto /\ Keeps(a.cur, c.cur))
  BY <1>1 DEF Grows
<1>4. CASE EndOf(a.cur) <= b.upto
  BY <1>1, <1>2, <1>4
<1>5. CASE b.upto = a.upto /\ Keeps(a.cur, b.cur)
  <2>1. EndOf(b.cur) = EndOf(a.cur) /\ b.cur.on
    BY <1>5 DEF Keeps, EndOf
  <2> QED BY <2>1, <1>5 DEF Grows, Keeps
<1> QED BY <1>3, <1>4, <1>5 DEF Grows

\* Handing up everything on the way, twice.
LEMMA ThroughTrans ==
    ASSUME NEW a \in ReaderState, NEW b \in ReaderState, NEW c \in ReaderState,
           Through(a, b), Moves(b, c), Through(b, c)
    PROVE  Through(a, c)
PROOF
<1>1. a.upto \in Nat /\ b.upto \in Nat /\ c.upto \in Nat
  BY DEF ReaderState
<1>2. SUFFICES ASSUME NEW x \in Nat, a.upto <= x, x < c.upto PROVE HandedUp(c, x)
  BY DEF Through
<1>3. CASE b.upto <= x
  BY <1>2, <1>3 DEF Through
<1>4. CASE x < b.upto
  <2>1. PICK i \in 1 .. Len(b.log) : Covers(b.log[i], x)
    BY <1>2, <1>4 DEF Through, HandedUp
  <2>2. c.log[i] = b.log[i] /\ i \in 1 .. Len(c.log)
    <3>0. b.log \in Seq(Delivery) /\ c.log \in Seq(Delivery)
      BY DEF ReaderState
    <3>1. Len(b.log) \in Nat /\ Len(c.log) \in Nat /\ Len(b.log) <= Len(c.log)
      BY <3>0 DEF Moves
    <3> QED BY <3>1, <2>1 DEF Moves
  <2> QED BY <2>1, <2>2 DEF HandedUp
<1> QED BY <1>1, <1>3, <1>4

\* What only touches timers and flags.
LEMMA SameGrows ==
    ASSUME NEW r \in ReaderState, NEW q \in ReaderState, SameData(r, q), q.epoch = r.epoch
    PROVE  Grows(r, q) /\ Through(r, q)
  BY DEF SameData, Grows, Keeps, Through, ReaderState

\* A reader that grows never takes back what it acknowledged.
LEMMA FirstGrows ==
    ASSUME NEW G, NEW E, NEW r, ReaderOK(r, G, E), NEW q, ReaderOK(q, G, E), Grows(r, q)
    PROVE  FirstMissing(r) <= FirstMissing(q)
PROOF
<1>1. /\ FirstMissing(r) \in Nat /\ FirstMissing(q) \in Nat /\ q.upto <= FirstMissing(q)
      /\ r.cur.on => FirstMissing(r) <= EndOf(r.cur)
  BY FirstMissingOK
<1>2. /\ r.upto \in Nat /\ q.upto \in Nat /\ r.cur \in Assembly /\ q.cur \in Assembly
      /\ Fits(r.cur) /\ Fits(q.cur) /\ EndOf(r.cur) \in Nat
  <2>1. r.upto \in Nat /\ q.upto \in Nat /\ r.cur \in Assembly /\ q.cur \in Assembly
    BY DEF ReaderOK, ReaderState
  <2> QED BY <2>1 DEF ReaderOK, Assembly, EndOf
<1>3. CASE ~r.cur.on
  BY <1>1, <1>2, <1>3 DEF Grows, FirstMissing
<1>4. CASE r.cur.on /\ EndOf(r.cur) <= q.upto
  BY <1>1, <1>2, <1>4
<1>5. CASE r.cur.on /\ Keeps(r.cur, q.cur)
  BY <1>2, <1>5, KeepsFront DEF FirstMissing, Keeps
<1> QED BY <1>3, <1>4, <1>5 DEF Grows

\* deliver_upto moves past the head: nothing received is taken back.
LEMMA MoveGrows ==
    ASSUME NEW r \in ReaderState, NEW q \in ReaderState, q.started, Fits(q.nxt), q.epoch = r.epoch,
           NEW s \in Nat, r.upto <= s, r.cur.on => EndOf(r.cur) <= s
    PROVE  Grows(r, MoveTo(q, s))
PROOF
<1>1. MoveTo(q, s).upto = s
  BY MoveToState
<1>2. MoveTo(q, s).epoch = r.epoch
  BY DEF MoveTo, Settle, ReaderState
<1> QED BY <1>1, <1>2 DEF Grows

LEMMA AckNowGrows ==
    ASSUME NEW r \in ReaderState, NEW f \in BOOLEAN
    PROVE  Grows(r, AckNow(r, f)) /\ Through(r, AckNow(r, f))
PROOF
<1>1. AckNow(r, f) \in ReaderState /\ SameData(r, AckNow(r, f)) /\ AckNow(r, f).epoch = r.epoch
  BY DEF AckNow, ReaderState, SameData
<1> QED BY <1>1, SameGrows

\* One turn of the delivery loop hands the head up, or leaves it where it is.
LEMMA HandUpGrows ==
    ASSUME NEW G, NEW E, NEW r, ReaderOK(r, G, E), Closed(G, E), NEW ok \in BOOLEAN
    PROVE  Grows(r, HandUp(r, ok)) /\ Through(r, HandUp(r, ok))
PROOF
<1>0. r \in ReaderState
  BY DEF ReaderOK
<1>1. CASE ~Complete(r.cur)
  <2>1. HandUp(r, ok) = r /\ SameData(r, r)
    BY <1>1 DEF HandUp, SameData
  <2> QED BY <1>0, <2>1, SameGrows
<1>2. CASE Complete(r.cur) /\ ~ok
  <2>1. HandUp(r, ok) = [r EXCEPT !.parked = TRUE]
    BY <1>2 DEF HandUp
  <2>2. /\ [r EXCEPT !.parked = TRUE] \in ReaderState /\ SameData(r, [r EXCEPT !.parked = TRUE])
        /\ [r EXCEPT !.parked = TRUE].epoch = r.epoch
    BY <1>0 DEF ReaderState, SameData
  <2> QED BY <1>0, <2>1, <2>2, SameGrows
<1>3. CASE Complete(r.cur) /\ ok
  <2> DEFINE d == [base |-> r.cur.base, count |-> r.cur.count]
             g == [r EXCEPT !.lapped = FALSE, !.log = Append(@, d)]
             e == EndOf(r.cur)
             m == MoveTo(g, e)
             a == AckNow(m, TRUE)
  <2>1. /\ r.cur.on /\ r.started /\ r.cur.base = r.upto /\ r.upto \in Nat
        /\ r.cur \in Assembly /\ r.log \in Seq(Delivery)
    BY <1>0, <1>3 DEF Complete, ReaderOK, Slots, ReaderState
  <2>2. /\ d \in Delivery /\ d.base = r.upto /\ d.count = r.cur.count
        /\ e = r.upto + r.cur.count /\ e \in Nat /\ r.upto <= e
    BY <2>1 DEF Assembly, Delivery, EndOf
  <2>3. Append(r.log, d) \in Seq(Delivery)
    BY <2>1, <2>2
  <2> HIDE DEF d, e
  <2>4. /\ g \in ReaderState /\ g.started = r.started /\ g.nxt = r.nxt /\ g.epoch = r.epoch
        /\ g.log = Append(r.log, d)
    BY <1>0, <2>1, <2>3 DEF ReaderState
  <2> HIDE DEF g
  <2>5. Fits(g.nxt)
    BY <2>4 DEF ReaderOK
  <2>6. m \in ReaderState /\ m.upto = e /\ m.log = Append(r.log, d)
    BY <2>1, <2>2, <2>4, <2>5, MoveToState
  <2>7. Grows(r, m)
    <3>1. r.cur.on => EndOf(r.cur) <= e
      BY <2>2 DEF e
    <3> QED BY <1>0, <2>1, <2>2, <2>4, <2>5, <3>1, MoveGrows
  <2> HIDE DEF m
  <2>8. a \in ReaderState /\ SameData(m, a)
    BY <2>6 DEF AckNow, ReaderState, SameData
  <2>9. Grows(m, a)
    BY <2>6, AckNowGrows
  <2>10. HandUp(r, ok) = a
    BY <1>3 DEF HandUp, a, m, g, e, d
  <2> HIDE DEF a
  <2>11. Grows(r, a)
    BY <1>0, <2>6, <2>7, <2>8, <2>9, GrowsTrans
  <2>12. a.upto = e /\ a.log = Append(r.log, d)
    BY <2>6, <2>8 DEF SameData
  <2>13. Through(r, a)
    <3>1. Len(r.log) + 1 \in 1 .. Len(a.log) /\ a.log[Len(r.log) + 1] = d
      BY <2>1, <2>2, <2>12
    <3>2. \A x \in Nat : r.upto <= x /\ x < e => Covers(d, x)
      BY <2>2 DEF Covers, EndOf
    <3> QED BY <2>12, <3>1, <3>2 DEF Through, HandedUp
  <2> QED BY <2>10, <2>11, <2>13
<1> QED BY <1>1, <1>2, <1>3

LEMMA DeliverGrows ==
    ASSUME NEW G, NEW E, NEW r, ReaderOK(r, G, E), Closed(G, E), NEW acc \in Nat
    PROVE  Grows(r, Deliver(r, acc)) /\ Through(r, Deliver(r, acc))
PROOF
<1> DEFINE yes == TRUE
           more == acc > 1
           h == HandUp(r, yes)
           k == HandUp(h, more)
<1>1. yes \in BOOLEAN /\ more \in BOOLEAN
  OBVIOUS
<1>2. CASE acc = 0
  <2>1. Deliver(r, acc) = HandUp(r, FALSE)
    BY <1>2 DEF Deliver
  <2> QED BY <2>1, HandUpGrows
<1>3. CASE acc # 0
  <2>1. Deliver(r, acc) = k
    BY <1>3 DEF Deliver
  <2> HIDE DEF yes, more
  <2>2. ReaderOK(h, G, E) /\ Moves(r, h) /\ Grows(r, h) /\ Through(r, h)
    BY <1>1, HandUpOK, HandUpGrows
  <2> HIDE DEF h
  <2>3. ReaderOK(k, G, E) /\ Moves(h, k) /\ Grows(h, k) /\ Through(h, k)
    BY <1>1, <2>2, HandUpOK, HandUpGrows
  <2> HIDE DEF k
  <2>4. r \in ReaderState /\ h \in ReaderState /\ k \in ReaderState
    BY <2>2, <2>3 DEF ReaderOK
  <2>5. Grows(r, k)
    BY <2>2, <2>3, <2>4, GrowsTrans
  <2>6. Through(r, k)
    BY <2>2, <2>3, <2>4, ThroughTrans
  <2> QED BY <2>1, <2>5, <2>6
<1> QED BY <1>2, <1>3

\* A fragment stored in a slot takes none away.
LEMMA FillKeeps ==
    ASSUME NEW a \in Assembly, NEW m, m.base \in Nat, m.count \in Nat, m.seq \in Nat, a.on
    PROVE  Keeps(a, Fill(a, m))
PROOF
<1>1. CASE a.count = m.count
  <2> DEFINE b == [a EXCEPT !.got = @ \cup {m.seq}]
  <2>1. Fill(a, m) = b
    BY <1>1 DEF Fill
  <2>2. b.on = a.on /\ b.base = a.base /\ b.count = a.count /\ b.got = a.got \cup {m.seq}
    BY DEF Assembly
  <2> QED BY <2>1, <2>2 DEF Keeps
<1>2. CASE a.count # m.count
  BY <1>2 DEF Fill, Keeps
<1> QED BY <1>1, <1>2

-----------------------------------------------------------------------------
(* The operations of the reader, one by one. *)

\* timers and the flags of an ACKNACK only
SameLane(r, q) == SameData(r, q) /\ q.epoch = r.epoch /\ q.parked = r.parked

LEMMA SameLaneGrows ==
    ASSUME NEW r \in ReaderState, NEW q \in ReaderState, SameLane(r, q)
    PROVE  Grows(r, q) /\ Through(r, q) /\ (Parks(r) => Parks(q))
  BY SameGrows DEF SameLane, SameData, Parks

\* One turn of the loop on a lane that is not parked.
LEMMA HandUpParks ==
    ASSUME NEW G, NEW E, NEW r, ReaderOK(r, G, E), ~r.parked, NEW ok \in BOOLEAN
    PROVE  /\ ~ok => Parks(HandUp(r, ok))
           /\ ok => /\ ~HandUp(r, ok).parked
                    /\ Complete(HandUp(r, ok).cur) => Complete(r.cur) /\ HandUp(r, ok).nxt = NoAsm
                    /\ Complete(r.cur) /\ r.nxt = NoAsm => ~Complete(HandUp(r, ok).cur)
PROOF
<1>0. r \in ReaderState
  BY DEF ReaderOK
<1>1. CASE ~Complete(r.cur)
  BY <1>1 DEF HandUp, Parks
<1>2. CASE Complete(r.cur) /\ ~ok
  <2>1. HandUp(r, ok) = [r EXCEPT !.parked = TRUE]
    BY <1>2 DEF HandUp
  <2>2. [r EXCEPT !.parked = TRUE].cur = r.cur /\ [r EXCEPT !.parked = TRUE].parked
    BY <1>0 DEF ReaderState
  <2> QED BY <1>2, <2>1, <2>2 DEF Parks
<1>3. CASE Complete(r.cur) /\ ok
  <2> DEFINE g == [r EXCEPT !.lapped = FALSE,
                            !.log = Append(@, [base |-> r.cur.base, count |-> r.cur.count])]
             m == MoveTo(g, EndOf(r.cur))
             q == AckNow(m, TRUE)
  <2>1. HandUp(r, ok) = q
    BY <1>3 DEF HandUp
  <2>2. r.cur \in Assembly /\ r.log \in Seq(Delivery)
    BY <1>0 DEF ReaderState
  <2>3. Append(r.log, [base |-> r.cur.base, count |-> r.cur.count]) \in Seq(Delivery)
    <3>1. [base |-> r.cur.base, count |-> r.cur.count] \in Delivery
      BY <2>2 DEF Assembly, Delivery
    <3> QED BY <2>2, <3>1
  <2>4. g \in ReaderState /\ g.nxt = r.nxt /\ g.parked = r.parked
    BY <1>0, <2>3 DEF ReaderState
  <2> HIDE DEF g
  <2>5. EndOf(r.cur) \in Nat
    BY <2>2 DEF Assembly, EndOf
  <2>6. /\ m.parked = g.parked /\ m.cur \in {NoAsm, g.nxt}
        /\ m.cur = g.nxt => m.nxt = NoAsm \/ ~g.nxt.on
    BY <2>4, <2>5 DEF MoveTo, Settle, ReaderState, NoAsm, Assembly
  <2>7. m \in ReaderState
    BY <2>4, <2>5 DEF MoveTo, Settle, ReaderState, NoAsm, Assembly
  <2> HIDE DEF m
  <2>8. q.parked = m.parked /\ q.cur = m.cur /\ q.nxt = m.nxt
    BY <2>7 DEF AckNow, ReaderState
  <2> HIDE DEF q
  <2>9. \A a \in {NoAsm, g.nxt} : Complete(a) => a.on /\ a # NoAsm
    BY DEF Complete, NoAsm
  <2> QED BY <1>3, <2>1, <2>4, <2>6, <2>8, <2>9
<1> QED BY <1>1, <1>2, <1>3

\* The loop ends with no complete head, or parked on one.
LEMMA DeliverParks ==
    ASSUME NEW G, NEW E, NEW r, ReaderOK(r, G, E), Closed(G, E), ~r.parked, NEW acc \in 0 .. 2
    PROVE  Parks(Deliver(r, acc))
PROOF
<1> DEFINE yes == TRUE
           no == FALSE
           more == acc > 1
           h == HandUp(r, yes)
<1>1. yes \in BOOLEAN /\ no \in BOOLEAN /\ more \in BOOLEAN /\ yes /\ ~no
  OBVIOUS
<1>2. CASE acc = 0
  <2>1. Deliver(r, acc) = HandUp(r, no)
    BY <1>2 DEF Deliver
  <2> HIDE DEF no
  <2> QED BY <1>1, <2>1, HandUpParks
<1>3. CASE acc # 0
  <2>1. Deliver(r, acc) = HandUp(h, more)
    BY <1>3 DEF Deliver
  <2> HIDE DEF yes, more
  <2>2. /\ ReaderOK(h, G, E) /\ ~h.parked
        /\ Complete(h.cur) => h.nxt = NoAsm
    BY <1>1, HandUpOK, HandUpParks
  <2> HIDE DEF h
  <2>3. CASE ~more
    BY <1>1, <2>1, <2>2, <2>3, HandUpParks
  <2>4. CASE more
    <3>1. ~HandUp(h, more).parked
      BY <1>1, <2>2, <2>4, HandUpParks
    <3>2. ~Complete(HandUp(h, more).cur)
      <4>1. CASE Complete(h.cur)
        BY <1>1, <2>2, <2>4, <4>1, HandUpParks
      <4>2. CASE ~Complete(h.cur)
        BY <4>2 DEF HandUp
      <4> QED BY <4>1, <4>2
    <3> QED BY <2>1, <3>1, <3>2 DEF Parks
  <2> QED BY <2>3, <2>4
<1> QED BY <1>2, <1>3

\* A fragment of the head sample.
LEMMA HeadDataGrows ==
    ASSUME NEW G, NEW E, NEW r, ReaderOK(r, G, E), Closed(G, E),
           NEW m, Fragment(m, G), r.started, m.base = r.upto,
           NEW mem \in BOOLEAN, NEW acc \in 0 .. 2
    PROVE  /\ Grows(r, HeadData(r, m, mem, acc))
           /\ mem => Through(r, HeadData(r, m, mem, acc))
           /\ mem /\ ~r.parked => Parks(HeadData(r, m, mem, acc))
PROOF
<1> DEFINE f == [r EXCEPT !.cur = Fill(@, m)]
<1>0. r \in ReaderState /\ m.base \in Nat /\ m.count \in Nat /\ m.seq \in Nat /\ r.cur \in Assembly /\ acc \in Nat
  BY DEF ReaderOK, Fragment, ReaderState
<1>1. CASE ~r.cur.on /\ ~mem
  <2> DEFINE q == [r EXCEPT !.lost = @ \cup (m.base .. (m.base + m.count - 1))]
             v == MoveTo(q, m.base + m.count)
             a == AckNow(v, TRUE)
             z == Deliver(a, acc)
  <2>1. m.base .. (m.base + m.count - 1) \subseteq Nat /\ m.base + m.count \in Nat /\ r.upto <= m.base + m.count
    BY <1>0
  <2>2. HeadData(r, m, mem, acc) = z
    BY <1>1 DEF HeadData, TooBig
  <2> DEFINE k == r.lost \cup (m.base .. (m.base + m.count - 1))
  <2>3. k \in SUBSET Nat /\ q = [r EXCEPT !.lost = k]
    BY <1>0, <2>1 DEF ReaderState
  <2>4. k = r.lost \cup (r.upto .. ((m.base + m.count) - 1))
    BY <1>0
  <2> HIDE DEF k, q
  <2>5. /\ q \in ReaderState /\ q.epoch = r.epoch /\ q.used = r.used /\ q.started = r.started
        /\ q.start = r.start /\ q.nxt = r.nxt /\ q.log = r.log /\ q.lost = k
    BY <1>0, <2>3 DEF ReaderState
  <2>6. m.base + m.count \in E
    BY DEF Closed, Fragment, AsDelivery, EndOf
  <2>7. ReaderOK(v, G, E)
    <3> DEFINE L == r.upto .. ((m.base + m.count) - 1)
    <3>1. L \subseteq r.upto .. ((m.base + m.count) - 1) /\ L = r.upto .. ((m.base + m.count) - 1)
      OBVIOUS
    <3>2. q.lost = r.lost \cup L
      BY <2>4, <2>5
    <3> HIDE DEF L
    <3> QED BY <2>1, <2>5, <2>6, <3>1, <3>2, SkipOK
  <2>8. Grows(r, v)
    BY <1>0, <1>1, <2>1, <2>5, MoveGrows DEF ReaderOK
  <2> HIDE DEF v
  <2>9. ReaderOK(a, G, E) /\ Grows(v, a)
    BY <2>7, AckNowOK, AckNowGrows DEF ReaderOK
  <2> HIDE DEF a
  <2>10. ReaderOK(z, G, E) /\ Grows(a, z)
    BY <1>0, <2>9, DeliverOK, DeliverGrows
  <2> HIDE DEF z
  <2>11. Grows(r, a)
    BY <1>0, <2>7, <2>8, <2>9, GrowsTrans DEF ReaderOK
  <2>12. Grows(r, z)
    BY <1>0, <2>9, <2>10, <2>11, GrowsTrans DEF ReaderOK
  <2> QED BY <1>1, <2>2, <2>12
<1>2. CASE r.cur.on \/ mem
  <2>1. /\ Fill(r.cur, m) \in Assembly /\ Fits(Fill(r.cur, m))
        /\ Fill(r.cur, m).base = m.base /\ AsDelivery(Fill(r.cur, m)) \in G
    BY <1>0, FillOK DEF ReaderOK, Slots, Genuine
  <2>2. /\ f \in ReaderState /\ f.cur = Fill(r.cur, m) /\ f.nxt = r.nxt /\ f.upto = r.upto
        /\ f.used = r.used /\ f.started = r.started /\ f.start = r.start
        /\ f.log = r.log /\ f.lost = r.lost /\ f.epoch = r.epoch /\ f.parked = r.parked
    BY <1>0, <2>1 DEF ReaderState
  <2>3. /\ Complete(f.cur) => HeadData(r, m, mem, acc) = Deliver(f, acc)
        /\ ~Complete(f.cur) => HeadData(r, m, mem, acc) \in {AckNow(f, FALSE), f}
    BY <1>2 DEF HeadData
  <2> HIDE DEF f
  <2>4. Slots(f) /\ Fits(f.cur) /\ Fits(f.nxt) /\ Genuine(f, G)
    BY <2>1, <2>2 DEF ReaderOK, Slots, Genuine
  <2>5. Ordered(f) /\ Accounted(f) /\ Unpositioned(f)
    BY <2>2 DEF ReaderOK, Ordered, Accounted, Unpositioned, HandedUp
  <2>6. ReaderOK(f, G, E)
    BY <2>2, <2>4, <2>5 DEF ReaderOK
  <2>7. Grows(r, f)
    <3>1. r.cur.on => Keeps(r.cur, f.cur)
      BY <1>0, <2>2, FillKeeps
    <3> QED BY <1>0, <2>2, <3>1 DEF Grows, ReaderState
  <2>8. Through(r, f)
    BY <1>0, <2>2 DEF Through, ReaderState
  <2>9. CASE Complete(f.cur)
    <3> DEFINE z == Deliver(f, acc)
    <3>1. ReaderOK(z, G, E) /\ Moves(f, z) /\ Grows(f, z) /\ Through(f, z)
      BY <1>0, <2>6, DeliverOK, DeliverGrows
    <3>2. ~r.parked => Parks(z)
      BY <2>2, <2>6, DeliverParks
    <3> HIDE DEF z
    <3>3. Grows(r, z) /\ Through(r, z)
      BY <1>0, <2>2, <2>7, <2>8, <3>1, GrowsTrans, ThroughTrans DEF ReaderOK
    <3> QED BY <2>3, <2>9, <3>2, <3>3 DEF z
  <2>10. CASE ~Complete(f.cur)
    <3> DEFINE no == FALSE
               z == AckNow(f, no)
    <3>1. no \in BOOLEAN /\ HeadData(r, m, mem, acc) \in {z, f}
      BY <2>3, <2>10
    <3> HIDE DEF no
    <3>2. ReaderOK(z, G, E) /\ Moves(f, z) /\ Grows(f, z) /\ Through(f, z)
      BY <2>2, <2>6, <3>1, AckNowOK, AckNowGrows
    <3>3. z.cur = f.cur /\ z.parked = f.parked
      BY <2>2 DEF AckNow, ReaderState
    <3> HIDE DEF z
    <3>4. Grows(r, z) /\ Through(r, z)
      BY <1>0, <2>2, <2>7, <2>8, <3>2, GrowsTrans, ThroughTrans DEF ReaderOK
    <3>5. ~r.parked => Parks(z) /\ Parks(f)
      BY <2>2, <2>10, <3>3 DEF Parks
    <3> QED BY <2>7, <2>8, <3>1, <3>4, <3>5
  <2> QED BY <2>9, <2>10
<1> QED BY <1>1, <1>2

\* A fragment of a later sample.
LEMMA AheadDataGrows ==
    ASSUME NEW r \in ReaderState, NEW m, NEW mem \in BOOLEAN
    PROVE  /\ Grows(r, AheadData(r, m, mem)) /\ Through(r, AheadData(r, m, mem))
           /\ Parks(r) => Parks(AheadData(r, m, mem))
PROOF
<1> DEFINE g == IF r.parked \/ r.pend THEN r ELSE AckNow(r, FALSE)
           f == [g EXCEPT !.nxt = Fill(@, m)]
<1>1. /\ g \in ReaderState /\ g.upto = r.upto /\ g.cur = r.cur /\ g.epoch = r.epoch
      /\ g.parked = r.parked /\ g.log = r.log
  BY DEF AckNow, ReaderState
<1>2. AheadData(r, m, mem) \in {g, f}
  BY DEF AheadData
<1> HIDE DEF g
<1>3. f.upto = g.upto /\ f.cur = g.cur /\ f.epoch = g.epoch /\ f.parked = g.parked /\ f.log = g.log
  BY <1>1 DEF ReaderState
<1> HIDE DEF f
<1>4. ASSUME NEW q, q.upto = r.upto, q.cur = r.cur, q.epoch = r.epoch, q.parked = r.parked, q.log = r.log
      PROVE  Grows(r, q) /\ Through(r, q) /\ (Parks(r) => Parks(q))
  <2>1. r.upto \in Nat
    BY DEF ReaderState
  <2>2. Grows(r, q) /\ Through(r, q)
    BY <1>4, <2>1 DEF Grows, Keeps, Through
  <2> QED BY <1>4, <2>2 DEF Parks
<1> QED BY <1>1, <1>2, <1>3, <1>4

\* The flags every fragment sets before it is sorted.
LEMMA SeenSame ==
    ASSUME NEW r \in ReaderState, NEW G, NEW m, Fragment(m, G)
    PROVE  LET q == [r EXCEPT !.req = @ \/ m.ask]
               h == [q EXCEPT !.rHigh = Larger(@, m.seq)]
           IN  /\ q \in ReaderState /\ SameLane(r, q)
               /\ h \in ReaderState /\ SameLane(r, h)
PROOF
<1> DEFINE q == [r EXCEPT !.req = @ \/ m.ask]
           h == [q EXCEPT !.rHigh = Larger(@, m.seq)]
<1>1. q \in ReaderState /\ SameLane(r, q)
  BY DEF ReaderState, SameLane, SameData, Fragment
<1>2. Larger(q.rHigh, m.seq) \in Nat
  BY <1>1 DEF Larger, ReaderState, Fragment
<1>3. h \in ReaderState /\ SameLane(r, h)
  <2> HIDE DEF q
  <2>1. h \in ReaderState /\ SameLane(q, h)
    BY <1>1, <1>2 DEF ReaderState, SameLane, SameData
  <2> QED BY <1>1, <2>1 DEF SameLane, SameData
<1> QED BY <1>1, <1>3

\* A fragment at a reader that has a position.
LEMMA ReaderDataGrows ==
    ASSUME NEW G, NEW E, NEW r, ReaderOK(r, G, E), Closed(G, E), NEW m, Fragment(m, G), r.started,
           NEW mem \in BOOLEAN, NEW acc \in 0 .. 2
    PROVE  /\ Grows(r, ReaderData(r, m, mem, acc))
           /\ mem => Through(r, ReaderData(r, m, mem, acc))
           /\ mem /\ Parks(r) => Parks(ReaderData(r, m, mem, acc))
PROOF
<1> DEFINE q == [r EXCEPT !.req = @ \/ m.ask]
           h == [q EXCEPT !.rHigh = Larger(@, m.seq)]
           z == ReaderData(r, m, mem, acc)
<1>0. r \in ReaderState /\ m.base \in Nat /\ r.upto \in Nat
  BY DEF ReaderOK, Fragment, ReaderState
<1>1. q \in ReaderState /\ SameLane(r, q) /\ h \in ReaderState /\ SameLane(r, h)
  BY <1>0, SeenSame
<1>2. /\ m.base < r.upto => z = OldData(q)
      /\ r.upto < m.base => z = AheadData(h, m, mem)
      /\ m.base = r.upto /\ r.parked => z = h
      /\ m.base = r.upto /\ ~r.parked => z = HeadData(h, m, mem, acc)
  BY <1>0 DEF ReaderData
<1>3. ReaderOK(z, G, E)
  BY ReaderDataOK
<1> HIDE DEF q, h, z
<1>4. /\ ReaderOK(h, G, E) /\ Moves(r, h) /\ Grows(r, h) /\ Through(r, h) /\ (Parks(r) => Parks(h))
      /\ ReaderOK(q, G, E) /\ Moves(r, q) /\ Grows(r, q) /\ Through(r, q) /\ (Parks(r) => Parks(q))
  BY <1>0, <1>1, SameLaneGrows, SameOK DEF SameLane
<1>5. h.started /\ h.upto = r.upto /\ h.parked = r.parked
  BY <1>1 DEF SameLane, SameData
<1>6. CASE m.base < r.upto
  <2> DEFINE yes == TRUE
             a == AckNow(q, yes)
  <2>1. yes \in BOOLEAN /\ z \in {q, a}
    BY <1>2, <1>6 DEF OldData
  <2> HIDE DEF yes
  <2>2. a \in ReaderState /\ SameLane(q, a)
    BY <1>1, <2>1 DEF AckNow, ReaderState, SameLane, SameData
  <2>3. SameLane(r, a)
    BY <1>1, <2>2 DEF SameLane, SameData
  <2> QED BY <1>0, <1>4, <2>1, <2>2, <2>3, SameLaneGrows DEF z
<1>7. CASE r.upto < m.base
  <2>1. Grows(h, z) /\ Through(h, z) /\ (Parks(h) => Parks(z))
    BY <1>1, <1>2, <1>7, AheadDataGrows
  <2>2. Moves(h, z)
    BY <1>2, <1>4, <1>5, <1>7, AheadDataOK
  <2> QED BY <1>0, <1>1, <1>3, <1>4, <2>1, <2>2, GrowsTrans, ThroughTrans DEF ReaderOK, z
<1>8. CASE m.base = r.upto /\ r.parked
  BY <1>2, <1>4, <1>8 DEF z
<1>9. CASE m.base = r.upto /\ ~r.parked
  <2>1. Grows(h, z) /\ (mem => Through(h, z)) /\ (mem => Parks(z))
    BY <1>2, <1>4, <1>5, <1>9, HeadDataGrows
  <2>2. Moves(h, z)
    <3>1. acc \in Nat
      OBVIOUS
    <3> QED BY <3>1, <1>2, <1>4, <1>5, <1>9, HeadDataOK
  <2> QED BY <1>0, <1>1, <1>3, <1>4, <2>1, <2>2, GrowsTrans, ThroughTrans DEF ReaderOK, z
<1> QED BY <1>0, <1>6, <1>7, <1>8, <1>9

\* The fragment that places a reader.
LEMMA AdoptGrows ==
    ASSUME NEW G, NEW E, NEW r, ReaderOK(r, G, E), Closed(G, E), NEW m, Fragment(m, G), ~r.started,
           NEW mem \in BOOLEAN, NEW acc \in 0 .. 2
    PROVE  /\ Grows(r, ReaderData(r, m, mem, acc))
           /\ mem => Through(Adopted(r, m.base), ReaderData(r, m, mem, acc))
           /\ mem /\ Parks(r) => Parks(ReaderData(r, m, mem, acc))
PROOF
<1> DEFINE q == [r EXCEPT !.req = @ \/ m.ask]
           h == [q EXCEPT !.rHigh = Larger(@, m.seq)]
           b == [h EXCEPT !.upto = m.base, !.start = m.base, !.cur = NoAsm, !.started = TRUE]
           z == ReaderData(r, m, mem, acc)
           o == Adopted(r, m.base)
<1>0. /\ r \in ReaderState /\ m.base \in Nat /\ r.upto = 0 /\ ~r.cur.on /\ ~r.nxt.on /\ r.log = << >>
      /\ acc \in Nat
  BY DEF ReaderOK, Unpositioned, Slots, Fragment
<1>1. h \in ReaderState /\ SameLane(r, h)
  BY <1>0, SeenSame
<1>2. z = HeadData(b, m, mem, acc)
  BY <1>0 DEF ReaderData
<1> HIDE DEF q, h
<1>3. /\ b \in ReaderState /\ b.upto = m.base /\ b.start = m.base /\ b.started
      /\ b.cur = NoAsm /\ b.nxt = h.nxt /\ b.log = h.log /\ b.lost = h.lost /\ b.used = h.used
      /\ b.epoch = h.epoch /\ b.parked = h.parked
  BY <1>0, <1>1 DEF ReaderState, NoAsm, Assembly
<1>4. o \in ReaderState /\ o.upto = m.base
  BY <1>0 DEF Adopted, ReaderState, NoAsm, Assembly
<1>5. b.nxt = r.nxt /\ b.log = << >> /\ b.lost = r.lost /\ b.epoch = r.epoch /\ b.parked = r.parked
  BY <1>0, <1>1, <1>3 DEF SameLane, SameData
<1>6. ReaderOK(z, G, E)
  BY <1>0, AdoptOK
<1> HIDE DEF b, z, o
<1>7. ReaderOK(b, G, E)
  <2>1. Slots(b) /\ Fits(b.cur) /\ Fits(b.nxt)
    BY <1>0, <1>3, <1>5 DEF Slots, NoAsm, Fits, ReaderOK
  <2>2. r.lost = {}
    BY DEF ReaderOK, Unpositioned
  <2>3. Genuine(b, G) /\ Ordered(b) /\ Accounted(b) /\ Unpositioned(b)
    BY <1>0, <1>3, <1>5, <2>2 DEF Genuine, NoAsm, Ordered, Accounted, HandedUp, Unpositioned
  <2>4. b.upto \in E
    BY <1>3 DEF Closed, Fragment, AsDelivery
  <2> QED BY <1>3, <2>1, <2>3, <2>4 DEF ReaderOK
<1>8. Grows(b, z) /\ (mem => Through(b, z)) /\ (mem /\ ~b.parked => Parks(z))
  BY <1>2, <1>3, <1>7, HeadDataGrows
<1>9. Grows(r, z)
  <2>1. Grows(r, b)
    BY <1>0, <1>3, <1>5 DEF Grows
  <2> QED BY <1>0, <1>3, <1>6, <1>8, <2>1, GrowsTrans DEF ReaderOK
<1>10. mem => Through(o, z)
  BY <1>3, <1>4, <1>8 DEF Through
<1>11. Parks(r) => ~b.parked
  BY <1>0, <1>5 DEF Parks, Complete
<1> QED BY <1>8, <1>9, <1>10, <1>11 DEF z, o

\* A heartbeat: what a reader passes is what it skips, and what it hands up after.
LEMMA ReaderHbGrows ==
    ASSUME NEW G, NEW E, NEW r, ReaderOK(r, G, E), Closed(G, E), NEW acc \in 0 .. 2,
           NEW m, m.first \in Nat, m.last \in Nat, m.first \in E,
           ~Directed => Larger(m.first, m.last + 1) \in E
    PROVE  /\ Grows(r, ReaderHb(r, m, acc))
           /\ Parks(r) => Parks(ReaderHb(r, m, acc))
           /\ \A x \in Nat : r.upto <= x /\ x < ReaderHb(r, m, acc).upto
                => (HbSkips(r, m) /\ x < HbTarget(r, m)) \/ HandedUp(ReaderHb(r, m, acc), x)
PROOF
<1> DEFINE s == IF HbSkips(r, m) THEN HbSkip(r, m, acc) ELSE r
           t == HbTarget(r, m)
           h == [s EXCEPT !.hbLast = m.last]
           z == ReaderHb(r, m, acc)
           Skipped(x) == HbSkips(r, m) /\ x < t
<1>0. r \in ReaderState /\ r.upto \in Nat /\ acc \in Nat
  BY DEF ReaderOK, ReaderState
<1>1. z = IF s.parked THEN s ELSE AckNow(h, TRUE)
  BY DEF ReaderHb
<1>2. /\ s \in ReaderState /\ Grows(r, s) /\ (Parks(r) => Parks(s))
      /\ \A x \in Nat : r.upto <= x /\ x < s.upto => Skipped(x) \/ HandedUp(s, x)
  <2>1. CASE ~HbSkips(r, m)
    <3>1. s = r /\ SameLane(r, r)
      BY <2>1 DEF SameLane, SameData
    <3> QED BY <1>0, <3>1, SameLaneGrows
  <2>2. CASE HbSkips(r, m)
    <3> DEFINE L == IF Directed THEN {} ELSE r.upto .. (t - 1)
               q == [r EXCEPT !.lapped = @ \/ ~(Directed \/ r.parked),
                              !.parked = FALSE,
                              !.lost   = IF Directed THEN @ ELSE @ \cup (r.upto .. (t - 1))]
               v == MoveTo(q, t)
               u == Deliver(v, acc)
    <3>1. r.started /\ t \in Nat /\ r.upto <= t /\ t \in E /\ (r.cur.on => EndOf(r.cur) <= t)
      <4>1. r.started /\ m.first > r.upto /\ (r.cur.on => m.first >= r.upto + r.cur.count)
        BY <2>2 DEF HbSkips
      <4>2. m.first <= t /\ t \in Nat /\ t \in E
        BY DEF HbTarget, Larger
      <4>3. r.cur.on => EndOf(r.cur) = r.upto + r.cur.count /\ r.cur.count \in Nat
        <5>1. r.cur \in Assembly /\ (r.cur.on => r.cur.base = r.upto)
          BY DEF ReaderOK, ReaderState, Slots
        <5> QED BY <5>1 DEF Assembly, EndOf
      <4> HIDE DEF t
      <4> QED BY <1>0, <4>1, <4>2, <4>3
    <3>2. s = u
      BY <2>2 DEF HbSkip
    <3> HIDE DEF t
    <3>3. L \in SUBSET Nat /\ L \subseteq r.upto .. (t - 1) /\ (~Directed => L = r.upto .. (t - 1))
      BY <1>0, <3>1
    <3> DEFINE k == r.lost \cup L
    <3>4. k \in SUBSET Nat
      BY <1>0, <3>3 DEF ReaderState
    <3>5. q = [r EXCEPT !.lapped = @ \/ ~(Directed \/ r.parked), !.parked = FALSE, !.lost = k]
      OBVIOUS
    <3> HIDE DEF q, k, L
    <3>6. /\ q \in ReaderState /\ q.used = r.used /\ q.started = r.started /\ q.start = r.start
          /\ q.nxt = r.nxt /\ q.log = r.log /\ q.lost = k /\ q.epoch = r.epoch /\ ~q.parked
      BY <1>0, <3>4, <3>5, DirectedAssumption DEF ReaderState
    <3>7. ReaderOK(v, G, E)
      BY <3>1, <3>3, <3>6, SkipOK DEF k
    <3>8. Grows(r, v) /\ v.upto = t /\ ~v.parked
      <4>1. Fits(q.nxt)
        BY <3>6 DEF ReaderOK
      <4>2. Grows(r, v)
        BY <1>0, <3>1, <3>6, <4>1, MoveGrows
      <4>3. v.upto = t /\ v.parked = q.parked
        BY <3>1, <3>6 DEF MoveTo, Settle, ReaderState
      <4> QED BY <3>6, <4>2, <4>3
    <3> HIDE DEF v
    <3>9. /\ ReaderOK(u, G, E) /\ Grows(v, u) /\ Through(v, u) /\ Parks(u)
      BY <1>0, <3>7, <3>8, DeliverOK, DeliverGrows, DeliverParks
    <3> HIDE DEF u
    <3>10. Grows(r, u)
      BY <1>0, <3>7, <3>8, <3>9, GrowsTrans DEF ReaderOK
    <3>11. ASSUME NEW x \in Nat, r.upto <= x, x < u.upto
           PROVE  x < t \/ HandedUp(u, x)
      BY <3>1, <3>8, <3>9, <3>11 DEF Through
    <3> QED BY <2>2, <3>2, <3>9, <3>10, <3>11 DEF ReaderOK
  <2> QED BY <2>1, <2>2
<1> HIDE DEF s, Skipped
<1>3. CASE s.parked
  BY <1>1, <1>2, <1>3 DEF z, Skipped, t
<1>4. CASE ~s.parked
  <2> DEFINE yes == TRUE
             a == AckNow(h, yes)
  <2>1. z = a /\ yes \in BOOLEAN
    BY <1>1, <1>4
  <2> HIDE DEF yes
  <2>2. h \in ReaderState /\ SameLane(s, h)
    BY <1>2 DEF ReaderState, SameLane, SameData
  <2> HIDE DEF h
  <2>3. a \in ReaderState /\ SameLane(h, a)
    BY <2>1, <2>2 DEF AckNow, ReaderState, SameLane, SameData
  <2> HIDE DEF a
  <2>4. SameLane(s, a)
    BY <2>2, <2>3 DEF SameLane, SameData
  <2>5. Grows(s, a) /\ (Parks(s) => Parks(a))
    BY <1>2, <2>3, <2>4, SameLaneGrows
  <2>6. Grows(r, a)
    BY <1>0, <1>2, <2>3, <2>5, GrowsTrans
  <2>7. ASSUME NEW x \in Nat, r.upto <= x, x < a.upto
        PROVE  Skipped(x) \/ HandedUp(a, x)
    <3>1. a.upto = s.upto /\ a.log = s.log
      BY <2>4 DEF SameLane, SameData
    <3> QED BY <1>2, <2>7, <3>1 DEF HandedUp
  <2> QED BY <1>2, <2>1, <2>5, <2>6, <2>7 DEF z, Skipped, t
<1> QED BY <1>3, <1>4

\* A consumer that has room again.
LEMMA UnparkGrows ==
    ASSUME NEW G, NEW E, NEW r, ReaderOK(r, G, E), Closed(G, E), NEW acc \in 0 .. 2
    PROVE  Grows(r, Unpark(r, acc)) /\ Through(r, Unpark(r, acc)) /\ Parks(Unpark(r, acc))
PROOF
<1> DEFINE q == [r EXCEPT !.parked = FALSE]
           z == Deliver(q, acc)
<1>1. r \in ReaderState /\ q \in ReaderState /\ SameData(r, q) /\ q.epoch = r.epoch /\ ~q.parked
  BY DEF ReaderOK, ReaderState, SameData
<1>2. Unpark(r, acc) = z /\ acc \in Nat
  BY DEF Unpark
<1> HIDE DEF q
<1>3. ReaderOK(q, G, E) /\ Grows(r, q) /\ Through(r, q)
  BY <1>1, SameOK, SameGrows
<1>4. ReaderOK(z, G, E) /\ Moves(q, z) /\ Grows(q, z) /\ Through(q, z) /\ Parks(z)
  BY <1>1, <1>2, <1>3, DeliverOK, DeliverGrows, DeliverParks
<1> HIDE DEF z
<1>5. Grows(r, z) /\ Through(r, z)
  BY <1>1, <1>3, <1>4, GrowsTrans, ThroughTrans DEF ReaderOK
<1> QED BY <1>2, <1>4, <1>5

\* An ACKNACK goes out, or a resumed reader owes one.
LEMMA AfterEmitSame ==
    ASSUME NEW G, NEW E, NEW r, ReaderOK(r, G, E), NEW due \in BOOLEAN, NEW f \in BOOLEAN
    PROVE  SameLane(r, AfterEmit(r, due)) /\ SameLane(r, AckNow(r, f))
PROOF
<1> DEFINE quiet == [r EXCEPT !.pend = FALSE, !.force = FALSE, !.req = FALSE]
           k == IF Asked(r, due) = {} THEN quiet.nHigh ELSE Larger(quiet.nHigh, AskTop(r, due))
           a == [quiet EXCEPT !.pend = TRUE, !.nHigh = k]
           b == [quiet EXCEPT !.nHigh = FirstMissing(r)]
<1>0. r \in ReaderState
  BY DEF ReaderOK
<1>1. quiet \in ReaderState /\ SameLane(r, quiet)
  BY <1>0 DEF ReaderState, SameLane, SameData
<1>2. AfterEmit(r, due) \in {quiet, a, b}
  BY DEF AfterEmit
<1> HIDE DEF quiet, k
<1>3. SameLane(quiet, a) /\ SameLane(quiet, b)
  BY <1>1 DEF ReaderState, SameLane, SameData
<1>4. SameLane(r, a) /\ SameLane(r, b)
  BY <1>1, <1>3 DEF SameLane, SameData
<1>5. SameLane(r, AckNow(r, f))
  BY <1>0 DEF AckNow, ReaderState, SameLane, SameData
<1> QED BY <1>1, <1>2, <1>4, <1>5

-----------------------------------------------------------------------------
(* The operations of the writer's lane: what they leave alone. *)

\* the same incarnation on the same lane
SameTie(w, v) == v.used = w.used /\ v.epoch = w.epoch

LEMMA WithNackFields ==
    ASSUME NEW w \in WriterState, NEW bits \in SUBSET Nat, NEW base \in Nat
    PROVE  LET v == WithNack(w, bits, base)
           IN  /\ v \in WriterState /\ SameTie(w, v) /\ v.sent = w.sent /\ v.acked = w.acked
               /\ v.nack = bits /\ v.skipHb = w.skipHb
PROOF
<1> DEFINE b == IF bits = {} THEN 0 ELSE base
           v == [w EXCEPT !.nack = bits, !.nackBase = b]
<1>1. b \in Nat /\ WithNack(w, bits, base) = v
  BY DEF WithNack
<1> HIDE DEF b
<1>2. /\ v \in WriterState /\ SameTie(w, v) /\ v.sent = w.sent /\ v.acked = w.acked
      /\ v.nack = bits /\ v.skipHb = w.skipHb
  BY <1>1 DEF WriterState, SameTie
<1> QED BY <1>1, <1>2

\* The acked edge only steps over samples addressed to others, and sent never back.
LEMMA AdvanceFields ==
    ASSUME NEW t, TopicOK(t), NEW p, NEW w, LaneOK(t, p, w)
    PROVE  LET v == LaneAdvance(t, p, w)
           IN  /\ v \in WriterState /\ SameTie(w, v) /\ v.nack = w.nack
               /\ v.acked = IF Directed THEN StepOver(t, p, w.acked) ELSE w.acked
PROOF
<1> DEFINE v == LaneAdvance(t, p, w)
<1>1. w \in WriterState
  BY DEF LaneOK
<1>2. CASE ~Directed
  BY <1>1, <1>2 DEF LaneAdvance, SameTie
<1>3. CASE Directed
  <2> DEFINE a == StepOver(t, p, w.acked)
             b == w.skipHb \/ a # w.acked
             s == IF w.sent < a THEN a ELSE w.sent
             z == IF \E i \in Cached(t) : t.smp[i].base = s THEN StepOver(t, p, s) ELSE s
  <2>1. v = [w EXCEPT !.acked = a, !.skipHb = b, !.sent = z]
    BY <1>3 DEF LaneAdvance
  <2>2. v \in WriterState
    <3>1. LaneOK(t, p, v)
      BY LaneAdvanceOK
    <3> QED BY <3>1 DEF LaneOK
  <2> HIDE DEF a, b, z
  <2>3. SameTie(w, v) /\ v.nack = w.nack /\ v.acked = a
    BY <1>1, <2>1 DEF WriterState, SameTie
  <2> QED BY <1>3, <2>2, <2>3 DEF a
<1> QED BY <1>2, <1>3

LEMMA PrunedFields ==
    ASSUME NEW t, TopicOK(t), NEW p, NEW w, LaneOK(t, p, w)
    PROVE  LET v == Pruned(t, p, w) a == LaneAdvance(t, p, w)
           IN  /\ v \in WriterState /\ SameTie(w, v) /\ v.nack \subseteq w.nack
               /\ v.acked = a.acked /\ v.sent = a.sent
PROOF
<1> DEFINE a == LaneAdvance(t, p, w)
           live  == {x \in a.nack : x < NextSeqno(t) /\ ~ForeignSeqno(t, p, x)}
           below == {x \in a.nack : \A y \in live : x < y}
           f == a.skipHb \/ \E x \in below : ForeignSeqno(t, p, x)
           b == [a EXCEPT !.skipHb = f]
           v == WithNack(b, a.nack \ below, a.nackBase)
<1>1. /\ a \in WriterState /\ SameTie(w, a) /\ a.nack = w.nack
  BY AdvanceFields
<1>2. Pruned(t, p, w) = v
  BY DEF Pruned
<1>3. f \in BOOLEAN
  BY <1>1 DEF WriterState
<1> HIDE DEF a, f, below
<1>4. /\ b \in WriterState /\ SameTie(a, b) /\ b.acked = a.acked /\ b.sent = a.sent
  BY <1>1, <1>3 DEF WriterState, SameTie
<1>5. a.nack \ below \in SUBSET Nat /\ a.nackBase \in Nat
  BY <1>1 DEF WriterState
<1> HIDE DEF b
<1>6. /\ v \in WriterState /\ SameTie(b, v) /\ v.acked = b.acked /\ v.sent = b.sent
      /\ v.nack = a.nack \ below
  BY <1>4, <1>5, WithNackFields
<1> QED BY <1>1, <1>2, <1>4, <1>6 DEF SameTie, a

LEMMA RepairedFields ==
    ASSUME NEW t, NEW w \in WriterState
    PROVE  LET v == Repaired(t, w)
           IN  /\ v \in WriterState /\ SameTie(w, v) /\ v.nack \subseteq w.nack
               /\ v.acked = w.acked /\ v.sent = w.sent
PROOF
<1>1. w.nackBase \in Nat /\ w.nack \in SUBSET Nat
  BY DEF WriterState
<1>2. \E S \in SUBSET w.nack : Repaired(t, w) = WithNack(w, S, w.nackBase)
  BY DEF Repaired
<1>3. PICK S \in SUBSET w.nack : Repaired(t, w) = WithNack(w, S, w.nackBase)
  BY <1>2
<1> QED BY <1>1, <1>3, WithNackFields

LEMMA PushedFields ==
    ASSUME NEW t, TopicOK(t), NEW w \in WriterState
    PROVE  LET v == Pushed(t, w)
           IN  /\ v \in WriterState /\ SameTie(w, v) /\ v.nack = w.nack /\ v.acked = w.acked
               /\ v.sent = IF Found(t, w.sent) THEN w.sent + 1 ELSE FirstSeqno(t)
PROOF
<1> DEFINE z == IF Found(t, w.sent) THEN w.sent + 1 ELSE FirstSeqno(t)
           v == [w EXCEPT !.sent = z]
<1>1. z \in Nat
  BY TopicFacts DEF WriterState
<1>2. Pushed(t, w) = v
  BY DEF Pushed
<1> HIDE DEF z
<1>3. v \in WriterState /\ SameTie(w, v) /\ v.nack = w.nack /\ v.acked = w.acked /\ v.sent = z
  BY <1>1 DEF WriterState, SameTie
<1> QED BY <1>2, <1>3 DEF z

\* A merge of requests acknowledges nothing by itself.
LEMMA MergeNackFields ==
    ASSUME NEW t, TopicOK(t), NEW p, NEW w, LaneOK(t, p, w), NEW m, NackOK(t, p, m)
    PROVE  LET v == MergeNack(w, m)
           IN  /\ v \in WriterState /\ SameTie(w, v) /\ v.acked = w.acked /\ v.sent = w.sent
               /\ v.nack \subseteq w.nack \cup m.bits
PROOF
<1> DEFINE base == IF w.nack = {} THEN m.base ELSE IF m.base > w.nackBase THEN m.base ELSE w.nackBase
           kept == {x \in w.nack : x >= base}
           more == {x \in m.bits : x >= base}
<1>1. w \in WriterState /\ w.nackBase \in Nat /\ w.nack \in SUBSET Nat
  BY DEF LaneOK, WriterState
<1>2. m.base \in Nat /\ m.bits \in SUBSET Nat
  BY DEF NackOK
<1>3. base \in Nat /\ kept \cup more \in SUBSET Nat /\ kept \cup more \subseteq w.nack \cup m.bits
  BY <1>1, <1>2
<1>4. MergeNack(w, m) \in {WithNack(w, m.bits, m.base), WithNack(w, kept \cup more, base)}
  BY DEF MergeNack
<1> HIDE DEF base, kept, more
<1> QED BY <1>1, <1>2, <1>3, <1>4, WithNackFields

\* What an ACKNACK does to the lane: it rejoins, pushes again, or acknowledges.
LEMMA WriterNackFields ==
    ASSUME NEW t, TopicOK(t), NEW p, NEW w, LaneOK(t, p, w), NEW m, NackOK(t, p, m)
    PROVE  LET v == WriterNack(t, p, w, m)
               a == IF w.acked < m.base THEN m.base ELSE w.acked
           IN  /\ v \in WriterState /\ v.used = w.used /\ v.epoch = m.epoch
               /\ w.epoch \notin {0, m.epoch} => /\ v.acked = Smaller(w.acked, JoinSeqno(t))
                                                 /\ v.sent = v.acked /\ v.nack = {}
               /\ w.epoch \in {0, m.epoch} =>
                     /\ m.unpos => /\ v.acked = w.acked /\ v.sent = Smaller(w.acked, w.sent)
                                   /\ v.nack = w.nack
                     /\ ~m.unpos => /\ v.acked = IF Directed THEN StepOver(t, p, a) ELSE a
                                    /\ v.nack \subseteq w.nack \cup m.bits
                                    /\ \E u \in WriterState :
                                          /\ LaneOK(t, p, u) /\ u.sent = w.sent /\ u.acked = a
                                          /\ v.sent = LaneAdvance(t, p, u).sent
PROOF
<1> DEFINE e == [w EXCEPT !.epoch = m.epoch]
           a == IF w.acked < m.base THEN m.base ELSE w.acked
           u == [e EXCEPT !.acked = a]
           j == IF w.acked < JoinSeqno(t) THEN w.acked ELSE JoinSeqno(t)
           y == [w EXCEPT !.epoch = m.epoch, !.sent = j, !.acked = j]
           z == IF w.acked < w.sent THEN w.acked ELSE w.sent
           x == [e EXCEPT !.sent = z]
           v == WriterNack(t, p, w, m)
<1>1. /\ w \in WriterState /\ m.epoch \in Nat /\ m.base \in Nat /\ m.base \in Edges(t, p)
      /\ JoinSeqno(t) \in Nat /\ w.acked \in Nat /\ w.sent \in Nat /\ w.acked \in Edges(t, p)
      /\ w.sent \in Edges(t, p) /\ m.unpos \in BOOLEAN
  BY JoinSeqnoOK DEF LaneOK, NackOK, WriterState
<1>2. /\ e \in WriterState /\ e.used = w.used /\ e.epoch = m.epoch /\ e.sent = w.sent
      /\ e.acked = w.acked /\ e.nack = w.nack /\ e.nackBase = w.nackBase /\ e.skipHb = w.skipHb
  BY <1>1 DEF WriterState
<1>3. /\ w.epoch \notin {0, m.epoch} => v = WithNack(y, {}, 0)
      /\ w.epoch \in {0, m.epoch} /\ m.unpos => v = x
      /\ w.epoch \in {0, m.epoch} /\ ~m.unpos => v = MergeNack(LaneAdvance(t, p, u), m)
  BY <1>1, <1>2 DEF WriterNack, Rejoined, Repush
<1>4. a \in Nat /\ a \in Edges(t, p) /\ j \in Nat /\ z \in Nat
  BY <1>1
<1>5. z = Smaller(w.acked, w.sent) /\ j = Smaller(w.acked, JoinSeqno(t))
  BY <1>1 DEF Smaller
<1> HIDE DEF e, a, j, z, v
<1>6. CASE w.epoch \notin {0, m.epoch}
  <2>1. y \in WriterState /\ y.used = w.used /\ y.epoch = m.epoch /\ y.sent = j /\ y.acked = j
    BY <1>1, <1>4 DEF WriterState
  <2> HIDE DEF y
  <2>2. {} \in SUBSET Nat /\ 0 \in Nat
    OBVIOUS
  <2>3. v \in WriterState /\ v.used = w.used /\ v.epoch = m.epoch /\ v.sent = j /\ v.acked = j /\ v.nack = {}
    BY <1>3, <1>6, <2>1, <2>2, WithNackFields DEF SameTie
  <2> QED BY <1>5, <1>6, <2>3 DEF v
<1>7. CASE w.epoch \in {0, m.epoch} /\ m.unpos
  <2>1. /\ x \in WriterState /\ x.used = w.used /\ x.epoch = m.epoch /\ x.sent = z
        /\ x.acked = w.acked /\ x.nack = w.nack
    BY <1>2, <1>4 DEF WriterState
  <2> QED BY <1>3, <1>5, <1>7, <2>1 DEF v
<1>8. CASE w.epoch \in {0, m.epoch} /\ ~m.unpos
  <2>1. /\ u \in WriterState /\ u.used = w.used /\ u.epoch = m.epoch /\ u.sent = w.sent
        /\ u.acked = a /\ u.nack = w.nack /\ u.nackBase = w.nackBase /\ u.skipHb = w.skipHb
    BY <1>2, <1>4 DEF WriterState
  <2> HIDE DEF u
  <2>2. LaneOK(t, p, u)
    BY <1>4, <2>1 DEF LaneOK
  <2> DEFINE l == LaneAdvance(t, p, u)
  <2>3. /\ LaneOK(t, p, l) /\ SameTie(u, l) /\ l.nack = u.nack
        /\ l.acked = IF Directed THEN StepOver(t, p, a) ELSE a
    BY <2>1, <2>2, LaneAdvanceOK, AdvanceFields
  <2> HIDE DEF l
  <2>4. /\ v \in WriterState /\ SameTie(l, v) /\ v.acked = l.acked /\ v.sent = l.sent
        /\ v.nack \subseteq l.nack \cup m.bits
    BY <1>3, <1>8, <2>3, MergeNackFields DEF l
  <2>5. v.used = w.used /\ v.epoch = m.epoch /\ v.nack \subseteq w.nack \cup m.bits
    BY <2>1, <2>3, <2>4 DEF SameTie
  <2>6. \E k \in WriterState : /\ LaneOK(t, p, k) /\ k.sent = w.sent /\ k.acked = a
                               /\ v.sent = LaneAdvance(t, p, k).sent
    BY <2>1, <2>2, <2>4 DEF l
  <2> QED BY <1>8, <2>3, <2>4, <2>5, <2>6 DEF v, a
<1> QED BY <1>6, <1>7, <1>8

-----------------------------------------------------------------------------
(* The acked edge is what this incarnation of the reader received: an       *)
(* incarnation is known by its epoch, and an ACKNACK of an earlier one       *)
(* carries an earlier epoch.                                                 *)

\* epochs are handed out once, and an unheard lane knows none
Epochs(p) ==
    /\ reader[p].used => 1 <= reader[p].epoch /\ reader[p].epoch < epochs
    /\ writer[p].epoch < epochs

\* what counts as acked is below the join point, or acked by this incarnation
Honest(p) ==
    writer[p].used =>
        /\ writer[p].epoch = 0 => writer[p].acked <= join[p]
        /\ reader[p].used /\ writer[p].epoch = reader[p].epoch
             => writer[p].acked <= Larger(FirstMissing(reader[p]), join[p])

\* an ACKNACK in flight claims no more than its incarnation has by now
Truthful(m) ==
    m.type = "nack" =>
        /\ 1 <= m.epoch /\ m.epoch < epochs
        /\ reader[m.lane].used /\ m.epoch = reader[m.lane].epoch /\ ~m.unpos
             => m.base <= FirstMissing(reader[m.lane])

AckInv ==
    /\ 1 <= epochs
    /\ \A p \in Readers : Epochs(p) /\ Honest(p)
    /\ \A m \in net : Truthful(m)

LEMMA InitAck == Init => AckInv
  BY DEF Init, AckInv, Epochs, Honest, NoReader, NoWriter

\* A step at one reader that leaves the lanes and the epochs alone: it stays, or
\* grows.
GrowsAt(p) ==
    /\ p \in Readers /\ reader[p].used /\ reader'[p].used
    /\ reader' = [reader EXCEPT ![p] = reader'[p]]
    /\ ReaderOK(reader'[p], Deliverable(topic, p), Edges(topic, p))
    /\ Grows(reader[p], reader'[p])

LEMMA RecvDataGrows ==
    ASSUME IInv, NEW m \in net, NEW mem \in BOOLEAN, NEW acc \in 0 .. 2, RecvData(m, mem, acc)
    PROVE  reader' = reader \/ GrowsAt(m.lane)
PROOF
<1> DEFINE p == m.lane
           r == reader[p]
           q == ReaderData(r, m, mem, acc)
           G == Deliverable(topic, p)
           E == Edges(topic, p)
<1>1. /\ m \in Message /\ p \in Readers /\ MsgOK(topic, m) /\ TopicOK(topic) /\ ReaderOK(r, G, E)
      /\ reader \in [Readers -> ReaderState]
  BY MessageFields DEF IInv, NetInv, ReadersInv
<1>2. Fragment(m, G) /\ m.base \in Nat /\ acc \in Nat
  BY <1>1 DEF RecvData, MsgOK, Fragment
<1>3. Closed(G, E)
  BY <1>1, DeliverableClosed
<1>4. reader' = [reader EXCEPT ![p] = IF r.used THEN q ELSE r]
  BY DEF RecvData
<1>5. r.used => reader' = reader \/ Forwards(p)
  BY <1>2, RecvDataStep
<1> HIDE DEF G, E
<1>6. CASE ~r.used
  BY <1>1, <1>4, <1>6
<1>7. CASE r.used
  <2>1. reader' = [reader EXCEPT ![p] = q]
    BY <1>4, <1>7
  <2>2. Grows(r, q)
    BY <1>1, <1>2, <1>3, ReaderDataGrows, AdoptGrows
  <2> HIDE DEF q
  <2>3. reader'[p] = q
    BY <1>1, <2>1
  <2>4. CASE reader' = reader
    BY <2>4
  <2>5. CASE Forwards(p)
    <3>1. q.used
      <4>1. CASE Moves(r, q)
        BY <1>7, <4>1 DEF Moves
      <4>2. CASE \E b \in Nat : Moves(Adopted(r, b), q)
        <5>1. r \in ReaderState
          BY <1>1 DEF ReaderOK
        <5>2. \A b \in Nat : Adopted(r, b).used
          BY <1>7, <5>1 DEF Adopted, ReaderState
        <5> QED BY <4>2, <5>2 DEF Moves
      <4> QED BY <2>3, <2>5, <4>1, <4>2 DEF Forwards
    <3> QED BY <1>7, <2>2, <2>3, <2>5, <3>1 DEF Forwards, GrowsAt
  <2> QED BY <1>5, <1>7, <2>4, <2>5
<1> QED BY <1>6, <1>7

LEMMA RecvHbGrows ==
    ASSUME IInv, NEW m \in net, NEW acc \in 0 .. 2, RecvHb(m, acc)
    PROVE  reader' = reader \/ GrowsAt(m.lane)
PROOF
<1> DEFINE p == m.lane
           r == reader[p]
           q == ReaderHb(r, m, acc)
           G == Deliverable(topic, p)
           E == Edges(topic, p)
<1>1. /\ m \in Message /\ p \in Readers /\ MsgOK(topic, m) /\ TopicOK(topic) /\ ReaderOK(r, G, E)
      /\ reader \in [Readers -> ReaderState] /\ acc \in Nat
  BY MessageFields DEF IInv, NetInv, ReadersInv
<1>2. m.type = "hb"
  BY DEF RecvHb
<1>3. /\ m.first \in Nat /\ m.last \in Nat /\ m.first \in E /\ m.last + 1 <= NextSeqno(topic)
      /\ NextSeqno(topic) \in Nat
  BY <1>1, <1>2, MessageFields, TopicFacts DEF MsgOK
<1>4. ~Directed => Larger(m.first, m.last + 1) \in E
  <2>1. \A x \in 0 .. NextSeqno(topic) : ~Directed => x \in E
    BY DEF Edges, Foreign
  <2>2. m.last + 1 \in 0 .. NextSeqno(topic)
    BY <1>3
  <2> QED BY <2>1, <2>2, <1>3 DEF Larger
<1>5. Closed(G, E)
  BY <1>1, DeliverableClosed
<1>6. reader' = [reader EXCEPT ![p] = IF r.used THEN q ELSE r]
  BY DEF RecvHb
<1> HIDE DEF G, E
<1>7. CASE ~r.used
  BY <1>1, <1>6, <1>7
<1>8. CASE r.used
  <2>1. reader' = [reader EXCEPT ![p] = q]
    BY <1>6, <1>8
  <2>2. ReaderOK(q, G, E) /\ Moves(r, q) /\ Grows(r, q)
    BY <1>1, <1>3, <1>4, <1>5, ReaderHbOK, ReaderHbGrows
  <2> HIDE DEF q
  <2>3. reader'[p] = q /\ reader' = [reader EXCEPT ![p] = reader'[p]]
    BY <1>1, <2>1, OneReader
  <2>4. q.used
    BY <1>8, <2>2 DEF Moves
  <2> QED BY <2>2, <2>3, <2>4, <1>1, <1>8 DEF GrowsAt, G, E
<1> QED BY <1>7, <1>8

LEMMA ReaderOwnGrows ==
    ASSUME IInv, NEW p \in Readers, NEW due \in BOOLEAN, NEW acc \in 0 .. 2,
           ReaderEmit(p, due) \/ ReaderUnpark(p, acc) \/ ReaderSleep(p)
    PROVE  reader' = reader \/ GrowsAt(p)
PROOF
<1> DEFINE r == reader[p]
           G == Deliverable(topic, p)
           E == Edges(topic, p)
           yes == TRUE
<1>1. TopicOK(topic) /\ ReaderOK(r, G, E) /\ reader \in [Readers -> ReaderState] /\ r \in ReaderState /\ acc \in Nat
  BY DEF IInv, ReadersInv, ReaderOK
<1>2. Closed(G, E) /\ yes \in BOOLEAN
  BY <1>1, DeliverableClosed
<1>3. ASSUME NEW q, ReaderOK(q, G, E), Moves(r, q), Grows(r, q), r.used, reader' = [reader EXCEPT ![p] = q]
      PROVE  GrowsAt(p)
  <2>1. reader'[p] = q /\ reader' = [reader EXCEPT ![p] = reader'[p]]
    BY <1>3, OneReader
  <2>2. q.used
    BY <1>3 DEF Moves
  <2> QED BY <2>1, <2>2, <1>3 DEF GrowsAt
<1> HIDE DEF G, E
<1>4. CASE ReaderEmit(p, due)
  <2> DEFINE q == AfterEmit(r, due)
  <2>1. ReaderOK(q, G, E) /\ Moves(r, q) /\ SameLane(r, q)
    BY <1>1, <1>2, AfterEmitOK, AfterEmitSame
  <2>2. r.used /\ reader' = [reader EXCEPT ![p] = q]
    BY <1>4 DEF ReaderEmit
  <2> HIDE DEF q
  <2>3. Grows(r, q)
    BY <1>1, <2>1, SameLaneGrows DEF ReaderOK
  <2> QED BY <1>3, <2>1, <2>2, <2>3
<1>5. CASE ReaderUnpark(p, acc)
  <2> DEFINE q == Unpark(r, acc)
  <2>1. ReaderOK(q, G, E) /\ Moves(r, q) /\ Grows(r, q)
    BY <1>1, <1>2, UnparkOK, UnparkGrows
  <2>2. r.used /\ reader' = [reader EXCEPT ![p] = q]
    BY <1>5 DEF ReaderUnpark
  <2> HIDE DEF q
  <2> QED BY <1>3, <2>1, <2>2
<1>6. CASE ReaderSleep(p)
  <2> DEFINE q == AckNow(r, yes)
  <2>1. reader' = [reader EXCEPT ![p] = IF rDormant[p] /\ r.used THEN q ELSE r]
    BY <1>6 DEF ReaderSleep
  <2> HIDE DEF yes
  <2>2. ReaderOK(q, G, E) /\ Moves(r, q) /\ Grows(r, q)
    BY <1>1, <1>2, AckNowOK, AckNowGrows
  <2> HIDE DEF q
  <2>3. CASE rDormant[p] /\ r.used
    BY <2>1, <2>2, <2>3, <1>3
  <2>4. CASE ~(rDormant[p] /\ r.used)
    BY <2>1, <2>4, <1>1
  <2> QED BY <2>3, <2>4
<1> QED BY <1>4, <1>5, <1>6

\* A reader that grew keeps what was said of it.
LEMMA GrowsAck ==
    ASSUME IInv, AckInv, NEW p, reader' = reader \/ GrowsAt(p),
           UNCHANGED <<topic, writer, epochs, join>>
    PROVE  /\ 1 <= epochs'
           /\ \A k \in Readers : Epochs(k)' /\ Honest(k)'
           /\ \A m \in net : Truthful(m)'
PROOF
<1>1. ASSUME NEW k \in Readers
      PROVE  /\ reader'[k].used = reader[k].used
             /\ reader[k].used => /\ reader'[k].epoch = reader[k].epoch
                                  /\ FirstMissing(reader[k]) <= FirstMissing(reader'[k])
             /\ FirstMissing(reader[k]) \in Nat /\ FirstMissing(reader'[k]) \in Nat
  <2>1. ReaderOK(reader[k], Deliverable(topic, k), Edges(topic, k))
    BY DEF IInv, ReadersInv
  <2>2. FirstMissing(reader[k]) \in Nat
    BY <2>1, FirstMissingOK
  <2>3. CASE reader'[k] = reader[k]
    BY <2>2, <2>3
  <2>4. CASE k = p /\ GrowsAt(p)
    <3>1. /\ ReaderOK(reader'[k], Deliverable(topic, k), Edges(topic, k)) /\ Grows(reader[k], reader'[k])
          /\ reader[k].used /\ reader'[k].used
      BY <2>4 DEF GrowsAt
    <3>2. FirstMissing(reader[k]) <= FirstMissing(reader'[k]) /\ FirstMissing(reader'[k]) \in Nat
      BY <2>1, <3>1, FirstGrows, FirstMissingOK
    <3> QED BY <2>2, <3>1, <3>2 DEF Grows
  <2>5. reader'[k] = reader[k] \/ (k = p /\ GrowsAt(p))
    BY DEF GrowsAt, IInv, ReadersInv
  <2> QED BY <2>3, <2>4, <2>5
<1>2. ASSUME NEW k \in Readers PROVE Epochs(k)' /\ Honest(k)'
  <2>1. Epochs(k)'
    BY <1>1 DEF AckInv, Epochs
  <2>2. writer[k].acked \in Nat /\ join[k] \in Nat
    BY DEF IInv, LanesInv, WriterState, RestInv
  <2>3. Honest(k)'
    BY <1>1, <2>2 DEF AckInv, Honest, Larger
  <2> QED BY <2>1, <2>3
<1>3. ASSUME NEW m \in net PROVE Truthful(m)'
  <2>1. CASE m.type = "nack"
    <3>1. m.lane \in Readers /\ m.base \in Nat
      BY <2>1, MessageFields DEF IInv, NetInv
    <3> QED BY <1>1, <3>1 DEF AckInv, Truthful
  <2> QED BY <2>1 DEF Truthful
<1> QED BY <1>2, <1>3 DEF AckInv

\* A step of one lane that keeps it honest and sends no ACKNACK.
LEMMA LaneAck ==
    ASSUME IInv, AckInv, NEW p \in Readers, NEW w \in WriterState, NEW j,
           writer' = [writer EXCEPT ![p] = w], join' = [join EXCEPT ![p] = j],
           UNCHANGED <<reader, epochs>>, \A m \in net' : m \in net \/ m.type # "nack",
           w.epoch < epochs,
           w.used => /\ w.epoch = 0 => w.acked <= j
                     /\ reader[p].used /\ w.epoch = reader[p].epoch
                          => w.acked <= Larger(FirstMissing(reader[p]), j)
    PROVE  AckInv'
PROOF
<1>1. \A k \in Readers : /\ writer'[k] = IF k = p THEN w ELSE writer[k]
                         /\ join'[k] = IF k = p THEN j ELSE join[k]
  BY DEF IInv, LanesInv, RestInv
<1>2. ASSUME NEW k \in Readers PROVE Epochs(k)' /\ Honest(k)'
  <2>1. Epochs(k)'
    BY <1>1 DEF AckInv, Epochs
  <2>2. CASE k = p
    BY <1>1, <2>1, <2>2 DEF Honest
  <2>3. CASE k # p
    BY <1>1, <2>1, <2>3 DEF AckInv, Honest
  <2> QED BY <2>2, <2>3
<1>3. ASSUME NEW m \in net' PROVE Truthful(m)'
  BY <1>3 DEF AckInv, Truthful
<1> QED BY <1>2, <1>3 DEF AckInv

\* The same incarnation, the same edge.
LEMMA EmitAck ==
    ASSUME IInv, AckInv, NEW p \in Readers, NEW w \in WriterState,
           SameTie(writer[p], w), w.acked = writer[p].acked, NEW m, m.type # "nack", Emit(p, w, m)
    PROVE  AckInv'
PROOF
<1>1. /\ writer' = [writer EXCEPT ![p] = w] /\ net' = net \cup {m} /\ UNCHANGED <<reader, epochs, join>>
  BY DEF Emit
<1>2. join' = [join EXCEPT ![p] = join[p]]
  BY <1>1 DEF IInv, RestInv
<1>3. /\ w.epoch < epochs
      /\ w.used => /\ w.epoch = 0 => w.acked <= join[p]
                   /\ reader[p].used /\ w.epoch = reader[p].epoch
                        => w.acked <= Larger(FirstMissing(reader[p]), join[p])
  BY DEF AckInv, Epochs, Honest, SameTie
<1> QED BY <1>1, <1>2, <1>3, LaneAck

\* Repairs, floors, new data and heartbeats acknowledge nothing.
LEMMA WriterEmitAck ==
    ASSUME ~Directed, IInv, AckInv, NEW p \in Readers, NEW ask \in BOOLEAN,
           EmitRepair(p) \/ EmitFloor(p) \/ EmitPush(p, ask) \/ EmitHeartbeat(p)
    PROVE  AckInv'
PROOF
<1> DEFINE w == Pruned(topic, p, writer[p])
<1>1. TopicOK(topic) /\ LaneOK(topic, p, writer[p])
  BY DEF IInv, LanesInv
<1>2. w \in WriterState /\ SameTie(writer[p], w) /\ w.acked = writer[p].acked
  BY <1>1, PrunedFields, AdvanceFields
<1>3. ASSUME NEW v \in WriterState, SameTie(w, v), v.acked = w.acked, NEW m, m.type # "nack", Emit(p, v, m)
      PROVE  AckInv'
  <2>1. SameTie(writer[p], v) /\ v.acked = writer[p].acked
    BY <1>2, <1>3 DEF SameTie
  <2> QED BY <1>3, <2>1, EmitAck
<1>4. \A v : Heartbeat(p, v).type # "nack"
  BY DEF Heartbeat, HbMsg
<1>5. \A s, x, a : DataMsg(p, s, x, a).type # "nack"
  BY DEF DataMsg
<1>6. CASE EmitRepair(p)
  <2> DEFINE v == Repaired(topic, w)
             x == Min(w.nack)
             m == IF Found(topic, x) THEN DataMsg(p, Find(topic, x), x, FALSE) ELSE Heartbeat(p, w)
  <2>1. Emit(p, v, m)
    BY <1>6 DEF EmitRepair
  <2>2. m.type # "nack"
    BY <1>4, <1>5
  <2>3. v \in WriterState /\ SameTie(w, v) /\ v.acked = w.acked
    BY <1>2, RepairedFields
  <2> HIDE DEF v, m
  <2> QED BY <1>3, <2>1, <2>2, <2>3
<1>7. CASE EmitFloor(p)
  <2> DEFINE v == [w EXCEPT !.skipHb = FALSE]
  <2>1. Emit(p, v, Heartbeat(p, w))
    BY <1>7 DEF EmitFloor
  <2>2. v \in WriterState /\ SameTie(w, v) /\ v.acked = w.acked
    BY <1>2 DEF WriterState, SameTie
  <2> HIDE DEF v
  <2> QED BY <1>3, <1>4, <2>1, <2>2
<1>8. CASE EmitPush(p, ask)
  <2> DEFINE v == Pushed(topic, w)
             x == w.sent
             m == IF Found(topic, x) THEN DataMsg(p, Find(topic, x), x, ask) ELSE Heartbeat(p, v)
  <2>1. Emit(p, v, m)
    BY <1>8 DEF EmitPush
  <2>2. m.type # "nack"
    BY <1>4, <1>5
  <2>3. v \in WriterState /\ SameTie(w, v) /\ v.acked = w.acked
    BY <1>1, <1>2, PushedFields
  <2> HIDE DEF v, m
  <2> QED BY <1>3, <2>1, <2>2, <2>3
<1>9. CASE EmitHeartbeat(p)
  <2>1. Emit(p, w, Heartbeat(p, w))
    BY <1>9 DEF EmitHeartbeat
  <2> QED BY <1>2, <1>4, <2>1, EmitAck
<1> QED BY <1>6, <1>7, <1>8, <1>9

\* A send moves no edge on a topic that addresses nobody.
LEMMA SendAck ==
    ASSUME ~Directed, AckInv, IInv, NEW c, NEW d, Send(c, d)
    PROVE  AckInv'
PROOF
<1>1. UNCHANGED <<reader, epochs, net, join>>
  BY DEF Send
<1>2. writer' = writer
  BY DEF Send, LaneAdvance, IInv, LanesInv
<1> QED BY <1>1, <1>2 DEF AckInv, Epochs, Honest, Truthful

\* A lane joins at its join point, or is forgotten.
LEMMA WriterMatchAck ==
    ASSUME IInv, AckInv, NEW p \in Readers, WriterMatch(p) \/ WriterUnmatch(p)
    PROVE  AckInv'
PROOF
<1>0. JoinSeqno(topic) \in Nat /\ epochs \in Nat /\ 0 < epochs
  <2>1. JoinSeqno(topic) \in Nat
    BY JoinSeqnoOK DEF IInv
  <2> QED BY <2>1 DEF IInv, RestInv, AckInv
<1>1. CASE WriterMatch(p)
  <2> DEFINE j == JoinSeqno(topic)
             w == JoinedAt(j)
  <2>1. w \in WriterState
    BY FreshLaneOK DEF IInv, LaneOK
  <2>2. w.epoch = 0 /\ w.acked = j
    BY DEF JoinedAt, NoWriter
  <2>3. writer' = [writer EXCEPT ![p] = w] /\ join' = [join EXCEPT ![p] = j] /\ UNCHANGED <<reader, epochs, net>>
    BY <1>1 DEF WriterMatch
  <2> HIDE DEF w, j
  <2>4. reader[p].used => reader[p].epoch # 0
    BY DEF AckInv, Epochs
  <2>5. j <= j
    BY <1>0 DEF j
  <2> QED BY <2>1, <2>2, <2>3, <2>4, <2>5, <1>0, LaneAck
<1>2. CASE WriterUnmatch(p)
  <2>1. NoWriter \in WriterState
    BY FreshLaneOK DEF IInv, LaneOK
  <2>2. NoWriter.epoch = 0 /\ ~NoWriter.used
    BY DEF NoWriter
  <2>3. writer' = [writer EXCEPT ![p] = NoWriter] /\ UNCHANGED <<reader, epochs, net, join>>
    BY <1>2 DEF WriterUnmatch
  <2>4. join' = [join EXCEPT ![p] = join[p]]
    BY <2>3 DEF IInv, RestInv
  <2> QED BY <2>1, <2>2, <2>3, <2>4, <1>0, LaneAck
<1> QED BY <1>1, <1>2

\* An ACKNACK: of this incarnation, it acknowledges what that one received; of a new
\* one, the lane goes back to where it rejoins.
LEMMA RecvNackAck ==
    ASSUME ~Directed, IInv, AckInv, NEW m \in net, RecvNack(m)
    PROVE  AckInv'
PROOF
<1> DEFINE p == m.lane
           w == writer[p]
           n == WriterNack(topic, p, w, m)
           v == IF w.used THEN n ELSE w
           j == IF w.used /\ w.epoch \notin {0, m.epoch} THEN Smaller(w.acked, JoinSeqno(topic)) ELSE join[p]
           a == IF w.acked < m.base THEN m.base ELSE w.acked
           f == FirstMissing(reader[p])
<1>1. m \in Message /\ p \in Readers /\ MsgOK(topic, m) /\ TopicOK(topic) /\ LaneOK(topic, p, w)
  BY MessageFields DEF IInv, NetInv, LanesInv
<1>2. NackOK(topic, p, m) /\ m.type = "nack"
  BY <1>1 DEF RecvNack, MsgOK
<1>3. /\ w \in WriterState /\ w.acked \in Nat /\ join[p] \in Nat /\ m.base \in Nat
      /\ JoinSeqno(topic) \in Nat /\ f \in Nat /\ m.unpos \in BOOLEAN
  <2>1. f \in Nat
    BY <1>1, FirstMissingOK DEF IInv, ReadersInv
  <2>2. JoinSeqno(topic) \in Nat
    BY <1>1, JoinSeqnoOK
  <2> QED BY <1>1, <1>2, <2>1, <2>2 DEF LaneOK, WriterState, NackOK, IInv, RestInv
<1>4. /\ n \in WriterState /\ n.used = w.used /\ n.epoch = m.epoch
      /\ w.epoch \notin {0, m.epoch} => n.acked = Smaller(w.acked, JoinSeqno(topic))
      /\ w.epoch \in {0, m.epoch} /\ m.unpos => n.acked = w.acked
      /\ w.epoch \in {0, m.epoch} /\ ~m.unpos => n.acked = a
  BY <1>1, <1>2, WriterNackFields
<1>5. /\ writer' = [writer EXCEPT ![p] = v] /\ join' = [join EXCEPT ![p] = j]
      /\ UNCHANGED <<reader, epochs>> /\ net' \subseteq net
  BY DEF RecvNack, Taken
<1>6. 1 <= m.epoch /\ m.epoch < epochs /\ Truthful(m)
  BY <1>2 DEF AckInv, Truthful
<1>7. Epochs(p) /\ Honest(p)
  BY <1>1 DEF AckInv
<1> HIDE DEF n
<1>8. v \in WriterState /\ v.epoch < epochs
  BY <1>3, <1>4, <1>6, <1>7 DEF Epochs
<1>9. v.used => /\ v.epoch = 0 => v.acked <= j
                /\ reader[p].used /\ v.epoch = reader[p].epoch => v.acked <= Larger(f, j)
  <2>1. CASE ~w.used
    BY <2>1
  <2>2. CASE w.used /\ w.epoch \notin {0, m.epoch}
    <3>1. v.acked = j /\ j \in Nat
      BY <1>3, <1>4, <2>2 DEF Smaller
    <3> HIDE DEF v, j, f
    <3> QED BY <1>3, <3>1 DEF Larger
  <2>3. CASE w.used /\ w.epoch \in {0, m.epoch}
    <3>1. v = n /\ j = join[p] /\ v.epoch = m.epoch
      BY <1>4, <2>3
    <3>2. SUFFICES ASSUME reader[p].used, m.epoch = reader[p].epoch
                   PROVE  v.acked <= Larger(f, join[p])
      BY <1>6, <3>1
    <3>3. w.acked <= Larger(f, join[p])
      <4>1. CASE w.epoch = 0
        BY <1>3, <1>7, <2>3, <4>1 DEF Honest, Larger
      <4>2. CASE w.epoch = m.epoch
        BY <1>7, <2>3, <3>2, <4>2 DEF Honest
      <4> QED BY <2>3, <4>1, <4>2
    <3>4. ~m.unpos => m.base <= f
      BY <1>2, <1>6, <3>2 DEF Truthful
    <3>5. ~m.unpos => a <= Larger(f, join[p])
      BY <1>3, <3>3, <3>4 DEF Larger
    <3> QED BY <1>4, <2>3, <3>1, <3>3, <3>5
  <2> QED BY <2>1, <2>2, <2>3
<1>10. \A k \in net' : k \in net \/ k.type # "nack"
  BY <1>5
<1> HIDE DEF v, j
<1> QED BY <1>1, <1>5, <1>8, <1>9, <1>10, LaneAck

\* A new incarnation gets an epoch nobody knows.
LEMMA ReaderMatchAck ==
    ASSUME IInv, AckInv, NEW p \in Readers, ReaderMatch(p) \/ ReaderUnmatch(p)
    PROVE  AckInv'
PROOF
<1>1. /\ UNCHANGED <<writer, net, join>> /\ epochs \in Nat /\ epochs <= epochs' /\ epochs' \in Nat
  BY DEF ReaderMatch, ReaderUnmatch, IInv, RestInv
<1>2. \A k \in Readers : /\ k # p => reader'[k] = reader[k]
                         /\ k = p /\ reader'[k].used => reader'[k].epoch = epochs /\ epochs < epochs'
  <2>1. Matched(epochs).epoch = epochs /\ ~NoReader.used
    BY DEF Matched, NoReader
  <2>2. epochs < epochs + 1
    BY <1>1
  <2> QED BY <2>1, <2>2 DEF ReaderMatch, ReaderUnmatch, IInv, ReadersInv
<1>3. ASSUME NEW k \in Readers PROVE writer[k].epoch \in Nat /\ (reader[k].used => reader[k].epoch \in Nat)
  BY DEF IInv, LanesInv, ReadersInv, WriterState, ReaderState
<1>4. ASSUME NEW k \in Readers PROVE Epochs(k)' /\ Honest(k)'
  <2>1. Epochs(k) /\ Honest(k) /\ 1 <= epochs
    BY DEF AckInv
  <2>2. CASE k = p
    BY <1>1, <1>2, <1>3, <2>1, <2>2 DEF Epochs, Honest
  <2>3. CASE k # p
    BY <1>1, <1>2, <1>3, <2>1, <2>3 DEF Epochs, Honest
  <2> QED BY <2>2, <2>3
<1>5. ASSUME NEW m \in net PROVE Truthful(m)'
  <2>1. CASE m.type = "nack"
    <3>1. m.lane \in Readers /\ m.epoch \in Nat /\ Truthful(m)
      BY <2>1, MessageFields DEF IInv, NetInv, AckInv
    <3>2. CASE m.lane = p
      BY <1>1, <1>2, <2>1, <3>1, <3>2 DEF Truthful
    <3>3. CASE m.lane # p
      BY <1>1, <1>2, <2>1, <3>1, <3>3 DEF Truthful
    <3> QED BY <3>2, <3>3
  <2> QED BY <2>1 DEF Truthful
<1>6. 1 <= epochs'
  BY <1>1 DEF AckInv
<1> QED BY <1>1, <1>4, <1>5, <1>6 DEF AckInv

\* A reader received something, or has room again.
LEMMA ReaderRecvAck ==
    ASSUME IInv, AckInv, NEW p, reader' = reader \/ GrowsAt(p), net' \subseteq net,
           UNCHANGED <<topic, writer, epochs, join>>
    PROVE  AckInv'
PROOF
<1>1. /\ 1 <= epochs'
      /\ \A k \in Readers : Epochs(k)' /\ Honest(k)'
      /\ \A m \in net : Truthful(m)'
  BY GrowsAck
<1> QED BY <1>1 DEF AckInv

\* An ACKNACK goes out: it says what its incarnation has.
LEMMA ReaderEmitAck ==
    ASSUME IInv, AckInv, NEW p \in Readers, NEW due \in BOOLEAN, ReaderEmit(p, due)
    PROVE  AckInv'
PROOF
<1> DEFINE r == reader[p]
<1>0. PICK m : m = AckOf(p, r, due)
  OBVIOUS
<1>1. UNCHANGED <<topic, writer, epochs, join>> /\ net' \subseteq net \cup {m}
  BY <1>0 DEF ReaderEmit
<1>2. reader' = reader \/ GrowsAt(p)
  <2>1. 0 \in 0 .. 2
    OBVIOUS
  <2> QED BY <2>1, ReaderOwnGrows
<1>3. /\ 1 <= epochs'
      /\ \A k \in Readers : Epochs(k)' /\ Honest(k)'
      /\ \A k \in net : Truthful(k)'
  BY <1>1, <1>2, GrowsAck
<1>4. /\ m.type = "nack" /\ m.lane = p /\ m.epoch = r.epoch
      /\ ~m.unpos => m.base = FirstMissing(r)
  BY <1>0 DEF AckOf, NackMsg
<1>5. r.used /\ 1 <= r.epoch /\ r.epoch < epochs
  BY DEF ReaderEmit, AckInv, Epochs
<1>6. FirstMissing(r) <= FirstMissing(reader'[p])
  <2>1. ReaderOK(r, Deliverable(topic, p), Edges(topic, p)) /\ FirstMissing(r) \in Nat
    BY FirstMissingOK DEF IInv, ReadersInv
  <2>2. CASE reader' = reader
    BY <2>1, <2>2
  <2>3. CASE GrowsAt(p)
    BY <2>1, <2>3, FirstGrows DEF GrowsAt
  <2> QED BY <1>2, <2>2, <2>3
<1>7. Truthful(m)'
  BY <1>1, <1>4, <1>5, <1>6 DEF Truthful
<1> QED BY <1>1, <1>3, <1>7 DEF AckInv

LEMMA NextAck == ~Directed /\ IInv /\ AckInv /\ [Next]_vars => AckInv'
PROOF
<1> SUFFICES ASSUME ~Directed, IInv, AckInv, [Next]_vars PROVE AckInv'
  OBVIOUS
<1>0. /\ TRUE \in BOOLEAN /\ 0 \in 0 .. 2 /\ AskChoices \subseteq BOOLEAN /\ MemChoices \subseteq BOOLEAN
      /\ Accepts \subseteq 0 .. 2
  BY TopicAssumption
<1>1. ASSUME UNCHANGED <<writer, reader, epochs, join>>, net' \subseteq net
      PROVE  AckInv'
  BY <1>1 DEF AckInv, Epochs, Honest, Truthful
<1>2. CASE UNCHANGED vars
  BY <1>1, <1>2 DEF vars
<1>3. ASSUME NEW n \in FragCounts, NEW d \in Dests, Send(n, d) PROVE AckInv'
  BY <1>3, SendAck
<1>4. ASSUME NEW b \in BOOLEAN, SetFresh(b) PROVE AckInv'
  BY <1>1, <1>4 DEF SetFresh
<1>5. ASSUME NEW p \in Readers, WriterMatch(p) \/ WriterUnmatch(p) PROVE AckInv'
  BY <1>5, WriterMatchAck
<1>6. ASSUME NEW p \in Readers, WriterSleep(p) PROVE AckInv'
  BY <1>1, <1>6 DEF WriterSleep
<1>7. ASSUME NEW p \in Readers, EmitRepair(p) \/ EmitFloor(p) \/ EmitHeartbeat(p) PROVE AckInv'
  BY <1>0, <1>7, WriterEmitAck
<1>8. ASSUME NEW p \in Readers, NEW ask \in AskChoices, EmitPush(p, ask) PROVE AckInv'
  BY <1>0, <1>8, WriterEmitAck
<1>9. ASSUME NEW m \in net, RecvNack(m) PROVE AckInv'
  BY <1>9, RecvNackAck
<1>10. ASSUME NEW p \in Readers, ReaderMatch(p) \/ ReaderUnmatch(p) PROVE AckInv'
  BY <1>10, ReaderMatchAck
<1>11. ASSUME NEW p \in Readers, ReaderSleep(p) PROVE AckInv'
  <2>1. reader' = reader \/ GrowsAt(p)
    BY <1>0, <1>11, ReaderOwnGrows
  <2> QED BY <1>11, <2>1, ReaderRecvAck DEF ReaderSleep
<1>12. ASSUME NEW p \in Readers, NEW due \in BOOLEAN, ReaderEmit(p, due) PROVE AckInv'
  BY <1>12, ReaderEmitAck
<1>13. ASSUME NEW p \in Readers, NEW acc \in Accepts, ReaderUnpark(p, acc) PROVE AckInv'
  <2>1. reader' = reader \/ GrowsAt(p)
    BY <1>0, <1>13, ReaderOwnGrows
  <2> QED BY <1>13, <2>1, ReaderRecvAck DEF ReaderUnpark
<1>14. ASSUME NEW m \in net, NEW acc \in Accepts, RecvHb(m, acc) PROVE AckInv'
  <2>1. reader' = reader \/ GrowsAt(m.lane)
    BY <1>0, <1>14, RecvHbGrows
  <2> QED BY <1>14, <2>1, ReaderRecvAck DEF RecvHb, Taken
<1>15. ASSUME NEW m \in net, NEW acc \in Accepts, NEW mem \in MemChoices, RecvData(m, mem, acc) PROVE AckInv'
  <2>1. reader' = reader \/ GrowsAt(m.lane)
    BY <1>0, <1>15, RecvDataGrows
  <2> QED BY <1>15, <2>1, ReaderRecvAck DEF RecvData, Taken
<1>16. ASSUME NEW m \in net, Lose(m) PROVE AckInv'
  BY <1>1, <1>16 DEF Lose
<1>17. CASE WriterNext
  BY <1>17, <1>3, <1>4, <1>5, <1>6, <1>7, <1>8, <1>9 DEF WriterNext
<1>18. CASE ReaderNext
  BY <1>18, <1>10, <1>11, <1>12, <1>13, <1>14, <1>15 DEF ReaderNext
<1> QED BY <1>2, <1>16, <1>17, <1>18 DEF Next

\* What i_rant_writer_nack counts as acked, and backpressure lets go of, was received
\* by the incarnation it believes to talk to, or lies below the join point: no late
\* ACKNACK of a dead incarnation and no rejoin ever puts the edge past that.
THEOREM AckIsHonest == Spec => []AckedIsReceived
PROOF
<1>1. CASE Directed
  <2>1. AckedIsReceived
    BY <1>1 DEF AckedIsReceived
  <2> QED BY <2>1, PTL
<1>2. CASE ~Directed
  <2>1. AckInv => AckedIsReceived
    BY DEF AckInv, Honest, AckedIsReceived
  <2>2. Init => AckInv
    BY InitAck
  <2>3. IInv /\ AckInv /\ [Next]_vars => AckInv'
    BY <1>2, NextAck
  <2> QED BY <2>1, <2>2, <2>3, Invariance, PTL DEF Spec
<1> QED BY <1>1, <1>2

-----------------------------------------------------------------------------
(* What a reader is owed.  A seqno is its own when it belongs to a sample    *)
(* that was sealed and is for it; an edge is safe when every own seqno below *)
(* it lies below what the reader has, or below its join point.               *)

Own(t, p, y) == \E k \in 1 .. Len(t.smp) : Covers(t.smp[k], y) /\ ~Foreign(t.smp[k], p)

\* what the reader has of the head for certain: never all of it
Edge(r) == IF r.cur.on THEN Smaller(Front(r.cur), EndOf(r.cur) - 1) ELSE r.upto

Safe(t, p, r, j, x) == \A y \in Nat : y < x /\ Own(t, p, y) => y < Larger(Edge(r), j)

\* an own seqno that was passed was handed up
Handed(t, p, r) == \A y \in Nat : r.start <= y /\ y < r.upto /\ Own(t, p, y) => HandedUp(r, y)

\* x does not cut a sample
Between(t, x) == \A k \in 1 .. Len(t.smp) : ~(t.smp[k].base < x /\ x < EndOf(t.smp[k]))

\* no seqno below next_seqno belongs to no sample
Tiled(t) == \A y \in Nat : y < NextSeqno(t) => \E k \in 1 .. Len(t.smp) : Covers(t.smp[k], y)

\* what was evicted and is for p lies below x
Released(t, p, x) == \A k \in 1 .. (t.lo - 1) : ~Foreign(t.smp[k], p) => EndOf(t.smp[k]) <= x

LEMMA SizedDeliverable ==
    ASSUME NEW t, TopicOK(t), NEW p
    PROVE  Sized(Deliverable(t, p))
PROOF
<1> SUFFICES ASSUME NEW d \in Deliverable(t, p) PROVE d.count > 0
  BY DEF Sized
<1>1. PICK k \in 1 .. Len(t.smp) : d = AsDelivery(t.smp[k])
  BY DEF Deliverable
<1>2. t.smp[k] \in Sample
  BY TopicFacts
<1> QED BY <1>1, <1>2 DEF AsDelivery, Sample

\* The certain edge lies at or past deliver_upto and inside the head.
LEMMA EdgeOK ==
    ASSUME NEW G, NEW E, NEW r, ReaderOK(r, G, E), Sized(G)
    PROVE  /\ Edge(r) \in Nat /\ r.upto \in Nat /\ r.upto <= Edge(r)
           /\ r.cur.on => Edge(r) < EndOf(r.cur) /\ Edge(r) <= Front(r.cur) /\ EndOf(r.cur) \in Nat
           /\ ~r.cur.on => Edge(r) = r.upto
PROOF
<1>1. r.upto \in Nat /\ r.cur \in Assembly /\ Fits(r.cur) /\ (r.cur.on => r.cur.base = r.upto)
  BY DEF ReaderOK, ReaderState, Slots
<1>2. CASE ~r.cur.on
  BY <1>1, <1>2 DEF Edge
<1>3. CASE r.cur.on
  <2>1. r.cur.base \in Nat /\ r.cur.count \in Nat
    BY <1>1 DEF Assembly
  <2>2. r.cur.count > 0
    BY <1>3 DEF ReaderOK, Genuine, Sized, AsDelivery
  <2>3. /\ EndOf(r.cur) = r.cur.base + r.cur.count
        /\ Front(r.cur) \in Nat /\ r.cur.base <= Front(r.cur) /\ Front(r.cur) <= EndOf(r.cur)
    BY <1>1, FrontOK
  <2>4. Edge(r) = Smaller(Front(r.cur), EndOf(r.cur) - 1)
    BY <1>3 DEF Edge
  <2> QED BY <1>1, <1>3, <2>1, <2>2, <2>3, <2>4 DEF Smaller
<1> QED BY <1>2, <1>3

\* A reader that grows keeps its certain edge.
LEMMA EdgeGrows ==
    ASSUME NEW G, NEW E, Sized(G), NEW r, ReaderOK(r, G, E), NEW q, ReaderOK(q, G, E), Grows(r, q)
    PROVE  Edge(r) <= Edge(q)
PROOF
<1>1. /\ Edge(r) \in Nat /\ r.upto \in Nat /\ r.upto <= Edge(r)
      /\ r.cur.on => Edge(r) < EndOf(r.cur) /\ Edge(r) <= Front(r.cur) /\ EndOf(r.cur) \in Nat
      /\ ~r.cur.on => Edge(r) = r.upto
  BY EdgeOK
<1>2. /\ Edge(q) \in Nat /\ q.upto \in Nat /\ q.upto <= Edge(q)
  BY EdgeOK
<1>3. CASE ~r.cur.on
  BY <1>1, <1>2, <1>3 DEF Grows
<1>4. CASE r.cur.on /\ EndOf(r.cur) <= q.upto
  BY <1>1, <1>2, <1>4
<1>5. CASE r.cur.on /\ Keeps(r.cur, q.cur)
  <2>1. r.cur \in Assembly /\ q.cur \in Assembly /\ Fits(r.cur) /\ Fits(q.cur)
    BY DEF ReaderOK, ReaderState
  <2>2. EndOf(q.cur) = EndOf(r.cur) /\ Front(r.cur) <= Front(q.cur) /\ q.cur.on
    BY <1>5, <2>1, KeepsFront DEF Keeps
  <2>3. Front(r.cur) \in Nat /\ Front(q.cur) \in Nat
    BY <2>1, FrontOK
  <2>4. Edge(q) = Smaller(Front(q.cur), EndOf(q.cur) - 1) /\ Edge(r) = Smaller(Front(r.cur), EndOf(r.cur) - 1)
    BY <1>5, <2>2 DEF Edge
  <2> QED BY <1>1, <1>5, <2>2, <2>3, <2>4 DEF Smaller
<1> QED BY <1>3, <1>4, <1>5 DEF Grows

LEMMA SafeGrows ==
    ASSUME NEW G, NEW E, Sized(G), NEW r, ReaderOK(r, G, E), NEW q, ReaderOK(q, G, E), Grows(r, q),
           NEW t, NEW p, NEW j \in Nat, NEW x, Safe(t, p, r, j, x)
    PROVE  Safe(t, p, q, j, x)
PROOF
<1>1. Edge(r) \in Nat /\ Edge(q) \in Nat /\ Edge(r) <= Edge(q)
  BY EdgeOK, EdgeGrows
<1>2. Larger(Edge(r), j) \in Nat /\ Larger(Edge(q), j) \in Nat /\ Larger(Edge(r), j) <= Larger(Edge(q), j)
  BY <1>1 DEF Larger
<1> QED BY <1>2 DEF Safe

\* Unless it is parked, a reader lacks some of its head: it acknowledges its
\* certain edge.
LEMMA AckIsEdge ==
    ASSUME NEW G, NEW E, NEW r, ReaderOK(r, G, E), Parks(r), ~r.parked
    PROVE  FirstMissing(r) = Edge(r)
PROOF
<1>1. r.cur \in Assembly /\ Fits(r.cur)
  BY DEF ReaderOK, ReaderState
<1>2. /\ EndOf(r.cur) \in Nat /\ Front(r.cur) \in Nat /\ Front(r.cur) <= EndOf(r.cur)
      /\ r.cur.on => Front(r.cur) # EndOf(r.cur)
  BY <1>1, FrontOK DEF Parks
<1>3. r.cur.on => Smaller(Front(r.cur), EndOf(r.cur) - 1) = Front(r.cur)
  BY <1>2 DEF Smaller
<1> QED BY <1>3 DEF FirstMissing, Edge

\* Stepping over samples addressed to others passes no own seqno.
LEMMA StepOverSafe ==
    ASSUME NEW t, TopicOK(t), NEW p, NEW r, NEW j, NEW x \in Edges(t, p), Safe(t, p, r, j, x)
    PROVE  x <= StepOver(t, p, x) /\ Safe(t, p, r, j, StepOver(t, p, x))
PROOF
<1>0. x \in Nat /\ x <= NextSeqno(t) /\ NextSeqno(t) \in Nat
  BY EdgesOK, TopicFacts DEF Edges
<1>1. CASE \E i \in Cached(t) : Covers(t.smp[i], x) /\ Foreign(t.smp[i], p)
  <2> DEFINE J == {k \in Cached(t) : t.smp[k].base > x /\ ~Foreign(t.smp[k], p)}
             S == {t.smp[i].base : i \in J} \cup {NextSeqno(t)}
             n == StepOver(t, p, x)
  <2>1. n = Min(S)
    BY <1>1 DEF StepOver
  <2>2. J \subseteq 1 .. Len(t.smp) /\ \A k \in J : t.smp[k].base > x
    BY TopicFacts
  <2>3. \A k \in Cached(t) : t.smp[k].base > x /\ ~Foreign(t.smp[k], p) => t.smp[k].base \in S
    OBVIOUS
  <2> HIDE DEF J
  <2>4. S \in SUBSET Nat /\ S # {} /\ NextSeqno(t) \in S /\ \A s \in S : x <= s
    BY <1>0, <2>2, TopicFacts
  <2> HIDE DEF S
  <2>5. n \in S /\ n \in Nat /\ \A s \in S : n <= s
    BY <2>1, <2>4, MinNat
  <2> HIDE DEF n
  <2>6. ASSUME NEW y \in Nat, x <= y, y < n PROVE ~Own(t, p, y)
    <3> SUFFICES ASSUME NEW k \in 1 .. Len(t.smp), Covers(t.smp[k], y), ~Foreign(t.smp[k], p) PROVE FALSE
      BY DEF Own
    <3>1. PICK i \in Cached(t) : Covers(t.smp[i], x) /\ Foreign(t.smp[i], p)
      BY <1>1
    <3>2. /\ i \in 1 .. Len(t.smp) /\ i # k
          /\ t.smp[i].base \in Nat /\ EndOf(t.smp[i]) \in Nat /\ t.smp[i].base <= x /\ x < EndOf(t.smp[i])
          /\ t.smp[k].base \in Nat /\ EndOf(t.smp[k]) \in Nat /\ t.smp[k].base <= y /\ y < EndOf(t.smp[k])
      BY <3>1, TopicFacts DEF Covers
    <3>3. i < k
      <4>1. CASE k < i
        <5>1. EndOf(t.smp[k]) <= t.smp[i].base
          BY <3>2, <4>1 DEF TopicOK
        <5> QED BY <2>6, <3>2, <5>1, <1>0
      <4> QED BY <3>2, <4>1
    <3>4. EndOf(t.smp[i]) <= t.smp[k].base
      BY <3>2, <3>3 DEF TopicOK
    <3>5. k \in Cached(t)
      <4>1. t.lo \in Nat
        BY DEF TopicOK, TopicState
      <4> QED BY <3>1, <3>3, <4>1 DEF Cached
    <3>6. n <= t.smp[k].base
      BY <2>3, <2>5, <3>2, <3>4, <3>5, <1>0
    <3> QED BY <2>5, <2>6, <3>2, <3>6
  <2>7. Safe(t, p, r, j, n)
    <3> SUFFICES ASSUME NEW y \in Nat, y < n, Own(t, p, y) PROVE y < Larger(Edge(r), j)
      BY DEF Safe
    <3>1. y < x
      BY <1>0, <2>6
    <3> QED BY <3>1 DEF Safe
  <2> QED BY <2>4, <2>5, <2>7 DEF n
<1>2. CASE ~\E i \in Cached(t) : Covers(t.smp[i], x) /\ Foreign(t.smp[i], p)
  <2>1. StepOver(t, p, x) = x
    BY <1>2 DEF StepOver
  <2> QED BY <1>0, <2>1
<1> QED BY <1>1, <1>2

-----------------------------------------------------------------------------
(* The writer's side of a lane whose reader joined at j: it never stands     *)
(* below j, its acked edge is safe, and what was evicted lies below it.      *)

LaneSide(t, p, w, r, j) ==
    /\ j <= w.acked /\ j <= w.sent /\ \A x \in w.nack : j <= x
    /\ Safe(t, p, r, j, w.acked)
    /\ Released(t, p, w.acked)

LEMMA ReleasedMono ==
    ASSUME NEW t, TopicOK(t), NEW p, NEW x \in Nat, NEW y \in Nat, x <= y, Released(t, p, x)
    PROVE  Released(t, p, y)
PROOF
<1> SUFFICES ASSUME NEW k \in 1 .. (t.lo - 1), ~Foreign(t.smp[k], p) PROVE EndOf(t.smp[k]) <= y
  BY DEF Released
<1>1. EndOf(t.smp[k]) <= x
  BY DEF Released
<1>2. k \in 1 .. Len(t.smp)
  <2>1. t.lo \in Nat /\ Len(t.smp) \in Nat /\ (t.smp = << >> => t.lo = 1) /\ (t.smp # << >> => t.lo <= Len(t.smp))
    BY TopicFacts DEF TopicOK, TopicState
  <2> QED BY <2>1
<1>3. EndOf(t.smp[k]) \in Nat
  BY <1>2, TopicFacts
<1> QED BY <1>1, <1>3

LEMMA SafeAtJoin ==
    ASSUME NEW t, NEW p, NEW r, Edge(r) \in Nat, NEW j \in Nat
    PROVE  Safe(t, p, r, j, j)
  BY DEF Safe, Larger

\* An advance moves the push edge forward.
LEMMA AdvanceSent ==
    ASSUME NEW t, TopicOK(t), NEW p, NEW w, LaneOK(t, p, w)
    PROVE  w.sent <= LaneAdvance(t, p, w).sent
PROOF
<1>0. w.acked \in Edges(t, p) /\ w.sent \in Edges(t, p) /\ w.acked \in Nat /\ w.sent \in Nat
  BY DEF LaneOK, WriterState
<1>1. CASE ~Directed
  BY <1>0, <1>1 DEF LaneAdvance
<1>2. CASE Directed
  <2> DEFINE a == StepOver(t, p, w.acked)
             s == IF w.sent < a THEN a ELSE w.sent
  <2>1. LaneAdvance(t, p, w).sent = IF \E i \in Cached(t) : t.smp[i].base = s THEN StepOver(t, p, s) ELSE s
    BY <1>2 DEF LaneAdvance, LaneOK, WriterState
  <2>2. a \in Edges(t, p) /\ a \in Nat
    BY <1>0, StepOverOK
  <2>3. s \in Edges(t, p) /\ s \in Nat /\ w.sent <= s
    BY <1>0, <2>2
  <2> HIDE DEF s
  <2>4. Safe(t, p, NoReader, s, s)
    BY <2>3, SafeAtJoin DEF Edge, NoReader, NoAsm
  <2>5. StepOver(t, p, s) \in Nat /\ s <= StepOver(t, p, s)
    BY <2>3, <2>4, StepOverOK, StepOverSafe
  <2> QED BY <1>0, <2>1, <2>3, <2>5
<1> QED BY <1>1, <1>2

LEMMA AdvanceSide ==
    ASSUME NEW t, TopicOK(t), NEW p, NEW w, LaneOK(t, p, w), NEW r, NEW j \in Nat, LaneSide(t, p, w, r, j)
    PROVE  LaneSide(t, p, LaneAdvance(t, p, w), r, j)
PROOF
<1> DEFINE v == LaneAdvance(t, p, w)
<1>1. CASE ~Directed
  BY <1>1 DEF LaneAdvance
<1>2. CASE Directed
  <2> DEFINE a == StepOver(t, p, w.acked)
  <2>1. v.acked = a /\ v.nack = w.nack /\ v \in WriterState /\ w.sent <= v.sent
    BY <1>2, AdvanceFields, AdvanceSent
  <2>2. w.acked \in Edges(t, p) /\ w.acked \in Nat /\ w.sent \in Nat /\ v.sent \in Nat
    BY <2>1 DEF LaneOK, WriterState
  <2>3. a \in Nat /\ w.acked <= a /\ Safe(t, p, r, j, a)
    BY <2>2, StepOverOK, StepOverSafe DEF LaneSide
  <2> HIDE DEF a, v
  <2>4. Released(t, p, a)
    BY <2>2, <2>3, ReleasedMono DEF LaneSide
  <2>5. j <= w.acked /\ j <= w.sent /\ \A x \in w.nack : j <= x
    BY DEF LaneSide
  <2>6. LaneSide(t, p, v, r, j)
    BY <2>1, <2>2, <2>3, <2>4, <2>5 DEF LaneSide
  <2> QED BY <2>6 DEF v
<1> QED BY <1>1, <1>2

LEMMA PrunedSide ==
    ASSUME NEW t, TopicOK(t), NEW p, NEW w, LaneOK(t, p, w), NEW r, NEW j \in Nat, LaneSide(t, p, w, r, j)
    PROVE  LaneSide(t, p, Pruned(t, p, w), r, j)
PROOF
<1>1. LaneSide(t, p, LaneAdvance(t, p, w), r, j)
  BY AdvanceSide
<1>2. /\ Pruned(t, p, w).nack \subseteq w.nack
      /\ Pruned(t, p, w).acked = LaneAdvance(t, p, w).acked /\ Pruned(t, p, w).sent = LaneAdvance(t, p, w).sent
  BY PrunedFields
<1>3. \A x \in w.nack : j <= x
  BY DEF LaneSide
<1> QED BY <1>1, <1>2, <1>3 DEF LaneSide

\* A seqno that was sealed and is in no cached sample was evicted.
LEMMA NotFoundBelow ==
    ASSUME NEW t, TopicOK(t), Tiled(t), NEW x \in Nat, x < NextSeqno(t), ~Found(t, x)
    PROVE  x < FirstSeqno(t)
PROOF
<1>1. PICK k \in 1 .. Len(t.smp) : Covers(t.smp[k], x)
  BY DEF Tiled
<1>2. t.smp # << >> /\ Len(t.smp) \in Nat
  BY <1>1, TopicFacts
<1>3. t.lo \in 1 .. Len(t.smp) /\ FirstSeqno(t) = t.smp[t.lo].base
  BY <1>2 DEF TopicOK, FirstSeqno
<1>4. k < t.lo
  BY <1>1, <1>2, <1>3 DEF Found, Cached
<1>5. EndOf(t.smp[k]) <= t.smp[t.lo].base
  BY <1>3, <1>4 DEF TopicOK
<1>6. EndOf(t.smp[k]) \in Nat /\ t.smp[t.lo].base \in Nat
  BY <1>3, TopicFacts
<1> QED BY <1>1, <1>3, <1>5, <1>6 DEF Covers

LEMMA PushedSide ==
    ASSUME NEW t, TopicOK(t), Tiled(t), NEW p, NEW w, LaneOK(t, p, w), w.sent < NextSeqno(t),
           NEW r, NEW j \in Nat, LaneSide(t, p, w, r, j)
    PROVE  LaneSide(t, p, Pushed(t, w), r, j)
PROOF
<1>1. w \in WriterState /\ w.sent \in Nat
  BY DEF LaneOK, WriterState
<1>2. /\ Pushed(t, w).nack = w.nack /\ Pushed(t, w).acked = w.acked
      /\ Pushed(t, w).sent = IF Found(t, w.sent) THEN w.sent + 1 ELSE FirstSeqno(t)
  BY <1>1, PushedFields
<1>3. FirstSeqno(t) \in Nat /\ (~Found(t, w.sent) => w.sent < FirstSeqno(t))
  BY <1>1, TopicFacts, NotFoundBelow
<1>4. j <= Pushed(t, w).sent
  BY <1>1, <1>2, <1>3 DEF LaneSide
<1> QED BY <1>2, <1>4 DEF LaneSide

LEMMA RepairedSide ==
    ASSUME NEW t, NEW p, NEW w \in WriterState, NEW r, NEW j \in Nat, LaneSide(t, p, w, r, j)
    PROVE  LaneSide(t, p, Repaired(t, w), r, j)
PROOF
<1>1. /\ Repaired(t, w).nack \subseteq w.nack
      /\ Repaired(t, w).acked = w.acked /\ Repaired(t, w).sent = w.sent
  BY RepairedFields
<1> QED BY <1>1 DEF LaneSide

\* The floor a heartbeat advertises is safe: what is for the reader and was evicted
\* it has acked.
LEMMA FloorSafe ==
    ASSUME NEW t, TopicOK(t), NEW p, NEW w, LaneOK(t, p, w), NEW r, NEW j \in Nat, LaneSide(t, p, w, r, j)
    PROVE  Safe(t, p, r, j, HbFirst(t, w))
PROOF
<1>1. CASE ~(w.acked < FirstSeqno(t))
  BY <1>1 DEF HbFirst, LaneSide
<1>2. CASE w.acked < FirstSeqno(t)
  <2>1. HbFirst(t, w) = FirstSeqno(t) /\ FirstSeqno(t) \in Nat /\ w.acked \in Nat
    BY <1>2, TopicFacts DEF HbFirst, LaneOK, WriterState
  <2>2. SUFFICES ASSUME NEW y \in Nat, y < FirstSeqno(t), Own(t, p, y) PROVE y < w.acked
    BY <2>1, <2>2 DEF Safe, LaneSide
  <2>3. PICK k \in 1 .. Len(t.smp) : Covers(t.smp[k], y) /\ ~Foreign(t.smp[k], p)
    BY <2>2 DEF Own
  <2>4. t.smp # << >> /\ Len(t.smp) \in Nat
    BY <2>3, TopicFacts
  <2>5. t.lo \in 1 .. Len(t.smp) /\ FirstSeqno(t) = t.smp[t.lo].base
    BY <2>4 DEF TopicOK, FirstSeqno
  <2>6. /\ t.smp[t.lo].base \in Nat /\ t.smp[k].base \in Nat /\ EndOf(t.smp[k]) \in Nat /\ EndOf(t.smp[t.lo]) \in Nat
        /\ t.smp[t.lo].base < EndOf(t.smp[t.lo])
    BY <2>5, TopicFacts
  <2>7. k < t.lo
    <3>1. t.lo < k => EndOf(t.smp[t.lo]) <= t.smp[k].base
      BY <2>5 DEF TopicOK
    <3> QED BY <2>2, <2>3, <2>5, <2>6, <3>1 DEF Covers
  <2>8. EndOf(t.smp[k]) <= w.acked
    BY <2>3, <2>5, <2>7 DEF LaneSide, Released
  <2> QED BY <2>1, <2>3, <2>6, <2>8 DEF Covers
<1> QED BY <1>1, <1>2

\* A sample that holds a seqno at or past an edge starts at or past that edge.
LEMMA DataBase ==
    ASSUME NEW t, TopicOK(t), NEW j \in Nat, Between(t, j), NEW x \in Nat, j <= x, Found(t, x)
    PROVE  j <= Find(t, x).base
PROOF
<1>1. PICK k \in Cached(t) : Find(t, x) = t.smp[k] /\ Covers(t.smp[k], x)
  BY FindOK
<1>2. k \in 1 .. Len(t.smp) /\ t.smp[k].base \in Nat /\ EndOf(t.smp[k]) \in Nat
  BY <1>1, TopicFacts
<1>3. ~(t.smp[k].base < j /\ j < EndOf(t.smp[k]))
  BY <1>2 DEF Between
<1> QED BY <1>1, <1>2, <1>3 DEF Covers

-----------------------------------------------------------------------------
(* The reader's side: as long as its floors are safe and it has memory, it   *)
(* passes no own seqno without handing it up.                                *)

ReaderSide(t, p, r, j) == Parks(r) /\ (r.started => j <= r.start /\ Handed(t, p, r))

LEMMA HandedMove ==
    ASSUME NEW t, NEW p, NEW r \in ReaderState, NEW q \in ReaderState, Moves(r, q), Handed(t, p, r),
           \A x \in Nat : r.upto <= x /\ x < q.upto /\ Own(t, p, x) => HandedUp(q, x)
    PROVE  Handed(t, p, q)
PROOF
<1> SUFFICES ASSUME NEW y \in Nat, q.start <= y, y < q.upto, Own(t, p, y) PROVE HandedUp(q, y)
  BY DEF Handed
<1>1. r.upto \in Nat /\ q.start = r.start
  BY DEF ReaderState, Moves
<1>2. CASE y < r.upto
  <2>1. HandedUp(r, y)
    BY <1>1, <1>2 DEF Handed
  <2>2. PICK i \in 1 .. Len(r.log) : Covers(r.log[i], y)
    BY <2>1 DEF HandedUp
  <2>3. Len(r.log) \in Nat /\ Len(q.log) \in Nat /\ Len(r.log) <= Len(q.log) /\ q.log[i] = r.log[i]
    BY <2>2 DEF ReaderState, Moves
  <2> QED BY <2>2, <2>3 DEF HandedUp
<1>3. CASE r.upto <= y
  BY <1>3
<1> QED BY <1>1, <1>2, <1>3

\* The head is a sample for this reader, to its last fragment.
LEMMA HeadOwn ==
    ASSUME NEW t, TopicOK(t), NEW p, NEW r, ReaderOK(r, Deliverable(t, p), Edges(t, p)), r.cur.on
    PROVE  /\ EndOf(r.cur) - 1 \in Nat /\ Own(t, p, EndOf(r.cur) - 1)
           /\ r.cur.base = r.upto /\ EndOf(r.cur) = r.cur.base + r.cur.count
           /\ r.cur.base \in Nat /\ r.cur.count \in Nat
PROOF
<1>1. r.cur.base = r.upto /\ AsDelivery(r.cur) \in Deliverable(t, p)
  BY DEF ReaderOK, Slots, Genuine
<1>2. PICK k \in {i \in 1 .. Len(t.smp) : ~Foreign(t.smp[i], p)} : AsDelivery(r.cur) = AsDelivery(t.smp[k])
  BY <1>1 DEF Deliverable
<1>3. r.cur.base = t.smp[k].base /\ EndOf(r.cur) = EndOf(t.smp[k]) /\ r.cur.count = t.smp[k].count
  BY <1>2 DEF AsDelivery, EndOf
<1>4. t.smp[k].base \in Nat /\ EndOf(t.smp[k]) \in Nat /\ t.smp[k].base < EndOf(t.smp[k]) /\ t.smp[k].count \in Nat
      /\ EndOf(t.smp[k]) = t.smp[k].base + t.smp[k].count
  BY <1>2, TopicFacts
<1> QED BY <1>1, <1>2, <1>3, <1>4 DEF Own, Covers

\* A safe floor skips nothing but what is addressed to others.
LEMMA HbNoOwn ==
    ASSUME NEW t, TopicOK(t), Tiled(t), NEW p, NEW r, ReaderOK(r, Deliverable(t, p), Edges(t, p)), Parks(r),
           NEW j \in Nat, j <= r.start, NEW m, m.first \in Nat, m.first <= NextSeqno(t),
           Safe(t, p, r, j, m.first), HbSkips(r, m)
    PROVE  /\ HbTarget(r, m) = m.first
           /\ \A x \in Nat : r.upto <= x /\ x < m.first => ~Own(t, p, x)
PROOF
<1>1. /\ Edge(r) \in Nat /\ r.upto \in Nat /\ r.upto <= Edge(r)
      /\ r.cur.on => Edge(r) < EndOf(r.cur) /\ Edge(r) <= Front(r.cur) /\ EndOf(r.cur) \in Nat
      /\ ~r.cur.on => Edge(r) = r.upto
  BY EdgeOK, SizedDeliverable
<1>2. r.start \in Nat /\ r.start <= r.upto
  BY DEF ReaderOK, ReaderState, Accounted
<1>3. \A y \in Nat : y < m.first /\ Own(t, p, y) => y < Edge(r)
  BY <1>1, <1>2 DEF Safe, Larger
<1>4. r.upto < m.first /\ ((r.cur.on \/ r.parked) => m.first >= r.upto + r.cur.count)
  BY <1>1 DEF HbSkips
<1>5. ~r.cur.on
  <2>1. SUFFICES ASSUME r.cur.on PROVE FALSE
    OBVIOUS
  <2>2. /\ EndOf(r.cur) - 1 \in Nat /\ Own(t, p, EndOf(r.cur) - 1)
        /\ r.cur.base = r.upto /\ EndOf(r.cur) = r.cur.base + r.cur.count
        /\ r.cur.base \in Nat /\ r.cur.count \in Nat
    BY <2>1, HeadOwn
  <2>3. EndOf(r.cur) - 1 < m.first
    BY <1>4, <2>1, <2>2
  <2>4. EndOf(r.cur) - 1 < Edge(r)
    BY <1>3, <2>2, <2>3
  <2> QED BY <1>1, <2>1, <2>2, <2>4
<1>6. \A x \in Nat : r.upto <= x /\ x < m.first => ~Own(t, p, x)
  BY <1>1, <1>3, <1>5
<1>7. Directed
  <2>1. SUFFICES ASSUME ~Directed PROVE FALSE
    OBVIOUS
  <2>2. NextSeqno(t) \in Nat
    BY TopicFacts
  <2>3. PICK k \in 1 .. Len(t.smp) : Covers(t.smp[k], r.upto)
    BY <1>1, <1>4, <2>2 DEF Tiled
  <2>4. Own(t, p, r.upto)
    BY <2>1, <2>3 DEF Own, Foreign
  <2> QED BY <1>1, <1>4, <1>6, <2>4
<1> QED BY <1>6, <1>7 DEF HbTarget

LEMMA HbSide ==
    ASSUME NEW t, TopicOK(t), Tiled(t), NEW p, NEW r, ReaderOK(r, Deliverable(t, p), Edges(t, p)),
           NEW j \in Nat, ReaderSide(t, p, r, j), NEW acc \in 0 .. 2,
           NEW m, m.first \in Nat, m.last \in Nat, m.first \in Edges(t, p), m.last + 1 <= NextSeqno(t),
           Safe(t, p, r, j, m.first)
    PROVE  ReaderSide(t, p, ReaderHb(r, m, acc), j)
PROOF
<1> DEFINE q == ReaderHb(r, m, acc)
           G == Deliverable(t, p)
           E == Edges(t, p)
<1>1. Closed(G, E)
  BY DeliverableClosed
<1>2. m.first <= NextSeqno(t) /\ NextSeqno(t) \in Nat
  BY TopicFacts DEF Edges
<1>3. ~Directed => Larger(m.first, m.last + 1) \in E
  BY <1>2 DEF Edges, Larger, Foreign
<1>4. ReaderOK(q, G, E) /\ Moves(r, q)
  BY <1>1, <1>3, ReaderHbOK
<1>5. /\ Parks(r) => Parks(q)
      /\ \A x \in Nat : r.upto <= x /\ x < q.upto => (HbSkips(r, m) /\ x < HbTarget(r, m)) \/ HandedUp(q, x)
  BY <1>1, <1>3, ReaderHbGrows
<1>6. r \in ReaderState /\ q \in ReaderState /\ q.start = r.start /\ q.started = r.started
  BY <1>4 DEF ReaderOK, Moves
<1> HIDE DEF q
<1>7. ASSUME r.started, NEW x \in Nat, r.upto <= x, x < q.upto, Own(t, p, x) PROVE HandedUp(q, x)
  <2>1. CASE HbSkips(r, m) /\ x < HbTarget(r, m)
    <3>1. /\ HbTarget(r, m) = m.first
          /\ \A y \in Nat : r.upto <= y /\ y < m.first => ~Own(t, p, y)
      BY <1>2, <1>7, <2>1, HbNoOwn DEF ReaderSide
    <3> QED BY <1>7, <2>1, <3>1
  <2> QED BY <1>5, <1>7, <2>1
<1>8. r.started => Handed(t, p, q)
  BY <1>4, <1>6, <1>7, HandedMove DEF ReaderSide
<1> QED BY <1>5, <1>6, <1>8 DEF ReaderSide, q

LEMMA DataSide ==
    ASSUME NEW t, TopicOK(t), NEW p, NEW r, ReaderOK(r, Deliverable(t, p), Edges(t, p)), r.started,
           NEW j \in Nat, ReaderSide(t, p, r, j), NEW acc \in 0 .. 2, NEW m, Fragment(m, Deliverable(t, p))
    PROVE  ReaderSide(t, p, ReaderData(r, m, TRUE, acc), j)
PROOF
<1> DEFINE yes == TRUE
           q == ReaderData(r, m, yes, acc)
           G == Deliverable(t, p)
           E == Edges(t, p)
<1>1. Closed(G, E) /\ acc \in Nat /\ yes \in BOOLEAN /\ yes
  BY DeliverableClosed
<1> HIDE DEF yes
<1>2. ReaderOK(q, G, E) /\ Moves(r, q)
  BY <1>1, ReaderDataOK
<1>3. Through(r, q) /\ (Parks(r) => Parks(q))
  BY <1>1, ReaderDataGrows
<1>4. r \in ReaderState /\ q \in ReaderState /\ q.start = r.start /\ q.started = r.started
  BY <1>2 DEF ReaderOK, Moves
<1> HIDE DEF q
<1>5. Handed(t, p, q)
  BY <1>2, <1>3, <1>4, HandedMove DEF ReaderSide, Through
<1>6. ReaderSide(t, p, q, j)
  BY <1>3, <1>4, <1>5 DEF ReaderSide
<1> QED BY <1>6 DEF q, yes

\* The position adopted from the first fragment is the start: nothing is owed below.
LEMMA AdoptSide ==
    ASSUME NEW t, TopicOK(t), NEW p, NEW r, ReaderOK(r, Deliverable(t, p), Edges(t, p)), ~r.started,
           NEW j \in Nat, ReaderSide(t, p, r, j), NEW acc \in 0 .. 2, NEW m, Fragment(m, Deliverable(t, p)), j <= m.base
    PROVE  ReaderSide(t, p, ReaderData(r, m, TRUE, acc), j)
PROOF
<1> DEFINE yes == TRUE
           q == ReaderData(r, m, yes, acc)
           a == Adopted(r, m.base)
           G == Deliverable(t, p)
           E == Edges(t, p)
<1>1. Closed(G, E) /\ acc \in Nat /\ yes \in BOOLEAN /\ yes
  BY DeliverableClosed
<1> HIDE DEF yes
<1>2. ReaderOK(q, G, E) /\ ReaderOK(a, G, E) /\ Moves(a, q)
  BY <1>1, AdoptOK
<1>3. Through(a, q) /\ (Parks(r) => Parks(q))
  BY <1>1, AdoptGrows
<1>4. a.start = m.base /\ a.upto = m.base /\ a.started
  BY DEF Adopted, ReaderOK, ReaderState
<1>5. a \in ReaderState /\ q \in ReaderState /\ q.start = a.start /\ q.started = a.started /\ m.base \in Nat
  BY <1>2 DEF ReaderOK, Moves, Fragment
<1> HIDE DEF q, a
<1>6. Handed(t, p, a)
  BY <1>4, <1>5 DEF Handed
<1>7. Handed(t, p, q)
  BY <1>2, <1>3, <1>5, <1>6, HandedMove DEF Through
<1>8. ReaderSide(t, p, q, j)
  BY <1>3, <1>4, <1>5, <1>7 DEF ReaderSide
<1> QED BY <1>8 DEF q, yes

\* Flags and timers, and a lane that is tried again.
LEMMA OwnSide ==
    ASSUME NEW t, TopicOK(t), NEW p, NEW r, ReaderOK(r, Deliverable(t, p), Edges(t, p)),
           NEW j \in Nat, ReaderSide(t, p, r, j), NEW acc \in 0 .. 2, NEW due \in BOOLEAN
    PROVE  ReaderSide(t, p, Unpark(r, acc), j) /\ ReaderSide(t, p, AfterEmit(r, due), j)
PROOF
<1> DEFINE q == Unpark(r, acc)
           e == AfterEmit(r, due)
           G == Deliverable(t, p)
           E == Edges(t, p)
           no == FALSE
<1>1. Closed(G, E) /\ acc \in Nat /\ no \in BOOLEAN
  BY DeliverableClosed
<1>2. ReaderOK(q, G, E) /\ Moves(r, q) /\ ReaderOK(e, G, E) /\ Moves(r, e)
  BY <1>1, UnparkOK, AfterEmitOK
<1> HIDE DEF no
<1>3. SameLane(r, e)
  BY <1>1, AfterEmitSame
<1>4. /\ r \in ReaderState /\ q \in ReaderState /\ q.start = r.start /\ q.started = r.started
      /\ e \in ReaderState /\ e.start = r.start /\ e.started = r.started
  BY <1>2 DEF ReaderOK, Moves
<1>5. Through(r, q) /\ Parks(q)
  BY <1>1, UnparkGrows
<1>6. Through(r, e) /\ (Parks(r) => Parks(e))
  BY <1>3, <1>4, SameLaneGrows
<1> HIDE DEF q, e
<1>7. r.started => Handed(t, p, q)
  BY <1>2, <1>4, <1>5, HandedMove DEF ReaderSide, Through
<1>8. r.started => Handed(t, p, e)
  BY <1>2, <1>4, <1>6, HandedMove DEF ReaderSide, Through
<1>9. ReaderSide(t, p, q, j) /\ ReaderSide(t, p, e, j)
  BY <1>4, <1>5, <1>6, <1>7, <1>8 DEF ReaderSide
<1> QED BY <1>9 DEF q, e

-----------------------------------------------------------------------------
(* The inductive invariant of AllDelivered, for a run in which no reader     *)
(* leaves.                                                                   *)

\* the ring is never over its depth, and an undirected topic is sent to all
HistoryFlow(t) ==
    /\ Tiled(t)
    /\ ~Directed => \A k \in 1 .. Len(t.smp) : t.smp[k].dest = DestAll
    /\ Len(t.smp) < t.lo + KeepLast

\* a lane and its reader, which was matched once
LaneFlow(t, p, w, r, j) ==
    /\ w.epoch \in {0, r.epoch}
    /\ ~r.used => w.epoch = 0 /\ r = NoReader
    /\ r.used => 0 < r.epoch
    /\ r.started => w.used
    /\ Between(t, j) /\ j <= NextSeqno(t)
    /\ w.used => LaneSide(t, p, w, r, j)
    /\ ReaderSide(t, p, r, j)

\* what is in flight offers nothing below the join point, and its floors and acks are safe
MsgFlow(t, m, w, r, j) ==
    /\ m.type = "data" => w.used /\ j <= m.base
    /\ m.type = "hb"   => w.used /\ Safe(t, m.lane, r, j, m.first)
    /\ m.type = "nack" => /\ r.used /\ m.epoch = r.epoch
                          /\ ~m.unpos => r.started /\ j <= m.base /\ Safe(t, m.lane, r, j, m.base)

LanesFlow == \A p \in Readers : ~wDormant[p] /\ LaneFlow(topic, p, writer[p], reader[p], join[p])

NetFlow == \A m \in net : MsgFlow(topic, m, writer[m.lane], reader[m.lane], join[m.lane])

FlowInv == HistoryFlow(topic) /\ 1 <= epochs /\ LanesFlow /\ NetFlow

\* A reader that moves forward keeps what is said of it.
LEMMA ReaderFlow ==
    ASSUME IInv, FlowInv, NEW p \in Readers, NEW q,
           ReaderOK(q, Deliverable(topic, p), Edges(topic, p)), Grows(reader[p], q),
           reader[p].used, q.used, reader[p].started => q.started, q.started => writer[p].used,
           ReaderSide(topic, p, q, join[p]),
           reader' = [reader EXCEPT ![p] = q], UNCHANGED <<topic, writer, wDormant, epochs, join>>,
           \A m \in net' : m \in net \/ (m.lane = p /\ MsgFlow(topic, m, writer[p], q, join[p]))
    PROVE  FlowInv'
PROOF
<1>1. /\ TopicOK(topic) /\ reader \in [Readers -> ReaderState] /\ join[p] \in Nat
      /\ ReaderOK(reader[p], Deliverable(topic, p), Edges(topic, p))
  BY DEF IInv, ReadersInv, RestInv
<1>2. reader'[p] = q /\ \A k \in Readers : k # p => reader'[k] = reader[k]
  BY <1>1
<1>3. ASSUME NEW x, Safe(topic, p, reader[p], join[p], x)
      PROVE  Safe(topic, p, q, join[p], x)
  BY <1>1, <1>3, SizedDeliverable, SafeGrows
<1>4. q.epoch = reader[p].epoch
  BY DEF Grows
<1>5. LaneFlow(topic, p, writer[p], reader[p], join[p])
  BY DEF FlowInv, LanesFlow
<1>6. LaneFlow(topic, p, writer[p], q, join[p])
  <2>1. writer[p].used => LaneSide(topic, p, writer[p], q, join[p])
    BY <1>3, <1>5 DEF LaneFlow, LaneSide
  <2> QED BY <2>1, <1>4, <1>5 DEF LaneFlow
<1>7. LanesFlow'
  BY <1>2, <1>6 DEF FlowInv, LanesFlow
<1>8. NetFlow'
  <2>1. SUFFICES ASSUME NEW m \in net'
                 PROVE  MsgFlow(topic, m, writer[m.lane], reader'[m.lane], join[m.lane])
    BY <2>1 DEF NetFlow
  <2>2. CASE m \in net /\ m.lane = p
    <3>1. MsgFlow(topic, m, writer[p], reader[p], join[p])
      BY <2>2 DEF FlowInv, NetFlow
    <3>2. MsgFlow(topic, m, writer[p], q, join[p])
      BY <2>2, <3>1, <1>3, <1>4 DEF MsgFlow
    <3> QED BY <2>2, <3>2, <1>2
  <2>3. CASE m \in net /\ m.lane # p
    <3>1. MsgFlow(topic, m, writer[m.lane], reader[m.lane], join[m.lane]) /\ m.lane \in Readers
      BY <2>3, MessageFields DEF FlowInv, NetFlow, IInv, NetInv
    <3> QED BY <2>3, <3>1, <1>2
  <2> QED BY <2>1, <2>2, <2>3, <1>2
<1> QED BY <1>7, <1>8 DEF FlowInv

\* A lane that moves forward keeps what is said of it.
LEMMA WriterFlow ==
    ASSUME IInv, FlowInv, NEW p \in Readers, NEW w,
           writer[p].used, w.used, w.epoch \in {0, reader[p].epoch}, ~reader[p].used => w.epoch = 0,
           LaneSide(topic, p, w, reader[p], join[p]),
           writer' = [writer EXCEPT ![p] = w], UNCHANGED <<topic, reader, wDormant, epochs, join>>,
           \A m \in net' : m \in net \/ (m.lane = p /\ MsgFlow(topic, m, w, reader[p], join[p]))
    PROVE  FlowInv'
PROOF
<1>1. writer \in [Readers -> WriterState]
  BY DEF IInv, LanesInv
<1>2. writer'[p] = w /\ \A k \in Readers : k # p => writer'[k] = writer[k]
  BY <1>1
<1>3. LaneFlow(topic, p, writer[p], reader[p], join[p])
  BY DEF FlowInv, LanesFlow
<1>4. LaneFlow(topic, p, w, reader[p], join[p])
  BY <1>3 DEF LaneFlow
<1>5. LanesFlow'
  BY <1>2, <1>4 DEF FlowInv, LanesFlow
<1>6. NetFlow'
  <2>1. SUFFICES ASSUME NEW m \in net'
                 PROVE  MsgFlow(topic, m, writer'[m.lane], reader[m.lane], join[m.lane])
    BY <2>1 DEF NetFlow
  <2>2. CASE m \in net /\ m.lane = p
    <3>1. MsgFlow(topic, m, writer[p], reader[p], join[p])
      BY <2>2 DEF FlowInv, NetFlow
    <3>2. MsgFlow(topic, m, w, reader[p], join[p])
      BY <2>2, <3>1 DEF MsgFlow
    <3> QED BY <2>2, <3>2, <1>2
  <2>3. CASE m \in net /\ m.lane # p
    <3>1. MsgFlow(topic, m, writer[m.lane], reader[m.lane], join[m.lane]) /\ m.lane \in Readers
      BY <2>3, MessageFields DEF FlowInv, NetFlow, IInv, NetInv
    <3> QED BY <2>3, <3>1, <1>2
  <2> QED BY <2>1, <2>2, <2>3, <1>2
<1> QED BY <1>5, <1>6 DEF FlowInv

LEMMA InitFlow == Init => FlowInv
PROOF
<1> SUFFICES ASSUME Init PROVE FlowInv
  OBVIOUS
<1>1. topic.smp = << >> /\ topic.lo = 1 /\ Len(topic.smp) = 0 /\ NextSeqno(topic) = 0
  BY DEF Init, EmptyTopic, NextSeqno
<1>2. HistoryFlow(topic)
  BY <1>1, KeepLastAssumption DEF HistoryFlow, Tiled
<1>3. ASSUME NEW p \in Readers PROVE ~wDormant[p] /\ LaneFlow(topic, p, writer[p], reader[p], join[p])
  <2>1. writer[p] = NoWriter /\ reader[p] = NoReader /\ join[p] = 0 /\ ~wDormant[p]
    BY DEF Init
  <2>2. ~NoReader.used /\ ~NoReader.started /\ NoReader.epoch = 0 /\ ~NoWriter.used /\ NoWriter.epoch = 0
    BY DEF NoReader, NoWriter
  <2>3. ReaderSide(topic, p, NoReader, 0)
    BY <2>2 DEF ReaderSide, Parks, NoReader, NoAsm, Complete
  <2>4. Between(topic, 0)
    BY <1>1 DEF Between
  <2> QED BY <1>1, <2>1, <2>2, <2>3, <2>4 DEF LaneFlow
<1> QED BY <1>2, <1>3 DEF Init, FlowInv, LanesFlow, NetFlow

-----------------------------------------------------------------------------
(* The writer's steps. *)

\* A step that only loses datagrams.
LEMMA LoseFlow ==
    ASSUME FlowInv, UNCHANGED <<topic, writer, reader, wDormant, epochs, join>>, net' \subseteq net
    PROVE  FlowInv'
  BY DEF FlowInv, LanesFlow, NetFlow

LEMMA EmitFlow ==
    ASSUME IInv, FlowInv, NEW p \in Readers, writer[p].used, NEW w, SameTie(writer[p], w),
           LaneSide(topic, p, w, reader[p], join[p]),
           NEW m, m.lane = p, MsgFlow(topic, m, w, reader[p], join[p]), Emit(p, w, m)
    PROVE  FlowInv'
PROOF
<1>1. /\ w.used /\ w.epoch \in {0, reader[p].epoch} /\ (~reader[p].used => w.epoch = 0)
  BY DEF FlowInv, LanesFlow, LaneFlow, SameTie
<1>2. /\ writer' = [writer EXCEPT ![p] = w] /\ net' = net \cup {m}
      /\ UNCHANGED <<topic, reader, wDormant, epochs, join>>
  BY DEF Emit
<1>3. \A k \in net' : k \in net \/ (k.lane = p /\ MsgFlow(topic, k, w, reader[p], join[p]))
  BY <1>2
<1> QED BY <1>1, <1>2, <1>3, WriterFlow

\* What a lane sends starts at or past its join point, and its floor is safe.
LEMMA SendsFlow ==
    ASSUME IInv, FlowInv, NEW p \in Readers, NEW w, w.used
    PROVE  /\ \A x \in Nat, ask \in BOOLEAN : Found(topic, x) /\ join[p] <= x =>
                 LET m == DataMsg(p, Find(topic, x), x, ask)
                 IN  m.lane = p /\ MsgFlow(topic, m, w, reader[p], join[p])
           /\ \A v : LaneOK(topic, p, v) /\ LaneSide(topic, p, v, reader[p], join[p]) =>
                 Heartbeat(p, v).lane = p /\ MsgFlow(topic, Heartbeat(p, v), w, reader[p], join[p])
PROOF
<1>1. TopicOK(topic) /\ join[p] \in Nat /\ Between(topic, join[p])
  BY DEF IInv, RestInv, FlowInv, LanesFlow, LaneFlow
<1>2. ASSUME NEW x \in Nat, NEW ask \in BOOLEAN, Found(topic, x), join[p] <= x, NEW m, m = DataMsg(p, Find(topic, x), x, ask)
      PROVE  m.lane = p /\ MsgFlow(topic, m, w, reader[p], join[p])
  <2>1. m.lane = p /\ m.type = "data" /\ m.base = Find(topic, x).base
    BY <1>2 DEF DataMsg
  <2>2. join[p] <= Find(topic, x).base
    BY <1>1, <1>2, DataBase
  <2> QED BY <2>1, <2>2 DEF MsgFlow
<1>3. ASSUME NEW v, LaneOK(topic, p, v), LaneSide(topic, p, v, reader[p], join[p]), NEW m, m = Heartbeat(p, v)
      PROVE  m.lane = p /\ MsgFlow(topic, m, w, reader[p], join[p])
  <2>1. m.lane = p /\ m.type = "hb" /\ m.first = HbFirst(topic, v)
    BY <1>3 DEF Heartbeat, HbMsg
  <2>2. Safe(topic, p, reader[p], join[p], HbFirst(topic, v))
    BY <1>1, <1>3, FloorSafe
  <2> QED BY <2>1, <2>2 DEF MsgFlow
<1> QED BY <1>2, <1>3

LEMMA WriterEmitFlow ==
    ASSUME IInv, FlowInv, NEW p \in Readers, NEW ask \in BOOLEAN,
           EmitRepair(p) \/ EmitFloor(p) \/ EmitPush(p, ask) \/ EmitHeartbeat(p)
    PROVE  FlowInv'
PROOF
<1> DEFINE w == Pruned(topic, p, writer[p])
           r == reader[p]
           j == join[p]
<1>1. /\ TopicOK(topic) /\ Tiled(topic) /\ LaneOK(topic, p, writer[p]) /\ j \in Nat /\ writer[p].used
  BY DEF IInv, LanesInv, RestInv, FlowInv, HistoryFlow, EmitRepair, EmitFloor, EmitPush, EmitHeartbeat, Emittable
<1>2. LaneSide(topic, p, writer[p], r, j)
  BY <1>1 DEF FlowInv, LanesFlow, LaneFlow
<1>3. /\ LaneOK(topic, p, w) /\ LaneSide(topic, p, w, r, j) /\ w \in WriterState /\ SameTie(writer[p], w)
      /\ w.nack # {} => Min(w.nack) \in w.nack /\ Min(w.nack) \in Nat
  BY <1>1, <1>2, PrunedOK, PrunedFields, PrunedSide
<1> HIDE DEF w
<1>4. w.used /\ w.sent \in Nat /\ j <= w.sent /\ \A x \in w.nack : j <= x
  BY <1>1, <1>3 DEF SameTie, WriterState, LaneSide
<1>5. ASSUME NEW v, SameTie(w, v), LaneSide(topic, p, v, r, j),
             NEW m, m.lane = p, MsgFlow(topic, m, v, r, j), Emit(p, v, m)
      PROVE  FlowInv'
  <2>1. SameTie(writer[p], v)
    BY <1>3, <1>5 DEF SameTie
  <2> QED BY <1>1, <1>5, <2>1, EmitFlow
<1>6. ASSUME NEW v, SameTie(w, v) PROVE v.used
  BY <1>4, <1>6 DEF SameTie
<1>7. CASE EmitRepair(p)
  <2> DEFINE x == Min(w.nack)
             no == FALSE
  <2>1. PICK v : v = Repaired(topic, w)
    OBVIOUS
  <2>2. PICK m : m = IF Found(topic, x) THEN DataMsg(p, Find(topic, x), x, no) ELSE Heartbeat(p, w)
    OBVIOUS
  <2>3. Emit(p, v, m) /\ w.nack # {}
    BY <1>7, <2>1, <2>2 DEF EmitRepair, w
  <2>4. SameTie(w, v) /\ LaneSide(topic, p, v, r, j)
    BY <1>1, <1>3, <2>1, RepairedFields, RepairedSide
  <2>5. x \in Nat /\ j <= x /\ no \in BOOLEAN /\ v.used
    BY <1>3, <1>4, <1>6, <2>3, <2>4
  <2> HIDE DEF x, no
  <2>6. m.lane = p /\ MsgFlow(topic, m, v, r, j)
    BY <1>3, <2>2, <2>5, SendsFlow
  <2> QED BY <1>5, <2>3, <2>4, <2>6
<1>8. CASE EmitFloor(p)
  <2>1. PICK v : v = [w EXCEPT !.skipHb = FALSE]
    OBVIOUS
  <2>2. Emit(p, v, Heartbeat(p, w))
    BY <1>8, <2>1 DEF EmitFloor, w
  <2>3. v.used = w.used /\ v.epoch = w.epoch /\ v.acked = w.acked /\ v.sent = w.sent /\ v.nack = w.nack
    BY <1>3, <2>1 DEF WriterState
  <2>4. SameTie(w, v) /\ LaneSide(topic, p, v, r, j)
    BY <1>3, <2>3 DEF SameTie, LaneSide
  <2>5. Heartbeat(p, w).lane = p /\ MsgFlow(topic, Heartbeat(p, w), v, r, j)
    BY <1>3, <1>6, <2>4, SendsFlow
  <2> QED BY <1>5, <2>2, <2>4, <2>5
<1>9. CASE EmitPush(p, ask)
  <2> DEFINE x == w.sent
  <2>1. PICK v : v = Pushed(topic, w)
    OBVIOUS
  <2>2. PICK m : m = IF Found(topic, x) THEN DataMsg(p, Find(topic, x), x, ask) ELSE Heartbeat(p, v)
    OBVIOUS
  <2>3. Emit(p, v, m) /\ x < NextSeqno(topic)
    BY <1>9, <2>1, <2>2 DEF EmitPush, w
  <2>4. SameTie(w, v) /\ LaneSide(topic, p, v, r, j)
    BY <1>1, <1>3, <2>1, <2>3, PushedFields, PushedSide
  <2>5. LaneOK(topic, p, v)
    <3>1. \A k \in Cached(topic) : Covers(topic.smp[k], w.sent) => ~Foreign(topic.smp[k], p)
      BY <1>1, PrunedOK DEF w
    <3> QED BY <1>1, <1>3, <2>1, <3>1, PushedOK
  <2>6. x \in Nat /\ j <= x /\ v.used
    BY <1>4, <1>6, <2>4
  <2> HIDE DEF x
  <2>7. m.lane = p /\ MsgFlow(topic, m, v, r, j)
    BY <2>2, <2>4, <2>5, <2>6, SendsFlow
  <2> QED BY <1>5, <2>3, <2>4, <2>7
<1>10. CASE EmitHeartbeat(p)
  <2>1. Emit(p, w, Heartbeat(p, w))
    BY <1>10 DEF EmitHeartbeat, w
  <2>2. SameTie(w, w)
    BY DEF SameTie
  <2>3. Heartbeat(p, w).lane = p /\ MsgFlow(topic, Heartbeat(p, w), w, r, j)
    BY <1>3, <1>4, SendsFlow
  <2> QED BY <1>3, <1>5, <2>1, <2>2, <2>3
<1> QED BY <1>7, <1>8, <1>9, <1>10

\* An ACKNACK comes from the one incarnation there is: the lane never rejoins.
LEMMA RecvNackFlow ==
    ASSUME IInv, FlowInv, NEW m \in net, RecvNack(m)
    PROVE  FlowInv'
PROOF
<1> DEFINE p == m.lane
           w == writer[p]
           r == reader[p]
           j == join[p]
           n == WriterNack(topic, p, w, m)
           a == IF w.acked < m.base THEN m.base ELSE w.acked
<1>1. m \in Message /\ p \in Readers /\ MsgOK(topic, m) /\ TopicOK(topic) /\ LaneOK(topic, p, w) /\ j \in Nat
  BY MessageFields DEF IInv, NetInv, LanesInv, RestInv
<1>2. NackOK(topic, p, m) /\ m.type = "nack"
  BY <1>1 DEF RecvNack, MsgOK
<1>3. r.used /\ m.epoch = r.epoch /\ w.epoch \in {0, m.epoch}
      /\ (~m.unpos => r.started /\ j <= m.base /\ Safe(topic, p, r, j, m.base))
  BY <1>1, <1>2 DEF FlowInv, NetFlow, MsgFlow, LanesFlow, LaneFlow
<1>4. /\ writer' = [writer EXCEPT ![p] = IF w.used THEN n ELSE w]
      /\ UNCHANGED <<topic, reader, wDormant, epochs>> /\ net' \subseteq net
  BY DEF RecvNack, Taken
<1>5. join' = join
  BY <1>3 DEF RecvNack, IInv, RestInv
<1>6. CASE ~w.used
  <2>1. writer' = writer
    BY <1>4, <1>6 DEF IInv, LanesInv
  <2> QED BY <1>4, <1>5, <2>1, LoseFlow
<1>7. CASE w.used
  <2>1. LaneSide(topic, p, w, r, j)
    BY <1>1, <1>7 DEF FlowInv, LanesFlow, LaneFlow
  <2>2. /\ n \in WriterState /\ n.used = w.used /\ n.epoch = m.epoch
        /\ m.unpos => n.acked = w.acked /\ n.sent = Smaller(w.acked, w.sent) /\ n.nack = w.nack
        /\ ~m.unpos => /\ n.acked = IF Directed THEN StepOver(topic, p, a) ELSE a
                       /\ n.nack \subseteq w.nack \cup m.bits
                       /\ \E u \in WriterState :
                             /\ LaneOK(topic, p, u) /\ u.sent = w.sent /\ u.acked = a
                             /\ n.sent = LaneAdvance(topic, p, u).sent
    BY <1>1, <1>2, <1>3, WriterNackFields
  <2>3. /\ w.acked \in Nat /\ w.sent \in Nat /\ m.base \in Nat /\ m.base \in Edges(topic, p)
        /\ w.acked \in Edges(topic, p) /\ \A x \in m.bits : x \in Nat /\ m.base <= x
    BY <1>1, <1>2 DEF LaneOK, WriterState, NackOK
  <2> HIDE DEF n
  <2>4. LaneSide(topic, p, n, r, j)
    <3>1. CASE m.unpos
      BY <2>1, <2>2, <2>3, <3>1 DEF LaneSide, Smaller
    <3>2. CASE ~m.unpos
      <4>1. a \in Nat /\ a \in Edges(topic, p) /\ w.acked <= a /\ j <= a /\ Safe(topic, p, r, j, a)
        BY <1>3, <2>1, <2>3, <3>2 DEF LaneSide
      <4> HIDE DEF a
      <4>2. n.acked \in Nat /\ a <= n.acked /\ Safe(topic, p, r, j, n.acked)
        BY <1>1, <2>2, <3>2, <4>1, StepOverOK, StepOverSafe
      <4>3. Released(topic, p, n.acked)
        BY <1>1, <2>1, <2>3, <4>1, <4>2, ReleasedMono DEF LaneSide
      <4>4. j <= n.sent
        <5>1. PICK u \in WriterState : /\ LaneOK(topic, p, u) /\ u.sent = w.sent
                                       /\ n.sent = LaneAdvance(topic, p, u).sent
          BY <2>2, <3>2
        <5>2. w.sent <= n.sent /\ n.sent \in Nat
          BY <1>1, <2>2, <5>1, AdvanceSent DEF WriterState
        <5> QED BY <1>1, <2>1, <2>3, <5>2 DEF LaneSide
      <4>5. \A x \in n.nack : j <= x
        BY <1>1, <1>3, <2>1, <2>2, <2>3, <3>2 DEF LaneSide
      <4> QED BY <1>1, <4>1, <4>2, <4>3, <4>4, <4>5 DEF LaneSide
    <3> QED BY <3>1, <3>2
  <2>5. writer' = [writer EXCEPT ![p] = n]
    BY <1>4, <1>7
  <2>6. \A k \in net' : k \in net
    BY <1>4
  <2>7. n.used /\ n.epoch \in {0, r.epoch}
    BY <1>3, <1>7, <2>2
  <2> QED BY <1>1, <1>3, <1>4, <1>5, <1>7, <2>4, <2>5, <2>6, <2>7, WriterFlow
<1> QED BY <1>6, <1>7

-----------------------------------------------------------------------------
(* A send: nothing that was sealed changes, and what it evicts every live    *)
(* reader acked.                                                             *)

LEMMA SealOwn ==
    ASSUME NEW t, TopicOK(t), NEW c \in Nat \ {0}, NEW d \in Readers \cup {DestAll, DestNone}, NEW p,
           NEW y \in Nat, y < NextSeqno(t)
    PROVE  Own(Seal(t, c, d), p, y) <=> Own(t, p, y)
PROOF
<1> DEFINE new == [base |-> NextSeqno(t), count |-> c, dest |-> d]
           u == Seal(t, c, d)
<1>1. u.smp = Append(t.smp, new) /\ t.smp \in Seq(Sample) /\ Len(t.smp) \in Nat /\ NextSeqno(t) \in Nat
  BY SealOK, TopicFacts
<1>2. /\ Len(u.smp) = Len(t.smp) + 1 /\ u.smp[Len(t.smp) + 1] = new
      /\ \A k \in 1 .. Len(t.smp) : u.smp[k] = t.smp[k]
  BY <1>1
<1>3. ~Covers(new, y)
  BY <1>1 DEF Covers
<1> HIDE DEF new, u
<1>4. Own(t, p, y) => Own(u, p, y)
  BY <1>1, <1>2 DEF Own
<1>5. Own(u, p, y) => Own(t, p, y)
  <2>1. SUFFICES ASSUME NEW k \in 1 .. Len(u.smp), Covers(u.smp[k], y), ~Foreign(u.smp[k], p) PROVE Own(t, p, y)
    BY DEF Own
  <2>2. k \in 1 .. Len(t.smp)
    BY <1>1, <1>2, <1>3, <2>1
  <2> QED BY <1>2, <2>1, <2>2 DEF Own
<1> QED BY <1>4, <1>5 DEF u

LEMMA SealHistory ==
    ASSUME NEW t, TopicOK(t), HistoryFlow(t), NEW c \in Nat \ {0}, NEW d \in Dests
    PROVE  HistoryFlow(Seal(t, c, d))
PROOF
<1> DEFINE new == [base |-> NextSeqno(t), count |-> c, dest |-> d]
           u == Seal(t, c, d)
<1>0. d \in Readers \cup {DestAll, DestNone} /\ (~Directed => d = DestAll)
  BY DestsAssumption
<1>1. /\ u.smp = Append(t.smp, new) /\ NextSeqno(u) = NextSeqno(t) + c
      /\ t.smp \in Seq(Sample) /\ Len(t.smp) \in Nat /\ NextSeqno(t) \in Nat
  BY <1>0, SealOK, TopicFacts
<1>2. /\ Len(u.smp) = Len(t.smp) + 1 /\ u.smp[Len(t.smp) + 1] = new
      /\ \A k \in 1 .. Len(t.smp) : u.smp[k] = t.smp[k]
  BY <1>1
<1>3. t.lo \in Nat /\ u.lo = IF Len(u.smp) < t.lo + KeepLast THEN t.lo ELSE t.lo + 1
  BY <1>1 DEF Seal, TopicOK, TopicState
<1>4. new.base = NextSeqno(t) /\ EndOf(new) = NextSeqno(u) /\ new.dest = d
  BY <1>1 DEF EndOf
<1> HIDE DEF new, u
<1>5. Tiled(u)
  <2>1. SUFFICES ASSUME NEW y \in Nat, y < NextSeqno(u) PROVE \E k \in 1 .. Len(u.smp) : Covers(u.smp[k], y)
    BY DEF Tiled
  <2>2. CASE y < NextSeqno(t)
    <3>1. PICK k \in 1 .. Len(t.smp) : Covers(t.smp[k], y)
      BY <2>2 DEF HistoryFlow, Tiled
    <3> QED BY <1>1, <1>2, <3>1
  <2>3. CASE NextSeqno(t) <= y
    <3>1. Covers(u.smp[Len(t.smp) + 1], y)
      BY <1>2, <1>4, <2>1, <2>3 DEF Covers
    <3>2. Len(t.smp) + 1 \in 1 .. Len(u.smp)
      BY <1>1, <1>2
    <3> QED BY <3>1, <3>2
  <2> QED BY <1>1, <2>1, <2>2, <2>3
<1>6. ~Directed => \A k \in 1 .. Len(u.smp) : u.smp[k].dest = DestAll
  <2>1. SUFFICES ASSUME ~Directed, NEW k \in 1 .. Len(u.smp) PROVE u.smp[k].dest = DestAll
    OBVIOUS
  <2>2. k \in 1 .. Len(t.smp) \/ k = Len(t.smp) + 1
    BY <1>1, <1>2
  <2> QED BY <1>0, <1>2, <1>4, <2>1, <2>2 DEF HistoryFlow
<1>7. Len(u.smp) < u.lo + KeepLast
  BY <1>1, <1>2, <1>3, KeepLastAssumption DEF HistoryFlow
<1> QED BY <1>5, <1>6, <1>7 DEF HistoryFlow, u

\* What is said of edges that exist stays true when the history grows.
LEMMA SealKeeps ==
    ASSUME NEW t, TopicOK(t), NEW c \in Nat \ {0}, NEW d \in Readers \cup {DestAll, DestNone}, NEW p, NEW r, NEW j
    PROVE  /\ \A x \in Nat : x <= NextSeqno(t) /\ Safe(t, p, r, j, x) => Safe(Seal(t, c, d), p, r, j, x)
           /\ r.upto \in Nat /\ r.upto <= NextSeqno(t) /\ Handed(t, p, r) => Handed(Seal(t, c, d), p, r)
           /\ j \in Nat /\ Between(t, j) /\ j <= NextSeqno(t)
                => Between(Seal(t, c, d), j) /\ j <= NextSeqno(Seal(t, c, d))
PROOF
<1> DEFINE new == [base |-> NextSeqno(t), count |-> c, dest |-> d]
           u == Seal(t, c, d)
<1>1. /\ u.smp = Append(t.smp, new) /\ NextSeqno(u) = NextSeqno(t) + c
      /\ t.smp \in Seq(Sample) /\ Len(t.smp) \in Nat /\ NextSeqno(t) \in Nat
  BY SealOK, TopicFacts
<1>2. /\ Len(u.smp) = Len(t.smp) + 1 /\ u.smp[Len(t.smp) + 1].base = NextSeqno(t)
      /\ \A k \in 1 .. Len(t.smp) : u.smp[k] = t.smp[k]
  BY <1>1
<1>3. \A y \in Nat : y < NextSeqno(t) => (Own(u, p, y) <=> Own(t, p, y))
  BY SealOwn
<1> HIDE DEF new, u
<1>4. \A x \in Nat : x <= NextSeqno(t) /\ Safe(t, p, r, j, x) => Safe(u, p, r, j, x)
  BY <1>1, <1>3 DEF Safe
<1>5. r.upto \in Nat /\ r.upto <= NextSeqno(t) /\ Handed(t, p, r) => Handed(u, p, r)
  BY <1>1, <1>3 DEF Handed
<1>6. ASSUME j \in Nat, Between(t, j), j <= NextSeqno(t) PROVE Between(u, j) /\ j <= NextSeqno(u)
  <2>1. ASSUME NEW k \in 1 .. Len(u.smp) PROVE ~(u.smp[k].base < j /\ j < EndOf(u.smp[k]))
    <3>1. k \in 1 .. Len(t.smp) \/ k = Len(t.smp) + 1
      BY <1>1, <1>2
    <3>2. CASE k \in 1 .. Len(t.smp)
      BY <1>2, <1>6, <3>2 DEF Between
    <3>3. CASE k = Len(t.smp) + 1
      BY <1>1, <1>2, <1>6, <3>3
    <3> QED BY <3>1, <3>2, <3>3
  <2>2. j <= NextSeqno(u)
    BY <1>1, <1>6
  <2> QED BY <2>1, <2>2 DEF Between
<1> QED BY <1>4, <1>5, <1>6 DEF u

\* A send that waits for the readers it owes evicts nothing they lack.
LEMMA SealReleased ==
    ASSUME NEW t, TopicOK(t), HistoryFlow(t), NEW c \in Nat \ {0}, NEW d \in Readers \cup {DestAll, DestNone},
           NEW p, NEW w, w.used, w.acked \in Nat, ~Owed(t, p, w), Released(t, p, w.acked)
    PROVE  Released(Seal(t, c, d), p, w.acked)
PROOF
<1> DEFINE new == [base |-> NextSeqno(t), count |-> c, dest |-> d]
           u == Seal(t, c, d)
<1>1. u.smp = Append(t.smp, new) /\ t.smp \in Seq(Sample) /\ Len(t.smp) \in Nat
  BY SealOK, TopicFacts
<1>2. Len(u.smp) = Len(t.smp) + 1 /\ \A k \in 1 .. Len(t.smp) : u.smp[k] = t.smp[k]
  BY <1>1
<1>3. t.lo \in Nat /\ u.lo = IF Len(u.smp) < t.lo + KeepLast THEN t.lo ELSE t.lo + 1
  BY <1>1 DEF Seal, TopicOK, TopicState
<1>8. \/ u.lo = t.lo
      \/ u.lo = t.lo + 1 /\ ~(Len(t.smp) + 1 < t.lo + KeepLast)
  BY <1>2, <1>3
<1>9. Len(t.smp) < t.lo + KeepLast /\ KeepLast \in Nat /\ KeepLast > 0
  BY KeepLastAssumption DEF HistoryFlow
<1>4. (t.smp = << >> => t.lo = 1) /\ (t.smp # << >> => t.lo \in 1 .. Len(t.smp))
  BY DEF TopicOK
<1> HIDE DEF new, u
<1>5. SUFFICES ASSUME NEW k \in 1 .. (u.lo - 1), ~Foreign(u.smp[k], p) PROVE EndOf(u.smp[k]) <= w.acked
  BY DEF Released, u
<1>6. CASE k \in 1 .. (t.lo - 1)
  <2>1. k \in 1 .. Len(t.smp)
    BY <1>1, <1>3, <1>4, <1>6
  <2> QED BY <1>2, <1>5, <1>6, <2>1 DEF Released
<1>7. CASE k = t.lo /\ u.lo = t.lo + 1
  <2>1. RingFull(t)
    <3>1. Len(t.smp) \in Nat /\ t.lo \in Nat /\ ~(Len(t.smp) + 1 < t.lo + KeepLast)
      BY <1>1, <1>3, <1>8, <1>7
    <3>2. Len(t.smp) + 1 = t.lo + KeepLast
      BY <1>9, <3>1
    <3> QED BY <3>2 DEF RingFull
  <2>2. t.lo \in 1 .. Len(t.smp)
    <3>1. Len(t.smp) + 1 = t.lo + KeepLast
      BY <2>1 DEF RingFull
    <3> QED BY <1>1, <1>3, <1>9, <1>5, <1>7, <3>1
  <2>3. t.smp[t.lo].dest \in {DestAll, p}
    BY <1>2, <1>5, <1>7, <2>2 DEF Foreign, HistoryFlow
  <2>4. ~(w.acked < EndOf(t.smp[t.lo]))
    BY <2>1, <2>3 DEF Owed
  <2>5. EndOf(t.smp[t.lo]) \in Nat
    BY <2>2, TopicFacts
  <2>6. u.smp[k] = t.smp[t.lo]
    BY <1>2, <1>7, <2>2
  <2> QED BY <2>4, <2>5, <2>6
<1> QED BY <1>3, <1>8, <1>5, <1>6, <1>7

LEMMA SendFlow ==
    ASSUME Patient, IInv, FlowInv, NEW c \in FragCounts, NEW d \in Dests, Send(c, d)
    PROVE  FlowInv'
PROOF
<1>1. c \in Nat \ {0} /\ d \in Readers \cup {DestAll, DestNone}
  BY TopicAssumption, DestsAssumption
<1>2. PICK u : u = Seal(topic, c, d)
  OBVIOUS
<1>3. /\ topic' = u /\ UNCHANGED <<reader, wDormant, epochs, net, join>>
      /\ \A p \in Readers : writer'[p] \in {writer[p], LaneAdvance(u, p, writer[p])}
      /\ \A p \in Readers : ~wDormant[p] => ~Owed(topic, p, writer[p])
  BY <1>2 DEF Send
<1>4. /\ TopicOK(topic) /\ HistoryFlow(topic) /\ TopicOK(u) /\ HistoryFlow(u) /\ NextSeqno(topic) \in Nat
  BY <1>1, <1>2, SealOK, SealHistory, TopicFacts DEF IInv, FlowInv
<1>5. ASSUME NEW p \in Readers
      PROVE  ~wDormant[p] /\ LaneFlow(u, p, writer'[p], reader[p], join[p])
  <2> DEFINE w == writer[p]
             r == reader[p]
             j == join[p]
  <2>1. /\ ~wDormant[p] /\ LaneFlow(topic, p, w, r, j) /\ j \in Nat
        /\ ReaderOK(r, Deliverable(topic, p), Edges(topic, p)) /\ LaneOK(topic, p, w)
    BY DEF FlowInv, LanesFlow, IInv, RestInv, ReadersInv, LanesInv
  <2>2. r.upto \in Nat /\ r.upto <= NextSeqno(topic) /\ w.acked \in Nat /\ w.acked <= NextSeqno(topic)
    BY <1>4, <2>1 DEF ReaderOK, LaneOK, Edges
  <2>3. Between(u, j) /\ j <= NextSeqno(u) /\ ReaderSide(u, p, r, j)
    BY <1>1, <1>2, <1>4, <2>1, <2>2, SealKeeps DEF LaneFlow, ReaderSide
  <2>4. w.used => LaneSide(u, p, w, r, j)
    <3>1. SUFFICES ASSUME w.used PROVE LaneSide(u, p, w, r, j)
      OBVIOUS
    <3>2. LaneSide(topic, p, w, r, j)
      BY <2>1, <3>1 DEF LaneFlow
    <3>3. Safe(u, p, r, j, w.acked)
      BY <1>1, <1>2, <1>4, <2>2, <3>2, SealKeeps DEF LaneSide
    <3>4. Released(u, p, w.acked)
      BY <1>1, <1>2, <1>3, <1>4, <2>1, <2>2, <3>1, <3>2, SealReleased DEF LaneSide
    <3> QED BY <3>2, <3>3, <3>4 DEF LaneSide
  <2>5. LaneOK(u, p, w)
    <3>1. Edges(topic, p) \subseteq Edges(u, p)
      BY <1>1, <1>2, <1>4, SealMono
    <3>2. u.smp # << >>
      <4>1. u.smp = Append(topic.smp, [base |-> NextSeqno(topic), count |-> c, dest |-> d]) /\ topic.smp \in Seq(Sample)
        BY <1>1, <1>2, <1>4, SealOK, TopicFacts
      <4>2. Len(u.smp) = Len(topic.smp) + 1 /\ Len(topic.smp) \in Nat /\ Len(<< >>) = 0
        BY <4>1
      <4> QED BY <4>2
    <3> QED BY <2>1, <3>1, <3>2, LaneMono
  <2>6. PICK v : v = LaneAdvance(u, p, w)
    OBVIOUS
  <2>7. SameTie(w, v) /\ (w.used => LaneSide(u, p, v, r, j))
    BY <1>4, <2>1, <2>4, <2>5, <2>6, AdvanceFields, AdvanceSide
  <2>8. LaneFlow(u, p, w, r, j) /\ LaneFlow(u, p, v, r, j)
    BY <2>1, <2>3, <2>4, <2>7 DEF LaneFlow, SameTie
  <2> QED BY <1>3, <2>1, <2>6, <2>8
<1>6. ASSUME NEW m \in net PROVE MsgFlow(u, m, writer'[m.lane], reader[m.lane], join[m.lane])
  <2> DEFINE p == m.lane
  <2>1. /\ p \in Readers /\ MsgFlow(topic, m, writer[p], reader[p], join[p]) /\ MsgOK(topic, m)
        /\ (m.type = "hb" => m.first \in Nat) /\ (m.type = "nack" => m.base \in Nat)
    BY MessageFields DEF FlowInv, NetFlow, IInv, NetInv
  <2>2. writer'[p].used = writer[p].used
    <3>1. LaneOK(u, p, writer[p]) => SameTie(writer[p], LaneAdvance(u, p, writer[p]))
      BY <1>4, AdvanceFields
    <3>2. LaneAdvance(u, p, writer[p]).used = writer[p].used
      <4>1. writer[p] \in WriterState
        BY <2>1 DEF IInv, LanesInv
      <4> QED BY <4>1 DEF LaneAdvance, WriterState
    <3> QED BY <1>3, <2>1, <3>2
  <2>3. \A x \in Nat : x <= NextSeqno(topic) /\ Safe(topic, p, reader[p], join[p], x)
                          => Safe(u, p, reader[p], join[p], x)
    BY <1>1, <1>2, <1>4, SealKeeps
  <2>4. m.type = "hb" => m.first <= NextSeqno(topic)
    BY <2>1 DEF MsgOK, Edges
  <2>5. m.type = "nack" => m.base <= NextSeqno(topic)
    BY <2>1 DEF MsgOK, NackOK, Edges
  <2> QED BY <2>1, <2>2, <2>3, <2>4, <2>5 DEF MsgFlow
<1>7. LanesFlow' /\ NetFlow'
  BY <1>3, <1>5, <1>6 DEF LanesFlow, NetFlow
<1> QED BY <1>3, <1>4, <1>7 DEF FlowInv

\* The first-match window leaves the history alone.
LEMMA SetFreshFlow ==
    ASSUME FlowInv, NEW b \in BOOLEAN, IInv, SetFresh(b)
    PROVE  FlowInv'
PROOF
<1>1. PICK u : u = topic'
  OBVIOUS
<1>2. /\ u.smp = topic.smp /\ u.lo = topic.lo
      /\ UNCHANGED <<writer, reader, wDormant, epochs, net, join>>
  BY <1>1 DEF SetFresh, IInv, TopicOK, TopicState
<1>3. NextSeqno(u) = NextSeqno(topic)
  BY <1>2 DEF NextSeqno
<1>4. HistoryFlow(u)
  BY <1>2, <1>3 DEF FlowInv, HistoryFlow, Tiled
<1>5. \A p, r, j, x : Safe(topic, p, r, j, x) => Safe(u, p, r, j, x)
  BY <1>2 DEF Safe, Own
<1>6. \A p, r, j : ReaderSide(topic, p, r, j) => ReaderSide(u, p, r, j)
  BY <1>2 DEF ReaderSide, Handed, Own
<1>7. \A p, w, r, j : LaneSide(topic, p, w, r, j) => LaneSide(u, p, w, r, j)
  BY <1>2, <1>5 DEF LaneSide, Released
<1>8. \A j : Between(topic, j) => Between(u, j)
  BY <1>2 DEF Between
<1>9. ASSUME NEW p \in Readers PROVE LaneFlow(u, p, writer[p], reader[p], join[p]) /\ ~wDormant[p]
  BY <1>3, <1>6, <1>7, <1>8 DEF FlowInv, LanesFlow, LaneFlow
<1>10. ASSUME NEW m \in net PROVE MsgFlow(u, m, writer[m.lane], reader[m.lane], join[m.lane])
  BY <1>5 DEF FlowInv, NetFlow, MsgFlow
<1>11. LanesFlow' /\ NetFlow'
  BY <1>1, <1>2, <1>9, <1>10 DEF LanesFlow, NetFlow
<1> QED BY <1>1, <1>2, <1>4, <1>11 DEF FlowInv

\* A reader joins between two samples, past all that was evicted.
LEMMA JoinFlow ==
    ASSUME NEW t, TopicOK(t), NEW p
    PROVE  /\ JoinSeqno(t) \in Nat /\ JoinSeqno(t) <= NextSeqno(t)
           /\ Between(t, JoinSeqno(t)) /\ Released(t, p, JoinSeqno(t))
PROOF
<1> DEFINE replay == {i \in Cached(t) : \/ i + CatchUp > Len(t.smp)
                                        \/ t.fresh /\ ~Directed /\ t.smp[i].base >= t.freshFrom}
           S == {t.smp[i].base : i \in replay} \cup {NextSeqno(t)}
           s == JoinSeqno(t)
<1>1. s \in Nat /\ s \in Edges(t, p)
  BY JoinSeqnoOK
<1>2. s <= NextSeqno(t) /\ NextSeqno(t) \in Nat
  BY <1>1, TopicFacts DEF Edges
<1>3. s = NextSeqno(t) \/ \E i \in Cached(t) : s = t.smp[i].base
  <2>1. s = Min(S)
    BY DEF JoinSeqno
  <2>2. S \in SUBSET Nat /\ S # {}
    BY TopicFacts
  <2>3. s \in S
    BY <2>1, <2>2, MinNat
  <2> QED BY <2>3
<1> HIDE DEF s
<1>4. \A k \in 1 .. Len(t.smp) : /\ t.smp[k].base \in Nat /\ EndOf(t.smp[k]) \in Nat /\ EndOf(t.smp[k]) <= NextSeqno(t)
                                 /\ t.smp[k].base < EndOf(t.smp[k])
  BY TopicFacts
<1>5. Len(t.smp) \in Nat /\ t.lo \in Nat /\ (t.smp = << >> => t.lo = 1) /\ (t.smp # << >> => t.lo \in 1 .. Len(t.smp))
  BY TopicFacts DEF TopicOK, TopicState
<1>6. CASE s = NextSeqno(t)
  <2>1. Between(t, s)
    BY <1>2, <1>4, <1>6 DEF Between
  <2>2. \A k \in 1 .. (t.lo - 1) : k \in 1 .. Len(t.smp)
    BY <1>5
  <2>3. Released(t, p, s)
    BY <1>4, <1>6, <2>2 DEF Released
  <2> QED BY <1>1, <1>2, <2>1, <2>3 DEF s
<1>7. CASE \E i \in Cached(t) : s = t.smp[i].base
  <2>1. PICK i \in Cached(t) : s = t.smp[i].base
    BY <1>7
  <2>2. i \in 1 .. Len(t.smp) /\ t.lo <= i
    BY <1>5, TopicFacts DEF Cached
  <2>3. \A k \in 1 .. Len(t.smp) : /\ k < i => EndOf(t.smp[k]) <= s
                                   /\ i < k => EndOf(t.smp[i]) <= t.smp[k].base
    BY <2>1, <2>2 DEF TopicOK
  <2>4. Between(t, s)
    <3>1. SUFFICES ASSUME NEW k \in 1 .. Len(t.smp), t.smp[k].base < s, s < EndOf(t.smp[k]) PROVE FALSE
      BY DEF Between
    <3>2. k < i \/ k = i \/ i < k
      BY <2>2
    <3>3. CASE k < i
      BY <1>1, <1>4, <2>3, <3>1, <3>3
    <3>4. CASE k = i
      BY <1>4, <2>1, <3>1, <3>4
    <3>5. CASE i < k
      BY <1>4, <2>1, <2>2, <2>3, <3>1, <3>5
    <3> QED BY <3>2, <3>3, <3>4, <3>5
  <2>5. Released(t, p, s)
    <3>1. SUFFICES ASSUME NEW k \in 1 .. (t.lo - 1) PROVE EndOf(t.smp[k]) <= s
      BY DEF Released
    <3>2. k \in 1 .. Len(t.smp) /\ k < i
      BY <1>5, <2>2
    <3> QED BY <2>3, <3>2
  <2> QED BY <1>1, <1>2, <2>4, <2>5 DEF s
<1> QED BY <1>3, <1>6, <1>7

LEMMA WriterMatchFlow ==
    ASSUME IInv, FlowInv, NEW p \in Readers, WriterMatch(p)
    PROVE  FlowInv'
PROOF
<1>1. PICK s : s = JoinSeqno(topic)
  OBVIOUS
<1>2. PICK w : w = JoinedAt(s)
  OBVIOUS
<1>3. TopicOK(topic) /\ ReaderOK(reader[p], Deliverable(topic, p), Edges(topic, p))
      /\ writer \in [Readers -> WriterState] /\ join \in [Readers -> Nat]
  BY DEF IInv, ReadersInv, LanesInv, RestInv
<1>4. s \in Nat /\ s <= NextSeqno(topic) /\ Between(topic, s) /\ Released(topic, p, s)
  BY <1>1, <1>3, JoinFlow
<1>5. w.used /\ w.epoch = 0 /\ w.sent = s /\ w.acked = s /\ w.nack = {}
  BY <1>2 DEF JoinedAt, NoWriter
<1>6. /\ writer' = [writer EXCEPT ![p] = w] /\ join' = [join EXCEPT ![p] = s] /\ ~writer[p].used
      /\ UNCHANGED <<topic, reader, wDormant, epochs, net>>
  BY <1>1, <1>2 DEF WriterMatch
<1>7. Edge(reader[p]) \in Nat
  BY <1>3, EdgeOK, SizedDeliverable
<1>8. LaneSide(topic, p, w, reader[p], s)
  BY <1>4, <1>5, <1>7, SafeAtJoin DEF LaneSide
<1>9. LaneFlow(topic, p, writer[p], reader[p], join[p])
  BY DEF FlowInv, LanesFlow
<1>10. ~reader[p].started
  BY <1>6, <1>9 DEF LaneFlow
<1>11. LaneFlow(topic, p, w, reader[p], s)
  BY <1>4, <1>5, <1>8, <1>9, <1>10 DEF LaneFlow, ReaderSide
<1>12. /\ writer'[p] = w /\ join'[p] = s
       /\ \A k \in Readers : k # p => writer'[k] = writer[k] /\ join'[k] = join[k]
  BY <1>3, <1>6
<1>13. LanesFlow'
  BY <1>6, <1>11, <1>12 DEF FlowInv, LanesFlow
<1>14. NetFlow'
  <2>1. SUFFICES ASSUME NEW m \in net PROVE MsgFlow(topic, m, writer'[m.lane], reader[m.lane], join'[m.lane])
    BY <1>6, <2>1 DEF NetFlow
  <2>2. MsgFlow(topic, m, writer[m.lane], reader[m.lane], join[m.lane]) /\ m.lane \in Readers
    BY MessageFields DEF FlowInv, NetFlow, IInv, NetInv
  <2>3. CASE m.lane # p
    BY <1>12, <2>2, <2>3
  <2>4. CASE m.lane = p
    BY <1>6, <1>10, <2>2, <2>4 DEF MsgFlow
  <2> QED BY <2>3, <2>4
<1> QED BY <1>6, <1>13, <1>14 DEF FlowInv

-----------------------------------------------------------------------------
(* The readers' steps. *)

LEMMA RecvDataFlow ==
    ASSUME MemChoices \subseteq {TRUE}, IInv, FlowInv,
           NEW m \in net, NEW mem \in MemChoices, NEW acc \in 0 .. 2, RecvData(m, mem, acc)
    PROVE  FlowInv'
PROOF
<1> DEFINE p == m.lane
           r == reader[p]
           q == ReaderData(r, m, TRUE, acc)
<1>1. UNCHANGED <<topic, writer, wDormant, epochs, join>> /\ net' \subseteq net
  BY DEF RecvData, Taken
<1>2. mem \in BOOLEAN /\ mem = TRUE
  OBVIOUS
<1>3. reader' = reader \/ GrowsAt(p)
  BY <1>2, RecvDataGrows
<1>4. CASE reader' = reader
  BY <1>1, <1>4, LoseFlow
<1>5. CASE GrowsAt(p)
  <2>1. /\ m \in Message /\ p \in Readers /\ MsgOK(topic, m) /\ TopicOK(topic) /\ join[p] \in Nat
        /\ ReaderOK(r, Deliverable(topic, p), Edges(topic, p)) /\ reader \in [Readers -> ReaderState]
    BY MessageFields DEF IInv, NetInv, ReadersInv, RestInv
  <2>2. m.type = "data" /\ Fragment(m, Deliverable(topic, p))
    BY <2>1 DEF RecvData, MsgOK
  <2>3. writer[p].used /\ join[p] <= m.base /\ ReaderSide(topic, p, r, join[p])
    BY <2>1, <2>2 DEF FlowInv, NetFlow, MsgFlow, LanesFlow, LaneFlow
  <2>4. r.used /\ reader'[p].used
    BY <1>5 DEF GrowsAt
  <2>5. reader'[p] = q
    BY <1>2, <2>1, <2>4 DEF RecvData
  <2>6. ReaderSide(topic, p, q, join[p])
    <3>1. CASE r.started
      BY <2>1, <2>2, <2>3, <3>1, DataSide
    <3>2. CASE ~r.started
      BY <2>1, <2>2, <2>3, <3>2, AdoptSide
    <3> QED BY <3>1, <3>2
  <2>7. r.started => q.started
    <3> DEFINE yes == TRUE
    <3>1. Closed(Deliverable(topic, p), Edges(topic, p)) /\ yes \in BOOLEAN /\ acc \in Nat
      BY <2>1, DeliverableClosed
    <3> HIDE DEF yes
    <3>2. r.started => Moves(r, ReaderData(r, m, yes, acc))
      BY <2>1, <2>2, <3>1, ReaderDataOK
    <3> QED BY <3>2 DEF Moves, yes
  <2> HIDE DEF q
  <2>8. /\ ReaderOK(q, Deliverable(topic, p), Edges(topic, p)) /\ Grows(r, q)
        /\ reader' = [reader EXCEPT ![p] = q] /\ q.used
    BY <1>5, <2>4, <2>5 DEF GrowsAt
  <2> QED BY <1>1, <2>1, <2>3, <2>4, <2>6, <2>7, <2>8, ReaderFlow
<1> QED BY <1>3, <1>4, <1>5

LEMMA RecvHbFlow ==
    ASSUME IInv, FlowInv, NEW m \in net, NEW acc \in 0 .. 2, RecvHb(m, acc)
    PROVE  FlowInv'
PROOF
<1> DEFINE p == m.lane
           r == reader[p]
           q == ReaderHb(r, m, acc)
<1>1. UNCHANGED <<topic, writer, wDormant, epochs, join>> /\ net' \subseteq net
  BY DEF RecvHb, Taken
<1>2. reader' = reader \/ GrowsAt(p)
  BY RecvHbGrows
<1>3. CASE reader' = reader
  BY <1>1, <1>3, LoseFlow
<1>4. CASE GrowsAt(p)
  <2>1. /\ m \in Message /\ p \in Readers /\ MsgOK(topic, m) /\ TopicOK(topic) /\ join[p] \in Nat
        /\ ReaderOK(r, Deliverable(topic, p), Edges(topic, p)) /\ reader \in [Readers -> ReaderState]
    BY MessageFields DEF IInv, NetInv, ReadersInv, RestInv
  <2>2. /\ m.type = "hb" /\ m.first \in Nat /\ m.last \in Nat
        /\ m.first \in Edges(topic, p) /\ m.last + 1 <= NextSeqno(topic)
    BY <2>1, MessageFields DEF RecvHb, MsgOK
  <2>3. /\ writer[p].used /\ Safe(topic, p, r, join[p], m.first) /\ ReaderSide(topic, p, r, join[p])
        /\ Tiled(topic)
    BY <2>1, <2>2 DEF FlowInv, NetFlow, MsgFlow, LanesFlow, LaneFlow, HistoryFlow
  <2>4. r.used /\ reader'[p].used
    BY <1>4 DEF GrowsAt
  <2>5. reader'[p] = q
    BY <2>1, <2>4 DEF RecvHb
  <2>6. ReaderSide(topic, p, q, join[p])
    BY <2>1, <2>2, <2>3, HbSide
  <2>7. r.started => q.started
    <3>1. Closed(Deliverable(topic, p), Edges(topic, p)) /\ acc \in Nat
      BY <2>1, DeliverableClosed
    <3>2. ~Directed => Larger(m.first, m.last + 1) \in Edges(topic, p)
      <4>1. m.first <= NextSeqno(topic) /\ NextSeqno(topic) \in Nat
        BY <2>1, <2>2, TopicFacts DEF Edges
      <4> QED BY <2>2, <4>1 DEF Edges, Larger, Foreign
    <3>3. Moves(r, q)
      BY <2>1, <2>2, <3>1, <3>2, ReaderHbOK
    <3> QED BY <3>3 DEF Moves
  <2> HIDE DEF q
  <2>8. /\ ReaderOK(q, Deliverable(topic, p), Edges(topic, p)) /\ Grows(r, q)
        /\ reader' = [reader EXCEPT ![p] = q] /\ q.used
    BY <1>4, <2>4, <2>5 DEF GrowsAt
  <2> QED BY <1>1, <2>1, <2>3, <2>4, <2>6, <2>7, <2>8, ReaderFlow
<1> QED BY <1>2, <1>3, <1>4

LEMMA ReaderUnparkFlow ==
    ASSUME IInv, FlowInv, NEW p \in Readers, NEW acc \in 0 .. 2, ReaderUnpark(p, acc)
    PROVE  FlowInv'
PROOF
<1> DEFINE r == reader[p]
<1>1. PICK q : q = Unpark(r, acc)
  OBVIOUS
<1>2. /\ reader' = [reader EXCEPT ![p] = q] /\ r.used /\ UNCHANGED <<topic, writer, wDormant, epochs, net, join>>
  BY <1>1 DEF ReaderUnpark
<1>3. /\ TopicOK(topic) /\ join[p] \in Nat /\ ReaderOK(r, Deliverable(topic, p), Edges(topic, p)) /\ acc \in Nat
      /\ LaneFlow(topic, p, writer[p], r, join[p])
  BY DEF IInv, ReadersInv, RestInv, FlowInv, LanesFlow
<1>4. Closed(Deliverable(topic, p), Edges(topic, p))
  BY <1>3, DeliverableClosed
<1>5. /\ ReaderOK(q, Deliverable(topic, p), Edges(topic, p)) /\ Moves(r, q) /\ Grows(r, q)
  BY <1>1, <1>3, <1>4, UnparkOK, UnparkGrows
<1>6. ReaderSide(topic, p, q, join[p])
  <2>1. ReaderSide(topic, p, r, join[p])
    BY <1>3 DEF LaneFlow
  <2> QED BY <1>1, <1>3, <2>1, OwnSide
<1>7. q.used /\ q.started = r.started /\ (r.started => writer[p].used)
  BY <1>2, <1>3, <1>5 DEF Moves, LaneFlow
<1> QED BY <1>2, <1>5, <1>6, <1>7, ReaderFlow

\* An ACKNACK claims the certain edge and no more.
LEMMA ReaderEmitFlow ==
    ASSUME IInv, FlowInv, NEW p \in Readers, NEW due \in BOOLEAN, ReaderEmit(p, due)
    PROVE  FlowInv'
PROOF
<1> DEFINE r == reader[p]
           j == join[p]
<1>1. PICK q : q = AfterEmit(r, due)
  OBVIOUS
<1>2. PICK m : m = AckOf(p, r, due)
  OBVIOUS
<1>3. /\ reader' = [reader EXCEPT ![p] = q] /\ r.used /\ UNCHANGED <<topic, writer, wDormant, epochs, join>>
      /\ net' = net \cup (IF EmitsAck(r, due) THEN {m} ELSE {})
  BY <1>1, <1>2 DEF ReaderEmit
<1>4. /\ TopicOK(topic) /\ j \in Nat /\ ReaderOK(r, Deliverable(topic, p), Edges(topic, p))
      /\ LaneFlow(topic, p, writer[p], r, j)
  BY DEF IInv, ReadersInv, RestInv, FlowInv, LanesFlow
<1>5. ReaderOK(q, Deliverable(topic, p), Edges(topic, p)) /\ Moves(r, q)
  BY <1>1, <1>4, AfterEmitOK
<1>6. Grows(r, q)
  <2> DEFINE no == FALSE
  <2>1. no \in BOOLEAN
    OBVIOUS
  <2> HIDE DEF no
  <2>2. SameLane(r, q)
    BY <1>1, <1>4, <2>1, AfterEmitSame
  <2> QED BY <1>4, <1>5, <2>2, SameLaneGrows DEF ReaderOK
<1>7. ReaderSide(topic, p, r, j) /\ ReaderSide(topic, p, q, j)
  <2>1. ReaderSide(topic, p, r, j) /\ 0 \in 0 .. 2
    BY <1>4 DEF LaneFlow
  <2> QED BY <1>1, <1>4, <2>1, OwnSide
<1>8. q.used /\ q.started = r.started /\ (r.started => writer[p].used) /\ q.epoch = r.epoch
  BY <1>3, <1>4, <1>5, <1>6 DEF Moves, LaneFlow, Grows
<1>9. EmitsAck(r, due) => m.lane = p /\ MsgFlow(topic, m, writer[p], q, j)
  <2>1. SUFFICES ASSUME EmitsAck(r, due) PROVE m.lane = p /\ MsgFlow(topic, m, writer[p], q, j)
    OBVIOUS
  <2>2. CASE ~r.started
    <3>1. m.lane = p /\ m.type = "nack" /\ m.epoch = r.epoch /\ m.unpos
      BY <1>2, <2>2 DEF AckOf, NackMsg
    <3> QED BY <1>8, <3>1 DEF MsgFlow
  <2>3. CASE r.started
    <3>1. m.lane = p /\ m.type = "nack" /\ m.epoch = r.epoch /\ ~m.unpos /\ m.base = FirstMissing(r)
      BY <1>2, <2>3 DEF AckOf, NackMsg
    <3>2. ~r.parked
      BY <2>1 DEF EmitsAck
    <3>3. FirstMissing(r) = Edge(r)
      BY <1>4, <1>7, <3>2, AckIsEdge DEF ReaderSide
    <3>4. Edge(r) \in Nat /\ Edge(q) \in Nat /\ Edge(r) <= Edge(q) /\ r.upto \in Nat /\ r.upto <= Edge(r)
      BY <1>4, <1>5, <1>6, SizedDeliverable, EdgeOK, EdgeGrows
    <3>5. j <= r.start /\ r.start <= r.upto /\ r.start \in Nat
      BY <1>4, <1>7, <2>3 DEF ReaderSide, ReaderOK, Accounted, ReaderState
    <3>6. Safe(topic, p, q, j, Edge(r))
      BY <1>4, <3>4 DEF Safe, Larger
    <3>7. j <= Edge(r)
      BY <1>4, <3>4, <3>5
    <3> QED BY <1>8, <2>3, <3>1, <3>3, <3>6, <3>7 DEF MsgFlow
  <2> QED BY <2>2, <2>3
<1>10. \A k \in net' : k \in net \/ (k.lane = p /\ MsgFlow(topic, k, writer[p], q, j))
  BY <1>3, <1>9
<1> QED BY <1>3, <1>5, <1>6, <1>7, <1>8, <1>10, ReaderFlow

\* A reader that matches has heard nothing yet, and nothing was heard of it.
LEMMA ReaderMatchFlow ==
    ASSUME IInv, FlowInv, NEW p \in Readers, ReaderMatch(p)
    PROVE  FlowInv'
PROOF
<1>1. PICK q : q = Matched(epochs)
  OBVIOUS
<1>2. /\ reader' = [reader EXCEPT ![p] = q] /\ ~reader[p].used /\ epochs' = epochs + 1
      /\ UNCHANGED <<topic, writer, wDormant, net, join>>
  BY <1>1 DEF ReaderMatch
<1>3. /\ LaneFlow(topic, p, writer[p], reader[p], join[p]) /\ 1 <= epochs /\ epochs \in Nat
      /\ reader \in [Readers -> ReaderState]
  BY DEF FlowInv, LanesFlow, IInv, RestInv, ReadersInv
<1>4. reader[p] = NoReader /\ writer[p].epoch = 0
  BY <1>2, <1>3 DEF LaneFlow
<1>5. /\ q.used /\ q.epoch = epochs /\ ~q.started /\ q.cur = NoAsm /\ ~q.parked /\ q.upto = 0
      /\ NoReader.upto = 0 /\ NoReader.cur = NoAsm /\ ~NoAsm.on
  BY <1>1 DEF Matched, NoReader, NoAsm
<1>6. Edge(q) = Edge(reader[p])
  BY <1>4, <1>5 DEF Edge
<1>7. \A x : Safe(topic, p, reader[p], join[p], x) => Safe(topic, p, q, join[p], x)
  BY <1>6 DEF Safe
<1>8. ReaderSide(topic, p, q, join[p])
  BY <1>5 DEF ReaderSide, Parks, Complete
<1>9. LaneFlow(topic, p, writer[p], q, join[p])
  <2>1. writer[p].used => LaneSide(topic, p, writer[p], q, join[p])
    BY <1>3, <1>7 DEF LaneFlow, LaneSide
  <2> QED BY <1>3, <1>4, <1>5, <1>8, <2>1 DEF LaneFlow
<1>10. reader'[p] = q /\ \A k \in Readers : k # p => reader'[k] = reader[k]
  BY <1>2, <1>3
<1>11. LanesFlow'
  BY <1>2, <1>9, <1>10 DEF FlowInv, LanesFlow
<1>12. NetFlow'
  <2>1. SUFFICES ASSUME NEW m \in net PROVE MsgFlow(topic, m, writer[m.lane], reader'[m.lane], join[m.lane])
    BY <1>2, <2>1 DEF NetFlow
  <2>2. MsgFlow(topic, m, writer[m.lane], reader[m.lane], join[m.lane]) /\ m.lane \in Readers
    BY MessageFields DEF FlowInv, NetFlow, IInv, NetInv
  <2>3. CASE m.lane # p
    BY <1>10, <2>2, <2>3
  <2>4. CASE m.lane = p
    BY <1>2, <1>7, <1>10, <2>2, <2>4 DEF MsgFlow
  <2> QED BY <2>3, <2>4
<1>13. HistoryFlow(topic)' /\ 1 <= epochs'
  BY <1>2, <1>3 DEF FlowInv
<1> QED BY <1>11, <1>12, <1>13 DEF FlowInv

-----------------------------------------------------------------------------
\* no reader unmatches
NoLeave == \A p \in Readers : reader[p].used => reader'[p].used

LEMMA NextFlow ==
    ASSUME Patient, ~Sleeps, ~WriterForgets, MemChoices \subseteq {TRUE}
    PROVE  IInv /\ FlowInv /\ [Next]_vars /\ [NoLeave]_vars => FlowInv'
PROOF
<1> SUFFICES ASSUME IInv, FlowInv, [Next]_vars, [NoLeave]_vars PROVE FlowInv'
  OBVIOUS
<1>0. /\ TRUE \in BOOLEAN /\ 0 \in 0 .. 2 /\ AskChoices \subseteq BOOLEAN /\ Accepts \subseteq 0 .. 2
  BY TopicAssumption
<1>1. CASE UNCHANGED vars
  BY <1>1, LoseFlow DEF vars
<1>2. ASSUME NEW n \in FragCounts, NEW d \in Dests, Send(n, d) PROVE FlowInv'
  BY <1>2, SendFlow
<1>3. ASSUME NEW b \in BOOLEAN, SetFresh(b) PROVE FlowInv'
  BY <1>3, SetFreshFlow
<1>4. ASSUME NEW p \in Readers, WriterMatch(p) \/ WriterUnmatch(p) \/ WriterSleep(p) PROVE FlowInv'
  BY <1>4, WriterMatchFlow DEF WriterUnmatch, WriterSleep
<1>5. ASSUME NEW p \in Readers, EmitRepair(p) \/ EmitFloor(p) \/ EmitHeartbeat(p) PROVE FlowInv'
  BY <1>0, <1>5, WriterEmitFlow
<1>6. ASSUME NEW p \in Readers, NEW ask \in AskChoices, EmitPush(p, ask) PROVE FlowInv'
  BY <1>0, <1>6, WriterEmitFlow
<1>7. ASSUME NEW m \in net, RecvNack(m) PROVE FlowInv'
  BY <1>7, RecvNackFlow
<1>8. ASSUME NEW p \in Readers, ReaderMatch(p) \/ ReaderSleep(p) PROVE FlowInv'
  BY <1>8, ReaderMatchFlow DEF ReaderSleep
<1>9. ASSUME NEW p \in Readers, ReaderUnmatch(p) PROVE FlowInv'
  <2>1. reader[p].used /\ ~NoReader.used /\ reader'[p] = NoReader
    BY <1>9 DEF ReaderUnmatch, NoReader, IInv, ReadersInv
  <2>2. NoLeave \/ UNCHANGED vars
    OBVIOUS
  <2>3. ~NoLeave
    BY <1>9, <2>1 DEF NoLeave
  <2> QED BY <2>2, <2>3, <1>1
<1>10. ASSUME NEW p \in Readers, NEW due \in BOOLEAN, ReaderEmit(p, due) PROVE FlowInv'
  BY <1>10, ReaderEmitFlow
<1>11. ASSUME NEW p \in Readers, NEW acc \in Accepts, ReaderUnpark(p, acc) PROVE FlowInv'
  BY <1>0, <1>11, ReaderUnparkFlow
<1>12. ASSUME NEW m \in net, NEW acc \in Accepts, RecvHb(m, acc) PROVE FlowInv'
  BY <1>0, <1>12, RecvHbFlow
<1>13. ASSUME NEW m \in net, NEW acc \in Accepts, NEW mem \in MemChoices, RecvData(m, mem, acc) PROVE FlowInv'
  BY <1>0, <1>13, RecvDataFlow
<1>14. ASSUME NEW m \in net, Lose(m) PROVE FlowInv'
  BY <1>14, LoseFlow DEF Lose
<1>15. CASE WriterNext
  BY <1>15, <1>2, <1>3, <1>4, <1>5, <1>6, <1>7 DEF WriterNext
<1>16. CASE ReaderNext
  BY <1>16, <1>8, <1>9, <1>10, <1>11, <1>12, <1>13 DEF ReaderNext
<1> QED BY <1>1, <1>14, <1>15, <1>16 DEF Next

\* An own seqno that is passed is handed up, and the sample that holds it is the
\* one that was sealed.
LEMMA FlowDelivers == IInv /\ FlowInv => AllDelivered
PROOF
<1> SUFFICES ASSUME IInv, FlowInv, NEW p \in Readers, NEW k \in 1 .. Len(topic.smp),
                    reader[p].started, reader[p].start <= topic.smp[k].base,
                    topic.smp[k].base < reader[p].upto, ~Foreign(topic.smp[k], p)
             PROVE  \E i \in 1 .. Len(reader[p].log) :
                       reader[p].log[i] = [base |-> topic.smp[k].base, count |-> topic.smp[k].count]
  BY DEF AllDelivered
<1> DEFINE s == topic.smp[k]
           r == reader[p]
<1>1. TopicOK(topic) /\ ReaderOK(r, Deliverable(topic, p), Edges(topic, p))
  BY DEF IInv, ReadersInv
<1>2. s.base \in Nat /\ EndOf(s) \in Nat /\ s.base < EndOf(s)
  BY <1>1, TopicFacts
<1>3. Own(topic, p, s.base)
  BY <1>2 DEF Own, Covers
<1>4. Handed(topic, p, r)
  BY DEF FlowInv, LanesFlow, LaneFlow, ReaderSide
<1>5. PICK i \in 1 .. Len(r.log) : Covers(r.log[i], s.base)
  BY <1>2, <1>3, <1>4 DEF Handed, HandedUp
<1>6. PICK n \in 1 .. Len(topic.smp) : r.log[i] = AsDelivery(topic.smp[n])
  BY <1>1 DEF ReaderOK, Genuine, Deliverable
<1>7. topic.smp[n].base <= s.base /\ s.base < EndOf(topic.smp[n])
  BY <1>5, <1>6 DEF Covers, AsDelivery, EndOf
<1>8. n = k
  BY <1>1, <1>2, <1>7, Disjoint
<1> QED BY <1>6, <1>8 DEF AsDelivery

\* A reader of a writer that waits for its readers gets every sample that is for it,
\* from its start on: i_rant_transport_send_would_evict keeps what a live reader has not acked,
\* and neither the floor of i_rant_writer_emit nor the echo of an ack, nor a
\* step over samples of others, makes i_rant_reader_hb skip what is owed. No one
\* leaves, falls dormant or runs out of memory; the network may do anything.
THEOREM PatientIsComplete ==
    ASSUME Patient, ~Sleeps, ~WriterForgets, MemChoices \subseteq {TRUE}
    PROVE  Spec /\ [][NoLeave]_vars => []AllDelivered
PROOF
<1>1. Init => FlowInv
  BY InitFlow
<1>2. IInv /\ FlowInv /\ [Next]_vars /\ [NoLeave]_vars => FlowInv'
  BY NextFlow
<1>3. IInv /\ FlowInv => AllDelivered
  BY FlowDelivers
<1> QED BY <1>1, <1>2, <1>3, Invariance, PTL DEF Spec

=============================================================================
