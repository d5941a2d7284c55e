----------------------------- MODULE SharedProofs -----------------------------
(***************************************************************************)
(* Proofs about SharedTopic: as long as a send waits out its backpressure, *)
(* no reader hands up a torn copy, for any number of readers, any ring     *)
(* depth, any sizes and whatever the network loses, repeats or reorders.   *)
(***************************************************************************)
EXTENDS SharedTopic, ReliableTopicProofs

-----------------------------------------------------------------------------
(* The invariant.                                                          *)

\* sample i went into shared memory, and goes to p as a descriptor
Described(i) == i \in 1 .. Len(topic.smp) /\ sent[i] # Inline
ByDescriptor(p, i) == p \in SameHost /\ Described(i)

\* p may still resolve sample i
Waiting(p, i) ==
    /\ ByDescriptor(p, i)
    /\ writer[p].used
    /\ join[p] <= topic.smp[i].base /\ reader[p].upto <= topic.smp[i].base

\* what may come to p fragment by fragment
InlineFor(p) ==
    {AsDelivery(topic.smp[i]) : i \in {j \in 1 .. Len(topic.smp) :
        join[p] <= topic.smp[j].base /\ ~ByDescriptor(p, j)}}

\* The ring holds the newest samples, one after another, all of them for everybody.
RingOK ==
    /\ TopicOK(topic)
    /\ Len(topic.smp) < topic.lo + KeepLast
    /\ \A i \in 1 .. Len(topic.smp) : topic.smp[i].dest = DestAll
    /\ \A i \in 1 .. (Len(topic.smp) - 1) : EndOf(topic.smp[i]) = topic.smp[i + 1].base
    /\ sent \in Seq([class : Classes \cup {"none"}, chunk : Nat, gen : Nat])
    /\ Len(sent) = Len(topic.smp)

Parts == (Nat \cup {Nobody}) \X (Nat \cup {Nobody})
PoolOK ==
    /\ chunk \in [Classes -> [Chunks -> [gen : Nat, parts : Parts]]]
    /\ gather = Idle \/ gather \in [at : {"half", "full"}, class : Classes]
    /\ gather.at = "half" => chunk[gather.class][Slot].parts[1] = NextSeqno(topic)
    /\ gather.at = "full" => chunk[gather.class][Slot].parts = <<NextSeqno(topic), NextSeqno(topic)>>

\* the oldest sample, whose chunk the next message takes
Overwritten(i) == RingFull(topic) /\ i = topic.lo

\* A sample in the ring is in its chunk, but for one that is being overwritten.
ContentOK ==
    \A i \in Cached(topic) : Described(i) =>
        /\ sent[i].class \in Classes /\ sent[i].chunk = (i - 1) % KeepLast
        /\ ~(gather # Idle /\ Overwritten(i)) =>
               chunk[sent[i].class][sent[i].chunk].parts = <<topic.smp[i].base, topic.smp[i].base>>

\* What p may still resolve is in the ring, not being overwritten, and not acked.
WaitingKept(p) ==
    \A i \in 1 .. Len(topic.smp) : Waiting(p, i) =>
        /\ topic.lo <= i
        /\ gather # Idle => ~Overwritten(i)
        /\ writer[p].acked < EndOf(topic.smp[i])

\* A lane stands between its join point, which is no sample's inside, and the head.
LanePlaced(p) ==
    /\ writer[p] \in WriterState
    /\ join[p] \in Nat /\ join[p] <= NextSeqno(topic)
    /\ \A i \in 1 .. Len(topic.smp) : topic.smp[i].base < join[p] => EndOf(topic.smp[i]) <= join[p]
    /\ IF writer[p].used
       THEN /\ join[p] <= writer[p].acked /\ writer[p].acked <= NextSeqno(topic)
            /\ join[p] <= writer[p].sent
            /\ \A x \in writer[p].nack : join[p] <= x
       ELSE writer[p] = NoWriter
    /\ writer[p].epoch \in {0, reader[p].epoch}
    /\ ~wDormant[p]

\* A reader stands between the join point and the head, and its two slots only hold
\* samples that come in fragments.
Tidy(r, G, j, n) ==
    /\ r \in ReaderState
    /\ Fits(r.cur) /\ Fits(r.nxt)
    /\ r.cur.on => r.started /\ r.cur.base = r.upto /\ AsDelivery(r.cur) \in G
    /\ r.nxt.on => r.started /\ AsDelivery(r.nxt) \in G
    /\ r.upto <= n
    /\ r.started => r.used /\ j <= r.upto
    /\ ~r.started => r.upto = 0
ReaderPlaced(p) ==
    /\ Tidy(reader[p], InlineFor(p), join[p], NextSeqno(topic))
    /\ reader[p].started => writer[p].used
    /\ ~reader[p].used => reader[p].epoch = 0

\* base, count and desc are those of a sample that p, standing at it, may resolve
Names(p, base, count, desc) ==
    \E i \in 1 .. Len(topic.smp) :
        /\ Waiting(p, i)
        /\ base = topic.smp[i].base /\ count = topic.smp[i].count /\ desc = sent[i]
        /\ reader[p].upto = base

\* A parked descriptor, and a resolve in progress, is of the sample the reader is at;
\* what was copied so far is that sample's.
SeatOK(p) ==
    /\ held[p] # Inline =>
          /\ reader[p].started /\ reader[p].parked /\ ~reader[p].cur.on
          /\ Names(p, reader[p].cur.base, reader[p].cur.count, held[p])
    /\ look[p] # Idle =>
          /\ look[p] = [at |-> look[p].at, base |-> look[p].base, count |-> look[p].count,
                        desc |-> look[p].desc, parked |-> look[p].parked, parts |-> look[p].parts]
          /\ reader[p].started /\ ~reader[p].cur.on
          /\ Names(p, look[p].base, look[p].count, look[p].desc)
          /\ look[p].parts \in Parts
          /\ look[p].at \in {"rest", "tail"} => look[p].parts[1] = look[p].base
          /\ look[p].at = "tail" => look[p].parts[2] = look[p].base
    /\ got[p] \in Seq([base : Nat, parts : Parts])
    /\ \A i \in 1 .. Len(got[p]) : got[p][i].parts = <<got[p][i].base, got[p][i].base>>

\* what a datagram says is so
PlainData(m) == writer[m.lane].used /\ Fragment(m, InlineFor(m.lane))
Descriptor(m) ==
    /\ writer[m.lane].used /\ m.ask \in BOOLEAN
    /\ \E i \in 1 .. Len(topic.smp) :
          /\ ByDescriptor(m.lane, i) /\ join[m.lane] <= topic.smp[i].base
          /\ m.base = topic.smp[i].base /\ m.count = topic.smp[i].count /\ m.desc = sent[i]
Beat(m) ==
    /\ writer[m.lane].used
    /\ m.first \in Nat /\ m.first <= NextSeqno(topic) /\ m.last \in Nat /\ m.last < NextSeqno(topic)
Ack(m) ==
    /\ reader[m.lane].used /\ m.epoch \in Nat /\ m.epoch = reader[m.lane].epoch
    /\ m.unpos \in BOOLEAN /\ m.bits \in SUBSET Nat /\ m.base \in Nat
    /\ ~m.unpos =>
          /\ writer[m.lane].used
          /\ join[m.lane] <= m.base /\ m.base <= NextSeqno(topic)
          /\ \A x \in m.bits : join[m.lane] <= x
          /\ \A i \in 1 .. Len(topic.smp) : Waiting(m.lane, i) => m.base < EndOf(topic.smp[i])
DatagramOK(m) ==
    /\ m.lane \in Readers
    /\ m.type \in {"data", "hb", "nack"}
    /\ m.type = "data" => IF IsShm(m) THEN Descriptor(m) ELSE PlainData(m)
    /\ m.type = "hb"   => Beat(m)
    /\ m.type = "nack" => Ack(m)

SharedInv ==
    /\ RingOK /\ PoolOK /\ ContentOK
    /\ writer = [p \in Readers |-> writer[p]] /\ reader = [p \in Readers |-> reader[p]]
    /\ join = [p \in Readers |-> join[p]] /\ look = [p \in Readers |-> look[p]]
    /\ held = [p \in Readers |-> held[p]] /\ got = [p \in Readers |-> got[p]]
    /\ epochs \in Nat
    /\ \A p \in Readers : WaitingKept(p) /\ LanePlaced(p) /\ ReaderPlaced(p) /\ SeatOK(p)
    /\ \A m \in net : DatagramOK(m)

-----------------------------------------------------------------------------
(* What the operators of a reader keep.                                    *)

\* Places of samples: G between j and n.
Placed(G, j, n) ==
    \A d \in G : d.base \in Nat /\ d.count \in Nat \ {0} /\ j <= d.base /\ d.base + d.count <= n

\* From r to q the same incarnation moved forward.
Onward(r, q) ==
    q.used = r.used /\ q.epoch = r.epoch /\ q.started = r.started /\ r.upto <= q.upto

\* They differ in flags, timers and what is recorded.
Alike(r, q) ==
    /\ q.used = r.used /\ q.epoch = r.epoch /\ q.started = r.started /\ q.upto = r.upto
    /\ q.cur = r.cur /\ q.nxt = r.nxt

\* the head, deliver_upto and the parking are the same
SameHead(r, q) == q.cur = r.cur /\ q.parked = r.parked /\ q.upto = r.upto

\* From r to q the same incarnation got something.
Received(r, q) ==
    q.used = r.used /\ q.epoch = r.epoch /\ (r.started => q.started) /\ r.upto <= q.upto

\* A step that changes flags, timers or records only leaves a reader tidy.
LEMMA AlikeTidy ==
    ASSUME NEW G, NEW j, NEW n, NEW r, Tidy(r, G, j, n), NEW q \in ReaderState, Alike(r, q)
    PROVE  Tidy(q, G, j, n) /\ Onward(r, q)
  <1>1. r.upto \in Nat
    BY DEF Tidy, ReaderState
  <1> QED BY <1>1 DEF Tidy, Alike, Onward

\* Arming an ACKNACK changes flags only.
LEMMA AckNowTidy ==
    ASSUME NEW r \in ReaderState, NEW f \in BOOLEAN
    PROVE  AckNow(r, f) \in ReaderState /\ Alike(r, AckNow(r, f)) /\ AckNow(r, f).parked = r.parked
  BY DEF AckNow, ReaderState, Alike

\* Two moves forward of one incarnation are one.
LEMMA OnwardTrans ==
    ASSUME NEW r \in ReaderState, NEW q \in ReaderState, NEW s \in ReaderState, Onward(r, q), Onward(q, s)
    PROVE  Onward(r, s)
  BY DEF Onward, ReaderState

\* The position moves, the sample held ahead may become the head.
LEMMA MoveToTidy ==
    ASSUME NEW G, NEW j \in Nat, NEW n \in Nat, NEW r, Tidy(r, G, j, n), r.started,
           NEW q \in ReaderState, q.used = r.used, q.epoch = r.epoch, q.started = r.started, q.nxt = r.nxt,
           NEW x \in Nat, r.upto <= x, x <= n
    PROVE  Tidy(MoveTo(q, x), G, j, n) /\ Onward(r, MoveTo(q, x))
  <1> DEFINE m == MoveTo(q, x)
  <1>1. Fits(q.nxt) /\ q.started /\ r.upto \in Nat
    BY DEF Tidy, ReaderState
  <1>2. /\ m \in ReaderState /\ Slots(m) /\ Fits(m.cur) /\ Fits(m.nxt)
        /\ m.cur \in {NoAsm, q.nxt} /\ m.nxt \in {NoAsm, q.nxt}
        /\ m.upto = x /\ m.used = q.used /\ m.started = q.started
    BY <1>1, MoveToState
  <1>3. m.epoch = q.epoch
    BY DEF MoveTo, Settle, ReaderState
  <1> HIDE DEF m
  <1>4. ~NoAsm.on
    BY DEF NoAsm
  <1>5. m.cur.on => m.cur = r.nxt
    BY <1>2, <1>4
  <1>6. m.nxt.on => m.nxt = r.nxt
    BY <1>2, <1>4
  <1>7. Tidy(m, G, j, n)
    BY <1>1, <1>2, <1>5, <1>6 DEF Tidy, Slots
  <1> QED BY <1>1, <1>2, <1>3, <1>7 DEF Onward, m

\* Handing up the head moves the reader past it, or parks it.
LEMMA HandUpTidy ==
    ASSUME NEW G, NEW j \in Nat, NEW n \in Nat, Placed(G, j, n), NEW r, Tidy(r, G, j, n), NEW ok \in BOOLEAN
    PROVE  Tidy(HandUp(r, ok), G, j, n) /\ Onward(r, HandUp(r, ok))
  <1>0. r \in ReaderState
    BY DEF Tidy
  <1>1. CASE ~Complete(r.cur)
    BY <1>0, <1>1, AlikeTidy DEF HandUp, Alike
  <1>2. CASE Complete(r.cur) /\ ~ok
    <2>1. HandUp(r, ok) = [r EXCEPT !.parked = TRUE]
      BY <1>2 DEF HandUp
    <2>2. HandUp(r, ok) \in ReaderState /\ Alike(r, HandUp(r, ok))
      BY <1>0, <2>1 DEF ReaderState, Alike
    <2> QED BY <2>2, AlikeTidy
  <1>3. CASE Complete(r.cur) /\ ok
    <2> DEFINE d == [base |-> r.cur.base, count |-> r.cur.count]
               q == [r EXCEPT !.lapped = FALSE, !.log = Append(@, d)]
               e == EndOf(r.cur)
    <2>1. r.cur.on /\ r.started /\ AsDelivery(r.cur) \in G /\ r.cur.base = r.upto /\ r.cur \in Assembly
      BY <1>0, <1>3 DEF Tidy, Complete, ReaderState
    <2>2. e \in Nat /\ r.upto <= e /\ e <= n /\ r.upto \in Nat
      BY <1>0, <2>1 DEF Placed, AsDelivery, EndOf, ReaderState
    <2>3. d \in Delivery /\ r.log \in Seq(Delivery)
      BY <1>0, <2>1 DEF Assembly, Delivery, ReaderState
    <2>4. Append(r.log, d) \in Seq(Delivery)
      BY <2>3
    <2>5. /\ q \in ReaderState /\ q.used = r.used /\ q.epoch = r.epoch /\ q.started = r.started
          /\ q.nxt = r.nxt
      <3> HIDE DEF d
      <3> QED BY <1>0, <2>4 DEF ReaderState
    <2>6. HandUp(r, ok) = AckNow(MoveTo(q, e), TRUE)
      BY <1>3 DEF HandUp
    <2> HIDE DEF q, e
    <2>7. Tidy(MoveTo(q, e), G, j, n) /\ Onward(r, MoveTo(q, e))
      BY <2>1, <2>2, <2>5, MoveToTidy
    <2>8. PICK m : m = MoveTo(q, e)
      OBVIOUS
    <2>9. m \in ReaderState /\ Tidy(m, G, j, n) /\ Onward(r, m) /\ HandUp(r, ok) = AckNow(m, TRUE)
      BY <2>6, <2>7, <2>8 DEF Tidy
    <2>10. AckNow(m, TRUE) \in ReaderState /\ Alike(m, AckNow(m, TRUE))
      BY <2>9, AckNowTidy
    <2>11. Tidy(AckNow(m, TRUE), G, j, n) /\ Onward(m, AckNow(m, TRUE))
      BY <2>9, <2>10, AlikeTidy
    <2> QED BY <1>0, <2>9, <2>10, <2>11, OnwardTrans
  <1> QED BY <1>1, <1>2, <1>3

\* So does the delivery loop.
LEMMA DeliverTidy ==
    ASSUME NEW G, NEW j \in Nat, NEW n \in Nat, Placed(G, j, n), NEW r, Tidy(r, G, j, n), NEW acc \in Nat
    PROVE  Tidy(Deliver(r, acc), G, j, n) /\ Onward(r, Deliver(r, acc))
  <1>1. CASE acc = 0
    BY <1>1, HandUpTidy DEF Deliver
  <1>2. CASE acc # 0
    <2>1. PICK q : q = HandUp(r, TRUE)
      OBVIOUS
    <2>2. Tidy(q, G, j, n) /\ Onward(r, q)
      BY <2>1, HandUpTidy
    <2>3. ASSUME NEW b \in BOOLEAN, Deliver(r, acc) = HandUp(q, b)
          PROVE  Tidy(Deliver(r, acc), G, j, n) /\ Onward(r, Deliver(r, acc))
      <3>1. Tidy(HandUp(q, b), G, j, n) /\ Onward(q, HandUp(q, b))
        BY <2>2, HandUpTidy
      <3>2. r \in ReaderState /\ q \in ReaderState /\ HandUp(q, b) \in ReaderState
        BY <2>2, <3>1 DEF Tidy
      <3> QED BY <2>2, <2>3, <3>1, <3>2, OnwardTrans
    <2>4. Deliver(r, acc) = HandUp(q, acc > 1) /\ (acc > 1) \in BOOLEAN
      BY <1>2, <2>1 DEF Deliver
    <2> QED BY <2>3, <2>4
  <1> QED BY <1>1, <1>2

\* A future fragment, with memory for it.
LEMMA AheadTidy ==
    ASSUME NEW G, NEW j \in Nat, NEW n \in Nat, Placed(G, j, n), NEW r, Tidy(r, G, j, n), r.started,
           NEW m, Fragment(m, G),
           NEW mem \in BOOLEAN, mem
    PROVE  LET z == AheadData(r, m, mem) IN Tidy(z, G, j, n) /\ Onward(r, z) /\ SameHead(r, z)
  <1>0. r \in ReaderState
    BY DEF Tidy
  <1>1. PICK g : g = (IF r.parked \/ r.pend THEN r ELSE AckNow(r, FALSE))
    OBVIOUS
  <1>2. g \in ReaderState /\ Alike(r, g) /\ g.parked = r.parked
    BY <1>0, <1>1, AckNowTidy DEF Alike
  <1>3. Tidy(g, G, j, n) /\ Onward(r, g) /\ g.cur = r.cur /\ g.nxt = r.nxt /\ g.upto = r.upto /\ g.started
    BY <1>2, AlikeTidy DEF Alike
  <1>4. CASE (r.nxt.on /\ r.nxt.base # m.base)
    <2>1. AheadData(r, m, mem) = g
      BY <1>1, <1>4 DEF AheadData
    <2> QED BY <1>2, <1>3, <2>1 DEF SameHead
  <1>5. CASE ~(r.nxt.on /\ r.nxt.base # m.base)
    <2>1. AheadData(r, m, mem) = [g EXCEPT !.nxt = Fill(g.nxt, m)]
      BY <1>1, <1>5 DEF AheadData
    <2>2. PICK a : a = Fill(g.nxt, m)
      OBVIOUS
    <2>3. a \in Assembly /\ Fits(a) /\ AsDelivery(a) \in G
      <3>1. g.nxt \in Assembly /\ Fits(g.nxt) /\ (g.nxt.on => AsDelivery(g.nxt) \in G /\ g.nxt.base = m.base)
        BY <1>2, <1>3, <1>5 DEF Tidy, ReaderState
      <3> QED BY <2>2, <3>1, FillOK
    <2>4. PICK q : q = [g EXCEPT !.nxt = a]
      OBVIOUS
    <2>5. /\ q \in ReaderState /\ q.nxt = a /\ q.used = g.used /\ q.epoch = g.epoch /\ q.started = g.started
          /\ q.upto = g.upto /\ q.cur = g.cur /\ q.parked = g.parked
      BY <1>2, <2>3, <2>4 DEF ReaderState
    <2>6. Tidy(q, G, j, n) /\ Onward(r, q)
      BY <1>3, <2>3, <2>5 DEF Tidy, Onward
    <2> QED BY <1>2, <1>3, <2>1, <2>2, <2>4, <2>5, <2>6 DEF SameHead
  <1> QED BY <1>4, <1>5

\* A fragment for the head.
LEMMA HeadTidy ==
    ASSUME NEW G, NEW j \in Nat, NEW n \in Nat, Placed(G, j, n), NEW r, Tidy(r, G, j, n), r.started,
           NEW m, Fragment(m, G), m.base = r.upto, NEW mem \in BOOLEAN, mem, NEW acc \in Nat
    PROVE  Tidy(HeadData(r, m, mem, acc), G, j, n) /\ Onward(r, HeadData(r, m, mem, acc))
  <1>0. r \in ReaderState
    BY DEF Tidy
  <1>1. PICK a : a = Fill(r.cur, m)
    OBVIOUS
  <1>2. a \in Assembly /\ Fits(a) /\ AsDelivery(a) \in G /\ a.base = r.upto
    <2>1. r.cur \in Assembly /\ Fits(r.cur) /\ (r.cur.on => AsDelivery(r.cur) \in G /\ r.cur.base = m.base)
      BY <1>0 DEF Tidy, ReaderState
    <2> QED BY <1>1, <2>1, FillOK
  <1>3. PICK f : f = [r EXCEPT !.cur = a]
    OBVIOUS
  <1>4. /\ f \in ReaderState /\ f.cur = a /\ f.used = r.used /\ f.epoch = r.epoch /\ f.started = r.started
        /\ f.upto = r.upto /\ f.nxt = r.nxt
    BY <1>0, <1>2, <1>3 DEF ReaderState
  <1>5. r.upto \in Nat
    BY <1>0 DEF ReaderState
  <1>6. Tidy(f, G, j, n) /\ Onward(r, f)
    BY <1>2, <1>4, <1>5 DEF Tidy, Onward
  <1>7. HeadData(r, m, mem, acc) \in {Deliver(f, acc), AckNow(f, FALSE), f}
    BY <1>1, <1>3 DEF HeadData
  <1>8. ASSUME NEW q, q \in {Deliver(f, acc), AckNow(f, FALSE), f}
        PROVE  Tidy(q, G, j, n) /\ Onward(r, q)
    <2>1. Tidy(q, G, j, n) /\ Onward(f, q)
      <3>1. CASE q = Deliver(f, acc)
        BY <1>6, <3>1, DeliverTidy
      <3>2. CASE q = AckNow(f, FALSE)
        BY <1>4, <1>6, <3>2, AckNowTidy, AlikeTidy
      <3>3. CASE q = f
        BY <1>4, <1>5, <1>6, <3>3 DEF Onward
      <3> QED BY <1>8, <3>1, <3>2, <3>3
    <2>2. q \in ReaderState
      BY <2>1 DEF Tidy
    <2> QED BY <1>0, <1>4, <1>6, <2>1, <2>2, OnwardTrans
  <1> QED BY <1>7, <1>8

\* A reader that has no position adopts one.
LEMMA AdoptTidy ==
    ASSUME NEW G, NEW j \in Nat, NEW n \in Nat, NEW r, Tidy(r, G, j, n), r.used, ~r.started,
           NEW x \in Nat, j <= x, x <= n,
           NEW q \in ReaderState, q.upto = x, q.cur = NoAsm, q.started, q.used = r.used, q.nxt = r.nxt
    PROVE  Tidy(q, G, j, n) /\ ~q.cur.on
  <1>1. ~NoAsm.on /\ Fits(NoAsm)
    BY DEF NoAsm, Fits
  <1> QED BY <1>1 DEF Tidy

\* a reader that a fragment asked to ack, one that saw it, and one it placed
Asking(r, m) == [r EXCEPT !.req = @ \/ m.ask]
Raised(r, m) == [Asking(r, m) EXCEPT !.rHigh = Larger(@, m.seq)]
PlacedAt(r, b) == [r EXCEPT !.upto = b, !.start = b, !.cur = NoAsm, !.started = TRUE]

\* What a fragment m makes of r, by where it stands.
Sorted(r, m, mem, acc, z) ==
    /\ m.base < r.upto => z = OldData(Asking(r, m))
    /\ m.base > r.upto /\ r.started => z = AheadData(Raised(r, m), m, mem)
    /\ m.base >= r.upto /\ ~r.started => z = HeadData(PlacedAt(Raised(r, m), m.base), m, mem, acc)
    /\ m.base = r.upto /\ r.started /\ r.parked => z = Raised(r, m)
    /\ m.base = r.upto /\ r.started /\ ~r.parked => z = HeadData(Raised(r, m), m, mem, acc)

\* The cases of i_rant_reader_order_arrival exclude one another, whatever their order.
LEMMA ReaderDataCases ==
    ASSUME NEW r, r.upto \in Nat, NEW m, m.base \in Nat, NEW mem, NEW acc
    PROVE  Sorted(r, m, mem, acc, ReaderData(r, m, mem, acc))
  <1> DEFINE A == OldData(Asking(r, m))
             B == AheadData(Raised(r, m), m, mem)
             C == HeadData(PlacedAt(Raised(r, m), m.base), m, mem, acc)
             D == Raised(r, m)
             H == HeadData(Raised(r, m), m, mem, acc)
  <1>1. ReaderData(r, m, mem, acc) =
         CASE m.base < r.upto -> A
           [] m.base > r.upto /\ r.started -> B
           [] m.base >= r.upto /\ ~r.started -> C
           [] m.base = r.upto /\ r.started /\ r.parked -> D
           [] m.base = r.upto /\ r.started /\ ~r.parked -> H
    BY DEF ReaderData, Asking, Raised, PlacedAt
  <1>2. SUFFICES /\ m.base < r.upto => ReaderData(r, m, mem, acc) = A
                 /\ m.base > r.upto /\ r.started => ReaderData(r, m, mem, acc) = B
                 /\ m.base >= r.upto /\ ~r.started => ReaderData(r, m, mem, acc) = C
                 /\ m.base = r.upto /\ r.started /\ r.parked => ReaderData(r, m, mem, acc) = D
                 /\ m.base = r.upto /\ r.started /\ ~r.parked => ReaderData(r, m, mem, acc) = H
    BY DEF Sorted
  <1> HIDE DEF A, B, C, D, H
  <1> QED BY <1>1

\* An unpositioned reader takes the position of the first fragment.
LEMMA PlacedAtState ==
    ASSUME NEW r \in ReaderState, NEW b \in Nat
    PROVE  LET q == PlacedAt(r, b) IN
           /\ q \in ReaderState /\ q.upto = b /\ q.cur = NoAsm /\ q.started /\ q.used = r.used
           /\ q.nxt = r.nxt /\ q.epoch = r.epoch /\ q.parked = r.parked
  <1> DEFINE y == TRUE
  <1>1. NoAsm \in Assembly /\ y \in BOOLEAN /\ y
    BY DEF NoAsm, Assembly
  <1>2. PlacedAt(r, b) = [r EXCEPT !.upto = b, !.start = b, !.cur = NoAsm, !.started = y]
    BY DEF PlacedAt
  <1> HIDE DEF y
  <1>3. PICK q : q = [r EXCEPT !.upto = b, !.start = b, !.cur = NoAsm, !.started = y]
    OBVIOUS
  <1>4. /\ q \in ReaderState /\ q.upto = b /\ q.cur = NoAsm /\ q.started = y /\ q.used = r.used
        /\ q.nxt = r.nxt /\ q.epoch = r.epoch /\ q.parked = r.parked
    BY <1>1, <1>3 DEF ReaderState
  <1>5. PlacedAt(r, b) = q
    BY <1>2, <1>3
  <1>6. q.started
    BY <1>1, <1>4
  <1> QED BY <1>4, <1>5, <1>6

\* A fragment leaves a reader tidy, and a parked descriptor in its place.
LEMMA ReaderDataTidy ==
    ASSUME NEW G, NEW j \in Nat, NEW n \in Nat, Placed(G, j, n), NEW r, Tidy(r, G, j, n), r.used,
           NEW m, Fragment(m, G), NEW mem \in BOOLEAN, mem, NEW acc \in Nat
    PROVE  LET z == ReaderData(r, m, mem, acc) IN
           /\ Tidy(z, G, j, n) /\ Received(r, z)
           /\ r.started /\ r.parked /\ ~r.cur.on => SameHead(r, z)
  <1>z. PICK z : z = ReaderData(r, m, mem, acc)
    OBVIOUS
  <1>0. r \in ReaderState /\ r.upto \in Nat
    BY DEF Tidy, ReaderState
  <1>m. /\ m.base \in Nat /\ m.count \in Nat /\ m.seq \in Nat /\ m.ask \in BOOLEAN
        /\ j <= m.base /\ m.base <= n
    BY DEF Fragment, Placed, AsDelivery
  <1>c. Sorted(r, m, mem, acc, z)
    BY <1>0, <1>m, <1>z, ReaderDataCases
  <1>1. PICK q : q = Asking(r, m)
    OBVIOUS
  <1>2. q \in ReaderState /\ Alike(r, q) /\ q.parked = r.parked
    BY <1>0, <1>1, <1>m DEF ReaderState, Alike, Asking
  <1>3. PICK h : h = Raised(r, m)
    OBVIOUS
  <1>4. h \in ReaderState /\ Alike(r, h) /\ SameHead(r, h)
    <2>1. PICK k \in Nat : k = Larger(q.rHigh, m.seq)
      BY <1>2, <1>m DEF Larger, ReaderState
    <2>2. h = [q EXCEPT !.rHigh = k]
      BY <1>1, <1>3, <2>1 DEF Raised
    <2> QED BY <1>2, <2>1, <2>2 DEF ReaderState, Alike, SameHead
  <1>5. Tidy(q, G, j, n) /\ Tidy(h, G, j, n) /\ Onward(r, q) /\ Onward(r, h)
    BY <1>2, <1>4, AlikeTidy
  <1>6. ASSUME m.base < r.upto
        PROVE  Tidy(z, G, j, n) /\ Received(r, z) /\ (r.started /\ r.parked /\ ~r.cur.on => SameHead(r, z))
    <2>1. z = OldData(q)
      BY <1>c, <1>1, <1>6 DEF Sorted
    <2>2. z \in ReaderState /\ Alike(q, z) /\ z.parked = q.parked
      BY <1>2, <2>1, AckNowTidy DEF OldData, Alike
    <2>3. Tidy(z, G, j, n) /\ Onward(q, z)
      BY <1>5, <2>2, AlikeTidy
    <2>4. /\ z.used = r.used /\ z.epoch = r.epoch /\ z.started = r.started /\ z.upto = r.upto
          /\ z.cur = r.cur /\ z.parked = r.parked
      BY <1>2, <2>2, Zenon DEF Alike
    <2>5. r.upto <= z.upto
      <3>1. z.upto = r.upto
        BY <2>4
      <3>2. r.upto \in Nat
        BY <1>0
      <3> QED BY <3>1, <3>2
    <2>6. Received(r, z) /\ SameHead(r, z)
      BY <2>4, <2>5, Zenon DEF Received, SameHead
    <2> QED BY <2>3, <2>6
  <1>7. ASSUME m.base > r.upto /\ r.started
        PROVE  Tidy(z, G, j, n) /\ Received(r, z) /\ (r.started /\ r.parked /\ ~r.cur.on => SameHead(r, z))
    <2>1. z = AheadData(h, m, mem)
      BY <1>c, <1>3, <1>7 DEF Sorted
    <2>2. h.started
      BY <1>4, <1>7 DEF Alike
    <2>3. Tidy(z, G, j, n) /\ Onward(h, z) /\ SameHead(h, z)
      BY <1>5, <2>1, <2>2, AheadTidy
    <2>4. Received(r, z) /\ SameHead(r, z)
      BY <1>0, <1>4, <2>3 DEF Alike, Received, SameHead, Onward
    <2> QED BY <2>3, <2>4
  <1>8. ASSUME m.base >= r.upto /\ ~r.started
        PROVE  Tidy(z, G, j, n) /\ Received(r, z) /\ (r.started /\ r.parked /\ ~r.cur.on => SameHead(r, z))
    <2>1. h.used /\ ~h.started
      BY <1>4, <1>8 DEF Alike
    <2>2. PICK f : f = PlacedAt(h, m.base)
      OBVIOUS
    <2>3. /\ f \in ReaderState /\ f.upto = m.base /\ f.cur = NoAsm /\ f.started /\ f.used = h.used
          /\ f.nxt = h.nxt /\ f.epoch = h.epoch
      BY <1>4, <1>m, <2>2, PlacedAtState
    <2>4. Tidy(f, G, j, n)
      BY <1>5, <1>m, <2>1, <2>3, AdoptTidy
    <2>5. z = HeadData(f, m, mem, acc)
      BY <1>c, <1>3, <1>8, <2>2 DEF Sorted
    <2>6. Tidy(z, G, j, n) /\ Onward(f, z)
      BY <2>3, <2>4, <2>5, HeadTidy
    <2>7. z.upto \in Nat
      BY <2>6 DEF Tidy, ReaderState
    <2>8. r.upto <= z.upto
      <3>1. f.upto <= z.upto
        BY <2>6 DEF Onward
      <3>2. f.upto = m.base
        BY <2>3
      <3>3. m.base >= r.upto
        BY <1>8
      <3>4. r.upto \in Nat /\ m.base \in Nat
        BY <1>0, <1>m
      <3> QED BY <3>1, <3>2, <3>3, <3>4, <2>7
    <2>9. Received(r, z)
      BY <1>4, <1>8, <2>3, <2>6, <2>8, Zenon DEF Alike, Onward, Received
    <2> QED BY <1>8, <2>6, <2>9
  <1>9. ASSUME m.base = r.upto /\ r.started /\ r.parked
        PROVE  Tidy(z, G, j, n) /\ Received(r, z) /\ (r.started /\ r.parked /\ ~r.cur.on => SameHead(r, z))
    <2>1. z = h
      BY <1>c, <1>3, <1>9 DEF Sorted
    <2>2. Received(r, h)
      BY <1>5 DEF Onward, Received
    <2> QED BY <1>4, <1>5, <2>1, <2>2
  <1>10. ASSUME m.base = r.upto /\ r.started /\ ~r.parked
        PROVE  Tidy(z, G, j, n) /\ Received(r, z) /\ (r.started /\ r.parked /\ ~r.cur.on => SameHead(r, z))
    <2>1. z = HeadData(h, m, mem, acc)
      BY <1>c, <1>3, <1>10 DEF Sorted
    <2>2. h.started /\ m.base = h.upto
      BY <1>4, <1>10 DEF Alike
    <2>3. Tidy(z, G, j, n) /\ Onward(h, z)
      BY <1>5, <2>1, <2>2, HeadTidy
    <2>4. Received(r, z)
      BY <1>4, <2>3 DEF Alike, Onward, Received
    <2> QED BY <1>10, <2>3, <2>4
  <1>11. m.base < r.upto \/ m.base > r.upto \/ m.base = r.upto
    BY <1>0, <1>m
  <1>12. m.base > r.upto => m.base >= r.upto
    BY <1>0, <1>m
  <1>13. m.base = r.upto => m.base >= r.upto
    BY <1>0, <1>m
  <1>14. /\ Tidy(z, G, j, n) /\ Received(r, z)
         /\ r.started /\ r.parked /\ ~r.cur.on => SameHead(r, z)
    BY <1>6, <1>7, <1>8, <1>9, <1>10, <1>11, <1>12, <1>13, Zenon
  <1> QED BY <1>14, <1>z

\* A heartbeat. What is parked stays, unless the floor passes it.
LEMMA ReaderHbTidy ==
    ASSUME NEW G, NEW j \in Nat, NEW n \in Nat, Placed(G, j, n), NEW r, Tidy(r, G, j, n), r.used,
           NEW m, m.first \in Nat, m.first <= n, m.last \in Nat, m.last < n, NEW acc \in Nat
    PROVE  LET z == ReaderHb(r, m, acc) IN
           /\ Tidy(z, G, j, n) /\ Received(r, z)
           /\ ~HbSkips(r, m) /\ r.parked => SameHead(r, z)
  <1>0. r \in ReaderState /\ r.upto \in Nat
    BY DEF Tidy, ReaderState
  <1>1. PICK s : s = (IF HbSkips(r, m) THEN HbSkip(r, m, acc) ELSE r)
    OBVIOUS
  <1>2. s \in ReaderState /\ Tidy(s, G, j, n) /\ Onward(r, s)
    <2>1. CASE ~HbSkips(r, m)
      <3>1. s = r
        BY <1>1, <2>1
      <3>2. Onward(r, r)
        BY <1>0 DEF Onward
      <3> QED BY <1>0, <3>1, <3>2
    <2>2. CASE HbSkips(r, m)
      <3> DEFINE l == IF Directed THEN r.lost ELSE r.lost \cup (r.upto .. (HbTarget(r, m) - 1))
      <3>1. r.started /\ r.upto < m.first
        BY <1>0, <2>2 DEF HbSkips
      <3>2. HbTarget(r, m) \in Nat /\ r.upto <= HbTarget(r, m) /\ HbTarget(r, m) <= n
        BY <1>0, <3>1 DEF HbTarget, Larger
      <3>3. r.lost \in SUBSET Nat /\ l \in SUBSET Nat
        BY <1>0, <3>2 DEF ReaderState
      <3>4. PICK b \in BOOLEAN : b = (r.lapped \/ ~(Directed \/ r.parked))
        BY <1>0 DEF ReaderState
      <3>5. PICK k : k = l
        OBVIOUS
      <3>6. PICK q : q = [r EXCEPT !.lapped = b, !.parked = FALSE, !.lost = k]
        OBVIOUS
      <3>7. HbSkip(r, m, acc) = Deliver(MoveTo(q, HbTarget(r, m)), acc)
        BY <3>4, <3>5, <3>6 DEF HbSkip
      <3>8. k \in SUBSET Nat
        BY <3>3, <3>5
      <3> HIDE DEF l
      <3>9. /\ q \in ReaderState /\ q.used = r.used /\ q.epoch = r.epoch /\ q.started = r.started
            /\ q.nxt = r.nxt
        BY <1>0, <3>6, <3>8 DEF ReaderState
      <3>10. PICK o : o = MoveTo(q, HbTarget(r, m))
        OBVIOUS
      <3>11. Tidy(o, G, j, n) /\ Onward(r, o)
        BY <3>1, <3>2, <3>9, <3>10, MoveToTidy
      <3>12. Tidy(Deliver(o, acc), G, j, n) /\ Onward(o, Deliver(o, acc))
        BY <3>11, DeliverTidy
      <3>13. o \in ReaderState /\ Deliver(o, acc) \in ReaderState
        BY <3>11, <3>12 DEF Tidy
      <3>14. s = Deliver(o, acc)
        BY <1>1, <2>2, <3>7, <3>10
      <3> QED BY <1>0, <3>11, <3>12, <3>13, <3>14, OnwardTrans
    <2> QED BY <2>1, <2>2
  <1>3. CASE s.parked
    <2>1. ReaderHb(r, m, acc) = s
      BY <1>1, <1>3 DEF ReaderHb
    <2>2. ~HbSkips(r, m) => s = r
      BY <1>1
    <2>3. Received(r, s)
      BY <1>2 DEF Onward, Received
    <2>4. SameHead(r, r)
      BY DEF SameHead
    <2> QED BY <1>2, <2>1, <2>2, <2>3, <2>4
  <1>4. CASE ~s.parked
    <2>1. PICK t : t = [s EXCEPT !.hbLast = m.last]
      OBVIOUS
    <2>2. t \in ReaderState /\ Alike(s, t)
      BY <1>2, <2>1 DEF ReaderState, Alike
    <2>3. PICK q : q = AckNow(t, TRUE)
      OBVIOUS
    <2>4. q \in ReaderState /\ Alike(t, q)
      BY <2>2, <2>3, AckNowTidy
    <2>5. ReaderHb(r, m, acc) = q
      BY <1>1, <1>4, <2>1, <2>3 DEF ReaderHb
    <2>6. Alike(s, q)
      BY <2>2, <2>4 DEF Alike
    <2>7. Tidy(q, G, j, n) /\ Onward(s, q)
      BY <1>2, <2>4, <2>6, AlikeTidy
    <2>8. Onward(r, q)
      BY <1>0, <1>2, <2>4, <2>7, OnwardTrans
    <2>9. ~HbSkips(r, m) => s = r
      BY <1>1
    <2>10. Received(r, q)
      BY <2>8 DEF Onward, Received
    <2> QED BY <1>4, <2>5, <2>7, <2>9, <2>10
  <1> QED BY <1>3, <1>4

\* So does the retry of a sample that came in fragments.
LEMMA UnparkTidy ==
    ASSUME NEW G, NEW j \in Nat, NEW n \in Nat, Placed(G, j, n), NEW r, Tidy(r, G, j, n), NEW acc \in Nat
    PROVE  Tidy(Unpark(r, acc), G, j, n) /\ Onward(r, Unpark(r, acc))
  <1>1. PICK q : q = [r EXCEPT !.parked = FALSE]
    OBVIOUS
  <1>2. r \in ReaderState
    BY DEF Tidy
  <1>3. q \in ReaderState /\ Alike(r, q)
    BY <1>1, <1>2 DEF ReaderState, Alike
  <1>4. Tidy(q, G, j, n) /\ Onward(r, q)
    BY <1>3, AlikeTidy
  <1>5. Tidy(Deliver(q, acc), G, j, n) /\ Onward(q, Deliver(q, acc))
    BY <1>4, DeliverTidy
  <1>6. Deliver(q, acc) \in ReaderState
    BY <1>5 DEF Tidy
  <1>7. Onward(r, Deliver(q, acc))
    BY <1>2, <1>3, <1>4, <1>5, <1>6, OnwardTrans
  <1>8. Unpark(r, acc) = Deliver(q, acc)
    BY <1>1 DEF Unpark
  <1> QED BY <1>5, <1>7, <1>8

\* Emitting an ACKNACK spends flags and moves nothing.
LEMMA AfterEmitTidy ==
    ASSUME NEW G, NEW j \in Nat, NEW n \in Nat, NEW r, Tidy(r, G, j, n), NEW due \in BOOLEAN
    PROVE  Tidy(AfterEmit(r, due), G, j, n) /\ Onward(r, AfterEmit(r, due)) /\ SameHead(r, AfterEmit(r, due))
  <1>0. HeadPlaced(r) /\ r \in ReaderState
    BY DEF Tidy, HeadPlaced
  <1>1. PICK q : q = [r EXCEPT !.pend = FALSE, !.force = FALSE, !.req = FALSE]
    OBVIOUS
  <1>2. q \in ReaderState /\ Alike(r, q) /\ q.parked = r.parked
    BY <1>0, <1>1 DEF ReaderState, Alike
  <1>3. PICK k : k = IF Asked(r, due) = {} THEN q.nHigh ELSE Larger(q.nHigh, AskTop(r, due))
    OBVIOUS
  <1>4. k \in Nat /\ FirstMissing(r) \in Nat
    BY <1>0, <1>2, <1>3, AskedOf, FirstMissingOf DEF ReaderState, Larger
  <1>5. PICK a : a = [q EXCEPT !.pend = TRUE, !.nHigh = k]
    OBVIOUS
  <1>6. PICK b : b = [q EXCEPT !.nHigh = FirstMissing(r)]
    OBVIOUS
  <1>7. AfterEmit(r, due) \in {q, a, b}
    BY <1>1, <1>3, <1>5, <1>6 DEF AfterEmit
  <1>8. /\ a \in ReaderState /\ Alike(q, a) /\ a.parked = q.parked
        /\ b \in ReaderState /\ Alike(q, b) /\ b.parked = q.parked
    BY <1>2, <1>4, <1>5, <1>6 DEF ReaderState, Alike
  <1>9. \A z \in {q, a, b} : z \in ReaderState /\ Alike(r, z) /\ SameHead(r, z)
    BY <1>2, <1>8, Zenon DEF Alike, SameHead
  <1> QED BY <1>7, <1>9, AlikeTidy

-----------------------------------------------------------------------------
(* What the operators of a resolve keep.                                   *)

\* The position moves past a head that is not in its slot.
LEMMA SettleTidy ==
    ASSUME NEW G, NEW j \in Nat, NEW n \in Nat, NEW r, Tidy(r, G, j, n), r.started, ~r.cur.on,
           NEW x \in Nat, r.upto <= x, x <= n,
           NEW q \in ReaderState, q.used = r.used, q.epoch = r.epoch, q.started = r.started,
           q.cur = r.cur, q.nxt = r.nxt, q.upto = x
    PROVE  Tidy(Settle(q), G, j, n) /\ Onward(r, Settle(q))
  <1>1. r.upto \in Nat /\ Fits(q.cur) /\ Fits(q.nxt) /\ NoAsm \in Assembly /\ ~NoAsm.on /\ Fits(NoAsm)
    BY DEF Tidy, ReaderState, NoAsm, Assembly, Fits
  <1>2. PICK m : m = Settle(q)
    OBVIOUS
  <1>3. /\ m \in ReaderState /\ m.upto = q.upto /\ m.used = q.used /\ m.epoch = q.epoch /\ m.started = q.started
        /\ \/ m.cur = q.cur /\ m.nxt = q.nxt
           \/ m.cur = q.cur /\ m.nxt = NoAsm
           \/ m.cur = q.nxt /\ m.nxt = NoAsm /\ q.nxt.base = q.upto
    <2>1. CASE m = q
      BY <2>1
    <2>2. CASE m = [q EXCEPT !.nxt = NoAsm]
      BY <1>1, <2>2 DEF ReaderState
    <2>3. CASE m = [q EXCEPT !.cur = q.nxt, !.nxt = NoAsm] /\ q.nxt.base = q.upto
      BY <1>1, <2>3 DEF ReaderState
    <2>4. m = q \/ m = [q EXCEPT !.nxt = NoAsm] \/ (m = [q EXCEPT !.cur = q.nxt, !.nxt = NoAsm] /\ q.nxt.base = q.upto)
      BY <1>2 DEF Settle
    <2> QED BY <2>1, <2>2, <2>3, <2>4
  <1>4. ~q.cur.on
    OBVIOUS
  <1>5. Fits(m.cur) /\ Fits(m.nxt)
    BY <1>1, <1>3
  <1>6. m.cur.on => m.cur.base = m.upto /\ m.cur = r.nxt
    BY <1>3, <1>4
  <1>7. m.nxt.on => m.nxt = r.nxt
    BY <1>1, <1>3
  <1>8. m.upto = x /\ m.used = r.used /\ m.epoch = r.epoch /\ m.started = r.started
    BY <1>3
  <1>9. Tidy(m, G, j, n)
    <2>1. m.cur.on => m.started /\ m.cur.base = m.upto /\ AsDelivery(m.cur) \in G
      BY <1>6, <1>8 DEF Tidy
    <2>2. m.nxt.on => m.started /\ AsDelivery(m.nxt) \in G
      BY <1>7, <1>8 DEF Tidy
    <2>3. m.started => m.used /\ j <= m.upto
      BY <1>1, <1>8 DEF Tidy
    <2>4. m.started
      BY <1>8
    <2> QED BY <1>3, <1>5, <1>8, <2>1, <2>2, <2>3, <2>4 DEF Tidy
  <1>10. Onward(r, m)
    BY <1>8 DEF Onward
  <1> QED BY <1>2, <1>9, <1>10

\* what a failed resolve of the sample at base may make of r
GaveUp(r, base, count) ==
    {AckNow([r EXCEPT !.parked = FALSE, !.cur = NoAsm], FALSE),
     AckNow(Settle([r EXCEPT !.lost = @ \cup (base .. (base + count - 1)),
                             !.upto = base + count]), TRUE),
     AckNow(r, FALSE)}

\* A resolve that failed: the gap is reopened, left for a repair, or skipped.
LEMMA GivenUpTidy ==
    ASSUME NEW G, NEW j \in Nat, NEW n \in Nat, NEW r, Tidy(r, G, j, n), r.started, ~r.cur.on,
           NEW base \in Nat, NEW count \in Nat, base = r.upto, base + count <= n, NEW z,
           z \in GaveUp(r, base, count)
    PROVE  Tidy(z, G, j, n) /\ Onward(r, z)
  <1>0. r \in ReaderState /\ r.upto \in Nat
    BY DEF Tidy, ReaderState
  <1>1. CASE z = AckNow(r, FALSE)
    BY <1>0, <1>1, AckNowTidy, AlikeTidy
  <1>2. CASE z = AckNow([r EXCEPT !.parked = FALSE, !.cur = NoAsm], FALSE)
    <2>1. PICK q : q = [r EXCEPT !.parked = FALSE, !.cur = NoAsm]
      OBVIOUS
    <2>2. NoAsm \in Assembly /\ ~NoAsm.on /\ Fits(NoAsm)
      BY DEF NoAsm, Assembly, Fits
    <2>3. /\ q \in ReaderState /\ q.used = r.used /\ q.epoch = r.epoch /\ q.started = r.started /\ q.upto = r.upto
          /\ q.cur = NoAsm /\ q.nxt = r.nxt
      BY <1>0, <2>1, <2>2 DEF ReaderState
    <2>4. Tidy(q, G, j, n) /\ Onward(r, q)
      BY <1>0, <2>2, <2>3 DEF Tidy, Onward
    <2>5. z = AckNow(q, FALSE)
      BY <1>2, <2>1
    <2>6. z \in ReaderState /\ Alike(q, z)
      BY <2>3, <2>5, AckNowTidy
    <2>7. Tidy(z, G, j, n) /\ Onward(q, z)
      BY <2>4, <2>6, AlikeTidy
    <2> QED BY <1>0, <2>3, <2>4, <2>6, <2>7, OnwardTrans
  <1>3. CASE z = AckNow(Settle([r EXCEPT !.lost = @ \cup (base .. (base + count - 1)),
                                         !.upto = base + count]), TRUE)
    <2>1. PICK k \in SUBSET Nat : k = r.lost \cup (base .. (base + count - 1))
      <3>1. r.lost \in SUBSET Nat
        BY <1>0 DEF ReaderState
      <3>2. r.lost \cup (base .. (base + count - 1)) \in SUBSET Nat
        BY <3>1
      <3> QED BY <3>2
    <2>2. PICK x \in Nat : x = base + count
      OBVIOUS
    <2>3. PICK q : q = [r EXCEPT !.lost = k, !.upto = x]
      OBVIOUS
    <2>4. /\ q \in ReaderState /\ q.used = r.used /\ q.epoch = r.epoch /\ q.started = r.started /\ q.upto = x
          /\ q.cur = r.cur /\ q.nxt = r.nxt
      BY <1>0, <2>3 DEF ReaderState
    <2>5. r.upto <= x /\ x <= n
      BY <2>2
    <2>6. PICK m : m = Settle(q)
      OBVIOUS
    <2>7. Tidy(m, G, j, n) /\ Onward(r, m)
      BY <2>4, <2>5, <2>6, SettleTidy
    <2>8. z = AckNow(m, TRUE)
      BY <1>3, <2>1, <2>2, <2>3, <2>6
    <2>9. m \in ReaderState
      BY <2>7 DEF Tidy
    <2>10. z \in ReaderState /\ Alike(m, z)
      BY <2>8, <2>9, AckNowTidy
    <2>11. Tidy(z, G, j, n) /\ Onward(m, z)
      BY <2>7, <2>10, AlikeTidy
    <2> QED BY <1>0, <2>7, <2>9, <2>10, <2>11, OnwardTrans
  <1> QED BY <1>1, <1>2, <1>3 DEF GaveUp

\* The copy is taken, and a sample held ahead may follow.
LEMMA CopyTakenTidy ==
    ASSUME NEW G, NEW j \in Nat, NEW n \in Nat, Placed(G, j, n), NEW r, Tidy(r, G, j, n), r.started,
           NEW l, l.base \in Nat, l.count \in Nat, r.upto <= l.base, l.base + l.count <= n, NEW acc \in Nat
    PROVE  Tidy(CopyTaken(r, l, acc), G, j, n) /\ Onward(r, CopyTaken(r, l, acc))
  <1>0. r \in ReaderState /\ r.upto \in Nat /\ r.log \in Seq(Delivery)
    BY DEF Tidy, ReaderState
  <1>1. PICK d \in Delivery : d = [base |-> l.base, count |-> l.count]
    BY DEF Delivery
  <1>2. PICK k \in Seq(Delivery) : k = Append(r.log, d)
    <2>1. Append(r.log, d) \in Seq(Delivery)
      BY <1>0
    <2> QED BY <2>1
  <1>3. PICK q : q = [r EXCEPT !.lapped = FALSE, !.parked = FALSE, !.log = k]
    OBVIOUS
  <1>4. /\ q \in ReaderState /\ q.used = r.used /\ q.epoch = r.epoch /\ q.started = r.started /\ q.nxt = r.nxt
    BY <1>0, <1>3 DEF ReaderState
  <1>5. PICK x \in Nat : x = l.base + l.count
    OBVIOUS
  <1>6. r.upto <= x /\ x <= n
    BY <1>0, <1>5
  <1>7. PICK m : m = MoveTo(q, x)
    OBVIOUS
  <1>8. Tidy(m, G, j, n) /\ Onward(r, m)
    BY <1>4, <1>6, <1>7, MoveToTidy
  <1>9. PICK a : a = AckNow(m, TRUE)
    OBVIOUS
  <1>10. m \in ReaderState
    BY <1>8 DEF Tidy
  <1>11. a \in ReaderState /\ Alike(m, a)
    BY <1>9, <1>10, AckNowTidy
  <1>12. Tidy(a, G, j, n) /\ Onward(m, a)
    BY <1>8, <1>11, AlikeTidy
  <1>13. Tidy(Deliver(a, acc), G, j, n) /\ Onward(a, Deliver(a, acc))
    BY <1>12, DeliverTidy
  <1>14. Deliver(a, acc) \in ReaderState
    BY <1>13 DEF Tidy
  <1>15. Onward(r, Deliver(a, acc))
    BY <1>0, <1>8, <1>10, <1>11, <1>12, <1>13, <1>14, OnwardTrans
  <1>16. CopyTaken(r, l, acc) = Deliver(a, acc)
    BY <1>1, <1>2, <1>3, <1>5, <1>7, <1>9 DEF CopyTaken
  <1> QED BY <1>13, <1>15, <1>16

\* z is parked at the sample of l
ParkedAt(z, l) == z.parked /\ ~z.cur.on /\ z.cur.base = l.base /\ z.cur.count = l.count

\* The copy is refused: the head slot names the sample but holds nothing.
LEMMA ParkedTidy ==
    ASSUME NEW G, NEW j \in Nat, NEW n \in Nat, NEW r, Tidy(r, G, j, n),
           NEW l, l.base \in Nat, l.count \in Nat
    PROVE  LET z == Parked(r, l) IN
           Tidy(z, G, j, n) /\ Onward(r, z) /\ ParkedAt(z, l) /\ z.upto = r.upto
  <1>0. r \in ReaderState /\ r.upto \in Nat
    BY DEF Tidy, ReaderState
  <1>1. PICK a : a = [NoAsm EXCEPT !.base = l.base, !.count = l.count]
    OBVIOUS
  <1>2. /\ a \in Assembly /\ ~a.on /\ a.got = {} /\ a.base = l.base /\ a.count = l.count
    BY <1>1 DEF NoAsm, Assembly
  <1> DEFINE y == TRUE
  <1>3. y \in BOOLEAN /\ y
    OBVIOUS
  <1>4. Parked(r, l) = [r EXCEPT !.cur = a, !.parked = y]
    BY <1>1 DEF Parked
  <1> HIDE DEF y
  <1>5. PICK q : q = [r EXCEPT !.cur = a, !.parked = y]
    OBVIOUS
  <1>6. /\ q \in ReaderState /\ q.used = r.used /\ q.epoch = r.epoch /\ q.started = r.started /\ q.upto = r.upto
        /\ q.cur = a /\ q.nxt = r.nxt /\ q.parked = y
    BY <1>0, <1>2, <1>3, <1>5 DEF ReaderState
  <1>7. Fits(a)
    BY <1>2 DEF Fits
  <1>8. Tidy(q, G, j, n) /\ Onward(r, q)
    BY <1>0, <1>2, <1>6, <1>7 DEF Tidy, Onward
  <1>9. q.parked
    BY <1>3, <1>6
  <1>10. ParkedAt(q, l) /\ q.upto = r.upto
    BY <1>2, <1>6, <1>9, Zenon DEF ParkedAt
  <1> QED BY <1>4, <1>5, <1>8, <1>10

-----------------------------------------------------------------------------
(* What the invariant says of the ring.                                    *)

\* The bounds of the samples, and what the ring caches.
LEMMA RingFacts ==
    ASSUME RingOK
    PROVE  /\ topic.smp \in Seq(Sample) /\ Len(topic.smp) \in Nat /\ NextSeqno(topic) \in Nat
           /\ FirstSeqno(topic) \in Nat /\ topic.lo \in Nat /\ KeepLast \in Nat /\ KeepLast > 0
           /\ \A i \in 1 .. Len(topic.smp) :
                 /\ topic.smp[i].base \in Nat /\ topic.smp[i].count \in Nat \ {0}
                 /\ EndOf(topic.smp[i]) = topic.smp[i].base + topic.smp[i].count
                 /\ topic.smp[i].base < EndOf(topic.smp[i]) /\ EndOf(topic.smp[i]) \in Nat
                 /\ EndOf(topic.smp[i]) <= NextSeqno(topic)
                 /\ sent[i] \in [class : Classes \cup {"none"}, chunk : Nat, gen : Nat]
           /\ Cached(topic) = topic.lo .. Len(topic.smp) /\ Cached(topic) \subseteq 1 .. Len(topic.smp)
  <1>1. TopicOK(topic) /\ Len(sent) = Len(topic.smp)
    BY DEF RingOK
  <1>2. \A i \in 1 .. Len(topic.smp) : topic.smp[i].count \in Nat \ {0}
    BY <1>1, TopicFacts DEF Sample
  <1>3. \A i \in 1 .. Len(topic.smp) : sent[i] \in [class : Classes \cup {"none"}, chunk : Nat, gen : Nat]
    <2>1. PICK D : D = [class : Classes \cup {"none"}, chunk : Nat, gen : Nat]
      OBVIOUS
    <2>2. sent \in Seq(D)
      BY <2>1 DEF RingOK
    <2>3. \A i \in 1 .. Len(sent) : sent[i] \in D
      BY <2>2
    <2> QED BY <1>1, <2>1, <2>3
  <1>4. topic.lo \in Nat
    BY <1>1 DEF TopicOK, TopicState
  <1>5. Cached(topic) = topic.lo .. Len(topic.smp)
    BY DEF Cached
  <1> QED BY <1>1, <1>2, <1>3, <1>4, <1>5, TopicFacts, KeepLastAssumption

\* The ring has no holes: from its floor to the head every seqno is in a sample.
LEMMA NoHoles ==
    ASSUME RingOK, NEW x \in Nat, FirstSeqno(topic) <= x, x < NextSeqno(topic)
    PROVE  Found(topic, x)
  <1> DEFINE n == Len(topic.smp)
             S == {i \in Cached(topic) : x < EndOf(topic.smp[i])}
  <1>1. topic.smp # << >>
    BY RingFacts DEF NextSeqno
  <1>2. n \in 1 .. n /\ n \in Nat /\ topic.lo \in 1 .. n /\ topic.lo \in Nat
    <2>1. topic.lo \in 1 .. n
      BY <1>1 DEF RingOK, TopicOK
    <2> QED BY <2>1, RingFacts
  <1>3. n \in S
    BY <1>1, <1>2, RingFacts DEF NextSeqno
  <1>4. S \in SUBSET Nat /\ S # {}
    BY <1>2, <1>3, RingFacts
  <1>5. PICK k : k = Min(S)
    OBVIOUS
  <1> HIDE DEF S
  <1>6. k \in S /\ k \in Nat /\ \A y \in S : k <= y
    BY <1>4, <1>5, MinNat
  <1>7. k \in Cached(topic) /\ k \in 1 .. n /\ topic.lo <= k /\ x < EndOf(topic.smp[k])
    BY <1>2, <1>6, RingFacts DEF S
  <1>8. topic.smp[k].base <= x
    <2>1. CASE k = topic.lo
      BY <1>1, <2>1 DEF FirstSeqno
    <2>2. CASE k # topic.lo
      <3>1. k - 1 \in topic.lo .. n /\ k - 1 \in 1 .. n /\ k - 1 \in 1 .. (n - 1) /\ (k - 1) + 1 = k
        BY <1>2, <1>6, <1>7, <2>2
      <3>2. k - 1 \in Cached(topic)
        BY <3>1, RingFacts
      <3>3. k - 1 \notin S
        BY <1>2, <1>6, <3>1
      <3>4. ~(x < EndOf(topic.smp[k - 1]))
        BY <3>2, <3>3 DEF S
      <3>5. EndOf(topic.smp[k - 1]) = topic.smp[k].base
        BY <3>1 DEF RingOK
      <3> QED BY <3>1, <3>4, <3>5, RingFacts
    <2> QED BY <2>1, <2>2
  <1> QED BY <1>7, <1>8 DEF Found, Covers

\* What comes in fragments lies between the join point and the head.
LEMMA InlinePlaced ==
    ASSUME RingOK, NEW p, join[p] \in Nat
    PROVE  Placed(InlineFor(p), join[p], NextSeqno(topic))
  <1> SUFFICES ASSUME NEW d \in InlineFor(p)
               PROVE  /\ d.base \in Nat /\ d.count \in Nat \ {0}
                      /\ join[p] <= d.base /\ d.base + d.count <= NextSeqno(topic)
    BY DEF Placed
  <1>1. PICK i \in 1 .. Len(topic.smp) : join[p] <= topic.smp[i].base /\ d = AsDelivery(topic.smp[i])
    BY DEF InlineFor
  <1>2. d.base = topic.smp[i].base /\ d.count = topic.smp[i].count
    BY <1>1 DEF AsDelivery
  <1> QED BY <1>1, <1>2, RingFacts

\* The slot of the next message is that of the oldest sample of a full ring.
LEMMA SlotTaken ==
    ASSUME NEW K \in Nat, K > 0, NEW n \in Nat, NEW i \in Nat, 0 < i, i <= n, n < i + K,
           (i - 1) % K = n % K
    PROVE  n + 1 = i + K
  <1>1. PICK a \in Int : a = (i - 1) \div K
    OBVIOUS
  <1>2. PICK b \in Int : b = n \div K
    OBVIOUS
  <1>3. PICK r \in Int : r = n % K
    OBVIOUS
  <1>4. i - 1 = K * a + r /\ n = K * b + r
    BY <1>1, <1>2, <1>3
  <1>5. n - (i - 1) = K * (b - a)
    BY <1>4
  <1>6. PICK d \in Int : d = b - a
    OBVIOUS
  <1>7. n - (i - 1) = K * d
    BY <1>5, <1>6
  <1>8. d > 0
    BY <1>7
  <1>9. d < 2
    BY <1>7, <1>8
  <1>10. d = 1
    BY <1>8, <1>9
  <1> QED BY <1>7, <1>10

-----------------------------------------------------------------------------
(* What kinds of step there are, and why each keeps the invariant.         *)

\* from f to g, functions of the readers, only what is p's changes
Only(p, f, g) ==
    /\ g = [q \in Readers |-> g[q]]
    /\ \A q \in Readers : q # p => g[q] = f[q]

\* An update at p changes what is p's and nothing else.
LEMMA OnlyUpdate ==
    ASSUME NEW f, f = [q \in Readers |-> f[q]], NEW p \in Readers, NEW v
    PROVE  Only(p, f, f) /\ Only(p, f, [f EXCEPT ![p] = v]) /\ [f EXCEPT ![p] = v][p] = v
  BY DEF Only

\* a step of p's process leaves the writer's process and the other readers alone
ReaderFrame(p) ==
    /\ topic' = topic /\ writer' = writer /\ wDormant' = wDormant /\ join' = join
    /\ chunk' = chunk /\ sent' = sent /\ gather' = gather
    /\ Only(p, reader, reader') /\ Only(p, look, look') /\ Only(p, held, held') /\ Only(p, got, got')

\* p stands where the invariant wants it, and no earlier than it stood
Advanced(p, r) ==
    /\ Tidy(r, InlineFor(p), join[p], NextSeqno(topic))
    /\ reader[p].upto <= r.upto
    /\ r.started => writer[p].used
    /\ r.used
    /\ reader[p].used => r.epoch = reader[p].epoch

\* A step of one reader's process keeps the invariant if its position only grows, its
\* seat is sound and the datagrams it sends say what is so.
LEMMA ReaderStepInv ==
    ASSUME SharedInv, NEW p \in Readers, ReaderFrame(p), epochs' \in Nat,
           Advanced(p, reader'[p]), SeatOK(p)',
           \A m \in net' : m \in net \/ DatagramOK(m)
    PROVE  SharedInv'
  <1>0. /\ RingOK /\ PoolOK /\ ContentOK
        /\ writer = [q \in Readers |-> writer[q]] /\ join = [q \in Readers |-> join[q]]
        /\ \A q \in Readers : WaitingKept(q) /\ LanePlaced(q) /\ ReaderPlaced(q) /\ SeatOK(q)
        /\ \A m \in net : DatagramOK(m)
    BY DEF SharedInv
  <1>1. /\ topic' = topic /\ writer' = writer /\ wDormant' = wDormant /\ join' = join
        /\ chunk' = chunk /\ sent' = sent /\ gather' = gather
    BY DEF ReaderFrame
  <1>2. \A q \in Readers : q # p => reader'[q] = reader[q] /\ look'[q] = look[q] /\ held'[q] = held[q] /\ got'[q] = got[q]
    BY DEF ReaderFrame, Only
  <1>3. RingOK' /\ PoolOK' /\ ContentOK'
    <2>1. RingOK'
      BY <1>0, <1>1 DEF RingOK
    <2>2. PoolOK'
      BY <1>0, <1>1 DEF PoolOK, Slot
    <2>3. ContentOK'
      BY <1>0, <1>1 DEF ContentOK, Described, Overwritten
    <2> QED BY <2>1, <2>2, <2>3
  <1>4. /\ writer' = [q \in Readers |-> writer'[q]] /\ reader' = [q \in Readers |-> reader'[q]]
        /\ join' = [q \in Readers |-> join'[q]] /\ look' = [q \in Readers |-> look'[q]]
        /\ held' = [q \in Readers |-> held'[q]] /\ got' = [q \in Readers |-> got'[q]]
    BY <1>0, <1>1 DEF ReaderFrame, Only
  <1>5. \A q, i : ByDescriptor(q, i)' <=> ByDescriptor(q, i)
    BY <1>1 DEF ByDescriptor, Described
  <1>6. \A q : InlineFor(q)' = InlineFor(q)
    BY <1>1, <1>5 DEF InlineFor
  <1>7. \A q \in Readers : q # p => \A i : Waiting(q, i)' <=> Waiting(q, i)
    BY <1>1, <1>2, <1>5 DEF Waiting
  <1>8. \A i \in 1 .. Len(topic.smp) : Waiting(p, i)' => Waiting(p, i)
    <2>1. reader[p].upto \in Nat /\ reader'[p].upto \in Nat /\ reader[p].upto <= reader'[p].upto
      BY <1>0 DEF Advanced, ReaderPlaced, Tidy, ReaderState
    <2> SUFFICES ASSUME NEW i \in 1 .. Len(topic.smp), Waiting(p, i)' PROVE Waiting(p, i)
      OBVIOUS
    <2>2. topic.smp[i].base \in Nat
      BY <1>0, RingFacts
    <2>3. reader'[p].upto <= topic.smp[i].base
      BY <1>1 DEF Waiting
    <2>4. reader[p].upto <= topic.smp[i].base
      BY <2>1, <2>2, <2>3
    <2> QED BY <1>1, <1>5, <2>4 DEF Waiting
  <1>9. ASSUME NEW q \in Readers
        PROVE  WaitingKept(q)' /\ LanePlaced(q)' /\ ReaderPlaced(q)' /\ SeatOK(q)'
    <2>0. WaitingKept(q) /\ LanePlaced(q) /\ ReaderPlaced(q) /\ SeatOK(q)
      BY <1>0
    <2>1. WaitingKept(q)'
      <3>1. \A i \in 1 .. Len(topic.smp) : Waiting(q, i)' => Waiting(q, i)
        BY <1>7, <1>8
      <3> QED BY <2>0, <3>1, <1>1 DEF WaitingKept, Overwritten
    <2>2. LanePlaced(q)'
      <3>1. writer'[q].epoch \in {0, reader'[q].epoch}
        <4>1. CASE q # p
          BY <1>1, <1>2, <2>0, <4>1 DEF LanePlaced
        <4>2. CASE q = p /\ reader[p].used
          BY <1>1, <2>0, <4>2 DEF LanePlaced, Advanced
        <4>3. CASE q = p /\ ~reader[p].used
          BY <1>1, <2>0, <4>3 DEF LanePlaced, ReaderPlaced
        <4> QED BY <4>1, <4>2, <4>3
      <3> QED BY <1>1, <2>0, <3>1 DEF LanePlaced
    <2>3. ReaderPlaced(q)'
      <3>1. CASE q # p
        BY <1>1, <1>2, <1>6, <2>0, <3>1 DEF ReaderPlaced
      <3>2. CASE q = p
        BY <1>1, <1>6, <3>2 DEF ReaderPlaced, Advanced
      <3> QED BY <3>1, <3>2
    <2>4. SeatOK(q)'
      <3>1. CASE q # p
        <4>1. \A b, c, d : Names(q, b, c, d) => Names(q, b, c, d)'
          BY <1>1, <1>2, <1>7, <3>1 DEF Names
        <4> QED BY <1>2, <2>0, <3>1, <4>1 DEF SeatOK
      <3> QED BY <3>1
    <2> QED BY <2>1, <2>2, <2>3, <2>4
  <1>10. ASSUME NEW m, DatagramOK(m)
         PROVE  DatagramOK(m)'
    <2>0. DatagramOK(m)
      BY <1>10
    <2>1. m.lane \in Readers
      BY <2>0 DEF DatagramOK
    <2>2. PlainData(m) => PlainData(m)'
      BY <1>1, <1>6 DEF PlainData
    <2>3. Descriptor(m) => Descriptor(m)'
      BY <1>1, <1>5 DEF Descriptor
    <2>4. Beat(m) => Beat(m)'
      BY <1>1 DEF Beat
    <2>5. Ack(m) => Ack(m)'
      <3>1. reader[m.lane].used => reader'[m.lane].used /\ reader'[m.lane].epoch = reader[m.lane].epoch
        BY <1>2, <2>1 DEF Advanced
      <3>2. \A i \in 1 .. Len(topic.smp) : Waiting(m.lane, i)' => Waiting(m.lane, i)
        BY <1>7, <1>8, <2>1
      <3> QED BY <1>1, <3>1, <3>2 DEF Ack
    <2> QED BY <2>0, <2>2, <2>3, <2>4, <2>5 DEF DatagramOK
  <1>11. \A m \in net' : DatagramOK(m)'
    BY <1>0, <1>10
  <1> QED BY <1>3, <1>4, <1>9, <1>11 DEF SharedInv

\* a place w for the lane to p
LaneAt(p, w) ==
    /\ w \in WriterState
    /\ w.used /\ w.epoch \in {0, reader[p].epoch}
    /\ join[p] <= w.acked /\ w.acked <= NextSeqno(topic)
    /\ join[p] <= w.sent
    /\ \A x \in w.nack : join[p] <= x
    /\ \A i \in 1 .. Len(topic.smp) : Waiting(p, i) => w.acked < EndOf(topic.smp[i])

\* a step of the writer's process on the lane to p leaves all else alone
LaneFrame(p) ==
    /\ topic' = topic /\ reader' = reader /\ wDormant' = wDormant /\ epochs' = epochs /\ join' = join
    /\ chunk' = chunk /\ sent' = sent /\ gather' = gather /\ look' = look /\ held' = held /\ got' = got
    /\ Only(p, writer, writer')

\* A step of the writer's process on one lane keeps the invariant if the lane still
\* stands where it may and the datagrams it sends say what is so.
LEMMA LaneStepInv ==
    ASSUME SharedInv, NEW p \in Readers, LaneFrame(p), writer[p].used, LaneAt(p, writer'[p]),
           \A m \in net' : m \in net \/ DatagramOK(m)
    PROVE  SharedInv'
  <1>0. /\ RingOK /\ PoolOK /\ ContentOK
        /\ reader = [q \in Readers |-> reader[q]] /\ join = [q \in Readers |-> join[q]]
        /\ look = [q \in Readers |-> look[q]] /\ held = [q \in Readers |-> held[q]]
        /\ got = [q \in Readers |-> got[q]] /\ epochs \in Nat
        /\ \A q \in Readers : WaitingKept(q) /\ LanePlaced(q) /\ ReaderPlaced(q) /\ SeatOK(q)
        /\ \A m \in net : DatagramOK(m)
    BY DEF SharedInv
  <1>1. /\ topic' = topic /\ reader' = reader /\ wDormant' = wDormant /\ epochs' = epochs /\ join' = join
        /\ chunk' = chunk /\ sent' = sent /\ gather' = gather /\ look' = look /\ held' = held /\ got' = got
        /\ writer' = [q \in Readers |-> writer'[q]]
        /\ \A q \in Readers : q # p => writer'[q] = writer[q]
    BY DEF LaneFrame, Only
  <1>2. \A q \in Readers : writer'[q].used = writer[q].used
    <2>1. writer'[p].used = writer[p].used
      <3>1. writer'[p].used /\ writer'[p].used \in BOOLEAN /\ writer[p].used \in BOOLEAN
        BY <1>0 DEF LaneAt, WriterState, LanePlaced
      <3> QED BY <3>1
    <2> QED BY <1>1, <2>1
  <1>3. RingOK' /\ PoolOK' /\ ContentOK'
    <2>1. RingOK'
      BY <1>0, <1>1 DEF RingOK
    <2>2. PoolOK'
      BY <1>0, <1>1 DEF PoolOK, Slot
    <2>3. ContentOK'
      BY <1>0, <1>1 DEF ContentOK, Described, Overwritten
    <2> QED BY <2>1, <2>2, <2>3
  <1>5. \A q, i : ByDescriptor(q, i)' <=> ByDescriptor(q, i)
    BY <1>1 DEF ByDescriptor, Described
  <1>6. \A q : InlineFor(q)' = InlineFor(q)
    BY <1>1, <1>5 DEF InlineFor
  <1>7. \A q \in Readers : \A i : Waiting(q, i)' <=> Waiting(q, i)
    BY <1>1, <1>2, <1>5 DEF Waiting
  <1>9. ASSUME NEW q \in Readers
        PROVE  WaitingKept(q)' /\ LanePlaced(q)' /\ ReaderPlaced(q)' /\ SeatOK(q)'
    <2>0. WaitingKept(q) /\ LanePlaced(q) /\ ReaderPlaced(q) /\ SeatOK(q)
      BY <1>0
    <2>1. WaitingKept(q)'
      <3>1. \A i \in 1 .. Len(topic.smp) : Waiting(q, i) => writer'[q].acked < EndOf(topic.smp[i])
        <4>1. CASE q # p
          BY <1>1, <2>0, <4>1 DEF WaitingKept
        <4>2. CASE q = p
          BY <4>2 DEF LaneAt
        <4> QED BY <4>1, <4>2
      <3> QED BY <2>0, <3>1, <1>1, <1>7 DEF WaitingKept, Overwritten
    <2>2. LanePlaced(q)'
      <3>1. CASE q # p
        BY <1>1, <2>0, <3>1 DEF LanePlaced
      <3>2. CASE q = p
        <4>1. writer'[p] \in WriterState /\ writer'[p].used /\ writer'[p].epoch \in {0, reader[p].epoch}
          BY DEF LaneAt
        <4>2. /\ join[p] <= writer'[p].acked /\ writer'[p].acked <= NextSeqno(topic)
              /\ join[p] <= writer'[p].sent /\ \A x \in writer'[p].nack : join[p] <= x
          BY DEF LaneAt
        <4> QED BY <1>1, <2>0, <3>2, <4>1, <4>2 DEF LanePlaced
      <3> QED BY <3>1, <3>2
    <2>3. ReaderPlaced(q)'
      BY <1>1, <1>2, <1>6, <2>0 DEF ReaderPlaced
    <2>4. SeatOK(q)'
      <3>1. \A b, c, d : Names(q, b, c, d) => Names(q, b, c, d)'
        BY <1>1, <1>7 DEF Names
      <3> QED BY <1>1, <2>0, <3>1 DEF SeatOK
    <2> QED BY <2>1, <2>2, <2>3, <2>4
  <1>10. ASSUME NEW m, DatagramOK(m)
         PROVE  DatagramOK(m)'
    <2>1. m.lane \in Readers
      BY <1>10 DEF DatagramOK
    <2>2. PlainData(m) => PlainData(m)'
      BY <1>2, <1>6, <2>1 DEF PlainData
    <2>3. Descriptor(m) => Descriptor(m)'
      BY <1>1, <1>2, <1>5, <2>1 DEF Descriptor
    <2>4. Beat(m) => Beat(m)'
      BY <1>1, <1>2, <2>1 DEF Beat
    <2>5. Ack(m) => Ack(m)'
      BY <1>1, <1>2, <1>7, <2>1 DEF Ack
    <2> QED BY <1>10, <2>2, <2>3, <2>4, <2>5 DEF DatagramOK
  <1>11. \A m \in net' : DatagramOK(m)'
    BY <1>0, <1>10
  <1>12. \A q \in Readers : WaitingKept(q)' /\ LanePlaced(q)' /\ ReaderPlaced(q)' /\ SeatOK(q)'
    BY <1>9
  <1> QED BY <1>0, <1>1, <1>3, <1>11, <1>12 DEF SharedInv

-----------------------------------------------------------------------------
(* The writer lanes.                                                       *)

\* No sample is addressed to one peer only, so no lane steps over one.
LEMMA NothingForeign ==
    ASSUME RingOK, NEW p
    PROVE  \A i \in Cached(topic) : ~Foreign(topic.smp[i], p)
  <1>1. Cached(topic) \subseteq 1 .. Len(topic.smp)
    BY RingFacts
  <1>2. \A i \in 1 .. Len(topic.smp) : topic.smp[i].dest = DestAll
    BY DEF RingOK
  <1> QED BY <1>1, <1>2 DEF Foreign

\* Changing what is asked for leaves a lane in its place.
LEMMA WithNackAt ==
    ASSUME NEW p, NEW w, LaneAt(p, w), NEW S \in SUBSET Nat, NEW b \in Nat, \A x \in S : join[p] <= x
    PROVE  LaneAt(p, WithNack(w, S, b))
  <1>1. PICK c \in Nat : c = IF S = {} THEN 0 ELSE b
    OBVIOUS
  <1>2. PICK v : v = [w EXCEPT !.nack = S, !.nackBase = c]
    OBVIOUS
  <1>3. w \in WriterState
    BY DEF LaneAt
  <1>4. /\ v \in WriterState /\ v.used = w.used /\ v.epoch = w.epoch /\ v.acked = w.acked
        /\ v.sent = w.sent /\ v.nack = S
    BY <1>1, <1>2, <1>3 DEF WriterState
  <1>5. LaneAt(p, v)
    BY <1>4 DEF LaneAt
  <1>6. WithNack(w, S, b) = v
    BY <1>1, <1>2 DEF WithNack
  <1> QED BY <1>5, <1>6

\* The advance of a lane that nothing is foreign to only lifts sent to the acked edge.
LEMMA AdvanceAt ==
    ASSUME RingOK, NEW p, join[p] \in Nat, NEW w, LaneAt(p, w)
    PROVE  LaneAt(p, LaneAdvance(topic, p, w))
  <1>1. CASE ~Directed
    BY <1>1 DEF LaneAdvance
  <1>2. CASE Directed
    <2>1. \A x : StepOver(topic, p, x) = x
      BY NothingForeign DEF StepOver
    <2>2. w \in WriterState /\ w.sent \in Nat /\ w.acked \in Nat
      BY DEF LaneAt, WriterState
    <2>3. PICK s \in Nat : s = IF w.sent < w.acked THEN w.acked ELSE w.sent
      BY <2>2
    <2>4. PICK b \in BOOLEAN : b = (w.skipHb \/ w.acked # w.acked)
      OBVIOUS
    <2>5. PICK v : v = [w EXCEPT !.acked = w.acked, !.skipHb = b, !.sent = s]
      OBVIOUS
    <2>6. LaneAdvance(topic, p, w) = v
      BY <1>2, <2>1, <2>3, <2>4, <2>5 DEF LaneAdvance
    <2>7. /\ v \in WriterState /\ v.used = w.used /\ v.epoch = w.epoch /\ v.acked = w.acked
          /\ v.sent = s /\ v.nack = w.nack
      BY <2>2, <2>5 DEF WriterState
    <2>8. join[p] <= s
      BY <2>2, <2>3 DEF LaneAt
    <2> QED BY <2>6, <2>7, <2>8 DEF LaneAt
  <1> QED BY <1>1, <1>2, DirectedAssumption

\* Before it emits, a lane drops the requests nothing can answer.
LEMMA PrunedAt ==
    ASSUME RingOK, NEW p, join[p] \in Nat, NEW w0, LaneAt(p, w0)
    PROVE  LET v == Pruned(topic, p, w0) IN
           /\ LaneAt(p, v)
           /\ v.nack # {} => /\ Min(v.nack) \in v.nack /\ Min(v.nack) \in Nat
                             /\ Min(v.nack) < NextSeqno(topic) /\ join[p] <= Min(v.nack)
  <1>1. PICK w : w = LaneAdvance(topic, p, w0)
    OBVIOUS
  <1>2. LaneAt(p, w) /\ w \in WriterState /\ w.nack \in SUBSET Nat /\ w.nackBase \in Nat
    BY <1>1, AdvanceAt DEF LaneAt, WriterState
  <1> DEFINE live == {x \in w.nack : x < NextSeqno(topic) /\ ~ForeignSeqno(topic, p, x)}
             below == {x \in w.nack : \A y \in live : x < y}
  <1>3. PICK b \in BOOLEAN : b = (w.skipHb \/ \E x \in below : ForeignSeqno(topic, p, x))
    OBVIOUS
  <1>4. PICK q : q = [w EXCEPT !.skipHb = b]
    OBVIOUS
  <1>5. PICK S : S = w.nack \ below
    OBVIOUS
  <1>6. Pruned(topic, p, w0) = WithNack(q, S, w.nackBase)
    BY <1>1, <1>3, <1>4, <1>5 DEF Pruned
  <1>7. S \in SUBSET Nat /\ \A x \in S : join[p] <= x
    BY <1>2, <1>5 DEF LaneAt
  <1>8. LaneAt(p, q)
    <2>1. /\ q \in WriterState /\ q.used = w.used /\ q.epoch = w.epoch /\ q.acked = w.acked
          /\ q.sent = w.sent /\ q.nack = w.nack
      BY <1>2, <1>4 DEF WriterState
    <2> QED BY <1>2, <2>1 DEF LaneAt
  <1>9. LaneAt(p, WithNack(q, S, w.nackBase))
    BY <1>2, <1>7, <1>8, WithNackAt
  <1>10. WithNack(q, S, w.nackBase).nack = S
    <2>1. q \in WriterState
      BY <1>8 DEF LaneAt
    <2> QED BY <2>1 DEF WithNack, WriterState
  <1>11. ASSUME S # {}
         PROVE  Min(S) \in S /\ Min(S) \in Nat /\ Min(S) < NextSeqno(topic) /\ join[p] <= Min(S)
    <2>1. PICK x : x = Min(S)
      OBVIOUS
    <2>2. x \in S /\ x \in Nat /\ \A y \in S : x <= y
      BY <1>7, <1>11, <2>1, MinNat
    <2>3. PICK y \in live : ~(x < y)
      BY <1>5, <2>2
    <2>4. y \in w.nack /\ y \in Nat /\ y < NextSeqno(topic)
      BY <1>2, <2>3
    <2>5. y \notin below
      BY <2>3, <2>4
    <2>6. x <= y
      BY <1>5, <2>2, <2>4, <2>5
    <2>7. x = y
      BY <2>2, <2>3, <2>4, <2>6
    <2> QED BY <1>7, <2>1, <2>2, <2>4, <2>7
  <1> QED BY <1>6, <1>9, <1>10, <1>11

\* A request that was answered, or that nothing answers any more, is cleared.
LEMMA RepairedAt ==
    ASSUME NEW p, NEW w, LaneAt(p, w)
    PROVE  LaneAt(p, Repaired(topic, w))
  <1>1. w.nack \in SUBSET Nat /\ w.nackBase \in Nat /\ \A x \in w.nack : join[p] <= x
    BY DEF LaneAt, WriterState
  <1>2. ASSUME NEW S \in SUBSET w.nack
        PROVE  LaneAt(p, WithNack(w, S, w.nackBase))
    BY <1>1, WithNackAt
  <1>3. /\ w.nack \ {Min(w.nack)} \in SUBSET w.nack
        /\ {y \in w.nack : y >= FirstSeqno(topic)} \in SUBSET w.nack
    OBVIOUS
  <1> QED BY <1>2, <1>3 DEF Repaired

\* The next push stands later.
LEMMA SentAt ==
    ASSUME NEW p, join[p] \in Nat, NEW w, LaneAt(p, w), NEW x \in Nat, join[p] <= x
    PROVE  LaneAt(p, [w EXCEPT !.sent = x])
  <1>1. PICK v : v = [w EXCEPT !.sent = x]
    OBVIOUS
  <1>2. w \in WriterState
    BY DEF LaneAt
  <1>3. /\ v \in WriterState /\ v.used = w.used /\ v.epoch = w.epoch /\ v.acked = w.acked
        /\ v.sent = x /\ v.nack = w.nack
    BY <1>1, <1>2 DEF WriterState
  <1>4. LaneAt(p, v)
    BY <1>3 DEF LaneAt
  <1> QED BY <1>1, <1>4

\* An unsent eviction jumps to the floor, which is past it: the ring has no holes.
LEMMA PushedAt ==
    ASSUME RingOK, NEW p, join[p] \in Nat, NEW w, LaneAt(p, w), w.sent < NextSeqno(topic)
    PROVE  LaneAt(p, Pushed(topic, w))
  <1>1. w.sent \in Nat /\ join[p] <= w.sent
    BY DEF LaneAt, WriterState
  <1>2. PICK x : x = IF Found(topic, w.sent) THEN w.sent + 1 ELSE FirstSeqno(topic)
    OBVIOUS
  <1>3. x \in Nat /\ join[p] <= x
    <2>1. CASE Found(topic, w.sent)
      BY <1>1, <1>2, <2>1
    <2>2. CASE ~Found(topic, w.sent)
      <3>1. FirstSeqno(topic) \in Nat
        BY RingFacts
      <3>2. ~(FirstSeqno(topic) <= w.sent)
        BY <1>1, <2>2, NoHoles
      <3> QED BY <1>1, <1>2, <2>2, <3>1, <3>2
    <2> QED BY <2>1, <2>2
  <1>4. Pushed(topic, w) = [w EXCEPT !.sent = x]
    BY <1>2 DEF Pushed
  <1> QED BY <1>3, <1>4, SentAt

\* the requests for a whole sample are answered at once
LEMMA AnsweredAt ==
    ASSUME NEW p, NEW w, LaneAt(p, w), NEW T
    PROVE  LaneAt(p, WithNack(w, w.nack \ T, w.nackBase))
  <1>1. w.nack \in SUBSET Nat /\ w.nackBase \in Nat /\ \A x \in w.nack : join[p] <= x
    BY DEF LaneAt, WriterState
  <1>2. w.nack \ T \in SUBSET Nat /\ \A x \in w.nack \ T : join[p] <= x
    BY <1>1
  <1> QED BY <1>1, <1>2, WithNackAt

\* What the writer finds at a seqno past the join point is one sample, all of it past
\* the join point.
LEMMA FoundPast ==
    ASSUME RingOK, NEW p, LanePlaced(p), NEW x \in Nat, join[p] <= x,
           NEW i \in Cached(topic), Covers(topic.smp[i], x)
    PROVE  /\ Found(topic, x) /\ Find(topic, x) = topic.smp[i]
           /\ i \in 1 .. Len(topic.smp) /\ join[p] <= topic.smp[i].base
           /\ \A j \in Cached(topic) : Covers(topic.smp[j], x) => j = i
           /\ DescOf(topic.smp[i].base) = sent[i]
  <1>1. Cached(topic) \subseteq 1 .. Len(topic.smp) /\ TopicOK(topic)
    BY RingFacts DEF RingOK
  <1>2. \A y \in Nat : Covers(topic.smp[i], y) => \A j \in Cached(topic) : Covers(topic.smp[j], y) => j = i
    BY <1>1, Disjoint DEF Covers
  <1>3. Found(topic, x)
    BY DEF Found
  <1>4. Find(topic, x) = topic.smp[i]
    BY <1>2 DEF Find
  <1>5. topic.smp[i].base \in Nat /\ EndOf(topic.smp[i]) \in Nat /\ topic.smp[i].base < EndOf(topic.smp[i])
    BY <1>1, RingFacts
  <1>6. Covers(topic.smp[i], topic.smp[i].base)
    BY <1>5 DEF Covers
  <1>7. DescOf(topic.smp[i].base) = sent[i]
    BY <1>2, <1>5, <1>6 DEF DescOf
  <1>8. join[p] <= topic.smp[i].base
    <2>1. topic.smp[i].base < join[p] => EndOf(topic.smp[i]) <= join[p]
      BY <1>1 DEF LanePlaced
    <2>2. join[p] \in Nat /\ x < EndOf(topic.smp[i])
      BY DEF LanePlaced, Covers
    <2> QED BY <1>5, <2>1, <2>2
  <1> QED BY <1>1, <1>2, <1>3, <1>4, <1>7, <1>8

\* A fragment of a sample that is not in shared memory for p.
LEMMA DataOK ==
    ASSUME RingOK, NEW p \in Readers, LanePlaced(p), writer[p].used,
           NEW x \in Nat, join[p] <= x, Found(topic, x), ~ByDesc(p, x), NEW ask \in BOOLEAN
    PROVE  DatagramOK(DataMsg(p, Find(topic, x), x, ask))
  <1>1. PICK i \in Cached(topic) : Covers(topic.smp[i], x)
    BY DEF Found
  <1>2. Find(topic, x) = topic.smp[i] /\ i \in 1 .. Len(topic.smp) /\ join[p] <= topic.smp[i].base
    BY <1>1, FoundPast
  <1>3. ~ByDescriptor(p, i)
    BY <1>1, <1>2 DEF ByDesc, ByDescriptor, Described
  <1>4. PICK m : m = DataMsg(p, topic.smp[i], x, ask)
    OBVIOUS
  <1>5. /\ m.type = "data" /\ m.lane = p /\ m.seq = x /\ m.base = topic.smp[i].base
        /\ m.count = topic.smp[i].count /\ m.ask = ask /\ ~IsShm(m)
    BY <1>4 DEF DataMsg, IsShm
  <1>6. AsDelivery(m) \in InlineFor(p)
    <2>1. AsDelivery(m) = AsDelivery(topic.smp[i])
      BY <1>5 DEF AsDelivery
    <2> QED BY <1>2, <1>3, <2>1 DEF InlineFor
  <1>7. m.base \in Nat /\ m.count \in Nat /\ m.base <= x /\ x < m.base + m.count
    BY <1>1, <1>2, <1>5, RingFacts DEF Covers
  <1>8. Fragment(m, InlineFor(p))
    BY <1>5, <1>6, <1>7 DEF Fragment
  <1>9. DatagramOK(m)
    BY <1>5, <1>8 DEF DatagramOK, PlainData
  <1> QED BY <1>2, <1>4, <1>9

\* A descriptor of a sample that is in shared memory for p.
LEMMA ShmOK ==
    ASSUME RingOK, NEW p \in Readers, LanePlaced(p), writer[p].used,
           NEW x \in Nat, join[p] <= x, ByDesc(p, x), NEW ask \in BOOLEAN
    PROVE  LET s == Find(topic, x) IN
           /\ DatagramOK(ShmMsg(p, s, DescOf(s.base), ask))
           /\ EndOf(s) \in Nat /\ x < EndOf(s)
  <1>1. PICK i \in Cached(topic) : Covers(topic.smp[i], x) /\ sent[i] # Inline /\ p \in SameHost
    BY DEF ByDesc
  <1>2. /\ Find(topic, x) = topic.smp[i] /\ i \in 1 .. Len(topic.smp) /\ join[p] <= topic.smp[i].base
        /\ DescOf(topic.smp[i].base) = sent[i]
    BY <1>1, FoundPast
  <1>3. ByDescriptor(p, i)
    BY <1>1, <1>2 DEF ByDescriptor, Described
  <1>4. PICK m : m = ShmMsg(p, topic.smp[i], sent[i], ask)
    OBVIOUS
  <1>5. /\ m.type = "data" /\ m.lane = p /\ m.base = topic.smp[i].base
        /\ m.count = topic.smp[i].count /\ m.ask = ask /\ m.desc = sent[i] /\ IsShm(m)
    BY <1>4 DEF ShmMsg, IsShm
  <1>6. Descriptor(m)
    BY <1>2, <1>3, <1>5 DEF Descriptor
  <1>7. DatagramOK(m)
    BY <1>5, <1>6 DEF DatagramOK
  <1>8. EndOf(topic.smp[i]) \in Nat /\ x < EndOf(topic.smp[i])
    BY <1>1, <1>2, RingFacts DEF Covers
  <1> QED BY <1>2, <1>4, <1>7, <1>8

\* A heartbeat claims no more than was sent.
LEMMA BeatOK ==
    ASSUME RingOK, NEW p \in Readers, writer[p].used, NEW w, LaneAt(p, w), NextSeqno(topic) > 0
    PROVE  DatagramOK(Heartbeat(p, w))
  <1>1. PICK m : m = Heartbeat(p, w)
    OBVIOUS
  <1>2. m.type = "hb" /\ m.lane = p /\ m.first = HbFirst(topic, w) /\ m.last = NextSeqno(topic) - 1
    BY <1>1 DEF Heartbeat, HbMsg
  <1>3. NextSeqno(topic) \in Nat /\ FirstSeqno(topic) \in Nat /\ w.acked \in Nat /\ w.acked <= NextSeqno(topic)
    BY RingFacts DEF LaneAt, WriterState
  <1>4. FirstSeqno(topic) <= NextSeqno(topic)
    <2>1. CASE topic.smp = << >>
      BY <2>1 DEF FirstSeqno, NextSeqno
    <2>2. CASE topic.smp # << >>
      <3>1. topic.lo \in 1 .. Len(topic.smp) /\ FirstSeqno(topic) = topic.smp[topic.lo].base
        BY <2>2 DEF RingOK, TopicOK, FirstSeqno
      <3> QED BY <3>1, RingFacts
    <2> QED BY <2>1, <2>2
  <1>5. Beat(m)
    <2>1. HbFirst(topic, w) \in Nat /\ HbFirst(topic, w) <= NextSeqno(topic)
      BY <1>3, <1>4 DEF HbFirst
    <2>2. NextSeqno(topic) - 1 \in Nat /\ NextSeqno(topic) - 1 < NextSeqno(topic)
      BY <1>3
    <2> QED BY <1>2, <2>1, <2>2 DEF Beat
  <1>6. DatagramOK(m)
    BY <1>2, <1>5 DEF DatagramOK
  <1> QED BY <1>1, <1>6

-----------------------------------------------------------------------------
(* Each step of the writer's process on a lane keeps the invariant.        *)

\* what the invariant says of one lane that is in use
LEMMA InUse ==
    ASSUME SharedInv, NEW p \in Readers, writer[p].used
    PROVE  LaneAt(p, writer[p]) /\ LanePlaced(p) /\ join[p] \in Nat /\ RingOK
  <1>1. WaitingKept(p) /\ LanePlaced(p) /\ RingOK
    BY DEF SharedInv
  <1> QED BY <1>1 DEF LanePlaced, WaitingKept, LaneAt

\* A lane that emits stays in its place, and what it emits is so.
LEMMA EmitKeeps ==
    ASSUME SharedInv, NEW p \in Readers, writer[p].used, NEW w, LaneAt(p, w), NEW m, DatagramOK(m),
           Emit(p, w, m), UNCHANGED shmVars
    PROVE  SharedInv'
  <1>1. writer' = [writer EXCEPT ![p] = w] /\ net' = net \cup {m}
    BY DEF Emit
  <1>2. writer = [q \in Readers |-> writer[q]]
    BY DEF SharedInv
  <1>3. Only(p, writer, writer') /\ writer'[p] = w
    BY <1>1, <1>2, OnlyUpdate
  <1>4. LaneFrame(p)
    BY <1>3 DEF LaneFrame, Emit, shmVars
  <1>5. \A k \in net' : k \in net \/ DatagramOK(k)
    BY <1>1
  <1>6. LaneAt(p, writer'[p])
    BY <1>3
  <1> QED BY <1>4, <1>5, <1>6, LaneStepInv

\* A repair in fragments, of a sample that is not in shared memory for p.
LEMMA RepairStep ==
    ASSUME SharedInv, NEW p \in Readers, EmitRepair(p), UNCHANGED shmVars,
           LET w == Pruned(topic, p, writer[p]) IN w.nack # {} /\ ~ByDesc(p, Min(w.nack))
    PROVE  SharedInv'
  <1>1. PICK w : w = Pruned(topic, p, writer[p])
    OBVIOUS
  <1>2. PICK x : x = Min(w.nack)
    OBVIOUS
  <1>3. w.nack # {} /\ ~ByDesc(p, x)
    BY <1>1, <1>2
  <1>4. /\ writer[p].used
        /\ Emit(p, Repaired(topic, w),
                IF Found(topic, x) THEN DataMsg(p, Find(topic, x), x, FALSE) ELSE Heartbeat(p, w))
    BY <1>1, <1>2 DEF EmitRepair, Emittable
  <1>5. LaneAt(p, writer[p]) /\ LanePlaced(p) /\ join[p] \in Nat /\ RingOK
    BY <1>4, InUse
  <1>6. LaneAt(p, w) /\ x \in Nat /\ x < NextSeqno(topic) /\ join[p] <= x
    BY <1>1, <1>2, <1>3, <1>5, PrunedAt
  <1>7. LaneAt(p, Repaired(topic, w))
    BY <1>6, RepairedAt
  <1>8. NextSeqno(topic) > 0
    BY <1>5, <1>6, RingFacts
  <1>9. CASE Found(topic, x)
    <2>1. DatagramOK(DataMsg(p, Find(topic, x), x, FALSE))
      BY <1>3, <1>4, <1>5, <1>6, <1>9, DataOK
    <2>2. Emit(p, Repaired(topic, w), DataMsg(p, Find(topic, x), x, FALSE))
      BY <1>4, <1>9
    <2> QED BY <1>4, <1>7, <2>1, <2>2, EmitKeeps
  <1>10. CASE ~Found(topic, x)
    <2>1. DatagramOK(Heartbeat(p, w))
      BY <1>4, <1>5, <1>6, <1>8, BeatOK
    <2>2. Emit(p, Repaired(topic, w), Heartbeat(p, w))
      BY <1>4, <1>10
    <2> QED BY <1>4, <1>7, <2>1, <2>2, EmitKeeps
  <1> QED BY <1>9, <1>10

\* New data in fragments.
LEMMA PushStep ==
    ASSUME SharedInv, NEW p \in Readers, NEW ask \in BOOLEAN, EmitPush(p, ask), UNCHANGED shmVars,
           ~ByDesc(p, Pruned(topic, p, writer[p]).sent)
    PROVE  SharedInv'
  <1>1. PICK w : w = Pruned(topic, p, writer[p])
    OBVIOUS
  <1>2. PICK x : x = w.sent
    OBVIOUS
  <1>3. ~ByDesc(p, x)
    BY <1>1, <1>2
  <1>4. /\ writer[p].used /\ x < NextSeqno(topic)
        /\ Emit(p, Pushed(topic, w),
                IF Found(topic, x) THEN DataMsg(p, Find(topic, x), x, ask)
                                   ELSE Heartbeat(p, Pushed(topic, w)))
    BY <1>1, <1>2 DEF EmitPush, Emittable
  <1>5. LaneAt(p, writer[p]) /\ LanePlaced(p) /\ join[p] \in Nat /\ RingOK
    BY <1>4, InUse
  <1>6. LaneAt(p, w)
    BY <1>1, <1>5, PrunedAt
  <1>7. x \in Nat /\ join[p] <= x
    BY <1>2, <1>6 DEF LaneAt, WriterState
  <1>8. LaneAt(p, Pushed(topic, w))
    BY <1>2, <1>4, <1>5, <1>6, PushedAt
  <1>9. NextSeqno(topic) > 0
    BY <1>4, <1>5, <1>7, RingFacts
  <1>10. CASE Found(topic, x)
    <2>1. DatagramOK(DataMsg(p, Find(topic, x), x, ask))
      BY <1>3, <1>4, <1>5, <1>7, <1>10, DataOK
    <2>2. Emit(p, Pushed(topic, w), DataMsg(p, Find(topic, x), x, ask))
      BY <1>4, <1>10
    <2> QED BY <1>4, <1>8, <2>1, <2>2, EmitKeeps
  <1>11. CASE ~Found(topic, x)
    <2>1. DatagramOK(Heartbeat(p, Pushed(topic, w)))
      BY <1>4, <1>5, <1>8, <1>9, BeatOK
    <2>2. Emit(p, Pushed(topic, w), Heartbeat(p, Pushed(topic, w)))
      BY <1>4, <1>11
    <2> QED BY <1>4, <1>8, <2>1, <2>2, EmitKeeps
  <1> QED BY <1>10, <1>11

\* The timed heartbeat.
LEMMA HeartbeatStep ==
    ASSUME SharedInv, NEW p \in Readers, EmitHeartbeat(p), UNCHANGED shmVars
    PROVE  SharedInv'
  <1>1. PICK w : w = Pruned(topic, p, writer[p])
    OBVIOUS
  <1>2. writer[p].used /\ w.acked < NextSeqno(topic) /\ Emit(p, w, Heartbeat(p, w))
    BY <1>1 DEF EmitHeartbeat, Emittable
  <1>3. LaneAt(p, writer[p]) /\ join[p] \in Nat /\ RingOK
    BY <1>2, InUse
  <1>4. LaneAt(p, w)
    BY <1>1, <1>3, PrunedAt
  <1>5. NextSeqno(topic) > 0
    <2>1. w.acked \in Nat /\ NextSeqno(topic) \in Nat
      BY <1>3, <1>4, RingFacts DEF LaneAt, WriterState
    <2> QED BY <1>2, <2>1
  <1>6. DatagramOK(Heartbeat(p, w))
    BY <1>2, <1>3, <1>4, <1>5, BeatOK
  <1> QED BY <1>2, <1>4, <1>6, EmitKeeps

\* A repair by descriptor.
LEMMA RepairShmStep ==
    ASSUME SharedInv, NEW p \in Readers, RepairShm(p)
    PROVE  SharedInv'
  <1>1. PICK w : w = Pruned(topic, p, writer[p])
    OBVIOUS
  <1>2. PICK x : x = Min(w.nack)
    OBVIOUS
  <1>3. PICK s : s = Find(topic, x)
    OBVIOUS
  <1>4. /\ writer[p].used /\ w.nack # {} /\ ByDesc(p, x)
        /\ Emit(p, WithNack(w, w.nack \ (s.base .. (EndOf(s) - 1)), w.nackBase),
                ShmMsg(p, s, DescOf(s.base), FALSE))
        /\ UNCHANGED shmVars
    BY <1>1, <1>2, <1>3 DEF RepairShm, Emittable
  <1>5. LaneAt(p, writer[p]) /\ LanePlaced(p) /\ join[p] \in Nat /\ RingOK
    BY <1>4, InUse
  <1>6. LaneAt(p, w) /\ x \in Nat /\ join[p] <= x
    BY <1>1, <1>2, <1>4, <1>5, PrunedAt
  <1>7. LaneAt(p, WithNack(w, w.nack \ (s.base .. (EndOf(s) - 1)), w.nackBase))
    BY <1>6, AnsweredAt
  <1>8. DatagramOK(ShmMsg(p, s, DescOf(s.base), FALSE))
    BY <1>3, <1>4, <1>5, <1>6, ShmOK
  <1> QED BY <1>4, <1>7, <1>8, EmitKeeps

\* New data by descriptor.
LEMMA PushShmStep ==
    ASSUME SharedInv, NEW p \in Readers, NEW ask \in BOOLEAN, PushShm(p, ask)
    PROVE  SharedInv'
  <1>1. PICK w : w = Pruned(topic, p, writer[p])
    OBVIOUS
  <1>2. PICK x : x = w.sent
    OBVIOUS
  <1>3. PICK s : s = Find(topic, x)
    OBVIOUS
  <1>4. /\ writer[p].used /\ ByDesc(p, x)
        /\ Emit(p, [w EXCEPT !.sent = EndOf(s)], ShmMsg(p, s, DescOf(s.base), ask))
        /\ UNCHANGED shmVars
    BY <1>1, <1>2, <1>3 DEF PushShm, Emittable
  <1>5. LaneAt(p, writer[p]) /\ LanePlaced(p) /\ join[p] \in Nat /\ RingOK
    BY <1>4, InUse
  <1>6. LaneAt(p, w)
    BY <1>1, <1>5, PrunedAt
  <1>7. x \in Nat /\ join[p] <= x
    BY <1>2, <1>6 DEF LaneAt, WriterState
  <1>8. DatagramOK(ShmMsg(p, s, DescOf(s.base), ask)) /\ EndOf(s) \in Nat /\ x < EndOf(s)
    BY <1>3, <1>4, <1>5, <1>7, ShmOK
  <1>9. LaneAt(p, [w EXCEPT !.sent = EndOf(s)])
    <2>1. join[p] <= EndOf(s)
      BY <1>5, <1>7, <1>8
    <2> QED BY <1>5, <1>6, <1>8, <2>1, SentAt
  <1> QED BY <1>4, <1>8, <1>9, EmitKeeps

\* Nothing but datagrams is gone.
LEMMA OnlyNetStep ==
    ASSUME SharedInv, net' \subseteq net,
           UNCHANGED <<topic, writer, reader, wDormant, epochs, join, chunk, sent, gather, look, held, got>>
    PROVE  SharedInv'
  <1>1. /\ topic' = topic /\ reader' = reader /\ wDormant' = wDormant /\ epochs' = epochs /\ join' = join
        /\ chunk' = chunk /\ sent' = sent /\ gather' = gather /\ look' = look /\ held' = held /\ got' = got
        /\ writer' = writer
    OBVIOUS
  <1>2. RingOK' /\ PoolOK' /\ ContentOK'
    BY <1>1 DEF SharedInv, RingOK, PoolOK, ContentOK, Slot, Described, Overwritten
  <1>3. \A q, i : ByDescriptor(q, i)' <=> ByDescriptor(q, i)
    BY <1>1 DEF ByDescriptor, Described
  <1>4. \A q : InlineFor(q)' = InlineFor(q)
    BY <1>1, <1>3 DEF InlineFor
  <1>5. \A q, i : Waiting(q, i)' <=> Waiting(q, i)
    BY <1>1, <1>3 DEF Waiting
  <1>6. ASSUME NEW q \in Readers
        PROVE  WaitingKept(q)' /\ LanePlaced(q)' /\ ReaderPlaced(q)' /\ SeatOK(q)'
    <2>0. WaitingKept(q) /\ LanePlaced(q) /\ ReaderPlaced(q) /\ SeatOK(q)
      BY DEF SharedInv
    <2>1. WaitingKept(q)'
      BY <1>1, <1>5, <2>0 DEF WaitingKept, Overwritten
    <2>2. LanePlaced(q)'
      BY <1>1, <2>0 DEF LanePlaced
    <2>3. ReaderPlaced(q)'
      BY <1>1, <1>4, <2>0 DEF ReaderPlaced
    <2>4. SeatOK(q)'
      <3>1. \A b, c, d : Names(q, b, c, d) => Names(q, b, c, d)'
        BY <1>1, <1>5 DEF Names
      <3> QED BY <1>1, <2>0, <3>1 DEF SeatOK
    <2> QED BY <2>1, <2>2, <2>3, <2>4
  <1>7. ASSUME NEW m, DatagramOK(m)
        PROVE  DatagramOK(m)'
    <2>1. PlainData(m) => PlainData(m)'
      BY <1>1, <1>4 DEF PlainData
    <2>2. Descriptor(m) => Descriptor(m)'
      BY <1>1, <1>3 DEF Descriptor
    <2>3. Beat(m) => Beat(m)'
      BY <1>1 DEF Beat
    <2>4. Ack(m) => Ack(m)'
      BY <1>1, <1>5 DEF Ack
    <2> QED BY <1>7, <2>1, <2>2, <2>3, <2>4 DEF DatagramOK
  <1>8. \A m \in net' : DatagramOK(m)'
    BY <1>7 DEF SharedInv
  <1>9. \A q \in Readers : WaitingKept(q)' /\ LanePlaced(q)' /\ ReaderPlaced(q)' /\ SeatOK(q)'
    BY <1>6
  <1> QED BY <1>1, <1>2, <1>8, <1>9 DEF SharedInv

\* Requests of the reader the lane belongs to leave the lane in its place.
LEMMA MergeAt ==
    ASSUME NEW p, NEW w, LaneAt(p, w), NEW m, m.bits \in SUBSET Nat, m.base \in Nat,
           \A x \in m.bits : join[p] <= x
    PROVE  LaneAt(p, MergeNack(w, m))
  <1>1. w.nack \in SUBSET Nat /\ w.nackBase \in Nat /\ \A x \in w.nack : join[p] <= x
    BY DEF LaneAt, WriterState
  <1>2. PICK b \in Nat : b = IF w.nack = {} THEN m.base ELSE IF m.base > w.nackBase THEN m.base ELSE w.nackBase
    BY <1>1
  <1>3. PICK K : K = {x \in w.nack : x >= b}
    OBVIOUS
  <1>4. PICK M : M = {x \in m.bits : x >= b}
    OBVIOUS
  <1>5. K \cup M \in SUBSET Nat /\ \A x \in K \cup M : join[p] <= x
    BY <1>1, <1>3, <1>4
  <1>6. LaneAt(p, WithNack(w, m.bits, m.base)) /\ LaneAt(p, WithNack(w, K \cup M, b))
    BY <1>5, WithNackAt
  <1>7. MergeNack(w, m) = IF K = {} THEN WithNack(w, m.bits, m.base) ELSE WithNack(w, K \cup M, b)
    BY <1>2, <1>3, <1>4 DEF MergeNack
  <1> QED BY <1>6, <1>7

\* An ACKNACK of the incarnation the lane belongs to leaves the lane in its place.
LEMMA WriterNackAt ==
    ASSUME RingOK, NEW p, join[p] \in Nat, NEW w, LaneAt(p, w), NEW m, Ack(m), m.lane = p
    PROVE  LaneAt(p, WriterNack(topic, p, w, m)) /\ w.epoch \in {0, m.epoch}
  <1>1. w \in WriterState /\ w.acked \in Nat /\ w.sent \in Nat
    BY DEF LaneAt, WriterState
  <1>2. m.epoch \in Nat /\ m.epoch = reader[p].epoch /\ w.epoch \in {0, m.epoch} /\ m.unpos \in BOOLEAN
    BY DEF Ack, LaneAt
  <1>3. PICK v : v = [w EXCEPT !.epoch = m.epoch]
    OBVIOUS
  <1>4. /\ v \in WriterState /\ v.used = w.used /\ v.epoch = m.epoch /\ v.acked = w.acked
        /\ v.sent = w.sent /\ v.nack = w.nack
    BY <1>1, <1>2, <1>3 DEF WriterState
  <1>5. LaneAt(p, v)
    BY <1>2, <1>4 DEF LaneAt
  <1>6. CASE m.unpos
    <2>1. PICK x \in Nat : x = IF v.acked < v.sent THEN v.acked ELSE v.sent
      BY <1>1, <1>4
    <2>2. join[p] <= x
      BY <1>5, <2>1 DEF LaneAt
    <2>3. WriterNack(topic, p, w, m) = [v EXCEPT !.sent = x]
      BY <1>2, <1>3, <1>6, <2>1 DEF WriterNack, Repush
    <2> QED BY <1>2, <1>5, <2>2, <2>3, SentAt
  <1>7. CASE ~m.unpos
    <2>0. /\ m.base \in Nat /\ m.bits \in SUBSET Nat /\ m.base <= NextSeqno(topic)
          /\ \A x \in m.bits : join[p] <= x
          /\ \A i \in 1 .. Len(topic.smp) : Waiting(p, i) => m.base < EndOf(topic.smp[i])
      BY <1>7 DEF Ack
    <2>1. PICK x \in Nat : x = IF v.acked < m.base THEN m.base ELSE v.acked
      BY <1>1, <1>4, <2>0
    <2>2. PICK u : u = [v EXCEPT !.acked = x]
      OBVIOUS
    <2>3. /\ u \in WriterState /\ u.used = v.used /\ u.epoch = v.epoch /\ u.acked = x
          /\ u.sent = v.sent /\ u.nack = v.nack
      BY <1>4, <2>2 DEF WriterState
    <2>4. join[p] <= x /\ x <= NextSeqno(topic)
      <3>1. join[p] <= v.acked /\ v.acked <= NextSeqno(topic) /\ v.acked \in Nat
        BY <1>1, <1>4, <1>5 DEF LaneAt
      <3> QED BY <2>0, <2>1, <3>1
    <2>5. \A i \in 1 .. Len(topic.smp) : Waiting(p, i) => x < EndOf(topic.smp[i])
      BY <1>5, <2>0, <2>1 DEF LaneAt
    <2>6. LaneAt(p, u)
      BY <1>5, <2>3, <2>4, <2>5 DEF LaneAt
    <2>7. PICK a : a = LaneAdvance(topic, p, u)
      OBVIOUS
    <2>8. LaneAt(p, a)
      BY <2>6, <2>7, AdvanceAt
    <2>9. LaneAt(p, MergeNack(a, m))
      BY <2>0, <2>8, MergeAt
    <2>10. WriterNack(topic, p, w, m) = MergeNack(a, m)
      BY <1>2, <1>3, <1>7, <2>1, <2>2, <2>7 DEF WriterNack
    <2> QED BY <1>2, <2>9, <2>10
  <1> QED BY <1>2, <1>6, <1>7

\* An ACKNACK arrives: it never acks what the reader may still resolve.
LEMMA RecvNackStep ==
    ASSUME SharedInv, NEW m, RecvNack(m), UNCHANGED shmVars
    PROVE  SharedInv'
  <1>1. /\ m \in net /\ m.type = "nack" /\ Taken(m)
        /\ UNCHANGED <<topic, reader, wDormant, epochs, chunk, sent, gather, look, held, got>>
    BY DEF RecvNack, shmVars
  <1>2. net' \subseteq net
    BY <1>1 DEF Taken
  <1>3. DatagramOK(m)
    BY <1>1 DEF SharedInv
  <1>4. m.lane \in Readers /\ Ack(m)
    BY <1>1, <1>3 DEF DatagramOK
  <1>5. PICK p \in Readers : p = m.lane
    BY <1>4
  <1>6. writer = [q \in Readers |-> writer[q]] /\ join = [q \in Readers |-> join[q]]
    BY DEF SharedInv
  <1>7. /\ writer' = [writer EXCEPT ![p] = IF writer[p].used THEN WriterNack(topic, p, writer[p], m) ELSE writer[p]]
        /\ join' = [join EXCEPT ![p] = IF writer[p].used /\ writer[p].epoch \notin {0, m.epoch}
                                       THEN Smaller(writer[p].acked, JoinSeqno(topic)) ELSE join[p]]
    BY <1>5 DEF RecvNack
  <1>8. CASE ~writer[p].used
    <2>1. writer' = writer /\ join' = join
      BY <1>6, <1>7, <1>8
    <2> QED BY <1>1, <1>2, <2>1, OnlyNetStep
  <1>9. CASE writer[p].used
    <2>1. LaneAt(p, writer[p]) /\ join[p] \in Nat /\ RingOK
      BY <1>9, InUse
    <2>2. LaneAt(p, WriterNack(topic, p, writer[p], m)) /\ writer[p].epoch \in {0, m.epoch}
      BY <1>4, <1>5, <2>1, WriterNackAt
    <2>3. join' = join
      BY <1>6, <1>7, <2>2
    <2>4. Only(p, writer, writer') /\ writer'[p] = WriterNack(topic, p, writer[p], m)
      BY <1>6, <1>7, <1>9, OnlyUpdate
    <2>5. LaneFrame(p)
      BY <1>1, <2>3, <2>4 DEF LaneFrame
    <2>6. LaneAt(p, writer'[p])
      BY <2>2, <2>4
    <2>7. \A k \in net' : k \in net \/ DatagramOK(k)
      BY <1>2
    <2> QED BY <1>9, <2>5, <2>6, <2>7, LaneStepInv
  <1> QED BY <1>8, <1>9

\* A reader joins at the start of a cached sample or at the head.
LEMMA JoinPlaced ==
    ASSUME RingOK
    PROVE  LET s == JoinSeqno(topic) IN
           /\ s \in Nat /\ s <= NextSeqno(topic)
           /\ \A i \in 1 .. Len(topic.smp) : topic.smp[i].base < s => EndOf(topic.smp[i]) <= s
           /\ \A i \in 1 .. Len(topic.smp) : s <= topic.smp[i].base => topic.lo <= i
  <1> DEFINE replay == {i \in Cached(topic) :
                           \/ i + CatchUp > Len(topic.smp)
                           \/ topic.fresh /\ ~Directed /\ topic.smp[i].base >= topic.freshFrom}
             S == {topic.smp[i].base : i \in replay} \cup {NextSeqno(topic)}
  <1>1. JoinSeqno(topic) = Min(S)
    BY DEF JoinSeqno
  <1>2. replay \subseteq Cached(topic) /\ replay \subseteq 1 .. Len(topic.smp)
    BY RingFacts
  <1> HIDE DEF replay
  <1>3. S # {} /\ S \in SUBSET Nat /\ \A x \in S : x <= NextSeqno(topic)
    BY <1>2, RingFacts
  <1>4. \A x \in S : x = NextSeqno(topic) \/ \E k \in Cached(topic) : x = topic.smp[k].base
    BY <1>2
  <1> HIDE DEF S
  <1>5. PICK s : s = Min(S)
    OBVIOUS
  <1>6. s \in Nat /\ s <= NextSeqno(topic) /\ (s = NextSeqno(topic) \/ \E k \in Cached(topic) : s = topic.smp[k].base)
    BY <1>3, <1>4, <1>5, MinNat
  <1>7. ASSUME NEW i \in 1 .. Len(topic.smp)
        PROVE  /\ topic.smp[i].base < s => EndOf(topic.smp[i]) <= s
               /\ s <= topic.smp[i].base => topic.lo <= i
    <2>0. /\ topic.smp[i].base \in Nat /\ EndOf(topic.smp[i]) \in Nat /\ topic.smp[i].base < EndOf(topic.smp[i])
          /\ EndOf(topic.smp[i]) <= NextSeqno(topic) /\ NextSeqno(topic) \in Nat
      BY RingFacts
    <2>1. CASE s = NextSeqno(topic)
      BY <2>0, <2>1
    <2>2. CASE \E k \in Cached(topic) : s = topic.smp[k].base
      <3>1. PICK k \in Cached(topic) : s = topic.smp[k].base
        BY <2>2
      <3>2. k \in 1 .. Len(topic.smp) /\ topic.lo <= k /\ topic.lo \in Nat /\ k \in Int /\ i \in Int
        BY RingFacts
      <3>3. topic.smp[k].base \in Nat /\ EndOf(topic.smp[k]) \in Nat /\ topic.smp[k].base < EndOf(topic.smp[k])
        BY <3>2, RingFacts
      <3>4. i < k => EndOf(topic.smp[i]) <= topic.smp[k].base
        BY <3>2 DEF RingOK, TopicOK
      <3>5. k < i => EndOf(topic.smp[k]) <= topic.smp[i].base
        BY <3>2 DEF RingOK, TopicOK
      <3>6. topic.smp[i].base < s => i < k
        BY <2>0, <3>1, <3>2, <3>3, <3>5
      <3>7. s <= topic.smp[i].base => ~(i < k)
        BY <2>0, <3>1, <3>2, <3>3, <3>4
      <3> QED BY <3>1, <3>2, <3>4, <3>6, <3>7
    <2> QED BY <1>6, <2>1, <2>2
  <1> QED BY <1>1, <1>5, <1>6, <1>7

\* A fresh lane, for a reader nothing was sent to yet.
LEMMA WriterMatchStep ==
    ASSUME SharedInv, NEW p \in Readers, WriterMatch(p), gather = Idle, UNCHANGED shmVars
    PROVE  SharedInv'
  <1>0. /\ RingOK /\ PoolOK /\ ContentOK
        /\ reader = [q \in Readers |-> reader[q]]
        /\ look = [q \in Readers |-> look[q]] /\ held = [q \in Readers |-> held[q]]
        /\ got = [q \in Readers |-> got[q]] /\ epochs \in Nat
        /\ \A q \in Readers : WaitingKept(q) /\ LanePlaced(q) /\ ReaderPlaced(q) /\ SeatOK(q)
        /\ \A m \in net : DatagramOK(m)
    BY DEF SharedInv
  <1>1. /\ topic' = topic /\ reader' = reader /\ wDormant' = wDormant /\ epochs' = epochs /\ net' = net
        /\ chunk' = chunk /\ sent' = sent /\ gather' = gather /\ look' = look /\ held' = held /\ got' = got
    BY DEF WriterMatch, shmVars
  <1>2. /\ ~writer[p].used
        /\ writer' = [writer EXCEPT ![p] = JoinedAt(JoinSeqno(topic))]
        /\ join' = [join EXCEPT ![p] = JoinSeqno(topic)]
    BY DEF WriterMatch
  <1>3. writer = [q \in Readers |-> writer[q]] /\ join = [q \in Readers |-> join[q]]
    BY DEF SharedInv
  <1>4. PICK s : s = JoinSeqno(topic)
    OBVIOUS
  <1>5. /\ s \in Nat /\ s <= NextSeqno(topic)
        /\ \A i \in 1 .. Len(topic.smp) : topic.smp[i].base < s => EndOf(topic.smp[i]) <= s
        /\ \A i \in 1 .. Len(topic.smp) : s <= topic.smp[i].base => topic.lo <= i
    BY <1>0, <1>4, JoinPlaced
  <1>6. PICK w : w = JoinedAt(s)
    OBVIOUS
  <1>7. w \in WriterState /\ w.used /\ w.epoch = 0 /\ w.sent = s /\ w.acked = s /\ w.nack = {}
    <2> DEFINE y == TRUE
    <2>1. y \in BOOLEAN /\ y
      OBVIOUS
    <2>2. w = [NoWriter EXCEPT !.used = y, !.sent = s, !.acked = s]
      BY <1>6 DEF JoinedAt
    <2> HIDE DEF y
    <2>3. NoWriter \in WriterState /\ NoWriter.nack = {} /\ NoWriter.epoch = 0
      BY DEF NoWriter, WriterState
    <2>4. w \in WriterState /\ w.used = y /\ w.epoch = NoWriter.epoch /\ w.sent = s /\ w.acked = s
          /\ w.nack = NoWriter.nack
      BY <1>5, <2>1, <2>2, <2>3 DEF WriterState
    <2> QED BY <2>1, <2>3, <2>4
  <1>8. /\ Only(p, writer, writer') /\ writer'[p] = w
        /\ Only(p, join, join') /\ join'[p] = s
    BY <1>2, <1>3, <1>4, <1>6, OnlyUpdate
  <1>9. \A q \in Readers : q # p => writer'[q] = writer[q] /\ join'[q] = join[q]
    BY <1>8 DEF Only
  <1>10. ~reader[p].started /\ ~reader[p].cur.on /\ ~reader[p].nxt.on /\ held[p] = Inline /\ look[p] = Idle
    BY <1>0, <1>2 DEF ReaderPlaced, Tidy, SeatOK
  <1>11. RingOK' /\ PoolOK' /\ ContentOK'
    BY <1>0, <1>1 DEF RingOK, PoolOK, ContentOK, Slot, Described, Overwritten
  <1>12. \A q, i : ByDescriptor(q, i)' <=> ByDescriptor(q, i)
    BY <1>1 DEF ByDescriptor, Described
  <1>13. \A q \in Readers : q # p => InlineFor(q)' = InlineFor(q)
    BY <1>1, <1>9, <1>12 DEF InlineFor
  <1>14. \A q \in Readers : q # p => \A i : Waiting(q, i)' <=> Waiting(q, i)
    BY <1>1, <1>9, <1>12 DEF Waiting
  <1>15. ASSUME NEW q \in Readers
         PROVE  WaitingKept(q)' /\ LanePlaced(q)' /\ ReaderPlaced(q)' /\ SeatOK(q)'
    <2>0. WaitingKept(q) /\ LanePlaced(q) /\ ReaderPlaced(q) /\ SeatOK(q)
      BY <1>0
    <2>1. CASE q # p
      <3>1. WaitingKept(q)'
        BY <1>1, <1>9, <1>14, <2>0, <2>1 DEF WaitingKept, Overwritten
      <3>2. LanePlaced(q)'
        BY <1>1, <1>9, <2>0, <2>1 DEF LanePlaced
      <3>3. ReaderPlaced(q)'
        BY <1>1, <1>9, <1>13, <2>0, <2>1 DEF ReaderPlaced
      <3>4. SeatOK(q)'
        <4>1. \A b, c, d : Names(q, b, c, d) => Names(q, b, c, d)'
          BY <1>1, <1>14, <2>1 DEF Names
        <4> QED BY <1>1, <2>0, <4>1 DEF SeatOK
      <3> QED BY <3>1, <3>2, <3>3, <3>4
    <2>2. CASE q = p
      <3>1. WaitingKept(p)'
        <4>1. \A i \in 1 .. Len(topic.smp) : Waiting(p, i)' => s <= topic.smp[i].base
          BY <1>1, <1>8 DEF Waiting
        <4>2. \A i \in 1 .. Len(topic.smp) : s <= topic.smp[i].base => s < EndOf(topic.smp[i])
          BY <1>0, <1>5, RingFacts
        <4> QED BY <1>1, <1>5, <1>7, <1>8, <4>1, <4>2 DEF WaitingKept
      <3>2. LanePlaced(p)'
        <4>1. writer'[p] \in WriterState /\ writer'[p].used /\ writer'[p].epoch \in {0, reader[p].epoch}
          BY <1>7, <1>8
        <4>2. /\ join'[p] <= writer'[p].acked /\ writer'[p].acked <= NextSeqno(topic)
              /\ join'[p] <= writer'[p].sent /\ \A x \in writer'[p].nack : join'[p] <= x
          BY <1>5, <1>7, <1>8
        <4>3. ~wDormant[p]
          BY <1>0 DEF LanePlaced
        <4> QED BY <1>1, <1>5, <1>8, <4>1, <4>2, <4>3 DEF LanePlaced
      <3>3. ReaderPlaced(p)'
        <4>1. Tidy(reader[p], InlineFor(p)', s, NextSeqno(topic))
          BY <1>10, <2>0, <2>2 DEF ReaderPlaced, Tidy
        <4> QED BY <1>1, <1>8, <1>10, <2>0, <2>2, <4>1 DEF ReaderPlaced
      <3>4. SeatOK(p)'
        BY <1>1, <1>10, <2>0, <2>2 DEF SeatOK
      <3> QED BY <2>2, <3>1, <3>2, <3>3, <3>4
    <2> QED BY <2>1, <2>2
  <1>16. ASSUME NEW m \in net
         PROVE  DatagramOK(m)'
    <2>0. DatagramOK(m) /\ m.lane \in Readers
      BY <1>0 DEF DatagramOK
    <2>1. CASE m.lane # p
      <3>2. PlainData(m) => PlainData(m)'
        BY <1>9, <1>13, <2>0, <2>1 DEF PlainData
      <3>3. Descriptor(m) => Descriptor(m)'
        BY <1>1, <1>9, <1>12, <2>0, <2>1 DEF Descriptor
      <3>4. Beat(m) => Beat(m)'
        BY <1>1, <1>9, <2>0, <2>1 DEF Beat
      <3>5. Ack(m) => Ack(m)'
        BY <1>1, <1>9, <1>14, <2>0, <2>1 DEF Ack
      <3> QED BY <2>0, <3>2, <3>3, <3>4, <3>5 DEF DatagramOK
    <2>2. CASE m.lane = p
      <3>1. m.type = "nack" /\ m.type # "data" /\ m.type # "hb"
        BY <1>2, <2>0, <2>2 DEF DatagramOK, PlainData, Descriptor, Beat
      <3>2. Ack(m) /\ m.unpos
        BY <1>2, <2>0, <2>2, <3>1 DEF DatagramOK, Ack
      <3>3. Ack(m)'
        BY <1>1, <3>2 DEF Ack
      <3> QED BY <2>0, <3>1, <3>3 DEF DatagramOK
    <2> QED BY <2>1, <2>2
  <1>17. \A m \in net' : DatagramOK(m)'
    BY <1>1, <1>16
  <1>18. \A q \in Readers : WaitingKept(q)' /\ LanePlaced(q)' /\ ReaderPlaced(q)' /\ SeatOK(q)'
    BY <1>15
  <1>19. /\ writer' = [q \in Readers |-> writer'[q]] /\ join' = [q \in Readers |-> join'[q]]
    BY <1>8 DEF Only
  <1> QED BY <1>0, <1>1, <1>11, <1>17, <1>18, <1>19 DEF SharedInv

\* Everything the writer's process does on its lanes without shared memory.
LEMMA WriterElseStep ==
    ASSUME SharedInv, NEW p \in Readers, WriterElse(p)
    PROVE  SharedInv'
  <1>1. gather = Idle /\ UNCHANGED shmVars
    BY DEF WriterElse
  <1>2. PICK w : w = Pruned(topic, p, writer[p])
    OBVIOUS
  <1>3. \/ WriterMatch(p)
        \/ w.nack # {} /\ ~ByDesc(p, Min(w.nack)) /\ EmitRepair(p)
        \/ ~ByDesc(p, w.sent) /\ \E ask \in AskChoices : EmitPush(p, ask)
        \/ EmitHeartbeat(p)
        \/ \E m \in net : RecvNack(m)
    BY <1>2 DEF WriterElse
  <1>4. CASE WriterMatch(p)
    BY <1>1, <1>4, WriterMatchStep
  <1>5. CASE w.nack # {} /\ ~ByDesc(p, Min(w.nack)) /\ EmitRepair(p)
    BY <1>1, <1>2, <1>5, RepairStep
  <1>6. CASE ~ByDesc(p, w.sent) /\ \E ask \in AskChoices : EmitPush(p, ask)
    <2>1. PICK ask \in AskChoices : EmitPush(p, ask)
      BY <1>6
    <2>2. ask \in BOOLEAN
      BY TopicAssumption
    <2> QED BY <1>1, <1>2, <1>6, <2>1, <2>2, PushStep
  <1>7. CASE EmitHeartbeat(p)
    BY <1>1, <1>7, HeartbeatStep
  <1>8. CASE \E m \in net : RecvNack(m)
    BY <1>1, <1>8, RecvNackStep
  <1> QED BY <1>3, <1>4, <1>5, <1>6, <1>7, <1>8

-----------------------------------------------------------------------------
(* The publisher.                                                          *)

\* A send that waited for its readers has nobody waiting for what it overwrites.
LEMMA NobodyWaits ==
    ASSUME SharedInv, Patient, NEW p \in Readers,
           \A q \in Readers : ~wDormant[q] => ~Owed(topic, q, writer[q]),
           NEW i \in 1 .. Len(topic.smp), Waiting(p, i)
    PROVE  ~Overwritten(i)
  <1>1. WaitingKept(p) /\ LanePlaced(p) /\ RingOK
    BY DEF SharedInv
  <1>2. writer[p].used /\ writer[p].acked < EndOf(topic.smp[i])
    BY <1>1 DEF WaitingKept, Waiting
  <1>3. topic.smp[i].dest = DestAll
    BY <1>1 DEF RingOK
  <1>4. ~Owed(topic, p, writer[p])
    BY <1>1 DEF LanePlaced
  <1>5. i = topic.lo => ~RingFull(topic)
    BY <1>2, <1>3, <1>4 DEF Owed
  <1> QED BY <1>5 DEF Overwritten

\* only the chunks and the gather move
PoolFrame ==
    UNCHANGED <<topic, writer, reader, wDormant, epochs, join, net, sent, look, held, got>>

\* A step of the publisher into the pool alone.
LEMMA PoolStepInv ==
    ASSUME SharedInv, PoolFrame, PoolOK', ContentOK',
           gather' # Idle => \A p \in Readers : \A i \in 1 .. Len(topic.smp) : Waiting(p, i) => ~Overwritten(i)
    PROVE  SharedInv'
  <1>1. /\ topic' = topic /\ reader' = reader /\ wDormant' = wDormant /\ epochs' = epochs /\ join' = join
        /\ net' = net /\ sent' = sent /\ look' = look /\ held' = held /\ got' = got
        /\ writer' = writer
    BY DEF PoolFrame
  <1>2. RingOK'
    BY <1>1 DEF SharedInv, RingOK
  <1>3. \A q, i : ByDescriptor(q, i)' <=> ByDescriptor(q, i)
    BY <1>1 DEF ByDescriptor, Described
  <1>4. \A q : InlineFor(q)' = InlineFor(q)
    BY <1>1, <1>3 DEF InlineFor
  <1>5. \A q, i : Waiting(q, i)' <=> Waiting(q, i)
    BY <1>1, <1>3 DEF Waiting
  <1>6. ASSUME NEW q \in Readers
        PROVE  WaitingKept(q)' /\ LanePlaced(q)' /\ ReaderPlaced(q)' /\ SeatOK(q)'
    <2>0. WaitingKept(q) /\ LanePlaced(q) /\ ReaderPlaced(q) /\ SeatOK(q)
      BY DEF SharedInv
    <2>1. WaitingKept(q)'
      BY <1>1, <1>5, <2>0 DEF WaitingKept, Overwritten
    <2>2. LanePlaced(q)'
      BY <1>1, <2>0 DEF LanePlaced
    <2>3. ReaderPlaced(q)'
      BY <1>1, <1>4, <2>0 DEF ReaderPlaced
    <2>4. SeatOK(q)'
      <3>1. \A b, c, d : Names(q, b, c, d) => Names(q, b, c, d)'
        BY <1>1, <1>5 DEF Names
      <3> QED BY <1>1, <2>0, <3>1 DEF SeatOK
    <2> QED BY <2>1, <2>2, <2>3, <2>4
  <1>7. ASSUME NEW m, DatagramOK(m)
        PROVE  DatagramOK(m)'
    <2>1. PlainData(m) => PlainData(m)'
      BY <1>1, <1>4 DEF PlainData
    <2>2. Descriptor(m) => Descriptor(m)'
      BY <1>1, <1>3 DEF Descriptor
    <2>3. Beat(m) => Beat(m)'
      BY <1>1 DEF Beat
    <2>4. Ack(m) => Ack(m)'
      BY <1>1, <1>5 DEF Ack
    <2> QED BY <1>7, <2>1, <2>2, <2>3, <2>4 DEF DatagramOK
  <1>8. \A m \in net' : DatagramOK(m)'
    BY <1>1, <1>7 DEF SharedInv
  <1>9. \A q \in Readers : WaitingKept(q)' /\ LanePlaced(q)' /\ ReaderPlaced(q)' /\ SeatOK(q)'
    BY <1>6
  <1> QED BY <1>1, <1>2, <1>8, <1>9 DEF SharedInv

\* The chunk of the next message is that of the oldest sample of a full ring, and of
\* no other sample in the ring.
LEMMA SlotFree ==
    ASSUME RingOK, NEW i \in Cached(topic), (i - 1) % KeepLast = Slot
    PROVE  Overwritten(i)
  <1> DEFINE n == Len(topic.smp)
  <1>1. /\ n \in Nat /\ topic.lo \in Nat /\ KeepLast \in Nat /\ KeepLast > 0 /\ i \in topic.lo .. n
        /\ i \in 1 .. n
    BY RingFacts
  <1>2. n < topic.lo + KeepLast
    BY DEF RingOK
  <1>3. i \in Nat /\ 0 < i /\ i <= n /\ n < i + KeepLast
    BY <1>1, <1>2
  <1>4. (i - 1) % KeepLast = n % KeepLast
    BY DEF Slot
  <1> HIDE DEF n
  <1>5. n + 1 = i + KeepLast
    BY <1>1, <1>3, <1>4, SlotTaken
  <1>6. i = topic.lo
    BY <1>1, <1>2, <1>5
  <1> QED BY <1>5, <1>6 DEF Overwritten, RingFull, n

\* The slot of the next message is a chunk.
LEMMA SlotChunk ==
    ASSUME RingOK
    PROVE  Slot \in Chunks
  <1>1. Len(topic.smp) \in Nat /\ KeepLast \in Nat /\ KeepLast > 0
    BY RingFacts
  <1>2. PICK n \in Nat : n = Len(topic.smp)
    BY <1>1
  <1>3. n % KeepLast \in 0 .. KeepLast - 1
    BY <1>1
  <1> QED BY <1>2, <1>3 DEF Slot, Chunks

\* a chunk with other parts
Written(k, v) == chunk' = [chunk EXCEPT ![k][Slot].parts = v]

\* Bytes land in the chunk of the next message only.
LEMMA WrittenOK ==
    ASSUME SharedInv, NEW k \in Classes, NEW v \in Parts, Written(k, v), topic' = topic, sent' = sent,
           gather' \in [at : {"half", "full"}, class : Classes], gather'.class = k
    PROVE  /\ ContentOK'
           /\ chunk' \in [Classes -> [Chunks -> [gen : Nat, parts : Parts]]]
           /\ chunk'[k][Slot].parts = v
  <1>1. RingOK /\ ContentOK /\ chunk \in [Classes -> [Chunks -> [gen : Nat, parts : Parts]]] /\ Slot \in Chunks
    BY SlotChunk DEF SharedInv, PoolOK
  <1>2. PICK z : z = Slot
    OBVIOUS
  <1>3. z \in Chunks /\ chunk' = [chunk EXCEPT ![k][z].parts = v]
    BY <1>1, <1>2 DEF Written
  <1>4. chunk' \in [Classes -> [Chunks -> [gen : Nat, parts : Parts]]] /\ chunk'[k][z].parts = v
    BY <1>1, <1>3
  <1>5. \A c \in Classes, j \in Chunks : (c # k \/ j # z) => chunk'[c][j] = chunk[c][j]
    BY <1>1, <1>3
  <1>6. Idle # gather'
    BY DEF Idle
  <1>7. ASSUME NEW i \in Cached(topic), Described(i), ~Overwritten(i)
        PROVE  chunk'[sent[i].class][sent[i].chunk].parts = <<topic.smp[i].base, topic.smp[i].base>>
    <2>1. /\ sent[i].class \in Classes /\ sent[i].chunk = (i - 1) % KeepLast
          /\ chunk[sent[i].class][sent[i].chunk].parts = <<topic.smp[i].base, topic.smp[i].base>>
      BY <1>1, <1>7 DEF ContentOK
    <2>2. sent[i].chunk # z
      BY <1>1, <1>2, <1>7, <2>1, SlotFree
    <2>3. sent[i].chunk \in Chunks
      <3>1. i - 1 \in Int /\ KeepLast \in Nat /\ KeepLast > 0
        BY <1>1, RingFacts
      <3>2. (i - 1) % KeepLast \in 0 .. KeepLast - 1
        BY <3>1
      <3> QED BY <2>1, <3>2 DEF Chunks
    <2> QED BY <1>5, <2>1, <2>2, <2>3
  <1>8. ContentOK'
    <2>1. \A i : Described(i)' <=> Described(i)
      BY DEF Described
    <2>2. \A i : Overwritten(i)' <=> Overwritten(i)
      BY DEF Overwritten
    <2>3. \A i \in Cached(topic) : Described(i) => sent[i].class \in Classes /\ sent[i].chunk = (i - 1) % KeepLast
      BY <1>1 DEF ContentOK
    <2> QED BY <1>6, <1>7, <2>1, <2>2, <2>3 DEF ContentOK
  <1> QED BY <1>2, <1>4, <1>8

\* The first bytes land in a chunk nobody may still copy from: the send has waited.
LEMMA GatherFirstStep ==
    ASSUME SharedInv, Patient, NEW k \in Classes, GatherFirst(k)
    PROVE  SharedInv'
  <1>1. /\ gather = Idle /\ MayStart /\ gather' = [at |-> "half", class |-> k]
        /\ chunk' = [chunk EXCEPT ![k][Slot].parts[1] = NextSeqno(topic)]
        /\ UNCHANGED <<vars, sent, look, held, fails, mapped, got>>
    BY DEF GatherFirst
  <1>2. RingOK /\ chunk \in [Classes -> [Chunks -> [gen : Nat, parts : Parts]]] /\ Slot \in Chunks
    BY SlotChunk DEF SharedInv, PoolOK
  <1>3. NextSeqno(topic) \in Nat
    BY <1>2, RingFacts
  <1>4. PoolFrame /\ topic' = topic /\ sent' = sent
    BY <1>1 DEF PoolFrame, vars
  <1>5. PICK z : z = Slot
    OBVIOUS
  <1>6. PICK n \in Nat : n = NextSeqno(topic)
    BY <1>3
  <1>7. PICK b : b = chunk[k][z].parts[2]
    OBVIOUS
  <1>8. chunk[k][z].parts \in Parts /\ b \in Nat \cup {Nobody}
    BY <1>2, <1>5, <1>7 DEF Parts
  <1>9. [chunk[k][z].parts EXCEPT ![1] = n] = <<n, b>>
    BY <1>7, <1>8 DEF Parts
  <1>10. Written(k, <<n, b>>)
    <2>1. chunk' = [chunk EXCEPT ![k][z].parts[1] = n]
      BY <1>1, <1>5, <1>6
    <2>2. [chunk EXCEPT ![k][z].parts[1] = n] = [chunk EXCEPT ![k][z].parts = [chunk[k][z].parts EXCEPT ![1] = n]]
      BY <1>2, <1>5
    <2> QED BY <1>5, <1>9, <2>1, <2>2 DEF Written
  <1>11. <<n, b>> \in Parts
    BY <1>8 DEF Parts
  <1>12. gather' \in [at : {"half", "full"}, class : Classes] /\ gather'.class = k /\ gather'.at = "half"
    BY <1>1
  <1>13. /\ ContentOK' /\ chunk' \in [Classes -> [Chunks -> [gen : Nat, parts : Parts]]]
         /\ chunk'[k][Slot].parts = <<n, b>>
    BY <1>4, <1>10, <1>11, <1>12, WrittenOK
  <1>14. chunk'[k][Slot].parts[1] = NextSeqno(topic)
    BY <1>6, <1>13
  <1>15. PoolOK'
    BY <1>4, <1>12, <1>13, <1>14 DEF PoolOK, Slot
  <1>16. \A q \in Readers : ~wDormant[q] => ~Owed(topic, q, writer[q])
    BY <1>1 DEF MayStart
  <1>17. \A p \in Readers : \A i \in 1 .. Len(topic.smp) : Waiting(p, i) => ~Overwritten(i)
    BY <1>16, NobodyWaits
  <1> QED BY <1>4, <1>13, <1>15, <1>17, PoolStepInv

\* The rest of the payload lands in the same chunk.
LEMMA GatherRestStep ==
    ASSUME SharedInv, GatherRest
    PROVE  SharedInv'
  <1>1. /\ gather.at = "half" /\ gather' = [gather EXCEPT !.at = "full"]
        /\ chunk' = [chunk EXCEPT ![gather.class][Slot].parts[2] = NextSeqno(topic)]
        /\ UNCHANGED <<vars, sent, look, held, fails, mapped, got>>
    BY DEF GatherRest
  <1>2. RingOK /\ chunk \in [Classes -> [Chunks -> [gen : Nat, parts : Parts]]] /\ Slot \in Chunks /\ PoolOK
    BY SlotChunk DEF SharedInv, PoolOK
  <1>3. gather # Idle
    BY <1>1 DEF Idle
  <1>4. gather \in [at : {"half", "full"}, class : Classes]
    BY <1>2, <1>3 DEF PoolOK
  <1>5. PICK k \in Classes : k = gather.class
    BY <1>4
  <1>6. PICK n \in Nat : n = NextSeqno(topic)
    BY <1>2, RingFacts
  <1>7. PICK z : z = Slot
    OBVIOUS
  <1>8. chunk[k][z].parts \in Parts /\ chunk[k][z].parts[1] = n
    BY <1>1, <1>2, <1>5, <1>6, <1>7 DEF PoolOK
  <1>9. [chunk[k][z].parts EXCEPT ![2] = n] = <<n, n>>
    BY <1>8 DEF Parts
  <1>10. Written(k, <<n, n>>)
    <2>1. chunk' = [chunk EXCEPT ![k][z].parts[2] = n]
      BY <1>1, <1>5, <1>6, <1>7
    <2>2. [chunk EXCEPT ![k][z].parts[2] = n] = [chunk EXCEPT ![k][z].parts = [chunk[k][z].parts EXCEPT ![2] = n]]
      BY <1>2, <1>7
    <2> QED BY <1>7, <1>9, <2>1, <2>2 DEF Written
  <1>11. <<n, n>> \in Parts
    BY DEF Parts
  <1>12. gather' \in [at : {"half", "full"}, class : Classes] /\ gather'.class = k /\ gather'.at = "full"
    BY <1>1, <1>4, <1>5
  <1>13. PoolFrame /\ topic' = topic /\ sent' = sent
    BY <1>1 DEF PoolFrame, vars
  <1>14. /\ ContentOK' /\ chunk' \in [Classes -> [Chunks -> [gen : Nat, parts : Parts]]]
         /\ chunk'[k][Slot].parts = <<n, n>>
    BY <1>10, <1>11, <1>12, <1>13, WrittenOK
  <1>15. PoolOK'
    <2>1. chunk'[k][Slot].parts = <<NextSeqno(topic), NextSeqno(topic)>>
      BY <1>6, <1>14
    <2> QED BY <1>12, <1>13, <1>14, <2>1 DEF PoolOK, Slot
  <1>16. \A p \in Readers : \A i \in 1 .. Len(topic.smp) : Waiting(p, i) => ~Overwritten(i)
    BY <1>3 DEF SharedInv, WaitingKept
  <1> QED BY <1>13, <1>14, <1>15, <1>16, PoolStepInv

\* what is sealed: a sample of c fragments for all, in shared memory under descriptor d
Sealed(c, d) ==
    /\ topic' = Seal(topic, c, DestAll) /\ sent' = Append(sent, d) /\ gather' = Idle
    /\ chunk' \in [Classes -> [Chunks -> [gen : Nat, parts : Parts]]]
    /\ \A k \in Classes, i \in Chunks : chunk'[k][i].parts = chunk[k][i].parts
    /\ UNCHANGED <<writer, reader, wDormant, epochs, join, net, look, held, got>>

\* The sample is appended, and the oldest leaves a full ring.
LEMMA SealedRing ==
    ASSUME SharedInv, NEW c \in Nat \ {0}, NEW d \in [class : Classes \cup {"none"}, chunk : Nat, gen : Nat],
           Sealed(c, d)
    PROVE  LET n == Len(topic.smp) IN
           /\ RingOK' /\ NextSeqno(topic)' = NextSeqno(topic) + c
           /\ Len(topic'.smp) = n + 1
           /\ \A i \in 1 .. n : topic'.smp[i] = topic.smp[i] /\ sent'[i] = sent[i]
           /\ topic'.smp[n + 1] = [base |-> NextSeqno(topic), count |-> c, dest |-> DestAll] /\ sent'[n + 1] = d
           /\ topic.lo <= topic'.lo /\ topic'.lo \in Nat /\ topic'.lo <= n + 1
           /\ RingFull(topic) => topic'.lo = topic.lo + 1
           /\ ~RingFull(topic) => topic'.lo = topic.lo
  <1>0. RingOK /\ TopicOK(topic) /\ DestAll \in Readers \cup {DestAll, DestNone}
    BY DEF SharedInv, RingOK
  <1>1. PICK n \in Nat : n = Len(topic.smp)
    BY <1>0, RingFacts
  <1>2. PICK x \in Nat : x = NextSeqno(topic)
    BY <1>0, RingFacts
  <1>3. PICK D : D = [class : Classes \cup {"none"}, chunk : Nat, gen : Nat]
    OBVIOUS
  <1>4. sent \in Seq(D) /\ d \in D /\ Len(sent) = n
    BY <1>0, <1>1, <1>3 DEF RingOK
  <1>5. sent' \in Seq(D) /\ Len(sent') = n + 1 /\ sent'[n + 1] = d /\ \A i \in 1 .. n : sent'[i] = sent[i]
    <2>1. PICK t : t = Append(sent, d)
      OBVIOUS
    <2>2. t \in Seq(D) /\ Len(t) = n + 1 /\ t[n + 1] = d /\ \A i \in 1 .. n : t[i] = sent[i]
      BY <1>4, <2>1
    <2>3. sent' = t
      BY <2>1 DEF Sealed
    <2> QED BY <2>2, <2>3
  <1>6. PICK s : s = [base |-> x, count |-> c, dest |-> DestAll]
    OBVIOUS
  <1>7. s \in Sample /\ s.base = x /\ s.dest = DestAll /\ EndOf(s) = x + c
    BY <1>6 DEF Sample, EndOf
  <1>8. TopicOK(topic') /\ topic'.smp = Append(topic.smp, s) /\ NextSeqno(topic') = x + c
    BY <1>0, <1>2, <1>6, SealOK DEF Sealed
  <1>9. /\ Len(topic'.smp) = n + 1 /\ topic'.smp[n + 1] = s
        /\ \A i \in 1 .. n : topic'.smp[i] = topic.smp[i]
    <2>1. topic.smp \in Seq(Sample)
      BY <1>0, RingFacts
    <2> QED BY <1>1, <1>7, <1>8, <2>1
  <1>10. topic \in TopicState /\ topic.lo \in Nat /\ KeepLast \in Nat /\ KeepLast > 0 /\ n < topic.lo + KeepLast
    BY <1>0, <1>1, RingFacts DEF RingOK, TopicOK
  <1>11. PICK l : l = IF n + 1 < topic.lo + KeepLast THEN topic.lo ELSE topic.lo + 1
    OBVIOUS
  <1>12. topic'.lo = l
    <2>1. topic' = [topic EXCEPT !.smp = Append(topic.smp, s), !.lo = l]
      <3>1. Len(Append(topic.smp, s)) = n + 1
        BY <1>8, <1>9
      <3> QED BY <1>2, <1>6, <1>11, <3>1 DEF Sealed, Seal
    <2> QED BY <1>10, <2>1 DEF TopicState
  <1>13. /\ topic.lo <= l /\ l \in Nat /\ n + 1 < l + KeepLast
         /\ RingFull(topic) => l = topic.lo + 1
         /\ ~RingFull(topic) => l = topic.lo
    <2>1. RingFull(topic) <=> n + 1 = topic.lo + KeepLast
      BY <1>1 DEF RingFull
    <2>2. CASE n + 1 < topic.lo + KeepLast
      BY <1>10, <1>11, <2>1, <2>2
    <2>3. CASE ~(n + 1 < topic.lo + KeepLast)
      <3>1. n + 1 = topic.lo + KeepLast
        BY <1>10, <2>3
      <3> QED BY <1>10, <1>11, <2>1, <2>3, <3>1
    <2> QED BY <2>2, <2>3
  <1>14. l <= n + 1
    <2>1. topic.lo <= n + 1 /\ (n # 0 => topic.lo <= n)
      <3>1. CASE topic.smp = << >>
        BY <1>0, <1>1, <3>1 DEF TopicOK
      <3>2. CASE topic.smp # << >>
        BY <1>0, <1>1, <3>2 DEF TopicOK
      <3> QED BY <3>1, <3>2
    <2>2. CASE n # 0
      BY <1>10, <1>11, <2>1, <2>2
    <2>3. CASE n = 0
      <3>1. topic.smp = << >>
        <4>1. topic.smp \in Seq(Sample) /\ Len(topic.smp) = 0
          BY <1>0, <1>1, <2>3, RingFacts
        <4> QED BY <4>1
      <3>2. topic.lo = 1
        BY <1>0, <3>1 DEF TopicOK
      <3> QED BY <1>10, <1>11, <2>3, <3>2
    <2> QED BY <2>2, <2>3
  <1>15. \A i \in 1 .. (n + 1) : topic'.smp[i].dest = DestAll
    <2>1. \A i \in 1 .. n : topic.smp[i].dest = DestAll
      BY <1>0, <1>1 DEF RingOK
    <2>2. \A i \in 1 .. (n + 1) : i \in 1 .. n \/ i = n + 1
      OBVIOUS
    <2> QED BY <1>7, <1>9, <2>1, <2>2
  <1>16. \A i \in 1 .. n : EndOf(topic'.smp[i]) = topic'.smp[i + 1].base
    <2> SUFFICES ASSUME NEW i \in 1 .. n PROVE EndOf(topic'.smp[i]) = topic'.smp[i + 1].base
      OBVIOUS
    <2>1. CASE i = n
      <3>1. NextSeqno(topic) = EndOf(topic.smp[n])
        <4>1. topic.smp # << >>
          BY <1>1
        <4> QED BY <1>1, <4>1 DEF NextSeqno
      <3> QED BY <1>2, <1>7, <1>9, <2>1, <3>1
    <2>2. CASE i # n
      <3>1. i \in 1 .. (n - 1) /\ i + 1 \in 1 .. n
        BY <2>2
      <3>2. EndOf(topic.smp[i]) = topic.smp[i + 1].base
        BY <1>0, <1>1, <3>1 DEF RingOK
      <3> QED BY <1>9, <3>1, <3>2
    <2> QED BY <2>1, <2>2
  <1>17. RingOK'
    <2>1. Len(topic'.smp) < topic'.lo + KeepLast
      BY <1>9, <1>12, <1>13
    <2>2. \A i \in 1 .. Len(topic'.smp) : topic'.smp[i].dest = DestAll
      BY <1>9, <1>15
    <2>3. \A i \in 1 .. (Len(topic'.smp) - 1) : EndOf(topic'.smp[i]) = topic'.smp[i + 1].base
      BY <1>9, <1>16
    <2>4. sent' \in Seq([class : Classes \cup {"none"}, chunk : Nat, gen : Nat]) /\ Len(sent') = Len(topic'.smp)
      BY <1>3, <1>5, <1>9
    <2> QED BY <1>8, <2>1, <2>2, <2>3, <2>4 DEF RingOK
  <1> QED BY <1>1, <1>2, <1>5, <1>6, <1>8, <1>9, <1>12, <1>13, <1>14, <1>17

\* Sealing a sample, with a descriptor or without, keeps the invariant if nobody waits
\* for the sample it evicts.
LEMMA SealStepInv ==
    ASSUME SharedInv, NEW c \in Nat \ {0}, NEW d \in [class : Classes \cup {"none"}, chunk : Nat, gen : Nat],
           Sealed(c, d),
           d # Inline => /\ d.class \in Classes /\ d.chunk = Slot
                         /\ chunk[d.class][Slot].parts = <<NextSeqno(topic), NextSeqno(topic)>>,
           \A p \in Readers : \A i \in 1 .. Len(topic.smp) : Waiting(p, i) => ~Overwritten(i)
    PROVE  SharedInv'
  <1>0. /\ RingOK /\ PoolOK /\ ContentOK
        /\ writer = [q \in Readers |-> writer[q]] /\ reader = [q \in Readers |-> reader[q]]
        /\ join = [q \in Readers |-> join[q]] /\ look = [q \in Readers |-> look[q]]
        /\ held = [q \in Readers |-> held[q]] /\ got = [q \in Readers |-> got[q]]
        /\ epochs \in Nat
        /\ \A q \in Readers : WaitingKept(q) /\ LanePlaced(q) /\ ReaderPlaced(q) /\ SeatOK(q)
        /\ \A m \in net : DatagramOK(m)
    BY DEF SharedInv
  <1>1. /\ writer' = writer /\ reader' = reader /\ wDormant' = wDormant /\ epochs' = epochs /\ join' = join
        /\ net' = net /\ look' = look /\ held' = held /\ got' = got /\ gather' = Idle
    BY DEF Sealed
  <1>2. PICK n \in Nat : n = Len(topic.smp)
    BY <1>0, RingFacts
  <1>3. PICK x \in Nat : x = NextSeqno(topic)
    BY <1>0, RingFacts
  <1>4. /\ RingOK' /\ NextSeqno(topic)' = x + c /\ Len(topic'.smp) = n + 1
        /\ \A i \in 1 .. n : topic'.smp[i] = topic.smp[i] /\ sent'[i] = sent[i]
        /\ topic'.smp[n + 1] = [base |-> x, count |-> c, dest |-> DestAll] /\ sent'[n + 1] = d
        /\ topic.lo <= topic'.lo /\ topic'.lo \in Nat /\ topic'.lo <= n + 1
        /\ RingFull(topic) => topic'.lo = topic.lo + 1
        /\ ~RingFull(topic) => topic'.lo = topic.lo
    BY <1>2, <1>3, SealedRing
  <1>5. /\ topic'.smp[n + 1].base = x /\ topic'.smp[n + 1].count = c /\ EndOf(topic'.smp[n + 1]) = x + c
        /\ x < x + c /\ x <= x + c /\ topic.lo \in Nat
    BY <1>0, <1>4, RingFacts DEF EndOf
  <1>6. \A q : \A i \in 1 .. n : /\ ByDescriptor(q, i)' <=> ByDescriptor(q, i)
                                 /\ Described(i)' <=> Described(i)
                                 /\ Waiting(q, i)' <=> Waiting(q, i)
    <2>1. \A i \in 1 .. n : Described(i)' <=> Described(i)
      BY <1>2, <1>4 DEF Described
    <2>2. \A q : \A i \in 1 .. n : ByDescriptor(q, i)' <=> ByDescriptor(q, i)
      BY <2>1 DEF ByDescriptor
    <2> QED BY <1>1, <1>4, <2>1, <2>2 DEF Waiting
  <1>7. \A i \in 1 .. (n + 1) : i \in 1 .. n \/ i = n + 1
    OBVIOUS
  <1>8. \A q : InlineFor(q) \subseteq InlineFor(q)'
    <2> SUFFICES ASSUME NEW q, NEW e \in InlineFor(q) PROVE e \in InlineFor(q)'
      OBVIOUS
    <2>1. PICK i \in 1 .. n : join[q] <= topic.smp[i].base /\ ~ByDescriptor(q, i) /\ e = AsDelivery(topic.smp[i])
      BY <1>2 DEF InlineFor
    <2>2. i \in 1 .. Len(topic'.smp)
      BY <1>4, <2>1
    <2> QED BY <1>1, <1>4, <1>6, <2>1, <2>2 DEF InlineFor
  <1>9. PoolOK'
    <2>1. gather'.at # "half" /\ gather'.at # "full"
      BY <1>1 DEF Idle
    <2> QED BY <1>1, <2>1 DEF PoolOK, Sealed
  <1>10. ContentOK'
    <2> SUFFICES ASSUME NEW i \in Cached(topic)', Described(i)'
                 PROVE  /\ sent'[i].class \in Classes /\ sent'[i].chunk = (i - 1) % KeepLast
                        /\ chunk'[sent'[i].class][sent'[i].chunk].parts = <<topic'.smp[i].base, topic'.smp[i].base>>
      BY DEF ContentOK
    <2>1. i \in topic'.lo .. (n + 1) /\ i \in Int
      BY <1>4 DEF Cached
    <2>2. \A k \in Classes, j \in Chunks : chunk'[k][j].parts = chunk[k][j].parts
      BY DEF Sealed
    <2>3. CASE i = n + 1
      <3>1. d # Inline
        BY <1>4, <2>3 DEF Described
      <3>2. (n + 1) - 1 = n
        OBVIOUS
      <3>3. Slot \in Chunks /\ Slot = n % KeepLast
        BY <1>0, <1>2, SlotChunk DEF Slot
      <3>4. sent'[i] = d /\ d.class \in Classes /\ d.chunk = Slot /\ chunk[d.class][Slot].parts = <<x, x>>
        BY <1>3, <1>4, <2>3, <3>1
      <3>5. chunk'[d.class][Slot].parts = <<x, x>>
        BY <2>2, <3>3, <3>4
      <3> QED BY <1>5, <2>3, <3>2, <3>3, <3>4, <3>5
    <2>4. CASE i # n + 1
      <3>1. i \in 1 .. n /\ i \in topic.lo .. n
        <4>1. i \in topic.lo .. n
          BY <1>4, <1>5, <2>1, <2>4
        <4>2. i \in Cached(topic)
          BY <1>2, <4>1 DEF Cached
        <4> QED BY <1>0, <1>2, <4>1, <4>2, RingFacts
      <3>2. i \in Cached(topic) /\ Described(i)
        BY <1>2, <1>6, <3>1 DEF Cached
      <3>3. ~Overwritten(i)
        BY <1>4, <1>5, <2>1 DEF Overwritten
      <3>4. /\ sent[i].class \in Classes /\ sent[i].chunk = (i - 1) % KeepLast
            /\ chunk[sent[i].class][sent[i].chunk].parts = <<topic.smp[i].base, topic.smp[i].base>>
        BY <1>0, <3>2, <3>3 DEF ContentOK
      <3>5. sent[i].chunk \in Chunks
        <4>1. PICK j \in Int : j = i - 1
          BY <2>1
        <4>2. KeepLast \in Nat /\ KeepLast > 0
          BY <1>0, RingFacts
        <4>3. j % KeepLast \in 0 .. KeepLast - 1
          BY <4>2
        <4> QED BY <3>4, <4>1, <4>3 DEF Chunks
      <3>6. chunk'[sent[i].class][sent[i].chunk].parts = chunk[sent[i].class][sent[i].chunk].parts
        BY <2>2, <3>4, <3>5
      <3> QED BY <1>4, <3>1, <3>4, <3>6
    <2> QED BY <2>3, <2>4
  <1>11. ASSUME NEW q \in Readers
         PROVE  WaitingKept(q)' /\ LanePlaced(q)' /\ ReaderPlaced(q)' /\ SeatOK(q)'
    <2>0. WaitingKept(q) /\ LanePlaced(q) /\ ReaderPlaced(q) /\ SeatOK(q)
      BY <1>0
    <2>1. WaitingKept(q)'
      <3> SUFFICES ASSUME NEW i \in 1 .. (n + 1), Waiting(q, i)'
                   PROVE  topic'.lo <= i /\ writer[q].acked < EndOf(topic'.smp[i])
        BY <1>1, <1>4 DEF WaitingKept
      <3>1. CASE i = n + 1
        <4>1. writer[q].used
          BY <1>1 DEF Waiting
        <4>2. writer[q].acked \in Nat /\ writer[q].acked <= x
          BY <1>3, <2>0, <4>1 DEF LanePlaced, WriterState
        <4> QED BY <1>4, <1>5, <3>1, <4>2
      <3>2. CASE i \in 1 .. n
        <4>1. Waiting(q, i)
          BY <1>6, <3>2
        <4>2. topic.lo <= i /\ writer[q].acked < EndOf(topic.smp[i]) /\ ~Overwritten(i)
          BY <1>2, <2>0, <3>2, <4>1 DEF WaitingKept
        <4>3. topic'.lo <= i
          BY <1>4, <1>5, <3>2, <4>2 DEF Overwritten
        <4> QED BY <1>4, <3>2, <4>2, <4>3
      <3> QED BY <1>7, <3>1, <3>2
    <2>2. LanePlaced(q)'
      <3>1. join[q] \in Nat /\ join[q] <= x
        BY <1>3, <2>0 DEF LanePlaced
      <3>2. \A i \in 1 .. (n + 1) : topic'.smp[i].base < join[q] => EndOf(topic'.smp[i]) <= join[q]
        <4>1. \A i \in 1 .. n : topic'.smp[i].base < join[q] => EndOf(topic'.smp[i]) <= join[q]
          BY <1>2, <1>4, <2>0 DEF LanePlaced
        <4>2. ~(topic'.smp[n + 1].base < join[q])
          BY <1>5, <3>1
        <4> QED BY <1>7, <4>1, <4>2
      <3>3. writer[q].used => writer[q].acked <= x + c
        <4>1. writer[q].used => writer[q].acked \in Nat /\ writer[q].acked <= x
          BY <1>3, <2>0 DEF LanePlaced, WriterState
        <4> QED BY <4>1
      <3>4. join[q] <= x + c
        BY <3>1
      <3> QED BY <1>1, <1>4, <2>0, <3>1, <3>2, <3>3, <3>4 DEF LanePlaced
    <2>3. ReaderPlaced(q)'
      <3>1. reader[q].upto \in Nat /\ reader[q].upto <= x
        BY <1>3, <2>0 DEF ReaderPlaced, Tidy, ReaderState
      <3>2. reader[q].upto <= x + c
        BY <3>1
      <3>3. Tidy(reader[q], InlineFor(q)', join[q], x + c)
        BY <1>8, <2>0, <3>2 DEF ReaderPlaced, Tidy
      <3> QED BY <1>1, <1>4, <2>0, <3>3 DEF ReaderPlaced
    <2>4. SeatOK(q)'
      <3>1. \A b, k, e : Names(q, b, k, e) => Names(q, b, k, e)'
        <4> SUFFICES ASSUME NEW b, NEW k, NEW e, Names(q, b, k, e) PROVE Names(q, b, k, e)'
          OBVIOUS
        <4>1. PICK i \in 1 .. n : /\ Waiting(q, i) /\ b = topic.smp[i].base /\ k = topic.smp[i].count
                                  /\ e = sent[i] /\ reader[q].upto = b
          BY <1>2 DEF Names
        <4>2. i \in 1 .. Len(topic'.smp)
          BY <1>4, <4>1
        <4> QED BY <1>1, <1>4, <1>6, <4>1, <4>2 DEF Names
      <3> QED BY <1>1, <2>0, <3>1 DEF SeatOK
    <2> QED BY <2>1, <2>2, <2>3, <2>4
  <1>12. ASSUME NEW m \in net
         PROVE  DatagramOK(m)'
    <2>0. DatagramOK(m)
      BY <1>0
    <2>1. PlainData(m) => PlainData(m)'
      BY <1>1, <1>8 DEF PlainData, Fragment
    <2>2. Descriptor(m) => Descriptor(m)'
      <3> SUFFICES ASSUME Descriptor(m) PROVE Descriptor(m)'
        OBVIOUS
      <3>1. PICK i \in 1 .. n : /\ ByDescriptor(m.lane, i) /\ join[m.lane] <= topic.smp[i].base
                                /\ m.base = topic.smp[i].base /\ m.count = topic.smp[i].count /\ m.desc = sent[i]
        BY <1>2 DEF Descriptor
      <3>2. i \in 1 .. Len(topic'.smp) /\ ByDescriptor(m.lane, i)'
        BY <1>4, <1>6, <3>1
      <3>3. writer[m.lane].used /\ m.ask \in BOOLEAN
        BY DEF Descriptor
      <3>4. join'[m.lane] <= topic'.smp[i].base /\ m.base = topic'.smp[i].base /\ m.count = topic'.smp[i].count
            /\ m.desc = sent'[i]
        BY <1>1, <1>4, <3>1
      <3> QED BY <1>1, <3>2, <3>3, <3>4 DEF Descriptor
    <2>3. Beat(m) => Beat(m)'
      BY <1>1, <1>3, <1>4 DEF Beat
    <2>4. Ack(m) => Ack(m)'
      <3> SUFFICES ASSUME Ack(m), ~m.unpos
                   PROVE  /\ m.base <= x + c
                          /\ \A i \in 1 .. (n + 1) : Waiting(m.lane, i)' => m.base < EndOf(topic'.smp[i])
        BY <1>1, <1>4 DEF Ack
      <3>1. m.base \in Nat /\ m.base <= x
        BY <1>3 DEF Ack
      <3>2. m.base < EndOf(topic'.smp[n + 1])
        BY <1>5, <3>1
      <3>3. \A i \in 1 .. n : Waiting(m.lane, i)' => m.base < EndOf(topic'.smp[i])
        BY <1>2, <1>4, <1>6 DEF Ack
      <3> QED BY <1>7, <3>1, <3>2, <3>3
    <2> QED BY <2>0, <2>1, <2>2, <2>3, <2>4 DEF DatagramOK
  <1>13. \A m \in net' : DatagramOK(m)'
    BY <1>1, <1>12
  <1>14. \A q \in Readers : WaitingKept(q)' /\ LanePlaced(q)' /\ ReaderPlaced(q)' /\ SeatOK(q)'
    BY <1>11
  <1> QED BY <1>0, <1>1, <1>4, <1>9, <1>10, <1>13, <1>14 DEF SharedInv

\* The message is all in its chunk when its descriptor is sealed.
LEMMA StampStep ==
    ASSUME SharedInv, Stamp
    PROVE  SharedInv'
  <1>1. /\ gather.at = "full"
        /\ UNCHANGED <<writer, reader, wDormant, epochs, net, join, look, held, got>>
        /\ topic' = Seal(topic, BigCount, DestAll) /\ gather' = Idle
    BY DEF Stamp
  <1>2. RingOK /\ chunk \in [Classes -> [Chunks -> [gen : Nat, parts : Parts]]] /\ PoolOK
    BY DEF SharedInv, PoolOK
  <1>3. gather # Idle /\ gather \in [at : {"half", "full"}, class : Classes]
    BY <1>1, <1>2 DEF Idle, PoolOK
  <1>4. PICK k \in Classes : k = gather.class
    BY <1>3
  <1>5. PICK z \in Chunks : z = Slot
    BY <1>2, SlotChunk
  <1>6. PICK g \in Nat : g = chunk[k][z].gen + 1
    BY <1>2
  <1>7. chunk' = [chunk EXCEPT ![k][z].gen = g] /\ sent' = Append(sent, [class |-> k, chunk |-> z, gen |-> g])
    BY <1>4, <1>5, <1>6 DEF Stamp
  <1>8. /\ chunk' \in [Classes -> [Chunks -> [gen : Nat, parts : Parts]]]
        /\ \A c \in Classes, i \in Chunks : chunk'[c][i].parts = chunk[c][i].parts
    <2>1. PICK R : R = [gen : Nat, parts : Parts]
      OBVIOUS
    <2>2. PICK r : r = [chunk[k][z] EXCEPT !.gen = g]
      OBVIOUS
    <2>3. chunk[k][z] \in [gen : Nat, parts : Parts]
      BY <1>2
    <2>4. r \in R /\ r.parts = chunk[k][z].parts
      BY <2>1, <2>2, <2>3
    <2>5. chunk \in [Classes -> [Chunks -> R]]
      BY <1>2, <2>1
    <2>6. chunk' = [chunk EXCEPT ![k][z] = r]
      BY <1>7, <2>2, <2>5
    <2>7. chunk' \in [Classes -> [Chunks -> R]]
      BY <2>4, <2>5, <2>6
    <2>8. \A c \in Classes, i \in Chunks : chunk'[c][i] = (IF c = k /\ i = z THEN r ELSE chunk[c][i])
      BY <2>5, <2>6
    <2>9. \A c \in Classes, i \in Chunks : chunk'[c][i].parts = chunk[c][i].parts
      BY <2>4, <2>8
    <2> QED BY <2>1, <2>7, <2>9
  <1>9. PICK d : d = [class |-> k, chunk |-> z, gen |-> g]
    OBVIOUS
  <1>10. d.class = k /\ d.chunk = z /\ z \in Nat
    <2>1. KeepLast \in Nat
      BY <1>2, RingFacts
    <2> QED BY <1>9, <2>1 DEF Chunks
  <1>11. d \in [class : Classes \cup {"none"}, chunk : Nat, gen : Nat]
    BY <1>9, <1>10
  <1>12. Sealed(BigCount, d)
    BY <1>1, <1>7, <1>8, <1>9 DEF Sealed
  <1>13. chunk[d.class][Slot].parts = <<NextSeqno(topic), NextSeqno(topic)>>
    BY <1>1, <1>2, <1>4, <1>10 DEF PoolOK
  <1>14. \A p \in Readers : \A i \in 1 .. Len(topic.smp) : Waiting(p, i) => ~Overwritten(i)
    BY <1>3 DEF SharedInv, WaitingKept
  <1>15. BigCount \in Nat \ {0}
    BY SharedAssumption
  <1>16. d.class \in Classes /\ d.chunk = Slot
    BY <1>5, <1>10
  <1> QED BY <1>11, <1>12, <1>13, <1>14, <1>15, <1>16, SealStepInv

\* A message that goes inline evicts only what its readers acked.
LEMMA SendInlineStep ==
    ASSUME SharedInv, Patient, SendInline
    PROVE  SharedInv'
  <1>1. PICK n \in {1, BigCount} : Send(n, DestAll)
    BY DEF SendInline
  <1>2. n \in Nat \ {0}
    BY SharedAssumption
  <1>3. /\ gather = Idle /\ sent' = Append(sent, Inline)
        /\ UNCHANGED <<chunk, gather, look, held, got>>
    BY DEF SendInline
  <1>4. /\ \A p \in Readers : ~wDormant[p] => ~Owed(topic, p, writer[p])
        /\ topic' = Seal(topic, n, DestAll)
        /\ UNCHANGED <<reader, wDormant, epochs, net, join>>
    BY <1>1 DEF Send
  <1>5. writer' = writer
    <2>1. writer' = [p \in Readers |-> writer[p]]
      BY <1>1 DEF Send
    <2>2. writer = [p \in Readers |-> writer[p]]
      BY DEF SharedInv
    <2> QED BY <2>1, <2>2
  <1>6. chunk \in [Classes -> [Chunks -> [gen : Nat, parts : Parts]]]
    BY DEF SharedInv, PoolOK
  <1>7. Sealed(n, Inline)
    BY <1>3, <1>4, <1>5, <1>6 DEF Sealed
  <1>8. Inline \in [class : Classes \cup {"none"}, chunk : Nat, gen : Nat]
    BY DEF Inline
  <1>9. \A p \in Readers : \A i \in 1 .. Len(topic.smp) : Waiting(p, i) => ~Overwritten(i)
    BY <1>4, NobodyWaits
  <1> QED BY <1>2, <1>7, <1>8, <1>9, SealStepInv

-----------------------------------------------------------------------------
(* A reader's process, but for the resolve.                                *)

\* what the invariant says of a reader that is in use
LEMMA ReaderUse ==
    ASSUME SharedInv, NEW p \in Readers
    PROVE  /\ Tidy(reader[p], InlineFor(p), join[p], NextSeqno(topic))
           /\ Placed(InlineFor(p), join[p], NextSeqno(topic))
           /\ join[p] \in Nat /\ NextSeqno(topic) \in Nat
           /\ reader[p] \in ReaderState /\ reader[p].upto \in Nat
           /\ reader[p].started => writer[p].used /\ reader[p].used
           /\ ~reader[p].used => reader[p].epoch = 0
           /\ SeatOK(p) /\ RingOK
  <1>1. ReaderPlaced(p) /\ LanePlaced(p) /\ SeatOK(p) /\ RingOK
    BY DEF SharedInv
  <1>2. Tidy(reader[p], InlineFor(p), join[p], NextSeqno(topic)) /\ join[p] \in Nat
    BY <1>1 DEF ReaderPlaced, LanePlaced
  <1>3. reader[p] \in ReaderState /\ reader[p].upto \in Nat /\ (reader[p].started => reader[p].used)
    BY <1>2 DEF Tidy, ReaderState
  <1> QED BY <1>1, <1>2, <1>3, InlinePlaced, RingFacts DEF ReaderPlaced

\* The seat of a reader that resolves nothing is kept, or given up.
LEMMA SeatKept ==
    ASSUME SharedInv, NEW p \in Readers, ReaderFrame(p), look[p] = Idle, look'[p] = Idle, got'[p] = got[p],
           \/ held'[p] = Inline
           \/ held'[p] = held[p] /\ (held[p] # Inline => SameHead(reader[p], reader'[p]) /\ reader'[p].started)
    PROVE  SeatOK(p)'
  <1>1. SeatOK(p)
    BY ReaderUse
  <1>2. topic' = topic /\ writer' = writer /\ join' = join /\ sent' = sent
    BY DEF ReaderFrame
  <1>3. got[p] \in Seq([base : Nat, parts : Parts])
        /\ \A i \in 1 .. Len(got[p]) : got[p][i].parts = <<got[p][i].base, got[p][i].base>>
    BY <1>1 DEF SeatOK
  <1>4. CASE held'[p] = Inline
    BY <1>3, <1>4 DEF SeatOK
  <1>5. CASE held'[p] = held[p] /\ held[p] # Inline
    <2>1. SameHead(reader[p], reader'[p]) /\ reader'[p].started
      BY <1>5
    <2>2. /\ reader[p].parked /\ ~reader[p].cur.on
          /\ Names(p, reader[p].cur.base, reader[p].cur.count, held[p])
      BY <1>1, <1>5 DEF SeatOK
    <2>3. \A i : Waiting(p, i)' <=> Waiting(p, i)
      BY <1>2, <2>1 DEF Waiting, ByDescriptor, Described, SameHead
    <2>4. Names(p, reader[p].cur.base, reader[p].cur.count, held[p])'
      BY <1>2, <1>5, <2>1, <2>2, <2>3 DEF Names, SameHead
    <2>5. reader'[p].parked /\ ~reader'[p].cur.on
      BY <2>1, <2>2 DEF SameHead
    <2> QED BY <1>3, <1>5, <2>1, <2>4, <2>5 DEF SeatOK
  <1> QED BY <1>4, <1>5

\* A reader that resolves nothing moves on.
LEMMA ReaderMoves ==
    ASSUME SharedInv, NEW p \in Readers, NEW z, reader' = [reader EXCEPT ![p] = z],
           UNCHANGED <<topic, writer, wDormant, join, chunk, sent, gather, look, got>>, epochs' \in Nat,
           look[p] = Idle, Advanced(p, z),
           Only(p, held, held'),
           \/ held'[p] = Inline
           \/ held'[p] = held[p] /\ (held[p] # Inline => SameHead(reader[p], z) /\ z.started),
           \A m \in net' : m \in net \/ DatagramOK(m)
    PROVE  SharedInv'
  <1>1. /\ reader = [q \in Readers |-> reader[q]] /\ look = [q \in Readers |-> look[q]]
        /\ got = [q \in Readers |-> got[q]]
    BY DEF SharedInv
  <1>2. Only(p, reader, reader') /\ reader'[p] = z
    BY <1>1, OnlyUpdate
  <1>3. Only(p, look, look') /\ Only(p, got, got')
    BY <1>1 DEF Only
  <1>4. ReaderFrame(p)
    BY <1>2, <1>3 DEF ReaderFrame
  <1>5. look'[p] = Idle /\ got'[p] = got[p]
    OBVIOUS
  <1>6. SeatOK(p)'
    BY <1>2, <1>4, <1>5, SeatKept
  <1>7. Advanced(p, reader'[p])
    BY <1>2
  <1> QED BY <1>4, <1>6, <1>7, ReaderStepInv

\* A fragment arrives.
LEMMA RecvPlainStep ==
    ASSUME SharedInv, NEW m \in net, ~IsShm(m), NEW acc \in Accepts, RecvData(m, TRUE, acc),
           look[m.lane] = Idle, UNCHANGED shmVars
    PROVE  SharedInv'
  <1> DEFINE y == TRUE
  <1>y. y \in BOOLEAN /\ y
    OBVIOUS
  <1>1. /\ m.type = "data" /\ Taken(m)
        /\ UNCHANGED <<topic, writer, wDormant, epochs, join, chunk, sent, gather, look, held, got>>
    BY DEF RecvData, shmVars
  <1>2. DatagramOK(m)
    BY DEF SharedInv
  <1>3. m.lane \in Readers /\ PlainData(m)
    BY <1>1, <1>2 DEF DatagramOK
  <1>4. PICK p \in Readers : p = m.lane
    BY <1>3
  <1>5. reader' = [reader EXCEPT ![p] = IF reader[p].used THEN ReaderData(reader[p], m, y, acc) ELSE reader[p]]
    BY <1>4 DEF RecvData
  <1> HIDE DEF y
  <1>6. net' \subseteq net
    BY <1>1 DEF Taken
  <1>7. CASE ~reader[p].used
    <2>1. reader' = reader
      BY <1>5, <1>7 DEF SharedInv
    <2> QED BY <1>1, <1>6, <2>1, OnlyNetStep
  <1>8. CASE reader[p].used
    <2>0. /\ Tidy(reader[p], InlineFor(p), join[p], NextSeqno(topic))
          /\ Placed(InlineFor(p), join[p], NextSeqno(topic))
          /\ join[p] \in Nat /\ NextSeqno(topic) \in Nat /\ SeatOK(p)
      BY ReaderUse
    <2>1. PICK z : z = ReaderData(reader[p], m, y, acc)
      OBVIOUS
    <2>2. reader' = [reader EXCEPT ![p] = z]
      BY <1>5, <1>8, <2>1
    <2>a. acc \in Nat
      BY TopicAssumption
    <2>b. Fragment(m, InlineFor(p)) /\ writer[p].used
      BY <1>3, <1>4, Zenon DEF PlainData
    <2>3. Fragment(m, InlineFor(p)) /\ writer[p].used /\ acc \in Nat
      BY <2>a, <2>b
    <2>4. /\ Tidy(z, InlineFor(p), join[p], NextSeqno(topic)) /\ Received(reader[p], z)
          /\ reader[p].started /\ reader[p].parked /\ ~reader[p].cur.on => SameHead(reader[p], z)
      BY <1>y, <1>8, <2>0, <2>1, <2>3, ReaderDataTidy
    <2>5. Advanced(p, z)
      BY <1>8, <2>3, <2>4 DEF Advanced, Received
    <2>6. held[p] # Inline => SameHead(reader[p], z) /\ z.started
      BY <2>0, <2>4 DEF SeatOK, Received
    <2>7. Only(p, held, held') /\ held'[p] = held[p] /\ epochs' \in Nat
      BY <1>1 DEF SharedInv, Only
    <2>8. \A k \in net' : k \in net \/ DatagramOK(k)
      BY <1>6
    <2> QED BY <1>1, <1>4, <2>2, <2>5, <2>6, <2>7, <2>8, ReaderMoves
  <1> QED BY <1>7, <1>8

\* A heartbeat arrives: a floor past the head drops what was parked.
LEMMA RecvFloorStep ==
    ASSUME SharedInv, NEW m \in net, NEW acc \in Accepts, RecvFloor(m, acc)
    PROVE  SharedInv'
  <1>1. /\ m.type = "hb" /\ Taken(m) /\ look[m.lane] = Idle
        /\ UNCHANGED <<topic, writer, wDormant, epochs, join, chunk, sent, gather, look, got>>
    BY DEF RecvFloor, RecvHb
  <1>2. DatagramOK(m)
    BY DEF SharedInv
  <1>3. m.lane \in Readers /\ Beat(m)
    BY <1>1, <1>2 DEF DatagramOK
  <1>4. PICK p \in Readers : p = m.lane
    BY <1>3
  <1>5. reader' = [reader EXCEPT ![p] = IF reader[p].used THEN ReaderHb(reader[p], m, acc) ELSE reader[p]]
    BY <1>4 DEF RecvFloor, RecvHb
  <1>6. held' = [held EXCEPT ![p] = IF reader[p].used /\ HbSkips(reader[p], m) THEN Inline ELSE held[p]]
    BY <1>1, <1>4 DEF RecvFloor
  <1>7. net' \subseteq net
    BY <1>1 DEF Taken
  <1>8. held = [q \in Readers |-> held[q]] /\ reader = [q \in Readers |-> reader[q]]
    BY DEF SharedInv
  <1>9. CASE ~reader[p].used
    <2>1. reader' = reader /\ held' = held
      BY <1>5, <1>6, <1>8, <1>9
    <2> QED BY <1>1, <1>7, <2>1, OnlyNetStep
  <1>10. CASE reader[p].used
    <2>0. /\ Tidy(reader[p], InlineFor(p), join[p], NextSeqno(topic))
          /\ Placed(InlineFor(p), join[p], NextSeqno(topic))
          /\ join[p] \in Nat /\ NextSeqno(topic) \in Nat /\ SeatOK(p)
      BY ReaderUse
    <2>1. PICK z : z = ReaderHb(reader[p], m, acc)
      OBVIOUS
    <2>2. reader' = [reader EXCEPT ![p] = z]
      BY <1>5, <1>10, <2>1
    <2>3. /\ m.first \in Nat /\ m.first <= NextSeqno(topic) /\ m.last \in Nat /\ m.last < NextSeqno(topic)
          /\ writer[p].used /\ acc \in Nat
      BY <1>3, <1>4, TopicAssumption DEF Beat
    <2>4. /\ Tidy(z, InlineFor(p), join[p], NextSeqno(topic)) /\ Received(reader[p], z)
          /\ ~HbSkips(reader[p], m) /\ reader[p].parked => SameHead(reader[p], z)
      BY <1>10, <2>0, <2>1, <2>3, ReaderHbTidy
    <2>5. Advanced(p, z)
      BY <1>10, <2>3, <2>4 DEF Advanced, Received
    <2>6. held[p] # Inline /\ ~HbSkips(reader[p], m) => SameHead(reader[p], z) /\ z.started
      BY <2>0, <2>4 DEF SeatOK, Received
    <2>7. Only(p, held, held') /\ held'[p] = (IF HbSkips(reader[p], m) THEN Inline ELSE held[p])
      BY <1>6, <1>8, <1>10, OnlyUpdate
    <2>8. \A k \in net' : k \in net \/ DatagramOK(k)
      BY <1>7
    <2>9. epochs' \in Nat
      BY <1>1 DEF SharedInv
    <2>10. \/ held'[p] = Inline
           \/ held'[p] = held[p] /\ (held[p] # Inline => SameHead(reader[p], z) /\ z.started)
      BY <2>6, <2>7
    <2> QED BY <1>1, <1>4, <2>2, <2>5, <2>7, <2>8, <2>9, <2>10, ReaderMoves
  <1> QED BY <1>9, <1>10

\* A reader that just matched stands nowhere yet.
LEMMA MatchedTidy ==
    ASSUME NEW G, NEW j \in Nat, NEW n \in Nat, NEW e \in Nat
    PROVE  LET q == Matched(e) IN Tidy(q, G, j, n) /\ ~q.started /\ q.used /\ q.upto = 0
  <1>1. << >> \in Seq(Delivery) /\ {} \in SUBSET Nat /\ NoAsm \in Assembly /\ ~NoAsm.on /\ Fits(NoAsm)
    BY DEF NoAsm, Assembly, Fits
  <1>2. NoReader \in ReaderState
    BY <1>1 DEF NoReader, ReaderState
  <1>3. /\ NoReader.upto = 0 /\ NoReader.cur = NoAsm /\ NoReader.nxt = NoAsm /\ ~NoReader.started
    BY DEF NoReader
  <1>4. PICK q : q = Matched(e)
    OBVIOUS
  <1> DEFINE y == TRUE
  <1>5. y \in BOOLEAN /\ y
    OBVIOUS
  <1>6. q = [NoReader EXCEPT !.used = y, !.epoch = e, !.pend = y, !.force = y]
    BY <1>4 DEF Matched
  <1> HIDE DEF y
  <1>7. /\ q \in ReaderState /\ q.upto = NoReader.upto /\ q.cur = NoReader.cur /\ q.nxt = NoReader.nxt
        /\ q.started = NoReader.started /\ q.used = y
    BY <1>2, <1>5, <1>6 DEF ReaderState
  <1>8. q.upto = 0 /\ q.upto <= n /\ q.cur = NoAsm /\ q.nxt = NoAsm
    BY <1>3, <1>7
  <1>9. ~q.started /\ q.used
    BY <1>3, <1>5, <1>7
  <1>10. Tidy(q, G, j, n)
    BY <1>1, <1>7, <1>8, <1>9 DEF Tidy
  <1> QED BY <1>4, <1>8, <1>9, <1>10

\* The cumulative ack of a reader stops short of what it may still resolve, and
\* what it asks for lies above.
LEMMA AckOK ==
    ASSUME SharedInv, NEW p \in Readers, reader[p].used, NEW due \in BOOLEAN
    PROVE  DatagramOK(AckOf(p, reader[p], due))
  <1>1. PICK r : r = reader[p]
    OBVIOUS
  <1>2. /\ Tidy(r, InlineFor(p), join[p], NextSeqno(topic))
        /\ Placed(InlineFor(p), join[p], NextSeqno(topic))
        /\ join[p] \in Nat /\ NextSeqno(topic) \in Nat
        /\ r \in ReaderState /\ r.upto \in Nat /\ RingOK
        /\ r.started => writer[p].used
    BY <1>1, ReaderUse
  <1>3. HeadPlaced(r)
    BY <1>2 DEF Tidy, HeadPlaced
  <1>4. r.epoch \in Nat
    BY <1>2 DEF ReaderState
  <1>5. CASE ~r.started
    <2>1. PICK m : m = NackMsg(p, r.upto, {}, r.epoch, TRUE)
      OBVIOUS
    <2>2. m.type = "nack" /\ m.lane = p /\ m.base = r.upto /\ m.bits = {} /\ m.epoch = r.epoch
      BY <2>1 DEF NackMsg
    <2>3. m.unpos /\ m.unpos \in BOOLEAN
      BY <2>1 DEF NackMsg
    <2>4. DatagramOK(m)
      BY <1>1, <1>2, <1>4, <2>2, <2>3 DEF DatagramOK, Ack
    <2>5. AckOf(p, r, due) = m
      BY <1>5, <2>1 DEF AckOf
    <2> QED BY <1>1, <2>4, <2>5
  <1>6. CASE r.started
    <2>1. PICK f : f = FirstMissing(r)
      OBVIOUS
    <2>2. f \in Nat /\ r.upto <= f /\ (r.cur.on => f <= EndOf(r.cur)) /\ (~r.cur.on => f = r.upto)
      BY <1>3, <2>1, FirstMissingOf DEF FirstMissing
    <2>3. PICK b : b = Asked(r, due)
      OBVIOUS
    <2>4. b \subseteq f .. (f + NackWindow - 1)
      BY <1>3, <2>1, <2>3, AskedOf
    <2>5. PICK m : m = NackMsg(p, f, b, r.epoch, FALSE)
      OBVIOUS
    <2>6. m.type = "nack" /\ m.lane = p /\ m.base = f /\ m.bits = b /\ m.epoch = r.epoch
      BY <2>5 DEF NackMsg
    <2>7. ~m.unpos /\ m.unpos \in BOOLEAN
      BY <2>5 DEF NackMsg
    <2>8. join[p] <= r.upto /\ r.upto <= NextSeqno(topic)
      BY <1>2, <1>6 DEF Tidy
    <2>9. join[p] <= f
      BY <1>2, <2>2, <2>8
    <2>10. b \in SUBSET Nat /\ \A x \in b : join[p] <= x
      <3>1. NackWindow \in Nat
        BY NackWindowAssumption
      <3>2. \A x \in f .. (f + NackWindow - 1) : x \in Nat /\ join[p] <= x
        BY <1>2, <2>2, <2>9, <3>1
      <3> QED BY <2>4, <3>2
    <2>11. r.cur.on => /\ AsDelivery(r.cur) \in InlineFor(p) /\ r.cur.base = r.upto
                       /\ EndOf(r.cur) = r.cur.base + r.cur.count /\ EndOf(r.cur) <= NextSeqno(topic)
                       /\ r.cur.base \in Nat /\ r.cur.count \in Nat
      BY <1>2 DEF Tidy, Placed, AsDelivery, EndOf, ReaderState, Assembly
    <2>12. f <= NextSeqno(topic)
      BY <1>2, <2>2, <2>8, <2>11
    <2>13. ASSUME NEW i \in 1 .. Len(topic.smp), Waiting(p, i)
           PROVE  f < EndOf(topic.smp[i])
      <3>1. /\ topic.smp[i].base \in Nat /\ EndOf(topic.smp[i]) \in Nat
            /\ topic.smp[i].base < EndOf(topic.smp[i])
        BY <1>2, RingFacts
      <3>2. r.upto <= topic.smp[i].base /\ ByDescriptor(p, i)
        BY <1>1, <2>13 DEF Waiting
      <3>3. CASE ~r.cur.on
        BY <1>2, <2>2, <3>1, <3>2, <3>3
      <3>4. CASE r.cur.on
        <4>1. PICK k \in 1 .. Len(topic.smp) : ~ByDescriptor(p, k) /\ AsDelivery(r.cur) = AsDelivery(topic.smp[k])
          BY <2>11, <3>4 DEF InlineFor
        <4>2. r.cur.base = topic.smp[k].base /\ r.cur.count = topic.smp[k].count
          BY <4>1 DEF AsDelivery
        <4>3. EndOf(r.cur) = EndOf(topic.smp[k])
          BY <4>2 DEF EndOf
        <4>4. topic.smp[k].base \in Nat /\ EndOf(topic.smp[k]) \in Nat
          BY <1>2, RingFacts
        <4>5. k # i
          BY <3>2, <4>1
        <4>6. k < i \/ i < k
          BY <4>5
        <4>7. i < k => EndOf(topic.smp[i]) <= topic.smp[k].base
          BY <1>2 DEF RingOK, TopicOK
        <4>8. k < i => EndOf(topic.smp[k]) <= topic.smp[i].base
          BY <1>2 DEF RingOK, TopicOK
        <4>9. topic.smp[k].base = r.upto
          BY <2>11, <3>4, <4>2
        <4>10. f <= EndOf(topic.smp[k])
          BY <2>2, <3>4, <4>3
        <4>11. i < k => EndOf(topic.smp[i]) <= r.upto
          BY <4>7, <4>9
        <4>12. k < i
          BY <1>2, <3>1, <3>2, <4>6, <4>11
        <4> QED BY <2>2, <3>1, <4>4, <4>8, <4>10, <4>12
      <3> QED BY <3>3, <3>4
    <2>14. Ack(m)
      <3>1. reader[m.lane].used /\ m.epoch \in Nat /\ m.epoch = reader[m.lane].epoch
        BY <1>1, <1>4, <2>6, Zenon
      <3>2. m.unpos \in BOOLEAN /\ m.bits \in SUBSET Nat /\ m.base \in Nat
        BY <2>2, <2>6, <2>7, <2>10
      <3>3. writer[m.lane].used /\ join[m.lane] <= m.base /\ m.base <= NextSeqno(topic)
            /\ \A x \in m.bits : join[m.lane] <= x
        BY <1>2, <1>6, <2>6, <2>9, <2>10, <2>12
      <3>4. \A i \in 1 .. Len(topic.smp) : Waiting(m.lane, i) => m.base < EndOf(topic.smp[i])
        BY <2>6, <2>13
      <3> QED BY <3>1, <3>2, <3>3, <3>4 DEF Ack
    <2>15. DatagramOK(m)
      BY <2>6, <2>14 DEF DatagramOK
    <2>16. AckOf(p, r, due) = m
      BY <1>6, <2>1, <2>3, <2>5 DEF AckOf
    <2> QED BY <1>1, <2>15, <2>16
  <1> QED BY <1>5, <1>6

\* A new incarnation: what was asked or sent on the lane says nothing of it.
LEMMA ReaderMatchStep ==
    ASSUME SharedInv, NEW p \in Readers, look[p] = Idle, ReaderMatch(p), UNCHANGED shmVars
    PROVE  SharedInv'
  <1>1. /\ ~reader[p].used /\ epochs' = epochs + 1 /\ net' = net
        /\ UNCHANGED <<topic, writer, wDormant, join, chunk, sent, gather, look, held, got>>
    BY DEF ReaderMatch, shmVars
  <1>2. epochs \in Nat /\ epochs' \in Nat
    BY <1>1 DEF SharedInv
  <1>3. PICK z : z = Matched(epochs)
    OBVIOUS
  <1>4. reader' = [reader EXCEPT ![p] = z]
    BY <1>3 DEF ReaderMatch
  <1>5. Tidy(reader[p], InlineFor(p), join[p], NextSeqno(topic)) /\ SeatOK(p)
        /\ join[p] \in Nat /\ NextSeqno(topic) \in Nat /\ (reader[p].started => reader[p].used)
    BY ReaderUse
  <1>6. Tidy(z, InlineFor(p), join[p], NextSeqno(topic)) /\ ~z.started /\ z.used /\ z.upto = 0
    BY <1>2, <1>3, <1>5, MatchedTidy
  <1>7. ~reader[p].started /\ reader[p].upto = 0
    BY <1>1, <1>5 DEF Tidy
  <1>8. Advanced(p, z)
    BY <1>1, <1>6, <1>7 DEF Advanced
  <1>9. held[p] = Inline
    BY <1>5, <1>7 DEF SeatOK
  <1>10. Only(p, held, held') /\ held'[p] = Inline
    BY <1>1, <1>9 DEF SharedInv, Only
  <1>11. \A k \in net' : k \in net \/ DatagramOK(k)
    BY <1>1
  <1> QED BY <1>1, <1>2, <1>4, <1>8, <1>10, <1>11, ReaderMoves

\* A reader acks, or only lets its timer go.
LEMMA ReaderEmitStep ==
    ASSUME SharedInv, NEW p \in Readers, NEW due \in BOOLEAN, look[p] = Idle, ReaderEmit(p, due),
           UNCHANGED shmVars
    PROVE  SharedInv'
  <1>1. /\ reader[p].used
        /\ UNCHANGED <<topic, writer, wDormant, epochs, join, chunk, sent, gather, look, held, got>>
    BY DEF ReaderEmit, shmVars
  <1>2. net' \subseteq net \cup {AckOf(p, reader[p], due)}
    BY DEF ReaderEmit
  <1>3. \A k \in net' : k \in net \/ DatagramOK(k)
    BY <1>1, <1>2, AckOK
  <1>4. PICK z : z = AfterEmit(reader[p], due)
    OBVIOUS
  <1>5. reader' = [reader EXCEPT ![p] = z]
    BY <1>4 DEF ReaderEmit
  <1>6. /\ Tidy(reader[p], InlineFor(p), join[p], NextSeqno(topic)) /\ SeatOK(p)
        /\ join[p] \in Nat /\ NextSeqno(topic) \in Nat /\ (reader[p].started => writer[p].used)
    BY ReaderUse
  <1>7. Tidy(z, InlineFor(p), join[p], NextSeqno(topic)) /\ Onward(reader[p], z) /\ SameHead(reader[p], z)
    BY <1>4, <1>6, AfterEmitTidy
  <1>8. Advanced(p, z)
    BY <1>1, <1>6, <1>7 DEF Advanced, Onward
  <1>9. held[p] # Inline => SameHead(reader[p], z) /\ z.started
    BY <1>6, <1>7 DEF SeatOK, Onward
  <1>10. Only(p, held, held') /\ held'[p] = held[p] /\ epochs' \in Nat
    BY <1>1 DEF SharedInv, Only
  <1> QED BY <1>1, <1>3, <1>5, <1>8, <1>9, <1>10, ReaderMoves

\* The consumer has room again for a sample that came in fragments.
LEMMA ReaderUnparkStep ==
    ASSUME SharedInv, NEW p \in Readers, NEW acc \in Accepts, look[p] = Idle, held[p] = Inline,
           ReaderUnpark(p, acc), UNCHANGED shmVars
    PROVE  SharedInv'
  <1>1. /\ reader[p].used /\ net' = net
        /\ UNCHANGED <<topic, writer, wDormant, epochs, join, chunk, sent, gather, look, held, got>>
    BY DEF ReaderUnpark, shmVars
  <1>2. \A k \in net' : k \in net \/ DatagramOK(k)
    BY <1>1
  <1>3. acc \in Nat
    BY TopicAssumption
  <1>4. PICK z : z = Unpark(reader[p], acc)
    OBVIOUS
  <1>5. reader' = [reader EXCEPT ![p] = z]
    BY <1>4 DEF ReaderUnpark
  <1>6. /\ Tidy(reader[p], InlineFor(p), join[p], NextSeqno(topic))
        /\ Placed(InlineFor(p), join[p], NextSeqno(topic))
        /\ join[p] \in Nat /\ NextSeqno(topic) \in Nat /\ (reader[p].started => writer[p].used)
    BY ReaderUse
  <1>7. Tidy(z, InlineFor(p), join[p], NextSeqno(topic)) /\ Onward(reader[p], z)
    BY <1>3, <1>4, <1>6, UnparkTidy
  <1>8. Advanced(p, z)
    BY <1>1, <1>6, <1>7 DEF Advanced, Onward
  <1>9. Only(p, held, held') /\ held'[p] = Inline /\ epochs' \in Nat
    BY <1>1 DEF SharedInv, Only
  <1> QED BY <1>1, <1>2, <1>5, <1>8, <1>9, ReaderMoves

\* Everything a reader's process does without a resolve.
LEMMA ReaderElseStep ==
    ASSUME SharedInv, NEW p \in Readers, ReaderElse(p)
    PROVE  SharedInv'
  <1>1. look[p] = Idle /\ UNCHANGED shmVars
    BY DEF ReaderElse
  <1>2. CASE ReaderMatch(p)
    BY <1>1, <1>2, ReaderMatchStep
  <1>3. ASSUME NEW due \in BOOLEAN, ReaderEmit(p, due)
        PROVE  SharedInv'
    BY <1>1, <1>3, ReaderEmitStep
  <1>4. ASSUME held[p] = Inline, NEW acc \in Accepts, ReaderUnpark(p, acc)
        PROVE  SharedInv'
    BY <1>1, <1>4, ReaderUnparkStep
  <1>5. ASSUME NEW m \in net, NEW acc \in Accepts, m.lane = p, ~IsShm(m), RecvData(m, TRUE, acc)
        PROVE  SharedInv'
    BY <1>1, <1>5, RecvPlainStep
  <1>6. \/ ReaderMatch(p)
        \/ \E due \in BOOLEAN : ReaderEmit(p, due)
        \/ held[p] = Inline /\ \E acc \in Accepts : ReaderUnpark(p, acc)
        \/ \E m \in net, acc \in Accepts : m.lane = p /\ ~IsShm(m) /\ RecvData(m, TRUE, acc)
    BY DEF ReaderElse
  <1> QED BY <1>2, <1>3, <1>4, <1>5, <1>6

-----------------------------------------------------------------------------
(* A reader's resolve.                                                     *)

\* l is a resolve of the sample p is at
Seated(p, l) ==
    /\ l # Idle => /\ l = [at |-> l.at, base |-> l.base, count |-> l.count, desc |-> l.desc,
                           parked |-> l.parked, parts |-> l.parts]
                   /\ reader[p].started /\ ~reader[p].cur.on
                   /\ Names(p, l.base, l.count, l.desc)
                   /\ l.parts \in Parts
                   /\ l.at \in {"rest", "tail"} => l.parts[1] = l.base
                   /\ l.at = "tail" => l.parts[2] = l.base

\* What a resolve in progress is about.
LEMMA LookFacts ==
    ASSUME SharedInv, NEW p \in Readers, look[p] # Idle
    PROVE  /\ reader[p].used /\ reader[p].started /\ ~reader[p].cur.on /\ writer[p].used
           /\ Seated(p, look[p]) /\ Names(p, look[p].base, look[p].count, look[p].desc)
           /\ look[p].base \in Nat /\ look[p].count \in Nat
           /\ look[p].base = reader[p].upto
           /\ look[p].base + look[p].count <= NextSeqno(topic)
  <1>1. SeatOK(p) /\ RingOK /\ (reader[p].started => writer[p].used /\ reader[p].used)
    BY ReaderUse
  <1>2. Seated(p, look[p])
    BY <1>1 DEF SeatOK, Seated
  <1>3. Names(p, look[p].base, look[p].count, look[p].desc) /\ reader[p].started /\ ~reader[p].cur.on
    BY <1>2 DEF Seated
  <1>4. PICK i \in 1 .. Len(topic.smp) :
           /\ look[p].base = topic.smp[i].base /\ look[p].count = topic.smp[i].count
           /\ reader[p].upto = look[p].base
    BY <1>3 DEF Names
  <1>5. /\ topic.smp[i].base \in Nat /\ topic.smp[i].count \in Nat
        /\ topic.smp[i].base + topic.smp[i].count <= NextSeqno(topic)
    BY <1>1, RingFacts
  <1> QED BY <1>1, <1>2, <1>3, <1>4, <1>5

\* The chunk a reader copies out of holds the sample it is at, all of it: the sample
\* is not acked, so no send that waited for its readers writes there.
LEMMA CopySound ==
    ASSUME SharedInv, NEW p \in Readers, look[p] # Idle
    PROVE  Target(p).parts = <<look[p].base, look[p].base>>
  <1>1. Names(p, look[p].base, look[p].count, look[p].desc) /\ RingOK
    BY LookFacts, ReaderUse
  <1>2. PICK i \in 1 .. Len(topic.smp) :
           /\ Waiting(p, i) /\ look[p].base = topic.smp[i].base /\ look[p].desc = sent[i]
    BY <1>1 DEF Names
  <1>3. topic.lo <= i /\ (gather # Idle => ~Overwritten(i))
    BY <1>2 DEF SharedInv, WaitingKept
  <1>4. i \in Cached(topic)
    BY <1>1, <1>3, RingFacts
  <1>5. Described(i)
    BY <1>2 DEF Waiting, ByDescriptor
  <1>6. chunk[sent[i].class][sent[i].chunk].parts = <<topic.smp[i].base, topic.smp[i].base>>
    BY <1>3, <1>4, <1>5 DEF SharedInv, ContentOK
  <1> QED BY <1>2, <1>6 DEF Target

\* A resolve begins or goes on, the lane stays as it is.
LEMMA LookMoves ==
    ASSUME SharedInv, NEW p \in Readers, reader[p].started, NEW l, Seated(p, l),
           look' = [look EXCEPT ![p] = l],
           UNCHANGED <<topic, writer, reader, wDormant, epochs, net, join, chunk, sent, gather, held, got>>
    PROVE  SharedInv'
  <1>1. /\ Tidy(reader[p], InlineFor(p), join[p], NextSeqno(topic)) /\ reader[p].upto \in Nat
        /\ reader[p].used /\ writer[p].used /\ SeatOK(p)
    BY ReaderUse
  <1>2. Advanced(p, reader'[p])
    BY <1>1 DEF Advanced
  <1>3. /\ reader = [q \in Readers |-> reader[q]] /\ look = [q \in Readers |-> look[q]]
        /\ held = [q \in Readers |-> held[q]] /\ got = [q \in Readers |-> got[q]]
        /\ epochs \in Nat
    BY DEF SharedInv
  <1>4. Only(p, look, look') /\ look'[p] = l
    BY <1>3, OnlyUpdate
  <1>5. ReaderFrame(p)
    BY <1>3, <1>4 DEF ReaderFrame, Only
  <1>6. SeatOK(p)'
    <2>1. \A b, c, d : Names(p, b, c, d)' <=> Names(p, b, c, d)
      BY DEF Names, Waiting, ByDescriptor, Described
    <2>2. held'[p] # Inline =>
             /\ reader'[p].started /\ reader'[p].parked /\ ~reader'[p].cur.on
             /\ Names(p, reader[p].cur.base, reader[p].cur.count, held[p])
      BY <1>1 DEF SeatOK
    <2>3. /\ got'[p] \in Seq([base : Nat, parts : Parts])
          /\ \A i \in 1 .. Len(got'[p]) : got'[p][i].parts = <<got'[p][i].base, got'[p][i].base>>
      BY <1>1 DEF SeatOK
    <2>4. Seated(p, l)'
      BY <2>1 DEF Seated
    <2> QED BY <1>4, <2>1, <2>2, <2>3, <2>4 DEF SeatOK, Seated
  <1>7. \A m \in net' : m \in net \/ DatagramOK(m)
    OBVIOUS
  <1> QED BY <1>2, <1>3, <1>5, <1>6, <1>7, ReaderStepInv

\* The resolve is over, and what was parked with it.
LEMMA LookEnds ==
    ASSUME SharedInv, NEW p \in Readers, look[p] # Idle, NEW z, reader' = [reader EXCEPT ![p] = z],
           look' = [look EXCEPT ![p] = Idle],
           UNCHANGED <<topic, writer, wDormant, epochs, net, join, chunk, sent, gather>>,
           Tidy(z, InlineFor(p), join[p], NextSeqno(topic)), Onward(reader[p], z),
           NEW h, held' = [held EXCEPT ![p] = h], Only(p, got, got'),
           h # Inline => z.parked /\ ~z.cur.on /\ z.upto = reader[p].upto /\ h = look[p].desc
                         /\ z.cur.base = look[p].base /\ z.cur.count = look[p].count,
           got'[p] \in Seq([base : Nat, parts : Parts]),
           \A i \in 1 .. Len(got'[p]) : got'[p][i].parts = <<got'[p][i].base, got'[p][i].base>>
    PROVE  SharedInv'
  <1>1. /\ reader = [q \in Readers |-> reader[q]] /\ look = [q \in Readers |-> look[q]]
        /\ held = [q \in Readers |-> held[q]] /\ epochs' \in Nat
    BY DEF SharedInv
  <1>2. /\ Only(p, reader, reader') /\ reader'[p] = z
        /\ Only(p, look, look') /\ look'[p] = Idle
        /\ Only(p, held, held') /\ held'[p] = h
    BY <1>1, OnlyUpdate
  <1>3. ReaderFrame(p)
    BY <1>2 DEF ReaderFrame
  <1>4. /\ reader[p].used /\ reader[p].started /\ writer[p].used
        /\ Names(p, look[p].base, look[p].count, look[p].desc)
    BY LookFacts
  <1>5. Advanced(p, reader'[p])
    BY <1>2, <1>4 DEF Advanced, Onward
  <1>6. held'[p] # Inline => /\ reader'[p].started /\ reader'[p].parked /\ ~reader'[p].cur.on
                             /\ Names(p, reader[p].cur.base, reader[p].cur.count, held[p])'
    <2> SUFFICES ASSUME h # Inline
                 PROVE  /\ z.started /\ z.parked /\ ~z.cur.on
                        /\ Names(p, reader[p].cur.base, reader[p].cur.count, held[p])'
      BY <1>2
    <2>1. z.started
      BY <1>4 DEF Onward
    <2>2. PICK i \in 1 .. Len(topic.smp) :
             /\ Waiting(p, i) /\ look[p].base = topic.smp[i].base /\ look[p].count = topic.smp[i].count
             /\ look[p].desc = sent[i] /\ reader[p].upto = look[p].base
      BY <1>4 DEF Names
    <2>3. reader'[p].upto = reader[p].upto /\ held'[p] = sent[i]
          /\ reader'[p].cur.base = topic.smp[i].base /\ reader'[p].cur.count = topic.smp[i].count
      BY <1>2, <2>2
    <2>4. Waiting(p, i)'
      BY <2>2, <2>3 DEF Waiting, ByDescriptor, Described
    <2>5. Names(p, reader[p].cur.base, reader[p].cur.count, held[p])'
      BY <2>2, <2>3, <2>4 DEF Names
    <2> QED BY <2>1, <2>5
  <1>7. SeatOK(p)'
    BY <1>2, <1>6 DEF SeatOK
  <1>8. \A m \in net' : m \in net \/ DatagramOK(m)
    OBVIOUS
  <1> QED BY <1>1, <1>3, <1>5, <1>7, <1>8, ReaderStepInv

\* A descriptor that is turned away moves nothing.
LEMMA TurnedStep ==
    ASSUME SharedInv, NEW p \in Readers, look[p] = Idle, reader[p].used, NEW z \in ReaderState,
           reader' = [reader EXCEPT ![p] = z], Alike(reader[p], z), z.parked = reader[p].parked,
           UNCHANGED <<topic, writer, wDormant, epochs, join, chunk, sent, gather, look, held, got>>,
           net' \subseteq net
    PROVE  SharedInv'
  <1>1. /\ Tidy(reader[p], InlineFor(p), join[p], NextSeqno(topic)) /\ SeatOK(p)
        /\ (reader[p].started => writer[p].used)
    BY ReaderUse
  <1>2. Tidy(z, InlineFor(p), join[p], NextSeqno(topic)) /\ Onward(reader[p], z)
    BY <1>1, AlikeTidy
  <1>3. Advanced(p, z)
    BY <1>1, <1>2 DEF Advanced, Onward
  <1>4. SameHead(reader[p], z)
    BY DEF SameHead, Alike
  <1>5. held[p] # Inline => SameHead(reader[p], z) /\ z.started
    BY <1>1, <1>2, <1>4 DEF SeatOK, Onward
  <1>6. Only(p, held, held') /\ held'[p] = held[p] /\ epochs' \in Nat
    BY DEF SharedInv, Only
  <1>7. \A k \in net' : k \in net \/ DatagramOK(k)
    OBVIOUS
  <1> QED BY <1>3, <1>5, <1>6, <1>7, ReaderMoves

\* A descriptor the reader takes up: from here on it stands at that sample.
LEMMA TakenUpStep ==
    ASSUME SharedInv, NEW p \in Readers, look[p] = Idle, reader[p].used, ~reader[p].parked, NEW z,
           reader' = [reader EXCEPT ![p] = z],
           NEW m, Descriptor(m), m.lane = p, m.base >= reader[p].upto,
           reader[p].started => m.base = reader[p].upto,
           Tidy(z, InlineFor(p), join[p], NextSeqno(topic)), ~z.cur.on, z.started, z.used,
           z.epoch = reader[p].epoch, z.upto = m.base,
           look' = [look EXCEPT ![p] = Resolve(m, FALSE)],
           UNCHANGED <<topic, writer, wDormant, epochs, join, chunk, sent, gather, held, got>>,
           net' \subseteq net
    PROVE  SharedInv'
  <1>1. SeatOK(p) /\ reader[p].upto \in Nat /\ RingOK
    BY ReaderUse
  <1>2. writer[p].used
    BY DEF Descriptor
  <1>3. PICK i \in 1 .. Len(topic.smp) :
           /\ ByDescriptor(p, i) /\ join[p] <= topic.smp[i].base
           /\ m.base = topic.smp[i].base /\ m.count = topic.smp[i].count /\ m.desc = sent[i]
    BY DEF Descriptor
  <1>4. m.base \in Nat
    BY <1>1, <1>3, RingFacts
  <1>5. /\ reader = [q \in Readers |-> reader[q]] /\ look = [q \in Readers |-> look[q]]
        /\ held = [q \in Readers |-> held[q]] /\ got = [q \in Readers |-> got[q]] /\ epochs' \in Nat
    BY DEF SharedInv
  <1>6. PICK l : l = Resolve(m, FALSE)
    OBVIOUS
  <1>7. /\ Only(p, reader, reader') /\ reader'[p] = z
        /\ Only(p, look, look') /\ look'[p] = l
    BY <1>5, <1>6, OnlyUpdate
  <1>8. ReaderFrame(p)
    BY <1>5, <1>7 DEF ReaderFrame, Only
  <1>9. Advanced(p, reader'[p])
    BY <1>1, <1>2, <1>4, <1>7 DEF Advanced
  <1>10. /\ l = [at |-> l.at, base |-> l.base, count |-> l.count, desc |-> l.desc,
                 parked |-> l.parked, parts |-> l.parts]
         /\ l.at = "head" /\ l.base = m.base /\ l.count = m.count /\ l.desc = m.desc
         /\ l.parts \in Parts
    BY <1>6 DEF Resolve, Parts, Nobody
  <1>11. held'[p] = Inline
    BY <1>1 DEF SeatOK
  <1>12. SeatOK(p)'
    <2>1. Waiting(p, i)'
      BY <1>2, <1>3, <1>4, <1>7 DEF Waiting, ByDescriptor, Described
    <2>2. Names(p, look[p].base, look[p].count, look[p].desc)'
      BY <1>3, <1>7, <1>10, <2>1 DEF Names
    <2>3. reader'[p].started /\ ~reader'[p].cur.on
      BY <1>7
    <2>4. /\ got'[p] \in Seq([base : Nat, parts : Parts])
          /\ \A k \in 1 .. Len(got'[p]) : got'[p][k].parts = <<got'[p][k].base, got'[p][k].base>>
      BY <1>1 DEF SeatOK
    <2> QED BY <1>7, <1>10, <1>11, <2>2, <2>3, <2>4 DEF SeatOK
  <1>13. \A k \in net' : k \in net \/ DatagramOK(k)
    OBVIOUS
  <1> QED BY <1>5, <1>8, <1>9, <1>12, <1>13, ReaderStepInv

\* The consumer has room again for a parked descriptor.
LEMMA RetryParkedStep ==
    ASSUME SharedInv, NEW p \in Readers, RetryParked(p)
    PROVE  SharedInv'
  <1>1. /\ held[p] # Inline
        /\ UNCHANGED <<topic, writer, reader, wDormant, epochs, net, join, chunk, sent, gather, held, got>>
    BY DEF RetryParked, vars
  <1>2. PICK m : m = [base |-> reader[p].cur.base, count |-> reader[p].cur.count, desc |-> held[p]]
    OBVIOUS
  <1>3. PICK l : l = Resolve(m, TRUE)
    OBVIOUS
  <1>4. look' = [look EXCEPT ![p] = l]
    BY <1>2, <1>3 DEF RetryParked
  <1>5. /\ l = [at |-> l.at, base |-> l.base, count |-> l.count, desc |-> l.desc,
                parked |-> l.parked, parts |-> l.parts]
        /\ l.at = "head" /\ l.base = m.base /\ l.count = m.count /\ l.desc = m.desc
        /\ l.parts \in Parts
    BY <1>3 DEF Resolve, Parts, Nobody
  <1>6. /\ reader[p].started /\ ~reader[p].cur.on
        /\ Names(p, reader[p].cur.base, reader[p].cur.count, held[p])
    BY <1>1, ReaderUse DEF SeatOK
  <1>7. Names(p, l.base, l.count, l.desc)
    BY <1>2, <1>5, <1>6
  <1>8. Seated(p, l)
    BY <1>5, <1>6, <1>7 DEF Seated
  <1> QED BY <1>1, <1>4, <1>6, <1>8, LookMoves

\* A resolve that failed.
LEMMA UnresolvedStep ==
    ASSUME SharedInv, NEW p \in Readers, look[p] # Idle, Unresolved(p),
           UNCHANGED <<topic, writer, wDormant, epochs, net, join, chunk, sent, gather>>
    PROVE  SharedInv'
  <1>1. /\ Tidy(reader[p], InlineFor(p), join[p], NextSeqno(topic)) /\ SeatOK(p)
        /\ join[p] \in Nat /\ NextSeqno(topic) \in Nat
    BY ReaderUse
  <1>2. /\ reader[p].started /\ ~reader[p].cur.on
        /\ look[p].base \in Nat /\ look[p].count \in Nat /\ look[p].base = reader[p].upto
        /\ look[p].base + look[p].count <= NextSeqno(topic)
    BY LookFacts
  <1> DEFINE r == reader[p]
             A == AckNow([r EXCEPT !.parked = FALSE, !.cur = NoAsm], FALSE)
             B == AckNow(Settle([r EXCEPT !.lost = @ \cup (look[p].base .. (look[p].base + look[p].count - 1)),
                                          !.upto = look[p].base + look[p].count]), TRUE)
             C == AckNow(r, FALSE)
             last == fails[p] + 1 >= MaxRetry
             Z == CASE look[p].parked -> A
                    [] ~look[p].parked /\ last -> B
                    [] ~look[p].parked /\ ~last -> C
  <1>3. reader' = [reader EXCEPT ![p] = Z]
    BY Zenon DEF Unresolved
  <1>4. PICK z : z = Z
    OBVIOUS
  <1>5. reader' = [reader EXCEPT ![p] = z]
    BY <1>3, <1>4
  <1>6. z \in {A, B, C}
    <2> HIDE DEF A, B, C, last
    <2>1. CASE look[p].parked
      BY <1>4, <2>1
    <2>2. CASE ~look[p].parked /\ last
      BY <1>4, <2>2
    <2>3. CASE ~look[p].parked /\ ~last
      BY <1>4, <2>3
    <2> QED BY <2>1, <2>2, <2>3
  <1>a. z \in GaveUp(reader[p], look[p].base, look[p].count)
    BY <1>6 DEF GaveUp
  <1> HIDE DEF A, B, C, Z, last
  <1>7. Tidy(z, InlineFor(p), join[p], NextSeqno(topic)) /\ Onward(reader[p], z)
    BY <1>1, <1>2, <1>a, GivenUpTidy
  <1>8. look' = [look EXCEPT ![p] = Idle] /\ held' = [held EXCEPT ![p] = Inline] /\ got' = got
    BY DEF Unresolved
  <1>9. Only(p, got, got')
    BY <1>8 DEF SharedInv, Only
  <1>10. /\ got'[p] \in Seq([base : Nat, parts : Parts])
         /\ \A i \in 1 .. Len(got'[p]) : got'[p][i].parts = <<got'[p][i].base, got'[p][i].base>>
    BY <1>1, <1>8 DEF SeatOK
  <1>11. PICK h : h = Inline
    OBVIOUS
  <1> QED BY <1>5, <1>7, <1>8, <1>9, <1>10, <1>11, LookEnds

\* The seqlock head: the copy begins, or the resolve failed.
LEMMA LookHeadStep ==
    ASSUME SharedInv, NEW p \in Readers, NEW mem, LookHead(p, mem)
    PROVE  SharedInv'
  <1>1. /\ look[p].at = "head"
        /\ UNCHANGED <<topic, writer, wDormant, epochs, net, join, chunk, sent, gather>>
    BY DEF LookHead
  <1>2. look[p] # Idle
    BY <1>1 DEF Idle
  <1>3. CASE Unresolved(p)
    BY <1>1, <1>2, <1>3, UnresolvedStep
  <1>4. CASE look' = [look EXCEPT ![p].at = "copy"] /\ UNCHANGED <<reader, fails, held, got>>
    <2>1. Seated(p, look[p]) /\ reader[p].started
      BY <1>2, LookFacts
    <2>2. PICK k : k = look[p]
      OBVIOUS
    <2>3. PICK l : l = [k EXCEPT !.at = "copy"]
      OBVIOUS
    <2>4. look' = [look EXCEPT ![p] = l]
      BY <1>4, <2>2, <2>3
    <2>5. k = [at |-> k.at, base |-> k.base, count |-> k.count, desc |-> k.desc,
               parked |-> k.parked, parts |-> k.parts]
      BY <1>2, <2>1, <2>2 DEF Seated
    <2>6. /\ l = [at |-> l.at, base |-> l.base, count |-> l.count, desc |-> l.desc,
                  parked |-> l.parked, parts |-> l.parts]
          /\ l.at = "copy" /\ l.base = k.base /\ l.count = k.count /\ l.desc = k.desc /\ l.parts = k.parts
      BY <2>3, <2>5
    <2>7. Seated(p, l)
      BY <1>2, <2>1, <2>2, <2>6 DEF Seated
    <2> QED BY <1>1, <1>4, <2>1, <2>4, <2>7, LookMoves
  <1> QED BY <1>3, <1>4 DEF LookHead

\* The first part of the copy.
LEMMA CopyFirstStep ==
    ASSUME SharedInv, NEW p \in Readers, CopyFirst(p)
    PROVE  SharedInv'
  <1>1. /\ look[p].at = "copy"
        /\ UNCHANGED <<topic, writer, reader, wDormant, epochs, net, join, chunk, sent, gather, held, got>>
    BY DEF CopyFirst, vars
  <1>2. look[p] # Idle
    BY <1>1 DEF Idle
  <1>3. Seated(p, look[p]) /\ reader[p].started /\ look[p].base \in Nat
        /\ Target(p).parts = <<look[p].base, look[p].base>>
    BY <1>2, LookFacts, CopySound
  <1>4. PICK k : k = look[p]
    OBVIOUS
  <1>5. k = [at |-> k.at, base |-> k.base, count |-> k.count, desc |-> k.desc,
             parked |-> k.parked, parts |-> k.parts]
        /\ k.parts \in (Nat \cup {Nobody}) \X (Nat \cup {Nobody})
    BY <1>2, <1>3, <1>4 DEF Seated, Parts
  <1>6. PICK t : t = [k.parts EXCEPT ![1] = k.base]
    OBVIOUS
  <1>7. t \in (Nat \cup {Nobody}) \X (Nat \cup {Nobody}) /\ t[1] = k.base
    BY <1>3, <1>4, <1>5, <1>6
  <1>8. PICK l : l = [k EXCEPT !.at = "rest", !.parts = t]
    OBVIOUS
  <1>9. look' = [look EXCEPT ![p] = l]
    <2>1. PICK v : v = Target(p).parts[1]
      OBVIOUS
    <2>2. v = k.base
      BY <1>3, <1>4, <2>1
    <2>3. look' = [look EXCEPT ![p].at = "rest", ![p].parts[1] = v]
      BY <2>1 DEF CopyFirst
    <2> QED BY <1>4, <1>6, <1>8, <2>2, <2>3
  <1>10. /\ l = [at |-> l.at, base |-> l.base, count |-> l.count, desc |-> l.desc,
                 parked |-> l.parked, parts |-> l.parts]
         /\ l.at = "rest" /\ l.base = k.base /\ l.count = k.count /\ l.desc = k.desc /\ l.parts = t
    BY <1>5, <1>8
  <1>11. Seated(p, l)
    BY <1>2, <1>3, <1>4, <1>7, <1>10 DEF Seated, Parts
  <1> QED BY <1>1, <1>3, <1>9, <1>11, LookMoves

\* The second part of the copy, of the same sample still.
LEMMA CopyRestStep ==
    ASSUME SharedInv, NEW p \in Readers, CopyRest(p)
    PROVE  SharedInv'
  <1>1. /\ look[p].at = "rest"
        /\ UNCHANGED <<topic, writer, reader, wDormant, epochs, net, join, chunk, sent, gather, held, got>>
    BY DEF CopyRest, vars
  <1>2. look[p] # Idle
    BY <1>1 DEF Idle
  <1>3. Seated(p, look[p]) /\ reader[p].started /\ look[p].base \in Nat
        /\ Target(p).parts = <<look[p].base, look[p].base>>
    BY <1>2, LookFacts, CopySound
  <1>4. PICK k : k = look[p]
    OBVIOUS
  <1>5. k = [at |-> k.at, base |-> k.base, count |-> k.count, desc |-> k.desc,
             parked |-> k.parked, parts |-> k.parts]
        /\ k.parts \in (Nat \cup {Nobody}) \X (Nat \cup {Nobody}) /\ k.parts[1] = k.base
    BY <1>1, <1>2, <1>3, <1>4 DEF Seated, Parts
  <1>6. PICK t : t = [k.parts EXCEPT ![2] = k.base]
    OBVIOUS
  <1>7. t \in (Nat \cup {Nobody}) \X (Nat \cup {Nobody}) /\ t[1] = k.base /\ t[2] = k.base
    BY <1>3, <1>4, <1>5, <1>6
  <1>8. PICK l : l = [k EXCEPT !.at = "tail", !.parts = t]
    OBVIOUS
  <1>9. look' = [look EXCEPT ![p] = l]
    <2>1. PICK v : v = Target(p).parts[2]
      OBVIOUS
    <2>2. v = k.base
      BY <1>3, <1>4, <2>1
    <2>3. look' = [look EXCEPT ![p].at = "tail", ![p].parts[2] = v]
      BY <2>1 DEF CopyRest
    <2> QED BY <1>4, <1>6, <1>8, <2>2, <2>3
  <1>10. /\ l = [at |-> l.at, base |-> l.base, count |-> l.count, desc |-> l.desc,
                 parked |-> l.parked, parts |-> l.parts]
         /\ l.at = "tail" /\ l.base = k.base /\ l.count = k.count /\ l.desc = k.desc /\ l.parts = t
    BY <1>5, <1>8
  <1>11. Seated(p, l)
    BY <1>2, <1>3, <1>4, <1>7, <1>10 DEF Seated, Parts
  <1> QED BY <1>1, <1>3, <1>9, <1>11, LookMoves

\* The seqlock tail and the delivery: taken, parked, or the resolve failed.
LEMMA LookTailStep ==
    ASSUME SharedInv, NEW p \in Readers, NEW acc \in Accepts, LookTail(p, acc)
    PROVE  SharedInv'
  <1>1. /\ look[p].at = "tail"
        /\ UNCHANGED <<topic, writer, wDormant, epochs, net, join, chunk, sent, gather>>
    BY DEF LookTail
  <1>2. look[p] # Idle
    BY <1>1 DEF Idle
  <1>3. /\ Tidy(reader[p], InlineFor(p), join[p], NextSeqno(topic)) /\ SeatOK(p)
        /\ Placed(InlineFor(p), join[p], NextSeqno(topic))
        /\ join[p] \in Nat /\ NextSeqno(topic) \in Nat /\ reader[p].upto \in Nat
    BY ReaderUse
  <1>4. /\ reader[p].started /\ ~reader[p].cur.on /\ Seated(p, look[p])
        /\ look[p].base \in Nat /\ look[p].count \in Nat /\ look[p].base = reader[p].upto
        /\ look[p].base + look[p].count <= NextSeqno(topic)
    BY <1>2, LookFacts
  <1>5. acc \in Nat
    BY TopicAssumption
  <1>6. got = [q \in Readers |-> got[q]]
    BY DEF SharedInv
  <1>7. /\ got[p] \in Seq([base : Nat, parts : Parts])
        /\ \A i \in 1 .. Len(got[p]) : got[p][i].parts = <<got[p][i].base, got[p][i].base>>
    BY <1>3 DEF SeatOK
  <1>8. CASE Unresolved(p)
    BY <1>1, <1>2, <1>8, UnresolvedStep
  <1>9. CASE /\ reader' = [reader EXCEPT ![p] = Parked(reader[p], look[p])]
             /\ held' = [held EXCEPT ![p] = look[p].desc]
             /\ look' = [look EXCEPT ![p] = Idle]
             /\ UNCHANGED <<fails, got>>
    <2>1. PICK z : z = Parked(reader[p], look[p])
      OBVIOUS
    <2>2. /\ Tidy(z, InlineFor(p), join[p], NextSeqno(topic)) /\ Onward(reader[p], z)
          /\ z.parked /\ ~z.cur.on /\ z.cur.base = look[p].base /\ z.cur.count = look[p].count
          /\ z.upto = reader[p].upto
      <3>1. PICK r : r = reader[p]
        OBVIOUS
      <3>2. PICK l : l = look[p]
        OBVIOUS
      <3>3. Tidy(r, InlineFor(p), join[p], NextSeqno(topic)) /\ l.base \in Nat /\ l.count \in Nat
        BY <1>3, <1>4, <3>1, <3>2
      <3>4. LET q == Parked(r, l) IN
            /\ Tidy(q, InlineFor(p), join[p], NextSeqno(topic)) /\ Onward(r, q)
            /\ ParkedAt(q, l) /\ q.upto = r.upto
        BY <1>3, <3>3, ParkedTidy
      <3> QED BY <2>1, <3>1, <3>2, <3>4, Zenon DEF ParkedAt
    <2>3. reader' = [reader EXCEPT ![p] = z] /\ Only(p, got, got')
      BY <1>6, <1>9, <2>1 DEF Only
    <2>4. PICK h : h = look[p].desc
      OBVIOUS
    <2>5. got'[p] = got[p]
      BY <1>9
    <2> QED BY <1>1, <1>2, <1>7, <1>9, <2>2, <2>3, <2>4, <2>5, LookEnds
  <1>10. CASE /\ acc > 0
              /\ reader' = [reader EXCEPT ![p] = CopyTaken(reader[p], look[p], acc - 1)]
              /\ got' = [got EXCEPT ![p] = Append(got[p], [base |-> look[p].base, parts |-> look[p].parts])]
              /\ held' = [held EXCEPT ![p] = Inline]
              /\ look' = [look EXCEPT ![p] = Idle]
    <2>1. PICK a \in Nat : a = acc - 1
      <3>1. acc > 0
        BY <1>10
      <3>2. acc - 1 \in Nat
        BY <1>5, <3>1
      <3> QED BY <3>2
    <2>2. PICK z : z = CopyTaken(reader[p], look[p], a)
      OBVIOUS
    <2>3. Tidy(z, InlineFor(p), join[p], NextSeqno(topic)) /\ Onward(reader[p], z)
      <3>1. reader[p].upto <= look[p].base
        BY <1>3, <1>4
      <3>2. /\ Tidy(CopyTaken(reader[p], look[p], a), InlineFor(p), join[p], NextSeqno(topic))
            /\ Onward(reader[p], CopyTaken(reader[p], look[p], a))
        BY <1>3, <1>4, <3>1, CopyTakenTidy
      <3> QED BY <2>2, <3>2
    <2>4. reader' = [reader EXCEPT ![p] = z]
      BY <1>10, <2>1, <2>2
    <2>5. PICK d : d = [base |-> look[p].base, parts |-> look[p].parts]
      OBVIOUS
    <2>6. look[p].parts \in Parts /\ look[p].parts[1] = look[p].base /\ look[p].parts[2] = look[p].base
      BY <1>1, <1>2, <1>4 DEF Seated
    <2>7. d \in [base : Nat, parts : Parts] /\ d.base = look[p].base
      BY <1>4, <2>5, <2>6
    <2>8. d.parts = <<d.base, d.base>>
      <3>1. look[p].parts = <<look[p].base, look[p].base>>
        <4>1. PICK x : x = look[p].base
          OBVIOUS
        <4>2. PICK t : t = look[p].parts
          OBVIOUS
        <4>3. t \in (Nat \cup {Nobody}) \X (Nat \cup {Nobody}) /\ t[1] = x /\ t[2] = x
          BY <2>6, <4>1, <4>2 DEF Parts
        <4>4. t = <<x, x>>
          BY <4>3
        <4> QED BY <4>1, <4>2, <4>4
      <3> QED BY <2>5, <3>1
    <2>9. PICK g : g = Append(got[p], d)
      OBVIOUS
    <2>10. /\ g \in Seq([base : Nat, parts : Parts])
           /\ \A i \in 1 .. Len(g) : g[i].parts = <<g[i].base, g[i].base>>
      <3>1. PICK R : R = [base : Nat, parts : Parts]
        OBVIOUS
      <3>2. got[p] \in Seq(R) /\ d \in R
        BY <1>7, <2>7, <3>1
      <3>3. /\ g \in Seq(R) /\ Len(g) = Len(got[p]) + 1 /\ Len(got[p]) \in Nat
            /\ \A i \in 1 .. Len(got[p]) : g[i] = got[p][i]
            /\ g[Len(got[p]) + 1] = d
        BY <2>9, <3>2
      <3>4. ASSUME NEW i \in 1 .. Len(g)
            PROVE  g[i].parts = <<g[i].base, g[i].base>>
        <4>1. CASE i = Len(got[p]) + 1
          BY <2>8, <3>3, <4>1
        <4>2. CASE i # Len(got[p]) + 1
          <5>1. i \in 1 .. Len(got[p])
            BY <3>3, <4>2
          <5>2. g[i] = got[p][i]
            BY <3>3, <5>1
          <5> QED BY <1>7, <5>1, <5>2
        <4> QED BY <4>1, <4>2
      <3> QED BY <3>1, <3>3, <3>4
    <2>11. Only(p, got, got') /\ got'[p] = g
      BY <1>6, <1>10, <2>5, <2>9, OnlyUpdate
    <2>12. PICK h : h = Inline
      OBVIOUS
    <2> QED BY <1>1, <1>2, <1>10, <2>3, <2>4, <2>10, <2>11, <2>12, LookEnds
  <1>11. acc = 0 \/ acc > 0
    BY <1>5
  <1> QED BY <1>8, <1>9, <1>10, <1>11 DEF LookTail

\* A descriptor arrives: turned away, or its resolve begins.
LEMMA RecvShmStep ==
    ASSUME SharedInv, NEW m \in net, RecvShm(m)
    PROVE  SharedInv'
  <1>1. /\ m.type = "data" /\ IsShm(m) /\ Taken(m) /\ look[m.lane] = Idle
        /\ UNCHANGED <<topic, writer, wDormant, epochs, join, chunk, sent, gather, held, got>>
    BY DEF RecvShm
  <1>2. m.lane \in Readers /\ Descriptor(m)
    BY <1>1 DEF SharedInv, DatagramOK
  <1>3. PICK p \in Readers : p = m.lane
    BY <1>2
  <1>4. net' \subseteq net /\ look[p] = Idle
    BY <1>1, <1>3 DEF Taken
  <1>5. /\ Tidy(reader[p], InlineFor(p), join[p], NextSeqno(topic)) /\ reader[p] \in ReaderState
        /\ join[p] \in Nat /\ NextSeqno(topic) \in Nat /\ reader[p].upto \in Nat /\ RingOK
    BY ReaderUse
  <1>6. /\ m.base \in Nat /\ m.count \in Nat \ {0} /\ join[p] <= m.base /\ m.base <= NextSeqno(topic)
        /\ m.ask \in BOOLEAN
    <2>1. PICK i \in 1 .. Len(topic.smp) :
             join[p] <= topic.smp[i].base /\ m.base = topic.smp[i].base /\ m.count = topic.smp[i].count
      BY <1>2, <1>3 DEF Descriptor
    <2>2. m.base < m.base + m.count /\ m.base + m.count <= NextSeqno(topic)
      BY <1>5, <2>1, RingFacts
    <2>3. m.base \in Nat /\ m.count \in Nat \ {0}
      BY <1>5, <2>1, RingFacts
    <2>4. m.base <= NextSeqno(topic)
      BY <1>5, <2>2, <2>3
    <2>5. m.ask \in BOOLEAN
      BY <1>2 DEF Descriptor
    <2> QED BY <2>1, <2>3, <2>4, <2>5
  <1>7. PICK r : r = [reader[p] EXCEPT !.req = @ \/ m.ask]
    OBVIOUS
  <1>8. r \in ReaderState /\ Alike(reader[p], r) /\ r.parked = reader[p].parked
    BY <1>5, <1>6, <1>7 DEF ReaderState, Alike
  <1>9. PICK k \in Nat : k = Larger(r.rHigh, m.base + m.count - 1)
    <2>1. r.rHigh \in Nat
      BY <1>8 DEF ReaderState
    <2>2. m.base + m.count - 1 \in Nat
      BY <1>6
    <2> QED BY <2>1, <2>2 DEF Larger
  <1>10. PICK h : h = [r EXCEPT !.rHigh = k]
    OBVIOUS
  <1>11. h \in ReaderState /\ Alike(r, h) /\ h.parked = r.parked
    BY <1>8, <1>10 DEF ReaderState, Alike
  <1>12. Alike(reader[p], h) /\ h.parked = reader[p].parked
    BY <1>8, <1>11, Zenon DEF Alike
  <1>13. h = [r EXCEPT !.rHigh = Larger(@, m.base + m.count - 1)]
    BY <1>9, <1>10
  <1>14. PICK a : a = IF h.pend THEN h ELSE AckNow(h, FALSE)
    OBVIOUS
  <1>15. PICK b : b = OldData(r)
    OBVIOUS
  <1>16. /\ a \in ReaderState /\ Alike(h, a) /\ a.parked = h.parked
         /\ b \in ReaderState /\ Alike(r, b) /\ b.parked = r.parked
    <2>1. \A q \in ReaderState : Alike(q, q)
      BY DEF Alike
    <2> QED BY <1>8, <1>11, <1>14, <1>15, <2>1, AckNowTidy DEF OldData
  <1>17. \A q \in {a, b, r} : q \in ReaderState /\ Alike(reader[p], q) /\ q.parked = reader[p].parked
    BY <1>8, <1>12, <1>16, Zenon DEF Alike
  <1>18. PICK c : c = [h EXCEPT !.started = TRUE, !.upto = m.base, !.cur = NoAsm,
                                !.start = IF r.started THEN @ ELSE m.base]
    OBVIOUS
  <1>19. \/ ~r.used /\ reader' = [reader EXCEPT ![p] = reader[p]] /\ look' = look
         \/ r.used /\ look' = look /\ \E z \in {a, b, r} : reader' = [reader EXCEPT ![p] = z]
         \/ /\ r.used /\ ~r.parked /\ m.base >= r.upto /\ (r.started => m.base = r.upto)
            /\ reader' = [reader EXCEPT ![p] = c] /\ look' = [look EXCEPT ![p] = Resolve(m, FALSE)]
    <2> DEFINE R == [reader[m.lane] EXCEPT !.req = @ \/ m.ask]
               H == [R EXCEPT !.rHigh = Larger(@, m.base + m.count - 1)]
               A == IF H.pend THEN H ELSE AckNow(H, FALSE)
               B == OldData(R)
               C == [H EXCEPT !.started = TRUE, !.upto = m.base, !.cur = NoAsm,
                              !.start = IF R.started THEN @ ELSE m.base]
               turned(to) == reader' = [reader EXCEPT ![m.lane] = to] /\ UNCHANGED look
               taken(to) == /\ reader' = [reader EXCEPT ![m.lane] = to]
                            /\ look' = [look EXCEPT ![m.lane] = Resolve(m, FALSE)]
    <2>1. (CASE ~R.used -> turned(reader[m.lane])
            [] R.used /\ R.parked -> turned(R)
            [] R.used /\ ~R.parked /\ m.base < R.upto -> turned(B)
            [] R.used /\ ~R.parked /\ m.base > R.upto /\ R.started -> turned(A)
            [] R.used /\ ~R.parked /\ m.base >= R.upto /\ (R.started => m.base = R.upto) -> taken(C))
      BY Zenon DEF RecvShm
    <2>2. R = r /\ H = h /\ A = a /\ B = b /\ C = c
      BY <1>3, <1>7, <1>13, <1>14, <1>15, <1>18
    <2> HIDE DEF R, H, A, B, C
    <2>3. (CASE ~r.used -> turned(reader[m.lane])
            [] r.used /\ r.parked -> turned(r)
            [] r.used /\ ~r.parked /\ m.base < r.upto -> turned(b)
            [] r.used /\ ~r.parked /\ m.base > r.upto /\ r.started -> turned(a)
            [] r.used /\ ~r.parked /\ m.base >= r.upto /\ (r.started => m.base = r.upto) -> taken(c))
      BY <2>1, <2>2
    <2>4. r.upto \in Nat
      BY <1>8 DEF ReaderState
    <2>5. \/ ~r.used
          \/ r.used /\ r.parked
          \/ r.used /\ ~r.parked /\ m.base < r.upto
          \/ r.used /\ ~r.parked /\ m.base > r.upto /\ r.started
          \/ r.used /\ ~r.parked /\ m.base >= r.upto /\ (r.started => m.base = r.upto)
      BY <1>6, <2>4
    <2> HIDE DEF turned, taken
    <2>6. \/ ~r.used /\ turned(reader[m.lane])
          \/ r.used /\ (turned(r) \/ turned(b) \/ turned(a))
          \/ r.used /\ ~r.parked /\ m.base >= r.upto /\ (r.started => m.base = r.upto) /\ taken(c)
      BY <2>3, <2>5
    <2> QED BY <1>3, <2>6 DEF turned, taken
  <1>20. CASE ~r.used /\ reader' = [reader EXCEPT ![p] = reader[p]] /\ look' = look
    <2>1. reader' = reader
      BY <1>20 DEF SharedInv
    <2> QED BY <1>1, <1>4, <1>20, <2>1, OnlyNetStep
  <1>21. CASE r.used /\ look' = look /\ \E z \in {a, b, r} : reader' = [reader EXCEPT ![p] = z]
    <2>1. PICK z \in {a, b, r} : reader' = [reader EXCEPT ![p] = z]
      BY <1>21
    <2>2. z \in ReaderState /\ Alike(reader[p], z) /\ z.parked = reader[p].parked
      BY <1>17
    <2>3. reader[p].used
      BY <1>8, <1>21 DEF Alike
    <2> QED BY <1>1, <1>4, <1>21, <2>1, <2>2, <2>3, TurnedStep
  <1>22. CASE /\ r.used /\ ~r.parked /\ m.base >= r.upto /\ (r.started => m.base = r.upto)
              /\ reader' = [reader EXCEPT ![p] = c] /\ look' = [look EXCEPT ![p] = Resolve(m, FALSE)]
    <2>1. /\ reader[p].used /\ ~reader[p].parked
          /\ m.base >= reader[p].upto /\ (reader[p].started => m.base = reader[p].upto)
      BY <1>8, <1>22 DEF Alike
    <2> DEFINE y == TRUE
    <2>2. y \in BOOLEAN /\ y
      OBVIOUS
    <2>3. c = [h EXCEPT !.started = y, !.upto = m.base, !.cur = NoAsm,
                        !.start = IF r.started THEN @ ELSE m.base]
      BY <1>18
    <2> HIDE DEF y
    <2>4. NoAsm \in Assembly /\ ~NoAsm.on
      BY DEF NoAsm, Assembly
    <2>5. /\ c \in ReaderState /\ c.upto = m.base /\ c.cur = NoAsm /\ c.started = y /\ c.used = h.used
          /\ c.nxt = h.nxt /\ c.epoch = h.epoch
      BY <1>6, <1>11, <2>2, <2>3, <2>4 DEF ReaderState
    <2>6. c.used = reader[p].used /\ c.nxt = reader[p].nxt /\ c.epoch = reader[p].epoch
      BY <1>12, <2>5, Zenon DEF Alike
    <2>7. c.started /\ c.used /\ ~c.cur.on
      BY <2>1, <2>2, <2>4, <2>5, <2>6
    <2>8. Tidy(c, InlineFor(p), join[p], NextSeqno(topic))
      <3>1. CASE reader[p].started
        <4>1. Fits(NoAsm)
          BY DEF NoAsm, Fits
        <4> QED BY <1>5, <1>6, <2>1, <2>5, <2>6, <2>7, <3>1, <4>1 DEF Tidy
      <3>2. CASE ~reader[p].started
        BY <1>5, <1>6, <2>1, <2>5, <2>6, <2>7, <3>2, AdoptTidy
      <3> QED BY <3>1, <3>2
    <2> QED BY <1>1, <1>2, <1>3, <1>4, <1>22, <2>1, <2>5, <2>6, <2>7, <2>8, TakenUpStep
  <1> QED BY <1>19, <1>20, <1>21, <1>22

-----------------------------------------------------------------------------
(* The whole.                                                              *)

\* An empty topic, no lanes, nothing in flight.
LEMMA InitSharedInv == SharedInit => SharedInv
  <1> SUFFICES ASSUME SharedInit PROVE SharedInv
    OBVIOUS
  <1>0. Init /\ sent = << >> /\ gather = Idle /\ net = {} /\ epochs = 1
    BY DEF SharedInit, Init
  <1>1. topic = EmptyTopic /\ topic.smp = << >> /\ Len(topic.smp) = 0 /\ topic.lo = 1
    BY <1>0 DEF Init, EmptyTopic
  <1>2. TopicOK(topic)
    BY <1>0, InitIInv DEF IInv
  <1>3. KeepLast \in Nat /\ KeepLast > 0
    BY KeepLastAssumption
  <1>4. RingOK
    <2>1. \A i \in 1 .. Len(topic.smp) : topic.smp[i].dest = DestAll
      BY <1>1
    <2>2. \A i \in 1 .. (Len(topic.smp) - 1) : EndOf(topic.smp[i]) = topic.smp[i + 1].base
      BY <1>1
    <2>3. sent \in Seq([class : Classes \cup {"none"}, chunk : Nat, gen : Nat]) /\ Len(sent) = 0
      BY <1>0
    <2> QED BY <1>1, <1>2, <1>3, <2>1, <2>2, <2>3 DEF RingOK
  <1>5. PoolOK
    <2>1. PICK c \in [gen : Nat, parts : Parts] : c = [gen |-> 0, parts |-> <<Nobody, Nobody>>]
      BY DEF Parts
    <2>2. chunk = [k \in Classes |-> [i \in Chunks |-> c]]
      BY <2>1 DEF SharedInit
    <2>3. chunk \in [Classes -> [Chunks -> [gen : Nat, parts : Parts]]]
      <3>1. PICK R : R = [gen : Nat, parts : Parts]
        OBVIOUS
      <3>2. c \in R
        BY <2>1, <3>1
      <3>3. chunk \in [Classes -> [Chunks -> R]]
        BY <2>2, <3>2
      <3> QED BY <3>1, <3>3
    <2>4. gather.at = "idle"
      BY <1>0 DEF Idle
    <2> QED BY <1>0, <2>3, <2>4 DEF PoolOK
  <1>6. ContentOK
    BY <1>1 DEF ContentOK, Described
  <1>7. /\ writer = [p \in Readers |-> writer[p]] /\ reader = [p \in Readers |-> reader[p]]
        /\ join = [p \in Readers |-> join[p]] /\ look = [p \in Readers |-> look[p]]
        /\ held = [p \in Readers |-> held[p]] /\ got = [p \in Readers |-> got[p]]
    BY DEF SharedInit, Init
  <1>8. ASSUME NEW p \in Readers
        PROVE  WaitingKept(p) /\ LanePlaced(p) /\ ReaderPlaced(p) /\ SeatOK(p)
    <2>1. /\ writer[p] = NoWriter /\ reader[p] = NoReader /\ ~wDormant[p] /\ join[p] = 0
          /\ look[p] = Idle /\ held[p] = Inline /\ got[p] = << >>
      BY DEF SharedInit, Init
    <2>2. NextSeqno(topic) = 0
      BY <1>1 DEF NextSeqno
    <2>3. WaitingKept(p)
      BY <1>1 DEF WaitingKept
    <2>4. NoWriter \in WriterState /\ ~NoWriter.used /\ NoWriter.epoch = 0
      BY DEF NoWriter, WriterState
    <2>5. LanePlaced(p)
      BY <1>1, <2>1, <2>2, <2>4 DEF LanePlaced
    <2>6. << >> \in Seq(Delivery) /\ {} \in SUBSET Nat /\ NoAsm \in Assembly /\ ~NoAsm.on /\ Fits(NoAsm)
      BY DEF NoAsm, Assembly, Fits
    <2>7. NoReader \in ReaderState
      BY <2>6 DEF NoReader, ReaderState
    <2>8. /\ NoReader.upto = 0 /\ NoReader.cur = NoAsm /\ NoReader.nxt = NoAsm
          /\ NoReader.epoch = 0
      BY DEF NoReader
    <2>9. ~NoReader.started /\ ~NoReader.used
      BY DEF NoReader
    <2>10. ReaderPlaced(p)
      BY <2>1, <2>2, <2>6, <2>7, <2>8, <2>9 DEF ReaderPlaced, Tidy
    <2>11. SeatOK(p)
      BY <2>1 DEF SeatOK
    <2> QED BY <2>3, <2>5, <2>10, <2>11
  <1>9. \A m \in net : DatagramOK(m)
    BY <1>0
  <1> QED BY <1>0, <1>4, <1>5, <1>6, <1>7, <1>8, <1>9 DEF SharedInv

\* Every step keeps the invariant, if a send waits out its backpressure.
LEMMA NextSharedInv ==
    ASSUME Patient, SharedInv, [SharedNext]_allVars
    PROVE  SharedInv'
  <1>1. CASE UNCHANGED allVars
    BY <1>1, OnlyNetStep DEF allVars, vars, shmVars
  <1>2. ASSUME NEW k \in Classes, GatherFirst(k)
        PROVE  SharedInv'
    BY <1>2, GatherFirstStep
  <1>3. CASE GatherRest
    BY <1>3, GatherRestStep
  <1>4. CASE Stamp
    BY <1>4, StampStep
  <1>5. CASE SendInline
    BY <1>5, SendInlineStep
  <1>6. ASSUME NEW p \in Readers,
               \/ RepairShm(p)
               \/ \E ask \in AskChoices : PushShm(p, ask)
               \/ WriterElse(p)
        PROVE  SharedInv'
    <2>1. AskChoices \subseteq BOOLEAN
      BY TopicAssumption
    <2> QED BY <1>6, <2>1, RepairShmStep, PushShmStep, WriterElseStep
  <1>7. ASSUME NEW p \in Readers,
               \/ RetryParked(p)
               \/ \E mem \in MemChoices : LookHead(p, mem)
               \/ CopyFirst(p)
               \/ CopyRest(p)
               \/ \E acc \in Accepts : LookTail(p, acc)
               \/ ReaderElse(p)
        PROVE  SharedInv'
    BY <1>7, RetryParkedStep, LookHeadStep, CopyFirstStep, CopyRestStep, LookTailStep, ReaderElseStep
  <1>8. ASSUME NEW m \in net, RecvShm(m)
        PROVE  SharedInv'
    BY <1>8, RecvShmStep
  <1>9. ASSUME NEW m \in net, NEW acc \in Accepts, RecvFloor(m, acc)
        PROVE  SharedInv'
    BY <1>9, RecvFloorStep
  <1>10. ASSUME NEW m \in net, Lose(m), UNCHANGED shmVars
         PROVE  SharedInv'
    BY <1>10, OnlyNetStep DEF Lose, shmVars
  <1> QED BY <1>1, <1>2, <1>3, <1>4, <1>5, <1>6, <1>7, <1>8, <1>9, <1>10 DEF SharedNext

\* No reader hands up a torn copy: what i_rant_node_on_shm delivers under a seqno is
\* all of what was published under it and nothing of a later message, although the
\* writer gathers in the chunks while readers copy out of them, as long as every
\* send waits until its readers have acked what it overwrites.
THEOREM NeverTorn == Patient => (SharedSpec => []Untorn)
  <1> SUFFICES ASSUME Patient PROVE SharedSpec => []Untorn
    OBVIOUS
  <1>1. SharedInv /\ [SharedNext]_allVars => SharedInv'
    BY NextSharedInv
  <1>2. SharedInv => Untorn
    BY DEF SharedInv, SeatOK, Untorn
  <1> QED BY <1>1, <1>2, InitSharedInv, PTL DEF SharedSpec

=============================================================================
