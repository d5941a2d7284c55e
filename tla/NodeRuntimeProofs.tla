--------------------------- MODULE NodeRuntimeProofs ---------------------------
(***************************************************************************)
(* No lane is stranded: as long as a lane is parked, the ring it waits for *)
(* holds a record, whose release retries it. Proved for every number of    *)
(* threads and topics, every program of theirs, every size and limit of a  *)
(* ring, and samples of any size.                                          *)
(*                                                                         *)
(* The inductive invariant is LanesKept: each ring has the shape of one    *)
(* (IsRing: sizes are numbers, and every cell a record may begin at can be *)
(* read as one), a view pins a record that is there, and a parked lane has *)
(* a sample that waits (Lane) and a ring that holds a record (Kept). What  *)
(* carries it is FullHasRecord: a ring that refuses a sample holds records,*)
(* since an empty one takes what it is large enough for and otherwise      *)
(* grows until it is (TargetFits). The recursive operators of the ring     *)
(* (Cut, Starts, the offsets of Grown, the doubling) are functions over an *)
(* interval, and what every value of theirs has follows from the first and *)
(* from each step (SeqLemmas).                                             *)
(***************************************************************************)
EXTENDS NodeRuntime, SeqLemmas, TLAPS

-----------------------------------------------------------------------------
(* The shape of a ring. *)

\* a ring with the memory and the settings of q, however far it is read and filled
RingLike(q) ==
    [mem : {q.mem}, cap : {q.cap}, limit : {q.limit}, head : Int, tail : Nat, count : Nat, bytes : Int,
     dropped : {q.dropped}, viewing : {q.viewing}, busy : {q.busy}, parked : {q.parked}, reliable : {q.reliable}]

\* a cell that can be read as the start of a record: it has a size and a stamp
IsRecord(c) == c.need \in Nat /\ c.stamp \in Nat

\* a memory of cap cells, each of them one
Cells(mem, cap) ==
    /\ mem = [o \in 0 .. (cap - 1) |-> mem[o]]
    /\ \A o \in 0 .. (cap - 1) : IsRecord(mem[o])

IsRing(q) == q \in RingLike(q) /\ q.cap \in Nat \ {0} /\ q.limit \in Nat /\ Cells(q.mem, q.cap)

\* what two rings share of what the lanes look at
SameMarks(q, x) ==
    q.viewing = x.viewing /\ q.busy = x.busy /\ q.parked = x.parked /\ q.reliable = x.reliable

\* The fields of a ring.
LEMMA RingFields ==
    ASSUME NEW q, NEW x \in RingLike(q)
    PROVE  /\ x.head \in Int /\ x.tail \in Nat /\ x.count \in Nat /\ x.bytes \in Int
           /\ x.mem = q.mem /\ x.cap = q.cap /\ x.limit = q.limit /\ x.dropped = q.dropped
           /\ SameMarks(x, q)
  BY DEF RingLike, SameMarks

\* A ring like another is a ring.
LEMMA LikeIsRing ==
    ASSUME NEW q, IsRing(q), NEW x \in RingLike(q)
    PROVE  IsRing(x)
  <1>1. RingLike(x) = RingLike(q)
    BY DEF RingLike
  <1>2. x.mem = q.mem /\ x.cap = q.cap /\ x.limit = q.limit
    BY RingFields
  <1> QED BY <1>1, <1>2 DEF IsRing

\* A record begins within the ring.
LEMMA BeginIn ==
    ASSUME NEW q, IsRing(q), NEW o \in Nat
    PROVE  Begin(q, o) \in 0 .. (q.cap - 1)
  <1>1. q.cap \in Nat /\ q.cap > 0 /\ HeaderUnits \in Nat /\ HeaderUnits > 0
    BY UnitsAssumption DEF IsRing
  <1> QED BY <1>1 DEF Begin

\* The wrap normalised, the ring is as it was.
LEMMA PeekedLike ==
    ASSUME NEW q, IsRing(q)
    PROVE  Peeked(q) \in RingLike(q) /\ Peeked(q).count = q.count /\ Peeked(q).bytes = q.bytes
                /\ Peeked(q).tail \in Nat
  <1>1. q \in RingLike(q) /\ q.tail \in Nat /\ q.cap \in Nat
    BY RingFields DEF IsRing
  <1>2. Begin(q, q.tail) \in Nat
    BY <1>1, BeginIn
  <1> QED BY <1>1, <1>2, Zenon DEF Peeked, RingLike

\* Dropping the oldest record takes one off the count, of an empty ring nothing.
LEMMA PopLike ==
    ASSUME NEW q, IsRing(q), NEW x \in RingLike(q)
    PROVE  /\ Pop(x) \in RingLike(q)
           /\ x.count # 0 => Pop(x).count = x.count - 1
           /\ x.count = 0 => Pop(x) = x
  <1>1. IsRing(x) /\ RingLike(x) = RingLike(q)
    BY LikeIsRing DEF RingLike
  <1>2. x.count \in Nat /\ x.tail \in Nat /\ x.bytes \in Int
    BY RingFields
  <1>3. CASE x.count = 0
    BY <1>3 DEF Pop
  <1>4. CASE x.count # 0
    <2> DEFINE p == Peeked(x)
               n == Oldest(x).need
    <2>1. p \in RingLike(q) /\ p.count = x.count /\ p.bytes = x.bytes /\ p.tail \in Nat
      BY <1>1, PeekedLike
    <2>2. n \in Nat
      BY <1>1, <1>2, BeginIn DEF Oldest, IsRing, Cells, IsRecord
    <2>3. /\ p.tail + n \in Nat /\ p.count - 1 \in Nat /\ p.bytes - n \in Int /\ 0 \in Nat /\ 0 \in Int
          /\ x.count = 1 => 0 = x.count - 1
      BY <1>2, <1>4, <2>1, <2>2
    <2>4. CASE x.count = 1
      <3>1. Pop(x) = [p EXCEPT !.head = 0, !.tail = 0, !.count = 0, !.bytes = @ - n]
        BY <2>4 DEF Pop
      <3> HIDE DEF p, n
      <3>2. Pop(x) \in RingLike(q) /\ Pop(x).count = 0
        <4>1. p.bytes - n \in Int
          BY <2>3
        <4> QED BY <2>1, <2>3, <3>1, <4>1, Zenon DEF RingLike
      <3> QED BY <1>4, <2>3, <2>4, <3>2
    <2>5. CASE x.count # 1
      <3>1. Pop(x) = [p EXCEPT !.tail = @ + n, !.count = @ - 1, !.bytes = @ - n]
        BY <1>4, <2>5 DEF Pop
      <3> HIDE DEF p, n
      <3>2. Pop(x) \in RingLike(q) /\ Pop(x).count = p.count - 1
        BY <2>1, <2>3, <3>1, Zenon DEF RingLike
      <3> QED BY <1>4, <2>1, <3>2
    <2> QED BY <2>4, <2>5
  <1> QED BY <1>3, <1>4

\* Dropping the oldest record k times takes k off the count.
LEMMA CutLike ==
    ASSUME NEW q, IsRing(q), NEW k \in 0 .. q.count
    PROVE  /\ Cut(q)[k] \in RingLike(q) /\ Cut(q)[k].count = q.count - k
           /\ k = 0 => Cut(q)[k] = q
  <1> DEFINE V == RingLike(q)
             N == q.count
             st == [y \in (1 .. N) \X V |-> Pop(y[2])]
             Goes(g) == g = [j \in 0 .. N |-> IF j = 0 THEN q ELSE Pop(g[j - 1])]
  <1>1. q \in V /\ N \in Nat
    BY RingFields DEF IsRing
  <1>2. Cut(q) = CHOOSE g : Goes(g)
    BY DEF Cut
  <1>3. \A x \in V : Pop(x) \in V /\ (x.count # 0 => Pop(x).count = x.count - 1)
    BY PopLike
  <1>4. \E g : Goes(g)
    <2>1. st \in [(1 .. N) \X V -> V]
      <3> HIDE DEF V, N
      <3> QED BY <1>3
    <2>2. PICK g \in [0 .. N -> V] : Follows(g, q, st, N)
      <3> HIDE DEF st, V, N
      <3> QED BY <1>1, <2>1, Iterated
    <2>3. ASSUME NEW j \in 0 .. N PROVE g[j] = IF j = 0 THEN q ELSE Pop(g[j - 1])
      <3> HIDE DEF V, N
      <3>1. g[j] = IF j = 0 THEN q ELSE st[<<j, g[j - 1]>>]
        BY <2>2 DEF Follows
      <3>2. j # 0 => j \in 1 .. N /\ g[j - 1] \in V
        BY <1>1, <2>2
      <3> QED BY <3>1, <3>2
    <2> HIDE DEF V, N
    <2> QED BY <2>2, <2>3
  <1>5. PICK g : Goes(g) /\ Cut(q) = g
    <2> HIDE DEF Goes
    <2> QED BY <1>2, <1>4
  <1> HIDE DEF V
  <1>6. g[0] = q
    BY <1>1, <1>5
  <1>7. ASSUME NEW j \in 1 .. N PROVE g[j] = Pop(g[j - 1]) /\ j - 1 \in 0 .. N
    <2>1. j \in 0 .. N /\ j # 0
      BY <1>1
    <2> QED BY <1>1, <1>5, <2>1
  <1> HIDE DEF Goes, N
  <1>8. \A j \in 0 .. N : g[j] \in V
    <2>1. ASSUME NEW j \in 1 .. N, g[j - 1] \in V PROVE g[j] \in V
      BY <1>3, <1>7, <2>1
    <2>2. g[0] \in V
      BY <1>1, <1>6
    <2> QED BY <1>1, <2>1, <2>2, Climb
  <1>9. \A j \in 0 .. N : g[j].count = N - j
    <2> DEFINE h == [j \in 0 .. N |-> g[j].count + j]
    <2>1. h[0] \in {N}
      <3>1. 0 \in 0 .. N
        BY <1>1
      <3>2. h[0] = g[0].count + 0
        BY <3>1
      <3> HIDE DEF h
      <3> QED BY <1>1, <1>6, <3>2 DEF N
    <2>2. ASSUME NEW j \in 1 .. N, h[j - 1] \in {N} PROVE h[j] \in {N}
      <3>1. h[j - 1] = g[j - 1].count + (j - 1) /\ h[j] = g[j].count + j
        BY <1>1, <1>7
      <3> HIDE DEF h
      <3>2. g[j - 1] \in V /\ j - 1 \in 0 .. N
        BY <1>7, <1>8
      <3>3. g[j - 1].count \in Nat
        BY <3>2, RingFields DEF V
      <3>4. g[j - 1].count = N - (j - 1) /\ g[j - 1].count # 0
        BY <1>1, <2>2, <3>1, <3>3
      <3>5. g[j].count = g[j - 1].count - 1
        BY <1>3, <1>7, <3>2, <3>4
      <3> QED BY <1>1, <3>1, <3>4, <3>5
    <2>3. \A j \in 0 .. N : h[j] \in {N}
      <3> DEFINE W == {N}
      <3>1. h[0] \in W /\ \A j \in 1 .. N : h[j - 1] \in W => h[j] \in W
        BY <2>1, <2>2
      <3> HIDE DEF h, W
      <3>2. \A j \in 0 .. N : h[j] \in W
        BY <1>1, <3>1, Climb
      <3> QED BY <3>2 DEF W
    <2>4. ASSUME NEW j \in 0 .. N PROVE g[j].count = N - j
      <3>1. h[j] = g[j].count + j
        OBVIOUS
      <3>2. h[j] = N
        BY <2>3
      <3>3. g[j].count \in Nat
        BY <1>8, RingFields DEF V
      <3> DEFINE c == g[j].count
      <3>4. c + j = N /\ c \in Nat /\ j \in Nat /\ N \in Nat
        <4> HIDE DEF h
        <4> QED BY <1>1, <3>1, <3>2, <3>3
      <3> HIDE DEF c, st
      <3>5. c = N - j
        BY <3>4
      <3> QED BY <3>5 DEF c
    <2> QED BY <2>4
  <1> QED BY <1>5, <1>6, <1>8, <1>9 DEF V, N

-----------------------------------------------------------------------------
(* Growth. *)

\* Doubling ends with a number.
LEMMA DoubledInt ==
    ASSUME NEW q, IsRing(q), NEW total \in Int
    PROVE  Doubled(q, total) \in Nat
  <1> DEFINE least == IF 2 * q.cap < PageUnits THEN PageUnits ELSE 2 * q.cap
             st == [y \in (1 .. total) \X Nat |-> IF y[2] >= total THEN y[2] ELSE 2 * y[2]]
             Goes(g) == g = [k \in 0 .. total |-> IF k = 0 THEN least
                                                 ELSE LET u == g[k - 1] IN IF u >= total THEN u ELSE 2 * u]
  <1>1. least \in Nat
    BY UnitsAssumption DEF IsRing
  <1>2. Doubled(q, total) = IF least >= total THEN least ELSE (CHOOSE g : Goes(g))[total]
    BY DEF Doubled
  <1>3. CASE least >= total
    <2> HIDE DEF least, Goes
    <2> QED BY <1>1, <1>2, <1>3
  <1>4. CASE ~(least >= total)
    <2> HIDE DEF least
    <2>1. total \in Nat
      BY <1>1, <1>4
    <2>2. \E g : Goes(g)
      <3>1. st \in [(1 .. total) \X Nat -> Nat]
        OBVIOUS
      <3>2. PICK g \in [0 .. total -> Nat] : Follows(g, least, st, total)
        <4> HIDE DEF st
        <4> QED BY <1>1, <2>1, <3>1, Iterated
      <3>3. ASSUME NEW k \in 0 .. total
            PROVE  g[k] = IF k = 0 THEN least ELSE LET u == g[k - 1] IN IF u >= total THEN u ELSE 2 * u
        <4>1. g[k] = IF k = 0 THEN least ELSE st[<<k, g[k - 1]>>]
          BY <3>2 DEF Follows
        <4>2. k # 0 => k \in 1 .. total /\ g[k - 1] \in Nat
          BY <2>1, <3>2
        <4> QED BY <4>1, <4>2
      <3> QED BY <3>2, <3>3
    <2>3. ASSUME NEW g, Goes(g) PROVE g[total] \in Nat
      <3>1. g[0] \in Nat
        BY <1>1, <2>1, <2>3
      <3>2. ASSUME NEW k \in 1 .. total, g[k - 1] \in Nat PROVE g[k] \in Nat
        <4>1. k \in 0 .. total /\ k # 0
          BY <2>1
        <4>2. g[k] = LET u == g[k - 1] IN IF u >= total THEN u ELSE 2 * u
          BY <2>3, <4>1
        <4> QED BY <3>2, <4>2
      <3> HIDE DEF Goes
      <3>3. \A k \in 0 .. total : g[k] \in Nat
        BY <2>1, <3>1, <3>2, Climb
      <3> QED BY <2>1, <3>3
    <2> HIDE DEF Goes
    <2> QED BY <1>2, <1>4, <2>2, <2>3
  <1> QED BY <1>3, <1>4

\* The record always fits in the ring it makes grow.
LEMMA TargetFits ==
    ASSUME NEW q, IsRing(q), NEW total \in Int, NEW need \in Nat
    PROVE  Target(q, total, need) \in Nat /\ Target(q, total, need) >= need
  <1> DEFINE capped == IF Doubled(q, total) > q.limit THEN q.limit ELSE Doubled(q, total)
  <1>1. capped \in Nat
    BY DoubledInt DEF IsRing
  <1>2. Target(q, total, need) = IF capped \div 2 < need THEN 2 * need ELSE capped
    BY DEF Target
  <1> HIDE DEF capped
  <1>3. capped \div 2 \in Nat /\ capped \div 2 <= capped
    BY <1>1
  <1> QED BY <1>1, <1>2, <1>3

\* The records of a ring begin within it.
LEMMA StartsIn ==
    ASSUME NEW q, IsRing(q), NEW i \in 1 .. q.count
    PROVE  Starts(q)[i] \in 0 .. (q.cap - 1) /\ IsRecord(Records(q)[i])
  <1> DEFINE N == q.count
             V == 0 .. (q.cap - 1)
             st == [y \in (1 .. N) \X V |-> Begin(q, y[2] + q.mem[y[2]].need)]
             Goes(g) == g = [j \in 1 .. N |-> IF j = 1 THEN Begin(q, q.tail)
                                              ELSE Begin(q, g[j - 1] + q.mem[g[j - 1]].need)]
  <1>1. N \in Nat /\ q.tail \in Nat /\ \A o \in V : IsRecord(q.mem[o]) /\ q.mem[o].need \in Nat
    BY RingFields DEF IsRing, Cells, IsRecord
  <1>2. Begin(q, q.tail) \in V
    BY <1>1, BeginIn
  <1>3. \A o \in V : Begin(q, o + q.mem[o].need) \in V
    <2>1. ASSUME NEW o \in V PROVE o + q.mem[o].need \in Nat
      BY <1>1
    <2> QED BY <2>1, BeginIn
  <1>4. Starts(q) = CHOOSE g : Goes(g)
    BY DEF Starts
  <1> HIDE DEF N, V
  <1>5. \E g : Goes(g)
    <2>1. st \in [(1 .. N) \X V -> V]
      BY <1>3
    <2>2. PICK g \in [1 .. N -> V] : FollowsFrom1(g, Begin(q, q.tail), st, N)
      <3> HIDE DEF st
      <3> QED BY <1>1, <1>2, <2>1, Counted
    <2>3. ASSUME NEW j \in 1 .. N
          PROVE  g[j] = IF j = 1 THEN Begin(q, q.tail) ELSE Begin(q, g[j - 1] + q.mem[g[j - 1]].need)
      <3>1. g[j] = IF j = 1 THEN Begin(q, q.tail) ELSE st[<<j, g[j - 1]>>]
        BY <2>2 DEF FollowsFrom1
      <3>2. j # 1 => g[j - 1] \in V
        <4>1. j # 1 => j - 1 \in 1 .. N
          BY <1>1
        <4>2. g \in [1 .. N -> V]
          BY <2>2
        <4> QED BY <4>1, <4>2
      <3> QED BY <3>1, <3>2
    <2> QED BY <2>2, <2>3
  <1>6. PICK g : Goes(g) /\ Starts(q) = g
    <2> HIDE DEF Goes
    <2> QED BY <1>4, <1>5
  <1>7. CASE N # 0
    <2>1. g[1] \in V
      BY <1>1, <1>2, <1>6, <1>7
    <2>2. ASSUME NEW j \in 2 .. N, g[j - 1] \in V PROVE g[j] \in V
      <3>1. j \in 1 .. N /\ j # 1
        BY <1>1
      <3> QED BY <1>3, <1>6, <2>2, <3>1
    <2>3. \A j \in 1 .. N : g[j] \in V
      <3> HIDE DEF Goes
      <3> QED BY <1>1, <2>1, <2>2, ClimbFrom1
    <2>4. Records(q)[i] = q.mem[Starts(q)[i]]
      BY DEF Records
    <2> HIDE DEF Goes
    <2> QED BY <1>1, <1>6, <2>3, <2>4 DEF N, V
  <1> QED BY <1>1, <1>7 DEF N

\* the rings with this memory, these settings and these marks
RingOf(mem, cap, limit, dropped, viewing, busy, parked, reliable) ==
    [mem : {mem}, cap : {cap}, limit : {limit}, head : Int, tail : Nat, count : Nat, bytes : Int,
     dropped : {dropped}, viewing : {viewing}, busy : {busy}, parked : {parked}, reliable : {reliable}]

\* A record with the fields of a ring and a memory of its size is a ring.
LEMMA RingMade ==
    ASSUME NEW m, NEW c \in Nat \ {0}, NEW l \in Nat, NEW d, NEW v, NEW b, NEW p, NEW r,
           NEW x \in RingOf(m, c, l, d, v, b, p, r), Cells(m, c)
    PROVE  IsRing(x) /\ x.viewing = v /\ x.busy = b /\ x.parked = p /\ x.reliable = r
  <1>1. x.mem = m /\ x.cap = c /\ x.limit = l
    BY DEF RingOf
  <1>2. x.dropped = d /\ x.viewing = v /\ x.busy = b /\ x.parked = p /\ x.reliable = r
    BY DEF RingOf
  <1>3. x \in RingLike(x)
    BY <1>1, <1>2 DEF RingOf, RingLike
  <1> QED BY <1>1, <1>2, <1>3 DEF IsRing

\* A ring is such a record.
LEMMA RingIsOf ==
    ASSUME NEW q, IsRing(q)
    PROVE  q \in RingOf(q.mem, q.cap, q.limit, q.dropped, q.viewing, q.busy, q.parked, q.reliable)
  BY DEF IsRing, RingLike, RingOf

\* The ring a growth makes has the records of the old one, and room for one more.
LEMMA GrownRing ==
    ASSUME NEW q, IsRing(q), NEW need \in Nat, Grows(q, need)
    PROVE  /\ IsRing(Grown(q, need)) /\ SameMarks(Grown(q, need), q)
           /\ Grown(q, need).count = q.count /\ Grown(q, need).cap >= need
  <1> DEFINE N == q.count
             cap == Target(q, q.bytes + need, need)
             recs == Records(q)
             st == [y \in (1 .. (N + 1)) \X Nat |-> IF y[1] = 1 THEN 0 ELSE y[2] + recs[y[1] - 1].need]
             Goes(g) == g = [i \in 1 .. (N + 1) |-> IF i = 1 THEN 0 ELSE g[i - 1] + recs[i - 1].need]
             to == CHOOSE g : Goes(g)
             m == [o \in 0 .. (cap - 1) |-> IF \E i \in 1 .. N : to[i] = o
                                            THEN recs[CHOOSE i \in 1 .. N : to[i] = o] ELSE Wiped]
  <1>1. N \in Nat /\ N + 1 \in Nat /\ q.bytes + need \in Int /\ \A i \in 1 .. N : IsRecord(recs[i]) /\ recs[i].need \in Nat
    <2>1. q.count \in Nat /\ q.bytes \in Int
      BY RingFields DEF IsRing
    <2> QED BY <2>1, StartsIn DEF IsRecord
  <1>2. cap \in Nat \ {0} /\ cap >= need
    <2>1. cap \in Nat /\ cap >= need
      BY <1>1, TargetFits
    <2>2. cap > q.cap /\ q.cap \in Nat
      BY DEF Grows, IsRing
    <2> QED BY <2>1, <2>2
  <1>3. Grown(q, need) = [q EXCEPT !.cap = cap, !.tail = 0, !.head = to[N + 1], !.mem = m]
    BY DEF Grown
  <1> HIDE DEF N, cap, recs
  <1>4. \E g : Goes(g)
    <2>1. st \in [(1 .. (N + 1)) \X Nat -> Nat]
      <3>1. ASSUME NEW i \in 1 .. (N + 1), NEW o \in Nat PROVE (IF i = 1 THEN 0 ELSE o + recs[i - 1].need) \in Nat
        <4>1. i # 1 => i - 1 \in 1 .. N
          BY <1>1
        <4> QED BY <1>1, <4>1
      <3> QED BY <3>1
    <2>2. PICK g \in [1 .. (N + 1) -> Nat] : FollowsFrom1(g, 0, st, N + 1)
      <3> HIDE DEF st
      <3> QED BY <1>1, <2>1, Counted
    <2>3. ASSUME NEW j \in 1 .. (N + 1) PROVE g[j] = IF j = 1 THEN 0 ELSE g[j - 1] + recs[j - 1].need
      <3>1. g[j] = IF j = 1 THEN 0 ELSE st[<<j, g[j - 1]>>]
        BY <2>2 DEF FollowsFrom1
      <3>2. j # 1 => g[j - 1] \in Nat
        <4>1. j # 1 => j - 1 \in 1 .. (N + 1)
          BY <1>1
        <4>2. g \in [1 .. (N + 1) -> Nat]
          BY <2>2
        <4> QED BY <4>1, <4>2
      <3>3. j # 1 => st[<<j, g[j - 1]>>] = g[j - 1] + recs[j - 1].need
        BY <3>2
      <3> HIDE DEF st
      <3> QED BY <3>1, <3>3
    <2> QED BY <2>2, <2>3
  <1>5. Goes(to)
    <2> HIDE DEF Goes
    <2> QED BY <1>4
  <1> HIDE DEF to
  <1>6. to[N + 1] \in Int
    <2>1. to[1] \in Nat
      BY <1>1, <1>5
    <2>2. ASSUME NEW j \in 2 .. (N + 1), to[j - 1] \in Nat PROVE to[j] \in Nat
      <3>1. j \in 1 .. (N + 1) /\ j # 1 /\ j - 1 \in 1 .. N
        BY <1>1
      <3> QED BY <1>1, <1>5, <2>2, <3>1
    <2> HIDE DEF Goes
    <2>3. \A j \in 1 .. (N + 1) : to[j] \in Nat
      BY <1>1, <2>1, <2>2, ClimbFrom1
    <2> QED BY <1>1, <2>3
  <1>7. Cells(m, cap)
    <2>1. ASSUME NEW o \in 0 .. (cap - 1) PROVE IsRecord(m[o])
      <3>1. CASE \E i \in 1 .. N : to[i] = o
        <4>1. (CHOOSE i \in 1 .. N : to[i] = o) \in 1 .. N
          BY <3>1
        <4>2. m[o] = recs[CHOOSE i \in 1 .. N : to[i] = o]
          BY <3>1
        <4> HIDE DEF m
        <4> QED BY <1>1, <4>1, <4>2
      <3>2. CASE ~(\E i \in 1 .. N : to[i] = o)
        <4>1. m[o] = Wiped
          BY <3>2
        <4> HIDE DEF m
        <4> QED BY <4>1 DEF Wiped, IsRecord
      <3> QED BY <3>1, <3>2
    <2>2. m = [o \in 0 .. (cap - 1) |-> m[o]]
      OBVIOUS
    <2> HIDE DEF m
    <2> QED BY <2>1, <2>2 DEF Cells
  <1> HIDE DEF m
  <1> DEFINE h == to[N + 1]
  <1>8. h \in Int /\ 0 \in Nat
    BY <1>6
  <1>9. Grown(q, need) = [q EXCEPT !.cap = cap, !.tail = 0, !.head = h, !.mem = m]
    BY <1>3
  <1> HIDE DEF h
  <1>10. /\ Grown(q, need) \in RingOf(m, cap, q.limit, q.dropped, q.viewing, q.busy, q.parked, q.reliable)
         /\ Grown(q, need).count = q.count /\ Grown(q, need).cap = cap
    <2>1. q \in RingOf(q.mem, q.cap, q.limit, q.dropped, q.viewing, q.busy, q.parked, q.reliable)
      BY RingIsOf
    <2> QED BY <1>8, <1>9, <2>1, Zenon DEF RingOf
  <1>11. q.limit \in Nat
    BY DEF IsRing
  <1>12. /\ IsRing(Grown(q, need))
         /\ Grown(q, need).viewing = q.viewing /\ Grown(q, need).busy = q.busy
         /\ Grown(q, need).parked = q.parked /\ Grown(q, need).reliable = q.reliable
    BY <1>2, <1>7, <1>10, <1>11, RingMade
  <1> QED BY <1>2, <1>10, <1>12 DEF SameMarks

-----------------------------------------------------------------------------
(* Storing a record. *)

\* Where a record fits is an offset; an empty ring has room for all it can hold.
LEMMA RoomInt ==
    ASSUME NEW q, IsRing(q), NEW need \in Nat
    PROVE  Room(q, need) \in Int /\ (q.count = 0 /\ need <= q.cap => Room(q, need) = 0)
  <1>1. q.head \in Int /\ q.tail \in Nat /\ q.count \in Nat /\ q.cap \in Nat
    BY RingFields DEF IsRing
  <1>2. CASE need > q.cap
    BY <1>1, <1>2 DEF Room
  <1>3. CASE q.count = 0 /\ need <= q.cap
    BY <1>1, <1>3 DEF Room
  <1>4. CASE q.count > 0 /\ need <= q.cap
    BY <1>1, <1>4 DEF Room
  <1> QED BY <1>1, <1>2, <1>3, <1>4

\* Making room leaves a ring.
LEMMA FittedRing ==
    ASSUME NEW q, IsRing(q), NEW need \in Nat
    PROVE  /\ IsRing(Fitted(q, need)) /\ SameMarks(Fitted(q, need), q)
           /\ Fitted(q, need).count = q.count /\ Fitted(q, need).cap = q.cap
  <1> DEFINE f == Fitted(q, need)
  <1>1. /\ q \in RingOf(q.mem, q.cap, q.limit, q.dropped, q.viewing, q.busy, q.parked, q.reliable)
        /\ q.cap \in Nat \ {0} /\ q.limit \in Nat /\ Cells(q.mem, q.cap)
    BY RingIsOf DEF IsRing
  <1>2. CASE q.count = 0
    <2>1. f = [q EXCEPT !.head = 0, !.tail = 0]
      BY <1>2 DEF Fitted
    <2>2. 0 \in Int /\ 0 \in Nat
      OBVIOUS
    <2> HIDE DEF f
    <2>3. /\ f \in RingOf(q.mem, q.cap, q.limit, q.dropped, q.viewing, q.busy, q.parked, q.reliable)
          /\ f.count = q.count /\ f.cap = q.cap
      BY <1>1, <2>1, <2>2, Zenon DEF RingOf
    <2>4. /\ IsRing(f) /\ f.viewing = q.viewing /\ f.busy = q.busy
          /\ f.parked = q.parked /\ f.reliable = q.reliable
      BY <1>1, <2>3, RingMade
    <2> QED BY <2>3, <2>4 DEF SameMarks, f
  <1>3. CASE q.count # 0 /\ Room(q, need) = 0 /\ q.head > q.tail /\ q.head < q.cap
    <2> DEFINE m == [q.mem EXCEPT ![q.head] = Wrap]
    <2>1. f = [q EXCEPT !.mem = m]
      BY <1>3 DEF Fitted
    <2>2. Cells(m, q.cap)
      <3>1. q.mem = [o \in 0 .. (q.cap - 1) |-> q.mem[o]] /\ \A o \in 0 .. (q.cap - 1) : IsRecord(q.mem[o])
        BY <1>1 DEF Cells
      <3>2. m = [o \in 0 .. (q.cap - 1) |-> m[o]]
        BY <3>1
      <3>3. ASSUME NEW o \in 0 .. (q.cap - 1) PROVE IsRecord(m[o])
        <4>1. m[o] = IF o = q.head THEN Wrap ELSE q.mem[o]
          BY <3>1
        <4>2. IsRecord(Wrap)
          BY DEF Wrap, IsRecord
        <4> HIDE DEF m
        <4> QED BY <3>1, <4>1, <4>2
      <3> HIDE DEF m
      <3> QED BY <3>2, <3>3 DEF Cells
    <2> HIDE DEF f, m
    <2>3. /\ f \in RingOf(m, q.cap, q.limit, q.dropped, q.viewing, q.busy, q.parked, q.reliable)
          /\ f.count = q.count /\ f.cap = q.cap
      BY <1>1, <2>1, Zenon DEF RingOf
    <2>4. /\ IsRing(f) /\ f.viewing = q.viewing /\ f.busy = q.busy
          /\ f.parked = q.parked /\ f.reliable = q.reliable
      BY <1>1, <2>2, <2>3, RingMade
    <2> QED BY <2>3, <2>4 DEF SameMarks, f
  <1>4. CASE q.count # 0 /\ ~(Room(q, need) = 0 /\ q.head > q.tail /\ q.head < q.cap)
    <2>1. f = q
      BY <1>4 DEF Fitted
    <2> QED BY <2>1 DEF SameMarks, f
  <1> QED BY <1>2, <1>3, <1>4

\* A ring with a record stored holds one more.
LEMMA StoredRing ==
    ASSUME NEW q, IsRing(q), NEW r, IsRecord(r)
    PROVE  /\ IsRing(Stored(q, r)) /\ SameMarks(Stored(q, r), q)
           /\ Stored(q, r).count = q.count + 1
  <1> DEFINE at == Room(q, r.need)
             f == Fitted(q, r.need)
             n == r.need
             m == [o \in DOMAIN f.mem |-> IF o = at THEN r ELSE IF o > at /\ o < at + n THEN Wiped ELSE f.mem[o]]
             s == Stored(q, r)
  <1>1. at \in Int /\ n \in Nat
    BY RoomInt DEF IsRecord
  <1>2. IsRing(f) /\ SameMarks(f, q) /\ f.count = q.count
    BY <1>1, FittedRing
  <1>3. s = [f EXCEPT !.mem = m, !.head = at + n, !.bytes = @ + n, !.count = @ + 1]
    BY DEF Stored
  <1> HIDE DEF f, at
  <1>4. f \in RingOf(f.mem, f.cap, f.limit, f.dropped, f.viewing, f.busy, f.parked, f.reliable)
    BY <1>2, RingIsOf
  <1>5. f.cap \in Nat \ {0} /\ f.limit \in Nat /\ Cells(f.mem, f.cap) /\ f.count \in Nat /\ f.bytes \in Int
    BY <1>2, RingFields DEF IsRing
  <1>6. Cells(m, f.cap)
    <2>1. f.mem = [o \in 0 .. (f.cap - 1) |-> f.mem[o]] /\ \A o \in 0 .. (f.cap - 1) : IsRecord(f.mem[o])
      BY <1>5 DEF Cells
    <2>2. DOMAIN f.mem = 0 .. (f.cap - 1)
      BY <2>1
    <2>3. ASSUME NEW o \in 0 .. (f.cap - 1) PROVE IsRecord(m[o])
      <3>1. m[o] = IF o = at THEN r ELSE IF o > at /\ o < at + n THEN Wiped ELSE f.mem[o]
        BY <2>2
      <3>2. IsRecord(Wiped)
        BY DEF Wiped, IsRecord
      <3> HIDE DEF m
      <3> QED BY <2>1, <3>1, <3>2
    <2>4. m = [o \in 0 .. (f.cap - 1) |-> m[o]]
      BY <2>2
    <2> HIDE DEF m
    <2> QED BY <2>3, <2>4 DEF Cells
  <1>7. at + n \in Int /\ f.bytes + n \in Int /\ f.count + 1 \in Nat
    BY <1>1, <1>5
  <1> HIDE DEF m, n, s
  <1>8. /\ s \in RingOf(m, f.cap, f.limit, f.dropped, f.viewing, f.busy, f.parked, f.reliable)
        /\ s.count = f.count + 1
    BY <1>3, <1>4, <1>7, Zenon DEF RingOf
  <1>9. /\ IsRing(s) /\ s.viewing = f.viewing /\ s.busy = f.busy
        /\ s.parked = f.parked /\ s.reliable = f.reliable
    BY <1>5, <1>6, <1>8, RingMade
  <1> QED BY <1>2, <1>8, <1>9 DEF SameMarks, s

\* A ring, whether it grew or not, keeps its records and its marks.
LEMMA RoomyRing ==
    ASSUME NEW q, IsRing(q), NEW need \in Nat
    PROVE  /\ IsRing(Roomy(q, need)) /\ SameMarks(Roomy(q, need), q)
           /\ Roomy(q, need).count = q.count
  <1>1. CASE Room(q, need) < 0 /\ Grows(q, need)
    BY <1>1, GrownRing DEF Roomy
  <1>2. CASE ~(Room(q, need) < 0 /\ Grows(q, need))
    BY <1>2 DEF Roomy, SameMarks
  <1> QED BY <1>1, <1>2

\* An empty ring has room for any record, or grows until it has: what does not
\* fit finds records in the ring, which a view pins or best effort may give up.
LEMMA FullHasRecord ==
    ASSUME NEW q, IsRing(q), NEW need \in Nat, q.viewing => q.count > 0,
           Cuts(Roomy(q, need), need) = {}
    PROVE  q.count > 0
  <1> SUFFICES ASSUME q.count = 0 PROVE FALSE
    <2>1. q.count \in Nat
      BY RingFields DEF IsRing
    <2> QED BY <2>1
  <1> DEFINE g == Roomy(q, need)
  <1>1. IsRing(g) /\ g.count = 0
    BY RoomyRing
  <1>2. need <= g.cap
    <2>1. CASE need <= q.cap
      <3>1. Room(q, need) = 0
        BY <2>1, RoomInt
      <3>2. g = q
        BY <3>1 DEF Roomy
      <3> QED BY <2>1, <3>2
    <2>2. CASE ~(need <= q.cap)
      <3>1. q.cap \in Nat /\ q.bytes \in Int
        BY RingFields DEF IsRing
      <3>2. Room(q, need) = -1
        BY <2>2, <3>1 DEF Room
      <3>3. Target(q, q.bytes + need, need) \in Nat /\ Target(q, q.bytes + need, need) >= need
        <4>1. q.bytes + need \in Int
          BY <3>1
        <4> QED BY <4>1, TargetFits
      <3>4. Grows(q, need)
        BY <2>2, <3>1, <3>3 DEF Grows
      <3>5. g = Grown(q, need)
        BY <3>2, <3>4 DEF Roomy
      <3>6. Grown(q, need).cap >= need
        BY <3>4, GrownRing
      <3>7. Grown(q, need).cap \in Nat
        BY <3>4, GrownRing DEF IsRing
      <3> HIDE DEF g
      <3> QED BY <3>5, <3>6, <3>7
    <2> QED BY <2>1, <2>2
  <1> HIDE DEF g
  <1>3. Room(g, need) = 0
    BY <1>1, <1>2, RoomInt
  <1>4. 0 \in 0 .. g.count
    BY <1>1
  <1>5. Cut(g)[0] = g
    BY <1>1, <1>4, CutLike
  <1>6. 0 \in Cuts(g, need)
    BY <1>3, <1>4, <1>5 DEF Cuts
  <1> QED BY <1>6 DEF g

\* A lane whose sample the ring refuses is one whose ring holds a record.
LEMMA RefusedHasRecord ==
    ASSUME NEW q, IsRing(q), NEW need \in Nat, q.viewing => q.count > 0, ~Accepts(q, need)
    PROVE  q.count > 0
  BY FullHasRecord DEF Accepts

\* A push leaves a ring, and parks a lane only at a ring that holds a record.
LEMMA PushRing ==
    ASSUME NEW q, IsRing(q), NEW r, IsRecord(r), q.viewing => q.count > 0
    PROVE  /\ IsRing(Push(q, r))
           /\ Push(q, r).viewing => Push(q, r).count > 0
           /\ Push(q, r).parked => q.parked \/ (~Accepts(q, r.need) /\ Push(q, r).count > 0)
  <1> DEFINE g == Roomy(q, r.need)
             ks == Cuts(g, r.need)
             k == CHOOSE i \in ks : \A j \in ks : i <= j
             x == Stored(Cut(g)[k], r)
  <1>1. IsRing(g) /\ SameMarks(g, q) /\ g.count = q.count /\ g.count \in Nat
    <2>1. q.count \in Nat
      BY RingFields DEF IsRing
    <2>2. r.need \in Nat
      BY DEF IsRecord
    <2> QED BY <2>1, <2>2, RoomyRing
  <1>2. /\ ks # {} => Push(q, r) = [x EXCEPT !.dropped = @ + k]
        /\ ks = {} /\ g.reliable => Push(q, r) = [g EXCEPT !.parked = TRUE]
        /\ ks = {} /\ ~g.reliable => Push(q, r) = [g EXCEPT !.dropped = @ + 1]
    BY DEF Push
  <1>3. q.reliable /\ ks = {} => ~Accepts(q, r.need)
    BY DEF Accepts
  <1>4. ks = {} => q.count > 0
    BY FullHasRecord DEF IsRecord
  <1>5. ks \subseteq 0 .. g.count
    BY DEF Cuts
  <1> HIDE DEF ks, g
  <1>6. CASE ks # {}
    <2>1. k \in ks
      <3>1. ks \subseteq Nat
        BY <1>1, <1>5
      <3>2. \E i \in ks : \A j \in ks : i <= j
        BY <1>6, <3>1, LeastNat
      <3> QED BY <3>2
    <2> HIDE DEF k
    <2>2. Cut(g)[k] \in RingLike(g) /\ Cut(g)[k].count \in Nat
      <3>1. k \in 0 .. g.count
        BY <1>5, <2>1
      <3>2. Cut(g)[k] \in RingLike(g)
        BY <1>1, <3>1, CutLike
      <3> QED BY <3>2, RingFields
    <2>3. IsRing(Cut(g)[k]) /\ Cut(g)[k].parked = q.parked
      BY <1>1, <2>2, LikeIsRing, RingFields DEF SameMarks
    <2>4. IsRing(x) /\ x.count = Cut(g)[k].count + 1 /\ x.parked = q.parked
      BY <2>3, StoredRing DEF SameMarks
    <2> HIDE DEF x
    <2>5. Push(q, r) = [x EXCEPT !.dropped = @ + k]
      BY <1>2, <1>6
    <2>6. /\ x \in RingOf(x.mem, x.cap, x.limit, x.dropped, x.viewing, x.busy, x.parked, x.reliable)
          /\ x.cap \in Nat \ {0} /\ x.limit \in Nat /\ Cells(x.mem, x.cap)
      BY <2>4, RingIsOf DEF IsRing
    <2> DEFINE y == Push(q, r)
               e == x.dropped + k
    <2>7. y = [x EXCEPT !.dropped = e]
      BY <2>5
    <2> HIDE DEF y, e
    <2>8. /\ y \in RingOf(x.mem, x.cap, x.limit, e, x.viewing, x.busy, x.parked, x.reliable)
          /\ y.count = x.count
      BY <2>6, <2>7, Zenon DEF RingOf
    <2>9. IsRing(y) /\ y.parked = q.parked
      BY <2>4, <2>6, <2>8, RingMade
    <2>10. y.count > 0
      BY <2>2, <2>4, <2>8
    <2> QED BY <2>9, <2>10 DEF y
  <1>7. CASE ks = {}
    <2> DEFINE y == Push(q, r)
               e == g.dropped + 1
    <2>1. /\ g \in RingOf(g.mem, g.cap, g.limit, g.dropped, g.viewing, g.busy, g.parked, g.reliable)
          /\ g.cap \in Nat \ {0} /\ g.limit \in Nat /\ Cells(g.mem, g.cap)
      BY <1>1, RingIsOf DEF IsRing
    <2> DEFINE yes == TRUE
    <2>2. \/ g.reliable /\ y = [g EXCEPT !.parked = yes]
          \/ y = [g EXCEPT !.dropped = e]
      BY <1>2, <1>7
    <2> HIDE DEF y, e, yes
    <2>3. /\ \/ /\ g.reliable
                /\ y \in RingOf(g.mem, g.cap, g.limit, g.dropped, g.viewing, g.busy, yes, g.reliable)
             \/ y \in RingOf(g.mem, g.cap, g.limit, e, g.viewing, g.busy, g.parked, g.reliable)
          /\ y.count = g.count
      BY <2>1, <2>2, Zenon DEF RingOf
    <2>4. IsRing(y) /\ (g.reliable \/ y.parked = g.parked)
      BY <2>1, <2>3, RingMade
    <2>5. g.parked = q.parked /\ g.reliable = q.reliable
      BY <1>1 DEF SameMarks
    <2>6. y.parked => q.parked \/ ~Accepts(q, r.need)
      BY <1>7, <1>3, <2>4, <2>5
    <2> QED BY <1>1, <1>4, <1>7, <2>3, <2>4, <2>6 DEF y
  <1> QED BY <1>6, <1>7

-----------------------------------------------------------------------------
(* The topics. *)

\* the record of a topic with this ring and these samples
TopicOf(q, cur, asm, live) == [q : {q}, cur : {cur}, asm : {asm}, live : {live}]

\* A parked lane is a queue's or a pull topic's, and has a sample that waits.
Lane(p, d) ==
    /\ d \in TopicOf(d.q, d.cur, d.asm, d.live)
    /\ IsRing(d.q)
    /\ d.q.viewing => d.q.count > 0
    /\ Ringed(p) => d.cur \in Nat \ {0}
    /\ d.q.parked => Ringed(p) /\ d.cur <= Len(setup.need[p])

\* ... and the ring it waits for holds a record.
Kept(p, d) == Lane(p, d) /\ (d.q.parked => d.q.count > 0)

\* A record with the fields of a topic has them.
LEMMA TopicMade ==
    ASSUME NEW q, NEW c, NEW a, NEW l, NEW d \in TopicOf(q, c, a, l)
    PROVE  d.q = q /\ d.cur = c /\ d.asm = a /\ d.live = l /\ d \in TopicOf(d.q, d.cur, d.asm, d.live)
  BY DEF TopicOf

\* The sample that waits has a size.
LEMMA NeedNat ==
    ASSUME setup \in Setups, NEW p \in Topic, NEW i \in Nat \ {0}, i <= Len(setup.need[p])
    PROVE  setup.need[p][i] \in Nat
  <1>1. setup.need[p] \in Seq(Nat)
    BY SetupAssumption
  <1>2. Len(setup.need[p]) \in Nat
    BY <1>1, LenProperties
  <1>3. i \in 1 .. Len(setup.need[p])
    BY <1>2
  <1> QED BY <1>1, <1>3, ElementOfSeq

\* A ring given back has no view, and its lane is parked if it was.
LEMMA ReturnedRing ==
    ASSUME NEW q, IsRing(q), q.viewing => q.count > 0
    PROVE  /\ IsRing(Returned(q)) /\ Returned(q).parked = q.parked
           /\ Returned(q).viewing => Returned(q).count > 0
  <1> DEFINE x == [q EXCEPT !.viewing = FALSE]
  <1>1. CASE q.viewing
    <2>1. Returned(q) = Pop(x)
      BY <1>1 DEF Returned
    <2>2. /\ q \in RingOf(q.mem, q.cap, q.limit, q.dropped, q.viewing, q.busy, q.parked, q.reliable)
          /\ q.cap \in Nat \ {0} /\ q.limit \in Nat /\ Cells(q.mem, q.cap)
      BY RingIsOf DEF IsRing
    <2> DEFINE no == FALSE
    <2>3. x \in RingOf(q.mem, q.cap, q.limit, q.dropped, no, q.busy, q.parked, q.reliable)
      BY <2>2, Zenon DEF RingOf
    <2> HIDE DEF x, no
    <2>4. IsRing(x) /\ x.viewing = no /\ x.parked = q.parked
      BY <2>2, <2>3, RingMade
    <2>5. Pop(x) \in RingLike(x)
      <3>1. x \in RingLike(x)
        BY <2>4 DEF IsRing
      <3> QED BY <2>4, <3>1, PopLike
    <2>6. IsRing(Pop(x)) /\ SameMarks(Pop(x), x)
      BY <2>4, <2>5, LikeIsRing, RingFields
    <2> QED BY <2>1, <2>4, <2>6 DEF SameMarks, no
  <1>2. CASE ~q.viewing
    <2>1. Returned(q) = q
      BY <1>2 DEF Returned
    <2> QED BY <1>2, <2>1
  <1> QED BY <1>1, <1>2

\* A ring whose oldest record is viewed is as full as it was.
LEMMA ViewedRing ==
    ASSUME NEW q, IsRing(q)
    PROVE  IsRing(Viewed(q)) /\ Viewed(q).parked = q.parked /\ Viewed(q).count = q.count
  <1> DEFINE x == Peeked(q)
             v == Viewed(q)
  <1>1. x \in RingLike(q) /\ x.count = q.count
    BY PeekedLike
  <1>2. IsRing(x) /\ SameMarks(x, q)
    BY <1>1, LikeIsRing, RingFields
  <1>3. v = [x EXCEPT !.viewing = TRUE]
    BY DEF Viewed
  <1> HIDE DEF x, v
  <1>4. /\ x \in RingOf(x.mem, x.cap, x.limit, x.dropped, x.viewing, x.busy, x.parked, x.reliable)
        /\ x.cap \in Nat \ {0} /\ x.limit \in Nat /\ Cells(x.mem, x.cap)
    BY <1>2, RingIsOf DEF IsRing
  <1> DEFINE yes == TRUE
  <1>5. /\ v \in RingOf(x.mem, x.cap, x.limit, x.dropped, yes, x.busy, x.parked, x.reliable)
        /\ v.count = x.count
    BY <1>3, <1>4, Zenon DEF RingOf
  <1> HIDE DEF yes
  <1>6. IsRing(v) /\ v.parked = x.parked
    BY <1>4, <1>5, RingMade
  <1> QED BY <1>1, <1>2, <1>5, <1>6 DEF SameMarks, v

\* Marking a record as out in a callback, or back, changes nothing else.
LEMMA MarkedRing ==
    ASSUME NEW q, IsRing(q), NEW b
    PROVE  LET x == [q EXCEPT !.busy = b] IN
           IsRing(x) /\ x.parked = q.parked /\ x.viewing = q.viewing /\ x.count = q.count
  <1> DEFINE x == [q EXCEPT !.busy = b]
  <1>1. /\ q \in RingOf(q.mem, q.cap, q.limit, q.dropped, q.viewing, q.busy, q.parked, q.reliable)
        /\ q.cap \in Nat \ {0} /\ q.limit \in Nat /\ Cells(q.mem, q.cap)
    BY RingIsOf DEF IsRing
  <1>2. /\ x \in RingOf(q.mem, q.cap, q.limit, q.dropped, q.viewing, b, q.parked, q.reliable)
        /\ x.count = q.count
    BY <1>1, Zenon DEF RingOf
  <1> HIDE DEF x
  <1>3. IsRing(x) /\ x.parked = q.parked /\ x.viewing = q.viewing
    BY <1>1, <1>2, RingMade
  <1> QED BY <1>2, <1>3 DEF x

\* A lane with another ring is one, when the ring is.
LEMMA WithRing ==
    ASSUME NEW p, NEW d, Lane(p, d), NEW q, IsRing(q), q.viewing => q.count > 0, q.parked => d.q.parked
    PROVE  Lane(p, [d EXCEPT !.q = q]) /\ [d EXCEPT !.q = q].q = q /\ [d EXCEPT !.q = q].cur = d.cur
  <1> DEFINE e == [d EXCEPT !.q = q]
  <1>1. e \in TopicOf(q, d.cur, d.asm, d.live)
    <2>1. d \in TopicOf(d.q, d.cur, d.asm, d.live)
      BY DEF Lane
    <2> QED BY <2>1, Zenon DEF TopicOf
  <1> HIDE DEF e
  <1>2. e.q = q /\ e.cur = d.cur /\ e \in TopicOf(e.q, e.cur, e.asm, e.live)
    BY <1>1, TopicMade
  <1>3. Lane(p, e)
    BY <1>2 DEF Lane
  <1> QED BY <1>2, <1>3 DEF e

\* The retry of a parked lane: its sample goes in, or the ring is full of others.
LEMMA RetryKeeps ==
    ASSUME setup \in Setups, net.clock \in Nat, NEW p \in Topic, NEW d, Lane(p, d)
    PROVE  Kept(p, RetryParked(p, d))
  <1> DEFINE n == setup.need[p][d.cur]
             r == Record(p, d.cur)
             s == Push(d.q, r)
             e == RetryParked(p, d)
  <1>1. CASE ~d.q.parked
    <2>1. e = d
      BY <1>1 DEF RetryParked
    <2> QED BY <1>1, <2>1 DEF Kept
  <1>2. CASE d.q.parked
    <2>1. Ringed(p) /\ d.cur \in Nat \ {0} /\ d.cur <= Len(setup.need[p]) /\ IsRing(d.q)
      BY <1>2 DEF Lane
    <2>2. n \in Nat /\ r.need = n /\ IsRecord(r)
      <3>1. r.need = n /\ r.stamp = net.clock
        BY DEF Record
      <3> QED BY <2>1, <3>1, NeedNat DEF IsRecord
    <2>3. CASE Accepts(d.q, n)
      <3>1. IsRing(s) /\ (s.viewing => s.count > 0)
        <4> HIDE DEF r, n
        <4> QED BY <2>1, <2>2, PushRing DEF Lane
      <3> DEFINE u == [s EXCEPT !.parked = FALSE]
                 c == d.cur + 1
                 no == FALSE
      <3>2. e = [d EXCEPT !.q = u, !.cur = c]
        BY <1>2, <2>3 DEF RetryParked
      <3> HIDE DEF s
      <3>3. /\ s \in RingOf(s.mem, s.cap, s.limit, s.dropped, s.viewing, s.busy, s.parked, s.reliable)
            /\ s.cap \in Nat \ {0} /\ s.limit \in Nat /\ Cells(s.mem, s.cap)
        BY <3>1, RingIsOf DEF IsRing
      <3>4. /\ u \in RingOf(s.mem, s.cap, s.limit, s.dropped, s.viewing, s.busy, no, s.reliable)
            /\ u.count = s.count
        BY <3>3, Zenon DEF RingOf
      <3> HIDE DEF u, no
      <3>5. IsRing(u) /\ u.parked = no /\ (u.viewing => u.count > 0)
        BY <3>1, <3>3, <3>4, RingMade
      <3>6. c \in Nat \ {0}
        BY <2>1
      <3> HIDE DEF c, e
      <3>7. e \in TopicOf(u, c, d.asm, d.live)
        <4>1. d \in TopicOf(d.q, d.cur, d.asm, d.live)
          BY DEF Lane
        <4> QED BY <3>2, <4>1, Zenon DEF TopicOf
      <3>8. e.q = u /\ e.cur = c /\ e \in TopicOf(e.q, e.cur, e.asm, e.live)
        BY <3>7, TopicMade
      <3> QED BY <3>5, <3>6, <3>8 DEF Kept, Lane, e, no
    <2>4. CASE ~Accepts(d.q, n)
      <3>1. e = d
        BY <2>4 DEF RetryParked
      <3>2. d.q.count > 0
        <4> HIDE DEF n
        <4> QED BY <2>1, <2>2, <2>4, RefusedHasRecord DEF Lane
      <3> QED BY <3>1, <3>2 DEF Kept
    <2> QED BY <2>3, <2>4
  <1> QED BY <1>1, <1>2

\* Whoever gives a record back retries the parked lane.
LEMMA ReleaseKeeps ==
    ASSUME setup \in Setups, net.clock \in Nat, NEW p \in Topic, NEW d, Lane(p, d)
    PROVE  Kept(p, QueueRelease(p, d))
  <1> DEFINE q == Returned(d.q)
  <1>1. IsRing(q) /\ q.parked = d.q.parked /\ (q.viewing => q.count > 0)
    BY ReturnedRing DEF Lane
  <1> HIDE DEF q
  <1>2. Lane(p, [d EXCEPT !.q = q])
    BY <1>1, WithRing
  <1>3. QueueRelease(p, d) = RetryParked(p, [d EXCEPT !.q = q])
    BY DEF QueueRelease, q
  <1> QED BY <1>2, <1>3, RetryKeeps

\* Taking the newest record keeps the lanes.
LEMMA LatestKeeps ==
    ASSUME setup \in Setups, net.clock \in Nat, NEW p \in Topic, NEW d, Kept(p, d)
    PROVE  Kept(p, Latest(p, d))
  <1> DEFINE Last1(q) == IF q.count > 1 THEN Cut(q)[q.count - 1] ELSE q
             F(x) == IF x.q.count <= 1 THEN x ELSE QueueRelease(p, [x EXCEPT !.q = Last1(x.q)])
             Goes(g) == g = [k \in 0 .. 2 |-> IF k = 0 THEN d ELSE F(g[k - 1])]
  <1>1. Latest(p, d) = (CHOOSE g : Goes(g))[2]
    BY DEF Latest
  <1>2. ASSUME NEW x, Kept(p, x) PROVE Kept(p, F(x))
    <2>1. CASE x.q.count <= 1
      BY <1>2, <2>1
    <2>2. CASE ~(x.q.count <= 1)
      <3> DEFINE q == Last1(x.q)
      <3>1. IsRing(x.q) /\ x.q.count \in Nat /\ Lane(p, x)
        BY <1>2, RingFields DEF Kept, Lane, IsRing
      <3>2. q \in RingLike(x.q) /\ q.count = 1
        <4>1. x.q.count - 1 \in 0 .. x.q.count /\ x.q.count > 1 /\ x.q.count - (x.q.count - 1) = 1
          BY <2>2, <3>1
        <4>2. q = Cut(x.q)[x.q.count - 1]
          BY <4>1
        <4> HIDE DEF q
        <4> QED BY <3>1, <4>1, <4>2, CutLike
      <3> HIDE DEF q
      <3>3. IsRing(q) /\ SameMarks(q, x.q)
        BY <3>1, <3>2, LikeIsRing, RingFields
      <3>4. Lane(p, [x EXCEPT !.q = q])
        <4>1. q.count > 0 /\ (q.parked => x.q.parked)
          BY <3>2, <3>3 DEF SameMarks
        <4> QED BY <3>1, <3>3, <4>1, WithRing
      <3>5. F(x) = QueueRelease(p, [x EXCEPT !.q = q])
        BY <2>2 DEF q
      <3> QED BY <3>4, <3>5, ReleaseKeeps
    <2> QED BY <2>1, <2>2
  <1> HIDE DEF F
  <1>3. \E g : Goes(g)
    <2> DEFINE g == [k \in 0 .. 2 |-> IF k = 0 THEN d ELSE IF k = 1 THEN F(d) ELSE F(F(d))]
    <2>1. g[0] = d /\ g[1] = F(d) /\ g[2] = F(F(d))
      OBVIOUS
    <2>2. ASSUME NEW k \in 0 .. 2 PROVE g[k] = IF k = 0 THEN d ELSE F(g[k - 1])
      <3>1. k = 0 \/ k = 1 \/ k = 2
        OBVIOUS
      <3>2. CASE k = 0
        BY <2>1, <3>2
      <3>3. CASE k = 1
        <4>1. k - 1 = 0
          BY <3>3
        <4> HIDE DEF g
        <4> QED BY <2>1, <3>3, <4>1
      <3>4. CASE k = 2
        <4>1. k - 1 = 1
          BY <3>4
        <4> HIDE DEF g
        <4> QED BY <2>1, <3>4, <4>1
      <3> QED BY <3>1, <3>2, <3>3, <3>4
    <2>3. g = [k \in 0 .. 2 |-> g[k]]
      OBVIOUS
    <2> HIDE DEF g
    <2>4. Goes(g)
      BY <2>2, <2>3
    <2> QED BY <2>4
  <1>4. ASSUME NEW g, Goes(g) PROVE Kept(p, g[2])
    <2>1. g[0] = d
      BY <1>4
    <2>2. g[1] = F(g[1 - 1]) /\ 1 - 1 = 0
      BY <1>4
    <2>3. g[2] = F(g[2 - 1]) /\ 2 - 1 = 1
      BY <1>4
    <2> HIDE DEF Goes
    <2>4. Kept(p, g[1])
      BY <1>2, <2>1, <2>2
    <2> QED BY <1>2, <2>3, <2>4
  <1> HIDE DEF Goes
  <1> QED BY <1>1, <1>3, <1>4

-----------------------------------------------------------------------------
(* The lanes of a node. *)

\* the arrival clock, and what goes with it
Clocks == [unacked : Nat, clock : Nat, arena : Nat, closed : BOOLEAN]

LanesKept ==
    /\ setup \in Setups
    /\ rd = [p \in Topic |-> rd[p]]
    /\ \A p \in Topic : Kept(p, rd[p])

\* A topic as it is defined, or retired, keeps them.
LEMMA NewKept ==
    ASSUME setup \in Setups, NEW p \in Topic, NEW l,
           NEW d \in TopicOf(Ring(setup.cap, setup.limit, setup.reliable[p]), 1, 0, l)
    PROVE  Kept(p, d)
  <1> DEFINE b == setup.reliable[p]
             q == Ring(setup.cap, setup.limit, b)
             m == [o \in 0 .. (setup.cap - 1) |-> Wiped]
             no == FALSE
  <1>1. setup.cap \in Nat \ {0} /\ setup.limit \in Nat
    BY SetupAssumption
  <1>2. Cells(m, setup.cap)
    <2>1. ASSUME NEW o \in 0 .. (setup.cap - 1) PROVE IsRecord(m[o])
      BY DEF Wiped, IsRecord
    <2>2. m = [o \in 0 .. (setup.cap - 1) |-> m[o]]
      OBVIOUS
    <2> HIDE DEF m
    <2> QED BY <2>1, <2>2 DEF Cells
  <1>3. q \in RingOf(m, setup.cap, setup.limit, 0, no, no, no, b)
    BY DEF Ring, RingOf
  <1> HIDE DEF m, q, b, no
  <1>4. IsRing(q) /\ q.viewing = no /\ q.parked = no
    BY <1>1, <1>2, <1>3, RingMade
  <1>5. d.q = q /\ d.cur = 1 /\ d \in TopicOf(d.q, d.cur, d.asm, d.live)
    BY TopicMade DEF q, b
  <1> QED BY <1>4, <1>5 DEF Kept, Lane, no

\* The lanes stay kept when one topic changes to a kept one.
LEMMA OneTopic ==
    ASSUME LanesKept, NEW x, NEW d, x \in Topic => Kept(x, d),
           rd' = [rd EXCEPT ![x] = d], setup' = setup
    PROVE  LanesKept'
  <1>1. rd = [p \in Topic |-> rd[p]] /\ \A p \in Topic : Kept(p, rd[p])
    BY DEF LanesKept
  <1>2. \A p \in Topic : rd'[p] = IF p = x THEN d ELSE rd[p]
    BY <1>1
  <1>3. rd' = [p \in Topic |-> rd'[p]]
    BY <1>1
  <1>4. ASSUME NEW p \in Topic PROVE Kept(p, rd[p])'
    <2>1. CASE p = x
      <3>1. rd'[p] = d /\ Kept(p, d)
        BY <1>2, <2>1
      <3> QED BY <3>1 DEF Kept, Lane, Ringed
    <2>2. CASE p # x
      <3>1. rd'[p] = rd[p] /\ Kept(p, rd[p])
        BY <1>1, <1>2, <2>2
      <3> QED BY <3>1 DEF Kept, Lane, Ringed
    <2> QED BY <2>1, <2>2
  <1>5. setup' \in Setups
    BY DEF LanesKept
  <1> QED BY <1>3, <1>4, <1>5 DEF LanesKept

\* Nothing happens to the topics.
LEMMA NoTopic ==
    ASSUME LanesKept, rd' = rd, setup' = setup
    PROVE  LanesKept'
  BY DEF LanesKept, Kept, Lane, Ringed

\* The callback is over: a dispatched record goes back, or the lane moves on.
LEMMA CallbackEndKeeps ==
    ASSUME LanesKept, net \in Clocks, NEW t, CallbackEnd(t)
    PROVE  LanesKept'
  <1> DEFINE f == Top(t)
             p == f.topic
             e == [rd[p] EXCEPT !.q.busy = FALSE]
             d == QueueRelease(p, e)
  <1>1. /\ setup' = setup
        /\ CASE Kind(p) = "queue" -> rd' = [rd EXCEPT ![p] = d]
             [] Kind(p) \in {"inline", "set"} -> rd' = [rd EXCEPT ![p] = Delivered(@)]
             [] OTHER -> rd' = rd
    BY DEF CallbackEnd
  <1> HIDE DEF p
  <1>2. CASE Kind(p) = "queue"
    <2>1. p \in Topic => Kept(p, d)
      <3> SUFFICES ASSUME p \in Topic PROVE Kept(p, d)
        OBVIOUS
      <3> DEFINE q == [rd[p].q EXCEPT !.busy = FALSE]
      <3>1. Lane(p, rd[p]) /\ setup \in Setups
        BY DEF LanesKept, Kept
      <3>2. IsRing(q) /\ q.parked = rd[p].q.parked /\ q.viewing = rd[p].q.viewing /\ q.count = rd[p].q.count
        BY <3>1, MarkedRing DEF Lane
      <3>3. e = [rd[p] EXCEPT !.q = q]
        OBVIOUS
      <3> HIDE DEF q, e
      <3>4. Lane(p, e)
        <4>1. (q.viewing => q.count > 0) /\ (q.parked => rd[p].q.parked)
          BY <3>1, <3>2 DEF Lane
        <4> QED BY <3>1, <3>2, <3>3, <4>1, WithRing
      <3>5. net.clock \in Nat
        BY DEF Clocks
      <3> QED BY <3>1, <3>4, <3>5, ReleaseKeeps
    <2>2. rd' = [rd EXCEPT ![p] = d]
      BY <1>1, <1>2
    <2> HIDE DEF d
    <2> QED BY <1>1, <2>1, <2>2, OneTopic
  <1>3. CASE Kind(p) \in {"inline", "set"}
    <2> DEFINE x == Delivered(rd[p])
    <2>1. p \in Topic => Kept(p, x)
      <3> SUFFICES ASSUME p \in Topic PROVE Kept(p, x)
        OBVIOUS
      <3> DEFINE c == rd[p].asm + 1
      <3>1. Lane(p, rd[p]) /\ rd[p] \in TopicOf(rd[p].q, rd[p].cur, rd[p].asm, rd[p].live)
        BY DEF LanesKept, Kept, Lane
      <3>2. ~Ringed(p)
        BY <1>3 DEF Kind, Ringed
      <3>3. x = [rd[p] EXCEPT !.cur = c]
        BY DEF Delivered
      <3> HIDE DEF c, x
      <3>4. x \in TopicOf(rd[p].q, c, rd[p].asm, rd[p].live)
        BY <3>1, <3>3, Zenon DEF TopicOf
      <3>5. x.q = rd[p].q /\ x \in TopicOf(x.q, x.cur, x.asm, x.live)
        BY <3>4, TopicMade
      <3> QED BY <3>1, <3>2, <3>5 DEF Kept, Lane
    <2>2. rd' = [rd EXCEPT ![p] = x]
      BY <1>1, <1>3
    <2> HIDE DEF x
    <2> QED BY <1>1, <2>1, <2>2, OneTopic
  <1>4. CASE Kind(p) \notin {"queue", "inline", "set"}
    BY <1>1, <1>4, NoTopic
  <1> QED BY <1>2, <1>3, <1>4

\* A sample comes: its ring takes it, or its lane parks at a ring with a record.
LEMMA ReceiveKeeps ==
    ASSUME LanesKept, net \in Clocks, NEW t, NEW p \in Topic, ReceiveQueued(t, p)
    PROVE  LanesKept'
  <1> DEFINE d == rd[p]
             r == Record(p, d.cur)
             ok == Accepts(d.q, r.need)
             q == Push(d.q, r)
             c == IF ok THEN d.cur + 1 ELSE d.cur
             e == [d EXCEPT !.q = q, !.cur = c]
  <1>1. /\ rd' = [rd EXCEPT ![p] = e] /\ setup' = setup
        /\ Ringed(p) /\ Arrives(p)
    BY DEF ReceiveQueued
  <1>2. Kept(p, d) /\ Lane(p, d) /\ IsRing(d.q) /\ (d.q.viewing => d.q.count > 0) /\ setup \in Setups
    BY DEF LanesKept, Kept, Lane
  <1>3. d.cur \in Nat \ {0} /\ d.cur <= Len(setup.need[p]) /\ ~d.q.parked
    BY <1>1, <1>2 DEF Lane, Arrives, Pending
  <1>4. IsRecord(r)
    <2>1. r.need = setup.need[p][d.cur] /\ r.stamp = net.clock
      BY DEF Record
    <2> QED BY <1>2, <1>3, <2>1, NeedNat DEF IsRecord, Clocks
  <1> HIDE DEF r
  <1>5. /\ IsRing(q) /\ (q.viewing => q.count > 0)
        /\ q.parked => d.q.parked \/ (~Accepts(d.q, r.need) /\ q.count > 0)
    BY <1>2, <1>4, PushRing
  <1>6. c \in Nat \ {0} /\ (~ok => c = d.cur)
    BY <1>3
  <1>7. q.parked => q.count > 0 /\ c = d.cur
    BY <1>3, <1>5, <1>6
  <1> HIDE DEF q, c
  <1>8. e \in TopicOf(q, c, d.asm, d.live)
    <2>1. d \in TopicOf(d.q, d.cur, d.asm, d.live)
      BY <1>2 DEF Lane
    <2> QED BY <2>1, Zenon DEF TopicOf
  <1> HIDE DEF e
  <1>9. e.q = q /\ e.cur = c /\ e \in TopicOf(e.q, e.cur, e.asm, e.live)
    BY <1>8, TopicMade
  <1>10. Kept(p, e)
    BY <1>1, <1>3, <1>5, <1>6, <1>7, <1>9 DEF Kept, Lane
  <1> QED BY <1>1, <1>10, OneTopic

\* A sample goes up to its callback at once: the lane holds it assembled.
LEMMA InlineKeeps ==
    ASSUME LanesKept, net \in Clocks, NEW t, NEW p \in Topic, ReceiveInline(t, p) \/ ReceiveSet(t, p)
    PROVE  LanesKept'
  <1> DEFINE a == rd[p].cur
             e == [rd[p] EXCEPT !.asm = a]
  <1>1. rd' = [rd EXCEPT ![p] = e] /\ setup' = setup
    BY DEF ReceiveInline, ReceiveSet
  <1>2. Kept(p, rd[p]) /\ rd[p] \in TopicOf(rd[p].q, rd[p].cur, rd[p].asm, rd[p].live)
    BY DEF LanesKept, Kept, Lane
  <1> HIDE DEF a
  <1>3. e \in TopicOf(rd[p].q, rd[p].cur, a, rd[p].live)
    BY <1>2, Zenon DEF TopicOf
  <1> HIDE DEF e
  <1>4. e.q = rd[p].q /\ e.cur = rd[p].cur /\ e \in TopicOf(e.q, e.cur, e.asm, e.live)
    BY <1>3, TopicMade
  <1>5. Kept(p, e)
    BY <1>2, <1>4 DEF Kept, Lane
  <1> QED BY <1>1, <1>5, OneTopic

\* A dispatch views the oldest record of a ring that holds one.
LEMMA DispatchKeeps ==
    ASSUME LanesKept, net \in Clocks, NEW t, DispatchNext(t)
    PROVE  LanesKept'
  <1> DEFINE p == QueueOldest(t)
             v == Viewed(rd[p].q)
             q == [v EXCEPT !.busy = TRUE]
             e == [rd[p] EXCEPT !.q = q]
  <1>1. rd' = [rd EXCEPT ![p] = e] /\ setup' = setup
    BY DEF DispatchNext
  <1>2. Due(t) # {}
    BY DEF DispatchNext
  <1>3. p \in Due(t)
    <2> DEFINE St(o) == Oldest(rd[o].q).stamp
               Stamps == {St(o) : o \in Due(t)}
    <2>1. ASSUME NEW o \in Due(t) PROVE St(o) \in Nat
      <3>1. o \in Topic
        BY DEF Due
      <3>2. IsRing(rd[o].q)
        BY <3>1 DEF LanesKept, Kept, Lane
      <3> DEFINE x == rd[o].q
      <3>3. x.tail \in Nat
        BY <3>2, RingFields DEF IsRing
      <3>4. Begin(x, x.tail) \in 0 .. (x.cap - 1)
        BY <3>2, <3>3, BeginIn
      <3>5. IsRecord(Oldest(x))
        BY <3>2, <3>4 DEF Oldest, IsRing, Cells
      <3> QED BY <3>5 DEF IsRecord
    <2> HIDE DEF St
    <2>2. PICK n \in Stamps : \A m \in Stamps : n <= m
      <3>1. Stamps \in SUBSET Nat /\ Stamps # {}
        BY <1>2, <2>1
      <3> HIDE DEF Stamps
      <3> QED BY <3>1, LeastNat
    <2>3. PICK o \in Due(t) : n = St(o)
      OBVIOUS
    <2>4. \E i \in Due(t) : \A j \in Due(t) : St(i) <= St(j)
      <3>1. \A j \in Due(t) : St(o) <= St(j)
        BY <2>2, <2>3
      <3> QED BY <3>1
    <2>5. p = CHOOSE i \in Due(t) : \A j \in Due(t) : St(i) <= St(j)
      BY DEF QueueOldest, St
    <2> HIDE DEF p
    <2> QED BY <2>4, <2>5
  <1>4. p \in Topic /\ rd[p].q.count > 0
    BY <1>3 DEF Due, Queued
  <1> HIDE DEF p
  <1>5. Kept(p, rd[p]) /\ Lane(p, rd[p]) /\ IsRing(rd[p].q)
    BY <1>4 DEF LanesKept, Kept, Lane
  <1>6. IsRing(v) /\ v.parked = rd[p].q.parked /\ v.count = rd[p].q.count
    BY <1>5, ViewedRing
  <1> HIDE DEF v
  <1>7. IsRing(q) /\ q.parked = rd[p].q.parked /\ q.count > 0
    BY <1>4, <1>6, MarkedRing
  <1> HIDE DEF q
  <1>8. Lane(p, e) /\ e.q = q
    BY <1>5, <1>7, WithRing
  <1>9. Kept(p, e)
    BY <1>7, <1>8 DEF Kept
  <1> HIDE DEF e
  <1> QED BY <1>1, <1>9, OneTopic

\* A take gives the last record back, and retries the parked lane.
LEMMA TakeCallKeeps ==
    ASSUME LanesKept, net \in Clocks, NEW t, TakeCall(t)
    PROVE  LanesKept'
  <1> DEFINE p == Top(t).call.topic
             d == QueueRelease(p, rd[p])
  <1>1. rd' = [rd EXCEPT ![p] = d] /\ setup' = setup
    BY DEF TakeCall
  <1>2. p \in Topic => Kept(p, d)
    <2>1. net.clock \in Nat
      BY DEF Clocks
    <2> HIDE DEF p
    <2> QED BY <2>1, ReleaseKeeps DEF LanesKept, Kept
  <1> HIDE DEF p, d
  <1> QED BY <1>1, <1>2, OneTopic

\* ... and views the oldest record, or the newest, when the ring holds one.
LEMMA TakeGoKeeps ==
    ASSUME LanesKept, net \in Clocks, NEW t, TakeGo(t)
    PROVE  LanesKept'
  <1> DEFINE p == Top(t).call.topic
             d == IF Top(t).call.latest THEN Latest(p, rd[p]) ELSE rd[p]
             q == Viewed(d.q)
             e == [d EXCEPT !.q = q]
             x == IF d.q.count = 0 THEN d ELSE e
  <1>1. setup' = setup /\ rd' = [rd EXCEPT ![p] = x]
    BY DEF TakeGo
  <1> HIDE DEF p
  <1>2. p \in Topic => Kept(p, x)
    <2> SUFFICES ASSUME p \in Topic PROVE Kept(p, x)
      OBVIOUS
    <2>1. Kept(p, d)
      <3>1. net.clock \in Nat
        BY DEF Clocks
      <3>2. setup \in Setups /\ Kept(p, rd[p])
        BY DEF LanesKept
      <3> QED BY <3>1, <3>2, LatestKeeps
    <2> HIDE DEF d
    <2>2. CASE d.q.count = 0
      BY <2>1, <2>2
    <2>3. CASE d.q.count # 0
      <3>1. IsRing(d.q) /\ Lane(p, d)
        BY <2>1 DEF Kept, Lane
      <3>2. d.q.count \in Nat
        BY <3>1, RingFields DEF IsRing
      <3>3. IsRing(q) /\ q.parked = d.q.parked /\ q.count > 0
        BY <2>3, <3>1, <3>2, ViewedRing
      <3> HIDE DEF q
      <3>4. Lane(p, e) /\ e.q = q
        BY <3>1, <3>3, WithRing
      <3>5. Kept(p, e)
        BY <3>3, <3>4 DEF Kept
      <3> QED BY <2>3, <3>5
    <2> QED BY <2>2, <2>3
  <1> HIDE DEF x
  <1> QED BY <1>1, <1>2, OneTopic

\* A topic whose record is in no callback may be retired: its ring is a new one.
LEMMA RetireKeeps ==
    ASSUME LanesKept, NEW t, RetireGo(t)
    PROVE  LanesKept'
  <1> DEFINE p == Top(t).call.topic
             no == FALSE
             yes == TRUE
             e == [NewTopic(setup, p) EXCEPT !.live = no]
  <1>1. setup' = setup /\ (rd' = rd \/ rd' = [rd EXCEPT ![p] = e])
    BY DEF RetireGo
  <1> HIDE DEF p
  <1>2. e \in TopicOf(Ring(setup.cap, setup.limit, setup.reliable[p]), 1, 0, no)
    <2> HIDE DEF no
    <2>1. NewTopic(setup, p) \in TopicOf(Ring(setup.cap, setup.limit, setup.reliable[p]), 1, 0, yes)
      BY DEF NewTopic, TopicOf
    <2> HIDE DEF yes
    <2> QED BY <2>1, Zenon DEF TopicOf
  <1>3. p \in Topic => Kept(p, e)
    <2> HIDE DEF no, e
    <2> QED BY <1>2, NewKept DEF LanesKept
  <1> HIDE DEF e
  <1>4. CASE rd' = rd
    BY <1>1, <1>4, NoTopic
  <1>5. CASE rd' = [rd EXCEPT ![p] = e]
    BY <1>1, <1>3, <1>5, OneTopic
  <1> QED BY <1>1, <1>4, <1>5

-----------------------------------------------------------------------------
(* The theorem. *)

\* The clock only counts.
LEMMA ClockStep ==
    ASSUME net \in Clocks, [Next]_vars
    PROVE  net' \in Clocks
  <1>1. net.unacked \in Nat /\ net.clock \in Nat /\ net.arena \in Nat /\ KeepLast \in Nat
    BY DEF Clocks, KeepLast
  <1> DEFINE Moves == {net, [net EXCEPT !.clock = @ + 1], [net EXCEPT !.unacked = 0], Committed,
                       [net EXCEPT !.arena = @ + 1], [net EXCEPT !.closed = TRUE]}
  <1>2. Moves \subseteq Clocks
    <2>1. net.clock + 1 \in Nat /\ net.arena + 1 \in Nat /\ 0 \in Nat /\ TRUE \in BOOLEAN
          /\ (IF net.unacked < KeepLast THEN net.unacked + 1 ELSE net.unacked) \in Nat
      BY <1>1
    <2>2. Committed \in Clocks
      <3> DEFINE u == IF net.unacked < KeepLast THEN net.unacked + 1 ELSE net.unacked
      <3>1. Committed = [net EXCEPT !.unacked = u]
        BY DEF Committed
      <3>2. u \in Nat
        BY <2>1
      <3> HIDE DEF u
      <3> QED BY <3>1, <3>2, Zenon DEF Clocks
    <2>3. [net EXCEPT !.clock = @ + 1] \in Clocks
      BY <2>1, Zenon DEF Clocks
    <2>4. [net EXCEPT !.unacked = 0] \in Clocks
      BY <2>1, Zenon DEF Clocks
    <2>5. [net EXCEPT !.arena = @ + 1] \in Clocks
      BY <2>1, Zenon DEF Clocks
    <2>6. [net EXCEPT !.closed = TRUE] \in Clocks
      BY <2>1, Zenon DEF Clocks
    <2> QED BY <2>2, <2>3, <2>4, <2>5, <2>6, Zenon
  <1> DEFINE Moved == net' \in Moves
  <1>3. ASSUME UNCHANGED vars PROVE Moved
    BY <1>3 DEF vars
  <1>4. ASSUME NEW t \in App, Call(t) PROVE Moved
    BY <1>4, Zenon DEF Call
  <1>5. ASSUME Service \/ Terminated PROVE Moved
    BY <1>5, Zenon DEF Service, Terminated, vars
  <1>6. ASSUME NEW t \in Thread,
               \/ Send(t) \/ Write(t) \/ Dispatch(t) \/ TakeCall(t) \/ TakeGo(t)
               \/ SettleCall(t) \/ CreateGo(t) \/ RetireGo(t) \/ StartGo(t) \/ Stop(t) \/ Close(t)
               \/ Poll(t) \/ Receive(t) \/ CallbackCalls(t) \/ CallbackEnd(t)
        PROVE  Moved
    <2>1. CASE Send(t)
      BY <2>1, Zenon DEF Send, SendCall, SendGo, DrainCall, DrainGo
    <2>2. CASE Write(t) \/ SettleCall(t) \/ RetireGo(t) \/ StartGo(t) \/ Stop(t) \/ CallbackCalls(t)
      <3>1. net' = net
        BY <2>2 DEF Write, SetCall, ForceCall, Written, SettleCall, RetireGo, StartGo, Stop, StopGo, Join, Joined,
              CallbackCalls
      <3> QED BY <3>1
    <2>3. CASE Dispatch(t) \/ Poll(t)
      <3>1. net' = net
        BY <2>3 DEF Dispatch, DispatchCall, DispatchGo, DispatchNext, DispatchDone, Poll, PollCall, Settle,
              SettleWakes, Wake, WaitUntil, CvWakes
      <3> QED BY <3>1
    <2>4. CASE CreateGo(t)
      BY <2>4, Zenon DEF CreateGo
    <2>5. CASE Close(t)
      <3>1. CASE CloseCall(t)
        <4>1. net' = net
          BY <3>1 DEF CloseCall
        <4> QED BY <4>1
      <3>2. CASE CloseGo(t)
        BY <3>2, Zenon DEF CloseGo
      <3> QED BY <2>5, <3>1, <3>2 DEF Close
    <2>6. CASE TakeCall(t) \/ TakeGo(t)
      BY <2>6, Zenon DEF TakeCall, TakeGo, Tick
    <2>7. CASE Receive(t)
      BY <2>7, Zenon DEF Receive, ReceiveQueued, ReceiveInline, ReceiveSet, ReceiveSetWaits, ReceiveSetWakes,
            ReceiveAck, PassEnds
    <2>8. CASE CallbackEnd(t)
      <3> DEFINE p == Top(t).topic
                 d == QueueRelease(p, [rd[p] EXCEPT !.q.busy = FALSE])
      <3>1. net' = net \/ net' = Tick(p, d)
        BY <2>8 DEF CallbackEnd
      <3> HIDE DEF p, d
      <3>2. CASE net' = net
        BY <3>2, Zenon
      <3>3. CASE net' = Tick(p, d)
        BY <3>3, Zenon DEF Tick
      <3> QED BY <3>1, <3>2, <3>3
    <2> QED BY <1>6, <2>1, <2>2, <2>3, <2>4, <2>5, <2>6, <2>7, <2>8
  <1>7. Moved
    <2>1. CASE UNCHANGED vars
      BY <1>3, <2>1
    <2>2. CASE Next
      <3> HIDE DEF Moved
      <3> QED BY <1>4, <1>5, <1>6, <2>2 DEF Next
    <2> HIDE DEF Moved
    <2> QED BY <2>1, <2>2
  <1> QED BY <1>2, <1>7

\* Every step keeps the lanes.
LEMMA LanesStep ==
    ASSUME LanesKept, net \in Clocks, [Next]_vars
    PROVE  LanesKept'
  <1>1. CASE UNCHANGED vars
    BY <1>1, NoTopic DEF vars
  <1>2. CASE \E t \in App : Call(t)
    BY <1>2, NoTopic DEF Call
  <1>3. CASE Service
    BY <1>3, NoTopic DEF Service
  <1>4. CASE Terminated
    BY <1>4, NoTopic DEF Terminated, vars
  <1>5. ASSUME NEW t \in Thread,
               \/ Send(t) \/ Write(t) \/ Dispatch(t) \/ TakeCall(t) \/ TakeGo(t)
               \/ SettleCall(t) \/ CreateGo(t) \/ RetireGo(t) \/ StartGo(t) \/ Stop(t) \/ Close(t)
               \/ Poll(t) \/ Receive(t) \/ CallbackCalls(t) \/ CallbackEnd(t)
        PROVE  LanesKept'
    <2>1. CASE Send(t)
      BY <2>1, NoTopic DEF Send, SendCall, SendGo, DrainCall, DrainGo
    <2>2. CASE Write(t)
      BY <2>2, NoTopic DEF Write, SetCall, ForceCall, Written
    <2>3. CASE Dispatch(t)
      <3>1. CASE DispatchNext(t)
        BY <3>1, DispatchKeeps
      <3>2. CASE DispatchCall(t) \/ DispatchGo(t) \/ DispatchDone(t)
        BY <3>2, NoTopic DEF DispatchCall, DispatchGo, DispatchDone
      <3> QED BY <2>3, <3>1, <3>2 DEF Dispatch
    <2>4. CASE TakeCall(t)
      BY <2>4, TakeCallKeeps
    <2>5. CASE TakeGo(t)
      BY <2>5, TakeGoKeeps
    <2>6. CASE SettleCall(t) \/ CreateGo(t) \/ StartGo(t)
      BY <2>6, NoTopic DEF SettleCall, CreateGo, StartGo
    <2>7. CASE RetireGo(t)
      BY <2>7, RetireKeeps
    <2>8. CASE Stop(t) \/ Close(t)
      BY <2>8, NoTopic DEF Stop, StopGo, Join, Joined, Close, CloseCall, CloseGo
    <2>9. CASE Poll(t)
      BY <2>9, NoTopic DEF Poll, PollCall, Settle, SettleWakes, Wake, WaitUntil, CvWakes
    <2>10. CASE Receive(t)
      <3>1. ASSUME NEW p \in Topic, ReceiveQueued(t, p) PROVE LanesKept'
        BY <3>1, ReceiveKeeps
      <3>2. ASSUME NEW p \in Topic, ReceiveInline(t, p) \/ ReceiveSet(t, p) PROVE LanesKept'
        BY <3>2, InlineKeeps
      <3>3. ASSUME NEW p \in Topic, ReceiveSetWaits(t, p) PROVE LanesKept'
        BY <3>3, NoTopic DEF ReceiveSetWaits
      <3>4. CASE ReceiveSetWakes(t) \/ ReceiveAck(t) \/ PassEnds(t)
        BY <3>4, NoTopic DEF ReceiveSetWakes, ReceiveAck, PassEnds
      <3> QED BY <2>10, <3>1, <3>2, <3>3, <3>4 DEF Receive
    <2>11. CASE CallbackCalls(t)
      BY <2>11, NoTopic DEF CallbackCalls
    <2>12. CASE CallbackEnd(t)
      BY <2>12, CallbackEndKeeps
    <2> QED BY <1>5, <2>1, <2>2, <2>3, <2>4, <2>5, <2>6, <2>7, <2>8, <2>9, <2>10, <2>11, <2>12
  <1> QED BY <1>1, <1>2, <1>3, <1>4, <1>5 DEF Next

\* A lane parked on a full ring is never forgotten, whatever the sizes, the
\* limits and the programs of the threads: as long as it is parked its ring
\* holds a record, and giving that record back retries it. The proof is that a
\* ring without records takes any sample, at the latest once it has grown
\* (i_rant_q_grow lets two of it fit), and that each step that takes records
\* out of the ring of a parked lane tries the lane again.
THEOREM NeverStranded == Spec => []NoStrand
  <1> DEFINE Inv == net \in Clocks /\ LanesKept
  <1>1. Init => Inv
    <2> SUFFICES ASSUME Init PROVE Inv
      OBVIOUS
    <2>1. net \in Clocks
      BY DEF Init, Clocks
    <2>2. setup \in Setups /\ rd = [p \in Topic |-> NewTopic(setup, p)]
      BY DEF Init
    <2>3. ASSUME NEW p \in Topic PROVE Kept(p, rd[p])
      <3> DEFINE yes == TRUE
      <3>1. rd[p] \in TopicOf(Ring(setup.cap, setup.limit, setup.reliable[p]), 1, 0, yes)
        BY <2>2 DEF NewTopic, TopicOf
      <3> HIDE DEF yes
      <3> QED BY <2>2, <3>1, NewKept
    <2> QED BY <2>1, <2>2, <2>3 DEF LanesKept
  <1>2. Inv /\ [Next]_vars => Inv'
    BY ClockStep, LanesStep
  <1>3. Inv => NoStrand
    BY DEF LanesKept, Kept, NoStrand
  <1> QED BY <1>1, <1>2, <1>3, PTL DEF Spec

================================================================================
