------------------------------ MODULE QueueRing -------------------------------
(***************************************************************************)
(* The byte ring behind a queued or pull topic (node/runtime.c), as         *)
(* operators on a ring value: records lie one after another, none wraps,   *)
(* and a sentinel in the bytes left before the end sends the reader back   *)
(* to the start. Offsets count aligned units of 8 bytes; a record is at    *)
(* least HeaderUnits long, so less room than that is no record.            *)
(*                                                                         *)
(* A record is known by its start cell alone: [id, need, stamp]. Writing   *)
(* one wipes every cell it covers, so that a record another one overlaps   *)
(* is lost to the reader.                                                  *)
(***************************************************************************)
EXTENDS Integers, Sequences

CONSTANTS
    HeaderUnits,   \* the size of i_RantQRec
    PageUnits      \* the size a ring starts from

ASSUME UnitsAssumption == HeaderUnits \in Nat \ {0} /\ PageUnits \in Nat \ {0}

Wrap  == [id |-> "wrap", need |-> 0, stamp |-> 0]
Wiped == [id |-> "wiped", need |-> 0, stamp |-> 0]

\* A ring of cap units. dropped counts what best effort lost, viewing pins the
\* oldest record, busy marks it as out in a dispatched callback.
Ring(cap, limit, reliable) ==
    [mem |-> [o \in 0..(cap - 1) |-> Wiped], cap |-> cap, limit |-> limit, head |-> 0, tail |-> 0,
     count |-> 0, bytes |-> 0, dropped |-> 0, viewing |-> FALSE, busy |-> FALSE,
     parked |-> FALSE, reliable |-> reliable]

\* Where the record at offset o really begins: a sentinel, or too little room
\* for a header, stands for the start of the ring.
Begin(q, o) == IF q.cap - o < HeaderUnits \/ q.mem[o] = Wrap THEN 0 ELSE o

\* The oldest record, with the wrap normalised into tail.
Peeked(q) == [q EXCEPT !.tail = Begin(q, q.tail)]
Oldest(q) == q.mem[Begin(q, q.tail)]

Pop(q) ==
    LET p == Peeked(q) r == Oldest(q) IN
    IF q.count = 0 THEN q
    ELSE IF q.count = 1 THEN [p EXCEPT !.head = 0, !.tail = 0, !.count = 0, !.bytes = @ - r.need]
    ELSE [p EXCEPT !.tail = @ + r.need, !.count = @ - 1, !.bytes = @ - r.need]

\* The offset at which need units fit in one piece, -1 when they do not.
Room(q, need) ==
    CASE need > q.cap                                     -> -1
      [] q.count = 0 /\ need <= q.cap                     -> 0
      [] q.count > 0 /\ q.head > q.tail /\ need <= q.cap  ->
            IF q.cap - q.head >= need THEN q.head ELSE IF q.tail >= need THEN 0 ELSE -1
      [] OTHER -> IF q.head < q.tail /\ q.tail - q.head >= need THEN q.head ELSE -1

\* The ring as i_rant_q_fit leaves it for a record that fits at Room: an empty
\* one starts over, and a wrap writes its sentinel where there is room for it.
Fitted(q, need) ==
    IF q.count = 0 THEN [q EXCEPT !.head = 0, !.tail = 0]
    ELSE IF Room(q, need) = 0 /\ q.head > q.tail /\ q.head < q.cap
         THEN [q EXCEPT !.mem[q.head] = Wrap]
    ELSE q

\* The size a ring grows to: double, toward the limit, and past it when two of
\* the record would not fit.
Doubled(q, total) ==
    LET least == IF 2 * q.cap < PageUnits THEN PageUnits ELSE 2 * q.cap
        up[k \in 0..total] == IF k = 0 THEN least
                             ELSE LET u == up[k - 1] IN IF u >= total THEN u ELSE 2 * u
    IN IF least >= total THEN least ELSE up[total]
Target(q, total, need) ==
    LET capped == IF Doubled(q, total) > q.limit THEN q.limit ELSE Doubled(q, total)
    IN IF capped \div 2 < need THEN 2 * need ELSE capped

\* The start offsets of the count records from tail on.
Starts(q) ==
    LET at[i \in 1..q.count] ==
            IF i = 1 THEN Begin(q, q.tail)
            ELSE Begin(q, at[i - 1] + q.mem[at[i - 1]].need)
    IN at

\* The records from the oldest on.
Records(q) == [i \in 1..q.count |-> q.mem[Starts(q)[i]]]

Grows(q, need) == ~q.viewing /\ Target(q, q.bytes + need, need) > q.cap

\* The records move to the front of a larger ring.
Grown(q, need) ==
    LET cap   == Target(q, q.bytes + need, need)
        recs  == Records(q)
        to[i \in 1..(q.count + 1)] == IF i = 1 THEN 0 ELSE to[i - 1] + recs[i - 1].need
    IN [q EXCEPT !.cap = cap, !.tail = 0, !.head = to[q.count + 1],
                 !.mem = [o \in 0..(cap - 1) |->
                            IF \E i \in 1..q.count : to[i] = o
                            THEN recs[CHOOSE i \in 1..q.count : to[i] = o] ELSE Wiped]]

\* The ring with the record r stored where it fits.
Stored(q, r) ==
    LET at == Room(q, r.need)
        f  == Fitted(q, r.need)
    IN [f EXCEPT !.mem = [o \in DOMAIN @ |-> IF o = at THEN r
                                             ELSE IF o > at /\ o < at + r.need THEN Wiped ELSE @[o]],
                 !.head = at + r.need, !.bytes = @ + r.need, !.count = @ + 1]

\* The rings that dropping the oldest records one by one leaves.
Cut(q) == LET cut[k \in 0..q.count] == IF k = 0 THEN q ELSE Pop(cut[k - 1]) IN cut

\* A full ring grows, unless a view pins it; then best effort gives up its
\* oldest records until the new one fits, which a reliable ring never does.
Roomy(q, need) == IF Room(q, need) < 0 /\ Grows(q, need) THEN Grown(q, need) ELSE q
Cuts(q, need)  == {k \in 0..q.count : Room(Cut(q)[k], need) >= 0 /\ (k > 0 => ~q.reliable /\ ~q.viewing)}

\* Push refuses a record only in a reliable ring: the transport parks it.
Accepts(q, need) == ~q.reliable \/ Cuts(Roomy(q, need), need) # {}

\* i_rant_node_queue_push.
Push(q, r) ==
    LET g  == Roomy(q, r.need)
        ks == Cuts(g, r.need)
        k  == CHOOSE k \in ks : \A j \in ks : k <= j
    IN IF ks # {} THEN [Stored(Cut(g)[k], r) EXCEPT !.dropped = @ + k]
       ELSE IF g.reliable THEN [g EXCEPT !.parked = TRUE]
       ELSE [g EXCEPT !.dropped = @ + 1]

\* The oldest record is handed out and pinned; giving it back drops it.
Viewed(q)   == [Peeked(q) EXCEPT !.viewing = TRUE]
Returned(q) == IF q.viewing THEN Pop([q EXCEPT !.viewing = FALSE]) ELSE q
===============================================================================
