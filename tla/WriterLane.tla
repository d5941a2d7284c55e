----------------------------- MODULE WriterLane -----------------------------
(***************************************************************************)
(* The writer proxy of one (topic, reader) lane (src/transport/writer.c):  *)
(* it pushes, repairs and heartbeats what the history holds.  Operators    *)
(* only; ReliableTopic turns them into actions.                            *)
(***************************************************************************)
EXTENDS History

-----------------------------------------------------------------------------
(* The writer proxy.  nack holds the requested seqnos, nackBase the base of *)
(* the request window; epoch 0 is a reader not heard from yet.              *)

WriterState ==
    [used : BOOLEAN, epoch : Nat, sent : Nat, acked : Nat,
     nack : SUBSET Nat, nackBase : Nat, skipHb : BOOLEAN]

NoWriter ==
    [used |-> FALSE, epoch |-> 0, sent |-> 0, acked |-> 0,
     nack |-> {}, nackBase |-> 0, skipHb |-> FALSE]

\* i_rant_writer_match
JoinedAt(s) == [NoWriter EXCEPT !.used = TRUE, !.sent = s, !.acked = s]

WithNack(w, bits, base) == [w EXCEPT !.nack = bits, !.nackBase = IF bits = {} THEN 0 ELSE base]

\* a lane standing on a sample addressed to others steps to the next one it is owed
StepOver(t, p, x) ==
    IF \E i \in Cached(t) : Covers(t.smp[i], x) /\ Foreign(t.smp[i], p)
    THEN Min({t.smp[i].base : i \in {j \in Cached(t) : t.smp[j].base > x /\ ~Foreign(t.smp[j], p)}}
             \cup {NextSeqno(t)})
    ELSE x

\* Mutant: the lane never steps over a sample addressed to others.
LaneAdvanceNever(t, p, w) == w

\* i_rant_writer_lane_advance: sent only steps from a sample's first fragment
LaneAdvance(t, p, w) ==
    LET a == StepOver(t, p, w.acked)
        s == IF w.sent < a THEN a ELSE w.sent
    IN  IF Directed
        THEN [w EXCEPT !.acked  = a,
                       !.skipHb = @ \/ a # w.acked,
                       !.sent   = IF \E i \in Cached(t) : t.smp[i].base = s THEN StepOver(t, p, s) ELSE s]
        ELSE w

-----------------------------------------------------------------------------
(* i_rant_writer_emit, one submessage at a time. *)

ForeignSeqno(t, p, x) == \E i \in Cached(t) : Covers(t.smp[i], x) /\ Foreign(t.smp[i], p)

\* The repair loop passes over requests for nothing and for samples addressed to
\* others up to the first request it can answer; the latter owe a floor heartbeat.
Pruned(t, p, w0) ==
    LET w     == LaneAdvance(t, p, w0)
        live  == {x \in w.nack : x < NextSeqno(t) /\ ~ForeignSeqno(t, p, x)}
        below == {x \in w.nack : \A y \in live : x < y}
    IN  WithNack([w EXCEPT !.skipHb = @ \/ \E x \in below : ForeignSeqno(t, p, x)],
                 w.nack \ below, w.nackBase)

\* the heartbeat advertises the larger of the ring's floor and the acked edge
HbFirst(t, w) == IF w.acked < FirstSeqno(t) THEN FirstSeqno(t) ELSE w.acked

\* a cached fragment is resent and its request cleared; an evicted one clears
\* every request below the floor
Repaired(t, w) ==
    LET x == Min(w.nack)
    IN  IF Found(t, x) THEN WithNack(w, w.nack \ {x}, w.nackBase)
                       ELSE WithNack(w, {y \in w.nack : y >= FirstSeqno(t)}, w.nackBase)

\* new data goes out fragment by fragment; an unsent eviction jumps to the floor
Pushed(t, w) == [w EXCEPT !.sent = IF Found(t, @) THEN @ + 1 ELSE FirstSeqno(t)]

-----------------------------------------------------------------------------
(* i_rant_writer_nack: an ACKNACK m. *)

\* Mutant: the rejoin replays but leaves the dead incarnation's acked edge.
RejoinedKeepingAcked(t, w, epoch) ==
    LET s == IF w.acked < JoinSeqno(t) THEN w.acked ELSE JoinSeqno(t)
    IN  WithNack([w EXCEPT !.epoch = epoch, !.sent = s], {}, 0)

\* the reader re-incarnated while the lane survived: back to the older of the
\* acked edge and a fresh join point
Rejoined(t, w, epoch) ==
    LET s == IF w.acked < JoinSeqno(t) THEN w.acked ELSE JoinSeqno(t)
    IN  WithNack([w EXCEPT !.epoch = epoch, !.sent = s, !.acked = s], {}, 0)

\* an unpositioned reader cannot NACK: push again from the unacked edge
Repush(w) == [w EXCEPT !.sent = IF w.acked < @ THEN w.acked ELSE @]

\* Mutant: requests are merged under the old base.
MergeNackOldBase(w, m) ==
    IF w.nack = {} THEN WithNack(w, m.bits, m.base) ELSE WithNack(w, w.nack \cup m.bits, w.nackBase)

\* requests below the new base are acked, the others are merged
MergeNack(w, m) ==
    LET base == IF w.nack = {} THEN m.base ELSE IF m.base > w.nackBase THEN m.base ELSE w.nackBase
        kept == {x \in w.nack : x >= base}
    IN  IF kept = {} THEN WithNack(w, m.bits, m.base)
                     ELSE WithNack(w, kept \cup {x \in m.bits : x >= base}, base)

WriterNack(t, p, w, m) ==
    LET v == [w EXCEPT !.epoch = m.epoch]
        a == LaneAdvance(t, p, [v EXCEPT !.acked = IF @ < m.base THEN m.base ELSE @])
    IN  CASE w.epoch \notin {0, m.epoch}             -> Rejoined(t, w, m.epoch)
          [] w.epoch \in {0, m.epoch} /\ m.unpos     -> Repush(v)
          [] w.epoch \in {0, m.epoch} /\ ~m.unpos    -> MergeNack(a, m)

-----------------------------------------------------------------------------
(* Flow control: i_rant_transport_send_would_evict and send_drained. *)

\* the sample the next send would overwrite is still owed to a live reader
Owed(t, p, w) ==
    /\ RingFull(t)
    /\ w.used
    /\ t.smp[t.lo].dest \in {DestAll, p}
    /\ w.acked < EndOf(t.smp[t.lo])

=============================================================================
