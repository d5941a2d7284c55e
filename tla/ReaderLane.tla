----------------------------- MODULE ReaderLane -----------------------------
(***************************************************************************)
(* The reader proxy of one (topic, writer) lane: ordering, reassembly,     *)
(* delivery and the ACKNACK it owes (src/transport/reader.c).  A sample is *)
(* fragmented over consecutive seqnos base .. base+count-1.  The reader    *)
(* assembles the head sample (cur), holds at most one sample ahead of it   *)
(* (nxt) and never moves upto (deliver_upto) but by a delivery, a reported *)
(* skip or the position it adopts from the first DATA.                     *)
(*                                                                         *)
(* Every operator maps a reader state to the state the C function leaves.  *)
(* start, log and lost are history: the adopted position, the samples      *)
(* handed to the application and the seqnos reported as lost.              *)
(***************************************************************************)
EXTENDS History

CONSTANT NackWindow     \* RANT_NACK_WINDOW, the seqnos one ACKNACK can ask for

ASSUME NackWindowAssumption == NackWindow \in Nat \ {0}

Larger(a, b)  == IF a < b THEN b ELSE a
Smaller(a, b) == IF a < b THEN a ELSE b

-----------------------------------------------------------------------------
(* i_RantAssembly: got holds the seqnos whose bitmap bit is set. *)

Assembly == [on : BOOLEAN, base : Nat, count : Nat, got : SUBSET Nat]
NoAsm    == [on |-> FALSE, base |-> 0, count |-> 0, got |-> {}]

\* base + low: the first seqno of the sample not yet received, its end if none
Front(a) == Min((a.base .. EndOf(a)) \ a.got)

Complete(a) == a.on /\ a.base .. (EndOf(a) - 1) \subseteq a.got

Missing(a, s) == ~(a.on /\ s \in a.got)

\* a fragment is stored in its slot, opening the slot if it was free
Fill(a, m) ==
    CASE ~a.on                       -> [on |-> TRUE, base |-> m.base, count |-> m.count, got |-> {m.seq}]
      [] a.on /\ a.count = m.count   -> [a EXCEPT !.got = @ \cup {m.seq}]
      [] a.on /\ a.count # m.count   -> a

-----------------------------------------------------------------------------
(* The proxy.  Times are abstracted: pend says an ACKNACK is armed, force   *)
(* that it must go out even if it asks for nothing.                         *)

Delivery == [base : Nat, count : Nat]

ReaderState ==
    [used    : BOOLEAN, epoch  : Nat, started : BOOLEAN,
     upto    : Nat,     hbLast : Nat, rHigh   : Nat,     nHigh : Nat,
     cur     : Assembly, nxt   : Assembly,
     pend    : BOOLEAN, force  : BOOLEAN, req : BOOLEAN,
     parked  : BOOLEAN, lapped : BOOLEAN,
     start   : Nat,     log    : Seq(Delivery), lost : SUBSET Nat]

NoReader ==
    [used |-> FALSE, epoch |-> 0, started |-> FALSE,
     upto |-> 0, hbLast |-> 0, rHigh |-> 0, nHigh |-> 0,
     cur |-> NoAsm, nxt |-> NoAsm,
     pend |-> FALSE, force |-> FALSE, req |-> FALSE,
     parked |-> FALSE, lapped |-> FALSE,
     start |-> 0, log |-> << >>, lost |-> {}]

\* i_rant_reader_match: a new incarnation, unpositioned, announces itself once
Matched(epoch) ==
    [NoReader EXCEPT !.used = TRUE, !.epoch = epoch, !.pend = TRUE, !.force = TRUE]

AckNow(r, force) == [r EXCEPT !.pend = TRUE, !.force = @ \/ force]

\* the sample held ahead becomes the head when it is exactly next, and is
\* dropped when deliver_upto passed its base
Settle(r) ==
    CASE r.nxt.on /\ r.nxt.base < r.upto              -> [r EXCEPT !.nxt = NoAsm]
      [] r.nxt.on /\ r.nxt.base = r.upto /\ ~r.cur.on -> [r EXCEPT !.cur = r.nxt, !.nxt = NoAsm]
      [] OTHER                                        -> r

\* Mutant: deliver_upto moves and the head slot stays taken.
MoveToKeepHead(r, s) == Settle([r EXCEPT !.upto = s])

\* deliver_upto moves, the head slot is freed
MoveTo(r, s) == Settle([r EXCEPT !.upto = s, !.cur = NoAsm])

\* One turn of the delivery loop: a complete head is handed up.  The consumer
\* takes it (ok), which moves deliver_upto and owes a cumulative ack, or
\* refuses it, which parks the lane.
HandUp(r, ok) ==
    CASE ~Complete(r.cur)       -> r
      [] Complete(r.cur) /\ ~ok -> [r EXCEPT !.parked = TRUE]
      [] Complete(r.cur) /\ ok  ->
            AckNow(MoveTo([r EXCEPT !.lapped = FALSE,
                                    !.log = Append(@, [base |-> r.cur.base, count |-> r.cur.count])],
                          EndOf(r.cur)),
                   TRUE)

\* The loop runs at most twice, once for the head and once for the sample that
\* was held ahead of it: acc of them are taken before the consumer refuses.
Deliver(r, acc) == IF acc = 0 THEN HandUp(r, FALSE) ELSE HandUp(HandUp(r, TRUE), acc > 1)

-----------------------------------------------------------------------------
(* i_rant_reader_data: one DATA fragment m.  mem is whether the slot's      *)
(* buffers can be had, acc how many samples the consumer takes.             *)

\* a resend of what was delivered: only a writer that asked is answered
OldData(r) == IF r.req THEN AckNow(r, TRUE) ELSE r

\* a future sample: arm a repair and hold the sample in the free ahead slot
AheadData(r, m, mem) ==
    LET g     == IF r.parked \/ r.pend THEN r ELSE AckNow(r, FALSE)
        taken == r.nxt.on /\ r.nxt.base # m.base
    IN  IF taken \/ (~r.nxt.on /\ ~mem) THEN g ELSE [g EXCEPT !.nxt = Fill(@, m)]

\* No buffer for the head: MSG_TOO_BIG is reported and the sample skipped.
TooBig(r, m, acc) ==
    Deliver(AckNow(MoveTo([r EXCEPT !.lost = @ \cup (m.base .. (m.base + m.count - 1))],
                          m.base + m.count),
                   TRUE),
            acc)

HeadData(r, m, mem, acc) ==
    LET f == [r EXCEPT !.cur = Fill(@, m)]
    IN  CASE ~r.cur.on /\ ~mem                          -> TooBig(r, m, acc)
          [] (r.cur.on \/ mem) /\ Complete(f.cur)       -> Deliver(f, acc)
          [] (r.cur.on \/ mem) /\ ~Complete(f.cur)      ->
                IF m.seq \notin r.cur.got /\ Front(f.cur) <= r.rHigh THEN AckNow(f, FALSE) ELSE f

\* i_rant_reader_order_arrival sorts the fragment: old, a gap, adopted by an
\* unpositioned reader, or in order (dropped while the head is parked)
ReaderData(r, m, mem, acc) ==
    LET q == [r EXCEPT !.req = @ \/ m.ask]
        h == [q EXCEPT !.rHigh = Larger(@, m.seq)]
    IN  CASE m.base < r.upto -> OldData(q)
          [] m.base > r.upto /\ r.started -> AheadData(h, m, mem)
          [] m.base >= r.upto /\ ~r.started ->
                HeadData([h EXCEPT !.upto = m.base, !.start = m.base, !.cur = NoAsm, !.started = TRUE],
                         m, mem, acc)
          [] m.base = r.upto /\ r.started /\ r.parked -> h
          [] m.base = r.upto /\ r.started /\ ~r.parked -> HeadData(h, m, mem, acc)

-----------------------------------------------------------------------------
(* i_rant_reader_hb: a heartbeat m claims the writer's window first .. last *)

\* Mutants: a floor inside the head is taken for a skip; an unpositioned reader
\* follows a floor.
HbSkipsInside(r, m) == r.started /\ m.first > r.upto

HbSkipsUnplaced(r, m) ==
    /\ m.first > r.upto
    /\ (r.cur.on \/ r.parked) => m.first >= r.upto + r.cur.count

\* a floor past the head is a skip; one inside the head is our own ack echoed
HbSkips(r, m) ==
    /\ r.started
    /\ m.first > r.upto
    /\ (r.cur.on \/ r.parked) => m.first >= r.upto + r.cur.count

\* lapped twice without a delivery: rejoin at the writer's head
HbTarget(r, m) ==
    IF ~Directed /\ ~r.parked /\ r.lapped THEN Larger(m.first, m.last + 1) ELSE m.first

\* Mutant: the sample a parked lane held is dropped without a report.
HbSkipQuiet(r, m, acc) ==
    Deliver(MoveTo([r EXCEPT !.lapped = @ \/ ~(Directed \/ r.parked),
                             !.parked = FALSE,
                             !.lost   = IF Directed \/ r.parked THEN @ ELSE @ \cup (r.upto .. (HbTarget(r, m) - 1))],
                   HbTarget(r, m)),
            acc)

\* the skip is reported, but on a directed topic, where it is no loss
HbSkip(r, m, acc) ==
    Deliver(MoveTo([r EXCEPT !.lapped = @ \/ ~(Directed \/ r.parked),
                             !.parked = FALSE,
                             !.lost   = IF Directed THEN @ ELSE @ \cup (r.upto .. (HbTarget(r, m) - 1))],
                   HbTarget(r, m)),
            acc)

\* Mutant: a heartbeat does not force an ack out of a reader that misses nothing.
ReaderHbLazy(r, m, acc) ==
    LET s == IF HbSkips(r, m) THEN HbSkip(r, m, acc) ELSE r
    IN  IF s.parked THEN s ELSE AckNow([s EXCEPT !.hbLast = m.last], FALSE)

ReaderHb(r, m, acc) ==
    LET s == IF HbSkips(r, m) THEN HbSkip(r, m, acc) ELSE r
    IN  IF s.parked THEN s ELSE AckNow([s EXCEPT !.hbLast = m.last], TRUE)

-----------------------------------------------------------------------------
(* i_rant_reader_emit: the ACKNACK of an armed lane.  due is whether the    *)
(* repair backstop has expired; only then is the writer's claim chased.     *)

\* the cumulative ack point: the first seqno of the lane not yet received
FirstMissing(r) == IF r.cur.on THEN Front(r.cur) ELSE r.upto

Bound(r, due) == IF due THEN Larger(r.rHigh, r.hbLast) ELSE r.rHigh

\* what the two slots can hold of the samples asked for
HeldEndOf(r, due) ==
    CASE r.nxt.on /\ (r.cur.on => r.nxt.base = EndOf(r.cur)) -> EndOf(r.nxt)
      [] r.cur.on /\ (r.nxt.on => r.nxt.base # EndOf(r.cur)) -> EndOf(r.cur)
      [] ~r.cur.on /\ ~r.nxt.on                            -> Bound(r, due) + 1

AskTop(r, due) ==
    Smaller(Smaller(FirstMissing(r) + NackWindow, Bound(r, due) + 1), HeldEndOf(r, due))

\* what was asked while assembling this head is in flight and not asked again
AskFrom(r, due) ==
    IF due \/ ~r.cur.on THEN FirstMissing(r) ELSE Larger(r.nHigh, FirstMissing(r))

Asked(r, due) ==
    {s \in AskFrom(r, due) .. (AskTop(r, due) - 1) : Missing(r.cur, s) /\ Missing(r.nxt, s)}

HasHoles(r, due) == FirstMissing(r) <= Bound(r, due)

\* the armed flags are spent; a hole re-arms the backstop
AfterEmit(r, due) ==
    LET quiet == [r EXCEPT !.pend = FALSE, !.force = FALSE, !.req = FALSE]
    IN  CASE r.parked \/ ~r.started       -> quiet
          [] r.started /\ ~r.parked /\ HasHoles(r, due) ->
                [quiet EXCEPT !.pend  = TRUE,
                              !.nHigh = IF Asked(r, due) = {} THEN @ ELSE Larger(@, AskTop(r, due))]
          [] r.started /\ ~r.parked /\ ~HasHoles(r, due) -> [quiet EXCEPT !.nHigh = FirstMissing(r)]

\* is a datagram worth sending
EmitsAck(r, due) == ~r.parked /\ (~r.started \/ r.force \/ Asked(r, due) # {})

\* i_rant_transport_deliver_parked: the consumer has room again
Unpark(r, acc) == Deliver([r EXCEPT !.parked = FALSE], acc)

=============================================================================
