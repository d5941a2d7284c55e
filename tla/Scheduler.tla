------------------------------ MODULE Scheduler --------------------------------
(***************************************************************************)
(* What decides which lane sends next (src/transport/sched.c) and the pool *)
(* its records live in (core.c).  A lane that has work is on the list of   *)
(* its destination, and the destination in a queue; timers are found by an *)
(* amortized sweep and by the earliest armed deadline.  Lists and free     *)
(* list go through one link in the record.  What a lane says is reduced to *)
(* what it owes: the next sample, a repair, an ack, a heartbeat.  Samples  *)
(* have one fragment and no addressee, and a datagram holds Room of them.  *)
(***************************************************************************)
EXTENDS Integers, Sequences, FiniteSets, FiniteSetsExt, SequencesExt, TLC

CONSTANTS
    Dests,         \* the peer slots
    Topics,        \* the topics, in their order
    Reliable,      \* those whose qos is reliable
    FirstPool,     \* records in the first pool, 8 in the code
    MaxPool,       \* bound: records in all
    Depth,         \* keep_last
    Room,          \* submessages in one datagram
    SweepTime,     \* RANT_HB_SWEEP_US
    HbTime, TailTime, AckTime, RepairTime, RateTime,   \* the intervals of the timers
    MaxTime,       \* bound: the clock
    MaxEvents      \* bound: what happens beside the polls and the clock

VARIABLES
    sch,           \* the scheduler and the pool
    used,          \* peer_used
    dormant,       \* peer_dormant
    now,           \* the clock
    left           \* events left

schVars == <<sch, used, dormant, now, left>>

Nil   == 0
Never == MaxTime + HbTime + TailTime + AckTime + RepairTime + RateTime
Record == 1 .. MaxPool
NoLane == [use |-> FALSE, topic |-> 0, peer |-> Nil, link |-> Nil, queued |-> FALSE,
           w |-> FALSE, new |-> 0, evicted |-> FALSE, repair |-> FALSE, behind |-> FALSE,
           hb |-> 0, pace |-> FALSE, rate |-> 0, r |-> FALSE, ack |-> Never, hole |-> FALSE,
           slept |-> FALSE]        \* history: the peer was dormant at some time

SchInit ==
    /\ sch = [lane |-> [l \in Record |-> NoLane], cap |-> 0, free |-> Nil,
              head |-> [d \in Dests |-> Nil], tail |-> [d \in Dests |-> Nil], destq |-> <<>>,
              cursor |-> 1, swept |-> 0, next |-> Never]
    /\ used = [d \in Dests |-> FALSE]
    /\ dormant = [d \in Dests |-> FALSE]
    /\ now = 0
    /\ left = MaxEvents

Lanes(s) == {l \in Record : s.lane[l].use}
Find(s, c, d) == {l \in Lanes(s) : s.lane[l].topic = c /\ s.lane[l].peer = d}
Rel(s, l) == s.lane[l].topic \in Reliable
Awake(s, l) == used[s.lane[l].peer] /\ ~dormant[s.lane[l].peer]

----------------------------------------------------------------------------
(* The lists.                                                              *)

Arm(s, t) == IF t # 0 /\ t < s.next THEN [s EXCEPT !.next = t] ELSE s

DestPush(s, d) == IF d \in Range(s.destq) THEN s ELSE [s EXCEPT !.destq = Append(@, d)]

\* l at the end of its destination's list.
Linked(s, l) ==
    LET d == s.lane[l].peer IN
    IF s.head[d] = Nil
    THEN [s EXCEPT !.lane[l].link = Nil, !.head[d] = l, !.tail[d] = l]
    ELSE [s EXCEPT !.lane = [@ EXCEPT ![l].link = Nil, ![s.tail[d]].link = l], !.tail[d] = l]
Enqueue(s, l) ==
    IF s.lane[l].queued THEN s
    ELSE DestPush(Linked([s EXCEPT !.lane[l].queued = TRUE], l), s.lane[l].peer)

\* i_rant_lane_wake: the ack's deadline, and the queue.
Wake(s, l) == Enqueue(IF s.lane[l].r /\ s.lane[l].ack # Never THEN Arm(s, s.lane[l].ack) ELSE s, l)

\* The records from l on, following the links.
RECURSIVE Chain(_, _)
Chain(s, l) == IF l = Nil THEN <<>> ELSE <<l>> \o Chain(s, s.lane[l].link)

\* mutant: the record is marked idle and left on the list
SchedDropFlag(s, l) == [s EXCEPT !.lane[l].queued = FALSE]
\* A record that is recycled leaves its destination's list first, i_rant_sched_drop.
SchedDrop(s, l) ==
    LET d == s.lane[l].peer  list == Chain(s, s.head[d])
        i == CHOOSE k \in DOMAIN list : list[k] = l
        prev == IF i = 1 THEN Nil ELSE list[i - 1]
        cut == IF prev = Nil THEN [s EXCEPT !.head[d] = s.lane[l].link]
               ELSE [s EXCEPT !.lane[prev].link = s.lane[l].link] IN
    IF ~s.lane[l].queued THEN s
    ELSE [cut EXCEPT !.tail[d] = IF @ = l THEN prev ELSE @, !.lane[l].queued = FALSE, !.lane[l].link = Nil]

\* i_rant_lane_ensure: the pool doubles when it is dry; a free record is taken.
Grown(s) ==
    LET cap == IF s.cap = 0 THEN FirstPool ELSE 2 * s.cap IN
    IF s.free # Nil THEN s
    ELSE [s EXCEPT !.cap = cap, !.free = s.cap + 1,
                   !.lane = [l \in Record |-> IF l \in s.cap + 1 .. cap
                                              THEN [@[l] EXCEPT !.link = IF l = cap THEN Nil ELSE l + 1] ELSE @[l]]]
Ensured(s, c, d) ==
    LET g == Grown(s)  l == g.free IN
    IF Find(s, c, d) # {} THEN [s |-> s, l |-> CHOOSE x \in Find(s, c, d) : TRUE]
    ELSE [s |-> [g EXCEPT !.free = g.lane[l].link,
                          !.lane[l] = [NoLane EXCEPT !.use = TRUE, !.topic = c, !.peer = d, !.slept = dormant[d]]], l |-> l]
Fits(s, c, d) == Find(s, c, d) # {} \/ s.free # Nil \/ s.cap = 0 \/ 2 * s.cap <= MaxPool

\* i_rant_lane_release: with neither side matched the record is recycled.
Release(s, l) ==
    LET k == SchedDrop(s, l) IN
    IF s.lane[l].w \/ s.lane[l].r THEN s
    ELSE [k EXCEPT !.lane[l].use = FALSE, !.lane[l].link = k.free, !.free = l]

----------------------------------------------------------------------------
(* What gives a lane work.                                                 *)

Event == left > 0 /\ left' = left - 1

PeerAdd(d) == ~used[d] /\ used' = [used EXCEPT ![d] = TRUE] /\ UNCHANGED <<sch, dormant, now, left>>

\* The writer side, which may owe history it replays to a reliable reader. A best-effort
\* reader may ask for a rate.
MatchWriter(c, d, history, pace) ==
    LET e == Ensured(sch, c, d)  l == e.l IN
    /\ Event /\ used[d] /\ Fits(sch, c, d) /\ ~e.s.lane[l].w
    /\ IF c \in Reliable THEN ~pace ELSE history = 0
    /\ sch' = Wake([e.s EXCEPT !.lane[l] = [@ EXCEPT !.w = TRUE, !.new = history, !.evicted = FALSE, !.repair = FALSE,
                                                     !.behind = history > 0, !.hb = 0, !.pace = pace, !.rate = 0]], l)
    /\ UNCHANGED <<used, dormant, now>>

\* The reader side; a reliable one announces itself once.
MatchReader(c, d) ==
    LET e == Ensured(sch, c, d)  l == e.l
        m == [e.s EXCEPT !.lane[l] = [@ EXCEPT !.r = TRUE, !.hole = FALSE, !.ack = IF c \in Reliable THEN 0 ELSE Never]] IN
    /\ Event /\ used[d] /\ Fits(sch, c, d) /\ ~e.s.lane[l].r
    /\ sch' = IF c \in Reliable THEN Wake(m, l) ELSE m
    /\ UNCHANGED <<used, dormant, now>>

Unmatch(l, writer) ==
    /\ Event
    /\ IF writer THEN sch.lane[l].w ELSE sch.lane[l].r
    /\ sch' = Release(IF writer THEN [sch EXCEPT !.lane[l].w = FALSE]
                      ELSE [sch EXCEPT !.lane[l].r = FALSE], l)
    /\ UNCHANGED <<used, dormant, now>>

PeerRemove(d) ==
    LET Gone(s, l) == Release([s EXCEPT !.lane[l].w = FALSE, !.lane[l].r = FALSE], l)
        mine == SetToSortSeq({l \in Lanes(sch) : sch.lane[l].peer = d},
                             LAMBDA x, y : sch.lane[x].topic < sch.lane[y].topic) IN
    /\ Event /\ used[d]
    /\ sch' = FoldLeft(Gone, sch, mine)
    /\ used' = [used EXCEPT ![d] = FALSE]
    /\ dormant' = [dormant EXCEPT ![d] = FALSE]
    /\ UNCHANGED now

PeerDormant(d) ==
    /\ Event /\ used[d] /\ ~dormant[d]
    /\ dormant' = [dormant EXCEPT ![d] = TRUE]
    /\ sch' = [sch EXCEPT !.lane = [l \in Record |-> [@[l] EXCEPT !.slept = @ \/ (sch.lane[l].use /\ sch.lane[l].peer = d)]]]
    /\ UNCHANGED <<used, now>>

\* A peer that is back: its reliable lanes report and send again.
PeerResume(d) ==
    LET Back(s, c) ==
            LET l == CHOOSE x \in Find(s, c, d) : TRUE IN
            IF Find(s, c, d) = {} \/ c \notin Reliable THEN s
            ELSE Wake(IF s.lane[l].r THEN [s EXCEPT !.lane[l].ack = 0] ELSE s, l) IN
    /\ Event /\ dormant[d]
    /\ dormant' = [dormant EXCEPT ![d] = FALSE]
    /\ sch' = FoldLeft(Back, sch, SetToSortSeq(Topics, <))
    /\ UNCHANGED <<used, now>>

\* A commit wakes the writer lanes of the topic whose peers are awake. A lane behind by
\* the whole history loses its oldest sample unsent.
Send(c) ==
    LET Adds(s, l) ==
            LET o == s.lane[l]
                n == [s EXCEPT !.lane[l] = [@ EXCEPT !.new = IF @ < Depth THEN @ + 1 ELSE @, !.evicted = @ \/ o.new = Depth,
                                                     !.behind = c \in Reliable]] IN
            IF ~o.w THEN s ELSE IF dormant[o.peer] THEN n ELSE Enqueue(n, l) IN
    /\ Event
    /\ sch' = FoldLeft(Adds, sch, SetToSeq({l \in Lanes(sch) : sch.lane[l].topic = c}))
    /\ UNCHANGED <<used, dormant, now>>

\* An ACKNACK comes in: all received, or a repair is asked for.
RecvAck(l, nack) ==
    /\ Event /\ sch.lane[l].w /\ Rel(sch, l)
    /\ sch' = IF nack THEN Wake([sch EXCEPT !.lane[l].repair = TRUE], l)
              ELSE [sch EXCEPT !.lane[l].behind = sch.lane[l].new > 0]
    /\ UNCHANGED <<used, dormant, now>>

\* Data comes in and is acked at once, or one tick later, or is a hole to have repaired.
RecvData(l, asked, hole) ==
    LET o == sch.lane[l] IN
    /\ Event /\ o.r /\ Rel(sch, l)
    /\ hole => asked
    /\ sch' = IF asked THEN Wake([sch EXCEPT !.lane[l].ack = 0, !.lane[l].hole = hole], l)
              ELSE IF o.ack # Never THEN sch
              ELSE Arm([sch EXCEPT !.lane[l].ack = now + AckTime, !.lane[l].hole = FALSE], now + AckTime)
    /\ UNCHANGED <<used, dormant, now>>

----------------------------------------------------------------------------
(* Sending.                                                                *)

\* A throttled lane between two ticks, i_rant_writer_paced.
Paced(s, l) == s.lane[l].pace /\ now < s.lane[l].rate

\* i_rant_lane_work: what a record still owes now.
Work(s, l) ==
    /\ Awake(s, l)
    /\ \/ s.lane[l].w /\ s.lane[l].repair
       \/ s.lane[l].w /\ s.lane[l].new > 0 /\ ~Paced(s, l)
       \/ s.lane[l].r /\ Rel(s, l) /\ s.lane[l].ack <= now

\* One submessage of a lane, acks first: the scheduler after it, and whether it sent.
Said(s)   == [s |-> s, n |-> 1]
Silent(s) == [s |-> s, n |-> 0]
Beats(s, l) == Arm([s EXCEPT !.lane[l].hb = now + HbTime], now + HbTime)
\* The queue just drained: the next heartbeat comes within the tail window.
ArmTail(s, l) ==
    LET tail == now + TailTime
        hb == IF s.lane[l].hb <= now \/ s.lane[l].hb > tail THEN tail ELSE s.lane[l].hb IN
    Arm([s EXCEPT !.lane[l].hb = hb], hb)
EmitReader(s, l) ==
    LET due == now + RepairTime IN
    Said(IF s.lane[l].hole THEN Arm([s EXCEPT !.lane[l].ack = due], due)      \* the backstop
                           ELSE [s EXCEPT !.lane[l].ack = Never])
EmitNew(s, l) ==
    LET o == s.lane[l]  tick == now + RateTime IN
    IF o.pace
    THEN IF now < o.rate THEN Silent(Arm(s, o.rate))
         ELSE Said(Arm([s EXCEPT !.lane[l] = [@ EXCEPT !.new = 0, !.evicted = FALSE, !.rate = tick]], tick))
    ELSE IF o.evicted                      \* a heartbeat skips the reader, or it sees the loss
    THEN IF ~Rel(s, l) THEN Silent([s EXCEPT !.lane[l].evicted = FALSE])
                          ELSE Said(Beats([s EXCEPT !.lane[l].evicted = FALSE], l))
    ELSE LET sent == [s EXCEPT !.lane[l].new = @ - 1] IN
         Said(IF Rel(s, l) /\ o.new = 1 THEN ArmTail(sent, l) ELSE sent)
Emit(s, l) ==
    LET o == s.lane[l] IN
    IF ~Awake(s, l) THEN Silent(s)
    ELSE IF o.r /\ Rel(s, l) /\ o.ack <= now THEN EmitReader(s, l)
    ELSE IF ~o.w THEN Silent(s)
    ELSE IF o.repair THEN Said([s EXCEPT !.lane[l].repair = FALSE])
    ELSE IF o.new > 0 THEN EmitNew(s, l)
    ELSE IF Rel(s, l) /\ o.behind /\ o.hb <= now THEN Said(Beats(s, l))
    ELSE Silent(s)

\* A lane emits until it is done or the datagram is full.
RECURSIVE Emits(_, _, _)
Emits(s, l, room) ==
    LET e == Emit(s, l) IN
    IF room = 0 THEN [s |-> s, room |-> 0]
    ELSE IF e.n = 0 THEN [s |-> e.s, room |-> room] ELSE Emits(e.s, l, room - 1)

\* A destination's lanes, into one datagram. A lane that still has work goes to the back,
\* and the destination with it.
RECURSIVE Drains(_, _, _)
Drains(s, d, room) ==
    LET l == s.head[d]
        e == Emits(s, l, room)
        rest == [e.s EXCEPT !.head[d] = e.s.lane[l].link] IN
    IF l = Nil THEN [s |-> s, room |-> room]
    ELSE IF Work(e.s, l) THEN [s |-> DestPush(Linked(rest, l), d), room |-> e.room]
    ELSE Drains([rest EXCEPT !.lane[l].queued = FALSE], d, e.room)

\* The timers of a record: those due enqueue it, the others bound the deadline.
Timers(s, l) ==
    LET o == s.lane[l] IN
    IF ~o.use \/ ~Awake(s, l) THEN {}
    ELSE (IF o.w /\ o.pace /\ o.new > 0 THEN {o.rate} ELSE {})
         \cup (IF Rel(s, l) /\ o.w /\ o.behind THEN {o.hb} ELSE {})
         \cup (IF Rel(s, l) /\ o.r /\ o.ack # Never THEN {o.ack} ELSE {})
Due(s, total) ==
    IF now >= s.next \/ now - s.swept >= SweepTime THEN total ELSE ((now - s.swept) * total) \div SweepTime
\* i_rant_hb_sweep: the cursor walks as much of the pool as the time since the last walk
\* pays for, all of it when a deadline is due.
Swept(s) ==
    LET due == Due(s, s.cap)
        walk == [k \in 1 .. due |-> ((s.cursor - 1 + k - 1) % s.cap) + 1]
        Wakes(t, l) == IF \E x \in Timers(s, l) : x <= now THEN Enqueue(t, l) ELSE t
        ahead == {x \in UNION {Timers(s, l) : l \in Range(walk)} : x > now}
        t == FoldLeft(Wakes, [s EXCEPT !.swept = now], walk) IN
    IF s.cap = 0 THEN [s EXCEPT !.swept = now, !.next = IF now >= @ THEN Never ELSE @]
    ELSE IF due = 0 THEN s
    ELSE [t EXCEPT !.cursor = ((@ - 1 + due) % s.cap) + 1,
                   !.next = IF due >= s.cap THEN Min(ahead \cup {Never}) ELSE @]

\* One datagram: the first destination in the queue with something to say.
RECURSIVE Pulled(_)
Pulled(s) ==
    IF s.destq = <<>> THEN s
    ELSE LET d == Head(s.destq)
             e == Drains([s EXCEPT !.destq = Tail(@)], d, Room) IN
         IF e.room < Room \/ e.s.head[d] # Nil THEN e.s ELSE Pulled(e.s)
PollSend == sch' = Pulled(Swept(sch)) /\ UNCHANGED <<used, dormant, now, left>>

\* The arena grows: the pool is kept, the lists are made anew.
Migrate ==
    LET bare == [sch EXCEPT !.lane = [l \in Record |-> IF @[l].use THEN [@[l] EXCEPT !.queued = FALSE, !.link = Nil] ELSE @[l]],
                            !.head = [d \in Dests |-> Nil], !.tail = [d \in Dests |-> Nil], !.destq = <<>>,
                            !.cursor = 1, !.swept = 0]
        order == SetToSortSeq(Lanes(sch), LAMBDA x, y :
                     LET a == sch.lane[x] b == sch.lane[y] IN a.topic < b.topic \/ (a.topic = b.topic /\ a.peer < b.peer)) IN
    /\ Event
    /\ sch' = [FoldLeft(Wake, bare, order) EXCEPT !.next = 0]
    /\ UNCHANGED <<used, dormant, now>>

Tick == now < MaxTime /\ now' = now + 1 /\ UNCHANGED <<sch, used, dormant, left>>

SchNext ==
    \/ \E d \in Dests : PeerAdd(d) \/ PeerRemove(d) \/ PeerDormant(d) \/ PeerResume(d)
    \/ \E c \in Topics : Send(c) \/ \E d \in Dests : MatchReader(c, d) \/ \E h \in 0 .. 1, pace \in BOOLEAN : MatchWriter(c, d, h, pace)
    \/ \E l \in Lanes(sch) :
          \/ \E side \in BOOLEAN : Unmatch(l, side)
          \/ \E nack \in BOOLEAN : RecvAck(l, nack)
          \/ \E asked, hole \in BOOLEAN : RecvData(l, asked, hole)
    \/ PollSend
    \/ Migrate
    \/ Tick

SchSpec == SchInit /\ [][SchNext]_schVars

----------------------------------------------------------------------------
(* Properties.                                                             *)

\* Each list holds exactly the queued lanes of its destination and ends at its tail, a
\* destination with lanes is queued, and every other record is free, once: a record is
\* never recycled on another destination's list, where it would misroute.
RECURSIVE Follow(_, _, _)
Follow(s, l, n) == IF l = Nil \/ n = 0 THEN <<>> ELSE <<l>> \o Follow(s, s.lane[l].link, n - 1)
ListsSound ==
    /\ \A d \in Dests :
          LET list == Follow(sch, sch.head[d], MaxPool + 1) IN
          /\ Len(list) = Cardinality(Range(list))
          /\ Range(list) = {l \in Lanes(sch) : sch.lane[l].queued /\ sch.lane[l].peer = d}
          /\ list # <<>> => sch.tail[d] = Last(list) /\ d \in Range(sch.destq)
    /\ LET free == Follow(sch, sch.free, MaxPool + 1) IN
       Len(free) = Cardinality(Range(free)) /\ Range(free) = 1 .. sch.cap \ Lanes(sch)

\* A lane that can send at once is queued: whatever gave it work also woke it, and the poll
\* that takes it off the list leaves it nothing to send. A best-effort lane that slept is
\* woken by its next sample.
WorkQueued ==
    \A l \in Lanes(sch) :
        LET o == sch.lane[l] IN
        /\ Awake(sch, l) /\ (Rel(sch, l) \/ ~o.slept)
        /\ (o.w /\ (o.repair \/ (o.new > 0 /\ ~o.pace))) \/ (o.r /\ o.ack = 0)
        => o.queued

\* A lane that can send later is found in time: its timer is not before the earliest armed
\* deadline, at which a poll walks the whole pool. A lane that slept is left to the slow
\* sweep, for a walk meanwhile did not count its timers and none is armed when it is back.
TimersTracked ==
    \A l \in Lanes(sch) : ~sch.lane[l].slept /\ ~sch.lane[l].queued =>
        \A x \in Timers(sch, l) : x > now => sch.next <= x

\* No lane is forgotten and none is sent to another's peer.
NothingForgotten == ListsSound /\ WorkQueued /\ TimersTracked

\* A wait is capped at the earliest timer (spec/transport.md, Scheduling), as
\* i_rant_transport_next_deadline_us tells it: 0 is none. Not so after a migrate, nor for
\* a heartbeat that was due and found no room in the datagram.
WaitCapped ==
    \A l \in Lanes(sch) : ~sch.lane[l].slept /\ ~sch.lane[l].queued =>
        \A x \in Timers(sch, l) : sch.next # 0 /\ sch.next <= x

=============================================================================
