---------------------------- MODULE ReliableTopic ----------------------------
(***************************************************************************)
(* One reliable topic: a writer with its history (WriterLane), its readers *)
(* (ReaderLane) and the datagrams in flight between them.  UDP may lose,   *)
(* reorder and duplicate.  Both sides match and unmatch on their own, as   *)
(* their discovery tells them, so a reader can be a new incarnation while  *)
(* the writer's lane survives and the other way round.                     *)
(***************************************************************************)
EXTENDS WriterLane, ReaderLane, FiniteSets

CONSTANTS
    FragCounts,    \* fragments a sample may take
    Patient,       \* the backpressure wait of a send never elapses
    Accepts,       \* samples a consumer takes before it refuses one, of 0 .. 2
    MemChoices,    \* may the allocation for a reassembly buffer fail
    AskChoices,    \* may the last fragment of a sample ask for an ack
    Duplicates,    \* may the network duplicate a datagram
    FreshWindow,   \* is the first-match window used
    Sleeps,        \* may a side take its peer for dormant
    WriterForgets, \* may the writer unmatch a reader
    MaxSamples,    \* bound: samples sent
    MaxEpoch,      \* bound: reader incarnations, over all readers
    MaxData,       \* bound: fragments in flight on one lane
    MaxHbs,        \* bound: heartbeats in flight on one lane
    MaxAcks        \* bound: ACKNACKs in flight on one lane

ASSUME TopicAssumption ==
    /\ Directed => CatchUp = 0          \* topic_define refuses the combination
    /\ FragCounts \subseteq Nat \ {0}
    /\ Accepts \subseteq 0 .. 2
    /\ MemChoices \subseteq BOOLEAN /\ AskChoices \subseteq BOOLEAN
    /\ {Patient, Duplicates, FreshWindow, Sleeps, WriterForgets} \subseteq BOOLEAN
    /\ {MaxSamples, MaxEpoch, MaxData, MaxHbs, MaxAcks} \subseteq Nat

VARIABLES
    topic,         \* i_RantTopic: history, next_seqno and the first-match window
    writer,        \* i_RantWriterProxy of each reader, in the writer's process
    reader,        \* i_RantReaderProxy, in each reader's process
    wDormant,      \* peer_dormant in the writer's process
    rDormant,      \* peer_dormant in each reader's process
    epochs,        \* reader_epoch_counter
    net,           \* datagrams in flight
    join           \* history: where the writer last (re)joined each reader

vars == <<topic, writer, reader, wDormant, rDormant, epochs, net, join>>

-----------------------------------------------------------------------------
(* Datagrams (src/transport/wire.c). *)

DataMsg(p, s, x, ask) ==
    [type |-> "data", lane |-> p, seq |-> x, base |-> s.base, count |-> s.count, ask |-> ask]

HbMsg(p, first, last) == [type |-> "hb", lane |-> p, first |-> first, last |-> last]

NackMsg(p, base, bits, epoch, unpos) ==
    [type |-> "nack", lane |-> p, base |-> base, bits |-> bits, epoch |-> epoch, unpos |-> unpos]

Message ==
         [type : {"data"}, lane : Readers, seq : Nat, base : Nat, count : Nat \ {0}, ask : BOOLEAN]
    \cup [type : {"hb"}, lane : Readers, first : Nat, last : Nat]
    \cup [type : {"nack"}, lane : Readers, base : Nat, bits : SUBSET Nat, epoch : Nat, unpos : BOOLEAN]

\* the network has room for one more datagram m
HasRoom(m) ==
    Cardinality({k \in net : k.lane = m.lane /\ k.type = m.type})
        < CASE m.type = "data" -> MaxData [] m.type = "hb" -> MaxHbs [] m.type = "nack" -> MaxAcks

\* the network hands a datagram over, and may keep a copy of it
Taken(m) == net' \in {net \ {m}} \cup (IF Duplicates THEN {net} ELSE {})

-----------------------------------------------------------------------------
Init ==
    /\ topic = EmptyTopic
    /\ writer = [p \in Readers |-> NoWriter]
    /\ reader = [p \in Readers |-> NoReader]
    /\ wDormant = [p \in Readers |-> FALSE]
    /\ rDormant = [p \in Readers |-> FALSE]
    /\ epochs = 1
    /\ net = {}
    /\ join = [p \in Readers |-> 0]

(* ---- The application and discovery, in the writer's process. ---- *)

\* i_rant_writer_send and commit, with the node's flow control wait before it.
\* A send nobody subscribes and nothing retains is dropped before the history.
Send(count, dest) ==
    /\ Len(topic.smp) < MaxSamples
    /\ Patient => \A p \in Readers : ~wDormant[p] => ~Owed(topic, p, writer[p])
    /\ CatchUp > 0 \/ \E p \in Readers : writer[p].used
    /\ topic' = Seal(topic, count, dest)
    /\ writer' = [p \in Readers |->
                    IF writer[p].used /\ ~wDormant[p] /\ dest \notin {DestAll, p}
                    THEN LaneAdvance(topic', p, writer[p]) ELSE writer[p]]
    /\ UNCHANGED <<reader, wDormant, rDormant, epochs, net, join>>

\* i_rant_transport_topic_fresh: the first-match window opens and closes
SetFresh(open) ==
    /\ FreshWindow
    /\ topic.fresh # open
    /\ topic' = [topic EXCEPT !.fresh = open,
                              !.freshFrom = IF open THEN NextSeqno(topic) ELSE @]
    /\ UNCHANGED <<writer, reader, wDormant, rDormant, epochs, net, join>>

WriterMatch(p) ==
    /\ ~writer[p].used
    /\ writer' = [writer EXCEPT ![p] = JoinedAt(JoinSeqno(topic))]
    /\ join' = [join EXCEPT ![p] = JoinSeqno(topic)]
    /\ UNCHANGED <<topic, reader, wDormant, rDormant, epochs, net>>

WriterUnmatch(p) ==
    /\ WriterForgets
    /\ writer[p].used
    /\ writer' = [writer EXCEPT ![p] = NoWriter]
    /\ UNCHANGED <<topic, reader, wDormant, rDormant, epochs, net, join>>

\* i_rant_transport_peer_dormant and peer_resume, as the writer sees its peer
WriterSleep(p) ==
    /\ Sleeps
    /\ wDormant' = [wDormant EXCEPT ![p] = ~@]
    /\ UNCHANGED <<topic, writer, reader, rDormant, epochs, net, join>>

(* ---- The writer's emit: repair, then an owed floor, then new data. ---- *)

Emittable(p) == writer[p].used /\ ~wDormant[p]

Emit(p, w, m) ==
    /\ HasRoom(m)
    /\ writer' = [writer EXCEPT ![p] = w]
    /\ net' = net \cup {m}
    /\ UNCHANGED <<topic, reader, wDormant, rDormant, epochs, join>>

Heartbeat(p, w) == HbMsg(p, HbFirst(topic, w), NextSeqno(topic) - 1)

EmitRepair(p) ==
    LET w == Pruned(topic, p, writer[p])
        x == Min(w.nack)
    IN  /\ Emittable(p)
        /\ w.nack # {}
        /\ Emit(p, Repaired(topic, w),
                IF Found(topic, x) THEN DataMsg(p, Find(topic, x), x, FALSE) ELSE Heartbeat(p, w))

EmitFloor(p) ==
    LET w == Pruned(topic, p, writer[p])
    IN  /\ Emittable(p)
        /\ w.nack = {} /\ w.skipHb
        /\ Emit(p, [w EXCEPT !.skipHb = FALSE], Heartbeat(p, w))

\* the last fragment of a sample may ask for an ack at once
EmitPush(p, ask) ==
    LET w == Pruned(topic, p, writer[p])
        x == w.sent
    IN  /\ Emittable(p)
        /\ w.nack = {} /\ ~w.skipHb
        /\ x < NextSeqno(topic)
        /\ ask => Found(topic, x) /\ x + 1 = EndOf(Find(topic, x))
        /\ Emit(p, Pushed(topic, w),
                IF Found(topic, x) THEN DataMsg(p, Find(topic, x), x, ask)
                                   ELSE Heartbeat(p, Pushed(topic, w)))

\* Mutant: a lane that acked everything is heartbeaten too.
EmitHeartbeatIdle(p) ==
    LET w == Pruned(topic, p, writer[p])
    IN  /\ Emittable(p)
        /\ w.nack = {} /\ ~w.skipHb
        /\ w.sent >= NextSeqno(topic)
        /\ Emit(p, w, Heartbeat(p, w))

\* the timed heartbeat of a reader that is behind
EmitHeartbeat(p) ==
    LET w == Pruned(topic, p, writer[p])
    IN  /\ Emittable(p)
        /\ w.nack = {} /\ ~w.skipHb
        /\ w.sent >= NextSeqno(topic)
        /\ w.acked < NextSeqno(topic)
        /\ Emit(p, w, Heartbeat(p, w))

\* i_rant_writer_nack
RecvNack(m) ==
    LET p == m.lane
        w == writer[p]
    IN  /\ m \in net /\ m.type = "nack"
        /\ Taken(m)
        /\ writer' = [writer EXCEPT ![p] = IF w.used THEN WriterNack(topic, p, w, m) ELSE w]
        /\ join' = [join EXCEPT ![p] = IF w.used /\ w.epoch \notin {0, m.epoch}
                                       THEN Smaller(w.acked, JoinSeqno(topic)) ELSE @]
        /\ UNCHANGED <<topic, reader, wDormant, rDormant, epochs>>

(* ---- The reader's process. ---- *)

ReaderMatch(p) ==
    /\ ~reader[p].used
    /\ epochs <= MaxEpoch
    /\ reader' = [reader EXCEPT ![p] = Matched(epochs)]
    /\ epochs' = epochs + 1
    /\ UNCHANGED <<topic, writer, wDormant, rDormant, net, join>>

ReaderUnmatch(p) ==
    /\ reader[p].used
    /\ epochs <= MaxEpoch
    /\ reader' = [reader EXCEPT ![p] = NoReader]
    /\ UNCHANGED <<topic, writer, wDormant, rDormant, epochs, net, join>>

\* a resumed reader re-reports its position
ReaderSleep(p) ==
    /\ Sleeps
    /\ rDormant' = [rDormant EXCEPT ![p] = ~@]
    /\ reader' = [reader EXCEPT ![p] = IF rDormant[p] /\ @.used THEN AckNow(@, TRUE) ELSE @]
    /\ UNCHANGED <<topic, writer, wDormant, epochs, net, join>>

RecvData(m, mem, acc) ==
    LET p == m.lane
    IN  /\ m \in net /\ m.type = "data"
        /\ Taken(m)
        /\ reader' = [reader EXCEPT ![p] = IF @.used THEN ReaderData(@, m, mem, acc) ELSE @]
        /\ UNCHANGED <<topic, writer, wDormant, rDormant, epochs, join>>

RecvHb(m, acc) ==
    LET p == m.lane
    IN  /\ m \in net /\ m.type = "hb"
        /\ Taken(m)
        /\ reader' = [reader EXCEPT ![p] = IF @.used THEN ReaderHb(@, m, acc) ELSE @]
        /\ UNCHANGED <<topic, writer, wDormant, rDormant, epochs, join>>

\* i_rant_reader_emit of an armed lane: a cumulative ack and what it asks for,
\* or the bare epoch of an unpositioned reader, or nothing worth a datagram
AckOf(p, r, due) ==
    IF r.started THEN NackMsg(p, FirstMissing(r), Asked(r, due), r.epoch, FALSE)
                 ELSE NackMsg(p, r.upto, {}, r.epoch, TRUE)

ReaderEmit(p, due) ==
    LET r == reader[p]
    IN  /\ r.used /\ ~rDormant[p] /\ r.pend
        /\ EmitsAck(r, due) => HasRoom(AckOf(p, r, due))
        /\ reader' = [reader EXCEPT ![p] = AfterEmit(r, due)]
        /\ net' = net \cup (IF EmitsAck(r, due) THEN {AckOf(p, r, due)} ELSE {})
        /\ UNCHANGED <<topic, writer, wDormant, rDormant, epochs, join>>

\* i_rant_transport_deliver_parked
ReaderUnpark(p, acc) ==
    /\ reader[p].used /\ reader[p].parked
    /\ acc > 0
    /\ reader' = [reader EXCEPT ![p] = Unpark(@, acc)]
    /\ UNCHANGED <<topic, writer, wDormant, rDormant, epochs, net, join>>

Lose(m) ==
    /\ m \in net
    /\ net' = net \ {m}
    /\ UNCHANGED <<topic, writer, reader, wDormant, rDormant, epochs, join>>

-----------------------------------------------------------------------------
WriterNext ==
    \/ \E n \in FragCounts, d \in Dests : Send(n, d)
    \/ \E b \in BOOLEAN : SetFresh(b)
    \/ \E p \in Readers : \/ WriterMatch(p) \/ WriterUnmatch(p) \/ WriterSleep(p)
                          \/ EmitRepair(p) \/ EmitFloor(p) \/ EmitHeartbeat(p)
                          \/ \E ask \in AskChoices : EmitPush(p, ask)
    \/ \E m \in net : RecvNack(m)

ReaderNext ==
    \/ \E p \in Readers : \/ ReaderMatch(p) \/ ReaderUnmatch(p) \/ ReaderSleep(p)
                          \/ \E due \in BOOLEAN : ReaderEmit(p, due)
                          \/ \E acc \in Accepts : ReaderUnpark(p, acc)
    \/ \E m \in net, acc \in Accepts : \/ RecvHb(m, acc)
                                       \/ \E mem \in MemChoices : RecvData(m, mem, acc)

Next == WriterNext \/ ReaderNext \/ \E m \in net : Lose(m)

Spec == Init /\ [][Next]_vars

-----------------------------------------------------------------------------
TypeOK ==
    /\ topic \in TopicState
    /\ writer \in [Readers -> WriterState]
    /\ reader \in [Readers -> ReaderState]
    /\ wDormant \in [Readers -> BOOLEAN]
    /\ rDormant \in [Readers -> BOOLEAN]
    /\ epochs \in Nat
    /\ net \subseteq Message
    /\ join \in [Readers -> Nat]

\* The seqnos a reader has handed to its application in this incarnation.
DeliveredSeqnos(r) == {s \in 0 .. r.upto : \E i \in 1 .. Len(r.log) : Covers(r.log[i], s)}

\* In order, exactly once: within one incarnation samples are handed up in
\* ascending order without overlap, all below deliver_upto, whatever the network
\* duplicated or reordered and however the lane was parked or skipped.
InOrderOnce ==
    \A p \in Readers : LET r == reader[p] IN
        /\ \A i, j \in 1 .. Len(r.log) : i < j => EndOf(r.log[i]) <= r.log[j].base
        /\ \A i \in 1 .. Len(r.log) : EndOf(r.log[i]) <= r.upto

\* What is handed up is exactly a sample the writer sealed, whole, and on a
\* directed topic one that was addressed to this peer or to all.
OnlyOwnSamples ==
    \A p \in Readers : \A i \in 1 .. Len(reader[p].log) :
        \E k \in 1 .. Len(topic.smp) :
            /\ topic.smp[k].base = reader[p].log[i].base
            /\ topic.smp[k].count = reader[p].log[i].count
            /\ ~Foreign(topic.smp[k], p)

\* Nothing is lost silently: from the position a reader adopted up to
\* deliver_upto, every seqno was either delivered or reported lost, never both.
NoSilentLoss ==
    ~Directed => \A p \in Readers : LET r == reader[p] IN
        /\ DeliveredSeqnos(r) \cap r.lost = {}
        /\ r.started => r.start .. (r.upto - 1) \subseteq DeliveredSeqnos(r) \cup r.lost

\* The writer's acked edge never runs ahead of the reader it believes to talk to:
\* past the join point, what counts as acked (and so may be evicted without
\* backpressure) is what that incarnation received or was told to skip.
AckedIsReceived ==
    ~Directed => \A p \in Readers : LET r == reader[p] w == writer[p] IN
        (w.used /\ r.used /\ w.epoch = r.epoch) => w.acked <= Larger(FirstMissing(r), join[p])

\* The pending requests of a lane always fit the window of one bitmap word above
\* nack_base, whatever order ACKNACKs cross in: the shifts of the merge drop no
\* request and never set a bit below the base.
RequestsFitWindow ==
    \A p \in Readers : LET w == writer[p] IN
        w.nack \subseteq w.nackBase .. (w.nackBase + NackWindow - 1)

\* deliver_upto always stands between two samples: no floor, echo of an ack or
\* lapped jump leaves a reader inside one, where the rest of the sample would be
\* dropped as old or its tail wait for a head that is never resent.
WholeSamples ==
    \A p \in Readers : LET r == reader[p] IN
        r.started => r.upto \in {0, NextSeqno(topic)} \cup {topic.smp[k].base : k \in 1 .. Len(topic.smp)}

\* As long as no send outlasts the backpressure wait, a reader gets every sample
\* addressed to it from its start on: only what every live reader acked is
\* evicted, and neither the floor, nor the echo of its own ack, nor a directed
\* step-over makes it skip what it still needs.
AllDelivered ==
    \A p \in Readers : LET r == reader[p] IN
        \A k \in 1 .. Len(topic.smp) : LET s == topic.smp[k] IN
            (r.started /\ r.start <= s.base /\ s.base < r.upto /\ ~Foreign(s, p))
                => \E i \in 1 .. Len(r.log) : r.log[i] = [base |-> s.base, count |-> s.count]

\* A reader that joins gets everything from the join point on.
StartsAtJoin ==
    \A p \in Readers : (writer[p].used /\ reader[p].started) => reader[p].start <= join[p]

-----------------------------------------------------------------------------
(* The topic implements OrderedDelivery: what the application sees of a     *)
(* reader is its position, what was handed up and what was reported.        *)

View(r) ==
    [open |-> r.used, placed |-> r.started, start |-> r.start, at |-> r.upto,
     log |-> r.log, lost |-> r.lost]

Abstract == INSTANCE OrderedDelivery
                WITH published <- topic.smp, sub <- [p \in Readers |-> View(reader[p])]

\* Whatever the network, the restarts and the consumer do, a subscription only
\* moves forward, hands up whole samples in order and reports what it passes.
ImplementsOrderedDelivery == Abstract!DSpec

=============================================================================
