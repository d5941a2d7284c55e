----------------------------- MODULE SharedTopic -----------------------------
(***************************************************************************)
(* A reliable topic between processes of one host (src/shm/core.c and the  *)
(* shared memory paths of the node and the lanes): a message too big for   *)
(* one datagram is gathered into a chunk of shared memory and only its     *)
(* descriptor travels.  History slot i binds chunk i of the segment of the *)
(* message's size class.                                                   *)
(*                                                                         *)
(* The writer gathers, and a reader copies, while the other process runs:  *)
(* both take several steps here.  A payload is two parts, each tagged with *)
(* the base of the sample it belongs to.                                   *)
(***************************************************************************)
EXTENDS ReliableTopic

CONSTANTS
    SameHost,      \* the readers that advertise shared memory and our host id
    Classes,       \* the size classes messages fall in
    BigCount,      \* fragments such a message would take
    MaxRetry       \* RANT_SHM_MAX_RETRY: failed resolves before a reader skips

ASSUME SharedAssumption ==
    /\ SameHost \subseteq Readers
    /\ BigCount \in Nat \ {0, 1}
    /\ MaxRetry \in Nat \ {0}

VARIABLES
    chunk,         \* the writer's segments: generation and payload of each chunk
    sent,          \* the descriptor of each sample of topic.smp, Inline if none
    gather,        \* the publish in progress: its class and the parts written
    look,          \* each reader's resolve in progress
    held,          \* parked_shm: the descriptor each reader parked, Inline if none
    fails,         \* shm_fail of each reader
    mapped,        \* shm_reader_segments: what each reader attached
    got            \* history: what each reader handed up through shared memory

shmVars == <<chunk, sent, gather, look, held, fails, mapped, got>>
allVars == <<vars, shmVars>>

Chunks == 0 .. KeepLast - 1
Nobody == -1                                      \* a part never written
Inline == [class |-> "none", chunk |-> 0, gen |-> 0]
Idle   == [at |-> "idle"]

SharedInit ==
    /\ Init
    /\ chunk = [k \in Classes |-> [i \in Chunks |-> [gen |-> 0, parts |-> <<Nobody, Nobody>>]]]
    /\ sent = << >>
    /\ gather = Idle
    /\ look = [p \in Readers |-> Idle]
    /\ held = [p \in Readers |-> Inline]
    /\ fails = [p \in Readers |-> 0]
    /\ mapped = [p \in Readers |-> {}]
    /\ got = [p \in Readers |-> << >>]

-----------------------------------------------------------------------------
(* ---- The publisher, i_rant_node_do_send: one process, one lock. ---- *)

\* i_rant_transport_publisher_shm_eligible: one remote reader forces inline
Eligible ==
    LET live == {p \in Readers : writer[p].used /\ ~wDormant[p]}
    IN  live # {} /\ live \subseteq SameHost

\* the history slot this send occupies, and the chunk it binds
Slot == Len(topic.smp) % KeepLast

\* Mutant: a message that goes through shared memory does not wait for its readers.
MayStartAnyway == Len(topic.smp) < MaxSamples

\* the backpressure wait comes before the first byte is written
MayStart ==
    /\ Len(topic.smp) < MaxSamples
    /\ Patient => \A p \in Readers : ~wDormant[p] => ~Owed(topic, p, writer[p])

\* i_rant_node_shm_topic_pool and i_rant_shm_chunk, then the gather: the first
\* bytes of the payload land in the chunk, whose generation still is the old one
GatherFirst(k) ==
    /\ gather = Idle
    /\ MayStart
    /\ ~Directed /\ Eligible
    /\ gather' = [at |-> "half", class |-> k]
    /\ chunk' = [chunk EXCEPT ![k][Slot].parts[1] = NextSeqno(topic)]
    /\ UNCHANGED <<vars, sent, look, held, fails, mapped, got>>

GatherRest ==
    /\ gather.at = "half"
    /\ gather' = [gather EXCEPT !.at = "full"]
    /\ chunk' = [chunk EXCEPT ![gather.class][Slot].parts[2] = NextSeqno(topic)]
    /\ UNCHANGED <<vars, sent, look, held, fails, mapped, got>>

\* i_rant_shm_stamp bumps the generation, i_rant_shm_desc_encode makes the
\* descriptor and i_rant_transport_send_shm seals it into the history
Stamp ==
    LET g == chunk[gather.class][Slot].gen + 1
    IN  /\ gather.at = "full"
        /\ chunk' = [chunk EXCEPT ![gather.class][Slot].gen = g]
        /\ sent' = Append(sent, [class |-> gather.class, chunk |-> Slot, gen |-> g])
        /\ topic' = Seal(topic, BigCount, DestAll)
        /\ gather' = Idle
        /\ UNCHANGED <<writer, reader, wDormant, rDormant, epochs, net, join, look, held, fails, mapped, got>>

\* a message that fits one datagram, and any message while a reader is remote,
\* goes inline and leaves its chunk alone
SendInline ==
    /\ gather = Idle
    /\ \E n \in {1} \cup (IF Eligible THEN {} ELSE {BigCount}) : Send(n, DestAll)
    /\ sent' = Append(sent, Inline)
    /\ UNCHANGED <<chunk, gather, look, held, fails, mapped, got>>

-----------------------------------------------------------------------------
(* ---- The writer lanes: an SHM-DATA stands for all fragments. ---- *)

\* the sample at seqno x goes to p as a descriptor
ByDesc(p, x) ==
    /\ p \in SameHost
    /\ \E i \in Cached(topic) : Covers(topic.smp[i], x) /\ sent[i] # Inline

DescOf(x) == sent[CHOOSE i \in Cached(topic) : Covers(topic.smp[i], x)]

\* i_rant_wire_mk_shm: a DATA with RANT_F_SHM set
ShmMsg(p, s, d, ask) ==
    [type |-> "data", lane |-> p, seq |-> s.base, base |-> s.base, count |-> s.count, ask |-> ask,
     desc |-> d]
IsShm(m) == "desc" \in DOMAIN m

\* one descriptor answers every request for the sample
RepairShm(p) ==
    LET w == Pruned(topic, p, writer[p])
        s == Find(topic, Min(w.nack))
    IN  /\ gather = Idle
        /\ Emittable(p)
        /\ w.nack # {} /\ ByDesc(p, Min(w.nack))
        /\ Emit(p, WithNack(w, w.nack \ (s.base .. (EndOf(s) - 1)), w.nackBase),
                ShmMsg(p, s, DescOf(s.base), FALSE))
        /\ UNCHANGED shmVars

PushShm(p, ask) ==
    LET w == Pruned(topic, p, writer[p])
        s == Find(topic, w.sent)
    IN  /\ gather = Idle
        /\ Emittable(p)
        /\ w.nack = {} /\ ~w.skipHb
        /\ ByDesc(p, w.sent)
        /\ Emit(p, [w EXCEPT !.sent = EndOf(s)], ShmMsg(p, s, DescOf(s.base), ask))
        /\ UNCHANGED shmVars

\* everything else the writer's process does, as without shared memory
WriterElse(p) ==
    LET w == Pruned(topic, p, writer[p])
    IN  /\ gather = Idle
        /\ \/ WriterMatch(p)
           \/ w.nack # {} /\ ~ByDesc(p, Min(w.nack)) /\ EmitRepair(p)
           \/ ~ByDesc(p, w.sent) /\ \E ask \in AskChoices : EmitPush(p, ask)
           \/ EmitHeartbeat(p)
           \/ \E m \in net : m.lane = p /\ RecvNack(m)
        /\ UNCHANGED shmVars

-----------------------------------------------------------------------------
(* ---- A reader, one process as well.  i_rant_reader_shm sorts the       ---- *)
(* ---- descriptor, i_rant_node_on_shm resolves it.                       ---- *)

Resolve(m, parked) ==
    [at |-> "head", base |-> m.base, count |-> m.count, desc |-> m.desc, parked |-> parked,
     parts |-> <<Nobody, Nobody>>]

\* old, in a gap and a held head are turned away; else the resolve begins, and
\* a partial inline assembly of the sample is superseded
RecvShm(m) ==
    LET p == m.lane
        r == [reader[p] EXCEPT !.req = @ \/ m.ask]
        h == [r EXCEPT !.rHigh = Larger(@, m.base + m.count - 1)]
        turned(to) == reader' = [reader EXCEPT ![p] = to] /\ UNCHANGED look
    IN  /\ m \in net /\ m.type = "data" /\ IsShm(m)
        /\ look[p] = Idle
        /\ Taken(m)
        /\ CASE ~r.used                         -> turned(reader[p])
             [] r.used /\ r.parked              -> turned(r)
             [] r.used /\ ~r.parked /\ m.base < r.upto -> turned(OldData(r))
             [] r.used /\ ~r.parked /\ m.base > r.upto /\ r.started ->
                    turned(IF h.pend THEN h ELSE AckNow(h, FALSE))
             [] r.used /\ ~r.parked /\ m.base >= r.upto /\ (r.started => m.base = r.upto) ->
                    /\ reader' = [reader EXCEPT ![p] =
                            [h EXCEPT !.started = TRUE, !.upto = m.base, !.cur = NoAsm,
                                      !.start = IF r.started THEN @ ELSE m.base]]
                    /\ look' = [look EXCEPT ![p] = Resolve(m, FALSE)]
        /\ UNCHANGED <<topic, writer, wDormant, rDormant, epochs, join>>
        /\ UNCHANGED <<chunk, sent, gather, held, fails, mapped, got>>

\* the consumer has room again: a parked descriptor is resolved anew
RetryParked(p) ==
    /\ look[p] = Idle
    /\ reader[p].parked /\ held[p] # Inline
    /\ look' = [look EXCEPT ![p] = Resolve([base |-> reader[p].cur.base, count |-> reader[p].cur.count,
                                            desc |-> held[p]], TRUE)]
    /\ UNCHANGED <<vars, chunk, sent, gather, held, fails, mapped, got>>

\* the chunk the resolve looks at
Target(p) == chunk[look[p].desc.class][look[p].desc.chunk]

\* the generation is the descriptor's: i_rant_shm_read and i_rant_shm_verify
Current(p) == Target(p).gen = look[p].desc.gen

\* The resolve failed: a parked one reopens the gap, the others are left for a
\* repair and, after MaxRetry of them in a row, skipped and reported.
Unresolved(p) ==
    LET l    == look[p]
        r    == reader[p]
        last == fails[p] + 1 >= MaxRetry
        span == l.base .. (l.base + l.count - 1)
    IN  /\ reader' = [reader EXCEPT ![p] =
              CASE l.parked           -> AckNow([r EXCEPT !.parked = FALSE, !.cur = NoAsm], FALSE)
                [] ~l.parked /\ last  -> AckNow(Settle([r EXCEPT !.lost = @ \cup span,
                                                                 !.upto = l.base + l.count]), TRUE)
                [] ~l.parked /\ ~last -> AckNow(r, FALSE)]
        /\ fails' = [fails EXCEPT ![p] = IF l.parked THEN @ ELSE IF last THEN 0 ELSE @ + 1]
        /\ held' = [held EXCEPT ![p] = Inline]
        /\ look' = [look EXCEPT ![p] = Idle]
        /\ UNCHANGED got

\* i_rant_shm_attach and the buffer for the copy can fail, on first use only
MayFail(p) == look[p].desc.class \notin mapped[p]

\* i_rant_node_shm_reader_pool: what was attached stays in the cache
Cache(p) == mapped' = [mapped EXCEPT ![p] = @ \cup {look[p].desc.class}]

\* the seqlock head
LookHead(p, mem) ==
    /\ look[p].at = "head"
    /\ mem \/ MayFail(p)
    /\ IF mem /\ Current(p)
       THEN look' = [look EXCEPT ![p].at = "copy"] /\ UNCHANGED <<reader, fails, held, got>>
       ELSE Unresolved(p)
    /\ IF mem THEN Cache(p) ELSE UNCHANGED mapped
    /\ UNCHANGED <<topic, writer, wDormant, rDormant, epochs, net, join, chunk, sent, gather>>

CopyFirst(p) ==
    /\ look[p].at = "copy"
    /\ look' = [look EXCEPT ![p].at = "rest", ![p].parts[1] = Target(p).parts[1]]
    /\ UNCHANGED <<vars, chunk, sent, gather, held, fails, mapped, got>>

CopyRest(p) ==
    /\ look[p].at = "rest"
    /\ look' = [look EXCEPT ![p].at = "tail", ![p].parts[2] = Target(p).parts[2]]
    /\ UNCHANGED <<vars, chunk, sent, gather, held, fails, mapped, got>>

\* the queue refused the copy: the descriptor is kept and the lane goes silent
Parked(r, l) == [r EXCEPT !.cur = [NoAsm EXCEPT !.base = l.base, !.count = l.count], !.parked = TRUE]

\* the copy is with the consumer: only now deliver_upto moves and the ack is owed
CopyTaken(r, l, acc) ==
    Deliver(AckNow(MoveTo([r EXCEPT !.lapped = FALSE, !.parked = FALSE,
                                    !.log = Append(@, [base |-> l.base, count |-> l.count])],
                          l.base + l.count),
                   TRUE),
            acc)

\* the seqlock tail, then the delivery of the copy: taken, and a sample held
\* ahead may follow, or refused, which parks the descriptor
LookTail(p, acc) ==
    LET l == look[p]
    IN  /\ l.at = "tail"
        /\ CASE ~Current(p) -> Unresolved(p)
             [] Current(p) /\ acc = 0 ->
                    /\ reader' = [reader EXCEPT ![p] = Parked(@, l)]
                    /\ held' = [held EXCEPT ![p] = l.desc]
                    /\ look' = [look EXCEPT ![p] = Idle]
                    /\ UNCHANGED <<fails, got>>
             [] Current(p) /\ acc > 0 ->
                    /\ reader' = [reader EXCEPT ![p] = CopyTaken(@, l, acc - 1)]
                    /\ got' = [got EXCEPT ![p] = Append(@, [base |-> l.base, parts |-> l.parts])]
                    /\ fails' = [fails EXCEPT ![p] = 0]
                    /\ held' = [held EXCEPT ![p] = Inline]
                    /\ look' = [look EXCEPT ![p] = Idle]
        /\ UNCHANGED <<topic, writer, wDormant, rDormant, epochs, net, join, chunk, sent, gather, mapped>>

\* a floor past the head drops what was parked and the failures counted
RecvFloor(m, acc) ==
    LET p == m.lane
        skips == m.type = "hb" /\ reader[p].used /\ HbSkips(reader[p], m)
    IN  /\ look[p] = Idle
        /\ RecvHb(m, acc)
        /\ held' = [held EXCEPT ![p] = IF skips THEN Inline ELSE @]
        /\ fails' = [fails EXCEPT ![p] = IF skips THEN 0 ELSE @]
        /\ UNCHANGED <<chunk, sent, gather, look, mapped, got>>

\* everything else the reader's process does
ReaderElse(p) ==
    /\ look[p] = Idle
    /\ \/ ReaderMatch(p)
       \/ \E due \in BOOLEAN : ReaderEmit(p, due)
       \/ held[p] = Inline /\ \E acc \in Accepts : ReaderUnpark(p, acc)
       \/ \E m \in net, acc \in Accepts : m.lane = p /\ ~IsShm(m) /\ RecvData(m, TRUE, acc)
    /\ UNCHANGED shmVars

-----------------------------------------------------------------------------
SharedNext ==
    \/ \E k \in Classes : GatherFirst(k)
    \/ GatherRest
    \/ Stamp
    \/ SendInline
    \/ \E p \in Readers : \/ RepairShm(p)
                          \/ \E ask \in AskChoices : PushShm(p, ask)
                          \/ WriterElse(p)
                          \/ RetryParked(p)
                          \/ \E mem \in MemChoices : LookHead(p, mem)
                          \/ CopyFirst(p)
                          \/ CopyRest(p)
                          \/ \E acc \in Accepts : LookTail(p, acc)
                          \/ ReaderElse(p)
    \/ \E m \in net : \/ RecvShm(m)
                      \/ \E acc \in Accepts : RecvFloor(m, acc)
                      \/ Lose(m) /\ UNCHANGED shmVars

SharedSpec == SharedInit /\ [][SharedNext]_allVars

-----------------------------------------------------------------------------
\* What a reader hands up under a seqno is what the writer published under it,
\* all of it and nothing of a later message, although the writer gathers into
\* the chunk while readers copy out of it: a send that waited for its readers
\* never writes a chunk whose copy is not over.
Untorn ==
    \A p \in Readers : \A i \in 1 .. Len(got[p]) : got[p][i].parts = <<got[p][i].base, got[p][i].base>>

=============================================================================
