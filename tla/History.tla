------------------------------ MODULE History ------------------------------
(***************************************************************************)
(* The history of one topic: the samples a writer sealed, the KEEP_LAST    *)
(* ring that still holds the newest of them, and where a new reader joins  *)
(* (src/transport/writer.c, core.c).  A sample takes count consecutive     *)
(* seqnos from base on, one per fragment.                                  *)
(*                                                                         *)
(* smp keeps every sample ever sealed, in order; the ring is its suffix    *)
(* from index lo, so that what was evicted can still be spoken of.         *)
(***************************************************************************)
EXTENDS Integers, Sequences, FiniteSetsExt

CONSTANTS
    Readers,       \* the peers that may subscribe
    Directed,      \* topic->directed: samples are addressed to one peer
    KeepLast,      \* qos.keep_last, the depth of the history ring
    CatchUp,       \* qos.catch_up, samples replayed to a late joiner
    Dests          \* the destinations samples are sent to

ASSUME DirectedAssumption == Directed \in BOOLEAN
ASSUME KeepLastAssumption == KeepLast \in Nat \ {0}
ASSUME CatchUpAssumption == CatchUp \in Nat

DestAll  == "all"     \* RANT__DEST_ALL
DestNone == "none"    \* RANT__DEST_NONE: sent to nobody, the seqno is consumed

ASSUME ReadersAssumption == DestAll \notin Readers /\ DestNone \notin Readers

ASSUME DestsAssumption ==
    /\ Dests \subseteq Readers \cup {DestAll, DestNone}
    /\ ~Directed => Dests = {DestAll}

-----------------------------------------------------------------------------
(* The topic's history. *)

Sample == [base : Nat, count : Nat \ {0}, dest : Readers \cup {DestAll, DestNone}]

TopicState == [smp : Seq(Sample), lo : Nat, fresh : BOOLEAN, freshFrom : Nat]

EmptyTopic == [smp |-> << >>, lo |-> 1, fresh |-> FALSE, freshFrom |-> 0]

EndOf(s) == s.base + s.count

NextSeqno(t) == IF t.smp = << >> THEN 0 ELSE EndOf(t.smp[Len(t.smp)])

Cached(t) == t.lo .. Len(t.smp)

FirstSeqno(t) == IF t.smp = << >> THEN 0 ELSE t.smp[t.lo].base

Covers(s, x) == s.base <= x /\ x < EndOf(s)

\* i_rant_sample_find succeeds
Found(t, x) == \E i \in Cached(t) : Covers(t.smp[i], x)

Find(t, x) == t.smp[CHOOSE i \in Cached(t) : Covers(t.smp[i], x)]

\* i_rant_writer_seal: a full ring overwrites its oldest sample
Seal(t, count, dest) ==
    LET s == Append(t.smp, [base |-> NextSeqno(t), count |-> count, dest |-> dest])
    IN  [t EXCEPT !.smp = s, !.lo = IF Len(s) < @ + KeepLast THEN @ ELSE @ + 1]

\* the slot the next send overwrites holds a sample
RingFull(t) == Len(t.smp) + 1 = t.lo + KeepLast

\* i_rant_topic_unicast_join_seqno: the last CatchUp samples, and all those sent
\* since the topic came up while its first-match window is open
JoinSeqno(t) ==
    LET replay == {i \in Cached(t) : \/ i + CatchUp > Len(t.smp)
                                     \/ t.fresh /\ ~Directed /\ t.smp[i].base >= t.freshFrom}
    IN  Min({t.smp[i].base : i \in replay} \cup {NextSeqno(t)})

Foreign(s, p) == Directed /\ s.dest \notin {DestAll, p}

=============================================================================
