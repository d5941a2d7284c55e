-------------------------- MODULE OrderedDelivery --------------------------
(***************************************************************************)
(* What a reliable topic promises a subscriber, with no network in it.     *)
(* Samples are published in one order.  A subscription takes up a position *)
(* and from there on moves forward only: each move hands up some of the    *)
(* samples it passes, whole, in order and addressed to this reader, and    *)
(* reports every other seqno it passes as lost.  On a directed topic a     *)
(* skip is not reported, since what was addressed to others is no loss.    *)
(***************************************************************************)
EXTENDS Integers, Sequences

CONSTANTS Readers, Directed

VARIABLES
    published,     \* the samples, [base, count, dest], in order
    sub            \* per reader: [open, placed, start, at, log, lost]

dvars == <<published, sub>>

Unplaced(open) ==
    [open |-> open, placed |-> FALSE, start |-> 0, at |-> 0, log |-> << >>, lost |-> {}]

DInit ==
    /\ published = << >>
    /\ sub = [p \in Readers |-> Unplaced(FALSE)]

\* seqnos of a sample
Seqnos(s) == s.base .. (s.base + s.count - 1)

Addressed(s, p) == Directed => s.dest \in {"all", p}

Publish ==
    /\ Len(published') = Len(published) + 1
    /\ LET s == published'[Len(published')]
       IN  /\ published' = Append(published, s)
           /\ \A i \in 1 .. Len(published) : published[i].base + published[i].count <= s.base
    /\ UNCHANGED sub

Subscribe(p) ==
    /\ ~sub[p].open
    /\ sub' = [sub EXCEPT ![p] = Unplaced(TRUE)]
    /\ UNCHANGED published

Unsubscribe(p) ==
    /\ sub[p].open
    /\ sub' = [sub EXCEPT ![p] = Unplaced(FALSE)]
    /\ UNCHANGED published

\* The position moves from start (a subscription without one takes one up) or at
\* to at', handing up the samples appended to log.
Forward(p) ==
    LET old  == sub[p]
        new  == sub'[p]
        from == IF old.placed THEN old.at ELSE new.start
        Handed == (Len(old.log) + 1) .. Len(new.log)
    IN  /\ old.open /\ new.open /\ new.placed
        /\ old.placed => new.start = old.start
        /\ from <= new.at
        /\ SubSeq(new.log, 1, Len(old.log)) = old.log
        /\ \A i \in Handed :
              /\ from <= new.log[i].base
              /\ new.log[i].base + new.log[i].count <= new.at
              /\ i + 1 \in Handed => new.log[i].base + new.log[i].count <= new.log[i + 1].base
              /\ \E k \in 1 .. Len(published) :
                    /\ published[k].base = new.log[i].base /\ published[k].count = new.log[i].count
                    /\ Addressed(published[k], p)
        /\ old.lost \subseteq new.lost
        /\ \A x \in from .. (new.at - 1) :
              (\E i \in Handed : x \in Seqnos(new.log[i])) => x \notin new.lost
        /\ ~Directed => \A x \in from .. (new.at - 1) :
              x \in new.lost \/ \E i \in Handed : x \in Seqnos(new.log[i])
        /\ new.lost \ old.lost \subseteq from .. (new.at - 1)
        /\ \A q \in Readers \ {p} : sub'[q] = sub[q]
        /\ UNCHANGED published

DNext == Publish \/ \E p \in Readers : Subscribe(p) \/ Unsubscribe(p) \/ Forward(p)

DSpec == DInit /\ [][DNext]_dvars

=============================================================================
