----------------------------- MODULE MCVariables ------------------------------
(* Setups of Variables for TLC.                                            *)
EXTENDS Variables, TLC

CONSTANTS o1, o2, a1, t1, t2, t3

Op(op, n, v) == [op |-> op, node |-> n, val |-> v]
Prog(p, q, r) == t1 :> p @@ t2 :> q @@ t3 :> r
Base == [prog |-> Prog(<<>>, <<>>, <<>>), body |-> <<>>, met |-> TRUE, force |-> TRUE, base |-> 0,
         watch |-> TRUE, queued |-> FALSE, cuts |-> 0, rivals |-> FALSE, first |-> {o1},
         fixed |-> FALSE]

\* Where a local set can overlap another write the values have one length.

\* Two local writers, an accessor that forces and releases.
Racing == [Base EXCEPT !.prog = Prog(<<Op("set", o1, 1)>>, <<Op("set", o1, 2)>>,
                                     <<Op("force", a1, 3), Op("unforce", a1, None)>>), !.base = 14, !.fixed = TRUE]
\* A local force under remote writes, observers registered late.
Forcing == [Base EXCEPT !.prog = Prog(<<Op("on_change", o1, None), Op("force", o1, 1), Op("force", o1, 3), Op("unforce", o1, None)>>,
                                      <<Op("on_change", a1, None)>>, <<Op("apply", a1, 3), Op("apply", a1, 4)>>),
                        !.watch = FALSE]
Parked == [Forcing EXCEPT !.queued = TRUE]
\* An observer that writes, an accessor that comes late.
Nested == [Base EXCEPT !.prog = Prog(<<Op("set", o1, 1), Op("set", o1, 2)>>, <<>>, <<>>),
                       !.body = <<Op("set", o1, 9)>>, !.met = FALSE, !.cuts = 1, !.fixed = TRUE]
\* More writes than the history holds, a peer lost on the way.
Burst == [Base EXCEPT !.prog = Prog([i \in 1 .. 6 |-> Op("set", o1, i)], <<>>, <<>>), !.cuts = 1]
\* A variable that does not allow a force.
Refused == [Base EXCEPT !.prog = Prog(<<Op("set", o1, 1)>>, <<>>, <<Op("force", a1, 3), Op("apply", a1, 4)>>), !.force = FALSE, !.fixed = TRUE]
\* A successor on the same node, and one on another.
SameNode == [Base EXCEPT !.prog = Prog(<<Op("set", o1, 1), Op("set", o1, 2), Op("retire", o1, None),
                                         Op("define", o1, None), Op("set", o1, 3)>>, <<>>, <<Op("apply", a1, 4)>>),
                         !.base = 3, !.fixed = TRUE]
\* A successor that comes once the accessors know that the owner left.
Heir == [Base EXCEPT !.prog = Prog(<<Op("set", o1, 1), Op("set", o1, 2), Op("set", o1, 4), Op("retire", o1, None), Op("drain", o1, None),
                                     Op("define", o1, None), Op("set", o1, 3)>>, <<>>, <<>>),
                     !.body = <<Op("set", o1, 9)>>, !.fixed = TRUE]
OtherNode == [Base EXCEPT !.prog = Prog(<<Op("set", o1, 1), Op("set", o1, 2), Op("drain", o1, None),
                              Op("retire", o1, None), Op("define", o2, None), Op("set", o2, 3)>>, <<>>, <<>>)]
\* Two owners that come and go.
Rivals == [Base EXCEPT !.prog = Prog(<<Op("retire", o1, None), Op("define", o1, None), Op("force", o1, 1)>>,
                                     <<Op("define", o2, None), Op("retire", o2, None), Op("define", o2, None)>>, <<>>),
                       !.rivals = TRUE, !.cuts = 1]

MCSetups == {Racing, Forcing, Parked, Nested, Burst, Refused, SameNode, Heir, OtherNode, Rivals}

\* Two local writers of values of different lengths, on two threads.
MCResized == {[Racing EXCEPT !.prog[t3] = <<>>, !.fixed = FALSE]}
\* Two local writers and an accessor that comes late.
MCLate == {[Racing EXCEPT !.met = FALSE]}
\* Two threads release a force while an observer is out, a third writes.
MCUnforce == {[Base EXCEPT !.prog = Prog(<<Op("force", o1, 1), Op("unforce", o1, None)>>, <<Op("unforce", o1, None)>>, <<Op("set", o1, 2)>>)]}
\* A successor on the same node after observers that wrote.
MCSuccessor == {[SameNode EXCEPT !.body = <<Op("set", o1, 9)>>]}
=============================================================================
