----------------------------- MODULE MCDiscovery -----------------------------
(* Instances of Discovery for TLC. *)
EXTENDS Discovery, TLC

CONSTANTS n1, n2, n3, t

\* Two nodes that meet at n1's second version only.
PairInterest == (n1 :> <<{}, {t}>>) @@ (n2 :> <<{t}>>)
PairReach    == [n \in Node |-> Node \ {n}]

\* Three nodes of one topic: n1 is on both networks, n2 and n3 on one each.
HubInterest  == [n \in Node |-> <<{t}>>]
HubReach     == [n \in Node |-> IF n = n1 THEN Node \ {n1} ELSE {n1}]

Bare == [hook |-> FALSE, recs |-> 2, endpoint |-> [n \in Node |-> n],
         repeats |-> 0, losses |-> 0, drops |-> 0, solicits |-> 0, ticks |-> 0,
         crashers |-> {}]

\* A datagram is lost; a live peer is taken for silent, or for gone; the
\* opening is repeated; the application solicits.
PairSetups == {[Bare EXCEPT !.losses = 1, !.ticks = 1], [Bare EXCEPT !.drops = 1],
               [Bare EXCEPT !.repeats = 1], [Bare EXCEPT !.solicits = 1]}

\* A live peer is taken for gone, and one side changed before the other.
ForgottenSetups == {[Bare EXCEPT !.drops = 1, !.ticks = 1]}

\* Nothing is lost.
PlainSetups == {Bare}

\* Slots run short; slots and records do; slots grow; the process of n3 is
\* the one of n2 restarted.
HubSetups == {Bare, [Bare EXCEPT !.recs = 1, !.crashers = {n2}], [Bare EXCEPT !.hook = TRUE],
              [Bare EXCEPT !.crashers = {n2}, !.endpoint = [n \in Node |-> IF n = n3 THEN n2 ELSE n]]}
=============================================================================
