------------------------------ MODULE MCTunnel --------------------------------
(* Setups of Tunnel for TLC.                                               *)
EXTENDS Tunnel, TLC

C(op, s)     == [op |-> op, s |-> s]
CV(op, s, v) == [op |-> op, s |-> s, v |-> v]
Base == [prog |-> <<>>, faults |-> 2, in |-> 1, refuses |-> FALSE, refusals |-> 0]

\* rant_node_close: the bye, the sockets, the tunnel. Nothing is flushed between.
Close == <<C("send", 2), C("close", 2), C("close", 1), C("end", 1)>>
\* A node's life: the data socket, the discovery socket with its groups and options,
\* datagrams, the end.
Life == [Base EXCEPT !.prog = <<C("open", 1), C("bind", 1), C("open", 2), C("bind", 2), CV("join", 2, "g1"),
                                CV("option", 2, 7), C("send", 2), C("send", 1), C("flush", 1)>> \o Close]
\* Interfaces change: groups are left and joined.
Groups == [Base EXCEPT !.prog = <<C("open", 1), C("bind", 1), CV("join", 1, "g1"), CV("join", 1, "g2"),
                                  CV("leave", 1, "g1"), C("send", 1), C("flush", 1)>>]
\* The bridge turns down socket ops, of a session set up again too.
Denied == [Groups EXCEPT !.refusals = 2]
\* A socket is closed and another opened while datagrams are under way.
Reuse == [Base EXCEPT !.prog = <<C("open", 1), C("bind", 1), CV("join", 1, "g1"), C("close", 1), C("open", 1), C("bind", 1)>>, !.in = 3]
\* More datagrams than a batch holds.
Burst == [Base EXCEPT !.prog = <<C("open", 1), C("bind", 1), C("send", 1), C("send", 1), C("send", 1), C("flush", 1)>>]
\* One socket stays open while the numbers come round.
Again == <<C("open", 2), C("bind", 2), C("send", 2), C("close", 2)>>
Wrap == [Base EXCEPT !.prog = <<C("open", 1), C("bind", 1)>> \o Again \o Again \o Again \o Again \o <<C("flush", 1)>>,
                     !.faults = 0, !.in = 3]
Refused == [Base EXCEPT !.refuses = TRUE]

MCSetups == {Life, Groups, Denied, Reuse, Burst, Wrap, Refused}
\* The node closes with nothing lost.
MCBye == {[Life EXCEPT !.faults = 0]}
\* Groups are left and joined while a connection drops.
MCDown == {[Groups EXCEPT !.faults = 1]}
=============================================================================
