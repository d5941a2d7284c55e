-------------------------------- MODULE Tunnel ---------------------------------
(***************************************************************************)
(* The tunnel client (tunnel/runtime.c): a node's sockets, lent by a       *)
(* bridge over one WebSocket that may break at any time. The link is a     *)
(* state machine stepped by polls; a node's socket calls record what they  *)
(* want, so that a lost session can be set up again, and send it when the  *)
(* link is open. Datagrams leave in batches.                               *)
(*                                                                         *)
(* The bridge is external: its side is what the client's requests and      *)
(* replies, and spec/tunnel.md, say of it. A message is a record; frames,  *)
(* JSON and the proof of the passphrase are left out.                      *)
(***************************************************************************)
EXTENDS Integers, Sequences, FiniteSets, SequencesExt, FiniteSetsExt

CONSTANTS
    Slot,       \* a client's socket slots (16)
    Group,      \* multicast groups
    Numbers,    \* socket numbers run from 1 to Numbers (65535)
    QueueMax,   \* datagrams a socket holds received (1 MB)
    BatchMax,   \* datagrams in one batch (60000 bytes)
    Backlog,    \* what tx holds before a send would block
    Setups      \* the setups to run with, see setup

ASSUME NumbersAssumption == Numbers \in Nat /\ Numbers >= Cardinality(Slot)

VARIABLES
    link,     \* down, connecting, handshake, challenge, opening, open, refused
    cl,       \* [seq, challenge, open, want, got, token, batch, next, lives, closing]: the
              \* rest of the client: its request numbers, the reply a bind waits for and
              \* what it said, the session it may take back (0 for none), datagrams not
              \* flushed, the next socket number, whether the node closes
    sk,       \* [Slot -> socket]: see NoSock
    tx,       \* what the TCP socket has not taken
    conn,     \* [state, up, down]: the connection: none, alive or broken, and what is on it
    br,       \* [at, sess, ids, refusals]: the bridge's end of the connection, its session,
              \* the sessions so far, the socket ops it may still refuse
    todo,     \* the socket calls the node has still to make
    wait,     \* the slot whose bind waits for its reply, 0 for none
    mesh,     \* [out, stray, in]: what the bridge sent to the mesh, datagrams for a socket
              \* it does not have, those that still come in
    told,     \* [missed, noted]: of this session, whether a request or its refusal was
              \* lost with a drop or a timeout, and whether the client was told of a refusal
    faults,   \* breaks, ends of a session and binds not answered that may still happen
    setup     \* a member of Setups: prog (the calls), faults, in (datagrams that come),
              \* refuses (whether the bridge refuses the client), refusals (of socket ops)

vars == <<link, cl, sk, tx, conn, br, todo, wait, mesh, told, faults, setup>>

----------------------------------------------------------------------------
(* State.                                                                  *)

\* A socket of the client: its number at the bridge, its groups and options, what
\* came for it. life tells it from earlier sockets with the same number.
NoSock == [used |-> FALSE, bound |-> FALSE, num |-> 0, life |-> 0, opt |-> 0, groups |-> {}, q |-> <<>>]

\* no: the numbers whose bind the bridge refused.
NoSession == [id |-> 0, socks |-> {}, no |-> {}]

Init ==
    /\ setup \in Setups
    /\ link = "down"
    /\ cl = [seq |-> 0, challenge |-> 0, open |-> 0, want |-> 0, got |-> "none", token |-> 0,
             batch |-> <<>>, next |-> 1, lives |-> 0, closing |-> FALSE]
    /\ sk = [s \in Slot |-> NoSock]
    /\ tx = <<>>
    /\ conn = [state |-> "none", up |-> <<>>, down |-> <<>>]
    /\ br = [at |-> "idle", sess |-> NoSession, ids |-> 0, refusals |-> setup.refusals]
    /\ todo = setup.prog
    /\ wait = 0
    /\ mesh = [out |-> {}, stray |-> {}, in |-> setup.in]
    /\ told = [missed |-> FALSE, noted |-> FALSE]
    /\ faults = setup.faults

----------------------------------------------------------------------------
(* Requests and batches into tx.                                           *)

\* A request into tx under the next number.
Ask(c, t, m) == [c |-> [c EXCEPT !.seq = @ + 1], t |-> Append(t, m @@ [seq |-> c.seq + 1])]
AskAll(c, t, ms) == FoldLeft(LAMBDA a, m : Ask(a.c, a.t, m), [c |-> c, t |-> t], ms)

BatchOut(c, t) ==
    [c |-> [c EXCEPT !.batch = <<>>],
     t |-> IF c.batch = <<>> THEN t ELSE Append(t, [op |-> "batch", dgrams |-> c.batch])]

BindMsg(k)      == [op |-> "bind", num |-> k.num, life |-> k.life]
OptionMsg(k)    == [op |-> "option", num |-> k.num, opt |-> k.opt]
MemberMsg(k, g, join) == [op |-> "member", num |-> k.num, group |-> g, join |-> join]
CloseMsg(k)     == [op |-> "close", num |-> k.num]

\* mutant: the groups are not joined again
RestoreSockOnly(k) == <<BindMsg(k)>>
\* One socket set up again in a new session: bound, its options, its groups.
RestoreSock(k) ==
    <<BindMsg(k)>> \o (IF k.opt # 0 THEN <<OptionMsg(k)>> ELSE <<>>)
                   \o SetToSeq({MemberMsg(k, g, TRUE) : g \in k.groups})
Restore == FlattenSeq([s \in Slot |-> IF sk[s].used /\ sk[s].bound THEN RestoreSock(sk[s]) ELSE <<>>])

----------------------------------------------------------------------------
(* The link.                                                               *)

\* A drop: what was not sent is gone, and so is what was not read. The first open
\* gives up at the first drop.
Dropped(refused) ==
    /\ link' = IF refused THEN "refused" ELSE "down"
    /\ cl' = [cl EXCEPT !.batch = <<>>, !.got = "none", !.closing = @ \/ cl.token = 0]
    /\ tx' = <<>>
    /\ conn' = [state |-> "none", up |-> <<>>, down |-> <<>>]
    /\ br' = [br EXCEPT !.at = "idle"]

\* i_rant_tunnel_start: a new connection after the backoff, unless the node closes. A
\* bind that waits drives the link itself and sees the drop first.
Start ==
    /\ link = "down" /\ ~cl.closing /\ wait = 0
    /\ link' = "connecting"
    /\ conn' = [state |-> "alive", up |-> <<>>, down |-> <<>>]
    /\ UNCHANGED <<cl, sk, tx, br, todo, wait, mesh, told, faults, setup>>

Connected ==
    /\ link = "connecting" /\ conn.state = "alive"
    /\ link' = "handshake"
    /\ tx' = Append(tx, [op |-> "http"])
    /\ UNCHANGED <<cl, sk, conn, br, todo, wait, mesh, told, faults, setup>>

\* i_rant_tunnel_write: the TCP socket takes what tx holds.
Write ==
    /\ tx # <<>> /\ conn.state # "none" /\ link # "connecting"
    /\ tx' = <<>>
    /\ conn' = [conn EXCEPT !.up = IF conn.state = "alive" THEN @ \o tx ELSE @]
    /\ UNCHANGED <<link, cl, sk, br, todo, wait, mesh, told, faults, setup>>

\* i_rant_tunnel_opened: the session is taken back, or a new one set up.
Lost(c, m) == c.token # 0 /\ ~m.resumed
Opened(m) ==
    LET c == [cl EXCEPT !.token = m.sess]
        a == IF Lost(cl, m) THEN AskAll(c, tx, Restore) ELSE [c |-> c, t |-> tx] IN
    /\ link' = "open"
    /\ cl' = a.c
    /\ tx' = a.t
    /\ told' = IF Lost(cl, m) THEN [missed |-> FALSE, noted |-> FALSE] ELSE told

\* A received datagram drops when the socket's queue is full.
Enqueue(q, d) == IF Len(q) < QueueMax THEN Append(q, d) ELSE q
Dispatch(m) == sk' = [s \in Slot |-> IF sk[s].used /\ sk[s].num = m.num
                                     THEN [sk[s] EXCEPT !.q = Enqueue(@, m)] ELSE sk[s]]

\* The next message from the bridge, i_rant_tunnel_read and _text.
Read ==
    /\ conn.down # <<>> /\ link \notin {"down", "connecting", "refused"}
    /\ LET m == Head(conn.down)
           rest == [conn EXCEPT !.down = Tail(@)] IN
       \/ /\ m.op = "http" /\ link = "handshake"
          /\ LET a == Ask(cl, tx, [op |-> "challenge"]) IN
             /\ cl' = [a.c EXCEPT !.challenge = a.c.seq]
             /\ tx' = a.t
          /\ link' = "challenge" /\ conn' = rest /\ UNCHANGED <<sk, br, told>>
       \/ /\ m.op = "reply" /\ link = "challenge" /\ m.seq = cl.challenge
          /\ LET a == Ask(cl, tx, [op |-> "open", token |-> cl.token]) IN
             /\ cl' = [a.c EXCEPT !.open = a.c.seq]
             /\ tx' = a.t
          /\ link' = "opening" /\ conn' = rest /\ UNCHANGED <<sk, br, told>>
       \/ /\ m.op = "reply" /\ link = "opening" /\ m.seq = cl.open /\ ~m.ok
          /\ Dropped(TRUE) /\ UNCHANGED <<sk, told>>
       \/ /\ m.op = "reply" /\ link = "opening" /\ m.seq = cl.open /\ m.ok
          /\ Opened(m) /\ conn' = rest /\ UNCHANGED <<sk, br>>
       \/ /\ m.op = "reply" /\ link = "open"
          /\ IF m.seq = cl.want
             THEN cl' = [cl EXCEPT !.got = IF m.ok THEN "ok" ELSE "refused"] /\ UNCHANGED told
             ELSE told' = [told EXCEPT !.noted = @ \/ ~m.ok] /\ UNCHANGED cl
          /\ conn' = rest /\ UNCHANGED <<link, tx, sk, br>>
       \/ /\ m.op = "dgram"
          /\ Dispatch(m) /\ conn' = rest /\ UNCHANGED <<link, cl, tx, br, told>>
       \/ /\ m.op = "bye"
          /\ Dropped(FALSE) /\ UNCHANGED <<sk, told>>
    /\ UNCHANGED <<todo, wait, mesh, faults, setup>>

\* The client finds the connection gone: a failed read or write, a step that takes
\* too long, silence.
\* mutant: no deadline while the link is being set up
GoneOpen == conn.state = "broken" /\ link = "open"
Gone == conn.state = "broken"
Notice ==
    /\ Gone
    /\ Dropped(FALSE)
    /\ UNCHANGED <<sk, todo, wait, mesh, told, faults, setup>>

----------------------------------------------------------------------------
(* The node's calls.                                                       *)

\* A bind waits for the bridge: until the reply, until the link is found not open,
\* or for as long as a step may take, which is a fault. Its socket is bound if the
\* reply says so.
BindWaits == wait # 0
BindEnds ==
    /\ BindWaits
    /\ IF cl.got # "none" \/ link # "open" THEN UNCHANGED faults
       ELSE faults > 0 /\ faults' = faults - 1
    /\ sk' = [sk EXCEPT ![wait].bound = (cl.got = "ok")]
    /\ cl' = [cl EXCEPT !.want = 0, !.got = "none"]
    /\ wait' = 0
    /\ told' = [told EXCEPT !.missed = @ \/ cl.got = "none"]
    /\ UNCHANGED <<link, tx, conn, br, todo, mesh, setup>>

\* mutant: the number is free since it was not used for long
NextNumberBlind(taken) == cl.next
\* i_rant_tunnel_udp_open: numbers are not used again at once, nor while in use.
NextNumber(taken) ==
    LET Round(i) == ((cl.next - 1 + i) % Numbers) + 1
        i == Min({j \in 0 .. Numbers - 1 : Round(j) \notin taken}) IN Round(i)
Taken == {sk[s].num : s \in {r \in Slot : sk[r].used}}
UdpOpen(s) ==
    /\ ~sk[s].used
    /\ LET n == NextNumber(Taken) IN
       /\ sk' = [sk EXCEPT ![s] = [NoSock EXCEPT !.used = TRUE, !.num = n, !.life = cl.lives + 1]]
       /\ cl' = [cl EXCEPT !.next = (n % Numbers) + 1, !.lives = @ + 1]
    /\ UNCHANGED <<link, tx, conn, wait, mesh>>

Asking(c, t, up, m) == IF up THEN Ask(c, t, m) ELSE [c |-> c, t |-> t]
Sends(a) == cl' = a.c /\ tx' = a.t
Up(s) == sk[s].bound /\ link = "open"

Bind(s) ==
    /\ IF link # "open" THEN UNCHANGED <<cl, tx, sk, wait>>
       ELSE LET a == Ask(cl, tx, BindMsg(sk[s])) IN
            /\ cl' = [a.c EXCEPT !.want = a.c.seq, !.got = "none"]
            /\ tx' = a.t
            /\ sk' = [sk EXCEPT ![s].bound = FALSE]
            /\ wait' = s
    /\ UNCHANGED <<link, conn, mesh>>

Option(s, v) ==
    LET k == [sk[s] EXCEPT !.opt = v] IN
    /\ sk' = [sk EXCEPT ![s] = k]
    /\ Sends(Asking(cl, tx, Up(s), OptionMsg(k)))
    /\ UNCHANGED <<link, conn, wait, mesh>>
Join(s, g) ==
    /\ sk' = [sk EXCEPT ![s].groups = @ \cup {g}]
    /\ Sends(Asking(cl, tx, Up(s), MemberMsg(sk[s], g, TRUE)))
    /\ UNCHANGED <<link, conn, wait, mesh>>
Leave(s, g) ==
    /\ sk' = [sk EXCEPT ![s].groups = @ \ {g}]
    /\ Sends(Asking(cl, tx, Up(s) /\ g \in sk[s].groups, MemberMsg(sk[s], g, FALSE)))
    /\ UNCHANGED <<link, conn, wait, mesh>>
UdpClose(s) ==
    /\ sk' = [sk EXCEPT ![s] = NoSock]
    /\ Sends(Asking(cl, tx, Up(s), CloseMsg(sk[s])))
    /\ UNCHANGED <<link, conn, wait, mesh>>

\* i_rant_tunnel_send: a datagram is lost while the link is down, would block while
\* tx is too long, and leaves with the batch otherwise.
Send(s) ==
    /\ IF ~Up(s) \/ Len(tx) > Backlog THEN UNCHANGED <<cl, tx>>
       ELSE LET a == IF Len(cl.batch) = BatchMax THEN BatchOut(cl, tx) ELSE [c |-> cl, t |-> tx] IN
            /\ cl' = [a.c EXCEPT !.batch = Append(@, [num |-> sk[s].num, life |-> sk[s].life])]
            /\ tx' = a.t
    /\ UNCHANGED <<link, sk, conn, wait, mesh>>
\* The node's TX drain ends with it.
Flush ==
    /\ IF link = "open" THEN Sends(BatchOut(cl, tx)) ELSE UNCHANGED <<cl, tx>>
    /\ UNCHANGED <<link, sk, conn, wait, mesh>>

\* i_rant_tunnel_close: the batch and a close frame; the link ends when the bridge
\* answers.
End ==
    /\ LET a == BatchOut(cl, tx) IN
       IF link = "open" THEN /\ cl' = [a.c EXCEPT !.closing = TRUE]
                             /\ tx' = Append(a.t, [op |-> "bye"])
       ELSE cl' = [cl EXCEPT !.closing = TRUE] /\ UNCHANGED tx
    /\ UNCHANGED <<link, sk, conn, wait, mesh>>

Requests == {"bind", "option", "join", "leave", "close"}
SocketOps == {"bind", "option", "member", "close"}
HasRequest(t) == \E i \in 1 .. Len(t) : t[i].op \in SocketOps
HasRefusal(t) == \E i \in 1 .. Len(t) : t[i].op = "reply" /\ ~t[i].ok

Call ==
    /\ todo # <<>> /\ ~BindWaits /\ cl.token # 0
    /\ LET c == Head(todo) IN
       \/ c.op = "open"   /\ UdpOpen(c.s)
       \/ c.op = "bind"   /\ Bind(c.s)
       \/ c.op = "option" /\ Option(c.s, c.v)
       \/ c.op = "join"   /\ Join(c.s, c.v)
       \/ c.op = "leave"  /\ Leave(c.s, c.v)
       \/ c.op = "close"  /\ UdpClose(c.s)
       \/ c.op = "send"   /\ Send(c.s)
       \/ c.op = "flush"  /\ Flush
       \/ c.op = "end"    /\ End
    /\ todo' = Tail(todo)
    /\ told' = [told EXCEPT !.missed =
                 @ \/ (Head(todo).op \in Requests /\ ~(link = "open" /\ conn.state = "alive"))]
    /\ UNCHANGED <<br, faults, setup>>

\* The node reads a socket.
Recv(s) ==
    /\ sk[s].q # <<>>
    /\ sk' = [sk EXCEPT ![s].q = Tail(@)]
    /\ UNCHANGED <<link, cl, tx, conn, br, todo, wait, mesh, told, faults, setup>>

----------------------------------------------------------------------------
(* The bridge, external.                                                   *)

Reply(m, r) == Append(conn.down, r @@ [op |-> "reply", seq |-> m.seq])
NoTok == [resumed |-> FALSE, sess |-> 0]
Bound(num) == \E x \in br.sess.socks : x.num = num
Sock(num)  == CHOOSE x \in br.sess.socks : x.num = num
Replace(num, y) == [br EXCEPT !.sess.socks = {x \in @ : x.num # num} \cup y]

\* A socket op the bridge turns down changes nothing: one of the few it refuses, or
\* one for a socket it does not have.
Refuses(m) ==
    /\ m.op \in SocketOps
    /\ IF m.op \in {"option", "member"} /\ ~Bound(m.num) THEN UNCHANGED br
       ELSE /\ br.refusals > 0
            /\ br' = [br EXCEPT !.refusals = @ - 1,
                                !.sess.no = IF m.op = "bind" THEN @ \cup {m.num} ELSE @]
Accepts(m) ==
    \/ /\ m.op = "bind"
       /\ br' = [Replace(m.num, {[num |-> m.num, life |-> m.life, opt |-> 0, groups |-> {}]})
                    EXCEPT !.sess.no = @ \ {m.num}]
    \/ /\ m.op = "option" /\ Bound(m.num)
       /\ br' = Replace(m.num, {[Sock(m.num) EXCEPT !.opt = m.opt]})
    \/ /\ m.op = "member" /\ Bound(m.num)
       /\ br' = Replace(m.num, {[Sock(m.num) EXCEPT !.groups =
                     IF m.join THEN @ \cup {m.group} ELSE @ \ {m.group}]})
    \/ /\ m.op = "close"
       /\ br' = Replace(m.num, {})

\* A datagram for a socket the bridge has leaves by it; another is dropped. What a
\* property asks of it is noted: whether the binding is its own, and why there may
\* be none.
Leaves(d) == d @@ [own |-> Sock(d.num).life = d.life]
Strays(d) == d @@ [missed |-> told.missed, refused |-> d.num \in br.sess.no,
                   closed |-> \A s \in Slot : sk[s].life # d.life]

BridgeTakes ==
    /\ conn.state = "alive" /\ conn.up # <<>>
    /\ LET m == Head(conn.up)
           yes == [ok |-> TRUE] @@ NoTok
           no == [ok |-> FALSE] @@ NoTok
           session(tok, resumed) == [ok |-> TRUE, resumed |-> resumed, sess |-> tok]
           Answer(r) == conn' = [conn EXCEPT !.up = Tail(@), !.down = Reply(m, r)] IN
       \/ /\ m.op = "http"
          /\ conn' = [conn EXCEPT !.up = Tail(@), !.down = Append(@, [op |-> "http"])]
          /\ UNCHANGED <<br, mesh>>
       \/ m.op = "challenge" /\ Answer(yes) /\ UNCHANGED <<br, mesh>>
       \/ /\ m.op = "open" /\ setup.refuses
          /\ Answer(no) /\ UNCHANGED <<br, mesh>>
       \/ /\ m.op = "open" /\ ~setup.refuses /\ m.token # 0 /\ m.token = br.sess.id
          /\ br' = [br EXCEPT !.at = "open"]
          /\ Answer(session(br.sess.id, TRUE)) /\ UNCHANGED mesh
       \/ /\ m.op = "open" /\ ~setup.refuses /\ (m.token = 0 \/ m.token # br.sess.id)
          /\ br' = [br EXCEPT !.at = "open", !.sess = [NoSession EXCEPT !.id = br.ids + 1], !.ids = @ + 1]
          /\ Answer(session(br.ids + 1, FALSE)) /\ UNCHANGED mesh
       \/ Accepts(m) /\ Answer(yes) /\ UNCHANGED mesh
       \/ Refuses(m) /\ Answer(no) /\ UNCHANGED mesh
       \/ /\ m.op = "batch"
          /\ LET ds == ToSet(m.dgrams) IN
             mesh' = [mesh EXCEPT !.out = @ \cup {Leaves(d) : d \in {e \in ds : Bound(e.num)}},
                                  !.stray = @ \cup {Strays(d) : d \in {e \in ds : ~Bound(e.num)}}]
          /\ conn' = [conn EXCEPT !.up = Tail(@)] /\ UNCHANGED br
       \/ /\ m.op = "bye"
          /\ br' = [br EXCEPT !.at = "idle", !.sess = NoSession]
          /\ conn' = [conn EXCEPT !.up = <<>>, !.down = Append(@, [op |-> "bye"])] /\ UNCHANGED mesh
    /\ UNCHANGED <<link, cl, sk, tx, todo, wait, told, faults, setup>>

\* A datagram comes for one of the session's sockets; that of a detached client
\* is dropped.
MeshSends ==
    /\ mesh.in > 0 /\ \E x \in br.sess.socks :
          conn' = IF br.at = "open" /\ conn.state = "alive"
                  THEN [conn EXCEPT !.down = Append(@, [op |-> "dgram", num |-> x.num, life |-> x.life])]
                  ELSE conn
    /\ mesh' = [mesh EXCEPT !.in = @ - 1]
    /\ UNCHANGED <<link, cl, sk, tx, br, todo, wait, told, faults, setup>>

Settled == /\ link = "open" /\ tx = <<>> /\ cl.batch = <<>> /\ wait = 0
           /\ conn.up = <<>> /\ conn.down = <<>>

Break ==
    /\ faults > 0 /\ conn.state = "alive"
    /\ faults' = faults - 1
    /\ conn' = [state |-> "broken", up |-> <<>>, down |-> <<>>]
    /\ br' = [br EXCEPT !.at = "idle"]
    /\ told' = [told EXCEPT !.missed = \/ @ \/ wait # 0
                                        \/ HasRequest(tx) \/ HasRequest(conn.up) \/ HasRefusal(conn.down)]
    /\ UNCHANGED <<link, cl, sk, tx, todo, wait, mesh, setup>>

\* A session nobody took back within its grace is gone, with its sockets.
GraceEnds ==
    /\ faults > 0 /\ br.at = "idle" /\ br.sess # NoSession
    /\ faults' = faults - 1
    /\ br' = [br EXCEPT !.sess = NoSession]
    /\ UNCHANGED <<link, cl, sk, tx, conn, todo, wait, mesh, told, setup>>

Calm == /\ todo = <<>> \/ cl.token = 0
        /\ tx = <<>> /\ wait = 0
        /\ conn.up = <<>> /\ conn.down = <<>> /\ conn.state # "broken"
        /\ \A s \in Slot : sk[s].q = <<>>
        /\ link \in {"open", "refused"} \/ (link = "down" /\ cl.closing)
Done == Calm /\ UNCHANGED vars

Step == Start \/ Connected \/ Write \/ Read \/ Notice
Next == \/ Step \/ BindEnds \/ Call \/ (\E s \in Slot : Recv(s))
        \/ BridgeTakes \/ MeshSends \/ Break \/ GraceEnds \/ Done

Spec == Init /\ [][Next]_vars

\* The poll steps the link, a bind's drive returns once it has its reply or the link
\* is not open, and the bridge serves what it is sent.
FairSpec == Spec /\ WF_vars(Step) /\ WF_vars(BindEnds) /\ WF_vars(BridgeTakes)

----------------------------------------------------------------------------
(* Properties.                                                             *)

\* The queues keep their bounds and the requests their order.
TypeOK ==
    /\ link \in {"down", "connecting", "handshake", "challenge", "opening", "open", "refused"}
    /\ \A s \in Slot : Len(sk[s].q) <= QueueMax /\ sk[s].num \in 0 .. Numbers /\ sk[s].groups \subseteq Group
    /\ Len(cl.batch) <= BatchMax
    /\ \A i, j \in 1 .. Len(tx) : i < j /\ "seq" \in DOMAIN tx[i] /\ "seq" \in DOMAIN tx[j] => tx[i].seq < tx[j].seq

\* What the bridge holds for the node is what the node asked for: once nothing is
\* under way, every bound socket is bound there with its groups and options and
\* nothing else is, whether the session was taken back or lost, unless the client
\* was told of a refusal, or a session was taken back that a request, or a refusal,
\* was lost of (tunnel_opened, tunnel_restore, tunnel_text).
Known == {[num |-> sk[s].num, life |-> sk[s].life, opt |-> sk[s].opt, groups |-> sk[s].groups] :
             s \in {r \in Slot : sk[r].bound}}
AtRest == Settled /\ conn.state = "alive"
Synced == AtRest /\ ~told.missed /\ ~told.noted => br.sess.socks = Known

\* What spec/tunnel.md:72 says: the client repeats what a dropped connection left
\* unanswered, so every bound socket is bound at the bridge with its groups and
\* options, unless the client was told of a refusal (tunnel_opened repeats nothing of
\* a session taken back).
RepeatsUnanswered == AtRest /\ ~told.noted => Known \subseteq br.sess.socks

\* A datagram sent on an open socket reaches the bridge after the socket is bound
\* there: none that is still open comes for a socket the bridge does not have, unless
\* the bridge refused its bind or a drop took it (tunnel_restore, batch_out).
NoneEarly == \A d \in mesh.stray : d.closed \/ d.refused \/ d.missed

\* What node/runtime.c:4168 says: the bye goes out first. A datagram sent on a socket
\* reaches the bridge before the socket is closed there too (sock_close holds no
\* batch back, and flushes none).
NoneOvertaken == \A d \in mesh.stray : d.refused \/ d.missed

\* What is under way from or to a closed socket is not given to the next one: whatever
\* leaves for the mesh, or a socket holds received, left by or came for its own
\* binding (tunnel_udp_open).
OwnDatagrams ==
    /\ \A d \in mesh.out : d.own
    /\ \A s \in Slot : \A i \in DOMAIN sk[s].q : sk[s].q[i].life = sk[s].life

\* A datagram meets the binding it was sent on or received for, and no other, in
\* both directions.
OwnBinding == NoneEarly /\ OwnDatagrams

\* A link that breaks comes back: from some time on it is open, unless the bridge
\* refuses the client or the node closes.
Reopens == <>[](link \in {"open", "refused"} \/ cl.closing)

=============================================================================
