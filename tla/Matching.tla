------------------------------- MODULE Matching -------------------------------
(***************************************************************************)
(* Which topic of one node meets which topic of another: interest,         *)
(* verdicts, lanes, the rebind hold and the handle gate                    *)
(* (transport/core.c, node/core.c, the topic operations of                 *)
(* node/runtime.c).                                                        *)
(*                                                                         *)
(* A node announces its topics as a blob, one entry per topic slot: the    *)
(* name's hash, the role, the generation of the binding. Each side judges  *)
(* the other's entries by asking for their names and schemas, and from     *)
(* its verdicts alone opens a writer lane, a reader lane or none for every *)
(* topic. Data carries only the writer's slot number, so a slot that is    *)
(* retired and bound to another name must never let data of one binding    *)
(* into a topic of the other, although announces are lost and every node   *)
(* acts on the blob it heard last.                                         *)
(*                                                                         *)
(* Two nodes. Announces go to the group and may be heard late or never;    *)
(* the exchange of details, of interest pages and of data goes from socket *)
(* to socket, in order. Every node runs a program of topic operations on   *)
(* its application's thread while its poll thread exchanges datagrams.     *)
(***************************************************************************)
EXTENDS Reflection

CONSTANTS
    Node,         \* the two nodes
    Setups,       \* the setups to run with, see setup
    MaxInFlight   \* bound: datagrams on their way to one node

VARIABLES
    nd,      \* the transport and node core of a node, see Fresh
    blobs,   \* [Node -> Seq(blob)]: what a node announced, by version
    net,     \* [Node -> Seq(datagram)]: what is on its way to a node's data socket
    pc,      \* [Node -> Nat]: operations of its program a node has done
    last,    \* the last sample delivered
    setup    \* a member of Setups: prog (each node's program), page (entries of a
             \* detail answer or interest page), external (nodes whose interest is
             \* paged), lossy (datagrams may be lost), forgets (nodes that may take
             \* a live peer for gone, once), drops (nodes that may take it for
             \* silent, once), late (nodes whose program begins when the peer's
             \* is done), observers (nodes that ask for all details) and walks
             \* (nodes whose application walks the mesh)

vars == <<nd, blobs, net, pc, last, setup>>

Peer(n) == CHOOSE m \in Node : m # n

----------------------------------------------------------------------------
(* Topics and entries. Schema "none" is an untyped topic. *)

Free == [st |-> "free", name |-> "none", kind |-> "topic", role |-> "off", rel |-> FALSE,
         schema |-> "none", gen |-> 0, rebind |-> 0, ring |-> {}, adopted |-> <<>>]

Announced(t) == t.st = "live"

Hole == [hash |-> "none", kind |-> "topic", role |-> "hole", rel |-> FALSE, gen |-> 0]

\* The interest of a node: an undefined or retired slot is a hole.
Blob(s) ==
    [a \in Slot |->
        LET t == s.topics[a] IN
        IF ~Announced(t) THEN Hole
        ELSE [hash |-> Hash[t.name], kind |-> t.kind, role |-> t.role, rel |-> t.rel,
              gen |-> t.gen]]

Same(t, e) == Announced(t) /\ Hash[t.name] = e.hash

\* Among the topics of Cand the first that is on, else the first.
Prefer(s, Cand) ==
    LET on == {c \in Cand : s.topics[c].role # "off"}
        of == IF on # {} THEN on ELSE Cand
    IN CHOOSE c \in of : \A d \in of : c <= d

ByIdentity(s, name) == {c \in Slot : Announced(s.topics[c]) /\ s.topics[c].name = name}
Nominated(s, e)     == {c \in Slot : Same(s.topics[c], e)}

\* An entry meets a topic when one side writes and the other reads; two
\* answerers of one request channel meet too, as rivals.
Overlap(t, e) == \/ Subs(t.role) /\ Pubs(e.role)
                 \/ Pubs(t.role) /\ Subs(e.role)
Meets(s, b) ==
    \E a \in Slot : Heard(b[a]) /\ \E c \in Nominated(s, b[a]) :
        LET t == s.topics[c] IN
        \/ Overlap(t, b[a])
        \/ t.kind = "req" /\ b[a].kind = "req" /\ Subs(t.role) /\ Subs(b[a].role)

----------------------------------------------------------------------------
(* What a node holds of its peer. *)

Pending(g) == [st |-> "pending", map |-> 0, read |-> FALSE, write |-> FALSE, gen |-> g]

NoFetch == [iver |-> 0, fver |-> 0, buf |-> <<>>, len |-> 0, idue |-> FALSE]

\* A peer as it is added to a slot: nothing judged, nothing matched.
NoPeer == [up |-> FALSE, verdict |-> [a \in Slot |-> Pending(0)], pub |-> {}, sub |-> {},
           claim |-> {}, w |-> {}, r |-> {}, seen |-> 0,
           view |-> [c \in Slot |-> "none"], fetch |-> NoFetch, due |-> FALSE,
           dormant |-> FALSE, refl |-> NoTable]

Fresh == NoPeer @@ [topics |-> [c \in Slot |-> Free], ver |-> 0, armed |-> FALSE,
                    hold |-> FALSE, pend |-> FALSE, gone |-> FALSE,
                    self |-> NoTable, mesh |-> {}, stale |-> FALSE]

\* The mesh is to be built again before the next look at it.
MeshBump(s) == [s EXCEPT !.stale = TRUE]

\* The peer's slot is given back.
Removed(s) == MeshBump(NoPeer @@ s)

\* The peer's interest: the blob held, or its pages once all of that
\* version are in.
Known(n, s)      == \/ Peer(n) \notin setup.external
                    \/ s.fetch.iver = s.ver
InterestOf(n, s) == IF Peer(n) \notin setup.external THEN blobs[Peer(n)][s.ver]
                    ELSE [a \in Slot |-> IF a <= s.fetch.len THEN s.fetch.buf[a] ELSE Hole]

----------------------------------------------------------------------------
(* The datagrams of the pairwise exchange: each names the version of the   *)
(* blob it is about.                                                       *)

DetailReq(v, want)             == [k |-> "req", ver |-> v, want |-> want]
DetailResp(v, det)             == [k |-> "resp", ver |-> v, det |-> det]
InterestReq(v, off)            == [k |-> "ireq", ver |-> v, off |-> off]
InterestResp(v, t, off, chunk) == [k |-> "page", ver |-> v, total |-> t, off |-> off,
                                   chunk |-> chunk]

----------------------------------------------------------------------------
(* Lanes. *)

\* mutant: the writer does not wait for the peer to apply the rebind
HeldNever(s, t) == FALSE
\* The rebind hold: nothing goes to a peer until it proved it applied our
\* announce at the slot's rebind version.
Held(s, t) == t.rebind # 0 /\ s.seen < t.rebind

\* mutant: an answer channel counts as reached before it is
GateOpenEager(s, c) == s.topics[c].kind = "req" => s.topics[c].ring # {}
\* The handle gate: a request lane opens once each answer channel the peer
\* subscribes has a writer lane to it.
GateOpen(s, c) ==
    s.topics[c].kind = "req" =>
        /\ s.topics[c].ring # {}
        /\ \A a \in s.topics[c].ring \ {c} :
              Pubs(s.topics[a].role) /\ a \in s.claim => a \in s.w

WriterUse(s, c) == Pubs(s.topics[c].role) /\ c \in s.sub /\ ~Held(s, s.topics[c])
ReaderUse(s, c) == Subs(s.topics[c].role) /\ c \in s.pub /\ (c \in s.r \/ GateOpen(s, c))

Put(set, c, in) == IF in THEN set \cup {c} ELSE set \ {c}

RematchOne(s, c) ==
    [s EXCEPT !.w = Put(@, c, WriterUse(s, c)), !.r = Put(@, c, ReaderUse(s, c))]

\* A writer lane that formed on a linked channel may open its request lane.
Rematch(s, c) ==
    LET s1   == RematchOne(s, c)
        reqs == {d \in s.topics[c].ring \ {c} : s.topics[d].kind = "req"}
    IN IF c \in s1.w \ s.w /\ reqs # {}
       THEN RematchOne(s1, CHOOSE d \in reqs : TRUE) ELSE s1

RematchAll(s) == FoldLeft(Rematch, s, [c \in Slot |-> c])

----------------------------------------------------------------------------
(* Applying the peer's interest. *)

\* The generation gate: a verdict on a binding the peer replaced is dropped.
Regen(v, e) == IF v.gen = e.gen THEN v
               ELSE IF v.st = "pending" THEN [v EXCEPT !.gen = e.gen] ELSE Pending(e.gen)

\* The verdict on an entry as the apply leaves it: pending again when the
\* hash no longer names the topic bound, or a live twin took its place.
Reviewed(s, v0, e) ==
    IF e.role = "hole" THEN v0
    ELSE LET v == Regen(v0, e) IN
         IF e.role = "off" \/ v.st # "ok" THEN v
         ELSE LET t    == s.topics[v.map]
                  twin == ByIdentity(s, t.name)
              IN IF Hash[t.name] # e.hash THEN Pending(v.gen)
                 ELSE IF /\ t.role = "off" \/ t.st = "retired"
                         /\ twin # {} /\ Prefer(s, twin) # v.map
                      THEN Pending(v.gen) ELSE v

\* The entries that count: judged, not parked, of the same kind.
Counts(s, b) == {a \in Slot : /\ Heard(b[a]) /\ s.verdict[a].st = "ok"
                              /\ s.topics[s.verdict[a].map].st # "retired"
                              /\ s.topics[s.verdict[a].map].kind = b[a].kind}

\* A reliable subscription refuses a best effort publisher.
QosFits(t, e) == Subs(t.role) /\ t.rel => e.rel

PubBits(s, b) == {s.verdict[a].map : a \in {x \in Counts(s, b) :
                    /\ Pubs(b[x].role) /\ s.verdict[x].read
                    /\ QosFits(s.topics[s.verdict[x].map], b[x])}}
SubBits(s, b) == {s.verdict[a].map : a \in {x \in Counts(s, b) :
                    Subs(b[x].role) /\ s.verdict[x].write}}

\* Every topic the peer subscribes, pending, decided or refused.
ClaimBits(s, b) ==
    UNION {IF s.verdict[a].st = "pending" THEN Nominated(s, b[a])
           ELSE IF s.verdict[a].st = "ok" THEN {s.verdict[a].map} ELSE {} :
           a \in {x \in Slot : Heard(b[x]) /\ Subs(b[x].role)}}

ApplyInterest(s, b) ==
    LET s1 == [s EXCEPT !.verdict = [a \in Slot |-> Reviewed(s, @[a], b[a])]]
    IN RematchAll([s1 EXCEPT !.pub = PubBits(s1, b), !.sub = SubBits(s1, b),
                             !.claim = ClaimBits(s1, b)])

\* The entries whose details are missing.
Wants(s, b) == {a \in Slot : /\ Heard(b[a]) /\ s.verdict[a].st = "pending"
                             /\ Nominated(s, b[a]) # {}
                             /\ Overlap(s.topics[Prefer(s, Nominated(s, b[a]))], b[a])}

\* Every interest applied is reflected.
FireInterest(s, b) == MeshBump([s EXCEPT !.refl = ReflectInterest(@, b)])

\* What a node asks its peer for.
Asks(n, s, b) == Wants(s, b) \cup IF n \in setup.observers THEN GreedyWants(s.refl, b) ELSE {}

\* An apply and the check for details still missing that follows it.
Applied(n, s, b) == LET s1 == FireInterest(ApplyInterest(s, b), b)
                    IN [s1 EXCEPT !.due = @ \/ Asks(n, s1, b) # {}]

\* A slot is for a peer that meets us, for every peer as an observer.
Admits(n, s, b) == n \in setup.observers \/ Meets(s, b)

\* A silent peer that returned.
Resumed(s) == IF s.dormant THEN MeshBump([s EXCEPT !.dormant = FALSE]) ELSE s

Added(s) == IF s.up THEN s ELSE MeshBump([s EXCEPT !.up = TRUE])

\* The peer's blob of the version held, judged again: a peer that does not
\* meet us gives its slot back, an external interest is paged in first.
PeerUp(n, s) ==
    IF ~Known(n, s)
    THEN [Resumed(Added(s)) EXCEPT !.fetch.idue = TRUE]
    ELSE IF Admits(n, s, InterestOf(n, s))
         THEN Resumed(Applied(n, Added(s), InterestOf(n, s)))
         ELSE Removed(s)

----------------------------------------------------------------------------
(* Details: names and schemas. *)

\* The schema gate: a generic reader takes anything, a typed one an
\* identical schema or one that holds all it reads.
Reads(reader, writer) ==
    \/ reader = "none"
    \/ writer # "none" /\ (reader = writer \/ <<reader, writer>> \in Narrower)

\* The delivery map: what a reader decodes the peer's samples with.
View(ours, theirs) == IF ours # "none" /\ ours = theirs THEN "ours" ELSE theirs

JudgeDetail(s, a, d) ==
    LET cand == ByIdentity(s, d.name)
        c    == Prefer(s, cand)
        ours == s.topics[c].schema
        read == Reads(ours, d.schema)
    IN IF s.verdict[a].st # "pending" THEN s
       ELSE IF cand = {} THEN [s EXCEPT !.verdict[a].st = "dissolved"]
       ELSE [s EXCEPT !.verdict[a] = [@ EXCEPT !.st = "ok", !.map = c, !.read = read,
                                               !.write = Reads(d.schema, ours)],
                      !.view[c] = IF read THEN View(ours, d.schema) ELSE @]

\* A response older than the blob held may describe a binding rebound since.
FreshEnough(s, m) == m.ver >= s.ver

ApplyDetails(n, s, m) ==
    LET todo  == {a \in DOMAIN m.det : s.verdict[a].st = "pending"}
        s1    == FoldLeft(LAMBDA x, a : IF a \in DOMAIN m.det
                                        THEN [x EXCEPT !.refl = ReflectDetail(@, a, m.det[a])] ELSE x,
                          IF m.det # <<>> THEN MeshBump(s) ELSE s, [a \in Slot |-> a])
        s2    == FoldLeft(LAMBDA x, a : IF a \in todo THEN JudgeDetail(x, a, m.det[a]) ELSE x,
                          s1, [a \in Slot |-> a])
    IN IF ~s.up \/ ~FreshEnough(s, m) THEN s
       ELSE IF todo # {} /\ Known(n, s) THEN Applied(n, s2, InterestOf(n, s2)) ELSE s2

\* The first entries that fit one answer.
Page(A) == {a \in A : Cardinality({b \in A : b < a}) < setup.page}

\* The answer to a request: the entries asked for that are on.
Answer(n, m) ==
    LET on == {a \in m.want : nd[n].topics[a].role # "off"}
    IN DetailResp(Len(blobs[n]), [a \in Page(on) |->
                    [name |-> nd[n].topics[a].name, schema |-> nd[n].topics[a].schema]])

\* A request names the version its sender applied: what was held until that
\* version may go.
SeenVersion(n, s, v) ==
    LET freed == {c \in Slot : Announced(s.topics[c]) /\ s.topics[c].rebind \in s.seen + 1 .. v}
        s1    == FoldLeft(LAMBDA x, c : IF c \in freed THEN Rematch(x, c) ELSE x,
                          [s EXCEPT !.seen = v], [c \in Slot |-> c])
    IN IF ~s.up \/ v <= s.seen THEN s
       ELSE IF s1.w # s.w /\ Known(n, s) THEN FireInterest(s1, InterestOf(n, s)) ELSE s1

----------------------------------------------------------------------------
(* Pages of an external interest. *)

Total(n) == LET on == {c \in Slot : Announced(nd[n].topics[c])}
            IN IF on = {} THEN 0 ELSE CHOOSE c \in on : \A d \in on : d <= c

\* One page of the interest as it is now, under the version last announced.
InterestPage(n, m) ==
    LET off == IF m.off > Total(n) THEN Total(n) ELSE m.off
        end == IF off + setup.page > Total(n) THEN Total(n) ELSE off + setup.page
    IN InterestResp(Len(blobs[n]), Total(n), off,
                    [i \in 1 .. end - off |-> Blob(nd[n])[off + i]])

\* Pages write the buffer the interest is read from: only the version held.
PageTaken(s, m) == m.ver = s.ver /\ s.fetch.iver # m.ver

ApplyPage(n, s, m) ==
    LET f  == s.fetch
        f1 == IF f.fver = m.ver /\ f.len = m.total THEN f
              ELSE [f EXCEPT !.fver = m.ver, !.buf = <<>>, !.len = m.total]
        f2 == [f1 EXCEPT !.buf = @ \o m.chunk]
    IN IF ~s.up \/ ~PageTaken(s, m) THEN s
       ELSE IF m.off # Len(f1.buf) THEN [s EXCEPT !.fetch = [f1 EXCEPT !.idue = TRUE]]
       ELSE IF Len(f2.buf) < m.total
            THEN [s EXCEPT !.fetch = [f2 EXCEPT !.idue = @ \/ m.chunk # <<>>]]
       ELSE PeerUp(n, [s EXCEPT !.fetch = [f2 EXCEPT !.iver = m.ver, !.fver = 0]])

----------------------------------------------------------------------------
(* The mesh a node shows. *)

\* The tables it is made of: our own and that of a peer that is up.
PeerLive(s)  == s.up /\ ~s.dormant
Tables(s) == [w \in IF PeerLive(s) THEN {0, 1} ELSE {0} |-> IF w = 0 THEN s.self ELSE s.refl]

\* A look at the mesh builds it when something changed.
Looked(s) ==
    LET s1 == [s EXCEPT !.self = Folded(@), !.refl = IF PeerLive(s) THEN Folded(@) ELSE @]
    IN IF s.stale THEN [s1 EXCEPT !.mesh = MeshBuild(Tables(s1)), !.stale = FALSE] ELSE s

----------------------------------------------------------------------------
(* Readiness: what a send waits for. *)

\* mutant: a decided entry resolves although its lane is still held
UnresolvedAtPending(s, c, b) ==
    {a \in Slot : /\ Heard(b[a]) /\ Same(s.topics[c], b[a])
                  /\ s.verdict[a].st = "pending" /\ Overlap(s.topics[c], b[a])}
\* The peer's entries a topic may yet match.
UnresolvedAt(s, c, b) ==
    {a \in Slot : /\ Heard(b[a]) /\ Same(s.topics[c], b[a])
                  /\ \/ s.verdict[a].st = "pending" /\ Overlap(s.topics[c], b[a])
                     \/ /\ s.verdict[a].st = "ok" /\ Held(s, s.topics[c])
                        /\ Subs(b[a].role) /\ Pubs(s.topics[c].role)}

Resolved(n, c) ==
    LET s == nd[n] IN
    PeerLive(s) /\ Announced(s.topics[c]) /\ s.topics[c].role # "off" =>
        Known(n, s) /\ UnresolvedAt(s, c, InterestOf(n, s)) = {}

----------------------------------------------------------------------------
(* The operations of the application. *)

\* Our interest changed: announce it and replay the peer's against it, or
\* leave that to the release of a hold.
Readvertise(n, s) ==
    LET s1 == MeshBump([s EXCEPT !.pend = FALSE, !.self = ReflectSelf(@, s.topics)]) IN
    /\ blobs' = [blobs EXCEPT ![n] = Append(@, Blob(s1))]
    /\ nd' = [nd EXCEPT ![n] = IF s1.up /\ ~s1.dormant THEN PeerUp(n, s1) ELSE s1]

InterestChanged(n, s) ==
    IF s.hold THEN nd' = [nd EXCEPT ![n] = [s EXCEPT !.pend = TRUE]] /\ UNCHANGED blobs
    ELSE Readvertise(n, s)

\* mutant: a verdict that found no topic stays when one is created
RependDissolvedNot(s) == s
\* A verdict that found no topic is only as good as the topics were then.
RependDissolved(s) ==
    [s EXCEPT !.verdict = [a \in Slot |-> IF @[a].st = "dissolved" THEN Pending(@[a].gen) ELSE @[a]]]

\* What a rebind cuts: our verdicts on the old occupant and their bits.
Severed(s, c) ==
    [s EXCEPT !.verdict = [a \in Slot |-> IF @[a].map = c THEN Pending(@[a].gen) ELSE @[a]],
              !.pub = @ \ {c}, !.sub = @ \ {c}, !.claim = @ \ {c}]

\* The delivery map of the old occupant goes too.
Unbound(s, c) == [s EXCEPT !.view[c] = "none"]

Live(s, name) == {c \in Slot : Announced(s.topics[c]) /\ s.topics[c].name = name}

\* No other slot of the name is on, or is of another kind.
NameFree(s, def) ==
    \A c \in Live(s, def.name) : /\ s.topics[c].kind = def.kind
                                 /\ s.topics[c].role = "off" \/ def.role = "off"

Bound(t, def) == [t EXCEPT !.st = "live", !.name = def.name, !.kind = def.kind,
                           !.role = def.role, !.rel = def.rel, !.schema = def.schema,
                           !.adopted = def.adopted]

\* A retired slot taken again. Only an identical binding keeps what peers
\* know of it; any other gets a generation and the version it starts at.
Reuse(s, c, def, forced, v) ==
    LET t       == s.topics[c]
        changed == forced \/ t.name # def.name \/ t.kind # def.kind \/ t.schema # def.schema
        t1      == IF ~changed THEN Bound(t, def)
                   ELSE [Bound(t, def) EXCEPT !.gen = (@ + 1) % 256, !.rebind = v]
        s1      == [s EXCEPT !.topics[c] = t1]
        s2      == Rematch(RependDissolved(IF changed THEN Severed(s1, c) ELSE s1), c)
    IN IF changed THEN Unbound(s2, c) ELSE s2

Define(s, c, def) == Rematch(RependDissolved([s EXCEPT !.topics[c] = Bound(Free, def)]), c)

\* The slot a create takes: one retired under this name and kind, else any
\* retired one, else the next never used.
SlotFor(s, def) ==
    LET retired == {c \in Slot : s.topics[c].st = "retired"}
        exact   == {c \in retired : s.topics[c].name = def.name /\ s.topics[c].kind = def.kind}
        from    == IF exact # {} THEN exact ELSE IF retired # {} THEN retired
                   ELSE {c \in Slot : s.topics[c].st = "free"}
    IN CHOOSE c \in from : \A d \in from : c <= d

\* A slot leaves its handle's ring; a lone survivor is unlinked too.
Unlinked(s, c) ==
    LET rest == s.topics[c].ring \ {c}
    IN [s EXCEPT !.topics = [d \in Slot |->
            IF d = c THEN [@[d] EXCEPT !.ring = {}]
            ELSE IF d \in rest
                 THEN [@[d] EXCEPT !.ring = IF Cardinality(rest) = 1 THEN {} ELSE rest]
                 ELSE @[d]]]

Park(s, c) == Rematch(Unlinked([s EXCEPT !.topics[c].role = "off",
                                         !.topics[c].st = "retired"], c), c)

Op(n)      == setup.prog[n][pc[n] + 1]
Done(n)    == pc[n] = Len(setup.prog[n])
Does(n, k) == /\ ~Done(n) /\ (n \in setup.late => Done(Peer(n)))
              /\ Op(n).op = k /\ pc' = [pc EXCEPT ![n] = @ + 1]
Rest       == UNCHANGED <<net, last, setup>>

\* A handle that takes its type from the mesh.
Pick(s, def)    == ReflectPick(s.mesh, Tables(s), "topic", Stem[def.name], "topic", Pubs(def.role))
Adopted(s, def) == LET p == Pick(s, def)
                   IN IF p.found THEN [def EXCEPT !.schema = p.schema, !.rel = p.rel, !.adopted = p.gen]
                      ELSE [def EXCEPT !.schema = "none", !.rel = FALSE, !.adopted = p.gen]

Create(n) ==
    /\ Does(n, "create") /\ Rest
    /\ LET s   == IF Op(n).reflect THEN Looked(nd[n]) ELSE nd[n]
           def == IF Op(n).reflect THEN Adopted(s, Op(n).def) ELSE Op(n).def
           c   == SlotFor(s, def)
       IN IF NameFree(s, def)
          THEN InterestChanged(n,
                 IF s.topics[c].st = "free" THEN Define(s, c, def)
                 ELSE Reuse(s, c, def, FALSE, Len(blobs[n]) + 1))
          ELSE nd' = [nd EXCEPT ![n] = s] /\ UNCHANGED blobs

Retire(n) ==
    /\ Does(n, "retire") /\ Rest
    /\ \E c \in Live(nd[n], Op(n).name) : InterestChanged(n, Park(nd[n], c))

SetRole(n) ==
    /\ Does(n, "role") /\ Rest
    /\ \E c \in Live(nd[n], Op(n).name) :
          InterestChanged(n, Rematch([nd[n] EXCEPT !.topics[c].role = Op(n).role], c))

\* A live topic takes another type: retired and reused in one step.
Retyped(n, s, c, def) == Reuse(Park(s, c), c, def, TRUE, Len(blobs[n]) + 1)

Retype(n) ==
    /\ Does(n, "retype") /\ Rest
    /\ \E c \in Live(nd[n], Op(n).name) :
          InterestChanged(n, Retyped(n, nd[n], c, [nd[n].topics[c] EXCEPT !.schema = Op(n).schema]))

\* A handle typed by the mesh looks again and follows a definition that moved.
Refresh(n) ==
    /\ Does(n, "refresh") /\ Rest
    /\ \E c \in Live(nd[n], Op(n).name) :
          LET s == Looked(nd[n])
              t == s.topics[c]
          IN IF Pick(s, t).found /\ Pick(s, t).gen # t.adopted
             THEN InterestChanged(n, Retyped(n, s, c, Adopted(s, t)))
             ELSE nd' = [nd EXCEPT ![n] = s] /\ UNCHANGED blobs

\* The channels of a handle become one ring.
Link(n) ==
    /\ Does(n, "link") /\ Rest /\ UNCHANGED blobs
    /\ LET ring == {c \in Slot : Announced(nd[n].topics[c]) /\ nd[n].topics[c].name \in Op(n).names}
           s    == [nd[n] EXCEPT !.topics = [c \in Slot |-> IF c \in ring THEN [@[c] EXCEPT !.ring = ring]
                                                          ELSE @[c]]]
       IN nd' = [nd EXCEPT ![n] = FoldLeft(LAMBDA x, c : IF c \in ring /\ x.topics[c].kind = "req"
                                                         THEN Rematch(x, c) ELSE x,
                                           s, [c \in Slot |-> c])]

Hold(n) ==
    /\ Does(n, "hold") /\ Rest /\ UNCHANGED blobs
    /\ nd' = [nd EXCEPT ![n].hold = TRUE]

Release(n) ==
    /\ Does(n, "release") /\ Rest
    /\ LET s == [nd[n] EXCEPT !.hold = FALSE] IN
       IF s.pend THEN Readvertise(n, s) ELSE nd' = [nd EXCEPT ![n] = s] /\ UNCHANGED blobs

----------------------------------------------------------------------------
(* The poll thread. *)

Room(n, k)  == Len(net[n]) + k <= MaxInFlight

\* An announce of the peer is heard: the current one, or one of an older
\* version that is still newer than the blob held.
Hear(n, v) ==
    /\ v > nd[n].ver \/ (v = nd[n].ver /\ ~PeerLive(nd[n]))
    /\ UNCHANGED <<blobs, net, pc, last, setup>>
    /\ nd' = [nd EXCEPT ![n] = PeerUp(n, [@ EXCEPT !.ver = v])]

\* The peer is taken for gone and forgotten.
Forget(n) ==
    /\ n \in setup.forgets /\ nd[n].up /\ ~nd[n].gone
    /\ nd' = [nd EXCEPT ![n] = [Removed(@) EXCEPT !.gone = TRUE]]
    /\ UNCHANGED <<blobs, net, pc, last, setup>>

\* The peer fell silent: out of flow control, what is known of it stays.
Silent(s) == MeshBump([s EXCEPT !.dormant = TRUE, !.gone = TRUE])

Drop(n) ==
    /\ n \in setup.drops /\ PeerLive(nd[n]) /\ ~nd[n].gone
    /\ nd' = [nd EXCEPT ![n] = Silent(@)]
    /\ UNCHANGED <<blobs, net, pc, last, setup>>

\* The application walks the mesh, or the entities of the peer alone.
Walk(n) ==
    /\ n \in setup.walks /\ UNCHANGED <<blobs, net, pc, last, setup>>
    /\ \/ nd' = [nd EXCEPT ![n] = Looked(@)]
       \/ nd[n].up /\ nd' = [nd EXCEPT ![n].refl = Folded(@)]

\* The detail requester: what is due goes out; while something went out the
\* timer asks again for what is still missing.
DetailStep(n, expired) ==
    LET s    == nd[n]
        f    == s.fetch
        ext  == Peer(n) \in setup.external /\ f.iver # s.ver
        ireq == IF PeerLive(s) /\ ext /\ (f.idue \/ expired)
                THEN <<InterestReq(s.ver, IF f.fver = s.ver THEN Len(f.buf) ELSE 0)>> ELSE <<>>
        want == IF PeerLive(s) /\ Known(n, s) THEN Asks(n, s, InterestOf(n, s)) ELSE {}
        req  == IF (s.due \/ expired) /\ want # {}
                THEN <<DetailReq(s.ver, want)>> ELSE <<>>
    IN /\ IF expired THEN s.armed ELSE s.due \/ f.idue
       /\ Room(Peer(n), Len(ireq \o req))
       /\ net' = [net EXCEPT ![Peer(n)] = @ \o ireq \o req]
       /\ nd' = [nd EXCEPT ![n] = [s EXCEPT !.due = FALSE, !.fetch.idue = FALSE,
                                            !.armed = ireq \o req # <<>>]]
       /\ UNCHANGED <<blobs, pc, last, setup>>

\* A sample goes out on a writer lane under the slot's number. A caller's
\* request names the answer channels its handle reads.
Publish(n, c) ==
    /\ PeerLive(nd[n]) /\ c \in nd[n].w /\ Room(Peer(n), 1)
    /\ net' = [net EXCEPT ![Peer(n)] = Append(@,
                 [k |-> "data", slot |-> c, name |-> nd[n].topics[c].name,
                  schema |-> nd[n].topics[c].schema,
                  answers |-> {nd[n].topics[d].name : d \in
                                {x \in nd[n].topics[c].ring \ {c} : Subs(nd[n].topics[x].role)}}])]
    /\ UNCHANGED <<nd, blobs, pc, last, setup>>

\* What a sample meets: the topic its slot number demuxes to, the schema it
\* is decoded with, and the answers its handle cannot send back.
Delivery(s, m) ==
    LET c    == s.verdict[m.slot].map
        t    == s.topics[c]
        view == IF s.view[c] = "ours" THEN t.schema ELSE s.view[c]
    IN [sent |-> <<m.name, m.schema>>, got |-> <<t.name, view>>,
        lost |-> IF t.kind # "req" THEN {}
                 ELSE {s.topics[d].name : d \in {x \in t.ring \ {c} :
                         s.topics[x].name \in m.answers /\ x \notin s.w}}]

Delivers(s, m) == s.up /\ s.verdict[m.slot].map \in s.r

Receive(n) ==
    /\ net[n] # <<>>
    /\ UNCHANGED <<blobs, pc, setup>>
    /\ LET m    == Head(net[n])
           s    == nd[n]
           rest == [net EXCEPT ![n] = Tail(@)]
           back(x) == [rest EXCEPT ![Peer(n)] = Append(@, x)]
       IN \/ /\ m.k = "req" /\ Room(Peer(n), 1)
             /\ net' = back(Answer(n, m))
             /\ nd' = [nd EXCEPT ![n] = SeenVersion(n, s, m.ver)] /\ UNCHANGED last
          \/ /\ m.k = "resp" /\ net' = rest
             /\ nd' = [nd EXCEPT ![n] = ApplyDetails(n, s, m)] /\ UNCHANGED last
          \/ /\ m.k = "ireq" /\ Room(Peer(n), 1)
             /\ net' = back(InterestPage(n, m)) /\ UNCHANGED <<nd, last>>
          \/ /\ m.k = "page" /\ net' = rest
             /\ nd' = [nd EXCEPT ![n] = ApplyPage(n, s, m)] /\ UNCHANGED last
          \/ /\ m.k = "data" /\ net' = rest /\ UNCHANGED nd
             /\ last' = IF Delivers(s, m) THEN Delivery(s, m) ELSE last

Lose(n) ==
    /\ setup.lossy /\ net[n] # <<>>
    /\ net' = [net EXCEPT ![n] = Tail(@)]
    /\ UNCHANGED <<nd, blobs, pc, last, setup>>

NoSample == [sent |-> <<"none", "none">>, got |-> <<"none", "none">>, lost |-> {}]

Init ==
    /\ setup \in Setups
    /\ nd = [n \in Node |-> Fresh]
    /\ blobs = [n \in Node |-> <<Blob(Fresh)>>]
    /\ net = [n \in Node |-> <<>>]
    /\ pc = [n \in Node |-> 0]
    /\ last = NoSample

Next == \E n \in Node :
    \/ Create(n) \/ Retire(n) \/ SetRole(n) \/ Retype(n) \/ Refresh(n) \/ Link(n) \/ Hold(n) \/ Release(n)
    \/ \E v \in 1 .. Len(blobs[Peer(n)]) : Hear(n, v)
    \/ Forget(n) \/ Drop(n) \/ Walk(n) \/ Receive(n) \/ Lose(n)
    \/ \E x \in BOOLEAN : DetailStep(n, x)
    \/ \E c \in Slot : Publish(n, c)

Spec == Init /\ [][Next]_vars

----------------------------------------------------------------------------
(* Properties. *)

\* The topic a node's slots and lanes may hold, whatever the schedule.
TypeOK ==
    /\ \A n \in Node :
         LET s == nd[n] IN
         /\ s.ver \in 0 .. Len(blobs[Peer(n)])
         /\ s.seen \in 0 .. Len(blobs[n])
         /\ s.pub \cup s.sub \cup s.claim \cup s.w \cup s.r \subseteq Slot
         /\ ~s.up => s.w \cup s.r \cup s.pub \cup s.sub = {}
         /\ \A a \in Slot : s.verdict[a].map \in {0} \cup Slot
    /\ \A n \in Node : Len(net[n]) <= MaxInFlight

\* A sample reaches a topic of the name it was sent under, and is decoded
\* with the schema it was sent with: retiring, rebinding and retyping slots
\* never crosses two topics, although the slot number is all it carries.
RightTopic == last.sent = last.got

\* When a request reaches its handler, the handler's answers have a lane to
\* every answer channel the caller's handle reads (a reply written before
\* its lane forms is never resent).
Answerable == last.lost = {}

\* Nothing is under way and everyone holds the newest blob.
Calm == \A n \in Node :
    LET s == nd[n] IN
    /\ net[n] = <<>> /\ ~s.due /\ ~s.fetch.idue /\ ~s.armed /\ ~s.hold /\ ~s.dormant
    /\ s.ver = Len(blobs[Peer(n)])
    /\ s.up \/ ~Admits(n, s, Blob(nd[Peer(n)]))

\* Topic c of n, a writer, and topic d of its peer, a reader, are to match.
Fits(n, c, d) ==
    LET t == nd[n].topics[c]
        u == nd[Peer(n)].topics[d]
    IN /\ Announced(t) /\ Announced(u) /\ t.name = u.name /\ t.kind = u.kind
       /\ Pubs(t.role) /\ Subs(u.role) /\ (u.rel => t.rel) /\ Reads(u.schema, t.schema)

\* The reader's handle can answer the writer, as far as the writer listens.
CanAnswer(n, d) ==
    LET s == nd[Peer(n)] IN
    s.topics[d].kind = "req" =>
        /\ s.topics[d].ring # {}
        /\ \A a \in s.topics[d].ring \ {d} : \A b \in Slot :
              Same(s.topics[a], Blob(nd[n])[b]) /\ Pubs(s.topics[a].role)
                  /\ Subs(nd[n].topics[b].role) => Fits(Peer(n), a, b)

\* Once nothing is under way every pair of topics that fits is matched on
\* both sides, whatever was lost, paged, rebound or retired on the way; only
\* the rebind hold may still keep a writer lane shut.
CalmIsMatched ==
    Calm => \A n \in Node : \A c, d \in Slot :
        Fits(n, c, d) /\ CanAnswer(n, d) =>
            /\ c \in nd[n].w \/ Held(nd[n], nd[n].topics[c])
            /\ d \in nd[Peer(n)].r

\* The rebind hold ends: once nothing is under way no writer lane waits for
\* a proof that its peer applied the announce.
HoldEnds ==
    Calm => \A n \in Node : \A c, d \in Slot :
        Fits(n, c, d) /\ CanAnswer(n, d) => ~Held(nd[n], nd[n].topics[c])

\* A topic that resolved (a send on it would not wait) has a writer lane to
\* every reader in the newest blob heard: the match wait never lets a send
\* go before the lanes it waits for, whatever was judged, held or paged.
ReadyIsMatched ==
    \A n \in Node : \A c, d \in Slot :
        (/\ PeerLive(nd[n]) /\ nd[n].ver = Len(blobs[Peer(n)])
         /\ ~nd[n].pend /\ ~nd[Peer(n)].pend
         /\ Fits(n, c, d) /\ Resolved(n, c)) => c \in nd[n].w

\* What the mesh and the peer walks show is what the tables hold: nothing
\* that changes a table, a peer's liveness or our own topics leaves a walk
\* stale, and no channel is shown in two entities.
MeshCurrent ==
    \A n \in Node :
        LET s     == nd[n]
            fresh == [w \in DOMAIN Tables(s) |-> [Tables(s)[w] EXCEPT !.ent = Entities(Tables(s)[w])]]
        IN /\ ~s.stale => s.mesh = MeshBuild(fresh)
           /\ \A w \in DOMAIN fresh :
                 /\ ~Tables(s)[w].dirty => Tables(s)[w].ent = fresh[w].ent
                 /\ \A e, f \in fresh[w].ent :
                       e # f => (e.primary \cup e.parts) \cap (f.primary \cup f.parts) = {}

Truly(ch, t) == ch.name = t.name /\ ch.schema = t.schema

\* Once nothing is under way a node shows its peer as it is: the slots it
\* announces, for each one judged the name and the schema it has now, and to
\* an observer every entity, none of them in halves, although slots passed
\* from name to name and details crossed announces on the way.
ReflectsTruth ==
    Calm => \A n \in {x \in Node : nd[x].up} :
        LET s == nd[n]
            p == nd[Peer(n)]
        IN /\ \A a \in Slot :
                 LET ch == s.refl.chan[a] IN
                 /\ ch.present = (Announced(p.topics[a]) /\ p.topics[a].role # "off")
                 /\ ch.present /\ s.verdict[a].st # "pending" => Truly(ch, p.topics[a])
           /\ n \in setup.observers => Entities(s.refl) = Entities(p.self)

\* What a node shows of others is what its tables hold, and in the end the truth.
ShownTrue == MeshCurrent /\ ReflectsTruth

\* An observer is shown the schema every topic has now.
ObserverSeesTypes ==
    Calm => \A n \in setup.observers : \A a \in Slot :
        nd[n].refl.chan[a].present => Truly(nd[n].refl.chan[a], nd[Peer(n)].topics[a])
=============================================================================
