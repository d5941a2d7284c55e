------------------------------ MODULE Discovery ------------------------------
(***************************************************************************)
(* Who knows whom: the peer directory of every node on a multicast group   *)
(* (discovery/core.c, discovery/records.c, discovery/runtime.c).           *)
(*                                                                         *)
(* Every node announces itself to the group: a header with the version of  *)
(* its interest blob and how long ago that changed, now and then the blob  *)
(* itself. A receiver keeps a record per uuid, judges a blob against its   *)
(* own interest and gives a match one of its few slots. A slot is what the *)
(* data path works with, so it must end up held on both sides or on        *)
(* neither, although announces, asks and replies are lost and overtake     *)
(* each other, interests change, nodes leave, crash and restart.           *)
(*                                                                         *)
(* A blob is named by its owner and version: Interest[n][v] is what node n *)
(* wants at version v. Whom a datagram reaches, the group reaches: the UNI *)
(* copies of a seed peer are left out. Of several candidates the code      *)
(* takes the oldest heard or the lowest place; here it takes any.          *)
(***************************************************************************)
EXTENDS Integers, Sequences, FiniteSetsExt

CONSTANTS
    Node,        \* the uuids
    Interest,    \* [Node -> Seq(SUBSET Topic)]: the blob of each version
    External,    \* nodes whose interest does not fit the blob and is pulled
    Observers,   \* nodes that meet every peer
    Reach,       \* [Node -> SUBSET Node]: whom a node's datagrams reach
    Cap,         \* slots a node starts with (max_peers)
    Setups,      \* the setups to run with, see setup
    AskTries,    \* sends of one ask
    Margin,      \* clock steps of the judge margin
    MaxInFlight, \* bound: datagrams of one node to another under way at a send
    Gathering,   \* TRUE: interests change within the gather after the open
    Leavers      \* nodes that may close with a BYE

ASSUME DiscoveryAssumption ==
    /\ IsFiniteSet(Node) /\ Reach \in [Node -> SUBSET Node]
    /\ {Cap, Margin} \subseteq Nat /\ {AskTries, MaxInFlight} \subseteq Nat \ {0}
    /\ Setups \subseteq [hook : BOOLEAN, recs : Nat, endpoint : [Node -> Node], repeats : Nat, losses : Nat,
                        drops : Nat, solicits : Nat, ticks : Nat, crashers : SUBSET Node]

VARIABLES
    dir,      \* a node's directory: records, slots_opened, distrust, loose, left
    self,     \* what a node says of itself
    net,      \* datagrams in flight
    clock,    \* the time every node reads
    setup,    \* a member of Setups: hook (an allocator lets the slots grow), recs
              \* (records held), endpoint (each uuid's: a restarted process has
              \* another uuid there), repeats (sends that repeat the opening), and
              \* the bounds losses (datagrams), drops (live peers taken for
              \* silent), solicits (by the application), ticks (of the clock) and
              \* crashers (nodes that may stop without a BYE)
    faults    \* losses, drops and solicits so far, and which
              \* node forgot a live peer that kept it

vars == <<dir, self, net, clock, setup, faults>>

Others(a) == Node \ {a}
AskBits   == {"fetch", "match"}

Blank == [state |-> "none", slot |-> "none", got |-> 0, ver |-> 0, adv |-> 0,
          want |-> "no", flags |-> {}, owed |-> {}, tries |-> 0]
NewRecord == [Blank EXCEPT !.state = "active"]

Live(a)       == self[a].phase = "up"
Known(d)      == {b \in Node : d.rec[b].state # "none"}
Slotted(d)    == {b \in Node : d.rec[b].slot # "none"}
Dropped(d)    == {b \in Node : d.rec[b].state = "dropped"}

Meets(a, va, b, vb) == Interest[a][va] \cap Interest[b][vb] # {}

\* The admit hook: an observer meets all, an external interest not pulled
\* yet is taken on loan, otherwise both interests share a topic or not.
Verdict(a, va, b, v, got) ==
    IF a \in Observers THEN "yes"
    ELSE IF b \in External /\ got # v THEN "loan"
    ELSE IF Meets(a, va, b, v) THEN "yes" ELSE "no"

----------------------------------------------------------------------------
(* One record. *)

\* The tries are read only while an ask is owed, and set when one starts.
Settle(r, bits) ==
    [r EXCEPT !.owed = @ \ bits, !.tries = IF (r.owed \ bits) \cap AskBits = {} THEN 0 ELSE @]

\* An ask goes AskTries times; after one that went unanswered only once.
Tries(r) == IF "missed" \in r.flags THEN 1 ELSE AskTries
Ask(r, bit) ==
    IF r.state # "active" THEN r
    ELSE [r EXCEPT !.owed = @ \cup {bit},
                   !.tries = IF r.owed \cap AskBits # {} THEN @
                             ELSE Tries(r)]

WantsBlob(r) == r.ver < r.adv \/ "refetch" \in r.flags

FetchCheck(r) ==
    IF ~WantsBlob(r) THEN Settle(r, {"fetch"})
    ELSE IF "fetch" \in r.owed THEN r ELSE Ask(r, "fetch")

Waiting(r) == r.state = "active" /\ r.slot = "none" /\ r.want # "no"

Offer(r) == FetchCheck([r EXCEPT !.flags = @ \cup {"refetch"}])

GiveBack(r) ==
    IF r.slot = "none" THEN r
    ELSE [Settle(r, {"match"}) EXCEPT !.slot = "none", !.got = 0]

\* mutant: a match without a slot is never told
FullForNever(r) == FALSE
\* We hold no slot for a match and promised none: targeted sends say FULL.
FullFor(r) == ~setup.hook /\ r.want = "yes" /\ r.slot = "none" /\ "refetch" \notin r.flags

----------------------------------------------------------------------------
(* One directory. An operator that must choose returns the set of outcomes. *)

With(d, b, r) == [d EXCEPT !.rec[b] = r]

Gone(d, b) == [With(d, b, Blank) EXCEPT !.opened = @ \/ d.rec[b].slot # "none"]

RefetchDone(d, b) ==
    LET r == d.rec[b] IN
    IF "refetch" \notin r.flags THEN d
    ELSE [With(d, b, [r EXCEPT !.flags = @ \ {"refetch"}])
            EXCEPT !.opened = @ \/ (r.want # "no" /\ r.slot = "none")]

Spare(d) ==
    LET open == d.cap - Cardinality({b \in Slotted(d) : d.rec[b].state = "active"})
        promised == Cardinality({b \in Node : Waiting(d.rec[b]) /\ "refetch" \in d.rec[b].flags})
    IN  IF open > promised THEN open - promised ELSE 0

\* Open slots are offered to the records that wanted one.
OfferSlots(d) ==
    LET takers == {b \in Node : /\ Waiting(d.rec[b])
                                /\ d.rec[b].flags \cap {"refetch", "missed"} = {}}
        n == IF Spare(d) < Cardinality(takers) THEN Spare(d) ELSE Cardinality(takers)
    IN  IF ~d.opened THEN {d}
        ELSE {[d EXCEPT !.opened = FALSE,
                        !.rec = [b \in Node |-> IF b \in S THEN Offer(@[b]) ELSE @[b]]] :
                S \in kSubset(n, takers)}

Bind(d, b, verdict) ==
    With(d, b, [d.rec[b] EXCEPT !.slot = IF verdict = "loan" THEN "loan" ELSE "match",
                                !.ver = 0, !.want = "no", !.flags = @ \ {"refetch"}])

FreeSlot(d)  == Cardinality(Slotted(d)) < d.cap
\* mutant: a match is taken for a loan
LoanSlotsAny(d) == Slotted(d)
LoanSlots(d) == {x \in Slotted(d) : d.rec[x].slot = "loan"}

\* A free slot, else a dropped peer's, else for a match a live loan's. A
\* live match is never evicted.
Seat(d, b, verdict) ==
    LET gone  == {x \in Slotted(d) : d.rec[x].state = "dropped"}
    IN  IF FreeSlot(d) THEN {Bind(d, b, verdict)}
        ELSE IF gone # {} THEN {Bind([Gone(d, x) EXCEPT !.distrust = TRUE], b, verdict) : x \in gone}
        ELSE IF verdict = "yes"
             THEN {Bind(With(d, x, [GiveBack(d.rec[x]) EXCEPT !.want = "loan"]), b, verdict) : x \in LoanSlots(d)}
             ELSE {}

Refuse(d, b, verdict) ==
    [With(d, b, [d.rec[b] EXCEPT !.want = verdict]) EXCEPT !.misses = TRUE]

\* mutant: the match is left to be found by the peer's own fetch
TellsNever(a, known, skipped, flags) == FALSE
\* A match the peer may not know of is told by an ask. ONE: the sender holds
\* our blob or asks for it. ALL: an observer never assumes.
Tells(a, known, skipped, flags) ==
    (~known \/ skipped \/ a \in Observers) /\ flags \cap {"one", "all"} = {}

\* The blob of version v of b arrived, with the datagram's flags.
Judge(a, d, b, v, flags) ==
    LET r       == d.rec[b]
        known   == r.slot = "match" /\ r.ver > 0
        skipped == v > r.ver + 1
        verdict == Verdict(a, self[a].ver, b, v, r.got)
        d1      == RefetchDone(d, b)
        fl      == d1.rec[b].flags \ {"filter"}
        judged  == [d1.rec[b] EXCEPT !.ver = v, !.flags = fl]
        tell(x) == IF verdict = "yes" /\ Tells(a, known, skipped, flags) THEN Ask(x, "match") ELSE x
        held(e) == With(e, b, tell([e.rec[b] EXCEPT !.ver = v, !.flags = @ \ {"filter"},
                                       !.slot = IF verdict = "yes" THEN "match" ELSE @]))
    IN  IF v < r.ver \/ (r.slot # "none" /\ v = r.ver) THEN {d}
        ELSE IF verdict = "no"
        THEN {[With(d1, b, [GiveBack(judged) EXCEPT !.want = "no", !.flags = fl \cup {"filter"}])
                 EXCEPT !.opened = @ \/ r.slot # "none"]}
        ELSE IF r.slot # "none" THEN {held(d1)}
        ELSE IF "full" \in r.flags THEN {With(d1, b, [judged EXCEPT !.want = "no"])}
        ELSE IF Seat(d1, b, verdict) = {} THEN {Refuse(With(d1, b, judged), b, verdict)}
        ELSE {held(e) : e \in Seat(d1, b, verdict)}

\* A held blob judged again, after our interest changed or its own was pulled.
RejudgeAt(a, va, d, b) ==
    LET r == d.rec[b]
        verdict == Verdict(a, va, b, r.ver, r.got)
        fl == IF verdict = "no" THEN r.flags \cup {"filter"} ELSE r.flags \ {"filter"}
    IN  IF r.slot = "none" THEN d
        ELSE IF verdict = "no"
        THEN [With(d, b, [GiveBack(r) EXCEPT !.flags = fl]) EXCEPT !.opened = TRUE]
        ELSE IF verdict = "yes" /\ r.slot = "loan"
        THEN With(d, b, Ask([r EXCEPT !.slot = "match", !.flags = fl], "match"))
        ELSE With(d, b, [r EXCEPT !.flags = fl])

\* mutant: a peer that changed when we did is assumed too
AssumeJudgedTie(a, d, m) ==
    LET ours == IF self[a].started THEN clock - self[a].changed ELSE 0
    IN  a \notin Observers /\ ~d.distrust /\ "one" \notin m.flags /\ m.ago >= ours
\* A first contact without a blob is taken as judged when it changed before
\* we did: it judged our blob since and asks if it meets us.
AssumeJudged(a, d, m) ==
    LET ours == IF self[a].started THEN clock - self[a].changed ELSE 0
    IN  /\ a \notin Observers /\ ~d.distrust /\ "one" \notin m.flags
        /\ m.ago > ours + Margin

\* A record for a new uuid: a new one, a dropped one's place, and for a
\* match the place of a live record nobody wants.
RecordTake(a, d, m) ==
    LET b == m.src
        idle == {x \in Known(d) : /\ d.rec[x].state = "active" /\ d.rec[x].slot = "none"
                                  /\ d.rec[x].want = "no"}
        match == m.blob /\ Verdict(a, self[a].ver, b, m.ver, 0) = "yes"
        add(e) == With(e, b, NewRecord)
    IN  IF Cardinality(Known(d)) < setup.recs THEN {add(d)}
        ELSE IF Dropped(d) # {}
        THEN {add([Gone(d, x) EXCEPT !.distrust = TRUE]) : x \in Dropped(d)}
        ELSE IF match THEN {add([Gone(d, x) EXCEPT !.distrust = TRUE]) : x \in idle}
        ELSE {}

\* A source that found no record is answered from the loose queue.
Stranger(a, d, m) ==
    LET match == m.blob /\ Verdict(a, self[a].ver, m.src, m.ver, 0) = "yes"
        owed  == "req" \in m.flags \/ (match /\ "one" \in m.flags)
        kept  == {l \in d.loose : l.to # m.src}
    IN  [d EXCEPT !.distrust = TRUE,
                  !.loose = IF owed THEN kept \cup {[to |-> m.src, full |-> match]} ELSE @]

\* ONE settles the match ask, FULL gives the slot back until the peer has
\* one for us, and a peer that held none is asked again when heard.
TakeFlags(d, m) ==
    LET b == m.src
        r0 == [d.rec[b] EXCEPT !.state = "active"]
        r1 == IF "one" \in m.flags
              THEN [Settle(r0, {"match"}) EXCEPT !.flags = @ \ {"missed"}] ELSE r0
        r2 == [GiveBack(Settle(r1, {"match"})) EXCEPT
                 !.want = "no",
                 !.flags = ((@ \cup {"full"}) \ {"reask", "missed"})
                             \cup (IF "one" \in m.flags THEN {} ELSE {"reask"})]
    IN  IF "full" \in m.flags
        THEN [With(d, b, r2) EXCEPT !.opened = @ \/ r1.slot # "none"]
        ELSE IF "full" \notin r1.flags THEN With(d, b, r1)
        ELSE IF "one" \in m.flags
        THEN With(d, b, [r1 EXCEPT !.flags = (@ \ {"full", "reask"})
                                               \cup (IF m.blob THEN {} ELSE {"refetch"})])
        ELSE IF "reask" \in r1.flags /\ r1.owed \cap AskBits = {}
        THEN With(d, b, [Ask(r1, "match") EXCEPT !.tries = 1])
        ELSE With(d, b, r1)

\* The blob is judged; a header alone may be taken as judged, or ask again
\* for the slot the record waits for.
TakeVersion(a, d, m, first) ==
    LET b == m.src
        adv == IF m.ver > d.rec[b].adv THEN m.ver ELSE d.rec[b].adv
        d1 == With(d, b, [d.rec[b] EXCEPT !.adv = adv])
        r  == d1.rec[b]
    IN  IF m.blob THEN Judge(a, d1, b, m.ver, m.flags)
        ELSE IF first /\ AssumeJudged(a, d, m) THEN {With(d1, b, [r EXCEPT !.ver = m.ver])}
        ELSE IF Waiting(r) /\ "refetch" \notin r.flags
        THEN IF Spare(d1) > 0 THEN {With(d1, b, Offer(r))}
             ELSE IF r.want = "yes" THEN {Refuse(d1, b, "yes")} ELSE {d1}
        ELSE {d1}

OweReply(d, m) ==
    LET r == FetchCheck(d.rec[m.src])
        reply == "req" \in m.flags \/ ("one" \in m.flags /\ FullFor(r))
    IN  With(d, m.src, IF reply THEN [r EXCEPT !.owed = @ \cup {"reply"}] ELSE r)

\* mutant: a uuid that said BYE is heard like any other
LeftLatelyNever(d, b) == FALSE
LeftLately(d, b) == b \in d.left

\* on_datagram: every directory the datagram m can leave node a with.
OnDatagram(a, m) ==
    LET b == m.src
        d == dir[a]
        stale == {x \in Known(d) \ {b} : setup.endpoint[x] = setup.endpoint[b]}
        clear == [d EXCEPT !.rec = [x \in Node |-> IF x \in stale THEN Blank ELSE @[x]],
                           !.opened = @ \/ \E x \in stale : d.rec[x].slot # "none"]
        first == d.rec[b].state = "none"
        takes == IF first THEN RecordTake(a, clear, m) ELSE {d}
        heard == UNION {TakeVersion(a, TakeFlags(e, m), m, first) : e \in takes}
    IN  IF "bye" \in m.flags
        THEN OfferSlots([Gone(d, b) EXCEPT !.left = @ \cup {b}])
        ELSE IF LeftLately(d, b) THEN {d}
        ELSE IF takes = {} THEN OfferSlots(Stranger(a, clear, m))
        ELSE UNION {OfferSlots(OweReply(e, m)) : e \in heard}

----------------------------------------------------------------------------
(* Sending. *)

\* The age of the change is read only from a header to the group.
Datagram(a, b, flags, blob) ==
    [src |-> a, dst |-> b, ver |-> self[a].ver, blob |-> blob, flags |-> flags,
     ago |-> IF blob \/ flags # {} THEN 0 ELSE clock - self[a].changed]

\* To the group, and a plain copy marked ONE to every live peer in a slot.
GroupSend(a, flags, blob) ==
    {Datagram(a, b, flags, blob) : b \in Reach[a]} \cup
    {Datagram(a, b, flags \cup {"one"}, blob) :
        b \in {x \in Slotted(dir[a]) : dir[a].rec[x].state = "active"}}

\* Bound: the network holds few of a's datagrams when it sends another.
Clear(a) == \A b \in Others(a) : Cardinality({m \in net : m.src = a /\ m.dst = b}) < MaxInFlight

ReqFlags(a) == {"req"} \cup (IF a \in Observers THEN {"all"} ELSE {})

NewDirectory == [rec |-> [b \in Node |-> Blank], opened |-> FALSE, distrust |-> FALSE,
                 misses |-> FALSE, cap |-> Cap, loose |-> {}, left |-> {}]

Init ==
    /\ dir = [a \in Node |-> NewDirectory]
    /\ self = [a \in Node |-> [phase |-> "down", started |-> FALSE, ver |-> 1, changed |-> 0,
                               resend |-> TRUE, fresh |-> TRUE, repeats |-> 0, solicit |-> FALSE]]
    /\ net = {}
    /\ clock = 0
    /\ setup \in Setups
    /\ faults = [losses |-> 0, drops |-> 0, solicits |-> 0, forgotten |-> {}]

\* A process opens its node. One that shares an endpoint opens after the
\* process that had it is gone.
Open(a) ==
    /\ self[a].phase = "down"
    /\ \A b \in Others(a) : setup.endpoint[b] = setup.endpoint[a] => ~Live(b)
    /\ self' = [self EXCEPT ![a].phase = "up"]
    /\ UNCHANGED <<dir, net, clock, setup, faults>>

\* The first update: the opening carries the blob, and a solicit rides it.
Opening(a) ==
    /\ Live(a) /\ ~self[a].started
    /\ self' = [self EXCEPT ![a].started = TRUE, ![a].changed = clock, ![a].resend = FALSE,
                            ![a].fresh = FALSE, ![a].solicit = FALSE, ![a].repeats = setup.repeats]
    /\ LET ask == a \in Observers \/ self[a].solicit
       IN  net' = net \cup GroupSend(a, IF ask THEN ReqFlags(a) ELSE {}, TRUE)
    /\ UNCHANGED <<dir, clock, setup, faults>>

SendSolicit(a) ==
    /\ Live(a) /\ self[a].started /\ self[a].solicit /\ Clear(a)
    /\ self' = [self EXCEPT ![a].solicit = FALSE, ![a].fresh = FALSE]
    /\ net' = net \cup GroupSend(a, ReqFlags(a), TRUE)
    /\ UNCHANGED <<dir, clock, setup, faults>>

RepeatOpening(a) ==
    /\ Live(a) /\ self[a].started /\ ~self[a].solicit /\ self[a].repeats > 0 /\ Clear(a)
    /\ self' = [self EXCEPT ![a].repeats = @ - 1, ![a].fresh = FALSE]
    /\ net' = net \cup GroupSend(a, {}, TRUE)
    /\ UNCHANGED <<dir, clock, setup, faults>>

\* The periodic announce; after a change it carries the blob once and goes
\* at once. By the time the next is due everything owed was sent.
Announce(a) ==
    /\ Live(a) /\ self[a].started /\ ~self[a].solicit /\ Clear(a)
    /\ self[a].resend \/ \A b \in Node : dir[a].rec[b].owed = {}
    /\ self' = [self EXCEPT ![a].resend = FALSE, ![a].fresh = FALSE]
    /\ net' = net \cup GroupSend(a, {}, self[a].resend)
    /\ UNCHANGED <<dir, clock, setup, faults>>

\* Held blobs judged again at our version va.
ReplayPeers(a, va, d) ==
    LET held == {b \in Slotted(d) : d.rec[b].state = "active"}
        new(b) == RejudgeAt(a, va, d, b)
    IN  OfferSlots([d EXCEPT !.rec = [b \in Node |-> IF b \in held THEN new(b).rec[b] ELSE @[b]],
                             !.opened = @ \/ \E b \in held : new(b).opened])

\* The peers that did not match are fetched again, unless the filter kept of
\* their blob says they cannot meet us at version va.
RefetchUnmatched(a, va, d) ==
    LET idle(r) == /\ r.state = "active" /\ r.slot = "none" /\ r.want = "no"
                   /\ "full" \notin r.flags
        cannot(b, r) == "filter" \in r.flags /\ r.adv <= r.ver /\ ~Meets(a, va, b, r.ver)
    IN  [d EXCEPT !.rec = [b \in Node |-> IF idle(@[b]) /\ ~cannot(b, @[b]) THEN Offer(@[b]) ELSE @[b]]]

\* The node's topics changed: the blob has a new version, announced at once.
Readvertise(a, gathered) ==
    /\ Live(a) /\ self[a].ver < Len(Interest[a])
    /\ self' = [self EXCEPT ![a].ver = @ + 1, ![a].changed = clock, ![a].resend = TRUE,
                            ![a].fresh = self[a].started]
    /\ \E d \in ReplayPeers(a, self[a].ver + 1, dir[a]) :
          dir' = [dir EXCEPT ![a] = IF gathered THEN RefetchUnmatched(a, self[a].ver + 1, d) ELSE d]
    /\ UNCHANGED <<net, clock, setup, faults>>

Solicit(a) ==
    /\ Live(a) /\ ~self[a].solicit /\ faults.solicits < setup.solicits
    /\ self' = [self EXCEPT ![a].solicit = TRUE]
    /\ faults' = [faults EXCEPT !.solicits = @ + 1]
    /\ UNCHANGED <<dir, net, clock, setup>>

\* A due record: its reply, or its ask sent once more. The service pass sends
\* to the group first, so a change (fresh) went there before any targeted
\* send carries it. The retry delay is longer than a datagram lives.
PollTargeted(a, b) ==
    LET r    == dir[a].rec[b]
        ask  == r.owed \cap AskBits # {}
        last == ask /\ r.tries <= 1
        r1   == IF last THEN [Settle(r, AskBits \cup {"reply"}) EXCEPT !.flags = @ \cup {"missed"}]
                ELSE [Settle(r, {"reply"}) EXCEPT !.tries = IF ask THEN @ - 1 ELSE @]
        d1   == With(dir[a], b, r1)
        m    == Datagram(a, b, (IF ask THEN {"req", "one"} ELSE {"one"})
                                 \cup (IF FullFor(r) THEN {"full"} ELSE {}), TRUE)
    IN  /\ Live(a) /\ self[a].started /\ ~self[a].fresh /\ r.owed # {}
        /\ m \notin net /\ Cardinality({x \in net : x.src = a /\ x.dst = b}) < MaxInFlight
        /\ net' = net \cup {m}
        /\ dir' = [dir EXCEPT ![a] = IF last /\ Waiting(r1) THEN RefetchDone(d1, b) ELSE d1]
        /\ UNCHANGED <<self, clock, setup, faults>>

PollLoose(a) ==
    /\ Live(a) /\ self[a].started /\ ~self[a].fresh /\ Clear(a)
    /\ \E l \in dir[a].loose :
         /\ net' = net \cup {Datagram(a, l.to, IF l.full THEN {"full"} ELSE {"one"}, TRUE)}
         /\ dir' = [dir EXCEPT ![a].loose = @ \ {l}]
    /\ UNCHANGED <<self, clock, setup, faults>>

\* update with slots_opened set: a slot opened since is offered.
UpdateOffers(a) ==
    /\ Live(a) /\ self[a].started /\ dir[a].opened
    /\ \E d \in OfferSlots(dir[a]) : dir' = [dir EXCEPT ![a] = d]
    /\ UNCHANGED <<self, net, clock, setup, faults>>

Deliver(m) ==
    /\ m \in net /\ net' = net \ {m}
    /\ IF Live(m.dst) THEN \E d \in OnDatagram(m.dst, m) : dir' = [dir EXCEPT ![m.dst] = d]
                      ELSE dir' = dir
    /\ UNCHANGED <<self, clock, setup, faults>>

Lose(m) ==
    /\ m \in net /\ net' = net \ {m}
    /\ faults.losses < setup.losses
    /\ faults' = [faults EXCEPT !.losses = @ + 1]
    /\ UNCHANGED <<dir, self, clock, setup>>

\* The sweep: a peer silent past the timeout is dropped and keeps its slot.
\* A live one is only when the network ate its announces.
SweepDrop(a, b) ==
    /\ Live(a) /\ self[a].started /\ dir[a].rec[b].state = "active"
    /\ ~\E m \in net : m.src = b
    /\ IF Live(b) THEN /\ faults.drops < setup.drops
                       /\ faults' = [faults EXCEPT !.drops = @ + 1]
                  ELSE UNCHANGED faults
    /\ LET d1 == RefetchDone(With(dir[a], b, [dir[a].rec[b] EXCEPT !.state = "dropped", !.owed = {}]), b)
       IN  \E d \in OfferSlots([d1 EXCEPT !.opened = @ \/ d1.rec[b].slot # "none"]) :
             dir' = [dir EXCEPT ![a] = d]
    /\ UNCHANGED <<self, net, clock, setup>>

\* A dropped peer silent past the gone timeout too is forgotten, a live one as
\* well when the network eats its announces that long.
SweepGone(a, b) ==
    /\ Live(a) /\ self[a].started /\ dir[a].rec[b].state = "dropped"
    /\ \E d \in OfferSlots(Gone(dir[a], b)) : dir' = [dir EXCEPT ![a] = d]
    /\ faults' = IF Live(b) /\ dir[b].rec[a].slot = "match"
                THEN [faults EXCEPT !.forgotten = @ \cup {<<a, b>>}]
                ELSE faults
    /\ UNCHANGED <<self, net, clock, setup>>

\* A uuid that said BYE is kept for an announce interval, longer than any of
\* its datagrams is under way.
LeftExpires(a, b) ==
    /\ Live(a) /\ b \in dir[a].left /\ ~\E m \in net : m.src = b
    /\ dir' = [dir EXCEPT ![a].left = @ \ {b}]
    /\ UNCHANGED <<self, net, clock, setup, faults>>

\* The node saw records without a slot: with an allocator it migrates to
\* more slots, and they go to the records that wanted one.
Grow(a) ==
    /\ Live(a) /\ setup.hook /\ dir[a].misses
    /\ LET wanted == {b \in Node : Waiting(dir[a].rec[b])} \cup Slotted(dir[a])
       IN  \E d \in OfferSlots([dir[a] EXCEPT !.opened = TRUE, !.misses = FALSE,
                                              !.cap = IF Cardinality(wanted) > @
                                                      THEN Cardinality(wanted) ELSE @]) :
             dir' = [dir EXCEPT ![a] = d]
    /\ UNCHANGED <<self, net, clock, setup, faults>>

\* The node pulled the external interest of a peer in a slot.
Pulled(a, b) ==
    /\ Live(a) /\ b \in External /\ Live(b)
    /\ dir[a].rec[b].slot # "none" /\ dir[a].rec[b].state = "active"
    /\ dir[a].rec[b].got # dir[a].rec[b].ver
    /\ \E d \in OfferSlots(RejudgeAt(a, self[a].ver, With(dir[a], b, [dir[a].rec[b] EXCEPT !.got = dir[a].rec[b].ver]), b)) :
         dir' = [dir EXCEPT ![a] = d]
    /\ UNCHANGED <<self, net, clock, setup, faults>>

\* rant close: a BYE to the group, sent several times at once.
Leave(a) ==
    /\ a \in Leavers /\ Live(a) /\ self[a].started
    /\ self' = [self EXCEPT ![a].phase = "gone"]
    /\ net' = net \cup GroupSend(a, {"bye"}, FALSE)
    /\ dir' = [dir EXCEPT ![a] = NewDirectory]
    /\ UNCHANGED <<clock, setup, faults>>

Crash(a) ==
    /\ a \in setup.crashers /\ Live(a)
    /\ self' = [self EXCEPT ![a].phase = "gone"]
    /\ dir' = [dir EXCEPT ![a] = NewDirectory]
    /\ UNCHANGED <<net, clock, setup, faults>>

Tick ==
    /\ clock < setup.ticks
    /\ clock' = clock + 1
    /\ UNCHANGED <<dir, self, net, setup, faults>>

Next ==
    \/ Tick
    \/ \E a \in Node :
        \/ Open(a) \/ Opening(a) \/ SendSolicit(a) \/ RepeatOpening(a) \/ Announce(a)
        \/ Solicit(a) \/ PollLoose(a) \/ UpdateOffers(a) \/ Grow(a) \/ Leave(a) \/ Crash(a)
        \/ Readvertise(a, ~Gathering)
        \/ \E b \in Others(a) :
            \/ PollTargeted(a, b) \/ SweepDrop(a, b) \/ SweepGone(a, b)
            \/ LeftExpires(a, b) \/ Pulled(a, b)
    \/ \E m \in net : Deliver(m) \/ Lose(m)

\* What the service loop and the network do on their own. An application
\* change, a solicit, a leave, a crash or a loss may happen or not.
Once(a)  == Open(a) \/ Opening(a) \/ SendSolicit(a) \/ RepeatOpening(a)
Local(a) == PollLoose(a) \/ UpdateOffers(a) \/ Grow(a) \/
            \E b \in Others(a) : \/ Pulled(a, b) \/ LeftExpires(a, b)
                                 \/ (~Live(b) /\ (SweepDrop(a, b) \/ SweepGone(a, b)))

Fairness ==
    \A a \in Node :
        /\ WF_vars(Once(a)) /\ WF_vars(Local(a)) /\ WF_vars(Announce(a))
        /\ \A b \in Reach[a] : /\ WF_vars(PollTargeted(a, b))
                               /\ WF_vars(\E m \in net : m.src = a /\ m.dst = b /\ Deliver(m))

Spec     == Init /\ [][Next]_vars
FairSpec == Spec /\ Fairness

----------------------------------------------------------------------------
(* Properties. *)

Versions == 0 .. Max({Len(Interest[a]) : a \in Node})

TypeOK ==
    /\ \A a \in Node :
        /\ \A b \in Node : dir[a].rec[b] \in
              [state : {"none", "active", "dropped"}, slot : {"none", "loan", "match"},
               got : Versions, ver : Versions, adv : Versions, want : {"no", "yes", "loan"},
               flags : SUBSET {"refetch", "filter", "full", "reask", "missed"},
               owed : SUBSET {"reply", "fetch", "match"}, tries : 0 .. AskTries]
        /\ self[a].ver \in 1 .. Len(Interest[a]) /\ self[a].changed \in 0 .. setup.ticks
    /\ clock \in 0 .. setup.ticks

\* The slots are never oversubscribed, only records hold one, and nothing is
\* owed to a peer that is not live.
SlotsBounded ==
    \A a \in Node :
        /\ Cardinality(Slotted(dir[a])) <= dir[a].cap
        /\ Cardinality(Known(dir[a])) <= setup.recs
        /\ Slotted(dir[a]) \subseteq Known(dir[a])
        /\ \A b \in Node : dir[a].rec[b].owed # {} => dir[a].rec[b].state = "active"

\* A uuid that said BYE is not known again by a datagram sent before the BYE
\* and read after it.
LeftStaysGone ==
    \A a \in Node : \A b \in dir[a].left : dir[a].rec[b].state = "none"

\* b was taken as judged at the version it has now, its blob never read.
Assumed(a, b) ==
    LET r == dir[a].rec[b] IN
    /\ Live(a) /\ r.state = "active" /\ r.slot = "none" /\ r.want = "no"
    /\ r.ver = self[b].ver /\ r.flags = {} /\ r.owed = {}

\* Of two nodes that meet at most one takes the other as judged, or neither
\* would ever ask (spec/discovery.md, "they never both assume").
NeverBothAssume ==
    \A a \in Node : \A b \in Others(a) :
        Meets(a, self[a].ver, b, self[b].ver) => ~(Assumed(a, b) /\ Assumed(b, a))

\* Seating one peer never takes the slot of a live match (slot_take), whose
\* process still holds its endpoint.
NoMatchEvicted ==
    [][\A a \in Node : \A b, c \in Node :
        /\ Live(a) /\ Live(a)'
        /\ dir[a].rec[b].slot = "match" /\ dir[a].rec[b].state = "active"
        /\ dir[a].rec[c].slot = "none" /\ dir'[a].rec[c].slot # "none"
        /\ setup.endpoint[b] # setup.endpoint[c]
        => dir'[a].rec[b].slot = "match"]_vars

Holds(a, b) == dir[a].rec[b].slot # "none"
HasRoom(a)  == Cardinality(Slotted(dir[a])) < dir[a].cap

\* Both sides hold a slot or neither does, unless one has no slot to pull
\* the external interest of the other with; a pair that meets is without a slot
\* only when a side has none left; a peer that is gone holds none.
Settled ==
    \A a \in Node : Live(a) => \A b \in Others(a) :
        IF Live(b)
        THEN /\ b \in Reach[a] /\ Meets(a, self[a].ver, b, self[b].ver) /\ HasRoom(a) /\ HasRoom(b)
                => Holds(a, b)
             /\ Holds(b, a) /\ {a, b} \cap Observers = {}
                => Holds(a, b) \/ (b \in External /\ ~HasRoom(a))
             /\ Holds(a, b) /\ a \notin Observers => Meets(a, self[a].ver, b, self[b].ver)
        ELSE ~Holds(a, b)

\* Nothing is under way or owed, and the next announces change nothing.
Calm ==
    /\ net = {}
    /\ \A a \in Node : Live(a) =>
        /\ self[a].started /\ ~self[a].resend /\ ~self[a].solicit
        /\ ~dir[a].opened /\ dir[a].loose = {} /\ ~(setup.hook /\ dir[a].misses)
        /\ \A b \in Others(a) :
            /\ dir[a].rec[b].owed = {} /\ (Live(b) \/ dir[a].rec[b].state = "none")
            /\ b \in External /\ Holds(a, b) => dir[a].rec[b].got = dir[a].rec[b].ver
        /\ \A m \in GroupSend(a, {}, FALSE) :
              Live(m.dst) => OnDatagram(m.dst, m) = {dir[m.dst]}

\* The directories never come to rest while two nodes disagree: a match one
\* side holds and the other does not, or a pair with room that both passed
\* over, still has a datagram that repairs it.
CalmIsSettled == Calm => Settled

\* A node that forgot a live peer which kept it is matched with it again
\* (spec/discovery.md, "a record lost to the gone timeout while the peer kept us
\* is matched again this way"). It is not when the peer's group header is read
\* before its copy to us and taken as judged (assume_judged).
ForgottenIsMatched ==
    Calm => \A p \in faults.forgotten :
        /\ Live(p[1]) /\ Live(p[2]) /\ Meets(p[1], self[p[1]].ver, p[2], self[p[2]].ver)
        /\ HasRoom(p[1]) /\ Holds(p[2], p[1])
        => Holds(p[1], p[2])

\* The slots are never oversubscribed, and what the two ends do with them agrees at rest.
SlotsSound == SlotsBounded /\ CalmIsSettled

\* Whatever is lost, reordered or changed on the way, the directories settle.
Converges == <>[]Settled
=============================================================================
