------------------------------- MODULE Variables -------------------------------
(***************************************************************************)
(* Variables (patterns/core.c): an owner's value with its force shadow,    *)
(* the accessors' caches, the value channel from one to the other and the  *)
(* set channel back, observers, handover to a successor definition, and    *)
(* the detection of rival owners.                                          *)
(*                                                                         *)
(* Several application threads and the node's receive thread work on an    *)
(* owner. What runs under one hold of the node lock is one step; the steps *)
(* of a write end where the code releases the lock: around observers, in a *)
(* settle, and between a local set and its publication. The two channels   *)
(* are reliable topics (ReliableTopic); that both sides of a match form is *)
(* Matching's subject, so a match is one step here.                        *)
(***************************************************************************)
EXTENDS Integers, Sequences, FiniteSets, SequencesExt

CONSTANTS
    Owner,      \* the nodes that may own the variable
    Accessor,   \* the nodes that access it
    Thread,     \* the application's threads
    None,       \* no node, no value
    W,          \* a write_seq has W values (2^32 in the code)
    KeepLast,   \* samples of a channel's history
    Setups      \* the setups to run with, see setup

ASSUME WindowAssumption == W \in Nat /\ W > 1 /\ W % 2 = 0

Actor == Thread \cup Owner     \* a node's name is its receive thread

VARIABLES
    own,     \* [Owner -> owner]: the definition at a node, see NoOwner
    slot,    \* [Owner -> [next, hist, fresh]]: the value topic's seqno line, its history,
             \* whether it came up so lately that matches still form
    lane,    \* [Owner -> [Accessor -> [up, q]]]: the value channel
    ops,     \* [Owner -> [Accessor -> Seq(op)]]: the set channel
    acc,     \* [Accessor -> accessor]: the caches
    claims,  \* [Owner -> SUBSET Owner]: the peers whose interest provides it as well
    stk,     \* [Actor -> Seq(frame)]: the calls an actor is in
    todo,    \* [Thread -> Seq(call)]: the calls it has still to make
    last,    \* [Owner -> value]: the latest write, whether or not a force hides it
    cuts,    \* peers that may still be lost
    setup    \* a member of Setups: prog (of each thread), body (the calls an observer
             \* makes), met (whether matches exist at first), force (allow_force), base
             \* (the seqno line at first), watch (whether observers are registered at
             \* first), queued (whether the variable has a queue for them), cuts, rivals
             \* (whether two definitions may exist at a time), first (who defines it at
             \* first), fixed (whether its values all have one length)

vars == <<own, slot, lane, ops, acc, claims, stk, todo, last, cuts, setup>>

----------------------------------------------------------------------------
(* State.                                                                  *)

\* A definition: none, open (its topics exist, the manager does not list it
\* yet), live, parked. out holds its observers out with the lock released, each as
\* the actor and the depth of its call, dup the rivals reported, status the problems shown, told what on_change was
\* last called with, parked the writes that wait for the variable's queue.
NoOwner == [life |-> "none", store |-> None, shadow |-> None, forced |-> FALSE, has |-> FALSE,
            seq |-> 0, out |-> {}, watch |-> FALSE, dup |-> {},
            status |-> [rivals |-> {}, forced |-> FALSE], told |-> None, parked |-> <<>>]

NoCache == [has |-> FALSE, store |-> None, forced |-> FALSE, seq |-> 0, src |-> None,
            watch |-> FALSE, told |-> None, parked |-> <<>>]

Live(o)      == own[o].life = "live"
State(v)     == [val |-> v.store, forced |-> v.forced]
Sample(v)    == [val |-> v.store, forced |-> v.forced, seq |-> v.seq]
NextSeq(s)   == (s + 1) % W

Top(t)     == stk[t][Len(stk[t])]
At(t, l)   == stk[t] # <<>> /\ Top(t).at = l
In(t, op, l) == At(t, l) /\ Top(t).call.op = op
Goto(t, l) == [stk EXCEPT ![t][Len(stk[t])].at = l]
Pop(t)     == [stk EXCEPT ![t] = Front(@)]
Frame(call) == [call |-> call, at |-> "start", sent |-> None, seen |-> None]

Init ==
    /\ setup \in Setups
    /\ own = [o \in Owner |-> IF o \in setup.first
                              THEN [NoOwner EXCEPT !.life = "live", !.seq = setup.base, !.watch = setup.watch]
                              ELSE NoOwner]
    /\ slot = [o \in Owner |-> [next |-> setup.base, hist |-> <<>>, fresh |-> TRUE]]
    /\ lane = [o \in Owner |-> [a \in Accessor |-> [up |-> setup.met /\ o \in setup.first, q |-> <<>>]]]
    /\ ops = [o \in Owner |-> [a \in Accessor |-> <<>>]]
    /\ acc = [a \in Accessor |-> [NoCache EXCEPT !.watch = setup.watch]]
    /\ claims = [o \in Owner |-> {}]
    /\ stk = [t \in Actor |-> <<>>]
    /\ todo = setup.prog
    /\ last = [o \in Owner |-> None]
    /\ cuts = setup.cuts

----------------------------------------------------------------------------
(* The value channel.                                                      *)

\* A sample into the history and towards every matched accessor. A lane that is
\* behind by the whole history loses the oldest.
Enqueued(q, m) == IF Len(q) < KeepLast THEN Append(q, m) ELSE Append(Tail(q), m)
Publish(o, m) ==
    IF Live(o)
    THEN /\ slot' = [slot EXCEPT ![o] = [@ EXCEPT !.next = NextSeq(@), !.hist = Enqueued(@, m)]]
         /\ lane' = [lane EXCEPT ![o] = [a \in Accessor |->
                        IF @[a].up THEN [@[a] EXCEPT !.q = Enqueued(@, m)] ELSE @[a]]]
    ELSE UNCHANGED <<slot, lane>>

\* Signed distance, so that the guard survives a wrap.
Behind(s, t) == (s - t) % W >= W \div 2

\* The stale order guard.
Stale(c, o, m) == c.has /\ c.src = o /\ Behind(m.seq, c.seq)

\* Whether applying (val, forced) changes the state observers know.
WouldChange(v, val, forced) == ~v.has \/ v.forced # forced \/ v.store # val

\* on_change at an accessor, called by the one thread that writes there, and the
\* parked write of a variable that has a queue: the state of the write.
Told(v, changed) ==
    IF ~v.watch THEN v
    ELSE IF setup.queued THEN [v EXCEPT !.parked = Append(@, [state |-> State(v), changed |-> changed])]
    ELSE [v EXCEPT !.told = IF changed THEN State(v) ELSE @]

\* i_rant_var_dispatch: the parked write with the value it carried.
Dispatched(v) == [v EXCEPT !.parked = Tail(@), !.told = IF Head(v.parked).changed THEN Head(v.parked).state ELSE @]

\* i_rant_var_on_value: a value arrives at an accessor.
OnValue(c, o, m) ==
    IF Stale(c, o, m) THEN c
    ELSE Told([c EXCEPT !.has = TRUE, !.store = m.val, !.forced = m.forced, !.seq = m.seq, !.src = o],
              WouldChange(c, m.val, m.forced))

Deliver(o, a) ==
    /\ lane[o][a].up /\ lane[o][a].q # <<>>
    /\ acc' = [acc EXCEPT ![a] = OnValue(@, o, Head(lane[o][a].q))]
    /\ lane' = [lane EXCEPT ![o][a].q = Tail(@)]
    /\ UNCHANGED <<own, slot, ops, claims, stk, todo, last, cuts, setup>>

\* The writer's end is gone: what was in flight may be lost for good.
LoseInFlight(o, a) ==
    /\ ~Live(o) /\ lane[o][a].q # <<>>
    /\ lane' = [lane EXCEPT ![o][a].q = <<>>]
    /\ UNCHANGED <<own, slot, ops, acc, claims, stk, todo, last, cuts, setup>>

----------------------------------------------------------------------------
(* Interest: a node applies what another one announces.                    *)

SourceMatched(a, l) == \E o \in Owner : l[o][a].up

\* An accessor whose owner left disarms the guard.
Disarmed(c, a, l) == IF SourceMatched(a, l) THEN c ELSE [c EXCEPT !.src = None]

\* A new lane replays the newest sample of the history (catch_up 1), or all of it
\* while the topic is fresh.
CatchUp(o) ==
    LET h == slot[o].hist IN
    IF slot[o].fresh \/ h = <<>> THEN h ELSE <<Last(h)>>

FreshEnds(o) ==
    /\ slot[o].fresh
    /\ slot' = [slot EXCEPT ![o].fresh = FALSE]
    /\ UNCHANGED <<own, lane, ops, acc, claims, stk, todo, last, cuts, setup>>

AccessorInterest(o, a) ==
    /\ lane[o][a].up # Live(o)
    /\ LET l == [lane EXCEPT ![o][a] = [up |-> Live(o), q |-> IF Live(o) THEN CatchUp(o) ELSE <<>>]] IN
       /\ lane' = l
       /\ acc' = [acc EXCEPT ![a] = Disarmed(@, a, l)]
    /\ UNCHANGED <<own, slot, ops, claims, stk, todo, last, cuts, setup>>

\* i_rant_pat_problems: the problems shown are rebuilt from the definition.
Shown(v) == [v EXCEPT !.status = [rivals |-> v.dup, forced |-> v.forced]]

\* i_rant_pat_dup_check_peer: a definition against a peer's fresh interest.
DupChecked(v, p, claim) ==
    Shown([v EXCEPT !.dup = IF claim THEN @ \cup {p} ELSE @ \ {p}])
Listed(v) == v.life \in {"live", "parked"}

OwnerInterest(p, o) ==
    /\ p # o /\ stk[o] = <<>>
    /\ (p \in claims[o]) # Live(p)
    /\ claims' = [claims EXCEPT ![o] = IF Live(p) THEN @ \cup {p} ELSE @ \ {p}]
    /\ own' = [own EXCEPT ![o] = IF Listed(@) THEN DupChecked(@, p, Live(p)) ELSE @]
    /\ UNCHANGED <<slot, lane, ops, acc, stk, todo, last, cuts, setup>>

\* An accessor and an owner lose each other and their lanes; the guard stays.
Cut(o, a) ==
    /\ cuts > 0 /\ lane[o][a].up
    /\ cuts' = cuts - 1
    /\ lane' = [lane EXCEPT ![o][a] = [up |-> FALSE, q |-> <<>>]]
    /\ ops' = [ops EXCEPT ![o][a] = <<>>]
    /\ UNCHANGED <<own, slot, acc, claims, stk, todo, last, setup>>

\* Two owners lose each other: a peer that is down is no rival.
CutOwners(p, o) ==
    /\ cuts > 0 /\ p \in claims[o] /\ stk[o] = <<>>
    /\ cuts' = cuts - 1
    /\ claims' = [claims EXCEPT ![o] = @ \ {p}]
    /\ own' = [own EXCEPT ![o] = IF Listed(@) THEN DupChecked(@, p, FALSE) ELSE @]
    /\ UNCHANGED <<slot, lane, ops, acc, stk, todo, last, setup>>

----------------------------------------------------------------------------
(* The owner's writes. A frame is at start, settle (waiting for observers  *)
(* on other threads), cb (the lock released, on_write running), change     *)
(* (on_write made a call of its own), cbend (on_change has been called),   *)
(* done (the lock held again), publish (a local set, the lock released).   *)

Call(t) ==
    /\ t \in Thread /\ stk[t] = <<>> /\ todo[t] # <<>>
    /\ stk' = [stk EXCEPT ![t] = <<Frame(Head(todo[t]))>>]
    /\ todo' = [todo EXCEPT ![t] = Tail(@)]
    /\ UNCHANGED <<own, slot, lane, ops, acc, claims, last, cuts, setup>>

\* The receive thread takes an op off the set channel (i_rant_var_on_set).
OnSet(o, a) ==
    /\ Live(o) /\ stk[o] = <<>> /\ ops[o][a] # <<>>
    /\ stk' = [stk EXCEPT ![o] = <<Frame([Head(ops[o][a]) EXCEPT !.node = o])>>]
    /\ ops' = [ops EXCEPT ![o][a] = Tail(@)]
    /\ UNCHANGED <<own, slot, lane, acc, claims, todo, last, cuts, setup>>

\* i_rant_var_notify: the update is a view of the store as it is now, and the
\* observers run with the lock released; with a queue, or unobserved, none do.
Observed(v) == v.watch /\ ~setup.queued
Notify(t, v, changed, sent) ==
    LET o == Top(t).call.node IN
    /\ own' = [own EXCEPT ![o] = IF Observed(v) THEN [v EXCEPT !.out = @ \cup {<<t, Len(stk[t])>>}]
                                              ELSE Told(v, changed)]
    /\ stk' = [stk EXCEPT ![t][Len(stk[t])] =
                  [@ EXCEPT !.at = IF Observed(v) THEN "cb" ELSE "done", !.sent = sent,
                            !.seen = [forced |-> v.forced, seq |-> v.seq, changed |-> changed]]]

Written(v, val) == [v EXCEPT !.store = val, !.has = TRUE, !.seq = NextSeq(@)]

\* rant_variable_set at the owner, up to the observers: absorbed into the shadow
\* while forced, else stored. The header is taken here, the publication follows
\* with the lock released.
Set(t) ==
    /\ In(t, "set", "start")
    /\ LET o == Top(t).call.node
           x == Top(t).call.val
           v == own[o]
           w == Written(v, x) IN
       /\ own[o].life # "none"
       /\ last' = [last EXCEPT ![o] = x]
       /\ IF v.forced
          THEN own' = [own EXCEPT ![o].shadow = x] /\ stk' = Pop(t)
          ELSE Notify(t, w, WouldChange(v, x, FALSE), Sample(w))
    /\ UNCHANGED <<slot, lane, ops, acc, claims, todo, cuts, setup>>

\* mutant: a write lands under an observer that is out
Unsettled(t, o) == TRUE
\* i_rant_node_sys_settle: no observer of this variable is out, or it is ours.
Settled(t, o) == own[o].out = {} \/ Len(stk[t]) > 1

\* The ops that settle before they write; an unforce looks at the flag first.
Enter(t) ==
    /\ At(t, "start") /\ Top(t).call.node \in Owner /\ Top(t).call.op \in {"apply", "force", "unforce"}
    /\ stk' = CASE Top(t).call.op = "force"   /\ ~setup.force -> Pop(t)
                [] Top(t).call.op = "unforce" /\ ~own[Top(t).call.node].forced -> Pop(t)
                [] OTHER -> Goto(t, "settle")
    /\ UNCHANGED <<own, slot, lane, ops, acc, claims, todo, last, cuts, setup>>

\* i_rant_var_owner_apply: a remote set.
OwnerApply(t) ==
    /\ In(t, "apply", "settle")
    /\ LET o == Top(t).call.node
           x == Top(t).call.val
           v == own[o]
           w == Written(v, x) IN
       /\ own[o].life # "none" /\ Settled(t, o)
       /\ last' = [last EXCEPT ![o] = x]
       /\ IF v.forced
          THEN own' = [own EXCEPT ![o].shadow = x] /\ stk' = Pop(t) /\ UNCHANGED <<slot, lane>>
          ELSE Publish(o, Sample(w)) /\ Notify(t, w, WouldChange(v, x, FALSE), None)
    /\ UNCHANGED <<ops, acc, claims, todo, cuts, setup>>

\* mutant: every force saves the store
ForcedOnOverwrite(v, x) ==
    [Written(v, x) EXCEPT !.shadow = v.store, !.forced = TRUE]
\* i_rant_var_owner_force: entering a force saves the source into the shadow.
ForcedOn(v, x) ==
    [Written(v, x) EXCEPT !.shadow = IF v.forced THEN @ ELSE v.store, !.forced = TRUE]
OwnerForce(t) ==
    /\ In(t, "force", "settle")
    /\ LET o == Top(t).call.node
           v == own[o]
           w == Shown(ForcedOn(v, Top(t).call.val)) IN
       /\ own[o].life # "none" /\ Settled(t, o)
       /\ Publish(o, Sample(w))
       /\ Notify(t, w, WouldChange(v, w.store, TRUE), None)
    /\ UNCHANGED <<ops, acc, claims, todo, last, cuts, setup>>

\* i_rant_var_owner_unforce, after its look at the flag: the shadow is the value.
OwnerUnforce(t) ==
    /\ In(t, "unforce", "settle")
    /\ LET o == Top(t).call.node
           v == own[o]
           w == Shown([Written(v, v.shadow) EXCEPT !.forced = FALSE, !.has = v.has]) IN
       /\ own[o].life # "none" /\ Settled(t, o)
       /\ Publish(o, Sample(w))
       /\ Notify(t, w, TRUE, None)
    /\ UNCHANGED <<ops, acc, claims, todo, last, cuts, setup>>

\* What the view f shows once v is as it is now: flag and seq as copied, the bytes of
\* the store. Another write since leaves them a value only if the lengths agree.
Seen(v, f) == [val |-> IF setup.fixed \/ v.seq = f.seq THEN v.store ELSE None, forced |-> f.forced]

\* The outermost observers may make a call of their own, on_write before on_change.
Nests(t) == Len(stk[t]) = 1 /\ setup.body # <<>>
Under(t, l) == [Goto(t, l) EXCEPT ![t] = Append(@, Frame(setup.body[1]))]
ObserveWrite(t) ==
    /\ At(t, "cb") /\ Nests(t)
    /\ stk' = Under(t, "change")
    /\ UNCHANGED <<own, slot, lane, ops, acc, claims, todo, last, cuts, setup>>
Tell(t) ==
    /\ At(t, "cb") \/ At(t, "change")
    /\ LET o == Top(t).call.node
           f == Top(t).seen IN
       /\ own' = [own EXCEPT ![o].told = IF f.changed THEN Seen(own[o], f) ELSE @]
       /\ stk' = IF At(t, "cb") /\ Nests(t) /\ f.changed THEN Under(t, "cbend") ELSE Goto(t, "cbend")
    /\ UNCHANGED <<slot, lane, ops, acc, claims, todo, last, cuts, setup>>
ObserveEnd(t) ==
    /\ At(t, "cbend")
    /\ own' = [own EXCEPT ![Top(t).call.node].out = @ \ {<<t, Len(stk[t])>>}]
    /\ stk' = Goto(t, "done")
    /\ UNCHANGED <<slot, lane, ops, acc, claims, todo, last, cuts, setup>>

\* A set from inside the observer committed first: the outer one skips its send.
Overtaken(m, v) == v.seq # m.seq
AfterWrite(t) ==
    /\ At(t, "done")
    /\ LET m == Top(t).sent IN
       stk' = IF m # None /\ ~Overtaken(m, own[Top(t).call.node]) THEN Goto(t, "publish") ELSE Pop(t)
    /\ UNCHANGED <<own, slot, lane, ops, acc, claims, todo, last, cuts, setup>>
SendSet(t) ==
    /\ At(t, "publish")
    /\ Publish(Top(t).call.node, Top(t).sent)
    /\ stk' = Pop(t)
    /\ UNCHANGED <<own, ops, acc, claims, todo, last, cuts, setup>>

----------------------------------------------------------------------------
(* Observers, accessors, handover.                                         *)

\* rant_variable_on_change: the current state is replayed once.
Registered(v) == Told([v EXCEPT !.watch = TRUE], v.has)
OnChange(t) ==
    /\ In(t, "on_change", "start")
    /\ LET x == Top(t).call.node IN
       IF x \in Owner THEN own' = [own EXCEPT ![x] = Registered(@)] /\ UNCHANGED acc
                      ELSE acc' = [acc EXCEPT ![x] = Registered(@)] /\ UNCHANGED own
    /\ stk' = Pop(t)
    /\ UNCHANGED <<slot, lane, ops, claims, todo, last, cuts, setup>>

Dispatch ==
    /\ \/ \E o \in Owner : own[o].parked # <<>> /\ own' = [own EXCEPT ![o] = Dispatched(@)] /\ UNCHANGED acc
       \/ \E a \in Accessor : acc[a].parked # <<>> /\ acc' = [acc EXCEPT ![a] = Dispatched(@)] /\ UNCHANGED own
    /\ UNCHANGED <<slot, lane, ops, claims, stk, todo, last, cuts, setup>>

\* A write through an accessor: refused without an owner, else it goes to every
\* owner matched. A force of a value that does not allow it is refused here.
Route(t) ==
    /\ At(t, "start") /\ Top(t).call.node \in Accessor /\ Top(t).call.op # "on_change"
    /\ LET a == Top(t).call.node
           ok == Top(t).call.op = "apply" \/ setup.force IN
       ops' = [o \in Owner |->
                  IF ok /\ lane[o][a].up /\ Live(o)
                  THEN [ops[o] EXCEPT ![a] = Append(@, Top(t).call)] ELSE ops[o]]
    /\ stk' = Pop(t)
    /\ UNCHANGED <<own, slot, lane, acc, claims, todo, last, cuts, setup>>

\* rant_variable_retire: the channels park, then the handle goes once no
\* observer is out. Its lanes and its history go with it, the seqno line stays.
\* No other thread of the application is in a call on the handle.
Park(t) ==
    /\ In(t, "retire", "start")
    /\ LET o == Top(t).call.node IN
       /\ Live(o) /\ own[o].out = {}
       /\ own' = [own EXCEPT ![o].life = "parked"]
       /\ ops' = [ops EXCEPT ![o] = [a \in Accessor |-> <<>>]]
    /\ stk' = Goto(t, "settle")
    /\ UNCHANGED <<slot, lane, acc, claims, todo, last, cuts, setup>>
Retire(t) ==
    /\ In(t, "retire", "settle")
    /\ LET o == Top(t).call.node IN
       /\ own[o].out = {} /\ stk[o] = <<>>
       /\ own' = [own EXCEPT ![o] = NoOwner]
       /\ slot' = [slot EXCEPT ![o].hist = <<>>, ![o].fresh = TRUE]
       /\ last' = [last EXCEPT ![o] = None]
    /\ stk' = Pop(t)
    /\ UNCHANGED <<lane, ops, acc, claims, todo, cuts, setup>>

\* A definition's write_seq starts from the slot's seqno line.
Seeded(o) == slot[o].next
Define(t) ==
    /\ In(t, "define", "start")
    /\ LET o == Top(t).call.node IN
       /\ own[o].life = "none"
       /\ own' = [own EXCEPT ![o] = [NoOwner EXCEPT !.life = "open", !.seq = Seeded(o), !.watch = setup.watch]]
    /\ stk' = Goto(t, "settle")
    /\ UNCHANGED <<slot, lane, ops, acc, claims, todo, last, cuts, setup>>

\* i_rant_pat_dup_sweep: a new definition against every active peer.
Swept(o) == claims[o]
Enlist(t) ==
    /\ In(t, "define", "settle")
    /\ LET o == Top(t).call.node IN
       own' = [own EXCEPT ![o] = Shown([@ EXCEPT !.life = "live", !.dup = Swept(o)])]
    /\ stk' = Pop(t)
    /\ UNCHANGED <<slot, lane, ops, acc, claims, todo, last, cuts, setup>>

Applied == \A o \in Owner : /\ \A a \in Accessor : lane[o][a].up = Live(o)
                            /\ \A p \in Owner \ {o} : (p \in claims[o]) = Live(p)
Quiet   == \A o \in Owner, a \in Accessor : lane[o][a].q = <<>> /\ ops[o][a] = <<>>

\* The application waits until its writes have arrived everywhere.
Drain(t) ==
    /\ In(t, "drain", "start")
    /\ Applied /\ Quiet /\ \A s \in Actor \ {t} : stk[s] = <<>>
    /\ stk' = Pop(t)
    /\ UNCHANGED <<own, slot, lane, ops, acc, claims, todo, last, cuts, setup>>

Calm == /\ Applied /\ Quiet
        /\ \A t \in Actor : stk[t] = <<>>
        /\ \A t \in Thread : todo[t] = <<>>
        /\ \A o \in Owner : own[o].parked = <<>>
        /\ \A a \in Accessor : acc[a].parked = <<>>
Done == Calm /\ UNCHANGED vars

Next ==
    \/ \E o \in Owner, a \in Accessor :
          Deliver(o, a) \/ LoseInFlight(o, a) \/ AccessorInterest(o, a) \/ Cut(o, a) \/ OnSet(o, a)
    \/ \E o \in Owner : FreshEnds(o)
    \/ \E p, o \in Owner : OwnerInterest(p, o) \/ CutOwners(p, o)
    \/ \E t \in Actor :
          \/ Call(t) \/ Set(t) \/ Enter(t) \/ OwnerApply(t) \/ OwnerForce(t) \/ OwnerUnforce(t)
          \/ ObserveWrite(t) \/ Tell(t) \/ ObserveEnd(t) \/ AfterWrite(t) \/ SendSet(t)
          \/ OnChange(t) \/ Route(t) \/ Park(t) \/ Retire(t) \/ Define(t) \/ Enlist(t) \/ Drain(t)
    \/ Dispatch
    \/ Done

Spec == Init /\ [][Next]_vars

----------------------------------------------------------------------------
(* Properties.                                                             *)

\* The state has its types; a lane holds no more than the history does.
TypeOK ==
    /\ \A o \in Owner :
          /\ own[o].life \in {"none", "open", "live", "parked"}
          /\ own[o].seq \in 0 .. W - 1 /\ own[o].out \subseteq Actor \X (1 .. 2)
          /\ own[o].forced \in BOOLEAN /\ own[o].has \in BOOLEAN
          /\ own[o].dup \subseteq Owner \ {o} /\ claims[o] \subseteq Owner \ {o}
          /\ slot[o].next \in 0 .. W - 1
          /\ \A a \in Accessor : Len(lane[o][a].q) <= KeepLast /\ (lane[o][a].q # <<>> => lane[o][a].up)
    /\ \A a \in Accessor : acc[a].src \in Owner \cup {None} /\ acc[a].seq \in 0 .. W - 1
    /\ \A t \in Actor : Len(stk[t]) <= 2

\* A force hides the source and loses nothing: the latest write, local or remote,
\* is the value of a variable that is not forced and the shadow of one that is,
\* whatever sets, forces, unforces and observers overlap (owner_apply,
\* owner_force, owner_unforce, rant_variable_set).
ShadowRight ==
    \A o \in Owner : own[o].life # "none" /\ last[o] # None =>
        (IF own[o].forced THEN own[o].shadow ELSE own[o].store) = last[o]

\* Once everything has arrived an accessor holds the value, the forced flag and
\* the write_seq of the one owner, however publications overtook one another,
\* whenever it matched, and whichever definition came before (the stale order
\* guard, its disarming, catch_up, the skipped publication, the seeded write_seq).
CalmIsCurrent ==
    Calm /\ ~setup.rivals =>
        \A o \in Owner, a \in Accessor : Live(o) /\ own[o].has =>
            /\ acc[a].has /\ Sample(acc[a]) = Sample(own[o])

\* A call of o's observers whose on_change is still to come.
Pending(o) == \E t \in Actor : \E i \in 1 .. Len(stk[t]) :
    /\ stk[t][i].call.node = o /\ stk[t][i].at \in {"cb", "change"} /\ stk[t][i].seen.changed

\* An observer registered for changes knows the current state: with no write parked
\* and no call of it on the way, what on_change was last called with is what the
\* variable now is, at an owner and at an accessor, whatever writers overlapped while
\* observers ran, also when the registration came after the value.
ToldIsCurrent ==
    LET Knows(v) == v.watch /\ v.has /\ v.parked = <<>> => v.told = State(v) IN
    (\A o \in Owner : Knows(own[o]) \/ Pending(o)) /\ (\A a \in Accessor : Knows(acc[a]))

\* The problems a node shows are true: a rival for each peer whose applied interest
\* provides the variable too, and a force for as long as it lasts, across creates,
\* retires and lost peers (dup_check_peer, dup_sweep, dup_forget_peer, problems).
StatusTrue ==
    \A o \in Owner : Live(o) =>
        /\ own[o].status.rivals = claims[o]
        /\ own[o].status.forced = own[o].forced

\* The value is right, behind a force and at an accessor.
ValueTrue == ShadowRight /\ CalmIsCurrent

\* What the application is shown, and what its observers were told, is how it is.
KnownTrue == StatusTrue /\ ToldIsCurrent

=============================================================================
