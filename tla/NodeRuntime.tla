----------------------------- MODULE NodeRuntime ------------------------------
(***************************************************************************)
(* The threads of one node (node/runtime.c): the node lock, the callbacks  *)
(* that run with it released, the poll body and who drives it, the         *)
(* blocking waits, callback queues and pull topics, the service thread's   *)
(* start and stop, and close.                                              *)
(*                                                                         *)
(* Application threads run programs of calls; a callback may make a call   *)
(* of its own, so a thread is a stack of frames. A call takes the lock,    *)
(* works while it holds it and gives it up only where the code does: in    *)
(* the socket wait of an outer poll, in a condition wait, around a         *)
(* callback. Each lane of the transport is one writer's samples 1, 2, ...  *)
(* in order (ReaderLane is the lane itself).                               *)
(***************************************************************************)
EXTENDS Integers, Sequences, FiniteSets, SequencesExt, QueueRing

CONSTANTS
    App,       \* the application's threads
    Svc,       \* the service thread
    None,      \* no thread
    Topic,     \* the topics of the node
    Setups     \* the setups to run with, see setup

\* A ring has room for a unit from the start, a record has its header.
ASSUME SetupAssumption ==
    \A s \in Setups :
        /\ s.cap \in Nat \ {0} /\ s.limit \in Nat
        /\ \A p \in Topic : /\ s.need[p] \in Seq(Nat)
                           /\ \A i \in 1..Len(s.need[p]) : s.need[p][i] >= HeaderUnits

Thread == App \cup {Svc}

VARIABLES
    mu,       \* the thread that holds the node lock (mu, lock_owner, lock_held)
    stk,      \* [Thread -> Seq(frame)]: the calls a thread is in, see Frame
    todo,     \* [App -> Seq(call)]: the calls a thread has still to make
    cb,       \* [thread, out]: the callback thread, marked callbacks out
    rd,       \* [Topic -> topic]: what arrived on a topic, see NewTopic
    grp,      \* [busy, dispatching]: the callback queue
    svc,      \* [running, stop, joining]: the service thread
    var,      \* [store, out]: a variable's value and its observers out
    net,      \* [unacked, clock, arena, closed]: sent samples not acknowledged, the
              \* arrival clock, how often the arena moved, whether the node is freed
    handed,   \* [Topic -> Seq(Nat)]: the samples the application was handed
    setup     \* a member of Setups: kind and reliable (of each topic), need (the ring
              \* units of each sample that comes), cap and limit (of the rings), prog
              \* (of each thread), body (the calls a callback makes, by topic kind),
              \* started (whether the service thread runs at first)

vars == <<mu, stk, todo, cb, rd, grp, svc, var, net, handed, setup>>

KeepLast == 1   \* bound: sent samples a topic keeps until they are acknowledged

----------------------------------------------------------------------------
(* Frames. at says where in its call a thread is:                          *)
(*   call     about to take the lock                                       *)
(*   settle   holding it, waiting for inline callbacks elsewhere           *)
(*   settling the same, asleep                                             *)
(*   asleep   in the socket wait, the lock released                        *)
(*   rx       in the receive path                                          *)
(*   wait     holding the lock, its predicate not met; cv: asleep on it    *)
(*   go       holding the lock, ready for the work of the call             *)
(*   rxset    in the receive path, waiting for a variable's observers      *)
(*   disp     in a dispatch, between two records                           *)
(*   join     waiting for the service thread to end; joined: for another   *)
(*            thread's join                                                *)
(*   cb       a callback's frame: its code runs; cbend: it is over         *)

Frame(call) == [call |-> call, at |-> "call", topic |-> "none", rec |-> 0, prev |-> None,
                marked |-> FALSE, arena |-> 0, cutoff |-> 0]

Top(t)    == stk[t][Len(stk[t])]
At(t, l)  == stk[t] # <<>> /\ Top(t).at = l
Op(t)     == Top(t).call.op
In(t, ops, l) == At(t, l) /\ Op(t) \in ops

Goto(t, l) == stk' = [stk EXCEPT ![t] = [@ EXCEPT ![Len(@)].at = l]]
Return(t)  == stk' = [stk EXCEPT ![t] = Front(@)]

Take(t) == mu = None /\ mu' = t
Give    == mu' = None

\* A topic as it is defined: the ring of a queue or pull topic, the sample the
\* lane hands up next, the one it holds assembled.
NewTopic(s, p) ==
    [q |-> Ring(s.cap, s.limit, s.reliable[p]), cur |-> 1, asm |-> 0, live |-> TRUE]
Ringed(p) == setup.kind[p] \in {"queue", "pull"}

Pending(p)   == rd[p].live /\ rd[p].cur <= Len(setup.need[p])
Arrives(p)   == Pending(p) /\ ~rd[p].q.parked
Record(p, i) == [id |-> i, need |-> setup.need[p][i], stamp |-> net.clock]

Init ==
    /\ setup \in Setups
    /\ mu = None
    /\ todo = setup.prog
    /\ stk = [t \in Thread |-> IF t = Svc /\ setup.started THEN <<Frame([op |-> "service"])>> ELSE <<>>]
    /\ cb = [thread |-> None, out |-> 0]
    /\ rd = [p \in Topic |-> NewTopic(setup, p)]
    /\ grp = [busy |-> FALSE, dispatching |-> 0]
    /\ svc = [running |-> setup.started, stop |-> FALSE, joining |-> FALSE]
    /\ var = [store |-> 0, out |-> 0]
    /\ net = [unacked |-> 0, clock |-> 1, arena |-> 0, closed |-> FALSE]
    /\ handed = [p \in Topic |-> <<>>]

----------------------------------------------------------------------------
(* The lock and the callback brackets.                                     *)

\* Whether the entry lock counts as acquired: a call from an inline callback
\* holds the lock as well, but keeps the callback rules.
Acquired(t) == cb.thread # t

\* Whether a settle still waits: callbacks are out, and not on this thread.
Unsettled(t, out) == out > 0 /\ cb.thread # t

\* mutant: the callback's thread is not stamped
StampedNot(t) == cb
Stamped(t) == [thread |-> t, out |-> cb.out + 1]

\* The bracket around user code: a frame for the callback, the lock released.
\* mark stamps the thread as a callback thread, for inline delivery.
CallbackFrame(t, p, i, mark) ==
    [Frame([op |-> "callback"]) EXCEPT !.at = "cb", !.topic = p, !.rec = i, !.prev = cb.thread,
                                       !.marked = mark, !.arena = net.arena]
CallbackBegin(t, p, i, mark, l) ==
    /\ stk' = [stk EXCEPT ![t] = Append([@ EXCEPT ![Len(@)].at = l], CallbackFrame(t, p, i, mark))]
    /\ cb' = IF mark THEN Stamped(t) ELSE cb
    /\ Give

Kind(p) == IF p \in Topic THEN setup.kind[p] ELSE "var"

\* User code runs: it makes its calls one after another, then ends.
CallbackCalls(t) ==
    /\ At(t, "cb")
    /\ LET calls == setup.body[Kind(Top(t).topic)] IN
       IF calls = <<>> THEN Goto(t, "cbend")
       ELSE stk' = [stk EXCEPT ![t] = Append([@ EXCEPT ![Len(@)].at = "cbend"], Frame(Head(calls)))]
    /\ UNCHANGED <<mu, todo, cb, rd, grp, svc, var, net, handed, setup>>

\* What the code after the callback does: a dispatch gives the record back, a
\* delivery advances the lane past the sample it holds assembled.
RetryParked(p, d) ==
    LET n == setup.need[p][d.cur] IN
    IF ~d.q.parked THEN d
    ELSE IF Accepts(d.q, n) THEN [d EXCEPT !.q = [Push(d.q, Record(p, d.cur)) EXCEPT !.parked = FALSE],
                                           !.cur = @ + 1]
    ELSE d
\* mutant: the freed space does not let the parked sample in
QueueReleaseNoRetry(p, d) == [d EXCEPT !.q = Returned(d.q)]
QueueRelease(p, d) == RetryParked(p, [d EXCEPT !.q = Returned(d.q)])

Delivered(d) == [d EXCEPT !.cur = d.asm + 1]

Tick(p, d) == IF d.cur = rd[p].cur THEN net ELSE [net EXCEPT !.clock = @ + 1]

CallbackEnd(t) ==
    /\ At(t, "cbend")
    /\ Take(t)
    /\ Return(t)
    /\ LET f == Top(t) p == f.topic IN
       /\ cb' = IF f.marked THEN [thread |-> f.prev, out |-> cb.out - 1] ELSE cb
       /\ IF Kind(p) \in {"var", "set"} THEN var' = [var EXCEPT !.out = @ - 1] ELSE UNCHANGED var
       /\ CASE Kind(p) = "queue" ->
                 LET d == QueueRelease(p, [rd[p] EXCEPT !.q.busy = FALSE]) IN
                 rd' = [rd EXCEPT ![p] = d] /\ net' = Tick(p, d)
            [] Kind(p) \in {"inline", "set"} ->
                 rd' = [rd EXCEPT ![p] = Delivered(@)] /\ UNCHANGED net
            [] OTHER -> UNCHANGED <<rd, net>>
    /\ UNCHANGED <<todo, grp, svc, handed, setup>>

----------------------------------------------------------------------------
(* The poll body: settle, the wait, the receive path. Its driver says      *)
(* whether the wait may drop the lock and what follows the pass.           *)

Outer(t)   == Op(t) \in {"poll", "service", "dispatch", "take"}
Settling   == {"create", "retire", "start", "stop"}

Settle(t) ==
    /\ At(t, "settle")
    /\ mu = t
    /\ IF Unsettled(t, cb.out) THEN Goto(t, "settling") /\ Give
       ELSE IF Op(t) \in Settling THEN Goto(t, "go") /\ UNCHANGED mu
       ELSE IF Outer(t) THEN Goto(t, "asleep") /\ Give
       ELSE Goto(t, "rx") /\ UNCHANGED mu
    /\ UNCHANGED <<todo, cb, rd, grp, svc, var, net, handed, setup>>

\* The condition wait of a settle: it looks again whenever it wakes.
SettleWakes(t) ==
    /\ At(t, "settling") /\ ~Unsettled(t, cb.out)
    /\ Take(t)
    /\ Goto(t, "settle")
    /\ UNCHANGED <<todo, cb, rd, grp, svc, var, net, handed, setup>>

\* The socket wait ends: something came, or its time is up. The service
\* thread's empty passes are left out.
Wake(t) ==
    /\ At(t, "asleep")
    /\ t = Svc => svc.stop \/ net.unacked > 0 \/ \E p \in Topic : Arrives(p)
    /\ Take(t)
    /\ Goto(t, "rx")
    /\ UNCHANGED <<todo, cb, rd, grp, svc, var, net, handed, setup>>

\* The receive path hands a sample up. A queue or pull topic copies it into
\* its ring, which may refuse it: the lane parks.
ReceiveQueued(t, p) ==
    /\ At(t, "rx") /\ mu = t
    /\ Ringed(p) /\ Arrives(p)
    /\ LET d  == rd[p]
           r  == Record(p, d.cur)
           ok == Accepts(d.q, r.need)
       IN /\ rd' = [rd EXCEPT ![p] = [d EXCEPT !.q = Push(d.q, r), !.cur = IF ok THEN @ + 1 ELSE @]]
          /\ net' = IF ok THEN [net EXCEPT !.clock = @ + 1] ELSE net
    /\ UNCHANGED <<mu, stk, todo, cb, grp, svc, var, handed, setup>>

\* Inline delivery: the callback runs with the lock released, and only then
\* does the lane advance.
ReceiveInline(t, p) ==
    /\ At(t, "rx") /\ mu = t
    /\ setup.kind[p] = "inline" /\ Arrives(p)
    /\ CallbackBegin(t, p, rd[p].cur, TRUE, "rx")
    /\ rd' = [rd EXCEPT ![p].asm = rd[p].cur]
    /\ handed' = [handed EXCEPT ![p] = Append(@, rd[p].cur)]
    /\ UNCHANGED <<todo, grp, svc, var, net, setup>>

\* A remote write of the variable: it waits for the observers that view the
\* store, stores, and notifies. Settling inside the receive path gives up the
\* lock.
ReceiveSet(t, p) ==
    /\ At(t, "rx") /\ mu = t
    /\ setup.kind[p] = "set" /\ Arrives(p)
    /\ ~Unsettled(t, var.out)
    /\ CallbackBegin(t, p, rd[p].cur, TRUE, "rx")
    /\ rd' = [rd EXCEPT ![p].asm = rd[p].cur]
    /\ var' = [store |-> rd[p].cur, out |-> var.out + 1]
    /\ handed' = [handed EXCEPT ![p] = Append(@, rd[p].cur)]
    /\ UNCHANGED <<todo, grp, svc, net, setup>>
ReceiveSetWaits(t, p) ==
    /\ At(t, "rx") /\ mu = t
    /\ setup.kind[p] = "set" /\ Arrives(p)
    /\ Unsettled(t, var.out)
    /\ Goto(t, "rxset") /\ Give
    /\ UNCHANGED <<todo, cb, rd, grp, svc, var, net, handed, setup>>
ReceiveSetWakes(t) ==
    /\ At(t, "rxset") /\ ~Unsettled(t, var.out)
    /\ Take(t)
    /\ Goto(t, "rx")
    /\ UNCHANGED <<todo, cb, rd, grp, svc, var, net, handed, setup>>

\* The peer acknowledges what was sent.
ReceiveAck(t) ==
    /\ At(t, "rx") /\ mu = t
    /\ net.unacked > 0
    /\ net' = [net EXCEPT !.unacked = 0]
    /\ UNCHANGED <<mu, stk, todo, cb, rd, grp, svc, var, handed, setup>>

\* The pass ends, at the latest when its time budget does.
PassEnds(t) ==
    /\ At(t, "rx") /\ mu = t
    /\ CASE Op(t) = "poll"                  -> Return(t) /\ Give
         [] Op(t) = "service" /\ svc.stop   -> Return(t) /\ Give
         [] Op(t) = "service" /\ ~svc.stop  -> Goto(t, "settle") /\ UNCHANGED mu
         [] OTHER                           -> Goto(t, "wait") /\ UNCHANGED mu
    /\ UNCHANGED <<todo, cb, rd, grp, svc, var, net, handed, setup>>

----------------------------------------------------------------------------
(* The one blocking wait: the predicate, the deadline, then asleep on the  *)
(* service thread's progress, or by driving the loop itself.               *)

Queued(p)  == rd[p].live /\ setup.kind[p] = "queue" /\ rd[p].q.count > 0
AnyQueued  == \E p \in Topic : Queued(p)

WaitDone(t) == CASE Op(t) = "send"     -> net.unacked < KeepLast
                 [] Op(t) = "drain"    -> net.unacked = 0
                 [] Op(t) = "dispatch" -> AnyQueued
                 [] Op(t) = "take"     -> rd[Top(t).call.topic].q.count > 0

WaitUntil(t) ==
    /\ At(t, "wait") /\ mu = t
    /\ \/ Goto(t, "go") /\ UNCHANGED mu             \* done, or the time is up
       \/ /\ ~WaitDone(t) /\ svc.running
          /\ Goto(t, "cv") /\ Give
       \/ /\ ~WaitDone(t) /\ ~svc.running
          /\ Goto(t, "settle") /\ UNCHANGED mu      \* pump
    /\ UNCHANGED <<todo, cb, rd, grp, svc, var, net, handed, setup>>

\* Awake: a broadcast or the timeout. A send gives up when the service thread
\* went away, the other waits drive the loop from then on.
CvWakes(t) ==
    /\ At(t, "cv")
    /\ Take(t)
    /\ \/ /\ WaitDone(t) \/ ~svc.running
          /\ Goto(t, IF svc.running \/ Op(t) # "send" THEN "wait" ELSE "go")
       \/ ~WaitDone(t) /\ Goto(t, "go")
    /\ UNCHANGED <<todo, cb, rd, grp, svc, var, net, handed, setup>>

----------------------------------------------------------------------------
(* The calls. *)

\* A thread makes the next call of its program.
Call(t) ==
    /\ stk[t] = <<>> /\ todo[t] # <<>>
    /\ stk' = [stk EXCEPT ![t] = <<Frame(Head(todo[t]))>>]
    /\ todo' = [todo EXCEPT ![t] = Tail(@)]
    /\ UNCHANGED <<mu, cb, rd, grp, svc, var, net, handed, setup>>

\* Poll is refused from a callback and while a service thread runs.
PollCall(t) ==
    /\ In(t, {"poll"}, "call") /\ mu = None
    /\ IF ~Acquired(t) \/ svc.running THEN Return(t) /\ UNCHANGED mu
       ELSE Goto(t, "settle") /\ mu' = t
    /\ UNCHANGED <<todo, cb, rd, grp, svc, var, net, handed, setup>>

\* A send that would evict unacknowledged history waits, unless a callback
\* makes it.
Committed == [net EXCEPT !.unacked = IF @ < KeepLast THEN @ + 1 ELSE @]
SendCall(t) ==
    /\ In(t, {"send"}, "call") /\ mu = None
    /\ IF Acquired(t) /\ net.unacked >= KeepLast
       THEN Goto(t, "wait") /\ mu' = t /\ UNCHANGED net
       ELSE Return(t) /\ UNCHANGED mu /\ net' = Committed
    /\ UNCHANGED <<todo, cb, rd, grp, svc, var, handed, setup>>
SendGo(t) ==
    /\ In(t, {"send"}, "go") /\ mu = t
    /\ Return(t) /\ Give
    /\ net' = Committed
    /\ UNCHANGED <<todo, cb, rd, grp, svc, var, handed, setup>>

\* A drain waits until what was sent is acknowledged.
DrainCall(t) ==
    /\ In(t, {"drain"}, "call") /\ mu = None
    /\ IF ~Acquired(t) THEN Return(t) /\ UNCHANGED mu
       ELSE Goto(t, "wait") /\ mu' = t
    /\ UNCHANGED <<todo, cb, rd, grp, svc, var, net, handed, setup>>
DrainGo(t) ==
    /\ In(t, {"drain"}, "go") /\ mu = t
    /\ Return(t) /\ Give
    /\ UNCHANGED <<todo, cb, rd, grp, svc, var, net, handed, setup>>

\* A local write of the variable: stored and notified at once.
SetCall(t) ==
    /\ In(t, {"set"}, "call") /\ mu = None
    /\ CallbackBegin(t, "var", Top(t).call.value, TRUE, "written")
    /\ var' = [store |-> Top(t).call.value, out |-> var.out + 1]
    /\ UNCHANGED <<todo, rd, grp, svc, net, handed, setup>>
\* A local force waits for the observers that view the store.
ForceCall(t) ==
    /\ In(t, {"force"}, "call") /\ mu = None
    /\ ~Unsettled(t, var.out)
    /\ CallbackBegin(t, "var", Top(t).call.value, TRUE, "written")
    /\ var' = [store |-> Top(t).call.value, out |-> var.out + 1]
    /\ UNCHANGED <<todo, rd, grp, svc, net, handed, setup>>
Written(t) ==
    /\ At(t, "written") /\ mu = t
    /\ Return(t) /\ Give
    /\ UNCHANGED <<todo, cb, rd, grp, svc, var, net, handed, setup>>

\* mutant: a dispatch does not look whether another one is under way
DispatchFreeAlways == TRUE
DispatchFree == ~grp.busy
\* A dispatch drains the rings of its group; refused from an inline callback
\* and while the group is being dispatched.
DispatchCall(t) ==
    /\ In(t, {"dispatch"}, "call") /\ mu = None
    /\ IF ~Acquired(t) \/ ~DispatchFree THEN Return(t) /\ UNCHANGED mu
       ELSE Goto(t, IF AnyQueued \/ ~Top(t).call.wait THEN "go" ELSE "wait") /\ mu' = t
    /\ UNCHANGED <<todo, cb, rd, grp, svc, var, net, handed, setup>>
DispatchGo(t) ==
    /\ In(t, {"dispatch"}, "go") /\ mu = t
    /\ stk' = [stk EXCEPT ![t] = [@ EXCEPT ![Len(@)].at = "disp", ![Len(@)].cutoff = net.clock]]
    /\ grp' = [busy |-> TRUE, dispatching |-> grp.dispatching + 1]
    /\ UNCHANGED <<mu, todo, cb, rd, svc, var, net, handed, setup>>

\* The rings whose oldest record came before the dispatch began, oldest first.
Due(t)        == {p \in Topic : Queued(p) /\ Oldest(rd[p].q).stamp < Top(t).cutoff}
QueueOldest(t) == CHOOSE p \in Due(t) : \A o \in Due(t) : Oldest(rd[p].q).stamp <= Oldest(rd[o].q).stamp
DispatchNext(t) ==
    /\ In(t, {"dispatch"}, "disp") /\ mu = t
    /\ Due(t) # {}
    /\ LET p == QueueOldest(t)
           i == Oldest(rd[p].q).id
       IN /\ rd' = [rd EXCEPT ![p].q = [Viewed(@) EXCEPT !.busy = TRUE]]
          /\ handed' = [handed EXCEPT ![p] = Append(@, i)]
          /\ CallbackBegin(t, p, i, FALSE, "disp")
    /\ UNCHANGED <<todo, grp, svc, var, net, setup>>
DispatchDone(t) ==
    /\ In(t, {"dispatch"}, "disp") /\ mu = t
    /\ Due(t) = {}
    /\ grp' = [busy |-> FALSE, dispatching |-> grp.dispatching - 1]
    /\ Return(t) /\ Give
    /\ UNCHANGED <<todo, cb, rd, svc, var, net, handed, setup>>

\* A take gives the last view back, waits for a record, and views the oldest,
\* or with latest the newest after the older ones are dropped.
Latest(p, d) ==
    LET last(q)  == IF q.count > 1 THEN Cut(q)[q.count - 1] ELSE q
        step[k \in 0..2] == IF k = 0 THEN d
                            ELSE IF step[k - 1].q.count <= 1 THEN step[k - 1]
                            ELSE QueueRelease(p, [step[k - 1] EXCEPT !.q = last(@)])
    IN step[2]
TakeCall(t) ==
    /\ In(t, {"take"}, "call") /\ mu = None
    /\ LET p == Top(t).call.topic
           d == QueueRelease(p, rd[p])
       IN /\ rd' = [rd EXCEPT ![p] = d]
          /\ net' = Tick(p, d)
          /\ Goto(t, IF d.q.count = 0 /\ Acquired(t) /\ Top(t).call.wait THEN "wait" ELSE "go")
    /\ mu' = t
    /\ UNCHANGED <<todo, cb, grp, svc, var, handed, setup>>
TakeGo(t) ==
    /\ In(t, {"take"}, "go") /\ mu = t
    /\ LET p == Top(t).call.topic
           d == IF Top(t).call.latest THEN Latest(p, rd[p]) ELSE rd[p]
       IN /\ net' = Tick(p, d)
          /\ IF d.q.count = 0 THEN rd' = [rd EXCEPT ![p] = d] /\ UNCHANGED handed
             ELSE /\ rd' = [rd EXCEPT ![p] = [d EXCEPT !.q = Viewed(@)]]
                  /\ handed' = [handed EXCEPT ![p] = Append(@, Oldest(d.q).id)]
    /\ Return(t) /\ Give
    /\ UNCHANGED <<todo, cb, grp, svc, var, setup>>

\* The calls that move the arena or the lanes, or that start and stop the
\* service thread, are refused from an inline callback and settle first.
SettleCall(t) ==
    /\ In(t, Settling, "call") /\ mu = None
    /\ IF ~Acquired(t) THEN Return(t) /\ UNCHANGED mu
       ELSE Goto(t, "settle") /\ mu' = t
    /\ UNCHANGED <<todo, cb, rd, grp, svc, var, net, handed, setup>>

CreateGo(t) ==
    /\ In(t, {"create"}, "go") /\ mu = t
    /\ net' = [net EXCEPT !.arena = @ + 1]
    /\ Return(t) /\ Give
    /\ UNCHANGED <<todo, cb, rd, grp, svc, var, handed, setup>>

\* mutant: a topic whose record is out in a callback is retired all the same
RetirableAlways(p) == TRUE
Retirable(p) == ~rd[p].q.busy
RetireGo(t) ==
    /\ In(t, {"retire"}, "go") /\ mu = t
    /\ LET p == Top(t).call.topic IN
       rd' = IF Retirable(p) THEN [rd EXCEPT ![p] = [NewTopic(setup, p) EXCEPT !.live = FALSE]] ELSE rd
    /\ Return(t) /\ Give
    /\ UNCHANGED <<todo, cb, grp, svc, var, net, handed, setup>>

StartGo(t) ==
    /\ In(t, {"start"}, "go") /\ mu = t
    /\ IF svc.running THEN Return(t) /\ UNCHANGED svc
       ELSE /\ svc' = [svc EXCEPT !.running = TRUE, !.stop = FALSE]
            /\ stk' = [stk EXCEPT ![t] = Front(@), ![Svc] = <<Frame([op |-> "service"])>>]
    /\ Give
    /\ UNCHANGED <<todo, cb, rd, grp, var, net, handed, setup>>

\* One thread joins the service thread, with the lock released; a second stop
\* waits for it.
StopGo(t) ==
    /\ In(t, {"stop"}, "go") /\ mu = t
    /\ CASE svc.joining                  -> Goto(t, "joined") /\ UNCHANGED svc
         [] ~svc.joining /\ ~svc.running -> Return(t) /\ UNCHANGED svc
         [] OTHER                        -> /\ Goto(t, "join")
                                            /\ svc' = [svc EXCEPT !.joining = TRUE, !.stop = TRUE]
    /\ Give
    /\ UNCHANGED <<todo, cb, rd, grp, var, net, handed, setup>>
\* mutant: the stopper does not wait for the thread to end
EndedAlways == TRUE
Ended == stk[Svc] = <<>>
Join(t) ==
    /\ At(t, "join") /\ mu = None
    /\ Ended
    /\ svc' = [running |-> FALSE, stop |-> FALSE, joining |-> FALSE]
    /\ Return(t)
    /\ UNCHANGED <<mu, todo, cb, rd, grp, var, net, handed, setup>>
Joined(t) ==
    /\ At(t, "joined") /\ mu = None
    /\ ~svc.running
    /\ Return(t)
    /\ UNCHANGED <<mu, todo, cb, rd, grp, svc, var, net, handed, setup>>

\* The service thread: the poll body in a loop until it is told to stop.
Service ==
    /\ In(Svc, {"service"}, "call") /\ mu = None
    /\ IF svc.stop THEN Return(Svc) /\ UNCHANGED mu
       ELSE Goto(Svc, "settle") /\ mu' = Svc
    /\ UNCHANGED <<todo, cb, rd, grp, svc, var, net, handed, setup>>

\* Close is called when the application's other threads are out of the node.
\* It looks at the lock without taking it, stops the service thread, and frees
\* the node whatever the stop returned.
CloseCall(t) ==
    /\ In(t, {"close"}, "call")
    /\ \A u \in App \ {t} : stk[u] = <<>> /\ todo[u] = <<>>
    /\ IF grp.dispatching > 0 \/ mu = t THEN Return(t)
       ELSE stk' = [stk EXCEPT ![t] = Append([@ EXCEPT ![Len(@)].at = "closing"], Frame([op |-> "stop"]))]
    /\ UNCHANGED <<mu, todo, cb, rd, grp, svc, var, net, handed, setup>>
CloseGo(t) ==
    /\ At(t, "closing")
    /\ net' = [net EXCEPT !.closed = TRUE]
    /\ Return(t)
    /\ UNCHANGED <<mu, todo, cb, rd, grp, svc, var, handed, setup>>

Terminated == (\A t \in App : stk[t] = <<>> /\ todo[t] = <<>>) /\ UNCHANGED vars

Receive(t) ==
    \/ \E p \in Topic : \/ ReceiveQueued(t, p) \/ ReceiveInline(t, p)
                        \/ ReceiveSet(t, p) \/ ReceiveSetWaits(t, p)
    \/ ReceiveSetWakes(t) \/ ReceiveAck(t) \/ PassEnds(t)
Dispatch(t) == DispatchCall(t) \/ DispatchGo(t) \/ DispatchNext(t) \/ DispatchDone(t)
Stop(t)     == StopGo(t) \/ Join(t) \/ Joined(t)
Close(t)    == CloseCall(t) \/ CloseGo(t)
Poll(t)     == PollCall(t) \/ Settle(t) \/ SettleWakes(t) \/ Wake(t) \/ WaitUntil(t) \/ CvWakes(t)
Send(t)     == SendCall(t) \/ SendGo(t) \/ DrainCall(t) \/ DrainGo(t)
Write(t)    == SetCall(t) \/ ForceCall(t) \/ Written(t)

Next ==
    \/ \E t \in App : Call(t)
    \/ \E t \in Thread :
          \/ Send(t) \/ Write(t) \/ Dispatch(t) \/ TakeCall(t) \/ TakeGo(t)
          \/ SettleCall(t) \/ CreateGo(t) \/ RetireGo(t) \/ StartGo(t) \/ Stop(t) \/ Close(t)
          \/ Poll(t) \/ Receive(t) \/ CallbackCalls(t) \/ CallbackEnd(t)
    \/ Service
    \/ Terminated

Spec == Init /\ [][Next]_vars

----------------------------------------------------------------------------
(* Properties. *)

Frames(t)    == {stk[t][i] : i \in 1..Len(stk[t])}
Callbacks(t) == {f \in Frames(t) : f.call.op = "callback"}
Marked(t)    == {i \in 1..Len(stk[t]) : stk[t][i].marked}
MarkedOut    == UNION {{<<t, i>> : i \in Marked(t)} : t \in Thread}

\* Every part of the state has its type (the state of the node, and the lock).
TypeOK ==
    /\ mu \in Thread \cup {None}
    /\ cb.thread \in Thread \cup {None} /\ cb.out \in Nat
    /\ \A p \in Topic : LET q == rd[p].q IN
         /\ q.head \in 0..q.cap /\ q.tail \in 0..q.cap
         /\ q.bytes \in 0..q.cap /\ q.count \in Nat /\ DOMAIN q.mem = 0..(q.cap - 1)
    /\ grp.dispatching \in Nat /\ var.out \in Nat
    /\ net.unacked \in 0..KeepLast

\* The stamp of the callback thread is true: it names the one thread that is
\* out in an inline callback, no thread when none is, and the count agrees
\* (i_rant_node_callback_begin and _end). A stale stamp makes a plain thread's
\* calls be refused as callbacks, a missing one lets a callback wait.
StampTrue ==
    /\ cb.out = Cardinality(MarkedOut)
    /\ IF MarkedOut = {} THEN cb.thread = None ELSE cb.thread \in {o[1] : o \in MarkedOut}

\* An inline callback never waits for progress that only its own thread may
\* make: no call it makes waits, pumps or enters the receive path
\* (i_rant_node_lock's acquired = 0).
NoWaitInCallback ==
    \A t \in Thread : \A i \in Marked(t) : \A j \in (i + 1)..Len(stk[t]) :
        stk[t][j].at \notin {"settle", "settling", "asleep", "rx", "wait", "cv", "join", "joined"}

\* The rules of a callback bind the callback's thread, only it, and as long as it is
\* out: it never waits, and no other thread is refused.
CallbackRules == StampTrue /\ NoWaitInCallback

\* At most one thread is inside the receive path, a delivery paused in its
\* callback included ("never two threads inside the receive path").
Receiving(t) == \E f \in Frames(t) : f.at \in {"rx", "rxset"} \/ (f.marked /\ f.topic \in Topic)
OneReceiver  == Cardinality({t \in Thread : Receiving(t)}) <= 1

\* The arena never moves under a paused delivery, which still holds pointers
\* into it (create, set role, retire and grow settle first).
ArenaStill == \A t \in Thread : \A f \in Callbacks(t) : f.marked => f.arena = net.arena

\* While an observer is out with an update that views the variable's store, no
\* write changes the store.
StoreStable == \A t \in Thread : \A f \in Callbacks(t) : Kind(f.topic) \in {"var", "set"} => f.rec = var.store

Skips(p) == \E t \in App : \E i \in 1..Len(setup.prog[t]) :
               LET c == setup.prog[t][i] IN c.op = "take" /\ c.topic = p /\ c.latest

\* The application gets the samples of a topic in order and each one once; of a
\* reliable topic it gets every one. Lanes that park and are retried, rings
\* that wrap, grow and evict, and dispatches on several threads all feed it.
HandedInOrder ==
    \A p \in Topic : \A i \in 1..Len(handed[p]) :
        IF setup.reliable[p] /\ ~Skips(p) THEN handed[p][i] = i
        ELSE i > 1 => handed[p][i] > handed[p][i - 1]

\* What the ring holds is what arrived and was neither handed out nor counted
\* as dropped, in order: no record is overwritten, skipped or read twice.
RingSound ==
    \A p \in Topic : Ringed(p) /\ rd[p].live /\ ~Skips(p) =>
        LET d == rd[p] q == rd[p].q recs == Records(q) IN
        /\ \A i \in 1..q.count : recs[i].id \in 1..(d.cur - 1) /\ (i > 1 => recs[i].id > recs[i - 1].id)
        /\ Len(handed[p]) - (IF q.viewing THEN 1 ELSE 0) + q.count + q.dropped = d.cur - 1

\* Every sample of a topic is in one place: handed out, once and in order, or held
\* by the ring, or counted as dropped.
EachOnce == HandedInOrder /\ RingSound

\* The record a callback or a take views stays where it is until it is given
\* back: no push, growth or retire moves or overwrites it.
RecordIntact ==
    /\ \A p \in Topic : rd[p].q.viewing => Oldest(rd[p].q).id = Last(handed[p])
    /\ \A t \in Thread : \A f \in Callbacks(t) :
          Kind(f.topic) = "queue" => rd[f.topic].q.viewing /\ Oldest(rd[f.topic].q).id = f.rec

\* What a callback is lent stays as it was while the callback runs on another
\* thread's time: its record, the arena behind an inline delivery, a variable's value.
ViewIntact == RecordIntact /\ ArenaStill /\ StoreStable

\* A lane parked on a full ring is never forgotten: the ring then holds a record
\* whose release retries it.
NoStrand == \A p \in Topic : rd[p].q.parked => rd[p].q.count > 0

\* Once the node is freed no thread is left inside it: not the service thread,
\* nor the thread that closed it, in a callback.
ClosedAlone == net.closed => \A t \in Thread : Frames(t) = {}
===============================================================================
