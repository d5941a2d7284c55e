-------------------------------- MODULE Calls --------------------------------
(***************************************************************************)
(* Functions and tasks (src/patterns/core.c): one calling handle, the      *)
(* definitions of the same name on other nodes, and the three channels     *)
(* between them (@req, @rsp and the broadcast @prg).  The channels are     *)
(* reliable topics (ReliableTopic): in order and complete while both ends  *)
(* stay matched, but a send that does not wait may overwrite an earlier    *)
(* sample of the history that was not delivered yet.                       *)
(*                                                                         *)
(* The node lock makes each action atomic; user code and the send of a     *)
(* call run outside it and are steps of their own.                         *)
(***************************************************************************)
EXTENDS Integers, Sequences, FiniteSets

CONSTANTS
    Providers,     \* peers that may define the function
    IsTask,        \* the task shape: RUNNING, progress, cancel, directed requests
    CallerQueue,   \* the calling handle was created with a callback queue
    DefQueue,      \* the definitions were created with one
    OnePoller,     \* one thread drives the calling node's loop (a service thread)
    RingCap,       \* records a queue ring holds before it evicts
    Evicts,        \* may a send overwrite an undelivered sample of its channel
    Syncs,         \* may calls be blocking ones
    Drops,         \* may a provider fall silent and resume
    SilentCalls,   \* may a call be made to a silent provider, or while all are
    Returns,       \* may a definition return before its loss was noticed
    StaleTokens,   \* may the application use a token whose call was answered
    Cells,         \* addresses the allocator gives to deferred replies
    MaxCalls,      \* bound: calls made
    MaxProgress,   \* bound: progress updates in flight, and callbacks out when one is sent
    MaxFaults      \* bound: losses, retires, cancels and refreshes

Ids == 1 .. MaxCalls
Any == "any"       \* no provider chosen (RantCallOpts.provider = 0)
NoCall == 0

ASSUME CallsAssumption ==
    /\ {IsTask, CallerQueue, DefQueue, OnePoller, Drops, SilentCalls, Returns, StaleTokens} \subseteq BOOLEAN
    /\ Evicts \subseteq BOOLEAN /\ Syncs \subseteq BOOLEAN
    /\ RingCap \in Nat \ {0}
    /\ {MaxCalls, MaxProgress, MaxFaults} \subseteq Nat
    /\ Any \notin Providers

VARIABLES
    call,          \* i_RantPending of each call, and what became of it
    sending,       \* calls linked under the lock whose send is still to come
    lanes,         \* providers matched on @req, oldest first
    dormant,       \* those of them that fell silent (peer_dormant)
    rring, pring,  \* the calling handle's queue rings on @rsp and @prg
    viewing,       \* the ring whose oldest record is being dispatched
    progressOut,   \* how many progress callbacks of each call are running
    req, rsp, prg, \* undelivered messages of each provider's channels
    sees,          \* has the provider its lanes to the caller, behind the gate
    work,          \* the definition's queue ring on @req
    defers,        \* the live defer registry, by address
    tokens,        \* history: the tokens handed to each application
    ran,           \* history: the providers whose handler ran a call
    faults

callerVars == <<call, sending, lanes, dormant, rring, pring, viewing, progressOut>>
netVars == <<req, rsp, prg>>
providerVars == <<sees, work, defers, tokens, ran>>
vars == <<callerVars, netVars, providerVars, faults>>

-----------------------------------------------------------------------------
(* Pending entries. *)

Statuses == {"ok", "app_error", "timeout", "peer_lost", "cancelled", "no_provider", "error"}

\* "queued" and "sent" are on fn->pending, "parked" on fn->parked; a blocking
\* call's entry is "captured" from its outcome (or timeout, or send error) until
\* that call returns.  "refused": the send failed and the call returned an error.
CallState == [st : {"none", "queued", "sent", "parked", "captured", "done", "refused"},
              dest : Providers \cup {Any}, sync : BOOLEAN, running : BOOLEAN,
              status : Statuses \cup {"none"}, work : Ids \cup {NoCall}, fired : Nat]

NotMade == [st |-> "none", dest |-> Any, sync |-> FALSE, running |-> FALSE,
            status |-> "none", work |-> NoCall, fired |-> 0]

Pending == {i \in Ids : call[i].st \in {"queued", "sent"}}

Live == SelectSeq(lanes, LAMBDA p : p \notin dormant)
MatchedIn(ls) == {ls[k] : k \in DOMAIN ls}
OldestMatch(live) == IF live = <<>> THEN Any ELSE Head(live)

\* newest first, the order of fn->pending, and oldest first, that of a flush
Newest(S) == LET upto[k \in 0 .. MaxCalls] ==
                     IF k = 0 THEN <<>> ELSE IF k \in S THEN <<k>> \o upto[k - 1] ELSE upto[k - 1]
             IN  upto[MaxCalls]
Oldest(S) == LET upto[k \in 0 .. MaxCalls] ==
                     IF k = 0 THEN <<>> ELSE IF k \in S THEN Append(upto[k - 1], k) ELSE upto[k - 1]
             IN  upto[MaxCalls]

\* what unlinking entry c with an outcome does: a blocking call's is captured,
\* with a queue the callback is parked, else it runs here
Ended(c, s, w, park) ==
    IF c.sync THEN [c EXCEPT !.st = "captured", !.status = s, !.work = w]
    ELSE IF park /\ CallerQueue THEN [c EXCEPT !.st = "parked"]
    ELSE [c EXCEPT !.st = "done", !.status = s, !.work = w, !.fired = @ + 1]

\* what a blocking call returns with, and what a dispatched record hands over
Returned(c) == IF c.status = "error" THEN [c EXCEPT !.st = "refused"]
               ELSE [c EXCEPT !.st = "done", !.fired = @ + 1]
HandedOver(c, r) == [c EXCEPT !.st = "done", !.status = r.status, !.work = r.work, !.fired = @ + 1]

\* the ring takes records in order; at its cap it evicts the oldest, or drops
\* the incoming one while a dispatch pins it
Pushed(ring, recs, pinned) ==
    LET all == ring \o recs
        over == Len(all) - RingCap
    IN  IF over <= 0 THEN all
        ELSE IF pinned THEN SubSeq(all, 1, IF Len(ring) < RingCap THEN RingCap ELSE Len(ring))
        ELSE SubSeq(all, over + 1, Len(all))

Record(kind, i, s, w) == [kind |-> kind, id |-> i, status |-> s, work |-> w]

\* the records that failing the calls S parks
OutcomeRecords(c, S, s) ==
    LET order == Newest({i \in S : ~c[i].sync})
    IN  [k \in DOMAIN order |-> Record("outcome", order[k], s, NoCall)]

\* i_rant_func_reap: each call of S is unlinked and gets its synthesized outcome
Reaped(c, S, s, park) == [i \in Ids |-> IF i \in S THEN Ended(c[i], s, NoCall, park) ELSE c[i]]

\* the channel's history ring may have to overwrite what was not delivered
Put(q, m, evict) == IF evict /\ q # <<>> THEN Append(Tail(q), m) ELSE Append(q, m)

CallOp(i) == [op |-> "call", id |-> i]
CancelOp(i) == [op |-> "cancel", id |-> i]
Answer(i, s, w) == [id |-> i, status |-> s, work |-> w]

\* i_RantDefer
NoDefer == [id |-> NoCall, cancelled |-> FALSE, notified |-> FALSE]

\* callbacks run with the lock released, so another polling thread goes on; a
\* single one is in no user callback
AllIn == \A i \in Ids : progressOut[i] = 0
LoopFree == CallerQueue \/ ~OnePoller \/ AllIn

-----------------------------------------------------------------------------
Init ==
    /\ call = [i \in Ids |-> NotMade] /\ sending = {}
    /\ lanes = <<>> /\ dormant = {}
    /\ rring = <<>> /\ pring = <<>> /\ viewing = "none" /\ progressOut = [i \in Ids |-> 0]
    /\ req = [p \in Providers |-> <<>>] /\ rsp = req /\ prg = req
    /\ sees = [p \in Providers |-> TRUE] /\ work = req
    /\ defers = [p \in Providers |-> [c \in Cells |-> NoDefer]]
    /\ tokens = [p \in Providers |-> {}]
    /\ ran = [i \in Ids |-> {}]
    /\ faults = 0

-----------------------------------------------------------------------------
(* The caller's application threads. *)

\* rant_function_call_async and rant_function_call: the entry is linked under
\* the lock; with its provider unmatched the request waits in it, else the
\* send follows with the lock released.
MakeCall(i, d, sync) ==
    LET dest == IF IsTask /\ d = Any THEN OldestMatch(Live) ELSE d
        unmatched == IF dest = Any THEN lanes = <<>> ELSE dest \notin MatchedIn(lanes)
    IN  /\ call[i] = NotMade /\ \A j \in 1 .. (i - 1) : call[j] # NotMade
        /\ SilentCalls \/ (dest \notin dormant /\ (lanes = <<>> \/ Live # <<>>))
        /\ call' = [call EXCEPT ![i] = [NotMade EXCEPT !.st = IF unmatched THEN "queued" ELSE "sent",
                                                       !.dest = dest, !.sync = sync]]
        /\ sending' = IF unmatched THEN sending ELSE sending \cup {i}
        /\ UNCHANGED <<lanes, dormant, rring, pring, viewing, progressOut, netVars, providerVars, faults>>

\* a directed send reaches its provider's lane, an undirected one every lane
Reaches(dest, p) == p \in MatchedIn(lanes) /\ dest \in {Any, p}

SendCall(i, evict) ==
    /\ i \in sending
    /\ sending' = sending \ {i}
    /\ req' = [p \in Providers |-> IF Reaches(call[i].dest, p) THEN Put(req[p], CallOp(i), evict) ELSE req[p]]
    /\ UNCHANGED <<call, lanes, dormant, rring, pring, viewing, progressOut, rsp, prg, providerVars, faults>>

\* the send failed (out of memory): the entry is taken back unless it was
\* answered or reaped meanwhile; a blocking call takes its own in any case
SendFails(i) ==
    /\ i \in sending /\ faults < MaxFaults
    /\ sending' = sending \ {i}
    /\ call' = [call EXCEPT ![i] = IF @.sync THEN [@ EXCEPT !.st = "captured", !.status = "error"]
                                  ELSE IF i \in Pending THEN [@ EXCEPT !.st = "refused"] ELSE @]
    /\ faults' = faults + 1
    /\ UNCHANGED <<lanes, dormant, rring, pring, viewing, progressOut, netVars, providerVars>>

\* a blocking call's wait ran out while nothing had answered: it unlinks its entry
SyncTimeout(i) ==
    /\ call[i].sync /\ i \in Pending \ sending /\ ~call[i].running
    /\ call' = [call EXCEPT ![i] = [@ EXCEPT !.st = "captured", !.status = "timeout"]]
    /\ UNCHANGED <<sending, lanes, dormant, rring, pring, viewing, progressOut, netVars, providerVars, faults>>

\* mutant: the blocking call does not settle its progress callbacks
SyncReturnEarly(i) ==
    /\ call[i].st = "captured" /\ i \notin sending
    /\ call' = [call EXCEPT ![i] = Returned(@)]
    /\ UNCHANGED <<sending, lanes, dormant, rring, pring, viewing, progressOut, netVars, providerVars, faults>>

\* and it returns once none of its progress callbacks is out
SyncReturn(i) ==
    /\ call[i].st = "captured" /\ i \notin sending
    /\ progressOut[i] = 0
    /\ call' = [call EXCEPT ![i] = Returned(@)]
    /\ UNCHANGED <<sending, lanes, dormant, rring, pring, viewing, progressOut, netVars, providerVars, faults>>

\* rant_function_cancel: a queued call ends here, a sent one asks its provider
Cancel(i, evict) ==
    /\ IsTask /\ i \in Pending /\ faults < MaxFaults
    /\ faults' = faults + 1
    /\ \/ /\ call[i].st = "queued"
          /\ call' = Reaped(call, {i}, "cancelled", TRUE)
          /\ rring' = IF CallerQueue THEN Pushed(rring, OutcomeRecords(call, {i}, "cancelled"), viewing = "rsp") ELSE rring
          /\ UNCHANGED req
       \/ /\ call[i].st = "sent" /\ call[i].dest \in MatchedIn(lanes)
          /\ req' = [req EXCEPT ![call[i].dest] = Put(@, CancelOp(i), evict)]
          /\ UNCHANGED <<call, rring>>
    /\ UNCHANGED <<sending, lanes, dormant, pring, viewing, progressOut, rsp, prg, providerVars>>

\* rant_function_refresh: every call is answered CANCELLED inline, then the
\* channels are re-typed and match again; records of answered calls stay
\* behind on the rings.  Refused while a dispatched callback runs.
Refresh ==
    /\ faults < MaxFaults /\ viewing = "none" /\ AllIn
    /\ faults' = faults + 1
    /\ call' = Reaped(call, Pending \cup {i \in Ids : call[i].st = "parked"}, "cancelled", FALSE)
    /\ lanes' = <<>> /\ dormant' = {}
    /\ req' = [p \in Providers |-> <<>>] /\ rsp' = req' /\ prg' = req'
    /\ UNCHANGED <<sending, rring, pring, viewing, progressOut, providerVars>>

-----------------------------------------------------------------------------
(* The caller's loop thread. *)

\* i_rant_func_flush_queued with the lanes ls: the queued calls it sends and
\* where each one goes
Ready(ls) == {i \in Ids : /\ call[i].st = "queued" /\ ls # <<>>
                          /\ call[i].dest \in MatchedIn(ls) \cup {Any}}
FlushDest(i, live) == IF IsTask /\ call[i].dest = Any THEN OldestMatch(live) ELSE call[i].dest
\* mutant: the sent entry keeps its queued_req
FlushedCallStillQueued(ls, live) ==
    [i \in Ids |-> IF i \in Ready(ls) THEN [call[i] EXCEPT !.dest = FlushDest(i, live)] ELSE call[i]]
FlushedCall(ls, live) ==
    [i \in Ids |-> IF i \in Ready(ls)
                   THEN [call[i] EXCEPT !.st = "sent", !.dest = FlushDest(i, live)]
                   ELSE call[i]]
FlushedReq(base, ls, live) ==
    [p \in Providers |->
        LET mine == Oldest({i \in Ready(ls) : p \in MatchedIn(ls) /\ FlushDest(i, live) \in {Any, p}})
        IN  base[p] \o [k \in DOMAIN mine |-> CallOp(mine[k])]]

\* RANT_PEER_INTEREST with a new match: queued calls flush at once
Match(p) ==
    /\ LoopFree /\ sees[p] /\ p \notin MatchedIn(lanes)
    /\ lanes' = Append(lanes, p)
    /\ call' = FlushedCall(lanes', Append(Live, p))
    /\ req' = FlushedReq(req, lanes', Append(Live, p))
    /\ UNCHANGED <<sending, dormant, rring, pring, viewing, progressOut, rsp, prg, providerVars, faults>>

\* the caller frees its lanes to p: requests still undelivered are gone, what p
\* answered may reach a later match
LaneLost(p) ==
    /\ req' = [req EXCEPT ![p] = <<>>]
    /\ \/ UNCHANGED <<rsp, prg>>
       \/ rsp' = [rsp EXCEPT ![p] = <<>>] /\ prg' = [prg EXCEPT ![p] = <<>>]

\* mutant: no reap of the severed calls
SeverOnly(p) ==
    /\ LoopFree /\ p \in MatchedIn(lanes)
    /\ IF sees[p] THEN faults < MaxFaults /\ faults' = faults + 1 ELSE UNCHANGED faults
    /\ lanes' = SelectSeq(lanes, LAMBDA q : q # p) /\ dormant' = dormant \ {p}
    /\ LaneLost(p)
    /\ UNCHANGED <<call, sending, rring, pring, viewing, progressOut, providerVars>>

\* RANT_PEER_INTEREST with a match severed: the provider's announce no longer
\* names the definition.  A call sent to it can never resolve.
Sever(p) ==
    LET severed == {i \in Ids : call[i].st = "sent" /\ call[i].dest = p}
    IN  /\ LoopFree /\ p \in MatchedIn(lanes)
        /\ IF sees[p] THEN faults < MaxFaults /\ faults' = faults + 1 ELSE UNCHANGED faults
        /\ lanes' = SelectSeq(lanes, LAMBDA q : q # p) /\ dormant' = dormant \ {p}
        /\ call' = Reaped(call, severed, "cancelled", TRUE)
        /\ rring' = IF CallerQueue THEN Pushed(rring, OutcomeRecords(call, severed, "cancelled"), viewing = "rsp") ELSE rring
        /\ LaneLost(p)
        /\ UNCHANGED <<sending, pring, viewing, progressOut, providerVars>>

\* RANT_PEER_DOWN: calls directed at the peer are lost, and with no live match
\* left every call already sent
LostTo(p, live) ==
    LET toIt == {i \in Pending : call[i].dest = p}
        sent == IF live = <<>> THEN {i \in Pending : call[i].st = "sent"} ELSE {}
    IN  /\ call' = Reaped(call, toIt \cup sent, "peer_lost", TRUE)
        /\ rring' = IF CallerQueue
                    THEN Pushed(rring, OutcomeRecords(call, toIt, "peer_lost")
                                       \o OutcomeRecords(call, sent \ toIt, "peer_lost"), viewing = "rsp")
                    ELSE rring

\* the peer fell silent: its lanes are kept for a resume
PeerDrop(p) ==
    /\ Drops /\ LoopFree /\ faults < MaxFaults
    /\ p \in MatchedIn(lanes) \ dormant
    /\ dormant' = dormant \cup {p} /\ faults' = faults + 1
    /\ LostTo(p, SelectSeq(Live, LAMBDA q : q # p))
    /\ UNCHANGED <<sending, lanes, pring, viewing, progressOut, netVars, providerVars>>

\* the same incarnation is back: its announce is applied, then its lanes wake
PeerResume(p) ==
    /\ LoopFree /\ p \in dormant /\ sees[p]
    /\ call' = FlushedCall(lanes, Live) /\ req' = FlushedReq(req, lanes, Live)
    /\ dormant' = dormant \ {p}
    /\ UNCHANGED <<sending, lanes, rring, pring, viewing, progressOut, rsp, prg, providerVars, faults>>

\* a silent peer's state is freed, with no event of its own
PeerGone(p) ==
    /\ LoopFree /\ p \in dormant
    /\ dormant' = dormant \ {p} /\ lanes' = SelectSeq(lanes, LAMBDA q : q # p)
    /\ LaneLost(p)
    /\ UNCHANGED <<call, sending, rring, pring, viewing, progressOut, providerVars, faults>>

\* i_rant_patterns_tick finds a deadline passed; a RUNNING call has none.  The
\* queued calls were flushed before, so one still queued had no provider.
Expire(i) ==
    LET s == IF call[i].st = "queued" THEN "no_provider" ELSE "timeout"
    IN  /\ LoopFree /\ i \in Pending \ Ready(lanes) /\ ~call[i].running
        /\ call' = Reaped(call, {i}, s, TRUE)
        /\ rring' = IF CallerQueue THEN Pushed(rring, OutcomeRecords(call, {i}, s), viewing = "rsp") ELSE rring
        /\ UNCHANGED <<sending, lanes, dormant, pring, viewing, progressOut, netVars, providerVars, faults>>

\* a message of provider p reaches the caller
Delivers(p, q) == LoopFree /\ p \in MatchedIn(lanes) \ dormant /\ q # <<>>

\* i_rant_func_on_response, non terminal: the deadline goes, on_progress runs
\* once, parked or inline
RecvRunning(p) ==
    LET m == Head(rsp[p])
        i == m.id
    IN  /\ Delivers(p, rsp[p]) /\ m.status = "running"
        /\ rsp' = [rsp EXCEPT ![p] = Tail(@)]
        /\ call' = [call EXCEPT ![i].running = @ \/ i \in Pending]
        /\ LET fires == i \in Pending /\ ~call[i].running
           IN  IF CallerQueue
               THEN /\ rring' = IF fires THEN Pushed(rring, <<Record("running", i, "none", NoCall)>>, viewing = "rsp") ELSE rring
                    /\ UNCHANGED progressOut
               ELSE /\ progressOut' = IF fires THEN [progressOut EXCEPT ![i] = @ + 1] ELSE progressOut
                    /\ UNCHANGED rring
        /\ UNCHANGED <<sending, lanes, dormant, pring, viewing, req, prg, providerVars, faults>>

\* i_rant_func_on_response, terminal: the entry is unlinked, so a second answer
\* finds none
RecvAnswer(p) ==
    LET m == Head(rsp[p])
        i == m.id
    IN  /\ Delivers(p, rsp[p]) /\ m.status # "running"
        /\ rsp' = [rsp EXCEPT ![p] = Tail(@)]
        /\ call' = IF i \in Pending THEN [call EXCEPT ![i] = Ended(@, m.status, m.work, TRUE)] ELSE call
        /\ rring' = IF i \in Pending /\ CallerQueue /\ ~call[i].sync
                    THEN Pushed(rring, <<Record("response", i, m.status, m.work)>>, viewing = "rsp") ELSE rring
        /\ UNCHANGED <<sending, lanes, dormant, pring, viewing, progressOut, req, prg, providerVars, faults>>

\* i_rant_func_on_progress: progress may beat RUNNING and also ends the deadline
RecvProgress(p) ==
    LET i == Head(prg[p])
    IN  /\ Delivers(p, prg[p])
        /\ prg' = [prg EXCEPT ![p] = Tail(@)]
        /\ call' = [call EXCEPT ![i].running = @ \/ i \in Pending]
        /\ IF CallerQueue
           THEN /\ pring' = IF i \in Pending THEN Pushed(pring, <<Record("progress", i, "none", NoCall)>>, viewing = "prg") ELSE pring
                /\ UNCHANGED progressOut
           ELSE /\ progressOut' = IF i \in Pending THEN [progressOut EXCEPT ![i] = @ + 1] ELSE progressOut
                /\ UNCHANGED pring
        /\ UNCHANGED <<sending, lanes, dormant, rring, viewing, req, rsp, providerVars, faults>>

\* an inline progress callback returns
ProgressReturns(i) ==
    /\ ~CallerQueue /\ progressOut[i] > 0
    /\ progressOut' = [progressOut EXCEPT ![i] = @ - 1]
    /\ UNCHANGED <<call, sending, lanes, dormant, rring, pring, viewing, netVars, providerVars, faults>>

-----------------------------------------------------------------------------
(* The caller's dispatching thread (rant_queue_dispatch). *)

\* mutant: the record is dispatched without looking for its entry
DispatchOutcomeAlways ==
    LET r == Head(rring)
    IN  /\ viewing = "none" /\ rring # <<>> /\ r.kind \in {"response", "outcome"}
        /\ viewing' = "rsp"
        /\ call' = [call EXCEPT ![r.id] = HandedOver(@, r)]
        /\ UNCHANGED <<sending, lanes, dormant, rring, pring, progressOut, netVars, providerVars, faults>>

\* i_rant_func_run_outcome: the record finds its parked entry, or is stale
DispatchOutcome ==
    LET r == Head(rring)
    IN  /\ viewing = "none" /\ rring # <<>> /\ r.kind \in {"response", "outcome"}
        /\ viewing' = "rsp"
        /\ call' = IF call[r.id].st = "parked" THEN [call EXCEPT ![r.id] = HandedOver(@, r)] ELSE call
        /\ UNCHANGED <<sending, lanes, dormant, rring, pring, progressOut, netVars, providerVars, faults>>

\* i_rant_func_run_progress: for a call still known here
DispatchProgress(v) ==
    LET r == Head(IF v = "rsp" THEN rring ELSE pring)
    IN  /\ viewing = "none" /\ (IF v = "rsp" THEN rring ELSE pring) # <<>>
        /\ r.kind \in {"running", "progress"}
        /\ viewing' = v
        /\ progressOut' = IF call[r.id].st \in {"queued", "sent", "parked"}
                          THEN [progressOut EXCEPT ![r.id] = 1] ELSE progressOut
        /\ UNCHANGED <<call, sending, lanes, dormant, rring, pring, netVars, providerVars, faults>>

\* the callback returned, the record is popped
DispatchDone ==
    /\ viewing # "none"
    /\ viewing' = "none" /\ progressOut' = [i \in Ids |-> 0]
    /\ rring' = IF viewing = "rsp" THEN Tail(rring) ELSE rring
    /\ pring' = IF viewing = "prg" THEN Tail(pring) ELSE pring
    /\ UNCHANGED <<call, sending, lanes, dormant, netVars, providerVars, faults>>

-----------------------------------------------------------------------------
(* The definitions. *)

\* what a handler may do with a request before it returns: answer it ("ok" for
\* every status it may give, and for NO_HANDLER), nothing, or keep it for later;
\* a task's handler may have said RUNNING first, and a defer says it by itself
Answers == {"ok", "none", "defer"}

\* i_rant_func_run_request: a handler that returns without an answer acks a
\* function and fails a task
Final(a) == IF a # "none" THEN a ELSE IF IsTask THEN "app_error" ELSE "ok"

\* i_rant_func_send_reply, to nobody when the provider lost the caller
Reply(p, q, i, s, w, evict) == IF sees[p] THEN Put(q, Answer(i, s, w), evict) ELSE q

RunRequest(p, i, a, started, evict) ==
    LET first == IF IsTask /\ (started \/ a = "defer") THEN Reply(p, rsp[p], i, "running", NoCall, evict) ELSE rsp[p]
    IN  /\ ran' = [ran EXCEPT ![i] = @ \cup {p}]
        /\ IF a = "defer"
           THEN \E c \in {x \in Cells : defers[p][x] = NoDefer} :
                    /\ defers' = [defers EXCEPT ![p][c] = [NoDefer EXCEPT !.id = i]]
                    /\ tokens' = [tokens EXCEPT ![p] = @ \cup {[cell |-> c, id |-> i]}]
                    /\ rsp' = [rsp EXCEPT ![p] = first]
           ELSE /\ rsp' = [rsp EXCEPT ![p] = Reply(p, first, i, Final(a), i, evict)]
                /\ UNCHANGED <<defers, tokens>>

\* a request reaches its definition: a silent peer's lane sends nothing
Arrives(p, op) == sees[p] /\ p \notin dormant /\ req[p] # <<>> /\ Head(req[p]).op = op

\* i_rant_func_on_request without a queue: the handler runs at receipt
RecvRequest(p, a, started, evict) ==
    /\ ~DefQueue /\ Arrives(p, "call")
    /\ req' = [req EXCEPT ![p] = Tail(@)]
    /\ RunRequest(p, Head(req[p]).id, a, started, evict)
    /\ UNCHANGED <<callerVars, prg, sees, work, faults>>

\* ... and with one: the request is parked whole
ParkRequest(p, pinned) ==
    /\ DefQueue /\ Arrives(p, "call")
    /\ req' = [req EXCEPT ![p] = Tail(@)]
    /\ work' = [work EXCEPT ![p] = Pushed(@, <<Head(req[p])>>, pinned)]
    /\ UNCHANGED <<callerVars, rsp, prg, sees, defers, tokens, ran, faults>>

DispatchRequest(p, a, started, evict) ==
    /\ work[p] # <<>> /\ Head(work[p]).op = "call"
    /\ work' = [work EXCEPT ![p] = Tail(@)]
    /\ RunRequest(p, Head(work[p]).id, a, started, evict)
    /\ UNCHANGED <<callerVars, req, prg, sees, faults>>

\* i_rant_func_cancel_op: a live deferred call is marked once and on_cancel told
\* here or at dispatch; a cancel that finds none does nothing
RecvCancel(p, pinned) ==
    LET m == Head(req[p])
        hit == {c \in Cells : defers[p][c].id = m.id /\ ~defers[p][c].cancelled}
    IN  /\ Arrives(p, "cancel")
        /\ req' = [req EXCEPT ![p] = Tail(@)]
        /\ defers' = [defers EXCEPT ![p] = [c \in Cells |->
                         IF c \in hit THEN [@[c] EXCEPT !.cancelled = TRUE, !.notified = ~DefQueue] ELSE @[c]]]
        /\ work' = IF DefQueue /\ hit # {} THEN [work EXCEPT ![p] = Pushed(@, <<m>>, pinned)] ELSE work
        /\ UNCHANGED <<callerVars, rsp, prg, sees, tokens, ran, faults>>

\* i_rant_func_run_cancel: on_cancel runs if the call is still live and untold
DispatchCancel(p) ==
    /\ work[p] # <<>> /\ Head(work[p]).op = "cancel"
    /\ work' = [work EXCEPT ![p] = Tail(@)]
    /\ defers' = [defers EXCEPT ![p] = [c \in Cells |->
                     IF @[c].id = Head(work[p]).id THEN [@[c] EXCEPT !.notified = TRUE] ELSE @[c]]]
    /\ UNCHANGED <<callerVars, netVars, sees, tokens, ran, faults>>

\* rant_function_complete with a token the application was given: the address
\* must be in the registry, and whatever call it stands for is answered
Complete(p, t, evict) ==
    /\ t \in tokens[p] /\ (StaleTokens \/ defers[p][t.cell].id = t.id)
    /\ defers[p][t.cell] # NoDefer
    /\ defers' = [defers EXCEPT ![p][t.cell] = NoDefer]
    /\ tokens' = IF StaleTokens THEN tokens ELSE [tokens EXCEPT ![p] = @ \ {t}]
    /\ rsp' = [rsp EXCEPT ![p] = Reply(p, @, defers[p][t.cell].id, "ok", t.id, evict)]
    /\ UNCHANGED <<callerVars, req, prg, sees, work, ran, faults>>

\* rant_function_progress
Progress(p, t) ==
    /\ IsTask /\ t \in tokens[p] /\ defers[p][t.cell].id = t.id
    /\ sees[p] /\ Len(prg[p]) < MaxProgress /\ progressOut[t.id] <= MaxProgress
    /\ prg' = [prg EXCEPT ![p] = Append(@, t.id)]
    /\ UNCHANGED <<callerVars, req, rsp, providerVars, faults>>

\* the definition goes: retired, its live deferred calls answered CANCELLED and
\* flushed once, or crashed.  Nothing is repaired any more: of what was under
\* way only the first n arrive.
ProviderLeaves(p, n) ==
    LET live == Oldest({defers[p][c].id : c \in Cells})
        all == rsp[p] \o [k \in DOMAIN live |-> Answer(live[k], "cancelled", live[k])]
    IN  /\ sees[p] /\ faults < MaxFaults /\ n <= Len(all)
        /\ sees' = [sees EXCEPT ![p] = FALSE] /\ faults' = faults + 1
        /\ rsp' = [rsp EXCEPT ![p] = SubSeq(all, 1, n)]
        /\ prg' = [prg EXCEPT ![p] = <<>>]
        /\ defers' = [defers EXCEPT ![p] = [c \in Cells |-> NoDefer]]
        /\ tokens' = [tokens EXCEPT ![p] = {}] /\ work' = [work EXCEPT ![p] = <<>>]
        /\ UNCHANGED <<callerVars, req, ran>>

\* ... and is created again
ProviderReturns(p) ==
    /\ ~sees[p] /\ (Returns \/ p \notin MatchedIn(lanes))
    /\ sees' = [sees EXCEPT ![p] = TRUE]
    /\ UNCHANGED <<callerVars, netVars, work, defers, tokens, ran, faults>>

-----------------------------------------------------------------------------
CallerApp ==
    \/ \E i \in Ids, d \in Providers \cup {Any}, sync \in Syncs : MakeCall(i, d, sync)
    \/ \E i \in Ids, e \in Evicts : SendCall(i, e) \/ Cancel(i, e)
    \/ \E i \in Ids : SendFails(i) \/ SyncTimeout(i) \/ SyncReturn(i)
    \/ Refresh

CallerLoop ==
    \/ \E p \in Providers : Match(p) \/ Sever(p) \/ PeerDrop(p) \/ PeerResume(p) \/ PeerGone(p)
    \/ \E i \in Ids : Expire(i) \/ ProgressReturns(i)
    \/ \E p \in Providers : RecvRunning(p) \/ RecvAnswer(p) \/ RecvProgress(p)

CallerDispatch == DispatchOutcome \/ (\E v \in {"rsp", "prg"} : DispatchProgress(v)) \/ DispatchDone

ProviderNext ==
    \E p \in Providers :
        \/ \E a \in Answers, st \in BOOLEAN, e \in Evicts : RecvRequest(p, a, st, e) \/ DispatchRequest(p, a, st, e)
        \/ \E b \in BOOLEAN : ParkRequest(p, b) \/ RecvCancel(p, b)
        \/ DispatchCancel(p)
        \/ \E t \in tokens[p], e \in Evicts : Complete(p, t, e)
        \/ \E t \in tokens[p] : Progress(p, t)
        \/ \E n \in 0 .. 2 * MaxCalls * Cardinality(Cells) : ProviderLeaves(p, n)
        \/ ProviderReturns(p)

Next == CallerApp \/ CallerLoop \/ CallerDispatch \/ ProviderNext

Spec == Init /\ [][Next]_vars

-----------------------------------------------------------------------------
(* Safety. *)

\* Every variable has its type.  In particular an answer, a ring record and a
\* running progress callback always belong to a call that was made.
TypeOK ==
    /\ call \in [Ids -> CallState]
    /\ sending \subseteq Ids
    /\ lanes \in Seq(Providers) /\ dormant \subseteq MatchedIn(lanes)
    /\ viewing \in {"none", "rsp", "prg"}
    /\ Len(rring) <= RingCap /\ Len(pring) <= RingCap
    /\ progressOut \in [Ids -> Nat] /\ \A i \in Ids : progressOut[i] > 0 => call[i].st # "none"
    /\ \A r \in {rring[k] : k \in DOMAIN rring} \cup {pring[k] : k \in DOMAIN pring} : call[r.id].st # "none"
    /\ \A p \in Providers :
          /\ \A k \in DOMAIN rsp[p] : rsp[p][k].id \in Ids /\ call[rsp[p][k].id].st # "none"
          /\ \A c \in Cells : defers[p][c].id \in Ids \cup {NoCall}

\* Each call ends exactly once: on_response runs once, or the blocking call
\* returns once, whichever of answer, timeout, severed lane, lost peer, local
\* cancel, refresh and queue dispatch come first and however often the others
\* follow.
OneOutcome ==
    \A i \in Ids : call[i].fired = IF call[i].st = "done" THEN 1 ELSE 0

\* The request of a call that ended NO_PROVIDER never left the node
\* (RANT_CALL_NO_PROVIDER): it is in no channel and no queue, and no handler ran it.
NoProviderNeverRan ==
    \A i \in Ids :
        call[i].status = "no_provider" =>
            /\ ran[i] = {} /\ i \notin sending
            /\ \A p \in Providers : /\ \A k \in DOMAIN req[p] : req[p][k].id # i
                                   /\ \A k \in DOMAIN work[p] : work[p][k].id # i

\* No progress callback of a blocking call runs once that call returned, since
\* progress_user may be gone with the caller's frame; where one thread drives the
\* loop, or a queue is dispatched, none runs after the outcome of any call.
ProgressWithinCall ==
    \A i \in Ids : progressOut[i] > 0 /\ (call[i].sync \/ OnePoller \/ CallerQueue)
                       => call[i].st \notin {"done", "refused"}

\* An answered call carries the result of its own work.
OwnResult == \A i \in Ids : call[i].work \in {i, NoCall}

\* A task's request starts the work on one node only.
OneExecutor == IsTask => \A i \in Ids : Cardinality(ran[i]) <= 1

-----------------------------------------------------------------------------
(* Liveness. *)

\* The loop of the caller's service thread polls, ticks and learns of peers; the
\* queue is dispatched; the definitions' handlers run and the applications
\* finish the work they deferred.  The loop's steps are disabled while a
\* callback is out, hence strong fairness.
Fairness ==
    /\ \A i \in Ids : /\ WF_vars(\E e \in Evicts : SendCall(i, e))
                      /\ WF_vars(ProgressReturns(i))
                      /\ SF_vars(SyncTimeout(i) \/ SyncReturn(i) \/ Expire(i))
    /\ WF_vars(DispatchDone)
    /\ SF_vars(DispatchOutcome \/ DispatchProgress("rsp"))
    /\ SF_vars(DispatchProgress("prg"))
    /\ \A p \in Providers :
          /\ SF_vars(~sees[p] /\ Sever(p))
          /\ SF_vars(RecvRunning(p) \/ RecvAnswer(p)) /\ SF_vars(RecvProgress(p))
          /\ WF_vars(\E a \in Answers, st, b \in BOOLEAN, e \in Evicts :
                        RecvRequest(p, a, st, e) \/ ParkRequest(p, b) \/ RecvCancel(p, b))
          /\ WF_vars((\E a \in Answers, st \in BOOLEAN, e \in Evicts : DispatchRequest(p, a, st, e)) \/ DispatchCancel(p))
          /\ \A i \in Ids : WF_vars(\E t \in tokens[p], e \in Evicts : t.id = i /\ Complete(p, t, e))

FairSpec == Spec /\ Fairness

\* Every call ends: a RUNNING call has no deadline, so this rests on the answer,
\* the severed lane and the lost peer reaching it, and on parked outcomes being
\* dispatched.
EveryCallEnds ==
    \A i \in Ids : call[i].st # "none" ~> call[i].st \in {"done", "refused"}

=============================================================================
