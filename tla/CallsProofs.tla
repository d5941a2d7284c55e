----------------------------- MODULE CallsProofs -----------------------------
(***************************************************************************)
(* Every call of a function or a task ends at most once, a call that ended *)
(* NO_PROVIDER never left the node, and no progress callback outlives its  *)
(* call: for any number of providers, calls and faults, with and without   *)
(* callback queues.                                                        *)
(***************************************************************************)
EXTENDS Calls, SeqLemmas

\* A pending entry is a record of these fields, whatever they hold.
Shaped(c) == c = [st |-> c.st, dest |-> c.dest, sync |-> c.sync, running |-> c.running,
                  status |-> c.status, work |-> c.work, fired |-> c.fired]

\* OneOutcome is not inductive by itself: the send of a blocking call may fail
\* after the call was answered, and must not find its entry already returned.
EntryInv(i) ==
    /\ Shaped(call[i])
    /\ call[i].fired = IF call[i].st = "done" THEN 1 ELSE 0
    /\ i \in sending => call[i].st # "none"
    /\ i \in sending /\ call[i].sync => call[i].st \in {"sent", "captured"}
    /\ call[i].st = "captured" => call[i].sync

OutcomeInv ==
    /\ call = [i \in Ids |-> call[i]]
    /\ \A i \in Ids : EntryInv(i)

\* one entry that has not ended ends, or does not
LEMMA EndedOnce ==
    ASSUME NEW c, Shaped(c), c.fired = 0, NEW s, NEW w, NEW park
    PROVE  /\ Shaped(Ended(c, s, w, park))
           /\ Ended(c, s, w, park).sync = c.sync
           /\ c.sync => Ended(c, s, w, park).st = "captured" /\ Ended(c, s, w, park).fired = 0
           /\ ~c.sync => /\ Ended(c, s, w, park).st \in {"parked", "done"}
                         /\ Ended(c, s, w, park).fired = IF Ended(c, s, w, park).st = "done" THEN 1 ELSE 0
  <1>1. CASE c.sync
    <2>1. Ended(c, s, w, park) = [st |-> "captured", dest |-> c.dest, sync |-> c.sync, running |-> c.running,
                                  status |-> s, work |-> w, fired |-> c.fired]
      BY <1>1 DEF Shaped, Ended
    <2> QED BY <1>1, <2>1 DEF Shaped
  <1>2. CASE ~c.sync /\ park /\ CallerQueue
    <2>1. Ended(c, s, w, park) = [st |-> "parked", dest |-> c.dest, sync |-> c.sync, running |-> c.running,
                                  status |-> c.status, work |-> c.work, fired |-> c.fired]
      BY <1>2 DEF Shaped, Ended
    <2>2. Shaped(Ended(c, s, w, park))
      BY <2>1 DEF Shaped
    <2>3. /\ Ended(c, s, w, park).st = "parked" /\ Ended(c, s, w, park).fired = 0
          /\ Ended(c, s, w, park).sync = c.sync
      BY <2>1
    <2> QED BY <1>2, <2>2, <2>3
  <1>3. CASE ~c.sync /\ ~(park /\ CallerQueue)
    <2>1. Ended(c, s, w, park) = [st |-> "done", dest |-> c.dest, sync |-> c.sync, running |-> c.running,
                                  status |-> s, work |-> w, fired |-> c.fired + 1]
      BY <1>3 DEF Shaped, Ended
    <2> QED BY <1>3, <2>1 DEF Shaped
  <1> QED BY <1>1, <1>2, <1>3

\* entries are as they were and no send was added
LEMMA EntriesKept ==
    ASSUME OutcomeInv, call' = call, sending' \subseteq sending
    PROVE  OutcomeInv'
  BY DEF OutcomeInv, EntryInv

\* the invariant of the next state, entry by entry
LEMMA EntryByEntry ==
    ASSUME call' = [i \in Ids |-> call'[i]], \A i \in Ids : EntryInv(i)'
    PROVE  OutcomeInv'
  BY DEF OutcomeInv

\* an entry no step touched still has its due
LEMMA Untouched ==
    ASSUME OutcomeInv, NEW i \in Ids, call'[i] = call[i], i \in sending' => i \in sending
    PROVE  EntryInv(i)'
  <1>1. EntryInv(i)
    BY DEF OutcomeInv
  <1> QED BY <1>1 DEF EntryInv

\* i_rant_func_reap and its relatives end only what has not ended
LEMMA ReapedOnce ==
    ASSUME OutcomeInv, NEW S, \A i \in S : i \in Ids => call[i].st \in {"queued", "sent", "parked"},
           NEW s, NEW park, call' = Reaped(call, S, s, park), sending' = sending
    PROVE  OutcomeInv'
  <1>1. call' = [i \in Ids |-> call'[i]]
    BY DEF Reaped
  <1>2. ASSUME NEW i \in Ids PROVE EntryInv(i)'
    <2>1. CASE i \in S
      <3>1. call'[i] = Ended(call[i], s, NoCall, park)
        BY <2>1 DEF Reaped
      <3>2. Shaped(call[i]) /\ call[i].fired = 0
        BY <2>1 DEF OutcomeInv, EntryInv
      <3>3. /\ Shaped(call'[i])
            /\ call'[i].sync = call[i].sync
            /\ call[i].sync => call'[i].st = "captured" /\ call'[i].fired = 0
            /\ ~call[i].sync => /\ call'[i].st \in {"parked", "done"}
                               /\ call'[i].fired = IF call'[i].st = "done" THEN 1 ELSE 0
        BY <3>1, <3>2, EndedOnce
      <3> QED BY <3>3 DEF EntryInv
    <2>2. CASE i \notin S
      BY <2>2, Untouched DEF Reaped
    <2> QED BY <2>1, <2>2
  <1> QED BY <1>1, <1>2, EntryByEntry

\* a step that gives one entry a new value
LEMMA OneEntry ==
    ASSUME OutcomeInv, NEW i, NEW c, call' = [call EXCEPT ![i] = c],
           \A j \in sending' : j = i \/ j \in sending, i \in Ids => EntryInv(i)'
    PROVE  OutcomeInv'
  <1>1. call = [j \in Ids |-> call[j]]
    BY DEF OutcomeInv
  <1>2. call' = [j \in Ids |-> call'[j]]
    BY <1>1
  <1>3. ASSUME NEW j \in Ids, j # i PROVE EntryInv(j)'
    <2>1. call'[j] = call[j]
      BY <1>1, <1>3
    <2> QED BY <1>3, <2>1, Untouched
  <1> QED BY <1>2, <1>3, EntryByEntry

\* RUNNING and progress change no outcome
LEMMA RunningKept ==
    ASSUME OutcomeInv, NEW i, NEW b, call' = [call EXCEPT ![i].running = b], sending' = sending
    PROVE  OutcomeInv'
  <1>1. call' = [call EXCEPT ![i] = [call[i] EXCEPT !.running = b]]
    OBVIOUS
  <1>2. ASSUME i \in Ids PROVE EntryInv(i)'
    <2>1. EntryInv(i) /\ call'[i] = [call[i] EXCEPT !.running = b]
      BY <1>1, <1>2 DEF OutcomeInv
    <2>2. /\ Shaped(call'[i]) /\ call'[i].st = call[i].st
          /\ call'[i].sync = call[i].sync /\ call'[i].fired = call[i].fired
      BY <2>1 DEF EntryInv, Shaped
    <2> QED BY <2>1, <2>2 DEF EntryInv
  <1> QED BY <1>1, <1>2, OneEntry

-----------------------------------------------------------------------------
(* The actions that change an entry. *)

\* a new entry, queued or on its way, has no outcome
LEMMA MakeCallKeeps ==
    ASSUME OutcomeInv, NEW i \in Ids, NEW d, NEW sync, MakeCall(i, d, sync)
    PROVE  OutcomeInv'
  <1>1. PICK u, dest : /\ call' = [call EXCEPT ![i] = [NotMade EXCEPT !.st = IF u THEN "queued" ELSE "sent",
                                                                  !.dest = dest, !.sync = sync]]
                      /\ sending' = IF u THEN sending ELSE sending \cup {i}
    BY DEF MakeCall
  <1>2. Shaped(NotMade) /\ NotMade.fired = 0 /\ NotMade.st = "none"
    BY DEF NotMade, Shaped
  <1>3. i \notin sending
    BY <1>2 DEF MakeCall, OutcomeInv, EntryInv
  <1>4. call'[i] = [NotMade EXCEPT !.st = IF u THEN "queued" ELSE "sent", !.dest = dest, !.sync = sync]
    BY <1>1 DEF OutcomeInv
  <1>5. Shaped(call'[i]) /\ call'[i].fired = 0 /\ call'[i].st = IF u THEN "queued" ELSE "sent"
    BY <1>4 DEF NotMade, Shaped
  <1>6. EntryInv(i)'
    BY <1>1, <1>3, <1>5 DEF EntryInv
  <1>7. \A j \in sending' : j = i \/ j \in sending
    BY <1>1
  <1> QED BY <1>1, <1>6, <1>7, OneEntry

\* a failed send takes back an entry nothing has ended, or the blocking call's own
LEMMA SendFailsKeeps ==
    ASSUME OutcomeInv, NEW i \in Ids, SendFails(i)
    PROVE  OutcomeInv'
  <1>1. i \in sending /\ sending' = sending \ {i} /\ EntryInv(i)
    BY DEF SendFails, OutcomeInv
  <1>2. CASE call[i].sync
    <2>1. call' = [call EXCEPT ![i] = [call[i] EXCEPT !.st = "captured", !.status = "error"]]
      BY <1>2 DEF SendFails
    <2>2. call'[i] = [call[i] EXCEPT !.st = "captured", !.status = "error"]
      BY <2>1 DEF OutcomeInv
    <2>3. /\ Shaped(call'[i]) /\ call'[i].st = "captured"
          /\ call'[i].sync = call[i].sync /\ call'[i].fired = call[i].fired
      BY <1>1, <2>2 DEF EntryInv, Shaped
    <2>4. EntryInv(i)'
      BY <1>1, <1>2, <2>3 DEF EntryInv
    <2> QED BY <1>1, <2>1, <2>4, OneEntry
  <1>3. CASE ~call[i].sync /\ i \in Pending
    <2>1. call' = [call EXCEPT ![i] = [call[i] EXCEPT !.st = "refused"]]
      BY <1>3 DEF SendFails
    <2>2. call'[i] = [call[i] EXCEPT !.st = "refused"]
      BY <2>1 DEF OutcomeInv
    <2>3. Shaped(call'[i]) /\ call'[i].st = "refused" /\ call'[i].fired = call[i].fired
      BY <1>1, <2>2 DEF EntryInv, Shaped
    <2>4. call[i].st \in {"queued", "sent"}
      BY <1>3 DEF Pending
    <2>5. EntryInv(i)'
      BY <1>1, <2>3, <2>4 DEF EntryInv
    <2> QED BY <1>1, <2>1, <2>5, OneEntry
  <1>4. CASE ~call[i].sync /\ i \notin Pending
    <2>1. call' = [call EXCEPT ![i] = call[i]]
      BY <1>4 DEF SendFails
    <2>2. call' = call
      BY <2>1 DEF OutcomeInv
    <2> QED BY <1>1, <2>2, EntriesKept
  <1> QED BY <1>2, <1>3, <1>4

\* a blocking call that runs out unlinks an entry nothing has ended
LEMMA SyncTimeoutKeeps ==
    ASSUME OutcomeInv, NEW i \in Ids, SyncTimeout(i)
    PROVE  OutcomeInv'
  <1>1. EntryInv(i)
    BY DEF OutcomeInv
  <1>2. call[i].sync /\ call[i].st \in {"queued", "sent"} /\ sending' = sending
    BY DEF SyncTimeout, Pending
  <1>3. call' = [call EXCEPT ![i] = [call[i] EXCEPT !.st = "captured", !.status = "timeout"]]
    BY DEF SyncTimeout
  <1>4. call'[i] = [call[i] EXCEPT !.st = "captured", !.status = "timeout"]
    BY <1>3 DEF OutcomeInv
  <1>5. /\ Shaped(call'[i]) /\ call'[i].st = "captured"
        /\ call'[i].sync = call[i].sync /\ call'[i].fired = call[i].fired
    BY <1>1, <1>4 DEF EntryInv, Shaped
  <1>6. EntryInv(i)'
    BY <1>1, <1>2, <1>5 DEF EntryInv
  <1> QED BY <1>2, <1>3, <1>6, OneEntry

\* a blocking call returns once: only it moves a captured entry on
LEMMA SyncReturnKeeps ==
    ASSUME OutcomeInv, NEW i \in Ids, SyncReturn(i)
    PROVE  OutcomeInv'
  <1>1. EntryInv(i)
    BY DEF OutcomeInv
  <1>2. call[i].st = "captured" /\ i \notin sending /\ sending' = sending
    BY DEF SyncReturn
  <1>3. call' = [call EXCEPT ![i] = Returned(call[i])]
    BY DEF SyncReturn
  <1>4. call'[i] = Returned(call[i])
    BY <1>3 DEF OutcomeInv
  <1>5. EntryInv(i)'
    <2>1. CASE call[i].status = "error"
      <3>1. call'[i] = [call[i] EXCEPT !.st = "refused"]
        BY <1>4, <2>1 DEF Returned
      <3>2. Shaped(call'[i]) /\ call'[i].st = "refused" /\ call'[i].fired = call[i].fired
        BY <1>1, <3>1 DEF EntryInv, Shaped
      <3> QED BY <1>1, <1>2, <3>2 DEF EntryInv
    <2>2. CASE call[i].status # "error"
      <3>1. call'[i] = [call[i] EXCEPT !.st = "done", !.fired = @ + 1]
        BY <1>4, <2>2 DEF Returned
      <3>2. Shaped(call'[i]) /\ call'[i].st = "done" /\ call'[i].fired = call[i].fired + 1
        BY <1>1, <3>1 DEF EntryInv, Shaped
      <3> QED BY <1>1, <1>2, <3>2 DEF EntryInv
    <2> QED BY <2>1, <2>2
  <1> QED BY <1>2, <1>3, <1>5, OneEntry

\* i_rant_func_on_response finds a pending entry or none
LEMMA RecvAnswerKeeps ==
    ASSUME OutcomeInv, NEW p \in Providers, RecvAnswer(p)
    PROVE  OutcomeInv'
  <1>1. sending' = sending
    BY DEF RecvAnswer
  <1>2. PICK i, s, w, park : call' = IF i \in Pending THEN [call EXCEPT ![i] = Ended(call[i], s, w, park)] ELSE call
    BY DEF RecvAnswer
  <1>3. CASE i \in Pending
    <2>1. i \in Ids /\ call[i].st \in {"queued", "sent"}
      BY <1>3 DEF Pending
    <2>2. EntryInv(i)
      BY <2>1 DEF OutcomeInv
    <2>3. call' = [call EXCEPT ![i] = Ended(call[i], s, w, park)]
      BY <1>2, <1>3
    <2>4. call'[i] = Ended(call[i], s, w, park)
      BY <2>1, <2>3 DEF OutcomeInv
    <2>5. Shaped(call[i]) /\ call[i].fired = 0
      BY <2>1, <2>2 DEF EntryInv
    <2>6. /\ Shaped(call'[i])
          /\ call'[i].sync = call[i].sync
          /\ call[i].sync => call'[i].st = "captured" /\ call'[i].fired = 0
          /\ ~call[i].sync => /\ call'[i].st \in {"parked", "done"}
                             /\ call'[i].fired = IF call'[i].st = "done" THEN 1 ELSE 0
      BY <2>4, <2>5, EndedOnce
    <2>7. EntryInv(i)'
      BY <2>6 DEF EntryInv
    <2> QED BY <1>1, <2>3, <2>7, OneEntry
  <1>4. CASE i \notin Pending
    BY <1>1, <1>2, <1>4, EntriesKept
  <1> QED BY <1>3, <1>4

\* i_rant_func_run_outcome finds a parked entry or none
LEMMA DispatchOutcomeKeeps ==
    ASSUME OutcomeInv, DispatchOutcome
    PROVE  OutcomeInv'
  <1>1. sending' = sending
    BY DEF DispatchOutcome
  <1>2. PICK i, r : call' = IF call[i].st = "parked" THEN [call EXCEPT ![i] = HandedOver(call[i], r)] ELSE call
    BY DEF DispatchOutcome
  <1>3. CASE call[i].st = "parked"
    <2>1. call' = [call EXCEPT ![i] = HandedOver(call[i], r)]
      BY <1>2, <1>3
    <2>2. ASSUME i \in Ids PROVE EntryInv(i)'
      <3>1. EntryInv(i)
        BY <2>2 DEF OutcomeInv
      <3>2. call'[i] = [call[i] EXCEPT !.st = "done", !.status = r.status, !.work = r.work, !.fired = @ + 1]
        BY <2>1, <2>2 DEF OutcomeInv, HandedOver
      <3>3. /\ Shaped(call'[i]) /\ call'[i].st = "done"
            /\ call'[i].sync = call[i].sync /\ call'[i].fired = call[i].fired + 1
        BY <3>1, <3>2 DEF EntryInv, Shaped
      <3> QED BY <1>1, <1>3, <3>1, <3>3 DEF EntryInv
    <2> QED BY <1>1, <2>1, <2>2, OneEntry
  <1>4. CASE call[i].st # "parked"
    BY <1>1, <1>2, <1>4, EntriesKept
  <1> QED BY <1>3, <1>4

\* a flush only sends what was queued
LEMMA MatchKeeps ==
    ASSUME OutcomeInv, NEW ls, NEW live, call' = FlushedCall(ls, live), sending' = sending
    PROVE  OutcomeInv'
  <1>1. call' = [i \in Ids |-> call'[i]]
    BY DEF FlushedCall
  <1>2. ASSUME NEW i \in Ids PROVE EntryInv(i)'
    <2>1. EntryInv(i)
      BY DEF OutcomeInv
    <2>2. CASE i \in Ready(ls)
      <3>1. call'[i] = [call[i] EXCEPT !.st = "sent", !.dest = FlushDest(i, live)]
        BY <2>2 DEF FlushedCall
      <3>2. /\ Shaped(call'[i]) /\ call'[i].st = "sent"
            /\ call'[i].sync = call[i].sync /\ call'[i].fired = call[i].fired
        BY <2>1, <3>1 DEF EntryInv, Shaped
      <3>3. call[i].st = "queued"
        BY <2>2 DEF Ready
      <3> QED BY <2>1, <3>2, <3>3 DEF EntryInv
    <2>3. CASE i \notin Ready(ls)
      <3>1. call'[i] = call[i]
        BY <2>3 DEF FlushedCall
      <3> QED BY <3>1, Untouched
    <2> QED BY <2>2, <2>3
  <1> QED BY <1>1, <1>2, EntryByEntry

-----------------------------------------------------------------------------
\* Every pending entry of i_RantPending keeps its invariant: what ended has one
\* outcome, what has not ended has none.
THEOREM OutcomeInvariance == Spec => []OutcomeInv
  <1>1. Init => OutcomeInv
    <2> SUFFICES ASSUME Init PROVE OutcomeInv
      OBVIOUS
    <2>1. call = [i \in Ids |-> NotMade] /\ sending = {}
      BY DEF Init
    <2>2. Shaped(NotMade) /\ NotMade.st = "none" /\ NotMade.fired = 0
      BY DEF Shaped, NotMade
    <2> QED BY <2>1, <2>2 DEF OutcomeInv, EntryInv
  <1>2. OutcomeInv /\ [Next]_vars => OutcomeInv'
    <2> SUFFICES ASSUME OutcomeInv, [Next]_vars PROVE OutcomeInv'
      OBVIOUS
    <2>1. CASE CallerApp
      <3>1. ASSUME NEW i \in Ids, NEW d \in Providers \cup {Any}, NEW sync \in Syncs, MakeCall(i, d, sync)
            PROVE  OutcomeInv'
        BY <3>1, MakeCallKeeps
      <3>2. ASSUME NEW i \in Ids, NEW e \in Evicts, SendCall(i, e)
            PROVE  OutcomeInv'
        BY <3>2, EntriesKept DEF SendCall
      <3>3. ASSUME NEW i \in Ids, NEW e \in Evicts, Cancel(i, e)
            PROVE  OutcomeInv'
        <4>1. sending' = sending /\ (call' = call \/ (call[i].st = "queued" /\ call' = Reaped(call, {i}, "cancelled", TRUE)))
          BY <3>3 DEF Cancel
        <4>2. CASE call' = call
          BY <4>1, <4>2, EntriesKept
        <4>3. CASE call[i].st = "queued" /\ call' = Reaped(call, {i}, "cancelled", TRUE)
          BY <4>1, <4>3, ReapedOnce
        <4> QED BY <4>1, <4>2, <4>3
      <3>4. ASSUME NEW i \in Ids, SendFails(i) PROVE OutcomeInv'
        BY <3>4, SendFailsKeeps
      <3>5. ASSUME NEW i \in Ids, SyncTimeout(i) PROVE OutcomeInv'
        BY <3>5, SyncTimeoutKeeps
      <3>6. ASSUME NEW i \in Ids, SyncReturn(i) PROVE OutcomeInv'
        BY <3>6, SyncReturnKeeps
      <3>7. ASSUME Refresh PROVE OutcomeInv'
        <4> DEFINE S == Pending \cup {i \in Ids : call[i].st = "parked"}
        <4>1. sending' = sending /\ call' = Reaped(call, S, "cancelled", FALSE)
          BY <3>7 DEF Refresh
        <4>2. \A i \in S : i \in Ids => call[i].st \in {"queued", "sent", "parked"}
          BY DEF Pending
        <4> QED BY <4>1, <4>2, ReapedOnce
      <3> QED BY <2>1, <3>1, <3>2, <3>3, <3>4, <3>5, <3>6, <3>7 DEF CallerApp
    <2>2. CASE CallerLoop
      <3>1. ASSUME NEW p \in Providers, Match(p) PROVE OutcomeInv'
        BY <3>1, MatchKeeps DEF Match
      <3>2. ASSUME NEW p \in Providers, Sever(p) PROVE OutcomeInv'
        <4> DEFINE S == {i \in Ids : call[i].st = "sent" /\ call[i].dest = p}
        <4>1. sending' = sending /\ call' = Reaped(call, S, "cancelled", TRUE)
          BY <3>2 DEF Sever
        <4>2. \A i \in S : i \in Ids => call[i].st \in {"queued", "sent", "parked"}
          OBVIOUS
        <4> QED BY <4>1, <4>2, ReapedOnce
      <3>3. ASSUME NEW p \in Providers, PeerDrop(p) PROVE OutcomeInv'
        <4>1. PICK live : LostTo(p, live) /\ sending' = sending
          BY <3>3 DEF PeerDrop
        <4> DEFINE S == {i \in Pending : call[i].dest = p}
                           \cup (IF live = <<>> THEN {i \in Pending : call[i].st = "sent"} ELSE {})
        <4>2. call' = Reaped(call, S, "peer_lost", TRUE)
          BY <4>1 DEF LostTo
        <4>3. \A i \in S : i \in Ids => call[i].st \in {"queued", "sent", "parked"}
          BY DEF Pending
        <4> QED BY <4>1, <4>2, <4>3, ReapedOnce
      <3>4. ASSUME NEW p \in Providers, PeerResume(p) PROVE OutcomeInv'
        BY <3>4, MatchKeeps DEF PeerResume
      <3>5. ASSUME NEW p \in Providers, PeerGone(p) PROVE OutcomeInv'
        BY <3>5, EntriesKept DEF PeerGone
      <3>6. ASSUME NEW i \in Ids, Expire(i) PROVE OutcomeInv'
        <4>1. PICK s : sending' = sending /\ i \in Pending /\ call' = Reaped(call, {i}, s, TRUE)
          BY <3>6 DEF Expire
        <4> QED BY <4>1, ReapedOnce DEF Pending
      <3>7. ASSUME NEW p \in Providers, RecvRunning(p) PROVE OutcomeInv'
        BY <3>7, RunningKept DEF RecvRunning
      <3>8. ASSUME NEW p \in Providers, RecvAnswer(p) PROVE OutcomeInv'
        BY <3>8, RecvAnswerKeeps
      <3>9. ASSUME NEW p \in Providers, RecvProgress(p) PROVE OutcomeInv'
        BY <3>9, RunningKept DEF RecvProgress
      <3>10. ASSUME NEW i \in Ids, ProgressReturns(i) PROVE OutcomeInv'
        BY <3>10, EntriesKept DEF ProgressReturns
      <3> QED BY <2>2, <3>1, <3>2, <3>3, <3>4, <3>5, <3>6, <3>7, <3>8, <3>9, <3>10 DEF CallerLoop
    <2>3. CASE CallerDispatch
      <3>1. ASSUME DispatchOutcome PROVE OutcomeInv'
        BY <3>1, DispatchOutcomeKeeps
      <3>2. ASSUME NEW v, DispatchProgress(v) PROVE OutcomeInv'
        BY <3>2, EntriesKept DEF DispatchProgress
      <3>3. ASSUME DispatchDone PROVE OutcomeInv'
        BY <3>3, EntriesKept DEF DispatchDone
      <3> QED BY <2>3, <3>1, <3>2, <3>3 DEF CallerDispatch
    <2>4. CASE ProviderNext
      <3>1. call' = call /\ sending' = sending
        BY <2>4 DEF ProviderNext, RecvRequest, DispatchRequest, ParkRequest, RecvCancel, DispatchCancel,
                    Complete, Progress, ProviderLeaves, ProviderReturns, callerVars
      <3> QED BY <3>1, EntriesKept
    <2>5. CASE UNCHANGED vars
      BY <2>5, EntriesKept DEF vars, callerVars
    <2> QED BY <2>1, <2>2, <2>3, <2>4, <2>5 DEF Next
  <1> QED BY <1>1, <1>2, PTL DEF Spec

\* Whatever ends a call (its answer, its timeout, a lost or severed provider, a
\* cancel, a refresh, the blocking call's own deadline, the dispatch of a parked
\* record) its caller hears of it once: on_response runs at most once, and a
\* call whose callback ran, or that returned, is never answered again.
THEOREM EndsOnce == Spec => []OneOutcome
  <1>1. OutcomeInv => OneOutcome
    BY DEF OutcomeInv, EntryInv, OneOutcome
  <1> QED BY <1>1, OutcomeInvariance, PTL

-----------------------------------------------------------------------------
(* What is under way of a call.  The proofs below follow the requests of   *)
(* a call, and what its providers make of them, through the channels.      *)

\* the calls of a set in the order a flush or a reap takes them, and no other
LEMMA OldestHolds ==
    ASSUME NEW S
    PROVE  Oldest(S) \in Seq(Ids) /\ Held(Oldest(S)) \subseteq S
  <1> DEFINE T == Ids \cap S
             st == [x \in Ids \X Seq(T) |-> IF x[1] \in S THEN Append(x[2], x[1]) ELSE x[2]]
             Goes(g) == g = [k \in 0 .. MaxCalls |-> IF k = 0 THEN <<>> ELSE IF k \in S THEN Append(g[k - 1], k) ELSE g[k - 1]]
  <1>1. Oldest(S) = (CHOOSE g : Goes(g))[MaxCalls]
    BY DEF Oldest
  <1>2. MaxCalls \in Nat
    BY CallsAssumption
  <1>3. \E g : Goes(g)
    <2>1. st \in [(1 .. MaxCalls) \X Seq(T) -> Seq(T)]
      <3>1. ASSUME NEW x \in Ids \X Seq(T) PROVE (IF x[1] \in S THEN Append(x[2], x[1]) ELSE x[2]) \in Seq(T)
        BY <3>1, HeldAppend
      <3> QED BY <3>1 DEF Ids
    <2>2. PICK g \in [0 .. MaxCalls -> Seq(T)] : Follows(g, <<>>, st, MaxCalls)
      <3> HIDE DEF st
      <3> QED BY <1>2, <2>1, HeldNone, Iterated
    <2>3. ASSUME NEW k \in 0 .. MaxCalls
          PROVE  g[k] = IF k = 0 THEN <<>> ELSE IF k \in S THEN Append(g[k - 1], k) ELSE g[k - 1]
      <3>1. g[k] = IF k = 0 THEN <<>> ELSE st[<<k, g[k - 1]>>]
        BY <2>2 DEF Follows
      <3>2. k # 0 => k \in Ids /\ g[k - 1] \in Seq(T)
        BY <1>2, <2>2 DEF Ids
      <3> QED BY <3>1, <3>2
    <2> QED BY <2>2, <2>3
  <1>4. ASSUME NEW g, Goes(g) PROVE g[MaxCalls] \in Seq(T)
    <2>1. g[0] \in Seq(T)
      BY <1>2, <1>4, HeldNone
    <2>2. ASSUME NEW k \in 1 .. MaxCalls, g[k - 1] \in Seq(T) PROVE g[k] \in Seq(T)
      <3>1. k \in 0 .. MaxCalls /\ k # 0 /\ k \in Ids
        BY <1>2 DEF Ids
      <3>2. g[k] = IF k \in S THEN Append(g[k - 1], k) ELSE g[k - 1]
        BY <1>4, <3>1
      <3> QED BY <2>2, <3>1, <3>2, HeldAppend
    <2> HIDE DEF Goes
    <2>3. \A k \in 0 .. MaxCalls : g[k] \in Seq(T)
      BY <1>2, <2>1, <2>2, Climb
    <2> QED BY <1>2, <2>3
  <1> HIDE DEF Goes
  <1>5. Oldest(S) \in Seq(T)
    BY <1>1, <1>3, <1>4
  <1>6. Held(Oldest(S)) \subseteq T
    BY <1>5, HeldIn
  <1> QED BY <1>5, <1>6, SeqOver

\* ... and newest first
LEMMA NewestHolds ==
    ASSUME NEW S
    PROVE  Newest(S) \in Seq(Ids) /\ Held(Newest(S)) \subseteq S
  <1> DEFINE T == Ids \cap S
             st == [x \in Ids \X Seq(T) |-> IF x[1] \in S THEN <<x[1]>> \o x[2] ELSE x[2]]
             Goes(g) == g = [k \in 0 .. MaxCalls |-> IF k = 0 THEN <<>> ELSE IF k \in S THEN <<k>> \o g[k - 1] ELSE g[k - 1]]
  <1>1. Newest(S) = (CHOOSE g : Goes(g))[MaxCalls]
    BY DEF Newest
  <1>2. MaxCalls \in Nat
    BY CallsAssumption
  <1>3. ASSUME NEW k \in Ids, NEW q \in Seq(T) PROVE (IF k \in S THEN <<k>> \o q ELSE q) \in Seq(T)
    BY <1>3, HeldOne, HeldConcat
  <1>4. \E g : Goes(g)
    <2>1. st \in [(1 .. MaxCalls) \X Seq(T) -> Seq(T)]
      BY <1>3 DEF Ids
    <2>2. PICK g \in [0 .. MaxCalls -> Seq(T)] : Follows(g, <<>>, st, MaxCalls)
      <3> HIDE DEF st
      <3> QED BY <1>2, <2>1, HeldNone, Iterated
    <2>3. ASSUME NEW k \in 0 .. MaxCalls
          PROVE  g[k] = IF k = 0 THEN <<>> ELSE IF k \in S THEN <<k>> \o g[k - 1] ELSE g[k - 1]
      <3>1. g[k] = IF k = 0 THEN <<>> ELSE st[<<k, g[k - 1]>>]
        BY <2>2 DEF Follows
      <3>2. k # 0 => k \in Ids /\ g[k - 1] \in Seq(T)
        BY <1>2, <2>2 DEF Ids
      <3> QED BY <3>1, <3>2
    <2> QED BY <2>2, <2>3
  <1>5. ASSUME NEW g, Goes(g) PROVE g[MaxCalls] \in Seq(T)
    <2>1. g[0] \in Seq(T)
      BY <1>2, <1>5, HeldNone
    <2>2. ASSUME NEW k \in 1 .. MaxCalls, g[k - 1] \in Seq(T) PROVE g[k] \in Seq(T)
      <3>1. k \in 0 .. MaxCalls /\ k # 0 /\ k \in Ids
        BY <1>2 DEF Ids
      <3>2. g[k] = IF k \in S THEN <<k>> \o g[k - 1] ELSE g[k - 1]
        BY <1>5, <3>1
      <3> QED BY <1>3, <2>2, <3>1, <3>2
    <2> HIDE DEF Goes
    <2>3. \A k \in 0 .. MaxCalls : g[k] \in Seq(T)
      BY <1>2, <2>1, <2>2, Climb
    <2> QED BY <1>2, <2>3
  <1> HIDE DEF Goes
  <1>6. Newest(S) \in Seq(T)
    BY <1>1, <1>4, <1>5
  <1>7. Held(Newest(S)) \subseteq T
    BY <1>6, HeldIn
  <1> QED BY <1>6, <1>7, SeqOver

\* what the channels, the rings and the registries hold
Requests == [op : {"call", "cancel"}, id : Ids]
Replies  == [id : Ids, status : {"running", "ok", "app_error", "cancelled"}, work : Ids \cup {NoCall}]
Records  == [kind : {"outcome", "response", "running", "progress"}, id : Ids,
             status : Statuses \cup {"none"}, work : Ids \cup {NoCall}]
Deferred == {NoDefer} \cup [id : Ids, cancelled : BOOLEAN, notified : BOOLEAN]
Tokens   == [cell : Cells, id : Ids]

CallerTyped ==
    /\ rring \in Seq(Records) /\ pring \in Seq(Records)
    /\ progressOut \in [Ids -> Nat] /\ viewing \in {"none", "rsp", "prg"}
NetTyped ==
    /\ req \in [Providers -> Seq(Requests)]
    /\ rsp \in [Providers -> Seq(Replies)] /\ prg \in [Providers -> Seq(Ids)]
ProviderTyped ==
    /\ work \in [Providers -> Seq(Requests)]
    /\ defers \in [Providers -> [Cells -> Deferred]]
    /\ tokens \in [Providers -> SUBSET Tokens] /\ ran \in [Ids -> SUBSET Providers]
Typed == CallerTyped /\ NetTyped /\ ProviderTyped

\* provider p has something of call i: its request, or what came of it
Has(p, i) ==
    \/ CallOp(i) \in Held(req[p]) \cup Held(work[p])
    \/ \E m \in Held(rsp[p]) : m.id = i
    \/ i \in Held(prg[p])
    \/ \E c \in Cells : defers[p][c].id = i
    \/ \E t \in tokens[p] : t.id = i

\* the caller has something of call i that a provider sent
Told(i) ==
    \/ progressOut[i] # 0
    \/ \E r \in Held(rring) : r.id = i /\ r.kind # "outcome"
    \/ \E r \in Held(pring) : r.id = i

\* nothing that a provider could have done of call i is anywhere
Unheard(i) == ran[i] = {} /\ ~Told(i) /\ \A p \in Providers : ~Has(p, i)

\* no request of call i left the node, nor will one
NoRequest(i) ==
    ran[i] = {} /\ \A p \in Providers : \A m \in Held(req[p]) \cup Held(work[p]) : m.id # i
Unsent(i) == i \notin sending /\ NoRequest(i)

\* call i is said to have found no provider, or a parked outcome says so
Unprovided(i) ==
    call[i].status = "no_provider" \/ \E r \in Held(rring) : r.id = i /\ r.status = "no_provider"

\* A call that was not sent yet left no trace, which is what the next steps rest
\* on: a queued call that expires was never sent, and a failed send of a call
\* takes back an entry no progress can have reached.
CauseInv(i) ==
    /\ call[i].st \in {"none", "queued"} => i \notin sending
    /\ call[i].st \in {"none", "queued"} \/ i \in sending => Unheard(i)
    /\ call[i].st \in {"none", "queued"} \/ Unprovided(i) => Unsent(i)
    /\ Unprovided(i) => call[i].st \notin {"none", "queued", "sent"}

\* Progress callbacks run only while their call is pending here or parked.
ProgressInv ==
    /\ CallerQueue /\ viewing = "none" => AllIn
    /\ \A i \in Ids : call[i].st = "parked" => CallerQueue /\ ~call[i].sync
    /\ ProgressWithinCall

TraceInv == OutcomeInv /\ Typed /\ (\A i \in Ids : CauseInv(i)) /\ ProgressInv

-----------------------------------------------------------------------------
(* What the operators on queues put where. *)

LEMMA PutHolds ==
    ASSUME NEW S, NEW q \in Seq(S), NEW m \in S, NEW e
    PROVE  Put(q, m, e) \in Seq(S) /\ Held(Put(q, m, e)) \subseteq Held(q) \cup {m}
  <1>1. Append(q, m) \in Seq(S) /\ Held(Append(q, m)) = Held(q) \cup {m}
    BY HeldAppend
  <1>2. CASE e /\ q # <<>>
    <2>1. Tail(q) \in Seq(S) /\ Held(Tail(q)) \subseteq Held(q)
      BY <1>2, HeldTail
    <2> DEFINE rest == Tail(q)
    <2>2. Append(rest, m) \in Seq(S) /\ Held(Append(rest, m)) = Held(rest) \cup {m}
      <3>1. rest \in Seq(S)
        BY <2>1
      <3> HIDE DEF rest
      <3> QED BY <3>1, HeldAppend
    <2> QED BY <1>2, <2>1, <2>2 DEF Put
  <1>3. CASE ~(e /\ q # <<>>)
    BY <1>1, <1>3 DEF Put
  <1> QED BY <1>2, <1>3

LEMMA PushedHolds ==
    ASSUME NEW S, NEW ring \in Seq(S), NEW recs \in Seq(S), NEW pinned
    PROVE  Pushed(ring, recs, pinned) \in Seq(S) /\ Held(Pushed(ring, recs, pinned)) \subseteq Held(ring) \cup Held(recs)
  <1> DEFINE all == ring \o recs
             over == Len(all) - RingCap
             kept == IF Len(ring) < RingCap THEN RingCap ELSE Len(ring)
  <1>1. /\ all \in Seq(S) /\ Held(all) = Held(ring) \cup Held(recs)
        /\ Len(all) = Len(ring) + Len(recs) /\ Len(ring) \in Nat /\ Len(recs) \in Nat
    BY HeldConcat, ConcatProperties, LenProperties
  <1>2. RingCap \in Nat /\ RingCap > 0
    BY CallsAssumption
  <1>3. Pushed(ring, recs, pinned) = IF over <= 0 THEN all
                                     ELSE IF pinned THEN SubSeq(all, 1, kept) ELSE SubSeq(all, over + 1, Len(all))
    BY DEF Pushed
  <1> HIDE DEF all
  <1>4. CASE over <= 0
    BY <1>1, <1>3, <1>4
  <1>5. CASE over > 0 /\ pinned
    <2>1. kept \in Int /\ kept <= Len(all)
      BY <1>1, <1>2, <1>5
    <2>2. SubSeq(all, 1, kept) \in Seq(S) /\ Held(SubSeq(all, 1, kept)) \subseteq Held(all)
      <3> HIDE DEF kept
      <3> QED BY <1>1, <2>1, HeldSub
    <2> QED BY <1>1, <1>2, <1>3, <1>5, <2>2
  <1>6. CASE over > 0 /\ ~pinned
    <2>1. over + 1 \in Int /\ 1 <= over + 1 /\ Len(all) \in Int
      BY <1>1, <1>2, <1>6
    <2>2. SubSeq(all, over + 1, Len(all)) \in Seq(S) /\ Held(SubSeq(all, over + 1, Len(all))) \subseteq Held(all)
      <3> HIDE DEF over
      <3> QED BY <1>1, <2>1, HeldSub
    <2> QED BY <1>1, <1>2, <1>3, <1>6, <2>2
  <1> QED BY <1>1, <1>2, <1>4, <1>5, <1>6

\* the records of failed calls are theirs, and synthesized here
LEMMA OutcomesHold ==
    ASSUME NEW c, NEW S, NEW s \in Statuses
    PROVE  /\ OutcomeRecords(c, S, s) \in Seq(Records)
           /\ \A r \in Held(OutcomeRecords(c, S, s)) : r.kind = "outcome" /\ r.status = s /\ r.id \in S
  <1> DEFINE order == Newest({i \in S : ~c[i].sync})
             recs == [k \in DOMAIN order |-> Record("outcome", order[k], s, NoCall)]
  <1>1. order \in Seq(Ids) /\ Held(order) \subseteq S
    <2>1. order \in Seq(Ids) /\ Held(order) \subseteq {i \in S : ~c[i].sync}
      BY NewestHolds
    <2> QED BY <2>1
  <1>2. OutcomeRecords(c, S, s) = recs
    BY DEF OutcomeRecords
  <1> HIDE DEF order
  <1>3. \A k \in DOMAIN order : order[k] \in Ids /\ order[k] \in S
    BY <1>1, HeldIn DEF Held
  <1>4. \A k \in DOMAIN order : recs[k] \in Records /\ recs[k].kind = "outcome" /\ recs[k].status = s /\ recs[k].id \in S
    BY <1>3 DEF Record, Records, NoCall
  <1>5. recs \in Seq(Records) /\ DOMAIN recs = DOMAIN order
    BY <1>1, <1>4, SameLength
  <1> QED BY <1>2, <1>4, <1>5 DEF Held

\* the requests a flush sends are those of queued calls
LEMMA FlushHolds ==
    ASSUME Typed, NEW ls, NEW live, req' = FlushedReq(req, ls, live)
    PROVE  /\ req' \in [Providers -> Seq(Requests)]
           /\ \A p \in Providers : \A m \in Held(req'[p]) :
                 m \in Held(req[p]) \/ \E i \in Ready(ls) : m = CallOp(i)
  <1> SUFFICES ASSUME NEW p \in Providers
               PROVE  /\ req'[p] \in Seq(Requests)
                      /\ \A m \in Held(req'[p]) :
                            m \in Held(req[p]) \/ \E i \in Ready(ls) : m = CallOp(i)
    BY DEF FlushedReq
  <1> DEFINE S == {i \in Ready(ls) : p \in MatchedIn(ls) /\ FlushDest(i, live) \in {Any, p}}
             mine == Oldest(S)
             ops == [k \in DOMAIN mine |-> CallOp(mine[k])]
  <1>1. mine \in Seq(Ids) /\ Held(mine) \subseteq S
    <2> HIDE DEF S
    <2> QED BY OldestHolds
  <1>2. req'[p] = req[p] \o ops
    BY DEF FlushedReq
  <1>3. S \subseteq Ready(ls)
    OBVIOUS
  <1> HIDE DEF mine, S
  <1>4. \A k \in DOMAIN mine : mine[k] \in Ids /\ mine[k] \in Ready(ls)
    BY <1>1, <1>3, HeldIn DEF Held
  <1>5. \A k \in DOMAIN mine : ops[k] \in Requests /\ ops[k] = CallOp(mine[k])
    BY <1>4 DEF CallOp, Requests
  <1>6. ops \in Seq(Requests) /\ DOMAIN ops = DOMAIN mine
    BY <1>1, <1>5, SameLength
  <1>7. \A m \in Held(ops) : \E i \in Ready(ls) : m = CallOp(i)
    BY <1>4, <1>5, <1>6 DEF Held
  <1> HIDE DEF ops
  <1>8. req[p] \o ops \in Seq(Requests) /\ Held(req[p] \o ops) = Held(req[p]) \cup Held(ops)
    BY <1>6, HeldConcat DEF Typed, NetTyped
  <1> QED BY <1>2, <1>7, <1>8

-----------------------------------------------------------------------------
(* What each step adds to the traces of a call. *)

\* a step that sends the requests of the calls sent, and asks for the end of
\* the calls cancelled, leaves traces of no other call
Keeps(sent, cancelled) ==
    /\ Typed'
    /\ \A i \in Ids \ sent : Unheard(i) => Unheard(i)'
    /\ \A i \in Ids \ (sent \cup cancelled) : NoRequest(i) => NoRequest(i)'

\* some trace of call i that a provider left
Traced(i) == Told(i) \/ \E p \in Providers : Has(p, i)

\* the caller's steps: what they send, and what they take from the channels
LEMMA CallerKeeps ==
    ASSUME Typed, CallerTyped', NetTyped', NEW sent, NEW cancelled,
           UNCHANGED <<work, defers, tokens, ran>>,
           \A p \in Providers : \A m \in Held(req'[p]) :
              m \in Held(req[p]) \/ (\E i \in sent : m = CallOp(i)) \/ (\E i \in cancelled : m = CancelOp(i)),
           \A p \in Providers : Held(rsp'[p]) \subseteq Held(rsp[p]) /\ Held(prg'[p]) \subseteq Held(prg[p]),
           \A r \in Held(rring') : r \in Held(rring) \/ r.kind = "outcome" \/ Traced(r.id),
           \A r \in Held(pring') : r \in Held(pring) \/ Traced(r.id),
           \A i \in Ids : progressOut'[i] # 0 => Traced(i)
    PROVE  Keeps(sent, cancelled)
  <1>1. Typed'
    BY DEF Typed, ProviderTyped
  <1>2. ASSUME NEW i \in Ids \ sent, Unheard(i) PROVE Unheard(i)'
    <2>1. ~Traced(i)
      BY <1>2 DEF Unheard, Traced
    <2>2. ~Told(i)'
      BY <1>2, <2>1 DEF Told, Unheard
    <2>3. ASSUME NEW p \in Providers PROVE ~Has(p, i)'
      <3>1. ~Has(p, i)
        BY <1>2 DEF Unheard
      <3>2. CallOp(i) \notin Held(req'[p])
        BY <1>2, <3>1 DEF Has, CallOp, CancelOp
      <3> QED BY <3>1, <3>2 DEF Has
    <2> QED BY <1>2, <2>2, <2>3 DEF Unheard
  <1>3. ASSUME NEW i \in Ids \ (sent \cup cancelled), NoRequest(i) PROVE NoRequest(i)'
    BY <1>3 DEF NoRequest, CallOp, CancelOp
  <1> QED BY <1>1, <1>2, <1>3 DEF Keeps

\* the providers' steps: what comes of a request is of its call
LEMMA ProviderKeeps ==
    ASSUME Typed, NetTyped', ProviderTyped', UNCHANGED callerVars,
           \A p \in Providers : Held(req'[p]) \subseteq Held(req[p]),
           \A p \in Providers : Held(work'[p]) \subseteq Held(req[p]) \cup Held(work[p]),
           \A p \in Providers : \A m \in Held(rsp'[p]) : Has(p, m.id),
           \A p \in Providers : \A i \in Held(prg'[p]) : Has(p, i),
           \A p \in Providers : \A c \in Cells : defers'[p][c].id = NoCall \/ Has(p, defers'[p][c].id),
           \A p \in Providers : \A t \in tokens'[p] : Has(p, t.id),
           \A i \in Ids : ran'[i] = ran[i] \/ \E p \in Providers : CallOp(i) \in Held(req[p]) \cup Held(work[p])
    PROVE  Keeps({}, {})
  <1>1. Typed'
    BY DEF Typed, CallerTyped, callerVars
  <1>2. ASSUME NEW i \in Ids, Unheard(i) PROVE Unheard(i)'
    <2>1. ~Told(i)'
      BY <1>2 DEF Told, Unheard, callerVars
    <2>2. ASSUME NEW p \in Providers PROVE ~Has(p, i)'
      <3>1. ~Has(p, i) /\ i # NoCall
        BY <1>2 DEF Unheard, Ids, NoCall
      <3>2. CallOp(i) \notin Held(req'[p]) \cup Held(work'[p])
        BY <3>1 DEF Has
      <3> QED BY <3>1, <3>2 DEF Has
    <2>3. ran'[i] = {}
      BY <1>2 DEF Unheard, Has
    <2> QED BY <2>1, <2>2, <2>3 DEF Unheard
  <1>3. ASSUME NEW i \in Ids, NoRequest(i) PROVE NoRequest(i)'
    <2>1. \A p \in Providers : CallOp(i) \notin Held(req[p]) \cup Held(work[p])
      BY <1>3 DEF NoRequest, CallOp
    <2> QED BY <1>3, <2>1 DEF NoRequest
  <1> QED BY <1>1, <1>2, <1>3 DEF Keeps

\* a step that touches no channel, ring or registry
LEMMA IdleKeeps ==
    ASSUME Typed, UNCHANGED <<rring, pring, viewing, progressOut, netVars, work, defers, tokens, ran>>
    PROVE  Keeps({}, {})
  BY DEF Keeps, Typed, CallerTyped, NetTyped, ProviderTyped, netVars, Unheard, NoRequest, Told, Has

\* a step that parks the outcomes of calls, drops what a lost lane carried, or
\* sends requests
LEMMA OutcomeKeeps ==
    ASSUME Typed, NEW recs \in Seq(Records), \A r \in Held(recs) : r.kind = "outcome", NEW pinned, NEW parks,
           NEW sent, NEW cancelled,
           rring' = IF parks THEN Pushed(rring, recs, pinned) ELSE rring,
           UNCHANGED <<pring, viewing, progressOut, work, defers, tokens, ran>>, NetTyped',
           \A p \in Providers : \A m \in Held(req'[p]) :
              m \in Held(req[p]) \/ (\E i \in sent : m = CallOp(i)) \/ (\E i \in cancelled : m = CancelOp(i)),
           \A p \in Providers : Held(rsp'[p]) \subseteq Held(rsp[p]) /\ Held(prg'[p]) \subseteq Held(prg[p])
    PROVE  Keeps(sent, cancelled) /\ Held(rring') \subseteq Held(rring) \cup Held(recs)
  <1>1. rring' \in Seq(Records) /\ Held(rring') \subseteq Held(rring) \cup Held(recs)
    BY PushedHolds DEF Typed, CallerTyped
  <1>2. CallerTyped'
    BY <1>1 DEF Typed, CallerTyped
  <1>3. \A r \in Held(rring') : r \in Held(rring) \/ r.kind = "outcome"
    BY <1>1
  <1>4. \A r \in Held(pring') : r \in Held(pring)
    OBVIOUS
  <1>5. \A i \in Ids : progressOut'[i] # 0 => Traced(i)
    BY DEF Traced, Told
  <1>6. UNCHANGED <<work, defers, tokens, ran>>
    OBVIOUS
  <1> QED BY <1>1, <1>2, <1>3, <1>4, <1>5, <1>6, CallerKeeps

\* the requests to a lane that is lost are gone, its answers may be
LEMMA LaneLostKeeps ==
    ASSUME NetTyped, NEW p, LaneLost(p)
    PROVE  /\ NetTyped'
           /\ \A q \in Providers : /\ Held(req'[q]) \subseteq Held(req[q])
                                   /\ Held(rsp'[q]) \subseteq Held(rsp[q]) /\ Held(prg'[q]) \subseteq Held(prg[q])
  <1>1. <<>> \in Seq(Requests) /\ <<>> \in Seq(Replies) /\ <<>> \in Seq(Ids) /\ Held(<<>>) = {}
    BY HeldNone
  <1>2. req' = [req EXCEPT ![p] = <<>>]
    BY DEF LaneLost
  <1>3. UNCHANGED <<rsp, prg>> \/ (rsp' = [rsp EXCEPT ![p] = <<>>] /\ prg' = [prg EXCEPT ![p] = <<>>])
    BY DEF LaneLost
  <1>4. req' \in [Providers -> Seq(Requests)] /\ \A q \in Providers : Held(req'[q]) \subseteq Held(req[q])
    BY <1>1, <1>2 DEF NetTyped
  <1>5. /\ rsp' \in [Providers -> Seq(Replies)] /\ \A q \in Providers : Held(rsp'[q]) \subseteq Held(rsp[q])
        /\ prg' \in [Providers -> Seq(Ids)] /\ \A q \in Providers : Held(prg'[q]) \subseteq Held(prg[q])
    BY <1>1, <1>3 DEF NetTyped
  <1> QED BY <1>4, <1>5 DEF NetTyped

-----------------------------------------------------------------------------
(* The caller's actions. *)

\* no outcome on the ring claims anew that a call found no provider
NoneUnprovided == \A r \in Held(rring') : r \in Held(rring) \/ r.status # "no_provider"

LEMMA SendCallTraces ==
    ASSUME Typed, NEW i \in Ids, NEW e, SendCall(i, e)
    PROVE  Keeps({i}, {}) /\ NoneUnprovided
  <1>1. UNCHANGED <<rring, pring, viewing, progressOut, rsp, prg, work, defers, tokens, ran>>
    BY DEF SendCall, providerVars
  <1>2. CallOp(i) \in Requests
    BY DEF CallOp, Requests
  <1>3. ASSUME NEW p \in Providers
        PROVE  /\ req'[p] \in Seq(Requests)
               /\ \A m \in Held(req'[p]) : m \in Held(req[p]) \/ m = CallOp(i)
    <2>1. req'[p] = IF Reaches(call[i].dest, p) THEN Put(req[p], CallOp(i), e) ELSE req[p]
      BY DEF SendCall
    <2>2. req[p] \in Seq(Requests)
      BY DEF Typed, NetTyped
    <2>3. Put(req[p], CallOp(i), e) \in Seq(Requests) /\ Held(Put(req[p], CallOp(i), e)) \subseteq Held(req[p]) \cup {CallOp(i)}
      BY <1>2, <2>2, PutHolds
    <2> QED BY <2>1, <2>2, <2>3
  <1>4. req' \in [Providers -> Seq(Requests)]
    BY <1>3 DEF SendCall
  <1>5. NetTyped' /\ CallerTyped'
    BY <1>1, <1>4 DEF Typed, NetTyped, CallerTyped
  <1>6. \A j \in Ids : progressOut'[j] # 0 => Traced(j)
    BY <1>1 DEF Traced, Told
  <1>7. \A p \in Providers : \A m \in Held(req'[p]) :
           m \in Held(req[p]) \/ (\E j \in {i} : m = CallOp(j)) \/ (\E j \in {} : m = CancelOp(j))
    BY <1>3
  <1>8. Keeps({i}, {})
    BY <1>1, <1>5, <1>6, <1>7, CallerKeeps
  <1> QED BY <1>1, <1>8 DEF NoneUnprovided

\* a cancel of a queued call parks its outcome, one of a sent call is sent
LEMMA CancelTraces ==
    ASSUME Typed, NEW i \in Ids, NEW e, Cancel(i, e)
    PROVE  /\ Keeps({}, IF call[i].st = "sent" THEN {i} ELSE {})
           /\ NoneUnprovided
  <1>1. UNCHANGED <<pring, viewing, progressOut, rsp, prg, work, defers, tokens, ran>>
    BY DEF Cancel, providerVars
  <1>2. CASE call[i].st = "queued"
    <2>1. /\ rring' = IF CallerQueue THEN Pushed(rring, OutcomeRecords(call, {i}, "cancelled"), viewing = "rsp") ELSE rring
          /\ UNCHANGED req
      BY <1>2 DEF Cancel
    <2>2. /\ OutcomeRecords(call, {i}, "cancelled") \in Seq(Records)
          /\ \A r \in Held(OutcomeRecords(call, {i}, "cancelled")) : r.kind = "outcome" /\ r.status = "cancelled"
      BY OutcomesHold DEF Statuses
    <2>3. NetTyped'
      BY <1>1, <2>1 DEF Typed, NetTyped
    <2>4. /\ Keeps({}, {})
          /\ Held(rring') \subseteq Held(rring) \cup Held(OutcomeRecords(call, {i}, "cancelled"))
      BY <1>1, <2>1, <2>2, <2>3, OutcomeKeeps
    <2> QED BY <1>2, <2>2, <2>4 DEF NoneUnprovided
  <1>3. CASE call[i].st = "sent"
    <2>1. PICK d : d \in MatchedIn(lanes) /\ req' = [req EXCEPT ![d] = Put(@, CancelOp(i), e)] /\ UNCHANGED rring
      BY <1>3 DEF Cancel
    <2>2. CancelOp(i) \in Requests
      BY DEF CancelOp, Requests
    <2>3. ASSUME NEW p \in Providers
          PROVE  /\ req'[p] \in Seq(Requests)
                 /\ \A m \in Held(req'[p]) : m \in Held(req[p]) \/ m = CancelOp(i)
      <3>1. req[p] \in Seq(Requests) /\ req'[p] = IF p = d THEN Put(req[p], CancelOp(i), e) ELSE req[p]
        BY <2>1 DEF Typed, NetTyped
      <3>2. Put(req[p], CancelOp(i), e) \in Seq(Requests) /\ Held(Put(req[p], CancelOp(i), e)) \subseteq Held(req[p]) \cup {CancelOp(i)}
        BY <2>2, <3>1, PutHolds
      <3> QED BY <3>1, <3>2
    <2>4. req' \in [Providers -> Seq(Requests)]
      BY <2>1, <2>3 DEF Typed, NetTyped
    <2>5. NetTyped' /\ CallerTyped'
      BY <1>1, <2>1, <2>4 DEF Typed, NetTyped, CallerTyped
    <2>6. \A j \in Ids : progressOut'[j] # 0 => Traced(j)
      BY <1>1 DEF Traced, Told
    <2>7. \A p \in Providers : \A m \in Held(req'[p]) :
             m \in Held(req[p]) \/ (\E j \in {} : m = CallOp(j)) \/ (\E j \in {i} : m = CancelOp(j))
      BY <2>3
    <2>8. Keeps({}, {i})
      BY <1>1, <2>1, <2>5, <2>6, <2>7, CallerKeeps
    <2> QED BY <1>3, <2>1, <2>8 DEF NoneUnprovided
  <1> QED BY <1>2, <1>3 DEF Cancel

LEMMA RefreshTraces ==
    ASSUME Typed, Refresh
    PROVE  Keeps({}, {}) /\ NoneUnprovided
  <1>1. UNCHANGED <<rring, pring, viewing, progressOut, work, defers, tokens, ran>>
    BY DEF Refresh, providerVars
  <1>2. <<>> \in Seq(Requests) /\ <<>> \in Seq(Replies) /\ <<>> \in Seq(Ids) /\ Held(<<>>) = {}
    BY HeldNone
  <1>3. req' = [p \in Providers |-> <<>>] /\ rsp' = req' /\ prg' = req'
    BY DEF Refresh
  <1>4. NetTyped' /\ CallerTyped'
    BY <1>1, <1>2, <1>3 DEF Typed, NetTyped, CallerTyped
  <1>5. \A p \in Providers : Held(req'[p]) = {} /\ Held(rsp'[p]) = {} /\ Held(prg'[p]) = {}
    BY <1>2, <1>3
  <1>6. \A j \in Ids : progressOut'[j] # 0 => Traced(j)
    BY <1>1 DEF Traced, Told
  <1>7. Keeps({}, {})
    BY <1>1, <1>4, <1>5, <1>6, CallerKeeps
  <1> QED BY <1>1, <1>7 DEF NoneUnprovided

\* a flush sends the requests of the calls that were queued
LEMMA FlushTraces ==
    ASSUME Typed, NEW ls, NEW live, req' = FlushedReq(req, ls, live),
           UNCHANGED <<rring, pring, viewing, progressOut, rsp, prg, work, defers, tokens, ran>>
    PROVE  Keeps(Ready(ls), {}) /\ NoneUnprovided
  <1>2. /\ req' \in [Providers -> Seq(Requests)]
        /\ \A p \in Providers : \A m \in Held(req'[p]) : m \in Held(req[p]) \/ \E i \in Ready(ls) : m = CallOp(i)
    BY FlushHolds
  <1>3. NetTyped' /\ CallerTyped'
    BY <1>2 DEF Typed, NetTyped, CallerTyped
  <1>4. \A j \in Ids : progressOut'[j] # 0 => Traced(j)
    BY DEF Traced, Told
  <1>5. Keeps(Ready(ls), {})
    BY <1>2, <1>3, <1>4, CallerKeeps
  <1> QED BY <1>5 DEF NoneUnprovided

LEMMA SeverTraces ==
    ASSUME Typed, NEW p, Sever(p)
    PROVE  Keeps({}, {}) /\ NoneUnprovided
  <1> DEFINE S == {i \in Ids : call[i].st = "sent" /\ call[i].dest = p}
             recs == OutcomeRecords(call, S, "cancelled")
  <1>1. recs \in Seq(Records) /\ \A r \in Held(recs) : r.kind = "outcome" /\ r.status = "cancelled"
    <2> HIDE DEF S
    <2> QED BY OutcomesHold DEF Statuses
  <1>2. /\ rring' = IF CallerQueue THEN Pushed(rring, recs, viewing = "rsp") ELSE rring
        /\ UNCHANGED <<pring, viewing, progressOut, work, defers, tokens, ran>>
    BY DEF Sever, providerVars
  <1>3. LaneLost(p)
    BY DEF Sever
  <1>4. /\ NetTyped'
        /\ \A q \in Providers : /\ Held(req'[q]) \subseteq Held(req[q])
                                /\ Held(rsp'[q]) \subseteq Held(rsp[q]) /\ Held(prg'[q]) \subseteq Held(prg[q])
    BY <1>3, LaneLostKeeps DEF Typed
  <1> HIDE DEF recs
  <1>5. Keeps({}, {}) /\ Held(rring') \subseteq Held(rring) \cup Held(recs)
    BY <1>1, <1>2, <1>4, OutcomeKeeps
  <1> QED BY <1>1, <1>5 DEF NoneUnprovided

LEMMA PeerDropTraces ==
    ASSUME Typed, NEW p, PeerDrop(p)
    PROVE  Keeps({}, {}) /\ NoneUnprovided
  <1>1. PICK live : LostTo(p, live)
    BY DEF PeerDrop
  <1> DEFINE toIt == {i \in Pending : call[i].dest = p}
             sent == IF live = <<>> THEN {i \in Pending : call[i].st = "sent"} ELSE {}
             one == OutcomeRecords(call, toIt, "peer_lost")
             two == OutcomeRecords(call, sent \ toIt, "peer_lost")
             recs == one \o two
  <1>2. /\ one \in Seq(Records) /\ \A r \in Held(one) : r.kind = "outcome" /\ r.status = "peer_lost"
        /\ two \in Seq(Records) /\ \A r \in Held(two) : r.kind = "outcome" /\ r.status = "peer_lost"
    <2> DEFINE rest == sent \ toIt
    <2> HIDE DEF toIt, rest
    <2> QED BY OutcomesHold DEF Statuses
  <1>3. rring' = IF CallerQueue THEN Pushed(rring, recs, viewing = "rsp") ELSE rring
    BY <1>1 DEF LostTo
  <1> HIDE DEF one, two
  <1>4. recs \in Seq(Records) /\ Held(recs) = Held(one) \cup Held(two)
    BY <1>2, HeldConcat
  <1>5. UNCHANGED <<pring, viewing, progressOut, req, rsp, prg, work, defers, tokens, ran>>
    BY DEF PeerDrop, netVars, providerVars
  <1>6. NetTyped'
    BY <1>5 DEF Typed, NetTyped
  <1> HIDE DEF recs
  <1>7. \A r \in Held(recs) : r.kind = "outcome" /\ r.status = "peer_lost"
    BY <1>2, <1>4
  <1>8. Keeps({}, {}) /\ Held(rring') \subseteq Held(rring) \cup Held(recs)
    BY <1>3, <1>4, <1>5, <1>6, <1>7, OutcomeKeeps
  <1> QED BY <1>7, <1>8 DEF NoneUnprovided

LEMMA PeerGoneTraces ==
    ASSUME Typed, NEW p, PeerGone(p)
    PROVE  Keeps({}, {}) /\ NoneUnprovided
  <1>1. LaneLost(p) /\ UNCHANGED <<rring, pring, viewing, progressOut, work, defers, tokens, ran>>
    BY DEF PeerGone, providerVars
  <1>2. /\ NetTyped'
        /\ \A q \in Providers : /\ Held(req'[q]) \subseteq Held(req[q])
                                /\ Held(rsp'[q]) \subseteq Held(rsp[q]) /\ Held(prg'[q]) \subseteq Held(prg[q])
    BY <1>1, LaneLostKeeps DEF Typed
  <1>3. CallerTyped' /\ \A j \in Ids : progressOut'[j] # 0 => Traced(j)
    BY <1>1 DEF Typed, CallerTyped, Traced, Told
  <1>4. Keeps({}, {})
    BY <1>1, <1>2, <1>3, CallerKeeps
  <1> QED BY <1>1, <1>4 DEF NoneUnprovided

\* only a queued call expires without a provider
LEMMA ExpireTraces ==
    ASSUME Typed, NEW i \in Ids, Expire(i)
    PROVE  /\ Keeps({}, {})
           /\ \A r \in Held(rring') : r \in Held(rring) \/ (r.id = i /\ (r.status = "no_provider" => call[i].st = "queued"))
  <1> DEFINE s == IF call[i].st = "queued" THEN "no_provider" ELSE "timeout"
             recs == OutcomeRecords(call, {i}, s)
  <1>1. s \in Statuses /\ (s = "no_provider" => call[i].st = "queued")
    BY DEF Statuses
  <1>2. /\ rring' = IF CallerQueue THEN Pushed(rring, recs, viewing = "rsp") ELSE rring
        /\ UNCHANGED <<pring, viewing, progressOut, req, rsp, prg, work, defers, tokens, ran>>
    BY DEF Expire, netVars, providerVars
  <1> HIDE DEF s
  <1>3. recs \in Seq(Records) /\ \A r \in Held(recs) : r.kind = "outcome" /\ r.status = s /\ r.id \in {i}
    BY <1>1, OutcomesHold
  <1>4. NetTyped'
    BY <1>2 DEF Typed, NetTyped
  <1> HIDE DEF recs
  <1>5. Keeps({}, {}) /\ Held(rring') \subseteq Held(rring) \cup Held(recs)
    BY <1>2, <1>3, <1>4, OutcomeKeeps
  <1> QED BY <1>1, <1>3, <1>5

\* what the head of a provider's channel stands for
LEMMA AnswerHeads ==
    ASSUME Typed, NEW p \in Providers, rsp[p] # <<>>, rsp' = [rsp EXCEPT ![p] = Tail(@)], UNCHANGED <<req, prg>>
    PROVE  /\ Head(rsp[p]) \in Replies /\ Traced(Head(rsp[p]).id)
           /\ NetTyped' /\ \A q \in Providers : Held(rsp'[q]) \subseteq Held(rsp[q])
  <1>1. rsp[p] \in Seq(Replies)
    BY DEF Typed, NetTyped
  <1>2. /\ Head(rsp[p]) \in Replies /\ Head(rsp[p]) \in Held(rsp[p])
        /\ Tail(rsp[p]) \in Seq(Replies) /\ Held(Tail(rsp[p])) \subseteq Held(rsp[p])
    BY <1>1, HeldTail
  <1>3. rsp' \in [Providers -> Seq(Replies)] /\ \A q \in Providers : Held(rsp'[q]) \subseteq Held(rsp[q])
    BY <1>2 DEF Typed, NetTyped
  <1>4. Traced(Head(rsp[p]).id)
    BY <1>2 DEF Traced, Has
  <1> QED BY <1>2, <1>3, <1>4 DEF Typed, NetTyped

LEMMA ProgressHeads ==
    ASSUME Typed, NEW p \in Providers, prg[p] # <<>>, prg' = [prg EXCEPT ![p] = Tail(@)], UNCHANGED <<req, rsp>>
    PROVE  /\ Head(prg[p]) \in Ids /\ Traced(Head(prg[p]))
           /\ NetTyped' /\ \A q \in Providers : Held(prg'[q]) \subseteq Held(prg[q])
  <1>1. prg[p] \in Seq(Ids)
    BY DEF Typed, NetTyped
  <1>2. /\ Head(prg[p]) \in Ids /\ Head(prg[p]) \in Held(prg[p])
        /\ Tail(prg[p]) \in Seq(Ids) /\ Held(Tail(prg[p])) \subseteq Held(prg[p])
    BY <1>1, HeldTail
  <1>3. prg' \in [Providers -> Seq(Ids)] /\ \A q \in Providers : Held(prg'[q]) \subseteq Held(prg[q])
    BY <1>2 DEF Typed, NetTyped
  <1>4. Traced(Head(prg[p]))
    BY <1>2 DEF Traced, Has
  <1> QED BY <1>2, <1>3, <1>4 DEF Typed, NetTyped

\* parking one record of a call, or one request
LEMMA OnePushed ==
    ASSUME NEW S, NEW ring \in Seq(S), NEW r \in S, NEW pinned
    PROVE  /\ Pushed(ring, <<r>>, pinned) \in Seq(S)
           /\ \A x \in Held(Pushed(ring, <<r>>, pinned)) : x \in Held(ring) \/ x = r
  <1>1. <<r>> \in Seq(S) /\ Held(<<r>>) = {r}
    BY HeldOne
  <1> DEFINE recs == <<r>>
  <1> HIDE DEF recs
  <1>2. Pushed(ring, recs, pinned) \in Seq(S) /\ Held(Pushed(ring, recs, pinned)) \subseteq Held(ring) \cup Held(recs)
    <2>1. recs \in Seq(S)
      BY <1>1 DEF recs
    <2> QED BY <2>1, PushedHolds
  <1> QED BY <1>1, <1>2 DEF recs

LEMMA RecvRunningTraces ==
    ASSUME Typed, NEW p \in Providers, RecvRunning(p)
    PROVE  Keeps({}, {}) /\ NoneUnprovided
  <1> DEFINE i == Head(rsp[p]).id
             r == Record("running", i, "none", NoCall)
  <1>1. /\ Head(rsp[p]) \in Replies /\ Traced(i)
        /\ NetTyped' /\ \A q \in Providers : Held(rsp'[q]) \subseteq Held(rsp[q])
    BY AnswerHeads DEF RecvRunning, Delivers
  <1>2. i \in Ids /\ r \in Records /\ r.id = i /\ r.status = "none"
    BY <1>1 DEF Replies, Records, Record, NoCall
  <1>3. /\ rring' = rring \/ rring' = Pushed(rring, <<r>>, viewing = "rsp")
        /\ progressOut' = progressOut \/ progressOut' = [progressOut EXCEPT ![i] = @ + 1]
        /\ UNCHANGED <<pring, viewing, req, prg, work, defers, tokens, ran>>
    BY DEF RecvRunning, providerVars
  <1> HIDE DEF r
  <1>4. rring' \in Seq(Records) /\ \A x \in Held(rring') : x \in Held(rring) \/ x = r
    BY <1>2, <1>3, OnePushed DEF Typed, CallerTyped
  <1> HIDE DEF i
  <1>5. progressOut' \in [Ids -> Nat] /\ \A j \in Ids : progressOut'[j] # 0 => Traced(j)
    <2>1. progressOut \in [Ids -> Nat] /\ \A j \in Ids : progressOut[j] # 0 => Traced(j)
      BY DEF Typed, CallerTyped, Traced, Told
    <2> QED BY <1>1, <1>2, <1>3, <2>1
  <1>6. CallerTyped'
    BY <1>3, <1>4, <1>5 DEF Typed, CallerTyped
  <1>7. Keeps({}, {})
    BY <1>1, <1>2, <1>3, <1>4, <1>5, <1>6, CallerKeeps
  <1> QED BY <1>2, <1>4, <1>7 DEF NoneUnprovided

\* no definition answers that there was none
LEMMA RecvAnswerTraces ==
    ASSUME Typed, NEW p \in Providers, RecvAnswer(p)
    PROVE  Keeps({}, {}) /\ NoneUnprovided
  <1> DEFINE m == Head(rsp[p])
             r == Record("response", m.id, m.status, m.work)
  <1>1. /\ m \in Replies /\ Traced(m.id)
        /\ NetTyped' /\ \A q \in Providers : Held(rsp'[q]) \subseteq Held(rsp[q])
    BY AnswerHeads DEF RecvAnswer, Delivers
  <1>2. r \in Records /\ r.id = m.id /\ r.status # "no_provider"
    <2>1. m.status # "running"
      BY DEF RecvAnswer
    <2> QED BY <1>1, <2>1 DEF Replies, Records, Record, NoCall, Statuses
  <1>3. /\ rring' = rring \/ rring' = Pushed(rring, <<r>>, viewing = "rsp")
        /\ UNCHANGED <<pring, viewing, progressOut, req, prg, work, defers, tokens, ran>>
    BY DEF RecvAnswer, providerVars
  <1> HIDE DEF r
  <1>4. rring' \in Seq(Records) /\ \A x \in Held(rring') : x \in Held(rring) \/ x = r
    BY <1>2, <1>3, OnePushed DEF Typed, CallerTyped
  <1>5. CallerTyped' /\ \A j \in Ids : progressOut'[j] # 0 => Traced(j)
    BY <1>3, <1>4 DEF Typed, CallerTyped, Traced, Told
  <1>6. Keeps({}, {})
    BY <1>1, <1>2, <1>3, <1>4, <1>5, CallerKeeps
  <1> QED BY <1>2, <1>4, <1>6 DEF NoneUnprovided

LEMMA RecvProgressTraces ==
    ASSUME Typed, NEW p \in Providers, RecvProgress(p)
    PROVE  Keeps({}, {}) /\ NoneUnprovided
  <1> DEFINE i == Head(prg[p])
             r == Record("progress", i, "none", NoCall)
  <1>1. /\ i \in Ids /\ Traced(i)
        /\ NetTyped' /\ \A q \in Providers : Held(prg'[q]) \subseteq Held(prg[q])
    BY ProgressHeads DEF RecvProgress, Delivers
  <1>2. r \in Records /\ r.id = i
    BY <1>1 DEF Records, Record, NoCall
  <1>3. /\ pring' = pring \/ pring' = Pushed(pring, <<r>>, viewing = "prg")
        /\ progressOut' = progressOut \/ progressOut' = [progressOut EXCEPT ![i] = @ + 1]
        /\ UNCHANGED <<rring, viewing, req, rsp, work, defers, tokens, ran>>
    BY DEF RecvProgress, providerVars
  <1> HIDE DEF r
  <1>4. pring' \in Seq(Records) /\ \A x \in Held(pring') : x \in Held(pring) \/ x = r
    BY <1>2, <1>3, OnePushed DEF Typed, CallerTyped
  <1> HIDE DEF i
  <1>5. progressOut' \in [Ids -> Nat] /\ \A j \in Ids : progressOut'[j] # 0 => Traced(j)
    <2>1. progressOut \in [Ids -> Nat] /\ \A j \in Ids : progressOut[j] # 0 => Traced(j)
      BY DEF Typed, CallerTyped, Traced, Told
    <2> QED BY <1>1, <1>3, <2>1
  <1>6. CallerTyped'
    BY <1>3, <1>4, <1>5 DEF Typed, CallerTyped
  <1>7. Keeps({}, {})
    BY <1>1, <1>2, <1>3, <1>4, <1>5, <1>6, CallerKeeps
  <1> QED BY <1>3, <1>7 DEF NoneUnprovided

LEMMA ProgressReturnsTraces ==
    ASSUME Typed, NEW i \in Ids, ProgressReturns(i)
    PROVE  Keeps({}, {}) /\ NoneUnprovided
  <1>1. /\ progressOut[i] > 0 /\ progressOut' = [progressOut EXCEPT ![i] = @ - 1]
        /\ UNCHANGED <<rring, pring, viewing, req, rsp, prg, work, defers, tokens, ran>>
    BY DEF ProgressReturns, netVars, providerVars
  <1>2. CallerTyped' /\ \A j \in Ids : progressOut'[j] # 0 => Traced(j)
    BY <1>1 DEF Typed, CallerTyped, Traced, Told
  <1>3. NetTyped'
    BY <1>1 DEF Typed, NetTyped
  <1>4. Keeps({}, {})
    BY <1>1, <1>2, <1>3, CallerKeeps
  <1> QED BY <1>1, <1>4 DEF NoneUnprovided

\* a dispatch hands over what the rings hold
LEMMA DispatchTraces ==
    ASSUME Typed, DispatchOutcome \/ (\E v \in {"rsp", "prg"} : DispatchProgress(v)) \/ DispatchDone
    PROVE  Keeps({}, {}) /\ NoneUnprovided
  <1>1. UNCHANGED <<req, rsp, prg, work, defers, tokens, ran>>
    BY DEF DispatchOutcome, DispatchProgress, DispatchDone, netVars, providerVars
  <1>2. progressOut \in [Ids -> Nat] /\ \A j \in Ids : progressOut[j] # 0 => Traced(j)
    BY DEF Typed, CallerTyped, Traced, Told
  <1>3. /\ rring' \in Seq(Records) /\ Held(rring') \subseteq Held(rring)
        /\ pring' \in Seq(Records) /\ Held(pring') \subseteq Held(pring)
    <2>1. ASSUME NEW s \in Seq(Records) PROVE Tail(s) \in Seq(Records) /\ Held(Tail(s)) \subseteq Held(s)
      <3>1. CASE s # <<>>
        BY <3>1, HeldTail
      <3>2. CASE s = <<>>
        BY <3>2 DEF Held
      <3> QED BY <3>1, <3>2
    <2>2. rring \in Seq(Records) /\ pring \in Seq(Records)
      BY DEF Typed, CallerTyped
    <2> QED BY <2>1, <2>2 DEF DispatchOutcome, DispatchProgress, DispatchDone
  <1>4. viewing' \in {"none", "rsp", "prg"} /\ progressOut' \in [Ids -> Nat] /\ \A j \in Ids : progressOut'[j] # 0 => Traced(j)
    <2>1. CASE DispatchOutcome
      BY <1>2, <2>1 DEF DispatchOutcome
    <2>2. ASSUME NEW v \in {"rsp", "prg"}, DispatchProgress(v)
          PROVE  viewing' \in {"none", "rsp", "prg"} /\ progressOut' \in [Ids -> Nat] /\ \A j \in Ids : progressOut'[j] # 0 => Traced(j)
      <3> DEFINE ring == IF v = "rsp" THEN rring ELSE pring
                 r == Head(ring)
      <3>1. ring \in Seq(Records) /\ ring # <<>> /\ r.kind \in {"running", "progress"}
        BY <2>2 DEF DispatchProgress, Typed, CallerTyped
      <3>2. r \in Records /\ r \in Held(ring)
        <4> HIDE DEF ring
        <4> QED BY <3>1, HeldTail
      <3>3. Traced(r.id) /\ r.id \in Ids
        BY <3>1, <3>2 DEF Traced, Told, Records
      <3>4. viewing' = v /\ (progressOut' = progressOut \/ progressOut' = [progressOut EXCEPT ![r.id] = 1])
        BY <2>2 DEF DispatchProgress
      <3> HIDE DEF r
      <3> QED BY <1>2, <3>3, <3>4
    <2>3. CASE DispatchDone
      BY <2>3 DEF DispatchDone
    <2> QED BY <2>1, <2>2, <2>3
  <1>5. NetTyped' /\ CallerTyped'
    BY <1>1, <1>3, <1>4 DEF Typed, NetTyped, CallerTyped
  <1>6. Keeps({}, {})
    BY <1>1, <1>3, <1>4, <1>5, CallerKeeps
  <1> QED BY <1>3, <1>6 DEF NoneUnprovided

-----------------------------------------------------------------------------
(* The providers' actions. *)

LEMMA ReplyHolds ==
    ASSUME NEW p, NEW q \in Seq(Replies), NEW i, NEW s, NEW w, NEW e, Answer(i, s, w) \in Replies
    PROVE  /\ Reply(p, q, i, s, w, e) \in Seq(Replies)
           /\ \A m \in Held(Reply(p, q, i, s, w, e)) : m \in Held(q) \/ m.id = i
  <1> DEFINE x == Answer(i, s, w)
  <1>1. x.id = i
    BY DEF Answer
  <1> HIDE DEF x
  <1>2. Put(q, x, e) \in Seq(Replies) /\ Held(Put(q, x, e)) \subseteq Held(q) \cup {x}
    BY PutHolds DEF x
  <1>3. Reply(p, q, i, s, w, e) = IF sees[p] THEN Put(q, x, e) ELSE q
    BY DEF Reply, x
  <1> QED BY <1>1, <1>2, <1>3

\* a handler that runs a request answers or defers that call
LEMMA RunHolds ==
    ASSUME Typed, NEW p \in Providers, NEW i \in Ids, CallOp(i) \in Held(req[p]) \cup Held(work[p]),
           NEW a \in Answers, NEW started, NEW e, RunRequest(p, i, a, started, e)
    PROVE  /\ rsp' \in [Providers -> Seq(Replies)] /\ defers' \in [Providers -> [Cells -> Deferred]]
           /\ tokens' \in [Providers -> SUBSET Tokens] /\ ran' \in [Ids -> SUBSET Providers]
           /\ \A q \in Providers : \A m \in Held(rsp'[q]) : Has(q, m.id)
           /\ \A q \in Providers : \A c \in Cells : defers'[q][c].id = NoCall \/ Has(q, defers'[q][c].id)
           /\ \A q \in Providers : \A t \in tokens'[q] : Has(q, t.id)
           /\ \A j \in Ids : ran'[j] = ran[j] \/ \E q \in Providers : CallOp(j) \in Held(req[q]) \cup Held(work[q])
  <1> DEFINE first == IF IsTask /\ (started \/ a = "defer") THEN Reply(p, rsp[p], i, "running", NoCall, e) ELSE rsp[p]
             last == Reply(p, first, i, Final(a), i, e)
  <1>1. Has(p, i)
    BY DEF Has
  <1>2. /\ \A q \in Providers : \A m \in Held(rsp[q]) : Has(q, m.id)
        /\ \A q \in Providers : \A c \in Cells : Has(q, defers[q][c].id)
        /\ \A q \in Providers : \A t \in tokens[q] : Has(q, t.id)
    BY DEF Has
  <1>3. ran' \in [Ids -> SUBSET Providers] /\ \A j \in Ids : ran'[j] = ran[j] \/ j = i
    BY DEF RunRequest, Typed, ProviderTyped
  <1>4. first \in Seq(Replies) /\ \A m \in Held(first) : m \in Held(rsp[p]) \/ m.id = i
    <2>1. rsp[p] \in Seq(Replies) /\ Answer(i, "running", NoCall) \in Replies
      BY DEF Typed, NetTyped, Answer, Replies
    <2> QED BY <2>1, ReplyHolds
  <1>5. ASSUME a # "defer"
        PROVE  last \in Seq(Replies) /\ \A m \in Held(last) : m \in Held(rsp[p]) \/ m.id = i
    <2> HIDE DEF first
    <2>1. Answer(i, Final(a), i) \in Replies
      BY <1>5 DEF Answer, Replies, Final, Answers
    <2> QED BY <1>4, <2>1, ReplyHolds
  <1>6. \E z \in Seq(Replies) : rsp' = [rsp EXCEPT ![p] = z] /\ \A m \in Held(z) : m \in Held(rsp[p]) \/ m.id = i
    <2>1. CASE a = "defer"
      <3>1. rsp' = [rsp EXCEPT ![p] = first]
        BY <2>1 DEF RunRequest
      <3> QED BY <1>4, <3>1
    <2>2. CASE a # "defer"
      <3>1. rsp' = [rsp EXCEPT ![p] = last]
        BY <2>2 DEF RunRequest
      <3> HIDE DEF last
      <3> QED BY <1>5, <2>2, <3>1
    <2> QED BY <2>1, <2>2
  <1>7. rsp' \in [Providers -> Seq(Replies)] /\ \A q \in Providers : \A m \in Held(rsp'[q]) : Has(q, m.id)
    <2>1. PICK z \in Seq(Replies) : rsp' = [rsp EXCEPT ![p] = z] /\ \A m \in Held(z) : m \in Held(rsp[p]) \/ m.id = i
      BY <1>6
    <2> QED BY <1>1, <1>2, <2>1 DEF Typed, NetTyped
  <1>8. /\ defers' \in [Providers -> [Cells -> Deferred]] /\ tokens' \in [Providers -> SUBSET Tokens]
        /\ \A q \in Providers : \A c \in Cells : defers'[q][c].id = NoCall \/ Has(q, defers'[q][c].id)
        /\ \A q \in Providers : \A t \in tokens'[q] : Has(q, t.id)
    <2>1. CASE a = "defer"
      <3> DEFINE d0 == [NoDefer EXCEPT !.id = i]
      <3>1. PICK c \in Cells : /\ defers' = [defers EXCEPT ![p][c] = d0]
                               /\ tokens' = [tokens EXCEPT ![p] = @ \cup {[cell |-> c, id |-> i]}]
        BY <2>1 DEF RunRequest
      <3>2. d0 \in Deferred /\ d0.id = i
        BY DEF NoDefer, Deferred
      <3> HIDE DEF d0
      <3>3. [cell |-> c, id |-> i] \in Tokens
        BY DEF Tokens
      <3>4. defers' \in [Providers -> [Cells -> Deferred]]
        BY <3>1, <3>2 DEF Typed, ProviderTyped
      <3>5. tokens' \in [Providers -> SUBSET Tokens]
        BY <3>1, <3>3 DEF Typed, ProviderTyped
      <3>6. \A q \in Providers : \A d \in Cells : defers'[q][d].id = NoCall \/ Has(q, defers'[q][d].id)
        BY <1>1, <1>2, <3>1, <3>2 DEF Typed, ProviderTyped
      <3>7. \A q \in Providers : \A t \in tokens'[q] : Has(q, t.id)
        BY <1>1, <1>2, <3>1 DEF Typed, ProviderTyped
      <3> QED BY <3>4, <3>5, <3>6, <3>7
    <2>2. CASE a # "defer"
      BY <1>2, <2>2 DEF RunRequest, Typed, ProviderTyped
    <2> QED BY <2>1, <2>2
  <1> QED BY <1>3, <1>7, <1>8

\* the queue of requests at the head of which p finds one
LEMMA RequestHeads ==
    ASSUME NEW q \in Seq(Requests), q # <<>>
    PROVE  /\ Head(q) \in Requests /\ Head(q) \in Held(q) /\ Head(q).id \in Ids
           /\ Head(q).op = "call" => CallOp(Head(q).id) \in Held(q)
           /\ Tail(q) \in Seq(Requests) /\ Held(Tail(q)) \subseteq Held(q)
  <1>1. /\ Head(q) \in Requests /\ Head(q) \in Held(q)
        /\ Tail(q) \in Seq(Requests) /\ Held(Tail(q)) \subseteq Held(q)
    BY HeldTail
  <1>2. Head(q).id \in Ids /\ (Head(q).op = "call" => Head(q) = CallOp(Head(q).id))
    BY <1>1 DEF Requests, CallOp
  <1> QED BY <1>1, <1>2

\* what a definition takes from its channel or its ring
LEMMA TakeHolds ==
    ASSUME Typed, NEW p \in Providers
    PROVE  /\ req[p] # <<>> /\ req' = [req EXCEPT ![p] = Tail(@)] =>
                 req' \in [Providers -> Seq(Requests)] /\ \A q \in Providers : Held(req'[q]) \subseteq Held(req[q])
           /\ work[p] # <<>> /\ work' = [work EXCEPT ![p] = Tail(@)] =>
                 work' \in [Providers -> Seq(Requests)] /\ \A q \in Providers : Held(work'[q]) \subseteq Held(work[q])
  <1>1. req \in [Providers -> Seq(Requests)] /\ work \in [Providers -> Seq(Requests)]
    BY DEF Typed, NetTyped, ProviderTyped
  <1>2. req[p] # <<>> => Tail(req[p]) \in Seq(Requests) /\ Held(Tail(req[p])) \subseteq Held(req[p])
    BY <1>1, HeldTail
  <1>3. work[p] # <<>> => Tail(work[p]) \in Seq(Requests) /\ Held(Tail(work[p])) \subseteq Held(work[p])
    BY <1>1, HeldTail
  <1>4. ASSUME NEW f \in [Providers -> Seq(Requests)], NEW z \in Seq(Requests), Held(z) \subseteq Held(f[p])
        PROVE  /\ [f EXCEPT ![p] = z] \in [Providers -> Seq(Requests)]
               /\ \A q \in Providers : Held([f EXCEPT ![p] = z][q]) \subseteq Held(f[q])
    BY <1>4
  <1> QED BY <1>1, <1>2, <1>3, <1>4

LEMMA RunTraces ==
    ASSUME Typed, NEW p \in Providers, NEW a \in Answers, NEW st, NEW e,
           RecvRequest(p, a, st, e) \/ DispatchRequest(p, a, st, e)
    PROVE  Keeps({}, {}) /\ NoneUnprovided
  <1>1. UNCHANGED callerVars /\ prg' = prg
    BY DEF RecvRequest, DispatchRequest
  <1>2. \E i \in Ids : CallOp(i) \in Held(req[p]) \cup Held(work[p]) /\ RunRequest(p, i, a, st, e)
    <2>1. req[p] \in Seq(Requests) /\ work[p] \in Seq(Requests)
      BY DEF Typed, NetTyped, ProviderTyped
    <2>2. CASE RecvRequest(p, a, st, e)
      <3>1. /\ req[p] # <<>> /\ Head(req[p]).op = "call" /\ RunRequest(p, Head(req[p]).id, a, st, e)
        BY <2>2 DEF RecvRequest, Arrives
      <3>2. Head(req[p]).id \in Ids /\ CallOp(Head(req[p]).id) \in Held(req[p])
        BY <2>1, <3>1, RequestHeads
      <3> QED BY <3>1, <3>2
    <2>3. CASE DispatchRequest(p, a, st, e)
      <3>1. /\ work[p] # <<>> /\ Head(work[p]).op = "call" /\ RunRequest(p, Head(work[p]).id, a, st, e)
        BY <2>3 DEF DispatchRequest
      <3>2. Head(work[p]).id \in Ids /\ CallOp(Head(work[p]).id) \in Held(work[p])
        BY <2>1, <3>1, RequestHeads
      <3> QED BY <3>1, <3>2
    <2> QED BY <2>2, <2>3
  <1>3. PICK i \in Ids : CallOp(i) \in Held(req[p]) \cup Held(work[p]) /\ RunRequest(p, i, a, st, e)
    BY <1>2
  <1>4. /\ req' \in [Providers -> Seq(Requests)] /\ work' \in [Providers -> Seq(Requests)]
        /\ \A q \in Providers : Held(req'[q]) \subseteq Held(req[q]) /\ Held(work'[q]) \subseteq Held(work[q])
    <2>1. CASE RecvRequest(p, a, st, e)
      BY <2>1, TakeHolds DEF RecvRequest, Arrives, Typed, ProviderTyped
    <2>2. CASE DispatchRequest(p, a, st, e)
      BY <2>2, TakeHolds DEF DispatchRequest, Typed, NetTyped
    <2> QED BY <2>1, <2>2
  <1>5. /\ rsp' \in [Providers -> Seq(Replies)] /\ defers' \in [Providers -> [Cells -> Deferred]]
        /\ tokens' \in [Providers -> SUBSET Tokens] /\ ran' \in [Ids -> SUBSET Providers]
        /\ \A q \in Providers : \A m \in Held(rsp'[q]) : Has(q, m.id)
        /\ \A q \in Providers : \A c \in Cells : defers'[q][c].id = NoCall \/ Has(q, defers'[q][c].id)
        /\ \A q \in Providers : \A t \in tokens'[q] : Has(q, t.id)
        /\ \A j \in Ids : ran'[j] = ran[j] \/ \E q \in Providers : CallOp(j) \in Held(req[q]) \cup Held(work[q])
    BY <1>3, RunHolds
  <1>6. NetTyped' /\ ProviderTyped'
    BY <1>1, <1>4, <1>5 DEF Typed, NetTyped, ProviderTyped
  <1>7. \A q \in Providers : \A j \in Held(prg'[q]) : Has(q, j)
    BY <1>1 DEF Has
  <1>8. \A q \in Providers : Held(work'[q]) \subseteq Held(req[q]) \cup Held(work[q])
    BY <1>4
  <1>9. Keeps({}, {})
    BY <1>1, <1>4, <1>5, <1>6, <1>7, <1>8, ProviderKeeps
  <1> QED BY <1>1, <1>9 DEF NoneUnprovided, callerVars

\* the channels and registries hold traces of the calls they are about
LEMMA OldTraces ==
    /\ \A q \in Providers : \A m \in Held(rsp[q]) : Has(q, m.id)
    /\ \A q \in Providers : \A j \in Held(prg[q]) : Has(q, j)
    /\ \A q \in Providers : \A c \in Cells : Has(q, defers[q][c].id)
    /\ \A q \in Providers : \A t \in tokens[q] : Has(q, t.id)
  BY DEF Has

LEMMA ParkTraces ==
    ASSUME Typed, NEW p \in Providers, NEW b, ParkRequest(p, b)
    PROVE  Keeps({}, {}) /\ NoneUnprovided
  <1>1. /\ UNCHANGED <<callerVars, rsp, prg, defers, tokens, ran>>
        /\ req[p] # <<>> /\ req' = [req EXCEPT ![p] = Tail(@)]
        /\ work' = [work EXCEPT ![p] = Pushed(@, <<Head(req[p])>>, b)]
    BY DEF ParkRequest, Arrives
  <1>2. req' \in [Providers -> Seq(Requests)] /\ \A q \in Providers : Held(req'[q]) \subseteq Held(req[q])
    BY <1>1, TakeHolds
  <1>3. req[p] \in Seq(Requests) /\ work[p] \in Seq(Requests)
    BY DEF Typed, NetTyped, ProviderTyped
  <1>4. Head(req[p]) \in Requests /\ Head(req[p]) \in Held(req[p])
    BY <1>1, <1>3, RequestHeads
  <1> DEFINE m == Head(req[p])
  <1> HIDE DEF m
  <1>5. Pushed(work[p], <<m>>, b) \in Seq(Requests) /\ \A x \in Held(Pushed(work[p], <<m>>, b)) : x \in Held(work[p]) \/ x = m
    BY <1>3, <1>4, OnePushed DEF m
  <1>6. /\ work' \in [Providers -> Seq(Requests)]
        /\ \A q \in Providers : Held(work'[q]) \subseteq Held(req[q]) \cup Held(work[q])
    <2>1. work' = [work EXCEPT ![p] = Pushed(work[p], <<m>>, b)]
      BY <1>1 DEF m
    <2> QED BY <1>4, <1>5, <2>1 DEF m, Typed, ProviderTyped
  <1>7. NetTyped' /\ ProviderTyped'
    BY <1>1, <1>2, <1>6 DEF Typed, NetTyped, ProviderTyped
  <1>8. Keeps({}, {})
    BY <1>1, <1>2, <1>6, <1>7, OldTraces, ProviderKeeps
  <1> QED BY <1>1, <1>8 DEF NoneUnprovided, callerVars

LEMMA RecvCancelTraces ==
    ASSUME Typed, NEW p \in Providers, NEW b, RecvCancel(p, b)
    PROVE  Keeps({}, {}) /\ NoneUnprovided
  <1> DEFINE m == Head(req[p])
             hit == {c \in Cells : defers[p][c].id = m.id /\ ~defers[p][c].cancelled}
  <1>1. /\ UNCHANGED <<callerVars, rsp, prg, tokens, ran>>
        /\ req[p] # <<>> /\ req' = [req EXCEPT ![p] = Tail(@)]
        /\ defers' = [defers EXCEPT ![p] = [c \in Cells |->
                         IF c \in hit THEN [@[c] EXCEPT !.cancelled = TRUE, !.notified = ~DefQueue] ELSE @[c]]]
        /\ work' = work \/ work' = [work EXCEPT ![p] = Pushed(@, <<m>>, b)]
    BY DEF RecvCancel, Arrives
  <1>2. req' \in [Providers -> Seq(Requests)] /\ \A q \in Providers : Held(req'[q]) \subseteq Held(req[q])
    BY <1>1, TakeHolds
  <1>3. req[p] \in Seq(Requests) /\ work[p] \in Seq(Requests)
    BY DEF Typed, NetTyped, ProviderTyped
  <1>4. m \in Requests /\ m \in Held(req[p])
    BY <1>1, <1>3, RequestHeads
  <1>5. defers' \in [Providers -> [Cells -> Deferred]] /\ \A q \in Providers, c \in Cells : defers'[q][c].id = defers[q][c].id
    <2>0. \A c \in hit : defers[p][c].id = m.id
      OBVIOUS
    <2> HIDE DEF hit, m
    <2>1. defers[p] \in [Cells -> Deferred] /\ (~DefQueue) \in BOOLEAN /\ m.id \in Ids
      BY <1>4 DEF Typed, ProviderTyped, Requests
    <2>2. ASSUME NEW d \in Deferred, d.id = m.id
          PROVE  /\ [d EXCEPT !.cancelled = TRUE, !.notified = ~DefQueue] \in Deferred
                 /\ [d EXCEPT !.cancelled = TRUE, !.notified = ~DefQueue].id = d.id
      BY <2>1, <2>2 DEF Deferred, NoDefer, Ids, NoCall
    <2> DEFINE new == [c \in Cells |-> IF c \in hit THEN [defers[p][c] EXCEPT !.cancelled = TRUE, !.notified = ~DefQueue] ELSE defers[p][c]]
    <2>3. new \in [Cells -> Deferred] /\ \A c \in Cells : new[c].id = defers[p][c].id
      BY <2>0, <2>1, <2>2
    <2>4. defers' = [defers EXCEPT ![p] = new]
      BY <1>1
    <2> HIDE DEF new
    <2> QED BY <2>3, <2>4 DEF Typed, ProviderTyped
  <1> HIDE DEF m, hit
  <1>6. Pushed(work[p], <<m>>, b) \in Seq(Requests) /\ \A x \in Held(Pushed(work[p], <<m>>, b)) : x \in Held(work[p]) \/ x = m
    BY <1>3, <1>4, OnePushed
  <1>7. /\ work' \in [Providers -> Seq(Requests)]
        /\ \A q \in Providers : Held(work'[q]) \subseteq Held(req[q]) \cup Held(work[q])
    <2>1. CASE work' = work
      BY <2>1 DEF Typed, ProviderTyped
    <2>2. CASE work' = [work EXCEPT ![p] = Pushed(work[p], <<m>>, b)]
      BY <1>4, <1>6, <2>2 DEF Typed, ProviderTyped
    <2> QED BY <1>1, <2>1, <2>2
  <1>8. NetTyped' /\ ProviderTyped'
    BY <1>1, <1>2, <1>5, <1>7 DEF Typed, NetTyped, ProviderTyped
  <1>9. \A q \in Providers : \A c \in Cells : Has(q, defers'[q][c].id)
    BY <1>5, OldTraces
  <1>10. Keeps({}, {})
    BY <1>1, <1>2, <1>7, <1>8, <1>9, OldTraces, ProviderKeeps
  <1> QED BY <1>1, <1>10 DEF NoneUnprovided, callerVars

LEMMA DispatchCancelTraces ==
    ASSUME Typed, NEW p \in Providers, DispatchCancel(p)
    PROVE  Keeps({}, {}) /\ NoneUnprovided
  <1> DEFINE m == Head(work[p])
  <1>1. /\ UNCHANGED <<callerVars, req, rsp, prg, tokens, ran>>
        /\ work[p] # <<>> /\ work' = [work EXCEPT ![p] = Tail(@)]
        /\ defers' = [defers EXCEPT ![p] = [c \in Cells |-> IF @[c].id = m.id THEN [@[c] EXCEPT !.notified = TRUE] ELSE @[c]]]
    BY DEF DispatchCancel, netVars
  <1>2. work' \in [Providers -> Seq(Requests)] /\ \A q \in Providers : Held(work'[q]) \subseteq Held(work[q])
    BY <1>1, TakeHolds
  <1>3. defers' \in [Providers -> [Cells -> Deferred]] /\ \A q \in Providers, c \in Cells : defers'[q][c].id = defers[q][c].id
    <2>1. defers[p] \in [Cells -> Deferred] /\ m.id \in Ids
      <3>1. work[p] \in Seq(Requests)
        BY DEF Typed, ProviderTyped
      <3> QED BY <1>1, <3>1, RequestHeads DEF Typed, ProviderTyped
    <2> HIDE DEF m
    <2>2. ASSUME NEW d \in Deferred, d.id = m.id
          PROVE  [d EXCEPT !.notified = TRUE] \in Deferred /\ [d EXCEPT !.notified = TRUE].id = d.id
      <3>1. d \in [id : Ids, cancelled : BOOLEAN, notified : BOOLEAN]
        BY <2>1, <2>2 DEF Deferred, NoDefer, Ids, NoCall
      <3> QED BY <3>1 DEF Deferred
    <2> DEFINE new == [c \in Cells |-> IF defers[p][c].id = m.id THEN [defers[p][c] EXCEPT !.notified = TRUE] ELSE defers[p][c]]
    <2>3. defers' = [defers EXCEPT ![p] = new]
      BY <1>1 DEF m
    <2>4. new \in [Cells -> Deferred] /\ \A c \in Cells : new[c].id = defers[p][c].id
      BY <2>1, <2>2
    <2> HIDE DEF new
    <2> QED BY <2>3, <2>4 DEF Typed, ProviderTyped
  <1>4. NetTyped' /\ ProviderTyped'
    BY <1>1, <1>2, <1>3 DEF Typed, NetTyped, ProviderTyped
  <1>5. \A q \in Providers : \A c \in Cells : Has(q, defers'[q][c].id)
    BY <1>3, OldTraces
  <1>6. \A q \in Providers : Held(work'[q]) \subseteq Held(req[q]) \cup Held(work[q])
    BY <1>2
  <1>7. Keeps({}, {})
    BY <1>1, <1>2, <1>4, <1>5, <1>6, OldTraces, ProviderKeeps
  <1> QED BY <1>1, <1>7 DEF NoneUnprovided, callerVars

\* whatever call the address now stands for is answered, with the work of the token's
LEMMA CompleteTraces ==
    ASSUME Typed, NEW p \in Providers, NEW t, NEW e, Complete(p, t, e)
    PROVE  Keeps({}, {}) /\ NoneUnprovided
  <1> DEFINE i == defers[p][t.cell].id
             z == Reply(p, rsp[p], i, "ok", t.id, e)
  <1>1. /\ UNCHANGED <<callerVars, req, prg, work, ran>>
        /\ t \in tokens[p]
        /\ defers' = [defers EXCEPT ![p][t.cell] = NoDefer]
        /\ tokens' = tokens \/ tokens' = [tokens EXCEPT ![p] = @ \ {t}]
        /\ rsp' = [rsp EXCEPT ![p] = z]
    BY DEF Complete
  <1>2. t.cell \in Cells /\ t.id \in Ids /\ defers[p] \in [Cells -> Deferred]
    BY <1>1 DEF Typed, ProviderTyped, Tokens
  <1>3. i \in Ids /\ Has(p, i)
    <2>1. defers[p][t.cell] # NoDefer /\ defers[p][t.cell] \in Deferred
      BY <1>2 DEF Complete
    <2> QED BY <1>2, <2>1, OldTraces DEF Deferred
  <1>4. z \in Seq(Replies) /\ \A m \in Held(z) : m \in Held(rsp[p]) \/ m.id = i
    <2> HIDE DEF i
    <2>1. rsp[p] \in Seq(Replies) /\ Answer(i, "ok", t.id) \in Replies
      BY <1>2, <1>3 DEF Typed, NetTyped, Answer, Replies
    <2> QED BY <2>1, ReplyHolds
  <1> HIDE DEF z
  <1>5. rsp' \in [Providers -> Seq(Replies)] /\ \A q \in Providers : \A m \in Held(rsp'[q]) : Has(q, m.id)
    BY <1>1, <1>3, <1>4, OldTraces DEF Typed, NetTyped
  <1>6. NoDefer \in Deferred /\ NoDefer.id = NoCall
    BY DEF NoDefer, Deferred
  <1>7. /\ defers' \in [Providers -> [Cells -> Deferred]]
        /\ \A q \in Providers : \A c \in Cells : defers'[q][c].id = NoCall \/ Has(q, defers'[q][c].id)
    BY <1>1, <1>2, <1>6, OldTraces DEF Typed, ProviderTyped
  <1>8. tokens' \in [Providers -> SUBSET Tokens] /\ \A q \in Providers : \A x \in tokens'[q] : Has(q, x.id)
    <2>1. CASE tokens' = tokens
      BY <2>1, OldTraces DEF Typed, ProviderTyped
    <2>2. CASE tokens' = [tokens EXCEPT ![p] = tokens[p] \ {t}]
      BY <2>2, OldTraces DEF Typed, ProviderTyped
    <2> QED BY <1>1, <2>1, <2>2
  <1>9. NetTyped' /\ ProviderTyped'
    BY <1>1, <1>5, <1>7, <1>8 DEF Typed, NetTyped, ProviderTyped
  <1>10. Keeps({}, {})
    BY <1>1, <1>5, <1>7, <1>8, <1>9, OldTraces, ProviderKeeps
  <1> QED BY <1>1, <1>10 DEF NoneUnprovided, callerVars

LEMMA ProgressTraces ==
    ASSUME Typed, NEW p \in Providers, NEW t, Progress(p, t)
    PROVE  Keeps({}, {}) /\ NoneUnprovided
  <1>1. /\ UNCHANGED <<callerVars, req, rsp, work, defers, tokens, ran>>
        /\ t \in tokens[p] /\ prg' = [prg EXCEPT ![p] = Append(@, t.id)]
    BY DEF Progress, providerVars
  <1>2. t.id \in Ids /\ Has(p, t.id) /\ prg[p] \in Seq(Ids)
    BY <1>1, OldTraces DEF Typed, NetTyped, ProviderTyped, Tokens
  <1>3. Append(prg[p], t.id) \in Seq(Ids) /\ Held(Append(prg[p], t.id)) = Held(prg[p]) \cup {t.id}
    BY <1>2, HeldAppend
  <1>4. prg' \in [Providers -> Seq(Ids)] /\ \A q \in Providers : \A j \in Held(prg'[q]) : Has(q, j)
    BY <1>1, <1>2, <1>3, OldTraces DEF Typed, NetTyped
  <1>5. NetTyped' /\ ProviderTyped'
    BY <1>1, <1>4 DEF Typed, NetTyped, ProviderTyped
  <1>6. Keeps({}, {})
    BY <1>1, <1>4, <1>5, OldTraces, ProviderKeeps
  <1> QED BY <1>1, <1>6 DEF NoneUnprovided, callerVars

\* a definition that goes answers its live deferred calls
LEMMA LeavesTraces ==
    ASSUME Typed, NEW p \in Providers, NEW n \in Int, ProviderLeaves(p, n)
    PROVE  Keeps({}, {}) /\ NoneUnprovided
  <1> DEFINE S == {defers[p][c].id : c \in Cells}
             live == Oldest(S)
             answers == [k \in DOMAIN live |-> Answer(live[k], "cancelled", live[k])]
             all == rsp[p] \o answers
             z == SubSeq(all, 1, n)
  <1>1. /\ UNCHANGED <<callerVars, req, ran>> /\ n <= Len(all)
        /\ rsp' = [rsp EXCEPT ![p] = z] /\ prg' = [prg EXCEPT ![p] = <<>>]
        /\ defers' = [defers EXCEPT ![p] = [c \in Cells |-> NoDefer]]
        /\ tokens' = [tokens EXCEPT ![p] = {}] /\ work' = [work EXCEPT ![p] = <<>>]
    BY DEF ProviderLeaves
  <1>2. \A i \in S : Has(p, i)
    BY OldTraces
  <1>3. live \in Seq(Ids) /\ Held(live) \subseteq S
    <2> HIDE DEF S
    <2> QED BY OldestHolds
  <1> HIDE DEF live, S
  <1>4. \A k \in DOMAIN live : live[k] \in Ids /\ Has(p, live[k])
    BY <1>2, <1>3, HeldIn DEF Held
  <1>5. \A k \in DOMAIN live : answers[k] \in Replies /\ Has(p, answers[k].id)
    BY <1>4 DEF Answer, Replies
  <1>6. answers \in Seq(Replies) /\ DOMAIN answers = DOMAIN live
    BY <1>3, <1>5, SameLength
  <1>7. \A m \in Held(answers) : Has(p, m.id)
    BY <1>5, <1>6 DEF Held
  <1> HIDE DEF answers
  <1>8. all \in Seq(Replies) /\ Held(all) = Held(rsp[p]) \cup Held(answers)
    BY <1>6, HeldConcat DEF Typed, NetTyped
  <1> HIDE DEF all
  <1>9. z \in Seq(Replies) /\ Held(z) \subseteq Held(all)
    BY <1>1, <1>8, HeldSub
  <1> HIDE DEF z
  <1>10. rsp' \in [Providers -> Seq(Replies)] /\ \A q \in Providers : \A m \in Held(rsp'[q]) : Has(q, m.id)
    BY <1>1, <1>7, <1>8, <1>9, OldTraces DEF Typed, NetTyped
  <1>11. <<>> \in Seq(Requests) /\ <<>> \in Seq(Ids) /\ Held(<<>>) = {}
    BY HeldNone
  <1>12. /\ work' \in [Providers -> Seq(Requests)] /\ prg' \in [Providers -> Seq(Ids)]
         /\ \A q \in Providers : Held(work'[q]) \subseteq Held(req[q]) \cup Held(work[q]) /\ Held(prg'[q]) \subseteq Held(prg[q])
    BY <1>1, <1>11 DEF Typed, NetTyped, ProviderTyped
  <1>13. NoDefer \in Deferred /\ NoDefer.id = NoCall
    BY DEF NoDefer, Deferred
  <1>14. /\ defers' \in [Providers -> [Cells -> Deferred]]
         /\ \A q \in Providers : \A c \in Cells : defers'[q][c].id = NoCall \/ Has(q, defers'[q][c].id)
    BY <1>1, <1>13, OldTraces DEF Typed, ProviderTyped
  <1>15. tokens' \in [Providers -> SUBSET Tokens] /\ \A q \in Providers : \A x \in tokens'[q] : Has(q, x.id)
    BY <1>1, OldTraces DEF Typed, ProviderTyped
  <1>16. NetTyped' /\ ProviderTyped'
    BY <1>1, <1>10, <1>12, <1>14, <1>15 DEF Typed, NetTyped, ProviderTyped
  <1>17. \A q \in Providers : \A j \in Held(prg'[q]) : Has(q, j)
    BY <1>12, OldTraces
  <1>18. Keeps({}, {})
    BY <1>1, <1>10, <1>12, <1>14, <1>15, <1>16, <1>17, OldTraces, ProviderKeeps
  <1> QED BY <1>1, <1>18 DEF NoneUnprovided, callerVars

LEMMA ProviderTraces ==
    ASSUME Typed, ProviderNext
    PROVE  Keeps({}, {}) /\ NoneUnprovided
  <1> PICK p \in Providers :
        \/ \E a \in Answers, st \in BOOLEAN, e \in Evicts : RecvRequest(p, a, st, e) \/ DispatchRequest(p, a, st, e)
        \/ \E b \in BOOLEAN : ParkRequest(p, b) \/ RecvCancel(p, b)
        \/ DispatchCancel(p)
        \/ \E t \in tokens[p], e \in Evicts : Complete(p, t, e)
        \/ \E t \in tokens[p] : Progress(p, t)
        \/ \E n \in 0 .. 2 * MaxCalls * Cardinality(Cells) : ProviderLeaves(p, n)
        \/ ProviderReturns(p)
    BY DEF ProviderNext
  <1>1. ASSUME NEW a \in Answers, NEW st, NEW e, RecvRequest(p, a, st, e) \/ DispatchRequest(p, a, st, e)
        PROVE  Keeps({}, {}) /\ NoneUnprovided
    BY <1>1, RunTraces
  <1>2. ASSUME NEW b, ParkRequest(p, b) \/ RecvCancel(p, b)
        PROVE  Keeps({}, {}) /\ NoneUnprovided
    BY <1>2, ParkTraces, RecvCancelTraces
  <1>3. CASE DispatchCancel(p)
    BY <1>3, DispatchCancelTraces
  <1>4. ASSUME NEW t, NEW e, Complete(p, t, e)
        PROVE  Keeps({}, {}) /\ NoneUnprovided
    BY <1>4, CompleteTraces
  <1>5. ASSUME NEW t, Progress(p, t)
        PROVE  Keeps({}, {}) /\ NoneUnprovided
    BY <1>5, ProgressTraces
  <1>6. ASSUME NEW n \in 0 .. 2 * MaxCalls * Cardinality(Cells), ProviderLeaves(p, n)
        PROVE  Keeps({}, {}) /\ NoneUnprovided
    BY <1>6, LeavesTraces
  <1>7. CASE ProviderReturns(p)
    BY <1>7, IdleKeeps DEF ProviderReturns, callerVars, netVars, NoneUnprovided
  <1> QED BY <1>1, <1>2, <1>3, <1>4, <1>5, <1>6, <1>7

-----------------------------------------------------------------------------
(* What each step makes of the entries. *)

\* how a step may move entry i, given the requests and cancels it sends
Moves(i, sent, cancelled) ==
    /\ call'[i].st \in {"none", "queued"} => call[i].st \in {"none", "queued"}
    /\ call'[i].st = "sent" => call[i].st \in {"none", "queued", "sent"}
    /\ i \in sending' => \/ i \in sending \ sent
                         \/ call[i].st \in {"none", "queued"} /\ call'[i].st = "sent" /\ i \notin sent
    /\ i \in sent \cup cancelled => call'[i].st \notin {"none", "queued"} /\ (i \in sending \/ call[i].st \in {"queued", "sent"})
    /\ Unprovided(i)' => \/ Unprovided(i)
                         \/ call[i].st = "queued" /\ call'[i].st \notin {"none", "queued", "sent"} /\ i \notin sent \cup cancelled

LEMMA CauseKept ==
    ASSUME NEW i \in Ids, CauseInv(i), NEW sent, NEW cancelled, Keeps(sent, cancelled), Moves(i, sent, cancelled)
    PROVE  CauseInv(i)'
  <1>1. /\ i \notin sent => (Unheard(i) => Unheard(i)')
        /\ i \notin sent \cup cancelled => (NoRequest(i) => NoRequest(i)')
    BY DEF Keeps
  <1>2. (call[i].st \in {"none", "queued"} => i \notin sending) /\ (call'[i].st \in {"none", "queued"} => i \notin sending')
    BY DEF CauseInv, Moves
  <1>3. ASSUME call'[i].st \in {"none", "queued"} \/ i \in sending' PROVE Unheard(i)'
    BY <1>1, <1>3 DEF CauseInv, Moves
  <1>4. ASSUME call'[i].st \in {"none", "queued"} \/ Unprovided(i)' PROVE Unsent(i)'
    <2>1. CASE call'[i].st \in {"none", "queued"}
      <3>1. NoRequest(i) /\ i \notin sent \cup cancelled
        BY <2>1 DEF CauseInv, Moves, Unsent
      <3> QED BY <1>1, <1>2, <2>1, <3>1 DEF Unsent
    <2>2. CASE Unprovided(i)' /\ Unprovided(i)
      <3>1. Unsent(i) /\ call[i].st \notin {"none", "queued", "sent"}
        BY <2>2 DEF CauseInv
      <3>2. i \notin sent \cup cancelled /\ i \notin sending'
        BY <3>1 DEF Moves, Unsent
      <3> QED BY <1>1, <3>1, <3>2 DEF Unsent
    <2>3. CASE call[i].st = "queued" /\ call'[i].st \notin {"none", "queued", "sent"} /\ i \notin sent \cup cancelled
      <3>1. Unsent(i)
        BY <2>3 DEF CauseInv
      <3>2. i \notin sending'
        BY <2>3, <3>1 DEF Moves, Unsent
      <3> QED BY <1>1, <2>3, <3>1, <3>2 DEF Unsent
    <2> QED BY <1>4, <2>1, <2>2, <2>3 DEF Moves
  <1>5. ASSUME Unprovided(i)' PROVE call'[i].st \notin {"none", "queued", "sent"}
    BY <1>5 DEF CauseInv, Moves
  <1> QED BY <1>2, <1>3, <1>4, <1>5 DEF CauseInv

\* no step but an expiry, and the dispatch of what an expiry parked, gives the
\* status of a call that found no provider
LEMMA NotUnprovided ==
    ASSUME NoneUnprovided, NEW i, call'[i].status \in {call[i].status} \/ call'[i].status # "no_provider" \/ Unprovided(i)
    PROVE  Unprovided(i)' => Unprovided(i)
  BY DEF NoneUnprovided, Unprovided

\* an entry whose state stays, while no send of its own is done
LEMMA StayMoves ==
    ASSUME NEW i \in Ids, CauseInv(i), call'[i].st = call[i].st, call'[i].status = call[i].status, NoneUnprovided,
           NEW sent, NEW cancelled, sending' \subseteq sending \ sent,
           i \in sent => i \in sending, i \in cancelled => call[i].st = "sent"
    PROVE  Moves(i, sent, cancelled)
  <1>1. Unprovided(i)' => Unprovided(i)
    BY NotUnprovided
  <1>2. i \in sent => call[i].st \notin {"none", "queued"}
    BY DEF CauseInv
  <1> QED BY <1>1, <1>2 DEF Moves

\* an entry that leaves fn->pending or fn->parked
LEMMA EndMoves ==
    ASSUME NEW i \in Ids, call'[i].st \notin {"none", "queued", "sent"},
           call'[i].status = call[i].status \/ call'[i].status # "no_provider" \/ Unprovided(i) \/ call[i].st = "queued",
           \A r \in Held(rring') : r.id = i => r \in Held(rring) \/ r.status # "no_provider" \/ call[i].st = "queued",
           sending' \subseteq sending
    PROVE  Moves(i, {}, {})
  BY DEF Moves, Unprovided

\* what a reap makes of an entry
LEMMA EndedMoves ==
    ASSUME NEW c, Shaped(c), NEW s, NEW w, NEW park
    PROVE  /\ Ended(c, s, w, park).st \in {"captured", "parked", "done"}
           /\ Ended(c, s, w, park).status \in {c.status, s}
           /\ Ended(c, s, w, park).sync = c.sync
           /\ Ended(c, s, w, park).st = "parked" => CallerQueue /\ ~c.sync
           /\ Ended(c, s, w, park).st = "done" => ~c.sync /\ ~(park /\ CallerQueue)
  <1>1. CASE c.sync
    <2>1. Ended(c, s, w, park) = [st |-> "captured", dest |-> c.dest, sync |-> c.sync, running |-> c.running,
                                  status |-> s, work |-> w, fired |-> c.fired]
      BY <1>1 DEF Shaped, Ended
    <2> QED BY <1>1, <2>1
  <1>2. CASE ~c.sync /\ park /\ CallerQueue
    <2>1. Ended(c, s, w, park) = [st |-> "parked", dest |-> c.dest, sync |-> c.sync, running |-> c.running,
                                  status |-> c.status, work |-> c.work, fired |-> c.fired]
      BY <1>2 DEF Shaped, Ended
    <2>2. /\ Ended(c, s, w, park).st = "parked" /\ Ended(c, s, w, park).status = c.status
          /\ Ended(c, s, w, park).sync = c.sync
      BY <2>1
    <2> QED BY <1>2, <2>2
  <1>3. CASE ~c.sync /\ ~(park /\ CallerQueue)
    <2>1. Ended(c, s, w, park) = [st |-> "done", dest |-> c.dest, sync |-> c.sync, running |-> c.running,
                                  status |-> s, work |-> w, fired |-> c.fired + 1]
      BY <1>3 DEF Shaped, Ended
    <2>2. /\ Ended(c, s, w, park).st = "done" /\ Ended(c, s, w, park).status = s
          /\ Ended(c, s, w, park).sync = c.sync
      BY <2>1
    <2> QED BY <1>3, <2>2
  <1> QED BY <1>1, <1>2, <1>3

\* the progress callbacks that run, next to the entries
ProgressEntry(i) ==
    /\ call[i].st = "parked" => CallerQueue /\ ~call[i].sync
    /\ progressOut[i] > 0 /\ (call[i].sync \/ OnePoller \/ CallerQueue) => call[i].st \notin {"done", "refused"}

LEMMA ProgressByEntry ==
    ProgressInv <=> (CallerQueue /\ viewing = "none" => AllIn) /\ \A i \in Ids : ProgressEntry(i)
  BY DEF ProgressInv, ProgressEntry, ProgressWithinCall

LEMMA ProgressByEntryNext ==
    (CallerQueue /\ viewing' = "none" => AllIn') /\ (\A i \in Ids : ProgressEntry(i)') => ProgressInv'
  BY DEF ProgressInv, ProgressEntry, ProgressWithinCall

\* the step ends the calls S with the outcome s, and touches no other entry
Ends(S, s, w, park) == \A i \in Ids : call'[i] = IF i \in S THEN Ended(call[i], s, w, park) ELSE call[i]

\* the loop ends calls while no progress callback runs, unless several threads
\* drive it; elsewhere a call ends that has no progress callback out
LEMMA ReapKeeps ==
    ASSUME OutcomeInv, \A i \in Ids : CauseInv(i), ProgressInv,
           NEW S, \A i \in S : i \in Ids => call[i].st \in {"queued", "sent", "parked"},
           NEW s, NEW w, NEW park, sending' = sending,
           Ends(S, s, w, park),
           (park = TRUE /\ LoopFree) \/ (\A i \in S : progressOut[i] = 0), UNCHANGED <<viewing, progressOut>>,
           \A r \in Held(rring') : r \in Held(rring) \/ r.status # "no_provider" \/ call[r.id].st = "queued",
           s = "no_provider" => \A i \in S : call[i].st = "queued",
           NoneUnprovided \/ \A r \in Held(rring') : r \in Held(rring) \/ r.id \in S,
           Keeps({}, {})
    PROVE  (\A i \in Ids : CauseInv(i)') /\ ProgressInv'
  <1>1. ASSUME NEW i \in Ids PROVE CauseInv(i)' /\ ProgressEntry(i)'
    <2>1. ProgressEntry(i) /\ CauseInv(i) /\ Shaped(call[i])
      BY ProgressByEntry DEF OutcomeInv, EntryInv
    <2>2. CASE i \in S
      <3>1. call'[i] = Ended(call[i], s, w, park)
        BY <2>2 DEF Ends
      <3>2. /\ call'[i].st \in {"captured", "parked", "done"}
            /\ call'[i].status \in {call[i].status, s}
            /\ call'[i].sync = call[i].sync
            /\ call'[i].st = "parked" => CallerQueue /\ ~call[i].sync
            /\ call'[i].st = "done" => ~call[i].sync /\ ~(park /\ CallerQueue)
        BY <2>1, <3>1, EndedMoves
      <3>3. Moves(i, {}, {})
        BY <2>2, <3>2, EndMoves
      <3>4. CauseInv(i)'
        BY <2>1, <3>3, CauseKept
      <3>5. ProgressEntry(i)'
        BY <2>2, <3>2 DEF ProgressEntry, LoopFree, AllIn
      <3> QED BY <3>4, <3>5
    <2>3. CASE i \notin S
      <3>1. call'[i] = call[i]
        BY <2>3 DEF Ends
      <3>2. Unprovided(i)' => Unprovided(i)
        BY <2>3, <3>1 DEF NoneUnprovided, Unprovided
      <3>3. Moves(i, {}, {})
        BY <3>1, <3>2 DEF Moves
      <3>4. CauseInv(i)'
        BY <2>1, <3>3, CauseKept
      <3> QED BY <2>1, <3>1, <3>4 DEF ProgressEntry
    <2> QED BY <2>2, <2>3
  <1>2. CallerQueue /\ viewing' = "none" => AllIn'
    BY DEF ProgressInv, AllIn
  <1> QED BY <1>1, <1>2, ProgressByEntryNext

-----------------------------------------------------------------------------
(* The actions, again: TraceInv is kept. *)

LEMMA MakeCallTraced ==
    ASSUME TraceInv, NEW i \in Ids, NEW d, NEW sync, MakeCall(i, d, sync)
    PROVE  Typed' /\ (\A j \in Ids : CauseInv(j)') /\ ProgressInv'
  <1>1. PICK u, dest : /\ call' = [call EXCEPT ![i] = [NotMade EXCEPT !.st = IF u THEN "queued" ELSE "sent",
                                                                  !.dest = dest, !.sync = sync]]
                      /\ sending' = IF u THEN sending ELSE sending \cup {i}
    BY DEF MakeCall
  <1>2. UNCHANGED <<rring, pring, viewing, progressOut, netVars, work, defers, tokens, ran>>
    BY DEF MakeCall, providerVars
  <1>3. Keeps({}, {}) /\ Typed'
    BY <1>2, IdleKeeps DEF TraceInv, Keeps
  <1>4. call[i].st = "none"
    BY DEF MakeCall, NotMade
  <1>5. /\ call'[i].st = IF u THEN "queued" ELSE "sent"
        /\ call'[i].status = "none"
        /\ \A j \in Ids : j # i => call'[j] = call[j]
    <2>1. call'[i] = [NotMade EXCEPT !.st = IF u THEN "queued" ELSE "sent", !.dest = dest, !.sync = sync]
      BY <1>1 DEF TraceInv, OutcomeInv
    <2>2. call'[i].st = (IF u THEN "queued" ELSE "sent") /\ call'[i].status = "none"
      BY <2>1 DEF NotMade
    <2> QED BY <1>1, <2>2 DEF TraceInv, OutcomeInv
  <1>6. ASSUME NEW j \in Ids PROVE CauseInv(j)' /\ ProgressEntry(j)'
    <2>1. CauseInv(j) /\ ProgressEntry(j)
      BY ProgressByEntry DEF TraceInv
    <2>2. Unprovided(j)' => Unprovided(j)
      BY <1>2, <1>5 DEF Unprovided
    <2>3. Moves(j, {}, {})
      BY <1>1, <1>4, <1>5, <2>2 DEF Moves
    <2>4. ProgressEntry(j)'
      BY <1>2, <1>5, <2>1 DEF ProgressEntry
    <2> QED BY <1>3, <2>1, <2>3, <2>4, CauseKept
  <1>7. CallerQueue /\ viewing' = "none" => AllIn'
    BY <1>2 DEF TraceInv, ProgressInv, AllIn
  <1> QED BY <1>3, <1>6, <1>7, ProgressByEntryNext

\* a step that leaves the entries alone, or marks them RUNNING
LEMMA EntriesStay ==
    ASSUME TraceInv, \A j \in Ids : /\ call'[j].st = call[j].st /\ call'[j].status = call[j].status
                                    /\ call'[j].sync = call[j].sync,
           NEW sent, NEW cancelled, sending' \subseteq sending \ sent, sent \subseteq sending,
           \A j \in Ids \cap cancelled : call[j].st = "sent",
           Keeps(sent, cancelled), NoneUnprovided,
           CallerQueue /\ viewing' = "none" => AllIn',
           \A j \in Ids : progressOut'[j] > 0 => progressOut[j] > 0 \/ call[j].st \in {"queued", "sent", "parked"}
    PROVE  Typed' /\ (\A j \in Ids : CauseInv(j)') /\ ProgressInv'
  <1>1. ASSUME NEW j \in Ids PROVE CauseInv(j)' /\ ProgressEntry(j)'
    <2>1. CauseInv(j) /\ ProgressEntry(j)
      BY ProgressByEntry DEF TraceInv
    <2>2. Moves(j, sent, cancelled)
      BY <2>1, StayMoves
    <2>3. ProgressEntry(j)'
      BY <2>1 DEF ProgressEntry
    <2> QED BY <2>1, <2>2, <2>3, CauseKept
  <1> QED BY <1>1, ProgressByEntryNext DEF Keeps

LEMMA SendCallTraced ==
    ASSUME TraceInv, NEW i \in Ids, NEW e, SendCall(i, e)
    PROVE  Typed' /\ (\A j \in Ids : CauseInv(j)') /\ ProgressInv'
  <1>1. i \in sending /\ sending' = sending \ {i} /\ UNCHANGED <<call, viewing, progressOut>>
    BY DEF SendCall
  <1>2. Keeps({i}, {}) /\ NoneUnprovided
    BY SendCallTraces DEF TraceInv
  <1>3. CallerQueue /\ viewing' = "none" => AllIn'
    BY <1>1 DEF TraceInv, ProgressInv, AllIn
  <1> QED BY <1>1, <1>2, <1>3, EntriesStay

\* one entry ends, with no callback of it out, or with its caller still waiting
LEMMA OneEnds ==
    ASSUME TraceInv, NEW i \in Ids, \A j \in Ids : j # i => call'[j] = call[j], sending' \subseteq sending,
           call'[i].st \in {"captured", "done", "refused"},
           call'[i].status = call[i].status \/ call'[i].status # "no_provider" \/ Unprovided(i),
           NoneUnprovided, UNCHANGED progressOut, call'[i].st # "captured" => progressOut[i] = 0,
           viewing' = viewing \/ viewing' # "none", Keeps({}, {})
    PROVE  Typed' /\ (\A j \in Ids : CauseInv(j)') /\ ProgressInv'
  <1>1. ASSUME NEW j \in Ids PROVE CauseInv(j)' /\ ProgressEntry(j)'
    <2>1. CauseInv(j) /\ ProgressEntry(j)
      BY ProgressByEntry DEF TraceInv
    <2>2. Moves(j, {}, {})
      <3>1. Unprovided(j)' => Unprovided(j)
        BY NotUnprovided
      <3> QED BY <3>1 DEF Moves
    <2>3. ProgressEntry(j)'
      BY <2>1 DEF ProgressEntry
    <2> QED BY <2>1, <2>2, <2>3, CauseKept
  <1>2. CallerQueue /\ viewing' = "none" => AllIn'
    BY DEF TraceInv, ProgressInv, AllIn
  <1> QED BY <1>1, <1>2, ProgressByEntryNext DEF Keeps

\* a failed send takes back the entry of a call no provider heard of
LEMMA SendFailsTraced ==
    ASSUME TraceInv, NEW i \in Ids, SendFails(i)
    PROVE  Typed' /\ (\A j \in Ids : CauseInv(j)') /\ ProgressInv'
  <1>1. i \in sending /\ sending' = sending \ {i} /\ UNCHANGED <<rring, pring, viewing, progressOut, netVars, work, defers, tokens, ran>>
    BY DEF SendFails, providerVars
  <1>2. Keeps({}, {}) /\ NoneUnprovided
    BY <1>1, IdleKeeps DEF TraceInv, NoneUnprovided
  <1>3. progressOut[i] = 0
    BY <1>1 DEF TraceInv, CauseInv, Unheard, Told
  <1>4. EntryInv(i) /\ call = [j \in Ids |-> call[j]]
    BY DEF TraceInv, OutcomeInv
  <1>5. CASE call[i].sync
    <2>1. call' = [call EXCEPT ![i] = [call[i] EXCEPT !.st = "captured", !.status = "error"]]
      BY <1>5 DEF SendFails
    <2>2. call'[i] = [call[i] EXCEPT !.st = "captured", !.status = "error"] /\ \A j \in Ids : j # i => call'[j] = call[j]
      BY <1>4, <2>1
    <2>3. call'[i].st = "captured" /\ call'[i].status = "error"
      BY <1>4, <2>2 DEF EntryInv, Shaped
    <2> QED BY <1>1, <1>2, <2>2, <2>3, OneEnds
  <1>6. CASE ~call[i].sync /\ i \in Pending
    <2>1. call' = [call EXCEPT ![i] = [call[i] EXCEPT !.st = "refused"]]
      BY <1>6 DEF SendFails
    <2>2. call'[i] = [call[i] EXCEPT !.st = "refused"] /\ \A j \in Ids : j # i => call'[j] = call[j]
      BY <1>4, <2>1
    <2>3. call'[i].st = "refused" /\ call'[i].status = call[i].status
      BY <1>4, <2>2 DEF EntryInv, Shaped
    <2> QED BY <1>1, <1>2, <1>3, <2>2, <2>3, OneEnds
  <1>7. CASE ~call[i].sync /\ i \notin Pending
    <2>1. call' = call
      BY <1>4, <1>7 DEF SendFails
    <2>2. CallerQueue /\ viewing' = "none" => AllIn'
      BY <1>1 DEF TraceInv, ProgressInv, AllIn
    <2>3. sending' \subseteq sending \ {}
      BY <1>1
    <2> QED BY <1>1, <1>2, <2>1, <2>2, <2>3, EntriesStay
  <1> QED BY <1>5, <1>6, <1>7

LEMMA SyncTraced ==
    ASSUME TraceInv, NEW i \in Ids, SyncTimeout(i) \/ SyncReturn(i)
    PROVE  Typed' /\ (\A j \in Ids : CauseInv(j)') /\ ProgressInv'
  <1>1. sending' = sending /\ UNCHANGED <<rring, pring, viewing, progressOut, netVars, work, defers, tokens, ran>>
    BY DEF SyncTimeout, SyncReturn, providerVars
  <1>2. Keeps({}, {}) /\ NoneUnprovided
    BY <1>1, IdleKeeps DEF TraceInv, NoneUnprovided
  <1>3. EntryInv(i) /\ call = [j \in Ids |-> call[j]]
    BY DEF TraceInv, OutcomeInv
  <1>4. CASE SyncTimeout(i)
    <2>1. call' = [call EXCEPT ![i] = [call[i] EXCEPT !.st = "captured", !.status = "timeout"]]
      BY <1>4 DEF SyncTimeout
    <2>2. call'[i] = [call[i] EXCEPT !.st = "captured", !.status = "timeout"] /\ \A j \in Ids : j # i => call'[j] = call[j]
      BY <1>3, <2>1
    <2>3. call'[i].st = "captured" /\ call'[i].status = "timeout"
      BY <1>3, <2>2 DEF EntryInv, Shaped
    <2> QED BY <1>1, <1>2, <2>2, <2>3, OneEnds
  <1>5. CASE SyncReturn(i)
    <2>1. progressOut[i] = 0 /\ call' = [call EXCEPT ![i] = Returned(call[i])]
      BY <1>5 DEF SyncReturn
    <2>2. call'[i] = Returned(call[i]) /\ \A j \in Ids : j # i => call'[j] = call[j]
      BY <1>3, <2>1
    <2>3. call'[i].st \in {"done", "refused"} /\ call'[i].status = call[i].status
      <3>1. CASE call[i].status = "error"
        <4>1. call'[i] = [call[i] EXCEPT !.st = "refused"]
          BY <2>2, <3>1 DEF Returned
        <4> QED BY <1>3, <4>1 DEF EntryInv, Shaped
      <3>2. CASE call[i].status # "error"
        <4>1. call'[i] = [call[i] EXCEPT !.st = "done", !.fired = @ + 1]
          BY <2>2, <3>2 DEF Returned
        <4> QED BY <1>3, <4>1 DEF EntryInv, Shaped
      <3> QED BY <3>1, <3>2
    <2> QED BY <1>1, <1>2, <2>1, <2>2, <2>3, OneEnds
  <1> QED BY <1>4, <1>5

\* a call that is cancelled while it is queued was never heard of
LEMMA CancelTraced ==
    ASSUME TraceInv, NEW i \in Ids, NEW e, Cancel(i, e)
    PROVE  Typed' /\ (\A j \in Ids : CauseInv(j)') /\ ProgressInv'
  <1>1. sending' = sending /\ UNCHANGED <<viewing, progressOut>> /\ call[i].st \in {"queued", "sent"}
    BY DEF Cancel
  <1>2. Keeps({}, IF call[i].st = "sent" THEN {i} ELSE {}) /\ NoneUnprovided
    BY CancelTraces DEF TraceInv
  <1>3. CASE call[i].st = "queued"
    <2>1. Ends({i}, "cancelled", NoCall, TRUE)
      BY <1>3 DEF Cancel, Reaped, Ends
    <2>2. progressOut[i] = 0
      BY <1>3 DEF TraceInv, CauseInv, Unheard, Told
    <2>3. Keeps({}, {})
      BY <1>2, <1>3
    <2>4. /\ \A j \in {i} : j \in Ids => call[j].st \in {"queued", "sent", "parked"}
          /\ \A j \in {i} : progressOut[j] = 0
          /\ "cancelled" = "no_provider" => \A j \in {i} : call[j].st = "queued"
          /\ \A r \in Held(rring') : r \in Held(rring) \/ r.status # "no_provider" \/ call[r.id].st = "queued"
      BY <1>1, <1>2, <2>2 DEF NoneUnprovided
    <2>5. OutcomeInv /\ (\A j \in Ids : CauseInv(j)) /\ ProgressInv
      BY DEF TraceInv
    <2>6. (\A j \in Ids : CauseInv(j)') /\ ProgressInv'
      BY <1>1, <1>2, <2>1, <2>3, <2>4, <2>5, ReapKeeps
    <2> QED BY <2>3, <2>6 DEF Keeps
  <1>4. CASE call[i].st = "sent"
    <2>1. call' = call
      BY <1>4 DEF Cancel
    <2>2. Keeps({}, {i})
      BY <1>2, <1>4
    <2>3. CallerQueue /\ viewing' = "none" => AllIn'
      BY <1>1 DEF TraceInv, ProgressInv, AllIn
    <2>4. sending' \subseteq sending \ {} /\ {} \subseteq sending
      BY <1>1
    <2> QED BY <1>1, <1>2, <1>4, <2>1, <2>2, <2>3, <2>4, EntriesStay
  <1> QED BY <1>1, <1>3, <1>4

\* a refresh waits for every callback to return
LEMMA RefreshTraced ==
    ASSUME TraceInv, Refresh
    PROVE  Typed' /\ (\A j \in Ids : CauseInv(j)') /\ ProgressInv'
  <1> DEFINE S == Pending \cup {j \in Ids : call[j].st = "parked"}
  <1>1. sending' = sending /\ UNCHANGED <<rring, viewing, progressOut>> /\ AllIn
    BY DEF Refresh
  <1>2. Ends(S, "cancelled", NoCall, FALSE)
    BY DEF Refresh, Reaped, Ends
  <1>3. Keeps({}, {}) /\ NoneUnprovided
    BY RefreshTraces DEF TraceInv
  <1>4. /\ \A j \in S : j \in Ids => call[j].st \in {"queued", "sent", "parked"}
        /\ \A j \in S : progressOut[j] = 0
        /\ "cancelled" # "no_provider"
        /\ \A r \in Held(rring') : r \in Held(rring) \/ r.status # "no_provider" \/ call[r.id].st = "queued"
    BY <1>1 DEF Pending, AllIn
  <1>5. OutcomeInv /\ (\A j \in Ids : CauseInv(j)) /\ ProgressInv
    BY DEF TraceInv
  <1> HIDE DEF S
  <1>6. (\A j \in Ids : CauseInv(j)') /\ ProgressInv'
    BY <1>1, <1>2, <1>3, <1>4, <1>5, ReapKeeps
  <1> QED BY <1>3, <1>6 DEF Keeps

\* what the loop thread ends while no progress callback runs
LEMMA LoopEnds ==
    ASSUME TraceInv, NEW S, \A j \in S : j \in Ids => call[j].st \in {"queued", "sent"}, NEW s, NEW w,
           s # "no_provider", Ends(S, s, w, TRUE),
           sending' = sending, LoopFree, UNCHANGED <<viewing, progressOut>>, Keeps({}, {}), NoneUnprovided
    PROVE  Typed' /\ (\A j \in Ids : CauseInv(j)') /\ ProgressInv'
  <1>1. OutcomeInv /\ (\A j \in Ids : CauseInv(j)) /\ ProgressInv
    BY DEF TraceInv
  <1>2. \A j \in S : j \in Ids => call[j].st \in {"queued", "sent", "parked"}
    OBVIOUS
  <1>3. \A r \in Held(rring') : r \in Held(rring) \/ r.status # "no_provider" \/ call[r.id].st = "queued"
    BY DEF NoneUnprovided
  <1>4. (\A j \in Ids : CauseInv(j)') /\ ProgressInv'
    BY <1>1, <1>2, <1>3, ReapKeeps
  <1> QED BY <1>4 DEF Keeps

LEMMA FlushTraced ==
    ASSUME TraceInv, NEW ls, NEW live, call' = FlushedCall(ls, live), req' = FlushedReq(req, ls, live),
           UNCHANGED <<sending, rring, pring, viewing, progressOut, rsp, prg, work, defers, tokens, ran>>
    PROVE  Typed' /\ (\A j \in Ids : CauseInv(j)') /\ ProgressInv'
  <1>1. Keeps(Ready(ls), {}) /\ NoneUnprovided
    BY FlushTraces DEF TraceInv
  <1>2. ASSUME NEW j \in Ids PROVE CauseInv(j)' /\ ProgressEntry(j)'
    <2>1. CauseInv(j) /\ ProgressEntry(j) /\ Shaped(call[j])
      BY ProgressByEntry DEF TraceInv, OutcomeInv, EntryInv
    <2>2. CASE j \in Ready(ls)
      <3>1. call'[j] = [call[j] EXCEPT !.st = "sent", !.dest = FlushDest(j, live)]
        BY <2>2 DEF FlushedCall
      <3>2. call'[j].st = "sent" /\ call'[j].status = call[j].status
        BY <2>1, <3>1 DEF Shaped
      <3>3. call[j].st = "queued"
        BY <2>2 DEF Ready
      <3>4. Unprovided(j)' => Unprovided(j)
        BY <1>1, <3>2, NotUnprovided
      <3>5. Moves(j, Ready(ls), {})
        BY <2>1, <3>2, <3>3, <3>4 DEF Moves, CauseInv
      <3> QED BY <1>1, <2>1, <3>2, <3>5, CauseKept DEF ProgressEntry
    <2>3. CASE j \notin Ready(ls)
      <3>1. call'[j] = call[j]
        BY <2>3 DEF FlushedCall
      <3>2. Unprovided(j)' => Unprovided(j)
        BY <1>1, <3>1, NotUnprovided
      <3>3. Moves(j, Ready(ls), {})
        BY <2>3, <3>1, <3>2 DEF Moves
      <3> QED BY <1>1, <2>1, <3>1, <3>3, CauseKept DEF ProgressEntry
    <2> QED BY <2>2, <2>3
  <1>3. CallerQueue /\ viewing' = "none" => AllIn'
    BY DEF TraceInv, ProgressInv, AllIn
  <1> QED BY <1>1, <1>2, <1>3, ProgressByEntryNext DEF Keeps

LEMMA PeerTraced ==
    ASSUME TraceInv, NEW p, Match(p) \/ Sever(p) \/ PeerDrop(p) \/ PeerResume(p) \/ PeerGone(p)
    PROVE  Typed' /\ (\A j \in Ids : CauseInv(j)') /\ ProgressInv'
  <1>1. CASE Match(p)
    BY <1>1, FlushTraced DEF Match, providerVars
  <1>2. CASE Sever(p)
    <2> DEFINE S == {j \in Ids : call[j].st = "sent" /\ call[j].dest = p}
    <2>1. LoopFree /\ UNCHANGED <<sending, viewing, progressOut>>
      BY <1>2 DEF Sever
    <2>2. Ends(S, "cancelled", NoCall, TRUE)
      BY <1>2 DEF Sever, Reaped, Ends
    <2>3. \A j \in S : j \in Ids => call[j].st \in {"queued", "sent"}
      OBVIOUS
    <2>4. Keeps({}, {}) /\ NoneUnprovided
      BY <1>2, SeverTraces DEF TraceInv
    <2> HIDE DEF S
    <2> QED BY <2>1, <2>2, <2>3, <2>4, LoopEnds
  <1>3. CASE PeerDrop(p)
    <2>1. PICK live : LostTo(p, live)
      BY <1>3 DEF PeerDrop
    <2> DEFINE S == {j \in Pending : call[j].dest = p}
                       \cup (IF live = <<>> THEN {j \in Pending : call[j].st = "sent"} ELSE {})
    <2>2. LoopFree /\ UNCHANGED <<sending, viewing, progressOut>>
      BY <1>3 DEF PeerDrop
    <2>3. Ends(S, "peer_lost", NoCall, TRUE)
      BY <2>1 DEF LostTo, Reaped, Ends
    <2>4. \A j \in S : j \in Ids => call[j].st \in {"queued", "sent"}
      BY DEF Pending
    <2>5. Keeps({}, {}) /\ NoneUnprovided
      BY <1>3, PeerDropTraces DEF TraceInv
    <2> HIDE DEF S
    <2> QED BY <2>2, <2>3, <2>4, <2>5, LoopEnds
  <1>4. CASE PeerResume(p)
    BY <1>4, FlushTraced DEF PeerResume, providerVars
  <1>5. CASE PeerGone(p)
    <2>1. UNCHANGED <<call, sending, viewing, progressOut>>
      BY <1>5 DEF PeerGone
    <2>2. Keeps({}, {}) /\ NoneUnprovided
      BY <1>5, PeerGoneTraces DEF TraceInv
    <2>3. CallerQueue /\ viewing' = "none" => AllIn'
      BY <2>1 DEF TraceInv, ProgressInv, AllIn
    <2>4. sending' \subseteq sending \ {} /\ {} \subseteq sending
      BY <2>1
    <2> QED BY <2>1, <2>2, <2>3, <2>4, EntriesStay
  <1> QED BY <1>1, <1>2, <1>3, <1>4, <1>5

\* only a queued call expires with NO_PROVIDER: its request was never sent
LEMMA ExpireTraced ==
    ASSUME TraceInv, NEW i \in Ids, Expire(i)
    PROVE  Typed' /\ (\A j \in Ids : CauseInv(j)') /\ ProgressInv'
  <1> DEFINE s == IF call[i].st = "queued" THEN "no_provider" ELSE "timeout"
  <1>1. LoopFree /\ UNCHANGED <<sending, viewing, progressOut>> /\ call[i].st \in {"queued", "sent"}
    BY DEF Expire, Pending
  <1>2. Ends({i}, s, NoCall, TRUE)
    BY DEF Expire, Reaped, Ends
  <1>3. /\ Keeps({}, {})
        /\ \A r \in Held(rring') : r \in Held(rring) \/ (r.id = i /\ (r.status = "no_provider" => call[i].st = "queued"))
    BY ExpireTraces DEF TraceInv
  <1>4. /\ \A j \in {i} : j \in Ids => call[j].st \in {"queued", "sent", "parked"}
        /\ s = "no_provider" => \A j \in {i} : call[j].st = "queued"
        /\ \A r \in Held(rring') : r \in Held(rring) \/ r.status # "no_provider" \/ call[r.id].st = "queued"
        /\ \A r \in Held(rring') : r \in Held(rring) \/ r.id \in {i}
    BY <1>1, <1>3
  <1>5. OutcomeInv /\ (\A j \in Ids : CauseInv(j)) /\ ProgressInv
    BY DEF TraceInv
  <1> HIDE DEF s
  <1>6. (\A j \in Ids : CauseInv(j)') /\ ProgressInv'
    BY <1>1, <1>2, <1>3, <1>4, <1>5, ReapKeeps
  <1> QED BY <1>3, <1>6 DEF Keeps

\* RUNNING and progress mark an entry and change nothing else of it
LEMMA MarkedRunning ==
    ASSUME OutcomeInv, NEW i, NEW b, call' = [call EXCEPT ![i].running = b], NEW j \in Ids
    PROVE  call'[j].st = call[j].st /\ call'[j].status = call[j].status /\ call'[j].sync = call[j].sync
  <1>1. call' = [call EXCEPT ![i] = [call[i] EXCEPT !.running = b]] /\ call = [k \in Ids |-> call[k]] /\ Shaped(call[j])
    BY DEF OutcomeInv, EntryInv
  <1>2. CASE i = j
    <2>1. call'[j] = [call[j] EXCEPT !.running = b]
      BY <1>1, <1>2
    <2> QED BY <1>1, <2>1 DEF Shaped
  <1>3. CASE i # j
    BY <1>1, <1>3
  <1> QED BY <1>2, <1>3

LEMMA RunningTraced ==
    ASSUME TraceInv, NEW p \in Providers, RecvRunning(p) \/ RecvProgress(p)
    PROVE  Typed' /\ (\A j \in Ids : CauseInv(j)') /\ ProgressInv'
  <1>1. sending' = sending /\ viewing' = viewing
    BY DEF RecvRunning, RecvProgress
  <1>2. Keeps({}, {}) /\ NoneUnprovided
    BY RecvRunningTraces, RecvProgressTraces DEF TraceInv
  <1>3. \E i, b : /\ call' = [call EXCEPT ![i].running = b]
                  /\ progressOut' = progressOut
                     \/ (~CallerQueue /\ i \in Pending /\ progressOut' = [progressOut EXCEPT ![i] = @ + 1])
    <2>1. CASE RecvRunning(p)
      <3> DEFINE i == Head(rsp[p]).id
      <3>1. /\ call' = [call EXCEPT ![i].running = @ \/ i \in Pending]
            /\ progressOut' = progressOut
               \/ (~CallerQueue /\ i \in Pending /\ progressOut' = [progressOut EXCEPT ![i] = @ + 1])
        BY <2>1 DEF RecvRunning
      <3> HIDE DEF i
      <3> QED BY <3>1
    <2>2. CASE RecvProgress(p)
      <3> DEFINE i == Head(prg[p])
      <3>1. /\ call' = [call EXCEPT ![i].running = @ \/ i \in Pending]
            /\ progressOut' = progressOut
               \/ (~CallerQueue /\ i \in Pending /\ progressOut' = [progressOut EXCEPT ![i] = @ + 1])
        BY <2>2 DEF RecvProgress
      <3> HIDE DEF i
      <3> QED BY <3>1
    <2> QED BY <2>1, <2>2
  <1>4. PICK i, b : /\ call' = [call EXCEPT ![i].running = b]
                    /\ progressOut' = progressOut
                       \/ (~CallerQueue /\ i \in Pending /\ progressOut' = [progressOut EXCEPT ![i] = @ + 1])
    BY <1>3
  <1>5. \A j \in Ids : call'[j].st = call[j].st /\ call'[j].status = call[j].status /\ call'[j].sync = call[j].sync
    BY <1>4, MarkedRunning DEF TraceInv
  <1>6. CallerQueue /\ viewing' = "none" => AllIn'
    BY <1>1, <1>4 DEF TraceInv, ProgressInv, AllIn
  <1>7. \A j \in Ids : progressOut'[j] > 0 => progressOut[j] > 0 \/ call[j].st \in {"queued", "sent", "parked"}
    BY <1>4 DEF TraceInv, Typed, CallerTyped, Pending
  <1>8. sending' \subseteq sending \ {} /\ {} \subseteq sending
    BY <1>1
  <1> QED BY <1>2, <1>5, <1>6, <1>7, <1>8, EntriesStay

\* an answer ends a pending call of the status it carries, which no definition
\* gives as NO_PROVIDER
LEMMA AnswerTraced ==
    ASSUME TraceInv, NEW p \in Providers, RecvAnswer(p)
    PROVE  Typed' /\ (\A j \in Ids : CauseInv(j)') /\ ProgressInv'
  <1> DEFINE m == Head(rsp[p])
             S == {m.id} \cap Pending
  <1>1. LoopFree /\ UNCHANGED <<sending, viewing, progressOut>>
    BY DEF RecvAnswer, Delivers
  <1>2. Keeps({}, {}) /\ NoneUnprovided
    BY RecvAnswerTraces DEF TraceInv
  <1>3. m \in Replies
    BY AnswerHeads DEF TraceInv, RecvAnswer, Delivers
  <1>4. m.status # "no_provider"
    BY <1>3 DEF Replies
  <1>5. call = [j \in Ids |-> call[j]]
    BY DEF TraceInv, OutcomeInv
  <1>6. call' = IF m.id \in Pending THEN [call EXCEPT ![m.id] = Ended(call[m.id], m.status, m.work, TRUE)] ELSE call
    BY DEF RecvAnswer
  <1> HIDE DEF m
  <1>7. Ends(S, m.status, m.work, TRUE)
    BY <1>5, <1>6 DEF Ends
  <1>8. \A j \in S : j \in Ids => call[j].st \in {"queued", "sent"}
    BY DEF Pending
  <1> HIDE DEF S
  <1> QED BY <1>1, <1>2, <1>4, <1>7, <1>8, LoopEnds

LEMMA ProgressReturnsTraced ==
    ASSUME TraceInv, NEW i \in Ids, ProgressReturns(i)
    PROVE  Typed' /\ (\A j \in Ids : CauseInv(j)') /\ ProgressInv'
  <1>1. ~CallerQueue /\ progressOut' = [progressOut EXCEPT ![i] = @ - 1] /\ UNCHANGED <<call, sending>> /\ progressOut[i] > 0
    BY DEF ProgressReturns
  <1>2. Keeps({}, {}) /\ NoneUnprovided
    BY ProgressReturnsTraces DEF TraceInv
  <1>3. \A j \in Ids : progressOut'[j] > 0 => progressOut[j] > 0
    BY <1>1 DEF TraceInv, Typed, CallerTyped
  <1>4. sending' \subseteq sending \ {} /\ {} \subseteq sending
    BY <1>1
  <1> QED BY <1>1, <1>2, <1>3, <1>4, EntriesStay

\* a record finds its parked entry, or changes none
LEMMA OutcomeTraced ==
    ASSUME TraceInv, DispatchOutcome
    PROVE  Typed' /\ (\A j \in Ids : CauseInv(j)') /\ ProgressInv'
  <1> DEFINE r == Head(rring)
  <1>1. rring \in Seq(Records) /\ rring # <<>> /\ viewing = "none" /\ viewing' = "rsp" /\ UNCHANGED <<sending, rring, progressOut>>
    BY DEF DispatchOutcome, TraceInv, Typed, CallerTyped
  <1>2. r \in Records /\ r \in Held(rring)
    BY <1>1, HeldTail
  <1>3. Keeps({}, {}) /\ NoneUnprovided
    BY DispatchTraces DEF TraceInv
  <1>4. call' = IF call[r.id].st = "parked" THEN [call EXCEPT ![r.id] = HandedOver(call[r.id], r)] ELSE call
    BY DEF DispatchOutcome
  <1> DEFINE i == r.id
  <1>5. i \in Ids
    BY <1>2 DEF Records
  <1> HIDE DEF r
  <1>6. CASE call[i].st = "parked"
    <2>1. EntryInv(i) /\ call = [j \in Ids |-> call[j]] /\ CallerQueue
      BY <1>5, <1>6 DEF TraceInv, OutcomeInv, ProgressInv
    <2>2. progressOut[i] = 0
      BY <1>1, <1>5, <2>1 DEF TraceInv, ProgressInv, AllIn
    <2>3. call'[i] = [call[i] EXCEPT !.st = "done", !.status = r.status, !.work = r.work, !.fired = @ + 1]
      BY <1>4, <1>5, <1>6, <2>1 DEF HandedOver
    <2>4. call'[i].st = "done" /\ call'[i].status = r.status
      BY <2>1, <2>3 DEF EntryInv, Shaped
    <2>5. \A j \in Ids : j # i => call'[j] = call[j]
      BY <1>4, <1>6, <2>1
    <2>6. call'[i].status # "no_provider" \/ Unprovided(i)
      BY <1>2, <2>4 DEF Unprovided
    <2> HIDE DEF i
    <2> QED BY <1>1, <1>3, <1>5, <2>2, <2>4, <2>5, <2>6, OneEnds
  <1>7. CASE call[i].st # "parked"
    <2>1. call' = call /\ sending' \subseteq sending \ {} /\ {} \subseteq sending
      BY <1>1, <1>4, <1>7
    <2> QED BY <1>1, <1>3, <2>1, EntriesStay
  <1> QED BY <1>6, <1>7

LEMMA DispatchTraced ==
    ASSUME TraceInv, CallerDispatch
    PROVE  Typed' /\ (\A j \in Ids : CauseInv(j)') /\ ProgressInv'
  <1>1. CASE DispatchOutcome
    BY <1>1, OutcomeTraced
  <1>2. ASSUME NEW v \in {"rsp", "prg"}, DispatchProgress(v)
        PROVE  Typed' /\ (\A j \in Ids : CauseInv(j)') /\ ProgressInv'
    <2>1. UNCHANGED <<call, sending>> /\ viewing' = v
      BY <1>2 DEF DispatchProgress
    <2>2. Keeps({}, {}) /\ NoneUnprovided
      BY <1>2, DispatchTraces DEF TraceInv
    <2>3. \E i : progressOut' = IF call[i].st \in {"queued", "sent", "parked"} THEN [progressOut EXCEPT ![i] = 1] ELSE progressOut
      BY <1>2 DEF DispatchProgress
    <2>4. \A j \in Ids : progressOut'[j] > 0 => progressOut[j] > 0 \/ call[j].st \in {"queued", "sent", "parked"}
      BY <2>3 DEF TraceInv, Typed, CallerTyped
    <2>5. sending' \subseteq sending \ {} /\ {} \subseteq sending
      BY <2>1
    <2> QED BY <2>1, <2>2, <2>4, <2>5, EntriesStay
  <1>3. CASE DispatchDone
    <2>1. UNCHANGED <<call, sending>> /\ progressOut' = [i \in Ids |-> 0]
      BY <1>3 DEF DispatchDone
    <2>2. Keeps({}, {}) /\ NoneUnprovided
      BY <1>3, DispatchTraces DEF TraceInv
    <2>3. AllIn' /\ \A j \in Ids : ~(progressOut'[j] > 0)
      BY <2>1 DEF AllIn
    <2>4. sending' \subseteq sending \ {} /\ {} \subseteq sending
      BY <2>1
    <2> QED BY <2>1, <2>2, <2>3, <2>4, EntriesStay
  <1> QED BY <1>1, <1>2, <1>3 DEF CallerDispatch

LEMMA ProviderTraced ==
    ASSUME TraceInv, ProviderNext
    PROVE  Typed' /\ (\A j \in Ids : CauseInv(j)') /\ ProgressInv'
  <1>1. UNCHANGED callerVars
    BY DEF ProviderNext, RecvRequest, DispatchRequest, ParkRequest, RecvCancel, DispatchCancel,
           Complete, Progress, ProviderLeaves, ProviderReturns
  <1>2. UNCHANGED <<call, sending, viewing, progressOut>>
    BY <1>1 DEF callerVars
  <1>3. Keeps({}, {}) /\ NoneUnprovided
    BY ProviderTraces DEF TraceInv
  <1>4. CallerQueue /\ viewing' = "none" => AllIn'
    BY <1>2 DEF TraceInv, ProgressInv, AllIn
  <1>5. sending' \subseteq sending \ {} /\ {} \subseteq sending
    BY <1>2
  <1> QED BY <1>2, <1>3, <1>4, <1>5, EntriesStay

LEMMA IdleTraced ==
    ASSUME TraceInv, UNCHANGED vars
    PROVE  Typed' /\ (\A j \in Ids : CauseInv(j)') /\ ProgressInv'
  <1>1. UNCHANGED <<call, sending, rring, pring, viewing, progressOut, netVars, work, defers, tokens, ran>>
    BY DEF vars, callerVars, providerVars
  <1>2. Keeps({}, {}) /\ NoneUnprovided
    BY <1>1, IdleKeeps DEF TraceInv, NoneUnprovided
  <1>3. CallerQueue /\ viewing' = "none" => AllIn'
    BY <1>1 DEF TraceInv, ProgressInv, AllIn
  <1>4. sending' \subseteq sending \ {} /\ {} \subseteq sending
    BY <1>1
  <1> QED BY <1>1, <1>2, <1>3, <1>4, EntriesStay

-----------------------------------------------------------------------------
LEMMA TraceInit ==
    ASSUME Init
    PROVE  Typed /\ (\A j \in Ids : CauseInv(j)) /\ ProgressInv
  <1>1. <<>> \in Seq(Requests) /\ <<>> \in Seq(Replies) /\ <<>> \in Seq(Ids) /\ <<>> \in Seq(Records) /\ Held(<<>>) = {}
    BY HeldNone
  <1>2. NoDefer \in Deferred /\ NoDefer.id = NoCall
    BY DEF NoDefer, Deferred
  <1>3. Typed
    BY <1>1, <1>2 DEF Init, Typed, CallerTyped, NetTyped, ProviderTyped
  <1>4. NotMade.st = "none" /\ NotMade.status = "none"
    BY DEF NotMade
  <1>5. ASSUME NEW i \in Ids PROVE CauseInv(i)
    <2>1. call[i].st = "none" /\ ~Unprovided(i) /\ i \notin sending
      BY <1>1, <1>4 DEF Init, Unprovided
    <2>2. ~Told(i) /\ ran[i] = {}
      BY <1>1 DEF Init, Told
    <2>3. ASSUME NEW p \in Providers PROVE ~Has(p, i) /\ Held(req[p]) = {} /\ Held(work[p]) = {}
      <3>1. i # NoCall
        BY DEF Ids, NoCall
      <3>2. req[p] = <<>> /\ rsp[p] = <<>> /\ prg[p] = <<>> /\ work[p] = <<>> /\ tokens[p] = {} /\ \A c \in Cells : defers[p][c] = NoDefer
        BY DEF Init
      <3> QED BY <1>1, <1>2, <3>1, <3>2 DEF Has
    <2> QED BY <2>1, <2>2, <2>3 DEF CauseInv, Unheard, Unsent, NoRequest
  <1>6. ProgressInv
    BY <1>4 DEF Init, ProgressInv, AllIn, ProgressWithinCall
  <1> QED BY <1>3, <1>5, <1>6

\* What a provider could know of a call, and what runs of it at the caller,
\* follows the state of its entry.
THEOREM TraceInvariance == Spec => []TraceInv
  <1>1. Init => Typed /\ (\A j \in Ids : CauseInv(j)) /\ ProgressInv
    BY TraceInit
  <1>2. TraceInv /\ [Next]_vars => Typed' /\ (\A j \in Ids : CauseInv(j)') /\ ProgressInv'
    <2> SUFFICES ASSUME TraceInv, [Next]_vars PROVE Typed' /\ (\A j \in Ids : CauseInv(j)') /\ ProgressInv'
      OBVIOUS
    <2>1. CASE CallerApp
      BY <2>1, MakeCallTraced, SendCallTraced, SendFailsTraced, SyncTraced, CancelTraced, RefreshTraced DEF CallerApp
    <2>2. CASE CallerLoop
      BY <2>2, PeerTraced, ExpireTraced, RunningTraced, AnswerTraced, ProgressReturnsTraced DEF CallerLoop
    <2>3. CASE CallerDispatch
      BY <2>3, DispatchTraced
    <2>4. CASE ProviderNext
      BY <2>4, ProviderTraced
    <2>5. CASE UNCHANGED vars
      BY <2>5, IdleTraced
    <2> QED BY <2>1, <2>2, <2>3, <2>4, <2>5 DEF Next
  <1> DEFINE T == Typed /\ (\A j \in Ids : CauseInv(j)) /\ ProgressInv
  <1>3. Init => T
    BY <1>1
  <1>4. OutcomeInv /\ T /\ [Next]_vars => T'
    BY <1>2 DEF TraceInv
  <1>5. OutcomeInv /\ T => TraceInv
    BY DEF TraceInv
  <1> HIDE DEF T
  <1> QED BY <1>3, <1>4, <1>5, OutcomeInvariance, PTL DEF Spec

\* RANT_CALL_NO_PROVIDER says that no definition was found: whatever matched,
\* came and went, the request of such a call is in no channel and no queue, its
\* send is not under way and no handler ran it, so the caller may call again.
THEOREM NeverLeft == Spec => []NoProviderNeverRan
  <1>1. TraceInv => NoProviderNeverRan
    <2> SUFFICES ASSUME TraceInv, NEW i \in Ids, call[i].status = "no_provider"
                 PROVE  /\ ran[i] = {} /\ i \notin sending
                        /\ \A p \in Providers : /\ \A k \in DOMAIN req[p] : req[p][k].id # i
                                               /\ \A k \in DOMAIN work[p] : work[p][k].id # i
      BY DEF NoProviderNeverRan
    <2>1. Unsent(i)
      BY DEF TraceInv, CauseInv, Unprovided
    <2> QED BY <2>1 DEF Unsent, NoRequest, Held
  <1> QED BY <1>1, TraceInvariance, PTL

\* No progress callback of a blocking call is running once the call returned,
\* and where one thread drives the loop, or a queue is dispatched, none is once
\* any call ended: on_progress never uses the caller's progress_user too late.
THEOREM ProgressEndsFirst == Spec => []ProgressWithinCall
  <1>1. TraceInv => ProgressWithinCall
    BY DEF TraceInv, ProgressInv
  <1> QED BY <1>1, TraceInvariance, PTL

=============================================================================
