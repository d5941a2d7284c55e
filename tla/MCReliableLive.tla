--------------------------- MODULE MCReliableLive ---------------------------
(***************************************************************************)
(* ReliableTopic under fairness, on a network that loses a bounded number  *)
(* of datagrams: whatever those were, every reader catches up.             *)
(***************************************************************************)
EXTENDS ReliableTopic

CONSTANT MaxLosses     \* bound: datagrams lost

ASSUME MaxLossesAssumption == MaxLosses \in Nat

VARIABLE losses

LiveInit == Init /\ losses = 0

LiveNext ==
    \/ (WriterNext \/ ReaderNext) /\ UNCHANGED losses
    \/ losses < MaxLosses /\ losses' = losses + 1 /\ \E m \in net : Lose(m)

liveVars == <<vars, losses>>

\* What the service loop does by itself: the scheduler polls every woken lane
\* until it has nothing to emit, and its sweep wakes a lane whose heartbeat or
\* repair backstop is due.  Strong fairness makes up for HasRoom, which a full
\* network turns off and on.
ServiceFairness(p) ==
    /\ SF_liveVars(/\ UNCHANGED losses
                   /\ EmitRepair(p) \/ EmitFloor(p) \/ EmitHeartbeat(p) \/ \E a \in AskChoices : EmitPush(p, a))
    /\ SF_liveVars(/\ UNCHANGED losses
                   /\ Found(topic, Pruned(topic, p, writer[p]).sent)
                   /\ \E a \in AskChoices : EmitPush(p, a))
    /\ SF_liveVars(UNCHANGED losses /\ ReaderEmit(p, TRUE))

\* What the environment does: discovery matches both sides, a datagram that is
\* not lost arrives, a consumer that refused has room again at some time.
EnvironmentFairness(p) ==
    /\ WF_liveVars(UNCHANGED losses /\ (WriterMatch(p) \/ ReaderMatch(p)))
    /\ WF_liveVars(UNCHANGED losses /\ \E m \in net, acc \in Accepts : m.lane = p /\ RecvHb(m, acc))
    /\ WF_liveVars(UNCHANGED losses /\ \E m \in net, acc \in Accepts : m.lane = p /\ RecvData(m, TRUE, acc))
    /\ WF_liveVars(UNCHANGED losses /\ \E m \in net : m.lane = p /\ RecvNack(m))
    /\ WF_liveVars(UNCHANGED losses /\ \E acc \in Accepts : ReaderUnpark(p, acc))

LiveSpec ==
    /\ LiveInit /\ [][LiveNext]_liveVars
    /\ \A p \in Readers : ServiceFairness(p) /\ EnvironmentFairness(p)

\* Every reader that stays matched ends up with everything and the writer knows
\* it: whatever was lost, the tail of the last message included, is repaired by
\* heartbeat, backstop and re-push, a parked lane resumes, and the acked edge
\* reaches the head, which ends backpressure and drains the topic.
CatchesUp ==
    \A p \in Readers :
        []<>(/\ writer[p].used /\ reader[p].used
             /\ writer[p].acked = NextSeqno(topic)
             /\ \A k \in 1 .. Len(topic.smp) :
                   (reader[p].started /\ ~Foreign(topic.smp[k], p)) => topic.smp[k].base < reader[p].upto)

=============================================================================
