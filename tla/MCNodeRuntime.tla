---------------------------- MODULE MCNodeRuntime ----------------------------
(* Instances of NodeRuntime for TLC: the programs the threads run. *)
EXTENDS NodeRuntime

CONSTANTS t1, t2, A, B

Do(op)             == [op |-> op]
Dispatching(wait)  == [op |-> "dispatch", wait |-> wait]
Taking(p, latest, wait)  == [op |-> "take", topic |-> p, latest |-> latest, wait |-> wait]
Retire(p)          == [op |-> "retire", topic |-> p]
Force(v)           == [op |-> "force", value |-> v]
Set(v)             == [op |-> "set", value |-> v]

\* Topics A and B with the samples that come to them, programs of t1 and t2.
Run(ka, na, kb, nb, p1, p2) ==
    [kind |-> (A :> ka @@ B :> kb), reliable |-> (A :> TRUE @@ B :> FALSE),
     need |-> (A :> na @@ B :> nb), cap |-> 4, limit |-> 8,
     prog |-> (t1 :> p1 @@ t2 :> p2),
     body |-> [k \in {"inline", "queue", "set", "var"} |-> <<>>], started |-> TRUE]
Body(s, k, call) == [s EXCEPT !.body[k] = <<call>>]

\* Inline callbacks that send, beside a sender that waits and an application
\* that creates topics, stops and closes.
Inline == Body(Run("inline", <<2, 2>>, "pull", <<>>, <<Do("send"), Do("drain")>>,
                   <<Do("create"), Do("stop"), Do("close")>>), "inline", Do("send"))
\* Two queues in one group, one reliable and one not, dispatched while the
\* service thread fills them and a topic is retired.
Queues == Run("queue", <<2, 3, 2>>, "queue", <<4, 3>>,
              <<Dispatching(FALSE), Dispatching(FALSE)>>, <<Dispatching(FALSE), Retire(A), Do("close")>>)
\* Pull topics that wrap, park, grow and evict.
Pull == Run("pull", <<2, 3, 2, 5, 3, 2, 2>>, "pull", <<>>,
            <<Taking(A, FALSE, TRUE), Taking(A, FALSE, FALSE), Taking(A, FALSE, TRUE),
              Taking(A, FALSE, FALSE), Taking(A, FALSE, FALSE)>>, <<Set(11), Force(12)>>)
Evict == Run("pull", <<>>, "pull", <<3, 3, 4, 2, 2, 5, 2>>,
            <<Taking(B, FALSE, FALSE), Taking(B, FALSE, FALSE), Taking(B, FALSE, FALSE),
              Taking(B, FALSE, FALSE)>>, <<>>)
PullLatest == Run("pull", <<2, 3, 2, 3, 3>>, "pull", <<3, 2>>,
              <<Taking(A, TRUE, TRUE), Taking(A, TRUE, FALSE), Taking(A, FALSE, FALSE)>>,
              <<Taking(B, TRUE, FALSE), Do("stop")>>)
\* A variable written from the mesh, forced by two threads.
Var    == Run("set", <<2, 2>>, "pull", <<>>, <<Force(11), Do("create")>>, <<Force(12), Do("stop")>>)
\* One thread polls, dispatches, and polls from a dispatched callback.
Manual == Body([Run("queue", <<2, 3, 4>>, "inline", <<2, 2>>,
                <<Do("poll"), Dispatching(TRUE), Dispatching(FALSE), Do("send"), Do("drain"), Do("send")>>, <<>>)
                EXCEPT !.started = FALSE], "queue", Do("poll"))
\* Two threads stop.
Stops  == Run("inline", <<2>>, "pull", <<>>, <<Do("stop"), Do("close")>>, <<Do("stop"), Dispatching(FALSE)>>)
\* A waiting dispatch drives the loop once the service thread is stopped; it is
\* started again later.
Restart == Run("queue", <<2, 2>>, "inline", <<2>>, <<Do("stop")>>, <<Do("poll"), Dispatching(TRUE), Do("start")>>)

MCSetups == {Inline, Queues, Pull, Evict, PullLatest, Var, Manual, Stops, Restart}

\* Two threads drive the loop: one polls while the other waits for a queue.
TwoLoops == [Run("queue", <<2>>, "inline", <<2>>, <<Do("poll")>>, <<Dispatching(TRUE)>>) EXCEPT !.started = FALSE]
\* Two threads dispatch one group, both waiting for it to fill.
TwoDispatch == Run("queue", <<2>>, "pull", <<>>, <<Dispatching(TRUE)>>, <<Dispatching(TRUE)>>)
\* A local write while an inline callback is out on the service thread.
Stamp == Run("inline", <<2>>, "pull", <<>>, <<Set(11)>>, <<>>)
\* A local write while the variable's observer is out on the service thread.
Store == Run("set", <<2>>, "pull", <<>>, <<Set(11)>>, <<>>)
\* An inline callback closes the node.
CloseInside == Body(Run("inline", <<2>>, "pull", <<>>, <<>>, <<>>), "inline", Do("close"))
\* A thread starts the service again while another waits in stop.
StopStart == Run("inline", <<>>, "pull", <<>>, <<Do("stop"), Do("start")>>, <<Do("stop")>>)
MCTwoLoops == {TwoLoops}
MCTwoDispatch == {TwoDispatch}
MCStamp == {Stamp}
MCStore == {Store}
MCCloseInside == {CloseInside}
MCStopStart == {StopStart}
=============================================================================
