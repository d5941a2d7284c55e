-------------------------- MODULE MCReliableModes ---------------------------
(***************************************************************************)
(* The transport in settings that no single one allows.  In one mode the   *)
(* lanes of several topics and peers take turns (Scheduler); in four it is *)
(* one reliable topic, whose lane is always found when it has work.  In    *)
(* mode "shared" (the constants of the configuration) big messages go      *)
(* through shared memory and a send waits out its backpressure; in         *)
(* mode "restart" readers restart, either side takes the other for dormant *)
(* or forgets it, and a send may evict what is still owed; in mode         *)
(* "addressed" the samples go to one peer, to all or to nobody; in mode    *)
(* "late" the first-match window opens and closes around the match and the *)
(* network duplicates.                                                     *)
(***************************************************************************)
EXTENDS SharedTopic

VARIABLES
    mode,                          \* chosen once, by the initial state
    sch, used, dormant, now, left  \* the scheduler's

schedVars == <<sch, used, dormant, now, left>>

Sched ==
    INSTANCE Scheduler
        WITH Dests <- {1, 2}, Topics <- {1, 2}, Reliable <- {1}, FirstPool <- 1, MaxPool <- 4, Depth <- 1,
             Room <- 2, SweepTime <- 2, HbTime <- 2, TailTime <- 1, AckTime <- 1, RepairTime <- 1, RateTime <- 1,
             MaxTime <- 3, MaxEvents <- 3

Restart ==
    INSTANCE ReliableTopic
        WITH KeepLast <- 1, CatchUp <- 1, FragCounts <- {1}, Patient <- FALSE, Accepts <- {2},
             AskChoices <- {FALSE}, Sleeps <- TRUE, WriterForgets <- TRUE,
             MaxSamples <- 2, MaxEpoch <- 2, MaxData <- 2

Addressed ==
    INSTANCE ReliableTopic
        WITH Directed <- TRUE, Dests <- Readers \cup {DestAll, DestNone}, KeepLast <- 2, CatchUp <- 0,
             FragCounts <- {1}, Patient <- TRUE, Accepts <- {2}, MemChoices <- {TRUE}, AskChoices <- {FALSE},
             Sleeps <- FALSE, WriterForgets <- FALSE, MaxSamples <- 3, MaxEpoch <- 1, MaxData <- 2

Late ==
    INSTANCE ReliableTopic
        WITH KeepLast <- 2, CatchUp <- 0, FragCounts <- {1}, Patient <- TRUE, Accepts <- {2},
             MemChoices <- {TRUE}, Duplicates <- TRUE, FreshWindow <- TRUE, Sleeps <- FALSE, WriterForgets <- FALSE,
             MaxSamples <- 2, MaxEpoch <- 1, MaxData <- 2

ModesInit == SharedInit /\ Sched!SchInit /\ mode \in {"shared", "restart", "addressed", "late", "lanes"}

ModesNext ==
    /\ UNCHANGED mode
    /\ \/ mode = "shared" /\ SharedNext /\ UNCHANGED schedVars
       \/ mode = "restart" /\ Restart!Next /\ UNCHANGED <<shmVars, schedVars>>
       \/ mode = "addressed" /\ Addressed!Next /\ UNCHANGED <<shmVars, schedVars>>
       \/ mode = "late" /\ Late!Next /\ UNCHANGED <<shmVars, schedVars>>
       \/ mode = "lanes" /\ Sched!SchNext /\ UNCHANGED allVars

ModesSpec == ModesInit /\ [][ModesNext]_<<allVars, schedVars, mode>>

\* With no send outlasting its wait a reader gets every sample from its start on
\* that is addressed to it or to all, and no other: neither a duplicate nor the
\* replay of the first-match window makes it skip one, nor does the step over
\* the others' samples.
PatientDelivers ==
    /\ mode = "addressed" => Addressed!OnlyOwnSamples /\ Addressed!AllDelivered
    /\ mode = "late" => AllDelivered

\* The acked edge stays honest when a reader restarts under a surviving lane,
\* when a lane restarts under a surviving reader, and when a sample is parked or
\* skipped as a descriptor: nothing counts as acked that was not received or
\* reported, and nothing is passed over in silence.
HonestEdge == mode # "addressed" => AckedIsReceived /\ NoSilentLoss

\* No lane is forgotten by the scheduler and none is sent to another's peer: the
\* lists, the pool they share their links with, and the timers.
NothingForgotten == mode = "lanes" => Sched!NothingForgotten

=============================================================================
