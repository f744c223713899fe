------------------------------ MODULE LogSink ------------------------------
(***************************************************************************)
(* log-sink.ts and log-spool.ts: every session writes its log through a    *)
(* worker process (log-sink-worker.ts).  Lines go to a spool file first;   *)
(* one batch at a time is taken from it and sent, and the file is emptied  *)
(* only when the worker has confirmed all of it.                           *)
(***************************************************************************)
EXTENDS Naturals, Sequences, Functions

CONSTANTS MaxRecords, \* bound on the lines logged
          BatchSize   \* records of one batch (64 in the code)

ASSUME SinkAssumption == MaxRecords \in Nat /\ BatchSize \in Nat \ {0}

VARIABLES
    logged,     \* lines the sink has taken
    spool,      \* none, open, removed or retained
    file,       \* the lines of the spool file, a line being its number
    consumed,   \* how many of them were taken
    written,    \* history: the lines the worker has written
    confirmed,  \* history: the lines the worker has confirmed
    pump,       \* off, waiting (for ready or its turn) or sent
    initDone,   \* ready has settled
    sinkFailed, \* failure # null
    sinkWorker, \* up or exited
    shutdown    \* none, draining, asked, reaping, resolved or rejected

sinkVars == <<logged, spool, file, consumed, written, confirmed, pump, initDone, sinkFailed,
              sinkWorker, shutdown>>

SinkTypeOK ==
    /\ logged \in 0..MaxRecords
    /\ spool \in {"none", "open", "removed", "retained"}
    /\ consumed \in 0..Len(file)
    /\ written \subseteq 1..logged /\ confirmed \subseteq written
    /\ pump \in {"off", "waiting", "sent"}
    /\ sinkWorker \in {"up", "exited"}
    /\ shutdown \in {"none", "draining", "asked", "reaping", "resolved", "rejected"}

SinkInit ==
    /\ logged = 0 /\ spool = "none" /\ file = <<>> /\ consumed = 0
    /\ written = {} /\ confirmed = {}
    /\ pump = "off" /\ initDone = FALSE /\ sinkFailed = FALSE
    /\ sinkWorker = "up" /\ shutdown = "none"

\* append: nothing is taken once the sink stops or has failed.
SinkAppends ==
    /\ logged < MaxRecords
    /\ shutdown = "none" /\ ~sinkFailed
    /\ logged' = logged + 1
    /\ spool' = "open"
    /\ file' = Append(file, logged + 1)
    /\ pump' = IF pump = "off" THEN "waiting" ELSE pump
    /\ UNCHANGED <<consumed, written, confirmed, initDone, sinkFailed, sinkWorker, shutdown>>

InitReplies ==
    /\ ~initDone /\ ~sinkFailed /\ sinkWorker = "up"
    /\ initDone' = TRUE
    /\ UNCHANGED <<logged, spool, file, consumed, written, confirmed, pump, sinkFailed,
                   sinkWorker, shutdown>>

\* takeBatch, and the request of the worker.
TakeBatch ==
    /\ pump = "waiting" /\ initDone /\ ~sinkFailed
    /\ consumed < Len(file)
    /\ consumed' = IF consumed + BatchSize < Len(file) THEN consumed + BatchSize ELSE Len(file)
    /\ pump' = "sent"
    /\ UNCHANGED <<logged, spool, file, written, confirmed, initDone, sinkFailed, sinkWorker,
                   shutdown>>

Taken == {file[i] : i \in 1..consumed}

WorkerWrites ==
    /\ pump = "sent" /\ sinkWorker = "up"
    /\ written' = written \cup Taken
    /\ UNCHANGED <<logged, spool, file, consumed, confirmed, pump, initDone, sinkFailed,
                   sinkWorker, shutdown>>

\* Mutant: the file is emptied with every answer.
Reclaimed_Always == TRUE

\* resetIfEmpty: lines may have come while the batch was under way.
Reclaimed == consumed = Len(file)

BatchReplies ==
    /\ pump = "sent" /\ Taken \subseteq written /\ ~sinkFailed
    /\ confirmed' = confirmed \cup Taken
    /\ IF Reclaimed THEN file' = <<>> /\ consumed' = 0 /\ pump' = "off"
       ELSE pump' = "waiting" /\ UNCHANGED <<file, consumed>>
    /\ UNCHANGED <<logged, spool, written, initDone, sinkFailed, sinkWorker, shutdown>>

\* fail: an error reply, a bad frame, a deadline of 5 s, a failed write to the
\* spool, or the exit of the worker while it is needed.  The batch under way is
\* rejected and the worker is killed.
SinkFails ==
    /\ ~sinkFailed
    /\ shutdown \notin {"resolved", "rejected"}
    /\ sinkFailed' = TRUE
    /\ pump' = "off" /\ initDone' = TRUE
    /\ UNCHANGED <<logged, spool, file, consumed, written, confirmed, sinkWorker, shutdown>>

WorkerExits ==
    /\ sinkWorker = "up"
    /\ sinkFailed \/ shutdown = "reaping"
    /\ sinkWorker' = "exited"
    /\ UNCHANGED <<logged, spool, file, consumed, written, confirmed, pump, initDone,
                   sinkFailed, shutdown>>

ShutdownBegins ==
    /\ shutdown = "none"
    /\ shutdown' = "draining"
    /\ UNCHANGED <<logged, spool, file, consumed, written, confirmed, pump, initDone,
                   sinkFailed, sinkWorker>>

\* Once ready has settled and the pump is off, the worker is asked to flush and
\* exit; a sink that has failed only waits for its exit.
ShutdownAsks ==
    /\ shutdown = "draining" /\ initDone /\ pump = "off"
    /\ shutdown' = IF sinkFailed THEN "reaping" ELSE "asked"
    /\ UNCHANGED <<logged, spool, file, consumed, written, confirmed, pump, initDone,
                   sinkFailed, sinkWorker>>

ShutdownReplies ==
    /\ shutdown = "asked"
    /\ shutdown' = "reaping"
    /\ UNCHANGED <<logged, spool, file, consumed, written, confirmed, pump, initDone,
                   sinkFailed, sinkWorker>>

\* The worker is gone, or has not been confirmed gone after 2 s.  close keeps
\* the spool of a sink that has failed.
ShutdownEnds ==
    /\ shutdown = "reaping"
    /\ \E unconfirmed \in BOOLEAN :
          /\ unconfirmed \/ sinkWorker = "exited"
          /\ LET failed == sinkFailed \/ unconfirmed
             IN /\ sinkFailed' = failed
                /\ shutdown' = IF failed THEN "rejected" ELSE "resolved"
                /\ spool' = IF spool = "none" THEN "none"
                            ELSE IF failed THEN "retained" ELSE "removed"
    /\ UNCHANGED <<logged, file, consumed, written, confirmed, pump, initDone, sinkWorker>>

SinkNext ==
    \/ SinkAppends \/ InitReplies \/ TakeBatch \/ WorkerWrites \/ BatchReplies
    \/ SinkFails \/ WorkerExits
    \/ ShutdownBegins \/ ShutdownAsks \/ ShutdownReplies \/ ShutdownEnds

SinkSpec == SinkInit /\ [][SinkNext]_sinkVars

-----------------------------------------------------------------------------
\* Properties.

\* A line the sink has taken is confirmed by the worker or still in the spool
\* file, and the file goes only when every line is confirmed
\* (log-spool.ts:74, log-sink.ts:210).
NoLineLost ==
    LET open == {n \in 1..logged : n \notin confirmed}
    IN open # {} => spool \in {"open", "retained"} /\ open \subseteq Range(file)
=============================================================================
