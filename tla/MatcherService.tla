--------------------------- MODULE MatcherService ---------------------------
(***************************************************************************)
(* The isolated matcher of the session: MatcherService of                  *)
(* packages/backend/src/service/matcher-service.ts, one worker process     *)
(* that serves one request at a time, and is killed and replaced when it   *)
(* does not answer.                                                        *)
(*                                                                         *)
(* worker, ready, killing and cleanup are the fields of the last           *)
(* WorkerSlot; it is this.slot until shutdown() takes it away.  One action *)
(* is the handler of one event with the microtasks behind it: when a       *)
(* request settles, the next in the queue is dispatched at once.           *)
(***************************************************************************)
EXTENDS Naturals, Sequences

CONSTANTS
    Callers,    \* those who call matchBatch, each one request at a time
    MaxQueue    \* the queue limit, 128 in the code

ASSUME QueueAssumption == MaxQueue \in Nat \ {0}

VARIABLES
    startPc,        \* startPromise: none, pending, ok or failed
    worker,         \* none, alive or dead (its "close" event has come)
    ready, killing,
    cleanup,        \* none, terminating, done or unconfirmed
    spawning,       \* who awaits spawnWorker(): none, start or replenish
    again,          \* killAndReplenish awaits the cleanup
    link,           \* a link of replenishChain awaits the one before it
    overlap,        \* history: a worker was replaced before it was gone
    queue,          \* the requests not settled; the head is dispatched
    phase,          \* of the head: none, waiting (for a worker) or flight
    call,           \* per caller: idle, queued or the outcome
    shutPc          \* shutdown(): none, waiting or done

slotVars == <<worker, ready, killing, cleanup, spawning, overlap>>
chainVars == <<again, link>>
callVars == <<queue, phase, call>>
vars == <<startPc, slotVars, chainVars, callVars, shutPc>>

TypeOK ==
    /\ startPc \in {"none", "pending", "ok", "failed"}
    /\ worker \in {"none", "alive", "dead"}
    /\ ready \in BOOLEAN /\ killing \in BOOLEAN
    /\ cleanup \in {"none", "terminating", "done", "unconfirmed"}
    /\ spawning \in {"none", "start", "replenish"}
    /\ again \in BOOLEAN /\ link \in BOOLEAN /\ overlap \in BOOLEAN
    /\ queue \in Seq(Callers)
    /\ phase \in {"none", "waiting", "flight"}
    /\ call \in [Callers -> {"idle", "queued", "result", "timeout", "error"}]
    /\ shutPc \in {"none", "waiting", "done"}

Init ==
    /\ startPc = "none" /\ worker = "none"
    /\ ready = FALSE /\ killing = FALSE /\ cleanup = "none" /\ spawning = "none"
    /\ again = FALSE /\ link = FALSE /\ overlap = FALSE
    /\ queue = << >> /\ phase = "none" /\ call = [c \in Callers |-> "idle"]
    /\ shutPc = "none"

shuttingDown == shutPc # "none"

\* What waitReadySlot and dispatch ask of this.slot.
Usable == worker = "alive" /\ ready /\ ~killing /\ ~shuttingDown

\* Frames of any other slot are dropped.
Hears == worker = "alive" /\ ~killing /\ ~shuttingDown

\* dispatch() of the first request of q.
Dispatched(q, usable) ==
    IF q = << >> THEN "none" ELSE IF usable THEN "flight" ELSE "waiting"

\* The head is settled and the next one dispatched.
Settle(outcome, usable) ==
    /\ call' = [call EXCEPT ![Head(queue)] = outcome]
    /\ queue' = Tail(queue)
    /\ phase' = Dispatched(Tail(queue), usable)

\* settleInFlight with an error, when the worker is lost.
FailInFlight ==
    IF phase = "flight" THEN Settle("error", FALSE) ELSE UNCHANGED callVars

-----------------------------------------------------------------------------
(* The worker. *)

\* previous: what has become of the worker in the slot.
SpawnWorker(who, previous) ==
    /\ worker' = "alive" /\ ready' = FALSE /\ killing' = FALSE /\ cleanup' = "none"
    /\ spawning' = who
    /\ overlap' = (overlap \/ previous = "alive")

Start ==
    /\ startPc = "none" /\ ~shuttingDown
    /\ startPc' = "pending"
    /\ SpawnWorker("start", worker)
    /\ UNCHANGED <<chainVars, callVars, shutPc>>

\* killSlot.
Kill ==
    /\ killing' = TRUE
    /\ cleanup' = IF cleanup = "none" THEN "terminating" ELSE cleanup

\* killAndReplenish, up to its await.
KillAndReplenish ==
    /\ Kill
    /\ again' = TRUE
    /\ UNCHANGED <<startPc, worker, ready, spawning, overlap, link, shutPc>>

\* The promise of spawnWorker() is settled.
StartSettled(outcome) == startPc' = IF spawning = "start" THEN outcome ELSE startPc

\* The "ready" frame; the request that waits gets the worker.
HandshakeSucceeds ==
    /\ Hears /\ ~ready
    /\ ready' = TRUE /\ spawning' = "none" /\ StartSettled("ok")
    /\ link' = FALSE
    /\ phase' = Dispatched(queue, TRUE)
    /\ UNCHANGED <<worker, killing, cleanup, overlap, again, queue, call, shutPc>>

\* The deadline, another frame than "ready", or the "error" event: the worker
\* is killed and not replaced.  A link that waited finds it in its slot.
HandshakeFails ==
    /\ spawning # "none"
    /\ spawning' = "none" /\ StartSettled("failed")
    /\ link' = FALSE
    /\ Kill
    /\ UNCHANGED <<worker, ready, overlap, again, callVars, shutPc>>

\* A frame that is no object or cannot be decoded, a result of the wrong shape.
BadFrame == Hears /\ FailInFlight /\ KillAndReplenish

-----------------------------------------------------------------------------
(* The "close" event. *)

ClosesUnready ==
    /\ worker = "alive" /\ ~ready
    /\ StartSettled("failed")
    /\ IF link /\ ~shuttingDown
       THEN SpawnWorker("replenish", "dead")
       ELSE worker' = "dead" /\ spawning' = "none" /\ UNCHANGED <<ready, killing, cleanup, overlap>>
    /\ link' = FALSE
    /\ UNCHANGED <<again, callVars, shutPc>>

ClosesKilled ==
    /\ worker = "alive" /\ ready /\ (killing \/ shuttingDown)
    /\ worker' = "dead"
    /\ UNCHANGED <<startPc, ready, killing, cleanup, spawning, overlap, chainVars, callVars, shutPc>>

\* The request in flight fails, and the next worker is spawned.
ClosesUnexpectedly ==
    /\ Usable
    /\ FailInFlight
    /\ SpawnWorker("replenish", "dead")
    /\ UNCHANGED <<startPc, chainVars, shutPc>>

-----------------------------------------------------------------------------
(* killAndReplenish, after its await. *)

\* replenish() has to wait for a link before it.
Linked == again /\ ~shuttingDown /\ spawning = "replenish"

Respawns == again /\ ~shuttingDown /\ spawning # "replenish" /\ worker = "dead"

\* terminate() and dispose() are over.  When the process was not seen to close
\* within the budget, replenish() finds it in the slot and spawns nothing.
CleanupEnds ==
    /\ cleanup = "terminating"
    /\ again' = FALSE
    /\ link' = (link \/ Linked)
    /\ IF Respawns
       THEN SpawnWorker("replenish", worker)
       ELSE /\ cleanup' = IF worker = "dead" THEN "done" ELSE "unconfirmed"
            /\ UNCHANGED <<worker, ready, killing, spawning, overlap>>
    /\ UNCHANGED <<startPc, callVars, shutPc>>

-----------------------------------------------------------------------------
(* matchBatch(), which the session calls once start() has resolved. *)

MatchBatch(c) ==
    /\ startPc = "ok" /\ call[c] # "queued"
    /\ ~shuttingDown /\ Len(queue) < MaxQueue
    /\ call' = [call EXCEPT ![c] = "queued"]
    /\ queue' = Append(queue, c)
    /\ phase' = IF phase = "none" THEN Dispatched(queue', Usable) ELSE phase
    /\ UNCHANGED <<startPc, slotVars, chainVars, shutPc>>

MatchRefused(c) ==
    /\ call[c] # "queued"
    /\ shuttingDown \/ Len(queue) = MaxQueue
    /\ call' = [call EXCEPT ![c] = "error"]
    /\ UNCHANGED <<startPc, slotVars, chainVars, queue, phase, shutPc>>

\* Mutant: only a worker that is on its way bounds the wait.
WaitDeadline_Spawning ==
    /\ phase = "waiting" /\ spawning # "none"
    /\ Settle("error", Usable)
    /\ UNCHANGED <<startPc, slotVars, chainVars, shutPc>>

\* The timer of waitReadySlot.
WaitDeadline ==
    /\ phase = "waiting"
    /\ Settle("error", Usable)
    /\ UNCHANGED <<startPc, slotVars, chainVars, shutPc>>

\* Mutant: the worker is killed and nobody asks for another.
MatchDeadline_KillsOnly ==
    /\ phase = "flight"
    /\ Settle("timeout", FALSE)
    /\ Kill
    /\ UNCHANGED <<startPc, worker, ready, spawning, overlap, chainVars, shutPc>>

\* The worker hangs in the rule.
MatchDeadline == phase = "flight" /\ Settle("timeout", FALSE) /\ KillAndReplenish

WriteFails == phase = "flight" /\ Settle("error", FALSE) /\ KillAndReplenish

\* A "result" or "error" frame for the request in flight; any other id is ignored.
Answered ==
    /\ phase = "flight" /\ Usable
    /\ \E outcome \in {"result", "error"} : Settle(outcome, TRUE)
    /\ UNCHANGED <<startPc, slotVars, chainVars, shutPc>>

-----------------------------------------------------------------------------
Queued == {c \in Callers : call[c] = "queued"}

\* Requests behind the head are dispatched and rejected at once.
Shutdown ==
    /\ ~shuttingDown
    /\ shutPc' = "waiting"
    /\ call' = [c \in Callers |-> IF c \in Queued THEN "error" ELSE call[c]]
    /\ queue' = << >> /\ phase' = "none"
    /\ IF worker = "none" THEN UNCHANGED <<killing, cleanup>> ELSE Kill
    /\ UNCHANGED <<startPc, worker, ready, spawning, overlap, chainVars>>

\* killSlot, replenishChain and the queue are awaited.
ShutdownDone ==
    /\ shutPc = "waiting"
    /\ worker # "none" => cleanup \in {"done", "unconfirmed"}
    /\ spawning # "replenish"
    /\ shutPc' = "done"
    /\ UNCHANGED <<startPc, slotVars, chainVars, callVars>>

WorkerStep ==
    \/ HandshakeSucceeds \/ HandshakeFails \/ BadFrame
    \/ ClosesUnready \/ ClosesKilled \/ ClosesUnexpectedly \/ CleanupEnds

CallStep == WaitDeadline \/ MatchDeadline \/ WriteFails \/ Answered

Next ==
    \/ Start \/ Shutdown \/ ShutdownDone
    \/ WorkerStep \/ CallStep
    \/ \E c \in Callers : MatchBatch(c) \/ MatchRefused(c)

Spec == Init /\ [][Next]_vars

\* Timers fire and terminate() reports within its budget; the worker owes nothing.
Fairness ==
    /\ WF_vars(HandshakeFails) /\ WF_vars(CleanupEnds)
    /\ WF_vars(WaitDeadline) /\ WF_vars(MatchDeadline)
    /\ WF_vars(ShutdownDone)

FairSpec == Spec /\ Fairness

-----------------------------------------------------------------------------
(* Properties. *)

\* replenish(): no worker is spawned while the one in the slot is not gone.
OneWorker == ~overlap

\* However a worker that was ready goes, its replacement is on its way, unless
\* its end could not be confirmed.
ReadyWorkerReplaced ==
    ready /\ (killing \/ worker = "dead") /\ ~shuttingDown =>
        again \/ cleanup = "unconfirmed"

\* There is one worker at a time, and one after the other.
WorkerKept == OneWorker /\ ReadyWorkerReplaced

\* waitReadySlot: queued requests wait for the replacement to be complete
\* instead of failing.  It does not hold: nobody tries again when a replacement
\* fails its handshake, and every later request waits for nothing.
WaitsForReplacement == queue # << >> /\ worker = "dead" => again

answerOf(c) ==
    IF call[c] = "idle" THEN "none" ELSE IF call[c] = "queued" THEN "asked"
    ELSE IF call[c] = "result" THEN "result" ELSE "error"

Service == INSTANCE CallService WITH
    Requests <- Callers,
    answer <- [c \in Callers |-> answerOf(c)],
    service <- IF shutPc = "none" THEN "open" ELSE IF shutPc = "waiting" THEN "closing"
               ELSE "closed"

\* One answer per accepted request and no result once closed.
ServiceSafety == Service!Safety

\* The same, and every accepted request is answered.
ServiceSpec == Service!Spec
=============================================================================
