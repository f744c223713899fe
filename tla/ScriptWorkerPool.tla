------------------------- MODULE ScriptWorkerPool --------------------------
(***************************************************************************)
(* The supervised pool of script workers (packages/guardian/src/           *)
(* script-worker.ts) with the part of BackendRpcApp and of the UI store    *)
(* that follows its dialogs.                                               *)
(*                                                                         *)
(* Workers names the places of the pool.  A worker that dies as a member   *)
(* is replaced in its own place, so a place holds one child process after  *)
(* another; a place whose worker is not replaced stays empty.  One action  *)
(* is the handler of one event: a frame, a timer, the exit of a child, a   *)
(* call.  Deadlines are events that may come at any time.  The code inside *)
(* a worker is nondeterminism: it may answer, fault, write rubbish, ask    *)
(* for a dialog, hang or exit.                                             *)
(***************************************************************************)
EXTENDS Naturals, FiniteSets

CONSTANTS
    Workers,        \* places of the pool: size
    Invocations,    \* callers of invoke(); each makes one call after another
    Tokens,         \* dialogs that may be open at once
    None

ASSUME NoneAssumption == None \notin Workers
ASSUME SizeAssumption == Workers # {} /\ IsFiniteSet(Workers)

VARIABLES
    slot,           \* per place: gone, starting (no handshake yet) or ready
    killing, discarded,   \* flags of the WorkerSlot in a place
    starting,       \* places whose spawnWorker() promise is open
    initial,        \* those of them that start() waits for
    startPc,        \* start(): none, spawning, up or failing
    shutPc,         \* shutdown(): none, waiting or done
    closing,        \* the children whose close shutdown() awaits
    call,           \* per caller: suspension point or outcome
    at,             \* the worker of a pending invocation
    expired,        \* callers whose deadline passed while they waited
    owner,          \* per token: the worker that holds its callbacks
    registered,     \* the pool's pendingDialogs
    app,            \* BackendRpcApp.pendingDialogs
    shown,          \* the dialogs the UI shows
    told,           \* history: dialogs declared invalid
    mail,           \* the dialog_respond on its way to the worker
    sweeper         \* the TTL interval is running

slotVars == <<slot, killing, discarded>>
spawnVars == <<starting, initial, startPc>>
shutVars == <<shutPc, closing>>
callVars == <<call, at, expired>>
dialogVars == <<owner, registered, app, shown, told, mail, sweeper>>
vars == <<slotVars, spawnVars, shutVars, callVars, dialogVars>>

ErrorCodes == {"WORKER_TIMEOUT", "WORKER_EXIT", "WORKER_FAULT",
               "NO_WORKER_AVAILABLE", "POOL_SHUTDOWN"}
Outcomes == ErrorCodes \cup {"result"}
CallStates == Outcomes \cup {"idle", "parked", "woken", "pending"}

ValuesOK ==
    /\ slot \in [Workers -> {"gone", "starting", "ready"}]
    /\ killing \in SUBSET Workers /\ discarded \in SUBSET Workers
    /\ starting \in SUBSET Workers /\ initial \in SUBSET Workers
    /\ startPc \in {"none", "spawning", "up", "failing"}
    /\ shutPc \in {"none", "waiting", "done"} /\ closing \in SUBSET Workers
    /\ call \in [Invocations -> CallStates]
    /\ at \in [Invocations -> Workers \cup {None}]
    /\ expired \in SUBSET Invocations
    /\ owner \in [Tokens -> Workers \cup {None}]
    /\ registered \in SUBSET Tokens /\ app \in SUBSET Tokens
    /\ shown \in SUBSET Tokens /\ told \in SUBSET Tokens
    /\ mail \in [Tokens -> {"none", "choice", "dismiss"}]

TypeOK == ValuesOK /\ sweeper \in BOOLEAN

Init ==
    /\ slot = [w \in Workers |-> "gone"]
    /\ killing = {} /\ discarded = {}
    /\ starting = {} /\ initial = {}
    /\ startPc = "none" /\ shutPc = "none" /\ closing = {}
    /\ call = [i \in Invocations |-> "idle"]
    /\ at = [i \in Invocations |-> None]
    /\ expired = {}
    /\ owner = [d \in Tokens |-> None]
    /\ registered = {} /\ app = {} /\ shown = {} /\ told = {}
    /\ mail = [d \in Tokens |-> "none"]
    /\ sweeper = FALSE

-----------------------------------------------------------------------------
(* The pool's sets. *)

shuttingDown == shutPc # "none"
Alive == {w \in Workers : slot[w] # "gone"}                   \* children
Members == {w \in Workers : slot[w] = "ready"} \ discarded    \* workers
\* Mutant: pickReadySlot does not look at killing.
Pickable_Killing == Members
Pickable == Members \ killing
AssignedTo(w) == {i \in Invocations : call[i] = "pending" /\ at[i] = w}

\* inflightCount: one up at registration, one down at settlement.
Load(w) == Cardinality(AssignedTo(w))

\* pickReadySlot: a least loaded one (which of several is left open).
LeastLoaded == {w \in Pickable : \A v \in Pickable : Load(w) <= Load(v)}

\* Something that will still bring a worker, as waitForReadySlot sees it.
Hope == starting # {} \/ (Alive \cap killing) \ discarded # {}

-----------------------------------------------------------------------------
(* Settling calls and waking the callers in readyWaiters. *)

Settled(S, outcome) == [i \in Invocations |-> IF i \in S THEN outcome ELSE call[i]]
Unassigned(S) == [i \in Invocations |-> IF i \in S THEN None ELSE at[i]]
Notified(calls) ==
    [i \in Invocations |-> IF calls[i] = "parked" THEN "woken" ELSE calls[i]]

\* settlePending for every invocation in S.
Settle(S, outcome) ==
    /\ call' = Settled(S, outcome)
    /\ at' = Unassigned(S)
    /\ UNCHANGED expired

\* notifyReady alone.
Notify == call' = Notified(call) /\ UNCHANGED <<at, expired>>

\* The spawnWorker() promise of w settles, and start() notices.
SpawnSettles(w, ok) ==
    /\ starting' = starting \ {w}
    /\ initial' = initial \ {w}
    /\ startPc' = IF startPc # "spawning" \/ w \notin initial THEN startPc
                  ELSE IF ~ok THEN "failing"
                  ELSE IF initial = {w} THEN "up" ELSE startPc

-----------------------------------------------------------------------------
(* Spawning. *)

\* start(): spawn every worker; idempotent.
Start ==
    /\ startPc = "none" /\ ~shuttingDown
    /\ slot' = [w \in Workers |-> "starting"]
    /\ starting' = Workers /\ initial' = Workers /\ startPc' = "spawning"
    /\ UNCHANGED <<killing, discarded, shutVars, callVars, dialogVars>>

\* handleFirstFrame with a valid health frame.
HandshakeSucceeds(w) ==
    /\ slot[w] = "starting" /\ w \in starting
    /\ w \notin killing \cup discarded
    /\ slot' = [slot EXCEPT ![w] = "ready"]
    /\ SpawnSettles(w, TRUE)
    /\ Notify
    /\ UNCHANGED <<killing, discarded, shutVars, dialogVars>>

\* The handshake timer, or a first frame that is not a health frame: the
\* worker is discarded and the promise rejected.  The timer also fires for a
\* worker that is already being killed.
HandshakeFails(w) ==
    /\ slot[w] = "starting" /\ w \in starting
    /\ killing' = killing \cup {w} /\ discarded' = discarded \cup {w}
    /\ SpawnSettles(w, FALSE)
    /\ Notify
    /\ UNCHANGED <<slot, shutVars, dialogVars>>

\* child "error": the promise is rejected, the child's close is still to come.
SpawnErrors(w) ==
    /\ slot[w] = "starting" /\ w \in starting
    /\ SpawnSettles(w, FALSE)
    /\ Notify
    /\ UNCHANGED <<slotVars, shutVars, dialogVars>>

-----------------------------------------------------------------------------
(* invoke(). *)

Finish(i, outcome) ==
    /\ call' = [call EXCEPT ![i] = outcome]
    /\ expired' = expired \ {i}
    /\ UNCHANGED at

Register(i) ==
    \E w \in LeastLoaded :
        /\ call' = [call EXCEPT ![i] = "pending"]
        /\ at' = [at EXCEPT ![i] = w]
        /\ expired' = expired \ {i}

Park(i) == call' = [call EXCEPT ![i] = "parked"] /\ UNCHANGED <<at, expired>>

\* Mutant: the wait has no deadline of its own.
Attempt_NoDeadline(i) ==
    /\ \/ shuttingDown /\ Finish(i, "POOL_SHUTDOWN")
       \/ ~shuttingDown /\ Register(i)
       \/ ~shuttingDown /\ Pickable = {} /\ ~Hope /\ Finish(i, "NO_WORKER_AVAILABLE")
       \/ ~shuttingDown /\ Pickable = {} /\ Hope /\ Park(i)
    /\ UNCHANGED <<slotVars, spawnVars, shutVars, dialogVars>>

\* One turn of waitForReadySlot and, when it finds a worker, the rest of
\* invoke(): only microtasks run between the two.
Attempt(i) ==
    /\ \/ shuttingDown /\ Finish(i, "POOL_SHUTDOWN")
       \/ ~shuttingDown /\ Register(i)
       \/ ~shuttingDown /\ Pickable = {} /\ ~Hope /\ Finish(i, "NO_WORKER_AVAILABLE")
       \/ ~shuttingDown /\ Pickable = {} /\ Hope /\ i \in expired /\ Finish(i, "WORKER_TIMEOUT")
       \/ ~shuttingDown /\ Pickable = {} /\ Hope /\ i \notin expired /\ Park(i)
    /\ UNCHANGED <<slotVars, spawnVars, shutVars, dialogVars>>

Invoke(i) == call[i] \in Outcomes \cup {"idle"} /\ Attempt(i)

Wake(i) == call[i] = "woken" /\ Attempt(i)

\* The deadline of a wait, which runs over all its turns, passes: a waiter
\* leaves readyWaiters and looks once more.
WaitDeadline(i) ==
    /\ call[i] \in {"parked", "woken"} /\ i \notin expired
    /\ call' = [call EXCEPT ![i] = "woken"]
    /\ expired' = expired \cup {i}
    /\ UNCHANGED <<slotVars, spawnVars, shutVars, at, dialogVars>>

-----------------------------------------------------------------------------
(* Frames and failures of a running worker. *)

\* Frames of a discarded worker are dropped; those of one being killed are not.
Hears(w) == slot[w] = "ready" /\ w \notin discarded

Completes(i) ==
    /\ call[i] = "pending" /\ Hears(at[i])
    /\ Settle({i}, "result")
    /\ UNCHANGED <<slotVars, spawnVars, shutVars, dialogVars>>

\* The worker reports a fault of one invocation and stays alive.
WorkerReportsFault(i) ==
    /\ call[i] = "pending" /\ Hears(at[i])
    /\ Settle({i}, "WORKER_FAULT")
    /\ UNCHANGED <<slotVars, spawnVars, shutVars, dialogVars>>

\* Writing the invoke frame failed; the worker is left alone.
InvokeWriteFails(i) ==
    /\ call[i] = "pending"
    /\ Settle({i}, "WORKER_FAULT")
    /\ UNCHANGED <<slotVars, spawnVars, shutVars, dialogVars>>

\* faultWorker: an undecodable, invalid or unexpected frame.
FaultWorker(w) ==
    /\ Hears(w)
    /\ killing' = killing \cup {w} /\ discarded' = discarded \cup {w}
    /\ Settle(AssignedTo(w), "WORKER_FAULT")
    /\ UNCHANGED <<slot, spawnVars, shutVars, dialogVars>>

\* timeoutInvocation: answer, then destroy the worker that did not.
TimeoutInvocation(i) ==
    /\ call[i] = "pending"
    /\ killing' = killing \cup {at[i]}
    /\ Settle({i}, "WORKER_TIMEOUT")
    /\ UNCHANGED <<slot, discarded, spawnVars, shutVars, dialogVars>>

\* handleHealthReport above memoryLimitBytes: its invocations wait for the exit.
MemoryExceeded(w) ==
    /\ Hears(w) /\ w \notin killing
    /\ killing' = killing \cup {w}
    /\ UNCHANGED <<slot, discarded, spawnVars, shutVars, callVars, dialogVars>>

-----------------------------------------------------------------------------
(* Dialogs: pool registry, BackendRpcApp's map, UI, and the worker's own. *)

DialogsOf(w) == {d \in Tokens : owner[d] = w}

\* Mutant: BackendRpcApp does not hear of the invalidation.
Forget_KeepsApp(S) ==
    /\ registered' = registered \ S
    /\ shown' = shown \ S
    /\ told' = told \cup (S \cap registered)
    /\ UNCHANGED app

\* invalidateDialog and onDialogInvalidate, for the registered dialogs in S.
Forget(S) ==
    /\ registered' = registered \ S
    /\ app' = app \ S
    /\ shown' = shown \ S
    /\ told' = told \cup (S \cap registered)

\* Mutant: nobody starts the sweeper.
DialogRequested_NoSweeper(d, w) ==
    /\ owner[d] = None /\ Hears(w)
    /\ owner' = [owner EXCEPT ![d] = w]
    /\ registered' = registered \cup {d}
    /\ app' = app \cup {d} /\ shown' = shown \cup {d}
    /\ told' = told \ {d}
    /\ UNCHANGED <<slotVars, spawnVars, shutVars, callVars, mail, sweeper>>

\* handleDialogRequest: a script opened a dialog with a fresh token.
DialogRequested(d, w) ==
    /\ owner[d] = None /\ Hears(w)
    /\ owner' = [owner EXCEPT ![d] = w]
    /\ registered' = registered \cup {d}
    /\ app' = app \cup {d} /\ shown' = shown \cup {d}
    /\ told' = told \ {d}
    /\ sweeper' = TRUE
    /\ UNCHANGED <<slotVars, spawnVars, shutVars, callVars, mail>>

\* The answer passes the pool's guard and is written to the worker, or is
\* dropped because the worker is being killed.
Deliver(d, choice) ==
    IF owner[d] \in killing \/ d \notin registered
    THEN UNCHANGED <<registered, mail>>
    ELSE /\ registered' = registered \ {d}
         /\ mail' = [mail EXCEPT ![d] = choice]

\* respondDialog: the user answers, and the UI closes the dialog.
Respond(d, choice) ==
    /\ d \in app
    /\ app' = app \ {d} /\ shown' = shown \ {d}
    /\ Deliver(d, choice)
    /\ UNCHANGED <<slotVars, spawnVars, shutVars, callVars, owner, told, sweeper>>

\* sweepDialogs: the dialog was unanswered for dialogTimeoutMs.
Sweep(d) ==
    /\ sweeper /\ d \in registered
    /\ Forget({d})
    /\ mail' = IF owner[d] \in killing THEN mail ELSE [mail EXCEPT ![d] = "dismiss"]
    /\ UNCHANGED <<slotVars, spawnVars, shutVars, callVars, owner, sweeper>>

\* The worker takes its callbacks out and runs them for a choice.
MailArrives(d) ==
    /\ mail[d] # "none"
    /\ mail' = [mail EXCEPT ![d] = "none"]
    /\ owner' = [owner EXCEPT ![d] = None]
    /\ UNCHANGED <<slotVars, spawnVars, shutVars, callVars, registered, app, shown, told,
                   sweeper>>

\* The exit of w takes its callbacks and its mail along.
DialogsDie(w) ==
    /\ Forget(DialogsOf(w))
    /\ owner' = [d \in Tokens |-> IF owner[d] = w THEN None ELSE owner[d]]
    /\ mail' = [d \in Tokens |-> IF owner[d] = w THEN "none" ELSE mail[d]]
    /\ UNCHANGED sweeper

-----------------------------------------------------------------------------
(* Exit, replenishing and shutdown. *)

\* handleExit of a child that never became ready.
StarterExits(w) ==
    /\ slot[w] = "starting"
    /\ slot' = [slot EXCEPT ![w] = "gone"]
    /\ IF w \in starting THEN SpawnSettles(w, FALSE) ELSE UNCHANGED spawnVars

\* Mutant: a member is replaced during a shutdown too.
WorkerExits_AlwaysReplaced(w) ==
    /\ slot[w] = "ready"
    /\ IF w \in discarded
       THEN slot' = [slot EXCEPT ![w] = "gone"] /\ UNCHANGED starting
       ELSE slot' = [slot EXCEPT ![w] = "starting"] /\ starting' = starting \cup {w}
    /\ UNCHANGED <<initial, startPc>>

\* handleExit of a worker that did: replaced only as a member of the pool.
WorkerExits(w) ==
    /\ slot[w] = "ready"
    /\ IF w \in discarded \/ shuttingDown
       THEN slot' = [slot EXCEPT ![w] = "gone"] /\ UNCHANGED starting
       ELSE slot' = [slot EXCEPT ![w] = "starting"] /\ starting' = starting \cup {w}
    /\ UNCHANGED <<initial, startPc>>

Exit(w) ==
    /\ StarterExits(w) \/ WorkerExits(w)
    /\ killing' = killing \ {w} /\ discarded' = discarded \ {w}
    /\ call' = Notified(Settled(AssignedTo(w), "WORKER_EXIT"))
    /\ at' = Unassigned(AssignedTo(w))
    /\ DialogsDie(w)
    /\ closing' = closing \ {w}
    /\ UNCHANGED <<shutPc, expired>>

\* shutdown(): the waiters wake, every child is told to stop.
Shutdown ==
    /\ ~shuttingDown
    /\ shutPc' = "waiting" /\ closing' = Alive
    /\ killing' = killing \cup Alive
    /\ sweeper' = FALSE
    /\ Notify
    /\ UNCHANGED <<slot, discarded, spawnVars, owner, registered, app, shown, told, mail>>

\* start() failed: it shuts the pool down before it rejects.
StartFails == startPc = "failing" /\ Shutdown

\* The children it found have closed: what is still pending is answered.
ShutdownDone ==
    /\ shutPc = "waiting" /\ closing = {}
    /\ shutPc' = "done"
    /\ Settle({i \in Invocations : call[i] = "pending"}, "POOL_SHUTDOWN")
    /\ UNCHANGED <<slotVars, spawnVars, closing, dialogVars>>

-----------------------------------------------------------------------------
WorkerStep(w) ==
    \/ HandshakeSucceeds(w) \/ HandshakeFails(w) \/ SpawnErrors(w)
    \/ FaultWorker(w) \/ MemoryExceeded(w) \/ Exit(w)

CallStep(i) ==
    \/ Invoke(i) \/ Wake(i) \/ WaitDeadline(i)
    \/ Completes(i) \/ WorkerReportsFault(i) \/ InvokeWriteFails(i) \/ TimeoutInvocation(i)

DialogStep(d) ==
    \/ \E w \in Workers : DialogRequested(d, w)
    \/ \E choice \in {"choice", "dismiss"} : Respond(d, choice)
    \/ Sweep(d) \/ MailArrives(d)

Next ==
    \/ Start \/ Shutdown \/ StartFails \/ ShutdownDone
    \/ \E w \in Workers : WorkerStep(w)
    \/ \E i \in Invocations : CallStep(i)
    \/ \E d \in Tokens : DialogStep(d)

Spec == Init /\ [][Next]_vars

\* A child nobody can stop from closing: killed, or never really spawned.
Dying(w) == w \in killing \/ (slot[w] = "starting" /\ w \notin starting)

\* The handshake, wait, run and dialog timers fire; a killed tree exits
\* (SIGKILL after the grace); resolved promises continue.
Fairness ==
    /\ WF_vars(StartFails) /\ WF_vars(ShutdownDone)
    /\ \A w \in Workers : WF_vars(HandshakeFails(w)) /\ WF_vars(Dying(w) /\ Exit(w))
    /\ \A i \in Invocations :
          WF_vars(Wake(i)) /\ WF_vars(WaitDeadline(i)) /\ WF_vars(TimeoutInvocation(i))
    /\ \A d \in Tokens : WF_vars(Sweep(d))

FairSpec == Spec /\ Fairness

-----------------------------------------------------------------------------
(* Properties. *)

\* A pending invocation is on a worker that can still settle it: one that is
\* up and whose frames are heard, in the incarnation it was sent to.
PendingServed ==
    \A i \in Invocations : call[i] = "pending" => at[i] \in Members

\* No caller sleeps through a worker it could use, nor without an event to
\* come that wakes it before its deadline.
NoLostWakeup ==
    \A i \in Invocations : call[i] = "parked" =>
        /\ ~shuttingDown
        /\ Pickable = {}
        /\ starting # {} \/ Alive \cap killing # {}

\* Once shutdown() resolved nothing is left: no child, no spawn, no pending
\* invocation, no dialog.
ShutdownIsFinal ==
    shutPc = "done" =>
        /\ Alive = {} /\ starting = {}
        /\ \A i \in Invocations : call[i] \notin {"pending", "parked"}
        /\ registered = {} /\ app = {} /\ shown = {}

\* A dialog the UI shows can be answered, and one that can be answered will be
\* finalised by the pool: the three registries nest, and the asker is alive.
DialogsNest ==
    /\ shown \subseteq app /\ app \subseteq registered
    /\ \A d \in registered : owner[d] \in Alive /\ mail[d] = "none"

\* After the UI was told that a dialog is invalid no choice reaches the script.
NoStaleChoice == \A d \in told : mail[d] # "choice"

\* invoke() never hands a call to a worker that is being killed or discarded.
NoWorkForTheDying ==
    [][\A i \in Invocations :
          call'[i] = "pending" /\ call[i] # "pending" =>
              at'[i] \notin killing \cup discarded]_vars

\* A call is with a worker that can serve it, or will be woken when there is one.
WorkServed == [](PendingServed /\ NoLostWakeup) /\ NoWorkForTheDying

\* What the UI shows of dialogs, and what a script is told, is true.
DialogsHold == DialogsNest /\ NoStaleChoice

\* Every dialog the UI shows is closed at last.
DialogsClose == \A d \in Tokens : d \in shown ~> d \notin shown

\* The pool is the service of CallService.
answerOf(i) ==
    IF call[i] = "idle" THEN "none"
    ELSE IF call[i] \in {"parked", "woken", "pending"} THEN "asked"
    ELSE IF call[i] = "result" THEN "result" ELSE "error"

Service == INSTANCE CallService WITH
    Requests <- Invocations,
    answer <- [i \in Invocations |-> answerOf(i)],
    service <- IF shutPc = "none" THEN "open" ELSE IF shutPc = "waiting" THEN "closing"
               ELSE "closed"

\* One answer per accepted call and no result once closed.
ServiceSafety == Service!Safety

\* The same, and every accepted call is answered.
ServiceSpec == Service!Spec
=============================================================================
