------------------------- MODULE BackendSupervisor -------------------------
(***************************************************************************)
(* The guardian's supervision of its backend process: BackendSupervisor of *)
(* packages/guardian/src/backend-supervisor.ts.                            *)
(*                                                                         *)
(* A backend is named by its generation; a BackendSlot is what the sets    *)
(* and functions below say of one.  One action is the handler of one       *)
(* event: a message, a timer, an event of the child, a call.  Deadlines    *)
(* are events that may come at any time.  The backend may answer, hang,    *)
(* send rubbish or exit.  Requests names the RPCs that are on their way    *)
(* at once: a name is used again when nothing of its last use is left,     *)
(* because the code gives every request a fresh id.                        *)
(***************************************************************************)
EXTENDS Naturals, FiniteSets

CONSTANTS
    Requests,
    MaxGenerations      \* bound: backends spawned

ASSUME GenerationsAssumption == MaxGenerations \in Nat

Generations == 1..MaxGenerations

VARIABLES
    state,          \* BackendSupervisorState
    generation,
    slot,           \* generation of this.slot; 0 = null
    child,          \* per generation: none, running, hung or exited
    ready, dead,    \* flags of the slots
    cleanup,        \* per slot: none, graceful, terminating, done or failed
    startPc,        \* startPromise: none, cleanup or handshake
    awaited,        \* the slot whose cleanup it awaits
    heartbeat,      \* the slot the heartbeat interval is for; 0 = no interval
    ping,           \* slots with an outstandingPing
    req,            \* per request: idle, pending or its outcome
    to,             \* the generation it was sent to
    wire,           \* none, sent (to the backend) or answered
    shutPc,         \* shutdown(): none, waiting, done or failed
    closing         \* the slot it terminates; 0 = none

slotVars == <<slot, generation, child, ready, dead, cleanup>>
startVars == <<startPc, awaited>>
beatVars == <<heartbeat, ping>>
reqVars == <<req, to, wire>>
shutVars == <<shutPc, closing>>
vars == <<state, slotVars, startVars, beatVars, reqVars, shutVars>>

ErrorCodes == {"BACKEND_NOT_READY", "BACKEND_DIED", "BACKEND_TIMEOUT"}

TypeOK ==
    /\ state \in {"idle", "starting", "ready", "dead", "shutdown"}
    /\ generation \in 0..MaxGenerations /\ slot \in 0..MaxGenerations
    /\ child \in [Generations -> {"none", "running", "hung", "exited"}]
    /\ ready \in SUBSET Generations /\ dead \in SUBSET Generations
    /\ cleanup \in [Generations -> {"none", "graceful", "terminating", "done", "failed"}]
    /\ startPc \in {"none", "cleanup", "handshake"} /\ awaited \in 0..MaxGenerations
    /\ heartbeat \in 0..MaxGenerations /\ ping \in SUBSET Generations
    /\ req \in [Requests -> {"idle", "pending", "result"} \cup ErrorCodes]
    /\ to \in [Requests -> 0..MaxGenerations]
    /\ wire \in [Requests -> {"none", "sent", "answered"}]
    /\ shutPc \in {"none", "waiting", "done", "failed"} /\ closing \in 0..MaxGenerations

Init ==
    /\ state = "idle" /\ generation = 0 /\ slot = 0
    /\ child = [g \in Generations |-> "none"]
    /\ ready = {} /\ dead = {}
    /\ cleanup = [g \in Generations |-> "none"]
    /\ startPc = "none" /\ awaited = 0
    /\ heartbeat = 0 /\ ping = {}
    /\ req = [r \in Requests |-> "idle"]
    /\ to = [r \in Requests |-> 0]
    /\ wire = [r \in Requests |-> "none"]
    /\ shutPc = "none" /\ closing = 0

Alive == {g \in Generations : child[g] \in {"running", "hung"}}
Pending == {r \in Requests : req[r] = "pending"}

\* settleRequest with an error, for every request in S.
Rejected(S, code) == [r \in Requests |-> IF r \in S THEN code ELSE req[r]]

-----------------------------------------------------------------------------
(* start() and restart(). *)

\* restart() asks for "dead" and calls start(), which awaits the cleanup of
\* the slot it replaces.
Start ==
    /\ state \in {"idle", "dead"}
    /\ slot = 0 \/ slot \in dead
    /\ generation < MaxGenerations
    /\ state' = "starting"
    /\ startPc' = "cleanup" /\ awaited' = slot
    /\ UNCHANGED <<slotVars, beatVars, reqVars, shutVars>>

\* Mutant: the new backend does not wait for the end of the old one.
CleanupReady_Unawaited == TRUE

CleanupReady == awaited # 0 => cleanup[awaited] = "done"

\* The cleanup failed, or shutdown() was called meanwhile.
StartRejected ==
    /\ startPc = "cleanup"
    /\ \/ awaited # 0 /\ cleanup[awaited] = "failed"
       \/ CleanupReady /\ state = "shutdown"
    /\ startPc' = "none"
    /\ state' = IF state = "shutdown" THEN state ELSE "dead"
    /\ UNCHANGED <<slotVars, awaited, beatVars, reqVars, shutVars>>

\* fork(): the process may not come up, which its "error" event will say.
SpawnBackend ==
    /\ startPc = "cleanup" /\ CleanupReady
    /\ state # "shutdown"
    /\ generation' = generation + 1 /\ slot' = generation + 1
    /\ \E c \in {"running", "exited"} : child' = [child EXCEPT ![generation + 1] = c]
    /\ startPc' = "handshake" /\ state' = "starting"
    /\ UNCHANGED <<ready, dead, cleanup, awaited, beatVars, reqVars, shutVars>>

\* fork() or register() throws; register() kills the child before it does.
SpawnThrows ==
    /\ startPc = "cleanup" /\ CleanupReady
    /\ state # "shutdown"
    /\ generation' = generation + 1
    /\ startPc' = "none" /\ state' = "dead"
    /\ UNCHANGED <<slot, child, ready, dead, cleanup, awaited, beatVars, reqVars, shutVars>>

-----------------------------------------------------------------------------
(* The death of a backend. *)

\* Mutant: the requests in flight are left to their deadlines.
DeclareDead_Keeps(g) ==
    /\ dead' = dead \cup {g}
    /\ cleanup' = [cleanup EXCEPT ![g] = IF @ = "none" THEN "terminating" ELSE @]
    /\ IF slot # g
       THEN UNCHANGED <<state, heartbeat, startPc, req>>
       ELSE /\ state' = IF state = "shutdown" THEN state ELSE "dead"
            /\ heartbeat' = 0
            /\ startPc' = IF startPc = "handshake" THEN "none" ELSE startPc
            /\ UNCHANGED req

\* declareDead of a slot that is not: start() is rejected when it still waits
\* for the handshake, every request in flight is, and the tree is terminated.
DeclareDead(g) ==
    /\ dead' = dead \cup {g}
    /\ cleanup' = [cleanup EXCEPT ![g] = IF @ = "none" THEN "terminating" ELSE @]
    /\ IF slot # g
       THEN UNCHANGED <<state, heartbeat, startPc, req>>
       ELSE /\ state' = IF state = "shutdown" THEN state ELSE "dead"
            /\ heartbeat' = 0
            /\ startPc' = IF startPc = "handshake" THEN "none" ELSE startPc
            /\ req' = Rejected(Pending, "BACKEND_DIED")

\* What every cause of death leaves alone.
Dies(g) ==
    /\ DeclareDead(g)
    /\ UNCHANGED <<slot, generation, ready, awaited, ping, to, shutVars>>

\* Messages of a slot that is dead or replaced are dropped.
Hears(g) == g \notin dead /\ slot = g /\ state # "shutdown"

\* A forged role, an invalid envelope or a health frame of another process.
BadFrame(g) == Hears(g) /\ Dies(g) /\ UNCHANGED <<child, wire>>

HandshakeTimesOut(g) ==
    /\ child[g] # "none" /\ g \notin ready \cup dead
    /\ Dies(g)
    /\ UNCHANGED <<child, wire>>

\* The channel of a backend that was ready is closed.
Disconnects(g) == g \in ready \ dead /\ Dies(g) /\ UNCHANGED <<child, wire>>

\* The "error" event: of a process that did not come up, or of the channel.
ChildErrors(g) ==
    /\ child[g] # "none" /\ g \notin dead
    /\ Dies(g)
    /\ UNCHANGED <<child, wire>>

\* The "exit" event.  What the backend had not answered is lost.
ChildExits(g) ==
    /\ g \in Alive
    /\ child' = [child EXCEPT ![g] = "exited"]
    /\ wire' = [r \in Requests |->
                  IF wire[r] = "sent" /\ to[r] = g THEN "none" ELSE wire[r]]
    /\ IF g \in dead
       THEN UNCHANGED <<state, slot, generation, ready, dead, cleanup, startVars, beatVars,
                        req, to, shutVars>>
       ELSE Dies(g)

\* External: the backend stops to answer.
Hangs(g) ==
    /\ child[g] = "running"
    /\ child' = [child EXCEPT ![g] = "hung"]
    /\ UNCHANGED <<state, slot, generation, ready, dead, cleanup, startVars, beatVars,
                   reqVars, shutVars>>

-----------------------------------------------------------------------------
(* Handshake and heartbeat. *)

\* Mutant: nobody starts the heartbeat.
HandshakeSucceeds_NoHeartbeat(g) ==
    /\ child[g] = "running" /\ Hears(g) /\ g \notin ready
    /\ ready' = ready \cup {g}
    /\ state' = "ready" /\ startPc' = "none"
    /\ UNCHANGED <<slot, generation, child, dead, cleanup, awaited, beatVars, reqVars, shutVars>>

HandshakeSucceeds(g) ==
    /\ child[g] = "running" /\ Hears(g) /\ g \notin ready
    /\ ready' = ready \cup {g}
    /\ state' = "ready" /\ startPc' = "none"
    /\ heartbeat' = g
    /\ UNCHANGED <<slot, generation, child, dead, cleanup, awaited, ping, reqVars, shutVars>>

\* A tick of the interval.
Beats(g) == heartbeat = g /\ g \notin dead /\ state = "ready"

SendPing(g) ==
    /\ Beats(g) /\ g \notin ping
    /\ ping' = ping \cup {g}
    /\ UNCHANGED <<state, slotVars, startVars, heartbeat, reqVars, shutVars>>

\* The deadline of the ping has passed, or a ping could not be written.
HeartbeatFails(g) == Beats(g) /\ Dies(g) /\ UNCHANGED <<child, wire>>

\* The reply to the outstanding ping; any other is ignored.
PingAnswered(g) ==
    /\ child[g] = "running" /\ Hears(g)
    /\ g \in ping
    /\ ping' = ping \ {g}
    /\ UNCHANGED <<state, slotVars, startVars, heartbeat, reqVars, shutVars>>

-----------------------------------------------------------------------------
(* request(). *)

Servable == state = "ready" /\ slot # 0 /\ slot \in ready \ dead

\* The request is written to the channel of the backend.
Request(r) ==
    /\ req[r] # "pending" /\ wire[r] = "none"
    /\ Servable
    /\ req' = [req EXCEPT ![r] = "pending"]
    /\ to' = [to EXCEPT ![r] = slot]
    /\ wire' = [wire EXCEPT ![r] = "sent"]
    /\ UNCHANGED <<state, slotVars, startVars, beatVars, shutVars>>

\* Not ready, or send() throws.
RequestRefused(r) ==
    /\ req[r] # "pending" /\ wire[r] = "none"
    /\ req' = [req EXCEPT ![r] = IF Servable THEN "BACKEND_DIED" ELSE "BACKEND_NOT_READY"]
    /\ UNCHANGED <<state, slotVars, startVars, beatVars, to, wire, shutVars>>

\* The callback of send() reports that the message was not delivered.
SendFails(r) ==
    /\ req[r] = "pending" /\ wire[r] # "answered"
    /\ req' = [req EXCEPT ![r] = "BACKEND_DIED"]
    /\ wire' = [wire EXCEPT ![r] = "none"]
    /\ UNCHANGED <<state, slotVars, startVars, beatVars, to, shutVars>>

RequestTimesOut(r) ==
    /\ req[r] = "pending"
    /\ req' = [req EXCEPT ![r] = "BACKEND_TIMEOUT"]
    /\ UNCHANGED <<state, slotVars, startVars, beatVars, to, wire, shutVars>>

\* External: the backend writes an rpc_result.
BackendAnswers(r) ==
    /\ wire[r] = "sent" /\ child[to[r]] = "running"
    /\ wire' = [wire EXCEPT ![r] = "answered"]
    /\ UNCHANGED <<state, slotVars, startVars, beatVars, req, to, shutVars>>

\* Mutant: a reply is not looked up among the pending requests.
ReplyArrives_Unchecked(r) ==
    /\ wire[r] = "answered"
    /\ wire' = [wire EXCEPT ![r] = "none"]
    /\ req' = [req EXCEPT ![r] = IF Hears(to[r]) THEN "result" ELSE @]
    /\ UNCHANGED <<state, slotVars, startVars, beatVars, to, shutVars>>

\* The reply settles its request, unless it is late or its backend is dead.
ReplyArrives(r) ==
    /\ wire[r] = "answered"
    /\ wire' = [wire EXCEPT ![r] = "none"]
    /\ req' = [req EXCEPT ![r] = IF Hears(to[r]) /\ @ = "pending" THEN "result" ELSE @]
    /\ UNCHANGED <<state, slotVars, startVars, beatVars, to, shutVars>>

-----------------------------------------------------------------------------
(* Shutdown and cleanup. *)

Shutdown ==
    /\ state # "shutdown"
    /\ state' = "shutdown" /\ heartbeat' = 0
    /\ req' = Rejected(Pending, "BACKEND_DIED")
    /\ slot' = 0 /\ closing' = slot /\ shutPc' = "waiting"
    /\ dead' = dead \cup ({slot} \ {0})
    /\ cleanup' = [g \in Generations |->
                     IF g # slot \/ cleanup[g] # "none" THEN cleanup[g]
                     ELSE IF g \in ready THEN "graceful" ELSE "terminating"]
    /\ startPc' = IF startPc = "handshake" THEN "none" ELSE startPc
    /\ UNCHANGED <<generation, child, ready, awaited, ping, to, wire>>

\* cleanSlot: the backend left after the shutdown frame, or the grace is over.
GraceEnds(g) ==
    /\ cleanup[g] = "graceful"
    /\ cleanup' = [cleanup EXCEPT ![g] = "terminating"]
    /\ UNCHANGED <<state, slot, generation, child, ready, dead, startVars, beatVars, reqVars,
                   shutVars>>

\* scope.terminate() reports whether the process is gone within its budget.
TreeTerminates(g) ==
    /\ cleanup[g] = "terminating"
    /\ cleanup' = [cleanup EXCEPT ![g] = IF child[g] = "exited" THEN "done" ELSE "failed"]
    /\ UNCHANGED <<state, slot, generation, child, ready, dead, startVars, beatVars, reqVars,
                   shutVars>>

\* shutdown() is the cleanup of the slot it found.
ShutdownEnds ==
    /\ shutPc = "waiting"
    /\ \/ closing = 0 /\ shutPc' = "done"
       \/ closing # 0 /\ cleanup[closing] \in {"done", "failed"} /\ shutPc' = cleanup[closing]
    /\ UNCHANGED <<state, slotVars, startVars, beatVars, reqVars, closing>>

-----------------------------------------------------------------------------
StartStep == Start \/ StartRejected \/ SpawnBackend \/ SpawnThrows

DeathStep(g) ==
    \/ BadFrame(g) \/ HandshakeTimesOut(g) \/ Disconnects(g) \/ ChildErrors(g)
    \/ HeartbeatFails(g)

BackendStep(g) ==
    \/ DeathStep(g) \/ ChildExits(g) \/ Hangs(g) \/ HandshakeSucceeds(g)
    \/ SendPing(g) \/ PingAnswered(g) \/ GraceEnds(g) \/ TreeTerminates(g)

RequestStep(r) ==
    \/ Request(r) \/ RequestRefused(r) \/ SendFails(r) \/ RequestTimesOut(r)
    \/ BackendAnswers(r) \/ ReplyArrives(r)

Next ==
    \/ StartStep
    \/ Shutdown \/ ShutdownEnds
    \/ \E g \in Generations : BackendStep(g)
    \/ \E r \in Requests : RequestStep(r)

Spec == Init /\ [][Next]_vars

\* Timers fire, resolved promises continue, terminate() reports within its
\* budget.  Of the backend nothing is expected.
Fairness ==
    /\ WF_vars(StartRejected) /\ WF_vars(SpawnBackend \/ SpawnThrows)
    /\ WF_vars(ShutdownEnds)
    /\ \A g \in Generations :
          /\ WF_vars(HandshakeTimesOut(g)) /\ WF_vars(SendPing(g))
          /\ WF_vars(g \in ping /\ HeartbeatFails(g))
          /\ WF_vars(GraceEnds(g)) /\ WF_vars(TreeTerminates(g))
    /\ \A r \in Requests : WF_vars(RequestTimesOut(r))

FairSpec == Spec /\ Fairness

-----------------------------------------------------------------------------
(* Properties. *)

\* There is never more than one backend process: a restart waits until the
\* process it replaces is known to be gone.
OneBackend == \A g, h \in Alive : g = h

\* A request waits only for the backend it was sent to, ready and not declared
\* dead: no death, shutdown or restart leaves one behind.
RequestsLive == \A r \in Pending : Servable /\ to[r] = slot

\* In the states start() and restart() accept, the old slot is dead and its
\* cleanup under way: "backend slot still alive" is never thrown.
Startable ==
    state \in {"idle", "dead"} =>
        startPc = "none" /\ (slot # 0 => slot \in dead /\ cleanup[slot] # "none")

\* Once shutdown() resolved there is no process and no request, and a start()
\* that was waiting does not bring one back.
ShutdownIsFinal == shutPc = "done" => Alive = {} /\ Pending = {} /\ startPc # "handshake"

\* One backend at a time, and none after the shutdown.
BackendsInTurn == OneBackend /\ ShutdownIsFinal

\* Neither a request nor a restart is stuck with a backend that is gone.
NobodyStuck == RequestsLive /\ Startable

\* A backend that was ready and stops to answer is declared dead.
SilentIsDead ==
    \A g \in Generations : g \in ready /\ child[g] = "hung" ~> g \in dead

\* start() settles, whatever the backend does.
StartSettles == startPc # "none" ~> startPc = "none"

\* The supervisor waits for no backend for ever.
SilenceEnds == SilentIsDead /\ StartSettles

answerOf(r) ==
    IF req[r] = "idle" THEN "none" ELSE IF req[r] = "pending" THEN "asked"
    ELSE IF req[r] = "result" THEN "result" ELSE "error"

Service == INSTANCE CallService WITH
    answer <- [r \in Requests |-> answerOf(r)],
    service <- IF shutPc = "none" THEN "open" ELSE IF shutPc = "waiting" THEN "closing"
               ELSE "closed"

\* One answer per accepted request and no result once closed.
ServiceSafety == Service!Safety

\* The same, and every accepted request is answered.
ServiceSpec == Service!Spec
=============================================================================
