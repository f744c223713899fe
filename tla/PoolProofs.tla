---------------------------- MODULE PoolProofs -----------------------------
(***************************************************************************)
(* What holds of ScriptWorkerPool for any number of places, callers and    *)
(* dialogs.                                                                *)
(***************************************************************************)
EXTENDS ScriptWorkerPool, TLAPS

-----------------------------------------------------------------------------
(* Types. *)

LEMMA SweeperType == sweeper \in BOOLEAN /\ [Next]_vars => (sweeper \in BOOLEAN)'
<1> SUFFICES ASSUME sweeper \in BOOLEAN, [Next]_vars
             PROVE  (sweeper \in BOOLEAN)'
    OBVIOUS
<1>1. CASE Start \/ Shutdown \/ StartFails \/ ShutdownDone
    BY <1>1, Zenon DEF Start, StartFails, Shutdown, ShutdownDone, dialogVars
<1>2. CASE \E w \in Workers : WorkerStep(w)
    BY <1>2, Zenon DEF WorkerStep, HandshakeSucceeds, HandshakeFails, SpawnErrors, FaultWorker,
        MemoryExceeded, Exit, DialogsDie, dialogVars
<1>3. CASE \E i \in Invocations : CallStep(i)
    BY <1>3, Zenon DEF CallStep, Invoke, Wake, Attempt, WaitDeadline, Completes,
        WorkerReportsFault, InvokeWriteFails, TimeoutInvocation, dialogVars
<1>4. CASE \E d \in Tokens : DialogStep(d)
    BY <1>4, Zenon DEF DialogStep, DialogRequested, Respond, Sweep, MailArrives
<1>5. CASE UNCHANGED vars
    BY <1>5, Zenon DEF vars, dialogVars
<1>6. QED
    BY <1>1, <1>2, <1>3, <1>4, <1>5 DEF Next

\* The values of the groups a step may touch.
SlotTypes ==
    /\ slot \in [Workers -> {"gone", "starting", "ready"}]
    /\ killing \in SUBSET Workers /\ discarded \in SUBSET Workers
    /\ starting \in SUBSET Workers /\ initial \in SUBSET Workers
    /\ startPc \in {"none", "spawning", "up", "failing"}
    /\ shutPc \in {"none", "waiting", "done"} /\ closing \in SUBSET Workers

CallTypes ==
    /\ call \in [Invocations -> CallStates]
    /\ at \in [Invocations -> Workers \cup {None}]
    /\ expired \in SUBSET Invocations

DialogTypes ==
    /\ owner \in [Tokens -> Workers \cup {None}]
    /\ registered \in SUBSET Tokens /\ app \in SUBSET Tokens
    /\ shown \in SUBSET Tokens /\ told \in SUBSET Tokens
    /\ mail \in [Tokens -> {"none", "choice", "dismiss"}]

LEMMA Types == ValuesOK <=> SlotTypes /\ CallTypes /\ DialogTypes
BY DEF ValuesOK, SlotTypes, CallTypes, DialogTypes

-----------------------------------------------------------------------------
(* Places: flags belong to a child, an open promise to one that has not    *)
(* shaken hands, and a shutdown awaits every child there is.               *)

PlaceInv ==
    /\ SlotTypes
    /\ discarded \subseteq killing
    /\ killing \subseteq Alive
    /\ starting \subseteq {w \in Workers : slot[w] = "starting"}
    /\ shuttingDown => Alive \subseteq killing
    /\ shuttingDown => Alive \subseteq closing
    /\ shutPc = "done" => closing = {}
    /\ startPc = "none" => Alive = {}

LEMMA PlaceInit == Init => PlaceInv
BY DEF Init, PlaceInv, SlotTypes, Alive, shuttingDown

LEMMA PlaceStep == PlaceInv /\ PendingServed /\ [Next]_vars => PlaceInv'
<1> SUFFICES ASSUME PlaceInv, PendingServed, [Next]_vars PROVE PlaceInv'
    OBVIOUS
<1> USE DEF PlaceInv, SlotTypes, Alive, shuttingDown, slotVars, spawnVars, shutVars
<1>1. CASE Start
    BY <1>1 DEF Start
<1>2. CASE Shutdown \/ StartFails
    BY <1>2 DEF Shutdown, StartFails
<1>3. CASE ShutdownDone
    BY <1>3 DEF ShutdownDone
<1>4. ASSUME NEW w \in Workers, WorkerStep(w) PROVE PlaceInv'
  <2>1. CASE HandshakeSucceeds(w)
      BY <2>1 DEF HandshakeSucceeds, SpawnSettles
  <2>2. CASE HandshakeFails(w)
      BY <2>2 DEF HandshakeFails, SpawnSettles
  <2>3. CASE SpawnErrors(w)
      BY <2>3 DEF SpawnErrors, SpawnSettles
  <2>4. CASE FaultWorker(w) \/ MemoryExceeded(w)
      BY <2>4 DEF FaultWorker, MemoryExceeded, Hears
  <2>5. CASE Exit(w) /\ StarterExits(w)
      BY <2>5 DEF Exit, StarterExits, SpawnSettles
  <2>6. CASE Exit(w) /\ WorkerExits(w)
      BY <2>6 DEF Exit, WorkerExits
  <2>7. QED
      BY <1>4, <2>1, <2>2, <2>3, <2>4, <2>5, <2>6 DEF WorkerStep, Exit
<1>5. ASSUME NEW i \in Invocations, CallStep(i) PROVE PlaceInv'
  <2>1. CASE TimeoutInvocation(i)
      BY <2>1 DEF TimeoutInvocation, PendingServed, Members
  <2>2. CASE ~TimeoutInvocation(i)
      BY <1>5, <2>2 DEF CallStep, Invoke, Wake, Attempt, WaitDeadline, Completes,
          WorkerReportsFault, InvokeWriteFails
  <2>3. QED
      BY <2>1, <2>2
<1>6. ASSUME NEW d \in Tokens, DialogStep(d) PROVE PlaceInv'
    BY <1>6 DEF DialogStep, DialogRequested, Respond, Sweep, MailArrives
<1>7. CASE UNCHANGED vars
    BY <1>7 DEF vars
<1>8. QED
    BY <1>1, <1>2, <1>3, <1>4, <1>5, <1>6, <1>7 DEF Next
-----------------------------------------------------------------------------
(* Calls: pending exactly where a worker is assigned, and no one sleeps     *)
(* without a reason.                                                        *)

CallInv ==
    /\ CallTypes
    /\ \A i \in Invocations : call[i] # "pending" => at[i] = None
    /\ PendingServed
    /\ NoLostWakeup

LEMMA CallInit == Init => CallInv
BY DEF Init, CallInv, CallTypes, CallStates, PendingServed, NoLostWakeup

\* A group of variables most worker steps only read.
LEMMA CallStepCalls ==
    ASSUME PlaceInv, CallInv, NEW i \in Invocations, CallStep(i)
    PROVE  CallInv'
<1> USE NoneAssumption DEF PlaceInv, SlotTypes, CallInv, CallTypes, CallStates, Outcomes,
        ErrorCodes, PendingServed, NoLostWakeup, Members, Pickable, Alive, shuttingDown,
        slotVars, spawnVars, shutVars
<1>1. CASE Invoke(i) \/ Wake(i)
  <2>1. Attempt(i)
      BY <1>1 DEF Invoke, Wake
  <2>2. call[i] # "pending"
      BY <1>1 DEF Invoke, Wake
  <2>3. CASE \E outcome \in ErrorCodes : Finish(i, outcome)
      BY <2>1, <2>2, <2>3 DEF Attempt, Finish
  <2>4. CASE Register(i)
      BY <2>1, <2>2, <2>4 DEF Attempt, Register, LeastLoaded
  <2>5. CASE ~shuttingDown /\ Pickable = {} /\ Hope /\ Park(i)
      BY <2>1, <2>2, <2>5 DEF Attempt, Park, Hope
  <2>6. QED
      BY <2>1, <2>3, <2>4, <2>5 DEF Attempt
<1>2. CASE WaitDeadline(i)
    BY <1>2 DEF WaitDeadline
<1>3. CASE Completes(i) \/ WorkerReportsFault(i) \/ InvokeWriteFails(i)
    BY <1>3 DEF Completes, WorkerReportsFault, InvokeWriteFails, Settle, Settled, Unassigned
<1>4. CASE TimeoutInvocation(i)
    BY <1>4 DEF TimeoutInvocation, Settle, Settled, Unassigned
<1>5. QED
    BY <1>1, <1>2, <1>3, <1>4 DEF CallStep

LEMMA WorkerStepCalls ==
    ASSUME PlaceInv, CallInv, NEW w \in Workers, WorkerStep(w)
    PROVE  CallInv'
<1> USE NoneAssumption DEF PlaceInv, SlotTypes, CallInv, CallTypes, CallStates, Outcomes,
        ErrorCodes, PendingServed, NoLostWakeup, Members, Pickable, Alive, shuttingDown,
        slotVars, spawnVars, shutVars, callVars
<1>1. CASE HandshakeSucceeds(w)
    BY <1>1 DEF HandshakeSucceeds, Notify, Notified
<1>2. CASE HandshakeFails(w)
    BY <1>2 DEF HandshakeFails, Notify, Notified
<1>3. CASE SpawnErrors(w)
    BY <1>3 DEF SpawnErrors, Notify, Notified
<1>4. CASE FaultWorker(w)
    BY <1>4 DEF FaultWorker, Hears, Settle, Settled, Unassigned, AssignedTo
<1>5. CASE MemoryExceeded(w)
    BY <1>5 DEF MemoryExceeded, Hears
<1>6. CASE Exit(w)
    BY <1>6 DEF Exit, StarterExits, WorkerExits, Notified, Settled, Unassigned, AssignedTo
<1>7. QED
    BY <1>1, <1>2, <1>3, <1>4, <1>5, <1>6 DEF WorkerStep

LEMMA CallsKept == PlaceInv /\ CallInv /\ [Next]_vars => CallInv'
<1> SUFFICES ASSUME PlaceInv, CallInv, [Next]_vars PROVE CallInv'
    OBVIOUS
<1> USE DEF PlaceInv, SlotTypes, CallInv, CallTypes, CallStates, Outcomes, ErrorCodes,
        PendingServed, NoLostWakeup, Members, Pickable, Alive, shuttingDown, slotVars,
        spawnVars, shutVars, callVars
<1>1. CASE Start
    BY <1>1 DEF Start
<1>2. CASE Shutdown \/ StartFails
    BY <1>2 DEF Shutdown, StartFails, Notify, Notified
<1>3. CASE ShutdownDone
    BY <1>3 DEF ShutdownDone, Settle, Settled, Unassigned
<1>4. CASE \E d \in Tokens : DialogStep(d)
    BY <1>4 DEF DialogStep, DialogRequested, Respond, Sweep, MailArrives
<1>5. CASE UNCHANGED vars
    BY <1>5 DEF vars
<1>6. QED
    BY <1>1, <1>2, <1>3, <1>4, <1>5, CallStepCalls, WorkerStepCalls DEF Next

-----------------------------------------------------------------------------
(* Dialogs: the registries nest, callbacks live in a running worker, and an *)
(* invalidated dialog is out of every registry.                            *)

DialogInv ==
    /\ DialogTypes
    /\ shown \subseteq app /\ app \subseteq registered
    /\ \A d \in registered : owner[d] # None /\ mail[d] = "none"
    /\ \A d \in Tokens : owner[d] # None => slot[owner[d]] = "ready"
    /\ \A d \in told : d \notin registered /\ mail[d] # "choice"
    /\ \A d \in Tokens : mail[d] # "none" => owner[d] # None

LEMMA DialogInit == Init => DialogInv
BY DEF Init, DialogInv, DialogTypes

LEMMA DialogsKept == PlaceInv /\ DialogInv /\ [Next]_vars => DialogInv'
<1> SUFFICES ASSUME PlaceInv, DialogInv, [Next]_vars PROVE DialogInv'
    OBVIOUS
<1> USE NoneAssumption DEF PlaceInv, SlotTypes, DialogInv, DialogTypes, Alive, slotVars,
        callVars, dialogVars
<1>1. CASE Start
    BY <1>1 DEF Start
<1>2. CASE Shutdown \/ StartFails \/ ShutdownDone
    BY <1>2 DEF Shutdown, StartFails, ShutdownDone
<1>3. ASSUME NEW w \in Workers, WorkerStep(w) PROVE DialogInv'
  <2>1. CASE Exit(w)
    <3>1. slot' \in [Workers -> {"gone", "starting", "ready"}]
          /\ \A v \in Workers \ {w} : slot'[v] = slot[v]
        BY <2>1 DEF Exit, StarterExits, WorkerExits
    <3>2. QED
        BY <2>1, <3>1 DEF Exit, DialogsDie, Forget, DialogsOf
  <2>2. CASE HandshakeSucceeds(w)
      BY <2>2 DEF HandshakeSucceeds
  <2>3. CASE HandshakeFails(w) \/ SpawnErrors(w)
      BY <2>3 DEF HandshakeFails, SpawnErrors
  <2>4. CASE FaultWorker(w) \/ MemoryExceeded(w)
      BY <2>4 DEF FaultWorker, MemoryExceeded
  <2>5. QED
      BY <1>3, <2>1, <2>2, <2>3, <2>4 DEF WorkerStep
<1>4. CASE \E i \in Invocations : CallStep(i)
    BY <1>4 DEF CallStep, Invoke, Wake, Attempt, WaitDeadline, Completes,
        WorkerReportsFault, InvokeWriteFails, TimeoutInvocation
<1>5. ASSUME NEW d \in Tokens, DialogStep(d) PROVE DialogInv'
  <2>1. CASE \E w \in Workers : DialogRequested(d, w)
      BY <2>1 DEF DialogRequested, Hears
  <2>2. CASE \E choice \in {"choice", "dismiss"} : Respond(d, choice)
      BY <2>2 DEF Respond, Deliver
  <2>3. CASE Sweep(d)
      BY <2>3 DEF Sweep, Forget
  <2>4. CASE MailArrives(d)
      BY <2>4 DEF MailArrives
  <2>5. QED
      BY <1>5, <2>1, <2>2, <2>3, <2>4 DEF DialogStep
<1>6. CASE UNCHANGED vars
    BY <1>6 DEF vars
<1>7. QED
    BY <1>1, <1>2, <1>3, <1>4, <1>5, <1>6 DEF Next

-----------------------------------------------------------------------------
(* The inductive invariant and what follows from it. *)

Inv == PlaceInv /\ CallInv /\ DialogInv

LEMMA Invariance == Spec => []Inv
<1>1. Init => Inv
    BY PlaceInit, CallInit, DialogInit DEF Inv
<1>2. Inv /\ [Next]_vars => Inv'
    BY PlaceStep, CallsKept, DialogsKept DEF Inv, CallInv
<1>3. QED
    BY <1>1, <1>2, PTL DEF Spec

\* Every variable keeps its type.
THEOREM TypeCorrect == Spec => []TypeOK
<1>1. Init => sweeper \in BOOLEAN
    BY Zenon DEF Init
<1>2. Spec => [](sweeper \in BOOLEAN)
    BY <1>1, SweeperType, PTL DEF Spec
<1>3. Inv /\ sweeper \in BOOLEAN => TypeOK
    BY Types, Zenon DEF Inv, PlaceInv, CallInv, DialogInv, TypeOK
<1>4. QED
    BY <1>2, <1>3, Invariance, PTL

\* invoke, faultWorker, handleExit: a pending invocation is always on a member
\* of the pool, never on a worker whose frames are dropped or that is gone.
THEOREM InvocationsServed == Spec => []PendingServed
<1>1. Inv => PendingServed
    BY DEF Inv, CallInv
<1>2. QED
    BY <1>1, Invariance, PTL

\* waitForReadySlot: no caller sleeps through a worker it could use, or with
\* nothing left to wake it.
THEOREM WakeupsKept == Spec => []NoLostWakeup
<1>1. Inv => NoLostWakeup
    BY DEF Inv, CallInv
<1>2. QED
    BY <1>1, Invariance, PTL

\* shutdown: when it resolves nothing is left, whatever raced with it.
THEOREM ShutdownFinal == Spec => []ShutdownIsFinal
<1>1. Inv => ShutdownIsFinal
  <2> SUFFICES ASSUME Inv, shutPc = "done" PROVE ShutdownIsFinal
      BY DEF ShutdownIsFinal
  <2> USE DEF Inv, PlaceInv, SlotTypes, shuttingDown
  <2>1. Alive = {}
      BY DEF Alive
  <2>2. starting = {}
      BY <2>1 DEF Alive
  <2>3. \A i \in Invocations : call[i] \notin {"pending", "parked"}
      BY <2>1 DEF CallInv, PendingServed, NoLostWakeup, Members, Alive
  <2>4. registered = {} /\ app = {} /\ shown = {}
      BY <2>1 DEF DialogInv, DialogTypes, Alive
  <2>5. QED
      BY <2>1, <2>2, <2>3, <2>4 DEF ShutdownIsFinal
<1>2. QED
    BY <1>1, Invariance, PTL

\* handleDialogRequest, invalidateDialog, respondDialog: a dialog on screen
\* can be answered, one that can be answered is in the pool's registry, and
\* its worker is there.
THEOREM DialogsNested == Spec => []DialogsNest
<1>1. Inv => DialogsNest
    BY DEF Inv, PlaceInv, DialogInv, DialogTypes, DialogsNest, Alive
<1>2. QED
    BY <1>1, Invariance, PTL

\* respond after invalidateDialog: a late answer never reaches the script.
THEOREM LateAnswersDropped == Spec => []NoStaleChoice
<1>1. Inv => NoStaleChoice
    BY DEF Inv, DialogInv, NoStaleChoice
<1>2. QED
    BY <1>1, Invariance, PTL

\* pickReadySlot: a worker that is being killed or was discarded gets no call.
THEOREM DyingGetNoWork == Spec => NoWorkForTheDying
<1>1. Inv /\ [Next]_vars =>
        [\A i \in Invocations :
            call'[i] = "pending" /\ call[i] # "pending" =>
                at'[i] \notin killing \cup discarded]_vars
  <2> SUFFICES ASSUME Inv, Next, NEW j \in Invocations,
                      call'[j] = "pending", call[j] # "pending"
               PROVE  at'[j] \notin killing \cup discarded
      OBVIOUS
  <2> USE DEF Inv, PlaceInv, SlotTypes, CallInv, CallTypes, CallStates
  <2>1. CASE Start \/ Shutdown \/ StartFails \/ ShutdownDone
      BY <2>1 DEF Start, Shutdown, StartFails, ShutdownDone, Notify, Notified, Settle,
          Settled, callVars
  <2>2. CASE \E w \in Workers : WorkerStep(w)
      BY <2>2 DEF WorkerStep, HandshakeSucceeds, HandshakeFails, SpawnErrors, FaultWorker,
          MemoryExceeded, Exit, Notify, Notified, Settle, Settled, callVars
  <2>3. ASSUME NEW i \in Invocations, CallStep(i)
        PROVE  at'[j] \notin killing \cup discarded
    <3>1. CASE Invoke(i) \/ Wake(i)
        BY <3>1 DEF Invoke, Wake, Attempt, Finish, Park, Register, LeastLoaded, Pickable,
            Members, Outcomes, ErrorCodes
    <3>2. CASE ~(Invoke(i) \/ Wake(i))
        BY <2>3, <3>2 DEF CallStep, WaitDeadline, Completes, WorkerReportsFault,
            InvokeWriteFails, TimeoutInvocation, Settle, Settled
    <3>3. QED
        BY <3>1, <3>2
  <2>4. CASE \E d \in Tokens : DialogStep(d)
      BY <2>4 DEF DialogStep, DialogRequested, Respond, Sweep, MailArrives, callVars
  <2>5. QED
      BY <2>1, <2>2, <2>3, <2>4 DEF Next
<1>2. QED
    BY <1>1, Invariance, PTL DEF Spec, NoWorkForTheDying

-----------------------------------------------------------------------------
(* The pool implements CallService. *)

answers == [i \in Invocations |-> answerOf(i)]

serviceState == IF shutPc = "none" THEN "open"
                ELSE IF shutPc = "waiting" THEN "closing" ELSE "closed"

\* Steps that neither settle nor admit a call leave every answer as it is.
LEMMA AnswersKept ==
    ASSUME CallTypes,
           call' = call \/ call' = Notified(call)
    PROVE  answers' = answers
BY DEF CallTypes, CallStates, Outcomes, ErrorCodes, answers, answerOf, Notified

\* One event answers the calls it settles with an error, and nobody else.
LEMMA ErrorsAnswer ==
    ASSUME CallTypes, NEW S \in SUBSET Invocations, NEW outcome \in ErrorCodes,
           \A i \in S : call[i] = "pending",
           call' = Settled(S, outcome) \/ call' = Notified(Settled(S, outcome)),
           UNCHANGED shutPc
    PROVE  Service!Answer(S)
<1>1. S \subseteq {i \in Invocations : answers[i] = "asked"}
    BY DEF answers, answerOf
<1>2. answers' = [i \in Invocations |-> IF i \in S THEN "error" ELSE answers[i]]
    BY DEF CallTypes, CallStates, Outcomes, ErrorCodes, answers, answerOf, Notified, Settled
<1>3. QED
    BY <1>1, <1>2 DEF Service!Answer, answers

\* A turn of the wait asks, refuses, answers or changes nothing.
LEMMA AttemptsMap ==
    ASSUME PlaceInv, CallTypes, NEW i \in Invocations, Invoke(i) \/ Wake(i)
    PROVE  Service!Next \/ UNCHANGED <<answers, serviceState>>
<1> USE DEF CallTypes, CallStates, Outcomes, ErrorCodes
<1>1. Attempt(i) /\ UNCHANGED shutPc
    BY DEF Invoke, Wake, Attempt, shutVars
<1>2. UNCHANGED serviceState
    BY <1>1 DEF serviceState
<1>3. CASE \E outcome \in ErrorCodes : Finish(i, outcome)
  <2>1. answers' = [answers EXCEPT ![i] = "error"]
      BY <1>3 DEF Finish, answers, answerOf
  <2>2. CASE call[i] = "woken"
    <3>1. Service!Answer({i})
        BY <1>2, <2>1, <2>2 DEF Service!Answer, answers, answerOf, serviceState
    <3>2. QED
        BY <3>1 DEF Service!Next
  <2>3. CASE call[i] # "woken"
    <3>1. answers[i] # "asked"
        BY <2>3 DEF Invoke, Wake, answers, answerOf
    <3>2. Service!Refuse(i)
        BY <1>2, <2>1, <3>1 DEF Service!Refuse, answers, serviceState
    <3>3. QED
        BY <3>2 DEF Service!Next
  <2>4. QED
      BY <2>2, <2>3
<1>4. CASE ~shuttingDown /\ (Register(i) \/ Park(i))
  <2>1. answers' = [answers EXCEPT ![i] = "asked"]
      BY <1>4 DEF Register, Park, answers, answerOf
  <2>2. CASE call[i] = "woken"
      BY <1>2, <2>1, <2>2 DEF answers, answerOf
  <2>3. CASE call[i] # "woken"
    <3>1. answers[i] # "asked"
        BY <2>3 DEF Invoke, Wake, answers, answerOf
    <3>2. Service!Ask(i)
        BY <1>2, <1>4, <2>1, <3>1 DEF Service!Ask, answers, serviceState, shuttingDown
    <3>3. QED
        BY <3>2 DEF Service!Next
  <2>4. QED
      BY <2>2, <2>3
<1>5. QED
    BY <1>1, <1>3, <1>4 DEF Attempt

LEMMA StepsMap == Inv /\ [Next]_vars => Service!Next \/ UNCHANGED <<answers, serviceState>>
<1> SUFFICES ASSUME Inv, [Next]_vars
             PROVE  Service!Next \/ UNCHANGED <<answers, serviceState>>
    OBVIOUS
<1>0. PlaceInv /\ CallTypes /\ PendingServed
    BY DEF Inv, CallInv
<1>1. CASE Start
    BY <1>0, <1>1, AnswersKept DEF Start, callVars, shutVars, serviceState
<1>2. CASE Shutdown \/ StartFails
  <2>1. answers' = answers
      BY <1>0, <1>2, AnswersKept DEF Shutdown, StartFails, Notify
  <2>2. Service!Close
      BY <1>2, <2>1 DEF Shutdown, StartFails, shuttingDown, Service!Close, answers
  <2>3. QED
      BY <2>2 DEF Service!Next
<1>3. CASE ShutdownDone
  <2>1. {i \in Invocations : call[i] = "pending"} = {}
      BY <1>0, <1>3 DEF ShutdownDone, PlaceInv, SlotTypes, PendingServed, Members, Alive,
          shuttingDown
  <2>2. call' = call
      BY <1>0, <1>3, <2>1 DEF ShutdownDone, Settle, Settled, CallTypes
  <2>3. Service!Closed
      BY <1>0, <1>3, <2>2, AnswersKept DEF ShutdownDone, Service!Closed, answers
  <2>4. QED
      BY <2>3 DEF Service!Next
<1>4. ASSUME NEW w \in Workers, WorkerStep(w)
      PROVE  Service!Next \/ UNCHANGED <<answers, serviceState>>
  <2>1. UNCHANGED <<shutPc, serviceState>>
      BY <1>4 DEF WorkerStep, HandshakeSucceeds, HandshakeFails, SpawnErrors, FaultWorker,
          MemoryExceeded, Exit, shutVars, serviceState
  <2>2. CASE FaultWorker(w) \/ Exit(w)
    <3>1. Service!Answer(AssignedTo(w))
        BY <1>0, <2>1, <2>2, ErrorsAnswer DEF FaultWorker, Exit, Settle, AssignedTo, ErrorCodes
    <3>2. QED
        BY <3>1 DEF Service!Next, AssignedTo
  <2>3. CASE ~(FaultWorker(w) \/ Exit(w))
      BY <1>0, <1>4, <2>1, <2>3, AnswersKept DEF WorkerStep, HandshakeSucceeds,
          HandshakeFails, SpawnErrors, MemoryExceeded, Notify, callVars
  <2>4. QED
      BY <2>2, <2>3
<1>5. ASSUME NEW i \in Invocations, CallStep(i)
      PROVE  Service!Next \/ UNCHANGED <<answers, serviceState>>
  <2>1. CASE Invoke(i) \/ Wake(i)
      BY <1>0, <2>1, AttemptsMap
  <2>2. CASE WaitDeadline(i)
      BY <1>0, <2>2 DEF WaitDeadline, CallTypes, answers, answerOf, serviceState, shutVars
  <2>3. CASE WorkerReportsFault(i) \/ InvokeWriteFails(i) \/ TimeoutInvocation(i)
    <3>1. Service!Answer({i})
        BY <1>0, <2>3, ErrorsAnswer DEF WorkerReportsFault, InvokeWriteFails,
            TimeoutInvocation, Settle, ErrorCodes, shutVars
    <3>2. QED
        BY <3>1 DEF Service!Next
  <2>4. CASE Completes(i)
    <3>1. shutPc \in {"none", "waiting"} /\ UNCHANGED shutPc
        BY <1>0, <2>4 DEF Completes, Hears, PlaceInv, SlotTypes, PendingServed, Members,
            Alive, shuttingDown, shutVars
    <3>2. /\ answers[i] = "asked"
          /\ answers' = [j \in Invocations |-> IF j \in {i} THEN "result" ELSE answers[j]]
        BY <1>0, <2>4 DEF Completes, Settle, Settled, CallTypes, answers, answerOf
    <3>3. Service!Answer({i})
        BY <3>1, <3>2 DEF Service!Answer, answers
    <3>4. QED
        BY <3>3 DEF Service!Next
  <2>5. QED
      BY <1>5, <2>1, <2>2, <2>3, <2>4 DEF CallStep
<1>6. CASE \E d \in Tokens : DialogStep(d)
    BY <1>0, <1>6, AnswersKept DEF DialogStep, DialogRequested, Respond, Sweep, MailArrives,
        callVars, shutVars, serviceState
<1>7. CASE UNCHANGED vars
    BY <1>0, <1>7, AnswersKept DEF vars, callVars, shutVars, serviceState
<1>8. QED
    BY <1>1, <1>2, <1>3, <1>4, <1>5, <1>6, <1>7 DEF Next

\* invoke and settlePending: a call is answered once, and no result comes after
\* shutdown resolved.
THEOREM PoolImplementsService == Spec => ServiceSafety
<1>1. Init => Service!Init
    BY DEF Init, Service!Init, answerOf
<1>2. Inv /\ [Next]_vars => [Service!Next]_(Service!serviceVars)
    BY StepsMap DEF answers, serviceState, Service!serviceVars
<1>3. QED
    BY <1>1, <1>2, Invariance, PTL DEF Spec, ServiceSafety, Service!Safety

\* invoke() and the wake-ups: no call is left with a worker that cannot serve it.
THEOREM WorkIsServed == Spec => WorkServed
<1>1. Spec => [](PendingServed /\ NoLostWakeup)
    BY InvocationsServed, WakeupsKept, PTL
<1>2. QED
    BY <1>1, DyingGetNoWork DEF WorkServed

\* The dialog registries agree.
THEOREM DialogsAgree == Spec => []DialogsHold
<1>1. DialogsNest /\ NoStaleChoice => DialogsHold
    BY DEF DialogsHold
<1>2. QED
    BY <1>1, DialogsNested, LateAnswersDropped, PTL
=============================================================================
