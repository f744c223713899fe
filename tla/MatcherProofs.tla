---------------------------- MODULE MatcherProofs ----------------------------
(***************************************************************************)
(* What holds of MatcherService for any number of callers and any queue    *)
(* limit.                                                                  *)
(***************************************************************************)
EXTENDS MatcherService, TLAPS

SlotTypes ==
    /\ startPc \in {"none", "pending", "ok", "failed"}
    /\ worker \in {"none", "alive", "dead"}
    /\ cleanup \in {"none", "terminating", "done", "unconfirmed"}
    /\ spawning \in {"none", "start", "replenish"}
    /\ shutPc \in {"none", "waiting", "done"}

Flags ==
    ready \in BOOLEAN /\ killing \in BOOLEAN /\ again \in BOOLEAN /\ link \in BOOLEAN
    /\ overlap \in BOOLEAN

CallTypes ==
    /\ queue \in Seq(Callers)
    /\ phase \in {"none", "waiting", "flight"}
    /\ call \in [Callers -> {"idle", "queued", "result", "timeout", "error"}]

\* An open spawn promise belongs to a worker that has not shaken hands; a worker
\* that has is killed only by killAndReplenish.
SlotInv ==
    /\ startPc = "none" => worker = "none"
    /\ worker = "none" => cleanup = "none"
    /\ spawning # "none" => worker = "alive" /\ ~ready
    /\ link => spawning = "replenish" /\ killing /\ ~again
    /\ again => cleanup = "terminating"
    /\ killing <=> cleanup # "none"
    /\ ready => worker # "none"
    /\ worker = "dead" /\ ready /\ ~killing => shuttingDown
    /\ ready /\ killing /\ ~shuttingDown => again \/ cleanup = "unconfirmed"
    /\ ~overlap

\* The queue holds the queued callers, each once; its head is dispatched.
QueueInv ==
    /\ \A i \in 1..Len(queue) : call[queue[i]] = "queued"
    /\ \A i, j \in 1..Len(queue) : queue[i] = queue[j] => i = j
    /\ phase = "none" <=> queue = << >>
    /\ phase # "none" => ~shuttingDown

\* A request in flight has a worker.
FlightInv == phase = "flight" => worker = "alive" /\ ready /\ ~killing

Inv == SlotTypes /\ Flags /\ CallTypes /\ SlotInv /\ QueueInv /\ FlightInv

LEMMA InvInit == Init => Inv
<1> SUFFICES ASSUME Init
             PROVE  Inv
    OBVIOUS
<1>1. SlotTypes /\ Flags /\ SlotInv /\ FlightInv
    BY DEF Init, SlotTypes, Flags, SlotInv, FlightInv, shuttingDown
<1>2. CallTypes /\ QueueInv
    BY DEF Init, CallTypes, QueueInv, shuttingDown
<1>3. QED
    BY <1>1, <1>2 DEF Inv

\* The head leaves the queue, and the next request takes its place.
LEMMA SettleKeeps ==
    ASSUME CallTypes, QueueInv, phase # "none",
           NEW outcome \in {"result", "timeout", "error"}, NEW usable \in BOOLEAN,
           Settle(outcome, usable), UNCHANGED shutPc
    PROVE  CallTypes' /\ QueueInv' /\ (phase' = "flight" => usable)
<1>1. queue # << >> /\ Head(queue) = queue[1] /\ Head(queue) \in Callers
    BY DEF CallTypes, QueueInv
<1>2. queue' = Tail(queue) /\ queue' \in Seq(Callers) /\ Len(queue') = Len(queue) - 1
    BY <1>1 DEF Settle, CallTypes
<1>3. \A i \in 1..Len(queue') : i + 1 \in 2..Len(queue) /\ queue'[i] = queue[i + 1]
    BY <1>1, <1>2 DEF CallTypes
<1>4. phase' = Dispatched(queue', usable) /\ call' = [call EXCEPT ![queue[1]] = outcome]
    BY <1>1 DEF Settle
<1>5. CallTypes'
    BY <1>2, <1>4 DEF CallTypes, Dispatched
<1>6. \A i \in 1..Len(queue') : queue'[i] # queue[1] /\ call[queue'[i]] = "queued"
    BY <1>1, <1>2, <1>3 DEF QueueInv, CallTypes
<1>7. \A i \in 1..Len(queue') : call'[queue'[i]] = "queued"
    BY <1>2, <1>4, <1>6 DEF CallTypes
<1>8. \A i, j \in 1..Len(queue') : queue'[i] = queue'[j] => i = j
    BY <1>2, <1>3 DEF QueueInv
<1>9. QueueInv' /\ (phase' = "flight" => usable)
    BY <1>4, <1>7, <1>8 DEF QueueInv, Dispatched, shuttingDown
<1>10. QED
    BY <1>5, <1>9

\* settleInFlight takes the request in flight, if there is one, off the worker.
LEMMA FailKeeps ==
    ASSUME CallTypes, QueueInv, FailInFlight, UNCHANGED shutPc
    PROVE  CallTypes' /\ QueueInv' /\ phase' # "flight"
<1>1. CASE phase = "flight"
  <2>1. Settle("error", FALSE)
      BY <1>1 DEF FailInFlight
  <2>2. QED
      BY <1>1, <2>1, SettleKeeps
<1>2. CASE phase # "flight"
    BY <1>2 DEF FailInFlight, callVars, CallTypes, QueueInv, shuttingDown
<1>3. QED
    BY <1>1, <1>2

\* A ready worker that is killed by killAndReplenish.
LEMMA KillKeeps ==
    ASSUME SlotTypes, Flags, SlotInv, worker = "alive", ~killing, ~shuttingDown, KillAndReplenish
    PROVE  SlotTypes' /\ Flags' /\ SlotInv'
<1>1. cleanup = "none" /\ cleanup' = "terminating"
    BY DEF SlotInv, KillAndReplenish, Kill
<1>2. SlotTypes' /\ Flags'
    BY <1>1 DEF SlotTypes, Flags, KillAndReplenish, Kill
<1>3. SlotInv'
    BY <1>1 DEF SlotTypes, Flags, SlotInv, KillAndReplenish, Kill, shuttingDown
<1>4. QED
    BY <1>2, <1>3

LEMMA WorkerKeeps == Inv /\ (Start \/ WorkerStep) => Inv'
<1> SUFFICES ASSUME Inv, Start \/ WorkerStep
             PROVE  Inv'
    OBVIOUS
<1> USE DEF chainVars, callVars
<1>0. SlotTypes /\ Flags /\ CallTypes /\ SlotInv /\ QueueInv /\ FlightInv
    BY DEF Inv
<1>1. CASE Start
  <2>1. SlotTypes' /\ Flags' /\ SlotInv'
      BY <1>0, <1>1 DEF Start, SpawnWorker, SlotTypes, Flags, SlotInv, shuttingDown
  <2>2. UNCHANGED <<queue, phase, call, shutPc>>
      BY <1>1 DEF Start
  <2>3. CallTypes' /\ QueueInv'
      BY <1>0, <2>2 DEF CallTypes, QueueInv, shuttingDown
  <2>4. FlightInv'
      BY <1>0, <1>1, <2>2 DEF Start, SlotInv, FlightInv
  <2>5. QED
      BY <2>1, <2>3, <2>4 DEF Inv
<1>2. CASE HandshakeSucceeds
  <2>1. SlotTypes' /\ Flags' /\ SlotInv'
      BY <1>0, <1>2 DEF HandshakeSucceeds, Hears, StartSettled, SlotTypes, Flags, SlotInv,
          shuttingDown
  <2>2. /\ UNCHANGED <<queue, call, shutPc>> /\ ~shuttingDown
        /\ phase' = IF queue = << >> THEN "none" ELSE "flight"
      BY <1>2 DEF HandshakeSucceeds, Hears, Dispatched
  <2>3. CallTypes' /\ QueueInv'
      BY <1>0, <2>2 DEF CallTypes, QueueInv, shuttingDown
  <2>4. FlightInv'
      BY <1>0, <1>2 DEF HandshakeSucceeds, Hears, FlightInv
  <2>5. QED
      BY <2>1, <2>3, <2>4 DEF Inv
<1>3. CASE HandshakeFails
  <2>1. SlotTypes' /\ Flags' /\ SlotInv'
      BY <1>0, <1>3 DEF HandshakeFails, Kill, StartSettled, SlotTypes, Flags, SlotInv,
          shuttingDown
  <2>2. CallTypes' /\ QueueInv'
      BY <1>0, <1>3 DEF HandshakeFails, CallTypes, QueueInv, shuttingDown
  <2>3. FlightInv'
      BY <1>0, <1>3 DEF HandshakeFails, SlotInv, FlightInv
  <2>4. QED
      BY <2>1, <2>2, <2>3 DEF Inv
<1>4. CASE BadFrame
  <2>1. SlotTypes' /\ Flags' /\ SlotInv'
      BY <1>0, <1>4, KillKeeps DEF BadFrame, Hears
  <2>2. CallTypes' /\ QueueInv' /\ phase' # "flight"
      BY <1>0, <1>4, FailKeeps DEF BadFrame, KillAndReplenish
  <2>3. QED
      BY <2>1, <2>2 DEF Inv, FlightInv
<1>5. CASE ClosesUnready \/ ClosesKilled
  <2>1. SlotTypes' /\ Flags' /\ SlotInv'
    <3>1. CASE ClosesUnready
      <4>1. CASE link /\ ~shuttingDown
          BY <1>0, <3>1, <4>1 DEF ClosesUnready, SpawnWorker, StartSettled, SlotTypes, Flags,
              SlotInv, shuttingDown
      <4>2. CASE ~(link /\ ~shuttingDown)
          BY <1>0, <3>1, <4>2 DEF ClosesUnready, StartSettled, SlotTypes, Flags, SlotInv,
              shuttingDown
      <4>3. QED
          BY <4>1, <4>2
    <3>2. CASE ClosesKilled
        BY <1>0, <3>2 DEF ClosesKilled, SlotTypes, Flags, SlotInv, shuttingDown
    <3>3. QED
        BY <1>5, <3>1, <3>2
  <2>2. CallTypes' /\ QueueInv'
      BY <1>0, <1>5 DEF ClosesUnready, ClosesKilled, CallTypes, QueueInv, shuttingDown
  <2>3. FlightInv'
      BY <1>0, <1>5 DEF ClosesUnready, ClosesKilled, FlightInv, QueueInv
  <2>4. QED
      BY <2>1, <2>2, <2>3 DEF Inv
<1>6. CASE ClosesUnexpectedly
  <2>1. SlotTypes' /\ Flags' /\ SlotInv'
      BY <1>0, <1>6 DEF ClosesUnexpectedly, Usable, SpawnWorker, SlotTypes, Flags, SlotInv,
          shuttingDown
  <2>2. CallTypes' /\ QueueInv' /\ phase' # "flight"
      BY <1>0, <1>6, FailKeeps DEF ClosesUnexpectedly
  <2>3. QED
      BY <2>1, <2>2 DEF Inv, FlightInv
<1>7. CASE CleanupEnds
  <2>1. SlotTypes' /\ Flags' /\ SlotInv'
      BY <1>0, <1>7 DEF CleanupEnds, Respawns, Linked, SpawnWorker, SlotTypes, Flags, SlotInv,
          shuttingDown
  <2>2. CallTypes' /\ QueueInv'
      BY <1>0, <1>7 DEF CleanupEnds, CallTypes, QueueInv, shuttingDown
  <2>3. FlightInv'
      BY <1>0, <1>7 DEF CleanupEnds, SlotInv, FlightInv
  <2>4. QED
      BY <2>1, <2>2, <2>3 DEF Inv
<1>8. QED
    BY <1>1, <1>2, <1>3, <1>4, <1>5, <1>6, <1>7 DEF WorkerStep

LEMMA CallKeeps == Inv /\ CallStep => Inv'
<1> SUFFICES ASSUME Inv, CallStep
             PROVE  Inv'
    OBVIOUS
<1>0. SlotTypes /\ Flags /\ CallTypes /\ SlotInv /\ QueueInv /\ FlightInv
    BY DEF Inv
<1>1. CASE WaitDeadline \/ Answered
  <2>1. phase # "none" /\ UNCHANGED <<startPc, slotVars, chainVars, shutPc>>
      BY <1>1 DEF WaitDeadline, Answered
  <2>2. SlotTypes' /\ Flags' /\ SlotInv'
      BY <1>0, <2>1 DEF slotVars, chainVars, SlotTypes, Flags, SlotInv, shuttingDown
  <2>3. \E outcome \in {"result", "timeout", "error"} : Settle(outcome, Usable)
    <3>1. CASE WaitDeadline
        BY <3>1 DEF WaitDeadline
    <3>2. CASE Answered
      <4>1. PICK outcome \in {"result", "error"} : Settle(outcome, TRUE)
          BY <3>2 DEF Answered
      <4>2. Usable
          BY <3>2 DEF Answered
      <4>3. Settle(outcome, Usable)
          BY <4>1, <4>2 DEF Settle, Dispatched
      <4>4. QED
          BY <4>3
    <3>3. QED
        BY <1>1, <3>1, <3>2
  <2>4. Usable \in BOOLEAN
      BY <1>0 DEF Usable, Flags
  <2>5. CallTypes' /\ QueueInv' /\ (phase' = "flight" => Usable)
      BY <1>0, <2>1, <2>3, <2>4, SettleKeeps
  <2>6. FlightInv'
      BY <2>1, <2>5 DEF FlightInv, Usable, slotVars
  <2>7. QED
      BY <2>2, <2>5, <2>6 DEF Inv
<1>2. CASE MatchDeadline \/ WriteFails
  <2>1. phase = "flight" /\ KillAndReplenish /\ worker = "alive" /\ ~killing /\ ~shuttingDown
      BY <1>0, <1>2 DEF MatchDeadline, WriteFails, FlightInv, QueueInv
  <2>2. SlotTypes' /\ Flags' /\ SlotInv'
      BY <1>0, <2>1, KillKeeps
  <2>3. \E outcome \in {"result", "timeout", "error"} : Settle(outcome, FALSE)
      BY <1>2 DEF MatchDeadline, WriteFails
  <2>4. CallTypes' /\ QueueInv' /\ phase' # "flight"
      BY <1>0, <2>1, <2>3, SettleKeeps DEF KillAndReplenish
  <2>5. QED
      BY <2>2, <2>4 DEF Inv, FlightInv
<1>3. QED
    BY <1>1, <1>2 DEF CallStep

LEMMA MatchKeeps ==
    ASSUME Inv, NEW c \in Callers, MatchBatch(c) \/ MatchRefused(c)
    PROVE  Inv'
<1>0. SlotTypes /\ Flags /\ CallTypes /\ SlotInv /\ QueueInv /\ FlightInv
    BY DEF Inv
<1>1. UNCHANGED <<startPc, slotVars, chainVars, shutPc>>
    BY DEF MatchBatch, MatchRefused
<1>2. SlotTypes' /\ Flags' /\ SlotInv'
    BY <1>0, <1>1 DEF slotVars, chainVars, SlotTypes, Flags, SlotInv, shuttingDown
<1>3. CASE MatchBatch(c)
  <2>1. /\ call[c] # "queued" /\ ~shuttingDown
        /\ call' = [call EXCEPT ![c] = "queued"]
        /\ queue' = Append(queue, c)
        /\ phase' = IF phase = "none" THEN Dispatched(queue', Usable) ELSE phase
      BY <1>3 DEF MatchBatch
  <2>2. /\ queue' \in Seq(Callers) /\ Len(queue') = Len(queue) + 1 /\ queue' # << >>
        /\ queue'[Len(queue) + 1] = c
        /\ \A i \in 1..Len(queue) : queue'[i] = queue[i] /\ queue[i] # c
      BY <1>0, <2>1 DEF CallTypes, QueueInv
  <2>3. CallTypes'
      BY <1>0, <2>1, <2>2 DEF CallTypes, Dispatched
  <2>4. \A i \in 1..Len(queue') : i = Len(queue) + 1 \/ i \in 1..Len(queue)
      BY <1>0, <2>2 DEF CallTypes
  <2>5. \A i \in 1..Len(queue') : call'[queue'[i]] = "queued"
      BY <1>0, <2>1, <2>2, <2>4 DEF CallTypes, QueueInv
  <2>6. \A i, j \in 1..Len(queue') : queue'[i] = queue'[j] => i = j
      BY <1>0, <2>2, <2>4 DEF QueueInv
  <2>7. QueueInv'
      BY <1>0, <1>1, <2>1, <2>2, <2>5, <2>6 DEF QueueInv, Dispatched, shuttingDown
  <2>8. FlightInv'
      BY <1>0, <1>1, <2>1 DEF FlightInv, Dispatched, Usable, slotVars
  <2>9. QED
      BY <1>2, <2>3, <2>7, <2>8 DEF Inv
<1>4. CASE MatchRefused(c)
  <2>1. call[c] # "queued" /\ call' = [call EXCEPT ![c] = "error"] /\ UNCHANGED <<queue, phase>>
      BY <1>4 DEF MatchRefused
  <2>2. CallTypes'
      BY <1>0, <2>1 DEF CallTypes
  <2>3. \A i \in 1..Len(queue) : queue[i] # c /\ queue[i] \in Callers
      BY <1>0, <2>1 DEF CallTypes, QueueInv
  <2>4. QueueInv'
      BY <1>0, <1>1, <2>1, <2>3 DEF CallTypes, QueueInv, shuttingDown
  <2>5. FlightInv'
      BY <1>0, <1>1, <2>1 DEF FlightInv, slotVars
  <2>6. QED
      BY <1>2, <2>2, <2>4, <2>5 DEF Inv
<1>5. QED
    BY <1>3, <1>4

LEMMA ShutdownKeeps == Inv /\ (Shutdown \/ ShutdownDone) => Inv'
<1> SUFFICES ASSUME Inv, Shutdown \/ ShutdownDone
             PROVE  Inv'
    OBVIOUS
<1>0. SlotTypes /\ Flags /\ CallTypes /\ SlotInv /\ QueueInv /\ FlightInv
    BY DEF Inv
<1>1. CASE Shutdown
  <2>1. SlotTypes' /\ Flags'
      BY <1>0, <1>1 DEF Shutdown, Kill, chainVars, SlotTypes, Flags
  <2>2. SlotInv'
    <3>1. CASE worker = "none"
        BY <1>0, <1>1, <3>1 DEF Shutdown, chainVars, SlotInv, shuttingDown
    <3>2. CASE worker # "none"
        BY <1>0, <1>1, <3>2 DEF Shutdown, Kill, chainVars, SlotTypes, SlotInv, shuttingDown
    <3>3. QED
        BY <3>1, <3>2
  <2>3. /\ queue' = << >> /\ phase' = "none" /\ shutPc' = "waiting"
        /\ call' = [c \in Callers |-> IF c \in Queued THEN "error" ELSE call[c]]
      BY <1>1 DEF Shutdown
  <2>4. CallTypes' /\ QueueInv' /\ FlightInv'
      BY <1>0, <2>3 DEF CallTypes, QueueInv, FlightInv, shuttingDown
  <2>5. QED
      BY <2>1, <2>2, <2>4 DEF Inv
<1>2. CASE ShutdownDone
  <2>1. /\ shutPc = "waiting" /\ shutPc' = "done"
        /\ UNCHANGED <<startPc, slotVars, chainVars, callVars>>
      BY <1>2 DEF ShutdownDone
  <2>2. SlotTypes' /\ Flags' /\ SlotInv'
      BY <1>0, <2>1 DEF slotVars, chainVars, SlotTypes, Flags, SlotInv, shuttingDown
  <2>3. CallTypes' /\ QueueInv' /\ FlightInv'
      BY <1>0, <2>1 DEF slotVars, callVars, CallTypes, QueueInv, FlightInv, shuttingDown
  <2>4. QED
      BY <2>2, <2>3 DEF Inv
<1>3. QED
    BY <1>1, <1>2

LEMMA Invariance == Spec => []Inv
<1>1. Inv /\ UNCHANGED vars => Inv'
  <2> SUFFICES ASSUME Inv, UNCHANGED vars
               PROVE  Inv'
      OBVIOUS
  <2>1. SlotTypes' /\ Flags' /\ SlotInv'
      BY DEF Inv, vars, slotVars, chainVars, SlotTypes, Flags, SlotInv, shuttingDown
  <2>2. CallTypes' /\ QueueInv' /\ FlightInv'
      BY DEF Inv, vars, slotVars, callVars, CallTypes, QueueInv, FlightInv, shuttingDown
  <2>3. QED
      BY <2>1, <2>2 DEF Inv
<1>2. Inv /\ [Next]_vars => Inv'
    BY <1>1, WorkerKeeps, CallKeeps, MatchKeeps, ShutdownKeeps DEF Next
<1>3. QED
    BY <1>2, InvInit, PTL DEF Spec

\* The fields of the slot, the queue and the promises keep their shape.
THEOREM TypeCorrect == Spec => []TypeOK
<1>1. Inv => TypeOK
    BY DEF Inv, SlotTypes, Flags, CallTypes, TypeOK
<1>2. QED
    BY <1>1, Invariance, PTL

\* replenish: for any history of kills, exits and failed handshakes no worker is
\* spawned beside one that is not gone.
THEOREM OneWorkerOnly == Spec => []OneWorker
<1>1. Inv => OneWorker
    BY DEF Inv, SlotInv, OneWorker
<1>2. QED
    BY <1>1, Invariance, PTL

\* killAndReplenish and the "close" handler: a ready worker that goes is replaced.
THEOREM ReadyReplaced == Spec => []ReadyWorkerReplaced
<1>1. Inv => ReadyWorkerReplaced
    BY DEF Inv, SlotInv, ReadyWorkerReplaced
<1>2. QED
    BY <1>1, Invariance, PTL

-----------------------------------------------------------------------------
(* The refinement of CallService. *)

answers == [c \in Callers |-> answerOf(c)]
serviceState == IF shutPc = "none" THEN "open"
                ELSE IF shutPc = "waiting" THEN "closing" ELSE "closed"

\* The head of the queue is answered; the service is open.
LEMMA SettleAnswers ==
    ASSUME Inv, phase # "none", NEW outcome \in {"result", "timeout", "error"},
           NEW usable \in BOOLEAN, Settle(outcome, usable), UNCHANGED shutPc
    PROVE  Service!Next
<1>1. Head(queue) \in Callers /\ call[Head(queue)] = "queued"
    BY DEF Inv, CallTypes, QueueInv
<1>2. shutPc = "none"
    BY DEF Inv, QueueInv, shuttingDown
<1> DEFINE S == {Head(queue)}
<1>3. S \subseteq {c \in Callers : answers[c] = "asked"}
    BY <1>1 DEF answers, answerOf
<1>4. PICK a \in {"result", "error"} :
          answers' = [c \in Callers |-> IF c \in S THEN a ELSE answers[c]]
  <2>1. call' = [call EXCEPT ![Head(queue)] = outcome]
      BY DEF Settle
  <2>2. CASE outcome = "result"
      BY <1>1, <2>1, <2>2 DEF Inv, CallTypes, answers, answerOf
  <2>3. CASE outcome # "result"
    <3>1. answers' = [c \in Callers |-> IF c \in S THEN "error" ELSE answers[c]]
        BY <1>1, <2>1, <2>3 DEF Inv, CallTypes, answers, answerOf
    <3>2. QED
        BY <3>1
  <2>4. QED
      BY <2>2, <2>3
<1>5. Service!Answer(S)
    BY <1>2, <1>3, <1>4 DEF Service!Answer, answers
<1>6. QED
    BY <1>1, <1>5 DEF Service!Next

LEMMA StepsMap == Inv /\ [Next]_vars => Service!Next \/ UNCHANGED <<answers, serviceState>>
<1> SUFFICES ASSUME Inv, [Next]_vars
             PROVE  Service!Next \/ UNCHANGED <<answers, serviceState>>
    OBVIOUS
<1>1. CASE UNCHANGED <<call, shutPc>>
    BY <1>1 DEF answers, answerOf, serviceState
<1>2. CASE phase # "none" /\ UNCHANGED shutPc /\
           \E outcome \in {"result", "timeout", "error"}, usable \in BOOLEAN :
               Settle(outcome, usable)
    BY <1>2, SettleAnswers
<1>3. CASE WorkerStep
  <2>1. CASE BadFrame \/ ClosesUnexpectedly
    <3>1. UNCHANGED shutPc /\ FailInFlight
        BY <2>1 DEF BadFrame, ClosesUnexpectedly, KillAndReplenish
    <3>2. QED
        BY <1>1, <1>2, <3>1 DEF FailInFlight, callVars
  <2>2. CASE ~(BadFrame \/ ClosesUnexpectedly)
      BY <1>1, <1>3, <2>2 DEF WorkerStep, HandshakeSucceeds, HandshakeFails, ClosesUnready,
          ClosesKilled, CleanupEnds, callVars
  <2>3. QED
      BY <2>1, <2>2
<1>4. CASE CallStep
  <2>1. phase # "none" /\ UNCHANGED shutPc
      BY <1>4 DEF CallStep, WaitDeadline, MatchDeadline, WriteFails, Answered, KillAndReplenish
  <2>2. Usable \in BOOLEAN
      BY DEF Inv, Flags, Usable
  <2>3. QED
      BY <1>2, <1>4, <2>1, <2>2 DEF CallStep, WaitDeadline, MatchDeadline, WriteFails, Answered
<1>5. ASSUME NEW c \in Callers, MatchBatch(c)
      PROVE  Service!Next
  <2>1. answers' = [answers EXCEPT ![c] = "asked"] /\ answers[c] # "asked"
      BY <1>5 DEF MatchBatch, Inv, CallTypes, answers, answerOf
  <2>2. Service!Ask(c)
      BY <1>5, <2>1 DEF MatchBatch, Service!Ask, answers, shuttingDown
  <2>3. QED
      BY <2>2 DEF Service!Next
<1>6. ASSUME NEW c \in Callers, MatchRefused(c)
      PROVE  Service!Next
  <2>1. answers' = [answers EXCEPT ![c] = "error"] /\ answers[c] # "asked"
      BY <1>6 DEF MatchRefused, Inv, CallTypes, answers, answerOf
  <2>2. Service!Refuse(c)
      BY <1>6, <2>1 DEF MatchRefused, Service!Refuse, answers
  <2>3. QED
      BY <2>2 DEF Service!Next
<1>7. CASE Shutdown
  <2>1. shutPc = "none" /\ shutPc' = "waiting"
      BY <1>7 DEF Shutdown, shuttingDown
  <2>2. answers' = [c \in Callers |-> IF answers[c] = "asked" THEN "error" ELSE answers[c]]
      BY <1>7 DEF Shutdown, Queued, Inv, CallTypes, answers, answerOf
  <2>3. Service!Close
      BY <2>1, <2>2 DEF Service!Close, answers
  <2>4. QED
      BY <2>3 DEF Service!Next
<1>8. CASE ShutdownDone
  <2>1. Service!Closed
      BY <1>8 DEF ShutdownDone, callVars, Service!Closed, answerOf
  <2>2. QED
      BY <2>1 DEF Service!Next
<1>9. CASE Start \/ UNCHANGED vars
    BY <1>1, <1>9 DEF Start, vars, callVars
<1>10. QED
    BY <1>3, <1>4, <1>5, <1>6, <1>7, <1>8, <1>9 DEF Next

\* matchBatch, settleInFlight and shutdown: a request is answered once, and no
\* result comes after shutdown resolved.
THEOREM MatcherImplementsService == Spec => ServiceSafety
<1>1. Init => Service!Init
    BY DEF Init, Service!Init, answerOf
<1>2. Inv /\ [Next]_vars => [Service!Next]_(Service!serviceVars)
    BY StepsMap DEF answers, serviceState, Service!serviceVars
<1>3. QED
    BY <1>1, <1>2, Invariance, PTL DEF Spec, ServiceSafety, Service!Safety

\* replenish(): one worker at a time, and one after the other.
THEOREM WorkerIsKept == Spec => []WorkerKept
<1>1. OneWorker /\ ReadyWorkerReplaced => WorkerKept
    BY DEF WorkerKept
<1>2. QED
    BY <1>1, OneWorkerOnly, ReadyReplaced, PTL
=============================================================================
