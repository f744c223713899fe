-------------------------- MODULE SupervisorProofs --------------------------
(***************************************************************************)
(* What holds of BackendSupervisor for any number of requests and of       *)
(* generations.                                                            *)
(***************************************************************************)
EXTENDS BackendSupervisor, TLAPS

\* The part of the types that says how far the generations have come.
SlotTypes ==
    /\ state \in {"idle", "starting", "ready", "dead", "shutdown"}
    /\ generation \in 0..MaxGenerations /\ slot \in 0..generation
    /\ child \in [Generations -> {"none", "running", "hung", "exited"}]
    /\ ready \in SUBSET Generations /\ dead \in SUBSET Generations
    /\ cleanup \in [Generations -> {"none", "graceful", "terminating", "done", "failed"}]
    /\ startPc \in {"none", "cleanup", "handshake"} /\ awaited \in 0..MaxGenerations
    /\ heartbeat \in 0..MaxGenerations /\ ping \in SUBSET Generations
    /\ shutPc \in {"none", "waiting", "done", "failed"} /\ closing \in 0..generation

ReqTypes ==
    /\ req \in [Requests -> {"idle", "pending", "result"} \cup ErrorCodes]
    /\ to \in [Requests -> 0..MaxGenerations]
    /\ wire \in [Requests -> {"none", "sent", "answered"}]

\* A slot nobody has declared dead is the current one; only the current slot
\* and the one shutdown() closes can still have a process.
SlotInv ==
    /\ \A g \in Generations : g > generation =>
          child[g] = "none" /\ cleanup[g] = "none" /\ g \notin ready /\ g \notin dead
    /\ \A g \in Generations : child[g] # "none" /\ g \notin dead =>
          g = slot /\ state \in {"starting", "ready"}
    /\ \A g \in Generations : child[g] \in {"running", "hung"} => g = slot \/ g = closing
    /\ \A g \in Generations : cleanup[g] = "done" => child[g] \in {"none", "exited"}
    /\ \A g \in Generations : g \in dead => cleanup[g] # "none" /\ child[g] # "none"
    /\ \A g \in Generations : g \in ready => child[g] # "none"
    /\ heartbeat # 0 => heartbeat \in ready
    /\ slot # 0 => child[slot] # "none"

\* What the state says of the slot and of start().
StateInv ==
    /\ state = "shutdown" <=> shutPc # "none"
    /\ state = "shutdown" => slot = 0 /\ startPc # "handshake"
    /\ state # "shutdown" => closing = 0
    /\ state \in {"idle", "dead"} => startPc = "none" /\ (slot = 0 \/ slot \in dead)
    /\ state = "ready" => startPc = "none" /\ slot # 0 /\ slot \in ready /\ slot \notin dead
    /\ state = "starting" => startPc # "none"
    /\ startPc = "handshake" => slot # 0 /\ slot \notin dead /\ slot \notin ready
    /\ startPc = "cleanup" => generation < MaxGenerations
    /\ startPc = "cleanup" /\ state # "shutdown" =>
          state = "starting" /\ awaited = slot /\ (slot = 0 \/ slot \in dead)
    /\ closing # 0 => closing \in dead
    /\ shutPc = "done" => closing = 0 \/ cleanup[closing] = "done"

Inv == SlotTypes /\ ReqTypes /\ SlotInv /\ StateInv /\ RequestsLive

LEMMA InvInit == Init => Inv
BY GenerationsAssumption DEF Init, Inv, SlotTypes, ReqTypes, SlotInv, StateInv, RequestsLive,
    Pending, Generations

\* The death of the current slot, or of one that is dead already, keeps it all.
LEMMA DeathKeeps ==
    ASSUME Inv, NEW g \in Generations, child[g] # "none", g \notin dead, Dies(g),
           \/ UNCHANGED <<child, wire>>
           \/ /\ child' = [child EXCEPT ![g] = "exited"]
              /\ wire' \in [Requests -> {"none", "sent", "answered"}]
    PROVE  Inv'
<1> USE GenerationsAssumption DEF Generations
<1>1. g = slot /\ state \in {"starting", "ready"}
    BY DEF Inv, SlotInv
<1>2. /\ dead' = dead \cup {g}
      /\ cleanup' = [cleanup EXCEPT ![g] = IF @ = "none" THEN "terminating" ELSE @]
      /\ state' = "dead" /\ heartbeat' = 0
      /\ startPc' = IF startPc = "handshake" THEN "none" ELSE startPc
      /\ req' = Rejected(Pending, "BACKEND_DIED")
      /\ UNCHANGED <<slot, generation, ready, awaited, ping, to, shutPc, closing>>
    BY <1>1 DEF Dies, DeclareDead, shutVars
<1>3. startPc # "cleanup"
    BY <1>1 DEF Inv, StateInv
<1>4. SlotTypes'
    BY <1>2 DEF Inv, SlotTypes
<1>5. ReqTypes'
    BY <1>2 DEF Inv, ReqTypes, Rejected, ErrorCodes
<1>6. SlotInv'
    BY <1>1, <1>2 DEF Inv, SlotTypes, SlotInv
<1>7. StateInv'
    BY <1>1, <1>2, <1>3 DEF Inv, SlotTypes, StateInv
<1>8. RequestsLive'
    BY <1>2 DEF Inv, ReqTypes, RequestsLive, Pending, Rejected
<1>9. QED
    BY <1>4, <1>5, <1>6, <1>7, <1>8 DEF Inv

LEMMA StartKeeps == Inv /\ StartStep => Inv'
<1> SUFFICES ASSUME Inv, StartStep
             PROVE  Inv'
    OBVIOUS
<1> USE GenerationsAssumption DEF Generations, slotVars, beatVars, reqVars, shutVars
<1>1. CASE Start
    BY <1>1 DEF Start, Inv, SlotTypes, ReqTypes, SlotInv, StateInv, RequestsLive, Pending, Servable
<1>2. CASE StartRejected
    BY <1>2 DEF StartRejected, Inv, SlotTypes, ReqTypes, SlotInv, StateInv, RequestsLive,
        Pending, Servable
<1>3. CASE SpawnBackend
  <2>1. /\ state = "starting" /\ closing = 0 /\ shutPc = "none" /\ awaited = slot
        /\ slot # 0 => slot \in dead /\ cleanup[slot] = "done"
        /\ generation + 1 \in Generations
      BY <1>3 DEF SpawnBackend, CleanupReady, Inv, SlotTypes, StateInv
  <2>2. \A g \in Generations : child[g] \notin {"running", "hung"}
      BY <2>1 DEF Inv, SlotTypes, SlotInv
  <2>3. \A g \in Generations : child[g] # "none" => g \in dead
      BY <2>1 DEF Inv, SlotTypes, SlotInv
  <2>4. Pending = {}
      BY <2>1 DEF Inv, RequestsLive, Servable
  <2>5. SlotTypes' /\ ReqTypes'
      BY <1>3, <2>1 DEF SpawnBackend, Inv, SlotTypes, ReqTypes
  <2>6. SlotInv'
      BY <1>3, <2>1, <2>2, <2>3 DEF SpawnBackend, Inv, SlotTypes, SlotInv
  <2>7. StateInv'
      BY <1>3, <2>1 DEF SpawnBackend, Inv, SlotTypes, SlotInv, StateInv
  <2>8. RequestsLive'
      BY <1>3, <2>4 DEF SpawnBackend, RequestsLive, Pending
  <2>9. QED
      BY <2>5, <2>6, <2>7, <2>8 DEF Inv
<1>4. CASE SpawnThrows
    BY <1>4 DEF SpawnThrows, Inv, SlotTypes, ReqTypes, SlotInv, StateInv, RequestsLive,
        Pending, Servable
<1>5. QED
    BY <1>1, <1>2, <1>3, <1>4 DEF StartStep

LEMMA ShutdownKeeps == Inv /\ (Shutdown \/ ShutdownEnds) => Inv'
<1> SUFFICES ASSUME Inv, Shutdown \/ ShutdownEnds
             PROVE  Inv'
    OBVIOUS
<1> USE GenerationsAssumption DEF Generations, slotVars, startVars, beatVars, reqVars
<1>1. CASE Shutdown
  <2>1. SlotTypes'
      BY <1>1 DEF Shutdown, Inv, SlotTypes
  <2>2. ReqTypes' /\ RequestsLive'
      BY <1>1 DEF Shutdown, Inv, ReqTypes, RequestsLive, Pending, Rejected, ErrorCodes
  <2>3. SlotInv'
      BY <1>1 DEF Shutdown, Inv, SlotTypes, SlotInv, StateInv
  <2>4. StateInv'
      BY <1>1 DEF Shutdown, Inv, SlotTypes, SlotInv, StateInv
  <2>5. QED
      BY <2>1, <2>2, <2>3, <2>4 DEF Inv
<1>2. CASE ShutdownEnds
    BY <1>2 DEF ShutdownEnds, Inv, SlotTypes, ReqTypes, SlotInv, StateInv, RequestsLive,
        Pending, Servable
<1>3. QED
    BY <1>1, <1>2

\* Whatever declares a slot dead finds it alive.
LEMMA DeathCauses ==
    ASSUME Inv, NEW g \in Generations, DeathStep(g)
    PROVE  child[g] # "none" /\ g \notin dead /\ Dies(g) /\ UNCHANGED <<child, wire>>
<1>1. CASE HandshakeTimesOut(g) \/ ChildErrors(g)
    BY <1>1 DEF HandshakeTimesOut, ChildErrors
<1>2. CASE Disconnects(g)
    BY <1>2 DEF Disconnects, Inv, SlotInv
<1>3. CASE BadFrame(g)
    BY <1>3, GenerationsAssumption DEF BadFrame, Hears, Inv, SlotInv, Generations
<1>4. CASE HeartbeatFails(g)
    BY <1>4, GenerationsAssumption DEF HeartbeatFails, Beats, Inv, SlotInv, Generations
<1>5. QED
    BY <1>1, <1>2, <1>3, <1>4 DEF DeathStep

LEMMA BackendKeeps == ASSUME Inv, NEW g \in Generations, BackendStep(g) PROVE Inv'
<1> USE GenerationsAssumption DEF Generations, slotVars, startVars, beatVars, reqVars, shutVars
<1>1. CASE DeathStep(g)
  <2>1. child[g] # "none" /\ g \notin dead /\ Dies(g) /\ UNCHANGED <<child, wire>>
      BY <1>1, DeathCauses
  <2>2. QED
      BY <2>1, DeathKeeps
<1>2. CASE ChildExits(g)
  <2>1. wire' \in [Requests -> {"none", "sent", "answered"}]
      BY <1>2 DEF ChildExits, Inv, ReqTypes
  <2>2. CASE g \in dead
    <3>1. /\ child' = [child EXCEPT ![g] = "exited"]
          /\ UNCHANGED <<state, slot, generation, ready, dead, cleanup, startPc, awaited,
                         heartbeat, ping, req, to, shutPc, closing>>
        BY <1>2, <2>2 DEF ChildExits
    <3>2. SlotTypes' /\ SlotInv'
        BY <2>2, <3>1 DEF Inv, SlotTypes, SlotInv
    <3>3. StateInv'
        BY <3>1 DEF Inv, StateInv
    <3>4. ReqTypes' /\ RequestsLive'
        BY <2>1, <3>1 DEF Inv, ReqTypes, RequestsLive, Pending, Servable
    <3>5. QED
        BY <3>2, <3>3, <3>4 DEF Inv
  <2>3. CASE g \notin dead
    <3>1. child[g] # "none" /\ child' = [child EXCEPT ![g] = "exited"] /\ Dies(g)
        BY <1>2, <2>3 DEF ChildExits, Alive
    <3>2. QED
        BY <2>1, <2>3, <3>1, DeathKeeps
  <2>4. QED
      BY <2>2, <2>3
<1>3. CASE Hangs(g)
    BY <1>3 DEF Hangs, Inv, SlotTypes, ReqTypes, SlotInv, StateInv, RequestsLive, Pending,
        Servable
<1>4. CASE HandshakeSucceeds(g)
  <2>1. g = slot /\ state = "starting" /\ startPc = "handshake"
    <3>1. g = slot /\ g \notin ready /\ g \notin dead /\ g # 0 /\ child[g] # "none"
        BY <1>4 DEF HandshakeSucceeds, Hears
    <3>2. state \in {"starting", "ready"}
        BY <3>1 DEF Inv, SlotInv
    <3>3. QED
        BY <3>1, <3>2 DEF Inv, SlotTypes, StateInv
  <2>2. Pending = {}
      BY <2>1 DEF Inv, RequestsLive, Servable
  <2>3. SlotTypes' /\ ReqTypes' /\ SlotInv'
      BY <1>4, <2>1 DEF HandshakeSucceeds, Inv, SlotTypes, ReqTypes, SlotInv
  <2>4. StateInv'
      BY <1>4, <2>1 DEF HandshakeSucceeds, Hears, Inv, SlotTypes, StateInv
  <2>5. RequestsLive'
      BY <1>4, <2>2 DEF HandshakeSucceeds, RequestsLive, Pending
  <2>6. QED
      BY <2>3, <2>4, <2>5 DEF Inv
<1>5. CASE SendPing(g) \/ PingAnswered(g)
  <2>1. /\ ping' \in SUBSET Generations
        /\ UNCHANGED <<state, slot, generation, child, ready, dead, cleanup, startPc, awaited,
                       heartbeat, req, to, wire, shutPc, closing>>
      BY <1>5 DEF SendPing, PingAnswered, Inv, SlotTypes
  <2>2. SlotTypes' /\ SlotInv'
      BY <2>1 DEF Inv, SlotTypes, SlotInv
  <2>3. StateInv' /\ ReqTypes' /\ RequestsLive'
      BY <2>1 DEF Inv, StateInv, ReqTypes, RequestsLive, Pending, Servable
  <2>4. QED
      BY <2>2, <2>3 DEF Inv
<1>6. CASE GraceEnds(g) \/ TreeTerminates(g)
  <2>1. /\ cleanup[g] \in {"graceful", "terminating"}
        /\ UNCHANGED <<state, slot, generation, child, ready, dead, startPc, awaited,
                       heartbeat, ping, req, to, wire, shutPc, closing>>
      BY <1>6 DEF GraceEnds, TreeTerminates
  <2>2. PICK c \in {"terminating", "done", "failed"} :
            /\ cleanup' = [cleanup EXCEPT ![g] = c]
            /\ c = "done" => child[g] = "exited"
      BY <1>6 DEF GraceEnds, TreeTerminates
  <2>3. SlotTypes' /\ SlotInv'
      BY <2>1, <2>2 DEF Inv, SlotTypes, SlotInv
  <2>4. StateInv'
      BY <2>1, <2>2 DEF Inv, SlotTypes, StateInv
  <2>5. ReqTypes' /\ RequestsLive'
      BY <2>1 DEF Inv, ReqTypes, RequestsLive, Pending, Servable
  <2>6. QED
      BY <2>3, <2>4, <2>5 DEF Inv
<1>7. QED
    BY <1>1, <1>2, <1>3, <1>4, <1>5, <1>6 DEF BackendStep

LEMMA RequestKeeps == ASSUME Inv, NEW r \in Requests, RequestStep(r) PROVE Inv'
<1> USE DEF slotVars, startVars, beatVars, shutVars
<1>1. UNCHANGED <<state, slot, generation, child, ready, dead, cleanup, startPc, awaited,
                  heartbeat, ping, shutPc, closing>>
    BY DEF RequestStep, Request, RequestRefused, SendFails, RequestTimesOut, BackendAnswers,
        ReplyArrives
<1>2. SlotTypes' /\ SlotInv' /\ StateInv'
    BY <1>1 DEF Inv, SlotTypes, SlotInv, StateInv
<1>3. CASE Request(r)
  <2>1. ReqTypes'
    <3>1. slot \in 0..MaxGenerations
        BY GenerationsAssumption DEF Inv, SlotTypes
    <3>2. QED
        BY <1>3, <3>1 DEF Request, Inv, ReqTypes
  <2>2. Servable /\ to'[r] = slot /\ \A q \in Requests \ {r} : req'[q] = req[q] /\ to'[q] = to[q]
      BY <1>3 DEF Request, Inv, ReqTypes
  <2>3. RequestsLive'
      BY <1>1, <2>2 DEF Inv, RequestsLive, Pending, Servable
  <2>4. QED
      BY <1>2, <2>1, <2>3 DEF Inv
<1>4. CASE RequestRefused(r) \/ SendFails(r) \/ RequestTimesOut(r)
  <2>1. ReqTypes'
      BY <1>4 DEF RequestRefused, SendFails, RequestTimesOut, Inv, ReqTypes, ErrorCodes
  <2>2. Pending' \subseteq Pending /\ UNCHANGED to
      BY <1>4 DEF RequestRefused, SendFails, RequestTimesOut, Inv, ReqTypes, Pending
  <2>3. RequestsLive'
      BY <1>1, <2>2 DEF Inv, RequestsLive, Servable
  <2>4. QED
      BY <1>2, <2>1, <2>3 DEF Inv
<1>5. CASE BackendAnswers(r) \/ ReplyArrives(r)
  <2>1. ReqTypes'
      BY <1>5 DEF BackendAnswers, ReplyArrives, Inv, ReqTypes
  <2>2. Pending' \subseteq Pending /\ UNCHANGED to
      BY <1>5 DEF BackendAnswers, ReplyArrives, Inv, ReqTypes, Pending
  <2>3. RequestsLive'
      BY <1>1, <2>2 DEF Inv, RequestsLive, Servable
  <2>4. QED
      BY <1>2, <2>1, <2>3 DEF Inv
<1>6. QED
    BY <1>3, <1>4, <1>5 DEF RequestStep

LEMMA Invariance == Spec => []Inv
<1>1. Inv /\ UNCHANGED vars => Inv'
    BY DEF vars, slotVars, startVars, beatVars, reqVars, shutVars, Inv, SlotTypes, ReqTypes,
        SlotInv, StateInv, RequestsLive, Pending, Servable
<1>2. Inv /\ [Next]_vars => Inv'
    BY <1>1, StartKeeps, ShutdownKeeps, BackendKeeps, RequestKeeps DEF Next
<1>3. QED
    BY <1>2, InvInit, PTL DEF Spec

\* The state of the supervisor, its slots and its requests keeps its shape.
THEOREM TypeCorrect == Spec => []TypeOK
<1>1. Inv => TypeOK
    BY GenerationsAssumption DEF Inv, SlotTypes, ReqTypes, TypeOK
<1>2. QED
    BY <1>1, Invariance, PTL

\* startInternal and declareDead: no backend is forked while an earlier one runs.
THEOREM OneBackendOnly == Spec => []OneBackend
<1>1. Inv => OneBackend
  <2> SUFFICES ASSUME Inv, NEW g \in Alive, NEW h \in Alive
               PROVE  g = h
      BY DEF OneBackend
  <2>1. /\ g \in Generations /\ child[g] \in {"running", "hung"} /\ (g = slot \/ g = closing)
        /\ h \in Generations /\ child[h] \in {"running", "hung"} /\ (h = slot \/ h = closing)
      BY DEF Alive, Inv, SlotInv
  <2>2. slot = 0 \/ closing = 0
      BY DEF Inv, StateInv
  <2>3. g # 0 /\ h # 0
      BY <2>1, GenerationsAssumption DEF Generations
  <2>4. QED
      BY <2>1, <2>2, <2>3
<1>2. QED
    BY <1>1, Invariance, PTL

\* request, declareDead and shutdown: no request waits for a backend that is gone.
THEOREM RequestsServed == Spec => []RequestsLive
<1>1. Inv => RequestsLive
    BY DEF Inv
<1>2. QED
    BY <1>1, Invariance, PTL

\* startInternal: a supervisor that may be started has nothing left alive.
THEOREM AlwaysStartable == Spec => []Startable
<1>1. Inv => Startable
    BY GenerationsAssumption DEF Inv, SlotTypes, SlotInv, StateInv, Startable, Generations
<1>2. QED
    BY <1>1, Invariance, PTL

\* shutdown and the state start() looks at again: nothing comes back.
THEOREM ShutdownFinal == Spec => []ShutdownIsFinal
<1>1. Inv => ShutdownIsFinal
  <2> SUFFICES ASSUME Inv, shutPc = "done"
               PROVE  Alive = {} /\ Pending = {} /\ startPc # "handshake"
      BY DEF ShutdownIsFinal
  <2>1. state = "shutdown" /\ slot = 0 /\ startPc # "handshake"
      BY DEF Inv, StateInv
  <2>2. Pending = {}
      BY <2>1 DEF Inv, RequestsLive, Servable
  <2>3. ASSUME NEW g \in Generations, child[g] \in {"running", "hung"} PROVE FALSE
    <3>1. g = closing /\ g # 0
        BY <2>1, <2>3, GenerationsAssumption DEF Inv, SlotInv, Generations
    <3>2. cleanup[g] = "done"
        BY <3>1 DEF Inv, StateInv
    <3>3. QED
        BY <2>3, <3>2 DEF Inv, SlotInv
  <2>4. QED
      BY <2>1, <2>2, <2>3 DEF Alive
<1>2. QED
    BY <1>1, Invariance, PTL

-----------------------------------------------------------------------------
(* The refinement of CallService. *)

answers == [r \in Requests |-> answerOf(r)]
serviceState == IF shutPc = "none" THEN "open"
                ELSE IF shutPc = "waiting" THEN "closing" ELSE "closed"

\* One event answers the requests it rejects, and nobody else.
LEMMA ErrorsAnswer ==
    ASSUME ReqTypes, NEW S \in SUBSET Requests, NEW code \in ErrorCodes,
           \A r \in S : req[r] = "pending",
           req' = [r \in Requests |-> IF r \in S THEN code ELSE req[r]],
           UNCHANGED shutPc
    PROVE  Service!Next
<1>1. S \subseteq {r \in Requests : answers[r] = "asked"}
    BY DEF answers, answerOf
<1>2. answers' = [r \in Requests |-> IF r \in S THEN "error" ELSE answers[r]]
    BY DEF ReqTypes, ErrorCodes, answers, answerOf
<1>3. Service!Answer(S)
    BY <1>1, <1>2 DEF Service!Answer, answers
<1>4. QED
    BY <1>3 DEF Service!Next

\* The death of the backend answers what it had not.
LEMMA DeathMaps ==
    ASSUME Inv, NEW g \in Generations, child[g] # "none", g \notin dead, Dies(g)
    PROVE  Service!Next
<1>1. g = slot
    BY DEF Inv, SlotInv
<1>2. req' = Rejected(Pending, "BACKEND_DIED") /\ UNCHANGED shutPc
    BY <1>1 DEF Dies, DeclareDead, shutVars
<1>3. /\ ReqTypes
      /\ Pending \in SUBSET Requests
      /\ \A r \in Pending : req[r] = "pending"
      /\ "BACKEND_DIED" \in ErrorCodes
    BY DEF Inv, Pending, ErrorCodes
<1>4. req' = [r \in Requests |-> IF r \in Pending THEN "BACKEND_DIED" ELSE req[r]]
    BY <1>2 DEF Rejected
<1>5. QED
    BY <1>2, <1>3, <1>4, ErrorsAnswer

LEMMA RequestsMap ==
    ASSUME Inv, NEW r \in Requests, RequestStep(r)
    PROVE  Service!Next \/ UNCHANGED <<answers, serviceState>>
<1>0. ReqTypes
    BY DEF Inv
<1>1. UNCHANGED shutPc /\ UNCHANGED serviceState
    BY DEF RequestStep, Request, RequestRefused, SendFails, RequestTimesOut, BackendAnswers,
        ReplyArrives, shutVars, serviceState
<1>2. CASE Request(r)
  <2>1. answers' = [answers EXCEPT ![r] = "asked"] /\ answers[r] # "asked"
      BY <1>0, <1>2 DEF Request, ReqTypes, answers, answerOf
  <2>2. shutPc = "none"
      BY <1>2 DEF Request, Servable, Inv, StateInv
  <2>3. Service!Ask(r)
      BY <1>1, <2>1, <2>2 DEF Service!Ask, answers, serviceState
  <2>4. QED
      BY <2>3 DEF Service!Next
<1>3. CASE RequestRefused(r)
  <2>1. answers' = [answers EXCEPT ![r] = "error"] /\ answers[r] # "asked"
      BY <1>0, <1>3 DEF RequestRefused, ReqTypes, ErrorCodes, answers, answerOf
  <2>2. Service!Refuse(r)
      BY <1>1, <2>1 DEF Service!Refuse, answers, serviceState
  <2>3. QED
      BY <2>2 DEF Service!Next
<1>4. CASE SendFails(r) \/ RequestTimesOut(r)
  <2>1. PICK code \in ErrorCodes : req' = [req EXCEPT ![r] = code]
      BY <1>4 DEF SendFails, RequestTimesOut, ErrorCodes
  <2>2. req[r] = "pending" /\ req' = [q \in Requests |-> IF q \in {r} THEN code ELSE req[q]]
      BY <1>0, <1>4, <2>1 DEF SendFails, RequestTimesOut, ReqTypes
  <2>3. {r} \in SUBSET Requests /\ \A q \in {r} : req[q] = "pending"
      BY <2>2
  <2>4. QED
      BY <1>0, <1>1, <2>1, <2>2, <2>3, ErrorsAnswer
<1>5. CASE BackendAnswers(r)
    BY <1>1, <1>5 DEF BackendAnswers, answers, answerOf
<1>6. CASE ReplyArrives(r)
  <2>1. CASE Hears(to[r]) /\ req[r] = "pending"
    <3>1. /\ answers[r] = "asked"
          /\ answers' = [q \in Requests |-> IF q \in {r} THEN "result" ELSE answers[q]]
        BY <1>0, <1>6, <2>1 DEF ReplyArrives, ReqTypes, answers, answerOf
    <3>2. shutPc = "none"
        BY <2>1 DEF Hears, Inv, StateInv
    <3>3. Service!Answer({r})
        BY <1>1, <3>1, <3>2 DEF Service!Answer, answers, serviceState
    <3>4. QED
        BY <3>3 DEF Service!Next
  <2>2. CASE ~(Hears(to[r]) /\ req[r] = "pending")
      BY <1>0, <1>1, <1>6, <2>2 DEF ReplyArrives, ReqTypes, answers, answerOf
  <2>3. QED
      BY <2>1, <2>2
<1>7. QED
    BY <1>2, <1>3, <1>4, <1>5, <1>6 DEF RequestStep

LEMMA StepsMap == Inv /\ [Next]_vars => Service!Next \/ UNCHANGED <<answers, serviceState>>
<1> SUFFICES ASSUME Inv, [Next]_vars
             PROVE  Service!Next \/ UNCHANGED <<answers, serviceState>>
    OBVIOUS
<1> USE DEF reqVars, shutVars
<1>1. CASE StartStep
    BY <1>1 DEF StartStep, Start, StartRejected, SpawnBackend, SpawnThrows, answers, answerOf,
        serviceState
<1>2. CASE Shutdown
  <2>1. shutPc = "none" /\ shutPc' = "waiting" /\ req' = Rejected(Pending, "BACKEND_DIED")
      BY <1>2 DEF Shutdown, Inv, StateInv
  <2>2. answers' = [r \in Requests |-> IF answers[r] = "asked" THEN "error" ELSE answers[r]]
      BY <2>1 DEF Inv, ReqTypes, ErrorCodes, Rejected, Pending, answers, answerOf
  <2>3. Service!Close
      BY <2>1, <2>2 DEF Service!Close, answers
  <2>4. QED
      BY <2>3 DEF Service!Next
<1>3. CASE ShutdownEnds
  <2>1. shutPc = "waiting" /\ shutPc' \in {"done", "failed"} /\ UNCHANGED req
      BY <1>3 DEF ShutdownEnds
  <2>2. Service!Closed
      BY <2>1 DEF Service!Closed, answerOf
  <2>3. QED
      BY <2>2 DEF Service!Next
<1>4. ASSUME NEW g \in Generations, BackendStep(g)
      PROVE  Service!Next \/ UNCHANGED <<answers, serviceState>>
  <2>1. CASE g \notin dead /\ (DeathStep(g) \/ ChildExits(g))
    <3>1. child[g] # "none" /\ Dies(g)
        BY <2>1, DeathCauses DEF ChildExits, Alive
    <3>2. QED
        BY <2>1, <3>1, DeathMaps
  <2>2. CASE UNCHANGED <<req, shutPc>>
      BY <2>2 DEF answers, answerOf, serviceState
  <2>3. QED
      BY <1>4, <2>1, <2>2, DeathCauses DEF BackendStep, ChildExits, Hangs, HandshakeSucceeds,
          SendPing, PingAnswered, GraceEnds, TreeTerminates
<1>5. ASSUME NEW r \in Requests, RequestStep(r)
      PROVE  Service!Next \/ UNCHANGED <<answers, serviceState>>
    BY <1>5, RequestsMap
<1>6. CASE UNCHANGED vars
    BY <1>6 DEF vars, answers, answerOf, serviceState
<1>7. QED
    BY <1>1, <1>2, <1>3, <1>4, <1>5, <1>6 DEF Next

\* request, its settlement and shutdown: a request is answered once, and no
\* result comes after shutdown resolved.
THEOREM SupervisorImplementsService == Spec => ServiceSafety
<1>1. Init => Service!Init
    BY DEF Init, Service!Init, answerOf
<1>2. Inv /\ [Next]_vars => [Service!Next]_(Service!serviceVars)
    BY StepsMap DEF answers, serviceState, Service!serviceVars
<1>3. QED
    BY <1>1, <1>2, Invariance, PTL DEF Spec, ServiceSafety, Service!Safety

\* start(), restart() and shutdown(): one backend at a time, none at the end.
THEOREM BackendsTakeTurns == Spec => []BackendsInTurn
<1>1. OneBackend /\ ShutdownIsFinal => BackendsInTurn
    BY DEF BackendsInTurn
<1>2. QED
    BY <1>1, OneBackendOnly, ShutdownFinal, PTL

\* declareDead(): neither a request nor a restart is stuck with a dead backend.
THEOREM NobodyIsStuck == Spec => []NobodyStuck
<1>1. RequestsLive /\ Startable => NobodyStuck
    BY DEF NobodyStuck
<1>2. QED
    BY <1>1, RequestsServed, AlwaysStartable, PTL
=============================================================================
