---------------------------- MODULE CallService ----------------------------
(***************************************************************************)
(* What a service behind a process boundary promises its callers, without  *)
(* processes: a request that is accepted gets exactly one answer, a result *)
(* or an error, and no result comes after the service is closed.           *)
(* ScriptWorkerPool and BackendSupervisor implement it.                    *)
(***************************************************************************)
CONSTANT Requests

VARIABLES
    answer,     \* per request: none, asked, result or error
    service     \* open, closing or closed

serviceVars == <<answer, service>>

Init ==
    /\ answer = [r \in Requests |-> "none"]
    /\ service = "open"

Ask(r) ==
    /\ service = "open"
    /\ answer[r] # "asked"
    /\ answer' = [answer EXCEPT ![r] = "asked"]
    /\ UNCHANGED service

\* A request the service turns down in the same step.
Refuse(r) ==
    /\ answer[r] # "asked"
    /\ answer' = [answer EXCEPT ![r] = "error"]
    /\ UNCHANGED service

\* One event may answer several requests: those in S, all alike.
Answer(S) ==
    /\ S \subseteq {r \in Requests : answer[r] = "asked"}
    /\ \E a \in {"result", "error"} :
          /\ a = "result" => service # "closed"
          /\ answer' = [r \in Requests |-> IF r \in S THEN a ELSE answer[r]]
    /\ UNCHANGED service

\* Closing waits for the requests in flight, or turns them all down.
Close ==
    /\ service = "open"
    /\ service' = "closing"
    /\ \/ UNCHANGED answer
       \/ answer' = [r \in Requests |-> IF answer[r] = "asked" THEN "error" ELSE answer[r]]

Closed == service = "closing" /\ service' = "closed" /\ UNCHANGED answer

Next ==
    \/ \E r \in Requests : Ask(r) \/ Refuse(r)
    \/ \E S \in SUBSET Requests : Answer(S)
    \/ Close
    \/ Closed

AnswerOne(r) == answer[r] = "asked" /\ \E S \in SUBSET Requests : r \in S /\ Answer(S)

Safety == Init /\ [][Next]_serviceVars
Spec == Safety /\ WF_serviceVars(Closed)
               /\ \A r \in Requests : WF_serviceVars(AnswerOne(r))
=============================================================================
