----------------------------- MODULE DialogFlow -----------------------------
(***************************************************************************)
(* A dialog of a script on its way to the user and back: the registry of   *)
(* rpc-app.ts, the subscription to the event stream that all views share   *)
(* (adapters/backend.ts), and the queue of session-store.ts, of which the  *)
(* first dialog is on the screen.  ScriptWorkerPool has what lies behind   *)
(* the registry.                                                           *)
(*                                                                         *)
(* Tauri calls what is registered for an event and keeps nothing for       *)
(* later: an event that finds no listener is lost, and a dialog that the   *)
(* UI knows nothing of ends by its time limit.                             *)
(***************************************************************************)
EXTENDS Naturals, SequencesExt, FilteredSeq

CONSTANTS Tokens,       \* of the dialogs; each is used once
          Views,        \* what subscribes to the event stream
          StoreView,    \* the one that feeds the session store
          MaxResponses, \* bound on the respondDialog calls under way
          MaxDeaths     \* bound on the deaths of the backend

ASSUME DialogAssumption == StoreView \in Views /\ MaxResponses \in Nat /\ MaxDeaths \in Nat

VARIABLES
    requested,     \* tokens there were so far
    invalidated,   \* those the pool has declared invalid
    openDialogs,   \* pendingDialogs of rpc-app.ts
    respondedTo,   \* how often the pool was given an answer, of each token
    uiEvents,      \* published and not yet dispatched in the web view
    subscribed,    \* hub.listeners
    hub,           \* off; asked or live: attaching; on: unlisten # null
    natives,       \* listeners registered with Tauri
    dialogQueue,   \* state.pendingDialogs
    responses,     \* respondDialog calls under way
    deaths,        \* how often the backend has died
    unheard        \* history: tokens of which an event or a response was lost

dialogVars == <<requested, invalidated, openDialogs, respondedTo, uiEvents, subscribed, hub,
                natives, dialogQueue, responses, deaths, unheard>>

hubVars == <<subscribed, hub, natives>>
registryVars == <<requested, invalidated, openDialogs, respondedTo, deaths>>

DialogEvents == [kind : {"request", "invalidate"}, token : Tokens] \cup [kind : {"died"}]

DialogTypeOK ==
    /\ {requested, invalidated, openDialogs, unheard} \subseteq SUBSET Tokens
    /\ respondedTo \in [Tokens -> Nat]
    /\ uiEvents \in Seq(DialogEvents)
    /\ subscribed \subseteq Views
    /\ hub \in {"off", "asked", "live", "on"}
    /\ natives \in Nat
    /\ dialogQueue \in Seq(Tokens)
    /\ responses \in Seq([token : Tokens, stage : {"asked", "answered"}])
    /\ deaths \in 0..MaxDeaths

DialogInit ==
    /\ requested = {} /\ invalidated = {} /\ openDialogs = {}
    /\ respondedTo = [t \in Tokens |-> 0]
    /\ uiEvents = <<>>
    /\ subscribed = {} /\ hub = "off" /\ natives = 0
    /\ dialogQueue = <<>> /\ responses = <<>>
    /\ deaths = 0 /\ unheard = {}

-----------------------------------------------------------------------------
(* The backend. *)

\* handleDialogRequest
DialogRequested(t) ==
    /\ t \notin requested
    /\ requested' = requested \cup {t}
    /\ openDialogs' = openDialogs \cup {t}
    /\ uiEvents' = Append(uiEvents, [kind |-> "request", token |-> t])
    /\ UNCHANGED <<invalidated, respondedTo, hubVars, dialogQueue, responses, deaths, unheard>>

\* handleDialogInvalidate: at the time limit, when the worker has died, or when
\* an answer came too late for a worker that was being killed.
DialogInvalidated(t) ==
    /\ t \in requested \ invalidated
    /\ invalidated' = invalidated \cup {t}
    /\ openDialogs' = openDialogs \ {t}
    /\ uiEvents' = Append(uiEvents, [kind |-> "invalidate", token |-> t])
    /\ UNCHANGED <<requested, respondedTo, hubVars, dialogQueue, responses, deaths, unheard>>

\* rpcRespondDialog: an answer to a dialog that is not open any more is dropped.
RespondServed(i) ==
    /\ i \in DOMAIN responses /\ responses[i].stage = "asked"
    /\ responses' = [responses EXCEPT ![i].stage = "answered"]
    /\ LET t == responses[i].token
       IN /\ openDialogs' = openDialogs \ {t}
          /\ respondedTo' = IF t \in openDialogs THEN [respondedTo EXCEPT ![t] = @ + 1]
                            ELSE respondedTo
    /\ UNCHANGED <<requested, invalidated, uiEvents, hubVars, dialogQueue, deaths, unheard>>

\* A call that fails on its way.
RespondFails(i) ==
    /\ i \in DOMAIN responses /\ responses[i].stage = "asked"
    /\ responses' = [responses EXCEPT ![i].stage = "answered"]
    /\ unheard' = unheard \cup {responses[i].token}
    /\ UNCHANGED <<registryVars, uiEvents, hubVars, dialogQueue>>

\* The dialogs of a backend die with it, and what it owed fails.
DialogBackendDies ==
    /\ deaths < MaxDeaths /\ deaths' = deaths + 1
    /\ openDialogs' = {}
    /\ invalidated' = requested
    /\ uiEvents' = Append(uiEvents, [kind |-> "died"])
    /\ responses' = [i \in DOMAIN responses |-> [responses[i] EXCEPT !.stage = "answered"]]
    /\ UNCHANGED <<requested, respondedTo, hubVars, dialogQueue, unheard>>

-----------------------------------------------------------------------------
(* The subscription. *)

\* Mutant: a subscriber registers although another one is about to.
Subscribe_Again(v) ==
    /\ v \notin subscribed
    /\ subscribed' = subscribed \cup {v}
    /\ hub' = IF hub = "on" THEN hub ELSE "asked"
    /\ UNCHANGED <<registryVars, uiEvents, natives, dialogQueue, responses, unheard>>

\* subscribe and ensureAttached.
Subscribe(v) ==
    /\ v \notin subscribed
    /\ subscribed' = subscribed \cup {v}
    /\ hub' = IF hub = "off" THEN "asked" ELSE hub
    /\ UNCHANGED <<registryVars, uiEvents, natives, dialogQueue, responses, unheard>>

\* The handle that subscribe returns: the last one unregisters, unless the
\* registration is still under way.
Unsubscribe(v) ==
    /\ v \in subscribed
    /\ subscribed' = subscribed \ {v}
    /\ IF subscribed' = {} /\ hub = "on"
       THEN hub' = "off" /\ natives' = natives - 1
       ELSE UNCHANGED <<hub, natives>>
    /\ UNCHANGED <<registryVars, uiEvents, dialogQueue, responses, unheard>>

\* listen() has reached Tauri.
ListenerLive ==
    /\ hub = "asked"
    /\ hub' = "live" /\ natives' = natives + 1
    /\ UNCHANGED <<registryVars, uiEvents, subscribed, dialogQueue, responses, unheard>>

\* The promise of listen(): nobody may be interested any more.
ListenResolves ==
    /\ hub = "live"
    /\ IF subscribed = {} THEN hub' = "off" /\ natives' = natives - 1
       ELSE hub' = "on" /\ UNCHANGED natives
    /\ UNCHANGED <<registryVars, uiEvents, subscribed, dialogQueue, responses, unheard>>

\* It is rejected: nothing is heard before another subscriber comes.
ListenFails ==
    /\ hub = "asked"
    /\ hub' = "off"
    /\ UNCHANGED <<registryVars, uiEvents, subscribed, natives, dialogQueue, responses, unheard>>

-----------------------------------------------------------------------------
(* The store. *)

NextUiEvent(kind) ==
    uiEvents # <<>> /\ Head(uiEvents).kind = kind /\ uiEvents' = Tail(uiEvents)

Heard == natives > 0 /\ StoreView \in subscribed

Without(queue, token) == Filtered(queue, {k \in DOMAIN queue : queue[k] # token})

RequestHeard ==
    /\ Heard /\ NextUiEvent("request")
    /\ dialogQueue' = IF Contains(dialogQueue, Head(uiEvents).token) THEN dialogQueue
                      ELSE Append(dialogQueue, Head(uiEvents).token)
    /\ UNCHANGED <<registryVars, hubVars, responses, unheard>>

InvalidateHeard ==
    /\ Heard /\ NextUiEvent("invalidate")
    /\ dialogQueue' = Without(dialogQueue, Head(uiEvents).token)
    /\ UNCHANGED <<registryVars, hubVars, responses, unheard>>

\* markGuardianDead
DeathHeard ==
    /\ Heard /\ NextUiEvent("died")
    /\ dialogQueue' = <<>>
    /\ UNCHANGED <<registryVars, hubVars, responses, unheard>>

EventUnheard ==
    /\ ~Heard /\ uiEvents # <<>>
    /\ uiEvents' = Tail(uiEvents)
    /\ unheard' = IF Head(uiEvents).kind = "died" THEN requested
                  ELSE unheard \cup {Head(uiEvents).token}
    /\ UNCHANGED <<registryVars, hubVars, dialogQueue, responses>>

\* respondDialog for the dialog on the screen: a button, and the closing of the
\* overlay, which an answer under way does not disable.
UserResponds ==
    /\ dialogQueue # <<>> /\ Len(responses) < MaxResponses
    /\ responses' = Append(responses, [token |-> Head(dialogQueue), stage |-> "asked"])
    /\ UNCHANGED <<registryVars, uiEvents, hubVars, dialogQueue, unheard>>

\* Answered, too late or failed: the dialog leaves the queue.
RespondReturns(i) ==
    /\ i \in DOMAIN responses /\ responses[i].stage = "answered"
    /\ dialogQueue' = Without(dialogQueue, responses[i].token)
    /\ responses' = RemoveAt(responses, i)
    /\ UNCHANGED <<registryVars, uiEvents, hubVars, unheard>>

DialogNext ==
    \/ \E t \in Tokens : DialogRequested(t) \/ DialogInvalidated(t)
    \/ \E i \in DOMAIN responses : RespondServed(i) \/ RespondFails(i) \/ RespondReturns(i)
    \/ DialogBackendDies
    \/ \E v \in Views : Subscribe(v) \/ Unsubscribe(v)
    \/ ListenerLive \/ ListenResolves \/ ListenFails
    \/ RequestHeard \/ InvalidateHeard \/ DeathHeard \/ EventUnheard
    \/ UserResponds

DialogSpec == DialogInit /\ [][DialogNext]_dialogVars

-----------------------------------------------------------------------------
\* Properties.

\* However views come and go while listen() is under way, there is one listener
\* of Tauri while the subscription stands and none when it is off, so that no
\* event is handled twice (adapters/backend.ts:345, 354).
ListensOnce ==
    /\ hub \in {"live", "on"} => natives = 1
    /\ hub \in {"off", "asked"} => natives = 0
    /\ hub = "on" => subscribed # {}

\* Once all events and answers are in, the queue has the dialogs the backend
\* waits for and no others, in whatever order the user, the time limit, the
\* death of a worker or of the backend came first (session-store.ts:983, 1096):
\* except those whose event or answer was lost.
QueueIsOpenDialogs ==
    uiEvents = <<>> /\ responses = <<>> =>
        \A t \in requested \ unheard : Contains(dialogQueue, t) <=> t \in openDialogs

\* The script gets one answer, however often the user has responded, and none
\* for a dialog that is still open (rpc-app.ts:668).
RespondedOnce == \A t \in Tokens : respondedTo[t] <= (IF t \in openDialogs THEN 0 ELSE 1)

\* All three: a dialog is shown as long as it is open, and answered once.
DialogsFollow == ListensOnce /\ QueueIsOpenDialogs /\ RespondedOnce
=============================================================================
