---------------------------- MODULE SessionStore ----------------------------
(***************************************************************************)
(* session-store.ts: what the UI shows of the backend's session, and the   *)
(* calls it has under way.  The backend is reduced to what the answers and *)
(* the events tell of it; Session has the rest.                            *)
(*                                                                         *)
(* sessionEpoch, snapshotRequest and settingsRequest are only ever         *)
(* compared with the value a call has captured, so every call carries the  *)
(* outcome of the comparison: current (no load and no death since) and     *)
(* latest (no later request of its kind).                                  *)
(*                                                                         *)
(* The backend takes the calls in the order they were made.  Answers reach *)
(* the UI in any order, also before or after the events published earlier. *)
(***************************************************************************)
EXTENDS Naturals, SequencesExt

CONSTANTS MatrixEdits, \* edits of the output matrix, written as a whole array
          FieldEdits,  \* edits of the other fields, merged one by one
          MaxStimuli,  \* bound on clicks, button scripts, hooks and deaths
          MaxCalls     \* bound on the calls under way when the user clicks

ASSUME StoreAssumption == {MaxStimuli, MaxCalls} \subseteq Nat

VARIABLES
    backend,         \* up, run, version, tree (which one it is), settings (edits), runs
    shown,           \* state.snapshot: run, version, tree, settings
    calls,           \* the calls under way, oldest first
    events,          \* published by the backend and not yet received
    connection,      \* ok or degraded
    loadingConfig, runStarting, settingsPending, lastRun,
    matrixChain,     \* busy, and the edits that wait for their turn
    stimuli,         \* how many stimuli there were
    rejoined,        \* history: a refresh has joined a getSnapshot that had been
                     \* overtaken by a state_change or a call
    unseen,          \* history: a load that the UI does not wait for any more has
                     \* replaced a configuration
    misrun           \* history: a run started with other settings than shown
                     \* by a UI that believed itself connected

storeVars == <<backend, shown, calls, events, connection, loadingConfig, runStarting,
               settingsPending, lastRun, matrixChain, stimuli, rejoined, unseen, misrun>>

history == <<rejoined, unseen, misrun>>

uiFlags == <<connection, loadingConfig, runStarting, settingsPending, lastRun, matrixChain>>

Nothing == [run |-> "none"]

BusyStates == {"loading", "active"}

IdleChain == [busy |-> FALSE, waiting |-> <<>>]

\* Without a tree there is no version.  The trees of the backend are numbered
\* from 2; number 0 is a tree it has never had.
NoVersion == 0
NoTree == 1
Garbage == 0

StoreTypeOK ==
    /\ backend.run \in {"idle", "loading", "ready", "failed", "active", "ended"}
    /\ backend.settings \subseteq MatrixEdits \cup FieldEdits
    /\ connection \in {"ok", "degraded"}
    /\ stimuli \in 0..MaxStimuli
    /\ settingsPending \in 0..stimuli
    /\ lastRun \in 0..backend.runs
    /\ \A i \in DOMAIN calls :
          /\ calls[i].op \in {"load", "refresh", "batch", "settings", "run", "button"}
          /\ calls[i].stage \in {"asked", "loading", "answered"}

StoreInit ==
    /\ \/ backend = [up |-> TRUE, run |-> "idle", version |-> NoVersion, tree |-> NoTree,
                      settings |-> {}, runs |-> 0]
          /\ shown = Nothing
       \/ backend = [up |-> TRUE, run |-> "ready", version |-> 1, tree |-> 2,
                      settings |-> {}, runs |-> 0]
          /\ shown = [run |-> "ready", version |-> 1, tree |-> 2, settings |-> {}]
    /\ calls = <<>> /\ events = <<>>
    /\ connection = "ok"
    /\ loadingConfig = FALSE /\ runStarting = FALSE
    /\ settingsPending = 0 /\ lastRun = 0
    /\ matrixChain = IdleChain
    /\ stimuli = 0 /\ rejoined = FALSE /\ unseen = FALSE /\ misrun = FALSE

-----------------------------------------------------------------------------
(* Making calls. *)

NewCall(op, arg) ==
    [op |-> op, current |-> TRUE, latest |-> TRUE, shared |-> op = "refresh",
     stage |-> "asked", arg |-> arg, answer |-> [kind |-> "none"]]

\* snapshotRequest++ and settingsRequest++.
Outdated(cs, op) == [i \in DOMAIN cs |->
                        IF cs[i].op = op THEN [cs[i] EXCEPT !.latest = FALSE] ELSE cs[i]]

\* backendRpc: any call but getSnapshot ends the sharing of getSnapshot.
Called(cs, op, arg) ==
    Append([i \in DOMAIN cs |-> [cs[i] EXCEPT !.shared = FALSE]], NewCall(op, arg))

\* sessionEpoch++: nothing under way is of the current session.
Disowned(cs) == [i \in DOMAIN cs |-> [cs[i] EXCEPT !.current = FALSE, !.shared = FALSE]]

\* refreshSnapshot joins a getSnapshot under way that is still shared; then is
\* what waits for it, startRun or a matrix edit.
Joinable(cs) == {i \in DOMAIN cs : cs[i].op = "refresh" /\ cs[i].shared}

Refresh(cs, then) ==
    /\ calls' = IF Joinable(cs) = {}
                THEN Append(Outdated(cs, "refresh"), NewCall("refresh", then))
                ELSE [i \in DOMAIN cs |-> IF i \in Joinable(cs)
                                          THEN [cs[i] EXCEPT !.latest = TRUE, !.arg = @ \cup then]
                                          ELSE cs[i]]
    /\ rejoined' = (rejoined \/ \E i \in Joinable(cs) : ~cs[i].latest)

NoRefresh(cs) == calls' = cs /\ UNCHANGED rejoined

\* The second half of updateSettings: a matrix is made of what is shown now.
Submitting(cs, s, edit) ==
    LET fields == IF edit \in MatrixEdits THEN (s.settings \cap MatrixEdits) \cup {edit}
                  ELSE {edit}
    IN Called(Outdated(Outdated(cs, "settings"), "refresh"), "settings",
              [edit |-> edit, fields |-> fields])

\* A matrix edit is through: the next one is submitted.
ChainAdvances(cs, s) ==
    IF matrixChain.waiting = <<>>
    THEN calls' = cs /\ matrixChain' = IdleChain
    ELSE /\ calls' = Submitting(cs, s, Head(matrixChain.waiting))
         /\ matrixChain' = [busy |-> TRUE, waiting |-> Tail(matrixChain.waiting)]

-----------------------------------------------------------------------------
(* The user. *)

HasTree == shown # Nothing /\ shown.tree # NoTree

Stimulus == stimuli < MaxStimuli /\ Len(calls) < MaxCalls /\ stimuli' = stimuli + 1

\* loadConfig and reload.
Load ==
    /\ ~loadingConfig
    /\ Stimulus
    /\ calls' = Called(Outdated(Disowned(calls), "refresh"), "load", {})
    /\ loadingConfig' = TRUE
    /\ settingsPending' = 0
    /\ matrixChain' = IdleChain
    /\ UNCHANGED <<backend, shown, events, connection, runStarting, lastRun, history>>

\* applySelectionOps: one batch after the other (selectionChain), stamped with
\* the version shown when its turn comes.
Select ==
    /\ ~loadingConfig /\ HasTree
    /\ \A i \in DOMAIN calls : calls[i].current => calls[i].op # "batch"
    /\ Stimulus
    /\ calls' = Called(Outdated(calls, "refresh"), "batch", shown.version)
    /\ UNCHANGED <<backend, shown, events, uiFlags, history>>

\* updateSettings.  An edit of the matrix waits for the one before it.
Edit(edit) ==
    /\ ~loadingConfig /\ HasTree
    /\ Stimulus
    /\ settingsPending' = settingsPending + 1
    /\ IF edit \in MatrixEdits /\ matrixChain.busy
       THEN /\ matrixChain' = [matrixChain EXCEPT !.waiting = Append(@, edit)]
            /\ UNCHANGED calls
       ELSE /\ calls' = Submitting(calls, shown, edit)
            /\ matrixChain' = [matrixChain EXCEPT !.busy = @ \/ edit \in MatrixEdits]
    /\ UNCHANGED <<backend, shown, events, connection, loadingConfig, runStarting, lastRun,
                   history>>

\* Mutant: an edit that is under way does not keep a run from starting.
Start_DoesNotWait ==
    /\ ~loadingConfig /\ ~runStarting
    /\ shown.run \in {"ready", "failed", "ended"}
    /\ Stimulus
    /\ runStarting' = TRUE
    /\ calls' = Called(calls, "run", [settings |-> shown.settings, trusted |-> connection = "ok"])
    /\ UNCHANGED <<backend, shown, events, connection, loadingConfig, settingsPending,
                   lastRun, matrixChain, history>>

\* startRun, and the button that leads to it.
Start ==
    /\ ~loadingConfig /\ ~runStarting /\ settingsPending = 0
    /\ shown.run \in {"ready", "failed", "ended"}
    /\ Stimulus
    /\ runStarting' = TRUE
    /\ calls' = Called(calls, "run", [settings |-> shown.settings, trusted |-> connection = "ok"])
    /\ UNCHANGED <<backend, shown, events, connection, loadingConfig, settingsPending,
                   lastRun, matrixChain, history>>

\* invokeCustomButton, and setCustomSelectors once a configuration is loaded.
PressButton ==
    /\ ~loadingConfig /\ shown # Nothing
    /\ Stimulus
    /\ calls' = Called(calls, "button", {})
    /\ UNCHANGED <<backend, shown, events, uiFlags, history>>

-----------------------------------------------------------------------------
(* The backend. *)

Published(kind, value) == <<[kind |-> kind, value |-> value]>>

NextAsked(i) == i \in DOMAIN calls /\ calls[i].stage = "asked"
                /\ \A j \in 1..(i - 1) : calls[j].stage # "asked"

Answered(i, answer) ==
    calls' = [calls EXCEPT ![i].stage = "answered", ![i].answer = answer]

Fault == [kind |-> "error"]

Snapshot(b) == [kind |-> "ok", run |-> b.run, version |-> b.version, settings |-> b.settings,
                tree |-> IF b.version = NoVersion THEN NoTree ELSE b.tree]

Serves(i, op) == NextAsked(i) /\ backend.up /\ calls[i].op = op

IdleBackend == backend.run \notin BusyStates

Loaded == backend.version # NoVersion

\* Another tree under the next version.
Moved(b) == [b EXCEPT !.version = @ + 1, !.tree = @ + 1]

\* A call the backend refuses in the state it is in, or that finds no backend.
ServeRefused(i) ==
    /\ NextAsked(i)
    /\ \/ ~backend.up
       \/ calls[i].op \in {"load", "batch"} /\ ~IdleBackend
       \/ calls[i].op \in {"settings", "run"} /\ ~(IdleBackend /\ Loaded)
       \/ calls[i].op = "button" /\ ~Loaded
    /\ Answered(i, IF backend.up THEN Fault ELSE [kind |-> "not_ready"])
    /\ UNCHANGED <<backend, shown, events, uiFlags, stimuli, history>>

ServeSnapshot(i) ==
    /\ Serves(i, "refresh")
    /\ Answered(i, Snapshot(backend))
    /\ UNCHANGED <<backend, shown, events, uiFlags, stimuli, history>>

\* A batch of the version the tree has moves it to the next; without a tree the
\* report is empty and of version 0.
ServeBatch(i) ==
    /\ Serves(i, "batch") /\ IdleBackend
    /\ LET accepted == calls[i].arg = backend.version /\ Loaded
       IN /\ backend' = IF accepted THEN Moved(backend) ELSE backend
          /\ Answered(i, IF Loaded /\ ~accepted THEN [kind |-> "stale"]
                         ELSE [kind |-> "ok", to |-> backend'.version,
                               patches |-> backend.tree, becomes |-> backend'.tree])
    /\ UNCHANGED <<shown, events, uiFlags, stimuli, history>>

ServeSettings(i) ==
    /\ Serves(i, "settings") /\ IdleBackend /\ Loaded
    /\ LET matrix == calls[i].arg.edit \in MatrixEdits
           kept == IF matrix THEN backend.settings \cap FieldEdits ELSE backend.settings
       IN backend' = [IF matrix THEN Moved(backend) ELSE backend
                      EXCEPT !.settings = kept \cup calls[i].arg.fields]
    /\ Answered(i, [kind |-> "ok", settings |-> backend'.settings])
    /\ UNCHANGED <<shown, events, uiFlags, stimuli, history>>

ServeRun(i) ==
    /\ Serves(i, "run") /\ IdleBackend /\ Loaded
    /\ backend' = [backend EXCEPT !.run = "active", !.runs = @ + 1]
    /\ events' = events \o Published("state", "active")
    /\ Answered(i, [kind |-> "ok", run |-> backend'.runs])
    /\ misrun' = (misrun \/ (calls[i].arg.trusted /\ calls[i].arg.settings # backend.settings))
    /\ UNCHANGED <<shown, uiFlags, stimuli, rejoined, unseen>>

ServeButton(i) ==
    /\ Serves(i, "button") /\ Loaded
    /\ backend' = Moved(backend)
    /\ Answered(i, [kind |-> "ok"])
    /\ UNCHANGED <<shown, events, uiFlags, stimuli, history>>

LoadBegins(i) ==
    /\ Serves(i, "load") /\ IdleBackend
    /\ backend' = [backend EXCEPT !.run = "loading"]
    /\ events' = events \o Published("state", "loading")
    /\ calls' = [calls EXCEPT ![i].stage = "loading"]
    /\ UNCHANGED <<shown, uiFlags, stimuli, history>>

LoadEnds(i, run) ==
    /\ i \in DOMAIN calls /\ calls[i].stage = "loading"
    /\ backend' = IF run = "ready"
                  THEN [Moved(backend) EXCEPT !.run = run, !.settings = {}]
                  ELSE [backend EXCEPT !.run = run]
    /\ events' = events \o Published("state", run)
    /\ Answered(i, IF run = "ready" THEN Snapshot(backend') ELSE Fault)
    /\ unseen' = (unseen \/ (run = "ready" /\ Loaded /\ ~calls[i].current))
    /\ UNCHANGED <<shown, uiFlags, stimuli, rejoined, misrun>>

\* The scripts of a run change the tree, and nothing tells the UI.
HookChangesTree ==
    /\ backend.run = "active"
    /\ stimuli < MaxStimuli /\ stimuli' = stimuli + 1
    /\ backend' = Moved(backend)
    /\ UNCHANGED <<shown, calls, events, uiFlags, history>>

RunEnds ==
    /\ backend.run = "active"
    /\ backend' = [backend EXCEPT !.run = "ended"]
    /\ events' = events \o Published("state", "ended") \o Published("run_end", backend.runs)
    /\ UNCHANGED <<shown, calls, uiFlags, stimuli, history>>

\* The supervisor answers what the dead process owed, and starts another, whose
\* versions begin again.
BackendDies ==
    /\ backend.up
    /\ stimuli < MaxStimuli /\ stimuli' = stimuli + 1
    /\ backend' = [backend EXCEPT !.up = FALSE, !.run = "idle", !.settings = {},
                                  !.version = NoVersion]
    /\ calls' = [i \in DOMAIN calls |->
                    IF calls[i].stage = "answered" THEN calls[i]
                    ELSE [calls[i] EXCEPT !.stage = "answered", !.answer = Fault]]
    /\ events' = events \o Published("died", 0)
    /\ UNCHANGED <<shown, uiFlags, history>>

BackendRestarts ==
    /\ ~backend.up
    /\ backend' = [backend EXCEPT !.up = TRUE]
    /\ UNCHANGED <<shown, calls, events, uiFlags, stimuli, history>>

-----------------------------------------------------------------------------
(* Answers.  One that is not of the current session is dropped. *)

Arrives(i, op) == i \in DOMAIN calls /\ calls[i].stage = "answered" /\ calls[i].op = op

Rest(i) == RemoveAt(calls, i)

DropAnswer(i) ==
    /\ i \in DOMAIN calls /\ calls[i].stage = "answered" /\ ~calls[i].current
    /\ calls' = Rest(i)
    /\ UNCHANGED <<backend, shown, events, uiFlags, stimuli, history>>

\* storeSnapshot.
Showing(answer) == [run |-> answer.run, version |-> answer.version,
                    tree |-> answer.tree, settings |-> answer.settings]

LoadReturns(i) ==
    /\ Arrives(i, "load") /\ calls[i].current
    /\ loadingConfig' = FALSE
    /\ calls' = Rest(i)
    /\ IF calls[i].answer.kind = "ok"
       THEN /\ shown' = Showing(calls[i].answer)
            /\ connection' = "ok"
            /\ lastRun' = 0
       ELSE /\ connection' = "degraded"
            /\ UNCHANGED <<shown, lastRun>>
    /\ UNCHANGED <<backend, events, runStarting, settingsPending, matrixChain, stimuli,
                   history>>

\* BACKEND_NOT_READY: the same load asks again, until its deadline.
LoadRetries(i) ==
    /\ Arrives(i, "load") /\ calls[i].current
    /\ calls[i].answer.kind = "not_ready"
    /\ calls' = Called(Rest(i), "load", {})
    /\ UNCHANGED <<backend, shown, events, uiFlags, stimuli, history>>

\* The snapshot is stored if no later request and no state_change overtook it;
\* what waited for it goes on in any case.
RefreshReturns(i) ==
    /\ Arrives(i, "refresh") /\ calls[i].current
    /\ LET answer == calls[i].answer
           fresh == calls[i].latest /\ answer.kind = "ok"
       IN /\ shown' = IF fresh THEN Showing(answer) ELSE shown
          /\ connection' = IF ~calls[i].latest THEN connection
                           ELSE IF fresh THEN "ok" ELSE "degraded"
    /\ runStarting' = (runStarting /\ "start" \notin calls[i].arg)
    /\ IF "matrix" \in calls[i].arg
       THEN settingsPending' = settingsPending - 1 /\ ChainAdvances(Rest(i), shown')
       ELSE calls' = Rest(i) /\ UNCHANGED <<settingsPending, matrixChain>>
    /\ UNCHANGED <<backend, events, loadingConfig, lastRun, stimuli, history>>

\* The report patches the tree it was made for, and no other; that of a backend
\* without a tree is empty.
Patched(s, from, answer) ==
    IF s.version # from THEN s
    ELSE [s EXCEPT !.version = answer.to,
                   !.tree = IF answer.to = NoVersion THEN @
                            ELSE IF @ = answer.patches THEN answer.becomes ELSE Garbage]

BatchReturns(i) ==
    /\ Arrives(i, "batch") /\ calls[i].current
    /\ LET answer == calls[i].answer
       IN /\ shown' = IF answer.kind = "ok" THEN Patched(shown, calls[i].arg, answer)
                      ELSE shown
          /\ IF answer.kind = "stale" THEN Refresh(Rest(i), {}) ELSE NoRefresh(Rest(i))
    /\ UNCHANGED <<backend, events, uiFlags, stimuli, unseen, misrun>>

\* Mutant: the wait for a matrix edit ends with its answer and again with the snapshot.
SettingsReturn_EndsTwice(i) ==
    /\ Arrives(i, "settings") /\ calls[i].current
    /\ LET matrix == calls[i].arg.edit \in MatrixEdits
           counts == calls[i].latest /\ calls[i].answer.kind = "ok"
       IN /\ shown' = IF counts THEN [shown EXCEPT !.settings = calls[i].answer.settings]
                      ELSE shown
          /\ settingsPending' = settingsPending - 1
          /\ IF ~matrix THEN NoRefresh(Rest(i)) /\ UNCHANGED matrixChain
             ELSE IF counts THEN Refresh(Rest(i), {"matrix"}) /\ UNCHANGED matrixChain
             ELSE ChainAdvances(Rest(i), shown) /\ UNCHANGED rejoined
    /\ UNCHANGED <<backend, events, connection, loadingConfig, runStarting, lastRun, stimuli,
                   unseen, misrun>>

\* The answer is the whole of the settings; only that of the last edit counts.
SettingsReturn(i) ==
    /\ Arrives(i, "settings") /\ calls[i].current
    /\ LET matrix == calls[i].arg.edit \in MatrixEdits
           counts == calls[i].latest /\ calls[i].answer.kind = "ok"
       IN /\ shown' = IF counts THEN [shown EXCEPT !.settings = calls[i].answer.settings]
                      ELSE shown
          /\ settingsPending' = IF counts /\ matrix THEN settingsPending
                                ELSE settingsPending - 1
          /\ IF ~matrix THEN NoRefresh(Rest(i)) /\ UNCHANGED matrixChain
             ELSE IF counts THEN Refresh(Rest(i), {"matrix"}) /\ UNCHANGED matrixChain
             ELSE ChainAdvances(Rest(i), shown) /\ UNCHANGED rejoined
    /\ UNCHANGED <<backend, events, connection, loadingConfig, runStarting, lastRun, stimuli,
                   unseen, misrun>>

\* The result of an earlier run goes, unless the run is already over.
RunReturns(i) ==
    /\ Arrives(i, "run") /\ calls[i].current
    /\ IF calls[i].answer.kind = "ok"
       THEN /\ lastRun' = IF lastRun = calls[i].answer.run THEN lastRun ELSE 0
            /\ Refresh(Rest(i), {"start"})
            /\ UNCHANGED runStarting
       ELSE /\ NoRefresh(Rest(i))
            /\ runStarting' = FALSE
            /\ UNCHANGED lastRun
    /\ UNCHANGED <<backend, shown, events, connection, loadingConfig, settingsPending,
                   matrixChain, stimuli, unseen, misrun>>

ButtonReturns(i) ==
    /\ Arrives(i, "button") /\ calls[i].current
    /\ IF calls[i].answer.kind = "ok" THEN Refresh(Rest(i), {}) ELSE NoRefresh(Rest(i))
    /\ UNCHANGED <<backend, shown, events, uiFlags, stimuli, unseen, misrun>>

-----------------------------------------------------------------------------
(* Events: recordBackendEvent. *)

NextEvent(kind) == events # <<>> /\ Head(events).kind = kind /\ events' = Tail(events)

\* Mutant: a snapshot that was taken before is still stored.
StateChanges_KeepsRequest ==
    /\ NextEvent("state")
    /\ shown' = IF shown = Nothing THEN shown ELSE [shown EXCEPT !.run = Head(events).value]
    /\ UNCHANGED <<backend, calls, uiFlags, stimuli, history>>

StateChanges ==
    /\ NextEvent("state")
    /\ calls' = Outdated(calls, "refresh")
    /\ shown' = IF shown = Nothing THEN shown ELSE [shown EXCEPT !.run = Head(events).value]
    /\ UNCHANGED <<backend, uiFlags, stimuli, history>>

RunEndArrives ==
    /\ NextEvent("run_end")
    /\ lastRun' = Head(events).value
    /\ UNCHANGED <<backend, shown, calls, connection, loadingConfig, runStarting,
                   settingsPending, matrixChain, stimuli, history>>

\* markGuardianDead: everything under way is disowned; the snapshot stays.
DeathArrives ==
    /\ NextEvent("died")
    /\ calls' = Disowned(calls)
    /\ connection' = "degraded"
    /\ loadingConfig' = FALSE /\ runStarting' = FALSE
    /\ settingsPending' = 0 /\ lastRun' = 0
    /\ matrixChain' = IdleChain
    /\ UNCHANGED <<backend, shown, stimuli, history>>

StoreNext ==
    \/ Load \/ Select \/ Start \/ PressButton
    \/ \E edit \in MatrixEdits \cup FieldEdits : Edit(edit)
    \/ \E i \in DOMAIN calls :
          \/ ServeRefused(i) \/ ServeSnapshot(i) \/ ServeBatch(i) \/ ServeSettings(i)
          \/ ServeRun(i) \/ ServeButton(i)
          \/ LoadBegins(i) \/ \E run \in {"ready", "failed"} : LoadEnds(i, run)
          \/ DropAnswer(i) \/ LoadReturns(i) \/ LoadRetries(i) \/ RefreshReturns(i)
          \/ BatchReturns(i) \/ SettingsReturn(i) \/ RunReturns(i) \/ ButtonReturns(i)
    \/ HookChangesTree \/ RunEnds \/ BackendDies \/ BackendRestarts
    \/ StateChanges \/ RunEndArrives \/ DeathArrives

StoreSpec == StoreInit /\ [][StoreNext]_storeVars

-----------------------------------------------------------------------------
\* Properties.

Connected == connection = "ok" /\ shown # Nothing

Settled == calls = <<>> /\ events = <<>>

\* The tree shown is one the backend has had: a report never patches another
\* tree than the one its batch was applied to (session-store.ts:445).
ShownTreeIsReal == Connected => shown.tree # Garbage

\* Once every answer and every event is in, in whatever order they came, the
\* UI shows the state and the settings of the backend and the result of the
\* run that ended last (session-store.ts:591, 629, 677, 1049).
UiIsRight ==
    Settled /\ Connected =>
        /\ shown.run = backend.run
        /\ shown.settings = backend.settings
        /\ backend.run = "ended" => lastRun = backend.runs

\* The same, as long as no refresh has joined a getSnapshot that had been
\* overtaken, and no load went unseen: the late news of a backend's death
\* disowns a load of the next backend too (session-store.ts:1127), and the
\* configuration it brings is not shown until the next refresh. The tree shown
\* is real, whatever happened.
UiFollows == ShownTreeIsReal /\ (rejoined \/ unseen \/ UiIsRight)

\* A run starts with the settings the UI showed when the user asked for it
\* (settingsPending, session-store.ts:666), unless a load has failed or the
\* backend has died since the last snapshot, which the UI reports: an edit that
\* was under way then may have been made and is not shown. A load that went
\* unseen is the one other exception.
RunsAsShown == unseen \/ ~misrun
=============================================================================
