------------------------------ MODULE Session ------------------------------
(***************************************************************************)
(* The conversion session behind its RPC gates: ConversionSession          *)
(* (packages/backend/src/service/session.ts) as BackendRpcApp (rpc-app.ts) *)
(* drives it, around the run of ConversionRun.tla.                         *)
(*                                                                         *)
(* The backend is one JavaScript thread, but bin/service.mjs starts an RPC *)
(* for every message without waiting for the previous one, so several      *)
(* calls are suspended at an await at the same time.  Calls names the RPCs *)
(* in flight; pc says where each is suspended, job what it captured before *)
(* it suspended.  One action is the code between two awaits.               *)
(***************************************************************************)
EXTENDS ConversionRun, FiniteSets

CONSTANTS
    Calls,          \* RPCs that may be in flight at once
    Defaults,       \* default_selected entries of the selector files
    MaxActions,     \* longest action chain of a custom button
    MaxLoads,       \* bound: configurations committed
    MaxRuns,        \* bound: runs started
    MaxSelectors    \* bound: generations of the custom selectors

ASSUME DefaultsAssumption == Defaults \in Nat
ASSUME BoundsAssumption ==
    /\ MaxActions \in Nat \ {0}
    /\ MaxLoads \in Nat
    /\ MaxRuns \in Nat
    /\ MaxSelectors \in Nat

VARIABLES
    generation,       \* run_seq; 0 = no run yet
    loadAbort,        \* the load's AbortController: none, armed or aborted
    disposed,
    selectors,        \* generation of customSelectors; 0 = not set
    poolStart,        \* the shared pool.start() promise
    pc, job,          \* per call: suspension point and captured values
    view,             \* the UI's last snapshot: config identity and version
    ended,            \* the run_seqs whose run_end has been emitted
    misapplied,       \* history: ops reached a tree they were not made for
    disposePc,        \* disposeOnce
    disposeTimedOut   \* the 60 s wait for the active run ran out

sessionVars == <<generation, loadAbort, disposed, selectors, poolStart, pc,
                 job, view, ended, misapplied, disposePc, disposeTimedOut>>
vars == <<runVars, sessionVars>>

CallPcs == {"idle", "load_start", "load_reading", "load_defaults", "run_start",
            "reset_start", "reset_wait", "set_defaults", "button",
            "button_match", "button_script", "button_defaults"}
DisposePcs == {"none", "wait_load", "wait_run", "closing", "done"}

Job == [cfg : Nat, sel : Nat, gen : Nat, ver : Nat, defs : Nat, acts : Nat]
NoJob == [cfg |-> 0, sel |-> 0, gen |-> 0, ver |-> 0, defs |-> 0, acts |-> 0]

FlagsOK ==
    /\ illegal \in BOOLEAN /\ cancelRequested \in BOOLEAN
    /\ failed \in BOOLEAN /\ editsLost \in BOOLEAN
    /\ disposed \in BOOLEAN /\ disposeTimedOut \in BOOLEAN
    /\ misapplied \in BOOLEAN

ValuesOK ==
    /\ state \in RunStates
    /\ config \in Nat /\ version \in Nat /\ generation \in Nat
    /\ javaAbort \in AbortStates /\ loadAbort \in AbortStates
    /\ runPc \in RunPcs
    /\ hookVersion \in Nat /\ hooksLeft \in Nat
    /\ jvms \in SUBSET Shards
    /\ selectors \in Nat
    /\ poolStart \in {"starting", "up", "down"}
    /\ pc \in [Calls -> CallPcs]
    /\ job \in [Calls -> Job]
    /\ view \in [cfg : Nat, ver : Nat]
    /\ ended \in SUBSET Nat
    /\ disposePc \in DisposePcs

TypeOK == FlagsOK /\ ValuesOK

Init ==
    /\ state = "idle" /\ illegal = FALSE
    /\ config = 0 /\ version = 0 /\ generation = 0
    /\ cancelRequested = FALSE /\ disposed = FALSE
    /\ javaAbort = "none" /\ loadAbort = "none"
    /\ runPc = "none" /\ hookVersion = 0 /\ hooksLeft = 0
    /\ failed = FALSE /\ editsLost = FALSE
    /\ jvms = {}
    /\ selectors = 0
    /\ poolStart = "starting"
    /\ pc = [c \in Calls |-> "idle"] /\ job = [c \in Calls |-> NoJob]
    /\ view = [cfg |-> 0, ver |-> 0]
    /\ ended = {}
    /\ misapplied = FALSE
    /\ disposePc = "none" /\ disposeTimedOut = FALSE

-----------------------------------------------------------------------------
(* Suspending and finishing a call. *)

Suspend(c, where, captured) ==
    /\ pc' = [pc EXCEPT ![c] = where]
    /\ job' = [job EXCEPT ![c] = captured]

Return(c) == Suspend(c, "idle", NoJob)

\* Mutant: the state alone decides, as if a published outcome ended a run.
IdleLike_StateOnly == ~disposed /\ state \notin Running \cup {"loading"}

\* assertIdleLike: the gate of every RPC that must not meet a load or a run.
IdleLike ==
    /\ ~disposed
    /\ javaAbort = "none"
    /\ state \notin Running \cup {"loading"}

\* Groups of variables most steps leave alone.
stateVars == <<state, illegal>>
treeVars == <<config, version>>
abortVars == <<cancelRequested, javaAbort, loadAbort>>
runLocal == <<runPc, hookVersion, hooksLeft, failed, jvms, editsLost>>
callVars == <<pc, job>>
lifeVars == <<disposed, poolStart, disposePc, disposeTimedOut>>
seqVars == <<generation, ended>>

\* What a step confined to the calls leaves alone, besides pc and job.
CallLocal == UNCHANGED <<runVars, generation, loadAbort, selectors, lifeVars, view,
                         ended, misapplied>>

-----------------------------------------------------------------------------
(* The script-worker pool the RPCs wait for: started once, in background. *)

PoolStarts ==
    /\ poolStart = "starting"
    /\ poolStart' \in {"up", "down"}
    /\ UNCHANGED <<runVars, generation, loadAbort, disposed, selectors, pc, job,
                   view, ended, misapplied, disposePc, disposeTimedOut>>

\* handleRpc: await this.start() rejects, and so does the RPC.
StartRejects(c) ==
    /\ pc[c] \in {"load_start", "run_start", "reset_start"}
    /\ poolStart = "down"
    /\ Return(c)
    /\ CallLocal

-----------------------------------------------------------------------------
(* Applying operations to the tree. *)

\* An unversioned internal batch: the session stamps it with the current
\* version in the same piece of code, so it always passes the version gate; it
\* may turn out to change nothing.
ApplyNow ==
    \/ UNCHANGED version
    \/ config # 0 /\ version < MaxVersion /\ ApplyStamped(version)

\* Operations computed from config basis are about to change the tree.
MisapplyIf(basis) == misapplied' = (misapplied \/ (version' # version /\ basis # config))

\* applyOps RPC: the UI stamps its batch with the version of its last snapshot.
UiApplyOps ==
    /\ IdleLike
    /\ config # 0 /\ version < MaxVersion
    /\ ApplyStamped(view.ver)
    /\ MisapplyIf(view.cfg)
    /\ UNCHANGED <<stateVars, config, abortVars, runLocal, callVars, seqVars,
                   selectors, lifeVars, view>>

\* getSnapshot RPC: the answer reaches the UI whenever it does.
GetSnapshot ==
    /\ ~disposed
    /\ view' = [cfg |-> config, ver |-> version]
    /\ UNCHANGED <<runVars, generation, loadAbort, selectors, callVars, lifeVars,
                   ended, misapplied>>

\* updateSettings RPC: replacing the matrix re-evaluates the eligibility of
\* every item: one bump, two when every rule carries tags or classes.
UpdateSettings ==
    /\ config # 0
    /\ IdleLike
    /\ version + 2 <= MaxVersion
    /\ version' \in {version + 1, version + 2}
    /\ UNCHANGED <<stateVars, config, abortVars, runLocal, callVars, seqVars,
                   selectors, lifeVars, view, misapplied>>

-----------------------------------------------------------------------------
(* default_selected replay: applyDefaultSelected with matchSelector inside. *)

\* Mutant: a matching is not compared with dispose.
MatchStillValid_Disposed(c) ==
    job[c].cfg = config /\ job[c].sel = selectors /\ job[c].gen = generation

\* What the selector matching of call c is valid for.
MatchStillValid(c) ==
    /\ ~disposed
    /\ job[c].cfg = config
    /\ job[c].sel = selectors
    /\ job[c].gen = generation

\* The check at the head of the loop, before the next entry is matched.
NextDefault(c) ==
    /\ job[c].defs > 1
    /\ ~disposed
    /\ job[c].cfg = config
    /\ job[c].sel = selectors

\* The matching in flight settles: applied, refused as outdated or failed.
\* Either way the next entry is matched or the replay is over.
MatchApplies(c) ==
    /\ \/ MatchStillValid(c) /\ ApplyNow
       \/ UNCHANGED version
    /\ MisapplyIf(job[c].cfg)

DefaultsContinue(c) ==
    /\ pc[c] \in {"load_defaults", "set_defaults", "button_defaults"}
    /\ MatchApplies(c)
    /\ NextDefault(c)
    /\ Suspend(c, pc[c], [job[c] EXCEPT !.defs = @ - 1, !.gen = generation])
    /\ UNCHANGED <<stateVars, config, abortVars, runLocal, seqVars, selectors,
                   lifeVars, view>>

SetDefaultsEnd(c) ==
    /\ pc[c] = "set_defaults"
    /\ MatchApplies(c)
    /\ ~NextDefault(c)
    /\ Return(c)
    /\ UNCHANGED <<stateVars, config, abortVars, runLocal, seqVars, selectors,
                   lifeVars, view>>

LoadDefaultsEnd(c) ==
    /\ pc[c] = "load_defaults"
    /\ MatchApplies(c)
    /\ ~NextDefault(c)
    /\ Go(<<"ready">>)
    /\ loadAbort' = "none"
    /\ Return(c)
    /\ UNCHANGED <<config, cancelRequested, javaAbort, runLocal, seqVars,
                   selectors, lifeVars, view>>

-----------------------------------------------------------------------------
(* loadConfig and reload. *)

CallLoad(c) ==
    /\ pc[c] = "idle"
    /\ IdleLike
    /\ Suspend(c, "load_start", NoJob)
    /\ CallLocal

\* The gate is checked again after await start(): another load or run may
\* have passed it meanwhile.
LoadRefused(c) ==
    /\ pc[c] = "load_start"
    /\ poolStart = "up"
    /\ ~IdleLike
    /\ Return(c)
    /\ CallLocal

\* Mutant: only a run in flight stops a load.
LoadAdmitted_RunOnly == ~disposed /\ javaAbort = "none"

\* The gate after start() together with the one of session.loadConfig.
LoadAdmitted == IdleLike /\ loadAbort = "none"

LoadBegins(c) ==
    /\ pc[c] = "load_start"
    /\ poolStart = "up"
    /\ LoadAdmitted
    /\ config < MaxLoads
    /\ loadAbort' = "armed"
    /\ Go(<<"loading">>)
    /\ Suspend(c, "load_reading", NoJob)
    /\ UNCHANGED <<treeVars, cancelRequested, javaAbort, runLocal, seqVars,
                   selectors, lifeVars, view, misapplied>>

\* Mutant: nothing listens to the abort signal of the load.
LoadFails_Deaf(c) ==
    /\ pc[c] = "load_reading"
    /\ loadAbort # "aborted"
    /\ Go(<<"failed">>)
    /\ loadAbort' = "none"
    /\ Return(c)
    /\ UNCHANGED <<treeVars, cancelRequested, javaAbort, runLocal, seqVars,
                   selectors, lifeVars, view, misapplied>>

\* Parsing in the helper process or a set_name script fails, or the abort
\* signal (also checked when everything succeeded) throws.
LoadFails(c) ==
    /\ pc[c] = "load_reading"
    /\ Go(<<IF loadAbort = "aborted" THEN "cancelled" ELSE "failed">>)
    /\ loadAbort' = "none"
    /\ Return(c)
    /\ UNCHANGED <<treeVars, cancelRequested, javaAbort, runLocal, seqVars,
                   selectors, lifeVars, view, misapplied>>

\* Mutant: the tree of every config numbers its versions from one.
CommitConfig_Restarts == config' = config + 1 /\ version' \in {1, 2}

\* The new config and its tree replace the old ones in one piece of code.  The
\* tree continues the version numbering of the tree it replaces; the matrix
\* eligibility of the new config may add one.
CommitConfig ==
    /\ config' = config + 1
    /\ version' \in {version + 1, version + 2}

LoadCommits(c) ==
    /\ pc[c] = "load_reading"
    /\ loadAbort # "aborted"
    /\ ~disposed
    /\ CommitConfig
    /\ IF selectors # 0 /\ Defaults > 0
       THEN /\ Suspend(c, "load_defaults",
                       [NoJob EXCEPT !.cfg = config', !.sel = selectors,
                                     !.gen = generation, !.defs = Defaults])
            /\ UNCHANGED <<stateVars, loadAbort>>
       ELSE /\ Go(<<"ready">>)
            /\ loadAbort' = "none"
            /\ Return(c)
    /\ UNCHANGED <<cancelRequested, javaAbort, runLocal, seqVars, selectors,
                   lifeVars, view, misapplied>>

-----------------------------------------------------------------------------
(* run.  The RPC returns run_seq as soon as the run has been started. *)

CallRun(c) ==
    /\ pc[c] = "idle"
    /\ ~disposed
    /\ config # 0
    /\ state \in {"ready"} \cup Terminal
    /\ Suspend(c, "run_start", NoJob)
    /\ CallLocal

RunRefused(c) ==
    /\ pc[c] = "run_start"
    /\ poolStart = "up"
    /\ ~IdleLike
    /\ Return(c)
    /\ CallLocal

\* Mutant: the next run starts from wherever the last one ended.
ArmPath_Direct == <<"before_hooks">>

\* A finished session is re-armed through loading and ready on the way.
ArmPath == IF isTerminal(state) THEN <<"loading", "ready", "before_hooks">>
                                ELSE <<"before_hooks">>

RunBegins(c) ==
    /\ pc[c] = "run_start"
    /\ poolStart = "up"
    /\ IdleLike
    /\ generation < MaxRuns
    /\ generation' = generation + 1
    /\ cancelRequested' = FALSE
    /\ javaAbort' = "armed"
    /\ Go(ArmPath)
    /\ StartRun
    /\ Return(c)
    /\ UNCHANGED <<treeVars, loadAbort, selectors, lifeVars, view, ended, misapplied>>

-----------------------------------------------------------------------------
(* cancel, reset and the end of a run. *)

\* Mutant: cancel() also marks a run whose outcome is published.
CancelBody_NoGate ==
    /\ loadAbort' = IF loadAbort = "armed" THEN "aborted" ELSE loadAbort
    /\ cancelRequested' = (runPc # "none" \/ cancelRequested)
    /\ javaAbort' = IF javaAbort = "armed" THEN "aborted" ELSE javaAbort

\* Mutant: dispatch is frozen, the JVMs in flight are left alone.
CancelBody_NoAbort ==
    /\ loadAbort' = IF loadAbort = "armed" THEN "aborted" ELSE loadAbort
    /\ cancelRequested' = (state \in Running \/ cancelRequested)
    /\ UNCHANGED javaAbort

\* session.cancel(): a load is aborted, a run that is still under way is marked.
CancelBody ==
    /\ loadAbort' = IF loadAbort = "armed" THEN "aborted" ELSE loadAbort
    /\ IF state \in Running
       THEN /\ cancelRequested' = TRUE
            /\ javaAbort' = IF javaAbort = "armed" THEN "aborted" ELSE javaAbort
       ELSE UNCHANGED <<cancelRequested, javaAbort>>

Cancel ==
    /\ ~disposed
    /\ CancelBody
    /\ UNCHANGED <<stateVars, treeVars, runLocal, seqVars, selectors, lifeVars,
                   callVars, view, misapplied>>

\* handleRpc has checked disposed; session.reset() checks it again after start().
CallReset(c) ==
    /\ pc[c] = "idle"
    /\ ~disposed
    /\ Suspend(c, "reset_start", NoJob)
    /\ CallLocal

ResetRefused(c) ==
    /\ pc[c] = "reset_start"
    /\ poolStart = "up"
    /\ disposed
    /\ Return(c)
    /\ CallLocal

\* The end of reset(), which may follow the end of a run directly.
Rearm == IF isTerminal(state) THEN Go(<<"loading", "ready">>) ELSE UNCHANGED stateVars

\* With a run in flight reset cancels it and waits for it to settle.
ResetWaits(c) ==
    /\ pc[c] = "reset_start"
    /\ poolStart = "up"
    /\ ~disposed
    /\ runPc # "none"
    /\ CancelBody
    /\ Suspend(c, "reset_wait", NoJob)
    /\ UNCHANGED <<stateVars, treeVars, runLocal, seqVars, selectors, lifeVars,
                   view, misapplied>>

\* Without one it re-arms at once.  A load it aborts goes on until it notices.
ResetNow(c) ==
    /\ pc[c] = "reset_start"
    /\ poolStart = "up"
    /\ ~disposed
    /\ runPc = "none"
    /\ loadAbort' = IF loadAbort = "armed" THEN "aborted" ELSE loadAbort
    /\ cancelRequested' = FALSE
    /\ Rearm
    /\ Return(c)
    /\ UNCHANGED <<treeVars, javaAbort, runLocal, seqVars, selectors, lifeVars,
                   view, misapplied>>

\* The closing line is logged and activeRun settles.  session.runConversion's
\* finally clause runs first, then, in the same burst of microtasks, every
\* reset that waits for the run.  The run's locals go with it.
Waiting == {c \in Calls : pc[c] = "reset_wait"}

Settle ==
    /\ runPc = "closing"
    /\ runPc' = "none"
    /\ javaAbort' = "none"
    /\ ended' = ended \cup {generation}
    /\ failed' = FALSE /\ editsLost' = FALSE
    /\ IF Waiting = {}
       THEN UNCHANGED <<stateVars, cancelRequested, callVars>>
       ELSE /\ Rearm
            /\ cancelRequested' = FALSE
            /\ pc' = [c \in Calls |-> IF c \in Waiting THEN "idle" ELSE pc[c]]
            /\ job' = [c \in Calls |-> IF c \in Waiting THEN NoJob ELSE job[c]]
    /\ UNCHANGED <<treeVars, loadAbort, hookVersion, hooksLeft, jvms,
                   generation, selectors, lifeVars, view, misapplied>>

-----------------------------------------------------------------------------
(* setCustomSelectors and invokeCustomButton: neither is gated by the state. *)

\* The files are read again; the replay of default_selected follows, unless
\* there is nothing to replay on.
RereadSelectors(c, replaying, rest) ==
    /\ selectors < MaxSelectors
    /\ selectors' = selectors + 1
    /\ IF config = 0 \/ Defaults = 0
       THEN Suspend(c, IF rest.acts = 0 THEN "idle" ELSE "button",
                    IF rest.acts = 0 THEN NoJob ELSE rest)
       ELSE Suspend(c, replaying, [rest EXCEPT !.cfg = config, !.sel = selectors',
                                               !.gen = generation, !.defs = Defaults])

SetCustomSelectors(c) ==
    /\ pc[c] = "idle"
    /\ ~disposed
    /\ RereadSelectors(c, "set_defaults", NoJob)
    /\ UNCHANGED <<runVars, generation, loadAbort, lifeVars, view, ended, misapplied>>

\* A click on a button with an action chain; each action starts at pc "button".
ClickChain(c) ==
    /\ pc[c] = "idle"
    /\ ~disposed
    /\ selectors # 0
    /\ \E n \in 1..MaxActions :
          Suspend(c, "button", [NoJob EXCEPT !.cfg = config, !.acts = n])
    /\ CallLocal

\* A click on a button without actions: its matching items are toggled.
ClickToggle(c) ==
    /\ pc[c] = "idle"
    /\ ~disposed
    /\ selectors # 0
    /\ config # 0
    /\ Suspend(c, "button_match", [NoJob EXCEPT !.cfg = config, !.sel = selectors,
                                                !.gen = generation])
    /\ CallLocal

ToggleEnds(c) ==
    /\ pc[c] = "button_match"
    /\ MatchApplies(c)
    /\ Return(c)
    /\ UNCHANGED <<stateVars, config, abortVars, runLocal, seqVars, selectors,
                   lifeVars, view>>

\* The job of a chain whose current action has succeeded.
Rest(c) == [NoJob EXCEPT !.cfg = job[c].cfg, !.acts = job[c].acts - 1]

NextAction(c) == IF job[c].acts = 1 THEN Return(c) ELSE Suspend(c, "button", Rest(c))

\* The check at the head of the chain's loop.
ChainIntact(c) == ~disposed /\ job[c].cfg = config

ChainAborts(c) ==
    /\ pc[c] = "button"
    /\ ~ChainIntact(c)
    /\ Return(c)
    /\ CallLocal

\* noop, select_all, unselect_all.
ActionSelects(c) ==
    /\ pc[c] = "button"
    /\ ChainIntact(c)
    /\ ApplyNow
    /\ MisapplyIf(job[c].cfg)
    /\ NextAction(c)
    /\ UNCHANGED <<stateVars, config, abortVars, runLocal, seqVars, selectors,
                   lifeVars, view>>

ActionReloads(c) ==
    /\ pc[c] = "button"
    /\ ChainIntact(c)
    /\ RereadSelectors(c, "button_defaults", Rest(c))
    /\ UNCHANGED <<runVars, generation, loadAbort, lifeVars, view, ended, misapplied>>

\* No config, or a script its <gui> does not have: the chain stops.
ActionHasNoScript(c) ==
    /\ pc[c] = "button"
    /\ ChainIntact(c)
    /\ Return(c)
    /\ CallLocal

\* The worker gets a snapshot of the tree and answers with ops of its version.
ActionInvokes(c) ==
    /\ pc[c] = "button"
    /\ ChainIntact(c)
    /\ config # 0
    /\ Suspend(c, "button_script", [job[c] EXCEPT !.sel = selectors, !.ver = version])
    /\ CallLocal

\* The script's ops are applied unless the config or the selectors changed
\* meanwhile; only a script that resolved lets the chain go on.
ScriptEnds(c) ==
    /\ pc[c] = "button_script"
    /\ ChainIntact(c) /\ job[c].sel = selectors
    /\ \/ UNCHANGED version
       \/ version < MaxVersion /\ ApplyStamped(job[c].ver)
    /\ MisapplyIf(job[c].cfg)
    /\ Return(c) \/ NextAction(c)
    /\ UNCHANGED <<stateVars, config, abortVars, runLocal, seqVars, selectors,
                   lifeVars, view>>

ScriptOutdated(c) ==
    /\ pc[c] = "button_script"
    /\ ~(ChainIntact(c) /\ job[c].sel = selectors)
    /\ Return(c)
    /\ CallLocal

ScriptReturns(c) == ScriptEnds(c) \/ ScriptOutdated(c)

ReloadEnds(c) ==
    /\ pc[c] = "button_defaults"
    /\ MatchApplies(c)
    /\ ~NextDefault(c)
    /\ IF job[c].acts = 0 THEN Return(c) ELSE Suspend(c, "button",
            [NoJob EXCEPT !.cfg = job[c].cfg, !.acts = job[c].acts])
    /\ UNCHANGED <<stateVars, config, abortVars, runLocal, seqVars, selectors,
                   lifeVars, view>>

-----------------------------------------------------------------------------
(* dispose: cancel, wait for the load, wait for the run but no longer than  *)
(* DISPOSE_RUN_TIMEOUT_MS, then drain the log and stop matcher and sink.    *)

Dispose ==
    /\ ~disposed
    /\ disposed' = TRUE
    /\ CancelBody
    /\ disposePc' = "wait_load"
    /\ UNCHANGED <<stateVars, treeVars, runLocal, seqVars, selectors, callVars,
                   poolStart, disposeTimedOut, view, misapplied>>

DisposeTo(next) ==
    /\ disposePc' = next
    /\ UNCHANGED <<runVars, generation, loadAbort, disposed, selectors, poolStart,
                   callVars, view, ended, misapplied>>

DisposeSeesLoadEnd ==
    /\ disposePc = "wait_load"
    /\ loadAbort = "none"
    /\ DisposeTo(IF runPc = "none" THEN "closing" ELSE "wait_run")
    /\ UNCHANGED disposeTimedOut

DisposeSeesRunEnd ==
    /\ disposePc = "wait_run"
    /\ runPc = "none"
    /\ DisposeTo("closing")
    /\ UNCHANGED disposeTimedOut

DisposeTimesOut ==
    /\ disposePc = "wait_run"
    /\ runPc # "none"
    /\ DisposeTo("closing")
    /\ disposeTimedOut' = TRUE

DisposeEnds ==
    /\ disposePc = "closing"
    /\ DisposeTo("done")
    /\ UNCHANGED disposeTimedOut

\* The service process has nothing left to do.
Finished ==
    /\ disposePc = "done"
    /\ runPc = "none"
    /\ \A c \in Calls : pc[c] = "idle"
    /\ UNCHANGED vars

-----------------------------------------------------------------------------
\* Sub-actions by what they belong to; the run's leave the session's alone.
RunStep ==
    /\ \/ HookReturns
       \/ BuildPlan
       \/ ProbeThrows
       \/ SpawnShards
       \/ \E s \in Shards : ShardExits(s)
       \/ ShardsJoined
       \/ Publish
    /\ UNCHANGED sessionVars

LoadStep(c) ==
    \/ CallLoad(c) \/ LoadRefused(c) \/ LoadBegins(c) \/ LoadFails(c)
    \/ LoadCommits(c) \/ LoadDefaultsEnd(c)

RunCallStep(c) == CallRun(c) \/ RunRefused(c) \/ RunBegins(c)

ResetStep(c) == CallReset(c) \/ ResetRefused(c) \/ ResetWaits(c) \/ ResetNow(c)

SelectorStep(c) ==
    \/ SetCustomSelectors(c) \/ DefaultsContinue(c) \/ SetDefaultsEnd(c)
    \/ ClickChain(c) \/ ClickToggle(c) \/ ToggleEnds(c)
    \/ ChainAborts(c) \/ ActionSelects(c) \/ ActionReloads(c)
    \/ ActionHasNoScript(c) \/ ActionInvokes(c) \/ ScriptReturns(c)
    \/ ReloadEnds(c)

CallStep(c) ==
    StartRejects(c) \/ LoadStep(c) \/ RunCallStep(c) \/ ResetStep(c) \/ SelectorStep(c)

DisposeStep ==
    DisposeSeesLoadEnd \/ DisposeSeesRunEnd \/ DisposeTimesOut \/ DisposeEnds

Next ==
    \/ PoolStarts
    \/ UiApplyOps \/ GetSnapshot \/ UpdateSettings
    \/ \E c \in Calls : CallStep(c)
    \/ RunStep
    \/ Settle
    \/ Cancel
    \/ Dispose \/ DisposeStep
    \/ Finished

Spec == Init /\ [][Next]_vars

(***************************************************************************)
(* Fairness.  Hook and button scripts, selector matching, parsing and the  *)
(* pool's handshake have timeouts of their own, the rest is computation or *)
(* log draining.  A JVM has no timeout: only an aborted one is sure to     *)
(* exit (termination, escalated to a kill).  No user action is fair.       *)
(***************************************************************************)
KilledShardExits(s) == javaAbort = "aborted" /\ ShardExits(s) /\ UNCHANGED sessionVars

RunProgress ==
    /\ \/ HookReturns
       \/ BuildPlan
       \/ ProbeThrows
       \/ SpawnShards
       \/ ShardsJoined
       \/ Publish
    /\ UNCHANGED sessionVars

LoadProgress(c) ==
    LoadFails(c) \/ LoadCommits(c) \/ LoadDefaultsEnd(c)
      \/ (pc[c] = "load_defaults" /\ DefaultsContinue(c))

ResetProgress(c) ==
    \/ pc[c] = "reset_start" /\ StartRejects(c)
    \/ ResetRefused(c) \/ ResetWaits(c) \/ ResetNow(c)

Fairness ==
    /\ WF_vars(PoolStarts)
    /\ WF_vars(RunProgress)
    /\ \A s \in Shards : WF_vars(KilledShardExits(s))
    /\ WF_vars(Settle)
    /\ \A c \in Calls : WF_vars(LoadProgress(c)) /\ WF_vars(ResetProgress(c))
    /\ WF_vars(DisposeStep)

FairSpec == Spec /\ Fairness

-----------------------------------------------------------------------------
(* Safety. *)

\* Every hop of every transition() the session makes, by a run or outside one,
\* whatever calls interleave, passes assertTransition.
LegalTransitions == ~illegal

\* The published state, the two AbortControllers and the suspended async
\* functions agree: a load in flight, and only one, exactly in "loading"; a run
\* that has not published its outcome exactly in the Running states; javaAbort
\* set exactly until the run has settled.
Loading == {c \in Calls : pc[c] \in {"load_reading", "load_defaults"}}

StateTracksActivity ==
    /\ state = "loading" <=> loadAbort # "none"
    /\ state = "loading" <=> Loading # {}
    /\ \A c, d \in Loading : c = d
    /\ state \in Running <=> runPc \notin {"none", "closing"}
    /\ javaAbort # "none" <=> runPc # "none"

\* No batch of operations computed from one configuration ever changes the tree
\* of another: stale UI batches, matcher answers and button scripts included.
NoMisapply == ~misapplied

\* The outcome runConversion publishes through transition() is the one it
\* evaluates again for its summary after awaiting the closing log line.
SummaryMatchesState == runPc = "closing" => state = Outcome

\* A JVM is alive only while the run waits for it: none outlives its run.
NoOrphanShards == jvms # {} => runPc = "shards"

\* A run reports its end once, and before the next one gets its run_seq.
RunsEndInOrder ==
    \A r \in 1..MaxRuns :
        r \in ended <=> r < generation \/ (r = generation /\ runPc = "none")

\* After dispose() has gone past its waits nothing of the session is in flight,
\* unless it said that it gave up on the run.
QuietAfterDispose ==
    disposePc \in {"closing", "done"} =>
        /\ loadAbort = "none"
        /\ runPc = "none" \/ disposeTimedOut

-----------------------------------------------------------------------------
(* What a step may never do. *)

\* Cancellation freezes dispatch: once it is requested the run invokes no
\* further hook and starts no JVM.
FrozenDispatch ==
    [][cancelRequested /\ runPc # "none" =>
          /\ runPc' \in {"before", "after"} =>
                runPc' = runPc /\ hooksLeft' = hooksLeft
          /\ jvms' \subseteq jvms]_vars

\* The configuration and tree a run works on are not replaced under it, the
\* closing log line after the published outcome included.
RunKeepsConfig ==
    [][runPc # "none" /\ runPc' # "none" => config' = config]_vars

\* After dispose() no late load, matcher answer or button script touches the
\* tree: only the hook that is in flight can still have its ops applied.
DisposedTreeFrozen ==
    [][disposed => /\ config' = config
                   /\ version' # version => runPc \in {"before", "after"}]_vars

-----------------------------------------------------------------------------
(* The same, together. *)

\* A run works to its end on what it was started with, and a cancelled one
\* does nothing new.
RunStaysPut == FrozenDispatch /\ RunKeepsConfig

\* A session that is disposed of is quiet, and nothing late changes it.
DisposedForGood == []QuietAfterDispose /\ DisposedTreeFrozen

-----------------------------------------------------------------------------
(* What must happen. *)

\* A cancelled run ends, JVMs and log drain included.
CancelEndsRun == cancelRequested /\ runPc # "none" ~> runPc = "none"

\* A load ends, aborted or not: the session does not stay in "loading".
LoadEnds == state = "loading" ~> state # "loading"

\* A reset returns, whatever it found in flight.
ResetReturns ==
    \A c \in Calls : pc[c] \in {"reset_start", "reset_wait"} ~> pc[c] = "idle"

\* dispose() finishes.
DisposeFinishes == disposed ~> disposePc = "done"

\* Whatever a call finds in flight, it returns.
CallsFinish == LoadEnds /\ ResetReturns /\ DisposeFinishes

-----------------------------------------------------------------------------
\* session.ts:308-310 and run.ts:1: what a before hook changes is visible to
\* the plan of its run.  Its ops are never refused.
HookEditsReachPlan == ~editsLost

=============================================================================
