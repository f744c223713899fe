# xresconv-gui: a specification of the conversion backend

xresconv-gui drives xresloader (a Java program) over lists of Excel sheets: a Tauri shell
starts a Node *guardian*, the guardian supervises a Node *backend*, the backend keeps the
conversion *session*, runs user scripts in a pool of *script workers* and one JVM per shard
of the plan, and a React UI shows it all. This directory specifies the parts whose
correctness depends on the order of events, checks them with TLC and proves what matters
most with TLAPS.

```
tlc -workers 2 -config session_calls.cfg MCSession.tla     # any run of the table below
tlapm SessionProofs.tla                                    # any module of proofs
```

## 1. The system

| component | code | state | operations | status |
|---|---|---|---|---|
| run state machine | `packages/backend/src/domain/run-state.ts` | none: a frozen transition table | `assertTransition` | modelled |
| conversion session | `backend/src/service/session.ts`, RPC gates in `rpc-app.ts`, dispatch in `backend/bin/service.mjs` | run state, config, tree, selectors, two AbortControllers, `cancelRequested`, `activeRun`, `disposed`, `run_seq` | load, reload, run, cancel, reset, settings, UI batches, selectors, buttons, dispose | modelled; plain reads and `checkJavaEnv` left out |
| conversion run | `backend/src/service/run.ts` | hooks left, plan, JVMs alive, `failedCount` | before chain, plan, JVMs, after chain, drain, outcome | modelled |
| tree state | `service/tree-state.ts`, `compat-service/tree-model.ts` | nodes, selection, matrix lock, version | click, toggle, select all, stamped batch, matrix replacement, snapshot | modelled; lookups, search and texts left out |
| script-worker pool | `guardian/src/script-worker.ts`, dialog map in `rpc-app.ts` and the UI | children, places, pending calls, waiters, dialogs | start, invoke, deadlines, faults, exits, replacement, dialogs, shutdown | modelled |
| script host | `packages/script-host` | scripts in progress, recorded operations, dialog callbacks | invoke, done once, two deadlines, dialog answer, shutdown | modelled; sandbox, `require` and logging left out |
| matcher service | `service/matcher-service.ts` | one worker, serial queue | start, match, replace, shut down | modelled |
| selector rules | `service/selection-rule-service.ts`, `domain/selection.ts` | none | evaluate rules one item or one batch at a time | modelled; a pattern is the texts it matches |
| Java runner, process trees | `guardian/src/java-runner.ts`, `process-tree.ts`, `run-with-deadline.ts`, `config/isolated-loader.ts`, `service/java-env.ts` | a process scope, kill timers | run, abort, deadline, terminate, reap | modelled; output and stdin lines left out |
| backend supervisor | `guardian/src/backend-supervisor.ts` | backend slot, cleanup, pending RPCs, heartbeat | start, restart, request, declare dead, shut down | modelled |
| desktop shell | `src-tauri/src/guardian.rs` | slot with a channel, pending requests, writer and reader threads | ensure, request, time out, restart, close | modelled; the commands of `lib.rs` forward to it |
| resource cache | `src-tauri/src/resource_cache.rs` | payload directory with marker, two locks | prepare, reuse, upgrade, share | modelled; checks of the installation left out |
| log pipeline | `service/log-pipeline.ts`, the `on_append_log` hooks of `run.ts`, the window of `session-store.ts` | bounded buffer, hook queue; window | log, hook chain, hook switch, overflow, drain, page, event | modelled |
| dialogs in the UI | the registry of `rpc-app.ts`, the event hub of `adapters/backend.ts`, the queue of `session-store.ts` | listeners, open and shown dialogs | subscribe, request, respond, invalidate | modelled |
| log sink | `service/log-sink.ts`, `log-spool.ts`, `log-sink-worker.ts` | spool file, batch in flight | append, acknowledge, fail, shut down | modelled |
| frame codec | `packages/ipc`, backlog of `guardian/bin/service.mjs` | partial frame; frames to write | encode, push, drain, poison | modelled |
| UI session store | `apps/desktop/src/app/session-store.ts`, `adapters/backend.ts` | snapshot shown, calls in flight, epochs | load, refresh, select, edit, run, button, events, death | modelled but for preview, cancelling, hook switches, search |
| configuration loader | `backend/src/config/loader.ts`, `service/load-config.ts` | files visited, settings | include, apply, name | includes and override order; XML and item fields are data |
| plan and its encoding | `convert/plan-builder.ts`, `convert/stdin-encoder.ts` | none | effective settings, tasks, one line per task | modelled; the text of options is formatting |
| `lib.rs`, locale, fonts, preflight, views, contracts, packaging | several | no protocol of their own | | not modelled |

The parts meet in these places. The backend is one JavaScript thread; `bin/service.mjs` starts
the handler of every message without waiting for the previous one, so several RPCs are
suspended at an `await` at once, and the code between two awaits is atomic. Hooks, button
scripts and `set_name` scripts go from the session to the pool (`invoke`) and come back as a
list of tree operations stamped with the version of the snapshot they were computed from; the
UI stamps its batches with the version of its last snapshot. JVMs report through events and
an exit code. Dialogs travel from a worker through the pool and `BackendRpcApp` to the UI and
back. Every component below the session answers within a deadline of its own, except a JVM.
Everything between two processes is framed (`packages/ipc`); a UI call goes through the shell's
channel to the guardian, which relays it to the backend.

What is hard: gates that are checked before an await and relied on after it; answers computed
for a configuration, a selector generation or a tree that is gone; cancellation at any await
of a run; reset and dispose against a run or a load in flight; workers that time out, fault,
die and are replaced while callers wait for one; and registries of dialogs that three parts
keep; a UI whose answers and events overtake each other while its backend may die; a payload
directory that several versions of the program update and any of them may leave half done;
streams that are cut anywhere. `PROJECT.json` lists them as hazards, each at its line, with the
properties that cover it.

## 2. Modules

| module | models |
|---|---|
| `RunState` | the transition table; `LegalPath` for several hops in one piece of code |
| `ConversionRun` | `runConversion`, cut at its awaits (`runPc`) |
| `Session` | the session and the RPCs around that run (`pc`, `job` per call); the composition of the three |
| `CallService` | abstract: what a service behind a process boundary owes its callers |
| `ScriptWorkerPool` | the pool and the dialogs; refines `CallService` |
| `PoolProofs` | its theorems |
| `BackendSupervisor` | the guardian's supervision of the backend; refines `CallService` |
| `SupervisorProofs` | its theorems |
| `MatcherService` | the isolated matcher; refines `CallService` |
| `MatcherProofs` | its theorems |
| `SelectionTree` | the three-state selection of `tree-model.ts`, as operators |
| `TreeState` | the backend's tree with clicks, batches, matrices, the mirror of a script and the copy of the UI |
| `SessionStore` | what the UI shows of the session, and its calls in flight |
| `StoreProofs` | theorems of `SessionStore` and of `LogFlow` |
| `LogFlow` | a line of the log from the backend, through the hooks, to the window |
| `DialogFlow` | a dialog between the registry of the backend and the queue of the UI, and the event stream all views share |
| `FilteredSeq` | the elements of a sequence at given places, as a function (no recursive operator, so that it can be reasoned about) |
| `SeqProofs` | lemmas about sequences (slices, concatenations, folds, filters), and induction by a least counterexample |
| `LogSink` | the log file: spool, worker, shutdown |
| `ResourceCache` | instances of several versions on one payload directory |
| `GuardianChannel` | the shell's slot and channels, thread by thread |
| `OwnedProcess` | a child process under each of its four owners |
| `FrameChannel` | encoder, backlog, stream and incremental decoder |
| `ScriptHost` | the inside of a script worker |
| `ConfigLoader` | includes and what overrides what |
| `SelectorRules` | selectors in batches against selectors item by item |
| `StdinCodec` | the line of a task and the tokenizer that reads it |
| `ConversionPlan` | the form, the overrides and the tasks they make |
| `MCSession`, `MCScriptWorkerPool`, `MCBackendSupervisor`, `MCMatcherService`, `MCTreeState`, `MCSessionStore` | instances for TLC |
| `MCUi`, `MCServices` | several modules that share no variable, explored one at a time |
| `SessionProofs` | theorems of `Session` |
| `ServiceProofs` | theorems of the nine modules of `MCServices`, and of the composition |
| `UiProofs` | theorems of `TreeState`, `LogSink` and `DialogFlow`, and of the composition `MCUi` |

Definitions whose comment begins with "Mutant:" are wrong on purpose: each is the variant of
the next definition that shows some property able to fail. No specification uses them.

### Session and run

An action is the code between two awaits. A call `c` of `Calls` is an RPC in flight: `pc[c]`
says where it is suspended and `job[c]` what it captured before (`cfg`, `sel`, `gen`, `ver`:
configuration, selector generation, `run_seq` and tree version; `defs`, `acts`: what is left
of the default selections or of a button's chain).

* `IdleLike` is `assertIdleLike`; `CallLoad`/`LoadBegins`, `CallRun`/`RunBegins` and
  `CallReset`/`ResetNow`/`ResetWaits` are the two sides of `await this.start()`.
* `Go(path)` is `transition()`: a history variable records that `assertTransition` would have
  thrown. `SoftGo` is `transitionSoft`.
* `ApplyStamped(v)` is `applyScriptOps` with its version gate. The tree's content is
  abstracted to its version: the properties ask which batch changes which tree.
* `config` numbers the configurations committed. A tree takes over the numbering of its
  predecessor, so a version never names two trees; `CommitConfig` is that code.
* A hook reached by the loop may be skipped (`setHookEnabled` has no gate).
* The actions of a button chain begin at `pc = "button"`: there is an await between any two.
* `Settle` is the end of `session.runConversion` with the resets that wait for it, which
  continue in the same burst of microtasks.
* `set_name` scripts during a load are part of the nondeterminism of `LoadFails`/`LoadCommits`.
* `replaceSelection`, which no RPC reaches, is left out.

### Pool

`Workers` names places of the pool: a child that dies as a member is replaced in its place.
Flags (`killing`, `discarded`) belong to the child in the place. `starting` is the number
`starting` of the code as the set of places with an open spawn promise; `initial` is the part
of it `start()` waits for. `inflightCount` is the number of pending calls on the place. One
action is the handler of one event; a deadline may pass at any time, a worker may do
anything its protocol or its absence allows.

* `Attempt(i)` is one turn of the loop of `waitForReadySlot` and the rest of `invoke()`.
* Which of several least loaded workers `pickReadySlot` takes is left open.
* Late `complete` frames find no pending call and change nothing: no step.
* Invocation ids are fresh (every caller uses `randomUUID`), so duplicates are left out.
* A child that fails to spawn still closes (`SpawnErrors`, then `Exit`).
* The three registries of a dialog are `registered` (pool), `app` (`BackendRpcApp`) and
  `shown` (UI); `owner` is the worker that keeps the callbacks; `mail` the answer in its
  stdin. `dismissPendingDialogs` has no caller and is left out.
* The grace `bin/service.mjs` gives the whole process before it exits is outside the model.

### Supervisor

A `BackendSlot` is named by its `generation`: `child[g]`, `ready`, `dead`, `cleanup[g]` are the
fields of the slot. `slot` is `this.slot`; the slot `shutdown()` takes away stays in `closing`.

* `Start` stands for `start()` and `restart()`, which only adds a stricter gate and has no
  caller outside the tests. `awaited` is the slot whose `cleanup` it awaits.
* A rejected promise (`cancelStart`, `rejectAllRequests`) continues in microtasks before any
  other event, so the `catch` of `start()` is part of the action that rejects.
* `SpawnBackend` may get a process that never comes up; its "error" event is `ChildErrors`.
  When `register()` throws, it has killed the child: `SpawnThrows` leaves no process.
* `DeclareDead` is the function of that name; the actions above `ChildExits` are its callers.
* `TreeTerminates` is `scope.terminate()` with its budget: it reports the process gone, or
  still there, which is a failed cleanup and makes every later `start()` of the slot fail.
* Every request has a fresh id, so a name of `Requests` is used again once nothing of its last
  use is left on the channel. Results, stale generations and diagnostics carry no data here.

### Matcher

There is at most one process, so the fields of the last `WorkerSlot` are the state; a history
variable (`overlap`) would record that a living one was replaced.

* `queue` holds the requests that are not settled; `phase` says whether its head, the one
  `dispatch()` is running for, waits for a worker or is in flight. When a request settles the
  next is dispatched in the same burst of microtasks, and so in the same action.
* `spawning` is who awaits `spawnWorker()`; `again` is a `killAndReplenish` suspended at its
  await; `link` a link of `replenishChain` behind an open spawn.
* `HandshakeFails` is the deadline, a wrong first frame and the "error" event, which all kill
  the worker without asking for another.
* A `spawn()` that throws synchronously rejects a promise nobody handles, which ends the
  backend process: it belongs to the supervisor, and no action stands for it.

### Trees

`SelectionTree` is the code both the backend and the script workers use; recursion over the
tree is written as functions over the node numbers, which are in document order. `TreeState`
keeps three trees: the backend's, the one the UI shows and patches with the reports of its own
batches, and the mirror a script works on, which the worker rebuilds from the selected items
alone. Versions are only ever compared, so a copy is current or stale (`Session` has the
numbers). `locked` is `matrixBlocked` and `remembered` the `auto_select` of the locked items.
Items may be locked only by `ReplaceMatrix`; the UI refuses to click a locked item.

### UI store

`sessionEpoch`, `snapshotRequest` and `settingsRequest` are compared only with a value a call
captured; each call of `calls` therefore carries the outcome (`current`, `latest`). The backend
takes calls in order (`Serves`), answers return in any order (`LoadReturns` ... `ButtonReturns`),
events in theirs. `LoadRetries` is the retry at start-up. `BackendDies` answers everything in
flight with an error; the UI hears of the death when `DeathArrives`. A tree is a number and
`Garbage` is what a patch of the wrong tree would give. The number an edit of the settings has
is what `RunsAsShown` compares.

### Log

`LogFlow` numbers lines as `log-pipeline.ts` does. A line of a run waits for the hooks
(`AppendLine`); the runner takes the first one through the enabled hooks (`NextHook`,
`HookLogs`, `HookFails`, `SetHookEnabled`; `hookAt` is the place in the chain) and commits it
(`HookedLine`). `RunDrains` and `RunCloses` are the end of `runConversion`. `PageReturns` is
`initLogs` and `loadOlderLogs`, `LineArrives` the event, `GoneWith` the lines the window has
given up. `LogSink` is the pump (`TakeBatch`, `BatchReplies`) with the worker's writes between
them, and the shutdown.

### Dialogs in the UI

`openDialogs` is the registry of `rpc-app.ts`, `dialogQueue` that of the store. All views share
one native listener (`hub`); an event that is dispatched while there is none is lost, and
`unheard` names the dialogs of which something was lost: they end by their time limit.
`ScriptWorkerPool` has what lies behind the registry.

### Processes, files, frames

* `ResourceCache`: `preparer`, `users` and `updater` are the holders of the two file locks;
  an instance may end at any moment (`InstanceEnds`), and the machine (`PowerFails`), which
  tears a file that was not synced. The marker is entry 0, written last.
* `GuardianChannel`: one action is what a thread does between two accesses to shared state;
  `slotHolder` is the mutex of the slot. Timeouts may fire at any time.
* `OwnedProcess`: `caller` fixes which of the four owners it is; `exit` and `close` are two
  events, since a descendant may hold the pipes; a kill may fail and is then `reported`.
  `RegisterFails` is `register()` throwing after the spawn (the Windows job refuses the
  process): the child is killed, the call fails with `unassigned`, and `java-runner.ts` and
  `run-with-deadline.ts` do not wait for its end.
* `FrameChannel`: a byte is its frame and its place; `Push` takes any prefix of the pipe.
* `ScriptHost`: the thread is busy while a script is in its synchronous part (`Free`), so
  timers and messages wait. `Decide` is `done()`, `return` or `throw`, whichever is first.
  `SetNameOver`, `AppendLogOver` and `SyncOver` end the synchronous part of the three kinds of
  entry, `AsyncOver` an asynchronous script.

### Configuration, selectors, plan

* `ConfigLoader` walks the includes depth first with the stack `visiting`; a file may be
  missing, malformed, too large or refused, and the limits of depth and number are constants.
* `SelectorRules`: `ResolveSelectorItems` is `domain/selection.ts`, the reference; the actions
  are the two rounds of batches of `selection-rule-service.ts`.
* `StdinCodec` encodes an argument list and then cuts the line as xresloader does, which is
  external to the repository and taken from the comments and tests of the encoder.
* `ConversionPlan`: `EffectiveSettings` is what the form shows, `EffectiveRules` and
  `PlanTasks` what the run makes; they are two pieces of code that must agree. `planned` only
  records that a plan has been made, so that an empty one is judged too. Both treat one output
  type without conditions apart from several (`IsMatrixMode`): it is edited in the form, so
  its type and rename are the form's, which begin as its own, while several have their own
  and fall back on the form's. The directory of a lone type is dropped by both (section 6).

## 3. Runs

| run | question | bounds |
|---|---|---|
| `session_calls` | loads, selectors, buttons and UI batches of two concurrent RPCs around a run: does the state tell the truth, is anything applied to the wrong tree | 2 calls, 1 JVM, 1 hook, 2 configs, 1 run, 2 selector generations, version to 3 |
| `session_runs` | two runs with reloads and resets between and around them: legal transitions, outcome, JVMs, order | 2 calls, 2 JVMs, 2 hooks, 2 configs, 2 runs |
| `session_liveness` | do a cancelled run, a load, a reset and a dispose end | 2 calls, 1 JVM, 1 hook, 1 config, 1 run, 2 default selections |
| `session_edits` | a documented promise the code breaks (section 6) | 2 calls, 1 config, 1 run |
| `script_pool` | callers, workers and dialogs, safety and liveness, and that the pool is the service | 2 places, 2 callers (any number of calls each), 1 dialog, no other bound |
| `supervisor` | a backend that hangs, lies, exits or loses its channel, and its replacement: safety, liveness, and that the supervisor is the service | 2 requests in flight (any number in a row), 2 generations |
| `matcher` | a worker that hangs, exits, answers rubbish or survives its termination: one at a time, replaced, and the matcher is the service | 3 callers (any number of calls each), queue limit 2 |
| `matcher_wait` | a documented promise the code breaks (section 6) | the same |
| `ui` | what the user sees: trees, store, log window, dialogs, log file | 4 nodes in 2 levels; 3 clicks or deaths, 3 calls in flight; 4 lines, window 2, buffer 3, 2 hooks, 1 page under way; 2 dialogs, 2 views, 2 responses, 1 death; 4 records, batches of 2 |
| `services` | what a session rests on: nine modules, one at a time | 2 instances, 2 versions, 2 files and marker; 2 threads, 2 channels; 3 frames of up to 4 bytes; 2 scripts; 4 configuration files; 2 items, 2 rules a list; arguments of up to 3 characters; 3 items, 5 matrices |
| `tree_toggle` | a documented promise the code breaks (section 6) | the trees of `ui` |
| `ui_right` | a documented promise the code breaks (section 6) | the store of `ui` |

The bounds of the session stand in guards: `MaxLoads` (`LoadBegins`), `MaxRuns` (`RunBegins`),
`MaxSelectors` (`RereadSelectors`), `MaxVersion` on batches that may or may not change the
tree. A second configuration, run or generation is what makes an answer stale; the proofs
cover any number. Two calls are enough for two gates to be passed in either order; two
places for one worker to die while another is picked; two callers for a fault that answers
both. The pool has no counter to bound: places, callers and tokens are used again and again.
`MaxGenerations`
(`Start`) is the one bound of the supervisor: two generations are a backend and the one that
replaces it. No run uses symmetry. A finished session stutters explicitly (`Finished`), and the
pool, the matcher and the supervisor can always be called, so their runs check for deadlock. The
modules of `ui` and `services` end where their story does (a log file is closed, a configuration
is loaded, a plan is made), so those two and their violations switch it off.

The modules of `ui` and of `services` share no variable. `part` says which one moves while the
others rest, so the states of a run are the sum of those of its modules and not their product;
nothing is lost, since no action of one could enable or disable one of another.

Why the new bounds are enough: two levels are a cascade and an aggregation above it, with an
item outside the folder that is clicked. Three stimuli and three calls let an answer be
overtaken by an event of a later call while a third is waiting. A window of two and pages of
one make a page, an event and an eviction meet. Two versions and a crash are an update
interrupted and met by the other version; two instances hold the two sides of each lock. Two
threads race for the slot, for the last place in the pending map and for a channel that dies.
Frames of two bytes of length and two of body are cut inside either. Four files give chains
beyond the limit, trees, diamonds and cycles of one to three files. `StdinCodec` tries every
list of one argument of up to three characters, or two of up to two, over an alphabet with one
character of each kind the encoder or the tokenizer distinguishes. Letters, names, labels and
argument lists are constants (`Letters`, `Names`, `Labels`, `Argvs`); the theorems hold for any.
A part that rests does so in one of its initial states.

What the runs show, property by property, stands above each property in the modules. In short:

* Session. `StateTracksActivity`, `LegalTransitions` and `RunsEndInOrder` say that the double
  gate around `await start()` works; `NoMisapply` that the version, config, selector and
  generation checks leave no hole; `RunStaysPut` (`FrozenDispatch`, `RunKeepsConfig`),
  `SummaryMatchesState` and `NoOrphanShards` that cancellation is sound at every await;
  `DisposedForGood` (`QuietAfterDispose`, `DisposedTreeFrozen`) what dispose may claim.
* Pool. `WorkServed` (`PendingServed`, `NoLostWakeup`, `NoWorkForTheDying`) is the bookkeeping
  `ServiceSpec` rests on; `ShutdownIsFinal` says that nothing survives a shutdown;
  `DialogsHold` (`DialogsNest`, `NoStaleChoice`) and `DialogsClose` that the registries agree.
* Supervisor. `BackendsInTurn` (`OneBackend`, `ShutdownIsFinal`) says that a restart never
  overlaps with what it replaces; `NobodyStuck` (`RequestsLive`, `Startable`) that no death
  leaves a request or a restart behind; `SilenceEnds` (`SilentIsDead`, `StartSettles`) that
  the heartbeat needs no event of the child and no path of the handshake forgets its promise.
* Matcher. `WorkerKept` (`OneWorker`, `ReadyWorkerReplaced`): replacements never overlap and
  never forget a worker that had served.
* Trees. `TreeTellsTheItems`: the copy of the UI equals the tree after its own patches alone,
  and every folder says what its items say, after any mixture of clicks, batches and scripts,
  as long as no matrix has locked anything (then a folder depends on history, and the code
  says so). `ScriptEditsLand`: the changes of a script mean the same in the backend's tree as
  in the script's. `ChoiceSurvivesLock`: matrices give back what they took.
* UI. `UiFollows`: whatever overtakes what, once all is in, the UI shows the backend's state,
  settings and last run, and no patch ever hit the wrong tree; `rejoined` and `unseen` exclude
  exactly the two cases of section 6. `RunsAsShown`: a run uses the settings on the screen,
  unless a failed load or a death is being shown, or a load went unseen.
* Log and dialogs. `EventsFollowed` is `LogFollowed` (order, completeness and the closing line
  of the window, except after a page has overtaken what it must not: `overtook`, section 6) and
  `DialogsFollow` (one listener, the dialogs shown are the open ones, one answer each).
  `NoLineLost`: the spool keeps what the worker has not acknowledged.
* Services. `RunsOnItsOwn`, `SlotKept`, `NobodyForgotten`, `NothingLeftUnseen`,
  `FramesArriveWhole` (against the frames the sender made, not against the decoder),
  `AccountedOnce`, `LoadsWhatFilesSay` (what is in force is recomputed from the files alone),
  `BatchesAgree`, `ArgvArrives` and `PlanIsWhatIsShown`: the hazard each one is about is in
  `PROJECT.json`.

### Fairness

Session (`Session!Fairness`): scripts, matching, parsing and the pool's handshake have
timeouts of their own, so their continuations are weakly fair; so is everything that only
computes or drains the log. A JVM has no timeout: its exit is fair only once it has been
aborted, because an abort escalates to a kill. No RPC is ever fair: nobody has to call.

Pool (`ScriptWorkerPool!Fairness`): the timers (handshake, wait, run, dialog) fire, a promise
that is resolved continues, and a child that is being killed exits, because the kill escalates
to SIGKILL. A worker that is merely busy owes nothing.

Supervisor (`BackendSupervisor!Fairness`): the timers (handshake, heartbeat, request, grace)
fire, a promise that is resolved continues, and `terminate()` reports within its budget. The
backend owes nothing: it may stay silent, and may survive its termination. The fairness of
`MatcherService` is the same.

The modules of `ui` and `services` state safety only and assume no fairness.

## 4. Proofs

The modules of proofs hold for every value of the constants, from the named assumptions of
the models (`HooksAssumption`, `DefaultsAssumption`, `BoundsAssumption`, `NoneAssumption`,
`SizeAssumption`,
`GenerationsAssumption`, `QueueAssumption`, `CacheAssumption`, `ChannelAssumption`,
`HostAssumption`, `SelectorAssumption`, `FrameAssumption`, `LoaderAssumption`,
`CodecAssumption`, `PlanAssumption`, `SinkAssumption`, `LogAssumption`, `DialogAssumption`,
`StoreAssumption`); TLC evaluates those on every run. A property that is a conjunction has the
theorems of its parts and one that joins them (`RunUndisturbed`, `DisposeLasts`, `WorkIsServed`,
`DialogsAgree`, `BackendsTakeTurns`, `NobodyIsStuck`, `WorkerIsKept`).

`SessionProofs`. Type correctness is split in flags and values because the solvers handle
Boolean variables and numbers differently. The safety theorems rest on `Phases`: the
legality of all past transitions is not inductive, because whether a hop is legal depends on
where the suspended functions are. `Phases` therefore says for each `runPc` which state and
which flags it implies (`RunPhase`, `AbortPhase`), that a load in flight is exactly one call
and the state "loading" (`LoadPhase`), and that a configuration is there when a run is
(`ConfigPhase`). From it follow `TransitionsLegal`, `StateTruthful`, `OutcomeStable`,
`ShardsOwned`, `DispatchFrozen` and `ConfigKept`. `NothingMisapplied` adds `ViewPhase`: the
version in the UI's hands is at most the current one, and equal to it only with the same
configuration. `RunsOrdered` counts the ended runs; `DisposeQuiet` adds `DisposePhase`: once
disposed no load and no run can begin.

`PoolProofs`. `Inv` is three invariants that need each other in one direction only: `PlaceInv`
(flags belong to children, a shutdown awaits every child there is, an open spawn promise to a
child that has not shaken hands), `CallInv` (a pending call is on a member; a parked one has a
reason to sleep) and `DialogInv` (the registries nest, owners live). `ShutdownFinal` is where
they meet: no child, so no member, so no pending call, so no dialog. `PoolImplementsService`
shows that the pool refines the safety part of `CallService`: `StepsMap` maps each action to
a step or a stutter under `answerOf`.

`SupervisorProofs`. None of the properties is inductive alone. `SlotInv` says where processes
are: a child not declared dead is the current one, a living child is the current one or the
one `shutdown()` closes, a finished cleanup means an exited child, a running heartbeat belongs
to a slot that is ready. `StateInv` says what `state` implies for the slot and for `start()`;
`OneBackendOnly` then follows because a fork comes after the cleanup of the only child there
was. `DeathCauses` and `DeathKeeps` treat the five causes of death once.
`SupervisorImplementsService` maps a death to an answer of all pending requests and
`shutdown()` to a close that turns them down.

`MatcherProofs`. `SlotInv` ties the open promises to the worker (an open spawn to one that has
not shaken hands, a suspended `killAndReplenish` to a cleanup that is not over), from which
`OneWorkerOnly` and `ReadyReplaced` follow; `QueueInv` says that the queue holds the queued
callers, each once, which is what makes the head's answer one answer of `CallService`.

`ServiceProofs`, the services around the session.

* Cache. `RunsOnItsOwn` says nothing of what an interrupted update leaves. `Locks` ties each
  stage of an instance to the locks it holds, `Exclusive` gives those their meaning, and
  `Files` says what an instance that extracts has made so far: nothing but files of its
  version, and the marker (entry 0) only behind all others. A crash of the machine may tear a
  file, but leaves nobody running.
* Channel. `Owned` says that a guardian that runs is the one in the slot or the one the holder
  of the slot is starting or reaping; with `Holders` (one holder, and an empty slot meanwhile)
  there is one at most. `ClosedOnce` needs `closed` to be read under the lock. `Registered` is
  `NobodyForgotten` from the moment of registration: death answers all who are registered, and
  nobody can register with a dead channel.
* Owned processes. What the close event tells lasts (`Closed`); for each owner who settles the
  call, `ParserKilled` and `JvmTold` say what it must have been told by then; `Returned` that a
  call returns only when the process is gone or its kill has been reported.
* Script host. `AccountedOnce` holds of the reply; `HostInv` says where each script is
  (`Stage`: what its outcome, its answer and the edits at its decision are in each stage), that
  a message is in flight until its one reply (`Answered`), that a dialog calls back once
  (`Callbacks`), and what a shutdown waits for (`Stopped`).
* Selectors. `BatchesAgree` compares with the reference once both rounds are over. `Round` says
  how far a round has come, `OnlyPicked` that what is selected so far the reference selects
  too, `NoneMissed` that an item no longer looked at is settled in the reference as well:
  the first rule that takes it decides, on both sides.
* Frames. `FramesAreWhole` holds for any size of the length and of a body, any budget and any
  cutting of the stream. `FrameInv` compares what is on its way with what the sender made:
  what waits to be written is the last frames (`BacklogInOrder`), what was given the first
  (`GivenInOrder`), and chunks and pipe together hold, byte for byte, those between, as long
  as the decoder has met no bad one (`StreamIsTheRest`); after that it gives nothing more
  (`StopsAtTheBad`). The stream is read by `FlattenSeq`, so the proof is about concatenations:
  what `Consume` takes is the front of it, wherever the chunks are cut.
* Codec. `ArgumentsArrive` holds for any argument lists over any letters. `GotFirst` says that
  the JAR has the first `m` arguments and the line is the encoding of the others, with or
  without the space before them; `CodecInv` that there is such an `m` once a line was made.
  `LineStarts` says what the tokenizer takes of an encoded argument.
* Plan. In `PlansAreShown` the form and the plan are two computations of one configuration, one
  set of overrides and any list of items. `RuleIs` says what a rule of the plan has of its own
  and what of the form, with the directory of a lone rule as the exception it is (`Lone`); the
  order of the tasks is that of the pairs of item and rule (`PairsOf`, `BeforeIn`).
* Loader. `FilesAreLoadedAsTold` holds for any files that include each other in any way.
  `OnTheWay` describes a load that has not ended: the files being read are a chain of includes
  (`Chained`), no file is read twice (`Apart`), each include line followed led to a file of
  its own (`LedTo`, from which follows that a load that ends well has read a tree), and the
  value so far is that of the last include that has one (`LastWord`). The property recomputes
  both from the files alone, by functions recursive in the number of files: `Reach` is the
  least set the includes do not leave, as a path to a file need not be longer than there are
  files, and `InForce` is the only assignment of values that agrees with every
  file. The proof found that two arms of `Refused` overlapped for a file that is both loaded
  and being read; that state does not occur, and the arm now says what the code does
  (`loader.ts` asks for the cycle first).
* All together. `PartsBehave` says that a behaviour of `ServicesSpec` is one of each of the nine
  modules, since a step of one leaves the variables of the others alone. With the invariants
  above, `ServicesTyped` and `ServicesKeepTheirWord` follow.

`StoreProofs`. Neither `UiFollows` nor `RunsAsShown` says anything of a call, but what makes them
true is what the calls under way may be: answers come in any order, also before the events that
were published earlier. `StoreInv` is about that list of calls, of any length.

* `Follows` says of every pair of calls what the later one may be while the earlier one is
  there: served only behind it, not a run behind an edit the UI still waits for, not a
  `getSnapshot` that is shared when any other call has been made since, and so on. All but
  its clause about trusted runs is kept by removing, disowning and outdating calls
  (`ThinnedCalls`), which is most of what the store does.
* `FactsOf` says of each call what its answer, or its argument, tells of the backend: a report
  patches the tree of its version (trees and versions of one backend are a fixed number `E`
  apart, `ReportOf`), the newest snapshot has the state of the backend unless an event is on
  its way (`RunOf`), the newest answer to an edit has its settings (`SettingsOf`), a run that
  is asked by a UI that knows itself connected carries them (`TrustOf`).
* `Coming` is why the settings are right in the end: as long as those shown are not those of
  the backend, an edit is under way whose answer will bring them. `Bare` is the state after a
  death, in which the next backend has no configuration and the UI must not show one, unless
  it has not heard of the death or a load nobody waits for is still served (`Stray`).
* `EventsInv` says that the last state published is the state, and that the end of the last run
  is among the events or has been heard. `CountInv` is the meaning of `settingsPending`: the
  edits under way, those that wait for their turn, and the snapshots a matrix edit waits for.

All of it is stated of values (`StoreOf`), because a step makes several lists of calls on its
way. `StoreSteps` has one lemma `...Keeps` per action, `StoreFollows` draws the conclusions.
`StoreTypes` adds numbers to the types: `StoreBounds` says that the UI waits for no more edits
than were made and that no result comes of a run that was not started, in the events on their
way as on the screen.

`StoreProofs`, the log. The three parts of `LogFollowed` need `LogInv`, which speaks of
everything on its way: the events between two deaths are consecutive (`Gapless`), the window has
no hole above what has left it and ends where the events go on (`Shown`), and each page under way fits that
window (`PagesOk`), whichever of event, page, eviction, reset and death comes first. The parts
are predicates of values, so that a step is a lemma about what it makes of them; there is one
lemma `...Keeps` per action. The proof found two flaws in the property: with more than one
`getLogs` under way the exclusion `overtook` was too narrow. Of two first pages one may overtake
events and the other be merged behind it; and a page of the next backend may overtake the news
of the death, which then wipes the number up to which lines are known. `Overtakes` names both
now, and section 6 what they mean for the user.

`UiProofs`. `Spooled` says that an open line of the log file is somewhere in the spool, which
`consumed` may not pass without a confirmation; `Pumped` that a pump is off, in a sink that
works, only when the spool is empty. With them the file cannot be removed while a line is open
(`LinesKept`). `Tracked` follows a dialog through the event stream: the last event of it that
is on its way, or the queue if there is none, says whether it is open, unless something of it
was lost; with it `DialogsAreFollowed`. `UiFollowsEvents` lifts this theorem and the one of
the log to the composition the run `ui` explores: each step is one of one module. `UiTyped` and
`UiKeepsItsWord` do the same for the types and for all other properties of that run, by
`UiPartsBehave`: a behaviour of `UiSpec` is one of each of its five modules.

The three properties of the tree hold for every shape of it, however deep (`TreeTells`,
`ScriptsLand`, `MatrixGivesBack`, from `TreeInv`). `DisplayIs` says that a copy that is not
stale selects, node by node, what the tree does; `MirrorAgrees` that outside what the script
has moved its mirror has the items of the tree; `NothingLocked` that, as long as no matrix has
ever locked anything, tree and mirror both tell what their items say (`Told`). Without the
last part nothing could be said of folders: one with locked items keeps what it had, and its
children do not determine it. The functions of the model are recursive over the tree; what they
compute is proved node by node, parents before children (`AboveIs`) or children before parents
(`CascadeIs`). What the rest hangs on is `LocalIsTold`: every folder says what the items
below it say exactly if every folder says what its children say, which is all that the code,
going up from a node, looks at.

`SeqProofs` has what those proofs need about sequences and numbers. Induction over data is done
there, once, by a least counterexample (`LeastNat`, `Induct`): that `Filtered` keeps the elements
at the given places, in order (`FilteredPlaces`), that a function that is built by repeating
a step exists (`Iterates`), and that `FlattenSeq` of a concatenation is the concatenation of the
parts (so a chunk more, a chunk less or a chunk cut in two).

Only model-checked: every liveness property (`CancelEndsRun`, `CallsFinish`, `DialogsClose`,
`SilenceEnds`) and the fairness part of `ServiceSpec`, for which the prover has no rule. Every
safety property that a passing run checks is a theorem. `unseen`, without which `UiFollows`
and `RunsAsShown` are false, shows only with five stimuli, two more than the run `ui` allows; the
theorems have no such bound.

## 5. Plan

Every module of the plan this project began with is written. What is left, in the order of its
weight:

1. The rest of the store: preview, cancelling; and `TreeState` composed
   with `SessionStore`, so that a patch is the patch of a tree and not of a number.
2. `GuardianChannel` with `BackendSupervisor`: a request through both, with the deaths of both.
3. Categories and item fields of the loader.

## 6. Divergences

`session.ts:309` and `run.ts:1` promise that what a before hook changes is seen by the plan
of its run. The selectors and the custom buttons have no run gate (`session.ts:678`): when one
of them changes the tree while a before hook is in its worker, the version gate refuses
everything the hook did. `session_edits` shows it in a few steps.

`matcher-service.ts:164` promises that queued requests wait for the replacement instead of
failing, `:125` that a death rejects only its own request. A replacement that fails its
handshake is not tried again, while `start()` stays resolved: from then on every selector
waits six seconds and fails until the application is restarted. `matcher_wait` shows it; the
same follows when a killed worker was not seen to close in time.

`tree-model.test.ts:89` says that an item locked by a matrix must never be selected again by a
cascade of its parent. `applySetSelected` skips such items, `applyToggleSelected`
(`tree-model.ts:188`) does not: a double click on a folder selects them. `tree_toggle` shows it.

`backend.ts:317` says that joining a `getSnapshot` in flight is safe because it only reads. A
refresh that joins one already overtaken by a `state_change` takes the old state for the newest
and shows it until the next refresh. `ui_right` shows it.

Met while modelling, and not the subject of a run:

* `docs/user/configuration.md:18` says that each output type may have a directory and a rename
  of its own and falls back on the global value. A configuration whose only output type has no
  tags and no classes gets its type and rename from there, and not its directory: neither the
  form (`plan-builder.ts:150`) nor the plan (`:184`) reads it, and the files go to the global
  directory. With a second type, or a condition, the same directory is used.
  `PlanIsWhatIsShown` says of this case (`LoneDirectory`) what the code does, not what the
  documentation says.
* `docs/development/configuration-and-conversion.md:30` says that a task with an empty argument,
  a line break or a mix of quotes that no line can express falls back to argv. `run.ts:264`
  skips it and counts it as failed; nothing runs a task from argv. `ArgvArrives` speaks only of
  the tasks that are written.
* `initLogs` called while the window has or has had lines puts its page above lines that events
  bring later, newer ones included; the same happens when two of them are under way, and when
  a page of a new backend arrives before the news of the old one's death (`overtook`).
  `loadOlderLogs` at the capacity of the window leaves a hole when an event evicts the oldest
  line.
* The event stream is attached asynchronously and keeps nothing: a dialog that is requested
  before the listener is there is not shown, and ends by its time limit (`unheard`).
* A backend dies, a new one is started by a load, and the news of the death comes last: it
  counts the epoch up (`session-store.ts:1127`), so the answer to that load is taken for an
  old one (`:531`, `:547`). The configuration is loaded and not shown until the next refresh
  (`unseen`).
* A failing load drops the answer to an edit that was in flight; the edit is in force and not
  shown (the condition of `RunsAsShown`).
* A load that succeeds while a run request is in flight leaves `runStarting` set; a preview in
  flight then stays "loading".
* The reader thread of the shell drops replies nobody waits for (`guardian.rs:176`), although
  the comments at `:179` and `:436` say they go to the event stream. The shutdown frame is lost
  when the writer's queue is full; the guardian is then killed after ten seconds.
* `java-runner.ts:139` says that EPIPE on stdin is not fatal; it stops the JVM like any other
  stdin error. A JVM that exits with 0 before all tasks were written counts as no failure.
* The outer deadline of a script counts from the arrival of its message, its own clock from
  its start: a script with a long synchronous part is cut before its own time is over, and
  its edits are lost.

## 7. Not modelled

XML, the fields of items and categories, the text of options, locale, fonts, the web-view
preflight and the React views: sequential code whose result is data. `lib.rs` forwards
commands to parts that are modelled. Generated contracts, packaging and build scripts, which are
a good part of the repository, have no state that outlives a call. Preview and cancelling
of the UI store (each one call with one answer), the sandbox of the script host, the
format of log lines. The script code itself, which may do anything a worker can; the JAR, of which only exit and
tokenizer are known; the exit code of a JVM, which the system cuts to eight bits
(`run.ts:321`).
