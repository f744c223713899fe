--------------------------- MODULE ConversionRun ---------------------------
(***************************************************************************)
(* One conversion run: runConversion of packages/backend/src/service/      *)
(* run.ts, cut at its awaits.  The session owns state, version (the        *)
(* version of its tree), cancelRequested and javaAbort and lends them to   *)
(* the run through RunOptions; everything else here is local to the run.   *)
(*                                                                         *)
(* An action is the code between two awaits, so what it reads cannot       *)
(* change under it; what it captured at an earlier await (hookVersion)     *)
(* can have gone stale.                                                    *)
(***************************************************************************)
EXTENDS RunState

CONSTANTS
    Hooks,        \* hooks configured in each event chain
    Shards,       \* process indices; at most this many JVMs per run
    MaxVersion    \* bound on optional tree-version bumps

ASSUME HooksAssumption == Hooks \in Nat
ASSUME MaxVersionAssumption == MaxVersion \in Nat

VARIABLES
    state,            \* RunState, written only through transition()
    illegal,          \* history: some transition() failed assertTransition
    config,           \* identity of the loaded config and its tree; 0 = none
    version,          \* SessionTreeState.version; 0 = no tree
    cancelRequested,
    javaAbort,        \* the run's AbortController: none, armed or aborted
    runPc,            \* where the async runConversion is suspended
    hookVersion,      \* tree version in the snapshot of the hook in flight
    hooksLeft,        \* hooks of the current chain not reached yet
    failed,           \* failedCount > 0
    jvms,             \* process indices whose JVM is alive
    editsLost         \* history: ops of a before hook were refused as stale

runVars == <<state, illegal, config, version, cancelRequested, javaAbort,
             runPc, hookVersion, hooksLeft, failed, jvms, editsLost>>

RunPcs == {"none", "before", "convert", "probe", "shards", "after", "drain",
           "closing"}
AbortStates == {"none", "armed", "aborted"}

\* transition(): several hops of one synchronous piece of code at once.
Go(path) ==
    /\ state' = path[Len(path)]
    /\ illegal' = (illegal \/ ~LegalPath(state, path))

\* transitionSoft(): once the run's outcome is published, later ones are lost.
SoftGo(path) == IF isTerminal(state) THEN UNCHANGED <<state, illegal>> ELSE Go(path)

\* applyScriptOps with a batch stamped v: every op is refused when v is not the
\* current version, otherwise the tree changes and the version moves by one.
\* A batch that changes nothing leaves the version alone either way.
ApplyStamped(v) ==
    IF v = version THEN version' = version + 1 ELSE UNCHANGED version

\* What the run reports, evaluated where the code evaluates it.
Outcome ==
    IF cancelRequested THEN "cancelled" ELSE IF failed THEN "failed" ELSE "succeeded"

(***************************************************************************)
(* The event-hook loop.  hook.enabled is read when the loop reaches the    *)
(* hook and the checkbox may be flipped at any time (setHookEnabled has no *)
(* state gate), so each hook reached may be skipped.                       *)
(***************************************************************************)
InvokeHook(chain, left, ver) ==
    /\ \E rest \in 0..(left - 1) : hooksLeft' = rest
    /\ runPc' = chain
    /\ hookVersion' = ver

\* The loop ends: cancelled, or every hook left is disabled.
EndChain(next) ==
    /\ runPc' = next
    /\ hooksLeft' = 0
    /\ hookVersion' = 0

\* Mutant: the loop goes on after a cancellation.
RunChain_NotFrozen(chain, next, left, ver, cancelled) ==
    InvokeHook(chain, left, ver) \/ EndChain(next)

RunChain(chain, next, left, ver, cancelled) ==
    \/ ~cancelled /\ InvokeHook(chain, left, ver)
    \/ EndChain(next)

ChainNext(chain) == IF chain = "before" THEN "convert" ELSE "drain"

(***************************************************************************)
(* The synchronous prefix of runConversion, up to the first hook.  The     *)
(* session has reset cancelRequested and re-armed a terminal state in the  *)
(* same piece of code.                                                     *)
(***************************************************************************)
StartRun ==
    /\ RunChain("before", "convert", Hooks, version, FALSE)
    /\ failed' = FALSE
    /\ editsLost' = FALSE
    /\ jvms' = {}

(***************************************************************************)
(* pool.invoke of the hook in flight settles.  Every outcome that carries  *)
(* ops applies them; a worker-level failure (timeout, exit, fault) carries *)
(* none.                                                                   *)
(***************************************************************************)
HookOps ==
    \/ UNCHANGED <<version, editsLost>>
    \/ /\ version < MaxVersion
       /\ ApplyStamped(hookVersion)
       /\ editsLost' = (editsLost \/ (runPc = "before" /\ hookVersion # version))

HookResolves ==
    /\ runPc \in {"before", "after"}
    /\ HookOps
    /\ RunChain(runPc, ChainNext(runPc), hooksLeft, version', cancelRequested)
    /\ UNCHANGED <<state, illegal, config, cancelRequested, javaAbort, failed, jvms>>

\* rejected, error outcome or a worker failure: the chain aborts and the run
\* goes straight to its finally block.
HookFails ==
    /\ runPc \in {"before", "after"}
    /\ HookOps
    /\ failed' = TRUE
    /\ EndChain("drain")
    /\ UNCHANGED <<state, illegal, config, cancelRequested, javaAbort, jvms>>

HookReturns == HookResolves \/ HookFails

(***************************************************************************)
(* After the before chain: converting, plan building and the working       *)
(* directory check, all synchronous.                                       *)
(***************************************************************************)
\* The after chain runs only when nothing failed and nobody cancelled.
AfterChain == RunChain("after", "drain", Hooks, version, FALSE)

CancelledBeforePlan ==
    /\ runPc = "convert"
    /\ cancelRequested
    /\ SoftGo(<<"converting">>)
    /\ EndChain("drain")
    /\ UNCHANGED <<config, version, cancelRequested, javaAbort, failed, jvms, editsLost>>

PlanFails ==
    /\ runPc = "convert"
    /\ ~cancelRequested
    /\ SoftGo(<<"converting">>)
    /\ failed' = TRUE
    /\ EndChain("drain")
    /\ UNCHANGED <<config, version, cancelRequested, javaAbort, jvms, editsLost>>

\* No task: no JAR is read, no JVM started and the after chain follows at once.
PlanIsEmpty ==
    /\ runPc = "convert"
    /\ ~cancelRequested
    /\ SoftGo(<<"converting", "after_hooks">>)
    /\ AfterChain
    /\ UNCHANGED <<config, version, cancelRequested, javaAbort, failed, jvms, editsLost>>

PlanHasTasks ==
    /\ runPc = "convert"
    /\ ~cancelRequested
    /\ SoftGo(<<"converting">>)
    /\ runPc' = "probe"
    /\ UNCHANGED <<config, version, cancelRequested, javaAbort, hookVersion,
                   hooksLeft, failed, jvms, editsLost>>

BuildPlan == CancelledBeforePlan \/ PlanFails \/ PlanIsEmpty \/ PlanHasTasks

(***************************************************************************)
(* readXresloaderVersion settles: an aborted signal throws, any other      *)
(* failure falls back to the old scheduling.  Then runShard of every shard *)
(* runs up to its runner: a shard none of whose lines could be encoded     *)
(* starts no JVM, and each line that could not be encoded is a failure.    *)
(***************************************************************************)
ProbeThrows ==
    /\ runPc = "probe"
    /\ javaAbort = "aborted"
    /\ failed' = (failed \/ ~cancelRequested)
    /\ EndChain("drain")
    /\ UNCHANGED <<state, illegal, config, version, cancelRequested, javaAbort,
                   jvms, editsLost>>

SpawnShards ==
    /\ runPc = "probe"
    /\ javaAbort # "aborted"
    /\ jvms' \in SUBSET Shards
    /\ failed' \in BOOLEAN
    /\ jvms' = {} => failed'
    /\ runPc' = "shards"
    /\ UNCHANGED <<state, illegal, config, version, cancelRequested, javaAbort,
                   hookVersion, hooksLeft, editsLost>>

\* The runner of shard s settles.  A rejection of a cancelled run is not counted.
ShardExits(s) ==
    /\ runPc = "shards"
    /\ s \in jvms
    /\ jvms' = jvms \ {s}
    /\ failed' \in {failed, TRUE}
    /\ UNCHANGED <<state, illegal, config, version, cancelRequested, javaAbort,
                   runPc, hookVersion, hooksLeft, editsLost>>

\* Mutant: Promise.race.
AllExited_Race == jvms # Shards

\* Promise.all over the shards: none of them is left alive.
AllExited == jvms = {}

JoinedToAfter ==
    /\ runPc = "shards"
    /\ AllExited
    /\ ~cancelRequested /\ ~failed
    /\ SoftGo(<<"after_hooks">>)
    /\ AfterChain
    /\ UNCHANGED <<config, version, cancelRequested, javaAbort, failed, jvms, editsLost>>

JoinedToFinish ==
    /\ runPc = "shards"
    /\ AllExited
    /\ cancelRequested \/ failed
    /\ EndChain("drain")
    /\ UNCHANGED <<state, illegal, config, version, cancelRequested, javaAbort,
                   failed, jvms, editsLost>>

ShardsJoined == JoinedToAfter \/ JoinedToFinish

(***************************************************************************)
(* The finally block: hookRunner is cleared and pipeline.drain() awaited;  *)
(* then the outcome is published and the closing log line awaited.         *)
(***************************************************************************)
Publish ==
    /\ runPc = "drain"
    /\ SoftGo(<<Outcome>>)
    /\ runPc' = "closing"
    /\ UNCHANGED <<config, version, cancelRequested, javaAbort, hookVersion,
                   hooksLeft, failed, jvms, editsLost>>

=============================================================================
