--------------------------- MODULE SessionProofs ---------------------------
(***************************************************************************)
(* What holds of Session for every set of calls and shards and every       *)
(* bound.                                                                  *)
(***************************************************************************)
EXTENDS Session, FiniteSetTheorems, TLAPS

-----------------------------------------------------------------------------
(* Types.  The flags and the other values are kept apart: the step lemmas   *)
(* about flags are first-order, the others need arithmetic and functions.   *)

\* A button chain suspended before or in an action has that action left.
ActsLeft ==
    \A c \in Calls : pc[c] \in {"button", "button_script"} => job[c].acts # 0

Values == ValuesOK /\ ActsLeft

LEMMA InitFlags == Init => FlagsOK
BY Zenon DEF Init, FlagsOK

LEMMA InitValues == Init => Values
BY SMT DEF Init, Values, ValuesOK, ActsLeft, RunStates, AbortStates, RunPcs, CallPcs,
       Job, NoJob, DisposePcs

LEMMA RunStepFlags == FlagsOK /\ RunStep => FlagsOK'
<1> SUFFICES ASSUME FlagsOK, RunStep PROVE FlagsOK'
    OBVIOUS
<1>1. CASE HookReturns
    BY <1>1, Zenon DEF RunStep, FlagsOK, HookReturns, HookResolves, HookFails,
        HookOps, sessionVars
<1>2. CASE BuildPlan
    BY <1>2, Zenon DEF RunStep, FlagsOK, BuildPlan, CancelledBeforePlan, PlanFails,
        PlanIsEmpty, PlanHasTasks, SoftGo, Go, sessionVars
<1>3. CASE ProbeThrows
    BY <1>3, Zenon DEF RunStep, FlagsOK, ProbeThrows, sessionVars
<1>4. CASE SpawnShards
    BY <1>4, Zenon DEF RunStep, FlagsOK, SpawnShards, sessionVars
<1>5. CASE \E s \in Shards : ShardExits(s)
    BY <1>5, Zenon DEF RunStep, FlagsOK, ShardExits, sessionVars
<1>6. CASE ShardsJoined
    BY <1>6, Zenon DEF RunStep, FlagsOK, ShardsJoined, JoinedToAfter, JoinedToFinish,
        SoftGo, Go, sessionVars
<1>7. CASE Publish
    BY <1>7, Zenon DEF RunStep, FlagsOK, Publish, SoftGo, Go, sessionVars
<1>8. QED
    BY <1>1, <1>2, <1>3, <1>4, <1>5, <1>6, <1>7 DEF RunStep

LEMMA RunStepValues == Values /\ RunStep => Values'
<1> SUFFICES ASSUME Values, RunStep PROVE Values'
    OBVIOUS
<1> USE HooksAssumption, MaxVersionAssumption DEF Values, ValuesOK, ActsLeft, sessionVars
<1>1. CASE HookReturns
    BY <1>1 DEF RunStep, HookReturns, HookResolves, HookFails, HookOps, RunChain,
        InvokeHook, EndChain, ApplyStamped, ChainNext, RunPcs
<1>2. CASE BuildPlan
    BY <1>2 DEF RunStep, BuildPlan, CancelledBeforePlan, PlanFails, PlanIsEmpty,
        PlanHasTasks, AfterChain, RunChain, InvokeHook, EndChain, SoftGo, Go, RunPcs,
        RunStates
<1>3. CASE ProbeThrows \/ SpawnShards
    BY <1>3 DEF RunStep, ProbeThrows, SpawnShards, EndChain, RunPcs
<1>4. CASE \E s \in Shards : ShardExits(s)
    BY <1>4 DEF RunStep, ShardExits, RunPcs
<1>5. CASE ShardsJoined
    BY <1>5 DEF RunStep, ShardsJoined, JoinedToAfter, JoinedToFinish, AfterChain,
        RunChain, InvokeHook, EndChain, SoftGo, Go, RunPcs, RunStates
<1>6. CASE Publish
    BY <1>6 DEF RunStep, Publish, SoftGo, Go, Outcome, RunPcs, RunStates
<1>7. QED
    BY <1>1, <1>2, <1>3, <1>4, <1>5, <1>6 DEF RunStep

\* Suspending a call with a well-typed job keeps pc and job well typed.
LEMMA SuspendValues ==
    ASSUME Values, NEW c \in Calls, NEW where \in CallPcs, NEW captured \in Job,
           where \in {"button", "button_script"} => captured.acts # 0,
           Suspend(c, where, captured)
    PROVE  /\ pc' \in [Calls -> CallPcs]
           /\ job' \in [Calls -> Job]
           /\ ActsLeft'
BY DEF Values, ValuesOK, ActsLeft, Suspend, CallPcs

\* A call that returns keeps them well typed.
LEMMA ReturnValues ==
    ASSUME Values, NEW c \in Calls, Return(c)
    PROVE  /\ pc' \in [Calls -> CallPcs]
           /\ job' \in [Calls -> Job]
           /\ ActsLeft'
<1>1. NoJob \in Job /\ "idle" \in CallPcs
    BY DEF NoJob, Job, CallPcs
<1>2. QED
    BY <1>1, SuspendValues DEF Return

LEMMA CallStepFlags == ASSUME FlagsOK, NEW c \in Calls, CallStep(c) PROVE FlagsOK'
<1> USE DEF FlagsOK, CallLocal, stateVars, treeVars, abortVars, runLocal, lifeVars, runVars
<1>1. CASE StartRejects(c)
    BY <1>1, Zenon DEF StartRejects
<1>2. CASE LoadStep(c)
    BY <1>2, Zenon DEF LoadStep, CallLoad, LoadRefused, LoadBegins, LoadFails, LoadCommits,
        LoadDefaultsEnd, Go, MatchApplies, MisapplyIf
<1>3. CASE RunCallStep(c)
    BY <1>3, Zenon DEF RunCallStep, CallRun, RunRefused, RunBegins, Go, StartRun
<1>4. CASE ResetStep(c)
    BY <1>4, Zenon DEF ResetStep, CallReset, ResetRefused, ResetWaits, ResetNow, CancelBody,
        Rearm, Go
<1>5. CASE SelectorStep(c)
    BY <1>5, Zenon DEF SelectorStep, SetCustomSelectors, DefaultsContinue, SetDefaultsEnd,
        ClickChain, ClickToggle, ToggleEnds, ChainAborts, ActionSelects, ActionReloads,
        ActionHasNoScript, ActionInvokes, ScriptReturns, ScriptEnds, ScriptOutdated,
        ReloadEnds, MatchApplies, MisapplyIf
<1>6. QED
    BY <1>1, <1>2, <1>3, <1>4, <1>5 DEF CallStep

LEMMA JobTypes ==
    /\ NoJob \in Job
    /\ \A k, n \in Nat : [NoJob EXCEPT !.cfg = k, !.acts = n] \in Job
    /\ \A k, n, g \in Nat : [NoJob EXCEPT !.cfg = k, !.sel = n, !.gen = g] \in Job
    /\ \A j \in Job, k, n, g, d \in Nat :
          [j EXCEPT !.cfg = k, !.sel = n, !.gen = g, !.defs = d] \in Job
    /\ \A j \in Job, n, v \in Nat : [j EXCEPT !.sel = n, !.ver = v] \in Job
    /\ \A j \in Job, d, g \in Nat : [j EXCEPT !.defs = d, !.gen = g] \in Job
    /\ \A j \in Job, n, v \in Nat : [j EXCEPT !.sel = n, !.ver = v].acts = j.acts
    /\ \A k, n \in Nat : [NoJob EXCEPT !.cfg = k, !.acts = n].acts = n
BY DEF Job, NoJob

\* What is left of a chain is well typed.
LEMMA RestType ==
    ASSUME Values, NEW c \in Calls, pc[c] = "button" \/ pc[c] = "button_script"
    PROVE  /\ Rest(c) \in Job
           /\ job[c].acts # 1 => Rest(c).acts # 0
<1>1. job[c].acts \in Nat \ {0} /\ job[c].cfg \in Nat
    BY DEF Values, ValuesOK, ActsLeft, Job
<1>2. job[c].acts - 1 \in Nat
    BY <1>1
<1>3. Rest(c) \in Job /\ Rest(c).acts = job[c].acts - 1
    BY <1>1, <1>2, JobTypes DEF Rest
<1>4. QED
    BY <1>1, <1>3

LEMMA NextActionValues ==
    ASSUME Values, NEW c \in Calls, pc[c] = "button" \/ pc[c] = "button_script",
           NextAction(c)
    PROVE  /\ pc' \in [Calls -> CallPcs]
           /\ job' \in [Calls -> Job]
           /\ ActsLeft'
<1>1. CASE job[c].acts = 1
    BY <1>1, ReturnValues DEF NextAction
<1>2. CASE job[c].acts # 1
    <2>1. Suspend(c, "button", Rest(c)) /\ "button" \in CallPcs
        BY <1>2 DEF NextAction, CallPcs
    <2>2. QED
        BY <1>2, <2>1, RestType, SuspendValues
<1>3. QED
    BY <1>1, <1>2

LEMMA LoadStepValues == ASSUME Values, NEW c \in Calls, LoadStep(c) PROVE Values'
<1> USE DEF Values, ValuesOK, CallLocal, stateVars, treeVars, abortVars, runLocal,
            seqVars, lifeVars, runVars, RunStates, AbortStates
<1>1. CASE CallLoad(c)
    BY <1>1, SuspendValues, JobTypes DEF CallLoad, CallPcs
<1>2. CASE LoadRefused(c)
    BY <1>2, ReturnValues DEF LoadRefused
<1>3. CASE LoadBegins(c)
    BY <1>3, SuspendValues, JobTypes DEF LoadBegins, CallPcs, Go
<1>4. CASE LoadFails(c)
    BY <1>4, ReturnValues DEF LoadFails, Go
<1>5. CASE LoadCommits(c)
    <2>1. config' \in Nat /\ version' \in Nat
        BY <1>5 DEF LoadCommits, CommitConfig
    <2>2. CASE selectors # 0 /\ Defaults > 0
        <3> DEFINE j == [NoJob EXCEPT !.cfg = config', !.sel = selectors,
                                      !.gen = generation, !.defs = Defaults]
        <3>1. j \in Job
            BY <2>1, DefaultsAssumption, JobTypes
        <3>2. Suspend(c, "load_defaults", j) /\ "load_defaults" \in CallPcs
            BY <1>5, <2>2 DEF LoadCommits, CallPcs
        <3>3. QED
            BY <1>5, <2>1, <2>2, <3>1, <3>2, SuspendValues DEF LoadCommits
    <2>3. CASE ~(selectors # 0 /\ Defaults > 0)
        BY <1>5, <2>1, <2>3, ReturnValues DEF LoadCommits, Go
    <2>4. QED
        BY <2>2, <2>3
<1>6. CASE LoadDefaultsEnd(c)
    BY <1>6, ReturnValues, MaxVersionAssumption
       DEF LoadDefaultsEnd, MatchApplies, ApplyNow, ApplyStamped, Go
<1>7. QED
    BY <1>1, <1>2, <1>3, <1>4, <1>5, <1>6 DEF LoadStep

LEMMA RunCallStepValues == ASSUME Values, NEW c \in Calls, RunCallStep(c) PROVE Values'
<1> USE DEF Values, ValuesOK, CallLocal, stateVars, treeVars, abortVars, runLocal,
            seqVars, lifeVars, runVars, RunStates, AbortStates
<1>1. CASE CallRun(c)
    BY <1>1, SuspendValues, JobTypes DEF CallRun, CallPcs
<1>2. CASE RunRefused(c)
    BY <1>2, ReturnValues DEF RunRefused
<1>3. CASE RunBegins(c)
    <2>1. hookVersion' \in Nat /\ hooksLeft' \in Nat /\ runPc' \in RunPcs /\ jvms' = {}
        BY <1>3, HooksAssumption
           DEF RunBegins, StartRun, RunChain, InvokeHook, EndChain, RunPcs
    <2>2. state' \in RunStates
        BY <1>3 DEF RunBegins, Go, ArmPath
    <2>3. QED
        BY <1>3, <2>1, <2>2, ReturnValues DEF RunBegins
<1>4. QED
    BY <1>1, <1>2, <1>3 DEF RunCallStep

LEMMA ResetStepValues == ASSUME Values, NEW c \in Calls, ResetStep(c) PROVE Values'
<1> USE DEF Values, ValuesOK, CallLocal, stateVars, treeVars, abortVars, runLocal,
            seqVars, lifeVars, runVars, RunStates, AbortStates
<1>1. CASE CallReset(c)
    BY <1>1, SuspendValues, JobTypes DEF CallReset, CallPcs
<1>2. CASE ResetRefused(c)
    BY <1>2, ReturnValues DEF ResetRefused
<1>3. CASE ResetWaits(c)
    BY <1>3, SuspendValues, JobTypes DEF ResetWaits, CancelBody, CallPcs
<1>4. CASE ResetNow(c)
    BY <1>4, ReturnValues DEF ResetNow, Rearm, Go
<1>5. QED
    BY <1>1, <1>2, <1>3, <1>4 DEF ResetStep

\* A batch leaves a version number behind.
LEMMA MatchAppliesVersion ==
    ASSUME Values, NEW c \in Calls, MatchApplies(c) \/ ApplyNow
    PROVE  version' \in Nat
BY DEF Values, ValuesOK, MatchApplies, ApplyNow, ApplyStamped

LEMMA RereadValues ==
    ASSUME Values, NEW c \in Calls, NEW replaying \in CallPcs, NEW rest \in Job,
           replaying \notin {"button", "button_script"},
           RereadSelectors(c, replaying, rest)
    PROVE  /\ selectors' \in Nat
           /\ pc' \in [Calls -> CallPcs]
           /\ job' \in [Calls -> Job]
           /\ ActsLeft'
<1>1. selectors' \in Nat
    BY DEF RereadSelectors, Values, ValuesOK
<1>2. CASE config = 0 \/ Defaults = 0
    <2>1. "idle" \in CallPcs /\ "button" \in CallPcs
        BY DEF CallPcs
    <2>2. CASE rest.acts = 0
        BY <1>1, <1>2, <2>1, <2>2, SuspendValues, JobTypes DEF RereadSelectors
    <2>3. CASE rest.acts # 0
        BY <1>1, <1>2, <2>1, <2>3, SuspendValues DEF RereadSelectors
    <2>4. QED
        BY <2>2, <2>3
<1>3. CASE ~(config = 0 \/ Defaults = 0)
    <2> DEFINE j == [rest EXCEPT !.cfg = config, !.sel = selectors', !.gen = generation,
                                 !.defs = Defaults]
    <2>1. j \in Job
        BY <1>1, JobTypes, DefaultsAssumption DEF Values, ValuesOK
    <2>2. Suspend(c, replaying, j)
        BY <1>3 DEF RereadSelectors
    <2>3. QED
        BY <1>1, <2>1, <2>2, SuspendValues
<1>4. QED
    BY <1>2, <1>3

LEMMA SelectorStepValues == ASSUME Values, NEW c \in Calls, SelectorStep(c) PROVE Values'
<1> USE DEF Values, ValuesOK, CallLocal, stateVars, abortVars, runLocal,
            seqVars, lifeVars, runVars
<1>1. CASE SetCustomSelectors(c)
    <2>1. NoJob \in Job /\ "set_defaults" \in CallPcs
        BY JobTypes DEF CallPcs
    <2>2. QED
        BY <1>1, <2>1, RereadValues DEF SetCustomSelectors
<1>2. CASE DefaultsContinue(c)
    <2> DEFINE j == [job[c] EXCEPT !.defs = @ - 1, !.gen = generation]
    <2>1. j \in Job
        <3>1. job[c] \in Job /\ job[c].defs - 1 \in Nat
            BY <1>2 DEF DefaultsContinue, NextDefault, Job
        <3>2. QED
            BY <3>1, JobTypes
    <2>2. pc[c] \in CallPcs \ {"button", "button_script"}
        BY <1>2 DEF DefaultsContinue
    <2>3. Suspend(c, pc[c], j)
        BY <1>2 DEF DefaultsContinue
    <2>4. version' \in Nat
        BY <1>2, MatchAppliesVersion DEF DefaultsContinue
    <2>5. QED
        BY <1>2, <2>1, <2>2, <2>3, <2>4, SuspendValues DEF DefaultsContinue
<1>3. CASE SetDefaultsEnd(c)
    BY <1>3, ReturnValues, MatchAppliesVersion DEF SetDefaultsEnd
<1>4. CASE ClickChain(c)
    <2>1. PICK n \in 1..MaxActions : Suspend(c, "button", [NoJob EXCEPT !.cfg = config, !.acts = n])
        BY <1>4 DEF ClickChain
    <2>2. /\ [NoJob EXCEPT !.cfg = config, !.acts = n] \in Job
          /\ [NoJob EXCEPT !.cfg = config, !.acts = n].acts # 0
          /\ "button" \in CallPcs
        <3>1. n \in Nat /\ n # 0 /\ config \in Nat
            BY BoundsAssumption
        <3>2. QED
            BY <3>1, JobTypes DEF CallPcs
    <2>3. QED
        BY <1>4, <2>1, <2>2, SuspendValues DEF ClickChain
<1>5. CASE ClickToggle(c)
    BY <1>5, SuspendValues, JobTypes DEF ClickToggle, CallPcs
<1>6. CASE ToggleEnds(c)
    BY <1>6, ReturnValues, MatchAppliesVersion DEF ToggleEnds
<1>7. CASE ChainAborts(c) \/ ActionHasNoScript(c) \/ ScriptOutdated(c)
    BY <1>7, ReturnValues DEF ChainAborts, ActionHasNoScript, ScriptOutdated
<1>8. CASE ActionSelects(c)
    BY <1>8, NextActionValues, MatchAppliesVersion DEF ActionSelects
<1>9. CASE ActionReloads(c)
    <2>1. Rest(c) \in Job /\ "button_defaults" \in CallPcs
        BY <1>9, RestType DEF ActionReloads, CallPcs
    <2>2. QED
        BY <1>9, <2>1, RereadValues DEF ActionReloads
<1>10. CASE ActionInvokes(c)
    <2> DEFINE j == [job[c] EXCEPT !.sel = selectors, !.ver = version]
    <2>1. j \in Job /\ j.acts = job[c].acts /\ job[c].acts # 0 /\ "button_script" \in CallPcs
        <3>1. job[c] \in Job /\ selectors \in Nat /\ version \in Nat
            OBVIOUS
        <3>2. job[c].acts # 0 /\ "button_script" \in CallPcs
            BY <1>10 DEF ActionInvokes, ActsLeft, CallPcs
        <3>3. QED
            BY <3>1, <3>2, JobTypes
    <2>2. Suspend(c, "button_script", j)
        BY <1>10 DEF ActionInvokes
    <2>3. QED
        BY <1>10, <2>1, <2>2, SuspendValues DEF ActionInvokes
<1>11. CASE ScriptEnds(c)
    <2>1. version' \in Nat
        BY <1>11 DEF ScriptEnds, ApplyStamped
    <2>2. QED
        BY <1>11, <2>1, ReturnValues, NextActionValues DEF ScriptEnds
<1>12. CASE ReloadEnds(c)
    <2>1. version' \in Nat
        BY <1>12, MatchAppliesVersion DEF ReloadEnds
    <2>2. CASE job[c].acts = 0
        BY <1>12, <2>1, <2>2, ReturnValues DEF ReloadEnds
    <2>3. CASE job[c].acts # 0
        <3> DEFINE j == [NoJob EXCEPT !.cfg = job[c].cfg, !.acts = job[c].acts]
        <3>1. job[c].cfg \in Nat /\ job[c].acts \in Nat
            BY DEF Job
        <3>2. j \in Job /\ j.acts # 0 /\ "button" \in CallPcs
            BY <2>3, <3>1, JobTypes DEF CallPcs
        <3>3. Suspend(c, "button", j)
            BY <1>12, <2>3 DEF ReloadEnds
        <3>4. QED
            BY <1>12, <2>1, <3>2, <3>3, SuspendValues DEF ReloadEnds
    <2>4. QED
        BY <2>2, <2>3
<1>13. QED
    BY <1>1, <1>2, <1>3, <1>4, <1>5, <1>6, <1>7, <1>8, <1>9, <1>10, <1>11, <1>12
       DEF SelectorStep, ScriptReturns

LEMMA NextFlags == FlagsOK /\ [Next]_vars => FlagsOK'
<1> SUFFICES ASSUME FlagsOK, [Next]_vars PROVE FlagsOK'
    OBVIOUS
<1> USE DEF FlagsOK, stateVars, treeVars, abortVars, runLocal, lifeVars, runVars, DisposeTo
<1>1. CASE PoolStarts
    BY <1>1, Zenon DEF PoolStarts
<1>2. CASE UiApplyOps \/ GetSnapshot \/ UpdateSettings
    BY <1>2, Zenon DEF UiApplyOps, GetSnapshot, UpdateSettings, MisapplyIf, CallLocal
<1>3. CASE \E c \in Calls : CallStep(c)
    BY <1>3, CallStepFlags
<1>4. CASE RunStep
    BY <1>4, RunStepFlags
<1>5. CASE Settle
    BY <1>5, Zenon DEF Settle, Rearm, Go
<1>6. CASE Cancel
    BY <1>6, Zenon DEF Cancel, CancelBody
<1>7. CASE Dispose
    BY <1>7, Zenon DEF Dispose, CancelBody
<1>8. CASE DisposeStep
    BY <1>8, Zenon DEF DisposeStep, DisposeSeesLoadEnd, DisposeSeesRunEnd, DisposeTimesOut,
        DisposeEnds
<1>9. CASE Finished \/ UNCHANGED vars
    BY <1>9, Zenon DEF Finished, vars, sessionVars
<1>10. QED
    BY <1>1, <1>2, <1>3, <1>4, <1>5, <1>6, <1>7, <1>8, <1>9 DEF Next

LEMMA NextValues == Values /\ [Next]_vars => Values'
<1> SUFFICES ASSUME Values, [Next]_vars PROVE Values'
    OBVIOUS
<1> USE DEF Values, ValuesOK, ActsLeft, CallLocal, stateVars, treeVars, abortVars,
            runLocal, callVars, seqVars, lifeVars, runVars, AbortStates, DisposePcs,
            RunStates
<1>1. CASE PoolStarts
    BY <1>1 DEF PoolStarts
<1>2. CASE UiApplyOps \/ GetSnapshot \/ UpdateSettings
    <2>1. CASE UiApplyOps
        BY <2>1 DEF UiApplyOps, ApplyStamped
    <2>2. CASE GetSnapshot
        BY <2>2 DEF GetSnapshot
    <2>3. CASE UpdateSettings
        BY <2>3 DEF UpdateSettings
    <2>4. QED
        BY <1>2, <2>1, <2>2, <2>3
<1>3. CASE \E c \in Calls : CallStep(c)
    <2>1. PICK c \in Calls : CallStep(c)
        BY <1>3
    <2>2. CASE StartRejects(c)
        BY <2>2, ReturnValues DEF StartRejects
    <2>3. QED
        BY <2>1, <2>2, LoadStepValues, RunCallStepValues, ResetStepValues,
           SelectorStepValues DEF CallStep
<1>4. CASE RunStep
    BY <1>4, RunStepValues
<1>5. CASE Settle
    <2>1. NoJob \in Job /\ "idle" \in CallPcs
        BY JobTypes DEF CallPcs
    <2>2. pc' \in [Calls -> CallPcs] /\ job' \in [Calls -> Job] /\ ActsLeft'
        BY <1>5, <2>1 DEF Settle
    <2>3. QED
        BY <1>5, <2>2 DEF Settle, Rearm, Go, RunPcs
<1>6. CASE Cancel
    BY <1>6 DEF Cancel, CancelBody
<1>7. CASE Dispose
    BY <1>7 DEF Dispose, CancelBody
<1>8. CASE DisposeStep
    BY <1>8 DEF DisposeStep, DisposeTo, DisposeSeesLoadEnd, DisposeSeesRunEnd,
        DisposeTimesOut, DisposeEnds
<1>9. CASE Finished \/ UNCHANGED vars
    BY <1>9 DEF Finished, vars, sessionVars
<1>10. QED
    BY <1>1, <1>2, <1>3, <1>4, <1>5, <1>6, <1>7, <1>8, <1>9 DEF Next

\* Every variable keeps the type the session and the run give it, for any
\* number of calls, shards, hooks, default selections and chained actions.
THEOREM TypeCorrect == Spec => []TypeOK
<1>1. Init => FlagsOK /\ Values
    BY InitFlags, InitValues
<1>2. FlagsOK /\ Values /\ [Next]_vars => (FlagsOK /\ Values)'
    BY NextFlags, NextValues
<1>3. FlagsOK /\ Values => TypeOK
    BY DEF Values, TypeOK
<1>4. QED
    BY <1>1, <1>2, <1>3, PTL DEF Spec

-----------------------------------------------------------------------------
(* Transitions: what Go does for the paths the session takes. *)

LEMMA Table ==
    /\ \A s \in {"idle", "ready"} \cup Terminal : canTransition(s, "loading")
    /\ \A s \in {"ready", "failed", "cancelled"} : canTransition("loading", s)
    /\ canTransition("ready", "before_hooks")
    /\ canTransition("before_hooks", "converting")
    /\ canTransition("converting", "after_hooks")
    /\ \A s \in Running, t \in {"failed", "cancelled"} : canTransition(s, t)
    /\ canTransition("after_hooks", "succeeded")
BY DEF canTransition, TRANSITIONS, Terminal, Running

LEMMA OneHop ==
    ASSUME NEW t, canTransition(state, t), LegalTransitions, Go(<<t>>)
    PROVE  state' = t /\ LegalTransitions'
<1>1. Len(<<t>>) = 1 /\ <<t>>[1] = t
    OBVIOUS
<1>2. LegalPath(state, <<t>>)
    BY <1>1 DEF LegalPath
<1>3. QED
    BY <1>1, <1>2 DEF Go, LegalTransitions

LEMMA TwoHops ==
    ASSUME NEW t, NEW u, canTransition(state, t), canTransition(t, u),
           LegalTransitions, Go(<<t, u>>)
    PROVE  state' = u /\ LegalTransitions'
<1>1. Len(<<t, u>>) = 2 /\ <<t, u>>[1] = t /\ <<t, u>>[2] = u
    OBVIOUS
<1>2. LegalPath(state, <<t, u>>)
    BY <1>1 DEF LegalPath
<1>3. QED
    BY <1>1, <1>2 DEF Go, LegalTransitions

LEMMA ThreeHops ==
    ASSUME NEW t, NEW u, NEW v, canTransition(state, t), canTransition(t, u),
           canTransition(u, v), LegalTransitions, Go(<<t, u, v>>)
    PROVE  state' = v /\ LegalTransitions'
<1>1. /\ Len(<<t, u, v>>) = 3
      /\ <<t, u, v>>[1] = t /\ <<t, u, v>>[2] = u /\ <<t, u, v>>[3] = v
    OBVIOUS
<1>2. LegalPath(state, <<t, u, v>>)
    BY <1>1 DEF LegalPath
<1>3. QED
    BY <1>1, <1>2 DEF Go, LegalTransitions

-----------------------------------------------------------------------------
(* The inductive invariant behind the properties of a run.  The published   *)
(* state alone does not say where a run is: what is needed is the state at  *)
(* each suspension point, why a run may have skipped the after hooks, and   *)
(* that a cancelled run's signal has been aborted.                          *)

RunPhase ==
    /\ runPc \in {"before", "convert"} => state = "before_hooks"
    /\ runPc \in {"probe", "shards"} => state = "converting"
    /\ runPc = "after" => state = "after_hooks"
    /\ runPc = "drain" =>
          /\ state \in Running
          /\ cancelRequested \/ failed \/ state = "after_hooks"
    /\ runPc = "closing" => isTerminal(state) /\ state = Outcome
    /\ runPc = "none" => state \notin Running

AbortPhase ==
    /\ javaAbort # "none" <=> runPc # "none"
    /\ cancelRequested /\ state \in Running => javaAbort = "aborted"

LoadPhase ==
    /\ state = "loading" <=> loadAbort # "none"
    /\ state = "loading" <=> Loading # {}
    /\ \A c, d \in Loading : c = d

ConfigPhase ==
    /\ config # 0 => state # "idle"
    /\ \A c \in Calls : pc[c] = "run_start" => config # 0

Phases ==
    /\ Values
    /\ LegalTransitions
    /\ RunPhase
    /\ AbortPhase
    /\ LoadPhase
    /\ NoOrphanShards
    /\ ConfigPhase

LEMMA InitPhases == Init => Phases
<1> SUFFICES ASSUME Init PROVE Phases
    OBVIOUS
<1>1. Values
    BY InitValues
<1>2. Loading = {}
    BY DEF Init, Loading
<1>3. QED
    BY <1>1, <1>2 DEF Init, Phases, LegalTransitions, RunPhase, AbortPhase, LoadPhase,
       NoOrphanShards, ConfigPhase, Running

\* What a step of the run leaves alone of the invariant.
LEMMA RunStepFrame ==
    ASSUME Phases, RunStep
    PROVE  /\ UNCHANGED <<config, cancelRequested, javaAbort, loadAbort, pc, generation,
                          ended, disposed, disposePc, disposeTimedOut, view, misapplied>>
           /\ Loading' = Loading
BY DEF RunStep, sessionVars, Loading, HookReturns, HookResolves, HookFails, BuildPlan,
       CancelledBeforePlan, PlanFails, PlanIsEmpty, PlanHasTasks, ProbeThrows, SpawnShards,
       ShardExits, ShardsJoined, JoinedToAfter, JoinedToFinish, Publish

LEMMA RunStepPhases == ASSUME Phases, RunStep PROVE Phases'
<1>1. Values'
    BY RunStepValues DEF Phases
<1>2. /\ UNCHANGED <<config, cancelRequested, javaAbort, loadAbort, pc>>
      /\ Loading' = Loading
    BY RunStepFrame
<1> USE DEF Phases, RunPhase, AbortPhase, LoadPhase, NoOrphanShards, ConfigPhase,
            Running, isTerminal, Terminal
<1>3. CASE HookReturns
    <2>1. /\ UNCHANGED <<state, illegal, jvms>>
          /\ runPc \in {"before", "after"} /\ jvms = {}
          /\ \/ runPc' \in {runPc, ChainNext(runPc)}
             \/ runPc' = "drain" /\ failed'
        BY <1>3 DEF HookReturns, HookResolves, HookFails, RunChain, InvokeHook, EndChain
    <2>2. QED
        BY <1>1, <1>2, <2>1 DEF ChainNext, LegalTransitions
<1>4. CASE BuildPlan
    <2>1. runPc = "convert" /\ state = "before_hooks" /\ UNCHANGED jvms
        BY <1>4 DEF BuildPlan, CancelledBeforePlan, PlanFails, PlanIsEmpty, PlanHasTasks
    <2>2. CASE PlanIsEmpty
        <3>1. Go(<<"converting", "after_hooks">>) /\ runPc' \in {"after", "drain"}
            BY <2>1, <2>2
               DEF PlanIsEmpty, SoftGo, AfterChain, RunChain, InvokeHook, EndChain
        <3>2. state' = "after_hooks" /\ LegalTransitions'
            BY <2>1, <3>1, TwoHops, Table
        <3>3. QED
            BY <1>1, <1>2, <2>1, <3>1, <3>2
    <2>3. CASE CancelledBeforePlan \/ PlanFails \/ PlanHasTasks
        <3>1. /\ Go(<<"converting">>)
              /\ \/ runPc' = "probe"
                 \/ runPc' = "drain" /\ (cancelRequested \/ failed')
            BY <2>1, <2>3
               DEF CancelledBeforePlan, PlanFails, PlanHasTasks, SoftGo, EndChain
        <3>2. state' = "converting" /\ LegalTransitions'
            BY <2>1, <3>1, OneHop, Table
        <3>3. QED
            BY <1>1, <1>2, <2>1, <3>1, <3>2
    <2>4. QED
        BY <1>4, <2>2, <2>3 DEF BuildPlan
<1>5. CASE ProbeThrows \/ SpawnShards
    <2>1. /\ runPc = "probe" /\ UNCHANGED <<state, illegal>>
          /\ \/ runPc' = "shards"
             \/ runPc' = "drain" /\ UNCHANGED jvms /\ (cancelRequested \/ failed')
        BY <1>5 DEF ProbeThrows, SpawnShards, EndChain
    <2>2. QED
        BY <1>1, <1>2, <2>1 DEF LegalTransitions
<1>6. CASE \E s \in Shards : ShardExits(s)
    <2>1. runPc = "shards" /\ UNCHANGED <<state, illegal, runPc>>
        BY <1>6 DEF ShardExits
    <2>2. QED
        BY <1>1, <1>2, <2>1 DEF LegalTransitions
<1>7. CASE ShardsJoined
    <2>1. runPc = "shards" /\ state = "converting" /\ jvms = {} /\ UNCHANGED jvms
        BY <1>7 DEF ShardsJoined, JoinedToAfter, JoinedToFinish, AllExited
    <2>2. CASE JoinedToAfter
        <3>1. Go(<<"after_hooks">>) /\ runPc' \in {"after", "drain"}
            BY <2>1, <2>2 DEF JoinedToAfter, SoftGo, AfterChain, RunChain, InvokeHook, EndChain
        <3>2. state' = "after_hooks" /\ LegalTransitions'
            BY <2>1, <3>1, OneHop, Table
        <3>3. QED
            BY <1>1, <1>2, <2>1, <3>1, <3>2
    <2>3. CASE JoinedToFinish
        <3>1. /\ runPc' = "drain" /\ UNCHANGED <<state, illegal, failed>>
              /\ cancelRequested \/ failed
            BY <2>3 DEF JoinedToFinish, EndChain
        <3>2. QED
            BY <1>1, <1>2, <2>1, <3>1 DEF LegalTransitions
    <2>4. QED
        BY <1>7, <2>2, <2>3 DEF ShardsJoined
<1>8. CASE Publish
    <2>1. /\ runPc = "drain" /\ runPc' = "closing" /\ UNCHANGED <<failed, jvms>>
          /\ Go(<<Outcome>>)
        BY <1>8 DEF Publish, SoftGo
    <2>2. canTransition(state, Outcome)
        BY <2>1, Table DEF Outcome
    <2>3. state' = Outcome /\ LegalTransitions'
        BY <2>1, <2>2, OneHop
    <2>4. Outcome' = Outcome /\ Outcome \in Terminal
        BY <1>2, <2>1 DEF Outcome
    <2>5. QED
        BY <1>1, <1>2, <2>1, <2>3, <2>4
<1>9. QED
    BY <1>3, <1>4, <1>5, <1>6, <1>7, <1>8 DEF RunStep

LoadPcs == {"load_reading", "load_defaults"}

\* Which calls are loading, and about to run, after call c alone has moved.
LEMMA SuspendLoading ==
    ASSUME Values, NEW c \in Calls, NEW where, NEW captured, Suspend(c, where, captured)
    PROVE  /\ Loading' = IF where \in LoadPcs THEN Loading \cup {c} ELSE Loading \ {c}
           /\ pc'[c] = where
           /\ \A d \in Calls : d # c => pc'[d] = pc[d]
BY DEF Values, ValuesOK, Suspend, Loading, LoadPcs

\* A step that only suspends or finishes a call that is not a load.
LEMMA QuietCall ==
    ASSUME Phases, Values', NEW c \in Calls, NEW where, NEW captured,
           Suspend(c, where, captured),
           pc[c] \notin LoadPcs, where \notin LoadPcs,
           where = "run_start" => config # 0,
           UNCHANGED <<state, illegal, config, cancelRequested, javaAbort, loadAbort,
                       runPc, failed, jvms>>
    PROVE  Phases'
<1>1. Values
    BY DEF Phases
<1>2. Loading' = Loading
    BY <1>1, SuspendLoading DEF Loading, LoadPcs
<1>3. \A d \in Calls : pc'[d] = "run_start" => config # 0
    BY <1>1, SuspendLoading DEF Phases, ConfigPhase
<1>4. QED
    BY <1>2, <1>3 DEF Phases, LegalTransitions, RunPhase, AbortPhase, LoadPhase,
       NoOrphanShards, ConfigPhase, Outcome

LEMMA LoadStepPhases == ASSUME Phases, NEW c \in Calls, LoadStep(c) PROVE Phases'
<1>1. Values /\ Values'
    BY LoadStepValues DEF Phases
<1> USE DEF CallLocal, stateVars, treeVars, abortVars, runLocal, runVars
<1>2. CASE CallLoad(c)
    BY <1>1, <1>2, QuietCall DEF CallLoad, LoadPcs
<1>3. CASE LoadRefused(c)
    BY <1>1, <1>3, QuietCall DEF LoadRefused, Return, LoadPcs
<1>4. CASE LoadBegins(c)
    <2>1. /\ loadAbort = "none" /\ state # "loading" /\ javaAbort = "none"
          /\ state \notin Running /\ loadAbort' = "armed"
          /\ UNCHANGED <<config, cancelRequested, javaAbort, runPc, failed, jvms>>
        BY <1>4 DEF LoadBegins, LoadAdmitted, IdleLike
    <2>2. state' = "loading" /\ LegalTransitions'
        <3>1. canTransition(state, "loading")
            BY <1>1, <2>1, Table DEF Values, ValuesOK, RunStates, Running, Terminal
        <3>2. QED
            BY <1>4, <3>1, OneHop DEF LoadBegins, Phases
    <2>3. Loading = {}
        BY <2>1 DEF Phases, LoadPhase
    <2>4. Loading' = {c} /\ \A d \in Calls : pc'[d] = "run_start" => pc[d] = "run_start"
        BY <1>1, <1>4, <2>3, SuspendLoading DEF LoadBegins, LoadPcs
    <2>5. QED
        BY <1>1, <2>1, <2>2, <2>3, <2>4
           DEF Phases, RunPhase, AbortPhase, LoadPhase, NoOrphanShards, ConfigPhase, Running,
               isTerminal, Terminal
<1>5. ASSUME pc[c] \in LoadPcs
      PROVE  /\ state = "loading" /\ loadAbort # "none" /\ Loading = {c}
             /\ runPc = "none" /\ javaAbort = "none" /\ jvms = {}
    <2>1. c \in Loading
        BY <1>5 DEF Loading, LoadPcs
    <2>2. state = "loading" /\ loadAbort # "none" /\ Loading = {c}
        BY <2>1 DEF Phases, LoadPhase, Loading
    <2>3. runPc = "none"
        BY <1>1, <2>2
           DEF Phases, RunPhase, Values, ValuesOK, RunPcs, Running, isTerminal, Terminal
    <2>4. QED
        BY <2>2, <2>3 DEF Phases, AbortPhase, NoOrphanShards
<1>6. ASSUME pc[c] \in LoadPcs, Return(c), NEW t \in {"ready", "failed", "cancelled"},
             Go(<<t>>), loadAbort' = "none", config' # 0 => t # "idle",
             \A d \in Calls : pc[d] = "run_start" => config' # 0,
             UNCHANGED <<cancelRequested, javaAbort, runPc, failed, jvms>>
      PROVE  Phases'
    <2>1. state' = t /\ LegalTransitions'
        BY <1>5, <1>6, OneHop, Table DEF Phases
    <2>2. Loading' = {} /\ \A d \in Calls : pc'[d] = "run_start" => pc[d] = "run_start"
        BY <1>1, <1>5, <1>6, SuspendLoading DEF Return, LoadPcs
    <2>3. QED
        BY <1>1, <1>5, <1>6, <2>1, <2>2
           DEF Phases, RunPhase, AbortPhase, LoadPhase, NoOrphanShards, ConfigPhase, Running
<1>7. CASE LoadFails(c)
    BY <1>6, <1>7 DEF LoadFails, LoadPcs, Phases, ConfigPhase
<1>8. CASE LoadCommits(c)
    <2>1. /\ pc[c] = "load_reading" /\ config' = config + 1 /\ config' # 0
          /\ UNCHANGED <<cancelRequested, javaAbort, runPc, failed, jvms>>
        BY <1>1, <1>8 DEF LoadCommits, CommitConfig, Values, ValuesOK
    <2>2. CASE selectors # 0 /\ Defaults > 0
        <3>1. PICK j : Suspend(c, "load_defaults", j)
            BY <1>8, <2>2 DEF LoadCommits
        <3>2. Loading' = Loading
              /\ \A d \in Calls : pc'[d] = "run_start" => pc[d] = "run_start"
            BY <1>1, <1>5, <2>1, <3>1, SuspendLoading DEF LoadPcs
        <3>3. UNCHANGED <<state, illegal, loadAbort>>
            BY <1>8, <2>2 DEF LoadCommits
        <3>4. QED
            BY <1>1, <1>5, <2>1, <3>2, <3>3
               DEF Phases, LegalTransitions, RunPhase, AbortPhase, LoadPhase, NoOrphanShards,
                   ConfigPhase, LoadPcs, Running
    <2>3. CASE ~(selectors # 0 /\ Defaults > 0)
        BY <1>6, <1>8, <2>1, <2>3 DEF LoadCommits, LoadPcs
    <2>4. QED
        BY <2>2, <2>3
<1>9. CASE LoadDefaultsEnd(c)
    BY <1>6, <1>9 DEF LoadDefaultsEnd, LoadPcs, Phases, ConfigPhase
<1>10. QED
    BY <1>2, <1>3, <1>4, <1>7, <1>8, <1>9 DEF LoadStep

LEMMA RunCallStepPhases == ASSUME Phases, NEW c \in Calls, RunCallStep(c) PROVE Phases'
<1>1. Values /\ Values'
    BY RunCallStepValues DEF Phases
<1> USE DEF CallLocal, runVars
<1>2. CASE CallRun(c)
    BY <1>1, <1>2, QuietCall DEF CallRun, LoadPcs
<1>3. CASE RunRefused(c)
    BY <1>1, <1>3, QuietCall DEF RunRefused, Return, LoadPcs
<1>4. CASE RunBegins(c)
    <2>1. /\ pc[c] = "run_start" /\ javaAbort = "none" /\ state \notin Running
          /\ state # "loading" /\ javaAbort' = "armed" /\ cancelRequested' = FALSE
          /\ UNCHANGED <<config, loadAbort>>
        BY <1>4 DEF RunBegins, IdleLike, treeVars
    <2>2. runPc' \in {"before", "convert"} /\ jvms' = {}
        BY <1>4 DEF RunBegins, StartRun, RunChain, InvokeHook, EndChain
    <2>3. state \in {"ready"} \cup Terminal
        BY <1>1, <2>1
           DEF Phases, ConfigPhase, Values, ValuesOK, RunStates, Running, Terminal
    <2>4. state' = "before_hooks" /\ LegalTransitions'
        <3>1. CASE isTerminal(state)
            BY <1>4, <3>1, ThreeHops, Table DEF RunBegins, ArmPath, isTerminal, Phases
        <3>2. CASE ~isTerminal(state)
            BY <1>4, <2>3, <3>2, OneHop, Table DEF RunBegins, ArmPath, isTerminal, Phases
        <3>3. QED
            BY <3>1, <3>2
    <2>5. Loading' = Loading /\ \A d \in Calls : pc'[d] = "run_start" => pc[d] = "run_start"
        BY <1>1, <1>4, <2>1, SuspendLoading DEF RunBegins, Return, Loading, LoadPcs
    <2>6. QED
        BY <1>1, <2>1, <2>2, <2>4, <2>5
           DEF Phases, RunPhase, AbortPhase, LoadPhase, NoOrphanShards, ConfigPhase, Running,
               isTerminal, Terminal
<1>5. QED
    BY <1>2, <1>3, <1>4 DEF RunCallStep

\* cancel() in any state, whoever calls it.
LEMMA CancelPhases ==
    ASSUME Phases, Values', CancelBody, UNCHANGED <<state, illegal, config, runPc, failed, jvms>>,
           Loading' = Loading,
           \A d \in Calls : pc'[d] = "run_start" => pc[d] = "run_start"
    PROVE  Phases'
<1>1. /\ loadAbort' # "none" <=> loadAbort # "none"
      /\ javaAbort' # "none" <=> javaAbort # "none"
      /\ state \notin Running => UNCHANGED <<cancelRequested, javaAbort>>
      /\ state \in Running => cancelRequested' /\ (javaAbort # "none" => javaAbort' = "aborted")
    BY DEF CancelBody, Phases, Values, ValuesOK, AbortStates
<1>2. RunPhase'
    BY <1>1 DEF Phases, RunPhase, Outcome, isTerminal, Terminal, Running
<1>3. AbortPhase'
    BY <1>1 DEF Phases, AbortPhase, RunPhase
<1>4. QED
    BY <1>1, <1>2, <1>3 DEF Phases, LegalTransitions, LoadPhase, NoOrphanShards, ConfigPhase

LEMMA ResetStepPhases == ASSUME Phases, NEW c \in Calls, ResetStep(c) PROVE Phases'
<1>1. Values /\ Values'
    BY ResetStepValues DEF Phases
<1> USE DEF CallLocal, runVars, treeVars, stateVars, runLocal
<1>2. CASE CallReset(c)
    BY <1>1, <1>2, QuietCall DEF CallReset, LoadPcs
<1>3. CASE ResetRefused(c)
    BY <1>1, <1>3, QuietCall DEF ResetRefused, Return, LoadPcs
<1>4. CASE ResetWaits(c)
    <2>1. Loading' = Loading /\ \A d \in Calls : pc'[d] = "run_start" => pc[d] = "run_start"
        BY <1>1, <1>4, SuspendLoading DEF ResetWaits, Loading, LoadPcs
    <2>2. QED
        BY <1>1, <1>4, <2>1, CancelPhases DEF ResetWaits
<1>5. CASE ResetNow(c)
    <2>1. Loading' = Loading /\ \A d \in Calls : pc'[d] = "run_start" => pc[d] = "run_start"
        BY <1>1, <1>5, SuspendLoading DEF ResetNow, Return, Loading, LoadPcs
    <2>2. /\ runPc = "none" /\ cancelRequested' = FALSE
          /\ loadAbort' # "none" <=> loadAbort # "none"
          /\ UNCHANGED <<config, javaAbort, runPc, failed, jvms>>
        BY <1>5 DEF ResetNow
    <2>3. CASE isTerminal(state)
        <3>1. state' = "ready" /\ LegalTransitions'
            BY <1>5, <2>3, TwoHops, Table DEF ResetNow, Rearm, isTerminal, Phases
        <3>2. QED
            BY <1>1, <2>1, <2>2, <2>3, <3>1
               DEF Phases, RunPhase, AbortPhase, LoadPhase, NoOrphanShards, ConfigPhase,
                   Running, isTerminal, Terminal
    <2>4. CASE ~isTerminal(state)
        <3>1. UNCHANGED <<state, illegal>>
            BY <1>5, <2>4 DEF ResetNow, Rearm
        <3>2. QED
            BY <1>1, <2>1, <2>2, <3>1
               DEF Phases, LegalTransitions, RunPhase, AbortPhase, LoadPhase, NoOrphanShards,
                   ConfigPhase, Running
    <2>5. QED
        BY <2>3, <2>4
<1>6. QED
    BY <1>2, <1>3, <1>4, <1>5 DEF ResetStep

\* Selectors and buttons touch the tree and their own call only; a call that is
\* replaying the default selections of a load stays one.
LEMMA SelectorStepFrame ==
    ASSUME NEW c \in Calls, SelectorStep(c)
    PROVE  /\ UNCHANGED <<state, illegal, config, cancelRequested, javaAbort, loadAbort,
                          runPc, failed, jvms, generation, ended, disposed, disposePc,
                          disposeTimedOut, view>>
           /\ \E where, captured :
                 /\ Suspend(c, where, captured)
                 /\ \/ where = pc[c]
                    \/ pc[c] \notin LoadPcs /\ where \notin LoadPcs \cup {"run_start"}
<1> USE DEF stateVars, abortVars, runLocal, seqVars, lifeVars, runVars, CallLocal, Return,
            LoadPcs
<1>1. CASE SetCustomSelectors(c)
    BY <1>1 DEF SetCustomSelectors, RereadSelectors
<1>2. CASE DefaultsContinue(c)
    BY <1>2 DEF DefaultsContinue
<1>3. CASE SetDefaultsEnd(c)
    BY <1>3 DEF SetDefaultsEnd
<1>4. CASE ClickChain(c)
    BY <1>4 DEF ClickChain
<1>5. CASE ClickToggle(c)
    BY <1>5 DEF ClickToggle
<1>6. CASE ToggleEnds(c)
    BY <1>6 DEF ToggleEnds
<1>7. CASE ChainAborts(c) \/ ActionHasNoScript(c) \/ ScriptOutdated(c)
    BY <1>7 DEF ChainAborts, ActionHasNoScript, ScriptOutdated
<1>8. CASE ActionSelects(c)
    BY <1>8 DEF ActionSelects, NextAction
<1>9. CASE ActionReloads(c)
    BY <1>9 DEF ActionReloads, RereadSelectors
<1>10. CASE ActionInvokes(c)
    BY <1>10 DEF ActionInvokes
<1>11. CASE ScriptEnds(c)
    BY <1>11 DEF ScriptEnds, NextAction
<1>12. CASE ReloadEnds(c)
    BY <1>12 DEF ReloadEnds
<1>13. QED
    BY <1>1, <1>2, <1>3, <1>4, <1>5, <1>6, <1>7, <1>8, <1>9, <1>10, <1>11, <1>12
       DEF SelectorStep, ScriptReturns

LEMMA SelectorStepPhases == ASSUME Phases, NEW c \in Calls, SelectorStep(c) PROVE Phases'
<1>1. Values /\ Values'
    BY SelectorStepValues DEF Phases
<1>2. UNCHANGED <<state, illegal, config, cancelRequested, javaAbort, loadAbort, runPc,
                  failed, jvms>>
    BY SelectorStepFrame
<1>3. PICK where, captured :
          /\ Suspend(c, where, captured)
          /\ \/ where = pc[c]
             \/ pc[c] \notin LoadPcs /\ where \notin LoadPcs \cup {"run_start"}
    BY SelectorStepFrame
<1>4. Loading' = Loading /\ \A d \in Calls : pc'[d] = "run_start" => pc[d] = "run_start"
    BY <1>1, <1>3, SuspendLoading DEF Loading, LoadPcs
<1>5. QED
    BY <1>1, <1>2, <1>4
       DEF Phases, LegalTransitions, RunPhase, AbortPhase, LoadPhase, NoOrphanShards,
           ConfigPhase, Outcome

LEMMA SettlePhases == ASSUME Phases, Settle PROVE Phases'
<1>1. Values /\ Values'
    <2>1. [Next]_vars
        BY DEF Next
    <2>2. QED
        BY <2>1, NextValues DEF Phases
<1>2. /\ runPc = "closing" /\ isTerminal(state) /\ runPc' = "none" /\ javaAbort' = "none"
      /\ jvms = {} /\ UNCHANGED <<jvms, config, loadAbort>>
    BY DEF Settle, Phases, RunPhase, NoOrphanShards, treeVars
<1>3. /\ Loading' = Loading
      /\ \A d \in Calls : pc'[d] = "run_start" => pc[d] = "run_start"
    BY <1>1 DEF Settle, Loading, Waiting, callVars, Values, ValuesOK
<1>4. CASE Waiting = {}
    <2>1. UNCHANGED <<state, illegal, cancelRequested>>
        BY <1>4 DEF Settle, stateVars
    <2>2. QED
        BY <1>1, <1>2, <1>3, <2>1
           DEF Phases, LegalTransitions, RunPhase, AbortPhase, LoadPhase, NoOrphanShards,
               ConfigPhase, Running, isTerminal, Terminal
<1>5. CASE Waiting # {}
    <2>1. cancelRequested' = FALSE /\ Go(<<"loading", "ready">>)
        BY <1>2, <1>5 DEF Settle, Rearm
    <2>2. state' = "ready" /\ LegalTransitions'
        BY <1>2, <2>1, TwoHops, Table DEF Phases, isTerminal
    <2>3. QED
        BY <1>1, <1>2, <1>3, <2>1, <2>2
           DEF Phases, RunPhase, AbortPhase, LoadPhase, NoOrphanShards, ConfigPhase, Running,
               isTerminal, Terminal
<1>6. QED
    BY <1>4, <1>5

LEMMA NextPhases == Phases /\ [Next]_vars => Phases'
<1> SUFFICES ASSUME Phases, [Next]_vars PROVE Phases'
    OBVIOUS
<1>1. Values'
    BY NextValues DEF Phases
<1>2. ASSUME UNCHANGED <<state, illegal, config, cancelRequested, javaAbort, loadAbort, runPc,
                         failed, jvms, pc>>
      PROVE  Phases'
    <2>1. Loading' = Loading
        BY <1>2 DEF Loading
    <2>2. QED
        BY <1>1, <1>2, <2>1
           DEF Phases, LegalTransitions, RunPhase, AbortPhase, LoadPhase, NoOrphanShards,
               ConfigPhase, Outcome
<1> USE DEF CallLocal, stateVars, treeVars, abortVars, runLocal, callVars, runVars
<1>3. CASE PoolStarts \/ UiApplyOps \/ GetSnapshot \/ UpdateSettings
    BY <1>2, <1>3 DEF PoolStarts, UiApplyOps, GetSnapshot, UpdateSettings
<1>4. CASE \E c \in Calls : CallStep(c)
    <2>1. PICK c \in Calls : CallStep(c)
        BY <1>4
    <2>2. CASE StartRejects(c)
        BY <1>1, <2>2, QuietCall DEF StartRejects, Return, LoadPcs
    <2>3. QED
        BY <2>1, <2>2, LoadStepPhases, RunCallStepPhases, ResetStepPhases, SelectorStepPhases
           DEF CallStep
<1>5. CASE RunStep
    BY <1>5, RunStepPhases
<1>6. CASE Settle
    BY <1>6, SettlePhases
<1>7. CASE Cancel \/ Dispose
    <2>1. CancelBody /\ UNCHANGED <<state, illegal, config, runPc, failed, jvms, pc>>
        BY <1>7 DEF Cancel, Dispose
    <2>2. Loading' = Loading
        BY <2>1 DEF Loading
    <2>3. QED
        BY <1>1, <2>1, <2>2, CancelPhases
<1>8. CASE DisposeStep
    BY <1>2, <1>8 DEF DisposeStep, DisposeTo, DisposeSeesLoadEnd, DisposeSeesRunEnd,
       DisposeTimesOut, DisposeEnds
<1>9. CASE Finished \/ UNCHANGED vars
    BY <1>2, <1>9 DEF Finished, vars, sessionVars
<1>10. QED
    BY <1>3, <1>4, <1>5, <1>6, <1>7, <1>8, <1>9 DEF Next

LEMMA PhasesInvariant == Spec => []Phases
BY InitPhases, NextPhases, PTL DEF Spec

\* Whatever calls interleave, and however often, every transition the session
\* makes is one of the table's.
THEOREM TransitionsLegal == Spec => []LegalTransitions
<1>1. Phases => LegalTransitions
    BY DEF Phases
<1>2. QED
    BY <1>1, PhasesInvariant, PTL

\* The published state tells what is in flight: loads exclude each other and
\* runs, and the two AbortControllers are set exactly while they are needed.
THEOREM StateTruthful == Spec => []StateTracksActivity
<1>1. Phases => StateTracksActivity
    BY DEF Phases, RunPhase, AbortPhase, LoadPhase, StateTracksActivity, Values, ValuesOK,
       RunPcs, Running, isTerminal, Terminal
<1>2. QED
    BY <1>1, PhasesInvariant, PTL

\* The outcome of the summary is the one that was published.
THEOREM OutcomeStable == Spec => []SummaryMatchesState
<1>1. Phases => SummaryMatchesState
    BY DEF Phases, RunPhase, SummaryMatchesState
<1>2. QED
    BY <1>1, PhasesInvariant, PTL

\* No JVM outlives the run that started it.
THEOREM ShardsOwned == Spec => []NoOrphanShards
<1>1. Phases => NoOrphanShards
    BY DEF Phases
<1>2. QED
    BY <1>1, PhasesInvariant, PTL

-----------------------------------------------------------------------------
(* Action properties. *)

\* Only RunBegins touches the run from a call, only LoadCommits the config.
LEMMA CallStepFrame ==
    ASSUME NEW c \in Calls, CallStep(c)
    PROVE  /\ RunBegins(c) \/ UNCHANGED <<runPc, hooksLeft, jvms>>
           /\ LoadCommits(c) \/ UNCHANGED config
<1> USE DEF stateVars, treeVars, abortVars, runLocal, runVars, CallLocal
<1>1. CASE StartRejects(c)
    BY <1>1 DEF StartRejects
<1>2. CASE LoadStep(c)
    BY <1>2 DEF LoadStep, CallLoad, LoadRefused, LoadBegins, LoadFails, LoadCommits,
        LoadDefaultsEnd
<1>3. CASE RunCallStep(c)
    BY <1>3 DEF RunCallStep, CallRun, RunRefused, RunBegins
<1>4. CASE ResetStep(c)
    BY <1>4 DEF ResetStep, CallReset, ResetRefused, ResetWaits, ResetNow
<1>5. CASE SelectorStep(c)
    BY <1>5 DEF SelectorStep, SetCustomSelectors, DefaultsContinue, SetDefaultsEnd,
        ClickChain, ClickToggle, ToggleEnds, ChainAborts, ActionSelects, ActionReloads,
        ActionHasNoScript, ActionInvokes, ScriptReturns, ScriptEnds, ScriptOutdated,
        ReloadEnds
<1>6. QED
    BY <1>1, <1>2, <1>3, <1>4, <1>5 DEF CallStep

LEMMA FrameStep ==
    ASSUME [Next]_vars
    PROVE  /\ \/ \E c \in Calls : RunBegins(c)
              \/ RunStep
              \/ Settle
              \/ UNCHANGED <<runPc, hooksLeft, jvms>>
           /\ (\E c \in Calls : LoadCommits(c)) \/ UNCHANGED config
<1> USE DEF stateVars, treeVars, abortVars, runLocal, runVars, CallLocal
<1>1. CASE PoolStarts \/ UiApplyOps \/ GetSnapshot \/ UpdateSettings
    BY <1>1 DEF PoolStarts, UiApplyOps, GetSnapshot, UpdateSettings
<1>2. CASE \E c \in Calls : CallStep(c)
    BY <1>2, CallStepFrame
<1>3. CASE RunStep
    <2>1. UNCHANGED config
        BY <1>3 DEF RunStep, HookReturns, HookResolves, HookFails, BuildPlan,
           CancelledBeforePlan, PlanFails, PlanIsEmpty, PlanHasTasks, ProbeThrows, SpawnShards,
           ShardExits, ShardsJoined, JoinedToAfter, JoinedToFinish, Publish
    <2>2. QED
        BY <1>3, <2>1
<1>4. CASE Settle
    BY <1>4 DEF Settle
<1>5. CASE Cancel \/ Dispose
    BY <1>5 DEF Cancel, Dispose
<1>6. CASE DisposeStep
    BY <1>6 DEF DisposeStep, DisposeTo, DisposeSeesLoadEnd, DisposeSeesRunEnd,
        DisposeTimesOut, DisposeEnds
<1>7. CASE Finished \/ UNCHANGED vars
    BY <1>7 DEF Finished, vars
<1>8. QED
    BY <1>1, <1>2, <1>3, <1>4, <1>5, <1>6, <1>7 DEF Next

\* A run whose cancellation has been requested starts nothing any more.
THEOREM DispatchFrozen == Spec => FrozenDispatch
<1> DEFINE Frozen ==
        cancelRequested /\ runPc # "none" =>
            /\ runPc' \in {"before", "after"} => runPc' = runPc /\ hooksLeft' = hooksLeft
            /\ jvms' \subseteq jvms
<1>1. Phases /\ [Next]_vars => Frozen
    <2> SUFFICES ASSUME Phases, [Next]_vars, cancelRequested, runPc # "none"
                 PROVE  Frozen
        OBVIOUS
    <2>1. CASE UNCHANGED <<runPc, hooksLeft, jvms>>
        BY <2>1
    <2>2. CASE \E c \in Calls : RunBegins(c)
        BY <2>2 DEF RunBegins, IdleLike, Phases, AbortPhase
    <2>3. CASE Settle
        BY <2>3 DEF Settle
    <2>4. CASE RunStep
        <3>1. CASE HookReturns
            BY <3>1 DEF HookReturns, HookResolves, HookFails, RunChain, EndChain, ChainNext
        <3>2. CASE BuildPlan
            BY <3>2 DEF BuildPlan, CancelledBeforePlan, PlanFails, PlanIsEmpty, PlanHasTasks,
               EndChain
        <3>3. CASE ProbeThrows
            BY <3>3 DEF ProbeThrows, EndChain
        <3>4. CASE SpawnShards
            BY <3>4 DEF SpawnShards, Phases, AbortPhase, RunPhase, Running
        <3>5. CASE \E s \in Shards : ShardExits(s)
            BY <3>5 DEF ShardExits
        <3>6. CASE ShardsJoined
            BY <3>6 DEF ShardsJoined, JoinedToAfter, JoinedToFinish, EndChain
        <3>7. CASE Publish
            BY <3>7 DEF Publish
        <3>8. QED
            BY <2>4, <3>1, <3>2, <3>3, <3>4, <3>5, <3>6, <3>7 DEF RunStep
    <2>5. QED
        BY <2>1, <2>2, <2>3, <2>4, FrameStep
<1>2. QED
    BY <1>1, PhasesInvariant, PTL DEF Spec, FrozenDispatch

\* The config of a run stays in place until the run has settled.
THEOREM ConfigKept == Spec => RunKeepsConfig
<1> DEFINE Kept == runPc # "none" /\ runPc' # "none" => config' = config
<1>1. Phases /\ [Next]_vars => Kept
    <2> SUFFICES ASSUME Phases, [Next]_vars, NEW c \in Calls, LoadCommits(c)
                 PROVE  runPc = "none"
        BY FrameStep
    <2>1. c \in Loading
        BY DEF LoadCommits, Loading
    <2>2. state = "loading"
        BY <2>1 DEF Phases, LoadPhase
    <2>3. QED
        BY <2>2 DEF Phases, RunPhase, Running, isTerminal, Terminal, Values, ValuesOK, RunPcs
<1>2. QED
    BY <1>1, PhasesInvariant, PTL DEF Spec, RunKeepsConfig

-----------------------------------------------------------------------------
(* The tree and its version. *)

\* What any step may do to the tree.  The version never goes back, a new config
\* always moves it on, and after dispose() only a hook of the run still can.
TreeStep ==
    /\ version' >= version
    /\ config' # config => version' > version
    /\ disposed => /\ config' = config
                   /\ version' # version => runPc \in {"before", "after"}

LEMMA ApplyNowVersion ==
    ASSUME Values, ApplyNow
    PROVE  version' >= version
BY DEF Values, ValuesOK, ApplyNow, ApplyStamped

LEMMA MatchTree ==
    ASSUME Values, NEW c \in Calls, MatchApplies(c)
    PROVE  /\ version' >= version
           /\ NoMisapply => NoMisapply'
           /\ disposed => version' = version
<1>1. CASE MatchStillValid(c) /\ ApplyNow
    BY <1>1, ApplyNowVersion DEF MatchApplies, MatchStillValid, MisapplyIf, NoMisapply
<1>2. CASE UNCHANGED version
    <2>1. NoMisapply => NoMisapply'
        BY <1>2, Zenon DEF MatchApplies, MisapplyIf, NoMisapply
    <2>2. QED
        BY <1>2, <2>1 DEF Values, ValuesOK
<1>3. QED
    BY <1>1, <1>2 DEF MatchApplies

LEMMA CallTree ==
    ASSUME Values, NEW c \in Calls, CallStep(c)
    PROVE  TreeStep /\ (NoMisapply => NoMisapply') /\ UNCHANGED view
<1> USE DEF TreeStep, NoMisapply, stateVars, treeVars, abortVars, runLocal, runVars, CallLocal, Values,
            ValuesOK
<1>1. CASE StartRejects(c)
    BY <1>1 DEF StartRejects
<1>2. CASE LoadStep(c)
    <2>1. CASE LoadCommits(c)
        BY <2>1 DEF LoadCommits, CommitConfig
    <2>2. CASE LoadDefaultsEnd(c)
        BY <2>2, MatchTree DEF LoadDefaultsEnd
    <2>3. QED
        BY <1>2, <2>1, <2>2 DEF LoadStep, CallLoad, LoadRefused, LoadBegins, LoadFails
<1>3. CASE RunCallStep(c)
    BY <1>3 DEF RunCallStep, CallRun, RunRefused, RunBegins
<1>4. CASE ResetStep(c)
    BY <1>4 DEF ResetStep, CallReset, ResetRefused, ResetWaits, ResetNow
<1>5. CASE SelectorStep(c)
    <2>1. CASE DefaultsContinue(c) \/ SetDefaultsEnd(c) \/ ToggleEnds(c) \/ ReloadEnds(c)
        BY <2>1, MatchTree DEF DefaultsContinue, SetDefaultsEnd, ToggleEnds, ReloadEnds
    <2>2. CASE ActionSelects(c)
        BY <2>2, ApplyNowVersion DEF ActionSelects, ChainIntact, MisapplyIf
    <2>3. CASE ScriptEnds(c)
        <3>1. /\ ~disposed /\ UNCHANGED <<config, view>>
              /\ version' \in {version, version + 1}
            BY <2>3 DEF ScriptEnds, ChainIntact, ApplyStamped
        <3>2. NoMisapply => NoMisapply'
            BY <2>3, Zenon DEF ScriptEnds, ChainIntact, MisapplyIf, NoMisapply
        <3>3. QED
            BY <3>1, <3>2
    <2>4. CASE \/ SetCustomSelectors(c) \/ ClickChain(c) \/ ClickToggle(c)
               \/ ChainAborts(c) \/ ActionReloads(c) \/ ActionHasNoScript(c)
               \/ ActionInvokes(c) \/ ScriptOutdated(c)
        <3>1. UNCHANGED <<version, config, misapplied, view, disposed>>
            BY <2>4 DEF SetCustomSelectors, ClickChain, ClickToggle, ChainAborts,
               ActionReloads, ActionHasNoScript, ActionInvokes, ScriptOutdated, lifeVars
        <3>2. QED
            BY <3>1
    <2>5. QED
        BY <1>5, <2>1, <2>2, <2>3, <2>4 DEF SelectorStep, ScriptReturns
<1>6. QED
    BY <1>1, <1>2, <1>3, <1>4, <1>5 DEF CallStep

LEMMA NextTree ==
    ASSUME Values, [Next]_vars
    PROVE  /\ TreeStep
           /\ UiApplyOps \/ (NoMisapply => NoMisapply')
           /\ UNCHANGED view \/ GetSnapshot
<1> USE DEF TreeStep, NoMisapply, stateVars, treeVars, abortVars, runLocal, runVars, CallLocal, Values,
            ValuesOK
<1>1. CASE PoolStarts
    BY <1>1 DEF PoolStarts
<1>2. CASE UiApplyOps
    BY <1>2 DEF UiApplyOps, IdleLike, ApplyStamped
<1>3. CASE GetSnapshot
    BY <1>3 DEF GetSnapshot
<1>4. CASE UpdateSettings
    BY <1>4 DEF UpdateSettings, IdleLike
<1>5. CASE \E c \in Calls : CallStep(c)
    BY <1>5, CallTree
<1>6. CASE RunStep
    <2>1. UNCHANGED <<config, disposed, misapplied, view>>
        BY <1>6 DEF RunStep, sessionVars, HookReturns, HookResolves, HookFails, BuildPlan,
           CancelledBeforePlan, PlanFails, PlanIsEmpty, PlanHasTasks, ProbeThrows, SpawnShards,
           ShardExits, ShardsJoined, JoinedToAfter, JoinedToFinish, Publish
    <2>2. CASE HookReturns
        <3>1. runPc \in {"before", "after"} /\ version' \in {version, version + 1}
            BY <2>2 DEF HookReturns, HookResolves, HookFails, HookOps, ApplyStamped
        <3>2. QED
            BY <2>1, <3>1
    <2>3. CASE ~HookReturns
        <3>1. UNCHANGED version
            BY <1>6, <2>3 DEF RunStep, BuildPlan, CancelledBeforePlan, PlanFails,
               PlanIsEmpty, PlanHasTasks, ProbeThrows, SpawnShards, ShardExits, ShardsJoined,
               JoinedToAfter, JoinedToFinish, Publish
        <3>2. QED
            BY <2>1, <3>1
    <2>4. QED
        BY <2>2, <2>3
<1>7. CASE Settle
    BY <1>7 DEF Settle
<1>8. CASE Cancel \/ Dispose
    BY <1>8 DEF Cancel, Dispose
<1>9. CASE DisposeStep
    BY <1>9 DEF DisposeStep, DisposeTo, DisposeSeesLoadEnd, DisposeSeesRunEnd,
        DisposeTimesOut, DisposeEnds
<1>10. CASE Finished \/ UNCHANGED vars
    BY <1>10 DEF Finished, vars, sessionVars
<1>11. QED
    BY <1>1, <1>2, <1>3, <1>4, <1>5, <1>6, <1>7, <1>8, <1>9, <1>10 DEF Next

\* A snapshot of an older config carries an older version: version numbers are
\* never used for two trees.
ViewPhase == view.ver <= version /\ (view.cfg # config => view.ver < version)

LEMMA NextView ==
    ASSUME Values, ViewPhase, NoMisapply, [Next]_vars
    PROVE  ViewPhase' /\ NoMisapply'
<1>1. TreeStep /\ version' \in Nat /\ view' \in [cfg : Nat, ver : Nat]
    BY NextTree, NextValues DEF Values, ValuesOK
<1>2. ViewPhase'
    <2>1. CASE UNCHANGED view
        BY <1>1, <2>1 DEF ViewPhase, TreeStep, Values, ValuesOK
    <2>2. CASE GetSnapshot
        BY <2>2 DEF ViewPhase, GetSnapshot, runVars, Values, ValuesOK
    <2>3. QED
        BY <2>1, <2>2, NextTree
<1>3. NoMisapply'
    <2>1. CASE NoMisapply => NoMisapply'
        BY <2>1
    <2>2. CASE UiApplyOps
        <3>1. version' # version => view.ver = version
            BY <2>2 DEF UiApplyOps, ApplyStamped
        <3>2. version' # version => view.cfg = config
            BY <3>1 DEF ViewPhase, Values, ValuesOK
        <3>3. QED
            BY <2>2, <3>2 DEF UiApplyOps, MisapplyIf, NoMisapply
    <2>3. QED
        BY <2>1, <2>2, NextTree
<1>4. QED
    BY <1>2, <1>3

\* No operation meant for one configuration's tree ever changes another's,
\* whatever was in flight when the configuration was replaced.
THEOREM NothingMisapplied == Spec => []NoMisapply
<1>1. Init => Values /\ ViewPhase /\ NoMisapply
    BY InitValues DEF Init, ViewPhase, NoMisapply
<1>2. Values /\ ViewPhase /\ NoMisapply /\ [Next]_vars => (Values /\ ViewPhase /\ NoMisapply)'
    BY NextValues, NextView
<1>3. QED
    BY <1>1, <1>2, PTL DEF Spec

\* After dispose() nothing but the hook in flight changes the tree.
THEOREM DisposedFrozen == Spec => DisposedTreeFrozen
<1> DEFINE Frozen ==
        disposed => /\ config' = config
                    /\ version' # version => runPc \in {"before", "after"}
<1>1. Values /\ [Next]_vars => Frozen
    BY NextTree DEF TreeStep
<1>2. QED
    BY <1>1, PhasesInvariant, PTL DEF Spec, DisposedTreeFrozen, Phases

-----------------------------------------------------------------------------
(* run_seq and run_end; the quiet after dispose(). *)

\* Who changes run_seq and run_end, who ends a run, who starts a load or a run.
LEMMA EndsFrame ==
    ASSUME Phases, [Next]_vars
    PROVE  /\ \/ \E c \in Calls : RunBegins(c)
              \/ Settle
              \/ /\ UNCHANGED <<generation, ended>>
                 /\ runPc' = "none" <=> runPc = "none"
           /\ \/ \E c \in Calls : LoadBegins(c)
              \/ loadAbort = "none" => loadAbort' = "none"
           /\ DisposeStep \/ Dispose \/ UNCHANGED <<disposed, disposePc, disposeTimedOut>>
<1> USE DEF stateVars, treeVars, abortVars, runLocal, seqVars, lifeVars, runVars, CallLocal
<1>1. CASE PoolStarts \/ UiApplyOps \/ GetSnapshot \/ UpdateSettings
    BY <1>1 DEF PoolStarts, UiApplyOps, GetSnapshot, UpdateSettings
<1>2. CASE \E c \in Calls : CallStep(c)
    <2>1. PICK c \in Calls : CallStep(c)
        BY <1>2
    <2>2. CASE StartRejects(c)
        BY <2>2 DEF StartRejects
    <2>3. CASE LoadStep(c)
        BY <2>3 DEF LoadStep, CallLoad, LoadRefused, LoadBegins, LoadFails, LoadCommits,
            LoadDefaultsEnd
    <2>4. CASE RunCallStep(c)
        BY <2>4 DEF RunCallStep, CallRun, RunRefused, RunBegins
    <2>5. CASE ResetStep(c)
        BY <2>5 DEF ResetStep, CallReset, ResetRefused, ResetWaits, ResetNow, CancelBody
    <2>6. CASE SelectorStep(c)
        BY <2>6, SelectorStepFrame
    <2>7. QED
        BY <2>1, <2>2, <2>3, <2>4, <2>5, <2>6 DEF CallStep
<1>3. CASE RunStep
    <2>1. runPc # "none" /\ runPc' # "none"
        BY <1>3 DEF RunStep, HookReturns, HookResolves, HookFails, BuildPlan,
           CancelledBeforePlan, PlanFails, PlanIsEmpty, PlanHasTasks, ProbeThrows, SpawnShards,
           ShardExits, ShardsJoined, JoinedToAfter, JoinedToFinish, Publish, AfterChain,
           RunChain, InvokeHook, EndChain, ChainNext
    <2>2. QED
        BY <1>3, <2>1 DEF RunStep, sessionVars
<1>4. CASE Settle
    BY <1>4 DEF Settle
<1>5. CASE Cancel \/ Dispose
    BY <1>5 DEF Cancel, Dispose, CancelBody
<1>6. CASE DisposeStep
    BY <1>6 DEF DisposeStep, DisposeTo, DisposeSeesLoadEnd, DisposeSeesRunEnd,
        DisposeTimesOut, DisposeEnds
<1>7. CASE Finished \/ UNCHANGED vars
    BY <1>7 DEF Finished, vars, sessionVars
<1>8. QED
    BY <1>1, <1>2, <1>3, <1>4, <1>5, <1>6, <1>7 DEF Next

\* Every run reports its end once, and none starts before the last one did.
THEOREM RunsOrdered == Spec => []RunsEndInOrder
<1>1. Init => RunsEndInOrder
    BY BoundsAssumption DEF Init, RunsEndInOrder
<1>2. Phases /\ RunsEndInOrder /\ [Next]_vars => RunsEndInOrder'
    <2> SUFFICES ASSUME Phases, RunsEndInOrder, [Next]_vars PROVE RunsEndInOrder'
        OBVIOUS
    <2>1. generation \in Nat
        BY DEF Phases, Values, ValuesOK
    <2>2. CASE UNCHANGED <<generation, ended>> /\ (runPc' = "none" <=> runPc = "none")
        BY <2>2 DEF RunsEndInOrder
    <2>3. CASE \E c \in Calls : RunBegins(c)
        <3>1. /\ runPc = "none" /\ runPc' # "none"
              /\ generation' = generation + 1 /\ ended' = ended
            BY <2>3 DEF RunBegins, IdleLike, Phases, AbortPhase, StartRun, RunChain,
               InvokeHook, EndChain
        <3>2. QED
            BY <2>1, <3>1, BoundsAssumption DEF RunsEndInOrder
    <2>4. CASE Settle
        <3>1. /\ runPc # "none" /\ runPc' = "none"
              /\ generation' = generation /\ ended' = ended \cup {generation}
            BY <2>4 DEF Settle
        <3>2. QED
            BY <2>1, <3>1, BoundsAssumption DEF RunsEndInOrder
    <2>5. QED
        BY <2>2, <2>3, <2>4, EndsFrame
<1>3. QED
    BY <1>1, <1>2, PhasesInvariant, PTL DEF Spec

DisposePhase ==
    /\ disposePc # "none" => disposed
    /\ disposePc \in {"wait_run", "closing", "done"} => loadAbort = "none"
    /\ disposePc \in {"closing", "done"} => runPc = "none" \/ disposeTimedOut

LEMMA NextDispose ==
    ASSUME Phases, DisposePhase, [Next]_vars
    PROVE  DisposePhase'
<1>1. disposePc \in DisposePcs
    BY DEF Phases, Values, ValuesOK
<1>2. CASE Dispose
    BY <1>2 DEF Dispose, DisposePhase
<1>3. CASE DisposeStep
    BY <1>3 DEF DisposeStep, DisposeTo, DisposeSeesLoadEnd, DisposeSeesRunEnd, DisposeTimesOut,
       DisposeEnds, DisposePhase, runVars
<1>4. CASE UNCHANGED <<disposed, disposePc, disposeTimedOut>>
    <2>1. disposed => (loadAbort = "none" => loadAbort' = "none")
        BY EndsFrame DEF LoadBegins, LoadAdmitted, IdleLike
    <2>2. disposed => (runPc = "none" => runPc' = "none")
        BY EndsFrame DEF RunBegins, IdleLike, Settle
    <2>3. QED
        BY <1>4, <2>1, <2>2 DEF DisposePhase
<1>5. QED
    BY <1>2, <1>3, <1>4, EndsFrame

\* What dispose() has waited for does not come back.
THEOREM DisposeQuiet == Spec => []QuietAfterDispose
<1>1. Init => DisposePhase
    BY DEF Init, DisposePhase
<1>2. Phases /\ DisposePhase /\ [Next]_vars => DisposePhase'
    BY NextDispose
<1>3. DisposePhase => QuietAfterDispose
    BY DEF DisposePhase, QuietAfterDispose
<1>4. QED
    BY <1>1, <1>2, <1>3, PhasesInvariant, PTL DEF Spec

\* runConversion, applyUserScript and loadConfig: a run is not disturbed.
THEOREM RunUndisturbed == Spec => RunStaysPut
    BY DispatchFrozen, ConfigKept DEF RunStaysPut

\* dispose(): what it has ended does not come back.
THEOREM DisposeLasts == Spec => DisposedForGood
    BY DisposeQuiet, DisposedFrozen DEF DisposedForGood
=============================================================================
