----------------------------- MODULE ScriptHost -----------------------------
(***************************************************************************)
(* The inside of a script worker: the message loop (worker-main.ts) and    *)
(* the invocations it runs (executor.ts).  ScriptWorkerPool sees the same  *)
(* worker from outside.                                                    *)
(*                                                                         *)
(* The worker has one thread: while a script runs synchronously no message *)
(* is read and no timer fires.  What a script edits is counted, what it    *)
(* logs or requires is left out, and it opens at most one dialog.          *)
(***************************************************************************)
EXTENDS Naturals, FiniteSets

CONSTANTS Invokes,  \* invoke messages
          MaxEdits  \* bound on the edits of one script

ASSUME HostAssumption == MaxEdits \in Nat

VARIABLES
    entry,      \* set_name, append_log or async (events, buttons)
    script,     \* where the script of each message is
    finished,   \* the outcome of executeInvocation, none before it ends
    edits,      \* the edits the script has made so far
    decided,    \* the edits made when its outcome was decided
    ops,        \* the edits its result carries
    answer,     \* the outcome that is to be sent, none before it is known
    replies,    \* replies that were written, of each message
    inflight,   \* the messages whose task has not ended
    dialog,     \* the dialog of each script: none, open or over
    called,     \* how often callbacks of the dialog were called
    stopping,   \* shutdownRequested
    awaited,    \* the tasks the shutdown waits for
    exited      \* no, drained or forced

hostVars == <<entry, script, finished, edits, decided, ops, answer, replies, inflight, dialog,
              called, stopping, awaited, exited>>

HostOutcomes == {"none", "resolved", "rejected", "error", "timeout", "fault"}

HostTypeOK ==
    /\ entry \in [Invokes -> {"set_name", "append_log", "async"}]
    /\ script \in [Invokes -> {"none", "unrun", "running", "waiting", "over"}]
    /\ {finished, answer} \subseteq [Invokes -> HostOutcomes]
    /\ {edits, decided, ops} \subseteq [Invokes -> 0..MaxEdits]
    /\ replies \in [Invokes -> Nat] /\ called \in [Invokes -> Nat]
    /\ inflight \subseteq Invokes /\ awaited \subseteq Invokes
    /\ dialog \in [Invokes -> {"none", "open", "over"}]
    /\ stopping \in BOOLEAN
    /\ exited \in {"no", "drained", "forced"}

HostInit ==
    /\ entry \in [Invokes -> {"set_name", "append_log", "async"}]
    /\ script = [i \in Invokes |-> "none"]
    /\ finished = [i \in Invokes |-> "none"]
    /\ edits = [i \in Invokes |-> 0]
    /\ decided = [i \in Invokes |-> 0]
    /\ ops = [i \in Invokes |-> 0]
    /\ answer = [i \in Invokes |-> "none"]
    /\ replies = [i \in Invokes |-> 0]
    /\ inflight = {}
    /\ dialog = [i \in Invokes |-> "none"]
    /\ called = [i \in Invokes |-> 0]
    /\ stopping = FALSE /\ awaited = {} /\ exited = "no"

\* The event loop takes its next task.
Free == exited = "no" /\ \A i \in Invokes : script[i] # "running"

Becomes(i, where) == script' = [script EXCEPT ![i] = where]

-----------------------------------------------------------------------------
(* Messages. *)

\* handleInvoke: refused after a shutdown, else run up to its first wait.
RefuseInvoke(i) ==
    /\ Free /\ script[i] = "none" /\ stopping
    /\ Becomes(i, "unrun")
    /\ answer' = [answer EXCEPT ![i] = "fault"]
    /\ replies' = [replies EXCEPT ![i] = @ + 1]
    /\ UNCHANGED <<entry, finished, edits, decided, ops, inflight, dialog, called, stopping,
                   awaited, exited>>

\* The edits a result carries: all that were recorded when the outcome came
\* back from the entry; an edit that is no JSON is replaced by a diagnostic.
Collected(i) == edits[i]

\* What executeInvocation returns, unless the outer deadline was first.
HostReturns(i, outcome, made) ==
    /\ finished' = [finished EXCEPT ![i] = outcome]
    /\ ops' = [ops EXCEPT ![i] = made]
    /\ answer' = [answer EXCEPT ![i] = IF @ = "none" THEN outcome ELSE @]

StartInvoke(i) ==
    /\ Free /\ script[i] = "none" /\ ~stopping
    /\ inflight' = inflight \cup {i}
    /\ \/ Becomes(i, "running") /\ UNCHANGED <<finished, ops, answer>>
       \/ Becomes(i, "unrun") /\ HostReturns(i, "error", 0) \* a syntax error
    /\ UNCHANGED <<entry, edits, decided, replies, dialog, called, stopping, awaited, exited>>

\* Mutant: the token stays for another answer.
DialogRespond_KeepsToken(i, choice) ==
    /\ Free
    /\ dialog[i] = "open"
    /\ called' = IF choice = "dismissed" THEN called ELSE [called EXCEPT ![i] = @ + 1]
    /\ UNCHANGED <<entry, script, finished, edits, decided, ops, answer, replies, inflight,
                   dialog, stopping, awaited, exited>>

\* handleDialogRespond: the token is taken out before a callback is called.
DialogRespond(i, choice) ==
    /\ Free
    /\ dialog[i] = "open"
    /\ dialog' = [dialog EXCEPT ![i] = "over"]
    /\ called' = IF choice = "dismissed" THEN called ELSE [called EXCEPT ![i] = @ + 1]
    /\ UNCHANGED <<entry, script, finished, edits, decided, ops, answer, replies, inflight,
                   stopping, awaited, exited>>

\* handleShutdown, on the message or the end of stdin.
Shutdown ==
    /\ Free /\ ~stopping
    /\ stopping' = TRUE
    /\ awaited' = inflight
    /\ UNCHANGED <<entry, script, finished, edits, decided, ops, answer, replies, inflight,
                   dialog, called, exited>>

ExitDrained ==
    /\ Free /\ stopping /\ awaited \cap inflight = {}
    /\ exited' = "drained"
    /\ UNCHANGED <<entry, script, finished, edits, decided, ops, answer, replies, inflight,
                   dialog, called, stopping, awaited>>

ExitForced ==
    /\ Free /\ stopping
    /\ exited' = "forced"
    /\ UNCHANGED <<entry, script, finished, edits, decided, ops, answer, replies, inflight,
                   dialog, called, stopping, awaited>>

-----------------------------------------------------------------------------
(* The script. *)

\* Code of the script runs: its synchronous part, or one of its own timers,
\* which no end of the invocation takes away.
Runs(i) ==
    \/ script[i] = "running"
    \/ script[i] \in {"waiting", "over"} /\ entry[i] = "async" /\ Free

Edit(i) ==
    /\ exited = "no" /\ Runs(i)
    /\ edits[i] < MaxEdits
    /\ edits' = [edits EXCEPT ![i] = @ + 1]
    /\ UNCHANGED <<entry, script, finished, decided, ops, answer, replies, inflight, dialog,
                   called, stopping, awaited, exited>>

\* alert_warning and alert_error; a set_name script has them too.
OpenDialog(i) ==
    /\ exited = "no" /\ Runs(i)
    /\ dialog[i] = "none"
    /\ dialog' = [dialog EXCEPT ![i] = "open"]
    /\ UNCHANGED <<entry, script, finished, edits, decided, ops, answer, replies, inflight,
                   called, stopping, awaited, exited>>

\* resolve() or reject() in the synchronous part: the first call decides, the
\* edits are collected when the script has returned.
Decide(i, outcome) ==
    /\ script[i] = "running" /\ entry[i] = "async"
    /\ finished[i] = "none"
    /\ finished' = [finished EXCEPT ![i] = outcome]
    /\ decided' = [decided EXCEPT ![i] = edits[i]]
    /\ UNCHANGED <<entry, script, edits, ops, answer, replies, inflight, dialog, called,
                   stopping, awaited, exited>>

\* A synchronous script is over; what it has changed counts in any case.
SyncEntryOver(i, how) ==
    /\ script[i] = "running"
    /\ Becomes(i, "over")
    /\ decided' = [decided EXCEPT ![i] = edits[i]]
    /\ HostReturns(i, IF how = "returns" THEN "resolved" ELSE "error", Collected(i))
    /\ UNCHANGED <<entry, edits, replies, inflight, dialog, called, stopping, awaited, exited>>

\* The VM has no time limit for set_name: only the guardian ends a script that
\* does not return.
SetNameOver(i, how) ==
    entry[i] = "set_name" /\ how # "expires" /\ SyncEntryOver(i, how)

AppendLogOver(i, how) == entry[i] = "append_log" /\ SyncEntryOver(i, how)

\* Events and buttons: the synchronous part has returned, thrown or hit the
\* timeout of the VM.  An entry that has not decided waits, with a timer.
SyncOver(i, how) ==
    /\ script[i] = "running" /\ entry[i] = "async"
    /\ IF finished[i] # "none"
       THEN Becomes(i, "over") /\ HostReturns(i, finished[i], Collected(i)) /\ UNCHANGED decided
       ELSE IF how = "returns"
       THEN Becomes(i, "waiting") /\ UNCHANGED <<finished, ops, answer, decided>>
       ELSE /\ Becomes(i, "over")
            /\ decided' = [decided EXCEPT ![i] = edits[i]]
            /\ HostReturns(i, IF how = "expires" THEN "rejected" ELSE "error", Collected(i))
    /\ UNCHANGED <<entry, edits, replies, inflight, dialog, called, stopping, awaited, exited>>

\* A timer of the script calls resolve() or reject(), or its time is over.
AsyncOver(i, outcome) ==
    /\ Free /\ script[i] = "waiting"
    /\ Becomes(i, "over")
    /\ decided' = [decided EXCEPT ![i] = edits[i]]
    /\ HostReturns(i, outcome, Collected(i))
    /\ UNCHANGED <<entry, edits, replies, inflight, dialog, called, stopping, awaited, exited>>

\* runWithOuterDeadline: timeout_ms + 100 after the message came in.
OuterDeadline(i) ==
    /\ Free /\ script[i] = "waiting" /\ answer[i] = "none"
    /\ answer' = [answer EXCEPT ![i] = "timeout"]
    /\ UNCHANGED <<entry, script, finished, edits, decided, ops, replies, inflight, dialog,
                   called, stopping, awaited, exited>>

\* The complete message, or a fault if it cannot be sent, is written.
Reply(i) ==
    /\ Free /\ i \in inflight /\ answer[i] # "none"
    /\ inflight' = inflight \ {i}
    /\ replies' = [replies EXCEPT ![i] = @ + 1]
    /\ UNCHANGED <<entry, script, finished, edits, decided, ops, answer, dialog, called,
                   stopping, awaited, exited>>

HostNext ==
    \/ Shutdown \/ ExitDrained \/ ExitForced
    \/ \E i \in Invokes :
          \/ RefuseInvoke(i) \/ StartInvoke(i)
          \/ \E choice \in {"answered", "dismissed"} : DialogRespond(i, choice)
          \/ Edit(i) \/ OpenDialog(i)
          \/ \E outcome \in {"resolved", "rejected"} : Decide(i, outcome) \/ AsyncOver(i, outcome)
          \/ \E how \in {"returns", "throws", "expires"} :
                SetNameOver(i, how) \/ AppendLogOver(i, how) \/ SyncOver(i, how)
          \/ OuterDeadline(i) \/ Reply(i)

HostSpec == HostInit /\ [][HostNext]_hostVars

-----------------------------------------------------------------------------
\* Properties.

\* A message is answered once, whichever of the script, its timer and the
\* outer deadline comes first, and an orderly exit leaves none that was taken
\* without its answer (worker-main.ts:101, 220).
EachAnsweredOnce ==
    /\ \A i \in Invokes : replies[i] <= 1
    /\ exited = "drained" => \A i \in Invokes : script[i] # "none" => replies[i] = 1

\* What a script has edited by the time it decides goes with its result, also
\* if it fails; only a script cut off by the outer deadline loses its edits
\* (executor.ts:461, worker-main.ts:97).
EditsGoWithTheResult ==
    \A i \in Invokes : answer[i] \notin {"none", "timeout", "fault"} => ops[i] >= decided[i]

\* A callback of a dialog is called at most once, however often it is answered
\* and although the script is over by then (worker-main.ts:28, 185).
CalledBackOnce == \A i \in Invokes : called[i] <= 1

\* All three: an invocation is accounted for once, and whole.
AccountedOnce == EachAnsweredOnce /\ EditsGoWithTheResult /\ CalledBackOnce
=============================================================================
