------------------------------ MODULE LogFlow ------------------------------
(***************************************************************************)
(* A log line on its way to the user: log-pipeline.ts, which commits lines *)
(* under consecutive seqs, the on_append_log hooks of a run (run.ts),       *)
(* getLogs and the log events, and the log window of session-store.ts.     *)
(* Texts, levels and the display filter are left out.                      *)
(*                                                                         *)
(* The backend keeps the lines kept..last.  A line of the window is known  *)
(* by its seq, 0 when it has none (written by the UI, or of a backend that *)
(* is dead); young says that its localId is above the cutoff of the reset  *)
(* under way.                                                              *)
(***************************************************************************)
EXTENDS Integers, FiniteSetsExt, SequencesExt, FilteredSeq

CONSTANTS Capacity,       \* lines the backend keeps
          HookCapacity,   \* lines that may wait for the hooks (the same in the code)
          LogHooks,       \* on_append_log hooks of the configuration
          WindowCapacity, \* lines the window keeps
          PageSize,       \* lines of one getLogs
          MaxLines,       \* bound on the lines of a backend
          MaxLogCalls,    \* bound on the getLogs calls under way
          MaxResets       \* bound on loads and runs, on deaths, on lines of the UI
                          \* itself and on hooks that are switched

ASSUME LogAssumption ==
    /\ {Capacity, WindowCapacity, PageSize} \subseteq Nat \ {0}
    /\ {HookCapacity, LogHooks, MaxLines, MaxLogCalls, MaxResets} \subseteq Nat
    /\ PageSize < MaxLines

VARIABLES
    last, kept,      \* nextSeq, and the seq of entries[0]
    hooked,          \* hookRunner # null
    waiting,         \* pendingHooks
    enabledHooks,    \* how many on_append_log hooks are enabled
    chain,           \* how many the runner of the current or the last run has
    hookAt,          \* the hook the first waiting line is in, 0 for none yet
    logRun,          \* none, running, draining: the run that owns the hooks
    lineEvents,      \* seqs, or death, published and not yet received
    window,          \* logs.entries
    maxSeq,          \* logs.maxSeq
    initialized, noMoreOlder,
    pages,           \* getLogs calls under way
    reset,           \* none or begun: a load or a run that will clear the window
    resets,          \* how many of what MaxResets bounds there were
    gone,            \* history: the newest line that was shown or skipped and
                     \* is not in the window any more
    overtook,        \* history: a page has overtaken what it must not overtake,
                     \* since the last death that was seen
    lateLine         \* history: a line of a run came after its closing line

logVars == <<last, kept, hooked, waiting, enabledHooks, chain, hookAt, logRun, lineEvents,
             window, maxSeq, initialized, noMoreOlder, pages, reset, resets, gone, overtook,
             lateLine>>

hookVars == <<enabledHooks, chain, hookAt>>

backendLog == <<last, kept, hooked, waiting, hookVars, logRun, lateLine>>
windowVars == <<window, maxSeq, initialized, noMoreOlder, gone>>

uiLogVars == <<windowVars, pages, reset, resets, overtook>>

Death == -1

\* A hook has failed: the hooks behind it are skipped.
Skipped == LogHooks + 1

SeqsOf(entries) == {entries[i].seq : i \in DOMAIN entries} \ {0}

Seqs == SeqsOf(window)

LogTypeOK ==
    /\ last \in 0..MaxLines /\ kept \in 1..(MaxLines + 1)
    /\ waiting \in 0..HookCapacity
    /\ {enabledHooks, chain} \subseteq 0..LogHooks /\ hookAt \in 0..Skipped
    /\ logRun \in {"none", "running", "draining"}
    /\ maxSeq \in 0..MaxLines
    /\ \A i \in DOMAIN window : window[i].seq \in 0..MaxLines
    /\ reset \in {"none", "begun"}

\* Lines published before the UI listens reach it by getLogs only.
LogInit ==
    /\ last \in {0, PageSize + 1}
    /\ kept = 1
    /\ hooked = FALSE /\ waiting = 0 /\ logRun = "none"
    /\ enabledHooks = LogHooks /\ chain = 0 /\ hookAt = 0
    /\ lineEvents = <<>>
    /\ window = <<>> /\ maxSeq = 0
    /\ initialized = FALSE /\ noMoreOlder = FALSE
    /\ pages = <<>>
    /\ reset = "none" /\ resets = 0
    /\ gone = last
    /\ overtook = FALSE /\ lateLine = FALSE

-----------------------------------------------------------------------------
(* The pipeline. *)

\* commit: the next seq, the oldest line dropped at capacity, and the event.
Commit ==
    /\ last < MaxLines
    /\ last' = last + 1
    /\ kept' = IF last + 1 - kept + 1 > Capacity THEN kept + 1 ELSE kept
    /\ lineEvents' = Append(lineEvents, last + 1)

\* append: a line waits for the hooks behind the lines before it, unless there
\* are none or too many wait already.
AppendLine ==
    /\ logRun # "draining"
    /\ IF hooked /\ waiting < HookCapacity
       THEN last + waiting < MaxLines /\ waiting' = waiting + 1
            /\ UNCHANGED <<last, kept, lineEvents>>
       ELSE Commit /\ UNCHANGED waiting
    /\ UNCHANGED <<hooked, hookVars, logRun, lateLine, uiLogVars>>

\* routeWorkerEvent: what a worker says of itself is not sent through the hooks.
WorkerSays ==
    /\ Commit
    /\ UNCHANGED <<hooked, waiting, hookVars, logRun, lateLine, uiLogVars>>

\* The runner calls the enabled hooks one after the other.
NextHook ==
    /\ waiting > 0 /\ hookAt < chain
    /\ hookAt' = hookAt + 1
    /\ UNCHANGED <<last, kept, hooked, waiting, enabledHooks, chain, logRun, lateLine, lineEvents,
                   uiLogVars>>

\* What a hook logs, and what is wrong with its ops, is not sent through the
\* hooks again.
HookLogs ==
    /\ hookAt \in 1..chain
    /\ Commit
    /\ UNCHANGED <<hooked, waiting, hookVars, logRun, lateLine, uiLogVars>>

\* A hook ends with an error, or its worker fails: the error is logged and the
\* rest of the chain is skipped.
HookFails ==
    /\ hookAt \in 1..chain
    /\ Commit
    /\ hookAt' = Skipped
    /\ UNCHANGED <<hooked, waiting, enabledHooks, chain, logRun, lateLine, uiLogVars>>

\* The line is committed as its hooks have left it.
HookedLine ==
    /\ waiting > 0 /\ hookAt \in {chain, Skipped}
    /\ Commit
    /\ waiting' = waiting - 1 /\ hookAt' = 0
    /\ lateLine' = (lateLine \/ logRun = "none")
    /\ UNCHANGED <<hooked, enabledHooks, chain, logRun, uiLogVars>>

\* setHookEnabled of a hook that has a name and may be switched: one more, one
\* less, or another group's.
Switched == {enabledHooks - 1, enabledHooks, enabledHooks + 1} \cap (0..LogHooks)

\* rpcSetHookEnabled: at any time, but a run keeps the append_log hooks it has
\* started with.
SetHookEnabled ==
    /\ resets < MaxResets /\ resets' = resets + 1
    /\ enabledHooks' \in Switched
    /\ UNCHANGED <<last, kept, hooked, waiting, chain, hookAt, logRun, lateLine, lineEvents,
                   windowVars, pages, reset, overtook>>

\* runConversion installs the hooks that are enabled (makeAppendLogRunner), takes
\* them away, drains and says how it ended.
RunHooks ==
    /\ logRun = "none"
    /\ logRun' = "running" /\ hooked' = TRUE
    /\ chain' = enabledHooks
    /\ UNCHANGED <<last, kept, waiting, enabledHooks, hookAt, lateLine, lineEvents, uiLogVars>>

RunDrains ==
    /\ logRun = "running"
    /\ logRun' = "draining" /\ hooked' = FALSE
    /\ UNCHANGED <<last, kept, waiting, hookVars, lateLine, lineEvents, uiLogVars>>

RunCloses ==
    /\ logRun = "draining" /\ waiting = 0
    /\ Commit
    /\ logRun' = "none"
    /\ UNCHANGED <<hooked, waiting, hookVars, lateLine, uiLogVars>>

-----------------------------------------------------------------------------
(* getLogs. *)

Asking(op, before) ==
    /\ Len(pages) < MaxLogCalls
    /\ pages' = Append(pages, [op |-> op, current |-> TRUE, stage |-> "asked",
                               before |-> before, lines |-> <<>>, behind |-> 0])

\* initLogs, on every change of the connection until it has succeeded.
InitLogs ==
    /\ ~initialized
    /\ Asking("init", MaxLines + 1)
    /\ UNCHANGED <<backendLog, lineEvents, windowVars, reset, resets, overtook>>

Loading == \E i \in DOMAIN pages : pages[i].op = "older" /\ pages[i].current

\* The lines before the first one in the window that has a seq.
LoadOlderLogs ==
    /\ initialized /\ ~Loading /\ ~noMoreOlder
    /\ \E oldest \in DOMAIN window :
          /\ window[oldest].seq # 0 /\ \A j \in 1..(oldest - 1) : window[j].seq = 0
          /\ Asking("older", window[oldest].seq)
    /\ UNCHANGED <<backendLog, lineEvents, windowVars, reset, resets, overtook>>

\* getRecentBefore: the newest lines before a seq, in their order; getRecent is
\* that of a seq that no line has.
RecentBefore(before) ==
    LET end == IF before > last THEN last ELSE before - 1
        start == IF end - PageSize + 1 < kept THEN kept ELSE end - PageSize + 1
    IN [k \in 1..(end - start + 1) |-> start + k - 1]

\* rpcGetLogs, in any state of the session.
ServePage(i) ==
    /\ i \in DOMAIN pages /\ pages[i].stage = "asked"
    /\ pages' = [pages EXCEPT ![i].stage = "answered", ![i].behind = Len(lineEvents),
                               ![i].lines = RecentBefore(pages[i].before)]
    /\ UNCHANGED <<backendLog, lineEvents, windowVars, reset, resets, overtook>>

\* BACKEND_NOT_READY makes initLogs ask again; after another error, or 50 of
\* these, it goes without the page, as loadOlderLogs does.
PageFails(i) ==
    /\ i \in DOMAIN pages /\ pages[i].stage = "asked"
    /\ pages' = RemoveAt(pages, i)
    /\ \/ UNCHANGED initialized
       \/ pages[i].op = "init" /\ pages[i].current /\ initialized' = TRUE
    /\ UNCHANGED <<backendLog, lineEvents, window, maxSeq, noMoreOlder, gone, reset, resets,
                   overtook>>

\* A page without the lines the window has.
Missing(lines) ==
    LET new == Filtered(lines, {k \in DOMAIN lines : lines[k] \notin Seqs})
    IN [k \in DOMAIN new |-> [seq |-> new[k], young |-> TRUE]]

Trimmed(entries) ==
    IF Len(entries) <= WindowCapacity THEN entries
    ELSE SubSeq(entries, Len(entries) - WindowCapacity + 1, Len(entries))

\* What leaves the window, or was never fetched, is gone.
GoneWith(entries, all) == Max({gone} \cup (all \ SeqsOf(entries)))

Newest(lines) == IF lines = <<>> THEN 0 ELSE lines[Len(lines)]

\* A first page that is ahead of events of lines, while the window has or has had
\* others or another first page is under way; and a page that is ahead of the
\* news that the backend it does not come from has died.
Overtakes(i) ==
    /\ pages[i].current /\ pages[i].behind > 0
    /\ \/ /\ pages[i].op = "init"
          /\ \/ maxSeq > 0
             \/ \E j \in DOMAIN pages : j # i /\ pages[j].op = "init" /\ pages[j].current
       \/ \E k \in 1..pages[i].behind : lineEvents[k] = Death

PageReturns(i) ==
    /\ i \in DOMAIN pages /\ pages[i].stage = "answered"
    /\ pages' = RemoveAt(pages, i)
    /\ overtook' = (overtook \/ Overtakes(i))
    /\ LET lines == pages[i].lines
           merged == Missing(lines) \o window
       IN IF ~pages[i].current THEN UNCHANGED windowVars
          ELSE IF pages[i].op = "init"
          THEN /\ window' = Trimmed(merged)
               /\ initialized' = TRUE
               /\ maxSeq' = Max({maxSeq, Newest(lines)})
               /\ gone' = IF maxSeq = 0
                          THEN Max({0} \cup ((1..Newest(lines)) \ SeqsOf(window')))
                          ELSE GoneWith(window', SeqsOf(merged))
               /\ UNCHANGED noMoreOlder
          ELSE /\ window' = merged
               /\ noMoreOlder' = (lines = <<>>)
               /\ UNCHANGED <<initialized, maxSeq, gone>>
    /\ UNCHANGED <<backendLog, lineEvents, reset, resets>>

-----------------------------------------------------------------------------
(* Events. *)

NextLine == lineEvents' = Tail(lineEvents)
            /\ pages' = [i \in DOMAIN pages |->
                            [pages[i] EXCEPT !.behind = IF @ = 0 THEN 0 ELSE @ - 1]]

\* A line the window has seen, or has fetched, is skipped.
LineArrives ==
    /\ lineEvents # <<>> /\ Head(lineEvents) # Death
    /\ NextLine
    /\ LET seq == Head(lineEvents)
           entries == Append(window, [seq |-> seq, young |-> TRUE])
       IN IF seq > maxSeq
          THEN /\ window' = Trimmed(entries)
               /\ maxSeq' = seq
               /\ gone' = GoneWith(window', SeqsOf(entries))
          ELSE UNCHANGED <<window, maxSeq, gone>>
    /\ UNCHANGED <<backendLog, initialized, noMoreOlder, reset, resets, overtook>>

\* appendLocalLog: a line of the UI itself.
LocalLine ==
    /\ resets < MaxResets /\ resets' = resets + 1
    /\ LET entries == Append(window, [seq |-> 0, young |-> TRUE])
       IN /\ window' = Trimmed(entries)
          /\ gone' = GoneWith(window', SeqsOf(entries))
    /\ UNCHANGED <<backendLog, lineEvents, maxSeq, initialized, noMoreOlder, pages, reset,
                   overtook>>

\* markGuardianDead: the lines stay, without their seqs.
DeathIsSeen ==
    /\ lineEvents # <<>> /\ Head(lineEvents) = Death
    /\ lineEvents' = Tail(lineEvents)
    /\ pages' = [i \in DOMAIN pages |-> [pages[i] EXCEPT !.current = FALSE]]
    /\ window' = [i \in DOMAIN window |-> [window[i] EXCEPT !.seq = 0]]
    /\ maxSeq' = 0 /\ initialized' = FALSE /\ noMoreOlder' = FALSE
    /\ reset' = "none"
    /\ gone' = 0 /\ overtook' = FALSE
    /\ UNCHANGED <<backendLog, resets>>

\* A dead backend and the one that follows it, whose seqs start at 1.
BackendReplaced ==
    /\ resets < MaxResets /\ resets' = resets + 1
    /\ lineEvents' = Append(lineEvents, Death)
    /\ last' = 0 /\ kept' = 1
    /\ hooked' = FALSE /\ waiting' = 0 /\ logRun' = "none"
    /\ enabledHooks' = LogHooks /\ chain' = 0 /\ hookAt' = 0
    /\ pages' = Filtered(pages, {i \in DOMAIN pages : pages[i].stage = "answered"})
    /\ UNCHANGED <<lateLine, windowVars, reset, overtook>>

-----------------------------------------------------------------------------
(* loadConfig, reload and startRun clear the window when they succeed: of    *)
(* what it shows, the lines that came since the user asked stay.             *)

ResetBegins ==
    /\ reset = "none"
    /\ resets < MaxResets /\ resets' = resets + 1
    /\ reset' = "begun"
    /\ window' = [i \in DOMAIN window |-> [window[i] EXCEPT !.young = FALSE]]
    /\ UNCHANGED <<backendLog, lineEvents, maxSeq, initialized, noMoreOlder, gone, pages,
                   overtook>>

\* resetLogWindow, and logWindowEpoch++.
ResetSucceeds ==
    /\ reset = "begun"
    /\ reset' = "none"
    /\ window' = Filtered(window, {i \in DOMAIN window : window[i].young})
    /\ initialized' = TRUE /\ noMoreOlder' = TRUE
    /\ gone' = GoneWith(window', SeqsOf(window))
    /\ pages' = [i \in DOMAIN pages |-> [pages[i] EXCEPT !.current = FALSE]]
    /\ UNCHANGED <<backendLog, lineEvents, maxSeq, resets, overtook>>

ResetFails ==
    /\ reset = "begun"
    /\ reset' = "none"
    /\ UNCHANGED <<backendLog, lineEvents, windowVars, pages, resets, overtook>>

LogNext ==
    \/ AppendLine \/ WorkerSays
    \/ NextHook \/ HookLogs \/ HookFails \/ HookedLine \/ SetHookEnabled
    \/ RunHooks \/ RunDrains \/ RunCloses
    \/ InitLogs \/ LoadOlderLogs
    \/ \E i \in DOMAIN pages : ServePage(i) \/ PageFails(i) \/ PageReturns(i)
    \/ LineArrives \/ LocalLine \/ DeathIsSeen \/ BackendReplaced
    \/ ResetBegins \/ ResetSucceeds \/ ResetFails

LogSpec == LogInit /\ [][LogNext]_logVars

-----------------------------------------------------------------------------
\* Properties.  The first two assume that no page has overtaken what it must not:
\* such a page is put above newer and older lines alike.

\* No line is shown twice, and a later line never above an earlier one
\* (session-store.ts:720, 797, 1075).
LinesInOrder ==
    overtook \/ \A i, j \in DOMAIN window :
        i < j /\ window[i].seq # 0 /\ window[j].seq # 0 => window[i].seq < window[j].seq

\* Once every event is in, the window shows every line of the backend that is
\* newer than what was evicted, cleared or never fetched: pages, events and
\* resets leave no hole (session-store.ts:327, 740, 803).
NewLinesShown ==
    overtook \/ (initialized /\ lineEvents = <<>> =>
                    {n \in Seqs : n > gone} = (gone + 1)..last)

\* The closing line of a run is the last of it: what waited for the hooks is
\* committed before (run.ts:483).
ClosingLineIsLast == ~lateLine

\* All three: the log the user reads is the log of the backend.
LogFollowed == LinesInOrder /\ NewLinesShown /\ ClosingLineIsLast
=============================================================================
