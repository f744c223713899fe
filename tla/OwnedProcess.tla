---------------------------- MODULE OwnedProcess ----------------------------
(***************************************************************************)
(* A child process and the scope that owns its tree (process-tree.ts), in  *)
(* the four places that start one: the JVM of a shard (java-runner.ts),    *)
(* a command under a deadline (run-with-deadline.ts), the parser of a      *)
(* configuration (isolated-loader.ts) and the check of the Java version    *)
(* (java-env.ts).                                                          *)
(*                                                                         *)
(* A kill asks the platform, by signals or by a job object: a process may  *)
(* ignore it, and may end at any moment without one.  Output, exit codes   *)
(* and the lines written to stdin are left out.                            *)
(***************************************************************************)
EXTENDS Naturals

VARIABLES
    caller,    \* who owns the process
    child,     \* the process: none, up or gone
    heirs,     \* a descendant holds the pipes of the process
    exitSeen,  \* the exit event has been handled
    closeSeen, \* the close event has been handled: gone, and the pipes drained
    stops,     \* why the process is to be stopped
    kill,      \* terminate(): none, asked (SIGTERM), sent (SIGKILL) or reported
    reapTimer, \* the timer that gives up after a kill is armed
    pipeTimer, \* the timer that gives up on the pipes after the exit is armed
    owner,     \* the call: running, settling or done
    verdict    \* how it settles

ownedVars == <<caller, child, heirs, exitSeen, closeSeen, stops, kill, reapTimer,
               pipeTimer, owner, verdict>>

Callers == {"java", "deadline", "parser", "check"}

Verdicts == {"none", "ok", "spawn", "deadline", "abort", "stdin", "exit", "unconfirmed",
             "unassigned"}

OwnedTypeOK ==
    /\ caller \in Callers
    /\ child \in {"none", "up", "gone"}
    /\ {heirs, exitSeen, closeSeen, reapTimer, pipeTimer} \subseteq BOOLEAN
    /\ stops \subseteq {"deadline", "abort", "stdin"}
    /\ kill \in {"none", "asked", "sent", "reported"}
    /\ owner \in {"running", "settling", "done"}
    /\ verdict \in Verdicts

OwnedInit ==
    /\ caller \in Callers
    /\ child = "none"
    /\ heirs = FALSE /\ exitSeen = FALSE /\ closeSeen = FALSE
    /\ stops = {}
    /\ kill = "none"
    /\ reapTimer = FALSE /\ pipeTimer = FALSE
    /\ owner = "running" /\ verdict = "none"

-----------------------------------------------------------------------------
(* The process. *)

Spawn ==
    /\ child = "none" /\ owner = "running"
    /\ child' = "up"
    /\ UNCHANGED <<caller, heirs, exitSeen, closeSeen, stops, kill, reapTimer, pipeTimer,
                   owner, verdict>>

\* Only a process with pipes can leave them to a descendant.
Fork ==
    /\ child = "up" /\ ~heirs /\ caller # "deadline"
    /\ heirs' = TRUE
    /\ UNCHANGED <<caller, child, exitSeen, closeSeen, stops, kill, reapTimer, pipeTimer,
                   owner, verdict>>

ChildEnds ==
    /\ child = "up" /\ child' = "gone"
    /\ UNCHANGED <<caller, heirs, exitSeen, closeSeen, stops, kill, reapTimer, pipeTimer,
                   owner, verdict>>

HeirsEnd ==
    /\ heirs /\ heirs' = FALSE
    /\ UNCHANGED <<caller, child, exitSeen, closeSeen, stops, kill, reapTimer, pipeTimer,
                   owner, verdict>>

-----------------------------------------------------------------------------
(* The scope. *)

\* terminate() is done once; the JVM is given a time of grace.
Terminated ==
    IF kill # "none" THEN kill ELSE IF caller = "java" THEN "asked" ELSE "sent"

GraceOver ==
    /\ kill = "asked" /\ kill' = "sent"
    /\ UNCHANGED <<caller, child, heirs, exitSeen, closeSeen, stops, reapTimer, pipeTimer,
                   owner, verdict>>

\* Only the owner of the parser reads the report of a kill.
Confirms == caller = "parser" /\ ~closeSeen

\* The report names what has not closed within 2 s.
ReportKill ==
    /\ kill = "sent" /\ kill' = "reported"
    /\ verdict' = IF Confirms THEN "unconfirmed" ELSE verdict
    /\ UNCHANGED <<caller, child, heirs, exitSeen, closeSeen, stops, reapTimer, pipeTimer, owner>>

\* settle() and finish(): the first one decides.  The scope of a process that
\* has not closed is terminated; the parser and the check do it in any case.
\* (dispose() runs terminate(0), without grace.)
Settles(how, isClosed) ==
    /\ owner' = "settling" /\ verdict' = how
    /\ reapTimer' = FALSE /\ pipeTimer' = FALSE
    /\ kill' = IF kill = "none" /\ child # "none"
                  /\ (~isClosed \/ caller \in {"parser", "check"})
               THEN "sent" ELSE kill

\* dispose() returns, and with it the call: it waits for the report unless the
\* process has closed or there is none.
DisposeOnce ==
    /\ owner = "settling"
    /\ \/ kill = "reported"
       \/ closeSeen /\ caller \in {"java", "deadline"}
       \/ child = "none"
    /\ owner' = "done"
    /\ UNCHANGED <<caller, child, heirs, exitSeen, closeSeen, stops, kill, reapTimer, pipeTimer,
                   verdict>>

-----------------------------------------------------------------------------
(* The handlers of the owner. *)

\* The program cannot be started, or the call was cancelled before.
SpawnFails ==
    /\ child = "none" /\ owner = "running"
    /\ \E how \in {"spawn", "abort"} : Settles(how, FALSE)
    /\ UNCHANGED <<caller, child, heirs, exitSeen, closeSeen, stops>>

\* register() on Windows: a process that cannot be put into the job is killed,
\* the scope is disposed of and the call fails.  The parser and the check then
\* wait for the report; the two others wait for nothing.
RegisterFails ==
    /\ child = "none" /\ owner = "running"
    /\ child' = "up" /\ kill' = "sent"
    /\ verdict' = "unassigned"
    /\ owner' = IF caller \in {"java", "deadline"} THEN "done" ELSE "settling"
    /\ UNCHANGED <<caller, heirs, exitSeen, closeSeen, stops, reapTimer, pipeTimer>>

\* What ends each kind of process; the check has a time limit only.
Reasons ==
    CASE caller = "java" -> {"deadline", "abort", "stdin"}
      [] caller = "parser" -> {"deadline", "abort"}
      [] caller \in {"check", "deadline"} -> {"deadline"}

\* The deadline, the abort signal, or an error on stdin of the JVM.
Stop(why) ==
    /\ child # "none" /\ owner = "running"
    /\ why \in Reasons \ stops
    /\ stops' = stops \cup {why}
    /\ IF caller \in {"parser", "check"} THEN Settles(why, closeSeen)
       ELSE /\ kill' = Terminated
            /\ reapTimer' = TRUE
            /\ UNCHANGED <<pipeTimer, owner, verdict>>
    /\ UNCHANGED <<caller, child, heirs, exitSeen, closeSeen>>

\* Only the JVM's owner listens to the exit.
ExitEvent ==
    /\ caller = "java"
    /\ child = "gone" /\ ~exitSeen
    /\ exitSeen' = TRUE
    /\ pipeTimer' = (owner = "running")
    /\ UNCHANGED <<caller, child, heirs, closeSeen, stops, kill, reapTimer, owner, verdict>>

\* What the close event tells: a reason to stop outranks the exit code.
CloseVerdict ==
    CASE "deadline" \in stops -> "deadline"
      [] "deadline" \notin stops /\ "abort" \in stops -> "abort"
      [] stops = {"stdin"} -> "stdin"
      [] stops = {} -> IF caller = "parser" THEN "exit" ELSE "ok"

\* Mutant: the exit is taken for the end of the pipes.
CloseEvent_OnExit ==
    /\ child = "gone" /\ ~closeSeen
    /\ caller = "java" => exitSeen
    /\ closeSeen' = TRUE
    /\ IF owner = "running" THEN Settles(CloseVerdict, TRUE)
       ELSE UNCHANGED <<kill, reapTimer, pipeTimer, owner, verdict>>
    /\ UNCHANGED <<caller, child, heirs, exitSeen, stops>>

CloseEvent ==
    /\ child = "gone" /\ ~heirs /\ ~closeSeen
    /\ caller = "java" => exitSeen
    /\ closeSeen' = TRUE
    /\ IF owner = "running" THEN Settles(CloseVerdict, TRUE)
       ELSE UNCHANGED <<kill, reapTimer, pipeTimer, owner, verdict>>
    /\ UNCHANGED <<caller, child, heirs, exitSeen, stops>>

\* The parser's owner takes the first whole reply.
ParserReplies ==
    /\ caller = "parser" /\ child # "none" /\ ~closeSeen
    /\ owner = "running"
    /\ Settles("ok", FALSE)
    /\ UNCHANGED <<caller, child, heirs, exitSeen, closeSeen, stops>>

\* No close within the time of grace and 2 s more.
GiveUpReaping ==
    /\ reapTimer /\ owner = "running" /\ kill \in {"sent", "reported"}
    /\ Settles(IF caller = "java" THEN "unconfirmed" ELSE "deadline", closeSeen)
    /\ UNCHANGED <<caller, child, heirs, exitSeen, closeSeen, stops>>

\* The JVM has exited and its pipes stay open.
GiveUpDraining ==
    /\ pipeTimer /\ owner = "running"
    /\ Settles("unconfirmed", closeSeen)
    /\ UNCHANGED <<caller, child, heirs, exitSeen, closeSeen, stops>>

OwnedNext ==
    \/ Spawn \/ Fork \/ ChildEnds \/ HeirsEnd
    \/ GraceOver \/ ReportKill \/ DisposeOnce
    \/ SpawnFails \/ RegisterFails \/ (\E why \in {"deadline", "abort", "stdin"} : Stop(why))
    \/ ExitEvent \/ CloseEvent \/ ParserReplies \/ GiveUpReaping \/ GiveUpDraining

OwnedSpec == OwnedInit /\ [][OwnedNext]_ownedVars

-----------------------------------------------------------------------------
\* Properties.

Remains == child = "up" \/ heirs

\* A call that returns leaves nothing behind unseen: the process and whoever
\* holds its pipes are gone, or they were killed and, for a JVM and a parser,
\* the caller is told: that the cleanup is not confirmed, or that the JVM could
\* not be put under control, in which case nobody waits for its end
\* (java-runner.ts:126, 174, 207; isolated-loader.ts:133; process-tree.ts:272).
NothingLeftUnseen ==
    owner = "done" /\ Remains =>
       /\ kill \in {"sent", "reported"}
       /\ caller = "java" => verdict \in {"unconfirmed", "unassigned"}
       /\ caller = "parser" => verdict = "unconfirmed"
=============================================================================
