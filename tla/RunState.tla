------------------------------ MODULE RunState ------------------------------
(***************************************************************************)
(* The run life-cycle of packages/backend/src/domain/run-state.ts.  The    *)
(* module has no variables: it is the frozen transition table that the     *)
(* session (Session.tla) is the only writer of.                            *)
(***************************************************************************)
EXTENDS Naturals, Sequences

RunStates == {"idle", "loading", "ready", "before_hooks", "converting",
              "after_hooks", "succeeded", "failed", "cancelled"}

Terminal == {"succeeded", "failed", "cancelled"}

\* The states in which hooks or Java processes may be in flight.
Running == {"before_hooks", "converting", "after_hooks"}

isTerminal(s) == s \in Terminal

\* TRANSITIONS[from]: the states an assertTransition(from, to) lets through.
TRANSITIONS ==
    [idle         |-> {"loading"},
     loading      |-> {"ready", "failed", "cancelled"},
     ready        |-> {"before_hooks", "converting", "cancelled", "loading"},
     before_hooks |-> {"converting", "failed", "cancelled"},
     converting   |-> {"after_hooks", "failed", "cancelled"},
     after_hooks  |-> {"succeeded", "failed", "cancelled"},
     succeeded    |-> {"idle", "loading"},
     failed       |-> {"idle", "loading"},
     cancelled    |-> {"idle", "loading"}]

canTransition(from, to) == to \in TRANSITIONS[from]

\* One synchronous piece of code may call transition() several times: the
\* hops of path, the first one taken from state s, all pass assertTransition.
LegalPath(s, path) ==
    \A i \in 1..Len(path) :
        canTransition(IF i = 1 THEN s ELSE path[i - 1], path[i])

=============================================================================
