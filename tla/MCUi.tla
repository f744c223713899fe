-------------------------------- MODULE MCUi --------------------------------
(***************************************************************************)
(* The modules of what the user sees, explored one at a time: they share   *)
(* no variable, so the states of all are the states of each.  part says    *)
(* which one moves; the others stay in one of their initial states.        *)
(***************************************************************************)
EXTENDS TreeState, SessionStore, LogFlow, LogSink, DialogFlow

VARIABLE part

\* A folder with an item and a folder of two: a cascade of two levels.
MCUp == <<0, 1, 1, 3>>
MCItems == {2, 4}

TreeRests == TreeInit /\ ~everLocked
StoreRests == StoreInit /\ shown = Nothing
LogRests == LogInit /\ last = 0

UiInit ==
    /\ SinkInit /\ DialogInit
    /\ \/ part = "tree" /\ TreeInit /\ StoreRests /\ LogRests
       \/ part = "store" /\ TreeRests /\ StoreInit /\ LogRests
       \/ part = "log" /\ TreeRests /\ StoreRests /\ LogInit
       \/ part \in {"sink", "dialogs"} /\ TreeRests /\ StoreRests /\ LogRests

UiNext ==
    /\ part' = part
    /\ \/ part = "tree" /\ TreeNext /\ UNCHANGED <<storeVars, logVars, sinkVars, dialogVars>>
       \/ part = "store" /\ StoreNext /\ UNCHANGED <<treeVars, logVars, sinkVars, dialogVars>>
       \/ part = "log" /\ LogNext /\ UNCHANGED <<treeVars, storeVars, sinkVars, dialogVars>>
       \/ part = "sink" /\ SinkNext /\ UNCHANGED <<treeVars, storeVars, logVars, dialogVars>>
       \/ part = "dialogs" /\ DialogNext /\ UNCHANGED <<treeVars, storeVars, logVars, sinkVars>>

uiVars == <<part, treeVars, storeVars, logVars, sinkVars, dialogVars>>

UiSpec == UiInit /\ [][UiNext]_uiVars

\* The type invariants of the five modules.
UiTypeOK == TreeTypeOK /\ StoreTypeOK /\ LogTypeOK /\ SinkTypeOK /\ DialogTypeOK

\* What reaches the UI by events, the log and the dialogs, is what the backend
\* has (session-store.ts:1028).
EventsFollowed == LogFollowed /\ DialogsFollow
=============================================================================
