----------------------------- MODULE TreeState -----------------------------
(***************************************************************************)
(* tree-state.ts: the selection of the loaded configuration, with the      *)
(* mirror a script works on (node-mirror.ts) and the copy the UI shows     *)
(* (session-store.ts).                                                     *)
(*                                                                         *)
(* A version is only ever compared with the one a copy was taken at, so a  *)
(* copy is either of the current version or stale; Session has the         *)
(* numbers.  What a stale copy holds no longer matters: its batch is       *)
(* refused whole.                                                          *)
(***************************************************************************)
EXTENDS SelectionTree

VARIABLES tree,       \* the backend's SelectionTree
          locked,     \* unselectable items: the keys of matrixBlocked
          remembered, \* data.option.auto_select of the locked items: that of
                      \* the others is overwritten before it is read
          script,     \* the mirror of the script that is running, if any
          display,    \* the tree the UI shows (it knows no intents)
          everLocked  \* history: a matrix has locked something since the load

treeVars == <<tree, locked, remembered, script, display, everLocked>>

NoScript == [phase |-> "none"]
StaleScript == [phase |-> "stale"]
StaleDisplay == <<>>

Running == script.phase = "fresh"

TreeTypeOK ==
    /\ tree \in Trees
    /\ locked \subseteq Items
    /\ remembered \in [locked -> BOOLEAN]
    /\ script.phase \in {"none", "stale", "fresh"}
    /\ Running => script.mirror \in Trees /\ script.moved \subseteq Nodes
    /\ display \in {StaleDisplay} \cup Trees
    /\ everLocked \in BOOLEAN

(***************************************************************************)
(* The matrix.  A rule that every item must match leaves some denied.      *)
(***************************************************************************)

\* Mutant: the choice is looked at after it has been cleared.
Imposed_ClearsFirst(st, denied) ==
    LET upTo[n \in 0..NodeCount] ==
          IF n = 0 THEN st
          ELSE LET s == upTo[n - 1]
               IN IF n \notin denied THEN s
                  ELSE [tree |-> SetSelected(s.tree, s.locked, n, FALSE),
                        locked |-> s.locked \cup {n},
                        remembered |-> [i \in s.locked \cup {n} |->
                                          IF i = n THEN FALSE ELSE s.remembered[i]]]
    IN upTo[NodeCount]

\* applyMatrixEligibility, item by item: remember the choice, clear it, lock.
Imposed(st, denied) ==
    LET upTo[n \in 0..NodeCount] ==
          IF n = 0 THEN st
          ELSE LET s == upTo[n - 1]
               IN IF n \notin denied THEN s
                  ELSE [tree |-> SetSelected(s.tree, s.locked, n, FALSE),
                        locked |-> s.locked \cup {n},
                        remembered |-> [i \in s.locked \cup {n} |->
                                          IF i = n THEN s.tree[n].selected ELSE s.remembered[i]]]
    IN upTo[NodeCount]

\* The loop of replaceMatrixEligibility that gives every locked item back.
Released(st) ==
    LET upTo[n \in 0..NodeCount] ==
          IF n = 0 THEN st
          ELSE LET s == upTo[n - 1]
                   kept == s.locked \ {n}
               IN IF n \notin st.locked THEN s
                  ELSE [tree |-> SetSelected(s.tree, kept, n, s.remembered[n]),
                        locked |-> kept,
                        remembered |-> [i \in kept |-> s.remembered[i]]]
    IN upTo[NodeCount]

Blank == [n \in Nodes |-> [selected |-> FALSE, partsel |-> FALSE, intent |-> FALSE]]

\* A new version: the mirror in use and the copy of the UI are stale.
Outdate ==
    /\ script' = IF script.phase = "none" THEN NoScript ELSE StaleScript
    /\ display' = StaleDisplay

\* The constructor: nothing is selected, then the matrix of the file applies.
TreeInit ==
    \E denied \in SUBSET Items :
       LET st == Imposed([tree |-> Rebuilt(Blank, {}), locked |-> {},
                          remembered |-> [i \in {} |-> FALSE]], denied)
       IN /\ tree = st.tree
          /\ locked = st.locked
          /\ remembered = st.remembered
          /\ everLocked = (denied # {})
          /\ script = NoScript
          /\ display = StaleDisplay

ReplaceMatrix ==
    \E denied \in SUBSET Items :
       LET st == Imposed(Released([tree |-> tree, locked |-> locked,
                                   remembered |-> remembered]), denied)
       IN /\ tree' = st.tree
          /\ locked' = st.locked
          /\ remembered' = st.remembered
          /\ everLocked' = (everLocked \/ denied # {})
          /\ Outdate

(***************************************************************************)
(* Batches of the UI: one op each, stamped with the version of its copy.   *)
(* The report's stateChanges patch the copy in place.                      *)
(***************************************************************************)
\* applyStateChanges: the nodes that changed are made anew, and those above them.
StateChangesApplied(nodes, changes) ==
    [n \in Nodes |->
        IF n \in DOMAIN changes
        THEN [nodes[n] EXCEPT !.selected = changes[n].selected, !.partsel = changes[n].partsel]
        ELSE nodes[n]]

UiBatch(u) ==
    /\ display # StaleDisplay
    /\ tree' = u
    /\ LET changes == Recorded(tree, u)
       IN /\ display' = StateChangesApplied(display, changes)
          /\ script' = IF DOMAIN changes # {} /\ Running THEN StaleScript ELSE script
    /\ UNCHANGED <<locked, remembered, everLocked>>

\* findNode: the UI sends nothing for a node that it shows as unselectable.
Clickable(n) == display # StaleDisplay /\ n \notin locked

UiSetSelected(n, flag) == Clickable(n) /\ UiBatch(SetSelected(tree, locked, n, flag))

UiToggle(n) == Clickable(n) /\ UiBatch(ToggleSelected(tree, locked, n))

UiSelectAll(flag) == UiBatch(SetEverything(tree, locked, flag))

\* buildSnapshot: the tree as it is now, without the intents.
LiveSnapshot == [n \in Nodes |-> [tree[n] EXCEPT !.intent = FALSE]]

\* refreshSnapshot: also what the UI does when a stale batch was refused.
UiRefresh ==
    /\ display' = LiveSnapshot
    /\ UNCHANGED <<tree, locked, remembered, script, everLocked>>

(***************************************************************************)
(* Selectors and button actions are made of the current version: the       *)
(* matched items are set one after the other.                              *)
(***************************************************************************)
SetEach(t, items, flag) ==
    LET upTo[n \in 0..NodeCount] ==
          IF n = 0 THEN t
          ELSE IF n \in items THEN SetSelected(upTo[n - 1], locked, n, flag)
          ELSE upTo[n - 1]
    IN upTo[NodeCount]

BackendBatch(u) ==
    /\ tree' = u
    /\ IF DOMAIN Recorded(tree, u) # {} THEN Outdate ELSE UNCHANGED <<script, display>>
    /\ UNCHANGED <<locked, remembered, everLocked>>

SelectMatched == \E items \in SUBSET Items, flag \in BOOLEAN :
                    BackendBatch(SetEach(tree, items, flag))

ButtonSelectsAll == \E flag \in BOOLEAN : BackendBatch(SetEverything(tree, locked, flag))

(***************************************************************************)
(* A script: buildMirror on a snapshot, calls on its nodes, and a batch of *)
(* what was recorded (collectOps) when it completes.  A later state of a   *)
(* node wins when the ops are stamped in order, so the batch is the        *)
(* mirror's state of the nodes that have moved.                            *)
(***************************************************************************)
ScriptStarts ==
    /\ script.phase = "none"
    /\ script' = [phase |-> "fresh", mirror |-> Rebuilt(LiveSnapshot, locked), moved |-> {}]
    /\ UNCHANGED <<tree, locked, remembered, display, everLocked>>

\* Mutant: only the changes of the last call are kept.
MirrorBecomes_LastOnly(u) ==
    /\ script' = [script EXCEPT !.mirror = u, !.moved = DOMAIN Recorded(script.mirror, u)]
    /\ UNCHANGED <<tree, locked, remembered, display, everLocked>>

MirrorBecomes(u) ==
    /\ script' = [script EXCEPT !.mirror = u,
                                !.moved = @ \cup DOMAIN Recorded(script.mirror, u)]
    /\ UNCHANGED <<tree, locked, remembered, display, everLocked>>

ScriptSetsSelected(n, flag) ==
    Running /\ MirrorBecomes(SetSelected(script.mirror, locked, n, flag))

ScriptToggles(n) == Running /\ MirrorBecomes(ToggleSelected(script.mirror, locked, n))

ScriptChanges ==
    [n \in script.moved |-> [selected |-> script.mirror[n].selected,
                             partsel |-> script.mirror[n].partsel]]

\* applyScriptOps of a batch of the current version.  It may also set auto_select
\* and touch what no selection depends on (expanded, fields).
ScriptCompletes ==
    /\ Running
    /\ script' = NoScript
    /\ tree' = Stamped(tree, ScriptChanges)
    /\ \E options \in [locked -> BOOLEAN], touched \in BOOLEAN :
          /\ remembered' = options
          /\ display' = IF script.moved # {} \/ options # remembered \/ touched
                        THEN StaleDisplay ELSE display
    /\ UNCHANGED <<locked, everLocked>>

\* A batch of an older version is refused whole.
ScriptRefused ==
    /\ script.phase = "stale"
    /\ script' = NoScript
    /\ UNCHANGED <<tree, locked, remembered, display, everLocked>>

TreeNext ==
    \/ ReplaceMatrix
    \/ \E n \in Nodes, flag \in BOOLEAN : UiSetSelected(n, flag)
    \/ \E n \in Nodes : UiToggle(n)
    \/ \E flag \in BOOLEAN : UiSelectAll(flag)
    \/ UiRefresh
    \/ SelectMatched
    \/ ButtonSelectsAll
    \/ ScriptStarts
    \/ \E n \in Nodes, flag \in BOOLEAN : ScriptSetsSelected(n, flag)
    \/ \E n \in Nodes : ScriptToggles(n)
    \/ ScriptCompletes
    \/ ScriptRefused

TreeSpec == TreeInit /\ [][TreeNext]_treeVars

-----------------------------------------------------------------------------
\* Properties.

SameSelection(t, u) == DOMAIN Recorded(t, u) = {}

\* Patching the UI's copy with the changes of a report gives the backend's
\* tree, node for node, however far the cascade went (tree-state.ts:38,
\* session-store.ts:445): the UI needs a snapshot only after somebody else
\* has changed the tree.
DisplayFollows == display # StaleDisplay => SameSelection(display, tree)

\* The changes a script has recorded, stamped on the backend's tree, select
\* exactly the items the script sees selected, although they are only what
\* moved in a tree the worker has rebuilt by itself (node-mirror.ts:442,
\* tree-model.ts:222).
ScriptEditsLand ==
    Running => SelectedItems(Stamped(tree, ScriptChanges)) = SelectedItems(script.mirror)

\* As long as no matrix has locked an item, the tree of the backend is the one
\* a worker rebuilds: every folder says what its items say, after any mixture
\* of clicks, batches and stamped scripts (tree-model.ts:124).
FoldersTellTheItems == everLocked \/ SameSelection(Rebuilt(tree, {}), tree)

\* Both: every tree that is looked at tells what the items say.
TreeTellsTheItems == DisplayFollows /\ FoldersTellTheItems

ScriptEnds == Running /\ script'.phase = "none"

\* Replacing a matrix gives an item back as it was when it was locked, or as a
\* script has asked since, and keeps that choice for an item that stays
\* locked (tree-state.ts:206, 222).
ChoiceSurvivesLock ==
    [][\A i \in locked :
          IF i \in locked' THEN ScriptEnds \/ remembered'[i] = remembered[i]
          ELSE tree'[i].selected = remembered[i]]_treeVars

\* A locked item is never part of the selection (tree-model.test.ts:87-91).
LockedStaysOut == locked \cap SelectedItems(tree) = {}
=============================================================================
