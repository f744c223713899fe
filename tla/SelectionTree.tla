--------------------------- MODULE SelectionTree ---------------------------
(***************************************************************************)
(* The three-state selection of tree-model.ts as operators on a tree.      *)
(* The backend's SessionTreeState and the NodeMirror of a script worker    *)
(* both use this code.                                                     *)
(*                                                                         *)
(* Nodes are numbered in document order, so Up[n] < n and 0 is the root    *)
(* above the top-level nodes.  A tree is a function from nodes to records; *)
(* titles, item payloads and the expanded flag are left out.  Only items   *)
(* ever become unselectable; locked is the set of those that are.          *)
(***************************************************************************)
EXTENDS Naturals

CONSTANTS NodeCount, \* number of nodes
          Up,        \* the parent of each node, 0 for a top-level node
          Items      \* the nodes that stand for an item

Nodes == 1..NodeCount

Children(n) == {c \in Nodes : Up[c] = n}

ASSUME TreeShape ==
    /\ NodeCount \in Nat
    /\ Up \in [Nodes -> 0..NodeCount]
    /\ \A n \in Nodes : Up[n] < n
    /\ Items \subseteq {n \in Nodes : Children(n) = {}}

NodeStates == [selected : BOOLEAN, partsel : BOOLEAN, intent : BOOLEAN]

Trees == [Nodes -> NodeStates]

\* The ancestors of a node, and a node with its descendants.
Above[n \in Nodes] == IF Up[n] = 0 THEN {} ELSE {Up[n]} \cup Above[Up[n]]

Below == [n \in Nodes |-> {m \in Nodes : m = n \/ n \in Above[m]}]

(***************************************************************************)
(* changeSelectStatusAttrs: the three states and their two flags.          *)
(***************************************************************************)
Marked(node, status) ==
    [node EXCEPT !.selected = (status = "all"), !.partsel = (status # "none")]

StatusOf(node) ==
    IF node.selected THEN "all" ELSE IF node.partsel THEN "some" ELSE "none"

\* What a folder shows for the states of the children that count.
Verdict(states) ==
    IF states \subseteq {"all"} THEN "all"
    ELSE IF states \subseteq {"none"} THEN "none" ELSE "some"

Countable(n, locked) == Children(n) \ locked

(***************************************************************************)
(* fixFromEndNodes: walk() rewrites a node and what is below it from the   *)
(* end nodes, then every ancestor is computed from its children.           *)
(***************************************************************************)
\* A node is all (none) when every end node that counts below it is.
EndStatus(t, locked) ==
    LET ends == {m \in Nodes : Countable(m, locked) = {}}
        own == [m \in ends |-> IF t[m].selected THEN "all" ELSE "none"]
    IN [n \in Nodes |->
          Verdict({own[m] : m \in {e \in ends \cap Below[n] : e = n \/ e \notin locked}})]

FixBelow(t, locked, n) ==
    LET status == EndStatus(t, locked)
        reached == {n} \cup (Below[n] \ locked)
    IN [m \in Nodes |-> IF m \in reached THEN Marked(t[m], status[m]) ELSE t[m]]

FixAbove(t, locked, n) ==
    LET fixed[m \in Nodes] ==
          IF m \in Above[n] /\ Countable(m, locked) # {}
          THEN Marked(t[m], Verdict({StatusOf(fixed[c]) : c \in Countable(m, locked)}))
          ELSE t[m]
    IN fixed

\* Mutant: the folders above are not computed again.
Cascade_FixesBelow(t, locked, n, nodes, flag) ==
    FixBelow([m \in Nodes |->
                 IF m \in nodes THEN Marked(t[m], IF flag THEN "all" ELSE "none") ELSE t[m]],
             locked, n)

Cascade(t, locked, n, nodes, flag) ==
    LET marked == [m \in Nodes |->
                     IF m \in nodes
                     THEN Marked(t[m], IF flag THEN "all" ELSE "none") ELSE t[m]]
    IN FixAbove(FixBelow(marked, locked, n), locked, n)

\* lastSelectIntent is looked at in a half selected node only, so the intent of
\* a node without children is left FALSE.
Meant(t, n, flag) == IF Children(n) = {} THEN t ELSE [t EXCEPT ![n].intent = flag]

\* applySetSelected: an unselectable node ignores it, and so does the cascade.
SetSelected(t, locked, n, flag) ==
    LET meant == Meant(t, n, flag)
    IN IF n \in locked THEN t
       ELSE IF t[n].selected = flag /\ ~(t[n].partsel /\ ~flag) THEN meant
       ELSE Cascade(meant, locked, n, Below[n] \ locked, flag)

\* applyToggleSelected: its cascade takes unselectable descendants along.
ToggleSelected(t, locked, n) ==
    LET resumed == t[n].partsel /\ ~t[n].selected /\ t[n].intent
        flag == ~t[n].selected /\ ~resumed
        meant == [Meant(t, n, flag) EXCEPT ![n].selected = @ \/ resumed]
    IN IF n \in locked THEN meant ELSE Cascade(meant, locked, n, Below[n], flag)

\* select_all and select_none: applySetSelected on every node in document order.
SetEverything(t, locked, flag) ==
    LET upTo[n \in 0..NodeCount] ==
          IF n = 0 THEN t ELSE SetSelected(upTo[n - 1], locked, n, flag)
    IN upTo[NodeCount]

\* What ChangeTracker has recorded when t has become u.
Recorded(t, u) ==
    LET moved == {n \in Nodes : t[n].selected # u[n].selected \/ t[n].partsel # u[n].partsel}
    IN [n \in moved |-> [selected |-> u[n].selected, partsel |-> u[n].partsel]]

\* applyNodeStates, and applyStateChanges of the UI: absolute states.
Stamped(t, changes) ==
    [n \in Nodes |->
        IF n \in DOMAIN changes
        THEN [t[n] EXCEPT !.selected = changes[n].selected, !.partsel = changes[n].partsel]
        ELSE t[n]]

\* The constructor on a snapshot of t: the intent is not in the snapshot, and
\* every top-level node is fixed from its end nodes.
Rebuilt(t, locked) ==
    LET copied == [n \in Nodes |-> [t[n] EXCEPT !.intent = Children(n) # {} /\ t[n].selected]]
        status == EndStatus(copied, locked)
    IN [n \in Nodes |-> IF n \in locked /\ Up[n] # 0 THEN copied[n]
                        ELSE Marked(copied[n], status[n])]

SelectedItems(t) == {i \in Items : t[i].selected}
=============================================================================
