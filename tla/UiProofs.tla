------------------------------ MODULE UiProofs ------------------------------
(***************************************************************************)
(* Proofs about what the user sees: TreeState, LogSink, DialogFlow, and    *)
(* what MCUi says of them and of LogFlow.                                  *)
(***************************************************************************)
EXTENDS MCUi, StoreProofs

-----------------------------------------------------------------------------
(* The tree: ancestors and descendants.                                     *)

LEMMA Shape ==
    /\ NodeCount \in Nat /\ Nodes \subseteq Nat
    /\ \A n \in Nodes : Up[n] \in 0..NodeCount /\ Up[n] < n /\ (Up[n] = 0 \/ Up[n] \in Nodes)
    /\ \A n \in Nodes : Up[n] # 0 => n \in Children(Up[n])
    /\ \A m \in Nodes : \A c \in Children(m) : c \in Nodes /\ Up[c] = m /\ m < c
    /\ \A i \in Items : i \in Nodes /\ Children(i) = {}
BY TreeShape DEF Nodes, Children

AboveStep(f, n) == IF Up[n] = 0 THEN {} ELSE {Up[n]} \cup f[Up[n]]

LEMMA AboveIs ==
    /\ Above \in [Nodes -> SUBSET Nodes]
    /\ \A n \in Nodes : Above[n] = IF Up[n] = 0 THEN {} ELSE {Up[n]} \cup Above[Up[n]]
<1> DEFINE Good(f, k) == f \in [Nodes -> SUBSET Nodes]
                         /\ \A n \in Nodes : n <= k => f[n] = AboveStep(f, n)
           P == {k \in 0..NodeCount : \E f : Good(f, k)}
<1>1. 0 \in P
  <2>1. Good([n \in Nodes |-> {}], 0)
    BY Shape DEF Nodes
  <2> HIDE DEF Good
  <2> QED
    BY <2>1, Shape
<1>2. ASSUME NEW k \in 1..NodeCount, k - 1 \in P PROVE k \in P
  <2>1. PICK f : Good(f, k - 1)
    BY <1>2
  <2>2. k \in Nodes /\ k \in Nat
    BY DEF Nodes
  <2>3. AboveStep(f, k) \in SUBSET Nodes
    BY <2>1, <2>2, Shape DEF AboveStep
  <2> DEFINE g == [f EXCEPT ![k] = AboveStep(f, k)]
  <2>4. g \in [Nodes -> SUBSET Nodes] /\ g[k] = AboveStep(f, k)
        /\ \A n \in Nodes : n # k => g[n] = f[n]
    BY <2>1, <2>2, <2>3
  <2> HIDE DEF g
  <2>5. ASSUME NEW n \in Nodes, n <= k PROVE g[n] = AboveStep(g, n)
    <3>1. Up[n] # 0 => Up[n] \in Nodes /\ Up[n] # k
      BY <2>2, <2>5, Shape
    <3>2. AboveStep(g, n) = AboveStep(f, n)
      BY <3>1, <2>4 DEF AboveStep
    <3>3. n # k => n <= k - 1
      BY <2>2, <2>5, Shape
    <3> QED
      BY <3>2, <3>3, <2>1, <2>4
  <2>6. Good(g, k)
    BY <2>4, <2>5
  <2> HIDE DEF Good
  <2>7. \E h : Good(h, k)
    BY <2>6
  <2> QED
    BY <2>7
<1>3. \A k \in 0..NodeCount : k \in P
  <2> HIDE DEF P
  <2> QED
    BY <1>1, <1>2, Induct, Shape
<1>4. PICK f : Good(f, NodeCount)
  BY <1>3, Shape
<1>5. f = [n \in Nodes |-> AboveStep(f, n)]
  BY <1>4, Shape DEF Nodes
<1>6. f = [n \in Nodes |-> IF Up[n] = 0 THEN {} ELSE {Up[n]} \cup f[Up[n]]]
  BY <1>5 DEF AboveStep
<1>7. Above = [n \in Nodes |-> IF Up[n] = 0 THEN {} ELSE {Up[n]} \cup Above[Up[n]]]
  BY <1>6, Zenon DEF Above
<1>8. \A n \in Nodes : Above[n] = IF Up[n] = 0 THEN {} ELSE {Up[n]} \cup Above[Up[n]]
  BY <1>7
<1> DEFINE Q == {k \in 0..NodeCount : \A n \in Nodes : n <= k => Above[n] \in SUBSET Nodes}
<1>9. 0 \in Q
  BY Shape DEF Nodes
<1>10. ASSUME NEW k \in 1..NodeCount, k - 1 \in Q PROVE k \in Q
  <2>1. ASSUME NEW n \in Nodes, n <= k PROVE Above[n] \in SUBSET Nodes
    <3>1. Up[n] # 0 => Up[n] \in Nodes /\ Up[n] <= k - 1
      BY <2>1, Shape
    <3> QED
      BY <3>1, <1>8, <1>10
  <2> QED
    BY <2>1
<1>11. \A k \in 0..NodeCount : k \in Q
  <2> HIDE DEF Q
  <2> QED
    BY <1>9, <1>10, Induct, Shape
<1>12. NodeCount \in Q /\ \A n \in Nodes : n <= NodeCount
  BY <1>11, Shape DEF Nodes
<1>13. \A n \in Nodes : Above[n] \in SUBSET Nodes
  BY <1>12
<1> QED
  BY <1>7, <1>8, <1>13

\* A node is above another through one of its children.
LEMMA AboveByChild ==
    ASSUME NEW m \in Nodes, NEW e \in Nodes
    PROVE  /\ m \in Above[e] <=> \E c \in Children(m) : e = c \/ c \in Above[e]
           /\ m \in Above[e] => m < e
<1> DEFINE By(d) == \E c \in Children(m) : d = c \/ c \in Above[d]
           Chain(d) == \A c \in Above[d] : Up[c] = 0 \/ Up[c] \in Above[d]
           Good(d) == (m \in Above[d] => By(d) /\ m < d) /\ Chain(d)
           P == {k \in 0..NodeCount : \A d \in Nodes : d <= k => Good(d)}
<1>1. 0 \in P
  BY Shape DEF Nodes
<1>2. ASSUME NEW k \in 1..NodeCount, k - 1 \in P PROVE k \in P
  <2>1. ASSUME NEW d \in Nodes, d <= k PROVE Good(d)
    <3>1. CASE Up[d] = 0
      BY <3>1, AboveIs
    <3>2. CASE Up[d] # 0
      <4>1. Up[d] \in Nodes /\ Up[d] <= k - 1 /\ Up[d] < d /\ d \in Nat /\ Up[d] \in Nat /\ m \in Nat
        BY <2>1, <3>2, Shape
      <4>1a. Up[Up[d]] = 0 \/ Up[Up[d]] \in Above[Up[d]]
        BY <4>1, AboveIs
      <4>2. Above[d] = {Up[d]} \cup Above[Up[d]]
        BY <3>2, AboveIs
      <4>3. Good(Up[d])
        BY <4>1, <1>2
      <4>4. d \in Children(Up[d])
        BY <3>2, Shape
      <4>5. CASE m = Up[d]
        <5>1. By(d)
          BY <4>4, <4>5
        <5>2. Chain(d)
          BY <4>1a, <4>2, <4>3
        <5> QED
          BY <5>1, <5>2, <4>1, <4>5
      <4>6. CASE m # Up[d]
        <5>1. m \in Above[d] => By(d)
          BY <4>2, <4>3, <4>6
        <5>2. m \in Above[d] => m < d
          BY <4>1, <4>2, <4>3, <4>6
        <5>3. Chain(d)
          BY <4>1a, <4>2, <4>3
        <5> QED
          BY <5>1, <5>2, <5>3
      <4> QED
        BY <4>5, <4>6
    <3> QED
      BY <3>1, <3>2
  <2> HIDE DEF Good
  <2> QED
    BY <2>1
<1>3. \A k \in 0..NodeCount : k \in P
  <2> HIDE DEF P
  <2> QED
    BY <1>1, <1>2, Induct, Shape
<1>4. NodeCount \in P /\ e <= NodeCount
  BY <1>3, Shape DEF Nodes
<1>5. Good(e)
  <2> HIDE DEF Good
  <2> QED
    BY <1>4
<1>6. ASSUME NEW c \in Children(m), e = c \/ c \in Above[e] PROVE m \in Above[e]
  <2>1. c \in Nodes /\ Up[c] = m /\ m # 0
    BY Shape DEF Nodes
  <2>2. CASE e = c
    BY <2>1, <2>2, AboveIs
  <2>3. CASE c \in Above[e]
    BY <2>1, <2>3, <1>5
  <2> QED
    BY <1>6, <2>2, <2>3
<1> QED
  BY <1>5, <1>6

-----------------------------------------------------------------------------
(* Operations keep a tree a tree.                                           *)

LEMMA MarkedIs ==
    ASSUME NEW node \in NodeStates, NEW status
    PROVE  /\ Marked(node, status) \in NodeStates
           /\ Marked(node, status).selected = (status = "all")
           /\ Marked(node, status).partsel = (status # "none")
           /\ Marked(node, status).intent = node.intent
BY DEF NodeStates, Marked

FixStep(t, f, L, n, m) ==
    IF m \in Above[n] /\ Countable(m, L) # {}
    THEN Marked(t[m], Verdict({StatusOf(f[c]) : c \in Countable(m, L)})) ELSE t[m]

LEMMA FixStepType ==
    ASSUME NEW t \in Trees, NEW f, NEW L, NEW n, NEW m \in Nodes
    PROVE  FixStep(t, f, L, n, m) \in NodeStates
<1>1. t[m] \in NodeStates
  BY DEF Trees
<1> QED
  BY <1>1, MarkedIs DEF FixStep

\* The folders above are computed from what their children have become.
LEMMA FixAboveIs ==
    ASSUME NEW t \in Trees, NEW L, NEW n \in Nodes
    PROVE  /\ FixAbove(t, L, n) \in Trees
           /\ \A m \in Nodes : FixAbove(t, L, n)[m] = FixStep(t, FixAbove(t, L, n), L, n, m)
<1> DEFINE Good(f, k) == /\ f \in Trees
                         /\ \A m \in Nodes : m > NodeCount - k => f[m] = FixStep(t, f, L, n, m)
           P == {k \in 0..NodeCount : \E f : Good(f, k)}
<1>1. 0 \in P
  <2>1. Good(t, 0)
    BY Shape DEF Nodes
  <2> HIDE DEF Good
  <2> QED
    BY <2>1, Shape
<1>2. ASSUME NEW k \in 1..NodeCount, k - 1 \in P PROVE k \in P
  <2>1. PICK f : Good(f, k - 1)
    BY <1>2
  <2> DEFINE m0 == NodeCount - k + 1
  <2>2. m0 \in Nodes /\ m0 \in Nat
    BY Shape DEF Nodes
  <2>2a. \A m \in Nodes : m > NodeCount - k => m = m0 \/ (m > NodeCount - (k - 1) /\ m > m0)
    BY Shape DEF Nodes
  <2> HIDE DEF m0
  <2>3. FixStep(t, f, L, n, m0) \in NodeStates
    BY <2>2, FixStepType
  <2> DEFINE g == [f EXCEPT ![m0] = FixStep(t, f, L, n, m0)]
  <2>4. g \in Trees /\ g[m0] = FixStep(t, f, L, n, m0)
        /\ \A m \in Nodes : m # m0 => g[m] = f[m]
    BY <2>1, <2>2, <2>3 DEF Trees
  <2> HIDE DEF g
  <2>5. ASSUME NEW m \in Nodes, m > NodeCount - k PROVE g[m] = FixStep(t, g, L, n, m)
    <3>1. \A c \in Countable(m, L) : c \in Nodes /\ c # m0
      <4>1. ASSUME NEW c \in Countable(m, L) PROVE c \in Nodes /\ c > m
        BY Shape DEF Countable
      <4>2. m >= m0 /\ m \in Nat /\ \A c \in Nodes : c \in Nat
        BY <2>2, <2>2a, <2>5, Shape
      <4> QED
        BY <4>1, <4>2, <2>2
    <3>2. {StatusOf(g[c]) : c \in Countable(m, L)} = {StatusOf(f[c]) : c \in Countable(m, L)}
      BY <3>1, <2>4
    <3>3. FixStep(t, g, L, n, m) = FixStep(t, f, L, n, m)
      BY <3>2 DEF FixStep
    <3>4. CASE m = m0
      BY <3>3, <3>4, <2>4
    <3>5. CASE m # m0
      <4>1. m > NodeCount - (k - 1)
        BY <2>2a, <2>5, <3>5
      <4>2. f[m] = FixStep(t, f, L, n, m)
        BY <4>1, <2>1
      <4> QED
        BY <3>3, <3>5, <4>2, <2>4
    <3> QED
      BY <3>4, <3>5
  <2>6. Good(g, k)
    BY <2>4, <2>5
  <2> HIDE DEF Good
  <2>7. \E h : Good(h, k)
    BY <2>6
  <2> QED
    BY <2>7
<1>3. \A k \in 0..NodeCount : k \in P
  <2> HIDE DEF P
  <2> QED
    BY <1>1, <1>2, Induct, Shape
<1>4. PICK f : Good(f, NodeCount)
  BY <1>3, Shape
<1>5. f = [m \in Nodes |-> FixStep(t, f, L, n, m)]
  BY <1>4, Shape DEF Nodes, Trees
<1> DEFINE F == CHOOSE f1 : f1 = [m \in Nodes |-> FixStep(t, f1, L, n, m)]
<1>6. F = [m \in Nodes |-> FixStep(t, F, L, n, m)]
  BY <1>5, Zenon
<1>7. FixAbove(t, L, n) = F
  BY Zenon DEF FixAbove, FixStep
<1> HIDE DEF F
<1>8. \A m \in Nodes : F[m] = FixStep(t, F, L, n, m)
  BY <1>6
<1>9. F \in Trees
  <2>1. \A m \in Nodes : FixStep(t, F, L, n, m) \in NodeStates
    BY FixStepType
  <2> QED
    BY <1>6, <2>1 DEF Trees
<1> QED
  BY <1>7, <1>8, <1>9

LEMMA FixBelowIs ==
    ASSUME NEW t \in Trees, NEW L, NEW n \in Nodes
    PROVE  /\ FixBelow(t, L, n) \in Trees
           /\ \A m \in Nodes : FixBelow(t, L, n)[m] =
                 IF m = n \/ (m \in Below[n] /\ m \notin L)
                 THEN Marked(t[m], EndStatus(t, L)[m]) ELSE t[m]
<1>1. \A m \in Nodes : t[m] \in NodeStates /\ Marked(t[m], EndStatus(t, L)[m]) \in NodeStates
  BY MarkedIs DEF Trees
<1>2. Below[n] \subseteq Nodes
  BY DEF Below
<1> QED
  BY <1>1, <1>2 DEF FixBelow, Trees

MarkedAll(t, nodes, flag) ==
    [m \in Nodes |-> IF m \in nodes THEN Marked(t[m], IF flag THEN "all" ELSE "none") ELSE t[m]]

LEMMA MarkedAllIs ==
    ASSUME NEW t \in Trees, NEW nodes, NEW flag
    PROVE  MarkedAll(t, nodes, flag) \in Trees
<1>1. \A m \in Nodes : t[m] \in NodeStates
        /\ Marked(t[m], IF flag THEN "all" ELSE "none") \in NodeStates
  BY MarkedIs DEF Trees
<1> QED
  BY <1>1 DEF MarkedAll, Trees

LEMMA CascadeIs ==
    ASSUME NEW t \in Trees, NEW L, NEW n \in Nodes, NEW nodes, NEW flag
    PROVE  /\ Cascade(t, L, n, nodes, flag) =
                 FixAbove(FixBelow(MarkedAll(t, nodes, flag), L, n), L, n)
           /\ Cascade(t, L, n, nodes, flag) \in Trees
<1>1. Cascade(t, L, n, nodes, flag) =
         FixAbove(FixBelow(MarkedAll(t, nodes, flag), L, n), L, n)
  BY DEF Cascade, MarkedAll
<1> QED
  BY <1>1, MarkedAllIs, FixBelowIs, FixAboveIs

LEMMA MeantIs ==
    ASSUME NEW t \in Trees, NEW n \in Nodes, NEW flag, flag \in BOOLEAN \/ Children(n) = {}
    PROVE  /\ Meant(t, n, flag) \in Trees
           /\ \A m \in Nodes : Meant(t, n, flag)[m].selected = t[m].selected
                               /\ Meant(t, n, flag)[m].partsel = t[m].partsel
           /\ Children(n) = {} => Meant(t, n, flag) = t
BY DEF Meant, Trees, NodeStates

LEMMA SetSelectedType ==
    ASSUME NEW t \in Trees, NEW L, NEW n \in Nodes, NEW flag,
           flag \in BOOLEAN \/ Children(n) = {}
    PROVE  SetSelected(t, L, n, flag) \in Trees
<1>1. Meant(t, n, flag) \in Trees
  BY MeantIs
<1>2. Cascade(Meant(t, n, flag), L, n, Below[n] \ L, flag) \in Trees
  BY <1>1, CascadeIs
<1> QED
  BY <1>1, <1>2, Zenon DEF SetSelected

LEMMA ToggleSelectedType ==
    ASSUME NEW t \in Trees, NEW L, NEW n \in Nodes
    PROVE  ToggleSelected(t, L, n) \in Trees
<1> DEFINE resumed == t[n].partsel /\ ~t[n].selected /\ t[n].intent
           flag == ~t[n].selected /\ ~resumed
           meant == [Meant(t, n, flag) EXCEPT ![n].selected = @ \/ resumed]
<1>1. flag \in BOOLEAN
  OBVIOUS
<1>2. Meant(t, n, flag) \in Trees
  <2> HIDE DEF flag
  <2> QED
    BY <1>1, MeantIs
<1>3. resumed \in BOOLEAN
  OBVIOUS
<1> HIDE DEF flag, resumed
<1>4. meant \in Trees
  BY <1>2, <1>3 DEF Trees, NodeStates
<1> HIDE DEF meant
<1>5. Cascade(meant, L, n, Below[n], flag) \in Trees
  BY <1>4, CascadeIs
<1>6. ToggleSelected(t, L, n) = IF n \in L THEN meant ELSE Cascade(meant, L, n, Below[n], flag)
  BY Zenon DEF ToggleSelected, meant, flag, resumed
<1> QED
  BY <1>4, <1>5, <1>6

-----------------------------------------------------------------------------
(* The loops.                                                               *)

\* What a loop of SetSelected goes through.
SetLoop(f, t, L, items, flag) ==
    /\ f \in [0..NodeCount -> Trees] /\ f[0] = t
    /\ \A n \in Nodes : f[n] = IF n \in items THEN SetSelected(f[n - 1], L, n, flag) ELSE f[n - 1]

LEMMA SetLoopExists ==
    ASSUME NEW t \in Trees, NEW L, NEW items, NEW flag \in BOOLEAN
    PROVE  \E f : SetLoop(f, t, L, items, flag)
<1> DEFINE Step(u, n) == IF n \in items THEN SetSelected(u, L, n, flag) ELSE u
           F == [p \in Trees \X (1..NodeCount) |-> Step(p[1], p[2])]
<1>1. \A u \in Trees, n \in 1..NodeCount : Step(u, n) \in Trees
  BY SetSelectedType DEF Nodes
<1> HIDE DEF Step
<1>2. F \in [Trees \X (1..NodeCount) -> Trees]
  BY <1>1
<1>3. \A u \in Trees, n \in 1..NodeCount : F[<<u, n>>] = Step(u, n)
  OBVIOUS
<1> HIDE DEF F
<1>4. PICK f : Iterated(f, Trees, t, F, NodeCount)
  <2>1. NodeCount \in Nat
    BY Shape
  <2> QED
    BY <1>2, <2>1, Iterates, Zenon
<1>5. ASSUME NEW n \in Nodes PROVE f[n] = Step(f[n - 1], n)
  <2>1. n \in 1..NodeCount /\ n - 1 \in 0..NodeCount
    BY Shape DEF Nodes
  <2>2. f[n - 1] \in Trees
    BY <2>1, <1>4 DEF Iterated
  <2> QED
    BY <2>1, <2>2, <1>3, <1>4 DEF Iterated
<1> QED
  BY <1>4, <1>5 DEF SetLoop, Step, Iterated

LEMMA SetEverythingIs ==
    ASSUME NEW t \in Trees, NEW L, NEW flag \in BOOLEAN
    PROVE  \E f : SetLoop(f, t, L, Nodes, flag) /\ SetEverything(t, L, flag) = f[NodeCount]
<1> DEFINE Eq(f) == f = [n \in 0..NodeCount |->
                          IF n = 0 THEN t ELSE SetSelected(f[n - 1], L, n, flag)]
           F == CHOOSE f : Eq(f)
<1>1. PICK f : SetLoop(f, t, L, Nodes, flag)
  BY SetLoopExists
<1>2. Eq(f)
  BY <1>1 DEF SetLoop, Nodes
<1>3. Eq(F)
  <2> HIDE DEF Eq
  <2> QED
    BY <1>2, Zenon
<1>4. SetEverything(t, L, flag) = F[NodeCount]
  BY Zenon DEF SetEverything
<1> HIDE DEF F
<1>5. F[0] = t /\ \A n \in Nodes : F[n] = SetSelected(F[n - 1], L, n, flag)
  <2>1. \A n \in 0..NodeCount : F[n] = IF n = 0 THEN t ELSE SetSelected(F[n - 1], L, n, flag)
    BY <1>3
  <2>2. 0 \in 0..NodeCount /\ \A n \in Nodes : n \in 0..NodeCount /\ n # 0
    BY Shape DEF Nodes
  <2> QED
    BY <2>1, <2>2, Zenon
<1> DEFINE P == {n \in 0..NodeCount : F[n] \in Trees}
<1>6. \A n \in 1..NodeCount : n - 1 \in P => n \in P
  BY <1>5, SetSelectedType DEF Nodes
<1>7. 0 \in P
  BY <1>5, Shape
<1>8. \A n \in 0..NodeCount : n \in P
  <2> HIDE DEF P
  <2> QED
    BY <1>6, <1>7, Induct, Shape
<1>9. F \in [0..NodeCount -> Trees]
  BY <1>3, <1>8
<1>10. SetLoop(F, t, L, Nodes, flag)
  BY <1>5, <1>9 DEF SetLoop
<1> QED
  BY <1>4, <1>10

LEMMA SetEachIs ==
    ASSUME NEW t \in Trees, NEW items, NEW flag \in BOOLEAN
    PROVE  \E f : SetLoop(f, t, locked, items, flag) /\ SetEach(t, items, flag) = f[NodeCount]
<1> DEFINE Eq(f) == f = [n \in 0..NodeCount |->
                          IF n = 0 THEN t
                          ELSE IF n \in items THEN SetSelected(f[n - 1], locked, n, flag)
                          ELSE f[n - 1]]
           F == CHOOSE f : Eq(f)
<1>1. PICK f : SetLoop(f, t, locked, items, flag)
  BY SetLoopExists
<1>2. Eq(f)
  BY <1>1 DEF SetLoop, Nodes
<1>3. Eq(F)
  <2> HIDE DEF Eq
  <2> QED
    BY <1>2, Zenon
<1>4. SetEach(t, items, flag) = F[NodeCount]
  BY Zenon DEF SetEach
<1> HIDE DEF F
<1>5. F[0] = t /\ \A n \in Nodes : F[n] = IF n \in items THEN SetSelected(F[n - 1], locked, n, flag)
                                         ELSE F[n - 1]
  <2>1. \A n \in 0..NodeCount : F[n] = IF n = 0 THEN t ELSE IF n \in items THEN SetSelected(F[n - 1], locked, n, flag) ELSE F[n - 1]
    BY <1>3
  <2>2. 0 \in 0..NodeCount /\ \A n \in Nodes : n \in 0..NodeCount /\ n # 0
    BY Shape DEF Nodes
  <2> QED
    BY <2>1, <2>2, Zenon
<1> DEFINE P == {n \in 0..NodeCount : F[n] \in Trees}
<1>6. \A n \in 1..NodeCount : n - 1 \in P => n \in P
  BY <1>5, SetSelectedType DEF Nodes
<1>7. 0 \in P
  BY <1>5, Shape
<1>8. \A n \in 0..NodeCount : n \in P
  <2> HIDE DEF P
  <2> QED
    BY <1>6, <1>7, Induct, Shape
<1>9. F \in [0..NodeCount -> Trees]
  BY <1>3, <1>8
<1>10. SetLoop(F, t, locked, items, flag)
  BY <1>5, <1>9 DEF SetLoop
<1> QED
  BY <1>4, <1>10

\* An item that is set is set, and no other item is.
LEMMA ItemSelected ==
    ASSUME NEW t \in Trees, NEW L, NEW i \in Items, i \notin L, NEW flag \in BOOLEAN,
           NEW j \in Items
    PROVE  SetSelected(t, L, i, flag)[j].selected = IF j = i THEN flag ELSE t[j].selected
<1>1. i \in Nodes /\ j \in Nodes /\ Children(i) = {} /\ Children(j) = {}
  BY Shape
<1>2. Below[i] = {i}
  <2>1. ASSUME NEW m \in Nodes PROVE i \notin Above[m]
    BY <1>1, AboveByChild
  <2> QED
    BY <1>1, <2>1 DEF Below
<1>3. Countable(i, L) = {}
  BY <1>1 DEF Countable
<1> DEFINE u == MarkedAll(t, Below[i] \ L, flag)
           v == FixBelow(u, L, i)
           w == FixAbove(v, L, i)
<1>4. u \in Trees /\ v \in Trees /\ w \in Trees
  BY <1>1, MarkedAllIs, FixBelowIs, FixAboveIs
<1>5. u[j].selected = IF j = i THEN flag ELSE t[j].selected
  <2>1. t[j] \in NodeStates
    BY <1>1 DEF Trees
  <2> QED
    BY <2>1, <1>1, <1>2, MarkedIs DEF MarkedAll
<1> HIDE DEF u
<1>6. EndStatus(u, L)[i] = IF u[i].selected THEN "all" ELSE "none"
  <2> DEFINE ends == {m \in Nodes : Countable(m, L) = {}}
             own == [m \in ends |-> IF u[m].selected THEN "all" ELSE "none"]
  <2>1. {e \in ends \cap Below[i] : e = i \/ e \notin L} = {i} /\ i \in ends
    BY <1>1, <1>2, <1>3
  <2>2. {own[m] : m \in {e \in ends \cap Below[i] : e = i \/ e \notin L}} = {own[i]}
    BY <2>1, Zenon
  <2>3. own[i] = IF u[i].selected THEN "all" ELSE "none"
    BY <2>1
  <2>4. EndStatus(u, L)[i] = Verdict({own[i]})
    BY <2>2, <1>1 DEF EndStatus
  <2> HIDE DEF own
  <2> QED
    BY <2>3, <2>4 DEF Verdict
<1>7. v[j].selected = u[j].selected
  <2>1. u[j] \in NodeStates
    BY <1>1, <1>4 DEF Trees
  <2>2. u[j].selected \in BOOLEAN
    BY <2>1 DEF NodeStates
  <2>3. v[j] = IF j = i \/ (j \in Below[i] /\ j \notin L) THEN Marked(u[j], EndStatus(u, L)[j]) ELSE u[j]
    BY <1>1, <1>4, FixBelowIs
  <2>4. v[j] = IF j = i THEN Marked(u[j], EndStatus(u, L)[j]) ELSE u[j]
    BY <2>3, <1>2
  <2>5. Marked(u[j], EndStatus(u, L)[j]).selected = (EndStatus(u, L)[j] = "all")
    BY <2>1, MarkedIs, Zenon
  <2>6. CASE j = i
    <3>1. v[j].selected = (EndStatus(u, L)[i] = "all")
      BY <2>4, <2>5, <2>6, Zenon
    <3>2. CASE u[j].selected = TRUE
      BY <3>1, <3>2, <2>6, <1>6
    <3>3. CASE u[j].selected = FALSE
      BY <3>1, <3>3, <2>6, <1>6
    <3> QED
      BY <2>2, <3>2, <3>3
  <2> QED
    BY <2>4, <2>6
<1> HIDE DEF v
<1>8. w[j] = v[j]
  <2>1. Countable(j, L) = {}
    BY <1>1 DEF Countable
  <2>2. w[j] = FixStep(v, w, L, i, j)
    BY <1>1, <1>4, FixAboveIs
  <2> QED
    BY <2>1, <2>2 DEF FixStep
<1>9. Cascade(t, L, i, Below[i] \ L, flag) = w
  BY <1>1, CascadeIs DEF u, v
<1>10. Meant(t, i, flag) = t
  BY <1>1, MeantIs
<1> HIDE DEF w
<1>11. SetSelected(t, L, i, flag) = IF t[i].selected = flag /\ ~(t[i].partsel /\ ~flag) THEN t ELSE w
  BY <1>9, <1>10 DEF SetSelected
<1> QED
  BY <1>5, <1>7, <1>8, <1>11

SetsItem(u, t, i, flag) ==
    \A j \in Items : u[j].selected = IF j = i THEN flag ELSE t[j].selected

LEMMA ItemSet ==
    ASSUME NEW t \in Trees, NEW L, NEW i \in Items, i \notin L, NEW flag \in BOOLEAN
    PROVE  SetsItem(SetSelected(t, L, i, flag), t, i, flag)
BY ItemSelected DEF SetsItem

-----------------------------------------------------------------------------
(* The matrix.                                                              *)

MatrixState(st) ==
    /\ st = [tree |-> st.tree, locked |-> st.locked, remembered |-> st.remembered]
    /\ st.tree \in Trees
    /\ st.locked \in SUBSET Items
    /\ st.remembered \in [st.locked -> BOOLEAN]

MatrixStates ==
    {st \in [tree : Trees, locked : SUBSET Items,
             remembered : UNION {[K -> BOOLEAN] : K \in SUBSET Items}] :
       st.remembered \in [st.locked -> BOOLEAN]}

LEMMA MatrixStatesAre == \A st : st \in MatrixStates <=> MatrixState(st)
<1>1. ASSUME NEW st \in MatrixStates PROVE MatrixState(st)
  BY <1>1 DEF MatrixStates, MatrixState
<1>2. ASSUME NEW st, MatrixState(st) PROVE st \in MatrixStates
  <2>1. st.remembered \in UNION {[K -> BOOLEAN] : K \in SUBSET Items}
    BY <1>2 DEF MatrixState
  <2>2. st \in [tree : Trees, locked : SUBSET Items,
                remembered : UNION {[K -> BOOLEAN] : K \in SUBSET Items}]
    BY <1>2, <2>1 DEF MatrixState
  <2> QED
    BY <1>2, <2>2 DEF MatrixStates, MatrixState
<1> QED
  BY <1>1, <1>2

ImposedStep(s, n, denied) ==
    IF n \notin denied THEN s
    ELSE [tree |-> SetSelected(s.tree, s.locked, n, FALSE),
          locked |-> s.locked \cup {n},
          remembered |-> [i \in s.locked \cup {n} |->
                            IF i = n THEN s.tree[n].selected ELSE s.remembered[i]]]

ReleasedStep(s, n, all) ==
    IF n \notin all THEN s
    ELSE [tree |-> SetSelected(s.tree, s.locked \ {n}, n, s.remembered[n]),
          locked |-> s.locked \ {n},
          remembered |-> [i \in s.locked \ {n} |-> s.remembered[i]]]

LEMMA ImposedStepType ==
    ASSUME NEW s, MatrixState(s), NEW n \in Nodes, NEW denied \in SUBSET Items
    PROVE  MatrixState(ImposedStep(s, n, denied))
<1>1. CASE n \notin denied
  BY <1>1 DEF ImposedStep
<1>2. CASE n \in denied
  <2>1. SetSelected(s.tree, s.locked, n, FALSE) \in Trees
    BY SetSelectedType DEF MatrixState
  <2>2. s.tree[n].selected \in BOOLEAN
    BY DEF MatrixState, Trees, NodeStates
  <2>3. [i \in s.locked \cup {n} |-> IF i = n THEN s.tree[n].selected ELSE s.remembered[i]]
           \in [s.locked \cup {n} -> BOOLEAN]
    BY <2>2 DEF MatrixState
  <2>4. s.locked \cup {n} \in SUBSET Items
    BY <1>2 DEF MatrixState
  <2> QED
    BY <1>2, <2>1, <2>3, <2>4 DEF ImposedStep, MatrixState
<1> QED
  BY <1>1, <1>2

LEMMA ReleasedStepType ==
    ASSUME NEW s, MatrixState(s), NEW n \in Nodes, NEW all \in SUBSET Items
    PROVE  MatrixState(ReleasedStep(s, n, all))
<1>1. CASE n \notin all
  BY <1>1 DEF ReleasedStep
<1>2. CASE n \in all
  <2>0. Children(n) = {}
    BY <1>2, Shape
  <2>1. SetSelected(s.tree, s.locked \ {n}, n, s.remembered[n]) \in Trees
    BY <2>0, SetSelectedType DEF MatrixState
  <2>3. [i \in s.locked \ {n} |-> s.remembered[i]] \in [s.locked \ {n} -> BOOLEAN]
    BY DEF MatrixState
  <2>4. s.locked \ {n} \in SUBSET Items
    BY DEF MatrixState
  <2> QED
    BY <1>2, <2>1, <2>3, <2>4 DEF ReleasedStep, MatrixState
<1> QED
  BY <1>1, <1>2

\* What the loops of the matrix go through.
ImposedLoop(f, st, denied) ==
    /\ DOMAIN f = 0..NodeCount /\ f[0] = st
    /\ \A n \in 0..NodeCount : MatrixState(f[n])
    /\ \A n \in Nodes : f[n] = ImposedStep(f[n - 1], n, denied)

ReleasedLoop(f, st) ==
    /\ DOMAIN f = 0..NodeCount /\ f[0] = st
    /\ \A n \in 0..NodeCount : MatrixState(f[n])
    /\ \A n \in Nodes : f[n] = ReleasedStep(f[n - 1], n, st.locked)

LEMMA ImposedIs ==
    ASSUME NEW st, MatrixState(st), NEW denied \in SUBSET Items
    PROVE  \E f : ImposedLoop(f, st, denied) /\ Imposed(st, denied) = f[NodeCount]
<1> DEFINE F == [p \in MatrixStates \X (1..NodeCount) |-> ImposedStep(p[1], p[2], denied)]
           Eq(f) == f = [n \in 0..NodeCount |->
                          IF n = 0 THEN st ELSE ImposedStep(f[n - 1], n, denied)]
           G == CHOOSE f : Eq(f)
<1>1. F \in [MatrixStates \X (1..NodeCount) -> MatrixStates]
  <2>1. \A u \in MatrixStates, n \in 1..NodeCount : ImposedStep(u, n, denied) \in MatrixStates
    BY MatrixStatesAre, ImposedStepType DEF Nodes
  <2> QED
    BY <2>1
<1>2. \A u \in MatrixStates, n \in 1..NodeCount : F[<<u, n>>] = ImposedStep(u, n, denied)
  OBVIOUS
<1> HIDE DEF F
<1>3. NodeCount \in Nat /\ st \in MatrixStates
  BY Shape, MatrixStatesAre
<1>4. PICK f : Iterated(f, MatrixStates, st, F, NodeCount)
  BY <1>1, <1>3, Iterates, Zenon
<1>5. \A n \in 1..NodeCount : f[n] = ImposedStep(f[n - 1], n, denied)
  <2> TAKE n \in 1..NodeCount
  <2>1. n - 1 \in 0..NodeCount
    BY <1>3
  <2>2. f[n - 1] \in MatrixStates
    BY <2>1, <1>4 DEF Iterated
  <2> QED
    BY <2>2, <1>2, <1>4 DEF Iterated
<1>6. Eq(f)
  <2>1. \A n \in 0..NodeCount : f[n] = IF n = 0 THEN st ELSE ImposedStep(f[n - 1], n, denied)
    <3>1. \A n \in 0..NodeCount : n = 0 \/ n \in 1..NodeCount
      BY <1>3
    <3>2. f[0] = st
      BY <1>4 DEF Iterated
    <3>3. \A n \in 1..NodeCount : n # 0
      BY <1>3
    <3> QED
      BY <1>5, <3>1, <3>2, <3>3, Zenon
  <2>2. f \in [0..NodeCount -> MatrixStates]
    BY <1>4 DEF Iterated
  <2> QED
    BY <2>1, <2>2
<1>7. Eq(G)
  <2> HIDE DEF Eq
  <2> QED
    BY <1>6, Zenon
<1>8. Imposed(st, denied) = G[NodeCount]
  BY Zenon DEF Imposed, ImposedStep
<1> HIDE DEF G
<1>9. DOMAIN G = 0..NodeCount
      /\ \A n \in 0..NodeCount : G[n] = IF n = 0 THEN st ELSE ImposedStep(G[n - 1], n, denied)
  BY <1>7
<1>10. G[0] = st /\ \A n \in Nodes : G[n] = ImposedStep(G[n - 1], n, denied)
  <2>1. 0 \in 0..NodeCount /\ \A n \in Nodes : n \in 0..NodeCount /\ n # 0
    BY <1>3 DEF Nodes
  <2> QED
    BY <1>9, <2>1, Zenon
<1> DEFINE P == {n \in 0..NodeCount : MatrixState(G[n])}
<1>11. 0 \in P
  BY <1>3, <1>10
<1>12. \A n \in 1..NodeCount : n - 1 \in P => n \in P
  BY <1>10, ImposedStepType DEF Nodes
<1>13. \A n \in 0..NodeCount : n \in P
  <2> HIDE DEF P
  <2> QED
    BY <1>3, <1>11, <1>12, Induct
<1>14. ImposedLoop(G, st, denied)
  BY <1>9, <1>10, <1>13 DEF ImposedLoop
<1> QED
  BY <1>8, <1>14

LEMMA ReleasedIs ==
    ASSUME NEW st, MatrixState(st)
    PROVE  \E f : ReleasedLoop(f, st) /\ Released(st) = f[NodeCount]
<1> DEFINE F == [p \in MatrixStates \X (1..NodeCount) |-> ReleasedStep(p[1], p[2], st.locked)]
           Eq(f) == f = [n \in 0..NodeCount |->
                          IF n = 0 THEN st ELSE ReleasedStep(f[n - 1], n, st.locked)]
           G == CHOOSE f : Eq(f)
<1>0. st.locked \in SUBSET Items
  BY DEF MatrixState
<1>1. F \in [MatrixStates \X (1..NodeCount) -> MatrixStates]
  <2>1. \A u \in MatrixStates, n \in 1..NodeCount : ReleasedStep(u, n, st.locked) \in MatrixStates
    BY <1>0, MatrixStatesAre, ReleasedStepType DEF Nodes
  <2> QED
    BY <2>1
<1>2. \A u \in MatrixStates, n \in 1..NodeCount : F[<<u, n>>] = ReleasedStep(u, n, st.locked)
  OBVIOUS
<1> HIDE DEF F
<1>3. NodeCount \in Nat /\ st \in MatrixStates
  BY Shape, MatrixStatesAre
<1>4. PICK f : Iterated(f, MatrixStates, st, F, NodeCount)
  BY <1>1, <1>3, Iterates, Zenon
<1>5. \A n \in 1..NodeCount : f[n] = ReleasedStep(f[n - 1], n, st.locked)
  <2> TAKE n \in 1..NodeCount
  <2>1. n - 1 \in 0..NodeCount
    BY <1>3
  <2>2. f[n - 1] \in MatrixStates
    BY <2>1, <1>4 DEF Iterated
  <2> QED
    BY <2>2, <1>2, <1>4 DEF Iterated
<1>6. Eq(f)
  <2>1. \A n \in 0..NodeCount : f[n] = IF n = 0 THEN st ELSE ReleasedStep(f[n - 1], n, st.locked)
    <3>1. \A n \in 0..NodeCount : n = 0 \/ n \in 1..NodeCount
      BY <1>3
    <3>2. f[0] = st
      BY <1>4 DEF Iterated
    <3>3. \A n \in 1..NodeCount : n # 0
      BY <1>3
    <3> QED
      BY <1>5, <3>1, <3>2, <3>3, Zenon
  <2>2. f \in [0..NodeCount -> MatrixStates]
    BY <1>4 DEF Iterated
  <2> QED
    BY <2>1, <2>2
<1>7. Eq(G)
  <2> HIDE DEF Eq
  <2> QED
    BY <1>6, Zenon
<1>8. Released(st) = G[NodeCount]
  BY Zenon DEF Released, ReleasedStep
<1> HIDE DEF G
<1>9. DOMAIN G = 0..NodeCount
      /\ \A n \in 0..NodeCount : G[n] = IF n = 0 THEN st ELSE ReleasedStep(G[n - 1], n, st.locked)
  BY <1>7
<1>10. G[0] = st /\ \A n \in Nodes : G[n] = ReleasedStep(G[n - 1], n, st.locked)
  <2>1. 0 \in 0..NodeCount /\ \A n \in Nodes : n \in 0..NodeCount /\ n # 0
    BY <1>3 DEF Nodes
  <2> QED
    BY <1>9, <2>1, Zenon
<1> DEFINE P == {n \in 0..NodeCount : MatrixState(G[n])}
<1>11. 0 \in P
  BY <1>3, <1>10
<1>12. \A n \in 1..NodeCount : n - 1 \in P => n \in P
  BY <1>0, <1>10, ReleasedStepType DEF Nodes
<1>13. \A n \in 0..NodeCount : n \in P
  <2> HIDE DEF P
  <2> QED
    BY <1>3, <1>11, <1>12, Induct
<1>14. ReleasedLoop(G, st)
  BY <1>9, <1>10, <1>13 DEF ReleasedLoop
<1> QED
  BY <1>8, <1>14

\* Denying remembers what was chosen, clears it, and touches nothing else.
LEMMA ImposedKeeps ==
    ASSUME NEW st, MatrixState(st), st.locked = {}, NEW denied \in SUBSET Items
    PROVE  LET new == Imposed(st, denied)
           IN /\ MatrixState(new)
              /\ new.locked = denied
              /\ \A i \in denied : new.remembered[i] = st.tree[i].selected
              /\ \A i \in Items \ denied : new.tree[i].selected = st.tree[i].selected
              /\ denied = {} => new.tree = st.tree
<1>1. PICK f : ImposedLoop(f, st, denied) /\ Imposed(st, denied) = f[NodeCount]
  BY ImposedIs
<1> DEFINE Good(s, n) ==
              /\ s.locked = {d \in denied : d <= n}
              /\ \A i \in s.locked : s.remembered[i] = st.tree[i].selected
              /\ \A i \in Items : i \notin s.locked => s.tree[i].selected = st.tree[i].selected
              /\ denied = {} => s.tree = st.tree
           P == {n \in 0..NodeCount : Good(f[n], n)}
<1>2. /\ NodeCount \in Nat /\ denied \subseteq Nodes /\ denied \subseteq Nat
      /\ \A n \in Nodes : n \in 1..NodeCount
  BY Shape DEF Nodes
<1>3. 0 \in P
  <2>1. f[0] = st /\ 0 \in 0..NodeCount
    BY <1>1, <1>2 DEF ImposedLoop
  <2>2. \A d \in denied : ~(d <= 0)
    BY <1>2 DEF Nodes
  <2>3. st.locked = {d \in denied : d <= 0}
    BY <2>2
  <2>4. Good(st, 0)
    BY <2>3
  <2> HIDE DEF Good
  <2> QED
    BY <2>1, <2>4
<1>4. ASSUME NEW n \in 1..NodeCount, n - 1 \in P PROVE n \in P
  <2> DEFINE s == f[n - 1]
  <2>1. /\ MatrixState(s) /\ MatrixState(f[n]) /\ f[n] = ImposedStep(s, n, denied) /\ n \in Nodes
    <3>1. n \in Nodes /\ n - 1 \in 0..NodeCount /\ n \in 0..NodeCount
      BY <1>2 DEF Nodes
    <3> QED
      BY <3>1, <1>1 DEF ImposedLoop
  <2>2. Good(s, n - 1)
    BY <1>4
  <2> HIDE DEF s
  <2>3. CASE n \notin denied
    <3>1. {d \in denied : d <= n} = {d \in denied : d <= n - 1}
      <4>1. \A d \in denied : d <= n <=> d <= n - 1
        BY <1>2, <2>3
      <4> QED
        BY <4>1, Zenon
    <3>2. Good(f[n], n)
      BY <2>1, <2>2, <2>3, <3>1 DEF ImposedStep
    <3> QED
      BY <3>2
  <2>4. CASE n \in denied
    <3> DEFINE u == SetSelected(s.tree, s.locked, n, FALSE)
    <3>1. /\ f[n].tree = u /\ f[n].locked = s.locked \cup {n}
          /\ f[n].remembered = [i \in s.locked \cup {n} |->
                                  IF i = n THEN s.tree[n].selected ELSE s.remembered[i]]
      BY <2>1, <2>4 DEF ImposedStep
    <3>2. {d \in denied : d <= n} = {d \in denied : d <= n - 1} \cup {n}
      <4>1. \A d \in denied : d <= n <=> d <= n - 1 \/ d = n
        BY <1>2
      <4> QED
        BY <4>1, <2>4, Zenon
    <3>3. n \notin s.locked /\ n \in Items
      BY <1>2, <2>2, <2>4
    <3>4. \A j \in Items : u[j].selected = IF j = n THEN FALSE ELSE s.tree[j].selected
      <4>1. s.tree \in Trees
        BY <2>1 DEF MatrixState
      <4>2. SetsItem(u, s.tree, n, FALSE)
        BY <3>3, <4>1, ItemSet
      <4> HIDE DEF u
      <4> QED
        BY <4>2 DEF SetsItem
    <3> HIDE DEF u
    <3>5. f[n].locked = {d \in denied : d <= n}
      BY <3>1, <3>2, <2>2
    <3>6. \A i \in f[n].locked : f[n].remembered[i] = st.tree[i].selected
      BY <3>1, <3>3, <2>2
    <3>7. \A i \in Items : i \notin f[n].locked => f[n].tree[i].selected = st.tree[i].selected
      BY <3>1, <3>4, <2>2
    <3>8. Good(f[n], n)
      BY <3>5, <3>6, <3>7, <2>4
    <3> QED
      BY <3>8
  <2> QED
    BY <2>3, <2>4
<1>5. \A n \in 0..NodeCount : n \in P
  <2> HIDE DEF P
  <2> QED
    BY <1>2, <1>3, <1>4, Induct
<1>6. Good(f[NodeCount], NodeCount) /\ MatrixState(f[NodeCount])
  BY <1>1, <1>2, <1>5 DEF ImposedLoop
<1>7. {d \in denied : d <= NodeCount} = denied
  <2>1. \A d \in denied : d <= NodeCount
    BY <1>2
  <2> QED
    BY <2>1, Zenon
<1> QED
  BY <1>1, <1>6, <1>7

\* Giving every item back selects it as it was, and touches nothing else.
LEMMA ReleasedGives ==
    ASSUME NEW st, MatrixState(st)
    PROVE  LET new == Released(st)
           IN /\ MatrixState(new)
              /\ new.locked = {}
              /\ \A i \in st.locked : new.tree[i].selected = st.remembered[i]
              /\ st.locked = {} => new.tree = st.tree
<1>1. PICK f : ReleasedLoop(f, st) /\ Released(st) = f[NodeCount]
  BY ReleasedIs
<1> DEFINE Good(s, n) ==
              /\ s.locked = {d \in st.locked : d > n}
              /\ \A i \in s.locked : s.remembered[i] = st.remembered[i]
              /\ \A i \in st.locked : i \notin s.locked => s.tree[i].selected = st.remembered[i]
              /\ st.locked = {} => s.tree = st.tree
           P == {n \in 0..NodeCount : Good(f[n], n)}
<1>2. /\ NodeCount \in Nat /\ st.locked \subseteq Nodes /\ st.locked \subseteq Nat /\ \A n \in Nodes : n \in 1..NodeCount
      /\ st.locked \subseteq Items
  BY Shape DEF Nodes, MatrixState
<1>3. 0 \in P
  <2>1. f[0] = st /\ 0 \in 0..NodeCount
    BY <1>1, <1>2 DEF ReleasedLoop
  <2>2. \A d \in st.locked : d > 0
    BY <1>2 DEF Nodes
  <2>3. st.locked = {d \in st.locked : d > 0}
    BY <2>2
  <2>4. Good(st, 0)
    BY <2>3
  <2> HIDE DEF Good
  <2> QED
    BY <2>1, <2>4
<1>4. ASSUME NEW n \in 1..NodeCount, n - 1 \in P PROVE n \in P
  <2> DEFINE s == f[n - 1]
  <2>1. /\ MatrixState(s) /\ MatrixState(f[n]) /\ f[n] = ReleasedStep(s, n, st.locked) /\ n \in Nodes
    <3>1. n \in Nodes /\ n - 1 \in 0..NodeCount /\ n \in 0..NodeCount
      BY <1>2 DEF Nodes
    <3> QED
      BY <3>1, <1>1 DEF ReleasedLoop
  <2>2. Good(s, n - 1)
    BY <1>4
  <2> HIDE DEF s
  <2>3. CASE n \notin st.locked
    <3>1. {d \in st.locked : d > n} = {d \in st.locked : d > n - 1}
      BY <1>2, <2>3
    <3>2. Good(f[n], n)
      BY <2>1, <2>2, <2>3, <3>1 DEF ReleasedStep
    <3> QED
      BY <3>2
  <2>4. CASE n \in st.locked
    <3> DEFINE u == SetSelected(s.tree, s.locked \ {n}, n, s.remembered[n])
    <3>1. /\ f[n].tree = u /\ f[n].locked = s.locked \ {n}
          /\ f[n].remembered = [i \in s.locked \ {n} |-> s.remembered[i]]
      BY <2>1, <2>4 DEF ReleasedStep
    <3>2. {d \in st.locked : d > n} = {d \in st.locked : d > n - 1} \ {n}
      BY <1>2, <2>4
    <3>3. n \in s.locked /\ n \in Items
      BY <1>2, <2>2, <2>4
    <3>4. s.remembered[n] = st.remembered[n] /\ s.remembered[n] \in BOOLEAN
      BY <3>3, <2>1, <2>2 DEF MatrixState
    <3>5. \A j \in Items : u[j].selected = IF j = n THEN s.remembered[n] ELSE s.tree[j].selected
      <4>1. s.tree \in Trees /\ n \notin s.locked \ {n}
        BY <2>1 DEF MatrixState
      <4>2. SetsItem(u, s.tree, n, s.remembered[n])
        BY <3>3, <3>4, <4>1, ItemSet
      <4> HIDE DEF u
      <4> QED
        BY <4>2 DEF SetsItem
    <3> HIDE DEF u
    <3>6. f[n].locked = {d \in st.locked : d > n}
      BY <3>1, <3>2, <2>2
    <3>7. \A i \in f[n].locked : f[n].remembered[i] = st.remembered[i]
      BY <3>1, <3>3, <2>2
    <3>8. \A i \in st.locked : i \notin f[n].locked => f[n].tree[i].selected = st.remembered[i]
      BY <3>1, <3>4, <3>5, <2>2, <1>2
    <3>9. Good(f[n], n)
      BY <3>6, <3>7, <3>8, <2>4
    <3> QED
      BY <3>9
  <2> QED
    BY <2>3, <2>4
<1>5. \A n \in 0..NodeCount : n \in P
  <2> HIDE DEF P
  <2> QED
    BY <1>2, <1>3, <1>4, Induct
<1>6. Good(f[NodeCount], NodeCount) /\ MatrixState(f[NodeCount])
  BY <1>1, <1>2, <1>5 DEF ReleasedLoop
<1>7. {d \in st.locked : d > NodeCount} = {}
  BY <1>2
<1> QED
  BY <1>1, <1>6, <1>7

-----------------------------------------------------------------------------
(* What folders tell, as long as nothing is locked.                         *)

EndsOf(m) == {e \in Below[m] : Children(e) = {}}

Own(t, e) == IF t[e].selected THEN "all" ELSE "none"

StatusAt(t, m) == Verdict({Own(t, e) : e \in EndsOf(m)})

ToldAt(node, v) == node.selected = (v = "all") /\ node.partsel = (v # "none")

Told(t) == \A m \in Nodes : ToldAt(t[m], StatusAt(t, m))

ByChildren(t, m) == Verdict({StatusOf(t[c]) : c \in Children(m)})

\* Every node agrees with its children.
Local(t) ==
    \A m \in Nodes : ToldAt(t[m], IF Children(m) = {} THEN Own(t, m) ELSE ByChildren(t, m))

LEMMA BelowIs ==
    ASSUME NEW m \in Nodes, NEW e \in Nodes
    PROVE  /\ e \in Below[m] <=> e = m \/ m \in Above[e]
           /\ e \in Below[m] <=> e = m \/ \E c \in Children(m) : e \in Below[c]
<1>1. \A d \in Nodes : e \in Below[d] <=> e = d \/ d \in Above[e]
  BY DEF Below
<1>2. m \in Above[e] <=> \E c \in Children(m) : e = c \/ c \in Above[e]
  BY AboveByChild
<1>3. \A c \in Children(m) : c \in Nodes
  BY Shape
<1> QED
  BY <1>1, <1>2, <1>3

LEMMA BelowNodes == \A m \in Nodes : Below[m] \subseteq Nodes /\ m \in Below[m]
BY DEF Below

LEMMA EndsOfIs ==
    ASSUME NEW m \in Nodes
    PROVE  /\ Children(m) = {} => EndsOf(m) = {m}
           /\ Children(m) # {} => EndsOf(m) = UNION {EndsOf(c) : c \in Children(m)}
           /\ EndsOf(m) # {} /\ EndsOf(m) \subseteq Nodes
<1>1. ASSUME NEW d \in Nodes, Children(d) = {} PROVE EndsOf(d) = {d}
  BY <1>1, BelowNodes, BelowIs DEF EndsOf
<1>2. ASSUME NEW d \in Nodes, Children(d) # {}
      PROVE  EndsOf(d) = UNION {EndsOf(c) : c \in Children(d)}
  <2>1. \A c \in Children(d) : c \in Nodes
    BY Shape
  <2>2. ASSUME NEW e PROVE e \in EndsOf(d) <=> \E c \in Children(d) : e \in EndsOf(c)
    <3>1. CASE e \in Nodes
      BY <3>1, <2>1, <1>2, BelowIs DEF EndsOf
    <3>2. CASE e \notin Nodes
      BY <3>2, <2>1, BelowNodes DEF EndsOf
    <3> QED
      BY <3>1, <3>2
  <2> QED
    BY <2>2
<1> DEFINE P == {k \in 0..NodeCount : \A d \in Nodes : d > NodeCount - k => EndsOf(d) # {}}
<1>3. 0 \in P
  BY Shape DEF Nodes
<1>4. ASSUME NEW k \in 1..NodeCount, k - 1 \in P PROVE k \in P
  <2>1. ASSUME NEW d \in Nodes, d > NodeCount - k PROVE EndsOf(d) # {}
    <3>1. CASE Children(d) = {}
      BY <3>1, <1>1
    <3>2. CASE Children(d) # {}
      <4>1. PICK c \in Children(d) : TRUE
        BY <3>2
      <4>2. c \in Nodes /\ c > NodeCount - (k - 1)
        <5>1. c \in Nodes /\ d < c
          BY Shape
        <5>2. c \in Nat /\ d \in Nat /\ NodeCount \in Nat
          BY <5>1, Shape
        <5> QED
          BY <5>1, <5>2, <2>1
      <4>3. EndsOf(c) # {}
        BY <4>2, <1>4
      <4> QED
        BY <3>2, <4>3, <1>2
    <3> QED
      BY <3>1, <3>2
  <2> QED
    BY <2>1
<1>5. \A k \in 0..NodeCount : k \in P
  <2> HIDE DEF P
  <2> QED
    BY <1>3, <1>4, Induct, Shape
<1>6. EndsOf(m) # {}
  <2>1. NodeCount \in P /\ m > NodeCount - NodeCount
    BY <1>5, Shape DEF Nodes
  <2> QED
    BY <2>1
<1>7. EndsOf(m) \subseteq Nodes
  BY BelowNodes DEF EndsOf
<1> QED
  BY <1>1, <1>2, <1>6, <1>7

States == {"all", "some", "none"}

LEMMA VerdictIs ==
    ASSUME NEW S
    PROVE  /\ Verdict(S) \in States
           /\ Verdict(S) = "all" <=> S \subseteq {"all"}
           /\ S # {} => (Verdict(S) = "none" <=> S \subseteq {"none"})
BY DEF Verdict, States

LEMMA EndStatusIs ==
    ASSUME NEW t, NEW m \in Nodes
    PROVE  EndStatus(t, {})[m] = StatusAt(t, m)
<1> DEFINE ends == {e \in Nodes : Countable(e, {}) = {}}
           own == [e \in ends |-> IF t[e].selected THEN "all" ELSE "none"]
           counted == {e \in ends \cap Below[m] : e = m \/ e \notin {}}
<1>1. \A e : Countable(e, {}) = Children(e)
  BY DEF Countable
<1>2. counted = EndsOf(m)
  BY <1>1, BelowNodes DEF EndsOf
<1>3. \A e \in counted : own[e] = Own(t, e)
  BY DEF Own
<1>4. EndStatus(t, {})[m] = Verdict({own[e] : e \in counted})
  BY DEF EndStatus
<1> HIDE DEF counted, own
<1>5. {own[e] : e \in counted} = {Own(t, e) : e \in EndsOf(m)}
  BY <1>2, <1>3
<1> QED
  BY <1>4, <1>5 DEF StatusAt

\* The end nodes below a folder say the same as its children.
LEMMA StatusByChild ==
    ASSUME NEW t, NEW m \in Nodes
    PROVE  /\ Children(m) = {} => StatusAt(t, m) = Own(t, m)
           /\ Children(m) # {} => StatusAt(t, m) = Verdict({StatusAt(t, c) : c \in Children(m)})
           /\ StatusAt(t, m) \in States
<1>1. ASSUME Children(m) = {} PROVE StatusAt(t, m) = Own(t, m)
  <2>1. {Own(t, e) : e \in EndsOf(m)} = {Own(t, m)}
    BY <1>1, EndsOfIs
  <2>2. Verdict({Own(t, m)}) = Own(t, m)
    BY DEF Verdict, Own
  <2> QED
    BY <2>1, <2>2 DEF StatusAt
<1>2. ASSUME Children(m) # {}
      PROVE  StatusAt(t, m) = Verdict({StatusAt(t, c) : c \in Children(m)})
  <2> DEFINE S == {Own(t, e) : e \in EndsOf(m)}
             V == {StatusAt(t, c) : c \in Children(m)}
  <2>1. \A c \in Children(m) : c \in Nodes /\ EndsOf(c) # {} /\ EndsOf(c) \subseteq EndsOf(m)
    <3>1. \A c \in Children(m) : c \in Nodes
      BY Shape
    <3> QED
      BY <3>1, <1>2, EndsOfIs
  <2>2. \A c \in Children(m) : StatusAt(t, c) = "all" <=> \A e \in EndsOf(c) : Own(t, e) = "all"
    BY VerdictIs DEF StatusAt
  <2>3. \A c \in Children(m) : StatusAt(t, c) = "none" <=> \A e \in EndsOf(c) : Own(t, e) = "none"
    <3> TAKE c \in Children(m)
    <3>1. {Own(t, e) : e \in EndsOf(c)} # {}
      BY <2>1
    <3>2. StatusAt(t, c) = "none" <=> {Own(t, e) : e \in EndsOf(c)} \subseteq {"none"}
      BY <3>1, VerdictIs DEF StatusAt
    <3> QED
      BY <3>2
  <2>4. \A e \in EndsOf(m) : \E c \in Children(m) : e \in EndsOf(c)
    BY <1>2, EndsOfIs
  <2>5. (\A e \in EndsOf(m) : Own(t, e) = "all") <=> \A c \in Children(m) : StatusAt(t, c) = "all"
    BY <2>1, <2>2, <2>4
  <2>6. (\A e \in EndsOf(m) : Own(t, e) = "none") <=> \A c \in Children(m) : StatusAt(t, c) = "none"
    BY <2>1, <2>3, <2>4
  <2>7. S \subseteq {"all"} <=> V \subseteq {"all"}
    BY <2>5
  <2>8. S \subseteq {"none"} <=> V \subseteq {"none"}
    BY <2>6
  <2> HIDE DEF S, V
  <2>9. Verdict(S) = Verdict(V)
    BY <2>7, <2>8 DEF Verdict
  <2> QED
    BY <2>9 DEF S, V, StatusAt
<1> QED
  BY <1>1, <1>2, VerdictIs DEF StatusAt

LEMMA ToldStatus ==
    ASSUME NEW node, NEW v \in States, ToldAt(node, v)
    PROVE  StatusOf(node) = v
BY DEF ToldAt, States, StatusOf

LEMMA LocalIsTold == \A t : Local(t) <=> Told(t)
<1>1. ASSUME NEW t, Told(t) PROVE Local(t)
  <2> SUFFICES ASSUME NEW m \in Nodes
               PROVE  ToldAt(t[m], IF Children(m) = {} THEN Own(t, m) ELSE ByChildren(t, m))
    BY DEF Local
  <2>1. \A c \in Children(m) : StatusOf(t[c]) = StatusAt(t, c)
    <3> TAKE c \in Children(m)
    <3>1. c \in Nodes
      BY Shape
    <3>2. ToldAt(t[c], StatusAt(t, c)) /\ StatusAt(t, c) \in States
      BY <3>1, <1>1, StatusByChild DEF Told
    <3> QED
      BY <3>2, ToldStatus
  <2>2. {StatusOf(t[c]) : c \in Children(m)} = {StatusAt(t, c) : c \in Children(m)}
    BY <2>1
  <2>3. StatusAt(t, m) = IF Children(m) = {} THEN Own(t, m) ELSE ByChildren(t, m)
    BY <2>2, StatusByChild DEF ByChildren
  <2>4. ToldAt(t[m], StatusAt(t, m))
    BY <1>1 DEF Told
  <2> QED
    BY <2>3, <2>4
<1>2. ASSUME NEW t, Local(t) PROVE Told(t)
  <2> DEFINE Good(m) == ToldAt(t[m], StatusAt(t, m))
             P == {k \in 0..NodeCount : \A m \in Nodes : m > NodeCount - k => Good(m)}
  <2>1. 0 \in P
    BY Shape DEF Nodes
  <2>2. ASSUME NEW k \in 1..NodeCount, k - 1 \in P PROVE k \in P
    <3>1. ASSUME NEW m \in Nodes, m > NodeCount - k PROVE Good(m)
      <4>1. \A c \in Children(m) : StatusOf(t[c]) = StatusAt(t, c)
        <5> TAKE c \in Children(m)
        <5>1. c \in Nodes /\ c > NodeCount - (k - 1)
          <6>1. c \in Nodes /\ m < c
            BY Shape
          <6>2. c \in Nat /\ m \in Nat /\ NodeCount \in Nat
            BY <6>1, Shape
          <6> QED
            BY <6>1, <6>2, <3>1
        <5>2. Good(c) /\ StatusAt(t, c) \in States
          BY <5>1, <2>2, StatusByChild
        <5> QED
          BY <5>2, ToldStatus
      <4>2. {StatusOf(t[c]) : c \in Children(m)} = {StatusAt(t, c) : c \in Children(m)}
        BY <4>1
      <4>3. StatusAt(t, m) = IF Children(m) = {} THEN Own(t, m) ELSE ByChildren(t, m)
        BY <4>2, StatusByChild DEF ByChildren
      <4>4. ToldAt(t[m], IF Children(m) = {} THEN Own(t, m) ELSE ByChildren(t, m))
        BY <1>2 DEF Local
      <4> QED
        BY <4>3, <4>4
    <3> HIDE DEF Good
    <3> QED
      BY <3>1
  <2>3. \A k \in 0..NodeCount : k \in P
    <3> HIDE DEF P
    <3> QED
      BY <2>1, <2>2, Induct, Shape
  <2>4. NodeCount \in P /\ \A m \in Nodes : m > NodeCount - NodeCount
    BY <2>3, Shape DEF Nodes
  <2>5. \A m \in Nodes : Good(m)
    <3> HIDE DEF Good
    <3> QED
      BY <2>4
  <2> QED
    BY <2>5 DEF Told
<1> QED
  BY <1>1, <1>2

Same(a, b) == a.selected = b.selected /\ a.partsel = b.partsel

LEMMA SameSelectionIs ==
    \A t, u : SameSelection(t, u) <=> \A n \in Nodes : Same(t[n], u[n])
BY DEF SameSelection, Recorded, Same

LEMMA SameStatus ==
    ASSUME NEW t, NEW u, NEW m \in Nodes,
           \A e \in EndsOf(m) : t[e].selected = u[e].selected
    PROVE  StatusAt(t, m) = StatusAt(u, m)
<1>1. {Own(t, e) : e \in EndsOf(m)} = {Own(u, e) : e \in EndsOf(m)}
  BY DEF Own
<1> QED
  BY <1>1 DEF StatusAt

LEMMA ToldSame ==
    ASSUME NEW t, NEW u, SameSelection(t, u), Told(t)
    PROVE  Told(u)
<1>1. \A n \in Nodes : Same(t[n], u[n])
  BY SameSelectionIs
<1>2. ASSUME NEW m \in Nodes PROVE ToldAt(u[m], StatusAt(u, m))
  <2>1. StatusAt(t, m) = StatusAt(u, m)
    BY <1>1, EndsOfIs, SameStatus DEF Same
  <2>2. ToldAt(t[m], StatusAt(t, m))
    BY DEF Told
  <2>3. Same(t[m], u[m])
    BY <1>1
  <2> QED
    BY <2>1, <2>2, <2>3, Zenon DEF ToldAt, Same
<1> QED
  BY <1>2 DEF Told

LEMMA MarkedTold ==
    ASSUME NEW node \in NodeStates, NEW v
    PROVE  ToldAt(Marked(node, v), v)
BY MarkedIs, Zenon DEF ToldAt

LEMMA ToldOnce ==
    ASSUME NEW a, NEW b, NEW v, ToldAt(a, v), ToldAt(b, v)
    PROVE  Same(a, b)
BY Zenon DEF ToldAt, Same

\* A tree that is built again tells what its items say, and these are kept.
LEMMA RebuiltIs ==
    ASSUME NEW t \in Trees, NEW L \in SUBSET Items
    PROVE  /\ Rebuilt(t, L) \in Trees
           /\ \A i \in Items : Rebuilt(t, L)[i].selected = t[i].selected
<1> DEFINE copied == [n \in Nodes |-> [t[n] EXCEPT !.intent = Children(n) # {} /\ t[n].selected]]
<1>1. copied \in Trees /\ \A n \in Nodes : copied[n].selected = t[n].selected
  BY DEF Trees, NodeStates
<1>2. Rebuilt(t, L) = [n \in Nodes |-> IF n \in L /\ Up[n] # 0 THEN copied[n]
                                      ELSE Marked(copied[n], EndStatus(copied, L)[n])]
  BY DEF Rebuilt
<1> HIDE DEF copied
<1>3. \A n \in Nodes : copied[n] \in NodeStates
  BY <1>1 DEF Trees
<1>4. Rebuilt(t, L) \in Trees
  <2>1. \A n \in Nodes : (IF n \in L /\ Up[n] # 0 THEN copied[n]
                          ELSE Marked(copied[n], EndStatus(copied, L)[n])) \in NodeStates
    BY <1>3, MarkedIs
  <2> QED
    BY <1>2, <2>1 DEF Trees
<1>5. ASSUME NEW i \in Items PROVE Rebuilt(t, L)[i].selected = t[i].selected
  <2>1. i \in Nodes /\ Children(i) = {}
    BY Shape
  <2>2. EndStatus(copied, L)[i] = IF copied[i].selected THEN "all" ELSE "none"
    <3> DEFINE ends == {m \in Nodes : Countable(m, L) = {}}
               own == [m \in ends |-> IF copied[m].selected THEN "all" ELSE "none"]
               counted == {e \in ends \cap Below[i] : e = i \/ e \notin L}
    <3>1. Below[i] = {i} /\ i \in ends
      BY <2>1, BelowIs, BelowNodes DEF Countable
    <3>2. counted = {i} /\ own[i] = IF copied[i].selected THEN "all" ELSE "none"
      BY <3>1
    <3>3. EndStatus(copied, L)[i] = Verdict({own[e] : e \in counted})
      BY <2>1 DEF EndStatus
    <3> HIDE DEF counted, own
    <3>4. {own[e] : e \in counted} = {own[i]}
      BY <3>2
    <3> QED
      BY <3>2, <3>3, <3>4 DEF Verdict
  <2>3. CASE i \in L /\ Up[i] # 0
    BY <2>1, <2>3, <1>1, <1>2
  <2>4. CASE ~(i \in L /\ Up[i] # 0)
    <3>1. Rebuilt(t, L)[i] = Marked(copied[i], EndStatus(copied, L)[i])
      BY <2>1, <2>4, <1>2
    <3>2. Rebuilt(t, L)[i].selected = (EndStatus(copied, L)[i] = "all")
      <4>1. copied[i] \in NodeStates
        BY <2>1, <1>3
      <4>2. Marked(copied[i], EndStatus(copied, L)[i]).selected = (EndStatus(copied, L)[i] = "all")
        BY <4>1, MarkedIs, Zenon
      <4> QED
        BY <3>1, <4>2, Zenon
    <3>3. copied[i].selected \in BOOLEAN /\ copied[i].selected = t[i].selected
      BY <2>1, <1>1, <1>3 DEF NodeStates
    <3>4. CASE copied[i].selected = TRUE
      BY <3>2, <3>3, <3>4, <2>2
    <3>5. CASE copied[i].selected = FALSE
      BY <3>2, <3>3, <3>5, <2>2
    <3> QED
      BY <3>3, <3>4, <3>5
  <2> QED
    BY <2>3, <2>4
<1> QED
  BY <1>4, <1>5

LEMMA RebuiltTold ==
    ASSUME NEW t \in Trees
    PROVE  /\ Told(Rebuilt(t, {}))
           /\ SameSelection(Rebuilt(t, {}), t) <=> Told(t)
<1> DEFINE r == Rebuilt(t, {})
           copied == [n \in Nodes |-> [t[n] EXCEPT !.intent = Children(n) # {} /\ t[n].selected]]
<1>1. /\ \A n \in Nodes : copied[n] \in NodeStates /\ copied[n].selected = t[n].selected
      /\ \A n \in Nodes : t[n] \in NodeStates
  BY DEF Trees, NodeStates
<1>2. r = [n \in Nodes |-> Marked(copied[n], EndStatus(copied, {})[n])]
  BY DEF Rebuilt
<1> HIDE DEF copied, r
<1>3. \A n \in Nodes : EndStatus(copied, {})[n] = StatusAt(copied, n) /\ StatusAt(copied, n) = StatusAt(t, n)
  BY <1>1, EndStatusIs, EndsOfIs, SameStatus
<1>4. \A n \in Nodes : ToldAt(r[n], StatusAt(t, n))
  BY <1>1, <1>2, <1>3, MarkedTold
<1>5. \A e \in Nodes : Children(e) = {} => r[e].selected = t[e].selected
  <2> SUFFICES ASSUME NEW e \in Nodes, Children(e) = {} PROVE r[e].selected = t[e].selected
    OBVIOUS
  <2>1. StatusAt(t, e) = Own(t, e)
    BY StatusByChild
  <2>2. r[e].selected = (Own(t, e) = "all")
    BY <2>1, <1>4, Zenon DEF ToldAt
  <2>3. t[e].selected \in BOOLEAN
    BY <1>1 DEF NodeStates
  <2>4. CASE t[e].selected = TRUE
    BY <2>2, <2>4 DEF Own
  <2>5. CASE t[e].selected = FALSE
    BY <2>2, <2>5 DEF Own
  <2> QED
    BY <2>3, <2>4, <2>5
<1>6. \A m \in Nodes : StatusAt(r, m) = StatusAt(t, m)
  <2> TAKE m \in Nodes
  <2>1. \A e \in EndsOf(m) : r[e].selected = t[e].selected
    BY <1>5, EndsOfIs DEF EndsOf
  <2> QED
    BY <2>1, SameStatus
<1>7. Told(r)
  BY <1>4, <1>6 DEF Told
<1>8. ASSUME SameSelection(r, t) PROVE Told(t)
  BY <1>7, <1>8, ToldSame
<1>9. ASSUME Told(t) PROVE SameSelection(r, t)
  <2>1. \A n \in Nodes : Same(r[n], t[n])
    BY <1>4, <1>9, ToldOnce DEF Told
  <2> QED
    BY <2>1, SameSelectionIs
<1> QED
  BY <1>7, <1>8, <1>9 DEF r

\* After a cascade the folders tell what the items say, if those that it does
\* not reach did before.
LEMMA CascadeTold ==
    ASSUME NEW t \in Trees, NEW u \in Trees, NEW n \in Nodes, NEW flag \in BOOLEAN,
           Told(t), \A m \in Nodes : m # n => Same(u[m], t[m])
    PROVE  Told(Cascade(u, {}, n, Below[n], flag))
<1> DEFINE goal == IF flag THEN "all" ELSE "none"
           a == MarkedAll(u, Below[n], flag)
           b == FixBelow(a, {}, n)
           c == FixAbove(b, {}, n)
<1>1. a \in Trees /\ b \in Trees /\ c \in Trees
  BY MarkedAllIs, FixBelowIs, FixAboveIs
<1>2. \A m \in Nodes : u[m] \in NodeStates /\ a[m] \in NodeStates /\ b[m] \in NodeStates
  BY <1>1 DEF Trees
<1>3. \A m \in Nodes : a[m] = IF m \in Below[n] THEN Marked(u[m], goal) ELSE u[m]
  BY DEF MarkedAll
<1> HIDE DEF a
<1>4. \A m \in Nodes : b[m] = IF m \in Below[n] THEN Marked(a[m], EndStatus(a, {})[m]) ELSE a[m]
  <2>1. n \in Below[n]
    BY BelowNodes
  <2> QED
    BY <2>1, <1>1, FixBelowIs
<1> HIDE DEF b
<1>5. \A m \in Nodes : c[m] = FixStep(b, c, {}, n, m)
  BY <1>1, FixAboveIs
<1> HIDE DEF c
<1>6. \A m \in Below[n] : \A e \in Below[m] : e \in Below[n]
  <2> SUFFICES ASSUME NEW m \in Below[n], NEW e \in Below[m] PROVE e \in Below[n]
    OBVIOUS
  <2>0. m \in Nodes /\ e \in Nodes
    BY BelowNodes
  <2> DEFINE Good(d) == \A x \in Nodes : x \in Above[d] => \A y \in Above[x] : y \in Above[d]
             P == {k \in 0..NodeCount : \A d \in Nodes : d <= k => Good(d)}
  <2>1. 0 \in P
    BY Shape DEF Nodes
  <2>2. ASSUME NEW k \in 1..NodeCount, k - 1 \in P PROVE k \in P
    <3>1. ASSUME NEW d \in Nodes, d <= k PROVE Good(d)
      <4>1. CASE Up[d] = 0
        BY <4>1, AboveIs
      <4>2. CASE Up[d] # 0
        <5>1. Up[d] \in Nodes /\ Up[d] <= k - 1
          <6>1. Up[d] \in Nodes /\ Up[d] < d
            BY <4>2, Shape
          <6>2. Up[d] \in Nat /\ d \in Nat
            BY <6>1, Shape
          <6> QED
            BY <6>1, <6>2, <3>1
        <5>2. Good(Up[d])
          BY <5>1, <2>2
        <5>3. Above[d] = {Up[d]} \cup Above[Up[d]]
          BY <4>2, AboveIs
        <5> QED
          BY <5>2, <5>3
      <4> QED
        BY <4>1, <4>2
    <3> HIDE DEF Good
    <3> QED
      BY <3>1
  <2>3. \A k \in 0..NodeCount : k \in P
    <3> HIDE DEF P
    <3> QED
      BY <2>1, <2>2, Induct, Shape
  <2>4. Good(e)
    <3>1. NodeCount \in P /\ e <= NodeCount
      BY <2>0, <2>3, Shape DEF Nodes
    <3> HIDE DEF Good
    <3> QED
      BY <2>0, <3>1
  <2>5. (e = m \/ m \in Above[e]) /\ (m = n \/ n \in Above[m])
    BY <2>0, BelowIs
  <2>6. e = n \/ n \in Above[e]
    BY <2>0, <2>4, <2>5
  <2> QED
    BY <2>0, <2>6, BelowIs
<1>7. \A m \in Below[n] : ToldAt(b[m], goal)
  <2> SUFFICES ASSUME NEW m \in Below[n] PROVE ToldAt(b[m], goal)
    OBVIOUS
  <2>0. m \in Nodes
    BY BelowNodes
  <2>1. \A e \in EndsOf(m) : a[e].selected = flag
    <3> TAKE e \in EndsOf(m)
    <3>1. e \in Below[n] /\ e \in Nodes
      BY <1>6, <2>0, EndsOfIs DEF EndsOf
    <3>2. a[e] = Marked(u[e], goal) /\ u[e] \in NodeStates
      BY <3>1, <1>2, <1>3
    <3>3. a[e].selected = (goal = "all")
      <4> HIDE DEF goal
      <4>1. Marked(u[e], goal).selected = (goal = "all")
        BY <3>2, MarkedIs, Zenon
      <4> QED
        BY <3>2, <4>1, Zenon
    <3> QED
      BY <3>3
  <2>2. \A e \in EndsOf(m) : Own(a, e) = goal
    BY <2>1 DEF Own
  <2>3. {Own(a, e) : e \in EndsOf(m)} = {goal}
    BY <2>0, <2>2, EndsOfIs
  <2>4. Verdict({goal}) = goal
    BY DEF Verdict
  <2>5. EndStatus(a, {})[m] = goal
    BY <2>0, <2>3, <2>4, EndStatusIs DEF StatusAt
  <2>6. b[m] = Marked(a[m], goal)
    BY <2>0, <2>5, <1>4
  <2> QED
    BY <2>0, <2>6, <1>2, MarkedTold
<1>8. \A m \in Nodes : m \notin Below[n] => b[m] = u[m]
  BY <1>3, <1>4
<1>9. \A m \in Nodes : c[m] = IF m \in Above[n] /\ Children(m) # {}
                              THEN Marked(b[m], ByChildren(c, m)) ELSE b[m]
  BY <1>5 DEF FixStep, Countable, ByChildren
<1>10. \A m \in Below[n] : m \notin Above[n]
  <2> SUFFICES ASSUME NEW m \in Below[n], m \in Above[n] PROVE FALSE
    OBVIOUS
  <2>1. m \in Nodes /\ (m = n \/ n \in Above[m])
    BY BelowNodes, BelowIs
  <2>2. m < n /\ (m = n \/ n < m)
    BY <2>1, AboveByChild
  <2>3. m \in Nat /\ n \in Nat
    BY <2>1, Shape
  <2> QED
    BY <2>2, <2>3
<1>11. \A m \in Below[n] : c[m] = b[m]
  BY <1>9, <1>10, BelowNodes
<1>12. Local(t)
  BY LocalIsTold
<1>13. ASSUME NEW m \in Nodes
       PROVE  ToldAt(c[m], IF Children(m) = {} THEN Own(c, m) ELSE ByChildren(c, m))
  <2>1. CASE m \in Below[n]
    <3>1. ToldAt(c[m], goal)
      BY <2>1, <1>7, <1>11
    <3>2. CASE Children(m) = {}
      <4>1. c[m].selected = (goal = "all")
        BY <3>1, Zenon DEF ToldAt
      <4>2. Own(c, m) = goal
        BY <4>1 DEF Own
      <4> QED
        BY <3>1, <3>2, <4>2
    <3>3. CASE Children(m) # {}
      <4>1. \A d \in Children(m) : d \in Below[n]
        <5> TAKE d \in Children(m)
        <5>1. d \in Nodes
          BY Shape
        <5>2. d \in Below[m]
          BY <5>1, BelowIs, BelowNodes
        <5> QED
          BY <5>2, <2>1, <1>6
      <4>2. \A d \in Children(m) : StatusOf(c[d]) = goal
        <5> TAKE d \in Children(m)
        <5>1. ToldAt(c[d], goal) /\ goal \in States
          BY <4>1, <1>7, <1>11 DEF States
        <5> HIDE DEF goal
        <5> QED
          BY <5>1, ToldStatus
      <4>3. {StatusOf(c[d]) : d \in Children(m)} = {goal}
        BY <4>2, <3>3
      <4>4. ByChildren(c, m) = goal
        BY <4>3 DEF ByChildren, Verdict
      <4> HIDE DEF goal
      <4> QED
        BY <3>1, <3>3, <4>4
    <3> QED
      BY <3>2, <3>3
  <2>2. CASE m \in Above[n]
    <3>1. Children(m) # {}
      BY <2>2, AboveByChild
    <3>2. c[m] = Marked(b[m], ByChildren(c, m))
      BY <2>2, <3>1, <1>9
    <3>3. ToldAt(c[m], ByChildren(c, m))
      BY <3>2, <1>2, MarkedTold
    <3> QED
      BY <3>1, <3>3
  <2>3. CASE m \notin Below[n] /\ m \notin Above[n]
    <3>1. \A d \in Children(m) : d \notin Below[n] /\ d \notin Above[n] /\ d \in Nodes
      <4> TAKE d \in Children(m)
      <4>0. d \in Nodes /\ Up[d] = m /\ m # 0
        BY Shape DEF Nodes
      <4>1. d \notin Above[n]
        BY <2>3, AboveByChild
      <4>2. d # n
        BY <2>3, AboveByChild
      <4>3. ASSUME n \in Above[d] PROVE FALSE
        <5>1. n = m \/ n \in Above[m]
          BY <4>0, <4>3, AboveIs
        <5> QED
          BY <5>1, <2>3, BelowIs
      <4> QED
        BY <4>0, <4>1, <4>2, <4>3, BelowIs
    <3>2. \A d \in Nodes : d \notin Below[n] /\ d \notin Above[n] => Same(c[d], t[d])
      <4> SUFFICES ASSUME NEW d \in Nodes, d \notin Below[n], d \notin Above[n]
                   PROVE  Same(c[d], t[d])
        OBVIOUS
      <4>1. d # n
        BY BelowNodes
      <4>2. c[d] = u[d]
        BY <1>8, <1>9
      <4> QED
        BY <4>1, <4>2
    <3>3. \A d \in Children(m) : StatusOf(c[d]) = StatusOf(t[d])
      BY <3>1, <3>2 DEF Same, StatusOf
    <3>4. {StatusOf(c[d]) : d \in Children(m)} = {StatusOf(t[d]) : d \in Children(m)}
      BY <3>3
    <3>5. ByChildren(c, m) = ByChildren(t, m)
      BY <3>4 DEF ByChildren
    <3>6. Same(c[m], t[m])
      BY <2>3, <3>2
    <3>7. Own(c, m) = Own(t, m)
      BY <3>6 DEF Same, Own
    <3>8. ToldAt(t[m], IF Children(m) = {} THEN Own(t, m) ELSE ByChildren(t, m))
      BY <1>12 DEF Local
    <3>9. \A v : ToldAt(t[m], v) => ToldAt(c[m], v)
      BY <3>6, Zenon DEF Same, ToldAt
    <3> QED
      BY <3>5, <3>7, <3>8, <3>9
  <2> QED
    BY <2>1, <2>2, <2>3
<1>14. Told(c)
  BY <1>13, LocalIsTold DEF Local
<1>15. Cascade(u, {}, n, Below[n], flag) = c
  BY CascadeIs DEF a, b, c
<1> QED
  BY <1>14, <1>15

LEMMA SetSelectedTold ==
    ASSUME NEW t \in Trees, Told(t), NEW n \in Nodes, NEW flag \in BOOLEAN
    PROVE  Told(SetSelected(t, {}, n, flag))
<1> DEFINE meant == Meant(t, n, flag)
<1>1. meant \in Trees /\ \A m \in Nodes : Same(meant[m], t[m])
  BY MeantIs DEF Same
<1>2. \A m \in Nodes : Same(t[m], meant[m])
  BY <1>1 DEF Same
<1> HIDE DEF meant
<1>3. Told(meant)
  BY <1>2, SameSelectionIs, ToldSame
<1>4. Told(Cascade(meant, {}, n, Below[n], flag))
  BY <1>1, CascadeTold
<1>5. Below[n] \ {} = Below[n]
  OBVIOUS
<1>6. SetSelected(t, {}, n, flag) = IF t[n].selected = flag /\ ~(t[n].partsel /\ ~flag) THEN meant
                                   ELSE Cascade(meant, {}, n, Below[n], flag)
  BY <1>5 DEF SetSelected, meant
<1> QED
  BY <1>3, <1>4, <1>6

LEMMA ToggleSelectedTold ==
    ASSUME NEW t \in Trees, Told(t), NEW n \in Nodes
    PROVE  Told(ToggleSelected(t, {}, n))
<1> DEFINE resumed == t[n].partsel /\ ~t[n].selected /\ t[n].intent
           flag == ~t[n].selected /\ ~resumed
           meant == [Meant(t, n, flag) EXCEPT ![n].selected = @ \/ resumed]
<1>1. flag \in BOOLEAN /\ resumed \in BOOLEAN
  OBVIOUS
<1> HIDE DEF flag, resumed
<1>2. Meant(t, n, flag) \in Trees /\ \A m \in Nodes : Same(Meant(t, n, flag)[m], t[m])
  BY <1>1, MeantIs DEF Same
<1>3. meant \in Trees /\ \A m \in Nodes : m # n => meant[m] = Meant(t, n, flag)[m]
  BY <1>1, <1>2 DEF Trees, NodeStates
<1> HIDE DEF meant
<1>4. Told(Cascade(meant, {}, n, Below[n], flag))
  BY <1>1, <1>2, <1>3, CascadeTold
<1>5. ToggleSelected(t, {}, n) = IF n \in {} THEN meant ELSE Cascade(meant, {}, n, Below[n], flag)
  BY Zenon DEF ToggleSelected, meant, flag, resumed
<1> QED
  BY <1>4, <1>5

LEMMA SetLoopKeeps ==
    ASSUME NEW f, NEW t, NEW L, NEW items, NEW flag \in BOOLEAN, SetLoop(f, t, L, items, flag)
    PROVE  /\ f[NodeCount] \in Trees
           /\ L = {} /\ Told(t) => Told(f[NodeCount])
<1>1. f[NodeCount] \in Trees
  BY Shape DEF SetLoop
<1>2. ASSUME L = {}, Told(t) PROVE Told(f[NodeCount])
  <2> DEFINE P == {n \in 0..NodeCount : Told(f[n])}
  <2>1. 0 \in P
    BY <1>2, Shape DEF SetLoop
  <2>2. ASSUME NEW n \in 1..NodeCount, n - 1 \in P PROVE n \in P
    <3>1. n \in Nodes /\ n - 1 \in 0..NodeCount /\ n \in 0..NodeCount
      BY Shape DEF Nodes
    <3>2. f[n - 1] \in Trees /\ Told(f[n - 1])
      BY <2>2, <3>1 DEF SetLoop
    <3>3. f[n] = IF n \in items THEN SetSelected(f[n - 1], {}, n, flag) ELSE f[n - 1]
      BY <1>2, <3>1 DEF SetLoop
    <3>4. Told(f[n])
      BY <3>1, <3>2, <3>3, SetSelectedTold
    <3> QED
      BY <3>1, <3>4
  <2>3. \A n \in 0..NodeCount : n \in P
    <3> HIDE DEF P
    <3> QED
      BY <2>1, <2>2, Induct, Shape
  <2> QED
    BY <2>3, Shape
<1> QED
  BY <1>1, <1>2

-----------------------------------------------------------------------------
(* The invariant.                                                           *)

Scripts == {NoScript, StaleScript} \cup [phase : {"fresh"}, mirror : Trees, moved : SUBSET Nodes]

\* Where the script has moved nothing, its mirror selects the items that the
\* tree does.
MirrorAgrees(sc, t) ==
    sc.phase = "fresh" => \A i \in Items \ sc.moved : sc.mirror[i].selected = t[i].selected

\* As long as nothing is locked, tree and mirror tell what their items say and
\* are the same where the script has moved nothing.
NothingLocked(ever, L, t, sc) ==
    ever \/ /\ L = {} /\ Told(t)
            /\ sc.phase = "fresh" => /\ Told(sc.mirror)
                                     /\ \A n \in Nodes \ sc.moved : Same(sc.mirror[n], t[n])

DisplayIs(d, t) == d # StaleDisplay => d \in Trees /\ \A n \in Nodes : Same(d[n], t[n])

TreeInv ==
    /\ tree \in Trees
    /\ locked \in SUBSET Items
    /\ remembered \in [locked -> BOOLEAN]
    /\ everLocked \in BOOLEAN
    /\ script \in Scripts
    /\ DisplayIs(display, tree)
    /\ MirrorAgrees(script, tree)
    /\ NothingLocked(everLocked, locked, tree, script)

LEMMA TreeInvGives ==
    ASSUME TreeInv
    PROVE  TreeTypeOK /\ TreeTellsTheItems /\ ScriptEditsLand
<1>1. TreeTypeOK
  BY DEF TreeInv, TreeTypeOK, Scripts, NoScript, StaleScript, Running, DisplayIs
<1>2. DisplayFollows
  BY SameSelectionIs DEF TreeInv, DisplayIs, DisplayFollows
<1>3. FoldersTellTheItems
  <2>1. tree \in Trees
    BY DEF TreeInv
  <2>2. everLocked \/ Told(tree)
    BY DEF TreeInv, NothingLocked
  <2> QED
    BY <2>1, <2>2, RebuiltTold DEF FoldersTellTheItems
<1>4. ScriptEditsLand
  <2> SUFFICES ASSUME Running
               PROVE  SelectedItems(Stamped(tree, ScriptChanges)) = SelectedItems(script.mirror)
    BY DEF ScriptEditsLand
  <2>1. script.mirror \in Trees /\ script.moved \in SUBSET Nodes /\ tree \in Trees
    BY DEF TreeInv, Scripts, NoScript, StaleScript, Running
  <2>2. \A i \in Items \ script.moved : script.mirror[i].selected = tree[i].selected
    BY DEF TreeInv, MirrorAgrees, Running
  <2> DEFINE changes == ScriptChanges
  <2>3. /\ DOMAIN changes = script.moved
        /\ \A n \in script.moved : changes[n].selected = script.mirror[n].selected
    BY DEF ScriptChanges
  <2> HIDE DEF changes
  <2>4. ASSUME NEW i \in Items
        PROVE  Stamped(tree, changes)[i].selected = script.mirror[i].selected
    <3>1. i \in Nodes
      BY Shape
    <3>2. tree[i] \in NodeStates
      BY <2>1, <3>1 DEF Trees
    <3>3. CASE i \in script.moved
      <4>1. Stamped(tree, changes)[i] = [tree[i] EXCEPT !.selected = changes[i].selected,
                                                       !.partsel = changes[i].partsel]
        BY <2>3, <3>1, <3>3 DEF Stamped
      <4>2. Stamped(tree, changes)[i].selected = changes[i].selected
        BY <3>2, <4>1 DEF NodeStates
      <4> QED
        BY <4>2, <2>3, <3>3
    <3>4. CASE i \notin script.moved
      BY <2>2, <2>3, <3>1, <3>4 DEF Stamped
    <3> QED
      BY <3>3, <3>4
  <2> QED
    BY <2>4 DEF SelectedItems, changes
<1> QED
  BY <1>1, <1>2, <1>3, <1>4 DEF TreeTellsTheItems

LEMMA OutdateIs ==
    ASSUME script \in Scripts, Outdate
    PROVE  /\ script' \in {NoScript, StaleScript} /\ display' = StaleDisplay
           /\ \A t : DisplayIs(display', t) /\ MirrorAgrees(script', t)
           /\ \A ever, L, t : ever \/ (L = {} /\ Told(t)) => NothingLocked(ever, L, t, script')
BY DEF Outdate, Scripts, NoScript, StaleScript, DisplayIs, MirrorAgrees, NothingLocked

RecordedIs(c, t, u) ==
    /\ DOMAIN c = {n \in Nodes : ~Same(t[n], u[n])}
    /\ \A n \in DOMAIN c : c[n].selected = u[n].selected /\ c[n].partsel = u[n].partsel

LEMMA RecordedLemma == \A t, u : RecordedIs(Recorded(t, u), t, u)
BY DEF Recorded, RecordedIs, Same

LEMMA UiBatchKeeps ==
    ASSUME TreeInv, NEW u \in Trees, UiBatch(u), locked = {} /\ Told(tree) => Told(u)
    PROVE  TreeInv'
<1> DEFINE c == Recorded(tree, u)
<1>0. tree \in Trees /\ display \in Trees /\ \A n \in Nodes : Same(display[n], tree[n])
  BY DEF TreeInv, UiBatch, DisplayIs
<1>1. RecordedIs(c, tree, u)
  BY RecordedLemma
<1>2. /\ tree' = u /\ display' = StateChangesApplied(display, c)
      /\ script' = IF DOMAIN c # {} /\ Running THEN StaleScript ELSE script
      /\ locked' = locked /\ remembered' = remembered /\ everLocked' = everLocked
  BY DEF UiBatch
<1> HIDE DEF c
<1>3. DisplayIs(display', tree')
  <2> DEFINE d == StateChangesApplied(display, c)
  <2>1. ASSUME NEW n \in Nodes PROVE d[n] \in NodeStates /\ Same(d[n], u[n])
    <3>1. display[n] \in NodeStates /\ u[n] \in NodeStates
      BY <1>0 DEF Trees
    <3>2. CASE n \in DOMAIN c
      <4>1. d[n] = [display[n] EXCEPT !.selected = c[n].selected, !.partsel = c[n].partsel]
        BY <3>2 DEF StateChangesApplied
      <4>2. c[n].selected = u[n].selected /\ c[n].partsel = u[n].partsel
        BY <1>1, <3>2 DEF RecordedIs
      <4>3. d[n] = [display[n] EXCEPT !.selected = u[n].selected, !.partsel = u[n].partsel]
        BY <4>1, <4>2
      <4> HIDE DEF d
      <4> QED
        BY <3>1, <4>3 DEF NodeStates, Same
    <3>3. CASE n \notin DOMAIN c
      <4>1. d[n] = display[n]
        BY <3>3 DEF StateChangesApplied
      <4>2. Same(tree[n], u[n])
        BY <1>1, <3>3 DEF RecordedIs
      <4>3. Same(display[n], tree[n])
        BY <1>0
      <4> HIDE DEF d
      <4>4. Same(display[n], u[n])
        BY <4>2, <4>3, Zenon DEF Same
      <4> QED
        BY <3>1, <4>1, <4>4
    <3> QED
      BY <3>2, <3>3
  <2>2. d \in Trees
    BY <2>1 DEF StateChangesApplied, Trees
  <2> HIDE DEF d
  <2> QED
    BY <1>2, <2>1, <2>2 DEF DisplayIs, d
<1>4. script' \in Scripts
  BY <1>2 DEF TreeInv, Scripts
<1>5. CASE DOMAIN c # {} /\ Running
  <2>1. script' = StaleScript
    BY <1>2, <1>5
  <2>2. MirrorAgrees(script', tree')
    BY <2>1 DEF MirrorAgrees, StaleScript
  <2>3. NothingLocked(everLocked', locked', tree', script')
    BY <1>2, <2>1 DEF TreeInv, NothingLocked, StaleScript
  <2> QED
    BY <1>2, <1>3, <1>4, <2>2, <2>3 DEF TreeInv
<1>6. CASE ~Running
  <2>1. script' = script /\ script.phase # "fresh"
    BY <1>2, <1>6 DEF Running
  <2>2. MirrorAgrees(script', tree')
    BY <2>1 DEF MirrorAgrees
  <2>3. NothingLocked(everLocked', locked', tree', script')
    BY <1>2, <2>1 DEF TreeInv, NothingLocked
  <2> QED
    BY <1>2, <1>3, <1>4, <2>2, <2>3 DEF TreeInv
<1>7. CASE DOMAIN c = {}
  <2>1. script' = script
    BY <1>2, <1>7
  <2>2. \A n \in Nodes : Same(tree[n], u[n])
    BY <1>1, <1>7 DEF RecordedIs
  <2>3. MirrorAgrees(script', tree')
    <3>1. \A i \in Items : tree[i].selected = u[i].selected
      BY <2>2, Shape DEF Same
    <3> QED
      BY <2>1, <3>1, <1>2 DEF MirrorAgrees, TreeInv
  <2>4. NothingLocked(everLocked', locked', tree', script')
    <3>1. \A a : \A n \in Nodes : Same(a, tree[n]) => Same(a, u[n])
      BY <2>2, Zenon DEF Same
    <3> QED
      BY <1>2, <2>1, <3>1 DEF TreeInv, NothingLocked
  <2> QED
    BY <1>2, <1>3, <1>4, <2>3, <2>4 DEF TreeInv
<1> QED
  BY <1>5, <1>6, <1>7

LEMMA BackendBatchKeeps ==
    ASSUME TreeInv, NEW u \in Trees, BackendBatch(u), locked = {} /\ Told(tree) => Told(u)
    PROVE  TreeInv'
<1> DEFINE c == Recorded(tree, u)
<1>1. RecordedIs(c, tree, u)
  BY RecordedLemma
<1>2. /\ tree' = u
      /\ IF DOMAIN c # {} THEN Outdate ELSE UNCHANGED <<script, display>>
      /\ locked' = locked /\ remembered' = remembered /\ everLocked' = everLocked
  BY DEF BackendBatch
<1> HIDE DEF c
<1>3. CASE DOMAIN c # {}
  <2>1. Outdate /\ script \in Scripts
    BY <1>2, <1>3 DEF TreeInv
  <2>2. everLocked \/ (locked = {} /\ Told(u))
    BY DEF TreeInv, NothingLocked
  <2> QED
    BY <1>2, <2>1, <2>2, OutdateIs DEF TreeInv, Scripts
<1>4. CASE DOMAIN c = {}
  <2>1. script' = script /\ display' = display
    BY <1>2, <1>4
  <2>2. \A n \in Nodes : Same(tree[n], u[n])
    BY <1>1, <1>4 DEF RecordedIs
  <2>3. MirrorAgrees(script', tree')
    <3>1. \A i \in Items : tree[i].selected = u[i].selected
      BY <2>2, Shape DEF Same
    <3> QED
      BY <2>1, <3>1, <1>2 DEF MirrorAgrees, TreeInv
  <2>4. \A a : \A n \in Nodes : Same(a, tree[n]) => Same(a, u[n])
    BY <2>2, Zenon DEF Same
  <2>5. NothingLocked(everLocked', locked', tree', script')
    BY <1>2, <2>1, <2>4 DEF TreeInv, NothingLocked
  <2>6. DisplayIs(display', tree')
    BY <1>2, <2>1, <2>4 DEF TreeInv, DisplayIs
  <2> QED
    BY <1>2, <2>1, <2>3, <2>5, <2>6 DEF TreeInv
<1> QED
  BY <1>3, <1>4

LEMMA MirrorKeeps ==
    ASSUME TreeInv, Running, NEW u \in Trees, MirrorBecomes(u),
           locked = {} /\ Told(script.mirror) => Told(u)
    PROVE  TreeInv'
<1> DEFINE c == Recorded(script.mirror, u)
<1>1. RecordedIs(c, script.mirror, u)
  BY RecordedLemma
<1>2. /\ script' = [script EXCEPT !.mirror = u, !.moved = @ \cup DOMAIN c]
      /\ tree' = tree /\ locked' = locked /\ remembered' = remembered
      /\ display' = display /\ everLocked' = everLocked
  BY DEF MirrorBecomes
<1> HIDE DEF c
<1>3. script \in [phase : {"fresh"}, mirror : Trees, moved : SUBSET Nodes]
  BY DEF TreeInv, Scripts, NoScript, StaleScript, Running
<1>4. DOMAIN c \in SUBSET Nodes
  BY <1>1 DEF RecordedIs
<1>5. /\ script'.phase = "fresh" /\ script'.mirror = u /\ script'.moved = script.moved \cup DOMAIN c
      /\ script' \in Scripts
  BY <1>2, <1>3, <1>4 DEF Scripts
<1>6. \A n \in Nodes \ DOMAIN c : Same(script.mirror[n], u[n])
  BY <1>1 DEF RecordedIs
<1>7. MirrorAgrees(script', tree')
  <2>1. \A i \in Items \ script.moved : script.mirror[i].selected = tree[i].selected
    BY <1>3 DEF TreeInv, MirrorAgrees
  <2>2. \A i \in Items \ DOMAIN c : script.mirror[i].selected = u[i].selected
    BY <1>6, Shape DEF Same
  <2>3. \A i \in Items \ script'.moved : u[i].selected = tree[i].selected
    BY <2>1, <2>2, <1>5
  <2> QED
    BY <2>3, <1>2, <1>5 DEF MirrorAgrees
<1>8. NothingLocked(everLocked', locked', tree', script')
  <2>1. CASE everLocked
    BY <2>1, <1>2 DEF NothingLocked
  <2>2. CASE ~everLocked
    <3>1. /\ locked = {} /\ Told(tree) /\ Told(script.mirror)
          /\ \A n \in Nodes \ script.moved : Same(script.mirror[n], tree[n])
      BY <2>2, <1>3 DEF TreeInv, NothingLocked
    <3>2. \A n \in Nodes \ script'.moved : Same(u[n], tree[n])
      <4> TAKE n \in Nodes \ script'.moved
      <4>1. Same(script.mirror[n], tree[n]) /\ Same(script.mirror[n], u[n])
        BY <3>1, <1>5, <1>6
      <4> QED
        BY <4>1, Zenon DEF Same
    <3> QED
      BY <3>1, <3>2, <1>2, <1>5 DEF NothingLocked
  <2> QED
    BY <2>1, <2>2
<1> QED
  BY <1>2, <1>5, <1>7, <1>8 DEF TreeInv

LEMMA ReplaceMatrixIs ==
    ASSUME TreeInv, NEW denied \in SUBSET Items
    PROVE  LET new == Imposed(Released([tree |-> tree, locked |-> locked,
                                        remembered |-> remembered]), denied)
           IN /\ MatrixState(new) /\ new.locked = denied
              /\ locked = {} /\ denied = {} => new.tree = tree
              /\ \A i \in locked : IF i \in denied THEN new.remembered[i] = remembered[i]
                                   ELSE new.tree[i].selected = remembered[i]
<1> DEFINE st == [tree |-> tree, locked |-> locked, remembered |-> remembered]
           given == Released(st)
           new == Imposed(given, denied)
<1>1. /\ MatrixState(st) /\ st.tree = tree /\ st.locked = locked /\ st.remembered = remembered
  BY DEF TreeInv, MatrixState
<1> HIDE DEF st
<1>2. /\ MatrixState(given) /\ given.locked = {}
      /\ \A i \in st.locked : given.tree[i].selected = st.remembered[i]
      /\ st.locked = {} => given.tree = st.tree
  BY <1>1, ReleasedGives
<1> HIDE DEF given
<1>3. /\ MatrixState(new) /\ new.locked = denied
      /\ \A i \in denied : new.remembered[i] = given.tree[i].selected
      /\ \A i \in Items \ denied : new.tree[i].selected = given.tree[i].selected
      /\ denied = {} => new.tree = given.tree
  BY <1>2, ImposedKeeps
<1> HIDE DEF new
<1>4. locked \subseteq Items
  BY DEF TreeInv
<1>5. \A i \in locked : IF i \in denied THEN new.remembered[i] = remembered[i]
                        ELSE new.tree[i].selected = remembered[i]
  <2> TAKE i \in locked
  <2>1. given.tree[i].selected = remembered[i]
    BY <1>1, <1>2
  <2>2. CASE i \in denied
    BY <2>1, <2>2, <1>3
  <2>3. CASE i \notin denied
    BY <2>1, <2>3, <1>3, <1>4
  <2> QED
    BY <2>2, <2>3
<1>6. locked = {} /\ denied = {} => new.tree = tree
  BY <1>1, <1>2, <1>3
<1> QED
  BY <1>3, <1>5, <1>6 DEF new, given, st

LEMMA TreeInitInv == TreeInit => TreeInv
<1> SUFFICES ASSUME TreeInit PROVE TreeInv
  OBVIOUS
<1> DEFINE r == Rebuilt(Blank, {})
           st == [tree |-> r, locked |-> {}, remembered |-> [i \in {} |-> FALSE]]
<1>1. PICK denied \in SUBSET Items :
         /\ tree = Imposed(st, denied).tree
         /\ locked = Imposed(st, denied).locked
         /\ remembered = Imposed(st, denied).remembered
         /\ everLocked = (denied # {})
         /\ script = NoScript
         /\ display = StaleDisplay
  BY Zenon DEF TreeInit
<1>2. Blank \in Trees
  BY DEF Blank, Trees, NodeStates
<1>3. r \in Trees /\ Told(r)
  BY <1>2, RebuiltIs, RebuiltTold
<1> HIDE DEF r
<1>4. MatrixState(st) /\ st.locked = {} /\ st.tree = r
  BY <1>3 DEF MatrixState
<1> HIDE DEF st
<1> DEFINE new == Imposed(st, denied)
<1>5. MatrixState(new) /\ new.locked = denied /\ (denied = {} => new.tree = r)
  BY <1>4, ImposedKeeps
<1> HIDE DEF new
<1>6. tree = new.tree /\ locked = new.locked /\ remembered = new.remembered
  BY <1>1 DEF new
<1>7. tree \in Trees /\ locked \in SUBSET Items /\ remembered \in [locked -> BOOLEAN]
  BY <1>5, <1>6 DEF MatrixState
<1>8. everLocked \in BOOLEAN /\ (everLocked \/ (locked = {} /\ Told(tree)))
  BY <1>1, <1>3, <1>5, <1>6
<1> QED
  BY <1>1, <1>7, <1>8
  DEF TreeInv, Scripts, NoScript, DisplayIs, MirrorAgrees, NothingLocked

LEMMA ReplaceMatrixKeeps == TreeInv /\ ReplaceMatrix => TreeInv'
<1> SUFFICES ASSUME TreeInv, ReplaceMatrix PROVE TreeInv'
  OBVIOUS
<1> DEFINE st == [tree |-> tree, locked |-> locked, remembered |-> remembered]
<1>1. PICK denied \in SUBSET Items :
         /\ tree' = Imposed(Released(st), denied).tree
         /\ locked' = Imposed(Released(st), denied).locked
         /\ remembered' = Imposed(Released(st), denied).remembered
         /\ everLocked' = (everLocked \/ denied # {})
         /\ Outdate
  BY Zenon DEF ReplaceMatrix
<1> DEFINE new == Imposed(Released(st), denied)
<1>2. /\ MatrixState(new) /\ new.locked = denied
      /\ locked = {} /\ denied = {} => new.tree = tree
  BY ReplaceMatrixIs
<1> HIDE DEF new
<1>3. tree' = new.tree /\ locked' = new.locked /\ remembered' = new.remembered
  BY <1>1 DEF new
<1>4. tree' \in Trees /\ locked' \in SUBSET Items /\ remembered' \in [locked' -> BOOLEAN]
  BY <1>2, <1>3 DEF MatrixState
<1>5. everLocked' \in BOOLEAN /\ (everLocked' \/ (locked' = {} /\ Told(tree')))
  <2>1. everLocked \/ (locked = {} /\ Told(tree))
    BY DEF TreeInv, NothingLocked
  <2>2. everLocked \in BOOLEAN
    BY DEF TreeInv
  <2>3. CASE everLocked' = FALSE
    <3>1. denied = {} /\ everLocked = FALSE
      BY <1>1, <2>2, <2>3
    <3>2. locked' = {} /\ tree' = tree
      BY <3>1, <2>1, <1>2, <1>3
    <3> QED
      BY <3>1, <3>2, <2>1, <2>3
  <2>4. CASE everLocked' = TRUE
    BY <2>4
  <2> QED
    BY <1>1, <2>2, <2>3, <2>4
<1>6. script \in Scripts
  BY DEF TreeInv
<1>7. /\ script' \in {NoScript, StaleScript}
      /\ DisplayIs(display', tree') /\ MirrorAgrees(script', tree')
      /\ NothingLocked(everLocked', locked', tree', script')
  BY <1>1, <1>5, <1>6, OutdateIs
<1> QED
  BY <1>4, <1>5, <1>7 DEF TreeInv, Scripts

LEMMA ScriptStartsKeeps == TreeInv /\ ScriptStarts => TreeInv'
<1> SUFFICES ASSUME TreeInv, ScriptStarts PROVE TreeInv'
  OBVIOUS
<1> DEFINE m == Rebuilt(LiveSnapshot, locked)
<1>1. LiveSnapshot \in Trees /\ \A n \in Nodes : Same(tree[n], LiveSnapshot[n])
  BY DEF LiveSnapshot, TreeInv, Trees, NodeStates, Same
<1>2. m \in Trees /\ \A i \in Items : m[i].selected = tree[i].selected
  <2>1. m \in Trees /\ \A i \in Items : m[i].selected = LiveSnapshot[i].selected
    BY <1>1, RebuiltIs DEF TreeInv
  <2> QED
    BY <2>1, <1>1, Shape DEF Same
<1>3. locked = {} /\ Told(tree) => Told(m) /\ \A n \in Nodes : Same(m[n], tree[n])
  <2> SUFFICES ASSUME locked = {}, Told(tree)
               PROVE  Told(m) /\ \A n \in Nodes : Same(m[n], tree[n])
    OBVIOUS
  <2>1. Told(LiveSnapshot)
    BY <1>1, ToldSame, SameSelectionIs
  <2>2. Told(m) /\ SameSelection(m, LiveSnapshot)
    BY <1>1, <2>1, RebuiltTold
  <2>3. \A n \in Nodes : Same(m[n], LiveSnapshot[n])
    BY <2>2, SameSelectionIs
  <2>4. ASSUME NEW n \in Nodes PROVE Same(m[n], tree[n])
    <3>1. Same(m[n], LiveSnapshot[n]) /\ Same(tree[n], LiveSnapshot[n])
      BY <2>3, <1>1
    <3> HIDE DEF m
    <3> QED
      BY <3>1, Zenon DEF Same
  <2> QED
    BY <2>2, <2>4
<1>4. /\ script' = [phase |-> "fresh", mirror |-> m, moved |-> {}]
      /\ UNCHANGED <<tree, locked, remembered, display, everLocked>>
  BY DEF ScriptStarts
<1> HIDE DEF m
<1>5. /\ script' \in Scripts /\ script'.phase = "fresh" /\ script'.mirror = m /\ script'.moved = {}
  BY <1>2, <1>4 DEF Scripts
<1>6. MirrorAgrees(script', tree')
  BY <1>2, <1>4, <1>5 DEF MirrorAgrees
<1>7. NothingLocked(everLocked', locked', tree', script')
  BY <1>3, <1>4, <1>5 DEF NothingLocked, TreeInv
<1> QED
  BY <1>4, <1>5, <1>6, <1>7 DEF TreeInv

LEMMA ScriptCompletesKeeps == TreeInv /\ ScriptCompletes => TreeInv'
<1> SUFFICES ASSUME TreeInv, ScriptCompletes PROVE TreeInv'
  OBVIOUS
<1> DEFINE c == ScriptChanges
           u == Stamped(tree, c)
<1>1. /\ script.mirror \in Trees /\ script.moved \in SUBSET Nodes /\ tree \in Trees
      /\ script.phase = "fresh"
  BY DEF TreeInv, Scripts, NoScript, StaleScript, Running, ScriptCompletes
<1>2. /\ DOMAIN c = script.moved
      /\ \A n \in script.moved : c[n].selected = script.mirror[n].selected
                                 /\ c[n].partsel = script.mirror[n].partsel
  BY DEF ScriptChanges
<1>3. /\ script' = NoScript /\ tree' = u
      /\ locked' = locked /\ everLocked' = everLocked
      /\ remembered' \in [locked -> BOOLEAN]
      /\ display' = StaleDisplay \/ (script.moved = {} /\ display' = display)
  BY DEF ScriptCompletes
<1> HIDE DEF c
<1>4. ASSUME NEW n \in Nodes
      PROVE  /\ u[n] \in NodeStates
             /\ n \in script.moved => Same(u[n], script.mirror[n])
             /\ n \notin script.moved => u[n] = tree[n]
  <2>1. tree[n] \in NodeStates /\ script.mirror[n] \in NodeStates
    BY <1>1 DEF Trees
  <2>2. CASE n \in script.moved
    <3>1. u[n] = [tree[n] EXCEPT !.selected = c[n].selected, !.partsel = c[n].partsel]
      BY <1>2, <2>2 DEF Stamped
    <3>2. u[n] = [tree[n] EXCEPT !.selected = script.mirror[n].selected,
                                 !.partsel = script.mirror[n].partsel]
      BY <3>1, <1>2, <2>2
    <3> HIDE DEF u
    <3> QED
      BY <2>1, <2>2, <3>2 DEF NodeStates, Same
  <2>3. CASE n \notin script.moved
    BY <1>2, <2>1, <2>3 DEF Stamped
  <2> QED
    BY <2>2, <2>3
<1>5. u \in Trees
  BY <1>4 DEF Stamped, Trees
<1> HIDE DEF u
<1>6. DisplayIs(display', tree')
  <2>1. CASE display' = StaleDisplay
    BY <2>1 DEF DisplayIs
  <2>2. CASE script.moved = {} /\ display' = display
    <3>1. \A n \in Nodes : u[n] = tree[n]
      BY <2>2, <1>4
    <3> QED
      BY <3>1, <2>2, <1>3 DEF TreeInv, DisplayIs
  <2> QED
    BY <2>1, <2>2, <1>3
<1>7. everLocked \/ (locked = {} /\ Told(u))
  <2> SUFFICES ASSUME ~everLocked PROVE locked = {} /\ Told(u)
    OBVIOUS
  <2>1. /\ locked = {} /\ Told(script.mirror)
        /\ \A n \in Nodes \ script.moved : Same(script.mirror[n], tree[n])
    BY <1>1 DEF TreeInv, NothingLocked
  <2>2. \A n \in Nodes : Same(script.mirror[n], u[n])
    <3> TAKE n \in Nodes
    <3>1. CASE n \in script.moved
      BY <3>1, <1>4, Zenon DEF Same
    <3>2. CASE n \notin script.moved
      BY <3>2, <2>1, <1>4
    <3> QED
      BY <3>1, <3>2
  <2>3. Told(u)
    BY <2>1, <2>2, SameSelectionIs, ToldSame
  <2> QED
    BY <2>1, <2>3
<1>8. NothingLocked(everLocked', locked', tree', script') /\ MirrorAgrees(script', tree')
  BY <1>3, <1>7 DEF NothingLocked, MirrorAgrees, NoScript
<1> QED
  BY <1>3, <1>5, <1>6, <1>8 DEF TreeInv, Scripts

LEMMA TreeNextInv == TreeInv /\ [TreeNext]_treeVars => TreeInv'
<1> SUFFICES ASSUME TreeInv, [TreeNext]_treeVars PROVE TreeInv'
  OBVIOUS
<1>0. tree \in Trees
  BY DEF TreeInv
<1>1. CASE ReplaceMatrix
  BY <1>1, ReplaceMatrixKeeps
<1>2. ASSUME NEW n \in Nodes, NEW flag \in BOOLEAN, UiSetSelected(n, flag) PROVE TreeInv'
  <2> DEFINE u == SetSelected(tree, locked, n, flag)
  <2>1. u \in Trees /\ (locked = {} /\ Told(tree) => Told(u))
    BY <1>0, SetSelectedType, SetSelectedTold
  <2>2. UiBatch(u)
    BY <1>2 DEF UiSetSelected
  <2> HIDE DEF u
  <2> QED
    BY <2>1, <2>2, UiBatchKeeps
<1>3. ASSUME NEW n \in Nodes, UiToggle(n) PROVE TreeInv'
  <2> DEFINE u == ToggleSelected(tree, locked, n)
  <2>1. u \in Trees /\ (locked = {} /\ Told(tree) => Told(u))
    BY <1>0, ToggleSelectedType, ToggleSelectedTold
  <2>2. UiBatch(u)
    BY <1>3 DEF UiToggle
  <2> HIDE DEF u
  <2> QED
    BY <2>1, <2>2, UiBatchKeeps
<1>4. ASSUME NEW flag \in BOOLEAN, UiSelectAll(flag) PROVE TreeInv'
  <2> DEFINE u == SetEverything(tree, locked, flag)
  <2>1. u \in Trees /\ (locked = {} /\ Told(tree) => Told(u))
    BY <1>0, SetEverythingIs, SetLoopKeeps
  <2>2. UiBatch(u)
    BY <1>4 DEF UiSelectAll
  <2> HIDE DEF u
  <2> QED
    BY <2>1, <2>2, UiBatchKeeps
<1>5. CASE UiRefresh
  <2>1. LiveSnapshot \in Trees /\ \A n \in Nodes : Same(LiveSnapshot[n], tree[n])
    BY <1>0 DEF LiveSnapshot, Trees, NodeStates, Same
  <2>2. DisplayIs(display', tree')
    BY <1>5, <2>1 DEF UiRefresh, DisplayIs
  <2> QED
    BY <1>5, <2>2 DEF UiRefresh, TreeInv
<1>6. CASE SelectMatched
  <2>1. PICK items \in SUBSET Items, flag \in BOOLEAN : BackendBatch(SetEach(tree, items, flag))
    BY <1>6 DEF SelectMatched
  <2> DEFINE u == SetEach(tree, items, flag)
  <2>2. u \in Trees /\ (locked = {} /\ Told(tree) => Told(u))
    BY <1>0, SetEachIs, SetLoopKeeps
  <2>3. BackendBatch(u)
    BY <2>1
  <2> HIDE DEF u
  <2> QED
    BY <2>2, <2>3, BackendBatchKeeps
<1>7. CASE ButtonSelectsAll
  <2>1. PICK flag \in BOOLEAN : BackendBatch(SetEverything(tree, locked, flag))
    BY <1>7 DEF ButtonSelectsAll
  <2> DEFINE u == SetEverything(tree, locked, flag)
  <2>2. u \in Trees /\ (locked = {} /\ Told(tree) => Told(u))
    BY <1>0, SetEverythingIs, SetLoopKeeps
  <2>3. BackendBatch(u)
    BY <2>1
  <2> HIDE DEF u
  <2> QED
    BY <2>2, <2>3, BackendBatchKeeps
<1>8. CASE ScriptStarts
  BY <1>8, ScriptStartsKeeps
<1>9. ASSUME NEW n \in Nodes, NEW flag \in BOOLEAN, ScriptSetsSelected(n, flag) PROVE TreeInv'
  <2> DEFINE u == SetSelected(script.mirror, locked, n, flag)
  <2>1. Running /\ MirrorBecomes(u)
    BY <1>9 DEF ScriptSetsSelected
  <2>2. script.mirror \in Trees
    BY <2>1 DEF TreeInv, Scripts, NoScript, StaleScript, Running
  <2>3. u \in Trees /\ (locked = {} /\ Told(script.mirror) => Told(u))
    BY <2>2, SetSelectedType, SetSelectedTold
  <2> HIDE DEF u
  <2> QED
    BY <2>1, <2>3, MirrorKeeps
<1>10. ASSUME NEW n \in Nodes, ScriptToggles(n) PROVE TreeInv'
  <2> DEFINE u == ToggleSelected(script.mirror, locked, n)
  <2>1. Running /\ MirrorBecomes(u)
    BY <1>10 DEF ScriptToggles
  <2>2. script.mirror \in Trees
    BY <2>1 DEF TreeInv, Scripts, NoScript, StaleScript, Running
  <2>3. u \in Trees /\ (locked = {} /\ Told(script.mirror) => Told(u))
    BY <2>2, ToggleSelectedType, ToggleSelectedTold
  <2> HIDE DEF u
  <2> QED
    BY <2>1, <2>3, MirrorKeeps
<1>11. CASE ScriptCompletes
  BY <1>11, ScriptCompletesKeeps
<1>12. CASE ScriptRefused
  BY <1>12 DEF ScriptRefused, TreeInv, Scripts, NoScript, MirrorAgrees, NothingLocked
<1>13. CASE UNCHANGED treeVars
  BY <1>13 DEF treeVars, TreeInv
<1> QED
  BY <1>1, <1>2, <1>3, <1>4, <1>5, <1>6, <1>7, <1>8, <1>9, <1>10, <1>11, <1>12, <1>13
  DEF TreeNext

\* Only a matrix unlocks, and it and a script alone touch what is remembered.
LEMMA ChoiceStep ==
    ASSUME TreeInv, [TreeNext]_treeVars, NEW i \in locked
    PROVE  IF i \in locked' THEN ScriptEnds \/ remembered'[i] = remembered[i]
           ELSE tree'[i].selected = remembered[i]
<1>1. CASE ReplaceMatrix
  <2> DEFINE st == [tree |-> tree, locked |-> locked, remembered |-> remembered]
  <2>1. PICK denied \in SUBSET Items :
           /\ tree' = Imposed(Released(st), denied).tree
           /\ locked' = Imposed(Released(st), denied).locked
           /\ remembered' = Imposed(Released(st), denied).remembered
    BY <1>1, Zenon DEF ReplaceMatrix
  <2> DEFINE new == Imposed(Released(st), denied)
  <2>2. /\ new.locked = denied
        /\ \A j \in locked : IF j \in denied THEN new.remembered[j] = remembered[j]
                             ELSE new.tree[j].selected = remembered[j]
    BY ReplaceMatrixIs
  <2> HIDE DEF new
  <2>3. tree' = new.tree /\ locked' = new.locked /\ remembered' = new.remembered
    BY <2>1 DEF new
  <2> QED
    BY <2>2, <2>3
<1>2. CASE ScriptCompletes
  BY <1>2 DEF ScriptCompletes, ScriptEnds, NoScript
<1>3. CASE locked' = locked /\ remembered' = remembered
  BY <1>3
<1>4. ReplaceMatrix \/ ScriptCompletes \/ (locked' = locked /\ remembered' = remembered)
  BY DEF TreeNext, treeVars, UiSetSelected, UiToggle, UiSelectAll, UiBatch, UiRefresh,
         SelectMatched, ButtonSelectsAll, BackendBatch, ScriptStarts, ScriptSetsSelected,
         ScriptToggles, MirrorBecomes, ScriptRefused
<1> QED
  BY <1>1, <1>2, <1>3, <1>4

\* The copy the UI patches is the backend's tree, and while nothing is locked
\* every folder of it says what its items say (tree-state.ts:38,
\* tree-model.ts:124).
THEOREM TreeTells == TreeSpec => []TreeTellsTheItems
<1>1. TreeSpec => []TreeInv
  BY TreeInitInv, TreeNextInv, PTL DEF TreeSpec
<1>2. TreeInv => TreeTellsTheItems
  BY TreeInvGives
<1> QED
  BY <1>1, <1>2, PTL

\* What a script has recorded selects, stamped on the backend's tree, the items
\* the script sees selected (node-mirror.ts:442).
THEOREM ScriptsLand == TreeSpec => []ScriptEditsLand
<1>1. TreeSpec => []TreeInv
  BY TreeInitInv, TreeNextInv, PTL DEF TreeSpec
<1>2. TreeInv => ScriptEditsLand
  BY TreeInvGives
<1> QED
  BY <1>1, <1>2, PTL

\* A matrix that is replaced gives the choices back it took (tree-state.ts:206).
THEOREM MatrixGivesBack == TreeSpec => ChoiceSurvivesLock
<1>1. TreeSpec => []TreeInv
  BY TreeInitInv, TreeNextInv, PTL DEF TreeSpec
<1>2. ASSUME TreeInv, [TreeNext]_treeVars
      PROVE  [\A i \in locked : IF i \in locked' THEN ScriptEnds \/ remembered'[i] = remembered[i]
                                ELSE tree'[i].selected = remembered[i]]_treeVars
  BY <1>2, ChoiceStep
<1> QED
  BY <1>1, <1>2, PTL DEF TreeSpec, ChoiceSurvivesLock

\* The types of the tree, its locks, its mirror and its copy.
THEOREM TreeTypes == TreeSpec => []TreeTypeOK
<1>1. TreeSpec => []TreeInv
  BY TreeInitInv, TreeNextInv, PTL DEF TreeSpec
<1>2. TreeInv => TreeTypeOK
  BY TreeInvGives
<1> QED
  BY <1>1, <1>2, PTL

-----------------------------------------------------------------------------
(* LogSink. *)

SinkLines == 1..logged

Unconfirmed == {n \in SinkLines : n \notin confirmed}

SinkTypes ==
    /\ logged \in Nat
    /\ file \in Seq(Nat)
    /\ consumed \in 0..Len(file)
    /\ spool \in {"none", "open", "removed", "retained"}
    /\ pump \in {"off", "waiting", "sent"}
    /\ shutdown \in {"none", "draining", "asked", "reaping", "resolved", "rejected"}
    /\ sinkFailed \in BOOLEAN /\ initDone \in BOOLEAN

\* Every open line is in the spool file.
Spooled == \A n \in Unconfirmed : \E i \in 1..Len(file) : file[i] = n

\* The file is there as long as anything is in it.
FileThere ==
    /\ Unconfirmed # {} => spool \in {"open", "retained"}
    /\ shutdown # "resolved" /\ shutdown # "rejected" => spool \in {"none", "open"}

\* The pump of a sink that works is off when the file is empty, and a shutdown
\* asks the worker only then.
Pumped ==
    /\ pump = "off" /\ ~sinkFailed => Len(file) = 0
    /\ shutdown \in {"asked", "reaping", "resolved"} /\ ~sinkFailed => pump = "off"

SinkInv == SinkTypes /\ Spooled /\ FileThere /\ Pumped

-----------------------------------------------------------------------------

LEMMA AppendStep == SinkInv /\ SinkAppends => SinkInv'
<1> SUFFICES ASSUME SinkInv, SinkAppends PROVE SinkInv'
    OBVIOUS
<1> USE DEF SinkInv, SinkAppends
<1>1. /\ logged' = logged + 1 /\ logged \in Nat
      /\ file' \in Seq(Nat) /\ Len(file') = Len(file) + 1
      /\ \A i \in 1..Len(file) : file'[i] = file[i]
      /\ file'[Len(file) + 1] = logged + 1
    BY DEF SinkTypes
<1>2. SinkTypes'
    BY <1>1 DEF SinkTypes, SinkLines
<1>3. Spooled'
  <2>1. Unconfirmed' \subseteq Unconfirmed \cup {logged + 1}
      BY <1>1 DEF Unconfirmed, SinkLines
  <2>2. Len(file) \in Nat
      BY DEF SinkTypes
  <2>3. QED
      BY <1>1, <2>1, <2>2 DEF Spooled
<1>4. FileThere' /\ Pumped'
    BY DEF FileThere, Pumped, SinkTypes
<1>5. QED
    BY <1>2, <1>3, <1>4

\* A batch is confirmed: its lines are not open any more, and the file goes only
\* when they were all of it.
LEMMA ReplyStep == SinkInv /\ BatchReplies => SinkInv'
<1> SUFFICES ASSUME SinkInv, BatchReplies PROVE SinkInv'
    OBVIOUS
<1> USE DEF SinkInv, BatchReplies
<1>1. /\ logged' = logged /\ spool' = spool /\ sinkFailed' = sinkFailed
      /\ shutdown' = shutdown /\ confirmed' = confirmed \cup Taken
      /\ pump = "sent" /\ ~sinkFailed
    OBVIOUS
<1>2. Unconfirmed' = Unconfirmed \ Taken
    BY <1>1 DEF Unconfirmed, SinkLines
<1>3. CASE consumed = Len(file)
  <2>1. Unconfirmed' = {}
      BY <1>2, <1>3 DEF Spooled, Taken
  <2>2. file' = <<>> /\ consumed' = 0 /\ pump' = "off"
      BY <1>3 DEF Reclaimed
  <2>3. QED
      BY <1>1, <2>1, <2>2 DEF SinkTypes, Spooled, FileThere, Pumped
<1>4. CASE consumed # Len(file)
  <2>1. file' = file /\ consumed' = consumed /\ pump' = "waiting" /\ Len(file) # 0
      BY <1>4 DEF Reclaimed, SinkTypes
  <2>2. Unconfirmed' \subseteq Unconfirmed
      BY <1>2
  <2>3. SinkTypes' /\ Pumped'
      BY <1>1, <2>1 DEF SinkTypes, Pumped
  <2>4. Spooled' /\ FileThere'
      BY <1>1, <2>1, <2>2 DEF Spooled, FileThere
  <2>5. QED
      BY <2>3, <2>4
<1>5. QED
    BY <1>3, <1>4

\* The other steps of the sink leave the lines and the file alone.
LEMMA QuietStep ==
    ASSUME SinkInv, UNCHANGED <<logged, confirmed, file>>,
           \/ InitReplies \/ TakeBatch \/ WorkerWrites \/ SinkFails \/ WorkerExits
           \/ ShutdownBegins \/ ShutdownAsks \/ ShutdownReplies \/ ShutdownEnds
           \/ UNCHANGED sinkVars
    PROVE  SinkInv'
<1> USE DEF SinkInv
<1>1. Unconfirmed' = Unconfirmed /\ Spooled'
    BY DEF Unconfirmed, SinkLines, Spooled
<1>2. CASE InitReplies \/ WorkerWrites \/ WorkerExits \/ UNCHANGED sinkVars
    BY <1>1, <1>2 DEF InitReplies, WorkerWrites, WorkerExits, sinkVars, SinkTypes, FileThere,
       Pumped
<1>3. CASE TakeBatch
  <2>1. consumed' \in 0..Len(file) /\ Len(file) # 0
      BY <1>3, SinkAssumption DEF TakeBatch, SinkTypes
  <2>2. QED
      BY <1>1, <1>3, <2>1 DEF TakeBatch, SinkTypes, FileThere, Pumped
<1>4. CASE SinkFails
    BY <1>1, <1>4 DEF SinkFails, SinkTypes, FileThere, Pumped
<1>5. CASE ShutdownBegins \/ ShutdownAsks \/ ShutdownReplies
    BY <1>1, <1>5 DEF ShutdownBegins, ShutdownAsks, ShutdownReplies, SinkTypes, FileThere,
       Pumped
<1>6. CASE ShutdownEnds
  <2>1. ~sinkFailed => Unconfirmed = {}
      BY <1>6 DEF ShutdownEnds, Pumped, Spooled, SinkTypes
  <2>2. QED
      BY <1>1, <1>6, <2>1 DEF ShutdownEnds, SinkTypes, FileThere, Pumped
<1>7. QED
    BY <1>2, <1>3, <1>4, <1>5, <1>6

LEMMA SinkInvariance == SinkSpec => []SinkInv
<1>1. ASSUME SinkInit PROVE SinkInv
  <2>1. Unconfirmed = {} /\ Len(file) = 0
      BY <1>1 DEF SinkInit, Unconfirmed, SinkLines
  <2>2. SinkTypes
    <3>1. file = <<>> /\ logged = 0 /\ consumed = 0
        BY <1>1 DEF SinkInit
    <3>2. file \in Seq(Nat) /\ consumed \in 0..Len(file) /\ logged \in Nat
        BY <3>1
    <3>3. sinkFailed = FALSE /\ initDone = FALSE /\ spool = "none" /\ pump = "off"
          /\ shutdown = "none"
        BY <1>1 DEF SinkInit
    <3>4. QED
        BY <3>2, <3>3, Zenon DEF SinkTypes
  <2>3. QED
      BY <1>1, <2>1, <2>2 DEF SinkInit, SinkInv, Spooled, FileThere, Pumped
<1>2. SinkInv /\ [SinkNext]_sinkVars => SinkInv'
  <2> SUFFICES ASSUME SinkInv, [SinkNext]_sinkVars PROVE SinkInv'
      OBVIOUS
  <2>1. CASE SinkAppends
      BY <2>1, AppendStep
  <2>2. CASE BatchReplies
      BY <2>2, ReplyStep
  <2>3. CASE \/ InitReplies \/ TakeBatch \/ WorkerWrites \/ SinkFails \/ WorkerExits
             \/ ShutdownBegins \/ ShutdownAsks \/ ShutdownReplies \/ ShutdownEnds
             \/ UNCHANGED sinkVars
    <3>1. UNCHANGED <<logged, confirmed, file>>
        BY <2>3 DEF InitReplies, TakeBatch, WorkerWrites, SinkFails, WorkerExits,
           ShutdownBegins, ShutdownAsks, ShutdownReplies, ShutdownEnds, sinkVars
    <3>2. QED
        BY <2>3, <3>1, QuietStep
  <2>4. QED
      BY <2>1, <2>2, <2>3 DEF SinkNext
<1>3. QED
    BY <1>1, <1>2, PTL DEF SinkSpec

\* append, takeBatch, resetIfEmpty and close: a line that is not confirmed is in
\* the spool file, whenever the worker fails or the sink is shut down.
THEOREM LinesKept == SinkSpec => []NoLineLost
<1>1. SinkInv => NoLineLost
  <2> SUFFICES ASSUME SinkInv PROVE NoLineLost
      OBVIOUS
  <2>1. Unconfirmed \subseteq Range(file)
      BY DEF SinkInv, SinkTypes, Spooled, Range
  <2>2. QED
      BY <2>1 DEF SinkInv, FileThere, NoLineLost, Unconfirmed, SinkLines
<1>2. QED
    BY <1>1, SinkInvariance, PTL

-----------------------------------------------------------------------------
(* DialogFlow. *)

-----------------------------------------------------------------------------
(* What is under way to the web view, in terms of one dialog.               *)

Requests(e, t) == e.kind = "request" /\ e.token = t
Removes(e, t) == e.kind = "died" \/ (e.kind = "invalidate" /\ e.token = t)

Pending(evs, t) == \E p \in DOMAIN evs : Requests(evs[p], t)
Removal(evs, t) == \E p \in DOMAIN evs : Removes(evs[p], t)
Undone(evs, t) ==
    \E p, q \in DOMAIN evs : p < q /\ Requests(evs[p], t) /\ Removes(evs[q], t)
Once(evs, t) ==
    \A p, q \in DOMAIN evs : Requests(evs[p], t) /\ Requests(evs[q], t) => p = q

Answering(t) == \E i \in DOMAIN responses : responses[i].token = t
Unserved(t) ==
    \A i \in DOMAIN responses : responses[i].token = t => responses[i].stage = "asked"

\* A dialog is announced once, before anyone can answer it.
Announced(t) ==
    /\ Once(uiEvents, t)
    /\ Pending(uiEvents, t) => t \in requested /\ ~Contains(dialogQueue, t) /\ ~Answering(t)
    /\ t \notin requested => ~Contains(dialogQueue, t) /\ ~Answering(t) /\ respondedTo[t] = 0
    /\ openDialogs \subseteq requested

\* An open dialog is in the queue or will be, and no answer to it was taken.
OpenIsShown(t) ==
    t \in openDialogs =>
        /\ IF Pending(uiEvents, t) THEN ~Undone(uiEvents, t)
           ELSE Contains(dialogQueue, t) /\ ~Removal(uiEvents, t)
        /\ Unserved(t)

\* A dialog that is over leaves the queue with an event or an answer still to come.
OverIsTaken(t) ==
    t \in requested \ openDialogs =>
        IF Pending(uiEvents, t) THEN Undone(uiEvents, t)
        ELSE Contains(dialogQueue, t) => Removal(uiEvents, t) \/ Answering(t)

Tracked(t) == Announced(t) /\ (t \notin unheard => OpenIsShown(t) /\ OverIsTaken(t))

DialogInv ==
    /\ DialogTypeOK
    /\ ListensOnce
    /\ RespondedOnce
    /\ \A t \in Tokens : Tracked(t)

-----------------------------------------------------------------------------
(* The operators. *)

LEMMA WithoutKeepsTheOthers ==
    ASSUME NEW S, NEW s \in Seq(S), NEW x
    PROVE  /\ Without(s, x) \in Seq(S)
           /\ \A t : Contains(Without(s, x), t) <=> Contains(s, t) /\ t # x
<1> DEFINE keep == {k \in DOMAIN s : s[k] # x}
           w == Filtered(s, keep)
<1>1. Without(s, x) = w
  BY DEF Without
<1> HIDE DEF keep
<1>2. w \in Seq(S) /\ \E h : Picks(h, w, s, keep)
  BY FilteredPlaces
<1>3a. PICK h : Picks(h, w, s, keep)
  BY <1>2
<1>3. /\ h \in [1..Len(w) -> 1..Len(s)]
      /\ \A k \in DOMAIN h : h[k] \in keep /\ w[k] = s[h[k]]
      /\ \A n \in 1..Len(s) : n \in keep => \E k \in DOMAIN h : h[k] = n
  BY <1>3a DEF Picks
<1> HIDE DEF w
<1>4. \A t : Contains(w, t) => Contains(s, t) /\ t # x
  BY <1>3 DEF Contains, keep
<1>5. ASSUME NEW t, Contains(s, t), t # x PROVE Contains(w, t)
  <2>1. PICK n \in 1..Len(s) : s[n] = t
    BY <1>5 DEF Contains
  <2>2. n \in keep
    BY <2>1, <1>5 DEF keep
  <2>3. PICK k \in DOMAIN h : h[k] = n
    BY <2>2, <1>3
  <2>4. k \in 1..Len(w) /\ w[k] = t
    BY <2>1, <2>3, <1>3
  <2> QED
    BY <2>4 DEF Contains
<1> QED
  BY <1>1, <1>2, <1>4, <1>5

LEMMA EventPublished ==
    ASSUME NEW S, NEW s \in Seq(S), NEW e \in S, NEW t
    PROVE  /\ Pending(Append(s, e), t) <=> Pending(s, t) \/ Requests(e, t)
           /\ Removal(Append(s, e), t) <=> Removal(s, t) \/ Removes(e, t)
           /\ Undone(Append(s, e), t) <=> Undone(s, t) \/ (Pending(s, t) /\ Removes(e, t))
           /\ Once(Append(s, e), t) <=> Once(s, t) /\ ~(Pending(s, t) /\ Requests(e, t))
<1> DEFINE a == Append(s, e)
           L == Len(s)
<1>1. L \in Nat /\ DOMAIN s = 1..L /\ DOMAIN a = 1..(L + 1)
  OBVIOUS
<1>2. a[L + 1] = e /\ \A k \in 1..L : a[k] = s[k]
  OBVIOUS
<1>3. \A k \in 1..(L + 1) : k \in 1..L \/ k = L + 1
  BY <1>1
<1>4. \A k \in 1..L : k \in 1..(L + 1) /\ k < L + 1 /\ k # L + 1 /\ ~(L + 1 < k)
  BY <1>1
<1>5. L + 1 \in 1..(L + 1) /\ ~(L + 1 < L + 1)
  BY <1>1
<1> HIDE DEF a, L
<1>6. Pending(a, t) <=> Pending(s, t) \/ Requests(e, t)
  BY <1>1, <1>2, <1>3, <1>4, <1>5 DEF Pending
<1>7. Removal(a, t) <=> Removal(s, t) \/ Removes(e, t)
  BY <1>1, <1>2, <1>3, <1>4, <1>5 DEF Removal
<1>8. Undone(a, t) <=> Undone(s, t) \/ (Pending(s, t) /\ Removes(e, t))
  BY <1>1, <1>2, <1>3, <1>4, <1>5 DEF Undone, Pending
<1>9. Once(a, t) <=> Once(s, t) /\ ~(Pending(s, t) /\ Requests(e, t))
  BY <1>1, <1>2, <1>3, <1>4, <1>5 DEF Once, Pending
<1> QED
  BY <1>6, <1>7, <1>8, <1>9 DEF a

LEMMA Dispatched ==
    ASSUME NEW S, NEW s \in Seq(S), s # <<>>, NEW t
    PROVE  LET e == Head(s)  r == Tail(s) IN
           /\ Pending(s, t) <=> Pending(r, t) \/ Requests(e, t)
           /\ Removal(s, t) <=> Removal(r, t) \/ Removes(e, t)
           /\ Undone(s, t) <=> Undone(r, t) \/ (Requests(e, t) /\ Removal(r, t))
           /\ Once(s, t) <=> Once(r, t) /\ ~(Requests(e, t) /\ Pending(r, t))
<1> DEFINE r == Tail(s)
           L == Len(r)
           e == Head(s)
<1>1. L \in Nat /\ DOMAIN r = 1..L /\ DOMAIN s = 1..(L + 1)
  OBVIOUS
<1>2. s[1] = e /\ \A k \in 1..L : r[k] = s[k + 1]
  OBVIOUS
<1>3. \A k \in 1..(L + 1) : k = 1 \/ \E j \in 1..L : k = j + 1
  <2> TAKE k \in 1..(L + 1)
  <2>1. k # 1 => k - 1 \in 1..L /\ k = k - 1 + 1
    BY <1>1
  <2> QED
    BY <2>1
<1>4. \A k \in 1..L : k + 1 \in 1..(L + 1) /\ 1 < k + 1 /\ k + 1 # 1 /\ ~(k + 1 < 1)
  BY <1>1
<1>5. 1 \in 1..(L + 1) /\ ~(1 < 1)
  BY <1>1
<1>5a. \A j, k \in 1..L : (j + 1 < k + 1 <=> j < k) /\ (j + 1 = k + 1 <=> j = k)
  BY <1>1
<1> HIDE DEF r, L, e
<1>5b. ASSUME NEW p \in DOMAIN s, p # 1
       PROVE  \E j \in DOMAIN r : p = j + 1 /\ r[j] = s[p]
  BY <1>5b, <1>1, <1>2, <1>3
<1>5c. \A j \in DOMAIN r : j + 1 \in DOMAIN s /\ s[j + 1] = r[j]
  BY <1>1, <1>2, <1>4
<1>5d. 1 \in DOMAIN s /\ s[1] = e
  BY <1>1, <1>2, <1>5
<1>6. Pending(s, t) <=> Pending(r, t) \/ Requests(e, t)
  <2>1. ASSUME Pending(s, t) PROVE Pending(r, t) \/ Requests(e, t)
    <3>1. PICK p \in DOMAIN s : Requests(s[p], t)
      BY <2>1 DEF Pending
    <3>2. p = 1 \/ \E j \in DOMAIN r : r[j] = s[p]
      BY <1>5b
    <3> QED
      BY <3>1, <3>2, <1>5d DEF Pending
  <2> QED
    BY <2>1, <1>5c, <1>5d DEF Pending
<1>7. Removal(s, t) <=> Removal(r, t) \/ Removes(e, t)
  <2>1. ASSUME Removal(s, t) PROVE Removal(r, t) \/ Removes(e, t)
    <3>1. PICK p \in DOMAIN s : Removes(s[p], t)
      BY <2>1 DEF Removal
    <3>2. p = 1 \/ \E j \in DOMAIN r : r[j] = s[p]
      BY <1>5b
    <3> QED
      BY <3>1, <3>2, <1>5d DEF Removal
  <2> QED
    BY <2>1, <1>5c, <1>5d DEF Removal
<1>8. Undone(s, t) <=> Undone(r, t) \/ (Requests(e, t) /\ Removal(r, t))
  <2>1. ASSUME Undone(r, t) PROVE Undone(s, t)
    <3>1. PICK p \in DOMAIN r, q \in DOMAIN r : p < q /\ Requests(r[p], t) /\ Removes(r[q], t)
      BY <2>1 DEF Undone
    <3>2. p + 1 < q + 1
      BY <3>1, <1>1
    <3>3. /\ p + 1 \in DOMAIN s /\ q + 1 \in DOMAIN s
          /\ Requests(s[p + 1], t) /\ Removes(s[q + 1], t)
      BY <3>1, <1>5c
    <3> QED
      BY <3>2, <3>3 DEF Undone
  <2>2. ASSUME Requests(e, t), Removal(r, t) PROVE Undone(s, t)
    <3>1. PICK q \in DOMAIN r : Removes(r[q], t)
      BY <2>2 DEF Removal
    <3>2. 1 < q + 1
      BY <1>1
    <3>3. q + 1 \in DOMAIN s /\ Removes(s[q + 1], t)
      BY <3>1, <1>5c
    <3> QED
      BY <3>2, <3>3, <2>2, <1>5d DEF Undone
  <2>3. ASSUME Undone(s, t) PROVE Undone(r, t) \/ (Requests(e, t) /\ Removal(r, t))
    <3>1. PICK p \in DOMAIN s, q \in DOMAIN s : p < q /\ Requests(s[p], t) /\ Removes(s[q], t)
      BY <2>3 DEF Undone
    <3>2. q # 1
      BY <3>1, <1>1
    <3>3. PICK k \in DOMAIN r : q = k + 1 /\ r[k] = s[q]
      BY <3>2, <1>5b
    <3>4. CASE p = 1
      BY <3>1, <3>3, <3>4, <1>5d DEF Removal
    <3>5. CASE p # 1
      <4>1. PICK j \in DOMAIN r : p = j + 1 /\ r[j] = s[p]
        BY <3>5, <1>5b
      <4>2. j < k
        BY <4>1, <3>1, <3>3, <1>1
      <4> QED
        BY <4>1, <4>2, <3>1, <3>3 DEF Undone
    <3> QED
      BY <3>4, <3>5
  <2> QED
    BY <2>1, <2>2, <2>3
<1>9. Once(s, t) <=> Once(r, t) /\ ~(Requests(e, t) /\ Pending(r, t))
  <2>1. ASSUME Once(s, t) PROVE Once(r, t)
    <3> SUFFICES ASSUME NEW p \in DOMAIN r, NEW q \in DOMAIN r, Requests(r[p], t), Requests(r[q], t)
                 PROVE  p = q
      BY DEF Once
    <3>1. p + 1 = q + 1
      BY <2>1, <1>5c DEF Once
    <3> QED
      BY <3>1, <1>1
  <2>2. ASSUME Once(s, t), Requests(e, t), Pending(r, t) PROVE FALSE
    <3>1. PICK q \in DOMAIN r : Requests(r[q], t)
      BY <2>2 DEF Pending
    <3>2. q + 1 = 1
      BY <3>1, <2>2, <1>5c, <1>5d DEF Once
    <3> QED
      BY <3>2, <1>1
  <2>3. ASSUME Once(r, t), ~(Requests(e, t) /\ Pending(r, t)) PROVE Once(s, t)
    <3> SUFFICES ASSUME NEW p \in DOMAIN s, NEW q \in DOMAIN s, Requests(s[p], t), Requests(s[q], t)
                 PROVE  p = q
      BY DEF Once
    <3>1. p # 1 => \E j \in DOMAIN r : p = j + 1 /\ Requests(r[j], t)
      BY <1>5b
    <3>2. q # 1 => \E j \in DOMAIN r : q = j + 1 /\ Requests(r[j], t)
      BY <1>5b
    <3>3. p = 1 => Requests(e, t)
      BY <1>5d
    <3>4. q = 1 => Requests(e, t)
      BY <1>5d
    <3> QED
      BY <2>3, <3>1, <3>2, <3>3, <3>4 DEF Once, Pending
  <2> QED
    BY <2>1, <2>2, <2>3
<1> QED
  BY <1>6, <1>7, <1>8, <1>9 DEF r, e
-----------------------------------------------------------------------------
(* The steps. *)

\* What a step leaves alone.
LEMMA TrackedStutter ==
    ASSUME NEW t, Tracked(t), UNCHANGED <<requested, openDialogs, respondedTo, uiEvents, dialogQueue,
                                          responses, unheard>>
    PROVE  Tracked(t)'
BY DEF Tracked, Announced, OpenIsShown, OverIsTaken, Answering, Unserved

LEMMA DialogInitInv == DialogInit => DialogInv
<1> SUFFICES ASSUME DialogInit PROVE DialogInv
  OBVIOUS
<1> USE DialogAssumption DEF DialogInit
<1>1. DialogTypeOK
  BY DEF DialogTypeOK
<1>2. ListensOnce /\ RespondedOnce
  BY DEF ListensOnce, RespondedOnce
<1>3. ASSUME NEW t \in Tokens PROVE Tracked(t)
  BY DEF Tracked, Announced, OpenIsShown, OverIsTaken, Answering, Unserved, Once, Pending, Contains
<1> QED
  BY <1>1, <1>2, <1>3 DEF DialogInv

\* The types, action by action.
LEMMA DialogTypes == DialogTypeOK /\ ListensOnce /\ [DialogNext]_dialogVars => DialogTypeOK'
<1> SUFFICES ASSUME DialogTypeOK, ListensOnce, [DialogNext]_dialogVars PROVE DialogTypeOK'
  OBVIOUS
<1> DEFINE Responses == [token : Tokens, stage : {"asked", "answered"}]
           RegistryOK == /\ {requested, invalidated, openDialogs, unheard} \subseteq SUBSET Tokens
                         /\ respondedTo \in [Tokens -> Nat]
                         /\ deaths \in 0..MaxDeaths
           HubOK == /\ subscribed \subseteq Views
                    /\ hub \in {"off", "asked", "live", "on"}
                    /\ natives \in Nat
           EventsOK == uiEvents \in Seq(DialogEvents)
           QueueOK == dialogQueue \in Seq(Tokens)
           ResponsesOK == responses \in Seq(Responses)
<1>0. /\ DialogTypeOK <=> RegistryOK /\ HubOK /\ EventsOK /\ QueueOK /\ ResponsesOK
      /\ DialogTypeOK' <=> RegistryOK' /\ HubOK' /\ EventsOK' /\ QueueOK' /\ ResponsesOK'
  BY DEF DialogTypeOK
<1>00. uiEvents \in Seq(DialogEvents) /\ responses \in Seq(Responses)
  BY <1>0
<1>1. \A t \in Tokens : /\ [kind |-> "request", token |-> t] \in DialogEvents
                        /\ [kind |-> "invalidate", token |-> t] \in DialogEvents
  BY DEF DialogEvents
<1>2. [kind |-> "died"] \in DialogEvents
  BY DEF DialogEvents
<1>3. \A i \in DOMAIN responses : responses[i].token \in Tokens /\ responses[i] \in Responses
  <2> TAKE i \in DOMAIN responses
  <2>1. responses[i] \in Responses
    <3> HIDE DEF Responses
    <3> QED
      BY <1>00
  <2> QED
    BY <2>1
<1>30. \A e \in DialogEvents : uiEvents' = Append(uiEvents, e) => EventsOK'
  BY <1>00
<1>4. \A e \in DialogEvents : e.kind # "died" => e.token \in Tokens
  BY DEF DialogEvents
<1>5. uiEvents # <<>> => Head(uiEvents) \in DialogEvents /\ Tail(uiEvents) \in Seq(DialogEvents)
  BY <1>0
<1>6. \A x : Without(dialogQueue, x) \in Seq(Tokens)
  BY <1>0, WithoutKeepsTheOthers
<1>7. ASSUME NEW i \in DOMAIN responses, responses' = [responses EXCEPT ![i].stage = "answered"]
      PROVE  ResponsesOK'
  <2>1. [responses[i] EXCEPT !.stage = "answered"] \in Responses
    BY <1>3
  <2>2. responses' = [responses EXCEPT ![i] = [responses[i] EXCEPT !.stage = "answered"]]
    BY <1>7
  <2> QED
    BY <2>1, <2>2, <1>0
<1>8. ASSUME uiEvents # <<>>, uiEvents' = Tail(uiEvents) PROVE EventsOK'
  BY <1>8, <1>5
<1> USE DEF hubVars, registryVars
<1> SUFFICES RegistryOK' /\ HubOK' /\ EventsOK' /\ QueueOK' /\ ResponsesOK'
  BY <1>0
<1>10. CASE \E t \in Tokens : DialogRequested(t)
  <2> PICK t \in Tokens : DialogRequested(t)
    BY <1>10
  <2>1. EventsOK'
    BY <1>1, <1>30 DEF DialogRequested
  <2> QED
    BY <2>1, <1>0 DEF DialogRequested
<1>11. CASE \E t \in Tokens : DialogInvalidated(t)
  <2> PICK t \in Tokens : DialogInvalidated(t)
    BY <1>11
  <2>1. EventsOK'
    BY <1>1, <1>30 DEF DialogInvalidated
  <2> QED
    BY <2>1, <1>0 DEF DialogInvalidated
<1>12. CASE \E i \in DOMAIN responses : RespondServed(i)
  <2> PICK i \in DOMAIN responses : RespondServed(i)
    BY <1>12
  <2>1. ResponsesOK'
    BY <1>7 DEF RespondServed
  <2>2. RegistryOK'
    BY <1>0, <1>3 DEF RespondServed
  <2> QED
    BY <2>1, <2>2, <1>0 DEF RespondServed
<1>13. CASE \E i \in DOMAIN responses : RespondFails(i)
  <2> PICK i \in DOMAIN responses : RespondFails(i)
    BY <1>13
  <2>1. ResponsesOK'
    BY <1>7 DEF RespondFails
  <2>2. RegistryOK'
    BY <1>0, <1>3 DEF RespondFails
  <2> QED
    BY <2>1, <2>2, <1>0 DEF RespondFails
<1>14. CASE \E i \in DOMAIN responses : RespondReturns(i)
  <2> PICK i \in DOMAIN responses : RespondReturns(i)
    BY <1>14
  <2>1. ResponsesOK'
    BY <1>0, RemovedAt DEF RespondReturns
  <2>2. QueueOK'
    BY <1>6 DEF RespondReturns
  <2> QED
    BY <2>1, <2>2, <1>0 DEF RespondReturns
<1>15. CASE DialogBackendDies
  <2>1. \A i \in DOMAIN responses : [responses[i] EXCEPT !.stage = "answered"] \in Responses
    BY <1>3
  <2>0. responses' = [i \in DOMAIN responses |-> [responses[i] EXCEPT !.stage = "answered"]]
    BY <1>15 DEF DialogBackendDies
  <2>2. ResponsesOK'
    <3>1. Len(responses) \in Nat /\ DOMAIN responses = 1..Len(responses)
      BY <1>00
    <3>2. responses' \in [1..Len(responses) -> Responses]
      BY <2>0, <2>1, <3>1
    <3>4. responses' \in Seq(Responses)
      BY <3>1, <3>2, TableIsSeq
    <3> QED
      BY <3>4
  <2>3. EventsOK'
    BY <1>2, <1>30, <1>15 DEF DialogBackendDies
  <2>4. RegistryOK'
    BY <1>0, <1>15, DialogAssumption DEF DialogBackendDies
  <2> QED
    BY <2>2, <2>3, <2>4, <1>0, <1>15 DEF DialogBackendDies
<1>16. CASE \E v \in Views : Subscribe(v)
  BY <1>0, <1>16 DEF Subscribe
<1>17. CASE \E v \in Views : Unsubscribe(v)
  BY <1>0, <1>17 DEF Unsubscribe, ListensOnce
<1>18. CASE ListenerLive \/ ListenResolves \/ ListenFails
  <2>1. HubOK'
    BY <1>0, <1>18 DEF ListenerLive, ListenResolves, ListenFails, ListensOnce
  <2> QED
    BY <2>1, <1>0, <1>18 DEF ListenerLive, ListenResolves, ListenFails
<1>19. CASE RequestHeard
  <2>1. EventsOK' /\ Head(uiEvents).token \in Tokens
    BY <1>19, <1>4, <1>5, <1>8 DEF RequestHeard, NextUiEvent
  <2>2. QueueOK'
    BY <2>1, <1>0, <1>19 DEF RequestHeard
  <2> QED
    BY <2>1, <2>2, <1>0, <1>19 DEF RequestHeard
<1>20. CASE InvalidateHeard
  <2>1. EventsOK'
    BY <1>20, <1>8 DEF InvalidateHeard, NextUiEvent
  <2> QED
    BY <2>1, <1>0, <1>6, <1>20 DEF InvalidateHeard
<1>21. CASE DeathHeard
  <2>1. EventsOK'
    BY <1>21, <1>8 DEF DeathHeard, NextUiEvent
  <2> QED
    BY <2>1, <1>0, <1>21 DEF DeathHeard
<1>22. CASE EventUnheard
  <2>1. EventsOK'
    BY <1>22, <1>8 DEF EventUnheard
  <2>2. RegistryOK'
    BY <1>0, <1>4, <1>5, <1>22 DEF EventUnheard
  <2> QED
    BY <2>1, <2>2, <1>0, <1>22 DEF EventUnheard
<1>23. CASE UserResponds
  <2>1. [token |-> Head(dialogQueue), stage |-> "asked"] \in Responses
    BY <1>0, <1>23 DEF UserResponds
  <2>2. ResponsesOK'
    BY <2>1, <1>0, <1>23 DEF UserResponds
  <2> QED
    BY <2>2, <1>0, <1>23 DEF UserResponds
<1>24. CASE UNCHANGED dialogVars
  BY <1>0, <1>24 DEF dialogVars
<1> QED
  BY <1>10, <1>11, <1>12, <1>13, <1>14, <1>15, <1>16, <1>17, <1>18, <1>19, <1>20, <1>21, <1>22,
     <1>23, <1>24 DEF DialogNext

\* The subscription and the registry.
LEMMA DialogCounts ==
    DialogInv /\ [DialogNext]_dialogVars => ListensOnce' /\ RespondedOnce'
<1> SUFFICES ASSUME DialogInv, [DialogNext]_dialogVars PROVE ListensOnce' /\ RespondedOnce'
  OBVIOUS
<1> USE DEF hubVars, registryVars
<1>1. ListensOnce'
  <2>0. ListensOnce /\ hub \in {"off", "asked", "live", "on"}
    BY DEF DialogInv, DialogTypeOK
  <2>1. CASE \E v \in Views : Subscribe(v)
    BY <2>0, <2>1 DEF Subscribe, ListensOnce
  <2>2. CASE \E v \in Views : Unsubscribe(v)
    BY <2>0, <2>2 DEF Unsubscribe, ListensOnce
  <2>3. CASE ListenerLive \/ ListenResolves \/ ListenFails
    BY <2>0, <2>3 DEF ListenerLive, ListenResolves, ListenFails, ListensOnce
  <2>4. CASE UNCHANGED hubVars
    BY <2>0, <2>4 DEF ListensOnce
  <2>5. UNCHANGED hubVars \/ (\E v \in Views : Subscribe(v) \/ Unsubscribe(v))
        \/ ListenerLive \/ ListenResolves \/ ListenFails
    BY DEF DialogNext, dialogVars, DialogRequested, DialogInvalidated, RespondServed, RespondFails,
           RespondReturns, DialogBackendDies, RequestHeard, InvalidateHeard, DeathHeard,
           EventUnheard, UserResponds
  <2> QED
    BY <2>1, <2>2, <2>3, <2>4, <2>5
<1>2. RespondedOnce'
  <2>0. /\ RespondedOnce /\ respondedTo \in [Tokens -> Nat]
        /\ \A t \in Tokens : t \notin requested => respondedTo[t] = 0
    BY DEF DialogInv, DialogTypeOK, Tracked, Announced
  <2>1. CASE \E t \in Tokens : DialogRequested(t)
    <3> PICK u \in Tokens : DialogRequested(u)
      BY <2>1
    <3> SUFFICES ASSUME NEW t \in Tokens
                 PROVE  respondedTo'[t] <= (IF t \in openDialogs' THEN 0 ELSE 1)
      BY DEF RespondedOnce
    <3>1. respondedTo'[t] = respondedTo[t] /\ respondedTo[t] \in Nat
      BY <2>0 DEF DialogRequested
    <3>2. CASE t = u
      BY <3>1, <3>2, <2>0 DEF DialogRequested
    <3>3. CASE t # u
      BY <3>1, <3>3, <2>0 DEF DialogRequested, RespondedOnce
    <3> QED
      BY <3>2, <3>3
  <2>2. CASE \E i \in DOMAIN responses : RespondServed(i)
    <3> PICK i \in DOMAIN responses : RespondServed(i)
      BY <2>2
    <3> SUFFICES ASSUME NEW t \in Tokens
                 PROVE  respondedTo'[t] <= (IF t \in openDialogs' THEN 0 ELSE 1)
      BY DEF RespondedOnce
    <3>1. CASE t = responses[i].token /\ t \in openDialogs
      <4>1. respondedTo[t] = 0
        BY <2>0, <3>1 DEF RespondedOnce
      <4>2. respondedTo'[t] = 1 /\ t \notin openDialogs'
        BY <4>1, <3>1, <2>0 DEF RespondServed
      <4> QED
        BY <4>2
    <3>2. CASE ~(t = responses[i].token /\ t \in openDialogs)
      <4>1. respondedTo'[t] = respondedTo[t] /\ (t \in openDialogs' <=> t \in openDialogs)
        BY <3>2, <2>0 DEF RespondServed
      <4> QED
        BY <4>1, <2>0 DEF RespondedOnce
    <3> QED
      BY <3>1, <3>2
  <2>3. CASE openDialogs' \subseteq openDialogs /\ respondedTo' = respondedTo
    <3> SUFFICES ASSUME NEW t \in Tokens
                 PROVE  respondedTo[t] <= (IF t \in openDialogs' THEN 0 ELSE 1)
      BY <2>3 DEF RespondedOnce
    <3>1. respondedTo[t] <= (IF t \in openDialogs THEN 0 ELSE 1) /\ respondedTo[t] \in Nat
      BY <2>0 DEF RespondedOnce
    <3> QED
      BY <3>1, <2>3
  <2>4. (openDialogs' \subseteq openDialogs /\ respondedTo' = respondedTo)
        \/ (\E t \in Tokens : DialogRequested(t)) \/ (\E i \in DOMAIN responses : RespondServed(i))
    BY DEF DialogNext, dialogVars, DialogInvalidated, RespondFails, RespondReturns,
           DialogBackendDies, Subscribe, Unsubscribe, ListenerLive, ListenResolves, ListenFails,
           RequestHeard, InvalidateHeard, DeathHeard, EventUnheard, UserResponds
  <2> QED
    BY <2>1, <2>2, <2>3, <2>4
<1> QED
  BY <1>1, <1>2

\* One dialog, action by action.
LEMMA DialogTracked ==
    ASSUME DialogInv, [DialogNext]_dialogVars, NEW t \in Tokens
    PROVE  Tracked(t)'
<1>0. /\ DialogTypeOK /\ Tracked(t) /\ Announced(t)
      /\ uiEvents \in Seq(DialogEvents) /\ dialogQueue \in Seq(Tokens)
      /\ responses \in Seq([token : Tokens, stage : {"asked", "answered"}])
  BY DEF DialogInv, DialogTypeOK, Tracked
<1>1. Undone(uiEvents, t) => Pending(uiEvents, t)
  BY DEF Undone, Pending
<1>2. \A r \in Seq(DialogEvents) : Undone(r, t) => Pending(r, t)
  BY DEF Undone, Pending
<1> USE DEF hubVars, registryVars
<1>3. ASSUME NEW e \in DialogEvents, uiEvents' = Append(uiEvents, e)
      PROVE  /\ Pending(uiEvents', t) <=> Pending(uiEvents, t) \/ Requests(e, t)
             /\ Removal(uiEvents', t) <=> Removal(uiEvents, t) \/ Removes(e, t)
             /\ Undone(uiEvents', t) <=> Undone(uiEvents, t) \/ (Pending(uiEvents, t) /\ Removes(e, t))
             /\ Once(uiEvents', t) <=> Once(uiEvents, t) /\ ~(Pending(uiEvents, t) /\ Requests(e, t))
  BY <1>0, <1>3, EventPublished
<1>4. ASSUME uiEvents # <<>>, uiEvents' = Tail(uiEvents)
      PROVE  LET e == Head(uiEvents) IN
             /\ e \in DialogEvents
             /\ Pending(uiEvents, t) <=> Pending(uiEvents', t) \/ Requests(e, t)
             /\ Removal(uiEvents, t) <=> Removal(uiEvents', t) \/ Removes(e, t)
             /\ Undone(uiEvents, t) <=> Undone(uiEvents', t) \/ (Requests(e, t) /\ Removal(uiEvents', t))
             /\ Once(uiEvents, t) <=> Once(uiEvents', t) /\ ~(Requests(e, t) /\ Pending(uiEvents', t))
             /\ Undone(uiEvents', t) => Pending(uiEvents', t)
  <2>1. Head(uiEvents) \in DialogEvents /\ Tail(uiEvents) \in Seq(DialogEvents)
    BY <1>0, <1>4
  <2> QED
    BY <2>1, <1>0, <1>2, <1>4, Dispatched
<1>5. \A x : Contains(Without(dialogQueue, x), t) <=> Contains(dialogQueue, t) /\ t # x
  BY <1>0, WithoutKeepsTheOthers
<1> SUFFICES Announced(t)' /\ (t \notin unheard' => OpenIsShown(t)' /\ OverIsTaken(t)')
  BY DEF Tracked
<1>10. CASE \E u \in Tokens : DialogRequested(u)
  <2> PICK u \in Tokens : DialogRequested(u)
    BY <1>10
  <2> DEFINE e == [kind |-> "request", token |-> u]
  <2>1. e \in DialogEvents /\ uiEvents' = Append(uiEvents, e)
    BY DEF DialogRequested, DialogEvents
  <2>2. (Requests(e, t) <=> t = u) /\ ~Removes(e, t)
    BY DEF Requests, Removes
  <2> HIDE DEF e
  <2>3. Answering(t)' = Answering(t) /\ Unserved(t)' = Unserved(t) /\ (~Answering(t) => Unserved(t))
    BY DEF DialogRequested, Answering, Unserved
  <2>4. /\ requested' = requested \cup {u} /\ openDialogs' = openDialogs \cup {u} /\ u \notin requested
        /\ respondedTo' = respondedTo /\ dialogQueue' = dialogQueue /\ unheard' = unheard
    BY DEF DialogRequested
  <2>5. CASE t = u
    <3>1. ~Pending(uiEvents, t) /\ ~Answering(t) /\ ~Contains(dialogQueue, t)
      BY <1>0, <2>4, <2>5 DEF Announced
    <3>2. Pending(uiEvents', t) /\ ~Undone(uiEvents', t) /\ Once(uiEvents', t)
      BY <3>1, <1>0, <1>1, <1>3, <2>1, <2>2, <2>5 DEF Announced
    <3>3. Announced(t)'
      BY <3>1, <3>2, <1>0, <2>3, <2>4, <2>5 DEF Announced
    <3> QED
      BY <3>1, <3>2, <3>3, <2>3, <2>4, <2>5 DEF OpenIsShown, OverIsTaken
  <2>6. CASE t # u
    <3>1. /\ Pending(uiEvents', t) = Pending(uiEvents, t) /\ Removal(uiEvents', t) = Removal(uiEvents, t)
          /\ Undone(uiEvents', t) = Undone(uiEvents, t) /\ Once(uiEvents', t) = Once(uiEvents, t)
      BY <1>3, <2>1, <2>2, <2>6 DEF Pending, Removal, Undone, Once
    <3> QED
      BY <3>1, <1>0, <2>3, <2>4, <2>6 DEF Tracked, Announced, OpenIsShown, OverIsTaken
  <2> QED
    BY <2>5, <2>6
<1>11. CASE \E u \in Tokens : DialogInvalidated(u)
  <2> PICK u \in Tokens : DialogInvalidated(u)
    BY <1>11
  <2> DEFINE e == [kind |-> "invalidate", token |-> u]
  <2>1. e \in DialogEvents /\ uiEvents' = Append(uiEvents, e)
    BY DEF DialogInvalidated, DialogEvents
  <2>2. ~Requests(e, t) /\ (Removes(e, t) <=> t = u)
    BY DEF Requests, Removes
  <2> HIDE DEF e
  <2>3. Answering(t)' = Answering(t) /\ Unserved(t)' = Unserved(t)
    BY DEF DialogInvalidated, Answering, Unserved
  <2>4. /\ requested' = requested /\ openDialogs' = openDialogs \ {u}
        /\ respondedTo' = respondedTo /\ dialogQueue' = dialogQueue /\ unheard' = unheard
    BY DEF DialogInvalidated
  <2> QED
    BY <1>0, <1>3, <2>1, <2>2, <2>3, <2>4 DEF Tracked, Announced, OpenIsShown, OverIsTaken
<1>12. CASE \E i \in DOMAIN responses : RespondServed(i)
  <2> PICK i \in DOMAIN responses : RespondServed(i)
    BY <1>12
  <2> DEFINE u == responses[i].token
  <2>1. /\ requested' = requested /\ openDialogs' = openDialogs \ {u}
        /\ uiEvents' = uiEvents /\ dialogQueue' = dialogQueue /\ unheard' = unheard
    BY DEF RespondServed
  <2>2. /\ DOMAIN responses' = DOMAIN responses
        /\ \A k \in DOMAIN responses : responses'[k].token = responses[k].token
        /\ \A k \in DOMAIN responses : k # i => responses'[k] = responses[k]
    BY <1>0 DEF RespondServed
  <2>3. Answering(t)' = Answering(t) /\ (t # u => Unserved(t)' = Unserved(t)) /\ Answering(u)
    BY <2>2 DEF Answering, Unserved
  <2>4. t \notin openDialogs => respondedTo'[t] = respondedTo[t]
    BY <1>0 DEF RespondServed, DialogTypeOK
  <2>5. Announced(t)'
    BY <1>0, <2>1, <2>3, <2>4 DEF Announced
  <2> HIDE DEF u
  <2>6. CASE t = u
    BY <1>0, <2>1, <2>3, <2>5, <2>6 DEF Tracked, Announced, OpenIsShown, OverIsTaken
  <2>7. CASE t # u
    BY <1>0, <2>1, <2>3, <2>5, <2>7 DEF Tracked, OpenIsShown, OverIsTaken
  <2> QED
    BY <2>6, <2>7
<1>13. CASE \E i \in DOMAIN responses : RespondFails(i)
  <2> PICK i \in DOMAIN responses : RespondFails(i)
    BY <1>13
  <2> DEFINE u == responses[i].token
  <2>1. /\ requested' = requested /\ openDialogs' = openDialogs /\ respondedTo' = respondedTo
        /\ uiEvents' = uiEvents /\ dialogQueue' = dialogQueue /\ unheard' = unheard \cup {u}
    BY DEF RespondFails
  <2>2. /\ DOMAIN responses' = DOMAIN responses
        /\ \A k \in DOMAIN responses : responses'[k].token = responses[k].token
        /\ \A k \in DOMAIN responses : k # i => responses'[k] = responses[k]
    BY <1>0 DEF RespondFails
  <2>3. Answering(t)' = Answering(t) /\ (t # u => Unserved(t)' = Unserved(t))
    BY <2>2 DEF Answering, Unserved
  <2> HIDE DEF u
  <2> QED
    BY <1>0, <2>1, <2>3 DEF Tracked, Announced, OpenIsShown, OverIsTaken
<1>14. CASE \E i \in DOMAIN responses : RespondReturns(i)
  <2> PICK i \in DOMAIN responses : RespondReturns(i)
    BY <1>14
  <2> DEFINE u == responses[i].token
             r == RemoveAt(responses, i)
  <2>1. /\ requested' = requested /\ openDialogs' = openDialogs /\ respondedTo' = respondedTo
        /\ uiEvents' = uiEvents /\ dialogQueue' = Without(dialogQueue, u) /\ unheard' = unheard
        /\ responses' = r /\ responses[i].stage = "answered"
    BY DEF RespondReturns
  <2>2. /\ \A j \in DOMAIN r : \E k \in DOMAIN responses : k # i /\ r[j] = responses[k]
        /\ \A k \in DOMAIN responses : k # i => \E j \in DOMAIN r : r[j] = responses[k]
    <3>1. \A j \in DOMAIN r : LET k == IF j < i THEN j ELSE j + 1
                              IN k \in DOMAIN responses /\ k # i /\ r[j] = responses[k]
      BY <1>0, RemovedAt
    <3>2. \A k \in DOMAIN responses : k # i => \E j \in DOMAIN r : r[j] = responses[k]
      BY <1>0, RemovedAt
    <3> HIDE DEF r
    <3> QED
      BY <3>1, <3>2
  <2> HIDE DEF r
  <2>3. /\ Answering(t)' => Answering(t)
        /\ t # u => (Answering(t) => Answering(t)')
        /\ Unserved(t) => Unserved(t)'
        /\ t = u => ~Unserved(t)
    BY <2>1, <2>2 DEF Answering, Unserved
  <2> HIDE DEF u
  <2>4. Contains(dialogQueue', t) <=> Contains(dialogQueue, t) /\ t # u
    BY <2>1, <1>5
  <2> QED
    BY <1>0, <2>1, <2>3, <2>4 DEF Tracked, Announced, OpenIsShown, OverIsTaken
<1>15. CASE DialogBackendDies
  <2> DEFINE e == [kind |-> "died"]
  <2>1. e \in DialogEvents /\ uiEvents' = Append(uiEvents, e)
    BY <1>15 DEF DialogBackendDies, DialogEvents
  <2>2. ~Requests(e, t) /\ Removes(e, t)
    BY DEF Requests, Removes
  <2> HIDE DEF e
  <2>3. /\ requested' = requested /\ openDialogs' = {} /\ respondedTo' = respondedTo
        /\ dialogQueue' = dialogQueue /\ unheard' = unheard
    BY <1>15 DEF DialogBackendDies
  <2>4. Answering(t)' = Answering(t)
    <3>1. /\ DOMAIN responses' = DOMAIN responses
          /\ \A k \in DOMAIN responses : responses'[k].token = responses[k].token
      <4>1. /\ DOMAIN responses' = DOMAIN responses
            /\ \A k \in DOMAIN responses :
                  responses'[k] = [responses[k] EXCEPT !.stage = "answered"]
        BY <1>15 DEF DialogBackendDies
      <4>2. \A k \in DOMAIN responses : [responses[k] EXCEPT !.stage = "answered"].token
                                        = responses[k].token
        BY <1>0
      <4> QED
        BY <4>1, <4>2
    <3> QED
      BY <3>1 DEF Answering
  <2> QED
    BY <1>0, <1>3, <2>1, <2>2, <2>3, <2>4 DEF Tracked, Announced, OpenIsShown, OverIsTaken
<1>16. CASE UNCHANGED <<requested, openDialogs, respondedTo, uiEvents, dialogQueue, responses, unheard>>
  BY <1>0, <1>16, TrackedStutter DEF Tracked
<1>19. CASE RequestHeard
  <2> DEFINE e == Head(uiEvents)
             u == Head(uiEvents).token
  <2>1. uiEvents # <<>> /\ uiEvents' = Tail(uiEvents) /\ e.kind = "request"
    BY <1>19 DEF RequestHeard, NextUiEvent
  <2>2. (Requests(e, t) <=> t = u) /\ ~Removes(e, t)
    BY <2>1 DEF Requests, Removes
  <2>3. /\ requested' = requested /\ openDialogs' = openDialogs /\ respondedTo' = respondedTo
        /\ responses' = responses /\ unheard' = unheard
    BY <1>19 DEF RequestHeard
  <2>4. Answering(t)' = Answering(t) /\ Unserved(t)' = Unserved(t)
    BY <2>3 DEF Answering, Unserved
  <2>5. u \in Tokens
    BY <1>4, <2>1 DEF DialogEvents
  <2>6. Contains(dialogQueue', t) <=> Contains(dialogQueue, t) \/ t = u
    <3>1. dialogQueue' = dialogQueue \/ dialogQueue' = Append(dialogQueue, u)
      BY <1>19 DEF RequestHeard
    <3>2. \A x : Contains(Append(dialogQueue, u), x) <=> Contains(dialogQueue, x) \/ x = u
      BY <1>0, <2>5, AppendedTo
    <3>3. \/ dialogQueue' = dialogQueue /\ Contains(dialogQueue, u)
          \/ dialogQueue' = Append(dialogQueue, u)
      BY <1>19 DEF RequestHeard
    <3> HIDE DEF u
    <3> QED
      BY <3>2, <3>3
  <2>7. Announced(t)'
    BY <1>0, <1>4, <2>1, <2>2, <2>3, <2>4, <2>6 DEF Announced
  <2>8. (OpenIsShown(t)' /\ OverIsTaken(t)') \/ t \in unheard
    BY <1>0, <1>4, <2>1, <2>2, <2>3, <2>4, <2>6, <2>7 DEF Tracked, Announced, OpenIsShown, OverIsTaken
  <2> QED
    BY <2>3, <2>7, <2>8
<1>20. CASE InvalidateHeard
  <2> DEFINE e == Head(uiEvents)
             u == Head(uiEvents).token
  <2>1. uiEvents # <<>> /\ uiEvents' = Tail(uiEvents) /\ e.kind = "invalidate"
    BY <1>20 DEF InvalidateHeard, NextUiEvent
  <2>2. ~Requests(e, t) /\ (Removes(e, t) <=> t = u)
    BY <2>1 DEF Requests, Removes
  <2>3. /\ requested' = requested /\ openDialogs' = openDialogs /\ respondedTo' = respondedTo
        /\ responses' = responses /\ unheard' = unheard /\ dialogQueue' = Without(dialogQueue, u)
    BY <1>20 DEF InvalidateHeard
  <2>4. Answering(t)' = Answering(t) /\ Unserved(t)' = Unserved(t)
    BY <2>3 DEF Answering, Unserved
  <2>5. Contains(dialogQueue', t) <=> Contains(dialogQueue, t) /\ t # u
    BY <2>3, <1>5
  <2> QED
    BY <1>0, <1>4, <2>1, <2>2, <2>3, <2>4, <2>5 DEF Tracked, Announced, OpenIsShown, OverIsTaken
<1>21. CASE DeathHeard
  <2> DEFINE e == Head(uiEvents)
  <2>1. uiEvents # <<>> /\ uiEvents' = Tail(uiEvents) /\ e.kind = "died"
    BY <1>21 DEF DeathHeard, NextUiEvent
  <2>2. ~Requests(e, t) /\ Removes(e, t)
    BY <2>1 DEF Requests, Removes
  <2>3. /\ requested' = requested /\ openDialogs' = openDialogs /\ respondedTo' = respondedTo
        /\ responses' = responses /\ unheard' = unheard /\ dialogQueue' = <<>>
    BY <1>21 DEF DeathHeard
  <2>4. Answering(t)' = Answering(t) /\ Unserved(t)' = Unserved(t)
    BY <2>3 DEF Answering, Unserved
  <2>5. ~Contains(dialogQueue', t)
    BY <2>3 DEF Contains
  <2> QED
    BY <1>0, <1>4, <2>1, <2>2, <2>3, <2>4, <2>5 DEF Tracked, Announced, OpenIsShown, OverIsTaken
<1>22. CASE EventUnheard
  <2> DEFINE e == Head(uiEvents)
  <2>1. uiEvents # <<>> /\ uiEvents' = Tail(uiEvents)
    BY <1>22 DEF EventUnheard
  <2>2. /\ requested' = requested /\ openDialogs' = openDialogs /\ respondedTo' = respondedTo
        /\ responses' = responses /\ dialogQueue' = dialogQueue
    BY <1>22 DEF EventUnheard
  <2>3. Answering(t)' = Answering(t) /\ Unserved(t)' = Unserved(t)
    BY <2>2 DEF Answering, Unserved
  <2>4. e.kind \in {"request", "invalidate", "died"}
    BY <1>4, <2>1 DEF DialogEvents
  <2>5. t \notin unheard' /\ t \in requested =>
           t \notin unheard /\ ~Requests(e, t) /\ ~Removes(e, t)
    BY <1>22, <2>4, <1>0 DEF EventUnheard, Requests, Removes, DialogTypeOK
  <2>6. Announced(t)'
    BY <1>0, <1>4, <2>1, <2>2, <2>3 DEF Announced
  <2>7. ASSUME t \notin unheard', t \in requested PROVE OpenIsShown(t)' /\ OverIsTaken(t)'
    BY <1>0, <1>4, <2>1, <2>2, <2>3, <2>5, <2>7 DEF Tracked, OpenIsShown, OverIsTaken
  <2>8. t \notin requested => OpenIsShown(t)' /\ OverIsTaken(t)'
    BY <1>0, <2>2 DEF Announced, OpenIsShown, OverIsTaken
  <2> QED
    BY <2>6, <2>7, <2>8
<1>23. CASE UserResponds
  <2> DEFINE u == Head(dialogQueue)
             c == [token |-> u, stage |-> "asked"]
  <2>1. /\ requested' = requested /\ openDialogs' = openDialogs /\ respondedTo' = respondedTo
        /\ uiEvents' = uiEvents /\ dialogQueue' = dialogQueue /\ unheard' = unheard
        /\ responses' = Append(responses, c) /\ dialogQueue # <<>>
    BY <1>23 DEF UserResponds
  <2>2. Contains(dialogQueue, u) /\ c \in [token : Tokens, stage : {"asked", "answered"}]
    BY <1>0, <2>1 DEF Contains
  <2>3. c.token = u /\ c.stage = "asked"
    OBVIOUS
  <2> DEFINE N == Len(responses) + 1
  <2>4. /\ \A k \in DOMAIN responses : k \in DOMAIN responses' /\ responses'[k] = responses[k]
        /\ N \in DOMAIN responses' /\ responses'[N] = c
        /\ \A k \in DOMAIN responses' : k \in DOMAIN responses \/ k = N
    BY <1>0, <2>1, <2>2, AppendedPlaces
  <2> HIDE DEF c, u, N
  <2>7. Answering(t)' <=> Answering(t) \/ t = u
    BY <2>3, <2>4 DEF Answering
  <2>8. Unserved(t) => Unserved(t)'
    BY <2>3, <2>4 DEF Unserved
  <2> QED
    BY <1>0, <2>1, <2>2, <2>7, <2>8 DEF Tracked, Announced, OpenIsShown, OverIsTaken
<1> QED
  <2>1. \/ UNCHANGED <<requested, openDialogs, respondedTo, uiEvents, dialogQueue, responses, unheard>>
        \/ \E u \in Tokens : DialogRequested(u) \/ DialogInvalidated(u)
        \/ \E i \in DOMAIN responses : RespondServed(i) \/ RespondFails(i) \/ RespondReturns(i)
        \/ DialogBackendDies \/ RequestHeard \/ InvalidateHeard \/ DeathHeard \/ EventUnheard
        \/ UserResponds
    BY DEF DialogNext, dialogVars, Subscribe, Unsubscribe, ListenerLive, ListenResolves, ListenFails
  <2> QED
    BY <2>1, <1>10, <1>11, <1>12, <1>13, <1>14, <1>15, <1>16, <1>19, <1>20, <1>21, <1>22, <1>23

LEMMA DialogStepInv == DialogInv /\ [DialogNext]_dialogVars => DialogInv'
<1> SUFFICES ASSUME DialogInv, [DialogNext]_dialogVars PROVE DialogInv'
  OBVIOUS
<1>1. DialogTypeOK'
  BY DialogTypes DEF DialogInv
<1>2. ListensOnce' /\ RespondedOnce'
  BY DialogCounts
<1>3. \A t \in Tokens : Tracked(t)'
  BY DialogTracked
<1> QED
  BY <1>1, <1>2, <1>3 DEF DialogInv

LEMMA TrackedQueue == DialogInv => QueueIsOpenDialogs
<1> SUFFICES ASSUME DialogInv, uiEvents = <<>>, responses = <<>>, NEW t \in requested \ unheard
             PROVE  Contains(dialogQueue, t) <=> t \in openDialogs
  BY DEF QueueIsOpenDialogs
<1>1. t \in Tokens /\ OpenIsShown(t) /\ OverIsTaken(t)
  BY DEF DialogInv, DialogTypeOK, Tracked
<1>2. ~Pending(uiEvents, t) /\ ~Removal(uiEvents, t) /\ ~Answering(t)
  BY DEF Pending, Removal, Answering
<1> QED
  BY <1>1, <1>2 DEF OpenIsShown, OverIsTaken

LEMMA DialogInvFollows == DialogInv => DialogsFollow
  BY TrackedQueue DEF DialogInv, DialogsFollow

\* In every behaviour: a view listens once, an answer is taken once, and once
\* events and answers are in, the queue shows the open dialogs.
THEOREM DialogsAreFollowed == DialogSpec => []DialogsFollow
  BY DialogInvFollows, DialogInitInv, DialogStepInv, PTL DEF DialogSpec


-----------------------------------------------------------------------------
(* All parts. *)

\* Whatever the sizes of the buffers and the numbers of dialogs, views and
\* calls: the log and the dialogs the user sees are those of the backend.
THEOREM UiFollowsEvents == UiSpec => []EventsFollowed
<1>1. UiInit => LogInv /\ DialogInv
  <2> SUFFICES ASSUME UiInit PROVE LogInv /\ DialogInv
    OBVIOUS
  <2>1. LogInit /\ DialogInit
    BY DEF UiInit, LogRests
  <2> QED
    BY <2>1, LogInvInit, DialogInitInv
<1>2. LogInv /\ DialogInv /\ [UiNext]_uiVars => (LogInv /\ DialogInv)'
  <2> SUFFICES ASSUME LogInv, DialogInv, [UiNext]_uiVars PROVE (LogInv /\ DialogInv)'
    OBVIOUS
  <2>1. [LogNext]_logVars /\ [DialogNext]_dialogVars
    BY DEF UiNext, uiVars
  <2>2. LogInv'
    BY <2>1, LogInvStep
  <2>3. DialogInv'
    BY <2>1, DialogStepInv
  <2> QED
    BY <2>2, <2>3
<1>3. LogInv /\ DialogInv => EventsFollowed
  <2> SUFFICES ASSUME LogInv, DialogInv PROVE EventsFollowed
    OBVIOUS
  <2>1. LogFollowed
    BY LogInvFollows
  <2>2. DialogsFollow
    BY DialogInvFollows
  <2> QED
    BY <2>1, <2>2 DEF EventsFollowed
<1> QED
  BY <1>1, <1>2, <1>3, PTL DEF UiSpec

-----------------------------------------------------------------------------
(* The types of LogSink: what the worker has written was logged. *)

SinkTyped == SinkTypeOK /\ file \in Seq(1..logged)

LEMMA SinkTypedStep == SinkTyped /\ [SinkNext]_sinkVars => SinkTyped'
<1> SUFFICES ASSUME SinkTyped, [SinkNext]_sinkVars PROVE SinkTyped'
  OBVIOUS
<1>0. /\ logged \in Nat /\ logged \in 0..MaxRecords /\ file \in Seq(1..logged) /\ Len(file) \in Nat
      /\ consumed \in 0..Len(file) /\ BatchSize \in Nat /\ MaxRecords \in Nat
      /\ written \subseteq 1..logged /\ confirmed \subseteq written
  BY SinkAssumption DEF SinkTyped, SinkTypeOK
<1>a. spool \in {"none", "open", "removed", "retained"} /\ pump \in {"off", "waiting", "sent"}
      /\ sinkWorker \in {"up", "exited"}
      /\ shutdown \in {"none", "draining", "asked", "reaping", "resolved", "rejected"}
  BY DEF SinkTyped, SinkTypeOK
<1>b. Taken \subseteq 1..logged
  <2>1. ASSUME NEW i \in 1..consumed PROVE file[i] \in 1..logged
    <3>1. i \in 1..Len(file)
      BY <1>0
    <3> QED
      BY <1>0, <3>1
  <2> QED
    BY <2>1 DEF Taken
<1>1. CASE SinkAppends
  <2>1. logged' = logged + 1 /\ logged < MaxRecords /\ file' = Append(file, logged + 1)
        /\ UNCHANGED <<consumed, written, confirmed, sinkWorker, shutdown>>
        /\ spool' = "open" /\ pump' = IF pump = "off" THEN "waiting" ELSE pump
    BY <1>1 DEF SinkAppends
  <2>2. logged' \in 0..MaxRecords /\ 1..logged \subseteq 1..logged' /\ logged + 1 \in 1..logged'
    BY <1>0, <2>1
  <2>3. file \in Seq(1..logged')
    BY <1>0, <2>2
  <2>4. file' \in Seq(1..logged') /\ Len(file') = Len(file) + 1
    BY <2>1, <2>2, <2>3
  <2> QED
    BY <1>0, <1>a, <2>1, <2>2, <2>4 DEF SinkTyped, SinkTypeOK
<1>2. CASE TakeBatch
  <2>1. consumed' \in 0..Len(file)
    BY <1>0, <1>2 DEF TakeBatch
  <2> QED
    BY <1>0, <1>a, <1>2, <2>1 DEF TakeBatch, SinkTyped, SinkTypeOK
<1>3. CASE WorkerWrites
  BY <1>0, <1>a, <1>b, <1>3 DEF WorkerWrites, SinkTyped, SinkTypeOK
<1>4. CASE BatchReplies
  <2>1. confirmed' \subseteq written
    BY <1>0, <1>4 DEF BatchReplies
  <2>2. file' \in Seq(1..logged) /\ consumed' \in 0..Len(file')
    <3>1. CASE Reclaimed
      <4>1. file' = <<>> /\ consumed' = 0
        BY <1>4, <3>1 DEF BatchReplies
      <4> QED
        BY <4>1
    <3>2. CASE ~Reclaimed
      BY <1>0, <1>4, <3>2 DEF BatchReplies
    <3> QED
      BY <3>1, <3>2
  <2>3. UNCHANGED <<logged, spool, written, sinkWorker, shutdown>>
        /\ pump' \in {"off", "waiting", "sent"}
    BY <1>4 DEF BatchReplies
  <2> QED
    BY <1>0, <1>a, <2>1, <2>2, <2>3 DEF SinkTyped, SinkTypeOK
<1>5. CASE InitReplies \/ SinkFails \/ WorkerExits \/ ShutdownBegins \/ ShutdownAsks
           \/ ShutdownReplies \/ ShutdownEnds \/ UNCHANGED sinkVars
  <2>1. UNCHANGED <<logged, file, consumed, written, confirmed>>
    BY <1>5 DEF InitReplies, SinkFails, WorkerExits, ShutdownBegins, ShutdownAsks,
                ShutdownReplies, ShutdownEnds, sinkVars
  <2>2. spool' \in {"none", "open", "removed", "retained"} /\ pump' \in {"off", "waiting", "sent"}
        /\ sinkWorker' \in {"up", "exited"}
        /\ shutdown' \in {"none", "draining", "asked", "reaping", "resolved", "rejected"}
    BY <1>a, <1>5 DEF InitReplies, SinkFails, WorkerExits, ShutdownBegins, ShutdownAsks,
                      ShutdownReplies, ShutdownEnds, sinkVars
  <2> QED
    BY <1>0, <2>1, <2>2 DEF SinkTyped, SinkTypeOK
<1> QED
  BY <1>1, <1>2, <1>3, <1>4, <1>5 DEF SinkNext

LEMMA SinkTypesHold == SinkSpec => []SinkTypeOK
<1>1. SinkInit => SinkTyped
  <2> SUFFICES ASSUME SinkInit PROVE SinkTyped
    OBVIOUS
  <2>1. file = <<>> /\ logged = 0 /\ consumed = 0 /\ written = {} /\ confirmed = {}
    BY DEF SinkInit
  <2>2. file \in Seq(1..logged) /\ consumed \in 0..Len(file) /\ logged \in 0..MaxRecords
    BY <2>1, SinkAssumption
  <2> QED
    BY <2>1, <2>2 DEF SinkInit, SinkTyped, SinkTypeOK
<1>2. SinkTyped => SinkTypeOK
  BY DEF SinkTyped
<1> QED
  BY <1>1, <1>2, SinkTypedStep, PTL DEF SinkSpec

-----------------------------------------------------------------------------
(* The five modules together.  They share no variable, so a behaviour of    *)
(* UiSpec is one of each: whatever is proved of a module holds beside the   *)
(* others.                                                                  *)

LEMMA UiPartsBehave ==
    UiSpec => TreeSpec /\ StoreSpec /\ LogSpec /\ SinkSpec /\ DialogSpec
<1>1. UiInit => TreeInit /\ StoreInit /\ LogInit /\ SinkInit /\ DialogInit
  BY DEF UiInit, TreeRests, StoreRests, LogRests
<1>2. [UiNext]_uiVars => /\ [TreeNext]_treeVars /\ [StoreNext]_storeVars /\ [LogNext]_logVars
                         /\ [SinkNext]_sinkVars /\ [DialogNext]_dialogVars
  BY DEF UiNext, uiVars
<1> QED
  BY <1>1, <1>2, PTL DEF UiSpec, TreeSpec, StoreSpec, LogSpec, SinkSpec, DialogSpec

LEMMA LogInvTyped == LogInv => LogTypeOK
<1> SUFFICES ASSUME LogInv PROVE LogTypeOK
  OBVIOUS
<1>1. last \in 0..MaxLines /\ kept \in 1..(last + 1) /\ waiting \in 0..HookCapacity
      /\ enabledHooks \in 0..LogHooks /\ chain \in 0..LogHooks /\ hookAt \in 0..Skipped
      /\ logRun \in {"none", "running", "draining"}
  BY DEF LogInv, LogTypes, BackendTypes
<1>2. window \in Seq(Lines) /\ maxSeq \in 0..MaxLines /\ reset \in {"none", "begun"}
  BY DEF LogInv, LogTypes, WindowTypes
<1>3. kept \in 1..(MaxLines + 1)
  BY <1>1, LogAssumption
<1>4. ASSUME NEW i \in DOMAIN window PROVE window[i].seq \in 0..MaxLines
  <2>1. window[i] \in Lines
    BY <1>2, <1>4
  <2> QED
    BY <2>1 DEF Lines
<1> QED
  BY <1>1, <1>2, <1>3, <1>4 DEF LogTypeOK

\* Every variable of the five modules keeps its type, however large the
\* instances are.
THEOREM UiTyped == UiSpec => []UiTypeOK
<1>1. LogSpec => []LogInv
  BY LogInvInit, LogInvStep, PTL DEF LogSpec
<1>2. DialogSpec => []DialogInv
  BY DialogInitInv, DialogStepInv, PTL DEF DialogSpec
<1>3. DialogInv => DialogTypeOK
  BY DEF DialogInv
<1> QED
  BY UiPartsBehave, TreeTypes, StoreTypes, SinkTypesHold, LogInvTyped, <1>1, <1>2, <1>3, PTL
     DEF UiTypeOK

\* What each module promises it promises beside the others as well.
THEOREM UiKeepsItsWord ==
    UiSpec => /\ [](/\ TreeTellsTheItems /\ ScriptEditsLand /\ UiFollows /\ RunsAsShown
                    /\ EventsFollowed /\ NoLineLost)
              /\ ChoiceSurvivesLock
  BY UiPartsBehave, TreeTells, ScriptsLand, MatrixGivesBack, StoreFollowsBackend,
     RunsHaveShownSettings, UiFollowsEvents, LinesKept, PTL
=============================================================================
