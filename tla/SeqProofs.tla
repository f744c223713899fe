----------------------------- MODULE SeqProofs -----------------------------
EXTENDS FilteredSeq, SequencesExt, Integers, WellFoundedInduction, TLAPS

LEMMA LeastNat ==
    ASSUME NEW T \in SUBSET Nat, T # {}
    PROVE  \E n \in T : \A m \in T : n <= m
<1> DEFINE R == {p \in Nat \X Nat : p[1] < p[2]}
<1>1. IsWellFoundedOn(R, Nat)
  BY NatLessThanWellFounded DEF OpToRel
<1>2. \A x, y \in Nat : y < x => <<y, x>> \in R
  OBVIOUS
<1> HIDE DEF R
<1>3. PICK n \in T : \A m \in T : ~(<<m, n>> \in R)
  BY <1>1, WFMin
<1>4. ASSUME NEW m \in T PROVE n <= m
  <2>1. <<m, n>> \notin R
    BY <1>3
  <2>2. m \in Nat /\ n \in Nat
    OBVIOUS
  <2>3. ~(m < n)
    BY <2>1, <2>2, <1>2
  <2> QED
    BY <2>2, <2>3
<1> QED
  BY <1>4

\* Induction over 0..N, for a set.
LEMMA Induct ==
    ASSUME NEW N \in Nat, NEW P, 0 \in P, \A n \in 1..N : n - 1 \in P => n \in P
    PROVE  \A n \in 0..N : n \in P
<1> DEFINE Bad == {n \in 0..N : n \notin P}
<1>1. SUFFICES ASSUME Bad # {} PROVE FALSE
  OBVIOUS
<1>2. PICK n \in Bad : \A m \in Bad : n <= m
  <2>1. Bad \in SUBSET Nat
    OBVIOUS
  <2> HIDE DEF Bad
  <2> QED
    BY <1>1, <2>1, LeastNat
<1>3. n \in 1..N /\ n - 1 \in 0..N /\ ~(n <= n - 1)
  OBVIOUS
<1>4. n - 1 \in P
  BY <1>2, <1>3
<1> QED
  BY <1>3, <1>4

\* f goes from s through N steps of F.
Iterated(f, S, s, F, N) ==
    f \in [0..N -> S] /\ f[0] = s /\ \A n \in 1..N : f[n] = F[<<f[n - 1], n>>]

\* A function that is built from the state before is there to be chosen.
LEMMA Iterates ==
    ASSUME NEW S, NEW s \in S, NEW N \in Nat, NEW F \in [S \X (1..N) -> S]
    PROVE  \E f : Iterated(f, S, s, F, N)
<1> USE DEF Iterated
<1> DEFINE Upto(f, m) == Iterated(f, S, s, F, m)
           P == {m \in 0..N : \E f : Upto(f, m)}
<1>1. 0 \in P
  <2>1. Upto([n \in 0..0 |-> s], 0)
    OBVIOUS
  <2> HIDE DEF Upto
  <2> QED
    BY <2>1
<1>2. ASSUME NEW m \in 1..N, m - 1 \in P PROVE m \in P
  <2>1. PICK f : Upto(f, m - 1)
    BY <1>2
  <2>2. m \in Nat /\ m - 1 \in Nat /\ m - 1 \in 0..(m - 1) /\ 0 \in 0..(m - 1)
    OBVIOUS
  <2>3. F[<<f[m - 1], m>>] \in S
    BY <2>1, <2>2
  <2> DEFINE g == [n \in 0..m |-> IF n = m THEN F[<<f[m - 1], m>>] ELSE f[n]]
  <2>4. \A n \in 0..m : n = m \/ n \in 0..(m - 1)
    BY <2>2
  <2>5. g \in [0..m -> S]
    BY <2>1, <2>3, <2>4
  <2>6. g[0] = s
    BY <2>1, <2>2
  <2>7. ASSUME NEW n \in 1..m PROVE g[n] = F[<<g[n - 1], n>>]
    <3>1. n - 1 \in 0..m /\ n - 1 # m /\ n \in 0..m
      BY <2>2
    <3>2. CASE n = m
      BY <3>1, <3>2
    <3>3. CASE n # m
      <4>1. n \in 1..(m - 1)
        BY <2>2, <3>3
      <4> QED
        BY <4>1, <2>1, <3>1, <3>3
    <3> QED
      BY <3>2, <3>3
  <2>8. Upto(g, m)
    BY <2>5, <2>6, <2>7
  <2> HIDE DEF Upto, g
  <2>9. \E h : Upto(h, m)
    BY <2>8
  <2> QED
    BY <2>9
<1>3. \A m \in 0..N : m \in P
  <2> HIDE DEF P
  <2> QED
    BY <1>1, <1>2, Induct
<1>4. \E f : Upto(f, N)
  BY <1>3
<1> QED
  BY <1>4

LEMMA TableIsSeq ==
    ASSUME NEW S, NEW n \in Nat, NEW f \in [1..n -> S]
    PROVE  f \in Seq(S)
  OBVIOUS

\* f is what Filtered builds from the first N elements of s.
IsUpTo(f, s, keep, N) ==
    f = [n \in 0..N |-> IF n = 0 THEN <<>>
                        ELSE IF n \in keep THEN Append(f[n - 1], s[n]) ELSE f[n - 1]]

LEMMA UpToExists ==
    ASSUME NEW s, NEW keep, NEW N \in Nat
    PROVE  \E f : IsUpTo(f, s, keep, N)
<1> USE DEF IsUpTo
<1> DEFINE Step(f, n) == IF n = 0 THEN <<>>
                         ELSE IF n \in keep THEN Append(f[n - 1], s[n]) ELSE f[n - 1]
           P(M) == \E f : f = [n \in 0..M |-> Step(f, n)]
           Bad == {M \in Nat : ~P(M)}
<1>1. SUFFICES ASSUME Bad # {} PROVE FALSE
  OBVIOUS
<1>2. PICK M \in Bad : \A m \in Bad : M <= m
  <2> HIDE DEF P
  <2> QED
    BY <1>1, LeastNat
<1>3. CASE M = 0
  <2> DEFINE g == [n \in 0..0 |-> <<>>]
  <2>1. \A n \in 0..0 : Step(g, n) = <<>>
    OBVIOUS
  <2>2. g = [n \in 0..0 |-> Step(g, n)]
    BY <2>1
  <2>3. P(0)
    BY <2>2
  <2> QED
    BY <2>3, <1>3, <1>2
<1>4. CASE M # 0
  <2>1. M \in Nat /\ M - 1 \in Nat /\ P(M - 1)
    <3> HIDE DEF P
    <3>1. M \in Nat /\ M - 1 \in Nat /\ ~(M <= M - 1)
      BY <1>4
    <3>2. M - 1 \notin Bad
      BY <3>1, <1>2
    <3> QED
      BY <3>1, <3>2
  <2>2. PICK f : f = [n \in 0..(M - 1) |-> Step(f, n)]
    BY <2>1
  <2> DEFINE g == [n \in 0..M |-> IF n = M THEN Step(f, M) ELSE f[n]]
  <2>3. \A n \in 0..M : g[n] = Step(g, n)
    <3> TAKE n \in 0..M
    <3>1. n # 0 => n - 1 \in 0..(M - 1) /\ n - 1 \in 0..M /\ n - 1 # M
      BY <2>1
    <3>2. n # 0 => g[n - 1] = f[n - 1]
      BY <3>1
    <3>3. Step(g, n) = Step(f, n)
      BY <3>2
    <3>4. CASE n = M
      BY <3>3, <3>4
    <3>5. CASE n # M
      <4>1. n \in 0..(M - 1)
        BY <3>5, <2>1
      <4>2. f[n] = Step(f, n)
        BY <4>1, <2>2
      <4> QED
        BY <4>2, <3>3, <3>5
    <3> QED
      BY <3>4, <3>5
  <2>4. g = [n \in 0..M |-> Step(g, n)]
    BY <2>3
  <2>5. P(M)
    BY <2>4
  <2> QED
    BY <2>5, <1>2
<1> QED
  BY <1>3, <1>4, <1>2

\* r has the elements of s at the places of keep, each once, in order: element k
\* of r is element h[k] of s.
Picks(h, r, s, keep) ==
    /\ h \in [1..Len(r) -> 1..Len(s)]
    /\ \A k \in DOMAIN h : h[k] \in keep /\ r[k] = s[h[k]]
    /\ \A n \in 1..Len(s) : n \in keep => \E k \in DOMAIN h : h[k] = n
    /\ \A j, k \in DOMAIN h : j < k => h[j] < h[k]

\* What Filtered is: the elements at the places to keep, each once, in order.
LEMMA FilteredPlaces ==
    ASSUME NEW S, NEW s \in Seq(S), NEW keep
    PROVE  /\ Filtered(s, keep) \in Seq(S)
           /\ \E h : Picks(h, Filtered(s, keep), s, keep)
<1> DEFINE L == Len(s)
           f == CHOOSE f : IsUpTo(f, s, keep, L)
           Places(n, h) ==
              /\ h \in [1..Len(f[n]) -> 1..n]
              /\ \A k \in 1..Len(f[n]) : h[k] \in keep /\ f[n][k] = s[h[k]]
              /\ \A m \in 1..n : m \in keep => \E k \in 1..Len(f[n]) : h[k] = m
              /\ \A j, k \in 1..Len(f[n]) : j < k => h[j] < h[k]
           P(n) == n <= L => f[n] \in Seq(S) /\ \E h : Places(n, h)
           Bad == {n \in Nat : ~P(n)}
<1>1. L \in Nat
  OBVIOUS
<1>2. f = [n \in 0..L |-> IF n = 0 THEN <<>>
                          ELSE IF n \in keep THEN Append(f[n - 1], s[n]) ELSE f[n - 1]]
  <2>1. \E g : IsUpTo(g, s, keep, L)
    <3> HIDE DEF L
    <3> QED
      BY <1>1, UpToExists
  <2>2. IsUpTo(f, s, keep, L)
    BY <2>1, Zenon
  <2> HIDE DEF f, L
  <2> QED
    BY <2>2 DEF IsUpTo
<1>3. Filtered(s, keep) = f[L]
  BY DEF Filtered, IsUpTo
<1> HIDE DEF f, L
<1>4. f[0] = <<>>
  BY <1>1, <1>2
<1>5. ASSUME NEW n \in Nat, n + 1 <= L
      PROVE  f[n + 1] = IF n + 1 \in keep THEN Append(f[n], s[n + 1]) ELSE f[n]
  <2>1. n + 1 \in 0..L /\ n + 1 # 0 /\ n + 1 - 1 = n
    BY <1>1, <1>5
  <2>2. \A j \in 0..L : f[j] = IF j = 0 THEN <<>>
                   ELSE IF j \in keep THEN Append(f[j - 1], s[j]) ELSE f[j - 1]
    BY <1>2, Zenon
  <2>3. f[n + 1] = IF n + 1 = 0 THEN <<>>
                   ELSE IF n + 1 \in keep THEN Append(f[n + 1 - 1], s[n + 1]) ELSE f[n + 1 - 1]
    BY <2>1, <2>2
  <2> QED
    BY <2>1, <2>3
<1>6. P(0)
  <2>1. Places(0, <<>>)
    BY <1>4
  <2>2. f[0] \in Seq(S)
    BY <1>4
  <2> HIDE DEF Places
  <2> QED
    BY <2>1, <2>2
<1>7. ASSUME NEW n \in Nat, P(n)
      PROVE  P(n + 1)
  <2> SUFFICES ASSUME n + 1 <= L
               PROVE  f[n + 1] \in Seq(S) /\ \E h : Places(n + 1, h)
    OBVIOUS
  <2>1. f[n] \in Seq(S) /\ \E h : Places(n, h)
    BY <1>1, <1>7
  <2>2. PICK h : Places(n, h)
    BY <2>1
  <2>3. s[n + 1] \in S
    BY <1>1 DEF L
  <2>4. CASE n + 1 \in keep
    <3>1. f[n + 1] = Append(f[n], s[n + 1])
      BY <2>4, <1>5
    <3> DEFINE g == [k \in 1..(Len(f[n]) + 1) |-> IF k = Len(f[n]) + 1 THEN n + 1 ELSE h[k]]
    <3>2. Len(f[n + 1]) = Len(f[n]) + 1 /\ f[n + 1] \in Seq(S) /\ Len(f[n]) \in Nat
      BY <3>1, <2>1, <2>3
    <3>3. /\ \A k \in 1..Len(f[n]) : g[k] = h[k] /\ f[n + 1][k] = f[n][k]
          /\ g[Len(f[n]) + 1] = n + 1 /\ f[n + 1][Len(f[n]) + 1] = s[n + 1]
      BY <3>1, <3>2, <2>1
    <3>4. \A k \in 1..(Len(f[n]) + 1) : k = Len(f[n]) + 1 \/ k \in 1..Len(f[n])
      BY <3>2
    <3>5. g \in [1..Len(f[n + 1]) -> 1..(n + 1)]
      BY <3>2, <3>3, <3>4, <2>2
    <3> HIDE DEF g
    <3>6. \A k \in 1..Len(f[n + 1]) : g[k] \in keep /\ f[n + 1][k] = s[g[k]]
      BY <3>2, <3>3, <3>4, <2>2, <2>4
    <3>7. \A m \in 1..(n + 1) : m \in keep => \E k \in 1..Len(f[n + 1]) : g[k] = m
      <4> SUFFICES ASSUME NEW m \in 1..(n + 1), m \in keep
                   PROVE  \E k \in 1..Len(f[n + 1]) : g[k] = m
        OBVIOUS
      <4>1. CASE m = n + 1
        BY <4>1, <3>2, <3>3
      <4>2. CASE m # n + 1
        <5>1. PICK k \in 1..Len(f[n]) : h[k] = m
          BY <4>2, <2>2
        <5>2. k \in 1..Len(f[n + 1]) /\ g[k] = m
          BY <5>1, <3>2, <3>3
        <5> QED
          BY <5>2
      <4> QED
        BY <4>1, <4>2
    <3>8. \A j, k \in 1..Len(f[n + 1]) : j < k => g[j] < g[k]
      <4> SUFFICES ASSUME NEW j \in 1..Len(f[n + 1]), NEW k \in 1..Len(f[n + 1]), j < k
                   PROVE  g[j] < g[k]
        OBVIOUS
      <4>0. j \in Nat /\ k \in Nat /\ k <= Len(f[n]) + 1 /\ 1 <= j
        BY <3>2
      <4>1. j \in 1..Len(f[n])
        BY <4>0, <3>2
      <4>1a. h[j] \in 1..n
        BY <4>1, <2>2
      <4> QED
        BY <4>1, <4>1a, <3>2, <3>3, <3>4, <2>2
    <3>9. Places(n + 1, g)
      BY <3>5, <3>6, <3>7, <3>8
    <3> QED
      BY <3>2, <3>9
  <2>5. CASE n + 1 \notin keep
    <3>1. f[n + 1] = f[n]
      BY <2>5, <1>5
    <3>2. \A m \in 1..(n + 1) : m \in keep => m \in 1..n
      BY <2>5
    <3>3. Places(n + 1, h)
      BY <3>1, <3>2, <2>2
    <3> QED
      BY <3>1, <3>3, <2>1
  <2> QED
    BY <2>4, <2>5
<1>8. P(L)
  <2> HIDE DEF P
  <2>1. SUFFICES ASSUME Bad # {} PROVE FALSE
    BY <1>1
  <2>2. PICK n \in Bad : \A m \in Bad : n <= m
    BY <2>1, LeastNat
  <2>3. n # 0
    BY <1>6
  <2>4. n - 1 \in Nat /\ n - 1 \notin Bad /\ n - 1 + 1 = n
    BY <2>2, <2>3
  <2>5. P(n - 1 + 1)
    BY <2>4, <1>7
  <2> QED
    BY <2>4, <2>5
<1>9. f[L] \in Seq(S) /\ \E h : Places(L, h)
  <2> HIDE DEF Places
  <2> QED
    BY <1>1, <1>8
<1>10. PICK h : Places(L, h)
  BY <1>9
<1>11. DOMAIN h = 1..Len(f[L])
  BY <1>10
<1>12. /\ h \in [1..Len(f[L]) -> 1..L]
       /\ \A k \in DOMAIN h : h[k] \in keep /\ f[L][k] = s[h[k]]
       /\ \A n \in 1..L : n \in keep => \E k \in DOMAIN h : h[k] = n
       /\ \A j, k \in DOMAIN h : j < k => h[j] < h[k]
  BY <1>10, <1>11, Zenon
<1> HIDE DEF Places
<1>13. L = Len(s)
  BY DEF L
<1>14. Picks(h, f[L], s, keep)
  BY <1>12, <1>13, Zenon DEF Picks
<1> QED
  BY <1>3, <1>9, <1>14, <1>13, Zenon

\* What RemoveAt leaves, and where it was.
LEMMA RemovedAt ==
    ASSUME NEW S, NEW s \in Seq(S), NEW i \in DOMAIN s
    PROVE  /\ RemoveAt(s, i) \in Seq(S)
           /\ DOMAIN RemoveAt(s, i) = 1..(Len(s) - 1)
           /\ \A j \in DOMAIN RemoveAt(s, i) :
                 LET k == IF j < i THEN j ELSE j + 1
                 IN k \in DOMAIN s /\ k # i /\ RemoveAt(s, i)[j] = s[k]
           /\ \A k \in DOMAIN s : k # i => \E j \in DOMAIN RemoveAt(s, i) : RemoveAt(s, i)[j] = s[k]
<1> DEFINE L == Len(s)
           a0 == SubSeq(s, 1, i - 1)
           b0 == SubSeq(s, i + 1, L)
           r == a0 \o b0
<1>1. i \in 1..L /\ L \in Nat /\ DOMAIN s = 1..L /\ i \in Nat
  OBVIOUS
<1>0. RemoveAt(s, i) = r
  BY DEF RemoveAt
<1>2. /\ a0 \in Seq(S) /\ Len(a0) = i - 1
      /\ \A j \in 1..(i - 1) : a0[j] = s[j]
  BY <1>1
<1>3. /\ b0 \in Seq(S) /\ Len(b0) = L - i
      /\ \A j \in 1..(L - i) : b0[j] = s[i + j]
  <2>1. i + 1 \in 1..(L + 1) /\ L \in 0..Len(s) /\ L - (i + 1) + 1 = L - i
    BY <1>1
  <2>2. b0 \in Seq(S) /\ Len(b0) = L - i
    BY <2>1, <1>1
  <2>3. ASSUME NEW j \in 1..(L - i) PROVE b0[j] = s[i + j]
    <3>1. (i + 1) + j - 1 = i + j
      BY <1>1
    <3>2. b0[j] = s[(i + 1) + j - 1]
      BY <2>1, <1>1
    <3> QED
      BY <3>1, <3>2
  <2> QED
    BY <2>2, <2>3
<1>4. ASSUME NEW a \in Seq(S), NEW b \in Seq(S), Len(a) = i - 1, Len(b) = L - i
      PROVE  /\ a \o b \in Seq(S) /\ Len(a \o b) = L - 1 /\ DOMAIN (a \o b) = 1..(L - 1)
             /\ \A j \in 1..(i - 1) : (a \o b)[j] = a[j]
             /\ \A j \in i..(L - 1) : j - i + 1 \in 1..(L - i) /\ (a \o b)[j] = b[j - i + 1]
  <2> HIDE DEF L
  <2>0. (i - 1) + (L - i) = L - 1
    BY <1>1
  <2>1. a \o b \in Seq(S) /\ Len(a \o b) = L - 1 /\ DOMAIN (a \o b) = 1..(L - 1)
    BY <2>0, <1>4
  <2>2. \A j \in 1..(i - 1) : (a \o b)[j] = a[j]
    BY <1>1, <1>4
  <2>3. ASSUME NEW j \in i..(L - 1)
        PROVE  j - i + 1 \in 1..(L - i) /\ (a \o b)[j] = b[j - i + 1]
    <3>1. j \in Nat /\ j - i + 1 \in 1..(L - i) /\ j - (i - 1) = j - i + 1
      BY <1>1
    <3>2. j \in 1..(Len(a) + Len(b)) /\ ~(j <= Len(a))
      BY <1>1, <1>4
    <3>3. (a \o b)[j] = b[j - Len(a)]
      BY <3>2
    <3> QED
      BY <3>1, <3>3, <1>4
  <2> QED
    BY <2>1, <2>2, <2>3
<1> HIDE DEF L, a0, b0
<1>5. /\ r \in Seq(S) /\ DOMAIN r = 1..(L - 1)
      /\ \A j \in 1..(i - 1) : r[j] = a0[j]
      /\ \A j \in i..(L - 1) : j - i + 1 \in 1..(L - i) /\ r[j] = b0[j - i + 1]
  BY <1>2, <1>3, <1>4
<1> HIDE DEF r
<1>6. ASSUME NEW j \in i..(L - 1) PROVE r[j] = s[j + 1]
  <2>1. i + (j - i + 1) = j + 1
    BY <1>1
  <2>2. r[j] = s[i + (j - i + 1)]
    BY <1>3, <1>5, <1>6
  <2> QED
    BY <2>1, <2>2
<1>6a. \A j \in 1..(i - 1) : r[j] = s[j]
  BY <1>2, <1>5
<1>7. ASSUME NEW j \in DOMAIN r
      PROVE  LET k == IF j < i THEN j ELSE j + 1 IN k \in DOMAIN s /\ k # i /\ r[j] = s[k]
  <2>1. CASE j < i
    <3>1. j \in 1..(i - 1) /\ j \in DOMAIN s /\ j # i
      BY <1>1, <1>5, <2>1
    <3> QED
      BY <3>1, <1>6a, <2>1
  <2>2. CASE ~(j < i)
    <3>1. j \in i..(L - 1) /\ j + 1 \in DOMAIN s /\ j + 1 # i
      BY <1>1, <1>5, <2>2
    <3> QED
      BY <3>1, <1>6, <2>2
  <2> QED
    BY <2>1, <2>2
<1>8. \A k \in DOMAIN s : k # i => \E j \in DOMAIN r : r[j] = s[k]
  <2> TAKE k \in DOMAIN s
  <2> HAVE k # i
  <2>1. CASE k < i
    <3>1. k \in 1..(i - 1) /\ k \in DOMAIN r
      BY <1>1, <1>5, <2>1
    <3> QED
      BY <3>1, <1>6a
  <2>2. CASE ~(k < i)
    <3>1. k - 1 \in i..(L - 1) /\ k - 1 \in DOMAIN r /\ k - 1 + 1 = k
      BY <1>1, <1>5, <2>2
    <3> QED
      BY <3>1, <1>6
  <2> QED
    BY <2>1, <2>2
<1>9. L = Len(s)
  BY DEF L
<1> QED
  BY <1>0, <1>5, <1>7, <1>8, <1>9

LEMMA AppendedPlaces ==
    ASSUME NEW S, NEW s \in Seq(S), NEW e \in S
    PROVE  /\ \A k \in DOMAIN s : k \in DOMAIN Append(s, e) /\ Append(s, e)[k] = s[k]
           /\ Len(s) + 1 \in DOMAIN Append(s, e) /\ Append(s, e)[Len(s) + 1] = e
           /\ \A k \in DOMAIN Append(s, e) : k \in DOMAIN s \/ k = Len(s) + 1
OBVIOUS

LEMMA AppendedTo ==
    ASSUME NEW S, NEW s \in Seq(S), NEW e \in S
    PROVE  /\ Append(s, e) \in Seq(S)
           /\ \A t : Contains(Append(s, e), t) <=> Contains(s, t) \/ t = e
<1>1. /\ Append(s, e) \in Seq(S) /\ Len(Append(s, e)) = Len(s) + 1 /\ Len(s) \in Nat
      /\ \A k \in 1..Len(s) : Append(s, e)[k] = s[k]
      /\ Append(s, e)[Len(s) + 1] = e
  OBVIOUS
<1> DEFINE a == Append(s, e)
<1> HIDE DEF a
<1>2. \A k \in 1..Len(a) : k \in 1..Len(s) \/ k = Len(s) + 1
  BY <1>1 DEF a
<1>3. \A k \in 1..Len(s) : k \in 1..Len(a)
  BY <1>1 DEF a
<1>4. Len(s) + 1 \in 1..Len(a)
  BY <1>1 DEF a
<1>5. \A k \in 1..Len(s) : a[k] = s[k]
  BY <1>1 DEF a
<1>6. a[Len(s) + 1] = e
  BY <1>1 DEF a
<1>7. \A t : Contains(a, t) <=> Contains(s, t) \/ t = e
  BY <1>2, <1>3, <1>4, <1>5, <1>6 DEF Contains
<1> QED
  BY <1>1, <1>7 DEF a

-----------------------------------------------------------------------------
(* Sequences one after the other. *)

LEMMA ConcatIs ==
    ASSUME NEW S, NEW s \in Seq(S), NEW t \in Seq(S)
    PROVE  /\ Len(s) \in Nat /\ Len(t) \in Nat /\ s \o <<>> = s /\ <<>> \o s = s
           /\ s \o t \in Seq(S) /\ Len(s \o t) = Len(s) + Len(t)
           /\ \A n \in 1..Len(s) : (s \o t)[n] = s[n]
           /\ \A n \in 1..(Len(s) + Len(t)) : n > Len(s) => (s \o t)[n] = t[n - Len(s)]
OBVIOUS

LEMMA ConcatAssoc ==
    ASSUME NEW S, NEW r \in Seq(S), NEW s \in Seq(S), NEW t \in Seq(S)
    PROVE  (r \o s) \o t = r \o (s \o t)
OBVIOUS

-----------------------------------------------------------------------------
(* What FlattenSeq makes of a sequence of sequences. *)

\* Putting the n-th of cs behind what the ones before it make.
Joins(S, cs) == [p \in Seq(S) \X (1..Len(cs)) |-> p[1] \o cs[p[2]]]

IsFlat(f, cs) == f = [i \in 1..Len(cs) |-> IF i = 1 THEN cs[i] ELSE f[i - 1] \o cs[i]]

\* h tells what the first n of cs make.
Flats(h, S, cs) == Iterated(h, Seq(S), <<>>, Joins(S, cs), Len(cs))

LEMMA FlatsStep ==
    ASSUME NEW S, NEW cs \in Seq(Seq(S)), NEW h
    PROVE  Flats(h, S, cs) <=> /\ h \in [0..Len(cs) -> Seq(S)] /\ h[0] = <<>>
                               /\ \A n \in 1..Len(cs) : h[n] = h[n - 1] \o cs[n]
<1>1. ASSUME h \in [0..Len(cs) -> Seq(S)], NEW n \in 1..Len(cs)
      PROVE  Joins(S, cs)[<<h[n - 1], n>>] = h[n - 1] \o cs[n]
  <2>1. n - 1 \in 0..Len(cs)
    OBVIOUS
  <2>2. h[n - 1] \in Seq(S)
    BY <1>1, <2>1
  <2> QED
    BY <2>2 DEF Joins
<1> QED
  BY <1>1 DEF Flats, Iterated

LEMMA FlatsExist ==
    ASSUME NEW S, NEW cs \in Seq(Seq(S))
    PROVE  \E h : Flats(h, S, cs)
<1>1. Joins(S, cs) \in [Seq(S) \X (1..Len(cs)) -> Seq(S)]
  <2>1. \A p \in Seq(S) \X (1..Len(cs)) : p[1] \o cs[p[2]] \in Seq(S)
    <3>1. SUFFICES ASSUME NEW s \in Seq(S), NEW i \in 1..Len(cs) PROVE s \o cs[i] \in Seq(S)
      OBVIOUS
    <3>2. cs[i] \in Seq(S)
      OBVIOUS
    <3> QED
      BY <3>2
  <2> QED
    BY <2>1 DEF Joins
<1>2. <<>> \in Seq(S) /\ Len(cs) \in Nat
  OBVIOUS
<1> QED
  BY <1>1, <1>2, Iterates DEF Flats

LEMMA FlatsLast ==
    ASSUME NEW S, NEW cs \in Seq(Seq(S)), NEW h, Flats(h, S, cs)
    PROVE  FlattenSeq(cs) = h[Len(cs)]
<1> DEFINE N == Len(cs)
           f == CHOOSE f : IsFlat(f, cs)
           g == [i \in 1..N |-> h[i]]
<1>n. N \in Nat
  OBVIOUS
<1>0. /\ N \in Nat /\ h \in [0..N -> Seq(S)] /\ h[0] = <<>>
      /\ \A n \in 1..N : h[n] = h[n - 1] \o cs[n]
  <2> HIDE DEF f, g
  <2> QED
    BY <1>n, FlatsStep
<1>1. CASE N = 0
  <2>1. cs = <<>>
    BY <1>1
  <2> QED
    BY <1>0, <1>1, <2>1 DEF FlattenSeq
<1>2. CASE N # 0
  <2>1. IsFlat(g, cs)
    <3>1. SUFFICES ASSUME NEW i \in 1..N
                   PROVE  g[i] = IF i = 1 THEN cs[i] ELSE g[i - 1] \o cs[i]
      BY DEF IsFlat
    <3>2. cs[i] \in Seq(S)
      OBVIOUS
    <3>3. h[i] = h[i - 1] \o cs[i]
      BY <1>0
    <3>4. CASE i = 1
      <4>1. h[i] = <<>> \o cs[i]
        BY <1>0, <3>3, <3>4
      <4> QED
        BY <3>2, <3>4, <4>1
    <3>5. CASE i # 1
      <4>1. i - 1 \in 1..N
        BY <3>5
      <4> QED
        BY <3>3, <3>5, <4>1
    <3> QED
      BY <3>4, <3>5
  <2>2. IsFlat(f, cs)
    BY <2>1
  <2> HIDE DEF f, g
  <2>3. \A n \in 0..N : n \in {m \in 0..N : m = 0 \/ f[m] = g[m]}
    <3> DEFINE P == {m \in 0..N : m = 0 \/ f[m] = g[m]}
    <3>1. 0 \in P
      BY <1>0
    <3>2. ASSUME NEW n \in 1..N, n - 1 \in P PROVE n \in P
      <4>1. f[n] = (IF n = 1 THEN cs[n] ELSE f[n - 1] \o cs[n])
        BY <2>2 DEF IsFlat
      <4>2. g[n] = (IF n = 1 THEN cs[n] ELSE g[n - 1] \o cs[n])
        BY <2>1 DEF IsFlat
      <4> QED
        BY <3>2, <4>1, <4>2
    <3> HIDE DEF P
    <3> QED
      BY <1>0, <3>1, <3>2, Induct DEF P
  <2>4. f[N] = g[N]
    BY <1>0, <1>2, <2>3
  <2>5. FlattenSeq(cs) = f[N]
    BY <1>2 DEF FlattenSeq, f, IsFlat
  <2> QED
    BY <1>0, <1>2, <2>4, <2>5 DEF g
<1> QED
  BY <1>1, <1>2

\* What two sequences of sequences make one after the other.
LEMMA FlattenConcat ==
    ASSUME NEW S, NEW xs \in Seq(Seq(S)), NEW ys \in Seq(Seq(S))
    PROVE  /\ FlattenSeq(xs) \in Seq(S)
           /\ FlattenSeq(xs \o ys) = FlattenSeq(xs) \o FlattenSeq(ys)
<1>1. PICK f : Flats(f, S, xs)
  BY FlatsExist
<1>2. PICK g : Flats(g, S, ys)
  BY FlatsExist
<1> DEFINE A == Len(xs)
           B == Len(ys)
           e == [n \in 0..B |-> f[A] \o g[n]]
           h == [n \in 0..(A + B) |-> IF n <= A THEN f[n] ELSE e[n - A]]
<1>3. A \in Nat /\ B \in Nat
  BY ConcatIs
<1>4. /\ f \in [0..A -> Seq(S)] /\ f[0] = <<>>
      /\ \A n \in 1..A : f[n] = f[n - 1] \o xs[n]
  BY <1>1, FlatsStep
<1>5. /\ g \in [0..B -> Seq(S)] /\ g[0] = <<>>
      /\ \A n \in 1..B : g[n] = g[n - 1] \o ys[n]
  BY <1>2, FlatsStep
<1>6. /\ xs \o ys \in Seq(Seq(S)) /\ Len(xs \o ys) = A + B
      /\ \A n \in 1..A : (xs \o ys)[n] = xs[n]
      /\ \A n \in 1..(A + B) : n > A => (xs \o ys)[n] = ys[n - A]
  <2> HIDE DEF e, h
  <2> QED
    BY ConcatIs
<1> HIDE DEF A, B
<1>7. /\ e \in [0..B -> Seq(S)] /\ e[0] = f[A]
      /\ \A n \in 1..B : e[n] = e[n - 1] \o ys[n]
  <2>1. \A r, s \in Seq(S) : r \o s \in Seq(S) /\ r \o <<>> = r
    BY ConcatIs
  <2>2. \A r, s, t \in Seq(S) : (r \o s) \o t = r \o (s \o t)
    BY ConcatAssoc
  <2>3. f[A] \in Seq(S)
    BY <1>3, <1>4
  <2>4. \A n \in 0..B : g[n] \in Seq(S)
    BY <1>5
  <2>5. e \in [0..B -> Seq(S)]
    BY <2>1, <2>3, <2>4
  <2>6. e[0] = f[A]
    <3>1. 0 \in 0..B
      BY <1>3
    <3>2. e[0] = f[A] \o g[0]
      BY <3>1, Zenon
    <3> QED
      BY <1>5, <2>1, <2>3, <3>2, Zenon
  <2>7. ASSUME NEW n \in 1..B PROVE e[n] = e[n - 1] \o ys[n]
    <3>1. n \in 0..B /\ n - 1 \in 0..B
      BY <1>3
    <3>2. e[n] = f[A] \o g[n] /\ e[n - 1] = f[A] \o g[n - 1]
      BY <3>1, Zenon
    <3>3. ys[n] \in Seq(S)
      BY DEF B
    <3>4. f[A] \o (g[n - 1] \o ys[n]) = (f[A] \o g[n - 1]) \o ys[n]
      BY <2>2, <2>3, <2>4, <3>1, <3>3, Zenon
    <3>5. g[n] = g[n - 1] \o ys[n]
      BY <1>5
    <3> HIDE DEF e
    <3> QED
      BY <3>2, <3>4, <3>5, Zenon
  <2> QED
    BY <2>5, <2>6, <2>7
<1> HIDE DEF e
<1>8. h \in [0..(A + B) -> Seq(S)]
  <2>1. \A n \in 0..(A + B) : n <= A => f[n] \in Seq(S)
    BY <1>3, <1>4
  <2>2. \A n \in 0..(A + B) : n > A => e[n - A] \in Seq(S)
    BY <1>3, <1>7
  <2>3. \A n \in 0..(A + B) : (IF n <= A THEN f[n] ELSE e[n - A]) \in Seq(S)
    <3>1. TAKE n \in 0..(A + B)
    <3>2. CASE n <= A
      BY <2>1, <3>2, Zenon
    <3>3. CASE ~(n <= A)
      BY <1>3, <2>2, <3>3
    <3> QED
      BY <3>2, <3>3, Zenon
  <2> QED
    BY <2>3, Zenon
<1>9. \A n \in 1..(A + B) : h[n] = h[n - 1] \o (xs \o ys)[n]
  <2>1. SUFFICES ASSUME NEW n \in 1..(A + B) PROVE h[n] = h[n - 1] \o (xs \o ys)[n]
    OBVIOUS
  <2>2. CASE n <= A
    <3>1. n \in 1..A /\ n - 1 <= A /\ n - 1 \in 0..(A + B) /\ n \in 0..(A + B)
      BY <1>3, <2>2
    <3>2. h[n] = f[n] /\ h[n - 1] = f[n - 1]
      BY <3>1
    <3> HIDE DEF h
    <3> QED
      BY <1>4, <1>6, <3>1, <3>2, Zenon
  <2>3. CASE n > A
    <3>1. n - A \in 1..B /\ n - 1 \in 0..(A + B) /\ n \in 0..(A + B)
      BY <1>3, <2>3
    <3>2. h[n] = e[n - A]
      BY <1>3, <2>3, <3>1
    <3>3. h[n - 1] = e[n - A - 1]
      <4>1. CASE n - 1 = A
        <5>1. h[n - 1] = f[A] /\ n - A - 1 = 0
          BY <1>3, <3>1, <4>1
        <5> QED
          BY <1>7, <5>1
      <4>2. CASE n - 1 > A
        <5>1. n - A - 1 = n - 1 - A
          BY <1>3
        <5> QED
          BY <1>3, <3>1, <4>2, <5>1
      <4>3. n - 1 = A \/ n - 1 > A
        BY <1>3, <2>3
      <4> QED
        BY <4>1, <4>2, <4>3, Zenon
    <3> HIDE DEF h
    <3> QED
      BY <1>6, <1>7, <2>3, <3>1, <3>2, <3>3, Zenon
  <2> HIDE DEF h
  <2>4. n <= A \/ n > A
    BY <1>3
  <2> QED
    BY <2>2, <2>3, <2>4, Zenon
<1>10. h[0] = <<>> /\ h[A + B] = e[B]
  <2>1. h[0] = f[0]
    BY <1>3
  <2>2. h[A + B] = e[B]
    <3>1. CASE B = 0
      <4>1. h[A + B] = f[A]
        BY <1>3, <3>1
      <4> QED
        BY <1>7, <3>1, <4>1
    <3>2. CASE B # 0
      <4>1. A + B > A /\ A + B \in 0..(A + B) /\ A + B - A = B
        BY <1>3, <3>2
      <4> QED
        BY <1>3, <4>1
    <3> QED
      BY <3>1, <3>2
  <2> QED
    BY <1>4, <2>1, <2>2
<1> HIDE DEF h
<1>11. Flats(h, S, xs \o ys)
  BY <1>6, <1>8, <1>9, <1>10, FlatsStep
<1>12. FlattenSeq(xs) = f[A] /\ FlattenSeq(ys) = g[B]
  BY <1>1, <1>2, FlatsLast DEF A, B
<1>13. FlattenSeq(xs \o ys) = e[B]
  BY <1>6, <1>10, <1>11, FlatsLast
<1>14. e[B] = f[A] \o g[B]
  <2>1. B \in 0..B
    BY <1>3
  <2> QED
    BY <2>1, Zenon DEF e
<1>15. f[A] \in Seq(S)
  BY <1>3, <1>4
<1> QED
  BY <1>12, <1>13, <1>14, <1>15

LEMMA FlattenOne ==
    ASSUME NEW S, NEW c \in Seq(S)
    PROVE  FlattenSeq(<<c>>) = c
<1> DEFINE h == [n \in 0..1 |-> IF n = 0 THEN <<>> ELSE c]
<1>1. <<c>> \in Seq(Seq(S)) /\ Len(<<c>>) = 1 /\ <<c>>[1] = c /\ <<>> \o c = c
  OBVIOUS
<1>2. \A n \in 1..1 : n = 1
  OBVIOUS
<1>3. h \in [0..1 -> Seq(S)] /\ h[0] = <<>> /\ h[1] = c
  OBVIOUS
<1> HIDE DEF h
<1>4. Flats(h, S, <<c>>)
  BY <1>1, <1>2, <1>3, FlatsStep
<1> QED
  BY <1>1, <1>3, <1>4, FlatsLast

LEMMA FlattenNone == FlattenSeq(<<>>) = <<>>
  BY DEF FlattenSeq

-----------------------------------------------------------------------------
(* Parts of a sequence. *)

LEMMA SubSeqIs ==
    ASSUME NEW S, NEW s \in Seq(S), NEW m \in Nat, NEW n \in Nat, m >= 1, n <= Len(s)
    PROVE  /\ SubSeq(s, m, n) \in Seq(S)
           /\ Len(SubSeq(s, m, n)) = IF m <= n THEN n - m + 1 ELSE 0
           /\ \A i \in 1..Len(SubSeq(s, m, n)) : SubSeq(s, m, n)[i] = s[m + i - 1]
OBVIOUS

LEMMA SameSeq ==
    ASSUME NEW S, NEW s \in Seq(S), NEW t \in Seq(S), Len(s) = Len(t),
           \A i \in 1..Len(s) : s[i] = t[i]
    PROVE  s = t
OBVIOUS

\* What n elements taken from the front leave.
After(s, n) == SubSeq(s, n + 1, Len(s))

\* A cut in the middle one of three.
LEMMA CutConcat ==
    ASSUME NEW S, NEW a \in Seq(S), NEW c \in Seq(S), NEW r \in Seq(S), NEW n \in Nat,
           Len(a) <= n, n < Len(a) + Len(c)
    PROVE  After(a \o (c \o r), n) = After(c, n - Len(a)) \o r
<1> USE DEF After
<1> DEFINE cr == c \o r
           all == a \o cr
           left == SubSeq(all, n + 1, Len(all))
           cut == SubSeq(c, n - Len(a) + 1, Len(c))
           right == cut \o r
<1>0. Len(a) \in Nat /\ Len(c) \in Nat /\ Len(r) \in Nat
  BY ConcatIs
<1>1. /\ cr \in Seq(S) /\ Len(cr) = Len(c) + Len(r)
      /\ \A i \in 1..Len(c) : cr[i] = c[i]
      /\ \A i \in 1..(Len(c) + Len(r)) : i > Len(c) => cr[i] = r[i - Len(c)]
  BY ConcatIs
<1> HIDE DEF cr
<1>2. /\ all \in Seq(S) /\ Len(all) = Len(a) + Len(cr)
      /\ \A i \in 1..(Len(a) + Len(cr)) : i > Len(a) => all[i] = cr[i - Len(a)]
  <2>1. \A t \in Seq(S) : /\ a \o t \in Seq(S) /\ Len(a \o t) = Len(a) + Len(t)
                          /\ \A i \in 1..(Len(a) + Len(t)) :
                                i > Len(a) => (a \o t)[i] = t[i - Len(a)]
    BY ConcatIs
  <2>2. cr \in Seq(S)
    BY <1>1
  <2> QED
    BY <2>1, <2>2, Zenon
<1> HIDE DEF all
<1>3. /\ left \in Seq(S) /\ Len(left) = Len(all) - n
      /\ \A i \in 1..Len(left) : left[i] = all[n + i]
  <2>1. n + 1 \in Nat /\ Len(all) \in Nat /\ n + 1 >= 1 /\ n + 1 <= Len(all)
    BY <1>0, <1>1, <1>2
  <2>2. /\ left \in Seq(S) /\ Len(left) = Len(all) - (n + 1) + 1
        /\ \A i \in 1..Len(left) : left[i] = all[n + 1 + i - 1]
    BY <1>2, <2>1, SubSeqIs
  <2> HIDE DEF left
  <2> QED
    BY <2>1, <2>2
<1> HIDE DEF left
<1>4. /\ cut \in Seq(S) /\ Len(cut) = Len(a) + Len(c) - n
      /\ \A i \in 1..Len(cut) : cut[i] = c[n - Len(a) + i]
  <2> DEFINE m == n - Len(a) + 1
  <2>1. m \in Nat /\ m >= 1 /\ m <= Len(c)
    BY <1>0
  <2> HIDE DEF m
  <2>2. /\ SubSeq(c, m, Len(c)) \in Seq(S) /\ Len(SubSeq(c, m, Len(c))) = Len(c) - m + 1
        /\ \A i \in 1..Len(SubSeq(c, m, Len(c))) : SubSeq(c, m, Len(c))[i] = c[m + i - 1]
    BY <1>0, <2>1, SubSeqIs
  <2>3. cut = SubSeq(c, m, Len(c))
    BY DEF m
  <2> HIDE DEF cut
  <2>4. m = n - Len(a) + 1
    BY DEF m
  <2> QED
    BY <1>0, <2>2, <2>3, <2>4
<1> HIDE DEF cut
<1>5. /\ right \in Seq(S) /\ Len(right) = Len(cut) + Len(r)
      /\ \A i \in 1..Len(cut) : right[i] = cut[i]
      /\ \A i \in 1..(Len(cut) + Len(r)) : i > Len(cut) => right[i] = r[i - Len(cut)]
  BY <1>4, ConcatIs
<1> HIDE DEF right
<1>6. Len(left) = Len(right)
  BY <1>0, <1>1, <1>2, <1>3, <1>4, <1>5
<1>7. ASSUME NEW i \in 1..Len(left) PROVE left[i] = right[i]
  <2>1. left[i] = cr[n + i - Len(a)]
    <3>1. n + i \in 1..(Len(a) + Len(cr)) /\ n + i > Len(a)
      BY <1>0, <1>1, <1>2, <1>3
    <3> QED
      BY <1>2, <1>3, <3>1
  <2>2. CASE i <= Len(cut)
    <3>1. i \in 1..Len(cut) /\ n + i - Len(a) \in 1..Len(c) /\ n + i - Len(a) = n - Len(a) + i
      BY <1>0, <1>4, <2>2
    <3>2. cr[n + i - Len(a)] = c[n - Len(a) + i]
      BY <1>1, <3>1
    <3> QED
      BY <1>4, <1>5, <2>1, <3>1, <3>2
  <2>3. CASE i > Len(cut)
    <3>1. /\ i \in 1..(Len(cut) + Len(r))
          /\ n + i - Len(a) \in 1..(Len(c) + Len(r)) /\ n + i - Len(a) > Len(c)
          /\ n + i - Len(a) - Len(c) = i - Len(cut)
      BY <1>0, <1>4, <1>5, <1>6, <2>3
    <3>2. cr[n + i - Len(a)] = r[n + i - Len(a) - Len(c)]
      <4> DEFINE j == n + i - Len(a)
      <4>1. j \in 1..(Len(c) + Len(r)) /\ j > Len(c)
        BY <3>1
      <4> HIDE DEF j
      <4>2. cr[j] = r[j - Len(c)]
        BY <1>1, <4>1
      <4> QED
        BY <4>2 DEF j
    <3>3. cr[n + i - Len(a)] = r[i - Len(cut)]
      BY <3>1, <3>2, Zenon
    <3> QED
      BY <1>5, <2>1, <2>3, <3>1, <3>3
  <2> QED
    BY <1>0, <1>4, <2>2, <2>3
<1>8. left = right
  BY <1>3, <1>5, <1>6, <1>7, SameSeq
<1> QED
  BY <1>8 DEF left, right, all, cr, cut

\* A sequence is what comes before an element, the element, and what comes after.
LEMMA SplitAt ==
    ASSUME NEW S, NEW s \in Seq(S), NEW k \in 0..Len(s)
    PROVE  /\ SubSeq(s, 1, k) \in Seq(S)
           /\ k = 0 => SubSeq(s, 1, k) = <<>>
           /\ k = Len(s) => SubSeq(s, 1, k) = s
           /\ k < Len(s) =>
                 /\ s[k + 1] \in S /\ SubSeq(s, k + 2, Len(s)) \in Seq(S)
                 /\ SubSeq(s, 1, k + 1) = SubSeq(s, 1, k) \o <<s[k + 1]>>
                 /\ s = SubSeq(s, 1, k) \o (<<s[k + 1]>> \o SubSeq(s, k + 2, Len(s)))
<1>1. SubSeq(s, 1, k) \in Seq(S) /\ Len(s) \in Nat
  OBVIOUS
<1>2. k = 0 => SubSeq(s, 1, k) = <<>>
  OBVIOUS
<1>3. k = Len(s) => SubSeq(s, 1, k) = s
  OBVIOUS
<1>4. ASSUME k < Len(s)
      PROVE  /\ s[k + 1] \in S /\ SubSeq(s, k + 2, Len(s)) \in Seq(S)
             /\ SubSeq(s, 1, k + 1) = SubSeq(s, 1, k) \o <<s[k + 1]>>
             /\ s = SubSeq(s, 1, k) \o (<<s[k + 1]>> \o SubSeq(s, k + 2, Len(s)))
  <2>1. s[k + 1] \in S /\ SubSeq(s, k + 2, Len(s)) \in Seq(S)
    BY <1>4
  <2>2. SubSeq(s, 1, k + 1) = SubSeq(s, 1, k) \o <<s[k + 1]>>
    BY <1>4
  <2>3. s = SubSeq(s, 1, k) \o (<<s[k + 1]>> \o SubSeq(s, k + 2, Len(s)))
    <3> DEFINE a == SubSeq(s, 1, k)
               c == <<s[k + 1]>>
               r == SubSeq(s, k + 2, Len(s))
               cr == c \o r
               t == a \o cr
    <3>1. a \in Seq(S) /\ Len(a) = k /\ \A i \in 1..k : a[i] = s[i]
      BY <1>4
    <3>2. c \in Seq(S) /\ Len(c) = 1 /\ c[1] = s[k + 1]
      BY <2>1
    <3>3. r \in Seq(S) /\ Len(r) = Len(s) - k - 1 /\ \A i \in 1..Len(r) : r[i] = s[k + 1 + i]
      BY <1>4
    <3> HIDE DEF a, c, r
    <3>4. \A x, y \in Seq(S) :
             /\ x \o y \in Seq(S) /\ Len(x \o y) = Len(x) + Len(y)
             /\ \A n \in 1..Len(x) : (x \o y)[n] = x[n]
             /\ \A n \in 1..(Len(x) + Len(y)) : n > Len(x) => (x \o y)[n] = y[n - Len(x)]
      BY ConcatIs
    <3>5. /\ cr \in Seq(S) /\ Len(cr) = 1 + Len(r) /\ cr[1] = s[k + 1]
          /\ \A n \in 1..(1 + Len(r)) : n > 1 => cr[n] = r[n - 1]
      <4>1. /\ cr \in Seq(S) /\ Len(cr) = Len(c) + Len(r)
            /\ \A n \in 1..Len(c) : cr[n] = c[n]
            /\ \A n \in 1..(Len(c) + Len(r)) : n > Len(c) => cr[n] = r[n - Len(c)]
        BY <3>2, <3>3, <3>4, Zenon
      <4> HIDE DEF cr
      <4> QED
        BY <3>2, <4>1
    <3> HIDE DEF cr
    <3>6. /\ t \in Seq(S) /\ Len(t) = Len(a) + Len(cr)
          /\ \A n \in 1..Len(a) : t[n] = a[n]
          /\ \A n \in 1..(Len(a) + Len(cr)) : n > Len(a) => t[n] = cr[n - Len(a)]
      BY <3>1, <3>4, <3>5, Zenon
    <3> HIDE DEF t
    <3>7. Len(t) = Len(s)
      BY <1>1, <3>1, <3>3, <3>5, <3>6
    <3>8. ASSUME NEW i \in 1..Len(s) PROVE s[i] = t[i]
      <4>1. CASE i <= k
        BY <3>1, <3>6, <4>1
      <4>2. CASE i > k
        <5>1. /\ i \in 1..(Len(a) + Len(cr)) /\ i > Len(a) /\ i - Len(a) = i - k
              /\ i - k \in 1..(1 + Len(r))
          BY <1>1, <3>1, <3>3, <3>6, <3>7, <3>5, <4>2
        <5>2. t[i] = cr[i - k]
          BY <3>6, <5>1
        <5>3. CASE i - k = 1
          <6>1. i = k + 1
            BY <5>3
          <6> QED
            BY <3>5, <5>2, <5>3, <6>1
        <5>4. CASE i - k > 1
          <6> DEFINE j == i - k
          <6>1. j \in 1..(1 + Len(r)) /\ j > 1 /\ j - 1 \in 1..Len(r) /\ k + 1 + (j - 1) = i
            BY <3>3, <5>1, <5>4
          <6> HIDE DEF j
          <6>2. cr[j] = r[j - 1] /\ r[j - 1] = s[k + 1 + (j - 1)]
            BY <3>3, <3>5, <6>1
          <6> QED
            BY <5>2, <6>1, <6>2 DEF j
        <5> QED
          BY <5>1, <5>3, <5>4
      <4> QED
        BY <4>1, <4>2
    <3>9. s = t
      BY <3>6, <3>7, <3>8, SameSeq
    <3> QED
      BY <3>9 DEF t, cr, a, c, r
  <2> QED
    BY <2>1, <2>2, <2>3
<1> QED
  BY <1>1, <1>2, <1>3, <1>4

LEMMA AfterIs ==
    ASSUME NEW S, NEW s \in Seq(S), NEW n \in 0..Len(s)
    PROVE  /\ After(s, n) \in Seq(S) /\ Len(After(s, n)) = Len(s) - n
           /\ \A i \in 1..(Len(s) - n) : After(s, n)[i] = s[n + i]
BY DEF After

LEMMA AfterAfter ==
    ASSUME NEW S, NEW s \in Seq(S), NEW m \in Nat, NEW n \in Nat, m + n <= Len(s)
    PROVE  After(After(s, m), n) = After(s, m + n)
<1> DEFINE l == After(After(s, m), n)
           r == After(s, m + n)
           a == After(s, m)
<1>0. Len(s) \in Nat /\ m \in 0..Len(s) /\ m + n \in 0..Len(s)
  BY ConcatIs
<1>1. /\ a \in Seq(S) /\ Len(a) = Len(s) - m
      /\ \A i \in 1..(Len(s) - m) : a[i] = s[m + i]
  BY <1>0, AfterIs
<1> HIDE DEF a
<1>2. /\ After(a, n) \in Seq(S) /\ Len(After(a, n)) = Len(a) - n
      /\ \A i \in 1..(Len(a) - n) : After(a, n)[i] = a[n + i]
  <2>1. n \in 0..Len(a)
    BY <1>0, <1>1
  <2> QED
    BY <1>1, <2>1, AfterIs
<1>3. /\ r \in Seq(S) /\ Len(r) = Len(s) - (m + n)
      /\ \A i \in 1..(Len(s) - (m + n)) : r[i] = s[m + n + i]
  BY <1>0, AfterIs
<1> HIDE DEF r
<1>4. l = After(a, n)
  BY DEF a
<1> HIDE DEF l
<1>5. \A i \in 1..Len(l) : l[i] = r[i]
  <2>1. SUFFICES ASSUME NEW i \in 1..Len(l) PROVE l[i] = r[i]
    OBVIOUS
  <2>2. /\ i \in 1..(Len(a) - n) /\ n + i \in 1..(Len(s) - m) /\ m + (n + i) = m + n + i
        /\ i \in 1..(Len(s) - (m + n))
    BY <1>0, <1>1, <1>2, <1>4
  <2>3. l[i] = a[n + i] /\ a[n + i] = s[m + (n + i)] /\ r[i] = s[m + n + i]
    BY <1>1, <1>2, <1>3, <1>4, <2>2
  <2> QED
    BY <2>2, <2>3
<1>6. Len(l) = Len(r)
  BY <1>0, <1>1, <1>2, <1>3, <1>4
<1>7. l = r
  BY <1>2, <1>3, <1>4, <1>5, <1>6, SameSeq
<1> QED
  BY <1>7 DEF l, r

LEMMA AfterConcat ==
    ASSUME NEW S, NEW s \in Seq(S), NEW t \in Seq(S), NEW n \in 0..Len(s)
    PROVE  After(s, n) \o t = After(s \o t, n)
<1> DEFINE a == After(s, n)
           l == a \o t
           st == s \o t
           r == After(st, n)
<1>1. /\ a \in Seq(S) /\ Len(a) = Len(s) - n
      /\ \A i \in 1..(Len(s) - n) : a[i] = s[n + i]
  BY AfterIs
<1> HIDE DEF a
<1>2. /\ Len(s) \in Nat /\ Len(t) \in Nat /\ st \in Seq(S) /\ Len(st) = Len(s) + Len(t)
      /\ \A i \in 1..Len(s) : st[i] = s[i]
      /\ \A i \in 1..(Len(s) + Len(t)) : i > Len(s) => st[i] = t[i - Len(s)]
  BY ConcatIs
<1> HIDE DEF st
<1>3. /\ l \in Seq(S) /\ Len(l) = Len(a) + Len(t)
      /\ \A i \in 1..Len(a) : l[i] = a[i]
      /\ \A i \in 1..(Len(a) + Len(t)) : i > Len(a) => l[i] = t[i - Len(a)]
  BY <1>1, ConcatIs
<1>4. /\ r \in Seq(S) /\ Len(r) = Len(st) - n
      /\ \A i \in 1..(Len(st) - n) : r[i] = st[n + i]
  <2>1. n \in 0..Len(st)
    BY <1>2
  <2> QED
    BY <1>2, <2>1, AfterIs
<1> HIDE DEF l, r
<1>5. Len(l) = Len(r)
  BY <1>1, <1>2, <1>3, <1>4
<1>6. \A i \in 1..Len(l) : l[i] = r[i]
  <2>1. SUFFICES ASSUME NEW i \in 1..Len(l) PROVE l[i] = r[i]
    OBVIOUS
  <2>2. r[i] = st[n + i]
    BY <1>4, <1>5
  <2>3. CASE i <= Len(a)
    <3>1. i \in 1..Len(a) /\ i \in 1..(Len(s) - n) /\ n + i \in 1..Len(s)
      BY <1>1, <1>2, <2>3
    <3> QED
      BY <1>1, <1>2, <1>3, <2>2, <3>1
  <2>4. CASE i > Len(a)
    <3>1. /\ i \in 1..(Len(a) + Len(t)) /\ n + i \in 1..(Len(s) + Len(t)) /\ n + i > Len(s)
          /\ n + i - Len(s) = i - Len(a)
      BY <1>1, <1>2, <1>3, <2>4
    <3>2. st[n + i] = t[n + i - Len(s)]
      BY <1>2, <3>1
    <3> QED
      BY <1>3, <2>2, <2>4, <3>1, <3>2
  <2> QED
    BY <1>1, <1>2, <2>3, <2>4
<1>7. l = r
  BY <1>3, <1>4, <1>5, <1>6, SameSeq
<1> QED
  BY <1>7 DEF l, r, a, st
=============================================================================
