---------------------------- MODULE StoreProofs ----------------------------
(***************************************************************************)
(* What holds of SessionStore for every set of edits, every number of      *)
(* stimuli and every number of calls under way, and of LogFlow for every   *)
(* number of lines and hooks.                                              *)
(***************************************************************************)
EXTENDS SessionStore, LogFlow, SeqProofs, FiniteSetTheorems

-----------------------------------------------------------------------------
(* SessionStore.  The invariant is about the calls under way: what each      *)
(* tells of the backend and of the flags of the UI, and what an earlier and  *)
(* a later one may be together.  It is stated of values, so that its lemmas  *)
(* hold of any list of calls, also of one that a step makes on its way.      *)

-----------------------------------------------------------------------------
(* The calls, as values: cs is a list of calls, b the backend, ev its events. *)

Ops == {"load", "refresh", "batch", "settings", "run", "button"}
Stages == {"asked", "loading", "answered"}

IsCall(c) == c \in [op : Ops, current : BOOLEAN, latest : BOOLEAN, shared : BOOLEAN,
                    stage : Stages, arg : {c.arg}, answer : {c.answer}]

IsList(s) == s \in Seq({s[i] : i \in DOMAIN s})

AreCalls(cs) == IsList(cs) /\ \A i \in DOMAIN cs : IsCall(cs[i])

IsOk(c) == c.stage = "answered" /\ c.answer.kind = "ok"
IsAsked(c) == c.stage = "asked"
StartsRun(c) == c.op = "run" \/ (c.op = "refresh" /\ "start" \in c.arg)
OfMatrix(c) == \/ c.op = "settings" /\ c.arg.edit \in MatrixEdits
               \/ c.op = "refresh" /\ "matrix" \in c.arg
TrustedRun(c) == c.op = "run" /\ IsAsked(c) /\ c.arg.trusted

\* What an earlier call c and a later call d may be together.
Follows(c, d) ==
    /\ IsAsked(c) => IsAsked(d)
    /\ c.current => d.current
    /\ c.stage = "loading" => d.stage # "loading"
    /\ c.current /\ c.op = "load" => d.op # "load"
    /\ d.op = "settings" /\ c.op \in {"refresh", "settings"} => ~c.latest
    /\ c.current /\ c.op = "settings" => d.op # "run"
    /\ c.current /\ StartsRun(c) => ~StartsRun(d)
    /\ c.current /\ OfMatrix(c) => ~OfMatrix(d)
    /\ TrustedRun(d) /\ c.op \in {"settings", "load"} => ~IsAsked(c)

InTurn(c, d) == ~c.shared /\ Follows(c, d)

AllInTurn(cs) == \A i, j \in DOMAIN cs : i < j => InTurn(cs[i], cs[j])

\* When a load has succeeded, nothing else is under way.
LoadAlone(cs) ==
    \A i, j \in DOMAIN cs :
       i # j /\ cs[i].op = "load" /\ cs[i].current /\ IsOk(cs[i]) => cs[j].stage = "answered"

CallsInv(cs) == AreCalls(cs) /\ AllInTurn(cs) /\ LoadAlone(cs)

-----------------------------------------------------------------------------
(* Lists with calls removed, disowned or outdated. *)

\* d is c, or c outdated, disowned or no longer shared.
Lesser(c, d) ==
    /\ IsCall(d)
    /\ d.op = c.op /\ d.stage = c.stage /\ d.arg = c.arg /\ d.answer = c.answer
    /\ d.current => c.current
    /\ d.latest => c.latest
    /\ d.shared => c.shared

SameOwner(cs, R, h) == \A j \in DOMAIN R : R[j].current = cs[h[j]].current

\* R is made of cs; h says where its calls were.
Thinned(cs, R, h) ==
    /\ IsList(R)
    /\ h \in [DOMAIN R -> DOMAIN cs]
    /\ \A i, j \in DOMAIN R : i < j => h[i] < h[j]
    /\ \A j \in DOMAIN R : Lesser(cs[h[j]], R[j])
    /\ SameOwner(cs, R, h) \/ \A j \in DOMAIN R : ~R[j].current

LEMMA ListIs ==
    ASSUME NEW s, IsList(s)
    PROVE  Len(s) \in Nat /\ DOMAIN s = 1..Len(s)
BY DEF IsList

LEMMA SeqIsList ==
    ASSUME NEW S, NEW s \in Seq(S)
    PROVE  IsList(s)
BY DEF IsList

LEMMA ThinnedCalls ==
    ASSUME NEW cs, NEW R, NEW h, CallsInv(cs), Thinned(cs, R, h)
    PROVE  CallsInv(R)
<1>1. AreCalls(R)
  BY DEF Thinned, AreCalls, Lesser
<1>2. ASSUME NEW i \in DOMAIN R, NEW j \in DOMAIN R, i < j PROVE InTurn(R[i], R[j])
  <2>1. InTurn(cs[h[i]], cs[h[j]])
    BY <1>2 DEF CallsInv, AllInTurn, Thinned
  <2>2. Lesser(cs[h[i]], R[i]) /\ Lesser(cs[h[j]], R[j])
    BY DEF Thinned
  <2>3. R[i].current => R[j].current
    BY <2>1 DEF Thinned, SameOwner, InTurn, Follows
  <2> QED
    BY <2>1, <2>2, <2>3 DEF InTurn, Follows, Lesser, IsAsked, StartsRun, OfMatrix, TrustedRun
<1>3. LoadAlone(R)
  <2> SUFFICES ASSUME NEW i \in DOMAIN R, NEW j \in DOMAIN R,
                      i # j, R[i].op = "load", R[i].current, IsOk(R[i])
               PROVE  R[j].stage = "answered"
    BY DEF LoadAlone
  <2>1. Lesser(cs[h[i]], R[i]) /\ Lesser(cs[h[j]], R[j]) /\ h[i] \in DOMAIN cs /\ h[j] \in DOMAIN cs
    BY DEF Thinned
  <2>2. h[i] # h[j]
    <3>1. i \in Nat /\ j \in Nat
      BY ListIs DEF Thinned
    <3>2. i < j \/ j < i
      BY <3>1
    <3>3. \A k \in DOMAIN cs : k \in Nat
      BY ListIs DEF CallsInv, AreCalls
    <3> QED
      BY <3>2, <3>3, <2>1 DEF Thinned
  <2> QED
    BY <2>1, <2>2 DEF CallsInv, LoadAlone, Lesser, IsOk
<1> QED
  BY <1>1, <1>2, <1>3 DEF CallsInv, AllInTurn

-----------------------------------------------------------------------------
(* What each call tells of the flags of the UI and of the backend.          *)

Configured(b) == b.version # NoVersion
Died(ev) == \E k \in DOMAIN ev : ev[k].kind = "died"
OnlyEnds(ev) == \A k \in DOMAIN ev : ev[k].kind = "run_end"

\* A load that the UI does not wait for may still be served.
Stray(cs) == \E i \in DOMAIN cs : cs[i].op = "load" /\ cs[i].stage # "answered" /\ ~cs[i].current

\* No configuration, and none that the UI could still hear of, but by a stray load.
Bare(b, ev, cs) == ~Configured(b) /\ (~Died(ev) \/ Stray(cs))

FlagsOf(c, lc, rs, mc) ==
    /\ c.shared => c.op = "refresh" /\ c.current
    /\ c.current => ((c.op = "load") <=> lc)
    /\ c.current /\ StartsRun(c) => rs
    /\ c.current /\ OfMatrix(c) => mc.busy

FlagsInv(cs, lc, rs, mc) == \A i \in DOMAIN cs : FlagsOf(cs[i], lc, rs, mc)

\* A UI that believes itself connected has heard of everything it had asked
\* for before.
AskedInv(cs, conn, lc) ==
    conn = "ok" /\ ~lc => \A i \in DOMAIN cs : ~cs[i].current => ~IsAsked(cs[i])

\* Trees and versions of one backend are E apart.
ReportOf(c, E) ==
    c.current /\ IsOk(c) =>
        /\ c.op \in {"load", "refresh"} =>
              /\ c.answer.tree # Garbage
              /\ c.answer.version # NoVersion => c.answer.tree = c.answer.version + E
        /\ c.op = "batch" /\ c.answer.to # NoVersion =>
              /\ c.arg # NoVersion
              /\ c.answer.patches = c.arg + E /\ c.answer.becomes = c.answer.to + E
              /\ c.answer.becomes # Garbage

LoadingOf(c, b) == c.stage = "loading" => c.op = "load" /\ b.run = "loading"

RunOf(c, b, ev, rj) ==
    OnlyEnds(ev) /\ ~rj /\ c.current /\ IsOk(c) /\ c.op = "refresh" /\ c.latest =>
        c.answer.run = b.run

LoadOf(c, b, ev) ==
    c.current /\ IsOk(c) /\ c.op = "load" =>
        /\ c.answer.run = "ready" /\ c.answer.settings = {}
        /\ Configured(b) => b.run = "ready" /\ b.settings = {}
        /\ ~Configured(b) => Died(ev)

SettingsOf(c, b, un) ==
    /\ Configured(b) /\ ~un /\ c.current /\ IsOk(c) /\ (c.latest \/ c.shared)
       /\ c.op \in {"refresh", "settings"} => c.answer.settings = b.settings
    /\ Configured(b) /\ c.current /\ IsOk(c) /\ c.op = "settings" => b.run \notin BusyStates

BareOf(c, b, ev, cs) ==
    Bare(b, ev, cs) /\ c.current /\ IsOk(c) =>
        /\ c.op \notin {"load", "settings"}
        /\ c.op = "refresh" => c.answer.version = NoVersion /\ c.answer.settings = {}
        /\ c.op = "batch" => c.answer.to = NoVersion

TrustOf(c, b, un) ==
    TrustedRun(c) /\ ~un /\ (Configured(b) \/ b.run = "loading") => c.arg.settings = b.settings

RunsOf(c, b) == c.current /\ IsOk(c) /\ c.op = "run" => c.answer.run = b.runs

FactsOf(c, E, b, ev, rj, un, cs) ==
    /\ ReportOf(c, E) /\ LoadingOf(c, b) /\ RunOf(c, b, ev, rj) /\ LoadOf(c, b, ev)
    /\ SettingsOf(c, b, un) /\ BareOf(c, b, ev, cs) /\ TrustOf(c, b, un) /\ RunsOf(c, b)

FactsInv(cs, E, b, ev, rj, un) == \A i \in DOMAIN cs : FactsOf(cs[i], E, b, ev, rj, un, cs)

LEMMA LesserFlags ==
    ASSUME NEW c, NEW d, NEW lc, NEW rs, NEW mc, Lesser(c, d), d.shared => d.current,
           FlagsOf(c, lc, rs, mc)
    PROVE  FlagsOf(d, lc, rs, mc)
BY DEF Lesser, FlagsOf, StartsRun, OfMatrix

LEMMA LesserFacts ==
    ASSUME NEW c, NEW d, NEW E, NEW b, NEW ev, NEW rj, NEW un, NEW cs, NEW R, Lesser(c, d),
           FactsOf(c, E, b, ev, rj, un, cs), d.current /\ Stray(R) => Stray(cs)
    PROVE  FactsOf(d, E, b, ev, rj, un, R)
<1> USE DEF Lesser, FactsOf, IsOk
<1>1. ReportOf(d, E)
  BY DEF ReportOf
<1>2. LoadingOf(d, b)
  BY DEF LoadingOf
<1>3. RunOf(d, b, ev, rj)
  BY DEF RunOf
<1>4. LoadOf(d, b, ev)
  BY DEF LoadOf
<1>5. SettingsOf(d, b, un)
  BY DEF SettingsOf
<1>6. BareOf(d, b, ev, R)
  BY DEF BareOf, Bare
<1>7. TrustOf(d, b, un)
  BY DEF TrustOf, TrustedRun, IsAsked
<1>8. RunsOf(d, b)
  BY DEF RunsOf
<1> QED
  BY <1>1, <1>2, <1>3, <1>4, <1>5, <1>6, <1>7, <1>8

LEMMA ThinnedFlags ==
    ASSUME NEW cs, NEW R, NEW h, NEW lc, NEW rs, NEW mc, Thinned(cs, R, h),
           \A i \in DOMAIN R : R[i].shared => R[i].current,
           FlagsInv(cs, lc, rs, mc)
    PROVE  FlagsInv(R, lc, rs, mc)
<1> SUFFICES ASSUME NEW i \in DOMAIN R PROVE FlagsOf(R[i], lc, rs, mc)
  BY DEF FlagsInv
<1>1. Lesser(cs[h[i]], R[i]) /\ h[i] \in DOMAIN cs
  BY DEF Thinned
<1> QED
  BY <1>1, LesserFlags DEF FlagsInv

LEMMA ThinnedFacts ==
    ASSUME NEW cs, NEW R, NEW h, NEW E, NEW b, NEW ev, NEW rj, NEW un, Thinned(cs, R, h),
           FactsInv(cs, E, b, ev, rj, un)
    PROVE  FactsInv(R, E, b, ev, rj, un)
<1> SUFFICES ASSUME NEW i \in DOMAIN R PROVE FactsOf(R[i], E, b, ev, rj, un, R)
  BY DEF FactsInv
<1>1. Lesser(cs[h[i]], R[i]) /\ h[i] \in DOMAIN cs
  BY DEF Thinned
<1>2. ASSUME R[i].current, Stray(R) PROVE Stray(cs)
  <2>1. SameOwner(cs, R, h)
    BY <1>2 DEF Thinned
  <2>2. PICK j \in DOMAIN R : R[j].op = "load" /\ R[j].stage # "answered" /\ ~R[j].current
    BY <1>2 DEF Stray
  <2>3. Lesser(cs[h[j]], R[j]) /\ h[j] \in DOMAIN cs
    BY DEF Thinned
  <2> QED
    BY <2>1, <2>2, <2>3 DEF SameOwner, Lesser, Stray
<1> QED
  BY <1>1, <1>2, LesserFacts DEF FactsInv

-----------------------------------------------------------------------------
(* What is still to come.                                                   *)

\* Call i has brought the settings of the backend, or will.
Brings(cs, i, b) ==
    /\ cs[i].op = "settings" /\ cs[i].current /\ cs[i].latest
    /\ \/ IsOk(cs[i])
       \/ IsAsked(cs[i]) /\ b.run \notin BusyStates
          /\ \A j \in DOMAIN cs : cs[j].op = "run" => ~IsAsked(cs[j])

Coming(cs, b) == \E i \in DOMAIN cs : Brings(cs, i, b)

\* An edit that was overtaken was overtaken by another one.
NewerInv(cs) ==
    \A i \in DOMAIN cs :
       cs[i].op = "settings" /\ cs[i].current /\ IsAsked(cs[i]) /\ ~cs[i].latest =>
          \E j \in DOMAIN cs : j > i /\ cs[j].op = "settings" /\ cs[j].current /\ cs[j].latest

LoadThere(cs) == \E i \in DOMAIN cs : cs[i].op = "load" /\ cs[i].current

LoadingThere(cs) == \E i \in DOMAIN cs : cs[i].stage = "loading"

\* What settingsPending counts.
Awaits(c) == c.current /\ (c.op = "settings" \/ (c.op = "refresh" /\ "matrix" \in c.arg))
Awaited(cs) == {i \in DOMAIN cs : Awaits(cs[i])}

Counted(cs, n) == IsFiniteSet(Awaited(cs)) /\ Cardinality(Awaited(cs)) = n

\* R has all the calls of cs but those at lost, current and latest as they were.
Faithful(cs, R, h, lost) ==
    /\ Thinned(cs, R, h)
    /\ SameOwner(cs, R, h)
    /\ \A j \in DOMAIN R : R[j].op = "settings" => R[j].latest = cs[h[j]].latest
    /\ \A j \in DOMAIN R : h[j] \notin lost
    /\ \A k \in DOMAIN cs : k \notin lost => \E j \in DOMAIN R : h[j] = k

LEMMA FaithfulComing ==
    ASSUME NEW cs, NEW R, NEW h, NEW lost, NEW b, Faithful(cs, R, h, lost), Coming(cs, b),
           \A g \in lost : ~Brings(cs, g, b)
    PROVE  Coming(R, b)
<1>1. PICK i \in DOMAIN cs : Brings(cs, i, b)
  BY DEF Coming
<1>2. i \notin lost
  BY <1>1
<1>3. PICK j \in DOMAIN R : h[j] = i
  BY <1>2 DEF Faithful
<1>4. \A k \in DOMAIN R : Lesser(cs[h[k]], R[k]) /\ h[k] \in DOMAIN cs
  BY DEF Faithful, Thinned
<1>5. Brings(R, j, b)
  BY <1>1, <1>3, <1>4 DEF Brings, Faithful, SameOwner, Lesser, IsOk, IsAsked
<1> QED
  BY <1>5 DEF Coming

LEMMA FaithfulNewer ==
    ASSUME NEW cs, NEW R, NEW h, NEW lost, CallsInv(cs), Faithful(cs, R, h, lost), NewerInv(cs),
           \A g \in lost : ~IsAsked(cs[g])
    PROVE  NewerInv(R)
<1> SUFFICES ASSUME NEW i \in DOMAIN R, R[i].op = "settings", R[i].current, IsAsked(R[i]),
                    ~R[i].latest
             PROVE  \E j \in DOMAIN R : j > i /\ R[j].op = "settings" /\ R[j].current /\ R[j].latest
  BY DEF NewerInv
<1>1. \A k \in DOMAIN R : Lesser(cs[h[k]], R[k]) /\ h[k] \in DOMAIN cs
  BY DEF Faithful, Thinned
<1>2. PICK m \in DOMAIN cs : m > h[i] /\ cs[m].op = "settings" /\ cs[m].current /\ cs[m].latest
  BY <1>1 DEF NewerInv, Lesser, IsAsked, Faithful, SameOwner
<1>3. IsAsked(cs[m])
  <2>1. h[i] < m /\ IsAsked(cs[h[i]])
    <3>1. h[i] \in Nat /\ m \in Nat
      BY <1>1, ListIs DEF CallsInv, AreCalls
    <3> QED
      BY <3>1, <1>1, <1>2 DEF IsAsked, Lesser
  <2> QED
    BY <2>1, <1>1 DEF CallsInv, AllInTurn, InTurn, Follows
<1>4. PICK j \in DOMAIN R : h[j] = m
  BY <1>3 DEF Faithful
<1>5. j > i
  <2>1. i \in Nat /\ j \in Nat /\ h[i] \in Nat /\ h[j] \in Nat
    BY <1>1, ListIs DEF CallsInv, AreCalls, Faithful, Thinned
  <2>2. ~(j < i) /\ j # i
    BY <2>1, <1>2, <1>4 DEF Faithful, Thinned
  <2> QED
    BY <2>1, <2>2
<1> QED
  BY <1>1, <1>2, <1>4, <1>5 DEF Lesser, Faithful, SameOwner

LEMMA FaithfulThere ==
    ASSUME NEW cs, NEW R, NEW h, NEW lost, Faithful(cs, R, h, lost)
    PROVE  /\ LoadThere(cs) /\ (\A g \in lost : ~(cs[g].op = "load" /\ cs[g].current)) => LoadThere(R)
           /\ LoadingThere(cs) /\ (\A g \in lost : cs[g].stage # "loading") => LoadingThere(R)
<1>1. \A k \in DOMAIN R : Lesser(cs[h[k]], R[k]) /\ h[k] \in DOMAIN cs
  BY DEF Faithful, Thinned
<1> QED
  BY <1>1 DEF Faithful, SameOwner, LoadThere, LoadingThere, Lesser

LEMMA FaithfulCount ==
    ASSUME NEW cs, NEW R, NEW h, NEW lost, NEW n \in Nat, IsList(cs), Faithful(cs, R, h, lost),
           Counted(cs, n)
    PROVE  /\ lost = {} => Counted(R, n)
           /\ \A i \in DOMAIN cs : lost = {i} =>
                 Counted(R, IF Awaits(cs[i]) THEN n - 1 ELSE n)
<1> DEFINE S == Awaited(cs) \ lost
           f == [j \in Awaited(R) |-> h[j]]
<1>1. \A k \in DOMAIN R : Lesser(cs[h[k]], R[k]) /\ h[k] \in DOMAIN cs
  BY DEF Faithful, Thinned
<1>2. \A j \in DOMAIN R : Awaits(R[j]) <=> Awaits(cs[h[j]])
  BY <1>1 DEF Awaits, Lesser, Faithful, SameOwner
<1>3. f \in [Awaited(R) -> S]
  BY <1>1, <1>2 DEF Awaited, Faithful
<1>4. \A i, j \in Awaited(R) : i # j => f[i] # f[j]
  <2>1. \A j \in DOMAIN R : j \in Nat /\ h[j] \in Nat
    BY <1>1, ListIs DEF Faithful, Thinned
  <2>2. \A i, j \in DOMAIN R : i # j => h[i] # h[j]
    BY <2>1 DEF Faithful, Thinned
  <2> QED
    BY <2>2 DEF Awaited
<1>5. \A s \in S : \E j \in Awaited(R) : f[j] = s
  BY <1>2 DEF Awaited, Faithful
<1>6. f \in Injection(Awaited(R), S) /\ f \in Surjection(Awaited(R), S)
  BY <1>3, <1>4, <1>5 DEF Injection, Surjection, IsInjective
<1>7. IsFiniteSet(S) => IsFiniteSet(Awaited(R)) /\ Cardinality(Awaited(R)) = Cardinality(S)
  <2> HIDE DEF f, S
  <2> QED
    BY <1>6, FS_Injection
<1>8. ASSUME lost = {} PROVE Counted(R, n)
  BY <1>7, <1>8 DEF Counted
<1>9. ASSUME NEW i \in DOMAIN cs, lost = {i} PROVE Counted(R, IF Awaits(cs[i]) THEN n - 1 ELSE n)
  <2>1. IsFiniteSet(S) /\ Cardinality(S) = IF i \in Awaited(cs) THEN Cardinality(Awaited(cs)) - 1
                                           ELSE Cardinality(Awaited(cs))
    BY <1>9, FS_RemoveElement DEF Counted
  <2>2. i \in Awaited(cs) <=> Awaits(cs[i])
    BY DEF Awaited
  <2> HIDE DEF S, f
  <2> QED
    BY <1>7, <2>1, <2>2 DEF Counted
<1> QED
  BY <1>8, <1>9

-----------------------------------------------------------------------------
(* What the operators of SessionStore make of a list of calls.              *)

Unshared(cs) == [i \in DOMAIN cs |-> [cs[i] EXCEPT !.shared = FALSE]]

InPlace(cs) == [i \in DOMAIN cs |-> i]

LEMMA TableIsList ==
    ASSUME NEW cs, IsList(cs), NEW R, R = [i \in DOMAIN cs |-> R[i]]
    PROVE  IsList(R) /\ DOMAIN R = DOMAIN cs
<1>1. Len(cs) \in Nat /\ DOMAIN cs = 1..Len(cs)
  BY ListIs
<1>2. R \in [1..Len(cs) -> {R[i] : i \in 1..Len(cs)}]
  BY <1>1
<1>3. DOMAIN R = 1..Len(cs)
  BY <1>2
<1> QED
  BY <1>1, <1>2, <1>3 DEF IsList

LEMMA MappedIs ==
    ASSUME NEW cs, AreCalls(cs), NEW R, R = [i \in DOMAIN cs |-> R[i]],
           \A i \in DOMAIN cs : Lesser(cs[i], R[i]),
           (\A i \in DOMAIN cs : R[i].current = cs[i].current) \/ \A i \in DOMAIN cs : ~R[i].current
    PROVE  /\ Thinned(cs, R, InPlace(cs)) /\ DOMAIN R = DOMAIN cs
           /\ (/\ \A i \in DOMAIN cs : R[i].current = cs[i].current
               /\ \A i \in DOMAIN cs : R[i].op = "settings" => R[i].latest = cs[i].latest)
              => Faithful(cs, R, InPlace(cs), {})
<1>1. IsList(R) /\ DOMAIN R = DOMAIN cs
  BY TableIsList DEF AreCalls
<1>2. Thinned(cs, R, InPlace(cs))
  BY <1>1 DEF Thinned, InPlace, SameOwner
<1> QED
  BY <1>1, <1>2 DEF Faithful, InPlace, SameOwner

LEMMA UnsharedIs ==
    ASSUME NEW cs, AreCalls(cs)
    PROVE  /\ Faithful(cs, Unshared(cs), InPlace(cs), {})
           /\ DOMAIN Unshared(cs) = DOMAIN cs
           /\ \A i \in DOMAIN cs : Lesser(cs[i], Unshared(cs)[i]) /\ ~Unshared(cs)[i].shared
                                   /\ Unshared(cs)[i].current = cs[i].current
                                   /\ Unshared(cs)[i].latest = cs[i].latest
<1> DEFINE R == Unshared(cs)
<1>1. R = [i \in DOMAIN cs |-> R[i]] /\ \A i \in DOMAIN cs : R[i] = [cs[i] EXCEPT !.shared = FALSE]
  BY DEF Unshared
<1>2. ASSUME NEW i \in DOMAIN cs
      PROVE  Lesser(cs[i], R[i]) /\ ~R[i].shared /\ R[i].current = cs[i].current
             /\ R[i].latest = cs[i].latest
  <2>1. IsCall(cs[i]) /\ R[i] = [cs[i] EXCEPT !.shared = FALSE]
    BY <1>1 DEF AreCalls
  <2> HIDE DEF R
  <2> QED
    BY <2>1 DEF Lesser, IsCall
<1> HIDE DEF R
<1>3. Faithful(cs, R, InPlace(cs), {}) /\ DOMAIN R = DOMAIN cs
  BY <1>1, <1>2, MappedIs
<1> QED
  BY <1>2, <1>3 DEF R

LEMMA OutdatedIs ==
    ASSUME NEW cs, AreCalls(cs), NEW op
    PROVE  /\ Thinned(cs, Outdated(cs, op), InPlace(cs))
           /\ op = "refresh" => Faithful(cs, Outdated(cs, op), InPlace(cs), {})
           /\ DOMAIN Outdated(cs, op) = DOMAIN cs
           /\ \A i \in DOMAIN cs : Lesser(cs[i], Outdated(cs, op)[i])
                                   /\ (cs[i].op = op => ~Outdated(cs, op)[i].latest)
                                   /\ Outdated(cs, op)[i].shared = cs[i].shared
                                   /\ Outdated(cs, op)[i].current = cs[i].current
<1> DEFINE R == Outdated(cs, op)
<1>1. R = [i \in DOMAIN cs |-> R[i]]
      /\ \A i \in DOMAIN cs : R[i] = IF cs[i].op = op THEN [cs[i] EXCEPT !.latest = FALSE] ELSE cs[i]
  BY DEF Outdated
<1>2. ASSUME NEW i \in DOMAIN cs
      PROVE  Lesser(cs[i], R[i]) /\ (cs[i].op = op => ~R[i].latest) /\ R[i].current = cs[i].current
             /\ R[i].shared = cs[i].shared /\ (cs[i].op # op => R[i].latest = cs[i].latest)
  <2>1. IsCall(cs[i]) /\ R[i] = IF cs[i].op = op THEN [cs[i] EXCEPT !.latest = FALSE] ELSE cs[i]
    BY <1>1 DEF AreCalls
  <2> HIDE DEF R
  <2> QED
    BY <2>1 DEF Lesser, IsCall
<1> HIDE DEF R
<1>3. Thinned(cs, R, InPlace(cs)) /\ DOMAIN R = DOMAIN cs
  BY <1>1, <1>2, MappedIs
<1>4. op = "refresh" => Faithful(cs, R, InPlace(cs), {})
  BY <1>1, <1>2, MappedIs DEF Lesser
<1> QED
  BY <1>2, <1>3, <1>4 DEF R

LEMMA DisownedIs ==
    ASSUME NEW cs, AreCalls(cs)
    PROVE  /\ Thinned(cs, Disowned(cs), InPlace(cs))
           /\ DOMAIN Disowned(cs) = DOMAIN cs
           /\ \A i \in DOMAIN cs : Lesser(cs[i], Disowned(cs)[i]) /\ ~Disowned(cs)[i].current
                                   /\ ~Disowned(cs)[i].shared
<1> DEFINE R == Disowned(cs)
<1>1. R = [i \in DOMAIN cs |-> R[i]]
      /\ \A i \in DOMAIN cs : R[i] = [cs[i] EXCEPT !.current = FALSE, !.shared = FALSE]
  BY DEF Disowned
<1>2. ASSUME NEW i \in DOMAIN cs PROVE Lesser(cs[i], R[i]) /\ ~R[i].current /\ ~R[i].shared
  <2>1. IsCall(cs[i]) /\ R[i] = [cs[i] EXCEPT !.current = FALSE, !.shared = FALSE]
    BY <1>1 DEF AreCalls
  <2> HIDE DEF R
  <2> QED
    BY <2>1 DEF Lesser, IsCall
<1> HIDE DEF R
<1>3. Thinned(cs, R, InPlace(cs)) /\ DOMAIN R = DOMAIN cs
  BY <1>1, <1>2, MappedIs
<1> QED
  BY <1>2, <1>3 DEF R

\* The places that the calls had before call i was removed.
Before(cs, i) == [j \in DOMAIN RemoveAt(cs, i) |-> IF j < i THEN j ELSE j + 1]

LEMMA RemovedIs ==
    ASSUME NEW cs, AreCalls(cs), NEW i \in DOMAIN cs
    PROVE  Faithful(cs, RemoveAt(cs, i), Before(cs, i), {i})
<1> DEFINE R == RemoveAt(cs, i)
           h == Before(cs, i)
<1>1. cs \in Seq({cs[k] : k \in DOMAIN cs}) /\ Len(cs) \in Nat /\ DOMAIN cs = 1..Len(cs)
  BY ListIs DEF AreCalls, IsList
<1>2. ASSUME NEW S, cs \in Seq(S)
      PROVE  /\ R \in Seq(S) /\ DOMAIN R = 1..(Len(cs) - 1)
             /\ \A j \in DOMAIN R : LET m == IF j < i THEN j ELSE j + 1
                                    IN m \in DOMAIN cs /\ m # i /\ R[j] = cs[m]
  BY <1>2, RemovedAt
<1>3. /\ IsList(R) /\ DOMAIN R = 1..(Len(cs) - 1)
      /\ \A j \in DOMAIN R : LET m == IF j < i THEN j ELSE j + 1
                             IN m \in DOMAIN cs /\ m # i /\ R[j] = cs[m]
  BY <1>1, <1>2, SeqIsList
<1>4. /\ h = [j \in DOMAIN R |-> IF j < i THEN j ELSE j + 1]
      /\ \A j \in DOMAIN R : h[j] \in DOMAIN cs /\ h[j] # i /\ R[j] = cs[h[j]]
  BY <1>3 DEF Before
<1> HIDE DEF R, h
<1>5. \A j, k \in DOMAIN R : j < k => h[j] < h[k]
  BY <1>1, <1>3, <1>4
<1>6. ASSUME NEW k \in DOMAIN cs, k # i PROVE \E j \in DOMAIN R : h[j] = k
  <2>1. CASE k < i
    <3>1. k \in DOMAIN R
      BY <2>1, <1>1, <1>3
    <3> QED
      BY <3>1, <2>1, <1>4
  <2>2. CASE ~(k < i)
    <3>1. k - 1 \in DOMAIN R /\ ~(k - 1 < i) /\ k - 1 + 1 = k
      BY <2>2, <1>6, <1>1, <1>3
    <3> QED
      BY <3>1, <1>4
  <2> QED
    BY <2>1, <2>2
<1>7. \A j \in DOMAIN R : Lesser(cs[h[j]], R[j])
  BY <1>4 DEF Lesser, AreCalls
<1>8. Thinned(cs, R, h) /\ SameOwner(cs, R, h)
  BY <1>3, <1>4, <1>5, <1>7 DEF Thinned, SameOwner
<1>9. Faithful(cs, R, h, {i})
  BY <1>4, <1>6, <1>8 DEF Faithful
<1> QED
  BY <1>9 DEF R, h

-----------------------------------------------------------------------------
(* A call more.                                                             *)

LEMMA NewCallIs ==
    ASSUME NEW op \in Ops, NEW arg
    PROVE  LET n == NewCall(op, arg)
           IN /\ IsCall(n) /\ n.op = op /\ n.arg = arg /\ n.stage = "asked" /\ IsAsked(n) /\ ~IsOk(n)
              /\ n.current = TRUE /\ n.latest = TRUE /\ (n.shared <=> op = "refresh")
BY DEF NewCall, IsCall, Ops, Stages, IsAsked, IsOk

LEMMA ListAppended ==
    ASSUME NEW cs, IsList(cs), NEW n
    PROVE  LET A == Append(cs, n)
           IN /\ IsList(A) /\ Len(cs) \in Nat
              /\ DOMAIN cs = 1..Len(cs) /\ DOMAIN A = 1..(Len(cs) + 1)
              /\ \A i \in DOMAIN cs : i \in DOMAIN A /\ A[i] = cs[i] /\ i < Len(cs) + 1
              /\ A[Len(cs) + 1] = n
              /\ \A i \in DOMAIN A : i \in DOMAIN cs \/ i = Len(cs) + 1
BY DEF IsList

\* The calls of cs with n at the end.
Extended(cs, A, n) ==
    /\ IsList(A) /\ Len(cs) \in Nat
    /\ DOMAIN cs = 1..Len(cs) /\ DOMAIN A = 1..(Len(cs) + 1)
    /\ \A i \in DOMAIN cs : i \in DOMAIN A /\ A[i] = cs[i] /\ i < Len(cs) + 1
    /\ A[Len(cs) + 1] = n /\ Len(cs) + 1 \in DOMAIN A
    /\ \A i \in DOMAIN A : i \in DOMAIN cs \/ i = Len(cs) + 1
    /\ IsCall(n) /\ n.stage = "asked" /\ IsAsked(n) /\ ~IsOk(n)
    /\ n.current = TRUE /\ n.latest = TRUE

LEMMA AppendedIs ==
    ASSUME NEW cs, IsList(cs), NEW op \in Ops, NEW arg
    PROVE  Extended(cs, Append(cs, NewCall(op, arg)), NewCall(op, arg))
<1>1. Len(cs) \in Nat
  BY ListIs
<1>2. Len(cs) + 1 \in 1..(Len(cs) + 1)
  BY <1>1
<1> DEFINE n == NewCall(op, arg)
           A == Append(cs, n)
<1>3. /\ IsCall(n) /\ n.stage = "asked" /\ IsAsked(n) /\ ~IsOk(n)
      /\ n.current = TRUE /\ n.latest = TRUE
  BY NewCallIs
<1> HIDE DEF n
<1>4. /\ IsList(A)
      /\ DOMAIN cs = 1..Len(cs) /\ DOMAIN A = 1..(Len(cs) + 1)
      /\ \A i \in DOMAIN cs : i \in DOMAIN A /\ A[i] = cs[i] /\ i < Len(cs) + 1
      /\ A[Len(cs) + 1] = n
      /\ \A i \in DOMAIN A : i \in DOMAIN cs \/ i = Len(cs) + 1
  BY ListAppended
<1> HIDE DEF A
<1>5. Extended(cs, A, n)
  BY <1>1, <1>2, <1>3, <1>4, Zenon DEF Extended
<1> QED
  BY <1>5 DEF A, n

LEMMA ExtendedCalls ==
    ASSUME NEW cs, NEW A, NEW n, Extended(cs, A, n), CallsInv(cs),
           \A i \in DOMAIN cs : InTurn(cs[i], n),
           \A i \in DOMAIN cs : ~(cs[i].op = "load" /\ cs[i].current)
    PROVE  CallsInv(A)
<1>1. AreCalls(A)
  BY DEF Extended, AreCalls, CallsInv
<1>2. ASSUME NEW i \in DOMAIN A, NEW j \in DOMAIN A, i < j PROVE InTurn(A[i], A[j])
  <2>1. i \in DOMAIN cs
    BY <1>2 DEF Extended
  <2> QED
    BY <1>2, <2>1 DEF Extended, CallsInv, AllInTurn
<1>3. LoadAlone(A)
  BY DEF Extended, LoadAlone
<1> QED
  BY <1>1, <1>2, <1>3 DEF CallsInv, AllInTurn

LEMMA ExtendedFlags ==
    ASSUME NEW cs, NEW A, NEW n, NEW lc, NEW rs, NEW mc, Extended(cs, A, n),
           FlagsInv(cs, lc, rs, mc), FlagsOf(n, lc, rs, mc)
    PROVE  FlagsInv(A, lc, rs, mc)
BY DEF Extended, FlagsInv

LEMMA ExtendedFacts ==
    ASSUME NEW cs, NEW A, NEW n, NEW E, NEW b, NEW ev, NEW rj, NEW un, Extended(cs, A, n),
           FactsInv(cs, E, b, ev, rj, un), TrustOf(n, b, un)
    PROVE  FactsInv(A, E, b, ev, rj, un)
<1>1. Stray(A) => Stray(cs)
  BY DEF Stray, Extended
<1>2. FactsOf(n, E, b, ev, rj, un, A)
  BY DEF FactsOf, ReportOf, LoadingOf, RunOf, LoadOf, SettingsOf, BareOf, RunsOf, Extended
<1>3. ASSUME NEW i \in DOMAIN cs PROVE FactsOf(A[i], E, b, ev, rj, un, A)
  BY <1>1 DEF FactsInv, FactsOf, BareOf, Bare, Extended
<1> QED
  BY <1>2, <1>3 DEF FactsInv, Extended

LEMMA ExtendedRest ==
    ASSUME NEW cs, NEW A, NEW n, Extended(cs, A, n)
    PROVE  /\ \A conn, lc : AskedInv(cs, conn, lc) => AskedInv(A, conn, lc)
           /\ NewerInv(cs) => NewerInv(A)
           /\ LoadThere(cs) \/ n.op = "load" => LoadThere(A)
           /\ LoadingThere(cs) => LoadingThere(A)
           /\ \A b : Coming(cs, b) /\ n.op # "run" => Coming(A, b)
           /\ \A b : n.op = "settings" /\ b.run \notin BusyStates
                     /\ (\A i \in DOMAIN cs : cs[i].op = "run" => ~IsAsked(cs[i])) => Coming(A, b)
           /\ Stray(A) <=> Stray(cs)
<1> USE DEF Extended
<1>1. \A conn, lc : AskedInv(cs, conn, lc) => AskedInv(A, conn, lc)
  BY DEF AskedInv
<1>2. NewerInv(cs) => NewerInv(A)
  BY DEF NewerInv
<1>3. (LoadThere(cs) \/ n.op = "load" => LoadThere(A)) /\ (LoadingThere(cs) => LoadingThere(A))
  BY DEF LoadThere, LoadingThere
<1>4. ASSUME NEW b, Coming(cs, b), n.op # "run" PROVE Coming(A, b)
  <2>1. PICK i \in DOMAIN cs : Brings(cs, i, b)
    BY <1>4 DEF Coming
  <2>2. Brings(A, i, b)
    BY <1>4, <2>1 DEF Brings
  <2> QED
    BY <2>2 DEF Coming
<1>5. ASSUME NEW b, n.op = "settings", b.run \notin BusyStates,
             \A i \in DOMAIN cs : cs[i].op = "run" => ~IsAsked(cs[i])
      PROVE  Coming(A, b)
  <2>1. Brings(A, Len(cs) + 1, b)
    BY <1>5 DEF Brings
  <2> QED
    BY <2>1 DEF Coming
<1>6. Stray(A) <=> Stray(cs)
  BY DEF Stray
<1> QED
  BY <1>1, <1>2, <1>3, <1>4, <1>5, <1>6

LEMMA ExtendedCount ==
    ASSUME NEW cs, NEW A, NEW n, NEW k \in Nat, Extended(cs, A, n), Counted(cs, k)
    PROVE  Counted(A, IF Awaits(n) THEN k + 1 ELSE k)
<1>1. Len(cs) + 1 \notin Awaited(cs)
  BY DEF Extended, Awaited
<1>2. Awaited(A) = IF Awaits(n) THEN Awaited(cs) \cup {Len(cs) + 1} ELSE Awaited(cs)
  BY DEF Extended, Awaited
<1> QED
  BY <1>1, <1>2, FS_AddElement DEF Counted

-----------------------------------------------------------------------------
(* A call that is served or answered.                                       *)

\* Call i is taken from the list by the backend, or has been and is answered.
Advanced(cs, R, i) ==
    /\ IsList(R) /\ DOMAIN R = DOMAIN cs /\ i \in DOMAIN cs
    /\ \A j \in DOMAIN cs : j # i => R[j] = cs[j]
    /\ IsCall(R[i]) /\ R[i].op = cs[i].op /\ R[i].current = cs[i].current
    /\ R[i].latest = cs[i].latest /\ R[i].shared = cs[i].shared /\ R[i].arg = cs[i].arg
    /\ R[i].stage # "asked" /\ cs[i].stage # "answered"
    /\ cs[i].stage = "loading" => R[i].stage = "answered"
    /\ IsAsked(cs[i]) => \A j \in DOMAIN cs : j < i => ~IsAsked(cs[j])

LEMMA NoneAskedBefore ==
    ASSUME NEW cs, NEW R, NEW i, CallsInv(cs), Advanced(cs, R, i)
    PROVE  \A j \in DOMAIN cs : j < i => ~IsAsked(cs[j])
BY DEF Advanced, CallsInv, AllInTurn, InTurn, Follows

LEMMA AdvancedCalls ==
    ASSUME NEW cs, NEW R, NEW i, CallsInv(cs), Advanced(cs, R, i),
           R[i].stage = "loading" => \A j \in DOMAIN cs : cs[j].stage # "loading",
           R[i].op = "load" /\ R[i].current /\ IsOk(R[i]) =>
              \A j \in DOMAIN cs : j # i => cs[j].stage = "answered"
    PROVE  CallsInv(R)
<1> USE DEF Advanced
<1>1. AreCalls(R)
  BY DEF AreCalls, CallsInv
<1>2. ASSUME NEW j \in DOMAIN R, NEW k \in DOMAIN R, j < k PROVE InTurn(R[j], R[k])
  <2>1. InTurn(cs[j], cs[k])
    BY <1>2 DEF CallsInv, AllInTurn
  <2>2. j # k
    BY <1>2, ListIs DEF CallsInv, AreCalls
  <2>3. CASE j = i
    BY <2>1, <2>2, <2>3 DEF InTurn, Follows, IsAsked, StartsRun, OfMatrix, TrustedRun
  <2>4. CASE k = i
    <3>1. ~IsAsked(cs[j])
      BY <2>4, <1>2, NoneAskedBefore
    <3> QED
      BY <2>1, <2>2, <2>4, <3>1 DEF InTurn, Follows, IsAsked, StartsRun, OfMatrix, TrustedRun
  <2> QED
    BY <2>1, <2>3, <2>4
<1>3. LoadAlone(R)
  <2> SUFFICES ASSUME NEW j \in DOMAIN R, NEW k \in DOMAIN R, j # k, R[j].op = "load", R[j].current,
                      IsOk(R[j])
               PROVE  R[k].stage = "answered"
    BY DEF LoadAlone
  <2>1. CASE j = i
    BY <2>1
  <2>2. CASE j # i
    BY <2>2 DEF CallsInv, LoadAlone
  <2> QED
    BY <2>1, <2>2
<1> QED
  BY <1>1, <1>2, <1>3 DEF CallsInv, AllInTurn

LEMMA AdvancedFlags ==
    ASSUME NEW cs, NEW R, NEW i, NEW lc, NEW rs, NEW mc, Advanced(cs, R, i), FlagsInv(cs, lc, rs, mc)
    PROVE  FlagsInv(R, lc, rs, mc)
<1>1. FlagsOf(R[i], lc, rs, mc)
  BY DEF Advanced, FlagsInv, FlagsOf, StartsRun, OfMatrix
<1> QED
  BY <1>1 DEF Advanced, FlagsInv

LEMMA AdvancedRest ==
    ASSUME NEW cs, NEW R, NEW i, Advanced(cs, R, i)
    PROVE  /\ \A conn, lc : AskedInv(cs, conn, lc) => AskedInv(R, conn, lc)
           /\ NewerInv(cs) => NewerInv(R)
           /\ LoadThere(cs) => LoadThere(R)
           /\ LoadingThere(cs) /\ cs[i].stage # "loading" => LoadingThere(R)
           /\ R[i].stage = "loading" => LoadingThere(R)
           /\ \A b : Coming(cs, b) /\ (cs[i].op # "settings" \/ IsOk(R[i])) => Coming(R, b)
           /\ \A n : Counted(cs, n) => Counted(R, n)
           /\ Stray(R) => Stray(cs)
<1> USE DEF Advanced
<1>1. \A conn, lc : AskedInv(cs, conn, lc) => AskedInv(R, conn, lc)
  BY DEF AskedInv, IsAsked
<1>2. ASSUME NewerInv(cs) PROVE NewerInv(R)
  <2>1. \A j \in DOMAIN R : /\ R[j].op = cs[j].op /\ R[j].current = cs[j].current
                            /\ R[j].latest = cs[j].latest /\ (IsAsked(R[j]) => IsAsked(cs[j]))
    BY DEF IsAsked
  <2> QED
    BY <1>2, <2>1 DEF NewerInv
<1>3. LoadThere(cs) => LoadThere(R)
  BY DEF LoadThere
<1>4. (LoadingThere(cs) /\ cs[i].stage # "loading" => LoadingThere(R))
      /\ (R[i].stage = "loading" => LoadingThere(R))
  BY DEF LoadingThere
<1>5. ASSUME NEW b, Coming(cs, b), cs[i].op # "settings" \/ IsOk(R[i]) PROVE Coming(R, b)
  <2>1. PICK w \in DOMAIN cs : Brings(cs, w, b)
    BY <1>5 DEF Coming
  <2>2. \A j \in DOMAIN cs : R[j].op = cs[j].op /\ (IsAsked(R[j]) => IsAsked(cs[j]))
    BY DEF IsAsked
  <2>3. Brings(R, w, b)
    BY <1>5, <2>1, <2>2 DEF Brings
  <2> QED
    BY <2>3 DEF Coming
<1>6. Awaited(R) = Awaited(cs)
  BY DEF Awaited, Awaits
<1>7. Stray(R) => Stray(cs)
  BY DEF Stray
<1> QED
  BY <1>1, <1>2, <1>3, <1>4, <1>5, <1>6, <1>7 DEF Counted

LEMMA AdvancedFacts ==
    ASSUME NEW cs, NEW R, NEW i, NEW E, NEW b, NEW ev, NEW rj, NEW un, Advanced(cs, R, i),
           \A j \in DOMAIN cs : j # i => FactsOf(cs[j], E, b, ev, rj, un, cs),
           FactsOf(R[i], E, b, ev, rj, un, cs)
    PROVE  FactsInv(R, E, b, ev, rj, un)
<1>1. Stray(R) => Stray(cs)
  BY AdvancedRest
<1>2. \A j \in DOMAIN R : FactsOf(R[j], E, b, ev, rj, un, cs)
  BY DEF Advanced
<1> QED
  BY <1>1, <1>2 DEF FactsInv, FactsOf, BareOf, Bare

-----------------------------------------------------------------------------
(* A refresh: a new getSnapshot, or a part in the one under way.            *)

\* Refresh(cs, then), of values.
RefreshedList(cs, then) ==
    IF Joinable(cs) = {}
    THEN Append(Outdated(cs, "refresh"), NewCall("refresh", then))
    ELSE [i \in DOMAIN cs |-> IF i \in Joinable(cs)
                              THEN [cs[i] EXCEPT !.latest = TRUE, !.arg = @ \cup then]
                              ELSE cs[i]]

\* Call i, the last, is a getSnapshot that is joined.
Joined(cs, R, i, then) ==
    /\ IsList(R) /\ DOMAIN R = DOMAIN cs /\ i \in DOMAIN cs
    /\ \A j \in DOMAIN cs : j # i => R[j] = cs[j] /\ j < i
    /\ cs[i].op = "refresh" /\ cs[i].current /\ cs[i].shared
    /\ IsCall(R[i]) /\ R[i].op = "refresh" /\ R[i].current = cs[i].current /\ R[i].latest = TRUE
    /\ R[i].shared = cs[i].shared /\ R[i].arg = cs[i].arg \cup then
    /\ R[i].stage = cs[i].stage /\ R[i].answer = cs[i].answer

LEMMA RejoinedIs ==
    ASSUME NEW cs, CallsInv(cs), NEW lc, NEW rs, NEW mc, FlagsInv(cs, lc, rs, mc),
           NEW then, Joinable(cs) # {}
    PROVE  \E i \in DOMAIN cs : Joined(cs, RefreshedList(cs, then), i, then) /\ Joinable(cs) = {i}
<1> DEFINE R == RefreshedList(cs, then)
<1>1. R = [i \in DOMAIN cs |-> R[i]]
      /\ \A i \in DOMAIN cs : R[i] = IF i \in Joinable(cs)
                                     THEN [cs[i] EXCEPT !.latest = TRUE, !.arg = @ \cup then]
                                     ELSE cs[i]
  BY DEF RefreshedList
<1> HIDE DEF R
<1>2. IsList(R) /\ DOMAIN R = DOMAIN cs
  BY <1>1, TableIsList DEF CallsInv, AreCalls
<1>3. PICK i \in DOMAIN cs : i \in Joinable(cs)
  BY DEF Joinable
<1>4. cs[i].op = "refresh" /\ cs[i].current /\ cs[i].shared
  BY <1>3 DEF Joinable, FlagsInv, FlagsOf
<1>5. \A j \in DOMAIN cs : j # i => j < i
  <2>1. \A j \in DOMAIN cs : j \in Nat
    BY ListIs DEF CallsInv, AreCalls
  <2>2. \A j \in DOMAIN cs : ~(i < j)
    BY <1>4 DEF CallsInv, AllInTurn, InTurn, Follows
  <2> QED
    BY <2>1, <2>2
<1>6. Joinable(cs) = {i}
  BY <1>3, <1>5 DEF Joinable, CallsInv, AllInTurn, InTurn, Follows
<1>7. R[i] = [cs[i] EXCEPT !.latest = TRUE, !.arg = @ \cup then] /\ IsCall(cs[i])
  BY <1>1, <1>3 DEF CallsInv, AreCalls
<1>8. /\ IsCall(R[i]) /\ R[i].op = "refresh" /\ R[i].current = cs[i].current /\ R[i].latest = TRUE
      /\ R[i].shared = cs[i].shared /\ R[i].arg = cs[i].arg \cup then
      /\ R[i].stage = cs[i].stage /\ R[i].answer = cs[i].answer
  BY <1>4, <1>7 DEF IsCall
<1>9. Joined(cs, R, i, then)
  BY <1>1, <1>2, <1>4, <1>5, <1>6, <1>8 DEF Joined
<1> QED
  BY <1>6, <1>9 DEF R

\* What the caller knows of what waits for the refresh.
Expected(cs, lc, rs, mc, then) ==
    /\ ~lc
    /\ "start" \in then => rs /\ \A i \in DOMAIN cs : ~(cs[i].current /\ StartsRun(cs[i]))
    /\ "matrix" \in then => mc.busy /\ \A i \in DOMAIN cs : ~(cs[i].current /\ OfMatrix(cs[i]))

LEMMA JoinedKeeps ==
    ASSUME NEW cs, NEW R, NEW i, NEW then, Joined(cs, R, i, then), CallsInv(cs),
           NEW lc, NEW rs, NEW mc, FlagsInv(cs, lc, rs, mc), Expected(cs, lc, rs, mc, then),
           NEW E, NEW b, NEW ev, NEW rj, NEW un, FactsInv(cs, E, b, ev, rj, un),
           NEW rj2, ~rj2 => ~rj /\ cs[i].latest
    PROVE  /\ CallsInv(R) /\ FlagsInv(R, lc, rs, mc) /\ FactsInv(R, E, b, ev, rj2, un)
           /\ \A conn : AskedInv(cs, conn, lc) => AskedInv(R, conn, lc)
           /\ NewerInv(cs) => NewerInv(R)
           /\ LoadingThere(cs) => LoadingThere(R)
           /\ Coming(cs, b) => Coming(R, b)
           /\ \A n \in Nat : Counted(cs, n) => Counted(R, IF "matrix" \in then THEN n + 1 ELSE n)
           /\ Stray(R) <=> Stray(cs)
<1> USE DEF Joined
<1>0. \A j \in DOMAIN R : /\ R[j].op = cs[j].op /\ R[j].current = cs[j].current
                          /\ R[j].stage = cs[j].stage /\ R[j].answer = cs[j].answer
                          /\ (R[j].op # "refresh" => R[j] = cs[j])
  OBVIOUS
<1>1. CallsInv(R)
  <2>1. AreCalls(R)
    BY DEF AreCalls, CallsInv
  <2>2. ASSUME NEW j \in DOMAIN R, NEW k \in DOMAIN R, j < k PROVE InTurn(R[j], R[k])
    <3>1. InTurn(cs[j], cs[k])
      BY <2>2 DEF CallsInv, AllInTurn
    <3>2. j # i
      <4>1. j \in Nat /\ k \in Nat /\ (k # i => k < i)
        BY ListIs
      <4> QED
        BY <4>1, <2>2
    <3>3. CASE k = i
      <4>1. StartsRun(R[i]) => StartsRun(cs[i]) \/ "start" \in then
        BY DEF StartsRun
      <4>2. OfMatrix(R[i]) => OfMatrix(cs[i]) \/ "matrix" \in then
        BY DEF OfMatrix
      <4>3. /\ cs[j].current /\ StartsRun(cs[j]) => ~StartsRun(R[i])
            /\ cs[j].current /\ OfMatrix(cs[j]) => ~OfMatrix(R[i])
        BY <4>1, <4>2, <3>1, <3>3 DEF Expected, InTurn, Follows
      <4>4. R[j] = cs[j] /\ ~TrustedRun(R[i]) /\ (IsAsked(cs[i]) => IsAsked(R[i]))
        BY <3>2 DEF TrustedRun, IsAsked
      <4> QED
        BY <3>1, <3>3, <4>3, <4>4 DEF InTurn, Follows
    <3>4. CASE k # i
      BY <3>1, <3>2, <3>4
    <3> QED
      BY <3>3, <3>4
  <2>3. LoadAlone(R)
    BY <1>0 DEF LoadAlone, CallsInv, IsOk
  <2> QED
    BY <2>1, <2>2, <2>3 DEF CallsInv, AllInTurn
<1>2. FlagsInv(R, lc, rs, mc)
  <2>1. FlagsOf(cs[i], lc, rs, mc)
    BY DEF FlagsInv
  <2>2. FlagsOf(R[i], lc, rs, mc)
    BY <2>1 DEF FlagsOf, StartsRun, OfMatrix, Expected
  <2> QED
    BY <2>2 DEF FlagsInv
<1>3. Stray(R) <=> Stray(cs)
  BY <1>0 DEF Stray
<1>4. FactsInv(R, E, b, ev, rj2, un)
  <2>1. ASSUME NEW j \in DOMAIN R, j # i PROVE FactsOf(R[j], E, b, ev, rj2, un, R)
    BY <1>3, <2>1 DEF FactsInv, FactsOf, BareOf, Bare, RunOf
  <2>2. FactsOf(cs[i], E, b, ev, rj, un, cs)
    BY DEF FactsInv
  <2>3. /\ ReportOf(R[i], E) /\ LoadingOf(R[i], b) /\ LoadOf(R[i], b, ev)
        /\ TrustOf(R[i], b, un) /\ RunsOf(R[i], b)
    BY <2>2 DEF FactsOf, ReportOf, LoadingOf, LoadOf, TrustOf, RunsOf, IsOk, TrustedRun
  <2>4. RunOf(R[i], b, ev, rj2)
    BY <2>2 DEF FactsOf, RunOf, IsOk
  <2>5. SettingsOf(R[i], b, un)
    BY <2>2 DEF FactsOf, SettingsOf, IsOk
  <2>6. BareOf(R[i], b, ev, R)
    BY <2>2, <1>3 DEF FactsOf, BareOf, Bare, IsOk
  <2>7. FactsOf(R[i], E, b, ev, rj2, un, R)
    BY <2>3, <2>4, <2>5, <2>6 DEF FactsOf
  <2> QED
    BY <2>1, <2>7 DEF FactsInv
<1>5. \A conn : AskedInv(cs, conn, lc) => AskedInv(R, conn, lc)
  BY <1>0 DEF AskedInv, IsAsked
<1>6. NewerInv(cs) => NewerInv(R)
  BY <1>0 DEF NewerInv
<1>7. LoadingThere(cs) => LoadingThere(R)
  BY <1>0 DEF LoadingThere
<1>8. ASSUME Coming(cs, b) PROVE Coming(R, b)
  <2>1. PICK w \in DOMAIN cs : Brings(cs, w, b)
    BY <1>8 DEF Coming
  <2>2. Brings(R, w, b)
    BY <1>0, <2>1 DEF Brings, IsAsked
  <2> QED
    BY <2>2 DEF Coming
<1>9. ASSUME NEW n \in Nat, Counted(cs, n)
      PROVE  Counted(R, IF "matrix" \in then THEN n + 1 ELSE n)
  <2>1. \A j \in DOMAIN R : j # i => (Awaits(R[j]) <=> Awaits(cs[j]))
    OBVIOUS
  <2>2. CASE "matrix" \in then
    <3>1. ~Awaits(cs[i]) /\ Awaits(R[i])
      BY <2>2 DEF Awaits, Expected, OfMatrix
    <3>2. Awaited(R) = Awaited(cs) \cup {i} /\ i \notin Awaited(cs)
      BY <2>1, <3>1 DEF Awaited
    <3> QED
      BY <1>9, <2>2, <3>2, FS_AddElement DEF Counted
  <2>3. CASE "matrix" \notin then
    <3>1. Awaits(R[i]) <=> Awaits(cs[i])
      BY <2>3 DEF Awaits
    <3>2. Awaited(R) = Awaited(cs)
      BY <2>1, <3>1 DEF Awaited
    <3> QED
      BY <1>9, <2>3, <3>2 DEF Counted
  <2> QED
    BY <2>2, <2>3
<1> QED
  BY <1>1, <1>2, <1>3, <1>4, <1>5, <1>6, <1>7, <1>8, <1>9

-----------------------------------------------------------------------------
(* All that is kept of the list of calls.                                   *)

ListInv(cs, E, b, ev, conn, lc, rs, mc, rj, un) ==
    /\ CallsInv(cs) /\ FlagsInv(cs, lc, rs, mc) /\ FactsInv(cs, E, b, ev, rj, un)
    /\ AskedInv(cs, conn, lc)
    /\ b.run = "loading" => LoadingThere(cs)

LEMMA FaithfulKeeps ==
    ASSUME NEW cs, NEW R, NEW h, NEW lost, Faithful(cs, R, h, lost),
           NEW E, NEW b, NEW ev, NEW conn, NEW lc, NEW rs, NEW mc, NEW rj, NEW un,
           ListInv(cs, E, b, ev, conn, lc, rs, mc, rj, un),
           \A g \in lost : g \in DOMAIN cs /\ cs[g].stage = "answered"
    PROVE  /\ ListInv(R, E, b, ev, conn, lc, rs, mc, rj, un)
           /\ NewerInv(cs) => NewerInv(R)
           /\ Stray(cs) => Stray(R)
           /\ Stray(R) => Stray(cs)
<1>1. \A k \in DOMAIN R : Lesser(cs[h[k]], R[k]) /\ h[k] \in DOMAIN cs
  BY DEF Faithful, Thinned
<1>2. CallsInv(R) /\ FactsInv(R, E, b, ev, rj, un)
  BY ThinnedCalls, ThinnedFacts DEF Faithful, ListInv
<1>3. FlagsInv(R, lc, rs, mc)
  <2>1. \A i \in DOMAIN R : R[i].shared => R[i].current
    BY <1>1 DEF ListInv, FlagsInv, FlagsOf, Lesser, Faithful, SameOwner
  <2> QED
    BY <2>1, ThinnedFlags DEF Faithful, ListInv
<1>4. AskedInv(R, conn, lc)
  BY <1>1 DEF ListInv, AskedInv, Lesser, IsAsked, Faithful, SameOwner
<1>5. NewerInv(cs) => NewerInv(R)
  BY FaithfulNewer DEF ListInv, IsAsked
<1>6. b.run = "loading" => LoadingThere(R)
  BY FaithfulThere DEF ListInv
<1>7. (Stray(cs) => Stray(R)) /\ (Stray(R) => Stray(cs))
  <2>1. ASSUME Stray(cs) PROVE Stray(R)
    <3>1. PICK i \in DOMAIN cs : cs[i].op = "load" /\ cs[i].stage # "answered" /\ ~cs[i].current
      BY <2>1 DEF Stray
    <3>2. PICK j \in DOMAIN R : h[j] = i
      BY <3>1 DEF Faithful
    <3> QED
      BY <3>1, <3>2, <1>1 DEF Stray, Lesser, Faithful, SameOwner
  <2>2. Stray(R) => Stray(cs)
    BY <1>1 DEF Stray, Lesser, Faithful, SameOwner
  <2> QED
    BY <2>1, <2>2
<1> QED
  BY <1>2, <1>3, <1>4, <1>5, <1>6, <1>7 DEF ListInv

LEMMA ExtendedKeeps ==
    ASSUME NEW cs, NEW A, NEW n, Extended(cs, A, n),
           NEW E, NEW b, NEW ev, NEW conn, NEW lc, NEW rs, NEW mc, NEW rj, NEW un,
           ListInv(cs, E, b, ev, conn, lc, rs, mc, rj, un),
           \A i \in DOMAIN cs : InTurn(cs[i], n),
           \A i \in DOMAIN cs : ~(cs[i].op = "load" /\ cs[i].current),
           FlagsOf(n, lc, rs, mc), TrustOf(n, b, un)
    PROVE  ListInv(A, E, b, ev, conn, lc, rs, mc, rj, un)
<1>1. CallsInv(A)
  BY ExtendedCalls DEF ListInv
<1>2. FlagsInv(A, lc, rs, mc)
  BY ExtendedFlags DEF ListInv
<1>3. FactsInv(A, E, b, ev, rj, un)
  BY ExtendedFacts DEF ListInv
<1>4. AskedInv(A, conn, lc) /\ (b.run = "loading" => LoadingThere(A))
  BY ExtendedRest DEF ListInv
<1> QED
  BY <1>1, <1>2, <1>3, <1>4 DEF ListInv

LEMMA CalledKeeps ==
    ASSUME NEW cs, NEW E, NEW b, NEW ev, NEW conn, NEW lc, NEW rs, NEW mc, NEW rj, NEW un,
           ListInv(cs, E, b, ev, conn, lc, rs, mc, rj, un), NEW op \in Ops, NEW arg, op # "refresh",
           \A i \in DOMAIN cs : Follows(cs[i], NewCall(op, arg)),
           \A i \in DOMAIN cs : ~(cs[i].op = "load" /\ cs[i].current),
           FlagsOf(NewCall(op, arg), lc, rs, mc), TrustOf(NewCall(op, arg), b, un)
    PROVE  LET R == Called(cs, op, arg)
           IN /\ ListInv(R, E, b, ev, conn, lc, rs, mc, rj, un)
              /\ Coming(cs, b) /\ op # "run" => Coming(R, b)
              /\ op = "settings" /\ b.run \notin BusyStates
                 /\ (\A i \in DOMAIN cs : cs[i].op = "run" => ~IsAsked(cs[i])) => Coming(R, b)
              /\ op = "load" => LoadThere(R)
              /\ NewerInv(cs) \/ op = "settings" => NewerInv(R)
              /\ \A k \in Nat : Counted(cs, k) => Counted(R, IF op = "settings" THEN k + 1 ELSE k)
              /\ Stray(R) <=> Stray(cs)
<1> DEFINE u == Unshared(cs)
           n == NewCall(op, arg)
           R == Append(u, n)
<1>0. Called(cs, op, arg) = R
  BY DEF Called, Unshared
<1>1. /\ Faithful(cs, u, InPlace(cs), {}) /\ DOMAIN u = DOMAIN cs
      /\ \A i \in DOMAIN cs : Lesser(cs[i], u[i]) /\ ~u[i].shared
                              /\ u[i].current = cs[i].current /\ u[i].latest = cs[i].latest
  BY UnsharedIs DEF ListInv, CallsInv
<1>2. Extended(u, R, n)
  <2>1. IsList(u)
    BY <1>1 DEF Faithful, Thinned
  <2> HIDE DEF u
  <2> QED
    BY <2>1, AppendedIs
<1>3. n.op = op /\ n.current = TRUE
  BY DEF NewCall
<1>4. \A i \in DOMAIN cs : Follows(cs[i], n)
  OBVIOUS
<1>4a. FlagsOf(n, lc, rs, mc) /\ TrustOf(n, b, un)
  OBVIOUS
<1> HIDE DEF u, n, R
<1>5. /\ ListInv(u, E, b, ev, conn, lc, rs, mc, rj, un) /\ (Stray(cs) <=> Stray(u))
      /\ NewerInv(cs) => NewerInv(u)
  BY <1>1, FaithfulKeeps
<1>6. ListInv(R, E, b, ev, conn, lc, rs, mc, rj, un)
  <2>1. \A i \in DOMAIN u : InTurn(u[i], n)
    BY <1>1, <1>4 DEF InTurn, Follows, Lesser, IsAsked, StartsRun, OfMatrix, TrustedRun
  <2>2. \A i \in DOMAIN u : ~(u[i].op = "load" /\ u[i].current)
    BY <1>1 DEF Lesser
  <2> QED
    BY <1>2, <1>4a, <1>5, <2>1, <2>2, ExtendedKeeps
<1>7. Coming(cs, b) => Coming(u, b)
  BY <1>1, FaithfulComing
<1>8. (\A i \in DOMAIN cs : cs[i].op = "run" => ~IsAsked(cs[i])) =>
      \A i \in DOMAIN u : u[i].op = "run" => ~IsAsked(u[i])
  BY <1>1 DEF Lesser, IsAsked
<1>9. /\ Coming(cs, b) /\ op # "run" => Coming(R, b)
      /\ op = "settings" /\ b.run \notin BusyStates
         /\ (\A i \in DOMAIN cs : cs[i].op = "run" => ~IsAsked(cs[i])) => Coming(R, b)
      /\ op = "load" => LoadThere(R)
      /\ Stray(R) <=> Stray(u)
  BY <1>2, <1>3, <1>7, <1>8, ExtendedRest
<1>10. ASSUME NEW k \in Nat, Counted(cs, k)
       PROVE  Counted(R, IF op = "settings" THEN k + 1 ELSE k)
  <2>1. Counted(u, k)
    BY <1>1, <1>10, FaithfulCount DEF ListInv, CallsInv, AreCalls
  <2>2. Awaits(n) <=> op = "settings"
    BY <1>3 DEF Awaits
  <2> QED
    BY <1>2, <2>1, <2>2, ExtendedCount
<1>11. NewerInv(cs) \/ op = "settings" => NewerInv(R)
  <2>1. NewerInv(cs) => NewerInv(R)
    BY <1>2, <1>5, ExtendedRest
  <2>2. op = "settings" => NewerInv(R)
    BY <1>2, <1>3 DEF NewerInv, Extended
  <2> QED
    BY <2>1, <2>2
<1> QED
  BY <1>0, <1>5, <1>6, <1>9, <1>10, <1>11

LEMMA RefreshedKeeps ==
    ASSUME NEW cs, NEW E, NEW b, NEW ev, NEW conn, NEW lc, NEW rs, NEW mc, NEW rj, NEW un,
           ListInv(cs, E, b, ev, conn, lc, rs, mc, rj, un),
           NEW then, Expected(cs, lc, rs, mc, then),
           NEW rj2, ~rj2 => ~rj /\ \A i \in Joinable(cs) : cs[i].latest
    PROVE  LET R == RefreshedList(cs, then)
           IN /\ ListInv(R, E, b, ev, conn, lc, rs, mc, rj2, un)
              /\ NewerInv(cs) => NewerInv(R)
              /\ Coming(cs, b) => Coming(R, b)
              /\ \A k \in Nat : Counted(cs, k) => Counted(R, IF "matrix" \in then THEN k + 1 ELSE k)
              /\ Stray(R) <=> Stray(cs)
<1> DEFINE R == RefreshedList(cs, then)
<1>1. CASE Joinable(cs) # {}
  <2>1. PICK i \in DOMAIN cs : Joined(cs, R, i, then) /\ Joinable(cs) = {i}
    BY <1>1, RejoinedIs DEF ListInv
  <2> HIDE DEF R
  <2>2. ~rj2 => ~rj /\ cs[i].latest
    BY <2>1
  <2>3. /\ CallsInv(R) /\ FlagsInv(R, lc, rs, mc) /\ FactsInv(R, E, b, ev, rj2, un)
        /\ AskedInv(R, conn, lc)
        /\ NewerInv(cs) => NewerInv(R)
        /\ LoadingThere(cs) => LoadingThere(R)
        /\ Coming(cs, b) => Coming(R, b)
        /\ \A k \in Nat : Counted(cs, k) => Counted(R, IF "matrix" \in then THEN k + 1 ELSE k)
        /\ Stray(R) <=> Stray(cs)
    BY <2>1, <2>2, JoinedKeeps DEF ListInv
  <2>4. ListInv(R, E, b, ev, conn, lc, rs, mc, rj2, un)
    BY <2>3 DEF ListInv
  <2>5. QED
    BY <2>3, <2>4 DEF R
<1>2. CASE Joinable(cs) = {}
  <2> DEFINE o == Outdated(cs, "refresh")
             n == NewCall("refresh", then)
             A == Append(o, n)
  <2>1. R = A
    BY <1>2 DEF RefreshedList
  <2>2. /\ Faithful(cs, o, InPlace(cs), {}) /\ DOMAIN o = DOMAIN cs
        /\ \A i \in DOMAIN cs : Lesser(cs[i], o[i]) /\ o[i].current = cs[i].current
                                /\ o[i].shared = cs[i].shared
    BY OutdatedIs DEF ListInv, CallsInv
  <2>3. Extended(o, A, n)
    <3>1. IsList(o) /\ "refresh" \in Ops
      BY <2>2 DEF Faithful, Thinned, Ops
    <3> HIDE DEF o
    <3> QED
      BY <3>1, AppendedIs
  <2>4. n.op = "refresh" /\ n.current = TRUE /\ n.arg = then /\ n.stage = "asked" /\ n.shared = TRUE
    BY DEF NewCall
  <2> HIDE DEF o, n, A, R
  <2>5. /\ ListInv(o, E, b, ev, conn, lc, rs, mc, rj, un) /\ (Stray(cs) <=> Stray(o))
        /\ NewerInv(cs) => NewerInv(o)
    BY <2>2, FaithfulKeeps
  <2>6. ListInv(o, E, b, ev, conn, lc, rs, mc, rj2, un)
    BY <2>5 DEF ListInv, FactsInv, FactsOf, RunOf
  <2>7. ASSUME NEW i \in DOMAIN o PROVE InTurn(o[i], n) /\ ~(o[i].op = "load" /\ o[i].current)
    <3>1. ~o[i].shared
      BY <1>2, <2>2 DEF Joinable, ListInv, FlagsInv, FlagsOf
    <3>2. ~(o[i].op = "load" /\ o[i].current)
      BY <2>2 DEF Expected, ListInv, FlagsInv, FlagsOf, Lesser
    <3>3. o[i].current /\ StartsRun(o[i]) => ~StartsRun(n)
      BY <2>2, <2>4 DEF Expected, StartsRun, Lesser
    <3>4. o[i].current /\ OfMatrix(o[i]) => ~OfMatrix(n)
      BY <2>2, <2>4 DEF Expected, OfMatrix, Lesser
    <3> QED
      BY <2>4, <3>1, <3>2, <3>3, <3>4 DEF InTurn, Follows, IsAsked, TrustedRun
  <2>8. FlagsOf(n, lc, rs, mc) /\ TrustOf(n, b, un)
    BY <2>4 DEF FlagsOf, TrustOf, TrustedRun, Expected, StartsRun, OfMatrix
  <2>9. ListInv(A, E, b, ev, conn, lc, rs, mc, rj2, un)
    BY <2>3, <2>6, <2>7, <2>8, ExtendedKeeps
  <2>10. /\ (Coming(cs, b) => Coming(A, b)) /\ (Stray(A) <=> Stray(cs))
         /\ NewerInv(cs) => NewerInv(A)
    BY <2>2, <2>3, <2>4, <2>5, FaithfulComing, ExtendedRest
  <2>11. ASSUME NEW k \in Nat, Counted(cs, k)
         PROVE  Counted(A, IF "matrix" \in then THEN k + 1 ELSE k)
    <3>1. Counted(o, k)
      BY <2>2, <2>11, FaithfulCount DEF ListInv, CallsInv, AreCalls
    <3>2. Awaits(n) <=> "matrix" \in then
      BY <2>4 DEF Awaits
    <3> QED
      BY <2>3, <3>1, <3>2, ExtendedCount
  <2> QED
    BY <2>1, <2>9, <2>10, <2>11 DEF R
<1> QED
  BY <1>1, <1>2

\* In a list where an edit brings the settings nothing else is about to happen.
LEMMA ComingIsQuiet ==
    ASSUME NEW cs, NEW E, NEW b, NEW ev, NEW rj, NEW un, CallsInv(cs),
           FactsInv(cs, E, b, ev, rj, un), Coming(cs, b), Configured(b)
    PROVE  b.run \notin BusyStates /\ \A j \in DOMAIN cs : cs[j].op = "run" => ~IsAsked(cs[j])
<1>1. PICK w \in DOMAIN cs : Brings(cs, w, b)
  BY DEF Coming
<1>2. CASE IsOk(cs[w])
  <2>1. b.run \notin BusyStates
    BY <1>1, <1>2 DEF FactsInv, FactsOf, SettingsOf, Brings
  <2>2. ASSUME NEW j \in DOMAIN cs, cs[j].op = "run", IsAsked(cs[j]) PROVE FALSE
    <3>1. j < w \/ w < j \/ j = w
      BY ListIs DEF CallsInv, AreCalls
    <3>2. CASE j < w
      BY <1>2, <2>2, <3>2 DEF CallsInv, AllInTurn, InTurn, Follows, IsAsked, IsOk
    <3>3. CASE w < j
      BY <1>1, <2>2, <3>3 DEF CallsInv, AllInTurn, InTurn, Follows, Brings
    <3> QED
      BY <1>1, <2>2, <3>1, <3>2, <3>3 DEF Brings
  <2> QED
    BY <2>1, <2>2
<1> QED
  BY <1>1, <1>2 DEF Brings

LEMMA OutdatedKeeps ==
    ASSUME NEW cs, NEW E, NEW b, NEW ev, NEW conn, NEW lc, NEW rs, NEW mc, NEW rj, NEW un,
           ListInv(cs, E, b, ev, conn, lc, rs, mc, rj, un), NEW op
    PROVE  LET R == Outdated(cs, op)
           IN /\ ListInv(R, E, b, ev, conn, lc, rs, mc, rj, un)
              /\ DOMAIN R = DOMAIN cs
              /\ \A i \in DOMAIN cs : /\ Lesser(cs[i], R[i]) /\ R[i].current = cs[i].current
                                      /\ cs[i].op = op => ~R[i].latest
              /\ Stray(R) <=> Stray(cs)
              /\ \A k \in Nat : Counted(cs, k) => Counted(R, k)
              /\ op = "refresh" => /\ NewerInv(cs) => NewerInv(R)
                                   /\ Coming(cs, b) => Coming(R, b)
                                   /\ LoadThere(cs) => LoadThere(R)
<1> DEFINE R == Outdated(cs, op)
<1>1. /\ Thinned(cs, R, InPlace(cs)) /\ DOMAIN R = DOMAIN cs
      /\ \A i \in DOMAIN cs : Lesser(cs[i], R[i]) /\ (cs[i].op = op => ~R[i].latest)
                              /\ R[i].shared = cs[i].shared /\ R[i].current = cs[i].current
  BY OutdatedIs DEF ListInv, CallsInv
<1> HIDE DEF R
<1>2. CallsInv(R) /\ FactsInv(R, E, b, ev, rj, un)
  BY <1>1, ThinnedCalls, ThinnedFacts DEF ListInv
<1>3. FlagsInv(R, lc, rs, mc)
  <2>1. \A i \in DOMAIN R : R[i].shared => R[i].current
    BY <1>1 DEF ListInv, FlagsInv, FlagsOf
  <2> QED
    BY <1>1, <2>1, ThinnedFlags DEF ListInv
<1>4. AskedInv(R, conn, lc) /\ (b.run = "loading" => LoadingThere(R)) /\ (Stray(R) <=> Stray(cs))
  BY <1>1 DEF ListInv, AskedInv, LoadingThere, Stray, Lesser, IsAsked
<1>5. Awaited(R) = Awaited(cs)
  BY <1>1 DEF Awaited, Awaits, Lesser
<1>6. ListInv(R, E, b, ev, conn, lc, rs, mc, rj, un)
  BY <1>2, <1>3, <1>4 DEF ListInv
<1>7. ASSUME op = "refresh"
      PROVE  /\ NewerInv(cs) => NewerInv(R)
             /\ Coming(cs, b) => Coming(R, b)
             /\ LoadThere(cs) => LoadThere(R)
  <2>1. Faithful(cs, R, InPlace(cs), {})
    BY <1>7, OutdatedIs DEF ListInv, CallsInv, R
  <2> QED
    BY <2>1, FaithfulNewer, FaithfulComing, FaithfulThere DEF ListInv
<1> QED
  BY <1>1, <1>4, <1>5, <1>6, <1>7 DEF R, Counted

\* R is cs with an edit submitted.
Submitted(cs, R, E, b, ev, conn, lc, rs, mc, rj, un) ==
    /\ ListInv(R, E, b, ev, conn, lc, rs, mc, rj, un)
    /\ NewerInv(R)
    /\ Coming(cs, b) /\ Configured(b) => Coming(R, b)
    /\ \A k \in Nat : Counted(cs, k) => Counted(R, k + 1)
    /\ Stray(R) <=> Stray(cs)

\* No other matrix edit may be under way.
Submittable(cs, mc, edit) ==
    edit \in MatrixEdits => mc.busy /\ \A i \in DOMAIN cs : ~(cs[i].current /\ OfMatrix(cs[i]))

LEMMA SubmittingKeeps ==
    ASSUME NEW cs, NEW E, NEW b, NEW ev, NEW conn, NEW lc, NEW rs, NEW mc, NEW rj, NEW un,
           ListInv(cs, E, b, ev, conn, lc, rs, mc, rj, un), NEW s, NEW edit,
           ~lc, Submittable(cs, mc, edit)
    PROVE  Submitted(cs, Submitting(cs, s, edit), E, b, ev, conn, lc, rs, mc, rj, un)
<1> DEFINE o == Outdated(cs, "settings")
           p == Outdated(o, "refresh")
           fields == IF edit \in MatrixEdits THEN (s.settings \cap MatrixEdits) \cup {edit}
                     ELSE {edit}
           arg == [edit |-> edit, fields |-> fields]
           n == NewCall("settings", arg)
           R == Called(p, "settings", arg)
<1>0. Submitting(cs, s, edit) = R
  BY DEF Submitting
<1>1. /\ ListInv(o, E, b, ev, conn, lc, rs, mc, rj, un)
      /\ DOMAIN o = DOMAIN cs
      /\ \A i \in DOMAIN cs : /\ Lesser(cs[i], o[i]) /\ o[i].current = cs[i].current
                              /\ cs[i].op = "settings" => ~o[i].latest
      /\ Stray(o) <=> Stray(cs)
      /\ \A k \in Nat : Counted(cs, k) => Counted(o, k)
  BY OutdatedKeeps
<1> HIDE DEF o
<1>2. /\ ListInv(p, E, b, ev, conn, lc, rs, mc, rj, un)
      /\ DOMAIN p = DOMAIN o
      /\ \A i \in DOMAIN o : /\ Lesser(o[i], p[i]) /\ p[i].current = o[i].current
                             /\ o[i].op = "refresh" => ~p[i].latest
      /\ Stray(p) <=> Stray(o)
      /\ \A k \in Nat : Counted(o, k) => Counted(p, k)
  BY <1>1, OutdatedKeeps
<1>3. /\ n.op = "settings" /\ n.current = TRUE /\ n.arg.edit = edit /\ n.stage = "asked"
      /\ n.shared = FALSE
  BY DEF NewCall
<1> HIDE DEF p, n, arg
<1>4. ASSUME NEW i \in DOMAIN p PROVE Follows(p[i], n) /\ ~(p[i].op = "load" /\ p[i].current)
  <2>1. /\ p[i].op = cs[i].op /\ p[i].current = cs[i].current /\ p[i].arg = cs[i].arg
        /\ cs[i].op \in {"settings", "refresh"} => ~p[i].latest
    BY <1>1, <1>2 DEF Lesser
  <2>2. ~(p[i].op = "load" /\ p[i].current)
    BY <2>1, <1>1, <1>2 DEF ListInv, FlagsInv, FlagsOf
  <2>3. p[i].current /\ OfMatrix(p[i]) => ~OfMatrix(n)
    BY <2>1, <1>1, <1>2, <1>3 DEF OfMatrix, Submittable
  <2>4. ~StartsRun(n) /\ ~TrustedRun(n) /\ IsAsked(n)
    BY <1>3 DEF StartsRun, TrustedRun, IsAsked
  <2> QED
    BY <1>3, <2>1, <2>2, <2>3, <2>4 DEF Follows
<1>5. FlagsOf(n, lc, rs, mc) /\ TrustOf(n, b, un)
  BY <1>3 DEF Submittable, FlagsOf, TrustOf, TrustedRun, StartsRun, OfMatrix
<1>6. /\ ListInv(R, E, b, ev, conn, lc, rs, mc, rj, un)
      /\ b.run \notin BusyStates
         /\ (\A i \in DOMAIN p : p[i].op = "run" => ~IsAsked(p[i])) => Coming(R, b)
      /\ NewerInv(R)
      /\ \A k \in Nat : Counted(p, k) => Counted(R, k + 1)
      /\ Stray(R) <=> Stray(p)
  <2>1. "settings" \in Ops
    BY DEF Ops
  <2> QED
    BY <1>2, <1>4, <1>5, <2>1, CalledKeeps DEF n
<1>7. ASSUME Coming(cs, b), Configured(b) PROVE Coming(R, b)
  <2>1. b.run \notin BusyStates /\ \A j \in DOMAIN cs : cs[j].op = "run" => ~IsAsked(cs[j])
    BY <1>7, ComingIsQuiet DEF ListInv
  <2>2. \A i \in DOMAIN p : p[i].op = "run" => ~IsAsked(p[i])
    BY <2>1, <1>1, <1>2 DEF Lesser, IsAsked
  <2> QED
    BY <1>6, <2>1, <2>2
<1> HIDE DEF R
<1> QED
  BY <1>0, <1>1, <1>2, <1>6, <1>7 DEF Submitted

-----------------------------------------------------------------------------
(* The invariant.                                                           *)

Runs == {"idle", "loading", "ready", "failed", "active", "ended"}

BackendInv(b, E) ==
    /\ b \in [up : BOOLEAN, run : Runs, version : Nat, tree : Nat, settings : {b.settings}, runs : Nat]
    /\ ~b.up => ~Configured(b) /\ b.run = "idle"
    /\ ~Configured(b) => b.settings = {} /\ b.run \notin {"active", "ended"}
    /\ b.tree # Garbage
    /\ Configured(b) => b.tree = b.version + E

\* The last news of the backend's state is its state, and of a run its last.
EventsInv(ev, b, lr) ==
    /\ IsList(ev)
    /\ \A k \in DOMAIN ev : ev[k].kind \in {"state", "run_end", "died"}
    /\ \A k \in DOMAIN ev :
          ev[k].kind = "state" /\ (\A l \in DOMAIN ev : l > k => ev[l].kind = "run_end") =>
             ev[k].value = b.run
    /\ b.run = "ended" =>
          \/ \E k \in DOMAIN ev : /\ ev[k].kind = "run_end" /\ ev[k].value = b.runs
                                  /\ \A l \in DOMAIN ev : l > k => ev[l].kind = "state"
          \/ lr = b.runs /\ \A k \in DOMAIN ev : ev[k].kind = "state"

IsSnapshot(s) ==
    s \in [run : {s.run}, version : {s.version}, tree : {s.tree}, settings : {s.settings}]

Online(s, conn) == conn = "ok" /\ s # Nothing

TreeShown(s, conn, lc, E) ==
    /\ s = Nothing \/ IsSnapshot(s)
    /\ Online(s, conn) => /\ s.tree # Garbage
                          /\ ~lc /\ s.version # NoVersion => s.tree = s.version + E

RunShown(s, conn, b, ev, rj) == OnlyEnds(ev) /\ ~rj /\ Online(s, conn) => s.run = b.run

BareShown(s, conn, b, ev, cs) ==
    Bare(b, ev, cs) /\ Online(s, conn) => s.version = NoVersion /\ s.settings = {}

SettingsShown(s, conn, lc, b, un, cs) ==
    Configured(b) /\ Online(s, conn) /\ ~lc /\ ~un => s.settings = b.settings \/ Coming(cs, b)

CountInv(cs, sp, mc) ==
    /\ mc \in [busy : BOOLEAN, waiting : Seq(MatrixEdits \cup FieldEdits)]
    /\ \E n \in Nat : Counted(cs, n) /\ sp = n + Len(mc.waiting)

StoreOf(E, cs, b, s, ev, conn, lc, rs, sp, lr, mc, rj, un) ==
    /\ ListInv(cs, E, b, ev, conn, lc, rs, mc, rj, un) /\ NewerInv(cs)
    /\ lc => LoadThere(cs)
    /\ BackendInv(b, E) /\ EventsInv(ev, b, lr)
    /\ TreeShown(s, conn, lc, E) /\ RunShown(s, conn, b, ev, rj)
    /\ BareShown(s, conn, b, ev, cs) /\ SettingsShown(s, conn, lc, b, un, cs)
    /\ CountInv(cs, sp, mc)

StoreNow(E) ==
    StoreOf(E, calls, backend, shown, events, connection, loadingConfig, runStarting,
            settingsPending, lastRun, matrixChain, rejoined, unseen)

Offsets == Nat \ {0}

StoreInv ==
    /\ \E E \in Offsets : StoreNow(E)
    /\ connection \in {"ok", "degraded"}
    /\ unseen \/ ~misrun

-----------------------------------------------------------------------------
(* The user.                                                                *)

LEMMA PressButtonKeeps ==
    ASSUME NEW E \in Offsets, StoreNow(E), PressButton
    PROVE  StoreNow(E)'
<1> DEFINE n == NewCall("button", {})
<1>1. /\ ~loadingConfig /\ calls' = Called(calls, "button", {})
      /\ UNCHANGED <<backend, shown, events, connection, loadingConfig, runStarting,
                     settingsPending, lastRun, matrixChain, rejoined, unseen>>
  BY DEF PressButton, uiFlags, history
<1>2. n.op = "button" /\ n.current = TRUE /\ n.stage = "asked" /\ n.shared = FALSE
  BY DEF NewCall
<1> HIDE DEF n
<1>3. \A i \in DOMAIN calls : ~(calls[i].op = "load" /\ calls[i].current)
  BY <1>1 DEF StoreNow, StoreOf, ListInv, FlagsInv, FlagsOf
<1>4. \A i \in DOMAIN calls : Follows(calls[i], n)
  BY <1>2, <1>3 DEF Follows, IsAsked, StartsRun, OfMatrix, TrustedRun
<1>5. FlagsOf(n, loadingConfig, runStarting, matrixChain) /\ TrustOf(n, backend, unseen)
  BY <1>1, <1>2 DEF FlagsOf, TrustOf, TrustedRun, StartsRun, OfMatrix
<1>6. /\ ListInv(calls', E, backend, events, connection, loadingConfig, runStarting, matrixChain,
                 rejoined, unseen)
      /\ Coming(calls, backend) => Coming(calls', backend)
      /\ NewerInv(calls) => NewerInv(calls')
      /\ \A k \in Nat : Counted(calls, k) => Counted(calls', k)
      /\ Stray(calls') <=> Stray(calls)
  <2>1. "button" \in Ops /\ "button" # "settings"
    BY DEF Ops
  <2> QED
    BY <1>1, <1>3, <1>4, <1>5, <2>1, CalledKeeps DEF n, StoreNow, StoreOf
<1> QED
  BY <1>1, <1>6 DEF StoreNow, StoreOf, BareShown, Bare, SettingsShown, CountInv

LEMMA NoLoadUnderWay ==
    ASSUME NEW E, StoreNow(E), ~loadingConfig
    PROVE  \A i \in DOMAIN calls : ~(calls[i].op = "load" /\ calls[i].current)
BY DEF StoreNow, StoreOf, ListInv, FlagsInv, FlagsOf

LEMMA SelectKeeps ==
    ASSUME NEW E \in Offsets, StoreNow(E), Select
    PROVE  StoreNow(E)'
<1> DEFINE o == Outdated(calls, "refresh")
           n == NewCall("batch", shown.version)
<1>1. /\ ~loadingConfig /\ calls' = Called(o, "batch", shown.version)
      /\ UNCHANGED <<backend, shown, events, connection, loadingConfig, runStarting,
                     settingsPending, lastRun, matrixChain, rejoined, unseen>>
  BY DEF Select, uiFlags, history
<1>2. n.op = "batch" /\ n.current = TRUE /\ n.stage = "asked" /\ n.shared = FALSE
  BY DEF NewCall
<1>3. /\ ListInv(o, E, backend, events, connection, loadingConfig, runStarting, matrixChain,
                 rejoined, unseen)
      /\ DOMAIN o = DOMAIN calls
      /\ \A i \in DOMAIN calls : Lesser(calls[i], o[i]) /\ o[i].current = calls[i].current
      /\ Stray(o) <=> Stray(calls)
      /\ \A k \in Nat : Counted(calls, k) => Counted(o, k)
      /\ NewerInv(calls) => NewerInv(o)
      /\ Coming(calls, backend) => Coming(o, backend)
  BY OutdatedKeeps DEF StoreNow, StoreOf
<1> HIDE DEF n, o
<1>4. \A i \in DOMAIN o : ~(o[i].op = "load" /\ o[i].current)
  BY <1>1, <1>3, NoLoadUnderWay DEF Lesser
<1>5. \A i \in DOMAIN o : Follows(o[i], n)
  BY <1>2, <1>4 DEF Follows, IsAsked, StartsRun, OfMatrix, TrustedRun
<1>6. FlagsOf(n, loadingConfig, runStarting, matrixChain) /\ TrustOf(n, backend, unseen)
  BY <1>1, <1>2 DEF FlagsOf, TrustOf, TrustedRun, StartsRun, OfMatrix
<1>7. /\ ListInv(calls', E, backend, events, connection, loadingConfig, runStarting, matrixChain,
                 rejoined, unseen)
      /\ Coming(o, backend) => Coming(calls', backend)
      /\ NewerInv(o) => NewerInv(calls')
      /\ \A k \in Nat : Counted(o, k) => Counted(calls', k)
      /\ Stray(calls') <=> Stray(o)
  <2>1. "batch" \in Ops /\ "batch" # "settings"
    BY DEF Ops
  <2> QED
    BY <1>1, <1>3, <1>4, <1>5, <1>6, <2>1, CalledKeeps DEF n
<1> QED
  BY <1>1, <1>3, <1>7 DEF StoreNow, StoreOf, BareShown, Bare, SettingsShown, CountInv

LEMMA FlagsWeaker ==
    ASSUME NEW cs, NEW lc, NEW rs, NEW mc, FlagsInv(cs, lc, rs, mc),
           NEW mc2, mc.busy => mc2.busy, NEW rs2, rs => rs2
    PROVE  FlagsInv(cs, lc, rs2, mc2)
BY DEF FlagsInv, FlagsOf

LEMMA EditKeeps ==
    ASSUME NEW E \in Offsets, StoreNow(E), NEW edit \in MatrixEdits \cup FieldEdits, Edit(edit)
    PROVE  StoreNow(E)'
<1>1. /\ ~loadingConfig /\ settingsPending' = settingsPending + 1
      /\ UNCHANGED <<backend, shown, events, connection, loadingConfig, runStarting, lastRun,
                     rejoined, unseen>>
  BY DEF Edit, history
<1>2. matrixChain \in [busy : BOOLEAN, waiting : Seq(MatrixEdits \cup FieldEdits)]
  BY DEF StoreNow, StoreOf, CountInv
<1>3. PICK n \in Nat : Counted(calls, n) /\ settingsPending = n + Len(matrixChain.waiting)
  BY DEF StoreNow, StoreOf, CountInv
<1>4. CASE edit \in MatrixEdits /\ matrixChain.busy
  <2>1. matrixChain' = [matrixChain EXCEPT !.waiting = Append(@, edit)] /\ calls' = calls
    BY <1>4 DEF Edit
  <2>0. Append(matrixChain.waiting, edit) \in Seq(MatrixEdits \cup FieldEdits)
    BY <1>2
  <2> DEFINE w == Append(matrixChain.waiting, edit)
  <2>1a. matrixChain' = [matrixChain EXCEPT !.waiting = w] /\ w \in Seq(MatrixEdits \cup FieldEdits)
    BY <2>1, <2>0
  <2> HIDE DEF w
  <2>1b. matrixChain'.busy = matrixChain.busy /\ matrixChain'.waiting = w
         /\ matrixChain' \in [busy : BOOLEAN, waiting : Seq(MatrixEdits \cup FieldEdits)]
    BY <2>1a, <1>2
  <2>2. /\ matrixChain'.busy = matrixChain.busy
        /\ matrixChain'.waiting = Append(matrixChain.waiting, edit)
        /\ matrixChain' \in [busy : BOOLEAN, waiting : Seq(MatrixEdits \cup FieldEdits)]
    BY <2>1b DEF w
  <2>3. Len(matrixChain'.waiting) = Len(matrixChain.waiting) + 1 /\ Len(matrixChain.waiting) \in Nat
    BY <2>2, <1>2
  <2>4. CountInv(calls', settingsPending', matrixChain')
    BY <1>1, <1>3, <2>1, <2>2, <2>3 DEF CountInv
  <2>5. FlagsInv(calls, loadingConfig, runStarting, matrixChain')
    BY <2>2, FlagsWeaker DEF StoreNow, StoreOf, ListInv
  <2> QED
    BY <1>1, <2>1, <2>4, <2>5 DEF StoreNow, StoreOf, ListInv
<1>5. CASE ~(edit \in MatrixEdits /\ matrixChain.busy)
  <2>1. /\ calls' = Submitting(calls, shown, edit)
        /\ matrixChain' = [matrixChain EXCEPT !.busy = @ \/ edit \in MatrixEdits]
    BY <1>5 DEF Edit
  <2> DEFINE busy == matrixChain.busy \/ edit \in MatrixEdits
  <2>2. /\ matrixChain' = [matrixChain EXCEPT !.busy = busy]
        /\ busy \in BOOLEAN /\ (matrixChain.busy => busy) /\ (edit \in MatrixEdits => busy)
    BY <2>1
  <2> HIDE DEF busy
  <2>2a. /\ matrixChain'.busy = busy /\ matrixChain'.waiting = matrixChain.waiting
         /\ matrixChain' \in [busy : BOOLEAN, waiting : Seq(MatrixEdits \cup FieldEdits)]
    BY <2>2, <1>2
  <2>2b. /\ matrixChain.busy => matrixChain'.busy
         /\ edit \in MatrixEdits => matrixChain'.busy
    BY <2>2, <2>2a
  <2>3. FlagsInv(calls, loadingConfig, runStarting, matrixChain')
    BY <2>2b, FlagsWeaker DEF StoreNow, StoreOf, ListInv
  <2>4. ListInv(calls, E, backend, events, connection, loadingConfig, runStarting, matrixChain',
                rejoined, unseen)
    BY <2>3 DEF StoreNow, StoreOf, ListInv
  <2>5. Submittable(calls, matrixChain', edit)
    BY <1>5, <2>2b DEF Submittable, StoreNow, StoreOf, ListInv, FlagsInv, FlagsOf
  <2>6. Submitted(calls, calls', E, backend, events, connection, loadingConfig, runStarting,
                  matrixChain', rejoined, unseen)
    BY <1>1, <2>1, <2>4, <2>5, SubmittingKeeps
  <2>7. CountInv(calls', settingsPending', matrixChain')
    <3>1. Counted(calls', n + 1) /\ settingsPending' = (n + 1) + Len(matrixChain'.waiting)
      BY <1>1, <1>2, <1>3, <2>2a, <2>6 DEF Submitted
    <3>2. n + 1 \in Nat
      OBVIOUS
    <3> QED
      BY <2>2a, <3>1, <3>2 DEF CountInv
  <2> QED
    BY <1>1, <2>6, <2>7 DEF Submitted, StoreNow, StoreOf, BareShown, Bare, SettingsShown
<1> QED
  BY <1>4, <1>5

LEMMA NothingAwaited ==
    ASSUME NEW E, StoreNow(E), settingsPending = 0
    PROVE  /\ \A i \in DOMAIN calls : ~(calls[i].current /\ calls[i].op = "settings")
           /\ ~Coming(calls, backend)
<1>1. PICK n \in Nat : Counted(calls, n) /\ settingsPending = n + Len(matrixChain.waiting)
  BY DEF StoreNow, StoreOf, CountInv
<1>2. Len(matrixChain.waiting) \in Nat
  BY DEF StoreNow, StoreOf, CountInv
<1>3. n = 0
  BY <1>1, <1>2
<1>4. Awaited(calls) = {}
  BY <1>1, <1>3, FS_EmptySet DEF Counted
<1> QED
  BY <1>4 DEF Awaited, Awaits, Coming, Brings

LEMMA StartKeeps ==
    ASSUME NEW E \in Offsets, StoreNow(E), Start
    PROVE  StoreNow(E)'
<1> DEFINE arg == [settings |-> shown.settings, trusted |-> connection = "ok"]
           n == NewCall("run", arg)
<1>1. /\ ~loadingConfig /\ ~runStarting /\ settingsPending = 0 /\ runStarting' = TRUE
      /\ shown # Nothing
      /\ calls' = Called(calls, "run", arg)
      /\ UNCHANGED <<backend, shown, events, connection, loadingConfig,
                     settingsPending, lastRun, matrixChain, rejoined, unseen>>
  BY DEF Start, history, Nothing
<1>2. /\ n.op = "run" /\ n.current = TRUE /\ n.stage = "asked" /\ n.shared = FALSE
      /\ n.arg.settings = shown.settings /\ (n.arg.trusted => connection = "ok")
  BY DEF NewCall
<1> HIDE DEF n, arg
<1>3. \A i \in DOMAIN calls : ~(calls[i].op = "load" /\ calls[i].current)
  BY <1>1, NoLoadUnderWay
<1>4. /\ \A i \in DOMAIN calls : ~(calls[i].current /\ calls[i].op = "settings")
      /\ ~Coming(calls, backend)
  BY <1>1, NothingAwaited
<1>5. \A i \in DOMAIN calls : ~(calls[i].current /\ StartsRun(calls[i]))
  BY <1>1 DEF StoreNow, StoreOf, ListInv, FlagsInv, FlagsOf
<1>6. connection = "ok" => \A i \in DOMAIN calls : ~calls[i].current => ~IsAsked(calls[i])
  BY <1>1 DEF StoreNow, StoreOf, ListInv, AskedInv
<1>7. ASSUME NEW i \in DOMAIN calls PROVE Follows(calls[i], n)
  <2>1. TrustedRun(n) /\ calls[i].op \in {"settings", "load"} => ~IsAsked(calls[i])
    BY <1>2, <1>3, <1>4, <1>6 DEF TrustedRun
  <2>2. ~OfMatrix(n) /\ IsAsked(n)
    BY <1>2 DEF OfMatrix, IsAsked
  <2> QED
    BY <1>2, <1>3, <1>4, <1>5, <2>1, <2>2 DEF Follows
<1>8. TrustOf(n, backend, unseen)
  <2>1. SUFFICES ASSUME connection = "ok", ~unseen, Configured(backend) \/ backend.run = "loading"
                 PROVE  shown.settings = backend.settings
    BY <1>2 DEF TrustOf, TrustedRun
  <2>2. CASE Configured(backend)
    BY <1>1, <1>4, <2>1, <2>2 DEF StoreNow, StoreOf, SettingsShown, Online
  <2>3. CASE ~Configured(backend)
    <3>1. PICK i \in DOMAIN calls : calls[i].stage = "loading"
      BY <2>1, <2>3 DEF StoreNow, StoreOf, ListInv, LoadingThere
    <3>2. calls[i].op = "load"
      BY <3>1 DEF StoreNow, StoreOf, ListInv, FactsInv, FactsOf, LoadingOf
    <3>3. Stray(calls)
      BY <1>3, <3>1, <3>2 DEF Stray
    <3>4. shown.settings = {}
      BY <1>1, <2>1, <2>3, <3>3 DEF StoreNow, StoreOf, BareShown, Bare, Online
    <3> QED
      BY <2>3, <3>4 DEF StoreNow, StoreOf, BackendInv
  <2> QED
    BY <2>2, <2>3
<1>9. FlagsOf(n, loadingConfig, runStarting', matrixChain)
  BY <1>1, <1>2 DEF FlagsOf, OfMatrix
<1>10. FlagsInv(calls, loadingConfig, runStarting', matrixChain)
  BY <1>1, FlagsWeaker DEF StoreNow, StoreOf, ListInv
<1>11. ListInv(calls, E, backend, events, connection, loadingConfig, runStarting', matrixChain,
               rejoined, unseen)
  BY <1>10 DEF StoreNow, StoreOf, ListInv
<1>12. /\ ListInv(calls', E, backend, events, connection, loadingConfig, runStarting', matrixChain,
                  rejoined, unseen)
       /\ NewerInv(calls) => NewerInv(calls')
       /\ \A k \in Nat : Counted(calls, k) => Counted(calls', k)
       /\ Stray(calls') <=> Stray(calls)
  <2>1. "run" \in Ops /\ "run" # "settings"
    BY DEF Ops
  <2> QED
    BY <1>1, <1>3, <1>7, <1>8, <1>9, <1>11, <2>1, CalledKeeps DEF n
<1> QED
  BY <1>1, <1>4, <1>12 DEF StoreNow, StoreOf, BareShown, Bare, SettingsShown, CountInv

-----------------------------------------------------------------------------
(* Calls that are disowned.                                                 *)

\* R is cs with every call disowned, in other circumstances.
AllDisowned(cs, R, E, b, ev2, conn2, lc, lc2, rs2, mc2, rj, un) ==
    /\ ListInv(R, E, b, ev2, conn2, lc2, rs2, mc2, rj, un) /\ NewerInv(R)
    /\ Counted(R, 0)
    /\ \A i \in DOMAIN R : ~R[i].current
    /\ ~lc /\ Stray(R) => Stray(cs)

LEMMA DisownedKeeps ==
    ASSUME NEW cs, NEW E, NEW b, NEW ev, NEW conn, NEW lc, NEW rs, NEW mc, NEW rj, NEW un,
           ListInv(cs, E, b, ev, conn, lc, rs, mc, rj, un),
           NEW ev2, NEW conn2, NEW lc2, NEW rs2, NEW mc2, conn2 # "ok" \/ lc2
    PROVE  AllDisowned(cs, Disowned(cs), E, b, ev2, conn2, lc, lc2, rs2, mc2, rj, un)
<1> DEFINE R == Disowned(cs)
<1>1. /\ Thinned(cs, R, InPlace(cs)) /\ DOMAIN R = DOMAIN cs
      /\ \A i \in DOMAIN cs : Lesser(cs[i], R[i]) /\ ~R[i].current /\ ~R[i].shared
  BY DisownedIs DEF ListInv, CallsInv
<1> HIDE DEF R
<1>2. CallsInv(R)
  BY <1>1, ThinnedCalls DEF ListInv
<1>3. FlagsInv(R, lc2, rs2, mc2)
  BY <1>1 DEF FlagsInv, FlagsOf
<1>4. FactsInv(R, E, b, ev2, rj, un)
  <2> SUFFICES ASSUME NEW i \in DOMAIN R PROVE FactsOf(R[i], E, b, ev2, rj, un, R)
    BY DEF FactsInv
  <2>1. FactsOf(cs[i], E, b, ev, rj, un, cs) /\ Lesser(cs[i], R[i]) /\ ~R[i].current
    BY <1>1 DEF ListInv, FactsInv
  <2>2. LoadingOf(R[i], b) /\ TrustOf(R[i], b, un)
    BY <2>1 DEF FactsOf, LoadingOf, TrustOf, TrustedRun, IsAsked, Lesser
  <2> QED
    BY <2>1, <2>2 DEF FactsOf, ReportOf, RunOf, LoadOf, SettingsOf, BareOf, RunsOf
<1>5. AskedInv(R, conn2, lc2)
  BY DEF AskedInv
<1>6. b.run = "loading" => LoadingThere(R)
  BY <1>1 DEF ListInv, LoadingThere, Lesser
<1>7. NewerInv(R)
  BY <1>1 DEF NewerInv
<1>8. Counted(R, 0)
  <2>1. Awaited(R) = {}
    BY <1>1 DEF Awaited, Awaits
  <2> QED
    BY <2>1, FS_EmptySet DEF Counted
<1>9. ASSUME ~lc, Stray(R) PROVE Stray(cs)
  BY <1>1, <1>9 DEF Stray, ListInv, FlagsInv, FlagsOf, Lesser
<1>10. ListInv(R, E, b, ev2, conn2, lc2, rs2, mc2, rj, un)
  BY <1>2, <1>3, <1>4, <1>5, <1>6 DEF ListInv
<1> QED
  BY <1>1, <1>7, <1>8, <1>9, <1>10 DEF R, AllDisowned

LEMMA IdleCount ==
    ASSUME NEW cs, Counted(cs, 0)
    PROVE  CountInv(cs, 0, IdleChain)
<1>1. /\ IdleChain \in [busy : BOOLEAN, waiting : Seq(MatrixEdits \cup FieldEdits)]
      /\ 0 = 0 + Len(IdleChain.waiting)
  BY DEF IdleChain
<1> HIDE DEF IdleChain
<1>2. 0 \in Nat
  OBVIOUS
<1> QED
  BY <1>1, <1>2 DEF CountInv

LEMMA LoadKeeps ==
    ASSUME NEW E \in Offsets, StoreNow(E), Load
    PROVE  StoreNow(E)'
<1> DEFINE d == Disowned(calls)
           o == Outdated(d, "refresh")
           n == NewCall("load", {})
<1>1. /\ ~loadingConfig /\ loadingConfig' = TRUE /\ settingsPending' = 0 /\ matrixChain' = IdleChain
      /\ calls' = Called(o, "load", {})
      /\ UNCHANGED <<backend, shown, events, connection, runStarting, lastRun, rejoined, unseen>>
  BY DEF Load, history
<1>2. n.op = "load" /\ n.current = TRUE /\ n.stage = "asked" /\ n.shared = FALSE
  BY DEF NewCall
<1>3. /\ ListInv(d, E, backend, events, connection, loadingConfig', runStarting, matrixChain',
                 rejoined, unseen)
      /\ NewerInv(d) /\ Counted(d, 0)
      /\ \A i \in DOMAIN d : ~d[i].current
      /\ Stray(d) => Stray(calls)
  <2>1. ListInv(calls, E, backend, events, connection, loadingConfig, runStarting, matrixChain,
                rejoined, unseen)
    BY DEF StoreNow, StoreOf
  <2>2. connection # "ok" \/ loadingConfig'
    BY <1>1
  <2>3. AllDisowned(calls, d, E, backend, events, connection, loadingConfig, loadingConfig',
                    runStarting, matrixChain', rejoined, unseen)
    BY <2>1, <2>2, DisownedKeeps
  <2> QED
    BY <1>1, <2>3 DEF AllDisowned
<1> HIDE DEF d
<1>4. /\ ListInv(o, E, backend, events, connection, loadingConfig', runStarting, matrixChain',
                 rejoined, unseen)
      /\ NewerInv(o) /\ Counted(o, 0)
      /\ DOMAIN o = DOMAIN d
      /\ \A i \in DOMAIN d : o[i].current = d[i].current
      /\ Stray(o) <=> Stray(d)
  <2>1. 0 \in Nat
    OBVIOUS
  <2> QED
    BY <1>3, <2>1, OutdatedKeeps
<1> HIDE DEF o, n
<1>5. \A i \in DOMAIN o : Follows(o[i], n) /\ ~(o[i].op = "load" /\ o[i].current)
  BY <1>2, <1>3, <1>4 DEF Follows, IsAsked, StartsRun, OfMatrix, TrustedRun
<1>6. FlagsOf(n, loadingConfig', runStarting, matrixChain') /\ TrustOf(n, backend, unseen)
  BY <1>1, <1>2 DEF FlagsOf, TrustOf, TrustedRun, StartsRun, OfMatrix
<1>7. /\ ListInv(calls', E, backend, events, connection, loadingConfig', runStarting, matrixChain',
                 rejoined, unseen)
      /\ LoadThere(calls') /\ NewerInv(calls')
      /\ \A k \in Nat : Counted(o, k) => Counted(calls', k)
      /\ Stray(calls') <=> Stray(o)
  <2>1. "load" \in Ops /\ "load" # "settings" /\ "load" # "refresh"
    BY DEF Ops
  <2> QED
    BY <1>1, <1>4, <1>5, <1>6, <2>1, CalledKeeps DEF n
<1>8. CountInv(calls', settingsPending', matrixChain')
  <2>1. 0 \in Nat
    OBVIOUS
  <2> QED
    BY <1>1, <1>4, <1>7, <2>1, IdleCount
<1>9. Bare(backend, events, calls') => Bare(backend, events, calls)
  BY <1>3, <1>4, <1>7 DEF Bare
<1> QED
  BY <1>1, <1>7, <1>8, <1>9 DEF StoreNow, StoreOf, BareShown, SettingsShown, TreeShown

-----------------------------------------------------------------------------
(* Events.                                                                  *)

Shifted(ev, t) ==
    /\ IsList(t) /\ 1 \in DOMAIN ev /\ Head(ev) = ev[1]
    /\ \A k \in DOMAIN t : k \in Nat /\ k + 1 \in DOMAIN ev /\ t[k] = ev[k + 1]
    /\ \A k \in DOMAIN ev : k \in Nat /\ (k # 1 => k > 1 /\ k - 1 \in DOMAIN t /\ t[k - 1] = ev[k])

LEMMA TailIs ==
    ASSUME NEW ev, IsList(ev), ev # <<>>
    PROVE  Shifted(ev, Tail(ev))
<1>1. ASSUME NEW S, ev \in Seq(S)
      PROVE  /\ Tail(ev) \in Seq(S) /\ Len(ev) \in Nat /\ Len(ev) > 0 /\ DOMAIN ev = 1..Len(ev)
             /\ DOMAIN Tail(ev) = 1..(Len(ev) - 1) /\ Head(ev) = ev[1]
             /\ \A k \in 1..(Len(ev) - 1) : Tail(ev)[k] = ev[k + 1]
  BY <1>1
<1>2. /\ IsList(Tail(ev)) /\ Len(ev) \in Nat /\ Len(ev) > 0 /\ DOMAIN ev = 1..Len(ev)
      /\ DOMAIN Tail(ev) = 1..(Len(ev) - 1) /\ Head(ev) = ev[1]
      /\ \A k \in 1..(Len(ev) - 1) : Tail(ev)[k] = ev[k + 1]
  <2> DEFINE S == {ev[k] : k \in DOMAIN ev}
  <2>1. ev \in Seq(S)
    BY DEF IsList
  <2> HIDE DEF S
  <2> QED
    BY <1>1, <2>1, SeqIsList
<1> DEFINE t == Tail(ev)
<1>3. ASSUME NEW k \in DOMAIN ev, k # 1
      PROVE  k > 1 /\ k - 1 \in DOMAIN t /\ t[k - 1] = ev[k]
  <2>1. k \in Nat /\ k > 1 /\ k - 1 \in 1..(Len(ev) - 1) /\ (k - 1) + 1 = k
    BY <1>2, <1>3
  <2> QED
    BY <2>1, <1>2
<1> QED
  BY <1>2, <1>3 DEF Shifted

LEMMA TailEvents ==
    ASSUME NEW ev, NEW b, NEW lr, EventsInv(ev, b, lr), ev # <<>>, NEW lr2,
           Head(ev).kind = "state" => lr2 = lr,
           Head(ev).kind = "run_end" => lr2 = Head(ev).value
    PROVE  LET t == Tail(ev)
           IN /\ EventsInv(t, b, lr2)
              /\ Died(t) => Died(ev)
              /\ Head(ev).kind # "died" /\ Died(ev) => Died(t)
              /\ Head(ev).kind = "run_end" /\ OnlyEnds(t) => OnlyEnds(ev)
              /\ Head(ev).kind = "state" /\ OnlyEnds(t) => Head(ev).value = b.run
<1> DEFINE t == Tail(ev)
<1>1. Shifted(ev, t)
  BY TailIs DEF EventsInv
<1> HIDE DEF t
<1>2. ASSUME NEW k \in DOMAIN t, t[k].kind = "state", \A l \in DOMAIN t : l > k => t[l].kind = "run_end"
      PROVE  t[k].value = b.run
  <2>1. k \in Nat /\ k + 1 \in DOMAIN ev /\ t[k] = ev[k + 1]
    BY <1>1 DEF Shifted
  <2>2. ASSUME NEW l \in DOMAIN ev, l > k + 1 PROVE ev[l].kind = "run_end"
    <3>1. l \in Nat /\ l # 1
      BY <1>1, <2>1, <2>2 DEF Shifted
    <3>2. l - 1 \in DOMAIN t /\ t[l - 1] = ev[l] /\ l - 1 > k
      BY <1>1, <2>1, <2>2, <3>1 DEF Shifted
    <3> QED
      BY <1>2, <3>2
  <2> QED
    BY <1>2, <2>1, <2>2 DEF EventsInv
<1>3. ASSUME b.run = "ended"
      PROVE  \/ \E k \in DOMAIN t : /\ t[k].kind = "run_end" /\ t[k].value = b.runs
                                    /\ \A l \in DOMAIN t : l > k => t[l].kind = "state"
             \/ lr2 = b.runs /\ \A k \in DOMAIN t : t[k].kind = "state"
  <2>1. CASE \E k \in DOMAIN ev : /\ ev[k].kind = "run_end" /\ ev[k].value = b.runs
                                  /\ \A l \in DOMAIN ev : l > k => ev[l].kind = "state"
    <3>1. PICK k \in DOMAIN ev : /\ ev[k].kind = "run_end" /\ ev[k].value = b.runs
                                 /\ \A l \in DOMAIN ev : l > k => ev[l].kind = "state"
      BY <2>1
    <3>2. \A l \in DOMAIN t : l \in Nat /\ l + 1 \in DOMAIN ev /\ t[l] = ev[l + 1]
      BY <1>1 DEF Shifted
    <3>3. k \in Nat
      BY <1>1 DEF Shifted
    <3>4. CASE k = 1
      <4>1. \A l \in DOMAIN t : t[l].kind = "state"
        <5> SUFFICES ASSUME NEW l \in DOMAIN t PROVE t[l].kind = "state"
          OBVIOUS
        <5>1. l + 1 > 1
          <6>1. Shifted(ev, t) /\ l \in Nat
            BY <1>1, <3>2
          <6>2. l # 0
            BY <6>1, ListIs DEF Shifted
          <6> QED
            BY <6>1, <6>2
        <5> QED
          BY <3>1, <3>2, <3>4, <5>1
      <4>2. lr2 = b.runs
        BY <3>1, <3>4, <1>1 DEF Shifted
      <4> QED
        BY <4>1, <4>2
    <3>5. CASE k # 1
      <4>1. k - 1 \in DOMAIN t /\ t[k - 1] = ev[k]
        BY <3>5, <1>1 DEF Shifted
      <4>2. \A l \in DOMAIN t : l > k - 1 => t[l].kind = "state"
        <5> SUFFICES ASSUME NEW l \in DOMAIN t, l > k - 1 PROVE t[l].kind = "state"
          OBVIOUS
        <5>1. l + 1 > k
          BY <3>2, <3>3
        <5> QED
          BY <3>1, <3>2, <5>1
      <4> QED
        BY <3>1, <4>1, <4>2
    <3> QED
      BY <3>4, <3>5
  <2>2. CASE lr = b.runs /\ \A k \in DOMAIN ev : ev[k].kind = "state"
    BY <1>1, <2>2 DEF Shifted
  <2> QED
    BY <1>3, <2>1, <2>2 DEF EventsInv
<1>4. EventsInv(t, b, lr2)
  BY <1>1, <1>2, <1>3 DEF EventsInv, Shifted
<1>5. /\ Died(t) => Died(ev)
      /\ Head(ev).kind # "died" /\ Died(ev) => Died(t)
      /\ Head(ev).kind = "run_end" /\ OnlyEnds(t) => OnlyEnds(ev)
  BY <1>1 DEF Shifted, Died, OnlyEnds
<1>6. ASSUME Head(ev).kind = "state", OnlyEnds(t) PROVE Head(ev).value = b.run
  <2>1. \A l \in DOMAIN ev : l > 1 => ev[l].kind = "run_end"
    BY <1>1, <1>6 DEF Shifted, OnlyEnds
  <2> QED
    BY <1>1, <1>6, <2>1 DEF EventsInv, Shifted
<1> QED
  BY <1>4, <1>5, <1>6 DEF t

OneMore(ev, t, e) ==
    /\ IsList(t) /\ Len(ev) \in Nat
    /\ Len(ev) + 1 \in DOMAIN t /\ t[Len(ev) + 1] = e
    /\ \A k \in DOMAIN ev : k \in Nat /\ k \in DOMAIN t /\ t[k] = ev[k] /\ k < Len(ev) + 1
    /\ \A k \in DOMAIN t : k \in DOMAIN ev \/ k = Len(ev) + 1

LEMMA OneMoreIs ==
    ASSUME NEW ev, IsList(ev), NEW kind, NEW value
    PROVE  OneMore(ev, ev \o Published(kind, value), [kind |-> kind, value |-> value])
<1> DEFINE e == [kind |-> kind, value |-> value]
           t == ev \o <<e>>
           S == {ev[k] : k \in DOMAIN ev} \cup {e}
<1>1. ev \in Seq(S)
  <2>1. Len(ev) \in Nat /\ ev \in [1..Len(ev) -> S]
    BY DEF IsList
  <2> HIDE DEF S
  <2> QED
    BY <2>1
<1>2. <<e>> \in Seq(S)
  OBVIOUS
<1> HIDE DEF S, e
<1>3. /\ t \in Seq(S) /\ Len(ev) \in Nat /\ DOMAIN ev = 1..Len(ev) /\ DOMAIN t = 1..(Len(ev) + 1)
      /\ t[Len(ev) + 1] = e /\ \A k \in 1..Len(ev) : t[k] = ev[k]
  BY <1>1, <1>2
<1> HIDE DEF t
<1>4. IsList(t)
  BY <1>3, SeqIsList
<1>5. Len(ev) + 1 \in 1..(Len(ev) + 1)
  BY <1>3
<1>6. OneMore(ev, t, e)
  BY <1>3, <1>4, <1>5 DEF OneMore
<1> QED
  BY <1>6 DEF t, e, Published

LEMMA StateNews ==
    ASSUME NEW ev, NEW b, NEW lr, EventsInv(ev, b, lr), NEW b2, b2.run # "ended"
    PROVE  LET t == ev \o Published("state", b2.run)
           IN EventsInv(t, b2, lr) /\ ~OnlyEnds(t) /\ (Died(t) <=> Died(ev))
<1> DEFINE e == [kind |-> "state", value |-> b2.run]
           t == ev \o Published("state", b2.run)
<1>1. OneMore(ev, t, e) /\ e.kind = "state" /\ e.value = b2.run
  BY OneMoreIs DEF EventsInv
<1> HIDE DEF t, e
<1>2. EventsInv(t, b2, lr)
  BY <1>1 DEF EventsInv, OneMore
<1>3. ~OnlyEnds(t) /\ (Died(t) <=> Died(ev))
  BY <1>1 DEF OnlyEnds, Died, OneMore
<1> QED
  BY <1>2, <1>3 DEF t

\* Other events under way, in which the backend is as dead as before.
LEMMA EventsMatter ==
    ASSUME NEW cs, NEW E, NEW b, NEW ev, NEW rj, NEW un, FactsInv(cs, E, b, ev, rj, un),
           NEW ev2, Died(ev2) <=> Died(ev),
           \/ OnlyEnds(ev2) => OnlyEnds(ev)
           \/ \A i \in DOMAIN cs : cs[i].op = "refresh" => ~cs[i].latest
    PROVE  FactsInv(cs, E, b, ev2, rj, un)
<1> SUFFICES ASSUME NEW i \in DOMAIN cs PROVE FactsOf(cs[i], E, b, ev2, rj, un, cs)
  BY DEF FactsInv
<1>1. FactsOf(cs[i], E, b, ev, rj, un, cs)
  BY DEF FactsInv
<1>2. RunOf(cs[i], b, ev2, rj) /\ LoadOf(cs[i], b, ev2)
  BY <1>1 DEF FactsOf, RunOf, LoadOf
<1>3. BareOf(cs[i], b, ev2, cs)
  BY <1>1 DEF FactsOf, BareOf, Bare
<1> QED
  BY <1>1, <1>2, <1>3 DEF FactsOf

LEMMA RunEndArrivesKeeps ==
    ASSUME NEW E \in Offsets, StoreNow(E), RunEndArrives
    PROVE  StoreNow(E)'
<1>1. /\ events # <<>> /\ Head(events).kind = "run_end" /\ events' = Tail(events)
      /\ lastRun' = Head(events).value
      /\ UNCHANGED <<backend, shown, calls, connection, loadingConfig, runStarting,
                     settingsPending, matrixChain, rejoined, unseen>>
  BY DEF RunEndArrives, NextEvent, history
<1>2. EventsInv(events, backend, lastRun)
  BY DEF StoreNow, StoreOf
<1>3. /\ EventsInv(events', backend, lastRun')
      /\ Died(events') <=> Died(events)
      /\ OnlyEnds(events') => OnlyEnds(events)
  BY <1>1, <1>2, TailEvents
<1>4. FactsInv(calls, E, backend, events', rejoined, unseen)
  BY <1>3, EventsMatter DEF StoreNow, StoreOf, ListInv
<1>5. ListInv(calls, E, backend, events', connection, loadingConfig, runStarting, matrixChain,
              rejoined, unseen)
  BY <1>4 DEF StoreNow, StoreOf, ListInv
<1> QED
  BY <1>1, <1>3, <1>5 DEF StoreNow, StoreOf, RunShown, BareShown, Bare

LEMMA StateChangesKeeps ==
    ASSUME NEW E \in Offsets, StoreNow(E), StateChanges
    PROVE  StoreNow(E)'
<1> DEFINE o == Outdated(calls, "refresh")
<1>1. /\ events # <<>> /\ Head(events).kind = "state" /\ events' = Tail(events)
      /\ calls' = o
      /\ shown' = IF shown = Nothing THEN shown ELSE [shown EXCEPT !.run = Head(events).value]
      /\ UNCHANGED <<backend, connection, loadingConfig, runStarting, settingsPending, lastRun,
                     matrixChain, rejoined, unseen>>
  BY DEF StateChanges, NextEvent, history, uiFlags
<1>2. EventsInv(events, backend, lastRun)
  BY DEF StoreNow, StoreOf
<1>3. /\ EventsInv(events', backend, lastRun)
      /\ Died(events') <=> Died(events)
      /\ OnlyEnds(events') => Head(events).value = backend.run
  BY <1>1, <1>2, TailEvents
<1>4. ListInv(calls, E, backend, events, connection, loadingConfig, runStarting, matrixChain,
              rejoined, unseen)
  BY DEF StoreNow, StoreOf
<1>5. /\ ListInv(o, E, backend, events, connection, loadingConfig, runStarting, matrixChain,
                 rejoined, unseen)
      /\ DOMAIN o = DOMAIN calls
      /\ \A i \in DOMAIN calls : Lesser(calls[i], o[i]) /\ (calls[i].op = "refresh" => ~o[i].latest)
      /\ Stray(o) <=> Stray(calls)
      /\ \A k \in Nat : Counted(calls, k) => Counted(o, k)
      /\ NewerInv(calls) => NewerInv(o)
      /\ Coming(calls, backend) => Coming(o, backend)
      /\ LoadThere(calls) => LoadThere(o)
  BY <1>4, OutdatedKeeps
<1> HIDE DEF o
<1>6. FactsInv(o, E, backend, events', rejoined, unseen)
  BY <1>3, <1>5, EventsMatter DEF Lesser, ListInv
<1>7. ListInv(o, E, backend, events', connection, loadingConfig, runStarting, matrixChain,
              rejoined, unseen)
  BY <1>5, <1>6 DEF ListInv
<1>8. shown = Nothing \/ IsSnapshot(shown)
  BY DEF StoreNow, StoreOf, TreeShown
<1>9. CASE shown = Nothing
  BY <1>1, <1>3, <1>5, <1>7, <1>9 DEF StoreNow, StoreOf, RunShown, BareShown, Bare, CountInv,
                                      TreeShown, SettingsShown, Online
<1>10. CASE shown # Nothing
  <2>1. /\ shown'.run = Head(events).value
        /\ shown'.version = shown.version /\ shown'.tree = shown.tree
        /\ shown'.settings = shown.settings /\ IsSnapshot(shown')
    BY <1>1, <1>8, <1>10 DEF IsSnapshot
  <2>2. RunShown(shown', connection, backend, events', rejoined)
    BY <1>3, <2>1 DEF RunShown
  <2>3. BareShown(shown', connection, backend, events', o)
    BY <1>3, <1>5, <1>10, <2>1 DEF StoreNow, StoreOf, BareShown, Bare, Online
  <2>4. TreeShown(shown', connection, loadingConfig, E)
    BY <1>10, <2>1 DEF StoreNow, StoreOf, TreeShown, Online
  <2>5. SettingsShown(shown', connection, loadingConfig, backend, unseen, o)
    BY <1>5, <1>10, <2>1 DEF StoreNow, StoreOf, SettingsShown, Online
  <2> QED
    BY <1>1, <1>3, <1>5, <1>7, <2>2, <2>3, <2>4, <2>5 DEF StoreNow, StoreOf, CountInv
<1> QED
  BY <1>9, <1>10

LEMMA DeathArrivesKeeps ==
    ASSUME NEW E \in Offsets, StoreNow(E), DeathArrives
    PROVE  StoreNow(E)'
<1> DEFINE d == Disowned(calls)
<1>1. /\ events # <<>> /\ Head(events).kind = "died" /\ events' = Tail(events)
      /\ calls' = d /\ connection' = "degraded"
      /\ loadingConfig' = FALSE /\ runStarting' = FALSE
      /\ settingsPending' = 0 /\ lastRun' = 0 /\ matrixChain' = IdleChain
      /\ UNCHANGED <<backend, shown, rejoined, unseen>>
  BY DEF DeathArrives, NextEvent, history
<1>2. EventsInv(events, backend, lastRun)
  BY DEF StoreNow, StoreOf
<1>3. EventsInv(events', backend, lastRun')
  BY <1>1, <1>2, TailEvents
<1>4. ListInv(calls, E, backend, events, connection, loadingConfig, runStarting, matrixChain,
              rejoined, unseen)
  BY DEF StoreNow, StoreOf
<1>5. connection' # "ok"
  BY <1>1
<1>6. AllDisowned(calls, d, E, backend, events', connection', loadingConfig, loadingConfig',
                  runStarting', matrixChain', rejoined, unseen)
  BY <1>4, <1>5, DisownedKeeps
<1> HIDE DEF d
<1>7. CountInv(calls', settingsPending', matrixChain')
  BY <1>1, <1>6, IdleCount DEF AllDisowned
<1> QED
  BY <1>1, <1>3, <1>5, <1>6, <1>7 DEF AllDisowned, StoreNow, StoreOf, RunShown, BareShown, TreeShown,
                                      SettingsShown, Online

-----------------------------------------------------------------------------
(* The backend serves a call.                                               *)

AnsweredWith(cs, R, i, answer) ==
    Advanced(cs, R, i) /\ R[i].stage = "answered" /\ R[i].answer = answer

LEMMA AnsweredIs ==
    ASSUME NEW cs, AreCalls(cs), NEW i \in DOMAIN cs, cs[i].stage # "answered", NEW answer,
           IsAsked(cs[i]) => \A j \in DOMAIN cs : j < i => ~IsAsked(cs[j])
    PROVE  AnsweredWith(cs, [cs EXCEPT ![i].stage = "answered", ![i].answer = answer], i, answer)
<1> DEFINE c == [cs[i] EXCEPT !.stage = "answered", !.answer = answer]
           R == [cs EXCEPT ![i].stage = "answered", ![i].answer = answer]
<1>1. IsCall(cs[i])
  BY DEF AreCalls
<1>2. /\ IsCall(c) /\ c.op = cs[i].op /\ c.current = cs[i].current /\ c.latest = cs[i].latest
      /\ c.shared = cs[i].shared /\ c.arg = cs[i].arg /\ c.stage = "answered" /\ c.answer = answer
  BY <1>1 DEF IsCall, Stages
<1>3. R = [j \in DOMAIN cs |-> IF j = i THEN c ELSE cs[j]]
  <2>1. cs = [j \in DOMAIN cs |-> cs[j]]
    BY DEF AreCalls, IsList
  <2> QED
    BY <1>1, <2>1 DEF IsCall
<1> HIDE DEF c, R
<1>4. R[i] = c /\ \A j \in DOMAIN cs : j # i => R[j] = cs[j]
  BY <1>3
<1>5. IsList(R) /\ DOMAIN R = DOMAIN cs
  <2>1. R = [j \in DOMAIN cs |-> R[j]]
    BY <1>3
  <2> QED
    BY <2>1, TableIsList DEF AreCalls
<1>6. AnsweredWith(cs, R, i, answer)
  BY <1>2, <1>4, <1>5 DEF AnsweredWith, Advanced
<1> QED
  BY <1>6 DEF R

LEMMA NoAnswerFacts ==
    ASSUME NEW c, NEW E, NEW b, NEW ev, NEW rj, NEW un, NEW cs, c.stage = "answered", ~IsOk(c)
    PROVE  FactsOf(c, E, b, ev, rj, un, cs)
BY DEF FactsOf, ReportOf, LoadingOf, RunOf, LoadOf, SettingsOf, BareOf, TrustOf, TrustedRun, RunsOf,
       IsAsked

LEMMA NextAskedIs ==
    ASSUME NEW i, IsList(calls), NextAsked(i)
    PROVE  i \in DOMAIN calls /\ IsAsked(calls[i]) /\ \A j \in DOMAIN calls : j < i => ~IsAsked(calls[j])
<1>1. i \in DOMAIN calls /\ \A j \in 1..(i - 1) : calls[j].stage # "asked"
  BY DEF NextAsked
<1>2. \A j \in DOMAIN calls : j \in Nat /\ j >= 1
  BY ListIs
<1>3. \A j \in DOMAIN calls : j < i => j \in 1..(i - 1)
  BY <1>1, <1>2
<1> QED
  BY <1>1, <1>3 DEF IsAsked, NextAsked

\* Everything but the call is as it was, or as the call has left it.
LEMMA ServedKeeps ==
    ASSUME NEW cs, NEW E, NEW b, NEW ev, NEW conn, NEW lc, NEW rs, NEW mc, NEW rj, NEW un,
           ListInv(cs, E, b, ev, conn, lc, rs, mc, rj, un), NEW R, NEW i, Advanced(cs, R, i),
           R[i].stage = "loading" => \A j \in DOMAIN cs : cs[j].stage # "loading",
           R[i].op = "load" /\ R[i].current /\ IsOk(R[i]) =>
              \A j \in DOMAIN cs : j # i => cs[j].stage = "answered",
           NEW E2, NEW b2, NEW ev2, NEW un2,
           FactsOf(R[i], E2, b2, ev2, rj, un2, cs),
           \A j \in DOMAIN cs : j # i => FactsOf(cs[j], E2, b2, ev2, rj, un2, cs),
           b2.run = "loading" => LoadingThere(R)
    PROVE  ListInv(R, E2, b2, ev2, conn, lc, rs, mc, rj, un2)
<1>1. CallsInv(R)
  BY AdvancedCalls DEF ListInv
<1>2. FlagsInv(R, lc, rs, mc)
  BY AdvancedFlags DEF ListInv
<1>3. AskedInv(R, conn, lc)
  BY AdvancedRest DEF ListInv
<1>4. FactsInv(R, E2, b2, ev2, rj, un2)
  BY AdvancedFacts
<1> QED
  BY <1>1, <1>2, <1>3, <1>4 DEF ListInv

LEMMA ServedRest ==
    ASSUME NEW E, StoreNow(E), NEW i, Advanced(calls, calls', i),
           UNCHANGED <<settingsPending, matrixChain, loadingConfig>>
    PROVE  /\ NewerInv(calls') /\ (loadingConfig' => LoadThere(calls'))
           /\ CountInv(calls', settingsPending', matrixChain')
           /\ Stray(calls') => Stray(calls)
BY AdvancedRest DEF StoreNow, StoreOf, CountInv

\* A backend that differs in the version of its tree, or in being up.
SameBut(b, b2) ==
    /\ b2.run = b.run /\ b2.settings = b.settings /\ b2.runs = b.runs
    /\ Configured(b2) <=> Configured(b)

LEMMA SameButFacts ==
    ASSUME NEW b, NEW b2, SameBut(b, b2), NEW c, NEW E, NEW ev, NEW rj, NEW un, NEW cs,
           FactsOf(c, E, b, ev, rj, un, cs)
    PROVE  FactsOf(c, E, b2, ev, rj, un, cs)
<1> USE DEF SameBut, FactsOf
<1>1. LoadingOf(c, b2) /\ RunOf(c, b2, ev, rj) /\ LoadOf(c, b2, ev) /\ RunsOf(c, b2)
  BY DEF LoadingOf, RunOf, LoadOf, RunsOf
<1>2. SettingsOf(c, b2, un)
  BY DEF SettingsOf
<1>3. BareOf(c, b2, ev, cs)
  BY DEF BareOf, Bare
<1>4. TrustOf(c, b2, un)
  BY DEF TrustOf
<1> QED
  BY <1>1, <1>2, <1>3, <1>4

LEMMA SameButComing ==
    ASSUME NEW b, NEW b2, SameBut(b, b2), NEW cs
    PROVE  Coming(cs, b) <=> Coming(cs, b2)
BY DEF SameBut, Coming, Brings

LEMMA MovedIs ==
    ASSUME NEW b, NEW E \in Offsets, BackendInv(b, E)
    PROVE  /\ Configured(Moved(b))
           /\ Moved(b).version = b.version + 1 /\ Moved(b).tree = b.tree + 1
           /\ Moved(b).tree # Garbage
           /\ Moved(b).up = b.up /\ Moved(b).run = b.run
           /\ Moved(b).settings = b.settings /\ Moved(b).runs = b.runs
           /\ Moved(b) \in [up : BOOLEAN, run : Runs, version : Nat, tree : Nat, settings : {b.settings},
                            runs : Nat]
           /\ Configured(b) => SameBut(b, Moved(b)) /\ BackendInv(Moved(b), E)
<1>1. b \in [up : BOOLEAN, run : Runs, version : Nat, tree : Nat, settings : {b.settings}, runs : Nat]
      /\ b.version \in Nat /\ b.tree \in Nat
  BY DEF BackendInv
<1>2. /\ Moved(b).version = b.version + 1 /\ Moved(b).tree = b.tree + 1
      /\ Moved(b).up = b.up /\ Moved(b).run = b.run
      /\ Moved(b).settings = b.settings /\ Moved(b).runs = b.runs
      /\ Moved(b) \in [up : BOOLEAN, run : Runs, version : Nat, tree : Nat, settings : {b.settings},
                       runs : Nat]
  <2> DEFINE v == b.version + 1
             t == b.tree + 1
  <2>1. v \in Nat /\ t \in Nat /\ Moved(b) = [b EXCEPT !.version = v, !.tree = t]
    BY <1>1 DEF Moved
  <2> HIDE DEF v, t
  <2>2. /\ Moved(b).version = v /\ Moved(b).tree = t
        /\ Moved(b).up = b.up /\ Moved(b).run = b.run
        /\ Moved(b).settings = b.settings /\ Moved(b).runs = b.runs
        /\ Moved(b) \in [up : BOOLEAN, run : Runs, version : Nat, tree : Nat, settings : {b.settings},
                         runs : Nat]
    BY <1>1, <2>1
  <2> QED
    BY <2>2 DEF v, t
<1>3. Configured(Moved(b)) /\ Moved(b).tree # Garbage
  BY <1>1, <1>2 DEF Configured, NoVersion, Garbage
<1>4. ASSUME Configured(b) PROVE SameBut(b, Moved(b)) /\ BackendInv(Moved(b), E)
  <2>1. SameBut(b, Moved(b))
    BY <1>2, <1>3, <1>4 DEF SameBut
  <2>2. b.tree + 1 = (b.version + 1) + E
    BY <1>1, <1>4 DEF BackendInv, Offsets
  <2>3. BackendInv(Moved(b), E)
    <3>1. b.up /\ b.tree = b.version + E
      BY <1>4 DEF BackendInv
    <3> QED
      BY <1>2, <1>3, <2>2, <3>1 DEF BackendInv
  <2> QED
    BY <2>1, <2>3
<1> QED
  BY <1>2, <1>3, <1>4

LEMMA ServeRefusedKeeps ==
    ASSUME NEW E \in Offsets, StoreNow(E), NEW i, ServeRefused(i)
    PROVE  StoreNow(E)'
<1> DEFINE answer == IF backend.up THEN Fault ELSE [kind |-> "not_ready"]
<1>1. /\ NextAsked(i) /\ calls' = [calls EXCEPT ![i].stage = "answered", ![i].answer = answer]
      /\ UNCHANGED <<backend, shown, events, connection, loadingConfig, runStarting, settingsPending,
                     lastRun, matrixChain, rejoined, unseen>>
  BY DEF ServeRefused, Answered, uiFlags, history
<1>2. ListInv(calls, E, backend, events, connection, loadingConfig, runStarting, matrixChain,
              rejoined, unseen)
  BY DEF StoreNow, StoreOf
<1>3. i \in DOMAIN calls /\ IsAsked(calls[i]) /\ \A j \in DOMAIN calls : j < i => ~IsAsked(calls[j])
  BY <1>1, <1>2, NextAskedIs DEF ListInv, CallsInv, AreCalls
<1>4. AnsweredWith(calls, calls', i, answer)
  BY <1>1, <1>2, <1>3, AnsweredIs DEF IsAsked, ListInv, CallsInv
<1>5. answer.kind # "ok"
  BY DEF Fault
<1> HIDE DEF answer
<1>6. Advanced(calls, calls', i) /\ calls'[i].stage = "answered" /\ ~IsOk(calls'[i])
  BY <1>4, <1>5 DEF AnsweredWith, IsOk
<1>7. ListInv(calls', E, backend, events, connection, loadingConfig, runStarting, matrixChain,
              rejoined, unseen)
  <2>1. FactsOf(calls'[i], E, backend, events, rejoined, unseen, calls)
    BY <1>6, NoAnswerFacts
  <2>2. \A j \in DOMAIN calls : j # i => FactsOf(calls[j], E, backend, events, rejoined, unseen, calls)
    BY <1>2 DEF ListInv, FactsInv
  <2>3. backend.run = "loading" => LoadingThere(calls')
    BY <1>2, <1>3, <1>6, AdvancedRest DEF ListInv, IsAsked
  <2> QED
    BY <1>2, <1>6, <2>1, <2>2, <2>3, ServedKeeps
<1>8. /\ NewerInv(calls') /\ (loadingConfig' => LoadThere(calls'))
      /\ CountInv(calls', settingsPending', matrixChain')
      /\ Stray(calls') => Stray(calls)
  BY <1>1, <1>6, ServedRest
<1>9. Coming(calls, backend) /\ Configured(backend) => Coming(calls', backend)
  <2>1. ASSUME Coming(calls, backend), Configured(backend), calls[i].op = "settings" PROVE FALSE
    <3>1. backend.run \notin BusyStates
      BY <1>2, <2>1, ComingIsQuiet DEF ListInv
    <3>2. backend.up
      BY <2>1 DEF StoreNow, StoreOf, BackendInv
    <3> QED
      BY <2>1, <3>1, <3>2 DEF ServeRefused, IdleBackend, Loaded, Configured
  <2> QED
    BY <1>6, <2>1, AdvancedRest
<1> QED
  BY <1>1, <1>7, <1>8, <1>9 DEF StoreNow, StoreOf, BareShown, Bare, SettingsShown

LEMMA ServeSnapshotKeeps ==
    ASSUME NEW E \in Offsets, StoreNow(E), NEW i, ServeSnapshot(i)
    PROVE  StoreNow(E)'
<1> DEFINE answer == Snapshot(backend)
<1>1. /\ NextAsked(i) /\ calls[i].op = "refresh"
      /\ calls' = [calls EXCEPT ![i].stage = "answered", ![i].answer = answer]
      /\ UNCHANGED <<backend, shown, events, connection, loadingConfig, runStarting, settingsPending,
                     lastRun, matrixChain, rejoined, unseen>>
  BY DEF ServeSnapshot, Serves, Answered, uiFlags, history
<1>2. ListInv(calls, E, backend, events, connection, loadingConfig, runStarting, matrixChain,
              rejoined, unseen) /\ BackendInv(backend, E)
  BY DEF StoreNow, StoreOf
<1>3. i \in DOMAIN calls /\ IsAsked(calls[i]) /\ \A j \in DOMAIN calls : j < i => ~IsAsked(calls[j])
  BY <1>1, <1>2, NextAskedIs DEF ListInv, CallsInv, AreCalls
<1>4. AnsweredWith(calls, calls', i, answer)
  BY <1>1, <1>2, <1>3, AnsweredIs DEF IsAsked, ListInv, CallsInv
<1>5. /\ answer.run = backend.run /\ answer.version = backend.version
      /\ answer.settings = backend.settings
      /\ answer.tree = IF Configured(backend) THEN backend.tree ELSE NoTree
  BY DEF Snapshot, Configured
<1> HIDE DEF answer
<1>6. /\ Advanced(calls, calls', i) /\ calls'[i].stage = "answered" /\ calls'[i].answer = answer
      /\ calls'[i].op = "refresh"
  BY <1>1, <1>4 DEF AnsweredWith, Advanced
<1>7. ListInv(calls', E, backend, events, connection, loadingConfig, runStarting, matrixChain,
              rejoined, unseen)
  <2> DEFINE c == calls'[i]
  <2>1. FactsOf(c, E, backend, events, rejoined, unseen, calls)
    <3> HIDE DEF c
    <3>0. c.stage = "answered" /\ c.answer = answer /\ c.op = "refresh"
      BY <1>6 DEF c
    <3>1. ReportOf(c, E)
      BY <1>2, <1>5, <3>0 DEF ReportOf, BackendInv, Configured, NoTree, Garbage
    <3>2. RunOf(c, backend, events, rejoined) /\ SettingsOf(c, backend, unseen)
      BY <1>5, <3>0 DEF RunOf, SettingsOf
    <3>3. BareOf(c, backend, events, calls)
      BY <1>2, <1>5, <3>0 DEF BareOf, Bare, BackendInv, Configured
    <3>4. LoadingOf(c, backend) /\ LoadOf(c, backend, events) /\ TrustOf(c, backend, unseen)
          /\ RunsOf(c, backend)
      BY <3>0 DEF LoadingOf, LoadOf, TrustOf, TrustedRun, RunsOf
    <3> QED
      BY <3>1, <3>2, <3>3, <3>4 DEF FactsOf
  <2>2. \A j \in DOMAIN calls : j # i => FactsOf(calls[j], E, backend, events, rejoined, unseen, calls)
    BY <1>2 DEF ListInv, FactsInv
  <2>3. backend.run = "loading" => LoadingThere(calls')
    BY <1>2, <1>3, <1>6, AdvancedRest DEF ListInv, IsAsked
  <2> QED
    BY <1>2, <1>6, <2>1, <2>2, <2>3, ServedKeeps
<1>8. /\ NewerInv(calls') /\ (loadingConfig' => LoadThere(calls'))
      /\ CountInv(calls', settingsPending', matrixChain')
      /\ Stray(calls') => Stray(calls)
  BY <1>1, <1>6, ServedRest
<1>9. Coming(calls, backend) => Coming(calls', backend)
  BY <1>1, <1>6, AdvancedRest
<1> QED
  BY <1>1, <1>7, <1>8, <1>9 DEF StoreNow, StoreOf, BareShown, Bare, SettingsShown

LEMMA ServeBatchKeeps ==
    ASSUME NEW E \in Offsets, StoreNow(E), NEW i, ServeBatch(i)
    PROVE  StoreNow(E)'
<1> DEFINE accepted == calls[i].arg = backend.version /\ Loaded
           answer == IF Loaded /\ ~accepted THEN [kind |-> "stale"]
                     ELSE [kind |-> "ok", to |-> backend'.version,
                           patches |-> backend.tree, becomes |-> backend'.tree]
<1>1. /\ NextAsked(i) /\ calls[i].op = "batch"
      /\ backend' = IF accepted THEN Moved(backend) ELSE backend
      /\ calls' = [calls EXCEPT ![i].stage = "answered", ![i].answer = answer]
      /\ UNCHANGED <<shown, events, connection, loadingConfig, runStarting, settingsPending,
                     lastRun, matrixChain, rejoined, unseen>>
  BY DEF ServeBatch, Serves, Answered, uiFlags, history
<1>2. ListInv(calls, E, backend, events, connection, loadingConfig, runStarting, matrixChain,
              rejoined, unseen) /\ BackendInv(backend, E)
  BY DEF StoreNow, StoreOf
<1>3. i \in DOMAIN calls /\ IsAsked(calls[i]) /\ \A j \in DOMAIN calls : j < i => ~IsAsked(calls[j])
  BY <1>1, <1>2, NextAskedIs DEF ListInv, CallsInv, AreCalls
<1>4. AnsweredWith(calls, calls', i, answer)
  BY <1>1, <1>2, <1>3, AnsweredIs DEF IsAsked, ListInv, CallsInv
<1>5. SameBut(backend, backend') /\ BackendInv(backend', E)
  <2>1. CASE accepted
    BY <1>1, <1>2, <2>1, MovedIs DEF Loaded, Configured
  <2>2. CASE ~accepted
    BY <1>1, <1>2, <2>2 DEF SameBut
  <2> QED
    BY <2>1, <2>2
<1>6. /\ Advanced(calls, calls', i) /\ calls'[i].stage = "answered" /\ calls'[i].answer = answer
      /\ calls'[i].op = "batch" /\ calls'[i].arg = calls[i].arg
  BY <1>1, <1>4 DEF AnsweredWith, Advanced
<1>7. answer.kind = "ok" =>
         /\ answer.to # NoVersion =>
               /\ calls[i].arg # NoVersion
               /\ answer.patches = calls[i].arg + E /\ answer.becomes = answer.to + E
               /\ answer.becomes # Garbage
         /\ ~Configured(backend) => answer.to = NoVersion
  <2>1. CASE Loaded /\ ~accepted
    BY <2>1
  <2>2. CASE ~Loaded
    <3>1. backend' = backend /\ answer.to = backend.version
      BY <1>1, <2>2
    <3> HIDE DEF answer
    <3> QED
      BY <2>2, <3>1 DEF Loaded
  <2>3. CASE accepted
    <3>1. /\ answer.to = backend'.version /\ answer.patches = backend.tree
          /\ answer.becomes = backend'.tree
      BY <2>3
    <3>2. Configured(backend) /\ Configured(backend') /\ calls[i].arg = backend.version
      BY <1>5, <2>3 DEF Loaded, Configured, SameBut
    <3> HIDE DEF answer
    <3> QED
      BY <1>2, <1>5, <3>1, <3>2 DEF BackendInv, Configured
  <2> QED
    BY <2>1, <2>2, <2>3
<1> HIDE DEF answer
<1>8. ListInv(calls', E, backend', events, connection, loadingConfig, runStarting, matrixChain,
              rejoined, unseen)
  <2> DEFINE c == calls'[i]
  <2>1. FactsOf(c, E, backend', events, rejoined, unseen, calls)
    <3> HIDE DEF c
    <3>0. c.stage = "answered" /\ c.answer = answer /\ c.op = "batch" /\ c.arg = calls[i].arg
      BY <1>6 DEF c
    <3>1. ReportOf(c, E)
      BY <1>7, <3>0 DEF ReportOf, IsOk
    <3>2. RunOf(c, backend', events, rejoined) /\ SettingsOf(c, backend', unseen)
      BY <3>0 DEF RunOf, SettingsOf
    <3>3. BareOf(c, backend', events, calls)
      BY <1>5, <1>7, <3>0 DEF BareOf, Bare, SameBut, IsOk
    <3>4. LoadingOf(c, backend') /\ LoadOf(c, backend', events) /\ TrustOf(c, backend', unseen)
          /\ RunsOf(c, backend')
      BY <3>0 DEF LoadingOf, LoadOf, TrustOf, TrustedRun, RunsOf
    <3> QED
      BY <3>1, <3>2, <3>3, <3>4 DEF FactsOf
  <2>2. \A j \in DOMAIN calls : j # i => FactsOf(calls[j], E, backend', events, rejoined, unseen, calls)
    BY <1>2, <1>5, SameButFacts DEF ListInv, FactsInv
  <2>3. backend'.run = "loading" => LoadingThere(calls')
    BY <1>2, <1>3, <1>5, <1>6, AdvancedRest DEF ListInv, IsAsked, SameBut
  <2> QED
    BY <1>2, <1>6, <2>1, <2>2, <2>3, ServedKeeps
<1>9. /\ NewerInv(calls') /\ (loadingConfig' => LoadThere(calls'))
      /\ CountInv(calls', settingsPending', matrixChain')
      /\ Stray(calls') => Stray(calls)
  BY <1>1, <1>6, ServedRest
<1>10. Coming(calls, backend) => Coming(calls', backend')
  BY <1>1, <1>5, <1>6, AdvancedRest, SameButComing
<1>11. EventsInv(events, backend', lastRun) /\ RunShown(shown, connection, backend', events, rejoined)
  BY <1>5 DEF StoreNow, StoreOf, EventsInv, SameBut, RunShown
<1>12. BareShown(shown, connection, backend', events, calls')
  BY <1>5, <1>9 DEF StoreNow, StoreOf, BareShown, Bare, SameBut
<1>13. SettingsShown(shown, connection, loadingConfig, backend', unseen, calls')
  BY <1>5, <1>10 DEF StoreNow, StoreOf, SettingsShown, SameBut
<1> QED
  BY <1>1, <1>5, <1>8, <1>9, <1>11, <1>12, <1>13 DEF StoreNow, StoreOf

\* The tree moves on, and nobody is told.
LEMMA MovedKeeps ==
    ASSUME NEW E \in Offsets, StoreNow(E), Configured(backend), backend' = Moved(backend)
    PROVE  /\ SameBut(backend, backend') /\ BackendInv(backend', E)
           /\ EventsInv(events, backend', lastRun)
           /\ RunShown(shown, connection, backend', events, rejoined)
           /\ \A cs : (Stray(cs) => Stray(calls)) => BareShown(shown, connection, backend', events, cs)
           /\ \A cs : (Coming(calls, backend) => Coming(cs, backend)) =>
                 SettingsShown(shown, connection, loadingConfig, backend', unseen, cs)
<1>1. SameBut(backend, backend') /\ BackendInv(backend', E)
  BY MovedIs DEF StoreNow, StoreOf
<1>2. EventsInv(events, backend', lastRun) /\ RunShown(shown, connection, backend', events, rejoined)
  BY <1>1 DEF StoreNow, StoreOf, EventsInv, SameBut, RunShown
<1>3. ASSUME NEW cs, Stray(cs) => Stray(calls) PROVE BareShown(shown, connection, backend', events, cs)
  BY <1>1, <1>3 DEF StoreNow, StoreOf, BareShown, Bare, SameBut
<1>4. ASSUME NEW cs, Coming(calls, backend) => Coming(cs, backend)
      PROVE  SettingsShown(shown, connection, loadingConfig, backend', unseen, cs)
  BY <1>1, <1>4, SameButComing DEF StoreNow, StoreOf, SettingsShown, SameBut
<1> QED
  BY <1>1, <1>2, <1>3, <1>4

LEMMA ServeButtonKeeps ==
    ASSUME NEW E \in Offsets, StoreNow(E), NEW i, ServeButton(i)
    PROVE  StoreNow(E)'
<1> DEFINE answer == [kind |-> "ok"]
<1>1. /\ NextAsked(i) /\ calls[i].op = "button" /\ Configured(backend)
      /\ backend' = Moved(backend)
      /\ calls' = [calls EXCEPT ![i].stage = "answered", ![i].answer = answer]
      /\ UNCHANGED <<shown, events, connection, loadingConfig, runStarting, settingsPending,
                     lastRun, matrixChain, rejoined, unseen>>
  BY DEF ServeButton, Serves, Answered, uiFlags, history, Loaded, Configured
<1>2. ListInv(calls, E, backend, events, connection, loadingConfig, runStarting, matrixChain,
              rejoined, unseen)
  BY DEF StoreNow, StoreOf
<1>3. i \in DOMAIN calls /\ IsAsked(calls[i]) /\ \A j \in DOMAIN calls : j < i => ~IsAsked(calls[j])
  BY <1>1, <1>2, NextAskedIs DEF ListInv, CallsInv, AreCalls
<1>4. AnsweredWith(calls, calls', i, answer)
  BY <1>1, <1>2, <1>3, AnsweredIs DEF IsAsked, ListInv, CallsInv
<1> HIDE DEF answer
<1>5. /\ SameBut(backend, backend') /\ BackendInv(backend', E)
      /\ EventsInv(events, backend', lastRun)
      /\ RunShown(shown, connection, backend', events, rejoined)
      /\ \A cs : (Stray(cs) => Stray(calls)) => BareShown(shown, connection, backend', events, cs)
      /\ \A cs : (Coming(calls, backend) => Coming(cs, backend)) =>
            SettingsShown(shown, connection, loadingConfig, backend', unseen, cs)
  BY <1>1, MovedKeeps
<1>6. /\ Advanced(calls, calls', i) /\ calls'[i].stage = "answered"
      /\ calls'[i].op = "button"
  BY <1>1, <1>4 DEF AnsweredWith, Advanced
<1>7. ListInv(calls', E, backend', events, connection, loadingConfig, runStarting, matrixChain,
              rejoined, unseen)
  <2>1. FactsOf(calls'[i], E, backend', events, rejoined, unseen, calls)
    BY <1>1, <1>5, <1>6 DEF FactsOf, ReportOf, LoadingOf, RunOf, LoadOf, SettingsOf, BareOf, Bare, TrustOf,
                            TrustedRun, RunsOf, SameBut
  <2>2. \A j \in DOMAIN calls : j # i => FactsOf(calls[j], E, backend', events, rejoined, unseen, calls)
    BY <1>2, <1>5, SameButFacts DEF ListInv, FactsInv
  <2>3. backend'.run = "loading" => LoadingThere(calls')
    BY <1>2, <1>3, <1>5, <1>6, AdvancedRest DEF ListInv, IsAsked, SameBut
  <2> QED
    BY <1>2, <1>6, <2>1, <2>2, <2>3, ServedKeeps
<1>8. /\ NewerInv(calls') /\ (loadingConfig' => LoadThere(calls'))
      /\ CountInv(calls', settingsPending', matrixChain')
      /\ Stray(calls') => Stray(calls)
  BY <1>1, <1>6, ServedRest
<1>9. Coming(calls, backend) => Coming(calls', backend)
  BY <1>1, <1>6, AdvancedRest
<1> QED
  BY <1>1, <1>5, <1>7, <1>8, <1>9 DEF StoreNow, StoreOf

\* No call is served.
LEMMA SameCalls ==
    ASSUME NEW cs, NEW E, NEW b, NEW ev, NEW conn, NEW lc, NEW rs, NEW mc, NEW rj, NEW un,
           ListInv(cs, E, b, ev, conn, lc, rs, mc, rj, un), NEW b2, SameBut(b, b2)
    PROVE  ListInv(cs, E, b2, ev, conn, lc, rs, mc, rj, un)
BY SameButFacts DEF ListInv, FactsInv, SameBut

LEMMA HookChangesTreeKeeps ==
    ASSUME NEW E \in Offsets, StoreNow(E), HookChangesTree
    PROVE  StoreNow(E)'
<1>1. /\ backend.run = "active" /\ backend' = Moved(backend)
      /\ UNCHANGED <<shown, calls, events, connection, loadingConfig, runStarting, settingsPending,
                     lastRun, matrixChain, rejoined, unseen>>
  BY DEF HookChangesTree, uiFlags, history
<1>2. Configured(backend)
  BY <1>1 DEF StoreNow, StoreOf, BackendInv
<1>3. /\ SameBut(backend, backend') /\ BackendInv(backend', E)
      /\ EventsInv(events, backend', lastRun)
      /\ RunShown(shown, connection, backend', events, rejoined)
      /\ BareShown(shown, connection, backend', events, calls)
      /\ SettingsShown(shown, connection, loadingConfig, backend', unseen, calls)
  BY <1>1, <1>2, MovedKeeps
<1>4. ListInv(calls, E, backend', events, connection, loadingConfig, runStarting, matrixChain,
              rejoined, unseen)
  BY <1>3, SameCalls DEF StoreNow, StoreOf
<1> QED
  BY <1>1, <1>3, <1>4 DEF StoreNow, StoreOf

LEMMA BackendRestartsKeeps ==
    ASSUME NEW E \in Offsets, StoreNow(E), BackendRestarts
    PROVE  StoreNow(E)'
<1>1. /\ ~backend.up /\ backend' = [backend EXCEPT !.up = TRUE]
      /\ UNCHANGED <<shown, calls, events, connection, loadingConfig, runStarting, settingsPending,
                     lastRun, matrixChain, rejoined, unseen>>
  BY DEF BackendRestarts, uiFlags, history
<1>2. BackendInv(backend, E)
  BY DEF StoreNow, StoreOf
<1>3. /\ backend'.up = TRUE /\ backend'.run = backend.run /\ backend'.version = backend.version
      /\ backend'.tree = backend.tree /\ backend'.settings = backend.settings
      /\ backend'.runs = backend.runs
      /\ backend' \in [up : BOOLEAN, run : Runs, version : Nat, tree : Nat, settings : {backend.settings},
                       runs : Nat]
  BY <1>1, <1>2 DEF BackendInv
<1>4. SameBut(backend, backend')
  BY <1>3 DEF SameBut, Configured
<1>5. BackendInv(backend', E)
  BY <1>2, <1>3 DEF BackendInv, Configured
<1>6. ListInv(calls, E, backend', events, connection, loadingConfig, runStarting, matrixChain,
              rejoined, unseen)
  BY <1>4, SameCalls DEF StoreNow, StoreOf
<1>7. EventsInv(events, backend', lastRun) /\ RunShown(shown, connection, backend', events, rejoined)
  BY <1>4 DEF StoreNow, StoreOf, EventsInv, SameBut, RunShown
<1>8. BareShown(shown, connection, backend', events, calls)
  BY <1>4 DEF StoreNow, StoreOf, BareShown, Bare, SameBut
<1>9. SettingsShown(shown, connection, loadingConfig, backend', unseen, calls)
  BY <1>4, SameButComing DEF StoreNow, StoreOf, SettingsShown, SameBut
<1> QED
  BY <1>1, <1>5, <1>6, <1>7, <1>8, <1>9 DEF StoreNow, StoreOf

\* Every call before the next one that is asked has been served, every later one has not.
LEMMA AskedAfter ==
    ASSUME NEW cs, CallsInv(cs), NEW i \in DOMAIN cs, IsAsked(cs[i]),
           \A j \in DOMAIN cs : j < i => ~IsAsked(cs[j])
    PROVE  \A j \in DOMAIN cs : j # i =>
              \/ j < i /\ ~IsAsked(cs[j]) /\ InTurn(cs[j], cs[i])
              \/ i < j /\ IsAsked(cs[j]) /\ InTurn(cs[i], cs[j])
<1> SUFFICES ASSUME NEW j \in DOMAIN cs, j # i
             PROVE  \/ j < i /\ ~IsAsked(cs[j]) /\ InTurn(cs[j], cs[i])
                    \/ i < j /\ IsAsked(cs[j]) /\ InTurn(cs[i], cs[j])
  OBVIOUS
<1>1. j < i \/ i < j
  BY ListIs DEF CallsInv, AreCalls
<1> QED
  BY <1>1 DEF CallsInv, AllInTurn, InTurn, Follows

LEMMA ServeSettingsKeeps ==
    ASSUME NEW E \in Offsets, StoreNow(E), NEW i, ServeSettings(i)
    PROVE  StoreNow(E)'
<1> DEFINE matrix == calls[i].arg.edit \in MatrixEdits
           held == IF matrix THEN backend.settings \cap FieldEdits ELSE backend.settings
           made == held \cup calls[i].arg.fields
           moved == IF matrix THEN Moved(backend) ELSE backend
           answer == [kind |-> "ok", settings |-> backend'.settings]
<1>1. /\ NextAsked(i) /\ calls[i].op = "settings" /\ backend.run \notin BusyStates
      /\ Configured(backend)
      /\ backend' = [moved EXCEPT !.settings = made]
      /\ calls' = [calls EXCEPT ![i].stage = "answered", ![i].answer = answer]
      /\ UNCHANGED <<shown, events, connection, loadingConfig, runStarting, settingsPending,
                     lastRun, matrixChain, rejoined, unseen>>
  BY DEF ServeSettings, Serves, Answered, uiFlags, history, IdleBackend, Loaded, Configured
<1>2. ListInv(calls, E, backend, events, connection, loadingConfig, runStarting, matrixChain,
              rejoined, unseen) /\ BackendInv(backend, E)
  BY DEF StoreNow, StoreOf
<1>3. i \in DOMAIN calls /\ IsAsked(calls[i]) /\ \A j \in DOMAIN calls : j < i => ~IsAsked(calls[j])
  BY <1>1, <1>2, NextAskedIs DEF ListInv, CallsInv, AreCalls
<1>4. AnsweredWith(calls, calls', i, answer)
  BY <1>1, <1>2, <1>3, AnsweredIs DEF IsAsked, ListInv, CallsInv
<1>5. SameBut(backend, moved) /\ BackendInv(moved, E)
  BY <1>1, <1>2, MovedIs DEF SameBut
<1>6. answer.settings = backend'.settings
  OBVIOUS
<1> HIDE DEF made, moved, answer
<1>7. /\ backend'.run = backend.run /\ backend'.runs = backend.runs /\ Configured(backend')
      /\ BackendInv(backend', E)
  <2>1. /\ backend'.up = moved.up /\ backend'.run = moved.run /\ backend'.version = moved.version
        /\ backend'.tree = moved.tree /\ backend'.runs = moved.runs
        /\ backend' \in [up : BOOLEAN, run : Runs, version : Nat, tree : Nat, settings : {backend'.settings},
                         runs : Nat]
    BY <1>1, <1>5 DEF BackendInv
  <2> QED
    BY <1>1, <1>5, <2>1 DEF BackendInv, SameBut, Configured
<1>8. /\ Advanced(calls, calls', i) /\ calls'[i].stage = "answered" /\ calls'[i].answer = answer
      /\ calls'[i].op = "settings" /\ calls'[i].current = calls[i].current
      /\ calls'[i].latest = calls[i].latest
  BY <1>1, <1>4 DEF AnsweredWith, Advanced
<1>9. ASSUME NEW j \in DOMAIN calls, j # i
      PROVE  \/ j < i /\ ~IsAsked(calls[j]) /\ InTurn(calls[j], calls[i])
             \/ i < j /\ IsAsked(calls[j]) /\ InTurn(calls[i], calls[j])
  BY <1>2, <1>3, <1>9, AskedAfter DEF ListInv
<1>10. ListInv(calls', E, backend', events, connection, loadingConfig, runStarting, matrixChain,
               rejoined, unseen)
  <2> DEFINE c == calls'[i]
  <2>1. FactsOf(c, E, backend', events, rejoined, unseen, calls)
    <3> HIDE DEF c
    <3>0. c.stage = "answered" /\ c.answer = answer /\ c.op = "settings"
      BY <1>8 DEF c
    <3>1. SettingsOf(c, backend', unseen)
      BY <1>1, <1>6, <1>7, <3>0 DEF SettingsOf
    <3>2. BareOf(c, backend', events, calls)
      BY <1>7 DEF BareOf, Bare
    <3>3. ReportOf(c, E) /\ RunOf(c, backend', events, rejoined) /\ LoadingOf(c, backend')
          /\ LoadOf(c, backend', events) /\ TrustOf(c, backend', unseen) /\ RunsOf(c, backend')
      BY <3>0 DEF ReportOf, RunOf, LoadingOf, LoadOf, TrustOf, TrustedRun, RunsOf
    <3> QED
      BY <3>1, <3>2, <3>3 DEF FactsOf
  <2>2. ASSUME NEW j \in DOMAIN calls, j # i
        PROVE  FactsOf(calls[j], E, backend', events, rejoined, unseen, calls)
    <3>0. FactsOf(calls[j], E, backend, events, rejoined, unseen, calls)
      BY <1>2 DEF ListInv, FactsInv
    <3>1. LoadOf(calls[j], backend', events)
      BY <1>2, <1>3, <2>2 DEF ListInv, CallsInv, LoadAlone, LoadOf, IsAsked
    <3>2. SettingsOf(calls[j], backend', unseen)
      BY <1>1, <1>7, <1>9, <2>2 DEF SettingsOf, InTurn, Follows, IsAsked, IsOk
    <3>3. TrustOf(calls[j], backend', unseen)
      BY <1>1, <1>3, <1>9, <2>2 DEF TrustOf, TrustedRun, InTurn, Follows
    <3>4. BareOf(calls[j], backend', events, calls)
      BY <1>7 DEF BareOf, Bare
    <3> QED
      BY <1>7, <3>0, <3>1, <3>2, <3>3, <3>4 DEF FactsOf, LoadingOf, RunOf, RunsOf
  <2>3. backend'.run = "loading" => LoadingThere(calls')
    BY <1>1, <1>7 DEF BusyStates
  <2> QED
    BY <1>2, <1>8, <2>1, <2>2, <2>3, ServedKeeps
<1>11. /\ NewerInv(calls') /\ (loadingConfig' => LoadThere(calls'))
       /\ CountInv(calls', settingsPending', matrixChain')
       /\ Stray(calls') => Stray(calls)
  BY <1>1, <1>8, ServedRest
<1>12. EventsInv(events, backend', lastRun) /\ RunShown(shown, connection, backend', events, rejoined)
  BY <1>7 DEF StoreNow, StoreOf, EventsInv, RunShown
<1>13. BareShown(shown, connection, backend', events, calls')
  BY <1>7 DEF BareShown, Bare
<1>14. ASSUME Online(shown, connection), ~loadingConfig PROVE Coming(calls', backend')
  <2>1. calls[i].current
    BY <1>2, <1>3, <1>14 DEF Online, ListInv, AskedInv
  <2>2. CASE calls[i].latest
    <3>1. Brings(calls', i, backend')
      BY <1>4, <1>8, <2>1, <2>2 DEF Brings, IsOk, answer
    <3> QED
      BY <1>3, <1>8, <3>1 DEF Coming, Advanced
  <2>3. CASE ~calls[i].latest
    <3>1. PICK j \in DOMAIN calls : j > i /\ calls[j].op = "settings" /\ calls[j].current /\ calls[j].latest
      BY <1>1, <1>3, <2>1, <2>3 DEF StoreNow, StoreOf, NewerInv
    <3>2. j # i /\ ~(j < i)
      BY <1>2, <1>3, <3>1, ListIs DEF ListInv, CallsInv, AreCalls
    <3>3. IsAsked(calls[j]) /\ calls'[j] = calls[j] /\ j \in DOMAIN calls'
      BY <1>8, <1>9, <3>2 DEF Advanced
    <3>4. \A k \in DOMAIN calls' : calls'[k].op = "run" => ~IsAsked(calls'[k])
      BY <1>1, <1>8, <1>9, <2>1 DEF Advanced, InTurn, Follows, IsAsked
    <3>5. Brings(calls', j, backend')
      BY <1>1, <1>7, <3>1, <3>3, <3>4 DEF Brings
    <3> QED
      BY <3>3, <3>5 DEF Coming
  <2> QED
    BY <2>2, <2>3
<1>15. SettingsShown(shown, connection, loadingConfig, backend', unseen, calls')
  BY <1>14 DEF SettingsShown
<1> QED
  BY <1>1, <1>7, <1>10, <1>11, <1>12, <1>13, <1>15 DEF StoreNow, StoreOf

LEMMA ServeRunKeeps ==
    ASSUME NEW E \in Offsets, StoreNow(E), NEW i, ServeRun(i)
    PROVE  StoreNow(E)' /\ ((unseen \/ ~misrun) => unseen' \/ ~misrun')
<1> DEFINE answer == [kind |-> "ok", run |-> backend'.runs]
<1>1. /\ NextAsked(i) /\ calls[i].op = "run" /\ backend.run \notin BusyStates
      /\ Configured(backend)
      /\ backend' = [backend EXCEPT !.run = "active", !.runs = @ + 1]
      /\ events' = events \o Published("state", "active")
      /\ calls' = [calls EXCEPT ![i].stage = "answered", ![i].answer = answer]
      /\ misrun' = (misrun \/ (calls[i].arg.trusted /\ calls[i].arg.settings # backend.settings))
      /\ UNCHANGED <<shown, connection, loadingConfig, runStarting, settingsPending,
                     lastRun, matrixChain, rejoined, unseen>>
  BY DEF ServeRun, Serves, Answered, uiFlags, IdleBackend, Loaded, Configured
<1>2. ListInv(calls, E, backend, events, connection, loadingConfig, runStarting, matrixChain,
              rejoined, unseen) /\ BackendInv(backend, E) /\ EventsInv(events, backend, lastRun)
  BY DEF StoreNow, StoreOf
<1>3. i \in DOMAIN calls /\ IsAsked(calls[i]) /\ \A j \in DOMAIN calls : j < i => ~IsAsked(calls[j])
  BY <1>1, <1>2, NextAskedIs DEF ListInv, CallsInv, AreCalls
<1>4. AnsweredWith(calls, calls', i, answer)
  BY <1>1, <1>2, <1>3, AnsweredIs DEF IsAsked, ListInv, CallsInv
<1>5. answer.run = backend'.runs
  OBVIOUS
<1> HIDE DEF answer
<1>6. /\ backend'.run = "active" /\ backend'.settings = backend.settings /\ Configured(backend')
      /\ BackendInv(backend', E)
  <2> DEFINE r == backend.runs + 1
  <2>1. r \in Nat /\ backend' = [backend EXCEPT !.run = "active", !.runs = r] /\ "active" \in Runs
    BY <1>1, <1>2 DEF BackendInv, Runs
  <2> HIDE DEF r
  <2>2. /\ backend'.up = backend.up /\ backend'.run = "active" /\ backend'.version = backend.version
        /\ backend'.tree = backend.tree /\ backend'.settings = backend.settings
        /\ backend' \in [up : BOOLEAN, run : Runs, version : Nat, tree : Nat, settings : {backend.settings},
                         runs : Nat]
    BY <1>2, <2>1 DEF BackendInv
  <2> QED
    BY <1>1, <1>2, <2>2 DEF BackendInv, Configured
<1>7. EventsInv(events', backend', lastRun) /\ ~OnlyEnds(events') /\ (Died(events') <=> Died(events))
  BY <1>1, <1>2, <1>6, StateNews
<1>8. /\ Advanced(calls, calls', i) /\ calls'[i].stage = "answered" /\ calls'[i].answer = answer
      /\ calls'[i].op = "run"
  BY <1>1, <1>4 DEF AnsweredWith, Advanced
<1>9. ASSUME NEW j \in DOMAIN calls, j # i
      PROVE  \/ j < i /\ ~IsAsked(calls[j]) /\ InTurn(calls[j], calls[i])
             \/ i < j /\ IsAsked(calls[j]) /\ InTurn(calls[i], calls[j])
  BY <1>2, <1>3, <1>9, AskedAfter DEF ListInv
<1>10. ListInv(calls', E, backend', events', connection, loadingConfig, runStarting, matrixChain,
               rejoined, unseen)
  <2> DEFINE c == calls'[i]
  <2>1. FactsOf(c, E, backend', events', rejoined, unseen, calls)
    <3> HIDE DEF c
    <3>0. c.stage = "answered" /\ c.answer = answer /\ c.op = "run"
      BY <1>8 DEF c
    <3>1. RunsOf(c, backend')
      BY <1>5, <3>0 DEF RunsOf
    <3>2. BareOf(c, backend', events', calls)
      BY <1>6 DEF BareOf, Bare
    <3>3. ReportOf(c, E) /\ RunOf(c, backend', events', rejoined) /\ LoadingOf(c, backend')
          /\ LoadOf(c, backend', events') /\ TrustOf(c, backend', unseen)
          /\ SettingsOf(c, backend', unseen)
      BY <3>0 DEF ReportOf, RunOf, LoadingOf, LoadOf, TrustOf, TrustedRun, SettingsOf, IsAsked
    <3> QED
      BY <3>1, <3>2, <3>3 DEF FactsOf
  <2>2. ASSUME NEW j \in DOMAIN calls, j # i
        PROVE  FactsOf(calls[j], E, backend', events', rejoined, unseen, calls)
    <3>0. FactsOf(calls[j], E, backend, events, rejoined, unseen, calls)
      BY <1>2 DEF ListInv, FactsInv
    <3>1. LoadOf(calls[j], backend', events')
      BY <1>2, <1>3, <2>2 DEF ListInv, CallsInv, LoadAlone, LoadOf, IsAsked
    <3>2. SettingsOf(calls[j], backend', unseen)
      <4>1. ~(calls[j].op = "settings" /\ calls[j].current /\ IsOk(calls[j]))
        BY <1>1, <1>9, <2>2 DEF InTurn, Follows, IsAsked, IsOk
      <4> QED
        BY <1>1, <1>6, <3>0, <4>1 DEF FactsOf, SettingsOf
    <3>3. RunsOf(calls[j], backend')
      BY <1>1, <1>9, <2>2 DEF RunsOf, InTurn, Follows, IsAsked, IsOk, StartsRun
    <3>4. BareOf(calls[j], backend', events', calls)
      BY <1>6 DEF BareOf, Bare
    <3>5. LoadingOf(calls[j], backend')
      BY <1>1, <3>0 DEF FactsOf, LoadingOf, BusyStates
    <3>6. TrustOf(calls[j], backend', unseen)
      BY <1>1, <1>6, <3>0 DEF FactsOf, TrustOf
    <3>7. RunOf(calls[j], backend', events', rejoined)
      BY <1>7 DEF RunOf
    <3> QED
      BY <3>0, <3>1, <3>2, <3>3, <3>4, <3>5, <3>6, <3>7 DEF FactsOf
  <2>3. backend'.run = "loading" => LoadingThere(calls')
    BY <1>6
  <2> QED
    BY <1>2, <1>8, <2>1, <2>2, <2>3, ServedKeeps
<1>11. /\ NewerInv(calls') /\ (loadingConfig' => LoadThere(calls'))
       /\ CountInv(calls', settingsPending', matrixChain')
       /\ Stray(calls') => Stray(calls)
  BY <1>1, <1>8, ServedRest
<1>12. RunShown(shown, connection, backend', events', rejoined)
  BY <1>7 DEF RunShown
<1>13. BareShown(shown, connection, backend', events', calls')
  BY <1>6 DEF BareShown, Bare
<1>14. SettingsShown(shown, connection, loadingConfig, backend', unseen, calls')
  <2>1. ~Coming(calls, backend)
    BY <1>1, <1>2, <1>3, ComingIsQuiet DEF ListInv
  <2> QED
    BY <1>1, <1>6, <2>1 DEF StoreNow, StoreOf, SettingsShown
<1>15. StoreNow(E)'
  BY <1>1, <1>6, <1>7, <1>10, <1>11, <1>12, <1>13, <1>14 DEF StoreNow, StoreOf
<1>16. ASSUME ~unseen, ~misrun PROVE ~misrun'
  <2>1. TrustOf(calls[i], backend, unseen)
    BY <1>2, <1>3 DEF ListInv, FactsInv, FactsOf
  <2>2. calls[i].arg.trusted => calls[i].arg.settings = backend.settings
    BY <1>1, <1>3, <1>16, <2>1 DEF TrustOf, TrustedRun
  <2> QED
    BY <1>1, <1>16, <2>2
<1> QED
  BY <1>1, <1>15, <1>16

LEMMA LoadingIs ==
    ASSUME NEW cs, AreCalls(cs), NEW i \in DOMAIN cs, IsAsked(cs[i]),
           \A j \in DOMAIN cs : j < i => ~IsAsked(cs[j])
    PROVE  LET R == [cs EXCEPT ![i].stage = "loading"]
           IN Advanced(cs, R, i) /\ R[i].stage = "loading"
<1> DEFINE c == [cs[i] EXCEPT !.stage = "loading"]
           R == [cs EXCEPT ![i].stage = "loading"]
<1>1. IsCall(cs[i])
  BY DEF AreCalls
<1>2. /\ IsCall(c) /\ c.op = cs[i].op /\ c.current = cs[i].current /\ c.latest = cs[i].latest
      /\ c.shared = cs[i].shared /\ c.arg = cs[i].arg /\ c.stage = "loading"
  BY <1>1 DEF IsCall, Stages
<1>3. R = [j \in DOMAIN cs |-> IF j = i THEN c ELSE cs[j]]
  <2>1. cs = [j \in DOMAIN cs |-> cs[j]]
    BY DEF AreCalls, IsList
  <2> QED
    BY <1>1, <2>1 DEF IsCall
<1> HIDE DEF c, R
<1>4. R[i] = c /\ \A j \in DOMAIN cs : j # i => R[j] = cs[j]
  BY <1>3
<1>5. IsList(R) /\ DOMAIN R = DOMAIN cs
  <2>1. R = [j \in DOMAIN cs |-> R[j]]
    BY <1>3
  <2> QED
    BY <2>1, TableIsList DEF AreCalls
<1>6. Advanced(cs, R, i) /\ R[i].stage = "loading"
  BY <1>2, <1>4, <1>5 DEF Advanced, IsAsked
<1> QED
  BY <1>6 DEF R

\* While the UI waits for a load, the load is the only call that is current.
LEMMA LoadIsOnly ==
    ASSUME NEW cs, NEW lc, NEW rs, NEW mc, CallsInv(cs), FlagsInv(cs, lc, rs, mc),
           NEW i \in DOMAIN cs, cs[i].op = "load", cs[i].current
    PROVE  lc /\ \A j \in DOMAIN cs : j # i => ~cs[j].current
<1>1. lc
  BY DEF FlagsInv, FlagsOf
<1>2. ASSUME NEW j \in DOMAIN cs, j # i, cs[j].current PROVE FALSE
  <2>1. cs[j].op = "load"
    BY <1>1, <1>2 DEF FlagsInv, FlagsOf
  <2>2. j < i \/ i < j
    BY <1>2, ListIs DEF CallsInv, AreCalls
  <2> QED
    BY <1>2, <2>1, <2>2 DEF CallsInv, AllInTurn, InTurn, Follows
<1> QED
  BY <1>1, <1>2

LEMMA LoadBeginsKeeps ==
    ASSUME NEW E \in Offsets, StoreNow(E), NEW i, LoadBegins(i)
    PROVE  StoreNow(E)'
<1>1. /\ NextAsked(i) /\ calls[i].op = "load" /\ backend.run \notin BusyStates /\ backend.up
      /\ backend' = [backend EXCEPT !.run = "loading"]
      /\ events' = events \o Published("state", "loading")
      /\ calls' = [calls EXCEPT ![i].stage = "loading"]
      /\ UNCHANGED <<shown, connection, loadingConfig, runStarting, settingsPending,
                     lastRun, matrixChain, rejoined, unseen>>
  BY DEF LoadBegins, Serves, uiFlags, history, IdleBackend
<1>2. ListInv(calls, E, backend, events, connection, loadingConfig, runStarting, matrixChain,
              rejoined, unseen) /\ BackendInv(backend, E) /\ EventsInv(events, backend, lastRun)
  BY DEF StoreNow, StoreOf
<1>3. i \in DOMAIN calls /\ IsAsked(calls[i]) /\ \A j \in DOMAIN calls : j < i => ~IsAsked(calls[j])
  BY <1>1, <1>2, NextAskedIs DEF ListInv, CallsInv, AreCalls
<1>4. Advanced(calls, calls', i) /\ calls'[i].stage = "loading" /\ calls'[i].op = "load"
  <2>1. Advanced(calls, calls', i) /\ calls'[i].stage = "loading"
    BY <1>1, <1>2, <1>3, LoadingIs DEF ListInv, CallsInv
  <2> QED
    BY <1>1, <2>1 DEF Advanced
<1>6. /\ backend'.run = "loading" /\ backend'.settings = backend.settings
      /\ backend'.runs = backend.runs
      /\ Configured(backend') <=> Configured(backend)
      /\ BackendInv(backend', E)
  <2>1. /\ backend'.up = backend.up /\ backend'.run = "loading" /\ backend'.version = backend.version
        /\ backend'.tree = backend.tree /\ backend'.settings = backend.settings
        /\ backend'.runs = backend.runs
        /\ backend' \in [up : BOOLEAN, run : Runs, version : Nat, tree : Nat, settings : {backend.settings},
                         runs : Nat]
    BY <1>1, <1>2 DEF BackendInv, Runs
  <2> QED
    BY <1>1, <1>2, <2>1 DEF BackendInv, Configured
<1>7. EventsInv(events', backend', lastRun) /\ ~OnlyEnds(events') /\ (Died(events') <=> Died(events))
  BY <1>1, <1>2, <1>6, StateNews
<1>9. ASSUME NEW j \in DOMAIN calls, j # i
      PROVE  \/ j < i /\ ~IsAsked(calls[j]) /\ InTurn(calls[j], calls[i])
             \/ i < j /\ IsAsked(calls[j]) /\ InTurn(calls[i], calls[j])
  BY <1>2, <1>3, <1>9, AskedAfter DEF ListInv
<1>9a. \A j \in DOMAIN calls : calls[j].stage # "loading"
  BY <1>1, <1>2 DEF ListInv, FactsInv, FactsOf, LoadingOf, BusyStates
<1>10. ListInv(calls', E, backend', events', connection, loadingConfig, runStarting, matrixChain,
               rejoined, unseen)
  <2> DEFINE c == calls'[i]
  <2>1. FactsOf(c, E, backend', events', rejoined, unseen, calls)
    <3> HIDE DEF c
    <3>0. c.stage = "loading" /\ c.op = "load"
      BY <1>4 DEF c
    <3> QED
      BY <1>6, <3>0 DEF FactsOf, ReportOf, LoadingOf, RunOf, LoadOf, SettingsOf, BareOf, TrustOf,
                        TrustedRun, RunsOf, IsOk
  <2>2. ASSUME NEW j \in DOMAIN calls, j # i
        PROVE  FactsOf(calls[j], E, backend', events', rejoined, unseen, calls)
    <3>0. FactsOf(calls[j], E, backend, events, rejoined, unseen, calls)
      BY <1>2 DEF ListInv, FactsInv
    <3>1. LoadOf(calls[j], backend', events')
      BY <1>2, <1>3, <2>2 DEF ListInv, CallsInv, LoadAlone, LoadOf, IsAsked
    <3>2. SettingsOf(calls[j], backend', unseen)
      <4>1. ~(calls[j].op = "settings" /\ calls[j].current /\ IsOk(calls[j]))
        <5>1. ASSUME calls[j].current, IsOk(calls[j]) PROVE calls[i].current
          BY <1>9, <2>2, <5>1 DEF InTurn, Follows, IsAsked, IsOk
        <5>2. calls[i].current => ~calls[j].current
          BY <1>1, <1>2, <1>3, <2>2, LoadIsOnly DEF ListInv
        <5> QED
          BY <5>1, <5>2
      <4> QED
        BY <1>6, <3>0, <4>1 DEF FactsOf, SettingsOf
    <3>4. BareOf(calls[j], backend', events', calls)
      BY <1>6, <1>7, <3>0 DEF FactsOf, BareOf, Bare
    <3>5. LoadingOf(calls[j], backend')
      BY <1>9a DEF LoadingOf
    <3>6. TrustOf(calls[j], backend', unseen)
      BY <1>1, <1>3, <1>9, <2>2 DEF TrustOf, TrustedRun, InTurn, Follows
    <3>7. RunOf(calls[j], backend', events', rejoined)
      BY <1>7 DEF RunOf
    <3>8. RunsOf(calls[j], backend')
      BY <1>6, <3>0 DEF FactsOf, RunsOf
    <3> QED
      BY <3>0, <3>1, <3>2, <3>4, <3>5, <3>6, <3>7, <3>8 DEF FactsOf
  <2>3. backend'.run = "loading" => LoadingThere(calls')
    BY <1>4, AdvancedRest
  <2> QED
    BY <1>2, <1>4, <1>9a, <2>1, <2>2, <2>3, ServedKeeps DEF IsOk
<1>11. /\ NewerInv(calls') /\ (loadingConfig' => LoadThere(calls'))
       /\ CountInv(calls', settingsPending', matrixChain')
       /\ Stray(calls') => Stray(calls)
  BY <1>1, <1>4, ServedRest
<1>12. RunShown(shown, connection, backend', events', rejoined)
  BY <1>7 DEF RunShown
<1>13. BareShown(shown, connection, backend', events', calls')
  BY <1>6, <1>7, <1>11 DEF StoreNow, StoreOf, BareShown, Bare
<1>14. SettingsShown(shown, connection, loadingConfig, backend', unseen, calls')
  <2>1. ASSUME connection = "ok", ~loadingConfig PROVE FALSE
    <3>1. calls[i].current
      BY <1>2, <1>3, <2>1 DEF ListInv, AskedInv
    <3> QED
      BY <1>1, <1>2, <1>3, <2>1, <3>1, LoadIsOnly DEF ListInv
  <2> QED
    BY <2>1 DEF SettingsShown, Online
<1> QED
  BY <1>1, <1>6, <1>7, <1>10, <1>11, <1>12, <1>13, <1>14 DEF StoreNow, StoreOf

LEMMA LoadFailsKeeps ==
    ASSUME NEW E \in Offsets, StoreNow(E), NEW i, LoadEnds(i, "failed")
    PROVE  StoreNow(E)'
<1> DEFINE answer == Fault
<1>1. /\ i \in DOMAIN calls /\ calls[i].stage = "loading"
      /\ backend' = [backend EXCEPT !.run = "failed"]
      /\ events' = events \o Published("state", "failed")
      /\ calls' = [calls EXCEPT ![i].stage = "answered", ![i].answer = answer]
      /\ unseen => unseen'
      /\ UNCHANGED <<shown, connection, loadingConfig, runStarting, settingsPending,
                     lastRun, matrixChain, rejoined>>
  <2>1. "failed" # "ready"
    OBVIOUS
  <2> QED
    BY <2>1 DEF LoadEnds, Answered, uiFlags
<1>2. ListInv(calls, E, backend, events, connection, loadingConfig, runStarting, matrixChain,
              rejoined, unseen) /\ BackendInv(backend, E) /\ EventsInv(events, backend, lastRun)
  BY DEF StoreNow, StoreOf
<1>3. calls[i].op = "load" /\ backend.run = "loading"
  BY <1>1, <1>2 DEF ListInv, FactsInv, FactsOf, LoadingOf
<1>4. AnsweredWith(calls, calls', i, answer)
  BY <1>1, <1>2, AnsweredIs DEF IsAsked, ListInv, CallsInv
<1>5. Advanced(calls, calls', i) /\ calls'[i].stage = "answered" /\ ~IsOk(calls'[i])
  BY <1>4 DEF AnsweredWith, IsOk, Fault
<1>6. /\ backend'.run = "failed" /\ backend'.settings = backend.settings
      /\ backend'.runs = backend.runs
      /\ Configured(backend') <=> Configured(backend)
      /\ BackendInv(backend', E)
  <2>1. /\ backend'.up = backend.up /\ backend'.run = "failed" /\ backend'.version = backend.version
        /\ backend'.tree = backend.tree /\ backend'.settings = backend.settings
        /\ backend'.runs = backend.runs
        /\ backend' \in [up : BOOLEAN, run : Runs, version : Nat, tree : Nat, settings : {backend.settings},
                         runs : Nat]
    BY <1>1, <1>2 DEF BackendInv, Runs
  <2>2. backend.up
    BY <1>2, <1>3 DEF BackendInv
  <2> QED
    BY <1>1, <1>2, <2>1, <2>2 DEF BackendInv, Configured
<1>7. EventsInv(events', backend', lastRun) /\ ~OnlyEnds(events') /\ (Died(events') <=> Died(events))
  BY <1>1, <1>2, <1>6, StateNews
<1>8. ASSUME NEW j \in DOMAIN calls, j # i PROVE calls[j].stage # "loading"
  <2>1. j < i \/ i < j
    BY <1>1, <1>2, <1>8, ListIs DEF ListInv, CallsInv, AreCalls
  <2> QED
    BY <1>1, <1>2, <2>1 DEF ListInv, CallsInv, AllInTurn, InTurn, Follows
<1>10. ListInv(calls', E, backend', events', connection, loadingConfig, runStarting, matrixChain,
               rejoined, unseen')
  <2>1. FactsOf(calls'[i], E, backend', events', rejoined, unseen', calls)
    BY <1>5, NoAnswerFacts
  <2>2. ASSUME NEW j \in DOMAIN calls, j # i
        PROVE  FactsOf(calls[j], E, backend', events', rejoined, unseen', calls)
    <3>0. FactsOf(calls[j], E, backend, events, rejoined, unseen, calls)
      BY <1>2 DEF ListInv, FactsInv
    <3>1. LoadOf(calls[j], backend', events')
      BY <1>1, <1>2, <2>2 DEF ListInv, CallsInv, LoadAlone, LoadOf
    <3>2. SettingsOf(calls[j], backend', unseen')
      BY <1>1, <1>6, <3>0 DEF FactsOf, SettingsOf, BusyStates
    <3>4. BareOf(calls[j], backend', events', calls)
      BY <1>6, <1>7, <3>0 DEF FactsOf, BareOf, Bare
    <3>5. LoadingOf(calls[j], backend')
      BY <1>8, <2>2 DEF LoadingOf
    <3>6. TrustOf(calls[j], backend', unseen')
      BY <1>1, <1>3, <1>6, <3>0 DEF FactsOf, TrustOf
    <3>7. RunOf(calls[j], backend', events', rejoined)
      BY <1>7 DEF RunOf
    <3>8. RunsOf(calls[j], backend')
      BY <1>6, <3>0 DEF FactsOf, RunsOf
    <3> QED
      BY <3>0, <3>1, <3>2, <3>4, <3>5, <3>6, <3>7, <3>8 DEF FactsOf
  <2>3. backend'.run = "loading" => LoadingThere(calls')
    BY <1>6
  <2> QED
    BY <1>2, <1>5, <2>1, <2>2, <2>3, ServedKeeps
<1>11. /\ NewerInv(calls') /\ (loadingConfig' => LoadThere(calls'))
       /\ CountInv(calls', settingsPending', matrixChain')
       /\ Stray(calls') => Stray(calls)
  BY <1>1, <1>5, ServedRest
<1>12. RunShown(shown, connection, backend', events', rejoined)
  BY <1>7 DEF RunShown
<1>13. BareShown(shown, connection, backend', events', calls')
  BY <1>6, <1>7, <1>11 DEF StoreNow, StoreOf, BareShown, Bare
<1>14. ASSUME Coming(calls, backend) PROVE Coming(calls', backend')
  <2>1. Coming(calls', backend)
    BY <1>3, <1>5, <1>14, AdvancedRest
  <2>2. PICK w \in DOMAIN calls' : Brings(calls', w, backend)
    BY <2>1 DEF Coming
  <2>3. Brings(calls', w, backend')
    BY <1>3, <2>2 DEF Brings, BusyStates
  <2> QED
    BY <2>3 DEF Coming
<1>15. SettingsShown(shown, connection, loadingConfig, backend', unseen', calls')
  BY <1>1, <1>6, <1>14 DEF StoreNow, StoreOf, SettingsShown
<1> QED
  BY <1>1, <1>6, <1>7, <1>10, <1>11, <1>12, <1>13, <1>15 DEF StoreNow, StoreOf

\* A backend that had no configuration counts from here on.
LoadedOffset(b, E) == IF Configured(b) THEN E ELSE b.tree

LEMMA LoadSucceedsKeeps ==
    ASSUME NEW E \in Offsets, StoreNow(E), NEW i, LoadEnds(i, "ready")
    PROVE  \E E2 \in Offsets : StoreNow(E2)'
<1> DEFINE answer == Snapshot(backend')
<1>0. PICK E2 : E2 = LoadedOffset(backend, E)
  OBVIOUS
<1>1. /\ i \in DOMAIN calls /\ calls[i].stage = "loading"
      /\ backend' = [Moved(backend) EXCEPT !.run = "ready", !.settings = {}]
      /\ events' = events \o Published("state", "ready")
      /\ calls' = [calls EXCEPT ![i].stage = "answered", ![i].answer = answer]
      /\ unseen => unseen'
      /\ Configured(backend) /\ ~calls[i].current => unseen'
      /\ UNCHANGED <<shown, connection, loadingConfig, runStarting, settingsPending,
                     lastRun, matrixChain, rejoined>>
  BY DEF LoadEnds, Answered, uiFlags, Loaded, Configured
<1>2. ListInv(calls, E, backend, events, connection, loadingConfig, runStarting, matrixChain,
              rejoined, unseen) /\ BackendInv(backend, E) /\ EventsInv(events, backend, lastRun)
  BY DEF StoreNow, StoreOf
<1>3. calls[i].op = "load" /\ backend.run = "loading"
  BY <1>1, <1>2 DEF ListInv, FactsInv, FactsOf, LoadingOf
<1>4. AnsweredWith(calls, calls', i, answer)
  BY <1>1, <1>2, AnsweredIs DEF IsAsked, ListInv, CallsInv
<1>5. /\ Advanced(calls, calls', i) /\ calls'[i].stage = "answered" /\ calls'[i].answer = answer
      /\ calls'[i].op = "load" /\ calls'[i].current = calls[i].current
  BY <1>3, <1>4 DEF AnsweredWith, Advanced
<1>6. /\ backend'.run = "ready" /\ backend'.settings = {} /\ backend'.runs = backend.runs
      /\ Configured(backend')
      /\ E2 \in Offsets /\ (Configured(backend) => E2 = E)
      /\ BackendInv(backend', E2)
  <2> DEFINE m == Moved(backend)
  <2>1. /\ Configured(m) /\ m.version = backend.version + 1 /\ m.tree = backend.tree + 1
        /\ m.tree # Garbage /\ m.up = backend.up /\ m.runs = backend.runs
        /\ m \in [up : BOOLEAN, run : Runs, version : Nat, tree : Nat, settings : {backend.settings},
                  runs : Nat]
    BY <1>2, MovedIs
  <2> HIDE DEF m
  <2>2. backend' = [m EXCEPT !.run = "ready", !.settings = {}]
    BY <1>1 DEF m
  <2>3. /\ backend'.up = m.up /\ backend'.run = "ready" /\ backend'.version = m.version
        /\ backend'.tree = m.tree /\ backend'.settings = {} /\ backend'.runs = m.runs
        /\ backend' \in [up : BOOLEAN, run : Runs, version : Nat, tree : Nat, settings : {backend'.settings},
                         runs : Nat]
    BY <2>1, <2>2 DEF Runs
  <2>4. backend.up
    BY <1>2, <1>3 DEF BackendInv
  <2>5. backend.version \in Nat /\ backend.tree \in Nat /\ E \in Nat
    BY <1>2 DEF BackendInv, Offsets
  <2>6. E2 \in Offsets
    BY <1>0, <1>2, <2>5 DEF LoadedOffset, Offsets, BackendInv, Garbage
  <2>7. backend'.tree = backend'.version + E2
    <3>1. CASE Configured(backend)
      <4>1. backend.tree = backend.version + E
        BY <1>2, <3>1 DEF BackendInv
      <4> QED
        BY <1>0, <2>1, <2>3, <2>5, <3>1, <4>1 DEF LoadedOffset
    <3>2. CASE ~Configured(backend)
      <4>1. backend.version = 0
        BY <3>2 DEF Configured, NoVersion
      <4> QED
        BY <1>0, <2>1, <2>3, <2>5, <3>2, <4>1 DEF LoadedOffset
    <3> QED
      BY <3>1, <3>2
  <2>8. Configured(backend')
    BY <2>1, <2>3 DEF Configured
  <2>9. Configured(backend) => E2 = E
    BY <1>0 DEF LoadedOffset
  <2>10. BackendInv(backend', E2)
    BY <2>1, <2>3, <2>4, <2>7, <2>8 DEF BackendInv
  <2> QED
    BY <2>1, <2>3, <2>6, <2>8, <2>9, <2>10
<1>6a. /\ answer.kind = "ok" /\ answer.run = "ready" /\ answer.settings = {}
       /\ answer.tree = backend'.tree /\ answer.version = backend'.version
  BY <1>6 DEF Snapshot, Configured
<1> HIDE DEF answer
<1>7. EventsInv(events', backend', lastRun) /\ ~OnlyEnds(events') /\ (Died(events') <=> Died(events))
  BY <1>1, <1>2, <1>6, StateNews
<1>8. ASSUME NEW j \in DOMAIN calls, j # i
      PROVE  calls[j].stage # "loading" /\ (j < i => ~IsAsked(calls[j])) /\ (j < i \/ InTurn(calls[i], calls[j]))
  <2>1. j < i \/ i < j
    BY <1>1, <1>2, <1>8, ListIs DEF ListInv, CallsInv, AreCalls
  <2> QED
    BY <1>1, <1>2, <2>1 DEF ListInv, CallsInv, AllInTurn, InTurn, Follows, IsAsked
<1>9. calls[i].current => /\ loadingConfig
                          /\ \A j \in DOMAIN calls : j # i => ~calls[j].current /\ calls[j].stage = "answered"
  <2> SUFFICES ASSUME calls[i].current
               PROVE  /\ loadingConfig
                      /\ \A j \in DOMAIN calls : j # i => ~calls[j].current /\ calls[j].stage = "answered"
    OBVIOUS
  <2>1. loadingConfig /\ \A j \in DOMAIN calls : j # i => ~calls[j].current
    BY <1>1, <1>2, <1>3, LoadIsOnly DEF ListInv
  <2>2. ASSUME NEW j \in DOMAIN calls, j # i PROVE calls[j].stage = "answered"
    <3>1. ~IsAsked(calls[j])
      BY <1>8, <2>1, <2>2 DEF InTurn, Follows
    <3>2. calls[j].stage \in Stages
      BY <1>2 DEF ListInv, CallsInv, AreCalls, IsCall
    <3> QED
      BY <1>8, <2>2, <3>1, <3>2 DEF IsAsked, Stages
  <2> QED
    BY <2>1, <2>2
<1>10. ~calls[i].current /\ ~Configured(backend) => Bare(backend, events, calls)
  BY <1>1, <1>3 DEF Bare, Stray
<1>11. ListInv(calls', E2, backend', events', connection, loadingConfig, runStarting, matrixChain,
               rejoined, unseen')
  <2> DEFINE c == calls'[i]
  <2>1. FactsOf(c, E2, backend', events', rejoined, unseen', calls)
    <3> HIDE DEF c
    <3>0. c.stage = "answered" /\ c.answer = answer /\ c.op = "load"
      BY <1>5 DEF c
    <3>1. ReportOf(c, E2)
      BY <1>6, <1>6a, <3>0 DEF ReportOf, BackendInv
    <3>2. LoadOf(c, backend', events')
      BY <1>6, <1>6a, <3>0 DEF LoadOf
    <3>3. BareOf(c, backend', events', calls)
      BY <1>6 DEF BareOf, Bare
    <3>4. RunOf(c, backend', events', rejoined) /\ LoadingOf(c, backend') /\ SettingsOf(c, backend', unseen')
          /\ TrustOf(c, backend', unseen') /\ RunsOf(c, backend')
      BY <3>0 DEF RunOf, LoadingOf, SettingsOf, TrustOf, TrustedRun, RunsOf
    <3> QED
      BY <3>1, <3>2, <3>3, <3>4 DEF FactsOf
  <2>2. ASSUME NEW j \in DOMAIN calls, j # i
        PROVE  FactsOf(calls[j], E2, backend', events', rejoined, unseen', calls)
    <3>0. FactsOf(calls[j], E, backend, events, rejoined, unseen, calls)
      BY <1>2 DEF ListInv, FactsInv
    <3>1. LoadOf(calls[j], backend', events')
      BY <1>1, <1>2, <2>2 DEF ListInv, CallsInv, LoadAlone, LoadOf
    <3>2. LoadingOf(calls[j], backend') /\ RunOf(calls[j], backend', events', rejoined)
      BY <1>7, <1>8, <2>2 DEF LoadingOf, RunOf
    <3>3. RunsOf(calls[j], backend') /\ BareOf(calls[j], backend', events', calls)
      BY <1>6, <3>0 DEF FactsOf, RunsOf, BareOf, Bare
    <3>4. CASE calls[i].current
      <4>1. ReportOf(calls[j], E2) /\ SettingsOf(calls[j], backend', unseen')
        BY <1>9, <2>2, <3>4 DEF ReportOf, SettingsOf
      <4>2. TrustOf(calls[j], backend', unseen')
        BY <1>9, <2>2, <3>4 DEF TrustOf, TrustedRun, IsAsked
      <4> QED
        BY <3>1, <3>2, <3>3, <4>1, <4>2 DEF FactsOf
    <3>5. CASE ~calls[i].current /\ Configured(backend)
      <4>1. ReportOf(calls[j], E2)
        BY <1>6, <3>0, <3>5 DEF FactsOf
      <4>2. SettingsOf(calls[j], backend', unseen') /\ TrustOf(calls[j], backend', unseen')
        BY <1>1, <1>6, <3>5 DEF SettingsOf, TrustOf, BusyStates
      <4> QED
        BY <3>1, <3>2, <3>3, <4>1, <4>2 DEF FactsOf
    <3>6. CASE ~calls[i].current /\ ~Configured(backend)
      <4>1. Bare(backend, events, calls)
        BY <1>10, <3>6
      <4>2. ReportOf(calls[j], E2)
        BY <3>0, <4>1 DEF FactsOf, BareOf, ReportOf
      <4>3. SettingsOf(calls[j], backend', unseen')
        BY <1>6, <3>0, <4>1 DEF FactsOf, BareOf, SettingsOf, BusyStates
      <4>4. TrustOf(calls[j], backend', unseen')
        BY <1>1, <1>2, <1>3, <1>6, <3>0, <3>6 DEF FactsOf, TrustOf, BackendInv
      <4> QED
        BY <3>1, <3>2, <3>3, <4>2, <4>3, <4>4 DEF FactsOf
    <3> QED
      BY <3>4, <3>5, <3>6
  <2>3. backend'.run = "loading" => LoadingThere(calls')
    BY <1>6
  <2>4. calls'[i].op = "load" /\ calls'[i].current /\ IsOk(calls'[i]) =>
           \A j \in DOMAIN calls : j # i => calls[j].stage = "answered"
    BY <1>5, <1>9
  <2> QED
    BY <1>2, <1>5, <2>1, <2>2, <2>3, <2>4, ServedKeeps
<1>12. /\ NewerInv(calls') /\ (loadingConfig' => LoadThere(calls'))
       /\ CountInv(calls', settingsPending', matrixChain')
  BY <1>1, <1>5, ServedRest
<1>13. RunShown(shown, connection, backend', events', rejoined)
  BY <1>7 DEF RunShown
<1>14. BareShown(shown, connection, backend', events', calls')
  BY <1>6 DEF BareShown, Bare
<1>15. TreeShown(shown, connection, loadingConfig, E)
  BY DEF StoreNow, StoreOf
<1>16. BareShown(shown, connection, backend, events, calls)
  BY DEF StoreNow, StoreOf
<1>17. TreeShown(shown, connection, loadingConfig, E2)
  BY <1>6, <1>9, <1>10, <1>15, <1>16 DEF TreeShown, BareShown
<1>18. SettingsShown(shown, connection, loadingConfig, backend', unseen', calls')
  BY <1>1, <1>6, <1>9, <1>10, <1>16 DEF SettingsShown, BareShown
<1>19. StoreNow(E2)'
  BY <1>1, <1>6, <1>7, <1>11, <1>12, <1>13, <1>14, <1>17, <1>18 DEF StoreNow, StoreOf
<1> QED
  BY <1>6, <1>19

LEMMA RunEndsKeeps ==
    ASSUME NEW E \in Offsets, StoreNow(E), RunEnds
    PROVE  StoreNow(E)'
<1> DEFINE mid == events \o Published("state", "ended")
<1>1. /\ backend.run = "active" /\ backend' = [backend EXCEPT !.run = "ended"]
      /\ events' = mid \o Published("run_end", backend.runs)
      /\ UNCHANGED <<shown, calls, connection, loadingConfig, runStarting, settingsPending,
                     lastRun, matrixChain, rejoined, unseen>>
  BY DEF RunEnds, uiFlags, history
<1>2. ListInv(calls, E, backend, events, connection, loadingConfig, runStarting, matrixChain,
              rejoined, unseen) /\ BackendInv(backend, E) /\ EventsInv(events, backend, lastRun)
  BY DEF StoreNow, StoreOf
<1>3. /\ backend'.run = "ended" /\ backend'.settings = backend.settings
      /\ backend'.runs = backend.runs
      /\ Configured(backend) /\ Configured(backend')
      /\ BackendInv(backend', E)
  <2>1. /\ backend'.up = backend.up /\ backend'.run = "ended" /\ backend'.version = backend.version
        /\ backend'.tree = backend.tree /\ backend'.settings = backend.settings
        /\ backend'.runs = backend.runs
        /\ backend' \in [up : BOOLEAN, run : Runs, version : Nat, tree : Nat, settings : {backend.settings},
                         runs : Nat]
    BY <1>1, <1>2 DEF BackendInv, Runs
  <2>2. Configured(backend)
    BY <1>1, <1>2 DEF BackendInv
  <2> QED
    BY <1>1, <1>2, <2>1, <2>2 DEF BackendInv, Configured
<1>4. OneMore(events, mid, [kind |-> "state", value |-> "ended"])
  BY <1>2, OneMoreIs DEF EventsInv
<1>4a. IsList(mid)
  BY <1>4 DEF OneMore
<1> HIDE DEF mid
<1>5. OneMore(mid, events', [kind |-> "run_end", value |-> backend.runs])
  BY <1>1, <1>4a, OneMoreIs
<1>6. EventsInv(events', backend', lastRun) /\ ~OnlyEnds(events')
  <2> DEFINE n == Len(mid) + 1
             m == Len(events) + 1
  <2>1. /\ n \in DOMAIN events' /\ events'[n].kind = "run_end" /\ events'[n].value = backend'.runs
        /\ \A l \in DOMAIN events' : ~(l > n)
    BY <1>3, <1>5 DEF OneMore
  <2>2. /\ m \in DOMAIN events' /\ events'[m].kind = "state" /\ events'[m].value = "ended"
        /\ \A k \in DOMAIN events' : k # m /\ k # n => k \in DOMAIN events /\ events'[k] = events[k] /\ m > k
    BY <1>4, <1>5 DEF OneMore
  <2> HIDE DEF n, m
  <2>3. ~OnlyEnds(events')
    BY <2>2 DEF OnlyEnds
  <2>4. EventsInv(events', backend', lastRun)
    BY <1>2, <1>3, <1>5, <2>1, <2>2 DEF EventsInv, OneMore
  <2> QED
    BY <2>3, <2>4
<1>7. FactsInv(calls, E, backend', events', rejoined, unseen)
  <2> SUFFICES ASSUME NEW j \in DOMAIN calls
               PROVE  FactsOf(calls[j], E, backend', events', rejoined, unseen, calls)
    BY DEF FactsInv
  <2>0. FactsOf(calls[j], E, backend, events, rejoined, unseen, calls)
    BY <1>2 DEF ListInv, FactsInv
  <2>1. LoadOf(calls[j], backend', events')
    BY <1>1, <1>3, <2>0 DEF FactsOf, LoadOf
  <2>2. SettingsOf(calls[j], backend', unseen)
    BY <1>3, <2>0 DEF FactsOf, SettingsOf, BusyStates
  <2>3. BareOf(calls[j], backend', events', calls)
    BY <1>3 DEF BareOf, Bare
  <2>4. LoadingOf(calls[j], backend') /\ RunOf(calls[j], backend', events', rejoined)
        /\ TrustOf(calls[j], backend', unseen) /\ RunsOf(calls[j], backend')
    BY <1>1, <1>3, <1>6, <2>0 DEF FactsOf, LoadingOf, RunOf, TrustOf, RunsOf
  <2> QED
    BY <2>0, <2>1, <2>2, <2>3, <2>4 DEF FactsOf
<1>8. ListInv(calls, E, backend', events', connection, loadingConfig, runStarting, matrixChain,
              rejoined, unseen)
  BY <1>2, <1>3, <1>7 DEF ListInv
<1>9. RunShown(shown, connection, backend', events', rejoined)
      /\ BareShown(shown, connection, backend', events', calls)
  BY <1>3, <1>6 DEF RunShown, BareShown, Bare
<1>10. ASSUME Coming(calls, backend) PROVE Coming(calls, backend')
  <2>1. PICK w \in DOMAIN calls : Brings(calls, w, backend)
    BY <1>10 DEF Coming
  <2>2. Brings(calls, w, backend')
    BY <1>1, <2>1 DEF Brings, BusyStates
  <2> QED
    BY <2>2 DEF Coming
<1>11. SettingsShown(shown, connection, loadingConfig, backend', unseen, calls)
  BY <1>3, <1>10 DEF StoreNow, StoreOf, SettingsShown
<1> QED
  BY <1>1, <1>3, <1>6, <1>8, <1>9, <1>11 DEF StoreNow, StoreOf

LEMMA BackendDiesKeeps ==
    ASSUME NEW E \in Offsets, StoreNow(E), BackendDies
    PROVE  StoreNow(E)'
<1>1. /\ backend' = [backend EXCEPT !.up = FALSE, !.run = "idle", !.settings = {}, !.version = NoVersion]
      /\ calls' = [i \in DOMAIN calls |->
                     IF calls[i].stage = "answered" THEN calls[i]
                     ELSE [calls[i] EXCEPT !.stage = "answered", !.answer = Fault]]
      /\ events' = events \o Published("died", 0)
      /\ UNCHANGED <<shown, connection, loadingConfig, runStarting, settingsPending,
                     lastRun, matrixChain, rejoined, unseen>>
  BY DEF BackendDies, uiFlags, history
<1>2. ListInv(calls, E, backend, events, connection, loadingConfig, runStarting, matrixChain,
              rejoined, unseen) /\ BackendInv(backend, E) /\ EventsInv(events, backend, lastRun)
  BY DEF StoreNow, StoreOf
<1>3. /\ backend'.run = "idle" /\ ~Configured(backend') /\ backend'.runs = backend.runs
      /\ BackendInv(backend', E)
  <2>1. /\ backend'.up = FALSE /\ backend'.run = "idle" /\ backend'.version = NoVersion
        /\ backend'.tree = backend.tree /\ backend'.settings = {}
        /\ backend'.runs = backend.runs
        /\ backend' \in [up : BOOLEAN, run : Runs, version : Nat, tree : Nat, settings : {backend'.settings},
                         runs : Nat]
    BY <1>1, <1>2 DEF BackendInv, Runs, NoVersion
  <2> QED
    BY <1>2, <2>1 DEF BackendInv, Configured
<1>4. OneMore(events, events', [kind |-> "died", value |-> 0])
  BY <1>1, <1>2, OneMoreIs DEF EventsInv
<1>5. EventsInv(events', backend', lastRun) /\ Died(events') /\ ~OnlyEnds(events')
  <2>1. Len(events) + 1 \in DOMAIN events' /\ events'[Len(events) + 1].kind = "died"
    BY <1>4 DEF OneMore
  <2>2. EventsInv(events', backend', lastRun)
    BY <1>2, <1>3, <1>4 DEF EventsInv, OneMore
  <2> QED
    BY <2>1, <2>2 DEF Died, OnlyEnds
<1>6. IsList(calls') /\ DOMAIN calls' = DOMAIN calls
  <2>1. calls' = [i \in DOMAIN calls |-> calls'[i]]
    BY <1>1
  <2> QED
    BY <1>2, <2>1, TableIsList DEF ListInv, CallsInv, AreCalls
<1>7. ASSUME NEW i \in DOMAIN calls
      PROVE  /\ IsCall(calls'[i]) /\ calls'[i].op = calls[i].op /\ calls'[i].current = calls[i].current
             /\ calls'[i].latest = calls[i].latest /\ calls'[i].shared = calls[i].shared
             /\ calls'[i].arg = calls[i].arg /\ calls'[i].stage = "answered"
             /\ calls'[i] = calls[i] \/ ~IsOk(calls'[i])
  <2>1. IsCall(calls[i])
    BY <1>2 DEF ListInv, CallsInv, AreCalls
  <2>2. calls'[i] = IF calls[i].stage = "answered" THEN calls[i]
                    ELSE [calls[i] EXCEPT !.stage = "answered", !.answer = Fault]
    BY <1>1
  <2>3. CASE calls[i].stage = "answered"
    BY <2>1, <2>2, <2>3
  <2>4. CASE calls[i].stage # "answered"
    <3> DEFINE f == Fault
    <3>1. calls'[i] = [calls[i] EXCEPT !.stage = "answered", !.answer = f] /\ f.kind # "ok"
      BY <2>2, <2>4 DEF Fault
    <3> HIDE DEF f
    <3>2. /\ IsCall(calls'[i]) /\ calls'[i].op = calls[i].op /\ calls'[i].current = calls[i].current
          /\ calls'[i].latest = calls[i].latest /\ calls'[i].shared = calls[i].shared
          /\ calls'[i].arg = calls[i].arg /\ calls'[i].stage = "answered" /\ calls'[i].answer = f
      BY <2>1, <3>1 DEF IsCall, Stages
    <3> QED
      BY <3>1, <3>2 DEF IsOk
  <2> QED
    BY <2>3, <2>4
<1>8. CallsInv(calls')
  <2>1. AreCalls(calls')
    BY <1>6, <1>7 DEF AreCalls
  <2>2. ASSUME NEW i \in DOMAIN calls', NEW j \in DOMAIN calls', i < j PROVE InTurn(calls'[i], calls'[j])
    <3>1. InTurn(calls[i], calls[j])
      BY <1>2, <1>6, <2>2 DEF ListInv, CallsInv, AllInTurn
    <3> QED
      BY <1>6, <1>7, <3>1 DEF InTurn, Follows, IsAsked, StartsRun, OfMatrix, TrustedRun
  <2>3. LoadAlone(calls')
    BY <1>6, <1>7 DEF LoadAlone
  <2> QED
    BY <2>1, <2>2, <2>3 DEF CallsInv, AllInTurn
<1>9. FlagsInv(calls', loadingConfig, runStarting, matrixChain)
  BY <1>2, <1>6, <1>7 DEF ListInv, FlagsInv, FlagsOf, StartsRun, OfMatrix
<1>10. AskedInv(calls', connection, loadingConfig) /\ NewerInv(calls') /\ ~Stray(calls')
  BY <1>6, <1>7 DEF AskedInv, NewerInv, Stray, IsAsked
<1>11. FactsInv(calls', E, backend', events', rejoined, unseen)
  <2> SUFFICES ASSUME NEW j \in DOMAIN calls
               PROVE  FactsOf(calls'[j], E, backend', events', rejoined, unseen, calls')
    BY <1>6 DEF FactsInv
  <2>0. FactsOf(calls[j], E, backend, events, rejoined, unseen, calls)
    BY <1>2 DEF ListInv, FactsInv
  <2>1. CASE ~IsOk(calls'[j])
    BY <1>7, <2>1, NoAnswerFacts
  <2>2. CASE calls'[j] = calls[j]
    <3>1. /\ ReportOf(calls[j], E) /\ RunsOf(calls[j], backend')
      BY <1>3, <2>0 DEF FactsOf, RunsOf
    <3>2. LoadOf(calls[j], backend', events') /\ RunOf(calls[j], backend', events', rejoined)
      BY <1>3, <1>5, <2>0 DEF FactsOf, LoadOf, RunOf
    <3>3. SettingsOf(calls[j], backend', unseen) /\ BareOf(calls[j], backend', events', calls')
      BY <1>3, <1>5, <1>10 DEF SettingsOf, BareOf, Bare
    <3>4. LoadingOf(calls[j], backend') /\ TrustOf(calls[j], backend', unseen)
      BY <1>7, <2>2 DEF LoadingOf, TrustOf, TrustedRun, IsAsked
    <3> QED
      BY <2>2, <3>1, <3>2, <3>3, <3>4 DEF FactsOf
  <2> QED
    BY <1>7, <2>1, <2>2
<1>12. ListInv(calls', E, backend', events', connection, loadingConfig, runStarting, matrixChain,
               rejoined, unseen)
  BY <1>3, <1>8, <1>9, <1>10, <1>11 DEF ListInv
<1>13. loadingConfig => LoadThere(calls')
  BY <1>6, <1>7 DEF StoreNow, StoreOf, LoadThere
<1>14. CountInv(calls', settingsPending, matrixChain)
  <2>1. Awaited(calls') = Awaited(calls)
    BY <1>6, <1>7 DEF Awaited, Awaits
  <2> QED
    BY <2>1 DEF StoreNow, StoreOf, CountInv, Counted
<1>15. /\ RunShown(shown, connection, backend', events', rejoined)
       /\ BareShown(shown, connection, backend', events', calls')
       /\ SettingsShown(shown, connection, loadingConfig, backend', unseen, calls')
  BY <1>3, <1>5, <1>10 DEF RunShown, BareShown, Bare, SettingsShown
<1> QED
  BY <1>1, <1>3, <1>5, <1>10, <1>12, <1>13, <1>14, <1>15 DEF StoreNow, StoreOf

-----------------------------------------------------------------------------
(* Answers.                                                                 *)

\* R is cs without call i.
RestOf(cs, R, i, b) ==
    /\ \A j \in DOMAIN R : \E k \in DOMAIN cs : /\ k # i /\ Lesser(cs[k], R[j])
                                                 /\ R[j].current = cs[k].current
    /\ NewerInv(R)
    /\ Stray(R) => Stray(cs)
    /\ Coming(cs, b) /\ ~Brings(cs, i, b) => Coming(R, b)
    /\ LoadThere(cs) /\ ~(cs[i].op = "load" /\ cs[i].current) => LoadThere(R)
    /\ \A n \in Nat : Counted(cs, n) =>
          LET m == IF Awaits(cs[i]) THEN n - 1 ELSE n IN m \in Nat /\ Counted(R, m)
    /\ cs[i].current /\ StartsRun(cs[i]) => \A j \in DOMAIN R : ~(R[j].current /\ StartsRun(R[j]))
    /\ cs[i].current /\ OfMatrix(cs[i]) => \A j \in DOMAIN R : ~(R[j].current /\ OfMatrix(R[j]))

LEMMA RemovedKeeps ==
    ASSUME NEW cs, NEW E, NEW b, NEW ev, NEW conn, NEW lc, NEW rs, NEW mc, NEW rj, NEW un,
           ListInv(cs, E, b, ev, conn, lc, rs, mc, rj, un), NewerInv(cs),
           NEW i \in DOMAIN cs, cs[i].stage = "answered"
    PROVE  /\ ListInv(RemoveAt(cs, i), E, b, ev, conn, lc, rs, mc, rj, un)
           /\ RestOf(cs, RemoveAt(cs, i), i, b)
<1> DEFINE R == RemoveAt(cs, i)
           h == Before(cs, i)
<1>1. Faithful(cs, R, h, {i})
  BY RemovedIs DEF ListInv, CallsInv
<1> HIDE DEF R, h
<1>2. /\ ListInv(R, E, b, ev, conn, lc, rs, mc, rj, un) /\ NewerInv(R)
      /\ Stray(R) => Stray(cs)
  BY <1>1, FaithfulKeeps
<1>3. \A j \in DOMAIN R : /\ h[j] \in DOMAIN cs /\ h[j] # i /\ Lesser(cs[h[j]], R[j])
                          /\ R[j].current = cs[h[j]].current
  BY <1>1 DEF Faithful, Thinned, SameOwner
<1>4. /\ Coming(cs, b) /\ ~Brings(cs, i, b) => Coming(R, b)
      /\ LoadThere(cs) /\ ~(cs[i].op = "load" /\ cs[i].current) => LoadThere(R)
  BY <1>1, FaithfulComing, FaithfulThere
<1>5. ASSUME NEW n \in Nat, Counted(cs, n)
      PROVE  LET m == IF Awaits(cs[i]) THEN n - 1 ELSE n IN m \in Nat /\ Counted(R, m)
  <2> DEFINE m == IF Awaits(cs[i]) THEN n - 1 ELSE n
  <2>1. Counted(R, m)
    BY <1>1, <1>5, FaithfulCount DEF ListInv, CallsInv, AreCalls
  <2> HIDE DEF m
  <2>2. m \in Nat
    BY <2>1, FS_CardinalityType DEF Counted
  <2> QED
    BY <2>1, <2>2 DEF m
<1>6. ASSUME NEW k \in DOMAIN cs, k # i, cs[k].current, cs[i].current
      PROVE  ~(StartsRun(cs[k]) /\ StartsRun(cs[i])) /\ ~(OfMatrix(cs[k]) /\ OfMatrix(cs[i]))
  <2>1. k < i \/ i < k
    BY <1>6, ListIs DEF ListInv, CallsInv, AreCalls
  <2> QED
    BY <1>6, <2>1 DEF ListInv, CallsInv, AllInTurn, InTurn, Follows
<1>7. ASSUME NEW j \in DOMAIN R, cs[i].current, R[j].current
      PROVE  ~(StartsRun(R[j]) /\ StartsRun(cs[i])) /\ ~(OfMatrix(R[j]) /\ OfMatrix(cs[i]))
  <2>1. /\ StartsRun(R[j]) => StartsRun(cs[h[j]])
        /\ OfMatrix(R[j]) => OfMatrix(cs[h[j]])
    BY <1>3 DEF StartsRun, OfMatrix, Lesser
  <2> QED
    BY <1>3, <1>6, <1>7, <2>1
<1>8. RestOf(cs, R, i, b)
  BY <1>2, <1>3, <1>4, <1>5, <1>7 DEF RestOf
<1> QED
  BY <1>2, <1>8 DEF R

\* The same, of the state.
LEMMA RestIs ==
    ASSUME NEW E, StoreNow(E), NEW i \in DOMAIN calls, calls[i].stage = "answered"
    PROVE  /\ ListInv(Rest(i), E, backend, events, connection, loadingConfig, runStarting, matrixChain,
                      rejoined, unseen)
           /\ RestOf(calls, Rest(i), i, backend)
           /\ FactsOf(calls[i], E, backend, events, rejoined, unseen, calls)
           /\ FlagsOf(calls[i], loadingConfig, runStarting, matrixChain)
           /\ Bare(backend, events, Rest(i)) => Bare(backend, events, calls)
           /\ \A cs : (Stray(cs) <=> Stray(Rest(i))) =>
                 (Bare(backend, events, cs) => Bare(backend, events, calls))
<1>1. ListInv(calls, E, backend, events, connection, loadingConfig, runStarting, matrixChain,
              rejoined, unseen) /\ NewerInv(calls)
  BY DEF StoreNow, StoreOf
<1>2. /\ ListInv(Rest(i), E, backend, events, connection, loadingConfig, runStarting, matrixChain,
                 rejoined, unseen)
      /\ RestOf(calls, Rest(i), i, backend)
  BY <1>1, RemovedKeeps DEF Rest
<1>3. /\ FactsOf(calls[i], E, backend, events, rejoined, unseen, calls)
      /\ FlagsOf(calls[i], loadingConfig, runStarting, matrixChain)
  BY <1>1 DEF ListInv, FactsInv, FlagsInv
<1>4. /\ Bare(backend, events, Rest(i)) => Bare(backend, events, calls)
      /\ \A cs : (Stray(cs) <=> Stray(Rest(i))) =>
            (Bare(backend, events, cs) => Bare(backend, events, calls))
  BY <1>2 DEF RestOf, Bare
<1> QED
  BY <1>2, <1>3, <1>4

LEMMA DropAnswerKeeps ==
    ASSUME NEW E \in Offsets, StoreNow(E), NEW i, DropAnswer(i)
    PROVE  StoreNow(E)'
<1>1. /\ i \in DOMAIN calls /\ calls[i].stage = "answered" /\ ~calls[i].current /\ calls' = Rest(i)
      /\ UNCHANGED <<backend, shown, events, connection, loadingConfig, runStarting, settingsPending,
                     lastRun, matrixChain, rejoined, unseen>>
  BY DEF DropAnswer, uiFlags, history
<1>2. /\ ListInv(Rest(i), E, backend, events, connection, loadingConfig, runStarting, matrixChain,
                 rejoined, unseen)
      /\ RestOf(calls, Rest(i), i, backend)
      /\ Bare(backend, events, Rest(i)) => Bare(backend, events, calls)
  BY <1>1, RestIs
<1>3. ~Awaits(calls[i]) /\ ~Brings(calls, i, backend)
  BY <1>1 DEF Awaits, Brings
<1>4. CountInv(calls', settingsPending, matrixChain)
  BY <1>1, <1>2, <1>3 DEF StoreNow, StoreOf, CountInv, RestOf
<1>5. /\ BareShown(shown, connection, backend, events, calls')
      /\ SettingsShown(shown, connection, loadingConfig, backend, unseen, calls')
      /\ NewerInv(calls') /\ (loadingConfig => LoadThere(calls'))
  BY <1>1, <1>2, <1>3 DEF StoreNow, StoreOf, BareShown, SettingsShown, RestOf
<1> QED
  BY <1>1, <1>2, <1>4, <1>5 DEF StoreNow, StoreOf

LEMMA ShowingIs ==
    ASSUME NEW answer
    PROVE  LET s == Showing(answer)
           IN /\ IsSnapshot(s) /\ s # Nothing
              /\ s.run = answer.run /\ s.version = answer.version /\ s.tree = answer.tree
              /\ s.settings = answer.settings
<1>1. LET s == Showing(answer)
      IN /\ IsSnapshot(s)
         /\ s.run = answer.run /\ s.version = answer.version /\ s.tree = answer.tree
         /\ s.settings = answer.settings
  BY DEF Showing, IsSnapshot
<1>2. Showing(answer) # Nothing
  BY DEF Showing, Nothing
<1> QED
  BY <1>1, <1>2

LEMMA LoadReturnsKeeps ==
    ASSUME NEW E \in Offsets, StoreNow(E), NEW i, LoadReturns(i)
    PROVE  StoreNow(E)'
<1>1. /\ i \in DOMAIN calls /\ calls[i].stage = "answered" /\ calls[i].op = "load" /\ calls[i].current
      /\ calls' = Rest(i) /\ loadingConfig' = FALSE
      /\ IF calls[i].answer.kind = "ok"
         THEN shown' = Showing(calls[i].answer) /\ connection' = "ok" /\ lastRun' = 0
         ELSE connection' = "degraded" /\ shown' = shown /\ lastRun' = lastRun
      /\ UNCHANGED <<backend, events, runStarting, settingsPending, matrixChain, rejoined, unseen>>
  BY DEF LoadReturns, Arrives, history
<1>2. /\ ListInv(Rest(i), E, backend, events, connection, loadingConfig, runStarting, matrixChain,
                 rejoined, unseen)
      /\ RestOf(calls, Rest(i), i, backend)
      /\ FactsOf(calls[i], E, backend, events, rejoined, unseen, calls)
      /\ Bare(backend, events, Rest(i)) => Bare(backend, events, calls)
  BY <1>1, RestIs
<1>3. ListInv(calls, E, backend, events, connection, loadingConfig, runStarting, matrixChain,
              rejoined, unseen) /\ BackendInv(backend, E) /\ EventsInv(events, backend, lastRun)
  BY DEF StoreNow, StoreOf
<1>4. \A j \in DOMAIN calls' : ~calls'[j].current
  <2>1. \A j \in DOMAIN calls : j # i => ~calls[j].current
    BY <1>1, <1>3, LoadIsOnly DEF ListInv
  <2> QED
    BY <1>1, <1>2, <2>1 DEF RestOf
<1>5. connection' = "ok" => IsOk(calls[i])
  BY <1>1 DEF IsOk
<1>6. connection' = "ok" => \A j \in DOMAIN calls' : calls'[j].stage = "answered"
  <2>1. connection' = "ok" => \A j \in DOMAIN calls : calls[j].stage = "answered"
    BY <1>1, <1>3, <1>5 DEF ListInv, CallsInv, LoadAlone
  <2> QED
    BY <1>1, <1>2, <2>1 DEF RestOf, Lesser
<1>7. ListInv(calls', E, backend, events, connection', loadingConfig', runStarting, matrixChain,
              rejoined, unseen)
  <2>1. FlagsInv(calls', loadingConfig', runStarting, matrixChain)
    BY <1>1, <1>2, <1>4 DEF ListInv, FlagsInv, FlagsOf
  <2>2. AskedInv(calls', connection', loadingConfig')
    BY <1>6 DEF AskedInv, IsAsked
  <2> QED
    BY <1>1, <1>2, <2>1, <2>2 DEF ListInv
<1>8. NewerInv(calls') /\ CountInv(calls', settingsPending, matrixChain)
  <2>1. ~Awaits(calls[i])
    BY <1>1 DEF Awaits
  <2> QED
    BY <1>1, <1>2, <2>1 DEF StoreNow, StoreOf, CountInv, RestOf
<1>9. CASE calls[i].answer.kind = "ok"
  <2> DEFINE answer == calls[i].answer
  <2>0. shown' = Showing(answer) /\ connection' = "ok" /\ lastRun' = 0
    BY <1>1, <1>9
  <2> HIDE DEF answer
  <2>1. /\ IsSnapshot(shown') /\ shown' # Nothing
        /\ shown'.run = answer.run /\ shown'.version = answer.version /\ shown'.tree = answer.tree
        /\ shown'.settings = answer.settings
    BY <2>0, ShowingIs
  <2>2. /\ answer.tree # Garbage
        /\ answer.version # NoVersion => answer.tree = answer.version + E
        /\ answer.run = "ready" /\ answer.settings = {}
        /\ Configured(backend) => backend.run = "ready" /\ backend.settings = {}
        /\ ~Configured(backend) => Died(events)
        /\ ~Bare(backend, events, calls)
    BY <1>1, <1>2, <1>9 DEF FactsOf, ReportOf, LoadOf, BareOf, IsOk, answer
  <2>3. TreeShown(shown', connection', loadingConfig', E)
    BY <2>1, <2>2 DEF TreeShown
  <2>4. RunShown(shown', connection', backend, events, rejoined)
    BY <2>1, <2>2 DEF RunShown, OnlyEnds, Died
  <2>5. BareShown(shown', connection', backend, events, calls')
    BY <1>1, <1>2, <2>2 DEF BareShown
  <2>6. SettingsShown(shown', connection', loadingConfig', backend, unseen, calls')
    BY <2>1, <2>2 DEF SettingsShown
  <2>7. EventsInv(events, backend, lastRun')
    <3>1. backend.run # "ended"
      BY <1>3, <2>2 DEF BackendInv
    <3> QED
      BY <1>3, <3>1 DEF EventsInv
  <2> QED
    BY <1>1, <1>7, <1>8, <2>3, <2>4, <2>5, <2>6, <2>7 DEF StoreNow, StoreOf
<1>10. CASE calls[i].answer.kind # "ok"
  <2>1. connection' = "degraded" /\ shown' = shown /\ lastRun' = lastRun
    BY <1>1, <1>10
  <2>2. /\ TreeShown(shown', connection', loadingConfig', E)
        /\ RunShown(shown', connection', backend, events, rejoined)
        /\ BareShown(shown', connection', backend, events, calls')
        /\ SettingsShown(shown', connection', loadingConfig', backend, unseen, calls')
    BY <2>1 DEF TreeShown, RunShown, BareShown, SettingsShown, Online, StoreNow, StoreOf
  <2> QED
    BY <1>1, <1>3, <1>7, <1>8, <2>1, <2>2 DEF StoreNow, StoreOf
<1> QED
  BY <1>9, <1>10

LEMMA LoadRetriesKeeps ==
    ASSUME NEW E \in Offsets, StoreNow(E), NEW i, LoadRetries(i)
    PROVE  StoreNow(E)'
<1> DEFINE n == NewCall("load", {})
           r == Rest(i)
<1>1. /\ i \in DOMAIN calls /\ calls[i].stage = "answered" /\ calls[i].op = "load" /\ calls[i].current
      /\ calls' = Called(r, "load", {})
      /\ UNCHANGED <<backend, shown, events, connection, loadingConfig, runStarting, settingsPending,
                     lastRun, matrixChain, rejoined, unseen>>
  BY DEF LoadRetries, Arrives, uiFlags, history
<1>2. /\ ListInv(r, E, backend, events, connection, loadingConfig, runStarting, matrixChain,
                 rejoined, unseen)
      /\ RestOf(calls, r, i, backend)
      /\ \A cs : (Stray(cs) <=> Stray(r)) =>
            (Bare(backend, events, cs) => Bare(backend, events, calls))
  BY <1>1, RestIs
<1>3. ListInv(calls, E, backend, events, connection, loadingConfig, runStarting, matrixChain,
              rejoined, unseen)
  BY DEF StoreNow, StoreOf
<1>4. n.op = "load" /\ n.current = TRUE /\ n.stage = "asked" /\ n.shared = FALSE
  BY DEF NewCall
<1> HIDE DEF n, r
<1>5. loadingConfig /\ \A j \in DOMAIN r : ~r[j].current
  <2>1. loadingConfig /\ \A j \in DOMAIN calls : j # i => ~calls[j].current
    BY <1>1, <1>3, LoadIsOnly DEF ListInv
  <2> QED
    BY <1>1, <1>2, <2>1 DEF RestOf
<1>6. \A j \in DOMAIN r : Follows(r[j], n) /\ ~(r[j].op = "load" /\ r[j].current)
  BY <1>4, <1>5 DEF Follows, IsAsked, StartsRun, OfMatrix, TrustedRun
<1>7. FlagsOf(n, loadingConfig, runStarting, matrixChain) /\ TrustOf(n, backend, unseen)
  BY <1>4, <1>5 DEF FlagsOf, TrustOf, TrustedRun, StartsRun, OfMatrix
<1>8. /\ ListInv(calls', E, backend, events, connection, loadingConfig, runStarting, matrixChain,
                 rejoined, unseen)
      /\ LoadThere(calls')
      /\ NewerInv(r) => NewerInv(calls')
      /\ \A k \in Nat : Counted(r, k) => Counted(calls', k)
      /\ Stray(calls') <=> Stray(r)
  <2>1. "load" \in Ops /\ "load" # "settings" /\ "load" # "refresh"
    BY DEF Ops
  <2> QED
    BY <1>1, <1>2, <1>6, <1>7, <2>1, CalledKeeps DEF n
<1>9. CountInv(calls', settingsPending, matrixChain)
  <2>1. ~Awaits(calls[i])
    BY <1>1 DEF Awaits
  <2> QED
    BY <1>2, <1>8, <2>1 DEF StoreNow, StoreOf, CountInv, RestOf
<1>10. /\ BareShown(shown, connection, backend, events, calls')
       /\ SettingsShown(shown, connection, loadingConfig, backend, unseen, calls')
       /\ NewerInv(calls')
  BY <1>2, <1>5, <1>8 DEF StoreNow, StoreOf, BareShown, SettingsShown, RestOf
<1> QED
  BY <1>1, <1>8, <1>9, <1>10 DEF StoreNow, StoreOf

\* R is cs with a getSnapshot asked for.
RefreshedTo(cs, R, then, E, b, ev, conn, lc, rs, mc, rj, un) ==
    /\ ListInv(R, E, b, ev, conn, lc, rs, mc, rj, un)
    /\ NewerInv(cs) => NewerInv(R)
    /\ Coming(cs, b) => Coming(R, b)
    /\ \A k \in Nat : Counted(cs, k) => Counted(R, IF "matrix" \in then THEN k + 1 ELSE k)
    /\ Stray(R) <=> Stray(cs)

LEMMA RefreshKeeps ==
    ASSUME NEW cs, NEW E, NEW b, NEW ev, NEW conn, NEW lc, NEW rs, NEW mc, NEW un,
           ListInv(cs, E, b, ev, conn, lc, rs, mc, rejoined, un),
           NEW then, Expected(cs, lc, rs, mc, then), Refresh(cs, then)
    PROVE  RefreshedTo(cs, calls', then, E, b, ev, conn, lc, rs, mc, rejoined', un)
           /\ (rejoined => rejoined')
<1>1. calls' = RefreshedList(cs, then)
      /\ (~rejoined' => ~rejoined /\ \A i \in Joinable(cs) : cs[i].latest)
  BY DEF Refresh, RefreshedList
<1>2. LET R == RefreshedList(cs, then)
      IN /\ ListInv(R, E, b, ev, conn, lc, rs, mc, rejoined', un)
         /\ NewerInv(cs) => NewerInv(R)
         /\ Coming(cs, b) => Coming(R, b)
         /\ \A k \in Nat : Counted(cs, k) => Counted(R, IF "matrix" \in then THEN k + 1 ELSE k)
         /\ Stray(R) <=> Stray(cs)
  BY <1>1, RefreshedKeeps
<1> QED
  BY <1>1, <1>2 DEF RefreshedTo

\* R is cs, perhaps with a matrix edit submitted that has waited.
Chained(cs, R, E, b, ev, conn, lc, rs, mc, rj, un) ==
    /\ ListInv(R, E, b, ev, conn, lc, rs, mc, rj, un)
    /\ NewerInv(R)
    /\ Coming(cs, b) /\ Configured(b) => Coming(R, b)
    /\ Stray(R) <=> Stray(cs)

LEMMA ChainKeeps ==
    ASSUME NEW cs, NEW E, NEW b, NEW ev, NEW conn, NEW lc, NEW rs, NEW rj, NEW un,
           ListInv(cs, E, b, ev, conn, lc, rs, matrixChain, rj, un), ~lc, NewerInv(cs),
           NEW n \in Nat, Counted(cs, n),
           matrixChain \in [busy : BOOLEAN, waiting : Seq(MatrixEdits \cup FieldEdits)],
           \A j \in DOMAIN cs : ~(cs[j].current /\ OfMatrix(cs[j])),
           NEW s, ChainAdvances(cs, s)
    PROVE  /\ Chained(cs, calls', E, b, ev, conn, lc, rs, matrixChain', rj, un)
           /\ CountInv(calls', n + Len(matrixChain.waiting), matrixChain')
<1>1. CASE matrixChain.waiting = <<>>
  <2>1. calls' = cs /\ matrixChain' = IdleChain
    BY <1>1 DEF ChainAdvances
  <2>2. FlagsInv(cs, lc, rs, matrixChain')
    BY DEF ListInv, FlagsInv, FlagsOf
  <2>3. ListInv(cs, E, b, ev, conn, lc, rs, matrixChain', rj, un)
    BY <2>2 DEF ListInv
  <2>4. /\ matrixChain' \in [busy : BOOLEAN, waiting : Seq(MatrixEdits \cup FieldEdits)]
        /\ Len(matrixChain'.waiting) = 0 /\ Len(matrixChain.waiting) = 0
    BY <1>1, <2>1 DEF IdleChain
  <2>5. n + Len(matrixChain.waiting) = n + Len(matrixChain'.waiting)
    BY <2>4
  <2>6. CountInv(cs, n + Len(matrixChain.waiting), matrixChain')
    BY <2>4, <2>5 DEF CountInv
  <2> QED
    BY <2>1, <2>3, <2>6 DEF Chained
<1>2. CASE matrixChain.waiting # <<>>
  <2> DEFINE edit == Head(matrixChain.waiting)
             w == Tail(matrixChain.waiting)
  <2>1. calls' = Submitting(cs, s, edit) /\ matrixChain' = [busy |-> TRUE, waiting |-> w]
    BY <1>2 DEF ChainAdvances
  <2>2. matrixChain.waiting \in Seq(MatrixEdits \cup FieldEdits)
    OBVIOUS
  <2>3. w \in Seq(MatrixEdits \cup FieldEdits) /\ Len(w) + 1 = Len(matrixChain.waiting) /\ Len(w) \in Nat
    BY <1>2, <2>2
  <2> HIDE DEF edit, w
  <2>4. /\ matrixChain'.busy = TRUE /\ matrixChain'.waiting = w
        /\ matrixChain' \in [busy : BOOLEAN, waiting : Seq(MatrixEdits \cup FieldEdits)]
    BY <2>1, <2>3
  <2>5. FlagsInv(cs, lc, rs, matrixChain') /\ Submittable(cs, matrixChain', edit)
    BY <2>4 DEF ListInv, FlagsInv, FlagsOf, Submittable
  <2>6. ListInv(cs, E, b, ev, conn, lc, rs, matrixChain', rj, un)
    BY <2>5 DEF ListInv
  <2>7. Submitted(cs, calls', E, b, ev, conn, lc, rs, matrixChain', rj, un)
    BY <2>1, <2>5, <2>6, SubmittingKeeps
  <2>8. CountInv(calls', n + Len(matrixChain.waiting), matrixChain')
    <3>1. n + 1 \in Nat /\ n + Len(matrixChain.waiting) = (n + 1) + Len(matrixChain'.waiting)
      BY <2>3, <2>4
    <3>2. Counted(calls', n + 1)
      BY <2>7 DEF Submitted
    <3> QED
      BY <2>4, <3>1, <3>2 DEF CountInv
  <2> QED
    BY <2>7, <2>8 DEF Submitted, Chained
<1> QED
  BY <1>1, <1>2

LEMMA RefreshReturnsKeeps ==
    ASSUME NEW E \in Offsets, StoreNow(E), NEW i, RefreshReturns(i)
    PROVE  StoreNow(E)'
<1> DEFINE answer == calls[i].answer
           fresh == calls[i].latest /\ answer.kind = "ok"
           r == Rest(i)
<1>1. /\ i \in DOMAIN calls /\ calls[i].stage = "answered" /\ calls[i].op = "refresh" /\ calls[i].current
      /\ shown' = IF fresh THEN Showing(answer) ELSE shown
      /\ connection' = IF ~calls[i].latest THEN connection ELSE IF fresh THEN "ok" ELSE "degraded"
      /\ runStarting' = (runStarting /\ "start" \notin calls[i].arg)
      /\ IF "matrix" \in calls[i].arg
         THEN settingsPending' = settingsPending - 1 /\ ChainAdvances(r, shown')
         ELSE calls' = r /\ UNCHANGED <<settingsPending, matrixChain>>
      /\ UNCHANGED <<backend, events, loadingConfig, lastRun, rejoined, unseen>>
  BY DEF RefreshReturns, Arrives, history
<1>2. /\ ListInv(r, E, backend, events, connection, loadingConfig, runStarting, matrixChain,
                 rejoined, unseen)
      /\ RestOf(calls, r, i, backend)
      /\ FactsOf(calls[i], E, backend, events, rejoined, unseen, calls)
      /\ FlagsOf(calls[i], loadingConfig, runStarting, matrixChain)
      /\ \A cs : (Stray(cs) <=> Stray(r)) =>
            (Bare(backend, events, cs) => Bare(backend, events, calls))
  BY <1>1, RestIs
<1> HIDE DEF r
<1>3. /\ ~loadingConfig
      /\ "start" \in calls[i].arg => \A j \in DOMAIN r : ~(r[j].current /\ StartsRun(r[j]))
      /\ "matrix" \in calls[i].arg => \A j \in DOMAIN r : ~(r[j].current /\ OfMatrix(r[j]))
      /\ ~Brings(calls, i, backend)
      /\ Awaits(calls[i]) <=> "matrix" \in calls[i].arg
  BY <1>1, <1>2 DEF FlagsOf, RestOf, StartsRun, OfMatrix, Brings, Awaits
<1>4. ListInv(r, E, backend, events, connection', loadingConfig, runStarting', matrixChain,
              rejoined, unseen)
  <2>1. FlagsInv(r, loadingConfig, runStarting', matrixChain)
    BY <1>1, <1>2, <1>3 DEF ListInv, FlagsInv, FlagsOf
  <2>2. AskedInv(r, connection', loadingConfig)
    <3>1. \A j \in DOMAIN calls : ~calls[j].current => ~IsAsked(calls[j])
      <4> SUFFICES ASSUME NEW j \in DOMAIN calls, ~calls[j].current, IsAsked(calls[j]) PROVE FALSE
        OBVIOUS
      <4>1. CallsInv(calls)
        BY DEF StoreNow, StoreOf, ListInv
      <4>2. j < i \/ i < j
        BY <1>1, <4>1, ListIs DEF CallsInv, AreCalls
      <4> QED
        BY <1>1, <4>1, <4>2 DEF CallsInv, AllInTurn, InTurn, Follows, IsAsked
    <3> QED
      BY <1>2, <3>1 DEF AskedInv, RestOf, Lesser, IsAsked
  <2> QED
    BY <1>2, <2>1, <2>2 DEF ListInv
<1>5. /\ ListInv(calls', E, backend, events, connection', loadingConfig, runStarting', matrixChain',
                 rejoined, unseen)
      /\ NewerInv(calls')
      /\ Coming(r, backend) /\ Configured(backend) => Coming(calls', backend)
      /\ Stray(calls') <=> Stray(r)
      /\ CountInv(calls', settingsPending', matrixChain')
  <2>1. matrixChain \in [busy : BOOLEAN, waiting : Seq(MatrixEdits \cup FieldEdits)]
    BY DEF StoreNow, StoreOf, CountInv
  <2>2. PICK k \in Nat : Counted(calls, k) /\ settingsPending = k + Len(matrixChain.waiting)
    BY DEF StoreNow, StoreOf, CountInv
  <2>3. CASE "matrix" \in calls[i].arg
    <3>1. k - 1 \in Nat /\ Counted(r, k - 1)
      BY <1>2, <1>3, <2>2, <2>3 DEF RestOf
    <3>2. Len(matrixChain.waiting) \in Nat
      BY <2>1
    <3>3. settingsPending' = (k - 1) + Len(matrixChain.waiting)
      BY <1>1, <2>2, <2>3, <3>1, <3>2
    <3>4. ChainAdvances(r, shown') /\ NewerInv(r) /\ ~loadingConfig
          /\ \A j \in DOMAIN r : ~(r[j].current /\ OfMatrix(r[j]))
      BY <1>1, <1>2, <1>3, <2>3 DEF RestOf
    <3>5. /\ Chained(r, calls', E, backend, events, connection', loadingConfig, runStarting', matrixChain',
                     rejoined, unseen)
          /\ CountInv(calls', (k - 1) + Len(matrixChain.waiting), matrixChain')
      BY <1>4, <2>1, <3>1, <3>4, ChainKeeps
    <3> QED
      BY <3>3, <3>5 DEF Chained
  <2>4. CASE "matrix" \notin calls[i].arg
    <3>1. calls' = r /\ settingsPending' = settingsPending /\ matrixChain' = matrixChain
      BY <1>1, <2>4
    <3>2. Counted(r, k)
      BY <1>2, <1>3, <2>2, <2>4 DEF RestOf
    <3>3. CountInv(r, settingsPending, matrixChain)
      BY <2>1, <2>2, <3>2 DEF CountInv
    <3> QED
      BY <1>2, <1>4, <3>1, <3>3 DEF RestOf
  <2> QED
    BY <2>3, <2>4
<1>6. Bare(backend, events, calls') => Bare(backend, events, calls)
  BY <1>2, <1>5
<1>7. CASE fresh
  <2>0. shown' = Showing(answer) /\ connection' = "ok" /\ IsOk(calls[i]) /\ calls[i].latest
    BY <1>1, <1>7 DEF IsOk
  <2>1. /\ answer.tree # Garbage
        /\ answer.version # NoVersion => answer.tree = answer.version + E
        /\ OnlyEnds(events) /\ ~rejoined => answer.run = backend.run
        /\ Bare(backend, events, calls) => answer.version = NoVersion /\ answer.settings = {}
        /\ Configured(backend) /\ ~unseen => answer.settings = backend.settings
    BY <1>1, <1>2, <2>0 DEF FactsOf, ReportOf, RunOf, BareOf, SettingsOf
  <2> HIDE DEF answer
  <2>2. /\ IsSnapshot(shown') /\ shown' # Nothing
        /\ shown'.run = answer.run /\ shown'.version = answer.version /\ shown'.tree = answer.tree
        /\ shown'.settings = answer.settings
    BY <2>0, ShowingIs
  <2>3. TreeShown(shown', connection', loadingConfig, E)
        /\ RunShown(shown', connection', backend, events, rejoined)
        /\ BareShown(shown', connection', backend, events, calls')
        /\ SettingsShown(shown', connection', loadingConfig, backend, unseen, calls')
    BY <1>6, <2>1, <2>2 DEF TreeShown, RunShown, BareShown, SettingsShown
  <2> QED
    BY <1>1, <1>3, <1>5, <2>3 DEF StoreNow, StoreOf
<1>8. CASE ~fresh
  <2>1. shown' = shown /\ (connection' = "ok" => connection = "ok")
    BY <1>1, <1>8
  <2>2. Coming(calls, backend) /\ Configured(backend) => Coming(calls', backend)
    BY <1>2, <1>3, <1>5 DEF RestOf
  <2>3. TreeShown(shown', connection', loadingConfig, E)
        /\ RunShown(shown', connection', backend, events, rejoined)
        /\ BareShown(shown', connection', backend, events, calls')
        /\ SettingsShown(shown', connection', loadingConfig, backend, unseen, calls')
    BY <1>6, <2>1, <2>2 DEF StoreNow, StoreOf, TreeShown, RunShown, BareShown, SettingsShown, Online
  <2> QED
    BY <1>1, <1>3, <1>5, <2>3 DEF StoreNow, StoreOf
<1> QED
  BY <1>7, <1>8

\* A call that waits for nothing returns, and perhaps asks for a snapshot.
LEMMA RestOrRefresh ==
    ASSUME NEW E \in Offsets, StoreNow(E), NEW i \in DOMAIN calls, calls[i].stage = "answered",
           calls[i].op \in {"batch", "button"}, calls[i].current,
           Refresh(Rest(i), {}) \/ NoRefresh(Rest(i)),
           UNCHANGED <<settingsPending, matrixChain, loadingConfig, connection, runStarting>>
    PROVE  /\ ListInv(calls', E, backend, events, connection, loadingConfig, runStarting, matrixChain,
                      rejoined', unseen)
           /\ NewerInv(calls') /\ ~loadingConfig /\ (rejoined => rejoined')
           /\ CountInv(calls', settingsPending', matrixChain')
           /\ Bare(backend, events, calls') => Bare(backend, events, calls)
           /\ Coming(calls, backend) => Coming(calls', backend)
<1> DEFINE r == Rest(i)
<1>2. /\ ListInv(r, E, backend, events, connection, loadingConfig, runStarting, matrixChain,
                 rejoined, unseen)
      /\ RestOf(calls, r, i, backend)
      /\ FlagsOf(calls[i], loadingConfig, runStarting, matrixChain)
      /\ \A cs : (Stray(cs) <=> Stray(r)) =>
            (Bare(backend, events, cs) => Bare(backend, events, calls))
  BY RestIs
<1>3. Refresh(r, {}) \/ NoRefresh(r)
  OBVIOUS
<1> HIDE DEF r
<1>4. ~loadingConfig /\ ~Awaits(calls[i]) /\ ~Brings(calls, i, backend)
  BY <1>2 DEF FlagsOf, Awaits, Brings
<1>5. /\ ListInv(calls', E, backend, events, connection, loadingConfig, runStarting, matrixChain,
                 rejoined', unseen)
      /\ NewerInv(calls') /\ (rejoined => rejoined')
      /\ Coming(r, backend) => Coming(calls', backend)
      /\ Stray(calls') <=> Stray(r)
      /\ \A k \in Nat : Counted(r, k) => Counted(calls', k)
  <2>1. CASE Refresh(r, {})
    <3>1. Expected(r, loadingConfig, runStarting, matrixChain, {})
      BY <1>4 DEF Expected
    <3>2. RefreshedTo(r, calls', {}, E, backend, events, connection, loadingConfig, runStarting, matrixChain,
                      rejoined', unseen) /\ (rejoined => rejoined')
      BY <1>2, <2>1, <3>1, RefreshKeeps
    <3> QED
      BY <1>2, <3>2 DEF RefreshedTo, RestOf
  <2>2. CASE NoRefresh(r)
    <3>1. calls' = r /\ rejoined' = rejoined
      BY <2>2 DEF NoRefresh
    <3> QED
      BY <1>2, <3>1 DEF RestOf
  <2> QED
    BY <1>3, <2>1, <2>2
<1>6. CountInv(calls', settingsPending', matrixChain')
  BY <1>2, <1>4, <1>5 DEF StoreNow, StoreOf, CountInv, RestOf
<1>7. /\ Bare(backend, events, calls') => Bare(backend, events, calls)
      /\ Coming(calls, backend) => Coming(calls', backend)
  BY <1>2, <1>4, <1>5 DEF RestOf
<1> QED
  BY <1>4, <1>5, <1>6, <1>7

LEMMA ButtonReturnsKeeps ==
    ASSUME NEW E \in Offsets, StoreNow(E), NEW i, ButtonReturns(i)
    PROVE  StoreNow(E)'
<1>1. /\ i \in DOMAIN calls /\ calls[i].stage = "answered" /\ calls[i].op = "button" /\ calls[i].current
      /\ Refresh(Rest(i), {}) \/ NoRefresh(Rest(i))
      /\ UNCHANGED <<backend, shown, events, connection, loadingConfig, runStarting, settingsPending,
                     lastRun, matrixChain, unseen>>
  BY DEF ButtonReturns, Arrives, uiFlags
<1>2. /\ ListInv(calls', E, backend, events, connection, loadingConfig, runStarting, matrixChain,
                 rejoined', unseen)
      /\ NewerInv(calls') /\ ~loadingConfig /\ (rejoined => rejoined')
      /\ CountInv(calls', settingsPending', matrixChain')
      /\ Bare(backend, events, calls') => Bare(backend, events, calls)
      /\ Coming(calls, backend) => Coming(calls', backend)
  BY <1>1, RestOrRefresh
<1> QED
  BY <1>1, <1>2 DEF StoreNow, StoreOf, RunShown, BareShown, SettingsShown

\* What a report makes of the tree shown.
Repaired(s, t, from, answer) ==
    /\ IsSnapshot(s) /\ s.version = from /\ s # Nothing
    /\ IsSnapshot(t) /\ t # Nothing
    /\ t.run = s.run /\ t.settings = s.settings /\ t.version = answer.to
    /\ answer.to = NoVersion => t.tree = s.tree
    /\ answer.to # NoVersion /\ s.tree = answer.patches => t.tree = answer.becomes

LEMMA PatchedIs ==
    ASSUME NEW s, s = Nothing \/ IsSnapshot(s), NEW from, NEW answer
    PROVE  Patched(s, from, answer) = s \/ Repaired(s, Patched(s, from, answer), from, answer)
<1> DEFINE to == answer.to
           tree == IF to = NoVersion THEN s.tree
                   ELSE IF s.tree = answer.patches THEN answer.becomes ELSE Garbage
           t == Patched(s, from, answer)
<1>1. CASE s.version # from
  BY <1>1 DEF Patched
<1>2. CASE s.version = from /\ s = Nothing
  <2>1. t = [s EXCEPT !.version = to, !.tree = tree]
    BY <1>2 DEF Patched
  <2> HIDE DEF to, tree
  <2>2. [Nothing EXCEPT !.version = to, !.tree = tree] = Nothing
    BY DEF Nothing
  <2> QED
    BY <1>2, <2>1, <2>2
<1>3. CASE s.version = from /\ IsSnapshot(s)
  <2>1. t = [s EXCEPT !.version = to, !.tree = tree]
    BY <1>3 DEF Patched
  <2>2. /\ to = NoVersion => tree = s.tree
        /\ to # NoVersion /\ s.tree = answer.patches => tree = answer.becomes
    OBVIOUS
  <2> HIDE DEF t, tree
  <2>3. /\ t \in [run : {s.run}, version : {to}, tree : {tree}, settings : {s.settings}]
    BY <1>3, <2>1 DEF IsSnapshot
  <2>4. /\ t.run = s.run /\ t.settings = s.settings /\ t.version = to /\ t.tree = tree
        /\ IsSnapshot(t)
    BY <2>3 DEF IsSnapshot
  <2>5. s # Nothing /\ t # Nothing
    BY <1>3, <2>4 DEF IsSnapshot, Nothing
  <2> QED
    BY <1>3, <2>2, <2>4, <2>5 DEF Repaired, t
<1> QED
  BY <1>1, <1>2, <1>3

LEMMA BatchReturnsKeeps ==
    ASSUME NEW E \in Offsets, StoreNow(E), NEW i, BatchReturns(i)
    PROVE  StoreNow(E)'
<1> DEFINE answer == calls[i].answer
<1>1. /\ i \in DOMAIN calls /\ calls[i].stage = "answered" /\ calls[i].op = "batch" /\ calls[i].current
      /\ shown' = IF answer.kind = "ok" THEN Patched(shown, calls[i].arg, answer) ELSE shown
      /\ Refresh(Rest(i), {}) \/ NoRefresh(Rest(i))
      /\ UNCHANGED <<backend, events, connection, loadingConfig, runStarting, settingsPending,
                     lastRun, matrixChain, unseen>>
  BY DEF BatchReturns, Arrives, uiFlags
<1>2. /\ ListInv(calls', E, backend, events, connection, loadingConfig, runStarting, matrixChain,
                 rejoined', unseen)
      /\ NewerInv(calls') /\ ~loadingConfig /\ (rejoined => rejoined')
      /\ CountInv(calls', settingsPending', matrixChain')
      /\ Bare(backend, events, calls') => Bare(backend, events, calls)
      /\ Coming(calls, backend) => Coming(calls', backend)
  BY <1>1, RestOrRefresh
<1>3. /\ FactsOf(calls[i], E, backend, events, rejoined, unseen, calls)
      /\ shown = Nothing \/ IsSnapshot(shown)
  BY <1>1, RestIs DEF StoreNow, StoreOf, TreeShown
<1>4. CASE shown' = shown
  BY <1>1, <1>2, <1>4 DEF StoreNow, StoreOf, RunShown, BareShown, SettingsShown
<1>5. CASE shown' # shown
  <2>1. answer.kind = "ok" /\ Repaired(shown, shown', calls[i].arg, answer)
    BY <1>1, <1>3, <1>5, PatchedIs
  <2>2. /\ answer.to # NoVersion =>
              /\ calls[i].arg # NoVersion
              /\ answer.patches = calls[i].arg + E /\ answer.becomes = answer.to + E
              /\ answer.becomes # Garbage
        /\ Bare(backend, events, calls) => answer.to = NoVersion
    BY <1>1, <1>3, <2>1 DEF FactsOf, ReportOf, BareOf, IsOk
  <2> HIDE DEF answer
  <2>3. TreeShown(shown', connection', loadingConfig', E)
    BY <1>1, <1>2, <2>1, <2>2 DEF StoreNow, StoreOf, TreeShown, Online, Repaired
  <2>4. /\ RunShown(shown', connection', backend', events', rejoined')
        /\ BareShown(shown', connection', backend', events', calls')
        /\ SettingsShown(shown', connection', loadingConfig', backend', unseen', calls')
    BY <1>1, <1>2, <2>1, <2>2 DEF StoreNow, StoreOf, RunShown, BareShown, SettingsShown, Online, Repaired
  <2> QED
    BY <1>1, <1>2, <2>3, <2>4 DEF StoreNow, StoreOf
<1> QED
  BY <1>4, <1>5

LEMMA RunReturnsKeeps ==
    ASSUME NEW E \in Offsets, StoreNow(E), NEW i, RunReturns(i)
    PROVE  StoreNow(E)'
<1> DEFINE r == Rest(i)
<1>1. /\ i \in DOMAIN calls /\ calls[i].stage = "answered" /\ calls[i].op = "run" /\ calls[i].current
      /\ UNCHANGED <<backend, shown, events, connection, loadingConfig, settingsPending, matrixChain,
                     unseen>>
      /\ IF calls[i].answer.kind = "ok"
         THEN /\ lastRun' = (IF lastRun = calls[i].answer.run THEN lastRun ELSE 0)
              /\ Refresh(r, {"start"}) /\ runStarting' = runStarting
         ELSE NoRefresh(r) /\ runStarting' = FALSE /\ lastRun' = lastRun
  BY DEF RunReturns, Arrives
<1>2. /\ ListInv(r, E, backend, events, connection, loadingConfig, runStarting, matrixChain,
                 rejoined, unseen)
      /\ RestOf(calls, r, i, backend)
      /\ FactsOf(calls[i], E, backend, events, rejoined, unseen, calls)
      /\ FlagsOf(calls[i], loadingConfig, runStarting, matrixChain)
      /\ \A cs : (Stray(cs) <=> Stray(r)) =>
            (Bare(backend, events, cs) => Bare(backend, events, calls))
  BY <1>1, RestIs
<1> HIDE DEF r
<1>3. /\ ~loadingConfig /\ runStarting
      /\ ~Awaits(calls[i]) /\ ~Brings(calls, i, backend)
      /\ \A j \in DOMAIN r : ~(r[j].current /\ StartsRun(r[j]))
  BY <1>1, <1>2 DEF FlagsOf, Awaits, Brings, StartsRun, RestOf
<1>4. /\ ListInv(calls', E, backend, events, connection, loadingConfig, runStarting', matrixChain,
                 rejoined', unseen)
      /\ NewerInv(calls') /\ (rejoined => rejoined')
      /\ Coming(r, backend) => Coming(calls', backend)
      /\ Stray(calls') <=> Stray(r)
      /\ \A k \in Nat : Counted(r, k) => Counted(calls', k)
      /\ EventsInv(events, backend, lastRun')
  <2>0. EventsInv(events, backend, lastRun)
    BY DEF StoreNow, StoreOf
  <2>1. CASE calls[i].answer.kind = "ok"
    <3>1. Expected(r, loadingConfig, runStarting, matrixChain, {"start"})
      BY <1>3 DEF Expected
    <3>2. /\ RefreshedTo(r, calls', {"start"}, E, backend, events, connection, loadingConfig, runStarting,
                         matrixChain, rejoined', unseen)
          /\ (rejoined => rejoined')
      BY <1>1, <1>2, <2>1, <3>1, RefreshKeeps
    <3>3. calls[i].answer.run = backend.runs
      BY <1>1, <1>2, <2>1 DEF FactsOf, RunsOf, IsOk
    <3>4. EventsInv(events, backend, lastRun')
      BY <1>1, <2>0, <2>1, <3>3 DEF EventsInv
    <3>5. runStarting' = runStarting /\ "matrix" \notin {"start"}
      BY <1>1, <2>1
    <3> QED
      BY <1>2, <3>2, <3>4, <3>5 DEF RefreshedTo, RestOf
  <2>2. CASE calls[i].answer.kind # "ok"
    <3>1. calls' = r /\ rejoined' = rejoined /\ lastRun' = lastRun /\ runStarting' = FALSE
      BY <1>1, <2>2 DEF NoRefresh
    <3>2. FlagsInv(r, loadingConfig, runStarting', matrixChain)
      BY <1>2, <1>3, <3>1 DEF ListInv, FlagsInv, FlagsOf
    <3> QED
      BY <1>2, <2>0, <3>1, <3>2 DEF RestOf, ListInv
  <2> QED
    BY <2>1, <2>2
<1>5. /\ CountInv(calls', settingsPending, matrixChain)
      /\ Bare(backend, events, calls') => Bare(backend, events, calls)
      /\ Coming(calls, backend) => Coming(calls', backend)
  BY <1>2, <1>3, <1>4 DEF StoreNow, StoreOf, CountInv, RestOf
<1> QED
  BY <1>1, <1>3, <1>4, <1>5 DEF StoreNow, StoreOf, RunShown, BareShown, SettingsShown

\* t shows other settings than s, and s else.
Resettled(s, t, v) ==
    /\ IsSnapshot(s) /\ s # Nothing /\ IsSnapshot(t) /\ t # Nothing
    /\ t.run = s.run /\ t.version = s.version /\ t.tree = s.tree /\ t.settings = v

LEMMA ResettledIs ==
    ASSUME NEW s, s = Nothing \/ IsSnapshot(s), NEW v
    PROVE  LET t == [s EXCEPT !.settings = v]
           IN (s = Nothing /\ t = s) \/ Resettled(s, t, v)
<1> DEFINE t == [s EXCEPT !.settings = v]
<1>1. CASE s = Nothing
  <2>1. [Nothing EXCEPT !.settings = v] = Nothing
    BY DEF Nothing
  <2> QED
    BY <1>1, <2>1
<1>2. CASE IsSnapshot(s)
  <2>1. t \in [run : {s.run}, version : {s.version}, tree : {s.tree}, settings : {v}]
    BY <1>2 DEF IsSnapshot
  <2> HIDE DEF t
  <2>2. /\ t.run = s.run /\ t.version = s.version /\ t.tree = s.tree /\ t.settings = v
        /\ IsSnapshot(t)
    BY <2>1 DEF IsSnapshot
  <2>3. s # Nothing /\ t # Nothing
    BY <1>2, <2>2 DEF IsSnapshot, Nothing
  <2>4. Resettled(s, t, v)
    BY <1>2, <2>2, <2>3 DEF Resettled
  <2> QED
    BY <2>4 DEF t
<1> QED
  BY <1>1, <1>2

LEMMA SettingsReturnKeeps ==
    ASSUME NEW E \in Offsets, StoreNow(E), NEW i, SettingsReturn(i)
    PROVE  StoreNow(E)'
<1> DEFINE answer == calls[i].answer
           matrix == calls[i].arg.edit \in MatrixEdits
           counts == calls[i].latest /\ answer.kind = "ok"
           r == Rest(i)
<1>1. /\ i \in DOMAIN calls /\ calls[i].stage = "answered" /\ calls[i].op = "settings"
      /\ calls[i].current
      /\ shown' = IF counts THEN [shown EXCEPT !.settings = answer.settings] ELSE shown
      /\ settingsPending' = IF counts /\ matrix THEN settingsPending ELSE settingsPending - 1
      /\ IF ~matrix THEN NoRefresh(r) /\ matrixChain' = matrixChain
         ELSE IF counts THEN Refresh(r, {"matrix"}) /\ matrixChain' = matrixChain
         ELSE ChainAdvances(r, shown) /\ rejoined' = rejoined
      /\ UNCHANGED <<backend, events, connection, loadingConfig, runStarting, lastRun, unseen>>
  BY DEF SettingsReturn, Arrives
<1>2. /\ ListInv(r, E, backend, events, connection, loadingConfig, runStarting, matrixChain,
                 rejoined, unseen)
      /\ RestOf(calls, r, i, backend)
      /\ FactsOf(calls[i], E, backend, events, rejoined, unseen, calls)
      /\ FlagsOf(calls[i], loadingConfig, runStarting, matrixChain)
      /\ \A cs : (Stray(cs) <=> Stray(r)) =>
            (Bare(backend, events, cs) => Bare(backend, events, calls))
  BY <1>1, RestIs
<1> HIDE DEF r
<1>3. /\ ~loadingConfig /\ Awaits(calls[i])
      /\ ~counts => ~Brings(calls, i, backend)
      /\ matrix => OfMatrix(calls[i]) /\ matrixChain.busy
                   /\ \A j \in DOMAIN r : ~(r[j].current /\ OfMatrix(r[j]))
  BY <1>1, <1>2 DEF FlagsOf, Awaits, Brings, OfMatrix, RestOf, IsOk, IsAsked
<1> HIDE DEF matrix, counts
<1>4. matrixChain \in [busy : BOOLEAN, waiting : Seq(MatrixEdits \cup FieldEdits)]
  BY DEF StoreNow, StoreOf, CountInv
<1>5. PICK k \in Nat : Counted(calls, k) /\ settingsPending = k + Len(matrixChain.waiting)
  BY DEF StoreNow, StoreOf, CountInv
<1>6. k - 1 \in Nat /\ Counted(r, k - 1) /\ NewerInv(r) /\ Len(matrixChain.waiting) \in Nat
  BY <1>2, <1>3, <1>4, <1>5 DEF RestOf
<1>7. /\ ListInv(calls', E, backend, events, connection, loadingConfig, runStarting, matrixChain',
                 rejoined', unseen)
      /\ NewerInv(calls') /\ (rejoined => rejoined')
      /\ Coming(r, backend) /\ Configured(backend) => Coming(calls', backend)
      /\ Stray(calls') <=> Stray(r)
      /\ CountInv(calls', settingsPending', matrixChain')
  <2>1. CASE ~matrix
    <3>1. /\ calls' = r /\ rejoined' = rejoined /\ matrixChain' = matrixChain
          /\ settingsPending' = settingsPending - 1
      BY <1>1, <2>1 DEF NoRefresh
    <3>2. settingsPending' = (k - 1) + Len(matrixChain.waiting)
      BY <1>5, <1>6, <3>1
    <3>3. CountInv(calls', settingsPending', matrixChain')
      BY <1>4, <1>6, <3>1, <3>2 DEF CountInv
    <3> QED
      BY <1>2, <1>6, <3>1, <3>3
  <2>2. CASE matrix /\ counts
    <3>1. Refresh(r, {"matrix"}) /\ matrixChain' = matrixChain /\ settingsPending' = settingsPending
      BY <1>1, <2>2
    <3>2. Expected(r, loadingConfig, runStarting, matrixChain, {"matrix"})
      BY <1>3, <2>2 DEF Expected
    <3>3. /\ RefreshedTo(r, calls', {"matrix"}, E, backend, events, connection, loadingConfig, runStarting,
                         matrixChain, rejoined', unseen)
          /\ (rejoined => rejoined')
      BY <1>2, <3>1, <3>2, RefreshKeeps
    <3>4. Counted(calls', (k - 1) + 1) /\ (k - 1) + 1 = k
      BY <1>6, <3>3 DEF RefreshedTo
    <3>5. CountInv(calls', settingsPending', matrixChain')
      BY <1>4, <1>5, <3>1, <3>4 DEF CountInv
    <3> QED
      BY <1>6, <3>1, <3>3, <3>5 DEF RefreshedTo
  <2>3. CASE matrix /\ ~counts
    <3>1. ChainAdvances(r, shown) /\ rejoined' = rejoined /\ settingsPending' = settingsPending - 1
      BY <1>1, <2>3
    <3>2. settingsPending' = (k - 1) + Len(matrixChain.waiting)
      BY <1>5, <1>6, <3>1
    <3>3. /\ Chained(r, calls', E, backend, events, connection, loadingConfig, runStarting, matrixChain',
                     rejoined, unseen)
          /\ CountInv(calls', (k - 1) + Len(matrixChain.waiting), matrixChain')
      BY <1>2, <1>3, <1>4, <1>6, <2>3, <3>1, ChainKeeps
    <3> QED
      BY <3>1, <3>2, <3>3 DEF Chained
  <2> QED
    BY <2>1, <2>2, <2>3
<1>8. Bare(backend, events, calls') => Bare(backend, events, calls)
  BY <1>2, <1>7
<1>9. shown = Nothing \/ IsSnapshot(shown)
  BY DEF StoreNow, StoreOf, TreeShown
<1>10. CASE counts
  <2>1. /\ IsOk(calls[i]) /\ calls[i].latest
        /\ shown' = [shown EXCEPT !.settings = answer.settings]
    BY <1>1, <1>10 DEF counts, IsOk
  <2>2. /\ Configured(backend) /\ ~unseen => answer.settings = backend.settings
        /\ ~Bare(backend, events, calls)
    BY <1>1, <1>2, <2>1 DEF FactsOf, SettingsOf, BareOf
  <2> HIDE DEF answer
  <2>3. (shown = Nothing /\ shown' = shown) \/ Resettled(shown, shown', answer.settings)
    BY <1>9, <2>1, ResettledIs
  <2>4. /\ TreeShown(shown', connection, loadingConfig, E)
        /\ RunShown(shown', connection, backend, events, rejoined')
        /\ BareShown(shown', connection, backend, events, calls')
        /\ SettingsShown(shown', connection, loadingConfig, backend, unseen, calls')
    BY <1>7, <1>8, <2>2, <2>3
    DEF StoreNow, StoreOf, TreeShown, RunShown, BareShown, SettingsShown, Online, Resettled
  <2> QED
    BY <1>1, <1>3, <1>7, <2>4 DEF StoreNow, StoreOf
<1>11. CASE ~counts
  <2>1. shown' = shown
    BY <1>1, <1>11
  <2>2. Coming(calls, backend) /\ Configured(backend) => Coming(calls', backend)
    BY <1>2, <1>3, <1>7, <1>11 DEF RestOf
  <2>3. /\ RunShown(shown', connection, backend, events, rejoined')
        /\ BareShown(shown', connection, backend, events, calls')
        /\ SettingsShown(shown', connection, loadingConfig, backend, unseen, calls')
    BY <1>7, <1>8, <2>1, <2>2 DEF StoreNow, StoreOf, RunShown, BareShown, SettingsShown
  <2> QED
    BY <1>1, <1>3, <1>7, <2>1, <2>3 DEF StoreNow, StoreOf
<1> QED
  BY <1>10, <1>11

-----------------------------------------------------------------------------
(* The store.                                                               *)

LEMMA StoreStarts == StoreInit => StoreInv
<1> SUFFICES ASSUME StoreInit PROVE StoreInv
  OBVIOUS
<1>1. /\ calls = <<>> /\ events = <<>> /\ DOMAIN calls = {} /\ DOMAIN events = {}
      /\ connection = "ok" /\ loadingConfig = FALSE /\ runStarting = FALSE /\ settingsPending = 0
      /\ matrixChain = IdleChain /\ rejoined = FALSE /\ unseen = FALSE /\ misrun = FALSE
      /\ IsList(calls) /\ IsList(events)
  BY DEF StoreInit, IsList
<1>2. ListInv(calls, 1, backend, events, connection, loadingConfig, runStarting, matrixChain,
              rejoined, unseen) /\ NewerInv(calls)
  BY <1>1 DEF StoreInit, ListInv, CallsInv, AreCalls, AllInTurn, LoadAlone, FlagsInv, FactsInv, AskedInv,
              NewerInv
<1>3. CountInv(calls, settingsPending, matrixChain)
  <2>1. Counted(calls, 0)
    BY <1>1, FS_EmptySet DEF Counted, Awaited
  <2> QED
    BY <1>1, <2>1, IdleCount
<1>4. ASSUME backend = [up |-> TRUE, run |-> "idle", version |-> NoVersion, tree |-> NoTree,
                        settings |-> {}, runs |-> 0],
             shown = Nothing
      PROVE  StoreNow(1)
  <2>1. BackendInv(backend, 1)
    BY <1>4 DEF BackendInv, Configured, NoVersion, NoTree, Garbage, Runs
  <2>2. EventsInv(events, backend, lastRun)
    BY <1>1, <1>4 DEF EventsInv
  <2>3. /\ TreeShown(shown, connection, loadingConfig, 1)
        /\ RunShown(shown, connection, backend, events, rejoined)
        /\ BareShown(shown, connection, backend, events, calls)
        /\ SettingsShown(shown, connection, loadingConfig, backend, unseen, calls)
    BY <1>4 DEF TreeShown, RunShown, BareShown, SettingsShown, Online
  <2> QED
    BY <1>1, <1>2, <1>3, <2>1, <2>2, <2>3 DEF StoreNow, StoreOf
<1>5. ASSUME backend = [up |-> TRUE, run |-> "ready", version |-> 1, tree |-> 2,
                        settings |-> {}, runs |-> 0],
             shown = [run |-> "ready", version |-> 1, tree |-> 2, settings |-> {}]
      PROVE  StoreNow(1)
  <2>1. BackendInv(backend, 1) /\ Configured(backend)
    BY <1>5 DEF BackendInv, Configured, NoVersion, Garbage, Runs
  <2>2. EventsInv(events, backend, lastRun)
    BY <1>1, <1>5 DEF EventsInv
  <2>3. IsSnapshot(shown) /\ shown.tree = 2 /\ shown.version = 1 /\ shown.run = backend.run
        /\ shown.settings = backend.settings
    BY <1>5 DEF IsSnapshot
  <2>4. TreeShown(shown, connection, loadingConfig, 1)
    BY <2>3 DEF TreeShown, Garbage
  <2>5. /\ RunShown(shown, connection, backend, events, rejoined)
        /\ BareShown(shown, connection, backend, events, calls)
        /\ SettingsShown(shown, connection, loadingConfig, backend, unseen, calls)
    BY <2>1, <2>3 DEF RunShown, BareShown, SettingsShown, Bare
  <2> QED
    BY <1>1, <1>2, <1>3, <2>1, <2>2, <2>4, <2>5 DEF StoreNow, StoreOf
<1>6. StoreNow(1) /\ 1 \in Offsets
  BY <1>4, <1>5 DEF StoreInit, Offsets
<1> QED
  BY <1>1, <1>6 DEF StoreInv

LEMMA StoreSteps == StoreInv /\ [StoreNext]_storeVars => StoreInv'
<1> SUFFICES ASSUME StoreInv, [StoreNext]_storeVars PROVE StoreInv'
  OBVIOUS
<1>0. PICK E \in Offsets : StoreNow(E)
  BY DEF StoreInv
<1>1. /\ connection \in {"ok", "degraded"} /\ (unseen \/ ~misrun)
  BY DEF StoreInv
<1> DEFINE Quiet == connection' \in {"ok", "degraded"} /\ (unseen' \/ ~misrun')
<1> USE DEF history, uiFlags
<1>2. CASE Load
  BY <1>0, <1>1, <1>2, LoadKeeps DEF Load, StoreInv
<1>3. CASE Select
  BY <1>0, <1>1, <1>3, SelectKeeps DEF Select, StoreInv
<1>4. CASE Start
  BY <1>0, <1>1, <1>4, StartKeeps DEF Start, StoreInv
<1>5. CASE PressButton
  BY <1>0, <1>1, <1>5, PressButtonKeeps DEF PressButton, StoreInv
<1>6. ASSUME NEW edit \in MatrixEdits \cup FieldEdits, Edit(edit) PROVE StoreInv'
  <2>1. Quiet
    BY <1>1, <1>6 DEF Edit
  <2> QED
    BY <1>0, <1>6, <2>1, EditKeeps DEF StoreInv
<1>7. ASSUME NEW i \in DOMAIN calls,
             \/ ServeRefused(i) \/ ServeSnapshot(i) \/ ServeBatch(i) \/ ServeSettings(i)
             \/ ServeButton(i) \/ LoadBegins(i)
      PROVE  StoreInv'
  <2>1. Quiet
    BY <1>1, <1>7 DEF ServeRefused, ServeSnapshot, ServeBatch, ServeSettings, ServeButton, LoadBegins
  <2>2. StoreNow(E)'
    BY <1>0, <1>7, ServeRefusedKeeps, ServeSnapshotKeeps, ServeBatchKeeps, ServeSettingsKeeps,
       ServeButtonKeeps, LoadBeginsKeeps
  <2> QED
    BY <2>1, <2>2 DEF StoreInv
<1>8. ASSUME NEW i \in DOMAIN calls, ServeRun(i) PROVE StoreInv'
  <2>1. connection' = connection
    BY <1>8 DEF ServeRun
  <2> QED
    BY <1>0, <1>1, <1>8, <2>1, ServeRunKeeps DEF StoreInv
<1>9. ASSUME NEW i \in DOMAIN calls, LoadEnds(i, "ready") \/ LoadEnds(i, "failed") PROVE StoreInv'
  <2>1. connection' = connection /\ misrun' = misrun /\ (unseen => unseen')
    BY <1>9 DEF LoadEnds
  <2>2. StoreNow(E)' \/ \E E2 \in Offsets : StoreNow(E2)'
    BY <1>0, <1>9, LoadSucceedsKeeps, LoadFailsKeeps
  <2> QED
    BY <1>1, <2>1, <2>2 DEF StoreInv
<1>10. ASSUME NEW i \in DOMAIN calls,
              \/ DropAnswer(i) \/ LoadReturns(i) \/ LoadRetries(i) \/ RefreshReturns(i)
              \/ BatchReturns(i) \/ SettingsReturn(i) \/ RunReturns(i) \/ ButtonReturns(i)
       PROVE  StoreInv'
  <2>1. Quiet
    BY <1>1, <1>10 DEF DropAnswer, LoadReturns, LoadRetries, RefreshReturns, BatchReturns, SettingsReturn,
                       RunReturns, ButtonReturns
  <2>2. StoreNow(E)'
    BY <1>0, <1>10, DropAnswerKeeps, LoadReturnsKeeps, LoadRetriesKeeps, RefreshReturnsKeeps,
       BatchReturnsKeeps, SettingsReturnKeeps, RunReturnsKeeps, ButtonReturnsKeeps
  <2> QED
    BY <2>1, <2>2 DEF StoreInv
<1>11. CASE HookChangesTree \/ RunEnds \/ BackendDies \/ BackendRestarts
  <2>1. UNCHANGED <<connection, unseen, misrun>>
    BY <1>11 DEF HookChangesTree, RunEnds, BackendDies, BackendRestarts
  <2>2. StoreNow(E)'
    BY <1>0, <1>11, HookChangesTreeKeeps, RunEndsKeeps, BackendDiesKeeps, BackendRestartsKeeps
  <2> QED
    BY <1>1, <2>1, <2>2 DEF StoreInv
<1>12. CASE StateChanges \/ RunEndArrives \/ DeathArrives
  <2>1. Quiet
    BY <1>1, <1>12 DEF StateChanges, RunEndArrives, DeathArrives
  <2>2. StoreNow(E)'
    BY <1>0, <1>12, StateChangesKeeps, RunEndArrivesKeeps, DeathArrivesKeeps
  <2> QED
    BY <2>1, <2>2 DEF StoreInv
<1>13. CASE UNCHANGED storeVars
  <2>1. StoreNow(E)'
    BY <1>0, <1>13 DEF storeVars, StoreNow
  <2> QED
    BY <1>1, <1>13, <2>1 DEF storeVars, StoreInv
<1> QED
  BY <1>2, <1>3, <1>4, <1>5, <1>6, <1>7, <1>8, <1>9, <1>10, <1>11, <1>12, <1>13 DEF StoreNext

\* What the invariant says of a UI that has heard everything.
LEMMA StoreFollows == StoreInv => UiFollows /\ RunsAsShown
<1> SUFFICES ASSUME StoreInv PROVE UiFollows /\ RunsAsShown
  OBVIOUS
<1>0. PICK E \in Offsets : StoreNow(E)
  BY DEF StoreInv
<1>1. /\ TreeShown(shown, connection, loadingConfig, E)
      /\ RunShown(shown, connection, backend, events, rejoined)
      /\ BareShown(shown, connection, backend, events, calls)
      /\ SettingsShown(shown, connection, loadingConfig, backend, unseen, calls)
      /\ loadingConfig => LoadThere(calls)
      /\ BackendInv(backend, E) /\ EventsInv(events, backend, lastRun)
  BY <1>0 DEF StoreNow, StoreOf
<1>2. ShownTreeIsReal
  BY <1>1 DEF ShownTreeIsReal, Connected, TreeShown, Online
<1>3. ASSUME ~rejoined, ~unseen, Settled, Connected
      PROVE  /\ shown.run = backend.run
             /\ shown.settings = backend.settings
             /\ backend.run = "ended" => lastRun = backend.runs
  <2>1. DOMAIN calls = {} /\ DOMAIN events = {} /\ Online(shown, connection)
    BY <1>3 DEF Settled, Connected, Online
  <2>2. ~loadingConfig /\ ~Coming(calls, backend) /\ ~Died(events) /\ OnlyEnds(events)
    BY <1>1, <2>1 DEF LoadThere, Coming, Died, OnlyEnds
  <2>3. shown.run = backend.run
    BY <1>1, <1>3, <2>1, <2>2 DEF RunShown
  <2>4. shown.settings = backend.settings
    BY <1>1, <1>3, <2>1, <2>2 DEF SettingsShown, BareShown, Bare, BackendInv
  <2>5. backend.run = "ended" => lastRun = backend.runs
    BY <1>1, <2>1 DEF EventsInv
  <2> QED
    BY <2>3, <2>4, <2>5
<1>4. rejoined \/ unseen \/ UiIsRight
  BY <1>3 DEF UiIsRight
<1> QED
  BY <1>2, <1>4 DEF UiFollows, RunsAsShown, StoreInv

\* Whatever the numbers of edits, calls and stimuli: once every answer and every
\* event is in, the UI shows the state, the settings and the result the backend
\* has, and the tree it shows is always one the backend has had.
THEOREM StoreFollowsBackend == StoreSpec => []UiFollows
BY StoreStarts, StoreSteps, StoreFollows, PTL DEF StoreSpec

\* Whatever the numbers of edits, calls and stimuli: a run starts with the
\* settings the UI showed.
THEOREM RunsHaveShownSettings == StoreSpec => []RunsAsShown
BY StoreStarts, StoreSteps, StoreFollows, PTL DEF StoreSpec

-----------------------------------------------------------------------------
(* The types of SessionStore.  The numbers are bounded by other numbers:    *)
(* no edit is waited for that was not made, and no result is shown of a run *)
(* that was not started.                                                    *)

Edits == MatrixEdits \cup FieldEdits

\* The edits of the calls under way are edits.
FieldsKnown(cs) == \A i \in DOMAIN cs : cs[i].op = "settings" => cs[i].arg.fields \subseteq Edits

PendingBounds == stimuli \in 0..MaxStimuli /\ settingsPending \in 0..stimuli

\* The runs that are told of were started.
RunsTold(ev, lr, b) ==
    /\ b.runs \in Nat /\ lr \in 0..b.runs
    /\ \A k \in DOMAIN ev : ev[k].kind = "run_end" => ev[k].value \in 0..b.runs

StoreBounds ==
    /\ PendingBounds
    /\ FieldsKnown(calls) /\ backend.settings \subseteq Edits
    /\ RunsTold(events, lastRun, backend)

LEMMA CountIsNumber ==
    ASSUME NEW cs, NEW sp, NEW mc, CountInv(cs, sp, mc)
    PROVE  sp \in Nat /\ mc \in [busy : BOOLEAN, waiting : Seq(Edits)]
<1>1. mc \in [busy : BOOLEAN, waiting : Seq(Edits)]
  BY DEF CountInv, Edits
<1>2. PICK n \in Nat : sp = n + Len(mc.waiting)
  BY DEF CountInv
<1>3. Len(mc.waiting) \in Nat
  BY <1>1
<1> QED
  BY <1>1, <1>2, <1>3

LEMMA StoreInvTyped ==
    ASSUME StoreInv
    PROVE  /\ AreCalls(calls) /\ IsList(events)
           /\ backend \in [up : BOOLEAN, run : Runs, version : Nat, tree : Nat,
                           settings : {backend.settings}, runs : Nat]
           /\ settingsPending \in Nat
           /\ matrixChain \in [busy : BOOLEAN, waiting : Seq(Edits)]
           /\ connection \in {"ok", "degraded"}
<1>1. PICK E \in Offsets : StoreNow(E)
  BY DEF StoreInv
<1>2. ListInv(calls, E, backend, events, connection, loadingConfig, runStarting, matrixChain,
              rejoined, unseen)
  BY <1>1 DEF StoreNow, StoreOf
<1>3. BackendInv(backend, E) /\ EventsInv(events, backend, lastRun)
  BY <1>1 DEF StoreNow, StoreOf
<1>4. CountInv(calls, settingsPending, matrixChain)
  BY <1>1 DEF StoreNow, StoreOf
<1>5. AreCalls(calls) /\ IsList(events)
  BY <1>2, <1>3 DEF ListInv, CallsInv, EventsInv
<1>6. settingsPending \in Nat /\ matrixChain \in [busy : BOOLEAN, waiting : Seq(Edits)]
  BY <1>4, CountIsNumber
<1>7. connection \in {"ok", "degraded"}
  BY DEF StoreInv
<1> QED
  BY <1>3, <1>5, <1>6, <1>7 DEF BackendInv

-----------------------------------------------------------------------------
(* What the operators make of the edits of the calls. *)

LEMMA LesserFields ==
    ASSUME NEW cs, FieldsKnown(cs), NEW R, DOMAIN R = DOMAIN cs,
           \A i \in DOMAIN cs : Lesser(cs[i], R[i])
    PROVE  FieldsKnown(R)
BY DEF FieldsKnown, Lesser

LEMMA ThinnedAre ==
    ASSUME NEW cs, AreCalls(cs), NEW R, NEW h, Thinned(cs, R, h)
    PROVE  AreCalls(R) /\ (FieldsKnown(cs) => FieldsKnown(R))
<1>1. \A j \in DOMAIN R : h[j] \in DOMAIN cs /\ Lesser(cs[h[j]], R[j])
  BY DEF Thinned
<1> QED
  BY <1>1 DEF AreCalls, FieldsKnown, Lesser, Thinned

LEMMA OutdatedFields ==
    ASSUME NEW cs, AreCalls(cs), FieldsKnown(cs), NEW op
    PROVE  AreCalls(Outdated(cs, op)) /\ FieldsKnown(Outdated(cs, op))
BY OutdatedIs, ThinnedAre

LEMMA DisownedFields ==
    ASSUME NEW cs, AreCalls(cs), FieldsKnown(cs)
    PROVE  AreCalls(Disowned(cs)) /\ FieldsKnown(Disowned(cs))
BY DisownedIs, ThinnedAre

LEMMA RemovedFields ==
    ASSUME NEW cs, AreCalls(cs), FieldsKnown(cs), NEW i \in DOMAIN cs
    PROVE  AreCalls(RemoveAt(cs, i)) /\ FieldsKnown(RemoveAt(cs, i))
BY RemovedIs, ThinnedAre DEF Faithful

LEMMA AppendedFields ==
    ASSUME NEW cs, AreCalls(cs), FieldsKnown(cs), NEW op \in Ops, NEW arg,
           op = "settings" => arg.fields \subseteq Edits
    PROVE  FieldsKnown(Append(cs, NewCall(op, arg)))
<1> DEFINE n == NewCall(op, arg)
           A == Append(cs, n)
<1>1. Extended(cs, A, n)
  BY AppendedIs DEF AreCalls
<1>2. n.op = op /\ n.arg = arg
  BY DEF NewCall
<1> HIDE DEF n, A
<1>3. FieldsKnown(A)
  BY <1>1, <1>2 DEF Extended, FieldsKnown
<1> QED
  BY <1>3 DEF n, A

LEMMA CalledFields ==
    ASSUME NEW cs, AreCalls(cs), FieldsKnown(cs), NEW op \in Ops, NEW arg,
           op = "settings" => arg.fields \subseteq Edits
    PROVE  FieldsKnown(Called(cs, op, arg))
<1>1. AreCalls(Unshared(cs)) /\ FieldsKnown(Unshared(cs))
  BY UnsharedIs, ThinnedAre DEF Faithful
<1>2. Called(cs, op, arg) = Append(Unshared(cs), NewCall(op, arg))
  BY DEF Called, Unshared
<1> QED
  BY <1>1, <1>2, AppendedFields

LEMMA SubmittingFields ==
    ASSUME NEW cs, AreCalls(cs), FieldsKnown(cs), NEW s, NEW edit \in Edits
    PROVE  FieldsKnown(Submitting(cs, s, edit))
<1> DEFINE fields == IF edit \in MatrixEdits THEN (s.settings \cap MatrixEdits) \cup {edit}
                     ELSE {edit}
           arg == [edit |-> edit, fields |-> fields]
           o == Outdated(Outdated(cs, "settings"), "refresh")
<1>1. fields \subseteq Edits
  BY DEF Edits
<1>2. arg.fields = fields
  OBVIOUS
<1>3. AreCalls(o) /\ FieldsKnown(o)
  BY OutdatedFields
<1>4. Submitting(cs, s, edit) = Called(o, "settings", arg)
  BY DEF Submitting
<1> HIDE DEF fields, arg, o
<1>5. "settings" \in Ops
  BY DEF Ops
<1> QED
  BY <1>1, <1>2, <1>3, <1>4, <1>5, CalledFields

LEMMA RefreshFields ==
    ASSUME NEW cs, AreCalls(cs), FieldsKnown(cs), NEW then, Refresh(cs, then)
    PROVE  FieldsKnown(calls')
<1>1. CASE Joinable(cs) = {}
  <2>1. calls' = Append(Outdated(cs, "refresh"), NewCall("refresh", then))
    BY <1>1 DEF Refresh
  <2>2. "refresh" \in Ops /\ "refresh" # "settings"
    BY DEF Ops
  <2> QED
    BY <2>1, <2>2, OutdatedFields, AppendedFields
<1>2. CASE Joinable(cs) # {}
  <2>1. calls' = [i \in DOMAIN cs |-> IF i \in Joinable(cs)
                                      THEN [cs[i] EXCEPT !.latest = TRUE, !.arg = @ \cup then]
                                      ELSE cs[i]]
    BY <1>2 DEF Refresh
  <2>2. SUFFICES ASSUME NEW i \in DOMAIN calls', calls'[i].op = "settings"
                 PROVE  calls'[i].arg.fields \subseteq Edits
    BY DEF FieldsKnown
  <2>3. i \in DOMAIN cs /\ IsCall(cs[i])
    BY <2>1 DEF AreCalls
  <2>4. i \notin Joinable(cs)
    BY <2>1, <2>2, <2>3 DEF Joinable, IsCall
  <2> QED
    BY <2>1, <2>2, <2>3, <2>4 DEF FieldsKnown
<1> QED
  BY <1>1, <1>2

LEMMA ChangedFields ==
    ASSUME NEW cs, AreCalls(cs), FieldsKnown(cs), NEW R, DOMAIN R = DOMAIN cs,
           \A j \in DOMAIN cs : R[j].op = cs[j].op /\ R[j].arg = cs[j].arg
    PROVE  FieldsKnown(R)
BY DEF FieldsKnown

LEMMA ServedFields ==
    ASSUME NEW cs, AreCalls(cs), FieldsKnown(cs), NEW i \in DOMAIN cs, NEW stage, NEW answer
    PROVE  /\ FieldsKnown([cs EXCEPT ![i].stage = stage, ![i].answer = answer])
           /\ FieldsKnown([cs EXCEPT ![i].stage = stage])
<1> DEFINE R == [cs EXCEPT ![i].stage = stage, ![i].answer = answer]
           Q == [cs EXCEPT ![i].stage = stage]
<1>0. cs = [j \in DOMAIN cs |-> cs[j]] /\ \A j \in DOMAIN cs : IsCall(cs[j])
  BY DEF AreCalls, IsList
<1>1. DOMAIN R = DOMAIN cs /\ \A j \in DOMAIN cs : R[j].op = cs[j].op /\ R[j].arg = cs[j].arg
  BY <1>0 DEF IsCall
<1>2. DOMAIN Q = DOMAIN cs /\ \A j \in DOMAIN cs : Q[j].op = cs[j].op /\ Q[j].arg = cs[j].arg
  BY <1>0 DEF IsCall
<1> HIDE DEF R, Q
<1>3. FieldsKnown(R) /\ FieldsKnown(Q)
  BY <1>1, <1>2, ChangedFields
<1> QED
  BY <1>3 DEF R, Q

-----------------------------------------------------------------------------
(* The steps. *)

LEMMA FieldsStep ==
    ASSUME StoreInv, StoreBounds, [StoreNext]_storeVars
    PROVE  FieldsKnown(calls') /\ backend'.settings \subseteq Edits
<1>0. /\ AreCalls(calls) /\ FieldsKnown(calls)
      /\ backend.settings \subseteq Edits
      /\ backend \in [up : BOOLEAN, run : Runs, version : Nat, tree : Nat,
                      settings : {backend.settings}, runs : Nat]
      /\ matrixChain \in [busy : BOOLEAN, waiting : Seq(Edits)]
  BY StoreInvTyped DEF StoreBounds
<1>1. \A op \in {"load", "batch", "run", "button"} : op \in Ops /\ op # "settings"
  BY DEF Ops
<1>2. CASE Load \/ Select \/ Start \/ PressButton
  <2>1. backend' = backend
    BY <1>2 DEF Load, Select, Start, PressButton
  <2>2. CASE Load
    <3>1. AreCalls(Disowned(calls)) /\ FieldsKnown(Disowned(calls))
      BY <1>0, DisownedFields
    <3>2. AreCalls(Outdated(Disowned(calls), "refresh"))
          /\ FieldsKnown(Outdated(Disowned(calls), "refresh"))
      BY <3>1, OutdatedFields
    <3>3. calls' = Called(Outdated(Disowned(calls), "refresh"), "load", {})
      BY <2>2 DEF Load
    <3> QED
      BY <1>0, <1>1, <2>1, <3>2, <3>3, CalledFields
  <2>3. CASE Select
    <3>1. calls' = Called(Outdated(calls, "refresh"), "batch", shown.version)
      BY <2>3 DEF Select
    <3> QED
      BY <1>0, <1>1, <2>1, <3>1, OutdatedFields, CalledFields
  <2>4. CASE Start
    <3>1. calls' = Called(calls, "run", [settings |-> shown.settings, trusted |-> connection = "ok"])
      BY <2>4 DEF Start
    <3> QED
      BY <1>0, <1>1, <2>1, <3>1, CalledFields
  <2>5. CASE PressButton
    <3>1. calls' = Called(calls, "button", {})
      BY <2>5 DEF PressButton
    <3> QED
      BY <1>0, <1>1, <2>1, <3>1, CalledFields
  <2> QED
    BY <1>2, <2>2, <2>3, <2>4, <2>5
<1>3. ASSUME NEW edit \in Edits, Edit(edit)
      PROVE  FieldsKnown(calls') /\ backend'.settings \subseteq Edits
  <2>1. backend' = backend /\ (calls' = calls \/ calls' = Submitting(calls, shown, edit))
    BY <1>3 DEF Edit
  <2> QED
    BY <1>0, <1>3, <2>1, SubmittingFields
<1>4. ASSUME NEW i \in DOMAIN calls,
             \/ ServeRefused(i) \/ ServeSnapshot(i) \/ ServeBatch(i) \/ ServeSettings(i)
             \/ ServeRun(i) \/ ServeButton(i) \/ LoadBegins(i)
             \/ LoadEnds(i, "ready") \/ LoadEnds(i, "failed")
      PROVE  FieldsKnown(calls') /\ backend'.settings \subseteq Edits
  <2>1. \/ \E answer : calls' = [calls EXCEPT ![i].stage = "answered", ![i].answer = answer]
        \/ calls' = [calls EXCEPT ![i].stage = "loading"]
    BY <1>4 DEF ServeRefused, ServeSnapshot, ServeBatch, ServeSettings, ServeRun, ServeButton,
                LoadBegins, LoadEnds, Answered
  <2>2. FieldsKnown(calls')
    <3>1. CASE \E answer : calls' = [calls EXCEPT ![i].stage = "answered", ![i].answer = answer]
      <4>1. PICK answer : calls' = [calls EXCEPT ![i].stage = "answered", ![i].answer = answer]
        BY <3>1
      <4> QED
        BY <1>0, <4>1, ServedFields
    <3>2. CASE calls' = [calls EXCEPT ![i].stage = "loading"]
      BY <1>0, <3>2, ServedFields
    <3> QED
      BY <2>1, <3>1, <3>2
  <2>3. /\ Moved(backend).settings = backend.settings
        /\ Moved(backend) \in [up : BOOLEAN, run : Runs, version : Nat, tree : Nat,
                               settings : {backend.settings}, runs : Nat]
    <3>1. \E E \in Offsets : BackendInv(backend, E)
      BY DEF StoreInv, StoreNow, StoreOf
    <3> QED
      BY <3>1, MovedIs
  <2>4. CASE ServeSettings(i)
    <3>1. calls[i].arg.fields \subseteq Edits
      BY <1>0, <2>4 DEF ServeSettings, Serves, FieldsKnown
    <3>2. \E own \in {backend.settings, backend.settings \cap FieldEdits} :
             backend'.settings = own \cup calls[i].arg.fields
      BY <1>0, <2>3, <2>4 DEF ServeSettings
    <3> QED
      BY <1>0, <2>2, <3>1, <3>2
  <2>5. CASE ServeRefused(i) \/ ServeSnapshot(i) \/ ServeBatch(i) \/ ServeButton(i)
    <3>1. backend' = backend \/ backend' = Moved(backend)
      BY <2>5 DEF ServeRefused, ServeSnapshot, ServeBatch, ServeButton
    <3> QED
      BY <1>0, <2>2, <2>3, <3>1
  <2>6. CASE ServeRun(i) \/ LoadBegins(i)
    <3>1. backend'.settings = backend.settings
      BY <1>0, <2>6 DEF ServeRun, LoadBegins
    <3> QED
      BY <1>0, <2>2, <3>1
  <2>7. CASE LoadEnds(i, "ready") \/ LoadEnds(i, "failed")
    <3>1. backend'.settings \in {backend.settings, {}}
      BY <1>0, <2>3, <2>7 DEF LoadEnds
    <3> QED
      BY <1>0, <2>2, <3>1
  <2> QED
    BY <1>4, <2>4, <2>5, <2>6, <2>7
<1>5. ASSUME NEW i \in DOMAIN calls,
             \/ DropAnswer(i) \/ LoadReturns(i) \/ LoadRetries(i) \/ RefreshReturns(i)
             \/ BatchReturns(i) \/ SettingsReturn(i) \/ RunReturns(i) \/ ButtonReturns(i)
      PROVE  FieldsKnown(calls') /\ backend'.settings \subseteq Edits
  <2>1. backend' = backend
    BY <1>5 DEF DropAnswer, LoadReturns, LoadRetries, RefreshReturns, BatchReturns, SettingsReturn,
                RunReturns, ButtonReturns
  <2> DEFINE r == RemoveAt(calls, i)
  <2>2. AreCalls(r) /\ FieldsKnown(r)
    BY <1>0, RemovedFields
  <2>3. ASSUME NEW s, ChainAdvances(r, s) PROVE FieldsKnown(calls')
    <3>1. CASE matrixChain.waiting = <<>>
      BY <2>2, <2>3, <3>1 DEF ChainAdvances
    <3>2. CASE matrixChain.waiting # <<>>
      <4>1. Head(matrixChain.waiting) \in Edits
        BY <1>0, <3>2
      <4>2. calls' = Submitting(r, s, Head(matrixChain.waiting))
        BY <2>3, <3>2 DEF ChainAdvances
      <4> HIDE DEF r
      <4> QED
        BY <2>2, <4>1, <4>2, SubmittingFields
    <3> QED
      BY <3>1, <3>2
  <2>4. ASSUME NEW then, Refresh(r, then) PROVE FieldsKnown(calls')
    BY <2>2, <2>4, RefreshFields
  <2>5. CASE DropAnswer(i) \/ LoadReturns(i)
    BY <1>0, <2>1, <2>2, <2>5 DEF DropAnswer, LoadReturns, Rest
  <2>6. CASE LoadRetries(i)
    <3>1. calls' = Called(r, "load", {})
      BY <2>6 DEF LoadRetries, Rest
    <3> HIDE DEF r
    <3> QED
      BY <1>0, <1>1, <2>1, <2>2, <3>1, CalledFields
  <2>7. CASE RefreshReturns(i)
    <3>1. calls' = r \/ ChainAdvances(r, shown')
      BY <2>7 DEF RefreshReturns, Rest
    <3> QED
      BY <1>0, <2>1, <2>2, <2>3, <3>1
  <2>8. CASE BatchReturns(i)
    <3>1. calls' = r \/ Refresh(r, {})
      BY <2>8 DEF BatchReturns, Rest, NoRefresh
    <3> QED
      BY <1>0, <2>1, <2>2, <2>4, <3>1
  <2>9. CASE SettingsReturn(i)
    <3>1. calls' = r \/ Refresh(r, {"matrix"}) \/ ChainAdvances(r, shown)
      BY <2>9 DEF SettingsReturn, Rest, NoRefresh
    <3> QED
      BY <1>0, <2>1, <2>2, <2>3, <2>4, <3>1
  <2>10. CASE RunReturns(i) \/ ButtonReturns(i)
    <3>1. calls' = r \/ Refresh(r, {"start"}) \/ Refresh(r, {})
      BY <2>10 DEF RunReturns, ButtonReturns, Rest, NoRefresh
    <3> QED
      BY <1>0, <2>1, <2>2, <2>4, <3>1
  <2> QED
    BY <1>5, <2>5, <2>6, <2>7, <2>8, <2>9, <2>10
<1>6. CASE HookChangesTree \/ RunEnds \/ BackendRestarts
  <2>1. calls' = calls /\ backend'.settings = backend.settings
    BY <1>0, <1>6 DEF HookChangesTree, RunEnds, BackendRestarts, Moved
  <2> QED
    BY <1>0, <2>1
<1>7. CASE BackendDies
  <2>1. backend'.settings = {}
    BY <1>0, <1>7 DEF BackendDies
  <2>2. calls' = [i \in DOMAIN calls |->
                    IF calls[i].stage = "answered" THEN calls[i]
                    ELSE [calls[i] EXCEPT !.stage = "answered", !.answer = Fault]]
    BY <1>7 DEF BackendDies
  <2>3. ASSUME NEW j \in DOMAIN calls PROVE calls'[j].op = calls[j].op /\ calls'[j].arg = calls[j].arg
    <3>1. IsCall(calls[j])
      BY <1>0 DEF AreCalls
    <3> QED
      BY <2>2, <3>1 DEF IsCall
  <2>4. FieldsKnown(calls')
    BY <1>0, <2>2, <2>3, ChangedFields
  <2> QED
    BY <2>1, <2>4
<1>8. CASE StateChanges \/ RunEndArrives \/ DeathArrives
  <2>1. /\ backend' = backend
        /\ calls' \in {calls, Outdated(calls, "refresh"), Disowned(calls)}
    BY <1>8 DEF StateChanges, RunEndArrives, DeathArrives
  <2> QED
    BY <1>0, <2>1, OutdatedFields, DisownedFields
<1>9. CASE UNCHANGED storeVars
  BY <1>0, <1>9 DEF storeVars
<1> QED
  BY <1>2, <1>3, <1>4, <1>5, <1>6, <1>7, <1>8, <1>9 DEF StoreNext, Edits

LEMMA PendingStep ==
    ASSUME StoreInv, StoreInv', StoreBounds, [StoreNext]_storeVars
    PROVE  PendingBounds'
<1>0. /\ settingsPending \in Nat /\ settingsPending' \in Nat
      /\ stimuli \in 0..MaxStimuli /\ settingsPending \in 0..stimuli
  <2>1. settingsPending' \in Nat
    <3>1. \E E \in Offsets : StoreNow(E)'
      BY DEF StoreInv
    <3>2. CountInv(calls', settingsPending', matrixChain')
      BY <3>1 DEF StoreNow, StoreOf
    <3> QED
      BY <3>2, CountIsNumber
  <2> QED
    BY <2>1, StoreInvTyped DEF StoreBounds, PendingBounds
<1>1. MaxStimuli \in Nat
  BY StoreAssumption
<1>2. \/ stimuli' = stimuli
      \/ stimuli < MaxStimuli /\ stimuli' = stimuli + 1
  BY DEF StoreNext, Load, Select, Edit, Start, PressButton, ServeRefused, ServeSnapshot,
         ServeBatch, ServeSettings, ServeRun, ServeButton, LoadBegins, LoadEnds, DropAnswer,
         LoadReturns, LoadRetries, RefreshReturns, BatchReturns, SettingsReturn, RunReturns,
         ButtonReturns, HookChangesTree, RunEnds, BackendDies, BackendRestarts, StateChanges,
         RunEndArrives, DeathArrives, Stimulus, storeVars
<1>3. \/ settingsPending' \in {settingsPending, settingsPending - 1, 0}
      \/ settingsPending' = settingsPending + 1 /\ stimuli' = stimuli + 1
  BY DEF StoreNext, Load, Select, Edit, Start, PressButton, ServeRefused, ServeSnapshot,
         ServeBatch, ServeSettings, ServeRun, ServeButton, LoadBegins, LoadEnds, DropAnswer,
         LoadReturns, LoadRetries, RefreshReturns, BatchReturns, SettingsReturn, RunReturns,
         ButtonReturns, HookChangesTree, RunEnds, BackendDies, BackendRestarts, StateChanges,
         RunEndArrives, DeathArrives, Stimulus, storeVars, uiFlags
<1> QED
  BY <1>0, <1>1, <1>2, <1>3 DEF PendingBounds

LEMMA RunsStep ==
    ASSUME StoreInv, StoreBounds, [StoreNext]_storeVars
    PROVE  RunsTold(events', lastRun', backend')
<1>0. /\ IsList(events)
      /\ backend.runs \in Nat /\ lastRun \in 0..backend.runs
      /\ \A k \in DOMAIN events : events[k].kind = "run_end" => events[k].value \in 0..backend.runs
      /\ backend \in [up : BOOLEAN, run : Runs, version : Nat, tree : Nat,
                      settings : {backend.settings}, runs : Nat]
  BY StoreInvTyped DEF StoreBounds, RunsTold
<1>1. /\ Moved(backend).runs = backend.runs
      /\ Moved(backend) \in [up : BOOLEAN, run : Runs, version : Nat, tree : Nat,
                             settings : {backend.settings}, runs : Nat]
  <2>1. \E E \in Offsets : BackendInv(backend, E)
    BY DEF StoreInv, StoreNow, StoreOf
  <2> QED
    BY <2>1, MovedIs
<1>2. ASSUME NEW kind, NEW value, events' = events \o Published(kind, value),
             kind # "run_end", lastRun' = lastRun, backend'.runs \in Nat,
             backend'.runs >= backend.runs
      PROVE  RunsTold(events', lastRun', backend')
  <2>1. OneMore(events, events', [kind |-> kind, value |-> value])
    BY <1>0, <1>2, OneMoreIs
  <2> QED
    BY <1>0, <1>2, <2>1 DEF OneMore, RunsTold
<1>3. ASSUME events' = events, lastRun' \in {lastRun, 0}, backend'.runs = backend.runs
      PROVE  RunsTold(events', lastRun', backend')
  BY <1>0, <1>3 DEF RunsTold
<1>4. CASE Load \/ Select \/ Start \/ PressButton
  BY <1>3, <1>4 DEF Load, Select, Start, PressButton, uiFlags
<1>5. ASSUME NEW edit \in Edits, Edit(edit) PROVE RunsTold(events', lastRun', backend')
  BY <1>3, <1>5 DEF Edit
<1>6. ASSUME NEW i \in DOMAIN calls,
             \/ ServeRefused(i) \/ ServeSnapshot(i) \/ ServeBatch(i) \/ ServeSettings(i)
             \/ ServeButton(i)
      PROVE  RunsTold(events', lastRun', backend')
  <2>1. events' = events /\ lastRun' = lastRun
    BY <1>6 DEF ServeRefused, ServeSnapshot, ServeBatch, ServeSettings, ServeButton, uiFlags
  <2>2. backend'.runs = backend.runs
    BY <1>0, <1>1, <1>6
       DEF ServeRefused, ServeSnapshot, ServeBatch, ServeSettings, ServeButton
  <2> QED
    BY <1>3, <2>1, <2>2
<1>7. ASSUME NEW i \in DOMAIN calls, ServeRun(i) PROVE RunsTold(events', lastRun', backend')
  <2>1. backend'.runs = backend.runs + 1 /\ lastRun' = lastRun
        /\ events' = events \o Published("state", "active")
    BY <1>0, <1>7 DEF ServeRun, uiFlags
  <2> QED
    BY <1>0, <1>2, <2>1
<1>8. ASSUME NEW i \in DOMAIN calls, LoadBegins(i) PROVE RunsTold(events', lastRun', backend')
  <2>1. backend'.runs = backend.runs /\ lastRun' = lastRun
        /\ events' = events \o Published("state", "loading")
    BY <1>0, <1>8 DEF LoadBegins, uiFlags
  <2> QED
    BY <1>0, <1>2, <2>1
<1>9. ASSUME NEW i \in DOMAIN calls, NEW run \in {"ready", "failed"}, LoadEnds(i, run)
      PROVE  RunsTold(events', lastRun', backend')
  <2>1. lastRun' = lastRun /\ events' = events \o Published("state", run)
    BY <1>9 DEF LoadEnds, uiFlags
  <2>2. backend'.runs = backend.runs
    BY <1>0, <1>1, <1>9 DEF LoadEnds
  <2> QED
    BY <1>0, <1>2, <2>1, <2>2
<1>10. ASSUME NEW i \in DOMAIN calls,
              \/ DropAnswer(i) \/ LoadReturns(i) \/ LoadRetries(i) \/ RefreshReturns(i)
              \/ BatchReturns(i) \/ SettingsReturn(i) \/ RunReturns(i) \/ ButtonReturns(i)
       PROVE  RunsTold(events', lastRun', backend')
  <2>1. events' = events /\ backend' = backend /\ lastRun' \in {lastRun, 0}
    BY <1>10 DEF DropAnswer, LoadReturns, LoadRetries, RefreshReturns, BatchReturns,
                 SettingsReturn, RunReturns, ButtonReturns, uiFlags
  <2> QED
    BY <1>3, <2>1
<1>11. CASE HookChangesTree \/ BackendRestarts \/ UNCHANGED storeVars
  <2>1. events' = events /\ lastRun' = lastRun
    BY <1>11 DEF HookChangesTree, BackendRestarts, uiFlags, storeVars
  <2>2. backend'.runs = backend.runs
    BY <1>0, <1>1, <1>11 DEF HookChangesTree, BackendRestarts, storeVars
  <2> QED
    BY <1>3, <2>1, <2>2
<1>12. CASE RunEnds
  <2> DEFINE mid == events \o Published("state", "ended")
  <2>1. /\ events' = mid \o Published("run_end", backend.runs)
        /\ lastRun' = lastRun /\ backend'.runs = backend.runs
    BY <1>0, <1>12 DEF RunEnds, uiFlags
  <2>2. OneMore(events, mid, [kind |-> "state", value |-> "ended"])
    BY <1>0, OneMoreIs
  <2>5. IsList(mid)
    BY <2>2 DEF OneMore
  <2> HIDE DEF mid
  <2>3. OneMore(mid, events', [kind |-> "run_end", value |-> backend.runs])
    BY <2>1, <2>5, OneMoreIs
  <2>4. ASSUME NEW k \in DOMAIN events', events'[k].kind = "run_end"
        PROVE  events'[k].value \in 0..backend.runs
    <3>1. CASE k \in DOMAIN mid
      <4>1. events'[k] = mid[k]
        BY <2>3, <3>1 DEF OneMore
      <4>2. k \in DOMAIN events /\ mid[k] = events[k]
        BY <2>2, <2>4, <3>1, <4>1 DEF OneMore
      <4> QED
        BY <1>0, <2>4, <4>1, <4>2
    <3>2. CASE k \notin DOMAIN mid
      <4>1. events'[k] = [kind |-> "run_end", value |-> backend.runs]
        BY <2>3, <3>2 DEF OneMore
      <4> QED
        BY <1>0, <4>1
    <3> QED
      BY <3>1, <3>2
  <2> QED
    BY <1>0, <2>1, <2>4 DEF RunsTold
<1>13. CASE BackendDies
  <2>1. backend'.runs = backend.runs /\ lastRun' = lastRun
        /\ events' = events \o Published("died", 0)
    BY <1>0, <1>13 DEF BackendDies, uiFlags
  <2> QED
    BY <1>0, <1>2, <2>1
<1>14. CASE StateChanges \/ RunEndArrives \/ DeathArrives
  <2>1. /\ events # <<>> /\ events' = Tail(events) /\ backend' = backend
        /\ lastRun' \in {lastRun, 0} \/ (Head(events).kind = "run_end" /\ lastRun' = Head(events).value)
    BY <1>14 DEF StateChanges, RunEndArrives, DeathArrives, NextEvent, uiFlags
  <2>2. Shifted(events, events')
    BY <1>0, <2>1, TailIs
  <2>3. /\ Head(events) = events[1] /\ 1 \in DOMAIN events
        /\ \A k \in DOMAIN events' : k + 1 \in DOMAIN events /\ events'[k] = events[k + 1]
    BY <2>2 DEF Shifted
  <2> QED
    BY <1>0, <2>1, <2>3 DEF RunsTold
<1> QED
  BY <1>4, <1>5, <1>6, <1>7, <1>8, <1>9, <1>10, <1>11, <1>12, <1>13, <1>14 DEF StoreNext, Edits

LEMMA StoreBoundsStep == StoreInv /\ StoreInv' /\ StoreBounds /\ [StoreNext]_storeVars => StoreBounds'
<1> SUFFICES ASSUME StoreInv, StoreInv', StoreBounds, [StoreNext]_storeVars PROVE StoreBounds'
  OBVIOUS
<1> QED
  BY FieldsStep, PendingStep, RunsStep DEF StoreBounds

LEMMA StoreBoundsStart == StoreInit => StoreBounds
<1> SUFFICES ASSUME StoreInit PROVE StoreBounds
  OBVIOUS
<1>1. PendingBounds
  BY StoreAssumption DEF StoreInit, PendingBounds
<1>2. FieldsKnown(calls) /\ RunsTold(events, lastRun, backend) /\ backend.settings \subseteq Edits
  BY DEF StoreInit, FieldsKnown, RunsTold
<1> QED
  BY <1>1, <1>2 DEF StoreBounds

LEMMA StoreTyped == StoreInv /\ StoreBounds => StoreTypeOK
<1> SUFFICES ASSUME StoreInv, StoreBounds PROVE StoreTypeOK
  OBVIOUS
<1>1. backend.run \in Runs /\ connection \in {"ok", "degraded"}
      /\ \A i \in DOMAIN calls : calls[i].op \in Ops /\ calls[i].stage \in Stages
  BY StoreInvTyped DEF AreCalls, IsCall
<1> QED
  BY <1>1 DEF StoreTypeOK, StoreBounds, PendingBounds, RunsTold, Runs, Ops, Stages, Edits

\* Whatever the edits, and however many stimuli and calls there are, the UI
\* waits for no more edits than were made (settingsPending, session-store.ts)
\* and shows the result of a run only if the backend has started it.
THEOREM StoreTypes == StoreSpec => []StoreTypeOK
<1>1. StoreSpec => [](StoreInv /\ StoreBounds)
  BY StoreStarts, StoreSteps, StoreBoundsStart, StoreBoundsStep, PTL DEF StoreSpec
<1> QED
  BY <1>1, StoreTyped, PTL

-----------------------------------------------------------------------------
(* LogFlow. *)

-----------------------------------------------------------------------------
(* The inductive invariant.  Its parts say what they say of values, so that *)
(* a step is a lemma about what it makes of them: evts stands for          *)
(* lineEvents, final for last, win, max and g for window, maxSeq and gone.   *)

Lines == [seq : 0..MaxLines, young : BOOLEAN]

Pages == [op : {"init", "older"}, current : BOOLEAN, stage : {"asked", "answered"},
          before : 1..(MaxLines + 1), lines : Seq(1..MaxLines), behind : Nat]

Events == Seq((1..MaxLines) \cup {Death})

BackendTypes ==
    /\ last \in 0..MaxLines /\ kept \in 1..(last + 1) /\ (last > 0 => kept <= last)
    /\ waiting \in 0..HookCapacity
    /\ enabledHooks \in 0..LogHooks /\ chain \in 0..LogHooks /\ hookAt \in 0..Skipped
    /\ logRun \in {"none", "running", "draining"}
    /\ lineEvents \in Events

WindowTypes ==
    /\ window \in Seq(Lines)
    /\ maxSeq \in 0..MaxLines
    /\ initialized \in BOOLEAN
    /\ gone \in 0..MaxLines
    /\ reset \in {"none", "begun"}

LogTypes == BackendTypes /\ WindowTypes /\ pages \in Seq(Pages)

\* A run takes its hooks away and drains them before it closes.
Drained ==
    /\ hooked <=> logRun = "running"
    /\ logRun = "none" => waiting = 0
    /\ ~lateLine

Deathless(evts, j, k) == \A m \in j..k : evts[m] # Death

\* Between two deaths the evts are consecutive, they start at 1 after one, and
\* the last one is the last line.
Gapless(evts, final) ==
    /\ \A j, k \in DOMAIN evts :
          j <= k /\ Deathless(evts, j, k) => evts[k] - evts[j] = k - j
    /\ \A k \in DOMAIN evts :
          k > 1 /\ evts[k - 1] = Death /\ evts[k] # Death => evts[k] = 1
    /\ evts # <<>> => final = IF evts[Len(evts)] = Death THEN 0 ELSE evts[Len(evts)]

\* The line before the next event is n; or is not above n.
NextAfter(n, evts, final) ==
    IF evts = <<>> THEN final = n ELSE evts[1] # Death => evts[1] = n + 1
NotAfter(n, evts, final) ==
    IF evts = <<>> THEN final <= n ELSE evts[1] # Death => evts[1] <= n + 1

Ordered(entries) ==
    \A i, j \in DOMAIN entries :
        i < j /\ entries[i].seq # 0 /\ entries[j].seq # 0 => entries[i].seq < entries[j].seq

\* A first page may still be merged into the window.
Due(init, ps) == ~init \/ \E i \in DOMAIN ps : ps[i].op = "init" /\ ps[i].current

\* What is shown is what has been received.  While a first page is due, it has
\* no hole and its newest line is the last one that was received.
Shown(win, max, g, evts, final, due) ==
    /\ Ordered(win)
    /\ SeqsOf(win) \subseteq 1..max
    /\ max = 0 => NextAfter(g, evts, final)
    /\ max > 0 => /\ NotAfter(max, evts, final)
                  /\ \A n \in 1..MaxLines : n > g => (n \in SeqsOf(win) <=> n <= max)
                  /\ due => NextAfter(max, evts, final)
    /\ Deathless(evts, 1, Len(evts)) => max <= final
    /\ due /\ Len(win) < WindowCapacity =>
          \A n \in SeqsOf(win) : \A m \in n..max : m \in SeqsOf(win)

\* A page is of the backend whose lines are being received.
Ours(p, evts) == Deathless(evts, 1, p.behind)

PageOk(p, evts, final) ==
    /\ p.op = "init" => p.before = MaxLines + 1
    /\ \A k \in DOMAIN p.lines : p.lines[k] = Newest(p.lines) - Len(p.lines) + k
    /\ p.behind <= Len(evts)
    /\ p.stage = "asked" => p.behind = 0 /\ p.lines = <<>>
    /\ p.stage = "answered" /\ Deathless(evts, 1, Len(evts)) => Newest(p.lines) <= final

FirstPageOk(p, win, max, g, evts) ==
    p.op = "init" /\ p.stage = "answered" /\ Ours(p, evts) =>
        /\ p.behind > 0 => Newest(p.lines) = evts[p.behind]
        /\ p.behind = 0 /\ max = 0 => Newest(p.lines) = g
        /\ p.behind = 0 /\ max > 0 => Newest(p.lines) <= max
        /\ p.lines # <<>> /\ Len(win) < WindowCapacity =>
              \A m \in (Newest(p.lines) + 1)..max : m \in SeqsOf(win)

OlderPageOk(p, win, max, evts, init, due) ==
    p.op = "older" =>
        /\ init /\ p.before <= max
        /\ \A n \in SeqsOf(win) : \A m \in n..(p.before - 1) : m \in SeqsOf(win)
        /\ due /\ Len(win) < WindowCapacity => p.before \in SeqsOf(win)
        /\ p.stage = "answered" /\ Ours(p, evts) /\ p.lines # <<>> =>
              Newest(p.lines) = p.before - 1

CurrentOk(p, win, max, g, evts, final, init, due) ==
    p.current => /\ PageOk(p, evts, final)
                 /\ FirstPageOk(p, win, max, g, evts)
                 /\ OlderPageOk(p, win, max, evts, init, due)

OneOlder(ps) ==
    \A i, j \in DOMAIN ps :
       ps[i].current /\ ps[i].op = "older" /\ ps[j].current /\ ps[j].op = "older" => i = j

PagesOk(ps, win, max, g, evts, final, init) ==
    /\ \A i \in DOMAIN ps : CurrentOk(ps[i], win, max, g, evts, final, init, Due(init, ps))
    /\ OneOlder(ps)

WindowInv == Shown(window, maxSeq, gone, lineEvents, last, Due(initialized, pages))
PagesInv == PagesOk(pages, window, maxSeq, gone, lineEvents, last, initialized)

LogInv ==
    /\ LogTypes
    /\ Drained
    /\ Gapless(lineEvents, last)
    /\ overtook \/ (WindowInv /\ PagesInv)

-----------------------------------------------------------------------------
(* The operators. *)

LEMMA MaxOf ==
    ASSUME NEW N \in Nat, NEW S \in SUBSET (0..N), S # {}
    PROVE  Max(S) \in S /\ \A y \in S : y <= Max(S)
<1> DEFINE T == {N - x : x \in S}
<1>1. T \in SUBSET Nat /\ T # {}
  <2>1. \A x \in S : x \in 0..N /\ N - x \in Nat
    OBVIOUS
  <2>2. T \in SUBSET Nat
    BY <2>1
  <2>3. T # {}
    OBVIOUS
  <2> QED
    BY <2>2, <2>3
<1>2. PICK t \in T : \A u \in T : t <= u
  BY <1>1, LeastNat
<1>3. PICK x \in S : t = N - x
  BY <1>2
<1>4. \A y \in S : x >= y
  <2> TAKE y \in S
  <2>1. N - x <= N - y
    BY <1>2, <1>3
  <2> QED
    BY <2>1
<1>5. \E z \in S : \A y \in S : z >= y
  BY <1>4
<1>6. Max(S) \in S /\ \A y \in S : Max(S) >= y
  BY <1>5 DEF Max
<1> QED
  BY <1>6

LEMMA SeqsAre ==
    ASSUME NEW e \in Seq(Lines)
    PROVE  /\ SeqsOf(e) \subseteq 1..MaxLines
           /\ \A n : n \in SeqsOf(e) <=> n # 0 /\ \E i \in DOMAIN e : e[i].seq = n
<1>1. \A i \in DOMAIN e : e[i] \in Lines
  OBVIOUS
<1>2. \A i \in DOMAIN e : e[i].seq \in 0..MaxLines
  BY <1>1 DEF Lines
<1> QED
  BY <1>2, LogAssumption DEF SeqsOf

LEMMA TrimPlaces ==
    ASSUME NEW e \in Seq(Lines)
    PROVE  /\ Trimmed(e) \in Seq(Lines)
           /\ \E d \in Nat :
                 /\ Len(e) = Len(Trimmed(e)) + d
                 /\ \A k \in DOMAIN Trimmed(e) : k + d \in DOMAIN e /\ Trimmed(e)[k] = e[k + d]
                 /\ Len(Trimmed(e)) < WindowCapacity => d = 0
<1> DEFINE L == Len(e)
           W == WindowCapacity
           D == L - W
           t == SubSeq(e, D + 1, L)
<1>0. L \in Nat /\ DOMAIN e = 1..L
  OBVIOUS
<1>00. W \in Nat \ {0}
  BY LogAssumption
<1>1. CASE L <= W
  <2>1. Trimmed(e) = e
    BY <1>1 DEF Trimmed
  <2>2. \A k \in DOMAIN e : k + 0 \in DOMAIN e /\ e[k] = e[k + 0]
    BY <1>0
  <2>3. Len(e) = Len(e) + 0
    BY <1>0
  <2> QED
    BY <2>1, <2>2, <2>3
<1>2. CASE ~(L <= W)
  <2>1. Trimmed(e) = t
    BY <1>2 DEF Trimmed
  <2>2. D \in Nat /\ D + 1 \in 1..(L + 1) /\ L - (D + 1) + 1 = W /\ L = W + D
    BY <1>0, <1>00, <1>2
  <2>3. t \in Seq(Lines) /\ Len(t) = W
    <3> HIDE DEF D, W
    <3>1. t \in Seq(Lines) /\ Len(t) = L - (D + 1) + 1
      BY <1>0, <2>2
    <3> QED
      BY <3>1, <2>2
  <2>4. ASSUME NEW k \in 1..W PROVE k + D \in 1..L /\ t[k] = e[k + D]
    <3>1. k + D \in 1..L /\ (D + 1) + k - 1 = k + D
      BY <1>0, <1>00, <2>2
    <3> HIDE DEF D, W
    <3>2. k \in 1..(L - (D + 1) + 1)
      BY <2>2
    <3>3. t[k] = e[(D + 1) + k - 1]
      BY <3>2, <1>0, <2>2
    <3> QED
      BY <3>1, <3>3
  <2>5. DOMAIN t = 1..W
    BY <2>3
  <2> HIDE DEF t, D
  <2>6. Len(e) = Len(t) + D /\ ~(Len(t) < WindowCapacity)
    BY <2>2, <2>3, <1>00
  <2>7. \A k \in DOMAIN t : k + D \in DOMAIN e /\ t[k] = e[k + D]
    BY <2>4, <2>5, <1>0
  <2> QED
    BY <2>1, <2>2, <2>3, <2>6, <2>7
<1> QED
  BY <1>1, <1>2

\* The last entries keep their order, and with a line all that come after it.
LEMMA TailOrdered ==
    ASSUME NEW e \in Seq(Lines), NEW t \in Seq(Lines), NEW d \in Nat, Ordered(e),
           Len(e) = Len(t) + d,
           \A k \in DOMAIN t : k + d \in DOMAIN e /\ t[k] = e[k + d]
    PROVE  /\ Ordered(t)
           /\ SeqsOf(t) \subseteq SeqsOf(e)
           /\ \A n \in SeqsOf(t), m \in SeqsOf(e) : n <= m => m \in SeqsOf(t)
<1>3. Len(t) \in Nat /\ DOMAIN t = 1..Len(t) /\ DOMAIN e = 1..Len(e)
  OBVIOUS
<1>4. \A n : n \in SeqsOf(t) <=> n # 0 /\ \E i \in DOMAIN t : t[i].seq = n
  BY SeqsAre
<1>5. \A n : n \in SeqsOf(e) <=> n # 0 /\ \E i \in DOMAIN e : e[i].seq = n
  BY SeqsAre
<1>6. SeqsOf(t) \subseteq SeqsOf(e)
  <2> SUFFICES ASSUME NEW n \in SeqsOf(t) PROVE n \in SeqsOf(e)
    OBVIOUS
  <2>1. PICK i \in DOMAIN t : n # 0 /\ t[i].seq = n
    BY <1>4
  <2>2. i + d \in DOMAIN e /\ e[i + d].seq = n
    BY <2>1
  <2> QED
    BY <2>1, <2>2, <1>5
<1>7. ASSUME NEW i \in DOMAIN t, NEW j \in DOMAIN t, i < j, t[i].seq # 0, t[j].seq # 0
      PROVE  t[i].seq < t[j].seq
  <2>1. i + d < j + d
    BY <1>3, <1>7
  <2>2. i + d \in DOMAIN e /\ j + d \in DOMAIN e /\ t[i] = e[i + d] /\ t[j] = e[j + d]
    OBVIOUS
  <2>3. \A u, v \in DOMAIN e : u < v /\ e[u].seq # 0 /\ e[v].seq # 0 => e[u].seq < e[v].seq
    BY DEF Ordered
  <2> QED
    BY <2>1, <2>2, <2>3, <1>7
<1>8. ASSUME NEW n \in SeqsOf(t), NEW m \in SeqsOf(e), n <= m PROVE m \in SeqsOf(t)
  <2>1. PICK i \in DOMAIN t : n # 0 /\ t[i].seq = n
    BY <1>4
  <2>2. PICK j \in DOMAIN e : m # 0 /\ e[j].seq = m
    BY <1>5
  <2>3. i + d \in DOMAIN e /\ e[i + d].seq = n
    BY <2>1
  <2>4. n \in Nat /\ m \in Nat
    BY <1>6, SeqsAre
  <2>5. ASSUME j < i + d PROVE FALSE
    <3>1. \A u, v \in DOMAIN e : u < v /\ e[u].seq # 0 /\ e[v].seq # 0 => e[u].seq < e[v].seq
      BY DEF Ordered
    <3>2. m < n
      BY <3>1, <2>1, <2>2, <2>3, <2>5
    <3> QED
      BY <3>2, <2>4, <1>8
  <2>6. j - d \in DOMAIN t /\ j - d + d = j
    BY <2>5, <1>3
  <2>7. t[j - d] = e[j]
    BY <2>6
  <2> QED
    BY <2>2, <2>6, <2>7, <1>4
<1>9. Ordered(t)
  BY <1>7 DEF Ordered
<1> QED
  BY <1>6, <1>8, <1>9

LEMMA TrimOrdered ==
    ASSUME NEW e \in Seq(Lines), Ordered(e)
    PROVE  /\ Trimmed(e) \in Seq(Lines) /\ Ordered(Trimmed(e))
           /\ SeqsOf(Trimmed(e)) \subseteq SeqsOf(e)
           /\ \A n \in SeqsOf(Trimmed(e)), m \in SeqsOf(e) : n <= m => m \in SeqsOf(Trimmed(e))
           /\ Len(Trimmed(e)) <= Len(e)
           /\ Len(Trimmed(e)) < WindowCapacity => Trimmed(e) = e
<1>1. Trimmed(e) \in Seq(Lines)
  BY TrimPlaces
<1>2. PICK d \in Nat : /\ Len(e) = Len(Trimmed(e)) + d
                       /\ \A k \in DOMAIN Trimmed(e) : k + d \in DOMAIN e /\ Trimmed(e)[k] = e[k + d]
                       /\ Len(Trimmed(e)) < WindowCapacity => d = 0
  BY TrimPlaces
<1>3. /\ Ordered(Trimmed(e))
      /\ SeqsOf(Trimmed(e)) \subseteq SeqsOf(e)
      /\ \A n \in SeqsOf(Trimmed(e)), m \in SeqsOf(e) : n <= m => m \in SeqsOf(Trimmed(e))
  BY <1>1, <1>2, TailOrdered
<1>4. Len(Trimmed(e)) \in Nat /\ Len(e) \in Nat /\ WindowCapacity \in Nat \ {0}
  BY <1>1, LogAssumption
<1>5. Len(Trimmed(e)) < WindowCapacity => Trimmed(e) = e
  <2>1. Len(e) <= WindowCapacity => Trimmed(e) = e
    BY DEF Trimmed
  <2> QED
    BY <2>1, <1>2, <1>4
<1> QED
  BY <1>1, <1>2, <1>3, <1>4, <1>5

\* What is put on top of a full window does not get in.
LEMMA TrimOver ==
    ASSUME NEW a \in Seq(Lines), NEW b \in Seq(Lines), WindowCapacity <= Len(b)
    PROVE  Trimmed(a \o b) = Trimmed(b)
<1> DEFINE W == WindowCapacity
           A == Len(a)
           B == Len(b)
           c == a \o b
<1>0. W \in Nat \ {0}
  BY LogAssumption
<1>1. A \in Nat /\ B \in Nat /\ Len(c) = A + B /\ c \in Seq(Lines)
  OBVIOUS
<1>2. \A k \in 1..B : c[A + k] = b[k]
  BY <1>1
<1> DEFINE tb == SubSeq(b, B - W + 1, B)
           tc == SubSeq(c, A + B - W + 1, A + B)
<1>3. Trimmed(b) = tb
  <2>1. CASE B = W
    <3>1. Trimmed(b) = b
      BY <2>1, <1>0, <1>1 DEF Trimmed
    <3>2. tb = b
      BY <2>1, <1>0, <1>1
    <3> QED
      BY <3>1, <3>2
  <2>2. CASE B # W
    BY <2>2, <1>0, <1>1 DEF Trimmed
  <2> QED
    BY <2>1, <2>2
<1>4. Trimmed(c) = tc
  <2>1. CASE A + B = W
    <3>1. Trimmed(c) = c
      BY <2>1, <1>0, <1>1 DEF Trimmed
    <3>2. A + B - W + 1 = 1
      BY <2>1, <1>0, <1>1
    <3>3. SubSeq(c, 1, A + B) = c
      <4> HIDE DEF c, A, B
      <4> QED
        BY <1>1
    <3> QED
      BY <3>1, <3>2, <3>3
  <2>2. CASE A + B # W
    BY <2>2, <1>0, <1>1 DEF Trimmed
  <2> QED
    BY <2>1, <2>2
<1> HIDE DEF A, B, c, W
<1>5. tb \in Seq(Lines) /\ Len(tb) = W /\ \A k \in 1..W : tb[k] = b[B - W + k]
  <2>1. B - W + 1 \in 1..(B + 1) /\ B - (B - W + 1) + 1 = W /\ \A k \in 1..W : B - W + 1 + k - 1 = B - W + k
    BY <1>0, <1>1 DEF W, B
  <2> QED
    BY <2>1, <1>0, <1>1 DEF B
<1>6. tc \in Seq(Lines) /\ Len(tc) = W /\ \A k \in 1..W : tc[k] = c[A + B - W + k]
  <2>1. /\ A + B - W + 1 \in 1..(A + B + 1) /\ A + B - (A + B - W + 1) + 1 = W
        /\ \A k \in 1..W : A + B - W + 1 + k - 1 = A + B - W + k
    BY <1>0, <1>1 DEF W, B
  <2> QED
    BY <2>1, <1>0, <1>1
<1> HIDE DEF tb, tc
<1>7. ASSUME NEW k \in 1..W PROVE tb[k] = tc[k]
  <2>1. B - W + k \in 1..B /\ A + (B - W + k) = A + B - W + k
    BY <1>0, <1>1 DEF W, B
  <2>2. c[A + (B - W + k)] = b[B - W + k]
    BY <2>1, <1>2
  <2> QED
    BY <2>1, <2>2, <1>5, <1>6
<1>8. tb = tc
  BY <1>5, <1>6, <1>7
<1> QED
  BY <1>3, <1>4, <1>8 DEF c
LEMMA OneLineMore ==
    ASSUME NEW S, NEW s \in Seq(S), NEW x \in S
    PROVE  /\ Append(s, x) \in Seq(S) /\ Len(Append(s, x)) = Len(s) + 1
           /\ Len(s) \in Nat /\ DOMAIN s = 1..Len(s) /\ DOMAIN Append(s, x) = 1..(Len(s) + 1)
           /\ \A k \in DOMAIN s : Append(s, x)[k] = s[k]
           /\ Append(s, x)[Len(s) + 1] = x
           /\ Append(s, x) # <<>>
  OBVIOUS

LEMMA ElementOf ==
    ASSUME NEW S, NEW s \in Seq(S), NEW k \in DOMAIN s
    PROVE  s[k] \in S
  OBVIOUS

LEMMA NothingIn ==
    ASSUME NEW S, NEW s \in Seq(S)
    PROVE  s = <<>> <=> Len(s) = 0
  OBVIOUS

LEMMA NewestIs ==
    ASSUME NEW lines \in Seq(1..MaxLines)
    PROVE  /\ Newest(lines) \in 0..MaxLines
           /\ lines # <<>> => Newest(lines) \in 1..MaxLines
<1>1. CASE lines = <<>>
  BY <1>1, LogAssumption DEF Newest
<1>2. CASE lines # <<>>
  <2>1. Len(lines) \in Nat /\ DOMAIN lines = 1..Len(lines) /\ (lines = <<>> <=> Len(lines) = 0)
    BY NothingIn
  <2>2. lines[Len(lines)] \in 1..MaxLines
    <3>1. Len(lines) \in DOMAIN lines
      BY <2>1, <1>2
    <3> HIDE <2>1
    <3> QED
      BY <3>1, ElementOf
  <2>3. Newest(lines) = lines[Len(lines)]
    BY <1>2 DEF Newest
  <2> QED
    BY <2>2, <2>3, LogAssumption
<1> QED
  BY <1>1, <1>2

LEMMA OneLess ==
    ASSUME NEW S, NEW s \in Seq(S), s # <<>>
    PROVE  /\ Tail(s) \in Seq(S) /\ Len(Tail(s)) = Len(s) - 1
           /\ Len(s) \in Nat /\ Len(s) >= 1
           /\ DOMAIN s = 1..Len(s) /\ DOMAIN Tail(s) = 1..(Len(s) - 1)
           /\ \A k \in DOMAIN Tail(s) : Tail(s)[k] = s[k + 1]
           /\ Head(s) = s[1] /\ Head(s) \in S
           /\ Tail(s) = <<>> <=> Len(s) = 1
<1>1. Len(s) \in Nat /\ Len(s) >= 1 /\ DOMAIN s = 1..Len(s)
  OBVIOUS
<1>2. Tail(s) \in Seq(S) /\ Len(Tail(s)) = Len(s) - 1
  BY <1>1
<1>3. DOMAIN Tail(s) = 1..(Len(s) - 1)
  BY <1>1, <1>2
<1>4. \A k \in DOMAIN Tail(s) : Tail(s)[k] = s[k + 1]
  BY <1>1, <1>3
<1>5. Head(s) = s[1] /\ Head(s) \in S
  BY <1>1
<1>6. Tail(s) = <<>> <=> Len(s) = 1
  <2>1. Tail(s) = <<>> <=> Len(Tail(s)) = 0
    BY <1>2, NothingIn
  <2> QED
    BY <1>1, <1>2, <2>1
<1> QED
  BY <1>1, <1>2, <1>3, <1>4, <1>5, <1>6

LEMMA JoinedIs ==
    ASSUME NEW a \in Seq(Lines), NEW b \in Seq(Lines)
    PROVE  /\ a \o b \in Seq(Lines)
           /\ SeqsOf(a \o b) = SeqsOf(a) \cup SeqsOf(b)
           /\ Len(a \o b) >= Len(b)
           /\ Ordered(a) /\ Ordered(b) /\ (\A x \in SeqsOf(a), y \in SeqsOf(b) : x < y)
                 => Ordered(a \o b)
<1> DEFINE c == a \o b
           A == Len(a)
           B == Len(b)
<1>1. A \in Nat /\ B \in Nat /\ c \in Seq(Lines) /\ Len(c) = A + B
  OBVIOUS
<1>2. DOMAIN a = 1..A /\ DOMAIN b = 1..B /\ DOMAIN c = 1..(A + B)
  BY <1>1
<1>3. \A k \in 1..A : c[k] = a[k]
  OBVIOUS
<1>4. \A k \in 1..B : c[A + k] = b[k]
  BY <1>1
<1> HIDE DEF A, B, c
<1>5. /\ \A n : n \in SeqsOf(a) <=> n # 0 /\ \E i \in 1..A : a[i].seq = n
      /\ \A n : n \in SeqsOf(b) <=> n # 0 /\ \E i \in 1..B : b[i].seq = n
      /\ \A n : n \in SeqsOf(c) <=> n # 0 /\ \E i \in 1..(A + B) : c[i].seq = n
  BY <1>1, <1>2, SeqsAre
<1>6. ASSUME NEW k \in 1..(A + B)
      PROVE  \/ k \in 1..A /\ c[k] = a[k]
             \/ k - A \in 1..B /\ c[k] = b[k - A] /\ ~(k <= A)
  <2>1. CASE k <= A
    BY <2>1, <1>1, <1>3
  <2>2. CASE ~(k <= A)
    <3>1. k - A \in 1..B /\ A + (k - A) = k
      BY <2>2, <1>1
    <3> QED
      BY <3>1, <2>2, <1>4
  <2> QED
    BY <2>1, <2>2
<1>7. SeqsOf(c) = SeqsOf(a) \cup SeqsOf(b)
  <2>1. SUFFICES ASSUME NEW n PROVE n \in SeqsOf(c) <=> n \in SeqsOf(a) \/ n \in SeqsOf(b)
    OBVIOUS
  <2>2. ASSUME n \in SeqsOf(c) PROVE n \in SeqsOf(a) \/ n \in SeqsOf(b)
    <3>1. PICK k \in 1..(A + B) : n # 0 /\ c[k].seq = n
      BY <2>2, <1>5
    <3>2. \/ k \in 1..A /\ c[k] = a[k]
          \/ k - A \in 1..B /\ c[k] = b[k - A]
      BY <1>6
    <3> QED
      BY <3>1, <3>2, <1>5
  <2>3. ASSUME n \in SeqsOf(a) PROVE n \in SeqsOf(c)
    <3>1. PICK k \in 1..A : n # 0 /\ a[k].seq = n
      BY <2>3, <1>5
    <3>2. k \in 1..(A + B) /\ c[k] = a[k]
      BY <1>1, <1>3
    <3> QED
      BY <3>1, <3>2, <1>5
  <2>4. ASSUME n \in SeqsOf(b) PROVE n \in SeqsOf(c)
    <3>1. PICK k \in 1..B : n # 0 /\ b[k].seq = n
      BY <2>4, <1>5
    <3>2. A + k \in 1..(A + B) /\ c[A + k] = b[k]
      BY <1>1, <1>4
    <3> QED
      BY <3>1, <3>2, <1>5
  <2> QED
    BY <2>2, <2>3, <2>4
<1>8. ASSUME Ordered(a), Ordered(b), \A x \in SeqsOf(a), y \in SeqsOf(b) : x < y
      PROVE  Ordered(c)
  <2>1. ASSUME NEW i \in 1..(A + B), NEW j \in 1..(A + B), i < j, c[i].seq # 0, c[j].seq # 0
        PROVE  c[i].seq < c[j].seq
    <3>1. CASE j <= A
      <4>1. i \in 1..A /\ j \in 1..A /\ c[i] = a[i] /\ c[j] = a[j]
        <5> HIDE DEF A, B, c
        <5>1. i \in 1..A /\ j \in 1..A
          BY <3>1, <2>1, <1>1
        <5> QED
          BY <5>1, <1>3
      <4> QED
        BY <4>1, <2>1, <1>2, <1>8 DEF Ordered
    <3>2. CASE ~(i <= A)
      <4>1. i - A \in 1..B /\ c[i] = b[i - A]
        BY <3>2, <1>6
      <4>2. j - A \in 1..B /\ c[j] = b[j - A] /\ i - A < j - A
        BY <3>2, <2>1, <1>6, <1>1
      <4> QED
        BY <4>1, <4>2, <2>1, <1>2, <1>8 DEF Ordered
    <3>3. CASE i <= A /\ ~(j <= A)
      <4>1. i \in 1..A /\ c[i] = a[i] /\ j - A \in 1..B /\ c[j] = b[j - A]
        BY <3>3, <1>6, <1>3, <1>1
      <4>2. c[i].seq \in SeqsOf(a) /\ c[j].seq \in SeqsOf(b)
        BY <4>1, <2>1, <1>5
      <4> QED
        BY <4>2, <1>8
    <3> QED
      BY <3>1, <3>2, <3>3
  <2> QED
    BY <2>1, <1>2 DEF Ordered
<1>9. Len(c) >= Len(b)
  BY <1>1 DEF B
<1> QED
  BY <1>1, <1>7, <1>8, <1>9 DEF c

\* A line below all others.
LEMMA LineBelow ==
    ASSUME NEW e \in Seq(Lines), NEW l \in Lines
    PROVE  /\ Append(e, l) \in Seq(Lines)
           /\ SeqsOf(Append(e, l)) = SeqsOf(e) \cup ({l.seq} \ {0})
           /\ Ordered(e) /\ (\A n \in SeqsOf(e) : l.seq = 0 \/ n < l.seq) => Ordered(Append(e, l))
<1> DEFINE t == <<l>>
<1>1. t \in Seq(Lines) /\ DOMAIN t = {1} /\ t[1] = l
  OBVIOUS
<1>2. e \o t = Append(e, l)
  OBVIOUS
<1> HIDE DEF t
<1>3. \A n : n \in SeqsOf(t) <=> n # 0 /\ l.seq = n
  BY <1>1, SeqsAre
<1>4. Ordered(t)
  BY <1>1 DEF Ordered
<1>5. /\ e \o t \in Seq(Lines)
      /\ SeqsOf(e \o t) = SeqsOf(e) \cup SeqsOf(t)
      /\ Ordered(e) /\ Ordered(t) /\ (\A x \in SeqsOf(e), y \in SeqsOf(t) : x < y)
                 => Ordered(e \o t)
  BY <1>1, JoinedIs
<1>6. (\A n \in SeqsOf(e) : l.seq = 0 \/ n < l.seq) => \A x \in SeqsOf(e), y \in SeqsOf(t) : x < y
  BY <1>3
<1>7. SeqsOf(t) = {l.seq} \ {0}
  BY <1>3
<1> QED
  BY <1>2, <1>4, <1>5, <1>6, <1>7

\* mis has the lines of a page that the window does not have, at the places h.
MissingAt(h, mis, lines) ==
    /\ h \in [1..Len(mis) -> 1..Len(lines)]
    /\ \A k \in DOMAIN h : lines[h[k]] \notin Seqs /\ mis[k].seq = lines[h[k]]
    /\ \A n \in 1..Len(lines) : lines[n] \notin Seqs => \E k \in DOMAIN h : h[k] = n
    /\ \A j, k \in DOMAIN h : j < k => h[j] < h[k]

\* The lines of a page that the window does not have, at the places where they were.
LEMMA MissingPlaces ==
    ASSUME NEW lines \in Seq(1..MaxLines)
    PROVE  /\ Missing(lines) \in Seq(Lines)
           /\ \E h : MissingAt(h, Missing(lines), lines)
<1> DEFINE R == 1..MaxLines
           keep == {k \in DOMAIN lines : lines[k] \notin Seqs}
           new == Filtered(lines, keep)
           mis == [k \in DOMAIN new |-> [seq |-> new[k], young |-> TRUE]]
<1>1. lines \in Seq(R)
  OBVIOUS
<1>1a. DOMAIN lines = 1..Len(lines)
  OBVIOUS
<1>2. Missing(lines) = mis
  BY DEF Missing
<1> HIDE DEF keep, R
<1>3. new \in Seq(R) /\ \E h : Picks(h, new, lines, keep)
  BY <1>1, FilteredPlaces
<1> HIDE DEF new
<1>4. Len(new) \in Nat /\ DOMAIN new = 1..Len(new)
  BY <1>3
<1>5a. PICK h : Picks(h, new, lines, keep)
  BY <1>3
<1>5. /\ h \in [1..Len(new) -> 1..Len(lines)]
      /\ \A k \in DOMAIN h : h[k] \in keep /\ new[k] = lines[h[k]]
      /\ \A n \in 1..Len(lines) : n \in keep => \E k \in DOMAIN h : h[k] = n
      /\ \A j, k \in DOMAIN h : j < k => h[j] < h[k]
  BY <1>5a DEF Picks
<1>6. mis \in Seq(Lines) /\ Len(mis) = Len(new)
  <2>1. \A k \in 1..Len(new) : new[k] \in R
    BY <1>3, <1>4, ElementOf
  <2>2. \A k \in 1..Len(new) : [seq |-> new[k], young |-> TRUE] \in Lines
    BY <2>1, LogAssumption DEF Lines, R
  <2>3. mis \in [1..Len(new) -> Lines]
    BY <2>2, <1>4
  <2> QED
    BY <2>3, <1>4
<1>7. \A k \in 1..Len(new) : mis[k].seq = new[k]
  BY <1>4
<1> HIDE DEF mis
<1>8. \A n \in 1..Len(lines) : n \in keep <=> lines[n] \notin Seqs
  BY <1>1a DEF keep
<1>9. DOMAIN h = 1..Len(new) /\ \A k \in 1..Len(new) : h[k] \in 1..Len(lines)
  BY <1>5
<1>10. /\ \A k \in DOMAIN h : lines[h[k]] \notin Seqs /\ mis[k].seq = lines[h[k]]
       /\ \A n \in 1..Len(lines) : lines[n] \notin Seqs => \E k \in DOMAIN h : h[k] = n
       /\ \A j, k \in DOMAIN h : j < k => h[j] < h[k]
  <2> HIDE DEF Seqs
  <2> QED
    BY <1>5, <1>7, <1>8, <1>9
<1>11. h \in [1..Len(mis) -> 1..Len(lines)]
  BY <1>5, <1>6
<1>12. MissingAt(h, mis, lines)
  BY <1>10, <1>11 DEF MissingAt
<1> QED
  BY <1>2, <1>6, <1>12

\* The lines of a page are consecutive: the ones that are missing in the window
\* are in order.
LEMMA MissingIs ==
    ASSUME NEW lines \in Seq(1..MaxLines),
           \A k \in DOMAIN lines : lines[k] = Newest(lines) - Len(lines) + k
    PROVE  /\ Missing(lines) \in Seq(Lines)
           /\ Ordered(Missing(lines))
           /\ SeqsOf(Missing(lines)) = {lines[k] : k \in DOMAIN lines} \ Seqs
           /\ lines = <<>> => Missing(lines) = <<>>
<1> DEFINE mis == Missing(lines)
<1>1. mis \in Seq(Lines) /\ \E h : MissingAt(h, mis, lines)
  BY MissingPlaces
<1>3. Len(lines) \in Nat /\ DOMAIN lines = 1..Len(lines)
  OBVIOUS
<1> HIDE DEF mis
<1>2. mis \in Seq(Lines)
  BY <1>1
<1>4. Len(mis) \in Nat /\ DOMAIN mis = 1..Len(mis)
  BY <1>1
<1>5a. PICK h : MissingAt(h, mis, lines)
  BY <1>1
<1>5. /\ h \in [1..Len(mis) -> 1..Len(lines)]
      /\ \A k \in DOMAIN h : lines[h[k]] \notin Seqs /\ mis[k].seq = lines[h[k]]
      /\ \A n \in 1..Len(lines) : lines[n] \notin Seqs => \E k \in DOMAIN h : h[k] = n
      /\ \A j, k \in DOMAIN h : j < k => h[j] < h[k]
  BY <1>5a DEF MissingAt
<1>6. DOMAIN h = 1..Len(mis) /\ \A k \in 1..Len(mis) : h[k] \in 1..Len(lines)
  BY <1>5
<1>7. \A k \in 1..Len(mis) : mis[k].seq = lines[h[k]] /\ lines[h[k]] \notin Seqs
  BY <1>5, <1>6
<1>8. \A n \in 1..Len(lines) : lines[n] \notin Seqs => \E k \in 1..Len(mis) : h[k] = n
  BY <1>5, <1>6
<1>9. \A j, k \in 1..Len(mis) : j < k => h[j] < h[k]
  BY <1>5, <1>6
<1>0. \A k \in 1..Len(lines) : lines[k] \in 1..MaxLines
  BY <1>3, ElementOf
<1>10. Ordered(mis)
  <2>1. ASSUME NEW i \in 1..Len(mis), NEW j \in 1..Len(mis), i < j PROVE mis[i].seq < mis[j].seq
    <3>1. h[i] < h[j] /\ h[i] \in 1..Len(lines) /\ h[j] \in 1..Len(lines)
      BY <2>1, <1>6, <1>9
    <3>2. lines[h[i]] = Newest(lines) - Len(lines) + h[i] /\ lines[h[j]] = Newest(lines) - Len(lines) + h[j]
      BY <3>1, <1>3
    <3>3. lines[h[i]] \in 1..MaxLines /\ lines[h[j]] \in 1..MaxLines
      BY <3>1, <1>0
    <3>4. Newest(lines) \in Int
      <4>1. CASE lines = <<>>
        BY <4>1 DEF Newest
      <4>2. CASE lines # <<>>
        <5>1. Len(lines) \in 1..Len(lines)
          BY <4>2, <1>3
        <5>2. lines[Len(lines)] \in 1..MaxLines
          BY <5>1, <1>0
        <5> QED
          BY <5>2, <4>2 DEF Newest
      <4> QED
        BY <4>1, <4>2
    <3>5. lines[h[i]] < lines[h[j]]
      BY <3>1, <3>2, <3>3, <3>4, <1>3
    <3> QED
      BY <3>5, <1>7
  <2> QED
    BY <2>1, <1>4 DEF Ordered
<1>11. SeqsOf(mis) = {lines[k] : k \in DOMAIN lines} \ Seqs
  <2>1. \A n : n \in SeqsOf(mis) <=> n # 0 /\ \E i \in 1..Len(mis) : mis[i].seq = n
    BY <1>2, <1>4, SeqsAre
  <2>2. \A k \in DOMAIN lines : lines[k] # 0
    BY <1>0, <1>3, LogAssumption
  <2>3. ASSUME NEW n \in SeqsOf(mis) PROVE n \in {lines[k] : k \in DOMAIN lines} \ Seqs
    <3>1. PICK i \in 1..Len(mis) : mis[i].seq = n
      BY <2>1
    <3> QED
      BY <3>1, <1>6, <1>7, <1>3
  <2>4. ASSUME NEW n \in {lines[k] : k \in DOMAIN lines} \ Seqs PROVE n \in SeqsOf(mis)
    <3>1. PICK k \in DOMAIN lines : n = lines[k]
      OBVIOUS
    <3>2. k \in 1..Len(lines) /\ lines[k] \notin Seqs
      BY <3>1, <1>3
    <3>3. PICK i \in 1..Len(mis) : h[i] = k
      BY <3>2, <1>8
    <3> QED
      BY <3>1, <3>3, <2>1, <2>2, <1>7
  <2> QED
    BY <2>3, <2>4
<1>12. lines = <<>> => mis = <<>>
  <2> SUFFICES ASSUME lines = <<>> PROVE mis = <<>>
    OBVIOUS
  <2>1. Len(lines) = 0
    OBVIOUS
  <2>2. ~(1 \in 1..Len(mis))
    BY <2>1, <1>6
  <2>3. Len(mis) = 0
    BY <2>2, <1>4
  <2> QED
    BY <2>3, <1>1, NothingIn
<1> QED
  BY <1>1, <1>10, <1>11, <1>12 DEF mis

\* What has left the window is not above gone.
LEMMA GoneIs ==
    ASSUME gone \in 0..MaxLines, NEW entries, NEW all \in SUBSET (1..MaxLines)
    PROVE  /\ GoneWith(entries, all) \in 0..MaxLines
           /\ GoneWith(entries, all) >= gone
           /\ \A n \in all : n > GoneWith(entries, all) => n \in SeqsOf(entries)
           /\ all \subseteq SeqsOf(entries) => GoneWith(entries, all) = gone
<1> DEFINE S == {gone} \cup (all \ SeqsOf(entries))
<1>1. S \in SUBSET (0..MaxLines) /\ S # {} /\ gone \in S /\ MaxLines \in Nat
  <2>1. MaxLines \in Nat
    BY LogAssumption
  <2>2. \A n \in all : n \in 0..MaxLines
    BY <2>1
  <2>3. gone \in S
    OBVIOUS
  <2>4. S \in SUBSET (0..MaxLines)
    BY <2>2
  <2> QED
    BY <2>1, <2>3, <2>4
<1>2. GoneWith(entries, all) = Max(S)
  BY DEF GoneWith
<1>3. all \subseteq SeqsOf(entries) => S = {gone}
  OBVIOUS
<1>4. \A n \in all : n \in SeqsOf(entries) \/ n \in S
  OBVIOUS
<1> HIDE DEF S
<1>5. Max(S) \in S /\ \A y \in S : y <= Max(S)
  BY <1>1, MaxOf
<1>6. Max(S) \in 0..MaxLines /\ Max(S) >= gone
  BY <1>1, <1>5
<1>7. \A n \in all : n > Max(S) => n \in SeqsOf(entries)
  <2> SUFFICES ASSUME NEW n \in all, n > Max(S), n \notin SeqsOf(entries) PROVE FALSE
    OBVIOUS
  <2>1. n <= Max(S)
    BY <1>4, <1>5
  <2>2. n \in Int /\ Max(S) \in Int
    <3> DEFINE m == Max(S)
    <3>1. MaxLines \in Nat /\ m \in 0..MaxLines
      BY <1>6, LogAssumption
    <3>2. n \in 0..MaxLines
      BY <3>1
    <3> HIDE DEF m
    <3>3. n \in Int /\ m \in Int
      BY <3>1, <3>2
    <3> QED
      BY <3>3 DEF m
  <2> QED
    BY <2>1, <2>2
<1>8. all \subseteq SeqsOf(entries) => Max(S) = gone
  BY <1>3, <1>5
<1> QED
  BY <1>2, <1>6, <1>7, <1>8

\* A page: consecutive lines, the last one before the line it is asked for.
LEMMA RecentIs ==
    ASSUME last \in 0..MaxLines, kept \in 1..(last + 1), NEW before \in 1..(MaxLines + 1)
    PROVE  /\ RecentBefore(before) \in Seq(1..MaxLines)
           /\ \A k \in DOMAIN RecentBefore(before) :
                 RecentBefore(before)[k] = Newest(RecentBefore(before)) - Len(RecentBefore(before)) + k
           /\ Newest(RecentBefore(before)) <= last
           /\ before <= last /\ RecentBefore(before) # <<>> => Newest(RecentBefore(before)) = before - 1
           /\ before > last /\ (last > 0 => kept <= last) => Newest(RecentBefore(before)) = last
<1> DEFINE end == IF before > last THEN last ELSE before - 1
           start == IF end - PageSize + 1 < kept THEN kept ELSE end - PageSize + 1
           N == end - start + 1
           page == [k \in 1..N |-> start + k - 1]
<1>1. RecentBefore(before) = page
  BY DEF RecentBefore
<1>2. end \in Nat /\ end <= last /\ start \in Nat /\ start >= 1 /\ N \in Int /\ MaxLines \in Nat /\ PageSize \in Nat \ {0}
  BY LogAssumption
<1>3. end > 0 /\ kept <= end => start <= end
  BY LogAssumption
<1>4. (before > last => end = last) /\ (before <= last => end = before - 1)
  OBVIOUS
<1>5. start = kept \/ (start <= end /\ kept <= start)
  BY LogAssumption
<1> HIDE DEF end, start
<1>6. CASE N <= 0
  <2>1. page = <<>>
    BY <1>6, <1>2
  <2>2. Newest(page) = 0
    BY <2>1 DEF Newest
  <2>3. before > last /\ (last > 0 => kept <= last) => last = 0
    BY <1>2, <1>3, <1>4, <1>6
  <2> QED
    BY <2>1, <2>2, <2>3, <1>1, <1>2, <1>6
<1>7. CASE N > 0
  <2>1. \A k \in 1..N : start + k - 1 \in 1..MaxLines
    BY <1>2, <1>7
  <2>2. page \in Seq(1..MaxLines) /\ Len(page) = N /\ DOMAIN page = 1..N
    BY <2>1, <1>2, <1>7
  <2>3. N \in 1..N /\ page[N] = start + N - 1
    BY <1>2, <1>7
  <2>4. page # <<>>
    <3> HIDE DEF page
    <3>1. page = <<>> <=> Len(page) = 0
      BY <2>2, NothingIn
    <3> QED
      BY <3>1, <2>2, <1>7
  <2>5. Newest(page) = end
    <3>1. Newest(page) = page[N]
      BY <2>2, <2>4 DEF Newest
    <3> QED
      BY <3>1, <2>3, <1>2
  <2>6. \A k \in 1..N : page[k] = end - N + k
    BY <1>2
  <2> HIDE DEF page, N
  <2> QED
    BY <2>2, <2>5, <2>6, <1>1, <1>2, <1>4
<1> QED
  BY <1>2, <1>6, <1>7
-----------------------------------------------------------------------------
(* The evts. *)

LEMMA EventsAre ==
    ASSUME NEW evts \in Events, NEW final \in 0..MaxLines, Gapless(evts, final)
    PROVE  /\ Len(evts) \in Nat /\ DOMAIN evts = 1..Len(evts)
           /\ evts = <<>> <=> Len(evts) = 0
           /\ \A k \in 1..Len(evts) : evts[k] \in Int /\ (evts[k] # Death => evts[k] \in 1..MaxLines)
           /\ \A b \in 1..Len(evts) : Deathless(evts, 1, b) => evts[b] = evts[1] + b - 1
           /\ Deathless(evts, 1, Len(evts)) /\ evts # <<>> => final >= evts[1]
<1>1. Len(evts) \in Nat /\ DOMAIN evts = 1..Len(evts)
  BY DEF Events
<1>2. evts = <<>> <=> Len(evts) = 0
  <2> DEFINE S == (1..MaxLines) \cup {Death}
  <2>1. evts \in Seq(S)
    BY DEF Events
  <2> HIDE DEF S
  <2> QED
    BY <2>1, NothingIn
<1>3. \A k \in 1..Len(evts) : evts[k] \in Int /\ (evts[k] # Death => evts[k] \in 1..MaxLines)
  <2> SUFFICES ASSUME NEW k \in 1..Len(evts)
               PROVE  evts[k] \in Int /\ (evts[k] # Death => evts[k] \in 1..MaxLines)
    OBVIOUS
  <2>1. evts[k] \in (1..MaxLines) \cup {Death}
    BY <1>1, ElementOf DEF Events
  <2> QED
    BY <2>1, LogAssumption DEF Death
<1>4. ASSUME NEW b \in 1..Len(evts), Deathless(evts, 1, b) PROVE evts[b] = evts[1] + b - 1
  <2>1. 1 \in DOMAIN evts /\ b \in DOMAIN evts /\ 1 <= b
    BY <1>1
  <2>2. evts[b] - evts[1] = b - 1
    BY <2>1, <1>4 DEF Gapless
  <2>3. evts[b] \in Int /\ evts[1] \in Int
    BY <2>1, <1>1, <1>3
  <2> QED
    BY <2>2, <2>3, <2>1, <1>1
<1>5. ASSUME Deathless(evts, 1, Len(evts)), evts # <<>> PROVE final >= evts[1]
  <2>1. Len(evts) \in 1..Len(evts) /\ 1 \in 1..Len(evts)
    BY <1>1, <1>2, <1>5
  <2>2. evts[Len(evts)] # Death
    BY <2>1, <1>5 DEF Deathless
  <2>3. final = evts[Len(evts)]
    BY <2>2, <1>5 DEF Gapless
  <2>4. evts[Len(evts)] = evts[1] + Len(evts) - 1
    BY <2>1, <1>4, <1>5
  <2>5. evts[1] \in Int
    BY <2>1, <1>3
  <2> QED
    BY <2>1, <2>3, <2>4, <2>5, <1>1
<1> QED
  BY <1>1, <1>2, <1>3, <1>4, <1>5

\* What one more event leaves as it was.
Grown(evts, final, ev, fin) ==
    /\ Len(ev) = Len(evts) + 1
    /\ \A k \in 1..Len(evts) : ev[k] = evts[k]
    /\ ev # <<>>
    /\ Deathless(ev, 1, Len(ev)) => final <= fin
    /\ evts = <<>> => ev[1] = Death \/ ev[1] = final + 1

LEMMA LineCommitted ==
    ASSUME NEW evts \in Events, NEW final \in 0..MaxLines, Gapless(evts, final), final < MaxLines
    PROVE  /\ Append(evts, final + 1) \in Events
           /\ Gapless(Append(evts, final + 1), final + 1)
           /\ Grown(evts, final, Append(evts, final + 1), final + 1)
<1> DEFINE ev == Append(evts, final + 1)
           L == Len(evts)
           S == (1..MaxLines) \cup {Death}
<1>0. MaxLines \in Nat /\ final + 1 \in S /\ final + 1 # Death /\ final \in Nat
  BY LogAssumption DEF Death
<1>1. evts \in Seq(S)
  BY DEF Events
<1>2. /\ ev \in Seq(S) /\ Len(ev) = L + 1
      /\ L \in Nat /\ DOMAIN evts = 1..L /\ DOMAIN ev = 1..(L + 1)
      /\ \A k \in DOMAIN evts : ev[k] = evts[k]
      /\ ev[L + 1] = final + 1
      /\ ev # <<>>
  <2> HIDE DEF S
  <2> QED
    BY <1>0, <1>1, OneLineMore
<1>3. evts = <<>> <=> L = 0
  BY EventsAre
<1> HIDE DEF ev
<1>4. ASSUME NEW j \in 1..(L + 1), NEW k \in 1..(L + 1), j <= k, Deathless(ev, j, k)
      PROVE  ev[k] - ev[j] = k - j
  <2>1. CASE k \in 1..L
    <3>1. j \in 1..L
      BY <2>1, <1>4, <1>2
    <3>2. Deathless(evts, j, k)
      <4>1. \A m \in j..k : m \in 1..L
        BY <2>1, <3>1, <1>2
      <4> QED
        BY <4>1, <1>4, <1>2 DEF Deathless
    <3> QED
      BY <2>1, <3>1, <3>2, <1>4, <1>2 DEF Gapless
  <2>2. CASE k = L + 1 /\ j = L + 1
    BY <2>2, <1>2, <1>0
  <2>3. CASE k = L + 1 /\ j \in 1..L
    <3>1. L \in 1..L /\ L \in j..k
      BY <2>3, <1>2
    <3>2. evts[L] # Death
      BY <3>1, <1>4, <1>2 DEF Deathless
    <3>3. final = evts[L]
      BY <3>1, <3>2, <1>3, <1>2 DEF Gapless
    <3>4. Deathless(evts, j, L)
      <4>1. \A m \in j..L : m \in 1..L /\ m \in j..k
        BY <2>3, <1>2
      <4> QED
        BY <4>1, <1>4, <1>2 DEF Deathless
    <3>5. evts[L] - evts[j] = L - j
      BY <3>1, <3>4, <2>3, <1>2 DEF Gapless
    <3>6. evts[j] \in Int
      BY <2>3, EventsAre
    <3>7. ev[k] = final + 1 /\ ev[j] = evts[j]
      BY <2>3, <1>2
    <3> HIDE DEF L
    <3> QED
      BY <2>3, <3>3, <3>5, <3>6, <3>7, <1>0, <1>2
  <2> QED
    BY <2>1, <2>2, <2>3, <1>2
<1>5. ASSUME NEW k \in 1..(L + 1), k > 1, ev[k - 1] = Death, ev[k] # Death PROVE ev[k] = 1
  <2>1. k - 1 \in 1..L
    BY <1>5, <1>2
  <2>2. CASE k \in 1..L
    BY <2>1, <2>2, <1>5, <1>2 DEF Gapless
  <2>3. CASE k = L + 1
    <3>1. evts[L] = Death /\ L # 0
      BY <2>1, <2>3, <1>5, <1>2
    <3>2. final = 0
      BY <3>1, <1>3 DEF Gapless
    <3> QED
      BY <3>2, <2>3, <1>2
  <2> QED
    BY <2>2, <2>3, <1>2
<1>6. Gapless(ev, final + 1)
  BY <1>0, <1>2, <1>4, <1>5 DEF Gapless
<1>7. Grown(evts, final, ev, final + 1)
  <2>1. evts = <<>> => ev[1] = final + 1
    BY <1>2, <1>3
  <2>2. final <= final + 1
    BY <1>0
  <2> QED
    BY <2>1, <2>2, <1>2 DEF Grown
<1>8. ev \in Events
  BY <1>2 DEF Events
<1> QED
  BY <1>6, <1>7, <1>8 DEF ev

LEMMA DeathPublished ==
    ASSUME NEW evts \in Events, NEW final \in 0..MaxLines, Gapless(evts, final)
    PROVE  /\ Append(evts, Death) \in Events
           /\ Gapless(Append(evts, Death), 0)
           /\ Grown(evts, final, Append(evts, Death), 0)
<1> DEFINE ev == Append(evts, Death)
           L == Len(evts)
           S == (1..MaxLines) \cup {Death}
<1>0. Death \in S
  OBVIOUS
<1>1. evts \in Seq(S)
  BY DEF Events
<1>2. /\ ev \in Seq(S) /\ Len(ev) = L + 1
      /\ L \in Nat /\ DOMAIN evts = 1..L /\ DOMAIN ev = 1..(L + 1)
      /\ \A k \in DOMAIN evts : ev[k] = evts[k]
      /\ ev[L + 1] = Death
      /\ ev # <<>>
  <2> HIDE DEF S
  <2> QED
    BY <1>0, <1>1, OneLineMore
<1>3. evts = <<>> <=> L = 0
  BY EventsAre
<1> HIDE DEF ev
<1>4. ASSUME NEW j \in 1..(L + 1), NEW k \in 1..(L + 1), j <= k, Deathless(ev, j, k)
      PROVE  ev[k] - ev[j] = k - j
  <2>1. k # L + 1
    <3>1. k \in j..k
      BY <1>4, <1>2
    <3> QED
      BY <3>1, <1>4, <1>2 DEF Deathless
  <2>2. k \in 1..L /\ j \in 1..L
    BY <2>1, <1>4, <1>2
  <2>3. Deathless(evts, j, k)
    <3>1. \A m \in j..k : m \in 1..L
      BY <2>2, <1>2
    <3> QED
      BY <3>1, <1>4, <1>2 DEF Deathless
  <2> QED
    BY <2>2, <2>3, <1>4, <1>2 DEF Gapless
<1>5. ASSUME NEW k \in 1..(L + 1), k > 1, ev[k - 1] = Death, ev[k] # Death PROVE ev[k] = 1
  <2>1. k \in 1..L /\ k - 1 \in 1..L
    BY <1>5, <1>2
  <2> QED
    BY <2>1, <1>5, <1>2 DEF Gapless
<1>6. Gapless(ev, 0)
  BY <1>2, <1>4, <1>5 DEF Gapless
<1>7. Grown(evts, final, ev, 0)
  <2>1. evts = <<>> => ev[1] = Death
    BY <1>2, <1>3
  <2>2. ~Deathless(ev, 1, Len(ev))
    BY <1>2 DEF Deathless
  <2> QED
    BY <2>1, <2>2, <1>2 DEF Grown
<1>8. ev \in Events
  BY <1>2 DEF Events
<1> QED
  BY <1>6, <1>7, <1>8 DEF ev

\* The first event is received.
LEMMA EventReceived ==
    ASSUME NEW evts \in Events, NEW final \in 0..MaxLines, Gapless(evts, final), evts # <<>>
    PROVE  /\ Tail(evts) \in Events
           /\ Gapless(Tail(evts), final)
           /\ Len(Tail(evts)) = Len(evts) - 1
           /\ Head(evts) = evts[1]
           /\ \A k \in 1..(Len(evts) - 1) : Tail(evts)[k] = evts[k + 1]
           /\ evts[1] # Death => NextAfter(evts[1], Tail(evts), final)
           /\ evts[1] = Death => NextAfter(0, Tail(evts), final)
<1> DEFINE ev == Tail(evts)
           L == Len(evts)
           S == (1..MaxLines) \cup {Death}
<1>1. evts \in Seq(S)
  BY DEF Events
<1>2. /\ ev \in Seq(S) /\ Len(ev) = L - 1
      /\ L \in Nat /\ L >= 1
      /\ DOMAIN evts = 1..L /\ DOMAIN ev = 1..(L - 1)
      /\ \A k \in DOMAIN ev : ev[k] = evts[k + 1]
      /\ Head(evts) = evts[1]
      /\ ev = <<>> <=> L = 1
  <2> HIDE DEF S
  <2> QED
    BY <1>1, OneLess
<1> HIDE DEF ev
<1>4. ASSUME NEW j \in 1..(L - 1), NEW k \in 1..(L - 1), j <= k, Deathless(ev, j, k)
      PROVE  ev[k] - ev[j] = k - j
  <2>1. j + 1 \in 1..L /\ k + 1 \in 1..L /\ j + 1 <= k + 1
    BY <1>4, <1>2
  <2>2. Deathless(evts, j + 1, k + 1)
    <3> SUFFICES ASSUME NEW m \in (j + 1)..(k + 1) PROVE evts[m] # Death
      BY DEF Deathless
    <3>1. m - 1 \in j..k /\ m - 1 \in 1..(L - 1) /\ m - 1 + 1 = m
      BY <1>2
    <3>2. ev[m - 1] # Death
      BY <3>1, <1>4 DEF Deathless
    <3>3. ev[m - 1] = evts[m]
      BY <3>1, <1>2
    <3> QED
      BY <3>2, <3>3
  <2>3. evts[k + 1] - evts[j + 1] = (k + 1) - (j + 1)
    BY <2>1, <2>2, <1>2 DEF Gapless
  <2>4. ev[k] = evts[k + 1] /\ ev[j] = evts[j + 1]
    BY <1>2
  <2> QED
    BY <2>3, <2>4, <1>2
<1>5. ASSUME NEW k \in 1..(L - 1), k > 1, ev[k - 1] = Death, ev[k] # Death PROVE ev[k] = 1
  <2>1. k + 1 \in 1..L /\ k + 1 > 1 /\ k - 1 \in 1..(L - 1) /\ k - 1 + 1 = k /\ k + 1 - 1 = k
    BY <1>5, <1>2
  <2>2. ev[k - 1] = evts[k] /\ ev[k] = evts[k + 1]
    BY <2>1, <1>2
  <2>3. evts[k + 1 - 1] = Death /\ evts[k + 1] # Death
    BY <2>1, <2>2, <1>5
  <2>4. evts[k + 1] = 1
    BY <2>1, <2>3, <1>2 DEF Gapless
  <2> QED
    BY <2>2, <2>4
<1>6. ev # <<>> => ev[L - 1] = evts[L] /\ L > 1
  BY <1>2
<1>7. final = IF evts[L] = Death THEN 0 ELSE evts[L]
  BY DEF Gapless
<1>8. Gapless(ev, final)
  <2>1. ev # <<>> => final = IF ev[Len(ev)] = Death THEN 0 ELSE ev[Len(ev)]
    BY <1>2, <1>6, <1>7
  <2> QED
    BY <1>2, <1>4, <1>5, <2>1 DEF Gapless
<1>9. evts[1] # Death => NextAfter(evts[1], ev, final)
  <2> SUFFICES ASSUME evts[1] # Death PROVE NextAfter(evts[1], ev, final)
    OBVIOUS
  <2>1. CASE ev = <<>>
    BY <2>1, <1>2, <1>7 DEF NextAfter
  <2>2. CASE ev # <<>> /\ ev[1] # Death
    <3>1. 1 \in 1..L /\ 2 \in 1..L /\ 1 \in 1..(L - 1) /\ 1 <= 2
      BY <2>2, <1>2
    <3>2. ev[1] = evts[2]
      BY <3>1, <1>2
    <3>3. Deathless(evts, 1, 2)
      BY <2>2, <3>2 DEF Deathless
    <3>4. evts[2] - evts[1] = 2 - 1
      BY <3>1, <3>3, <1>2 DEF Gapless
    <3>5. evts[1] \in Int /\ evts[2] \in Int
      BY <3>1, EventsAre
    <3>6. ev[1] = evts[1] + 1
      BY <3>2, <3>4, <3>5
    <3> QED
      BY <3>6, <2>2 DEF NextAfter
  <2>3. CASE ev # <<>> /\ ev[1] = Death
    BY <2>3 DEF NextAfter
  <2> QED
    BY <2>1, <2>2, <2>3
<1>10. evts[1] = Death => NextAfter(0, ev, final)
  <2> SUFFICES ASSUME evts[1] = Death PROVE NextAfter(0, ev, final)
    OBVIOUS
  <2>1. CASE ev = <<>>
    BY <2>1, <1>2, <1>7 DEF NextAfter
  <2>2. CASE ev # <<>> /\ ev[1] # Death
    <3>1. 2 \in 1..L /\ 1 \in 1..(L - 1) /\ 2 - 1 = 1 /\ 2 > 1
      BY <2>2, <1>2
    <3>2. ev[1] = evts[2]
      BY <3>1, <1>2
    <3>3. evts[2] = 1
      BY <3>1, <3>2, <2>2, <1>2 DEF Gapless
    <3> QED
      BY <3>2, <3>3, <2>2 DEF NextAfter
  <2>3. CASE ev # <<>> /\ ev[1] = Death
    BY <2>3 DEF NextAfter
  <2> QED
    BY <2>1, <2>2, <2>3
<1>11. ev \in Events /\ \A k \in 1..(L - 1) : ev[k] = evts[k + 1]
  BY <1>2 DEF Events
<1> QED
  BY <1>2, <1>8, <1>9, <1>10, <1>11 DEF ev
-----------------------------------------------------------------------------
(* Steps that leave the window as it is. *)

LEMMA NextIsNotAbove ==
    ASSUME NEW evts \in Events, NEW final \in 0..MaxLines, Gapless(evts, final),
           NEW n \in Nat, NEW m \in Nat, n <= m, NextAfter(n, evts, final)
    PROVE  NotAfter(m, evts, final)
<1>1. CASE evts = <<>>
  BY <1>1, LogAssumption DEF NextAfter, NotAfter
<1>2. CASE evts # <<>> /\ evts[1] # Death
  <2>1. evts[1] = n + 1
    BY <1>2 DEF NextAfter
  <2>2. evts[1] <= m + 1
    BY <2>1
  <2> QED
    BY <1>2, <2>2 DEF NotAfter
<1>3. CASE evts # <<>> /\ evts[1] = Death
  BY <1>3 DEF NotAfter
<1> QED
  BY <1>1, <1>2, <1>3

LEMMA GrownOrder ==
    ASSUME NEW evts \in Events, NEW final \in 0..MaxLines, Gapless(evts, final),
           NEW ev \in Events, NEW fin \in 0..MaxLines, Grown(evts, final, ev, fin)
    PROVE  /\ \A n \in Nat : NextAfter(n, evts, final) => NextAfter(n, ev, fin)
           /\ \A n \in Nat : NotAfter(n, evts, final) => NotAfter(n, ev, fin)
           /\ \A b \in 0..Len(evts) : Deathless(ev, 1, b) <=> Deathless(evts, 1, b)
           /\ Deathless(ev, 1, Len(ev)) => Deathless(evts, 1, Len(evts)) /\ final <= fin
<1>1. Len(evts) \in Nat /\ (evts = <<>> <=> Len(evts) = 0)
  BY EventsAre
<1>2. /\ Len(ev) = Len(evts) + 1
      /\ \A k \in 1..Len(evts) : ev[k] = evts[k]
      /\ ev # <<>>
      /\ Deathless(ev, 1, Len(ev)) => final <= fin
      /\ evts = <<>> => ev[1] = Death \/ ev[1] = final + 1
  BY DEF Grown
<1>3. evts # <<>> => ev[1] = evts[1]
  <2> SUFFICES ASSUME evts # <<>> PROVE ev[1] = evts[1]
    OBVIOUS
  <2>1. 1 \in 1..Len(evts)
    BY <1>1
  <2> QED
    BY <2>1, <1>2
<1>4. \A n \in Nat : NextAfter(n, evts, final) => NextAfter(n, ev, fin)
  BY <1>2, <1>3 DEF NextAfter
<1>5. \A n \in Nat : NotAfter(n, evts, final) => NotAfter(n, ev, fin)
  <2> SUFFICES ASSUME NEW n \in Nat, NotAfter(n, evts, final) PROVE NotAfter(n, ev, fin)
    OBVIOUS
  <2>1. CASE evts = <<>>
    <3>1. final <= n /\ final \in Int
      BY <2>1 DEF NotAfter
    <3>2. final + 1 <= n + 1
      BY <3>1
    <3> QED
      BY <2>1, <3>2, <1>2 DEF NotAfter
  <2>2. CASE evts # <<>>
    BY <2>2, <1>2, <1>3 DEF NotAfter
  <2> QED
    BY <2>1, <2>2
<1>6. ASSUME NEW b \in 0..Len(evts) PROVE Deathless(ev, 1, b) <=> Deathless(evts, 1, b)
  <2>1. \A m \in 1..b : m \in 1..Len(evts)
    BY <1>1
  <2>2. \A m \in 1..b : ev[m] = evts[m]
    BY <2>1, <1>2
  <2> QED
    BY <2>2 DEF Deathless
<1>7. Deathless(ev, 1, Len(ev)) => Deathless(evts, 1, Len(evts))
  <2>1. \A m \in 1..Len(evts) : m \in 1..Len(ev) /\ ev[m] = evts[m]
    BY <1>1, <1>2
  <2> QED
    BY <2>1 DEF Deathless
<1> QED
  BY <1>2, <1>4, <1>5, <1>6, <1>7

\* A line that is committed, and a death, leave what is shown and what is under
\* way as right as it was.
LEMMA GrownKeeps ==
    ASSUME NEW evts \in Events, NEW final \in 0..MaxLines, Gapless(evts, final),
           NEW ev \in Events, NEW fin \in 0..MaxLines, Grown(evts, final, ev, fin),
           NEW win, NEW max \in 0..MaxLines, NEW g \in 0..MaxLines, NEW init, NEW due
    PROVE  /\ Shown(win, max, g, evts, final, due) => Shown(win, max, g, ev, fin, due)
           /\ \A p \in Pages : CurrentOk(p, win, max, g, evts, final, init, due)
                                  => CurrentOk(p, win, max, g, ev, fin, init, due)
<1>0. max \in Nat /\ g \in Nat /\ final \in Int /\ fin \in Int
  BY LogAssumption
<1>1. /\ \A n \in Nat : NextAfter(n, evts, final) => NextAfter(n, ev, fin)
      /\ \A n \in Nat : NotAfter(n, evts, final) => NotAfter(n, ev, fin)
      /\ \A b \in 0..Len(evts) : Deathless(ev, 1, b) <=> Deathless(evts, 1, b)
      /\ Deathless(ev, 1, Len(ev)) => Deathless(evts, 1, Len(evts)) /\ final <= fin
  BY GrownOrder
<1>2. ASSUME Shown(win, max, g, evts, final, due) PROVE Shown(win, max, g, ev, fin, due)
  <2>1. max = 0 => NextAfter(g, ev, fin)
    BY <1>0, <1>1, <1>2 DEF Shown
  <2>2. max > 0 => NotAfter(max, ev, fin) /\ (due => NextAfter(max, ev, fin))
    BY <1>0, <1>1, <1>2 DEF Shown
  <2>3. Deathless(ev, 1, Len(ev)) => max <= fin
    <3> SUFFICES ASSUME Deathless(ev, 1, Len(ev)) PROVE max <= fin
      OBVIOUS
    <3>1. max <= final /\ final <= fin
      BY <1>1, <1>2 DEF Shown
    <3> QED
      BY <3>1, <1>0
  <2> QED
    BY <2>1, <2>2, <2>3, <1>2 DEF Shown
<1>3. ASSUME NEW p \in Pages, CurrentOk(p, win, max, g, evts, final, init, due), p.current
      PROVE  CurrentOk(p, win, max, g, ev, fin, init, due)
  <2>1. PageOk(p, evts, final) /\ FirstPageOk(p, win, max, g, evts)
        /\ OlderPageOk(p, win, max, evts, init, due)
    BY <1>3 DEF CurrentOk
  <2>2. p.behind \in Nat /\ p.behind <= Len(evts) /\ p.lines \in Seq(1..MaxLines)
    BY <2>1 DEF PageOk, Pages
  <2>3. /\ Len(evts) \in Nat
        /\ Len(ev) = Len(evts) + 1
        /\ \A k \in 1..Len(evts) : ev[k] = evts[k]
    BY EventsAre DEF Grown
  <2>4. Ours(p, ev) <=> Ours(p, evts)
    <3>1. p.behind \in 0..Len(evts)
      BY <2>2, <2>3
    <3> QED
      BY <3>1, <1>1 DEF Ours
  <2>5. p.behind > 0 => ev[p.behind] = evts[p.behind]
    BY <2>2, <2>3
  <2>6. PageOk(p, ev, fin)
    <3>1. p.behind <= Len(ev)
      BY <2>2, <2>3
    <3>2. p.stage = "answered" /\ Deathless(ev, 1, Len(ev)) => Newest(p.lines) <= fin
      <4> SUFFICES ASSUME p.stage = "answered", Deathless(ev, 1, Len(ev)) PROVE Newest(p.lines) <= fin
        OBVIOUS
      <4>1. Newest(p.lines) <= final /\ final <= fin
        BY <1>1, <2>1 DEF PageOk
      <4>2. Newest(p.lines) \in Int
        BY <2>2, NewestIs
      <4> QED
        BY <4>1, <4>2, <1>0
    <3> QED
      BY <3>1, <3>2, <2>1 DEF PageOk
  <2>7. FirstPageOk(p, win, max, g, ev)
    BY <2>1, <2>4, <2>5 DEF FirstPageOk
  <2>8. OlderPageOk(p, win, max, ev, init, due)
    BY <2>1, <2>4 DEF OlderPageOk
  <2> QED
    BY <2>6, <2>7, <2>8 DEF CurrentOk
<1> QED
  BY <1>2, <1>3 DEF CurrentOk

\* A page that is no longer due asks for less.
LEMMA LessDue ==
    ASSUME NEW evts, NEW final, NEW win, NEW max, NEW g,
           NEW init, NEW due, NEW init2, NEW due2, init => init2, due2 => due
    PROVE  /\ Shown(win, max, g, evts, final, due) => Shown(win, max, g, evts, final, due2)
           /\ \A p : CurrentOk(p, win, max, g, evts, final, init, due)
                        => CurrentOk(p, win, max, g, evts, final, init2, due2)
  BY DEF Shown, CurrentOk, OlderPageOk

\* The pages ps2 are pages of ps, each once, and not the one at place i.
LeftAt(h, ps2, ps, i) ==
    /\ h \in [1..Len(ps2) -> 1..Len(ps)]
    /\ \A k \in 1..Len(ps2) : h[k] # i /\ ps2[k] = ps[h[k]]
    /\ \A j, k \in 1..Len(ps2) : h[j] = h[k] => j = k

\* Pages that are left over.
LEMMA FewerPages ==
    ASSUME NEW ps \in Seq(Pages), NEW ps2 \in Seq(Pages), NEW h, NEW i, LeftAt(h, ps2, ps, i),
           NEW win, NEW max, NEW g, NEW evts, NEW final, NEW init, NEW init2,
           init => init2, Due(init2, ps2) => Due(init, ps),
           PagesOk(ps, win, max, g, evts, final, init)
    PROVE  PagesOk(ps2, win, max, g, evts, final, init2)
<1>0. /\ \A k \in 1..Len(ps2) : h[k] \in 1..Len(ps) /\ ps2[k] = ps[h[k]]
      /\ \A j, k \in 1..Len(ps2) : h[j] = h[k] => j = k
  BY DEF LeftAt
<1>1. DOMAIN ps = 1..Len(ps) /\ DOMAIN ps2 = 1..Len(ps2)
  OBVIOUS
<1>2. ASSUME NEW k \in DOMAIN ps2
      PROVE  CurrentOk(ps2[k], win, max, g, evts, final, init2, Due(init2, ps2))
  <2>1. CurrentOk(ps2[k], win, max, g, evts, final, init, Due(init, ps))
    BY <1>1, <1>0 DEF PagesOk
  <2> QED
    BY <2>1, LessDue
<1>3. OneOlder(ps2)
  <2>1. OneOlder(ps)
    BY DEF PagesOk
  <2> QED
    BY <1>0, <1>1, <2>1 DEF OneOlder
<1> QED
  BY <1>2, <1>3 DEF PagesOk

\* A first page is not due where it was not.
LEMMA NotDueYet ==
    ASSUME NEW ps \in Seq(Pages), NEW ps2 \in Seq(Pages), NEW h, NEW i, LeftAt(h, ps2, ps, i),
           NEW init, NEW init2, init => init2
    PROVE  Due(init2, ps2) => Due(init, ps)
<1>1. DOMAIN ps = 1..Len(ps) /\ DOMAIN ps2 = 1..Len(ps2)
  OBVIOUS
<1>2. \A k \in 1..Len(ps2) : h[k] \in 1..Len(ps) /\ ps2[k] = ps[h[k]]
  BY DEF LeftAt
<1> QED
  BY <1>1, <1>2 DEF Due

\* One more page, which has only been asked for.
LEMMA OneMorePage ==
    ASSUME NEW ps \in Seq(Pages), NEW q \in Pages,
           NEW win, NEW max, NEW g, NEW evts, NEW final, NEW init,
           Due(init, Append(ps, q)) => Due(init, ps),
           CurrentOk(q, win, max, g, evts, final, init, Due(init, Append(ps, q))),
           q.op = "older" => \A i \in DOMAIN ps : ~(ps[i].current /\ ps[i].op = "older"),
           PagesOk(ps, win, max, g, evts, final, init)
    PROVE  PagesOk(Append(ps, q), win, max, g, evts, final, init)
<1> DEFINE ps2 == Append(ps, q)
           L == Len(ps)
<1>1. /\ L \in Nat /\ DOMAIN ps = 1..L /\ DOMAIN ps2 = 1..(L + 1)
      /\ \A k \in 1..L : ps2[k] = ps[k]
      /\ ps2[L + 1] = q
  BY OneLineMore
<1> HIDE DEF ps2
<1>2. \A k \in 1..(L + 1) : k \in 1..L \/ k = L + 1
  BY <1>1
<1>3. ASSUME NEW k \in 1..(L + 1)
      PROVE  CurrentOk(ps2[k], win, max, g, evts, final, init, Due(init, ps2))
  <2>1. CASE k \in 1..L
    <3>1. CurrentOk(ps2[k], win, max, g, evts, final, init, Due(init, ps))
      BY <2>1, <1>1 DEF PagesOk
    <3>2. Due(init, ps2) => Due(init, ps)
      BY DEF ps2
    <3> QED
      BY <3>1, <3>2, LessDue
  <2>2. CASE k = L + 1
    BY <2>2, <1>1 DEF ps2
  <2> QED
    BY <2>1, <2>2, <1>2
<1>4. OneOlder(ps2)
  <2>1. OneOlder(ps)
    BY DEF PagesOk
  <2> QED
    BY <1>1, <1>2, <2>1 DEF OneOlder
<1>5. PagesOk(ps2, win, max, g, evts, final, init)
  BY <1>1, <1>3, <1>4 DEF PagesOk
<1> QED
  BY <1>5 DEF ps2
-----------------------------------------------------------------------------
(* Steps that change the window. *)

\* w is what is left of e, and nothing above G is missing in it.
KeptOf(w, e, G) ==
    /\ w \in Seq(Lines) /\ Ordered(w)
    /\ SeqsOf(w) \subseteq SeqsOf(e)
    /\ \A n \in SeqsOf(w), m \in SeqsOf(e) : n <= m => m \in SeqsOf(w)
    /\ \A n \in SeqsOf(e) : n > G => n \in SeqsOf(w)
    /\ Len(w) < WindowCapacity => w = e

LEMMA TrimIsKept ==
    ASSUME gone \in 0..MaxLines, NEW e \in Seq(Lines), Ordered(e),
           NEW all \in SUBSET (1..MaxLines), SeqsOf(e) \subseteq all
    PROVE  /\ KeptOf(Trimmed(e), e, GoneWith(Trimmed(e), all))
           /\ GoneWith(Trimmed(e), all) \in 0..MaxLines
           /\ GoneWith(Trimmed(e), all) >= gone
           /\ all = {} => GoneWith(Trimmed(e), all) = gone
<1>1. /\ GoneWith(Trimmed(e), all) \in 0..MaxLines
      /\ GoneWith(Trimmed(e), all) >= gone
      /\ \A n \in all : n > GoneWith(Trimmed(e), all) => n \in SeqsOf(Trimmed(e))
      /\ all \subseteq SeqsOf(Trimmed(e)) => GoneWith(Trimmed(e), all) = gone
  BY GoneIs
<1>2. /\ Trimmed(e) \in Seq(Lines) /\ Ordered(Trimmed(e))
      /\ SeqsOf(Trimmed(e)) \subseteq SeqsOf(e)
      /\ \A n \in SeqsOf(Trimmed(e)), m \in SeqsOf(e) : n <= m => m \in SeqsOf(Trimmed(e))
      /\ Len(Trimmed(e)) < WindowCapacity => Trimmed(e) = e
  BY TrimOrdered
<1>3. \A n \in SeqsOf(e) : n > GoneWith(Trimmed(e), all) => n \in SeqsOf(Trimmed(e))
  BY <1>1
<1> QED
  BY <1>1, <1>2, <1>3 DEF KeptOf

LEMMA KeptIsShown ==
    ASSUME NEW w, NEW e, NEW g \in 0..MaxLines, NEW G \in 0..MaxLines, NEW max \in 0..MaxLines,
           NEW evts, NEW final, NEW init, NEW due,
           KeptOf(w, e, G), G >= g, max = 0 => G = g
    PROVE  /\ Shown(e, max, g, evts, final, due) => Shown(w, max, G, evts, final, due)
           /\ \A p : CurrentOk(p, e, max, g, evts, final, init, due)
                        => CurrentOk(p, w, max, G, evts, final, init, due)
<1>1. ASSUME Shown(e, max, g, evts, final, due) PROVE Shown(w, max, G, evts, final, due)
  <2>1. Ordered(w) /\ SeqsOf(w) \subseteq 1..max
    BY <1>1 DEF KeptOf, Shown
  <2>2. max = 0 => NextAfter(G, evts, final)
    BY <1>1 DEF Shown
  <2>3. ASSUME max > 0, NEW n \in 1..MaxLines, n > G PROVE n \in SeqsOf(w) <=> n <= max
    <3>1. n > g
      BY <2>3, LogAssumption
    <3>2. n \in SeqsOf(e) <=> n <= max
      BY <3>1, <2>3, <1>1 DEF Shown
    <3> QED
      BY <3>2, <2>3 DEF KeptOf
  <2>4. ASSUME due, Len(w) < WindowCapacity
        PROVE  \A n \in SeqsOf(w) : \A m \in n..max : m \in SeqsOf(w)
    <3>1. w = e
      BY <2>4 DEF KeptOf
    <3> QED
      BY <3>1, <2>4, <1>1 DEF Shown
  <2>5. /\ max > 0 => NotAfter(max, evts, final) /\ (due => NextAfter(max, evts, final))
        /\ Deathless(evts, 1, Len(evts)) => max <= final
    BY <1>1 DEF Shown
  <2> QED
    BY <2>1, <2>2, <2>3, <2>4, <2>5 DEF Shown
<1>2. ASSUME NEW p, CurrentOk(p, e, max, g, evts, final, init, due), p.current
      PROVE  CurrentOk(p, w, max, G, evts, final, init, due)
  <2>1. PageOk(p, evts, final) /\ FirstPageOk(p, e, max, g, evts)
        /\ OlderPageOk(p, e, max, evts, init, due)
    BY <1>2 DEF CurrentOk
  <2>2. Len(w) < WindowCapacity => w = e
    BY DEF KeptOf
  <2>3. FirstPageOk(p, w, max, G, evts)
    BY <2>1, <2>2 DEF FirstPageOk
  <2>4. ASSUME p.op = "older", NEW n \in SeqsOf(w), NEW m \in n..(p.before - 1) PROVE m \in SeqsOf(w)
    <3>1. n \in SeqsOf(e)
      BY DEF KeptOf
    <3>2. m \in SeqsOf(e)
      BY <3>1, <2>1, <2>4 DEF OlderPageOk
    <3>3. n <= m
      OBVIOUS
    <3> QED
      BY <3>2, <3>3 DEF KeptOf
  <2>5. OlderPageOk(p, w, max, evts, init, due)
    BY <2>1, <2>2, <2>4 DEF OlderPageOk
  <2> QED
    BY <2>1, <2>3, <2>5 DEF CurrentOk
<1> QED
  BY <1>1, <1>2 DEF CurrentOk

\* An entry without a seq.
LEMMA LocalLineShown ==
    ASSUME NEW win \in Seq(Lines), NEW l \in Lines, l.seq = 0,
           NEW max, NEW g, NEW evts, NEW final, NEW init, NEW due
    PROVE  /\ Append(win, l) \in Seq(Lines) /\ SeqsOf(Append(win, l)) = SeqsOf(win)
           /\ Shown(win, max, g, evts, final, due) => Shown(Append(win, l), max, g, evts, final, due)
           /\ \A p : CurrentOk(p, win, max, g, evts, final, init, due)
                        => CurrentOk(p, Append(win, l), max, g, evts, final, init, due)
<1> DEFINE e == Append(win, l)
<1>1. e \in Seq(Lines) /\ SeqsOf(e) = SeqsOf(win) /\ (Ordered(win) => Ordered(e))
  <2>1. {l.seq} \ {0} = {}
    OBVIOUS
  <2>2. SeqsOf(e) = SeqsOf(win) \cup ({l.seq} \ {0})
    BY LineBelow
  <2>3. e \in Seq(Lines) /\ (Ordered(win) => Ordered(e))
    BY LineBelow
  <2> QED
    BY <2>1, <2>2, <2>3
<1>2. Len(e) = Len(win) + 1 /\ Len(win) \in Nat /\ WindowCapacity \in Nat
  BY OneLineMore, LogAssumption
<1> HIDE DEF e
<1>3. Len(e) < WindowCapacity => Len(win) < WindowCapacity
  BY <1>2
<1>4. Shown(win, max, g, evts, final, due) => Shown(e, max, g, evts, final, due)
  BY <1>1, <1>3 DEF Shown
<1>5. \A p : CurrentOk(p, win, max, g, evts, final, init, due)
                => CurrentOk(p, e, max, g, evts, final, init, due)
  BY <1>1, <1>3 DEF CurrentOk, FirstPageOk, OlderPageOk
<1> QED
  BY <1>1, <1>4, <1>5 DEF e

\* The next event is a line that the window does not have.
LEMMA NextLineShown ==
    ASSUME NEW win \in Seq(Lines), NEW max \in 0..MaxLines, NEW g \in 0..MaxLines,
           NEW evts \in Events, NEW final \in 0..MaxLines, NEW due,
           Gapless(evts, final), evts # <<>>, evts[1] # Death, evts[1] > max,
           NEW l \in Lines, l.seq = evts[1],
           Shown(win, max, g, evts, final, due)
    PROVE  /\ Append(win, l) \in Seq(Lines)
           /\ SeqsOf(Append(win, l)) = SeqsOf(win) \cup {evts[1]}
           /\ evts[1] = IF max = 0 THEN g + 1 ELSE max + 1
           /\ Shown(Append(win, l), evts[1], g, Tail(evts), final, due)
<1> DEFINE e == Append(win, l)
           seq == evts[1]
           ev == Tail(evts)
<1>1. Len(evts) \in Nat /\ Len(evts) >= 1 /\ 1 \in 1..Len(evts)
  BY EventsAre
<1>2. seq \in 1..MaxLines /\ max \in Nat /\ g \in Nat /\ MaxLines \in Nat /\ final \in Nat
  BY <1>1, EventsAre, LogAssumption
<1>3. e \in Seq(Lines) /\ SeqsOf(e) = SeqsOf(win) \cup {seq}
  <2>1. {l.seq} \ {0} = {seq}
    BY <1>2
  <2> QED
    BY <2>1, LineBelow
<1>4. Ordered(e)
  <2>1. \A n \in SeqsOf(win) : n < seq
    <3> SUFFICES ASSUME NEW n \in SeqsOf(win) PROVE n < seq
      OBVIOUS
    <3>1. n \in 1..max
      BY DEF Shown
    <3> QED
      BY <3>1, <1>2
  <2> QED
    BY <2>1, LineBelow DEF Shown
<1>5. NextAfter(seq, ev, final) /\ Gapless(ev, final) /\ ev \in Events /\ Len(ev) = Len(evts) - 1
      /\ \A k \in 1..(Len(evts) - 1) : ev[k] = evts[k + 1]
  BY EventReceived
<1>6. NotAfter(seq, ev, final)
  BY <1>2, <1>5, NextIsNotAbove
<1>7. seq = IF max = 0 THEN g + 1 ELSE max + 1
  <2>1. CASE max = 0
    BY <2>1 DEF Shown, NextAfter
  <2>2. CASE max > 0
    <3>1. seq <= max + 1
      BY <2>2 DEF Shown, NotAfter
    <3> QED
      BY <3>1, <2>2, <1>2
  <2> QED
    BY <2>1, <2>2, <1>2
<1>8. Deathless(ev, 1, Len(ev)) => seq <= final
  <2> SUFFICES ASSUME Deathless(ev, 1, Len(ev)) PROVE seq <= final
    OBVIOUS
  <2>1. Deathless(evts, 1, Len(evts))
    <3> SUFFICES ASSUME NEW m \in 1..Len(evts) PROVE evts[m] # Death
      BY DEF Deathless
    <3>1. CASE m = 1
      BY <3>1
    <3>2. CASE m # 1
      <4>1. m - 1 \in 1..(Len(evts) - 1) /\ m - 1 + 1 = m /\ m - 1 \in 1..Len(ev)
        BY <3>2, <1>1, <1>5
      <4>2. ev[m - 1] = evts[m]
        BY <4>1, <1>5
      <4> QED
        BY <4>1, <4>2 DEF Deathless
    <3> QED
      BY <3>1, <3>2
  <2>2. final >= seq
    BY <2>1, EventsAre
  <2> QED
    BY <2>2, <1>2
<1>9. Len(e) = Len(win) + 1 /\ Len(win) \in Nat /\ WindowCapacity \in Nat
  BY OneLineMore, LogAssumption
<1> HIDE DEF e, ev, seq
<1>10. SeqsOf(e) \subseteq 1..seq
  <2> SUFFICES ASSUME NEW n \in SeqsOf(e) PROVE n \in 1..seq
    OBVIOUS
  <2>1. CASE n = seq
    BY <2>1, <1>2
  <2>2. CASE n \in SeqsOf(win)
    <3>1. n \in 1..max
      BY <2>2 DEF Shown
    <3> QED
      BY <3>1, <1>2 DEF seq
  <2> QED
    BY <2>1, <2>2, <1>3
<1>11. ASSUME NEW n \in 1..MaxLines, n > g PROVE n \in SeqsOf(e) <=> n <= seq
  <2>1. n \in SeqsOf(e) => n <= seq
    BY <1>10, <1>2
  <2>2. ASSUME n <= seq, n # seq PROVE n \in SeqsOf(e)
    <3>1. max # 0 /\ n <= max
      BY <2>2, <1>11, <1>2, <1>7
    <3>2. n \in SeqsOf(win)
      BY <3>1, <1>2, <1>11 DEF Shown
    <3> QED
      BY <3>2, <1>3
  <2> QED
    BY <2>1, <2>2, <1>3
<1>12. ASSUME due, Len(e) < WindowCapacity, NEW n \in SeqsOf(e), NEW m \in n..seq PROVE m \in SeqsOf(e)
  <2>1. CASE m = seq
    BY <2>1, <1>3
  <2>2. CASE m # seq
    <3>1. n \in 1..seq
      BY <1>10
    <3>2. n # seq /\ m < seq
      BY <2>2, <3>1, <1>2
    <3>3. n \in SeqsOf(win)
      BY <3>2, <1>3
    <3>4. n \in 1..max
      BY <3>3 DEF Shown
    <3>5. m \in n..max
      BY <3>2, <3>4, <1>2, <1>7
    <3>6. Len(win) < WindowCapacity
      BY <1>9, <1>12
    <3>7. m \in SeqsOf(win)
      BY <3>3, <3>5, <3>6, <1>12 DEF Shown
    <3> QED
      BY <3>7, <1>3
  <2> QED
    BY <2>1, <2>2
<1>13. Shown(e, seq, g, ev, final, due)
  <2>1. seq # 0 /\ seq > 0
    BY <1>2
  <2> QED
    BY <2>1, <1>4, <1>5, <1>6, <1>8, <1>10, <1>11, <1>12 DEF Shown
<1> QED
  BY <1>3, <1>7, <1>13 DEF e, seq, ev

\* One event less is ahead of the answer of a page.
Nearer(p) == [p EXCEPT !.behind = IF @ = 0 THEN 0 ELSE @ - 1]

LEMMA NearerIs ==
    ASSUME NEW p \in Pages
    PROVE  /\ Nearer(p) \in Pages
           /\ Nearer(p).op = p.op /\ Nearer(p).current = p.current /\ Nearer(p).stage = p.stage
           /\ Nearer(p).before = p.before /\ Nearer(p).lines = p.lines
           /\ p.behind \in Nat /\ p.before \in 1..(MaxLines + 1) /\ p.lines \in Seq(1..MaxLines)
           /\ p.current \in BOOLEAN
           /\ p.behind = 0 => Nearer(p).behind = 0
           /\ p.behind > 0 => Nearer(p).behind = p.behind - 1
<1>1. p.behind \in Nat
  BY DEF Pages
<1>2. (IF p.behind = 0 THEN 0 ELSE p.behind - 1) \in Nat
  BY <1>1
<1> QED
  BY <1>1, <1>2 DEF Nearer, Pages

LEMMA NearerOk ==
    ASSUME NEW p \in Pages, NEW evts \in Events, NEW final \in 0..MaxLines,
           Gapless(evts, final), evts # <<>>, evts[1] # Death, PageOk(p, evts, final)
    PROVE  /\ PageOk(Nearer(p), Tail(evts), final)
           /\ Ours(Nearer(p), Tail(evts)) <=> Ours(p, evts)
           /\ Nearer(p).behind > 0 => /\ Tail(evts)[Nearer(p).behind] = evts[p.behind]
                                      /\ p.behind > 0
<1> DEFINE q == Nearer(p)
           ev == Tail(evts)
           L == Len(evts)
<1>1. /\ ev \in Events /\ Len(ev) = L - 1
      /\ \A k \in 1..(L - 1) : ev[k] = evts[k + 1]
  BY EventReceived
<1>2. L \in Nat /\ L >= 1
  BY EventsAre
<1>3. /\ q.op = p.op /\ q.current = p.current /\ q.stage = p.stage
      /\ q.before = p.before /\ q.lines = p.lines
      /\ p.behind \in Nat
      /\ p.behind = 0 => q.behind = 0
      /\ p.behind > 0 => q.behind = p.behind - 1
  BY NearerIs
<1>4. p.behind <= L
  BY DEF PageOk
<1> HIDE DEF q, ev, L
<1>5. \A b \in 1..L : Deathless(ev, 1, b - 1) <=> Deathless(evts, 1, b)
  <2> SUFFICES ASSUME NEW b \in 1..L PROVE Deathless(ev, 1, b - 1) <=> Deathless(evts, 1, b)
    OBVIOUS
  <2>1. ASSUME Deathless(ev, 1, b - 1), NEW m \in 1..b PROVE evts[m] # Death
    <3>1. CASE m = 1
      BY <3>1
    <3>2. CASE m # 1
      <4>1. m - 1 \in 1..(L - 1) /\ m - 1 + 1 = m /\ m - 1 \in 1..(b - 1)
        BY <3>2, <1>2
      <4>2. ev[m - 1] = evts[m]
        BY <4>1, <1>1
      <4> QED
        BY <4>1, <4>2, <2>1 DEF Deathless
    <3> QED
      BY <3>1, <3>2
  <2>2. ASSUME Deathless(evts, 1, b), NEW m \in 1..(b - 1) PROVE ev[m] # Death
    <3>1. m \in 1..(L - 1) /\ m + 1 \in 1..b
      BY <1>2
    <3>2. ev[m] = evts[m + 1]
      BY <3>1, <1>1
    <3> QED
      BY <3>1, <3>2, <2>2 DEF Deathless
  <2> QED
    BY <2>1, <2>2 DEF Deathless
<1>6. Ours(q, ev) <=> Ours(p, evts)
  <2>1. CASE p.behind = 0
    <3>1. q.behind = 0
      BY <2>1, <1>3
    <3> QED
      BY <2>1, <3>1 DEF Ours, Deathless
  <2>2. CASE p.behind > 0
    <3>1. p.behind \in 1..L /\ q.behind = p.behind - 1
      BY <2>2, <1>2, <1>3, <1>4
    <3> QED
      BY <3>1, <1>5 DEF Ours
  <2> QED
    BY <2>1, <2>2, <1>3
<1>7. q.behind > 0 => ev[q.behind] = evts[p.behind] /\ p.behind > 0
  <2> SUFFICES ASSUME q.behind > 0 PROVE ev[q.behind] = evts[p.behind] /\ p.behind > 0
    OBVIOUS
  <2>1. p.behind > 0 /\ q.behind = p.behind - 1
    BY <1>3
  <2>2. q.behind \in 1..(L - 1) /\ q.behind + 1 = p.behind
    BY <2>1, <1>2, <1>3, <1>4
  <2> QED
    BY <2>1, <2>2, <1>1
<1>8. PageOk(q, ev, final)
  <2>1. q.behind <= Len(ev)
    BY <1>1, <1>2, <1>3, <1>4
  <2>2. Deathless(ev, 1, Len(ev)) => Deathless(evts, 1, L)
    <3>1. L \in 1..L
      BY <1>2
    <3> QED
      BY <3>1, <1>1, <1>5
  <2>3. q.stage = "answered" /\ Deathless(ev, 1, Len(ev)) => Newest(q.lines) <= final
    BY <2>2, <1>3 DEF PageOk, L
  <2>4. \A k \in DOMAIN q.lines : q.lines[k] = Newest(q.lines) - Len(q.lines) + k
    BY <1>3 DEF PageOk
  <2>5. q.stage = "asked" => q.behind = 0 /\ q.lines = <<>>
    BY <1>3 DEF PageOk
  <2>6. q.op = "init" => q.before = MaxLines + 1
    BY <1>3 DEF PageOk
  <2> QED
    BY <2>1, <2>3, <2>4, <2>5, <2>6 DEF PageOk
<1> QED
  BY <1>6, <1>7, <1>8 DEF q, ev

LEMMA NewLinePages ==
    ASSUME NEW win \in Seq(Lines), NEW max \in 0..MaxLines, NEW g \in 0..MaxLines,
           NEW evts \in Events, NEW final \in 0..MaxLines, NEW init, NEW due,
           Gapless(evts, final), evts # <<>>, evts[1] # Death, evts[1] > max,
           NEW l \in Lines, l.seq = evts[1],
           Shown(win, max, g, evts, final, due),
           NEW p \in Pages, CurrentOk(p, win, max, g, evts, final, init, due)
    PROVE  CurrentOk(Nearer(p), Append(win, l), evts[1], g, Tail(evts), final, init, due)
<1> DEFINE e == Append(win, l)
           q == Nearer(p)
           ev == Tail(evts)
           seq == evts[1]
<1>1. SUFFICES ASSUME p.current PROVE CurrentOk(q, e, seq, g, ev, final, init, due)
  BY NearerIs DEF CurrentOk
<1>2. PageOk(p, evts, final) /\ FirstPageOk(p, win, max, g, evts)
      /\ OlderPageOk(p, win, max, evts, init, due)
  BY <1>1 DEF CurrentOk
<1>3. /\ q.op = p.op /\ q.current = p.current /\ q.stage = p.stage
      /\ q.before = p.before /\ q.lines = p.lines
      /\ p.behind \in Nat /\ p.before \in 1..(MaxLines + 1) /\ p.lines \in Seq(1..MaxLines)
      /\ p.behind = 0 => q.behind = 0
      /\ p.behind > 0 => q.behind = p.behind - 1
  BY NearerIs
<1>4. /\ PageOk(q, ev, final)
      /\ Ours(q, ev) <=> Ours(p, evts)
      /\ q.behind > 0 => ev[q.behind] = evts[p.behind] /\ p.behind > 0
  BY <1>2, NearerOk
<1>5. /\ e \in Seq(Lines)
      /\ SeqsOf(e) = SeqsOf(win) \cup {seq}
      /\ seq = IF max = 0 THEN g + 1 ELSE max + 1
  BY NextLineShown
<1>6. Len(evts) \in Nat /\ 1 \in 1..Len(evts) /\ seq \in 1..MaxLines
  BY EventsAre
<1>7. Len(e) = Len(win) + 1 /\ Len(win) \in Nat /\ WindowCapacity \in Nat
  BY OneLineMore, LogAssumption
<1>8. max \in Nat /\ g \in Nat /\ MaxLines \in Nat /\ seq \in Nat /\ seq > 0
  BY <1>6, LogAssumption
<1>9. Newest(p.lines) \in Nat
  BY <1>3, NewestIs, LogAssumption
<1>10. p.behind > 0 /\ Ours(p, evts) => evts[p.behind] = seq + p.behind - 1
  <2> SUFFICES ASSUME p.behind > 0, Ours(p, evts) PROVE evts[p.behind] = seq + p.behind - 1
    OBVIOUS
  <2>1. p.behind \in 1..Len(evts)
    BY <1>2, <1>3, <1>6 DEF PageOk
  <2> QED
    BY <2>1, EventsAre DEF Ours
<1>11. Len(e) < WindowCapacity => Len(win) < WindowCapacity
  BY <1>7
<1> HIDE DEF e, q, ev, seq
<1>12. ASSUME p.op = "init", p.stage = "answered", Ours(p, evts)
       PROVE  /\ q.behind > 0 => Newest(p.lines) = ev[q.behind]
              /\ q.behind = 0 => Newest(p.lines) <= seq
              /\ p.lines # <<>> /\ Len(e) < WindowCapacity =>
                    \A m \in (Newest(p.lines) + 1)..seq : m \in SeqsOf(e)
  <2>1. /\ p.behind > 0 => Newest(p.lines) = evts[p.behind]
        /\ p.behind = 0 /\ max = 0 => Newest(p.lines) = g
        /\ p.behind = 0 /\ max > 0 => Newest(p.lines) <= max
        /\ p.lines # <<>> /\ Len(win) < WindowCapacity =>
              \A m \in (Newest(p.lines) + 1)..max : m \in SeqsOf(win)
    BY <1>2, <1>12 DEF FirstPageOk
  <2>2. q.behind > 0 => Newest(p.lines) = ev[q.behind]
    BY <2>1, <1>4
  <2>3. p.behind > 0 => Newest(p.lines) = seq + p.behind - 1
    BY <2>1, <1>10, <1>12
  <2>4. ASSUME q.behind = 0 PROVE Newest(p.lines) <= seq
    <3>1. CASE p.behind = 0 /\ max = 0
      <4>1. Newest(p.lines) = g /\ seq = g + 1
        BY <3>1, <2>1, <1>5
      <4> QED
        BY <4>1, <1>8
    <3>2. CASE p.behind = 0 /\ max > 0
      <4>1. Newest(p.lines) <= max /\ seq = max + 1
        BY <3>2, <2>1, <1>5
      <4> QED
        BY <4>1, <1>8, <1>9
    <3>3. CASE p.behind > 0
      <4>1. p.behind = 1
        BY <3>3, <2>4, <1>3
      <4> QED
        BY <4>1, <2>3, <1>8
    <3> QED
      BY <3>1, <3>2, <3>3, <1>3, <1>8
  <2>5. ASSUME p.lines # <<>>, Len(e) < WindowCapacity, NEW m \in (Newest(p.lines) + 1)..seq
        PROVE  m \in SeqsOf(e)
    <3>1. CASE m = seq
      BY <3>1, <1>5
    <3>2. CASE m # seq
      <4>1. p.behind = 0
        <5> SUFFICES ASSUME p.behind > 0 PROVE FALSE
          BY <1>3
        <5>1. Newest(p.lines) >= seq
          BY <2>3, <1>8, <1>3
        <5> QED
          BY <5>1, <1>8, <1>9
      <4>2. max > 0
        <5> SUFFICES ASSUME max = 0 PROVE FALSE
          BY <1>8
        <5>1. Newest(p.lines) = g /\ seq = g + 1
          BY <4>1, <2>1, <1>5
        <5> QED
          BY <5>1, <3>2, <1>8
      <4>3. m \in (Newest(p.lines) + 1)..max
        <5>1. seq = max + 1
          BY <4>2, <1>5
        <5> QED
          BY <5>1, <3>2, <1>8, <1>9
      <4>4. m \in SeqsOf(win)
        BY <4>3, <2>1, <2>5, <1>11
      <4> QED
        BY <4>4, <1>5
    <3> QED
      BY <3>1, <3>2
  <2> QED
    BY <2>2, <2>4, <2>5
<1>13. FirstPageOk(q, e, seq, g, ev)
  <2>1. seq # 0
    BY <1>8
  <2> QED
    BY <2>1, <1>3, <1>4, <1>12 DEF FirstPageOk
<1>14. ASSUME p.op = "older"
       PROVE  /\ init /\ p.before <= seq
              /\ \A n \in SeqsOf(e) : \A m \in n..(p.before - 1) : m \in SeqsOf(e)
              /\ due /\ Len(e) < WindowCapacity => p.before \in SeqsOf(e)
              /\ p.stage = "answered" /\ Ours(p, evts) /\ p.lines # <<>> =>
                    Newest(p.lines) = p.before - 1
  <2>1. /\ init /\ p.before <= max
        /\ \A n \in SeqsOf(win) : \A m \in n..(p.before - 1) : m \in SeqsOf(win)
        /\ due /\ Len(win) < WindowCapacity => p.before \in SeqsOf(win)
        /\ p.stage = "answered" /\ Ours(p, evts) /\ p.lines # <<>> =>
              Newest(p.lines) = p.before - 1
    BY <1>2, <1>14 DEF OlderPageOk
  <2>2. max < seq
    BY <1>8 DEF seq
  <2>3. p.before <= seq /\ p.before \in Int
    BY <2>1, <2>2, <1>3, <1>8
  <2>4. ASSUME NEW n \in SeqsOf(e), NEW m \in n..(p.before - 1) PROVE m \in SeqsOf(e)
    <3>1. CASE n = seq
      <4>1. m >= seq /\ m <= p.before - 1
        BY <3>1, <1>8, <2>3
      <4> QED
        BY <4>1, <2>3, <1>8
    <3>2. CASE n \in SeqsOf(win)
      <4>1. m \in SeqsOf(win)
        BY <3>2, <2>1
      <4> QED
        BY <4>1, <1>5
    <3> QED
      BY <3>1, <3>2, <1>5
  <2> QED
    BY <2>1, <2>3, <2>4, <1>5, <1>11
<1>15. OlderPageOk(q, e, seq, ev, init, due)
  BY <1>3, <1>4, <1>14 DEF OlderPageOk
<1>16. CurrentOk(q, e, seq, g, ev, final, init, due)
  BY <1>4, <1>13, <1>15 DEF CurrentOk
<1> QED
  BY <1>16 DEF e, q, ev, seq

\* The next event is a line that the window has had, or has fetched: then no first
\* page is due.
LEMMA KnownLine ==
    ASSUME NEW win \in Seq(Lines), NEW max \in 0..MaxLines, NEW g \in 0..MaxLines,
           NEW evts \in Events, NEW final \in 0..MaxLines, NEW init, NEW due,
           Gapless(evts, final), evts # <<>>, evts[1] # Death, evts[1] <= max,
           Shown(win, max, g, evts, final, due)
    PROVE  /\ ~due
           /\ Shown(win, max, g, Tail(evts), final, due)
           /\ \A p \in Pages : /\ CurrentOk(p, win, max, g, evts, final, init, due)
                               /\ p.current /\ p.op = "init" => due
                               => CurrentOk(Nearer(p), win, max, g, Tail(evts), final, init, due)
<1> DEFINE ev == Tail(evts)
<1>1. Len(evts) \in Nat /\ Len(evts) >= 1 /\ 1 \in 1..Len(evts) /\ evts[1] \in 1..MaxLines
  BY EventsAre
<1>2. max \in Nat /\ max > 0 /\ MaxLines \in Nat /\ evts[1] \in Nat
  BY <1>1, LogAssumption
<1>3. ~due
  <2> SUFFICES ASSUME due PROVE FALSE
    OBVIOUS
  <2>1. NextAfter(max, evts, final)
    BY <1>2 DEF Shown
  <2>2. evts[1] = max + 1
    BY <2>1 DEF NextAfter
  <2> QED
    BY <2>2, <1>2
<1>4. NextAfter(evts[1], ev, final) /\ Gapless(ev, final) /\ ev \in Events /\ Len(ev) = Len(evts) - 1
      /\ \A k \in 1..(Len(evts) - 1) : ev[k] = evts[k + 1]
  BY EventReceived
<1>5. NotAfter(max, ev, final)
  BY <1>2, <1>4, NextIsNotAbove
<1>6. Deathless(ev, 1, Len(ev)) => Deathless(evts, 1, Len(evts))
  <2> SUFFICES ASSUME Deathless(ev, 1, Len(ev)), NEW m \in 1..Len(evts) PROVE evts[m] # Death
    BY DEF Deathless
  <2>1. CASE m = 1
    BY <2>1
  <2>2. CASE m # 1
    <3>1. m - 1 \in 1..(Len(evts) - 1) /\ m - 1 + 1 = m /\ m - 1 \in 1..Len(ev)
      BY <2>2, <1>1, <1>4
    <3>2. ev[m - 1] = evts[m]
      BY <3>1, <1>4
    <3> QED
      BY <3>1, <3>2 DEF Deathless
  <2> QED
    BY <2>1, <2>2
<1>7. Shown(win, max, g, ev, final, due)
  <2>1. max # 0
    BY <1>2
  <2> QED
    BY <2>1, <1>3, <1>5, <1>6 DEF Shown
<1>8. ASSUME NEW p \in Pages, CurrentOk(p, win, max, g, evts, final, init, due),
             p.current /\ p.op = "init" => due, p.current
      PROVE  CurrentOk(Nearer(p), win, max, g, ev, final, init, due)
  <2>1. PageOk(p, evts, final) /\ OlderPageOk(p, win, max, evts, init, due) /\ p.op # "init"
    BY <1>3, <1>8 DEF CurrentOk
  <2>2. /\ Nearer(p).op = p.op /\ Nearer(p).current = p.current /\ Nearer(p).stage = p.stage
        /\ Nearer(p).before = p.before /\ Nearer(p).lines = p.lines
    BY NearerIs
  <2>3. PageOk(Nearer(p), ev, final) /\ (Ours(Nearer(p), ev) <=> Ours(p, evts))
    BY <2>1, NearerOk
  <2>4. FirstPageOk(Nearer(p), win, max, g, ev)
    BY <2>1, <2>2 DEF FirstPageOk
  <2>5. OlderPageOk(Nearer(p), win, max, ev, init, due)
    BY <2>1, <2>2, <2>3 DEF OlderPageOk
  <2> QED
    BY <2>3, <2>4, <2>5 DEF CurrentOk
<1>9. ASSUME NEW p \in Pages, ~p.current
      PROVE  CurrentOk(Nearer(p), win, max, g, ev, final, init, due)
  BY <1>9, NearerIs DEF CurrentOk
<1> QED
  BY <1>3, <1>7, <1>8, <1>9
-----------------------------------------------------------------------------
(* Pages. *)

\* The first line of a page.
Oldest(lines) == Newest(lines) - Len(lines) + 1

LEMMA PageLines ==
    ASSUME NEW lines \in Seq(1..MaxLines),
           \A k \in DOMAIN lines : lines[k] = Newest(lines) - Len(lines) + k
    PROVE  /\ Newest(lines) \in 0..MaxLines /\ Oldest(lines) \in 1..(MaxLines + 1)
           /\ Oldest(lines) <= Newest(lines) + 1
           /\ {lines[k] : k \in DOMAIN lines} = Oldest(lines)..Newest(lines)
           /\ lines = <<>> => Newest(lines) = 0 /\ Oldest(lines) = 1
           /\ lines # <<>> => Newest(lines) > 0
<1> DEFINE N == Newest(lines)
           L == Len(lines)
           F == Oldest(lines)
<1>1. N \in 0..MaxLines /\ (lines # <<>> => N \in 1..MaxLines)
  BY NewestIs
<1>2. L \in Nat /\ DOMAIN lines = 1..L /\ (lines = <<>> <=> L = 0)
  BY NothingIn
<1>3. \A k \in 1..L : lines[k] \in 1..MaxLines
  BY <1>2, ElementOf
<1>4. lines = <<>> => N = 0
  BY DEF Newest
<1>5. F = N - L + 1 /\ MaxLines \in Nat
  BY LogAssumption DEF Oldest
<1>6. \A k \in 1..L : lines[k] = N - L + k
  BY <1>2
<1> HIDE DEF N, L, F
<1>7a. F <= N + 1
  BY <1>1, <1>2, <1>5
<1>7. F \in 1..(MaxLines + 1)
  <2>1. CASE L = 0
    BY <2>1, <1>1, <1>2, <1>4, <1>5
  <2>2. CASE L # 0
    <3>1. 1 \in 1..L
      BY <2>2, <1>2
    <3>2. lines[1] = N - L + 1 /\ lines[1] \in 1..MaxLines
      BY <3>1, <1>3, <1>6
    <3> QED
      BY <3>2, <1>5
  <2> QED
    BY <2>1, <2>2
<1>8. \A n : n \in F..N <=> \E k \in 1..L : n = lines[k]
  <2>1. ASSUME NEW k \in 1..L PROVE lines[k] \in F..N
    <3>1. lines[k] = N - L + k
      BY <1>6
    <3> QED
      BY <3>1, <1>1, <1>2, <1>5
  <2>2. ASSUME NEW n \in F..N PROVE \E k \in 1..L : n = lines[k]
    <3>1. n - F + 1 \in 1..L
      BY <1>1, <1>2, <1>5, <1>7
    <3>2. lines[n - F + 1] = N - L + (n - F + 1)
      BY <3>1, <1>6
    <3>3. lines[n - F + 1] = n
      BY <3>2, <1>1, <1>2, <1>5, <1>7
    <3> QED
      BY <3>1, <3>3
  <2> QED
    BY <2>1, <2>2
<1>9. {lines[k] : k \in DOMAIN lines} = F..N
  BY <1>2, <1>8
<1>10. /\ lines = <<>> => N = 0 /\ F = 1
       /\ lines # <<>> => N > 0
  BY <1>1, <1>2, <1>4, <1>5
<1> QED
  BY <1>1, <1>7, <1>7a, <1>9, <1>10 DEF N, F

\* A page that is put on top of lines which are all later than what it has of its own.
LEMMA PageOnTop ==
    ASSUME window \in Seq(Lines), Ordered(window), NEW lines \in Seq(1..MaxLines),
           \A k \in DOMAIN lines : lines[k] = Newest(lines) - Len(lines) + k,
           \A x \in Oldest(lines)..Newest(lines), y \in Seqs : x < y \/ x \in Seqs
    PROVE  /\ Missing(lines) \o window \in Seq(Lines)
           /\ SeqsOf(Missing(lines) \o window) = (Oldest(lines)..Newest(lines)) \cup Seqs
           /\ Ordered(Missing(lines) \o window)
           /\ Len(Missing(lines) \o window) >= Len(window)
<1> DEFINE mis == Missing(lines)
           P == Oldest(lines)..Newest(lines)
<1>1. /\ mis \in Seq(Lines) /\ Ordered(mis)
      /\ SeqsOf(mis) = {lines[k] : k \in DOMAIN lines} \ Seqs
  BY MissingIs
<1>2. {lines[k] : k \in DOMAIN lines} = P
  BY PageLines
<1> HIDE DEF mis, P
<1>3. SeqsOf(mis) = P \ Seqs
  BY <1>1, <1>2
<1>4. \A x \in SeqsOf(mis), y \in SeqsOf(window) : x < y
  BY <1>3 DEF P, Seqs
<1>5. /\ mis \o window \in Seq(Lines)
      /\ SeqsOf(mis \o window) = SeqsOf(mis) \cup SeqsOf(window)
      /\ Len(mis \o window) >= Len(window)
      /\ Ordered(mis \o window)
  BY <1>1, <1>4, JoinedIs
<1>6. SeqsOf(mis \o window) = P \cup Seqs
  BY <1>3, <1>5 DEF Seqs
<1> QED
  BY <1>5, <1>6 DEF mis, P

\* What a page that has arrived is about.
Arrived(p) ==
    /\ p \in Pages /\ p.current /\ p.stage = "answered"
    /\ Ours(p, lineEvents) /\ PageOk(p, lineEvents, last)

\* A first page that comes after lines which the window has got by evts.
LEMMA FirstPageOnTop ==
    ASSUME LogTypes, maxSeq > 0, Len(window) < WindowCapacity,
           NEW init, NEW due, due, Shown(window, maxSeq, gone, lineEvents, last, due),
           NEW p, Arrived(p), p.op = "init", p.behind = 0,
           FirstPageOk(p, window, maxSeq, gone, lineEvents)
    PROVE  /\ Missing(p.lines) \o window \in Seq(Lines)
           /\ SeqsOf(Missing(p.lines) \o window) \subseteq 1..maxSeq
           /\ Newest(p.lines) <= maxSeq
           /\ Shown(Missing(p.lines) \o window, maxSeq, gone, lineEvents, last, due)
           /\ \A q \in Pages : CurrentOk(q, window, maxSeq, gone, lineEvents, last, init, due)
                 => CurrentOk(q, Missing(p.lines) \o window, maxSeq, gone, lineEvents, last, init, due)
<1> DEFINE mer == Missing(p.lines) \o window
           N == Newest(p.lines)
           F == Oldest(p.lines)
<1>0. /\ window \in Seq(Lines) /\ maxSeq \in Nat /\ gone \in Nat /\ maxSeq <= MaxLines
      /\ MaxLines \in Nat /\ WindowCapacity \in Nat /\ Len(window) \in Nat
  BY LogAssumption DEF LogTypes, WindowTypes
<1>1. p.lines \in Seq(1..MaxLines) /\ \A k \in DOMAIN p.lines : p.lines[k] = N - Len(p.lines) + k
  BY DEF Arrived, Pages, PageOk
<1>2. N \in Nat /\ F \in Nat /\ F >= 1 /\ (p.lines = <<>> => N = 0 /\ F = 1)
  BY <1>0, <1>1, PageLines
<1>3. /\ N <= maxSeq
      /\ p.lines # <<>> => \A m \in (N + 1)..maxSeq : m \in Seqs
  BY <1>0 DEF FirstPageOk, Arrived, Seqs
<1>4. Seqs \subseteq 1..maxSeq /\ Ordered(window)
      /\ \A n \in Seqs : \A m \in n..maxSeq : m \in Seqs
  BY DEF Shown, Seqs
<1>5. \A x \in F..N, y \in Seqs : x < y \/ x \in Seqs
  <2> SUFFICES ASSUME NEW x \in F..N, NEW y \in Seqs, ~(x < y) PROVE x \in Seqs
    OBVIOUS
  <2>1. y \in 1..maxSeq
    BY <1>4
  <2>2. x \in y..maxSeq
    BY <2>1, <1>0, <1>2, <1>3
  <2> QED
    BY <2>2, <1>4
<1>6. /\ mer \in Seq(Lines)
      /\ SeqsOf(mer) = (F..N) \cup Seqs
      /\ Ordered(mer)
      /\ Len(mer) >= Len(window)
  BY <1>0, <1>1, <1>4, <1>5, PageOnTop
<1> HIDE DEF mer, N, F
<1>7. SeqsOf(mer) \subseteq 1..maxSeq
  <2> SUFFICES ASSUME NEW x \in F..N PROVE x \in 1..maxSeq
    BY <1>4, <1>6
  <2> QED
    BY <1>0, <1>2, <1>3
<1>8. ASSUME NEW n \in SeqsOf(mer), NEW m \in n..maxSeq PROVE m \in SeqsOf(mer)
  <2>1. CASE n \in Seqs
    BY <2>1, <1>4, <1>6
  <2>2. CASE n \in F..N
    <3>1. m \in Int /\ n <= m /\ m <= maxSeq
      BY <2>2, <1>0
    <3>2. CASE m <= N
      <4>1. m \in F..N
        BY <3>1, <3>2, <2>2, <1>2
      <4> QED
        BY <4>1, <1>6
    <3>3. CASE ~(m <= N)
      <4>1. m \in (N + 1)..maxSeq
        BY <3>1, <3>3, <1>0, <1>2
      <4>2. p.lines # <<>>
        BY <2>2, <1>2
      <4> QED
        BY <4>1, <4>2, <1>3, <1>6
    <3> QED
      BY <3>2, <3>3
  <2> QED
    BY <2>1, <2>2, <1>6
<1>9. ASSUME NEW n \in 1..MaxLines, n > gone PROVE n \in SeqsOf(mer) <=> n <= maxSeq
  <2>1. n \in SeqsOf(mer) => n <= maxSeq
    BY <1>0, <1>7
  <2>2. n <= maxSeq => n \in Seqs
    BY <1>9 DEF Shown, Seqs
  <2> QED
    BY <2>1, <2>2, <1>6
<1>10. Shown(mer, maxSeq, gone, lineEvents, last, due)
  <2>1. /\ NotAfter(maxSeq, lineEvents, last) /\ (due => NextAfter(maxSeq, lineEvents, last))
        /\ Deathless(lineEvents, 1, Len(lineEvents)) => maxSeq <= last
    BY DEF Shown
  <2>2. maxSeq # 0
    BY <1>0
  <2> QED
    BY <2>1, <2>2, <1>6, <1>7, <1>8, <1>9 DEF Shown
<1>11. ASSUME NEW q \in Pages, CurrentOk(q, window, maxSeq, gone, lineEvents, last, init, due), q.current
       PROVE  CurrentOk(q, mer, maxSeq, gone, lineEvents, last, init, due)
  <2>1. PageOk(q, lineEvents, last) /\ FirstPageOk(q, window, maxSeq, gone, lineEvents)
        /\ OlderPageOk(q, window, maxSeq, lineEvents, init, due)
    BY <1>11 DEF CurrentOk
  <2>2. Seqs \subseteq SeqsOf(mer)
    BY <1>6
  <2>3. FirstPageOk(q, mer, maxSeq, gone, lineEvents)
    BY <2>1, <2>2 DEF FirstPageOk, Seqs
  <2>4. ASSUME q.op = "older", NEW n \in SeqsOf(mer), NEW m \in n..(q.before - 1) PROVE m \in SeqsOf(mer)
    <3>1. q.before <= maxSeq /\ q.before \in Nat
      BY <2>1, <2>4, <1>0 DEF OlderPageOk, Pages
    <3>2. n \in Int
      BY <1>7
    <3>3. m \in n..maxSeq
      BY <3>1, <3>2, <1>0
    <3> QED
      BY <3>3, <1>8
  <2>5. OlderPageOk(q, mer, maxSeq, lineEvents, init, due)
    BY <2>1, <2>2, <2>4 DEF OlderPageOk, Seqs
  <2> QED
    BY <2>1, <2>3, <2>5 DEF CurrentOk
<1>12. \A q \in Pages : CurrentOk(q, window, maxSeq, gone, lineEvents, last, init, due)
                 => CurrentOk(q, mer, maxSeq, gone, lineEvents, last, init, due)
  BY <1>11 DEF CurrentOk
<1> QED
  BY <1>3, <1>6, <1>7, <1>10, <1>12 DEF mer, N

\* The lines before the oldest ones.
LEMMA OlderPageOnTop ==
    ASSUME LogTypes, NEW init, NEW due, Shown(window, maxSeq, gone, lineEvents, last, due),
           NEW p, Arrived(p), p.op = "older",
           OlderPageOk(p, window, maxSeq, lineEvents, init, due)
    PROVE  /\ Missing(p.lines) \o window \in Seq(Lines)
           /\ Shown(Missing(p.lines) \o window, maxSeq, gone, lineEvents, last, due)
           /\ \A q \in Pages : /\ CurrentOk(q, window, maxSeq, gone, lineEvents, last, init, due)
                               /\ ~(q.current /\ q.op = "older")
                 => CurrentOk(q, Missing(p.lines) \o window, maxSeq, gone, lineEvents, last, init, due)
<1> DEFINE mer == Missing(p.lines) \o window
           N == Newest(p.lines)
           F == Oldest(p.lines)
<1>0. /\ window \in Seq(Lines) /\ maxSeq \in Nat /\ gone \in Nat /\ maxSeq <= MaxLines
      /\ MaxLines \in Nat /\ WindowCapacity \in Nat /\ Len(window) \in Nat
  BY LogAssumption DEF LogTypes, WindowTypes
<1>1. p.lines \in Seq(1..MaxLines) /\ \A k \in DOMAIN p.lines : p.lines[k] = N - Len(p.lines) + k
  BY DEF Arrived, Pages, PageOk
<1>2. /\ N \in Nat /\ F \in Nat /\ F >= 1
      /\ p.lines = <<>> => N = 0 /\ F = 1
  BY <1>0, <1>1, PageLines
<1>3. /\ p.before \in Nat /\ p.before >= 1 /\ p.before <= maxSeq
      /\ \A n \in Seqs : \A m \in n..(p.before - 1) : m \in Seqs
      /\ due /\ Len(window) < WindowCapacity => p.before \in Seqs
      /\ p.lines # <<>> => N = p.before - 1
  BY <1>0 DEF OlderPageOk, Arrived, Seqs, Pages
<1>4. Seqs \subseteq 1..maxSeq /\ Ordered(window)
      /\ (due /\ Len(window) < WindowCapacity => \A n \in Seqs : \A m \in n..maxSeq : m \in Seqs)
  BY DEF Shown, Seqs
<1>5. \A x \in F..N, y \in Seqs : x < y \/ x \in Seqs
  <2> SUFFICES ASSUME NEW x \in F..N, NEW y \in Seqs, ~(x < y) PROVE x \in Seqs
    OBVIOUS
  <2>1. y \in 1..maxSeq
    BY <1>4
  <2>2. p.lines # <<>>
    BY <1>2
  <2>3. x \in y..(p.before - 1)
    BY <2>1, <2>2, <1>0, <1>2, <1>3
  <2> QED
    BY <2>3, <1>3
<1>6. /\ mer \in Seq(Lines)
      /\ SeqsOf(mer) = (F..N) \cup Seqs
      /\ Ordered(mer)
      /\ Len(mer) >= Len(window)
  BY <1>0, <1>1, <1>4, <1>5, PageOnTop
<1>7a. Len(mer) \in Nat
  BY <1>6
<1> HIDE DEF mer, N, F
<1>7. \A x \in F..N : x \in 1..maxSeq /\ x < p.before /\ p.lines # <<>>
  BY <1>0, <1>2, <1>3
<1>8. SeqsOf(mer) \subseteq 1..maxSeq
  BY <1>4, <1>6, <1>7
<1>9. Len(mer) < WindowCapacity => Len(window) < WindowCapacity
  BY <1>0, <1>6, <1>7a
<1>10. ASSUME due, Len(mer) < WindowCapacity, NEW n \in SeqsOf(mer), NEW m \in n..maxSeq
       PROVE  m \in SeqsOf(mer)
  <2>1. CASE n \in Seqs
    BY <2>1, <1>4, <1>6, <1>9, <1>10
  <2>2. CASE n \in F..N
    <3>1. m \in Int /\ n <= m /\ m <= maxSeq /\ p.lines # <<>>
      BY <2>2, <1>0, <1>7
    <3>2. CASE m <= N
      <4>1. m \in F..N
        BY <3>1, <3>2, <2>2, <1>2
      <4> QED
        BY <4>1, <1>6
    <3>3. CASE ~(m <= N)
      <4>1. m \in p.before..maxSeq
        BY <3>1, <3>3, <1>0, <1>2, <1>3
      <4> QED
        BY <4>1, <1>3, <1>4, <1>6, <1>9, <1>10
    <3> QED
      BY <3>2, <3>3
  <2> QED
    BY <2>1, <2>2, <1>6
<1>11. ASSUME NEW n \in 1..MaxLines, n > gone PROVE n \in SeqsOf(mer) <=> n <= maxSeq
  <2>1. n \in SeqsOf(mer) => n <= maxSeq
    BY <1>0, <1>8
  <2>2. n <= maxSeq => n \in Seqs
    BY <1>11, <1>0, <1>3 DEF Shown, Seqs
  <2> QED
    BY <2>1, <2>2, <1>6
<1>12. Shown(mer, maxSeq, gone, lineEvents, last, due)
  <2>1. maxSeq # 0 /\ maxSeq > 0
    BY <1>0, <1>3
  <2>2. /\ NotAfter(maxSeq, lineEvents, last) /\ (due => NextAfter(maxSeq, lineEvents, last))
        /\ Deathless(lineEvents, 1, Len(lineEvents)) => maxSeq <= last
    BY <2>1 DEF Shown
  <2> QED
    BY <2>1, <2>2, <1>6, <1>8, <1>10, <1>11 DEF Shown
<1>13. ASSUME NEW q \in Pages, CurrentOk(q, window, maxSeq, gone, lineEvents, last, init, due),
              q.current, q.op # "older"
       PROVE  CurrentOk(q, mer, maxSeq, gone, lineEvents, last, init, due)
  <2>1. PageOk(q, lineEvents, last) /\ FirstPageOk(q, window, maxSeq, gone, lineEvents)
    BY <1>13 DEF CurrentOk
  <2>2. Seqs \subseteq SeqsOf(mer)
    BY <1>6
  <2>3. FirstPageOk(q, mer, maxSeq, gone, lineEvents)
    BY <2>1, <2>2, <1>9 DEF FirstPageOk, Seqs
  <2>4. OlderPageOk(q, mer, maxSeq, lineEvents, init, due)
    BY <1>13 DEF OlderPageOk
  <2> QED
    BY <2>1, <2>3, <2>4 DEF CurrentOk
<1>14. \A q \in Pages : /\ CurrentOk(q, window, maxSeq, gone, lineEvents, last, init, due)
                        /\ ~(q.current /\ q.op = "older")
                 => CurrentOk(q, mer, maxSeq, gone, lineEvents, last, init, due)
  BY <1>13 DEF CurrentOk
<1> QED
  BY <1>6, <1>12, <1>14 DEF mer

\* The first page that reaches an empty window.
LEMMA FirstPageShown ==
    ASSUME LogTypes, Gapless(lineEvents, last), maxSeq = 0,
           NEW init, NEW due, NEW due2, Shown(window, maxSeq, gone, lineEvents, last, due),
           NEW p, Arrived(p), p.op = "init",
           p.behind > 0 => ~due2,
           FirstPageOk(p, window, maxSeq, gone, lineEvents)
    PROVE  /\ Missing(p.lines) \o window \in Seq(Lines)
           /\ SeqsOf(Missing(p.lines) \o window) = Oldest(p.lines)..Newest(p.lines)
           /\ Newest(p.lines) = 0 => gone = 0
           /\ Shown(Missing(p.lines) \o window, Newest(p.lines), Oldest(p.lines) - 1, lineEvents, last, due2)
           /\ \A q \in Pages : /\ CurrentOk(q, window, maxSeq, gone, lineEvents, last, init, due)
                               /\ q.current /\ q.op = "init" => due2
                 => CurrentOk(q, Missing(p.lines) \o window, Newest(p.lines), Oldest(p.lines) - 1,
                              lineEvents, last, TRUE, due2)
<1> DEFINE mer == Missing(p.lines) \o window
           N == Newest(p.lines)
           F == Oldest(p.lines)
<1>0. /\ window \in Seq(Lines) /\ gone \in Nat
      /\ MaxLines \in Nat /\ WindowCapacity \in Nat /\ Len(window) \in Nat
      /\ lineEvents \in Events /\ last \in 0..MaxLines
  BY LogAssumption DEF LogTypes, WindowTypes, BackendTypes
<1>1. /\ p.lines \in Seq(1..MaxLines) /\ \A k \in DOMAIN p.lines : p.lines[k] = N - Len(p.lines) + k
      /\ p.behind \in Nat /\ p.behind <= Len(lineEvents)
  BY DEF Arrived, Pages, PageOk
<1>2. /\ N \in Nat /\ F \in Nat /\ F >= 1 /\ N <= MaxLines
      /\ p.lines = <<>> => N = 0 /\ F = 1
      /\ p.lines # <<>> => N > 0
  BY <1>0, <1>1, PageLines
<1>3. /\ p.behind > 0 => N = lineEvents[p.behind]
      /\ p.behind = 0 => N = gone
  BY DEF FirstPageOk, Arrived
<1>4. Seqs = {} /\ Ordered(window) /\ NextAfter(gone, lineEvents, last)
  BY DEF Shown, Seqs
<1>5. /\ mer \in Seq(Lines)
      /\ SeqsOf(mer) = F..N
      /\ Ordered(mer)
  BY <1>0, <1>1, <1>4, PageOnTop
<1>6. Len(lineEvents) \in Nat /\ (lineEvents = <<>> <=> Len(lineEvents) = 0)
  BY <1>0, EventsAre
<1>7. p.behind > 0 => /\ p.behind \in 1..Len(lineEvents) /\ 1 \in 1..Len(lineEvents)
                      /\ lineEvents[1] # Death /\ lineEvents[1] \in 1..MaxLines
                      /\ N = lineEvents[1] + p.behind - 1
  <2> SUFFICES ASSUME p.behind > 0
               PROVE  /\ p.behind \in 1..Len(lineEvents) /\ 1 \in 1..Len(lineEvents)
                      /\ lineEvents[1] # Death /\ lineEvents[1] \in 1..MaxLines
                      /\ N = lineEvents[1] + p.behind - 1
    OBVIOUS
  <2>1. p.behind \in 1..Len(lineEvents) /\ 1 \in 1..Len(lineEvents) /\ 1 \in 1..p.behind
    BY <1>1, <1>6
  <2>2. lineEvents[1] # Death
    BY <2>1 DEF Arrived, Ours, Deathless
  <2>3. lineEvents[1] \in 1..MaxLines /\ lineEvents[p.behind] = lineEvents[1] + p.behind - 1
    BY <2>1, <2>2, <1>0, EventsAre DEF Arrived, Ours
  <2> QED
    BY <2>1, <2>2, <2>3, <1>3
<1>8. lineEvents # <<>> /\ lineEvents[1] # Death => lineEvents[1] = gone + 1
  BY <1>4 DEF NextAfter
<1>9. p.behind > 0 => N > 0
  BY <1>0, <1>1, <1>2, <1>7
<1>10. N = 0 => gone = 0
  BY <1>1, <1>3, <1>9
<1> HIDE DEF mer, N, F
<1>11. NotAfter(N, lineEvents, last)
  <2>1. CASE p.behind = 0
    <3>1. N = gone
      BY <2>1, <1>3
    <3> QED
      BY <3>1, <1>0, <1>4, NextIsNotAbove
  <2>2. CASE p.behind > 0
    <3>1. lineEvents # <<>>
      BY <2>2, <1>6, <1>7
    <3>2. lineEvents[1] <= N + 1
      <4>1. lineEvents[1] \in Nat /\ p.behind \in Nat /\ N = lineEvents[1] + p.behind - 1
        BY <2>2, <1>0, <1>1, <1>7
      <4> QED
        BY <4>1, <2>2
    <3> QED
      BY <3>1, <3>2 DEF NotAfter
  <2>3. p.behind = 0 \/ p.behind > 0
    BY <1>1
  <2> QED
    BY <2>1, <2>2, <2>3
<1>12. p.behind = 0 => NextAfter(N, lineEvents, last)
  BY <1>3, <1>4
<1>13. Shown(mer, N, F - 1, lineEvents, last, due2)
  <2>1. N = 0 => NextAfter(F - 1, lineEvents, last)
    <3> SUFFICES ASSUME N = 0 PROVE NextAfter(F - 1, lineEvents, last)
      OBVIOUS
    <3>1. F - 1 = 0 /\ gone = 0
      BY <1>2, <1>10
    <3> QED
      BY <3>1, <1>4
  <2>2. due2 => NextAfter(N, lineEvents, last)
    BY <1>1, <1>12
  <2>3. Deathless(lineEvents, 1, Len(lineEvents)) => N <= last
    BY DEF Arrived, PageOk, N
  <2>4. SeqsOf(mer) \subseteq 1..N
    BY <1>2, <1>5
  <2>5. \A n \in 1..MaxLines : n > F - 1 => (n \in SeqsOf(mer) <=> n <= N)
    BY <1>2, <1>5
  <2>6. \A n \in SeqsOf(mer) : \A m \in n..N : m \in SeqsOf(mer)
    BY <1>2, <1>5
  <2> QED
    BY <2>1, <2>2, <2>3, <2>4, <2>5, <2>6, <1>5, <1>11 DEF Shown
<1>14. ASSUME NEW q \in Pages, CurrentOk(q, window, maxSeq, gone, lineEvents, last, init, due),
              q.current /\ q.op = "init" => due2, q.current
       PROVE  CurrentOk(q, mer, N, F - 1, lineEvents, last, TRUE, due2)
  <2>1. PageOk(q, lineEvents, last) /\ FirstPageOk(q, window, maxSeq, gone, lineEvents)
        /\ OlderPageOk(q, window, maxSeq, lineEvents, init, due)
    BY <1>14 DEF CurrentOk
  <2>2. q.behind \in Nat /\ q.before \in Nat /\ q.before >= 1 /\ q.lines \in Seq(1..MaxLines)
    BY <1>0 DEF Pages
  <2>3. q.op # "older"
    BY <2>1, <2>2 DEF OlderPageOk
  <2>4. OlderPageOk(q, mer, N, lineEvents, TRUE, due2)
    BY <2>3 DEF OlderPageOk
  <2>5. ASSUME q.op = "init", q.stage = "answered", Ours(q, lineEvents)
        PROVE  /\ q.behind > 0 => Newest(q.lines) = lineEvents[q.behind]
               /\ q.behind = 0 => Newest(q.lines) = gone
               /\ Newest(q.lines) >= N
               /\ N = gone
    <3>1. /\ q.behind > 0 => Newest(q.lines) = lineEvents[q.behind]
          /\ q.behind = 0 => Newest(q.lines) = gone
      BY <2>1, <2>5 DEF FirstPageOk
    <3>2. N = gone
      BY <2>5, <1>14, <1>1, <1>3
    <3>3. q.behind > 0 => lineEvents[q.behind] >= gone + 1
      <4> SUFFICES ASSUME q.behind > 0 PROVE lineEvents[q.behind] >= gone + 1
        OBVIOUS
      <4>1. q.behind \in 1..Len(lineEvents) /\ 1 \in 1..q.behind /\ lineEvents # <<>>
        BY <2>1, <2>2, <1>6 DEF PageOk
      <4>2. lineEvents[1] # Death
        BY <4>1, <2>5 DEF Ours, Deathless
      <4>3. lineEvents[q.behind] = lineEvents[1] + q.behind - 1
        BY <4>1, <2>5, <1>0, EventsAre DEF Ours
      <4>4. lineEvents[1] = gone + 1
        BY <4>1, <4>2, <1>8
      <4> QED
        BY <4>3, <4>4, <2>2, <1>0
    <3>4. Newest(q.lines) >= N
      <4>1. CASE q.behind = 0
        BY <4>1, <3>1, <3>2, <1>0
      <4>2. CASE q.behind > 0
        <5>1. Newest(q.lines) >= gone + 1
          BY <4>2, <3>1, <3>3
        <5>2. Newest(q.lines) \in Nat
          BY <2>2, NewestIs, <1>0
        <5> QED
          BY <5>1, <5>2, <3>2, <1>0
      <4> QED
        BY <4>1, <4>2, <2>2
    <3> QED
      BY <3>1, <3>2, <3>4
  <2>6. Newest(q.lines) \in Nat
    BY <2>2, NewestIs, <1>0
  <2>7. FirstPageOk(q, mer, N, F - 1, lineEvents)
    <3> SUFFICES ASSUME q.op = "init", q.stage = "answered", Ours(q, lineEvents)
                 PROVE  /\ q.behind > 0 => Newest(q.lines) = lineEvents[q.behind]
                        /\ q.behind = 0 /\ N = 0 => Newest(q.lines) = F - 1
                        /\ q.behind = 0 /\ N > 0 => Newest(q.lines) <= N
                        /\ q.lines # <<>> /\ Len(mer) < WindowCapacity =>
                              \A m \in (Newest(q.lines) + 1)..N : m \in SeqsOf(mer)
      BY DEF FirstPageOk
    <3>1. q.behind = 0 /\ N = 0 => Newest(q.lines) = F - 1
      <4>1. N = 0 => F - 1 = 0 /\ gone = 0
        BY <1>2, <1>10
      <4> QED
        BY <4>1, <2>5
    <3>2. q.behind = 0 => Newest(q.lines) <= N
      BY <2>5, <1>0
    <3>3. ~\E m \in (Newest(q.lines) + 1)..N : TRUE
      BY <2>5, <2>6, <1>2
    <3> QED
      BY <3>1, <3>2, <3>3, <2>5
  <2> QED
    BY <2>1, <2>4, <2>7 DEF CurrentOk
<1>15. \A q \in Pages : /\ CurrentOk(q, window, maxSeq, gone, lineEvents, last, init, due)
                        /\ q.current /\ q.op = "init" => due2
                 => CurrentOk(q, mer, N, F - 1, lineEvents, last, TRUE, due2)
  BY <1>14 DEF CurrentOk
<1> QED
  BY <1>5, <1>10, <1>13, <1>15 DEF mer, N, F

\* Of the lines F to N those in S are shown: G is the newest that is not.
Unshown(G, N, F, S) ==
    /\ N \in 0..MaxLines /\ F \in 1..(MaxLines + 1) /\ F <= N + 1
    /\ S \subseteq F..N
    /\ G = Max({0} \cup ((1..N) \ S))

\* What leaves the window with the first page, and what was before it.
LEMMA NeverShown ==
    ASSUME NEW N, NEW F, NEW S, NEW G, Unshown(G, N, F, S)
    PROVE  /\ G \in 0..MaxLines
           /\ G >= F - 1
           /\ \A n \in F..N : n > G => n \in S
           /\ N = 0 => G = 0
<1> DEFINE T == {0} \cup ((1..N) \ S)
<1>0. /\ MaxLines \in Nat /\ N \in Nat /\ F \in Nat /\ F >= 1 /\ N <= MaxLines
      /\ F <= MaxLines + 1 /\ F <= N + 1
  BY LogAssumption DEF Unshown
<1>1. T \in SUBSET (0..MaxLines) /\ T # {}
  BY <1>0
<1>2. \A n \in 1..N : n \in S \/ n \in T
  OBVIOUS
<1>3. N = 0 => T = {0}
  BY <1>0
<1>4. 0 \in T
  OBVIOUS
<1> HIDE DEF T
<1>5. Max(T) \in T /\ \A y \in T : y <= Max(T)
  BY <1>0, <1>1, MaxOf
<1>6. G = Max(T)
  BY DEF T, Unshown
<1>7. G \in 0..MaxLines
  BY <1>1, <1>5, <1>6
<1>8. G >= F - 1
  <2>1. CASE F = 1
    BY <2>1, <1>0, <1>7
  <2>2. CASE F # 1
    <3>1. F - 1 \in 1..N
      BY <2>2, <1>0
    <3>2. F - 1 \notin F..N
      BY <1>0
    <3>3. F - 1 \in T
      BY <3>1, <3>2, <1>2 DEF Unshown
    <3> QED
      BY <3>3, <1>5, <1>6, <1>7, <1>0
  <2> QED
    BY <2>1, <2>2
<1>9. ASSUME NEW n \in F..N, n > G PROVE n \in S
  <2>1. n \in 1..N
    BY <1>0
  <2>2. n \notin T
    BY <2>1, <1>9, <1>5, <1>6, <1>7, <1>0
  <2> QED
    BY <2>1, <2>2, <1>2
<1>10. N = 0 => G = 0
  BY <1>3, <1>5, <1>6
<1> QED
  BY <1>7, <1>8, <1>9, <1>10
-----------------------------------------------------------------------------
(* The steps: types. *)

LEMMA CommitStep ==
    ASSUME BackendTypes, Gapless(lineEvents, last), Commit
    PROVE  /\ last' \in 0..MaxLines /\ kept' \in 1..(last' + 1) /\ (last' > 0 => kept' <= last')
           /\ lineEvents' \in Events
           /\ Gapless(lineEvents', last')
           /\ Grown(lineEvents, last, lineEvents', last')
<1>1. /\ last \in 0..MaxLines /\ kept \in 1..(last + 1) /\ lineEvents \in Events
      /\ Capacity \in Nat \ {0} /\ MaxLines \in Nat
  BY LogAssumption DEF BackendTypes
<1>2. /\ last < MaxLines
      /\ last' = last + 1
      /\ kept' = IF last + 1 - kept + 1 > Capacity THEN kept + 1 ELSE kept
      /\ lineEvents' = Append(lineEvents, last + 1)
  BY DEF Commit
<1>3. last' \in 0..MaxLines /\ kept' \in 1..(last' + 1) /\ (last' > 0 => kept' <= last')
  BY <1>1, <1>2
<1>4. /\ Append(lineEvents, last + 1) \in Events
      /\ Gapless(Append(lineEvents, last + 1), last + 1)
      /\ Grown(lineEvents, last, Append(lineEvents, last + 1), last + 1)
  BY <1>1, <1>2, LineCommitted
<1> QED
  BY <1>2, <1>3, <1>4

\* A step of the backend either commits a line, or tells nothing.
Tells == Commit \/ UNCHANGED <<last, kept, lineEvents>>

LEMMA TellsStep ==
    ASSUME BackendTypes, Gapless(lineEvents, last), Tells
    PROVE  /\ last' \in 0..MaxLines /\ kept' \in 1..(last' + 1) /\ (last' > 0 => kept' <= last')
           /\ lineEvents' \in Events
           /\ Gapless(lineEvents', last')
<1>1. CASE Commit
  BY <1>1, CommitStep
<1>2. CASE UNCHANGED <<last, kept, lineEvents>>
  BY <1>2 DEF BackendTypes
<1> QED
  BY <1>1, <1>2 DEF Tells

BackendStep ==
    \/ AppendLine \/ WorkerSays
    \/ NextHook \/ HookLogs \/ HookFails \/ HookedLine \/ SetHookEnabled
    \/ RunHooks \/ RunDrains \/ RunCloses

LEMMA BackendStepTells ==
    ASSUME BackendStep
    PROVE  /\ Tells
           /\ UNCHANGED <<window, maxSeq, initialized, noMoreOlder, gone, pages, reset, overtook>>
<1> USE DEF Tells, Commit, uiLogVars, windowVars, hookVars
<1>1. CASE AppendLine
  BY <1>1 DEF AppendLine
<1>2. CASE WorkerSays
  BY <1>2 DEF WorkerSays
<1>3. CASE NextHook
  BY <1>3 DEF NextHook
<1>4. CASE HookLogs
  BY <1>4 DEF HookLogs
<1>5. CASE HookFails
  BY <1>5 DEF HookFails
<1>6. CASE HookedLine
  BY <1>6 DEF HookedLine
<1>7. CASE SetHookEnabled
  BY <1>7 DEF SetHookEnabled
<1>8. CASE RunHooks
  BY <1>8 DEF RunHooks
<1>9. CASE RunDrains
  BY <1>9 DEF RunDrains
<1>10. CASE RunCloses
  BY <1>10 DEF RunCloses
<1> QED
  BY <1>1, <1>2, <1>3, <1>4, <1>5, <1>6, <1>7, <1>8, <1>9, <1>10 DEF BackendStep

LEMMA BackendStepTypes ==
    ASSUME BackendTypes, Gapless(lineEvents, last), BackendStep
    PROVE  BackendTypes'
<1>1. /\ last' \in 0..MaxLines /\ kept' \in 1..(last' + 1) /\ (last' > 0 => kept' <= last')
      /\ lineEvents' \in Events
  BY BackendStepTells, TellsStep
<1>2. LogHooks \in Nat /\ HookCapacity \in Nat /\ Skipped = LogHooks + 1
  BY LogAssumption DEF Skipped
<1>3. /\ waiting \in 0..HookCapacity
      /\ enabledHooks \in 0..LogHooks /\ chain \in 0..LogHooks /\ hookAt \in 0..(LogHooks + 1)
      /\ logRun \in {"none", "running", "draining"}
  BY <1>2 DEF BackendTypes
<1>4. /\ waiting' \in 0..HookCapacity
      /\ enabledHooks' \in 0..LogHooks /\ chain' \in 0..LogHooks /\ hookAt' \in 0..(LogHooks + 1)
      /\ logRun' \in {"none", "running", "draining"}
  <2> USE DEF hookVars
  <2>1. CASE AppendLine
    BY <2>1, <1>2, <1>3 DEF AppendLine
  <2>2. CASE WorkerSays
    BY <2>2, <1>3 DEF WorkerSays
  <2>3. CASE NextHook
    BY <2>3, <1>2, <1>3 DEF NextHook
  <2>4. CASE HookLogs
    BY <2>4, <1>3 DEF HookLogs
  <2>5. CASE HookFails
    BY <2>5, <1>2, <1>3 DEF HookFails
  <2>6. CASE HookedLine
    BY <2>6, <1>2, <1>3 DEF HookedLine
  <2>7. CASE SetHookEnabled
    BY <2>7, <1>2, <1>3 DEF SetHookEnabled, Switched
  <2>8. CASE RunHooks
    BY <2>8, <1>3 DEF RunHooks
  <2>9. CASE RunDrains
    BY <2>9, <1>3 DEF RunDrains
  <2>10. CASE RunCloses
    BY <2>10, <1>3 DEF RunCloses
  <2> QED
    BY <2>1, <2>2, <2>3, <2>4, <2>5, <2>6, <2>7, <2>8, <2>9, <2>10 DEF BackendStep
<1> QED
  BY <1>1, <1>2, <1>4 DEF BackendTypes

\* What a step does to the pages under way, seen from the pages it leaves.
LEMMA PagesWithout ==
    ASSUME pages \in Seq(Pages), NEW i \in DOMAIN pages
    PROVE  /\ RemoveAt(pages, i) \in Seq(Pages)
           /\ \E h : LeftAt(h, RemoveAt(pages, i), pages, i)
           /\ \A k \in DOMAIN pages : k # i =>
                 \E j \in DOMAIN RemoveAt(pages, i) : RemoveAt(pages, i)[j] = pages[k]
<1> DEFINE r == RemoveAt(pages, i)
           h == [j \in 1..Len(r) |-> IF j < i THEN j ELSE j + 1]
<1>1. /\ r \in Seq(Pages)
      /\ \A j \in DOMAIN r :
             LET k == IF j < i THEN j ELSE j + 1
             IN k \in DOMAIN pages /\ k # i /\ r[j] = pages[k]
      /\ \A k \in DOMAIN pages : k # i => \E j \in DOMAIN r : r[j] = pages[k]
  BY RemovedAt
<1>2. DOMAIN pages = 1..Len(pages) /\ i \in Nat
  OBVIOUS
<1> HIDE DEF r
<1>3. DOMAIN r = 1..Len(r) /\ Len(r) \in Nat
  BY <1>1
<1>4. \A k \in 1..Len(r) : h[k] \in 1..Len(pages) /\ h[k] # i /\ r[k] = pages[h[k]]
  BY <1>1, <1>2, <1>3
<1>5. \A j, k \in 1..Len(r) : h[j] = h[k] => j = k
  BY <1>2, <1>3
<1>6. h \in [1..Len(r) -> 1..Len(pages)]
  BY <1>4
<1> HIDE DEF h
<1>7. LeftAt(h, r, pages, i)
  BY <1>4, <1>5, <1>6 DEF LeftAt
<1> QED
  BY <1>1, <1>7 DEF r

LEMMA PagesFiltered ==
    ASSUME pages \in Seq(Pages), NEW keep
    PROVE  /\ Filtered(pages, keep) \in Seq(Pages)
           /\ \E h : LeftAt(h, Filtered(pages, keep), pages, 0)
<1> DEFINE r == Filtered(pages, keep)
<1>1. r \in Seq(Pages) /\ \E h : Picks(h, r, pages, keep)
  BY FilteredPlaces
<1> HIDE DEF r
<1>2. PICK h : Picks(h, r, pages, keep)
  BY <1>1
<1>3. /\ h \in [1..Len(r) -> 1..Len(pages)]
      /\ \A k \in DOMAIN h : r[k] = pages[h[k]]
      /\ \A j, k \in DOMAIN h : j < k => h[j] < h[k]
  BY <1>2 DEF Picks
<1>4. /\ DOMAIN h = 1..Len(r)
      /\ \A k \in 1..Len(r) : h[k] \in Int /\ h[k] # 0
  BY <1>3
<1>5. \A j, k \in 1..Len(r) : h[j] = h[k] => j = k
  BY <1>3, <1>4
<1>6. LeftAt(h, r, pages, 0)
  BY <1>3, <1>4, <1>5 DEF LeftAt
<1> QED
  BY <1>1, <1>6 DEF r
-----------------------------------------------------------------------------
(* The steps: the window and the pages. *)

\* What a step has to show.
Kept ==
    /\ LogTypes'
    /\ Gapless(lineEvents', last')
    /\ \/ overtook'
       \/ /\ Shown(window', maxSeq', gone', lineEvents', last', Due(initialized', pages'))
          /\ PagesOk(pages', window', maxSeq', gone', lineEvents', last', initialized')

LEMMA KeptIsInv ==
    ASSUME Kept, Drained'
    PROVE  LogInv'
  BY DEF Kept, LogInv, WindowInv, PagesInv

LEMMA PagesGrown ==
    ASSUME NEW ps \in Seq(Pages), NEW evts \in Events, NEW final \in 0..MaxLines, Gapless(evts, final),
           NEW ev \in Events, NEW fin \in 0..MaxLines, Grown(evts, final, ev, fin),
           NEW win, NEW max \in 0..MaxLines, NEW g \in 0..MaxLines, NEW init,
           PagesOk(ps, win, max, g, evts, final, init)
    PROVE  PagesOk(ps, win, max, g, ev, fin, init)
<1>1. \A i \in DOMAIN ps : CurrentOk(ps[i], win, max, g, ev, fin, init, Due(init, ps))
  <2> SUFFICES ASSUME NEW i \in DOMAIN ps PROVE CurrentOk(ps[i], win, max, g, ev, fin, init, Due(init, ps))
    OBVIOUS
  <2>1. ps[i] \in Pages
    BY ElementOf
  <2>2. CurrentOk(ps[i], win, max, g, evts, final, init, Due(init, ps))
    BY DEF PagesOk
  <2> QED
    BY <2>1, <2>2, GrownKeeps
<1> QED
  BY <1>1 DEF PagesOk

LEMMA BackendStepKeeps ==
    ASSUME LogTypes, Gapless(lineEvents, last), overtook \/ (WindowInv /\ PagesInv), BackendStep
    PROVE  Kept
<1>1. /\ Tells
      /\ UNCHANGED <<window, maxSeq, initialized, noMoreOlder, gone, pages, reset, overtook>>
  BY BackendStepTells
<1>2. BackendTypes /\ WindowTypes /\ pages \in Seq(Pages)
  BY DEF LogTypes
<1>3. BackendTypes'
  BY <1>2, BackendStepTypes
<1>4. LogTypes'
  BY <1>1, <1>2, <1>3 DEF LogTypes, WindowTypes
<1>5. Gapless(lineEvents', last')
  BY <1>1, <1>2, TellsStep
<1>6. CASE UNCHANGED <<last, kept, lineEvents>>
  BY <1>1, <1>4, <1>5, <1>6 DEF Kept, WindowInv, PagesInv
<1>7. CASE Commit
  <2>1. Grown(lineEvents, last, lineEvents', last') /\ lineEvents' \in Events /\ last' \in 0..MaxLines
    BY <1>2, <1>7, CommitStep
  <2>2. maxSeq \in 0..MaxLines /\ gone \in 0..MaxLines /\ lineEvents \in Events /\ last \in 0..MaxLines
    BY <1>2 DEF WindowTypes, BackendTypes
  <2>3. ASSUME WindowInv, PagesInv
        PROVE  /\ Shown(window, maxSeq, gone, lineEvents', last', Due(initialized, pages))
               /\ PagesOk(pages, window, maxSeq, gone, lineEvents', last', initialized)
    <3>1. Shown(window, maxSeq, gone, lineEvents', last', Due(initialized, pages))
      BY <2>1, <2>2, <2>3, GrownKeeps DEF WindowInv
    <3>2. PagesOk(pages, window, maxSeq, gone, lineEvents', last', initialized)
      BY <1>2, <2>1, <2>2, <2>3, PagesGrown DEF PagesInv
    <3> QED
      BY <3>1, <3>2
  <2> QED
    BY <1>1, <1>4, <1>5, <2>3 DEF Kept
<1> QED
  BY <1>1, <1>6, <1>7 DEF Tells

\* A first page is asked for.
LEMMA InitLogsKeeps ==
    ASSUME LogTypes, Gapless(lineEvents, last), overtook \/ (WindowInv /\ PagesInv), InitLogs
    PROVE  Kept
<1> DEFINE q == [op |-> "init", current |-> TRUE, stage |-> "asked",
                 before |-> MaxLines + 1, lines |-> <<>>, behind |-> 0]
<1>1. /\ ~initialized /\ pages' = Append(pages, q)
      /\ UNCHANGED <<backendLog, lineEvents, windowVars, reset, overtook>>
  BY DEF InitLogs, Asking
<1>2. q \in Pages /\ q.op = "init" /\ q.stage = "asked" /\ q.behind = 0 /\ q.lines = <<>> /\ q.current
      /\ q.before = MaxLines + 1
  BY LogAssumption DEF Pages
<1> HIDE DEF q
<1>3. pages \in Seq(Pages)
  BY DEF LogTypes
<1>4. pages' \in Seq(Pages)
  BY <1>1, <1>2, <1>3, OneLineMore
<1>5. LogTypes'
  BY <1>1, <1>4 DEF LogTypes, WindowTypes, BackendTypes, backendLog, windowVars, hookVars
<1>6. Due(initialized, pages) /\ Due(initialized, Append(pages, q))
  BY <1>1 DEF Due
<1>7. CurrentOk(q, window, maxSeq, gone, lineEvents, last, initialized, Due(initialized, Append(pages, q)))
  <2>1. PageOk(q, lineEvents, last)
    <3>1. Len(lineEvents) \in Nat
      BY DEF LogTypes, BackendTypes, Events
    <3> QED
      BY <1>2, <3>1 DEF PageOk
  <2> QED
    BY <1>2, <2>1 DEF CurrentOk, FirstPageOk, OlderPageOk
<1>8. ASSUME WindowInv, PagesInv
      PROVE  /\ Shown(window, maxSeq, gone, lineEvents, last, Due(initialized, pages'))
             /\ PagesOk(pages', window, maxSeq, gone, lineEvents, last, initialized)
  <2>1. PagesOk(Append(pages, q), window, maxSeq, gone, lineEvents, last, initialized)
    BY <1>2, <1>3, <1>6, <1>7, <1>8, OneMorePage DEF PagesInv
  <2>2. Shown(window, maxSeq, gone, lineEvents, last, Due(initialized, Append(pages, q)))
    BY <1>6, <1>8, LessDue DEF WindowInv
  <2> QED
    BY <1>1, <2>1, <2>2
<1>9. UNCHANGED <<lineEvents, last, window, maxSeq, gone, initialized, overtook>>
  BY <1>1 DEF backendLog, windowVars
<1> QED
  BY <1>5, <1>8, <1>9 DEF Kept

\* The lines before the oldest one in the window are asked for.
LEMMA LoadOlderLogsKeeps ==
    ASSUME LogTypes, Gapless(lineEvents, last), overtook \/ (WindowInv /\ PagesInv), LoadOlderLogs
    PROVE  Kept
<1>1. PICK oldest \in DOMAIN window :
         /\ window[oldest].seq # 0 /\ \A j \in 1..(oldest - 1) : window[j].seq = 0
         /\ Asking("older", window[oldest].seq)
  BY DEF LoadOlderLogs
<1> DEFINE b == window[oldest].seq
           q == [op |-> "older", current |-> TRUE, stage |-> "asked",
                 before |-> b, lines |-> <<>>, behind |-> 0]
<1>2. /\ initialized /\ ~Loading /\ pages' = Append(pages, q)
      /\ UNCHANGED <<backendLog, lineEvents, windowVars, reset, overtook>>
  BY <1>1 DEF LoadOlderLogs, Asking
<1>3. /\ window \in Seq(Lines) /\ pages \in Seq(Pages) /\ DOMAIN window = 1..Len(window)
      /\ Len(window) \in Nat /\ MaxLines \in Nat
  BY LogAssumption DEF LogTypes, WindowTypes
<1>4. b \in Seqs /\ b \in 1..MaxLines
  <2>1. window[oldest] \in Lines
    BY <1>3, ElementOf
  <2> QED
    BY <1>1, <1>3, <2>1 DEF Seqs, SeqsOf, Lines
<1>5. ASSUME Ordered(window), NEW n \in Seqs PROVE n >= b
  <2>1. PICK k \in DOMAIN window : n # 0 /\ window[k].seq = n
    BY DEF Seqs, SeqsOf
  <2>2. k \in Nat /\ k >= 1 /\ oldest \in Nat
    BY <1>3
  <2>3. ~(k < oldest)
    BY <2>1, <2>2, <1>1
  <2>4. n \in 1..MaxLines
    BY <1>3, SeqsAre DEF Seqs
  <2>5. CASE k = oldest
    BY <2>1, <2>5, <1>4
  <2>6. CASE k > oldest
    <3>1. b < n
      BY <2>1, <2>6, <1>1, <1>5 DEF Ordered
    <3> QED
      BY <3>1, <2>4, <1>4
  <2> QED
    BY <2>2, <2>3, <2>5, <2>6
<1>6. q \in Pages /\ q.op = "older" /\ q.stage = "asked" /\ q.behind = 0 /\ q.lines = <<>> /\ q.current
      /\ q.before = b
  BY <1>3, <1>4 DEF Pages
<1> HIDE DEF q, b
<1>7. pages' \in Seq(Pages)
  BY <1>2, <1>3, <1>6, OneLineMore
<1>8. LogTypes'
  BY <1>2, <1>7 DEF LogTypes, WindowTypes, BackendTypes, backendLog, windowVars, hookVars
<1>9. Due(initialized, Append(pages, q)) => Due(initialized, pages)
  <2>1. /\ Len(pages) \in Nat /\ DOMAIN pages = 1..Len(pages)
        /\ DOMAIN Append(pages, q) = 1..(Len(pages) + 1)
        /\ \A k \in DOMAIN pages : Append(pages, q)[k] = pages[k]
        /\ Append(pages, q)[Len(pages) + 1] = q
    BY <1>3, <1>6, OneLineMore
  <2>2. \A k \in 1..(Len(pages) + 1) : k \in 1..Len(pages) \/ k = Len(pages) + 1
    BY <2>1
  <2> QED
    BY <2>1, <2>2, <1>6 DEF Due
<1>10. ASSUME WindowInv, PagesInv
       PROVE  /\ Shown(window, maxSeq, gone, lineEvents, last, Due(initialized, pages'))
              /\ PagesOk(pages', window, maxSeq, gone, lineEvents, last, initialized)
  <2>1. PageOk(q, lineEvents, last)
    <3>1. Len(lineEvents) \in Nat
      BY DEF LogTypes, BackendTypes, Events
    <3> QED
      BY <1>6, <3>1 DEF PageOk
  <2>2. OlderPageOk(q, window, maxSeq, lineEvents, initialized, Due(initialized, Append(pages, q)))
    <3>1. b \in 1..maxSeq /\ Ordered(window) /\ maxSeq \in Nat
      BY <1>4, <1>10, LogAssumption DEF WindowInv, Shown, Seqs, LogTypes, WindowTypes
    <3>2. \A n \in Seqs : \A m \in n..(b - 1) : m \in Seqs
      <4> SUFFICES ASSUME NEW n \in Seqs, NEW m \in n..(b - 1) PROVE FALSE
        OBVIOUS
      <4>1. n >= b
        BY <3>1, <1>5
      <4>2. n \in 1..MaxLines
        BY <1>3, SeqsAre DEF Seqs
      <4> QED
        BY <4>1, <4>2, <1>4
    <3>3. b <= maxSeq
      BY <3>1
    <3> QED
      BY <3>2, <3>3, <1>2, <1>4, <1>6 DEF OlderPageOk, Seqs
  <2>3. CurrentOk(q, window, maxSeq, gone, lineEvents, last, initialized, Due(initialized, Append(pages, q)))
    BY <2>1, <2>2, <1>6 DEF CurrentOk, FirstPageOk
  <2>4. \A i \in DOMAIN pages : ~(pages[i].current /\ pages[i].op = "older")
    BY <1>2 DEF Loading
  <2>5. PagesOk(Append(pages, q), window, maxSeq, gone, lineEvents, last, initialized)
    BY <1>3, <1>6, <1>9, <1>10, <2>3, <2>4, OneMorePage DEF PagesInv
  <2>6. Shown(window, maxSeq, gone, lineEvents, last, Due(initialized, Append(pages, q)))
    BY <1>9, <1>10, LessDue DEF WindowInv
  <2> QED
    BY <1>2, <2>5, <2>6
<1>11. UNCHANGED <<lineEvents, last, window, maxSeq, gone, initialized, overtook>>
  BY <1>2 DEF backendLog, windowVars
<1> QED
  BY <1>8, <1>10, <1>11 DEF Kept

\* The lines of a page are the backend's when it is served.
LEMMA ServePageKeeps ==
    ASSUME LogTypes, Gapless(lineEvents, last), overtook \/ (WindowInv /\ PagesInv),
           NEW i \in DOMAIN pages, ServePage(i)
    PROVE  Kept
<1> DEFINE p == pages[i]
           lines == RecentBefore(p.before)
           q == [p EXCEPT !.stage = "answered", !.behind = Len(lineEvents), !.lines = lines]
<1>1. /\ pages \in Seq(Pages) /\ window \in Seq(Lines) /\ DOMAIN pages = 1..Len(pages)
      /\ lineEvents \in Events /\ last \in 0..MaxLines /\ kept \in 1..(last + 1) /\ (last > 0 => kept <= last)
      /\ maxSeq \in Nat /\ MaxLines \in Nat
  BY LogAssumption DEF LogTypes, WindowTypes, BackendTypes
<1>2. p \in Pages
  BY <1>1, ElementOf
<1>3. p.before \in 1..(MaxLines + 1)
  BY <1>2 DEF Pages
<1>4. /\ lines \in Seq(1..MaxLines)
      /\ \A k \in DOMAIN lines : lines[k] = Newest(lines) - Len(lines) + k
      /\ Newest(lines) <= last
      /\ p.before <= last /\ lines # <<>> => Newest(lines) = p.before - 1
      /\ p.before > last => Newest(lines) = last
  BY <1>1, <1>3, RecentIs
<1>5. /\ Len(lineEvents) \in Nat
      /\ \A k \in 1..Len(lineEvents) : lineEvents[k] \in Int
      /\ lineEvents = <<>> <=> Len(lineEvents) = 0
  BY <1>1, EventsAre
<1>6. /\ p.stage = "asked"
      /\ pages' = [pages EXCEPT ![i] = q]
      /\ UNCHANGED <<backendLog, lineEvents, windowVars, reset, resets, overtook>>
  BY <1>1 DEF ServePage
<1> HIDE DEF lines
<1>7. /\ q \in Pages /\ q.op = p.op /\ q.current = p.current /\ q.stage = "answered"
      /\ q.before = p.before /\ q.lines = lines /\ q.behind = Len(lineEvents)
  BY <1>2, <1>4, <1>5 DEF Pages
<1> HIDE DEF q
<1>8. pages' \in Seq(Pages) /\ DOMAIN pages' = DOMAIN pages
      /\ pages'[i] = q /\ \A k \in DOMAIN pages : k # i => pages'[k] = pages[k]
  BY <1>1, <1>6, <1>7
<1>9. LogTypes'
  BY <1>6, <1>8 DEF LogTypes, WindowTypes, BackendTypes, backendLog, windowVars, hookVars
<1>10. UNCHANGED <<lineEvents, last, window, maxSeq, gone, initialized, overtook>>
  BY <1>6 DEF backendLog, windowVars
<1>11. Due(initialized, pages') <=> Due(initialized, pages)
  BY <1>7, <1>8 DEF Due
<1>12. ASSUME WindowInv, PagesInv, p.current
       PROVE  CurrentOk(q, window, maxSeq, gone, lineEvents, last, initialized, Due(initialized, pages))
  <2>1. /\ PageOk(p, lineEvents, last)
        /\ OlderPageOk(p, window, maxSeq, lineEvents, initialized, Due(initialized, pages))
    BY <1>12 DEF PagesInv, PagesOk, CurrentOk
  <2>2. PageOk(q, lineEvents, last)
    <3>1. p.op = "init" => p.before = MaxLines + 1
      BY <2>1 DEF PageOk
    <3> QED
      BY <3>1, <1>4, <1>5, <1>7 DEF PageOk
  <2>3. Newest(lines) \in Nat
    BY <1>1, <1>4, NewestIs
  <2>4. Deathless(lineEvents, 1, Len(lineEvents)) => maxSeq <= last
    BY <1>12 DEF WindowInv, Shown
  <2>5. ASSUME q.op = "init", Ours(q, lineEvents)
        PROVE  /\ q.behind > 0 => Newest(q.lines) = lineEvents[q.behind]
               /\ q.behind = 0 /\ maxSeq = 0 => Newest(q.lines) = gone
               /\ q.behind = 0 /\ maxSeq > 0 => Newest(q.lines) <= maxSeq
               /\ \A m \in (Newest(q.lines) + 1)..maxSeq : m \in SeqsOf(window)
    <3>1. Deathless(lineEvents, 1, Len(lineEvents))
      BY <2>5, <1>7 DEF Ours
    <3>2. p.before > last
      BY <2>1, <2>5, <1>1, <1>7 DEF PageOk
    <3>3. Newest(q.lines) = last
      BY <3>2, <1>4, <1>7
    <3>4. q.behind > 0 => Newest(q.lines) = lineEvents[q.behind]
      <4> SUFFICES ASSUME q.behind > 0 PROVE last = lineEvents[Len(lineEvents)]
        BY <3>3, <1>7
      <4>1. Len(lineEvents) \in 1..Len(lineEvents) /\ lineEvents # <<>>
        BY <1>5, <1>7
      <4>2. lineEvents[Len(lineEvents)] # Death
        BY <3>1, <4>1 DEF Deathless
      <4> QED
        BY <4>1, <4>2 DEF Gapless
    <3>5. ASSUME q.behind = 0
          PROVE  /\ maxSeq = 0 => Newest(q.lines) = gone
                 /\ maxSeq > 0 => Newest(q.lines) <= maxSeq
      <4>1. lineEvents = <<>>
        BY <3>5, <1>5, <1>7
      <4> QED
        BY <4>1, <3>3, <1>12 DEF WindowInv, Shown, NextAfter, NotAfter
    <3>6. ~\E m \in (Newest(q.lines) + 1)..maxSeq : TRUE
      BY <3>1, <3>3, <2>4, <1>1
    <3> QED
      BY <3>4, <3>5, <3>6
  <2>6. FirstPageOk(q, window, maxSeq, gone, lineEvents)
    BY <2>5 DEF FirstPageOk
  <2>7. OlderPageOk(q, window, maxSeq, lineEvents, initialized, Due(initialized, pages))
    <3>1. ASSUME q.op = "older", Ours(q, lineEvents), q.lines # <<>> PROVE Newest(q.lines) = q.before - 1
      <4>1. maxSeq <= last
        BY <3>1, <2>4, <1>7 DEF Ours
      <4>2. p.before <= maxSeq
        BY <3>1, <2>1, <1>7 DEF OlderPageOk
      <4>3. p.before <= last
        BY <4>1, <4>2, <1>1, <1>3
      <4> QED
        BY <4>3, <3>1, <1>4, <1>7
    <3> QED
      BY <3>1, <2>1, <1>7 DEF OlderPageOk
  <2> QED
    BY <2>2, <2>6, <2>7 DEF CurrentOk
<1>13. ASSUME WindowInv, PagesInv
       PROVE  /\ Shown(window, maxSeq, gone, lineEvents, last, Due(initialized, pages'))
              /\ PagesOk(pages', window, maxSeq, gone, lineEvents, last, initialized)
  <2>1. \A k \in DOMAIN pages : CurrentOk(pages[k], window, maxSeq, gone, lineEvents, last, initialized,
                                          Due(initialized, pages))
    BY <1>13 DEF PagesInv, PagesOk
  <2>2. CurrentOk(q, window, maxSeq, gone, lineEvents, last, initialized, Due(initialized, pages))
    <3>1. CASE p.current
      BY <3>1, <1>12, <1>13
    <3>2. CASE ~p.current
      BY <3>2, <1>7 DEF CurrentOk
    <3> QED
      BY <3>1, <3>2
  <2>3. \A k \in DOMAIN pages' : CurrentOk(pages'[k], window, maxSeq, gone, lineEvents, last, initialized,
                                          Due(initialized, pages))
    BY <2>1, <2>2, <1>8
  <2>4. OneOlder(pages')
    <3>1. OneOlder(pages)
      BY <1>13 DEF PagesInv, PagesOk
    <3>2. \A k \in DOMAIN pages : pages'[k].op = pages[k].op /\ pages'[k].current = pages[k].current
      BY <1>7, <1>8
    <3> QED
      BY <3>1, <3>2, <1>8 DEF OneOlder
  <2>5. Due(initialized, pages') = Due(initialized, pages)
    BY <1>11 DEF Due
  <2> QED
    BY <2>3, <2>4, <2>5, <1>13 DEF WindowInv, PagesOk
<1> QED
  BY <1>9, <1>10, <1>13 DEF Kept

\* getLogs fails: a first page that fails for good is not due any more.
LEMMA PageFailsKeeps ==
    ASSUME LogTypes, Gapless(lineEvents, last), overtook \/ (WindowInv /\ PagesInv),
           NEW i \in DOMAIN pages, PageFails(i)
    PROVE  Kept
<1>1. /\ pages' = RemoveAt(pages, i)
      /\ initialized' \in BOOLEAN /\ (initialized => initialized')
      /\ UNCHANGED <<backendLog, lineEvents, window, maxSeq, noMoreOlder, gone, reset, resets, overtook>>
  <2>1. initialized \in BOOLEAN
    BY DEF LogTypes, WindowTypes
  <2>2. UNCHANGED initialized \/ initialized' = TRUE
    BY DEF PageFails
  <2>3. initialized' \in BOOLEAN /\ (initialized => initialized')
    BY <2>1, <2>2
  <2> QED
    BY <2>3 DEF PageFails
<1>2. pages \in Seq(Pages)
  BY DEF LogTypes
<1>3. pages' \in Seq(Pages)
  BY <1>1, <1>2, PagesWithout
<1>4. PICK h : LeftAt(h, pages', pages, i)
  BY <1>1, <1>2, PagesWithout
<1>5. LogTypes'
  BY <1>1, <1>3 DEF LogTypes, WindowTypes, BackendTypes, backendLog, hookVars
<1>6. Due(initialized', pages') => Due(initialized, pages)
  BY <1>1, <1>2, <1>3, <1>4, NotDueYet
<1>7. ASSUME WindowInv, PagesInv
      PROVE  /\ Shown(window, maxSeq, gone, lineEvents, last, Due(initialized', pages'))
             /\ PagesOk(pages', window, maxSeq, gone, lineEvents, last, initialized')
  <2>1. Shown(window, maxSeq, gone, lineEvents, last, Due(initialized', pages'))
    BY <1>1, <1>6, <1>7, LessDue DEF WindowInv
  <2>2. PagesOk(pages', window, maxSeq, gone, lineEvents, last, initialized')
    BY <1>1, <1>2, <1>3, <1>4, <1>6, <1>7, FewerPages DEF PagesInv
  <2> QED
    BY <2>1, <2>2
<1>8. UNCHANGED <<lineEvents, last, window, maxSeq, gone, overtook>>
  BY <1>1 DEF backendLog
<1> QED
  BY <1>5, <1>7, <1>8 DEF Kept

\* A page that is not of this window any more changes nothing.
LEMMA StalePageKeeps ==
    ASSUME LogTypes, Gapless(lineEvents, last), overtook \/ (WindowInv /\ PagesInv),
           NEW i \in DOMAIN pages, PageReturns(i), ~pages[i].current
    PROVE  Kept
<1>1. /\ pages' = RemoveAt(pages, i)
      /\ overtook' = (overtook \/ Overtakes(i))
      /\ UNCHANGED <<backendLog, lineEvents, windowVars, reset, resets>>
  BY DEF PageReturns
<1>2. pages \in Seq(Pages)
  BY DEF LogTypes
<1>3. pages' \in Seq(Pages)
  BY <1>1, <1>2, PagesWithout
<1>4. PICK h : LeftAt(h, pages', pages, i)
  BY <1>1, <1>2, PagesWithout
<1>5. LogTypes'
  BY <1>1, <1>3 DEF LogTypes, WindowTypes, BackendTypes, backendLog, windowVars, hookVars
<1>6. Due(initialized, pages') => Due(initialized, pages)
  BY <1>2, <1>3, <1>4, NotDueYet
<1>7. ASSUME WindowInv, PagesInv
      PROVE  /\ Shown(window, maxSeq, gone, lineEvents, last, Due(initialized, pages'))
             /\ PagesOk(pages', window, maxSeq, gone, lineEvents, last, initialized)
  <2>1. Shown(window, maxSeq, gone, lineEvents, last, Due(initialized, pages'))
    BY <1>6, <1>7, LessDue DEF WindowInv
  <2>2. PagesOk(pages', window, maxSeq, gone, lineEvents, last, initialized)
    BY <1>2, <1>3, <1>4, <1>6, <1>7, FewerPages DEF PagesInv
  <2> QED
    BY <2>1, <2>2
<1>8. UNCHANGED <<lineEvents, last, window, maxSeq, gone, initialized>>
  BY <1>1 DEF backendLog, windowVars
<1>9. ~overtook' => ~overtook
  BY <1>1
<1> QED
  BY <1>5, <1>7, <1>8, <1>9 DEF Kept

\* What is known of a page that returns before anything it must not overtake.
LEMMA PageHasArrived ==
    ASSUME LogTypes, PagesInv, NEW i \in DOMAIN pages, pages[i].stage = "answered",
           pages[i].current, ~Overtakes(i)
    PROVE  /\ Arrived(pages[i])
           /\ FirstPageOk(pages[i], window, maxSeq, gone, lineEvents)
           /\ OlderPageOk(pages[i], window, maxSeq, lineEvents, initialized, Due(initialized, pages))
           /\ pages[i].op = "init" /\ maxSeq > 0 => pages[i].behind = 0
           /\ pages[i].op = "init" /\ pages[i].behind > 0 =>
                 \A j \in DOMAIN pages : pages[j].op = "init" /\ pages[j].current => j = i
<1> DEFINE p == pages[i]
<1>1. p \in Pages
  BY ElementOf DEF LogTypes
<1>2. p.behind \in Nat /\ maxSeq \in Nat
  BY <1>1, LogAssumption DEF Pages, LogTypes, WindowTypes
<1>3. CurrentOk(p, window, maxSeq, gone, lineEvents, last, initialized, Due(initialized, pages))
  BY DEF PagesInv, PagesOk
<1>4. p.behind > 0 => Ours(p, lineEvents)
  BY DEF Overtakes, Ours, Deathless
<1>5. p.behind = 0 => Ours(p, lineEvents)
  BY DEF Ours, Deathless
<1>6. Ours(p, lineEvents)
  BY <1>2, <1>4, <1>5
<1>7. p.op = "init" /\ maxSeq > 0 => p.behind = 0
  BY <1>2 DEF Overtakes
<1>8. p.op = "init" /\ p.behind > 0 => \A j \in DOMAIN pages : pages[j].op = "init" /\ pages[j].current => j = i
  BY DEF Overtakes
<1> QED
  BY <1>1, <1>3, <1>6, <1>7, <1>8 DEF Arrived, CurrentOk

\* The window after a step is what is left of the window and of the pages.
LEMMA PageIsGone ==
    ASSUME pages \in Seq(Pages), NEW i \in DOMAIN pages, pages' = RemoveAt(pages, i),
           NEW win, NEW max, NEW g, NEW init,
           OneOlder(pages),
           \A k \in DOMAIN pages : k # i =>
              CurrentOk(pages[k], win, max, g, lineEvents, last, init, Due(init, pages'))
    PROVE  PagesOk(pages', win, max, g, lineEvents, last, init)
<1>0. PICK h : LeftAt(h, pages', pages, i)
  BY PagesWithout
<1>1. /\ h \in [1..Len(pages') -> 1..Len(pages)]
      /\ \A k \in 1..Len(pages') : h[k] # i /\ pages'[k] = pages[h[k]]
      /\ \A j, k \in 1..Len(pages') : h[j] = h[k] => j = k
  BY <1>0 DEF LeftAt
<1>2. pages' \in Seq(Pages)
  BY PagesWithout
<1>3. DOMAIN pages' = 1..Len(pages') /\ DOMAIN pages = 1..Len(pages)
  BY <1>2
<1>4. \A k \in 1..Len(pages') : h[k] \in 1..Len(pages)
  BY <1>1
<1>5. \A k \in DOMAIN pages' :
         CurrentOk(pages'[k], win, max, g, lineEvents, last, init, Due(init, pages'))
  BY <1>1, <1>3, <1>4
<1>6. OneOlder(pages')
  BY <1>1, <1>3, <1>4 DEF OneOlder
<1> QED
  BY <1>5, <1>6 DEF PagesOk

LEMMA DueWithout ==
    ASSUME pages \in Seq(Pages), NEW i \in DOMAIN pages, NEW init
    PROVE  Due(init, RemoveAt(pages, i)) => Due(init, pages)
<1> DEFINE r == RemoveAt(pages, i)
<1>1. r \in Seq(Pages)
  BY PagesWithout
<1>2. PICK h : LeftAt(h, r, pages, i)
  BY PagesWithout
<1> HIDE DEF r
<1>3. Due(init, r) => Due(init, pages)
  BY <1>1, <1>2, NotDueYet
<1> QED
  BY <1>3 DEF r

\* Older lines are put on top.
LEMMA OlderPageKeeps ==
    ASSUME LogTypes, Gapless(lineEvents, last), overtook \/ (WindowInv /\ PagesInv),
           NEW i \in DOMAIN pages, PageReturns(i), pages[i].current, pages[i].op # "init"
    PROVE  Kept
<1> DEFINE p == pages[i]
           mer == Missing(p.lines) \o window
<1>1. /\ p.stage = "answered"
      /\ pages' = RemoveAt(pages, i)
      /\ overtook' = (overtook \/ Overtakes(i))
      /\ window' = mer
      /\ noMoreOlder' = (p.lines = <<>>)
      /\ UNCHANGED <<initialized, maxSeq, gone, backendLog, lineEvents, reset, resets>>
  BY DEF PageReturns
<1>2. pages \in Seq(Pages) /\ window \in Seq(Lines)
  BY DEF LogTypes, WindowTypes
<1>3. p \in Pages /\ p.op = "older"
  <2>1. p \in Pages
    BY <1>2, ElementOf
  <2> QED
    BY <2>1 DEF Pages
<1>4. pages' \in Seq(Pages)
  <2>1. RemoveAt(pages, i) \in Seq(Pages)
    BY <1>2, PagesWithout
  <2> QED
    BY <2>1, <1>1
<1>5. mer \in Seq(Lines)
  <2>1. p.lines \in Seq(1..MaxLines)
    BY <1>3 DEF Pages
  <2>2. Missing(p.lines) \in Seq(Lines)
    BY <2>1, MissingPlaces
  <2> QED
    BY <2>2, <1>2, JoinedIs
<1>6. LogTypes'
  BY <1>1, <1>4, <1>5 DEF LogTypes, WindowTypes, BackendTypes, backendLog, hookVars
<1>8. Due(initialized, pages') => Due(initialized, pages)
  <2>1. Due(initialized, RemoveAt(pages, i)) => Due(initialized, pages)
    BY <1>2, DueWithout
  <2> QED
    BY <2>1, <1>1
<1> HIDE DEF mer
<1>9. ASSUME WindowInv, PagesInv, ~Overtakes(i)
      PROVE  /\ Shown(mer, maxSeq, gone, lineEvents, last, Due(initialized, pages'))
             /\ PagesOk(pages', mer, maxSeq, gone, lineEvents, last, initialized)
  <2>1. /\ Arrived(p)
        /\ OlderPageOk(p, window, maxSeq, lineEvents, initialized, Due(initialized, pages))
    BY <1>1, <1>9, PageHasArrived
  <2>2. /\ Shown(mer, maxSeq, gone, lineEvents, last, Due(initialized, pages))
        /\ \A q \in Pages : /\ CurrentOk(q, window, maxSeq, gone, lineEvents, last, initialized, Due(initialized, pages))
                            /\ ~(q.current /\ q.op = "older")
              => CurrentOk(q, mer, maxSeq, gone, lineEvents, last, initialized, Due(initialized, pages))
    BY <1>3, <1>9, <2>1, OlderPageOnTop DEF WindowInv, mer
  <2>3. Shown(mer, maxSeq, gone, lineEvents, last, Due(initialized, pages'))
    BY <2>2, <1>8, LessDue
  <2>4. OneOlder(pages)
    BY <1>9 DEF PagesInv, PagesOk
  <2>5. ASSUME NEW k \in DOMAIN pages, k # i
        PROVE  CurrentOk(pages[k], mer, maxSeq, gone, lineEvents, last, initialized, Due(initialized, pages'))
    <3>1. pages[k] \in Pages
      BY <1>2, ElementOf
    <3>2. ~(pages[k].current /\ pages[k].op = "older")
      BY <2>4, <2>5, <1>3 DEF OneOlder
    <3>3. CurrentOk(pages[k], window, maxSeq, gone, lineEvents, last, initialized, Due(initialized, pages))
      BY <1>9 DEF PagesInv, PagesOk
    <3>4. CurrentOk(pages[k], mer, maxSeq, gone, lineEvents, last, initialized, Due(initialized, pages))
      BY <2>2, <3>1, <3>2, <3>3
    <3> QED
      BY <3>4, <1>8, LessDue
  <2>6. PagesOk(pages', mer, maxSeq, gone, lineEvents, last, initialized)
    BY <1>1, <1>2, <2>4, <2>5, PageIsGone
  <2> QED
    BY <2>3, <2>6
<1>10. UNCHANGED <<lineEvents, last, maxSeq, gone, initialized>>
  BY <1>1 DEF backendLog
<1>11. ~overtook' => WindowInv /\ PagesInv /\ ~Overtakes(i)
  BY <1>1
<1> QED
  BY <1>1, <1>6, <1>9, <1>10, <1>11 DEF Kept

\* A first page is merged, and what is too much is evicted.
LEMMA FirstPageKeeps ==
    ASSUME LogTypes, Gapless(lineEvents, last), overtook \/ (WindowInv /\ PagesInv),
           NEW i \in DOMAIN pages, PageReturns(i), pages[i].current, pages[i].op = "init"
    PROVE  Kept
<1> DEFINE p == pages[i]
           mer == Missing(p.lines) \o window
           w == Trimmed(mer)
           N == Newest(p.lines)
           F == Oldest(p.lines)
           due2 == Due(TRUE, pages')
<1>1. /\ p.stage = "answered"
      /\ pages' = RemoveAt(pages, i)
      /\ overtook' = (overtook \/ Overtakes(i))
      /\ window' = w
      /\ initialized' = TRUE
      /\ maxSeq' = Max({maxSeq, N})
      /\ gone' = IF maxSeq = 0 THEN Max({0} \cup ((1..N) \ SeqsOf(w))) ELSE GoneWith(w, SeqsOf(mer))
      /\ UNCHANGED <<noMoreOlder, backendLog, lineEvents, reset, resets>>
  BY DEF PageReturns
<1>2. pages \in Seq(Pages) /\ window \in Seq(Lines) /\ maxSeq \in 0..MaxLines /\ gone \in 0..MaxLines
      /\ MaxLines \in Nat /\ WindowCapacity \in Nat
  BY LogAssumption DEF LogTypes, WindowTypes
<1>3. p \in Pages
  BY <1>2, ElementOf
<1>4. RemoveAt(pages, i) \in Seq(Pages)
  BY <1>2, PagesWithout
<1>5. p.lines \in Seq(1..MaxLines)
  BY <1>3 DEF Pages
<1>6. Missing(p.lines) \in Seq(Lines)
  BY <1>5, MissingPlaces
<1>7. mer \in Seq(Lines)
  BY <1>2, <1>6, JoinedIs
<1>8. w \in Seq(Lines)
  BY <1>7, TrimPlaces
<1>9. N \in 0..MaxLines
  BY <1>5, NewestIs
<1> HIDE DEF mer, w, N, F, due2
<1>10. maxSeq' \in 0..MaxLines /\ maxSeq' = IF N <= maxSeq THEN maxSeq ELSE N
  <2> DEFINE S == {maxSeq, N}
  <2>1. S \in SUBSET (0..MaxLines) /\ S # {}
    BY <1>2, <1>9
  <2> HIDE DEF S
  <2>2. Max(S) \in S /\ \A y \in S : y <= Max(S)
    BY <1>2, <2>1, MaxOf
  <2>3. maxSeq' = Max(S)
    BY <1>1 DEF S
  <2> QED
    BY <2>1, <2>2, <2>3, <1>2, <1>9 DEF S
<1>11. SeqsOf(w) \subseteq 1..MaxLines /\ SeqsOf(mer) \subseteq 1..MaxLines
  BY <1>7, <1>8, SeqsAre
<1>12. gone' \in 0..MaxLines
  <2>1. CASE maxSeq = 0
    <3> DEFINE T == {0} \cup ((1..N) \ SeqsOf(w))
    <3>1. T \in SUBSET (0..MaxLines) /\ T # {}
      BY <1>2, <1>9
    <3> HIDE DEF T
    <3>2. Max(T) \in T
      BY <1>2, <3>1, MaxOf
    <3>3. gone' = Max(T)
      BY <1>1, <2>1 DEF T
    <3> QED
      BY <3>1, <3>2, <3>3
  <2>2. CASE maxSeq # 0
    <3>1. GoneWith(w, SeqsOf(mer)) \in 0..MaxLines
      BY <1>2, <1>11, GoneIs
    <3> QED
      BY <3>1, <2>2, <1>1
  <2> QED
    BY <2>1, <2>2
<1>13. LogTypes'
  BY <1>1, <1>4, <1>8, <1>10, <1>12 DEF LogTypes, WindowTypes, BackendTypes, backendLog, hookVars
<1>14. Due(initialized, pages)
  BY DEF Due
<1>15. ASSUME WindowInv, PagesInv, ~Overtakes(i)
       PROVE  /\ Shown(w, maxSeq', gone', lineEvents, last, due2)
              /\ \A k \in DOMAIN pages : k # i =>
                    CurrentOk(pages[k], w, maxSeq', gone', lineEvents, last, TRUE, due2)
  <2>1. /\ Arrived(p)
        /\ FirstPageOk(p, window, maxSeq, gone, lineEvents)
        /\ p.op = "init" /\ maxSeq > 0 => p.behind = 0
        /\ p.op = "init" /\ p.behind > 0 =>
                 \A j \in DOMAIN pages : pages[j].op = "init" /\ pages[j].current => j = i
    BY <1>1, <1>15, PageHasArrived
  <2>2. \A k \in DOMAIN pages : /\ pages[k] \in Pages
                                /\ CurrentOk(pages[k], window, maxSeq, gone, lineEvents, last, initialized, Due(initialized, pages))
    BY <1>2, <1>15, ElementOf DEF PagesInv, PagesOk
  <2>3. Shown(window, maxSeq, gone, lineEvents, last, Due(initialized, pages))
    BY <1>15 DEF WindowInv
  <2>4. CASE maxSeq = 0
    <3>1. p.behind > 0 => ~due2
      <4> SUFFICES ASSUME p.behind > 0, due2 PROVE FALSE
        OBVIOUS
      <4>1. PICK k \in DOMAIN pages' : pages'[k].op = "init" /\ pages'[k].current
        BY DEF due2, Due
      <4>2. PICK h : LeftAt(h, pages', pages, i)
        BY <1>1, <1>2, PagesWithout
      <4>4. /\ h \in [1..Len(pages') -> 1..Len(pages)]
            /\ \A j \in 1..Len(pages') : h[j] # i /\ pages'[j] = pages[h[j]]
        BY <4>2 DEF LeftAt
      <4>3. /\ k \in 1..Len(pages') /\ h[k] \in DOMAIN pages
            /\ h[k] # i /\ pages'[k] = pages[h[k]]
        <5>1. DOMAIN pages' = 1..Len(pages') /\ DOMAIN pages = 1..Len(pages)
          BY <1>1, <1>2, <1>4
        <5>2. k \in 1..Len(pages')
          BY <5>1
        <5> QED
          BY <4>4, <5>1, <5>2
      <4> QED
        BY <4>1, <4>3, <2>1
    <3>2. /\ SeqsOf(mer) = F..N
          /\ N = 0 => gone = 0
          /\ Shown(mer, N, F - 1, lineEvents, last, due2)
          /\ \A q \in Pages : /\ CurrentOk(q, window, maxSeq, gone, lineEvents, last, initialized, Due(initialized, pages))
                              /\ q.current /\ q.op = "init" => due2
                 => CurrentOk(q, mer, N, F - 1, lineEvents, last, TRUE, due2)
      BY <2>1, <2>3, <2>4, <3>1, FirstPageShown DEF mer, N, F
    <3>3. \A k \in DOMAIN p.lines : p.lines[k] = Newest(p.lines) - Len(p.lines) + k
      BY <2>1 DEF Arrived, PageOk
    <3>4. F \in 1..(MaxLines + 1) /\ F <= N + 1
      BY <1>5, <3>3, PageLines DEF F, N
    <3>5. Ordered(mer)
      BY <3>2 DEF Shown
    <3>6. /\ w \in Seq(Lines) /\ Ordered(w)
          /\ SeqsOf(w) \subseteq SeqsOf(mer)
          /\ \A n \in SeqsOf(w), m \in SeqsOf(mer) : n <= m => m \in SeqsOf(w)
          /\ Len(w) < WindowCapacity => w = mer
      BY <1>7, <3>5, TrimOrdered DEF w
    <3>7. /\ gone' >= F - 1
          /\ \A n \in F..N : n > gone' => n \in SeqsOf(w)
          /\ N = 0 => gone' = 0
      <4>1. gone' = Max({0} \cup ((1..N) \ SeqsOf(w)))
        BY <1>1, <2>4
      <4>2. SeqsOf(w) \subseteq F..N
        BY <3>2, <3>6
      <4>3. Unshown(gone', N, F, SeqsOf(w))
        BY <4>1, <4>2, <3>4, <1>9 DEF Unshown
      <4> QED
        BY <4>3, NeverShown
    <3>8. KeptOf(w, mer, gone')
      BY <3>2, <3>6, <3>7 DEF KeptOf
    <3>9. maxSeq' = N
      BY <1>10, <1>9, <2>4
    <3>10. F - 1 \in 0..MaxLines /\ (N = 0 => gone' = F - 1)
      BY <3>4, <3>7, <1>2
    <3>11. /\ Shown(w, N, gone', lineEvents, last, due2)
           /\ \A q : CurrentOk(q, mer, N, F - 1, lineEvents, last, TRUE, due2)
                        => CurrentOk(q, w, N, gone', lineEvents, last, TRUE, due2)
      BY <3>2, <3>7, <3>8, <3>10, <1>9, <1>12, KeptIsShown
    <3>12. ASSUME NEW k \in DOMAIN pages, k # i
           PROVE  CurrentOk(pages[k], w, N, gone', lineEvents, last, TRUE, due2)
      <4>1. pages[k].current /\ pages[k].op = "init" => due2
        <5>1. PICK j \in DOMAIN pages' : pages'[j] = pages[k]
          BY <3>12, <1>1, <1>2, PagesWithout
        <5> QED
          BY <5>1 DEF due2, Due
      <4> QED
        BY <4>1, <3>2, <3>11, <2>2
    <3> QED
      BY <3>9, <3>11, <3>12
  <2>5. CASE maxSeq # 0
    <3>1. maxSeq > 0 /\ p.behind = 0
      BY <2>1, <2>5, <1>2
    <3>2. due2 => Due(initialized, pages)
      BY <1>14
    <3>3. N <= maxSeq
      <4>1. p.stage = "answered" /\ Ours(p, lineEvents)
        BY <2>1 DEF Arrived
      <4> QED
        BY <2>1, <3>1, <4>1 DEF FirstPageOk, N
    <3>4. maxSeq' = maxSeq
      BY <3>3, <1>10
    <3>5. gone' = GoneWith(w, SeqsOf(mer))
      BY <1>1, <2>5
    <3>6. \E e \in Seq(Lines) :
             /\ w = Trimmed(e) /\ Ordered(e) /\ SeqsOf(e) \subseteq SeqsOf(mer)
             /\ Shown(e, maxSeq, gone, lineEvents, last, Due(initialized, pages))
             /\ \A q \in Pages : CurrentOk(q, window, maxSeq, gone, lineEvents, last, initialized, Due(initialized, pages))
                   => CurrentOk(q, e, maxSeq, gone, lineEvents, last, initialized, Due(initialized, pages))
      <4>1. CASE Len(window) < WindowCapacity
        <5>1. /\ Shown(mer, maxSeq, gone, lineEvents, last, Due(initialized, pages))
              /\ \A q \in Pages : CurrentOk(q, window, maxSeq, gone, lineEvents, last, initialized, Due(initialized, pages))
                    => CurrentOk(q, mer, maxSeq, gone, lineEvents, last, initialized, Due(initialized, pages))
          BY <1>14, <2>1, <2>3, <3>1, <4>1, FirstPageOnTop DEF mer
        <5>2. Ordered(mer)
          BY <5>1 DEF Shown
        <5> QED
          BY <5>1, <5>2, <1>7 DEF w
      <4>2. CASE ~(Len(window) < WindowCapacity)
        <5>1. WindowCapacity <= Len(window)
          BY <4>2, <1>2
        <5>2. w = Trimmed(window)
          BY <5>1, <1>2, <1>6, TrimOver DEF w, mer
        <5>3. Ordered(window)
          BY <2>3 DEF Shown
        <5>4. SeqsOf(window) \subseteq SeqsOf(mer)
          BY <1>2, <1>6, JoinedIs DEF mer
        <5> QED
          BY <5>2, <5>3, <5>4, <2>3, <1>2
      <4> QED
        BY <4>1, <4>2
    <3>7. PICK e \in Seq(Lines) :
             /\ w = Trimmed(e) /\ Ordered(e) /\ SeqsOf(e) \subseteq SeqsOf(mer)
             /\ Shown(e, maxSeq, gone, lineEvents, last, Due(initialized, pages))
             /\ \A q \in Pages : CurrentOk(q, window, maxSeq, gone, lineEvents, last, initialized, Due(initialized, pages))
                   => CurrentOk(q, e, maxSeq, gone, lineEvents, last, initialized, Due(initialized, pages))
      BY <3>6
    <3>8. KeptOf(w, e, gone') /\ gone' >= gone
      <4>1. /\ KeptOf(Trimmed(e), e, GoneWith(Trimmed(e), SeqsOf(mer)))
            /\ GoneWith(Trimmed(e), SeqsOf(mer)) >= gone
        BY <1>2, <1>11, <3>7, TrimIsKept
      <4> QED
        BY <4>1, <3>5, <3>7
    <3>9. /\ Shown(w, maxSeq, gone', lineEvents, last, Due(initialized, pages))
          /\ \A q : CurrentOk(q, e, maxSeq, gone, lineEvents, last, initialized, Due(initialized, pages))
                       => CurrentOk(q, w, maxSeq, gone', lineEvents, last, initialized, Due(initialized, pages))
      BY <1>2, <1>12, <2>5, <3>7, <3>8, KeptIsShown
    <3>10. Shown(w, maxSeq, gone', lineEvents, last, due2)
      BY <3>2, <3>9, LessDue
    <3>11. ASSUME NEW k \in DOMAIN pages
           PROVE  CurrentOk(pages[k], w, maxSeq, gone', lineEvents, last, TRUE, due2)
      <4>1. CurrentOk(pages[k], w, maxSeq, gone', lineEvents, last, initialized, Due(initialized, pages))
        BY <2>2, <3>7, <3>9
      <4> QED
        BY <4>1, <3>2, LessDue
    <3> QED
      BY <3>4, <3>10, <3>11
  <2> QED
    BY <2>4, <2>5
<1>16. ASSUME WindowInv, PagesInv, ~Overtakes(i)
       PROVE  PagesOk(pages', w, maxSeq', gone', lineEvents, last, TRUE)
  <2>1. OneOlder(pages)
    BY <1>16 DEF PagesInv, PagesOk
  <2>2. \A k \in DOMAIN pages : k # i =>
           CurrentOk(pages[k], w, maxSeq', gone', lineEvents, last, TRUE, Due(TRUE, pages'))
    BY <1>15, <1>16 DEF due2
  <2> QED
    BY <2>1, <2>2, <1>1, <1>2, PageIsGone
<1>17. UNCHANGED <<lineEvents, last>>
  BY <1>1 DEF backendLog
<1>18. ~overtook' => WindowInv /\ PagesInv /\ ~Overtakes(i)
  BY <1>1
<1>19. Gapless(lineEvents', last')
  BY <1>17
<1>20. overtook' \/ /\ Shown(window', maxSeq', gone', lineEvents', last', Due(initialized', pages'))
                    /\ PagesOk(pages', window', maxSeq', gone', lineEvents', last', initialized')
  <2> SUFFICES ASSUME ~overtook'
               PROVE  /\ Shown(window', maxSeq', gone', lineEvents', last', Due(initialized', pages'))
                      /\ PagesOk(pages', window', maxSeq', gone', lineEvents', last', initialized')
    OBVIOUS
  <2>1. /\ Shown(w, maxSeq', gone', lineEvents, last, due2)
        /\ PagesOk(pages', w, maxSeq', gone', lineEvents, last, TRUE)
    BY <1>15, <1>16, <1>18
  <2>2. window' = w /\ initialized' = TRUE /\ lineEvents' = lineEvents /\ last' = last
    BY <1>1, <1>17
  <2> QED
    BY <2>1, <2>2 DEF due2
<1> QED
  BY <1>13, <1>19, <1>20 DEF Kept

\* The pages are nearer by one event.
LEMMA PagesNearer ==
    ASSUME pages \in Seq(Pages), NextLine
    PROVE  /\ pages' \in Seq(Pages) /\ DOMAIN pages' = DOMAIN pages
           /\ \A k \in DOMAIN pages : pages[k] \in Pages /\ pages'[k] = Nearer(pages[k])
           /\ \A init : Due(init, pages') = Due(init, pages)
           /\ OneOlder(pages) => OneOlder(pages')
<1>1. pages' = [k \in DOMAIN pages |-> Nearer(pages[k])]
  BY DEF NextLine, Nearer
<1>2. Len(pages) \in Nat /\ DOMAIN pages = 1..Len(pages)
  OBVIOUS
<1>3. \A k \in 1..Len(pages) : pages[k] \in Pages /\ Nearer(pages[k]) \in Pages
  BY <1>2, ElementOf, NearerIs
<1>4. pages' \in [1..Len(pages) -> Pages]
  BY <1>1, <1>2, <1>3
<1>5. pages' \in Seq(Pages) /\ DOMAIN pages' = DOMAIN pages
  BY <1>2, <1>4
<1>6. \A k \in DOMAIN pages : pages[k] \in Pages /\ pages'[k] = Nearer(pages[k])
  BY <1>1, <1>2, <1>3
<1>7. \A k \in DOMAIN pages : pages'[k].op = pages[k].op /\ pages'[k].current = pages[k].current
  BY <1>6, NearerIs
<1>8. \A init : Due(init, pages') = Due(init, pages)
  BY <1>5, <1>7 DEF Due
<1>9. OneOlder(pages) => OneOlder(pages')
  BY <1>5, <1>7 DEF OneOlder
<1> QED
  BY <1>5, <1>6, <1>8, <1>9

LEMMA LineArrivesKeeps ==
    ASSUME LogTypes, Gapless(lineEvents, last), overtook \/ (WindowInv /\ PagesInv), LineArrives
    PROVE  Kept
<1> DEFINE seq == lineEvents[1]
           l == [seq |-> seq, young |-> TRUE]
           e == Append(window, l)
           w == Trimmed(e)
           due == Due(initialized, pages)
<1>1. /\ pages \in Seq(Pages) /\ window \in Seq(Lines) /\ maxSeq \in 0..MaxLines /\ gone \in 0..MaxLines
      /\ lineEvents \in Events /\ last \in 0..MaxLines /\ MaxLines \in Nat
  BY LogAssumption DEF LogTypes, WindowTypes, BackendTypes
<1>2. lineEvents # <<>>
  BY DEF LineArrives
<1>3. Head(lineEvents) = seq /\ Tail(lineEvents) \in Events /\ Gapless(Tail(lineEvents), last)
  BY <1>1, <1>2, EventReceived
<1>4. seq # Death
  BY <1>3 DEF LineArrives
<1>5. seq \in 1..MaxLines
  <2>1. Len(lineEvents) \in Nat /\ 1 \in 1..Len(lineEvents)
    BY <1>1, <1>2, EventsAre
  <2> QED
    BY <2>1, <1>1, <1>4, EventsAre
<1>6. l \in Lines /\ l.seq = seq
  BY <1>5 DEF Lines
<1>7. /\ NextLine
      /\ IF seq > maxSeq
         THEN /\ window' = w
              /\ maxSeq' = seq
              /\ gone' = GoneWith(w, SeqsOf(e))
         ELSE UNCHANGED <<window, maxSeq, gone>>
      /\ UNCHANGED <<backendLog, initialized, noMoreOlder, reset, resets, overtook>>
  BY <1>3 DEF LineArrives
<1>8. e \in Seq(Lines)
  BY <1>1, <1>6, OneLineMore
<1> HIDE DEF seq, l
<1>9. w \in Seq(Lines) /\ SeqsOf(e) \subseteq 1..MaxLines
  BY <1>8, TrimPlaces, SeqsAre
<1> HIDE DEF e, w
<1>10. GoneWith(w, SeqsOf(e)) \in 0..MaxLines
  BY <1>1, <1>9, GoneIs
<1>11. lineEvents' = Tail(lineEvents)
  BY <1>7 DEF NextLine
<1>12. /\ pages' \in Seq(Pages) /\ DOMAIN pages' = DOMAIN pages
       /\ \A k \in DOMAIN pages : pages[k] \in Pages /\ pages'[k] = Nearer(pages[k])
       /\ \A init : Due(init, pages') = Due(init, pages)
       /\ OneOlder(pages) => OneOlder(pages')
  BY <1>1, <1>7, PagesNearer
<1>13. window' \in Seq(Lines) /\ maxSeq' \in 0..MaxLines /\ gone' \in 0..MaxLines
  <2>1. CASE seq > maxSeq
    BY <2>1, <1>1, <1>5, <1>7, <1>9, <1>10
  <2>2. CASE ~(seq > maxSeq)
    BY <2>2, <1>1, <1>7
  <2> QED
    BY <2>1, <2>2
<1>14. LogTypes'
  <2>1. WindowTypes'
    BY <1>7, <1>13 DEF LogTypes, WindowTypes
  <2>2. BackendTypes'
    BY <1>3, <1>7, <1>11 DEF LogTypes, BackendTypes, backendLog, hookVars
  <2> QED
    BY <2>1, <2>2, <1>12 DEF LogTypes
<1>15. UNCHANGED <<last, initialized, overtook>>
  BY <1>7 DEF backendLog
<1>16. Gapless(lineEvents', last')
  BY <1>3, <1>11, <1>15
<1>17. Due(initialized', pages') = due
  BY <1>12, <1>15
<1>18. ASSUME WindowInv, PagesInv
       PROVE  /\ Shown(window', maxSeq', gone', Tail(lineEvents), last, due)
              /\ \A k \in DOMAIN pages :
                    CurrentOk(Nearer(pages[k]), window', maxSeq', gone', Tail(lineEvents), last, initialized, due)
  <2>1. Shown(window, maxSeq, gone, lineEvents, last, due)
    BY <1>18 DEF WindowInv
  <2>2. \A k \in DOMAIN pages : /\ pages[k] \in Pages
                                /\ CurrentOk(pages[k], window, maxSeq, gone, lineEvents, last, initialized, due)
    BY <1>12, <1>18 DEF PagesInv, PagesOk
  <2>3. CASE seq > maxSeq
    <3>1. /\ SeqsOf(e) = SeqsOf(window) \cup {seq}
          /\ Shown(e, seq, gone, Tail(lineEvents), last, due)
      BY <1>1, <1>2, <1>4, <1>6, <2>1, <2>3, NextLineShown DEF e, seq
    <3>2. \A k \in DOMAIN pages :
             CurrentOk(Nearer(pages[k]), e, seq, gone, Tail(lineEvents), last, initialized, due)
      <4> SUFFICES ASSUME NEW k \in DOMAIN pages
                   PROVE  CurrentOk(Nearer(pages[k]), e, seq, gone, Tail(lineEvents), last, initialized, due)
        OBVIOUS
      <4>1. pages[k] \in Pages /\ CurrentOk(pages[k], window, maxSeq, gone, lineEvents, last, initialized, due)
        BY <2>2
      <4> HIDE DEF due
      <4> QED
        BY <4>1, <1>1, <1>2, <1>4, <1>6, <2>1, <2>3, NewLinePages DEF e, seq
    <3>3. Ordered(e)
      BY <3>1 DEF Shown
    <3>4. KeptOf(w, e, GoneWith(w, SeqsOf(e))) /\ GoneWith(w, SeqsOf(e)) >= gone
      BY <1>1, <1>8, <1>9, <3>3, TrimIsKept DEF w
    <3>5. /\ Shown(w, seq, GoneWith(w, SeqsOf(e)), Tail(lineEvents), last, due)
          /\ \A p : CurrentOk(p, e, seq, gone, Tail(lineEvents), last, initialized, due)
                => CurrentOk(p, w, seq, GoneWith(w, SeqsOf(e)), Tail(lineEvents), last, initialized, due)
      <4>1. seq # 0 /\ seq \in 0..MaxLines
        BY <1>1, <1>5
      <4> QED
        BY <4>1, <1>1, <1>10, <3>1, <3>4, KeptIsShown
    <3>6. window' = w /\ maxSeq' = seq /\ gone' = GoneWith(w, SeqsOf(e))
      BY <2>3, <1>7
    <3> QED
      BY <3>2, <3>5, <3>6
  <2>4. CASE ~(seq > maxSeq)
    <3>1. seq <= maxSeq
      BY <2>4, <1>1, <1>5
    <3>2. window' = window /\ maxSeq' = maxSeq /\ gone' = gone
      BY <2>4, <1>7
    <3>3. /\ Shown(window, maxSeq, gone, Tail(lineEvents), last, due)
          /\ \A p \in Pages : /\ CurrentOk(p, window, maxSeq, gone, lineEvents, last, initialized, due)
                              /\ p.current /\ p.op = "init" => due
                => CurrentOk(Nearer(p), window, maxSeq, gone, Tail(lineEvents), last, initialized, due)
      <4> HIDE DEF due
      <4> QED
        BY <1>1, <1>2, <1>4, <2>1, <3>1, KnownLine DEF seq
    <3>4. \A k \in DOMAIN pages : pages[k].current /\ pages[k].op = "init" => due
      BY DEF Due
    <3> QED
      BY <2>2, <3>2, <3>3, <3>4
  <2> QED
    BY <2>3, <2>4
<1>19. ASSUME WindowInv, PagesInv
       PROVE  PagesOk(pages', window', maxSeq', gone', lineEvents', last', initialized')
  <2>1. OneOlder(pages')
    BY <1>12, <1>19 DEF PagesInv, PagesOk
  <2>2. \A k \in DOMAIN pages' :
           CurrentOk(pages'[k], window', maxSeq', gone', lineEvents', last', initialized', Due(initialized', pages'))
    BY <1>11, <1>12, <1>15, <1>17, <1>18, <1>19
  <2> QED
    BY <2>1, <2>2 DEF PagesOk
<1>20. ASSUME WindowInv, PagesInv
       PROVE  Shown(window', maxSeq', gone', lineEvents', last', Due(initialized', pages'))
  BY <1>11, <1>15, <1>17, <1>18, <1>20
<1> QED
  BY <1>14, <1>15, <1>16, <1>19, <1>20 DEF Kept

\* A line of the UI itself, which may evict others.
LEMMA LocalLineKeeps ==
    ASSUME LogTypes, Gapless(lineEvents, last), overtook \/ (WindowInv /\ PagesInv), LocalLine
    PROVE  Kept
<1> DEFINE l == [seq |-> 0, young |-> TRUE]
           e == Append(window, l)
           w == Trimmed(e)
           G == GoneWith(w, SeqsOf(e))
           due == Due(initialized, pages)
<1>1. /\ pages \in Seq(Pages) /\ window \in Seq(Lines) /\ maxSeq \in 0..MaxLines /\ gone \in 0..MaxLines
      /\ MaxLines \in Nat
  BY LogAssumption DEF LogTypes, WindowTypes
<1>2. l \in Lines /\ l.seq = 0
  BY <1>1 DEF Lines
<1>3. /\ window' = w /\ gone' = G
      /\ UNCHANGED <<backendLog, lineEvents, maxSeq, initialized, noMoreOlder, pages, reset, overtook>>
  BY DEF LocalLine
<1>4. e \in Seq(Lines) /\ SeqsOf(e) = SeqsOf(window)
  <2>1. {l.seq} \ {0} = {}
    BY <1>2
  <2>2. e \in Seq(Lines) /\ SeqsOf(e) = SeqsOf(window) \cup ({l.seq} \ {0})
    BY <1>1, <1>2, LineBelow
  <2> QED
    BY <2>1, <2>2
<1> HIDE DEF l
<1>5. w \in Seq(Lines) /\ SeqsOf(e) \subseteq 1..MaxLines
  BY <1>4, TrimPlaces, SeqsAre
<1> HIDE DEF w
<1>6. G \in 0..MaxLines
  BY <1>1, <1>5, GoneIs
<1> HIDE DEF G, e
<1>7. LogTypes'
  BY <1>3, <1>5, <1>6 DEF LogTypes, WindowTypes, BackendTypes, backendLog, hookVars
<1>8. ASSUME WindowInv, PagesInv
      PROVE  /\ Shown(w, maxSeq, G, lineEvents, last, due)
             /\ PagesOk(pages, w, maxSeq, G, lineEvents, last, initialized)
  <2> HIDE DEF due
  <2>1. Shown(window, maxSeq, gone, lineEvents, last, due)
    BY <1>8 DEF WindowInv, due
  <2>2. /\ Shown(e, maxSeq, gone, lineEvents, last, due)
        /\ \A p : CurrentOk(p, window, maxSeq, gone, lineEvents, last, initialized, due)
                     => CurrentOk(p, e, maxSeq, gone, lineEvents, last, initialized, due)
    BY <1>1, <1>2, <2>1, LocalLineShown DEF e
  <2>3. Ordered(e)
    BY <2>2 DEF Shown
  <2>4. /\ KeptOf(w, e, G) /\ G >= gone
        /\ SeqsOf(e) = {} => G = gone
    BY <1>1, <1>4, <1>5, <2>3, TrimIsKept DEF w, G
  <2>5. maxSeq = 0 => SeqsOf(e) = {}
    BY <1>4, <2>1 DEF Shown
  <2>6. /\ Shown(w, maxSeq, G, lineEvents, last, due)
        /\ \A p : CurrentOk(p, e, maxSeq, gone, lineEvents, last, initialized, due)
                     => CurrentOk(p, w, maxSeq, G, lineEvents, last, initialized, due)
    BY <1>1, <1>6, <2>2, <2>4, <2>5, KeptIsShown
  <2>7. PagesOk(pages, w, maxSeq, G, lineEvents, last, initialized)
    BY <1>8, <2>2, <2>6 DEF PagesInv, PagesOk, due
  <2> QED
    BY <2>6, <2>7
<1>9. UNCHANGED <<lineEvents, last, maxSeq, initialized, pages, overtook>>
  BY <1>3 DEF backendLog
<1> QED
  BY <1>3, <1>7, <1>8, <1>9 DEF Kept

\* Pages that nobody waits for any more.
LEMMA PagesStale ==
    ASSUME pages \in Seq(Pages),
           pages' = [i \in DOMAIN pages |-> [pages[i] EXCEPT !.current = FALSE]]
    PROVE  /\ pages' \in Seq(Pages)
           /\ \A win, max, g, evts, final, init : PagesOk(pages', win, max, g, evts, final, init)
           /\ ~Due(TRUE, pages')
<1>1. Len(pages) \in Nat /\ DOMAIN pages = 1..Len(pages)
  OBVIOUS
<1>2. \A i \in 1..Len(pages) : pages[i] \in Pages
  BY <1>1, ElementOf
<1>3. \A i \in 1..Len(pages) : [pages[i] EXCEPT !.current = FALSE] \in Pages
                               /\ [pages[i] EXCEPT !.current = FALSE].current = FALSE
  BY <1>2 DEF Pages
<1>4. pages' \in [1..Len(pages) -> Pages]
  BY <1>1, <1>3
<1>5. pages' \in Seq(Pages) /\ DOMAIN pages' = 1..Len(pages)
  BY <1>1, <1>4
<1>6. \A i \in DOMAIN pages' : ~pages'[i].current
  BY <1>1, <1>3, <1>5
<1> QED
  BY <1>5, <1>6 DEF PagesOk, OneOlder, CurrentOk, Due

\* The death of the backend: the lines stay without their seqs, and the pages
\* under way are not of this window any more.
LEMMA DeathIsSeenKeeps ==
    ASSUME LogTypes, Gapless(lineEvents, last), DeathIsSeen
    PROVE  Kept
<1>1. /\ pages \in Seq(Pages) /\ window \in Seq(Lines) /\ lineEvents \in Events /\ last \in 0..MaxLines
      /\ MaxLines \in Nat
  BY LogAssumption DEF LogTypes, WindowTypes, BackendTypes
<1>2. /\ lineEvents # <<>> /\ Head(lineEvents) = Death
      /\ lineEvents' = Tail(lineEvents)
      /\ pages' = [i \in DOMAIN pages |-> [pages[i] EXCEPT !.current = FALSE]]
      /\ window' = [i \in DOMAIN window |-> [window[i] EXCEPT !.seq = 0]]
      /\ maxSeq' = 0 /\ initialized' = FALSE /\ reset' = "none"
      /\ gone' = 0 /\ overtook' = FALSE
      /\ UNCHANGED backendLog
  BY DEF DeathIsSeen
<1>3. /\ Tail(lineEvents) \in Events /\ Gapless(Tail(lineEvents), last)
      /\ NextAfter(0, Tail(lineEvents), last)
  BY <1>1, <1>2, EventReceived
<1>4. /\ pages' \in Seq(Pages)
      /\ \A win, max, g, evts, final, init : PagesOk(pages', win, max, g, evts, final, init)
  BY <1>1, <1>2, PagesStale
<1>5. window' \in Seq(Lines) /\ \A i \in DOMAIN window' : window'[i].seq = 0
  <2>1. Len(window) \in Nat /\ DOMAIN window = 1..Len(window)
    BY <1>1
  <2>2. \A i \in 1..Len(window) : window[i] \in Lines
    BY <1>1, <2>1, ElementOf
  <2>3. \A i \in 1..Len(window) : [window[i] EXCEPT !.seq = 0] \in Lines
                                  /\ [window[i] EXCEPT !.seq = 0].seq = 0
    <3>1. 0 \in 0..MaxLines
      BY <1>1
    <3> QED
      BY <2>2, <3>1 DEF Lines
  <2>4. window' \in [1..Len(window) -> Lines]
    BY <1>2, <2>1, <2>3
  <2>5. window' \in Seq(Lines) /\ DOMAIN window' = 1..Len(window)
    BY <2>1, <2>4
  <2>6. \A i \in 1..Len(window) : window'[i].seq = 0
    BY <1>2, <2>1, <2>3
  <2> QED
    BY <2>5, <2>6
<1>6. SeqsOf(window') = {}
  BY <1>5 DEF SeqsOf
<1>7. LogTypes'
  <2>1. WindowTypes'
    <3>1. 0 \in 0..MaxLines
      BY <1>1
    <3> QED
      BY <3>1, <1>2, <1>5 DEF WindowTypes
  <2>2. BackendTypes'
    BY <1>2, <1>3 DEF LogTypes, BackendTypes, backendLog, hookVars
  <2> QED
    BY <1>4, <2>1, <2>2 DEF LogTypes
<1>8. last' = last
  BY <1>2 DEF backendLog
<1>9. Ordered(window')
  BY <1>5 DEF Ordered
<1>10. \A due : Shown(window', 0, 0, Tail(lineEvents), last, due)
  BY <1>1, <1>3, <1>6, <1>9 DEF Shown
<1>11. Shown(window', maxSeq', gone', lineEvents', last', Due(initialized', pages'))
  BY <1>2, <1>8, <1>10
<1>12. PagesOk(pages', window', maxSeq', gone', lineEvents', last', initialized')
  BY <1>4
<1>13. Gapless(lineEvents', last')
  BY <1>2, <1>3, <1>8
<1> QED
  BY <1>7, <1>11, <1>12, <1>13 DEF Kept

\* A backend that has died: the calls it has not answered are lost.
LEMMA BackendReplacedKeeps ==
    ASSUME LogTypes, Gapless(lineEvents, last), overtook \/ (WindowInv /\ PagesInv), BackendReplaced
    PROVE  Kept
<1> DEFINE keep == {i \in DOMAIN pages : pages[i].stage = "answered"}
<1>1. /\ pages \in Seq(Pages) /\ maxSeq \in 0..MaxLines /\ gone \in 0..MaxLines
      /\ lineEvents \in Events /\ last \in 0..MaxLines /\ 0 \in 0..MaxLines
  BY LogAssumption DEF LogTypes, WindowTypes, BackendTypes
<1>2. /\ lineEvents' = Append(lineEvents, Death)
      /\ last' = 0 /\ kept' = 1
      /\ waiting' = 0 /\ logRun' = "none"
      /\ enabledHooks' = LogHooks /\ chain' = 0 /\ hookAt' = 0
      /\ pages' = Filtered(pages, keep)
      /\ UNCHANGED <<window, maxSeq, initialized, gone, reset, overtook>>
  BY DEF BackendReplaced, windowVars
<1> HIDE DEF keep
<1>3. /\ lineEvents' \in Events /\ Gapless(lineEvents', 0)
      /\ Grown(lineEvents, last, lineEvents', 0)
  BY <1>1, <1>2, DeathPublished
<1>4. /\ pages' \in Seq(Pages)
      /\ \E h : LeftAt(h, pages', pages, 0)
  <2>1. /\ Filtered(pages, keep) \in Seq(Pages)
        /\ \E h : LeftAt(h, Filtered(pages, keep), pages, 0)
    BY <1>1, PagesFiltered
  <2> QED
    BY <1>2, <2>1
<1>5. PICK h : LeftAt(h, pages', pages, 0)
  BY <1>4
<1>6. Due(initialized, pages') => Due(initialized, pages)
  BY <1>1, <1>4, <1>5, NotDueYet
<1>7. BackendTypes'
  BY <1>1, <1>2, <1>3, LogAssumption DEF BackendTypes, Skipped
<1>8. LogTypes'
  <2>1. WindowTypes'
    BY <1>2 DEF LogTypes, WindowTypes
  <2> QED
    BY <1>4, <1>7, <2>1 DEF LogTypes
<1>9. ASSUME WindowInv, PagesInv
      PROVE  /\ Shown(window, maxSeq, gone, lineEvents', 0, Due(initialized, pages'))
             /\ PagesOk(pages', window, maxSeq, gone, lineEvents', 0, initialized)
  <2>1. Shown(window, maxSeq, gone, lineEvents, last, Due(initialized, pages'))
    BY <1>6, <1>9, LessDue DEF WindowInv
  <2>2. Shown(window, maxSeq, gone, lineEvents', 0, Due(initialized, pages'))
    BY <1>1, <1>3, <2>1, GrownKeeps
  <2>3. PagesOk(pages', window, maxSeq, gone, lineEvents, last, initialized)
    BY <1>1, <1>4, <1>5, <1>6, <1>9, FewerPages DEF PagesInv
  <2>4. PagesOk(pages', window, maxSeq, gone, lineEvents', 0, initialized)
    BY <1>1, <1>3, <1>4, <2>3, PagesGrown
  <2> QED
    BY <2>2, <2>4
<1> QED
  BY <1>2, <1>3, <1>8, <1>9 DEF Kept

\* A load or a run is asked for: the lines there are lose their youth only.
LEMMA ResetBeginsKeeps ==
    ASSUME LogTypes, Gapless(lineEvents, last), overtook \/ (WindowInv /\ PagesInv), ResetBegins
    PROVE  Kept
<1>1. /\ window' = [i \in DOMAIN window |-> [window[i] EXCEPT !.young = FALSE]]
      /\ reset' = "begun"
      /\ UNCHANGED <<backendLog, lineEvents, maxSeq, initialized, gone, pages, overtook>>
  BY DEF ResetBegins
<1>2. window \in Seq(Lines)
  BY DEF LogTypes, WindowTypes
<1>3. /\ window' \in Seq(Lines) /\ Len(window') = Len(window) /\ DOMAIN window' = DOMAIN window
      /\ \A i \in DOMAIN window : window'[i].seq = window[i].seq
  <2>1. Len(window) \in Nat /\ DOMAIN window = 1..Len(window)
    BY <1>2
  <2>2. \A i \in 1..Len(window) : window[i] \in Lines
    BY <1>2, <2>1, ElementOf
  <2>3. \A i \in 1..Len(window) : [window[i] EXCEPT !.young = FALSE] \in Lines
                                  /\ [window[i] EXCEPT !.young = FALSE].seq = window[i].seq
    BY <2>2 DEF Lines
  <2>4. window' \in [1..Len(window) -> Lines]
    BY <1>1, <2>1, <2>3
  <2>5. window' \in Seq(Lines) /\ DOMAIN window' = 1..Len(window) /\ Len(window') = Len(window)
    BY <2>1, <2>4
  <2>6. \A i \in 1..Len(window) : window'[i].seq = window[i].seq
    BY <1>1, <2>1, <2>3
  <2> QED
    BY <2>1, <2>5, <2>6
<1>4. SeqsOf(window') = SeqsOf(window)
  BY <1>3 DEF SeqsOf
<1>5. Ordered(window') <=> Ordered(window)
  BY <1>3 DEF Ordered
<1>6. LogTypes'
  <2>1. WindowTypes'
    BY <1>1, <1>3 DEF LogTypes, WindowTypes
  <2> QED
    BY <1>1, <2>1 DEF LogTypes, BackendTypes, backendLog, hookVars
<1>7. \A max, g, evts, final, due : Shown(window, max, g, evts, final, due)
                                         => Shown(window', max, g, evts, final, due)
  BY <1>3, <1>4, <1>5 DEF Shown
<1>8. \A p, max, g, evts, final, init, due :
         CurrentOk(p, window, max, g, evts, final, init, due)
            => CurrentOk(p, window', max, g, evts, final, init, due)
  BY <1>3, <1>4 DEF CurrentOk, FirstPageOk, OlderPageOk
<1>9. last' = last
  BY <1>1 DEF backendLog
<1>10. ASSUME WindowInv, PagesInv
       PROVE  /\ Shown(window', maxSeq, gone, lineEvents, last, Due(initialized, pages))
              /\ PagesOk(pages, window', maxSeq, gone, lineEvents, last, initialized)
  BY <1>7, <1>8, <1>10 DEF WindowInv, PagesInv, PagesOk
<1> QED
  BY <1>1, <1>6, <1>9, <1>10 DEF Kept

\* The window is cleared: what is not shown any more is gone.
LEMMA ResetSucceedsKeeps ==
    ASSUME LogTypes, Gapless(lineEvents, last), overtook \/ (WindowInv /\ PagesInv), ResetSucceeds
    PROVE  Kept
<1> DEFINE keep == {i \in DOMAIN window : window[i].young}
           w == Filtered(window, keep)
           G == GoneWith(w, SeqsOf(window))
<1>1. /\ pages \in Seq(Pages) /\ window \in Seq(Lines) /\ maxSeq \in 0..MaxLines /\ gone \in 0..MaxLines
      /\ lineEvents \in Events /\ last \in 0..MaxLines /\ MaxLines \in Nat
  BY LogAssumption DEF LogTypes, WindowTypes, BackendTypes
<1>2. /\ window' = w /\ gone' = G
      /\ initialized' = TRUE /\ reset' = "none"
      /\ pages' = [i \in DOMAIN pages |-> [pages[i] EXCEPT !.current = FALSE]]
      /\ UNCHANGED <<backendLog, lineEvents, maxSeq, overtook>>
  BY DEF ResetSucceeds
<1> HIDE DEF keep
<1>3. w \in Seq(Lines) /\ \E h : Picks(h, w, window, keep)
  BY <1>1, FilteredPlaces
<1> HIDE DEF w
<1>4a. PICK h : Picks(h, w, window, keep)
  BY <1>3
<1>4. /\ h \in [1..Len(w) -> 1..Len(window)]
      /\ \A k \in DOMAIN h : h[k] \in keep /\ w[k] = window[h[k]]
      /\ \A j, k \in DOMAIN h : j < k => h[j] < h[k]
  BY <1>4a DEF Picks
<1>5. /\ DOMAIN h = DOMAIN w /\ DOMAIN w = 1..Len(w)
      /\ \A k \in DOMAIN w : h[k] \in DOMAIN window /\ w[k] = window[h[k]]
      /\ \A j, k \in DOMAIN w : j < k => h[j] < h[k]
  BY <1>1, <1>3, <1>4
<1>6. SeqsOf(w) \subseteq SeqsOf(window)
  BY <1>5 DEF SeqsOf
<1>7. Ordered(window) => Ordered(w)
  BY <1>5 DEF Ordered
<1>8. SeqsOf(window) \in SUBSET (1..MaxLines)
  BY <1>1, SeqsAre
<1>9. /\ G \in 0..MaxLines /\ G >= gone
      /\ \A n \in SeqsOf(window) : n > G => n \in SeqsOf(w)
      /\ SeqsOf(window) \subseteq SeqsOf(w) => G = gone
  BY <1>1, <1>8, GoneIs
<1> HIDE DEF G
<1>10. /\ pages' \in Seq(Pages)
       /\ \A win, max, g, evts, final, init : PagesOk(pages', win, max, g, evts, final, init)
       /\ ~Due(TRUE, pages')
  BY <1>1, <1>2, PagesStale
<1>11. LogTypes'
  <2>1. WindowTypes'
    BY <1>1, <1>2, <1>3, <1>9 DEF WindowTypes
  <2>2. BackendTypes'
    BY <1>2 DEF LogTypes, BackendTypes, backendLog, hookVars
  <2> QED
    BY <1>10, <2>1, <2>2 DEF LogTypes
<1>12. ASSUME WindowInv PROVE Shown(w, maxSeq, G, lineEvents, last, FALSE)
  <2>1. Shown(window, maxSeq, gone, lineEvents, last, Due(initialized, pages))
    BY <1>12 DEF WindowInv
  <2>2. Ordered(w) /\ SeqsOf(w) \subseteq 1..maxSeq /\ SeqsOf(window) \subseteq 1..maxSeq
    BY <1>6, <1>7, <2>1 DEF Shown
  <2>3. ASSUME maxSeq = 0 PROVE NextAfter(G, lineEvents, last)
    <3>1. SeqsOf(window) = {}
      BY <2>2, <2>3
    <3>2. G = gone
      BY <1>9, <3>1
    <3> QED
      BY <2>1, <2>3, <3>2 DEF Shown
  <2>4. ASSUME maxSeq > 0
        PROVE  /\ NotAfter(maxSeq, lineEvents, last)
               /\ \A n \in 1..MaxLines : n > G => (n \in SeqsOf(w) <=> n <= maxSeq)
    <3>1. NotAfter(maxSeq, lineEvents, last)
      BY <2>1, <2>4 DEF Shown
    <3>2. \A n \in 1..MaxLines : n > gone => (n \in SeqsOf(window) <=> n <= maxSeq)
      BY <2>1, <2>4 DEF Shown
    <3>3. ASSUME NEW n \in 1..MaxLines, n > G PROVE n \in SeqsOf(w) <=> n <= maxSeq
      <4>1. n > gone
        BY <3>3, <1>1, <1>9
      <4> QED
        BY <4>1, <3>2, <3>3, <1>6, <1>9
    <3> QED
      BY <3>1, <3>3
  <2>5. Deathless(lineEvents, 1, Len(lineEvents)) => maxSeq <= last
    BY <2>1 DEF Shown
  <2> QED
    BY <2>2, <2>3, <2>4, <2>5 DEF Shown
<1>13. last' = last
  BY <1>2 DEF backendLog
<1>14. Due(initialized', pages') = FALSE
  BY <1>2, <1>10 DEF Due
<1>15. ASSUME WindowInv
       PROVE  Shown(window', maxSeq', gone', lineEvents', last', Due(initialized', pages'))
  BY <1>2, <1>12, <1>13, <1>14, <1>15
<1> QED
  BY <1>2, <1>10, <1>11, <1>13, <1>15 DEF Kept

\* The load or the run has failed, or nothing happens.
LEMMA NothingNewKeeps ==
    ASSUME LogTypes, Gapless(lineEvents, last), overtook \/ (WindowInv /\ PagesInv),
           ResetFails \/ UNCHANGED logVars
    PROVE  Kept
<1>1. /\ UNCHANGED <<last, kept, waiting, enabledHooks, chain, hookAt, logRun, lineEvents,
                     window, maxSeq, initialized, gone, pages, overtook>>
      /\ reset' = "none" \/ UNCHANGED reset
  BY DEF ResetFails, logVars, backendLog, windowVars, hookVars
<1>2. LogTypes'
  BY <1>1 DEF LogTypes, BackendTypes, WindowTypes
<1> QED
  BY <1>1, <1>2 DEF Kept, WindowInv, PagesInv
-----------------------------------------------------------------------------
(* The theorem. *)

\* The hooks are of the run that is under way, and none waits when there is none.
LEMMA DrainedStep ==
    ASSUME LogTypes, Drained, [LogNext]_logVars
    PROVE  Drained'
<1>1. waiting \in Nat /\ logRun \in {"none", "running", "draining"}
  BY LogAssumption DEF LogTypes, BackendTypes
<1>2. CASE UNCHANGED backendLog
  BY <1>2 DEF Drained, backendLog
<1>3. CASE AppendLine
  BY <1>1, <1>3 DEF AppendLine, Drained
<1>4. CASE WorkerSays \/ NextHook \/ HookLogs \/ HookFails \/ SetHookEnabled
  BY <1>4 DEF WorkerSays, NextHook, HookLogs, HookFails, SetHookEnabled, Drained
<1>5. CASE HookedLine
  <2>1. waiting > 0 /\ waiting' = waiting - 1 /\ lateLine' = (lateLine \/ logRun = "none")
        /\ UNCHANGED <<hooked, logRun>>
    BY <1>5 DEF HookedLine
  <2>2. logRun # "none"
    BY <1>1, <2>1 DEF Drained
  <2> QED
    BY <2>1, <2>2 DEF Drained
<1>6. CASE RunHooks \/ RunDrains \/ RunCloses
  BY <1>1, <1>6 DEF RunHooks, RunDrains, RunCloses, Drained
<1>7. CASE BackendReplaced
  BY <1>7 DEF BackendReplaced, Drained
<1>8. ASSUME NEW i \in DOMAIN pages, ServePage(i) \/ PageFails(i) \/ PageReturns(i)
      PROVE  UNCHANGED backendLog
  BY <1>8 DEF ServePage, PageFails, PageReturns
<1>9. CASE InitLogs \/ LoadOlderLogs \/ LineArrives \/ LocalLine \/ DeathIsSeen
           \/ ResetBegins \/ ResetSucceeds \/ ResetFails
  <2>1. UNCHANGED backendLog
    BY <1>9 DEF InitLogs, LoadOlderLogs, LineArrives, LocalLine, DeathIsSeen, ResetBegins,
                ResetSucceeds, ResetFails
  <2> QED
    BY <1>2, <2>1
<1>10. CASE UNCHANGED logVars
  BY <1>2, <1>10 DEF logVars, backendLog, hookVars
<1> QED
  BY <1>2, <1>3, <1>4, <1>5, <1>6, <1>7, <1>8, <1>9, <1>10 DEF LogNext

LEMMA LogInvInit ==
    ASSUME LogInit
    PROVE  LogInv
<1>1. /\ MaxLines \in Nat /\ PageSize \in Nat /\ PageSize < MaxLines
      /\ LogHooks \in Nat /\ HookCapacity \in Nat
  BY LogAssumption
<1>2. /\ last \in {0, PageSize + 1} /\ kept = 1
      /\ hooked = FALSE /\ waiting = 0 /\ logRun = "none"
      /\ enabledHooks = LogHooks /\ chain = 0 /\ hookAt = 0
      /\ lineEvents = <<>> /\ window = <<>> /\ maxSeq = 0
      /\ initialized = FALSE /\ pages = <<>> /\ reset = "none"
      /\ gone = last /\ lateLine = FALSE
  BY DEF LogInit
<1>3. last \in 0..MaxLines
  BY <1>1, <1>2
<1>4. BackendTypes
  BY <1>1, <1>2, <1>3 DEF BackendTypes, Events, Skipped
<1>5. WindowTypes /\ pages \in Seq(Pages)
  <2>1. 0 \in 0..MaxLines /\ window \in Seq(Lines) /\ pages \in Seq(Pages)
    BY <1>1, <1>2
  <2> QED
    BY <2>1, <1>2, <1>3 DEF WindowTypes
<1>6. Drained
  BY <1>2 DEF Drained
<1>7. Gapless(lineEvents, last)
  BY <1>2 DEF Gapless
<1>8. SeqsOf(window) = {}
  BY <1>2 DEF SeqsOf
<1>9. WindowInv
  BY <1>2, <1>3, <1>8 DEF WindowInv, Shown, Ordered, NextAfter
<1>10. PagesInv
  BY <1>2 DEF PagesInv, PagesOk, OneOlder
<1> QED
  BY <1>4, <1>5, <1>6, <1>7, <1>9, <1>10 DEF LogInv, LogTypes

LEMMA LogStepKeeps ==
    ASSUME LogInv, [LogNext]_logVars
    PROVE  Kept
<1>1. LogTypes /\ Gapless(lineEvents, last) /\ (overtook \/ (WindowInv /\ PagesInv))
  BY DEF LogInv
<1>2. CASE BackendStep
  BY <1>1, <1>2, BackendStepKeeps
<1>3. CASE InitLogs \/ LoadOlderLogs
  BY <1>1, <1>3, InitLogsKeeps, LoadOlderLogsKeeps
<1>4. ASSUME NEW i \in DOMAIN pages, ServePage(i) \/ PageFails(i) \/ PageReturns(i) PROVE Kept
  <2>1. CASE ServePage(i)
    BY <1>1, <2>1, ServePageKeeps
  <2>2. CASE PageFails(i)
    BY <1>1, <2>2, PageFailsKeeps
  <2>3. CASE PageReturns(i) /\ ~pages[i].current
    BY <1>1, <2>3, StalePageKeeps
  <2>4. CASE PageReturns(i) /\ pages[i].current /\ pages[i].op = "init"
    BY <1>1, <2>4, FirstPageKeeps
  <2>5. CASE PageReturns(i) /\ pages[i].current /\ pages[i].op = "older"
    BY <1>1, <2>5, OlderPageKeeps
  <2>6. pages[i].op \in {"init", "older"}
    <3>1. pages[i] \in Pages
      BY <1>1, ElementOf DEF LogTypes
    <3> QED
      BY <3>1 DEF Pages
  <2> QED
    BY <1>4, <2>1, <2>2, <2>3, <2>4, <2>5, <2>6
<1>5. CASE LineArrives \/ LocalLine
  BY <1>1, <1>5, LineArrivesKeeps, LocalLineKeeps
<1>6. CASE DeathIsSeen \/ BackendReplaced
  BY <1>1, <1>6, DeathIsSeenKeeps, BackendReplacedKeeps
<1>7. CASE ResetBegins \/ ResetSucceeds
  BY <1>1, <1>7, ResetBeginsKeeps, ResetSucceedsKeeps
<1>8. CASE ResetFails \/ UNCHANGED logVars
  BY <1>1, <1>8, NothingNewKeeps
<1> QED
  BY <1>2, <1>3, <1>4, <1>5, <1>6, <1>7, <1>8 DEF LogNext, BackendStep

LEMMA LogInvStep ==
    ASSUME LogInv, [LogNext]_logVars
    PROVE  LogInv'
<1>1. Kept
  BY LogStepKeeps
<1>2. Drained'
  BY DrainedStep DEF LogInv
<1> QED
  BY <1>1, <1>2, KeptIsInv

\* The invariant says what is followed: a line that is newer than what is gone is
\* in the window, and when every event is in, the last one is there.
LEMMA LogInvFollows ==
    ASSUME LogInv
    PROVE  LogFollowed
<1>1. ClosingLineIsLast
  BY DEF LogInv, Drained, ClosingLineIsLast
<1>2. LinesInOrder
  BY DEF LogInv, WindowInv, Shown, Ordered, LinesInOrder
<1>3. NewLinesShown
  <2> SUFFICES ASSUME ~overtook, lineEvents = <<>>
               PROVE  {n \in Seqs : n > gone} = (gone + 1)..last
    BY DEF NewLinesShown
  <2>1. Shown(window, maxSeq, gone, lineEvents, last, Due(initialized, pages))
    BY DEF LogInv, WindowInv
  <2>2. /\ maxSeq \in 0..MaxLines /\ gone \in 0..MaxLines /\ last \in 0..MaxLines /\ MaxLines \in Nat
        /\ window \in Seq(Lines)
    BY LogAssumption DEF LogInv, LogTypes, WindowTypes, BackendTypes
  <2>3. SeqsOf(window) \subseteq 1..MaxLines
    BY <2>2, SeqsAre
  <2>4. CASE maxSeq = 0
    <3>1. last = gone
      BY <2>1, <2>4 DEF Shown, NextAfter
    <3>2. SeqsOf(window) = {}
      BY <2>1, <2>4 DEF Shown
    <3> QED
      BY <2>2, <3>1, <3>2 DEF Seqs
  <2>5. CASE maxSeq > 0
    <3>1. last <= maxSeq
      BY <2>1, <2>5 DEF Shown, NotAfter
    <3>2. maxSeq <= last
      <4>1. Len(lineEvents) = 0
        OBVIOUS
      <4>2. Deathless(lineEvents, 1, Len(lineEvents))
        BY <4>1 DEF Deathless
      <4> QED
        BY <2>1, <4>2 DEF Shown
    <3>3. \A n \in 1..MaxLines : n > gone => (n \in SeqsOf(window) <=> n <= last)
      BY <2>1, <2>2, <2>5, <3>1, <3>2 DEF Shown
    <3>4. ASSUME NEW n PROVE n \in SeqsOf(window) /\ n > gone <=> n \in (gone + 1)..last
      <4>1. CASE n \in 1..MaxLines
        BY <2>2, <3>3, <4>1
      <4>2. CASE n \notin 1..MaxLines
        BY <2>2, <2>3, <4>2
      <4> QED
        BY <4>1, <4>2
    <3> QED
      BY <3>4 DEF Seqs
  <2>6. maxSeq = 0 \/ maxSeq > 0
    BY <2>2
  <2> QED
    BY <2>4, <2>5, <2>6
<1> QED
  BY <1>1, <1>2, <1>3 DEF LogFollowed

\* In every behaviour, whatever the sizes of the buffers and the window, and
\* however many pages are under way: no line of the window is out of order or
\* shown twice, no newer line is missing once every event is in, and the line a
\* run closes with is its last.
THEOREM LogIsFollowed == LogSpec => []LogFollowed
<1>1. LogInit => LogInv
  BY LogInvInit
<1>2. LogInv /\ [LogNext]_logVars => LogInv'
  BY LogInvStep
<1>3. LogInv => LogFollowed
  BY LogInvFollows
<1> QED
  BY <1>1, <1>2, <1>3, PTL DEF LogSpec
=============================================================================
