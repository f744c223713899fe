---------------------------- MODULE SelectorRules ----------------------------
(***************************************************************************)
(* Which items a custom selector picks.  domain/selection.ts decides item  *)
(* by item; selection-rule-service.ts, which the application uses, asks    *)
(* the matcher worker rule by rule, for all items in one batch, and goes   *)
(* on without a rule whose batch runs into the time limit.                 *)
(*                                                                         *)
(* A rule matches a text or does not: patterns are the texts they match,   *)
(* Star matches all, and an absent pattern matches only the empty text.    *)
(***************************************************************************)
EXTENDS Naturals, Sequences, SequencesExt, FiniteSets

CONSTANTS SelItems,  \* items that are tried
          SelRules,  \* rules that are tried
          MaxItems,  \* bound on the items of a call
          MaxRules   \* bound on the rules of each of the two lists

\* An item has up to two sources.
ASSUME SelectorAssumption ==
    /\ {MaxItems, MaxRules} \subseteq Nat
    /\ \A item \in SelItems : DOMAIN item.sources \in {1..n : n \in 0..2}

Star == "*"
Nothing == ""

VARIABLES
    items,    \* the items of the call, in order
    byScheme, \* selector.by_schemes
    bySheet,  \* selector.by_sheets
    phase,    \* schemes, sheets or done
    rule,     \* the number of the next rule of the phase
    matched,  \* the items that have matched so far, by their place
    hits,     \* the slots whose file has matched, none outside the second round
    timedOut  \* a batch has run into the time limit

selectorVars == <<items, byScheme, bySheet, phase, rule, matched, hits, timedOut>>

SeqsUpTo(S, n) == UNION {[1..k -> S] : k \in 0..n}

Places == DOMAIN items

\* A slot is what a rule is tried on: an item, or one of its data sources.
Slots == Places \X (0..2)

NoRound == {<<0, 0>>}

SelectorTypeOK ==
    /\ items \in SeqsUpTo(SelItems, MaxItems)
    /\ byScheme \in SeqsUpTo(SelRules, MaxRules)
    /\ bySheet \in SeqsUpTo(SelRules, MaxRules)
    /\ phase \in {"schemes", "sheets", "done"}
    /\ rule \in 1..(MaxRules + 1)
    /\ matched \subseteq Places
    /\ hits = NoRound \/ hits \subseteq Slots
    /\ timedOut \in BOOLEAN

SelectorInit ==
    /\ items \in SeqsUpTo(SelItems, MaxItems)
    /\ byScheme \in SeqsUpTo(SelRules, MaxRules)
    /\ bySheet \in SeqsUpTo(SelRules, MaxRules)
    /\ phase = "schemes" /\ rule = 1
    /\ matched = {} /\ hits = NoRound /\ timedOut = FALSE

-----------------------------------------------------------------------------
(* Items and rules: file, scheme and sources of an item, where a source is *)
(* a file and a sheet; the two patterns of a rule.                         *)

MatchesText(pattern, text) == pattern = Star \/ pattern = text

\* An item with a file and a scheme is only for by_schemes.
HasScheme(item) == item.file # Nothing /\ item.scheme # Nothing

Candidates(p) ==
    {i \in Places : IF p = "schemes" THEN HasScheme(items[i])
                    ELSE ~HasScheme(items[i]) /\ items[i].hasSources}

Rules(p) == IF p = "schemes" THEN byScheme ELSE bySheet

\* The two texts of a slot.
First(s) ==
    IF s[2] = 0 THEN items[s[1]].file ELSE items[s[1]].sources[s[2]][1]

Second(s) ==
    IF s[2] = 0 THEN items[s[1]].scheme ELSE items[s[1]].sources[s[2]][2]

SlotsOf(i, p) ==
    IF p = "schemes" THEN {<<i, 0>>} ELSE {<<i, k>> : k \in DOMAIN items[i].sources}

Pending == Candidates(phase) \ matched

Active == phase # "done" /\ rule <= Len(Rules(phase)) /\ Pending # {}

\* evalRule on a batch of texts, one for each slot.
Batch(pattern, texts) == {s \in DOMAIN texts : MatchesText(pattern, texts[s])}

\* The round for the file; without a second pattern it decides.  Nothing
\* matches when the worker does not answer in time.
FileRound ==
    /\ Active /\ hits = NoRound
    /\ \E slow \in BOOLEAN :
          LET r == Rules(phase)[rule]
              slots == UNION {SlotsOf(i, phase) : i \in Pending}
              hit == IF slow THEN {} ELSE Batch(r.first, [s \in slots |-> First(s)])
          IN /\ slow => slots # {}
             /\ timedOut' = (timedOut \/ slow)
             /\ IF hit = {} \/ r.second = Nothing
                THEN rule' = rule + 1 /\ matched' = matched \cup {s[1] : s \in hit}
                     /\ UNCHANGED hits
                ELSE hits' = hit /\ UNCHANGED <<rule, matched>>
    /\ UNCHANGED <<items, byScheme, bySheet, phase>>

\* Mutant: the sheet of one source counts for the file of another.
SecondRound_AnySource ==
    /\ Active /\ hits # NoRound
    /\ \E slow \in BOOLEAN :
          LET slots == UNION {SlotsOf(s[1], phase) : s \in hits}
              second == [s \in slots |-> Second(s)]
              hit == IF slow THEN {} ELSE Batch(Rules(phase)[rule].second, second)
          IN /\ timedOut' = (timedOut \/ slow)
             /\ matched' = matched \cup {s[1] : s \in hit}
    /\ rule' = rule + 1
    /\ hits' = NoRound
    /\ UNCHANGED <<items, byScheme, bySheet, phase>>

\* The round for the scheme or the sheet.
SecondRound ==
    /\ Active /\ hits # NoRound
    /\ \E slow \in BOOLEAN :
          LET second == [s \in hits |-> Second(s)]
              hit == IF slow THEN {} ELSE Batch(Rules(phase)[rule].second, second)
          IN /\ timedOut' = (timedOut \/ slow)
             /\ matched' = matched \cup {s[1] : s \in hit}
    /\ rule' = rule + 1
    /\ hits' = NoRound
    /\ UNCHANGED <<items, byScheme, bySheet, phase>>

\* The rules of a list are through, or every candidate has matched.
NextPhase ==
    /\ phase # "done" /\ ~Active
    /\ phase' = (IF phase = "schemes" THEN "sheets" ELSE "done")
    /\ rule' = 1
    /\ UNCHANGED <<items, byScheme, bySheet, matched, hits, timedOut>>

SelectorNext == FileRound \/ SecondRound \/ NextPhase

SelectorSpec == SelectorInit /\ [][SelectorNext]_selectorVars

-----------------------------------------------------------------------------
(* domain/selection.ts *)

RuleTakes(r, file, second) ==
    /\ MatchesText(r.first, file)
    /\ r.second = Nothing \/ MatchesText(r.second, second)

\* resolveSelectorItems, item by item.
ResolveSelectorItems ==
    {i \in Places :
        LET item == items[i]
        IN IF HasScheme(item)
           THEN \E r \in ToSet(byScheme) : RuleTakes(r, item.file, item.scheme)
           ELSE /\ item.hasSources
                /\ \E r \in ToSet(bySheet) : \E source \in ToSet(item.sources) :
                      RuleTakes(r, source[1], source[2])}

-----------------------------------------------------------------------------
\* Properties.

\* The batches pick what the item-by-item rules pick; a batch that ran into the
\* time limit can only make them pick less
\* (selection-rule-service.ts:5, 41).
BatchesAgree ==
    phase = "done" =>
       /\ matched \subseteq ResolveSelectorItems
       /\ ~timedOut => matched = ResolveSelectorItems
=============================================================================
