---------------------------- MODULE ConfigLoader ----------------------------
(***************************************************************************)
(* loader.ts: a configuration is a file and the files it includes, read    *)
(* depth first; a file is applied after everything it includes.  Then      *)
(* load-config.ts runs set_name on every item.                             *)
(*                                                                         *)
(* A file is what realpath() says it is, so two names of one file are one  *)
(* file here.  What a file sets is reduced to one setting of each kind:    *)
(* one that a later file overrides (work_dir, output_dir, proto, the list  *)
(* of proto_file), one that adds up (java_option, default_scheme), and one *)
(* that every file rewrites (the output matrix, the gui block).            *)
(***************************************************************************)
EXTENDS Naturals, Sequences, SequencesExt, FiniteSets

CONSTANTS Files,        \* the files
          EntryFile,    \* the file the user opens
          IncludeLists, \* the lists of includes each file may have
          DepthLimit,   \* MAX_INCLUDE_DEPTH (64)
          FileLimit     \* MAX_FILES (1024)

None == 0

ASSUME LoaderAssumption ==
    /\ IsFiniteSet(Files) /\ None \notin Files
    /\ EntryFile \in Files
    /\ \A f \in Files : IncludeLists[f] \subseteq Seq(Files)
    /\ {DepthLimit, FileLimit} \subseteq Nat

VARIABLES
    includes,    \* the includes of each file, in order
    condition,   \* good, missing, malformed (not XML) or oversized
    setters,     \* the files that set the settings
    visiting,    \* the files being read, with the next include of each
    loadedFiles, \* MergeState.loadedFiles, in the order they were applied
    scalar,      \* the file whose value is in force, 0 for none
    list,        \* the files whose values have added up
    rewritten,   \* the file whose matrix and gui are in force
    schemes,     \* what the items of each file were given by default_scheme
    unnamed,     \* items that set_name has not seen yet
    outcome      \* none, naming, ok or the code of an error

loaderVars == <<includes, condition, setters, visiting, loadedFiles, scalar, list, rewritten,
                schemes, unnamed, outcome>>

LoadOutcomes == {"none", "naming", "ok", "READ_FAILED", "INVALID_XML", "INCLUDE_CYCLE",
             "INCLUDE_DUPLICATE", "CONFIG_LIMIT", "CANCELLED"}

Loaded == ToSet(loadedFiles)

Visited == {visiting[k].file : k \in DOMAIN visiting}

LoaderTypeOK ==
    /\ includes \in [Files -> Seq(Files)]
    /\ condition \in [Files -> {"good", "missing", "malformed", "oversized"}]
    /\ setters \subseteq Files
    /\ visiting \in Seq([file : Files, next : Nat])
    /\ loadedFiles \in Seq(Files)
    /\ {scalar, rewritten} \subseteq Files \cup {None}
    /\ list \in Seq(Files)
    /\ schemes \in [Files -> SUBSET Files]
    /\ unnamed \in Seq(Files)
    /\ outcome \in LoadOutcomes

\* At most one file is bad, and only the entry is sure to be asked for.
LoaderInit ==
    /\ includes \in {f \in [Files -> UNION {IncludeLists[g] : g \in Files}] :
                        \A g \in Files : f[g] \in IncludeLists[g]}
    /\ condition \in {[f \in Files |-> IF f = bad THEN how ELSE "good"] :
                         bad \in Files, how \in {"good", "missing", "malformed", "oversized"}}
    /\ setters \in SUBSET Files
    /\ visiting = <<>> /\ loadedFiles = <<>>
    /\ scalar = None /\ list = <<>> /\ rewritten = None
    /\ schemes = [f \in Files |-> {}]
    /\ unnamed = <<>>
    /\ outcome = "none"

merged == <<loadedFiles, scalar, list, rewritten, schemes>>

-----------------------------------------------------------------------------

\* What reading and parsing a file finds; "" if it is good.
Faulty(f) ==
    CASE condition[f] = "missing" -> "READ_FAILED"
      [] condition[f] = "malformed" -> "INVALID_XML"
      [] condition[f] = "oversized" -> "CONFIG_LIMIT"
      [] condition[f] = "good" -> ""

\* Mutant: a file that is loaded already is loaded again.
Refused_NoDuplicate(f) ==
    CASE condition[f] = "missing" -> "READ_FAILED"
      [] condition[f] # "missing" /\ f \in Visited -> "INCLUDE_CYCLE"
      [] condition[f] # "missing" /\ f \notin Visited ->
            IF Len(visiting) >= DepthLimit \/ Cardinality(Visited \cup Loaded) >= FileLimit
            THEN "CONFIG_LIMIT" ELSE Faulty(f)

\* The checks of loadFile(), in their order; "" if the file is to be read.
Refused(f) ==
    CASE condition[f] = "missing" -> "READ_FAILED"
      [] condition[f] # "missing" /\ f \in Visited -> "INCLUDE_CYCLE"
      [] condition[f] # "missing" /\ f \in Loaded \ Visited -> "INCLUDE_DUPLICATE"
      [] condition[f] # "missing" /\ f \notin Visited \cup Loaded ->
            IF Len(visiting) >= DepthLimit \/ Cardinality(Visited \cup Loaded) >= FileLimit
            THEN "CONFIG_LIMIT" ELSE Faulty(f)

\* loadFile: an error leaves the whole load.
Enter(f, above) ==
    LET code == Refused(f)
    IN IF code # ""
       THEN outcome' = code /\ visiting' = <<>>
       ELSE visiting' = Append(above, [file |-> f, next |-> 1]) /\ UNCHANGED outcome

OpenEntry ==
    /\ outcome = "none" /\ visiting = <<>> /\ loadedFiles = <<>>
    /\ Enter(EntryFile, <<>>)
    /\ UNCHANGED <<includes, condition, setters, merged, unnamed>>

Top == visiting[Len(visiting)]

\* The next include of the file on top, before the file itself.
OpenInclude ==
    /\ outcome = "none" /\ visiting # <<>>
    /\ Top.next <= Len(includes[Top.file])
    /\ Enter(includes[Top.file][Top.next], [visiting EXCEPT ![Len(visiting)].next = @ + 1])
    /\ UNCHANGED <<includes, condition, setters, merged, unnamed>>

\* A value of <global> replaces the one before; an option is added to those
\* before.
GlobalValue(f) == IF f \in setters THEN f ELSE scalar
GlobalList(f) == IF f \in setters THEN Append(list, f) ELSE list

\* The matrix and the gui of a file replace those before, even by nothing.
OwnGui(f) == f

\* The items of a file take the default schemes known by then.
DefaultSchemes(f, known) == [schemes EXCEPT ![f] = ToSet(known)]

\* The file on top is applied: its globals, its gui, its items.
ApplyFile ==
    /\ outcome = "none" /\ visiting # <<>>
    /\ Top.next > Len(includes[Top.file])
    /\ LET f == Top.file
       IN /\ loadedFiles' = Append(loadedFiles, f)
          /\ scalar' = GlobalValue(f)
          /\ list' = GlobalList(f)
          /\ rewritten' = OwnGui(f)
          /\ schemes' = DefaultSchemes(f, list')
          /\ visiting' = Front(visiting)
          /\ IF Len(visiting) = 1
             THEN outcome' = "naming" /\ unnamed' = loadedFiles'
             ELSE UNCHANGED <<outcome, unnamed>>
    /\ UNCHANGED <<includes, condition, setters>>

\* set_name on the next item, one at a time; a script that fails or does not
\* answer leaves the item as it is.  (One item of each file stands for them.)
NameItem ==
    /\ outcome = "naming" /\ unnamed # <<>>
    /\ unnamed' = Tail(unnamed)
    /\ UNCHANGED <<includes, condition, setters, visiting, merged, outcome>>

LoadReturns ==
    /\ outcome = "naming" /\ unnamed = <<>>
    /\ outcome' = "ok"
    /\ UNCHANGED <<includes, condition, setters, visiting, merged, unnamed>>

\* The signal is looked at by the parser's owner and before every item.
CancelLoad ==
    /\ outcome = "none" \/ (outcome = "naming" /\ unnamed # <<>>)
    /\ outcome' = "CANCELLED"
    /\ visiting' = <<>> /\ unnamed' = <<>>
    /\ UNCHANGED <<includes, condition, setters, merged>>

LoaderNext == OpenEntry \/ OpenInclude \/ ApplyFile \/ NameItem \/ LoadReturns \/ CancelLoad

LoaderSpec == LoaderInit /\ [][LoaderNext]_loaderVars

-----------------------------------------------------------------------------
\* Properties.

\* The files that f reaches if inc are the includes: those within one include,
\* within two, and so on.
Reach(inc) ==
    LET within[n \in 0..Cardinality(Files)] ==
            [f \in Files |-> IF n = 0 THEN {f}
                            ELSE {f} \cup UNION {within[n - 1][g] : g \in ToSet(inc[f])}]
    IN within[Cardinality(Files)]

\* The include lines of the files the entry reaches, and those that name f.
Lines(inc) == UNION {{<<g, k>> : k \in DOMAIN inc[g]} : g \in Reach(inc)[EntryFile]}
NamedBy(inc, f) == {e \in Lines(inc) : inc[e[1]][e[2]] = f}

IsTree(inc) ==
    \A f \in Reach(inc)[EntryFile] :
        Cardinality(NamedBy(inc, f)) = IF f = EntryFile THEN 0 ELSE 1

HasCycle(inc) == \E f \in Reach(inc)[EntryFile] : \E g \in ToSet(inc[f]) : f \in Reach(inc)[g]

\* A configuration loads only if its includes are a tree of good files, and an
\* error that is reported is really there: no cycle is read for ever, none is
\* taken for a file that is included twice, and the other way round
\* (loader.ts:499).
IncludesToldRight ==
    /\ outcome \in {"naming", "ok"} =>
          /\ IsTree(includes)
          /\ \A f \in Reach(includes)[EntryFile] : condition[f] = "good"
    /\ outcome = "INCLUDE_CYCLE" => HasCycle(includes)
    /\ outcome = "INCLUDE_DUPLICATE" => ~IsTree(includes)

\* The value in force in f and what it includes, by what the users are told: a
\* file overrides what it includes, a later include an earlier one.
InForce(inc, setting) ==
    LET value[n \in 0..Cardinality(Files)] ==
            [f \in Files |->
                IF f \in setting THEN f
                ELSE IF n = 0 THEN None
                ELSE LET hits == {k \in DOMAIN inc[f] : value[n - 1][inc[f][k]] # None}
                     IN IF hits = {} THEN None
                        ELSE value[n - 1][inc[f][CHOOSE k \in hits : \A j \in hits : j <= k]]]
    IN value[Cardinality(Files)]

\* The parent has the last word: what is in force after a load is what the
\* file itself says, else what its last include says; the matrix and the gui
\* are those of the entry, and its items have every default scheme
\* (loader.ts:596, 627, 630).
ParentHasTheLastWord ==
    outcome \in {"naming", "ok"} =>
       /\ scalar = InForce(includes, setters)[EntryFile]
       /\ rewritten = EntryFile
       /\ schemes[EntryFile] = setters \cap Reach(includes)[EntryFile]
       /\ IsInjective(list)

\* Both: what is loaded is what the files say.
LoadsWhatFilesSay == IncludesToldRight /\ ParentHasTheLastWord
=============================================================================
