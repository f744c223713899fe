--------------------------- MODULE ConversionPlan ---------------------------
(***************************************************************************)
(* plan-builder.ts: what the form shows for a configuration and the user's *)
(* overrides, and the tasks a run makes of the selected items with the     *)
(* same.                                                                   *)
(*                                                                         *)
(* A setting is a text or unset; type, rename and output directory stand   *)
(* for the others, which have no rule of their own.                        *)
(***************************************************************************)
EXTENDS Naturals, Sequences, SequencesExt, FiniteSets, FilteredSeq

CONSTANTS Names,      \* the texts of a configuration
          Labels,     \* the tags and classes of its items
          Configs,    \* configurations: matrix, rename and outputDir
          PlanItems,  \* the selected items, in order: id, name, tags, classes
          Texts,      \* what the user may enter
          Matrices    \* the output matrices the user may enter

Unset == "unset"
Blank == ""

Settings == Names \cup {Unset}

MatrixRules == [type : Settings, rename : Settings, outputDir : Settings,
                tags : SUBSET Labels, classes : SUBSET Labels]

ASSUME PlanAssumption ==
    /\ Configs \subseteq [matrix : Seq(MatrixRules), rename : Settings, outputDir : Settings]
    /\ PlanItems \in Seq([id : Nat, name : Names, tags : SUBSET Labels, classes : SUBSET Labels])
    /\ Matrices \subseteq Seq(MatrixRules)

VARIABLES
    config,    \* the loaded configuration
    overrides, \* ConversionOverrides: unset, or what the user has entered
    form,      \* the effective settings the UI was given last
    planned,   \* a plan has been made of what was entered last
    tasks      \* its tasks

planVars == <<config, overrides, form, planned, tasks>>

Fields == {"type", "rename", "outputDir"}

-----------------------------------------------------------------------------

\* The two ways to fall back: a ?? b, and a || b.
Coalesce(a, b) == IF a = Unset THEN b ELSE a
Otherwise(a, b) == IF a \in {Unset, Blank} THEN b ELSE a

\* The matrix is a sequence; the override is unset or holds one.
MatrixOf(c, o) == IF o.matrix = {} THEN c.matrix ELSE CHOOSE m \in o.matrix : TRUE

\* isMatrixMode: several rules, or one that is not for every item.
IsMatrixMode(matrix) ==
    \/ Len(matrix) > 1
    \/ Len(matrix) = 1 /\ (matrix[1].tags # {} \/ matrix[1].classes # {})

FirstOf(matrix, field) == IF matrix = <<>> THEN Unset ELSE matrix[1][field]

\* Mutant: the type has no default.
EffectiveSettings_NoDefault(c, o) ==
    LET matrix == MatrixOf(c, o)
        first(field) == IF IsMatrixMode(matrix) THEN Unset ELSE FirstOf(matrix, field)
    IN [type |-> Coalesce(o.type, first("type")),
        rename |-> Coalesce(o.rename, Coalesce(first("rename"), Coalesce(c.rename, Blank))),
        outputDir |-> Coalesce(o.outputDir, Coalesce(c.outputDir, Blank)),
        matrix |-> matrix]

\* resolveEffectiveSettings, what the form shows.
EffectiveSettings(c, o) ==
    LET matrix == MatrixOf(c, o)
        first(field) == IF IsMatrixMode(matrix) THEN Unset ELSE FirstOf(matrix, field)
    IN [type |-> Coalesce(o.type, Coalesce(first("type"), "bin")),
        rename |-> Coalesce(o.rename, Coalesce(first("rename"), Coalesce(c.rename, Blank))),
        outputDir |-> Coalesce(o.outputDir, Coalesce(c.outputDir, Blank)),
        matrix |-> matrix]

\* Mutant: a rule without a directory of its own has none.
EffectiveRules_NoDirectory(c, o) ==
    LET matrix == MatrixOf(c, o)
        rename == Coalesce(o.rename, c.rename)
    IN IF ~IsMatrixMode(matrix)
       THEN LET type == Coalesce(o.type, Coalesce(FirstOf(matrix, "type"), "bin"))
                one == Coalesce(o.rename, Coalesce(FirstOf(matrix, "rename"), c.rename))
            IN << [type |-> Otherwise(type, Unset), rename |-> Otherwise(one, Unset),
                   outputDir |-> Otherwise(Coalesce(o.outputDir, c.outputDir), Unset),
                   tags |-> {}, classes |-> {}] >>
       ELSE [k \in DOMAIN matrix |->
                [matrix[k] EXCEPT !.type = Otherwise(@, Coalesce(o.type, "bin")),
                                  !.rename = Otherwise(@, Otherwise(rename, Unset))]]

\* resolveEffectiveRules, what the plan uses.
EffectiveRules(c, o) ==
    LET matrix == MatrixOf(c, o)
        dir == Otherwise(Coalesce(o.outputDir, c.outputDir), Unset)
        rename == Coalesce(o.rename, c.rename)
    IN IF ~IsMatrixMode(matrix)
       THEN LET type == Coalesce(o.type, Coalesce(FirstOf(matrix, "type"), "bin"))
                one == Coalesce(o.rename, Coalesce(FirstOf(matrix, "rename"), c.rename))
            IN << [type |-> Otherwise(type, Unset), rename |-> Otherwise(one, Unset),
                   outputDir |-> dir, tags |-> {}, classes |-> {}] >>
       ELSE [k \in DOMAIN matrix |->
                [matrix[k] EXCEPT
                    !.type = Otherwise(@, Coalesce(o.type, "bin")),
                    !.rename = Otherwise(@, Otherwise(rename, Unset)),
                    !.outputDir = Otherwise(@, dir)]]

\* matrixRuleMatchesItem: a limit by tags or classes needs one in common.
RuleMatchesItem(rule, item) ==
    /\ rule.tags = {} \/ rule.tags \cap item.tags # {}
    /\ rule.classes = {} \/ rule.classes \cap item.classes # {}

\* The tasks of buildConversionPlan: item by item, rule by rule.
PlanTasks(c, o) ==
    LET rules == EffectiveRules(c, o)
        of(item) == Filtered(rules, {j \in DOMAIN rules : RuleMatchesItem(rules[j], item)})
        task(item, rule) == [item |-> item.id, name |-> item.name, type |-> rule.type,
                             rename |-> rule.rename, outputDir |-> rule.outputDir]
    IN FlattenSeq([k \in DOMAIN PlanItems |->
                      [j \in DOMAIN of(PlanItems[k]) |->
                          task(PlanItems[k], of(PlanItems[k])[j])]])

-----------------------------------------------------------------------------

NoOverrides == [type |-> Unset, rename |-> Unset, outputDir |-> Unset, matrix |-> {}]

PlanTypeOK ==
    /\ config \in Configs
    /\ overrides \in [type : Texts \cup {Unset}, rename : Texts \cup {Unset},
                      outputDir : Texts \cup {Unset}, matrix : {{}} \cup {{m} : m \in Matrices}]
    /\ planned \in BOOLEAN
    /\ form.type # Unset /\ form.rename # Unset /\ form.outputDir # Unset
    /\ \A k \in DOMAIN tasks : tasks[k].item \in {PlanItems[j].id : j \in DOMAIN PlanItems}

PlanInit ==
    /\ config \in Configs
    /\ overrides = NoOverrides
    /\ form = EffectiveSettings(config, NoOverrides)
    /\ planned = FALSE /\ tasks = <<>>

\* updateSettings: what the user enters, also nothing, is merged and shown.
EnterText(field, text) ==
    /\ overrides' = [overrides EXCEPT ![field] = text]
    /\ form' = EffectiveSettings(config, overrides')
    /\ planned' = FALSE /\ tasks' = <<>>
    /\ UNCHANGED config

EnterMatrix(matrix) ==
    /\ overrides' = [overrides EXCEPT !.matrix = {matrix}]
    /\ form' = EffectiveSettings(config, overrides')
    /\ planned' = FALSE /\ tasks' = <<>>
    /\ UNCHANGED config

\* A preview, or the plan of a run.
BuildPlan ==
    /\ planned' = TRUE /\ tasks' = PlanTasks(config, overrides)
    /\ UNCHANGED <<config, overrides, form>>

PlanNext ==
    \/ \E field \in Fields, text \in Texts : EnterText(field, text)
    \/ \E matrix \in Matrices : EnterMatrix(matrix)
    \/ BuildPlan

PlanSpec == PlanInit /\ [][PlanNext]_planVars

-----------------------------------------------------------------------------
\* Properties.

NoRule == [type |-> Unset, rename |-> Unset, outputDir |-> Unset, tags |-> {}, classes |-> {}]

\* The rules of the form; without any, all items are of one type.
ShownRules == IF form.matrix = <<>> THEN <<NoRule>> ELSE form.matrix

\* What is to be planned, in order: a task for an item and a rule that is for it.
PlanPairs == {p \in (DOMAIN PlanItems) \X (DOMAIN ShownRules) :
                 RuleMatchesItem(ShownRules[p[2]], PlanItems[p[1]])}
PairsBefore(p) == {q \in PlanPairs : q[1] < p[1] \/ (q[1] = p[1] /\ q[2] < p[2])}
TaskOf(p) == tasks[Cardinality(PairsBefore(p)) + 1]

\* A setting of a task is that of its rule, if it has one, else the form's; or
\* it is the form's in any case.
OwnFirst(p, field) ==
    Otherwise(TaskOf(p)[field], Blank) = Otherwise(ShownRules[p[2]][field], form[field])
FormOnly(p, field) == Otherwise(TaskOf(p)[field], Blank) = form[field]

\* One type with a directory of its own.
LoneDirectory ==
    /\ ~IsMatrixMode(form.matrix) /\ form.matrix # <<>>
    /\ form.matrix[1].outputDir \notin {Unset, Blank}

\* A form of one type shows the type and the rename of its rule until the user
\* enters others.
FormTellsTheRule ==
    ~IsMatrixMode(form.matrix) /\ form.matrix # <<>> =>
       \A field \in {"type", "rename"} :
          overrides[field] = Unset /\ form.matrix[1][field] # Unset =>
             form[field] = form.matrix[1][field]

\* A plan is what the form shows: the selected items in order, each under every
\* rule that is for it and under no other.  Of several types, each has its own
\* type, rename and directory, and the form's where it has none.  A single type
\* is edited in the form, so its task has the form's, which begin as the
\* rule's (plan-builder.ts:137, 166).  The directory of a lone rule is dropped:
\* what is said of LoneDirectory is what the code does (:150, :184) and not what
\* docs/user/configuration.md:18 says, that each type may have its own.
PlanIsWhatIsShown ==
    /\ FormTellsTheRule
    /\ planned =>
          /\ Len(tasks) = Cardinality(PlanPairs)
          /\ \A p \in PlanPairs :
                /\ TaskOf(p).item = PlanItems[p[1]].id
                /\ \A field \in {"type", "rename"} :
                      IF IsMatrixMode(form.matrix) THEN OwnFirst(p, field) ELSE FormOnly(p, field)
                /\ IF LoneDirectory THEN FormOnly(p, "outputDir") ELSE OwnFirst(p, "outputDir")
=============================================================================
