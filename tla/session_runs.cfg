\* Two runs, reload between and around them; no default selection.
SPECIFICATION Spec
CONSTANTS
    c1 = c1
    c2 = c2
    s1 = s1
    s2 = s2
    Calls = {c1, c2}
    Hooks = 2
    Shards = {s1, s2}
    MaxVersion = 3
    Defaults = 0
    MaxActions = 1
    MaxLoads = 2
    MaxRuns = 2
    MaxSelectors = 1
INVARIANTS
    LegalTransitions
    SummaryMatchesState
    NoOrphanShards
    RunsEndInOrder
PROPERTIES
    RunStaysPut
