\* Loads, buttons, selectors and one run from two concurrent RPCs.
SPECIFICATION Spec
CONSTANTS
    c1 = c1
    c2 = c2
    s1 = s1
    Calls = {c1, c2}
    Hooks = 1
    Shards = {s1}
    MaxVersion = 3
    Defaults = 1
    MaxActions = 1
    MaxLoads = 2
    MaxRuns = 1
    MaxSelectors = 2
INVARIANTS
    StateTracksActivity
    NoMisapply
PROPERTIES
    DisposedForGood
