\* One before hook and one button: what the hook changed can be refused.
SPECIFICATION Spec
CONSTANTS
    c1 = c1
    c2 = c2
    s1 = s1
    Calls = {c1, c2}
    Hooks = 1
    Shards = {s1}
    MaxVersion = 4
    Defaults = 0
    MaxActions = 1
    MaxLoads = 1
    MaxRuns = 1
    MaxSelectors = 1
INVARIANTS
    HookEditsReachPlan
