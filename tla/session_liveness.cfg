\* What must happen, under Fairness.
SPECIFICATION FairSpec
CONSTANTS
    c1 = c1
    c2 = c2
    s1 = s1
    Calls = {c1, c2}
    Hooks = 1
    Shards = {s1}
    MaxVersion = 2
    Defaults = 2
    MaxActions = 1
    MaxLoads = 1
    MaxRuns = 1
    MaxSelectors = 1
PROPERTIES
    CancelEndsRun
    CallsFinish
