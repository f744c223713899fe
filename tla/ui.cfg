CONSTANTS
    NodeCount = 4
    Up <- MCUp
    Items <- MCItems
    MatrixEdits = {m1, m2}
    FieldEdits = {f1}
    MaxStimuli = 3
    MaxCalls = 3
    Capacity = 3
    HookCapacity = 1
    WindowCapacity = 2
    LogHooks = 2
    PageSize = 1
    MaxLines = 4
    MaxLogCalls = 1
    MaxResets = 1
    MaxRecords = 4
    BatchSize = 2
    Tokens = {t1, t2}
    Views = {store, diagnostics}
    StoreView = store
    MaxResponses = 2
    MaxDeaths = 1
SPECIFICATION UiSpec
INVARIANTS UiTypeOK TreeTellsTheItems ScriptEditsLand UiFollows RunsAsShown EventsFollowed NoLineLost
PROPERTIES ChoiceSurvivesLock
CHECK_DEADLOCK FALSE
