CONSTANTS
    Instances = {i1, i2}
    Versions = {v1, v2}
    FileCount = 2
    Absent = Absent
    Torn = Torn
    Threads = {t1, t2}
    MaxPending = 1
    QueueSize = 1
    MaxChannels = 2
    HeadSize = 2
    MaxBytes = 2
    Budget = 6
    MaxFrames = 3
    Invokes = {n1, n2}
    MaxEdits = 1
    Files <- MCFiles
    EntryFile = 1
    IncludeLists <- MCIncludeLists
    DepthLimit = 3
    FileLimit = 3
    SelItems <- MCSelItems
    SelRules <- MCSelRules
    MaxItems = 2
    MaxRules = 2
    Letters = {"a"}
    Argvs <- MCArgvs
    Names = {"", "a", "b", "c", "d", "r", "u", "bin", "lua"}
    Labels = {"c", "t"}
    Configs <- MCConfigs
    PlanItems <- MCPlanItems
    Texts <- MCTexts
    Matrices <- MCMatrices
SPECIFICATION ServicesSpec
INVARIANTS ServicesTypeOK RunsOnItsOwn SlotKept NobodyForgotten NothingLeftUnseen
    FramesArriveWhole AccountedOnce LoadsWhatFilesSay BatchesAgree ArgvArrives PlanIsWhatIsShown
CHECK_DEADLOCK FALSE
