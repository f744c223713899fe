\* Once all answers and events are in, is the UI right?
SPECIFICATION StoreSpec
CONSTANTS
    MatrixEdits = {m1, m2}
    FieldEdits = {f1}
    MaxStimuli = 3
    MaxCalls = 3
INVARIANTS UiIsRight
CHECK_DEADLOCK FALSE
