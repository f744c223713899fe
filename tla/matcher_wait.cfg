\* A promise of waitReadySlot that the code does not keep.
SPECIFICATION Spec
CONSTANTS
    Callers = {c1, c2, c3}
    MaxQueue = 2
INVARIANT
    WaitsForReplacement
