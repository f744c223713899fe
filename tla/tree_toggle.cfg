CONSTANTS
    NodeCount = 4
    Up <- MCUp
    Items <- MCItems
SPECIFICATION TreeSpec
INVARIANTS LockedStaysOut
