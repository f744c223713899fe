SPECIFICATION FairSpec
CONSTANTS
    Workers = {w1, w2}
    Invocations = {i1, i2}
    Tokens = {d1}
    None = none
INVARIANTS
    ShutdownIsFinal
    DialogsHold
PROPERTIES
    WorkServed
    DialogsClose
    ServiceSpec
