\* Two requests in flight; a backend and its replacement.
SPECIFICATION FairSpec
CONSTANTS
    Requests = {r1, r2}
    MaxGenerations = 2
INVARIANTS
    BackendsInTurn
    NobodyStuck
PROPERTIES
    SilenceEnds
    ServiceSpec
