\* Three callers, one more than the queue takes.
SPECIFICATION FairSpec
CONSTANTS
    Callers = {c1, c2, c3}
    MaxQueue = 2
INVARIANTS
    WorkerKept
PROPERTIES
    ServiceSpec
