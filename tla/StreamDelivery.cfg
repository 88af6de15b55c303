CONSTANTS
    Sequence = {q1, q2, q3}
    Worker = {w1, w2}
    Idle = Idle
    MaxFaults = 2

SPECIFICATION FairSpec

INVARIANTS
    AppliedOnce

PROPERTIES
    EventuallyApplied

CHECK_DEADLOCK FALSE
