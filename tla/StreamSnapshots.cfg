CONSTANTS
    s1 = s1
    s2 = s2
    s3 = s3
    p1 = p1
    p2 = p2
    StateId = {s1, s2}
    LeaseId = {l1, l2, l3}
    Page = {p1, p2}
    PageRefs <- SharedRefs
    NoParent = NoParent
    NoSnapshot = NoSnapshot
    MaxSequence = 3

SPECIFICATION Spec
SYMMETRY Symmetry

INVARIANTS
    StandbyFindsState
    SnapshotRetained

PROPERTIES
    SnapshotLosesOnlyShared
    LaterIsGreater
