CONSTANTS
    s1 = s1
    s2 = s2
    s3 = s3
    s4 = s4
    p1 = p1
    p2 = p2
    StateId = {s1, s2, s3}
    LeaseId = {l1}
    Page = {p1, p2}
    PageRefs <- SharedRefs
    NoParent = NoParent

SPECIFICATION Spec
SYMMETRY Symmetry

PROPERTIES
    ReachablePagesKept
