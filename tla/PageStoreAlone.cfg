CONSTANTS
    Writer = {w1, w2}
    Page = {p1, p2}
    Inode = {i1, i2, i3}
    NoInode = NoInode
    MayShare = FALSE

SPECIFICATION Spec
SYMMETRY Symmetry

INVARIANTS
    TypeOK
    NoTornPage
    OkSurvivesCrash

PROPERTIES
    ImplementsRegistry
