CONSTANTS
    Writer = {w1, w2}
    Page = {p1}
    Inode = {i1, i2, i3}
    NoInode = NoInode
    MayShare = TRUE

SPECIFICATION Spec

INVARIANTS
    NoTornPage
