SPECIFICATION Spec
CONSTANTS
    Writer = {w1, w2}
    Inode = {i1, i2, i3}
    NoInode = NoInode
    Chunks = 2
    MaxPuts = 2
    MaxFaults = 0
    FaultKinds = {}
SYMMETRY MCSymmetry
INVARIANT
    NoTornBlob
