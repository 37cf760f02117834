SPECIFICATION Spec
CONSTANTS
    Writer = {w1}
    Inode = {i1, i2, i3}
    NoInode = NoInode
    Chunks = 2
    MaxPuts = 1
    MaxFaults = 2
    FaultKinds = {"process", "power"}
SYMMETRY MCSymmetry
INVARIANT
    AckedIsThere
