SPECIFICATION Spec
CONSTANTS
    Writer = {w1}
    Inode = {i1, i2, i3}
    NoInode = NoInode
    Chunks = 2
    MaxPuts = 3
    MaxFaults = 2
    FaultKinds = {"io", "process", "power"}
SYMMETRY MCSymmetry
INVARIANTS
    TypeOK
    WrittenIsThere
PROPERTY
    IsAtomic
