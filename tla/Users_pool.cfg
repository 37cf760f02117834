SPECIFICATION Spec
CONSTANTS
    NoAddress = NoAddress
    User = {u, v}
    Request = {r1, r2}
    Address = {e1, e2}
    OneConnection = FALSE
    MaxVersion = 3
SYMMETRY Symmetry
INVARIANTS
    NoLostUpdate
    GivenIsTemporary
