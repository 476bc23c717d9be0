SPECIFICATION Spec
CONSTANTS
    Setups <- FourSetups
    Keys = {k1}
    Values = {v1, v2}
    Absent = Absent
    Torn = Torn
    NoRequest = NoRequest
    Clients = {c1, c2}
    MaxLate = 1
INVARIANTS TypeOK AckedIsMirrored
PROPERTY OneStore
SYMMETRY Symmetry
