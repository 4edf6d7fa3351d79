SPECIFICATION Spec
CONSTANTS
    k1 = k1
    k2 = k2
    d1 = d1
    d2 = d2
    p1 = p1
    p2 = p2
    p3 = p3
    None = None
    Keys = {k1, k2}
    Digests = {d1, d2}
    Procs = {p1, p2, p3}
    MaxLeases = 3
SYMMETRY Symmetry
INVARIANT TypeOK
INVARIANT LeaseExclusive
INVARIANT ReplayFaithful
PROPERTY CompletedIsFinal
