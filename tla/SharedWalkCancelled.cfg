SPECIFICATION Spec
CONSTANTS
    m1 = m1
    m2 = m2
    Members = {m1, m2}
    Registered = {m1, m2}
    CanGate = {m1}
    Maps <- MCMaps
    MaxAttempts = 2
    Requests = {r1, r2}
    Hurried = {r1}
SYMMETRY Symmetry
INVARIANT OnlyItsOwnCancellation
