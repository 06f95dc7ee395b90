CONSTANTS
    Ids = {i1, i2}
    Admins = {root}
    Superusers = {root}
    Addresses = {e1, e2}
    Calls = {c1, c2}
    Delta = 1
    MaxTime = 1
    MaxTokens = 4
    None = None
    Faults = {"death"}
SPECIFICATION Spec
SYMMETRY Alike
CONSTRAINT Bound
INVARIANTS TypeOK SignedInStaysIn
PROPERTIES WholeWhenGranted VerifiedByCode
CHECK_DEADLOCK FALSE
