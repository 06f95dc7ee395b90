CONSTANTS
    Users = {u1, u2}
    Business = b
    Campaigns = {k1}
    Calls = {c1, c2}
    Answers = {"approved"}
    MaxRows = 2
    None = None
    Faults = {"death"}
SPECIFICATION Spec
SYMMETRY Alike
CONSTRAINT Bound
INVARIANTS TypeOK AtMostThree OneApplication CountsAgree AnsweredAsStored
