CONSTANTS
    plain = plain
    full = full
    a = a
    s = s
    Jobs = {j1}
    Forms = {plain, full}
    Categories = {a}
    CategoriesOf <- MCCategoriesOf
    SkillsOf <- MCSkillsOf
    Calls = {c1, c2}
    MaxRows = 2
    None = None
    Gone = Gone
    Faults = {"death", "redis"}
SPECIFICATION Spec
SYMMETRY Alike
CONSTRAINT Bound
INVARIANTS TypeOK FieldsTogether CountersAgree PagesFresh
