\* A job of the list that its id does not find.
SPECIFICATION Spec
CONSTANTS
    Campaigns = {c1}
    Jobs = {j1}
    Contents = {t1, t2}
    None = None
    MaxRequests = 3
    MaxSnapshots = 0
    Interruptions = FALSE
INVARIANT
    ListedJobFound
CHECK_DEADLOCK FALSE
