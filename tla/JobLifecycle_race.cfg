\* A published text that changes.
SPECIFICATION Spec
CONSTANTS
    Campaigns = {c1}
    Jobs = {j1}
    Contents = {t1, t2}
    None = None
    MaxRequests = 3
    MaxSnapshots = 1
    Interruptions = FALSE
PROPERTY PublishedTextFixed
CHECK_DEADLOCK FALSE
