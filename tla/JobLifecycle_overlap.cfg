\* Requests overlap, handlers run to their end.
SPECIFICATION Spec
CONSTANTS
    Campaigns = {c1}
    Jobs = {j1}
    Contents = {t1}
    None = None
    MaxRequests = 3
    MaxSnapshots = 1
    Interruptions = FALSE
INVARIANTS
    TypeOK
    OnePendingRequest
    PendingReviewable
    NoDanglingRequest
CHECK_DEADLOCK FALSE
