\* Requests do not overlap, handlers may die between two commits.
SPECIFICATION Spec
CONSTANTS
    Campaigns = {c1, c2}
    Jobs = {j1, j2}
    Contents = {t1, t2}
    None = None
    MaxRequests = 2
    MaxSnapshots = 0
    Interruptions = TRUE
SYMMETRY Symmetry
INVARIANT CampaignHasOneJob
PROPERTY ReviewSpec
CHECK_DEADLOCK FALSE
