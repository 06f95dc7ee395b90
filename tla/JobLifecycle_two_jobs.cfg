\* A campaign that gets two jobs.
SPECIFICATION Spec
CONSTANTS
    Campaigns = {c1}
    Jobs = {j1, j2}
    Contents = {t1}
    None = None
    MaxRequests = 3
    MaxSnapshots = 1
    Interruptions = FALSE
INVARIANT CampaignHasOneJob
CHECK_DEADLOCK FALSE
