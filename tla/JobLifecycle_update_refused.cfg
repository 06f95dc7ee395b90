\* An update of a job on the site that nobody can approve.
SPECIFICATION Spec
CONSTANTS
    Campaigns = {c1}
    Jobs = {j1}
    Contents = {t1, t2}
    None = None
    MaxRequests = 3
    MaxSnapshots = 0
    Interruptions = FALSE
PROPERTY
    UpdateCanBeApproved
CHECK_DEADLOCK FALSE
