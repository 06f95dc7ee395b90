\* Create handlers that are suspended while others run.
SPECIFICATION FairSpec
CONSTANTS
    Campaigns = {c1}
    Jobs = {j1, j2}
    Contents = {t1}
    None = None
    MaxRequests = 3
    MaxSnapshots = 0
    Interruptions = FALSE
PROPERTY CreateFilesRequest
CHECK_DEADLOCK FALSE
