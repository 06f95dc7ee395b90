SPECIFICATION Spec
CONSTANTS
    u1 = u1
    u2 = u2
    u3 = u3
    w1 = w1
    w2 = w2
    r = r
    c1 = c1
    c2 = c2
    Users = {u1, u2, u3}
    Sockets = {w1, w2}
    Requests = {r}
    UserOf <- MCUserOf
    Conversations = {c1, c2}
    MemberOf <- MCMemberOf
    Old = {c1}
    None = None
    MaxObjects = 2
    MaxMessages = 2
INVARIANTS
    TypeOK
    DeliveredToMembers
    DeliveredOnce
    LeavesClean
PROPERTIES
    NobodySkipped
    HandedOut
CHECK_DEADLOCK FALSE
