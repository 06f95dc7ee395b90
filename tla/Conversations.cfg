SPECIFICATION Spec
CONSTANTS
    b = b
    u1 = u1
    u2 = u2
    Users = {u1, u2}
    Businesses = {b}
    Contacts <- MCContacts
    Conversations = {c1, c2}
    s1 = s1
    s2 = s2
    Sessions = {s1, s2}
    UserOf <- MCUserOf
    Names = {n}
    Files = {f1}
    Images = {f1}
    None = None
    MaxMessages = 2
    Faults = {"lists", "uploads", "rows"}
CONSTRAINT Bound
SYMMETRY Symmetry
INVARIANTS
    TypeOK
    ListedAreMembers
    CompleteConversation
    RepliesStay
    SentUploadsGone
PROPERTY
    LogSpec
CHECK_DEADLOCK FALSE
