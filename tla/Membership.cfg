SPECIFICATION FairMembershipSpec
CONSTANTS
    p1 = p1
    p2 = p2
    Partitions = {p1, p2}
    Members = {m1}
    MaxRecords = 3
    MaxFailures = 1
    Users = {student, organizer}
    Organizer = organizer
    MaxAttempts = 2
    RequireApproval = TRUE
    RegistrationPartition <- TwoPartitions
INVARIANTS
    MembersFollow
    GroupHasOwner
PROPERTIES
    MembershipSettles
CHECK_DEADLOCK FALSE
