SPECIFICATION FairSpec
CONSTANTS
    Users = {u1, u2}
    MaxAttempts = 1
    MaxParticipants = 2
    Handlers = {h1}
    Schedulers = {s1}
    BatchLimit = 1
    RequestIds = {q1}
    RegisterStart = 0
    RegisterEnd = 1
    ActivityStart = 1
    ActivityEnd = 2
    ApprovalWindow = 1
    LeadTime = 1
    Horizon = 2
PROPERTIES
    PendingIsDecided
    TicketsAreClosed
