SPECIFICATION Spec
CONSTANTS
    Users = {u1}
    MaxAttempts = 2
    MaxParticipants = 2
    Handlers = {h1, h2}
    Schedulers = {s1, s2}
    BatchLimit = 2
    RequestIds = {q1}
    RegisterStart = 0
    RegisterEnd = 1
    ActivityStart = 1
    ActivityEnd = 2
    ApprovalWindow = 1
    LeadTime = 1
    Horizon = 2
SYMMETRY OverlapSymmetry
INVARIANTS
    CountersMatchRows
    OneActiveRow
    TicketsFollowRows
    OutboxTellsRows
PROPERTIES
    FinalStaysFinal
