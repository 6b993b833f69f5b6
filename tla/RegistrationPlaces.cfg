SPECIFICATION Spec
CONSTANTS
    Users = {u1, u2, u3}
    MaxAttempts = 1
    MaxParticipants = 2
    Handlers = {h1, h2}
    Schedulers = {s1}
    BatchLimit = 1
    RequestIds = {q1}
    RegisterStart = 0
    RegisterEnd = 1
    ActivityStart = 1
    ActivityEnd = 2
    ApprovalWindow = 1
    LeadTime = 1
    Horizon = 1
SYMMETRY PlacesSymmetry
INVARIANTS
    NoOverbooking
    UsedOnce
    RepliesAgree
PROPERTIES
    KeepsPromise
