SPECIFICATION Spec
CONSTANTS
    Handlers = {h1, h2}
    LoginLimit = 1
    CodeLimit = 1
    SendLimit = 1
    MaxCodes = 2
    MaxCount = 2
    MaxTokens = 2
SYMMETRY Symmetric
INVARIANTS
    SessionsAreListed
    EndedSessionsStayEnded
    FailuresAreLimited
    CountersEnd
CHECK_DEADLOCK FALSE
