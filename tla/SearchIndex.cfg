SPECIFICATION Spec
CONSTANTS
    Activities <- TwoActivities
    Servers = {s1, s2}
    Indices = {v1, v2}
    FirstIndex = v1
    Alias = Alias
    BatchSize = 2
    Public = {2}
    MaxVersion = 3
    MaxWork = 4
INVARIANTS
    IndexFollowsRows
    SearchShowsPublicRows
PROPERTIES
    EventsAreIndexed
CHECK_DEADLOCK FALSE
