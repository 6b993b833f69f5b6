SPECIFICATION FairNotificationsSpec
CONSTANTS
    p1 = p1
    created = created
    decided = decided
    organizer = organizer
    student = student
    Partitions = {p1}
    Members = {m1, m2}
    MaxRecords = 3
    MaxFailures = 1
    Events <- Both
    Users = {organizer, student}
    Organizer = organizer
    KindOf <- Kind
    UserOf <- Registrant
    PartitionOf <- OnePartition
INVARIANTS
    NotifiedOnce
    CommittedIsNotified
PROPERTIES
    EventsAreNotified
CHECK_DEADLOCK FALSE
