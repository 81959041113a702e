SPECIFICATION FairSpec
CONSTANTS
    u1 = u1
    Connections = {c1}
    Users = {u1}
    UserOf <- OneUser
    Completers = {u1}
    Editors = {c1}
    ExternalRequests = {w1}
    Epochs = {e1}
    MaxBarriers = 1
    Transactions = {1}
    MaxSequence = 1
    Sequences = {0, 1}
    MaxWriters = 2
    CompactionInterval = 1
    CommitAckLoss = TRUE
    Restarts = TRUE
    PatchedStatuses = {"planned", "in_progress"}
INVARIANTS
    CoordinatorIsTruthful
PROPERTIES
    ImplementsLog
    CoordinatorSpec
    BarriersEnd
    CompletedMeetingIsLeft
