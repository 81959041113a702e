SPECIFICATION FairSpec
CONSTANTS
    u1 = u1
    Connections = {c1}
    Users = {u1}
    UserOf <- OneUser
    Completers = {u1}
    Editors = {c1}
    ExternalRequests = {}
    Epochs = {e1}
    MaxBarriers = 1
    Transactions = {1}
    MaxSequence = 1
    Sequences = {0, 1}
    MaxWriters = 2
    CompactionInterval = 1
    CommitAckLoss = FALSE
    Restarts = FALSE
    PatchedStatuses = {"in_progress"}
CHECK_DEADLOCK FALSE
PROPERTIES
    ExpiredCompletionRollsBack
