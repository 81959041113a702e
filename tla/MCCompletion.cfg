SPECIFICATION Spec
CONSTANTS
    u1 = u1
    Connections = {c1, c2}
    Users = {u1}
    UserOf <- OneUser
    Completers = {u1}
    Editors = {c1}
    ExternalRequests = {}
    Epochs = {e1}
    MaxBarriers = 1
    Transactions = {1}
    MaxSequence = 1
    Sequences = {0, 1}
    MaxWriters = 2
    CompactionInterval = 2
    CommitAckLoss = FALSE
    Restarts = FALSE
    PatchedStatuses = {"in_progress"}
CHECK_DEADLOCK FALSE
INVARIANTS
    SealsWhatWasChecked
PROPERTIES
    CompletedIsImmutable
