SPECIFICATION Spec
CONSTANTS
    u1 = u1
    Connections = {c1, c2}
    Users = {u1}
    UserOf <- OneUser
    Completers = {}
    Editors = {c1, c2}
    ExternalRequests = {}
    Epochs = {e1, e2}
    MaxBarriers = 2
    Transactions = {1, 2}
    MaxSequence = 2
    Sequences = {0, 1, 2}
    MaxWriters = 2
    CompactionInterval = 1
    CommitAckLoss = FALSE
    Restarts = FALSE
    PatchedStatuses = {"in_progress"}
SYMMETRY CompactionSymmetry
INVARIANTS
    LogIsSound
    CompactionIsWhole
