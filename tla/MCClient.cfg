SPECIFICATION Spec
CONSTANTS
    a = a
    b = b
    Clients = {a, b}
    Users = {a, b}
    Present = {a, b}
    MaxLinks = 2
    MaxRotations = 1
    MaxBarriers = 2
    MaxSequence = 2
    MaxWriters = 0
    Cases <- MCCases
    Connections <- MCConnections
    Epochs <- MCEpochs
    Transactions <- MCTransactions
    Sequences <- MCSequences
INVARIANTS
    SnapshotHoldsLog
    NoEditIsLost
    ClockSealsOnce
    DrainedMeansSettled
CHECK_DEADLOCK FALSE
