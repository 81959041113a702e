SPECIFICATION Spec
CONSTANTS
    a = a
    b = b
    Clients = {a, b}
    Users = {a, b}
    Present = {}
    MaxLinks = 1
    MaxRotations = 0
    MaxBarriers = 1
    MaxSequence = 2
    MaxWriters = 0
    Cases <- EarlyCompletion
    Connections <- MCConnections
    Epochs <- MCEpochs
    Transactions <- MCTransactions
    Sequences <- MCSequences
INVARIANTS
    ExtractionIsExact
CHECK_DEADLOCK FALSE
