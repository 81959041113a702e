SPECIFICATION Spec
CONSTANTS
    a = a
    b = b
    Clients = {a, b}
    Users = {a, b}
    Present = {a, b}
    MaxLinks = 1
    MaxRotations = 0
    MaxBarriers = 0
    MaxSequence = 2
    MaxWriters = 0
    Cases <- EditsOnly
    Connections <- MCConnections
    Epochs <- MCEpochs
    Transactions <- MCTransactions
    Sequences <- MCSequences
SYMMETRY ClientSymmetry
INVARIANTS
    QuietMeansSynced
CHECK_DEADLOCK FALSE
