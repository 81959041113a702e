SPECIFICATION Spec
CONSTANTS
    a = a
    b = b
    Browsers = {a}
    Tasks = {t1}
    Topics = {}
    Updates = {}
    Stored = {t1}
    First = v0
    Values = {v0, v1, huge}
    TooLarge = {huge}
    Locked = Locked
    Unavailable = Unavailable
    Slots = {k1, k2}
    Budgets <- MCRetypings
INVARIANTS
    CounterNeverRepeats
CHECK_DEADLOCK FALSE
