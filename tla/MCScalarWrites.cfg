SPECIFICATION Spec
CONSTANTS
    a = a
    b = b
    Browsers = {a, b}
    Tasks = {t1}
    Topics = {p1}
    Updates = {u1}
    Stored = {t1, p1}
    First = v0
    Values = {v0, v1, huge}
    TooLarge = {huge}
    Locked = Locked
    Unavailable = Unavailable
    Slots = {k1, k2}
    Budgets <- MCBudgets
INVARIANTS
    CounterSealsOneValue
    RevisionsAreExact
    NoPlaceholderIsSaved
PROPERTIES
    UntouchedFieldsSurvive
SYMMETRY Symmetric
CHECK_DEADLOCK FALSE
