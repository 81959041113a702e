SPECIFICATION Spec
CONSTANTS
    a = a
    b = b
    s1 = s1
    s2 = s2
    Browsers = {a, b}
    Meetings = {1, 2, 3}
    Topics = {1, 2, 3}
    Sections = {s1, s2}
    NoSection = NoSection
    Dates = {1, 2, 3}
    Interval = 2
    Starts <- MCStarts
INVARIANTS
    AgendasAreWhole
    SkippedStaysSkipped
    PlanIsCarriedOut
PROPERTIES
    SettledStays
SYMMETRY Symmetric
CHECK_DEADLOCK FALSE
