SPECIFICATION BrowserSpec
CONSTANTS
    e1 = e1
    e2 = e2
    p1 = p1
    p2 = p2
    r1 = r1
    r2 = r2
    Edits = {e1, e2}
    Epochs = {1, 2, 3}
    Nothing = Nothing
    RootKeys = {1, 2, 3}
    ContentKeys = {1, 2, 3}
    Passphrases = {p1, p2}
    RecoverySecrets = {r1, r2}
    NoSecret = NoSecret
    MaxCeremonies = 2
    t1 = t1
    t2 = t2
    t3 = t3
    t4 = t4
    Topics = {t1, t2, t3, t4}
    Later = {t4}
    Sections = {1, 2}
    Minutes = {0, 1}
    Leads = TRUE
    s1 = s1
    s2 = s2
    SetupTabs = {s1, s2}
    m1 = m1
    m2 = m2
    Mentions = {m1, m2}
    i1 = i1
    i2 = i2
    Comments = {i1, i2}
    x1 = x1
    x2 = x2
    x3 = x3
    Entries = {x1, x2, x3}
    k1 = k1
    k2 = k2
    ClientSecrets = {k1, k2}
    Starts <- MCStarts
INVARIANTS
    BrowserTypeOK
    SealsWhileUnlocked
    UnsavedIsGuarded
    ShownIsCurrent
    KeysAreKept
    TakenForDoneIsDone
    ReorderKeepsAgenda
    ControlsComeBack
    TypedIsStoredOnce
PROPERTIES
    NoSilentLoss
    VaultSpec
CHECK_DEADLOCK FALSE
