SPECIFICATION AccessSpec
CONSTANTS
    Users = {ada, ben, cleo}
    ada = ada
    ben = ben
    cleo = cleo
    Emails = {home, work, away}
    home = home
    work = work
    away = away
    Sessions = {s1, s2}
    Requests = {r1, r2}
    Nobody = Nobody
    Roles = {"user", "guest"}
    Authors = {cleo}
    Starts <- MCStarts
    Providers = {p1, p2}
    Subjects = {x1}
    Flows = {f1, f2}
    Configs = {c1, c2}
    Draft = Draft
    Ceremonies = {k1, k2}
    Keys = 3
INVARIANTS
    RevokedStaysRevoked
    TablesStayWhole
    SignInsAreSound
    GenerationsAreSound
SYMMETRY Symmetric
CHECK_DEADLOCK FALSE
