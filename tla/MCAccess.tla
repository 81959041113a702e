------------------------------ MODULE MCAccess ------------------------------
EXTENDS Access, TLC

CONSTANTS ada, ben, cleo, home, work, away

Only(kinds) ==
    [operation \in Operations \cup ExternalOperations \cup CeremonyOperations |->
        IF operation \in DOMAIN kinds THEN kinds[operation] ELSE 0]

User(role, email) == [role |-> role, version |-> 1, archived |-> FALSE,
                      email |-> email, password |-> TRUE]

Nothing == [u \in Users |-> NoAccount]
Two == ada :> User("superadmin", home) @@ ben :> User("user", work) @@ Nothing
Three == cleo :> User("guest", away) @@ Two

Start(accounts, enabled, keys, kinds) ==
    [account |-> accounts,
     custodian |-> IF accounts = Nothing THEN Nobody ELSE ada,
     enabled |-> enabled, keys |-> keys, left |-> Only(kinds)]

\* Two setups at once; sessions under every change of their account; provider
\* settings that overlap; sign-ins that are repeated, late or overtaken; key
\* ceremonies that expire, lose an operator or meet a browser registering;
\* accounts removed while a sign-in links them or a ceremony begins.
MCStarts == {
    Start(Nothing, FALSE, FirstKeys,
          [setup |-> 2, login |-> 2, create |-> 1, remove |-> 1]),
    Start(Two, FALSE, FirstKeys,
          [login |-> 2, remove |-> 1, restore |-> 1, register |-> 1,
           expire |-> 1, crash |-> 1]),
    Start(Two, FALSE, FirstKeys,
          [login |-> 2, update |-> 1, register |-> 1, remove |-> 1]),
    Start(Two, FALSE, FirstKeys,
          [login |-> 2, profile |-> 1, remove |-> 1, restore |-> 1]),
    Start(Two, FALSE, FirstKeys, [login |-> 1, setting |-> 3, start |-> 1]),
    Start(Two, TRUE, FirstKeys, [login |-> 1, setting |-> 3, start |-> 1]),
    Start(Two, TRUE, FirstKeys,
          [login |-> 1, remove |-> 1, start |-> 2, timeout |-> 1]),
    Start(Two, TRUE, FirstKeys,
          [login |-> 1, setting |-> 1, reset |-> 1, start |-> 1, crash |-> 1]),
    Start(Three, FALSE, RotatedKeys, [login |-> 2, ceremony |-> 4, lapse |-> 1]),
    Start(Three, FALSE, RotatedKeys, [login |-> 2, ceremony |-> 3, update |-> 1]),
    Start(Three, FALSE, FirstKeys, [login |-> 2, ceremony |-> 3, register |-> 1]),
    Start(Three, TRUE, FirstKeys, [login |-> 1, start |-> 1, ceremony |-> 3]),
    Start(Three, TRUE, FirstKeys, [login |-> 1, start |-> 1, remove |-> 1]),
    Start(Two, FALSE, FirstKeys,
          [login |-> 2, ceremony |-> 3, remove |-> 1])}

\* Handlers and ceremonies differ in nothing but their names.
Symmetric == Permutations(Requests) \cup Permutations(Ceremonies)
=============================================================================
