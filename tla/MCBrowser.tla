------------------------------ MODULE MCBrowser ------------------------------
(* Small instances of one browser tab: see Browser.  Each start is a story of *)
(* its own, with as many of each thing that may happen as the story needs.    *)
EXTENDS Browser

CONSTANTS e1, e2, p1, p2, r1, r2, t1, t2, t3, t4, s1, s2, m1, m2, i1, i2, x1, x2, x3,
          k1, k2

Start(user, unlocked, manages, kinds) ==
    [user |-> user, unlocked |-> unlocked, manages |-> manages, left |-> kinds]

Unlocked1(kinds) == Start(TRUE, TRUE, TRUE, kinds)
Locked1(kinds) == Start(TRUE, FALSE, TRUE, kinds)

\* The Meeting: writing, leaving, locking, refreshing, completing.
MeetingStarts == {
    Unlocked1([visit |-> 2, edit |-> 2, lock |-> 1, leave |-> 1, timeout |-> 1, drop |-> 1]),
    Unlocked1([visit |-> 1, save |-> 1, others |-> 1, change |-> 1, fault |-> 1]),
    Unlocked1([visit |-> 1, save |-> 1, others |-> 2, fault |-> 1, retry |-> 1]),
    Unlocked1([visit |-> 1, change |-> 1, others |-> 1, fault |-> 1, drop |-> 1, lose |-> 1]),
    Unlocked1([visit |-> 1, complete |-> 1, others |-> 1, edit |-> 1, drop |-> 1, lose |-> 1]),
    Unlocked1([visit |-> 1, complete |-> 1, others |-> 1, revoke |-> 1, poll |-> 1,
               timeout |-> 1]),
    Unlocked1([visit |-> 2, complete |-> 2, leave |-> 1, drop |-> 1, others |-> 1]),
    Unlocked1([visit |-> 1, save |-> 1, complete |-> 1]),
    Unlocked1([visit |-> 1, change |-> 2, others |-> 1, fault |-> 1]),
    Unlocked1([visit |-> 1, change |-> 1, others |-> 1, fault |-> 1, retry |-> 1]),
    Unlocked1([visit |-> 1, save |-> 1, complete |-> 1, drop |-> 1, lose |-> 1, retry |-> 1]),
    Start(TRUE, TRUE, FALSE, [visit |-> 1, lock |-> 1, show |-> 1, unlock |-> 1, others |-> 1])}

\* Keys: unlocking, rotating an epoch, losing the keys while an answer is awaited.
KeyStarts == {
    Start(FALSE, FALSE, TRUE,
          [login |-> 2, logout |-> 1, show |-> 2, unlock |-> 2, refuse |-> 1, remote |-> 1]),
    Locked1([visit |-> 1, show |-> 2, unlock |-> 2, remote |-> 1, timeout |-> 1, others |-> 1]),
    Unlocked1([visit |-> 1, edit |-> 1, lock |-> 1, timeout |-> 1, show |-> 1, unlock |-> 1]),
    Unlocked1([visit |-> 1, edit |-> 1, rekey |-> 1, rotate |-> 1, poll |-> 1, show |-> 1,
               unlock |-> 1]),
    Unlocked1([visit |-> 1, rotate |-> 2, timeout |-> 1, remote |-> 1, poll |-> 1]),
    Unlocked1([logout |-> 1, login |-> 1, show |-> 1, unlock |-> 1, rekey |-> 1])}

\* Key ceremonies of this tab's user and of others.
RecoveryStarts == {
    Unlocked1([recovery |-> 1, disclosed_key |-> 2, ceremony |-> 1, mate |-> 2, refresh |-> 1]),
    Unlocked1([recovery |-> 1, disclosed_passphrase |-> 2, ceremony |-> 1, mate |-> 2]),
    Unlocked1([recovery |-> 1, replace_recovery_secret |-> 1, lost_passphrase |-> 1,
               ceremony |-> 1, mate |-> 1, lapse |-> 1]),
    Unlocked1([recovery |-> 1, lost_passphrase |-> 1, ceremony |-> 1, mate |-> 1, lose |-> 1]),
    Unlocked1([recovery |-> 1, rotate_root_key |-> 1, change_passphrase |-> 1, ceremony |-> 1,
               leave |-> 1, refuse |-> 1]),
    Unlocked1([recovery |-> 2, lost_passphrase |-> 1, ceremony |-> 1, mate |-> 1, refresh |-> 1,
               lock |-> 1]),
    Unlocked1([recovery |-> 1, lost_passphrase |-> 3, ceremony |-> 2, mate |-> 1, refresh |-> 1]),
    Unlocked1([lost_passphrase |-> 1, replace_recovery_secret |-> 1, rotate_root_key |-> 1,
               disclosed_key |-> 1, change_passphrase |-> 1, mate |-> 8])}

\* Two ceremonies of others between two looks at the server.
ApprovalStarts == {
    Unlocked1([recovery |-> 1, lost_passphrase |-> 2, ceremony |-> 1, mate |-> 1,
               refresh |-> 1])}

\* The agenda as it is prepared, and as it is held.
AgendaStarts == {
    Unlocked1([prepare |-> 1, drag |-> 1, plan |-> 1]),
    Unlocked1([prepare |-> 1, drag |-> 1, lose |-> 1, lock |-> 1]),
    Unlocked1([prepare |-> 1, manage |-> 2]),
    Unlocked1([prepare |-> 1, manage |-> 1, leave |-> 1]),
    Unlocked1([prepare |-> 1, manage |-> 1, fault |-> 1]),
    Unlocked1([prepare |-> 1, minutes |-> 1, plan |-> 1, fault |-> 1, retry |-> 1]),
    Unlocked1([prepare |-> 1, minutes |-> 2, fault |-> 1]),
    Unlocked1([agenda |-> 1, manage |-> 2, leave |-> 1]),
    Unlocked1([agenda |-> 1, manage |-> 1, plan |-> 1, lose |-> 1]),
    Unlocked1([agenda |-> 1, manage |-> 1, fault |-> 1]),
    Locked1([agenda |-> 1, manage |-> 2, revoke |-> 1])}

\* A membership Topic's fields, as they are typed in and changed elsewhere.
CardStarts == {
    Unlocked1([agenda |-> 1, edit |-> 1, retype |-> 1]),
    Unlocked1([agenda |-> 1, edit |-> 1, save |-> 1, fault |-> 1, retry |-> 1]),
    Unlocked1([agenda |-> 1, change |-> 2]),
    Unlocked1([agenda |-> 1, change |-> 1, retype |-> 1])}

\* The user's mentions, and an installation that is not set up.
MentionStarts == {
    Unlocked1([mentions |-> 1, edit |-> 1, save |-> 2, lose |-> 1, change |-> 1, resolve |-> 1]),
    Unlocked1([mentions |-> 1, edit |-> 1, save |-> 1, change |-> 1, fault |-> 1, retry |-> 1,
               resolve |-> 1]),
    Unlocked1([mentions |-> 2, edit |-> 1, save |-> 1, lock |-> 1, leave |-> 1, revoke |-> 1])}

SetupStarts == {
    Start(FALSE, FALSE, TRUE, [setup |-> 2, leave |-> 1, lose |-> 1]),
    Start(FALSE, FALSE, TRUE, [setup |-> 2, edit |-> 1, fault |-> 1])}

\* The settings of the external sign-in.
SettingsStarts == {
    Unlocked1([settings |-> 1, edit |-> 2, save |-> 1, change |-> 1]),
    Unlocked1([settings |-> 1, edit |-> 1, save |-> 1, change |-> 1, lose |-> 1]),
    Unlocked1([settings |-> 1, change |-> 2, confirm |-> 1, save |-> 1, lose |-> 1]),
    Unlocked1([settings |-> 1, change |-> 1, confirm |-> 1, save |-> 1, others |-> 1]),
    Locked1([settings |-> 2, change |-> 1, save |-> 1, leave |-> 1]),
    Locked1([settings |-> 1, edit |-> 1, save |-> 1, change |-> 1, revoke |-> 1])}

MCStarts == MeetingStarts \cup KeyStarts \cup RecoveryStarts \cup ApprovalStarts
            \cup AgendaStarts \cup CardStarts \cup MentionStarts \cup SetupStarts
            \cup SettingsStarts
=============================================================================
