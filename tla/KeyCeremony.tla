----------------------------- MODULE KeyCeremony ----------------------------
(***************************************************************************)
(* The organization's key state and the ceremonies that change it: one     *)
(* operator proposes a candidate, a second one who saw the same candidate  *)
(* approves it, and either activates it while both are present.            *)
(*                                                                         *)
(* Keys are identifiers.  A slot is the envelope that wraps a root key for *)
(* the shared passphrase or for the recovery secret; the wrapper of a      *)
(* content key under a root key is the pair of the two.  The server sees   *)
(* the identifiers inside an envelope and compares envelopes; it cannot    *)
(* open one.  A handler is the guard, which loads the account, and later   *)
(* one transaction.                                                        *)
(***************************************************************************)
EXTENDS Accounts, Sequences

CONSTANTS Ceremonies,   \* identifiers, never given twice
          Keys          \* root keys and content keys are numbered 1 .. Keys

ASSUME KeysAreNumbered == Keys \in Nat \ {0}

VARIABLES keyState,     \* the row of e2ee_key_state
          wrapper,      \* e2ee_content_key_wrappers: pairs of root and content
          ceremony,     \* e2ee_recovery_ceremonies
          audit,        \* e2ee_audit_events of activations
          contentKeys,  \* history: content keys that were ever current
          proposed      \* history: what each ceremony's operators confirmed

ceremonyVars == <<keyState, wrapper, ceremony, audit, contentKeys, proposed>>
-----------------------------------------------------------------------------
\* The reasons an operation may be started for; grace is whether they are
\* routine: epochs may still finish writing for a week after it.
OperationReasons ==
    {[operation |-> o, grace |-> FALSE] :
        o \in {"lost_passphrase", "replace_recovery_secret",
               "rotate_root_and_content_key"}}
    \cup {[operation |-> o, grace |-> TRUE] :
        o \in {"change_passphrase", "replace_recovery_secret",
               "rotate_root_key"}}

KeyOperator(role) == ContentRole(role)

\* Slots are told apart by the ceremony they were made in.
Slot == [wraps : 1 .. Keys, made : Ceremonies \cup {Nobody}]

\* changed is whether the wrapper is another envelope than the stored one,
\* history the earlier content keys it is wrapped for again.
Candidate == [ork : 1 .. Keys, ock : 1 .. Keys, shared : Slot,
              recovery : Slot, changed : BOOLEAN,
              history : SUBSET (1 .. Keys), copies : {0, 2}]

Operator == [user : Users \cup {Nobody}, session : Sessions \cup {Nobody},
             version : Nat, present : BOOLEAN]
NoOperator == [user |-> Nobody, session |-> Nobody, version |-> 0,
               present |-> FALSE]

FirstSlot == [wraps |-> 1, made |-> Nobody]
FirstKeys == [generation |-> 1, ork |-> 1, ock |-> 1, shared |-> FirstSlot,
              recovery |-> FirstSlot]

\* After one rotation of both keys by a ceremony that is no longer looked at.
RotatedKeys ==
    LET slot == [wraps |-> 2, made |-> Nobody] IN
    [generation |-> 2, ork |-> 2, ock |-> 2, shared |-> slot,
     recovery |-> slot]

ASSUME StartingKeys ==
    \A start \in Starts :
        /\ start.keys \in {FirstKeys, RotatedKeys}
        /\ (start.keys = RotatedKeys => Keys > 1)

CandidateOf(keys) == [ork |-> keys.ork, ock |-> keys.ock,
                      shared |-> keys.shared, recovery |-> keys.recovery,
                      changed |-> FALSE, history |-> {}, copies |-> 0]

NoCeremony == [state |-> "none", expired |-> FALSE, operation |-> "none",
               grace |-> FALSE, generation |-> 0,
               candidate |-> CandidateOf(FirstKeys),
               initiator |-> NoOperator, approver |-> NoOperator]

\* Awaiting its approval or its activation, whether expired or not.
Open(c) == ceremony[c].state \in {"pending", "ready"}

\* The sessions of an open, unexpired ceremony are refused everything else.
ReservedBy(ceremonies) ==
    {s \in Sessions : \E c \in Ceremonies :
        LET row == ceremonies[c] IN
        /\ row.state \in {"pending", "ready"}
        /\ ~row.expired
        /\ s \in {row.initiator.session, row.approver.session}}

SetCeremony(c, row) ==
    /\ ceremony' = [ceremony EXCEPT ![c] = row]
    /\ reserved' = ReservedBy(ceremony')

CeremonyOperations == {"ceremony", "lapse"}

KeyInit(start) ==
    /\ keyState = start.keys
    /\ contentKeys = 1 .. keyState.ock
    /\ wrapper = IF keyState = FirstKeys THEN {}
                 ELSE {keyState.ork} \X contentKeys
    /\ ceremony = [c \in Ceremonies |-> NoCeremony]
    /\ audit = <<>>
    /\ proposed = [c \in Ceremonies |-> {}]

KeyTypeOK ==
    /\ keyState.generation \in Nat /\ keyState.ork \in 1 .. Keys
    /\ keyState.ock \in 1 .. Keys
    /\ wrapper \subseteq (1 .. Keys) \X (1 .. Keys)
    /\ \A c \in Ceremonies :
           /\ ceremony[c].candidate \in Candidate
           /\ {ceremony[c].initiator, ceremony[c].approver} \subseteq Operator
    /\ contentKeys \subseteq 1 .. Keys
-----------------------------------------------------------------------------
\* The guard's answer, and the account the handler goes on with.  Activation
\* alone accepts a session whose version was revoked.
BeginCeremonyCall(r, s) ==
    LET u == session[s].user IN
    /\ request[r] = Idle
    /\ Spend("ceremony")
    /\ \/ /\ CanActivate(s)
          /\ Await(r, "ceremony", u, s)
       \/ /\ u # Nobody
          /\ ~session[s].expired
          /\ Active(u)
          /\ Await(r, "activate", u, s)
    /\ KeyOperator(account[u].role)
    /\ UNCHANGED <<account, custodian, session, epoch, reserved, issued,
                   founded, revoked, overwritten, ceremonyVars>>

Caller(r) == [user |-> request[r].user, session |-> request[r].session,
              version |-> request[r].row.version, present |-> TRUE]

Refuse(r) ==
    /\ request[r].kind \in {"ceremony", "activate"}
    /\ Return(r)
    /\ UNCHANGED <<account, custodian, session, epoch, reserved, left, issued,
                   founded, revoked, overwritten, ceremonyVars>>

\* What the tables about e2ee keys refer to cannot be deleted.
Participants == {ceremony[c].initiator.user : c \in Ceremonies}
                    \cup {ceremony[c].approver.user : c \in Ceremonies}
-----------------------------------------------------------------------------
\* The content keys a candidate with a new root must wrap again: those kept
\* under the present root, and the present one if it is replaced.
RequiredHistory(candidate) ==
    ({k \in 1 .. Keys : <<keyState.ork, k>> \in wrapper}
        \cup {keyState.ock}) \ {candidate.ock}

HistoryComplete(candidate) ==
    candidate.ork # keyState.ork =>
        candidate.history = RequiredHistory(candidate)

\* What each operation replaces and what it must leave as it is.
OperationMatches(operation, candidate) ==
    LET sameRoot == candidate.ork = keyState.ork
        sameContent == candidate.ock = keyState.ock
        sameShared == candidate.shared = keyState.shared
        sameRecovery == candidate.recovery = keyState.recovery
        sameWrapper == ~candidate.changed
    IN
    \/ /\ operation \in {"lost_passphrase", "change_passphrase"}
       /\ sameRoot /\ sameContent /\ ~sameShared /\ sameRecovery /\ sameWrapper
       /\ candidate.copies = 0
    \/ /\ operation = "replace_recovery_secret"
       /\ sameRoot /\ sameContent /\ sameShared /\ ~sameRecovery /\ sameWrapper
       /\ candidate.copies = 2
    \/ /\ operation = "rotate_root_key"
       /\ ~sameRoot /\ sameContent /\ ~sameShared /\ ~sameRecovery
       /\ ~sameWrapper
       /\ candidate.copies = 0
    \/ /\ operation = "rotate_root_and_content_key"
       /\ ~sameRoot /\ ~sameContent /\ ~sameShared /\ ~sameRecovery
       /\ ~sameWrapper
       /\ keyState.ock \in candidate.history
       /\ candidate.copies = 2

\* Slots wrap the candidate's root, and no earlier key is the candidate's own.
ContextMatches(candidate) ==
    /\ candidate.shared.wraps = candidate.ork
    /\ candidate.recovery.wraps = candidate.ork
    /\ candidate.ock \notin candidate.history

CandidateValid(operation, candidate) ==
    /\ ContextMatches(candidate)
    /\ OperationMatches(operation, candidate)
    /\ HistoryComplete(candidate)

\* What a browser can put together: parts it keeps, and parts it made.
Proposals(c) ==
    LET slot(made, kept, k) == IF made THEN [wraps |-> k, made |-> c] ELSE kept
        parts == [ork : {keyState.ork, keyState.ork + 1} \cap (1 .. Keys),
                  ock : {keyState.ock, keyState.ock + 1} \cap (1 .. Keys),
                  shared : BOOLEAN, recovery : BOOLEAN, changed : BOOLEAN,
                  history : {{}, {keyState.ock}, contentKeys},
                  copies : {0, 2}]
    IN  {[p EXCEPT !.shared = slot(p.shared, keyState.shared, p.ork),
                   !.recovery = slot(p.recovery, keyState.recovery, p.ork)] :
             p \in parts}

\* Under the advisory lock: no other open ceremony; one that expired is
\* aborted on the way.  Nothing is written for an account that was deleted
\* since the guard loaded it: its row is what initiator_id refers to.
Superseded ==
    [d \in Ceremonies |-> IF Open(d) THEN [ceremony[d] EXCEPT
                                              !.state = "aborted"]
                          ELSE ceremony[d]]

Begin(r, c, reason, candidate) ==
    /\ request[r].kind = "ceremony"
    /\ Exists(request[r].user)
    /\ ceremony[c].state = "none"
    /\ \A d \in Ceremonies : Open(d) => ceremony[d].expired
    /\ ceremony' = [Superseded EXCEPT
          ![c] = [state |-> "pending", expired |-> FALSE,
                  operation |-> reason.operation, grace |-> reason.grace,
                  generation |-> keyState.generation,
                  candidate |-> candidate, initiator |-> Caller(r),
                  approver |-> NoOperator]]
    /\ reserved' = ReservedBy(ceremony')
    /\ proposed' = [proposed EXCEPT ![c] = {<<request[r].user, candidate>>}]
    /\ Return(r)
    /\ UNCHANGED <<account, custodian, session, epoch, left, issued, founded,
                   revoked, overwritten, keyState, wrapper, audit,
                   contentKeys>>

\* A lost passphrase: only the shared slot is new, the rest is the state's.
StartRecovery(r, c) ==
    Begin(r, c, [operation |-> "lost_passphrase", grace |-> FALSE],
          [CandidateOf(keyState) EXCEPT
              !.shared = [wraps |-> keyState.ork, made |-> c]])

StartKeyCeremony(r, c, reason) ==
    /\ request[r].kind = "ceremony"
    /\ ceremony[c].state = "none"
    /\ \E candidate \in Proposals(c) :
          /\ CandidateValid(reason.operation, candidate)
          /\ Begin(r, c, reason, candidate)
-----------------------------------------------------------------------------
\* Archived, another role or another session version: no longer an operator.
Eligible(operator) ==
    /\ Active(operator.user)
    /\ KeyOperator(account[operator.user].role)
    /\ account[operator.user].version = operator.version

\* Mutant: the proposer may approve as well.
CanApproveAlone(r, c) ==
    /\ request[r].kind = "ceremony"
    /\ ceremony[c].state = "pending"
    /\ ~ceremony[c].expired
    /\ Eligible(ceremony[c].initiator)

CanApprove(r, c) ==
    /\ request[r].kind = "ceremony"
    /\ ceremony[c].state = "pending"
    /\ ~ceremony[c].expired
    /\ ceremony[c].initiator.user # request[r].user
    /\ Eligible(ceremony[c].initiator)

\* The second operator's browser derived the same fingerprint; approver_id
\* refers to the operator's account.
ApproveRecovery(r, c) ==
    /\ CanApprove(r, c)
    /\ Exists(request[r].user)
    /\ SetCeremony(c, [ceremony[c] EXCEPT !.state = "ready",
                                          !.approver = Caller(r)])
    /\ proposed' = [proposed EXCEPT
          ![c] = @ \cup {<<request[r].user, ceremony[c].candidate>>}]
    /\ Return(r)
    /\ UNCHANGED <<account, custodian, session, epoch, left, issued, founded,
                   revoked, overwritten, keyState, wrapper, audit,
                   contentKeys>>

Bound(r, c) ==
    \E operator \in {ceremony[c].initiator, ceremony[c].approver} :
        /\ operator.user = request[r].user
        /\ operator.session = request[r].session

CanActivateCeremony(r, c) ==
    /\ request[r].kind = "activate"
    /\ ceremony[c].state = "ready"
    /\ ~ceremony[c].expired
    /\ Bound(r, c)
    /\ Eligible(ceremony[c].initiator)
    /\ Eligible(ceremony[c].approver)
    /\ ceremony[c].initiator.present
    /\ ceremony[c].approver.present
    /\ ceremony[c].generation = keyState.generation

\* Wrappers under the candidate's root; nothing is deleted.
WrappersWith(candidate) ==
    IF candidate.ork = keyState.ork /\ candidate.ock = keyState.ock
    THEN wrapper
    ELSE wrapper \cup {<<candidate.ork, k>> :
                          k \in candidate.history \cup {candidate.ock}}

\* Mutant: the sessions that were signed in stay valid.
NoSessionRevoked ==
    /\ account' = account
    /\ revoked' = [u \in Users |-> revoked[u] + 1]

\* UPDATE users SET session_version = session_version + 1.
EverySessionRevoked ==
    /\ account' = [u \in Users |-> IF Exists(u)
                                   THEN [account[u] EXCEPT !.version = @ + 1]
                                   ELSE account[u]]
    /\ revoked' = [u \in Users |-> revoked[u] + 1]

EveryEpochRevoked(grace) ==
    epoch' = [s \in Sessions |->
                 IF epoch[s] # "active" THEN epoch[s]
                 ELSE IF grace THEN "grace" ELSE "revoked"]

\* The compare and swap of the key state and all it brings with it.
ActivateRecovery(r, c) ==
    LET row == ceremony[c]
        new == row.candidate
    IN
    /\ CanActivateCeremony(r, c)
    /\ keyState' = [generation |-> keyState.generation + 1, ork |-> new.ork,
                    ock |-> new.ock, shared |-> new.shared,
                    recovery |-> new.recovery]
    /\ custodian' = IF new.copies = 2 THEN row.initiator.user ELSE custodian
    /\ wrapper' = WrappersWith(new)
    /\ contentKeys' = contentKeys \cup {new.ock}
    /\ EverySessionRevoked
    /\ EveryEpochRevoked(row.grace)
    /\ SetCeremony(c, [row EXCEPT !.state = "activated"])
    /\ audit' = Append(audit,
          [ceremony |-> c, generation |-> keyState.generation + 1,
           actors |-> {row.initiator.user, row.approver.user}])
    /\ Return(r)
    /\ UNCHANGED <<session, left, issued, founded, overwritten, proposed>>

\* An operator was archived, demoted or signed out everywhere since: the abort
\* is saved in the transaction that the exception then rolls back.
RefuseIneligible(r, c) ==
    /\ request[r].kind = "activate"
    /\ ceremony[c].state = "ready"
    /\ ~ceremony[c].expired
    /\ Bound(r, c)
    /\ ~(Eligible(ceremony[c].initiator) /\ Eligible(ceremony[c].approver))
    /\ Return(r)
    /\ UNCHANGED <<account, custodian, session, epoch, reserved, left, issued,
                   founded, revoked, overwritten, ceremonyVars>>

\* A participant aborts, whether the ceremony expired or not.
AbortRecovery(r, c) ==
    /\ request[r].kind = "ceremony"
    /\ Open(c)
    /\ Bound(r, c)
    /\ SetCeremony(c, [ceremony[c] EXCEPT !.state = "aborted"])
    /\ Return(r)
    /\ UNCHANGED <<account, custodian, session, epoch, left, issued, founded,
                   revoked, overwritten, keyState, wrapper, audit,
                   contentKeys, proposed>>

ConfirmPresence(r, c) ==
    LET is(operator) == /\ operator.user = request[r].user
                        /\ operator.session = request[r].session
    IN
    /\ request[r].kind = "ceremony"
    /\ Open(c)
    /\ ~ceremony[c].expired
    /\ Bound(r, c)
    /\ SetCeremony(c, IF is(ceremony[c].initiator)
                      THEN [ceremony[c] EXCEPT !.initiator.present = TRUE]
                      ELSE [ceremony[c] EXCEPT !.approver.present = TRUE])
    /\ Return(r)
    /\ UNCHANGED <<account, custodian, session, epoch, left, issued, founded,
                   revoked, overwritten, keyState, wrapper, audit,
                   contentKeys, proposed>>

\* Time: a confirmation is too old after half a minute, a ceremony after half
\* an hour, the week of grace ends.
PresenceLapses(c) ==
    /\ Open(c)
    /\ Spend("lapse")
    /\ \/ SetCeremony(c, [ceremony[c] EXCEPT !.initiator.present = FALSE])
       \/ SetCeremony(c, [ceremony[c] EXCEPT !.approver.present = FALSE])
    /\ UNCHANGED <<account, custodian, session, epoch, request, issued,
                   founded, revoked, overwritten, keyState, wrapper, audit,
                   contentKeys, proposed>>

CeremonyExpires(c) ==
    /\ Open(c)
    /\ ~ceremony[c].expired
    /\ Spend("lapse")
    /\ SetCeremony(c, [ceremony[c] EXCEPT !.expired = TRUE])
    /\ UNCHANGED <<account, custodian, session, epoch, request, issued,
                   founded, revoked, overwritten, keyState, wrapper, audit,
                   contentKeys, proposed>>

GraceEnds ==
    /\ \E s \in Sessions : epoch[s] = "grace"
    /\ epoch' = [s \in Sessions |-> IF epoch[s] = "grace" THEN "revoked"
                                    ELSE epoch[s]]
    /\ UNCHANGED <<account, custodian, session, reserved, request, left,
                   issued, founded, revoked, overwritten, ceremonyVars>>

CeremonyNext ==
    \/ \E r \in Requests :
          \/ \E s \in Sessions : BeginCeremonyCall(r, s)
          \/ Refuse(r)
          \/ \E c \in Ceremonies :
                \/ StartRecovery(r, c)
                \/ \E reason \in OperationReasons :
                      StartKeyCeremony(r, c, reason)
                \/ ApproveRecovery(r, c)
                \/ ActivateRecovery(r, c)
                \/ RefuseIneligible(r, c)
                \/ AbortRecovery(r, c)
                \/ ConfirmPresence(r, c)
    \/ \E c \in Ceremonies : PresenceLapses(c) \/ CeremonyExpires(c)
    \/ GraceEnds
-----------------------------------------------------------------------------
\* What was ever encrypted stays readable: both slots open the present root
\* key, and under it there is a wrapper of every content key that was ever
\* the present one, however many rotations followed.
KeysStayReachable ==
    /\ keyState.shared.wraps = keyState.ork
    /\ keyState.recovery.wraps = keyState.ork
    /\ \A k \in contentKeys :
           k = keyState.ock \/ <<keyState.ork, k>> \in wrapper

\* Every generation of the key state is one activation by two different
\* people who confirmed the very candidate that was activated.
TwoOperatorsPerGeneration ==
    /\ \A i \in 1 .. Len(audit) :
           LET c == audit[i].ceremony IN
           /\ audit[i].generation = keyState.generation + i - Len(audit)
           /\ Cardinality(audit[i].actors) = 2
           /\ \A u \in audit[i].actors :
                  <<u, ceremony[c].candidate>> \in proposed[c]

\* A generation is the work of two people, and whatever it replaced can still be
\* read in it.
GenerationsAreSound == TwoOperatorsPerGeneration /\ KeysStayReachable
=============================================================================
