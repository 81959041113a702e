------------------------------ MODULE KeyVault ------------------------------
(***************************************************************************)
(* What the organization's envelopes open, as the browser makes and opens  *)
(* them (crypto.ts): the shared passphrase and the recovery secret each    *)
(* open a slot with the root key, the root key opens the wrappers of the   *)
(* content keys.  A key is known by its identifier; an envelope is a pair  *)
(* of what opens it and what is inside, and opens with nothing else.       *)
(*                                                                         *)
(* VaultSpec says what a key ceremony amounts to: two operators type the   *)
(* secrets, the first one's browser makes a candidate, the second one's    *)
(* verifies it, the server checks and installs it.  RecoveryPage shows     *)
(* that the many steps of the page do no more than that.                   *)
(***************************************************************************)
EXTENDS Naturals, FiniteSets

CONSTANTS RootKeys, ContentKeys,
          Passphrases, RecoverySecrets,
          NoSecret   \* what a form does not ask for

ASSUME SecretsAreTyped ==
    NoSecret \notin Passphrases \cup RecoverySecrets

VARIABLES vault,  \* e2ee_key_state, and e2ee_content_key_wrappers as pairs
          used,   \* history: content keys that content may be encrypted with
          known   \* history: the secrets that the operators went away with

vaultVars == <<vault, used, known>>
-----------------------------------------------------------------------------
Slot(secrets) == [secret : secrets, root : RootKeys]

Vault == [generation : Nat, root : RootKeys, content : ContentKeys,
          shared : Slot(Passphrases), recovery : Slot(RecoverySecrets),
          wrappers : SUBSET (RootKeys \X ContentKeys)]

\* What happened, and what is to be done about it.
Situations == {"lost_passphrase", "change_passphrase", "replace_recovery_secret",
               "rotate_root_key", "disclosed_passphrase", "disclosed_key"}

\* The secrets that the forms of a situation ask for; a new recovery secret is
\* made by the first operator's browser, and typed by the second.
Asks(situation) ==
    CASE situation = "lost_passphrase" -> {"recovery", "newPassphrase"}
      [] situation = "change_passphrase" -> {"passphrase", "newPassphrase"}
      [] situation = "replace_recovery_secret" -> {"passphrase", "newRecovery"}
      [] situation = "rotate_root_key" -> {"passphrase", "recovery"}
      [] situation = "disclosed_passphrase" ->
            {"recovery", "newPassphrase", "newRecovery"}
      [] OTHER -> {"passphrase", "newPassphrase", "newRecovery"}

RotatesContent(situation) == situation \in {"disclosed_passphrase", "disclosed_key"}
RotatesRoot(situation) == RotatesContent(situation) \/ situation = "rotate_root_key"

Typed == [passphrase : Passphrases \cup {NoSecret},
          recovery : RecoverySecrets \cup {NoSecret},
          newPassphrase : Passphrases \cup {NoSecret},
          newRecovery : RecoverySecrets \cup {NoSecret}]

TypedFor(situation) ==
    LET asked(field, secrets) == IF field \in Asks(situation) THEN secrets ELSE {NoSecret}
    IN [passphrase : asked("passphrase", Passphrases),
        recovery : asked("recovery", RecoverySecrets),
        newPassphrase : asked("newPassphrase", Passphrases),
        newRecovery : asked("newRecovery", RecoverySecrets)]
-----------------------------------------------------------------------------
(* Opening *)

\* The content keys the server serves wrappers of: those under the present root
\* key, and the present one.
Wrapped(v) == {k \in ContentKeys : <<v.root, k>> \in v.wrappers} \cup {v.content}

PassphraseOpens(v, passphrase) == v.shared = [secret |-> passphrase, root |-> v.root]
RecoveryOpens(v, secret) == v.recovery = [secret |-> secret, root |-> v.root]

\* The recovery secret is only used where no passphrase is asked for.
Opens(v, situation, typed) ==
    IF "passphrase" \in Asks(situation) THEN PassphraseOpens(v, typed.passphrase)
    ELSE RecoveryOpens(v, typed.recovery)

\* Unlocking with the recovery secret gives no key but the present one.
ReadableIn(v, situation) ==
    IF "passphrase" \in Asks(situation) THEN Wrapped(v) ELSE {v.content}

\* What an unlocked browser can decrypt content with.
ReadableWith(v, passphrase) == IF PassphraseOpens(v, passphrase) THEN Wrapped(v) ELSE {}
-----------------------------------------------------------------------------
(* A candidate *)

\* A new root key must wrap every key again, and so every key must be readable.
CanCreate(v, situation, typed) ==
    /\ Opens(v, situation, typed)
    /\ RotatesRoot(situation) => Wrapped(v) \subseteq ReadableIn(v, situation)

\* The passphrase the candidate's slot is made for.
CandidatePassphrase(situation, typed) ==
    IF "newPassphrase" \in Asks(situation) THEN typed.newPassphrase ELSE typed.passphrase

\* From what the first operator typed, and the keys and the secret that are new.
Candidate(v, situation, typed, new) ==
    LET root == IF RotatesRoot(situation) THEN new.root ELSE v.root
        content == IF RotatesContent(situation) THEN new.content ELSE v.content
    IN [root |-> root, content |-> content,
        shared |-> IF situation = "replace_recovery_secret" THEN v.shared
                   ELSE [secret |-> CandidatePassphrase(situation, typed), root |-> root],
        recovery |-> IF "newRecovery" \in Asks(situation)
                     THEN [secret |-> new.recovery, root |-> root]
                     ELSE IF situation = "rotate_root_key"
                     THEN [secret |-> typed.recovery, root |-> root] ELSE v.recovery,
        history |-> IF RotatesRoot(situation) THEN Wrapped(v) \ {content} ELSE {}]

\* What the server checks of a candidate it cannot open.
RequiredHistory(v, candidate) ==
    ({k \in ContentKeys : <<v.root, k>> \in v.wrappers} \cup {v.content})
        \ {candidate.content}

CandidateAccepted(v, situation, candidate) ==
    /\ candidate.shared.root = candidate.root
    /\ candidate.recovery.root = candidate.root
    /\ (candidate.root # v.root) = RotatesRoot(situation)
    /\ (candidate.content # v.content) = RotatesContent(situation)
    /\ candidate.root # v.root => candidate.history = RequiredHistory(v, candidate)

\* The second operator's browser opens the present state and the candidate, with
\* what that operator typed.
CandidateVerified(v, situation, candidate, typed) ==
    LET recovery == IF "newRecovery" \in Asks(situation) THEN typed.newRecovery
                    ELSE typed.recovery
    IN /\ Opens(v, situation, typed)
       /\ PassphraseOpens(candidate, CandidatePassphrase(situation, typed))
       /\ recovery # NoSecret => RecoveryOpens(candidate, recovery)
       /\ IF RotatesContent(situation) THEN v.content \in candidate.history
          ELSE candidate.content = v.content
       /\ ~RotatesRoot(situation) => candidate.root = v.root

\* Mutant: only the wrapper of the present content key is stored.
InstalledPresent(v, candidate) ==
    [generation |-> v.generation + 1, root |-> candidate.root,
     content |-> candidate.content, shared |-> candidate.shared, recovery |-> candidate.recovery,
     wrappers |-> v.wrappers \cup {<<candidate.root, candidate.content>>}]

\* Activation: nothing is ever unwrapped.
Installed(v, candidate) ==
    [generation |-> v.generation + 1, root |-> candidate.root,
     content |-> candidate.content, shared |-> candidate.shared, recovery |-> candidate.recovery,
     wrappers |-> IF candidate.root = v.root /\ candidate.content = v.content
                  THEN v.wrappers
                  ELSE v.wrappers \cup
                       {<<candidate.root, k>> : k \in candidate.history \cup {candidate.content}}]

\* What the second operator typed is what both know.
Remembered(situation, typed) ==
    [passphrase |-> IF "newPassphrase" \in Asks(situation) THEN typed.newPassphrase
                    ELSE known.passphrase,
     recovery |-> IF "newRecovery" \in Asks(situation) THEN typed.newRecovery
                  ELSE known.recovery]
-----------------------------------------------------------------------------
(* A ceremony as one step *)

FirstVault(root, content, secrets) ==
    [generation |-> 1, root |-> root, content |-> content,
     shared |-> [secret |-> secrets.passphrase, root |-> root],
     recovery |-> [secret |-> secrets.recovery, root |-> root], wrappers |-> {}]

KnownSecrets == [passphrase : Passphrases, recovery : RecoverySecrets]

VaultInit ==
    /\ known \in KnownSecrets
    /\ \E root \in RootKeys, content \in ContentKeys :
           /\ vault = FirstVault(root, content, known)
           /\ used = {content}

UnusedRoots == {r \in RootKeys : r # vault.root /\ \A k \in ContentKeys :
                                     <<r, k>> \notin vault.wrappers}

\* Keys and secrets that are drawn at random were never there before.
NewKeys == [root : UnusedRoots, content : ContentKeys \ used, recovery : RecoverySecrets]

\* Both operators type the recovery secret that is in custody when the root key
\* is rotated: nothing in the code compares it with the present slot.
CustodyIsTyped(situation, typed) ==
    situation = "rotate_root_key" => typed.recovery = known.recovery

Ceremony(situation, typed, new, confirmed) ==
    LET candidate == Candidate(vault, situation, typed, new)
    IN /\ CanCreate(vault, situation, typed)
       /\ CandidateAccepted(vault, situation, candidate)
       /\ CustodyIsTyped(situation, confirmed)
       /\ CandidateVerified(vault, situation, candidate, confirmed)
       /\ vault' = Installed(vault, candidate)
       /\ used' = used \cup {candidate.content}
       /\ known' = Remembered(situation, confirmed)

VaultNext ==
    /\ vault'.generation = vault.generation + 1
    /\ \E situation \in Situations :
        \E typed \in TypedFor(situation), confirmed \in TypedFor(situation) :
            \E new \in NewKeys : Ceremony(situation, typed, new, confirmed)

VaultSpec == VaultInit /\ [][VaultNext]_vaultVars
-----------------------------------------------------------------------------
(* Properties *)

\* Whoever knows the shared passphrase can decrypt whatever was ever encrypted,
\* however many passphrases, secrets and keys were replaced.
EverythingReadable == used \subseteq ReadableWith(vault, known.passphrase)

\* The secrets that operators agreed on in the last ceremonies open the slots:
\* nobody is left with a passphrase or a paper that opens nothing.
KnownSecretsOpen ==
    /\ PassphraseOpens(vault, known.passphrase)
    /\ RecoveryOpens(vault, known.recovery)

\* Both: no ceremony and no sequence of them locks the organization out of what
\* it wrote.
KeysAreKept == EverythingReadable /\ KnownSecretsOpen
=============================================================================
