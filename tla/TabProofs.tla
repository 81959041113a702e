----------------------------- MODULE TabProofs -----------------------------
(***************************************************************************)
(* What a browser tab keeps to, for any number of secrets, keys, epochs    *)
(* and ceremonies: which epochs it holds, what a Meeting's workspace may   *)
(* show and await, what the page for key ceremonies knows of a ceremony    *)
(* (TabInv), and what the ceremonies keep to whoever else takes part       *)
(* (RecoveryInv).  The steps of ProtectedText, MeetingWorkspace and        *)
(* RecoveryPage are taken one by one; BrowserProofs adds those of the      *)
(* other views.                                                            *)
(***************************************************************************)
EXTENDS MeetingWorkspace, RecoveryPage, TLAPS
-----------------------------------------------------------------------------
(* KeyVault: the slots hold the known secrets and the present root key, and   *)
(* what was ever used is among the keys wrapped for that root.  A step either *)
(* leaves the root and the wrappers as they are (KeepsRoot), or wraps all of  *)
(* them again for a new root (ReplacesRoot); that the secrets still fit       *)
(* follows from what the second operator's browser verified.                  *)

VaultTypeOK ==
    /\ vault \in Vault
    /\ used \subseteq ContentKeys
    /\ known \in KnownSecrets

VaultInv ==
    /\ VaultTypeOK
    /\ KnownSecretsOpen
    /\ used \subseteq Wrapped(vault)

-----------------------------------------------------------------------------
\* Whatever situation it is, rotating content means rotating the root.
LEMMA SituationAsks ==
    ASSUME NEW situation \in Situations
    PROVE  /\ RotatesContent(situation) => RotatesRoot(situation)
           /\ "passphrase" \in Asks(situation) \/ "newPassphrase" \in Asks(situation)
           /\ "newRecovery" \notin Asks(situation) /\ situation # "rotate_root_key"
                 => ~RotatesRoot(situation)
           /\ situation = "rotate_root_key" => "recovery" \in Asks(situation)
           /\ situation = "rotate_root_key" => "newRecovery" \notin Asks(situation)
  BY DEF Situations, RotatesContent, RotatesRoot, Asks

\* What a form asks for is a secret.
LEMMA AskedSecrets ==
    ASSUME NEW situation \in Situations, NEW typed \in TypedFor(situation)
    PROVE  /\ "passphrase" \in Asks(situation) => typed.passphrase \in Passphrases
           /\ "recovery" \in Asks(situation) => typed.recovery \in RecoverySecrets
           /\ "newPassphrase" \in Asks(situation) => typed.newPassphrase \in Passphrases
           /\ "newRecovery" \in Asks(situation) => typed.newRecovery \in RecoverySecrets
  BY DEF TypedFor

\* A ceremony that keeps the root key keeps every wrapper.
LEMMA KeepsRoot ==
    ASSUME NEW situation \in Situations, NEW typed, NEW new, NEW confirmed,
           Ceremony(situation, typed, new, confirmed),
           ~RotatesRoot(situation)
    PROVE  /\ vault'.root = vault.root /\ vault'.content = vault.content
           /\ vault'.wrappers = vault.wrappers
           /\ used' = used \cup {vault.content}
  BY SituationAsks DEF Ceremony, Candidate, Installed

\* One that replaces it wraps every readable key again.
LEMMA ReplacesRoot ==
    ASSUME NEW situation \in Situations, NEW typed, NEW new, NEW confirmed,
           Ceremony(situation, typed, new, confirmed),
           RotatesRoot(situation), vault.content \in ContentKeys,
           vault'.content \in ContentKeys
    PROVE  /\ used' = used \cup {vault'.content}
           /\ Wrapped(vault) \cup {vault'.content} \subseteq Wrapped(vault')
<1> DEFINE candidate == Candidate(vault, situation, typed, new)
<1>1. /\ vault' = Installed(vault, candidate)
      /\ used' = used \cup {candidate.content}
      /\ CandidateAccepted(vault, situation, candidate)
  BY DEF Ceremony
<1> HIDE DEF candidate
<1>2. candidate.root # vault.root
  BY <1>1 DEF CandidateAccepted
<1>3. candidate.history = RequiredHistory(vault, candidate)
  BY <1>1, <1>2 DEF CandidateAccepted
<1>4. /\ vault'.root = candidate.root /\ vault'.content = candidate.content
      /\ vault'.wrappers = vault.wrappers \cup
            {<<candidate.root, k>> : k \in candidate.history \cup {candidate.content}}
  BY <1>1, <1>2 DEF Installed
<1>5. \A k \in Wrapped(vault) \cup {vault'.content} :
         k \in candidate.history \cup {candidate.content}
  BY <1>3, <1>4 DEF Wrapped, RequiredHistory
<1>6. \A k \in Wrapped(vault) : k \in ContentKeys
  BY DEF Wrapped
<1> QED
  BY <1>1, <1>4, <1>5, <1>6 DEF Wrapped

\* Both slots open with what the operators know once the second one's browser
\* has verified the candidate.
LEMMA SecretsConfirmed ==
    ASSUME NEW situation \in Situations, NEW typed, NEW new,
           NEW confirmed \in TypedFor(situation),
           Ceremony(situation, typed, new, confirmed), KnownSecretsOpen
    PROVE  KnownSecretsOpen'
<1> DEFINE candidate == Candidate(vault, situation, typed, new)
<1>1. /\ vault' = Installed(vault, candidate)
      /\ CandidateVerified(vault, situation, candidate, confirmed)
      /\ CustodyIsTyped(situation, confirmed)
      /\ known' = Remembered(situation, confirmed)
  BY DEF Ceremony
<1>2. /\ vault'.root = candidate.root /\ vault'.shared = candidate.shared
      /\ vault'.recovery = candidate.recovery
  BY <1>1 DEF Installed
<1>3. PassphraseOpens(vault, known.passphrase)'
  <2>1. PassphraseOpens(candidate, CandidatePassphrase(situation, confirmed))
    BY <1>1 DEF CandidateVerified
  <2>2. known'.passphrase = CandidatePassphrase(situation, confirmed)
    <3>1. CASE "newPassphrase" \in Asks(situation)
      BY <1>1, <3>1 DEF Remembered, CandidatePassphrase
    <3>2. CASE "newPassphrase" \notin Asks(situation)
      <4>1. PassphraseOpens(vault, confirmed.passphrase)
        BY <1>1, <3>2, SituationAsks DEF CandidateVerified, Opens
      <4>2. confirmed.passphrase = known.passphrase
        BY <4>1 DEF KnownSecretsOpen, PassphraseOpens
      <4> QED BY <1>1, <3>2, <4>2 DEF Remembered, CandidatePassphrase
    <3> QED BY <3>1, <3>2
  <2> QED BY <1>2, <2>1, <2>2 DEF PassphraseOpens
<1>4. RecoveryOpens(vault, known.recovery)'
  <2>1. CASE "newRecovery" \in Asks(situation)
    <3>1. confirmed.newRecovery # NoSecret
      BY <2>1, AskedSecrets, SecretsAreTyped
    <3>2. RecoveryOpens(candidate, confirmed.newRecovery)
      BY <1>1, <2>1, <3>1 DEF CandidateVerified
    <3>3. known'.recovery = confirmed.newRecovery
      BY <1>1, <2>1 DEF Remembered
    <3> QED BY <1>2, <3>2, <3>3 DEF RecoveryOpens
  <2>2. CASE situation = "rotate_root_key"
    <3>1. confirmed.recovery # NoSecret /\ "newRecovery" \notin Asks(situation)
      BY <2>2, SituationAsks, AskedSecrets, SecretsAreTyped
    <3>2. RecoveryOpens(candidate, confirmed.recovery)
      BY <1>1, <3>1 DEF CandidateVerified
    <3>3. known'.recovery = confirmed.recovery
      BY <1>1, <2>2, <3>1 DEF Remembered, CustodyIsTyped
    <3> QED BY <1>2, <3>2, <3>3 DEF RecoveryOpens
  <2>3. CASE "newRecovery" \notin Asks(situation) /\ situation # "rotate_root_key"
    <3>1. candidate.root = vault.root /\ candidate.recovery = vault.recovery
      BY <2>3, SituationAsks DEF Candidate
    <3>2. known'.recovery = known.recovery
      BY <1>1, <2>3 DEF Remembered
    <3> QED BY <1>2, <3>1, <3>2 DEF KnownSecretsOpen, RecoveryOpens
  <2> QED BY <2>1, <2>2, <2>3
<1> QED BY <1>3, <1>4 DEF KnownSecretsOpen

-----------------------------------------------------------------------------
LEMMA VaultInitInv ==
    VaultInit => VaultInv
<1> SUFFICES ASSUME VaultInit PROVE VaultInv
  OBVIOUS
<1>1. PICK root \in RootKeys, content \in ContentKeys :
          vault = FirstVault(root, content, known) /\ used = {content}
  BY DEF VaultInit
<1>2. known \in KnownSecrets
  BY DEF VaultInit
<1>3. VaultTypeOK
  BY <1>1, <1>2 DEF VaultTypeOK, FirstVault, Vault, Slot, KnownSecrets
<1>4. KnownSecretsOpen
  BY <1>1 DEF KnownSecretsOpen, PassphraseOpens, RecoveryOpens, FirstVault
<1>5. used \subseteq Wrapped(vault)
  BY <1>1 DEF Wrapped, FirstVault
<1> QED BY <1>3, <1>4, <1>5 DEF VaultInv

\* The next state is one of keys and secrets, whatever the operators typed.
LEMMA CeremonyTypes ==
    ASSUME NEW situation \in Situations,
           NEW typed \in TypedFor(situation), NEW new \in NewKeys,
           NEW confirmed \in TypedFor(situation),
           Ceremony(situation, typed, new, confirmed), VaultTypeOK
    PROVE  VaultTypeOK'
<1> DEFINE candidate == Candidate(vault, situation, typed, new)
<1>1. /\ vault' = Installed(vault, candidate)
      /\ used' = used \cup {candidate.content}
      /\ known' = Remembered(situation, confirmed)
  BY DEF Ceremony
<1>2. /\ vault.generation + 1 \in Nat
      /\ vault.root \in RootKeys /\ vault.content \in ContentKeys
      /\ vault.shared \in Slot(Passphrases) /\ vault.recovery \in Slot(RecoverySecrets)
      /\ vault.wrappers \in SUBSET (RootKeys \X ContentKeys)
  BY DEF VaultTypeOK, Vault
<1>3. /\ new.root \in RootKeys /\ new.content \in ContentKeys
      /\ new.recovery \in RecoverySecrets
  BY DEF NewKeys, UnusedRoots
<1>4. candidate.root \in RootKeys /\ candidate.content \in ContentKeys
  BY <1>2, <1>3 DEF Candidate
<1>5. candidate.shared \in Slot(Passphrases)
  <2>1. CASE situation = "replace_recovery_secret"
    <3>1. candidate.shared = vault.shared
      BY <2>1 DEF Candidate
    <3> QED BY <3>1, <1>2
  <2>2. CASE situation # "replace_recovery_secret"
    <3>1. candidate.shared = [secret |-> CandidatePassphrase(situation, typed),
                              root |-> candidate.root]
      BY <2>2 DEF Candidate
    <3>2. CandidatePassphrase(situation, typed) \in Passphrases
      BY SituationAsks, AskedSecrets DEF CandidatePassphrase
    <3> QED BY <3>1, <3>2, <1>4 DEF Slot
  <2> QED BY <2>1, <2>2
<1>6. candidate.recovery \in Slot(RecoverySecrets)
  <2>1. CASE "newRecovery" \in Asks(situation)
    <3>1. candidate.recovery = [secret |-> new.recovery, root |-> candidate.root]
      BY <2>1 DEF Candidate
    <3> QED BY <3>1, <1>3, <1>4 DEF Slot
  <2>2. CASE situation = "rotate_root_key"
    <3>1. candidate.recovery = [secret |-> typed.recovery, root |-> candidate.root]
      BY <2>2, SituationAsks DEF Candidate
    <3>2. typed.recovery \in RecoverySecrets
      BY <2>2, SituationAsks, AskedSecrets
    <3> QED BY <3>1, <3>2, <1>4 DEF Slot
  <2>3. CASE "newRecovery" \notin Asks(situation) /\ situation # "rotate_root_key"
    <3>1. candidate.recovery = vault.recovery
      BY <2>3 DEF Candidate
    <3> QED BY <3>1, <1>2
  <2> QED BY <2>1, <2>2, <2>3
<1>7. candidate.history \subseteq ContentKeys
  BY DEF Candidate, Wrapped, VaultTypeOK, Vault
<1> HIDE DEF candidate
<1>8. vault' \in Vault
  <2> DEFINE wrapped == {<<candidate.root, k>> :
                            k \in candidate.history \cup {candidate.content}}
  <2>1. wrapped \in SUBSET (RootKeys \X ContentKeys)
    BY <1>4, <1>7
  <2>2. Installed(vault, candidate).wrappers \in SUBSET (RootKeys \X ContentKeys)
    BY <1>2, <2>1 DEF Installed
  <2>3. /\ vault'.generation = vault.generation + 1
        /\ vault'.root = candidate.root /\ vault'.content = candidate.content
        /\ vault'.shared = candidate.shared /\ vault'.recovery = candidate.recovery
        /\ vault'.wrappers \in SUBSET (RootKeys \X ContentKeys)
    BY <1>1, <2>2 DEF Installed
  <2>4. vault' = [generation |-> vault'.generation, root |-> vault'.root,
                  content |-> vault'.content, shared |-> vault'.shared,
                  recovery |-> vault'.recovery, wrappers |-> vault'.wrappers]
    BY <1>1 DEF Installed
  <2> QED BY <1>2, <1>4, <1>5, <1>6, <2>3, <2>4 DEF Vault
<1>9. used' \subseteq ContentKeys
  BY <1>1, <1>4 DEF VaultTypeOK
<1>10. known' \in KnownSecrets
  BY <1>1, AskedSecrets DEF Remembered, KnownSecrets, VaultTypeOK
<1> QED BY <1>8, <1>9, <1>10 DEF VaultTypeOK

\* Every content key that was used is wrapped for the root key after a ceremony.
LEMMA CeremonyWraps ==
    ASSUME NEW situation \in Situations, NEW typed, NEW new, NEW confirmed,
           Ceremony(situation, typed, new, confirmed), VaultInv, VaultTypeOK'
    PROVE  (used \subseteq Wrapped(vault))'
<1>1. CASE ~RotatesRoot(situation)
  <2>1. /\ vault'.root = vault.root /\ vault'.content = vault.content
        /\ vault'.wrappers = vault.wrappers
        /\ used' = used \cup {vault.content}
    BY <1>1, KeepsRoot
  <2>2. Wrapped(vault') = Wrapped(vault) /\ vault.content \in Wrapped(vault)
    BY <2>1 DEF Wrapped
  <2> QED BY <2>1, <2>2 DEF VaultInv
<1>2. CASE RotatesRoot(situation)
  <2>1. vault.content \in ContentKeys /\ vault'.content \in ContentKeys
    BY DEF VaultInv, VaultTypeOK, Vault
  <2>2. /\ used' = used \cup {vault'.content}
        /\ Wrapped(vault) \cup {vault'.content} \subseteq Wrapped(vault')
    BY <1>2, <2>1, ReplacesRoot
  <2> QED BY <2>2 DEF VaultInv
<1> QED BY <1>1, <1>2

LEMMA VaultStepInv ==
    VaultInv /\ [VaultNext]_vaultVars => VaultInv'
<1> SUFFICES ASSUME VaultInv, [VaultNext]_vaultVars PROVE VaultInv'
  OBVIOUS
<1>1. CASE VaultNext
  <2>1. PICK situation \in Situations :
            \E typed \in TypedFor(situation), confirmed \in TypedFor(situation) :
                \E new \in NewKeys : Ceremony(situation, typed, new, confirmed)
    BY <1>1 DEF VaultNext
  <2>2. PICK typed \in TypedFor(situation), confirmed \in TypedFor(situation),
             new \in NewKeys : Ceremony(situation, typed, new, confirmed)
    BY <2>1
  <2>3. VaultTypeOK'
    BY <2>2, CeremonyTypes DEF VaultInv
  <2>4. KnownSecretsOpen'
    BY <2>2, SecretsConfirmed DEF VaultInv
  <2>5. (used \subseteq Wrapped(vault))'
    BY <2>2, <2>3, CeremonyWraps
  <2> QED BY <2>3, <2>4, <2>5 DEF VaultInv
<1>2. CASE UNCHANGED vaultVars
  BY <1>2 DEF vaultVars, VaultInv, VaultTypeOK, KnownSecretsOpen, PassphraseOpens,
              RecoveryOpens, Wrapped
<1> QED BY <1>1, <1>2

\* Keys, secrets and wrappers are what they should be (the rows that activation
\* writes, e2ee.service.ts), and the invariant of KeyVault holds.
THEOREM VaultInvariant == VaultSpec => []VaultInv
<1> QED BY VaultInitInv, VaultStepInv, PTL DEF VaultSpec

\* After any number of ceremonies the known passphrase decrypts everything: the
\* browser wraps every earlier content key again (crypto.ts) and the server
\* insists on it (e2ee.service.ts).
THEOREM ReadableForever == VaultSpec => []EverythingReadable
<1>1. VaultInv => EverythingReadable
  BY DEF VaultInv, EverythingReadable, ReadableWith, KnownSecretsOpen
<1> QED BY <1>1, VaultInvariant, PTL

\* The secrets that the second operator's browser verified open the slots that
\* the activation of the candidate leaves.
THEOREM SecretsStayGood == VaultSpec => []KnownSecretsOpen
<1>1. VaultInv => KnownSecretsOpen
  BY DEF VaultInv
<1> QED BY <1>1, VaultInvariant, PTL

\* Both together, as the runs check it: what the activation of candidates
\* (e2ee.service.ts) leaves, the passphrase and the paper open, and with them
\* everything.
THEOREM KeysKept == VaultSpec => []KeysAreKept
<1>1. EverythingReadable /\ KnownSecretsOpen => KeysAreKept
  BY DEF KeysAreKept
<1> QED BY <1>1, ReadableForever, SecretsStayGood, PTL
-----------------------------------------------------------------------------
(* The inductive invariant *)

PageFields == {"text", "ws", "link", "notices", "route", "screen", "presence", "calls"}
TextFields == {"status", "prompt", "error", "user", "manages", "generation", "session",
               "scalarEpoch", "documentEpoch", "held", "drawn", "attempt", "polling"}
TaskFields == {"kind", "name", "here", "derives", "stage", "got"}
ServerFields == {"rev", "done", "note", "drawn", "epochs", "generation", "admits"}
RowFields == {"state", "situation", "generation", "candidate", "initiator", "approver",
              "present", "agreed", "copies"}

\* Handlers of the page for key ceremonies, by what they are named.
KeyNames == {"refresh", "prepare", "approve", "start", "activate"}

\* What carries an epoch that is not in use yet; what takes one back.
Pending(c) == c.kind \in {"derive", "register", "rotate"}
Revoking(c) == c.kind = "revoke"

\* A candidate that was made for the present key state, and what was made for an
\* earlier one, which nobody will accept any more.
FreshCandidate(situation, candidate) ==
    \E typed \in TypedFor(situation), new \in NewKeys :
        /\ CanCreate(vault, situation, typed)
        /\ candidate = Candidate(vault, situation, typed, new)

Outdated(generation) == generation \in Nat /\ generation < vault.generation

Made(m) ==
    /\ DOMAIN m = {"situation", "generation", "candidate", "copies"}
    /\ m.situation \in Situations
    /\ \/ Outdated(m.generation)
       \/ m.generation = vault.generation /\ FreshCandidate(m.situation, m.candidate)

\* The key state as a handler has read it.
Read(v) == v = vault \/ Outdated(v.generation)

TypedIn(situation, typed) == situation \in Situations /\ typed \in TypedFor(situation)
KnowsCustody(typed) == typed.recovery \in {known.recovery, NoSecret}

Started(id) == id \in Ceremonies /\ ceremony[id].state # "none"

\* What a second operator typed for a ceremony, and it opens the candidate.
Agreed(row, typed) ==
    /\ typed \in TypedFor(row.situation)
    /\ \/ Outdated(row.generation)
       \/ /\ CustodyIsTyped(row.situation, typed)
          /\ CandidateVerified(vault, row.situation, row.candidate, typed)

\* A ceremony on the server.
Row(row) ==
    /\ "state" \in DOMAIN row
    /\ row.state # "none" =>
        /\ DOMAIN row = RowFields
        /\ row.situation \in Situations
        /\ \/ Outdated(row.generation)
           \/ /\ row.generation = vault.generation
              /\ FreshCandidate(row.situation, row.candidate)
              /\ CandidateAccepted(vault, row.situation, row.candidate)
        /\ row.state \notin {"pending", "over"} => row.approver # "nobody"
        /\ row.state = "pending" => row.approver = "nobody"
        /\ row.approver # "nobody" => Agreed(row, row.agreed)

Ceremonial == DOMAIN ceremony = Ceremonies /\ \A id \in Ceremonies : Row(ceremony[id])

\* A ceremony as the page was told of it, with the part the tab had in it then.
Described(active) ==
    /\ Started(active.id)
    /\ active.situation \in Situations
    /\ active.role \in {"none", "initiator", "approver"}
    /\ active.role = "none" => ceremony[active.id].initiator # "tab"
    /\ active.role = "initiator" => ceremony[active.id].initiator = "tab"
    /\ active.role = "approver" => ceremony[active.id].approver = "tab"

\* A ceremony that the tab takes part in.
Ours(id) == Started(id) /\ "tab" \in {ceremony[id].initiator, ceremony[id].approver}

RefreshTask(c) ==
    /\ c.stage \in {"asked", "answered", "refused"}
    /\ c.stage = "answered" /\ c.got # Nothing => Described(c.got)

PrepareTask(c) ==
    /\ c.stage \in {"asked", "deriving"}
    /\ DOMAIN c.got = {"vault", "situation", "typed"}
    /\ TypedIn(c.got.situation, c.got.typed)
    /\ c.stage = "deriving" => Read(c.got.vault)

\* What was typed is what the operators know, until the key state changes.
ApproveTask(c) ==
    /\ c.stage \in {"asked", "deriving", "sent", "done", "failed"}
    /\ c.stage # "failed" => Started(c.got.id)
    /\ c.stage \in {"asked", "deriving"} =>
           /\ DOMAIN c.got = {"vault", "id", "situation", "typed"}
           /\ TypedIn(c.got.situation, c.got.typed)
    /\ c.stage = "asked" /\ server.admits => KnowsCustody(c.got.typed)
    /\ c.stage = "deriving" =>
           \/ c.got.vault = vault /\ KnowsCustody(c.got.typed)
           \/ Outdated(c.got.vault.generation)
    /\ c.stage = "sent" => Agreed(ceremony[c.got.id], c.got.typed)
    /\ c.stage = "done" => ceremony[c.got.id].approver = "tab"

StartTask(c) ==
    /\ c.stage \in {"asked", "done", "failed"}
    /\ c.stage = "asked" => Made(c.got)
    /\ c.stage = "done" => Ours(c.got.id)

ActivateTask(c) ==
    /\ c.stage \in {"asked", "done", "failed"}
    /\ c.stage = "asked" => Started(c.got.id)

KeyTask(c) ==
    /\ c.name = "refresh" => RefreshTask(c)
    /\ c.name = "prepare" => PrepareTask(c)
    /\ c.name = "approve" => ApproveTask(c)
    /\ c.name = "start" => StartTask(c)
    /\ c.name = "activate" => ActivateTask(c)

\* What the page shows, between its mounting and its end.
ScreenFields == {"mounted", "resolved", "refreshing", "busy", "active", "situation",
                 "prepared", "copies", "started", "approved", "activeId"}

RecoveryScreen(s) ==
    \/ DOMAIN s = {"mounted"} /\ ~s.mounted
    \/ /\ DOMAIN s = ScreenFields
       /\ s.situation \in Situations \cup {"none"}
       /\ s.active # Nothing => Described(s.active) /\ s.situation \in Situations
       /\ s.prepared # Nothing => Made(s.prepared)
       /\ s.activeId # 0 => Ours(s.activeId)

\* An epoch is drawn for one use: it is registered, held, and revoked.
Text(t) ==
    /\ DOMAIN t = TextFields
    /\ t.held \subseteq t.drawn
    /\ {t.scalarEpoch, t.documentEpoch} \ {0} \subseteq t.held
    /\ ~t.session => /\ t.held = {} /\ t.scalarEpoch = 0 /\ t.documentEpoch = 0
                     /\ ~t.polling /\ t.status # "unlocked"
    /\ t.generation \in {0, 1}
    /\ server.generation = 1 => t.held \subseteq server.epochs

Call(c, t) ==
    /\ "kind" \in DOMAIN c
    /\ c.kind = "task" => DOMAIN c = TaskFields /\ KeyTask(c)
    /\ Pending(c) \/ Revoking(c) => c.epoch \in t.drawn \ t.held
    /\ c.kind \in {"register", "rotate"} =>
           /\ {"kind", "epoch", "stage"} \subseteq DOMAIN c
           /\ c.stage \in {"sent", "accepted", "refused"}
           /\ c.stage = "accepted" /\ server.generation = 1 => c.epoch \in server.epochs

\* What was read while the tab had keys is there only while it has them.
Reading(m, unlocked) ==
    DOMAIN m = {"rev", "note", "done", "plain"} /\ (m.plain => unlocked)

WorkspaceFields == {"phase", "meeting", "closing", "completing", "notice", "pending", "writes",
                    "collab", "refreshing", "requested", "aborted", "failed"}
LoadFields == {"kind", "for", "stage", "current", "got"}
CompletionFields == {"kind", "here", "current", "prev", "stage"}

\* What a workspace awaits: a load only while it is open.
Errand(c, p, unlocked) ==
    /\ c.kind = "load" =>
           /\ DOMAIN c = LoadFields /\ p.ws.phase # "closed"
           /\ c.stage # "asked" => Reading(c.got, unlocked)
           /\ c.stage = "joining" => unlocked
    /\ c.kind = "complete" =>
           /\ DOMAIN c = CompletionFields /\ c.prev # "closed"
           /\ c.current => p.ws.phase # "closed" /\ Reading(p.ws.meeting, unlocked)

\* A provider, and what is shown in plain text, there is only with keys.
Workspace(p, unlocked) ==
    /\ DOMAIN p.ws = WorkspaceFields
    /\ p.link # Nothing => unlocked /\ "state" \in DOMAIN p.link
    /\ p.ws.meeting # Nothing => Reading(p.ws.meeting, unlocked)
    /\ p.ws.phase # "closed" => p.route = "meeting"
    /\ p.ws.phase = "closed" =>
           p.link = Nothing /\ p.ws.meeting = Nothing /\ p.ws.collab # "listening"
    /\ \A c \in p.calls : Errand(c, p, unlocked)

Sound(p) ==
    /\ DOMAIN p = PageFields
    /\ Workspace(p, p.text.session)
    /\ Text(p.text)
    /\ p.route = "recovery" => RecoveryScreen(p.screen)
    /\ \A c \in p.calls : Call(c, p.text)
    /\ \A c, d \in p.calls :
           Pending(c) /\ (Pending(d) \/ Revoking(d)) /\ c.epoch = d.epoch => c = d

\* Keys that were replaced are nobody's: then the tab is not admitted any more.
Backend ==
    /\ DOMAIN server = ServerFields
    /\ server.generation \in Nat \ {0}
    /\ server.admits => server.generation = 1

BrowserInv == VaultInv /\ Ceremonial /\ Backend /\ Sound(Page)
-----------------------------------------------------------------------------
(* What most handlers do: they leave the keys and the ceremonies alone *)

\* A page whose calls are calls.
Whole(p) ==
    /\ DOMAIN p = PageFields
    /\ \A c \in p.calls : "kind" \in DOMAIN c /\ (c.kind = "task" => DOMAIN c = TaskFields)

\* A call that carries no epoch, and is not one of the page for key ceremonies.
Bare(c) ==
    /\ "kind" \in DOMAIN c
    /\ c.kind \notin {"derive", "register", "rotate", "revoke"}
    /\ c.kind = "task" => DOMAIN c = TaskFields /\ c.name \notin KeyNames

\* One that the Meeting's workspace does not await either.
Plain(c) == Bare(c) /\ c.kind \notin {"load", "complete"}

\* The same handler, its view still there or not.
Orphan(c, d) ==
    /\ d.kind = "task" /\ c.kind = "task" /\ DOMAIN c = TaskFields
    /\ c.name = d.name /\ c.stage = d.stage /\ c.got = d.got

\* Fields of the page for key ceremonies that matter here.
KeptScreen(s, t) ==
    /\ DOMAIN t = DOMAIN s
    /\ \A field \in {"mounted", "active", "situation", "prepared", "activeId"} \cap DOMAIN s :
           t[field] = s[field]

Aside(p, q) ==
    /\ DOMAIN q = PageFields
    /\ q.text = p.text
    /\ q.route = "recovery" =>
           \/ p.route = "recovery" /\ KeptScreen(p.screen, q.screen)
           \/ DOMAIN q.screen = {"mounted"} /\ ~q.screen.mounted
    /\ \A c \in q.calls : c \in p.calls \/ Bare(c) \/ \E d \in p.calls : Orphan(c, d)

LEMMA AsideIsSound ==
    ASSUME NEW p, NEW q, Sound(p), Aside(p, q), Workspace(q, p.text.session)
    PROVE  Sound(q)
<1>1. DOMAIN q = PageFields /\ Text(q.text) /\ Workspace(q, q.text.session)
  BY DEF Sound, Aside
<1>2. ASSUME q.route = "recovery" PROVE RecoveryScreen(q.screen)
  <2>1. CASE DOMAIN q.screen = {"mounted"} /\ ~q.screen.mounted
    BY <2>1 DEF RecoveryScreen
  <2>2. CASE p.route = "recovery" /\ KeptScreen(p.screen, q.screen)
    <3>1. RecoveryScreen(p.screen)
      BY <2>2 DEF Sound
    <3>2. CASE DOMAIN p.screen = {"mounted"} /\ ~p.screen.mounted
      BY <2>2, <3>2 DEF RecoveryScreen, KeptScreen
    <3>3. CASE DOMAIN p.screen = ScreenFields
      <4>1. /\ q.screen.active = p.screen.active /\ q.screen.situation = p.screen.situation
            /\ q.screen.prepared = p.screen.prepared /\ q.screen.activeId = p.screen.activeId
            /\ DOMAIN q.screen = ScreenFields
        BY <2>2, <3>3 DEF KeptScreen, ScreenFields
      <4>2. DOMAIN p.screen # {"mounted"}
        BY <3>3 DEF ScreenFields
      <4> QED
        BY <3>1, <4>1, <4>2 DEF RecoveryScreen
    <3> QED
      BY <3>1, <3>2, <3>3 DEF RecoveryScreen
  <2> QED
    BY <1>2, <2>1, <2>2 DEF Aside
<1>3. ASSUME NEW c \in q.calls PROVE Call(c, q.text)
  <2>1. CASE c \in p.calls
    BY <2>1 DEF Sound, Aside
  <2>2. CASE Bare(c)
    BY <2>2 DEF Bare, Call, Pending, Revoking, KeyTask, KeyNames
  <2>3. ASSUME NEW d \in p.calls, Orphan(c, d) PROVE Call(c, q.text)
    <3>1. Call(d, p.text)
      BY DEF Sound
    <3>2. KeyTask(c)
      BY <2>3, <3>1 DEF Call, Orphan, KeyTask, RefreshTask, PrepareTask, ApproveTask, StartTask,
                        ActivateTask
    <3> QED
      BY <2>3, <3>2 DEF Call, Orphan, Pending, Revoking, TaskFields
  <2> QED
    BY <2>1, <2>2, <2>3 DEF Aside
<1>4. ASSUME NEW c \in q.calls, NEW d \in q.calls, Pending(c), Pending(d) \/ Revoking(d),
             c.epoch = d.epoch
      PROVE  c = d
  <2>1. c \in p.calls /\ d \in p.calls
    BY <1>4 DEF Aside, Bare, Orphan, Pending, Revoking
  <2> QED
    BY <1>4, <2>1 DEF Sound
<1> QED
  BY <1>1, <1>2, <1>3, <1>4 DEF Sound

LEMMA SoundIsWhole ==
    ASSUME NEW p, Sound(p)
    PROVE  Whole(p)
  BY DEF Sound, Whole, Call

LEMMA AsideIsWhole ==
    ASSUME NEW p, NEW q, Whole(p), Aside(p, q)
    PROVE  Whole(q)
<1>1. ASSUME NEW c \in q.calls
      PROVE  "kind" \in DOMAIN c /\ (c.kind = "task" => DOMAIN c = TaskFields)
  <2>1. CASE c \in p.calls
    BY <2>1 DEF Whole
  <2>2. CASE Bare(c)
    BY <2>2 DEF Bare
  <2>3. CASE \E d \in p.calls : Orphan(c, d)
    BY <2>3 DEF Orphan, TaskFields
  <2> QED
    BY <2>1, <2>2, <2>3 DEF Aside
<1> QED
  BY <1>1 DEF Aside, Whole

LEMMA AsideStays ==
    ASSUME NEW p, Whole(p)
    PROVE  Aside(p, p)
  BY DEF Aside, Whole, KeptScreen

LEMMA AsideThen ==
    ASSUME NEW p, NEW q, NEW r, Whole(p), Aside(p, q), Aside(q, r)
    PROVE  Aside(p, r)
<1>1. ASSUME NEW c \in r.calls
      PROVE  c \in p.calls \/ Bare(c) \/ \E d \in p.calls : Orphan(c, d)
  <2>1. ASSUME NEW d \in q.calls, Orphan(c, d)
        PROVE  Bare(c) \/ \E e \in p.calls : Orphan(c, e)
    <3>1. CASE Bare(d)
      BY <2>1, <3>1 DEF Bare, Orphan, TaskFields
    <3>2. CASE d \in p.calls
      BY <2>1, <3>2
    <3>3. ASSUME NEW e \in p.calls, Orphan(d, e) PROVE Orphan(c, e)
      BY <2>1, <3>3 DEF Orphan
    <3> QED
      BY <3>1, <3>2, <3>3 DEF Aside
  <2> QED
    BY <2>1 DEF Aside
<1>2. ASSUME r.route = "recovery"
      PROVE  \/ p.route = "recovery" /\ KeptScreen(p.screen, r.screen)
             \/ DOMAIN r.screen = {"mounted"} /\ ~r.screen.mounted
  <2>1. CASE q.route = "recovery" /\ KeptScreen(q.screen, r.screen)
    <3>1. CASE DOMAIN q.screen = {"mounted"} /\ ~q.screen.mounted
      BY <2>1, <3>1 DEF KeptScreen
    <3>2. CASE p.route = "recovery" /\ KeptScreen(p.screen, q.screen)
      BY <2>1, <3>2 DEF KeptScreen
    <3> QED
      BY <2>1, <3>1, <3>2 DEF Aside
  <2> QED
    BY <1>2, <2>1 DEF Aside
<1> QED
  BY <1>1, <1>2 DEF Aside
-----------------------------------------------------------------------------
(* The operators of ProtectedText that leave text alone *)

LEMMA WithBareAside ==
    ASSUME NEW p, Whole(p), NEW c, Bare(c)
    PROVE  Aside(p, WithCall(p, c))
  BY DEF WithCall, Whole, Aside, PageFields, KeptScreen

LEMMA WithoutCallAside ==
    ASSUME NEW p, Whole(p), NEW c
    PROVE  Aside(p, WithoutCall(p, c))
  BY DEF WithoutCall, Whole, Aside, PageFields, KeptScreen

LEMMA NextGenerationAside ==
    ASSUME NEW p, Whole(p)
    PROVE  Aside(p, NextGeneration(p))
<1> DEFINE q == NextGeneration(p)
<1>1. /\ DOMAIN q = PageFields /\ q.text = p.text /\ q.route = p.route /\ q.screen = p.screen
      /\ q.calls = {IF c.kind \in {"load", "complete"} THEN [c EXCEPT !.current = FALSE]
                    ELSE c : c \in p.calls}
  BY DEF NextGeneration, Whole, PageFields
<1>2. ASSUME NEW c \in p.calls, c.kind \in {"load", "complete"}
      PROVE  Bare([c EXCEPT !.current = FALSE])
  BY <1>2 DEF Whole, Bare
<1> QED
  BY <1>1, <1>2 DEF Aside, KeptScreen

LEMMA DisposeAside ==
    ASSUME NEW p, Whole(p)
    PROVE  Aside(p, Dispose(p))
  BY DEF Dispose, Whole, Aside, PageFields, KeptScreen

LEMMA DisposedAside ==
    ASSUME NEW p, Whole(p)
    PROVE  Aside(p, Disposed(p))
<1> DEFINE q == NextGeneration(p)
           waiting == \E c \in p.calls : c.kind = "load" /\ c.for \in {"complete", "lostAnswer"}
           r == [q EXCEPT !.ws.completing = @ /\ ~waiting]
<1>1. Aside(p, q) /\ Whole(q)
  BY NextGenerationAside, AsideIsWhole
<1> HIDE DEF q
<1>2. Aside(q, r)
  <2> HIDE DEF waiting
  <2> QED BY <1>1 DEF Aside, Whole, PageFields, KeptScreen
<1>3. Whole(r)
  BY <1>1, <1>2, AsideIsWhole
<1>4. Aside(r, Dispose(r))
  <2> HIDE DEF r
  <2> QED BY <1>3, DisposeAside
<1>5. Aside(p, r)
  <2> HIDE DEF r
  <2> QED BY <1>1, <1>2, AsideThen
<1>6. Aside(p, Dispose(r))
  <2> HIDE DEF r
  <2> QED BY <1>4, <1>5, AsideThen
<1> QED
  BY <1>6 DEF Disposed, q

\* What is not the screen's: the Meeting, the link, what there is to say.
LEMMA ElsewhereAside ==
    ASSUME NEW p, Whole(p), NEW q, DOMAIN q = PageFields, q.text = p.text,
           q.route = p.route, q.screen = p.screen, q.calls \subseteq p.calls
    PROVE  Aside(p, q) /\ Whole(q)
  BY DEF Aside, KeptScreen, Whole

\* Some calls are told that they are late, or that their view is gone.
LEMMA ToldAside ==
    ASSUME NEW p, Whole(p), NEW q, DOMAIN q = PageFields, q.text = p.text,
           q.route = p.route, q.screen = p.screen,
           \A c \in q.calls : c \in p.calls \/ Bare(c) \/ \E d \in p.calls : Orphan(c, d)
    PROVE  Aside(p, q) /\ Whole(q)
<1>1. Aside(p, q)
  BY DEF Aside, KeptScreen
<1> QED
  BY <1>1, AsideIsWhole

LEMMA ForceClosedAside ==
    ASSUME NEW p, Whole(p), NEW reason
    PROVE  Aside(p, ForceClosed(p, reason)) /\ Whole(ForceClosed(p, reason))
<1> DEFINE q == Disposed(p)
           r == ForceClosed(p, reason)
<1>1. Aside(p, q) /\ Whole(q)
  BY DisposedAside, AsideIsWhole
<1>2. CASE p.ws.phase = "closed"
  BY <1>2, AsideStays DEF ForceClosed
<1>3. CASE p.ws.phase # "closed"
  <2>1. /\ DOMAIN r = PageFields /\ r.text = q.text /\ r.route = q.route
        /\ r.screen = q.screen /\ r.calls = q.calls
    <3> HIDE DEF q
    <3>1. \E notice, ws2 : r = [q EXCEPT !.notices = notice, !.ws = ws2]
      BY <1>3 DEF ForceClosed, q
    <3> QED
      BY <1>1, <3>1 DEF Whole, PageFields
  <2> HIDE DEF q, r
  <2>2. Aside(q, r) /\ Whole(r)
    BY <1>1, <2>1, ElsewhereAside
  <2>3. Aside(p, r)
    BY <1>1, <2>2, AsideThen
  <2> QED
    BY <2>2, <2>3 DEF r
<1> QED
  BY <1>2, <1>3

LEMMA UnmountedAside ==
    ASSUME NEW p, Whole(p)
    PROVE  Aside(p, Unmounted(p)) /\ Whole(Unmounted(p))
<1> DEFINE q == ForceClosed(p, "unmount")
           r == Unmounted(p)
<1>1. Aside(p, q) /\ Whole(q)
  BY ForceClosedAside
<1> HIDE DEF q
<1>2. /\ DOMAIN r = PageFields /\ r.text = q.text /\ r.route = q.route /\ r.screen = q.screen
      /\ r.calls = {IF c.kind \in {"close", "change", "complete"}
                      THEN [c EXCEPT !.here = FALSE] ELSE c : c \in q.calls}
  BY <1>1 DEF Unmounted, q, Whole, PageFields
<1>3. ASSUME NEW c \in q.calls, c.kind \in {"close", "change", "complete"}
      PROVE  Bare([c EXCEPT !.here = FALSE])
  BY <1>1, <1>3 DEF Whole, Bare
<1> HIDE DEF r
<1>4. Aside(q, r) /\ Whole(r)
  BY <1>1, <1>2, <1>3, ToldAside
<1>5. Aside(p, r)
  BY <1>1, <1>4, AsideThen
<1> QED
  BY <1>4, <1>5 DEF r

LEMMA OpenedAside ==
    ASSUME NEW p, Whole(p)
    PROVE  Aside(p, Opened(p)) /\ Whole(Opened(p))
<1> DEFINE q == NextGeneration(p)
           r == [q EXCEPT
                 !.ws.phase = "opening", !.ws.meeting = Nothing, !.ws.closing = FALSE,
                 !.ws.pending = FALSE, !.ws.notice = p.notices, !.ws.failed = FALSE,
                 !.ws.aborted = FALSE,
                 !.ws.collab = IF @ = "none" THEN "none" ELSE "deaf"]
<1>1. Aside(p, q) /\ Whole(q)
  BY NextGenerationAside, AsideIsWhole
<1> HIDE DEF q
<1>2. /\ DOMAIN r = PageFields /\ r.text = q.text /\ r.route = q.route
      /\ r.screen = q.screen /\ r.calls = q.calls
  BY <1>1 DEF Whole, PageFields
<1>3. Opened(p) = WithCall(r, LoadCall("open"))
  BY DEF Opened, q
<1> HIDE DEF r
<1>4. Aside(q, r) /\ Whole(r)
  BY <1>1, <1>2, ElsewhereAside
<1>5. Bare(LoadCall("open"))
  BY DEF LoadCall, Bare
<1>6. Aside(r, Opened(p))
  BY <1>3, <1>4, <1>5, WithBareAside
<1>7. Aside(p, Opened(p))
  BY <1>1, <1>4, <1>6, AsideThen
<1> QED
  BY <1>7, AsideIsWhole

LEMMA MountedAside ==
    ASSUME NEW p, Whole(p)
    PROVE  Aside(p, Mounted(p)) /\ Whole(Mounted(p))
<1> DEFINE q == [p EXCEPT !.route = "meeting", !.ws = ClosedWorkspace]
<1>1. Aside(p, q)
  BY DEF Aside, Whole, PageFields
<1>2. Whole(q)
  BY <1>1, AsideIsWhole
<1>3. Mounted(p) = Opened(q)
  BY DEF Mounted
<1> HIDE DEF q
<1> QED
  BY <1>1, <1>2, <1>3, OpenedAside, AsideThen

LEMMA AbortedAside ==
    ASSUME NEW p, Whole(p)
    PROVE  Aside(p, RecoveryAborted(p)) /\ Whole(RecoveryAborted(p))
<1> DEFINE q == RecoveryAborted(p)
<1>1. CASE p.presence = 0
  BY <1>1, AsideStays DEF RecoveryAborted
<1>2. CASE p.presence # 0
  <2>1. /\ DOMAIN q = PageFields /\ q.text = p.text /\ q.route = p.route
        /\ q.screen = p.screen
        /\ q.calls = p.calls \cup {[kind |-> "abort", ceremony |-> p.presence]}
    BY <1>2 DEF RecoveryAborted, Whole, PageFields
  <2>2. Bare([kind |-> "abort", ceremony |-> p.presence])
    BY DEF Bare
  <2> QED
    BY <2>1, <2>2, ToldAside
<1> QED
  BY <1>1, <1>2

LEMMA LeftAside ==
    ASSUME NEW p, Whole(p)
    PROVE  Aside(p, Left(p)) /\ Whole(Left(p)) /\ Left(p).route = "elsewhere"
<1> DEFINE q == IF p.route = "meeting" THEN Unmounted(p) ELSE ScreenLeft(p)
           r == [q EXCEPT !.route = "elsewhere"]
<1>1. CASE p.route = "meeting"
  <2>1. Aside(p, q) /\ Whole(q)
    BY <1>1, UnmountedAside
  <2> HIDE DEF q
  <2>2. Aside(q, r)
    BY <2>1 DEF Aside, Whole, PageFields
  <2>3. r.route = "elsewhere"
    BY <2>1 DEF Whole, PageFields
  <2> QED
    BY <2>1, <2>2, <2>3, AsideThen, AsideIsWhole DEF Left, q
<1>2. CASE p.route # "meeting"
  <2> DEFINE s == [p EXCEPT !.screen = Nothing,
                       !.calls = {IF c.kind = "task" THEN [c EXCEPT !.here = FALSE] ELSE c :
                                     c \in {d \in @ : d.kind # "task" \/ ~d.derives}}]
             t == IF p.route = "recovery" /\ p.screen.mounted /\ p.screen.activeId # 0
                  THEN RecoveryAborted(s) ELSE s
  <2>1. /\ DOMAIN s = PageFields /\ s.text = p.text
        /\ s.calls = {IF c.kind = "task" THEN [c EXCEPT !.here = FALSE] ELSE c :
                                     c \in {d \in p.calls : d.kind # "task" \/ ~d.derives}}
    BY DEF Whole, PageFields
  <2>2. ASSUME NEW c \in p.calls, c.kind = "task"
        PROVE  Orphan([c EXCEPT !.here = FALSE], c)
    BY <2>2 DEF Orphan, Whole, TaskFields
  <2>3. \A c \in s.calls : c \in p.calls \/ \E d \in p.calls : Orphan(c, d)
    BY <2>1, <2>2
  <2> HIDE DEF s
  <2>4. Whole(s)
    BY <2>1, <2>3 DEF Whole, Orphan, TaskFields
  <2>5. /\ DOMAIN t = PageFields /\ t.text = s.text
        /\ \A c \in t.calls : c \in s.calls \/ Bare(c) \/ \E d \in s.calls : Orphan(c, d)
    BY <2>4, AbortedAside DEF Aside, Whole
  <2>6. q = t
    BY <1>2 DEF ScreenLeft, s
  <2>7. DOMAIN r = PageFields /\ r.text = s.text /\ r.route = "elsewhere" /\ r.calls = t.calls
    <3> HIDE DEF t
    <3> QED BY <2>5, <2>6 DEF PageFields
  <2> HIDE DEF t
  <2>8. \A c \in r.calls : c \in p.calls \/ Bare(c) \/ \E d \in p.calls : Orphan(c, d)
    <3>1. ASSUME NEW c \in t.calls, NEW d \in s.calls, Orphan(c, d)
          PROVE  \E e \in p.calls : Orphan(c, e)
      BY <2>3, <3>1 DEF Orphan
    <3> QED
      BY <2>3, <2>5, <2>7, <3>1
  <2>9. Aside(p, r)
    BY <2>1, <2>7, <2>8 DEF Aside
  <2> HIDE DEF q
  <2> QED
    BY <2>7, <2>9, AsideIsWhole DEF Left, q
<1> QED
  BY <1>1, <1>2

LEMMA EnteredAside ==
    ASSUME NEW p, Whole(p), NEW view
    PROVE  Aside(p, Entered(p, view)) /\ Whole(Entered(p, view))
<1>1. CASE view = "meeting"
  BY <1>1, MountedAside DEF Entered
<1>2. CASE view # "meeting"
  <2>1. Aside(p, Entered(p, view))
    BY <1>2 DEF Entered, Aside, Whole, PageFields, Blank
  <2> QED
    BY <2>1, AsideIsWhole
<1> QED
  BY <1>1, <1>2
-----------------------------------------------------------------------------
(* The workspace of the tab *)

\* Others go about their business.
LEMMA WorkspaceStays ==
    ASSUME NEW p, NEW q, NEW s, NEW t, Workspace(p, s), s => t, q.ws = p.ws,
           q.link = p.link \/ q.link = Nothing,
           q.route = p.route \/ p.ws.phase = "closed",
           \A c \in q.calls : c \in p.calls \/ c.kind \notin {"load", "complete"}
    PROVE  Workspace(q, t)
<1>1. ASSUME NEW c \in q.calls PROVE Errand(c, q, t)
  <2>1. CASE c \in p.calls
    BY <2>1 DEF Workspace, Errand, Reading
  <2> QED
    BY <2>1 DEF Errand
<1> QED
  BY <1>1 DEF Workspace, Reading

\* A workspace that is closed needs no keys.
LEMMA ClosedForgets ==
    ASSUME NEW p, NEW q, NEW s, NEW t, Workspace(p, s), p.ws.phase = "closed", q.ws = p.ws,
           q.link = Nothing,
           \A c \in q.calls : c \in p.calls \/ c.kind \notin {"load", "complete"}
    PROVE  Workspace(q, t)
<1>1. ASSUME NEW c \in q.calls PROVE Errand(c, q, t)
  BY DEF Workspace, Errand
<1> QED
  BY <1>1 DEF Workspace

\* What is shown of a workspace that stays as open as it is.
LEMMA WorkspaceShows ==
    ASSUME NEW p, NEW q, NEW s, Workspace(p, s), DOMAIN q.ws = WorkspaceFields,
           q.ws.phase = p.ws.phase \/ (p.ws.phase # "closed" /\ q.ws.phase # "closed"),
           \/ q.ws.meeting = p.ws.meeting
           \/ p.ws.phase # "closed" /\ Reading(q.ws.meeting, s),
           q.ws.collab = p.ws.collab \/ p.ws.phase # "closed",
           \/ q.link = p.link \/ q.link = Nothing
           \/ s /\ p.ws.phase # "closed" /\ "state" \in DOMAIN q.link,
           q.route = p.route,
           \A c \in q.calls : c \in p.calls \/ c.kind \notin {"load", "complete"}
    PROVE  Workspace(q, s)
<1>1. ASSUME NEW c \in q.calls PROVE Errand(c, q, s)
  <2>1. CASE c \in p.calls
    BY <2>1 DEF Workspace, Errand
  <2> QED
    BY <2>1 DEF Errand
<1> QED
  BY <1>1 DEF Workspace

\* No answer that is awaited is for the present generation.
Late(p) == \A c \in p.calls : c.kind \in {"load", "complete"} => ~c.current

LEMMA NextGenerationWorkspace ==
    ASSUME NEW p, NEW s, DOMAIN p = PageFields, Workspace(p, s)
    PROVE  /\ Workspace(NextGeneration(p), s) /\ Late(NextGeneration(p))
           /\ DOMAIN NextGeneration(p) = PageFields /\ NextGeneration(p).ws = p.ws
           /\ NextGeneration(p).link = p.link /\ NextGeneration(p).route = p.route
<1> DEFINE q == NextGeneration(p)
<1>1. /\ DOMAIN q = PageFields /\ q.ws = p.ws /\ q.link = p.link /\ q.route = p.route
      /\ q.calls = {IF c.kind \in {"load", "complete"} THEN [c EXCEPT !.current = FALSE]
                    ELSE c : c \in p.calls}
  BY DEF NextGeneration, PageFields
<1> HIDE DEF q
<1>2. ASSUME NEW c \in p.calls, c.kind \in {"load", "complete"}
      PROVE  /\ Errand([c EXCEPT !.current = FALSE], q, s)
             /\ [c EXCEPT !.current = FALSE].current = FALSE
  BY <1>1, <1>2 DEF Workspace, Errand, LoadFields, CompletionFields
<1>3. ASSUME NEW c \in p.calls, c.kind \notin {"load", "complete"}
      PROVE  Errand(c, q, s)
  BY <1>3 DEF Errand
<1>4. \A c \in q.calls : Errand(c, q, s)
  BY <1>1, <1>2, <1>3
<1>5. Late(q)
  BY <1>1, <1>2 DEF Late
<1> QED
  BY <1>1, <1>4, <1>5 DEF Workspace, q

\* The loads are dropped, and whatever may have been shown with them.
LEMMA DisposedWorkspace ==
    ASSUME NEW p, NEW s, DOMAIN p = PageFields, Workspace(p, s)
    PROVE  LET q == Disposed(p)
           IN /\ Workspace(q, s) /\ Late(q) /\ \A c \in q.calls : c.kind # "load"
              /\ DOMAIN q = PageFields /\ q.ws.phase = p.ws.phase
              /\ q.ws.meeting = p.ws.meeting /\ q.link = Nothing /\ q.route = p.route
<1> DEFINE g == NextGeneration(p)
           waiting == \E c \in p.calls : c.kind = "load" /\ c.for \in {"complete", "lostAnswer"}
           r == [g EXCEPT !.ws.completing = @ /\ ~waiting]
           q == Dispose(r)
<1>1. /\ Workspace(g, s) /\ Late(g) /\ DOMAIN g = PageFields /\ g.ws = p.ws
      /\ g.link = p.link /\ g.route = p.route
  BY NextGenerationWorkspace
<1> HIDE DEF g, waiting
<1>2. /\ DOMAIN r = PageFields /\ DOMAIN r.ws = WorkspaceFields
      /\ r.ws.phase = p.ws.phase /\ r.ws.meeting = p.ws.meeting
      /\ r.route = p.route /\ r.calls = g.calls
  BY <1>1 DEF PageFields, Workspace, WorkspaceFields
<1> HIDE DEF r
<1>3. \E w : /\ q = [r EXCEPT !.ws = w, !.link = Nothing, !.calls = {c \in @ : c.kind # "load"}]
             /\ DOMAIN w = WorkspaceFields /\ w.phase = r.ws.phase
             /\ w.meeting = r.ws.meeting /\ w.collab = "none"
  <2> DEFINE a == [r.ws EXCEPT !.refreshing = FALSE, !.requested = FALSE]
             w == [a EXCEPT !.collab = "none", !.aborted = TRUE]
  <2>1. DOMAIN a = WorkspaceFields /\ a.phase = r.ws.phase /\ a.meeting = r.ws.meeting
    BY <1>2 DEF WorkspaceFields
  <2>2. q = [r EXCEPT !.ws = w, !.link = Nothing, !.calls = {c \in @ : c.kind # "load"}]
    BY <1>2 DEF Dispose, PageFields, WorkspaceFields
  <2> HIDE DEF a, q
  <2>3. /\ DOMAIN w = WorkspaceFields /\ w.phase = r.ws.phase
        /\ w.meeting = r.ws.meeting /\ w.collab = "none"
    BY <2>1 DEF WorkspaceFields
  <2> HIDE DEF w
  <2> QED
    BY <2>2, <2>3
<1> HIDE DEF q
<1>4. /\ DOMAIN q = PageFields /\ DOMAIN q.ws = WorkspaceFields
      /\ q.ws.phase = p.ws.phase /\ q.ws.meeting = p.ws.meeting /\ q.ws.collab = "none"
      /\ q.link = Nothing /\ q.route = p.route
      /\ q.calls = {c \in g.calls : c.kind # "load"}
  BY <1>2, <1>3 DEF PageFields
<1>5. Workspace(q, s)
  <2>1. \A c \in q.calls : Errand(c, q, s)
    BY <1>1, <1>4 DEF Errand, Late, Workspace
  <2> QED
    BY <1>1, <1>4, <2>1 DEF Workspace
<1>6. Late(q)
  BY <1>1, <1>4 DEF Late
<1>7. Disposed(p) = q
  BY DEF Disposed, q, r, g, waiting
<1> QED
  BY <1>4, <1>5, <1>6, <1>7

LEMMA ForceClosedWorkspace ==
    ASSUME NEW p, NEW s, DOMAIN p = PageFields, Workspace(p, s), NEW reason
    PROVE  LET q == ForceClosed(p, reason)
           IN /\ Workspace(q, s) /\ q.ws.phase = "closed" /\ DOMAIN q = PageFields
              /\ q.route = p.route
<1> DEFINE d == Disposed(p)
           q == ForceClosed(p, reason)
<1>1. CASE p.ws.phase = "closed"
  BY <1>1 DEF ForceClosed
<1>2. CASE p.ws.phase # "closed"
  <2>1. /\ Workspace(d, s) /\ Late(d) /\ \A c \in d.calls : c.kind # "load"
        /\ DOMAIN d = PageFields /\ d.link = Nothing /\ d.route = p.route
    BY DisposedWorkspace
  <2> HIDE DEF d
  <2>2. PICK notices1, notice, completing :
            q = [d EXCEPT !.notices = notices1,
                          !.ws = [ClosedWorkspace EXCEPT !.closing = TRUE, !.notice = notice,
                                                         !.completing = completing]]
    BY <1>2 DEF ForceClosed, d
  <2> HIDE DEF q
  <2>3. /\ DOMAIN q = PageFields /\ q.link = Nothing /\ q.route = p.route /\ q.calls = d.calls
        /\ DOMAIN q.ws = WorkspaceFields /\ q.ws.phase = "closed"
        /\ q.ws.meeting = Nothing /\ q.ws.collab = "none"
    BY <2>1, <2>2 DEF PageFields, ClosedWorkspace, WorkspaceFields
  <2>4. \A c \in q.calls : Errand(c, q, s)
    BY <2>1, <2>3 DEF Workspace, Errand, Late
  <2>5. Workspace(q, s)
    BY <2>3, <2>4 DEF Workspace
  <2> QED
    BY <2>3, <2>5 DEF q
<1> QED
  BY <1>1, <1>2

LEMMA UnmountedWorkspace ==
    ASSUME NEW p, NEW s, DOMAIN p = PageFields, Workspace(p, s)
    PROVE  Workspace(Unmounted(p), s) /\ Unmounted(p).ws.phase = "closed"
<1> DEFINE q == ForceClosed(p, "unmount")
           r == Unmounted(p)
           ends(c) == c.kind \in {"close", "change", "complete"}
<1>1. Workspace(q, s) /\ q.ws.phase = "closed" /\ DOMAIN q = PageFields
  BY ForceClosedWorkspace
<1> HIDE DEF q
<1>2. /\ r.ws = q.ws /\ r.link = q.link /\ r.route = q.route
      /\ r.calls = {IF ends(c) THEN [c EXCEPT !.here = FALSE] ELSE c : c \in q.calls}
  BY <1>1 DEF Unmounted, q, PageFields
<1> HIDE DEF r
<1>3. ASSUME NEW c \in q.calls, c.kind = "complete"
      PROVE  Errand([c EXCEPT !.here = FALSE], r, s)
  BY <1>1, <1>2, <1>3 DEF Workspace, Errand, CompletionFields
<1>4. ASSUME NEW c \in q.calls, c.kind \in {"close", "change"}
      PROVE  Errand([c EXCEPT !.here = FALSE], r, s)
  BY <1>4 DEF Errand
<1>5. ASSUME NEW c \in q.calls, ~ends(c) PROVE Errand(c, r, s)
  BY <1>1, <1>2, <1>5 DEF Workspace, Errand
<1>6. \A c \in r.calls : Errand(c, r, s)
  BY <1>2, <1>3, <1>4, <1>5
<1> QED
  BY <1>1, <1>2, <1>6 DEF Workspace, r

LEMMA OpenedWorkspace ==
    ASSUME NEW p, NEW s, DOMAIN p = PageFields, Workspace(p, s), p.route = "meeting"
    PROVE  Workspace(Opened(p), s)
<1> DEFINE g == NextGeneration(p)
           q == Opened(p)
           r == [g EXCEPT
                 !.ws.phase = "opening", !.ws.meeting = Nothing, !.ws.closing = FALSE,
                 !.ws.pending = FALSE, !.ws.notice = p.notices, !.ws.failed = FALSE,
                 !.ws.aborted = FALSE,
                 !.ws.collab = IF @ = "none" THEN "none" ELSE "deaf"]
<1>1. /\ Workspace(g, s) /\ Late(g) /\ DOMAIN g = PageFields /\ g.ws = p.ws
      /\ g.link = p.link /\ g.route = "meeting"
  BY NextGenerationWorkspace
<1>2. q = WithCall(r, LoadCall("open"))
  BY DEF Opened, g
<1> HIDE DEF g
<1>3. /\ DOMAIN r = PageFields /\ r.link = p.link /\ r.route = "meeting" /\ r.calls = g.calls
  BY <1>1 DEF PageFields
<1>4. DOMAIN r.ws = WorkspaceFields /\ r.ws.phase = "opening" /\ r.ws.meeting = Nothing
  <2> DEFINE a == [g.ws EXCEPT !.phase = "opening", !.meeting = Nothing]
             b == [a EXCEPT !.closing = FALSE, !.pending = FALSE]
             d == [b EXCEPT !.notice = p.notices, !.failed = FALSE]
             e == [d EXCEPT !.aborted = FALSE,
                            !.collab = IF @ = "none" THEN "none" ELSE "deaf"]
  <2>1. r.ws = e
    BY <1>1 DEF PageFields
  <2>2. DOMAIN a = WorkspaceFields /\ a.phase = "opening" /\ a.meeting = Nothing
    BY <1>1 DEF Workspace, WorkspaceFields
  <2> HIDE DEF a
  <2>3. DOMAIN d = WorkspaceFields /\ d.phase = "opening" /\ d.meeting = Nothing
    BY <2>2 DEF WorkspaceFields
  <2> HIDE DEF d
  <2>4. DOMAIN e = WorkspaceFields /\ e.phase = "opening" /\ e.meeting = Nothing
    BY <2>3 DEF WorkspaceFields
  <2> HIDE DEF e, r
  <2> QED
    BY <2>1, <2>4
<1> HIDE DEF q, r
<1>6. /\ DOMAIN q.ws = WorkspaceFields /\ q.ws.phase = "opening" /\ q.ws.meeting = Nothing
      /\ q.link = p.link /\ q.route = "meeting"
      /\ q.calls = g.calls \cup {LoadCall("open")}
  BY <1>2, <1>3, <1>4 DEF WithCall, PageFields
<1>7. Errand(LoadCall("open"), q, s)
  BY <1>6 DEF LoadCall, Errand, LoadFields
<1>8. \A c \in g.calls : Errand(c, q, s)
  BY <1>1, <1>6 DEF Errand, Late, Workspace
<1> QED
  BY <1>1, <1>6, <1>7, <1>8 DEF Workspace, q

LEMMA MountedWorkspace ==
    ASSUME NEW p, NEW s, DOMAIN p = PageFields, Workspace(p, s), p.route = "elsewhere"
    PROVE  Workspace(Mounted(p), s)
<1> DEFINE q == [p EXCEPT !.route = "meeting", !.ws = ClosedWorkspace]
<1>1. /\ DOMAIN q = PageFields /\ q.route = "meeting" /\ q.ws = ClosedWorkspace
      /\ q.link = p.link /\ q.calls = p.calls
  BY DEF PageFields
<1>2. Mounted(p) = Opened(q)
  BY DEF Mounted
<1> HIDE DEF q
<1>3. Workspace(q, s)
  <2>1. /\ DOMAIN q.ws = WorkspaceFields /\ q.ws.phase = "closed" /\ q.ws.meeting = Nothing
        /\ q.ws.collab = "none"
    BY <1>1 DEF ClosedWorkspace, WorkspaceFields
  <2>2. \A c \in q.calls : Errand(c, q, s)
    BY <1>1, <2>1 DEF Workspace, Errand
  <2> QED
    BY <1>1, <2>1, <2>2 DEF Workspace
<1> QED
  BY <1>1, <1>2, <1>3, OpenedWorkspace

LEMMA AbortedWorkspace ==
    ASSUME NEW p, NEW s, DOMAIN p = PageFields, Workspace(p, s)
    PROVE  /\ Workspace(RecoveryAborted(p), s) /\ RecoveryAborted(p).ws = p.ws
           /\ DOMAIN RecoveryAborted(p) = PageFields
           /\ \A c \in RecoveryAborted(p).calls : c \in p.calls \/ c.kind = "abort"
<1> DEFINE q == RecoveryAborted(p)
<1>1. CASE p.presence # 0
  <2>1. /\ DOMAIN q = PageFields /\ q.ws = p.ws /\ q.link = p.link /\ q.route = p.route
        /\ q.calls = p.calls \cup {[kind |-> "abort", ceremony |-> p.presence]}
    BY <1>1 DEF RecoveryAborted, PageFields
  <2> HIDE DEF q
  <2>2. \A c \in q.calls : c \in p.calls \/ c.kind = "abort"
    BY <2>1
  <2> QED
    BY <2>1, <2>2, WorkspaceStays DEF q
<1> QED
  BY <1>1 DEF RecoveryAborted

LEMMA LeftWorkspace ==
    ASSUME NEW p, NEW s, DOMAIN p = PageFields, Workspace(p, s)
    PROVE  Workspace(Left(p), s) /\ Left(p).ws.phase = "closed"
<1> DEFINE q == IF p.route = "meeting" THEN Unmounted(p) ELSE ScreenLeft(p)
           r == [q EXCEPT !.route = "elsewhere"]
<1>1. Workspace(q, s) /\ q.ws.phase = "closed" /\ DOMAIN q = PageFields
  <2>1. CASE p.route = "meeting"
    <3>1. DOMAIN Unmounted(p) = PageFields
      BY ForceClosedWorkspace DEF Unmounted, PageFields
    <3> QED
      BY <2>1, <3>1, UnmountedWorkspace
  <2>2. CASE p.route # "meeting"
    <3> DEFINE o == [p EXCEPT !.screen = Nothing,
                       !.calls = {IF c.kind = "task" THEN [c EXCEPT !.here = FALSE] ELSE c :
                                     c \in {d \in @ : d.kind # "task" \/ ~d.derives}}]
    <3>1. /\ DOMAIN o = PageFields /\ o.ws = p.ws /\ o.link = p.link /\ o.route = p.route
          /\ o.calls = {IF c.kind = "task" THEN [c EXCEPT !.here = FALSE] ELSE c :
                                     c \in {d \in p.calls : d.kind # "task" \/ ~d.derives}}
      BY DEF PageFields
    <3>2. ScreenLeft(p) = o \/ ScreenLeft(p) = RecoveryAborted(o)
      BY DEF ScreenLeft
    <3> HIDE DEF o
    <3>3. Workspace(o, s)
      <4>1. ASSUME NEW c \in p.calls, c.kind = "task"
            PROVE  Errand([c EXCEPT !.here = FALSE], o, s)
        BY <4>1 DEF Errand
      <4>2. ASSUME NEW c \in p.calls, c.kind # "task" PROVE Errand(c, o, s)
        BY <3>1 DEF Workspace, Errand
      <4>3. \A c \in o.calls : Errand(c, o, s)
        BY <3>1, <4>1, <4>2
      <4> QED
        BY <3>1, <4>3 DEF Workspace
    <3>4. p.ws.phase = "closed"
      BY <2>2 DEF Workspace
    <3> QED
      BY <2>2, <3>1, <3>2, <3>3, <3>4, AbortedWorkspace
  <2> QED
    BY <2>1, <2>2
<1>2. r = Left(p)
  BY DEF Left
<1> HIDE DEF q
<1>3. r.ws = q.ws /\ r.link = q.link /\ r.calls = q.calls
  BY <1>1 DEF PageFields
<1> HIDE DEF r
<1> QED
  BY <1>1, <1>2, <1>3, WorkspaceStays

LEMMA EnteredWorkspace ==
    ASSUME NEW p, NEW s, DOMAIN p = PageFields, Workspace(p, s), p.route = "elsewhere",
           NEW view
    PROVE  Workspace(Entered(p, view), s)
<1>1. CASE view = "meeting"
  BY <1>1, MountedWorkspace DEF Entered
<1>2. CASE view # "meeting"
  <2> DEFINE q == [p EXCEPT !.route = view, !.screen = Blank]
  <2>1. q.ws = p.ws /\ q.link = p.link /\ q.calls = p.calls
    BY DEF PageFields
  <2>2. Entered(p, view) = q /\ p.ws.phase = "closed"
    BY <1>2 DEF Entered, Workspace
  <2> HIDE DEF q
  <2> QED
    BY <2>1, <2>2, WorkspaceStays
<1> QED
  BY <1>1, <1>2

\* A lock leaves nothing of it, whether there were keys or not.
LEMMA LockedWorkspace ==
    ASSUME NEW p, NEW q, NEW s, NEW t, DOMAIN p = PageFields, Workspace(p, s), NEW reason,
           q.ws = LifecycleClosed(p, reason).ws, q.link = Nothing,
           \A c \in q.calls : \/ c \in LifecycleClosed(p, reason).calls
                              \/ c.kind \notin {"load", "complete"}
    PROVE  Workspace(q, t)
<1>1. PICK l : l = LifecycleClosed(p, reason)
  OBVIOUS
<1>2. Workspace(l, s) /\ l.ws.phase = "closed"
  <2>1. CASE p.route = "meeting"
    BY <1>1, <2>1, ForceClosedWorkspace DEF LifecycleClosed
  <2>2. CASE p.route # "meeting"
    <3>1. l = p
      BY <1>1, <2>2 DEF LifecycleClosed
    <3> QED
      BY <2>2, <3>1 DEF Workspace
  <2> QED
    BY <2>1, <2>2
<1>3. /\ q.ws = l.ws
      /\ \A c \in q.calls : c \in l.calls \/ c.kind \notin {"load", "complete"}
  BY <1>1
<1> QED
  BY <1>2, <1>3, ClosedForgets
-----------------------------------------------------------------------------
(* What the rest of the world does meanwhile *)

\* Ceremonies go on: what was said of one stays true.
CeremoniesGoOn ==
    \A id \in Ceremonies :
        ceremony[id].state # "none" =>
            /\ ceremony'[id].state # "none"
            /\ ceremony'[id].situation = ceremony[id].situation
            /\ ceremony'[id].generation = ceremony[id].generation
            /\ ceremony'[id].candidate = ceremony[id].candidate
            /\ ceremony'[id].initiator = ceremony[id].initiator
            /\ ceremony[id].approver = "tab" => ceremony'[id].approver = "tab"

ServerGoesOn ==
    /\ server'.admits => server.admits
    /\ server'.generation = 1 => server.generation = 1

\* An epoch that the page does not need.
Spare(p, e) ==
    /\ e \notin p.text.held
    /\ \A c \in p.calls : c.kind \in {"register", "rotate"} => c.epoch # e

GoesOn == UNCHANGED vaultVars /\ CeremoniesGoOn /\ ServerGoesOn

LEMMA DescribedGoesOn ==
    ASSUME NEW active, Described(active), GoesOn
    PROVE  Described(active)'
  BY DEF Described, Started, GoesOn, CeremoniesGoOn, Ceremonies

LEMMA MadeGoesOn ==
    ASSUME NEW m, Made(m), UNCHANGED vaultVars
    PROVE  Made(m)'
  BY DEF Made, Outdated, FreshCandidate, NewKeys, UnusedRoots, vaultVars

LEMMA AgreedGoesOn ==
    ASSUME NEW id \in Ceremonies, NEW typed, Agreed(ceremony[id], typed),
           ceremony[id].state # "none", GoesOn
    PROVE  Agreed(ceremony[id], typed)'
<1>1. /\ ceremony'[id].situation = ceremony[id].situation
      /\ ceremony'[id].generation = ceremony[id].generation
      /\ ceremony'[id].candidate = ceremony[id].candidate
      /\ vault' = vault /\ known' = known
  BY DEF GoesOn, CeremoniesGoOn, vaultVars
<1> QED
  BY <1>1 DEF Agreed, Outdated, CustodyIsTyped

LEMMA KeyTaskGoesOn ==
    ASSUME NEW c, KeyTask(c), GoesOn
    PROVE  KeyTask(c)'
<1>1. c.name = "refresh" => RefreshTask(c)'
  BY DescribedGoesOn DEF KeyTask, RefreshTask
<1>2. c.name = "prepare" => PrepareTask(c)'
  BY DEF KeyTask, PrepareTask, Read, Outdated, TypedIn, GoesOn, vaultVars
<1>3. c.name = "approve" => ApproveTask(c)'
  <2> SUFFICES ASSUME c.name = "approve" PROVE ApproveTask(c)'
    OBVIOUS
  <2>1. ApproveTask(c)
    BY DEF KeyTask
  <2>2. c.stage # "failed" => Started(c.got.id) /\ Started(c.got.id)'
    BY <2>1 DEF ApproveTask, Started, GoesOn, CeremoniesGoOn, Ceremonies
  <2>3. c.stage = "sent" => Agreed(ceremony[c.got.id], c.got.typed)'
    <3> SUFFICES ASSUME c.stage = "sent" PROVE Agreed(ceremony[c.got.id], c.got.typed)'
      OBVIOUS
    <3>1. PICK id, typed :
              /\ id = c.got.id /\ typed = c.got.typed /\ id \in Ceremonies
              /\ ceremony[id].state # "none" /\ Agreed(ceremony[id], typed)
      BY <2>1, <2>2 DEF ApproveTask, Started
    <3>2. Agreed(ceremony[id], typed)'
      BY <3>1, AgreedGoesOn
    <3> QED
      BY <3>1, <3>2
  <2>4. c.stage = "done" => ceremony'[c.got.id].approver = "tab"
    BY <2>1, <2>2 DEF ApproveTask, Started, GoesOn, CeremoniesGoOn
  <2> QED
    BY <2>1, <2>2, <2>3, <2>4
    DEF ApproveTask, GoesOn, vaultVars, ServerGoesOn, KnowsCustody, Outdated, TypedIn
<1>4. c.name = "start" => StartTask(c)'
  <2>1. c.name = "start" /\ c.stage = "asked" => Made(c.got)'
    <3> SUFFICES ASSUME c.name = "start" /\ c.stage = "asked" PROVE Made(c.got)'
      OBVIOUS
    <3>1. PICK m : m = c.got
      OBVIOUS
    <3>2. Made(m)'
      BY <3>1, MadeGoesOn DEF KeyTask, StartTask, GoesOn
    <3> QED
      BY <3>1, <3>2
  <2>2. c.name = "start" /\ c.stage = "done" => Ours(c.got.id)'
    BY DEF KeyTask, StartTask, Ours, Started, GoesOn, CeremoniesGoOn, Ceremonies
  <2> QED
    BY <2>1, <2>2 DEF KeyTask, StartTask
<1>5. c.name = "activate" => ActivateTask(c)'
  BY DEF KeyTask, ActivateTask, Started, GoesOn, CeremoniesGoOn, Ceremonies
<1> QED
  BY <1>1, <1>2, <1>3, <1>4, <1>5 DEF KeyTask

LEMMA ScreenGoesOn ==
    ASSUME NEW s, RecoveryScreen(s), GoesOn
    PROVE  RecoveryScreen(s)'
<1>1. CASE DOMAIN s = {"mounted"} /\ ~s.mounted
  BY <1>1 DEF RecoveryScreen
<1>2. CASE DOMAIN s = ScreenFields
  <2>1. PICK active, prepared, id : active = s.active /\ prepared = s.prepared /\ id = s.activeId
    OBVIOUS
  <2>2. DOMAIN s # {"mounted"}
    BY <1>2 DEF ScreenFields
  <2>3. active # Nothing => Described(active)'
    BY <2>1, <2>2, DescribedGoesOn DEF RecoveryScreen
  <2>4. prepared # Nothing => Made(prepared)'
    BY <2>1, <2>2, MadeGoesOn DEF RecoveryScreen, GoesOn
  <2>5. id # 0 => Ours(id)'
    BY <2>1, <2>2 DEF RecoveryScreen, Ours, Started, GoesOn, CeremoniesGoOn, Ceremonies
  <2> QED
    BY <1>2, <2>1, <2>2, <2>3, <2>4, <2>5 DEF RecoveryScreen
<1> QED
  BY <1>1, <1>2 DEF RecoveryScreen

\* A page stays sound while the world goes on, unless it loses an epoch.
LEMMA SoundGoesOn ==
    ASSUME NEW p, Sound(p), GoesOn,
           \A e \in server.epochs \ server'.epochs : server'.generation # 1 \/ Spare(p, e)
    PROVE  Sound(p)'
<1>1. Text(p.text)'
  BY DEF Sound, Text, Spare, GoesOn, ServerGoesOn
<1>2. p.route = "recovery" => RecoveryScreen(p.screen)'
  <2>1. PICK s : s = p.screen
    OBVIOUS
  <2> QED
    BY <2>1, ScreenGoesOn DEF Sound
<1>3. ASSUME NEW c \in p.calls PROVE Call(c, p.text)'
  <2>1. Call(c, p.text)
    BY DEF Sound
  <2>2. c.kind = "task" => DOMAIN c = TaskFields /\ KeyTask(c)'
    BY <2>1, KeyTaskGoesOn DEF Call
  <2> QED
    BY <2>1, <2>2 DEF Call, Spare, GoesOn, ServerGoesOn
<1>4. Workspace(p, p.text.session)'
  BY DEF Sound, Workspace, Errand, Reading
<1> QED
  BY <1>1, <1>2, <1>3, <1>4 DEF Sound
-----------------------------------------------------------------------------
\* Once the key state is replaced, whatever was made for it is out of date.
Replaced ==
    /\ vault.generation \in Nat /\ vault'.generation = vault.generation + 1
    /\ server'.generation # 1 /\ ~server'.admits
    /\ CeremoniesGoOn

LEMMA MadeReplaced ==
    ASSUME NEW m, Made(m), Replaced
    PROVE  Made(m)'
  BY DEF Made, Outdated, Replaced

LEMMA AgreedReplaced ==
    ASSUME NEW id \in Ceremonies, NEW typed, Agreed(ceremony[id], typed),
           Row(ceremony[id]), ceremony[id].state # "none", Replaced
    PROVE  Agreed(ceremony[id], typed)'
  BY DEF Agreed, Row, Outdated, Replaced, CeremoniesGoOn

LEMMA DescribedReplaced ==
    ASSUME NEW active, Described(active), Replaced
    PROVE  Described(active)'
  BY DEF Described, Started, Replaced, CeremoniesGoOn, Ceremonies

LEMMA KeyTaskReplaced ==
    ASSUME NEW c, KeyTask(c), Ceremonial, Replaced
    PROVE  KeyTask(c)'
<1>1. c.name = "refresh" => RefreshTask(c)'
  BY DescribedReplaced DEF KeyTask, RefreshTask
<1>2. c.name = "prepare" => PrepareTask(c)'
  BY DEF KeyTask, PrepareTask, Read, Outdated, TypedIn, Replaced
<1>3. c.name = "approve" => ApproveTask(c)'
  <2> SUFFICES ASSUME c.name = "approve" PROVE ApproveTask(c)'
    OBVIOUS
  <2>1. ApproveTask(c)
    BY DEF KeyTask
  <2>2. c.stage # "failed" => Started(c.got.id) /\ Started(c.got.id)'
    BY <2>1 DEF ApproveTask, Started, Replaced, CeremoniesGoOn, Ceremonies
  <2>3. c.stage = "sent" => Agreed(ceremony[c.got.id], c.got.typed)'
    <3> SUFFICES ASSUME c.stage = "sent" PROVE Agreed(ceremony[c.got.id], c.got.typed)'
      OBVIOUS
    <3>1. PICK id, typed :
              /\ id = c.got.id /\ typed = c.got.typed /\ id \in Ceremonies
              /\ ceremony[id].state # "none" /\ Agreed(ceremony[id], typed)
      BY <2>1, <2>2 DEF ApproveTask, Started
    <3>2. Agreed(ceremony[id], typed)'
      BY <3>1, AgreedReplaced DEF Ceremonial
    <3> QED
      BY <3>1, <3>2
  <2>4. c.stage = "done" => ceremony'[c.got.id].approver = "tab"
    BY <2>1, <2>2 DEF ApproveTask, Started, Replaced, CeremoniesGoOn
  <2> QED
    BY <2>1, <2>2, <2>3, <2>4 DEF ApproveTask, Replaced, Outdated, TypedIn
<1>4. c.name = "start" => StartTask(c)'
  <2>1. c.name = "start" /\ c.stage = "asked" => Made(c.got)'
    <3> SUFFICES ASSUME c.name = "start" /\ c.stage = "asked" PROVE Made(c.got)'
      OBVIOUS
    <3>1. PICK m : m = c.got
      OBVIOUS
    <3>2. Made(m)'
      BY <3>1, MadeReplaced DEF KeyTask, StartTask
    <3> QED
      BY <3>1, <3>2
  <2>2. c.name = "start" /\ c.stage = "done" => Ours(c.got.id)'
    BY DEF KeyTask, StartTask, Ours, Started, Replaced, CeremoniesGoOn, Ceremonies
  <2> QED
    BY <2>1, <2>2 DEF KeyTask, StartTask
<1>5. c.name = "activate" => ActivateTask(c)'
  BY DEF KeyTask, ActivateTask, Started, Replaced, CeremoniesGoOn, Ceremonies
<1> QED
  BY <1>1, <1>2, <1>3, <1>4, <1>5 DEF KeyTask

LEMMA ScreenReplaced ==
    ASSUME NEW s, RecoveryScreen(s), Replaced
    PROVE  RecoveryScreen(s)'
<1>1. CASE DOMAIN s = {"mounted"} /\ ~s.mounted
  BY <1>1 DEF RecoveryScreen
<1>2. CASE DOMAIN s = ScreenFields
  <2>1. PICK active, prepared, id : active = s.active /\ prepared = s.prepared /\ id = s.activeId
    OBVIOUS
  <2>2. DOMAIN s # {"mounted"}
    BY <1>2 DEF ScreenFields
  <2>3. active # Nothing => Described(active)'
    BY <2>1, <2>2, DescribedReplaced DEF RecoveryScreen
  <2>4. prepared # Nothing => Made(prepared)'
    BY <2>1, <2>2, MadeReplaced DEF RecoveryScreen
  <2>5. id # 0 => Ours(id)'
    BY <2>1, <2>2 DEF RecoveryScreen, Ours, Started, Replaced, CeremoniesGoOn, Ceremonies
  <2> QED
    BY <1>2, <2>1, <2>2, <2>3, <2>4, <2>5 DEF RecoveryScreen
<1> QED
  BY <1>1, <1>2 DEF RecoveryScreen

LEMMA SoundReplaced ==
    ASSUME NEW p, Sound(p), Ceremonial, Replaced
    PROVE  Sound(p)'
<1>1. Text(p.text)'
  BY DEF Sound, Text, Replaced
<1>2. p.route = "recovery" => RecoveryScreen(p.screen)'
  <2>1. PICK s : s = p.screen
    OBVIOUS
  <2> QED
    BY <2>1, ScreenReplaced DEF Sound
<1>3. ASSUME NEW c \in p.calls PROVE Call(c, p.text)'
  <2>1. Call(c, p.text)
    BY DEF Sound
  <2>2. c.kind = "task" => DOMAIN c = TaskFields /\ KeyTask(c)'
    BY <2>1, KeyTaskReplaced DEF Call
  <2> QED
    BY <2>1, <2>2 DEF Call, Replaced
<1>4. Workspace(p, p.text.session)'
  BY DEF Sound, Workspace, Errand, Reading
<1> QED
  BY <1>1, <1>2, <1>3, <1>4 DEF Sound

\* The page that the next state has.
BecomesPage(p) ==
    /\ text' = p.text /\ ws' = p.ws /\ link' = p.link /\ notices' = p.notices
    /\ route' = p.route /\ screen' = p.screen /\ presence' = p.presence /\ calls' = p.calls

LEMMA PageIsSound ==
    ASSUME NEW p, Sound(p)', BecomesPage(p)
    PROVE  Sound(Page)'
<1>1. /\ DOMAIN Page' = PageFields /\ Page'.text = p.text /\ Page'.route = p.route
      /\ Page'.screen = p.screen /\ Page'.calls = p.calls /\ Page'.ws = p.ws
      /\ Page'.link = p.link
  BY DEF BecomesPage, Page, PageFields
<1>2. Text(p.text)' => Text(Page.text)'
  BY <1>1 DEF Text
<1>3. RecoveryScreen(p.screen)' => RecoveryScreen(Page.screen)'
  BY <1>1 DEF RecoveryScreen
<1>4. ASSUME NEW c, Call(c, p.text)' PROVE Call(c, Page.text)'
  BY <1>1, <1>4 DEF Call
<1>5. Workspace(p, p.text.session)' => Workspace(Page, Page.text.session)'
  BY <1>1 DEF Workspace, Errand, Reading
<1> QED
  BY <1>1, <1>2, <1>3, <1>4, <1>5 DEF Sound

\* An epoch that a page does not need it does not need with its view gone.
LEMMA AsideSpare ==
    ASSUME NEW p, NEW q, Aside(p, q), NEW e, Spare(p, e)
    PROVE  Spare(q, e)
  BY DEF Aside, Spare, Bare, Orphan

\* A view that is mounted anew changes nothing of that.
LEMMA MountedAnew ==
    ASSUME NEW p, Sound(p), Become(p)
    PROVE  \E q : Sound(q) /\ Aside(p, q) /\ BecomesPage(q)
<1> DEFINE q == IF p.route # "elsewhere" /\ p.text.status # text.status
                THEN Entered(Left(p), p.route) ELSE p
<1>1. Sound(q) /\ Aside(p, q)
  <2>1. Aside(p, Left(p)) /\ Whole(Left(p)) /\ Whole(p)
    BY SoundIsWhole, LeftAside
  <2>2. Aside(Left(p), Entered(Left(p), p.route))
    <3>1. PICK r : r = Left(p)
      OBVIOUS
    <3> QED
      BY <2>1, <3>1, EnteredAside
  <2>3. Aside(p, Entered(Left(p), p.route))
    BY <2>1, <2>2, AsideThen
  <2>4. Workspace(Entered(Left(p), p.route), p.text.session)
    <3>1. PICK r : r = Left(p)
      OBVIOUS
    <3>2. Workspace(r, p.text.session) /\ DOMAIN r = PageFields /\ r.route = "elsewhere"
      BY <2>1, <3>1, LeftWorkspace, LeftAside DEF Sound, Whole
    <3> QED
      BY <3>1, <3>2, EnteredWorkspace
  <2> QED
    BY <2>1, <2>3, <2>4, AsideStays, AsideIsSound
<1>2. BecomesPage(q)
  BY DEF Become, BecomesPage
<1> QED
  BY <1>1, <1>2

LEMMA StepGoesOn ==
    ASSUME NEW p, Sound(p), Become(p), GoesOn,
           \A e \in server.epochs \ server'.epochs : server'.generation # 1 \/ Spare(p, e)
    PROVE  Sound(Page)'
<1>1. PICK q : Sound(q) /\ Aside(p, q) /\ BecomesPage(q)
  BY MountedAnew
<1>2. \A e \in server.epochs \ server'.epochs : server'.generation # 1 \/ Spare(q, e)
  BY <1>1, AsideSpare
<1>3. Sound(q)'
  BY <1>1, <1>2, SoundGoesOn
<1> QED
  BY <1>1, <1>3, PageIsSound

LEMMA StepReplaced ==
    ASSUME NEW p, Sound(p), Become(p), Ceremonial, Replaced
    PROVE  Sound(Page)'
<1>1. PICK q : Sound(q) /\ Aside(p, q) /\ BecomesPage(q)
  BY MountedAnew
<1>2. Sound(q)'
  BY <1>1, SoundReplaced
<1> QED
  BY <1>1, <1>2, PageIsSound

\* What others do without the tab.
LEMMA StayGoesOn ==
    ASSUME Sound(Page), UNCHANGED pageVars, GoesOn,
           server.epochs \subseteq server'.epochs \/ server'.generation # 1
    PROVE  Sound(Page)'
<1>1. PICK p : p = Page
  OBVIOUS
<1>2. Sound(p)'
  BY <1>1, SoundGoesOn
<1>3. BecomesPage(p)
  BY <1>1 DEF BecomesPage, Page, pageVars
<1> QED
  BY <1>2, <1>3, PageIsSound

LEMMA StayReplaced ==
    ASSUME Sound(Page), UNCHANGED pageVars, Ceremonial, Replaced
    PROVE  Sound(Page)'
<1>1. PICK p : p = Page
  OBVIOUS
<1>2. Sound(p)'
  BY <1>1, SoundReplaced
<1>3. BecomesPage(p)
  BY <1>1 DEF BecomesPage, Page, pageVars
<1> QED
  BY <1>2, <1>3, PageIsSound
-----------------------------------------------------------------------------
(* The operators of ProtectedText that change text *)

\* Text is let go of, and what was held is taken back.
LEMMA LetGoIsSound ==
    ASSUME NEW p, NEW q, Sound(p), DOMAIN q = PageFields, Text(q.text),
           Workspace(q, q.text.session),
           q.text.held \subseteq p.text.held, p.text.drawn \subseteq q.text.drawn,
           q.route = "recovery" => p.route = "recovery" /\ q.screen = p.screen,
           \A c \in q.calls :
               \/ c \in p.calls \/ Bare(c)
               \/ "kind" \in DOMAIN c /\ Revoking(c) /\ c.epoch \in p.text.held \ q.text.held
    PROVE  Sound(q)
<1>1. ASSUME NEW c \in q.calls PROVE Call(c, q.text)
  <2>1. CASE c \in p.calls
    <3>1. Call(c, p.text)
      BY <2>1 DEF Sound
    <3> QED
      BY <3>1 DEF Call
  <2>2. CASE Bare(c)
    BY <2>2 DEF Bare, Call, Pending, Revoking, KeyTask, KeyNames
  <2>3. CASE "kind" \in DOMAIN c /\ Revoking(c) /\ c.epoch \in p.text.held \ q.text.held
    BY <2>3 DEF Call, Pending, Revoking, Sound, Text
  <2> QED
    BY <2>1, <2>2, <2>3
<1>2. ASSUME NEW c \in q.calls, NEW d \in q.calls, Pending(c), Pending(d) \/ Revoking(d),
             c.epoch = d.epoch
      PROVE  c = d
  <2>1. c \in p.calls
    BY <1>2 DEF Bare, Pending, Revoking
  <2>2. Call(c, p.text)
    BY <2>1 DEF Sound
  <2>3. d \in p.calls
    BY <1>2, <2>2 DEF Bare, Pending, Revoking, Call
  <2> QED
    BY <1>2, <2>1, <2>3 DEF Sound
<1> QED
  BY <1>1, <1>2 DEF Sound

\* Only what is said about the text changes: a prompt, a status.
LEMMA RetextedIsSound ==
    ASSUME NEW p, NEW q, Sound(p), DOMAIN q = PageFields, Text(q.text),
           Workspace(q, q.text.session),
           q.text.held = p.text.held, p.text.drawn \subseteq q.text.drawn,
           q.route = p.route, q.screen = p.screen, q.calls = p.calls
    PROVE  Sound(q)
  BY LetGoIsSound

LEMMA AttemptAbortedIsSound ==
    ASSUME NEW p, Sound(p)
    PROVE  /\ Sound(AttemptAborted(p)) /\ AttemptAborted(p).text = p.text
           /\ AttemptAborted(p).route = p.route
<1> DEFINE q == AttemptAborted(p)
           aborts(c) == c.kind = "register" /\ c.epoch = p.text.attempt
           g(c) == [c EXCEPT !.aborted = TRUE]
<1>1. /\ DOMAIN q = PageFields /\ q.text = p.text /\ q.route = p.route /\ q.screen = p.screen
      /\ q.ws = p.ws /\ q.link = p.link
      /\ q.calls = {IF aborts(c) THEN g(c) ELSE c : c \in {d \in p.calls : d.kind # "derive"}}
  BY DEF AttemptAborted, Sound, PageFields
<1> HIDE DEF q
<1>2. ASSUME NEW c \in p.calls, aborts(c)
      PROVE  /\ g(c).kind = c.kind /\ g(c).epoch = c.epoch /\ Call(g(c), p.text)
             /\ DOMAIN g(c) = DOMAIN c
  <2>1. Call(c, p.text) /\ {"kind", "epoch", "stage"} \subseteq DOMAIN c
    BY <1>2 DEF Sound, Call
  <2>2. /\ DOMAIN g(c) = DOMAIN c /\ g(c).kind = c.kind /\ g(c).epoch = c.epoch
        /\ g(c).stage = c.stage
    BY <2>1
  <2> HIDE DEF g
  <2> QED
    BY <1>2, <2>1, <2>2 DEF Call, Pending, Revoking
<1>3. ASSUME NEW c \in q.calls PROVE Call(c, q.text)
  <2>1. PICK d \in p.calls : c = IF aborts(d) THEN g(d) ELSE d
    BY <1>1
  <2> HIDE DEF g, aborts
  <2> QED
    BY <1>1, <1>2, <2>1 DEF Sound
<1>4. ASSUME NEW c \in q.calls, NEW d \in q.calls, Pending(c), Pending(d) \/ Revoking(d),
             c.epoch = d.epoch
      PROVE  c = d
  <2>1. PICK a \in p.calls : c = IF aborts(a) THEN g(a) ELSE a
    BY <1>1
  <2>2. PICK b \in p.calls : d = IF aborts(b) THEN g(b) ELSE b
    BY <1>1
  <2> HIDE DEF g, aborts
  <2>3. a.kind = c.kind /\ a.epoch = c.epoch /\ b.kind = d.kind /\ b.epoch = d.epoch
    BY <1>2, <2>1, <2>2
  <2>4. a = b
    BY <1>4, <2>3 DEF Sound, Pending, Revoking
  <2> QED
    BY <2>1, <2>2, <2>4
<1>5. q.route = "recovery" => RecoveryScreen(q.screen)
  BY <1>1 DEF Sound
<1>6. Workspace(q, q.text.session)
  <2>1. \A c \in q.calls : c \in p.calls \/ c.kind \notin {"load", "complete"}
    <3> HIDE DEF g
    <3> QED
      BY <1>1, <1>2 DEF aborts
  <2> QED
    BY <1>1, <2>1, WorkspaceStays DEF Sound
<1> QED
  BY <1>1, <1>3, <1>4, <1>5, <1>6 DEF Sound, q

LEMMA AsideIsSoundToo ==
    ASSUME NEW p, NEW q, Sound(p), Aside(p, q), Workspace(q, p.text.session)
    PROVE  Sound(q) /\ q.text = p.text
  BY AsideIsSound DEF Aside

LEMMA LifecycleWorkspace ==
    ASSUME NEW p, NEW s, DOMAIN p = PageFields, Workspace(p, s), NEW reason
    PROVE  Workspace(LifecycleClosed(p, reason), s)
  BY ForceClosedWorkspace DEF LifecycleClosed

LEMMA LifecycleAside ==
    ASSUME NEW p, Whole(p), NEW reason
    PROVE  Aside(p, LifecycleClosed(p, reason)) /\ Whole(LifecycleClosed(p, reason))
  BY ForceClosedAside, AsideStays DEF LifecycleClosed

\* What a lock leaves of the text.
Locks(t, u) ==
    /\ DOMAIN u = TextFields
    /\ u.scalarEpoch = 0 /\ u.documentEpoch = 0 /\ ~u.polling /\ u.status = "locked"
    /\ u.held = t.held /\ u.drawn = t.drawn /\ u.session = t.session
    /\ u.generation = t.generation

LEMMA FinishLockText ==
    ASSUME NEW p, DOMAIN p = PageFields, DOMAIN p.text = TextFields
    PROVE  LET q == FinishLock(p)
           IN /\ DOMAIN q = PageFields /\ Locks(p.text, q.text)
              /\ q.route = p.route /\ q.screen = p.screen /\ q.calls = p.calls
              /\ q.ws = p.ws /\ q.link = Nothing
  BY DEF FinishLock, PageFields, TextFields, Locks

LEMMA SessionLockedIsSound ==
    ASSUME NEW p, Sound(p), NEW reason
    PROVE  Sound(SessionLocked(p, reason)) /\ ~SessionLocked(p, reason).text.session
<1> DEFINE o == [p EXCEPT !.text.session = FALSE]
           q == LifecycleClosed(o, reason)
           r == RecoveryAborted(q)
           s == [r EXCEPT !.text.held = {}, !.calls = @ \cup Revocations(p.text.held)]
           f == FinishLock(s)
<1>1. /\ Whole(o) /\ DOMAIN o.text = TextFields /\ o.text = [p.text EXCEPT !.session = FALSE]
      /\ o.route = p.route /\ o.screen = p.screen /\ o.calls = p.calls
      /\ o.ws = p.ws /\ o.link = p.link
  BY SoundIsWhole DEF Whole, PageFields, Sound, Text
<1> HIDE DEF o
<1>2. Aside(o, q) /\ Whole(q)
  BY <1>1, LifecycleAside
<1> HIDE DEF q
<1>3. Aside(o, r) /\ Whole(r)
  BY <1>1, <1>2, AbortedAside, AsideThen
<1> HIDE DEF r
<1>4. /\ DOMAIN s = PageFields /\ DOMAIN s.text = TextFields
      /\ s.text = [o.text EXCEPT !.held = {}] /\ s.route = r.route /\ s.screen = r.screen
      /\ s.calls = r.calls \cup Revocations(p.text.held) /\ s.ws = r.ws
  BY <1>1, <1>3 DEF Whole, Aside, PageFields, TextFields
<1> HIDE DEF s
<1>5. /\ DOMAIN f = PageFields /\ Locks(s.text, f.text)
      /\ f.route = s.route /\ f.screen = s.screen /\ f.calls = s.calls
      /\ f.ws = s.ws /\ f.link = Nothing
  BY <1>4, FinishLockText
<1> HIDE DEF f
<1>6. /\ ~f.text.session /\ f.text.held = {} /\ f.text.drawn = p.text.drawn
      /\ f.text.generation = p.text.generation
  BY <1>1, <1>4, <1>5 DEF Locks, TextFields
<1>7. Text(f.text)
  BY <1>5, <1>6 DEF Locks, Text, Sound
<1> DEFINE m == [r EXCEPT !.text = p.text]
<1>8. /\ DOMAIN m = PageFields /\ m.text = p.text /\ m.route = r.route /\ m.screen = r.screen
      /\ m.calls = r.calls /\ m.ws = r.ws /\ m.link = r.link
  BY <1>3 DEF Whole, PageFields
<1> HIDE DEF m
<1>9. Aside(p, m)
  BY <1>1, <1>3, <1>8 DEF Aside
<1>10. Sound(m)
  <2>1. Workspace(o, p.text.session) /\ DOMAIN o = PageFields
    BY <1>1, WorkspaceStays DEF Sound, Whole
  <2>2. Workspace(r, p.text.session)
    BY <1>2, <2>1, LifecycleWorkspace, AbortedWorkspace DEF Whole, q, r
  <2>3. Workspace(m, p.text.session)
    BY <1>8, <2>2, WorkspaceStays
  <2> QED
    BY <1>9, <2>3, AsideIsSound
<1>11. ASSUME NEW c \in f.calls
       PROVE  \/ c \in m.calls \/ Bare(c)
              \/ "kind" \in DOMAIN c /\ Revoking(c) /\ c.epoch \in m.text.held \ f.text.held
  BY <1>4, <1>5, <1>6, <1>8 DEF Revocations, Revoking
<1>12. Sound(f)
  <2>1. Workspace(o, p.text.session) /\ DOMAIN o = PageFields
    BY <1>1, WorkspaceStays DEF Sound, Whole
  <2>2. q = LifecycleClosed(o, reason) /\ r = RecoveryAborted(q)
    BY DEF q, r
  <2>3. r.ws = q.ws /\ \A c \in r.calls : c \in q.calls \/ c.kind = "abort"
    BY <1>2, <2>1, <2>2, LifecycleWorkspace, AbortedWorkspace DEF Whole
  <2>4. \A c \in f.calls : c \in q.calls \/ c.kind \notin {"load", "complete"}
    BY <1>4, <1>5, <2>3 DEF Revocations
  <2>5. Workspace(f, f.text.session)
    BY <1>4, <1>5, <2>1, <2>2, <2>3, <2>4, LockedWorkspace
  <2> QED
    BY <1>4, <1>5, <1>6, <1>7, <1>8, <1>10, <1>11, <2>5, LetGoIsSound
<1>13. SessionLocked(p, reason) = f
  BY DEF SessionLocked, o, q, r, s, f
<1> QED
  BY <1>6, <1>12, <1>13

LEMMA PerformLockIsSound ==
    ASSUME NEW p, Sound(p), NEW reason
    PROVE  Sound(PerformLock(p, reason)) /\ ~PerformLock(p, reason).text.session
<1> DEFINE a == RecoveryAborted(p)
           q == AttemptAborted(a)
           l == LifecycleClosed(q, reason)
           f == FinishLock(l)
<1>1. Sound(a)
  BY SoundIsWhole, AbortedAside, AbortedWorkspace, AsideIsSound DEF Sound
<1> HIDE DEF a
<1>2. Sound(q)
  BY <1>1, AttemptAbortedIsSound
<1> HIDE DEF q
<1>3. CASE q.text.session
  BY <1>2, <1>3, SessionLockedIsSound DEF PerformLock, q, a
<1>4. CASE ~q.text.session
  <2>1. Sound(l) /\ l.text = q.text
    BY <1>2, SoundIsWhole, LifecycleAside, LifecycleWorkspace, AsideIsSoundToo DEF Sound
  <2> HIDE DEF l
  <2>2. /\ DOMAIN f = PageFields /\ Locks(l.text, f.text)
        /\ f.route = l.route /\ f.screen = l.screen /\ f.calls = l.calls
        /\ f.ws = l.ws /\ f.link = Nothing
    BY <2>1, FinishLockText DEF Sound, Text
  <2> HIDE DEF f
  <2>3. ~f.text.session
    BY <1>4, <2>1, <2>2 DEF Locks
  <2>4. Text(f.text) /\ f.text.held = l.text.held /\ f.text.drawn = l.text.drawn
    BY <1>4, <2>1, <2>2 DEF Locks, Text, Sound
  <2>5. Sound(f)
    <3>1. Workspace(f, f.text.session)
      BY <1>4, <2>1, <2>2, WorkspaceStays DEF Sound
    <3> QED
      BY <2>1, <2>2, <2>4, <3>1, RetextedIsSound
  <2>6. PerformLock(p, reason) = f
    BY <1>4 DEF PerformLock, f, l, q, a
  <2> QED
    BY <2>3, <2>5, <2>6
<1> QED
  BY <1>3, <1>4

LEMMA DeniedIsSound ==
    ASSUME NEW p, Sound(p)
    PROVE  Sound(Denied(p))
  BY PerformLockIsSound DEF Denied

LEMMA LeftIsSound ==
    ASSUME NEW p, Sound(p)
    PROVE  Sound(Left(p)) /\ Left(p).text = p.text /\ Left(p).route = "elsewhere"
  BY SoundIsWhole, LeftAside, LeftWorkspace, AsideIsSoundToo DEF Sound

LEMMA EnteredIsSound ==
    ASSUME NEW p, Sound(p), p.route = "elsewhere", NEW view
    PROVE  Sound(Entered(p, view))
  BY SoundIsWhole, EnteredAside, EnteredWorkspace, AsideIsSound DEF Sound

LEMMA WithoutCallIsSound ==
    ASSUME NEW p, Sound(p), NEW c
    PROVE  /\ Sound(WithoutCall(p, c)) /\ WithoutCall(p, c).text = p.text
           /\ WithoutCall(p, c).ws = p.ws /\ WithoutCall(p, c).link = p.link
           /\ WithoutCall(p, c).route = p.route /\ WithoutCall(p, c).screen = p.screen
           /\ WithoutCall(p, c).calls = p.calls \ {c}
<1> DEFINE q == WithoutCall(p, c)
<1>1. /\ DOMAIN q = PageFields /\ q.ws = p.ws /\ q.link = p.link /\ q.route = p.route
      /\ q.screen = p.screen /\ q.calls = p.calls \ {c}
  BY DEF WithoutCall, Sound, PageFields
<1>2. Aside(p, q)
  BY SoundIsWhole, WithoutCallAside
<1> HIDE DEF q
<1>3. Workspace(q, p.text.session)
  BY <1>1, WorkspaceStays DEF Sound
<1> QED
  BY <1>1, <1>2, <1>3, AsideIsSoundToo DEF q

LEMMA WithPlainIsSound ==
    ASSUME NEW p, Sound(p), NEW c, Plain(c)
    PROVE  Sound(WithCall(p, c)) /\ WithCall(p, c).text = p.text
<1> DEFINE q == WithCall(p, c)
<1>1. /\ DOMAIN q = PageFields /\ q.ws = p.ws /\ q.link = p.link /\ q.route = p.route
      /\ q.calls = p.calls \cup {c}
  BY DEF WithCall, Sound, PageFields
<1>2. Aside(p, q)
  BY SoundIsWhole, WithBareAside DEF Plain
<1> HIDE DEF q
<1>3. Workspace(q, p.text.session)
  BY <1>1, WorkspaceStays DEF Sound, Plain
<1> QED
  BY <1>2, <1>3, AsideIsSoundToo DEF q

\* What the workspace awaits.
LEMMA WithErrandIsSound ==
    ASSUME NEW p, Sound(p), NEW c, "kind" \in DOMAIN c, c.kind \in {"load", "complete"},
           Errand(c, p, p.text.session)
    PROVE  Sound(WithCall(p, c)) /\ WithCall(p, c).text = p.text
<1> DEFINE q == WithCall(p, c)
<1>1. /\ DOMAIN q = PageFields /\ q.ws = p.ws /\ q.link = p.link /\ q.route = p.route
      /\ q.calls = p.calls \cup {c}
  BY DEF WithCall, Sound, PageFields
<1>2. Aside(p, q)
  <2>1. Bare(c)
    BY DEF Bare
  <2> QED
    BY <2>1, SoundIsWhole, WithBareAside
<1> HIDE DEF q
<1>3. Workspace(q, p.text.session)
  BY <1>1 DEF Sound, Workspace, Errand
<1> QED
  BY <1>2, <1>3, AsideIsSoundToo DEF q

LEMMA LoggedOutIsSound ==
    ASSUME NEW p, Sound(p)
    PROVE  Sound(LoggedOut(p))
<1> DEFINE q == PerformLock(p, "logout")
           r == IF q.route = "elsewhere" THEN q ELSE Left(q)
           s == [r EXCEPT !.text.user = FALSE]
<1>1. Sound(q)
  BY PerformLockIsSound
<1> HIDE DEF q
<1>2. Sound(r)
  BY <1>1, LeftIsSound
<1>3. s = LoggedOut(p)
  BY DEF LoggedOut, q
<1> HIDE DEF r
<1>4. /\ DOMAIN s = PageFields /\ s.text = [r.text EXCEPT !.user = FALSE]
      /\ s.route = r.route /\ s.screen = r.screen /\ s.calls = r.calls
      /\ s.ws = r.ws /\ s.link = r.link
  BY <1>2 DEF Sound, PageFields
<1> HIDE DEF s
<1>5. /\ Text(s.text) /\ s.text.held = r.text.held /\ s.text.drawn = r.text.drawn
      /\ s.text.session = r.text.session
  BY <1>2, <1>4 DEF Sound, Text, TextFields
<1>6. Workspace(s, s.text.session)
  BY <1>2, <1>4, <1>5, WorkspaceStays DEF Sound
<1> QED
  BY <1>2, <1>3, <1>4, <1>5, <1>6, RetextedIsSound
-----------------------------------------------------------------------------
(* The actions of ProtectedText *)

TabInv == Backend /\ Sound(Page)

\* What an action leaves of the server where it has nothing to do with keys.
ServerKept ==
    /\ DOMAIN server' = ServerFields
    /\ server'.generation = server.generation /\ server'.admits = server.admits
    /\ server'.epochs = server.epochs

LEMMA ServerStays ==
    ASSUME Backend, UNCHANGED server
    PROVE  ServerKept
  BY DEF Backend, ServerKept

LEMMA KeptBackend ==
    ASSUME Backend, ServerKept
    PROVE  Backend' /\ ServerGoesOn /\ server.epochs \subseteq server'.epochs
  BY DEF Backend, ServerKept, ServerGoesOn

LEMMA RestGoesOn ==
    ASSUME UNCHANGED recoveryVars, ServerGoesOn
    PROVE  GoesOn
  BY DEF recoveryVars, vaultVars, GoesOn, CeremoniesGoOn

LEMMA KeptStep ==
    ASSUME NEW p, Sound(p), Become(p), Backend, ServerKept, UNCHANGED recoveryVars
    PROVE  TabInv'
<1>1. Backend' /\ GoesOn /\ server.epochs \subseteq server'.epochs
  BY KeptBackend, RestGoesOn
<1>2. Sound(Page)'
  BY <1>1, StepGoesOn
<1> QED
  BY <1>1, <1>2 DEF TabInv

LEMMA CalmStep ==
    ASSUME NEW p, Sound(p), Become(p), Backend, UNCHANGED server, UNCHANGED recoveryVars
    PROVE  TabInv'
  BY ServerStays, KeptStep

LEMMA KeptStay ==
    ASSUME TabInv, UNCHANGED pageVars, ServerKept, UNCHANGED recoveryVars
    PROVE  TabInv'
<1>1. Backend' /\ GoesOn /\ server.epochs \subseteq server'.epochs
  BY KeptBackend, RestGoesOn DEF TabInv
<1>2. Sound(Page)'
  BY <1>1, StayGoesOn DEF TabInv
<1> QED
  BY <1>1, <1>2 DEF TabInv

LEMMA PageText ==
    ASSUME Sound(Page)
    PROVE  /\ DOMAIN Page = PageFields /\ Page.text = text /\ Page.route = route
           /\ Page.screen = screen /\ Page.calls = calls /\ Page.presence = presence
           /\ DOMAIN text = TextFields /\ text.generation \in {0, 1}
  BY DEF Page, Sound, Text

\* Text of which only the wording changes.
Reworded(t, u) ==
    /\ DOMAIN u = TextFields
    /\ u.held = t.held /\ u.drawn = t.drawn /\ u.scalarEpoch = t.scalarEpoch
    /\ u.documentEpoch = t.documentEpoch /\ u.session = t.session /\ u.polling = t.polling
    /\ u.status = t.status \/ u.status # "unlocked"
    /\ u.generation \in {0, 1}

LEMMA RewordedIsSound ==
    ASSUME NEW p, NEW q, Sound(p), DOMAIN q = PageFields, Reworded(p.text, q.text),
           q.route = p.route, q.screen = p.screen, q.calls = p.calls,
           q.ws = p.ws, q.link = p.link
    PROVE  Sound(q)
<1>1. Text(q.text) /\ q.text.held = p.text.held /\ q.text.drawn = p.text.drawn
  BY DEF Reworded, Sound, Text
<1>2. Workspace(q, q.text.session)
  BY WorkspaceStays DEF Reworded, Sound
<1> QED
  BY <1>1, <1>2, RetextedIsSound

LEMMA RemoteLockKeeps ==
    ASSUME TabInv, UNCHANGED recoveryVars, RemoteLock
    PROVE  TabInv'
  BY PerformLockIsSound, CalmStep DEF RemoteLock, TabInv

LEMMA TimeoutLockKeeps ==
    ASSUME TabInv, UNCHANGED recoveryVars, NEW reason, TimeoutLock(reason)
    PROVE  TabInv'
  BY SessionLockedIsSound, CalmStep DEF TimeoutLock, TabInv

LEMMA PollKeeps ==
    ASSUME TabInv, UNCHANGED recoveryVars, Poll
    PROVE  TabInv'
<1>1. Plain([kind |-> "poll"])
  BY DEF Plain, Bare
<1> QED
  BY <1>1, WithPlainIsSound, CalmStep DEF Poll, TabInv

LEMMA PollAnsweredKeeps ==
    ASSUME TabInv, UNCHANGED recoveryVars, NEW c \in calls, PollAnswered(c)
    PROVE  TabInv'
  BY WithoutCallIsSound, PerformLockIsSound, CalmStep DEF PollAnswered, TabInv

LEMMA ShowUnlockKeeps ==
    ASSUME TabInv, UNCHANGED recoveryVars, ShowUnlock
    PROVE  TabInv'
<1> DEFINE q == [Page EXCEPT !.text.prompt = TRUE]
<1>1. /\ DOMAIN q = PageFields /\ q.text = [text EXCEPT !.prompt = TRUE]
      /\ q.route = Page.route /\ q.screen = Page.screen /\ q.calls = Page.calls
      /\ q.ws = Page.ws /\ q.link = Page.link
  BY PageText DEF TabInv, PageFields
<1>2. Reworded(Page.text, q.text)
  BY <1>1, PageText DEF TabInv, Reworded, TextFields
<1>3. Become(q) /\ UNCHANGED server
  BY DEF ShowUnlock
<1> HIDE DEF q
<1> QED
  BY <1>1, <1>2, <1>3, RewordedIsSound, CalmStep DEF TabInv

LEMMA SkipKeeps ==
    ASSUME TabInv, UNCHANGED recoveryVars, Skip
    PROVE  TabInv'
<1> DEFINE q == [Page EXCEPT !.text.prompt = FALSE, !.text.error = FALSE]
<1>1. /\ DOMAIN q = PageFields /\ q.text = [text EXCEPT !.prompt = FALSE, !.error = FALSE]
      /\ q.route = Page.route /\ q.screen = Page.screen /\ q.calls = Page.calls
      /\ q.ws = Page.ws /\ q.link = Page.link
  BY PageText DEF TabInv, PageFields, TextFields
<1>2. Reworded(Page.text, q.text)
  <2> DEFINE u == [text EXCEPT !.prompt = FALSE]
  <2>1. Reworded(text, u)
    BY PageText DEF TabInv, Reworded, TextFields
  <2>2. q.text = [u EXCEPT !.error = FALSE]
    BY <1>1
  <2> HIDE DEF u, q
  <2>3. Reworded(u, q.text)
    BY <2>1, <2>2 DEF Reworded, TextFields
  <2> QED
    BY <2>1, <2>3, PageText DEF TabInv, Reworded
<1>3. Become(q) /\ UNCHANGED server
  BY DEF Skip
<1> HIDE DEF q
<1> QED
  BY <1>1, <1>2, <1>3, RewordedIsSound, CalmStep DEF TabInv

\* An epoch is drawn, and a call carries it.
LEMMA DrawnIsSound ==
    ASSUME NEW p, NEW q, NEW c, NEW e, Sound(p), DOMAIN q = PageFields,
           Reworded([p.text EXCEPT !.drawn = @ \cup {e}], q.text),
           e \notin p.text.drawn, q.route = p.route, q.screen = p.screen,
           q.ws = p.ws, q.link = p.link,
           q.calls = p.calls \cup {c}, "kind" \in DOMAIN c, Pending(c), c.epoch = e,
           c.kind \in {"register", "rotate"} =>
               {"kind", "epoch", "stage"} \subseteq DOMAIN c /\ c.stage = "sent"
    PROVE  Sound(q)
<1>1. /\ Text(q.text) /\ q.text.held = p.text.held /\ q.text.drawn = p.text.drawn \cup {e}
      /\ e \notin q.text.held
  BY DEF Reworded, Sound, Text, TextFields
<1>2. ASSUME NEW d \in p.calls PROVE Call(d, q.text)
  <2>1. Call(d, p.text)
    BY DEF Sound
  <2> QED
    BY <1>1, <2>1 DEF Call
<1>3. Call(c, q.text)
  BY <1>1 DEF Call, Pending
<1>4. ASSUME NEW d \in p.calls, Pending(d) \/ Revoking(d) PROVE d.epoch # e
  BY <1>4 DEF Sound, Call
<1>5. q.route = "recovery" => RecoveryScreen(q.screen)
  BY DEF Sound
<1>6. Workspace(q, q.text.session)
  <2>1. q.text.session = p.text.session
    BY DEF Reworded, Sound, Text, TextFields
  <2> QED
    BY <2>1, WorkspaceStays DEF Sound, Pending
<1> QED
  BY <1>1, <1>2, <1>3, <1>4, <1>5, <1>6 DEF Sound

LEMMA UnlockKeeps ==
    ASSUME TabInv, UNCHANGED recoveryVars, Unlock
    PROVE  TabInv'
<1> DEFINE a == AttemptAborted(Page)
           d(e) == [kind |-> "derive", epoch |-> e]
           q(e) == [a EXCEPT !.text.attempt = e, !.text.drawn = @ \cup {e},
                             !.text.status = "unlocking", !.text.error = FALSE]
<1>1. PICK e \in Epochs \ text.drawn : Become(WithCall(q(e), d(e)))
  BY DEF Unlock
<1>2. UNCHANGED server
  BY DEF Unlock
<1>3. Sound(a) /\ a.text = text /\ a.route = route
  BY AttemptAbortedIsSound, PageText DEF TabInv
<1> HIDE DEF a
<1>4. /\ DOMAIN q(e) = PageFields
      /\ q(e).text = [text EXCEPT !.attempt = e, !.drawn = @ \cup {e}, !.status = "unlocking",
                                  !.error = FALSE]
      /\ q(e).route = a.route /\ q(e).screen = a.screen /\ q(e).calls = a.calls
      /\ q(e).ws = a.ws /\ q(e).link = a.link
  BY <1>3, PageText DEF TabInv, Sound, PageFields, TextFields
<1> DEFINE r == WithCall(q(e), d(e))
<1>5. /\ DOMAIN r = PageFields /\ r.text = q(e).text /\ r.route = a.route
      /\ r.screen = a.screen /\ r.calls = a.calls \cup {d(e)}
      /\ r.ws = a.ws /\ r.link = a.link
  BY <1>4 DEF WithCall, PageFields
<1>6. Reworded([a.text EXCEPT !.drawn = @ \cup {e}], r.text)
  <2> DEFINE u == [text EXCEPT !.drawn = @ \cup {e}]
             v == [u EXCEPT !.attempt = e]
             w == [v EXCEPT !.status = "unlocking"]
  <2>1. DOMAIN u = TextFields /\ u.generation \in {0, 1} /\ u = [a.text EXCEPT !.drawn = @ \cup {e}]
    BY <1>3, PageText DEF TabInv, TextFields
  <2>2. r.text = [w EXCEPT !.error = FALSE]
    BY <1>3, <1>4, <1>5, PageText DEF TabInv, TextFields
  <2> HIDE DEF u
  <2>3. DOMAIN v = TextFields /\ v = [u EXCEPT !.attempt = e]
    BY <2>1
  <2> HIDE DEF v
  <2>4. Reworded(u, v)
    BY <2>1, <2>3 DEF Reworded, TextFields
  <2>5. Reworded(v, w)
    BY <2>4 DEF Reworded, TextFields
  <2> HIDE DEF w
  <2>6. Reworded(w, r.text)
    BY <2>2, <2>5 DEF Reworded, TextFields
  <2> QED
    BY <2>1, <2>4, <2>5, <2>6 DEF Reworded
<1>7. /\ "kind" \in DOMAIN d(e) /\ Pending(d(e)) /\ d(e).epoch = e
      /\ d(e).kind \notin {"register", "rotate"}
  BY DEF Pending
<1> HIDE DEF q, d
<1>8. Sound(r)
  BY <1>1, <1>3, <1>5, <1>6, <1>7, DrawnIsSound
<1> QED
  BY <1>1, <1>2, <1>8, CalmStep DEF TabInv

LEMMA RotateKeeps ==
    ASSUME TabInv, UNCHANGED recoveryVars, Rotate
    PROVE  TabInv'
<1> DEFINE d(e) == [kind |-> "rotate", epoch |-> e, stage |-> "sent"]
           q(e) == [Page EXCEPT !.text.drawn = @ \cup {e}]
<1>1. PICK e \in Epochs \ text.drawn : Become(WithCall(q(e), d(e)))
  BY DEF Rotate
<1>2. UNCHANGED server
  BY DEF Rotate
<1>3. Sound(Page) /\ Page.text = text
  BY PageText DEF TabInv
<1>4. /\ DOMAIN q(e) = PageFields
      /\ q(e).text = [text EXCEPT !.drawn = @ \cup {e}]
      /\ q(e).route = Page.route /\ q(e).screen = Page.screen /\ q(e).calls = Page.calls
      /\ q(e).ws = Page.ws /\ q(e).link = Page.link
  BY <1>3, PageText DEF PageFields, TextFields
<1> DEFINE r == WithCall(q(e), d(e))
<1>5. /\ DOMAIN r = PageFields /\ r.text = q(e).text /\ r.route = Page.route
      /\ r.screen = Page.screen /\ r.calls = Page.calls \cup {d(e)}
      /\ r.ws = Page.ws /\ r.link = Page.link
  BY <1>4 DEF WithCall, PageFields
<1>6. Reworded([Page.text EXCEPT !.drawn = @ \cup {e}], r.text)
  BY <1>3, <1>4, <1>5, PageText DEF Reworded, TextFields
<1>7. /\ {"kind", "epoch", "stage"} \subseteq DOMAIN d(e) /\ Pending(d(e)) /\ d(e).epoch = e
      /\ d(e).stage = "sent"
  BY DEF Pending
<1> HIDE DEF q, d
<1>8. Sound(r)
  BY <1>1, <1>3, <1>5, <1>6, <1>7, DrawnIsSound
<1> QED
  BY <1>1, <1>2, <1>8, CalmStep DEF TabInv


\* Nothing that is under way carries this epoch.
Unused(p, e) == \A d \in p.calls : Pending(d) \/ Revoking(d) => d.epoch # e

\* What an epoch is for is known to nobody but who carries it.
LEMMA CarriedAlone ==
    ASSUME NEW p, Sound(p), NEW c \in p.calls, Pending(c)
    PROVE  /\ Unused(WithoutCall(p, c), c.epoch)
           /\ c.epoch \in p.text.drawn \ p.text.held
  BY WithoutCallIsSound DEF Unused, Sound, Call, Pending, Revoking

LEMMA CalledIsSound ==
    ASSUME NEW p, Sound(p), NEW c, Call(c, p.text), Unused(p, c.epoch),
           c.kind \notin {"load", "complete"}
    PROVE  Sound(WithCall(p, c)) /\ WithCall(p, c).text = p.text
<1>1. /\ DOMAIN WithCall(p, c) = PageFields /\ WithCall(p, c).text = p.text
      /\ WithCall(p, c).route = p.route /\ WithCall(p, c).screen = p.screen
      /\ WithCall(p, c).calls = p.calls \cup {c}
      /\ WithCall(p, c).ws = p.ws /\ WithCall(p, c).link = p.link
  BY DEF WithCall, Sound, PageFields
<1> HIDE DEF WithCall
<1>2. Workspace(WithCall(p, c), p.text.session)
  BY <1>1, WorkspaceStays DEF Sound
<1> QED
  BY <1>1, <1>2 DEF Sound, Unused

\* The same, once the server knows the epoch.
LEMMA CalledIsSoundThen ==
    ASSUME NEW p, Sound(p)', NEW c, Call(c, p.text)', Unused(p, c.epoch),
           c.kind \notin {"load", "complete"}
    PROVE  Sound(WithCall(p, c))'
<1>1. /\ DOMAIN WithCall(p, c) = PageFields /\ WithCall(p, c).text = p.text
      /\ WithCall(p, c).route = p.route /\ WithCall(p, c).screen = p.screen
      /\ WithCall(p, c).calls = p.calls \cup {c}
      /\ WithCall(p, c).ws = p.ws /\ WithCall(p, c).link = p.link
  BY DEF WithCall, Sound, PageFields
<1> HIDE DEF WithCall
<1>2. Workspace(WithCall(p, c), p.text.session)'
  BY <1>1 DEF Sound, Workspace, Errand, Reading
<1> QED
  BY <1>1, <1>2 DEF Sound, Unused

\* An epoch that was carried is held.
LEMMA HeldIsSound ==
    ASSUME NEW p, NEW q, NEW e, Sound(p), DOMAIN q = PageFields, Text(q.text),
           q.text.held = p.text.held \cup {e}, q.text.drawn = p.text.drawn,
           q.route = p.route, q.screen = p.screen, q.calls = p.calls, Unused(p, e),
           q.ws = p.ws, q.link = p.link, p.text.session => q.text.session
    PROVE  Sound(q)
<1>1. ASSUME NEW c \in q.calls PROVE Call(c, q.text)
  <2>1. Call(c, p.text)
    BY DEF Sound
  <2> QED
    BY <2>1 DEF Call, Unused
<1>2. Workspace(q, q.text.session)
  BY WorkspaceStays DEF Sound
<1> QED
  BY <1>1, <1>2 DEF Sound

\* One that will not be used is taken back.
LEMMA RevokedIsSound ==
    ASSUME NEW p, Sound(p), NEW e, e \in p.text.drawn \ p.text.held, Unused(p, e)
    PROVE  Sound([p EXCEPT !.calls = @ \cup Revocations({e})])
<1> DEFINE c == [kind |-> "revoke", epoch |-> e]
<1>1. Call(c, p.text) /\ c.epoch = e /\ c.kind = "revoke"
  BY DEF Call, Pending, Revoking
<1>2. [p EXCEPT !.calls = @ \cup Revocations({e})] = WithCall(p, c)
  BY DEF WithCall, Revocations
<1> HIDE DEF c
<1>3. Sound(WithCall(p, c))
  BY <1>1, CalledIsSound
<1> QED
  BY <1>2, <1>3

LEMMA RevokeAnsweredKeeps ==
    ASSUME TabInv, UNCHANGED recoveryVars, NEW c \in calls, RevokeAnswered(c)
    PROVE  TabInv'
<1> DEFINE p == WithoutCall(Page, c)
<1>1. Revoking(c) /\ Become(Denied(p))
      /\ server' = [server EXCEPT !.epochs = IF server.admits THEN @ \ {c.epoch} ELSE @]
  BY DEF RevokeAnswered, Revoking
<1>2. /\ DOMAIN server' = ServerFields /\ server'.generation = server.generation
      /\ server'.admits = server.admits
      /\ server'.epochs = IF server.admits THEN server.epochs \ {c.epoch} ELSE server.epochs
  BY <1>1 DEF TabInv, Backend, ServerFields
<1>3. GoesOn /\ Backend'
  BY <1>2, RestGoesOn DEF TabInv, Backend, ServerGoesOn
<1>4. Sound(Denied(p)) /\ Sound(p)
  BY WithoutCallIsSound, DeniedIsSound DEF TabInv
<1>5. server.admits => Spare(Denied(p), c.epoch)
  <2>1. c \in Page.calls /\ p.calls = Page.calls \ {c} /\ p.text = Page.text
    BY PageText, WithoutCallIsSound DEF TabInv
  <2>2. ASSUME NEW d \in p.calls, d.kind \in {"register", "rotate"} PROVE d.epoch # c.epoch
    BY <1>1, <2>1, <2>2 DEF TabInv, Sound, Pending, Revoking
  <2>3. c.epoch \notin p.text.held
    BY <1>1, <2>1 DEF TabInv, Sound, Call
  <2> QED
    BY <2>2, <2>3 DEF Spare, Denied
<1> HIDE DEF p
<1>6. \A e \in server.epochs \ server'.epochs : server'.generation # 1 \/ Spare(Denied(p), e)
  BY <1>2, <1>5
<1>7. Sound(Page)'
  BY <1>1, <1>3, <1>4, <1>6, StepGoesOn
<1> QED
  BY <1>3, <1>7 DEF TabInv

LEMMA DerivedKeeps ==
    ASSUME TabInv, UNCHANGED recoveryVars, NEW c \in calls, Derived(c)
    PROVE  TabInv'
<1> DEFINE p == WithoutCall(Page, c)
           d == [kind |-> "register", epoch |-> c.epoch, aborted |-> FALSE, stage |-> "sent"]
<1>1. Pending(c) /\ Become(WithCall(p, d)) /\ UNCHANGED server
  BY DEF Derived, Pending
<1>2. Unused(p, c.epoch) /\ c.epoch \in text.drawn \ text.held
  BY <1>1, PageText, CarriedAlone DEF TabInv
<1>3. Sound(p) /\ p.text = text
  BY PageText, WithoutCallIsSound DEF TabInv
<1>4. Call(d, p.text) /\ d.epoch = c.epoch /\ d.kind = "register"
  BY <1>2, <1>3 DEF Call, Pending, Revoking
<1> HIDE DEF p, d
<1>5. Sound(WithCall(p, d))
  BY <1>2, <1>3, <1>4, CalledIsSound
<1> QED
  BY <1>1, <1>5, CalmStep DEF TabInv

LEMMA AttemptFailedIsSound ==
    ASSUME NEW p, Sound(p), NEW e, NEW error
    PROVE  Sound(AttemptFailed(p, e, error))
<1> DEFINE a == [p.text EXCEPT !.status = "locked"]
           b == [a EXCEPT !.error = @ \/ error]
           q == AttemptFailed(p, e, error)
<1>1. /\ DOMAIN q = PageFields
      /\ q.text = [b EXCEPT !.attempt = IF @ = e THEN 0 ELSE @]
      /\ q.route = p.route /\ q.screen = p.screen /\ q.calls = p.calls
      /\ q.ws = p.ws /\ q.link = p.link
  BY DEF AttemptFailed, Ended, Sound, Text, PageFields, TextFields
<1>2. DOMAIN p.text = TextFields /\ p.text.generation \in {0, 1}
  BY DEF Sound, Text
<1>3. Reworded(p.text, a)
  BY <1>2 DEF Reworded, TextFields
<1> HIDE DEF a
<1>4. Reworded(a, b)
  BY <1>3 DEF Reworded, TextFields
<1> HIDE DEF b, q
<1>5. Reworded(b, q.text)
  BY <1>1, <1>4 DEF Reworded, TextFields
<1>6. Reworded(p.text, q.text)
  BY <1>3, <1>4, <1>5 DEF Reworded
<1> QED
  BY <1>1, <1>6, RewordedIsSound DEF q

LEMMA WrongPassphraseKeeps ==
    ASSUME TabInv, UNCHANGED recoveryVars, NEW c \in calls, WrongPassphrase(c)
    PROVE  TabInv'
  BY WithoutCallIsSound, AttemptFailedIsSound, CalmStep DEF WrongPassphrase, TabInv

LEMMA RegisteredKeeps ==
    ASSUME TabInv, UNCHANGED recoveryVars, NEW c \in calls, Registered(c)
    PROVE  TabInv'
<1>0. PICK p : p = WithoutCall(Page, c)
  OBVIOUS
<1> DEFINE d(stage) == [c EXCEPT !.stage = stage]
<1>1. Pending(c) /\ c.kind \in {"register", "rotate"} /\ c \in Page.calls
  BY PageText DEF Registered, Pending, TabInv
<1>2. Unused(p, c.epoch) /\ c.epoch \in text.drawn \ text.held
  BY <1>0, <1>1, PageText, CarriedAlone DEF TabInv
<1>3. Sound(p) /\ p.text = text /\ p.text.status = text.status
  BY <1>0, PageText, WithoutCallIsSound DEF TabInv
<1>4. /\ {"kind", "epoch", "stage"} \subseteq DOMAIN c
  BY <1>1 DEF TabInv, Sound, Call
<1>5. ASSUME NEW stage
      PROVE  /\ {"kind", "epoch", "stage"} \subseteq DOMAIN d(stage) /\ d(stage).stage = stage
             /\ d(stage).epoch = c.epoch /\ d(stage).kind = c.kind
  BY <1>4
<1>6. CASE server.admits /\ server' = [server EXCEPT !.epochs = @ \cup {c.epoch}]
           /\ Become(WithCall(p, d("accepted")))
  <2>1. DOMAIN server' = ServerFields /\ server'.generation = server.generation
        /\ server'.admits = server.admits /\ server'.epochs = server.epochs \cup {c.epoch}
    BY <1>6 DEF TabInv, Backend, ServerFields
  <2>2. Backend' /\ GoesOn
    BY <2>1, RestGoesOn DEF TabInv, Backend, ServerGoesOn
  <2>3. Sound(p)'
    BY <1>3, <2>1, <2>2, SoundGoesOn
  <2>4. PICK a : a = d("accepted")
    OBVIOUS
  <2>5. Call(a, p.text)'
    BY <1>1, <1>2, <1>3, <1>5, <2>1, <2>4 DEF Call, Pending, Revoking
  <2>6. Sound(WithCall(p, a))' /\ WithCall(p, a).text = text
    <3>1. Unused(p, a.epoch)
      BY <1>2, <1>5, <2>4
    <3>2. WithCall(p, a).text = p.text
      BY <1>3 DEF WithCall, Sound, PageFields
    <3> QED
      BY <1>1, <1>3, <1>5, <2>3, <2>4, <2>5, <3>1, <3>2, CalledIsSoundThen
  <2>7. BecomesPage(WithCall(p, a))
    BY <1>6, <2>4, <2>6 DEF Become, BecomesPage
  <2> QED
    BY <2>2, <2>6, <2>7, PageIsSound DEF TabInv
<1>7. CASE Become(WithCall(p, d("refused"))) /\ UNCHANGED server
  <2>1. Call(d("refused"), p.text)
    BY <1>1, <1>2, <1>3, <1>5 DEF Call, Pending, Revoking
  <2> HIDE DEF d
  <2>2. Sound(WithCall(p, d("refused")))
    BY <1>1, <1>2, <1>3, <1>5, <2>1, CalledIsSound
  <2> QED
    BY <1>7, <2>2, CalmStep DEF TabInv
<1> QED
  BY <1>0, <1>6, <1>7 DEF Registered


LEMMA UnlockedIsSound ==
    ASSUME NEW p, Sound(p), NEW e, e \in p.text.drawn \ p.text.held, Unused(p, e),
           server.generation = 1 => e \in server.epochs
    PROVE  Sound(Unlocked(p, e))
<1> DEFINE a == [p.text EXCEPT !.held = @ \cup {e}]
           b == [a EXCEPT !.session = TRUE]
           f == [b EXCEPT !.scalarEpoch = e]
           g == [f EXCEPT !.documentEpoch = e]
           h == [g EXCEPT !.status = "unlocked"]
           i == [h EXCEPT !.prompt = FALSE]
           j == [i EXCEPT !.polling = TRUE]
           q == Unlocked(p, e)
<1>1. /\ DOMAIN q = PageFields
      /\ q.text = [j EXCEPT !.attempt = IF @ = e THEN 0 ELSE @]
      /\ q.route = p.route /\ q.screen = p.screen /\ q.calls = p.calls
      /\ q.ws = p.ws /\ q.link = p.link
  BY DEF Unlocked, Ended, Sound, Text, PageFields, TextFields
<1>2. Text(p.text)
  BY DEF Sound
<1>3. /\ DOMAIN a = TextFields /\ a.held = p.text.held \cup {e} /\ a.drawn = p.text.drawn
      /\ a.generation \in {0, 1}
  BY <1>2 DEF Text, TextFields
<1> HIDE DEF a
<1>4. /\ DOMAIN g = TextFields /\ g.held = p.text.held \cup {e} /\ g.drawn = p.text.drawn
      /\ g.generation \in {0, 1} /\ g.session /\ g.scalarEpoch = e /\ g.documentEpoch = e
  BY <1>3 DEF TextFields
<1> HIDE DEF g
<1>5. /\ DOMAIN j = TextFields /\ j.held = p.text.held \cup {e} /\ j.drawn = p.text.drawn
      /\ j.generation \in {0, 1} /\ j.session /\ j.scalarEpoch = e /\ j.documentEpoch = e
  BY <1>4 DEF TextFields
<1> HIDE DEF j, q
<1>6. /\ DOMAIN q.text = TextFields /\ q.text.held = p.text.held \cup {e}
      /\ q.text.drawn = p.text.drawn /\ q.text.generation \in {0, 1} /\ q.text.session
      /\ q.text.scalarEpoch = e /\ q.text.documentEpoch = e
  BY <1>1, <1>5 DEF TextFields
<1>7. Text(q.text)
  BY <1>2, <1>6 DEF Text
<1> QED
  BY <1>1, <1>6, <1>7, HeldIsSound DEF q

LEMMA UnlockAnsweredKeeps ==
    ASSUME TabInv, UNCHANGED recoveryVars, NEW c \in calls, UnlockAnswered(c)
    PROVE  TabInv'
<1> DEFINE p == WithoutCall(Page, c)
<1>1. Pending(c) /\ c.kind = "register" /\ c.stage # "sent" /\ UNCHANGED server
      /\ c \in Page.calls
  BY PageText DEF UnlockAnswered, Pending, TabInv
<1>2. Unused(p, c.epoch) /\ c.epoch \in text.drawn \ text.held
  BY <1>1, PageText, CarriedAlone DEF TabInv
<1>3. Sound(p) /\ p.text = text
  BY PageText, WithoutCallIsSound DEF TabInv
<1>4. c.stage = "accepted" /\ server.generation = 1 => c.epoch \in server.epochs
  BY <1>1 DEF TabInv, Sound, Call
<1> HIDE DEF p
<1>5. CASE c.stage = "refused" /\ Become(AttemptFailed(Denied(p), c.epoch, TRUE))
  BY <1>1, <1>3, <1>5, DeniedIsSound, AttemptFailedIsSound, CalmStep DEF TabInv
<1>6. CASE Become(AttemptFailed(p, c.epoch, FALSE))
  BY <1>1, <1>3, <1>6, AttemptFailedIsSound, CalmStep DEF TabInv
<1>7. CASE c.stage = "accepted" /\ Become(Unlocked(p, c.epoch))
  BY <1>1, <1>2, <1>3, <1>4, <1>7, UnlockedIsSound, CalmStep DEF TabInv
<1>8. c.stage \in {"refused", "accepted"}
  BY <1>1 DEF TabInv, Sound, Call
<1> QED
  BY <1>1, <1>5, <1>6, <1>7, <1>8 DEF UnlockAnswered, p


LEMMA RotatedIsSound ==
    ASSUME NEW p, Sound(p), NEW e, e \in p.text.drawn \ p.text.held, Unused(p, e),
           p.text.session, server.generation = 1 => e \in server.epochs
    PROVE  Sound([p EXCEPT !.text.held = @ \cup {e}, !.text.documentEpoch = e])
<1> DEFINE a == [p.text EXCEPT !.held = @ \cup {e}]
           q == [p EXCEPT !.text.held = @ \cup {e}, !.text.documentEpoch = e]
<1>1. /\ DOMAIN q = PageFields
      /\ q.text = [a EXCEPT !.documentEpoch = e]
      /\ q.route = p.route /\ q.screen = p.screen /\ q.calls = p.calls
      /\ q.ws = p.ws /\ q.link = p.link
  BY DEF Sound, Text, PageFields, TextFields
<1>2. Text(p.text)
  BY DEF Sound
<1>3. /\ DOMAIN a = TextFields /\ a.held = p.text.held \cup {e} /\ a.drawn = p.text.drawn
      /\ a.generation \in {0, 1} /\ a.session /\ a.scalarEpoch = p.text.scalarEpoch
  BY <1>2 DEF Text, TextFields
<1> HIDE DEF a, q
<1>4. /\ DOMAIN q.text = TextFields /\ q.text.held = p.text.held \cup {e}
      /\ q.text.drawn = p.text.drawn /\ q.text.generation \in {0, 1} /\ q.text.session
      /\ q.text.scalarEpoch = p.text.scalarEpoch /\ q.text.documentEpoch = e
  BY <1>1, <1>3 DEF TextFields
<1>5. Text(q.text)
  BY <1>2, <1>4 DEF Text
<1>6. Sound(q)
  BY <1>1, <1>3, <1>4, <1>5, HeldIsSound
<1> QED
  BY <1>6 DEF q

LEMMA RotateAnsweredKeeps ==
    ASSUME TabInv, UNCHANGED recoveryVars, NEW c \in calls, RotateAnswered(c)
    PROVE  TabInv'
<1> DEFINE p == WithoutCall(Page, c)
           q == [p EXCEPT !.text.held = @ \cup {c.epoch}, !.text.documentEpoch = c.epoch]
           r == [p EXCEPT !.calls = @ \cup Revocations({c.epoch})]
<1>1. Pending(c) /\ c.kind = "rotate" /\ c.stage # "sent" /\ UNCHANGED server
      /\ c \in Page.calls
  BY PageText DEF RotateAnswered, Pending, TabInv
<1>2. Unused(p, c.epoch) /\ c.epoch \in text.drawn \ text.held
  BY <1>1, PageText, CarriedAlone DEF TabInv
<1>3. Sound(p) /\ p.text = text
  BY PageText, WithoutCallIsSound DEF TabInv
<1>4. /\ c.stage = "accepted" /\ server.generation = 1 => c.epoch \in server.epochs
      /\ c.stage \in {"refused", "accepted"}
  BY <1>1 DEF TabInv, Sound, Call
<1> HIDE DEF p
<1>5. c.stage = "accepted" /\ text.session => Sound(q)
  BY <1>2, <1>3, <1>4, RotatedIsSound
<1>6. Sound(r)
  BY <1>2, <1>3, RevokedIsSound
<1>7. Sound(Denied(p))
  BY <1>3, DeniedIsSound
<1> HIDE DEF q, r
<1>8. \/ Become(Denied(p))
      \/ c.stage # "refused" /\ text.session /\ Become(q)
      \/ Become(r)
  BY DEF RotateAnswered, p, q, r
<1> QED
  BY <1>1, <1>4, <1>5, <1>6, <1>7, <1>8, CalmStep DEF TabInv

\* What is said of the user, and of the key state.
LEMMA TextOfSound ==
    ASSUME NEW p, Sound(p)
    PROVE  /\ DOMAIN p = PageFields /\ DOMAIN p.text = TextFields
           /\ p.text.generation \in {0, 1}
  BY DEF Sound, Text

LEMMA UserIsSound ==
    ASSUME NEW p, Sound(p), NEW user
    PROVE  Sound([p EXCEPT !.text.user = user])
<1> DEFINE q == [p EXCEPT !.text.user = user]
<1>1. /\ DOMAIN q = PageFields /\ q.text = [p.text EXCEPT !.user = user]
      /\ q.route = p.route /\ q.screen = p.screen /\ q.calls = p.calls
      /\ q.ws = p.ws /\ q.link = p.link
  BY TextOfSound DEF PageFields, TextFields
<1>2. Reworded(p.text, q.text)
  BY <1>1, TextOfSound DEF Reworded, TextFields
<1> QED
  BY <1>1, <1>2, RewordedIsSound

LEMMA GenerationIsSound ==
    ASSUME NEW p, Sound(p), NEW generation \in {0, 1}
    PROVE  Sound([p EXCEPT !.text.generation = generation, !.text.prompt = FALSE])
<1> DEFINE q == [p EXCEPT !.text.generation = generation, !.text.prompt = FALSE]
           a == [p.text EXCEPT !.generation = generation]
<1>1. /\ DOMAIN q = PageFields /\ q.text = [a EXCEPT !.prompt = FALSE]
      /\ q.route = p.route /\ q.screen = p.screen /\ q.calls = p.calls
      /\ q.ws = p.ws /\ q.link = p.link
  BY TextOfSound DEF PageFields, TextFields
<1>2. Reworded(p.text, a)
  BY TextOfSound DEF Reworded, TextFields
<1> HIDE DEF a, q
<1>3. Reworded(a, q.text)
  BY <1>1, <1>2 DEF Reworded, TextFields
<1>4. Reworded(p.text, q.text)
  BY <1>2, <1>3 DEF Reworded
<1>5. Sound(q)
  BY <1>1, <1>4, RewordedIsSound
<1> QED
  BY <1>5 DEF q

LEMMA SignInKeeps ==
    ASSUME TabInv, UNCHANGED recoveryVars, SignIn
    PROVE  TabInv'
<1> DEFINE p == PerformLock(Page, "identity-change")
           q == [p EXCEPT !.text.user = TRUE]
           c == [kind |-> "keyState"]
<1>1. Sound(q) /\ Plain(c)
  BY PerformLockIsSound, UserIsSound DEF TabInv, Plain, Bare
<1>2. Become(WithCall(q, c)) /\ UNCHANGED server
  BY DEF SignIn
<1> HIDE DEF q, c
<1> QED
  BY <1>1, <1>2, WithPlainIsSound, CalmStep DEF TabInv

LEMMA KeyStateAnsweredKeeps ==
    ASSUME TabInv, UNCHANGED recoveryVars, NEW c \in calls, KeyStateAnswered(c)
    PROVE  TabInv'
<1> DEFINE p == WithoutCall(Page, c)
<1>1. Sound(p) /\ Sound(Denied(p))
  BY WithoutCallIsSound, DeniedIsSound DEF TabInv
<1>2. UNCHANGED server
  BY DEF KeyStateAnswered
<1>3. CASE server.admits
           /\ Become([p EXCEPT !.text.generation = server.generation, !.text.prompt = FALSE])
  <2>1. server.generation \in {0, 1}
    BY <1>3 DEF TabInv, Backend
  <2> HIDE DEF p
  <2>2. Sound([p EXCEPT !.text.generation = server.generation, !.text.prompt = FALSE])
    BY <1>1, <2>1, GenerationIsSound
  <2> QED
    BY <1>2, <1>3, <2>2, CalmStep DEF TabInv
<1>4. CASE Become([Denied(p) EXCEPT !.text.generation = 0, !.text.prompt = FALSE])
  <2> HIDE DEF p
  <2>1. Sound([Denied(p) EXCEPT !.text.generation = 0, !.text.prompt = FALSE])
    BY <1>1, GenerationIsSound
  <2> QED
    BY <1>2, <1>4, <2>1, CalmStep DEF TabInv
<1> QED
  BY <1>3, <1>4 DEF KeyStateAnswered

LEMMA LogoutKeeps ==
    ASSUME TabInv, UNCHANGED recoveryVars, Logout
    PROVE  TabInv'
  BY LoggedOutIsSound, CalmStep DEF Logout, TabInv

LEMMA SessionRevokedKeeps ==
    ASSUME TabInv, UNCHANGED recoveryVars, SessionRevoked
    PROVE  TabInv'
<1>1. /\ DOMAIN server' = ServerFields /\ server'.generation = server.generation
      /\ ~server'.admits /\ server'.epochs = server.epochs
  BY DEF SessionRevoked, TabInv, Backend, ServerFields
<1>2. Backend' /\ GoesOn
  BY <1>1, RestGoesOn DEF TabInv, Backend, ServerGoesOn
<1>3. Sound(Page)'
  BY <1>1, <1>2, StayGoesOn DEF SessionRevoked, TabInv
<1> QED
  BY <1>2, <1>3 DEF TabInv

LEMMA KeysReplacedKeeps ==
    ASSUME TabInv, UNCHANGED recoveryVars, KeysReplaced
    PROVE  TabInv'
<1>1. /\ DOMAIN server' = ServerFields /\ server'.generation = server.generation + 1
      /\ ~server'.admits /\ server.generation \in Nat \ {0}
  BY DEF KeysReplaced, TabInv, Backend, ServerFields
<1>2. Backend' /\ GoesOn /\ server'.generation # 1
  BY <1>1, RestGoesOn DEF TabInv, Backend, ServerGoesOn
<1>3. Sound(Page)'
  BY <1>2, StayGoesOn DEF KeysReplaced, TabInv
<1> QED
  BY <1>2, <1>3 DEF TabInv

LEMMA ProtectedTextKeeps ==
    ASSUME TabInv, UNCHANGED recoveryVars, ProtectedTextNext
    PROVE  TabInv'
  BY RemoteLockKeeps, PollKeeps, ShowUnlockKeeps, SkipKeeps, UnlockKeeps, RotateKeeps,
     TimeoutLockKeeps, SignInKeeps, LogoutKeeps, SessionRevokedKeeps, KeysReplacedKeeps,
     PollAnsweredKeeps, RevokeAnsweredKeeps, DerivedKeeps, WrongPassphraseKeeps,
     RegisteredKeeps, UnlockAnsweredKeeps, RotateAnsweredKeeps, KeyStateAnsweredKeeps
     DEF ProtectedTextNext
-----------------------------------------------------------------------------
(* The operators of MeetingWorkspace *)

LEMMA WorkspaceOfSound ==
    ASSUME NEW p, Sound(p)
    PROVE  /\ DOMAIN p = PageFields /\ DOMAIN p.ws = WorkspaceFields
           /\ p.ws.phase # "closed" => p.route = "meeting"
           /\ p.link # Nothing =>
                  p.text.session /\ p.ws.phase # "closed" /\ "state" \in DOMAIN p.link
           /\ p.ws.collab = "listening" => p.ws.phase # "closed"
           /\ p.ws.meeting # Nothing =>
                  p.ws.phase # "closed" /\ Reading(p.ws.meeting, p.text.session)
  BY DEF Sound, Workspace

\* Pages that differ in the workspace and its connection.
Alongside(p, q) ==
    /\ DOMAIN q = PageFields /\ DOMAIN q.ws = WorkspaceFields
    /\ q.text = p.text /\ q.route = p.route /\ q.screen = p.screen /\ q.calls = p.calls

LEMMA AlongsideIsSound ==
    ASSUME NEW p, NEW q, Sound(p), Alongside(p, q), Workspace(q, p.text.session)
    PROVE  Sound(q)
  BY RetextedIsSound DEF Sound, Alongside

\* A page on which the workspace stays as open as it is.
LEMMA ShelvedIsSound ==
    ASSUME NEW p, NEW q, Sound(p), Alongside(p, q),
           q.ws.phase = p.ws.phase \/ (p.ws.phase # "closed" /\ q.ws.phase # "closed"),
           \/ q.ws.meeting = p.ws.meeting
           \/ p.ws.phase # "closed" /\ Reading(q.ws.meeting, p.text.session),
           q.ws.collab = p.ws.collab \/ p.ws.phase # "closed",
           \/ q.link = p.link \/ q.link = Nothing
           \/ p.text.session /\ p.ws.phase # "closed" /\ "state" \in DOMAIN q.link
    PROVE  Sound(q)
<1>1. Workspace(q, p.text.session)
  BY WorkspaceShows DEF Sound, Alongside
<1> QED
  BY <1>1, AlongsideIsSound

\* What else there is to say of it.
Furnished(p, q) ==
    /\ Alongside(p, q) /\ q.link = p.link
    /\ q.ws.phase = p.ws.phase /\ q.ws.meeting = p.ws.meeting /\ q.ws.collab = p.ws.collab

LEMMA FurnishedIsSound ==
    ASSUME NEW p, NEW q, Sound(p), Furnished(p, q)
    PROVE  Sound(q)
  BY ShelvedIsSound DEF Furnished

\* A workspace that was given up, and loads its Meeting anew.
LEMMA AnewIsSound ==
    ASSUME NEW p, NEW q, Sound(p), Alongside(p, q), Late(p), p.route = "meeting",
           q.ws.phase # "closed", q.ws.meeting = Nothing, q.link = p.link
    PROVE  Sound(q)
<1>1. \A c \in q.calls : Errand(c, q, p.text.session)
  BY DEF Sound, Workspace, Errand, Late, Alongside
<1>2. Workspace(q, p.text.session)
  BY <1>1 DEF Sound, Workspace, Alongside
<1> QED
  BY <1>2, AlongsideIsSound

LEMMA LinkIsSound ==
    ASSUME NEW p, Sound(p), NEW l,
           \/ l = p.link \/ l = Nothing
           \/ p.text.session /\ p.ws.phase # "closed" /\ "state" \in DOMAIN l
    PROVE  LET q == [p EXCEPT !.link = l]
           IN /\ Sound(q) /\ q.text = p.text /\ q.ws = p.ws /\ q.calls = p.calls
              /\ q.link = l
<1> DEFINE q == [p EXCEPT !.link = l]
<1>1. Alongside(p, q) /\ q.ws = p.ws /\ q.link = l
  BY WorkspaceOfSound DEF PageFields, Alongside
<1> HIDE DEF q
<1>2. Sound(q) /\ q.text = p.text /\ q.calls = p.calls
  BY <1>1, ShelvedIsSound DEF Alongside
<1> QED
  BY <1>1, <1>2 DEF q

LEMMA PhaseIsOpen ==
    ASSUME NEW l
    PROVE  PhaseOf(l) # "closed"
  BY DEF PhaseOf

LEMMA PublishedIsSound ==
    ASSUME NEW p, Sound(p), NEW phase, p.ws.phase # "closed", phase # "closed"
    PROVE  LET q == Published(p, phase)
           IN /\ Sound(q) /\ Alongside(p, q) /\ q.ws.phase = phase /\ q.link = p.link
              /\ q.ws.meeting = p.ws.meeting /\ q.ws.collab = p.ws.collab
<1> DEFINE q == Published(p, phase)
<1>1. /\ Alongside(p, q) /\ q.ws.phase = phase /\ q.link = p.link
      /\ q.ws.meeting = p.ws.meeting /\ q.ws.collab = p.ws.collab
  <2>1. PICK pending : q = [p EXCEPT !.ws.phase = phase, !.ws.pending = pending]
    BY DEF Published
  <2> HIDE DEF q
  <2> QED
    BY <2>1, WorkspaceOfSound DEF PageFields, WorkspaceFields, Alongside
<1> HIDE DEF q
<1>2. Sound(q)
  BY <1>1, ShelvedIsSound
<1> QED
  BY <1>1, <1>2 DEF q

LEMMA ReloadIsSound ==
    ASSUME NEW p, Sound(p), NEW for, p.ws.phase # "closed"
    PROVE  LET q == Reload(p, for)
           IN Sound(q) /\ q.ws = p.ws /\ q.text = p.text
<1> DEFINE c == LoadCall(for)
<1>1. "kind" \in DOMAIN c /\ c.kind = "load" /\ Errand(c, p, p.text.session)
  BY DEF LoadCall, Errand, LoadFields
<1>2. WithCall(p, c).ws = p.ws
  BY WorkspaceOfSound DEF WithCall, PageFields
<1> HIDE DEF c
<1>3. Sound(WithCall(p, c)) /\ WithCall(p, c).text = p.text
  BY <1>1, WithErrandIsSound
<1> QED
  BY <1>2, <1>3 DEF Reload, c

LEMMA ForceClosedIsSound ==
    ASSUME NEW p, Sound(p), NEW reason
    PROVE  Sound(ForceClosed(p, reason))
  BY SoundIsWhole, ForceClosedAside, ForceClosedWorkspace, AsideIsSound DEF Sound

LEMMA DisposedIsSound ==
    ASSUME NEW p, Sound(p)
    PROVE  LET q == Disposed(p)
           IN /\ Sound(q) /\ q.text = p.text /\ q.link = Nothing /\ q.route = p.route
              /\ Late(q) /\ \A c \in q.calls : c.kind # "load"
<1>1. Aside(p, Disposed(p))
  BY SoundIsWhole, DisposedAside
<1>2. /\ Workspace(Disposed(p), p.text.session) /\ Late(Disposed(p))
      /\ \A c \in Disposed(p).calls : c.kind # "load"
      /\ Disposed(p).link = Nothing /\ Disposed(p).route = p.route
  BY DisposedWorkspace DEF Sound
<1> QED
  BY <1>1, <1>2, AsideIsSoundToo

LEMMA OpenedIsSound ==
    ASSUME NEW p, Sound(p), p.route = "meeting"
    PROVE  Sound(Opened(p))
  BY SoundIsWhole, OpenedAside, OpenedWorkspace, AsideIsSound DEF Sound

LEMMA MountedIsSound ==
    ASSUME NEW p, Sound(p), p.route = "elsewhere"
    PROVE  Sound(Mounted(p))
  BY SoundIsWhole, MountedAside, MountedWorkspace, AsideIsSound DEF Sound

LEMMA AccessLostIsSound ==
    ASSUME NEW p, Sound(p)
    PROVE  Sound(AccessLost(p))
  BY ForceClosedIsSound, PerformLockIsSound DEF AccessLost

Categories == {"access", "recoverable", "integrity"}

LEMMA FailIsSound ==
    ASSUME NEW p, Sound(p), NEW category \in Categories, p.ws.phase # "closed"
    PROVE  /\ Sound(Fail(p, category))
           /\ category = "integrity" =>
                  Fail(p, category).text = p.text /\ Fail(p, category).ws.phase # "closed"
<1>1. CASE category = "access"
  BY <1>1, AccessLostIsSound DEF Fail
<1>2. CASE category = "recoverable"
  <2> DEFINE q(phase) == Published(p, phase)
  <2>1. ASSUME NEW phase, phase # "closed" PROVE Sound([q(phase) EXCEPT !.ws.failed = TRUE])
    <3>1. Sound(q(phase))
      BY <2>1, PublishedIsSound
    <3> HIDE DEF q
    <3> DEFINE r == [q(phase) EXCEPT !.ws.failed = TRUE]
    <3>2. Furnished(q(phase), r)
      BY <3>1, WorkspaceOfSound DEF PageFields, WorkspaceFields, Furnished, Alongside
    <3> HIDE DEF r
    <3> QED
      BY <3>1, <3>2, FurnishedIsSound DEF r
  <2> HIDE DEF q
  <2> QED
    BY <1>2, <2>1 DEF Fail, q
<1>3. CASE category = "integrity"
  <2> DEFINE q == Disposed(p)
  <2>1. /\ Sound(q) /\ q.text = p.text /\ q.link = Nothing /\ q.route = p.route /\ Late(q)
        /\ p.route = "meeting"
    BY DisposedIsSound, WorkspaceOfSound
  <2> HIDE DEF q
  <2> DEFINE r == [q EXCEPT !.ws.writes = 0, !.ws.phase = "unavailable"]
             t == [r EXCEPT !.ws.meeting = Nothing, !.ws.pending = FALSE]
             u == [t EXCEPT !.ws.notice = "integrity_failure"]
  <2>2. Alongside(q, r) /\ r.ws.phase = "unavailable" /\ r.link = q.link
    BY <2>1, WorkspaceOfSound DEF PageFields, WorkspaceFields, Alongside
  <2> HIDE DEF r
  <2>3. /\ Alongside(r, t) /\ t.ws.phase = "unavailable" /\ t.ws.meeting = Nothing
        /\ t.link = r.link
    BY <2>2 DEF PageFields, WorkspaceFields, Alongside
  <2> HIDE DEF t
  <2>4. /\ Alongside(t, u) /\ u.ws.phase = "unavailable" /\ u.ws.meeting = Nothing
        /\ u.link = t.link
    BY <2>3 DEF PageFields, WorkspaceFields, Alongside
  <2>5. Fail(p, category) = u
    BY <1>3 DEF Fail, q, r, t
  <2> HIDE DEF u
  <2>6. Alongside(q, u) /\ u.link = q.link
    BY <2>2, <2>3, <2>4 DEF Alongside
  <2>7. Sound(u) /\ u.text = p.text
    BY <2>1, <2>4, <2>6, AnewIsSound DEF Alongside
  <2> QED
    BY <2>4, <2>5, <2>7
<1> QED
  BY <1>1, <1>2, <1>3 DEF Categories

LEMMA CompletedElsewhereIsSound ==
    ASSUME NEW p, Sound(p), NEW for, p.ws.phase # "closed"
    PROVE  Sound(CompletedElsewhere(p, for))
<1> DEFINE q == Disposed(p)
           a == [q EXCEPT !.ws.writes = 0, !.ws.closing = FALSE]
           b == [a EXCEPT !.ws.phase = "opening", !.ws.meeting = Nothing]
           d == [b EXCEPT !.ws.aborted = FALSE, !.ws.pending = FALSE]
           r(notice) == [d EXCEPT !.ws.notice = notice, !.notices = notice]
           opens(w) == w.phase = "opening" /\ w.meeting = Nothing
<1>1. Sound(q) /\ q.route = "meeting" /\ Late(q)
  BY DisposedIsSound, WorkspaceOfSound
<1> HIDE DEF q
<1>2. Alongside(q, a) /\ a.link = q.link
  BY <1>1, WorkspaceOfSound DEF PageFields, WorkspaceFields, Alongside
<1> HIDE DEF a
<1>3. Alongside(a, b) /\ opens(b.ws) /\ b.link = a.link
  BY <1>2 DEF PageFields, WorkspaceFields, Alongside
<1> HIDE DEF b
<1>4. Alongside(b, d) /\ opens(d.ws) /\ d.link = b.link
  BY <1>3 DEF PageFields, WorkspaceFields, Alongside
<1> HIDE DEF d
<1>5. ASSUME NEW notice PROVE Alongside(d, r(notice)) /\ opens(r(notice).ws) /\ r(notice).link = d.link
  BY <1>4 DEF PageFields, WorkspaceFields, Alongside
<1> HIDE DEF r
<1>6. ASSUME NEW notice PROVE Sound(Reload(r(notice), for))
  <2>1. Alongside(q, r(notice)) /\ r(notice).link = q.link
    BY <1>2, <1>3, <1>4, <1>5 DEF Alongside
  <2>2. Sound(r(notice))
    BY <1>1, <1>5, <2>1, AnewIsSound
  <2> QED
    BY <1>5, <2>2, ReloadIsSound
<1>7. \E notice : CompletedElsewhere(p, for) = Reload(r(notice), for)
  BY Zenon DEF CompletedElsewhere, r, d, b, a, q
<1> QED
  BY <1>6, <1>7

LEMMA RefreshIsSound ==
    ASSUME NEW p, Sound(p)
    PROVE  /\ Sound(Refresh(p)) /\ Refresh(p).text = p.text
           /\ p.ws.phase # "closed" => Refresh(p).ws.phase # "closed"
<1> DEFINE q == [p EXCEPT !.ws.refreshing = TRUE, !.ws.requested = FALSE]
           r == [p EXCEPT !.ws.requested = TRUE]
<1>1. Furnished(p, q) /\ Furnished(p, r)
  BY WorkspaceOfSound DEF PageFields, WorkspaceFields, Furnished, Alongside
<1> HIDE DEF q, r
<1>2. /\ Sound(q) /\ q.text = p.text /\ q.ws.phase = p.ws.phase
      /\ Sound(r) /\ r.text = p.text /\ r.ws.phase = p.ws.phase
  BY <1>1, FurnishedIsSound DEF Furnished, Alongside
<1>3. CASE p.ws.phase = "closed"
  BY <1>2, <1>3 DEF Refresh, r
<1>4. CASE p.ws.phase # "closed"
  <2>1. /\ Sound(Fail(p, "integrity")) /\ Fail(p, "integrity").text = p.text
        /\ Fail(p, "integrity").ws.phase # "closed"
    BY <1>4, FailIsSound DEF Categories
  <2>2. /\ Sound(Reload(q, "refresh")) /\ Reload(q, "refresh").text = p.text
        /\ Reload(q, "refresh").ws.phase # "closed"
    BY <1>2, <1>4, ReloadIsSound
  <2> QED
    BY <1>2, <1>4, <2>1, <2>2 DEF Refresh, q, r
<1> QED
  BY <1>3, <1>4

\* What the page writes of its document.
LEMMA NotedIsSound ==
    ASSUME NEW p, Sound(p), p.ws.meeting # Nothing, NEW note
    PROVE  LET q == [p EXCEPT !.ws.meeting.note = note]
           IN Sound(q) /\ q.text = p.text /\ q.ws.phase = p.ws.phase
<1> DEFINE q == [p EXCEPT !.ws.meeting.note = note]
<1>1. p.ws.phase # "closed" /\ Reading(p.ws.meeting, p.text.session)
  BY WorkspaceOfSound
<1>2. /\ Alongside(p, q) /\ q.link = p.link /\ q.ws.phase = p.ws.phase
      /\ q.ws.collab = p.ws.collab /\ q.ws.meeting = [p.ws.meeting EXCEPT !.note = note]
  BY WorkspaceOfSound DEF PageFields, WorkspaceFields, Alongside
<1> HIDE DEF q
<1>3. Reading(q.ws.meeting, p.text.session)
  BY <1>1, <1>2 DEF Reading
<1>4. Sound(q) /\ q.text = p.text
  BY <1>1, <1>2, <1>3, ShelvedIsSound DEF Alongside
<1> QED
  BY <1>2, <1>4 DEF q

LEMMA OnChangeIsSound ==
    ASSUME NEW p, Sound(p), NEW change
    PROVE  /\ Sound(OnChange(p, change))
           /\ p.ws.phase # "closed" /\ p.link.state \in {"connecting", "online", "offline"} =>
                  /\ OnChange(p, change).text = p.text
                  /\ OnChange(p, change).ws.phase # "closed"
<1> DEFINE q == Published(p, IF p.ws.completing THEN "syncing" ELSE PhaseOf(p.link))
           r == [q EXCEPT !.ws.meeting.note = p.link.note]
<1>1. CASE p.ws.collab # "listening"
  BY <1>1 DEF OnChange
<1>2. CASE p.ws.collab = "listening"
  <2>1. p.ws.phase # "closed"
    BY <1>2, WorkspaceOfSound
  <2>2. Sound(q) /\ q.text = p.text /\ q.ws.phase # "closed"
    <3>1. (IF p.ws.completing THEN "syncing" ELSE PhaseOf(p.link)) # "closed"
      BY PhaseIsOpen
    <3> QED
      BY <2>1, <3>1, PublishedIsSound DEF Alongside
  <2> HIDE DEF q
  <2>3. q.ws.meeting # Nothing => Sound(r) /\ r.text = p.text /\ r.ws.phase # "closed"
    BY <2>2, NotedIsSound
  <2>4. /\ Sound(CompletedElsewhere(p, "elsewhere")) /\ Sound(AccessLost(p))
        /\ Sound(Fail(p, "integrity")) /\ Sound(Refresh(q))
        /\ Refresh(q).text = p.text /\ Refresh(q).ws.phase # "closed"
    BY <2>1, <2>2, CompletedElsewhereIsSound, AccessLostIsSound, FailIsSound, RefreshIsSound
       DEF Categories
  <2> HIDE DEF r
  <2>5. Sound(OnChange(p, change))
    BY <1>2, <2>2, <2>3, <2>4 DEF OnChange, q, r
  <2>6. ASSUME p.link.state \in {"connecting", "online", "offline"}
        PROVE  OnChange(p, change).text = p.text /\ OnChange(p, change).ws.phase # "closed"
    BY <1>2, <2>2, <2>3, <2>4, <2>6 DEF OnChange, q, r
  <2> QED
    BY <2>5, <2>6
<1> QED
  BY <1>1, <1>2

LEMMA StatusChangedIsSound ==
    ASSUME NEW p, Sound(p)
    PROVE  Sound(StatusChanged(p))
  BY OnChangeIsSound, PerformLockIsSound DEF StatusChanged

LEMMA MergedIsSound ==
    ASSUME NEW p, Sound(p), p.text.session, p.ws.phase # "closed", "state" \in DOMAIN p.link
    PROVE  /\ Sound(Merged(p))
           /\ Live(p.link) => Merged(p).text = p.text /\ Merged(p).ws.phase # "closed"
<1> DEFINE q == [p EXCEPT !.link.note = @ \cup server.note]
           l == [p.link EXCEPT !.note = @ \cup server.note]
<1>1. "state" \in DOMAIN l /\ l.state = p.link.state /\ q = [p EXCEPT !.link = l]
  BY WorkspaceOfSound DEF PageFields
<1> HIDE DEF l, q
<1>2. Sound(q) /\ q.text = p.text /\ q.ws = p.ws /\ q.link = l
  BY <1>1, LinkIsSound
<1>3. /\ Sound(OnChange(q, "document"))
      /\ Live(p.link) => /\ OnChange(q, "document").text = p.text
                         /\ OnChange(q, "document").ws.phase # "closed"
  <2>1. /\ q.ws.phase # "closed"
        /\ Live(p.link) => q.link.state \in {"connecting", "online", "offline"}
    BY <1>1, <1>2 DEF Live
  <2> HIDE DEF Live
  <2>2. /\ Sound(OnChange(q, "document"))
        /\ Live(p.link) => /\ OnChange(q, "document").text = q.text
                           /\ OnChange(q, "document").ws.phase # "closed"
    BY <1>2, <2>1, OnChangeIsSound
  <2> QED
    BY <1>2, <2>2
<1>4. Merged(p) = p \/ Merged(p) = OnChange(q, "document")
  BY Zenon DEF Merged, q
<1> QED
  BY <1>3, <1>4

LEMMA LoopEndIsSound ==
    ASSUME NEW p, Sound(p), NEW again
    PROVE  Sound(LoopEnd(p, again))
<1> DEFINE q == [p EXCEPT !.ws.refreshing = FALSE, !.ws.writes = 0]
           r == [p EXCEPT !.ws.requested = FALSE]
           t(pending) == [q EXCEPT !.ws.pending = pending]
<1>1. Furnished(p, q) /\ Furnished(p, r)
  BY WorkspaceOfSound DEF PageFields, WorkspaceFields, Furnished, Alongside
<1> HIDE DEF q, r
<1>2. Sound(q) /\ Sound(r) /\ r.ws.phase = p.ws.phase
  BY <1>1, FurnishedIsSound DEF Furnished
<1>3. ASSUME NEW pending PROVE Sound(t(pending))
  <2>1. Furnished(q, t(pending))
    BY <1>2, WorkspaceOfSound DEF PageFields, WorkspaceFields, Furnished, Alongside
  <2> QED
    BY <1>2, <2>1, FurnishedIsSound
<1>4. p.ws.phase # "closed" => Sound(Reload(r, "refresh"))
  BY <1>2, ReloadIsSound
<1> HIDE DEF t
<1> QED
  BY <1>3, <1>4 DEF LoopEnd, q, r, t

LEMMA ShownIsSound ==
    ASSUME NEW p, Sound(p), NEW got, Reading(got, p.text.session), NEW phase,
           NEW overtaken, p.ws.phase # "closed", phase # "closed"
    PROVE  Sound(Shown(p, got, phase, overtaken))
<1> DEFINE q == Published(p, IF p.ws.completing THEN "syncing" ELSE phase)
           r == [q EXCEPT !.ws.meeting = got, !.ws.failed = overtaken]
<1>1. Sound(q) /\ q.text = p.text /\ q.ws.phase # "closed"
  <2>1. (IF p.ws.completing THEN "syncing" ELSE phase) # "closed"
    OBVIOUS
  <2> QED
    BY <2>1, PublishedIsSound DEF Alongside
<1> HIDE DEF q
<1>2. /\ Alongside(q, r) /\ r.link = q.link /\ r.ws.phase = q.ws.phase
      /\ r.ws.collab = q.ws.collab /\ r.ws.meeting = got
  BY <1>1, WorkspaceOfSound DEF PageFields, WorkspaceFields, Alongside
<1> HIDE DEF r
<1>3. Sound(r)
  BY <1>1, <1>2, ShelvedIsSound
<1> QED
  BY <1>3 DEF Shown, q, r

LEMMA LoadedIsSound ==
    ASSUME NEW p, Sound(p), NEW c, Reading(c.got, p.text.session), p.ws.phase # "closed"
    PROVE  Sound(Loaded(p, c))
<1> DEFINE a == [p EXCEPT !.ws.collab = "listening"]
           phase(q) == IF ~TextUnlocked(q) THEN "locked"
                       ELSE IF q.ws.collab = "none" THEN "ready" ELSE PhaseOf(q.link)
           x(q) == Shown(q, c.got, phase(q), c.for = "open" /\ p.ws.meeting # Nothing)
           f(q) == IF c.for = "refresh" /\ q.ws.requested THEN q ELSE x(q)
<1>1. /\ Alongside(p, a) /\ a.link = p.link /\ a.ws.phase = p.ws.phase
      /\ a.ws.meeting = p.ws.meeting
  BY WorkspaceOfSound DEF PageFields, WorkspaceFields, Alongside
<1> HIDE DEF a
<1>2. Sound(a) /\ a.text = p.text /\ a.ws.phase # "closed"
  BY <1>1, ShelvedIsSound DEF Alongside
<1>3. phase(a) # "closed" /\ phase(p) # "closed"
  BY PhaseIsOpen
<1> HIDE DEF phase
<1>4. Sound(x(a)) /\ Sound(x(p))
  BY <1>2, <1>3, ShownIsSound
<1> HIDE DEF x
<1>5. Sound(f(a)) /\ Sound(f(p))
  BY <1>2, <1>4
<1>6. /\ Sound(CompletedElsewhere(p, "elsewhere")) /\ Sound(CompletedElsewhere(a, "elsewhere"))
      /\ Sound(AccessLost(PerformLock(p, "authorization-loss")))
      /\ Sound(AccessLost(PerformLock(a, "authorization-loss")))
      /\ Sound(Fail(p, "integrity")) /\ Sound(Fail(a, "integrity"))
  BY <1>2, CompletedElsewhereIsSound, AccessLostIsSound, PerformLockIsSound, FailIsSound
     DEF Categories
<1> HIDE DEF f
<1> QED
  BY <1>2, <1>5, <1>6 DEF Loaded, f, x, phase, a

LEMMA StoredShownIsSound ==
    ASSUME NEW p, Sound(p), NEW c, Reading(c.got, p.text.session), p.ws.phase # "closed"
    PROVE  Sound(StoredShown(p, c))
<1>1. Sound(Fail(p, "integrity"))
  BY FailIsSound DEF Categories
<1> DEFINE a == [p EXCEPT !.ws.phase = IF TextUnlocked(p) THEN "ready" ELSE "locked",
                          !.ws.meeting = c.got]
           b == [a EXCEPT !.ws.pending = FALSE]
           q == [b EXCEPT !.ws.notice = IF c.for = "complete" THEN "none" ELSE @]
<1>2. /\ Alongside(p, a) /\ a.link = p.link /\ a.ws.phase # "closed"
      /\ a.ws.collab = p.ws.collab /\ a.ws.meeting = c.got
  BY WorkspaceOfSound DEF PageFields, WorkspaceFields, Alongside
<1> HIDE DEF a
<1>3. Sound(a)
  BY <1>2, ShelvedIsSound
<1>4. Furnished(a, b)
  BY <1>3, WorkspaceOfSound DEF PageFields, WorkspaceFields, Furnished, Alongside
<1> HIDE DEF b
<1>5. Sound(b)
  BY <1>3, <1>4, FurnishedIsSound
<1>6. Furnished(b, q)
  BY <1>5, WorkspaceOfSound DEF PageFields, WorkspaceFields, Furnished, Alongside
<1> HIDE DEF q
<1>7. Sound(q)
  BY <1>5, <1>6, FurnishedIsSound
<1>8. CASE ~c.got.done
  BY <1>1, <1>8 DEF StoredShown
<1>9. CASE c.got.done
  <2>1. StoredShown(p, c) = q
    BY <1>9, Zenon DEF StoredShown, q, b, a
  <2> QED
    BY <1>7, <2>1
<1> QED
  BY <1>8, <1>9

\* Who completed the Meeting goes on.
CompletionOver(p, c) == [p EXCEPT !.ws.completing = @ /\ c.for \notin {"complete", "lostAnswer"}]

LEMMA CompletionOverIsSound ==
    ASSUME NEW p, Sound(p), NEW c
    PROVE  LET q == CompletionOver(p, c)
           IN Sound(q) /\ q.text = p.text /\ q.ws.phase = p.ws.phase
<1> DEFINE over == c.for \notin {"complete", "lostAnswer"}
           q == CompletionOver(p, c)
<1>1. Furnished(p, q)
  <2> HIDE DEF over
  <2>1. q = [p EXCEPT !.ws.completing = @ /\ over]
    BY DEF CompletionOver, over
  <2> HIDE DEF q
  <2> QED
    BY <2>1, WorkspaceOfSound DEF PageFields, WorkspaceFields, Furnished, Alongside
<1> HIDE DEF q
<1>2. Sound(q)
  BY <1>1, FurnishedIsSound
<1> QED
  BY <1>1, <1>2 DEF q, Furnished, Alongside

LEMMA ResumeIsSound ==
    ASSUME NEW p, Sound(p), NEW c, Reading(c.got, p.text.session)
    PROVE  Sound(Resume(p, c))
<1>1. Sound(LoopEnd(p, FALSE))
  BY LoopEndIsSound
<1>2. CASE ~Current(c) \/ p.ws.phase = "closed"
  BY <1>1, <1>2 DEF Resume
<1>3. CASE ~(~Current(c) \/ p.ws.phase = "closed")
  <2>1. /\ Sound(Loaded(p, c)) /\ Sound(LoopEnd(Loaded(p, c), TRUE))
        /\ Sound(StoredShown(CompletionOver(p, c), c))
    BY <1>3, LoopEndIsSound, LoadedIsSound, StoredShownIsSound, CompletionOverIsSound
  <2>2. \/ Resume(p, c) = Loaded(p, c) \/ Resume(p, c) = LoopEnd(Loaded(p, c), TRUE)
        \/ Resume(p, c) = StoredShown(CompletionOver(p, c), c)
    BY <1>3 DEF Resume, CompletionOver
  <2> QED
    BY <2>1, <2>2
<1> QED
  BY <1>2, <1>3

LEMMA FailedIsSound ==
    ASSUME NEW p, Sound(p), NEW c, NEW category \in Categories,
           Current(c) => p.ws.phase # "closed"
    PROVE  Sound(Failed(p, c, category))
<1> DEFINE q == IF Current(c) THEN Fail(p, category) ELSE p
<1>1. Sound(q)
  BY FailIsSound
<1> HIDE DEF q
<1>2. Sound(LoopEnd(q, FALSE)) /\ Sound(CompletionOver(q, c))
  BY <1>1, LoopEndIsSound, CompletionOverIsSound
<1> QED
  BY <1>2 DEF Failed, q, CompletionOver

LEMMA WrittenIsSound ==
    ASSUME NEW p, Sound(p), p.link # Nothing, NEW e
    PROVE  Sound(Written(p, e))
<1> DEFINE l == [p.link EXCEPT !.note = @ \cup {e}, !.unsent = @ \cup {e}]
           q == [p EXCEPT !.link.note = @ \cup {e}, !.link.unsent = @ \cup {e}]
<1>1. "state" \in DOMAIN l /\ q = [p EXCEPT !.link = l]
  BY WorkspaceOfSound DEF PageFields
<1> HIDE DEF l, q
<1>2. Sound(q)
  BY <1>1, LinkIsSound, WorkspaceOfSound
<1>3. Sound(OnChange(StatusChanged(q), "document"))
  BY <1>2, StatusChangedIsSound, OnChangeIsSound
<1> QED
  BY <1>3 DEF Written, q

LEMMA AnnouncedIsSound ==
    ASSUME NEW p, Sound(p)
    PROVE  Sound(Announced(p))
<1> DEFINE l == [p.link EXCEPT !.told = TRUE]
           q == [p EXCEPT !.link.told = TRUE]
<1>1. p.link # Nothing => "state" \in DOMAIN l /\ q = [p EXCEPT !.link = l]
  BY WorkspaceOfSound DEF PageFields
<1> HIDE DEF l, q
<1>2. p.link # Nothing => Sound(q)
  BY <1>1, LinkIsSound, WorkspaceOfSound
<1> QED
  BY <1>2 DEF Announced, q

LEMMA ClosedIsSound ==
    ASSUME NEW p, Sound(p)
    PROVE  Sound(Closed(p))
<1> DEFINE d == Disposed(p)
           w(completing) == [ClosedWorkspace EXCEPT !.closing = p.ws.closing,
                                                    !.completing = completing]
           q(completing) == [d EXCEPT !.ws = w(completing)]
<1>1. Sound(d) /\ d.link = Nothing /\ Late(d) /\ \A c \in d.calls : c.kind # "load"
  BY DisposedIsSound
<1>2. Closed(p) = q(d.ws.completing)
  BY DEF Closed
<1> HIDE DEF d
<1>3. ASSUME NEW completing PROVE Sound(q(completing))
  <2>1. /\ Alongside(d, q(completing)) /\ q(completing).link = Nothing
        /\ q(completing).ws.phase = "closed" /\ q(completing).ws.meeting = Nothing
        /\ q(completing).ws.collab = "none"
    BY <1>1, WorkspaceOfSound DEF PageFields, WorkspaceFields, ClosedWorkspace, Alongside
  <2> HIDE DEF q
  <2>2. \A c \in q(completing).calls : Errand(c, q(completing), d.text.session)
    BY <1>1, <2>1 DEF Sound, Workspace, Errand, Late, Alongside
  <2>3. Workspace(q(completing), d.text.session)
    BY <1>1, <2>1, <2>2 DEF Workspace, Alongside
  <2> QED
    BY <1>1, <2>1, <2>3, AlongsideIsSound
<1> QED
  BY <1>2, <1>3

LEMMA CloseSettledIsSound ==
    ASSUME NEW p, Sound(p), NEW purposes
    PROVE  Sound(CloseSettled(p, purposes))
  BY LeftIsSound, PerformLockIsSound DEF CloseSettled

LEMMA CloseStartedIsSound ==
    ASSUME NEW p, Sound(p), NEW purpose
    PROVE  Sound(CloseStarted(p, purpose))
<1> DEFINE waiting == {c \in p.calls : c.kind = "close" /\ c.here}
           q == [p EXCEPT !.ws.closing = TRUE, !.ws.pending = Unsaved(p)]
           joined == [p EXCEPT !.calls = {IF c \in waiting
                                 THEN [c EXCEPT !.for = @ \cup {purpose}] ELSE c : c \in @}]
           close == [kind |-> "close", for |-> {purpose}, here |-> TRUE, asked |-> FALSE]
<1>1. Sound(q)
  <2>1. PICK pending : q = [p EXCEPT !.ws.closing = TRUE, !.ws.pending = pending]
    OBVIOUS
  <2> HIDE DEF q
  <2>2. Furnished(p, q)
    BY <2>1, WorkspaceOfSound DEF PageFields, WorkspaceFields, Furnished, Alongside
  <2> QED
    BY <2>2, FurnishedIsSound
<1>2. Sound(joined)
  <2>1. Aside(p, joined) /\ Workspace(joined, p.text.session)
    <3>1. ASSUME NEW c \in waiting PROVE Plain([c EXCEPT !.for = @ \cup {purpose}])
      BY SoundIsWhole DEF Whole, Plain, Bare
    <3>2. /\ DOMAIN joined = PageFields /\ joined.text = p.text /\ joined.route = p.route
          /\ joined.screen = p.screen /\ joined.ws = p.ws /\ joined.link = p.link
          /\ joined.calls = {IF c \in waiting THEN [c EXCEPT !.for = @ \cup {purpose}]
                             ELSE c : c \in p.calls}
      BY TextOfSound DEF PageFields
    <3> HIDE DEF waiting, joined
    <3>3. \A c \in joined.calls : c \in p.calls \/ Plain(c)
      BY <3>1, <3>2
    <3> QED
      BY <3>2, <3>3, WorkspaceStays DEF Aside, KeptScreen, Plain, Sound
  <2> QED
    BY <2>1, AsideIsSound
<1>3. Plain(close)
  BY DEF Plain, Bare
<1> HIDE DEF waiting, q, joined, close
<1>4. /\ Sound(CloseSettled(p, {purpose})) /\ Sound(CloseSettled(Closed(q), {purpose}))
      /\ Sound(WithCall(q, close))
  BY <1>1, <1>3, CloseSettledIsSound, ClosedIsSound, WithPlainIsSound
<1> QED
  BY <1>2, <1>4 DEF CloseStarted, waiting, q, joined, close


\* Its actions.  A call that carries no epoch, and is no errand, may change as it
\* likes.
LEMMA PlainAgain ==
    ASSUME Sound(Page), NEW c \in calls, c.kind \in {"change", "close"},
           NEW d, DOMAIN d = DOMAIN c, d.kind = c.kind
    PROVE  Plain(d) /\ Sound(WithoutCall(Page, c)) /\ Sound(WithCall(WithoutCall(Page, c), d))
<1>1. Plain(d)
  BY PageText DEF Plain, Bare, Sound, Call
<1> QED
  BY <1>1, WithoutCallIsSound, WithPlainIsSound

\* What the page says of its workspace, and of the load that it awaits.
LEMMA PageWorkspace ==
    ASSUME Sound(Page)
    PROVE  /\ Page.ws = ws /\ Page.link = link /\ Page.calls = calls /\ Page.text = text
           /\ link # Nothing => text.session /\ ws.phase # "closed" /\ "state" \in DOMAIN link
           /\ ws.meeting # Nothing => ws.phase # "closed" /\ Reading(ws.meeting, text.session)
           /\ ws.phase # "closed" => route = "meeting"
           /\ text.scalarEpoch # 0 => text.session
           /\ \A c \in calls : "kind" \in DOMAIN c /\ Errand(c, Page, text.session)
<1>1. Page.ws = ws /\ Page.link = link /\ Page.calls = calls /\ Page.text = text /\ Page.route = route
  BY DEF Page
<1>2. text.scalarEpoch # 0 => text.session
  BY <1>1 DEF Sound, Text
<1>3. \A c \in calls : "kind" \in DOMAIN c /\ Errand(c, Page, text.session)
  BY <1>1 DEF Sound, Call, Workspace
<1> QED
  BY <1>1, <1>2, <1>3, WorkspaceOfSound

LEMMA LoadAwaited ==
    ASSUME Sound(Page), NEW c \in calls, c.kind = "load"
    PROVE  LET p == WithoutCall(Page, c)
           IN /\ Sound(p) /\ p.text = text /\ p.ws = ws /\ p.link = link
              /\ DOMAIN c = LoadFields /\ p.ws.phase # "closed"
              /\ c.stage # "asked" => Reading(c.got, p.text.session)
              /\ c.stage = "joining" => p.text.session
<1>1. Errand(c, Page, text.session) /\ Page.ws = ws /\ Page.link = link /\ Page.text = text
  BY PageWorkspace
<1>2. /\ DOMAIN c = LoadFields /\ ws.phase # "closed"
      /\ c.stage # "asked" => Reading(c.got, text.session)
      /\ c.stage = "joining" => text.session
  BY <1>1 DEF Errand
<1> QED
  BY <1>1, <1>2, WithoutCallIsSound

LEMMA ServerFieldKept ==
    ASSUME Backend, NEW field \in {"rev", "done", "note", "drawn"}, NEW v,
           server' = [server EXCEPT ![field] = v]
    PROVE  ServerKept
  BY DEF Backend, ServerKept, ServerFields

LEMMA LoadReadKeeps ==
    ASSUME TabInv, UNCHANGED recoveryVars, NEW c \in calls, LoadRead(c)
    PROVE  TabInv'
<1> DEFINE p == WithoutCall(Page, c)
           live == Live(link) /\ text.scalarEpoch # 0
           q == IF live THEN Merged(p) ELSE p
<1>1. c.kind = "load" /\ UNCHANGED server
  BY DEF LoadRead
<1>2. /\ Sound(p) /\ p.text = text /\ p.ws = ws /\ p.link = link
      /\ DOMAIN c = LoadFields /\ p.ws.phase # "closed"
  BY <1>1, LoadAwaited DEF TabInv
<1>3. PICK got : /\ \/ Become(WithCall(q, [c EXCEPT !.stage = "read", !.got = got]))
                    \/ Become(q)
                 /\ DOMAIN got = {"rev", "note", "done", "plain"}
                 /\ got.plain <=> text.scalarEpoch # 0
  <2> DEFINE note == IF text.scalarEpoch = 0 THEN {}
                     ELSE IF Live(link) THEN link.note \cup server.note ELSE server.note
             read == [rev |-> server.rev, note |-> note, done |-> server.done,
                      plain |-> text.scalarEpoch # 0]
             stays == ~Current(c) \/ q.ws.phase = p.ws.phase \/ q.ws.phase # "closed"
  <2>1. Become(IF stays THEN WithCall(q, [c EXCEPT !.stage = "read", !.got = read]) ELSE q)
    BY DEF LoadRead
  <2>2. DOMAIN read = {"rev", "note", "done", "plain"} /\ (read.plain <=> text.scalarEpoch # 0)
    OBVIOUS
  <2> HIDE DEF read, stays, p, q
  <2> QED
    BY <2>1, <2>2
<1> DEFINE d == [c EXCEPT !.stage = "read", !.got = got]
<1>4. d.kind = "load" /\ DOMAIN d = LoadFields /\ d.stage = "read" /\ d.got = got
  BY <1>1, <1>2 DEF LoadFields
<1> HIDE DEF p, live, d
<1>5. Sound(q) /\ q.text = text /\ q.ws.phase # "closed"
  <2>1. CASE live
    <3>1. Live(p.link) /\ p.text.session /\ "state" \in DOMAIN p.link
      BY <1>2, <2>1, PageWorkspace DEF TabInv, live, Live
    <3> QED
      BY <1>2, <2>1, <3>1, MergedIsSound
  <2> QED
    BY <1>2, <2>1
<1> HIDE DEF q
<1>6. Sound(WithCall(q, d))
  <2>1. text.scalarEpoch # 0 => text.session
    BY PageWorkspace DEF TabInv
  <2>2. Reading(d.got, q.text.session)
    BY <1>3, <1>4, <1>5, <2>1 DEF Reading
  <2>3. Errand(d, q, q.text.session) /\ "kind" \in DOMAIN d
    BY <1>4, <1>5, <2>2 DEF Errand, LoadFields
  <2> QED
    BY <1>4, <1>5, <2>3, WithErrandIsSound
<1>7. Become(WithCall(q, d)) \/ Become(q)
  BY <1>3 DEF d
<1> QED
  BY <1>1, <1>5, <1>6, <1>7, CalmStep DEF TabInv

LEMMA LoadArrivesKeeps ==
    ASSUME TabInv, UNCHANGED recoveryVars, NEW c \in calls, LoadArrives(c)
    PROVE  TabInv'
<1> DEFINE p == WithoutCall(Page, c)
           l == Connecting(c.got.note)
           q == [p EXCEPT !.link = l]
           d == [c EXCEPT !.stage = "joining"]
<1>1. /\ c.kind = "load" /\ c.stage = "read" /\ UNCHANGED server
      /\ \/ text.scalarEpoch # 0 /\ Become(WithCall(q, d))
         \/ Become(Resume(p, c))
  BY DEF LoadArrives
<1>2. /\ Sound(p) /\ p.text = text /\ DOMAIN c = LoadFields /\ p.ws.phase # "closed"
      /\ Reading(c.got, p.text.session)
  BY <1>1, LoadAwaited DEF TabInv
<1>3. Sound(Resume(p, c))
  BY <1>2, ResumeIsSound
<1>4. ASSUME text.scalarEpoch # 0 PROVE Sound(WithCall(q, d))
  <2>1. text.session /\ "state" \in DOMAIN l
    BY <1>4, PageWorkspace DEF TabInv, Connecting
  <2>2. d.kind = "load" /\ DOMAIN d = LoadFields /\ d.stage = "joining" /\ d.got = c.got
    BY <1>1, <1>2 DEF LoadFields
  <2> HIDE DEF p, l, d
  <2>3. Sound(q) /\ q.text = text /\ q.ws = p.ws
    BY <1>2, <2>1, LinkIsSound
  <2> HIDE DEF q
  <2>4. Errand(d, q, q.text.session) /\ "kind" \in DOMAIN d
    BY <1>2, <2>1, <2>2, <2>3 DEF Errand, LoadFields
  <2> QED
    BY <2>2, <2>3, <2>4, WithErrandIsSound
<1> HIDE DEF p, q, d
<1> QED
  BY <1>1, <1>3, <1>4, CalmStep DEF TabInv

LEMMA TicketAnsweredKeeps ==
    ASSUME TabInv, UNCHANGED recoveryVars, NEW c \in calls, TicketAnswered(c)
    PROVE  TabInv'
<1> DEFINE p == WithoutCall(Page, c)
           r(l) == Resume([p EXCEPT !.link = l], c)
           joined(l) == "state" \in DOMAIN l
<1>1. c.kind = "load" /\ c.stage = "joining"
  BY DEF TicketAnswered
<1>2. /\ Sound(p) /\ p.link = link /\ p.ws.phase # "closed" /\ p.text.session
      /\ Reading(c.got, p.text.session)
  BY <1>1, LoadAwaited DEF TabInv
<1>3. ASSUME NEW l, joined(l) \/ l = link PROVE Sound(r(l))
  <2>1. PICK q : q = [p EXCEPT !.link = l]
    OBVIOUS
  <2> HIDE DEF p
  <2>2. Sound(q) /\ q.text = p.text
    BY <1>2, <1>3, <2>1, LinkIsSound
  <2>3. Sound(Resume(q, c))
    BY <1>2, <2>2, ResumeIsSound
  <2> QED
    BY <2>1, <2>3
<1>4. Sound(Resume(p, c)) /\ Sound(PerformLock(p, "authorization-loss"))
  BY <1>2, ResumeIsSound, PerformLockIsSound
<1>5. /\ UNCHANGED server
      /\ \/ Become(PerformLock(p, "authorization-loss")) \/ Become(Resume(p, c))
         \/ link # Nothing /\ Become(r(Terminated(link, "completed")))
         \/ link # Nothing /\ Become(r([link EXCEPT !.state = "offline"]))
  BY DEF TicketAnswered
<1>6. link # Nothing => /\ joined(Terminated(link, "completed"))
                        /\ joined([link EXCEPT !.state = "offline"])
  BY PageWorkspace DEF TabInv, Terminated
<1> HIDE DEF p, r, joined
<1> QED
  BY <1>3, <1>4, <1>5, <1>6, CalmStep DEF TabInv

LEMMA LoadFailsKeeps ==
    ASSUME TabInv, UNCHANGED recoveryVars, NEW c \in calls, LoadFails(c)
    PROVE  TabInv'
<1> DEFINE p == WithoutCall(Page, c)
           d == [c EXCEPT !.current = FALSE]
           r == Failed(PerformLock(p, "authorization-loss"), d, "access")
<1>1. c.kind = "load"
  BY DEF LoadFails
<1>2. Sound(p) /\ DOMAIN c = LoadFields /\ p.ws.phase # "closed"
  BY <1>1, LoadAwaited DEF TabInv
<1>3. /\ UNCHANGED server
      /\ Become(r) \/ \E category \in Categories : Become(Failed(p, c, category))
  BY DEF LoadFails, p, Categories
<1>4. ~Current(d)
  BY <1>2 DEF Current, LoadFields
<1> HIDE DEF p, d
<1>5. Sound(r) /\ \A category \in Categories : Sound(Failed(p, c, category))
  BY <1>2, <1>4, FailedIsSound, PerformLockIsSound DEF Categories
<1> HIDE DEF r
<1> QED
  BY <1>3, <1>5, CalmStep DEF TabInv

LEMMA RetryKeeps ==
    ASSUME TabInv, UNCHANGED recoveryVars, Retry
    PROVE  TabInv'
  BY OpenedIsSound, CalmStep, PageText DEF Retry, TabInv

LEMMA DismissNoticeKeeps ==
    ASSUME TabInv, UNCHANGED recoveryVars, DismissNotice
    PROVE  TabInv'
<1> DEFINE p == [Page EXCEPT !.notices = "none", !.ws.notice = "none"]
<1>1. Furnished(Page, p)
  BY WorkspaceOfSound DEF TabInv, PageFields, WorkspaceFields, Furnished, Alongside
<1>2. Become(p) /\ UNCHANGED server
  BY DEF DismissNotice
<1> HIDE DEF p
<1> QED
  BY <1>1, <1>2, FurnishedIsSound, CalmStep DEF TabInv

\* The provider has news.
LEMMA NewsIsSound ==
    ASSUME Sound(Page), NEW l, l = Nothing \/ (link # Nothing /\ "state" \in DOMAIN l)
    PROVE  LET o == [Page EXCEPT !.link = l]
           IN Sound(o) /\ o.text = text /\ o.ws = ws /\ o.link = l
<1>1. l = Nothing \/ (Page.text.session /\ Page.ws.phase # "closed" /\ "state" \in DOMAIN l)
  BY PageWorkspace
<1>2. LET o == [Page EXCEPT !.link = l]
      IN Sound(o) /\ o.text = Page.text /\ o.ws = Page.ws /\ o.link = l
  BY <1>1, LinkIsSound
<1> QED
  BY <1>2, PageWorkspace

\* What it says of itself the workspace is told.
LEMMA NewsKeeps ==
    ASSUME TabInv, NEW l, link # Nothing, "state" \in DOMAIN l, ServerKept,
           UNCHANGED recoveryVars, NEW o, o = [Page EXCEPT !.link = l],
           \/ Become(StatusChanged(o))
           \/ \E change : Become(OnChange(o, change))
    PROVE  TabInv'
<1>1. Sound(o)
  BY NewsIsSound DEF TabInv
<1> QED
  BY <1>1, StatusChangedIsSound, OnChangeIsSound, KeptStep DEF TabInv

LEMMA LinkJoinsKeeps ==
    ASSUME TabInv, UNCHANGED recoveryVars, LinkJoins
    PROVE  TabInv'
<1> DEFINE l == [link EXCEPT !.state = "online", !.paused = FALSE]
           o == [Page EXCEPT !.link.state = "online", !.link.paused = FALSE]
           p == StatusChanged(Merged(o))
<1>1. link # Nothing
  BY DEF LinkJoins
<1>2. /\ "state" \in DOMAIN l /\ o = [Page EXCEPT !.link = l]
      /\ text.session /\ ws.phase # "closed"
  BY <1>1, PageWorkspace, WorkspaceOfSound DEF TabInv, PageFields
<1>3. UNCHANGED server /\ (Become(p) \/ Become(OnChange(p, "structure")))
  BY DEF LinkJoins, p, o
<1> HIDE DEF l, o
<1>4. Sound(o) /\ o.text = text /\ o.ws = ws /\ o.link = l
  BY <1>1, <1>2, NewsIsSound DEF TabInv
<1>5. Sound(p)
  BY <1>2, <1>4, MergedIsSound, StatusChangedIsSound
<1> HIDE DEF p
<1>6. Sound(OnChange(p, "structure"))
  BY <1>5, OnChangeIsSound
<1> QED
  BY <1>3, <1>5, <1>6, CalmStep DEF TabInv

LEMMA LinkDropsKeeps ==
    ASSUME TabInv, UNCHANGED recoveryVars, LinkDrops
    PROVE  TabInv'
<1> DEFINE l == [link EXCEPT !.state = "offline", !.told = FALSE]
           o == [Page EXCEPT !.link.state = "offline", !.link.told = FALSE]
<1>1. link # Nothing /\ UNCHANGED server /\ Become(StatusChanged(o))
  BY DEF LinkDrops
<1>2. "state" \in DOMAIN l /\ o = [Page EXCEPT !.link = l]
  BY <1>1, PageWorkspace, WorkspaceOfSound DEF TabInv, PageFields
<1>3. ServerKept
  BY <1>1, ServerStays DEF TabInv
<1> HIDE DEF l, o
<1> QED
  BY <1>1, <1>2, <1>3, NewsKeeps

LEMMA LinkAcknowledgedKeeps ==
    ASSUME TabInv, UNCHANGED recoveryVars, LinkAcknowledged
    PROVE  TabInv'
<1>1. PICK e : /\ link # Nothing
               /\ server' = [server EXCEPT !.note = @ \cup {e}]
               /\ Become(StatusChanged([Page EXCEPT !.link.unsent = @ \ {e}]))
  BY DEF LinkAcknowledged
<1> DEFINE l == [link EXCEPT !.unsent = @ \ {e}]
           o == [Page EXCEPT !.link.unsent = @ \ {e}]
<1>2. "state" \in DOMAIN l /\ o = [Page EXCEPT !.link = l]
  BY <1>1, PageWorkspace, WorkspaceOfSound DEF TabInv, PageFields
<1>3. ServerKept
  BY <1>1, ServerFieldKept DEF TabInv
<1>4. Become(StatusChanged(o))
  BY <1>1
<1> HIDE DEF l, o
<1> QED
  BY <1>1, <1>2, <1>3, <1>4, NewsKeeps

LEMMA LinkReceivesKeeps ==
    ASSUME TabInv, UNCHANGED recoveryVars, LinkReceives
    PROVE  TabInv'
<1>1. link # Nothing /\ Become(Merged(Page)) /\ UNCHANGED server
  BY DEF LinkReceives
<1>2. Page.text.session /\ Page.ws.phase # "closed" /\ "state" \in DOMAIN Page.link
  BY <1>1, PageWorkspace DEF TabInv
<1>3. Sound(Merged(Page))
  BY <1>2, MergedIsSound DEF TabInv
<1> QED
  BY <1>1, <1>3, CalmStep DEF TabInv

LEMMA LinkToldKeeps ==
    ASSUME TabInv, UNCHANGED recoveryVars, LinkTold
    PROVE  TabInv'
<1> DEFINE l == [link EXCEPT !.told = FALSE]
           o == [Page EXCEPT !.link.told = FALSE]
<1>1. link # Nothing /\ UNCHANGED server /\ Become(OnChange(o, "structure"))
  BY DEF LinkTold
<1>2. "state" \in DOMAIN l /\ o = [Page EXCEPT !.link = l]
  BY <1>1, PageWorkspace, WorkspaceOfSound DEF TabInv, PageFields
<1>3. ServerKept
  BY <1>1, ServerStays DEF TabInv
<1> HIDE DEF l, o
<1> QED
  BY <1>1, <1>2, <1>3, NewsKeeps

LEMMA LinkPausedKeeps ==
    ASSUME TabInv, UNCHANGED recoveryVars, LinkPaused
    PROVE  TabInv'
<1> DEFINE l == [link EXCEPT !.paused = ~@]
           o == [Page EXCEPT !.link.paused = ~@]
<1>1. link # Nothing /\ UNCHANGED server /\ Become(StatusChanged(o))
  BY DEF LinkPaused
<1>2. "state" \in DOMAIN l /\ o = [Page EXCEPT !.link = l]
  BY <1>1, PageWorkspace, WorkspaceOfSound DEF TabInv, PageFields
<1>3. ServerKept
  BY <1>1, ServerStays DEF TabInv
<1> HIDE DEF l, o
<1> QED
  BY <1>1, <1>2, <1>3, NewsKeeps

LEMMA LinkEndsKeeps ==
    ASSUME TabInv, UNCHANGED recoveryVars, LinkEnds
    PROVE  TabInv'
<1> DEFINE l(state) == Terminated(link, state)
           o(state) == [Page EXCEPT !.link = Terminated(@, state)]
<1>1. /\ link # Nothing /\ UNCHANGED server
      /\ (Become(StatusChanged(o("completed"))) \/ Become(StatusChanged(o("access"))))
  BY DEF LinkEnds
<1>2. ASSUME NEW state PROVE "state" \in DOMAIN l(state) /\ o(state) = [Page EXCEPT !.link = l(state)]
  BY <1>1, PageWorkspace DEF TabInv, Terminated
<1>3. ServerKept
  BY <1>1, ServerStays DEF TabInv
<1> HIDE DEF l, o
<1> QED
  BY <1>1, <1>2, <1>3, NewsKeeps

LEMMA LinkRejectedKeeps ==
    ASSUME TabInv, UNCHANGED recoveryVars, LinkRejected
    PROVE  TabInv'
<1> DEFINE l == [link EXCEPT !.state = "integrity"]
           o == [Page EXCEPT !.link.state = "integrity"]
<1>1. link # Nothing /\ UNCHANGED server /\ Become(StatusChanged(o))
  BY DEF LinkRejected
<1>2. "state" \in DOMAIN l /\ o = [Page EXCEPT !.link = l]
  BY <1>1, PageWorkspace, WorkspaceOfSound DEF TabInv, PageFields
<1>3. ServerKept
  BY <1>1, ServerStays DEF TabInv
<1> HIDE DEF l, o
<1> QED
  BY <1>1, <1>2, <1>3, NewsKeeps

LEMMA TypeKeeps ==
    ASSUME TabInv, UNCHANGED recoveryVars, NEW e, Type(e)
    PROVE  TabInv'
<1>1. ServerKept
  BY ServerFieldKept DEF TabInv, Type
<1>2. Page.link # Nothing /\ Become(Written(Page, e))
  BY PageWorkspace DEF Type, Live, TabInv
<1> QED
  BY <1>1, <1>2, WrittenIsSound, KeptStep DEF TabInv

LEMMA UpdateTextKeeps ==
    ASSUME TabInv, UNCHANGED recoveryVars, NEW e, UpdateText(e)
    PROVE  TabInv'
<1> DEFINE p == [Page EXCEPT !.ws.writes = @ + 1, !.ws.pending = TRUE]
<1>1. ServerKept
  BY ServerFieldKept DEF TabInv, UpdateText
<1>2. Furnished(Page, p)
  BY WorkspaceOfSound DEF TabInv, PageFields, WorkspaceFields, Furnished, Alongside
<1>3. Become(Refresh(Written(p, e))) /\ link # Nothing
  BY DEF UpdateText, Live
<1> HIDE DEF p
<1>4. Sound(p) /\ p.link # Nothing
  BY <1>2, <1>3, FurnishedIsSound, PageWorkspace DEF TabInv, Furnished
<1>5. Sound(Refresh(Written(p, e)))
  BY <1>4, WrittenIsSound, RefreshIsSound
<1> QED
  BY <1>1, <1>3, <1>5, KeptStep DEF TabInv


LEMMA ChangeAgendaKeeps ==
    ASSUME TabInv, UNCHANGED recoveryVars, ChangeAgenda
    PROVE  TabInv'
<1>1. Plain([kind |-> "change", here |-> TRUE, stage |-> "asked"])
  BY DEF Plain, Bare
<1> QED
  BY <1>1, WithPlainIsSound, CalmStep DEF ChangeAgenda, TabInv

\* A call that carries no epoch goes to another stage.
LEMMA NextStage ==
    ASSUME Sound(Page), NEW c \in calls, c.kind = "change", NEW stage
    PROVE  /\ Sound(WithoutCall(Page, c))
           /\ Sound(WithCall(WithoutCall(Page, c), [c EXCEPT !.stage = stage]))
<1> DEFINE d == [c EXCEPT !.stage = stage]
<1>1. DOMAIN d = DOMAIN c /\ d.kind = c.kind
  BY PageText DEF Sound, Call
<1> HIDE DEF d
<1>2. Sound(WithCall(WithoutCall(Page, c), d))
  BY <1>1, PlainAgain
<1> QED
  BY <1>2, WithoutCallIsSound DEF d

LEMMA ChangeServedKeeps ==
    ASSUME TabInv, UNCHANGED recoveryVars, NEW c \in calls, ChangeServed(c)
    PROVE  TabInv'
<1> DEFINE a(stage) == WithCall(WithoutCall(Page, c), [c EXCEPT !.stage = stage])
<1>1. c.kind = "change"
  BY DEF ChangeServed
<1>2. ASSUME NEW stage PROVE Sound(a(stage))
  BY <1>1, NextStage DEF TabInv
<1>3. /\ \/ server' = [server EXCEPT !.rev = @ + 1]
         \/ UNCHANGED server
      /\ \/ Become(Announced(a("done"))) \/ Become(Announced(a("failed")))
         \/ Become(a("failed"))
  BY DEF ChangeServed
<1>4. ServerKept
  BY <1>3, ServerFieldKept, ServerStays DEF TabInv
<1> HIDE DEF a
<1>5. \A stage : Sound(Announced(a(stage)))
  BY <1>2, AnnouncedIsSound
<1> QED
  BY <1>2, <1>3, <1>4, <1>5, KeptStep DEF TabInv

LEMMA ChangeAnsweredKeeps ==
    ASSUME TabInv, UNCHANGED recoveryVars, NEW c \in calls, ChangeAnswered(c)
    PROVE  TabInv'
<1> DEFINE p == WithoutCall(Page, c)
<1>1. Sound(p)
  BY WithoutCallIsSound DEF TabInv
<1>2. UNCHANGED server
      /\ (Become(Refresh(p)) \/ Become(PerformLock(p, "authorization-loss")) \/ Become(p))
  BY DEF ChangeAnswered
<1> HIDE DEF p
<1> QED
  BY <1>1, <1>2, RefreshIsSound, PerformLockIsSound, CalmStep DEF TabInv

LEMMA CompleteKeeps ==
    ASSUME TabInv, UNCHANGED recoveryVars, Complete
    PROVE  TabInv'
<1> DEFINE p == [Page EXCEPT !.ws.completing = TRUE, !.ws.phase = "syncing"]
           c == [kind |-> "complete", here |-> TRUE, current |-> TRUE,
                 prev |-> ws.phase, stage |-> "asked"]
<1>1. UNCHANGED server /\ Become(WithCall(p, c)) /\ ws.meeting # Nothing
  BY DEF Complete
<1>2. /\ Page.ws = ws /\ Page.link = link /\ Page.text = text
      /\ ws.phase # "closed" /\ Reading(ws.meeting, text.session)
  BY <1>1, PageWorkspace DEF TabInv
<1>3. /\ Alongside(Page, p) /\ p.link = link /\ p.ws.phase = "syncing"
      /\ p.ws.meeting = ws.meeting /\ p.ws.collab = ws.collab
  BY <1>2, WorkspaceOfSound DEF TabInv, PageFields, WorkspaceFields, Alongside
<1> HIDE DEF p
<1>4. Sound(p) /\ p.text = text
  BY <1>2, <1>3, ShelvedIsSound DEF TabInv, Alongside
<1>5. "kind" \in DOMAIN c /\ c.kind = "complete" /\ Errand(c, p, p.text.session)
  BY <1>2, <1>3, <1>4 DEF Errand, CompletionFields
<1> HIDE DEF c
<1> QED
  BY <1>1, <1>4, <1>5, WithErrandIsSound, CalmStep DEF TabInv

LEMMA CompletionKept ==
    ASSUME Backend, server' = [server EXCEPT !.done = TRUE, !.rev = @ + 1]
    PROVE  ServerKept
  BY DEF Backend, ServerKept, ServerFields

LEMMA CompleteServedKeeps ==
    ASSUME TabInv, UNCHANGED recoveryVars, NEW c \in calls, CompleteServed(c)
    PROVE  TabInv'
<1> DEFINE d(stage) == [c EXCEPT !.stage = stage]
           a(stage) == WithCall(WithoutCall(Page, c), d(stage))
<1>1. c.kind = "complete"
  BY DEF CompleteServed
<1>2. ASSUME NEW stage PROVE Sound(a(stage))
  <2>1. PICK p : p = WithoutCall(Page, c)
    OBVIOUS
  <2>2. Sound(p) /\ p.ws = Page.ws /\ p.text = Page.text
    BY <2>1, WithoutCallIsSound DEF TabInv
  <2>3. Errand(c, Page, Page.text.session) /\ "kind" \in DOMAIN c
    BY PageWorkspace DEF TabInv
  <2>4. /\ d(stage).kind = "complete" /\ "kind" \in DOMAIN d(stage)
        /\ Errand(d(stage), p, p.text.session)
    BY <1>1, <2>2, <2>3 DEF Errand, CompletionFields
  <2> HIDE DEF d
  <2>5. Sound(WithCall(p, d(stage)))
    BY <2>2, <2>4, WithErrandIsSound
  <2> QED
    BY <2>1, <2>5
<1>3. /\ \/ server' = [server EXCEPT !.done = TRUE, !.rev = @ + 1]
         \/ UNCHANGED server
      /\ Become(a("done")) \/ Become(a("failed")) \/ Become(a("refused"))
  BY DEF CompleteServed
<1>4. ServerKept
  BY <1>3, CompletionKept, ServerStays DEF TabInv
<1> HIDE DEF a
<1> QED
  BY <1>2, <1>3, <1>4, KeptStep DEF TabInv

LEMMA CompleteAnsweredKeeps ==
    ASSUME TabInv, UNCHANGED recoveryVars, NEW c \in calls, CompleteAnswered(c)
    PROVE  TabInv'
<1> DEFINE w == WithoutCall(Page, c)
           p == IF c.stage = "refused" THEN Denied(w) ELSE w
           idle(q) == [q EXCEPT !.ws.completing = FALSE]
           kept == [w EXCEPT !.ws.meeting.done = TRUE, !.ws.collab = "none", !.link = Nothing]
           shown(phase) == Published(idle(w), phase)
           now == Current(c) /\ c.stage # "refused"
<1>1. /\ c.kind = "complete" /\ UNCHANGED server
      /\ \/ Become(p) \/ Become(idle(p))
         \/ now /\ Become(Reload(kept, "complete"))
         \/ now /\ Become(CompletedElsewhere(w, "lostAnswer"))
         \/ now /\ \/ Become(shown(c.prev)) \/ Become(shown(PhaseOf(link)))
  BY DEF CompleteAnswered
<1>2. /\ Sound(w) /\ w.ws = ws /\ w.text = text /\ w.link = link
      /\ Errand(c, Page, text.session) /\ Page.ws = ws
  BY WithoutCallIsSound, PageWorkspace DEF TabInv
<1>3. /\ c.prev # "closed"
      /\ now => w.ws.phase # "closed" /\ Reading(w.ws.meeting, w.text.session)
  BY <1>1, <1>2 DEF Errand, Current
<1> HIDE DEF w
<1>4. Sound(p)
  BY <1>2, DeniedIsSound
<1> HIDE DEF p, now
<1>5. ASSUME NEW q, Sound(q) PROVE Sound(idle(q)) /\ idle(q).ws.phase = q.ws.phase
  <2>1. Furnished(q, idle(q))
    BY <1>5, WorkspaceOfSound DEF PageFields, WorkspaceFields, Furnished, Alongside
  <2> HIDE DEF idle
  <2> QED
    BY <1>5, <2>1, FurnishedIsSound DEF Furnished
<1> HIDE DEF idle
<1>6. ASSUME now PROVE Sound(Reload(kept, "complete"))
  <2> DEFINE a == [w EXCEPT !.ws.meeting.done = TRUE, !.ws.collab = "none"]
  <2>1. /\ Alongside(w, a) /\ a.link = w.link /\ a.ws.phase = w.ws.phase
        /\ a.ws.meeting = [w.ws.meeting EXCEPT !.done = TRUE] /\ a.ws.collab = "none"
    BY <1>2, WorkspaceOfSound DEF PageFields, WorkspaceFields, Alongside
  <2>2. kept = [a EXCEPT !.link = Nothing]
    OBVIOUS
  <2> HIDE DEF a, kept
  <2>3. Reading(a.ws.meeting, w.text.session)
    BY <1>3, <1>6, <2>1 DEF Reading
  <2>4. Sound(a)
    BY <1>2, <1>3, <1>6, <2>1, <2>3, ShelvedIsSound
  <2>5. Sound(kept) /\ kept.ws.phase # "closed"
    BY <1>3, <1>6, <2>1, <2>2, <2>4, LinkIsSound
  <2> QED
    BY <2>5, ReloadIsSound
<1> HIDE DEF kept
<1>7. now => Sound(CompletedElsewhere(w, "lostAnswer"))
  BY <1>2, <1>3, CompletedElsewhereIsSound
<1>8. now => Sound(shown(c.prev)) /\ Sound(shown(PhaseOf(link)))
  BY <1>2, <1>3, <1>5, PhaseIsOpen, PublishedIsSound
<1> HIDE DEF shown
<1> QED
  BY <1>1, <1>4, <1>5, <1>6, <1>7, <1>8, CalmStep DEF TabInv

LEMMA CloseWaitsKeeps ==
    ASSUME TabInv, UNCHANGED recoveryVars, NEW c \in calls, CloseWaits(c)
    PROVE  TabInv'
<1> DEFINE p == WithoutCall(Page, c)
           d == [c EXCEPT !.asked = TRUE]
<1>1. c.kind = "close"
  BY DEF CloseWaits
<1>2. DOMAIN d = DOMAIN c /\ d.kind = c.kind
  BY <1>1, PageText DEF TabInv, Sound, Call
<1>3. UNCHANGED server
      /\ (Become(CloseSettled(p, c.for)) \/ Become(CloseSettled(Closed(p), c.for))
          \/ Become(WithCall(p, d)))
  BY DEF CloseWaits
<1> HIDE DEF d
<1>4. Sound(WithCall(p, d)) /\ Sound(p)
  BY <1>1, <1>2, PlainAgain, WithoutCallIsSound DEF TabInv
<1> HIDE DEF p
<1>5. Sound(CloseSettled(p, c.for)) /\ Sound(CloseSettled(Closed(p), c.for))
  BY <1>4, ClosedIsSound, CloseSettledIsSound
<1> QED
  BY <1>3, <1>4, <1>5, CalmStep DEF TabInv

LEMMA PromptAnsweredKeeps ==
    ASSUME TabInv, UNCHANGED recoveryVars, NEW c \in calls, NEW discard,
           PromptAnswered(c, discard)
    PROVE  TabInv'
<1> DEFINE p == WithoutCall(Page, c)
           q(closing) == [p EXCEPT !.ws.closing = closing]
<1>1. Sound(p)
  BY WithoutCallIsSound DEF TabInv
<1>2. UNCHANGED server
      /\ (Become(CloseSettled(Closed(q(TRUE)), c.for)) \/ Become(q(FALSE)))
  BY DEF PromptAnswered
<1> HIDE DEF p
<1>3. ASSUME NEW closing PROVE Sound(q(closing))
  <2>1. Furnished(p, q(closing))
    BY <1>1, WorkspaceOfSound DEF PageFields, WorkspaceFields, Furnished, Alongside
  <2> QED
    BY <1>1, <2>1, FurnishedIsSound
<1> HIDE DEF q
<1>4. Sound(CloseSettled(Closed(q(TRUE)), c.for))
  BY <1>3, ClosedIsSound, CloseSettledIsSound
<1> QED
  BY <1>2, <1>3, <1>4, CalmStep DEF TabInv

LEMMA LeaveKeeps ==
    ASSUME TabInv, UNCHANGED recoveryVars, Leave
    PROVE  TabInv'
  BY CloseStartedIsSound, CalmStep DEF Leave, TabInv

LEMMA VisitKeeps ==
    ASSUME TabInv, UNCHANGED recoveryVars, Visit
    PROVE  TabInv'
  BY MountedIsSound, CalmStep, PageText DEF Visit, TabInv

LEMMA ExplicitLockKeeps ==
    ASSUME TabInv, UNCHANGED recoveryVars, ExplicitLock
    PROVE  TabInv'
  BY CloseStartedIsSound, PerformLockIsSound, CalmStep DEF ExplicitLock, TabInv

LEMMA OthersEditKeeps ==
    ASSUME TabInv, UNCHANGED recoveryVars, NEW e, OthersEdit(e)
    PROVE  TabInv'
<1>1. ServerKept
  BY DEF OthersEdit, TabInv, Backend, ServerKept, ServerFields
<1> QED
  BY <1>1, KeptStay DEF OthersEdit

LEMMA OthersChangeKeeps ==
    ASSUME TabInv, UNCHANGED recoveryVars, OthersChange
    PROVE  TabInv'
<1>1. ServerKept
  BY ServerFieldKept DEF TabInv, OthersChange
<1> QED
  BY <1>1, AnnouncedIsSound, KeptStep DEF OthersChange, TabInv

LEMMA OthersCompleteKeeps ==
    ASSUME TabInv, UNCHANGED recoveryVars, OthersComplete
    PROVE  TabInv'
<1>1. ServerKept
  BY CompletionKept DEF TabInv, OthersComplete
<1> QED
  BY <1>1, KeptStay DEF OthersComplete

LEMMA WorkspaceKeeps ==
    ASSUME TabInv, UNCHANGED recoveryVars, WorkspaceNext
    PROVE  TabInv'
<1>1. CASE \E e \in Unwritten : Type(e) \/ UpdateText(e) \/ OthersEdit(e)
  BY <1>1, TypeKeeps, UpdateTextKeeps, OthersEditKeeps
<1>2. CASE \E c \in calls :
               \/ LoadRead(c) \/ LoadArrives(c) \/ TicketAnswered(c) \/ LoadFails(c)
               \/ ChangeServed(c) \/ ChangeAnswered(c)
               \/ CompleteServed(c) \/ CompleteAnswered(c) \/ CloseWaits(c)
               \/ \E discard \in BOOLEAN : PromptAnswered(c, discard)
  BY <1>2, LoadReadKeeps, LoadArrivesKeeps, TicketAnsweredKeeps, LoadFailsKeeps,
     ChangeServedKeeps, ChangeAnsweredKeeps, CompleteServedKeeps, CompleteAnsweredKeeps,
     CloseWaitsKeeps, PromptAnsweredKeeps
<1> QED
  BY <1>1, <1>2, RetryKeeps, DismissNoticeKeeps, LinkJoinsKeeps, LinkDropsKeeps,
     LinkAcknowledgedKeeps, LinkReceivesKeeps, LinkToldKeeps, LinkPausedKeeps, LinkEndsKeeps,
     LinkRejectedKeeps, ChangeAgendaKeeps, CompleteKeeps, LeaveKeeps, VisitKeeps,
     ExplicitLockKeeps, OthersChangeKeeps, OthersCompleteKeeps
     DEF WorkspaceNext
-----------------------------------------------------------------------------
(* The operators of RecoveryPage *)

\* What the page shows of the ceremonies, and not how.
KeptFields == {"mounted", "active", "situation", "prepared", "activeId"}

LEMMA ScreenIsSound ==
    ASSUME NEW p, NEW q, Sound(p), DOMAIN q = PageFields, q.text = p.text,
           q.ws = p.ws, q.link = p.link, q.route = p.route, q.calls = p.calls,
           RecoveryScreen(p.screen) /\ p.route = "recovery" => RecoveryScreen(q.screen)
    PROVE  Sound(q)
<1>1. Workspace(q, q.text.session)
  BY WorkspaceStays DEF Sound
<1> QED
  BY <1>1 DEF Sound

LEMMA ScreenFieldIsSound ==
    ASSUME NEW p, Sound(p), NEW f, f \notin KeptFields, NEW v
    PROVE  Sound([p EXCEPT !.screen[f] = v])
<1> DEFINE q == [p EXCEPT !.screen[f] = v]
<1>1. /\ DOMAIN q = PageFields /\ q.text = p.text /\ q.route = p.route /\ q.calls = p.calls
      /\ q.ws = p.ws /\ q.link = p.link
      /\ q.screen = [p.screen EXCEPT ![f] = v]
  BY TextOfSound DEF PageFields
<1> HIDE DEF q
<1>2. Aside(p, q)
  BY <1>1 DEF Aside, KeptScreen, KeptFields
<1>3. Workspace(q, p.text.session)
  BY <1>1, WorkspaceStays DEF Sound
<1>4. Sound(q)
  BY <1>2, <1>3, AsideIsSound
<1> QED
  BY <1>4 DEF q

LEMMA ActiveIdIsSound ==
    ASSUME NEW p, Sound(p), NEW id, p.route = "recovery" => id = 0 \/ Ours(id)
    PROVE  Sound([p EXCEPT !.screen.activeId = id])
<1> DEFINE q == [p EXCEPT !.screen.activeId = id]
<1>1. /\ DOMAIN q = PageFields /\ q.text = p.text /\ q.route = p.route /\ q.calls = p.calls
      /\ q.ws = p.ws /\ q.link = p.link
      /\ q.screen = [p.screen EXCEPT !.activeId = id]
  BY TextOfSound DEF PageFields
<1> HIDE DEF q
<1>2. RecoveryScreen(p.screen) /\ p.route = "recovery" => RecoveryScreen(q.screen)
  BY <1>1 DEF RecoveryScreen, ScreenFields
<1>3. Sound(q)
  BY <1>1, <1>2, ScreenIsSound
<1> QED
  BY <1>3 DEF q

LEMMA PreparedIsSound ==
    ASSUME NEW p, Sound(p), NEW m, p.route = "recovery" => m = Nothing \/ Made(m)
    PROVE  Sound([p EXCEPT !.screen.prepared = m])
<1> DEFINE q == [p EXCEPT !.screen.prepared = m]
<1>1. /\ DOMAIN q = PageFields /\ q.text = p.text /\ q.route = p.route /\ q.calls = p.calls
      /\ q.ws = p.ws /\ q.link = p.link
      /\ q.screen = [p.screen EXCEPT !.prepared = m]
  BY TextOfSound DEF PageFields
<1> HIDE DEF q
<1>2. RecoveryScreen(p.screen) /\ p.route = "recovery" => RecoveryScreen(q.screen)
  BY <1>1 DEF RecoveryScreen, ScreenFields
<1>3. Sound(q)
  BY <1>1, <1>2, ScreenIsSound
<1> QED
  BY <1>3 DEF q

LEMMA SituationIsSound ==
    ASSUME NEW p, Sound(p), NEW situation \in Situations \cup {"none"},
           p.screen.active = Nothing \/ situation \in Situations
    PROVE  Sound([p EXCEPT !.screen.situation = situation])
<1> DEFINE q == [p EXCEPT !.screen.situation = situation]
<1>1. /\ DOMAIN q = PageFields /\ q.text = p.text /\ q.route = p.route /\ q.calls = p.calls
      /\ q.ws = p.ws /\ q.link = p.link
      /\ q.screen = [p.screen EXCEPT !.situation = situation]
  BY TextOfSound DEF PageFields
<1> HIDE DEF q
<1>2. RecoveryScreen(p.screen) => RecoveryScreen(q.screen)
  BY <1>1 DEF RecoveryScreen, ScreenFields
<1>3. Sound(q)
  BY <1>1, <1>2, ScreenIsSound
<1> QED
  BY <1>3 DEF q

LEMMA ShownActiveIsSound ==
    ASSUME NEW p, Sound(p), NEW active, NEW situation \in Situations \cup {"none"},
           active # Nothing => Described(active) /\ situation \in Situations
    PROVE  Sound([p EXCEPT !.screen.active = active, !.screen.situation = situation])
<1> DEFINE q == [p EXCEPT !.screen.active = active, !.screen.situation = situation]
<1>1. /\ DOMAIN q = PageFields /\ q.text = p.text /\ q.route = p.route /\ q.calls = p.calls
      /\ q.ws = p.ws /\ q.link = p.link
      /\ q.screen = [p.screen EXCEPT !.active = active, !.situation = situation]
  BY TextOfSound DEF PageFields
<1> HIDE DEF q
<1>2. RecoveryScreen(p.screen) => RecoveryScreen(q.screen)
  <2>1. CASE DOMAIN p.screen = {"mounted"}
    BY <1>1, <2>1 DEF RecoveryScreen
  <2>2. CASE DOMAIN p.screen = ScreenFields
    <3>1. /\ DOMAIN q.screen = ScreenFields /\ q.screen.active = active
          /\ q.screen.situation = situation /\ q.screen.prepared = p.screen.prepared
          /\ q.screen.activeId = p.screen.activeId
      BY <1>1, <2>2 DEF ScreenFields
    <3>2. DOMAIN p.screen # {"mounted"}
      BY <2>2 DEF ScreenFields
    <3> QED
      BY <3>1, <3>2 DEF RecoveryScreen
  <2> QED
    BY <2>1, <2>2 DEF RecoveryScreen
<1>3. Sound(q)
  BY <1>1, <1>2, ScreenIsSound
<1> QED
  BY <1>3 DEF q

LEMMA PresenceIsSound ==
    ASSUME NEW p, Sound(p), NEW id
    PROVE  Sound([p EXCEPT !.presence = id])
<1> DEFINE q == [p EXCEPT !.presence = id]
<1>1. Alongside(p, q) /\ q.ws = p.ws /\ q.link = p.link
  BY WorkspaceOfSound DEF PageFields, Alongside
<1> HIDE DEF q
<1>2. Sound(q)
  BY <1>1, ShelvedIsSound
<1> QED
  BY <1>2 DEF q

LEMMA TaskIsSound ==
    ASSUME NEW p, Sound(p), NEW c, DOMAIN c = TaskFields, c.kind = "task", KeyTask(c)
    PROVE  Sound(WithCall(p, c))
<1>1. Call(c, p.text)
  BY DEF Call, Pending, Revoking, TaskFields
<1>2. /\ DOMAIN WithCall(p, c) = PageFields /\ WithCall(p, c).text = p.text
      /\ WithCall(p, c).route = p.route /\ WithCall(p, c).screen = p.screen
      /\ WithCall(p, c).ws = p.ws /\ WithCall(p, c).link = p.link
      /\ WithCall(p, c).calls = p.calls \cup {c}
  BY DEF WithCall, Sound, PageFields
<1> HIDE DEF WithCall
<1>3. Workspace(WithCall(p, c), p.text.session)
  BY <1>2, WorkspaceStays DEF Sound
<1> QED
  BY <1>1, <1>2, <1>3 DEF Sound, Pending, Revoking

\* A handler goes on to what its page allows then.
LEMMA OnwardIsSound ==
    ASSUME NEW p, Sound(p), NEW c, DOMAIN c = TaskFields, c.kind = "task", NEW stage, NEW got,
           KeyTask([c EXCEPT !.stage = stage, !.got = got])
    PROVE  Sound(Onward(p, c, stage, got))
<1> DEFINE d == [c EXCEPT !.stage = stage, !.got = got]
           q == WithoutCall(p, c)
<1>1. DOMAIN d = TaskFields /\ d.kind = "task"
  BY DEF TaskFields
<1>2. Sound(q)
  BY WithoutCallIsSound
<1> HIDE DEF d, q
<1>3. Sound(WithCall(q, d))
  BY <1>1, <1>2, TaskIsSound DEF d
<1> QED
  BY <1>3 DEF Onward, d, q

LEMMA DoneIsSound ==
    ASSUME NEW p, Sound(p), NEW c
    PROVE  Sound(Done(p, c))
<1> DEFINE q == WithoutCall(p, c)
<1>1. Sound(q)
  BY WithoutCallIsSound
<1> HIDE DEF q
<1>2. Sound([q EXCEPT !.screen.busy = FALSE])
  BY <1>1, ScreenFieldIsSound DEF KeptFields
<1> QED
  BY <1>1, <1>2 DEF Done, q

LEMMA RejectedIsSound ==
    ASSUME NEW p, Sound(p), NEW c
    PROVE  Sound(Rejected(p, c))
  BY DoneIsSound, DeniedIsSound DEF Rejected

LEMMA TaskHasFields ==
    ASSUME NEW name, NEW stage
    PROVE  LET c == Task(name, stage)
           IN /\ DOMAIN c = TaskFields /\ c.kind = "task" /\ c.name = name
              /\ c.stage = stage /\ c.here /\ c.got = Nothing
  BY DEF Task, TaskFields

LEMMA RefreshedIsSound ==
    ASSUME NEW p, Sound(p)
    PROVE  Sound(Refreshed(p))
<1> DEFINE q == [p EXCEPT !.screen.refreshing = TRUE]
           c == Task("refresh", "asked")
<1>1. Sound(q)
  BY ScreenFieldIsSound DEF KeptFields
<1>2. DOMAIN c = TaskFields /\ c.kind = "task" /\ KeyTask(c)
  BY TaskHasFields DEF KeyTask, RefreshTask
<1> HIDE DEF q, c
<1>3. Sound(WithCall(q, c))
  BY <1>1, <1>2, TaskIsSound
<1> QED
  BY <1>3 DEF Refreshed, q, c

LEMMA BusyIsSound ==
    ASSUME NEW p, Sound(p), NEW c, DOMAIN c = TaskFields, c.kind = "task", KeyTask(c)
    PROVE  Sound(Busy(p, c))
<1> DEFINE q == [p EXCEPT !.screen.busy = TRUE]
<1>1. Sound(q)
  BY ScreenFieldIsSound DEF KeptFields
<1> HIDE DEF q
<1>2. Sound(WithCall(q, c))
  BY <1>1, TaskIsSound
<1> QED
  BY <1>2 DEF Busy, q

LEMMA NoneActiveIsSound ==
    ASSUME NEW p, Sound(p)
    PROVE  Sound(NoneActive(p))
<1> DEFINE a == [p EXCEPT !.presence = 0]
           b == [a EXCEPT !.screen.activeId = 0]
           d == [b EXCEPT !.screen.started = FALSE]
           e == [d EXCEPT !.screen.approved = FALSE]
           q == [e EXCEPT !.screen.active = Nothing, !.screen.situation = "none"]
           r == [e EXCEPT !.screen.situation = "none", !.screen.active = Nothing]
<1>1. Sound(a)
  BY PresenceIsSound
<1> HIDE DEF a
<1>2. Sound(b)
  BY <1>1, ActiveIdIsSound
<1> HIDE DEF b
<1>3. Sound(d)
  BY <1>2, ScreenFieldIsSound DEF KeptFields
<1> HIDE DEF d
<1>4. Sound(e)
  BY <1>3, ScreenFieldIsSound DEF KeptFields
<1> HIDE DEF e
<1>5. Sound(q)
  BY <1>4, ShownActiveIsSound
<1>6. q = r
  BY <1>4, TextOfSound DEF PageFields
<1>7. NoneActive(p) = IF p.screen.active = Nothing THEN p ELSE r
  BY DEF NoneActive, a, b, d, e
<1> HIDE DEF q, r
<1> QED
  BY <1>5, <1>6, <1>7

LEMMA CeremonyShownIsSound ==
    ASSUME NEW p, Sound(p), NEW active, Described(active)
    PROVE  Sound(CeremonyShown(p, active))
<1> DEFINE q == [p EXCEPT !.screen.active = active, !.screen.situation = active.situation]
           s == [q EXCEPT !.screen.activeId = active.id]
           t == [s EXCEPT !.presence = active.id]
           r == IF active.role = "none" THEN q ELSE t
<1>1. Sound(q)
  BY ShownActiveIsSound DEF Described
<1> HIDE DEF q
<1>0. active.role \in {"none", "initiator", "approver"}
  BY DEF Described
<1>2. active.role \in {"initiator", "approver"} => Sound(t)
  <2>1. active.role \in {"initiator", "approver"} => Ours(active.id)
    BY DEF Described, Ours
  <2>2. active.role \in {"initiator", "approver"} => Sound(s)
    BY <1>1, <2>1, ActiveIdIsSound
  <2> HIDE DEF s
  <2> QED
    BY <2>2, PresenceIsSound
<1> HIDE DEF t
<1>3. Sound(r)
  BY <1>0, <1>1, <1>2
<1> HIDE DEF r
<1>4. /\ Sound([r EXCEPT !.screen.started = TRUE])
      /\ Sound([r EXCEPT !.screen.approved = active.ready])
  BY <1>3, ScreenFieldIsSound DEF KeptFields
<1>5. CeremonyShown(p, active) = IF active.role = "initiator" THEN [r EXCEPT !.screen.started = TRUE]
       ELSE IF active.role = "approver" THEN [r EXCEPT !.screen.approved = active.ready]
       ELSE r
  BY DEF CeremonyShown, r, t, s, q
<1> QED
  BY <1>3, <1>4, <1>5


\* Its actions that leave the keys and the ceremonies alone.
LEMMA OnPageScreen ==
    ASSUME Sound(Page), OnPage
    PROVE  /\ DOMAIN screen = ScreenFields /\ RecoveryScreen(screen)
           /\ Page.route = "recovery" /\ Page.screen = screen
           /\ screen.situation \in Situations \cup {"none"}
           /\ screen.active # Nothing => Described(screen.active) /\ screen.situation \in Situations
           /\ screen.prepared # Nothing => Made(screen.prepared)
           /\ screen.activeId # 0 => Ours(screen.activeId)
  BY PageText DEF OnPage, Sound, RecoveryScreen

LEMMA KeyTaskOf ==
    ASSUME Sound(Page), NEW c \in calls, c.kind = "task"
    PROVE  DOMAIN c = TaskFields /\ KeyTask(c)
  BY PageText DEF Sound, Call

LEMMA VisitRecoveryKeeps ==
    ASSUME TabInv, UNCHANGED recoveryVars, VisitRecovery
    PROVE  TabInv'
  BY PageText, EnteredIsSound, CalmStep DEF VisitRecovery, TabInv

LEMMA LeaveRecoveryKeeps ==
    ASSUME TabInv, UNCHANGED recoveryVars, LeaveRecovery
    PROVE  TabInv'
  BY LeftIsSound, CalmStep DEF LeaveRecovery, TabInv

LEMMA RecoveryMountedKeeps ==
    ASSUME TabInv, UNCHANGED recoveryVars, RecoveryMounted
    PROVE  TabInv'
<1> DEFINE q == [Page EXCEPT !.screen = NewPage]
<1>1. /\ DOMAIN q = PageFields /\ q.text = Page.text /\ q.route = Page.route
      /\ q.ws = Page.ws /\ q.link = Page.link
      /\ q.calls = Page.calls /\ q.screen = NewPage
  BY PageText DEF TabInv, PageFields
<1>2. RecoveryScreen(NewPage)
  BY DEF RecoveryScreen, NewPage, ScreenFields
<1>3. Become(Refreshed(q)) /\ UNCHANGED server
  BY DEF RecoveryMounted
<1> HIDE DEF q
<1>4. Sound(q)
  BY <1>1, <1>2, ScreenIsSound DEF TabInv
<1> QED
  BY <1>3, <1>4, RefreshedIsSound, CalmStep DEF TabInv

LEMMA RefreshDueKeeps ==
    ASSUME TabInv, UNCHANGED recoveryVars, RefreshDue
    PROVE  TabInv'
  BY RefreshedIsSound, CalmStep DEF RefreshDue, TabInv

LEMMA ActiveIsDescribed ==
    ASSUME Ceremonial, ActiveCeremony # Nothing
    PROVE  Described(ActiveCeremony)
<1> DEFINE id == CHOOSE i \in Ceremonies : Open(i)
<1>1. \E i \in Ceremonies : Open(i)
  BY DEF ActiveCeremony
<1>2. id \in Ceremonies /\ Open(id)
  BY <1>1
<1> HIDE DEF id
<1>3. ActiveCeremony = [id |-> id, situation |-> ceremony[id].situation,
                        ready |-> ceremony[id].state = "ready", role |-> RoleIn(ceremony[id])]
  BY <1>1 DEF ActiveCeremony, id
<1>4. Row(ceremony[id]) /\ ceremony[id].state # "none"
  BY <1>2 DEF Ceremonial, Open
<1> QED
  BY <1>2, <1>3, <1>4 DEF Described, Started, Row, RoleIn

LEMMA RefreshServedKeeps ==
    ASSUME TabInv, Ceremonial, UNCHANGED recoveryVars, NEW c \in calls, RefreshServed(c)
    PROVE  TabInv'
<1>1. c.kind = "task" /\ c.name = "refresh" /\ UNCHANGED server
      /\ (Become(Onward(Page, c, "answered", ActiveCeremony))
          \/ Become(Onward(Page, c, "refused", Nothing)))
  BY DEF RefreshServed, IsTask
<1>2. DOMAIN c = TaskFields
  BY <1>1, KeyTaskOf DEF TabInv
<1>3. /\ KeyTask([c EXCEPT !.stage = "answered", !.got = ActiveCeremony])
      /\ KeyTask([c EXCEPT !.stage = "refused", !.got = Nothing])
  BY <1>1, <1>2, ActiveIsDescribed DEF KeyTask, RefreshTask, TaskFields
<1>4. /\ Sound(Onward(Page, c, "answered", ActiveCeremony))
      /\ Sound(Onward(Page, c, "refused", Nothing))
  BY <1>1, <1>2, <1>3, OnwardIsSound DEF TabInv
<1> QED
  BY <1>1, <1>4, CalmStep DEF TabInv

LEMMA RefreshAnsweredKeeps ==
    ASSUME TabInv, UNCHANGED recoveryVars, NEW c \in calls, RefreshAnswered(c)
    PROVE  TabInv'
<1> DEFINE p == WithoutCall(Page, c)
           shown == IF c.stage = "refused" THEN p
                    ELSE IF c.got = Nothing THEN NoneActive(p) ELSE CeremonyShown(p, c.got)
           a == [shown EXCEPT !.screen.resolved = TRUE]
           q == IF c.here THEN [a EXCEPT !.screen.refreshing = FALSE] ELSE p
<1>1. /\ c.kind = "task" /\ c.name = "refresh" /\ c.stage # "asked" /\ UNCHANGED server
      /\ Become(PerformLock(q, "authorization-loss")) \/ Become(q)
  BY DEF RefreshAnswered
<1>2. c.stage # "refused" /\ c.got # Nothing => Described(c.got)
  BY <1>1, KeyTaskOf DEF TabInv, KeyTask, RefreshTask
<1>3. Sound(p)
  BY WithoutCallIsSound DEF TabInv
<1> HIDE DEF p
<1>4. Sound(shown)
  BY <1>2, <1>3, NoneActiveIsSound, CeremonyShownIsSound
<1> HIDE DEF shown
<1>5. Sound(a)
  BY <1>4, ScreenFieldIsSound DEF KeptFields
<1> HIDE DEF a
<1>6. Sound(q)
  BY <1>3, <1>5, ScreenFieldIsSound DEF KeptFields
<1> HIDE DEF q
<1> QED
  BY <1>1, <1>6, PerformLockIsSound, CalmStep DEF TabInv

LEMMA ChooseSituationKeeps ==
    ASSUME TabInv, UNCHANGED recoveryVars, NEW situation \in Situations,
           ChooseSituation(situation)
    PROVE  TabInv'
  BY PageText, SituationIsSound, CalmStep DEF ChooseSituation, TabInv

LEMMA ChooseDifferentSituationKeeps ==
    ASSUME TabInv, UNCHANGED recoveryVars, ChooseDifferentSituation
    PROVE  TabInv'
<1> DEFINE a == [Page EXCEPT !.screen.situation = "none"]
           b == [a EXCEPT !.screen.approved = FALSE]
           d == [b EXCEPT !.screen.prepared = Nothing]
           q == [d EXCEPT !.screen.copies = FALSE]
<1>1. Sound(a)
  BY PageText, SituationIsSound DEF TabInv, ChooseDifferentSituation
<1>2. Become(q) /\ UNCHANGED server
  BY DEF ChooseDifferentSituation
<1> HIDE DEF a
<1>3. Sound(b)
  BY <1>1, ScreenFieldIsSound DEF KeptFields
<1> HIDE DEF b
<1>4. Sound(d)
  BY <1>3, PreparedIsSound
<1> HIDE DEF d
<1>5. Sound(q)
  BY <1>4, ScreenFieldIsSound DEF KeptFields
<1> HIDE DEF q
<1> QED
  BY <1>2, <1>5, CalmStep DEF TabInv

LEMMA PrepareKeeps ==
    ASSUME TabInv, UNCHANGED recoveryVars, Prepare
    PROVE  TabInv'
<1> DEFINE got(typed) == [vault |-> Nothing, situation |-> screen.situation, typed |-> typed]
           c(typed) == [Task("prepare", "asked") EXCEPT !.got = got(typed)]
<1>1. PICK typed \in TypedNow(screen.situation) : Become(Busy(Page, c(typed)))
  BY DEF Prepare
<1>2. TypedIn(screen.situation, typed)
  BY <1>1, OnPageScreen DEF TabInv, Prepare, InitiatorPanel, TypedIn, TypedNow
<1>3. /\ DOMAIN c(typed) = TaskFields /\ c(typed).kind = "task" /\ c(typed).name = "prepare"
      /\ c(typed).stage = "asked" /\ c(typed).got = got(typed)
  BY DEF Task, TaskFields
<1>4. DOMAIN got(typed) = {"vault", "situation", "typed"}
      /\ got(typed).situation = screen.situation /\ got(typed).typed = typed
  OBVIOUS
<1> HIDE DEF c, got
<1>5. KeyTask(c(typed))
  BY <1>2, <1>3, <1>4 DEF KeyTask, PrepareTask
<1>6. Sound(Busy(Page, c(typed)))
  BY <1>3, <1>5, BusyIsSound DEF TabInv
<1> QED
  BY <1>1, <1>6, CalmStep DEF TabInv, Prepare

LEMMA ApproveKeeps ==
    ASSUME TabInv, UNCHANGED recoveryVars, Approve
    PROVE  TabInv'
<1> DEFINE got(typed) == [vault |-> Nothing, id |-> screen.active.id,
                          typed |-> typed, situation |-> screen.situation]
           c(typed) == [Task("approve", "asked") EXCEPT !.got = got(typed)]
<1>1. PICK typed \in TypedNow(screen.situation) : Become(Busy(Page, c(typed)))
  BY DEF Approve
<1>2. TypedIn(screen.situation, typed) /\ Started(screen.active.id) /\ KnowsCustody(typed)
  BY <1>1, OnPageScreen DEF TabInv, Approve, ApproverPanel, TypedIn, TypedNow, Described,
                            KnowsCustody
<1>3. /\ DOMAIN c(typed) = TaskFields /\ c(typed).kind = "task" /\ c(typed).name = "approve"
      /\ c(typed).stage = "asked" /\ c(typed).got = got(typed)
  BY DEF Task, TaskFields
<1>4. /\ DOMAIN got(typed) = {"vault", "id", "situation", "typed"}
      /\ got(typed).situation = screen.situation /\ got(typed).typed = typed
      /\ got(typed).id = screen.active.id
  OBVIOUS
<1> HIDE DEF c, got
<1>5. KeyTask(c(typed))
  BY <1>2, <1>3, <1>4 DEF KeyTask, ApproveTask
<1>6. Sound(Busy(Page, c(typed)))
  BY <1>3, <1>5, BusyIsSound DEF TabInv
<1> QED
  BY <1>1, <1>6, CalmStep DEF TabInv, Approve

LEMMA MetadataReadKeeps ==
    ASSUME TabInv, UNCHANGED recoveryVars, NEW c \in calls, MetadataRead(c)
    PROVE  TabInv'
<1> DEFINE p == WithoutCall(Page, c)
           d == [c EXCEPT !.stage = "deriving", !.derives = TRUE, !.got.vault = vault]
<1>1. /\ c.kind = "task" /\ c.name \in {"prepare", "approve"} /\ c.stage = "asked"
      /\ UNCHANGED server
      /\ \/ Become(Rejected(Page, c)) \/ Become(p)
         \/ server.admits /\ Become(WithCall(p, d))
  BY DEF MetadataRead, IsTask
<1>2. DOMAIN c = TaskFields /\ KeyTask(c)
  BY <1>1, KeyTaskOf DEF TabInv
<1>3. Sound(p) /\ Sound(Rejected(Page, c))
  BY WithoutCallIsSound, RejectedIsSound DEF TabInv
<1>4. /\ DOMAIN d = TaskFields /\ d.kind = "task" /\ d.name = c.name /\ d.stage = "deriving"
      /\ d.got = [c.got EXCEPT !.vault = vault]
  BY <1>1, <1>2 DEF TaskFields
<1> HIDE DEF p, d
<1>5. CASE c.name = "prepare"
  <2>1. /\ DOMAIN d.got = {"vault", "situation", "typed"} /\ d.got.vault = vault
        /\ TypedIn(d.got.situation, d.got.typed)
    BY <1>1, <1>2, <1>4, <1>5 DEF KeyTask, PrepareTask
  <2>2. KeyTask(d)
    BY <1>4, <1>5, <2>1 DEF KeyTask, PrepareTask, Read
  <2>3. Sound(WithCall(p, d))
    BY <1>3, <1>4, <2>2, TaskIsSound
  <2> QED
    BY <1>1, <1>3, <2>3, CalmStep DEF TabInv
<1>6. CASE c.name = "approve"
  <2>1. /\ DOMAIN d.got = {"vault", "id", "situation", "typed"} /\ d.got.vault = vault
        /\ TypedIn(d.got.situation, d.got.typed) /\ Started(d.got.id)
        /\ server.admits => KnowsCustody(d.got.typed)
    BY <1>1, <1>2, <1>4, <1>6 DEF KeyTask, ApproveTask
  <2>2. server.admits => KeyTask(d)
    BY <1>4, <1>6, <2>1 DEF KeyTask, ApproveTask
  <2>3. server.admits => Sound(WithCall(p, d))
    BY <1>3, <1>4, <2>2, TaskIsSound
  <2> QED
    BY <1>1, <1>3, <2>3, CalmStep DEF TabInv
<1> QED
  BY <1>1, <1>5, <1>6

LEMMA CandidateIsMade ==
    ASSUME NEW g, Read(g.vault), TypedIn(g.situation, g.typed), HaveKeys, NEW new \in Drawn,
           CanCreate(g.vault, g.situation, g.typed)
    PROVE  Made([situation |-> g.situation, generation |-> g.vault.generation,
                 candidate |-> Candidate(g.vault, g.situation, g.typed, new),
                 copies |-> FALSE])
<1>1. new \in NewKeys
  BY DEF Drawn, NewKeys, HaveKeys
<1> DEFINE candidate == Candidate(g.vault, g.situation, g.typed, new)
<1>2. g.vault = vault => FreshCandidate(g.situation, candidate)
  BY <1>1 DEF FreshCandidate, TypedIn
<1> HIDE DEF candidate
<1>3. Made([situation |-> g.situation, generation |-> g.vault.generation,
            candidate |-> candidate, copies |-> FALSE])
  BY <1>2 DEF Made, Read, TypedIn
<1> QED
  BY <1>3 DEF candidate

LEMMA CandidateMadeKeeps ==
    ASSUME TabInv, UNCHANGED recoveryVars, NEW c \in calls, CandidateMade(c)
    PROVE  TabInv'
<1> DEFINE g == c.got
           made(new) == [situation |-> g.situation, generation |-> g.vault.generation,
                         candidate |-> Candidate(g.vault, g.situation, g.typed, new),
                         copies |-> FALSE]
           d(new) == [Task("start", "asked") EXCEPT !.got = made(new)]
           p == WithoutCall(Page, c)
           o == Done(Page, c)
           a(new) == [o EXCEPT !.screen.prepared = made(new)]
           b(new) == [a(new) EXCEPT !.screen.copies = FALSE]
<1>1. c.kind = "task" /\ c.name = "prepare" /\ c.stage = "deriving" /\ UNCHANGED server /\ HaveKeys
  BY DEF CandidateMade, IsTask
<1>2. PICK new \in Drawn :
          \/ Become(o)
          \/ /\ CanCreate(g.vault, g.situation, g.typed)
             /\ Become(WithCall(p, d(new))) \/ Become(b(new))
  BY DEF CandidateMade
<1>3. Read(g.vault) /\ TypedIn(g.situation, g.typed)
  BY <1>1, KeyTaskOf DEF TabInv, KeyTask, PrepareTask
<1>4. Sound(p) /\ Sound(o)
  BY WithoutCallIsSound, DoneIsSound DEF TabInv
<1>5. CASE CanCreate(g.vault, g.situation, g.typed)
  <2>1. Made(made(new))
    BY <1>1, <1>3, <1>5, CandidateIsMade
  <2> HIDE DEF made, p, o
  <2>2. /\ DOMAIN d(new) = TaskFields /\ d(new).kind = "task" /\ d(new).name = "start"
        /\ d(new).stage = "asked" /\ d(new).got = made(new)
    BY DEF Task, TaskFields
  <2> HIDE DEF d
  <2>3. KeyTask(d(new))
    BY <2>1, <2>2 DEF KeyTask, StartTask
  <2>4. Sound(WithCall(p, d(new)))
    BY <1>4, <2>2, <2>3, TaskIsSound
  <2>5. Sound(a(new))
    BY <1>4, <2>1, PreparedIsSound
  <2> HIDE DEF a
  <2>6. Sound(b(new))
    BY <2>5, ScreenFieldIsSound DEF KeptFields
  <2> HIDE DEF b
  <2> QED
    BY <1>1, <1>2, <1>4, <2>4, <2>6, CalmStep DEF TabInv
<1>6. CASE Become(o)
  BY <1>1, <1>4, <1>6, CalmStep DEF TabInv
<1> QED
  BY <1>2, <1>5, <1>6


LEMMA DerivationFailsKeeps ==
    ASSUME TabInv, UNCHANGED recoveryVars, NEW c \in calls, DerivationFails(c)
    PROVE  TabInv'
  BY DoneIsSound, CalmStep DEF DerivationFails, TabInv

LEMMA AcknowledgeCopiesKeeps ==
    ASSUME TabInv, UNCHANGED recoveryVars, AcknowledgeCopies
    PROVE  TabInv'
<1> DEFINE q == [Page EXCEPT !.screen.copies = TRUE]
<1>1. Sound(q)
  BY ScreenFieldIsSound DEF TabInv, KeptFields
<1>2. Become(q) /\ UNCHANGED server
  BY DEF AcknowledgeCopies
<1> HIDE DEF q
<1> QED
  BY <1>1, <1>2, CalmStep DEF TabInv

LEMMA StartPreparedKeeps ==
    ASSUME TabInv, UNCHANGED recoveryVars, StartPrepared
    PROVE  TabInv'
<1> DEFINE made == [screen.prepared EXCEPT !.copies = screen.copies]
           c == [Task("start", "asked") EXCEPT !.got = made]
<1>1. Become(Busy(Page, c)) /\ UNCHANGED server
  BY DEF StartPrepared
<1>2. Made(screen.prepared)
  BY OnPageScreen DEF TabInv, StartPrepared, InitiatorPanel
<1>3. Made(made)
  BY <1>2 DEF Made
<1> HIDE DEF made
<1>4. /\ DOMAIN c = TaskFields /\ c.kind = "task" /\ c.name = "start"
      /\ c.stage = "asked" /\ c.got = made
  BY DEF Task, TaskFields
<1> HIDE DEF c
<1>5. KeyTask(c)
  BY <1>3, <1>4 DEF KeyTask, StartTask
<1>6. Sound(Busy(Page, c))
  BY <1>4, <1>5, BusyIsSound DEF TabInv
<1> QED
  BY <1>1, <1>6, CalmStep DEF TabInv

LEMMA StartAnsweredKeeps ==
    ASSUME TabInv, UNCHANGED recoveryVars, NEW c \in calls, StartAnswered(c)
    PROVE  TabInv'
<1> DEFINE o == Done(Page, c)
           p == [o EXCEPT !.presence = c.got.id]
           a == [p EXCEPT !.screen.activeId = c.got.id]
           b == [a EXCEPT !.screen.started = TRUE]
           d == [b EXCEPT !.screen.prepared = Nothing]
           q == [d EXCEPT !.screen.copies = FALSE]
<1>1. /\ c.kind = "task" /\ c.name = "start" /\ c.stage # "asked" /\ UNCHANGED server
      /\ \/ Become(Rejected(Page, c))
         \/ c.stage # "failed" /\ (Become(p) \/ Become(q))
  BY DEF StartAnswered
<1>2. c.stage # "failed" => Ours(c.got.id)
  BY <1>1, KeyTaskOf DEF TabInv, KeyTask, StartTask
<1>3. Sound(o) /\ Sound(Rejected(Page, c))
  BY DoneIsSound, RejectedIsSound DEF TabInv
<1> HIDE DEF o
<1>4. Sound(p)
  BY <1>3, PresenceIsSound
<1> HIDE DEF p
<1>5. CASE c.stage # "failed"
  <2>1. Sound(a)
    BY <1>2, <1>4, <1>5, ActiveIdIsSound
  <2> HIDE DEF a
  <2>2. Sound(b)
    BY <2>1, ScreenFieldIsSound DEF KeptFields
  <2> HIDE DEF b
  <2>3. Sound(d)
    BY <2>2, PreparedIsSound
  <2> HIDE DEF d
  <2>4. Sound(q)
    BY <2>3, ScreenFieldIsSound DEF KeptFields
  <2> HIDE DEF q
  <2> QED
    BY <1>1, <1>3, <1>4, <2>4, CalmStep DEF TabInv
<1>6. CASE Become(Rejected(Page, c))
  BY <1>1, <1>3, <1>6, CalmStep DEF TabInv
<1> QED
  BY <1>1, <1>5, <1>6

LEMMA CheckedIsAgreed ==
    ASSUME Ceremonial, NEW c, KeyTask(c), c.name = "approve", c.stage = "deriving",
           Verified(ceremony[c.got.id], c.got)
    PROVE  Started(c.got.id) /\ Agreed(ceremony[c.got.id], c.got.typed)
<1> DEFINE g == c.got
           row == ceremony[g.id]
<1>1. /\ Started(g.id) /\ TypedIn(g.situation, g.typed)
      /\ \/ g.vault = vault /\ KnowsCustody(g.typed)
         \/ Outdated(g.vault.generation)
  BY DEF KeyTask, ApproveTask
<1>2. /\ row.situation = g.situation /\ row.generation = g.vault.generation
      /\ CandidateVerified(g.vault, g.situation, row.candidate, g.typed)
  BY DEF Verified
<1>3. g.typed \in TypedFor(row.situation)
  BY <1>1, <1>2 DEF TypedIn
<1>4. CASE Outdated(g.vault.generation)
  BY <1>1, <1>2, <1>3, <1>4 DEF Agreed
<1>5. CASE g.vault = vault /\ KnowsCustody(g.typed)
  <2>1. row.situation = "rotate_root_key" => g.typed.recovery \in RecoverySecrets
    BY <1>3 DEF TypedFor, Asks
  <2>2. NoSecret \notin RecoverySecrets
    BY SecretsAreTyped
  <2>3. CustodyIsTyped(row.situation, g.typed)
    BY <1>5, <2>1, <2>2 DEF CustodyIsTyped, KnowsCustody
  <2> QED
    BY <1>1, <1>2, <1>3, <1>5, <2>3 DEF Agreed
<1> QED
  BY <1>1, <1>4, <1>5

LEMMA CandidateCheckedKeeps ==
    ASSUME TabInv, Ceremonial, UNCHANGED recoveryVars, NEW c \in calls, CandidateChecked(c)
    PROVE  TabInv'
<1> DEFINE p == WithoutCall(Page, c)
           got == [id |-> c.got.id, typed |-> c.got.typed]
           d == [Task("approve", "sent") EXCEPT !.got = got]
<1>1. /\ c.kind = "task" /\ c.name = "approve" /\ c.stage = "deriving" /\ UNCHANGED server
      /\ \/ Verified(ceremony[c.got.id], c.got) /\ Become(WithCall(p, d))
         \/ Become(Done(Page, c))
  BY DEF CandidateChecked, IsTask
<1>2. Sound(p) /\ Sound(Done(Page, c))
  BY WithoutCallIsSound, DoneIsSound DEF TabInv
<1>3. CASE Verified(ceremony[c.got.id], c.got) /\ Become(WithCall(p, d))
  <2>1. Started(c.got.id) /\ Agreed(ceremony[c.got.id], c.got.typed)
    BY <1>1, <1>3, KeyTaskOf, CheckedIsAgreed DEF TabInv
  <2>2. /\ DOMAIN d = TaskFields /\ d.kind = "task" /\ d.name = "approve"
        /\ d.stage = "sent" /\ d.got.id = c.got.id /\ d.got.typed = c.got.typed
    BY DEF Task, TaskFields
  <2> HIDE DEF p, d
  <2>3. KeyTask(d)
    BY <2>1, <2>2 DEF KeyTask, ApproveTask
  <2>4. Sound(WithCall(p, d))
    BY <1>2, <2>2, <2>3, TaskIsSound
  <2> QED
    BY <1>1, <1>3, <2>4, CalmStep DEF TabInv
<1>4. CASE Become(Done(Page, c))
  BY <1>1, <1>2, <1>4, CalmStep DEF TabInv
<1> QED
  BY <1>1, <1>3, <1>4

LEMMA ApproveAnsweredKeeps ==
    ASSUME TabInv, UNCHANGED recoveryVars, NEW c \in calls, ApproveAnswered(c)
    PROVE  TabInv'
<1> DEFINE o == Done(Page, c)
           p == [o EXCEPT !.presence = c.got.id]
           a == [p EXCEPT !.screen.activeId = c.got.id]
           q == [a EXCEPT !.screen.approved = TRUE]
<1>1. /\ c.kind = "task" /\ c.name = "approve" /\ c.stage \in {"done", "failed"}
      /\ UNCHANGED server
      /\ \/ Become(Rejected(Page, c))
         \/ c.stage # "failed" /\ (Become(p) \/ Become(q))
  BY DEF ApproveAnswered
<1>2. c.stage # "failed" => Ours(c.got.id)
  BY <1>1, KeyTaskOf DEF TabInv, KeyTask, ApproveTask, Ours
<1>3. Sound(o) /\ Sound(Rejected(Page, c))
  BY DoneIsSound, RejectedIsSound DEF TabInv
<1> HIDE DEF o
<1>4. Sound(p)
  BY <1>3, PresenceIsSound
<1> HIDE DEF p
<1>5. CASE c.stage # "failed"
  <2>1. Sound(a)
    BY <1>2, <1>4, <1>5, ActiveIdIsSound
  <2> HIDE DEF a
  <2>2. Sound(q)
    BY <2>1, ScreenFieldIsSound DEF KeptFields
  <2> HIDE DEF q
  <2> QED
    BY <1>1, <1>3, <1>4, <2>2, CalmStep DEF TabInv
<1>6. CASE Become(Rejected(Page, c))
  BY <1>1, <1>3, <1>6, CalmStep DEF TabInv
<1> QED
  BY <1>1, <1>5, <1>6

LEMMA ActivateKeeps ==
    ASSUME TabInv, UNCHANGED recoveryVars, Activate
    PROVE  TabInv'
<1> DEFINE got == [id |-> screen.activeId]
           c == [Task("activate", "asked") EXCEPT !.got = got]
<1>1. Become(Busy(Page, c)) /\ UNCHANGED server
  BY DEF Activate
<1>2. Started(screen.activeId)
  BY OnPageScreen DEF TabInv, Activate, ApproverPanel, Ours
<1>3. /\ DOMAIN c = TaskFields /\ c.kind = "task" /\ c.name = "activate"
      /\ c.stage = "asked" /\ c.got.id = screen.activeId
  BY DEF Task, TaskFields
<1> HIDE DEF c
<1>4. KeyTask(c)
  BY <1>2, <1>3 DEF KeyTask, ActivateTask
<1>5. Sound(Busy(Page, c))
  BY <1>3, <1>4, BusyIsSound DEF TabInv
<1> QED
  BY <1>1, <1>5, CalmStep DEF TabInv

LEMMA ActivateAnsweredKeeps ==
    ASSUME TabInv, UNCHANGED recoveryVars, NEW c \in calls, ActivateAnswered(c)
    PROVE  TabInv'
<1> DEFINE o == Done(Page, c)
           p == [o EXCEPT !.presence = 0]
           q == [p EXCEPT !.screen.activeId = 0]
<1>1. /\ UNCHANGED server
      /\ Become(Rejected(Page, c)) \/ Become(LoggedOut(p)) \/ Become(LoggedOut(q))
  BY DEF ActivateAnswered
<1>2. Sound(o) /\ Sound(Rejected(Page, c))
  BY DoneIsSound, RejectedIsSound DEF TabInv
<1> HIDE DEF o
<1>3. Sound(p)
  BY <1>2, PresenceIsSound
<1> HIDE DEF p
<1>4. Sound(q)
  BY <1>3, ActiveIdIsSound
<1> HIDE DEF q
<1> QED
  BY <1>1, <1>2, <1>3, <1>4, LoggedOutIsSound, CalmStep DEF TabInv
-----------------------------------------------------------------------------
(* What becomes of the ceremonies *)

RecoveryInv == VaultInv /\ Ceremonial /\ TabInv

LEMMA RowStays ==
    ASSUME NEW row, Row(row), UNCHANGED vaultVars
    PROVE  Row(row)'
<1>1. vault' = vault /\ used' = used /\ known' = known
  BY DEF vaultVars
<1>2. \A situation, candidate :
          FreshCandidate(situation, candidate) => FreshCandidate(situation, candidate)'
  BY <1>1 DEF FreshCandidate, NewKeys, UnusedRoots
<1>3. Agreed(row, row.agreed) => Agreed(row, row.agreed)'
  BY <1>1 DEF Agreed, Outdated, CustodyIsTyped
<1> QED
  BY <1>1, <1>2, <1>3 DEF Row, Outdated

\* One ceremony goes on: it keeps what it was started with, and its approver.
LEMMA CeremonySet ==
    ASSUME Ceremonial, UNCHANGED vaultVars, NEW id, NEW row, Set(id, row),
           id \in Ceremonies =>
               /\ Row(row)
               /\ ceremony[id].state # "none" =>
                      /\ row.state # "none"
                      /\ row.situation = ceremony[id].situation
                      /\ row.generation = ceremony[id].generation
                      /\ row.candidate = ceremony[id].candidate
                      /\ row.initiator = ceremony[id].initiator
                      /\ ceremony[id].approver = "tab" => row.approver = "tab"
    PROVE  Ceremonial' /\ CeremoniesGoOn
<1>1. DOMAIN ceremony = Ceremonies /\ ceremony' = [ceremony EXCEPT ![id] = row]
  BY DEF Ceremonial, Set
<1>2. DOMAIN ceremony' = Ceremonies
      /\ \A i \in Ceremonies : ceremony'[i] = IF i = id THEN row ELSE ceremony[i]
  BY <1>1
<1>3. ASSUME NEW i \in Ceremonies PROVE Row(ceremony[i])' /\ Row(ceremony'[i])
  <2>1. Row(ceremony'[i])
    BY <1>2 DEF Ceremonial
  <2>2. PICK r : r = ceremony'[i]
    OBVIOUS
  <2>3. Row(r)'
    BY <2>1, <2>2, RowStays
  <2>4. r = (ceremony[i])'
    BY <2>2
  <2> QED
    BY <2>1, <2>3, <2>4 DEF Row, Agreed
<1>4. Ceremonial'
  BY <1>2, <1>3 DEF Ceremonial, Ceremonies
<1>5. CeremoniesGoOn
  BY <1>2 DEF CeremoniesGoOn
<1> QED
  BY <1>4, <1>5

LEMMA CeremoniesStay ==
    ASSUME Ceremonial, UNCHANGED recoveryVars
    PROVE  Ceremonial' /\ CeremoniesGoOn
<1>1. ceremony' = ceremony /\ UNCHANGED vaultVars
  BY DEF recoveryVars, vaultVars
<1>2. ASSUME NEW i \in Ceremonies PROVE Row(ceremony[i])'
  <2>1. PICK r : r = ceremony[i]
    OBVIOUS
  <2>2. Row(r)' /\ r = (ceremony[i])'
    BY <1>1, <2>1, RowStays DEF Ceremonial
  <2> QED
    BY <2>2 DEF Row, Agreed
<1> QED
  BY <1>1, <1>2 DEF Ceremonial, Ceremonies, CeremoniesGoOn

LEMMA VaultStays ==
    ASSUME VaultInv, UNCHANGED vaultVars
    PROVE  VaultInv'
  BY VaultStepInv

\* What nobody but the server changes in a ceremony.
LEMMA RowMoves ==
    ASSUME NEW row, Row(row), row.state # "none", NEW state \in {"over", "activated"},
           row.approver # "nobody" \/ state = "over"
    PROVE  LET r == [row EXCEPT !.state = state]
           IN Row(r) /\ r.state = state /\ \A f \in RowFields \ {"state"} : r[f] = row[f]
  BY DEF Row, RowFields, Agreed

LEMMA RowPresent ==
    ASSUME NEW row, Row(row), row.state # "none", NEW present
    PROVE  LET r == [row EXCEPT !.present = present]
           IN Row(r) /\ \A f \in RowFields \ {"present"} : r[f] = row[f]
  BY DEF Row, RowFields, Agreed


\* A ceremony is set, the keys and the rest of the server stay.
LEMMA SetKeeps ==
    ASSUME RecoveryInv, UNCHANGED vaultVars, UNCHANGED server, Ceremonial', CeremoniesGoOn,
           Sound(Page)'
    PROVE  RecoveryInv'
<1>1. VaultInv'
  BY VaultStays DEF RecoveryInv
<1>2. Backend'
  BY DEF RecoveryInv, TabInv, Backend
<1> QED
  BY <1>1, <1>2 DEF RecoveryInv, TabInv

LEMMA SetGoesOn ==
    ASSUME UNCHANGED vaultVars, UNCHANGED server, CeremoniesGoOn
    PROVE  GoesOn /\ server.epochs \subseteq server'.epochs
  BY DEF GoesOn, ServerGoesOn

\* A handler is answered: what its answer says holds once the ceremony is set.
LEMMA OnwardStep ==
    ASSUME Sound(Page), UNCHANGED vaultVars, UNCHANGED server, CeremoniesGoOn,
           NEW c \in calls, c.kind = "task", NEW stage, NEW got,
           KeyTask([c EXCEPT !.stage = stage, !.got = got])',
           Become(Onward(Page, c, stage, got))
    PROVE  Sound(Page)'
<1>1. PICK p : p = WithoutCall(Page, c)
  OBVIOUS
<1>2. PICK d : d = [c EXCEPT !.stage = stage, !.got = got]
  OBVIOUS
<1>3. Sound(p) /\ p.text = text
  BY <1>1, PageText, WithoutCallIsSound
<1>4. Sound(p)'
  BY <1>3, SetGoesOn, SoundGoesOn
<1>5. DOMAIN d = TaskFields /\ d.kind = "task"
  BY <1>2, KeyTaskOf DEF TaskFields
<1>6. KeyTask(d)'
  BY <1>2
<1>7. Call(d, p.text)'
  BY <1>5, <1>6 DEF Call, Pending, Revoking, TaskFields
<1>8. /\ DOMAIN WithCall(p, d) = PageFields /\ WithCall(p, d).text = p.text
      /\ WithCall(p, d).route = p.route /\ WithCall(p, d).screen = p.screen
      /\ WithCall(p, d).ws = p.ws /\ WithCall(p, d).link = p.link
      /\ WithCall(p, d).calls = p.calls \cup {d}
  BY <1>3 DEF WithCall, Sound, PageFields
<1>9. Onward(Page, c, stage, got) = WithCall(p, d)
  BY <1>1, <1>2 DEF Onward
<1> HIDE DEF WithCall
<1>10. PICK q : q = WithCall(p, d)
  OBVIOUS
<1>11. Sound(q)'
  <2>1. Workspace(q, p.text.session)
    BY <1>3, <1>5, <1>8, <1>10, WorkspaceStays DEF Sound
  <2>2. Workspace(q, p.text.session)'
    BY <2>1
  <2> QED
    BY <1>4, <1>5, <1>7, <1>8, <1>10, <2>2 DEF Sound, Pending, Revoking
<1>12. BecomesPage(q)
  BY <1>3, <1>8, <1>9, <1>10 DEF Become, BecomesPage
<1> QED
  BY <1>11, <1>12, PageIsSound

LEMMA NextIsFree ==
    ASSUME NEW id \in NextId
    PROVE  id \in Ceremonies /\ ceremony[id].state = "none"
<1>1. id \in Ceremonies /\ (ceremony[id] = NoCeremony <=> id >= id)
  BY DEF NextId
<1>2. ceremony[id] = NoCeremony
  BY <1>1 DEF Ceremonies
<1> QED
  BY <1>1, <1>2 DEF NoCeremony

\* A ceremony begins with a candidate for the present key state.
LEMMA BegunIsRow ==
    ASSUME RecoveryInv, NEW id \in NextId, NEW initiator, NEW made, Made(made),
           made.generation = vault.generation,
           CandidateAccepted(vault, made.situation, made.candidate),
           Begun(id, initiator, made), UNCHANGED vaultVars
    PROVE  /\ Ceremonial' /\ CeremoniesGoOn
           /\ ceremony'[id].initiator = initiator /\ ceremony'[id].state = "pending"
<1> DEFINE row == [state |-> "pending", situation |-> made.situation,
             generation |-> made.generation, candidate |-> made.candidate,
             initiator |-> initiator, approver |-> "nobody", present |-> TRUE,
             agreed |-> Nothing, copies |-> made.copies]
<1>1. Set(id, row)
  BY DEF Begun
<1>2. id \in Ceremonies /\ ceremony[id].state = "none"
  BY NextIsFree
<1>3. FreshCandidate(made.situation, made.candidate) /\ made.situation \in Situations
  BY DEF Made, Outdated, RecoveryInv, VaultInv, VaultTypeOK, Vault
<1>4. Row(row)
  BY <1>3 DEF Row, RowFields
<1>5. Ceremonial' /\ CeremoniesGoOn
  BY <1>1, <1>2, <1>4, CeremonySet DEF RecoveryInv
<1>6. ceremony'[id] = row
  BY <1>1, <1>2 DEF Set, RecoveryInv, Ceremonial
<1> QED
  BY <1>5, <1>6

LEMMA StartServedKeeps ==
    ASSUME RecoveryInv, UNCHANGED vaultVars, NEW c \in calls, StartServed(c)
    PROVE  RecoveryInv'
<1>1. /\ c.kind = "task" /\ c.name = "start" /\ c.stage = "asked" /\ UNCHANGED server
      /\ \/ /\ Startable(c.got.generation, c.got.situation, c.got.candidate)
            /\ \E id \in NextId :
                    /\ Begun(id, "tab", c.got)
                    /\ \/ Become(Onward(Page, c, "done", [id |-> id]))
                       \/ Become(Onward(Page, c, "failed", Nothing))
         \/ /\ Become(Onward(Page, c, "failed", Nothing))
            /\ UNCHANGED ceremony
  BY DEF StartServed, IsTask
<1>2. DOMAIN c = TaskFields /\ Made(c.got)
  BY <1>1, KeyTaskOf DEF RecoveryInv, TabInv, KeyTask, StartTask
<1>3. KeyTask([c EXCEPT !.stage = "failed", !.got = Nothing])'
  BY <1>1, <1>2 DEF KeyTask, StartTask, TaskFields
<1>4. CASE \E id \in NextId :
               /\ Startable(c.got.generation, c.got.situation, c.got.candidate)
               /\ Begun(id, "tab", c.got)
               /\ \/ Become(Onward(Page, c, "done", [id |-> id]))
                  \/ Become(Onward(Page, c, "failed", Nothing))
  <2>1. PICK id \in NextId :
               /\ Startable(c.got.generation, c.got.situation, c.got.candidate)
               /\ Begun(id, "tab", c.got)
               /\ \/ Become(Onward(Page, c, "done", [id |-> id]))
                  \/ Become(Onward(Page, c, "failed", Nothing))
    BY <1>4
  <2>2. /\ Ceremonial' /\ CeremoniesGoOn
        /\ ceremony'[id].initiator = "tab" /\ ceremony'[id].state = "pending"
    BY <1>2, <2>1, BegunIsRow DEF Startable
  <2>3. Ours(id)'
    BY <2>2, NextIsFree DEF Ours, Started, Ceremonies
  <2>4. PICK got : got = [id |-> id]
    OBVIOUS
  <2>5. KeyTask([c EXCEPT !.stage = "done", !.got = got])'
    <3>1. PICK d : d = [c EXCEPT !.stage = "done", !.got = got]
      OBVIOUS
    <3>2. d.name = "start" /\ d.stage = "done" /\ d.got.id = id
      BY <1>1, <1>2, <2>4, <3>1 DEF TaskFields
    <3>3. KeyTask(d)'
      BY <2>3, <3>2 DEF KeyTask, StartTask
    <3> QED
      BY <3>1, <3>3
  <2>6. Sound(Page)'
    BY <1>1, <1>3, <2>1, <2>2, <2>4, <2>5, OnwardStep DEF RecoveryInv, TabInv
  <2> QED
    BY <1>1, <2>2, <2>6, SetKeeps
<1>5. CASE Become(Onward(Page, c, "failed", Nothing)) /\ UNCHANGED ceremony
  <2>1. Ceremonial' /\ CeremoniesGoOn
    BY <1>5, CeremoniesStay DEF RecoveryInv, recoveryVars, vaultVars
  <2>2. Sound(Page)'
    BY <1>1, <1>3, <1>5, <2>1, OnwardStep DEF RecoveryInv, TabInv
  <2> QED
    BY <1>1, <2>1, <2>2, SetKeeps
<1> QED
  BY <1>1, <1>4, <1>5

LEMMA ApprovedIsRow ==
    ASSUME RecoveryInv, NEW id \in Ceremonies, NEW typed, NEW who \in {"tab", "other"},
           NEW present, ceremony[id].state = "pending",
           Agreed(ceremony[id], typed), UNCHANGED vaultVars,
           Set(id, [ceremony[id] EXCEPT !.state = "ready", !.approver = who,
                                        !.present = present, !.agreed = typed])
    PROVE  /\ Ceremonial' /\ CeremoniesGoOn
           /\ ceremony'[id].state = "ready" /\ ceremony'[id].approver = who
<1> DEFINE r == [ceremony[id] EXCEPT !.state = "ready", !.approver = who,
                                     !.present = present, !.agreed = typed]
<1>1. Row(ceremony[id])
  BY DEF RecoveryInv, Ceremonial
<1>2. /\ DOMAIN r = RowFields /\ r.state = "ready" /\ r.approver = who /\ r.agreed = typed
      /\ r.situation = ceremony[id].situation /\ r.generation = ceremony[id].generation
      /\ r.candidate = ceremony[id].candidate /\ r.initiator = ceremony[id].initiator
      /\ "state" \in DOMAIN r
  BY <1>1 DEF Row, RowFields
<1>3. Set(id, r)
  OBVIOUS
<1> HIDE DEF r
<1>4. Agreed(r, r.agreed)
  BY <1>2 DEF Agreed
<1>5. Row(r)
  BY <1>1, <1>2, <1>4 DEF Row
<1>6. ceremony[id].approver = "nobody"
  BY <1>1 DEF Row
<1>7. Ceremonial' /\ CeremoniesGoOn
  BY <1>2, <1>3, <1>5, <1>6, CeremonySet DEF RecoveryInv
<1>8. ceremony'[id] = r
  BY <1>3 DEF Set, RecoveryInv, Ceremonial
<1> QED
  BY <1>2, <1>7, <1>8

LEMMA ApproveServedKeeps ==
    ASSUME RecoveryInv, UNCHANGED vaultVars, NEW c \in calls, ApproveServed(c)
    PROVE  RecoveryInv'
<1>1. /\ c.kind = "task" /\ c.name = "approve" /\ c.stage = "sent" /\ UNCHANGED server
      /\ \/ /\ ceremony[c.got.id].state = "pending"
            /\ Set(c.got.id, [ceremony[c.got.id] EXCEPT
                                 !.state = "ready", !.approver = "tab", !.present = TRUE,
                                 !.agreed = c.got.typed])
            /\ \/ Become(Onward(Page, c, "done", [id |-> c.got.id]))
               \/ Become(Onward(Page, c, "failed", Nothing))
         \/ /\ Become(Onward(Page, c, "failed", Nothing))
            /\ UNCHANGED ceremony
  BY DEF ApproveServed, IsTask
<1>2. DOMAIN c = TaskFields /\ Started(c.got.id) /\ Agreed(ceremony[c.got.id], c.got.typed)
  BY <1>1, KeyTaskOf DEF RecoveryInv, TabInv, KeyTask, ApproveTask
<1>3. KeyTask([c EXCEPT !.stage = "failed", !.got = Nothing])'
  BY <1>1, <1>2 DEF KeyTask, ApproveTask, TaskFields
<1>4. CASE /\ ceremony[c.got.id].state = "pending"
           /\ Set(c.got.id, [ceremony[c.got.id] EXCEPT
                                 !.state = "ready", !.approver = "tab", !.present = TRUE,
                                 !.agreed = c.got.typed])
           /\ \/ Become(Onward(Page, c, "done", [id |-> c.got.id]))
              \/ Become(Onward(Page, c, "failed", Nothing))
  <2>1. /\ Ceremonial' /\ CeremoniesGoOn
        /\ ceremony'[c.got.id].state = "ready" /\ ceremony'[c.got.id].approver = "tab"
    BY <1>2, <1>4, ApprovedIsRow DEF Started
  <2>2. Started(c.got.id)'
    BY <1>2, <2>1 DEF Started, Ceremonies
  <2>3. PICK got : got = [id |-> c.got.id]
    OBVIOUS
  <2>4. KeyTask([c EXCEPT !.stage = "done", !.got = got])'
    <3>1. PICK d : d = [c EXCEPT !.stage = "done", !.got = got]
      OBVIOUS
    <3>2. d.name = "approve" /\ d.stage = "done" /\ d.got.id = c.got.id
      BY <1>1, <1>2, <2>3, <3>1 DEF TaskFields
    <3>3. KeyTask(d)'
      BY <2>1, <2>2, <3>2 DEF KeyTask, ApproveTask
    <3> QED
      BY <3>1, <3>3
  <2>5. Sound(Page)'
    BY <1>1, <1>3, <1>4, <2>1, <2>3, <2>4, OnwardStep DEF RecoveryInv, TabInv
  <2> QED
    BY <1>1, <2>1, <2>5, SetKeeps
<1>5. CASE Become(Onward(Page, c, "failed", Nothing)) /\ UNCHANGED ceremony
  <2>1. Ceremonial' /\ CeremoniesGoOn
    BY <1>5, CeremoniesStay DEF RecoveryInv, recoveryVars, vaultVars
  <2>2. Sound(Page)'
    BY <1>1, <1>3, <1>5, <2>1, OnwardStep DEF RecoveryInv, TabInv
  <2> QED
    BY <1>1, <2>1, <2>2, SetKeeps
<1> QED
  BY <1>1, <1>4, <1>5


\* A ceremony ends, or somebody is there or is not.
LEMMA OverIsSet ==
    ASSUME RecoveryInv, UNCHANGED vaultVars, NEW id, Open(id),
           Set(id, [ceremony[id] EXCEPT !.state = "over"])
    PROVE  Ceremonial' /\ CeremoniesGoOn
<1> DEFINE r == [ceremony[id] EXCEPT !.state = "over"]
<1>1. Set(id, r)
  OBVIOUS
<1>2. id \in Ceremonies =>
          /\ Row(r) /\ r.state = "over"
          /\ \A f \in RowFields \ {"state"} : r[f] = ceremony[id][f]
  BY RowMoves DEF RecoveryInv, Ceremonial, Open
<1> HIDE DEF r
<1> QED
  BY <1>1, <1>2, CeremonySet DEF RowFields, RecoveryInv

LEMMA PresentIsSet ==
    ASSUME RecoveryInv, UNCHANGED vaultVars, NEW id, Open(id), NEW present,
           Set(id, [ceremony[id] EXCEPT !.present = present])
    PROVE  Ceremonial' /\ CeremoniesGoOn
<1> DEFINE r == [ceremony[id] EXCEPT !.present = present]
<1>1. Set(id, r)
  OBVIOUS
<1>2. id \in Ceremonies =>
          /\ Row(r) /\ \A f \in RowFields \ {"present"} : r[f] = ceremony[id][f]
  BY RowPresent DEF RecoveryInv, Ceremonial, Open
<1> HIDE DEF r
<1> QED
  BY <1>1, <1>2, CeremonySet DEF RowFields, RecoveryInv

LEMMA AbortServedKeeps ==
    ASSUME RecoveryInv, UNCHANGED vaultVars, NEW c \in calls, AbortServed(c)
    PROVE  RecoveryInv'
<1>1. UNCHANGED server /\ Become(Denied(WithoutCall(Page, c)))
  BY DEF AbortServed
<1>2. Ceremonial' /\ CeremoniesGoOn
  <2>1. CASE UNCHANGED ceremony
    BY <2>1, CeremoniesStay DEF RecoveryInv, recoveryVars, vaultVars
  <2>2. CASE Open(c.ceremony) /\ Set(c.ceremony, [ceremony[c.ceremony] EXCEPT !.state = "over"])
    BY <2>2, OverIsSet
  <2> QED
    BY <2>1, <2>2 DEF AbortServed
<1>3. Sound(Denied(WithoutCall(Page, c)))
  BY WithoutCallIsSound, DeniedIsSound DEF RecoveryInv, TabInv
<1>4. Sound(Page)'
  BY <1>1, <1>2, <1>3, SetGoesOn, StepGoesOn
<1> QED
  BY <1>1, <1>2, <1>4, SetKeeps

\* The page does not notice.
LEMMA UnnoticedKeeps ==
    ASSUME RecoveryInv, UNCHANGED vaultVars, UNCHANGED server, UNCHANGED pageVars,
           Ceremonial' /\ CeremoniesGoOn
    PROVE  RecoveryInv'
<1>1. Sound(Page)'
  BY SetGoesOn, StayGoesOn DEF RecoveryInv, TabInv
<1> QED
  BY <1>1, SetKeeps

LEMMA PresenceConfirmedKeeps ==
    ASSUME RecoveryInv, UNCHANGED vaultVars, PresenceConfirmed
    PROVE  RecoveryInv'
  BY PresentIsSet, UnnoticedKeeps DEF PresenceConfirmed

LEMMA PresenceLapsesKeeps ==
    ASSUME RecoveryInv, UNCHANGED vaultVars, NEW id, PresenceLapses(id)
    PROVE  RecoveryInv'
  BY PresentIsSet, UnnoticedKeeps DEF PresenceLapses

LEMMA CeremonyExpiresKeeps ==
    ASSUME RecoveryInv, UNCHANGED vaultVars, NEW id, CeremonyExpires(id)
    PROVE  RecoveryInv'
  BY OverIsSet, UnnoticedKeeps DEF CeremonyExpires

LEMMA OthersAbortKeeps ==
    ASSUME RecoveryInv, UNCHANGED vaultVars, NEW id, OthersAbort(id)
    PROVE  RecoveryInv'
  BY OverIsSet, UnnoticedKeeps DEF OthersAbort

LEMMA OthersStartKeeps ==
    ASSUME RecoveryInv, UNCHANGED vaultVars, NEW situation \in Situations,
           OthersStart(situation)
    PROVE  RecoveryInv'
<1> DEFINE candidate(typed, new) == Candidate(vault, situation, typed, new)
           made(typed, new) == [situation |-> situation, candidate |-> candidate(typed, new),
                                generation |-> vault.generation, copies |-> TRUE]
<1>1. PICK typed \in TypedNow(situation), new \in Drawn, id \in NextId :
          /\ CanCreate(vault, situation, typed)
          /\ Startable(vault.generation, situation, candidate(typed, new))
          /\ Begun(id, "other", made(typed, new))
  BY DEF OthersStart
<1>2. UNCHANGED server /\ UNCHANGED pageVars /\ HaveKeys
  BY DEF OthersStart
<1>3. typed \in TypedFor(situation) /\ new \in NewKeys
  BY <1>2 DEF TypedNow, Drawn, NewKeys, HaveKeys
<1>4. FreshCandidate(situation, candidate(typed, new))
  BY <1>1, <1>3 DEF FreshCandidate
<1> HIDE DEF candidate
<1>5. /\ Made(made(typed, new)) /\ made(typed, new).generation = vault.generation
      /\ CandidateAccepted(vault, made(typed, new).situation, made(typed, new).candidate)
  BY <1>1, <1>4 DEF Made, Startable
<1> HIDE DEF made
<1>6. Ceremonial' /\ CeremoniesGoOn
  BY <1>1, <1>5, BegunIsRow
<1> QED
  BY <1>2, <1>6, UnnoticedKeeps

LEMMA OthersApproveKeeps ==
    ASSUME RecoveryInv, UNCHANGED vaultVars, NEW id \in Ceremonies, OthersApprove(id)
    PROVE  RecoveryInv'
<1> DEFINE row == ceremony[id]
<1>1. PICK typed \in TypedNow(row.situation) :
          /\ CandidateVerified(vault, row.situation, row.candidate, typed)
          /\ Set(id, [row EXCEPT !.state = "ready", !.approver = "other", !.agreed = typed])
  BY DEF OthersApprove
<1>2. row.state = "pending" /\ UNCHANGED server /\ UNCHANGED pageVars
  BY DEF OthersApprove
<1>3. Agreed(row, typed)
  <2>1. typed \in TypedFor(row.situation) /\ typed.recovery \in {known.recovery, NoSecret}
    BY <1>1 DEF TypedNow
  <2>2. row.situation = "rotate_root_key" => typed.recovery \in RecoverySecrets
    BY <2>1 DEF TypedFor, Asks
  <2>3. CustodyIsTyped(row.situation, typed)
    BY <2>1, <2>2, SecretsAreTyped DEF CustodyIsTyped
  <2> QED
    BY <1>1, <2>1, <2>3 DEF Agreed
<1>4. DOMAIN row = RowFields
  BY <1>2 DEF RecoveryInv, Ceremonial, Row
<1>5. [row EXCEPT !.state = "ready", !.approver = "other", !.agreed = typed]
      = [row EXCEPT !.state = "ready", !.approver = "other", !.present = row.present,
                    !.agreed = typed]
  BY <1>4 DEF RowFields
<1>6. Ceremonial' /\ CeremoniesGoOn
  <2>1. Set(id, [row EXCEPT !.state = "ready", !.approver = "other", !.present = row.present,
                            !.agreed = typed])
    BY <1>1, <1>5
  <2> QED
    BY <1>2, <1>3, <2>1, ApprovedIsRow
<1> QED
  BY <1>2, <1>6, UnnoticedKeeps

\* What is activated is what a second operator verified: a step of KeyVault.
LEMMA ActivatedIsCeremony ==
    ASSUME RecoveryInv, NEW id \in Ceremonies, Activatable(ceremony[id]), Activated(id)
    PROVE  VaultNext
<1> DEFINE row == ceremony[id]
<1>1. Row(row) /\ row.state = "ready" /\ row.generation = vault.generation
  BY DEF RecoveryInv, Ceremonial, Activatable
<1>2. vault.generation \in Nat
  BY DEF RecoveryInv, VaultInv, VaultTypeOK, Vault
<1>3. /\ ~Outdated(row.generation) /\ row.situation \in Situations
      /\ FreshCandidate(row.situation, row.candidate)
      /\ CandidateAccepted(vault, row.situation, row.candidate)
      /\ Agreed(row, row.agreed)
  BY <1>1, <1>2 DEF Row, Outdated
<1>4. PICK typed \in TypedFor(row.situation), new \in NewKeys :
          /\ CanCreate(vault, row.situation, typed)
          /\ row.candidate = Candidate(vault, row.situation, typed, new)
  BY <1>3 DEF FreshCandidate
<1>5. /\ row.agreed \in TypedFor(row.situation) /\ CustodyIsTyped(row.situation, row.agreed)
      /\ CandidateVerified(vault, row.situation, row.candidate, row.agreed)
  BY <1>3 DEF Agreed
<1>6. /\ vault' = Installed(vault, row.candidate)
      /\ used' = used \cup {row.candidate.content}
      /\ known' = Remembered(row.situation, row.agreed)
  BY DEF Activated
<1>7. Ceremony(row.situation, typed, new, row.agreed)
  BY <1>3, <1>4, <1>5, <1>6 DEF Ceremony
<1>8. vault'.generation = vault.generation + 1
  BY <1>6 DEF Installed
<1> QED
  BY <1>3, <1>4, <1>5, <1>7, <1>8 DEF VaultNext

LEMMA ActivatedReplaces ==
    ASSUME RecoveryInv, NEW id \in Ceremonies, Activatable(ceremony[id]), Activated(id)
    PROVE  VaultInv' /\ Ceremonial' /\ Backend' /\ Replaced
<1> DEFINE r == [ceremony[id] EXCEPT !.state = "activated"]
<1>1. VaultInv' /\ vault'.generation = vault.generation + 1
  BY ActivatedIsCeremony, VaultStepInv DEF RecoveryInv, VaultNext
<1>2. vault.generation \in Nat
  BY DEF RecoveryInv, VaultInv, VaultTypeOK, Vault
<1>3. /\ server.generation \in Nat \ {0} /\ DOMAIN server' = ServerFields
      /\ server'.generation = server.generation + 1 /\ ~server'.admits
  BY DEF RecoveryInv, TabInv, Backend, ServerFields, Activated
<1>4. Row(ceremony[id]) /\ ceremony[id].state = "ready"
  BY DEF RecoveryInv, Ceremonial, Activatable
<1>5. /\ Row(r) /\ r.state = "activated"
      /\ \A f \in RowFields \ {"state"} : r[f] = ceremony[id][f]
  BY <1>4, RowMoves DEF Row
<1>6. ceremony' = [ceremony EXCEPT ![id] = r] /\ DOMAIN ceremony = Ceremonies
  BY DEF Activated, Set, RecoveryInv, Ceremonial
<1> HIDE DEF r
<1>7. \A i \in Ceremonies : ceremony'[i] = IF i = id THEN r ELSE ceremony[i]
  BY <1>6
<1>8. CeremoniesGoOn
  BY <1>4, <1>5, <1>7 DEF CeremoniesGoOn, RowFields
<1>9. ASSUME NEW i \in Ceremonies PROVE Row(ceremony[i])'
  <2>1. Row(ceremony'[i])
    BY <1>5, <1>7 DEF RecoveryInv, Ceremonial
  <2>2. Outdated(ceremony'[i].generation) \/ ceremony'[i].generation = vault.generation
        \/ ceremony'[i].state = "none"
    BY <2>1 DEF Row
  <2>3. Outdated(ceremony[i].generation)' \/ ceremony'[i].state = "none"
    BY <1>1, <1>2, <2>2 DEF Outdated
  <2> QED
    BY <2>1, <2>3 DEF Row, Agreed, Outdated
<1>10. Ceremonial'
  BY <1>6, <1>9 DEF Ceremonial, Ceremonies
<1> QED
  BY <1>1, <1>2, <1>3, <1>8, <1>10 DEF Replaced, Backend

LEMMA ActivateServedKeeps ==
    ASSUME RecoveryInv, NEW c \in calls, ActivateServed(c)
    PROVE  RecoveryInv' /\ [VaultNext]_vaultVars
<1>1. /\ c.kind = "task" /\ c.name = "activate" /\ c.stage = "asked"
      /\ \/ /\ Activatable(ceremony[c.got.id]) /\ Activated(c.got.id)
         \/ UNCHANGED <<recoveryVars, server>>
      /\ \/ Become(Onward(Page, c, "done", Nothing))
         \/ Become(Onward(Page, c, "failed", Nothing))
  BY DEF ActivateServed, IsTask
<1>2. DOMAIN c = TaskFields /\ c.got.id \in Ceremonies
  BY <1>1, KeyTaskOf DEF RecoveryInv, TabInv, KeyTask, ActivateTask, Started
<1>3. /\ KeyTask([c EXCEPT !.stage = "failed", !.got = Nothing])
      /\ KeyTask([c EXCEPT !.stage = "done", !.got = Nothing])
  BY <1>1, <1>2 DEF KeyTask, ActivateTask, TaskFields
<1>4. /\ Sound(Onward(Page, c, "done", Nothing))
      /\ Sound(Onward(Page, c, "failed", Nothing))
  BY <1>1, <1>2, <1>3, OnwardIsSound DEF RecoveryInv, TabInv
<1>5. CASE Activatable(ceremony[c.got.id]) /\ Activated(c.got.id)
  <2>1. VaultInv' /\ Ceremonial' /\ Backend' /\ Replaced
    BY <1>2, <1>5, ActivatedReplaces
  <2>2. Sound(Page)'
    BY <1>1, <1>4, <2>1, StepReplaced DEF RecoveryInv
  <2> QED
    BY <1>2, <1>5, <2>1, <2>2, ActivatedIsCeremony DEF RecoveryInv, TabInv
<1>6. CASE UNCHANGED <<recoveryVars, server>>
  <2>1. UNCHANGED recoveryVars /\ UNCHANGED server /\ UNCHANGED vaultVars
    BY <1>6 DEF recoveryVars, vaultVars
  <2>2. TabInv'
    BY <1>1, <1>4, <2>1, CalmStep DEF RecoveryInv, TabInv
  <2> QED
    BY <2>1, <2>2, CeremoniesStay, VaultStays DEF RecoveryInv
<1> QED
  BY <1>1, <1>5, <1>6

LEMMA OthersActivateKeeps ==
    ASSUME RecoveryInv, NEW id \in Ceremonies, OthersActivate(id)
    PROVE  RecoveryInv' /\ [VaultNext]_vaultVars
<1>1. Activatable(ceremony[id]) /\ Activated(id) /\ UNCHANGED pageVars
  BY DEF OthersActivate
<1>2. VaultInv' /\ Ceremonial' /\ Backend' /\ Replaced
  BY <1>1, ActivatedReplaces
<1>3. Sound(Page)'
  BY <1>1, <1>2, StayReplaced DEF RecoveryInv, TabInv
<1> QED
  BY <1>1, <1>2, <1>3, ActivatedIsCeremony DEF RecoveryInv, TabInv


\* The keys and the ceremonies are left alone: that much is there to be kept.
LEMMA TabKeeps ==
    ASSUME RecoveryInv, UNCHANGED recoveryVars, TabInv'
    PROVE  RecoveryInv' /\ UNCHANGED vaultVars
<1>1. UNCHANGED vaultVars
  BY DEF recoveryVars, vaultVars
<1> QED
  BY <1>1, CeremoniesStay, VaultStays DEF RecoveryInv

LEMMA RecoveryPageKeeps ==
    ASSUME RecoveryInv, RecoveryPageNext
    PROVE  RecoveryInv' /\ [VaultNext]_vaultVars
<1>0. TabInv /\ Ceremonial
  BY DEF RecoveryInv
<1>1. CASE UNCHANGED recoveryVars /\
          (\/ VisitRecovery \/ LeaveRecovery \/ RecoveryMounted \/ RefreshDue
           \/ \E situation \in Situations : ChooseSituation(situation)
           \/ ChooseDifferentSituation \/ Prepare \/ AcknowledgeCopies \/ StartPrepared
           \/ Approve \/ Activate
           \/ \E c \in calls :
                  \/ RefreshServed(c) \/ RefreshAnswered(c) \/ MetadataRead(c)
                  \/ CandidateMade(c) \/ DerivationFails(c) \/ StartAnswered(c)
                  \/ CandidateChecked(c) \/ ApproveAnswered(c) \/ ActivateAnswered(c))
  <2>1. TabInv'
    <3>1. ASSUME NEW c \in calls,
                 \/ RefreshServed(c) \/ RefreshAnswered(c) \/ MetadataRead(c)
                 \/ CandidateMade(c) \/ DerivationFails(c) \/ StartAnswered(c)
                 \/ CandidateChecked(c) \/ ApproveAnswered(c) \/ ActivateAnswered(c)
          PROVE  TabInv'
      BY <1>0, <1>1, <3>1, RefreshServedKeeps, RefreshAnsweredKeeps, MetadataReadKeeps,
         CandidateMadeKeeps, DerivationFailsKeeps, StartAnsweredKeeps, CandidateCheckedKeeps,
         ApproveAnsweredKeeps, ActivateAnsweredKeeps
    <3> QED
      BY <1>0, <1>1, <3>1, VisitRecoveryKeeps, LeaveRecoveryKeeps, RecoveryMountedKeeps,
         RefreshDueKeeps, ChooseSituationKeeps, ChooseDifferentSituationKeeps, PrepareKeeps,
         AcknowledgeCopiesKeeps, StartPreparedKeeps, ApproveKeeps, ActivateKeeps
  <2> QED
    BY <1>1, <2>1, TabKeeps
<1>2. CASE UNCHANGED vaultVars /\
          (\/ \E c \in calls : StartServed(c) \/ ApproveServed(c) \/ AbortServed(c)
           \/ PresenceConfirmed
           \/ \E situation \in Situations : OthersStart(situation)
           \/ \E id \in Ceremonies :
                  \/ PresenceLapses(id) \/ CeremonyExpires(id)
                  \/ OthersApprove(id) \/ OthersAbort(id))
  BY <1>2, StartServedKeeps, ApproveServedKeeps, AbortServedKeeps, PresenceConfirmedKeeps,
     OthersStartKeeps, PresenceLapsesKeeps, CeremonyExpiresKeeps, OthersApproveKeeps,
     OthersAbortKeeps
<1>3. CASE \E c \in calls : ActivateServed(c)
  BY <1>3, ActivateServedKeeps
<1>4. CASE \E id \in Ceremonies : OthersActivate(id)
  BY <1>4, OthersActivateKeeps
<1> QED
  BY <1>1, <1>2, <1>3, <1>4 DEF RecoveryPageNext
=============================================================================
